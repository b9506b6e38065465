---------------------- MODULE LinearExpressionsProofs ----------------------
(****************************************************************************)
(* A polynomial always stands for the function that was asked for, and      *)
(* without zero monomials among the operands it has none itself.            *)
(****************************************************************************)
EXTENDS LinearExpressions, TLAPS

(****************************************************************************)
(* Coefficients are only ever added, so that the order in which the         *)
(* monomials of an operand come does not matter.                            *)
(****************************************************************************)
LEMMA SumIsSum ==
    ASSUME NEW a \in Int, NEW c \in Int
    PROVE  MonomialSum(a, c) = a + c
BY DEF MonomialSum

LEMMA TermsDef ==
    ASSUME NEW f
    PROVE  f \in Terms <=> DOMAIN f \subseteq Inst /\ f \in [DOMAIN f -> Int]
<1>1. ASSUME f \in Terms
      PROVE  DOMAIN f \subseteq Inst /\ f \in [DOMAIN f -> Int]
  <2>1. PICK S \in SUBSET Inst : f \in [S -> Int]
    BY <1>1 DEF Terms
  <2>2. DOMAIN f = S
    BY <2>1
  <2> QED
    BY <2>1, <2>2
<1>2. ASSUME DOMAIN f \subseteq Inst, f \in [DOMAIN f -> Int]
      PROVE  f \in Terms
  BY <1>2 DEF Terms
<1> QED
  BY <1>1, <1>2

LEMMA CoefficientType ==
    ASSUME NEW f \in Terms, NEW x
    PROVE  Coefficient(f, x) \in Int
BY TermsDef DEF Coefficient

LEMMA WithType ==
    ASSUME NEW f \in Terms, NEW x \in Inst, NEW c \in Int
    PROVE  With(f, x, c) \in Terms
<1>1. DOMAIN With(f, x, c) = DOMAIN f \cup {x}
  BY DEF With
<1>2. With(f, x, c) \in [DOMAIN f \cup {x} -> Int]
  BY TermsDef DEF With
<1> QED
  BY <1>1, <1>2, TermsDef

LEMMA WithoutType ==
    ASSUME NEW f \in Terms, NEW x
    PROVE  Without(f, x) \in Terms
<1>1. DOMAIN Without(f, x) = DOMAIN f \ {x}
  BY DEF Without
<1>2. Without(f, x) \in [DOMAIN f \ {x} -> Int]
  BY TermsDef DEF Without
<1> QED
  BY <1>1, <1>2, TermsDef

(****************************************************************************)
(* What Polynomial::operator+= does to the coefficients.                    *)
(****************************************************************************)
LEMMA PlusAdds ==
    ASSUME NEW f \in Terms, NEW x \in Inst, NEW c \in Int
    PROVE  /\ Plus(f, x, c) \in Terms
           /\ \A y \in Inst :
                 Coefficient(Plus(f, x, c), y) = Coefficient(f, y) + (IF y = x THEN c ELSE 0)
           /\ (\A y \in DOMAIN f : f[y] # 0) /\ c # 0 =>
                 \A y \in DOMAIN Plus(f, x, c) : Plus(f, x, c)[y] # 0
<1>f. DOMAIN f \subseteq Inst /\ f \in [DOMAIN f -> Int]
  BY TermsDef
<1>1. CASE x \notin DOMAIN f
  <2>1. Plus(f, x, c) = With(f, x, c)
    BY <1>1 DEF Plus
  <2> QED
    BY <1>f, <1>1, <2>1, WithType DEF With, Coefficient
<1>2. CASE x \in DOMAIN f /\ f[x] + c = 0
  <2>1. f[x] \in Int
    BY <1>f, <1>2
  <2>2. Plus(f, x, c) = Without(f, x)
    BY <2>1, <1>2, SumIsSum DEF Plus
  <2>3. \A y \in Inst \ {x} : Coefficient(Without(f, x), y) = Coefficient(f, y) + 0
    BY <1>f DEF Without, Coefficient
  <2>4. Coefficient(Without(f, x), x) = Coefficient(f, x) + c
    BY <1>2 DEF Without, Coefficient
  <2>5. \A y \in DOMAIN Without(f, x) : y \in DOMAIN f /\ Without(f, x)[y] = f[y]
    BY DEF Without
  <2>6. Without(f, x) \in Terms
    BY WithoutType
  <2> QED
    BY <2>2, <2>3, <2>4, <2>5, <2>6
<1>3. CASE x \in DOMAIN f /\ f[x] + c # 0
  <2>1. f[x] \in Int
    BY <1>f, <1>3
  <2>2. Plus(f, x, c) = With(f, x, f[x] + c)
    BY <2>1, <1>3, SumIsSum DEF Plus
  <2>3. f[x] + c \in Int
    BY <2>1
  <2> QED
    BY <1>f, <1>3, <2>1, <2>2, <2>3, WithType DEF With, Coefficient
<1> QED
  BY <1>1, <1>2, <1>3

------------------------------------------------------------------------------
NoZeros ==
    ~zeroGiven =>
        /\ \A x \in DOMAIN m_terms : m_terms[x] # 0
        /\ \A x \in DOMAIN rest : rest[x] # 0

(****************************************************************************)
(* The inductive invariant.                                                 *)
(****************************************************************************)
IInv == TypeOK /\ MeansExpected /\ NoZeros

LEMMA InitInvariant == Init => IInv
<1> SUFFICES ASSUME Init PROVE IInv
  OBVIOUS
<1>1. NoTerms \in Terms /\ DOMAIN NoTerms = {}
  BY TermsDef DEF NoTerms
<1>2. \A x \in Inst : Coefficient(NoTerms, x) = 0
  BY <1>1 DEF Coefficient
<1>3. TypeOK
  <2>1. expected \in [Inst \cup {nullptr} -> Int]
    BY DEF Init
  <2>2. self \in BOOLEAN /\ zeroGiven \in BOOLEAN
    BY DEF Init
  <2>3. m_CTerm \in Int /\ sign \in {1, -1} /\ pc \in {"ready", "loop", "abort", "undefined"}
    BY DEF Init
  <2>4. m_terms \in Terms /\ rest \in Terms
    BY <1>1 DEF Init
  <2> QED
    BY <2>1, <2>2, <2>3, <2>4 DEF TypeOK
<1>4. MeansExpected
  BY <1>2 DEF Init, MeansExpected
<1>5. NoZeros
  BY <1>1 DEF Init, NoZeros
<1> QED
  BY <1>3, <1>4, <1>5 DEF IInv

(****************************************************************************)
(* What comes before and after a product and a quotient.                    *)
(****************************************************************************)
LEMMA Products ==
    ASSUME NEW a \in Int, NEW r \in Int, r # 0
    PROVE  a * r \in Int /\ (a # 0 => a * r # 0)
OBVIOUS

LEMMA Quotients ==
    ASSUME NEW a \in Int, NEW r \in Nat, r # 0, a % r = 0
    PROVE  a \div r \in Int /\ (a # 0 => a \div r # 0)
OBVIOUS

LEMMA ZeroDivided ==
    ASSUME NEW r \in Nat, r # 0
    PROVE  0 \div r = 0
OBVIOUS

------------------------------------------------------------------------------
(****************************************************************************)
(* The steps.                                                               *)
(****************************************************************************)
LEMMA PlusMonomialInvariant ==
    ASSUME IInv, NEW s \in {1, -1}, NEW c \in Int, NEW x \in Inst \cup {nullptr},
           PlusMonomial(s, [m_coef |-> c, m_inst |-> x])
    PROVE  IInv'
<1> USE LinearAssumption DEF PlusMonomial, Ready, Expect
<1>1. s * c \in Int /\ (c # 0 => s * c # 0)
  OBVIOUS
<1>2. expected' = [expected EXCEPT ![x] = @ + s * c]
  OBVIOUS
<1>3. expected' \in [Inst \cup {nullptr} -> Int]
  BY <1>1, <1>2 DEF IInv, TypeOK
<1>4. CASE x = nullptr
  <2>1. m_CTerm' = m_CTerm + s * c /\ UNCHANGED <<m_terms, rest, sign, self, pc>>
    BY <1>4
  <2>2. TypeOK'
    BY <1>1, <1>3, <2>1 DEF IInv, TypeOK
  <2>3. MeansExpected'
    BY <1>1, <1>2, <1>4, <2>1 DEF IInv, TypeOK, MeansExpected
  <2>4. NoZeros'
    BY <2>1 DEF IInv, NoZeros
  <2> QED
    BY <2>2, <2>3, <2>4 DEF IInv
<1>5. CASE x \in Inst
  <2>1. m_terms' = Plus(m_terms, x, s * c) /\ UNCHANGED <<m_CTerm, rest, sign, self, pc>>
    BY <1>5
  <2>2. m_terms \in Terms
    BY DEF IInv, TypeOK
  <2>3. /\ m_terms' \in Terms
        /\ \A y \in Inst : Coefficient(m_terms', y) = Coefficient(m_terms, y) + (IF y = x THEN s * c ELSE 0)
        /\ (\A y \in DOMAIN m_terms : m_terms[y] # 0) /\ s * c # 0 =>
              \A y \in DOMAIN m_terms' : m_terms'[y] # 0
    BY <1>1, <1>5, <2>1, <2>2, PlusAdds
  <2>4. TypeOK'
    BY <1>3, <2>1, <2>3 DEF IInv, TypeOK
  <2>5. \A y \in Inst : Coefficient(m_terms, y) = expected[y]
    BY <2>2, CoefficientType DEF IInv, MeansExpected
  <2>6. \A y \in Inst : Coefficient(m_terms', y) = expected'[y]
    BY <1>1, <1>2, <2>3, <2>5 DEF IInv, TypeOK
  <2>7. m_CTerm' = expected'[nullptr]
    BY <1>2, <1>5, <2>1 DEF IInv, TypeOK, MeansExpected
  <2>8. MeansExpected'
    BY <2>1, <2>3, <2>6, <2>7, CoefficientType DEF MeansExpected
  <2>9. NoZeros'
    BY <1>1, <1>5, <2>1, <2>3 DEF IInv, NoZeros
  <2> QED
    BY <2>4, <2>8, <2>9 DEF IInv
<1> QED
  BY <1>4, <1>5

(****************************************************************************)
(* The start of an operator with a polynomial q and a constant c.           *)
(****************************************************************************)
LEMMA StartInvariant ==
    ASSUME IInv, NEW s \in {1, -1}, NEW c \in Int, NEW q \in Terms, Ready,
           expected' = [x \in DOMAIN expected |->
                  expected[x] + s * (IF x = nullptr THEN c ELSE Coefficient(q, x))],
           m_CTerm' = m_CTerm + s * c, rest' = q, sign' = s, self' \in BOOLEAN,
           zeroGiven' \in BOOLEAN,
           ~zeroGiven' => ~zeroGiven /\ \A x \in DOMAIN q : q[x] # 0,
           pc' = "loop", UNCHANGED m_terms
    PROVE  IInv'
<1> USE LinearAssumption
<1>1. \A x : Coefficient(q, x) \in Int
  BY CoefficientType
<1>2. DOMAIN expected = Inst \cup {nullptr}
  BY DEF IInv, TypeOK
<1>3. \A x \in Inst : expected'[x] = expected[x] + s * Coefficient(q, x)
  BY <1>2
<1>4. expected'[nullptr] = expected[nullptr] + s * c
  BY <1>2
<1>5. TypeOK'
  <2>1. expected' \in [Inst \cup {nullptr} -> Int]
    BY <1>1, <1>2 DEF IInv, TypeOK
  <2> QED
    BY <2>1 DEF IInv, TypeOK
<1>6. MeansExpected'
  <2>1. m_terms \in Terms
    BY DEF IInv, TypeOK
  <2>2. \A x \in Inst : Coefficient(m_terms, x) = expected[x]
    BY <2>1, CoefficientType DEF IInv, MeansExpected, Ready
  <2>3. m_CTerm = expected[nullptr]
    BY DEF IInv, MeansExpected, Ready
  <2> QED
    BY <1>3, <1>4, <2>2, <2>3 DEF MeansExpected
<1>7. NoZeros'
  BY DEF IInv, NoZeros
<1> QED
  BY <1>5, <1>6, <1>7 DEF IInv

LEMMA NextTermInvariant ==
    ASSUME IInv, NEW x \in DOMAIN rest, NextTerm(x)
    PROVE  IInv'
<1> USE LinearAssumption DEF NextTerm
<1>1. m_terms \in Terms /\ rest \in Terms /\ sign \in {1, -1}
  BY DEF IInv, TypeOK
<1>2. x \in Inst /\ rest[x] \in Int
  BY <1>1, TermsDef
<1>3. sign * rest[x] \in Int /\ (rest[x] # 0 => sign * rest[x] # 0)
  BY <1>1, <1>2
<1>4. /\ m_terms' \in Terms
      /\ \A y \in Inst : Coefficient(m_terms', y) =
                            Coefficient(m_terms, y) + (IF y = x THEN sign * rest[x] ELSE 0)
      /\ (\A y \in DOMAIN m_terms : m_terms[y] # 0) /\ sign * rest[x] # 0 =>
            \A y \in DOMAIN m_terms' : m_terms'[y] # 0
  BY <1>1, <1>2, <1>3, PlusAdds
<1>5. rest' \in Terms
  BY <1>1, WithoutType
<1>6. \A y \in Inst : Coefficient(rest', y) = IF y = x THEN 0 ELSE Coefficient(rest, y)
  BY DEF Without, Coefficient
<1>7. Coefficient(rest, x) = rest[x]
  BY DEF Coefficient
<1>8. TypeOK'
  BY <1>4, <1>5 DEF IInv, TypeOK
<1>9. MeansExpected'
  <2>1. \A y \in Inst : Coefficient(m_terms, y) \in Int /\ Coefficient(rest, y) \in Int
    BY <1>1, CoefficientType
  <2>2. \A y \in Inst : Coefficient(m_terms, y) + sign * Coefficient(rest, y) = expected[y]
    BY DEF IInv, MeansExpected
  <2>3. \A y \in Inst : Coefficient(m_terms', y) + sign * Coefficient(rest', y) = expected[y]
    BY <1>1, <1>2, <1>3, <1>4, <1>6, <1>7, <2>1, <2>2
  <2> QED
    BY <2>3 DEF IInv, MeansExpected
<1>10. NoZeros'
  <2>1. \A y \in DOMAIN rest' : y \in DOMAIN rest /\ rest'[y] = rest[y]
    BY DEF Without
  <2> QED
    BY <1>3, <1>4, <2>1 DEF IInv, NoZeros
<1> QED
  BY <1>8, <1>9, <1>10 DEF IInv

LEMMA NextTermOfSelfInvariant ==
    ASSUME IInv, NEW x \in DOMAIN rest, NextTermOfSelf(x)
    PROVE  IInv'
<1> USE DEF NextTermOfSelf
<1>1. m_terms \in Terms /\ rest \in Terms /\ sign \in {1, -1}
  BY DEF IInv, TypeOK
<1>2. x \in Inst /\ rest[x] \in Int
  BY <1>1, TermsDef
<1>3. sign * rest[x] \in Int /\ (rest[x] # 0 => sign * rest[x] # 0)
  BY <1>1, <1>2
<1>4. /\ m_terms' \in Terms
      /\ (\A y \in DOMAIN m_terms : m_terms[y] # 0) /\ sign * rest[x] # 0 =>
            \A y \in DOMAIN m_terms' : m_terms'[y] # 0
  BY <1>1, <1>2, <1>3, PlusAdds
<1> QED
  BY <1>3, <1>4 DEF IInv, TypeOK, MeansExpected, NoZeros

LEMMA EndTermsInvariant ==
    ASSUME IInv, EndTerms
    PROVE  IInv'
<1> USE DEF EndTerms
<1>1. \A x \in Inst : Coefficient(rest, x) = 0
  BY DEF Coefficient
<1>2. \A x \in Inst : Coefficient(m_terms, x) \in Int
  BY CoefficientType DEF IInv, TypeOK
<1>3. \A x \in Inst : Coefficient(m_terms, x) + sign * Coefficient(rest, x) = expected[x]
  BY DEF IInv, MeansExpected
<1>4. \A x \in Inst : Coefficient(m_terms, x) + 0 = expected[x]
  BY <1>1, <1>2, <1>3 DEF IInv, TypeOK
<1> QED
  BY <1>4 DEF IInv, TypeOK, MeansExpected, NoZeros

LEMMA TimesInvariant ==
    ASSUME IInv, NEW r \in Int, Times(r)
    PROVE  IInv'
<1> USE LinearAssumption DEF Times, Ready, Expect
<1>1. DOMAIN expected = Inst \cup {nullptr} /\ expected \in [Inst \cup {nullptr} -> Int]
  BY DEF IInv, TypeOK
<1>2. m_terms \in Terms /\ DOMAIN m_terms \subseteq Inst /\ m_terms \in [DOMAIN m_terms -> Int]
  BY TermsDef DEF IInv, TypeOK
<1>3. \A x \in Inst : Coefficient(m_terms, x) = expected[x]
  BY <1>2, CoefficientType DEF IInv, MeansExpected
<1>4. \A x \in Inst \cup {nullptr} : expected'[x] = expected[x] * r
  BY <1>1
<1>5. expected' \in [Inst \cup {nullptr} -> Int]
  BY <1>1
<1>6. m_CTerm' = expected'[nullptr]
  BY <1>4 DEF IInv, MeansExpected
<1>7. CASE r = 0
  <2>1. m_terms' = NoTerms /\ NoTerms \in Terms /\ DOMAIN NoTerms = {}
    BY <1>7, TermsDef DEF NoTerms
  <2>2. \A x \in Inst : expected'[x] = 0
    BY <1>1, <1>4, <1>7
  <2> QED
    BY <1>5, <1>6, <2>1, <2>2 DEF IInv, TypeOK, MeansExpected, NoZeros, Coefficient
<1>8. CASE r # 0
  <2>1. m_terms' = [x \in DOMAIN m_terms |-> m_terms[x] * r]
    BY <1>8
  <2>2. DOMAIN m_terms' = DOMAIN m_terms /\ m_terms' \in [DOMAIN m_terms -> Int]
    BY <1>2, <2>1
  <2>3. m_terms' \in Terms
    BY <1>2, <2>2, TermsDef
  <2>4. \A x \in Inst : Coefficient(m_terms', x) = expected'[x]
    <3>1. TAKE x \in Inst
    <3>2. CASE x \in DOMAIN m_terms
      BY <1>3, <1>4, <2>1, <3>2 DEF Coefficient
    <3>3. CASE x \notin DOMAIN m_terms
      <4>1. expected[x] = 0 /\ Coefficient(m_terms', x) = 0
        BY <1>3, <2>2, <3>3 DEF Coefficient
      <4> QED
        BY <1>4, <4>1
    <3> QED
      BY <3>2, <3>3
  <2>5. TypeOK'
    BY <1>5, <2>3 DEF IInv, TypeOK
  <2>6. MeansExpected'
    BY <1>1, <1>5, <1>6, <2>4 DEF MeansExpected
  <2>7. NoZeros'
    <3>1. \A x \in DOMAIN m_terms : m_terms[x] # 0 => m_terms'[x] # 0
      BY <1>2, <1>8, <2>1, Products
    <3> QED
      BY <2>2, <3>1 DEF IInv, NoZeros
  <2> QED
    BY <2>5, <2>6, <2>7 DEF IInv
<1> QED
  BY <1>7, <1>8

LEMMA DividedByInvariant ==
    ASSUME IInv, NEW r \in Nat, DividedBy(r)
    PROVE  IInv'
<1> USE LinearAssumption DEF DividedBy, Ready
<1>1. DOMAIN expected = Inst \cup {nullptr} /\ expected \in [Inst \cup {nullptr} -> Int]
  BY DEF IInv, TypeOK
<1>2. m_terms \in Terms /\ DOMAIN m_terms \subseteq Inst /\ m_terms \in [DOMAIN m_terms -> Int]
  BY TermsDef DEF IInv, TypeOK
<1>3. \A x \in Inst : Coefficient(m_terms, x) = expected[x]
  BY <1>2, CoefficientType DEF IInv, MeansExpected
<1>4. \A x \in Inst \cup {nullptr} : expected'[x] = expected[x] \div r
  BY <1>1
<1>5. expected' \in [Inst \cup {nullptr} -> Int]
  BY <1>1
<1>6. m_CTerm' = expected'[nullptr] /\ m_CTerm' \in Int
  BY <1>1, <1>4 DEF IInv, MeansExpected
<1>7. DOMAIN m_terms' = DOMAIN m_terms /\ m_terms' \in [DOMAIN m_terms -> Int]
  BY <1>2
<1>8. m_terms' \in Terms
  BY <1>2, <1>7, TermsDef
<1>9. \A x \in Inst : Coefficient(m_terms', x) = expected'[x]
  <2>1. TAKE x \in Inst
  <2>2. CASE x \in DOMAIN m_terms
    BY <1>3, <1>4, <2>2 DEF Coefficient
  <2>3. CASE x \notin DOMAIN m_terms
    <3>1. expected[x] = 0 /\ Coefficient(m_terms', x) = 0
      BY <1>3, <1>7, <2>3 DEF Coefficient
    <3> QED
      BY <1>4, <3>1, ZeroDivided
  <2> QED
    BY <2>2, <2>3
<1>10. TypeOK'
  BY <1>5, <1>6, <1>8 DEF IInv, TypeOK
<1>11. MeansExpected'
  BY <1>1, <1>5, <1>6, <1>9 DEF MeansExpected
<1>12. NoZeros'
  <2>1. \A x \in DOMAIN m_terms : m_terms[x] # 0 => m_terms'[x] # 0
    BY <1>2, Quotients
  <2> QED
    BY <1>7, <2>1 DEF IInv, NoZeros
<1> QED
  BY <1>10, <1>11, <1>12 DEF IInv

------------------------------------------------------------------------------
LEMMA NextInvariant == IInv /\ [Next]_vars => IInv'
<1> SUFFICES ASSUME IInv, [Next]_vars PROVE IInv'
  OBVIOUS
<1> USE LinearAssumption
<1>1. ASSUME NEW s \in {1, -1}, NEW c \in Coefs, NEW x \in Inst \cup {nullptr},
             PlusMonomial(s, [m_coef |-> c, m_inst |-> x])
      PROVE  IInv'
  BY <1>1, PlusMonomialInvariant
<1>2. ASSUME NEW s \in {1, -1}, NEW c \in Int, NEW q \in Terms, PlusPolynomial(s, c, q)
      PROVE  IInv'
  <2>1. (zeroGiven' <=> zeroGiven \/ \E x \in DOMAIN q : q[x] = 0) /\ zeroGiven' \in BOOLEAN
    BY <1>2 DEF PlusPolynomial
  <2>2. ~zeroGiven' => ~zeroGiven /\ \A x \in DOMAIN q : q[x] # 0
    BY <2>1
  <2> QED
    BY <1>2, <2>1, <2>2, StartInvariant DEF PlusPolynomial, Expect
<1>3. ASSUME NEW s \in {1, -1}, PlusSelf(s)
      PROVE  IInv'
  <2>1. m_terms \in Terms /\ m_CTerm \in Int /\ DOMAIN expected = Inst \cup {nullptr}
    BY DEF IInv, TypeOK
  <2>2. m_CTerm = expected[nullptr] /\ \A x \in Inst : Coefficient(m_terms, x) = expected[x]
    BY <1>3, <2>1, CoefficientType DEF IInv, MeansExpected, PlusSelf, Ready
  <2>3. expected' = [x \in DOMAIN expected |->
                  expected[x] + s * (IF x = nullptr THEN m_CTerm ELSE Coefficient(m_terms, x))]
    BY <1>3, <2>1, <2>2 DEF PlusSelf, Expect
  <2>4. zeroGiven' \in BOOLEAN /\ (~zeroGiven' => ~zeroGiven /\ \A x \in DOMAIN m_terms : m_terms[x] # 0)
    BY <1>3 DEF PlusSelf, IInv, TypeOK, NoZeros
  <2> QED
    BY <1>3, <2>1, <2>3, <2>4, StartInvariant DEF PlusSelf
<1>4. ASSUME NEW x \in DOMAIN rest, NextTerm(x) \/ NextTermOfSelf(x)
      PROVE  IInv'
  BY <1>4, NextTermInvariant, NextTermOfSelfInvariant
<1>5. CASE EndTerms
  BY <1>5, EndTermsInvariant
<1>6. ASSUME NEW r \in Factors, Times(r)
      PROVE  IInv'
  BY <1>6, TimesInvariant
<1>7. ASSUME NEW r \in Divisors, DividedBy(r)
      PROVE  IInv'
  BY <1>7, DividedByInvariant
<1>8. CASE DividedByZero
  BY <1>8 DEF DividedByZero, Ready, IInv, TypeOK, MeansExpected, NoZeros
<1>9. CASE UNCHANGED vars
  BY <1>9 DEF vars, IInv, TypeOK, MeansExpected, NoZeros, Coefficient
<1>10. \A q \in CoefTerms : q \in Terms
  <2>1. TAKE q \in CoefTerms
  <2>2. PICK S \in SUBSET Inst : q \in [S -> Coefs]
    BY <2>1 DEF CoefTerms
  <2>3. q \in [S -> Int]
    BY <2>2
  <2> QED
    BY <2>3 DEF Terms
<1>11. m_CTerm \in Int /\ m_terms \in Terms
  BY DEF IInv, TypeOK
<1> QED
  BY <1>1, <1>2, <1>3, <1>4, <1>5, <1>6, <1>7, <1>8, <1>9, <1>10, <1>11 DEF Next, Ended

THEOREM Invariance == Spec => []IInv
<1>1. Init => IInv
  BY InitInvariant
<1>2. IInv /\ [Next]_vars => IInv'
  BY NextInvariant
<1> QED
  BY <1>1, <1>2, PTL DEF Spec

(****************************************************************************)
(* The operators of Polynomial compute the function asked for, for every    *)
(* set of instructions and coefficients: also in the middle of the loop     *)
(* over the operand's monomials, whatever their order.                      *)
(****************************************************************************)
THEOREM ComputesExpected == Spec => []MeansExpected
<1>1. IInv => MeansExpected
  BY DEF IInv
<1> QED
  BY <1>1, Invariance, PTL

(****************************************************************************)
(* Operands without zero monomials give polynomials without any, whose      *)
(* monomials are then those of exactly the instructions that matter.        *)
(****************************************************************************)
THEOREM StaysCanonical == Spec => []Canonical
<1>1. IInv => Canonical
  <2> SUFFICES ASSUME IInv, pc = "ready", ~zeroGiven
               PROVE  DOMAIN m_terms = {x \in Inst : expected[x] # 0}
    BY DEF Canonical
  <2>1. DOMAIN m_terms \subseteq Inst /\ m_terms \in Terms
    BY TermsDef DEF IInv, TypeOK
  <2>2. \A x \in Inst : Coefficient(m_terms, x) = expected[x]
    BY <2>1, CoefficientType DEF IInv, MeansExpected
  <2>3. \A x \in DOMAIN m_terms : m_terms[x] # 0
    BY DEF IInv, NoZeros
  <2> QED
    BY <2>1, <2>2, <2>3 DEF Coefficient
<1> QED
  BY <1>1, Invariance, PTL
==============================================================================
