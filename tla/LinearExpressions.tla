------------------------- MODULE LinearExpressions -------------------------
(****************************************************************************)
(* Monomial and Polynomial of expr.hpp: sums of instructions with           *)
(* coefficients, changed in place.  The set of monomials is ordered by      *)
(* instruction, so it holds at most one for each: here a function from the  *)
(* instructions that have one to its coefficient.  An operator that takes   *)
(* a polynomial goes through its monomials one by one, and the polynomial   *)
(* may be the one being changed.                                            *)
(*                                                                          *)
(* Coefficients are integers here, where the code has doubles: rounding and *)
(* underflow are left out, and a division is one that comes out even.       *)
(* Nothing in the program uses the classes; the actions are their interface.*)
(****************************************************************************)
EXTENDS Integers, FiniteSets

CONSTANTS
    Inst,       \* the instructions
    nullptr,    \* in place of the instruction of a constant
    Coefs,      \* coefficients given by the caller
    Factors,    \* multipliers
    Divisors,
    Bound       \* bound on the coefficients a caller brings about

ASSUME LinearAssumption ==
    /\ nullptr \notin Inst
    /\ Coefs \subseteq Int
    /\ Factors \subseteq Int
    /\ Divisors \subseteq Nat
    /\ Bound \in Nat

Monomial == [m_coef : Int, m_inst : Inst \cup {nullptr}]

Terms == UNION {[S -> Int] : S \in SUBSET Inst}

NoTerms == [x \in {} |-> 0]

VARIABLES
    m_CTerm,    \* the constant of the polynomial
    m_terms,    \* its monomials
    rest,       \* the monomials of the operand still to come
    sign,       \* 1 in an addition, -1 in a subtraction
    self,       \* the operand is the polynomial itself
    expected,   \* history: the function the polynomial stands for
    zeroGiven,  \* history: an operand had a monomial with coefficient 0
    pc          \* "ready" between two operators, "loop" in one, "abort" after a
                \* failed assertion, "undefined" when an iterator is left dangling

vars == <<m_CTerm, m_terms, rest, sign, self, expected, zeroGiven, pc>>

Init ==
    /\ m_CTerm = 0
    /\ m_terms = NoTerms
    /\ rest = NoTerms
    /\ sign = 1
    /\ self = FALSE
    /\ expected = [x \in Inst \cup {nullptr} |-> 0]
    /\ zeroGiven = FALSE
    /\ pc = "ready"

Coefficient(f, x) == IF x \in DOMAIN f THEN f[x] ELSE 0     \* getCoefficientOrZero

With(f, x, c) == [y \in DOMAIN f \cup {x} |-> IF y = x THEN c ELSE f[y]]

Without(f, x) == [y \in DOMAIN f \ {x} |-> f[y]]

(****************************************************************************)
(* Monomial::operator+= for monomials of one instruction: zero takes the    *)
(* other over, and a sum of zero loses its instruction.                     *)
(****************************************************************************)
MonomialSum(a, c) == IF a = 0 THEN c ELSE IF c = 0 THEN a ELSE a + c

(****************************************************************************)
(* A mistake: the sum is put back when it is zero.                          *)
(****************************************************************************)
PlusKeepsZero(f, x, c) ==
    IF x \notin DOMAIN f THEN With(f, x, c) ELSE With(f, x, MonomialSum(f[x], c))

(****************************************************************************)
(* Polynomial::operator+= for a monomial that is no constant.  A monomial   *)
(* without a partner is put in as it is, one with a partner takes the       *)
(* partner's place unless their sum is zero.                                *)
(****************************************************************************)
Plus(f, x, c) ==
    IF x \notin DOMAIN f THEN With(f, x, c)
    ELSE IF MonomialSum(f[x], c) = 0 THEN Without(f, x)
    ELSE With(f, x, MonomialSum(f[x], c))

Within(e) == \A x \in DOMAIN e : e[x] \in -Bound..Bound

Expect(e) == expected' = e /\ Within(e)

Ready == pc = "ready"

------------------------------------------------------------------------------
(****************************************************************************)
(* p += t and p -= t, which adds getOppositeTerm().                         *)
(****************************************************************************)
PlusMonomial(s, t) ==
    /\ Ready
    /\ Expect([expected EXCEPT ![t.m_inst] = @ + s * t.m_coef])
    /\ IF t.m_inst = nullptr
       THEN m_CTerm' = m_CTerm + s * t.m_coef /\ UNCHANGED m_terms
       ELSE m_terms' = Plus(m_terms, t.m_inst, s * t.m_coef) /\ UNCHANGED m_CTerm
    /\ zeroGiven' = (zeroGiven \/ (t.m_coef = 0 /\ t.m_inst # nullptr))
    /\ UNCHANGED <<rest, sign, self, pc>>

(****************************************************************************)
(* p += q and p -= q: first the constants.  A caller that writes p + p gets *)
(* a copy of p changed, so q may equal p without being p.                   *)
(****************************************************************************)
PlusPolynomial(s, c, q) ==
    /\ Ready
    /\ Expect([x \in DOMAIN expected |->
                  expected[x] + s * (IF x = nullptr THEN c ELSE Coefficient(q, x))])
    /\ m_CTerm' = m_CTerm + s * c
    /\ rest' = q
    /\ sign' = s
    /\ self' = FALSE
    /\ zeroGiven' = (zeroGiven \/ \E x \in DOMAIN q : q[x] = 0)
    /\ pc' = "loop"
    /\ UNCHANGED m_terms

PlusSelf(s) ==
    /\ Ready
    /\ Expect([x \in DOMAIN expected |-> expected[x] + s * expected[x]])
    /\ m_CTerm' = m_CTerm + s * m_CTerm
    /\ rest' = m_terms
    /\ sign' = s
    /\ self' = TRUE
    /\ pc' = "loop"
    /\ UNCHANGED <<m_terms, zeroGiven>>

(****************************************************************************)
(* A mistake: a subtraction adds the monomials.                             *)
(****************************************************************************)
NextTermAdded(x) ==
    /\ pc = "loop"
    /\ ~self
    /\ m_terms' = Plus(m_terms, x, rest[x])
    /\ rest' = Without(rest, x)
    /\ UNCHANGED <<m_CTerm, sign, self, expected, zeroGiven, pc>>

NextTerm(x) ==
    /\ pc = "loop"
    /\ ~self
    /\ m_terms' = Plus(m_terms, x, sign * rest[x])
    /\ rest' = Without(rest, x)
    /\ UNCHANGED <<m_CTerm, sign, self, expected, zeroGiven, pc>>

(****************************************************************************)
(* The monomial at which the loop stands is erased from the set the loop    *)
(* runs over.                                                               *)
(****************************************************************************)
NextTermOfSelf(x) ==
    /\ pc = "loop"
    /\ self
    /\ m_terms' = Plus(m_terms, x, sign * rest[x])
    /\ pc' = "undefined"
    /\ UNCHANGED <<m_CTerm, rest, sign, self, expected, zeroGiven>>

EndTerms ==
    /\ pc = "loop"
    /\ DOMAIN rest = {}
    /\ pc' = "ready"
    /\ UNCHANGED <<m_CTerm, m_terms, rest, sign, self, expected, zeroGiven>>

(****************************************************************************)
(* p *= r: zero empties the polynomial, which leaves no zero monomial.      *)
(****************************************************************************)
Times(r) ==
    /\ Ready
    /\ Expect([x \in DOMAIN expected |-> expected[x] * r])
    /\ m_CTerm' = m_CTerm * r
    /\ m_terms' = IF r = 0 THEN NoTerms ELSE [x \in DOMAIN m_terms |-> m_terms[x] * r]
    /\ UNCHANGED <<rest, sign, self, zeroGiven, pc>>

(****************************************************************************)
(* p /= r, and assert(r).                                                   *)
(****************************************************************************)
DividedBy(r) ==
    /\ Ready
    /\ r # 0
    /\ m_CTerm % r = 0
    /\ \A x \in DOMAIN m_terms : m_terms[x] % r = 0
    /\ expected' = [x \in DOMAIN expected |-> expected[x] \div r]
    /\ m_CTerm' = m_CTerm \div r
    /\ m_terms' = [x \in DOMAIN m_terms |-> m_terms[x] \div r]
    /\ UNCHANGED <<rest, sign, self, zeroGiven, pc>>

DividedByZero ==
    /\ Ready
    /\ 0 \in Divisors
    /\ pc' = "abort"
    /\ UNCHANGED <<m_CTerm, m_terms, rest, sign, self, expected, zeroGiven>>

Ended == pc \in {"abort", "undefined"} /\ UNCHANGED vars

CoefTerms == UNION {[S -> Coefs] : S \in SUBSET Inst}

Next ==
    \/ \E s \in {1, -1} :
          \/ \E c \in Coefs, x \in Inst \cup {nullptr} : PlusMonomial(s, [m_coef |-> c, m_inst |-> x])
          \/ \E c \in Coefs, q \in CoefTerms : PlusPolynomial(s, c, q)
          \/ PlusPolynomial(s, m_CTerm, m_terms)
          \/ PlusSelf(s)
    \/ \E x \in DOMAIN rest : NextTerm(x) \/ NextTermOfSelf(x)
    \/ EndTerms
    \/ \E r \in Factors : Times(r)
    \/ \E r \in Divisors : DividedBy(r)
    \/ DividedByZero
    \/ Ended

Spec == Init /\ [][Next]_vars

------------------------------------------------------------------------------
TypeOK ==
    /\ m_CTerm \in Int
    /\ m_terms \in Terms
    /\ rest \in Terms
    /\ sign \in {1, -1}
    /\ self \in BOOLEAN
    /\ expected \in [Inst \cup {nullptr} -> Int]
    /\ zeroGiven \in BOOLEAN
    /\ pc \in {"ready", "loop", "abort", "undefined"}

(****************************************************************************)
(* In the middle of a sum as well as after it, the polynomial and what is   *)
(* left of the operand make up the function asked for, until a polynomial   *)
(* with monomials is added to or taken from itself.                         *)
(****************************************************************************)
MeansExpected ==
    pc # "undefined" =>
        /\ m_CTerm = expected[nullptr]
        /\ \A x \in Inst :
              Coefficient(m_terms, x)
                  + (IF pc = "loop" THEN sign * Coefficient(rest, x) ELSE 0) = expected[x]

(****************************************************************************)
(* When no operand ever had a monomial with coefficient 0, a polynomial has *)
(* monomials for exactly the instructions that matter to it, so that        *)
(* getNumVariables and contains tell what they say; a zero that was put in  *)
(* stays until something is added to it.                                    *)
(****************************************************************************)
Canonical ==
    pc = "ready" /\ ~zeroGiven => DOMAIN m_terms = {x \in Inst : expected[x] # 0}
==============================================================================
