---------------------------- MODULE InitPathsProofs ----------------------------
(****************************************************************************)
(* That basicBlockDFS saves only real paths and misses none, and that its   *)
(* calls and the vector they share agree, for every graph whose cycles lie  *)
(* in its loops.                                                            *)
(****************************************************************************)
EXTENDS InitPaths, TLAPS, SequenceTheorems, WellFoundedInduction, FiniteSetTheorems

(****************************************************************************)
(* Lemmas about taking an element off a vector and putting one on.          *)
(****************************************************************************)
LEMMA FrontProperties ==
    ASSUME NEW S, NEW s \in Seq(S), s # << >>
    PROVE  /\ Front(s) \in Seq(S)
           /\ Len(Front(s)) = Len(s) - 1
           /\ \A i \in 1..Len(s)-1 : Front(s)[i] = s[i]
           /\ Len(s) \in Nat \ {0}
           /\ Last(s) \in S /\ Last(s) = s[Len(s)]
<1>1. Len(s) \in Nat \ {0}
  BY EmptySeq
<1>2. \A i \in 1..Len(s)-1 : s[i] \in S
  BY <1>1, ElementOfSeq
<1>3. /\ SubSeq(s, 1, Len(s)-1) \in Seq(S)
      /\ Len(SubSeq(s, 1, Len(s)-1)) = Len(s) - 1
      /\ \A i \in 1..Len(s)-1 : SubSeq(s, 1, Len(s)-1)[i] = s[i]
  <2> DEFINE n == Len(s) - 1
  <2>1. n \in Nat /\ 1 \in Int /\ \A i \in 1..n : s[i] \in S
    BY <1>1, <1>2
  <2> HIDE DEF n
  <2>2. /\ SubSeq(s, 1, n) \in Seq(S)
        /\ Len(SubSeq(s, 1, n)) = IF 1 <= n THEN n - 1 + 1 ELSE 0
        /\ \A i \in 1..(n - 1 + 1) : SubSeq(s, 1, n)[i] = s[1 + i - 1]
    BY <2>1, SubSeqProperties
  <2>3. \A i \in 1..n : i \in 1..(n - 1 + 1) /\ 1 + i - 1 = i
    BY <2>1
  <2>4. Len(SubSeq(s, 1, n)) = n
    BY <2>1, <2>2
  <2>5. \A i \in 1..n : SubSeq(s, 1, n)[i] = s[i]
    BY <2>2, <2>3
  <2> QED
    BY <2>2, <2>4, <2>5 DEF n
<1>4. s[Len(s)] \in S
  BY <1>1, ElementOfSeq
<1> QED
  BY <1>1, <1>3, <1>4 DEF Front, Last

(****************************************************************************)
(* Taking the last call's counter off next, as the calls return.            *)
(****************************************************************************)
LEMMA FrontOfCounters ==
    ASSUME NEW s \in Seq(Nat \ {0}), s # << >>, NEW n \in Nat, Len(s) = n
    PROVE  /\ Front(s) \in Seq(Nat \ {0})
           /\ Len(Front(s)) = n - 1
           /\ \A i \in 1..n-1 : Front(s)[i] = s[i]
<1> DEFINE S == Nat \ {0}
<1>1. s \in Seq(S)
  OBVIOUS
<1> HIDE DEF S
<1>2. /\ Front(s) \in Seq(S)
      /\ Len(Front(s)) = Len(s) - 1
      /\ \A i \in 1..Len(s)-1 : Front(s)[i] = s[i]
  BY <1>1, FrontProperties
<1>3. Front(s) \in Seq(Nat \ {0})
  BY <1>2 DEF S
<1> QED
  BY <1>2, <1>3

(****************************************************************************)
(* A sequence of one element.                                               *)
(****************************************************************************)
LEMMA Singleton ==
    ASSUME NEW S, NEW e \in S
    PROVE  <<e>> \in Seq(S) /\ <<e>> # << >> /\ Len(<<e>>) = 1 /\ <<e>>[1] = e
OBVIOUS

(****************************************************************************)
(* The elements of a sequence that may be in a larger set.                  *)
(****************************************************************************)
LEMMA SetOfSequence ==
    ASSUME NEW S, NEW s \in Seq(S), NEW x \in ToSet(s)
    PROVE  x \in S /\ \E n \in 1..Len(s) : s[n] = x
<1>1. PICK n \in DOMAIN s : s[n] = x
  BY DEF ToSet
<1>2. n \in 1..Len(s)
  BY LenProperties
<1> QED
  BY <1>1, <1>2, ElementOfSeq

(****************************************************************************)
(* A set of numbers that is not empty has a least.                          *)
(****************************************************************************)
LEMMA LeastNumber ==
    ASSUME NEW T \in SUBSET Nat, T # {}
    PROVE  /\ \E x \in T : \A y \in T : x <= y
           /\ Min(T) \in T
<1> DEFINE Less == OpToRel(<, Nat)
<1>1. \A x, y \in Nat : <<y, x>> \in Less <=> y < x
  BY DEF OpToRel
<1>2. IsWellFoundedOn(Less, Nat)
  BY NatLessThanWellFounded
<1> HIDE DEF Less
<1>3. PICK x \in T : \A y \in T : ~ (<<y, x>> \in Less)
  BY <1>2, WFMin
<1>4. \A y \in T : x <= y
  <2> SUFFICES ASSUME NEW y \in T PROVE x <= y
    OBVIOUS
  <2>1. x \in Nat /\ y \in Nat
    OBVIOUS
  <2>2. ~ (y < x)
    BY <1>1, <1>3, <2>1
  <2> QED
    BY <2>1, <2>2
<1> QED
  BY <1>4 DEF Min

(****************************************************************************)
(* A set of numbers that has 0, and with each number the next, has all.     *)
(****************************************************************************)
LEMMA Inductive ==
    ASSUME NEW S, 0 \in S, \A n \in Nat : n \in S => n + 1 \in S
    PROVE  Nat \subseteq S
<1> DEFINE T == Nat \ S
<1> SUFFICES ASSUME T # {} PROVE FALSE
  OBVIOUS
<1>1. T \in SUBSET Nat
  OBVIOUS
<1> HIDE DEF T
<1>2. PICK x \in T : \A y \in T : x <= y
  BY <1>1, LeastNumber
<1>3. x \in Nat /\ x \notin S /\ x # 0
  BY <1>2 DEF T
<1>4. x - 1 \in Nat /\ ~ (x <= x - 1) /\ (x - 1) + 1 = x
  BY <1>3
<1>5. x - 1 \notin T
  BY <1>2, <1>4
<1> QED
  BY <1>3, <1>4, <1>5 DEF T

(****************************************************************************)
(* The function that FlattenSeq recurses on.                                *)
(****************************************************************************)
IsFlat(F, n, f) == f = [a \in 1..n |-> IF a = 1 THEN F[a] ELSE f[a-1] \o F[a]]

(****************************************************************************)
(* There is one, whatever the sequences.                                    *)
(****************************************************************************)
LEMMA FlatExists ==
    ASSUME NEW F, NEW n \in Nat
    PROVE  \E f : IsFlat(F, n, f)
<1> DEFINE S == {m \in Nat : \E f : IsFlat(F, m, f)}
<1>1. 0 \in S
  <2>1. IsFlat(F, 0, [a \in {} |-> a])
    BY DEF IsFlat
  <2> QED
    BY <2>1
<1>2. ASSUME NEW m \in Nat, m \in S PROVE m + 1 \in S
  <2>1. PICK f : IsFlat(F, m, f)
    BY <1>2
  <2> DEFINE h == [a \in 1..m+1 |-> IF a <= m THEN f[a]
                                    ELSE IF a = 1 THEN F[a] ELSE f[m] \o F[m+1]]
  <2>2. ASSUME NEW a \in 1..m+1
        PROVE  h[a] = IF a = 1 THEN F[a] ELSE h[a-1] \o F[a]
    <3>1. CASE a <= m
      <4>1. a \in 1..m
        BY <3>1
      <4>2. h[a] = f[a]
        BY <3>1
      <4>3. f[a] = IF a = 1 THEN F[a] ELSE f[a-1] \o F[a]
        BY <2>1, <4>1 DEF IsFlat
      <4>4. a # 1 => h[a-1] = f[a-1]
        BY <4>1
      <4> QED
        BY <4>2, <4>3, <4>4
    <3>2. CASE a = m + 1
      <4>1. ~ (a <= m)
        BY <3>2
      <4>2. h[a] = IF a = 1 THEN F[a] ELSE f[m] \o F[m+1]
        BY <4>1
      <4>3. a # 1 => h[a-1] = f[m]
        BY <3>2
      <4> QED
        BY <3>2, <4>2, <4>3
    <3> QED
      BY <3>1, <3>2
  <2>3. h = [a \in 1..m+1 |-> h[a]]
    OBVIOUS
  <2> HIDE DEF h
  <2>4. h = [a \in 1..m+1 |-> IF a = 1 THEN F[a] ELSE h[a-1] \o F[a]]
    BY <2>2, <2>3
  <2>5. IsFlat(F, m + 1, h)
    BY <2>4 DEF IsFlat
  <2> QED
    BY <2>5
<1> HIDE DEF S
<1>3. Nat \subseteq S
  BY <1>1, <1>2, Inductive
<1> QED
  BY <1>3 DEF S

(****************************************************************************)
(* A value of such a function.                                              *)
(****************************************************************************)
LEMMA FlatValue ==
    ASSUME NEW F, NEW n \in Nat, NEW f, IsFlat(F, n, f), NEW a \in 1..n
    PROVE  f[a] = IF a = 1 THEN F[a] ELSE f[a-1] \o F[a]
<1> DEFINE value(b) == IF b = 1 THEN F[b] ELSE f[b-1] \o F[b]
<1>1. f = [b \in 1..n |-> value(b)]
  BY DEF IsFlat
<1> HIDE DEF value
<1>2. f[a] = value(a)
  BY <1>1
<1> QED
  BY <1>2 DEF value

(****************************************************************************)
(* Two of them agree where both are defined and the sequences are the same. *)
(****************************************************************************)
LEMMA FlatAgrees ==
    ASSUME NEW F, NEW H, NEW n \in Nat, NEW m \in Nat, n <= m,
           \A a \in 1..n : F[a] = H[a],
           NEW f, IsFlat(F, n, f), NEW h, IsFlat(H, m, h)
    PROVE  \A a \in 1..n : f[a] = h[a]
<1> DEFINE S == {a \in Nat : a \in 1..n => f[a] = h[a]}
<1>1. 0 \in S
  OBVIOUS
<1>2. ASSUME NEW a \in Nat, a \in S PROVE a + 1 \in S
  <2> SUFFICES ASSUME a + 1 \in 1..n PROVE f[a+1] = h[a+1]
    OBVIOUS
  <2>1. a + 1 \in 1..m /\ (a + 1) - 1 = a /\ F[a+1] = H[a+1]
    OBVIOUS
  <2>2. f[a+1] = IF a + 1 = 1 THEN F[a+1] ELSE f[a] \o F[a+1]
    BY <2>1, FlatValue
  <2>3. h[a+1] = IF a + 1 = 1 THEN H[a+1] ELSE h[a] \o H[a+1]
    BY <2>1, FlatValue
  <2>4. a + 1 # 1 => f[a] = h[a]
    BY <1>2
  <2> QED
    BY <2>1, <2>2, <2>3, <2>4
<1> HIDE DEF S
<1>3. Nat \subseteq S
  BY <1>1, <1>2, Inductive
<1> QED
  BY <1>3 DEF S

(****************************************************************************)
(* What FlattenSeq computes of sequences that are not none.                 *)
(****************************************************************************)
LEMMA FlattenIsFlat ==
    ASSUME NEW F, NEW n \in Nat \ {0}, Len(F) = n
    PROVE  \E f : IsFlat(F, n, f) /\ FlattenSeq(F) = f[n]
<1> DEFINE f == CHOOSE ff : IsFlat(F, n, ff)
<1>1. IsFlat(F, n, f)
  BY FlatExists
<1>2. FlattenSeq(F) = f[n]
  BY DEF FlattenSeq, IsFlat
<1> QED
  BY <1>1, <1>2

(****************************************************************************)
(* Without its last sequence, a sequence of sequences flattens to what that *)
(* one is put behind.                                                       *)
(****************************************************************************)
First(F, n) == [a \in 1..n |-> F[a]]

LEMMA FlattenNone ==
    ASSUME NEW F
    PROVE  First(F, 0) = << >> /\ FlattenSeq(First(F, 0)) = << >>
<1>1. First(F, 0) = << >>
  BY DEF First
<1>2. FlattenSeq(<< >>) = << >>
  BY DEF FlattenSeq
<1> QED
  BY <1>1, <1>2

LEMMA FlattenOne ==
    ASSUME NEW F, NEW n \in Nat, n > 0
    PROVE  FlattenSeq(First(F, n + 1)) = FlattenSeq(First(F, n)) \o F[n+1]
<1> DEFINE H == First(F, n)
           G == First(F, n + 1)
<1>1. Len(H) = n /\ Len(G) = n + 1 /\ n \in Nat \ {0} /\ n + 1 \in Nat \ {0}
  BY DEF First
<1>2. /\ \A a \in 1..n : H[a] = G[a]
      /\ G[n+1] = F[n+1]
  BY DEF First
<1> HIDE DEF H, G
<1>3. PICK f : IsFlat(H, n, f) /\ FlattenSeq(H) = f[n]
  BY <1>1, FlattenIsFlat
<1>4. PICK h : IsFlat(G, n + 1, h) /\ FlattenSeq(G) = h[n+1]
  BY <1>1, FlattenIsFlat
<1>5. f[n] = h[n]
  <2>1. n \in 1..n /\ n <= n + 1 /\ n + 1 \in Nat
    OBVIOUS
  <2>2. \A a \in 1..n : f[a] = h[a]
    BY <1>2, <1>3, <1>4, <2>1, FlatAgrees
  <2> QED
    BY <2>1, <2>2
<1>6. h[n+1] = h[n] \o G[n+1]
  <2>1. n + 1 \in 1..n+1 /\ n + 1 # 1 /\ (n + 1) - 1 = n
    OBVIOUS
  <2> QED
    BY <1>4, <2>1 DEF IsFlat
<1> QED
  BY <1>2, <1>3, <1>4, <1>5, <1>6 DEF H, G

LEMMA FlattenGrows ==
    ASSUME NEW S, NEW F, NEW n \in Nat, \A a \in 1..n+1 : F[a] \in Seq(S)
    PROVE  /\ FlattenSeq(First(F, n)) \in Seq(S)
           /\ FlattenSeq(First(F, n + 1)) = FlattenSeq(First(F, n)) \o F[n+1]
<1> DEFINE T == {m \in Nat : m <= n + 1 => FlattenSeq(First(F, m)) \in Seq(S)}
<1>1. FlattenSeq(First(F, 0)) \in Seq(S) /\ FlattenSeq(First(F, 0)) = << >>
  BY FlattenNone, EmptySeq
<1>2. FlattenSeq(First(F, 1)) = F[1]
  <2> DEFINE H == First(F, 1)
  <2>1. Len(H) = 1 /\ H[1] = F[1]
    BY DEF First
  <2> HIDE DEF H
  <2>2. PICK h : IsFlat(H, 1, h) /\ FlattenSeq(H) = h[1]
    <3>1. 1 \in Nat \ {0}
      OBVIOUS
    <3> QED
      BY <2>1, <3>1, FlattenIsFlat
  <2>3. h[1] = H[1]
    BY <2>2 DEF IsFlat
  <2> QED
    BY <2>1, <2>2, <2>3 DEF H
<1>3. ASSUME NEW m \in Nat, m \in T PROVE m + 1 \in T
  <2> SUFFICES ASSUME m + 1 <= n + 1 PROVE FlattenSeq(First(F, m + 1)) \in Seq(S)
    OBVIOUS
  <2>1. CASE m = 0
    BY <1>2, <2>1
  <2>2. CASE m > 0
    <3>1. FlattenSeq(First(F, m)) \in Seq(S) /\ F[m+1] \in Seq(S)
      BY <1>3
    <3> QED
      BY <2>2, <3>1, FlattenOne, ConcatProperties
  <2> QED
    BY <2>1, <2>2
<1>4. 0 \in T
  BY <1>1
<1> HIDE DEF T
<1>5. Nat \subseteq T
  BY <1>3, <1>4, Inductive
<1>6. FlattenSeq(First(F, n)) \in Seq(S)
  BY <1>5 DEF T
<1>7. CASE n = 0
  <2>1. FlattenSeq(First(F, 0)) \o F[1] = F[1]
    BY <1>1, <1>7, ConcatEmptySeq
  <2> QED
    BY <1>2, <1>6, <1>7, <2>1
<1>8. CASE n > 0
  BY <1>6, <1>8, FlattenOne
<1> QED
  BY <1>7, <1>8

(****************************************************************************)
(* What is in two sequences put one behind the other.                       *)
(****************************************************************************)
LEMMA MembersOfConcat ==
    ASSUME NEW S, NEW s \in Seq(S), NEW t \in Seq(S)
    PROVE  ToSet(s \o t) = ToSet(s) \cup ToSet(t)
<1>1. /\ Len(s) \in Nat /\ Len(t) \in Nat /\ Len(s \o t) = Len(s) + Len(t)
      /\ \A i \in 1..Len(s) + Len(t) :
            (s \o t)[i] = IF i <= Len(s) THEN s[i] ELSE t[i - Len(s)]
      /\ s \o t \in Seq(S)
  BY ConcatProperties, LenProperties
<1> DEFINE r == s \o t
<1>2. DOMAIN s = 1..Len(s) /\ DOMAIN t = 1..Len(t) /\ DOMAIN r = 1..Len(s) + Len(t)
  BY <1>1, LenProperties
<1> HIDE DEF r
<1>3. ASSUME NEW x \in ToSet(r) PROVE x \in ToSet(s) \cup ToSet(t)
  <2>1. PICK i \in 1..Len(s) + Len(t) : r[i] = x
    BY <1>2 DEF ToSet
  <2>2. CASE i <= Len(s)
    BY <1>1, <1>2, <2>1, <2>2 DEF ToSet, r
  <2>3. CASE i > Len(s)
    <3>1. i - Len(s) \in 1..Len(t) /\ r[i] = t[i - Len(s)]
      BY <1>1, <2>1, <2>3 DEF r
    <3> QED
      BY <1>2, <2>1, <3>1 DEF ToSet
  <2> QED
    BY <1>1, <2>1, <2>2, <2>3
<1>4. ASSUME NEW x \in ToSet(s) PROVE x \in ToSet(r)
  <2>1. PICK i \in 1..Len(s) : s[i] = x
    BY <1>2 DEF ToSet
  <2>2. i \in 1..Len(s) + Len(t) /\ r[i] = x
    BY <1>1, <2>1 DEF r
  <2> QED
    BY <1>2, <2>2 DEF ToSet
<1>5. ASSUME NEW x \in ToSet(t) PROVE x \in ToSet(r)
  <2>1. PICK i \in 1..Len(t) : t[i] = x
    BY <1>2 DEF ToSet
  <2>2. i + Len(s) \in 1..Len(s) + Len(t) /\ r[i + Len(s)] = x
    <3>1. i + Len(s) \in 1..Len(s) + Len(t) /\ ~ (i + Len(s) <= Len(s)) /\ (i + Len(s)) - Len(s) = i
      BY <1>1
    <3> QED
      BY <1>1, <2>1, <3>1 DEF r
  <2> QED
    BY <1>2, <2>2 DEF ToSet
<1> QED
  BY <1>3, <1>4, <1>5 DEF r

(****************************************************************************)
(* What is in the flattened sequence is what is in one of its parts.        *)
(****************************************************************************)
LEMMA FlattenMembers ==
    ASSUME NEW S, NEW F, NEW n \in Nat, \A a \in 1..n : F[a] \in Seq(S)
    PROVE  /\ FlattenSeq(First(F, n)) \in Seq(S)
           /\ \A x : x \in ToSet(FlattenSeq(First(F, n))) <=> \E a \in 1..n : x \in ToSet(F[a])
<1> DEFINE T == {m \in Nat : m <= n =>
                    /\ FlattenSeq(First(F, m)) \in Seq(S)
                    /\ \A x : x \in ToSet(FlattenSeq(First(F, m))) <=>
                                 \E a \in 1..m : x \in ToSet(F[a])}
<1>1. 0 \in T
  <2>1. FlattenSeq(First(F, 0)) = << >>
    BY FlattenNone
  <2>2. << >> \in Seq(S) /\ ToSet(<< >>) = {}
    BY EmptySeq DEF ToSet
  <2>3. FlattenSeq(First(F, 0)) \in Seq(S) /\ ToSet(FlattenSeq(First(F, 0))) = {}
    BY <2>1, <2>2
  <2>4. \A a \in 1..0 : FALSE
    OBVIOUS
  <2> QED
    BY <2>3, <2>4
<1>2. ASSUME NEW m \in Nat, m \in T PROVE m + 1 \in T
  <2> SUFFICES ASSUME m + 1 <= n
               PROVE  /\ FlattenSeq(First(F, m + 1)) \in Seq(S)
                      /\ \A x : x \in ToSet(FlattenSeq(First(F, m + 1))) <=>
                                   \E a \in 1..m+1 : x \in ToSet(F[a])
    OBVIOUS
  <2> DEFINE s == FlattenSeq(First(F, m))
             t == F[m+1]
             r == FlattenSeq(First(F, m + 1))
  <2>1. \A a \in 1..m+1 : F[a] \in Seq(S)
    OBVIOUS
  <2>2. s \in Seq(S) /\ \A x : x \in ToSet(s) <=> \E a \in 1..m : x \in ToSet(F[a])
    BY <1>2
  <2>3. t \in Seq(S) /\ r = s \o t
    BY <2>1, FlattenGrows
  <2> HIDE DEF s, t, r
  <2>4. r \in Seq(S) /\ ToSet(r) = ToSet(s) \cup ToSet(t)
    BY <2>2, <2>3, MembersOfConcat, ConcatProperties
  <2>5. 1..m+1 = 1..m \cup {m + 1}
    OBVIOUS
  <2>6. \A x : x \in ToSet(r) <=> \E a \in 1..m+1 : x \in ToSet(F[a])
    BY <2>2, <2>4, <2>5 DEF t
  <2> QED
    BY <2>4, <2>6 DEF r
<1> HIDE DEF T
<1>3. Nat \subseteq T
  BY <1>1, <1>2, Inductive
<1> QED
  BY <1>3 DEF T

(****************************************************************************)
(* The beginnings of a vector do not change when it does behind them.       *)
(****************************************************************************)
LEMMA FirstAgrees ==
    ASSUME NEW F, NEW H, NEW n, \A a \in 1..n : F[a] = H[a]
    PROVE  First(F, n) = First(H, n)
BY DEF First

(****************************************************************************)
(* What the graphs grant: a first node outside every loop, and children     *)
(* that are nodes.                                                          *)
(****************************************************************************)
LEMMA GraphFacts ==
    ASSUME NEW gr \in Graphs
    PROVE  /\ gr \in Graph
           /\ 1 \in DOMAIN gr.CFGNodeVec
           /\ ~gr.CFGNodeVec[1].isLoopNode
           /\ \A n \in DOMAIN gr.CFGNodeVec :
                 /\ gr.CFGNodeVec[n].childs \in Seq(Nat)
                 /\ \A j \in 1..Len(gr.CFGNodeVec[n].childs) :
                       gr.CFGNodeVec[n].childs[j] \in DOMAIN gr.CFGNodeVec
<1>1. gr \in Graph /\ IsCFG(gr.CFGNodeVec, gr.LCSSAs) /\ ~gr.CFGNodeVec[1].isLoopNode
  BY GraphsAssumption
<1>2. gr.CFGNodeVec \in Seq(CFGNodes)
  BY <1>1 DEF Graph
<1>3. 1 \in DOMAIN gr.CFGNodeVec
  BY <1>1, <1>2, EmptySeq, LenProperties DEF IsCFG
<1>4. ASSUME NEW n \in DOMAIN gr.CFGNodeVec
      PROVE  gr.CFGNodeVec[n].childs \in Seq(Nat)
  <2>1. gr.CFGNodeVec[n] \in CFGNodes
    BY <1>2, ElementOfSeq, LenProperties
  <2> QED
    BY <2>1 DEF CFGNodes
<1>5. ASSUME NEW n \in DOMAIN gr.CFGNodeVec, NEW j \in 1..Len(gr.CFGNodeVec[n].childs)
      PROVE  gr.CFGNodeVec[n].childs[j] \in DOMAIN gr.CFGNodeVec
  <2>1. ToSet(gr.CFGNodeVec[n].childs) \subseteq DOMAIN gr.CFGNodeVec
    BY <1>1 DEF IsCFG
  <2>2. j \in DOMAIN gr.CFGNodeVec[n].childs
    BY <1>4, LenProperties
  <2> QED
    BY <2>1, <2>2 DEF ToSet
<1> QED
  BY <1>1, <1>3, <1>4, <1>5

------------------------------------------------------------------------------
(****************************************************************************)
(* The invariants of InitPaths together are inductive for the graphs of     *)
(* Graphs.                                                                  *)
(****************************************************************************)
Inv ==
    /\ g \in Graphs
    /\ TypeOK
    /\ CallsMatchVec
    /\ InitPathsAreReal

(****************************************************************************)
(* The invariant holds before the search.                                   *)
(****************************************************************************)
LEMMA InitInv == Init => Inv
<1> SUFFICES ASSUME Init PROVE Inv
  OBVIOUS
<1>1. g \in Graphs /\ vec = <<1>> /\ next = <<1>> /\ initNodes = << >> /\ pc = "search"
  BY DEF Init
<1>2. g \in Graph /\ 1 \in DOMAIN g.CFGNodeVec
  BY <1>1, GraphFacts
<1>3. TypeOK
  <2>1. <<1>> \in Seq(DOMAIN g.CFGNodeVec) /\ <<1>> # << >>
    <3> DEFINE Nodes == DOMAIN g.CFGNodeVec
    <3>1. 1 \in Nodes
      BY <1>2
    <3> HIDE DEF Nodes
    <3>2. <<1>> \in Seq(Nodes) /\ <<1>> # << >>
      BY <3>1, Singleton
    <3> QED
      BY <3>2 DEF Nodes
  <2>2. <<1>> \in Seq(Nat \ {0})
    <3>1. 1 \in Nat \ {0}
      OBVIOUS
    <3> QED
      BY <3>1, Singleton
  <2>3. << >> \in Seq(Seq(DOMAIN g.CFGNodeVec))
    BY EmptySeq
  <2> QED
    BY <1>1, <1>2, <2>1, <2>2, <2>3 DEF TypeOK
<1>4. CallsMatchVec
  BY <1>1 DEF CallsMatchVec, LeadsToFirstLoop
<1>5. InitPathsAreReal
  BY <1>1 DEF InitPathsAreReal
<1> QED
  BY <1>1, <1>3, <1>4, <1>5 DEF Inv

(****************************************************************************)
(* A walk stays one when its last node is taken off.                        *)
(****************************************************************************)
LEMMA FrontLeads ==
    ASSUME NEW p \in Seq(DOMAIN g.CFGNodeVec), LeadsToFirstLoop(p), Len(p) > 1
    PROVE  LeadsToFirstLoop(Front(p)) /\ Front(p) # << >>
<1>1. p # << >> /\ Len(p) \in Nat
  BY LenProperties DEF LeadsToFirstLoop
<1>2. /\ Len(Front(p)) = Len(p) - 1
      /\ \A i \in 1..Len(p)-1 : Front(p)[i] = p[i]
      /\ Front(p) \in Seq(DOMAIN g.CFGNodeVec)
  BY <1>1, FrontProperties
<1>3. Front(p) # << >>
  BY <1>1, <1>2, EmptySeq
<1>4. \A i \in 1..Len(Front(p))-1 : /\ i \in 1..Len(p)-1
                                    /\ Front(p)[i] = p[i] /\ Front(p)[i+1] = p[i+1]
  BY <1>1, <1>2
<1>5. Front(p)[1] = p[1]
  BY <1>1, <1>2
<1> QED
  BY <1>3, <1>4, <1>5 DEF LeadsToFirstLoop

(****************************************************************************)
(* Saving a path and returning keeps the invariant.                         *)
(****************************************************************************)
LEMMA FindLoopInv == ASSUME Inv, FindLoop PROVE Inv'
<1> DEFINE Nodes == DOMAIN g.CFGNodeVec
<1>1. /\ g' = g /\ pc' = pc /\ LastNode.isLoopNode
      /\ initNodes' = Append(initNodes, vec) /\ vec' = Front(vec) /\ next' = Front(next)
  BY DEF FindLoop
<1>2. /\ g \in Graphs /\ g \in Graph
      /\ vec \in Seq(Nodes) /\ vec # << >> /\ next \in Seq(Nat \ {0}) /\ next # << >>
      /\ initNodes \in Seq(Seq(Nodes)) /\ LeadsToFirstLoop(vec) /\ Len(next) = Len(vec)
  BY DEF Inv, TypeOK, CallsMatchVec
<1> HIDE DEF Nodes
<1>3. /\ Len(vec) \in Nat \ {0} /\ Last(vec) \in Nodes /\ Last(vec) = vec[Len(vec)]
      /\ Front(vec) \in Seq(Nodes) /\ Len(Front(vec)) = Len(vec) - 1
      /\ \A i \in 1..Len(vec)-1 : Front(vec)[i] = vec[i]
  BY <1>2, FrontProperties
<1>4. /\ Front(next) \in Seq(Nat \ {0}) /\ Len(Front(next)) = Len(vec) - 1
      /\ \A i \in 1..Len(vec)-1 : Front(next)[i] = next[i]
  BY <1>2, <1>3, FrontOfCounters
<1>5. Len(vec) > 1
  <2>1. vec[1] = 1 /\ ~g.CFGNodeVec[1].isLoopNode
    BY <1>2, GraphFacts DEF LeadsToFirstLoop
  <2>2. g.CFGNodeVec[vec[Len(vec)]].isLoopNode
    BY <1>1, <1>3 DEF LastNode
  <2> QED
    BY <1>3, <2>1, <2>2
<1>6. Front(vec) # << >> /\ Front(next) # << >> /\ LeadsToFirstLoop(Front(vec))
  BY <1>2, <1>3, <1>4, <1>5, FrontLeads, EmptySeq DEF Nodes
<1>7. initNodes' \in Seq(Seq(Nodes))
  BY <1>1, <1>2, AppendProperties
<1>8. TypeOK'
  BY <1>1, <1>2, <1>3, <1>4, <1>6, <1>7 DEF Inv, TypeOK, Nodes
<1>9. CallsMatchVec'
  <2>1. ASSUME NEW d \in 1..Len(vec')-1
        PROVE  next'[d] > 1 /\ vec'[d+1] = g'.CFGNodeVec[vec'[d]].childs[next'[d] - 1]
    <3>1. Len(vec') = Len(vec) - 1
      BY <1>1, <1>3
    <3>2. d \in 1..Len(vec)-1 /\ d+1 \in 1..Len(vec)-1
      BY <1>3, <3>1
    <3>3. Front(vec)[d] = vec[d] /\ Front(vec)[d+1] = vec[d+1] /\ Front(next)[d] = next[d]
      BY <1>3, <1>4, <3>2
    <3>4. vec'[d] = vec[d] /\ vec'[d+1] = vec[d+1] /\ next'[d] = next[d]
      BY <1>1, <3>3
    <3> QED
      BY <1>1, <3>2, <3>4 DEF Inv, CallsMatchVec
  <2>2. Len(next') = Len(vec')
    BY <1>1, <1>3, <1>4
  <2>3. LeadsToFirstLoop(vec)'
    BY <1>1, <1>6 DEF LeadsToFirstLoop
  <2> QED
    BY <2>1, <2>2, <2>3 DEF CallsMatchVec
<1>10. InitPathsAreReal'
  <2>1. /\ Len(initNodes') = Len(initNodes) + 1 /\ Len(initNodes) \in Nat
        /\ \A i \in 1..Len(initNodes) : initNodes'[i] = initNodes[i]
        /\ initNodes'[Len(initNodes) + 1] = vec
    BY <1>1, <1>2, AppendProperties, LenProperties
  <2>2. DOMAIN initNodes = 1..Len(initNodes) /\ DOMAIN initNodes' = 1..Len(initNodes)+1
    BY <1>2, <1>7, <2>1, LenProperties
  <2>3. ASSUME NEW i \in DOMAIN initNodes'
        PROVE  /\ LeadsToFirstLoop(initNodes'[i])
               /\ g.CFGNodeVec[Last(initNodes'[i])].isLoopNode
    <3>1. CASE i = Len(initNodes) + 1
      BY <1>1, <1>2, <2>1, <3>1 DEF LastNode
    <3>2. CASE i # Len(initNodes) + 1
      BY <2>1, <2>2, <3>2 DEF Inv, InitPathsAreReal
    <3> QED
      BY <3>1, <3>2
  <2> QED
    BY <1>1, <2>3 DEF InitPathsAreReal, LeadsToFirstLoop
<1> QED
  BY <1>1, <1>2, <1>8, <1>9, <1>10 DEF Inv

(****************************************************************************)
(* A call for the next child keeps the invariant: the child is the one the  *)
(* caller counted.                                                          *)
(****************************************************************************)
LEMMA DescendInv == ASSUME Inv, Descend PROVE Inv'
<1> DEFINE Nodes == DOMAIN g.CFGNodeVec
           child == LastNode.childs[Last(next)]
           bumped == [next EXCEPT ![Len(next)] = @ + 1]
<1>1. /\ g' = g /\ pc' = pc /\ ~LastNode.isLoopNode /\ Last(next) <= Len(LastNode.childs)
      /\ vec' = Append(vec, child) /\ next' = Append(bumped, 1) /\ initNodes' = initNodes
  BY DEF Descend
<1>2. /\ g \in Graphs /\ g \in Graph
      /\ vec \in Seq(Nodes) /\ vec # << >> /\ next \in Seq(Nat \ {0}) /\ next # << >>
      /\ LeadsToFirstLoop(vec) /\ Len(next) = Len(vec)
  BY DEF Inv, TypeOK, CallsMatchVec
<1> HIDE DEF Nodes
<1>3. Len(vec) \in Nat \ {0} /\ Last(vec) \in Nodes /\ Last(vec) = vec[Len(vec)]
  BY <1>2, FrontProperties
<1>4. Last(next) \in Nat \ {0} /\ Last(next) = next[Len(vec)]
  BY <1>2, FrontProperties, SMTT(30)
<1>5. child \in Nodes /\ child \in ToSet(LastNode.childs)
  <2>1. LastNode.childs \in Seq(Nat)
    BY <1>2, <1>3, GraphFacts DEF LastNode, Nodes
  <2>2. Last(next) \in 1..Len(LastNode.childs) /\ DOMAIN LastNode.childs = 1..Len(LastNode.childs)
    BY <1>1, <1>4, <2>1, LenProperties
  <2>3. child \in Nodes
    BY <1>2, <1>3, <2>2, GraphFacts DEF LastNode, Nodes
  <2> QED
    BY <2>2, <2>3 DEF ToSet
<1> HIDE DEF child
<1>6. /\ bumped \in Seq(Nat \ {0}) /\ Len(bumped) = Len(vec)
      /\ \A i \in 1..Len(vec)-1 : bumped[i] = next[i]
      /\ bumped[Len(vec)] = Last(next) + 1
  <2>1. bumped = [next EXCEPT ![Len(next)] = Last(next) + 1]
    BY <1>2, <1>3, <1>4, LenProperties
  <2>2. Last(next) + 1 \in Nat \ {0} /\ Len(next) \in 1..Len(next)
    BY <1>2, <1>3, <1>4
  <2> QED
    BY <1>2, <1>3, <2>1, <2>2, ExceptSeq
<1> HIDE DEF bumped
<1>7. /\ vec' \in Seq(Nodes) /\ vec' # << >> /\ Len(vec') = Len(vec) + 1
      /\ \A i \in 1..Len(vec) : vec'[i] = vec[i]
      /\ vec'[Len(vec) + 1] = child
  BY <1>1, <1>2, <1>5, AppendProperties
<1>8. /\ next' \in Seq(Nat \ {0}) /\ next' # << >> /\ Len(next') = Len(vec) + 1
      /\ \A i \in 1..Len(vec) : next'[i] = bumped[i]
  BY <1>1, <1>6, AppendProperties
<1>9. TypeOK'
  BY <1>1, <1>2, <1>7, <1>8 DEF Inv, TypeOK, Nodes
<1>10. LeadsToFirstLoop(vec)'
  <2>1. vec'[1] = 1
    BY <1>2, <1>3, <1>7 DEF LeadsToFirstLoop
  <2>2. ASSUME NEW i \in 1..Len(vec')-1
        PROVE  /\ vec'[i+1] \in ToSet(g.CFGNodeVec[vec'[i]].childs)
               /\ ~g.CFGNodeVec[vec'[i]].isLoopNode
    <3>1. CASE i = Len(vec)
      BY <1>1, <1>3, <1>5, <1>7, <3>1 DEF LastNode
    <3>2. CASE i # Len(vec)
      <4>1. i \in 1..Len(vec)-1 /\ vec'[i] = vec[i] /\ vec'[i+1] = vec[i+1]
        BY <1>3, <1>7, <3>2
      <4> QED
        BY <1>2, <4>1 DEF LeadsToFirstLoop
    <3> QED
      BY <3>1, <3>2
  <2> QED
    BY <1>1, <1>7, <2>1, <2>2 DEF LeadsToFirstLoop
<1>11. CallsMatchVec'
  <2>1. ASSUME NEW d \in 1..Len(vec')-1
        PROVE  next'[d] > 1 /\ vec'[d+1] = g'.CFGNodeVec[vec'[d]].childs[next'[d] - 1]
    <3>1. CASE d = Len(vec)
      <4>1. next'[d] = Last(next) + 1 /\ next'[d] - 1 = Last(next) /\ next'[d] > 1
        BY <1>3, <1>4, <1>6, <1>8, <3>1
      <4>2. vec'[d] = Last(vec) /\ vec'[d+1] = child
        BY <1>3, <1>7, <3>1
      <4> QED
        BY <1>1, <4>1, <4>2 DEF child, LastNode
    <3>2. CASE d # Len(vec)
      <4>1. /\ d \in 1..Len(vec)-1
            /\ vec'[d] = vec[d] /\ vec'[d+1] = vec[d+1] /\ next'[d] = next[d]
        BY <1>3, <1>6, <1>7, <1>8, <3>2
      <4> QED
        BY <1>1, <4>1 DEF Inv, CallsMatchVec
    <3> QED
      BY <3>1, <3>2
  <2> QED
    BY <1>7, <1>8, <1>10, <2>1 DEF CallsMatchVec
<1>12. InitPathsAreReal'
  BY <1>1 DEF Inv, InitPathsAreReal, LeadsToFirstLoop
<1> QED
  BY <1>1, <1>2, <1>9, <1>11, <1>12 DEF Inv

(****************************************************************************)
(* Returning without a path keeps the invariant.                            *)
(****************************************************************************)
LEMMA BackUpInv == ASSUME Inv, BackUp PROVE Inv'
<1> DEFINE Nodes == DOMAIN g.CFGNodeVec
<1>1. /\ g' = g /\ pc' = pc /\ initNodes' = initNodes /\ Len(vec) > 1
      /\ vec' = Front(vec) /\ next' = Front(next)
  BY DEF BackUp
<1>2. /\ g \in Graphs /\ g \in Graph
      /\ vec \in Seq(Nodes) /\ vec # << >> /\ next \in Seq(Nat \ {0}) /\ next # << >>
      /\ LeadsToFirstLoop(vec) /\ Len(next) = Len(vec)
  BY DEF Inv, TypeOK, CallsMatchVec
<1> HIDE DEF Nodes
<1>3. /\ Len(vec) \in Nat \ {0}
      /\ Front(vec) \in Seq(Nodes) /\ Len(Front(vec)) = Len(vec) - 1
      /\ \A i \in 1..Len(vec)-1 : Front(vec)[i] = vec[i]
  BY <1>2, FrontProperties
<1>4. /\ Front(next) \in Seq(Nat \ {0}) /\ Len(Front(next)) = Len(vec) - 1
      /\ \A i \in 1..Len(vec)-1 : Front(next)[i] = next[i]
  BY <1>2, <1>3, FrontOfCounters
<1>5. Front(vec) # << >> /\ Front(next) # << >> /\ LeadsToFirstLoop(Front(vec))
  BY <1>1, <1>2, <1>3, <1>4, FrontLeads, EmptySeq DEF Nodes
<1>6. TypeOK'
  BY <1>1, <1>2, <1>3, <1>4, <1>5 DEF Inv, TypeOK, Nodes
<1>7. CallsMatchVec'
  <2>1. ASSUME NEW d \in 1..Len(vec')-1
        PROVE  next'[d] > 1 /\ vec'[d+1] = g'.CFGNodeVec[vec'[d]].childs[next'[d] - 1]
    <3>1. Len(vec') = Len(vec) - 1
      BY <1>1, <1>3
    <3>2. d \in 1..Len(vec)-1 /\ d+1 \in 1..Len(vec)-1
      BY <1>3, <3>1
    <3>3. Front(vec)[d] = vec[d] /\ Front(vec)[d+1] = vec[d+1] /\ Front(next)[d] = next[d]
      BY <1>3, <1>4, <3>2
    <3>4. vec'[d] = vec[d] /\ vec'[d+1] = vec[d+1] /\ next'[d] = next[d]
      BY <1>1, <3>3
    <3> QED
      BY <1>1, <3>2, <3>4 DEF Inv, CallsMatchVec
  <2>2. Len(next') = Len(vec') /\ LeadsToFirstLoop(vec)'
    BY <1>1, <1>3, <1>4, <1>5 DEF LeadsToFirstLoop
  <2> QED
    BY <2>1, <2>2 DEF CallsMatchVec
<1>8. InitPathsAreReal'
  BY <1>1 DEF Inv, InitPathsAreReal, LeadsToFirstLoop
<1> QED
  BY <1>1, <1>2, <1>6, <1>7, <1>8 DEF Inv

(****************************************************************************)
(* Every step keeps the invariant.                                          *)
(****************************************************************************)
LEMMA NextInv == ASSUME Inv, [Next]_vars PROVE Inv'
<1>1. CASE Finish \/ Terminated \/ UNCHANGED vars
  <2>1. UNCHANGED <<g, vec, next, initNodes>> /\ pc' \in {"search", "done"}
    BY <1>1 DEF Finish, Terminated, vars, Inv, TypeOK
  <2> QED
    BY <2>1 DEF Inv, TypeOK, CallsMatchVec, InitPathsAreReal, LeadsToFirstLoop
<1> QED
  BY <1>1, FindLoopInv, DescendInv, BackUpInv DEF Next

------------------------------------------------------------------------------
(****************************************************************************)
(* The calls, the vector they share and the saved paths stay consistent in  *)
(* every search.                                                            *)
(****************************************************************************)
THEOREM Invariance == Spec => []Inv
<1> QED
  BY InitInv, NextInv, PTL DEF Spec

(****************************************************************************)
(* The variables keep to their types: the search never pops the entry off   *)
(* the shared vector, and every saved path is one of nodes that exist.      *)
(****************************************************************************)
THEOREM TypeCorrect == Spec => []TypeOK
<1>1. Inv => TypeOK
  BY DEF Inv
<1> QED
  BY <1>1, Invariance, PTL

(****************************************************************************)
(* At every moment the shared vector is the walk that the calls in progress *)
(* stand for.                                                               *)
(****************************************************************************)
THEOREM CallsAgree == Spec => []CallsMatchVec
<1>1. Inv => CallsMatchVec
  BY DEF Inv
<1> QED
  BY <1>1, Invariance, PTL

(****************************************************************************)
(* Every path that collectInitBasicBlock returns is real: from the entry    *)
(* over children outside every loop to a loop node.                         *)
(****************************************************************************)
THEOREM SavedPathsAreReal == Spec => []InitPathsAreReal
<1>1. Inv => InitPathsAreReal
  BY DEF Inv
<1> QED
  BY <1>1, Invariance, PTL

------------------------------------------------------------------------------
(****************************************************************************)
(* What the graphs grant.                                                   *)
(****************************************************************************)
LEMMA CFGFacts ==
    ASSUME NEW gr \in Graphs
    PROVE  /\ gr \in Graph
           /\ IsCFG(gr.CFGNodeVec, gr.LCSSAs)
           /\ DOMAIN gr.CFGNodeVec = 1..Len(gr.CFGNodeVec) /\ Len(gr.CFGNodeVec) \in Nat
           /\ \A n \in DOMAIN gr.CFGNodeVec :
                 /\ gr.CFGNodeVec[n] \in CFGNodes
                 /\ gr.CFGNodeVec[n].childs \in Seq(Nat)
                 /\ ToSet(gr.CFGNodeVec[n].childs) \subseteq DOMAIN gr.CFGNodeVec
<1>1. gr \in Graph /\ IsCFG(gr.CFGNodeVec, gr.LCSSAs)
  BY GraphsAssumption
<1>2. gr.CFGNodeVec \in Seq(CFGNodes)
  BY <1>1 DEF Graph
<1>3. DOMAIN gr.CFGNodeVec = 1..Len(gr.CFGNodeVec) /\ Len(gr.CFGNodeVec) \in Nat
  BY <1>2, LenProperties
<1>4. ASSUME NEW n \in DOMAIN gr.CFGNodeVec
      PROVE  gr.CFGNodeVec[n] \in CFGNodes /\ gr.CFGNodeVec[n].childs \in Seq(Nat)
  <2>1. gr.CFGNodeVec[n] \in CFGNodes
    BY <1>2, <1>3, ElementOfSeq
  <2> QED
    BY <2>1 DEF CFGNodes
<1> QED
  BY <1>1, <1>3, <1>4 DEF IsCFG

(****************************************************************************)
(* The element of a node is a path element that holds the node.             *)
(****************************************************************************)
LEMMA ElementFacts ==
    ASSUME NEW gr \in Graphs, NEW n \in DOMAIN gr.CFGNodeVec
    PROVE  /\ Element(gr, n) \in Path
           /\ Element(gr, n) \in Elements(gr)
           /\ n \in NodesOf(gr, Element(gr, n))
           /\ IF gr.CFGNodeVec[n].isLoopNode
              THEN /\ Element(gr, n) = ALoop(gr.CFGNodeVec[n].LCSSAIndex)
                   /\ gr.CFGNodeVec[n].LCSSAIndex \in DOMAIN gr.LCSSAs
              ELSE Element(gr, n) = ANode(n)
<1>1. /\ IsCFG(gr.CFGNodeVec, gr.LCSSAs) /\ gr.CFGNodeVec[n] \in CFGNodes /\ n \in Nat
  BY CFGFacts
<1>2. gr.CFGNodeVec[n].LCSSAIndex \in Nat
  BY <1>1 DEF CFGNodes
<1>3. Element(gr, n) \in Elements(gr)
  BY DEF Elements
<1>4. CASE gr.CFGNodeVec[n].isLoopNode
  <2>1. Element(gr, n) = ALoop(gr.CFGNodeVec[n].LCSSAIndex)
    BY <1>4 DEF Element
  <2>2. /\ gr.CFGNodeVec[n].LCSSAIndex \in DOMAIN gr.LCSSAs
        /\ gr.CFGNodeVec[n].bb \in ToSet(gr.LCSSAs[gr.CFGNodeVec[n].LCSSAIndex].bbVec)
    BY <1>1, <1>4 DEF IsCFG
  <2> QED
    BY <1>2, <1>3, <1>4, <2>1, <2>2 DEF ALoop, Path, NodeType, NodesOf
<1>5. CASE ~gr.CFGNodeVec[n].isLoopNode
  <2>1. Element(gr, n) = ANode(n)
    BY <1>5 DEF Element
  <2> QED
    BY <1>1, <1>3, <1>5, <2>1 DEF ANode, Path, NodeType, NodesOf
<1> QED
  BY <1>4, <1>5

(****************************************************************************)
(* A single node leads on to itself only if it is left to itself.           *)
(****************************************************************************)
LEMMA HeightFalls ==
    ASSUME NEW gr \in Graphs
    PROVE  /\ \A e \in Elements(gr) : Height(gr)[e] \in Nat
           /\ \A e, f \in Elements(gr) : LeadsOn(gr, e, f) => Height(gr)[f] < Height(gr)[e]
<1>1. CyclesLieInLoops(gr)
  BY ReducibleAssumption
<1> QED
  BY <1>1 DEF CyclesLieInLoops

(****************************************************************************)
(* The heights of a graph have a bound.                                     *)
(****************************************************************************)
LEMMA HeightBound ==
    ASSUME NEW gr \in Graphs
    PROVE  \E N \in Nat : \A e \in Elements(gr) : Height(gr)[e] < N
<1> DEFINE height == Height(gr)
           S == {m \in Nat : \E N \in Nat : \A n \in DOMAIN gr.CFGNodeVec :
                    n <= m => height[Element(gr, n)] < N}
<1>1. DOMAIN gr.CFGNodeVec = 1..Len(gr.CFGNodeVec) /\ Len(gr.CFGNodeVec) \in Nat
  BY CFGFacts
<1>2. \A n \in DOMAIN gr.CFGNodeVec : height[Element(gr, n)] \in Nat
  BY ElementFacts, HeightFalls
<1> HIDE DEF height
<1>3. 0 \in S
  BY <1>1
<1>4. ASSUME NEW m \in Nat, m \in S PROVE m + 1 \in S
  <2>1. PICK N \in Nat : \A n \in DOMAIN gr.CFGNodeVec : n <= m => height[Element(gr, n)] < N
    BY <1>4
  <2>2. CASE m + 1 \notin DOMAIN gr.CFGNodeVec
    <3>1. \A n \in DOMAIN gr.CFGNodeVec : n <= m + 1 => n <= m
      BY <1>1, <2>2
    <3> QED
      BY <2>1, <3>1
  <2>3. CASE m + 1 \in DOMAIN gr.CFGNodeVec
    <3> DEFINE x == height[Element(gr, m + 1)]
               M == N + x + 1
    <3>1. x \in Nat
      BY <1>2, <2>3
    <3> HIDE DEF x
    <3>2. M \in Nat /\ N <= M /\ x < M
      BY <3>1
    <3> HIDE DEF M
    <3>3. ASSUME NEW n \in DOMAIN gr.CFGNodeVec, n <= m + 1
          PROVE  height[Element(gr, n)] < M
      <4>1. CASE n = m + 1
        BY <3>2, <4>1 DEF x
      <4>2. CASE n # m + 1
        <5>1. n <= m
          BY <1>1, <3>3, <4>2
        <5>2. height[Element(gr, n)] < N /\ height[Element(gr, n)] \in Nat
          BY <1>2, <2>1, <5>1
        <5> QED
          BY <3>2, <5>2
      <4> QED
        BY <4>1, <4>2
    <3> QED
      BY <3>2, <3>3
  <2> QED
    BY <2>2, <2>3
<1> HIDE DEF S
<1>5. Nat \subseteq S
  BY <1>3, <1>4, Inductive
<1>6. PICK N \in Nat : \A n \in DOMAIN gr.CFGNodeVec :
         n <= Len(gr.CFGNodeVec) => height[Element(gr, n)] < N
  BY <1>1, <1>5 DEF S
<1>7. ASSUME NEW e \in Elements(gr) PROVE height[e] < N
  <2>1. PICK n \in DOMAIN gr.CFGNodeVec : e = Element(gr, n)
    BY DEF Elements
  <2> QED
    BY <1>1, <1>6, <2>1
<1> QED
  BY <1>7 DEF height

(****************************************************************************)
(* The function that InitNodesOf recurses on.  It can be built up from the  *)
(* lowest elements, because the heights fall from a walk to a longer one.   *)
(****************************************************************************)
Walks(gr) == Seq(DOMAIN gr.CFGNodeVec) \ {<< >>}

WalkChilds(gr, w) == gr.CFGNodeVec[Last(w)].childs

InitBody(gr, f, w) ==
    IF gr.CFGNodeVec[Last(w)].isLoopNode THEN <<w>>
    ELSE FlattenSeq([j \in DOMAIN WalkChilds(gr, w) |-> f[Append(w, WalkChilds(gr, w)[j])]])

IsInitSearch(gr, f) == f = [w \in Walks(gr) |-> InitBody(gr, f, w)]

LEMMA InitNodesAreSearch ==
    ASSUME NEW gr
    PROVE  InitNodesOf(gr) = (CHOOSE f : IsInitSearch(gr, f))[<<1>>]
BY DEF InitNodesOf, IsInitSearch, InitBody, WalkChilds, Walks

WalkHeight(gr, w) == Height(gr)[Element(gr, Last(w))]

LEMMA WalkEnds ==
    ASSUME NEW gr \in Graphs, NEW w \in Walks(gr)
    PROVE  /\ Last(w) \in DOMAIN gr.CFGNodeVec /\ Len(w) \in Nat \ {0} /\ Last(w) = w[Len(w)]
           /\ WalkHeight(gr, w) \in Nat
           /\ DOMAIN WalkChilds(gr, w) = 1..Len(WalkChilds(gr, w))
           /\ Len(WalkChilds(gr, w)) \in Nat
<1>1. w \in Seq(DOMAIN gr.CFGNodeVec) /\ w # << >>
  BY DEF Walks
<1>2. Last(w) \in DOMAIN gr.CFGNodeVec /\ Len(w) \in Nat \ {0} /\ Last(w) = w[Len(w)]
  <2> DEFINE Nodes == DOMAIN gr.CFGNodeVec
  <2> HIDE DEF Nodes
  <2>1. w \in Seq(Nodes) /\ w # << >>
    BY <1>1 DEF Nodes
  <2>2. Last(w) \in Nodes /\ Len(w) \in Nat \ {0} /\ Last(w) = w[Len(w)]
    BY <2>1, FrontProperties
  <2> QED
    BY <2>2 DEF Nodes
<1>3. WalkHeight(gr, w) \in Nat
  BY <1>2, ElementFacts, HeightFalls DEF WalkHeight
<1>4. WalkChilds(gr, w) \in Seq(Nat)
  BY <1>2, CFGFacts DEF WalkChilds
<1> QED
  BY <1>2, <1>3, <1>4, LenProperties

LEMMA ChildWalk ==
    ASSUME NEW gr \in Graphs, NEW w \in Walks(gr), ~gr.CFGNodeVec[Last(w)].isLoopNode,
           NEW j \in DOMAIN WalkChilds(gr, w)
    PROVE  LET c == WalkChilds(gr, w)[j]
               q == Append(w, c)
           IN  /\ q \in Walks(gr) /\ Len(q) = Len(w) + 1 /\ Last(q) = c
               /\ \A i \in 1..Len(w) : q[i] = w[i]
               /\ q[Len(w) + 1] = c
               /\ c \in ToSet(WalkChilds(gr, w))
               /\ WalkHeight(gr, q) < WalkHeight(gr, w)
<1> DEFINE Nodes == DOMAIN gr.CFGNodeVec
           c == WalkChilds(gr, w)[j]
           q == Append(w, c)
           n == Last(w)
<1>1. n \in Nodes /\ w \in Seq(Nodes)
  BY WalkEnds DEF Walks
<1>2. c \in ToSet(WalkChilds(gr, w))
  BY DEF ToSet
<1>3. c \in Nodes
  BY <1>1, <1>2, CFGFacts DEF WalkChilds
<1>4. LeadsOn(gr, Element(gr, n), Element(gr, c))
  <2>1. Element(gr, n) = ANode(n) /\ n \in NodesOf(gr, Element(gr, n))
    BY <1>1, ElementFacts
  <2>2. c \in NodesOf(gr, Element(gr, c)) /\ c \in ToSet(gr.CFGNodeVec[n].childs)
    BY <1>2, <1>3, ElementFacts DEF WalkChilds
  <2>3. Element(gr, n).type = "ANode"
    BY <2>1 DEF ANode
  <2> QED
    BY <2>1, <2>2, <2>3 DEF LeadsOn, Linked
<1>5. Height(gr)[Element(gr, c)] < Height(gr)[Element(gr, n)]
  BY <1>1, <1>3, <1>4, ElementFacts, HeightFalls
<1> HIDE DEF Nodes, c
<1>6. /\ q \in Seq(Nodes) /\ q # << >> /\ Len(q) = Len(w) + 1
      /\ \A i \in 1..Len(w) : q[i] = w[i]
      /\ q[Len(w) + 1] = c
  BY <1>1, <1>3, AppendProperties
<1>7. Last(q) = c
  BY <1>6 DEF Last
<1> QED
  BY <1>2, <1>5, <1>6, <1>7 DEF Walks, WalkHeight, Nodes, c

LEMMA InitBodyAgrees ==
    ASSUME NEW gr \in Graphs, NEW w \in Walks(gr), NEW f, NEW h,
           \A q \in Walks(gr) : WalkHeight(gr, q) < WalkHeight(gr, w) => f[q] = h[q]
    PROVE  InitBody(gr, f, w) = InitBody(gr, h, w)
<1>1. CASE gr.CFGNodeVec[Last(w)].isLoopNode
  BY <1>1 DEF InitBody
<1>2. CASE ~gr.CFGNodeVec[Last(w)].isLoopNode
  <2>1. \A j \in DOMAIN WalkChilds(gr, w) :
           f[Append(w, WalkChilds(gr, w)[j])] = h[Append(w, WalkChilds(gr, w)[j])]
    BY <1>2, ChildWalk
  <2>2. [j \in DOMAIN WalkChilds(gr, w) |-> f[Append(w, WalkChilds(gr, w)[j])]] =
        [j \in DOMAIN WalkChilds(gr, w) |-> h[Append(w, WalkChilds(gr, w)[j])]]
    BY <2>1
  <2> QED
    BY <1>2, <2>2 DEF InitBody
<1> QED
  BY <1>1, <1>2

InitSearchesBelow(gr, m, f) ==
    \A w \in Walks(gr) : WalkHeight(gr, w) < m => f[w] = InitBody(gr, f, w)

LEMMA InitSearchExists ==
    ASSUME NEW gr \in Graphs
    PROVE  \E f : IsInitSearch(gr, f)
<1> DEFINE S == {m \in Nat : \E f : InitSearchesBelow(gr, m, f)}
<1>1. \A w \in Walks(gr) : WalkHeight(gr, w) \in Nat
  BY WalkEnds
<1>2. 0 \in S
  <2>1. InitSearchesBelow(gr, 0, << >>)
    BY <1>1 DEF InitSearchesBelow
  <2> QED
    BY <2>1
<1>3. ASSUME NEW m \in Nat, m \in S PROVE m + 1 \in S
  <2>1. PICK f : InitSearchesBelow(gr, m, f)
    BY <1>3
  <2> DEFINE h == [w \in Walks(gr) |-> IF WalkHeight(gr, w) < m THEN f[w] ELSE InitBody(gr, f, w)]
  <2>2. \A w \in Walks(gr) : h[w] = IF WalkHeight(gr, w) < m THEN f[w] ELSE InitBody(gr, f, w)
    OBVIOUS
  <2> HIDE DEF h
  <2>3. \A w \in Walks(gr) : h[w] = InitBody(gr, f, w) \/ ~ (WalkHeight(gr, w) < m + 1)
    BY <2>1, <2>2 DEF InitSearchesBelow
  <2>4. ASSUME NEW w \in Walks(gr), WalkHeight(gr, w) < m + 1
        PROVE  InitBody(gr, f, w) = InitBody(gr, h, w)
    <3>1. ASSUME NEW q \in Walks(gr), WalkHeight(gr, q) < WalkHeight(gr, w) PROVE f[q] = h[q]
      <4>1. WalkHeight(gr, q) < m
        BY <1>1, <2>4, <3>1
      <4> QED
        BY <2>2, <4>1
    <3> QED
      BY <3>1, InitBodyAgrees
  <2>5. InitSearchesBelow(gr, m + 1, h)
    BY <2>3, <2>4 DEF InitSearchesBelow
  <2> QED
    BY <2>5
<1> HIDE DEF S
<1>4. Nat \subseteq S
  BY <1>2, <1>3, Inductive
<1>5. PICK N \in Nat : \A e \in Elements(gr) : Height(gr)[e] < N
  BY HeightBound
<1>6. PICK f : InitSearchesBelow(gr, N, f)
  BY <1>4 DEF S
<1>7. \A w \in Walks(gr) : f[w] = InitBody(gr, f, w)
  BY <1>5, <1>6, WalkEnds, ElementFacts DEF InitSearchesBelow, WalkHeight
<1> DEFINE h == [w \in Walks(gr) |-> f[w]]
<1>8. \A w \in Walks(gr) : h[w] = f[w]
  OBVIOUS
<1>9. h = [w \in Walks(gr) |-> h[w]]
  OBVIOUS
<1> HIDE DEF h
<1>10. \A w \in Walks(gr) : h[w] = InitBody(gr, h, w)
  BY <1>7, <1>8, InitBodyAgrees
<1>11. IsInitSearch(gr, h)
  BY <1>9, <1>10 DEF IsInitSearch
<1> QED
  BY <1>11

(****************************************************************************)
(* What a call saves is what its first children save and then the rest.     *)
(****************************************************************************)
Pieces(gr, f, w) == [j \in DOMAIN WalkChilds(gr, w) |-> f[Append(w, WalkChilds(gr, w)[j])]]

Found(gr, f, w, c) == FlattenSeq(First(Pieces(gr, f, w), c))

LEMMA SearchIsBody ==
    ASSUME NEW gr \in Graphs, NEW f, IsInitSearch(gr, f), NEW w \in Walks(gr)
    PROVE  IF gr.CFGNodeVec[Last(w)].isLoopNode
           THEN f[w] = <<w>>
           ELSE f[w] = Found(gr, f, w, Len(WalkChilds(gr, w)))
<1>1. f[w] = InitBody(gr, f, w)
  BY DEF IsInitSearch
<1>2. DOMAIN WalkChilds(gr, w) = 1..Len(WalkChilds(gr, w))
  BY WalkEnds
<1>3. Pieces(gr, f, w) = First(Pieces(gr, f, w), Len(WalkChilds(gr, w)))
  BY <1>2 DEF Pieces, First
<1> QED
  BY <1>1, <1>3 DEF InitBody, Found, Pieces

(****************************************************************************)
(* It saves sequences of walks.                                             *)
(****************************************************************************)
LEMMA SearchType ==
    ASSUME NEW gr \in Graphs, NEW f, IsInitSearch(gr, f)
    PROVE  /\ \A w \in Walks(gr) : f[w] \in Seq(Walks(gr))
           /\ \A w \in Walks(gr) : ~gr.CFGNodeVec[Last(w)].isLoopNode =>
                 \A j \in 1..Len(WalkChilds(gr, w)) : Pieces(gr, f, w)[j] \in Seq(Walks(gr))
<1> DEFINE W == Walks(gr)
           S == {m \in Nat : \A w \in W : WalkHeight(gr, w) < m => f[w] \in Seq(W)}
<1>1. \A w \in W : WalkHeight(gr, w) \in Nat
  BY WalkEnds
<1>2. 0 \in S
  BY <1>1
<1>3. ASSUME NEW w \in W, ~gr.CFGNodeVec[Last(w)].isLoopNode,
             NEW j \in 1..Len(WalkChilds(gr, w)),
             \A q \in W : WalkHeight(gr, q) < WalkHeight(gr, w) => f[q] \in Seq(W)
      PROVE  Pieces(gr, f, w)[j] \in Seq(W)
  <2>1. j \in DOMAIN WalkChilds(gr, w)
    BY WalkEnds
  <2>2. Append(w, WalkChilds(gr, w)[j]) \in W
        /\ WalkHeight(gr, Append(w, WalkChilds(gr, w)[j])) < WalkHeight(gr, w)
    BY <1>3, <2>1, ChildWalk
  <2> QED
    BY <1>3, <2>1, <2>2 DEF Pieces
<1>4. ASSUME NEW m \in Nat, m \in S PROVE m + 1 \in S
  <2> SUFFICES ASSUME NEW w \in W, WalkHeight(gr, w) < m + 1 PROVE f[w] \in Seq(W)
    OBVIOUS
  <2>1. CASE gr.CFGNodeVec[Last(w)].isLoopNode
    <3>1. f[w] = <<w>>
      BY <2>1, SearchIsBody
    <3> HIDE DEF W
    <3>2. <<w>> \in Seq(W)
      BY Singleton
    <3> QED
      BY <3>1, <3>2
  <2>2. CASE ~gr.CFGNodeVec[Last(w)].isLoopNode
    <3> DEFINE n == Len(WalkChilds(gr, w))
               F == Pieces(gr, f, w)
    <3>1. n \in Nat
      BY WalkEnds
    <3>2. ASSUME NEW q \in W, WalkHeight(gr, q) < WalkHeight(gr, w) PROVE f[q] \in Seq(W)
      <4>1. WalkHeight(gr, q) < m
        BY <1>1, <3>2
      <4> QED
        BY <1>4, <4>1
    <3>3. \A j \in 1..n : F[j] \in Seq(W)
      BY <1>3, <2>2, <3>2
    <3>4. f[w] = FlattenSeq(First(F, n))
      BY <2>2, SearchIsBody DEF Found
    <3> HIDE DEF F, n, W
    <3>5. FlattenSeq(First(F, n)) \in Seq(W)
      BY <3>1, <3>3, FlattenMembers
    <3> QED
      BY <3>4, <3>5
  <2> QED
    BY <2>1, <2>2
<1> HIDE DEF S
<1>5. Nat \subseteq S
  BY <1>2, <1>4, Inductive
<1>6. ASSUME NEW w \in W PROVE f[w] \in Seq(W)
  <2>1. WalkHeight(gr, w) \in Nat
    BY <1>1
  <2>2. WalkHeight(gr, w) + 1 \in S /\ WalkHeight(gr, w) < WalkHeight(gr, w) + 1
    BY <1>5, <2>1
  <2> QED
    BY <2>2 DEF S
<1> QED
  BY <1>3, <1>6

(****************************************************************************)
(* Found moves on by one piece.                                             *)
(****************************************************************************)
LEMMA FoundGrows ==
    ASSUME NEW gr \in Graphs, NEW f, IsInitSearch(gr, f), NEW w \in Walks(gr),
           ~gr.CFGNodeVec[Last(w)].isLoopNode,
           NEW c \in Nat, c <= Len(WalkChilds(gr, w))
    PROVE  /\ Found(gr, f, w, c) \in Seq(Walks(gr))
           /\ c < Len(WalkChilds(gr, w)) =>
                 Found(gr, f, w, c + 1) =
                    Found(gr, f, w, c) \o f[Append(w, WalkChilds(gr, w)[c+1])]
<1> DEFINE F == Pieces(gr, f, w)
           n == Len(WalkChilds(gr, w))
           S == Walks(gr)
<1>1. n \in Nat /\ DOMAIN WalkChilds(gr, w) = 1..n
  BY WalkEnds
<1>2. \A j \in 1..n : F[j] \in Seq(S) /\ F[j] = f[Append(w, WalkChilds(gr, w)[j])]
  BY <1>1, SearchType DEF Pieces
<1> HIDE DEF F, n, S
<1>3. FlattenSeq(First(F, c)) \in Seq(S)
  <2>1. \A j \in 1..c : F[j] \in Seq(S)
    BY <1>1, <1>2 DEF n
  <2> QED
    BY <2>1, FlattenMembers
<1>4. ASSUME c < n
      PROVE  FlattenSeq(First(F, c + 1)) =
                FlattenSeq(First(F, c)) \o f[Append(w, WalkChilds(gr, w)[c+1])]
  <2>1. \A j \in 1..c+1 : F[j] \in Seq(S)
    BY <1>1, <1>2, <1>4
  <2>2. FlattenSeq(First(F, c + 1)) = FlattenSeq(First(F, c)) \o F[c+1]
    BY <2>1, FlattenGrows
  <2>3. c + 1 \in 1..n
    BY <1>1, <1>4
  <2> QED
    BY <1>2, <2>2, <2>3
<1> QED
  BY <1>3, <1>4 DEF Found, F, n, S

------------------------------------------------------------------------------
(****************************************************************************)
(* The calls in progress: none is past its children, one on a loop node has *)
(* tried none, and the outermost returns when it is through.                *)
(****************************************************************************)
ChildsAt(w, d) == g.CFGNodeVec[w[d]].childs

CallsInv ==
    /\ \A d \in 1..Len(vec)-1 : next[d] - 1 <= Len(ChildsAt(vec, d))
    /\ Last(next) <= Len(LastNode.childs) + 1
    /\ LastNode.isLoopNode => Last(next) = 1
    /\ pc = "done" => Len(vec) = 1 /\ ~LastNode.isLoopNode /\ Last(next) > Len(LastNode.childs)

LEMMA CallFacts ==
    ASSUME Inv
    PROVE  /\ g \in Graphs /\ vec \in Walks(g) /\ vec \in Seq(DOMAIN g.CFGNodeVec)
           /\ Len(vec) \in Nat \ {0} /\ Len(next) = Len(vec) /\ Len(vec) \in 1..Len(vec)
           /\ Last(vec) = vec[Len(vec)] /\ Last(next) = next[Len(vec)]
           /\ Last(next) \in Nat \ {0}
           /\ \A d \in 1..Len(vec) :
                 /\ vec[d] \in DOMAIN g.CFGNodeVec /\ next[d] \in Nat \ {0}
                 /\ ChildsAt(vec, d) \in Seq(Nat) /\ Len(ChildsAt(vec, d)) \in Nat
                 /\ ToSet(ChildsAt(vec, d)) \subseteq DOMAIN g.CFGNodeVec
           /\ LastNode.childs = ChildsAt(vec, Len(vec)) /\ Len(LastNode.childs) \in Nat
           /\ WalkChilds(g, vec) = LastNode.childs
<1> DEFINE Nodes == DOMAIN g.CFGNodeVec
           T == Nat \ {0}
<1>1. /\ g \in Graphs /\ vec \in Seq(Nodes) /\ vec # << >> /\ next \in Seq(T) /\ next # << >>
      /\ Len(next) = Len(vec)
  BY DEF Inv, TypeOK, CallsMatchVec
<1>2. vec \in Walks(g)
  BY <1>1 DEF Walks
<1> HIDE DEF Nodes, T
<1>3. /\ Len(vec) \in Nat \ {0} /\ Last(vec) = vec[Len(vec)] /\ Last(next) = next[Len(vec)]
      /\ Last(next) \in T
  BY <1>1, FrontProperties
<1>4. Len(vec) \in 1..Len(vec)
  BY <1>3
<1>5. \A d \in 1..Len(vec) : vec[d] \in Nodes /\ next[d] \in T
  BY <1>1, ElementOfSeq
<1>6. ASSUME NEW d \in 1..Len(vec)
      PROVE  /\ ChildsAt(vec, d) \in Seq(Nat) /\ Len(ChildsAt(vec, d)) \in Nat
             /\ ToSet(ChildsAt(vec, d)) \subseteq Nodes
  BY <1>1, <1>5, CFGFacts, LenProperties DEF ChildsAt, Nodes
<1>7. /\ LastNode.childs = ChildsAt(vec, Len(vec)) /\ WalkChilds(g, vec) = LastNode.childs
  BY <1>3 DEF LastNode, ChildsAt, WalkChilds
<1> QED
  BY <1>1, <1>2, <1>3, <1>4, <1>5, <1>6, <1>7 DEF Nodes, T

(****************************************************************************)
(* What a return leaves of the vector and of the counters.                  *)
(****************************************************************************)
LEMMA PopFacts ==
    ASSUME Inv, Len(vec) > 1
    PROVE  /\ Len(Front(vec)) = Len(vec) - 1 /\ Len(Front(next)) = Len(vec) - 1
           /\ Len(vec) - 1 \in Nat \ {0}
           /\ \A d \in 1..Len(vec)-1 : Front(vec)[d] = vec[d] /\ Front(next)[d] = next[d]
           /\ Last(Front(vec)) = vec[Len(vec)-1] /\ Last(Front(next)) = next[Len(vec)-1]
<1> DEFINE n == Len(vec)
           T == Nat \ {0}
<1>1. /\ n \in Nat \ {0} /\ Len(next) = n /\ n > 1
      /\ vec \in Seq(DOMAIN g.CFGNodeVec) /\ vec # << >> /\ next \in Seq(T) /\ next # << >>
  BY CallFacts DEF Inv, TypeOK
<1> HIDE DEF n, T
<1>2. Len(Front(vec)) = n - 1 /\ \A d \in 1..n-1 : Front(vec)[d] = vec[d]
  BY <1>1, FrontProperties DEF n
<1>3. Len(Front(next)) = n - 1 /\ \A d \in 1..n-1 : Front(next)[d] = next[d]
  BY <1>1, FrontProperties
<1>4. n - 1 \in Nat \ {0} /\ n - 1 \in 1..n-1
  BY <1>1
<1>5. Last(Front(vec)) = vec[n-1] /\ Last(Front(next)) = next[n-1]
  BY <1>2, <1>3, <1>4 DEF Last
<1> QED
  BY <1>2, <1>3, <1>4, <1>5 DEF n

LEMMA PopKeepsCalls ==
    ASSUME Inv, CallsInv, Len(vec) > 1, pc = "search", pc' = pc, g' = g,
           vec' = Front(vec), next' = Front(next)
    PROVE  CallsInv'
<1> DEFINE n == Len(vec)
           m == n - 1
<1>1. /\ Len(vec') = m /\ m \in Nat \ {0} /\ m \in 1..n-1 /\ m \in 1..n
      /\ \A d \in 1..m : next'[d] = next[d] /\ vec'[d] = vec[d]
      /\ Last(next') = next[m] /\ Last(vec') = vec[m]
  BY PopFacts, CallFacts
<1>2. \A d \in 1..n-1 : next[d] - 1 <= Len(ChildsAt(vec, d))
  BY DEF CallsInv
<1>3. /\ next[m] \in Nat \ {0} /\ Len(ChildsAt(vec, m)) \in Nat
      /\ next[m] - 1 <= Len(ChildsAt(vec, m))
  BY <1>1, <1>2, CallFacts
<1>4. ~g.CFGNodeVec[vec[m]].isLoopNode
  BY <1>1 DEF Inv, CallsMatchVec, LeadsToFirstLoop
<1> HIDE DEF m
<1>5. ASSUME NEW d \in 1..m-1 PROVE next'[d] - 1 <= Len(ChildsAt(vec, d))'
  <2>1. d \in 1..m /\ d \in 1..n-1
    BY <1>1 DEF m
  <2> QED
    BY <1>1, <1>2, <2>1 DEF ChildsAt
<1>6. LastNode' = g.CFGNodeVec[vec[m]] /\ LastNode'.childs = ChildsAt(vec, m)
  BY <1>1 DEF LastNode, ChildsAt
<1>7. Last(next') <= Len(LastNode'.childs) + 1
  BY <1>1, <1>3, <1>6
<1> QED
  BY <1>1, <1>4, <1>5, <1>6, <1>7 DEF CallsInv

(****************************************************************************)
(* The counters when a call is made.                                        *)
(****************************************************************************)
Bumped == [next EXCEPT ![Len(next)] = @ + 1]

LEMMA CallEffect ==
    ASSUME Inv, Descend
    PROVE  LET c == LastNode.childs[Last(next)]
           IN  /\ c \in DOMAIN g.CFGNodeVec
               /\ Last(next) \in 1..Len(LastNode.childs)
               /\ vec' = Append(vec, c) /\ next' = Append(Bumped, 1)
               /\ vec' \in Walks(g) /\ Len(vec') = Len(vec) + 1 /\ Len(next') = Len(vec) + 1
               /\ \A d \in 1..Len(vec) : vec'[d] = vec[d]
               /\ vec'[Len(vec)+1] = c /\ Last(vec') = c
               /\ \A d \in 1..Len(vec)-1 : next'[d] = next[d]
               /\ next'[Len(vec)] = Last(next) + 1
               /\ next'[Len(vec)+1] = 1 /\ Last(next') = 1
<1> DEFINE c == LastNode.childs[Last(next)]
           n == Len(vec)
           T == Nat \ {0}
           x == next[n] + 1
<1>1. /\ ~LastNode.isLoopNode /\ Last(next) <= Len(LastNode.childs)
      /\ vec' = Append(vec, c) /\ next' = Append(Bumped, 1)
  BY DEF Descend, Bumped
<1>2. /\ g \in Graphs /\ vec \in Walks(g) /\ n \in Nat \ {0} /\ Len(next) = n /\ n \in 1..n
      /\ Last(next) \in Nat \ {0} /\ Last(next) = next[n]
      /\ Len(LastNode.childs) \in Nat
      /\ WalkChilds(g, vec) = LastNode.childs
      /\ LastNode = g.CFGNodeVec[Last(vec)] /\ next \in Seq(T)
      /\ LastNode.childs \in Seq(Nat) /\ ToSet(LastNode.childs) \subseteq DOMAIN g.CFGNodeVec
  BY CallFacts DEF LastNode, Inv, TypeOK
<1>3. Last(next) \in 1..Len(LastNode.childs) /\ Last(next) \in DOMAIN WalkChilds(g, vec)
  BY <1>1, <1>2, WalkEnds
<1>4. c \in DOMAIN g.CFGNodeVec
  <2>1. c \in ToSet(LastNode.childs)
    BY <1>2, <1>3 DEF ToSet
  <2> QED
    BY <1>2, <2>1
<1>5. /\ vec' \in Walks(g) /\ Len(vec') = n + 1 /\ Last(vec') = c
      /\ \A d \in 1..n : vec'[d] = vec[d]
      /\ vec'[n+1] = c
  BY <1>1, <1>2, <1>3, ChildWalk
<1>6. Bumped = [next EXCEPT ![n] = x] /\ x \in T /\ x = Last(next) + 1 /\ 1 \in T
  BY <1>2 DEF Bumped
<1> HIDE DEF T, x
<1>7. /\ Bumped \in Seq(T) /\ Len(Bumped) = n
      /\ \A d \in 1..n : Bumped[d] = IF d = n THEN x ELSE next[d]
  BY <1>2, <1>6, ExceptSeq
<1>8. /\ Len(next') = n + 1 /\ next' \in Seq(T)
      /\ \A d \in 1..n : next'[d] = Bumped[d]
      /\ next'[n+1] = 1
  BY <1>1, <1>6, <1>7, AppendProperties
<1>9. \A d \in 1..n-1 : d \in 1..n /\ d # n
  BY <1>2
<1>10. /\ \A d \in 1..n-1 : next'[d] = next[d]
       /\ next'[n] = Last(next) + 1 /\ Last(next') = 1
  BY <1>2, <1>6, <1>7, <1>8, <1>9 DEF Last
<1> QED
  BY <1>1, <1>3, <1>4, <1>5, <1>8, <1>10

LEMMA CallsKept == ASSUME Inv, CallsInv, [Next]_vars PROVE CallsInv'
<1> DEFINE n == Len(vec)
<1>1. /\ n \in Nat \ {0} /\ Last(next) \in Nat \ {0} /\ Len(LastNode.childs) \in Nat
      /\ Last(next) = next[n] /\ Last(vec) = vec[n]
  BY CallFacts
<1>2. CASE FindLoop
  <2>1. n > 1
    <3>1. ASSUME n = 1 PROVE FALSE
      <4>1. LastNode = g.CFGNodeVec[1]
        BY <1>1, <3>1 DEF LastNode, Inv, CallsMatchVec, LeadsToFirstLoop
      <4> QED
        BY <1>2, <4>1, GraphFacts DEF FindLoop, Inv
    <3> QED
      BY <1>1, <3>1, SMTT(30)
  <2> QED
    BY <1>2, <2>1, PopKeepsCalls DEF FindLoop
<1>3. CASE BackUp
  BY <1>3, PopKeepsCalls DEF BackUp, Exhausted
<1>4. CASE Descend
  <2> DEFINE c == LastNode.childs[Last(next)]
  <2>1. /\ g' = g /\ pc' = pc /\ pc = "search"
    BY <1>4 DEF Descend
  <2>2. /\ c \in DOMAIN g.CFGNodeVec /\ Last(next) \in 1..Len(LastNode.childs)
        /\ Len(vec') = n + 1 /\ \A d \in 1..n : vec'[d] = vec[d]
        /\ Last(vec') = c
        /\ \A d \in 1..n-1 : next'[d] = next[d]
        /\ next'[n] = Last(next) + 1 /\ Last(next') = 1
    BY <1>4, CallEffect
  <2>3. g.CFGNodeVec[c].childs \in Seq(Nat) /\ Len(g.CFGNodeVec[c].childs) \in Nat
    BY <2>2, CFGFacts, LenProperties DEF Inv
  <2>4. LastNode' = g.CFGNodeVec[c]
    BY <2>1, <2>2 DEF LastNode
  <2> HIDE DEF c
  <2>5. ASSUME NEW d \in 1..Len(vec')-1 PROVE next'[d] - 1 <= Len(ChildsAt(vec, d)')
    <3>1. d \in 1..n /\ ChildsAt(vec, d)' = ChildsAt(vec, d)
      BY <1>1, <2>1, <2>2 DEF ChildsAt
    <3>2. CASE d = n
      <4>1. ChildsAt(vec, n) = LastNode.childs
        BY CallFacts
      <4> QED
        BY <1>1, <2>2, <3>1, <3>2, <4>1
    <3>3. CASE d # n
      <4>1. d \in 1..n-1
        BY <1>1, <3>1, <3>3
      <4> QED
        BY <2>2, <3>1, <4>1 DEF CallsInv
    <3> QED
      BY <3>2, <3>3
  <2>6. Last(next') <= Len(LastNode'.childs) + 1
    BY <2>2, <2>3, <2>4
  <2> QED
    BY <2>1, <2>2, <2>5, <2>6 DEF CallsInv
<1>5. CASE Finish
  BY <1>5 DEF Finish, Exhausted, CallsInv, ChildsAt, LastNode
<1>6. CASE UNCHANGED vars
  BY <1>6 DEF vars, CallsInv, ChildsAt, LastNode
<1> QED
  BY <1>2, <1>3, <1>4, <1>5, <1>6 DEF Next, Terminated

LEMMA CallsStart == ASSUME Init PROVE CallsInv
<1>1. g \in Graphs /\ vec = <<1>> /\ next = <<1>> /\ pc = "search" /\ Inv
  BY InitInv DEF Init
<1>2. Len(vec) = 1 /\ Last(next) = 1
  BY <1>1 DEF Last
<1>3. Len(LastNode.childs) \in Nat
  BY <1>1, CallFacts
<1> QED
  BY <1>1, <1>2, <1>3 DEF CallsInv

------------------------------------------------------------------------------
(****************************************************************************)
(* What has been saved: for each call in progress, from the outermost on,   *)
(* what the children it is through with gave.  The child in progress is not *)
(* one of them.                                                             *)
(****************************************************************************)
Tried(nx, d) == IF d = Len(nx) THEN nx[d] - 1 ELSE nx[d] - 2

Part(f, w, nx, d) == Found(g, f, First(w, d), Tried(nx, d))

Parts(f, w, nx) == [d \in 1..Len(nx) |-> Part(f, w, nx, d)]

SavedInv(f) == initNodes = FlattenSeq(Parts(f, vec, next))

(****************************************************************************)
(* The walks that the calls stand on are the beginnings of vec.             *)
(****************************************************************************)
LEMMA CallWays ==
    ASSUME Inv, NEW d \in 1..Len(vec)
    PROVE  /\ First(vec, d) \in Walks(g)
           /\ Last(First(vec, d)) = vec[d]
           /\ WalkChilds(g, First(vec, d)) = ChildsAt(vec, d)
           /\ d = Len(vec) => First(vec, d) = vec
           /\ d < Len(vec) =>
                 /\ First(vec, d + 1) = Append(First(vec, d), vec[d+1])
                 /\ ~g.CFGNodeVec[vec[d]].isLoopNode
<1> DEFINE p == First(vec, d)
           Nodes == DOMAIN g.CFGNodeVec
<1>1. vec \in Seq(Nodes) /\ DOMAIN vec = 1..Len(vec) /\ Len(vec) \in Nat /\ d \in Nat \ {0}
  BY CallFacts, LenProperties
<1>2. \A a \in 1..d : a \in 1..Len(vec) /\ vec[a] \in Nodes
  BY <1>1, ElementOfSeq
<1>3. p = [a \in 1..d |-> vec[a]]
  BY DEF First
<1> HIDE DEF p, Nodes
<1>4. p \in [1..d -> Nodes]
  BY <1>2, <1>3
<1>5. p \in Seq(Nodes) /\ Len(p) = d /\ p # << >>
  BY <1>1, <1>3, <1>4
<1>6. Last(p) = vec[d]
  BY <1>1, <1>3, <1>5 DEF Last
<1>7. ASSUME d = Len(vec) PROVE p = vec
  <2>1. vec = [a \in 1..Len(vec) |-> vec[a]]
    BY <1>1
  <2> QED
    BY <1>3, <1>7, <2>1
<1>8. ASSUME d < Len(vec) PROVE First(vec, d + 1) = Append(p, vec[d+1])
  <2>1. d + 1 \in 1..Len(vec)
    BY <1>1, <1>8
  <2>2. vec[d+1] \in Nodes
    BY <1>1, <2>1, ElementOfSeq
  <2> DEFINE r == Append(p, vec[d+1])
             s == First(vec, d + 1)
  <2>3. /\ r \in Seq(Nodes) /\ Len(r) = d + 1 /\ \A a \in 1..d : r[a] = p[a]
        /\ r[d+1] = vec[d+1]
    BY <1>5, <2>2, AppendProperties
  <2>4. \A a \in 1..d+1 : r[a] = vec[a]
    BY <1>1, <1>3, <2>3
  <2>5. DOMAIN r = 1..d+1
    BY <2>3, LenProperties
  <2>6. s = [a \in 1..d+1 |-> vec[a]]
    BY DEF First
  <2>7. r = [a \in 1..d+1 |-> r[a]]
    <3>1. r = [a \in DOMAIN r |-> r[a]]
      BY <2>3
    <3> QED
      BY <2>5, <3>1
  <2> HIDE DEF r, s
  <2>8. r = s
    BY <2>4, <2>6, <2>7
  <2> QED
    BY <2>8 DEF r, s
<1>9. ASSUME d < Len(vec) PROVE ~g.CFGNodeVec[vec[d]].isLoopNode
  <2>1. d \in 1..Len(vec)-1
    BY <1>1, <1>9
  <2> QED
    BY <2>1 DEF Inv, CallsMatchVec, LeadsToFirstLoop
<1>10. WalkChilds(g, p) = ChildsAt(vec, d)
  BY <1>6 DEF WalkChilds, ChildsAt
<1> QED
  BY <1>5, <1>6, <1>7, <1>8, <1>9, <1>10 DEF Walks, p, Nodes

(****************************************************************************)
(* The parts are sequences of walks, so that they can be put together one   *)
(* by one.  A call on a loop node has tried none.                           *)
(****************************************************************************)
LEMMA PartsType ==
    ASSUME Inv, CallsInv, NEW f, IsInitSearch(g, f), NEW d \in 1..Len(vec)
    PROVE  /\ Tried(next, d) \in Nat
           /\ Tried(next, d) <= Len(ChildsAt(vec, d))
           /\ Part(f, vec, next, d) \in Seq(Walks(g))
           /\ Parts(f, vec, next)[d] = Part(f, vec, next, d)
<1> DEFINE n == Len(vec)
<1>1. /\ g \in Graphs /\ n \in Nat \ {0} /\ Len(next) = n /\ d \in 1..n
      /\ next[d] \in Nat \ {0} /\ Len(ChildsAt(vec, d)) \in Nat
      /\ Last(next) = next[n] /\ LastNode.childs = ChildsAt(vec, n)
      /\ Last(vec) = vec[n]
  BY CallFacts
<1>2. Tried(next, d) \in Nat /\ Tried(next, d) <= Len(ChildsAt(vec, d))
  <2>1. CASE d = n
    <3>1. next[d] <= Len(ChildsAt(vec, d)) + 1
      BY <1>1, <2>1 DEF CallsInv
    <3> QED
      BY <1>1, <2>1, <3>1 DEF Tried
  <2>2. CASE d # n
    <3>1. d \in 1..n-1
      BY <1>1, <2>2
    <3>2. next[d] > 1 /\ next[d] - 1 <= Len(ChildsAt(vec, d))
      BY <3>1 DEF CallsInv, Inv, CallsMatchVec
    <3> QED
      BY <1>1, <2>2, <3>2 DEF Tried
  <2> QED
    BY <2>1, <2>2
<1>3. /\ First(vec, d) \in Walks(g) /\ Last(First(vec, d)) = vec[d]
      /\ WalkChilds(g, First(vec, d)) = ChildsAt(vec, d)
      /\ d < n => ~g.CFGNodeVec[vec[d]].isLoopNode
  BY CallWays
<1>4. Part(f, vec, next, d) \in Seq(Walks(g))
  <2>1. CASE ~g.CFGNodeVec[vec[d]].isLoopNode
    BY <1>1, <1>2, <1>3, <2>1, FoundGrows DEF Part
  <2>2. CASE g.CFGNodeVec[vec[d]].isLoopNode
    <3>1. d = n
      BY <1>1, <1>3, <2>2
    <3>2. Last(next) = 1
      BY <1>1, <2>2, <3>1 DEF CallsInv, LastNode
    <3>3. Tried(next, d) = 0
      BY <1>1, <3>1, <3>2 DEF Tried
    <3>4. Part(f, vec, next, d) = << >>
      BY <3>3, FlattenNone DEF Part, Found
    <3> QED
      BY <3>4, EmptySeq
  <2> QED
    BY <2>1, <2>2
<1>5. Parts(f, vec, next)[d] = Part(f, vec, next, d)
  BY <1>1 DEF Parts
<1> QED
  BY <1>2, <1>4, <1>5

(****************************************************************************)
(* The part of the last call comes last.                                    *)
(****************************************************************************)
LEMMA LastPart ==
    ASSUME Inv, CallsInv, NEW f, IsInitSearch(g, f)
    PROVE  LET A == FlattenSeq(First(Parts(f, vec, next), Len(vec)-1))
               B == Found(g, f, vec, Last(next) - 1)
           IN  /\ FlattenSeq(Parts(f, vec, next)) = A \o B
               /\ A \in Seq(Walks(g)) /\ B \in Seq(Walks(g))
<1> DEFINE n == Len(vec)
           P == Parts(f, vec, next)
           S == Walks(g)
<1>1. /\ n \in Nat \ {0} /\ n \in 1..n /\ n - 1 \in Nat /\ (n - 1) + 1 = n
      /\ Last(next) = next[n] /\ Len(next) = n
  BY CallFacts
<1>2. \A d \in 1..n : P[d] = Part(f, vec, next, d) /\ P[d] \in Seq(S)
  BY PartsType
<1>3. P[n] = Found(g, f, vec, Last(next) - 1)
  <2>1. First(vec, n) = vec
    BY <1>1, CallWays
  <2>2. Tried(next, n) = Last(next) - 1
    BY <1>1 DEF Tried
  <2> QED
    BY <1>1, <1>2, <2>1, <2>2 DEF Part
<1>4. P = First(P, n)
  BY <1>1 DEF First, Parts
<1> HIDE DEF P, n, S
<1>5. /\ FlattenSeq(First(P, n - 1)) \in Seq(S)
      /\ FlattenSeq(First(P, n)) = FlattenSeq(First(P, n - 1)) \o P[n]
  BY <1>1, <1>2, FlattenGrows
<1> QED
  BY <1>1, <1>2, <1>3, <1>4, <1>5 DEF P, n, S

(****************************************************************************)
(* A return hands the caller what the call as a whole saves.                *)
(****************************************************************************)
LEMMA ReturnSaved ==
    ASSUME Inv, CallsInv, NEW f, IsInitSearch(g, f),
           NEW m \in Nat \ {0}, Len(vec) = m + 1
    PROVE  FlattenSeq(Parts(f, Front(vec), Front(next))) =
           FlattenSeq(First(Parts(f, vec, next), m)) \o f[vec]
<1> DEFINE n == m + 1
           P == Parts(f, vec, next)
           Q == Parts(f, Front(vec), Front(next))
           S == Walks(g)
<1>1. /\ n \in Nat \ {0} /\ m \in 1..n /\ m \in 1..m /\ n \in 1..n /\ m < n /\ m # n
      /\ g \in Graphs /\ vec \in S
      /\ n = Len(vec) /\ n = Len(next) /\ m = Len(vec) - 1 /\ Len(vec) > 1
  BY CallFacts
<1> HIDE DEF n
<1>2. /\ Len(Front(next)) = m /\ Len(Front(vec)) = m
      /\ \A d \in 1..m : Front(next)[d] = next[d] /\ Front(vec)[d] = vec[d]
  BY <1>1, PopFacts
<1>3. \A d \in 1..n : P[d] = Part(f, vec, next, d) /\ P[d] \in Seq(S)
  BY <1>1, PartsType
<1>4. \A d \in 1..m : Q[d] = Part(f, Front(vec), Front(next), d)
  BY <1>2 DEF Parts
<1>5. Q = First(Q, m)
  BY <1>2 DEF First, Parts
<1>6. ASSUME NEW d \in 1..m PROVE First(Front(vec), d) = First(vec, d)
  <2>1. \A a \in 1..d : Front(vec)[a] = vec[a]
    BY <1>2
  <2> QED
    BY <2>1, FirstAgrees
<1>7. ASSUME NEW d \in 1..m-1 PROVE Q[d] = P[d]
  <2>1. d \in 1..m /\ d # m /\ d # n /\ d \in 1..n
    BY <1>1
  <2>2. Tried(Front(next), d) = Tried(next, d)
    BY <1>1, <1>2, <2>1 DEF Tried
  <2>3. Q[d] = Part(f, Front(vec), Front(next), d) /\ P[d] = Part(f, vec, next, d)
    BY <1>3, <1>4, <2>1
  <2>4. First(Front(vec), d) = First(vec, d)
    BY <1>6, <2>1
  <2> QED
    BY <2>2, <2>3, <2>4 DEF Part
<1> DEFINE w == First(vec, m)
           c == next[m] - 2
<1>8. /\ w \in S /\ Last(w) = vec[m] /\ vec = Append(w, vec[n])
      /\ WalkChilds(g, w) = ChildsAt(vec, m) /\ ~g.CFGNodeVec[Last(w)].isLoopNode
  <2>1. /\ w \in S /\ Last(w) = vec[m] /\ WalkChilds(g, w) = ChildsAt(vec, m)
        /\ First(vec, m + 1) = Append(w, vec[m+1]) /\ ~g.CFGNodeVec[vec[m]].isLoopNode
    BY <1>1, CallWays
  <2>2. First(vec, n) = vec
    BY <1>1, CallWays
  <2> QED
    BY <2>1, <2>2 DEF n
<1>9. /\ next[m] \in Nat \ {0} /\ next[m] > 1 /\ next[m] - 1 <= Len(ChildsAt(vec, m))
      /\ Len(ChildsAt(vec, m)) \in Nat /\ vec[n] = ChildsAt(vec, m)[next[m]-1]
  <2>1. m \in 1..Len(vec)-1 /\ m + 1 = n
    BY <1>1 DEF n
  <2> QED
    BY <1>1, <2>1, CallFacts DEF CallsInv, Inv, CallsMatchVec, ChildsAt
<1>10. P[m] = Found(g, f, w, c) /\ Q[m] = Found(g, f, w, c + 1)
  <2>1. Tried(next, m) = c
    BY <1>1 DEF Tried
  <2>2. Tried(Front(next), m) = next[m] - 1 /\ next[m] - 1 = c + 1
    BY <1>1, <1>2, <1>9 DEF Tried
  <2>3. First(Front(vec), m) = w
    BY <1>1, <1>6
  <2>4. P[m] = Part(f, vec, next, m) /\ Q[m] = Part(f, Front(vec), Front(next), m)
    BY <1>1, <1>3, <1>4
  <2> QED
    BY <2>1, <2>2, <2>3, <2>4 DEF Part
<1>11. /\ c \in Nat /\ c + 1 = next[m] - 1
       /\ c < Len(WalkChilds(g, w)) /\ c <= Len(WalkChilds(g, w))
  BY <1>8, <1>9
<1>12. f[Append(w, WalkChilds(g, w)[c+1])] = f[vec]
  BY <1>8, <1>9, <1>11
<1> HIDE DEF w, c, P, Q
<1>13. Q[m] = P[m] \o f[vec]
  <2>1. Found(g, f, w, c + 1) = Found(g, f, w, c) \o f[Append(w, WalkChilds(g, w)[c+1])]
    BY <1>1, <1>8, <1>11, FoundGrows
  <2> QED
    BY <1>10, <1>12, <2>1
<1> HIDE DEF S
<1>14. f[vec] \in Seq(S)
  BY <1>1, SearchType DEF S
<1>15. ASSUME NEW d \in 1..m PROVE P[d] \in Seq(S) /\ Q[d] \in Seq(S)
  <2>1. P[d] \in Seq(S)
    BY <1>1, <1>3
  <2>2. CASE d = m
    BY <1>13, <1>14, <2>1, <2>2, ConcatProperties
  <2>3. CASE d # m
    <3>1. d \in 1..m-1
      BY <1>1, <2>3
    <3> QED
      BY <1>7, <2>1, <3>1
  <2> QED
    BY <2>1, <2>2, <2>3
<1> DEFINE A == FlattenSeq(First(P, m - 1))
<1>16. m - 1 \in Nat /\ (m - 1) + 1 = m
  OBVIOUS
<1>17. A \in Seq(S) /\ FlattenSeq(First(P, m)) = A \o P[m]
  BY <1>15, <1>16, FlattenGrows
<1>18. FlattenSeq(First(Q, m)) = FlattenSeq(First(Q, m - 1)) \o Q[m]
  BY <1>15, <1>16, FlattenGrows
<1>19. First(Q, m - 1) = First(P, m - 1)
  BY <1>7, FirstAgrees
<1> HIDE DEF A
<1>20. (A \o P[m]) \o f[vec] = A \o (P[m] \o f[vec])
  <2> DEFINE x == P[m]
             y == f[vec]
  <2>1. x \in Seq(S) /\ y \in Seq(S)
    BY <1>1, <1>14, <1>15
  <2> HIDE DEF x, y
  <2>2. (A \o x) \o y = A \o (x \o y)
    BY <1>17, <2>1, ConcatAssociative, SMTT(30)
  <2> QED
    BY <2>2 DEF x, y
<1> QED
  BY <1>5, <1>13, <1>17, <1>18, <1>19, <1>20 DEF A, P, Q

(****************************************************************************)
(* A call that saves its walk, or is through with its children, has saved   *)
(* what the search function says.                                           *)
(****************************************************************************)
LEMMA ExhaustedFound ==
    ASSUME Inv, CallsInv, NEW f, IsInitSearch(g, f),
           ~LastNode.isLoopNode, Last(next) > Len(LastNode.childs)
    PROVE  Found(g, f, vec, Last(next) - 1) = f[vec]
<1>1. /\ vec \in Walks(g) /\ g \in Graphs /\ WalkChilds(g, vec) = LastNode.childs
      /\ Last(next) \in Nat \ {0} /\ Len(LastNode.childs) \in Nat
  BY CallFacts
<1>2. Last(next) - 1 = Len(WalkChilds(g, vec))
  BY <1>1 DEF CallsInv
<1> QED
  BY <1>1, <1>2, SearchIsBody DEF LastNode

LEMMA SavedReturn ==
    ASSUME Inv, CallsInv, NEW f, IsInitSearch(g, f), SavedInv(f), Len(vec) > 1,
           g' = g, vec' = Front(vec), next' = Front(next),
           \/ LastNode.isLoopNode /\ initNodes' = Append(initNodes, vec)
           \/ /\ ~LastNode.isLoopNode /\ Last(next) > Len(LastNode.childs)
              /\ initNodes' = initNodes
    PROVE  SavedInv(f)'
<1> DEFINE n == Len(vec)
           m == n - 1
           A == FlattenSeq(First(Parts(f, vec, next), m))
           B == Found(g, f, vec, Last(next) - 1)
           S == Walks(g)
<1>1. /\ g \in Graphs /\ vec \in S /\ m \in Nat \ {0} /\ n = m + 1
      /\ Last(next) \in Nat \ {0}
  BY CallFacts
<1>2. /\ A \in Seq(S) /\ B \in Seq(S) /\ initNodes = A \o B
  BY LastPart DEF SavedInv
<1>3. Parts(f, vec, next)' = Parts(f, Front(vec), Front(next))
  BY DEF Parts, Part
<1>4. FlattenSeq(Parts(f, Front(vec), Front(next))) = A \o f[vec]
  BY <1>1, ReturnSaved
<1>5. CASE LastNode.isLoopNode
  <2>1. f[vec] = <<vec>>
    BY <1>1, <1>5, SearchIsBody DEF LastNode
  <2>2. B = << >>
    <3>1. Last(next) - 1 = 0
      BY <1>5 DEF CallsInv
    <3> QED
      BY <3>1, FlattenNone DEF Found
  <2> HIDE DEF A, B, S
  <2>3. initNodes = A
    BY <1>2, <2>2, ConcatEmptySeq
  <2>4. Append(A, vec) = A \o <<vec>>
    BY <1>1, <1>2, AppendIsConcat
  <2> QED
    BY <1>3, <1>4, <1>5, <2>1, <2>3, <2>4 DEF SavedInv
<1>6. CASE ~LastNode.isLoopNode
  <2>1. B = f[vec]
    BY <1>6, ExhaustedFound
  <2> QED
    BY <1>2, <1>3, <1>4, <1>6, <2>1 DEF SavedInv
<1> QED
  BY <1>5, <1>6

LEMMA SavedCall ==
    ASSUME Inv, CallsInv, NEW f, IsInitSearch(g, f), SavedInv(f), Descend
    PROVE  SavedInv(f)'
<1> DEFINE n == Len(vec)
           P == Parts(f, vec, next)
           Q == Parts(f, vec', next')
           S == Walks(g)
<1>1. /\ n \in Nat \ {0} /\ n \in 1..n /\ n + 1 \in 1..n+1 /\ Len(next) = n
      /\ Last(next) = next[n] /\ Last(next) \in Nat \ {0}
  BY CallFacts
<1>2. /\ g' = g /\ initNodes' = initNodes
  BY DEF Descend
<1>3. /\ Len(vec') = n + 1 /\ Len(next') = n + 1 /\ vec' \in S
      /\ \A d \in 1..n : vec'[d] = vec[d]
      /\ \A d \in 1..n-1 : next'[d] = next[d]
      /\ next'[n] = Last(next) + 1 /\ next'[n+1] = 1
  BY CallEffect
<1>4. ASSUME NEW d \in 1..n PROVE Q[d] = P[d]
  <2>1. d \in 1..n+1 /\ d # n + 1
    BY <1>1
  <2>2. First(vec', d) = First(vec, d)
    <3>1. \A a \in 1..d : vec'[a] = vec[a]
      BY <1>3
    <3> QED
      BY <3>1, FirstAgrees
  <2>3. Tried(next', d) = next'[d] - 2
    BY <1>3, <2>1 DEF Tried
  <2>4. next'[d] - 2 = Tried(next, d)
    <3>1. CASE d = n
      BY <1>1, <1>3, <3>1 DEF Tried
    <3>2. CASE d # n
      <4>1. d \in 1..n-1
        BY <1>1, <3>2
      <4> QED
        BY <1>1, <1>3, <3>2, <4>1 DEF Tried
    <3> QED
      BY <3>1, <3>2
  <2> QED
    BY <1>1, <1>3, <2>1, <2>2, <2>3, <2>4 DEF Parts, Part
<1>5. Q[n+1] = << >>
  <2>1. Tried(next', n + 1) = 0
    BY <1>3 DEF Tried
  <2>2. Found(g, f, First(vec', n + 1), 0) = << >>
    BY FlattenNone DEF Found
  <2> QED
    BY <1>1, <1>3, <2>1, <2>2 DEF Parts, Part
<1>6. Q = First(Q, n + 1) /\ P = First(P, n)
  BY <1>1, <1>3 DEF Parts, First
<1>7. \A d \in 1..n : P[d] \in Seq(S)
  BY PartsType
<1>8. Parts(f, vec, next)' = Q
  BY <1>2 DEF Parts, Part
<1> HIDE DEF P, Q, S, n
<1>9. ASSUME NEW d \in 1..n+1 PROVE Q[d] \in Seq(S)
  <2>1. CASE d = n + 1
    BY <1>5, <2>1, EmptySeq
  <2>2. CASE d # n + 1
    <3>1. d \in 1..n
      BY <1>1, <2>2
    <3> QED
      BY <1>4, <1>7, <3>1
  <2> QED
    BY <2>1, <2>2
<1>10. /\ FlattenSeq(First(Q, n + 1)) = FlattenSeq(First(Q, n)) \o Q[n+1]
       /\ FlattenSeq(First(Q, n)) \in Seq(S)
  BY <1>1, <1>9, FlattenGrows
<1>11. First(Q, n) = First(P, n)
  BY <1>4, FirstAgrees
<1>12. FlattenSeq(Q) = FlattenSeq(P)
  BY <1>5, <1>6, <1>10, <1>11, ConcatEmptySeq
<1> QED
  BY <1>2, <1>8, <1>12 DEF SavedInv, P

LEMMA SavedKept ==
    ASSUME Inv, CallsInv, NEW f, IsInitSearch(g, f), SavedInv(f), [Next]_vars
    PROVE  SavedInv(f)'
<1>1. CASE FindLoop
  <2>1. Len(vec) > 1
    <3>1. ASSUME Len(vec) = 1 PROVE FALSE
      <4>1. LastNode = g.CFGNodeVec[1]
        BY <3>1, CallFacts DEF LastNode, Inv, CallsMatchVec, LeadsToFirstLoop
      <4> QED
        BY <1>1, <4>1, GraphFacts DEF FindLoop, Inv
    <3> QED
      BY <3>1, CallFacts
  <2> QED
    BY <1>1, <2>1, SavedReturn DEF FindLoop
<1>2. CASE BackUp
  BY <1>2, SavedReturn DEF BackUp, Exhausted
<1>3. CASE Descend
  BY <1>3, SavedCall
<1>4. CASE Finish
  BY <1>4 DEF Finish, SavedInv, Parts, Part
<1>5. CASE UNCHANGED vars
  BY <1>5 DEF vars, SavedInv, Parts, Part
<1> QED
  BY <1>1, <1>2, <1>3, <1>4, <1>5 DEF Next, Terminated

LEMMA SavedStart ==
    ASSUME Init, NEW f, IsInitSearch(g, f)
    PROVE  SavedInv(f)
<1>1. g \in Graphs /\ vec = <<1>> /\ next = <<1>> /\ initNodes = << >> /\ Inv /\ CallsInv
  BY InitInv, CallsStart DEF Init
<1>2. Len(vec) = 1 /\ Last(next) = 1
  BY <1>1 DEF Last
<1>3. Found(g, f, vec, Last(next) - 1) = << >>
  BY <1>2, FlattenNone DEF Found
<1>4. FlattenSeq(First(Parts(f, vec, next), Len(vec)-1)) = << >>
  BY <1>2, FlattenNone
<1>5. FlattenSeq(Parts(f, vec, next)) = << >> \o << >>
  BY <1>1, <1>3, <1>4, LastPart
<1> QED
  BY <1>1, <1>5, ConcatEmptySeq DEF SavedInv

(****************************************************************************)
(* The inductive invariant for what the search has saved.                   *)
(****************************************************************************)
SearchInv ==
    /\ Inv
    /\ CallsInv
    /\ \A f : IsInitSearch(g, f) => SavedInv(f)

LEMMA SearchInvHolds == Spec => []SearchInv
<1>1. Init => SearchInv
  BY InitInv, CallsStart, SavedStart DEF SearchInv
<1>2. SearchInv /\ [Next]_vars => SearchInv'
  <2> SUFFICES ASSUME SearchInv, [Next]_vars PROVE SearchInv'
    OBVIOUS
  <2>1. g' = g
    BY DEF Next, FindLoop, Descend, BackUp, Finish, Terminated, vars
  <2>2. ASSUME NEW f, IsInitSearch(g, f)' PROVE SavedInv(f)'
    <3>1. IsInitSearch(g, f)
      BY <2>1, <2>2 DEF IsInitSearch
    <3> QED
      BY <3>1, SavedKept DEF SearchInv
  <2>3. Inv' /\ CallsInv'
    BY NextInv, CallsKept DEF SearchInv
  <2> QED
    BY <2>2, <2>3 DEF SearchInv
<1> QED
  BY <1>1, <1>2, PTL DEF Spec

(****************************************************************************)
(* When the outermost call has returned, what has been saved is what the    *)
(* search function says of the walk that is only the entry.                 *)
(****************************************************************************)
LEMMA DoneFound ==
    ASSUME SearchInv, pc = "done", NEW f, IsInitSearch(g, f)
    PROVE  initNodes = f[<<1>>]
<1>1. Inv /\ CallsInv /\ initNodes = FlattenSeq(Parts(f, vec, next))
  BY DEF SearchInv, SavedInv
<1>2. Len(vec) = 1 /\ ~LastNode.isLoopNode /\ Last(next) > Len(LastNode.childs)
  BY <1>1 DEF CallsInv
<1>3. vec = <<1>>
  <2>1. vec \in Seq(DOMAIN g.CFGNodeVec) /\ vec[1] = 1
    BY <1>1 DEF Inv, TypeOK, CallsMatchVec, LeadsToFirstLoop
  <2> QED
    BY <1>2, <2>1
<1>4. Found(g, f, vec, Last(next) - 1) = f[vec]
  BY <1>1, <1>2, ExhaustedFound
<1>5. FlattenSeq(First(Parts(f, vec, next), Len(vec)-1)) = << >>
  BY <1>2, FlattenNone
<1>6. initNodes = << >> \o f[vec] /\ f[vec] \in Seq(Walks(g))
  BY <1>1, <1>4, <1>5, LastPart
<1> QED
  BY <1>3, <1>6, ConcatEmptySeq

------------------------------------------------------------------------------
(****************************************************************************)
(* The function that Along recurses on: the nodes on a route.               *)
(****************************************************************************)
NodeAt(r, at, i) == IF i = 1 THEN 1 ELSE g.CFGNodeVec[at[i-1]].childs[r[i-1]]

IsAlong(r, at) == at = [i \in 1..Len(r)+1 |-> NodeAt(r, at, i)]

LEMMA AlongExists ==
    ASSUME NEW r \in Seq(Nat)
    PROVE  \E at : IsAlong(r, at)
<1> DEFINE N == Len(r) + 1
           Upto(m, at) == \A i \in 1..m : at[i] = NodeAt(r, at, i)
           S == {m \in Nat : \E at : Upto(m, at)}
<1>1. N \in Nat
  BY LenProperties
<1>2. 0 \in S
  <2>1. Upto(0, << >>)
    OBVIOUS
  <2> QED
    BY <2>1
<1>3. ASSUME NEW m \in Nat, m \in S PROVE m + 1 \in S
  <2>1. PICK at : Upto(m, at)
    BY <1>3
  <2> DEFINE k == [i \in 1..m+1 |-> IF i <= m THEN at[i] ELSE NodeAt(r, at, m + 1)]
  <2>2. \A i \in 1..m : k[i] = at[i]
    OBVIOUS
  <2>3. k[m+1] = NodeAt(r, at, m + 1)
    <3>1. m + 1 \in 1..m+1 /\ ~ (m + 1 <= m)
      OBVIOUS
    <3> QED
      BY <3>1
  <2> HIDE DEF k
  <2>4. ASSUME NEW i \in 1..m+1 PROVE k[i] = NodeAt(r, k, i)
    <3>1. NodeAt(r, k, i) = NodeAt(r, at, i)
      <4>1. i # 1 => i - 1 \in 1..m
        OBVIOUS
      <4> QED
        BY <2>2, <4>1 DEF NodeAt
    <3>2. CASE i = m + 1
      BY <2>3, <3>1, <3>2
    <3>3. CASE i # m + 1
      <4>1. i \in 1..m
        BY <3>3
      <4> QED
        BY <2>1, <2>2, <3>1, <4>1
    <3> QED
      BY <3>2, <3>3
  <2>5. Upto(m + 1, k)
    BY <2>4
  <2> QED
    BY <2>5
<1> HIDE DEF S
<1>4. Nat \subseteq S
  BY <1>2, <1>3, Inductive
<1>5. PICK at : Upto(N, at)
  BY <1>1, <1>4 DEF S
<1> DEFINE k == [i \in 1..N |-> at[i]]
<1>6. \A i \in 1..N : k[i] = at[i]
  OBVIOUS
<1>7. k = [i \in 1..N |-> k[i]]
  OBVIOUS
<1> HIDE DEF k
<1>8. ASSUME NEW i \in 1..N PROVE k[i] = NodeAt(r, k, i)
  <2>1. i # 1 => i - 1 \in 1..N
    BY <1>1
  <2>2. NodeAt(r, k, i) = NodeAt(r, at, i)
    BY <1>6, <2>1 DEF NodeAt
  <2> QED
    BY <1>5, <1>6, <2>2
<1>9. IsAlong(r, k)
  BY <1>7, <1>8 DEF IsAlong
<1> QED
  BY <1>9

LEMMA AlongNodes ==
    ASSUME NEW r \in Seq(Nat)
    PROVE  /\ Along(r) = [i \in 1..Len(r)+1 |-> Along(r)[i]]
           /\ Along(r)[1] = 1
           /\ \A i \in 1..Len(r) :
                 Along(r)[i+1] = g.CFGNodeVec[Along(r)[i]].childs[r[i]]
<1> DEFINE at == CHOOSE at : IsAlong(r, at)
<1>1. Along(r) = at
  BY DEF Along, IsAlong, NodeAt
<1>2. IsAlong(r, at)
  BY AlongExists
<1> HIDE DEF at
<1>3. Len(r) \in Nat
  BY LenProperties
<1>4. \A i \in 1..Len(r)+1 : at[i] = NodeAt(r, at, i)
  BY <1>2 DEF IsAlong
<1>5. at = [i \in 1..Len(r)+1 |-> at[i]]
  BY <1>2, <1>4 DEF IsAlong
<1>6. at[1] = 1
  <2>1. 1 \in 1..Len(r)+1
    BY <1>3
  <2> QED
    BY <1>4, <2>1 DEF NodeAt
<1>7. ASSUME NEW i \in 1..Len(r) PROVE at[i+1] = g.CFGNodeVec[at[i]].childs[r[i]]
  <2>1. i + 1 \in 1..Len(r)+1 /\ i + 1 # 1 /\ (i + 1) - 1 = i
    BY <1>3
  <2> QED
    BY <1>4, <2>1 DEF NodeAt
<1> QED
  BY <1>1, <1>5, <1>6, <1>7

(****************************************************************************)
(* Routes that begin alike visit the same nodes.                            *)
(****************************************************************************)
LEMMA AlongPrefix ==
    ASSUME NEW r \in Seq(Nat), NEW q \in Seq(Nat), Len(r) <= Len(q),
           \A i \in 1..Len(r) : q[i] = r[i]
    PROVE  \A i \in 1..Len(r)+1 : Along(q)[i] = Along(r)[i]
<1> DEFINE S == {m \in Nat : m + 1 \in 1..Len(r)+1 => Along(q)[m+1] = Along(r)[m+1]}
<1>1. Len(r) \in Nat /\ Len(q) \in Nat
  BY LenProperties
<1>2. 0 \in S
  BY AlongNodes
<1>3. ASSUME NEW m \in Nat, m \in S PROVE m + 1 \in S
  <2> SUFFICES ASSUME (m + 1) + 1 \in 1..Len(r)+1
               PROVE  Along(q)[(m+1)+1] = Along(r)[(m+1)+1]
    OBVIOUS
  <2>1. m + 1 \in 1..Len(r) /\ m + 1 \in 1..Len(q) /\ m + 1 \in 1..Len(r)+1
    BY <1>1
  <2>2. Along(q)[m+1] = Along(r)[m+1]
    BY <1>3, <2>1
  <2>3. /\ Along(q)[(m+1)+1] = g.CFGNodeVec[Along(q)[m+1]].childs[q[m+1]]
        /\ Along(r)[(m+1)+1] = g.CFGNodeVec[Along(r)[m+1]].childs[r[m+1]]
    BY <2>1, AlongNodes
  <2> QED
    BY <2>1, <2>2, <2>3
<1> HIDE DEF S
<1>4. Nat \subseteq S
  BY <1>2, <1>3, Inductive
<1> SUFFICES ASSUME NEW i \in 1..Len(r)+1 PROVE Along(q)[i] = Along(r)[i]
  OBVIOUS
<1>5. i - 1 \in Nat /\ (i - 1) + 1 = i
  BY <1>1
<1> QED
  BY <1>4, <1>5 DEF S

LEMMA AlongNone == Along(<< >>) = <<1>>
<1> DEFINE r == << >>
<1>1. r \in Seq(Nat) /\ Len(r) = 0
  BY EmptySeq
<1> HIDE DEF r
<1>2. Along(r) = [i \in 1..Len(r)+1 |-> Along(r)[i]] /\ Along(r)[1] = 1
  BY <1>1, AlongNodes
<1>3. Along(r) = [i \in 1..1 |-> Along(r)[i]]
  BY <1>1, <1>2
<1>4. Along(r) = <<1>>
  <2>1. \A i \in 1..1 : Along(r)[i] = 1
    BY <1>2
  <2>2. Along(r) = [i \in 1..1 |-> 1]
    BY <1>3, <2>1
  <2>3. [i \in 1..1 |-> 1] = <<1>>
    OBVIOUS
  <2> QED
    BY <2>2, <2>3
<1> QED
  BY <1>4 DEF r

------------------------------------------------------------------------------
(****************************************************************************)
(* A route from the entry: its nodes are a walk outside the loops up to the *)
(* last, and the heights fall along it.                                     *)
(****************************************************************************)
EndOf(r) == g.CFGNodeVec[Last(Along(r))]

HeightAt(w, i) == Height(g)[Element(g, w[i])]

IsRoute(r) ==
    /\ r \in Seq(Nat)
    /\ Along(r) \in Walks(g)
    /\ \A i \in 1..Len(r) :
          /\ ~g.CFGNodeVec[Along(r)[i]].isLoopNode
          /\ r[i] \in DOMAIN g.CFGNodeVec[Along(r)[i]].childs
    /\ \A a, b \in 1..Len(r)+1 : a < b => HeightAt(Along(r), b) < HeightAt(Along(r), a)

LEMMA RouteFacts ==
    ASSUME g \in Graphs, NEW r, IsRoute(r)
    PROVE  /\ r \in Seq(Nat) /\ Len(r) \in Nat /\ Along(r) \in Walks(g)
           /\ Len(Along(r)) = Len(r) + 1 /\ Last(Along(r)) = Along(r)[Len(r) + 1]
           /\ \A i \in 1..Len(r)+1 :
                 Along(r)[i] \in DOMAIN g.CFGNodeVec /\ HeightAt(Along(r), i) \in Nat
           /\ WalkChilds(g, Along(r)) = EndOf(r).childs
           /\ WalkHeight(g, Along(r)) = HeightAt(Along(r), Len(r) + 1)
           /\ DOMAIN EndOf(r).childs = 1..Len(EndOf(r).childs)
           /\ EndOf(r).childs \in Seq(Nat)
<1> DEFINE w == Along(r)
<1>1. r \in Seq(Nat) /\ Len(r) \in Nat /\ w \in Walks(g)
  BY LenProperties DEF IsRoute
<1>2. w \in Seq(DOMAIN g.CFGNodeVec) /\ w # << >>
  BY <1>1 DEF Walks
<1>3. w = [i \in 1..Len(r)+1 |-> w[i]]
  BY <1>1, AlongNodes
<1> HIDE DEF w
<1>4. DOMAIN w = 1..Len(r)+1 /\ DOMAIN w = 1..Len(w) /\ Len(w) \in Nat
  BY <1>2, <1>3, LenProperties
<1>5. Len(w) = Len(r) + 1
  <2> DEFINE a == Len(w)
             b == Len(r) + 1
  <2>1. 1..a = 1..b /\ a \in Nat /\ b \in Nat \ {0}
    BY <1>1, <1>4
  <2> HIDE DEF a, b
  <2>2. a = b
    BY <2>1
  <2> QED
    BY <2>2 DEF a, b
<1>6. Last(w) = w[Len(r) + 1] /\ Last(w) \in DOMAIN g.CFGNodeVec
  BY <1>1, <1>5, WalkEnds
<1>7. \A i \in 1..Len(r)+1 : w[i] \in DOMAIN g.CFGNodeVec
  <2> DEFINE Nodes == DOMAIN g.CFGNodeVec
  <2> HIDE DEF Nodes
  <2>1. w \in Seq(Nodes)
    BY <1>2 DEF Nodes
  <2>2. \A i \in 1..Len(r)+1 : w[i] \in Nodes
    BY <1>5, <2>1, ElementOfSeq
  <2> QED
    BY <2>2 DEF Nodes
<1>8. \A i \in 1..Len(r)+1 : HeightAt(w, i) \in Nat
  BY <1>7, ElementFacts, HeightFalls DEF HeightAt
<1>9. WalkChilds(g, w) = EndOf(r).childs
  BY DEF WalkChilds, EndOf, w
<1>10. WalkHeight(g, w) = HeightAt(w, Len(r) + 1)
  BY <1>6 DEF WalkHeight, HeightAt
<1>11. EndOf(r).childs \in Seq(Nat)
  BY <1>6, CFGFacts DEF EndOf, w
<1> QED
  BY <1>1, <1>5, <1>6, <1>7, <1>8, <1>9, <1>10, <1>11, LenProperties DEF w

(****************************************************************************)
(* A child makes a longer route of one that ends outside the loops.         *)
(****************************************************************************)
LEMMA RouteGrows ==
    ASSUME g \in Graphs, NEW r, IsRoute(r), ~EndOf(r).isLoopNode,
           NEW j \in DOMAIN EndOf(r).childs
    PROVE  LET q == Append(r, j)
           IN  /\ IsRoute(q) /\ Len(q) = Len(r) + 1 /\ q[Len(r) + 1] = j
               /\ \A i \in 1..Len(r) : q[i] = r[i]
               /\ Along(q) = Append(Along(r), EndOf(r).childs[j])
               /\ WalkHeight(g, Along(q)) < WalkHeight(g, Along(r))
<1> DEFINE q == Append(r, j)
           n == Len(r)
           w == Along(r)
           c == EndOf(r).childs[j]
           v == Append(w, c)
           u == Along(q)
<1>1. /\ r \in Seq(Nat) /\ n \in Nat /\ w \in Walks(g) /\ Len(w) = n + 1
      /\ Last(w) = w[n+1] /\ EndOf(r) = g.CFGNodeVec[w[n+1]]
      /\ \A i \in 1..n+1 : HeightAt(w, i) \in Nat
      /\ WalkChilds(g, w) = EndOf(r).childs
      /\ WalkHeight(g, w) = HeightAt(w, n + 1)
      /\ DOMAIN EndOf(r).childs = 1..Len(EndOf(r).childs)
  BY RouteFacts DEF EndOf
<1>2. j \in Nat
  BY <1>1
<1>3. /\ q \in Seq(Nat) /\ Len(q) = n + 1 /\ q[n+1] = j /\ \A i \in 1..n : q[i] = r[i]
  BY <1>1, <1>2, AppendProperties
<1>4. /\ v \in Walks(g) /\ Len(v) = n + 2 /\ Last(v) = c
      /\ \A i \in 1..n+1 : v[i] = w[i]
      /\ v[n+2] = c
      /\ WalkHeight(g, v) < WalkHeight(g, w)
  <2>1. ~g.CFGNodeVec[Last(w)].isLoopNode /\ j \in DOMAIN WalkChilds(g, w) /\ c = WalkChilds(g, w)[j]
    BY <1>1
  <2>2. /\ v \in Walks(g) /\ Len(v) = Len(w) + 1 /\ Last(v) = c
        /\ \A i \in 1..Len(w) : v[i] = w[i]
        /\ v[Len(w) + 1] = c
        /\ WalkHeight(g, v) < WalkHeight(g, w)
    BY <1>1, <2>1, ChildWalk
  <2>3. Len(w) + 1 = n + 2
    BY <1>1
  <2> QED
    BY <1>1, <2>2, <2>3
<1>5. /\ u = [i \in 1..n+2 |-> u[i]]
      /\ \A i \in 1..n+1 : u[i] = w[i]
      /\ u[n+2] = c
  <2>1. Len(q) + 1 = n + 2
    BY <1>1, <1>3
  <2>2. u = [i \in 1..n+2 |-> u[i]]
    BY <1>3, <2>1, AlongNodes
  <2>3. \A i \in 1..n+1 : u[i] = w[i]
    <3>1. Len(r) <= Len(q)
      BY <1>1, <1>3
    <3> QED
      BY <1>1, <1>3, <3>1, AlongPrefix
  <2>4. u[(n+1)+1] = g.CFGNodeVec[u[n+1]].childs[q[n+1]]
    <3>1. n + 1 \in 1..Len(q)
      BY <1>1, <1>3
    <3> QED
      BY <1>3, <3>1, AlongNodes
  <2>5. (n+1)+1 = n+2 /\ n+1 \in 1..n+1
    BY <1>1
  <2> QED
    BY <1>1, <1>3, <2>2, <2>3, <2>4, <2>5
<1>6. v = [i \in 1..n+2 |-> v[i]]
  <2>1. v \in Seq(DOMAIN g.CFGNodeVec)
    BY <1>4 DEF Walks
  <2>2. DOMAIN v = 1..n+2
    BY <1>4, <2>1, LenProperties
  <2>3. v = [i \in DOMAIN v |-> v[i]]
    BY <2>1
  <2> QED
    BY <2>2, <2>3
<1> HIDE DEF q, u, v, w, c, n
<1>7. u = v
  <2>1. \A i \in 1..n+2 : u[i] = v[i]
    <3>1. \A i \in 1..n+2 : i = n + 2 \/ i \in 1..n+1
      BY <1>1
    <3> QED
      BY <1>4, <1>5, <3>1
  <2> QED
    BY <1>5, <1>6, <2>1
<1>8. ASSUME NEW i \in 1..Len(q)
      PROVE  ~g.CFGNodeVec[u[i]].isLoopNode /\ q[i] \in DOMAIN g.CFGNodeVec[u[i]].childs
  <2>1. u[i] = w[i]
    BY <1>1, <1>3, <1>5
  <2>2. CASE i = n + 1
    BY <1>1, <1>3, <2>1, <2>2
  <2>3. CASE i # n + 1
    <3>1. i \in 1..n /\ q[i] = r[i]
      BY <1>1, <1>3, <2>3, SMTT(30)
    <3> QED
      BY <2>1, <3>1 DEF IsRoute, w, n
  <2> QED
    BY <2>2, <2>3
<1>9. HeightAt(u, n + 2) \in Nat /\ HeightAt(u, n + 2) < HeightAt(w, n + 1)
      /\ WalkHeight(g, u) < WalkHeight(g, w)
  <2>1. WalkHeight(g, v) = HeightAt(u, n + 2)
    BY <1>4, <1>5 DEF WalkHeight, HeightAt
  <2>2. WalkHeight(g, v) \in Nat
    BY <1>4, WalkEnds
  <2> QED
    BY <1>1, <1>4, <1>7, <2>1, <2>2
<1>10. ASSUME NEW a \in 1..Len(q)+1, NEW b \in 1..Len(q)+1, a < b
       PROVE  HeightAt(u, b) < HeightAt(u, a)
  <2>1. a \in 1..n+1 /\ HeightAt(u, a) = HeightAt(w, a)
    <3>1. a \in 1..n+1
      BY <1>1, <1>3, <1>10
    <3> QED
      BY <1>5, <3>1 DEF HeightAt
  <2>2. CASE b \in 1..n+1
    <3>1. HeightAt(u, b) = HeightAt(w, b)
      BY <1>5, <2>2 DEF HeightAt
    <3>2. HeightAt(w, b) < HeightAt(w, a)
      BY <1>10, <2>1, <2>2 DEF IsRoute, w, n
    <3> QED
      BY <2>1, <3>1, <3>2
  <2>3. CASE b \notin 1..n+1
    <3>1. b = n + 2
      BY <1>1, <1>3, <2>3
    <3>2. CASE a = n + 1
      BY <1>9, <2>1, <3>1, <3>2
    <3>3. CASE a # n + 1
      <4>1. a < n + 1 /\ n + 1 \in 1..n+1
        BY <1>1, <2>1, <3>3
      <4>2. HeightAt(w, n + 1) < HeightAt(w, a)
        BY <2>1, <4>1 DEF IsRoute, w, n
      <4>3. HeightAt(w, n + 1) \in Nat /\ HeightAt(w, a) \in Nat
        BY <1>1, <2>1, <4>1
      <4> QED
        BY <1>9, <2>1, <3>1, <4>2, <4>3
    <3> QED
      BY <3>2, <3>3
  <2> QED
    BY <2>2, <2>3
<1>11. IsRoute(q)
  BY <1>3, <1>4, <1>7, <1>8, <1>10 DEF IsRoute, u
<1> QED
  BY <1>3, <1>7, <1>9, <1>11 DEF q, u, v, w, c, n

(****************************************************************************)
(* A route has fewer steps than there are nodes, since it meets none twice. *)
(****************************************************************************)
LEMMA RoutesAreShort ==
    ASSUME g \in Graphs, NEW r, IsRoute(r)
    PROVE  Len(r) + 1 <= Len(g.CFGNodeVec)
<1> DEFINE L == Len(g.CFGNodeVec)
           M == Len(r) + 1
           w == Along(r)
<1>1. L \in Nat /\ M \in Nat /\ DOMAIN g.CFGNodeVec = 1..L
  BY CFGFacts, RouteFacts
<1>2. \A a \in 1..M : w[a] \in 1..L /\ HeightAt(w, a) \in Nat
  BY <1>1, RouteFacts
<1>3. w = [a \in 1..M |-> w[a]]
  BY RouteFacts, AlongNodes
<1>4. \A a, b \in 1..M : a < b => HeightAt(w, b) < HeightAt(w, a)
  BY DEF IsRoute
<1> HIDE DEF w, L, M
<1>5. w \in [1..M -> 1..L]
  BY <1>2, <1>3
<1> SUFFICES ASSUME L < M PROVE FALSE
  BY <1>1 DEF L, M
<1>6. IsFiniteSet(1..M) /\ Cardinality(1..M) = M
  BY <1>1, FS_Interval
<1>7. IsFiniteSet(1..L) /\ Cardinality(1..L) = L
  BY <1>1, FS_Interval
<1>8. \E a, b \in 1..M : a # b /\ w[a] = w[b]
  BY <1>5, <1>6, <1>7, FS_PigeonHole
<1>9. PICK a \in 1..M, b \in 1..M : a # b /\ w[a] = w[b]
  BY <1>8
<1>10. HeightAt(w, a) = HeightAt(w, b)
  BY <1>9 DEF HeightAt
<1>11. CASE a < b
  BY <1>2, <1>4, <1>10, <1>11
<1>12. CASE b < a
  BY <1>2, <1>4, <1>10, <1>12
<1> QED
  BY <1>1, <1>9, <1>11, <1>12

------------------------------------------------------------------------------
(****************************************************************************)
(* The function that Routes recurses on: the routes of n steps.             *)
(****************************************************************************)
LongerRoutes(R) ==
    UNION {{Append(r, j) : j \in DOMAIN EndOf(r).childs} :
              r \in {q \in R : ~EndOf(q).isLoopNode}}

OfThisLength(h, n) == IF n = 0 THEN {<< >>} ELSE LongerRoutes(h[n-1])

IsOfLength(h) == h = [n \in 0..Len(g.CFGNodeVec) |-> OfThisLength(h, n)]

RoutesOf(h) == {r \in UNION {h[n] : n \in DOMAIN h} : EndOf(r).isLoopNode}

LEMMA RoutesAreOfLength == Routes = RoutesOf(CHOOSE h : IsOfLength(h))
BY DEF Routes, RoutesOf, IsOfLength, OfThisLength, LongerRoutes, EndOf

LEMMA OfLengthExists ==
    ASSUME g \in Graphs
    PROVE  \E h : IsOfLength(h)
<1> DEFINE L == Len(g.CFGNodeVec)
           Upto(m, h) == \A n \in 0..m : h[n] = OfThisLength(h, n)
           S == {m \in Nat : \E h : Upto(m, h)}
<1>1. L \in Nat
  BY CFGFacts
<1>2. 0 \in S
  <2> DEFINE h == [n \in 0..0 |-> {<< >>}]
  <2>1. h[0] = {<< >>}
    OBVIOUS
  <2> HIDE DEF h
  <2>2. Upto(0, h)
    BY <2>1 DEF OfThisLength
  <2> QED
    BY <2>2
<1>3. ASSUME NEW m \in Nat, m \in S PROVE m + 1 \in S
  <2>1. PICK h : Upto(m, h)
    BY <1>3
  <2> DEFINE k == [n \in 0..m+1 |-> IF n <= m THEN h[n] ELSE LongerRoutes(h[m])]
  <2>2. \A n \in 0..m : k[n] = h[n]
    OBVIOUS
  <2>3. k[m+1] = LongerRoutes(h[m])
    <3>1. m + 1 \in 0..m+1 /\ ~ (m + 1 <= m)
      OBVIOUS
    <3> QED
      BY <3>1
  <2> HIDE DEF k
  <2>4. ASSUME NEW n \in 0..m+1 PROVE k[n] = OfThisLength(k, n)
    <3>1. CASE n = m + 1
      <4>1. n # 0 /\ n - 1 = m /\ m \in 0..m
        BY <3>1
      <4>2. k[m] = h[m]
        BY <2>2, <4>1
      <4> QED
        BY <2>3, <3>1, <4>1, <4>2 DEF OfThisLength
    <3>2. CASE n # m + 1
      <4>1. n \in 0..m /\ (n # 0 => n - 1 \in 0..m)
        BY <3>2
      <4>2. k[n] = h[n] /\ (n # 0 => k[n-1] = h[n-1])
        BY <2>2, <4>1
      <4>3. h[n] = OfThisLength(h, n)
        BY <2>1, <4>1
      <4> QED
        BY <4>2, <4>3 DEF OfThisLength
    <3> QED
      BY <3>1, <3>2
  <2>5. Upto(m + 1, k)
    BY <2>4
  <2> QED
    BY <2>5
<1> HIDE DEF S
<1>4. Nat \subseteq S
  BY <1>2, <1>3, Inductive
<1>5. PICK h : Upto(L, h)
  BY <1>1, <1>4 DEF S
<1> DEFINE k == [n \in 0..L |-> h[n]]
<1>6. \A n \in 0..L : k[n] = h[n]
  OBVIOUS
<1>7. k = [n \in 0..L |-> k[n]]
  OBVIOUS
<1> HIDE DEF k
<1>8. ASSUME NEW n \in 0..L PROVE k[n] = OfThisLength(k, n)
  <2>1. h[n] = OfThisLength(h, n)
    BY <1>5
  <2>2. n # 0 => k[n-1] = h[n-1]
    BY <1>1, <1>6
  <2> QED
    BY <1>6, <2>1, <2>2 DEF OfThisLength
<1>9. IsOfLength(k)
  BY <1>7, <1>8 DEF IsOfLength
<1> QED
  BY <1>9

(****************************************************************************)
(* It holds the routes of each length, and none goes on further than it     *)
(* reaches.                                                                 *)
(****************************************************************************)
LEMMA OfLengthAreRoutes ==
    ASSUME g \in Graphs, NEW h, IsOfLength(h)
    PROVE  /\ 0 \in DOMAIN h /\ h[0] = {<< >>} /\ DOMAIN h \subseteq Nat
           /\ \A n \in DOMAIN h : \A r \in h[n] :
                 /\ IsRoute(r) /\ Len(r) = n
                 /\ ~EndOf(r).isLoopNode =>
                       \A j \in DOMAIN EndOf(r).childs : n + 1 \in DOMAIN h /\ Append(r, j) \in h[n+1]
<1> DEFINE L == Len(g.CFGNodeVec)
           S == {n \in Nat : n \in 0..L => \A r \in h[n] : IsRoute(r) /\ Len(r) = n}
<1>1. L \in Nat
  BY CFGFacts
<1>2. DOMAIN h = 0..L /\ \A n \in 0..L : h[n] = OfThisLength(h, n)
  BY DEF IsOfLength
<1>3. 0 \in 0..L
  BY <1>1
<1> HIDE DEF L
<1>4. h[0] = {<< >>}
  BY <1>2, <1>3 DEF OfThisLength
<1>5. ASSUME NEW n \in Nat, n + 1 \in 0..L
      PROVE  n \in 0..L /\ h[n+1] = LongerRoutes(h[n])
  <2>1. n \in 0..L /\ n + 1 # 0 /\ (n + 1) - 1 = n
    BY <1>1, <1>5
  <2> QED
    BY <1>2, <1>5, <2>1 DEF OfThisLength
<1>6. IsRoute(<< >>) /\ Len(<< >>) = 0
  <2>1. << >> \in Seq(Nat) /\ Len(<< >>) = 0 /\ Along(<< >>) = <<1>>
    BY AlongNone, EmptySeq
  <2>2. <<1>> \in Walks(g)
    <3> DEFINE Nodes == DOMAIN g.CFGNodeVec
    <3>1. 1 \in Nodes
      BY GraphFacts
    <3> HIDE DEF Nodes
    <3>2. <<1>> \in Seq(Nodes) /\ <<1>> # << >>
      BY <3>1, Singleton
    <3> QED
      BY <3>2 DEF Nodes, Walks
  <2>3. \A i \in 1..Len(<< >>) : FALSE
    BY <2>1
  <2>4. \A a, b \in 1..Len(<< >>)+1 : ~ (a < b)
    BY <2>1
  <2> QED
    BY <2>1, <2>2, <2>3, <2>4 DEF IsRoute
<1>7. 0 \in S
  BY <1>4, <1>6
<1>8. ASSUME NEW n \in Nat, n \in S PROVE n + 1 \in S
  <2> SUFFICES ASSUME n + 1 \in 0..L, NEW q \in h[n+1]
               PROVE  IsRoute(q) /\ Len(q) = n + 1
    OBVIOUS
  <2>1. n \in 0..L /\ h[n+1] = LongerRoutes(h[n])
    BY <1>5
  <2>2. PICK r \in h[n] : ~EndOf(r).isLoopNode /\ \E j \in DOMAIN EndOf(r).childs : q = Append(r, j)
    BY <2>1 DEF LongerRoutes
  <2>3. PICK j \in DOMAIN EndOf(r).childs : q = Append(r, j)
    BY <2>2
  <2>4. IsRoute(r) /\ Len(r) = n
    BY <1>8, <2>1
  <2> QED
    BY <2>2, <2>3, <2>4, RouteGrows
<1> HIDE DEF S
<1>9. Nat \subseteq S
  BY <1>7, <1>8, Inductive
<1>10. ASSUME NEW n \in 0..L, NEW r \in h[n] PROVE IsRoute(r) /\ Len(r) = n
  <2>1. n \in Nat
    BY <1>1
  <2> QED
    BY <1>9, <2>1 DEF S
<1>11. ASSUME NEW n \in 0..L, NEW r \in h[n], ~EndOf(r).isLoopNode,
              NEW j \in DOMAIN EndOf(r).childs
       PROVE  n + 1 \in 0..L /\ Append(r, j) \in h[n+1]
  <2>1. IsRoute(r) /\ Len(r) = n
    BY <1>10
  <2>2. IsRoute(Append(r, j)) /\ Len(Append(r, j)) = n + 1
    BY <1>11, <2>1, RouteGrows
  <2>3. (n + 1) + 1 <= L
    BY <2>2, RoutesAreShort DEF L
  <2>4. n \in Nat /\ n + 1 \in 0..L
    BY <1>1, <2>3
  <2>5. h[n+1] = LongerRoutes(h[n])
    BY <1>5, <2>4
  <2> QED
    BY <1>11, <2>4, <2>5 DEF LongerRoutes
<1> QED
  BY <1>1, <1>2, <1>3, <1>4, <1>10, <1>11

------------------------------------------------------------------------------
(****************************************************************************)
(* The routes to a loop that begin with r: r itself if it ends in one, else *)
(* those that begin with r and a child, which differ from child to child.   *)
(****************************************************************************)
Through(h, r) ==
    {q \in RoutesOf(h) : Len(r) <= Len(q) /\ \A i \in 1..Len(r) : q[i] = r[i]}

LEMMA RoutesOfFacts ==
    ASSUME g \in Graphs, NEW h, IsOfLength(h), NEW q
    PROVE  q \in RoutesOf(h) <=>
              /\ IsRoute(q) /\ EndOf(q).isLoopNode
              /\ \E n \in DOMAIN h : q \in h[n]
BY OfLengthAreRoutes DEF RoutesOf

LEMMA ThroughLoop ==
    ASSUME g \in Graphs, NEW h, IsOfLength(h), NEW n \in DOMAIN h, NEW r \in h[n],
           EndOf(r).isLoopNode
    PROVE  Through(h, r) = {r}
<1>1. IsRoute(r) /\ r \in RoutesOf(h) /\ r \in Seq(Nat) /\ Len(r) \in Nat
  BY OfLengthAreRoutes, RoutesOfFacts, RouteFacts
<1>2. r \in Through(h, r)
  BY <1>1 DEF Through
<1>3. ASSUME NEW q \in Through(h, r) PROVE q = r
  <2>1. /\ q \in RoutesOf(h) /\ Len(r) <= Len(q) /\ \A i \in 1..Len(r) : q[i] = r[i]
    BY DEF Through
  <2>2. IsRoute(q) /\ q \in Seq(Nat) /\ Len(q) \in Nat
    BY <2>1, RoutesOfFacts, RouteFacts
  <2>3. Along(q)[Len(r) + 1] = Along(r)[Len(r) + 1]
    <3>1. Len(r) + 1 \in 1..Len(r)+1
      BY <1>1
    <3> QED
      BY <1>1, <2>1, <2>2, <3>1, AlongPrefix
  <2>4. g.CFGNodeVec[Along(q)[Len(r) + 1]].isLoopNode
    BY <1>1, <2>3, RouteFacts DEF EndOf
  <2>5. ~ (Len(r) < Len(q))
    <3>1. ASSUME Len(r) < Len(q) PROVE FALSE
      <4>1. Len(r) + 1 \in 1..Len(q)
        BY <1>1, <2>2, <3>1
      <4> QED
        BY <2>2, <2>4, <4>1 DEF IsRoute
    <3> QED
      BY <3>1
  <2>6. Len(q) = Len(r)
    BY <1>1, <2>1, <2>2, <2>5
  <2> QED
    BY <1>1, <2>1, <2>2, <2>6, SeqEqual
<1> QED
  BY <1>2, <1>3

LEMMA ThroughNode ==
    ASSUME g \in Graphs, NEW h, IsOfLength(h), NEW n \in DOMAIN h, NEW r \in h[n],
           ~EndOf(r).isLoopNode
    PROVE  /\ Through(h, r) = UNION {Through(h, Append(r, j)) : j \in DOMAIN EndOf(r).childs}
           /\ \A i, j \in DOMAIN EndOf(r).childs :
                 i # j => Through(h, Append(r, i)) \cap Through(h, Append(r, j)) = {}
<1>1. IsRoute(r) /\ r \in Seq(Nat) /\ Len(r) \in Nat
  BY OfLengthAreRoutes, RouteFacts
<1>2. ASSUME NEW j \in DOMAIN EndOf(r).childs
      PROVE  /\ Len(Append(r, j)) = Len(r) + 1 /\ Append(r, j)[Len(r) + 1] = j
             /\ \A i \in 1..Len(r) : Append(r, j)[i] = r[i]
  BY <1>1, RouteGrows
<1>3. ASSUME NEW j \in DOMAIN EndOf(r).childs, NEW q \in Through(h, Append(r, j))
      PROVE  q \in Through(h, r) /\ q[Len(r) + 1] = j
  <2>1. /\ q \in RoutesOf(h) /\ Len(r) + 1 <= Len(q)
        /\ \A i \in 1..Len(r)+1 : q[i] = Append(r, j)[i]
    BY <1>2 DEF Through
  <2>2. Len(q) \in Nat
    BY <2>1, RoutesOfFacts, RouteFacts
  <2>3. Len(r) <= Len(q)
    BY <1>1, <2>1, <2>2
  <2>4. \A i \in 1..Len(r) : q[i] = r[i]
    <3>1. \A i \in 1..Len(r) : i \in 1..Len(r)+1
      BY <1>1
    <3> QED
      BY <1>2, <2>1, <3>1
  <2>5. Len(r) + 1 \in 1..Len(r)+1
    BY <1>1
  <2> QED
    BY <1>2, <2>1, <2>3, <2>4, <2>5 DEF Through
<1>4. ASSUME NEW q \in Through(h, r)
      PROVE  \E j \in DOMAIN EndOf(r).childs : q \in Through(h, Append(r, j))
  <2>1. /\ q \in RoutesOf(h) /\ Len(r) <= Len(q) /\ \A i \in 1..Len(r) : q[i] = r[i]
    BY DEF Through
  <2>2. IsRoute(q) /\ q \in Seq(Nat) /\ Len(q) \in Nat /\ EndOf(q).isLoopNode
    BY <2>1, RoutesOfFacts, RouteFacts
  <2>3. Len(r) # Len(q)
    <3>1. ASSUME Len(r) = Len(q) PROVE FALSE
      <4>1. q = r
        BY <1>1, <2>1, <2>2, <3>1, SeqEqual
      <4> QED
        BY <2>2, <4>1
    <3> QED
      BY <3>1
  <2>4. Len(r) + 1 \in 1..Len(q) /\ Len(r) + 1 \in 1..Len(r)+1 /\ Len(r) + 1 <= Len(q)
    BY <1>1, <2>1, <2>2, <2>3
  <2>5. Along(q)[Len(r) + 1] = Along(r)[Len(r) + 1]
    BY <1>1, <2>1, <2>2, <2>4, AlongPrefix
  <2>6. EndOf(r) = g.CFGNodeVec[Along(q)[Len(r) + 1]]
    BY <1>1, <2>5, RouteFacts DEF EndOf
  <2> DEFINE j == q[Len(r) + 1]
  <2>7. j \in DOMAIN EndOf(r).childs
    BY <2>2, <2>4, <2>6 DEF IsRoute
  <2>8. \A i \in 1..Len(r)+1 : q[i] = Append(r, j)[i]
    <3>1. \A i \in 1..Len(r)+1 : i = Len(r) + 1 \/ i \in 1..Len(r)
      BY <1>1
    <3> QED
      BY <1>2, <2>1, <2>7, <3>1
  <2>9. q \in Through(h, Append(r, j))
    BY <1>2, <2>1, <2>4, <2>7, <2>8 DEF Through
  <2> QED
    BY <2>7, <2>9
<1>5. Through(h, r) = UNION {Through(h, Append(r, j)) : j \in DOMAIN EndOf(r).childs}
  BY <1>3, <1>4
<1>6. \A i, j \in DOMAIN EndOf(r).childs :
         i # j => Through(h, Append(r, i)) \cap Through(h, Append(r, j)) = {}
  BY <1>3
<1> QED
  BY <1>5, <1>6

(****************************************************************************)
(* A flattened sequence is as long as disjoint sets of the sizes of its     *)
(* parts are together.                                                      *)
(****************************************************************************)
LEMMA FlattenCounts ==
    ASSUME NEW S, NEW F, NEW n \in Nat, \A a \in 1..n : F[a] \in Seq(S),
           NEW T, \A a \in 1..n : IsFiniteSet(T[a]) /\ Cardinality(T[a]) = Len(F[a]),
           \A a, b \in 1..n : a # b => T[a] \cap T[b] = {}
    PROVE  /\ IsFiniteSet(UNION {T[a] : a \in 1..n})
           /\ Cardinality(UNION {T[a] : a \in 1..n}) = Len(FlattenSeq(First(F, n)))
<1> DEFINE U(m) == UNION {T[a] : a \in 1..m}
           R == {m \in Nat : m <= n =>
                    /\ IsFiniteSet(U(m))
                    /\ Cardinality(U(m)) = Len(FlattenSeq(First(F, m)))}
<1>1. 0 \in R
  <2>1. U(0) = {}
    OBVIOUS
  <2>2. FlattenSeq(First(F, 0)) = << >>
    BY FlattenNone
  <2>3. Len(<< >>) = 0
    OBVIOUS
  <2> HIDE DEF U
  <2> QED
    BY <2>1, <2>2, <2>3, FS_EmptySet
<1>2. ASSUME NEW m \in Nat, m \in R PROVE m + 1 \in R
  <2> SUFFICES ASSUME m + 1 <= n
               PROVE  /\ IsFiniteSet(U(m + 1))
                      /\ Cardinality(U(m + 1)) = Len(FlattenSeq(First(F, m + 1)))
    OBVIOUS
  <2> DEFINE V == U(m)
             X == T[m+1]
             s == FlattenSeq(First(F, m))
             t == F[m+1]
             z == FlattenSeq(First(F, m + 1))
  <2>1. m <= n /\ m + 1 \in 1..n
    OBVIOUS
  <2>2. IsFiniteSet(V) /\ Cardinality(V) = Len(s)
    BY <1>2, <2>1
  <2>3. IsFiniteSet(X) /\ Cardinality(X) = Len(t) /\ t \in Seq(S)
    BY <2>1
  <2>4. V \cap X = {}
    <3>1. \A a \in 1..m : a \in 1..n /\ a # m + 1
      OBVIOUS
    <3> QED
      BY <2>1, <3>1
  <2>5. U(m + 1) = V \cup X
    <3>1. 1..m+1 = 1..m \cup {m + 1}
      OBVIOUS
    <3> QED
      BY <3>1
  <2>6. s \in Seq(S) /\ z = s \o t
    <3>1. \A a \in 1..m+1 : F[a] \in Seq(S)
      OBVIOUS
    <3> QED
      BY <3>1, FlattenGrows
  <2> HIDE DEF U, V, X, s, t, z
  <2>7. Len(z) = Len(s) + Len(t) /\ Len(s) \in Nat /\ Len(t) \in Nat
    BY <2>3, <2>6, ConcatProperties, LenProperties
  <2>8. /\ IsFiniteSet(V \cup X)
        /\ Cardinality(V \cup X) = Cardinality(V) + Cardinality(X) - Cardinality(V \cap X)
    BY <2>2, <2>3, FS_Union
  <2>9. Cardinality(V \cap X) = 0
    BY <2>4, FS_EmptySet
  <2>10. Cardinality(V \cup X) = Len(z)
    BY <2>2, <2>3, <2>7, <2>8, <2>9
  <2> QED
    BY <2>5, <2>8, <2>10 DEF z
<1> HIDE DEF R
<1>3. Nat \subseteq R
  BY <1>1, <1>2, Inductive
<1> HIDE DEF U
<1>4. IsFiniteSet(U(n)) /\ Cardinality(U(n)) = Len(FlattenSeq(First(F, n)))
  <2>1. n \in R
    BY <1>3
  <2> QED
    BY <2>1 DEF R
<1> QED
  BY <1>4 DEF U

(****************************************************************************)
(* What the search saves from a route's walk are the nodes of the routes    *)
(* that begin with it, once for each.                                       *)
(****************************************************************************)
SavesThrough(f, h, r) ==
    /\ IsFiniteSet(Through(h, r))
    /\ Cardinality(Through(h, r)) = Len(f[Along(r)])
    /\ ToSet(f[Along(r)]) = {Along(q) : q \in Through(h, r)}

LEMMA SearchThroughNode ==
    ASSUME g \in Graphs, NEW f, IsInitSearch(g, f), NEW h, IsOfLength(h),
           NEW n \in DOMAIN h, NEW r \in h[n], ~EndOf(r).isLoopNode,
           \A j \in DOMAIN EndOf(r).childs : SavesThrough(f, h, Append(r, j))
    PROVE  SavesThrough(f, h, r)
<1> DEFINE w == Along(r)
           m == Len(EndOf(r).childs)
           F == Pieces(g, f, w)
           T == [j \in 1..m |-> Through(h, Append(r, j))]
           W == Walks(g)
<1>1. IsRoute(r)
  BY OfLengthAreRoutes
<1>2. /\ w \in W /\ WalkChilds(g, w) = EndOf(r).childs /\ DOMAIN EndOf(r).childs = 1..m
      /\ m \in Nat /\ EndOf(r) = g.CFGNodeVec[Last(w)]
  BY <1>1, RouteFacts, LenProperties DEF EndOf
<1>3. \A j \in 1..m : F[j] \in Seq(W)
  BY <1>2, SearchType
<1>4. f[w] = FlattenSeq(First(F, m))
  BY <1>2, SearchIsBody DEF Found
<1>5. ASSUME NEW j \in 1..m PROVE F[j] = f[Along(Append(r, j))]
  <2>1. j \in DOMAIN EndOf(r).childs
    BY <1>2
  <2>2. Along(Append(r, j)) = Append(w, EndOf(r).childs[j])
    BY <1>1, <2>1, RouteGrows
  <2> QED
    BY <1>2, <2>2 DEF Pieces
<1>6. \A j \in 1..m : SavesThrough(f, h, Append(r, j))
  BY <1>2
<1>7. \A j \in 1..m : T[j] = Through(h, Append(r, j))
  OBVIOUS
<1>8. \A i, j \in 1..m : i # j => T[i] \cap T[j] = {}
  BY <1>2, <1>7, ThroughNode
<1>9. Through(h, r) = UNION {T[j] : j \in 1..m}
  <2>1. Through(h, r) = UNION {Through(h, Append(r, j)) : j \in 1..m}
    BY <1>2, ThroughNode
  <2> QED
    BY <1>7, <2>1
<1> HIDE DEF w, m, F, T, W
<1>10. \A j \in 1..m : IsFiniteSet(T[j]) /\ Cardinality(T[j]) = Len(F[j])
  BY <1>5, <1>6, <1>7 DEF SavesThrough
<1>11. /\ IsFiniteSet(UNION {T[j] : j \in 1..m})
       /\ Cardinality(UNION {T[j] : j \in 1..m}) = Len(FlattenSeq(First(F, m)))
  BY <1>2, <1>3, <1>8, <1>10, FlattenCounts
<1>12. \A x : x \in ToSet(f[w]) <=> \E j \in 1..m : x \in ToSet(F[j])
  BY <1>2, <1>3, <1>4, FlattenMembers
<1>13. \A j \in 1..m : ToSet(F[j]) = {Along(q) : q \in T[j]}
  BY <1>5, <1>6, <1>7 DEF SavesThrough
<1>14. ToSet(f[w]) = {Along(q) : q \in Through(h, r)}
  <2>1. \A x : x \in ToSet(f[w]) <=> \E j \in 1..m : \E q \in T[j] : x = Along(q)
    BY <1>12, <1>13
  <2>2. \A q : q \in Through(h, r) <=> \E j \in 1..m : q \in T[j]
    BY <1>9
  <2> QED
    BY <2>1, <2>2
<1> QED
  BY <1>4, <1>9, <1>11, <1>14 DEF SavesThrough, w

LEMMA SearchThrough ==
    ASSUME g \in Graphs, NEW f, IsInitSearch(g, f), NEW h, IsOfLength(h)
    PROVE  \A n \in DOMAIN h : \A r \in h[n] : SavesThrough(f, h, r)
<1> DEFINE height(r) == WalkHeight(g, Along(r))
           S == {m \in Nat : \A n \in DOMAIN h : \A r \in h[n] :
                    height(r) < m => SavesThrough(f, h, r)}
<1>1. \A n \in DOMAIN h : \A r \in h[n] : IsRoute(r) /\ height(r) \in Nat
  <2> SUFFICES ASSUME NEW n \in DOMAIN h, NEW r \in h[n] PROVE IsRoute(r) /\ height(r) \in Nat
    OBVIOUS
  <2>1. IsRoute(r)
    BY OfLengthAreRoutes
  <2>2. Along(r) \in Walks(g)
    BY <2>1 DEF IsRoute
  <2> QED
    BY <2>1, <2>2, WalkEnds
<1>2. 0 \in S
  <2> HIDE DEF height
  <2> QED
    BY <1>1
<1>3. ASSUME NEW m \in Nat, m \in S PROVE m + 1 \in S
  <2> SUFFICES ASSUME NEW n \in DOMAIN h, NEW r \in h[n], height(r) < m + 1
               PROVE  SavesThrough(f, h, r)
    OBVIOUS
  <2>1. IsRoute(r) /\ height(r) \in Nat /\ Along(r) \in Walks(g)
    BY <1>1, RouteFacts
  <2>2. CASE EndOf(r).isLoopNode
    <3>1. Through(h, r) = {r}
      BY <2>2, ThroughLoop
    <3>2. f[Along(r)] = <<Along(r)>>
      BY <2>1, <2>2, SearchIsBody DEF EndOf
    <3>3. \A x : ToSet(<<x>>) = {x} /\ Len(<<x>>) = 1
      BY DEF ToSet
    <3>4. IsFiniteSet({r}) /\ Cardinality({r}) = 1
      BY FS_Singleton
    <3> QED
      BY <3>1, <3>2, <3>3, <3>4 DEF SavesThrough
  <2>3. CASE ~EndOf(r).isLoopNode
    <3>1. ASSUME NEW j \in DOMAIN EndOf(r).childs PROVE SavesThrough(f, h, Append(r, j))
      <4>1. n + 1 \in DOMAIN h /\ Append(r, j) \in h[n+1]
        BY <2>3, OfLengthAreRoutes
      <4>2. height(Append(r, j)) < height(r)
        BY <2>1, <2>3, RouteGrows
      <4>3. height(Append(r, j)) \in Nat
        BY <1>1, <4>1
      <4>4. height(Append(r, j)) < m
        <5> HIDE DEF height
        <5> QED
          BY <2>1, <4>2, <4>3
      <4> QED
        BY <1>3, <4>1, <4>4
    <3> QED
      BY <2>3, <3>1, SearchThroughNode
  <2> QED
    BY <2>2, <2>3
<1> HIDE DEF S
<1>4. Nat \subseteq S
  BY <1>2, <1>3, Inductive
<1> SUFFICES ASSUME NEW n \in DOMAIN h, NEW r \in h[n] PROVE SavesThrough(f, h, r)
  OBVIOUS
<1>5. height(r) + 1 \in S /\ height(r) < height(r) + 1
  <2>1. height(r) \in Nat
    BY <1>1
  <2> HIDE DEF height
  <2> QED
    BY <1>4, <2>1
<1> QED
  BY <1>5 DEF S

(****************************************************************************)
(* collectInitBasicBlock misses no way into a loop and saves none twice: in *)
(* every graph the paths are those of the routes to a first loop, one for   *)
(* each, in the order in which verify() numbers them.                       *)
(****************************************************************************)
THEOREM FindsAllInitPaths == Spec => []InitPathsComplete
<1>1. SearchInv => InitPathsComplete
  <2> SUFFICES ASSUME SearchInv, pc = "done"
               PROVE  /\ ToSet(initNodes) = {Along(r) : r \in Routes}
                      /\ Len(initNodes) = Cardinality(Routes)
                      /\ initNodes = InitNodesOf(g)
    BY DEF InitPathsComplete
  <2> DEFINE f == CHOOSE ff : IsInitSearch(g, ff)
             h == CHOOSE hh : IsOfLength(hh)
  <2>1. g \in Graphs
    BY DEF SearchInv, Inv
  <2>2. IsInitSearch(g, f)
    BY <2>1, InitSearchExists
  <2>3. IsOfLength(h)
    BY <2>1, OfLengthExists
  <2>4. InitNodesOf(g) = f[<<1>>]
    BY InitNodesAreSearch
  <2>5. Routes = RoutesOf(h)
    BY RoutesAreOfLength
  <2> HIDE DEF f, h
  <2>6. initNodes = f[<<1>>]
    BY <2>2, DoneFound
  <2>7. 0 \in DOMAIN h /\ << >> \in h[0]
    BY <2>1, <2>3, OfLengthAreRoutes
  <2>8. SavesThrough(f, h, << >>)
    BY <2>1, <2>2, <2>3, <2>7, SearchThrough
  <2>9. Along(<< >>) = <<1>>
    BY AlongNone
  <2>10. Through(h, << >>) = RoutesOf(h)
    <3>1. Len(<< >>) = 0 /\ \A i \in 1..0 : FALSE
      OBVIOUS
    <3>2. ASSUME NEW q \in RoutesOf(h) PROVE 0 <= Len(q)
      <4>1. Len(q) \in Nat
        BY <2>1, <2>3, RoutesOfFacts, RouteFacts
      <4> QED
        BY <4>1
    <3> QED
      BY <3>1, <3>2 DEF Through
  <2> QED
    BY <2>4, <2>5, <2>6, <2>8, <2>9, <2>10 DEF SavesThrough
<1> QED
  BY <1>1, SearchInvHolds, PTL
==============================================================================
