---------------------------- MODULE ErrPathProofs ----------------------------
(****************************************************************************)
(* What the two searches for error paths do, for every graph whose cycles   *)
(* lie in its loops.  collectVerifyPathErrInNode builds only real paths,    *)
(* saves only those that end in the error node, and, where loops can be     *)
(* left over their header, saves all of these.  collectVerifyPathErrInLoop  *)
(* builds a real path too, hands on the one that verify() goes on with, and *)
(* empties it only when no way leads to the error loop.                     *)
(****************************************************************************)
EXTENDS ErrPathInNode, ErrPathInLoop, TLAPS, SequenceTheorems, WellFoundedInduction,
        FiniteSetTheorems

(****************************************************************************)
(* Lemmas about taking an element off a vector and putting one on.          *)
(****************************************************************************)
LEMMA FrontProperties ==
    ASSUME NEW S, NEW s \in Seq(S), s # << >>
    PROVE  /\ Front(s) \in Seq(S)
           /\ Len(Front(s)) = Len(s) - 1
           /\ \A i \in 1..Len(s)-1 : Front(s)[i] = s[i]
           /\ Len(s) \in Nat \ {0}
           /\ Last(s) \in S /\ Last(s) = s[Len(s)]
<1>1. Len(s) \in Nat \ {0}
  BY EmptySeq
<1> DEFINE n == Len(s) - 1
<1>2. n \in Nat /\ 1 \in Int /\ \A i \in 1..n : s[i] \in S
  BY <1>1, ElementOfSeq
<1>3. s[Len(s)] \in S
  BY <1>1, ElementOfSeq
<1> HIDE DEF n
<1>4. /\ SubSeq(s, 1, n) \in Seq(S)
      /\ Len(SubSeq(s, 1, n)) = IF 1 <= n THEN n - 1 + 1 ELSE 0
      /\ \A i \in 1..(n - 1 + 1) : SubSeq(s, 1, n)[i] = s[1 + i - 1]
  BY <1>2, SubSeqProperties
<1>5. \A i \in 1..n : i \in 1..(n - 1 + 1) /\ 1 + i - 1 = i
  BY <1>2
<1>6. Len(SubSeq(s, 1, n)) = n
  BY <1>2, <1>4
<1>7. \A i \in 1..n : SubSeq(s, 1, n)[i] = s[i]
  BY <1>4, <1>5
<1> QED
  BY <1>1, <1>3, <1>4, <1>6, <1>7 DEF n, Front, Last

(****************************************************************************)
(* The elements of a sequence that may be in a larger set.                  *)
(****************************************************************************)
LEMMA SetOfSequence ==
    ASSUME NEW S, NEW s \in Seq(S), NEW x \in ToSet(s)
    PROVE  x \in S /\ \E n \in 1..Len(s) : s[n] = x
<1>1. PICK n \in DOMAIN s : s[n] = x
  BY DEF ToSet
<1>2. n \in 1..Len(s)
  BY LenProperties
<1> QED
  BY <1>1, <1>2, ElementOfSeq

(****************************************************************************)
(* A set of numbers that is not empty has a least.                          *)
(****************************************************************************)
LEMMA LeastNumber ==
    ASSUME NEW T \in SUBSET Nat, T # {}
    PROVE  /\ \E x \in T : \A y \in T : x <= y
           /\ Min(T) \in T
<1> DEFINE Less == OpToRel(<, Nat)
<1>1. \A x, y \in Nat : <<y, x>> \in Less <=> y < x
  BY DEF OpToRel
<1>2. IsWellFoundedOn(Less, Nat)
  BY NatLessThanWellFounded
<1> HIDE DEF Less
<1>3. PICK x \in T : \A y \in T : ~ (<<y, x>> \in Less)
  BY <1>2, WFMin
<1>4. \A y \in T : x <= y
  <2> SUFFICES ASSUME NEW y \in T PROVE x <= y
    OBVIOUS
  <2>1. x \in Nat /\ y \in Nat
    OBVIOUS
  <2>2. ~ (y < x)
    BY <1>1, <1>3, <2>1
  <2> QED
    BY <2>1, <2>2
<1> QED
  BY <1>4 DEF Min

(****************************************************************************)
(* A set of numbers that has 0, and with each number the next, has all.     *)
(****************************************************************************)
LEMMA Inductive ==
    ASSUME NEW S, 0 \in S, \A n \in Nat : n \in S => n + 1 \in S
    PROVE  Nat \subseteq S
<1> DEFINE T == Nat \ S
<1> SUFFICES ASSUME T # {} PROVE FALSE
  OBVIOUS
<1>1. T \in SUBSET Nat
  OBVIOUS
<1> HIDE DEF T
<1>2. PICK x \in T : \A y \in T : x <= y
  BY <1>1, LeastNumber
<1>3. x \in Nat /\ x \notin S /\ x # 0
  BY <1>2 DEF T
<1>4. x - 1 \in Nat /\ ~ (x <= x - 1) /\ (x - 1) + 1 = x
  BY <1>3
<1>5. x - 1 \notin T
  BY <1>2, <1>4
<1> QED
  BY <1>3, <1>4, <1>5 DEF T

(****************************************************************************)
(* The function that FlattenSeq recurses on.                                *)
(****************************************************************************)
IsFlat(F, n, f) == f = [a \in 1..n |-> IF a = 1 THEN F[a] ELSE f[a-1] \o F[a]]

(****************************************************************************)
(* There is one, whatever the sequences.                                    *)
(****************************************************************************)
LEMMA FlatExists ==
    ASSUME NEW F, NEW n \in Nat
    PROVE  \E f : IsFlat(F, n, f)
<1> DEFINE S == {m \in Nat : \E f : IsFlat(F, m, f)}
<1>1. 0 \in S
  <2>1. IsFlat(F, 0, [a \in {} |-> a])
    BY DEF IsFlat
  <2> QED
    BY <2>1
<1>2. ASSUME NEW m \in Nat, m \in S PROVE m + 1 \in S
  <2>1. PICK f : IsFlat(F, m, f)
    BY <1>2
  <2> DEFINE h == [a \in 1..m+1 |-> IF a <= m THEN f[a]
                                    ELSE IF a = 1 THEN F[a] ELSE f[m] \o F[m+1]]
  <2>2. ASSUME NEW a \in 1..m+1
        PROVE  h[a] = IF a = 1 THEN F[a] ELSE h[a-1] \o F[a]
    <3>1. CASE a <= m
      <4>1. a \in 1..m
        BY <3>1
      <4>2. h[a] = f[a]
        BY <3>1
      <4>3. f[a] = IF a = 1 THEN F[a] ELSE f[a-1] \o F[a]
        BY <2>1, <4>1 DEF IsFlat
      <4>4. a # 1 => h[a-1] = f[a-1]
        BY <4>1
      <4> QED
        BY <4>2, <4>3, <4>4
    <3>2. CASE a = m + 1
      <4>1. ~ (a <= m)
        BY <3>2
      <4>2. h[a] = IF a = 1 THEN F[a] ELSE f[m] \o F[m+1]
        BY <4>1
      <4>3. a # 1 => h[a-1] = f[m]
        BY <3>2
      <4> QED
        BY <3>2, <4>2, <4>3
    <3> QED
      BY <3>1, <3>2
  <2>3. h = [a \in 1..m+1 |-> h[a]]
    OBVIOUS
  <2> HIDE DEF h
  <2>4. h = [a \in 1..m+1 |-> IF a = 1 THEN F[a] ELSE h[a-1] \o F[a]]
    BY <2>2, <2>3
  <2>5. IsFlat(F, m + 1, h)
    BY <2>4 DEF IsFlat
  <2> QED
    BY <2>5
<1> HIDE DEF S
<1>3. Nat \subseteq S
  BY <1>1, <1>2, Inductive
<1> QED
  BY <1>3 DEF S

(****************************************************************************)
(* A value of such a function.                                              *)
(****************************************************************************)
LEMMA FlatValue ==
    ASSUME NEW F, NEW n \in Nat, NEW f, IsFlat(F, n, f), NEW a \in 1..n
    PROVE  f[a] = IF a = 1 THEN F[a] ELSE f[a-1] \o F[a]
<1> DEFINE value(b) == IF b = 1 THEN F[b] ELSE f[b-1] \o F[b]
<1>1. f = [b \in 1..n |-> value(b)]
  BY DEF IsFlat
<1> HIDE DEF value
<1>2. f[a] = value(a)
  BY <1>1
<1> QED
  BY <1>2 DEF value

(****************************************************************************)
(* Two of them agree where both are defined and the sequences are the same. *)
(****************************************************************************)
LEMMA FlatAgrees ==
    ASSUME NEW F, NEW H, NEW n \in Nat, NEW m \in Nat, n <= m,
           \A a \in 1..n : F[a] = H[a],
           NEW f, IsFlat(F, n, f), NEW h, IsFlat(H, m, h)
    PROVE  \A a \in 1..n : f[a] = h[a]
<1> DEFINE S == {a \in Nat : a \in 1..n => f[a] = h[a]}
<1>1. 0 \in S
  OBVIOUS
<1>2. ASSUME NEW a \in Nat, a \in S PROVE a + 1 \in S
  <2> SUFFICES ASSUME a + 1 \in 1..n PROVE f[a+1] = h[a+1]
    OBVIOUS
  <2>1. a + 1 \in 1..m /\ (a + 1) - 1 = a /\ F[a+1] = H[a+1]
    OBVIOUS
  <2>2. f[a+1] = IF a + 1 = 1 THEN F[a+1] ELSE f[a] \o F[a+1]
    BY <2>1, FlatValue
  <2>3. h[a+1] = IF a + 1 = 1 THEN H[a+1] ELSE h[a] \o H[a+1]
    BY <2>1, FlatValue
  <2>4. a + 1 # 1 => f[a] = h[a]
    BY <1>2
  <2> QED
    BY <2>1, <2>2, <2>3, <2>4
<1> HIDE DEF S
<1>3. Nat \subseteq S
  BY <1>1, <1>2, Inductive
<1> QED
  BY <1>3 DEF S

(****************************************************************************)
(* What FlattenSeq computes of sequences that are not none.                 *)
(****************************************************************************)
LEMMA FlattenIsFlat ==
    ASSUME NEW F, NEW n \in Nat \ {0}, Len(F) = n
    PROVE  \E f : IsFlat(F, n, f) /\ FlattenSeq(F) = f[n]
<1> DEFINE f == CHOOSE ff : IsFlat(F, n, ff)
<1>1. IsFlat(F, n, f)
  BY FlatExists
<1>2. FlattenSeq(F) = f[n]
  BY DEF FlattenSeq, IsFlat
<1> QED
  BY <1>1, <1>2

(****************************************************************************)
(* Without its last sequence, a sequence of sequences flattens to what that *)
(* one is put behind.                                                       *)
(****************************************************************************)
First(F, n) == [a \in 1..n |-> F[a]]

LEMMA FlattenNone ==
    ASSUME NEW F
    PROVE  First(F, 0) = << >> /\ FlattenSeq(First(F, 0)) = << >>
<1>1. First(F, 0) = << >>
  BY DEF First
<1>2. FlattenSeq(<< >>) = << >>
  BY DEF FlattenSeq
<1> QED
  BY <1>1, <1>2

LEMMA FlattenOne ==
    ASSUME NEW F, NEW n \in Nat, n > 0
    PROVE  FlattenSeq(First(F, n + 1)) = FlattenSeq(First(F, n)) \o F[n+1]
<1> DEFINE H == First(F, n)
           G == First(F, n + 1)
<1>1. Len(H) = n /\ Len(G) = n + 1 /\ n \in Nat \ {0} /\ n + 1 \in Nat \ {0}
  BY DEF First
<1>2. /\ \A a \in 1..n : H[a] = G[a]
      /\ G[n+1] = F[n+1]
  BY DEF First
<1> HIDE DEF H, G
<1>3. PICK f : IsFlat(H, n, f) /\ FlattenSeq(H) = f[n]
  BY <1>1, FlattenIsFlat
<1>4. PICK h : IsFlat(G, n + 1, h) /\ FlattenSeq(G) = h[n+1]
  BY <1>1, FlattenIsFlat
<1>5. f[n] = h[n]
  <2>1. n \in 1..n /\ n <= n + 1 /\ n + 1 \in Nat
    OBVIOUS
  <2>2. \A a \in 1..n : f[a] = h[a]
    BY <1>2, <1>3, <1>4, <2>1, FlatAgrees
  <2> QED
    BY <2>1, <2>2
<1>6. h[n+1] = h[n] \o G[n+1]
  <2>1. n + 1 \in 1..n+1 /\ n + 1 # 1 /\ (n + 1) - 1 = n
    OBVIOUS
  <2> QED
    BY <1>4, <2>1 DEF IsFlat
<1> QED
  BY <1>2, <1>3, <1>4, <1>5, <1>6 DEF H, G

LEMMA FlattenGrows ==
    ASSUME NEW S, NEW F, NEW n \in Nat, \A a \in 1..n+1 : F[a] \in Seq(S)
    PROVE  /\ FlattenSeq(First(F, n)) \in Seq(S)
           /\ FlattenSeq(First(F, n + 1)) = FlattenSeq(First(F, n)) \o F[n+1]
<1> DEFINE T == {m \in Nat : m <= n + 1 => FlattenSeq(First(F, m)) \in Seq(S)}
<1>1. FlattenSeq(First(F, 0)) \in Seq(S) /\ FlattenSeq(First(F, 0)) = << >>
  BY FlattenNone, EmptySeq
<1>2. FlattenSeq(First(F, 1)) = F[1]
  <2> DEFINE H == First(F, 1)
  <2>1. Len(H) = 1 /\ H[1] = F[1]
    BY DEF First
  <2> HIDE DEF H
  <2>2. PICK h : IsFlat(H, 1, h) /\ FlattenSeq(H) = h[1]
    <3>1. 1 \in Nat \ {0}
      OBVIOUS
    <3> QED
      BY <2>1, <3>1, FlattenIsFlat
  <2>3. h[1] = H[1]
    BY <2>2 DEF IsFlat
  <2> QED
    BY <2>1, <2>2, <2>3 DEF H
<1>3. ASSUME NEW m \in Nat, m \in T PROVE m + 1 \in T
  <2> SUFFICES ASSUME m + 1 <= n + 1 PROVE FlattenSeq(First(F, m + 1)) \in Seq(S)
    OBVIOUS
  <2>1. CASE m = 0
    BY <1>2, <2>1
  <2>2. CASE m > 0
    <3>1. FlattenSeq(First(F, m)) \in Seq(S) /\ F[m+1] \in Seq(S)
      BY <1>3
    <3> QED
      BY <2>2, <3>1, FlattenOne, ConcatProperties
  <2> QED
    BY <2>1, <2>2
<1>4. 0 \in T
  BY <1>1
<1> HIDE DEF T
<1>5. Nat \subseteq T
  BY <1>3, <1>4, Inductive
<1>6. FlattenSeq(First(F, n)) \in Seq(S)
  BY <1>5 DEF T
<1>7. CASE n = 0
  <2>1. FlattenSeq(First(F, 0)) \o F[1] = F[1]
    BY <1>1, <1>7, ConcatEmptySeq
  <2> QED
    BY <1>2, <1>6, <1>7, <2>1
<1>8. CASE n > 0
  BY <1>6, <1>8, FlattenOne
<1> QED
  BY <1>7, <1>8

(****************************************************************************)
(* What is in two sequences put one behind the other.                       *)
(****************************************************************************)
LEMMA MembersOfConcat ==
    ASSUME NEW S, NEW s \in Seq(S), NEW t \in Seq(S)
    PROVE  ToSet(s \o t) = ToSet(s) \cup ToSet(t)
<1>1. /\ Len(s) \in Nat /\ Len(t) \in Nat /\ Len(s \o t) = Len(s) + Len(t)
      /\ \A i \in 1..Len(s) + Len(t) :
            (s \o t)[i] = IF i <= Len(s) THEN s[i] ELSE t[i - Len(s)]
      /\ s \o t \in Seq(S)
  BY ConcatProperties, LenProperties
<1> DEFINE r == s \o t
<1>2. DOMAIN s = 1..Len(s) /\ DOMAIN t = 1..Len(t) /\ DOMAIN r = 1..Len(s) + Len(t)
  BY <1>1, LenProperties
<1> HIDE DEF r
<1>3. ASSUME NEW x \in ToSet(r) PROVE x \in ToSet(s) \cup ToSet(t)
  <2>1. PICK i \in 1..Len(s) + Len(t) : r[i] = x
    BY <1>2 DEF ToSet
  <2>2. CASE i <= Len(s)
    BY <1>1, <1>2, <2>1, <2>2 DEF ToSet, r
  <2>3. CASE i > Len(s)
    <3>1. i - Len(s) \in 1..Len(t) /\ r[i] = t[i - Len(s)]
      BY <1>1, <2>1, <2>3 DEF r
    <3> QED
      BY <1>2, <2>1, <3>1 DEF ToSet
  <2> QED
    BY <1>1, <2>1, <2>2, <2>3
<1>4. ASSUME NEW x \in ToSet(s) PROVE x \in ToSet(r)
  <2>1. PICK i \in 1..Len(s) : s[i] = x
    BY <1>2 DEF ToSet
  <2>2. i \in 1..Len(s) + Len(t) /\ r[i] = x
    BY <1>1, <2>1 DEF r
  <2> QED
    BY <1>2, <2>2 DEF ToSet
<1>5. ASSUME NEW x \in ToSet(t) PROVE x \in ToSet(r)
  <2>1. PICK i \in 1..Len(t) : t[i] = x
    BY <1>2 DEF ToSet
  <2>2. i + Len(s) \in 1..Len(s) + Len(t) /\ r[i + Len(s)] = x
    <3>1. i + Len(s) \in 1..Len(s) + Len(t) /\ ~ (i + Len(s) <= Len(s)) /\ (i + Len(s)) - Len(s) = i
      BY <1>1
    <3> QED
      BY <1>1, <2>1, <3>1 DEF r
  <2> QED
    BY <1>2, <2>2 DEF ToSet
<1> QED
  BY <1>3, <1>4, <1>5 DEF r

(****************************************************************************)
(* What is in the flattened sequence is what is in one of its parts.        *)
(****************************************************************************)
LEMMA FlattenMembers ==
    ASSUME NEW S, NEW F, NEW n \in Nat, \A a \in 1..n : F[a] \in Seq(S)
    PROVE  /\ FlattenSeq(First(F, n)) \in Seq(S)
           /\ \A x : x \in ToSet(FlattenSeq(First(F, n))) <=> \E a \in 1..n : x \in ToSet(F[a])
<1> DEFINE T == {m \in Nat : m <= n =>
                    /\ FlattenSeq(First(F, m)) \in Seq(S)
                    /\ \A x : x \in ToSet(FlattenSeq(First(F, m))) <=>
                                 \E a \in 1..m : x \in ToSet(F[a])}
<1>1. 0 \in T
  <2>1. FlattenSeq(First(F, 0)) = << >>
    BY FlattenNone
  <2>2. << >> \in Seq(S) /\ ToSet(<< >>) = {}
    BY EmptySeq DEF ToSet
  <2>3. FlattenSeq(First(F, 0)) \in Seq(S) /\ ToSet(FlattenSeq(First(F, 0))) = {}
    BY <2>1, <2>2
  <2>4. \A a \in 1..0 : FALSE
    OBVIOUS
  <2> QED
    BY <2>3, <2>4
<1>2. ASSUME NEW m \in Nat, m \in T PROVE m + 1 \in T
  <2> SUFFICES ASSUME m + 1 <= n
               PROVE  /\ FlattenSeq(First(F, m + 1)) \in Seq(S)
                      /\ \A x : x \in ToSet(FlattenSeq(First(F, m + 1))) <=>
                                   \E a \in 1..m+1 : x \in ToSet(F[a])
    OBVIOUS
  <2> DEFINE s == FlattenSeq(First(F, m))
             t == F[m+1]
             r == FlattenSeq(First(F, m + 1))
  <2>1. \A a \in 1..m+1 : F[a] \in Seq(S)
    OBVIOUS
  <2>2. s \in Seq(S) /\ \A x : x \in ToSet(s) <=> \E a \in 1..m : x \in ToSet(F[a])
    BY <1>2
  <2>3. t \in Seq(S) /\ r = s \o t
    BY <2>1, FlattenGrows
  <2> HIDE DEF s, t, r
  <2>4. r \in Seq(S) /\ ToSet(r) = ToSet(s) \cup ToSet(t)
    BY <2>2, <2>3, MembersOfConcat, ConcatProperties
  <2>5. 1..m+1 = 1..m \cup {m + 1}
    OBVIOUS
  <2>6. \A x : x \in ToSet(r) <=> \E a \in 1..m+1 : x \in ToSet(F[a])
    BY <2>2, <2>4, <2>5 DEF t
  <2> QED
    BY <2>4, <2>6 DEF r
<1> HIDE DEF T
<1>3. Nat \subseteq T
  BY <1>1, <1>2, Inductive
<1> QED
  BY <1>3 DEF T

------------------------------------------------------------------------------
(****************************************************************************)
(* What the graphs grant.                                                   *)
(****************************************************************************)
LEMMA GraphFacts ==
    ASSUME NEW gr \in Graphs
    PROVE  /\ gr \in Graph
           /\ IsCFG(gr.CFGNodeVec, gr.LCSSAs)
           /\ DOMAIN gr.CFGNodeVec = 1..Len(gr.CFGNodeVec) /\ Len(gr.CFGNodeVec) \in Nat
           /\ \A n \in DOMAIN gr.CFGNodeVec :
                 /\ gr.CFGNodeVec[n] \in CFGNodes
                 /\ gr.CFGNodeVec[n].childs \in Seq(Nat)
                 /\ ToSet(gr.CFGNodeVec[n].childs) \subseteq DOMAIN gr.CFGNodeVec
<1>1. gr \in Graph /\ IsCFG(gr.CFGNodeVec, gr.LCSSAs)
  BY GraphsAssumption
<1>2. gr.CFGNodeVec \in Seq(CFGNodes)
  BY <1>1 DEF Graph
<1>3. DOMAIN gr.CFGNodeVec = 1..Len(gr.CFGNodeVec) /\ Len(gr.CFGNodeVec) \in Nat
  BY <1>2, LenProperties
<1>4. ASSUME NEW n \in DOMAIN gr.CFGNodeVec
      PROVE  gr.CFGNodeVec[n] \in CFGNodes /\ gr.CFGNodeVec[n].childs \in Seq(Nat)
  <2>1. gr.CFGNodeVec[n] \in CFGNodes
    BY <1>2, <1>3, ElementOfSeq
  <2> QED
    BY <2>1 DEF CFGNodes
<1> QED
  BY <1>1, <1>3, <1>4 DEF IsCFG

(****************************************************************************)
(* The element of a node is a path element that holds the node.             *)
(****************************************************************************)
LEMMA ElementFacts ==
    ASSUME NEW gr \in Graphs, NEW n \in DOMAIN gr.CFGNodeVec
    PROVE  /\ Element(gr, n) \in Path
           /\ Element(gr, n) \in Elements(gr)
           /\ n \in NodesOf(gr, Element(gr, n))
           /\ IF gr.CFGNodeVec[n].isLoopNode
              THEN /\ Element(gr, n) = ALoop(gr.CFGNodeVec[n].LCSSAIndex)
                   /\ gr.CFGNodeVec[n].LCSSAIndex \in DOMAIN gr.LCSSAs
              ELSE Element(gr, n) = ANode(n)
<1>1. /\ IsCFG(gr.CFGNodeVec, gr.LCSSAs) /\ gr.CFGNodeVec[n] \in CFGNodes /\ n \in Nat
  BY GraphFacts
<1>2. gr.CFGNodeVec[n].LCSSAIndex \in Nat
  BY <1>1 DEF CFGNodes
<1>3. Element(gr, n) \in Elements(gr)
  BY DEF Elements
<1>4. CASE gr.CFGNodeVec[n].isLoopNode
  <2>1. Element(gr, n) = ALoop(gr.CFGNodeVec[n].LCSSAIndex)
    BY <1>4 DEF Element
  <2>2. /\ gr.CFGNodeVec[n].LCSSAIndex \in DOMAIN gr.LCSSAs
        /\ gr.CFGNodeVec[n].bb \in ToSet(gr.LCSSAs[gr.CFGNodeVec[n].LCSSAIndex].bbVec)
    BY <1>1, <1>4 DEF IsCFG
  <2> QED
    BY <1>2, <1>3, <1>4, <2>1, <2>2 DEF ALoop, Path, NodeType, NodesOf
<1>5. CASE ~gr.CFGNodeVec[n].isLoopNode
  <2>1. Element(gr, n) = ANode(n)
    BY <1>5 DEF Element
  <2> QED
    BY <1>1, <1>3, <1>5, <2>1 DEF ANode, Path, NodeType, NodesOf
<1> QED
  BY <1>4, <1>5

(****************************************************************************)
(* Elements that share a node are the same: the blocks of a loop carry one  *)
(* loop index.                                                              *)
(****************************************************************************)
LEMMA ElementsApart ==
    ASSUME NEW gr \in Graphs, NEW e \in Elements(gr), NEW f \in Elements(gr),
           NodesOf(gr, e) \cap NodesOf(gr, f) # {}
    PROVE  e = f
<1>1. IsCFG(gr.CFGNodeVec, gr.LCSSAs)
  BY GraphFacts
<1>2. PICK n : n \in NodesOf(gr, e) /\ n \in NodesOf(gr, f)
  OBVIOUS
<1>3. ASSUME NEW x \in Elements(gr), n \in NodesOf(gr, x)
      PROVE  n \in DOMAIN gr.CFGNodeVec /\ x = Element(gr, n)
  <2>1. PICK m \in DOMAIN gr.CFGNodeVec : x = Element(gr, m)
    BY DEF Elements
  <2>2. CASE gr.CFGNodeVec[m].isLoopNode
    <3>1. x = ALoop(gr.CFGNodeVec[m].LCSSAIndex) /\ gr.CFGNodeVec[m].LCSSAIndex \in DOMAIN gr.LCSSAs
      BY <2>1, <2>2, ElementFacts
    <3>2. /\ gr.CFGNodeVec[m].LCSSAIndex # NoIndex
          /\ gr.CFGNodeVec[m].bb \in ToSet(gr.LCSSAs[gr.CFGNodeVec[m].LCSSAIndex].bbVec)
      BY <1>1, <2>2 DEF IsCFG
    <3>3. /\ n \in DOMAIN gr.CFGNodeVec
          /\ gr.CFGNodeVec[n].bb \in ToSet(gr.LCSSAs[gr.CFGNodeVec[m].LCSSAIndex].bbVec)
      BY <1>3, <3>1 DEF NodesOf, ALoop
    <3>4. gr.CFGNodeVec[n].LCSSAIndex = gr.CFGNodeVec[m].LCSSAIndex
      BY <1>1, <3>1, <3>2, <3>3 DEF IsCFG
    <3>5. gr.CFGNodeVec[n].isLoopNode
      BY <1>1, <3>2, <3>3, <3>4 DEF IsCFG
    <3> QED
      BY <3>1, <3>3, <3>4, <3>5 DEF Element
  <2>3. CASE ~gr.CFGNodeVec[m].isLoopNode
    <3>1. x = ANode(m)
      BY <2>1, <2>3, ElementFacts
    <3>2. n = m
      BY <1>3, <3>1 DEF NodesOf, ANode
    <3> QED
      BY <2>1, <3>2
  <2> QED
    BY <2>2, <2>3
<1> QED
  BY <1>2, <1>3

(****************************************************************************)
(* Looking up a block that the vector has gives a node of this block.       *)
(****************************************************************************)
LEMMA IndexFound ==
    ASSUME NEW gr \in Graphs, NEW bb \in BBs(gr.CFGNodeVec)
    PROVE  /\ IndexByBB(gr.CFGNodeVec, bb) \in DOMAIN gr.CFGNodeVec
           /\ gr.CFGNodeVec[IndexByBB(gr.CFGNodeVec, bb)].bb = bb
<1> DEFINE vec == gr.CFGNodeVec
           I == {i \in 1..Len(vec) : vec[i].bb = bb}
<1>1. DOMAIN vec = 1..Len(vec) /\ Len(vec) \in Nat /\ IsCFG(vec, gr.LCSSAs)
  BY GraphFacts
<1>2. PICK n \in DOMAIN vec : vec[n].bb = bb
  BY DEF BBs
<1>3. IndexByBB(vec, bb) = IF I # {} THEN Min(I) ELSE 0
  BY DEF IndexByBB, SelectInSeq
<1>4. I = {n}
  BY <1>1, <1>2 DEF IsCFG
<1>5. Min({n}) = n
  BY <1>1 DEF Min
<1> QED
  BY <1>2, <1>3, <1>4, <1>5

(****************************************************************************)
(* A child that an element is left over follows it: the exit node of an     *)
(* element is one of its own.                                               *)
(****************************************************************************)
LEMMA ChildFacts ==
    ASSUME NEW gr \in Graphs, NEW e \in Elements(gr)
    PROVE  /\ ExitNode(gr, e) \in DOMAIN gr.CFGNodeVec
           /\ Childs(gr, e) \in Seq(Nat)
           /\ \A c \in ToSet(Childs(gr, e)) :
                 c \in DOMAIN gr.CFGNodeVec /\ Linked(gr, e, Element(gr, c))
<1>1. PICK m \in DOMAIN gr.CFGNodeVec : e = Element(gr, m)
  BY DEF Elements
<1>2. ExitNode(gr, e) \in DOMAIN gr.CFGNodeVec /\ ExitNode(gr, e) \in NodesOf(gr, e)
  <2>1. CASE gr.CFGNodeVec[m].isLoopNode
    <3> DEFINE l == gr.CFGNodeVec[m].LCSSAIndex
    <3>1. e = ALoop(l) /\ l \in DOMAIN gr.LCSSAs
      BY <1>1, <2>1, ElementFacts
    <3> HIDE DEF l
    <3>2. IsCFG(gr.CFGNodeVec, gr.LCSSAs)
      BY GraphFacts
    <3>3. /\ gr.LCSSAs[l].header \in ToSet(gr.LCSSAs[l].bbVec)
          /\ ToSet(gr.LCSSAs[l].bbVec) \subseteq BBs(gr.CFGNodeVec)
      BY <3>1, <3>2 DEF IsCFG
    <3>4. /\ gr.LCSSAs[l].header \in ToSet(gr.LCSSAs[l].bbVec)
          /\ gr.LCSSAs[l].header \in BBs(gr.CFGNodeVec)
      BY <3>3
    <3> QED
      BY <3>1, <3>4, IndexFound DEF ExitNode, NodesOf, ALoop
  <2>2. CASE ~gr.CFGNodeVec[m].isLoopNode
    <3>1. e = ANode(m)
      BY <1>1, <2>2, ElementFacts
    <3> QED
      BY <3>1 DEF ExitNode, NodesOf, ANode
  <2> QED
    BY <2>1, <2>2
<1>3. /\ Childs(gr, e) \in Seq(Nat)
      /\ ToSet(Childs(gr, e)) \subseteq DOMAIN gr.CFGNodeVec
  BY <1>2, GraphFacts DEF Childs
<1>4. ASSUME NEW c \in ToSet(Childs(gr, e)) PROVE Linked(gr, e, Element(gr, c))
  <2>1. c \in NodesOf(gr, Element(gr, c))
    BY <1>3, <1>4, ElementFacts
  <2> QED
    BY <1>2, <1>4, <2>1 DEF Linked, Childs
<1> QED
  BY <1>2, <1>3, <1>4

(****************************************************************************)
(* A single node leads on to itself only if it is left to itself.           *)
(****************************************************************************)
LEMMA HeightFalls ==
    ASSUME NEW gr \in Graphs
    PROVE  /\ \A e \in Elements(gr) : Height(gr)[e] \in Nat
           /\ \A e, f \in Elements(gr) : LeadsOn(gr, e, f) => Height(gr)[f] < Height(gr)[e]
<1>1. CyclesLieInLoops(gr)
  BY ReducibleAssumption
<1> QED
  BY <1>1 DEF CyclesLieInLoops

(****************************************************************************)
(* The heights of a graph have a bound.                                     *)
(****************************************************************************)
LEMMA HeightBound ==
    ASSUME NEW gr \in Graphs
    PROVE  \E N \in Nat : \A e \in Elements(gr) : Height(gr)[e] < N
<1> DEFINE height == Height(gr)
           S == {m \in Nat : \E N \in Nat : \A n \in DOMAIN gr.CFGNodeVec :
                    n <= m => height[Element(gr, n)] < N}
<1>1. DOMAIN gr.CFGNodeVec = 1..Len(gr.CFGNodeVec) /\ Len(gr.CFGNodeVec) \in Nat
  BY GraphFacts
<1>2. \A n \in DOMAIN gr.CFGNodeVec : height[Element(gr, n)] \in Nat
  BY ElementFacts, HeightFalls
<1> HIDE DEF height
<1>3. 0 \in S
  BY <1>1
<1>4. ASSUME NEW m \in Nat, m \in S PROVE m + 1 \in S
  <2>1. PICK N \in Nat : \A n \in DOMAIN gr.CFGNodeVec : n <= m => height[Element(gr, n)] < N
    BY <1>4
  <2>2. CASE m + 1 \notin DOMAIN gr.CFGNodeVec
    <3>1. \A n \in DOMAIN gr.CFGNodeVec : n <= m + 1 => n <= m
      BY <1>1, <2>2
    <3> QED
      BY <2>1, <3>1
  <2>3. CASE m + 1 \in DOMAIN gr.CFGNodeVec
    <3> DEFINE x == height[Element(gr, m + 1)]
               M == N + x + 1
    <3>1. x \in Nat
      BY <1>2, <2>3
    <3> HIDE DEF x
    <3>2. M \in Nat /\ N <= M /\ x < M
      BY <3>1
    <3> HIDE DEF M
    <3>3. ASSUME NEW n \in DOMAIN gr.CFGNodeVec, n <= m + 1
          PROVE  height[Element(gr, n)] < M
      <4>1. CASE n = m + 1
        BY <3>2, <4>1 DEF x
      <4>2. CASE n # m + 1
        <5>1. n <= m
          BY <1>1, <3>3, <4>2
        <5>2. height[Element(gr, n)] < N /\ height[Element(gr, n)] \in Nat
          BY <1>2, <2>1, <5>1
        <5> QED
          BY <3>2, <5>2
      <4> QED
        BY <4>1, <4>2
    <3> QED
      BY <3>2, <3>3
  <2> QED
    BY <2>2, <2>3
<1> HIDE DEF S
<1>5. Nat \subseteq S
  BY <1>3, <1>4, Inductive
<1>6. PICK N \in Nat : \A n \in DOMAIN gr.CFGNodeVec :
         n <= Len(gr.CFGNodeVec) => height[Element(gr, n)] < N
  BY <1>1, <1>5 DEF S
<1>7. ASSUME NEW e \in Elements(gr) PROVE height[e] < N
  <2>1. PICK n \in DOMAIN gr.CFGNodeVec : e = Element(gr, n)
    BY DEF Elements
  <2> QED
    BY <1>1, <1>6, <2>1
<1> QED
  BY <1>7 DEF height

------------------------------------------------------------------------------
(****************************************************************************)
(* The function that InitNodesOf recurses on.  It can be built up from the  *)
(* lowest elements, because the heights fall from a walk to a longer one.   *)
(****************************************************************************)
Walks(gr) == Seq(DOMAIN gr.CFGNodeVec) \ {<< >>}

WalkChilds(gr, w) == gr.CFGNodeVec[Last(w)].childs

InitBody(gr, f, w) ==
    IF gr.CFGNodeVec[Last(w)].isLoopNode THEN <<w>>
    ELSE FlattenSeq([j \in DOMAIN WalkChilds(gr, w) |-> f[Append(w, WalkChilds(gr, w)[j])]])

IsInitSearch(gr, f) == f = [w \in Walks(gr) |-> InitBody(gr, f, w)]

LEMMA InitNodesAreSearch ==
    ASSUME NEW gr
    PROVE  InitNodesOf(gr) = (CHOOSE f : IsInitSearch(gr, f))[<<1>>]
BY DEF InitNodesOf, IsInitSearch, InitBody, WalkChilds, Walks

WalkHeight(gr, w) == Height(gr)[Element(gr, Last(w))]

LEMMA WalkEnds ==
    ASSUME NEW gr \in Graphs, NEW w \in Walks(gr)
    PROVE  /\ Last(w) \in DOMAIN gr.CFGNodeVec /\ Len(w) \in Nat \ {0} /\ Last(w) = w[Len(w)]
           /\ WalkHeight(gr, w) \in Nat
           /\ DOMAIN WalkChilds(gr, w) = 1..Len(WalkChilds(gr, w))
           /\ Len(WalkChilds(gr, w)) \in Nat
<1>1. w \in Seq(DOMAIN gr.CFGNodeVec) /\ w # << >>
  BY DEF Walks
<1>2. Last(w) \in DOMAIN gr.CFGNodeVec /\ Len(w) \in Nat \ {0} /\ Last(w) = w[Len(w)]
  <2> DEFINE Nodes == DOMAIN gr.CFGNodeVec
  <2> HIDE DEF Nodes
  <2>1. w \in Seq(Nodes) /\ w # << >>
    BY <1>1 DEF Nodes
  <2>2. Last(w) \in Nodes /\ Len(w) \in Nat \ {0} /\ Last(w) = w[Len(w)]
    BY <2>1, FrontProperties
  <2> QED
    BY <2>2 DEF Nodes
<1>3. WalkHeight(gr, w) \in Nat
  BY <1>2, ElementFacts, HeightFalls DEF WalkHeight
<1>4. WalkChilds(gr, w) \in Seq(Nat)
  BY <1>2, GraphFacts DEF WalkChilds
<1> QED
  BY <1>2, <1>3, <1>4, LenProperties

LEMMA ChildWalk ==
    ASSUME NEW gr \in Graphs, NEW w \in Walks(gr), ~gr.CFGNodeVec[Last(w)].isLoopNode,
           NEW j \in DOMAIN WalkChilds(gr, w)
    PROVE  LET c == WalkChilds(gr, w)[j]
               q == Append(w, c)
           IN  /\ q \in Walks(gr) /\ Len(q) = Len(w) + 1 /\ Last(q) = c
               /\ \A i \in 1..Len(w) : q[i] = w[i]
               /\ q[Len(w) + 1] = c
               /\ c \in ToSet(WalkChilds(gr, w))
               /\ WalkHeight(gr, q) < WalkHeight(gr, w)
<1> DEFINE Nodes == DOMAIN gr.CFGNodeVec
           c == WalkChilds(gr, w)[j]
           q == Append(w, c)
           n == Last(w)
<1>1. n \in Nodes /\ w \in Seq(Nodes)
  BY WalkEnds DEF Walks
<1>2. c \in ToSet(WalkChilds(gr, w))
  BY DEF ToSet
<1>3. c \in Nodes
  BY <1>1, <1>2, GraphFacts DEF WalkChilds
<1>4. LeadsOn(gr, Element(gr, n), Element(gr, c))
  <2>1. Element(gr, n) = ANode(n) /\ n \in NodesOf(gr, Element(gr, n))
    BY <1>1, ElementFacts
  <2>2. c \in NodesOf(gr, Element(gr, c)) /\ c \in ToSet(gr.CFGNodeVec[n].childs)
    BY <1>2, <1>3, ElementFacts DEF WalkChilds
  <2>3. Element(gr, n).type = "ANode"
    BY <2>1 DEF ANode
  <2> QED
    BY <2>1, <2>2, <2>3 DEF LeadsOn, Linked
<1>5. Height(gr)[Element(gr, c)] < Height(gr)[Element(gr, n)]
  BY <1>1, <1>3, <1>4, ElementFacts, HeightFalls
<1> HIDE DEF Nodes, c
<1>6. /\ q \in Seq(Nodes) /\ q # << >> /\ Len(q) = Len(w) + 1
      /\ \A i \in 1..Len(w) : q[i] = w[i]
      /\ q[Len(w) + 1] = c
  BY <1>1, <1>3, AppendProperties
<1>7. Last(q) = c
  BY <1>6 DEF Last
<1> QED
  BY <1>2, <1>5, <1>6, <1>7 DEF Walks, WalkHeight, Nodes, c

LEMMA InitBodyAgrees ==
    ASSUME NEW gr \in Graphs, NEW w \in Walks(gr), NEW f, NEW h,
           \A q \in Walks(gr) : WalkHeight(gr, q) < WalkHeight(gr, w) => f[q] = h[q]
    PROVE  InitBody(gr, f, w) = InitBody(gr, h, w)
<1>1. CASE gr.CFGNodeVec[Last(w)].isLoopNode
  BY <1>1 DEF InitBody
<1>2. CASE ~gr.CFGNodeVec[Last(w)].isLoopNode
  <2>1. \A j \in DOMAIN WalkChilds(gr, w) :
           f[Append(w, WalkChilds(gr, w)[j])] = h[Append(w, WalkChilds(gr, w)[j])]
    BY <1>2, ChildWalk
  <2>2. [j \in DOMAIN WalkChilds(gr, w) |-> f[Append(w, WalkChilds(gr, w)[j])]] =
        [j \in DOMAIN WalkChilds(gr, w) |-> h[Append(w, WalkChilds(gr, w)[j])]]
    BY <2>1
  <2> QED
    BY <1>2, <2>2 DEF InitBody
<1> QED
  BY <1>1, <1>2

InitSearchesBelow(gr, m, f) ==
    \A w \in Walks(gr) : WalkHeight(gr, w) < m => f[w] = InitBody(gr, f, w)

LEMMA InitSearchExists ==
    ASSUME NEW gr \in Graphs
    PROVE  \E f : IsInitSearch(gr, f)
<1> DEFINE S == {m \in Nat : \E f : InitSearchesBelow(gr, m, f)}
<1>1. \A w \in Walks(gr) : WalkHeight(gr, w) \in Nat
  BY WalkEnds
<1>2. 0 \in S
  <2>1. InitSearchesBelow(gr, 0, << >>)
    BY <1>1 DEF InitSearchesBelow
  <2> QED
    BY <2>1
<1>3. ASSUME NEW m \in Nat, m \in S PROVE m + 1 \in S
  <2>1. PICK f : InitSearchesBelow(gr, m, f)
    BY <1>3
  <2> DEFINE h == [w \in Walks(gr) |-> IF WalkHeight(gr, w) < m THEN f[w] ELSE InitBody(gr, f, w)]
  <2>2. \A w \in Walks(gr) : h[w] = IF WalkHeight(gr, w) < m THEN f[w] ELSE InitBody(gr, f, w)
    OBVIOUS
  <2> HIDE DEF h
  <2>3. \A w \in Walks(gr) : h[w] = InitBody(gr, f, w) \/ ~ (WalkHeight(gr, w) < m + 1)
    BY <2>1, <2>2 DEF InitSearchesBelow
  <2>4. ASSUME NEW w \in Walks(gr), WalkHeight(gr, w) < m + 1
        PROVE  InitBody(gr, f, w) = InitBody(gr, h, w)
    <3>1. ASSUME NEW q \in Walks(gr), WalkHeight(gr, q) < WalkHeight(gr, w) PROVE f[q] = h[q]
      <4>1. WalkHeight(gr, q) < m
        BY <1>1, <2>4, <3>1
      <4> QED
        BY <2>2, <4>1
    <3> QED
      BY <3>1, InitBodyAgrees
  <2>5. InitSearchesBelow(gr, m + 1, h)
    BY <2>3, <2>4 DEF InitSearchesBelow
  <2> QED
    BY <2>5
<1> HIDE DEF S
<1>4. Nat \subseteq S
  BY <1>2, <1>3, Inductive
<1>5. PICK N \in Nat : \A e \in Elements(gr) : Height(gr)[e] < N
  BY HeightBound
<1>6. PICK f : InitSearchesBelow(gr, N, f)
  BY <1>4 DEF S
<1>7. \A w \in Walks(gr) : f[w] = InitBody(gr, f, w)
  BY <1>5, <1>6, WalkEnds, ElementFacts DEF InitSearchesBelow, WalkHeight
<1> DEFINE h == [w \in Walks(gr) |-> f[w]]
<1>8. \A w \in Walks(gr) : h[w] = f[w]
  OBVIOUS
<1>9. h = [w \in Walks(gr) |-> h[w]]
  OBVIOUS
<1> HIDE DEF h
<1>10. \A w \in Walks(gr) : h[w] = InitBody(gr, h, w)
  BY <1>7, <1>8, InitBodyAgrees
<1>11. IsInitSearch(gr, h)
  BY <1>9, <1>10 DEF IsInitSearch
<1> QED
  BY <1>11

(****************************************************************************)
(* A way from the entry over blocks outside the loops to a first loop.      *)
(****************************************************************************)
IsInitPath(gr, ip) ==
    /\ ip \in Seq(DOMAIN gr.CFGNodeVec)
    /\ ip # << >>
    /\ ip[1] = 1
    /\ \A i \in 1..Len(ip)-1 :
          /\ ip[i+1] \in ToSet(gr.CFGNodeVec[ip[i]].childs)
          /\ ~gr.CFGNodeVec[ip[i]].isLoopNode
    /\ gr.CFGNodeVec[Last(ip)].isLoopNode

(****************************************************************************)
(* What basicBlockDFS saves leads from the entry over blocks outside the    *)
(* loops to a first loop.                                                   *)
(****************************************************************************)
LEMMA InitPathsLeadToLoops ==
    ASSUME NEW gr \in Graphs
    PROVE  \A ip \in ToSet(InitNodesOf(gr)) : IsInitPath(gr, ip)
<1> DEFINE I == {p \in Walks(gr) : IsInitPath(gr, p)}
           IsOpen(w) ==
              /\ w[1] = 1
              /\ \A i \in 1..Len(w)-1 :
                    /\ w[i+1] \in ToSet(gr.CFGNodeVec[w[i]].childs)
                    /\ ~gr.CFGNodeVec[w[i]].isLoopNode
<1>1. PICK f : IsInitSearch(gr, f) /\ InitNodesOf(gr) = f[<<1>>]
  BY InitSearchExists, InitNodesAreSearch
<1>2. \A w \in Walks(gr) : f[w] = InitBody(gr, f, w)
  BY <1>1 DEF IsInitSearch
<1>3. ASSUME NEW w \in Walks(gr), IsOpen(w), gr.CFGNodeVec[Last(w)].isLoopNode
      PROVE  f[w] \in Seq(I)
  <2>1. w \in I
    BY <1>3 DEF IsInitPath, Walks
  <2>2. f[w] = <<w>>
    BY <1>2, <1>3 DEF InitBody
  <2> HIDE DEF I
  <2> QED
    BY <2>1, <2>2
<1> DEFINE S == {m \in Nat : \A w \in Walks(gr) :
                    WalkHeight(gr, w) < m /\ IsOpen(w) => f[w] \in Seq(I)}
<1>4. 0 \in S
  BY WalkEnds
<1>5. ASSUME NEW m \in Nat, m \in S, NEW w \in Walks(gr), WalkHeight(gr, w) < m + 1,
             IsOpen(w), ~gr.CFGNodeVec[Last(w)].isLoopNode
      PROVE  f[w] \in Seq(I)
  <2> DEFINE n == Len(WalkChilds(gr, w))
             F == [j \in 1..n |-> f[Append(w, WalkChilds(gr, w)[j])]]
  <2>1. /\ n \in Nat /\ DOMAIN WalkChilds(gr, w) = 1..n /\ Len(w) \in Nat \ {0}
        /\ WalkHeight(gr, w) \in Nat /\ Last(w) = w[Len(w)]
    BY WalkEnds
  <2>2. f[w] = FlattenSeq(First(F, n))
    <3>1. First(F, n) = F
      BY DEF First
    <3> QED
      BY <1>2, <1>5, <2>1, <3>1 DEF InitBody
  <2>3. ASSUME NEW j \in 1..n PROVE F[j] \in Seq(I)
    <3> DEFINE c == WalkChilds(gr, w)[j]
               q == Append(w, c)
    <3>1. /\ q \in Walks(gr) /\ Len(q) = Len(w) + 1 /\ Last(q) = c
          /\ \A i \in 1..Len(w) : q[i] = w[i]
          /\ q[Len(w) + 1] = c
          /\ c \in ToSet(WalkChilds(gr, w))
          /\ WalkHeight(gr, q) < WalkHeight(gr, w)
      BY <1>5, <2>1, ChildWalk
    <3>2. F[j] = f[q]
      OBVIOUS
    <3> HIDE DEF F, q, c, n
    <3>3. WalkHeight(gr, q) < m
      <4>1. WalkHeight(gr, q) \in Nat
        BY <3>1, WalkEnds
      <4> QED
        BY <1>5, <2>1, <3>1, <4>1
    <3>4. IsOpen(q)
      <4>1. q[1] = 1
        BY <1>5, <2>1, <3>1
      <4>2. ASSUME NEW i \in 1..Len(q)-1
            PROVE  /\ q[i+1] \in ToSet(gr.CFGNodeVec[q[i]].childs)
                   /\ ~gr.CFGNodeVec[q[i]].isLoopNode
        <5>1. CASE i = Len(w)
          BY <1>5, <2>1, <3>1, <5>1 DEF WalkChilds
        <5>2. CASE i # Len(w)
          <6>1. i \in 1..Len(w)-1 /\ q[i] = w[i] /\ q[i+1] = w[i+1]
            BY <2>1, <3>1, <5>2
          <6> QED
            BY <1>5, <6>1
        <5> QED
          BY <5>1, <5>2
      <4> QED
        BY <4>1, <4>2
    <3> HIDE DEF IsOpen, I
    <3> QED
      BY <1>5, <3>1, <3>2, <3>3, <3>4
  <2> HIDE DEF F, n, I
  <2> QED
    BY <2>1, <2>2, <2>3, FlattenMembers
<1>6. ASSUME NEW m \in Nat, m \in S PROVE m + 1 \in S
  <2>1. \A w \in Walks(gr) : WalkHeight(gr, w) < m + 1 /\ IsOpen(w) => f[w] \in Seq(I)
    <3> HIDE DEF I, S, IsOpen
    <3> QED
      BY <1>3, <1>5, <1>6
  <2> HIDE DEF I, IsOpen
  <2> QED
    BY <2>1
<1>7. <<1>> \in Walks(gr) /\ IsOpen(<<1>>)
  <2>1. 1 \in DOMAIN gr.CFGNodeVec
    <3>1. IsCFG(gr.CFGNodeVec, gr.LCSSAs) /\ gr.CFGNodeVec \in Seq(CFGNodes)
      BY GraphFacts DEF Graph
    <3> QED
      BY <3>1, EmptySeq, LenProperties DEF IsCFG
  <2> DEFINE Nodes == DOMAIN gr.CFGNodeVec
  <2> HIDE DEF Nodes
  <2>2. 1 \in Nodes
    BY <2>1 DEF Nodes
  <2>3. <<1>> \in Seq(Nodes) /\ <<1>> # << >>
    BY <2>2
  <2>4. <<1>> \in Walks(gr)
    BY <2>3 DEF Walks, Nodes
  <2> QED
    BY <2>4
<1>8. WalkHeight(gr, <<1>>) \in Nat
  BY <1>7, WalkEnds
<1> HIDE DEF S
<1>9. WalkHeight(gr, <<1>>) + 1 \in S
  BY <1>4, <1>6, <1>8, Inductive
<1>10. f[<<1>>] \in Seq(I)
  BY <1>7, <1>8, <1>9 DEF S
<1> HIDE DEF IsOpen
<1>11. \A ip \in ToSet(f[<<1>>]) : ip \in I
  <2> HIDE DEF I
  <2> QED
    BY <1>10, SetOfSequence
<1> QED
  BY <1>1, <1>11

------------------------------------------------------------------------------
(****************************************************************************)
(* A way through the graph: each element leads on to the next.              *)
(****************************************************************************)
IsWay(gr, p) ==
    /\ p \in Seq(Elements(gr))
    /\ p # << >>
    /\ IsChain(gr, p)
    /\ \A a, b \in 1..Len(p) : a < b => Height(gr)[p[b]] < Height(gr)[p[a]]

(****************************************************************************)
(* An element that is led on to makes a longer way.                         *)
(****************************************************************************)
LEMMA LongerWay ==
    ASSUME NEW gr \in Graphs, NEW p, IsWay(gr, p),
           NEW f \in Elements(gr), LeadsOn(gr, Last(p), f)
    PROVE  IsWay(gr, Append(p, f))
<1>1. /\ p \in Seq(Elements(gr)) /\ p # << >> /\ IsChain(gr, p)
      /\ \A a, b \in 1..Len(p) : a < b => Height(gr)[p[b]] < Height(gr)[p[a]]
  BY DEF IsWay
<1> DEFINE q == Append(p, f)
<1>2. /\ q \in Seq(Elements(gr)) /\ q # << >> /\ Len(q) = Len(p) + 1
      /\ \A a \in 1..Len(p) : q[a] = p[a]
      /\ q[Len(p) + 1] = f
  BY <1>1, AppendProperties
<1>3. /\ Len(p) \in Nat \ {0} /\ Last(p) \in Elements(gr) /\ Last(p) = p[Len(p)]
  BY <1>1, FrontProperties
<1> HIDE DEF q
<1>4. Linked(gr, p[Len(p)], f) /\ Height(gr)[f] < Height(gr)[p[Len(p)]]
  BY <1>3, HeightFalls DEF LeadsOn
<1>5. IsChain(gr, q)
  <2> SUFFICES ASSUME NEW a \in 1..Len(q)-1 PROVE Linked(gr, q[a], q[a+1])
    BY DEF IsChain
  <2>1. CASE a = Len(p)
    BY <1>2, <1>3, <1>4, <2>1
  <2>2. CASE a # Len(p)
    <3>1. a \in 1..Len(p)-1 /\ q[a] = p[a] /\ q[a+1] = p[a+1]
      BY <1>2, <1>3, <2>2
    <3> QED
      BY <1>1, <3>1 DEF IsChain
  <2> QED
    BY <2>1, <2>2
<1>6. ASSUME NEW a \in 1..Len(q), NEW b \in 1..Len(q), a < b
      PROVE  Height(gr)[q[b]] < Height(gr)[q[a]]
  <2>1. a \in 1..Len(p) /\ q[a] = p[a] /\ p[a] \in Elements(gr)
    BY <1>1, <1>2, <1>3, <1>6, ElementOfSeq
  <2>2. CASE b # Len(q)
    BY <1>1, <1>2, <1>3, <1>6, <2>1, <2>2
  <2>3. CASE b = Len(q) /\ a = Len(p)
    BY <1>2, <1>3, <1>4, <2>1, <2>3
  <2>4. CASE b = Len(q) /\ a # Len(p)
    <3>1. Height(gr)[p[Len(p)]] < Height(gr)[p[a]]
      BY <1>1, <1>3, <2>1, <2>4
    <3>2. /\ Height(gr)[p[a]] \in Nat /\ Height(gr)[p[Len(p)]] \in Nat /\ Height(gr)[f] \in Nat
      BY <1>3, <2>1, HeightFalls
    <3> QED
      BY <1>2, <1>4, <2>1, <2>4, <3>1, <3>2
  <2> QED
    BY <2>2, <2>3, <2>4
<1> QED
  BY <1>2, <1>5, <1>6 DEF IsWay, q

(****************************************************************************)
(* Without its last element a way is still one.                             *)
(****************************************************************************)
LEMMA ShorterWay ==
    ASSUME NEW gr \in Graphs, NEW p, IsWay(gr, p), Len(p) > 1
    PROVE  IsWay(gr, Front(p))
<1>1. /\ p \in Seq(Elements(gr)) /\ p # << >> /\ IsChain(gr, p)
      /\ \A a, b \in 1..Len(p) : a < b => Height(gr)[p[b]] < Height(gr)[p[a]]
  BY DEF IsWay
<1> DEFINE q == Front(p)
<1>2. /\ q \in Seq(Elements(gr)) /\ Len(q) = Len(p) - 1 /\ Len(p) \in Nat \ {0}
      /\ \A a \in 1..Len(p)-1 : q[a] = p[a]
  BY <1>1, FrontProperties
<1> HIDE DEF q
<1>3. q # << >>
  BY <1>2, EmptySeq
<1>4. IsChain(gr, q)
  <2> SUFFICES ASSUME NEW a \in 1..Len(q)-1 PROVE Linked(gr, q[a], q[a+1])
    BY DEF IsChain
  <2>1. a \in 1..Len(p)-1 /\ q[a] = p[a] /\ q[a+1] = p[a+1]
    BY <1>2
  <2> QED
    BY <1>1, <2>1 DEF IsChain
<1>5. \A a, b \in 1..Len(q) : a < b => Height(gr)[q[b]] < Height(gr)[q[a]]
  BY <1>1, <1>2, SMTT(30)
<1> QED
  BY <1>2, <1>3, <1>4, <1>5 DEF IsWay, q

(****************************************************************************)
(* No element is on a way twice, nor any of its nodes.                      *)
(****************************************************************************)
LEMMA NothingTwice ==
    ASSUME NEW gr \in Graphs, NEW p, IsWay(gr, p),
           NEW a \in 1..Len(p), NEW b \in 1..Len(p),
           NodesOf(gr, p[a]) \cap NodesOf(gr, p[b]) # {}
    PROVE  a = b
<1>1. /\ p \in Seq(Elements(gr)) /\ Len(p) \in Nat
      /\ \A x, y \in 1..Len(p) : x < y => Height(gr)[p[y]] < Height(gr)[p[x]]
  BY LenProperties DEF IsWay
<1>2. p[a] \in Elements(gr) /\ p[b] \in Elements(gr)
  BY <1>1, ElementOfSeq
<1>3. p[a] = p[b]
  BY <1>2, ElementsApart
<1>4. Height(gr)[p[a]] \in Nat
  BY <1>2, HeightFalls
<1>5. ~ (a < b) /\ ~ (b < a)
  BY <1>1, <1>3, <1>4
<1> QED
  BY <1>1, <1>5

(****************************************************************************)
(* Where each element leads on to the next the heights fall all the way.    *)
(****************************************************************************)
LEMMA StepsMakeWay ==
    ASSUME NEW gr \in Graphs, NEW p \in Seq(Elements(gr)), p # << >>,
           \A a \in 1..Len(p)-1 : LeadsOn(gr, p[a], p[a+1])
    PROVE  IsWay(gr, p)
<1>1. Len(p) \in Nat /\ \A a \in 1..Len(p) : p[a] \in Elements(gr)
  BY LenProperties, ElementOfSeq
<1>2. IsChain(gr, p)
  BY DEF IsChain, LeadsOn
<1> DEFINE height == Height(gr)
           S == {d \in Nat : \A a \in 1..Len(p) :
                    a + d + 1 <= Len(p) => height[p[a + d + 1]] < height[p[a]]}
<1>3. /\ \A e \in Elements(gr) : height[e] \in Nat
      /\ \A e, f \in Elements(gr) : LeadsOn(gr, e, f) => height[f] < height[e]
  BY HeightFalls
<1> HIDE DEF height
<1>4. \A a \in 1..Len(p) : a + 1 <= Len(p) => height[p[a + 1]] < height[p[a]]
  <2> SUFFICES ASSUME NEW a \in 1..Len(p), a + 1 <= Len(p)
               PROVE  height[p[a + 1]] < height[p[a]]
    OBVIOUS
  <2>1. a \in 1..Len(p)-1 /\ a + 1 \in 1..Len(p)
    BY <1>1
  <2> QED
    BY <1>1, <1>3, <2>1
<1>5. 0 \in S
  BY <1>1, <1>4
<1>6. ASSUME NEW d \in Nat, d \in S PROVE d + 1 \in S
  <2> SUFFICES ASSUME NEW a \in 1..Len(p), a + (d + 1) + 1 <= Len(p)
               PROVE  height[p[a + (d + 1) + 1]] < height[p[a]]
    OBVIOUS
  <2>1. a + d + 1 \in 1..Len(p) /\ a + d + 1 <= Len(p) /\ a + (d + 1) + 1 = (a + d + 1) + 1
    BY <1>1
  <2>2. height[p[a + d + 1]] < height[p[a]]
    BY <1>6, <2>1
  <2>3. height[p[(a + d + 1) + 1]] < height[p[a + d + 1]]
    BY <1>4, <2>1
  <2>4. (a + d + 1) + 1 \in 1..Len(p)
    BY <1>1, <2>1
  <2>5. /\ height[p[(a + d + 1) + 1]] \in Nat /\ height[p[a + d + 1]] \in Nat
        /\ height[p[a]] \in Nat
    BY <1>1, <1>3, <2>1, <2>4
  <2> QED
    BY <2>1, <2>2, <2>3, <2>5
<1> HIDE DEF S
<1>7. Nat \subseteq S
  BY <1>5, <1>6, Inductive
<1>8. ASSUME NEW a \in 1..Len(p), NEW b \in 1..Len(p), a < b
      PROVE  height[p[b]] < height[p[a]]
  <2>1. b - a - 1 \in S /\ a + (b - a - 1) + 1 = b /\ b <= Len(p)
    BY <1>1, <1>7, <1>8
  <2> QED
    BY <2>1 DEF S
<1> QED
  BY <1>2, <1>8 DEF IsWay, height

(****************************************************************************)
(* The path the search starts from is a way to a loop.                      *)
(****************************************************************************)
LEMMA StartIsWay ==
    ASSUME NEW gr \in Graphs, NEW ip \in ToSet(InitNodesOf(gr))
    PROVE  /\ IsWay(gr, StartPath(gr, ip))
           /\ Last(StartPath(gr, ip)).type = "ALoop"
<1> DEFINE Nodes == DOMAIN gr.CFGNodeVec
           front == [i \in 1..Len(ip)-1 |-> ANode(ip[i])]
           loop == ALoop(gr.CFGNodeVec[Last(ip)].LCSSAIndex)
           p == StartPath(gr, ip)
<1>1. /\ ip \in Seq(Nodes) /\ ip # << >>
      /\ \A i \in 1..Len(ip)-1 :
            /\ ip[i+1] \in ToSet(gr.CFGNodeVec[ip[i]].childs)
            /\ ~gr.CFGNodeVec[ip[i]].isLoopNode
      /\ gr.CFGNodeVec[Last(ip)].isLoopNode
  BY InitPathsLeadToLoops DEF IsInitPath
<1>2. /\ Len(ip) \in Nat \ {0} /\ \A i \in 1..Len(ip) : ip[i] \in Nodes
      /\ Last(ip) = ip[Len(ip)]
  <2> HIDE DEF Nodes
  <2> QED
    BY <1>1, FrontProperties, ElementOfSeq
<1>3. \A i \in 1..Len(ip)-1 :
         /\ ANode(ip[i]) = Element(gr, ip[i])
         /\ ANode(ip[i]) \in Elements(gr)
  BY <1>1, <1>2, ElementFacts
<1>4. loop = Element(gr, Last(ip)) /\ loop \in Elements(gr) /\ loop.type = "ALoop"
  BY <1>1, <1>2, ElementFacts DEF ALoop
<1>5. front \in Seq(Elements(gr)) /\ Len(front) = Len(ip) - 1
  <2>1. \A i \in 1..Len(ip)-1 : front[i] \in Elements(gr)
    BY <1>3
  <2>2. Len(ip) - 1 \in Nat
    BY <1>2
  <2>3. front \in [1..Len(ip)-1 -> Elements(gr)]
    BY <2>1
  <2> HIDE DEF front
  <2> QED
    BY <2>2, <2>3
<1>6. p = Append(front, loop)
  BY DEF StartPath
<1> HIDE DEF p, loop
<1>7. /\ p \in Seq(Elements(gr)) /\ p # << >> /\ Len(p) = Len(ip)
      /\ \A i \in 1..Len(ip)-1 : p[i] = ANode(ip[i])
      /\ p[Len(ip)] = loop
  <2>1. \A i \in 1..Len(ip)-1 : front[i] = ANode(ip[i])
    OBVIOUS
  <2> HIDE DEF front
  <2>2. /\ p \in Seq(Elements(gr)) /\ p # << >> /\ Len(p) = Len(front) + 1
        /\ \A i \in 1..Len(front) : p[i] = front[i]
        /\ p[Len(front) + 1] = loop
    BY <1>4, <1>5, <1>6, AppendProperties
  <2> QED
    BY <1>2, <1>5, <2>1, <2>2
<1>8. ASSUME NEW a \in 1..Len(p)-1 PROVE LeadsOn(gr, p[a], p[a+1])
  <2>1. p[a] = ANode(ip[a]) /\ a \in 1..Len(ip)-1 /\ a + 1 \in 1..Len(ip)
    BY <1>2, <1>7
  <2>2. p[a+1] = Element(gr, ip[a+1])
    <3>1. CASE a + 1 = Len(ip)
      BY <1>2, <1>4, <1>7, <3>1
    <3>2. CASE a + 1 # Len(ip)
      <4>1. a + 1 \in 1..Len(ip)-1
        BY <1>2, <2>1, <3>2
      <4> QED
        BY <1>3, <1>7, <4>1
    <3> QED
      BY <3>1, <3>2
  <2>3. ip[a+1] \in NodesOf(gr, p[a+1])
    BY <1>2, <2>1, <2>2, ElementFacts
  <2>4. ip[a+1] \in ToSet(gr.CFGNodeVec[ip[a]].childs)
    BY <1>1, <2>1
  <2>5. ip[a] \in NodesOf(gr, p[a]) /\ p[a].type = "ANode"
    BY <2>1 DEF NodesOf, ANode
  <2> QED
    BY <2>3, <2>4, <2>5 DEF LeadsOn, Linked
<1>9. Last(p).type = "ALoop"
  BY <1>4, <1>7 DEF Last
<1> QED
  BY <1>7, <1>8, <1>9, StepsMakeWay DEF p

------------------------------------------------------------------------------
(****************************************************************************)
(* The inductive invariant: the shared vector is a way through the graph    *)
(* whose first part is the path the search was given, and there is a call   *)
(* in progress for each element from the last of that part on.              *)
(****************************************************************************)
Inv ==
    /\ g \in Graphs
    /\ TypeOK
    /\ IsWay(g, start)
    /\ Last(start).type = "ALoop"
    /\ IsWay(g, v)
    /\ Len(v) + 1 = Len(start) + Len(next)
    /\ \A a \in 1..Len(start) : v[a] = start[a]
    /\ PathsReachError

(****************************************************************************)
(* Elements and ways keep to the types of paths.                            *)
(****************************************************************************)
LEMMA WayType ==
    ASSUME NEW gr \in Graphs, NEW p, IsWay(gr, p)
    PROVE  /\ p \in Seq(Path) /\ p # << >> /\ Len(p) \in Nat \ {0}
           /\ Last(p) = p[Len(p)]
           /\ \A a \in 1..Len(p) : p[a] \in Elements(gr) /\ p[a].type \in {"ALoop", "ANode"}
<1>1. p \in Seq(Elements(gr)) /\ p # << >>
  BY DEF IsWay
<1>2. ASSUME NEW e \in Elements(gr) PROVE e \in Path /\ e.type \in {"ALoop", "ANode"}
  <2>1. PICK n \in DOMAIN gr.CFGNodeVec : e = Element(gr, n)
    BY DEF Elements
  <2> QED
    BY <2>1, ElementFacts DEF ALoop, ANode
<1>3. p \in Seq(Path)
  <2>1. Elements(gr) \subseteq Path
    BY <1>2
  <2> QED
    BY <1>1, <2>1, SeqMonotonic
<1>4. Len(p) \in Nat \ {0} /\ Last(p) = p[Len(p)]
  BY <1>1, FrontProperties
<1> QED
  BY <1>1, <1>2, <1>3, <1>4, ElementOfSeq

(****************************************************************************)
(* The first part of a sequence, element by element.                        *)
(****************************************************************************)
LEMMA FirstPart ==
    ASSUME NEW S, NEW s \in Seq(S), NEW t \in Seq(S), Len(t) <= Len(s),
           \A a \in 1..Len(t) : s[a] = t[a]
    PROVE  SubSeq(s, 1, Len(t)) = t
<1>1. Len(s) \in Nat /\ Len(t) \in Nat
  BY LenProperties
<1> DEFINE n == Len(t)
<1>2. n \in Int /\ 1 \in Int /\ \A i \in 1..n : s[i] \in S
  BY <1>1, ElementOfSeq
<1> HIDE DEF n
<1>3. /\ SubSeq(s, 1, n) \in Seq(S)
      /\ Len(SubSeq(s, 1, n)) = IF 1 <= n THEN n - 1 + 1 ELSE 0
      /\ \A i \in 1..(n - 1 + 1) : SubSeq(s, 1, n)[i] = s[1 + i - 1]
  BY <1>2, SubSeqProperties
<1>4. Len(SubSeq(s, 1, n)) = n
  BY <1>1, <1>3 DEF n
<1>5. \A i \in 1..n : SubSeq(s, 1, n)[i] = t[i]
  <2>1. \A i \in 1..n : i \in 1..(n - 1 + 1) /\ 1 + i - 1 = i
    BY <1>1 DEF n
  <2> QED
    BY <1>3, <2>1 DEF n
<1> QED
  BY <1>3, <1>4, <1>5, SeqEqual DEF n

(****************************************************************************)
(* The invariant gives the promise about the path in progress.              *)
(****************************************************************************)
LEMMA InvIsReal == Inv => PathInProgressIsReal
<1> SUFFICES ASSUME Inv PROVE PathInProgressIsReal
  OBVIOUS
<1>1. /\ g \in Graphs /\ IsWay(g, start) /\ IsWay(g, v) /\ TypeOK
      /\ Len(v) + 1 = Len(start) + Len(next)
      /\ \A a \in 1..Len(start) : v[a] = start[a]
  BY DEF Inv
<1>2. /\ v \in Seq(Path) /\ start \in Seq(Path) /\ Len(v) \in Nat /\ Len(start) \in Nat
  BY <1>1, WayType
<1>3. Len(next) \in Nat \ {0}
  BY <1>1, EmptySeq DEF TypeOK
<1>4. SubSeq(v, 1, Len(start)) = start
  <2>1. Len(start) <= Len(v)
    BY <1>1, <1>2, <1>3
  <2> QED
    BY <1>1, <1>2, <2>1, FirstPart
<1>5. DOMAIN v = 1..Len(v)
  BY <1>2, LenProperties
<1>6. \A i, j \in DOMAIN v : NodesOf(g, v[i]) \cap NodesOf(g, v[j]) # {} => i = j
  BY <1>1, <1>5, NothingTwice
<1>7. IsChain(g, v)
  BY <1>1 DEF IsWay
<1> QED
  BY <1>1, <1>4, <1>6, <1>7 DEF PathInProgressIsReal

(****************************************************************************)
(* The invariant holds before the search.                                   *)
(****************************************************************************)
LEMMA InitInv == Init => Inv
<1> SUFFICES ASSUME Init PROVE Inv
  OBVIOUS
<1>1. /\ g \in Graphs /\ assertNodeIdx = FindVerifyNode(g) /\ v = start /\ next = <<1>>
      /\ paths = << >> /\ pc = "search"
  BY DEF Init
<1>2. PICK ip \in ToSet(InitNodesOf(g)) : start = StartPath(g, ip)
  BY DEF Init
<1>3. IsWay(g, start) /\ Last(start).type = "ALoop"
  BY <1>1, <1>2, StartIsWay
<1>4. start \in Seq(Path) /\ start # << >> /\ Len(start) \in Nat
  BY <1>1, <1>3, WayType
<1>5. assertNodeIdx \in 0..Len(g.CFGNodeVec)
  <2> DEFINE vec == g.CFGNodeVec
             I == {i \in 1..Len(vec) : vec[i].bb \in g.errors}
  <2>1. assertNodeIdx = IF I # {} THEN Min(I) ELSE 0
    BY <1>1 DEF FindVerifyNode, SelectInSeq
  <2>2. Len(vec) \in Nat /\ I \in SUBSET Nat
    BY <1>1, GraphFacts
  <2>3. I # {} => Min(I) \in I
    <3> HIDE DEF I
    <3> QED
      BY <2>2, LeastNumber
  <2> QED
    BY <2>1, <2>2, <2>3
<1>6. TypeOK
  <2>1. <<1>> \in Seq(Nat \ {0}) /\ <<1>> # << >> /\ Len(<<1>>) = 1
    OBVIOUS
  <2>2. << >> \in Seq(Seq(Path))
    BY EmptySeq
  <2>3. g \in Graph
    BY <1>1, GraphFacts
  <2> QED
    BY <1>1, <1>4, <1>5, <2>1, <2>2, <2>3 DEF TypeOK
<1>7. Len(v) + 1 = Len(start) + Len(next)
  BY <1>1
<1> QED
  BY <1>1, <1>3, <1>6, <1>7 DEF Inv, PathsReachError

(****************************************************************************)
(* Counters without the last, and with the current one moved on.            *)
(****************************************************************************)
LEMMA CounterFacts ==
    ASSUME NEW s \in Seq(Nat \ {0}), s # << >>
    PROVE  /\ Len(s) \in Nat \ {0} /\ Last(s) \in Nat \ {0}
           /\ Front(s) \in Seq(Nat \ {0}) /\ Len(Front(s)) = Len(s) - 1
           /\ [s EXCEPT ![Len(s)] = @ + 1] \in Seq(Nat \ {0}) \ {<< >>}
           /\ Len([s EXCEPT ![Len(s)] = @ + 1]) = Len(s)
<1> DEFINE S == Nat \ {0}
<1>1. s \in Seq(S)
  OBVIOUS
<1>2. /\ Front(s) \in Seq(S) /\ Len(Front(s)) = Len(s) - 1
      /\ Len(s) \in Nat \ {0} /\ Last(s) \in S /\ Last(s) = s[Len(s)]
  <2> HIDE DEF S
  <2> QED
    BY <1>1, FrontProperties
<1>3. s[Len(s)] \in Nat \ {0} /\ s[Len(s)] + 1 \in S
  BY <1>2
<1>4. /\ [s EXCEPT ![Len(s)] = s[Len(s)] + 1] \in Seq(S)
      /\ Len([s EXCEPT ![Len(s)] = s[Len(s)] + 1]) = Len(s)
  <2> HIDE DEF S
  <2>1. Len(s) \in 1..Len(s)
    BY <1>2
  <2> QED
    BY <1>1, <1>3, <2>1, ExceptSeq
<1>5. [s EXCEPT ![Len(s)] = s[Len(s)] + 1] # << >>
  BY <1>2, <1>4, EmptySeq
<1> QED
  BY <1>2, <1>4, <1>5

(****************************************************************************)
(* A way to the error node, with its last element retyped, is a path that   *)
(* reaches the error.                                                       *)
(****************************************************************************)
Reaches(gr, from, node, p) ==
    /\ IsChain(gr, p)
    /\ SubSeq(p, 1, Len(from)) = from
    /\ Last(p) = [type |-> "ERRORNODE", idx |-> node]
    /\ \A j \in 1..Len(p)-1 : p[j].type \in {"ALoop", "ANode"} /\ p[j] # ANode(node)

LEMMA SavedReaches ==
    ASSUME NEW gr \in Graphs, NEW from, IsWay(gr, from), NEW p, IsWay(gr, p),
           Len(from) < Len(p), \A a \in 1..Len(from) : p[a] = from[a],
           NEW node, Last(p) = ANode(node)
    PROVE  /\ [p EXCEPT ![Len(p)].type = "ERRORNODE"] \in Seq(Path)
           /\ Reaches(gr, from, node, [p EXCEPT ![Len(p)].type = "ERRORNODE"])
<1> DEFINE last == [type |-> "ERRORNODE", idx |-> node]
           q == [p EXCEPT ![Len(p)].type = "ERRORNODE"]
<1>1. /\ p \in Seq(Path) /\ p # << >> /\ Len(p) \in Nat \ {0} /\ Last(p) = p[Len(p)]
      /\ \A a \in 1..Len(p) : p[a] \in Elements(gr) /\ p[a].type \in {"ALoop", "ANode"}
  BY WayType
<1>2. from \in Seq(Path) /\ Len(from) \in Nat \ {0}
  BY WayType
<1>3. DOMAIN p = 1..Len(p) /\ Len(p) \in DOMAIN p
  BY <1>1, LenProperties
<1>4. p[Len(p)] = ANode(node) /\ node \in Nat
  <2>1. p[Len(p)] \in Path
    BY <1>1, <1>3, ElementOfSeq
  <2> QED
    BY <1>1, <2>1 DEF ANode, Path
<1>5. last \in Path
  BY <1>4 DEF Path, NodeType
<1>6. q = [p EXCEPT ![Len(p)] = last]
  <2>1. [p[Len(p)] EXCEPT !.type = "ERRORNODE"] = last
    BY <1>4 DEF ANode
  <2> HIDE DEF last
  <2> QED
    BY <2>1
<1> HIDE DEF last, q
<1>7. /\ q \in Seq(Path) /\ Len(q) = Len(p) /\ q[Len(p)] = last
      /\ \A a \in 1..Len(p)-1 : q[a] = p[a]
  <2>1. /\ q \in Seq(Path) /\ Len(q) = Len(p)
        /\ \A i \in 1..Len(p) : q[i] = IF i = Len(p) THEN last ELSE p[i]
    BY <1>1, <1>3, <1>5, <1>6, ExceptSeq
  <2>2. Len(p) \in 1..Len(p) /\ \A a \in 1..Len(p)-1 : a \in 1..Len(p) /\ a # Len(p)
    BY <1>1
  <2> QED
    BY <2>1, <2>2
<1>8. Last(q) = last
  BY <1>7 DEF Last
<1>9. NodesOf(gr, last) = NodesOf(gr, ANode(node))
  BY DEF last, NodesOf, ANode
<1>10. IsChain(gr, q)
  <2> SUFFICES ASSUME NEW a \in 1..Len(q)-1 PROVE Linked(gr, q[a], q[a+1])
    BY DEF IsChain
  <2>1. Linked(gr, p[a], p[a+1]) /\ q[a] = p[a]
    BY <1>7 DEF IsWay, IsChain
  <2>2. CASE a + 1 = Len(p)
    <3>1. Linked(gr, p[a], ANode(node)) /\ q[a+1] = last
      BY <1>4, <1>7, <2>1, <2>2
    <3> QED
      BY <1>9, <2>1, <3>1 DEF Linked
  <2>3. CASE a + 1 # Len(p)
    <3>1. a + 1 \in 1..Len(p)-1
      BY <1>1, <1>7, <2>3
    <3> QED
      BY <1>7, <2>1, <3>1
  <2> QED
    BY <2>2, <2>3
<1>11. SubSeq(q, 1, Len(from)) = from
  <2>1. Len(from) <= Len(q) /\ \A a \in 1..Len(from) : q[a] = from[a]
    BY <1>1, <1>2, <1>7
  <2> QED
    BY <1>2, <1>7, <2>1, FirstPart
<1>12. ASSUME NEW j \in 1..Len(q)-1
       PROVE  q[j].type \in {"ALoop", "ANode"} /\ q[j] # ANode(node)
  <2>1. j \in 1..Len(p) /\ j # Len(p) /\ q[j] = p[j]
    BY <1>1, <1>7
  <2>2. p[j] # p[Len(p)]
    <3> SUFFICES ASSUME p[j] = p[Len(p)] PROVE FALSE
      OBVIOUS
    <3>1. NodesOf(gr, p[j]) \cap NodesOf(gr, p[Len(p)]) # {}
      BY <1>4 DEF NodesOf, ANode
    <3> QED
      BY <1>3, <2>1, <3>1, NothingTwice
  <2> QED
    BY <1>1, <1>4, <2>1, <2>2
<1> QED
  BY <1>7, <1>8, <1>10, <1>11, <1>12 DEF Reaches, last, q

------------------------------------------------------------------------------
(****************************************************************************)
(* What the invariant says of the state a step starts from.                 *)
(****************************************************************************)
LEMMA InvFacts ==
    ASSUME Inv
    PROVE  /\ g \in Graphs /\ IsWay(g, start) /\ IsWay(g, v) /\ TypeOK
           /\ Len(start) \in Nat \ {0} /\ Len(v) \in Nat \ {0} /\ Len(next) \in Nat \ {0}
           /\ v \in Seq(Path) /\ Last(v) = v[Len(v)] /\ Last(v) \in Elements(g)
           /\ \A a \in 1..Len(start) : v[a] = start[a]
           /\ Len(v) + 1 = Len(start) + Len(next)
           /\ Last(start).type = "ALoop" /\ Last(start) = start[Len(start)]
           /\ \A i \in DOMAIN paths : Reaches(g, start, assertNodeIdx, paths[i])
<1>1. /\ g \in Graphs /\ IsWay(g, start) /\ IsWay(g, v) /\ TypeOK /\ Last(start).type = "ALoop"
      /\ \A a \in 1..Len(start) : v[a] = start[a]
      /\ Len(v) + 1 = Len(start) + Len(next)
  BY DEF Inv
<1>2. /\ Len(start) \in Nat \ {0} /\ Len(v) \in Nat \ {0} /\ v \in Seq(Path)
      /\ Last(v) = v[Len(v)] /\ Last(start) = start[Len(start)]
      /\ \A a \in 1..Len(v) : v[a] \in Elements(g)
  BY <1>1, WayType
<1>3. Len(next) \in Nat \ {0}
  BY <1>1, CounterFacts DEF TypeOK
<1>4. \A i \in DOMAIN paths : Reaches(g, start, assertNodeIdx, paths[i])
  BY DEF Inv, PathsReachError, Reaches
<1> QED
  BY <1>1, <1>2, <1>3, <1>4

(****************************************************************************)
(* A step that takes the last element off v, as all that return do.         *)
(****************************************************************************)
LEMMA PopKeepsWay ==
    ASSUME Inv, Len(next) > 1
    PROVE  /\ IsWay(g, Front(v)) /\ Front(v) \in Seq(Path) \ {<< >>}
           /\ Front(next) \in Seq(Nat \ {0}) \ {<< >>}
           /\ Len(Front(v)) + 1 = Len(start) + Len(Front(next))
           /\ \A a \in 1..Len(start) : Front(v)[a] = start[a]
<1>1. Len(v) > Len(start) /\ Len(v) > 1
  BY InvFacts
<1>2. IsWay(g, Front(v)) /\ v \in Seq(Path) /\ v # << >>
  BY <1>1, InvFacts, ShorterWay DEF TypeOK
<1>3. Len(Front(v)) = Len(v) - 1 /\ \A a \in 1..Len(v)-1 : Front(v)[a] = v[a]
  BY <1>2, FrontProperties
<1>4. Front(next) \in Seq(Nat \ {0}) /\ Len(Front(next)) = Len(next) - 1
  BY InvFacts, CounterFacts DEF TypeOK
<1>5. Front(next) # << >>
  BY <1>4, EmptySeq
<1>6. ASSUME NEW a \in 1..Len(start) PROVE Front(v)[a] = start[a]
  <2>1. a \in 1..Len(v)-1
    BY <1>1, InvFacts
  <2> QED
    BY <1>3, <2>1, InvFacts
<1>7. Len(Front(v)) + 1 = Len(start) + Len(Front(next))
  BY <1>3, <1>4, InvFacts
<1>8. Front(v) \in Seq(Path) \ {<< >>}
  BY <1>2, InvFacts, WayType
<1> QED
  BY <1>2, <1>4, <1>5, <1>6, <1>7, <1>8

LEMMA ReachErrorInv == Inv /\ ReachError => Inv'
<1> SUFFICES ASSUME Inv, ReachError PROVE Inv'
  OBVIOUS
<1> DEFINE saved == [v EXCEPT ![Len(v)].type = "ERRORNODE"]
<1>1. /\ paths' = Append(paths, saved) /\ v' = Front(v) /\ next' = Front(next)
      /\ g' = g /\ start' = start /\ assertNodeIdx' = assertNodeIdx /\ pc' = pc
      /\ Last(v) = ANode(assertNodeIdx)
  BY DEF ReachError, AtError
<1>2. Len(next) > 1
  <2>1. Len(next) \in Nat \ {0}
    BY InvFacts
  <2>2. ASSUME Len(next) = 1 PROVE FALSE
    <3>1. Last(v) = Last(start)
      BY <2>2, InvFacts
    <3> QED
      BY <1>1, <3>1, InvFacts DEF ANode
  <2>3. \A n \in Nat \ {0} : n = 1 \/ n > 1
    OBVIOUS
  <2> QED
    BY ONLY <2>1, <2>2, <2>3
<1>3. saved \in Seq(Path) /\ Reaches(g, start, assertNodeIdx, saved)
  <2>1. Len(start) < Len(v)
    BY <1>2, InvFacts
  <2> QED
    BY <1>1, <2>1, InvFacts, SavedReaches
<1> HIDE DEF saved
<1>4. /\ paths \in Seq(Seq(Path)) /\ paths' \in Seq(Seq(Path)) /\ Len(paths) \in Nat
      /\ Len(paths') = Len(paths) + 1 /\ paths'[Len(paths) + 1] = saved
      /\ \A i \in 1..Len(paths) : paths'[i] = paths[i]
  BY <1>1, <1>3, InvFacts, AppendProperties, LenProperties DEF TypeOK
<1>5. DOMAIN paths = 1..Len(paths) /\ DOMAIN paths' = 1..Len(paths) + 1
  BY <1>4, LenProperties
<1>6. \A i \in DOMAIN paths' : Reaches(g, start, assertNodeIdx, paths'[i])
  <2> SUFFICES ASSUME NEW i \in 1..Len(paths) + 1
               PROVE  Reaches(g, start, assertNodeIdx, paths'[i])
    BY <1>5
  <2>1. CASE i = Len(paths) + 1
    BY <1>3, <1>4, <2>1
  <2>2. CASE i # Len(paths) + 1
    <3>1. i \in DOMAIN paths /\ paths'[i] = paths[i]
      BY <1>4, <1>5, <2>2
    <3> QED
      BY <3>1, InvFacts
  <2> QED
    BY <2>1, <2>2
<1>7. PathsReachError'
  BY <1>1, <1>6 DEF PathsReachError, Reaches
<1>8. TypeOK'
  BY <1>1, <1>2, <1>4, InvFacts, PopKeepsWay DEF TypeOK
<1>9. /\ IsWay(g, v') /\ Len(v') + 1 = Len(start) + Len(next')
      /\ \A a \in 1..Len(start) : v'[a] = start[a]
  BY <1>1, <1>2, PopKeepsWay
<1> QED
  BY <1>1, <1>7, <1>8, <1>9, InvFacts DEF Inv

LEMMA BackUpInv == Inv /\ BackUp => Inv'
<1> SUFFICES ASSUME Inv, BackUp PROVE Inv'
  OBVIOUS
<1>1. /\ v' = Front(v) /\ next' = Front(next) /\ Len(next) > 1
      /\ paths' = paths /\ g' = g /\ start' = start /\ assertNodeIdx' = assertNodeIdx
      /\ pc' = pc
  BY DEF BackUp
<1>2. PathsReachError'
  BY <1>1 DEF Inv, PathsReachError
<1>3. TypeOK'
  BY <1>1, InvFacts, PopKeepsWay DEF TypeOK
<1>4. /\ IsWay(g, v') /\ Len(v') + 1 = Len(start) + Len(next')
      /\ \A a \in 1..Len(start) : v'[a] = start[a]
  BY <1>1, PopKeepsWay
<1> QED
  BY <1>1, <1>2, <1>3, <1>4, InvFacts DEF Inv

LEMMA SkipLoopChildInv == Inv /\ SkipLoopChild => Inv'
<1> SUFFICES ASSUME Inv, SkipLoopChild PROVE Inv'
  OBVIOUS
<1>1. /\ next' = Bump /\ v' = v
      /\ paths' = paths /\ g' = g /\ start' = start /\ assertNodeIdx' = assertNodeIdx
      /\ pc' = pc
  BY DEF SkipLoopChild
<1>2. Bump \in Seq(Nat \ {0}) \ {<< >>} /\ Len(Bump) = Len(next)
  BY InvFacts, CounterFacts DEF TypeOK, Bump
<1>3. TypeOK'
  BY <1>1, <1>2, InvFacts DEF TypeOK
<1>4. PathsReachError'
  BY <1>1 DEF Inv, PathsReachError
<1> QED
  BY <1>1, <1>2, <1>3, <1>4, InvFacts DEF Inv

(****************************************************************************)
(* A loop is never left to itself, nor is any other element than a node.    *)
(****************************************************************************)
LEMMA ChildLeadsOn ==
    ASSUME Inv, Last(next) <= Len(CurrentChilds), ~InSameLoop
    PROVE  Element(g, Child) \in Elements(g) /\ LeadsOn(g, Last(v), Element(g, Child))
<1> DEFINE e == Last(v)
<1>1. e \in Elements(g) /\ g \in Graphs
  BY InvFacts
<1>2. Last(next) \in Nat \ {0}
  BY InvFacts, CounterFacts DEF TypeOK
<1>3. CurrentChilds \in Seq(Nat) /\ Last(next) \in DOMAIN CurrentChilds
  BY <1>1, <1>2, ChildFacts, LenProperties DEF CurrentChilds
<1>4. Child \in ToSet(Childs(g, e))
  BY <1>3 DEF Child, CurrentChilds, ToSet
<1>5. Child \in DOMAIN g.CFGNodeVec /\ Linked(g, e, Element(g, Child))
  BY <1>1, <1>4, ChildFacts
<1>6. e # Element(g, Child) \/ e.type = "ANode"
  <2> SUFFICES ASSUME e = Element(g, Child), e.type # "ANode" PROVE FALSE
    OBVIOUS
  <2>1. /\ g.CFGNodeVec[Child].isLoopNode
        /\ e = ALoop(g.CFGNodeVec[Child].LCSSAIndex)
    BY <1>1, <1>5, ElementFacts DEF ANode
  <2> QED
    BY <2>1 DEF InSameLoop, ALoop
<1> QED
  BY <1>1, <1>5, <1>6, ElementFacts DEF LeadsOn

LEMMA DescendInv == Inv /\ Descend => Inv'
<1> SUFFICES ASSUME Inv, Descend PROVE Inv'
  OBVIOUS
<1> DEFINE f == Element(g, Child)
<1>1. /\ v' = Append(v, f) /\ next' = Append(Bump, 1)
      /\ paths' = paths /\ g' = g /\ start' = start /\ assertNodeIdx' = assertNodeIdx
      /\ pc' = pc
  BY DEF Descend
<1>2. f \in Elements(g) /\ LeadsOn(g, Last(v), f)
  BY ChildLeadsOn DEF Descend
<1> HIDE DEF f
<1>3. IsWay(g, v') /\ v' \in Seq(Path) \ {<< >>}
  <2>1. IsWay(g, Append(v, f))
    BY <1>2, InvFacts, LongerWay
  <2> QED
    BY <1>1, <2>1, InvFacts, WayType
<1>4. Len(v') = Len(v) + 1 /\ \A a \in 1..Len(start) : v'[a] = start[a]
  <2>1. v \in Seq(Elements(g))
    BY InvFacts DEF IsWay
  <2>2. Len(v') = Len(v) + 1 /\ \A a \in 1..Len(v) : v'[a] = v[a]
    BY <1>1, <1>2, <2>1, AppendProperties
  <2>3. \A a \in 1..Len(start) : a \in 1..Len(v)
    BY InvFacts
  <2> QED
    BY <2>2, <2>3, InvFacts
<1>5. next' \in Seq(Nat \ {0}) \ {<< >>} /\ Len(next') = Len(next) + 1
  <2>1. Bump \in Seq(Nat \ {0}) /\ Len(Bump) = Len(next)
    BY InvFacts, CounterFacts DEF TypeOK, Bump
  <2> QED
    BY <1>1, <2>1, AppendProperties
<1>6. TypeOK'
  BY <1>1, <1>3, <1>5, InvFacts DEF TypeOK
<1>7. PathsReachError'
  BY <1>1 DEF Inv, PathsReachError
<1>8. Len(v') + 1 = Len(start) + Len(next')
  <2>1. /\ Len(v) + 1 = Len(start) + Len(next)
        /\ Len(v) \in Nat /\ Len(start) \in Nat /\ Len(next) \in Nat
    BY InvFacts
  <2> QED
    BY <1>4, <1>5, <2>1
<1> QED
  BY <1>1, <1>3, <1>4, <1>6, <1>7, <1>8, InvFacts DEF Inv

LEMMA NextInv == Inv /\ [Next]_vars => Inv'
<1> SUFFICES ASSUME Inv, [Next]_vars PROVE Inv'
  OBVIOUS
<1>1. CASE Finish
  <2>1. /\ v' = v /\ next' = next /\ paths' = paths /\ g' = g /\ start' = start
        /\ assertNodeIdx' = assertNodeIdx /\ pc' = "done"
    BY <1>1 DEF Finish
  <2> QED
    BY <2>1 DEF Inv, TypeOK, PathsReachError
<1>2. CASE UNCHANGED vars
  BY <1>2 DEF vars, Inv, TypeOK, PathsReachError
<1> QED
  BY <1>1, <1>2, ReachErrorInv, SkipLoopChildInv, DescendInv, BackUpInv DEF Next, Terminated

------------------------------------------------------------------------------
(****************************************************************************)
(* The inductive invariant holds throughout the search.                     *)
(****************************************************************************)
THEOREM Invariance == Spec => []Inv
<1> QED
  BY InitInv, NextInv, PTL DEF Spec

(****************************************************************************)
(* The path in progress of collectVerifyPathErrInNode is a real one, with   *)
(* its start kept and no block on it twice, in every graph.                 *)
(****************************************************************************)
THEOREM PathInProgress == Spec => []PathInProgressIsReal
<1> QED
  BY Invariance, InvIsReal, PTL

(****************************************************************************)
(* What collectVerifyPathErrInNode saves are paths that end in the error    *)
(* node and pass it nowhere before.                                         *)
(****************************************************************************)
THEOREM SavedPathsReachError == Spec => []PathsReachError
<1>1. Inv => PathsReachError
  BY DEF Inv
<1> QED
  BY <1>1, Invariance, PTL

------------------------------------------------------------------------------
(****************************************************************************)
(* The search as a function.  A call with the path p saves, in the order of *)
(* the children, what the calls for them save, and nothing for a child in   *)
(* the loop that is left.                                                   *)
(****************************************************************************)
Ways(gr) == Seq(Elements(gr)) \ {<< >>}

Stays(gr, p, n) == Last(p).type = "ALoop" /\ Element(gr, n) = Last(p)

Piece(gr, f, p, j) ==
    IF Stays(gr, p, Childs(gr, Last(p))[j]) THEN << >>
    ELSE f[Append(p, Element(gr, Childs(gr, Last(p))[j]))]

Body(gr, a, f, p) ==
    IF Last(p) = ANode(a)
    THEN <<[p EXCEPT ![Len(p)].type = "ERRORNODE"]>>
    ELSE FlattenSeq([j \in DOMAIN Childs(gr, Last(p)) |-> Piece(gr, f, p, j)])

IsSearch(gr, a, f) == f = [p \in Ways(gr) |-> Body(gr, a, f, p)]

(****************************************************************************)
(* ErrPathsInNode is this function at the path the search starts from.      *)
(****************************************************************************)
LEMMA ErrPathsAreSearch ==
    ASSUME NEW gr, NEW from, NEW a
    PROVE  ErrPathsInNode(gr, from, a) = (CHOOSE f : IsSearch(gr, a, f))[from]
BY DEF ErrPathsInNode, IsSearch, Body, Piece, Stays, Ways

(****************************************************************************)
(* What a way ends with, and the way that a child makes of it.              *)
(****************************************************************************)
LEMMA WayEnds ==
    ASSUME NEW gr \in Graphs, NEW p \in Ways(gr)
    PROVE  /\ Last(p) \in Elements(gr) /\ Last(p).type \in {"ALoop", "ANode"}
           /\ p \in Seq(Path) /\ Len(p) \in Nat \ {0} /\ Last(p) = p[Len(p)]
           /\ Childs(gr, Last(p)) \in Seq(Nat)
           /\ DOMAIN Childs(gr, Last(p)) = 1..Len(Childs(gr, Last(p)))
           /\ Len(Childs(gr, Last(p))) \in Nat
<1>1. p \in Seq(Elements(gr)) /\ p # << >>
  BY DEF Ways
<1>2. Last(p) \in Elements(gr) /\ Len(p) \in Nat \ {0} /\ Last(p) = p[Len(p)]
  BY <1>1, FrontProperties
<1>3. ASSUME NEW e \in Elements(gr) PROVE e \in Path /\ e.type \in {"ALoop", "ANode"}
  <2>1. PICK n \in DOMAIN gr.CFGNodeVec : e = Element(gr, n)
    BY DEF Elements
  <2> QED
    BY <2>1, ElementFacts DEF ALoop, ANode
<1>4. p \in Seq(Path)
  <2>1. Elements(gr) \subseteq Path
    BY <1>3
  <2> QED
    BY <1>1, <2>1, SeqMonotonic
<1>5. Childs(gr, Last(p)) \in Seq(Nat)
  BY <1>2, ChildFacts
<1> QED
  BY <1>2, <1>3, <1>4, <1>5, LenProperties

LEMMA ChildWay ==
    ASSUME NEW gr \in Graphs, NEW p \in Ways(gr), NEW j \in DOMAIN Childs(gr, Last(p)),
           ~Stays(gr, p, Childs(gr, Last(p))[j])
    PROVE  LET e == Element(gr, Childs(gr, Last(p))[j])
           IN  /\ e \in Elements(gr)
               /\ LeadsOn(gr, Last(p), e)
               /\ Append(p, e) \in Ways(gr)
               /\ Last(Append(p, e)) = e
               /\ Len(Append(p, e)) = Len(p) + 1
<1> DEFINE c == Childs(gr, Last(p))[j]
           e == Element(gr, c)
<1>1. /\ Last(p) \in Elements(gr) /\ Last(p).type \in {"ALoop", "ANode"}
      /\ p \in Seq(Elements(gr))
  BY WayEnds DEF Ways
<1>2. c \in ToSet(Childs(gr, Last(p)))
  BY DEF ToSet
<1>3. c \in DOMAIN gr.CFGNodeVec /\ Linked(gr, Last(p), e)
  BY <1>1, <1>2, ChildFacts
<1>4. e \in Elements(gr)
  BY <1>3, ElementFacts
<1>5. e # Last(p) \/ Last(p).type = "ANode"
  BY <1>1 DEF Stays
<1> HIDE DEF e
<1>6. LeadsOn(gr, Last(p), e)
  BY <1>3, <1>5 DEF LeadsOn, e
<1>7. /\ Append(p, e) \in Seq(Elements(gr)) /\ Append(p, e) # << >>
      /\ Len(Append(p, e)) = Len(p) + 1 /\ Append(p, e)[Len(p) + 1] = e
  BY <1>1, <1>4, AppendProperties
<1>8. Last(Append(p, e)) = e
  BY <1>7 DEF Last
<1> QED
  BY <1>4, <1>6, <1>7, <1>8 DEF Ways, e

(****************************************************************************)
(* The body looks at ways to lower elements only.                           *)
(****************************************************************************)
Lower(gr, q, p) == Height(gr)[Last(q)] < Height(gr)[Last(p)]

LEMMA BodyAgrees ==
    ASSUME NEW gr \in Graphs, NEW a, NEW p \in Ways(gr), NEW f, NEW h,
           \A q \in Ways(gr) : Lower(gr, q, p) => f[q] = h[q]
    PROVE  Body(gr, a, f, p) = Body(gr, a, h, p)
<1>1. ASSUME NEW j \in DOMAIN Childs(gr, Last(p))
      PROVE  Piece(gr, f, p, j) = Piece(gr, h, p, j)
  <2>1. CASE Stays(gr, p, Childs(gr, Last(p))[j])
    BY <2>1 DEF Piece
  <2>2. CASE ~Stays(gr, p, Childs(gr, Last(p))[j])
    <3> DEFINE e == Element(gr, Childs(gr, Last(p))[j])
               q == Append(p, e)
    <3>1. e \in Elements(gr) /\ LeadsOn(gr, Last(p), e) /\ q \in Ways(gr) /\ Last(q) = e
      BY <2>2, ChildWay
    <3>2. Lower(gr, q, p)
      BY <3>1, WayEnds, HeightFalls DEF Lower
    <3>3. f[q] = h[q]
      BY <3>1, <3>2
    <3> QED
      BY <2>2, <3>3 DEF Piece
  <2> QED
    BY <2>1, <2>2
<1>2. [j \in DOMAIN Childs(gr, Last(p)) |-> Piece(gr, f, p, j)] =
      [j \in DOMAIN Childs(gr, Last(p)) |-> Piece(gr, h, p, j)]
  BY <1>1
<1> QED
  BY <1>2 DEF Body

(****************************************************************************)
(* There is a search function: it can be built up from the lowest elements, *)
(* because the heights fall from a call to the calls it makes.              *)
(****************************************************************************)
SearchesBelow(gr, a, m, f) ==
    \A p \in Ways(gr) : Height(gr)[Last(p)] < m => f[p] = Body(gr, a, f, p)

LEMMA SearchExists ==
    ASSUME NEW gr \in Graphs, NEW a
    PROVE  \E f : IsSearch(gr, a, f)
<1> DEFINE height == Height(gr)
           S == {m \in Nat : \E f : SearchesBelow(gr, a, m, f)}
<1>1. \A p \in Ways(gr) : height[Last(p)] \in Nat
  BY WayEnds, HeightFalls
<1>2. 0 \in S
  <2>1. \A p \in Ways(gr) : ~ (height[Last(p)] < 0)
    <3> HIDE DEF height
    <3> QED
      BY <1>1
  <2>2. SearchesBelow(gr, a, 0, << >>)
    BY <2>1 DEF SearchesBelow
  <2> QED
    BY <2>2
<1>3. ASSUME NEW m \in Nat, m \in S PROVE m + 1 \in S
  <2>1. PICK f : SearchesBelow(gr, a, m, f)
    BY <1>3
  <2> DEFINE h == [p \in Ways(gr) |-> IF height[Last(p)] < m THEN f[p] ELSE Body(gr, a, f, p)]
  <2>2. \A p \in Ways(gr) : height[Last(p)] < m => h[p] = f[p]
    OBVIOUS
  <2>3. ASSUME NEW p \in Ways(gr), height[Last(p)] < m + 1
        PROVE  h[p] = Body(gr, a, f, p)
    <3>1. CASE height[Last(p)] < m
      <4>1. f[p] = Body(gr, a, f, p)
        BY <2>1, <3>1 DEF SearchesBelow
      <4> QED
        BY <2>2, <3>1, <4>1
    <3>2. CASE ~ (height[Last(p)] < m)
      BY <3>2
    <3> QED
      BY <3>1, <3>2
  <2> HIDE DEF h
  <2>4. ASSUME NEW p \in Ways(gr), height[Last(p)] < m + 1
        PROVE  Body(gr, a, f, p) = Body(gr, a, h, p)
    <3>1. ASSUME NEW q \in Ways(gr), Lower(gr, q, p) PROVE f[q] = h[q]
      <4>1. height[Last(q)] < height[Last(p)]
        BY <3>1 DEF Lower
      <4>2. height[Last(q)] < m
        <5> HIDE DEF height
        <5> QED
          BY <1>1, <2>4, <4>1
      <4> QED
        BY <2>2, <4>2
    <3> QED
      BY <3>1, BodyAgrees
  <2>5. SearchesBelow(gr, a, m + 1, h)
    BY <2>3, <2>4 DEF SearchesBelow
  <2> QED
    BY <2>5
<1> HIDE DEF S
<1>4. Nat \subseteq S
  BY <1>2, <1>3, Inductive
<1>5. PICK N \in Nat : \A e \in Elements(gr) : height[e] < N
  BY HeightBound
<1>6. PICK f : SearchesBelow(gr, a, N, f)
  BY <1>4 DEF S
<1>7. \A p \in Ways(gr) : f[p] = Body(gr, a, f, p)
  BY <1>5, <1>6, WayEnds DEF SearchesBelow
<1> DEFINE h == [p \in Ways(gr) |-> f[p]]
<1>8. \A p \in Ways(gr) : h[p] = f[p]
  OBVIOUS
<1>9. h = [p \in Ways(gr) |-> h[p]]
  OBVIOUS
<1> HIDE DEF h
<1>10. \A p \in Ways(gr) : h[p] = Body(gr, a, h, p)
  BY <1>7, <1>8, BodyAgrees
<1>11. IsSearch(gr, a, h)
  BY <1>9, <1>10 DEF IsSearch
<1> QED
  BY <1>11

(****************************************************************************)
(* What a call saves is what its first children save and then the rest.     *)
(****************************************************************************)
Pieces(gr, f, p) == [j \in DOMAIN Childs(gr, Last(p)) |-> Piece(gr, f, p, j)]

Found(gr, f, p, c) == FlattenSeq(First(Pieces(gr, f, p), c))

LEMMA SearchIsBody ==
    ASSUME NEW gr \in Graphs, NEW a, NEW f, IsSearch(gr, a, f), NEW p \in Ways(gr)
    PROVE  IF Last(p) = ANode(a)
           THEN f[p] = <<[p EXCEPT ![Len(p)].type = "ERRORNODE"]>>
           ELSE f[p] = Found(gr, f, p, Len(Childs(gr, Last(p))))
<1>1. f[p] = Body(gr, a, f, p)
  BY DEF IsSearch
<1>2. DOMAIN Childs(gr, Last(p)) = 1..Len(Childs(gr, Last(p)))
  BY WayEnds
<1>3. Pieces(gr, f, p) = First(Pieces(gr, f, p), Len(Childs(gr, Last(p))))
  BY <1>2 DEF Pieces, First
<1> QED
  BY <1>1, <1>3 DEF Body, Found, Pieces

(****************************************************************************)
(* It saves sequences of paths.                                             *)
(****************************************************************************)
LEMMA SearchType ==
    ASSUME NEW gr \in Graphs, NEW a, NEW f, IsSearch(gr, a, f)
    PROVE  /\ \A p \in Ways(gr) : f[p] \in Seq(Seq(Path))
           /\ \A p \in Ways(gr) : \A j \in DOMAIN Childs(gr, Last(p)) :
                 Pieces(gr, f, p)[j] = Piece(gr, f, p, j) /\ Piece(gr, f, p, j) \in Seq(Seq(Path))
<1> DEFINE height == Height(gr)
           S == {m \in Nat : \A p \in Ways(gr) : height[Last(p)] < m => f[p] \in Seq(Seq(Path))}
<1>1. \A p \in Ways(gr) : height[Last(p)] \in Nat
  BY WayEnds, HeightFalls
<1>2. 0 \in S
  <2> HIDE DEF height
  <2> QED
    BY <1>1
<1>3. ASSUME NEW p \in Ways(gr), NEW j \in DOMAIN Childs(gr, Last(p)),
             \A q \in Ways(gr) : Lower(gr, q, p) => f[q] \in Seq(Seq(Path))
      PROVE  Piece(gr, f, p, j) \in Seq(Seq(Path))
  <2>1. CASE Stays(gr, p, Childs(gr, Last(p))[j])
    BY <2>1, EmptySeq DEF Piece
  <2>2. CASE ~Stays(gr, p, Childs(gr, Last(p))[j])
    <3> DEFINE e == Element(gr, Childs(gr, Last(p))[j])
               q == Append(p, e)
    <3>1. e \in Elements(gr) /\ LeadsOn(gr, Last(p), e) /\ q \in Ways(gr) /\ Last(q) = e
      BY <2>2, ChildWay
    <3>2. Lower(gr, q, p)
      BY <3>1, WayEnds, HeightFalls DEF Lower
    <3> QED
      BY <1>3, <2>2, <3>1, <3>2 DEF Piece
  <2> QED
    BY <2>1, <2>2
<1>4. ASSUME NEW m \in Nat, m \in S PROVE m + 1 \in S
  <2> SUFFICES ASSUME NEW p \in Ways(gr), height[Last(p)] < m + 1
               PROVE  f[p] \in Seq(Seq(Path))
    OBVIOUS
  <2>1. CASE Last(p) = ANode(a)
    <3> DEFINE r == [p EXCEPT ![Len(p)].type = "ERRORNODE"]
    <3>1. r \in Seq(Path)
      <4>1. p \in Seq(Path) /\ Len(p) \in 1..Len(p) /\ p[Len(p)] \in Path
        BY WayEnds, ElementOfSeq
      <4> DEFINE last == [p[Len(p)] EXCEPT !.type = "ERRORNODE"]
      <4>2. last \in Path
        BY <4>1 DEF Path, NodeType
      <4>3. r = [p EXCEPT ![Len(p)] = last]
        BY <4>1
      <4> HIDE DEF last
      <4> QED
        BY <4>1, <4>2, <4>3, ExceptSeq
    <3>2. f[p] = <<r>>
      BY <2>1, SearchIsBody
    <3> HIDE DEF r
    <3>3. <<r>> \in Seq(Seq(Path))
      <4> DEFINE T == Seq(Path)
      <4>1. r \in T
        BY <3>1
      <4> HIDE DEF T
      <4>2. <<r>> \in Seq(T)
        BY <4>1
      <4> QED
        BY <4>2 DEF T
    <3> QED
      BY <3>2, <3>3
  <2>2. CASE Last(p) # ANode(a)
    <3> DEFINE n == Len(Childs(gr, Last(p)))
               F == Pieces(gr, f, p)
    <3>1. DOMAIN Childs(gr, Last(p)) = 1..n /\ n \in Nat
      BY WayEnds
    <3>2. \A q \in Ways(gr) : Lower(gr, q, p) => f[q] \in Seq(Seq(Path))
      <4> SUFFICES ASSUME NEW q \in Ways(gr), Lower(gr, q, p) PROVE f[q] \in Seq(Seq(Path))
        OBVIOUS
      <4>1. height[Last(q)] < height[Last(p)]
        BY DEF Lower
      <4>2. height[Last(q)] < m
        <5> HIDE DEF height
        <5> QED
          BY <1>1, <4>1
      <4> QED
        BY <1>4, <4>2
    <3>3. \A j \in 1..n : F[j] \in Seq(Seq(Path))
      BY <1>3, <3>1, <3>2 DEF Pieces
    <3>4. f[p] = FlattenSeq(First(F, n))
      BY <2>2, SearchIsBody DEF Found
    <3> HIDE DEF F, n
    <3>5. FlattenSeq(First(F, n)) \in Seq(Seq(Path))
      BY <3>1, <3>3, FlattenMembers
    <3> QED
      BY <3>4, <3>5
  <2> QED
    BY <2>1, <2>2
<1> HIDE DEF S
<1>5. Nat \subseteq S
  BY <1>2, <1>4, Inductive
<1>6. ASSUME NEW p \in Ways(gr) PROVE f[p] \in Seq(Seq(Path))
  <2>1. height[Last(p)] \in Nat
    BY <1>1
  <2>2. height[Last(p)] + 1 \in S /\ height[Last(p)] < height[Last(p)] + 1
    <3> HIDE DEF height
    <3> QED
      BY <1>5, <2>1
  <2> QED
    BY <2>2 DEF S
<1> QED
  BY <1>3, <1>6 DEF Pieces

------------------------------------------------------------------------------
(****************************************************************************)
(* The calls in progress: each but the last is at the child that the next   *)
(* one was called for, none but the last stands on the error node, and that *)
(* one has tried no child if it does.                                       *)
(****************************************************************************)
Caller(d) == Len(start) + d - 1     \* the place of its element in v

AtChild(e, c) ==
    /\ c > 1 /\ c - 1 <= Len(Childs(g, e))
    /\ ~(e.type = "ALoop" /\ Element(g, Childs(g, e)[c-1]) = e)
    /\ e # ANode(assertNodeIdx)

CallsInv ==
    /\ \A d \in 1..Len(next)-1 :
          /\ AtChild(v[Caller(d)], next[d])
          /\ v[Caller(d) + 1] = Element(g, Childs(g, v[Caller(d)])[next[d]-1])
    /\ Last(next) <= Len(CurrentChilds) + 1
    /\ AtError => Last(next) = 1
    /\ pc = "done" => Len(next) = 1 /\ ~AtError /\ Last(next) > Len(CurrentChilds)

LEMMA CallFacts ==
    ASSUME Inv
    PROVE  /\ Len(next) \in Nat \ {0} /\ next \in Seq(Nat \ {0})
           /\ Len(v) = Caller(Len(next)) /\ Len(start) \in Nat \ {0}
           /\ Last(next) = next[Len(next)] /\ Last(v) = v[Caller(Len(next))]
           /\ \A d \in 1..Len(next) :
                 /\ Caller(d) \in 1..Len(v)
                 /\ v[Caller(d)] \in Elements(g)
                 /\ next[d] \in Nat \ {0}
                 /\ Childs(g, v[Caller(d)]) \in Seq(Nat)
                 /\ Len(Childs(g, v[Caller(d)])) \in Nat
<1>1. /\ g \in Graphs /\ IsWay(g, v) /\ Len(start) \in Nat \ {0} /\ Len(v) \in Nat \ {0}
      /\ Len(next) \in Nat \ {0} /\ Last(v) = v[Len(v)] /\ Len(v) + 1 = Len(start) + Len(next)
  BY InvFacts
<1>2. next \in Seq(Nat \ {0}) /\ next # << >>
  BY DEF Inv, TypeOK
<1>3. Len(v) = Caller(Len(next))
  BY <1>1 DEF Caller
<1>4. \A d \in 1..Len(next) : next[d] \in Nat \ {0}
  <2> DEFINE S == Nat \ {0}
  <2>1. next \in Seq(S)
    BY <1>2
  <2> HIDE DEF S
  <2>2. \A d \in 1..Len(next) : next[d] \in S
    BY <2>1, ElementOfSeq
  <2> QED
    BY <2>2 DEF S
<1>5. ASSUME NEW d \in 1..Len(next)
      PROVE  /\ Caller(d) \in 1..Len(v)
             /\ v[Caller(d)] \in Elements(g)
             /\ Childs(g, v[Caller(d)]) \in Seq(Nat)
             /\ Len(Childs(g, v[Caller(d)])) \in Nat
  <2>1. Caller(d) \in 1..Len(v)
    BY <1>1 DEF Caller
  <2>2. v[Caller(d)] \in Elements(g)
    BY <1>1, <2>1, WayType
  <2> QED
    BY <1>1, <2>1, <2>2, ChildFacts, LenProperties
<1> QED
  BY <1>1, <1>2, <1>3, <1>4, <1>5 DEF Last

(****************************************************************************)
(* What a return leaves of the vector and of the counters.                  *)
(****************************************************************************)
LEMMA PopFacts ==
    ASSUME Inv, Len(next) > 1
    PROVE  /\ Len(Front(next)) = Len(next) - 1
           /\ \A d \in 1..Len(next)-1 :
                 /\ Front(next)[d] = next[d]
                 /\ Front(v)[Caller(d)] = v[Caller(d)]
           /\ Last(Front(next)) = next[Len(next)-1]
           /\ Last(Front(v)) = v[Caller(Len(next)-1)]
<1>1. /\ v \in Seq(Path) /\ v # << >> /\ next \in Seq(Nat \ {0}) /\ next # << >>
  BY DEF Inv, TypeOK
<1>2. Len(Front(v)) = Len(v) - 1 /\ \A a \in 1..Len(v)-1 : Front(v)[a] = v[a]
  BY <1>1, FrontProperties
<1>3. Len(Front(next)) = Len(next) - 1 /\ \A a \in 1..Len(next)-1 : Front(next)[a] = next[a]
  <2> DEFINE S == Nat \ {0}
  <2>1. next \in Seq(S)
    BY <1>1
  <2> HIDE DEF S
  <2> QED
    BY <1>1, <2>1, FrontProperties
<1>4. \A d \in 1..Len(next)-1 : Caller(d) \in 1..Len(v)-1
  BY CallFacts, SMTT(30) DEF Caller
<1>5. Len(next) - 1 \in 1..Len(next)-1 /\ Len(v) - 1 = Caller(Len(next) - 1)
  BY CallFacts DEF Caller
<1>6. Last(Front(next)) = next[Len(next)-1] /\ Last(Front(v)) = v[Caller(Len(next)-1)]
  BY <1>2, <1>3, <1>4, <1>5 DEF Last
<1> QED
  BY <1>2, <1>3, <1>4, <1>6

LEMMA PopKeepsCalls ==
    ASSUME Inv, CallsInv, Len(next) > 1, pc = "search", pc' = pc, g' = g, start' = start,
           assertNodeIdx' = assertNodeIdx, v' = Front(v), next' = Front(next)
    PROVE  CallsInv'
<1> DEFINE n == Len(next)
<1>1. /\ Len(next') = n - 1 /\ n \in Nat \ {0}
      /\ \A d \in 1..n-1 : next'[d] = next[d] /\ v'[Caller(d)] = v[Caller(d)]
      /\ Last(next') = next[n-1] /\ Last(v') = v[Caller(n-1)]
  BY PopFacts, CallFacts
<1> HIDE DEF n
<1>2. \A d \in 1..n-1 :
         /\ AtChild(v[Caller(d)], next[d])
         /\ v[Caller(d) + 1] = Element(g, Childs(g, v[Caller(d)])[next[d]-1])
  BY DEF CallsInv, n
<1>3. \A d : Caller(d)' = Caller(d)
  BY DEF Caller
<1>4. ASSUME NEW d \in 1..Len(next')-1
      PROVE  /\ AtChild(v'[Caller(d)], next'[d])
             /\ v'[Caller(d) + 1] = Element(g, Childs(g, v'[Caller(d)])[next'[d]-1])
  <2>1. d \in 1..n-1 /\ d + 1 \in 1..n-1
    BY <1>1
  <2>2. Caller(d) + 1 = Caller(d + 1)
    BY <2>1, CallFacts DEF Caller
  <2> QED
    BY <1>1, <1>2, <2>1, <2>2
<1>5. n - 1 \in 1..n-1
  BY <1>1 DEF n
<1>6. AtChild(Last(v'), Last(next'))
  BY <1>1, <1>2, <1>5
<1>7. Last(next') <= Len(Childs(g, Last(v'))) + 1 /\ Last(v') # ANode(assertNodeIdx)
  <2>1. Last(next') \in Nat /\ Len(Childs(g, Last(v'))) \in Nat
    <3>1. n - 1 \in 1..n
      BY <1>1, <1>5
    <3> QED
      BY <1>1, <3>1, CallFacts DEF n
  <2> QED
    BY <1>6, <2>1 DEF AtChild
<1>8. \A e, c : AtChild(e, c)' <=> AtChild(e, c)
  BY DEF AtChild
<1> QED
  BY <1>3, <1>4, <1>7, <1>8 DEF CallsInv, CurrentChilds, AtError, AtChild

(****************************************************************************)
(* The counters when the last moves on, and when a call is added.           *)
(****************************************************************************)
LEMMA BumpFacts ==
    ASSUME Inv
    PROVE  /\ Bump \in Seq(Nat \ {0}) /\ Len(Bump) = Len(next)
           /\ \A d \in 1..Len(next)-1 : Bump[d] = next[d]
           /\ Bump[Len(next)] = Last(next) + 1
           /\ Last(Bump) = Last(next) + 1
           /\ Append(Bump, 1) \in Seq(Nat \ {0}) /\ Len(Append(Bump, 1)) = Len(next) + 1
           /\ \A d \in 1..Len(next) : Append(Bump, 1)[d] = Bump[d]
           /\ Append(Bump, 1)[Len(next) + 1] = 1
           /\ Last(Append(Bump, 1)) = 1
<1> DEFINE S == Nat \ {0}
           x == next[Len(next)] + 1
<1>1. next \in Seq(S) /\ Len(next) \in 1..Len(next) /\ Last(next) = next[Len(next)]
  BY CallFacts
<1>2. x \in S
  BY CallFacts
<1>3. Bump = [next EXCEPT ![Len(next)] = x]
  BY DEF Bump
<1> HIDE DEF S, x
<1>4. /\ Bump \in Seq(S) /\ Len(Bump) = Len(next)
      /\ \A i \in 1..Len(next) : Bump[i] = IF i = Len(next) THEN x ELSE next[i]
  BY <1>1, <1>2, <1>3, ExceptSeq
<1>5. 1 \in S
  BY DEF S
<1>6. /\ Append(Bump, 1) \in Seq(S) /\ Len(Append(Bump, 1)) = Len(Bump) + 1
      /\ \A d \in 1..Len(Bump) : Append(Bump, 1)[d] = Bump[d]
      /\ Append(Bump, 1)[Len(Bump) + 1] = 1
  BY <1>4, <1>5, AppendProperties
<1>7. \A d \in 1..Len(next)-1 : d \in 1..Len(next) /\ d # Len(next)
  BY CallFacts
<1> QED
  BY <1>1, <1>4, <1>6, <1>7 DEF S, x, Last

LEMMA CallsKept == ASSUME Inv, CallsInv, [Next]_vars PROVE CallsInv'
<1> DEFINE n == Len(next)
<1>1. /\ n \in Nat \ {0} /\ Last(next) = next[n] /\ Last(v) = v[Caller(n)]
      /\ Len(Childs(g, Last(v))) \in Nat /\ Last(next) \in Nat \ {0}
  <2>1. n \in 1..n
    BY CallFacts
  <2> QED
    BY <2>1, CallFacts
<1>2. CASE ReachError
  <2>1. Len(next) > 1
    <3>1. ASSUME Len(next) = 1 PROVE FALSE
      <4>1. Last(v) = Last(start)
        BY <3>1, InvFacts
      <4> QED
        BY <1>2, <4>1, InvFacts DEF ReachError, AtError, ANode
    <3>2. \A m \in Nat \ {0} : m = 1 \/ m > 1
      OBVIOUS
    <3> QED
      BY ONLY <1>1, <3>1, <3>2
  <2> QED
    BY <1>2, <2>1, PopKeepsCalls DEF ReachError
<1>3. CASE BackUp
  BY <1>3, PopKeepsCalls DEF BackUp, Exhausted
<1>4. CASE SkipLoopChild
  <2>1. /\ next' = Bump /\ v' = v /\ g' = g /\ start' = start /\ pc' = pc /\ pc = "search"
        /\ assertNodeIdx' = assertNodeIdx /\ ~AtError /\ Last(next) <= Len(CurrentChilds)
    BY <1>4 DEF SkipLoopChild
  <2>2. /\ Len(next') = Len(next) /\ \A d \in 1..Len(next)-1 : next'[d] = next[d]
        /\ Last(next') = Last(next) + 1
    BY <2>1, BumpFacts
  <2>3. Last(next') <= Len(CurrentChilds) + 1
    BY <1>1, <2>1, <2>2 DEF CurrentChilds
  <2>4. \A e, c : AtChild(e, c)' <=> AtChild(e, c)
    BY <2>1 DEF AtChild
  <2>5. \A d : Caller(d)' = Caller(d)
    BY <2>1 DEF Caller
  <2> QED
    BY <2>1, <2>2, <2>3, <2>4, <2>5 DEF CallsInv, CurrentChilds, AtError
<1>5. CASE Descend
  <2> DEFINE f == Element(g, Child)
  <2>1. /\ next' = Append(Bump, 1) /\ v' = Append(v, f) /\ g' = g /\ start' = start
        /\ pc' = pc /\ pc = "search" /\ assertNodeIdx' = assertNodeIdx
        /\ ~AtError /\ Last(next) <= Len(CurrentChilds) /\ ~InSameLoop
    BY <1>5 DEF Descend
  <2>2. f \in Elements(g) /\ LeadsOn(g, Last(v), f)
    BY <2>1, ChildLeadsOn
  <2>3. ~(Last(v).type = "ALoop" /\ f = Last(v))
    BY <2>2 DEF LeadsOn
  <2> HIDE DEF f
  <2>4. /\ Len(v') = Len(v) + 1 /\ \A a \in 1..Len(v) : v'[a] = v[a]
        /\ v'[Len(v) + 1] = f
    <3>1. v \in Seq(Elements(g))
      BY InvFacts DEF IsWay
    <3> QED
      BY <2>1, <2>2, <3>1, AppendProperties
  <2>5. /\ Len(next') = n + 1 /\ \A d \in 1..n-1 : next'[d] = next[d]
        /\ next'[n] = Last(next) + 1 /\ Last(next') = 1
    <3>1. n \in 1..n /\ \A d \in 1..n-1 : d \in 1..n
      BY <1>1
    <3> QED
      BY <2>1, <3>1, BumpFacts
  <2>6. \A d : Caller(d)' = Caller(d)
    BY <2>1 DEF Caller
  <2>7. \A e, c : AtChild(e, c)' <=> AtChild(e, c)
    BY <2>1 DEF AtChild
  <2>8. ASSUME NEW d \in 1..n
        PROVE  /\ AtChild(v'[Caller(d)], next'[d])
               /\ v'[Caller(d) + 1] = Element(g, Childs(g, v'[Caller(d)])[next'[d]-1])
    <3>1. v'[Caller(d)] = v[Caller(d)]
      BY <2>4, CallFacts
    <3>2. CASE d = n
      <4>1. /\ v'[Caller(d)] = Last(v) /\ next'[d] - 1 = Last(next) /\ next'[d] > 1
            /\ v'[Caller(d) + 1] = f
        BY <1>1, <2>4, <2>5, <3>1, <3>2, CallFacts, SMTT(30)
      <4>2. Child = Childs(g, Last(v))[next'[d]-1]
        BY <4>1 DEF Child, CurrentChilds
      <4> QED
        BY <2>1, <2>3, <4>1, <4>2 DEF AtChild, f, CurrentChilds, AtError
    <3>3. CASE d # n
      <4>1. d \in 1..n-1
        BY <1>1, <3>3
      <4>2. Caller(d) + 1 \in 1..Len(v)
        <5>1. Caller(d) + 1 = Caller(d + 1) /\ d + 1 \in 1..n
          BY <1>1, <4>1, CallFacts DEF Caller
        <5> QED
          BY <5>1, CallFacts
      <4> QED
        BY <2>4, <2>5, <3>1, <4>1, <4>2 DEF CallsInv
    <3> QED
      BY <3>2, <3>3
  <2>9. Last(next') <= Len(CurrentChilds)' + 1 /\ Last(next') = 1
    <3>1. Last(v') = f
      BY <2>4 DEF Last
    <3>2. Childs(g, f) \in Seq(Nat) /\ Len(Childs(g, f)) \in Nat
      BY <2>2, InvFacts, ChildFacts, LenProperties
    <3> QED
      BY <2>1, <2>5, <3>1, <3>2 DEF CurrentChilds
  <2>10. Len(next') - 1 = n
    BY <1>1, <2>5
  <2> QED
    BY <2>1, <2>6, <2>7, <2>8, <2>9, <2>10 DEF CallsInv
<1>6. CASE Finish
  BY <1>6 DEF Finish, Exhausted, CallsInv, AtChild, Caller, CurrentChilds, AtError
<1>7. CASE UNCHANGED vars
  BY <1>7 DEF vars, CallsInv, AtChild, Caller, CurrentChilds, AtError
<1> QED
  BY <1>2, <1>3, <1>4, <1>5, <1>6, <1>7 DEF Next, Terminated

LEMMA CallsStart == ASSUME Init PROVE CallsInv
<1>1. g \in Graphs /\ v = start /\ next = <<1>> /\ pc = "search" /\ Inv
  BY InitInv DEF Init
<1>2. Len(next) = 1 /\ Last(next) = 1
  BY <1>1 DEF Last
<1>3. Len(CurrentChilds) \in Nat
  <2>1. Last(v) \in Elements(g)
    BY <1>1, InvFacts
  <2> QED
    BY <1>1, <2>1, ChildFacts, LenProperties DEF CurrentChilds
<1> QED
  BY <1>1, <1>2, <1>3 DEF CallsInv

------------------------------------------------------------------------------
(****************************************************************************)
(* What has been saved: for each call in progress, from the outermost on,   *)
(* what the children it is through with gave.  The child in progress is not *)
(* one of them.                                                             *)
(****************************************************************************)
Tried(nx, d) == IF d = Len(nx) THEN nx[d] - 1 ELSE nx[d] - 2

Part(f, w, nx, d) == Found(g, f, First(w, Caller(d)), Tried(nx, d))

Parts(f, w, nx) == [d \in 1..Len(nx) |-> Part(f, w, nx, d)]

SavedInv(f) == paths = FlattenSeq(Parts(f, v, next))

(****************************************************************************)
(* Found moves on by one piece.                                             *)
(****************************************************************************)
LEMMA FoundGrows ==
    ASSUME NEW gr \in Graphs, NEW a, NEW f, IsSearch(gr, a, f), NEW p \in Ways(gr),
           NEW c \in Nat, c <= Len(Childs(gr, Last(p)))
    PROVE  /\ Found(gr, f, p, c) \in Seq(Seq(Path))
           /\ Found(gr, f, p, 0) = << >>
           /\ c < Len(Childs(gr, Last(p))) =>
                 Found(gr, f, p, c + 1) = Found(gr, f, p, c) \o Piece(gr, f, p, c + 1)
<1> DEFINE F == Pieces(gr, f, p)
           n == Len(Childs(gr, Last(p)))
           S == Seq(Path)
<1>1. n \in Nat /\ DOMAIN Childs(gr, Last(p)) = 1..n
  BY WayEnds
<1>2. \A j \in 1..n : F[j] \in Seq(S) /\ F[j] = Piece(gr, f, p, j)
  BY <1>1, SearchType
<1> HIDE DEF F, n, S
<1>3. FlattenSeq(First(F, c)) \in Seq(S)
  <2>1. \A j \in 1..c : F[j] \in Seq(S)
    BY <1>1, <1>2 DEF n
  <2> QED
    BY <2>1, FlattenMembers
<1>4. FlattenSeq(First(F, 0)) = << >>
  BY FlattenNone
<1>5. ASSUME c < n PROVE FlattenSeq(First(F, c + 1)) = FlattenSeq(First(F, c)) \o Piece(gr, f, p, c + 1)
  <2>1. \A j \in 1..c+1 : F[j] \in Seq(S)
    BY <1>1, <1>2, <1>5
  <2>2. FlattenSeq(First(F, c + 1)) = FlattenSeq(First(F, c)) \o F[c+1]
    BY <2>1, FlattenGrows
  <2>3. F[c+1] = Piece(gr, f, p, c + 1)
    BY <1>1, <1>2, <1>5
  <2> QED
    BY <2>2, <2>3
<1> QED
  BY <1>3, <1>4, <1>5 DEF Found, F, n, S

(****************************************************************************)
(* The ways that the calls stand on are the beginnings of v.                *)
(****************************************************************************)
LEMMA CallWays ==
    ASSUME Inv, NEW d \in 1..Len(next)
    PROVE  /\ First(v, Caller(d)) \in Ways(g)
           /\ Last(First(v, Caller(d))) = v[Caller(d)]
           /\ d = Len(next) => First(v, Caller(d)) = v
           /\ d < Len(next) =>
                 First(v, Caller(d + 1)) = Append(First(v, Caller(d)), v[Caller(d) + 1])
<1> DEFINE m == Caller(d)
           p == First(v, m)
<1>1. m \in 1..Len(v) /\ Len(v) = Caller(Len(next)) /\ Len(start) \in Nat \ {0}
  BY CallFacts
<1>2. v \in Seq(Elements(g)) /\ DOMAIN v = 1..Len(v) /\ Len(v) \in Nat
  BY InvFacts, LenProperties DEF IsWay
<1>3. \A a \in 1..m : a \in 1..Len(v) /\ v[a] \in Elements(g)
  BY <1>1, <1>2, ElementOfSeq
<1>4. p = [a \in 1..m |-> v[a]] /\ m \in Nat \ {0}
  BY <1>1 DEF First
<1> HIDE DEF p
<1>5. p \in [1..m -> Elements(g)]
  BY <1>3, <1>4
<1> HIDE DEF m
<1>6. p \in Seq(Elements(g)) /\ Len(p) = m /\ p # << >>
  BY <1>4, <1>5
<1>7. Last(p) = v[m]
  BY <1>4, <1>6 DEF Last
<1>8. ASSUME d = Len(next) PROVE p = v
  <2>1. m = Len(v)
    BY <1>1, <1>8 DEF m
  <2> QED
    BY <1>2, <1>4, <2>1
<1>9. ASSUME d < Len(next) PROVE First(v, Caller(d + 1)) = Append(p, v[m + 1])
  <2>1. Caller(d + 1) = m + 1 /\ m + 1 \in 1..Len(v)
    BY <1>1, <1>9, CallFacts, SMTT(30) DEF m, Caller
  <2>2. v[m+1] \in Elements(g)
    BY <1>2, <2>1, ElementOfSeq
  <2> DEFINE r == Append(p, v[m+1])
             s == First(v, m + 1)
  <2>3. /\ r \in Seq(Elements(g)) /\ Len(r) = m + 1 /\ \A a \in 1..m : r[a] = p[a]
        /\ r[m+1] = v[m+1]
    BY <1>6, <2>2, AppendProperties
  <2>4. \A a \in 1..m+1 : r[a] = v[a]
    BY <1>4, <2>3
  <2>5. DOMAIN r = 1..m+1
    BY <2>3, LenProperties
  <2>6. s = [a \in 1..m+1 |-> v[a]]
    BY DEF First
  <2>7. r = [a \in 1..m+1 |-> r[a]]
    <3>1. r = [a \in DOMAIN r |-> r[a]]
      BY <2>3
    <3> QED
      BY <2>5, <3>1
  <2> HIDE DEF r, s
  <2>8. r = s
    BY <2>4, <2>6, <2>7
  <2> QED
    BY <2>1, <2>8 DEF r, s
<1> QED
  BY <1>6, <1>7, <1>8, <1>9 DEF Ways, p, m

(****************************************************************************)
(* The parts are sequences of paths, so that they can be put together one   *)
(* by one.                                                                  *)
(****************************************************************************)
LEMMA PartsType ==
    ASSUME Inv, CallsInv, NEW f, IsSearch(g, assertNodeIdx, f)
    PROVE  /\ \A d \in 1..Len(next) :
                 /\ Tried(next, d) \in Nat
                 /\ Tried(next, d) <= Len(Childs(g, v[Caller(d)]))
                 /\ Part(f, v, next, d) \in Seq(Seq(Path))
<1> SUFFICES ASSUME NEW d \in 1..Len(next)
             PROVE  /\ Tried(next, d) \in Nat
                    /\ Tried(next, d) <= Len(Childs(g, v[Caller(d)]))
                    /\ Part(f, v, next, d) \in Seq(Seq(Path))
  OBVIOUS
<1>1. /\ next[d] \in Nat \ {0} /\ Len(Childs(g, v[Caller(d)])) \in Nat
      /\ Len(next) \in Nat \ {0} /\ Last(next) = next[Len(next)]
      /\ Last(v) = v[Caller(Len(next))]
  BY CallFacts
<1>2. Tried(next, d) \in Nat /\ Tried(next, d) <= Len(Childs(g, v[Caller(d)]))
  <2>1. CASE d = Len(next)
    <3>1. next[d] <= Len(Childs(g, v[Caller(d)])) + 1
      BY <1>1, <2>1 DEF CallsInv, CurrentChilds
    <3> QED
      BY <1>1, <2>1, <3>1 DEF Tried
  <2>2. CASE d # Len(next)
    <3>1. next[d] > 1 /\ next[d] - 1 <= Len(Childs(g, v[Caller(d)]))
      <4>1. d \in 1..Len(next)-1
        BY <1>1, <2>2
      <4> QED
        BY <4>1 DEF CallsInv, AtChild
    <3> QED
      BY <1>1, <2>2, <3>1 DEF Tried
  <2> QED
    BY <2>1, <2>2
<1>3. First(v, Caller(d)) \in Ways(g) /\ Last(First(v, Caller(d))) = v[Caller(d)]
  BY CallWays
<1>4. Part(f, v, next, d) \in Seq(Seq(Path))
  <2>1. g \in Graphs
    BY InvFacts
  <2> QED
    BY <1>2, <1>3, <2>1, FoundGrows DEF Part
<1> QED
  BY <1>2, <1>4

(****************************************************************************)
(* The beginnings of a vector do not change when it does behind them.       *)
(****************************************************************************)
LEMMA FirstAgrees ==
    ASSUME NEW F, NEW H, NEW n, \A a \in 1..n : F[a] = H[a]
    PROVE  First(F, n) = First(H, n)
BY DEF First

(****************************************************************************)
(* A return hands the caller what the call as a whole saves.                *)
(****************************************************************************)
LEMMA ReturnSaved ==
    ASSUME Inv, CallsInv, NEW f, IsSearch(g, assertNodeIdx, f),
           NEW m \in Nat \ {0}, Len(next) = m + 1
    PROVE  FlattenSeq(Parts(f, Front(v), Front(next))) =
           FlattenSeq(First(Parts(f, v, next), m)) \o f[v]
<1> DEFINE n == m + 1
           P == Parts(f, v, next)
           Q == Parts(f, Front(v), Front(next))
           S == Seq(Path)
<1>1. n \in Nat \ {0} /\ m \in Nat \ {0} /\ m \in 1..n /\ m < n /\ m # n /\ m + 1 = n /\ g \in Graphs
      /\ n = Len(next) /\ m = Len(next) - 1 /\ Len(next) > 1
  BY InvFacts
<1> HIDE DEF n
<1>2. /\ Len(Front(next)) = m /\ \A d \in 1..m : Front(next)[d] = next[d]
  BY <1>1, PopFacts
<1>3. \A d \in 1..n : P[d] = Part(f, v, next, d) /\ P[d] \in Seq(S)
  BY <1>1, PartsType DEF Parts
<1>4. \A d \in 1..m : Q[d] = Part(f, Front(v), Front(next), d)
  BY <1>2 DEF Parts
<1>5. Q = First(Q, m)
  BY <1>2 DEF First, Parts
<1>6. ASSUME NEW d \in 1..m PROVE First(Front(v), Caller(d)) = First(v, Caller(d))
  <2>1. v \in Seq(Path) /\ v # << >>
    BY DEF Inv, TypeOK
  <2>2. \A a \in 1..Len(v)-1 : Front(v)[a] = v[a]
    BY <2>1, FrontProperties
  <2>3. \A a \in 1..Caller(d) : a \in 1..Len(v)-1
    BY <1>1, CallFacts DEF Caller
  <2>4. \A a \in 1..Caller(d) : Front(v)[a] = v[a]
    BY <2>2, <2>3
  <2> QED
    BY <2>4, FirstAgrees
<1>7. ASSUME NEW d \in 1..m-1 PROVE Q[d] = P[d]
  <2>1. d \in 1..m /\ d # m /\ d # n /\ d \in 1..n
    BY <1>1
  <2>2. Tried(Front(next), d) = Tried(next, d)
    BY <1>2, <2>1 DEF Tried
  <2>3. Q[d] = Part(f, Front(v), Front(next), d) /\ P[d] = Part(f, v, next, d)
    BY <1>3, <1>4, <2>1
  <2>4. First(Front(v), Caller(d)) = First(v, Caller(d))
    BY <1>6, <2>1
  <2> QED
    BY <2>2, <2>3, <2>4 DEF Part
<1> DEFINE w == First(v, Caller(m))
           c == next[m] - 2
<1>8. w \in Ways(g) /\ Last(w) = v[Caller(m)] /\ v = Append(w, v[Caller(m) + 1])
  <2>1. w \in Ways(g) /\ Last(w) = v[Caller(m)]
    BY <1>1, CallWays
  <2>2. First(v, Caller(m + 1)) = Append(w, v[Caller(m) + 1])
    BY <1>1, CallWays
  <2>3. First(v, Caller(n)) = v
    <3>1. n \in 1..n
      BY <1>1
    <3> QED
      BY <1>1, <3>1, CallWays
  <2> QED
    BY <1>1, <2>1, <2>2, <2>3
<1>9. AtChild(v[Caller(m)], next[m]) /\ next[m] \in Nat \ {0}
      /\ v[Caller(m) + 1] = Element(g, Childs(g, v[Caller(m)])[next[m]-1])
  <2>1. m \in 1..Len(next)-1
    BY <1>1
  <2> QED
    BY <1>1, <2>1, CallFacts DEF CallsInv
<1>10. P[m] = Found(g, f, w, c) /\ Q[m] = Found(g, f, w, c + 1)
  <2>1. Tried(next, m) = c
    BY <1>1 DEF Tried
  <2>2. Tried(Front(next), m) = next[m] - 1 /\ next[m] - 1 = c + 1
    <3>1. m \in 1..m
      BY <1>1
    <3> QED
      BY <1>2, <1>9, <3>1 DEF Tried
  <2>3. First(Front(v), Caller(m)) = w /\ m \in 1..m
    BY <1>1, <1>6
  <2>4. P[m] = Part(f, v, next, m) /\ Q[m] = Part(f, Front(v), Front(next), m)
    BY <1>1, <1>3, <1>4, <2>3
  <2> QED
    BY <2>1, <2>2, <2>3, <2>4 DEF Part
<1>11. c \in Nat /\ c + 1 = next[m] - 1 /\ c < Len(Childs(g, Last(w))) /\ c <= Len(Childs(g, Last(w)))
  <2>1. Len(Childs(g, v[Caller(m)])) \in Nat
    BY <1>1, CallFacts
  <2>2. next[m] > 1 /\ next[m] - 1 <= Len(Childs(g, v[Caller(m)])) /\ next[m] \in Nat
    BY <1>9 DEF AtChild
  <2> QED
    BY <1>8, <2>1, <2>2
<1>12. Piece(g, f, w, c + 1) = f[v]
  BY <1>8, <1>9, <1>11 DEF Piece, Stays, AtChild
<1> HIDE DEF w, c
<1>13. Q[m] = P[m] \o f[v]
  <2>1. Found(g, f, w, c + 1) = Found(g, f, w, c) \o Piece(g, f, w, c + 1)
    BY <1>1, <1>8, <1>11, FoundGrows
  <2> QED
    BY <1>10, <1>12, <2>1
<1> HIDE DEF P, Q, S
<1>14. f[v] \in Seq(S)
  <2>1. v \in Ways(g)
    BY InvFacts DEF IsWay, Ways
  <2> QED
    BY <1>1, <2>1, SearchType DEF S
<1>15. \A d \in 1..m : P[d] \in Seq(S) /\ Q[d] \in Seq(S)
  <2> SUFFICES ASSUME NEW d \in 1..m PROVE P[d] \in Seq(S) /\ Q[d] \in Seq(S)
    OBVIOUS
  <2>1. P[d] \in Seq(S)
    BY <1>1, <1>3
  <2>2. CASE d = m
    BY <1>13, <1>14, <2>1, <2>2, ConcatProperties
  <2>3. CASE d # m
    <3>1. d \in 1..m-1
      BY <1>1, <2>3
    <3> QED
      BY <1>7, <2>1, <3>1
  <2> QED
    BY <2>1, <2>2, <2>3
<1> DEFINE A == FlattenSeq(First(P, m - 1))
<1>16. A \in Seq(S) /\ FlattenSeq(First(P, m)) = A \o P[m]
  <2>1. m - 1 \in Nat /\ (m - 1) + 1 = m
    BY <1>1
  <2> QED
    BY <1>15, <2>1, FlattenGrows
<1> HIDE DEF A
<1>17. FlattenSeq(First(Q, m)) = A \o Q[m]
  <2>1. m - 1 \in Nat /\ (m - 1) + 1 = m
    BY <1>1
  <2>2. FlattenSeq(First(Q, m)) = FlattenSeq(First(Q, m - 1)) \o Q[m]
    BY <1>15, <2>1, FlattenGrows
  <2>3. First(Q, m - 1) = First(P, m - 1)
    BY <1>7, FirstAgrees
  <2> QED
    BY <2>2, <2>3 DEF A
<1>18. (A \o P[m]) \o f[v] = A \o (P[m] \o f[v])
  <2> DEFINE x == P[m]
             y == f[v]
  <2>1. x \in Seq(S) /\ y \in Seq(S)
    BY <1>1, <1>14, <1>15
  <2> HIDE DEF x, y
  <2>2. (A \o x) \o y = A \o (x \o y)
    BY <1>16, <2>1, ConcatAssociative, SMTT(30)
  <2> QED
    BY <2>2 DEF x, y
<1> QED
  BY <1>1, <1>5, <1>13, <1>16, <1>17, <1>18 DEF P, Q

(****************************************************************************)
(* The part of the last call comes last.                                    *)
(****************************************************************************)
LEMMA LastPart ==
    ASSUME Inv, CallsInv, NEW f, IsSearch(g, assertNodeIdx, f)
    PROVE  /\ FlattenSeq(Parts(f, v, next)) =
              FlattenSeq(First(Parts(f, v, next), Len(next)-1)) \o Found(g, f, v, Last(next) - 1)
           /\ FlattenSeq(First(Parts(f, v, next), Len(next)-1)) \in Seq(Seq(Path))
           /\ Found(g, f, v, Last(next) - 1) \in Seq(Seq(Path))
<1> DEFINE n == Len(next)
           P == Parts(f, v, next)
           S == Seq(Path)
<1>1. n \in Nat \ {0} /\ n \in 1..n /\ n - 1 \in Nat /\ (n - 1) + 1 = n /\ Last(next) = next[n]
  BY CallFacts
<1>2. \A d \in 1..n : P[d] = Part(f, v, next, d) /\ P[d] \in Seq(S)
  BY PartsType DEF Parts
<1>3. P[n] = Found(g, f, v, Last(next) - 1)
  <2>1. First(v, Caller(n)) = v
    BY <1>1, CallWays
  <2>2. Tried(next, n) = Last(next) - 1
    BY <1>1 DEF Tried
  <2> QED
    BY <1>1, <1>2, <2>1, <2>2 DEF Part
<1>4. P = First(P, n)
  BY DEF First, Parts
<1> HIDE DEF P, n, S
<1>5. /\ FlattenSeq(First(P, n - 1)) \in Seq(S)
      /\ FlattenSeq(First(P, n)) = FlattenSeq(First(P, n - 1)) \o P[n]
  BY <1>1, <1>2, FlattenGrows
<1> QED
  BY <1>1, <1>2, <1>3, <1>4, <1>5 DEF P, n, S

(****************************************************************************)
(* A call that is through with its children has saved what the search       *)
(* function says.                                                           *)
(****************************************************************************)
LEMMA ExhaustedFound ==
    ASSUME Inv, CallsInv, NEW f, IsSearch(g, assertNodeIdx, f),
           ~AtError, Last(next) > Len(CurrentChilds)
    PROVE  Found(g, f, v, Last(next) - 1) = f[v]
<1>1. v \in Ways(g) /\ g \in Graphs
  BY InvFacts DEF IsWay, Ways
<1>2. /\ Last(next) > Len(Childs(g, Last(v))) /\ Last(next) <= Len(Childs(g, Last(v))) + 1
      /\ Last(v) # ANode(assertNodeIdx)
  BY DEF CallsInv, CurrentChilds, AtError
<1>3. Last(next) - 1 = Len(Childs(g, Last(v)))
  <2>1. Len(Childs(g, Last(v))) \in Nat
    BY <1>1, WayEnds
  <2>2. Last(next) \in Nat
    BY InvFacts, CounterFacts DEF TypeOK
  <2> QED
    BY <1>2, <2>1, <2>2
<1> QED
  BY <1>1, <1>2, <1>3, SearchIsBody

LEMMA SavedKept ==
    ASSUME Inv, CallsInv, NEW f, IsSearch(g, assertNodeIdx, f), SavedInv(f), [Next]_vars
    PROVE  SavedInv(f)'
<1> DEFINE n == Len(next)
           P == Parts(f, v, next)
           S == Seq(Path)
           A == FlattenSeq(First(P, n - 1))
           B == Found(g, f, v, Last(next) - 1)
<1>1. /\ n \in Nat \ {0} /\ g \in Graphs /\ v \in Ways(g)
      /\ Last(next) \in Nat \ {0} /\ Len(Childs(g, Last(v))) \in Nat
  <2>1. g \in Graphs /\ v \in Ways(g)
    BY InvFacts DEF IsWay, Ways
  <2>2. Last(next) \in Nat \ {0} /\ n \in Nat \ {0}
    BY InvFacts, CounterFacts DEF TypeOK
  <2> QED
    BY <2>1, <2>2, WayEnds
<1>2. A \in Seq(S) /\ B \in Seq(S) /\ FlattenSeq(P) = A \o B
  BY LastPart
<1>3. paths = A \o B
  BY <1>2 DEF SavedInv
<1>4. f[v] \in Seq(S)
  BY <1>1, SearchType
<1> HIDE DEF A, B, S
<1>5. ASSUME n > 1, g' = g, start' = start, v' = Front(v), next' = Front(next)
      PROVE  FlattenSeq(Parts(f, v, next))' = A \o f[v]
  <2> DEFINE m == n - 1
  <2>1. m \in Nat \ {0} /\ Len(next) = m + 1
    <3>1. n \in Nat \ {0} /\ n > 1
      BY <1>1, <1>5
    <3>2. \A x \in Nat \ {0} : x > 1 => x - 1 \in Nat \ {0} /\ x = (x - 1) + 1
      OBVIOUS
    <3> QED
      BY ONLY <3>1, <3>2
  <2> HIDE DEF m
  <2>2. FlattenSeq(Parts(f, Front(v), Front(next))) = FlattenSeq(First(P, m)) \o f[v]
    BY <2>1, ReturnSaved
  <2>3. FlattenSeq(First(P, m)) = A
    BY DEF A, m
  <2>4. Parts(f, v, next)' = Parts(f, Front(v), Front(next))
    BY <1>5 DEF Parts, Part, Caller
  <2> QED
    BY <2>2, <2>3, <2>4
<1>6. CASE ReachError
  <2> DEFINE saved == [v EXCEPT ![Len(v)].type = "ERRORNODE"]
  <2>1. /\ paths' = Append(paths, saved) /\ v' = Front(v) /\ next' = Front(next)
        /\ g' = g /\ start' = start /\ Last(v) = ANode(assertNodeIdx)
    BY <1>6 DEF ReachError, AtError
  <2>2. f[v] = <<saved>>
    BY <1>1, <2>1, SearchIsBody
  <2>3. Last(next) = 1
    BY <2>1 DEF CallsInv, AtError
  <2>4. B = << >>
    <3>1. Found(g, f, v, 0) = << >>
      BY <1>1, FoundGrows
    <3> QED
      BY <2>3, <3>1 DEF B
  <2>5. n > 1
    <3>1. ASSUME n = 1 PROVE FALSE
      <4>1. Last(v) = Last(start)
        BY <3>1, InvFacts
      <4> QED
        BY <2>1, <4>1, InvFacts DEF ANode
    <3>2. \A x \in Nat \ {0} : x = 1 \/ x > 1
      OBVIOUS
    <3> QED
      BY ONLY <1>1, <3>1, <3>2
  <2>6. paths = A
    BY <1>2, <1>3, <2>4, ConcatEmptySeq
  <2>7. saved \in S
    <3>1. <<saved>> \in Seq(S)
      BY <1>4, <2>2
    <3> HIDE DEF saved
    <3>2. 1 \in 1..Len(<<saved>>) /\ <<saved>>[1] = saved
      OBVIOUS
    <3> QED
      BY <3>1, <3>2, ElementOfSeq
  <2> HIDE DEF saved
  <2>8. Append(A, saved) = A \o <<saved>>
    BY <1>2, <2>7, AppendIsConcat
  <2> QED
    BY <1>5, <2>1, <2>2, <2>5, <2>6, <2>8 DEF SavedInv
<1>7. CASE BackUp
  <2>1. /\ paths' = paths /\ v' = Front(v) /\ next' = Front(next) /\ n > 1
        /\ g' = g /\ start' = start /\ Exhausted
    BY <1>7 DEF BackUp
  <2>2. B = f[v]
    BY <2>1, ExhaustedFound DEF B, Exhausted
  <2> QED
    BY <1>3, <1>5, <2>1, <2>2 DEF SavedInv
<1>8. CASE SkipLoopChild
  <2>1. /\ next' = Bump /\ v' = v /\ g' = g /\ start' = start /\ paths' = paths
        /\ Last(next) <= Len(CurrentChilds) /\ InSameLoop
    BY <1>8 DEF SkipLoopChild
  <2>2. \A d \in 1..n-1 : Parts(f, v, Bump)[d] = P[d]
    <3> SUFFICES ASSUME NEW d \in 1..n-1 PROVE Parts(f, v, Bump)[d] = P[d]
      OBVIOUS
    <3>1. Bump[d] = next[d] /\ Len(Bump) = n /\ d \in 1..n /\ d # n
      BY <1>1, BumpFacts
    <3> QED
      BY <3>1 DEF Parts, Part, Tried
  <2>3. Parts(f, v, Bump)[n] = Found(g, f, v, Last(next)) /\ Len(Bump) = n
    <3>1. n \in 1..n /\ Len(Bump) = n /\ Bump[n] = Last(next) + 1
      BY <1>1, BumpFacts
    <3>2. Tried(Bump, n) = Last(next)
      BY <1>1, <3>1 DEF Tried
    <3>3. First(v, Caller(n)) = v
      BY <3>1, CallWays
    <3> QED
      BY <3>1, <3>2, <3>3 DEF Parts, Part
  <2>4. Found(g, f, v, Last(next)) = B
    <3> DEFINE c == Last(next) - 1
    <3>1. c \in Nat /\ c + 1 = Last(next) /\ c < Len(Childs(g, Last(v))) /\ c <= Len(Childs(g, Last(v)))
      BY <1>1, <2>1 DEF CurrentChilds
    <3> HIDE DEF c
    <3>2. Found(g, f, v, c + 1) = Found(g, f, v, c) \o Piece(g, f, v, c + 1)
      BY <1>1, <3>1, FoundGrows
    <3>3. Piece(g, f, v, c + 1) = << >>
      <4>1. Stays(g, v, Childs(g, Last(v))[c + 1])
        <5>1. Child = Childs(g, Last(v))[c + 1]
          BY <3>1 DEF Child, CurrentChilds
        <5>2. /\ Last(v).type = "ALoop" /\ g.CFGNodeVec[Child].isLoopNode
              /\ g.CFGNodeVec[Child].LCSSAIndex = Last(v).idx
          BY <2>1 DEF InSameLoop
        <5>3. Last(v) \in Path
          BY InvFacts, ElementOfSeq
        <5>4. Element(g, Child) = Last(v)
          BY <5>2, <5>3 DEF Element, ALoop, Path
        <5> QED
          BY <5>1, <5>2, <5>4 DEF Stays
      <4> QED
        BY <4>1 DEF Piece
    <3>4. Found(g, f, v, c) = B
      BY DEF B, c
    <3> QED
      BY <1>2, <3>1, <3>2, <3>3, <3>4, ConcatEmptySeq
  <2> DEFINE Q == Parts(f, v, Bump)
  <2>5. Q = First(Q, n)
    BY <2>3 DEF Parts, First
  <2> HIDE DEF Q
  <2>6. FlattenSeq(First(Q, n)) = FlattenSeq(First(Q, n - 1)) \o Q[n]
    <3>1. \A d \in 1..n : Q[d] \in Seq(S)
      <4> SUFFICES ASSUME NEW d \in 1..n PROVE Q[d] \in Seq(S)
        OBVIOUS
      <4>1. P[d] \in Seq(S)
        BY PartsType DEF Parts, S
      <4>2. CASE d = n
        BY <1>2, <2>3, <2>4, <4>2 DEF Q
      <4>3. CASE d # n
        <5>1. d \in 1..n-1
          BY <1>1, <4>3
        <5> QED
          BY <2>2, <4>1, <5>1 DEF Q
      <4> QED
        BY <4>2, <4>3
    <3>2. n - 1 \in Nat /\ (n - 1) + 1 = n
      BY <1>1
    <3> HIDE DEF n
    <3> QED
      BY <3>1, <3>2, FlattenGrows
  <2>7. First(Q, n - 1) = First(P, n - 1)
    BY <2>2, FirstAgrees DEF Q
  <2>8. FlattenSeq(Parts(f, v, Bump)) = A \o B
    BY <2>3, <2>4, <2>5, <2>6, <2>7 DEF A, Q
  <2>9. Parts(f, v, next)' = Parts(f, v, Bump)
    BY <2>1 DEF Parts, Part, Caller
  <2> QED
    BY <1>3, <2>1, <2>8, <2>9 DEF SavedInv
<1>9. CASE Descend
  <2> DEFINE e == Element(g, Child)
             w == Append(v, e)
             nx == Append(Bump, 1)
             Q == Parts(f, w, nx)
  <2>1. /\ next' = nx /\ v' = w /\ g' = g /\ start' = start /\ paths' = paths
        /\ Last(next) <= Len(CurrentChilds) /\ ~InSameLoop
    BY <1>9 DEF Descend
  <2>2. e \in Elements(g) /\ LeadsOn(g, Last(v), e)
    BY <2>1, ChildLeadsOn
  <2> HIDE DEF e
  <2>3. /\ w \in Ways(g) /\ Len(w) = Len(v) + 1 /\ \A a \in 1..Len(v) : w[a] = v[a]
    <3>1. v \in Seq(Elements(g))
      BY <1>1 DEF Ways
    <3> QED
      BY <2>2, <3>1, AppendProperties DEF Ways
  <2>4. /\ Len(nx) = n + 1 /\ \A d \in 1..n : nx[d] = Bump[d]
        /\ nx[n + 1] = 1
    BY BumpFacts
  <2>5. /\ \A d \in 1..n-1 : nx[d] = next[d]
        /\ nx[n] = Last(next) + 1
    <3>1. n \in 1..n /\ \A d \in 1..n-1 : d \in 1..n
      BY <1>1
    <3> QED
      BY <2>4, <3>1, BumpFacts
  <2> HIDE DEF w, nx
  <2>6. ASSUME NEW d \in 1..n PROVE First(w, Caller(d)) = First(v, Caller(d))
    <3>1. Caller(d) \in 1..Len(v)
      BY CallFacts
    <3>2. \A a \in 1..Caller(d) : w[a] = v[a]
      <4>1. \A a \in 1..Caller(d) : a \in 1..Len(v)
        BY <3>1, CallFacts
      <4> QED
        BY <2>3, <4>1
    <3> QED
      BY <3>2, FirstAgrees
  <2>7. \A d \in 1..n : Q[d] = P[d]
    <3> SUFFICES ASSUME NEW d \in 1..n PROVE Q[d] = P[d]
      OBVIOUS
    <3>1. d \in 1..n+1 /\ d # n + 1
      BY <1>1
    <3>2. Tried(nx, d) = nx[d] - 2
      BY <2>4, <3>1 DEF Tried
    <3>3. nx[d] - 2 = Tried(next, d)
      <4>1. CASE d = n
        BY <1>1, <2>5, <4>1, CallFacts DEF Tried
      <4>2. CASE d # n
        <5>1. d \in 1..n-1
          BY <1>1, <4>2
        <5> QED
          BY <2>5, <4>2, <5>1 DEF Tried
      <4> QED
        BY <4>1, <4>2
    <3> QED
      BY <2>4, <2>6, <3>1, <3>2, <3>3 DEF Parts, Part
  <2>8. Q[n+1] = << >>
    <3>1. n + 1 \in 1..n+1
      BY <1>1
    <3>2. Tried(nx, n + 1) = 0
      BY <2>4 DEF Tried
    <3>3. First(w, Caller(n + 1)) = w
      <4>1. Caller(n + 1) = Len(w) /\ DOMAIN w = 1..Len(w)
        <5>1. Len(v) = Caller(n) /\ Len(start) \in Nat
          BY CallFacts
        <5>2. Caller(n + 1) = Caller(n) + 1
          BY <1>1, <5>1 DEF Caller
        <5> QED
          BY <2>3, <5>1, <5>2, WayEnds, LenProperties
      <4>2. w = [a \in DOMAIN w |-> w[a]]
        BY <2>3 DEF Ways
      <4> QED
        BY <4>1, <4>2 DEF First
    <3>4. Found(g, f, w, 0) = << >>
      BY FlattenNone DEF Found
    <3> QED
      BY <2>4, <3>1, <3>2, <3>3, <3>4 DEF Parts, Part
  <2>9. Q = First(Q, n + 1) /\ P = First(P, n)
    BY <2>4 DEF Parts, First
  <2>10. \A d \in 1..n : P[d] \in Seq(S)
    BY PartsType DEF Parts, S
  <2> HIDE DEF Q, P
  <2>11. FlattenSeq(First(Q, n + 1)) = FlattenSeq(First(Q, n)) \o Q[n+1]
         /\ FlattenSeq(First(Q, n)) \in Seq(S)
    <3>1. \A d \in 1..n+1 : Q[d] \in Seq(S)
      <4> SUFFICES ASSUME NEW d \in 1..n+1 PROVE Q[d] \in Seq(S)
        OBVIOUS
      <4>1. CASE d = n + 1
        BY <2>8, <4>1, EmptySeq
      <4>2. CASE d # n + 1
        <5>1. d \in 1..n
          BY <1>1, <4>2
        <5> QED
          BY <2>7, <2>10, <5>1
      <4> QED
        BY <4>1, <4>2
    <3>2. n \in Nat
      BY <1>1
    <3> HIDE DEF n
    <3> QED
      BY <3>1, <3>2, FlattenGrows
  <2>12. First(Q, n) = First(P, n)
    BY <2>7, FirstAgrees
  <2>13. FlattenSeq(Q) = FlattenSeq(P)
    BY <2>8, <2>9, <2>11, <2>12, ConcatEmptySeq
  <2>14. Parts(f, v, next)' = Q
    BY <2>1 DEF Parts, Part, Caller, Q
  <2> QED
    BY <2>1, <2>13, <2>14 DEF SavedInv, P
<1>10. CASE Finish
  BY <1>10 DEF Finish, SavedInv, Parts, Part, Caller
<1>11. CASE UNCHANGED vars
  BY <1>11 DEF vars, SavedInv, Parts, Part, Caller
<1> QED
  BY <1>6, <1>7, <1>8, <1>9, <1>10, <1>11 DEF Next, Terminated

LEMMA SavedStart ==
    ASSUME Init, NEW f, IsSearch(g, assertNodeIdx, f)
    PROVE  SavedInv(f)
<1>1. g \in Graphs /\ v = start /\ next = <<1>> /\ paths = << >> /\ Inv /\ CallsInv
  BY InitInv, CallsStart DEF Init
<1>2. Len(next) = 1 /\ Last(next) = 1
  BY <1>1 DEF Last
<1>3. Found(g, f, v, Last(next) - 1) = << >>
  BY <1>2, FlattenNone DEF Found
<1>4. FlattenSeq(First(Parts(f, v, next), Len(next)-1)) = << >>
  BY <1>2, FlattenNone
<1>5. FlattenSeq(Parts(f, v, next)) = << >> \o << >>
  BY <1>1, <1>3, <1>4, LastPart
<1> QED
  BY <1>1, <1>5, ConcatEmptySeq DEF SavedInv

------------------------------------------------------------------------------
(****************************************************************************)
(* The function that RealPaths recurses on: the paths with n elements more  *)
(* than the one to start from.                                              *)
(****************************************************************************)
After(gr, p) ==
    {Append(p, e) : e \in {f \in Elements(gr) : Linked(gr, Last(p), f) /\ f \notin ToSet(p)}}

Longer(gr, from, h, n) == IF n = 0 THEN {from} ELSE UNION {After(gr, p) : p \in h[n-1]}

IsOfLength(gr, from, h) ==
    h = [n \in 0..Len(gr.CFGNodeVec) |-> Longer(gr, from, h, n)]

Retyped(p) == [p EXCEPT ![Len(p)].type = "ERRORNODE"]

RealOf(h, node) ==
    {Retyped(p) : p \in {p \in UNION {h[n] : n \in DOMAIN h} : Last(p) = ANode(node)}}

LEMMA RealPathsAreOfLength ==
    ASSUME NEW gr, NEW from, NEW node
    PROVE  RealPaths(gr, from, node) = RealOf(CHOOSE h : IsOfLength(gr, from, h), node)
BY DEF RealPaths, RealOf, Retyped, IsOfLength, Longer, After

LEMMA OfLengthExists ==
    ASSUME NEW gr \in Graphs, NEW from
    PROVE  \E h : IsOfLength(gr, from, h)
<1> DEFINE L == Len(gr.CFGNodeVec)
           Upto(m, h) == \A n \in 0..m : h[n] = Longer(gr, from, h, n)
           S == {m \in Nat : \E h : Upto(m, h)}
<1>1. L \in Nat
  BY GraphFacts
<1>2. 0 \in S
  <2> DEFINE h == [n \in 0..0 |-> {from}]
  <2>1. h[0] = {from}
    OBVIOUS
  <2> HIDE DEF h
  <2>2. Upto(0, h)
    BY <2>1 DEF Longer
  <2> QED
    BY <2>2
<1>3. ASSUME NEW m \in Nat, m \in S PROVE m + 1 \in S
  <2>1. PICK h : Upto(m, h)
    BY <1>3
  <2> DEFINE k == [n \in 0..m+1 |-> IF n <= m THEN h[n] ELSE UNION {After(gr, p) : p \in h[m]}]
  <2>2. \A n \in 0..m : k[n] = h[n]
    OBVIOUS
  <2>3. k[m+1] = UNION {After(gr, p) : p \in h[m]}
    <3>1. m + 1 \in 0..m+1 /\ ~ (m + 1 <= m)
      OBVIOUS
    <3> QED
      BY <3>1
  <2> HIDE DEF k
  <2>4. ASSUME NEW n \in 0..m+1 PROVE k[n] = Longer(gr, from, k, n)
    <3>1. CASE n = 0
      <4>1. 0 \in 0..m
        OBVIOUS
      <4>2. k[0] = h[0] /\ h[0] = {from}
        BY <2>1, <2>2, <4>1 DEF Longer
      <4> QED
        BY <3>1, <4>2 DEF Longer
    <3>2. CASE n # 0 /\ n # m + 1
      <4>1. n \in 0..m /\ n - 1 \in 0..m
        BY <3>2
      <4>2. k[n] = h[n] /\ k[n-1] = h[n-1]
        BY <2>2, <4>1
      <4>3. h[n] = UNION {After(gr, p) : p \in h[n-1]}
        BY <2>1, <3>2, <4>1 DEF Longer
      <4> QED
        BY <3>2, <4>2, <4>3 DEF Longer
    <3>3. CASE n = m + 1
      <4>1. n # 0 /\ n - 1 = m /\ m \in 0..m
        BY <3>3
      <4>2. k[m] = h[m]
        BY <2>2, <4>1
      <4> QED
        BY <2>3, <3>3, <4>1, <4>2 DEF Longer
    <3> QED
      BY <3>1, <3>2, <3>3
  <2>5. Upto(m + 1, k)
    BY <2>4
  <2> QED
    BY <2>5
<1> HIDE DEF S
<1>4. Nat \subseteq S
  BY <1>2, <1>3, Inductive
<1>5. PICK h : Upto(L, h)
  BY <1>1, <1>4 DEF S
<1> DEFINE k == [n \in 0..L |-> h[n]]
<1>6. \A n \in 0..L : k[n] = h[n]
  OBVIOUS
<1>7. k = [n \in 0..L |-> k[n]]
  OBVIOUS
<1> HIDE DEF k
<1>8. ASSUME NEW n \in 0..L PROVE k[n] = Longer(gr, from, k, n)
  <2>1. h[n] = Longer(gr, from, h, n)
    BY <1>5
  <2>2. n # 0 => k[n-1] = h[n-1]
    BY <1>1, <1>6
  <2> QED
    BY <1>6, <2>1, <2>2 DEF Longer
<1>9. IsOfLength(gr, from, k)
  BY <1>7, <1>8 DEF IsOfLength
<1> QED
  BY <1>9

(****************************************************************************)
(* A way is no longer than there are nodes, since it has none twice.        *)
(****************************************************************************)
LEMMA WaysAreShort ==
    ASSUME NEW gr \in Graphs, NEW p, IsWay(gr, p)
    PROVE  Len(p) <= Len(gr.CFGNodeVec)
<1> DEFINE L == Len(gr.CFGNodeVec)
           M == Len(p)
           x == [a \in 1..M |-> CHOOSE n \in 1..L : p[a] = Element(gr, n)]
<1>1. L \in Nat /\ M \in Nat /\ DOMAIN gr.CFGNodeVec = 1..L
  BY GraphFacts, WayType
<1>2. \A a \in 1..M : p[a] \in Elements(gr)
  BY WayType
<1>3. ASSUME NEW a \in 1..M PROVE x[a] \in 1..L /\ p[a] = Element(gr, x[a])
  BY <1>1, <1>2 DEF Elements
<1>4. x \in [1..M -> 1..L]
  BY <1>3
<1> HIDE DEF x
<1> SUFFICES ASSUME L < M PROVE FALSE
  BY <1>1
<1>5. IsFiniteSet(1..M) /\ Cardinality(1..M) = M /\ IsFiniteSet(1..L) /\ Cardinality(1..L) = L
  <2> HIDE DEF L, M
  <2>1. IsFiniteSet(1..M) /\ Cardinality(1..M) = M
    BY <1>1, FS_Interval
  <2>2. IsFiniteSet(1..L) /\ Cardinality(1..L) = L
    BY <1>1, FS_Interval
  <2> QED
    BY <2>1, <2>2
<1>6. \E a, b \in 1..M : a # b /\ x[a] = x[b]
  <2> HIDE DEF L, M
  <2> QED
    BY <1>4, <1>5, FS_PigeonHole
<1>7. PICK a \in 1..M, b \in 1..M : a # b /\ x[a] = x[b]
  BY <1>6
<1>8. p[a] = p[b] /\ p[a] = Element(gr, x[a]) /\ x[a] \in DOMAIN gr.CFGNodeVec
  BY <1>1, <1>3, <1>7
<1>9. NodesOf(gr, p[a]) \cap NodesOf(gr, p[b]) # {}
  BY <1>8, ElementFacts
<1> QED
  BY <1>7, <1>9, NothingTwice

LEMMA AfterIsWay ==
    ASSUME NEW gr \in Graphs, NEW p, IsWay(gr, p), NEW q \in After(gr, p)
    PROVE  /\ IsWay(gr, q) /\ Len(q) = Len(p) + 1
           /\ \E e \in Elements(gr) :
                 q = Append(p, e) /\ Last(q) = e /\ LeadsOn(gr, Last(p), e) /\ Last(p) # e
<1>1. PICK e \in Elements(gr) : q = Append(p, e) /\ Linked(gr, Last(p), e) /\ e \notin ToSet(p)
  BY DEF After
<1>2. p \in Seq(Elements(gr)) /\ p # << >>
  BY DEF IsWay
<1>3. Len(p) \in Nat \ {0} /\ Last(p) = p[Len(p)] /\ DOMAIN p = 1..Len(p)
  BY <1>2, FrontProperties, LenProperties
<1>4. Last(p) \in ToSet(p)
  BY <1>3 DEF ToSet
<1>5. LeadsOn(gr, Last(p), e) /\ Last(p) # e
  BY <1>1, <1>4 DEF LeadsOn
<1>6. Len(q) = Len(p) + 1 /\ q[Len(p) + 1] = e
  BY <1>1, <1>2, AppendProperties
<1>7. Last(q) = e
  BY <1>6 DEF Last
<1> QED
  BY <1>1, <1>5, <1>6, <1>7, LongerWay

LEMMA StepIsAfter ==
    ASSUME NEW gr \in Graphs, NEW p, IsWay(gr, p),
           NEW e \in Elements(gr), LeadsOn(gr, Last(p), e)
    PROVE  Append(p, e) \in After(gr, p)
<1> DEFINE q == Append(p, e)
           n == Len(p)
<1>1. p \in Seq(Elements(gr)) /\ n \in Nat /\ DOMAIN p = 1..n
  BY LenProperties DEF IsWay
<1>2. Len(q) = n + 1 /\ q[n+1] = e /\ \A a \in 1..n : q[a] = p[a]
  BY <1>1, AppendProperties
<1>3. IsWay(gr, q)
  BY LongerWay
<1> HIDE DEF q, n
<1>4. ASSUME e \in ToSet(p) PROVE FALSE
  <2>1. PICK a \in 1..n : p[a] = e
    BY <1>1, <1>4 DEF ToSet
  <2>2. a \in 1..n+1 /\ n + 1 \in 1..n+1 /\ a < n + 1
    BY <1>1
  <2>3. Height(gr)[q[n+1]] < Height(gr)[q[a]]
    BY <1>2, <1>3, <2>2 DEF IsWay
  <2>4. Height(gr)[e] < Height(gr)[e] /\ Height(gr)[e] \in Nat
    BY <1>2, <2>1, <2>3, HeightFalls
  <2> QED
    BY <2>4
<1> QED
  BY <1>4 DEF After, LeadsOn

(****************************************************************************)
(* What ofLength holds are the ways of this length that go on from the one  *)
(* to start from, and none of their ways on is longer than it reaches.      *)
(****************************************************************************)
LEMMA OfLengthAreWays ==
    ASSUME NEW gr \in Graphs, NEW from, IsWay(gr, from), NEW h, IsOfLength(gr, from, h)
    PROVE  /\ h[0] = {from} /\ DOMAIN h = 0..Len(gr.CFGNodeVec) /\ 0 \in DOMAIN h
           /\ \A n \in DOMAIN h : \A p \in h[n] :
                 /\ IsWay(gr, p) /\ p \in Ways(gr)
                 /\ \A q \in After(gr, p) : n + 1 \in DOMAIN h /\ q \in h[n+1]
           /\ \A n \in Nat : n + 1 \in DOMAIN h =>
                 n \in DOMAIN h /\ \A q \in h[n+1] : \E p \in h[n] : q \in After(gr, p)
<1> DEFINE L == Len(gr.CFGNodeVec)
           S == {n \in Nat : n \in 0..L => \A p \in h[n] : IsWay(gr, p) /\ Len(p) = Len(from) + n}
<1>1. L \in Nat /\ Len(from) \in Nat \ {0}
  BY GraphFacts, WayType
<1>2. DOMAIN h = 0..L /\ \A n \in 0..L : h[n] = Longer(gr, from, h, n)
  BY DEF IsOfLength
<1> HIDE DEF L
<1>3. 0 \in 0..L
  BY <1>1
<1>4. h[0] = {from}
  BY <1>2, <1>3 DEF Longer
<1>5. ASSUME NEW n \in Nat, n + 1 \in 0..L
      PROVE  n \in 0..L /\ h[n+1] = UNION {After(gr, p) : p \in h[n]}
  <2>1. n \in 0..L /\ n + 1 # 0 /\ (n + 1) - 1 = n
    BY <1>1, <1>5
  <2> QED
    BY <1>2, <1>5, <2>1 DEF Longer
<1>6. 0 \in S
  BY <1>1, <1>4
<1>7. ASSUME NEW n \in Nat, n \in S PROVE n + 1 \in S
  <2> SUFFICES ASSUME n + 1 \in 0..L, NEW q \in h[n+1]
               PROVE  IsWay(gr, q) /\ Len(q) = Len(from) + (n + 1)
    OBVIOUS
  <2>1. n \in 0..L /\ h[n+1] = UNION {After(gr, p) : p \in h[n]}
    BY <1>5
  <2>2. PICK p \in h[n] : q \in After(gr, p)
    BY <2>1
  <2>3. IsWay(gr, p) /\ Len(p) = Len(from) + n
    BY <1>7, <2>1
  <2>4. IsWay(gr, q) /\ Len(q) = Len(p) + 1
    BY <2>2, <2>3, AfterIsWay
  <2> QED
    BY <1>1, <2>3, <2>4
<1> HIDE DEF S
<1>8. Nat \subseteq S
  BY <1>6, <1>7, Inductive
<1>9. ASSUME NEW n \in 0..L, NEW p \in h[n]
      PROVE  /\ IsWay(gr, p) /\ p \in Ways(gr)
             /\ \A q \in After(gr, p) : n + 1 \in 0..L /\ q \in h[n+1]
  <2>1. IsWay(gr, p) /\ Len(p) = Len(from) + n
    <3>1. n \in Nat
      BY <1>1
    <3> QED
      BY <1>8, <3>1 DEF S
  <2>2. p \in Ways(gr)
    BY <2>1 DEF IsWay, Ways
  <2>3. ASSUME NEW q \in After(gr, p) PROVE n + 1 \in 0..L /\ q \in h[n+1]
    <3>1. IsWay(gr, q) /\ Len(q) = Len(p) + 1
      BY <2>1, AfterIsWay
    <3>2. Len(q) <= L
      BY <3>1, WaysAreShort DEF L
    <3>3. n + 1 \in 0..L
      BY <1>1, <2>1, <3>1, <3>2
    <3> QED
      BY <1>5, <3>3
  <2> QED
    BY <2>1, <2>2, <2>3
<1>10. ASSUME NEW n \in Nat, n + 1 \in 0..L
       PROVE  n \in 0..L /\ \A q \in h[n+1] : \E p \in h[n] : q \in After(gr, p)
  BY <1>5, <1>10
<1> QED
  BY <1>2, <1>3, <1>4, <1>9, <1>10 DEF L

(****************************************************************************)
(* Where loops can be left over their header, an element is left over one   *)
(* of its children to every other element that it is linked with.           *)
(****************************************************************************)
LEMMA ExitChild ==
    ASSUME NEW gr \in Graphs, ExitsAtHeader(gr), NEW e \in Elements(gr), NEW f \in Elements(gr),
           Linked(gr, e, f), e # f
    PROVE  \E j \in DOMAIN Childs(gr, e) : Element(gr, Childs(gr, e)[j]) = f
<1>1. PICK n \in NodesOf(gr, e) : ToSet(gr.CFGNodeVec[n].childs) \cap NodesOf(gr, f) # {}
  BY DEF Linked
<1>2. PICK c : c \in ToSet(gr.CFGNodeVec[n].childs) /\ c \in NodesOf(gr, f)
  BY <1>1
<1>3. PICK m \in DOMAIN gr.CFGNodeVec : e = Element(gr, m)
  BY DEF Elements
<1>4. n \in DOMAIN gr.CFGNodeVec
  BY <1>1, <1>3, ElementFacts DEF NodesOf, ANode, ALoop
<1>5. c \in DOMAIN gr.CFGNodeVec
  BY <1>2, <1>4, GraphFacts
<1>6. /\ Element(gr, n) \in Elements(gr) /\ n \in NodesOf(gr, Element(gr, n))
      /\ Element(gr, c) \in Elements(gr) /\ c \in NodesOf(gr, Element(gr, c))
  BY <1>4, <1>5, ElementFacts
<1>7. Element(gr, n) = e
  BY <1>1, <1>6, ElementsApart
<1>8. Element(gr, c) = f
  BY <1>2, <1>6, ElementsApart
<1>9. c \notin NodesOf(gr, e)
  BY <1>6, <1>8, ElementsApart
<1>10. c \in ToSet(Childs(gr, e))
  <2>1. CASE gr.CFGNodeVec[n].isLoopNode
    <3> DEFINE l == gr.CFGNodeVec[n].LCSSAIndex
    <3>1. e = ALoop(l) /\ l \in DOMAIN gr.LCSSAs
      BY <1>4, <1>7, <2>1, ElementFacts
    <3>2. ToSet(gr.CFGNodeVec[n].childs) \ NodesOf(gr, e) \subseteq ToSet(Childs(gr, e))
      BY <1>1, <3>1 DEF ExitsAtHeader
    <3> QED
      BY <1>2, <1>9, <3>2
  <2>2. CASE ~gr.CFGNodeVec[n].isLoopNode
    <3>1. e = ANode(n)
      BY <1>4, <1>7, <2>2, ElementFacts
    <3> QED
      BY <1>2, <3>1 DEF Childs, ExitNode, ANode
  <2> QED
    BY <2>1, <2>2
<1>11. PICK j \in DOMAIN Childs(gr, e) : Childs(gr, e)[j] = c
  BY <1>10 DEF ToSet
<1> QED
  BY <1>8, <1>11

(****************************************************************************)
(* What the search saves from a path is what it saves from those of its     *)
(* children that it does not stay in the loop for.                          *)
(****************************************************************************)
LEMMA SearchAtError ==
    ASSUME NEW gr \in Graphs, NEW a, NEW f, IsSearch(gr, a, f), NEW p \in Ways(gr),
           Last(p) = ANode(a)
    PROVE  ToSet(f[p]) = {Retyped(p)}
<1>1. f[p] = <<Retyped(p)>>
  BY SearchIsBody DEF Retyped
<1>2. \A x : ToSet(<<x>>) = {x}
  BY DEF ToSet
<1> QED
  BY <1>1, <1>2

LEMMA SearchMembers ==
    ASSUME NEW gr \in Graphs, NEW a, NEW f, IsSearch(gr, a, f), NEW p \in Ways(gr),
           Last(p) # ANode(a), NEW x
    PROVE  x \in ToSet(f[p]) <=>
              \E j \in DOMAIN Childs(gr, Last(p)) :
                 /\ ~Stays(gr, p, Childs(gr, Last(p))[j])
                 /\ x \in ToSet(f[Append(p, Element(gr, Childs(gr, Last(p))[j]))])
<1> DEFINE n == Len(Childs(gr, Last(p)))
           F == Pieces(gr, f, p)
           S == Seq(Path)
<1>1. n \in Nat /\ DOMAIN Childs(gr, Last(p)) = 1..n
  BY WayEnds
<1>2. f[p] = FlattenSeq(First(F, n))
  BY SearchIsBody DEF Found
<1>3. \A j \in 1..n : F[j] = Piece(gr, f, p, j) /\ F[j] \in Seq(S)
  BY <1>1, SearchType
<1> HIDE DEF n, F, S
<1>4. x \in ToSet(f[p]) <=> \E j \in 1..n : x \in ToSet(F[j])
  BY <1>1, <1>2, <1>3, FlattenMembers
<1>5. ASSUME NEW j \in 1..n
      PROVE  x \in ToSet(F[j]) <=>
                /\ ~Stays(gr, p, Childs(gr, Last(p))[j])
                /\ x \in ToSet(f[Append(p, Element(gr, Childs(gr, Last(p))[j]))])
  <2>1. ToSet(<< >>) = {}
    BY DEF ToSet
  <2> QED
    BY <1>3, <2>1 DEF Piece
<1> QED
  BY <1>1, <1>4, <1>5

(****************************************************************************)
(* All that the search saves are paths that there are.                      *)
(****************************************************************************)
LEMMA SearchIsReal ==
    ASSUME NEW gr \in Graphs, NEW from, IsWay(gr, from), NEW h, IsOfLength(gr, from, h),
           NEW a, NEW f, IsSearch(gr, a, f)
    PROVE  ToSet(f[from]) \subseteq RealOf(h, a)
<1> DEFINE height == Height(gr)
           S == {m \in Nat : \A n \in DOMAIN h : \A p \in h[n] :
                    height[Last(p)] < m => ToSet(f[p]) \subseteq RealOf(h, a)}
<1>1. \A n \in DOMAIN h : \A p \in h[n] : IsWay(gr, p) /\ p \in Ways(gr)
  BY OfLengthAreWays
<1>2. \A e \in Elements(gr) : height[e] \in Nat
  BY HeightFalls
<1>3. \A p \in Ways(gr) : height[Last(p)] \in Nat
  BY <1>2, WayEnds
<1>4. \A e, d \in Elements(gr) : LeadsOn(gr, e, d) => height[d] < height[e]
  BY HeightFalls
<1> HIDE DEF height
<1>5. 0 \in S
  BY <1>1, <1>3
<1>6. ASSUME NEW m \in Nat, m \in S PROVE m + 1 \in S
  <2> SUFFICES ASSUME NEW n \in DOMAIN h, NEW p \in h[n], height[Last(p)] < m + 1,
                      NEW x \in ToSet(f[p])
               PROVE  x \in RealOf(h, a)
    OBVIOUS
  <2>1. p \in Ways(gr) /\ IsWay(gr, p) /\ Last(p) \in Elements(gr)
    BY <1>1, WayEnds
  <2>2. CASE Last(p) = ANode(a)
    <3>1. x = Retyped(p)
      BY <2>1, <2>2, SearchAtError
    <3>2. p \in UNION {h[k] : k \in DOMAIN h}
      OBVIOUS
    <3> QED
      BY <2>2, <3>1, <3>2 DEF RealOf
  <2>3. CASE Last(p) # ANode(a)
    <3>1. PICK j \in DOMAIN Childs(gr, Last(p)) :
             /\ ~Stays(gr, p, Childs(gr, Last(p))[j])
             /\ x \in ToSet(f[Append(p, Element(gr, Childs(gr, Last(p))[j]))])
      BY <2>1, <2>3, SearchMembers
    <3> DEFINE e == Element(gr, Childs(gr, Last(p))[j])
               q == Append(p, e)
    <3>2. e \in Elements(gr) /\ LeadsOn(gr, Last(p), e) /\ Last(q) = e
      BY <2>1, <3>1, ChildWay
    <3>3. x \in ToSet(f[q])
      BY <3>1
    <3> HIDE DEF e
    <3>4. q \in After(gr, p)
      BY <2>1, <3>2, StepIsAfter
    <3> HIDE DEF q
    <3>5. n + 1 \in DOMAIN h /\ q \in h[n+1]
      BY <3>4, OfLengthAreWays
    <3>6. height[Last(q)] < m
      <4>1. height[e] < height[Last(p)] /\ height[e] \in Nat /\ height[Last(p)] \in Nat
        BY <1>2, <1>4, <2>1, <3>2
      <4> QED
        BY <3>2, <4>1
    <3> QED
      BY <1>6, <3>3, <3>5, <3>6
  <2> QED
    BY <2>2, <2>3
<1>7. from \in h[0] /\ 0 \in DOMAIN h
  BY OfLengthAreWays
<1>8. height[Last(from)] \in Nat
  BY <1>1, <1>3, <1>7
<1> HIDE DEF S
<1>9. height[Last(from)] + 1 \in S
  BY <1>5, <1>6, <1>8, Inductive
<1>10. height[Last(from)] < height[Last(from)] + 1
  BY <1>8
<1> QED
  BY <1>7, <1>9, <1>10 DEF S

(****************************************************************************)
(* Where loops can be left over their header, the search misses none of     *)
(* them: what it saves from a way it saves from the start, as long as the   *)
(* error node is not before the end of the way.                             *)
(****************************************************************************)
LEMMA SearchIsComplete ==
    ASSUME NEW gr \in Graphs, ExitsAtHeader(gr),
           NEW from, IsWay(gr, from), NEW h, IsOfLength(gr, from, h),
           NEW a, NEW f, IsSearch(gr, a, f)
    PROVE  RealOf(h, a) \subseteq ToSet(f[from])
<1> DEFINE Open(p) == \A b \in 1..Len(p)-1 : p[b] # ANode(a)
           S == {n \in Nat : n \in DOMAIN h => \A p \in h[n] :
                    Open(p) => ToSet(f[p]) \subseteq ToSet(f[from])}
<1>1. \A n \in DOMAIN h : \A p \in h[n] : IsWay(gr, p) /\ p \in Ways(gr)
  BY OfLengthAreWays
<1>2. 0 \in S
  BY OfLengthAreWays
<1>3. ASSUME NEW n \in Nat, n \in S PROVE n + 1 \in S
  <2> SUFFICES ASSUME n + 1 \in DOMAIN h, NEW q \in h[n+1], Open(q)
               PROVE  ToSet(f[q]) \subseteq ToSet(f[from])
    BY SMTT(30)
  <2>1. n \in DOMAIN h /\ \E p \in h[n] : q \in After(gr, p)
    BY OfLengthAreWays
  <2>2. PICK p \in h[n] : q \in After(gr, p)
    BY <2>1
  <2>3. IsWay(gr, p) /\ p \in Ways(gr)
    BY <1>1, <2>1
  <2>4. PICK e \in Elements(gr) :
           q = Append(p, e) /\ LeadsOn(gr, Last(p), e) /\ Last(p) # e
    BY <2>2, <2>3, AfterIsWay
  <2>5. /\ Len(p) \in Nat \ {0} /\ Last(p) = p[Len(p)] /\ Last(p) \in Elements(gr)
    BY <2>3, WayEnds
  <2>6. Len(q) = Len(p) + 1 /\ \A b \in 1..Len(p) : q[b] = p[b]
    <3>1. p \in Seq(Elements(gr))
      BY <2>3 DEF IsWay
    <3> QED
      BY <2>4, <3>1, AppendProperties
  <2>7. Open(p) /\ Last(p) # ANode(a)
    <3>1. \A b \in 1..Len(p) : b \in 1..Len(q)-1 /\ q[b] = p[b]
      BY <2>5, <2>6
    <3>2. \A b \in 1..Len(p) : p[b] # ANode(a)
      BY <3>1
    <3>3. Len(p) \in 1..Len(p) /\ \A b \in 1..Len(p)-1 : b \in 1..Len(p)
      BY <2>5
    <3> QED
      BY <2>5, <3>2, <3>3
  <2>8. PICK j \in DOMAIN Childs(gr, Last(p)) : Element(gr, Childs(gr, Last(p))[j]) = e
    BY <2>4, <2>5, ExitChild DEF LeadsOn
  <2>9. ~Stays(gr, p, Childs(gr, Last(p))[j])
    BY <2>4, <2>8 DEF Stays
  <2>10. \A x \in ToSet(f[q]) : x \in ToSet(f[p])
    BY <2>3, <2>4, <2>7, <2>8, <2>9, SearchMembers
  <2>11. ToSet(f[p]) \subseteq ToSet(f[from])
    BY <1>3, <2>1, <2>7
  <2> QED
    BY <2>10, <2>11
<1> HIDE DEF S
<1>4. Nat \subseteq S
  BY <1>2, <1>3, Inductive
<1>5. ASSUME NEW x \in RealOf(h, a) PROVE x \in ToSet(f[from])
  <2>1. PICK n \in DOMAIN h : \E p \in h[n] :
           x = Retyped(p) /\ Last(p) = ANode(a)
    BY DEF RealOf
  <2> PICK p \in h[n] : x = Retyped(p) /\ Last(p) = ANode(a)
    BY <2>1
  <2>2. IsWay(gr, p) /\ p \in Ways(gr) /\ Len(p) \in Nat \ {0} /\ Last(p) = p[Len(p)]
    BY <1>1, WayEnds
  <2>3. Open(p)
    <3> SUFFICES ASSUME NEW b \in 1..Len(p)-1, p[b] = ANode(a) PROVE FALSE
      OBVIOUS
    <3>1. b \in 1..Len(p) /\ Len(p) \in 1..Len(p) /\ b # Len(p)
      BY <2>2
    <3>2. NodesOf(gr, p[b]) \cap NodesOf(gr, p[Len(p)]) # {}
      BY <2>1, <2>2 DEF NodesOf, ANode
    <3> QED
      BY <2>2, <3>1, <3>2, NothingTwice
  <2>4. n \in S
    <3>1. n \in Nat
      BY OfLengthAreWays
    <3> QED
      BY <1>4, <3>1
  <2>5. x \in ToSet(f[p])
    <3>1. p \in Ways(gr) /\ Last(p) = ANode(a)
      BY <2>2
    <3>2. ToSet(f[p]) = {Retyped(p)}
      BY <3>1, SearchAtError
    <3> QED
      BY <3>2
  <2> QED
    BY <2>1, <2>3, <2>4, <2>5 DEF S
<1> QED
  BY <1>5

------------------------------------------------------------------------------
(****************************************************************************)
(* The inductive invariant for what the search has saved.                   *)
(****************************************************************************)
SearchInv ==
    /\ Inv
    /\ CallsInv
    /\ \A f : IsSearch(g, assertNodeIdx, f) => SavedInv(f)

LEMMA SearchInvHolds == Spec => []SearchInv
<1>1. Init => SearchInv
  BY InitInv, CallsStart, SavedStart DEF SearchInv
<1>2. SearchInv /\ [Next]_vars => SearchInv'
  <2> SUFFICES ASSUME SearchInv, [Next]_vars PROVE SearchInv'
    OBVIOUS
  <2>1. g' = g /\ assertNodeIdx' = assertNodeIdx
    BY DEF Next, ReachError, SkipLoopChild, Descend, BackUp, Finish, Terminated, vars
  <2>2. ASSUME NEW f, IsSearch(g, assertNodeIdx, f)' PROVE SavedInv(f)'
    <3>1. IsSearch(g, assertNodeIdx, f)
      BY <2>1, <2>2 DEF IsSearch
    <3> QED
      BY <3>1, SavedKept DEF SearchInv
  <2>3. Inv' /\ CallsInv'
    BY NextInv, CallsKept DEF SearchInv
  <2> QED
    BY <2>2, <2>3 DEF SearchInv
<1> QED
  BY <1>1, <1>2, PTL DEF Spec

(****************************************************************************)
(* When the outermost call has returned, what has been saved is what the    *)
(* search function says of the path to start from.                          *)
(****************************************************************************)
LEMMA DoneFound ==
    ASSUME SearchInv, pc = "done", NEW f, IsSearch(g, assertNodeIdx, f)
    PROVE  paths = f[start]
<1>1. Inv /\ CallsInv /\ paths = FlattenSeq(Parts(f, v, next))
  BY DEF SearchInv, SavedInv
<1>2. Len(next) = 1 /\ ~AtError /\ Last(next) > Len(CurrentChilds)
  BY <1>1 DEF CallsInv
<1>3. v = start
  <2>1. /\ Len(v) = Len(start) /\ \A a \in 1..Len(start) : v[a] = start[a]
    BY <1>1, <1>2, InvFacts
  <2>2. v \in Seq(Path) /\ start \in Seq(Path)
    BY <1>1, InvFacts DEF TypeOK
  <2> QED
    BY <2>1, <2>2, SeqEqual
<1>4. Found(g, f, v, Last(next) - 1) = f[v]
  BY <1>1, <1>2, ExhaustedFound
<1>5. FlattenSeq(First(Parts(f, v, next), Len(next)-1)) = << >>
  BY <1>2, FlattenNone
<1>6. paths = << >> \o f[v] /\ f[v] \in Seq(Seq(Path))
  BY <1>1, <1>4, <1>5, LastPart
<1> QED
  BY <1>3, <1>6, ConcatEmptySeq

(****************************************************************************)
(* collectVerifyPathErrInNode saves just the paths that ErrPathsInNode      *)
(* says, in their order; and where loops can be left over their header      *)
(* these are all the paths to the error node, in every graph.               *)
(****************************************************************************)
THEOREM FindsAllPaths == Spec => []PathsComplete
<1>1. SearchInv => PathsComplete
  <2> SUFFICES ASSUME SearchInv, pc = "done"
               PROVE  /\ paths = ErrPathsInNode(g, start, assertNodeIdx)
                      /\ ExitsAtHeader(g) => ToSet(paths) = RealPaths(g, start, assertNodeIdx)
    BY DEF PathsComplete
  <2> DEFINE f == CHOOSE ff : IsSearch(g, assertNodeIdx, ff)
             h == CHOOSE hh : IsOfLength(g, start, hh)
  <2>1. g \in Graphs /\ IsWay(g, start)
    BY InvFacts DEF SearchInv
  <2>2. IsSearch(g, assertNodeIdx, f)
    BY <2>1, SearchExists
  <2>3. IsOfLength(g, start, h)
    BY <2>1, OfLengthExists
  <2>4. ErrPathsInNode(g, start, assertNodeIdx) = f[start]
    BY ErrPathsAreSearch
  <2>5. RealPaths(g, start, assertNodeIdx) = RealOf(h, assertNodeIdx)
    BY RealPathsAreOfLength
  <2> HIDE DEF f, h
  <2>6. paths = f[start]
    BY <2>2, DoneFound
  <2>7. ToSet(f[start]) \subseteq RealOf(h, assertNodeIdx)
    BY <2>1, <2>2, <2>3, SearchIsReal
  <2>8. ASSUME ExitsAtHeader(g) PROVE RealOf(h, assertNodeIdx) \subseteq ToSet(f[start])
    BY <2>1, <2>2, <2>3, <2>8, SearchIsComplete
  <2> QED
    BY <2>4, <2>5, <2>6, <2>7, <2>8
<1> QED
  BY <1>1, SearchInvHolds, PTL

------------------------------------------------------------------------------
(****************************************************************************)
(* The other error path search, collectVerifyPathErrInLoop, on the same     *)
(* graph.  First the function that PathToLoop recurses on, from a path and  *)
(* the marks.                                                               *)
(****************************************************************************)
Marking(gr, p, marks) ==
    IF Last(p).type = "ALoop" THEN marks \cup NodesOf(gr, Last(p)) ELSE marks

Fresh(gr, p, marks) ==
    {j \in DOMAIN Childs(gr, Last(p)) : Childs(gr, Last(p))[j] \notin Marking(gr, p, marks)}

FirstFresh(gr, p, marks) == Childs(gr, Last(p))[Min(Fresh(gr, p, marks))]

Stepped(gr, p, marks) ==
    <<Append(p, Element(gr, FirstFresh(gr, p, marks))),
      Marking(gr, p, marks) \cup {FirstFresh(gr, p, marks)}>>

Backed(gr, p, marks) == <<Front(p), Marking(gr, p, marks)>>

Told(p) == [p EXCEPT ![Len(p)].type = "ERRORLOOP"]

LoopBody(gr, l, f, at) ==
    IF at[1] = << >> THEN << >>
    ELSE IF Last(at[1]) = ALoop(l) THEN Told(at[1])
    ELSE IF Fresh(gr, at[1], at[2]) = {} THEN f[Backed(gr, at[1], at[2])]
    ELSE f[Stepped(gr, at[1], at[2])]

LoopStates(gr) == Seq(Elements(gr)) \X SUBSET DOMAIN gr.CFGNodeVec

IsLoopSearch(gr, l, f) == f = [at \in LoopStates(gr) |-> LoopBody(gr, l, f, at)]

LoopStart(gr, i) == <<StartPath(gr, i), ToSet(Front(i))>>

LEMMA PathToLoopIsSearch ==
    ASSUME NEW gr, NEW i, NEW l
    PROVE  PathToLoop(gr, i, l) = (CHOOSE f : IsLoopSearch(gr, l, f))[LoopStart(gr, i)]
BY DEF PathToLoop, IsLoopSearch, LoopBody, LoopStates, LoopStart, Told, Backed, Stepped,
       FirstFresh, Fresh, Marking

(****************************************************************************)
(* What is left to do falls with every move: a step marks a node, for one   *)
(* element more, and going back takes an element off.                       *)
(****************************************************************************)
ToDo(gr, at) == 2 * Cardinality(DOMAIN gr.CFGNodeVec \ at[2]) + Len(at[1])

LEMMA LessToDo ==
    ASSUME NEW a \in Nat, NEW b \in Nat, NEW n \in Nat, b <= a
    PROVE  2 * b + n - 1 < 2 * a + n
OBVIOUS

LEMMA FreshChild ==
    ASSUME NEW gr \in Graphs, NEW p \in Seq(Elements(gr)), p # << >>,
           NEW marks, Fresh(gr, p, marks) # {}
    PROVE  LET c == FirstFresh(gr, p, marks)
           IN  /\ Min(Fresh(gr, p, marks)) \in Fresh(gr, p, marks)
               /\ c \in ToSet(Childs(gr, Last(p))) /\ c \in DOMAIN gr.CFGNodeVec
               /\ c \notin Marking(gr, p, marks)
<1>1. Last(p) \in Elements(gr)
  BY FrontProperties
<1>2. /\ Childs(gr, Last(p)) \in Seq(Nat)
      /\ \A c \in ToSet(Childs(gr, Last(p))) : c \in DOMAIN gr.CFGNodeVec
  BY <1>1, ChildFacts
<1>3. DOMAIN Childs(gr, Last(p)) \subseteq Nat
  BY <1>2, LenProperties
<1>4. Min(Fresh(gr, p, marks)) \in Fresh(gr, p, marks)
  <2>1. Fresh(gr, p, marks) \in SUBSET Nat
    BY <1>3 DEF Fresh
  <2> QED
    BY <2>1, LeastNumber
<1> QED
  BY <1>2, <1>4 DEF Fresh, FirstFresh, ToSet

LEMMA MarkingFacts ==
    ASSUME NEW gr \in Graphs, NEW p \in Seq(Elements(gr)), p # << >>,
           NEW marks \in SUBSET DOMAIN gr.CFGNodeVec
    PROVE  /\ Marking(gr, p, marks) \in SUBSET DOMAIN gr.CFGNodeVec
           /\ marks \subseteq Marking(gr, p, marks)
<1>1. Last(p) \in Elements(gr)
  BY FrontProperties
<1>2. Last(p).type = "ALoop" => NodesOf(gr, Last(p)) \subseteq DOMAIN gr.CFGNodeVec
  BY DEF NodesOf
<1> QED
  BY <1>2 DEF Marking

LEMMA NodesAreFinite ==
    ASSUME NEW gr \in Graphs
    PROVE  IsFiniteSet(DOMAIN gr.CFGNodeVec)
<1>1. DOMAIN gr.CFGNodeVec = 1..Len(gr.CFGNodeVec) /\ Len(gr.CFGNodeVec) \in Nat
  BY GraphFacts
<1>2. 1 \in Int /\ Len(gr.CFGNodeVec) \in Int
  BY <1>1
<1>3. IsFiniteSet(1..Len(gr.CFGNodeVec))
  BY <1>2, FS_Interval
<1> QED
  BY <1>1, <1>3

LEMMA ToDoFalls ==
    ASSUME NEW gr \in Graphs, NEW p \in Seq(Elements(gr)), p # << >>,
           NEW marks \in SUBSET DOMAIN gr.CFGNodeVec
    PROVE  /\ Fresh(gr, p, marks) = {} =>
                 /\ Backed(gr, p, marks) \in LoopStates(gr)
                 /\ ToDo(gr, Backed(gr, p, marks)) < ToDo(gr, <<p, marks>>)
           /\ Fresh(gr, p, marks) # {} =>
                 /\ Stepped(gr, p, marks) \in LoopStates(gr)
                 /\ ToDo(gr, Stepped(gr, p, marks)) < ToDo(gr, <<p, marks>>)
<1> DEFINE nodes == DOMAIN gr.CFGNodeVec
           more == Marking(gr, p, marks)
           c == FirstFresh(gr, p, marks)
           left(m) == Cardinality(nodes \ m)
<1>1. IsFiniteSet(nodes)
  BY NodesAreFinite
<1>2. \A m : IsFiniteSet(nodes \ m) /\ left(m) \in Nat
  BY <1>1, FS_Difference, FS_CardinalityType
<1>3. more \in SUBSET nodes /\ marks \subseteq more
  BY MarkingFacts
<1>4. left(more) <= left(marks)
  <2>1. nodes \ more \subseteq nodes \ marks
    BY <1>3
  <2> QED
    BY <1>2, <2>1, FS_Subset
<1>5. /\ Front(p) \in Seq(Elements(gr)) /\ Len(Front(p)) = Len(p) - 1 /\ Len(p) \in Nat \ {0}
  BY FrontProperties
<1>6. ASSUME Fresh(gr, p, marks) # {}
      PROVE  /\ c \in nodes /\ left(more \cup {c}) = left(more) - 1 /\ left(more \cup {c}) \in Nat
             /\ Append(p, Element(gr, c)) \in Seq(Elements(gr))
             /\ Len(Append(p, Element(gr, c))) = Len(p) + 1
  <2>1. c \in nodes /\ c \notin more
    BY <1>6, FreshChild
  <2>2. Element(gr, c) \in Elements(gr)
    BY <2>1, ElementFacts
  <2> HIDE DEF c, more, nodes
  <2>3. nodes \ (more \cup {c}) = (nodes \ more) \ {c} /\ c \in nodes \ more
    BY <2>1
  <2>4. Cardinality((nodes \ more) \ {c}) = Cardinality(nodes \ more) - 1
    BY <1>2, <2>3, FS_RemoveElement
  <2>5. left(more \cup {c}) = left(more) - 1 /\ left(more \cup {c}) \in Nat
    BY <1>2, <2>3, <2>4
  <2> HIDE DEF left
  <2> QED
    BY <2>1, <2>2, <2>5, AppendProperties
<1> HIDE DEF nodes, more, c, left
<1>7. ToDo(gr, <<p, marks>>) = 2 * left(marks) + Len(p)
  BY DEF ToDo, left, nodes
<1>8. CASE Fresh(gr, p, marks) = {}
  <2>1. Backed(gr, p, marks) = <<Front(p), more>>
    BY DEF Backed, more
  <2>2. ToDo(gr, <<Front(p), more>>) = 2 * left(more) + Len(p) - 1
    BY <1>2, <1>5 DEF ToDo, left, nodes
  <2>3. <<Front(p), more>> \in LoopStates(gr)
    BY <1>3, <1>5 DEF LoopStates, nodes
  <2>4. 2 * left(more) + Len(p) - 1 < 2 * left(marks) + Len(p)
    <3>1. left(more) \in Nat /\ left(marks) \in Nat /\ Len(p) \in Nat
      BY <1>2, <1>5
    <3> QED
      BY <1>4, <3>1, LessToDo
  <2> QED
    BY <1>7, <1>8, <2>1, <2>2, <2>3, <2>4
<1>9. CASE Fresh(gr, p, marks) # {}
  <2> DEFINE q == Append(p, Element(gr, c))
  <2>1. Stepped(gr, p, marks) = <<q, more \cup {c}>>
    BY DEF Stepped, more, c
  <2>2. q \in Seq(Elements(gr)) /\ Len(q) = Len(p) + 1
    BY <1>6, <1>9
  <2> HIDE DEF q
  <2>3. ToDo(gr, <<q, more \cup {c}>>) = 2 * left(more \cup {c}) + (Len(p) + 1)
    BY <2>2 DEF ToDo, left, nodes
  <2>4. <<q, more \cup {c}>> \in LoopStates(gr)
    BY <1>3, <1>6, <1>9, <2>2 DEF LoopStates, nodes
  <2>5. 2 * left(more \cup {c}) + (Len(p) + 1) < 2 * left(marks) + Len(p)
    <3> DEFINE x == left(more)
               y == left(more \cup {c})
               z == left(marks)
               n == Len(p)
    <3>1. x \in Nat /\ y \in Nat /\ z \in Nat /\ n \in Nat /\ x <= z /\ y = x - 1
      BY <1>2, <1>4, <1>5, <1>6, <1>9
    <3> HIDE DEF x, y, z, n
    <3>2. 2 * y + (n + 1) < 2 * z + n
      BY <3>1
    <3> QED
      BY <3>2 DEF x, y, z, n
  <2> QED
    BY <1>7, <1>9, <2>1, <2>3, <2>4, <2>5
<1> QED
  BY <1>8, <1>9

LEMMA StateFacts ==
    ASSUME NEW gr \in Graphs, NEW at \in LoopStates(gr)
    PROVE  /\ at[1] \in Seq(Elements(gr)) /\ at[2] \in SUBSET DOMAIN gr.CFGNodeVec
           /\ at = <<at[1], at[2]>>
           /\ ToDo(gr, at) \in Nat
<1>1. at[1] \in Seq(Elements(gr)) /\ at[2] \in SUBSET DOMAIN gr.CFGNodeVec /\ at = <<at[1], at[2]>>
  BY DEF LoopStates
<1>2. Len(at[1]) \in Nat
  BY <1>1, LenProperties
<1>3. Cardinality(DOMAIN gr.CFGNodeVec \ at[2]) \in Nat
  BY NodesAreFinite, FS_Difference, FS_CardinalityType
<1> QED
  BY <1>1, <1>2, <1>3 DEF ToDo

AgreeBelow(gr, at, f, h) ==
    \A bt \in LoopStates(gr) : ToDo(gr, bt) < ToDo(gr, at) => f[bt] = h[bt]

LEMMA LoopBodyAgrees ==
    ASSUME NEW gr \in Graphs, NEW l, NEW at \in LoopStates(gr), NEW f, NEW h,
           AgreeBelow(gr, at, f, h)
    PROVE  LoopBody(gr, l, f, at) = LoopBody(gr, l, h, at)
<1> DEFINE p == at[1]
           marks == at[2]
<1>1. /\ p \in Seq(Elements(gr)) /\ marks \in SUBSET DOMAIN gr.CFGNodeVec
      /\ at = <<p, marks>>
  BY StateFacts
<1> HIDE DEF p, marks
<1>2. CASE p = << >> \/ Last(p) = ALoop(l)
  BY <1>2 DEF LoopBody, p
<1>3. CASE p # << >> /\ Last(p) # ALoop(l) /\ Fresh(gr, p, marks) = {}
  <2>1. f[Backed(gr, p, marks)] = h[Backed(gr, p, marks)]
    BY <1>1, <1>3, ToDoFalls DEF AgreeBelow
  <2> QED
    BY <1>3, <2>1 DEF LoopBody, p, marks
<1>4. CASE p # << >> /\ Last(p) # ALoop(l) /\ Fresh(gr, p, marks) # {}
  <2>1. f[Stepped(gr, p, marks)] = h[Stepped(gr, p, marks)]
    BY <1>1, <1>4, ToDoFalls DEF AgreeBelow
  <2> QED
    BY <1>4, <2>1 DEF LoopBody, p, marks
<1> QED
  BY <1>2, <1>3, <1>4

(****************************************************************************)
(* A function that is right where there is little to do can be extended to  *)
(* where there is more, any two of them agree, and so their values make the *)
(* function.                                                                *)
(****************************************************************************)
LoopBelow(gr, l, m, f) ==
    \A at \in LoopStates(gr) :
        ToDo(gr, at) < m => f[at] = LoopBody(gr, l, f, at)

LEMMA LoopBelowExists ==
    ASSUME NEW gr \in Graphs, NEW l
    PROVE  \A m \in Nat : \E f : LoopBelow(gr, l, m, f)
<1> DEFINE S == {m \in Nat : \E f : LoopBelow(gr, l, m, f)}
<1>1. \A at \in LoopStates(gr) : ToDo(gr, at) \in Nat
  BY StateFacts
<1>2. 0 \in S
  <2>1. LoopBelow(gr, l, 0, << >>)
    BY <1>1 DEF LoopBelow
  <2> QED
    BY <2>1
<1>3. ASSUME NEW m \in Nat, m \in S PROVE m + 1 \in S
  <2>1. PICK f : LoopBelow(gr, l, m, f)
    BY <1>3
  <2> DEFINE h == [at \in LoopStates(gr) |-> IF ToDo(gr, at) < m THEN f[at]
                                             ELSE LoopBody(gr, l, f, at)]
  <2>2. \A at \in LoopStates(gr) :
           h[at] = IF ToDo(gr, at) < m THEN f[at] ELSE LoopBody(gr, l, f, at)
    OBVIOUS
  <2> HIDE DEF h
  <2>3. ASSUME NEW at \in LoopStates(gr), ToDo(gr, at) < m + 1
        PROVE  h[at] = LoopBody(gr, l, h, at)
    <3>1. h[at] = LoopBody(gr, l, f, at)
      BY <2>1, <2>2 DEF LoopBelow
    <3>2. AgreeBelow(gr, at, f, h)
      BY <1>1, <2>2, <2>3 DEF AgreeBelow
    <3>3. LoopBody(gr, l, f, at) = LoopBody(gr, l, h, at)
      BY <3>2, LoopBodyAgrees
    <3> QED
      BY <3>1, <3>3
  <2>4. LoopBelow(gr, l, m + 1, h)
    BY <2>3 DEF LoopBelow
  <2> QED
    BY <2>4
<1> HIDE DEF S
<1>4. Nat \subseteq S
  BY <1>2, <1>3, Inductive
<1> QED
  BY <1>4 DEF S

LEMMA LoopBelowAgree ==
    ASSUME NEW gr \in Graphs, NEW l, NEW m \in Nat, NEW n \in Nat, m <= n,
           NEW f, LoopBelow(gr, l, m, f), NEW h, LoopBelow(gr, l, n, h)
    PROVE  \A at \in LoopStates(gr) : ToDo(gr, at) < m => f[at] = h[at]
<1> DEFINE S == {k \in Nat : \A at \in LoopStates(gr) :
                    ToDo(gr, at) < k /\ ToDo(gr, at) < m => f[at] = h[at]}
<1>1. \A at \in LoopStates(gr) : ToDo(gr, at) \in Nat
  BY StateFacts
<1>2. 0 \in S
  BY <1>1
<1>3. ASSUME NEW k \in Nat, k \in S PROVE k + 1 \in S
  <2> SUFFICES ASSUME NEW at \in LoopStates(gr), ToDo(gr, at) < k + 1, ToDo(gr, at) < m
               PROVE  f[at] = h[at]
    OBVIOUS
  <2>1. /\ f[at] = LoopBody(gr, l, f, at)
        /\ h[at] = LoopBody(gr, l, h, at)
    BY <1>1 DEF LoopBelow
  <2>2. ASSUME NEW bt \in LoopStates(gr), ToDo(gr, bt) < ToDo(gr, at)
        PROVE  f[bt] = h[bt]
    <3>1. ToDo(gr, bt) < k /\ ToDo(gr, bt) < m
      BY <1>1, <2>2
    <3> QED
      BY <1>3, <3>1
  <2>3. LoopBody(gr, l, f, at) = LoopBody(gr, l, h, at)
    <3>1. AgreeBelow(gr, at, f, h)
      BY <2>2 DEF AgreeBelow
    <3> QED
      BY <3>1, LoopBodyAgrees
  <2> QED
    BY <2>1, <2>3
<1> HIDE DEF S
<1>4. Nat \subseteq S
  BY <1>2, <1>3, Inductive
<1> QED
  BY <1>4 DEF S

LEMMA LoopSearchExists ==
    ASSUME NEW gr \in Graphs, NEW l
    PROVE  \E f : IsLoopSearch(gr, l, f)
<1> DEFINE F(m) == CHOOSE f : LoopBelow(gr, l, m, f)
           h == [at \in LoopStates(gr) |-> F(ToDo(gr, at) + 1)[at]]
<1>1. \A m \in Nat : LoopBelow(gr, l, m, F(m))
  BY LoopBelowExists
<1>2. \A at \in LoopStates(gr) : ToDo(gr, at) \in Nat /\ h[at] = F(ToDo(gr, at) + 1)[at]
  BY StateFacts
<1>3. h = [at \in LoopStates(gr) |-> h[at]]
  OBVIOUS
<1> HIDE DEF F, h
<1>4. ASSUME NEW at \in LoopStates(gr)
      PROVE  h[at] = LoopBody(gr, l, h, at)
  <2> DEFINE k == ToDo(gr, at)
  <2>1. k \in Nat /\ k + 1 \in Nat /\ k < k + 1
    BY <1>2
  <2>2. LoopBelow(gr, l, k + 1, F(k + 1))
    BY <1>1, <2>1
  <2>3. h[at] = LoopBody(gr, l, F(k + 1), at)
    BY <1>2, <2>1, <2>2 DEF LoopBelow
  <2>4. ASSUME NEW bt \in LoopStates(gr), ToDo(gr, bt) < ToDo(gr, at)
        PROVE  F(k + 1)[bt] = h[bt]
    <3> DEFINE n == ToDo(gr, bt)
    <3>1. n \in Nat /\ n + 1 \in Nat /\ n + 1 <= k + 1 /\ n < n + 1
      BY <1>2, <2>1, <2>4
    <3>2. LoopBelow(gr, l, n + 1, F(n + 1))
      BY <1>1, <3>1
    <3>3. F(n + 1)[bt] = F(k + 1)[bt]
      BY <2>1, <2>2, <3>1, <3>2, LoopBelowAgree
    <3> QED
      BY <1>2, <3>3
  <2>5. LoopBody(gr, l, F(k + 1), at) = LoopBody(gr, l, h, at)
    <3>1. AgreeBelow(gr, at, F(k + 1), h)
      BY <2>4 DEF AgreeBelow
    <3> QED
      BY <3>1, LoopBodyAgrees
  <2> QED
    BY <2>3, <2>5
<1>5. h = [at \in LoopStates(gr) |-> LoopBody(gr, l, h, at)]
  BY <1>3, <1>4
<1> QED
  BY <1>5 DEF IsLoopSearch

LEMMA LoopSearchValue ==
    ASSUME NEW gr, NEW l, NEW f, IsLoopSearch(gr, l, f),
           NEW p \in Seq(Elements(gr)), NEW marks \in SUBSET DOMAIN gr.CFGNodeVec
    PROVE  f[<<p, marks>>] = LoopBody(gr, l, f, <<p, marks>>)
<1> DEFINE value(at) == LoopBody(gr, l, f, at)
<1>1. f = [at \in LoopStates(gr) |-> value(at)]
  BY DEF IsLoopSearch
<1>2. <<p, marks>> \in LoopStates(gr)
  BY DEF LoopStates
<1> HIDE DEF value
<1>3. f[<<p, marks>>] = value(<<p, marks>>)
  BY <1>1, <1>2
<1> QED
  BY <1>3 DEF value

------------------------------------------------------------------------------
(****************************************************************************)
(* The path the search in a loop builds: a path of the program, and nothing *)
(* is on it twice.                                                          *)
(****************************************************************************)
LoopWay(gr, p) ==
    /\ p \in Seq(Elements(gr))
    /\ p # << >> => p[1] = Element(gr, 1)
    /\ IsChain(gr, p)
    /\ \A a, b \in 1..Len(p) : p[a] = p[b] => a = b

(****************************************************************************)
(* What the marks say: all nodes of the path are marked but those of a loop *)
(* at its end; and what is marked is on the path, or has been left for good *)
(* with all its children marked.                                            *)
(****************************************************************************)
LeftForGood(gr, l, e, marks) == e # ALoop(l) /\ ToSet(Childs(gr, e)) \subseteq marks

LoopMarks(gr, l, p, marks) ==
    /\ marks \in SUBSET DOMAIN gr.CFGNodeVec
    /\ 1 \in marks
    /\ \A a \in 1..Len(p)-1 : NodesOf(gr, p[a]) \subseteq marks
    /\ p # << >> /\ Last(p).type = "ANode" => Last(p).idx \in marks
    /\ \A n \in marks :
          Element(gr, n) \in ToSet(p) \/ LeftForGood(gr, l, Element(gr, n), marks)

LEMMA ElementType ==
    ASSUME NEW gr \in Graphs, NEW e \in Elements(gr)
    PROVE  /\ e \in Path
           /\ \/ /\ e.type = "ALoop"
                 /\ e = ALoop(e.idx) /\ e.idx \in DOMAIN gr.LCSSAs
              \/ /\ e.type = "ANode"
                 /\ e = ANode(e.idx) /\ e.idx \in DOMAIN gr.CFGNodeVec
                 /\ ~gr.CFGNodeVec[e.idx].isLoopNode
           /\ \A n \in NodesOf(gr, e) : n \in DOMAIN gr.CFGNodeVec /\ Element(gr, n) = e
<1>1. PICK n \in DOMAIN gr.CFGNodeVec : e = Element(gr, n)
  BY DEF Elements
<1>2. /\ e \in Path
      /\ \/ /\ e.type = "ALoop"
            /\ e = ALoop(e.idx) /\ e.idx \in DOMAIN gr.LCSSAs
         \/ /\ e.type = "ANode"
            /\ e = ANode(e.idx) /\ e.idx \in DOMAIN gr.CFGNodeVec
            /\ ~gr.CFGNodeVec[e.idx].isLoopNode
  BY <1>1, ElementFacts DEF ALoop, ANode
<1>3. ASSUME NEW m \in NodesOf(gr, e)
      PROVE  m \in DOMAIN gr.CFGNodeVec /\ Element(gr, m) = e
  <2>1. m \in DOMAIN gr.CFGNodeVec
    BY <1>2, <1>3 DEF NodesOf
  <2>2. Element(gr, m) \in Elements(gr) /\ m \in NodesOf(gr, Element(gr, m))
    BY <2>1, ElementFacts
  <2> QED
    BY <1>3, <2>1, <2>2, ElementsApart
<1> QED
  BY <1>2, <1>3

LEMMA PathFacts ==
    ASSUME NEW S, NEW p \in Seq(S), p # << >>
    PROVE  /\ Len(p) \in Nat \ {0} /\ Last(p) = p[Len(p)] /\ Last(p) \in S
           /\ \A a \in 1..Len(p) : p[a] \in S
           /\ ToSet(p) = {p[a] : a \in 1..Len(p)}
<1>1. DOMAIN p = 1..Len(p)
  BY LenProperties
<1> QED
  BY <1>1, FrontProperties, ElementOfSeq DEF ToSet

(****************************************************************************)
(* When the search moves, all nodes of the path are marked.                 *)
(****************************************************************************)
LEMMA PathIsMarked ==
    ASSUME NEW gr \in Graphs, NEW l, NEW p \in Seq(Elements(gr)), p # << >>,
           NEW marks, LoopMarks(gr, l, p, marks)
    PROVE  \A a \in 1..Len(p) : NodesOf(gr, p[a]) \subseteq Marking(gr, p, marks)
<1>1. marks \in SUBSET DOMAIN gr.CFGNodeVec /\ marks \subseteq Marking(gr, p, marks)
  BY MarkingFacts DEF LoopMarks
<1>2. Len(p) \in Nat \ {0} /\ Last(p) = p[Len(p)] /\ Last(p) \in Elements(gr)
  BY PathFacts
<1>3. NodesOf(gr, Last(p)) \subseteq Marking(gr, p, marks)
  <2>1. CASE Last(p).type = "ALoop"
    BY <2>1 DEF Marking
  <2>2. CASE Last(p).type = "ANode"
    BY <1>1, <2>2 DEF LoopMarks, NodesOf
  <2> QED
    BY <1>2, <2>1, <2>2, ElementType
<1>4. ASSUME NEW a \in 1..Len(p), a # Len(p)
      PROVE  NodesOf(gr, p[a]) \subseteq Marking(gr, p, marks)
  <2>1. a \in 1..Len(p)-1
    BY <1>2, <1>4
  <2> QED
    BY <1>1, <2>1 DEF LoopMarks
<1> QED
  BY <1>2, <1>3, <1>4

(****************************************************************************)
(* What is marked when the search moves is on the path or left for good.    *)
(****************************************************************************)
LEMMA MarkedAreKnown ==
    ASSUME NEW gr \in Graphs, NEW l, NEW p \in Seq(Elements(gr)), p # << >>,
           NEW marks, LoopMarks(gr, l, p, marks)
    PROVE  \A n \in Marking(gr, p, marks) :
              Element(gr, n) \in ToSet(p) \/ LeftForGood(gr, l, Element(gr, n), marks)
<1>1. Last(p) \in Elements(gr) /\ Last(p) \in ToSet(p)
  BY PathFacts
<1>2. \A n \in NodesOf(gr, Last(p)) : Element(gr, n) = Last(p)
  BY <1>1, ElementType
<1> QED
  BY <1>1, <1>2 DEF Marking, LoopMarks

(****************************************************************************)
(* A step onto a child that is not marked makes the path longer.            *)
(****************************************************************************)
LEMMA LoopStepKeeps ==
    ASSUME NEW gr \in Graphs, NEW l, NEW p, p # << >>, LoopWay(gr, p),
           NEW marks, LoopMarks(gr, l, p, marks), Fresh(gr, p, marks) # {},
           NEW q, NEW more, <<q, more>> = Stepped(gr, p, marks)
    PROVE  LoopWay(gr, q) /\ LoopMarks(gr, l, q, more)
<1> DEFINE c == FirstFresh(gr, p, marks)
           e == Element(gr, c)
           old == Marking(gr, p, marks)
<1>1. /\ p \in Seq(Elements(gr)) /\ p[1] = Element(gr, 1) /\ IsChain(gr, p)
      /\ \A a, b \in 1..Len(p) : p[a] = p[b] => a = b
  BY DEF LoopWay
<1>2. /\ Len(p) \in Nat \ {0} /\ Last(p) = p[Len(p)] /\ Last(p) \in Elements(gr)
      /\ \A a \in 1..Len(p) : p[a] \in Elements(gr)
      /\ ToSet(p) = {p[a] : a \in 1..Len(p)}
  BY <1>1, PathFacts
<1>3. marks \in SUBSET DOMAIN gr.CFGNodeVec
  BY DEF LoopMarks
<1>4. old \in SUBSET DOMAIN gr.CFGNodeVec /\ marks \subseteq old
  BY <1>1, <1>3, MarkingFacts
<1>5. c \in ToSet(Childs(gr, Last(p))) /\ c \in DOMAIN gr.CFGNodeVec /\ c \notin old
  BY <1>1, FreshChild
<1>6. e \in Elements(gr) /\ c \in NodesOf(gr, e) /\ Linked(gr, Last(p), e)
  BY <1>2, <1>5, ElementFacts, ChildFacts
<1>7. q = Append(p, e) /\ more = old \cup {c}
  BY DEF Stepped
<1> HIDE DEF e, c
<1>8. /\ q \in Seq(Elements(gr)) /\ q # << >> /\ Len(q) = Len(p) + 1
      /\ \A a \in 1..Len(p) : q[a] = p[a]
      /\ q[Len(p) + 1] = e
  BY <1>1, <1>6, <1>7, AppendProperties
<1>9. \A a \in 1..Len(p) : NodesOf(gr, p[a]) \subseteq old
  BY <1>1, PathIsMarked
<1>10. \A a \in 1..Len(p) : p[a] # e
  BY <1>5, <1>6, <1>9
<1>11. IsChain(gr, q)
  <2> SUFFICES ASSUME NEW a \in 1..Len(q)-1 PROVE Linked(gr, q[a], q[a+1])
    BY DEF IsChain
  <2>1. CASE a = Len(p)
    BY <1>2, <1>6, <1>8, <2>1
  <2>2. CASE a # Len(p)
    <3>1. a \in 1..Len(p)-1 /\ q[a] = p[a] /\ q[a+1] = p[a+1]
      BY <1>2, <1>8, <2>2
    <3> QED
      BY <1>1, <3>1 DEF IsChain
  <2> QED
    BY <2>1, <2>2
<1>12. ASSUME NEW a \in 1..Len(q), NEW b \in 1..Len(q), q[a] = q[b] PROVE a = b
  <2>1. a \in 1..Len(p) \/ a = Len(q)
    BY <1>2, <1>8
  <2>2. b \in 1..Len(p) \/ b = Len(q)
    BY <1>2, <1>8
  <2>3. q[Len(q)] = e
    BY <1>8
  <2> QED
    BY <1>1, <1>8, <1>10, <1>12, <2>1, <2>2, <2>3
<1>13. LoopWay(gr, q)
  <2>1. q[1] = p[1]
    BY <1>2, <1>8
  <2> QED
    BY <1>1, <1>8, <1>11, <1>12, <2>1 DEF LoopWay
<1>14. Last(q) = e
  BY <1>8 DEF Last
<1>15. \A x \in ToSet(p) : x \in ToSet(q)
  <2>1. ToSet(q) = {q[a] : a \in 1..Len(q)}
    BY <1>8, PathFacts
  <2>2. \A a \in 1..Len(p) : a \in 1..Len(q)
    BY <1>2, <1>8
  <2> QED
    BY <1>2, <1>8, <2>1, <2>2
<1>16. e \in ToSet(q)
  BY <1>8, <1>14, PathFacts
<1>17. e.type = "ANode" => e.idx = c
  <2>1. e = ANode(e.idx) \/ e.type # "ANode"
    BY <1>6, ElementType
  <2> QED
    BY <1>6, <2>1 DEF NodesOf, ANode
<1>18. LoopMarks(gr, l, q, more)
  <2>1. more \in SUBSET DOMAIN gr.CFGNodeVec /\ marks \subseteq more /\ c \in more
    BY <1>4, <1>5, <1>7
  <2>2. 1 \in more
    BY <2>1 DEF LoopMarks
  <2>3. ASSUME NEW a \in 1..Len(q)-1 PROVE NodesOf(gr, q[a]) \subseteq more
    <3>1. a \in 1..Len(p)
      BY <1>2, <1>8
    <3> QED
      BY <1>7, <1>8, <1>9, <3>1
  <2>4. Last(q).type = "ANode" => Last(q).idx \in more
    BY <1>14, <1>17, <2>1
  <2>5. ASSUME NEW n \in more
        PROVE  Element(gr, n) \in ToSet(q) \/ LeftForGood(gr, l, Element(gr, n), more)
    <3>1. CASE n = c
      BY <1>16, <3>1 DEF e
    <3>2. CASE n \in old
      <4>1. Element(gr, n) \in ToSet(p) \/ LeftForGood(gr, l, Element(gr, n), marks)
        BY <1>1, <3>2, MarkedAreKnown
      <4> QED
        BY <1>15, <2>1, <4>1 DEF LeftForGood
    <3> QED
      BY <1>7, <3>1, <3>2
  <2> QED
    BY <2>1, <2>2, <2>3, <2>4, <2>5 DEF LoopMarks
<1> QED
  BY <1>13, <1>18

(****************************************************************************)
(* Going back from an element that has no such child leaves it for good.    *)
(****************************************************************************)
LEMMA LoopBackKeeps ==
    ASSUME NEW gr \in Graphs, NEW l, NEW p, p # << >>, LoopWay(gr, p), Last(p) # ALoop(l),
           NEW marks, LoopMarks(gr, l, p, marks), Fresh(gr, p, marks) = {},
           NEW q, NEW more, <<q, more>> = Backed(gr, p, marks)
    PROVE  LoopWay(gr, q) /\ LoopMarks(gr, l, q, more)
<1>1. /\ p \in Seq(Elements(gr)) /\ p[1] = Element(gr, 1) /\ IsChain(gr, p)
      /\ \A a, b \in 1..Len(p) : p[a] = p[b] => a = b
  BY DEF LoopWay
<1>2. /\ Len(p) \in Nat \ {0} /\ Last(p) = p[Len(p)] /\ Last(p) \in Elements(gr)
      /\ \A a \in 1..Len(p) : p[a] \in Elements(gr)
      /\ ToSet(p) = {p[a] : a \in 1..Len(p)}
  BY <1>1, PathFacts
<1>3. marks \in SUBSET DOMAIN gr.CFGNodeVec
  BY DEF LoopMarks
<1>4. q = Front(p) /\ more = Marking(gr, p, marks)
  BY DEF Backed
<1>5. more \in SUBSET DOMAIN gr.CFGNodeVec /\ marks \subseteq more
  BY <1>1, <1>3, <1>4, MarkingFacts
<1>6. /\ q \in Seq(Elements(gr)) /\ Len(q) = Len(p) - 1
      /\ \A a \in 1..Len(p)-1 : q[a] = p[a]
  BY <1>1, <1>4, FrontProperties
<1>7. ToSet(Childs(gr, Last(p))) \subseteq more
  BY <1>4 DEF Fresh, ToSet
<1>8. LoopWay(gr, q)
  <2>1. q # << >> => q[1] = Element(gr, 1)
    <3> SUFFICES ASSUME q # << >> PROVE q[1] = Element(gr, 1)
      OBVIOUS
    <3>1. 1 \in 1..Len(p)-1
      BY <1>2, <1>6, PathFacts
    <3> QED
      BY <1>1, <1>6, <3>1
  <2>2. IsChain(gr, q)
    <3> SUFFICES ASSUME NEW a \in 1..Len(q)-1 PROVE Linked(gr, q[a], q[a+1])
      BY DEF IsChain
    <3>1. a \in 1..Len(p)-1 /\ q[a] = p[a] /\ q[a+1] = p[a+1]
      BY <1>2, <1>6
    <3> QED
      BY <1>1, <3>1 DEF IsChain
  <2>3. ASSUME NEW a \in 1..Len(q), NEW b \in 1..Len(q), q[a] = q[b] PROVE a = b
    <3>1. a \in 1..Len(p) /\ b \in 1..Len(p) /\ q[a] = p[a] /\ q[b] = p[b]
      BY <1>2, <1>6
    <3> QED
      BY <1>1, <2>3, <3>1
  <2> QED
    BY <1>6, <2>1, <2>2, <2>3 DEF LoopWay
<1>9. ASSUME NEW x \in ToSet(p), x # Last(p) PROVE x \in ToSet(q)
  <2>1. PICK a \in 1..Len(p) : x = p[a]
    BY <1>2, <1>9
  <2>2. a \in 1..Len(q) /\ a \in 1..Len(p)-1
    BY <1>2, <1>6, <1>9, <2>1
  <2>3. q # << >>
    BY <1>6, <2>2, EmptySeq
  <2> QED
    BY <1>6, <2>1, <2>2, <2>3, PathFacts
<1>10. LoopMarks(gr, l, q, more)
  <2>1. 1 \in more
    BY <1>5 DEF LoopMarks
  <2>2. ASSUME NEW a \in 1..Len(q) PROVE NodesOf(gr, q[a]) \subseteq marks
    <3>1. a \in 1..Len(p)-1
      BY <1>2, <1>6
    <3> QED
      BY <1>6, <3>1 DEF LoopMarks
  <2>3. \A a \in 1..Len(q)-1 : NodesOf(gr, q[a]) \subseteq more
    <3>1. \A a \in 1..Len(q)-1 : a \in 1..Len(q)
      BY <1>2, <1>6
    <3> QED
      BY <1>5, <2>2, <3>1
  <2>4. ASSUME q # << >>, Last(q).type = "ANode" PROVE Last(q).idx \in more
    <3>1. Len(q) \in 1..Len(q) /\ Last(q) = q[Len(q)]
      BY <1>6, <2>4, PathFacts
    <3>2. NodesOf(gr, Last(q)) \subseteq marks
      BY <2>2, <3>1
    <3> QED
      BY <1>5, <2>4, <3>2 DEF NodesOf
  <2>5. ASSUME NEW n \in more
        PROVE  Element(gr, n) \in ToSet(q) \/ LeftForGood(gr, l, Element(gr, n), more)
    <3>1. Element(gr, n) \in ToSet(p) \/ LeftForGood(gr, l, Element(gr, n), marks)
      BY <1>1, <1>4, MarkedAreKnown
    <3>2. CASE Element(gr, n) = Last(p)
      BY <1>7, <3>2 DEF LeftForGood
    <3>3. CASE Element(gr, n) # Last(p)
      BY <1>5, <1>9, <3>1, <3>3 DEF LeftForGood
    <3> QED
      BY <3>2, <3>3
  <2> QED
    BY <1>5, <2>1, <2>3, <2>4, <2>5 DEF LoopMarks
<1> QED
  BY <1>8, <1>10

(****************************************************************************)
(* What the search starts from.                                             *)
(****************************************************************************)
LEMMA LoopStartKeeps ==
    ASSUME NEW gr \in Graphs, NEW l, NEW i \in ToSet(InitNodesOf(gr))
    PROVE  /\ LoopWay(gr, StartPath(gr, i)) /\ StartPath(gr, i) # << >>
           /\ LoopMarks(gr, l, StartPath(gr, i), ToSet(Front(i)))
<1> DEFINE Nodes == DOMAIN gr.CFGNodeVec
           p == StartPath(gr, i)
           front == [a \in 1..Len(i)-1 |-> ANode(i[a])]
           loop == ALoop(gr.CFGNodeVec[Last(i)].LCSSAIndex)
           marks == ToSet(Front(i))
<1>1. /\ i \in Seq(Nodes) /\ i # << >> /\ i[1] = 1
      /\ \A a \in 1..Len(i)-1 : ~gr.CFGNodeVec[i[a]].isLoopNode
      /\ gr.CFGNodeVec[Last(i)].isLoopNode
  BY InitPathsLeadToLoops DEF IsInitPath
<1>2. ~gr.CFGNodeVec[1].isLoopNode
  BY GraphsAssumption
<1>3. /\ Len(i) \in Nat \ {0} /\ Last(i) = i[Len(i)] /\ \A a \in 1..Len(i) : i[a] \in Nodes
      /\ Front(i) \in Seq(Nodes) /\ Len(Front(i)) = Len(i) - 1
      /\ \A a \in 1..Len(i)-1 : Front(i)[a] = i[a]
  <2> HIDE DEF Nodes
  <2> QED
    BY <1>1, FrontProperties, ElementOfSeq
<1>4. Len(i) > 1
  BY <1>1, <1>2, <1>3
<1>5. marks = {i[a] : a \in 1..Len(i)-1}
  <2> HIDE DEF Nodes
  <2>1. DOMAIN Front(i) = 1..Len(i)-1
    BY <1>3, LenProperties
  <2> QED
    BY <1>3, <2>1 DEF ToSet
<1>6. /\ Len(p) = Len(i)
      /\ \A a \in 1..Len(i)-1 : p[a] = ANode(i[a])
      /\ p[Len(i)] = loop
  <2>1. front \in Seq({ANode(n) : n \in Nodes}) /\ Len(front) = Len(i) - 1
    <3>1. \A a \in 1..Len(i)-1 : ANode(i[a]) \in {ANode(n) : n \in Nodes}
      BY <1>3
    <3>2. front \in [1..Len(i)-1 -> {ANode(n) : n \in Nodes}] /\ Len(i) - 1 \in Nat
      BY <1>3, <3>1
    <3> HIDE DEF front, Nodes
    <3> QED
      BY <3>2
  <2>2. \A a \in 1..Len(i)-1 : front[a] = ANode(i[a])
    OBVIOUS
  <2>3. p = Append(front, loop)
    BY DEF StartPath
  <2> HIDE DEF front, p, loop, Nodes
  <2>4. /\ front \in Seq({ANode(n) : n \in Nodes} \cup {loop})
        /\ loop \in {ANode(n) : n \in Nodes} \cup {loop}
    BY <2>1, SeqMonotonic
  <2>5. /\ Len(p) = Len(front) + 1
        /\ \A a \in 1..Len(front) : p[a] = front[a]
        /\ p[Len(front) + 1] = loop
    BY <2>3, <2>4, AppendProperties
  <2> QED
    BY <1>3, <2>1, <2>2, <2>5
<1>7. IsWay(gr, p) /\ Last(p).type = "ALoop"
  BY StartIsWay
<1>8. p \in Seq(Elements(gr)) /\ p # << >> /\ IsChain(gr, p)
  BY <1>7 DEF IsWay
<1> HIDE DEF p, marks, Nodes, loop, front
<1>9. \A a \in 1..Len(p) : p[a] \in Elements(gr)
  BY <1>8, PathFacts
<1>10. ASSUME NEW a \in 1..Len(p), NEW b \in 1..Len(p), p[a] = p[b] PROVE a = b
  <2>1. PICK n \in DOMAIN gr.CFGNodeVec : p[a] = Element(gr, n)
    BY <1>9 DEF Elements
  <2>2. NodesOf(gr, p[a]) \cap NodesOf(gr, p[b]) # {}
    BY <1>10, <2>1, ElementFacts
  <2> QED
    BY <1>7, <2>2, NothingTwice
<1>11. \A a \in 1..Len(i)-1 : Element(gr, i[a]) = ANode(i[a])
  BY <1>1, <1>3 DEF Nodes, Element
<1>12. LoopWay(gr, p)
  <2>1. p[1] = Element(gr, 1)
    <3>1. 1 \in 1..Len(i)-1
      BY <1>3, <1>4
    <3> QED
      BY <1>1, <1>6, <1>11, <3>1
  <2> QED
    BY <1>8, <1>10, <2>1 DEF LoopWay
<1>13. LoopMarks(gr, l, p, marks)
  <2>1. marks \in SUBSET DOMAIN gr.CFGNodeVec
    BY <1>3, <1>5 DEF Nodes
  <2>2. 1 \in marks
    BY <1>1, <1>3, <1>4, <1>5
  <2>3. \A a \in 1..Len(p)-1 : NodesOf(gr, p[a]) \subseteq marks
    <3> SUFFICES ASSUME NEW a \in 1..Len(p)-1 PROVE NodesOf(gr, p[a]) \subseteq marks
      OBVIOUS
    <3>1. p[a] = ANode(i[a]) /\ i[a] \in marks
      BY <1>5, <1>6
    <3>2. NodesOf(gr, ANode(i[a])) = {i[a]}
      BY DEF NodesOf, ANode
    <3> QED
      BY <3>1, <3>2
  <2>4. ASSUME NEW n \in marks PROVE Element(gr, n) \in ToSet(p)
    <3>1. PICK a \in 1..Len(i)-1 : n = i[a]
      BY <1>5
    <3>2. Element(gr, n) = p[a] /\ a \in 1..Len(p)
      BY <1>3, <1>6, <1>11, <3>1
    <3> QED
      BY <1>8, <3>2, PathFacts
  <2> QED
    BY <1>7, <2>1, <2>2, <2>3, <2>4 DEF LoopMarks
<1> QED
  BY <1>8, <1>12, <1>13 DEF p, marks

------------------------------------------------------------------------------
(****************************************************************************)
(* What the actions of the search do, said with the function's operators.   *)
(* A header has one way into its loop only, so all that is pushed is the    *)
(* first child that is not marked.                                          *)
(****************************************************************************)
LEMMA SameMarked == Marked = Marking(g, path, visit)
BY DEF Marked, Marking

LEMMA SameChildren == Children = Childs(g, Last(path))
BY DEF Children

LEMMA UnvisitedFacts ==
    ASSUME g \in Graphs, path \in Seq(Elements(g)), path # << >>
    PROVE  /\ Unvisited \subseteq Fresh(g, path, visit)
           /\ Fresh(g, path, visit) \in SUBSET Nat
           /\ Fresh(g, path, visit) # {} =>
                 /\ Min(Fresh(g, path, visit)) \in Unvisited
                 /\ \A j \in Fresh(g, path, visit) : Min(Fresh(g, path, visit)) <= j
<1> DEFINE J == Fresh(g, path, visit)
           childs == Childs(g, Last(path))
<1>1. DOMAIN childs = 1..Len(childs) /\ Len(childs) \in Nat
  <2>1. Last(path) \in Elements(g)
    BY PathFacts
  <2>2. childs \in Seq(Nat)
    BY <2>1, ChildFacts
  <2> QED
    BY <2>2, LenProperties
<1>2. Unvisited = {j \in J : \A i \in 1..j-1 : childs[i] # childs[j]}
  BY SameMarked, SameChildren DEF Unvisited, Fresh
<1>3. J \in SUBSET Nat
  BY <1>1 DEF Fresh
<1>4. ASSUME J # {}
      PROVE  Min(J) \in J /\ \A j \in J : Min(J) <= j
  <2>1. \E x \in J : \A y \in J : x <= y
    BY <1>3, <1>4, LeastNumber
  <2> QED
    BY <2>1 DEF Min
<1>5. ASSUME J # {} PROVE Min(J) \in Unvisited
  <2> DEFINE m == Min(J)
  <2>1. m \in J /\ \A j \in J : m <= j
    BY <1>4, <1>5
  <2> HIDE DEF m
  <2>2. ASSUME NEW i \in 1..m-1, childs[i] = childs[m] PROVE FALSE
    <3>1. m \in 1..Len(childs) /\ childs[m] \notin Marking(g, path, visit)
      BY <1>1, <2>1 DEF Fresh
    <3>2. i \in DOMAIN childs /\ ~ (m <= i)
      BY <1>1, <3>1
    <3>3. i \in J
      BY <2>2, <3>1, <3>2 DEF Fresh
    <3> QED
      BY <2>1, <3>2, <3>3
  <2>3. m \in Unvisited
    BY <1>2, <2>1, <2>2
  <2> QED
    BY <2>3 DEF m
<1> QED
  BY <1>2, <1>3, <1>4, <1>5

LEMMA OneIntoLoop ==
    ASSUME g \in Graphs, path \in Seq(Elements(g)), path # << >>,
           Last(path).type = "ALoop", Fresh(g, path, visit) # {}
    PROVE  Unvisited = {Min(Fresh(g, path, visit))}
<1> DEFINE J == Fresh(g, path, visit)
           m == Min(J)
           childs == Childs(g, Last(path))
<1>1. /\ Unvisited \subseteq J /\ J \in SUBSET Nat
      /\ m \in Unvisited /\ m \in J /\ \A j \in J : m <= j
  BY UnvisitedFacts
<1>2. Last(path) = ALoop(Last(path).idx) /\ Last(path).idx \in DOMAIN g.LCSSAs
  <2>1. Last(path) \in Elements(g)
    BY PathFacts
  <2> QED
    BY <2>1, ElementType
<1>3. HeaderKeepsToLoop(g)
  BY BlocksAssumption
<1>4. \A c, d \in ToSet(childs) \ NodesOf(g, Last(path)) : c = d
  BY <1>2, <1>3 DEF HeaderKeepsToLoop
<1>5. \A j \in J : j \in DOMAIN childs /\ childs[j] \in ToSet(childs) \ NodesOf(g, Last(path))
  BY DEF Fresh, Marking, ToSet
<1> HIDE DEF J, m, childs
<1>6. ASSUME NEW j \in Unvisited PROVE j = m
  <2>1. j \in J /\ m \in J /\ childs[m] = childs[j]
    BY <1>1, <1>4, <1>5
  <2>2. \A i \in 1..j-1 : childs[i] # childs[j]
    BY <1>6, SameChildren DEF Unvisited, childs
  <2>3. m \in DOMAIN childs
    BY <1>5, <2>1
  <2>4. ~ (m <= j - 1) \/ m = 0
    BY <1>1, <2>1, <2>2
  <2>5. m # 0
    <3>1. Last(path) \in Elements(g)
      BY PathFacts
    <3>2. childs \in Seq(Nat)
      BY <3>1, ChildFacts DEF childs
    <3> QED
      BY <2>3, <3>2, LenProperties
  <2> QED
    BY <1>1, <2>1, <2>4, <2>5
<1> QED
  BY <1>1, <1>6 DEF m, J

LEMMA InOrderOfOne ==
    ASSUME NEW m \in Nat
    PROVE  InOrder({m}) = <<m>>
<1>1. Cardinality({m}) = 1
  BY FS_Singleton
<1>2. {i \in {m} : i < m} = {}
  OBVIOUS
<1>3. Cardinality({}) = 0
  BY FS_EmptySet
<1>4. \A n \in 1..1 : (CHOOSE j \in {m} : Cardinality({i \in {m} : i < j}) = n - 1) = m
  <2>1. Cardinality({i \in {m} : i < m}) = 1 - 1
    BY <1>2, <1>3
  <2>2. \A j : j \in {m} => j = m
    OBVIOUS
  <2>3. (CHOOSE j \in {m} : Cardinality({i \in {m} : i < j}) = 1 - 1) = m
    BY <2>1, <2>2
  <2> QED
    BY <2>3
<1>5. InOrder({m}) =
         [n \in 1..1 |-> CHOOSE j \in {m} : Cardinality({i \in {m} : i < j}) = n - 1]
  BY <1>1 DEF InOrder
<1>6. InOrder({m}) = [n \in 1..1 |-> m]
  BY <1>4, <1>5
<1> QED
  BY <1>6

LEMMA NextStepsFacts ==
    ASSUME g \in Graphs, path \in Seq(Elements(g)), path # << >>
    PROVE  /\ Unvisited = {} <=> Fresh(g, path, visit) = {}
           /\ Fresh(g, path, visit) # {} => NextSteps = <<Min(Fresh(g, path, visit))>>
<1> DEFINE J == Fresh(g, path, visit)
           m == Min(J)
<1>1. /\ Unvisited \subseteq J /\ J \in SUBSET Nat
      /\ J # {} => m \in Unvisited /\ \A j \in J : m <= j
  BY UnvisitedFacts
<1>2. ASSUME J # {} PROVE NextSteps = <<m>>
  <2>1. CASE Last(path).type = "ALoop"
    <3>1. Unvisited = {m} /\ m \in Nat
      BY <1>1, <1>2, <2>1, OneIntoLoop
    <3>2. InOrder(Unvisited) = <<m>>
      BY <3>1, InOrderOfOne
    <3> QED
      BY <2>1, <3>2 DEF NextSteps
  <2>2. CASE Last(path).type = "ANode"
    <3> DEFINE U == Unvisited
    <3>1. m \in U /\ U \subseteq J /\ \A j \in U : m <= j
      BY <1>1, <1>2
    <3> HIDE DEF U, m, J
    <3>2. Min(U) \in U /\ \A j \in U : Min(U) <= j
      BY <3>1 DEF Min
    <3>3. Min(U) = m
      <4>1. Min(U) \in Nat /\ m \in Nat /\ Min(U) <= m /\ m <= Min(U)
        BY <1>1, <3>1, <3>2
      <4> QED
        BY <4>1
    <3> QED
      BY <2>2, <3>3 DEF NextSteps, U
  <2>3. Last(path).type \in {"ALoop", "ANode"}
    <3>1. Last(path) \in Elements(g)
      BY PathFacts
    <3> QED
      BY <3>1, ElementType
  <2> QED
    BY <2>1, <2>2, <2>3
<1> QED
  BY <1>1, <1>2

LEMMA LoopStepEffect ==
    ASSUME g \in Graphs, path \in Seq(Elements(g)), Step
    PROVE  /\ pc = "search" /\ path # << >> /\ Last(path) # ALoop(assertLoopIdx)
           /\ Fresh(g, path, visit) # {}
           /\ <<path', visit'>> = Stepped(g, path, visit)
           /\ g' = g /\ init' = init /\ assertLoopIdx' = assertLoopIdx /\ pc' = pc
<1>1. /\ Searching /\ Unvisited # {}
      /\ path' = path \o [i \in DOMAIN NextSteps |->
                             Element(g, Children[NextSteps[i]])]
      /\ visit' = Marked \cup
                     {Children[NextSteps[i]] : i \in DOMAIN NextSteps}
      /\ g' = g /\ init' = init /\ assertLoopIdx' = assertLoopIdx /\ pc' = pc
  BY DEF Step
<1>2. pc = "search" /\ path # << >> /\ Last(path) # ALoop(assertLoopIdx)
  BY <1>1 DEF Searching, AtErrorLoop
<1> DEFINE m == Min(Fresh(g, path, visit))
           c == FirstFresh(g, path, visit)
           e == Element(g, c)
<1>3. Fresh(g, path, visit) # {} /\ NextSteps = <<m>>
  BY <1>1, <1>2, NextStepsFacts
<1>4. Children[m] = c
  BY SameChildren DEF FirstFresh
<1>5. DOMAIN <<m>> = {1} /\ <<m>>[1] = m
  OBVIOUS
<1>6. visit' = Marking(g, path, visit) \cup {c}
  BY <1>1, <1>3, <1>4, <1>5, SameMarked
<1>7. [i \in DOMAIN NextSteps |-> Element(g, Children[NextSteps[i]])]
        = [i \in {1} |-> e]
  BY <1>3, <1>4, <1>5
<1>8. [i \in {1} |-> e] = <<e>>
  OBVIOUS
<1>9. e \in Elements(g)
  BY <1>2, <1>3, FreshChild, ElementFacts
<1> HIDE DEF e
<1>10. path \o <<e>> = Append(path, e)
  BY <1>9, AppendIsConcat
<1>11. path' = Append(path, e)
  BY <1>1, <1>7, <1>8, <1>10
<1> QED
  BY <1>1, <1>2, <1>3, <1>6, <1>11 DEF Stepped, e

LEMMA LoopBackEffect ==
    ASSUME g \in Graphs, path \in Seq(Elements(g)), Backtrack
    PROVE  /\ pc = "search" /\ path # << >> /\ Last(path) # ALoop(assertLoopIdx)
           /\ Fresh(g, path, visit) = {}
           /\ <<path', visit'>> = Backed(g, path, visit)
           /\ g' = g /\ init' = init /\ assertLoopIdx' = assertLoopIdx /\ pc' = pc
<1>1. /\ Searching /\ Unvisited = {}
      /\ path' = Front(path) /\ visit' = Marked
      /\ g' = g /\ init' = init /\ assertLoopIdx' = assertLoopIdx /\ pc' = pc
  BY DEF Backtrack
<1>2. pc = "search" /\ path # << >> /\ Last(path) # ALoop(assertLoopIdx)
  BY <1>1 DEF Searching, AtErrorLoop
<1>3. Fresh(g, path, visit) = {}
  BY <1>1, <1>2, NextStepsFacts
<1>4. path' = Front(path) /\ visit' = Marking(g, path, visit)
  BY <1>1, SameMarked
<1> QED
  BY <1>1, <1>2, <1>3, <1>4 DEF Backed

------------------------------------------------------------------------------
(****************************************************************************)
(* A path whose loop at the end is retyped is still a path of the program.  *)
(****************************************************************************)
LEMMA LoopWayApart ==
    ASSUME NEW gr \in Graphs, NEW q, LoopWay(gr, q), NEW a \in 1..Len(q), NEW b \in 1..Len(q),
           NodesOf(gr, q[a]) \cap NodesOf(gr, q[b]) # {}
    PROVE  a = b
<1>1. q[a] \in Elements(gr) /\ q[b] \in Elements(gr)
  BY ElementOfSeq DEF LoopWay
<1>2. q[a] = q[b]
  BY <1>1, ElementsApart
<1> QED
  BY <1>2 DEF LoopWay

LEMMA ToldFacts ==
    ASSUME NEW gr \in Graphs, NEW l, NEW q, LoopWay(gr, q), q # << >>, Last(q) = ALoop(l)
    PROVE  LET p == Told(q)
           IN  /\ p \in Seq(Path) /\ p # << >> /\ Len(p) = Len(q) /\ Len(q) \in Nat /\ Len(q) >= 2
               /\ \A a \in 1..Len(q)-1 : p[a] = q[a]
               /\ Last(p) = [type |-> "ERRORLOOP", idx |-> l] /\ p[Len(q)] = Last(p)
               /\ l \in DOMAIN gr.LCSSAs
               /\ \A a \in 1..Len(q) : NodesOf(gr, p[a]) = NodesOf(gr, q[a])
               /\ p[1] = Element(gr, 1)
               /\ IsChain(gr, p)
<1> DEFINE n == Len(q)
           p == Told(q)
           last == [type |-> "ERRORLOOP", idx |-> l]
<1>1. /\ q \in Seq(Elements(gr)) /\ q[1] = Element(gr, 1) /\ IsChain(gr, q)
  BY DEF LoopWay
<1>2. /\ n \in Nat \ {0} /\ q[n] = ALoop(l) /\ ALoop(l) \in Elements(gr)
      /\ \A a \in 1..n : q[a] \in Elements(gr)
  BY <1>1, PathFacts
<1>3. l \in DOMAIN gr.LCSSAs /\ ALoop(l) \in Path
  BY <1>2, ElementType DEF ALoop, ANode
<1>4. n >= 2
  <2>1. 1 \in DOMAIN gr.CFGNodeVec /\ ~gr.CFGNodeVec[1].isLoopNode
    <3>1. IsCFG(gr.CFGNodeVec, gr.LCSSAs) /\ gr.CFGNodeVec \in Seq(CFGNodes)
      BY GraphFacts DEF Graph
    <3>2. 1 \in DOMAIN gr.CFGNodeVec
      BY <3>1, EmptySeq, LenProperties DEF IsCFG
    <3> QED
      BY <3>2, GraphsAssumption
  <2>2. Element(gr, 1) # ALoop(l)
    BY <2>1 DEF Element, ANode, ALoop
  <2> QED
    BY <1>1, <1>2, <2>2
<1>5. \A a \in 1..n : q[a] \in Path
  BY <1>2, ElementType
<1>6. /\ DOMAIN q = 1..n
      /\ q = [a \in 1..n |-> q[a]]
  BY <1>1, LenProperties
<1>7. last \in Path
  BY <1>3 DEF Path, NodeType, ALoop
<1>8. [q[n] EXCEPT !.type = "ERRORLOOP"] = last
  BY <1>2 DEF ALoop
<1>9. p = [a \in 1..n |-> IF a = n THEN last ELSE q[a]]
  BY <1>6, <1>8 DEF Told
<1> HIDE DEF p, last, n
<1>10. /\ p \in Seq(Path) /\ Len(p) = n
       /\ \A a \in 1..n : p[a] = IF a = n THEN last ELSE q[a]
  <2>1. p \in [1..n -> Path]
    BY <1>5, <1>7, <1>9
  <2> QED
    BY <1>2, <1>9, <2>1
<1>11. p # << >> /\ n \in 1..n /\ p[n] = last
  BY <1>2, <1>10, EmptySeq
<1>12. Last(p) = last
  BY <1>10, <1>11 DEF Last
<1>13. \A a \in 1..n-1 : p[a] = q[a]
  BY <1>2, <1>10
<1>14. NodesOf(gr, last) = NodesOf(gr, ALoop(l))
  BY DEF NodesOf, last, ALoop
<1>15. \A a \in 1..n : NodesOf(gr, p[a]) = NodesOf(gr, q[a])
  BY <1>2, <1>10, <1>14
<1>16. p[1] = Element(gr, 1)
  BY <1>1, <1>2, <1>4, <1>13
<1>17. IsChain(gr, p)
  <2> SUFFICES ASSUME NEW a \in 1..n-1 PROVE Linked(gr, p[a], p[a+1])
    BY <1>10 DEF IsChain
  <2>1. a \in 1..n /\ a + 1 \in 1..n
    BY <1>2
  <2>2. Linked(gr, q[a], q[a+1])
    BY <1>1 DEF IsChain, n
  <2>3. NodesOf(gr, p[a]) = NodesOf(gr, q[a]) /\ NodesOf(gr, p[a+1]) = NodesOf(gr, q[a+1])
    BY <1>15, <2>1
  <2> QED
    BY <2>2, <2>3 DEF Linked
<1> QED
  BY <1>2, <1>3, <1>4, <1>10, <1>11, <1>12, <1>13, <1>15, <1>16, <1>17 DEF p, last, n

(****************************************************************************)
(* The error block that is put behind it is a child of the loop's header,   *)
(* and it is not on the path: nothing leads on from it.                     *)
(****************************************************************************)
LEMMA ErrorNodeFacts ==
    ASSUME NEW gr \in Graphs, NEW l, NEW q, LoopWay(gr, q), q # << >>, Last(q) = ALoop(l),
           NEW p, p = Told(q), NamedErrors(gr, Last(p)) # {}
    PROVE  LET e == ErrorNode(gr, Last(p))
           IN  /\ e \in Path /\ e.type = "ERRORNODE"
               /\ e.idx \in DOMAIN gr.CFGNodeVec /\ gr.CFGNodeVec[e.idx].bb \in gr.named
               /\ NodesOf(gr, e) = {e.idx}
               /\ Linked(gr, Last(p), e)
               /\ \A a \in 1..Len(q) : NodesOf(gr, p[a]) \cap NodesOf(gr, e) = {}
<1> DEFINE childs == Childs(gr, Last(p))
           J == NamedErrors(gr, Last(p))
           c == childs[Min(J)]
           e == ErrorNode(gr, Last(p))
<1>1. /\ Last(p) = [type |-> "ERRORLOOP", idx |-> l] /\ Len(q) \in Nat /\ Len(q) >= 2
      /\ \A a \in 1..Len(q) : NodesOf(gr, p[a]) = NodesOf(gr, q[a])
  BY ToldFacts
<1>2. /\ q \in Seq(Elements(gr)) /\ IsChain(gr, q)
      /\ \A a \in 1..Len(q) : q[a] \in Elements(gr)
      /\ ALoop(l) \in Elements(gr) /\ q[Len(q)] = ALoop(l)
  BY PathFacts DEF LoopWay
<1>3. childs = Childs(gr, ALoop(l)) /\ NodesOf(gr, Last(p)) = NodesOf(gr, ALoop(l))
  BY <1>1 DEF Childs, ExitNode, NodesOf, ALoop
<1>4. childs \in Seq(Nat) /\ \A d \in ToSet(childs) :
         d \in DOMAIN gr.CFGNodeVec /\ Linked(gr, ALoop(l), Element(gr, d))
  BY <1>2, <1>3, ChildFacts
<1>5. Min(J) \in J
  <2>1. J \in SUBSET Nat
    BY <1>4, LenProperties DEF NamedErrors
  <2> QED
    BY <2>1, LeastNumber
<1>6. c \in ToSet(childs) /\ c \in DOMAIN gr.CFGNodeVec /\ gr.CFGNodeVec[c].bb \in gr.named
  BY <1>4, <1>5 DEF NamedErrors, ToSet
<1>7. e = [type |-> "ERRORNODE", idx |-> c]
  BY DEF ErrorNode
<1>8. e \in Path /\ NodesOf(gr, e) = {c}
  <2>1. c \in Nat
    BY <1>6, GraphFacts
  <2> QED
    BY <1>7, <2>1 DEF Path, NodeType, NodesOf
<1>9. NamedEnds(gr)
  BY BlocksAssumption
<1>10. gr.CFGNodeVec[c].childs = << >> /\ ~gr.CFGNodeVec[c].isLoopNode
  BY <1>6, <1>9 DEF NamedEnds
<1> HIDE DEF e, c, J, childs
<1>11. Element(gr, c) = ANode(c) /\ NodesOf(gr, ANode(c)) = {c}
  BY <1>10 DEF Element, NodesOf, ANode
<1>12. Linked(gr, Last(p), e)
  <2>1. Linked(gr, ALoop(l), ANode(c))
    BY <1>4, <1>6, <1>11
  <2> QED
    BY <1>3, <1>8, <1>11, <2>1 DEF Linked
<1>13. ASSUME NEW a \in 1..Len(q), c \in NodesOf(gr, q[a]) PROVE FALSE
  <2>1. q[a] = ANode(c)
    BY <1>2, <1>11, <1>13, ElementType
  <2>2. a # Len(q)
    BY <1>2, <2>1 DEF ANode, ALoop
  <2>3. a \in 1..Len(q)-1
    BY <1>1, <2>2
  <2>4. Linked(gr, ANode(c), q[a+1])
    BY <1>2, <2>1, <2>3 DEF IsChain
  <2>5. ToSet(gr.CFGNodeVec[c].childs) = {}
    BY <1>10 DEF ToSet
  <2> QED
    BY <1>11, <2>4, <2>5 DEF Linked
<1>14. \A a \in 1..Len(q) : NodesOf(gr, p[a]) \cap NodesOf(gr, e) = {}
  BY <1>1, <1>8, <1>13
<1> QED
  BY <1>6, <1>7, <1>8, <1>12, <1>14 DEF e

------------------------------------------------------------------------------
(****************************************************************************)
(* The inductive invariant: while it searches, the path and the marks are   *)
(* such that the rest of the search finds what all of it does; afterwards   *)
(* the path is what has been found, and then the error block.               *)
(****************************************************************************)
Reached(p) ==
    /\ p = PathToLoop(g, init, assertLoopIdx)
    /\ \E q : LoopWay(g, q) /\ q # << >> /\ Last(q) = ALoop(assertLoopIdx) /\ p = Told(q)

LoopInv ==
    /\ g \in Graphs /\ assertLoopIdx \in DOMAIN g.LCSSAs /\ init \in ToSet(InitNodesOf(g))
    /\ visit \in SUBSET DOMAIN g.CFGNodeVec
    /\ pc \in {"search", "addError", "done", "abort", "undefined"}
    /\ pc \in {"search", "undefined"} =>
          LoopWay(g, path) /\ LoopMarks(g, assertLoopIdx, path, visit)
    /\ pc = "search" =>
          \A f : IsLoopSearch(g, assertLoopIdx, f) => f[<<path, visit>>] = f[LoopStart(g, init)]
    /\ pc = "undefined" => path = << >>
    /\ pc \in {"addError", "abort"} => Reached(path)
    /\ pc = "done" =>
          \E p : /\ Reached(p) /\ NamedErrors(g, Last(p)) # {}
                 /\ path = Append(p, ErrorNode(g, Last(p)))

LEMMA LoopInitInv == LoopInit => LoopInv
<1> SUFFICES ASSUME LoopInit PROVE LoopInv
  OBVIOUS
<1>1. /\ g \in Graphs /\ assertLoopIdx \in VerifyLoops(g) /\ init \in ToSet(InitNodesOf(g))
      /\ path = StartPath(g, init) /\ visit = ToSet(Front(init)) /\ pc = "search"
  BY DEF LoopInit
<1>2. assertLoopIdx \in DOMAIN g.LCSSAs
  BY <1>1 DEF VerifyLoops
<1>3. LoopWay(g, path) /\ LoopMarks(g, assertLoopIdx, path, visit)
  BY <1>1, LoopStartKeeps
<1>4. visit \in SUBSET DOMAIN g.CFGNodeVec
  BY <1>3 DEF LoopMarks
<1>5. <<path, visit>> = LoopStart(g, init)
  BY <1>1 DEF LoopStart
<1> QED
  BY <1>1, <1>2, <1>3, <1>4, <1>5 DEF LoopInv

LEMMA FoundLoopKeeps == LoopInv /\ FoundLoop => LoopInv'
<1> SUFFICES ASSUME LoopInv, FoundLoop PROVE LoopInv'
  OBVIOUS
<1>1. /\ pc = "search" /\ path # << >> /\ Last(path) = ALoop(assertLoopIdx)
      /\ path' = Told(path) /\ pc' = "addError"
      /\ g' = g /\ init' = init /\ assertLoopIdx' = assertLoopIdx /\ visit' = visit
  BY DEF FoundLoop, AtErrorLoop, Told
<1>2. /\ g \in Graphs /\ LoopWay(g, path) /\ visit \in SUBSET DOMAIN g.CFGNodeVec
      /\ \A f : IsLoopSearch(g, assertLoopIdx, f) => f[<<path, visit>>] = f[LoopStart(g, init)]
  BY <1>1 DEF LoopInv
<1> DEFINE f == CHOOSE ff : IsLoopSearch(g, assertLoopIdx, ff)
<1>3. IsLoopSearch(g, assertLoopIdx, f)
  BY <1>2, LoopSearchExists
<1>4. PathToLoop(g, init, assertLoopIdx) = f[LoopStart(g, init)]
  BY PathToLoopIsSearch
<1> HIDE DEF f
<1>5. path \in Seq(Elements(g))
  BY <1>2 DEF LoopWay
<1>6. f[<<path, visit>>] = Told(path)
  <2>1. f[<<path, visit>>] = LoopBody(g, assertLoopIdx, f, <<path, visit>>)
    BY <1>2, <1>3, <1>5, LoopSearchValue
  <2>2. <<path, visit>>[1] = path
    OBVIOUS
  <2> QED
    BY <1>1, <2>1, <2>2 DEF LoopBody
<1>7. Told(path) = PathToLoop(g, init, assertLoopIdx)
  BY <1>2, <1>3, <1>4, <1>6
<1>8. Reached(path)'
  BY <1>1, <1>2, <1>7 DEF Reached
<1> QED
  BY <1>1, <1>8 DEF LoopInv

LEMMA LoopStepInv == LoopInv /\ Step => LoopInv'
<1> SUFFICES ASSUME LoopInv, Step PROVE LoopInv'
  OBVIOUS
<1>1. g \in Graphs /\ pc = "search"
  BY DEF LoopInv, Step, Searching
<1>2. /\ LoopWay(g, path) /\ LoopMarks(g, assertLoopIdx, path, visit)
      /\ visit \in SUBSET DOMAIN g.CFGNodeVec /\ path \in Seq(Elements(g))
      /\ \A f : IsLoopSearch(g, assertLoopIdx, f) => f[<<path, visit>>] = f[LoopStart(g, init)]
  BY <1>1 DEF LoopInv, LoopWay
<1>3. /\ path # << >> /\ Last(path) # ALoop(assertLoopIdx) /\ Fresh(g, path, visit) # {}
      /\ <<path', visit'>> = Stepped(g, path, visit)
      /\ g' = g /\ init' = init /\ assertLoopIdx' = assertLoopIdx /\ pc' = pc
  BY <1>1, <1>2, LoopStepEffect
<1>4. LoopWay(g, path') /\ LoopMarks(g, assertLoopIdx, path', visit')
  BY <1>1, <1>2, <1>3, LoopStepKeeps
<1>5. ASSUME NEW f, IsLoopSearch(g, assertLoopIdx, f)
      PROVE  f[<<path', visit'>>] = f[LoopStart(g, init)]
  <2>1. f[<<path, visit>>] = LoopBody(g, assertLoopIdx, f, <<path, visit>>)
    BY <1>2, <1>5, LoopSearchValue
  <2>2. <<path, visit>>[1] = path /\ <<path, visit>>[2] = visit
    OBVIOUS
  <2>3. f[<<path, visit>>] = f[Stepped(g, path, visit)]
    BY <1>3, <2>1, <2>2 DEF LoopBody
  <2> QED
    BY <1>2, <1>3, <1>5, <2>3
<1>6. visit' \in SUBSET DOMAIN g.CFGNodeVec
  BY <1>4 DEF LoopMarks
<1> QED
  BY <1>1, <1>3, <1>4, <1>5, <1>6 DEF LoopInv

LEMMA LoopBackInv == LoopInv /\ Backtrack => LoopInv'
<1> SUFFICES ASSUME LoopInv, Backtrack PROVE LoopInv'
  OBVIOUS
<1>1. g \in Graphs /\ pc = "search"
  BY DEF LoopInv, Backtrack, Searching
<1>2. /\ LoopWay(g, path) /\ LoopMarks(g, assertLoopIdx, path, visit)
      /\ visit \in SUBSET DOMAIN g.CFGNodeVec /\ path \in Seq(Elements(g))
      /\ \A f : IsLoopSearch(g, assertLoopIdx, f) => f[<<path, visit>>] = f[LoopStart(g, init)]
  BY <1>1 DEF LoopInv, LoopWay
<1>3. /\ path # << >> /\ Last(path) # ALoop(assertLoopIdx) /\ Fresh(g, path, visit) = {}
      /\ <<path', visit'>> = Backed(g, path, visit)
      /\ g' = g /\ init' = init /\ assertLoopIdx' = assertLoopIdx /\ pc' = pc
  BY <1>1, <1>2, LoopBackEffect
<1>4. LoopWay(g, path') /\ LoopMarks(g, assertLoopIdx, path', visit')
  BY <1>1, <1>2, <1>3, LoopBackKeeps
<1>5. ASSUME NEW f, IsLoopSearch(g, assertLoopIdx, f)
      PROVE  f[<<path', visit'>>] = f[LoopStart(g, init)]
  <2>1. f[<<path, visit>>] = LoopBody(g, assertLoopIdx, f, <<path, visit>>)
    BY <1>2, <1>5, LoopSearchValue
  <2>2. <<path, visit>>[1] = path /\ <<path, visit>>[2] = visit
    OBVIOUS
  <2>3. f[<<path, visit>>] = f[Backed(g, path, visit)]
    BY <1>3, <2>1, <2>2 DEF LoopBody
  <2> QED
    BY <1>2, <1>3, <1>5, <2>3
<1>6. visit' \in SUBSET DOMAIN g.CFGNodeVec
  BY <1>4 DEF LoopMarks
<1> QED
  BY <1>1, <1>3, <1>4, <1>5, <1>6 DEF LoopInv

LEMMA LoopNextInv == LoopInv /\ [LoopNext]_loopVars => LoopInv'
<1> SUFFICES ASSUME LoopInv, [LoopNext]_loopVars PROVE LoopInv'
  OBVIOUS
<1>1. CASE FoundLoop
  BY <1>1, FoundLoopKeeps
<1>2. CASE Step
  BY <1>2, LoopStepInv
<1>3. CASE Backtrack
  BY <1>3, LoopBackInv
<1>4. CASE BackOfEmpty
  BY <1>4 DEF BackOfEmpty, LoopInv
<1>5. CASE AddError
  <2>1. /\ pc = "addError" /\ NamedErrors(g, Last(path)) # {}
        /\ path' = Append(path, ErrorNode(g, Last(path))) /\ pc' = "done"
        /\ g' = g /\ init' = init /\ assertLoopIdx' = assertLoopIdx /\ visit' = visit
    BY <1>5 DEF AddError
  <2>2. Reached(path)
    BY <2>1 DEF LoopInv
  <2>3. \A p : Reached(p)' <=> Reached(p)
    BY <2>1 DEF Reached
  <2> QED
    BY <2>1, <2>2, <2>3 DEF LoopInv
<1>6. CASE NoErrorChild
  <2>1. /\ pc = "addError" /\ pc' = "abort" /\ path' = path
        /\ g' = g /\ init' = init /\ assertLoopIdx' = assertLoopIdx /\ visit' = visit
    BY <1>6 DEF NoErrorChild
  <2>2. Reached(path)' <=> Reached(path)
    BY <2>1 DEF Reached
  <2> QED
    BY <2>1, <2>2 DEF LoopInv
<1>7. CASE UNCHANGED loopVars
  <2>1. /\ pc' = pc /\ path' = path
        /\ g' = g /\ init' = init /\ assertLoopIdx' = assertLoopIdx /\ visit' = visit
    BY <1>7 DEF loopVars
  <2>2. Reached(path)' <=> Reached(path)
    BY <2>1 DEF Reached
  <2>3. \A p : Reached(p)' <=> Reached(p)
    BY <2>1 DEF Reached
  <2> QED
    BY <2>1, <2>2, <2>3 DEF LoopInv
<1> QED
  BY <1>1, <1>2, <1>3, <1>4, <1>5, <1>6, <1>7 DEF LoopNext, LoopTerminated

LEMMA LoopInvHolds == LoopSpec => []LoopInv
BY LoopInitInv, LoopNextInv, PTL DEF LoopSpec

(****************************************************************************)
(* What the path is in each state.                                          *)
(****************************************************************************)
RealPath(p) ==
    /\ p \in Seq(Path)
    /\ \A a \in DOMAIN p :
          p[a].idx \in IF p[a].type \in {"ALoop", "ERRORLOOP"}
                       THEN DOMAIN g.LCSSAs ELSE DOMAIN g.CFGNodeVec
    /\ p # << >> => p[1] = Element(g, 1)
    /\ IsChain(g, p)
    /\ \A a, b \in DOMAIN p : NodesOf(g, p[a]) \cap NodesOf(g, p[b]) # {} => a = b

LEMMA LoopWayIsReal ==
    ASSUME g \in Graphs, NEW p, LoopWay(g, p)
    PROVE  RealPath(p)
<1>1. p \in Seq(Elements(g)) /\ DOMAIN p = 1..Len(p)
  BY LenProperties DEF LoopWay
<1>2. \A a \in 1..Len(p) : p[a] \in Elements(g)
  BY <1>1, ElementOfSeq
<1>3. \A a \in 1..Len(p) :
         p[a].idx \in IF p[a].type \in {"ALoop", "ERRORLOOP"}
                      THEN DOMAIN g.LCSSAs ELSE DOMAIN g.CFGNodeVec
  BY <1>2, ElementType
<1>4. p \in Seq(Path)
  <2>1. Elements(g) \subseteq Path
    BY ElementType
  <2> QED
    BY <1>1, <2>1, SeqMonotonic
<1>5. \A a, b \in 1..Len(p) : NodesOf(g, p[a]) \cap NodesOf(g, p[b]) # {} => a = b
  BY LoopWayApart
<1> QED
  BY <1>1, <1>3, <1>4, <1>5 DEF LoopWay, RealPath

LEMMA ReachedIsReal ==
    ASSUME g \in Graphs, NEW p, Reached(p)
    PROVE  RealPath(p) /\ Last(p) = [type |-> "ERRORLOOP", idx |-> assertLoopIdx] /\ Len(p) >= 2
<1>1. PICK q : LoopWay(g, q) /\ q # << >> /\ Last(q) = ALoop(assertLoopIdx) /\ p = Told(q)
  BY DEF Reached
<1>2. /\ p \in Seq(Path) /\ p # << >> /\ Len(p) = Len(q) /\ Len(q) \in Nat /\ Len(q) >= 2
      /\ \A a \in 1..Len(q)-1 : p[a] = q[a]
      /\ Last(p) = [type |-> "ERRORLOOP", idx |-> assertLoopIdx] /\ p[Len(q)] = Last(p)
      /\ assertLoopIdx \in DOMAIN g.LCSSAs
      /\ \A a \in 1..Len(q) : NodesOf(g, p[a]) = NodesOf(g, q[a])
      /\ p[1] = Element(g, 1)
      /\ IsChain(g, p)
  BY <1>1, ToldFacts
<1>3. RealPath(q) /\ DOMAIN q = 1..Len(q) /\ DOMAIN p = 1..Len(q)
  BY <1>1, <1>2, LoopWayIsReal, LenProperties DEF LoopWay
<1>4. ASSUME NEW a \in 1..Len(q)
      PROVE  p[a].idx \in IF p[a].type \in {"ALoop", "ERRORLOOP"}
                          THEN DOMAIN g.LCSSAs ELSE DOMAIN g.CFGNodeVec
  <2>1. CASE a = Len(q)
    BY <1>2, <2>1
  <2>2. CASE a # Len(q)
    <3>1. p[a] = q[a]
      BY <1>2, <2>2
    <3> QED
      BY <1>3, <3>1 DEF RealPath
  <2> QED
    BY <2>1, <2>2
<1>5. \A a, b \in 1..Len(q) : NodesOf(g, p[a]) \cap NodesOf(g, p[b]) # {} => a = b
  BY <1>2, <1>3 DEF RealPath
<1> QED
  BY <1>2, <1>3, <1>4, <1>5 DEF RealPath

(****************************************************************************)
(* With the error block behind it the path is handed on.                    *)
(****************************************************************************)
LEMMA DoneIsReal ==
    ASSUME g \in Graphs, NEW p, Reached(p), NamedErrors(g, Last(p)) # {},
           NEW r, r = Append(p, ErrorNode(g, Last(p)))
    PROVE  /\ RealPath(r) /\ Len(r) >= 2 /\ Front(r) = p /\ r[Len(r)-1] = Last(p)
           /\ Last(r).type = "ERRORNODE" /\ g.CFGNodeVec[Last(r).idx].bb \in g.named
           /\ \A a \in 1..Len(r)-2 : r[a].type \in {"ALoop", "ANode"}
<1> DEFINE e == ErrorNode(g, Last(p))
           n == Len(p)
<1>1. PICK q : LoopWay(g, q) /\ q # << >> /\ Last(q) = ALoop(assertLoopIdx) /\ p = Told(q)
  BY DEF Reached
<1>2. /\ p \in Seq(Path) /\ p # << >> /\ n = Len(q) /\ n \in Nat /\ n >= 2
      /\ \A a \in 1..n-1 : p[a] = q[a]
      /\ p[n] = Last(p)
  BY <1>1, ToldFacts
<1>3. /\ e \in Path /\ e.type = "ERRORNODE"
      /\ e.idx \in DOMAIN g.CFGNodeVec /\ g.CFGNodeVec[e.idx].bb \in g.named
      /\ NodesOf(g, e) = {e.idx}
      /\ Linked(g, Last(p), e)
      /\ \A a \in 1..n : NodesOf(g, p[a]) \cap NodesOf(g, e) = {}
  BY <1>1, <1>2, ErrorNodeFacts
<1>4. RealPath(p) /\ DOMAIN p = 1..n
  BY <1>2, ReachedIsReal, LenProperties
<1> HIDE DEF e, n
<1>5. /\ r \in Seq(Path) /\ r # << >> /\ Len(r) = n + 1
      /\ \A a \in 1..n : r[a] = p[a]
      /\ r[n + 1] = e
  BY <1>2, <1>3, AppendProperties DEF e, n
<1>6. DOMAIN r = 1..n+1 /\ Last(r) = e
  BY <1>5, LenProperties DEF Last
<1>7. \A a \in 1..n+1 : a \in 1..n \/ a = n + 1
  BY <1>2
<1>8. RealPath(r)
  <2>1. \A a \in 1..n+1 :
           r[a].idx \in IF r[a].type \in {"ALoop", "ERRORLOOP"}
                        THEN DOMAIN g.LCSSAs ELSE DOMAIN g.CFGNodeVec
    BY <1>3, <1>4, <1>5, <1>7 DEF RealPath
  <2>2. r[1] = Element(g, 1)
    <3>1. 1 \in 1..n
      BY <1>2
    <3> QED
      BY <1>2, <1>4, <1>5, <3>1 DEF RealPath
  <2>3. IsChain(g, r)
    <3> SUFFICES ASSUME NEW a \in 1..n PROVE Linked(g, r[a], r[a+1])
      BY <1>2, <1>5 DEF IsChain
    <3>1. CASE a = n
      BY <1>2, <1>3, <1>5, <3>1
    <3>2. CASE a # n
      <4>1. a \in 1..n-1 /\ r[a] = p[a] /\ r[a+1] = p[a+1]
        BY <1>2, <1>5, <3>2
      <4> QED
        BY <1>4, <4>1 DEF RealPath, IsChain, n
    <3> QED
      BY <3>1, <3>2
  <2>4. ASSUME NEW a \in 1..n+1, NEW b \in 1..n+1, NodesOf(g, r[a]) \cap NodesOf(g, r[b]) # {}
        PROVE  a = b
    <3>1. CASE a \in 1..n /\ b \in 1..n
      BY <1>4, <1>5, <2>4, <3>1 DEF RealPath
    <3>2. CASE a = n + 1 \/ b = n + 1
      BY <1>3, <1>5, <1>7, <2>4, <3>2
    <3> QED
      BY <1>7, <3>1, <3>2
  <2> QED
    BY <1>5, <1>6, <2>1, <2>2, <2>3, <2>4 DEF RealPath
<1>9. Front(r) = p
  <2>1. /\ Front(r) \in Seq(Path) /\ Len(Front(r)) = n
        /\ \A a \in 1..n : Front(r)[a] = r[a]
    <3>1. /\ Front(r) \in Seq(Path) /\ Len(Front(r)) = Len(r) - 1
          /\ \A a \in 1..Len(r)-1 : Front(r)[a] = r[a]
      BY <1>5, FrontProperties
    <3>2. Len(r) - 1 = n
      BY <1>2, <1>5
    <3> QED
      BY <3>1, <3>2
  <2>2. \A a \in 1..n : Front(r)[a] = p[a]
    BY <1>5, <2>1
  <2> QED
    BY <1>2, <2>1, <2>2, SeqEqual DEF n
<1>10. r[Len(r)-1] = Last(p)
  BY <1>2, <1>5
<1>11. ASSUME NEW a \in 1..Len(r)-2 PROVE r[a].type \in {"ALoop", "ANode"}
  <2>1. a \in 1..n-1 /\ a \in 1..n /\ a \in 1..Len(q)
    BY <1>2, <1>5
  <2>2. q[a] \in Elements(g)
    BY <1>1, <2>1, ElementOfSeq DEF LoopWay
  <2> QED
    BY <1>2, <1>5, <2>1, <2>2, ElementType
<1> QED
  BY <1>2, <1>3, <1>5, <1>6, <1>8, <1>9, <1>10, <1>11

LEMMA LoopPathIsReal ==
    ASSUME LoopInv
    PROVE  RealPath(path)
<1>1. CASE pc \in {"search", "undefined"}
  BY <1>1, LoopWayIsReal DEF LoopInv
<1>2. CASE pc \in {"addError", "abort"}
  BY <1>2, ReachedIsReal DEF LoopInv
<1>3. CASE pc = "done"
  BY <1>3, DoneIsReal DEF LoopInv
<1> QED
  BY <1>1, <1>2, <1>3 DEF LoopInv

(****************************************************************************)
(* The path that collectVerifyPathErrInLoop builds is a path of the program *)
(* in every state, for every graph.                                         *)
(****************************************************************************)
THEOREM LoopPathAlwaysReal == LoopSpec => []PathIsReal
<1>1. LoopInv => PathIsReal
  <2> SUFFICES ASSUME LoopInv PROVE PathIsReal
    OBVIOUS
  <2>1. RealPath(path) /\ g \in Graphs
    BY LoopPathIsReal DEF LoopInv
  <2>2. LoopTypeOK
    <3>1. init \in Seq(DOMAIN g.CFGNodeVec)
      BY InitPathsLeadToLoops DEF LoopInv, IsInitPath
    <3>2. g \in Graph
      BY <2>1, GraphFacts
    <3>3. path \in Seq(Path)
      BY <2>1 DEF RealPath
    <3> QED
      BY <2>1, <3>1, <3>2, <3>3 DEF LoopInv, LoopTypeOK, RealPath
  <2>3. path # << >> => path[1] = Element(g, 1)
    BY <2>1 DEF RealPath
  <2>4. IsChain(g, path)
    BY <2>1 DEF RealPath
  <2>5. \A i, j \in DOMAIN path :
           NodesOf(g, path[i]) \cap NodesOf(g, path[j]) # {} => i = j
    BY <2>1 DEF RealPath
  <2> QED
    BY <2>2, <2>3, <2>4, <2>5 DEF PathIsReal
<1> QED
  BY <1>1, LoopInvHolds, PTL

(****************************************************************************)
(* What it hands on is the path that verify() goes on with: it ends in the  *)
(* error loop and an error block, and is otherwise as it was built.         *)
(****************************************************************************)
THEOREM LoopPathIsPattern1 == LoopSpec => []DoneIsPattern1
<1>1. LoopInv => DoneIsPattern1
  <2> SUFFICES ASSUME LoopInv, pc = "done" PROVE DoneIsPattern1
    BY DEF DoneIsPattern1
  <2>1. g \in Graphs
    BY DEF LoopInv
  <2>2. PICK p : /\ Reached(p) /\ NamedErrors(g, Last(p)) # {}
                 /\ path = Append(p, ErrorNode(g, Last(p)))
    BY DEF LoopInv
  <2>3. /\ Len(path) >= 2 /\ Front(path) = p /\ path[Len(path)-1] = Last(p)
        /\ Last(path).type = "ERRORNODE" /\ g.CFGNodeVec[Last(path).idx].bb \in g.named
        /\ \A a \in 1..Len(path)-2 : path[a].type \in {"ALoop", "ANode"}
    BY <2>1, <2>2, DoneIsReal
  <2>4. Last(p) = [type |-> "ERRORLOOP", idx |-> assertLoopIdx]
    BY <2>1, <2>2, ReachedIsReal
  <2>5. Front(path) = PathToLoop(g, init, assertLoopIdx)
    BY <2>2, <2>3 DEF Reached
  <2>6. Last(path) = Last(path)
    OBVIOUS
  <2> QED
    BY <2>3, <2>4, <2>5, <2>6 DEF DoneIsPattern1
<1> QED
  BY <1>1, LoopInvHolds, PTL

------------------------------------------------------------------------------
(****************************************************************************)
(* The function that ReachableElements recurses on.                         *)
(****************************************************************************)
Onwards(gr, S) == S \cup UNION {{Element(gr, c) : c \in ToSet(Childs(gr, e))} : e \in S}

Further(gr, h, n) == IF n = 0 THEN {Element(gr, 1)} ELSE Onwards(gr, h[n-1])

IsWithin(gr, h) == h = [n \in 0..Len(gr.CFGNodeVec) |-> Further(gr, h, n)]

LEMMA ReachableIsWithin ==
    ReachableElements = (CHOOSE h : IsWithin(g, h))[Len(g.CFGNodeVec)]
BY DEF ReachableElements, IsWithin, Further, Onwards, Element, Element,
       ALoop, ALoop, ANode, ANode, Childs, Childs,
       ExitNode, ExitNode, IndexByBB, IndexByBB,
       SelectInSeq, SelectInSeq, ToSet, ToSet, Min, Min

LEMMA WithinExists ==
    ASSUME NEW gr \in Graphs
    PROVE  \E h : IsWithin(gr, h)
<1> DEFINE L == Len(gr.CFGNodeVec)
           Upto(m, h) == \A n \in 0..m : h[n] = Further(gr, h, n)
           S == {m \in Nat : \E h : Upto(m, h)}
<1>1. L \in Nat
  BY GraphFacts
<1>2. 0 \in S
  <2> DEFINE h == [n \in 0..0 |-> {Element(gr, 1)}]
  <2>1. h[0] = {Element(gr, 1)}
    OBVIOUS
  <2> HIDE DEF h
  <2>2. Upto(0, h)
    BY <2>1 DEF Further
  <2> QED
    BY <2>2
<1>3. ASSUME NEW m \in Nat, m \in S PROVE m + 1 \in S
  <2>1. PICK h : Upto(m, h)
    BY <1>3
  <2> DEFINE k == [n \in 0..m+1 |-> IF n <= m THEN h[n] ELSE Onwards(gr, h[m])]
  <2>2. \A n \in 0..m : k[n] = h[n]
    OBVIOUS
  <2>3. k[m+1] = Onwards(gr, h[m])
    <3>1. m + 1 \in 0..m+1 /\ ~ (m + 1 <= m)
      OBVIOUS
    <3> QED
      BY <3>1
  <2> HIDE DEF k
  <2>4. ASSUME NEW n \in 0..m+1 PROVE k[n] = Further(gr, k, n)
    <3>1. CASE n = 0
      <4>1. 0 \in 0..m
        OBVIOUS
      <4>2. k[0] = h[0] /\ h[0] = {Element(gr, 1)}
        BY <2>1, <2>2, <4>1 DEF Further
      <4> QED
        BY <3>1, <4>2 DEF Further
    <3>2. CASE n # 0 /\ n # m + 1
      <4>1. n \in 0..m /\ n - 1 \in 0..m
        BY <3>2
      <4>2. k[n] = h[n] /\ k[n-1] = h[n-1]
        BY <2>2, <4>1
      <4>3. h[n] = Onwards(gr, h[n-1])
        BY <2>1, <3>2, <4>1 DEF Further
      <4> QED
        BY <3>2, <4>2, <4>3 DEF Further
    <3>3. CASE n = m + 1
      <4>1. n # 0 /\ n - 1 = m /\ m \in 0..m
        BY <3>3
      <4>2. k[m] = h[m]
        BY <2>2, <4>1
      <4> QED
        BY <2>3, <3>3, <4>1, <4>2 DEF Further
    <3> QED
      BY <3>1, <3>2, <3>3
  <2>5. Upto(m + 1, k)
    BY <2>4
  <2> QED
    BY <2>5
<1> HIDE DEF S
<1>4. Nat \subseteq S
  BY <1>2, <1>3, Inductive
<1>5. PICK h : Upto(L, h)
  BY <1>1, <1>4 DEF S
<1> DEFINE k == [n \in 0..L |-> h[n]]
<1>6. \A n \in 0..L : k[n] = h[n]
  OBVIOUS
<1>7. k = [n \in 0..L |-> k[n]]
  OBVIOUS
<1> HIDE DEF k
<1>8. ASSUME NEW n \in 0..L PROVE k[n] = Further(gr, k, n)
  <2>1. h[n] = Further(gr, h, n)
    BY <1>5
  <2>2. n # 0 => k[n-1] = h[n-1]
    BY <1>1, <1>6
  <2> QED
    BY <1>6, <2>1, <2>2 DEF Further
<1>9. IsWithin(gr, k)
  BY <1>7, <1>8 DEF IsWithin
<1> QED
  BY <1>9

(****************************************************************************)
(* When the path is empty all that is marked has been left for good, and so *)
(* the marks close off what can be reached.                                 *)
(****************************************************************************)
LEMMA MarksCloseOff ==
    ASSUME NEW gr \in Graphs, NEW l, NEW marks, LoopMarks(gr, l, << >>, marks),
           NEW h, IsWithin(gr, h)
    PROVE  ALoop(l) \notin h[Len(gr.CFGNodeVec)]
<1> DEFINE L == Len(gr.CFGNodeVec)
           T == {Element(gr, n) : n \in marks}
           S == {n \in Nat : n \in 0..L => h[n] \subseteq T}
<1>1. L \in Nat
  BY GraphFacts
<1>2. 1 \in marks /\ \A n \in marks : LeftForGood(gr, l, Element(gr, n), marks)
  BY DEF LoopMarks, ToSet
<1>3. \A n \in 0..L : h[n] = Further(gr, h, n)
  BY DEF IsWithin
<1>4. 0 \in S
  BY <1>1, <1>2, <1>3 DEF Further
<1>5. ASSUME NEW n \in Nat, n \in S PROVE n + 1 \in S
  <2> SUFFICES ASSUME n + 1 \in 0..L, NEW e \in h[n+1] PROVE e \in T
    OBVIOUS
  <2>1. n \in 0..L /\ n + 1 # 0 /\ (n + 1) - 1 = n
    BY <1>1
  <2>2. h[n+1] = Onwards(gr, h[n]) /\ h[n] \subseteq T
    BY <1>3, <1>5, <2>1 DEF Further
  <2>3. e \in h[n] \/ \E d \in h[n] : \E c \in ToSet(Childs(gr, d)) : e = Element(gr, c)
    BY <2>2 DEF Onwards
  <2>4. ASSUME NEW d \in h[n], NEW c \in ToSet(Childs(gr, d)), e = Element(gr, c)
        PROVE  e \in T
    <3>1. PICK m \in marks : d = Element(gr, m)
      BY <2>2
    <3>2. c \in marks
      BY <1>2, <2>4, <3>1 DEF LeftForGood
    <3> QED
      BY <2>4, <3>2
  <2> QED
    BY <2>2, <2>3, <2>4
<1> HIDE DEF S
<1>6. Nat \subseteq S
  BY <1>4, <1>5, Inductive
<1>7. h[L] \subseteq T
  BY <1>1, <1>6 DEF S
<1>8. ALoop(l) \notin T
  BY <1>2 DEF LeftForGood
<1> QED
  BY <1>7, <1>8

(****************************************************************************)
(* The search takes all elements off its path only when no way leads to the *)
(* error loop over headers.                                                 *)
(****************************************************************************)
THEOREM LoopMarksLoseNothing == LoopSpec => []EmptyMeansUnreachable
<1>1. LoopInv => EmptyMeansUnreachable
  <2> SUFFICES ASSUME LoopInv, pc = "undefined"
               PROVE  ALoop(assertLoopIdx) \notin ReachableElements
    BY DEF EmptyMeansUnreachable
  <2> DEFINE h == CHOOSE hh : IsWithin(g, hh)
  <2>1. g \in Graphs /\ LoopMarks(g, assertLoopIdx, << >>, visit)
    BY DEF LoopInv
  <2>2. IsWithin(g, h)
    BY <2>1, WithinExists
  <2>3. ReachableElements = h[Len(g.CFGNodeVec)]
    BY ReachableIsWithin
  <2> HIDE DEF h
  <2> QED
    BY <2>1, <2>2, <2>3, MarksCloseOff
<1> QED
  BY <1>1, LoopInvHolds, PTL

------------------------------------------------------------------------------
(****************************************************************************)
(* What PathToLoop gives: none, or a way to the loop, with the loop retyped.*)
(****************************************************************************)
IsAnswer(gr, l, x) ==
    x # << >> => \E q : LoopWay(gr, q) /\ q # << >> /\ Last(q) = ALoop(l) /\ x = Told(q)

LEMMA LoopAnswers ==
    ASSUME NEW gr \in Graphs, NEW l, NEW i \in ToSet(InitNodesOf(gr))
    PROVE  IsAnswer(gr, l, PathToLoop(gr, i, l))
<1> DEFINE f == CHOOSE ff : IsLoopSearch(gr, l, ff)
           S == {m \in Nat : \A p, marks :
                    LoopWay(gr, p) /\ LoopMarks(gr, l, p, marks) /\ ToDo(gr, <<p, marks>>) < m
                        => IsAnswer(gr, l, f[<<p, marks>>])}
<1>1. IsLoopSearch(gr, l, f)
  BY LoopSearchExists
<1>2. PathToLoop(gr, i, l) = f[LoopStart(gr, i)]
  BY PathToLoopIsSearch
<1> HIDE DEF f
<1>3. ASSUME NEW p, NEW marks, LoopWay(gr, p), LoopMarks(gr, l, p, marks)
      PROVE  /\ p \in Seq(Elements(gr)) /\ marks \in SUBSET DOMAIN gr.CFGNodeVec
             /\ ToDo(gr, <<p, marks>>) \in Nat
             /\ f[<<p, marks>>] = LoopBody(gr, l, f, <<p, marks>>)
             /\ <<p, marks>>[1] = p /\ <<p, marks>>[2] = marks
  <2>1. p \in Seq(Elements(gr)) /\ marks \in SUBSET DOMAIN gr.CFGNodeVec
    BY <1>3 DEF LoopWay, LoopMarks
  <2>2. <<p, marks>> \in LoopStates(gr)
    BY <2>1 DEF LoopStates
  <2>3. ToDo(gr, <<p, marks>>) \in Nat
    BY <2>2, StateFacts
  <2>4. f[<<p, marks>>] = LoopBody(gr, l, f, <<p, marks>>)
    BY <1>1, <2>1, LoopSearchValue
  <2> QED
    BY <2>1, <2>3, <2>4
<1>4. 0 \in S
  BY <1>3
<1>5. ASSUME NEW m \in Nat, m \in S PROVE m + 1 \in S
  <2> SUFFICES ASSUME NEW p, NEW marks, LoopWay(gr, p), LoopMarks(gr, l, p, marks),
                      ToDo(gr, <<p, marks>>) < m + 1
               PROVE  IsAnswer(gr, l, f[<<p, marks>>])
    OBVIOUS
  <2>1. /\ p \in Seq(Elements(gr)) /\ marks \in SUBSET DOMAIN gr.CFGNodeVec
        /\ ToDo(gr, <<p, marks>>) \in Nat
        /\ f[<<p, marks>>] = LoopBody(gr, l, f, <<p, marks>>)
        /\ <<p, marks>>[1] = p /\ <<p, marks>>[2] = marks
    BY <1>3
  <2>2. CASE p = << >>
    BY <2>1, <2>2 DEF LoopBody, IsAnswer
  <2>3. CASE p # << >> /\ Last(p) = ALoop(l)
    BY <2>1, <2>3 DEF LoopBody, IsAnswer
  <2>4. ASSUME p # << >>, NEW q, NEW more, LoopWay(gr, q), LoopMarks(gr, l, q, more),
               ToDo(gr, <<q, more>>) < ToDo(gr, <<p, marks>>)
        PROVE  IsAnswer(gr, l, f[<<q, more>>])
    <3>1. ToDo(gr, <<q, more>>) \in Nat
      BY <1>3, <2>4
    <3>2. ToDo(gr, <<q, more>>) < m
      BY <2>1, <2>4, <3>1
    <3> QED
      BY <1>5, <2>4, <3>2
  <2>5. CASE p # << >> /\ Last(p) # ALoop(l) /\ Fresh(gr, p, marks) = {}
    <3>1. PICK q, more : <<q, more>> = Backed(gr, p, marks)
      BY DEF Backed
    <3>2. LoopWay(gr, q) /\ LoopMarks(gr, l, q, more)
      BY <2>5, <3>1, LoopBackKeeps
    <3>3. ToDo(gr, <<q, more>>) < ToDo(gr, <<p, marks>>)
      BY <2>1, <2>5, <3>1, ToDoFalls
    <3>4. IsAnswer(gr, l, f[<<q, more>>])
      BY <2>4, <2>5, <3>2, <3>3
    <3>5. f[<<p, marks>>] = f[Backed(gr, p, marks)]
      BY <2>1, <2>5 DEF LoopBody
    <3> QED
      BY <3>1, <3>4, <3>5
  <2>6. CASE p # << >> /\ Last(p) # ALoop(l) /\ Fresh(gr, p, marks) # {}
    <3>1. PICK q, more : <<q, more>> = Stepped(gr, p, marks)
      BY DEF Stepped
    <3>2. LoopWay(gr, q) /\ LoopMarks(gr, l, q, more)
      BY <2>6, <3>1, LoopStepKeeps
    <3>3. ToDo(gr, <<q, more>>) < ToDo(gr, <<p, marks>>)
      BY <2>1, <2>6, <3>1, ToDoFalls
    <3>4. IsAnswer(gr, l, f[<<q, more>>])
      BY <2>4, <2>6, <3>2, <3>3
    <3>5. f[<<p, marks>>] = f[Stepped(gr, p, marks)]
      BY <2>1, <2>6 DEF LoopBody
    <3> QED
      BY <3>1, <3>4, <3>5
  <2> QED
    BY <2>2, <2>3, <2>5, <2>6
<1> DEFINE p == StartPath(gr, i)
           marks == ToSet(Front(i))
<1>6. LoopWay(gr, p) /\ LoopMarks(gr, l, p, marks)
  BY LoopStartKeeps
<1>7. ToDo(gr, <<p, marks>>) \in Nat /\ LoopStart(gr, i) = <<p, marks>>
  BY <1>3, <1>6 DEF LoopStart
<1> HIDE DEF S, p, marks
<1>8. ToDo(gr, <<p, marks>>) + 1 \in S
  BY <1>4, <1>5, <1>7, Inductive
<1>9. ToDo(gr, <<p, marks>>) < ToDo(gr, <<p, marks>>) + 1
  BY <1>7
<1>10. IsAnswer(gr, l, f[<<p, marks>>])
  BY <1>6, <1>8, <1>9 DEF S
<1> QED
  BY <1>2, <1>7, <1>10

(****************************************************************************)
(* What the driver takes for granted of the search behind a loop: a path    *)
(* found ends in the error loop, and the error block makes it a path.       *)
(****************************************************************************)
THEOREM PathToLoopEndsInIt ==
    ASSUME NEW gr \in Graphs, NEW i \in ToSet(InitNodesOf(gr)), NEW l
    PROVE  LET found == PathToLoop(gr, i, l)
           IN  found # << >> =>
                   /\ found \in Seq(Path)
                   /\ Last(found) = [type |-> "ERRORLOOP", idx |-> l]
                   /\ NamedErrors(gr, Last(found)) # {} => ErrorNode(gr, Last(found)) \in Path
<1> DEFINE found == PathToLoop(gr, i, l)
<1> SUFFICES ASSUME found # << >>
             PROVE  /\ found \in Seq(Path)
                    /\ Last(found) = [type |-> "ERRORLOOP", idx |-> l]
                    /\ NamedErrors(gr, Last(found)) # {} => ErrorNode(gr, Last(found)) \in Path
  OBVIOUS
<1>1. PICK q : LoopWay(gr, q) /\ q # << >> /\ Last(q) = ALoop(l) /\ found = Told(q)
  BY LoopAnswers DEF IsAnswer
<1> HIDE DEF found
<1>2. found \in Seq(Path) /\ Last(found) = [type |-> "ERRORLOOP", idx |-> l]
  BY <1>1, ToldFacts
<1>3. NamedErrors(gr, Last(found)) # {} => ErrorNode(gr, Last(found)) \in Path
  BY <1>1, ErrorNodeFacts
<1> QED
  BY <1>2, <1>3
==============================================================================
