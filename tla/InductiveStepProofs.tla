------------------------- MODULE InductiveStepProofs -------------------------
(****************************************************************************)
(* That the base case and the inductive step of a path put to the solver    *)
(* what their rounds call for, for every graph, path and k: the rounds stay *)
(* apart, the queries are executions, and the step from k to k + 1 rounds   *)
(* is one more round of each loop, which stops at no assertion about        *)
(* branches or rotation that the base case has passed.                      *)
(****************************************************************************)
EXTENDS InductiveStep, TLAPS, SequenceTheorems, FiniteSetTheorems, WellFoundedInduction

(****************************************************************************)
(* A set of numbers that is not empty has a least.                          *)
(****************************************************************************)
LEMMA LeastNumber ==
    ASSUME NEW T \in SUBSET Nat, T # {}
    PROVE  \E x \in T : \A y \in T : x <= y
<1> DEFINE Less == OpToRel(<, Nat)
<1>1. \A x, y \in Nat : <<y, x>> \in Less <=> y < x
  BY DEF OpToRel
<1>2. IsWellFoundedOn(Less, Nat)
  BY NatLessThanWellFounded
<1> HIDE DEF Less
<1>3. PICK x \in T : \A y \in T : ~ (<<y, x>> \in Less)
  BY <1>2, WFMin
<1>4. \A y \in T : x <= y
  <2> SUFFICES ASSUME NEW y \in T PROVE x <= y
    OBVIOUS
  <2>1. x \in Nat /\ y \in Nat
    OBVIOUS
  <2>2. ~ (y < x)
    BY <1>1, <1>3, <2>1
  <2> QED
    BY <2>1, <2>2
<1> QED
  BY <1>4

(****************************************************************************)
(* A set of numbers that has 0, and with each number the next, has all.     *)
(****************************************************************************)
LEMMA Inductive ==
    ASSUME NEW S, 0 \in S, \A n \in Nat : n \in S => n + 1 \in S
    PROVE  Nat \subseteq S
<1> DEFINE T == Nat \ S
<1> SUFFICES ASSUME T # {} PROVE FALSE
  OBVIOUS
<1>1. T \in SUBSET Nat
  OBVIOUS
<1> HIDE DEF T
<1>2. PICK x \in T : \A y \in T : x <= y
  BY <1>1, LeastNumber
<1>3. x \in Nat /\ x \notin S /\ x # 0
  BY <1>2 DEF T
<1>4. x - 1 \in Nat /\ ~ (x <= x - 1) /\ (x - 1) + 1 = x
  BY <1>3
<1>5. x - 1 \notin T
  BY <1>2, <1>4
<1> QED
  BY <1>3, <1>4, <1>5 DEF T

------------------------------------------------------------------------------
(****************************************************************************)
(* The function that FlattenSeq recurses on.                                *)
(****************************************************************************)
IsFlat(F, n, f) == f = [a \in 1..n |-> IF a = 1 THEN F[a] ELSE f[a-1] \o F[a]]

(****************************************************************************)
(* There is one, whatever the sequences.                                    *)
(****************************************************************************)
LEMMA FlatExists ==
    ASSUME NEW F, NEW n \in Nat
    PROVE  \E f : IsFlat(F, n, f)
<1> DEFINE S == {m \in Nat : \E f : IsFlat(F, m, f)}
<1>1. 0 \in S
  <2>1. IsFlat(F, 0, [a \in {} |-> a])
    BY DEF IsFlat
  <2> QED
    BY <2>1
<1>2. ASSUME NEW m \in Nat, m \in S PROVE m + 1 \in S
  <2>1. PICK f : IsFlat(F, m, f)
    BY <1>2
  <2> DEFINE h == [a \in 1..m+1 |-> IF a <= m THEN f[a]
                                    ELSE IF a = 1 THEN F[a] ELSE f[m] \o F[m+1]]
  <2>2. ASSUME NEW a \in 1..m+1
        PROVE  h[a] = IF a = 1 THEN F[a] ELSE h[a-1] \o F[a]
    <3>1. CASE a <= m
      <4>1. a \in 1..m
        BY <3>1
      <4>2. h[a] = f[a]
        BY <3>1
      <4>3. f[a] = IF a = 1 THEN F[a] ELSE f[a-1] \o F[a]
        BY <2>1, <4>1 DEF IsFlat
      <4>4. a # 1 => h[a-1] = f[a-1]
        BY <4>1
      <4> QED
        BY <4>2, <4>3, <4>4
    <3>2. CASE a = m + 1
      <4>1. ~ (a <= m)
        BY <3>2
      <4>2. h[a] = IF a = 1 THEN F[a] ELSE f[m] \o F[m+1]
        BY <4>1
      <4>3. a # 1 => h[a-1] = f[m]
        BY <3>2
      <4> QED
        BY <3>2, <4>2, <4>3
    <3> QED
      BY <3>1, <3>2
  <2>3. h = [a \in 1..m+1 |-> h[a]]
    OBVIOUS
  <2> HIDE DEF h
  <2>4. h = [a \in 1..m+1 |-> IF a = 1 THEN F[a] ELSE h[a-1] \o F[a]]
    BY <2>2, <2>3
  <2>5. IsFlat(F, m + 1, h)
    BY <2>4 DEF IsFlat
  <2> QED
    BY <2>5
<1> HIDE DEF S
<1>3. Nat \subseteq S
  BY <1>1, <1>2, Inductive
<1> QED
  BY <1>3 DEF S

(****************************************************************************)
(* A value of such a function.                                              *)
(****************************************************************************)
LEMMA FlatValue ==
    ASSUME NEW F, NEW n \in Nat, NEW f, IsFlat(F, n, f), NEW a \in 1..n
    PROVE  f[a] = IF a = 1 THEN F[a] ELSE f[a-1] \o F[a]
<1> DEFINE value(b) == IF b = 1 THEN F[b] ELSE f[b-1] \o F[b]
<1>1. f = [b \in 1..n |-> value(b)]
  BY DEF IsFlat
<1> HIDE DEF value
<1>2. f[a] = value(a)
  BY <1>1
<1> QED
  BY <1>2 DEF value

(****************************************************************************)
(* Two of them agree where both are defined and the sequences are the same. *)
(****************************************************************************)
LEMMA FlatAgrees ==
    ASSUME NEW F, NEW H, NEW n \in Nat, NEW m \in Nat, n <= m,
           \A a \in 1..n : F[a] = H[a],
           NEW f, IsFlat(F, n, f), NEW h, IsFlat(H, m, h)
    PROVE  \A a \in 1..n : f[a] = h[a]
<1> DEFINE S == {a \in Nat : a \in 1..n => f[a] = h[a]}
<1>1. 0 \in S
  OBVIOUS
<1>2. ASSUME NEW a \in Nat, a \in S PROVE a + 1 \in S
  <2> SUFFICES ASSUME a + 1 \in 1..n PROVE f[a+1] = h[a+1]
    OBVIOUS
  <2>1. a + 1 \in 1..m /\ (a + 1) - 1 = a /\ F[a+1] = H[a+1]
    OBVIOUS
  <2>2. f[a+1] = IF a + 1 = 1 THEN F[a+1] ELSE f[a] \o F[a+1]
    BY <2>1, FlatValue
  <2>3. h[a+1] = IF a + 1 = 1 THEN H[a+1] ELSE h[a] \o H[a+1]
    BY <2>1, FlatValue
  <2>4. a + 1 # 1 => f[a] = h[a]
    BY <1>2
  <2> QED
    BY <2>1, <2>2, <2>3, <2>4
<1> HIDE DEF S
<1>3. Nat \subseteq S
  BY <1>1, <1>2, Inductive
<1> QED
  BY <1>3 DEF S

(****************************************************************************)
(* What FlattenSeq computes of sequences that are not none.                 *)
(****************************************************************************)
LEMMA FlattenIsFlat ==
    ASSUME NEW F, NEW n \in Nat \ {0}, Len(F) = n
    PROVE  \E f : IsFlat(F, n, f) /\ FlattenSeq(F) = f[n]
<1> DEFINE f == CHOOSE ff : IsFlat(F, n, ff)
<1>1. IsFlat(F, n, f)
  BY FlatExists
<1>2. FlattenSeq(F) = f[n]
  BY DEF FlattenSeq, IsFlat
<1> QED
  BY <1>1, <1>2

(****************************************************************************)
(* Without its last sequence, a sequence of sequences flattens to what that *)
(* one is put behind.                                                       *)
(****************************************************************************)
First(F, n) == [a \in 1..n |-> F[a]]

LEMMA FlattenNone ==
    ASSUME NEW F
    PROVE  First(F, 0) = << >> /\ FlattenSeq(First(F, 0)) = << >>
<1>1. First(F, 0) = << >>
  BY DEF First
<1>2. FlattenSeq(<< >>) = << >>
  BY DEF FlattenSeq
<1> QED
  BY <1>1, <1>2

LEMMA FlattenOne ==
    ASSUME NEW F, NEW n \in Nat, n > 0
    PROVE  FlattenSeq(First(F, n + 1)) = FlattenSeq(First(F, n)) \o F[n+1]
<1> DEFINE H == First(F, n)
           G == First(F, n + 1)
<1>1. Len(H) = n /\ Len(G) = n + 1 /\ n \in Nat \ {0} /\ n + 1 \in Nat \ {0}
  BY DEF First
<1>2. /\ \A a \in 1..n : H[a] = G[a]
      /\ G[n+1] = F[n+1]
  BY DEF First
<1> HIDE DEF H, G
<1>3. PICK f : IsFlat(H, n, f) /\ FlattenSeq(H) = f[n]
  BY <1>1, FlattenIsFlat
<1>4. PICK h : IsFlat(G, n + 1, h) /\ FlattenSeq(G) = h[n+1]
  BY <1>1, FlattenIsFlat
<1>5. f[n] = h[n]
  <2>1. n \in 1..n /\ n <= n + 1 /\ n + 1 \in Nat
    OBVIOUS
  <2>2. \A a \in 1..n : f[a] = h[a]
    BY <1>2, <1>3, <1>4, <2>1, FlatAgrees
  <2> QED
    BY <2>1, <2>2
<1>6. h[n+1] = h[n] \o G[n+1]
  <2>1. n + 1 \in 1..n+1 /\ n + 1 # 1 /\ (n + 1) - 1 = n
    OBVIOUS
  <2> QED
    BY <1>4, <2>1 DEF IsFlat
<1> QED
  BY <1>2, <1>3, <1>4, <1>5, <1>6 DEF H, G

LEMMA FlattenGrows ==
    ASSUME NEW S, NEW F, NEW n \in Nat, \A a \in 1..n+1 : F[a] \in Seq(S)
    PROVE  /\ FlattenSeq(First(F, n)) \in Seq(S)
           /\ FlattenSeq(First(F, n + 1)) = FlattenSeq(First(F, n)) \o F[n+1]
<1> DEFINE T == {m \in Nat : m <= n + 1 => FlattenSeq(First(F, m)) \in Seq(S)}
<1>1. FlattenSeq(First(F, 0)) \in Seq(S) /\ FlattenSeq(First(F, 0)) = << >>
  BY FlattenNone, EmptySeq
<1>2. FlattenSeq(First(F, 1)) = F[1]
  <2> DEFINE H == First(F, 1)
  <2>1. Len(H) = 1 /\ H[1] = F[1]
    BY DEF First
  <2> HIDE DEF H
  <2>2. PICK h : IsFlat(H, 1, h) /\ FlattenSeq(H) = h[1]
    <3>1. 1 \in Nat \ {0}
      OBVIOUS
    <3> QED
      BY <2>1, <3>1, FlattenIsFlat
  <2>3. h[1] = H[1]
    BY <2>2 DEF IsFlat
  <2> QED
    BY <2>1, <2>2, <2>3 DEF H
<1>3. ASSUME NEW m \in Nat, m \in T PROVE m + 1 \in T
  <2> SUFFICES ASSUME m + 1 <= n + 1 PROVE FlattenSeq(First(F, m + 1)) \in Seq(S)
    OBVIOUS
  <2>1. CASE m = 0
    BY <1>2, <2>1
  <2>2. CASE m > 0
    <3>1. FlattenSeq(First(F, m)) \in Seq(S) /\ F[m+1] \in Seq(S)
      BY <1>3
    <3> QED
      BY <2>2, <3>1, FlattenOne, ConcatProperties
  <2> QED
    BY <2>1, <2>2
<1>4. 0 \in T
  BY <1>1
<1> HIDE DEF T
<1>5. Nat \subseteq T
  BY <1>3, <1>4, Inductive
<1>6. FlattenSeq(First(F, n)) \in Seq(S)
  BY <1>5 DEF T
<1>7. CASE n = 0
  <2>1. FlattenSeq(First(F, 0)) \o F[1] = F[1]
    BY <1>1, <1>7, ConcatEmptySeq
  <2> QED
    BY <1>2, <1>6, <1>7, <2>1
<1>8. CASE n > 0
  BY <1>6, <1>8, FlattenOne
<1> QED
  BY <1>7, <1>8

(****************************************************************************)
(* What holds of no sequence, and stays when one more is put behind, holds  *)
(* of all.                                                                  *)
(****************************************************************************)
LEMMA FlattenType ==
    ASSUME NEW S, NEW F, NEW n \in Nat, \A a \in 1..n : F[a] \in Seq(S)
    PROVE  FlattenSeq(First(F, n)) \in Seq(S)
<1>1. CASE n = 0
  BY <1>1, FlattenNone, EmptySeq
<1>2. CASE n > 0
  <2>1. n - 1 \in Nat /\ (n - 1) + 1 = n
    BY <1>2
  <2>2. FlattenSeq(First(F, n)) = FlattenSeq(First(F, n - 1)) \o F[n]
        /\ FlattenSeq(First(F, n - 1)) \in Seq(S)
    BY <2>1, FlattenGrows
  <2>3. F[n] \in Seq(S)
    BY <2>1
  <2> QED
    BY <2>2, <2>3, ConcatProperties
<1> QED
  BY <1>1, <1>2

(****************************************************************************)
(* Repeating a sequence once more.                                          *)
(****************************************************************************)
LEMMA RepeatMore ==
    ASSUME NEW S, NEW s \in Seq(S), NEW n \in Nat
    PROVE  /\ Repeat(s, n) \in Seq(S)
           /\ Repeat(s, n + 1) = Repeat(s, n) \o s
           /\ Repeat(s, 0) = << >>
           /\ Repeat(s, 1) = s
<1> DEFINE F == [a \in Nat |-> s]
<1>1. ASSUME NEW m \in Nat PROVE Repeat(s, m) = FlattenSeq(First(F, m))
  <2>1. [a \in 1..m |-> s] = First(F, m)
    BY DEF First
  <2> QED
    BY <2>1 DEF Repeat
<1>2. \A a \in 1..n+1 : F[a] \in Seq(S) /\ F[a] = s
  OBVIOUS
<1>3. F[1] = s /\ F[n+1] = s /\ \A a \in 1..0+1 : F[a] \in Seq(S)
  OBVIOUS
<1> HIDE DEF F
<1>4. /\ FlattenSeq(First(F, n)) \in Seq(S)
      /\ FlattenSeq(First(F, n + 1)) = FlattenSeq(First(F, n)) \o F[n+1]
  BY <1>2, FlattenGrows
<1>5. FlattenSeq(First(F, 0)) = << >>
  BY FlattenNone
<1>6. FlattenSeq(First(F, 1)) = FlattenSeq(First(F, 0)) \o F[1]
  <2>1. FlattenSeq(First(F, 0 + 1)) = FlattenSeq(First(F, 0)) \o F[0 + 1]
    BY <1>3, FlattenGrows
  <2>2. 0 + 1 = 1
    OBVIOUS
  <2> QED
    BY <2>1, <2>2
<1>7. << >> \o s = s
  BY ConcatEmptySeq
<1>8. Repeat(s, 1) = s
  <2>1. FlattenSeq(First(F, 1)) = << >> \o s
    BY <1>3, <1>5, <1>6
  <2> QED
    BY <1>1, <1>7, <2>1
<1>9. Repeat(s, n) \in Seq(S) /\ Repeat(s, n + 1) = Repeat(s, n) \o s
  <2>1. n + 1 \in Nat
    OBVIOUS
  <2>2. Repeat(s, n) = FlattenSeq(First(F, n)) /\ Repeat(s, n + 1) = FlattenSeq(First(F, n + 1))
    BY <1>1, <2>1
  <2> QED
    BY <1>3, <1>4, <2>2
<1>10. Repeat(s, 0) = << >>
  BY <1>1, <1>5
<1> QED
  BY <1>8, <1>9, <1>10

------------------------------------------------------------------------------
(****************************************************************************)
(* What the graphs and the searches grant.                                  *)
(****************************************************************************)
Nodes(gr) == DOMAIN gr.CFGNodeVec

LEMMA GraphFacts ==
    ASSUME NEW gr \in Graphs
    PROVE  /\ gr \in Graph
           /\ IsCFG(gr.CFGNodeVec, gr.LCSSAs)
           /\ Nodes(gr) = 1..Len(gr.CFGNodeVec) /\ Len(gr.CFGNodeVec) \in Nat
           /\ \A n \in Nodes(gr) : ToSet(gr.CFGNodeVec[n].childs) \subseteq Nodes(gr)
           /\ \A l \in DOMAIN gr.LCSSAs : gr.LCSSAs[l].bbVec \in Seq(Block)
<1>1. gr \in Graph /\ IsCFG(gr.CFGNodeVec, gr.LCSSAs)
  BY GraphsAssumption
<1>2. gr.CFGNodeVec \in Seq(CFGNodes) /\ gr.LCSSAs \in Seq(LCSSA)
  BY <1>1 DEF Graph
<1>3. Nodes(gr) = 1..Len(gr.CFGNodeVec) /\ Len(gr.CFGNodeVec) \in Nat
  BY <1>2, LenProperties DEF Nodes
<1>4. \A n \in Nodes(gr) : ToSet(gr.CFGNodeVec[n].childs) \subseteq Nodes(gr)
  BY <1>1 DEF IsCFG, Nodes
<1>5. ASSUME NEW l \in DOMAIN gr.LCSSAs PROVE gr.LCSSAs[l].bbVec \in Seq(Block)
  <2>1. gr.LCSSAs[l] \in LCSSA
    BY <1>2, LenProperties, ElementOfSeq
  <2> QED
    BY <2>1 DEF LCSSA
<1> QED
  BY <1>1, <1>3, <1>4, <1>5

LEMMA PathFacts ==
    ASSUME NEW gr \in Graphs, NEW p \in ErrPaths(gr)
    PROVE  /\ p \in Seq(Path) /\ p # << >> /\ Len(p) \in Nat \ {0} /\ DOMAIN p = 1..Len(p)
           /\ IsChain(gr, p)
           /\ p[Len(p)].type = "ERRORNODE"
           /\ \A n \in 1..Len(p)-1 :
                 p[n].type \in {"ALoop", "ANode"} \/ (n = Len(p)-1 /\ p[n].type = "ERRORLOOP")
           /\ \A n \in 1..Len(p) :
                 p[n].idx \in IF p[n].type \in {"ALoop", "ERRORLOOP"}
                             THEN DOMAIN gr.LCSSAs ELSE Nodes(gr)
           /\ \A m, n \in 1..Len(p) : NodesOf(gr, p[m]) \cap NodesOf(gr, p[n]) # {} => m = n
<1>1. p \in Seq(Path) /\ p # << >>
  BY ErrPathsAssumption
<1>2. Len(p) \in Nat \ {0} /\ DOMAIN p = 1..Len(p)
  BY <1>1, EmptySeq, LenProperties
<1>3. p[Len(p)].type = "ERRORNODE"
  BY ErrPathsAssumption DEF Last
<1> QED
  BY <1>1, <1>2, <1>3, ErrPathsAssumption DEF Nodes

(****************************************************************************)
(* Looking up a block that the vector has gives a node of this block.       *)
(****************************************************************************)
LEMMA IndexFound ==
    ASSUME NEW gr \in Graphs, NEW bb \in BBs(gr.CFGNodeVec)
    PROVE  /\ IndexByBB(gr.CFGNodeVec, bb) \in Nodes(gr)
           /\ gr.CFGNodeVec[IndexByBB(gr.CFGNodeVec, bb)].bb = bb
           /\ \A n \in Nodes(gr) :
                 gr.CFGNodeVec[n].bb = bb => n = IndexByBB(gr.CFGNodeVec, bb)
<1> DEFINE vec == gr.CFGNodeVec
           I == {a \in 1..Len(vec) : vec[a].bb = bb}
<1>1. DOMAIN vec = 1..Len(vec) /\ Len(vec) \in Nat /\ IsCFG(vec, gr.LCSSAs)
  BY GraphFacts DEF Nodes
<1>2. PICK n \in DOMAIN vec : vec[n].bb = bb
  BY DEF BBs
<1>3. IndexByBB(vec, bb) = IF I # {} THEN Min(I) ELSE 0
  BY DEF IndexByBB, SelectInSeq
<1>4. I = {n}
  BY <1>1, <1>2 DEF IsCFG
<1>5. Min({n}) = n
  BY <1>1 DEF Min
<1>6. IndexByBB(vec, bb) = n
  BY <1>3, <1>4, <1>5
<1>7. \A m \in DOMAIN vec : vec[m].bb = bb => m = n
  BY <1>1, <1>2 DEF IsCFG
<1> QED
  BY <1>2, <1>6, <1>7 DEF Nodes

(****************************************************************************)
(* The nodes of a loop, in the order of its block vector.                   *)
(****************************************************************************)
LEMMA BodyFacts ==
    ASSUME NEW gr \in Graphs, NEW l \in DOMAIN gr.LCSSAs
    PROVE  /\ LoopBody(gr, l) \in Seq(Nodes(gr)) /\ LoopBody(gr, l) # << >>
           /\ Len(LoopBody(gr, l)) \in Nat \ {0}
           /\ Len(LoopBody(gr, l)) = Len(gr.LCSSAs[l].bbVec)
           /\ DOMAIN gr.LCSSAs[l].bbVec = 1..Len(gr.LCSSAs[l].bbVec)
           /\ \A a \in 1..Len(LoopBody(gr, l)) :
                 /\ gr.LCSSAs[l].bbVec[a] \in BBs(gr.CFGNodeVec)
                 /\ LoopBody(gr, l)[a] = IndexByBB(gr.CFGNodeVec, gr.LCSSAs[l].bbVec[a])
<1> DEFINE bbVec == gr.LCSSAs[l].bbVec
           body == LoopBody(gr, l)
<1>1. bbVec \in Seq(Block) /\ DOMAIN bbVec = 1..Len(bbVec) /\ Len(bbVec) \in Nat
  BY GraphFacts, LenProperties
<1>2. /\ gr.LCSSAs[l].header \in ToSet(bbVec)
      /\ ToSet(bbVec) \subseteq BBs(gr.CFGNodeVec)
  <2>1. IsCFG(gr.CFGNodeVec, gr.LCSSAs)
    BY GraphFacts
  <2>2. /\ gr.LCSSAs[l].header \in ToSet(bbVec)
        /\ ToSet(bbVec) \subseteq BBs(gr.CFGNodeVec)
    BY <2>1 DEF IsCFG
  <2> QED
    BY <2>2
<1>3. body = [a \in 1..Len(bbVec) |-> IndexByBB(gr.CFGNodeVec, bbVec[a])]
  BY <1>1 DEF LoopBody
<1>4. \A a \in 1..Len(bbVec) :
         /\ bbVec[a] \in BBs(gr.CFGNodeVec)
         /\ IndexByBB(gr.CFGNodeVec, bbVec[a]) \in Nodes(gr)
  <2>1. \A a \in 1..Len(bbVec) : bbVec[a] \in BBs(gr.CFGNodeVec)
    BY <1>1, <1>2 DEF ToSet
  <2> QED
    BY <2>1, IndexFound
<1>5. Len(bbVec) # 0
  BY <1>1, <1>2 DEF ToSet
<1> HIDE DEF bbVec, body
<1>6. body \in Seq(Nodes(gr)) /\ Len(body) = Len(bbVec)
  <2>1. body \in [1..Len(bbVec) -> Nodes(gr)]
    BY <1>3, <1>4
  <2> QED
    BY <1>1, <2>1
<1>7. body # << >>
  BY <1>1, <1>5, <1>6, EmptySeq
<1> QED
  BY <1>1, <1>3, <1>4, <1>5, <1>6, <1>7 DEF body, bbVec

(****************************************************************************)
(* The last round of an error loop is not empty and starts with its first   *)
(* block.                                                                   *)
(****************************************************************************)
LEMMA LastRoundType ==
    ASSUME NEW gr \in Graphs, NEW l \in DOMAIN gr.LCSSAs, NEW err
    PROVE  /\ LastRound(gr, l, err) \in Seq(Nodes(gr)) /\ LastRound(gr, l, err) # << >>
<1> DEFINE body == LoopBody(gr, l)
           I == {a \in 1..Len(body) : err \in ToSet(gr.CFGNodeVec[body[a]].childs)}
           at == IF I # {} THEN Min(I) ELSE 0
<1>1. /\ body \in Seq(Nodes(gr)) /\ body # << >> /\ Len(body) \in Nat \ {0}
  BY BodyFacts
<1>2. LastRound(gr, l, err) = IF at = 0 THEN body ELSE Append(SubSeq(body, 1, at), err)
  BY DEF LastRound, SelectInSeq
<1>3. CASE at = 0
  BY <1>1, <1>2, <1>3
<1>4. CASE at # 0
  <2>1. I # {} /\ I \in SUBSET Nat /\ at = Min(I)
    BY <1>1, <1>4
  <2>2. Min(I) \in I
    <3>1. PICK x \in I : \A y \in I : x <= y
      BY <2>1, LeastNumber
    <3> QED
      BY <3>1 DEF Min
  <2>3. at \in 1..Len(body) /\ err \in ToSet(gr.CFGNodeVec[body[at]].childs)
    BY <2>1, <2>2
  <2> HIDE DEF at, I
  <2>4. err \in Nodes(gr)
    <3>1. body[at] \in Nodes(gr)
      BY <1>1, <2>3, ElementOfSeq
    <3> QED
      BY <2>3, <3>1, GraphFacts
  <2>5. SubSeq(body, 1, at) \in Seq(Nodes(gr))
    <3>1. at \in Int /\ 1 \in Int /\ \A a \in 1..at : body[a] \in Nodes(gr)
      <4> HIDE DEF body
      <4> QED
        BY <1>1, <2>3, ElementOfSeq
    <3> HIDE DEF body
    <3> QED
      BY <1>1, <3>1, SubSeqProperties
  <2> HIDE DEF body
  <2> QED
    BY <1>2, <1>4, <2>4, <2>5, AppendProperties
<1> QED
  BY <1>3, <1>4

(****************************************************************************)
(* Each element of a path is unrolled into some nodes of the graph.         *)
(****************************************************************************)
LEMMA ElementType ==
    ASSUME NEW gr \in Graphs, NEW p \in ErrPaths(gr), NEW n \in 1..Len(p),
           NEW rounds \in Nat \ {0}, NEW count \in Nat \ {0}
    PROVE  /\ UnrollElement(gr, p, n, rounds, count) \in Seq(Nodes(gr))
           /\ UnrollElement(gr, p, n, rounds, count) # << >>
<1> DEFINE U == UnrollElement(gr, p, n, rounds, count)
<1>1. /\ p[n].type \in {"ALoop", "ANode", "ERRORNODE", "ERRORLOOP"}
      /\ p[n].idx \in IF p[n].type \in {"ALoop", "ERRORLOOP"} THEN DOMAIN gr.LCSSAs ELSE Nodes(gr)
  BY PathFacts
<1>2. CASE p[n].type \in {"ANode", "ERRORNODE"}
  <2>1. U = <<p[n].idx>>
    BY <1>2 DEF UnrollElement
  <2> QED
    BY <1>1, <1>2, <2>1
<1>3. CASE p[n].type = "ALoop"
  <2> DEFINE body == LoopBody(gr, p[n].idx)
  <2>1. U = Repeat(body, rounds)
    BY <1>3 DEF UnrollElement
  <2>2. body \in Seq(Nodes(gr)) /\ body # << >>
    BY <1>1, <1>3, BodyFacts
  <2>3. rounds - 1 \in Nat /\ (rounds - 1) + 1 = rounds
    OBVIOUS
  <2> HIDE DEF body
  <2>4. Repeat(body, rounds - 1) \in Seq(Nodes(gr)) /\ Repeat(body, rounds) = Repeat(body, rounds - 1) \o body
    BY <2>2, <2>3, RepeatMore
  <2> QED
    BY <2>1, <2>2, <2>4, ConcatProperties, EmptySeq
<1>4. CASE p[n].type = "ERRORLOOP"
  <2> DEFINE body == LoopBody(gr, p[n].idx)
             last == LastRound(gr, p[n].idx, p[n+1].idx)
  <2>1. U = Repeat(body, count - 1) \o last
    BY <1>4 DEF UnrollElement
  <2>2. body \in Seq(Nodes(gr)) /\ last \in Seq(Nodes(gr)) /\ last # << >>
    BY <1>1, <1>4, BodyFacts, LastRoundType
  <2>3. count - 1 \in Nat
    OBVIOUS
  <2> HIDE DEF body, last
  <2>4. Repeat(body, count - 1) \in Seq(Nodes(gr))
    BY <2>2, <2>3, RepeatMore
  <2> QED
    BY <2>1, <2>2, <2>4, ConcatProperties, EmptySeq
<1> QED
  BY <1>1, <1>2, <1>3, <1>4

(****************************************************************************)
(* The unrolling of the first n elements of a path, and of all of them.     *)
(****************************************************************************)
Unrolled(gr, p, rounds, count, n) ==
    FlattenSeq([m \in 1..n |-> UnrollElement(gr, p, m, rounds, count)])

LEMMA UnrolledGrows ==
    ASSUME NEW gr \in Graphs, NEW p \in ErrPaths(gr),
           NEW rounds \in Nat \ {0}, NEW count \in Nat \ {0}
    PROVE  /\ Unrolled(gr, p, rounds, count, 0) = << >>
           /\ \A n \in 0..Len(p) : Unrolled(gr, p, rounds, count, n) \in Seq(Nodes(gr))
           /\ \A n \in 1..Len(p) :
                 Unrolled(gr, p, rounds, count, n) =
                    Unrolled(gr, p, rounds, count, n - 1) \o UnrollElement(gr, p, n, rounds, count)
           /\ UnrollPath(gr, p, rounds, count) = Unrolled(gr, p, rounds, count, Len(p))
<1> DEFINE F == [m \in 1..Len(p) |-> UnrollElement(gr, p, m, rounds, count)]
<1>1. Len(p) \in Nat \ {0} /\ DOMAIN p = 1..Len(p)
  BY PathFacts
<1>2. \A n \in 0..Len(p) : Unrolled(gr, p, rounds, count, n) = FlattenSeq(First(F, n))
  <2> SUFFICES ASSUME NEW n \in 0..Len(p)
               PROVE  [m \in 1..n |-> UnrollElement(gr, p, m, rounds, count)] = First(F, n)
    BY DEF Unrolled
  <2>1. \A m \in 1..n : F[m] = UnrollElement(gr, p, m, rounds, count)
    BY <1>1
  <2> QED
    BY <2>1 DEF First
<1>3. UnrollPath(gr, p, rounds, count) = Unrolled(gr, p, rounds, count, Len(p))
  BY <1>1 DEF UnrollPath, Unrolled
<1>4. \A m \in 1..Len(p) : F[m] \in Seq(Nodes(gr)) /\ F[m] = UnrollElement(gr, p, m, rounds, count)
  BY ElementType
<1> HIDE DEF F
<1>5. ASSUME NEW n \in 0..Len(p) PROVE FlattenSeq(First(F, n)) \in Seq(Nodes(gr))
  <2>1. n \in Nat /\ \A m \in 1..n : F[m] \in Seq(Nodes(gr))
    BY <1>1, <1>4
  <2> QED
    BY <2>1, FlattenType
<1>6. ASSUME NEW n \in 1..Len(p)
      PROVE  FlattenSeq(First(F, n)) = FlattenSeq(First(F, n - 1)) \o F[n]
  <2>1. n - 1 \in Nat /\ (n - 1) + 1 = n /\ \A m \in 1..(n - 1) + 1 : F[m] \in Seq(Nodes(gr))
    BY <1>1, <1>4
  <2>2. FlattenSeq(First(F, (n - 1) + 1)) = FlattenSeq(First(F, n - 1)) \o F[(n - 1) + 1]
    BY <2>1, FlattenGrows
  <2> QED
    BY <2>1, <2>2
<1>7. FlattenSeq(First(F, 0)) = << >>
  BY FlattenNone
<1>8. 0 \in 0..Len(p) /\ \A n \in 1..Len(p) : n \in 0..Len(p) /\ n - 1 \in 0..Len(p)
  BY <1>1
<1> QED
  BY <1>2, <1>3, <1>4, <1>5, <1>6, <1>7, <1>8

LEMMA UnrolledStep ==
    ASSUME NEW gr \in Graphs, NEW p \in ErrPaths(gr),
           NEW rounds \in Nat \ {0}, NEW count \in Nat \ {0}, NEW n \in 1..Len(p)
    PROVE  Unrolled(gr, p, rounds, count, n) =
              Unrolled(gr, p, rounds, count, n - 1) \o UnrollElement(gr, p, n, rounds, count)
  BY UnrolledGrows

------------------------------------------------------------------------------
(****************************************************************************)
(* The base case.  While a round is unrolled the queries before it are      *)
(* those of the rounds before it, and its sequence is what of the path has  *)
(* been unrolled; every path that was asked about has its loops rotated and *)
(* its branches followed.                                                   *)
(****************************************************************************)
BaseControl ==
    /\ g \in Graphs
    /\ path \in ErrPaths(g)
    /\ k \in 1..MaxK
    /\ errorLoopCount \in 1..k+1
    /\ i \in 1..Len(path)+1
    /\ answer \in {"none", "unsat", "sat", "unknown"}
    /\ pc \in {"unroll", "true", "false", "abort", "notRotated"}

BaseUnrolling ==
    /\ baseNodeIdx = Unrolled(g, path, k, errorLoopCount, i - 1)
    /\ pc = "unroll" => \A n \in 1..i-1 : ~ElementNotRotated(g, path[n])

QueriesAsked ==
    /\ queries \in Seq([nodes : Seq(Nodes(g)), count : Nat])
    /\ pc = "unroll" => errorLoopCount <= k /\ Len(queries) = errorLoopCount - 1
    /\ pc = "true" => Len(queries) = k
    /\ \A n \in 1..Len(queries) :
          /\ queries[n] = [nodes |-> UnrollPath(g, path, k, n), count |-> n]
          /\ BranchesFollowed(g, queries[n].nodes)
    /\ queries # << >> => \A n \in 1..Len(path) : ~ElementNotRotated(g, path[n])

BaseInv == BaseControl /\ BaseUnrolling /\ QueriesAsked

(****************************************************************************)
(* The numbers of a round.                                                  *)
(****************************************************************************)
LEMMA BaseFacts ==
    ASSUME BaseControl
    PROVE  /\ g \in Graphs /\ path \in ErrPaths(g)
           /\ k \in Nat \ {0} /\ errorLoopCount \in Nat \ {0}
           /\ Len(path) \in Nat \ {0} /\ DOMAIN path = 1..Len(path)
           /\ i \in Nat \ {0} /\ i <= Len(path) + 1 /\ errorLoopCount <= k + 1
<1>1. g \in Graphs /\ path \in ErrPaths(g) /\ k \in Nat \ {0} /\ errorLoopCount \in Nat \ {0}
      /\ errorLoopCount <= k + 1
  BY MaxKAssumption DEF BaseControl
<1>2. Len(path) \in Nat \ {0} /\ DOMAIN path = 1..Len(path)
  BY <1>1, PathFacts
<1> QED
  BY <1>1, <1>2 DEF BaseControl

(****************************************************************************)
(* The invariant gives what the base case promises.                         *)
(****************************************************************************)
LEMMA BaseInvIsSeparate == BaseInv => RoundsAreSeparate
<1> SUFFICES ASSUME BaseInv PROVE RoundsAreSeparate
  OBVIOUS
<1>1. BaseControl /\ BaseUnrolling /\ QueriesAsked
  BY DEF BaseInv
<1>2. /\ g \in Graphs /\ path \in ErrPaths(g) /\ k \in Nat \ {0} /\ errorLoopCount \in Nat \ {0}
      /\ Len(path) \in Nat \ {0} /\ i \in Nat \ {0} /\ i <= Len(path) + 1
  BY <1>1, BaseFacts
<1>3. g \in Graph /\ path \in Seq(Path)
  BY <1>2, GraphFacts, PathFacts
<1>4. baseNodeIdx \in Seq(DOMAIN g.CFGNodeVec)
  <2>1. i - 1 \in 0..Len(path)
    BY <1>2
  <2> QED
    BY <1>1, <1>2, <2>1, UnrolledGrows DEF BaseUnrolling, Nodes
<1>5. DOMAIN queries = 1..Len(queries) /\ Len(queries) \in Nat
  BY <1>1, LenProperties DEF QueriesAsked
<1>6. ASSUME NEW n \in DOMAIN queries
      PROVE  /\ queries[n].count = n
             /\ queries[n].nodes = UnrollPath(g, path, k, n)
             /\ queries[n].nodes \in Seq(DOMAIN g.CFGNodeVec)
  <2>1. queries[n] = [nodes |-> UnrollPath(g, path, k, n), count |-> n]
    BY <1>1, <1>5 DEF QueriesAsked
  <2>2. queries[n] \in [nodes : Seq(Nodes(g)), count : Nat]
    BY <1>1, <1>5, ElementOfSeq DEF QueriesAsked
  <2> QED
    BY <2>1, <2>2 DEF Nodes
<1>7. TypeOK
  BY <1>1, <1>3, <1>4, <1>6 DEF BaseControl, TypeOK
<1>8. baseNodeIdx = FlattenSeq([n \in 1..i-1 |-> UnrollElement(g, path, n, k, errorLoopCount)])
  BY <1>1 DEF BaseUnrolling, Unrolled
<1>9. pc = "true" => Len(queries) = k
  BY <1>1 DEF QueriesAsked
<1> QED
  BY <1>6, <1>7, <1>8, <1>9 DEF RoundsAreSeparate

LEMMA BaseInitInv == Init => BaseInv
<1> SUFFICES ASSUME Init PROVE BaseInv
  OBVIOUS
<1>1. /\ g \in Graphs /\ path \in ErrPaths(g) /\ k \in 1..MaxK /\ errorLoopCount = 1 /\ i = 1
      /\ baseNodeIdx = << >> /\ queries = << >> /\ answer = "none" /\ pc = "unroll"
  BY DEF Init
<1>2. Len(path) \in Nat /\ k \in Nat \ {0} /\ 1 \in Nat \ {0}
  BY <1>1, PathFacts, MaxKAssumption
<1>3. BaseControl
  BY <1>1, <1>2 DEF BaseControl
<1>4. baseNodeIdx = Unrolled(g, path, k, errorLoopCount, i - 1)
  <2>1. Unrolled(g, path, k, 1, 0) = << >>
    BY <1>1, <1>2, UnrolledGrows
  <2>2. i - 1 = 0
    BY <1>1
  <2> QED
    BY <1>1, <2>1, <2>2
<1>5. BaseUnrolling
  BY <1>1, <1>4 DEF BaseUnrolling
<1>6. QueriesAsked
  <2>1. << >> \in Seq([nodes : Seq(Nodes(g)), count : Nat]) /\ Len(<< >>) = 0
    BY EmptySeq
  <2> QED
    BY <1>1, <1>2, <2>1 DEF QueriesAsked
<1> QED
  BY <1>3, <1>5, <1>6 DEF BaseInv

LEMMA PushElementInv == BaseInv /\ PushElement => BaseInv'
<1> SUFFICES ASSUME BaseInv, PushElement PROVE BaseInv'
  OBVIOUS
<1>1. /\ g' = g /\ path' = path /\ k' = k /\ errorLoopCount' = errorLoopCount /\ queries' = queries
      /\ answer' = answer /\ pc' = pc /\ pc = "unroll" /\ i <= Len(path) /\ i' = i + 1
      /\ ~ElementNotRotated(g, path[i])
      /\ baseNodeIdx' = baseNodeIdx \o UnrollElement(g, path, i, k, errorLoopCount)
  BY DEF PushElement, Unrolling
<1>2. BaseControl /\ BaseUnrolling /\ QueriesAsked
  BY DEF BaseInv
<1>3. /\ g \in Graphs /\ path \in ErrPaths(g) /\ k \in Nat \ {0} /\ errorLoopCount \in Nat \ {0}
      /\ Len(path) \in Nat \ {0} /\ i \in Nat \ {0}
  BY <1>2, BaseFacts
<1>4. Unrolled(g, path, k, errorLoopCount, i) =
         Unrolled(g, path, k, errorLoopCount, i - 1) \o UnrollElement(g, path, i, k, errorLoopCount)
  <2>1. i \in 1..Len(path)
    BY <1>1, <1>3
  <2> QED
    BY <1>3, <2>1, UnrolledStep
<1>5. i' - 1 = i
  BY <1>1, <1>3
<1>6. BaseUnrolling'
  <2>1. baseNodeIdx' = Unrolled(g', path', k', errorLoopCount', i' - 1)
    BY <1>1, <1>2, <1>4, <1>5 DEF BaseUnrolling
  <2>2. \A n \in 1..i'-1 : ~ElementNotRotated(g, path[n])
    BY <1>1, <1>2, <1>3, <1>5 DEF BaseUnrolling
  <2> QED
    BY <1>1, <2>1, <2>2 DEF BaseUnrolling
<1>7. BaseControl'
  BY <1>1, <1>2, <1>3 DEF BaseControl
<1>8. QueriesAsked'
  BY <1>1, <1>2 DEF QueriesAsked
<1> QED
  BY <1>6, <1>7, <1>8 DEF BaseInv

(****************************************************************************)
(* A query is about the whole path, unrolled for its round.                 *)
(****************************************************************************)
LEMMA QueryInv ==
    ASSUME BaseInv, NEW result, Query(result)
    PROVE  /\ queries' \in Seq([nodes : Seq(Nodes(g)), count : Nat])
           /\ Len(queries') = errorLoopCount /\ errorLoopCount <= k
           /\ \A n \in 1..Len(queries') :
                 /\ queries'[n] = [nodes |-> UnrollPath(g, path, k, n), count |-> n]
                 /\ BranchesFollowed(g, queries'[n].nodes)
           /\ \A n \in 1..Len(path) : ~ElementNotRotated(g, path[n])
           /\ queries' # << >>
<1>1. /\ pc = "unroll" /\ i > Len(path) /\ BranchesFollowed(g, baseNodeIdx)
      /\ queries' = Append(queries, [nodes |-> baseNodeIdx, count |-> errorLoopCount])
  BY DEF Query
<1>2. BaseControl /\ BaseUnrolling /\ QueriesAsked
  BY DEF BaseInv
<1>3. /\ g \in Graphs /\ path \in ErrPaths(g) /\ k \in Nat \ {0} /\ errorLoopCount \in Nat \ {0}
      /\ Len(path) \in Nat \ {0} /\ i \in Nat \ {0} /\ i <= Len(path) + 1
  BY <1>2, BaseFacts
<1>4. i - 1 = Len(path) /\ Len(path) \in 0..Len(path)
  BY <1>1, <1>3
<1>5. /\ baseNodeIdx = UnrollPath(g, path, k, errorLoopCount)
      /\ baseNodeIdx \in Seq(Nodes(g))
  BY <1>2, <1>3, <1>4, UnrolledGrows DEF BaseUnrolling
<1> DEFINE q == [nodes |-> baseNodeIdx, count |-> errorLoopCount]
           Q == [nodes : Seq(Nodes(g)), count : Nat]
<1>6. q \in Q /\ q.nodes = baseNodeIdx
  BY <1>3, <1>5
<1>7. q = [nodes |-> UnrollPath(g, path, k, errorLoopCount), count |-> errorLoopCount]
  BY <1>5
<1>8. /\ queries \in Seq(Q) /\ Len(queries) = errorLoopCount - 1 /\ errorLoopCount <= k
      /\ \A n \in 1..Len(queries) :
            /\ queries[n] = [nodes |-> UnrollPath(g, path, k, n), count |-> n]
            /\ BranchesFollowed(g, queries[n].nodes)
  BY <1>1, <1>2 DEF QueriesAsked
<1> HIDE DEF q, Q
<1>9. /\ queries' \in Seq(Q) /\ Len(queries') = Len(queries) + 1 /\ queries' # << >>
      /\ \A n \in 1..Len(queries) : queries'[n] = queries[n]
      /\ queries'[Len(queries) + 1] = q
  <2>1. queries' = Append(queries, q)
    BY <1>1 DEF q
  <2> QED
    BY <1>6, <1>8, <2>1, AppendProperties
<1>10. Len(queries') = errorLoopCount
  BY <1>3, <1>8, <1>9
<1>11. ASSUME NEW n \in 1..Len(queries')
       PROVE  /\ queries'[n] = [nodes |-> UnrollPath(g, path, k, n), count |-> n]
              /\ BranchesFollowed(g, queries'[n].nodes)
  <2>1. CASE n = errorLoopCount
    <3>1. queries'[n] = q
      BY <1>3, <1>8, <1>9, <2>1
    <3> QED
      BY <1>1, <1>6, <1>7, <2>1, <3>1
  <2>2. CASE n # errorLoopCount
    <3>1. n \in 1..Len(queries) /\ queries'[n] = queries[n]
      BY <1>3, <1>8, <1>9, <1>10, <2>2
    <3> QED
      BY <1>8, <3>1
  <2> QED
    BY <2>1, <2>2
<1>12. \A n \in 1..Len(path) : ~ElementNotRotated(g, path[n])
  BY <1>1, <1>2, <1>4 DEF BaseUnrolling
<1> QED
  BY <1>8, <1>9, <1>10, <1>11, <1>12 DEF Q

LEMMA AnswerInv == BaseInv /\ (Unsat \/ Sat \/ Unknown) => BaseInv'
<1> SUFFICES ASSUME BaseInv, Unsat \/ Sat \/ Unknown PROVE BaseInv'
  OBVIOUS
<1>1. PICK result \in {"unsat", "sat", "unknown"} : Query(result)
  BY DEF Unsat, Sat, Unknown
<1>2. BaseControl /\ BaseUnrolling /\ QueriesAsked
  BY DEF BaseInv
<1>3. /\ g \in Graphs /\ path \in ErrPaths(g) /\ k \in Nat \ {0} /\ errorLoopCount \in Nat \ {0}
      /\ Len(path) \in Nat \ {0} /\ i \in Nat \ {0} /\ i <= Len(path) + 1
  BY <1>2, BaseFacts
<1>4. /\ g' = g /\ path' = path /\ k' = k /\ answer' = result /\ pc = "unroll"
  BY <1>1 DEF Unsat, Sat, Unknown, Query
<1>5. /\ queries' \in Seq([nodes : Seq(Nodes(g)), count : Nat])
      /\ Len(queries') = errorLoopCount /\ errorLoopCount <= k
      /\ \A n \in 1..Len(queries') :
            /\ queries'[n] = [nodes |-> UnrollPath(g, path, k, n), count |-> n]
            /\ BranchesFollowed(g, queries'[n].nodes)
      /\ \A n \in 1..Len(path) : ~ElementNotRotated(g, path[n])
  BY <1>1, QueryInv
<1>6. CASE Unsat
  <2>1. /\ baseNodeIdx' = << >> /\ i' = 1 /\ errorLoopCount' = errorLoopCount + 1
        /\ pc' = IF errorLoopCount < k THEN "unroll" ELSE "true"
    BY <1>6 DEF Unsat
  <2>2. errorLoopCount + 1 \in Nat \ {0} /\ i' - 1 = 0
    BY <1>3, <2>1
  <2>3. baseNodeIdx' = Unrolled(g', path', k', errorLoopCount', i' - 1)
    <3>1. Unrolled(g, path, k, errorLoopCount + 1, 0) = << >>
      BY <1>3, <2>2, UnrolledGrows
    <3> QED
      BY <1>4, <2>1, <2>2, <3>1
  <2>4. BaseUnrolling'
    BY <2>2, <2>3 DEF BaseUnrolling
  <2>5. BaseControl'
    BY <1>2, <1>3, <1>4, <1>5, <2>1 DEF BaseControl
  <2>6. /\ pc' = "unroll" => errorLoopCount' <= k /\ Len(queries') = errorLoopCount' - 1
        /\ pc' = "true" => Len(queries') = k
    BY <1>3, <1>5, <2>1
  <2>7. QueriesAsked'
    BY <1>4, <1>5, <2>6 DEF QueriesAsked
  <2> QED
    BY <2>4, <2>5, <2>7 DEF BaseInv
<1>7. CASE Sat \/ Unknown
  <2>1. /\ baseNodeIdx' = baseNodeIdx /\ i' = i /\ errorLoopCount' = errorLoopCount
        /\ pc' \in {"false", "abort"}
    BY <1>7 DEF Sat, Unknown
  <2>2. BaseControl'
    BY <1>2, <1>4, <2>1 DEF BaseControl
  <2>3. BaseUnrolling'
    BY <1>2, <1>4, <2>1 DEF BaseUnrolling
  <2>4. QueriesAsked'
    BY <1>4, <1>5, <2>1 DEF QueriesAsked
  <2> QED
    BY <2>2, <2>3, <2>4 DEF BaseInv
<1> QED
  BY <1>6, <1>7

LEMMA BaseStutter == BaseInv /\ UNCHANGED vars => BaseInv'
<1> SUFFICES ASSUME BaseInv, UNCHANGED vars PROVE BaseInv'
  OBVIOUS
<1>1. /\ g' = g /\ path' = path /\ k' = k /\ errorLoopCount' = errorLoopCount /\ queries' = queries
      /\ answer' = answer /\ pc' = pc /\ i' = i /\ baseNodeIdx' = baseNodeIdx
  BY DEF vars
<1> QED
  BY <1>1 DEF BaseInv, BaseControl, BaseUnrolling, QueriesAsked

LEMMA BaseNextInv == BaseInv /\ Next => BaseInv'
<1> SUFFICES ASSUME BaseInv, Next PROVE BaseInv'
  OBVIOUS
<1>1. CASE NotRotated \/ EncodingFails
  <2>1. /\ g' = g /\ path' = path /\ k' = k /\ errorLoopCount' = errorLoopCount /\ queries' = queries
        /\ answer' = answer /\ i' = i /\ baseNodeIdx' = baseNodeIdx
        /\ pc' \in {"notRotated", "abort"}
    BY <1>1 DEF NotRotated, EncodingFails
  <2> QED
    BY <2>1 DEF BaseInv, BaseControl, BaseUnrolling, QueriesAsked
<1> QED
  BY <1>1, PushElementInv, AnswerInv, BaseStutter DEF Next, Terminated

------------------------------------------------------------------------------
(****************************************************************************)
(* Sequences all of whose steps are in a relation: walks, and sequences     *)
(* that follow the branches.                                                *)
(****************************************************************************)
Along(R, s) == \A a \in 1..Len(s)-1 : <<s[a], s[a+1]>> \in R

Edges(gr) == {edge \in Nodes(gr) \X Nodes(gr) : IsEdge(gr, edge[1], edge[2])}

BranchEdges(gr) ==
    {edge \in Nodes(gr) \X Nodes(gr) :
        Len(gr.CFGNodeVec[edge[1]].childs) > 1 => IsEdge(gr, edge[1], edge[2])}

LEMMA EdgesOfSequences ==
    ASSUME NEW gr \in Graphs, NEW s \in Seq(Nodes(gr))
    PROVE  /\ IsWalk(gr, s) <=> Along(Edges(gr), s)
           /\ BranchesFollowed(gr, s) <=> Along(BranchEdges(gr), s)
<1>1. ASSUME NEW a \in 1..Len(s)-1 PROVE s[a] \in Nodes(gr) /\ s[a+1] \in Nodes(gr)
  BY LenProperties, ElementOfSeq
<1>2. ASSUME NEW a \in 1..Len(s)-1
      PROVE  /\ IsEdge(gr, s[a], s[a+1]) <=> <<s[a], s[a+1]>> \in Edges(gr)
             /\ (Len(gr.CFGNodeVec[s[a]].childs) > 1 => IsEdge(gr, s[a], s[a+1]))
                    <=> <<s[a], s[a+1]>> \in BranchEdges(gr)
  BY <1>1 DEF Edges, BranchEdges
<1> QED
  BY <1>2 DEF IsWalk, BranchesFollowed, Along

(****************************************************************************)
(* Two sequences, one behind the other.                                     *)
(****************************************************************************)
LEMMA AlongConcat ==
    ASSUME NEW S, NEW R, NEW s \in Seq(S), NEW t \in Seq(S), s # << >>, t # << >>
    PROVE  /\ s \o t \in Seq(S) /\ s \o t # << >>
           /\ (s \o t)[1] = s[1]
           /\ (s \o t)[Len(s \o t)] = t[Len(t)]
           /\ Along(R, s \o t) <=> Along(R, s) /\ Along(R, t) /\ <<s[Len(s)], t[1]>> \in R
<1> DEFINE u == s \o t
<1>1. /\ Len(s) \in Nat \ {0} /\ Len(t) \in Nat \ {0} /\ u \in Seq(S) /\ Len(u) = Len(s) + Len(t)
      /\ \A a \in 1..Len(s) + Len(t) : u[a] = IF a <= Len(s) THEN s[a] ELSE t[a - Len(s)]
  BY LenProperties, ConcatProperties, EmptySeq
<1> HIDE DEF u
<1>2. u # << >>
  BY <1>1, EmptySeq
<1>3. \A a \in 1..Len(s) : u[a] = s[a]
  BY <1>1
<1>4. \A a \in 1..Len(t) : u[Len(s) + a] = t[a]
  <2> SUFFICES ASSUME NEW a \in 1..Len(t) PROVE u[Len(s) + a] = t[a]
    OBVIOUS
  <2>1. Len(s) + a \in 1..Len(s) + Len(t) /\ ~ (Len(s) + a <= Len(s)) /\ (Len(s) + a) - Len(s) = a
    BY <1>1
  <2> QED
    BY <1>1, <2>1
<1>5. 1 \in 1..Len(s) /\ Len(t) \in 1..Len(t) /\ 1 \in 1..Len(t) /\ Len(s) \in 1..Len(s)
  BY <1>1
<1>6. ASSUME Along(R, u) PROVE Along(R, s) /\ Along(R, t) /\ <<s[Len(s)], t[1]>> \in R
  <2>1. ASSUME NEW a \in 1..Len(s)-1 PROVE <<s[a], s[a+1]>> \in R
    <3>1. a \in 1..Len(u)-1 /\ a \in 1..Len(s) /\ a + 1 \in 1..Len(s)
      BY <1>1
    <3> QED
      BY <1>3, <1>6, <3>1 DEF Along
  <2>2. ASSUME NEW a \in 1..Len(t)-1 PROVE <<t[a], t[a+1]>> \in R
    <3>1. /\ Len(s) + a \in 1..Len(u)-1 /\ a \in 1..Len(t) /\ a + 1 \in 1..Len(t)
          /\ (Len(s) + a) + 1 = Len(s) + (a + 1)
      BY <1>1
    <3>2. <<u[Len(s) + a], u[Len(s) + (a + 1)]>> \in R
      BY <1>6, <3>1 DEF Along
    <3>3. u[Len(s) + a] = t[a]
      BY <1>4, <3>1
    <3>4. u[Len(s) + (a + 1)] = t[a+1]
      BY <1>4, <3>1
    <3> QED
      BY <3>2, <3>3, <3>4
  <2>3. <<s[Len(s)], t[1]>> \in R
    <3>1. Len(s) \in 1..Len(u)-1
      BY <1>1
    <3>2. <<u[Len(s)], u[Len(s) + 1]>> \in R
      BY <1>6, <3>1 DEF Along
    <3> QED
      BY <1>3, <1>4, <1>5, <3>2
  <2> QED
    BY <2>1, <2>2, <2>3 DEF Along
<1>7. ASSUME Along(R, s), Along(R, t), <<s[Len(s)], t[1]>> \in R PROVE Along(R, u)
  <2> SUFFICES ASSUME NEW a \in 1..Len(u)-1 PROVE <<u[a], u[a+1]>> \in R
    BY DEF Along
  <2>1. CASE a < Len(s)
    <3>1. a \in 1..Len(s)-1 /\ a \in 1..Len(s) /\ a + 1 \in 1..Len(s)
      BY <1>1, <2>1
    <3> QED
      BY <1>3, <1>7, <3>1 DEF Along
  <2>2. CASE a = Len(s)
    BY <1>3, <1>4, <1>5, <1>7, <2>2
  <2>3. CASE a > Len(s)
    <3> DEFINE b == a - Len(s)
    <3>1. /\ b \in 1..Len(t)-1 /\ b \in 1..Len(t) /\ b + 1 \in 1..Len(t)
          /\ a = Len(s) + b /\ a + 1 = Len(s) + (b + 1)
      BY <1>1, <2>3
    <3> HIDE DEF b
    <3>2. <<t[b], t[b+1]>> \in R
      BY <1>7, <3>1 DEF Along
    <3>3. u[Len(s) + b] = t[b]
      BY <1>4, <3>1
    <3>4. u[Len(s) + (b + 1)] = t[b+1]
      BY <1>4, <3>1
    <3> QED
      BY <3>1, <3>2, <3>3, <3>4
  <2> QED
    BY <1>1, <2>1, <2>2, <2>3
<1> QED
  BY <1>1, <1>2, <1>3, <1>4, <1>5, <1>6, <1>7 DEF u

(****************************************************************************)
(* What holds of a sequence that a sequence of sequences, none of them      *)
(* empty, flattens to.                                                      *)
(****************************************************************************)
Inside(R, F, n) == \A a \in 1..n : Along(R, F[a])

Between(R, F, n) == \A a \in 1..n-1 : <<F[a][Len(F[a])], F[a+1][1]>> \in R

IsFlatAlong(S, R, F, n, flat) ==
    /\ flat \in Seq(S) /\ flat # << >>
    /\ flat[1] = F[1][1]
    /\ flat[Len(flat)] = F[n][Len(F[n])]
    /\ Along(R, flat) <=> Inside(R, F, n) /\ Between(R, F, n)

LEMMA FlatAlong ==
    ASSUME NEW S, NEW R, NEW F, NEW n \in Nat \ {0},
           \A a \in 1..n : F[a] \in Seq(S) /\ F[a] # << >>
    PROVE  IsFlatAlong(S, R, F, n, FlattenSeq(First(F, n)))
<1> DEFINE flat(m) == FlattenSeq(First(F, m))
           T == {m \in Nat : m + 1 <= n => IsFlatAlong(S, R, F, m + 1, flat(m + 1))}
<1>1. IsFlatAlong(S, R, F, 1, flat(1))
  <2>1. flat(1) = << >> \o F[1]
    <3>1. 0 \in Nat /\ \A a \in 1..0+1 : F[a] \in Seq(S)
      OBVIOUS
    <3>2. FlattenSeq(First(F, 0 + 1)) = FlattenSeq(First(F, 0)) \o F[0+1]
      BY <3>1, FlattenGrows
    <3>3. 0 + 1 = 1
      OBVIOUS
    <3> QED
      BY <3>2, <3>3, FlattenNone
  <2>2. 1 \in 1..n
    OBVIOUS
  <2>3. flat(1) = F[1]
    BY <2>1, <2>2, ConcatEmptySeq
  <2> HIDE DEF flat
  <2> QED
    BY <2>2, <2>3 DEF IsFlatAlong, Inside, Between
<1>2. ASSUME NEW b \in Nat \ {0}, b + 1 <= n, IsFlatAlong(S, R, F, b, flat(b))
      PROVE  IsFlatAlong(S, R, F, b + 1, flat(b + 1))
  <2>1. b > 0 /\ b + 1 \in 1..n /\ b \in 1..n
    BY <1>2
  <2>2. flat(b + 1) = flat(b) \o F[b+1]
    BY <2>1, FlattenOne
  <2> DEFINE s == flat(b)
             u == flat(b + 1)
             t == F[b+1]
  <2>3. /\ s \in Seq(S) /\ s # << >> /\ s[1] = F[1][1] /\ s[Len(s)] = F[b][Len(F[b])]
        /\ Along(R, s) <=> Inside(R, F, b) /\ Between(R, F, b)
    BY <1>2 DEF IsFlatAlong
  <2>4. t \in Seq(S) /\ t # << >> /\ u = s \o t
    BY <2>1, <2>2
  <2>5. t = F[b+1] /\ s[Len(s)] = F[b][Len(F[b])]
    BY <2>3
  <2> HIDE DEF s, t, u
  <2>6. /\ u \in Seq(S) /\ u # << >> /\ u[1] = s[1] /\ u[Len(u)] = t[Len(t)]
        /\ Along(R, u) <=> Along(R, s) /\ Along(R, t) /\ <<s[Len(s)], t[1]>> \in R
    BY <2>3, <2>4, AlongConcat
  <2>7. Inside(R, F, b + 1) <=> Inside(R, F, b) /\ Along(R, t)
    <3>1. 1..b+1 = (1..b) \cup {b + 1}
      OBVIOUS
    <3> QED
      BY <2>5, <3>1 DEF Inside
  <2>8. Between(R, F, b + 1) <=> Between(R, F, b) /\ <<s[Len(s)], t[1]>> \in R
    <3>1. 1..(b + 1)-1 = (1..b-1) \cup {b}
      OBVIOUS
    <3> QED
      BY <2>5, <3>1 DEF Between
  <2>9. u[1] = F[1][1] /\ u[Len(u)] = F[b+1][Len(F[b+1])]
    BY <2>3, <2>5, <2>6
  <2>10. IsFlatAlong(S, R, F, b + 1, u)
    BY <2>3, <2>6, <2>7, <2>8, <2>9 DEF IsFlatAlong
  <2> QED
    BY <2>10 DEF u
<1> HIDE DEF flat
<1>3. ASSUME NEW m \in Nat, m \in T PROVE m + 1 \in T
  <2> SUFFICES ASSUME (m + 1) + 1 <= n PROVE IsFlatAlong(S, R, F, (m + 1) + 1, flat((m + 1) + 1))
    OBVIOUS
  <2>1. m + 1 \in Nat \ {0} /\ m + 1 <= n
    OBVIOUS
  <2>2. IsFlatAlong(S, R, F, m + 1, flat(m + 1))
    BY <1>3, <2>1
  <2> QED
    BY <1>2, <2>1, <2>2
<1>4. 0 \in T
  <2>1. 0 + 1 = 1
    OBVIOUS
  <2> QED
    BY <1>1, <2>1
<1> HIDE DEF T
<1>5. Nat \subseteq T
  BY <1>3, <1>4, Inductive
<1>6. n - 1 \in T /\ (n - 1) + 1 = n
  BY <1>5
<1>7. IsFlatAlong(S, R, F, n, flat(n))
  BY <1>6 DEF T
<1> QED
  BY <1>7 DEF flat

LEMMA RepeatAlong ==
    ASSUME NEW S, NEW R, NEW s \in Seq(S), s # << >>, NEW n \in Nat \ {0}
    PROVE  LET rounds == Repeat(s, n)
           IN  /\ rounds \in Seq(S) /\ rounds # << >>
               /\ rounds[1] = s[1] /\ rounds[Len(rounds)] = s[Len(s)]
               /\ Along(R, rounds) <=> Along(R, s) /\ (n > 1 => <<s[Len(s)], s[1]>> \in R)
<1> DEFINE F == [a \in 1..n |-> s]
           rounds == Repeat(s, n)
<1>1. F = First(F, n)
  BY DEF First
<1>2. rounds = FlattenSeq(First(F, n))
  BY <1>1 DEF Repeat
<1>3. \A a \in 1..n : F[a] \in Seq(S) /\ F[a] # << >>
  OBVIOUS
<1>4. \A a \in 1..n : F[a] = s
  OBVIOUS
<1> HIDE DEF F, rounds
<1>5. IsFlatAlong(S, R, F, n, rounds)
  BY <1>2, <1>3, FlatAlong
<1>6. 1 \in 1..n /\ n \in 1..n
  OBVIOUS
<1>7. Inside(R, F, n) <=> Along(R, s)
  BY <1>4, <1>6 DEF Inside
<1>8. Between(R, F, n) <=> (n > 1 => <<s[Len(s)], s[1]>> \in R)
  <2>1. \A a \in 1..n-1 : a \in 1..n /\ a + 1 \in 1..n
    OBVIOUS
  <2>2. \A a \in 1..n-1 : F[a] = s /\ F[a+1] = s
    BY <1>4, <2>1
  <2>3. (\E a \in 1..n-1 : TRUE) <=> n > 1
    <3>1. n > 1 => 1 \in 1..n-1
      OBVIOUS
    <3> QED
      BY <3>1
  <2> QED
    BY <2>2, <2>3 DEF Between
<1>9. F[1] = s /\ F[n] = s
  BY <1>4, <1>6
<1> QED
  BY <1>5, <1>7, <1>8, <1>9 DEF IsFlatAlong, rounds

(****************************************************************************)
(* A rotated loop can be run again.                                         *)
(****************************************************************************)
LEMMA BackEdge ==
    ASSUME NEW gr \in Graphs, NEW l \in DOMAIN gr.LCSSAs,
           gr.LCSSAs[l].header = gr.LCSSAs[l].bbVec[1], gr.LCSSAs[l].latch = Last(gr.LCSSAs[l].bbVec)
    PROVE  LET body == LoopBody(gr, l)
           IN  /\ <<body[Len(body)], body[1]>> \in Edges(gr)
               /\ <<body[Len(body)], body[1]>> \in BranchEdges(gr)
<1> DEFINE body == LoopBody(gr, l)
           bbVec == gr.LCSSAs[l].bbVec
<1>1. /\ body \in Seq(Nodes(gr)) /\ Len(body) \in Nat \ {0} /\ Len(body) = Len(bbVec)
      /\ \A a \in 1..Len(body) : body[a] = IndexByBB(gr.CFGNodeVec, bbVec[a])
  BY BodyFacts
<1>2. 1 \in 1..Len(body) /\ Len(body) \in 1..Len(body)
  BY <1>1
<1>3. /\ body[1] = IndexByBB(gr.CFGNodeVec, gr.LCSSAs[l].header)
      /\ body[Len(body)] = IndexByBB(gr.CFGNodeVec, gr.LCSSAs[l].latch)
  BY <1>1, <1>2 DEF Last
<1>4. IsEdge(gr, IndexByBB(gr.CFGNodeVec, gr.LCSSAs[l].latch),
                 IndexByBB(gr.CFGNodeVec, gr.LCSSAs[l].header))
  <2>1. Last(bbVec) \in Block
    BY <1>1, GraphFacts, LenProperties, ElementOfSeq DEF Last
  <2> QED
    BY <2>1, LoopsAssumption, NoBlockAssumption
<1> HIDE DEF body
<1>5. body[1] \in Nodes(gr) /\ body[Len(body)] \in Nodes(gr)
  BY <1>1, <1>2, ElementOfSeq
<1>6. IsEdge(gr, body[Len(body)], body[1])
  BY <1>3, <1>4
<1>7. <<body[Len(body)], body[1]>> \in Edges(gr) /\ <<body[Len(body)], body[1]>> \in BranchEdges(gr)
  BY <1>5, <1>6 DEF Edges, BranchEdges
<1> QED
  BY <1>7 DEF body

(****************************************************************************)
(* A round more starts and ends where the rounds do, and takes no branch    *)
(* they do not take but the back edge.                                      *)
(****************************************************************************)
LEMMA MoreRounds ==
    ASSUME NEW gr \in Graphs, NEW p \in ErrPaths(gr), NEW n \in 1..Len(p),
           NEW rounds \in Nat \ {0},
           ~ElementNotRotated(gr, p[n]), p[n].type # "ERRORLOOP"
    PROVE  LET few == UnrollElement(gr, p, n, rounds, 1)
               more == UnrollElement(gr, p, n, rounds + 1, 1)
           IN  /\ more[1] = few[1] /\ more[Len(more)] = few[Len(few)]
               /\ Along(BranchEdges(gr), few) => Along(BranchEdges(gr), more)
<1>1. /\ p[n].type \in {"ALoop", "ANode", "ERRORNODE"}
      /\ p[n].type = "ALoop" => p[n].idx \in DOMAIN gr.LCSSAs
  BY PathFacts
<1>2. CASE p[n].type \in {"ANode", "ERRORNODE"}
  <2>1. UnrollElement(gr, p, n, rounds + 1, 1) = UnrollElement(gr, p, n, rounds, 1)
    BY <1>2 DEF UnrollElement
  <2> QED
    BY <2>1
<1>3. CASE p[n].type = "ALoop"
  <2> DEFINE body == LoopBody(gr, p[n].idx)
             few == UnrollElement(gr, p, n, rounds, 1)
             more == UnrollElement(gr, p, n, rounds + 1, 1)
  <2>1. few = Repeat(body, rounds) /\ more = Repeat(body, rounds + 1)
    BY <1>3 DEF UnrollElement
  <2>2. body \in Seq(Nodes(gr)) /\ body # << >>
    BY <1>1, <1>3, BodyFacts
  <2>3. <<body[Len(body)], body[1]>> \in BranchEdges(gr)
    BY <1>1, <1>3, BackEdge DEF ElementNotRotated
  <2>4. rounds + 1 \in Nat \ {0}
    OBVIOUS
  <2> HIDE DEF body, few, more
  <2>5. /\ few[1] = body[1] /\ few[Len(few)] = body[Len(body)]
        /\ Along(BranchEdges(gr), few) => Along(BranchEdges(gr), body)
    BY <2>1, <2>2, RepeatAlong
  <2>6. /\ more[1] = body[1] /\ more[Len(more)] = body[Len(body)]
        /\ Along(BranchEdges(gr), body) => Along(BranchEdges(gr), more)
    BY <2>1, <2>2, <2>3, <2>4, RepeatAlong
  <2>7. /\ more[1] = few[1] /\ more[Len(more)] = few[Len(few)]
        /\ Along(BranchEdges(gr), few) => Along(BranchEdges(gr), more)
    BY <2>5, <2>6
  <2> QED
    BY <2>7 DEF few, more
<1> QED
  BY <1>1, <1>2, <1>3

(****************************************************************************)
(* An error loop is the last element but one, so without one there none is  *)
(* anywhere on the path.                                                    *)
(****************************************************************************)
LEMMA ErrorLoopPlace ==
    ASSUME NEW gr \in Graphs, NEW p \in ErrPaths(gr), NEW n \in 1..Len(p), p[n].type = "ERRORLOOP"
    PROVE  n + 1 = Len(p) /\ n + 1 \in 1..Len(p) /\ IsPattern1(p)
<1>1. /\ Len(p) \in Nat \ {0} /\ p[Len(p)].type = "ERRORNODE"
      /\ \A m \in 1..Len(p)-1 :
            p[m].type \in {"ALoop", "ANode"} \/ (m = Len(p)-1 /\ p[m].type = "ERRORLOOP")
  BY PathFacts
<1>2. n \in 1..Len(p)-1
  BY <1>1
<1>3. n = Len(p)-1
  BY <1>1, <1>2
<1>4. Len(p) >= 2 /\ Last(p).type = "ERRORNODE" /\ p[Len(p)-1].type = "ERRORLOOP"
  BY <1>1, <1>2, <1>3 DEF Last
<1>5. n + 1 = Len(p) /\ n + 1 \in 1..Len(p)
  BY <1>1, <1>3
<1> QED
  BY <1>4, <1>5 DEF IsPattern1

LEMMA NoErrorLoop ==
    ASSUME NEW gr \in Graphs, NEW p \in ErrPaths(gr), ~IsPattern1(p)
    PROVE  \A n \in 1..Len(p) : p[n].type # "ERRORLOOP"
  BY ErrorLoopPlace

(****************************************************************************)
(* If the path can be followed, so can it with a round more.                *)
(****************************************************************************)
LEMMA InductionFollows ==
    ASSUME NEW gr \in Graphs, NEW p \in ErrPaths(gr), ~IsPattern1(p), NEW rounds \in Nat \ {0},
           \A n \in 1..Len(p) : ~ElementNotRotated(gr, p[n]),
           BranchesFollowed(gr, UnrollPath(gr, p, rounds, 1))
    PROVE  BranchesFollowed(gr, UnrollPath(gr, p, rounds + 1, 1))
<1> DEFINE R == BranchEdges(gr)
           S == Nodes(gr)
           F == [n \in 1..Len(p) |-> UnrollElement(gr, p, n, rounds, 1)]
           G == [n \in 1..Len(p) |-> UnrollElement(gr, p, n, rounds + 1, 1)]
           few == UnrollPath(gr, p, rounds, 1)
           more == UnrollPath(gr, p, rounds + 1, 1)
<1>1. Len(p) \in Nat \ {0} /\ DOMAIN p = 1..Len(p) /\ rounds + 1 \in Nat \ {0} /\ 1 \in Nat \ {0}
  BY PathFacts
<1>2. few = FlattenSeq(First(F, Len(p))) /\ more = FlattenSeq(First(G, Len(p)))
  <2>1. First(F, Len(p)) = F /\ First(G, Len(p)) = G
    BY DEF First
  <2> QED
    BY <1>1, <2>1 DEF UnrollPath
<1>3. \A n \in 1..Len(p) : F[n] \in Seq(S) /\ F[n] # << >>
  BY <1>1, ElementType
<1>4. \A n \in 1..Len(p) : G[n] \in Seq(S) /\ G[n] # << >>
  BY <1>1, ElementType
<1>5. \A n \in 1..Len(p) : /\ G[n][1] = F[n][1] /\ G[n][Len(G[n])] = F[n][Len(F[n])]
                           /\ Along(R, F[n]) => Along(R, G[n])
  <2> SUFFICES ASSUME NEW n \in 1..Len(p)
               PROVE  LET fewer == UnrollElement(gr, p, n, rounds, 1)
                          longer == UnrollElement(gr, p, n, rounds + 1, 1)
                      IN  /\ longer[1] = fewer[1] /\ longer[Len(longer)] = fewer[Len(fewer)]
                          /\ Along(R, fewer) => Along(R, longer)
    OBVIOUS
  <2> QED
    BY NoErrorLoop, MoreRounds
<1>6. Along(R, few)
  <2>1. few \in Seq(Nodes(gr))
    <3>1. Len(p) \in 0..Len(p)
      BY <1>1
    <3> QED
      BY <1>1, <3>1, UnrolledGrows
  <2> QED
    BY <2>1, EdgesOfSequences
<1>7. more \in Seq(Nodes(gr))
  <2>1. Len(p) \in 0..Len(p)
    BY <1>1
  <2> QED
    BY <1>1, <2>1, UnrolledGrows
<1> HIDE DEF R, S, F, G, few, more
<1>8. IsFlatAlong(S, R, F, Len(p), few) /\ IsFlatAlong(S, R, G, Len(p), more)
  BY <1>1, <1>2, <1>3, <1>4, FlatAlong
<1>9. Inside(R, F, Len(p)) /\ Between(R, F, Len(p))
  BY <1>6, <1>8 DEF IsFlatAlong
<1>10. Inside(R, G, Len(p))
  BY <1>5, <1>9 DEF Inside
<1>11. Between(R, G, Len(p))
  <2>1. \A n \in 1..Len(p)-1 : n \in 1..Len(p) /\ n + 1 \in 1..Len(p)
    BY <1>1
  <2> QED
    BY <1>5, <1>9, <2>1 DEF Between
<1>12. Along(R, more)
  BY <1>8, <1>10, <1>11 DEF IsFlatAlong
<1> QED
  BY <1>7, <1>12, EdgesOfSequences DEF R, more

------------------------------------------------------------------------------
(****************************************************************************)
(* The inductive step.  It starts where the base case has passed and there  *)
(* is no error loop, and builds its two sequences element by element.       *)
(****************************************************************************)
Complete == {"encodeBase", "encodeInduction", "askBase", "askInduction", "passed",
             "branchAtEnd", "phi", "globalAgain", "unknown"}

StepControl ==
    /\ step \in {"wait", "pattern1", "base", "induction"} \cup Complete
    /\ step # "wait" => pc = "true"
    /\ step \notin {"wait", "pattern1"} => ~IsPattern1(path)
    /\ e \in 1..Len(path)+1

StepUnrolling ==
    /\ step \in {"wait", "pattern1"} => e = 1 /\ stepNodeIdx = << >> /\ inductiveNodeIdx = << >>
    /\ step = "base" => /\ stepNodeIdx = Unrolled(g, path, k, 1, e - 1)
                        /\ inductiveNodeIdx = << >>
    /\ step = "induction" => /\ stepNodeIdx = UnrollPath(g, path, k, 1)
                             /\ inductiveNodeIdx = Unrolled(g, path, k + 1, 1, e - 1)
    /\ step \in Complete => /\ stepNodeIdx = UnrollPath(g, path, k, 1)
                            /\ inductiveNodeIdx = UnrollPath(g, path, k + 1, 1)

StepInv == BaseInv /\ StepControl /\ StepUnrolling

(****************************************************************************)
(* What the base case leaves to a step that has started: loops that are     *)
(* rotated, and branches that both sequences follow.                        *)
(****************************************************************************)
LEMMA PassedFacts ==
    ASSUME BaseInv, pc = "true", ~IsPattern1(path)
    PROVE  /\ \A n \in 1..Len(path) : ~ElementNotRotated(g, path[n])
           /\ BranchesFollowed(g, UnrollPath(g, path, k, 1))
           /\ BranchesFollowed(g, UnrollPath(g, path, k + 1, 1))
<1>1. BaseControl /\ QueriesAsked
  BY DEF BaseInv
<1>2. g \in Graphs /\ path \in ErrPaths(g) /\ k \in Nat \ {0}
  BY <1>1, BaseFacts
<1>3. 1 \in 1..Len(queries) /\ queries # << >>
  <2>1. Len(queries) = k
    BY <1>1 DEF QueriesAsked
  <2> QED
    BY <1>2, <2>1, EmptySeq
<1>4. /\ \A n \in 1..Len(path) : ~ElementNotRotated(g, path[n])
      /\ queries[1] = [nodes |-> UnrollPath(g, path, k, 1), count |-> 1]
      /\ BranchesFollowed(g, queries[1].nodes)
  BY <1>1, <1>3 DEF QueriesAsked
<1>5. BranchesFollowed(g, UnrollPath(g, path, k, 1))
  <2>1. queries[1].nodes = UnrollPath(g, path, k, 1)
    BY <1>4
  <2> QED
    BY <1>4, <2>1
<1>6. BranchesFollowed(g, UnrollPath(g, path, k + 1, 1))
  BY <1>2, <1>4, <1>5, InductionFollows
<1> QED
  BY <1>4, <1>5, <1>6

(****************************************************************************)
(* So the assertions about rotation and branches hold in the step.          *)
(****************************************************************************)
LEMMA PassedAssertions == StepInv => ~LoopNotRotated /\ ~BranchMissed
<1> SUFFICES ASSUME StepInv PROVE ~LoopNotRotated /\ ~BranchMissed
  OBVIOUS
<1>1. BaseInv /\ StepControl /\ StepUnrolling
  BY DEF StepInv
<1>2. Len(path) \in Nat \ {0}
  BY <1>1, BaseFacts DEF BaseInv
<1>3. ASSUME LoopNotRotated PROVE FALSE
  <2>1. (step = "base" \/ step = "induction") /\ e <= Len(path) /\ ElementNotRotated(g, path[e])
    BY <1>3 DEF LoopNotRotated, Unpassed
  <2>2. pc = "true" /\ ~IsPattern1(path) /\ e \in 1..Len(path)
    BY <1>1, <1>2, <2>1 DEF StepControl
  <2> QED
    BY <1>1, <2>1, <2>2, PassedFacts
<1>4. ASSUME BranchMissed PROVE FALSE
  <2>1. ~BranchesFollowed(g, Encoded)
    BY <1>4 DEF BranchMissed
  <2>2. CASE step \in {"encodeBase", "encodeInduction"}
    <3>1. Encoded \in {UnrollPath(g, path, k, 1), UnrollPath(g, path, k + 1, 1)}
      BY <1>1, <2>2 DEF Encoded, StepUnrolling, Complete
    <3>2. pc = "true" /\ ~IsPattern1(path)
      BY <1>1, <2>2 DEF StepControl
    <3>3. BranchesFollowed(g, UnrollPath(g, path, k, 1)) /\ BranchesFollowed(g, UnrollPath(g, path, k + 1, 1))
      BY <1>1, <3>2, PassedFacts
    <3> QED
      BY <2>1, <3>1, <3>3
  <2>3. CASE step \notin {"encodeBase", "encodeInduction"}
    <3>1. Encoded = << >>
      BY <2>3 DEF Encoded
    <3>2. BranchesFollowed(g, << >>)
      BY DEF BranchesFollowed
    <3> QED
      BY <2>1, <3>1, <3>2
  <2> QED
    BY <2>2, <2>3
<1> QED
  BY <1>3, <1>4

LEMMA StepInitInv == StepInit => StepInv
<1> SUFFICES ASSUME StepInit PROVE StepInv
  OBVIOUS
<1>1. /\ Init /\ step = "wait" /\ e = 1 /\ stepNodeIdx = << >> /\ inductiveNodeIdx = << >>
  BY DEF StepInit
<1>2. BaseInv
  BY <1>1, BaseInitInv
<1>3. Len(path) \in Nat \ {0}
  BY <1>2, BaseFacts DEF BaseInv
<1>4. StepControl
  BY <1>1, <1>3 DEF StepControl, Complete
<1>5. StepUnrolling
  BY <1>1 DEF StepUnrolling, Complete
<1> QED
  BY <1>2, <1>4, <1>5 DEF StepInv

(****************************************************************************)
(* An element more of the step's own sequences.                             *)
(****************************************************************************)
LEMMA PushInv == StepInv /\ (PushBase \/ PushInduction) => StepInv'
<1> SUFFICES ASSUME StepInv, PushBase \/ PushInduction PROVE StepInv'
  OBVIOUS
<1>1. BaseInv /\ StepControl /\ StepUnrolling
  BY DEF StepInv
<1>2. /\ g' = g /\ path' = path /\ k' = k /\ pc' = pc /\ step' = step
      /\ UNCHANGED vars /\ e <= Len(path) /\ e' = e + 1
      /\ step \in {"base", "induction"}
  BY DEF PushBase, PushInduction, Unpassed, vars
<1>3. /\ g \in Graphs /\ path \in ErrPaths(g) /\ k \in Nat \ {0} /\ Len(path) \in Nat \ {0}
  BY <1>1, BaseFacts DEF BaseInv
<1>4. e \in 1..Len(path) /\ e' \in 1..Len(path)+1 /\ e' - 1 = e /\ k + 1 \in Nat \ {0} /\ 1 \in Nat \ {0}
  BY <1>1, <1>2, <1>3 DEF StepControl
<1>5. BaseInv'
  BY <1>1, <1>2, BaseStutter
<1>6. StepControl'
  BY <1>1, <1>2, <1>4 DEF StepControl
<1>7. StepUnrolling'
  <2>1. CASE PushBase
    <3>1. /\ step = "base" /\ stepNodeIdx' = stepNodeIdx \o UnrollElement(g, path, e, k, 1)
          /\ inductiveNodeIdx' = inductiveNodeIdx
      BY <2>1 DEF PushBase, Unpassed
    <3>2. Unrolled(g, path, k, 1, e) = Unrolled(g, path, k, 1, e - 1) \o UnrollElement(g, path, e, k, 1)
      BY <1>3, <1>4, UnrolledStep
    <3>3. stepNodeIdx = Unrolled(g, path, k, 1, e - 1) /\ inductiveNodeIdx = << >>
      BY <1>1, <3>1 DEF StepUnrolling
    <3>4. stepNodeIdx' = Unrolled(g', path', k', 1, e' - 1) /\ inductiveNodeIdx' = << >>
      BY <1>2, <1>4, <3>1, <3>2, <3>3
    <3> QED
      BY <1>2, <3>1, <3>4 DEF StepUnrolling, Complete
  <2>2. CASE PushInduction
    <3>1. /\ step = "induction" /\ stepNodeIdx' = stepNodeIdx
          /\ inductiveNodeIdx' = inductiveNodeIdx \o UnrollElement(g, path, e, k + 1, 1)
      BY <2>2 DEF PushInduction, Unpassed
    <3>2. Unrolled(g, path, k + 1, 1, e) =
             Unrolled(g, path, k + 1, 1, e - 1) \o UnrollElement(g, path, e, k + 1, 1)
      BY <1>3, <1>4, UnrolledStep
    <3>3. stepNodeIdx = UnrollPath(g, path, k, 1) /\ inductiveNodeIdx = Unrolled(g, path, k + 1, 1, e - 1)
      BY <1>1, <3>1 DEF StepUnrolling
    <3>4. stepNodeIdx' = UnrollPath(g', path', k', 1) /\ inductiveNodeIdx' = Unrolled(g', path', k' + 1, 1, e' - 1)
      BY <1>2, <1>4, <3>1, <3>2, <3>3
    <3> QED
      BY <1>2, <3>1, <3>4 DEF StepUnrolling, Complete
  <2> QED
    BY <2>1, <2>2
<1> QED
  BY <1>5, <1>6, <1>7 DEF StepInv

(****************************************************************************)
(* The steps between the two loops and after them.                          *)
(****************************************************************************)
LEMMA StartInv == StepInv /\ (StartStep \/ StartInduction \/ EndInduction) => StepInv'
<1> SUFFICES ASSUME StepInv, StartStep \/ StartInduction \/ EndInduction PROVE StepInv'
  OBVIOUS
<1>1. BaseInv /\ StepControl /\ StepUnrolling
  BY DEF StepInv
<1>2. /\ g' = g /\ path' = path /\ k' = k /\ pc' = pc /\ UNCHANGED vars
      /\ stepNodeIdx' = stepNodeIdx /\ inductiveNodeIdx' = inductiveNodeIdx
  BY DEF StartStep, StartInduction, EndInduction, vars
<1>3. /\ g \in Graphs /\ path \in ErrPaths(g) /\ k \in Nat \ {0} /\ Len(path) \in Nat \ {0}
      /\ e \in 1..Len(path)+1
  BY <1>1, BaseFacts DEF BaseInv, StepControl
<1>4. /\ Unrolled(g, path, k, 1, 0) = << >> /\ Unrolled(g, path, k + 1, 1, 0) = << >>
      /\ UnrollPath(g, path, k, 1) = Unrolled(g, path, k, 1, Len(path))
      /\ UnrollPath(g, path, k + 1, 1) = Unrolled(g, path, k + 1, 1, Len(path))
  <2>1. k + 1 \in Nat \ {0} /\ 1 \in Nat \ {0}
    BY <1>3
  <2> QED
    BY <1>3, <2>1, UnrolledGrows
<1>5. BaseInv'
  BY <1>1, <1>2, BaseStutter
<1>6. StepControl' /\ StepUnrolling'
  <2>1. CASE StartStep
    <3>1. step = "wait" /\ step' = "base" /\ e' = e /\ pc = "true" /\ ~IsPattern1(path)
      BY <2>1 DEF StartStep
    <3>2. e = 1 /\ stepNodeIdx = << >> /\ inductiveNodeIdx = << >>
      BY <1>1, <3>1 DEF StepUnrolling
    <3>3. e' - 1 = 0
      BY <3>1, <3>2
    <3>4. stepNodeIdx' = Unrolled(g', path', k', 1, e' - 1) /\ inductiveNodeIdx' = << >>
      BY <1>2, <1>4, <3>2, <3>3
    <3>5. StepUnrolling'
      BY <3>1, <3>4 DEF StepUnrolling, Complete
    <3> QED
      BY <1>2, <1>3, <3>1, <3>5 DEF StepControl
  <2>2. CASE StartInduction
    <3>1. step = "base" /\ e > Len(path) /\ step' = "induction" /\ e' = 1
      BY <2>2 DEF StartInduction
    <3>2. e - 1 = Len(path) /\ e' - 1 = 0
      BY <1>3, <3>1
    <3>3. stepNodeIdx = Unrolled(g, path, k, 1, Len(path)) /\ inductiveNodeIdx = << >>
      BY <1>1, <3>1, <3>2 DEF StepUnrolling
    <3>4. stepNodeIdx' = UnrollPath(g', path', k', 1) /\ inductiveNodeIdx' = Unrolled(g', path', k' + 1, 1, e' - 1)
      BY <1>2, <1>4, <3>2, <3>3
    <3>5. StepUnrolling'
      BY <3>1, <3>4 DEF StepUnrolling, Complete
    <3>6. pc = "true" /\ ~IsPattern1(path) /\ e' \in 1..Len(path)+1
      BY <1>1, <1>3, <3>1 DEF StepControl
    <3> QED
      BY <1>2, <3>1, <3>5, <3>6 DEF StepControl
  <2>3. CASE EndInduction
    <3>1. step = "induction" /\ e > Len(path) /\ step' = "encodeBase" /\ e' = e
      BY <2>3 DEF EndInduction
    <3>2. e - 1 = Len(path)
      BY <1>3, <3>1
    <3>3. stepNodeIdx = UnrollPath(g, path, k, 1) /\ inductiveNodeIdx = Unrolled(g, path, k + 1, 1, Len(path))
      BY <1>1, <3>1, <3>2 DEF StepUnrolling
    <3>4. stepNodeIdx' = UnrollPath(g', path', k', 1) /\ inductiveNodeIdx' = UnrollPath(g', path', k' + 1, 1)
      BY <1>2, <1>4, <3>3
    <3>5. StepUnrolling'
      BY <3>1, <3>4 DEF StepUnrolling
    <3>6. pc = "true" /\ ~IsPattern1(path)
      BY <1>1, <3>1 DEF StepControl
    <3> QED
      BY <1>2, <1>3, <3>1, <3>5, <3>6 DEF StepControl, Complete
  <2> QED
    BY <2>1, <2>2, <2>3
<1> QED
  BY <1>5, <1>6 DEF StepInv

LEMMA EncodeInv == StepInv /\ (Encode \/ Ask) => StepInv'
<1> SUFFICES ASSUME StepInv, Encode \/ Ask PROVE StepInv'
  OBVIOUS
<1>1. BaseInv /\ StepControl /\ StepUnrolling
  BY DEF StepInv
<1>2. /\ g' = g /\ path' = path /\ k' = k /\ pc' = pc /\ UNCHANGED vars /\ e' = e
      /\ stepNodeIdx' = stepNodeIdx /\ inductiveNodeIdx' = inductiveNodeIdx
      /\ step \in Complete /\ step' \in Complete
  BY DEF Encode, Ask, vars, Complete
<1>3. BaseInv'
  BY <1>1, <1>2, BaseStutter
<1>4. "wait" \notin Complete /\ "pattern1" \notin Complete /\ "base" \notin Complete /\ "induction" \notin Complete
  BY DEF Complete
<1>5. StepControl'
  BY <1>1, <1>2, <1>4 DEF StepControl
<1>6. StepUnrolling'
  BY <1>1, <1>2, <1>4 DEF StepUnrolling
<1> QED
  BY <1>3, <1>5, <1>6 DEF StepInv

(****************************************************************************)
(* The step stops at no assertion but those of error loops, branches at the *)
(* end, phis, second stores to a global and a solver without an answer.     *)
(****************************************************************************)
LEMMA StopsInv == StepInv /\ (UnrollingStops \/ EncodingStops \/ NoAnswer) => StepInv'
<1> SUFFICES ASSUME StepInv, UnrollingStops \/ EncodingStops \/ NoAnswer PROVE StepInv'
  OBVIOUS
<1>1. BaseInv /\ StepControl /\ StepUnrolling
  BY DEF StepInv
<1>2. /\ g' = g /\ path' = path /\ k' = k /\ pc' = pc /\ UNCHANGED vars /\ e' = e
      /\ stepNodeIdx' = stepNodeIdx /\ inductiveNodeIdx' = inductiveNodeIdx
  BY DEF UnrollingStops, EncodingStops, NoAnswer, vars
<1> DEFINE stops == {"branchAtEnd", "phi", "globalAgain", "unknown"}
<1>3. BranchAtEnd => step \in {"encodeBase", "encodeInduction"}
  BY DEF BranchAtEnd, Encoded
<1>4. ~LoopNotRotated /\ ~BranchMissed
  BY PassedAssertions
<1>5. \/ step' = "pattern1" /\ step = "wait" /\ pc = "true"
      \/ step' \in stops /\ step \in Complete
  BY <1>3, <1>4 DEF UnrollingStops, EncodingStops, NoAnswer, EndsInErrorLoop, UnsupportedPhi, GlobalAgain, Complete
<1>6. BaseInv'
  BY <1>1, <1>2, BaseStutter
<1>7. CASE step' = "pattern1" /\ step = "wait" /\ pc = "true"
  <2>1. StepControl'
    BY <1>1, <1>2, <1>7 DEF StepControl
  <2>2. StepUnrolling'
    BY <1>1, <1>2, <1>7 DEF StepUnrolling, Complete
  <2> QED
    BY <1>6, <2>1, <2>2 DEF StepInv
<1>8. CASE step' \in stops /\ step \in Complete
  <2>1. step' \in Complete
    BY <1>8 DEF Complete
  <2>2. "wait" \notin Complete /\ "pattern1" \notin Complete /\ "base" \notin Complete /\ "induction" \notin Complete
    BY DEF Complete
  <2>3. StepControl'
    BY <1>1, <1>2, <1>8, <2>1, <2>2 DEF StepControl
  <2>4. StepUnrolling'
    BY <1>1, <1>2, <1>8, <2>1, <2>2 DEF StepUnrolling
  <2> QED
    BY <1>6, <2>3, <2>4 DEF StepInv
<1> QED
  BY <1>5, <1>7, <1>8

LEMMA StepNextInv == StepInv /\ [StepNext]_allVars => StepInv'
<1> SUFFICES ASSUME StepInv, [StepNext]_allVars PROVE StepInv'
  OBVIOUS
<1>1. CASE RunBaseCase
  <2>1. /\ step = "wait" /\ Next /\ step' = step /\ e' = e /\ stepNodeIdx' = stepNodeIdx
        /\ inductiveNodeIdx' = inductiveNodeIdx
    BY <1>1 DEF RunBaseCase, stepVars
  <2>2. BaseInv'
    BY <2>1, BaseNextInv DEF StepInv
  <2>3. /\ e = 1 /\ stepNodeIdx = << >> /\ inductiveNodeIdx = << >>
    BY <2>1 DEF StepInv, StepUnrolling
  <2>4. StepUnrolling'
    BY <2>1, <2>3 DEF StepUnrolling, Complete
  <2>5. StepControl'
    <3>1. Len(path') \in Nat \ {0}
      <4>1. BaseControl'
        BY <2>2 DEF BaseInv
      <4>2. g' \in Graphs /\ path' \in ErrPaths(g')
        BY <4>1 DEF BaseControl
      <4> QED
        BY <4>2, PathFacts
    <3>2. e' \in 1..Len(path')+1
      BY <2>1, <2>3, <3>1
    <3> QED
      BY <2>1, <3>2 DEF StepControl
  <2> QED
    BY <2>2, <2>4, <2>5 DEF StepInv
<1>2. CASE StepEnded \/ UNCHANGED allVars
  <2>1. /\ UNCHANGED vars /\ step' = step /\ e' = e /\ stepNodeIdx' = stepNodeIdx
        /\ inductiveNodeIdx' = inductiveNodeIdx
    BY <1>2 DEF StepEnded, allVars, stepVars
  <2>2. g' = g /\ path' = path /\ k' = k /\ pc' = pc
    BY <2>1 DEF vars
  <2>3. BaseInv'
    BY <2>1, BaseStutter DEF StepInv
  <2>4. StepControl' /\ StepUnrolling'
    BY <2>1, <2>2 DEF StepInv, StepControl, StepUnrolling
  <2> QED
    BY <2>3, <2>4 DEF StepInv
<1> QED
  BY <1>1, <1>2, StopsInv, StartInv, PushInv, EncodeInv DEF StepNext

(****************************************************************************)
(* The invariant holds of a base case and the step behind it.               *)
(****************************************************************************)
THEOREM StepInvariance == StepSpec => []StepInv
<1>1. StepInit => StepInv
  BY StepInitInv
<1>2. StepInv /\ [StepNext]_allVars => StepInv'
  BY StepNextInv
<1> QED
  BY <1>1, <1>2, PTL DEF StepSpec

(****************************************************************************)
(* The rounds of baseCase do not run into each other: a query is the whole  *)
(* path's for its own round, whatever the vector shared by the rounds held  *)
(* before, and a base case that passes has asked all k.                     *)
(****************************************************************************)
THEOREM RoundsStayApart == StepSpec => []RoundsAreSeparate
<1>1. StepInv => RoundsAreSeparate
  BY BaseInvIsSeparate DEF StepInv
<1> QED
  BY <1>1, StepInvariance, PTL

(****************************************************************************)
(* inductiveStep fails neither the assertion that a loop is rotated nor the *)
(* one that a branch is followed by one of its targets: the base case has   *)
(* passed the same loops, and the extra round takes only the back edge.     *)
(****************************************************************************)
THEOREM StepUnrolls == StepSpec => []NoNewStop
<1>1. StepInv => NoNewStop
  BY DEF StepInv, StepControl, Complete, NoNewStop
<1> QED
  BY <1>1, StepInvariance, PTL

------------------------------------------------------------------------------
(****************************************************************************)
(* How often a node occurs in sequences.                                    *)
(****************************************************************************)
LEMMA TimesType ==
    ASSUME NEW S, NEW s \in Seq(S), NEW x
    PROVE  /\ IsFiniteSet({a \in DOMAIN s : s[a] = x})
           /\ Times(s, x) \in Nat
           /\ s = << >> => Times(s, x) = 0
           /\ (\A a \in 1..Len(s) : s[a] # x) => Times(s, x) = 0
<1>1. DOMAIN s = 1..Len(s) /\ Len(s) \in Nat
  BY LenProperties
<1>2. IsFiniteSet(1..Len(s))
  BY <1>1, FS_Interval
<1>3. IsFiniteSet({a \in DOMAIN s : s[a] = x})
  BY <1>1, <1>2, FS_Subset
<1>4. Times(s, x) \in Nat
  BY <1>3, FS_CardinalityType DEF Times
<1>5. ASSUME \A a \in 1..Len(s) : s[a] # x PROVE Times(s, x) = 0
  <2>1. {a \in DOMAIN s : s[a] = x} = {}
    BY <1>1, <1>5
  <2> QED
    BY <2>1, FS_EmptySet DEF Times
<1>6. s = << >> => Times(s, x) = 0
  BY <1>5, EmptySeq
<1> QED
  BY <1>3, <1>4, <1>5, <1>6

LEMMA TimesConcat ==
    ASSUME NEW S, NEW s \in Seq(S), NEW t \in Seq(S), NEW x
    PROVE  Times(s \o t, x) = Times(s, x) + Times(t, x)
<1> DEFINE u == s \o t
           A == {a \in DOMAIN s : s[a] = x}
           B == {a \in DOMAIN t : t[a] = x}
           C == {a \in DOMAIN u : u[a] = x}
           D == {a \in C : a > Len(s)}
           f == [b \in B |-> Len(s) + b]
<1>1. /\ DOMAIN s = 1..Len(s) /\ Len(s) \in Nat /\ DOMAIN t = 1..Len(t) /\ Len(t) \in Nat
      /\ DOMAIN u = 1..Len(s) + Len(t)
      /\ \A a \in 1..Len(s) + Len(t) : u[a] = IF a <= Len(s) THEN s[a] ELSE t[a - Len(s)]
  BY LenProperties, ConcatProperties
<1>2. IsFiniteSet(A) /\ IsFiniteSet(B) /\ Cardinality(A) \in Nat /\ Cardinality(B) \in Nat
  BY TimesType, FS_CardinalityType
<1> HIDE DEF u
<1>3. C = A \cup D
  <2>1. ASSUME NEW a \in A PROVE a \in C
    BY <1>1
  <2>2. ASSUME NEW a \in C, ~ (a > Len(s)) PROVE a \in A
    BY <1>1, <2>2
  <2> QED
    BY <2>1, <2>2
<1>4. A \cap D = {}
  BY <1>1
<1>5. f \in Bijection(B, D)
  <2>1. ASSUME NEW b \in B PROVE Len(s) + b \in D
    <3>1. /\ b \in 1..Len(t) /\ t[b] = x /\ Len(s) + b \in 1..Len(s) + Len(t)
          /\ ~ (Len(s) + b <= Len(s)) /\ (Len(s) + b) - Len(s) = b
      BY <1>1
    <3>2. u[Len(s) + b] = t[b]
      BY <1>1, <3>1
    <3> QED
      BY <1>1, <3>1, <3>2
  <2>2. f \in [B -> D]
    BY <2>1
  <2>3. \A b, c \in B : f[b] = f[c] => b = c
    BY <1>1
  <2>4. ASSUME NEW a \in D PROVE \E b \in B : f[b] = a
    <3>1. /\ a \in 1..Len(s) + Len(t) /\ ~ (a <= Len(s)) /\ u[a] = x /\ a - Len(s) \in 1..Len(t)
          /\ Len(s) + (a - Len(s)) = a
      BY <1>1
    <3>2. t[a - Len(s)] = x
      BY <1>1, <3>1
    <3>3. a - Len(s) \in B /\ f[a - Len(s)] = a
      BY <1>1, <3>1, <3>2
    <3> QED
      BY <3>3
  <2> HIDE DEF f, B, D
  <2> QED
    BY <2>2, <2>3, <2>4 DEF Bijection, Injection, Surjection, IsInjective
<1> HIDE DEF A, B, C, D, f
<1>6. IsFiniteSet(D) /\ Cardinality(D) = Cardinality(B)
  <2>1. ExistsBijection(B, D)
    BY <1>5 DEF ExistsBijection
  <2> QED
    BY <1>2, <2>1, FS_Bijection
<1>7. Cardinality(A \cup D) = Cardinality(A) + Cardinality(D) - Cardinality(A \cap D)
  BY <1>2, <1>6, FS_Union
<1>8. Cardinality(A \cap D) = 0
  BY <1>4, FS_EmptySet
<1>9. Cardinality(C) = Cardinality(A) + Cardinality(B)
  BY <1>2, <1>3, <1>6, <1>7, <1>8
<1> QED
  BY <1>9 DEF A, B, C, u, Times

(****************************************************************************)
(* A sequence of sequences of which only the one at m has x, c times.       *)
(****************************************************************************)
OnlyAt(S, F, n, x, m, c) ==
    /\ \A a \in 1..n : F[a] \in Seq(S)
    /\ \A a \in 1..n : a # m => Times(F[a], x) = 0
    /\ m \in 1..n => Times(F[m], x) = c

LEMMA FlatTimes ==
    ASSUME NEW S, NEW F, NEW n \in Nat, NEW x, NEW m, NEW c \in Nat,
           OnlyAt(S, F, n, x, m, c)
    PROVE  Times(FlattenSeq(First(F, n)), x) = IF m \in 1..n THEN c ELSE 0
<1> DEFINE flat(b) == FlattenSeq(First(F, b))
           T == {b \in Nat : b <= n => /\ flat(b) \in Seq(S)
                                      /\ Times(flat(b), x) = IF m \in 1..b THEN c ELSE 0}
<1>1. 0 \in T
  <2>1. flat(0) = << >>
    BY FlattenNone
  <2>2. << >> \in Seq(S)
    BY EmptySeq
  <2> HIDE DEF flat
  <2>3. Times(<< >>, x) = 0
    BY ONLY <2>2, TimesType
  <2>4. m \notin 1..0
    <3>1. 1..0 = {}
      OBVIOUS
    <3> QED
      BY <3>1
  <2>5. flat(0) \in Seq(S)
    BY <2>1, <2>2
  <2>6. Times(flat(0), x) = 0
    BY <2>1, <2>3
  <2> QED
    BY <2>4, <2>5, <2>6
<1>2. ASSUME NEW b \in Nat, b \in T PROVE b + 1 \in T
  <2> SUFFICES ASSUME b + 1 <= n
               PROVE  /\ flat(b + 1) \in Seq(S)
                      /\ Times(flat(b + 1), x) = IF m \in 1..b+1 THEN c ELSE 0
    OBVIOUS
  <2>1. flat(b) \in Seq(S) /\ Times(flat(b), x) = IF m \in 1..b THEN c ELSE 0
    BY <1>2
  <2>2. b + 1 \in 1..n /\ \A a \in 1..b+1 : F[a] \in Seq(S)
    BY DEF OnlyAt
  <2>3. flat(b + 1) = flat(b) \o F[b+1]
    BY <2>2, FlattenGrows
  <2> HIDE DEF flat
  <2>4. Times(flat(b + 1), x) = Times(flat(b), x) + Times(F[b+1], x)
    <3> DEFINE s == flat(b)
               t == F[b+1]
    <3>1. s \in Seq(S) /\ t \in Seq(S)
      BY <2>1, <2>2
    <3> HIDE DEF s, t
    <3>2. Times(s \o t, x) = Times(s, x) + Times(t, x)
      BY ONLY <3>1, TimesConcat
    <3> QED
      BY <2>3, <3>2 DEF s, t
  <2>5. flat(b + 1) \in Seq(S)
    <3>1. F[b+1] \in Seq(S)
      BY <2>2
    <3> QED
      BY ONLY <2>1, <2>3, <3>1, ConcatProperties
  <2>6. Times(F[b+1], x) = IF b + 1 = m THEN c ELSE 0
    BY <2>2 DEF OnlyAt
  <2>7. CASE b + 1 = m
    BY <2>1, <2>4, <2>5, <2>6, <2>7
  <2>8. CASE b + 1 # m
    <3>1. m \in 1..b+1 <=> m \in 1..b
      BY <2>8
    <3> QED
      BY <2>1, <2>4, <2>5, <2>6, <2>8, <3>1
  <2> QED
    BY <2>7, <2>8
<1> HIDE DEF T
<1>3. Nat \subseteq T
  BY <1>1, <1>2, Inductive
<1> QED
  BY <1>3 DEF T

LEMMA TimesOne ==
    ASSUME NEW S, NEW h \in S, NEW n \in Nat, NEW x
    PROVE  /\ <<h>> \in Seq(S) /\ <<h>> # << >> /\ Len(<<h>>) = 1
           /\ Times(<<h>>, x) = IF x = h THEN 1 ELSE 0
           /\ Times(Repeat(<<h>>, n), x) = IF x = h THEN n ELSE 0
<1>1. <<h>> \in Seq(S) /\ Len(<<h>>) = 1 /\ <<h>> # << >>
  OBVIOUS
<1>2. Times(<<h>>, x) = IF x = h THEN 1 ELSE 0
  <2>1. CASE x = h
    <3>1. {a \in DOMAIN <<h>> : <<h>>[a] = x} = {1}
      BY <2>1
    <3>2. Cardinality({1}) = 1
      BY FS_Singleton
    <3>3. Times(<<h>>, x) = 1
      BY <3>1, <3>2 DEF Times
    <3> QED
      BY <2>1, <3>3
  <2>2. CASE x # h
    <3>1. {a \in DOMAIN <<h>> : <<h>>[a] = x} = {}
      BY <2>2
    <3>2. Times(<<h>>, x) = 0
      BY <3>1, FS_EmptySet DEF Times
    <3> QED
      BY <2>2, <3>2
  <2> QED
    BY <2>1, <2>2
<1> DEFINE s == <<h>>
           T == {m \in Nat : Times(Repeat(s, m), x) = IF x = h THEN m ELSE 0}
<1>3. s \in Seq(S) /\ Times(s, x) = IF x = h THEN 1 ELSE 0
  BY <1>1, <1>2
<1> HIDE DEF s
<1>4. 0 \in T
  <2>1. Repeat(s, 0) = << >> /\ << >> \in Seq(S)
    <3>1. 0 \in Nat
      OBVIOUS
    <3> QED
      BY <1>3, <3>1, RepeatMore, EmptySeq
  <2>2. Times(<< >>, x) = 0
    BY ONLY <2>1, TimesType
  <2> QED
    BY <2>1, <2>2
<1>5. ASSUME NEW m \in Nat, m \in T PROVE m + 1 \in T
  <2> DEFINE r == Repeat(s, m)
  <2>1. r \in Seq(S) /\ Repeat(s, m + 1) = r \o s
    BY <1>3, RepeatMore
  <2>2. Times(r, x) = IF x = h THEN m ELSE 0
    BY <1>5
  <2> HIDE DEF r
  <2>3. Times(r \o s, x) = Times(r, x) + Times(s, x)
    BY ONLY <1>3, <2>1, TimesConcat
  <2>4. Times(Repeat(s, m + 1), x) = Times(r, x) + Times(s, x)
    BY <2>1, <2>3
  <2>5. Times(Repeat(s, m + 1), x) = IF x = h THEN m + 1 ELSE 0
    <3> DEFINE c == Times(Repeat(s, m + 1), x)
               a == Times(r, x)
               b == Times(s, x)
    <3>1. c = a + b /\ a = (IF x = h THEN m ELSE 0) /\ b = (IF x = h THEN 1 ELSE 0)
      BY <1>3, <2>2, <2>4
    <3> HIDE DEF a, b, c
    <3>2. c = IF x = h THEN m + 1 ELSE 0
      BY <3>1
    <3> QED
      BY <3>2 DEF c
  <2> QED
    BY <2>5
<1> HIDE DEF T
<1>6. Nat \subseteq T
  BY <1>4, <1>5, Inductive
<1>7. Times(Repeat(s, n), x) = IF x = h THEN n ELSE 0
  BY <1>6 DEF T
<1> QED
  BY <1>1, <1>2, <1>7 DEF s

------------------------------------------------------------------------------
(****************************************************************************)
(* Paths whose loops are single blocks: each element is one node, a loop's  *)
(* with an edge to itself.                                                  *)
(****************************************************************************)
IsLoop(p, n) == p[n].type \in {"ALoop", "ERRORLOOP"}

SingleBlocks(gr, p) == \A n \in DOMAIN p : IsLoop(p, n) => Cardinality(NodesOf(gr, p[n])) = 1

LEMMA SingleBlockLoop ==
    ASSUME NEW gr \in Graphs, NEW p \in ErrPaths(gr), SingleBlocks(gr, p),
           NEW n \in 1..Len(p), IsLoop(p, n)
    PROVE  LET h == ExitNode(gr, p[n])
           IN  /\ h \in Nodes(gr) /\ NodesOf(gr, p[n]) = {h}
               /\ LoopBody(gr, p[n].idx) = <<h>>
               /\ <<h, h>> \in Edges(gr)
<1> DEFINE l == p[n].idx
           lcssa == gr.LCSSAs[l]
           bbVec == lcssa.bbVec
           body == LoopBody(gr, l)
           inside == NodesOf(gr, p[n])
<1>1. l \in DOMAIN gr.LCSSAs /\ DOMAIN p = 1..Len(p)
  BY PathFacts DEF IsLoop
<1>2. inside = {m \in Nodes(gr) : gr.CFGNodeVec[m].bb \in ToSet(bbVec)}
  BY DEF IsLoop, NodesOf, Nodes
<1>3. IsFiniteSet(inside) /\ Cardinality(inside) = 1
  <2>1. IsFiniteSet(Nodes(gr))
    <3>1. Nodes(gr) = 1..Len(gr.CFGNodeVec) /\ Len(gr.CFGNodeVec) \in Int /\ 1 \in Int
      BY GraphFacts
    <3>2. IsFiniteSet(1..Len(gr.CFGNodeVec))
      BY <3>1, FS_Interval
    <3> QED
      BY <3>1, <3>2
  <2>2. IsFiniteSet(inside)
    BY <1>2, <2>1, FS_Subset
  <2> QED
    BY <1>1, <2>2 DEF SingleBlocks
<1>4. PICK h : inside = {h}
  BY <1>3, FS_Singleton
<1>5. /\ body \in Seq(Nodes(gr)) /\ body # << >> /\ Len(body) \in Nat \ {0} /\ Len(body) = Len(bbVec)
      /\ DOMAIN bbVec = 1..Len(bbVec)
      /\ \A a \in 1..Len(body) :
            /\ bbVec[a] \in BBs(gr.CFGNodeVec)
            /\ body[a] = IndexByBB(gr.CFGNodeVec, bbVec[a])
  BY <1>1, BodyFacts
<1>6. /\ lcssa.header \in ToSet(bbVec)
      /\ lcssa.latch \in ToSet(bbVec) \/ Len(bbVec) > 1
      /\ \A a, b \in DOMAIN bbVec : bbVec[a] = bbVec[b] => a = b
  <2>1. IsCFG(gr.CFGNodeVec, gr.LCSSAs)
    BY GraphFacts
  <2>2. lcssa.header \in ToSet(bbVec) /\ lcssa.latch \in ToSet(bbVec) \cup {NoBlock}
    BY <1>1, <2>1 DEF IsCFG
  <2>4. lcssa.latch = NoBlock => Len(bbVec) > 1
    BY <1>1, LoopsAssumption
  <2>3. \A a, b \in DOMAIN bbVec : bbVec[a] = bbVec[b] => a = b
    BY <1>1, LoopsAssumption
  <2> QED
    BY <2>2, <2>3, <2>4
<1>7. ASSUME NEW a \in 1..Len(body) PROVE body[a] = h /\ gr.CFGNodeVec[h].bb = bbVec[a]
  <2>1. body[a] \in Nodes(gr) /\ gr.CFGNodeVec[body[a]].bb = bbVec[a]
    BY <1>5, IndexFound
  <2>2. bbVec[a] \in ToSet(bbVec)
    BY <1>5 DEF ToSet
  <2>3. body[a] \in inside
    BY <1>2, <2>1, <2>2
  <2> QED
    BY <1>4, <2>1, <2>3
<1>8. Len(body) = 1
  <2>1. 1 \in 1..Len(body) /\ Len(body) \in 1..Len(body)
    BY <1>5
  <2>2. bbVec[1] = bbVec[Len(body)]
    BY <1>7, <2>1
  <2> QED
    BY <1>5, <1>6, <2>1, <2>2
<1>9. body = <<h>> /\ h \in Nodes(gr)
  <2>1. 1 \in 1..Len(body)
    BY <1>8
  <2>2. body[1] = h /\ body[1] \in Nodes(gr)
    <3> HIDE DEF body
    <3> QED
      BY <1>5, <1>7, <2>1, ElementOfSeq
  <2> HIDE DEF body
  <2> QED
    BY <1>5, <1>8, <2>2
<1>10. lcssa.header = bbVec[1] /\ lcssa.latch = bbVec[1] /\ Last(bbVec) = bbVec[1]
  <2>1. DOMAIN bbVec = 1..1 /\ Len(bbVec) = 1
    BY <1>5, <1>8
  <2>2. ASSUME NEW b \in ToSet(bbVec) PROVE b = bbVec[1]
    <3>1. PICK a \in DOMAIN bbVec : b = bbVec[a]
      BY DEF ToSet
    <3>2. a = 1
      BY <2>1, <3>1
    <3> QED
      BY <3>1, <3>2
  <2>3. Last(bbVec) = bbVec[1]
    BY <2>1 DEF Last
  <2>4. lcssa.latch \in ToSet(bbVec)
    BY <1>6, <2>1
  <2> QED
    BY <1>6, <2>2, <2>3, <2>4
<1>11. ExitNode(gr, p[n]) = h
  <2>1. 1 \in 1..Len(body)
    BY <1>8
  <2>2. IndexByBB(gr.CFGNodeVec, bbVec[1]) = h
    BY <1>5, <1>7, <2>1
  <2> QED
    BY <1>10, <2>2 DEF ExitNode, IsLoop
<1>12. <<h, h>> \in Edges(gr)
  <2>1. <<body[Len(body)], body[1]>> \in Edges(gr)
    BY <1>1, <1>10, BackEdge
  <2> QED
    BY <1>8, <1>9, <2>1
<1> QED
  BY <1>4, <1>9, <1>11, <1>12

LEMMA OneNode ==
    ASSUME NEW gr \in Graphs, NEW p \in ErrPaths(gr), SingleBlocks(gr, p), NEW n \in 1..Len(p)
    PROVE  NodesOf(gr, p[n]) = {ExitNode(gr, p[n])} /\ ExitNode(gr, p[n]) \in Nodes(gr)
<1>1. CASE IsLoop(p, n)
  BY <1>1, SingleBlockLoop
<1>2. CASE ~IsLoop(p, n)
  <2>1. p[n].idx \in Nodes(gr)
    BY <1>2, PathFacts DEF IsLoop
  <2> QED
    BY <1>2, <2>1 DEF IsLoop, NodesOf, ExitNode
<1> QED
  BY <1>1, <1>2

(****************************************************************************)
(* So the chain is a walk, and no two elements are the same node.           *)
(****************************************************************************)
LEMMA OneNodeEach ==
    ASSUME NEW gr \in Graphs, NEW p \in ErrPaths(gr), SingleBlocks(gr, p)
    PROVE  /\ \A n \in 1..Len(p)-1 : <<ExitNode(gr, p[n]), ExitNode(gr, p[n+1])>> \in Edges(gr)
           /\ \A m, n \in 1..Len(p) : ExitNode(gr, p[m]) = ExitNode(gr, p[n]) => m = n
<1>1. Len(p) \in Nat \ {0}
  BY PathFacts
<1>2. ASSUME NEW n \in 1..Len(p)-1
      PROVE  <<ExitNode(gr, p[n]), ExitNode(gr, p[n+1])>> \in Edges(gr)
  <2>1. n \in 1..Len(p) /\ n + 1 \in 1..Len(p)
    BY <1>1
  <2>2. /\ NodesOf(gr, p[n]) = {ExitNode(gr, p[n])} /\ ExitNode(gr, p[n]) \in Nodes(gr)
        /\ NodesOf(gr, p[n+1]) = {ExitNode(gr, p[n+1])} /\ ExitNode(gr, p[n+1]) \in Nodes(gr)
    BY <2>1, OneNode
  <2>3. Linked(gr, p[n], p[n+1])
    BY PathFacts DEF IsChain
  <2>4. ExitNode(gr, p[n+1]) \in ToSet(gr.CFGNodeVec[ExitNode(gr, p[n])].childs)
    BY <2>2, <2>3 DEF Linked
  <2> QED
    BY <2>2, <2>4 DEF Edges, IsEdge
<1>3. ASSUME NEW m \in 1..Len(p), NEW n \in 1..Len(p), ExitNode(gr, p[m]) = ExitNode(gr, p[n])
      PROVE  m = n
  <2>1. NodesOf(gr, p[m]) \cap NodesOf(gr, p[n]) # {}
    BY <1>3, OneNode
  <2> QED
    BY <2>1, PathFacts
<1> QED
  BY <1>2, <1>3

(****************************************************************************)
(* The last round of such an error loop is its block and the error node.    *)
(****************************************************************************)
LEMMA LastRoundOfOne ==
    ASSUME NEW gr \in Graphs, NEW p \in ErrPaths(gr), SingleBlocks(gr, p),
           NEW n \in 1..Len(p)-1, p[n].type = "ERRORLOOP"
    PROVE  /\ p[n+1].idx = ExitNode(gr, p[n+1])
           /\ LastRound(gr, p[n].idx, p[n+1].idx) = <<ExitNode(gr, p[n])>> \o <<ExitNode(gr, p[n+1])>>
<1> DEFINE h == ExitNode(gr, p[n])
           err == p[n+1].idx
           body == LoopBody(gr, p[n].idx)
           I == {a \in 1..Len(body) : err \in ToSet(gr.CFGNodeVec[body[a]].childs)}
<1>1. Len(p) \in Nat \ {0} /\ n \in 1..Len(p) /\ n = Len(p) - 1 /\ IsLoop(p, n)
  BY PathFacts DEF IsLoop
<1>2. p[n+1].type = "ERRORNODE"
  BY <1>1, PathFacts
<1>3. err = ExitNode(gr, p[n+1])
  BY <1>2 DEF ExitNode
<1>4. body = <<h>>
  BY <1>1, SingleBlockLoop
<1>5. <<h, err>> \in Edges(gr)
  BY <1>3, OneNodeEach
<1>6. err \in ToSet(gr.CFGNodeVec[h].childs) /\ h \in Nodes(gr) /\ err \in Nodes(gr)
  BY <1>5 DEF Edges, IsEdge
<1> DEFINE at == IF I # {} THEN Min(I) ELSE 0
<1>7. LastRound(gr, p[n].idx, err) = IF at = 0 THEN body ELSE Append(SubSeq(body, 1, at), err)
  BY DEF LastRound, SelectInSeq
<1>8. I = {1}
  BY <1>4, <1>6
<1>9. at = 1 /\ at # 0
  <2>1. Min({1}) = 1
    BY DEF Min
  <2> HIDE DEF I
  <2> QED
    BY <1>8, <2>1
<1> HIDE DEF at, h, err, body
<1>10. SubSeq(body, 1, 1) = <<h>>
  <2> DEFINE s == SubSeq(body, 1, 1)
  <2>1. 1 \in Int /\ \A a \in 1..1 : body[a] \in {h}
    BY <1>4
  <2>2. /\ s \in Seq({h})
        /\ Len(s) = IF 1 <= 1 THEN (1 - 1) + 1 ELSE 0
    BY <2>1, SubSeqProperties
  <2> HIDE DEF s
  <2>3. Len(s) = 1 /\ s[1] = h
    BY <2>2
  <2>4. s = <<h>>
    BY <2>2, <2>3
  <2> QED
    BY <2>4 DEF s
<1>11. LastRound(gr, p[n].idx, err) = Append(<<h>>, err)
  <2>1. LastRound(gr, p[n].idx, err) = Append(SubSeq(body, 1, 1), err)
    BY <1>7, <1>9, Zenon
  <2> QED
    BY <1>10, <2>1, Zenon
<1>12. Append(<<h>>, err) = <<h>> \o <<err>>
  BY <1>6, AppendIsConcat
<1>13. LastRound(gr, p[n].idx, err) = <<h>> \o <<err>>
  BY <1>11, <1>12
<1> QED
  BY <1>3, <1>13 DEF err, h

(****************************************************************************)
(* The walk along one element, and how often it is at a node.               *)
(****************************************************************************)
Rounds(p, n, rounds, count) ==
    CASE p[n].type = "ALoop" -> rounds
      [] p[n].type = "ERRORLOOP" -> count
      [] OTHER -> 1

LEMMA ElementWalk ==
    ASSUME NEW gr \in Graphs, NEW p \in ErrPaths(gr), SingleBlocks(gr, p), NEW n \in 1..Len(p),
           NEW rounds \in Nat \ {0}, NEW count \in Nat \ {0}
    PROVE  LET nodes == UnrollElement(gr, p, n, rounds, count)
               h == ExitNode(gr, p[n])
           IN  /\ nodes[1] = h
               /\ p[n].type # "ERRORLOOP" => nodes[Len(nodes)] = h
               /\ Along(Edges(gr), nodes)
               /\ Rounds(p, n, rounds, count) \in Nat
               /\ \A x : Times(nodes, x) = IF x = h THEN Rounds(p, n, rounds, count)
                                          ELSE IF p[n].type = "ERRORLOOP" /\ x = ExitNode(gr, p[n+1])
                                          THEN 1 ELSE 0
<1> DEFINE nodes == UnrollElement(gr, p, n, rounds, count)
           h == ExitNode(gr, p[n])
           R == Edges(gr)
           S == Nodes(gr)
           loop == <<h>>
<1>1. p[n].type \in {"ALoop", "ANode", "ERRORNODE", "ERRORLOOP"} /\ Len(p) \in Nat \ {0}
  BY PathFacts
<1>2. h \in S
  BY OneNode
<1>3. loop \in Seq(S) /\ loop # << >> /\ Len(loop) = 1 /\ loop[1] = h /\ Along(R, loop)
  BY <1>2 DEF Along
<1>4. CASE p[n].type \in {"ANode", "ERRORNODE"}
  <2>1. nodes = loop
    BY <1>4 DEF UnrollElement, ExitNode
  <2>2. Rounds(p, n, rounds, count) = 1
    BY <1>4 DEF Rounds
  <2>3. \A x : Times(loop, x) = IF x = h THEN 1 ELSE 0
    <3>1. 0 \in Nat
      OBVIOUS
    <3> QED
      BY <1>2, <3>1, TimesOne
  <2> HIDE DEF nodes, loop, h
  <2> QED
    BY <1>3, <1>4, <2>1, <2>2, <2>3, SMTT(30) DEF nodes, h
<1>5. CASE p[n].type = "ALoop"
  <2>1. IsLoop(p, n)
    BY <1>5 DEF IsLoop
  <2>2. LoopBody(gr, p[n].idx) = loop /\ <<h, h>> \in R
    BY <2>1, SingleBlockLoop
  <2>3. nodes = Repeat(loop, rounds)
    BY <1>5, <2>2 DEF UnrollElement
  <2>4. Rounds(p, n, rounds, count) = rounds
    BY <1>5 DEF Rounds
  <2>5. \A x : Times(Repeat(loop, rounds), x) = IF x = h THEN rounds ELSE 0
    BY <1>2, TimesOne
  <2> HIDE DEF nodes, loop, h, R
  <2>6. nodes[1] = h /\ nodes[Len(nodes)] = h /\ Along(R, nodes)
    BY <1>3, <2>2, <2>3, RepeatAlong
  <2> QED
    BY <1>5, <2>3, <2>4, <2>5, <2>6 DEF nodes, h, R
<1>6. CASE p[n].type = "ERRORLOOP"
  <2> DEFINE err == ExitNode(gr, p[n+1])
             last == <<err>>
             before == Repeat(loop, count - 1)
             all == Repeat(loop, count)
  <2>1. IsLoop(p, n) /\ n \in 1..Len(p)-1 /\ n + 1 \in 1..Len(p)
    BY <1>1, <1>6, PathFacts DEF IsLoop
  <2>2. LoopBody(gr, p[n].idx) = loop /\ <<h, h>> \in R
    BY <2>1, SingleBlockLoop
  <2>3. LastRound(gr, p[n].idx, p[n+1].idx) = loop \o last
    BY <1>6, <2>1, LastRoundOfOne
  <2>4. nodes = before \o (loop \o last)
    BY <1>6, <2>2, <2>3 DEF UnrollElement
  <2>5. <<h, err>> \in R /\ h # err /\ err \in S
    <3>1. <<h, err>> \in R
      BY <2>1, OneNodeEach
    <3>2. h # err
      <4>1. n # n + 1
        BY <1>1
      <4> QED
        BY <2>1, <4>1, OneNodeEach
    <3> QED
      BY <2>1, <3>1, <3>2, OneNode
  <2>6. count - 1 \in Nat /\ (count - 1) + 1 = count
    OBVIOUS
  <2>7. /\ last \in Seq(S) /\ last # << >> /\ Len(last) = 1 /\ last[1] = err /\ Along(R, last)
        /\ \A x : Times(last, x) = IF x = err THEN 1 ELSE 0
    <3>1. 0 \in Nat
      OBVIOUS
    <3>2. \A x : Times(last, x) = IF x = err THEN 1 ELSE 0
      BY <2>5, <3>1, TimesOne
    <3> QED
      BY <2>5, <3>2 DEF Along
  <2>8. \A x : Times(all, x) = IF x = h THEN count ELSE 0
    BY <1>2, TimesOne
  <2>9. Rounds(p, n, rounds, count) = count
    BY <1>6 DEF Rounds
  <2> HIDE DEF nodes, loop, h, R, S, err, last, before, all
  <2>10. before \in Seq(S) /\ all = before \o loop
    BY <1>3, <2>6, RepeatMore DEF before, all
  <2>11. nodes = all \o last
    <3>1. (before \o loop) \o last = before \o (loop \o last)
      BY <1>3, <2>7, <2>10, ConcatAssociative
    <3>2. all \o last = (before \o loop) \o last
      BY <2>10
    <3> QED
      BY ONLY <2>4, <3>1, <3>2
  <2>12. /\ all \in Seq(S) /\ all # << >> /\ all[1] = h /\ all[Len(all)] = h /\ Along(R, all)
    BY <1>3, <2>2, RepeatAlong DEF all
  <2>13. nodes[1] = h /\ Along(R, nodes)
    BY <2>5, <2>7, <2>11, <2>12, AlongConcat
  <2>14. \A x : Times(nodes, x) = Times(all, x) + Times(last, x)
    BY <2>7, <2>11, <2>12, TimesConcat
  <2>15. \A x : Times(nodes, x) = IF x = h THEN count ELSE IF x = err THEN 1 ELSE 0
    <3> SUFFICES ASSUME NEW x
                 PROVE  Times(nodes, x) = IF x = h THEN count ELSE IF x = err THEN 1 ELSE 0
      OBVIOUS
    <3> DEFINE a == Times(all, x)
               b == Times(last, x)
               c == Times(nodes, x)
    <3>1. c = a + b /\ a = (IF x = h THEN count ELSE 0) /\ b = (IF x = err THEN 1 ELSE 0)
      BY <2>7, <2>8, <2>14
    <3> HIDE DEF a, b, c
    <3>2. c = IF x = h THEN count ELSE IF x = err THEN 1 ELSE 0
      BY <2>5, <3>1
    <3> QED
      BY <3>2 DEF c
  <2> QED
    BY <1>6, <2>9, <2>13, <2>15 DEF nodes, h, R, err
<1> QED
  BY <1>1, <1>4, <1>5, <1>6

(****************************************************************************)
(* The walk along a path, but for the second error node behind an error     *)
(* loop.                                                                    *)
(****************************************************************************)
WalkEnd(p) == IF IsPattern1(p) THEN Len(p) - 1 ELSE Len(p)

LEMMA PathWalk ==
    ASSUME NEW gr \in Graphs, NEW p \in ErrPaths(gr), SingleBlocks(gr, p),
           NEW rounds \in Nat \ {0}, NEW count \in Nat \ {0}
    PROVE  /\ WalkEnd(p) \in 1..Len(p)
           /\ IsWalk(gr, Unrolled(gr, p, rounds, count, WalkEnd(p)))
           /\ Last(UnrollPath(gr, p, rounds, count)) = Last(p).idx
<1> DEFINE n == WalkEnd(p)
           R == Edges(gr)
           S == Nodes(gr)
           F == [a \in 1..Len(p) |-> UnrollElement(gr, p, a, rounds, count)]
           walk == Unrolled(gr, p, rounds, count, n)
           all == UnrollPath(gr, p, rounds, count)
<1>1. Len(p) \in Nat \ {0} /\ DOMAIN p = 1..Len(p) /\ p[Len(p)].type = "ERRORNODE"
  BY PathFacts
<1>2. n \in 1..Len(p)
  BY <1>1 DEF WalkEnd, IsPattern1
<1>3. \A a \in 1..n-1 : p[a].type # "ERRORLOOP"
  <2>1. CASE IsPattern1(p)
    <3>1. n - 1 = Len(p) - 2
      BY <1>1, <2>1 DEF WalkEnd
    <3> HIDE DEF n
    <3>2. ASSUME NEW a \in 1..n-1 PROVE a \in 1..Len(p)-1 /\ a # Len(p) - 1
      <4>1. a \in Nat /\ 1 <= a /\ a <= n - 1
        BY <1>1, <1>2
      <4>2. a <= Len(p) - 2 /\ Len(p) \in Nat
        BY <1>1, <3>1, <4>1
      <4>3. a <= Len(p) - 1 /\ a # Len(p) - 1
        BY ONLY <4>1, <4>2
      <4> QED
        BY ONLY <4>1, <4>2, <4>3
    <3> QED
      BY <3>2, PathFacts
  <2>2. CASE ~IsPattern1(p)
    <3>1. \A a \in 1..n-1 : a \in 1..Len(p)
      BY <1>1, <1>2
    <3> QED
      BY <2>2, <3>1, NoErrorLoop
  <2> QED
    BY <2>1, <2>2
<1>4. \A a \in 1..Len(p) : F[a] \in Seq(S) /\ F[a] # << >>
  BY ElementType
<1>5. \A a \in 1..Len(p) : /\ F[a][1] = ExitNode(gr, p[a])
                           /\ p[a].type # "ERRORLOOP" => F[a][Len(F[a])] = ExitNode(gr, p[a])
                           /\ Along(R, F[a])
  <2> SUFFICES ASSUME NEW a \in 1..Len(p)
               PROVE  LET nodes == UnrollElement(gr, p, a, rounds, count)
                      IN  /\ nodes[1] = ExitNode(gr, p[a])
                          /\ p[a].type # "ERRORLOOP" => nodes[Len(nodes)] = ExitNode(gr, p[a])
                          /\ Along(R, nodes)
    OBVIOUS
  <2> QED
    BY ElementWalk
<1>6. walk = FlattenSeq(First(F, n)) /\ all = FlattenSeq(First(F, Len(p)))
  <2>1. \A a \in 1..n : F[a] = UnrollElement(gr, p, a, rounds, count)
    BY <1>2
  <2>2. First(F, n) = [a \in 1..n |-> UnrollElement(gr, p, a, rounds, count)]
    BY <2>1 DEF First
  <2>3. First(F, Len(p)) = F
    BY DEF First
  <2> QED
    BY <1>1, <2>2, <2>3 DEF Unrolled, UnrollPath
<1>7. walk \in Seq(S)
  <2>1. n \in 0..Len(p)
    BY <1>2
  <2> HIDE DEF n
  <2> QED
    BY <2>1, UnrolledGrows
<1>8. F[Len(p)] = <<p[Len(p)].idx>>
  <2>1. UnrollElement(gr, p, Len(p), rounds, count) = <<p[Len(p)].idx>>
    BY <1>1 DEF UnrollElement
  <2> QED
    BY <1>1, <2>1
<1>9. \A a \in 1..n-1 : <<ExitNode(gr, p[a]), ExitNode(gr, p[a+1])>> \in R
  <2>1. \A a \in 1..n-1 : a \in 1..Len(p)-1
    BY <1>1, <1>2
  <2> QED
    BY <2>1, OneNodeEach
<1> HIDE DEF n, R, S, F, walk, all
<1>10. IsFlatAlong(S, R, F, n, walk)
  <2>1. n \in Nat \ {0} /\ \A a \in 1..n : F[a] \in Seq(S) /\ F[a] # << >>
    BY <1>1, <1>2, <1>4
  <2> QED
    BY <1>6, <2>1, FlatAlong
<1>11. Inside(R, F, n)
  <2>1. \A a \in 1..n : a \in 1..Len(p)
    BY <1>1, <1>2
  <2> QED
    BY <1>5, <2>1 DEF Inside
<1>12. Between(R, F, n)
  <2>1. \A a \in 1..n-1 : a \in 1..Len(p) /\ a + 1 \in 1..Len(p)
    BY <1>1, <1>2
  <2> QED
    BY <1>3, <1>5, <1>9, <2>1 DEF Between
<1>13. IsWalk(gr, walk)
  <2>1. Along(R, walk)
    BY <1>10, <1>11, <1>12 DEF IsFlatAlong
  <2> QED
    BY <1>7, <2>1, EdgesOfSequences DEF R, S
<1>14. Last(all) = Last(p).idx
  <2>1. IsFlatAlong(S, R, F, Len(p), all)
    BY <1>1, <1>4, <1>6, FlatAlong
  <2>2. all[Len(all)] = F[Len(p)][Len(F[Len(p)])]
    BY <2>1 DEF IsFlatAlong
  <2>3. all[Len(all)] = p[Len(p)].idx
    BY <1>8, <2>2
  <2> QED
    BY <2>3 DEF Last
<1> QED
  BY <1>2, <1>13, <1>14 DEF n, walk, all

(****************************************************************************)
(* A path is at the node of an element as often as this element is run, and *)
(* at no other node; only behind an error loop the error node comes twice.  *)
(****************************************************************************)
LEMMA PathTimes ==
    ASSUME NEW gr \in Graphs, NEW p \in ErrPaths(gr), SingleBlocks(gr, p),
           NEW rounds \in Nat \ {0}, NEW count \in Nat \ {0}
    PROVE  /\ \A n \in 1..Len(p) :
                 n # Len(p) \/ ~IsPattern1(p) =>
                    Times(UnrollPath(gr, p, rounds, count), ExitNode(gr, p[n])) =
                        Rounds(p, n, rounds, count)
           /\ \A x : (\A n \in 1..Len(p) : x # ExitNode(gr, p[n])) =>
                        Times(UnrollPath(gr, p, rounds, count), x) = 0
<1> DEFINE S == Nodes(gr)
           F == [a \in 1..Len(p) |-> UnrollElement(gr, p, a, rounds, count)]
           all == UnrollPath(gr, p, rounds, count)
<1>1. Len(p) \in Nat \ {0} /\ DOMAIN p = 1..Len(p)
  BY PathFacts
<1>2. all = FlattenSeq(First(F, Len(p)))
  <2>1. First(F, Len(p)) = F
    BY DEF First
  <2> QED
    BY <1>1, <2>1 DEF UnrollPath
<1>3. \A a \in 1..Len(p) : F[a] \in Seq(S)
  BY ElementType
<1>4. ASSUME NEW a \in 1..Len(p)
      PROVE  \A x : Times(F[a], x) = IF x = ExitNode(gr, p[a]) THEN Rounds(p, a, rounds, count)
                                     ELSE IF p[a].type = "ERRORLOOP" /\ x = ExitNode(gr, p[a+1])
                                     THEN 1 ELSE 0
  <2>1. F[a] = UnrollElement(gr, p, a, rounds, count)
    OBVIOUS
  <2> QED
    BY <2>1, ElementWalk
<1>5. ASSUME NEW a \in 1..Len(p), p[a].type = "ERRORLOOP"
      PROVE  a + 1 = Len(p) /\ IsPattern1(p) /\ a + 1 \in 1..Len(p)
  BY <1>5, ErrorLoopPlace
<1> HIDE DEF S, F, all
<1>6. ASSUME NEW n \in 1..Len(p), n # Len(p) \/ ~IsPattern1(p)
      PROVE  Times(all, ExitNode(gr, p[n])) = Rounds(p, n, rounds, count)
  <2> DEFINE x == ExitNode(gr, p[n])
             c == Rounds(p, n, rounds, count)
  <2>1. c \in Nat
    BY ElementWalk
  <2>2. ASSUME NEW a \in 1..Len(p), a # n PROVE Times(F[a], x) = 0
    <3>1. x # ExitNode(gr, p[a])
      BY <2>2, OneNodeEach
    <3>2. ASSUME p[a].type = "ERRORLOOP" PROVE x # ExitNode(gr, p[a+1])
      <4>1. a + 1 # n /\ a + 1 \in 1..Len(p)
        BY <1>5, <1>6, <3>2
      <4> QED
        BY <4>1, OneNodeEach
    <3> QED
      BY <1>4, <3>1, <3>2
  <2>3. Times(F[n], x) = c
    BY <1>4
  <2> HIDE DEF x, c
  <2>4. OnlyAt(S, F, Len(p), x, n, c)
    BY <1>3, <2>2, <2>3 DEF OnlyAt
  <2>5. Times(all, x) = c
    BY <1>1, <1>2, <2>1, <2>4, FlatTimes
  <2> QED
    BY <2>5 DEF x, c
<1>7. ASSUME NEW x, \A n \in 1..Len(p) : x # ExitNode(gr, p[n])
      PROVE  Times(all, x) = 0
  <2>1. ASSUME NEW a \in 1..Len(p) PROVE Times(F[a], x) = 0
    <3>1. ASSUME p[a].type = "ERRORLOOP" PROVE x # ExitNode(gr, p[a+1])
      <4>1. a + 1 \in 1..Len(p)
        BY <1>5, <3>1
      <4> QED
        BY <1>7, <4>1
    <3> QED
      BY <1>4, <1>7, <3>1
  <2> DEFINE c == 0
  <2>2. c = 0 /\ c \in Nat
    OBVIOUS
  <2> HIDE DEF c
  <2>3. 0 \notin 1..Len(p) /\ Len(p) \in Nat
    BY <1>1
  <2>4. OnlyAt(S, F, Len(p), x, 0, c)
    BY <1>3, <2>1, <2>3 DEF OnlyAt
  <2> QED
    BY <1>2, <2>2, <2>3, <2>4, FlatTimes
<1> QED
  BY <1>6, <1>7 DEF all

------------------------------------------------------------------------------
(****************************************************************************)
(* What is asked of a path of single-block loops is an execution.           *)
(****************************************************************************)
LEMMA QueryIsExecution ==
    ASSUME NEW gr \in Graphs, NEW p \in ErrPaths(gr), SingleBlocks(gr, p),
           NEW rounds \in Nat \ {0}, NEW count \in Nat \ {0}
    PROVE  LET nodes == UnrollPath(gr, p, rounds, count)
           IN  /\ IsWalk(gr, IF IsPattern1(p) THEN Front(nodes) ELSE nodes)
               /\ Last(nodes) = Last(p).idx
               /\ \A m \in DOMAIN p :
                     /\ p[m].type = "ALoop" => Times(nodes, ExitNode(gr, p[m])) = rounds
                     /\ p[m].type = "ERRORLOOP" => Times(nodes, ExitNode(gr, p[m])) = count
<1> DEFINE nodes == UnrollPath(gr, p, rounds, count)
           walk == Unrolled(gr, p, rounds, count, WalkEnd(p))
           last == <<p[Len(p)].idx>>
<1>1. Len(p) \in Nat \ {0} /\ DOMAIN p = 1..Len(p) /\ p[Len(p)].type = "ERRORNODE"
  BY PathFacts
<1>2. WalkEnd(p) \in 1..Len(p) /\ IsWalk(gr, walk) /\ Last(nodes) = Last(p).idx
  BY PathWalk
<1>3. ASSUME IsPattern1(p) PROVE Front(nodes) = walk
  <2>1. WalkEnd(p) = Len(p) - 1
    BY <1>3 DEF WalkEnd
  <2>2. UnrollElement(gr, p, Len(p), rounds, count) = last
    BY <1>1 DEF UnrollElement
  <2>3. nodes = walk \o last /\ walk \in Seq(Nodes(gr))
    <3>1. Len(p) \in 1..Len(p) /\ Len(p) - 1 \in 0..Len(p)
      BY <1>1
    <3>2. /\ nodes = Unrolled(gr, p, rounds, count, Len(p))
          /\ Unrolled(gr, p, rounds, count, Len(p) - 1) \in Seq(Nodes(gr))
      BY <3>1, UnrolledGrows
    <3>3. Unrolled(gr, p, rounds, count, Len(p)) =
             Unrolled(gr, p, rounds, count, Len(p) - 1) \o UnrollElement(gr, p, Len(p), rounds, count)
      BY <3>1, UnrolledStep
    <3> QED
      BY <2>1, <2>2, <3>2, <3>3
  <2>4. last \in Seq(Nodes(gr)) /\ Len(last) = 1
    <3>1. p[Len(p)].idx \in Nodes(gr)
      <4>1. Len(p) \in 1..Len(p)
        BY <1>1
      <4> QED
        BY <1>1, <4>1, PathFacts
    <3> QED
      BY <3>1
  <2> HIDE DEF nodes, walk, last
  <2>5. /\ Len(nodes) = Len(walk) + 1 /\ Len(walk) \in Nat
        /\ \A a \in 1..Len(walk) : nodes[a] = walk[a]
    <3>1. Len(walk) \in Nat
      BY <2>3, LenProperties
    <3>2. /\ Len(walk \o last) = Len(walk) + Len(last)
          /\ \A a \in 1..Len(walk) + Len(last) :
                (walk \o last)[a] = IF a <= Len(walk) THEN walk[a] ELSE last[a - Len(walk)]
      BY ONLY <2>3, <2>4, ConcatProperties
    <3>3. \A a \in 1..Len(walk) : a \in 1..Len(walk) + Len(last) /\ a <= Len(walk)
      BY ONLY <2>4, <3>1
    <3> QED
      BY <2>3, <2>4, <3>1, <3>2, <3>3
  <2>6. Front(nodes) = SubSeq(nodes, 1, Len(walk))
    BY <2>5 DEF Front
  <2>7. /\ SubSeq(nodes, 1, Len(walk)) \in Seq(Nodes(gr))
        /\ Len(SubSeq(nodes, 1, Len(walk))) = Len(walk)
        /\ \A a \in 1..Len(walk) : SubSeq(nodes, 1, Len(walk))[a] = walk[a]
    <3>1. Len(walk) \in Int /\ 1 \in Int /\ \A a \in 1..Len(walk) : nodes[a] \in Nodes(gr)
      BY <2>3, <2>5, ElementOfSeq
    <3> DEFINE s == SubSeq(nodes, 1, Len(walk))
    <3>2. /\ s \in Seq(Nodes(gr))
          /\ Len(s) = IF 1 <= Len(walk) THEN (Len(walk) - 1) + 1 ELSE 0
          /\ \A a \in 1..(Len(walk) - 1) + 1 : s[a] = nodes[(1 + a) - 1]
      BY <3>1, SubSeqProperties
    <3> HIDE DEF s
    <3>3. Len(s) = Len(walk) /\ \A a \in 1..Len(walk) : s[a] = walk[a]
      BY <2>5, <3>2
    <3> QED
      BY <3>2, <3>3 DEF s
  <2> QED
    BY <2>3, <2>6, <2>7, SeqEqual
<1>4. ASSUME ~IsPattern1(p) PROVE nodes = walk
  <2>1. WalkEnd(p) = Len(p)
    BY <1>4 DEF WalkEnd
  <2> QED
    BY <2>1, UnrolledGrows
<1>5. ASSUME NEW m \in DOMAIN p, p[m].type \in {"ALoop", "ERRORLOOP"}
      PROVE  Times(nodes, ExitNode(gr, p[m])) = Rounds(p, m, rounds, count)
  <2>1. m # Len(p) /\ m \in 1..Len(p)
    BY <1>1, <1>5
  <2> QED
    BY <2>1, PathTimes
<1>6. ASSUME NEW m \in DOMAIN p
      PROVE  /\ p[m].type = "ALoop" => Times(nodes, ExitNode(gr, p[m])) = rounds
             /\ p[m].type = "ERRORLOOP" => Times(nodes, ExitNode(gr, p[m])) = count
  BY <1>5 DEF Rounds
<1> HIDE DEF nodes, walk
<1>7. IsWalk(gr, IF IsPattern1(p) THEN Front(nodes) ELSE nodes)
  BY <1>2, <1>3, <1>4
<1> QED
  BY <1>2, <1>6, <1>7 DEF nodes

LEMMA BaseInvIsExecution == BaseInv => QueriesAreExecutions
<1> SUFFICES ASSUME BaseInv, SingleBlockLoops,
                    NEW n \in DOMAIN queries
             PROVE  LET q == queries[n]
                        walk == IF IsPattern1(path) THEN Front(q.nodes) ELSE q.nodes
                    IN  /\ IsWalk(g, walk)
                        /\ Last(q.nodes) = Last(path).idx
                        /\ \A m \in DOMAIN path :
                              /\ path[m].type = "ALoop" => Times(q.nodes, ExitNode(g, path[m])) = k
                              /\ path[m].type = "ERRORLOOP" => Times(q.nodes, ExitNode(g, path[m])) = q.count
  BY DEF QueriesAreExecutions
<1>1. BaseControl /\ QueriesAsked
  BY DEF BaseInv
<1>2. g \in Graphs /\ path \in ErrPaths(g) /\ k \in Nat \ {0}
  BY <1>1, BaseFacts
<1>3. SingleBlocks(g, path)
  BY DEF SingleBlockLoops, SingleBlocks, IsLoop
<1>4. DOMAIN queries = 1..Len(queries) /\ n \in Nat \ {0}
  <2>1. DOMAIN queries = 1..Len(queries) /\ Len(queries) \in Nat
    BY <1>1, LenProperties DEF QueriesAsked
  <2> QED
    BY <2>1
<1>5. queries[n] = [nodes |-> UnrollPath(g, path, k, n), count |-> n]
  BY <1>1, <1>4 DEF QueriesAsked
<1>6. queries[n].nodes = UnrollPath(g, path, k, n) /\ queries[n].count = n
  BY <1>5
<1> DEFINE nodes == UnrollPath(g, path, k, n)
<1>7. /\ IsWalk(g, IF IsPattern1(path) THEN Front(nodes) ELSE nodes)
      /\ Last(nodes) = Last(path).idx
      /\ \A m \in DOMAIN path :
            /\ path[m].type = "ALoop" => Times(nodes, ExitNode(g, path[m])) = k
            /\ path[m].type = "ERRORLOOP" => Times(nodes, ExitNode(g, path[m])) = n
  BY <1>2, <1>3, <1>4, QueryIsExecution
<1>8. queries[n].nodes = nodes
  BY <1>6
<1> HIDE DEF nodes
<1> QED
  BY <1>6, <1>7, <1>8

(****************************************************************************)
(* Without an error loop all rounds of the base case ask the same.          *)
(****************************************************************************)
LEMMA CountDoesNotMatter ==
    ASSUME NEW gr \in Graphs, NEW p \in ErrPaths(gr), ~IsPattern1(p), NEW rounds, NEW c, NEW d
    PROVE  UnrollPath(gr, p, rounds, c) = UnrollPath(gr, p, rounds, d)
<1>1. DOMAIN p = 1..Len(p)
  BY PathFacts
<1>2. ASSUME NEW n \in DOMAIN p
      PROVE  UnrollElement(gr, p, n, rounds, c) = UnrollElement(gr, p, n, rounds, d)
  <2>1. p[n].type \in {"ALoop", "ANode", "ERRORNODE"}
    BY <1>1, NoErrorLoop, PathFacts
  <2> QED
    BY <2>1 DEF UnrollElement
<1>3. [n \in DOMAIN p |-> UnrollElement(gr, p, n, rounds, c)]
        = [n \in DOMAIN p |-> UnrollElement(gr, p, n, rounds, d)]
  BY <1>2
<1> QED
  BY <1>3 DEF UnrollPath

(****************************************************************************)
(* A round more of each loop, and no other node more often.                 *)
(****************************************************************************)
LEMMA MoreTimes ==
    ASSUME NEW gr \in Graphs, NEW p \in ErrPaths(gr), SingleBlocks(gr, p), ~IsPattern1(p),
           NEW rounds \in Nat \ {0}, NEW x \in Nodes(gr)
    PROVE  Times(UnrollPath(gr, p, rounds + 1, 1), x) - Times(UnrollPath(gr, p, rounds, 1), x) =
              Cardinality({m \in DOMAIN p : p[m].type = "ALoop" /\ ExitNode(gr, p[m]) = x})
<1> DEFINE loops == {m \in DOMAIN p : p[m].type = "ALoop" /\ ExitNode(gr, p[m]) = x}
           few == Times(UnrollPath(gr, p, rounds, 1), x)
           more == Times(UnrollPath(gr, p, rounds + 1, 1), x)
<1>1. DOMAIN p = 1..Len(p) /\ 1 \in Nat \ {0} /\ rounds + 1 \in Nat \ {0}
  BY PathFacts
<1>2. CASE \E n \in 1..Len(p) : x = ExitNode(gr, p[n])
  <2>1. PICK n \in 1..Len(p) : x = ExitNode(gr, p[n])
    BY <1>2
  <2>2. few = Rounds(p, n, rounds, 1) /\ more = Rounds(p, n, rounds + 1, 1)
    BY <1>1, <2>1, PathTimes
  <2>3. p[n].type # "ERRORLOOP"
    BY NoErrorLoop
  <2>4. CASE p[n].type = "ALoop"
    <3>1. loops = {n}
      BY <1>1, <2>1, <2>4, OneNodeEach
    <3>2. Cardinality({n}) = 1
      BY FS_Singleton
    <3>3. few = rounds /\ more = rounds + 1
      BY <2>2, <2>4 DEF Rounds
    <3> HIDE DEF loops, few, more
    <3>4. Cardinality(loops) = 1 /\ more - few = 1
      BY <3>1, <3>2, <3>3
    <3> QED
      BY <3>4 DEF loops, few, more
  <2>5. CASE p[n].type # "ALoop"
    <3>1. loops = {}
      BY <1>1, <2>1, <2>5, OneNodeEach
    <3>2. few = 1 /\ more = 1
      BY <2>2, <2>3, <2>5 DEF Rounds
    <3> HIDE DEF loops, few, more
    <3>3. Cardinality(loops) = 0 /\ more - few = 0
      BY <3>1, <3>2, FS_EmptySet
    <3> QED
      BY <3>3 DEF loops, few, more
  <2> QED
    BY <2>4, <2>5
<1>3. CASE ~ \E n \in 1..Len(p) : x = ExitNode(gr, p[n])
  <2>1. loops = {}
    BY <1>1, <1>3
  <2>2. few = 0 /\ more = 0
    BY <1>1, <1>3, PathTimes
  <2> HIDE DEF loops, few, more
  <2>3. Cardinality(loops) = 0 /\ more - few = 0
    BY <2>1, <2>2, FS_EmptySet
  <2> QED
    BY <2>3 DEF loops, few, more
<1> QED
  BY <1>2, <1>3

LEMMA StepInvIsOneMoreRound == StepInv => OneMoreRound
<1> SUFFICES ASSUME StepInv,
                    step \in {"encodeBase", "encodeInduction", "askBase", "askInduction", "passed"}
             PROVE  /\ \A n \in DOMAIN queries : stepNodeIdx = queries[n].nodes
                    /\ SingleBlockLoops =>
                          /\ IsWalk(g, inductiveNodeIdx)
                          /\ Last(inductiveNodeIdx) = Last(path).idx
                          /\ \A n \in DOMAIN g.CFGNodeVec :
                                Times(inductiveNodeIdx, n) - Times(stepNodeIdx, n) =
                                    Cardinality({m \in DOMAIN path :
                                        path[m].type = "ALoop" /\ ExitNode(g, path[m]) = n})
  BY DEF OneMoreRound
<1>1. BaseControl /\ QueriesAsked /\ StepControl /\ StepUnrolling
  BY DEF StepInv, BaseInv
<1>2. /\ g \in Graphs /\ path \in ErrPaths(g) /\ k \in Nat \ {0} /\ k + 1 \in Nat \ {0}
      /\ Len(path) \in Nat \ {0} /\ 1 \in Nat \ {0}
  BY <1>1, BaseFacts
<1>3. ~IsPattern1(path)
  BY <1>1 DEF StepControl
<1>4. /\ stepNodeIdx = UnrollPath(g, path, k, 1)
      /\ inductiveNodeIdx = UnrollPath(g, path, k + 1, 1)
  BY <1>1 DEF StepUnrolling, Complete
<1>5. ASSUME NEW n \in DOMAIN queries PROVE stepNodeIdx = queries[n].nodes
  <2>1. DOMAIN queries = 1..Len(queries)
    BY <1>1, LenProperties DEF QueriesAsked
  <2>2. queries[n] = [nodes |-> UnrollPath(g, path, k, n), count |-> n]
    BY <1>1, <2>1 DEF QueriesAsked
  <2>3. queries[n].nodes = UnrollPath(g, path, k, n)
    BY <2>2
  <2>4. UnrollPath(g, path, k, 1) = UnrollPath(g, path, k, n)
    BY <1>2, <1>3, CountDoesNotMatter
  <2> QED
    BY <1>4, <2>3, <2>4
<1>6. ASSUME SingleBlockLoops
      PROVE  /\ IsWalk(g, inductiveNodeIdx)
             /\ Last(inductiveNodeIdx) = Last(path).idx
             /\ \A n \in DOMAIN g.CFGNodeVec :
                   Times(inductiveNodeIdx, n) - Times(stepNodeIdx, n) =
                       Cardinality({m \in DOMAIN path :
                           path[m].type = "ALoop" /\ ExitNode(g, path[m]) = n})
  <2>1. SingleBlocks(g, path)
    BY <1>6 DEF SingleBlockLoops, SingleBlocks, IsLoop
  <2>2. IsWalk(g, inductiveNodeIdx)
    <3>1. IsWalk(g, Unrolled(g, path, k + 1, 1, WalkEnd(path)))
      BY <1>2, <2>1, PathWalk
    <3>2. WalkEnd(path) = Len(path)
      BY <1>3 DEF WalkEnd
    <3>3. UnrollPath(g, path, k + 1, 1) = Unrolled(g, path, k + 1, 1, Len(path))
      BY <1>2, UnrolledGrows
    <3> QED
      BY <1>4, <3>1, <3>2, <3>3
  <2>3. Last(inductiveNodeIdx) = Last(path).idx
    BY <1>2, <1>4, <2>1, PathWalk
  <2>4. ASSUME NEW n \in DOMAIN g.CFGNodeVec
        PROVE  Times(inductiveNodeIdx, n) - Times(stepNodeIdx, n) =
                   Cardinality({m \in DOMAIN path :
                       path[m].type = "ALoop" /\ ExitNode(g, path[m]) = n})
    BY <1>2, <1>3, <1>4, <2>1, MoreTimes DEF Nodes
  <2> QED
    BY <2>2, <2>3, <2>4
<1> QED
  BY <1>5, <1>6

(****************************************************************************)
(* When the loops are single blocks, the queries of baseCase are executions *)
(* that run each loop k times, and the error loop as often as the round     *)
(* says.                                                                    *)
(****************************************************************************)
THEOREM QueriesExecute == StepSpec => []QueriesAreExecutions
<1>1. StepInv => QueriesAreExecutions
  BY BaseInvIsExecution DEF StepInv
<1> QED
  BY <1>1, StepInvariance, PTL

(****************************************************************************)
(* inductiveStep asks first what every round of baseCase has refuted, and   *)
(* then, when the loops are single blocks, for an execution that runs each  *)
(* of them exactly once more and no other block more often.                 *)
(****************************************************************************)
THEOREM StepAddsRound == StepSpec => []OneMoreRound
<1>1. StepInv => OneMoreRound
  BY StepInvIsOneMoreRound
<1> QED
  BY <1>1, StepInvariance, PTL
==============================================================================
