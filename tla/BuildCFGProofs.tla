---------------------------- MODULE BuildCFGProofs ----------------------------
(****************************************************************************)
(* What the walk of buildCFG keeps true, for every set of blocks and every  *)
(* program, and that it implements Explore.                                 *)
(****************************************************************************)
EXTENDS BuildCFG, TLAPS, SequenceTheorems, WellFoundedInduction

(****************************************************************************)
(* Lemmas about the lookups.  A set of positions has a greatest element, so *)
(* LoopIndex is one of them.                                                *)
(****************************************************************************)
LEMMA SmallestElement ==
    ASSUME NEW T \in SUBSET Nat, T # {}
    PROVE  \E x \in T : \A y \in T : x <= y
<1> DEFINE R == OpToRel(<, Nat)
<1>1. IsWellFoundedOn(R, Nat)
  BY NatLessThanWellFounded
<1> HIDE DEF R
<1>2. PICK x \in T : \A y \in T : ~ (<<y, x>> \in R)
  BY <1>1, WFMin
<1>3. \A y \in T : <<y, x>> \in R <=> y < x
  BY DEF R, OpToRel
<1>4. \A y \in T : ~ (y < x)
  BY <1>2, <1>3
<1>5. \A y \in T : x <= y
  BY <1>4
<1> QED
  BY <1>5

(****************************************************************************)
(* The largest element of a set of positions is one of them.                *)
(****************************************************************************)
LEMMA MaxIsElement ==
    ASSUME NEW n \in Nat, NEW S \in SUBSET (1..n), S # {}
    PROVE  Max(S) \in S /\ \A s \in S : s <= Max(S)
<1> DEFINE T == {x \in Nat : \E s \in S : x = n - s}
<1>1. T \in SUBSET Nat /\ T # {}
  <2>1. PICK s \in S : TRUE
    OBVIOUS
  <2>2. n - s \in T
    BY <2>1
  <2> QED
    BY <2>2
<1>2. PICK x \in T : \A y \in T : x <= y
  BY <1>1, SmallestElement
<1>3. PICK m \in S : x = n - m
  OBVIOUS
<1>4. \A s \in S : m >= s
  BY <1>2, <1>3
<1> QED
  BY <1>4 DEF Max

(****************************************************************************)
(* The loop index of a block is a position among the loops, or NoIndex when *)
(* no loop has the block.                                                   *)
(****************************************************************************)
LEMMA LoopIndexType ==
    ASSUME NEW p \in Program, NEW bb \in Block
    PROVE  /\ LoopIndex(p, bb) \in Nat
           /\ LoopsOf(p, bb) = {} => LoopIndex(p, bb) = NoIndex
           /\ LoopsOf(p, bb) # {} =>
                 /\ LoopIndex(p, bb) \in LoopsOf(p, bb)
                 /\ LoopIndex(p, bb) # NoIndex
                 /\ \A l \in LoopsOf(p, bb) : l <= LoopIndex(p, bb)
<1>1. p.LCSSAs \in Seq(LCSSA)
  BY DEF Program
<1>2. LoopsOf(p, bb) \in SUBSET (1..Len(p.LCSSAs)) /\ Len(p.LCSSAs) \in Nat
  BY <1>1, LenProperties DEF LoopsOf
<1>3. LoopsOf(p, bb) # {} =>
         /\ Max(LoopsOf(p, bb)) \in LoopsOf(p, bb)
         /\ \A l \in LoopsOf(p, bb) : l <= Max(LoopsOf(p, bb))
  BY <1>2, MaxIsElement
<1> QED
  BY <1>2, <1>3 DEF LoopIndex, NoIndex

(****************************************************************************)
(* No two positions of a vector hold the same block.                        *)
(****************************************************************************)
Distinct(vec) == \A i, j \in DOMAIN vec : vec[i].bb = vec[j].bb => i = j

(****************************************************************************)
(* Looking up a block by its node's position gives the position back.       *)
(****************************************************************************)
LEMMA IndexByBBInverse ==
    ASSUME NEW vec \in Seq(CFGNodes), Distinct(vec), NEW n \in DOMAIN vec
    PROVE  IndexByBB(vec, vec[n].bb) = n
<1> DEFINE I == {i \in 1..Len(vec) : vec[i].bb = vec[n].bb}
<1>1. IndexByBB(vec, vec[n].bb) = IF I # {} THEN Min(I) ELSE 0
  BY DEF IndexByBB, SelectInSeq
<1>2. I = {n}
  BY LenProperties DEF Distinct
<1>3. Min({n}) = n
  BY LenProperties DEF Min
<1> QED
  BY <1>1, <1>2, <1>3

(****************************************************************************)
(* The elements of a node vector are nodes.                                 *)
(****************************************************************************)
LEMMA VectorElement ==
    ASSUME NEW vec \in Seq(CFGNodes), NEW n \in DOMAIN vec
    PROVE  /\ vec[n] \in CFGNodes
           /\ vec[n].bb \in Block
           /\ vec[n].childs \in Seq(Nat)
<1>1. vec[n] \in CFGNodes
  BY ElementOfSeq, LenProperties
<1> QED
  BY <1>1 DEF CFGNodes

(****************************************************************************)
(* A fresh node is a node.                                                  *)
(****************************************************************************)
LEMMA CFGNodeType == ASSUME NEW bb \in Block PROVE CFGNode(bb) \in CFGNodes
BY EmptySeq DEF CFGNode, CFGNodes, NoIndex

(****************************************************************************)
(* FindOrAdd keeps what is there, adds at most a blank node at the end, and *)
(* leaves a vector in which the block is found.                             *)
(****************************************************************************)
LEMMA FindOrAddProperties ==
    ASSUME NEW vec \in Seq(CFGNodes), Distinct(vec), NEW bb \in Block,
           NEW new, new = FindOrAdd(vec, bb)
    PROVE  /\ new \in Seq(CFGNodes)
           /\ Distinct(new)
           /\ Len(vec) <= Len(new)
           /\ \A i \in DOMAIN vec : i \in DOMAIN new /\ new[i] = vec[i]
           /\ \A i \in DOMAIN new \ DOMAIN vec : new[i] = CFGNode(bb)
           /\ IndexByBB(new, bb) \in DOMAIN new
           /\ new[IndexByBB(new, bb)].bb = bb
<1>1. CFGNode(bb) \in CFGNodes /\ CFGNode(bb).bb = bb
  BY CFGNodeType DEF CFGNode
<1>2. CASE bb \in BBs(vec)
  <2>1. new = vec
    BY <1>2 DEF FindOrAdd
  <2>2. PICK n \in DOMAIN vec : vec[n].bb = bb
    BY <1>2 DEF BBs
  <2>3. IndexByBB(vec, bb) = n
    BY <2>2, IndexByBBInverse
  <2> QED
    BY <2>1, <2>2, <2>3, LenProperties
<1>3. CASE bb \notin BBs(vec)
  <2>1. new = Append(vec, CFGNode(bb))
    BY <1>3 DEF FindOrAdd
  <2>2. /\ new \in Seq(CFGNodes)
        /\ Len(new) = Len(vec) + 1
        /\ \A i \in 1..Len(vec) : new[i] = vec[i]
        /\ new[Len(vec)+1] = CFGNode(bb)
    BY <1>1, <2>1, AppendProperties
  <2>3. Len(vec) \in Nat /\ DOMAIN vec = 1..Len(vec) /\ DOMAIN new = 1..Len(vec)+1
    BY <2>2, LenProperties
  <2>4. Distinct(new)
    BY <1>1, <1>3, <2>2, <2>3 DEF Distinct, BBs
  <2>5. IndexByBB(new, bb) = Len(vec) + 1
    BY <1>1, <2>2, <2>3, <2>4, IndexByBBInverse
  <2> QED
    BY <1>1, <2>2, <2>3, <2>4, <2>5
<1> QED
  BY <1>2, <1>3

------------------------------------------------------------------------------
(****************************************************************************)
(* The blocks that the walk has reason to visit once those of S are visited.*)
(****************************************************************************)
Noted(p, S) == {p.entry} \cup UNION {ToSet(p.succ[b]) : b \in S}

(****************************************************************************)
(* What the invariants of BuildCFG need to be inductive: who is in the      *)
(* queue, who is visited, and where the node in progress comes from.        *)
(****************************************************************************)
QueueNoted == ToSet(q) \subseteq Noted(prog, visit)

VisitedHaveNodes == visit \subseteq BBs(CFGNodeVec)

EntryFirst ==
    IF CFGNodeVec = << >> THEN pc = "pop" /\ q = <<prog.entry>>
    ELSE CFGNodeVec[1].bb = prog.entry

ParentInProgress ==
    pc = "succ" =>
        LET bb == CFGNodeVec[parent].bb
        IN  bb \in visit /\ bb \in Noted(prog, visit \ {bb}) /\ succIdx <= Len(Succs) + 1

NodesReachable == BBs(CFGNodeVec) \subseteq Reachable(prog)

DoneIsEmpty == pc = "done" => q = << >>

Inv ==
    /\ TypeOK
    /\ OneNodePerBlock
    /\ UnvisitedAreQueued
    /\ ChildsMirrorSuccs
    /\ QueueNoted
    /\ VisitedHaveNodes
    /\ EntryFirst
    /\ ParentInProgress
    /\ NodesReachable
    /\ DoneIsEmpty

(****************************************************************************)
(* The invariant holds before the walk.                                     *)
(****************************************************************************)
LEMMA InitInv == Init => Inv
<1> SUFFICES ASSUME Init PROVE Inv
  OBVIOUS
<1>1. prog \in Program /\ prog.entry \in Block
  BY ProgramsAssumption DEF Init, Program
<1>2. TypeOK
  BY <1>1, EmptySeq DEF Init, TypeOK, NoIndex
<1>3. CFGNodeVec = << >> /\ q = <<prog.entry>> /\ visit = {} /\ pc = "pop"
  BY DEF Init
<1>4. DOMAIN CFGNodeVec = {} /\ BBs(CFGNodeVec) = {}
  BY <1>3 DEF BBs
<1>5. ToSet(q) = {prog.entry}
  BY <1>3 DEF ToSet
<1> QED
  BY <1>2, <1>3, <1>4, <1>5
  DEF Inv, OneNodePerBlock, UnvisitedAreQueued, ChildsMirrorSuccs, QueueNoted, Noted,
      VisitedHaveNodes, EntryFirst, ParentInProgress, NodesReachable, DoneIsEmpty

(****************************************************************************)
(* Successors are blocks, and what is reachable is closed under them.       *)
(****************************************************************************)
LEMMA SuccType ==
    ASSUME NEW p \in Program, NEW b \in Block
    PROVE  /\ p.succ[b] \in Seq(Block)
           /\ Len(p.succ[b]) \in Nat
           /\ \A n \in 1..Len(p.succ[b]) : p.succ[b][n] \in Block
           /\ ToSet(p.succ[b]) = {p.succ[b][n] : n \in 1..Len(p.succ[b])}
           /\ \A c \in ToSet(p.succ[b]) : c \in Block
<1>1. p.succ[b] \in Seq(Block)
  BY DEF Program
<1>2. \A n \in 1..Len(p.succ[b]) : p.succ[b][n] \in Block
  BY <1>1, ElementOfSeq
<1>3. DOMAIN p.succ[b] = 1..Len(p.succ[b]) /\ Len(p.succ[b]) \in Nat
  BY <1>1, LenProperties
<1> QED
  BY <1>1, <1>2, <1>3 DEF ToSet

(****************************************************************************)
(* The successors of a reachable block are reachable.                       *)
(****************************************************************************)
LEMMA ReachableClosed ==
    ASSUME NEW p \in Program
    PROVE  /\ p.entry \in Reachable(p)
           /\ \A b \in Reachable(p) : ToSet(p.succ[b]) \subseteq Reachable(p)
<1>1. p.entry \in Block
  BY DEF Program
<1>2. ASSUME NEW b \in Reachable(p), NEW c \in ToSet(p.succ[b]) PROVE c \in Reachable(p)
  <2>1. b \in Block
    BY DEF Reachable
  <2>2. c \in Block
    BY <2>1, SuccType
  <2>3. ASSUME NEW S \in SUBSET Block, p.entry \in S, SuccClosed(p, S) PROVE c \in S
    BY <2>3 DEF Reachable, SuccClosed
  <2> QED
    BY <2>2, <2>3 DEF Reachable
<1> QED
  BY <1>1, <1>2 DEF Reachable

------------------------------------------------------------------------------
(****************************************************************************)
(* A block leaves the queue for the first time: its node was blank or is    *)
(* new, and its loop fields are all that changes in the vector.             *)
(****************************************************************************)
LEMMA PopFreshEffect ==
    ASSUME Inv, PopFresh
    PROVE  /\ CFGNodeVec' \in Seq(CFGNodes)
           /\ Distinct(CFGNodeVec')
           /\ Head(q) \in Block /\ Head(q) \in Noted(prog, visit)
           /\ Len(CFGNodeVec) <= Len(CFGNodeVec')
           /\ \A i \in DOMAIN CFGNodeVec :
                  /\ i \in DOMAIN CFGNodeVec'
                  /\ CFGNodeVec'[i].bb = CFGNodeVec[i].bb
                  /\ CFGNodeVec'[i].childs = CFGNodeVec[i].childs
                  /\ i # parent' => CFGNodeVec'[i] = CFGNodeVec[i]
           /\ \A i \in DOMAIN CFGNodeVec' \ DOMAIN CFGNodeVec : i = parent'
           /\ parent' \in DOMAIN CFGNodeVec'
           /\ CFGNodeVec'[parent'].bb = Head(q)
           /\ CFGNodeVec'[parent'].childs = << >>
           /\ CFGNodeVec'[parent'].isLoopNode = (LoopsOf(prog, Head(q)) # {})
           /\ CFGNodeVec'[parent'].LCSSAIndex = LoopIndex(prog, Head(q))
<1> DEFINE bb == Head(q)
           vec == FindOrAdd(CFGNodeVec, bb)
           i0 == IndexByBB(vec, bb)
<1>1. prog \in Program /\ q \in Seq(Block) /\ q # << >> /\ bb \notin visit
  BY DEF Inv, TypeOK, PopFresh
<1>2. bb \in Block /\ bb \in ToSet(q)
  BY <1>1, HeadTailProperties, LenProperties, EmptySeq DEF ToSet
<1>3. bb \in Noted(prog, visit)
  BY <1>2 DEF Inv, QueueNoted
<1>4. CFGNodeVec \in Seq(CFGNodes) /\ Distinct(CFGNodeVec)
  BY DEF Inv, TypeOK, OneNodePerBlock, Distinct
<1>5. /\ vec \in Seq(CFGNodes)
      /\ Distinct(vec)
      /\ Len(CFGNodeVec) <= Len(vec)
      /\ \A i \in DOMAIN CFGNodeVec : i \in DOMAIN vec /\ vec[i] = CFGNodeVec[i]
      /\ \A i \in DOMAIN vec \ DOMAIN CFGNodeVec : vec[i] = CFGNode(bb)
      /\ i0 \in DOMAIN vec
      /\ vec[i0].bb = bb
  BY <1>2, <1>4, FindOrAddProperties
<1>6. vec[i0].childs = << >>
  <2>1. CASE i0 \in DOMAIN CFGNodeVec
    BY <1>1, <1>5, <2>1 DEF Inv, UnvisitedAreQueued, CFGNode
  <2>2. CASE i0 \notin DOMAIN CFGNodeVec
    BY <1>5, <2>2 DEF CFGNode
  <2> QED
    BY <2>1, <2>2
<1>7. LoopIndex(prog, bb) \in Nat
  BY <1>1, <1>2, LoopIndexType
<1> DEFINE n0 == [vec[i0] EXCEPT !.isLoopNode = LoopsOf(prog, bb) # {},
                                 !.LCSSAIndex = LoopIndex(prog, bb)]
<1>8. parent' = i0 /\ CFGNodeVec' = [vec EXCEPT ![i0] = n0]
  <2>1. CFGNodeVec' = [vec EXCEPT ![i0].isLoopNode = LoopsOf(prog, bb) # {},
                                  ![i0].LCSSAIndex = LoopIndex(prog, bb)]
    BY DEF PopFresh
  <2> HIDE DEF vec, i0
  <2> QED
    BY <1>5, <2>1, LenProperties DEF PopFresh, vec, i0
<1> HIDE DEF vec, i0, bb
<1>9. vec[i0] \in CFGNodes
  BY <1>5, ElementOfSeq, LenProperties
<1>10. /\ n0 \in CFGNodes /\ n0.bb = vec[i0].bb /\ n0.childs = vec[i0].childs
       /\ n0.isLoopNode = (LoopsOf(prog, bb) # {}) /\ n0.LCSSAIndex = LoopIndex(prog, bb)
  BY <1>7, <1>9 DEF CFGNodes
<1> HIDE DEF n0
<1>11. DOMAIN vec = 1..Len(vec)
  BY <1>5, LenProperties
<1>12. /\ CFGNodeVec' \in Seq(CFGNodes)
       /\ Len(CFGNodeVec') = Len(vec)
       /\ DOMAIN CFGNodeVec' = DOMAIN vec
       /\ \A j \in DOMAIN vec : CFGNodeVec'[j] = IF j = i0 THEN n0 ELSE vec[j]
  BY <1>5, <1>8, <1>10, <1>11, ExceptSeq, LenProperties
<1>13. Distinct(CFGNodeVec')
  BY <1>5, <1>10, <1>12 DEF Distinct
<1>14. \A i \in DOMAIN vec \ DOMAIN CFGNodeVec : i = i0
  BY <1>5 DEF Distinct, CFGNode
<1> QED
  BY <1>2, <1>3, <1>5, <1>6, <1>8, <1>10, <1>12, <1>13, <1>14 DEF bb

(****************************************************************************)
(* A successor is added: its node is found or new, and the one other change *)
(* is the child of the node in progress, which names it.                    *)
(****************************************************************************)
LEMMA AddChildEffect ==
    ASSUME Inv, AddChild
    PROVE  LET succBB == Succs[succIdx]
           IN  /\ succBB \in Block /\ succBB \in ToSet(Succs)
               /\ CFGNodeVec' \in Seq(CFGNodes)
               /\ Distinct(CFGNodeVec')
               /\ Len(CFGNodeVec) <= Len(CFGNodeVec')
               /\ \A i \in DOMAIN CFGNodeVec :
                      /\ i \in DOMAIN CFGNodeVec'
                      /\ CFGNodeVec'[i].bb = CFGNodeVec[i].bb
                      /\ i # parent => CFGNodeVec'[i] = CFGNodeVec[i]
               /\ \A i \in DOMAIN CFGNodeVec' \ DOMAIN CFGNodeVec :
                      CFGNodeVec'[i] = CFGNode(succBB)
               /\ \E c \in DOMAIN CFGNodeVec' :
                      /\ CFGNodeVec'[c].bb = succBB
                      /\ CFGNodeVec'[parent].childs = Append(CFGNodeVec[parent].childs, c)
               /\ CFGNodeVec'[parent].isLoopNode = CFGNodeVec[parent].isLoopNode
               /\ CFGNodeVec'[parent].LCSSAIndex = CFGNodeVec[parent].LCSSAIndex
<1> DEFINE succBB == Succs[succIdx]
           vec == FindOrAdd(CFGNodeVec, succBB)
           c == IndexByBB(vec, succBB)
<1>1. /\ prog \in Program /\ parent \in DOMAIN CFGNodeVec
      /\ succIdx \in 1..Len(Succs) /\ CFGNodeVec[parent].bb \in Block
  <2>1. prog \in Program /\ parent \in DOMAIN CFGNodeVec /\ succIdx \in Nat \ {0}
    BY DEF Inv, TypeOK, AddChild
  <2>3. CFGNodeVec[parent].bb \in Block
    BY <2>1, VectorElement DEF Inv, TypeOK
  <2>4. Len(Succs) \in Nat
    BY <2>1, <2>3, SuccType DEF Succs
  <2> QED
    BY <2>1, <2>3, <2>4 DEF AddChild
<1>2. succBB \in Block /\ succBB \in ToSet(Succs)
  BY <1>1, SuccType DEF Succs
<1>3. CFGNodeVec \in Seq(CFGNodes) /\ Distinct(CFGNodeVec)
  BY DEF Inv, TypeOK, OneNodePerBlock, Distinct
<1>4. /\ vec \in Seq(CFGNodes)
      /\ Distinct(vec)
      /\ Len(CFGNodeVec) <= Len(vec)
      /\ \A i \in DOMAIN CFGNodeVec : i \in DOMAIN vec /\ vec[i] = CFGNodeVec[i]
      /\ \A i \in DOMAIN vec \ DOMAIN CFGNodeVec : vec[i] = CFGNode(succBB)
      /\ c \in DOMAIN vec
      /\ vec[c].bb = succBB
  BY <1>2, <1>3, FindOrAddProperties
<1> DEFINE n0 == [vec[parent] EXCEPT !.childs = Append(vec[parent].childs, c)]
<1>5. CFGNodeVec' = [vec EXCEPT ![parent] = n0]
  <2>1. CFGNodeVec' = [vec EXCEPT ![parent].childs = Append(@, c)]
    BY DEF AddChild
  <2> HIDE DEF vec, c
  <2> QED
    BY <2>1
<1> HIDE DEF vec, c, succBB
<1>6. parent \in DOMAIN vec /\ DOMAIN vec = 1..Len(vec) /\ Len(vec) \in Nat
  BY <1>1, <1>4, LenProperties
<1>7. vec[parent] \in CFGNodes
  BY <1>4, <1>6, ElementOfSeq
<1>8. Append(vec[parent].childs, c) \in Seq(Nat)
  BY <1>4, <1>6, <1>7, AppendProperties DEF CFGNodes
<1>9. /\ n0 \in CFGNodes /\ n0.bb = vec[parent].bb
      /\ n0.childs = Append(vec[parent].childs, c)
      /\ n0.isLoopNode = vec[parent].isLoopNode /\ n0.LCSSAIndex = vec[parent].LCSSAIndex
  BY <1>7, <1>8 DEF CFGNodes
<1> HIDE DEF n0
<1>10. /\ CFGNodeVec' \in Seq(CFGNodes)
       /\ Len(CFGNodeVec') = Len(vec)
       /\ DOMAIN CFGNodeVec' = DOMAIN vec
       /\ \A j \in DOMAIN vec : CFGNodeVec'[j] = IF j = parent THEN n0 ELSE vec[j]
  BY <1>4, <1>5, <1>6, <1>9, ExceptSeq, LenProperties
<1>11. Distinct(CFGNodeVec')
  BY <1>4, <1>9, <1>10 DEF Distinct
<1>12. CFGNodeVec'[c].bb = succBB
  BY <1>4, <1>9, <1>10
<1>13. CFGNodeVec'[parent].childs = Append(CFGNodeVec[parent].childs, c)
  BY <1>1, <1>4, <1>6, <1>9, <1>10
<1>14. /\ CFGNodeVec'[parent].isLoopNode = CFGNodeVec[parent].isLoopNode
       /\ CFGNodeVec'[parent].LCSSAIndex = CFGNodeVec[parent].LCSSAIndex
  BY <1>1, <1>4, <1>6, <1>9, <1>10
<1> QED
  BY <1>1, <1>2, <1>4, <1>9, <1>10, <1>11, <1>12, <1>13, <1>14 DEF succBB

------------------------------------------------------------------------------
(****************************************************************************)
(* Each action keeps the invariant.                                         *)
(****************************************************************************)
LEMMA QueueTail ==
    ASSUME Inv, q # << >>
    PROVE  /\ Tail(q) \in Seq(Block)
           /\ ToSet(Tail(q)) \subseteq ToSet(q)
           /\ ToSet(q) \subseteq {Head(q)} \cup ToSet(Tail(q))
<1>1. q \in Seq(Block)
  BY DEF Inv, TypeOK
<1>2. /\ Tail(q) \in Seq(Block) /\ Len(Tail(q)) = Len(q) - 1
      /\ \A i \in 1..Len(Tail(q)) : Tail(q)[i] = q[i+1]
  BY <1>1, HeadTailProperties
<1>3. DOMAIN q = 1..Len(q) /\ DOMAIN Tail(q) = 1..Len(Tail(q)) /\ Len(q) \in Nat \ {0}
  BY <1>1, <1>2, LenProperties, EmptySeq
<1>4. \A i \in DOMAIN Tail(q) : i+1 \in DOMAIN q /\ Tail(q)[i] = q[i+1]
  BY <1>2, <1>3
<1>5. ASSUME NEW i \in DOMAIN q PROVE q[i] \in {Head(q)} \cup ToSet(Tail(q))
  <2>1. CASE i = 1
    BY <1>1, <2>1
  <2>2. CASE i # 1
    <3>1. i - 1 \in DOMAIN Tail(q) /\ Tail(q)[i-1] = q[i]
      BY <1>2, <1>3, <2>2
    <3> QED
      BY <3>1 DEF ToSet
  <2> QED
    BY <2>1, <2>2
<1> QED
  BY <1>2, <1>4, <1>5 DEF ToSet

(****************************************************************************)
(* Dropping a visited block keeps the invariant: its node is not blank and  *)
(* nobody waits for it.                                                     *)
(****************************************************************************)
LEMMA PopVisitedInv == ASSUME Inv, PopVisited PROVE Inv'
<1> USE DEF PopVisited
<1>1. TypeOK'
  BY QueueTail DEF Inv, TypeOK
<1>2. UnvisitedAreQueued'
  BY QueueTail DEF Inv, UnvisitedAreQueued
<1>3. ChildsMirrorSuccs'
  BY DEF Inv, ChildsMirrorSuccs
<1>4. QueueNoted'
  BY QueueTail DEF Inv, QueueNoted, Noted
<1>5. EntryFirst'
  BY DEF Inv, EntryFirst, VisitedHaveNodes, BBs
<1> QED
  BY <1>1, <1>2, <1>3, <1>4, <1>5
  DEF Inv, OneNodePerBlock, VisitedHaveNodes, ParentInProgress, NodesReachable, DoneIsEmpty

(****************************************************************************)
(* Looking at a block keeps the invariant: the node changed or added is the *)
(* only one of its block.                                                   *)
(****************************************************************************)
LEMMA PopFreshInv == ASSUME Inv, PopFresh PROVE Inv'
<1> DEFINE bb == Head(q)
<1>1. /\ q # << >> /\ bb \notin visit /\ pc = "pop" /\ q' = Tail(q) /\ visit' = visit \cup {bb}
      /\ succIdx' = 1 /\ pc' = "succ" /\ prog' = prog
  BY DEF PopFresh
<1>2. /\ CFGNodeVec' \in Seq(CFGNodes)
      /\ Distinct(CFGNodeVec')
      /\ bb \in Block /\ bb \in Noted(prog, visit)
      /\ \A i \in DOMAIN CFGNodeVec :
             /\ i \in DOMAIN CFGNodeVec'
             /\ CFGNodeVec'[i].bb = CFGNodeVec[i].bb
             /\ CFGNodeVec'[i].childs = CFGNodeVec[i].childs
             /\ i # parent' => CFGNodeVec'[i] = CFGNodeVec[i]
      /\ \A i \in DOMAIN CFGNodeVec' \ DOMAIN CFGNodeVec : i = parent'
      /\ parent' \in DOMAIN CFGNodeVec'
      /\ CFGNodeVec'[parent'].bb = bb
      /\ CFGNodeVec'[parent'].childs = << >>
  BY PopFreshEffect
<1>3. DOMAIN CFGNodeVec' = 1..Len(CFGNodeVec') /\ Len(CFGNodeVec') \in Nat
  BY <1>2, LenProperties
<1>4. prog \in Program /\ visit \in SUBSET Block
  BY DEF Inv, TypeOK
<1>5. Succs' = prog.succ[bb] /\ Len(prog.succ[bb]) \in Nat
  BY <1>1, <1>2, <1>4, SuccType DEF Succs
<1> HIDE DEF bb
<1>6. TypeOK'
  BY <1>1, <1>2, <1>3, <1>4, QueueTail DEF TypeOK
<1>7. OneNodePerBlock'
  BY <1>2 DEF Distinct, OneNodePerBlock
<1>8. UnvisitedAreQueued'
  <2> SUFFICES ASSUME NEW i \in DOMAIN CFGNodeVec', CFGNodeVec'[i].bb \notin visit'
               PROVE  /\ CFGNodeVec'[i].bb \in ToSet(q')
                      /\ CFGNodeVec'[i] = CFGNode(CFGNodeVec'[i].bb)
    BY DEF UnvisitedAreQueued, CFGNode
  <2>1. i # parent' /\ i \in DOMAIN CFGNodeVec /\ CFGNodeVec'[i] = CFGNodeVec[i]
    BY <1>1, <1>2
  <2>2. CFGNodeVec[i].bb \in ToSet(q) /\ CFGNodeVec[i] = CFGNode(CFGNodeVec[i].bb)
    BY <1>1, <2>1 DEF Inv, UnvisitedAreQueued
  <2> QED
    BY <1>1, <2>1, <2>2, QueueTail DEF bb
<1>9. ChildsMirrorSuccs'
  <2> SUFFICES ASSUME NEW i \in DOMAIN CFGNodeVec'
               PROVE  LET n == CFGNodeVec'[i]
                          len == IF n.bb \notin visit' THEN 0
                                 ELSE IF pc' = "succ" /\ i = parent' THEN succIdx' - 1
                                 ELSE Len(prog'.succ[n.bb])
                      IN  /\ Len(n.childs) = len
                          /\ \A j \in DOMAIN n.childs :
                                /\ n.childs[j] \in DOMAIN CFGNodeVec'
                                /\ CFGNodeVec'[n.childs[j]].bb = prog'.succ[n.bb][j]
    BY DEF ChildsMirrorSuccs
  <2>1. CASE i = parent'
    BY <1>1, <1>2, <2>1, EmptySeq
  <2>2. CASE i # parent'
    <3>1. i \in DOMAIN CFGNodeVec /\ CFGNodeVec'[i] = CFGNodeVec[i] /\ CFGNodeVec[i].bb # bb
      BY <1>2, <2>2 DEF Distinct
    <3>2. LET n == CFGNodeVec[i]
          IN  /\ Len(n.childs) = IF n.bb \notin visit THEN 0 ELSE Len(prog.succ[n.bb])
              /\ \A j \in DOMAIN n.childs :
                    /\ n.childs[j] \in DOMAIN CFGNodeVec
                    /\ CFGNodeVec[n.childs[j]].bb = prog.succ[n.bb][j]
      BY <1>1, <3>1 DEF Inv, ChildsMirrorSuccs
    <3> QED
      BY <1>1, <1>2, <2>2, <3>1, <3>2
  <2> QED
    BY <2>1, <2>2
<1>10. QueueNoted'
  <2>1. \A b \in Noted(prog, visit) : b \in Noted(prog, visit')
    BY <1>1 DEF Noted
  <2> QED
    BY <1>1, <2>1, QueueTail DEF Inv, QueueNoted
<1>11. VisitedHaveNodes'
  <2>1. BBs(CFGNodeVec) \subseteq BBs(CFGNodeVec')
    BY <1>2 DEF BBs
  <2>2. bb \in BBs(CFGNodeVec')
    BY <1>2 DEF BBs
  <2> QED
    BY <1>1, <2>1, <2>2 DEF Inv, VisitedHaveNodes
<1>12. EntryFirst'
  <2>1. CFGNodeVec' # << >>
    BY <1>2
  <2>2. CASE CFGNodeVec = << >>
    <3>1. DOMAIN CFGNodeVec = {} /\ bb = prog.entry
      BY <2>2 DEF Inv, EntryFirst, bb
    <3>2. 1 \in DOMAIN CFGNodeVec'
      BY <1>2, <1>3
    <3> QED
      BY <1>1, <1>2, <2>1, <3>1, <3>2 DEF EntryFirst
  <2>3. CASE CFGNodeVec # << >>
    <3>1. 1 \in DOMAIN CFGNodeVec /\ CFGNodeVec[1].bb = prog.entry
      BY <2>3, LenProperties, EmptySeq DEF Inv, TypeOK, EntryFirst
    <3> QED
      BY <1>1, <1>2, <2>1, <3>1 DEF EntryFirst
  <2> QED
    BY <2>2, <2>3
<1>13. ParentInProgress'
  <2>1. visit' \ {bb} = visit
    BY <1>1
  <2>2. bb \in visit' /\ bb \in Noted(prog', visit' \ {bb}) /\ succIdx' <= Len(Succs') + 1
    <3>1. bb \in Noted(prog', visit' \ {bb})
      BY <1>1, <1>2, <2>1
    <3>2. succIdx' <= Len(Succs') + 1
      BY <1>1, <1>5
    <3> QED
      BY <1>1, <3>1, <3>2
  <2>3. CFGNodeVec'[parent'].bb = bb
    BY <1>2
  <2> QED
    BY <2>2, <2>3 DEF ParentInProgress
<1>14. NodesReachable'
  <2>1. visit \subseteq Reachable(prog)
    BY DEF Inv, VisitedHaveNodes, NodesReachable
  <2>2. bb \in Reachable(prog)
    BY <1>2, <1>4, <2>1, ReachableClosed DEF Noted
  <2>3. BBs(CFGNodeVec') \subseteq BBs(CFGNodeVec) \cup {bb}
    BY <1>2 DEF BBs
  <2> QED
    BY <1>1, <2>2, <2>3 DEF Inv, NodesReachable, Reachable, SuccClosed
<1>15. DoneIsEmpty'
  BY <1>1 DEF DoneIsEmpty
<1> QED
  BY <1>6, <1>7, <1>8, <1>9, <1>10, <1>11, <1>12, <1>13, <1>14, <1>15 DEF Inv

(****************************************************************************)
(* Adding a child keeps the invariant: the indexes noted before it still    *)
(* name the same blocks.                                                    *)
(****************************************************************************)
LEMMA AddChildInv == ASSUME Inv, AddChild PROVE Inv'
<1> DEFINE succBB == Succs[succIdx]
<1>1. /\ pc = "succ" /\ succIdx <= Len(Succs) /\ q' = Append(q, succBB)
      /\ succIdx' = succIdx + 1 /\ prog' = prog /\ visit' = visit
      /\ parent' = parent /\ pc' = pc
  BY DEF AddChild
<1>2. /\ succBB \in Block /\ succBB \in ToSet(Succs)
      /\ CFGNodeVec' \in Seq(CFGNodes)
      /\ Distinct(CFGNodeVec')
      /\ \A i \in DOMAIN CFGNodeVec :
             /\ i \in DOMAIN CFGNodeVec'
             /\ CFGNodeVec'[i].bb = CFGNodeVec[i].bb
             /\ i # parent => CFGNodeVec'[i] = CFGNodeVec[i]
      /\ \A i \in DOMAIN CFGNodeVec' \ DOMAIN CFGNodeVec : CFGNodeVec'[i] = CFGNode(succBB)
  BY AddChildEffect
<1>3. PICK c \in DOMAIN CFGNodeVec' :
         /\ CFGNodeVec'[c].bb = succBB
         /\ CFGNodeVec'[parent].childs = Append(CFGNodeVec[parent].childs, c)
  BY AddChildEffect
<1>4. /\ prog \in Program /\ q \in Seq(Block) /\ succIdx \in Nat \ {0}
      /\ CFGNodeVec \in Seq(CFGNodes) /\ parent \in DOMAIN CFGNodeVec
  BY <1>1 DEF Inv, TypeOK
<1>5. /\ CFGNodeVec[parent].bb \in visit
      /\ CFGNodeVec[parent].bb \in Noted(prog, visit \ {CFGNodeVec[parent].bb})
  BY <1>1 DEF Inv, ParentInProgress
<1>6. Succs = prog.succ[CFGNodeVec[parent].bb] /\ Succs' = Succs
  BY <1>1, <1>2, <1>4 DEF Succs
<1>7. CFGNodeVec[parent] \in CFGNodes /\ CFGNodeVec[parent].bb \in Block
  BY <1>4, VectorElement
<1>8. Len(Succs) \in Nat
  BY <1>4, <1>6, <1>7, SuccType
<1> HIDE DEF succBB
<1>9. ToSet(q') = ToSet(q) \cup {succBB}
  <2>1. /\ Len(q') = Len(q) + 1 /\ q' \in Seq(Block)
        /\ \A i \in 1..Len(q) : q'[i] = q[i]
        /\ q'[Len(q) + 1] = succBB
    BY <1>1, <1>2, <1>4, AppendProperties
  <2>2. DOMAIN q = 1..Len(q) /\ DOMAIN q' = 1..Len(q)+1 /\ Len(q) \in Nat
    BY <1>4, <2>1, LenProperties
  <2> QED
    BY <2>1, <2>2 DEF ToSet
<1>10. TypeOK'
  BY <1>1, <1>2, <1>4, AppendProperties DEF Inv, TypeOK
<1>11. OneNodePerBlock'
  BY <1>2 DEF Distinct, OneNodePerBlock
<1>12. UnvisitedAreQueued'
  <2> SUFFICES ASSUME NEW i \in DOMAIN CFGNodeVec', CFGNodeVec'[i].bb \notin visit'
               PROVE  /\ CFGNodeVec'[i].bb \in ToSet(q')
                      /\ CFGNodeVec'[i] = CFGNode(CFGNodeVec'[i].bb)
    BY DEF UnvisitedAreQueued, CFGNode
  <2>1. CASE i \in DOMAIN CFGNodeVec
    <3>1. i # parent
      BY <1>1, <1>2, <1>4, <1>5, <2>1
    <3> QED
      BY <1>1, <1>2, <1>9, <2>1, <3>1 DEF Inv, UnvisitedAreQueued
  <2>2. CASE i \notin DOMAIN CFGNodeVec
    BY <1>2, <1>9, <2>2 DEF CFGNode
  <2> QED
    BY <2>1, <2>2
<1>13. ChildsMirrorSuccs'
  <2> SUFFICES ASSUME NEW i \in DOMAIN CFGNodeVec'
               PROVE  LET n == CFGNodeVec'[i]
                          len == IF n.bb \notin visit' THEN 0
                                 ELSE IF pc' = "succ" /\ i = parent' THEN succIdx' - 1
                                 ELSE Len(prog'.succ[n.bb])
                      IN  /\ Len(n.childs) = len
                          /\ \A j \in DOMAIN n.childs :
                                /\ n.childs[j] \in DOMAIN CFGNodeVec'
                                /\ CFGNodeVec'[n.childs[j]].bb = prog'.succ[n.bb][j]
    BY DEF ChildsMirrorSuccs
  <2>1. CASE i = parent
    <3> DEFINE old == CFGNodeVec[parent].childs
               new == CFGNodeVec'[parent].childs
    <3>1. /\ Len(old) = succIdx - 1
          /\ \A j \in DOMAIN old :
                /\ old[j] \in DOMAIN CFGNodeVec
                /\ CFGNodeVec[old[j]].bb = Succs[j]
      BY <1>1, <1>4, <1>5, <1>6 DEF Inv, ChildsMirrorSuccs
    <3>2. old \in Seq(Nat) /\ c \in Nat
      BY <1>2, <1>7, LenProperties, SMTT(30) DEF CFGNodes
    <3>3. new = Append(old, c)
      BY <1>3
    <3> HIDE DEF old, new
    <3>4. /\ Len(new) = succIdx /\ DOMAIN new = 1..succIdx /\ DOMAIN old = 1..succIdx-1
          /\ \A j \in 1..succIdx-1 : new[j] = old[j]
          /\ new[succIdx] = c
      BY <1>4, <3>1, <3>2, <3>3, AppendProperties, LenProperties
    <3>5. ASSUME NEW j \in 1..succIdx
          PROVE  new[j] \in DOMAIN CFGNodeVec' /\ CFGNodeVec'[new[j]].bb = Succs[j]
      <4>1. CASE j = succIdx
        BY <1>3, <3>4, <4>1 DEF succBB
      <4>2. CASE j # succIdx
        <5>1. j \in 1..succIdx-1
          BY <1>4, <4>2
        <5> QED
          BY <1>2, <3>1, <3>4, <5>1
      <4> QED
        BY <4>1, <4>2
    <3>6. CFGNodeVec'[parent].bb = CFGNodeVec[parent].bb
      BY <1>2, <1>4
    <3> QED
      BY <1>1, <1>4, <1>5, <1>6, <2>1, <3>4, <3>5, <3>6 DEF new
  <2>2. CASE i # parent /\ i \in DOMAIN CFGNodeVec
    <3>1. CFGNodeVec'[i] = CFGNodeVec[i]
      BY <1>2, <2>2
    <3>2. LET n == CFGNodeVec[i]
          IN  /\ Len(n.childs) = IF n.bb \notin visit THEN 0 ELSE Len(prog.succ[n.bb])
              /\ \A j \in DOMAIN n.childs :
                    /\ n.childs[j] \in DOMAIN CFGNodeVec
                    /\ CFGNodeVec[n.childs[j]].bb = prog.succ[n.bb][j]
      BY <2>2 DEF Inv, ChildsMirrorSuccs
    <3> QED
      BY <1>1, <1>2, <2>2, <3>1, <3>2
  <2>3. CASE i \notin DOMAIN CFGNodeVec
    <3>1. CFGNodeVec'[i].childs = << >> /\ CFGNodeVec'[i].bb = succBB
      BY <1>2, <2>3 DEF CFGNode
    <3>2. succBB \notin visit
      <4>1. succBB \notin BBs(CFGNodeVec)
        BY <1>2, <2>3, <3>1 DEF BBs, Distinct
      <4> QED
        BY <4>1 DEF Inv, VisitedHaveNodes
    <3> QED
      BY <1>1, <3>1, <3>2, EmptySeq
  <2> QED
    BY <2>1, <2>2, <2>3, <1>4
<1>14. QueueNoted'
  <2>1. succBB \in Noted(prog, visit)
    BY <1>2, <1>5, <1>6 DEF Noted
  <2> QED
    BY <1>1, <1>9, <2>1 DEF Inv, QueueNoted
<1>15. VisitedHaveNodes'
  BY <1>1, <1>2 DEF Inv, VisitedHaveNodes, BBs
<1>16. EntryFirst'
  <2>1. CFGNodeVec # << >> /\ CFGNodeVec' # << >>
    BY <1>2, <1>4
  <2>2. 1 \in DOMAIN CFGNodeVec
    BY <1>4, LenProperties
  <2> QED
    BY <1>1, <1>2, <2>1, <2>2 DEF Inv, EntryFirst
<1>17. ParentInProgress'
  <2>1. CFGNodeVec'[parent].bb = CFGNodeVec[parent].bb /\ succIdx + 1 <= Len(Succs) + 1
    BY <1>1, <1>2, <1>4, <1>8
  <2> QED
    BY <1>1, <1>5, <1>6, <2>1 DEF ParentInProgress
<1>18. NodesReachable'
  <2>1. CFGNodeVec[parent].bb \in Reachable(prog)
    BY <1>4 DEF Inv, NodesReachable, BBs
  <2>2. succBB \in Reachable(prog)
    BY <1>2, <1>4, <1>6, <2>1, ReachableClosed
  <2>3. BBs(CFGNodeVec') \subseteq BBs(CFGNodeVec) \cup {succBB}
    BY <1>2 DEF BBs, CFGNode
  <2> QED
    BY <1>1, <2>2, <2>3 DEF Inv, NodesReachable, Reachable, SuccClosed
<1>19. DoneIsEmpty'
  BY <1>1 DEF DoneIsEmpty
<1> QED
  BY <1>10, <1>11, <1>12, <1>13, <1>14, <1>15, <1>16, <1>17, <1>18, <1>19 DEF Inv

(****************************************************************************)
(* Leaving the successor loop keeps the invariant: all the successors have  *)
(* been noted.                                                              *)
(****************************************************************************)
LEMMA EndChildsInv == ASSUME Inv, EndChilds PROVE Inv'
<1> USE DEF EndChilds
<1>1. ChildsMirrorSuccs'
  <2>1. /\ parent \in DOMAIN CFGNodeVec /\ succIdx \in Nat /\ prog \in Program
        /\ CFGNodeVec \in Seq(CFGNodes)
    BY DEF Inv, TypeOK
  <2>2. CFGNodeVec[parent].bb \in Block
    BY <2>1, VectorElement
  <2>3. succIdx - 1 = Len(Succs) /\ CFGNodeVec[parent].bb \in visit
    BY <2>1, <2>2, SuccType DEF Inv, ParentInProgress, Succs
  <2> QED
    BY <2>3 DEF Inv, ChildsMirrorSuccs, Succs
<1>2. EntryFirst'
  BY DEF Inv, EntryFirst
<1> QED
  BY <1>1, <1>2
  DEF Inv, TypeOK, OneNodePerBlock, UnvisitedAreQueued, QueueNoted, VisitedHaveNodes,
      ParentInProgress, NodesReachable, DoneIsEmpty

(****************************************************************************)
(* The end of the walk keeps the invariant.                                 *)
(****************************************************************************)
LEMMA FinishInv == ASSUME Inv, Finish PROVE Inv'
<1> USE DEF Finish
<1>1. ChildsMirrorSuccs'
  BY DEF Inv, ChildsMirrorSuccs
<1>2. EntryFirst'
  BY DEF Inv, EntryFirst
<1> QED
  BY <1>1, <1>2
  DEF Inv, TypeOK, OneNodePerBlock, UnvisitedAreQueued, QueueNoted, VisitedHaveNodes,
      ParentInProgress, NodesReachable, DoneIsEmpty

(****************************************************************************)
(* Every step keeps the invariant.                                          *)
(****************************************************************************)
LEMMA NextInv == ASSUME Inv, [Next]_vars PROVE Inv'
<1>1. CASE UNCHANGED vars
  BY <1>1
  DEF vars, Inv, TypeOK, OneNodePerBlock, UnvisitedAreQueued, ChildsMirrorSuccs, QueueNoted,
      VisitedHaveNodes, EntryFirst, ParentInProgress, NodesReachable, DoneIsEmpty, Succs
<1> QED
  BY <1>1, PopVisitedInv, PopFreshInv, AddChildInv, EndChildsInv, FinishInv
  DEF Next, Terminated

------------------------------------------------------------------------------
(****************************************************************************)
(* The types, the three invariants that say what an index means while the   *)
(* vector grows, and what they rest on, hold throughout every walk.         *)
(****************************************************************************)
THEOREM Invariance == Spec => []Inv
<1> QED
  BY InitInv, NextInv, PTL DEF Spec

(****************************************************************************)
(* Every variable keeps to its type, on every program.                      *)
(****************************************************************************)
THEOREM TypeCorrect == Spec => []TypeOK
<1>1. Inv => TypeOK
  BY DEF Inv
<1> QED
  BY <1>1, Invariance, PTL

(****************************************************************************)
(* An index names one block: no block ever has two nodes.                   *)
(****************************************************************************)
THEOREM OneNode == Spec => []OneNodePerBlock
<1>1. Inv => OneNodePerBlock
  BY DEF Inv
<1> QED
  BY <1>1, Invariance, PTL

(****************************************************************************)
(* No successor is noted and then forgotten: until its block is looked at   *)
(* a node is blank and its block is queued.                                 *)
(****************************************************************************)
THEOREM NothingForgotten == Spec => []UnvisitedAreQueued
<1>1. Inv => UnvisitedAreQueued
  BY DEF Inv
<1> QED
  BY <1>1, Invariance, PTL

(****************************************************************************)
(* The children of a node are the successors of its block, in order.        *)
(****************************************************************************)
THEOREM ChildsCorrect == Spec => []ChildsMirrorSuccs
<1>1. Inv => ChildsMirrorSuccs
  BY DEF Inv
<1> QED
  BY <1>1, Invariance, PTL

(****************************************************************************)
(* When the walk ends, what it has visited is closed under successors.      *)
(****************************************************************************)
LEMMA EmptyQueueIsClosed ==
    ASSUME Inv, q = << >>, pc # "succ"
    PROVE  /\ BBs(CFGNodeVec) = visit
           /\ prog.entry \in visit
           /\ \A b \in visit : ToSet(prog.succ[b]) \subseteq visit
<1>1. BBs(CFGNodeVec) = visit
  <2>1. ToSet(q) = {}
    BY DEF ToSet
  <2>2. \A i \in DOMAIN CFGNodeVec : CFGNodeVec[i].bb \in visit
    BY <2>1 DEF Inv, UnvisitedAreQueued
  <2> QED
    BY <2>2 DEF Inv, VisitedHaveNodes, BBs
<1>2. prog.entry \in visit
  <2>1. CFGNodeVec # << >> /\ CFGNodeVec[1].bb = prog.entry
    BY DEF Inv, EntryFirst
  <2>2. 1 \in DOMAIN CFGNodeVec
    BY <2>1, LenProperties, EmptySeq DEF Inv, TypeOK
  <2> QED
    BY <1>1, <2>1, <2>2 DEF BBs
<1>3. ASSUME NEW b \in visit, NEW d \in ToSet(prog.succ[b]) PROVE d \in visit
  <2>1. PICK i \in DOMAIN CFGNodeVec : CFGNodeVec[i].bb = b
    BY <1>1 DEF BBs
  <2>2. prog \in Program /\ b \in Block /\ CFGNodeVec[i].childs \in Seq(Nat)
    BY <2>1, VectorElement DEF Inv, TypeOK
  <2>3. PICK j \in 1..Len(prog.succ[b]) : d = prog.succ[b][j]
    <3>1. ToSet(prog.succ[b]) = {prog.succ[b][n] : n \in 1..Len(prog.succ[b])}
      BY <2>2, SuccType
    <3> QED
      BY <3>1
  <2>4. Len(CFGNodeVec[i].childs) = Len(prog.succ[b])
    BY <2>1 DEF Inv, ChildsMirrorSuccs
  <2>5. j \in DOMAIN CFGNodeVec[i].childs
    BY <2>2, <2>3, <2>4, LenProperties
  <2>6. /\ CFGNodeVec[i].childs[j] \in DOMAIN CFGNodeVec
        /\ CFGNodeVec[CFGNodeVec[i].childs[j]].bb = d
    BY <2>1, <2>3, <2>5 DEF Inv, ChildsMirrorSuccs
  <2> QED
    BY <1>1, <2>6 DEF BBs
<1> QED
  BY <1>1, <1>2, <1>3

(****************************************************************************)
(* The walk is a correct search: when it ends, the nodes are exactly the    *)
(* blocks reachable from the entry, each was visited, and the entry is      *)
(* first.                                                                   *)
(****************************************************************************)
THEOREM WalkIsCorrect == Spec => []DoneIsReachable
<1>1. Inv => DoneIsReachable
  <2> SUFFICES ASSUME Inv, pc = "done"
               PROVE  /\ BBs(CFGNodeVec) = Reachable(prog)
                      /\ visit = Reachable(prog)
                      /\ CFGNodeVec[1].bb = prog.entry
    BY DEF DoneIsReachable
  <2>1. q = << >>
    BY DEF Inv, DoneIsEmpty
  <2>2. /\ BBs(CFGNodeVec) = visit /\ prog.entry \in visit
        /\ \A b \in visit : ToSet(prog.succ[b]) \subseteq visit
    BY <2>1, EmptyQueueIsClosed
  <2>3. SuccClosed(prog, visit) /\ visit \in SUBSET Block
    BY <2>2 DEF SuccClosed, Inv, TypeOK
  <2>4. Reachable(prog) \subseteq visit
    BY <2>2, <2>3 DEF Reachable
  <2>5. visit \subseteq Reachable(prog)
    BY <2>2 DEF Inv, NodesReachable
  <2>6. CFGNodeVec[1].bb = prog.entry
    BY <2>1 DEF Inv, EntryFirst
  <2> QED
    BY <2>2, <2>4, <2>5, <2>6
<1> QED
  BY <1>1, Invariance, PTL

(****************************************************************************)
(* The second invariant: a block that was looked at carries the index of    *)
(* the last loop that holds it.                                             *)
(****************************************************************************)
LoopsFilled ==
    \A i \in DOMAIN CFGNodeVec :
        CFGNodeVec[i].bb \in visit =>
            /\ CFGNodeVec[i].isLoopNode = (LoopsOf(prog, CFGNodeVec[i].bb) # {})
            /\ CFGNodeVec[i].LCSSAIndex = LoopIndex(prog, CFGNodeVec[i].bb)

FilledInv == Inv /\ LoopsFilled /\ prog \in Programs

(****************************************************************************)
(* It is kept: a block is looked at once, when its fields are filled in,    *)
(* and adding a child leaves them alone.                                    *)
(****************************************************************************)
LEMMA LoopsFilledStep ==
    ASSUME FilledInv, [Next]_vars
    PROVE  LoopsFilled'
<1> USE DEF FilledInv
<1>1. CASE PopFresh
  <2>1. visit' = visit \cup {Head(q)} /\ prog' = prog
    BY <1>1 DEF PopFresh
  <2>2. ASSUME NEW i \in DOMAIN CFGNodeVec', CFGNodeVec'[i].bb \in visit'
        PROVE  /\ CFGNodeVec'[i].isLoopNode = (LoopsOf(prog, CFGNodeVec'[i].bb) # {})
               /\ CFGNodeVec'[i].LCSSAIndex = LoopIndex(prog, CFGNodeVec'[i].bb)
    <3>1. CASE i = parent'
      BY <1>1, <3>1, PopFreshEffect
    <3>2. CASE i # parent'
      <4>1. i \in DOMAIN CFGNodeVec /\ CFGNodeVec'[i] = CFGNodeVec[i]
        BY <1>1, <3>2, PopFreshEffect
      <4>2. CFGNodeVec'[i].bb # Head(q)
        BY <1>1, <3>2, PopFreshEffect DEF Distinct
      <4> QED
        BY <2>1, <2>2, <4>1, <4>2 DEF LoopsFilled
    <3> QED
      BY <3>1, <3>2
  <2> QED
    BY <2>1, <2>2 DEF LoopsFilled
<1>2. CASE AddChild
  <2>1. visit' = visit /\ prog' = prog /\ parent \in DOMAIN CFGNodeVec
    BY <1>2 DEF AddChild, Inv, TypeOK
  <2>2. ASSUME NEW i \in DOMAIN CFGNodeVec', CFGNodeVec'[i].bb \in visit'
        PROVE  /\ CFGNodeVec'[i].isLoopNode = (LoopsOf(prog, CFGNodeVec'[i].bb) # {})
               /\ CFGNodeVec'[i].LCSSAIndex = LoopIndex(prog, CFGNodeVec'[i].bb)
    <3>1. i \in DOMAIN CFGNodeVec
      <4>1. \A n \in DOMAIN CFGNodeVec :
               n \in DOMAIN CFGNodeVec' /\ CFGNodeVec'[n].bb = CFGNodeVec[n].bb
        BY <1>2, AddChildEffect
      <4>2. PICK n \in DOMAIN CFGNodeVec : CFGNodeVec[n].bb = CFGNodeVec'[i].bb
        BY <2>1, <2>2 DEF Inv, VisitedHaveNodes, BBs
      <4> QED
        BY <1>2, <4>1, <4>2, AddChildEffect DEF Distinct
    <3>2. /\ CFGNodeVec'[i].bb = CFGNodeVec[i].bb
          /\ CFGNodeVec'[i].isLoopNode = CFGNodeVec[i].isLoopNode
          /\ CFGNodeVec'[i].LCSSAIndex = CFGNodeVec[i].LCSSAIndex
      BY <1>2, <3>1, AddChildEffect
    <3> QED
      BY <2>1, <2>2, <3>1, <3>2 DEF LoopsFilled
  <2> QED
    BY <2>1, <2>2 DEF LoopsFilled
<1>3. CASE PopVisited \/ EndChilds \/ Finish \/ Terminated \/ UNCHANGED vars
  BY <1>3 DEF PopVisited, EndChilds, Finish, Terminated, vars, LoopsFilled
<1> QED
  BY <1>1, <1>2, <1>3 DEF Next

(****************************************************************************)
(* Two blocks of one loop have the same outermost loop.                     *)
(****************************************************************************)
LEMMA SameOutermost ==
    ASSUME NEW p \in Programs, NEW l \in DOMAIN p.LCSSAs,
           NEW a \in Block, NEW b \in Block,
           {a, b} \subseteq ToSet(p.LCSSAs[l].bbVec)
    PROVE  LoopIndex(p, a) = LoopIndex(p, b)
<1>1. p \in Program /\ LoopsNest(p)
  BY ProgramsAssumption
<1>2. p.LCSSAs \in Seq(LCSSA)
  BY <1>1 DEF Program
<1>3. DOMAIN p.LCSSAs = 1..Len(p.LCSSAs) /\ Len(p.LCSSAs) \in Nat
  BY <1>2, LenProperties
<1>4. ASSUME NEW x \in {a, b}, NEW y \in {a, b}
      PROVE  LoopIndex(p, x) <= LoopIndex(p, y)
  <2> DEFINE m == LoopIndex(p, x)
  <2>1. l \in LoopsOf(p, x) /\ l \in LoopsOf(p, y)
    BY DEF LoopsOf
  <2>2. m \in LoopsOf(p, x) /\ l <= m
    BY <1>1, <2>1, LoopIndexType
  <2>3. m \in DOMAIN p.LCSSAs /\ x \in ToSet(p.LCSSAs[m].bbVec)
    BY <2>2 DEF LoopsOf
  <2> HIDE DEF m
  <2>4. y \in ToSet(p.LCSSAs[m].bbVec)
    <3>1. CASE m = l
      BY <3>1
    <3>2. CASE m # l
      <4>1. l < m
        BY <1>3, <2>2, <2>3, <3>2
      <4>2. \/ ToSet(p.LCSSAs[l].bbVec) \subseteq ToSet(p.LCSSAs[m].bbVec)
            \/ ToSet(p.LCSSAs[l].bbVec) \cap ToSet(p.LCSSAs[m].bbVec) = {}
        BY <1>1, <2>3, <4>1 DEF LoopsNest
      <4> QED
        BY <2>3, <4>2
    <3> QED
      BY <3>1, <3>2
  <2>5. m \in LoopsOf(p, y)
    BY <2>3, <2>4 DEF LoopsOf
  <2> QED
    BY <1>1, <2>5, LoopIndexType DEF m
<1>5. LoopIndex(p, a) \in Nat /\ LoopIndex(p, b) \in Nat
  BY <1>1, LoopIndexType
<1> QED
  BY <1>4, <1>5

(****************************************************************************)
(* What the walk leaves behind is a CFG as the searches take it for         *)
(* granted: an index names one block, children are indexes, and all blocks  *)
(* of a loop carry the index of the outermost loop around it.               *)
(****************************************************************************)
THEOREM WalkGivesCFG == Spec => []DoneIsCFG
<1>1. Init => FilledInv
  <2>1. Init => CFGNodeVec = << >> /\ prog \in Programs
    BY DEF Init
  <2> QED
    BY <2>1, InitInv DEF FilledInv, LoopsFilled
<1>2. FilledInv /\ [Next]_vars => FilledInv'
  <2>1. [Next]_vars => prog' = prog
    BY DEF Next, vars, PopVisited, PopFresh, AddChild, EndChilds, Finish, Terminated
  <2> QED
    BY <2>1, NextInv, LoopsFilledStep DEF FilledInv
<1>3. FilledInv => DoneIsCFG
  <2> SUFFICES ASSUME FilledInv, pc = "done" PROVE IsCFG(CFGNodeVec, prog.LCSSAs)
    BY DEF DoneIsCFG
  <2> USE DEF FilledInv
  <2>1. /\ prog \in Program /\ LoopsNest(prog)
        /\ CFGNodeVec \in Seq(CFGNodes) /\ CFGNodeVec # << >>
    BY ProgramsAssumption DEF Inv, TypeOK, EntryFirst
  <2>2. BBs(CFGNodeVec) = visit /\ visit = Reachable(prog)
    <3>1. q = << >>
      BY DEF Inv, DoneIsEmpty
    <3>2. /\ BBs(CFGNodeVec) = visit /\ prog.entry \in visit
          /\ \A b \in visit : ToSet(prog.succ[b]) \subseteq visit
      BY <3>1, EmptyQueueIsClosed
    <3>3. SuccClosed(prog, visit) /\ visit \in SUBSET Block
      BY <3>2 DEF SuccClosed, Inv, TypeOK
    <3> QED
      BY <3>2, <3>3 DEF Reachable, Inv, NodesReachable
  <2>3. \A i \in DOMAIN CFGNodeVec :
           /\ CFGNodeVec[i].bb \in Block
           /\ CFGNodeVec[i].isLoopNode = (LoopsOf(prog, CFGNodeVec[i].bb) # {})
           /\ CFGNodeVec[i].LCSSAIndex = LoopIndex(prog, CFGNodeVec[i].bb)
    BY <2>1, <2>2, VectorElement DEF LoopsFilled, BBs
  <2>4. \A i, j \in DOMAIN CFGNodeVec : CFGNodeVec[i].bb = CFGNodeVec[j].bb => i = j
    BY DEF Inv, OneNodePerBlock
  <2>5. ASSUME NEW i \in DOMAIN CFGNodeVec
        PROVE  ToSet(CFGNodeVec[i].childs) \subseteq DOMAIN CFGNodeVec
    BY DEF Inv, ChildsMirrorSuccs, ToSet
  <2>6. ASSUME NEW i \in DOMAIN CFGNodeVec
        PROVE  /\ CFGNodeVec[i].isLoopNode <=> CFGNodeVec[i].LCSSAIndex # NoIndex
               /\ CFGNodeVec[i].isLoopNode =>
                     /\ CFGNodeVec[i].LCSSAIndex \in DOMAIN prog.LCSSAs
                     /\ CFGNodeVec[i].bb \in ToSet(prog.LCSSAs[CFGNodeVec[i].LCSSAIndex].bbVec)
    <3> DEFINE bb == CFGNodeVec[i].bb
    <3>1. /\ bb \in Block
          /\ CFGNodeVec[i].isLoopNode = (LoopsOf(prog, bb) # {})
          /\ CFGNodeVec[i].LCSSAIndex = LoopIndex(prog, bb)
      BY <2>3
    <3>2. /\ LoopsOf(prog, bb) = {} => LoopIndex(prog, bb) = NoIndex
          /\ LoopsOf(prog, bb) # {} => LoopIndex(prog, bb) \in LoopsOf(prog, bb)
                                       /\ LoopIndex(prog, bb) # NoIndex
      BY <2>1, <3>1, LoopIndexType
    <3> QED
      BY <3>1, <3>2 DEF LoopsOf
  <2>7. ASSUME NEW l \in DOMAIN prog.LCSSAs
        PROVE  /\ prog.LCSSAs[l].header \in ToSet(prog.LCSSAs[l].bbVec)
               /\ prog.LCSSAs[l].latch \in ToSet(prog.LCSSAs[l].bbVec) \cup {NoBlock}
               /\ ToSet(prog.LCSSAs[l].bbVec) \subseteq BBs(CFGNodeVec)
    BY <2>1, <2>2 DEF LoopsNest
  <2>8. ASSUME NEW l \in DOMAIN prog.LCSSAs,
               NEW i \in DOMAIN CFGNodeVec, NEW j \in DOMAIN CFGNodeVec,
               {CFGNodeVec[i].bb, CFGNodeVec[j].bb} \subseteq ToSet(prog.LCSSAs[l].bbVec)
        PROVE  CFGNodeVec[i].LCSSAIndex = CFGNodeVec[j].LCSSAIndex
    BY <2>3, <2>8, SameOutermost
  <2> QED
    BY <2>1, <2>4, <2>5, <2>6, <2>7, <2>8 DEF IsCFG
<1> QED
  BY <1>1, <1>2, <1>3, PTL DEF Spec

(****************************************************************************)
(* An index handed out stays valid: no step drops or renames a node.        *)
(****************************************************************************)
THEOREM IndexesAreStable == Spec => IndexesStable
<1> DEFINE Stable == \A i \in DOMAIN CFGNodeVec :
                        i \in DOMAIN CFGNodeVec' /\ CFGNodeVec'[i].bb = CFGNodeVec[i].bb
<1>1. ASSUME Inv, [Next]_vars PROVE [Stable]_vars
  <2>1. CASE PopFresh
    BY <1>1, <2>1, PopFreshEffect
  <2>2. CASE AddChild
    BY <1>1, <2>2, AddChildEffect
  <2>3. CASE PopVisited \/ EndChilds \/ Finish \/ Terminated \/ UNCHANGED vars
    BY <2>3 DEF PopVisited, EndChilds, Finish, Terminated, vars
  <2> QED
    BY <1>1, <2>1, <2>2, <2>3 DEF Next
<1> QED
  BY <1>1, Invariance, PTL DEF Spec, IndexesStable

------------------------------------------------------------------------------
(****************************************************************************)
(* buildCFG implements Explore: leaving the loop over a node's successors   *)
(* is the step that expands its block, ending is the step that finds no     *)
(* frontier, and every other step leaves the abstract state as it is.       *)
(****************************************************************************)
THEOREM Refinement == Spec => ImplementsExplore
<1>1. Init => Abstract!Init
  BY DEF Init, Abstract!Init, Expanded
<1>2. ASSUME Inv, [Next]_vars PROVE [Abstract!Next]_Abstract!vars
  <2> USE DEF Abstract!vars
  <2>1. CASE PopVisited
    BY <2>1 DEF PopVisited, Expanded
  <2>2. CASE PopFresh
    <3>1. CFGNodeVec'[parent'].bb = Head(q)
      BY <1>2, <2>2, PopFreshEffect
    <3> QED
      BY <2>2, <3>1 DEF PopFresh, Expanded
  <2>3. CASE AddChild
    <3>1. CFGNodeVec'[parent].bb = CFGNodeVec[parent].bb
      BY <1>2, <2>3, AddChildEffect DEF Inv, TypeOK, AddChild
    <3> QED
      BY <2>3, <3>1 DEF AddChild, Expanded
  <2>4. CASE EndChilds
    <3> DEFINE bb == CFGNodeVec[parent].bb
    <3>1. /\ pc = "succ" /\ bb \in visit /\ bb \in Noted(prog, visit \ {bb})
      BY <1>2, <2>4 DEF EndChilds, Inv, ParentInProgress
    <3>2. Expanded = visit \ {bb} /\ Expanded' = visit
      BY <2>4 DEF EndChilds, Expanded
    <3>3. bb \in Abstract!Frontier
      BY <3>1, <3>2 DEF Abstract!Frontier, Noted, ToSet, Abstract!ToSet
    <3>4. Abstract!Expand(bb)
      BY <2>4, <3>1, <3>2 DEF Abstract!Expand, EndChilds
    <3> QED
      BY <3>3, <3>4 DEF Abstract!Next
  <2>5. CASE Finish
    <3>1. pc = "pop" /\ Expanded = visit /\ Expanded' = visit /\ q = << >>
      BY <2>5 DEF Finish, Expanded
    <3>2. prog.entry \in visit /\ \A b \in visit : ToSet(prog.succ[b]) \subseteq visit
      BY <1>2, <3>1, EmptyQueueIsClosed
    <3>3. Abstract!Frontier = {}
      BY <3>1, <3>2 DEF Abstract!Frontier, ToSet, Abstract!ToSet
    <3> QED
      BY <2>5, <3>1, <3>3 DEF Finish, Abstract!Finish, Abstract!Next
  <2>6. CASE Terminated \/ UNCHANGED vars
    BY <2>6 DEF Terminated, vars, Expanded
  <2> QED
    BY <1>2, <2>1, <2>2, <2>3, <2>4, <2>5, <2>6 DEF Next
<1> QED
  BY <1>1, <1>2, Invariance, PTL DEF Spec, ImplementsExplore, Abstract!Spec
==============================================================================
