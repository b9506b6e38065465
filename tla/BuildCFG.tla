------------------------------- MODULE BuildCFG -------------------------------
(****************************************************************************)
(* KInduction::buildCFG: a breadth-first walk over main's blocks that fills *)
(* CFGNodeVec.  A block gets its node when it is first seen, as a successor *)
(* of another block, and its loop fields and children later, when it leaves *)
(* the queue; the indexes stored as children in the meantime must still     *)
(* denote the same blocks at the end.                                       *)
(****************************************************************************)
EXTENDS CFG

CONSTANT Programs       \* the programs under verification

(****************************************************************************)
(* What LLVM's loop analysis grants: a loop holds its header, its latch if  *)
(* it has one, and only blocks that can be reached; of two loops one lies   *)
(* within the other or they are apart; and the pass manager visits a loop   *)
(* before those around it.                                                  *)
(****************************************************************************)
LoopsNest(p) ==
    LET body(l) == ToSet(p.LCSSAs[l].bbVec)
    IN  \A l \in DOMAIN p.LCSSAs :
            /\ p.LCSSAs[l].header \in body(l)
            /\ p.LCSSAs[l].latch \in body(l) \cup {NoBlock}
            /\ body(l) \subseteq Reachable(p)
            /\ \A m \in DOMAIN p.LCSSAs :
                  l < m => body(l) \subseteq body(m) \/ body(l) \cap body(m) = {}

ASSUME ProgramsAssumption ==
    /\ Programs \subseteq Program
    /\ \A p \in Programs : LoopsNest(p)

VARIABLES
    prog,         \* the program
    q,            \* the queue of blocks to look at
    visit,        \* the blocks already looked at
    CFGNodeVec,   \* the nodes built so far
    parent,       \* parent_idx: the node whose successors are being added
    succIdx,      \* the loop variable over those successors
    pc            \* "pop": at the loop head; "succ": in the successor loop

vars == <<prog, q, visit, CFGNodeVec, parent, succIdx, pc>>

CFGNode(bb) ==
    [bb |-> bb, isLoopNode |-> FALSE, LCSSAIndex |-> NoIndex, childs |-> << >>]

(****************************************************************************)
(* The search over the loops does not stop at the first hit, so a block of  *)
(* nested loops gets the index of the outermost one.                        *)
(****************************************************************************)
LoopsOf(p, bb) == {i \in DOMAIN p.LCSSAs : bb \in ToSet(p.LCSSAs[i].bbVec)}

InnermostLoopIndex(p, bb) == IF LoopsOf(p, bb) = {} THEN NoIndex ELSE Min(LoopsOf(p, bb))

LoopIndex(p, bb) == IF LoopsOf(p, bb) = {} THEN NoIndex ELSE Max(LoopsOf(p, bb))

(****************************************************************************)
(* Find a block's node, or add one at the end of the vector.  Definitions   *)
(* like the two before FindOrAdd are mistakes that the properties are     *)
(* tried on; no other definition uses them.                                 *)
(****************************************************************************)
AlwaysAdd(vec, bb) == Append(vec, CFGNode(bb))

AddInFront(vec, bb) == IF bb \in BBs(vec) THEN vec ELSE <<CFGNode(bb)>> \o vec

FindOrAdd(vec, bb) == IF bb \in BBs(vec) THEN vec ELSE Append(vec, CFGNode(bb))

Init ==
    /\ prog \in Programs
    /\ q = <<prog.entry>>
    /\ visit = {}
    /\ CFGNodeVec = << >>
    /\ parent = NoIndex
    /\ succIdx = 1
    /\ pc = "pop"

VisitedNotPopped ==
    /\ pc = "pop"
    /\ q # << >>
    /\ Head(q) \in visit
    /\ UNCHANGED vars

PopVisited ==
    /\ pc = "pop"
    /\ q # << >>
    /\ Head(q) \in visit
    /\ q' = Tail(q)
    /\ UNCHANGED <<prog, visit, CFGNodeVec, parent, succIdx, pc>>

PopFresh ==
    /\ pc = "pop"
    /\ q # << >>
    /\ Head(q) \notin visit
    /\ LET bb == Head(q)
           vec == FindOrAdd(CFGNodeVec, bb)
           i == IndexByBB(vec, bb)
       IN  /\ visit' = visit \cup {bb}
           /\ CFGNodeVec' = [vec EXCEPT ![i].isLoopNode = LoopsOf(prog, bb) # {},
                                        ![i].LCSSAIndex = LoopIndex(prog, bb)]
           /\ parent' = i
    /\ q' = Tail(q)
    /\ succIdx' = 1
    /\ pc' = "succ"
    /\ UNCHANGED prog

Succs == prog.succ[CFGNodeVec[parent].bb]

(****************************************************************************)
(* One round of the successor loop: the child's index is recorded and the   *)
(* child is queued whether or not it was seen before.                       *)
(****************************************************************************)
AddChild ==
    /\ pc = "succ"
    /\ succIdx <= Len(Succs)
    /\ LET succBB == Succs[succIdx]
           vec == FindOrAdd(CFGNodeVec, succBB)
       IN  /\ CFGNodeVec' = [vec EXCEPT ![parent].childs = Append(@, IndexByBB(vec, succBB))]
           /\ q' = Append(q, succBB)
    /\ succIdx' = succIdx + 1
    /\ UNCHANGED <<prog, visit, parent, pc>>

EndChildsEarly ==
    /\ pc = "succ"
    /\ succIdx >= Len(Succs)
    /\ pc' = "pop"
    /\ UNCHANGED <<prog, q, visit, CFGNodeVec, parent, succIdx>>

EndChilds ==
    /\ pc = "succ"
    /\ succIdx > Len(Succs)
    /\ pc' = "pop"
    /\ UNCHANGED <<prog, q, visit, CFGNodeVec, parent, succIdx>>

FinishOnVisited ==
    /\ pc = "pop"
    /\ q = << >> \/ (q # << >> /\ Head(q) \in visit)
    /\ pc' = "done"
    /\ UNCHANGED <<prog, q, visit, CFGNodeVec, parent, succIdx>>

Finish ==
    /\ pc = "pop"
    /\ q = << >>
    /\ pc' = "done"
    /\ UNCHANGED <<prog, q, visit, CFGNodeVec, parent, succIdx>>

Terminated == pc = "done" /\ UNCHANGED vars

Next == PopVisited \/ PopFresh \/ AddChild \/ EndChilds \/ Finish \/ Terminated

Spec == Init /\ [][Next]_vars

FairSpec == Spec /\ WF_vars(Next)

------------------------------------------------------------------------------
TypeOK ==
    /\ prog \in Program
    /\ q \in Seq(Block)
    /\ visit \in SUBSET Block
    /\ CFGNodeVec \in Seq(CFGNodes)
    /\ parent \in Nat
    /\ succIdx \in Nat \ {0}
    /\ pc \in {"pop", "succ", "done"}
    /\ pc = "succ" => parent \in DOMAIN CFGNodeVec

(****************************************************************************)
(* No block has two nodes, so an index names a block (every later lookup    *)
(* by block relies on it).                                                  *)
(****************************************************************************)
OneNodePerBlock ==
    \A i, j \in DOMAIN CFGNodeVec : CFGNodeVec[i].bb = CFGNodeVec[j].bb => i = j

(****************************************************************************)
(* A node that exists before its block was looked at is still blank, and    *)
(* its block waits in the queue: no successor is noted and then forgotten.  *)
(****************************************************************************)
UnvisitedAreQueued ==
    \A i \in DOMAIN CFGNodeVec :
        CFGNodeVec[i].bb \notin visit =>
            /\ CFGNodeVec[i].bb \in ToSet(q)
            /\ CFGNodeVec[i] = CFGNode(CFGNodeVec[i].bb)

(****************************************************************************)
(* The children of a node, read through the vector, are the successors of   *)
(* its block in terminator order (as many of them as the loop has handled   *)
(* for the node in progress).                                               *)
(****************************************************************************)
ChildsMirrorSuccs ==
    \A i \in DOMAIN CFGNodeVec :
        LET n == CFGNodeVec[i]
            len == IF n.bb \notin visit THEN 0
                   ELSE IF pc = "succ" /\ i = parent THEN succIdx - 1
                   ELSE Len(prog.succ[n.bb])
        IN  /\ Len(n.childs) = len
            /\ \A j \in DOMAIN n.childs :
                  /\ n.childs[j] \in DOMAIN CFGNodeVec
                  /\ CFGNodeVec[n.childs[j]].bb = prog.succ[n.bb][j]

(****************************************************************************)
(* When the walk ends the nodes are exactly the blocks reachable from the   *)
(* entry, all of them were looked at, and index 0 is the entry, where       *)
(* collectInitBasicBlock starts.                                            *)
(****************************************************************************)
DoneIsReachable ==
    pc = "done" =>
        /\ BBs(CFGNodeVec) = Reachable(prog)
        /\ visit = Reachable(prog)
        /\ CFGNodeVec[1].bb = prog.entry

(****************************************************************************)
(* What the walk leaves behind is fit for the searches that follow.  Blocks *)
(* of one loop carry one loop index, those of the loops inside it included: *)
(* the searches treat a loop nest as a single loop and would walk in        *)
(* circles if they saw two.                                                 *)
(****************************************************************************)
DoneIsCFG == pc = "done" => IsCFG(CFGNodeVec, prog.LCSSAs)

(****************************************************************************)
(* An index handed out stays valid: a step never drops or renames a node.   *)
(****************************************************************************)
IndexesStable ==
    [][\A i \in DOMAIN CFGNodeVec :
        i \in DOMAIN CFGNodeVec' /\ CFGNodeVec'[i].bb = CFGNodeVec[i].bb]_vars

(****************************************************************************)
(* The walk ends on every control-flow graph, cyclic ones included.         *)
(****************************************************************************)
Terminates == <>(pc = "done")

(****************************************************************************)
(* buildCFG implements Explore: a block is expanded when its successor loop *)
(* is left.                                                                 *)
(****************************************************************************)
Expanded == IF pc = "succ" THEN visit \ {CFGNodeVec[parent].bb} ELSE visit

Abstract == INSTANCE Explore WITH expanded <- Expanded, finished <- (pc = "done")

ImplementsExplore == Abstract!Spec
==============================================================================
