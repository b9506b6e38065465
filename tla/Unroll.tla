------------------------------- MODULE Unroll -------------------------------
(****************************************************************************)
(* How baseCase and inductiveStep turn a path into the sequence of nodes    *)
(* whose instructions are encoded, and when the encoding of such a sequence *)
(* stops at an assertion.                                                   *)
(****************************************************************************)
EXTENDS Paths

Repeat(s, n) == FlattenSeq([i \in 1..n |-> s])

LoopBody(g, l) ==
    LET bbVec == g.LCSSAs[l].bbVec
    IN  [i \in DOMAIN bbVec |-> IndexByBB(g.CFGNodeVec, bbVec[i])]

(****************************************************************************)
(* A loop that is to be run k times must have both ends of its back edge    *)
(* where the unrolling expects them; of an error loop it is not asserted.   *)
(****************************************************************************)
ElementNotRotated(g, e) ==
    /\ e.type = "ALoop"
    /\ LET lcssa == g.LCSSAs[e.idx]
       IN  lcssa.header # lcssa.bbVec[1] \/ lcssa.latch # Last(lcssa.bbVec)

(****************************************************************************)
(* The last round of the error loop: its blocks up to the first one with an *)
(* edge to the error node, and the error node; all of them if there is none.*)
(****************************************************************************)
LastRound(g, l, errorNode) ==
    LET body == LoopBody(g, l)
        i == SelectInSeq(body, LAMBDA n : errorNode \in ToSet(g.CFGNodeVec[n].childs))
    IN  IF i = 0 THEN body ELSE Append(SubSeq(body, 1, i), errorNode)

(****************************************************************************)
(* A mistake: a round too many of the error loop.                           *)
(****************************************************************************)
UnrollOneTooMany(g, path, i, k, errorLoopCount) ==
    LET e == path[i]
    IN  CASE e.type \in {"ANode", "ERRORNODE"} -> <<e.idx>>
          [] e.type = "ALoop" -> Repeat(LoopBody(g, e.idx), k)
          [] e.type = "ERRORLOOP" ->
                Repeat(LoopBody(g, e.idx), errorLoopCount)
                    \o LastRound(g, e.idx, path[i+1].idx)

(****************************************************************************)
(* The nodes of element i of a path, for loops run k times and an error     *)
(* loop run errorLoopCount times.                                           *)
(****************************************************************************)
UnrollElement(g, path, i, k, errorLoopCount) ==
    LET e == path[i]
    IN  CASE e.type \in {"ANode", "ERRORNODE"} -> <<e.idx>>
          [] e.type = "ALoop" -> Repeat(LoopBody(g, e.idx), k)
          [] e.type = "ERRORLOOP" ->
                Repeat(LoopBody(g, e.idx), errorLoopCount - 1)
                    \o LastRound(g, e.idx, path[i+1].idx)

UnrollPath(g, path, k, errorLoopCount) ==
    FlattenSeq([i \in DOMAIN path |-> UnrollElement(g, path, i, k, errorLoopCount)])

IsPattern1(path) ==
    /\ Len(path) >= 2
    /\ Last(path).type = "ERRORNODE"
    /\ path[Len(path)-1].type = "ERRORLOOP"

(****************************************************************************)
(* The encoding of a conditional branch looks for the next node among the   *)
(* two targets and asserts that it is one of them; a block that ends in an  *)
(* unconditional branch is followed by whatever comes next.                 *)
(****************************************************************************)
IsEdge(g, m, n) == n \in ToSet(g.CFGNodeVec[m].childs)

BranchesFollowed(g, nodes) ==
    \A i \in 1..Len(nodes)-1 :
        Len(g.CFGNodeVec[nodes[i]].childs) > 1 => IsEdge(g, nodes[i], nodes[i+1])

(****************************************************************************)
(* A sequence along the edges of the graph; the encoding of a phi node      *)
(* asserts that the node before it is a predecessor, which only such a      *)
(* sequence guarantees.                                                     *)
(****************************************************************************)
IsWalk(g, nodes) == \A i \in 1..Len(nodes)-1 : IsEdge(g, nodes[i], nodes[i+1])
==============================================================================
