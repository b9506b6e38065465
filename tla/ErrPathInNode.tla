---------------------------- MODULE ErrPathInNode ----------------------------
(****************************************************************************)
(* collectVerifyPathErrInNode: from an init path, every path to the node    *)
(* that calls reach_error, when that node does not follow a loop directly.  *)
(* The calls of the recursion share the vector v as those of basicBlockDFS  *)
(* do; a loop is left over the children of its header.                      *)
(****************************************************************************)
EXTENDS ErrPathSearch

VARIABLES
    start,          \* the path the outermost call was given
    assertNodeIdx,  \* the node that calls reach_error
    v,              \* the path to the element of the current call
    next,           \* next[d]: the child the call at depth d will try next
    paths           \* the paths found so far; pc is "search", or "done" when the
                    \* outermost call has returned

vars == <<g, start, assertNodeIdx, v, next, paths, pc>>

CurrentChilds == Childs(g, Last(v))

Child == CurrentChilds[Last(next)]

(****************************************************************************)
(* Whether the child lies in the loop that is being left; a mistake is not  *)
(* to look.                                                                 *)
(****************************************************************************)
NeverInSameLoop == FALSE

InSameLoop ==
    /\ Last(v).type = "ALoop"
    /\ g.CFGNodeVec[Child].isLoopNode
    /\ g.CFGNodeVec[Child].LCSSAIndex = Last(v).idx

AtError == Last(v) = ANode(assertNodeIdx)

Bump == [next EXCEPT ![Len(next)] = @ + 1]

Init ==
    /\ g \in Graphs
    /\ VerifyLoops(g) = {}
    /\ \E init \in ToSet(InitNodesOf(g)) : start = StartPath(g, init)
    /\ assertNodeIdx = FindVerifyNode(g)
    /\ v = start
    /\ next = <<1>>
    /\ paths = << >>
    /\ pc = "search"

(****************************************************************************)
(* A mistake: the path is saved with its last element as it is.             *)
(****************************************************************************)
ReachErrorNotRetyped ==
    /\ pc = "search"
    /\ AtError
    /\ paths' = Append(paths, v)
    /\ v' = Front(v)
    /\ next' = Front(next)
    /\ UNCHANGED <<g, start, assertNodeIdx, pc>>

(****************************************************************************)
(* The node is reached: the path is saved with its last element retyped,    *)
(* and the call returns.                                                    *)
(****************************************************************************)
ReachError ==
    /\ pc = "search"
    /\ AtError
    /\ paths' = Append(paths, [v EXCEPT ![Len(v)].type = "ERRORNODE"])
    /\ v' = Front(v)
    /\ next' = Front(next)
    /\ UNCHANGED <<g, start, assertNodeIdx, pc>>

SkipLoopChild ==
    /\ pc = "search"
    /\ ~AtError
    /\ Last(next) <= Len(CurrentChilds)
    /\ InSameLoop
    /\ next' = Bump
    /\ UNCHANGED <<g, start, assertNodeIdx, v, paths, pc>>

Descend ==
    /\ pc = "search"
    /\ ~AtError
    /\ Last(next) <= Len(CurrentChilds)
    /\ ~InSameLoop
    /\ v' = Append(v, Element(g, Child))
    /\ next' = Append(Bump, 1)
    /\ UNCHANGED <<g, start, assertNodeIdx, paths, pc>>

Exhausted ==
    /\ pc = "search"
    /\ ~AtError
    /\ Last(next) > Len(CurrentChilds)

(****************************************************************************)
(* Mistakes in returning without a path: the caller tries the same child    *)
(* again, or it tries no other child.                                       *)
(****************************************************************************)
BackUpAndRetry ==
    /\ Exhausted
    /\ Len(next) > 1
    /\ v' = Front(v)
    /\ next' = [Front(next) EXCEPT ![Len(next)-1] = @ - 1]
    /\ UNCHANGED <<g, start, assertNodeIdx, paths, pc>>

BackUpAndBreak ==
    /\ Exhausted
    /\ Len(next) > 1
    /\ v' = Front(v)
    /\ next' = Append(Front(Front(next)), Len(Childs(g, Last(Front(v)))) + 1)
    /\ UNCHANGED <<g, start, assertNodeIdx, paths, pc>>

(****************************************************************************)
(* Every child has been tried: the call returns and its caller takes the    *)
(* element off.                                                             *)
(****************************************************************************)
BackUp ==
    /\ Exhausted
    /\ Len(next) > 1
    /\ v' = Front(v)
    /\ next' = Front(next)
    /\ UNCHANGED <<g, start, assertNodeIdx, paths, pc>>

Finish ==
    /\ Exhausted
    /\ Len(next) = 1
    /\ pc' = "done"
    /\ UNCHANGED <<g, start, assertNodeIdx, v, next, paths>>

Terminated == pc = "done" /\ UNCHANGED vars

Next == ReachError \/ SkipLoopChild \/ Descend \/ BackUp \/ Finish \/ Terminated

Spec == Init /\ [][Next]_vars

FairSpec == Spec /\ WF_vars(Next)

------------------------------------------------------------------------------
TypeOK ==
    /\ g \in Graph
    /\ {start, v} \subseteq Seq(Path) \ {<< >>}
    /\ assertNodeIdx \in 0..Len(g.CFGNodeVec)
    /\ next \in Seq(Nat \ {0}) \ {<< >>}
    /\ paths \in Seq(Seq(Path))
    /\ pc \in {"search", "done"}

(****************************************************************************)
(* The path in progress starts as the outermost call was given it, follows  *)
(* edges of the graph, and enters no loop and no block twice: the loops     *)
(* have been contracted, and the pushes and pops of all the calls balance.  *)
(****************************************************************************)
PathInProgressIsReal ==
    /\ TypeOK
    /\ Len(v) + 1 = Len(start) + Len(next)
    /\ SubSeq(v, 1, Len(start)) = start
    /\ IsChain(g, v)
    /\ \A i, j \in DOMAIN v : NodesOf(g, v[i]) \cap NodesOf(g, v[j]) # {} => i = j

(****************************************************************************)
(* What is handed to the base case and the inductive step is a path of the  *)
(* program that ends in the error node, with nothing else retyped.          *)
(****************************************************************************)
PathsReachError ==
    \A i \in DOMAIN paths :
        LET p == paths[i]
        IN  /\ IsChain(g, p)
            /\ SubSeq(p, 1, Len(start)) = start
            /\ Last(p) = [type |-> "ERRORNODE", idx |-> assertNodeIdx]
            /\ \A j \in 1..Len(p)-1 :
                  p[j].type \in {"ALoop", "ANode"} /\ p[j] # ANode(assertNodeIdx)

(****************************************************************************)
(* Where loops can be left over their header, every path to the error node  *)
(* is found, so that none escapes the verification; the paths come in the   *)
(* order in which verify() goes through them.                               *)
(****************************************************************************)
PathsComplete ==
    pc = "done" =>
        /\ paths = ErrPathsInNode(g, start, assertNodeIdx)
        /\ ExitsAtHeader(g) => ToSet(paths) = RealPaths(g, start, assertNodeIdx)

(****************************************************************************)
(* The search comes to an end when every cycle lies in a loop.              *)
(****************************************************************************)
Terminates == <>(pc = "done")
==============================================================================
