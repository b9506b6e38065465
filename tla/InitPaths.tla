------------------------------ MODULE InitPaths ------------------------------
(****************************************************************************)
(* collectInitBasicBlock and basicBlockDFS: every path from the entry to    *)
(* the first loop on it.  All calls of the recursion share the one vector   *)
(* vec and undo what they push; a call is its depth in vec, and next holds, *)
(* for each call, the position of its loop over the children.               *)
(****************************************************************************)
EXTENDS Paths

VARIABLES
    g,          \* the graph
    vec,        \* the path to the node of the current call
    next,       \* next[d]: the child the call at depth d will try next
    initNodes,  \* the paths found so far
    pc          \* "search", or "done" when collectInitBasicBlock has returned

vars == <<g, vec, next, initNodes, pc>>

(****************************************************************************)
(* The children of the node the current call stands on.                     *)
(****************************************************************************)
LastNode == g.CFGNodeVec[Last(vec)]

Init ==
    /\ g \in Graphs
    /\ vec = <<1>>
    /\ next = <<1>>
    /\ initNodes = << >>
    /\ pc = "search"

(****************************************************************************)
(* Mistakes in saving a path: at a leaf as well, or without taking the node *)
(* off.                                                                     *)
(****************************************************************************)
FindLoopOrLeaf ==
    /\ pc = "search"
    /\ LastNode.isLoopNode \/ LastNode.childs = << >>
    /\ Len(vec) > 1
    /\ initNodes' = Append(initNodes, vec)
    /\ vec' = Front(vec)
    /\ next' = Front(next)
    /\ UNCHANGED <<g, pc>>

FindLoopNoPop ==
    /\ pc = "search"
    /\ LastNode.isLoopNode
    /\ initNodes' = Append(initNodes, vec)
    /\ next' = Front(next)
    /\ UNCHANGED <<g, vec, pc>>

(****************************************************************************)
(* The callee sees a loop node and returns true; its caller saves the path  *)
(* and takes the node off again.                                            *)
(****************************************************************************)
FindLoop ==
    /\ pc = "search"
    /\ LastNode.isLoopNode
    /\ initNodes' = Append(initNodes, vec)
    /\ vec' = Front(vec)
    /\ next' = Front(next)
    /\ UNCHANGED <<g, pc>>

Descend ==
    /\ pc = "search"
    /\ ~LastNode.isLoopNode
    /\ Last(next) <= Len(LastNode.childs)
    /\ vec' = Append(vec, LastNode.childs[Last(next)])
    /\ next' = Append([next EXCEPT ![Len(next)] = @ + 1], 1)
    /\ UNCHANGED <<g, initNodes, pc>>

Exhausted ==
    /\ pc = "search"
    /\ ~LastNode.isLoopNode
    /\ Last(next) > Len(LastNode.childs)

(****************************************************************************)
(* Mistakes in returning without a path: the caller tries the same child    *)
(* again, or it tries no other child.                                       *)
(****************************************************************************)
BackUpAndRetry ==
    /\ Exhausted
    /\ Len(vec) > 1
    /\ vec' = Front(vec)
    /\ next' = [Front(next) EXCEPT ![Len(next)-1] = @ - 1]
    /\ UNCHANGED <<g, initNodes, pc>>

BackUpAndBreak ==
    /\ Exhausted
    /\ Len(vec) > 1
    /\ vec' = Front(vec)
    /\ LET caller == g.CFGNodeVec[Last(Front(vec))]
       IN  next' = Append(Front(Front(next)), Len(caller.childs) + 1)
    /\ UNCHANGED <<g, initNodes, pc>>

(****************************************************************************)
(* Every child has been tried: the call returns false and its caller takes  *)
(* the node off.                                                            *)
(****************************************************************************)
BackUp ==
    /\ Exhausted
    /\ Len(vec) > 1
    /\ vec' = Front(vec)
    /\ next' = Front(next)
    /\ UNCHANGED <<g, initNodes, pc>>

Finish ==
    /\ Exhausted
    /\ Len(vec) = 1
    /\ pc' = "done"
    /\ UNCHANGED <<g, vec, next, initNodes>>

Terminated == pc = "done" /\ UNCHANGED vars

Next == FindLoop \/ Descend \/ BackUp \/ Finish \/ Terminated

Spec == Init /\ [][Next]_vars

FairSpec == Spec /\ WF_vars(Next)

------------------------------------------------------------------------------
TypeOK ==
    /\ g \in Graph
    /\ vec \in Seq(DOMAIN g.CFGNodeVec) \ {<< >>}
    /\ next \in Seq(Nat \ {0}) \ {<< >>}
    /\ initNodes \in Seq(Seq(DOMAIN g.CFGNodeVec))
    /\ pc \in {"search", "done"}

(****************************************************************************)
(* A walk along children from the entry that has met no loop before its     *)
(* last node.                                                               *)
(****************************************************************************)
LeadsToFirstLoop(p) ==
    /\ p # << >>
    /\ p[1] = 1
    /\ \A i \in 1..Len(p)-1 :
          /\ p[i+1] \in ToSet(g.CFGNodeVec[p[i]].childs)
          /\ ~g.CFGNodeVec[p[i]].isLoopNode

(****************************************************************************)
(* Every saved path is real: it leads from the entry over children that lie *)
(* outside every loop to a loop node, on which verify() insists before it   *)
(* uses the path.                                                           *)
(****************************************************************************)
InitPathsAreReal ==
    \A i \in DOMAIN initNodes :
        LeadsToFirstLoop(initNodes[i]) /\ g.CFGNodeVec[Last(initNodes[i])].isLoopNode

(****************************************************************************)
(* The shared vector and the calls agree: it is a walk, and each call's     *)
(* child above the last is the one its caller tried last.                   *)
(****************************************************************************)
CallsMatchVec ==
    /\ Len(next) = Len(vec)
    /\ LeadsToFirstLoop(vec)
    /\ \A d \in 1..Len(vec)-1 :
          /\ next[d] > 1
          /\ vec[d+1] = g.CFGNodeVec[vec[d]].childs[next[d] - 1]

(****************************************************************************)
(* A route names the child taken at each step by its position; Along(r) are *)
(* the nodes it visits, Routes those that end at their first loop node.     *)
(****************************************************************************)
Along(r) ==
    LET at[i \in 1..Len(r)+1] == IF i = 1 THEN 1 ELSE g.CFGNodeVec[at[i-1]].childs[r[i-1]]
    IN  at

Routes ==
    LET end(r) == g.CFGNodeVec[Last(Along(r))]
        longer(R) == UNION {{Append(r, j) : j \in DOMAIN end(r).childs} :
                               r \in {q \in R : ~end(q).isLoopNode}}
        ofLength[n \in 0..Len(g.CFGNodeVec)] ==
            IF n = 0 THEN {<< >>} ELSE longer(ofLength[n-1])
    IN  {r \in UNION {ofLength[n] : n \in DOMAIN ofLength} : end(r).isLoopNode}

(****************************************************************************)
(* No way into a loop is missed and none is reported twice: the paths are   *)
(* those of the routes to a first loop, one for each, in the order in which *)
(* verify() numbers them.  A missed one would leave an execution unverified *)
(* behind the answer TRUE.                                                  *)
(****************************************************************************)
InitPathsComplete ==
    pc = "done" =>
        /\ ToSet(initNodes) = {Along(r) : r \in Routes}
        /\ Len(initNodes) = Cardinality(Routes)
        /\ initNodes = InitNodesOf(g)

(****************************************************************************)
(* The search comes to an end when every cycle runs through a loop.         *)
(****************************************************************************)
Terminates == <>(pc = "done")
==============================================================================
