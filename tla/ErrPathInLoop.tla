---------------------------- MODULE ErrPathInLoop ----------------------------
(****************************************************************************)
(* collectVerifyPathErrInLoop: from an init path, one path to the loop that *)
(* leads to reach_error, by a search with one vector, a visit mark per node *)
(* and backtracking; then the error block is looked up among the children   *)
(* of that loop's header.                                                   *)
(****************************************************************************)
EXTENDS ErrPathSearch

VARIABLES
    init,           \* the init path it starts from
    assertLoopIdx,  \* the loop to reach
    path,           \* the path built so far
    visit           \* the nodes marked as visited

(****************************************************************************)
(* pc is "search", "addError", "done"; "abort": the last assert failed;     *)
(* "undefined": back() was called on an empty path.                         *)
(****************************************************************************)
loopVars == <<g, init, assertLoopIdx, path, visit, pc>>

LoopInit ==
    /\ g \in Graphs
    /\ assertLoopIdx \in VerifyLoops(g)
    /\ VerifyLoops(g) = {assertLoopIdx}
    /\ init \in ToSet(InitNodesOf(g))
    /\ path = StartPath(g, init)
    /\ visit = ToSet(Front(init))
    /\ pc = "search"

AtErrorLoop == Last(path) = ALoop(assertLoopIdx)

FoundLoopNotRetyped ==
    /\ pc = "search"
    /\ path # << >>
    /\ AtErrorLoop
    /\ pc' = "addError"
    /\ UNCHANGED <<g, init, assertLoopIdx, path, visit>>

FoundLoop ==
    /\ pc = "search"
    /\ path # << >>
    /\ AtErrorLoop
    /\ path' = [path EXCEPT ![Len(path)].type = "ERRORLOOP"]
    /\ pc' = "addError"
    /\ UNCHANGED <<g, init, assertLoopIdx, visit>>

(****************************************************************************)
(* A mistake: the nodes of the loop that is left stay unmarked.             *)
(****************************************************************************)
MarkedNot == visit

(****************************************************************************)
(* The children of the last element that may still be stepped onto: those   *)
(* not visited, and not in the loop that is being left, whose nodes are all *)
(* marked first.                                                            *)
(****************************************************************************)
Marked == IF Last(path).type = "ALoop" THEN visit \cup NodesOf(g, Last(path)) ELSE visit

Children == Childs(g, Last(path))

Unvisited ==
    {j \in DOMAIN Children :
        Children[j] \notin Marked /\ \A i \in 1..j-1 : Children[i] # Children[j]}

(****************************************************************************)
(* A node is left over its first unvisited child.  The loop over the        *)
(* children of a header has no such break: it steps onto every one of them. *)
(****************************************************************************)
InOrder(J) ==
    [n \in 1..Cardinality(J) |-> CHOOSE j \in J : Cardinality({i \in J : i < j}) = n - 1]

NextSteps ==
    IF Last(path).type = "ANode" THEN <<Min(Unvisited)>> ELSE InOrder(Unvisited)

Searching ==
    /\ pc = "search"
    /\ path # << >>
    /\ ~AtErrorLoop

(****************************************************************************)
(* Mistakes in stepping on: every child is marked, or none.                 *)
(****************************************************************************)
StepMarksAll ==
    /\ Searching
    /\ Unvisited # {}
    /\ path' = path \o [i \in DOMAIN NextSteps |-> Element(g, Children[NextSteps[i]])]
    /\ visit' = Marked \cup ToSet(Children)
    /\ UNCHANGED <<g, init, assertLoopIdx, pc>>

StepMarksNone ==
    /\ Searching
    /\ Unvisited # {}
    /\ path' = path \o [i \in DOMAIN NextSteps |-> Element(g, Children[NextSteps[i]])]
    /\ visit' = Marked
    /\ UNCHANGED <<g, init, assertLoopIdx, pc>>

(****************************************************************************)
(* The next elements are pushed and marked.                                 *)
(****************************************************************************)
Step ==
    /\ Searching
    /\ Unvisited # {}
    /\ path' = path \o [i \in DOMAIN NextSteps |-> Element(g, Children[NextSteps[i]])]
    /\ visit' = Marked \cup {Children[NextSteps[i]] : i \in DOMAIN NextSteps}
    /\ UNCHANGED <<g, init, assertLoopIdx, pc>>

Backtrack ==
    /\ Searching
    /\ Unvisited = {}
    /\ path' = Front(path)
    /\ visit' = Marked
    /\ UNCHANGED <<g, init, assertLoopIdx, pc>>

(****************************************************************************)
(* The loop condition reads path.back() of an empty vector: undefined, and  *)
(* nothing is claimed of the program from here on.                          *)
(****************************************************************************)
BackOfEmpty ==
    /\ pc = "search"
    /\ path = << >>
    /\ pc' = "undefined"
    /\ UNCHANGED <<g, init, assertLoopIdx, path, visit>>

AddError ==
    /\ pc = "addError"
    /\ NamedErrors(g, Last(path)) # {}
    /\ path' = Append(path, ErrorNode(g, Last(path)))
    /\ pc' = "done"
    /\ UNCHANGED <<g, init, assertLoopIdx, visit>>

NoErrorChild ==
    /\ pc = "addError"
    /\ NamedErrors(g, Last(path)) = {}
    /\ pc' = "abort"
    /\ UNCHANGED <<g, init, assertLoopIdx, path, visit>>

Ended == pc \in {"done", "abort", "undefined"}

LoopTerminated == Ended /\ UNCHANGED loopVars

LoopNext ==
    \/ FoundLoop \/ Step \/ Backtrack \/ BackOfEmpty
    \/ AddError \/ NoErrorChild \/ LoopTerminated

LoopSpec == LoopInit /\ [][LoopNext]_loopVars

LoopFairSpec == LoopSpec /\ WF_loopVars(LoopNext)

------------------------------------------------------------------------------
LoopTypeOK ==
    /\ g \in Graph
    /\ init \in Seq(DOMAIN g.CFGNodeVec)
    /\ assertLoopIdx \in DOMAIN g.LCSSAs
    /\ path \in Seq(Path)
    /\ \A i \in DOMAIN path :
          path[i].idx \in IF path[i].type \in {"ALoop", "ERRORLOOP"}
                          THEN DOMAIN g.LCSSAs ELSE DOMAIN g.CFGNodeVec
    /\ visit \subseteq DOMAIN g.CFGNodeVec
    /\ pc \in {"search", "addError", "done", "abort", "undefined"}

(****************************************************************************)
(* The path is a path of the program from the entry, also while the search  *)
(* backtracks, and no block or loop is on it twice.  It stays one although  *)
(* a header's loop pushes every unvisited child: a two-way branch in a      *)
(* header keeps one way into the loop.                                      *)
(****************************************************************************)
PathIsReal ==
    /\ LoopTypeOK
    /\ path # << >> => path[1] = Element(g, 1)
    /\ IsChain(g, path)
    /\ \A i, j \in DOMAIN path : NodesOf(g, path[i]) \cap NodesOf(g, path[j]) # {} => i = j

(****************************************************************************)
(* A path that is handed on ends in the loop and then a block named ERROR   *)
(* that the loop leads to, the pattern baseCase and inductiveStep look for, *)
(* and nothing before them is retyped; it is the path verify() goes on with.*)
(****************************************************************************)
DoneIsPattern1 ==
    pc = "done" =>
        /\ Len(path) >= 2
        /\ Front(path) = PathToLoop(g, init, assertLoopIdx)
        /\ path[Len(path)-1] = [type |-> "ERRORLOOP", idx |-> assertLoopIdx]
        /\ Last(path).type = "ERRORNODE"
        /\ g.CFGNodeVec[Last(path).idx].bb \in g.named
        /\ \A i \in 1..Len(path)-2 : path[i].type \in {"ALoop", "ANode"}

(****************************************************************************)
(* The elements the search can get to: those on or after the path it was    *)
(* given, whatever was visited on the way.                                  *)
(****************************************************************************)
ReachableElements ==
    LET onwards(S) == S \cup UNION {{Element(g, c) : c \in ToSet(Childs(g, e))} : e \in S}
        within[n \in 0..Len(g.CFGNodeVec)] ==
            IF n = 0 THEN {Element(g, 1)} ELSE onwards(within[n-1])
    IN  within[Len(g.CFGNodeVec)]

(****************************************************************************)
(* The visit marks lose nothing: the search empties its path only when no   *)
(* way leads to the error loop, over headers as it goes.                    *)
(****************************************************************************)
EmptyMeansUnreachable ==
    pc = "undefined" => ALoop(assertLoopIdx) \notin ReachableElements

(****************************************************************************)
(* The search ends, one way or the other.                                   *)
(****************************************************************************)
LoopTerminates == <>Ended

==============================================================================
