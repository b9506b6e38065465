------------------------------ MODULE BaseCase ------------------------------
(****************************************************************************)
(* KInduction::baseCase: one query to the solver for each errorLoopCount    *)
(* from 1 to k.  The node sequence of a query is built element by element   *)
(* in a vector that all rounds share; the first satisfiable query ends it.  *)
(****************************************************************************)
EXTENDS Unroll

CONSTANT MaxK       \* bound on k; main() goes up to 5

ASSUME MaxKAssumption == MaxK \in Nat \ {0}

VARIABLES
    g,              \* the graph
    path,           \* the path
    k,              \* the parameter k
    errorLoopCount, \* the round
    i,              \* the next element of the path to unroll
    baseNodeIdx,    \* the node sequence of the round, as far as it is built
    queries,        \* history: the queries of the rounds so far
    answer,         \* the solver's last answer
    pc              \* "unroll", "true", "false" (the returned value); "abort"
                    \* and "notRotated" when an assertion fails

vars == <<g, path, k, errorLoopCount, i, baseNodeIdx, queries, answer, pc>>

(****************************************************************************)
(* The paths the searches hand to baseCase.                                 *)
(****************************************************************************)
PathsInNode(gr) ==
    UNION {ToSet(ErrPathsInNode(gr, StartPath(gr, init), FindVerifyNode(gr))) :
                init \in ToSet(InitNodesOf(gr))}

WithErrorNode(gr, p) ==
    IF p = << >> \/ NamedErrors(gr, Last(p)) = {} THEN {}
    ELSE {Append(p, ErrorNode(gr, Last(p)))}

PathsInLoop(gr) ==
    UNION {WithErrorNode(gr, PathToLoop(gr, init, l)) :
                init \in ToSet(InitNodesOf(gr)), l \in VerifyLoops(gr)}

ErrPaths(gr) == IF VerifyLoops(gr) = {} THEN PathsInNode(gr) ELSE PathsInLoop(gr)

(****************************************************************************)
(* What the searches promise of them: a chain of nodes and loops that has   *)
(* no block twice and ends in the error node, with an error loop nowhere    *)
(* but before that.                                                         *)
(****************************************************************************)
ASSUME ErrPathsAssumption ==
    \A gr \in Graphs : \A p \in ErrPaths(gr) :
        /\ p \in Seq(Path) /\ p # << >>
        /\ IsChain(gr, p)
        /\ Last(p).type = "ERRORNODE"
        /\ \A n \in 1..Len(p)-1 :
              p[n].type \in {"ALoop", "ANode"} \/ (n = Len(p)-1 /\ p[n].type = "ERRORLOOP")
        /\ \A n \in DOMAIN p :
              p[n].idx \in IF p[n].type \in {"ALoop", "ERRORLOOP"}
                          THEN DOMAIN gr.LCSSAs ELSE DOMAIN gr.CFGNodeVec
        /\ \A m, n \in DOMAIN p : NodesOf(gr, p[m]) \cap NodesOf(gr, p[n]) # {} => m = n

(****************************************************************************)
(* LLVM lists each block of a loop once, and the latch leads back to the    *)
(* header.  A loop without one has several edges back, so several blocks:   *)
(* of the two ways a single one branches, one leaves the loop.              *)
(****************************************************************************)
ASSUME LoopsAssumption ==
    \A gr \in Graphs : \A l \in DOMAIN gr.LCSSAs :
        LET lcssa == gr.LCSSAs[l]
        IN  /\ \A m, n \in DOMAIN lcssa.bbVec : lcssa.bbVec[m] = lcssa.bbVec[n] => m = n
            /\ lcssa.latch = NoBlock => Len(lcssa.bbVec) > 1
            /\ lcssa.latch # NoBlock =>
                  IsEdge(gr, IndexByBB(gr.CFGNodeVec, lcssa.latch),
                             IndexByBB(gr.CFGNodeVec, lcssa.header))

Init ==
    /\ g \in Graphs
    /\ path \in ErrPaths(g)
    /\ k \in 1..MaxK
    /\ errorLoopCount = 1
    /\ i = 1
    /\ baseNodeIdx = << >>
    /\ queries = << >>
    /\ answer = "none"
    /\ pc = "unroll"

Unrolling == pc = "unroll" /\ i <= Len(path)

(****************************************************************************)
(* assert: the block vector of a loop starts with the header and ends with  *)
(* the latch.                                                               *)
(****************************************************************************)
NotRotated ==
    /\ Unrolling
    /\ ElementNotRotated(g, path[i])
    /\ pc' = "notRotated"
    /\ UNCHANGED <<g, path, k, errorLoopCount, i, baseNodeIdx, queries, answer>>

PushElement ==
    /\ Unrolling
    /\ ~ElementNotRotated(g, path[i])
    /\ baseNodeIdx' = baseNodeIdx \o UnrollElement(g, path, i, k, errorLoopCount)
    /\ i' = i + 1
    /\ UNCHANGED <<g, path, k, errorLoopCount, queries, answer, pc>>

(****************************************************************************)
(* baseCaseSMTChecking.  A broken branch always stops the encoding, any     *)
(* other break in the walk only at a phi node, and an instruction that is   *)
(* not supported wherever it stands.                                        *)
(****************************************************************************)
EncodingFails ==
    /\ pc = "unroll"
    /\ i > Len(path)
    /\ pc' = "abort"
    /\ UNCHANGED <<g, path, k, errorLoopCount, i, baseNodeIdx, queries, answer>>

Query(result) ==
    /\ pc = "unroll"
    /\ i > Len(path)
    /\ BranchesFollowed(g, baseNodeIdx)
    /\ queries' = Append(queries, [nodes |-> baseNodeIdx, count |-> errorLoopCount])
    /\ answer' = result

UnsatNotCleared ==
    /\ Query("unsat")
    /\ i' = 1
    /\ errorLoopCount' = errorLoopCount + 1
    /\ pc' = IF errorLoopCount < k THEN "unroll" ELSE "true"
    /\ UNCHANGED <<g, path, k, baseNodeIdx>>

Unsat ==
    /\ Query("unsat")
    /\ baseNodeIdx' = << >>
    /\ i' = 1
    /\ errorLoopCount' = errorLoopCount + 1
    /\ pc' = IF errorLoopCount < k THEN "unroll" ELSE "true"
    /\ UNCHANGED <<g, path, k>>

Sat ==
    /\ Query("sat")
    /\ pc' = "false"
    /\ UNCHANGED <<g, path, k, errorLoopCount, i, baseNodeIdx>>

Unknown ==
    /\ Query("unknown")
    /\ pc' = "abort"
    /\ UNCHANGED <<g, path, k, errorLoopCount, i, baseNodeIdx>>

Terminated == pc \in {"true", "false", "abort", "notRotated"} /\ UNCHANGED vars

Next ==
    \/ NotRotated \/ PushElement \/ EncodingFails
    \/ Unsat \/ Sat \/ Unknown \/ Terminated

Spec == Init /\ [][Next]_vars

------------------------------------------------------------------------------
TypeOK ==
    /\ g \in Graph
    /\ path \in Seq(Path)
    /\ k \in 1..MaxK
    /\ errorLoopCount \in 1..k+1
    /\ i \in 1..Len(path)+1
    /\ baseNodeIdx \in Seq(DOMAIN g.CFGNodeVec)
    /\ \A n \in DOMAIN queries : queries[n].nodes \in Seq(DOMAIN g.CFGNodeVec)
    /\ answer \in {"none", "unsat", "sat", "unknown"}
    /\ pc \in {"unroll", "true", "false", "abort", "notRotated"}

(****************************************************************************)
(* The rounds do not run into each other: what is built is the unrolling of *)
(* the elements before i for this round alone, every query asked was the    *)
(* whole path's for its own round, and a base case that passes has asked    *)
(* all of them.                                                             *)
(****************************************************************************)
RoundsAreSeparate ==
    /\ TypeOK
    /\ pc = "true" => Len(queries) = k
    /\ baseNodeIdx = FlattenSeq([n \in 1..i-1 |-> UnrollElement(g, path, n, k, errorLoopCount)])
    /\ \A n \in DOMAIN queries :
          /\ queries[n].count = n
          /\ queries[n].nodes = UnrollPath(g, path, k, n)

(****************************************************************************)
(* The loops of a path are single blocks.                                   *)
(****************************************************************************)
SingleBlockLoops ==
    \A n \in DOMAIN path : path[n].type \in {"ALoop", "ERRORLOOP"} =>
        Cardinality(NodesOf(g, path[n])) = 1

Times(nodes, n) == Cardinality({m \in DOMAIN nodes : nodes[m] = n})

(****************************************************************************)
(* When the loops are single blocks, what the solver is asked about is an   *)
(* execution: a walk along the edges, but for the error node, which an      *)
(* error loop's last round already ends with and which then comes a second  *)
(* time.  Each loop on the way is run k times, the error loop as often as   *)
(* the round says.                                                          *)
(****************************************************************************)
QueriesAreExecutions ==
    SingleBlockLoops =>
        \A n \in DOMAIN queries :
            LET q == queries[n]
                walk == IF IsPattern1(path) THEN Front(q.nodes) ELSE q.nodes
            IN  /\ IsWalk(g, walk)
                /\ Last(q.nodes) = Last(path).idx
                /\ \A m \in DOMAIN path :
                      /\ path[m].type = "ALoop" => Times(q.nodes, ExitNode(g, path[m])) = k
                      /\ path[m].type = "ERRORLOOP" => Times(q.nodes, ExitNode(g, path[m])) = q.count

(****************************************************************************)
(* assert(false) in the encoding of a branch: the node after a conditional  *)
(* branch is one of its targets.                                            *)
(****************************************************************************)
BranchTargetsMatch ==
    pc = "unroll" /\ i > Len(path) => BranchesFollowed(g, baseNodeIdx)
==============================================================================
