--------------------------- MODULE InductiveStep ---------------------------
(****************************************************************************)
(* KInduction::inductiveStep for a path whose base case has passed: the     *)
(* path is unrolled with k rounds of each loop and once more with k + 1,    *)
(* both sequences are encoded, and the solver is asked about one after the  *)
(* other.  verify() calls baseCase and inductiveStep on the same path.      *)
(*                                                                          *)
(* The encoding is looser than that of the base case: it asserts that a     *)
(* branch is followed by one of its targets, but gives a phi node the first *)
(* of its values that is no constant, whatever block comes before it.  So   *)
(* the first query need not be answered as the base case was.               *)
(****************************************************************************)
EXTENDS BaseCase

VARIABLES
    step,             \* where inductiveStep is; at the end "passed", or the
                      \* assertion that stopped it
    e,                \* the next element of the path to unroll
    stepNodeIdx,      \* its baseNodeIdx
    inductiveNodeIdx, \* the sequence with a round more
    answers           \* the solver's answers, which are only printed

stepVars == <<step, e, stepNodeIdx, inductiveNodeIdx, answers>>

allVars == <<vars, stepVars>>

Assertions == {"pattern1", "notRotated", "branch", "branchAtEnd", "phi", "globalAgain", "unknown"}

StepInit ==
    /\ Init
    /\ step = "wait"
    /\ e = 1
    /\ stepNodeIdx = << >>
    /\ inductiveNodeIdx = << >>
    /\ answers = << >>

RunBaseCase == step = "wait" /\ Next /\ UNCHANGED stepVars

Unpassed(s) == step = s /\ e <= Len(path)

Encoded ==
    CASE step = "encodeBase" -> stepNodeIdx
      [] step = "encodeInduction" -> inductiveNodeIdx
      [] OTHER -> << >>

(****************************************************************************)
(* When the assertions fail or, depending on the instructions of a block,   *)
(* may fail.  A path that ends in an error loop is not supported.           *)
(****************************************************************************)
EndsInErrorLoop == step = "wait" /\ pc = "true" /\ IsPattern1(path)

(****************************************************************************)
(* The first and the last of a block vector are the ends of the back edge.  *)
(****************************************************************************)
LoopNotRotated == (Unpassed("base") \/ Unpassed("induction")) /\ ElementNotRotated(g, path[e])

(****************************************************************************)
(* The node after a conditional branch is one of its targets; and there is  *)
(* one, where the base case's test (BranchPastEnd of Encode) lets it read   *)
(* on behind the sequence.                                                  *)
(****************************************************************************)
BranchMissed == ~BranchesFollowed(g, Encoded)

BranchAtEnd == Encoded # << >> /\ Len(g.CFGNodeVec[Last(Encoded)].childs) > 1

(****************************************************************************)
(* A block with a predecessor may have a phi node (loop-closed form has     *)
(* them behind a loop for a single value), all of whose values are          *)
(* constants, or the first other one a pointer that was not met yet.        *)
(****************************************************************************)
MayHavePhi(n) == \E m \in DOMAIN g.CFGNodeVec : IsEdge(g, m, n)

UnsupportedPhi == step = "encodeBase" /\ \E n \in ToSet(stepNodeIdx) : MayHavePhi(n)

(****************************************************************************)
(* A block of a loop that the base case has passed once may store to a      *)
(* global; a second store to it in one sequence is not supported.           *)
(****************************************************************************)
MayStoreAgain(n) == Times(stepNodeIdx, n) = 1 /\ Times(inductiveNodeIdx, n) > 1

GlobalAgain == step = "encodeInduction" /\ \E n \in ToSet(inductiveNodeIdx) : MayStoreAgain(n)

(****************************************************************************)
(* What else the code asserts cannot fail here: phis aside, the step        *)
(* supports what the base case does, which has encoded all these blocks;    *)
(* and each sequence leads to some problem, as size() > 0 asks, since it    *)
(* leaves a loop by the branch in its header.                               *)
(****************************************************************************)
UnrollingStops ==
    /\ \/ EndsInErrorLoop /\ step' = "pattern1"
       \/ LoopNotRotated /\ step' = "notRotated"
    /\ UNCHANGED <<vars, e, stepNodeIdx, inductiveNodeIdx, answers>>

EncodingStops ==
    /\ \/ BranchMissed /\ step' = "branch"
       \/ BranchAtEnd /\ step' = "branchAtEnd"
       \/ UnsupportedPhi /\ step' = "phi"
       \/ GlobalAgain /\ step' = "globalAgain"
    /\ UNCHANGED <<vars, e, stepNodeIdx, inductiveNodeIdx, answers>>

NoAnswer ==
    /\ step \in {"askBase", "askInduction"}
    /\ step' = "unknown"
    /\ UNCHANGED <<vars, e, stepNodeIdx, inductiveNodeIdx, answers>>

(****************************************************************************)
(* The two loops over the path.                                             *)
(****************************************************************************)
StartStep ==
    /\ step = "wait"
    /\ pc = "true"
    /\ ~IsPattern1(path)
    /\ step' = "base"
    /\ UNCHANGED <<vars, e, stepNodeIdx, inductiveNodeIdx, answers>>

PushBase ==
    /\ Unpassed("base")
    /\ ~LoopNotRotated
    /\ stepNodeIdx' = stepNodeIdx \o UnrollElement(g, path, e, k, 1)
    /\ e' = e + 1
    /\ UNCHANGED <<vars, step, inductiveNodeIdx, answers>>

StartInduction ==
    /\ step = "base"
    /\ e > Len(path)
    /\ step' = "induction"
    /\ e' = 1
    /\ UNCHANGED <<vars, stepNodeIdx, inductiveNodeIdx, answers>>

(****************************************************************************)
(* Mistakes: as many rounds as the base case; a last round that leaves out  *)
(* the header.                                                              *)
(****************************************************************************)
PushSameRounds ==
    /\ Unpassed("induction")
    /\ ~LoopNotRotated
    /\ inductiveNodeIdx' = inductiveNodeIdx \o UnrollElement(g, path, e, k, 1)
    /\ e' = e + 1
    /\ UNCHANGED <<vars, step, stepNodeIdx, answers>>

PushHeaderless ==
    /\ Unpassed("induction")
    /\ ~LoopNotRotated
    /\ inductiveNodeIdx' = inductiveNodeIdx \o UnrollElement(g, path, e, k, 1)
            \o (IF path[e].type = "ALoop" THEN Tail(LoopBody(g, path[e].idx)) ELSE << >>)
    /\ e' = e + 1
    /\ UNCHANGED <<vars, step, stepNodeIdx, answers>>

PushInduction ==
    /\ Unpassed("induction")
    /\ ~LoopNotRotated
    /\ inductiveNodeIdx' = inductiveNodeIdx \o UnrollElement(g, path, e, k + 1, 1)
    /\ e' = e + 1
    /\ UNCHANGED <<vars, step, stepNodeIdx, answers>>

EndInduction ==
    /\ step = "induction"
    /\ e > Len(path)
    /\ step' = "encodeBase"
    /\ UNCHANGED <<vars, e, stepNodeIdx, inductiveNodeIdx, answers>>

(****************************************************************************)
(* inductiveStepChecking: both encodings, then both queries.                *)
(****************************************************************************)
Encode ==
    /\ step \in {"encodeBase", "encodeInduction"}
    /\ ~BranchMissed /\ ~BranchAtEnd
    /\ step' = IF step = "encodeBase" THEN "encodeInduction" ELSE "askBase"
    /\ UNCHANGED <<vars, e, stepNodeIdx, inductiveNodeIdx, answers>>

Ask ==
    /\ step \in {"askBase", "askInduction"}
    /\ \E result \in {"unsat", "sat"} : answers' = Append(answers, result)
    /\ step' = IF step = "askBase" THEN "askInduction" ELSE "passed"
    /\ UNCHANGED <<vars, e, stepNodeIdx, inductiveNodeIdx>>

StepEnded == step \in Assertions \cup {"passed"} /\ UNCHANGED allVars

StepNext ==
    \/ RunBaseCase \/ UnrollingStops \/ EncodingStops \/ NoAnswer
    \/ StartStep \/ PushBase \/ StartInduction \/ PushInduction \/ EndInduction
    \/ Encode \/ Ask \/ StepEnded

StepSpec == StepInit /\ [][StepNext]_allVars

------------------------------------------------------------------------------
(****************************************************************************)
(* The step from k to k + 1: what the first query is about is what every    *)
(* round of the base case has refuted, and the second is about an execution *)
(* that runs each loop of one block exactly once more and no other node     *)
(* more often.                                                              *)
(****************************************************************************)
OneMoreRound ==
    step \in {"encodeBase", "encodeInduction", "askBase", "askInduction", "passed"} =>
        /\ \A n \in DOMAIN queries : stepNodeIdx = queries[n].nodes
        /\ SingleBlockLoops =>
              /\ IsWalk(g, inductiveNodeIdx)
              /\ Last(inductiveNodeIdx) = Last(path).idx
              /\ \A n \in DOMAIN g.CFGNodeVec :
                    Times(inductiveNodeIdx, n) - Times(stepNodeIdx, n) =
                        Cardinality({m \in DOMAIN path :
                            path[m].type = "ALoop" /\ ExitNode(g, path[m]) = n})

(****************************************************************************)
(* A path that has passed the base case is one the step can unroll and      *)
(* follow as well: the extra round of a loop of any shape takes its back    *)
(* edge and no other new branch.  What can stop the step is an error loop,  *)
(* a path that ends with a branch, a phi or a second store to a global,     *)
(* where the base case may pass, or a solver without an answer.             *)
(****************************************************************************)
NoNewStop == step \notin {"notRotated", "branch"}
==============================================================================
