------------------------------- MODULE Verify -------------------------------
(****************************************************************************)
(* main() and KInduction::verify: K counts up from 1 to 5; each round looks *)
(* for the loop or the node that leads to reach_error, goes through the     *)
(* init paths and the error paths of each, and puts each through the base   *)
(* case and the inductive step.  The searches and the unrolling are the     *)
(* operators of Paths and Unroll; the solver may answer anything.           *)
(*                                                                          *)
(* A module under verification is a graph with what the two checks before   *)
(* the searches see of it: whether it calls a function that has a body and  *)
(* whether it has assertions.                                               *)
(****************************************************************************)
EXTENDS Unroll

CONSTANT Modules

ASSUME ModulesAssumption ==
    /\ Modules \subseteq [graph : Graph, hasNotExpandedCalls : BOOLEAN, hasAssertions : BOOLEAN]
    /\ {m.graph : m \in Modules} \subseteq Graphs

(****************************************************************************)
(* What the searches give: a program with a loop has a way into one, as     *)
(* verify() asserts; they come to an end, with sequences of paths; where    *)
(* loops can be left over their header, the paths to an error node are all  *)
(* there are; and a path to an error loop ends in it.                       *)
(****************************************************************************)
ASSUME SearchAssumption ==
    \A gr \in {m.graph : m \in Modules} :
        /\ InitNodesOf(gr) \in Seq(Seq(Nat))
        /\ gr.LCSSAs # << >> => InitNodesOf(gr) # << >>
        /\ VerifyLoops(gr) = {} =>
              \A init \in ToSet(InitNodesOf(gr)) :
                  LET start == StartPath(gr, init)
                      found == ErrPathsInNode(gr, start, FindVerifyNode(gr))
                  IN  /\ found \in Seq(Seq(Path))
                      /\ ExitsAtHeader(gr) =>
                            ToSet(found) = RealPaths(gr, start, FindVerifyNode(gr))
        /\ \A init \in ToSet(InitNodesOf(gr)), l \in VerifyLoops(gr) :
              LET found == PathToLoop(gr, init, l)
              IN  found # << >> =>
                      /\ found \in Seq(Path)
                      /\ Last(found).type = "ERRORLOOP"
                      /\ NamedErrors(gr, Last(found)) # {} => ErrorNode(gr, Last(found)) \in Path

LastK == 5

VARIABLES
    mod,            \* the module under verification
    K,              \* main's loop variable
    i,              \* the init path
    path,           \* the error paths of that init path
    j,              \* the one under verification
    errorLoopCount, \* the round of its base case
    pc,             \* where verify() is
    verdict,        \* what main() reports, "none" before; "crash" when an
                    \* assertion stops the program
    failed,         \* the assertion that stopped it
    refuted,        \* history: the base cases the solver refuted
    inductive       \* history: the pairs of answers of the inductive steps

vars == <<mod, K, i, path, j, errorLoopCount, pc, verdict, failed, refuted, inductive>>

history == <<refuted, inductive>>

g == mod.graph

initNodes == InitNodesOf(g)

errorLoops == VerifyLoops(g)

InLoop == errorLoops # {}

assertLoopIdx == CHOOSE l \in errorLoops : TRUE

Init ==
    /\ mod \in Modules
    /\ K = 1
    /\ i = 1
    /\ path = << >>
    /\ j = 1
    /\ errorLoopCount = 1
    /\ pc = "start"
    /\ verdict = "none"
    /\ failed = "nothing"
    /\ refuted = {}
    /\ inductive = {}

Report(v) ==
    /\ verdict' = v
    /\ pc' = "exit"
    /\ UNCHANGED <<mod, K, i, path, j, errorLoopCount, failed>>

Crash(what) ==
    /\ verdict' = "crash"
    /\ failed' = what
    /\ pc' = "exit"
    /\ UNCHANGED <<mod, K, i, path, j, errorLoopCount>>

------------------------------------------------------------------------------
(****************************************************************************)
(* The start of a round.  UNKNOWN sends main() to the next K.               *)
(****************************************************************************)
NotExpanded ==
    /\ pc = "start"
    /\ K <= LastK
    /\ mod.hasNotExpandedCalls
    /\ K' = K + 1
    /\ UNCHANGED <<mod, i, path, j, errorLoopCount, pc, verdict, failed, history>>

GiveUp ==
    /\ pc = "start"
    /\ K > LastK
    /\ Report("UNKNOWN")
    /\ UNCHANGED history

Checked == pc = "start" /\ K <= LastK /\ ~mod.hasNotExpandedCalls

NoAssertions ==
    /\ Checked
    /\ ~mod.hasAssertions
    /\ Report("TRUE")
    /\ UNCHANGED history

NoLoops ==
    /\ Checked
    /\ mod.hasAssertions
    /\ g.LCSSAs = << >>
    /\ Crash("LCSSAInfo.size() > 0")
    /\ UNCHANGED history

TwoErrorLoops ==
    /\ Checked
    /\ mod.hasAssertions
    /\ Cardinality(errorLoops) > 1
    /\ Crash("index == -1")
    /\ UNCHANGED history

FindTarget ==
    /\ Checked
    /\ mod.hasAssertions
    /\ g.LCSSAs # << >>
    /\ Cardinality(errorLoops) <= 1
    /\ i' = 1
    /\ pc' = "initPath"
    /\ UNCHANGED <<mod, K, path, j, errorLoopCount, verdict, failed, history>>

------------------------------------------------------------------------------
(****************************************************************************)
(* The loop over the init paths.                                            *)
(****************************************************************************)
EachPathFromSecond(paths) ==
    /\ path' = paths
    /\ j' = 2
    /\ errorLoopCount' = 1
    /\ pc' = "base"
    /\ UNCHANGED <<mod, K, i, verdict, failed, history>>

EachPath(paths) ==
    /\ path' = paths
    /\ j' = 1
    /\ errorLoopCount' = 1
    /\ pc' = "base"
    /\ UNCHANGED <<mod, K, i, verdict, failed, history>>

ToLoop == PathToLoop(g, initNodes[i], assertLoopIdx)

CollectErrInLoop ==
    /\ pc = "initPath"
    /\ i <= Len(initNodes)
    /\ InLoop
    /\ ToLoop # << >>
    /\ NamedErrors(g, Last(ToLoop)) # {}
    /\ EachPath(<<Append(ToLoop, ErrorNode(g, Last(ToLoop)))>>)

LoseLoop ==
    /\ pc = "initPath"
    /\ i <= Len(initNodes)
    /\ InLoop
    /\ ToLoop = << >>
    /\ Crash("path.back()")
    /\ UNCHANGED history

LoseErrorNode ==
    /\ pc = "initPath"
    /\ i <= Len(initNodes)
    /\ InLoop
    /\ ToLoop # << >>
    /\ NamedErrors(g, Last(ToLoop)) = {}
    /\ Crash("i != childs.size()")
    /\ UNCHANGED history

CollectErrInNode ==
    /\ pc = "initPath"
    /\ i <= Len(initNodes)
    /\ ~InLoop
    /\ EachPath(ErrPathsInNode(g, StartPath(g, initNodes[i]), FindVerifyNode(g)))

AllVerified ==
    /\ pc = "initPath"
    /\ i > Len(initNodes)
    /\ Report("TRUE")
    /\ UNCHANGED history

SameInitPath ==
    /\ pc = "base"
    /\ j > Len(path)
    /\ pc' = "initPath"
    /\ UNCHANGED <<mod, K, i, path, j, errorLoopCount, verdict, failed, history>>

NextInitPath ==
    /\ pc = "base"
    /\ j > Len(path)
    /\ i' = i + 1
    /\ pc' = "initPath"
    /\ UNCHANGED <<mod, K, path, j, errorLoopCount, verdict, failed, history>>

------------------------------------------------------------------------------
(****************************************************************************)
(* The base case of one path.                                               *)
(****************************************************************************)
InBaseCaseOneMore == pc = "base" /\ j <= Len(path) /\ errorLoopCount <= K + 1

InBaseCase == pc = "base" /\ j <= Len(path) /\ errorLoopCount <= K

BaseNodes == UnrollPath(g, path[j], K, errorLoopCount)

NotRotated == \E n \in DOMAIN path[j] : ElementNotRotated(g, path[j][n])

BaseNotRotated ==
    /\ InBaseCase
    /\ NotRotated
    /\ Crash("bbVec.back()")
    /\ UNCHANGED history

BaseEncodingFails ==
    /\ InBaseCase
    /\ ~NotRotated
    /\ ~IsWalk(g, BaseNodes)
    /\ Crash("encoding")
    /\ UNCHANGED history

BaseCaseId == <<i, j, errorLoopCount>>

BaseUnsat ==
    /\ InBaseCase
    /\ ~NotRotated
    /\ BranchesFollowed(g, BaseNodes)
    /\ errorLoopCount' = errorLoopCount + 1
    /\ refuted' = refuted \cup {BaseCaseId}
    /\ UNCHANGED <<mod, K, i, path, j, pc, verdict, failed, inductive>>

BaseSat ==
    /\ InBaseCase
    /\ ~NotRotated
    /\ BranchesFollowed(g, BaseNodes)
    /\ Report("FALSE")
    /\ UNCHANGED history

(****************************************************************************)
(* A mistake: what cannot be decided passes.                                *)
(****************************************************************************)
BaseUndecidedPasses ==
    /\ InBaseCase
    /\ ~NotRotated
    /\ BranchesFollowed(g, BaseNodes)
    /\ errorLoopCount' = errorLoopCount + 1
    /\ UNCHANGED <<mod, K, i, path, j, pc, verdict, failed, history>>

(****************************************************************************)
(* An instruction the encoding does not know, or the answer unknown.        *)
(****************************************************************************)
BaseUndecided ==
    /\ InBaseCase
    /\ ~NotRotated
    /\ BranchesFollowed(g, BaseNodes)
    /\ Crash("base case")
    /\ UNCHANGED history

------------------------------------------------------------------------------
(****************************************************************************)
(* The inductive step of one path.                                          *)
(****************************************************************************)
InInductiveStep == pc = "base" /\ j <= Len(path) /\ errorLoopCount > K

Pattern1Unsupported ==
    /\ InInductiveStep
    /\ IsPattern1(path[j])
    /\ Crash("Pattern 1")
    /\ UNCHANGED history

(****************************************************************************)
(* Another inductive step: one that has a model sends main() to the next K. *)
(****************************************************************************)
InductiveSatRetries ==
    /\ InInductiveStep
    /\ ~IsPattern1(path[j])
    /\ \E base, step \in {"unsat", "sat"} :
          /\ inductive' = inductive \cup {<<base, step>>}
          /\ IF step = "sat"
             THEN K' = K + 1 /\ pc' = "start" /\ UNCHANGED <<j, errorLoopCount>>
             ELSE j' = j + 1 /\ errorLoopCount' = 1 /\ UNCHANGED <<K, pc>>
    /\ UNCHANGED <<mod, i, path, verdict, failed, refuted>>

(****************************************************************************)
(* Both queries are answered and both answers are only printed.             *)
(****************************************************************************)
InductivePass ==
    /\ InInductiveStep
    /\ ~IsPattern1(path[j])
    /\ \E base, step \in {"unsat", "sat"} : inductive' = inductive \cup {<<base, step>>}
    /\ j' = j + 1
    /\ errorLoopCount' = 1
    /\ UNCHANGED <<mod, K, i, path, pc, verdict, failed, refuted>>

InductiveUndecided ==
    /\ InInductiveStep
    /\ ~IsPattern1(path[j])
    /\ Crash("inductive step")
    /\ UNCHANGED history

Terminated == pc = "exit" /\ UNCHANGED vars

Next ==
    \/ NotExpanded \/ GiveUp \/ NoAssertions \/ NoLoops \/ TwoErrorLoops \/ FindTarget
    \/ CollectErrInLoop \/ LoseLoop \/ LoseErrorNode \/ CollectErrInNode
    \/ AllVerified \/ NextInitPath
    \/ BaseNotRotated \/ BaseEncodingFails \/ BaseUnsat \/ BaseSat \/ BaseUndecided
    \/ Pattern1Unsupported \/ InductivePass \/ InductiveUndecided
    \/ Terminated

Spec == Init /\ [][Next]_vars

FairSpec == Spec /\ WF_vars(Next)

------------------------------------------------------------------------------
ErrPathCount(a) ==
    IF InLoop THEN 1
    ELSE Len(ErrPathsInNode(g, StartPath(g, initNodes[a]), FindVerifyNode(g)))

(****************************************************************************)
(* The base cases the program calls for: a round for each error path of     *)
(* each init path and each count up to K.                                   *)
(****************************************************************************)
BaseCases ==
    UNION {{<<a, b, c>> : b \in 1..ErrPathCount(a), c \in 1..K} : a \in DOMAIN initNodes}

TypeOK ==
    /\ mod \in [graph : Graph, hasNotExpandedCalls : BOOLEAN, hasAssertions : BOOLEAN]
    /\ K \in 1..LastK+1
    /\ i \in 1..Len(initNodes)+1
    /\ path \in Seq(Seq(Path))
    /\ j \in 1..Len(path)+1
    /\ errorLoopCount \in 1..LastK+1
    /\ pc \in {"start", "initPath", "base", "exit"}
    /\ verdict \in {"none", "TRUE", "FALSE", "UNKNOWN", "crash"}
    /\ failed # "nothing" => verdict = "crash"
    /\ refuted \subseteq BaseCases
    /\ inductive \subseteq {"unsat", "sat"} \X {"unsat", "sat"}

(****************************************************************************)
(* TRUE means that the solver refuted every error path there is: for each   *)
(* way into a first loop and each path from there to the error node, read   *)
(* off the graph itself, some refuted base case is that path.  It holds     *)
(* where loops can be left over their header.                               *)
(****************************************************************************)
TrueCoversErrorPaths ==
    verdict = "TRUE" /\ mod.hasAssertions /\ ExitsAtHeader(g) =>
        \A a \in DOMAIN initNodes :
            LET start == StartPath(g, initNodes[a])
                found == ErrPathsInNode(g, start, FindVerifyNode(g))
            IN  \A p \in RealPaths(g, start, FindVerifyNode(g)) :
                    \E b \in DOMAIN found : found[b] = p /\ <<a, b, K>> \in refuted

(****************************************************************************)
(* No K but the first ever reaches the solver: the only way to the next K   *)
(* is UNKNOWN, and what makes verify() return it does not depend on K.      *)
(****************************************************************************)
OnlyFirstKDecides ==
    K > 1 => refuted = {} /\ inductive = {} /\ verdict \in {"none", "UNKNOWN"}

(****************************************************************************)
(* The verifier ends: the answer, or a failed assertion.                    *)
(****************************************************************************)
Terminates == <>(pc = "exit")

(****************************************************************************)
(* verify() implements Verdict: the base cases still open are those of the  *)
(* program that are not refuted.                                            *)
(****************************************************************************)
Open == IF mod.hasAssertions /\ ~mod.hasNotExpandedCalls THEN BaseCases \ refuted ELSE {}

Promise == INSTANCE Verdict WITH open <- Open

ImplementsVerdict == Promise!Spec

------------------------------------------------------------------------------
(****************************************************************************)
(* What the program says of itself, and does not keep.                      *)
(*                                                                          *)
(* "Solution Found by Induction": behind TRUE there is, for each block that *)
(* calls reach_error, a refuted base case of a path that ends there.        *)
(****************************************************************************)
EndOf(baseCase) ==
    LET found == ErrPathsInNode(g, StartPath(g, initNodes[baseCase[1]]), FindVerifyNode(g))
    IN  g.CFGNodeVec[Last(found[baseCase[2]]).idx].bb

FoundByInduction ==
    verdict = "TRUE" /\ ~InLoop =>
        \A err \in g.errors : \E baseCase \in refuted : EndOf(baseCase) = err

(****************************************************************************)
(* "INDUCTIVE STEP PASS": behind TRUE no inductive step has a model.        *)
(****************************************************************************)
InductiveStepsPass ==
    verdict = "TRUE" => \A pair \in inductive : pair[2] # "sat"

==============================================================================
