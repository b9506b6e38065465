----------------------------- MODULE VerifyProofs -----------------------------
(****************************************************************************)
(* That verify() and main() keep the promise of Verdict, for every set of   *)
(* modules: TRUE only when every base case of the program was refuted,      *)
(* FALSE only when one that was not has a model; and that no K but the      *)
(* first ever reaches the solver.                                           *)
(****************************************************************************)
EXTENDS Verify, TLAPS, SequenceTheorems

(****************************************************************************)
(* The round, path and count of a base case that come before the current    *)
(* ones.                                                                    *)
(****************************************************************************)
Before(a, b, c) ==
    \/ a < i
    \/ a = i /\ b < j
    \/ a = i /\ b = j /\ c < errorLoopCount

(****************************************************************************)
(* The base cases as a predicate.                                           *)
(****************************************************************************)
IsCase(a, b, c) == a \in DOMAIN initNodes /\ b \in 1..ErrPathCount(a) /\ c \in 1..K

Control ==
    /\ mod \in Modules
    /\ K \in Nat \ {0}
    /\ i \in Nat \ {0}
    /\ j \in Nat \ {0}
    /\ errorLoopCount \in Nat \ {0}
    /\ pc \in {"start", "initPath", "base", "exit"}
    /\ pc # "exit" => verdict = "none"

(****************************************************************************)
(* Only a module with a call is given a second round, and it never gets     *)
(* past the start of one.                                                   *)
(****************************************************************************)
Rounds ==
    /\ pc = "start" => refuted = {} /\ inductive = {}
    /\ K > 1 => mod.hasNotExpandedCalls
    /\ mod.hasNotExpandedCalls =>
          /\ pc \in {"start", "exit"}
          /\ refuted = {} /\ inductive = {}
          /\ verdict \in {"none", "UNKNOWN"}
    /\ pc \in {"initPath", "base"} => mod.hasAssertions

(****************************************************************************)
(* The refuted base cases are those the loops have been through.            *)
(****************************************************************************)
Progress ==
    /\ pc = "initPath" =>
          \A a, b, c : IsCase(a, b, c) => (<<a, b, c>> \in refuted <=> a < i)
    /\ pc = "base" =>
          /\ i <= Len(initNodes)
          /\ Len(path) = ErrPathCount(i)
          /\ \A a, b, c : IsCase(a, b, c) => (<<a, b, c>> \in refuted <=> Before(a, b, c))

Inv == Control /\ Rounds /\ Progress

(****************************************************************************)
(* What the searches grant.                                                 *)
(****************************************************************************)
LEMMA SearchFacts ==
    ASSUME mod \in Modules
    PROVE  /\ Len(initNodes) \in Nat
           /\ DOMAIN initNodes = 1..Len(initNodes)
           /\ \A a \in DOMAIN initNodes : ErrPathCount(a) \in Nat
<1>1. mod.graph \in {m.graph : m \in Modules} /\ initNodes \in Seq(Seq(Nat))
  BY SearchAssumption DEF initNodes, g
<1>2. Len(initNodes) \in Nat /\ DOMAIN initNodes = 1..Len(initNodes)
  BY <1>1, LenProperties
<1>3. ASSUME NEW a \in DOMAIN initNodes PROVE ErrPathCount(a) \in Nat
  <2>1. CASE InLoop
    BY <2>1 DEF ErrPathCount
  <2>2. CASE ~InLoop
    <3> DEFINE found == ErrPathsInNode(g, StartPath(g, initNodes[a]), FindVerifyNode(g))
    <3>1. VerifyLoops(mod.graph) = {}
      BY <2>2 DEF InLoop, errorLoops, g
    <3>2. initNodes[a] \in ToSet(InitNodesOf(mod.graph))
      BY DEF initNodes, g, ToSet
    <3>3. found \in Seq(Seq(Path))
      BY <1>1, <3>1, <3>2, SearchAssumption DEF g
    <3>4. Len(found) \in Nat
      BY <3>3, LenProperties
    <3> QED
      BY <2>2, <3>4 DEF ErrPathCount
  <2> QED
    BY <2>1, <2>2
<1> QED
  BY <1>2, <1>3

(****************************************************************************)
(* What is fixed by the module does not change while it does not.           *)
(****************************************************************************)
LEMMA SameModule ==
    ASSUME mod' = mod
    PROVE  /\ initNodes' = initNodes
           /\ \A a : ErrPathCount(a)' = ErrPathCount(a)
BY DEF initNodes, g, ErrPathCount, InLoop, errorLoops

(****************************************************************************)
(* The base cases do not change while the module and K do not.              *)
(****************************************************************************)
LEMMA SameCases ==
    ASSUME mod' = mod, K' = K
    PROVE  /\ BaseCases' = BaseCases
           /\ \A a, b, c : IsCase(a, b, c)' <=> IsCase(a, b, c)
<1>1. \A a, b, c : IsCase(a, b, c)' <=> IsCase(a, b, c)
  BY SameModule DEF IsCase
<1>2. BaseCases' = BaseCases
  BY DEF BaseCases, initNodes, g, ErrPathCount, InLoop, errorLoops
<1> QED
  BY <1>1, <1>2

(****************************************************************************)
(* The predicate and the set of base cases agree.                           *)
(****************************************************************************)
LEMMA CaseIsMember ==
    /\ \A a, b, c : IsCase(a, b, c) => <<a, b, c>> \in BaseCases
    /\ \A o \in BaseCases : \E a, b, c : IsCase(a, b, c) /\ o = <<a, b, c>>
<1>1. \A a, b, c : IsCase(a, b, c) => <<a, b, c>> \in BaseCases
  BY DEF IsCase, BaseCases
<1>2. \A o \in BaseCases : \E a, b, c : IsCase(a, b, c) /\ o = <<a, b, c>>
  BY DEF IsCase, BaseCases
<1> QED
  BY <1>1, <1>2

------------------------------------------------------------------------------
(****************************************************************************)
(* The invariant holds when main() starts.                                  *)
(****************************************************************************)
LEMMA InitInv == Init => Inv
BY DEF Init, Inv, Control, Rounds, Progress, ModulesAssumption

(****************************************************************************)
(* A step that ends the run leaves the rest as it is.                       *)
(****************************************************************************)
LEMMA EndInv ==
    ASSUME Inv,
           mod' = mod, K' = K, i' = i, j' = j, errorLoopCount' = errorLoopCount,
           refuted' = refuted, inductive' = inductive,
           pc' = "exit",
           mod.hasNotExpandedCalls => verdict' \in {"none", "UNKNOWN"}
    PROVE  Inv'
BY DEF Inv, Control, Rounds, Progress

(****************************************************************************)
(* The steps at the start of a round keep the invariant.                    *)
(****************************************************************************)
LEMMA StartInv ==
    ASSUME Inv, NotExpanded \/ FindTarget
    PROVE  Inv'
<1>1. CASE NotExpanded
  BY <1>1 DEF NotExpanded, Inv, Control, Rounds, Progress, history
<1>2. CASE FindTarget
  <2>1. Control' /\ Rounds'
    BY <1>2 DEF FindTarget, Checked, Inv, Control, Rounds, history
  <2>2. mod' = mod /\ K' = K /\ i' = 1 /\ pc' = "initPath" /\ refuted' = {}
    BY <1>2 DEF FindTarget, Checked, Inv, Rounds, history
  <2>3. ASSUME NEW a, NEW b, NEW c, IsCase(a, b, c)'
        PROVE  (<<a, b, c>> \in refuted' <=> a < i')
    <3>1. a \in DOMAIN initNodes
      BY <2>2, <2>3, SameCases DEF IsCase
    <3>2. a \in Nat /\ a >= 1
      BY <3>1, SearchFacts DEF Inv, Control
    <3> QED
      BY <2>2, <3>2
  <2> QED
    BY <2>1, <2>2, <2>3 DEF Inv, Progress
<1> QED
  BY <1>1, <1>2

(****************************************************************************)
(* What a base case is made of, in the state the loops are in.              *)
(****************************************************************************)
LEMMA CaseFacts ==
    ASSUME Control, NEW a, NEW b, NEW c, IsCase(a, b, c)
    PROVE  /\ a \in Nat /\ b \in Nat /\ c \in Nat
           /\ 1 <= a /\ 1 <= b /\ 1 <= c
           /\ a <= Len(initNodes) /\ b <= ErrPathCount(a) /\ c <= K
<1>1. Len(initNodes) \in Nat /\ DOMAIN initNodes = 1..Len(initNodes)
  BY SearchFacts DEF Control
<1>2. a \in DOMAIN initNodes /\ b \in 1..ErrPathCount(a) /\ c \in 1..K
  BY DEF IsCase
<1>3. ErrPathCount(a) \in Nat
  BY <1>2, SearchFacts DEF Control
<1> QED
  BY <1>1, <1>2, <1>3 DEF Control

(****************************************************************************)
(* Taking up an init path keeps the invariant: what comes before its first  *)
(* base case is what came before the path.                                  *)
(****************************************************************************)
LEMMA EachPathInv ==
    ASSUME Inv, pc = "initPath", i <= Len(initNodes),
           NEW paths, Len(paths) = ErrPathCount(i), EachPath(paths)
    PROVE  Inv'
<1>1. mod' = mod /\ K' = K /\ i' = i /\ refuted' = refuted /\ inductive' = inductive
      /\ j' = 1 /\ errorLoopCount' = 1 /\ pc' = "base" /\ path' = paths /\ verdict' = verdict
  BY DEF EachPath, history
<1>2. Control' /\ Rounds'
  BY <1>1 DEF Inv, Control, Rounds
<1>3. i' <= Len(initNodes') /\ Len(path') = ErrPathCount(i)'
  BY <1>1, SameModule
<1>4. ASSUME NEW a, NEW b, NEW c, IsCase(a, b, c)'
      PROVE  (<<a, b, c>> \in refuted' <=> Before(a, b, c)')
  <2>1. IsCase(a, b, c)
    BY <1>1, <1>4, SameCases
  <2>2. a \in Nat /\ b \in Nat /\ c \in Nat /\ 1 <= b /\ 1 <= c
    BY <2>1, CaseFacts DEF Inv
  <2>3. (<<a, b, c>> \in refuted <=> a < i)
    BY <2>1 DEF Inv, Progress
  <2>4. (Before(a, b, c)' <=> a < i)
    BY <1>1, <2>2 DEF Before, Inv, Control
  <2> QED
    BY <1>1, <2>3, <2>4
<1>5. Progress'
  BY <1>1, <1>3, <1>4 DEF Progress
<1> QED
  BY <1>2, <1>5 DEF Inv

(****************************************************************************)
(* Both searches give as many error paths as ErrPathCount says.             *)
(****************************************************************************)
LEMMA CollectInv ==
    ASSUME Inv, CollectErrInLoop \/ CollectErrInNode
    PROVE  Inv'
<1>1. CASE CollectErrInLoop
  <2>1. PICK e : EachPath(<<e>>)
    BY <1>1 DEF CollectErrInLoop
  <2>2. Len(<<e>>) = 1
    OBVIOUS
  <2>3. pc = "initPath" /\ i <= Len(initNodes) /\ ErrPathCount(i) = 1
    BY <1>1 DEF CollectErrInLoop, ErrPathCount
  <2> QED
    BY <2>1, <2>2, <2>3, EachPathInv
<1>2. CASE CollectErrInNode
  <2>1. pc = "initPath" /\ i <= Len(initNodes) /\ ~InLoop
    BY <1>2 DEF CollectErrInNode
  <2>2. EachPath(ErrPathsInNode(g, StartPath(g, initNodes[i]), FindVerifyNode(g)))
    BY <1>2 DEF CollectErrInNode
  <2>3. Len(ErrPathsInNode(g, StartPath(g, initNodes[i]), FindVerifyNode(g))) = ErrPathCount(i)
    BY <2>1 DEF ErrPathCount
  <2> QED
    BY <2>1, <2>2, <2>3, EachPathInv
<1> QED
  BY <1>1, <1>2

(****************************************************************************)
(* Leaving an init path keeps the invariant: its base cases are all behind. *)
(****************************************************************************)
LEMMA NextInitPathInv ==
    ASSUME Inv, NextInitPath
    PROVE  Inv'
<1>1. /\ mod' = mod /\ K' = K /\ i' = i + 1 /\ refuted' = refuted /\ inductive' = inductive
      /\ j' = j /\ errorLoopCount' = errorLoopCount /\ pc' = "initPath" /\ verdict' = verdict
      /\ pc = "base" /\ j > Len(path)
  BY DEF NextInitPath, history
<1>2. Control' /\ Rounds'
  BY <1>1 DEF Inv, Control, Rounds
<1>3. ASSUME NEW a, NEW b, NEW c, IsCase(a, b, c)'
      PROVE  (<<a, b, c>> \in refuted' <=> a < i')
  <2>1. IsCase(a, b, c)
    BY <1>1, <1>3, SameCases
  <2>2. a \in Nat /\ b \in Nat /\ c \in Nat /\ b <= ErrPathCount(a)
    BY <2>1, CaseFacts DEF Inv
  <2>3. (<<a, b, c>> \in refuted <=> Before(a, b, c))
    BY <1>1, <2>1 DEF Inv, Progress
  <2>4. Len(path) = ErrPathCount(i) /\ i \in Nat /\ j \in Nat /\ errorLoopCount \in Nat
    BY <1>1 DEF Inv, Progress, Control
  <2>5. CASE a = i
    <3>1. b <= Len(path)
      BY <2>2, <2>4, <2>5
    <3>2. Len(path) \in Nat
      BY <2>1, <2>4, <2>5, SearchFacts DEF IsCase, Inv, Control
    <3>3. b < j
      BY <1>1, <2>2, <2>4, <3>1, <3>2
    <3> QED
      BY <1>1, <2>3, <2>4, <2>5, <3>3 DEF Before
  <2>6. CASE a # i
    BY <1>1, <2>2, <2>3, <2>4, <2>6 DEF Before
  <2> QED
    BY <2>5, <2>6
<1> QED
  BY <1>1, <1>2, <1>3 DEF Inv, Progress

(****************************************************************************)
(* A refuted base case keeps the invariant: it is the one between those     *)
(* before and those after.                                                  *)
(****************************************************************************)
LEMMA BaseUnsatInv ==
    ASSUME Inv, BaseUnsat
    PROVE  Inv'
<1>1. /\ mod' = mod /\ K' = K /\ i' = i /\ j' = j /\ path' = path
      /\ errorLoopCount' = errorLoopCount + 1 /\ inductive' = inductive
      /\ refuted' = refuted \cup {<<i, j, errorLoopCount>>}
      /\ pc = "base" /\ pc' = "base" /\ verdict' = verdict
  BY DEF BaseUnsat, InBaseCase, BaseCaseId
<1>2. Control' /\ Rounds'
  BY <1>1 DEF Inv, Control, Rounds
<1>3. i' <= Len(initNodes') /\ Len(path') = ErrPathCount(i)'
  BY <1>1, SameModule DEF Inv, Progress
<1>4. ASSUME NEW a, NEW b, NEW c, IsCase(a, b, c)'
      PROVE  (<<a, b, c>> \in refuted' <=> Before(a, b, c)')
  <2>1. IsCase(a, b, c)
    BY <1>1, <1>4, SameCases
  <2>2. a \in Nat /\ b \in Nat /\ c \in Nat
    BY <2>1, CaseFacts DEF Inv
  <2>3. (<<a, b, c>> \in refuted <=> Before(a, b, c))
    BY <1>1, <2>1 DEF Inv, Progress
  <2>4. (<<a, b, c>> \in refuted'
           <=> <<a, b, c>> \in refuted \/ (a = i /\ b = j /\ c = errorLoopCount))
    BY <1>1
  <2>5. (Before(a, b, c)' <=> Before(a, b, c) \/ (a = i /\ b = j /\ c = errorLoopCount))
    BY <1>1, <2>2 DEF Before, Inv, Control
  <2> QED
    BY <2>3, <2>4, <2>5
<1> QED
  BY <1>1, <1>2, <1>3, <1>4 DEF Inv, Progress

(****************************************************************************)
(* The inductive step keeps the invariant: it comes after the last round of *)
(* its path.                                                                *)
(****************************************************************************)
LEMMA InductivePassInv ==
    ASSUME Inv, InductivePass
    PROVE  Inv'
<1>1. /\ mod' = mod /\ K' = K /\ i' = i /\ j' = j + 1 /\ path' = path
      /\ errorLoopCount' = 1 /\ refuted' = refuted
      /\ pc = "base" /\ pc' = "base" /\ verdict' = verdict
      /\ errorLoopCount > K
  BY DEF InductivePass, InInductiveStep
<1>2. Control' /\ Rounds'
  BY <1>1 DEF Inv, Control, Rounds
<1>3. i' <= Len(initNodes') /\ Len(path') = ErrPathCount(i)'
  BY <1>1, SameModule DEF Inv, Progress
<1>4. ASSUME NEW a, NEW b, NEW c, IsCase(a, b, c)'
      PROVE  (<<a, b, c>> \in refuted' <=> Before(a, b, c)')
  <2>1. IsCase(a, b, c)
    BY <1>1, <1>4, SameCases
  <2>2. a \in Nat /\ b \in Nat /\ c \in Nat /\ 1 <= c /\ c <= K
    BY <2>1, CaseFacts DEF Inv
  <2>3. (<<a, b, c>> \in refuted <=> Before(a, b, c))
    BY <1>1, <2>1 DEF Inv, Progress
  <2>4. (Before(a, b, c)' <=> Before(a, b, c))
    BY <1>1, <2>2 DEF Before, Inv, Control
  <2> QED
    BY <1>1, <2>3, <2>4
<1> QED
  BY <1>1, <1>2, <1>3, <1>4 DEF Inv, Progress

(****************************************************************************)
(* The steps that end the run keep the invariant.                           *)
(****************************************************************************)
LEMMA AnswersInv ==
    ASSUME Inv,
           GiveUp \/ NoAssertions \/ NoLoops \/ TwoErrorLoops \/ LoseLoop \/ LoseErrorNode
           \/ AllVerified \/ BaseNotRotated \/ BaseEncodingFails \/ BaseSat \/ BaseUndecided
           \/ Pattern1Unsupported \/ InductiveUndecided
    PROVE  Inv'
<1>1. /\ mod' = mod /\ K' = K /\ i' = i /\ j' = j /\ errorLoopCount' = errorLoopCount
      /\ refuted' = refuted /\ inductive' = inductive /\ pc' = "exit"
  BY DEF GiveUp, NoAssertions, NoLoops, TwoErrorLoops, LoseLoop, LoseErrorNode, AllVerified,
         BaseNotRotated, BaseEncodingFails, BaseSat, BaseUndecided, Pattern1Unsupported,
         InductiveUndecided, Report, Crash, history
<1>2. mod.hasNotExpandedCalls => verdict' \in {"none", "UNKNOWN"}
  <2>1. CASE GiveUp
    BY <2>1 DEF GiveUp, Report
  <2>2. CASE NoAssertions \/ NoLoops \/ TwoErrorLoops
    BY <2>2 DEF NoAssertions, NoLoops, TwoErrorLoops, Checked
  <2>3. CASE LoseLoop \/ LoseErrorNode \/ AllVerified
    BY <2>3 DEF LoseLoop, LoseErrorNode, AllVerified, Inv, Rounds
  <2>4. CASE BaseNotRotated \/ BaseEncodingFails \/ BaseSat \/ BaseUndecided
             \/ Pattern1Unsupported \/ InductiveUndecided
    BY <2>4 DEF BaseNotRotated, BaseEncodingFails, BaseSat, BaseUndecided, Pattern1Unsupported,
                InductiveUndecided, InBaseCase, InInductiveStep, Inv, Rounds
  <2> QED
    BY <2>1, <2>2, <2>3, <2>4
<1> QED
  BY <1>1, <1>2, EndInv

(****************************************************************************)
(* Every step keeps the invariant.                                          *)
(****************************************************************************)
LEMMA NextInv ==
    ASSUME Inv, [Next]_vars
    PROVE  Inv'
<1>1. CASE UNCHANGED vars
  <2>1. mod' = mod /\ K' = K
    BY <1>1 DEF vars
  <2>2. initNodes' = initNodes /\ \A a : ErrPathCount(a)' = ErrPathCount(a)
    BY <2>1, SameModule
  <2>3. \A a, b, c : IsCase(a, b, c)' <=> IsCase(a, b, c)
    BY <2>1, SameCases
  <2>4. \A a, b, c : Before(a, b, c)' <=> Before(a, b, c)
    BY <1>1 DEF vars, Before
  <2>5. Control' /\ Rounds'
    BY <1>1 DEF vars, Inv, Control, Rounds
  <2>6. ErrPathCount(i)' = ErrPathCount(i)
    BY <1>1 DEF vars, ErrPathCount, InLoop, errorLoops, initNodes, g
  <2>7. i' = i /\ pc' = pc /\ path' = path /\ refuted' = refuted
    BY <1>1 DEF vars
  <2> QED
    BY <2>2, <2>3, <2>4, <2>5, <2>6, <2>7 DEF Inv, Progress
<1>2. CASE Terminated
  BY <1>1, <1>2 DEF Terminated
<1>3. CASE NotExpanded \/ FindTarget
  BY <1>3, StartInv
<1>4. CASE CollectErrInLoop \/ CollectErrInNode
  BY <1>4, CollectInv
<1>5. CASE NextInitPath
  BY <1>5, NextInitPathInv
<1>6. CASE BaseUnsat
  BY <1>6, BaseUnsatInv
<1>7. CASE InductivePass
  BY <1>7, InductivePassInv
<1> QED
  BY <1>1, <1>2, <1>3, <1>4, <1>5, <1>6, <1>7, AnswersInv DEF Next

(****************************************************************************)
(* The invariant holds in every state of every run.                         *)
(****************************************************************************)
THEOREM Invariance == Spec => []Inv
<1>1. Init => Inv
  BY InitInv
<1>2. Inv /\ [Next]_vars => Inv'
  BY NextInv
<1> QED
  BY <1>1, <1>2, PTL DEF Spec

(****************************************************************************)
(* No K but the first ever reaches the solver: whatever the module, every   *)
(* later round of main() ends where the first one did.                      *)
(****************************************************************************)
THEOREM LaterKsDecideNothing == Spec => []OnlyFirstKDecides
<1>1. Inv => OnlyFirstKDecides
  BY DEF Inv, Rounds, OnlyFirstKDecides
<1> QED
  BY <1>1, Invariance, PTL

------------------------------------------------------------------------------
(****************************************************************************)
(* The open base cases do not change in a step that refutes none.           *)
(****************************************************************************)
LEMMA OpenUnchanged ==
    ASSUME Inv, mod' = mod, refuted' = refuted, K' = K \/ mod.hasNotExpandedCalls
    PROVE  Open' = Open
<1>1. CASE mod.hasNotExpandedCalls
  BY <1>1 DEF Open
<1>2. CASE K' = K
  <2>1. BaseCases' = BaseCases
    BY <1>2, SameCases
  <2> QED
    BY <2>1 DEF Open
<1> QED
  BY <1>1, <1>2

(****************************************************************************)
(* The base case about to be put to the solver is open.                     *)
(****************************************************************************)
LEMMA CurrentIsOpen ==
    ASSUME Inv, InBaseCase
    PROVE  BaseCaseId \in Open
<1>1. pc = "base" /\ j <= Len(path) /\ errorLoopCount <= K
  BY DEF InBaseCase
<1>2. mod.hasAssertions /\ ~mod.hasNotExpandedCalls
  BY <1>1 DEF Inv, Rounds
<1>3. i \in DOMAIN initNodes
  BY <1>1, SearchFacts DEF Inv, Control, Progress
<1>4. j \in 1..ErrPathCount(i)
  BY <1>1, <1>3, SearchFacts DEF Inv, Control, Progress
<1>5. IsCase(i, j, errorLoopCount)
  BY <1>1, <1>3, <1>4 DEF IsCase, Inv, Control
<1>6. ~Before(i, j, errorLoopCount)
  BY DEF Before, Inv, Control
<1>7. <<i, j, errorLoopCount>> \notin refuted
  BY <1>1, <1>5, <1>6 DEF Inv, Progress
<1> QED
  BY <1>2, <1>5, <1>7, CaseIsMember DEF Open, BaseCaseId

(****************************************************************************)
(* Where TRUE is answered no base case is open.                             *)
(****************************************************************************)
LEMMA NoneLeftOpen ==
    ASSUME Inv, NoAssertions \/ AllVerified
    PROVE  Open = {}
<1>1. CASE NoAssertions
  BY <1>1 DEF NoAssertions, Open
<1>2. CASE AllVerified
  <2>1. pc = "initPath" /\ i > Len(initNodes)
    BY <1>2 DEF AllVerified
  <2>2. ASSUME NEW o \in BaseCases PROVE o \in refuted
    <3>1. PICK a, b, c : IsCase(a, b, c) /\ o = <<a, b, c>>
      BY <2>2, CaseIsMember
    <3>2. a \in Nat /\ a <= Len(initNodes)
      BY <3>1, CaseFacts DEF Inv
    <3>3. Len(initNodes) \in Nat /\ i \in Nat
      BY SearchFacts DEF Inv, Control
    <3>4. a < i
      BY <2>1, <3>2, <3>3
    <3> QED
      BY <2>1, <3>1, <3>4 DEF Inv, Progress
  <2> QED
    BY <2>2 DEF Open
<1> QED
  BY <1>1, <1>2

(****************************************************************************)
(* Every step of the driver is a step of Verdict or leaves its variables as *)
(* they are.                                                                *)
(****************************************************************************)
LEMMA StepImplements ==
    ASSUME Inv, [Next]_vars
    PROVE  [Promise!Next]_(Promise!vars)
<1> USE DEF Promise!vars
<1>1. CASE UNCHANGED vars \/ Terminated
  <2>1. UNCHANGED vars
    BY <1>1 DEF Terminated
  <2> QED
    BY <2>1, OpenUnchanged DEF vars
<1>2. CASE NotExpanded \/ FindTarget \/ NextInitPath \/ InductivePass
  <2>1. mod' = mod /\ refuted' = refuted /\ verdict' = verdict
        /\ (K' = K \/ mod.hasNotExpandedCalls)
    BY <1>2 DEF NotExpanded, FindTarget, NextInitPath, InductivePass, history
  <2> QED
    BY <2>1, OpenUnchanged
<1>3. CASE CollectErrInLoop \/ CollectErrInNode
  <2>1. mod' = mod /\ refuted' = refuted /\ verdict' = verdict /\ K' = K
    BY <1>3 DEF CollectErrInLoop, CollectErrInNode, EachPath, history
  <2> QED
    BY <2>1, OpenUnchanged
<1>4. CASE NoAssertions \/ AllVerified
  <2>1. Open = {}
    BY <1>4, NoneLeftOpen
  <2>2. /\ mod' = mod /\ refuted' = refuted /\ K' = K /\ verdict' = "TRUE"
        /\ verdict = "none"
    BY <1>4 DEF NoAssertions, AllVerified, Checked, Report, history, Inv, Control
  <2> QED
    BY <2>1, <2>2, OpenUnchanged DEF Promise!Next, Promise!AnswerTrue
<1>5. CASE BaseSat
  <2>1. Open # {}
    BY <1>5, CurrentIsOpen DEF BaseSat
  <2>2. /\ mod' = mod /\ refuted' = refuted /\ K' = K /\ verdict' = "FALSE"
        /\ verdict = "none"
    BY <1>5 DEF BaseSat, InBaseCase, Report, history, Inv, Control
  <2> QED
    BY <2>1, <2>2, OpenUnchanged DEF Promise!Next, Promise!AnswerFalse
<1>6. CASE BaseUnsat
  <2>1. BaseCaseId \in Open
    BY <1>6, CurrentIsOpen DEF BaseUnsat
  <2>2. /\ mod' = mod /\ refuted' = refuted \cup {BaseCaseId} /\ K' = K
        /\ verdict' = verdict /\ verdict = "none"
    BY <1>6 DEF BaseUnsat, InBaseCase, Inv, Control
  <2>3. BaseCases' = BaseCases
    BY <2>2, SameCases
  <2>4. Open' = Open \ {BaseCaseId}
    BY <2>1, <2>2, <2>3 DEF Open
  <2> QED
    BY <2>1, <2>2, <2>4 DEF Promise!Next, Promise!Refute
<1>7. CASE \/ GiveUp \/ NoLoops \/ TwoErrorLoops \/ LoseLoop \/ LoseErrorNode
           \/ BaseNotRotated \/ BaseEncodingFails \/ BaseUndecided
           \/ Pattern1Unsupported \/ InductiveUndecided
  <2>1. /\ mod' = mod /\ refuted' = refuted /\ K' = K
        /\ verdict' \in {"UNKNOWN", "crash"}
    BY <1>7 DEF GiveUp, NoLoops, TwoErrorLoops, LoseLoop, LoseErrorNode, BaseNotRotated,
                BaseEncodingFails, BaseUndecided, Pattern1Unsupported, InductiveUndecided,
                Report, Crash, history
  <2>2. verdict = "none"
    BY <1>7 DEF GiveUp, NoLoops, TwoErrorLoops, LoseLoop, LoseErrorNode, BaseNotRotated,
                BaseEncodingFails, BaseUndecided, Pattern1Unsupported, InductiveUndecided,
                Checked, InBaseCase, InInductiveStep, Inv, Control
  <2> QED
    BY <2>1, <2>2, OpenUnchanged DEF Promise!Next, Promise!NoAnswer
<1> QED
  BY <1>1, <1>2, <1>3, <1>4, <1>5, <1>6, <1>7 DEF Next

(****************************************************************************)
(* verify() implements Verdict: TRUE only with every base case of the       *)
(* program refuted, FALSE only with one open that has a model, and an       *)
(* answer is final.                                                         *)
(****************************************************************************)
THEOREM Refinement == Spec => ImplementsVerdict
<1>1. Init => Promise!Init
  BY DEF Init, Promise!Init
<1>2. Inv /\ [Next]_vars => [Promise!Next]_(Promise!vars)
  BY StepImplements
<1> QED
  BY <1>1, <1>2, Invariance, PTL DEF Spec, ImplementsVerdict, Promise!Spec

------------------------------------------------------------------------------
(****************************************************************************)
(* What has to be known besides: the first init path with an error loop is  *)
(* also the last one, since the inductive step does not support its path.   *)
(****************************************************************************)
ErrorLoopStaysFirst ==
    /\ pc \in {"initPath", "base"} => g.LCSSAs # << >>
    /\ InLoop /\ pc = "initPath" => i = 1
    /\ InLoop /\ pc = "base" => i = 1 /\ j = 1 /\ Len(path) = 1 /\ IsPattern1(path[1])

(****************************************************************************)
(* Behind TRUE every base case the program calls for is refuted.            *)
(****************************************************************************)
TrueRefutesAll ==
    verdict = "TRUE" /\ mod.hasAssertions =>
        /\ ~InLoop
        /\ \A a, b, c : IsCase(a, b, c) => <<a, b, c>> \in refuted

TypedInv == TypeOK /\ ErrorLoopStaysFirst /\ TrueRefutesAll

LEMMA TypedInit == Init => TypedInv
<1> SUFFICES ASSUME Init PROVE TypedInv
  OBVIOUS
<1>1. /\ mod \in Modules /\ K = 1 /\ i = 1 /\ path = << >> /\ j = 1 /\ errorLoopCount = 1
      /\ pc = "start" /\ verdict = "none" /\ failed = "nothing" /\ refuted = {} /\ inductive = {}
  BY DEF Init
<1>2. Len(initNodes) \in Nat
  BY <1>1, SearchFacts
<1>3. << >> \in Seq(Seq(Path)) /\ Len(<< >>) = 0
  BY EmptySeq
<1>4. TypeOK
  BY <1>1, <1>2, <1>3, ModulesAssumption DEF TypeOK, LastK
<1> QED
  BY <1>1, <1>4 DEF TypedInv, ErrorLoopStaysFirst, TrueRefutesAll

(****************************************************************************)
(* Only the first round gets past its start.                                *)
(****************************************************************************)
LEMMA FirstRound ==
    ASSUME Inv, pc \in {"initPath", "base"}
    PROVE  K = 1 /\ ~mod.hasNotExpandedCalls /\ mod.hasAssertions /\ verdict = "none"
BY DEF Inv, Control, Rounds

(****************************************************************************)
(* Refuting the base case at hand leaves all refuted ones base cases.       *)
(****************************************************************************)
LEMMA TypedUnsat == TypedInv /\ Inv /\ BaseUnsat => TypedInv'
<1> SUFFICES ASSUME TypedInv, Inv, BaseUnsat PROVE TypedInv'
  OBVIOUS
<1>1. /\ mod' = mod /\ K' = K /\ i' = i /\ path' = path /\ j' = j /\ pc' = pc /\ pc = "base"
      /\ verdict' = verdict /\ failed' = failed /\ inductive' = inductive
      /\ errorLoopCount' = errorLoopCount + 1 /\ refuted' = refuted \cup {BaseCaseId}
      /\ errorLoopCount <= K /\ InBaseCase
  BY DEF BaseUnsat, InBaseCase
<1>2. K = 1 /\ verdict = "none"
  BY <1>1, FirstRound
<1>3. initNodes' = initNodes /\ BaseCases' = BaseCases /\ InLoop' = InLoop /\ g' = g
  BY <1>1, SameModule, SameCases DEF InLoop, errorLoops, g
<1>4. BaseCaseId \in BaseCases
  BY <1>1, CurrentIsOpen DEF Open
<1>5. errorLoopCount' \in 1..LastK+1
  BY <1>1, <1>2 DEF Inv, Control, LastK
<1>6. TypeOK'
  BY <1>1, <1>3, <1>4, <1>5 DEF TypedInv, TypeOK
<1> QED
  BY <1>1, <1>2, <1>3, <1>6 DEF TypedInv, ErrorLoopStaysFirst, TrueRefutesAll

(****************************************************************************)
(* The steps that end the run change only the answer.                       *)
(****************************************************************************)
LEMMA TypedEnd ==
    ASSUME TypedInv, Inv, pc # "exit",
           Report("TRUE") \/ Report("FALSE") \/ Report("UNKNOWN") \/ (\E what : Crash(what)),
           UNCHANGED history,
           verdict' = "TRUE" => ~mod.hasAssertions \/ AllVerified
    PROVE  TypedInv'
<1>1. /\ mod' = mod /\ K' = K /\ i' = i /\ path' = path /\ j' = j /\ pc' = "exit"
      /\ errorLoopCount' = errorLoopCount /\ refuted' = refuted /\ inductive' = inductive
      /\ verdict' \in {"TRUE", "FALSE", "UNKNOWN", "crash"}
      /\ verdict' = "crash" \/ failed' = failed
  BY DEF Report, Crash, history
<1>2. verdict = "none" /\ failed = "nothing"
  BY DEF Inv, Control, TypedInv, TypeOK
<1>3. initNodes' = initNodes /\ BaseCases' = BaseCases /\ InLoop' = InLoop /\ g' = g
  BY <1>1, SameModule, SameCases DEF InLoop, errorLoops, g
<1>4. TypeOK'
  BY <1>1, <1>2, <1>3 DEF TypedInv, TypeOK
<1>5. ErrorLoopStaysFirst'
  BY <1>1 DEF ErrorLoopStaysFirst
<1>6. TrueRefutesAll'
  <2> SUFFICES ASSUME AllVerified, mod.hasAssertions
               PROVE  /\ ~InLoop
                      /\ \A a, b, c : IsCase(a, b, c)' => <<a, b, c>> \in refuted
    BY <1>1, <1>3 DEF TrueRefutesAll
  <2>1. pc = "initPath" /\ i > Len(initNodes) /\ mod \in Modules
    BY DEF AllVerified, Inv, Control
  <2>2. ~InLoop
    <3> SUFFICES ASSUME InLoop PROVE FALSE
      OBVIOUS
    <3>1. i = 1 /\ g.LCSSAs # << >>
      BY <2>1 DEF TypedInv, ErrorLoopStaysFirst
    <3>2. initNodes \in Seq(Seq(Nat)) /\ initNodes # << >>
      BY <2>1, <3>1, SearchAssumption DEF initNodes, g
    <3>3. Len(initNodes) \in Nat /\ Len(initNodes) # 0
      BY <3>2, EmptySeq, LenProperties
    <3> QED
      BY <2>1, <3>1, <3>3
  <2>3. ASSUME NEW a, NEW b, NEW c, IsCase(a, b, c) PROVE <<a, b, c>> \in refuted
    <3>1. a \in Nat /\ a <= Len(initNodes) /\ Len(initNodes) \in Nat /\ i \in Nat
      BY <2>1, <2>3, CaseFacts, SearchFacts DEF Inv, Control
    <3>2. a < i
      BY <2>1, <3>1
    <3> QED
      BY <2>1, <2>3, <3>2 DEF Inv, Progress
  <2> QED
    BY <1>1, <2>2, <2>3, SameCases
<1> QED
  BY <1>4, <1>5, <1>6 DEF TypedInv

(****************************************************************************)
(* What the searches return are paths; the one of an error loop is of the   *)
(* first pattern.                                                           *)
(****************************************************************************)
LEMMA TypedCollect == TypedInv /\ Inv /\ (CollectErrInLoop \/ CollectErrInNode) => TypedInv'
<1> SUFFICES ASSUME TypedInv, Inv, CollectErrInLoop \/ CollectErrInNode PROVE TypedInv'
  OBVIOUS
<1>1. /\ mod' = mod /\ K' = K /\ i' = i /\ j' = 1 /\ pc' = "base" /\ pc = "initPath"
      /\ errorLoopCount' = 1 /\ refuted' = refuted /\ inductive' = inductive
      /\ verdict' = verdict /\ failed' = failed /\ i <= Len(initNodes) /\ mod \in Modules
  BY DEF CollectErrInLoop, CollectErrInNode, EachPath, history, Inv, Control
<1>2. verdict = "none"
  BY <1>1, FirstRound
<1>3. initNodes' = initNodes /\ BaseCases' = BaseCases /\ InLoop' = InLoop /\ g' = g
  BY <1>1, SameModule, SameCases DEF InLoop, errorLoops, g
<1>4. initNodes[i] \in ToSet(InitNodesOf(mod.graph)) /\ mod.graph \in {m.graph : m \in Modules}
  <2>1. i \in DOMAIN initNodes
    BY <1>1, SearchFacts DEF Inv, Control
  <2> QED
    BY <1>1, <2>1 DEF initNodes, g, ToSet
<1>5. /\ path' \in Seq(Seq(Path))
      /\ InLoop => Len(path') = 1 /\ IsPattern1(path'[1])
  <2>1. CASE CollectErrInLoop
    <3> DEFINE found == ToLoop
               last == ErrorNode(g, Last(found))
               whole == Append(found, last)
    <3>1. found # << >> /\ NamedErrors(g, Last(found)) # {} /\ path' = <<whole>> /\ errorLoops # {}
      BY <2>1 DEF CollectErrInLoop, EachPath, InLoop
    <3>2. assertLoopIdx \in VerifyLoops(mod.graph)
      BY <3>1 DEF assertLoopIdx, errorLoops, g
    <3>3. /\ found \in Seq(Path) /\ Last(found).type = "ERRORLOOP" /\ last \in Path
      BY <1>4, <3>1, <3>2, SearchAssumption DEF ToLoop, g
    <3>4. last.type = "ERRORNODE"
      BY DEF ErrorNode
    <3> HIDE DEF found, last
    <3>5. last \in Path
      BY <3>3
    <3>6. /\ whole \in Seq(Path) /\ Len(whole) = Len(found) + 1
          /\ whole[Len(found) + 1] = last
          /\ \A n \in 1..Len(found) : whole[n] = found[n]
      BY <3>3, <3>5, AppendProperties
    <3>7. Len(found) \in Nat /\ Len(found) # 0
      BY <3>1, <3>3, EmptySeq, LenProperties
    <3> HIDE DEF whole
    <3>8. whole[Len(found)].type = "ERRORLOOP" /\ Last(whole).type = "ERRORNODE"
      <4>1. Len(found) \in 1..Len(found) /\ found[Len(found)] = Last(found)
        BY <3>7 DEF Last
      <4>2. whole[Len(found)].type = "ERRORLOOP"
        BY <3>3, <3>6, <4>1
      <4>3. Last(whole) = last
        BY <3>6 DEF Last
      <4> QED
        BY <3>4, <4>2, <4>3
    <3>9. IsPattern1(whole)
      BY <3>6, <3>7, <3>8 DEF IsPattern1
    <3>10. <<whole>> \in Seq(Seq(Path)) /\ Len(<<whole>>) = 1 /\ <<whole>>[1] = whole
      BY <3>6
    <3> QED
      BY <3>1, <3>9, <3>10
  <2>2. CASE CollectErrInNode
    <3>1. VerifyLoops(mod.graph) = {} /\ ~InLoop
      BY <2>2 DEF CollectErrInNode, InLoop, errorLoops, g
    <3>2. path' = ErrPathsInNode(g, StartPath(g, initNodes[i]), FindVerifyNode(g))
      BY <2>2 DEF CollectErrInNode, EachPath
    <3>3. path' \in Seq(Seq(Path))
      BY <1>4, <3>1, <3>2, SearchAssumption DEF g
    <3> QED
      BY <3>1, <3>3
  <2> QED
    BY <2>1, <2>2
<1>6. Len(path') \in Nat
  BY <1>5, LenProperties
<1>7. TypeOK'
  BY <1>1, <1>3, <1>5, <1>6 DEF TypedInv, TypeOK, LastK
<1> QED
  BY <1>1, <1>2, <1>3, <1>5, <1>7 DEF TypedInv, ErrorLoopStaysFirst, TrueRefutesAll

(****************************************************************************)
(* The other steps only move on.                                            *)
(****************************************************************************)
LEMMA TypedMoves ==
    ASSUME TypedInv, Inv,
           NotExpanded \/ FindTarget \/ NextInitPath \/ InductivePass
    PROVE  TypedInv'
<1>1. /\ mod' = mod /\ path' = path /\ refuted' = refuted /\ verdict' = verdict /\ failed' = failed
      /\ mod \in Modules /\ verdict = "none"
  BY DEF NotExpanded, FindTarget, NextInitPath, InductivePass, InInductiveStep, Checked, history,
         Inv, Control
<1>2. initNodes' = initNodes /\ InLoop' = InLoop /\ g' = g
  BY <1>1, SameModule DEF InLoop, errorLoops, g
<1>3. Len(initNodes) \in Nat /\ Len(path) \in Nat
  BY <1>1, SearchFacts, LenProperties DEF TypedInv, TypeOK
<1>4. CASE NotExpanded
  <2>1. refuted = {} /\ K' = K + 1 /\ K <= LastK /\ pc = "start"
        /\ UNCHANGED <<i, j, errorLoopCount, pc, inductive>>
    BY <1>4 DEF NotExpanded, Inv, Rounds, history
  <2>2. K' \in 1..LastK+1
    BY <2>1 DEF Inv, Control, LastK
  <2> QED
    BY <1>1, <1>2, <2>1, <2>2 DEF TypedInv, TypeOK, ErrorLoopStaysFirst, TrueRefutesAll
<1>5. ASSUME FindTarget \/ NextInitPath \/ InductivePass
      PROVE  K' = K /\ BaseCases' = BaseCases
  <2>1. K' = K
    BY <1>5 DEF FindTarget, NextInitPath, InductivePass
  <2> QED
    BY <1>1, <2>1, SameCases
<1>6. CASE FindTarget
  <2>1. /\ i' = 1 /\ pc' = "initPath" /\ g.LCSSAs # << >>
        /\ UNCHANGED <<j, errorLoopCount, inductive>>
    BY <1>6 DEF FindTarget, history
  <2> QED
    BY <1>1, <1>2, <1>3, <1>5, <1>6, <2>1 DEF TypedInv, TypeOK, ErrorLoopStaysFirst, TrueRefutesAll
<1>7. CASE NextInitPath
  <2>1. /\ i' = i + 1 /\ pc' = "initPath" /\ pc = "base" /\ j > Len(path)
        /\ UNCHANGED <<j, errorLoopCount, inductive>>
    BY <1>7 DEF NextInitPath, history
  <2>2. ~InLoop
    BY <1>3, <2>1 DEF TypedInv, ErrorLoopStaysFirst
  <2>3. i' \in 1..Len(initNodes)+1
    BY <1>3, <2>1 DEF Inv, Control, Progress
  <2> QED
    BY <1>1, <1>2, <1>5, <1>7, <2>1, <2>2, <2>3
      DEF TypedInv, TypeOK, ErrorLoopStaysFirst, TrueRefutesAll
<1>8. CASE InductivePass
  <2>1. /\ j' = j + 1 /\ errorLoopCount' = 1 /\ pc' = pc /\ pc = "base" /\ j <= Len(path)
        /\ i' = i /\ ~IsPattern1(path[j])
        /\ \E base, s \in {"unsat", "sat"} : inductive' = inductive \cup {<<base, s>>}
    BY <1>8 DEF InductivePass, InInductiveStep
  <2>2. ~InLoop
    BY <2>1 DEF TypedInv, ErrorLoopStaysFirst
  <2>3. j' \in 1..Len(path)+1
    BY <1>3, <2>1 DEF Inv, Control
  <2>4. inductive' \subseteq {"unsat", "sat"} \X {"unsat", "sat"}
    BY <2>1 DEF TypedInv, TypeOK
  <2> QED
    BY <1>1, <1>2, <1>5, <1>8, <2>1, <2>2, <2>3, <2>4
      DEF TypedInv, TypeOK, ErrorLoopStaysFirst, TrueRefutesAll, LastK
<1> QED
  BY <1>4, <1>6, <1>7, <1>8

LEMMA TypedNext == TypedInv /\ Inv /\ [Next]_vars => TypedInv'
<1> SUFFICES ASSUME TypedInv, Inv, [Next]_vars PROVE TypedInv'
  OBVIOUS
<1>1. CASE UNCHANGED vars
  <2>1. /\ mod' = mod /\ K' = K /\ i' = i /\ path' = path /\ j' = j /\ pc' = pc
        /\ verdict' = verdict /\ failed' = failed /\ inductive' = inductive
        /\ errorLoopCount' = errorLoopCount /\ refuted' = refuted
    BY <1>1 DEF vars
  <2>2. initNodes' = initNodes /\ BaseCases' = BaseCases /\ InLoop' = InLoop /\ g' = g
    BY <2>1, SameModule, SameCases DEF InLoop, errorLoops, g
  <2>3. \A a, b, c : IsCase(a, b, c)' <=> IsCase(a, b, c)
    BY <2>1, SameCases
  <2>4. TypeOK' /\ ErrorLoopStaysFirst'
    BY <2>1, <2>2 DEF TypedInv, TypeOK, ErrorLoopStaysFirst
  <2>5. TrueRefutesAll'
    BY <2>1, <2>2, <2>3 DEF TypedInv, TrueRefutesAll
  <2> QED
    BY <2>4, <2>5 DEF TypedInv
<1>2. CASE \/ GiveUp \/ NoLoops \/ TwoErrorLoops \/ LoseLoop \/ LoseErrorNode
           \/ BaseNotRotated \/ BaseEncodingFails \/ BaseSat \/ BaseUndecided
           \/ Pattern1Unsupported \/ InductiveUndecided
  <2>1. /\ Report("FALSE") \/ Report("UNKNOWN") \/ (\E what : Crash(what))
        /\ UNCHANGED history /\ pc # "exit"
    BY <1>2 DEF GiveUp, NoLoops, TwoErrorLoops, LoseLoop, LoseErrorNode, BaseNotRotated,
                BaseEncodingFails, BaseSat, BaseUndecided, Pattern1Unsupported,
                InductiveUndecided, Checked, InBaseCase, InInductiveStep
  <2>2. verdict' # "TRUE"
    BY <2>1 DEF Report, Crash
  <2> QED
    BY <2>1, <2>2, TypedEnd
<1>3. CASE NoAssertions \/ AllVerified
  <2>1. /\ Report("TRUE") /\ UNCHANGED history /\ pc # "exit"
        /\ ~mod.hasAssertions \/ AllVerified
    BY <1>3 DEF NoAssertions, AllVerified, Checked
  <2> QED
    BY <2>1, TypedEnd
<1> QED
  BY <1>1, <1>2, <1>3, TypedUnsat, TypedCollect, TypedMoves DEF Next, Terminated

THEOREM TypedInvariance == Spec => []TypedInv
<1> QED
  BY TypedInit, TypedNext, Invariance, PTL DEF Spec

(****************************************************************************)
(* The variables of verify() and main() keep their types for every set of   *)
(* modules; only base cases are refuted.                                    *)
(****************************************************************************)
THEOREM TypeCorrect == Spec => []TypeOK
<1>1. TypedInv => TypeOK
  BY DEF TypedInv
<1> QED
  BY <1>1, TypedInvariance, PTL

(****************************************************************************)
(* TRUE covers every error path: each that the graph has from a way into a  *)
(* first loop to the error node was put to the solver and refuted, wherever *)
(* loops can be left over their header.                                     *)
(****************************************************************************)
THEOREM TrueCoversAll == Spec => []TrueCoversErrorPaths
<1>1. Inv /\ TypedInv => TrueCoversErrorPaths
  <2> SUFFICES ASSUME Inv, TypedInv, verdict = "TRUE", mod.hasAssertions, ExitsAtHeader(g),
                      NEW a \in DOMAIN initNodes
               PROVE  LET start == StartPath(g, initNodes[a])
                          found == ErrPathsInNode(g, start, FindVerifyNode(g))
                      IN  \A p \in RealPaths(g, start, FindVerifyNode(g)) :
                              \E b \in DOMAIN found : found[b] = p /\ <<a, b, K>> \in refuted
    BY DEF TrueCoversErrorPaths
  <2> DEFINE start == StartPath(g, initNodes[a])
             found == ErrPathsInNode(g, start, FindVerifyNode(g))
             real == RealPaths(g, start, FindVerifyNode(g))
  <2>1. ~InLoop /\ \A b, c : IsCase(a, b, c) => <<a, b, c>> \in refuted
    BY DEF TypedInv, TrueRefutesAll
  <2>2. initNodes[a] \in ToSet(InitNodesOf(mod.graph)) /\ mod.graph \in {m.graph : m \in Modules}
    BY DEF initNodes, g, ToSet, Inv, Control
  <2>3. VerifyLoops(mod.graph) = {}
    BY <2>1 DEF InLoop, errorLoops, g
  <2>4. found \in Seq(Seq(Path)) /\ ToSet(found) = real
    BY <2>2, <2>3, SearchAssumption DEF g
  <2>5. ErrPathCount(a) = Len(found)
    BY <2>1 DEF ErrPathCount
  <2> HIDE DEF found, real
  <2>6. ASSUME NEW p \in real
        PROVE  \E b \in DOMAIN found : found[b] = p /\ <<a, b, K>> \in refuted
    <3>1. PICK b \in DOMAIN found : found[b] = p
      BY <2>4 DEF ToSet
    <3>2. b \in 1..ErrPathCount(a)
      BY <2>4, <2>5, LenProperties
    <3>3. K \in 1..K
      BY DEF Inv, Control
    <3>4. <<a, b, K>> \in refuted
      BY <2>1, <3>2, <3>3 DEF IsCase
    <3> QED
      BY <3>1, <3>4
  <2> QED
    BY <2>6 DEF found, real
<1> QED
  BY <1>1, Invariance, TypedInvariance, PTL
==============================================================================
