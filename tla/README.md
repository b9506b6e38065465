# A verification of the k-induction verifier

`induction` is itself a verifier. It compiles a C program with clang, looks for
the paths from `main`'s entry to a call of `reach_error`, unrolls the loops on
them, and asks Z3 whether such a path can be executed. It runs in one thread and
keeps nothing between runs; what makes it hard is the graphs. The order of
blocks in LLVM's vectors, nested loops, exits from the middle of a loop and
vectors shared by all calls of a recursion decide whether an execution is looked
at or silently missed, and a missed one ends in the answer `TRUE`.

The modules here model that part, from the basic blocks LLVM hands over to the
answer printed, and what stands beside it: the search for something to assert,
and the names and versions under which values reach the solver. Of a formula they
keep which constants it is about, not what it says of them; the solver may answer
anything.

## The system

| part | state it keeps | operations | talks to |
|---|---|---|---|
| **Compilation** (`main.cpp`) | the LLVM module | `main` runs clang and reads the bitcode | calls the driver for K = 1..5 |
| **Driver** (`KInduction::verify`, `main`) | K, the init path, the error path; the static `CFGNodeVec` | `verify`, `standardize`, `hasNotExpandedCalls`, `hasAssertions` | calls everything below in turn |
| **Specification conditions** (`spec.cpp`, `utils.cpp`) | worklist, visited blocks, conditions | `findSpecConditions`, `findBranchPoints` | the driver uses only whether one is an assertion |
| **Loop information** (`loop_info.cpp`) | a vector of `LCSSA` per function | `runOnLoop`, once per loop, inner loops first | read by all the rest |
| **CFG construction** (`buildCFG`) | `CFGNodeVec`, a queue, visited blocks | one breadth-first walk | fills `CFGNodeVec`; every later part reads it |
| **Init path search** (`collectInitBasicBlock`, `basicBlockDFS`) | `vec`, shared by all calls; the saved paths | recursion | its paths are where both error path searches start |
| **Error path search, behind a loop** (`findVerifyLoop`, `collectVerifyPathErrInLoop`) | one path, a visit mark per node | a loop with backtracking | its path goes to base case and inductive step |
| **Error path search, after the loops** (`findVerifyNode`, `collectVerifyPathErrInNode`) | `v`, shared by all calls; the saved paths | recursion | likewise |
| **Base case** (`baseCase`) | the node sequence of a round, the round | a query per round | encoding and solver |
| **Inductive step** (`inductiveStep`, `inductiveStepChecking`) | two node sequences | two queries | called by the driver behind the base case of the same path; encoding and solver |
| **SMT encoding** (`baseCaseSMTChecking`, `inductiveStepSMT`, `getExpr`, ...) | versions and names of values, arrays | a formula per instruction | Z3 |
| **Linear expressions** (`expr.cpp`) | `m_CTerm`, `m_terms` | `+=`, `-=`, `*=`, `/=` with a monomial, a polynomial, a number | nothing; it is not used |

What makes each correct:

- *CFG construction*: a node per reachable block and no other, children that are
  the block's successors in order, indexes that stay valid while the vector
  grows, one loop index for a whole nest.
- *Searches*: every path saved is a path of the program; every path of the
  program is saved; the pushes and pops of all calls balance; the search ends.
- *Base case*: a query is about an execution, of this round only; the result is
  that of the answers.
- *Inductive step*: its two queries are those of k and of k + 1 rounds of the same
  path, and it does not stop where the base case has passed.
- *SMT encoding*: a constant of the solver means one definition of one value and is
  given to all its uses; what fixes an input or a branch is about the right one.
- *Specification conditions*: every block is scanned once, after those before it;
  exactly the deciding branches are found; no assertion is overlooked, since
  "nothing to assert" is answered with `TRUE`.
- *Linear expressions*: a polynomial is the function asked for, without zero terms.
- *Driver*: `TRUE` only after every base case was refuted, `FALSE` only for one
  with a model, an answer in the end.

The behaviours that are hard to test here: several ways into several loops,
loops left from their header, their latch or the middle of a nest, a search that
backtracks over its own marks, the rounds of a base case that share a vector,
many base cases any of which may fail, lookups that change the tables they read in
an order C++ leaves open, a flag and maps that outlive a query, a worklist that a
loop or a join may starve, and the assertions in the code that the shape of a graph
decides. `PROJECT.json` lists them at their lines.

## The modules

```
CFG ─┬─ BuildCFG ── MCBuildCFG            Explore: what BuildCFG and
     │      └────── BuildCFGProofs                 SpecConditions implement
     └─ Paths ─┬─ InitPaths ── MCInitPaths, InitPathsProofs
               ├─ ErrPathSearch ─┬─ ErrPathInNode ─┬─ MCErrPathInNode
               │                 │                 └─ ErrPathProofs (of both)
               │                 └─ ErrPathInLoop ── MCErrPathInLoop
               ├─ Unroll ─┬─ BaseCase ─┬─ MCBaseCase
               │          │            └─ InductiveStep ── MCInductiveStep,
               │          │                             InductiveStepProofs
               │          └─ Verify ── MCVerify, VerifyProofs
               └─ MCGraphs (with LoopInfo)  Verdict: what Verify implements

Encode ── MCEncode, EncodeProofs
SpecConditions ── MCSpecConditions, SpecConditionsProofs
LinearExpressions ── MCLinearExpressions, LinearExpressionsProofs
```

**CFG** holds the data: blocks, `LCSSA` records, `CFGNode` records. Vectors are
sequences, so the code's index i is position i+1 and its -1 is 0. `IsCFG` is the
contract between `buildCFG` and the searches.

**BuildCFG** has an action for each turn of the queue loop (`PopVisited`,
`PopFresh`) and of the loop over successors (`AddChild`, `EndChilds`). **Explore**
is the same walk without queue and vector: expand a reachable block that was not
expanded, stop when there is none.

**LoopInfo** computes what LLVM's loop analysis and `runOnLoop` give for a graph:
natural loops from dominators, the latch (null, `NoBlock`, when several edges lead
back), the block vector (header first, then reverse postorder), inner loops before
outer ones. It is external code, modelled
so that the checked graphs have the loops they would really have.

**Paths** has the graph that the searches share and, as functions, what each
search returns. The state machines are checked to compute these functions, and
the driver uses the functions in their place. It also has `RealPaths`, the paths
read off the edges, with no search in it.

**InitPaths**, **ErrPathInNode**: the two recursions. A call is its depth in the
shared vector (`vec`, `v`), and `next` holds for each call the position of its
loop over children; `Descend` is a call, `FindLoop`/`ReachError` the return that
saves a path, `BackUp` the other return.

**ErrPathInLoop**: the search with marks; its names differ from ErrPathInNode's
(`LoopInit`, `LoopNext`, ...), so that one module can prove about both. `Step` and
`Backtrack` are one turn of `while(true)`; `BackOfEmpty` is the read of `path.back()` on
an empty vector, after which nothing is claimed; `NoErrorChild` is the last assertion
failing.

**Unroll**, **BaseCase**: how a path becomes a sequence of nodes, element by
element, and the rounds. The encoding is reduced to the question at which
sequences its assertions stop it: the branch's next node must be a target
(`BranchesFollowed`); the phi's previous node must be a predecessor, which only
a walk along edges guarantees (`IsWalk`); an instruction that is not supported may
stand in any block (`EncodingFails`).

**InductiveStep** follows a base case that passes: `PushBase` and `PushInduction`
are the turns of the two unrolling loops, `Encode` and `Ask` the two encodings and
the two queries; `UnrollingStops`, `EncodingStops` and `NoAnswer` are the assertions
in between, with a definition each of when it fails (`EndsInErrorLoop`,
`LoopNotRotated`, `BranchMissed`, `BranchAtEnd`, ...). It has the base case's state
and actions as its own, so that its properties can relate the sequences of both.
What depends on the instructions of a block (`UnsupportedPhi`, `GlobalAgain`) may stop
it wherever the graph allows for such an instruction.

**Encode** is the inside of an encoding, for one path and all its queries in order:
the rounds of the base case, then the two sequences of the step. An instruction
sets out its lookups (`FirstNondet`, `StoreGlobal`, `Phi`, ..., the disjuncts of
`Encoding`) and what it asserts of the constants they give; `GetKnown`, `GetNew`,
`RefreshKnown`, ... are the branches of `getExpr` and `getExprWithRefresh`;
`EndInstruction` pushes the problem. Two lookups in one `==` are made in either
order. `baseCaseSMTChecking` and `inductiveStepSMT` are one text but for the nondet
values, the test before a branch and the choice at a phi, which ask for `mode`.
Constants are a name and a version; values have the kind and the name the code asks
for. The history variables `defs`, `before` and `denotes` say which definition of
which value each lookup meant.

**SpecConditions**: `Scan` is the loop over a block's instructions, `Push` that over
its successors, `Find` the recursion of `findBranchPoints`, whose calls are `stack`.
The back edges are LLVM's, computed as its depth-first walk does. `MaxDepth` is the
room on the stack: `Overflow` is a recursion that used it up.

**LinearExpressions**: a polynomial is `m_CTerm` and a function from the
instructions that have a monomial to their coefficients. An operator that takes a
polynomial is a loop over its monomials (`NextTerm`, in any order); the operand may
be the polynomial itself (`PlusSelf`), and a monomial met then leaves the set the
loop runs over: `NextTermOfSelf`, after which nothing is claimed.

**Verify**: `main` and `verify()`, from K = 1 on. Where the searches or the
unrolling fail it crashes with the assertion's text. **Verdict** is its promise:
a set of base cases still open, `TRUE` only when it is empty, `FALSE` only when
it is not, and no answer taken back.

Several modules also hold definitions called mistakes, such as `AlwaysAdd` or
`UnsatNotCleared`: variants of an operation that a plausible slip would have
produced. No specification uses them; each is there to show that the property it
is paired with in `PROJECT.json` fails when the code does.

## The runs

| run | question | properties |
|---|---|---|
| `build_cfg` | is the graph right on every small program? | one node per block; children are successors; `IsCFG`; indexes stable; implements Explore; ends |
| `init_paths` | are all ways to a first loop found? | paths real; calls agree with the shared vector; one path per route, in order; ends |
| `err_path_in_node` | are all paths to an error block found? | path in progress real; saved paths end in the error node; all found; ends |
| `err_path_in_loop` | is a path to the error loop found? | path real; result is the pattern the base case expects; emptied only if unreachable; ends |
| `inductive_step` | what is the solver asked about a path? | rounds separate; queries are executions; the step's are k rounds and k + 1; it stops at no branch the base case has passed |
| `verify` | does an answer mean what it says? | types; `TRUE` covers all paths to the error block looked for; only the first K decides; implements Verdict; ends |
| `encode` | does the solver see the values of the program? | tables fit together; one constant, one meaning; the first nondet value fixed to the round; path conditions |
| `spec_conditions` | is everything to be asserted found? | types; each block once; exactly the deciding branches; no assertion overlooked; stops for a reason; ends; implements Explore |
| `linear_expressions` | is a polynomial what was asked for? | the function expected, in the middle of a sum as well; monomials for the instructions that matter |

The types of the first four and of `inductive_step` have no line of their own: those
of BuildCFG and InitPaths are proved, those of the others are the first conjunct of
`PathInProgressIsReal`, `PathIsReal` and `RoundsAreSeparate`, of which the first and
the last are proved.

The remaining runs check a single claim the source makes about itself (an
assertion, a message, a comment) and find it violated; see *Findings*.

**Bounds.** `build_cfg` has all control-flow graphs over four blocks with at most
two-way branches (reducible or not, with unreachable blocks): four are the fewest
with a nest of two loops inside a program, two distinct loops, and a join. The
other runs use plans of up to nine regions, each loop of which is drawn in eight
shapes (one block; exits from header, latch, or both; a nest left from its latch
or its header; an inner loop that leaves the nest; an inner loop left in the
middle), up to 25 blocks. The plans have dead ends, joins, double edges, loops in
both arms of a branch and loops one after another, and each ending block takes
its turn as the error block. `init_paths` never looks inside a loop and uses two
shapes. `inductive_step` goes to k = 3: a first, a middle and a last round of the
base case, four rounds in the step. Its graphs also have loops with two latches,
which the assertions on a rotated loop must stop, and error blocks that go on with
a branch. `verify` uses fewer plans, LastK = 5 as in
`main`, and also graphs with every ending block an error block. `encode` takes a
small program per thing the tables and names are about (counting loop, phis that
swap, arrays, globals, each instruction that stops it), with and without names, two
rounds and the pair of the step, and a phi that has an undef among its values:
a value is defined three times, a flag crosses two
queries. `spec_conditions` has every graph of three blocks and of four whose blocks
can all be reached, with one block of interest, on three blocks also two, and
switches; its stack has room for as many calls as there are blocks, so only a
recursion that comes back overflows. `linear_expressions` has two instructions and
coefficients that cancel, double and halve. Every bound is a constant or a
definition of an `MC` module.

**Assumptions on the inputs.** Blocks end in a return, a jump or a two-way
branch (no `switch`). The graphs of the searches are reducible and in the form
loop rotation leaves (a preheader, one latch, exits reached from the loop only), but
for the two latches of `inductive_step`. The entry is not in a loop, as in LLVM. The searches have one error block, whose
name holds "ERROR"; `err_path_in_loop` also has graphs without such a name (on the
plans `OneLoop`, `TwoExits` and `TwoExitsLater`), `verify` some with several error
blocks. In `spec_conditions` every block can be reached and
every block but the entry has a predecessor over an edge that is no back edge
(`ProgramsAssumption`, as clang -O2 leaves a function), and a return has a value,
since the function is `main`: a return without one (spec.cpp:69 would cast its null) is
not modelled. What the proofs need is stated
as named assumptions beside the constants, and TLC evaluates each on the graphs of the
runs:

- `ProgramsAssumption` of BuildCFG: the programs are well typed, and their loops are
  loops (`LoopsNest`): each holds its header, its latch if it has one, and only
  reachable blocks, and of two the earlier lies within the later or they are apart.
  `NoBlockAssumption` of CFG: null is no block.
- `GraphsAssumption` and `ReducibleAssumption` of Paths: the graph meets `IsCFG`, and
  its cycles lie in its loops. The second is said by a number per loop and node, the
  longest way on from it (`Height`), that falls along every way.
- `BlocksAssumption` of Paths: a header leads out of its loop one way only
  (`HeaderKeepsToLoop`), since a two-way branch that leads into the loop has one target
  left; a block named ERROR ends the program, so it has no children and is in no loop
  (`NamedEnds`): `reach_error` is followed by `abort`.
- `ErrPathsAssumption` and `LoopsAssumption` of BaseCase: a path is a chain that ends
  in the error node, has nothing twice, and an error loop only second last; a block
  vector names no block twice, the latch leads to the header, and a loop without a
  single latch has several blocks.
- `SearchAssumption` of Verify: the init paths are paths, a program with a loop has
  one, the search after the loops gives all real paths where loops can be left over
  their header (which is what `FindsAllPaths` proves), and a path to an error loop
  ends in it.
- `JobsAssumption` of Encode: programs and walks are well typed, and LLVM's rules hold:
  a result is that of one instruction and no constant, a branch ends its block, a name
  is one block's.
- `ProgramsAssumption` of SpecConditions: as said of its blocks above; without the
  back edges there is no cycle.

**Fairness.** Liveness is checked under weak fairness of the whole next-state
relation only. The program is sequential: whenever a step can be taken it takes
one, and nothing else competes. That a query is answered is the one assumption
beyond this; Z3 is called without a time limit. No choice between steps is
assumed fair.

## Findings

1. `TRUE` for a program that was not looked at (`found_by_induction`). Loops are
   left over their header's children only, every path starts at the first loop on
   its way, and only one error block is looked for. When the error block follows
   the latch, or precedes the loops, or is the second one, no path to it is found
   and nothing about it is put to the solver. `TrueCoversErrorPaths` and
   `PathsComplete` therefore assume `ExitsAtHeader` and speak of the block that
   `findVerifyNode` returns.
2. The answers of the inductive step are printed and ignored
   (`inductive_steps_pass`), so the base case for K = 1 alone decides; with
   `OnlyFirstKDecides`, no larger K is ever tried.
3. Repeating the block vector of a loop with several blocks is not an execution,
   and the encoding of a branch stops (`branch_targets_match`).
   `QueriesAreExecutions` is about loops of one block for that reason.

More of the code's assertions fail, or worse happens, in actions of the model; they
need no interleaving to be seen, and have no run of their own:

- the search reads the back of an empty path (`BackOfEmpty`, k_induction.cpp:331);
- the error block is looked up below the header, the loop was chosen by any of its
  blocks (`NoErrorChild`, :398); a nest around the error edge counts as two error
  loops (`TwoErrorLoops`, :479);
- when an inner loop is left in the middle, the block vector of the nest does not
  end with its latch (`NotRotated`, `BaseNotRotated`, :547);
- the inductive step for an assertion in a loop is `assert(false)`
  (`Pattern1Unsupported`, and `UnrollingStops` of InductiveStep, :896);
- a second store to a global is `assert(false)`, since the test for an integer asks
  for the type of the global itself, a pointer (`RefreshGlobalFails`, :1433), and a
  phi whose values are all constants stops the inductive step (`UnsupportedPhi`,
  :1203);
- when the last block of a path ends in a branch, the base case reads behind the node
  sequence (`BranchPastEnd`, :761) and the inductive step, which has `<` where the
  base case has `<=`, stops (`BranchAtEnd`, :1174);
- a block of interest that the entry or a switch leads to stops the search for
  conditions, one that jumps back to itself makes it recurse for ever, and a call
  through a pointer is a null pointer (`FoundNull`, `SwitchBefore`, `Overflow`,
  `IndirectCall`); `StopsForReason` says that nothing else does;
- `p -= p` erases what its loop stands on (`NextTermOfSelf`).

An error loop's last round already ends with the error node, which the path then
adds again (k_induction.cpp:570 and 580); `QueriesAreExecutions` allows for it. A
branch with equal targets is noted for its true side only (utils.cpp:21), and a
return that is no constant is itself taken for a condition (spec.cpp:89, which casts
the instruction instead of its operand); `Conditions` says the same.

`OneMeaning` holds of the values `Tracked` names, and of no others, because the code
keeps no others apart: a pointer's refresh returns the old constant
(k_induction.cpp:1457), values without a name are numbered by the size of a map
(:1392) so that their second names need not be new, a global and a local may have
the same name, and the phis of a block read one after another.

## What is proved

All theorems are about every value of the constants: every set of programs,
graphs or modules that meets the named assumptions. TLC checked each formula
first, the inductive invariants included. Two arguments return in several modules.
What is defined by recursion is handled by sets: the search functions of `Paths` are
built up from the elements of least height, what a loop or a concatenation adds up
to by taking a least number for which a claim would fail. And that a walk, a stack
or a way stays short is the pigeonhole principle on its nodes, which are distinct.

**BuildCFGProofs**, from `ProgramsAssumption`. The properties are not inductive: that
a child's index is right relies on nodes never being doubled, and that nothing is
forgotten relies on the block in progress having been noted. `Inv` adds that queued
blocks are the entry or successors of visited ones (`QueueNoted`), visited blocks have
nodes, the first node is the entry's, the node in progress is the one its block names,
and all nodes are reachable. Two lemmas describe the effect of `PopFresh` and
`AddChild` on the vector; the rest is one lemma per action. With `Inv`:

- `TypeCorrect`, `OneNode`, `NothingForgotten`, `ChildsCorrect`, `IndexesAreStable`;
- `WalkIsCorrect`: at the end the queue is empty, so the nodes are closed under
  successors and hold every reachable block;
- `WalkGivesCFG`: the graph meets `IsCFG`, the contract the searches rest on. It needs
  that each node has the loop index of its block (`LoopsFilled`) and that nested loops
  give all their blocks the outermost one's;
- `Refinement`: leaving the successor loop is `Explore`'s expansion, `Finish` its
  end, everything else a stutter.

**InitPathsProofs**, from `GraphsAssumption` and `ReducibleAssumption`. `Inv` is the
type, the agreement of vector and calls, and the saved paths being real, all for the
one graph chosen; a path is real because the vector was a walk when it was saved:
`TypeCorrect`, `CallsAgree`, `SavedPathsAreReal`. `FindsAllInitPaths` is the harder
half. The function `InitNodesOf` exists because heights fall from a walk to the
walks of its children. `SavedInv` then says what has been saved at any moment: for
each call in progress, from the outermost on, what the function gives for the children
the call is through with (`CallsInv` says where the calls stand). At the end one call
is left and has tried all. That the function in turn gives one path per route is shown
for the routes that begin with a given one (`SavesThrough`): those through different
children are apart, so their numbers add up. Routes run out before the number of
nodes does, or a node would come back, against the heights.

**ErrPathProofs**, for the search after the loops from the same assumptions, for the one
behind a loop from `BlocksAssumption` too. `Inv` says that `v` is a way (linked
elements, none twice, a loop being one) that begins with the path given: it gives
`PathInProgress` and `SavedPathsReachError`. A lemma shows that every init path leads
to a loop, so that the search starts with one. `FindsAllPaths` goes as above, with
`CallsInv` and `SavedInv` over elements; there remains that the function's result is
`RealPaths`. Every path saved is built by a chain of links and so among the real ones;
a real path is followed by the search element by element, and where loops can be left
over their header nothing on it is skipped.

Behind a loop the search keeps one path and its marks. That a path on which nothing
comes twice stays one rests on the marks, and the marks rest on how the path was
walked: the nodes of the path are marked, and what is marked and not on it was left for
good, all its children marked as well (`LoopMarks`). `LoopInv` has this, that the path
is a way (`LoopWay`), and that the search, from where it stands, finds what all of it
finds: the function of `PathToLoop` has one value along the run. That there is such a
function needs a measure, twice the number of unmarked nodes and the length of the path,
which a step and a step back make smaller. A header's loop over its children pushes
one element at most, by `BlocksAssumption`; otherwise two might be pushed that are not
linked. So `LoopPathAlwaysReal`, and `LoopPathIsPattern1`: what is handed on is the
function's path and a block named ERROR. With nothing left on the path, the marks are
closed under children and the error loop is not among them: `LoopMarksLoseNothing`.
`PathToLoopEndsInIt` says of the function what `SearchAssumption` takes for granted.

**InductiveStepProofs**, from the assumptions of Paths and BaseCase, for the
composition of base case and inductive step. `BaseInv` and `StepInv` say that a
sequence under construction is the concatenation of the unrollings of the elements
before the current one, and that every query asked is that of its round: so
`RoundsStayApart`, and `StepUnrolls`, as what the step would stop at is the same for
every number of rounds. A concatenation is a walk if its pieces are and the joints are
edges; a loop of one block repeats over its back edge, and the chain gives the joints:
`QueriesExecute`. A node is counted in one element only, so one more round adds one to
each node of a loop and to no other: `StepAddsRound`.

**VerifyProofs**, from `ModulesAssumption` and `SearchAssumption`. `Progress` says
that the refuted base cases are exactly those before the current (init path,
error path, round) in the order of the three nested loops; `Rounds` says that
only a module with a call gets a second K: `LaterKsDecideNothing`, and `Refinement`,
since the base case put to the solver is always an open one, and when the loops are
over none is left. `TypedInv` adds that an error loop's first init path is its last,
because the inductive step does not support its path (`ErrorLoopStaysFirst`), and that
behind `TRUE` every base case is refuted: `TypeCorrect`, and `TrueCoversAll`, which
takes from `SearchAssumption` that the paths found are the real ones.

**EncodeProofs**, from `JobsAssumption`: any program, any walk. The tables fit
together (`TypeCorrect`) because an entry is made with its place. `OneMeaning` is not
inductive: a new constant is told from the old ones only if the versions keep step
with the definitions. `IInv` adds that every value in the map has a place in `exprs`
of its own, apart from the arrays (`OwnPlaces`); that in all that was looked up the
version of the constant and the number of the definition differ by one amount per
value (`Meanings`; an input read before it is defined is its version 0, so the amount
need not be nothing); that exactly the nameless values in the map are counted in
`label2Num` (`Labels`), so the first name given to such a value is new
(`NamedApart`). One lemma per kind of lookup; theorem `OneConstantOneMeaning`.
`WalkInv` is about the walk: a value has as many definitions as its instruction was
passed (`CountsRight`, a cardinality), the flag is up until a base case met a nondet
value (`FlagTells`), and each instruction passed has said what it should and of which
constants (`Said`, `InHand` for the one in progress). It gives `FirstNondetPinned` and
`PathIsConditioned`.

**SpecConditionsProofs**, from `ProgramsAssumption`. `IInv` says of the worklist that
a block on it has all its predecessors scanned (`Ready`), that a block not on it has
a predecessor still to be scanned or the block in hand with this edge still to come
(`NoneForgotten`), and that while an edge is still to come its target is not yet on
the list (`NotYetQueued`). Without back edges there is no cycle, so an empty worklist
leaves no block: a set of blocks left over would have one without predecessors in it.
Theorems `TypeCorrect`, `ScannedOnce`, and `Refinement`: a step of `Pop` is
`Explore`'s expansion and `Finish` its end. `FInv` is about what is found: a search in
progress stands on a chain of jumps to the block of interest, what it has found decides
about that block, and of each block it was called for every predecessor is found,
called for, or left on the stack (`AllCalled`). When the stack is empty the blocks
called for are closed, so all that jump to the block are among them:
`AllConditionsFound`, `NothingToAssert`. A stack higher than the number of blocks has
one of them twice, which makes a cycle of jumps: `StopsExplained`.

**LinearExpressionsProofs**, for any set of instructions and any coefficients. The
key lemma is what `Plus` does to every coefficient; `MeansExpected` is then inductive
with the types, and `Canonical` with the absence of zeros from the polynomial and the
operand (`NoZeros`). Theorems `ComputesExpected`, `StaysCanonical`.

**Only model-checked.** Termination, which is liveness under fairness. That the
assumptions on graphs hold of what LLVM's loop analysis gives: TLC evaluates them on the
graphs of the runs, which LoopInfo makes. `SearchAssumption` stays an assumption
about the modules of Verify. For graphs that meet the assumptions of Paths, what it says
of the results is proved (`FindsAllInitPaths`, `FindsAllPaths`, `PathToLoopEndsInIt`);
that a program with a loop has a way into one, as verify() asserts, is not.

## What is not modelled

- *What an equation says*: operators, widths, the array terms. That ICMP_ULT and
  ICMP_UGT become signed comparisons (k_induction.cpp:1377) and that all arrays share
  the constant `arr` are listed with the hazards.
- *Behind `assert(false)` of the inductive step's first pattern*
  (k_induction.cpp:897-957): it cannot run.
- *Loop information that nothing reads*: induction variable, bounds, depth.
- *Rounding* in linear expressions, whose coefficients are doubles.
- *Compilation, bitcode, loop rotation, printing*: input and output, and LLVM.

## Plan

1. *(done)* CFG construction with Explore; proofs.
2. *(done)* Init paths; proofs of safety.
3. *(done)* Both error path searches.
4. *(done)* Unrolling and base case.
5. *(done)* Driver with Verdict; proofs. Several error blocks.
6. *(done)* The encoding: names and versions of values; proofs.
7. *(done)* Specification conditions against Explore; proofs.
8. *(done)* The inductive step behind its base case.
9. *(done)* Linear expressions; proofs.
10. *(done)* Proofs of completeness of the searches, of the base case and the
    inductive step, and of what is asserted of branches and nondet values.
11. *(done)* Proofs of the search behind a loop, with `BlocksAssumption`.
