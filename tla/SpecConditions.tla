--------------------------- MODULE SpecConditions ---------------------------
(****************************************************************************)
(* findSpecConditions and findBranchPoints: the branch conditions that      *)
(* decide whether a block is reached that calls abort or reach_error, or    *)
(* that returns from main with something else than 0.  The blocks are       *)
(* scanned in an order in which every edge but the back edges leads on; for *)
(* a block of interest the branches before it are looked up recursively.    *)
(* verify() stops at once when there is no ASSERT among the conditions.     *)
(****************************************************************************)
EXTENDS Naturals, Sequences, FiniteSets, SequencesExt

CONSTANTS
    Programs,       \* the programs under verification
    MaxDepth        \* the calls of findBranchPoints the stack has room for

(****************************************************************************)
(* A block ends in no successor, a jump, a branch (true first), or, if it   *)
(* is one of the switches, in any number.  ret: a return of a constant      *)
(* other than 0; retval: of what is no constant; indirect: a call through a *)
(* pointer; other: what the scan passes over.  A return without a value,    *)
(* whose null pointer would be cast, is not among them: the function is     *)
(* always main, which returns an int.                                       *)
(****************************************************************************)
Instr == {"abort", "reach_error", "ret", "retval", "indirect", "other"}

Program == [succ : Seq(Seq(Nat)), instrs : Seq(Seq(Instr)), switches : SUBSET Nat]

Blocks(p) == DOMAIN p.succ
Edges(p) == {e \in Blocks(p) \X Blocks(p) : e[2] \in ToSet(p.succ[e[1]])}
Entry == 1
NullBlock == 0

(****************************************************************************)
(* FindFunctionBackedges of LLVM: a depth-first walk from the entry finds   *)
(* the edges that lead to a block on its stack.                             *)
(****************************************************************************)
BackEdges(p) ==
    LET walk[stack \in Seq(Blocks(p)), seen \in SUBSET Blocks(p)] ==
            IF stack = << >> THEN {}
            ELSE LET bb == Last(stack)
                     fresh == SelectSeq(p.succ[bb], LAMBDA s : s \notin seen)
                 IN  IF fresh = << >>
                     THEN ({bb} \X (ToSet(p.succ[bb]) \cap ToSet(stack))) \cup walk[Front(stack), seen]
                     ELSE walk[Append(stack, Head(fresh)), seen \cup {Head(fresh)}]
    IN  walk[<<Entry>>, {Entry}]

Forward(p) == Edges(p) \ BackEdges(p)

(****************************************************************************)
(* What clang -O2 leaves and LLVM demands: the entry has no predecessor,    *)
(* every other block can be reached, and without the back edges there is no *)
(* cycle, so any set of other blocks has one that no edge enters from it.   *)
(****************************************************************************)
ASSUME ProgramsAssumption ==
    \A p \in Programs :
        LET forward == Forward(p)
            others == Blocks(p) \ {Entry}
        IN  /\ p \in Program
            /\ Entry \in Blocks(p)
            /\ DOMAIN p.instrs = Blocks(p)
            /\ \A b \in Blocks(p) : p.succ[b] \in Seq(others)
            /\ \A b \in others : \E a \in Blocks(p) : <<a, b>> \in forward
            /\ \A S \in SUBSET others :
                  S # {} => \E b \in S : \A a \in S : <<a, b>> \notin forward

ASSUME MaxDepthAssumption == MaxDepth \in Nat

VARIABLES
    prog,
    backedges,
    worklist,
    visited,
    BB,             \* the block in hand
    pos,            \* the place of the scan in it
    succIdx,        \* the place of the loop over its successors
    stack,          \* the calls of findBranchPoints, each with the
                    \* predecessors it has not looked at
    BrPts,          \* what they found: a block that branches, and whether
                    \* it is for true
    LCs,            \* the conditions found, in no order: only whether there
                    \* is one matters
    pc              \* "pop", "scan", "find", "push" or "done"; "abort" when
                    \* an assertion fails, "crash" at a null pointer,
                    \* "overflow" when the stack has no more room

find == <<stack, BrPts>>
vars == <<prog, backedges, worklist, visited, BB, pos, succIdx, find, LCs, pc>>

Preds(b) == {a \in Blocks(prog) : <<a, b>> \in Edges(prog)}

Condition == [ofBranch : BOOLEAN, bb : Nat \ {0}, isTrueBr : BOOLEAN, label : {"ASSUME", "ASSERT"}]

Init ==
    /\ prog \in Programs
    /\ backedges = BackEdges(prog)
    /\ worklist = <<Entry>>
    /\ visited = {}
    /\ BB = NullBlock
    /\ pos = 1 /\ succIdx = 1
    /\ stack = << >> /\ BrPts = {}
    /\ LCs = {}
    /\ pc = "pop"

Pop ==
    /\ pc = "pop"
    /\ worklist # << >>
    /\ BB' = Head(worklist)
    /\ worklist' = Tail(worklist)
    /\ visited' = visited \cup {Head(worklist)}
    /\ pos' = 1
    /\ pc' = "scan"
    /\ UNCHANGED <<prog, backedges, succIdx, find, LCs>>

FinishEarly ==
    /\ pc = "pop"
    /\ Len(worklist) <= 1
    /\ visited # {}
    /\ pc' = "done"
    /\ UNCHANGED <<prog, backedges, worklist, visited, BB, pos, succIdx, find, LCs>>

Finish ==
    /\ pc = "pop"
    /\ worklist = << >>
    /\ pc' = "done"
    /\ UNCHANGED <<prog, backedges, worklist, visited, BB, pos, succIdx, find, LCs>>

------------------------------------------------------------------------------
(****************************************************************************)
(* The scan of a block.                                                     *)
(****************************************************************************)
I == prog.instrs[BB][pos]
Scanning(kinds) == pc = "scan" /\ pos <= Len(prog.instrs[BB]) /\ I \in kinds
Label(instr) == IF instr = "abort" THEN "ASSUME" ELSE "ASSERT"
Call(b) == [bb |-> b, left |-> Preds(b)]

PassInstr ==
    /\ Scanning({"other"})
    /\ pos' = pos + 1
    /\ UNCHANGED <<prog, backedges, worklist, visited, BB, succIdx, find, LCs, pc>>

StartFind ==
    /\ Scanning({"abort", "reach_error", "ret"})
    /\ stack' = <<Call(BB)>>
    /\ BrPts' = {}
    /\ pc' = "find"
    /\ UNCHANGED <<prog, backedges, worklist, visited, BB, pos, succIdx, LCs>>

(****************************************************************************)
(* The condition is the return itself: the cast that should tell what kind  *)
(* of value is returned is made of the instruction.                         *)
(****************************************************************************)
ReturnOfValue ==
    /\ Scanning({"retval"})
    /\ LCs' = LCs \cup {[ofBranch |-> FALSE, bb |-> BB, isTrueBr |-> TRUE, label |-> "ASSERT"]}
    /\ pos' = pos + 1
    /\ UNCHANGED <<prog, backedges, worklist, visited, BB, succIdx, find, pc>>

IndirectCall ==
    /\ Scanning({"indirect"})
    /\ pc' = "crash"
    /\ UNCHANGED <<prog, backedges, worklist, visited, BB, pos, succIdx, find, LCs>>

EndScan ==
    /\ pc = "scan"
    /\ pos > Len(prog.instrs[BB])
    /\ succIdx' = 1
    /\ pc' = "push"
    /\ UNCHANGED <<prog, backedges, worklist, visited, BB, pos, find, LCs>>

------------------------------------------------------------------------------
(****************************************************************************)
(* findBranchPoints.  LLVM gives the predecessors in the order of their     *)
(* uses, which is taken to be any.                                          *)
(****************************************************************************)
Finding == pc = "find" /\ stack # << >>
Callee == Last(stack)
Looked(a) == [stack EXCEPT ![Len(stack)].left = @ \ {a}]
IsJump(p, a) == a \notin p.switches /\ Len(p.succ[a]) = 1
IsBranch(p, a) == a \notin p.switches /\ Len(p.succ[a]) = 2

NoPreds ==
    /\ Finding
    /\ Preds(Callee.bb) = {}
    /\ BrPts' = BrPts \cup {<<NullBlock, TRUE>>}
    /\ stack' = Front(stack)
    /\ UNCHANGED <<prog, backedges, worklist, visited, BB, pos, succIdx, LCs, pc>>

BranchSidesSwapped ==
    /\ Finding
    /\ \E a \in Callee.left :
          /\ IsBranch(prog, a)
          /\ BrPts' = BrPts \cup {<<a, prog.succ[a][2] = Callee.bb>>}
          /\ stack' = Looked(a)
    /\ UNCHANGED <<prog, backedges, worklist, visited, BB, pos, succIdx, LCs, pc>>

BranchBefore ==
    /\ Finding
    /\ \E a \in Callee.left :
          /\ IsBranch(prog, a)
          /\ BrPts' = BrPts \cup {<<a, prog.succ[a][1] = Callee.bb>>}
          /\ stack' = Looked(a)
    /\ UNCHANGED <<prog, backedges, worklist, visited, BB, pos, succIdx, LCs, pc>>

JumpBeforeAgain ==
    /\ Finding
    /\ Len(stack) < MaxDepth
    /\ \E a \in Callee.left :
          /\ IsJump(prog, a)
          /\ stack' = Append(Looked(a), Call(Callee.bb))
    /\ UNCHANGED <<prog, backedges, worklist, visited, BB, pos, succIdx, BrPts, LCs, pc>>

JumpBefore ==
    /\ Finding
    /\ Len(stack) < MaxDepth
    /\ \E a \in Callee.left :
          /\ IsJump(prog, a)
          /\ stack' = Append(Looked(a), Call(a))
    /\ UNCHANGED <<prog, backedges, worklist, visited, BB, pos, succIdx, BrPts, LCs, pc>>

Overflow ==
    /\ Finding
    /\ Len(stack) = MaxDepth
    /\ \E a \in Callee.left : IsJump(prog, a)
    /\ pc' = "overflow"
    /\ UNCHANGED <<prog, backedges, worklist, visited, BB, pos, succIdx, find, LCs>>

SwitchBefore ==
    /\ Finding
    /\ Callee.left \cap prog.switches # {}
    /\ pc' = "abort"
    /\ UNCHANGED <<prog, backedges, worklist, visited, BB, pos, succIdx, find, LCs>>

Return ==
    /\ Finding
    /\ Callee.left = {} /\ Preds(Callee.bb) # {}
    /\ stack' = Front(stack)
    /\ UNCHANGED <<prog, backedges, worklist, visited, BB, pos, succIdx, BrPts, LCs, pc>>

(****************************************************************************)
(* Back in findSpecConditions.  The null block comes first in the set.      *)
(****************************************************************************)
Found ==
    /\ pc = "find" /\ stack = << >>
    /\ <<NullBlock, TRUE>> \notin BrPts
    /\ LCs' = LCs \cup {[ofBranch |-> TRUE, bb |-> BrBB[1], isTrueBr |-> BrBB[2], label |-> Label(I)] :
                            BrBB \in BrPts}
    /\ pos' = pos + 1
    /\ pc' = "scan"
    /\ UNCHANGED <<prog, backedges, worklist, visited, BB, succIdx, find>>

NullNotChecked ==
    /\ pc = "find" /\ stack = << >>
    /\ <<NullBlock, TRUE>> \in BrPts
    /\ LCs' = LCs \cup {[ofBranch |-> TRUE, bb |-> NullBlock, isTrueBr |-> TRUE, label |-> Label(I)]}
    /\ pos' = pos + 1
    /\ pc' = "scan"
    /\ UNCHANGED <<prog, backedges, worklist, visited, BB, succIdx, find>>

FoundNull ==
    /\ pc = "find" /\ stack = << >>
    /\ <<NullBlock, TRUE>> \in BrPts
    /\ pc' = "abort"
    /\ UNCHANGED <<prog, backedges, worklist, visited, BB, pos, succIdx, find, LCs>>

------------------------------------------------------------------------------
(****************************************************************************)
(* The successors of the block: one is put on the worklist when this block  *)
(* was the last of its predecessors, back edges aside.                      *)
(****************************************************************************)
Succ == prog.succ[BB][succIdx]

Pushing == pc = "push" /\ succIdx <= Len(prog.succ[BB])

FirstPredVisited(succ) == TRUE

LatchesToo(succ) == \A a \in Preds(succ) : a \in visited

VisitedPreds(succ) == \A a \in Preds(succ) : <<a, succ>> \in backedges \/ a \in visited

PushSucc ==
    /\ Pushing
    /\ <<BB, Succ>> \notin backedges
    /\ VisitedPreds(Succ)
    /\ worklist' = Append(worklist, Succ)
    /\ succIdx' = succIdx + 1
    /\ UNCHANGED <<prog, backedges, visited, BB, pos, find, LCs, pc>>

PassSuccForever ==
    /\ Pushing
    /\ <<BB, Succ>> \in backedges \/ ~VisitedPreds(Succ)
    /\ UNCHANGED vars

PassSucc ==
    /\ Pushing
    /\ <<BB, Succ>> \in backedges \/ ~VisitedPreds(Succ)
    /\ succIdx' = succIdx + 1
    /\ UNCHANGED <<prog, backedges, worklist, visited, BB, pos, find, LCs, pc>>

EndPush ==
    /\ pc = "push"
    /\ succIdx > Len(prog.succ[BB])
    /\ pc' = "pop"
    /\ UNCHANGED <<prog, backedges, worklist, visited, BB, pos, succIdx, find, LCs>>

Ended == pc \in {"done", "abort", "crash", "overflow"} /\ UNCHANGED vars

Scan == PassInstr \/ StartFind \/ ReturnOfValue \/ IndirectCall \/ EndScan
Find == \/ NoPreds \/ BranchBefore \/ JumpBefore \/ Overflow \/ SwitchBefore \/ Return
        \/ Found \/ FoundNull
Push == PushSucc \/ PassSucc \/ EndPush

Next == Pop \/ Finish \/ Scan \/ Find \/ Push \/ Ended

Spec == Init /\ [][Next]_vars

(****************************************************************************)
(* One thread, which goes on while it can.                                  *)
(****************************************************************************)
FairSpec == Spec /\ WF_vars(Next)

------------------------------------------------------------------------------
TypeOK ==
    /\ prog \in Program
    /\ worklist \in Seq(Blocks(prog))
    /\ visited \subseteq Blocks(prog)
    /\ BB \in Blocks(prog) \cup {NullBlock}
    /\ pc \in {"scan", "find", "push"} => BB \in visited
    /\ pos \in Nat \ {0}
    /\ succIdx \in Nat \ {0}
    /\ stack \in Seq([bb : Blocks(prog), left : SUBSET Blocks(prog)])
    /\ BrPts \subseteq (Blocks(prog) \X BOOLEAN) \cup {<<NullBlock, TRUE>>}
    /\ LCs \subseteq Condition
    /\ pc \in {"pop", "scan", "find", "push", "done", "abort", "crash", "overflow"}

(****************************************************************************)
(* A block is put on the worklist once, if no switch leads to a block       *)
(* twice, and only after all blocks before it: its code is not scanned      *)
(* again, and no condition noted twice.                                     *)
(****************************************************************************)
Simple(p) == \A b \in Blocks(p) : IsInjective(p.succ[b])

OnceEach ==
    Simple(prog) =>
        /\ IsInjective(worklist)
        /\ ToSet(worklist) \cap visited = {}

(****************************************************************************)
(* Where jumps alone lead from a block, the block included.                 *)
(****************************************************************************)
ClosedByJumps(p, S) == \A e \in Edges(p) : IsJump(p, e[1]) /\ e[1] \in S => e[2] \in S

JumpsTo(p, b) ==
    {x \in Blocks(p) : \A S \in SUBSET Blocks(p) : b \in S /\ ClosedByJumps(p, S) => x \in S}

OfInterest(p) == UNION {{<<b, p.instrs[b][n]>> : n \in DOMAIN p.instrs[b]} : b \in Blocks(p)}
Sought(p) == {l \in OfInterest(p) : l[2] \in {"abort", "reach_error", "ret"}}

(****************************************************************************)
(* The conditions there are: those of the branches after which, on one      *)
(* side, jumps alone lead to a block of interest, and the values returned.  *)
(****************************************************************************)
Conditions(p) ==
    (UNION {{[ofBranch |-> TRUE, bb |-> side[1], isTrueBr |-> side[2], label |-> Label(l[2])] :
                side \in {x \in Blocks(p) \X BOOLEAN :
                            /\ IsBranch(p, x[1])
                            /\ l[1] \in JumpsTo(p, p.succ[x[1]][IF x[2] THEN 1 ELSE 2])}} :
            l \in Sought(p)})
    \cup {[ofBranch |-> FALSE, bb |-> l[1], isTrueBr |-> TRUE, label |-> "ASSERT"] :
           l \in {x \in OfInterest(p) : x[2] = "retval"}}

(****************************************************************************)
(* When the search ends it has found them all: no block of interest is      *)
(* missed, in a loop or behind one, and no condition is given for a block   *)
(* it does not decide.  (A branch with both targets the same is given for   *)
(* true only.)                                                              *)
(****************************************************************************)
DoneFindsAll ==
    pc = "done" /\ Simple(prog) => LCs = Conditions(prog)

(****************************************************************************)
(* When verify() is told that there is nothing to assert, main calls        *)
(* reach_error nowhere, whatever the shape of its blocks.                   *)
(****************************************************************************)
NoAssertionMissed ==
    pc = "done" /\ (\A c \in LCs : c.label # "ASSERT") =>
        \A l \in OfInterest(prog) : l[2] \in {"abort", "indirect", "other"}

(****************************************************************************)
(* The search stops with an assertion only when a block of interest is      *)
(* reached from the entry or from a switch without a condition in between;  *)
(* and with room for as many calls as there are blocks it runs out of stack *)
(* only when such a block jumps back to itself: the recursion has no other  *)
(* end that is missing.                                                     *)
(****************************************************************************)
StopsForReason ==
    /\ pc = "abort" =>
          \E l \in Sought(prog) :
              \/ l[1] \in JumpsTo(prog, Entry)
              \/ \E e \in Edges(prog) : e[1] \in prog.switches /\ l[1] \in JumpsTo(prog, e[2])
    /\ pc = "overflow" /\ Len(prog.succ) <= MaxDepth =>
          \E l \in Sought(prog) : \E e \in Edges(prog) :
              e[1] = l[1] /\ IsJump(prog, e[1]) /\ l[1] \in JumpsTo(prog, e[2])

(****************************************************************************)
(* The search ends on every program, one way or another.                    *)
(****************************************************************************)
Terminates == <>(pc \in {"done", "abort", "crash", "overflow"})

(****************************************************************************)
(* The worklist implements Explore: every block is reached from one that    *)
(* was scanned, and the search is not done before all were.                 *)
(****************************************************************************)
Abstract == INSTANCE Explore
    WITH prog <- [entry |-> Entry, succ |-> prog.succ], expanded <- visited, finished <- (pc = "done")

ImplementsExplore == Abstract!Spec
==============================================================================
