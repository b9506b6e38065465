------------------------- MODULE SpecConditionsProofs -------------------------
(****************************************************************************)
(* The worklist of findSpecConditions, for every set of programs: a block   *)
(* is put on it once, after all blocks before it, and the search does not   *)
(* end before every block was scanned.  And what the recursion behind it    *)
(* finds: exactly the conditions that decide, no assertion overlooked.      *)
(****************************************************************************)
EXTENDS SpecConditions, SequenceTheorems, FiniteSetTheorems, TLAPS

Fwd(a, b) == <<a, b>> \in Forward(prog)
Queued == ToSet(worklist) \cup visited
Searching == pc \notin {"pop", "push", "done"}

(****************************************************************************)
(* A block comes after all blocks before it.                                *)
(****************************************************************************)
Ready == \A b \in Queued : \A a : Fwd(a, b) => a \in visited

(****************************************************************************)
(* The turn of the edge from a to b is still to come.                       *)
(****************************************************************************)
ToCome(a, b) ==
    \/ Searching
    \/ pc = "push" /\ \E j \in succIdx..Len(prog.succ[a]) : prog.succ[a][j] = b

(****************************************************************************)
(* A block that is not on the worklist has somebody before it who is to put *)
(* it there.                                                                *)
(****************************************************************************)
NoneForgotten ==
    /\ Entry \in Queued
    /\ \A b \in Blocks(prog) :
          b \notin Queued => \E a : Fwd(a, b) /\ (a \notin visited \/ (a = BB /\ ToCome(a, b)))

(****************************************************************************)
(* And while its turn is to come, nobody else has put it there.             *)
(****************************************************************************)
NotYetQueued ==
    Simple(prog) => \A b \in Queued : Fwd(BB, b) => ~ToCome(BB, b)

IInv ==
    /\ TypeOK
    /\ prog \in Programs
    /\ backedges = BackEdges(prog)
    /\ Ready
    /\ NoneForgotten
    /\ OnceEach
    /\ NotYetQueued

------------------------------------------------------------------------------
LEMMA ProgramFacts ==
    ASSUME NEW p \in Programs
    PROVE  /\ p \in Program
           /\ Entry \in Blocks(p)
           /\ DOMAIN p.instrs = Blocks(p)
           /\ \A b \in Blocks(p) : p.succ[b] \in Seq(Blocks(p) \ {Entry})
           /\ \A b \in Blocks(p) \ {Entry} : \E a \in Blocks(p) : <<a, b>> \in Forward(p)
           /\ \A S \in SUBSET (Blocks(p) \ {Entry}) :
                 S # {} => \E b \in S : \A a \in S : <<a, b>> \notin Forward(p)
  BY ProgramsAssumption

LEMMA BlockType ==
    ASSUME NEW p \in Programs
    PROVE  Blocks(p) \subseteq Nat \ {0}
  BY ProgramFacts DEF Blocks, Program

(****************************************************************************)
(* The elements of a sequence.                                              *)
(****************************************************************************)
LEMMA Elements ==
    ASSUME NEW S, NEW s \in Seq(S)
    PROVE  /\ ToSet(s) = {s[n] : n \in 1..Len(s)}
           /\ ToSet(s) \subseteq S
           /\ Len(s) \in Nat
           /\ DOMAIN s = 1..Len(s)
           /\ \A n \in 1..Len(s) : s[n] \in S /\ s[n] \in ToSet(s)
           /\ \A x \in ToSet(s) : \E n \in 1..Len(s) : s[n] = x
           /\ s # << >> => 1 \in 1..Len(s) /\ Head(s) = s[1]
  BY DEF ToSet

LEMMA TailElements ==
    ASSUME NEW S, NEW s \in Seq(S), s # << >>
    PROVE  /\ Tail(s) \in Seq(S)
           /\ Head(s) \in ToSet(s)
           /\ ToSet(s) = ToSet(Tail(s)) \cup {Head(s)}
           /\ IsInjective(s) => IsInjective(Tail(s)) /\ Head(s) \notin ToSet(Tail(s))
  <1>1. /\ Tail(s) \in Seq(S)
        /\ Len(Tail(s)) = Len(s) - 1
        /\ \A n \in 1..Len(s)-1 : Tail(s)[n] = s[n+1]
        /\ Head(s) = s[1] /\ Len(s) \in Nat \ {0}
    OBVIOUS
  <1>2. /\ ToSet(s) = {s[n] : n \in 1..Len(s)}
        /\ ToSet(Tail(s)) = {Tail(s)[n] : n \in 1..Len(s)-1}
    <2>1. ToSet(Tail(s)) = {Tail(s)[n] : n \in 1..Len(Tail(s))}
      <3>1. Tail(s) \in Seq(S)
        BY <1>1
      <3>. DEFINE t == Tail(s)
      <3>. HIDE DEF t
      <3>2. ToSet(t) = {t[n] : n \in 1..Len(t)}
        BY <3>1, Elements DEF t
      <3>. QED
        BY <3>2 DEF t
    <2>. QED
      BY <1>1, <2>1, Elements
  <1>3. \A n \in 1..Len(s) : n = 1 \/ (n - 1 \in 1..Len(s)-1 /\ Tail(s)[n-1] = s[n])
    BY <1>1
  <1>4. ToSet(s) = ToSet(Tail(s)) \cup {Head(s)}
    <2>1. \A n \in 1..Len(s) : s[n] = Head(s) \/ s[n] \in ToSet(Tail(s))
      BY <1>1, <1>2, <1>3
    <2>2. \A n \in 1..Len(s)-1 : Tail(s)[n] \in ToSet(s)
      BY <1>1, <1>2
    <2>3. Head(s) \in ToSet(s)
      BY <1>1, <1>2
    <2>. QED
      BY <1>2, <2>1, <2>2, <2>3
  <1>5. ASSUME IsInjective(s) PROVE IsInjective(Tail(s)) /\ Head(s) \notin ToSet(Tail(s))
    BY <1>1, <1>2, <1>5 DEF IsInjective
  <1>. QED
    BY <1>1, <1>4, <1>5

LEMMA AppendElements ==
    ASSUME NEW S, NEW s \in Seq(S), NEW x \in S
    PROVE  /\ Append(s, x) \in Seq(S)
           /\ ToSet(Append(s, x)) = ToSet(s) \cup {x}
           /\ IsInjective(s) /\ x \notin ToSet(s) => IsInjective(Append(s, x))
  <1>1. /\ Append(s, x) \in Seq(S)
        /\ Len(Append(s, x)) = Len(s) + 1
        /\ \A n \in 1..Len(s) : Append(s, x)[n] = s[n]
        /\ Append(s, x)[Len(s)+1] = x
        /\ Len(s) \in Nat
    OBVIOUS
  <1>2. /\ ToSet(s) = {s[n] : n \in 1..Len(s)}
        /\ ToSet(Append(s, x)) = {Append(s, x)[n] : n \in 1..Len(s)+1}
    BY <1>1, Elements
  <1>3. ToSet(Append(s, x)) = ToSet(s) \cup {x}
    BY <1>1, <1>2
  <1>4. ASSUME IsInjective(s), x \notin ToSet(s) PROVE IsInjective(Append(s, x))
    BY <1>1, <1>2, <1>4 DEF IsInjective
  <1>. QED
    BY <1>1, <1>3, <1>4

LEMMA FrontType ==
    ASSUME NEW S, NEW s \in Seq(S), s # << >>
    PROVE  Front(s) \in Seq(S) /\ Last(s) \in S /\ Len(s) \in 1..Len(s)
  <1>1. Len(s) \in Nat \ {0} /\ s[Len(s)] \in S
    OBVIOUS
  <1>2. SubSeq(s, 1, Len(s)-1) \in Seq(S)
    BY <1>1
  <1>. QED
    BY <1>1, <1>2 DEF Front, Last

(****************************************************************************)
(* An edge is one place in the successors of a block.                       *)
(****************************************************************************)
LEMMA ForwardEdges ==
    ASSUME IInv, NEW a, NEW b, Fwd(a, b)
    PROVE  /\ a \in Blocks(prog)
           /\ b \in Blocks(prog) \ {Entry}
           /\ <<a, b>> \notin backedges
           /\ a \in Preds(b)
           /\ \E j \in 1..Len(prog.succ[a]) : prog.succ[a][j] = b
  <1>1. /\ a \in Blocks(prog) /\ b \in Blocks(prog)
        /\ b \in ToSet(prog.succ[a])
        /\ <<a, b>> \in Edges(prog) /\ <<a, b>> \notin backedges
    BY DEF Fwd, Forward, Edges, IInv
  <1>2. prog.succ[a] \in Seq(Blocks(prog) \ {Entry})
    BY <1>1, ProgramFacts DEF IInv
  <1>. QED
    BY <1>1, <1>2, Elements DEF Preds

LEMMA VisitedForward ==
    ASSUME IInv, NEW b \in Blocks(prog)
    PROVE  VisitedPreds(b) <=> \A a : Fwd(a, b) => a \in visited
  BY ForwardEdges DEF VisitedPreds, Fwd, Forward, Preds, IInv

(****************************************************************************)
(* The successor in hand.                                                   *)
(****************************************************************************)
LEMMA SuccFacts ==
    ASSUME IInv, Pushing
    PROVE  /\ BB \in Blocks(prog) /\ BB \in visited
           /\ succIdx \in 1..Len(prog.succ[BB])
           /\ Succ \in Blocks(prog) \ {Entry}
           /\ <<BB, Succ>> \notin backedges <=> Fwd(BB, Succ)
  <1>1. BB \in Blocks(prog) /\ BB \in visited /\ pc = "push"
    BY DEF Pushing, IInv, TypeOK
  <1>2. prog.succ[BB] \in Seq(Blocks(prog) \ {Entry})
    BY <1>1, ProgramFacts DEF IInv
  <1>3. succIdx \in 1..Len(prog.succ[BB])
    BY <1>2 DEF Pushing, IInv, TypeOK
  <1>4. Succ \in Blocks(prog) \ {Entry} /\ Succ \in ToSet(prog.succ[BB])
    BY <1>2, <1>3, Elements DEF Succ
  <1>. QED
    BY <1>1, <1>3, <1>4 DEF Fwd, Forward, Edges, IInv

------------------------------------------------------------------------------
(****************************************************************************)
(* The scan of a block and the calls of findBranchPoints do not touch the   *)
(* worklist.                                                                *)
(****************************************************************************)
core == <<prog, backedges, worklist, visited, BB>>

LEMMA CoreKept ==
    ASSUME IInv, TypeOK', UNCHANGED core, Searching, Searching'
    PROVE  IInv'
  <1>1. Ready' /\ OnceEach'
    BY DEF IInv, Ready, OnceEach, Queued, Fwd, core
  <1>2. NoneForgotten'
    BY DEF IInv, NoneForgotten, Queued, Fwd, core, ToCome
  <1>3. NotYetQueued'
    BY DEF IInv, NotYetQueued, Queued, Fwd, core, ToCome
  <1>. QED
    BY <1>1, <1>2, <1>3 DEF IInv, core

LEMMA InstrTypes ==
    ASSUME IInv, NEW kinds, Scanning(kinds)
    PROVE  BB \in Blocks(prog) /\ BB \in visited /\ pc = "scan"
  BY DEF Scanning, IInv, TypeOK

LEMMA ScanInv ==
    ASSUME IInv, PassInstr \/ StartFind \/ ReturnOfValue \/ IndirectCall
    PROVE  IInv'
  <1>0. BB \in Blocks(prog) /\ BB \in visited /\ pc = "scan" /\ BB \in Nat \ {0}
    BY InstrTypes, BlockType DEF PassInstr, StartFind, ReturnOfValue, IndirectCall, IInv
  <1>1. CASE PassInstr
    <2>1. pos' \in Nat \ {0}
      BY <1>1 DEF IInv, TypeOK, PassInstr
    <2>2. TypeOK'
      BY <1>0, <1>1, <2>1 DEF IInv, TypeOK, PassInstr, find
    <2>. QED
      BY <1>0, <1>1, <2>2, CoreKept DEF PassInstr, core, Searching
  <1>2. CASE StartFind
    <2>1. Call(BB) \in [bb : Blocks(prog), left : SUBSET Blocks(prog)]
      BY <1>0 DEF Call, Preds
    <2>2. stack' \in Seq([bb : Blocks(prog), left : SUBSET Blocks(prog)])
      BY <1>2, <2>1 DEF StartFind
    <2>3. TypeOK'
      BY <1>0, <1>2, <2>2 DEF IInv, TypeOK, StartFind
    <2>. QED
      BY <1>0, <1>2, <2>3, CoreKept DEF StartFind, core, Searching
  <1>3. CASE ReturnOfValue
    <2>1. LCs' \subseteq Condition
      <3>1. [ofBranch |-> FALSE, bb |-> BB, isTrueBr |-> TRUE, label |-> "ASSERT"] \in Condition
        BY <1>0 DEF Condition
      <3>. QED
        BY <1>3, <3>1 DEF IInv, TypeOK, ReturnOfValue
    <2>2. pos' \in Nat \ {0}
      BY <1>3 DEF IInv, TypeOK, ReturnOfValue
    <2>3. TypeOK'
      BY <1>0, <1>3, <2>1, <2>2 DEF IInv, TypeOK, ReturnOfValue, find
    <2>. QED
      BY <1>0, <1>3, <2>3, CoreKept DEF ReturnOfValue, core, Searching
  <1>4. CASE IndirectCall
    <2>1. TypeOK'
      BY <1>4 DEF IInv, TypeOK, IndirectCall, find
    <2>. QED
      BY <1>0, <1>4, <2>1, CoreKept DEF IndirectCall, core, Searching
  <1>. QED
    BY <1>1, <1>2, <1>3, <1>4

Frame == [bb : Blocks(prog), left : SUBSET Blocks(prog)]

LEMMA FrameTypes ==
    ASSUME IInv, Finding
    PROVE  /\ Callee \in Frame
           /\ Front(stack) \in Seq(Frame)
           /\ \A a : Looked(a) \in Seq(Frame)
           /\ \A a \in Blocks(prog) : Append(Looked(a), Call(a)) \in Seq(Frame)
  <1>1. stack \in Seq(Frame) /\ stack # << >>
    BY DEF IInv, TypeOK, Finding, Frame
  <1>2. Front(stack) \in Seq(Frame) /\ Last(stack) \in Frame /\ Len(stack) \in 1..Len(stack)
    BY <1>1, FrontType
  <1>3. ASSUME NEW a PROVE Looked(a) \in Seq(Frame)
    <2>1. [Last(stack) EXCEPT !.left = @ \ {a}] \in Frame
      BY <1>2 DEF Frame
    <2>2. stack[Len(stack)] = Last(stack)
      BY DEF Last
    <2>. QED
      BY <1>1, <1>2, <2>1, <2>2 DEF Looked
  <1>4. ASSUME NEW a \in Blocks(prog) PROVE Append(Looked(a), Call(a)) \in Seq(Frame)
    <2>1. Call(a) \in Frame
      BY DEF Call, Preds, Frame
    <2>. QED
      BY <1>3, <2>1
  <1>. QED
    BY <1>2, <1>3, <1>4 DEF Callee

LEMMA FindInv ==
    ASSUME IInv, Find
    PROVE  IInv'
  <1>0. pc = "find"
    BY DEF Find, NoPreds, BranchBefore, JumpBefore, Overflow, SwitchBefore, Return, Found, FoundNull,
           Finding
  <1>1. UNCHANGED core /\ UNCHANGED <<succIdx>> /\ Searching'
    BY <1>0 DEF Find, NoPreds, BranchBefore, JumpBefore, Overflow, SwitchBefore, Return, Found,
                FoundNull, core, Searching, find
  <1>2. /\ BB \in Blocks(prog) /\ BB \in visited
        /\ prog.instrs[BB][pos] = I
    BY <1>0 DEF IInv, TypeOK, I
  <1>3. TypeOK'
    <2>1. CASE NoPreds
      <3>1. stack' \in Seq(Frame) /\ BrPts' \subseteq (Blocks(prog) \X BOOLEAN) \cup {<<NullBlock, TRUE>>}
        BY <2>1, FrameTypes DEF NoPreds, IInv, TypeOK
      <3>. QED
        BY <2>1, <3>1 DEF NoPreds, IInv, TypeOK, Frame
    <2>2. CASE BranchBefore
      <3>1. PICK a \in Callee.left :
                /\ BrPts' = BrPts \cup {<<a, prog.succ[a][1] = Callee.bb>>}
                /\ stack' = Looked(a)
        BY <2>2 DEF BranchBefore
      <3>2. a \in Blocks(prog)
        BY <2>2, <3>1, FrameTypes DEF BranchBefore, Frame
      <3>3. stack' \in Seq(Frame)
        BY <2>2, <3>1, FrameTypes DEF BranchBefore
      <3>4. (prog.succ[a][1] = Callee.bb) \in BOOLEAN
        OBVIOUS
      <3>5. BrPts' \subseteq (Blocks(prog) \X BOOLEAN) \cup {<<NullBlock, TRUE>>}
        <4>1. <<a, prog.succ[a][1] = Callee.bb>> \in Blocks(prog) \X BOOLEAN
          BY <3>2, <3>4
        <4>. QED
          BY <3>1, <4>1 DEF IInv, TypeOK
      <3>. QED
        BY <2>2, <3>3, <3>5 DEF BranchBefore, IInv, TypeOK, Frame
    <2>3. CASE JumpBefore
      <3>1. PICK a \in Callee.left : stack' = Append(Looked(a), Call(a))
        BY <2>3 DEF JumpBefore
      <3>2. a \in Blocks(prog)
        BY <2>3, <3>1, FrameTypes DEF JumpBefore, Frame
      <3>3. stack' \in Seq(Frame)
        BY <2>3, <3>1, <3>2, FrameTypes DEF JumpBefore
      <3>. QED
        BY <2>3, <3>3 DEF JumpBefore, IInv, TypeOK, Frame
    <2>4. CASE Overflow \/ SwitchBefore \/ FoundNull
      BY <2>4 DEF Overflow, SwitchBefore, FoundNull, find, IInv, TypeOK
    <2>5. CASE Return
      <3>1. stack' \in Seq(Frame)
        BY <2>5, FrameTypes DEF Return
      <3>. QED
        BY <2>5, <3>1 DEF Return, IInv, TypeOK, Frame
    <2>6. CASE Found
      <3>1. \A BrBB \in BrPts : BrBB[1] \in Nat \ {0} /\ BrBB[2] \in BOOLEAN
        <4>1. \A BrBB \in BrPts : BrBB = <<NullBlock, TRUE>> \/ (BrBB[1] \in Blocks(prog) /\ BrBB[2] \in BOOLEAN)
          BY DEF IInv, TypeOK
        <4>. QED
          BY <2>6, <4>1, BlockType DEF IInv, TypeOK, Found
      <3>2. Label(I) \in {"ASSUME", "ASSERT"}
        BY DEF Label
      <3>3. LCs' \subseteq Condition
        <4>1. \A BrBB \in BrPts :
                  [ofBranch |-> TRUE, bb |-> BrBB[1], isTrueBr |-> BrBB[2], label |-> Label(I)] \in Condition
          BY <3>1, <3>2 DEF Condition
        <4>. QED
          BY <2>6, <4>1 DEF Found, IInv, TypeOK
      <3>4. pos' \in Nat \ {0}
        BY <2>6 DEF IInv, TypeOK, Found
      <3>. QED
        BY <1>2, <2>6, <3>3, <3>4 DEF Found, find, IInv, TypeOK
    <2>. QED
      BY <2>1, <2>2, <2>3, <2>4, <2>5, <2>6 DEF Find
  <1>. QED
    BY <1>0, <1>1, <1>3, CoreKept DEF Searching

------------------------------------------------------------------------------
(****************************************************************************)
(* The worklist.  A block that is taken from it is new, so nobody has put   *)
(* the blocks after it there.                                               *)
(****************************************************************************)
LEMMA PopFacts ==
    ASSUME IInv, Pop
    PROVE  /\ Head(worklist) \in Blocks(prog)
           /\ Head(worklist) \in Queued
           /\ worklist' \in Seq(Blocks(prog))
           /\ Queued' = Queued
           /\ Simple(prog) =>
                 /\ Head(worklist) \notin visited
                 /\ IsInjective(worklist')
                 /\ Head(worklist) \notin ToSet(worklist')
                 /\ ToSet(worklist') \cap visited = {}
  <1>1. worklist \in Seq(Blocks(prog)) /\ worklist # << >> /\ worklist' = Tail(worklist)
    BY DEF Pop, IInv, TypeOK
  <1>2. /\ worklist' \in Seq(Blocks(prog))
        /\ Head(worklist) \in ToSet(worklist)
        /\ ToSet(worklist) = ToSet(worklist') \cup {Head(worklist)}
        /\ IsInjective(worklist) => IsInjective(worklist') /\ Head(worklist) \notin ToSet(worklist')
    BY <1>1, TailElements
  <1>3. ToSet(worklist) \subseteq Blocks(prog)
    BY <1>1, Elements
  <1>4. Queued' = Queued
    BY <1>2 DEF Queued, Pop
  <1>. QED
    BY <1>2, <1>3, <1>4 DEF Queued, IInv, OnceEach

LEMMA PopInv ==
    ASSUME IInv, Pop
    PROVE  IInv'
  <1>1. /\ pc = "pop" /\ pc' = "scan" /\ pos' = 1
        /\ BB' = Head(worklist) /\ visited' = visited \cup {BB'}
        /\ UNCHANGED <<prog, backedges, succIdx, stack, BrPts, LCs>>
        /\ Queued' = Queued /\ BB' \in Queued
    BY PopFacts DEF Pop, find
  <1>2. TypeOK'
    <2>1. BB' \in Blocks(prog) /\ BB' \in visited' /\ worklist' \in Seq(Blocks(prog))
      BY <1>1, PopFacts
    <2>2. visited \subseteq Blocks(prog)
      BY DEF IInv, TypeOK
    <2>3. visited' \subseteq Blocks(prog) /\ pos' \in Nat \ {0}
      BY <1>1, <2>1, <2>2
    <2>. QED
      BY <1>1, <2>1, <2>3 DEF IInv, TypeOK
  <1>3. \A a, b : Fwd(a, b)' <=> Fwd(a, b)
    BY <1>1 DEF Fwd
  <1>4. Ready'
    BY <1>1, <1>3 DEF IInv, Ready
  <1>5. NoneForgotten'
    <2>1. ASSUME NEW b \in Blocks(prog), b \notin Queued
          PROVE  \E a : Fwd(a, b) /\ (a \notin visited' \/ a = BB')
      BY <1>1, <2>1 DEF IInv, NoneForgotten, ToCome, Searching
    <2>. QED
      BY <1>1, <1>3, <2>1 DEF IInv, NoneForgotten, ToCome, Searching
  <1>6. OnceEach'
    BY <1>1, PopFacts DEF OnceEach
  <1>7. NotYetQueued'
    <2>1. ASSUME Simple(prog), NEW b \in Queued, Fwd(BB', b) PROVE FALSE
      <3>1. BB' \in visited
        BY <2>1 DEF IInv, Ready
      <3>. QED
        BY <1>1, <2>1, <3>1, PopFacts
    <2>. QED
      BY <1>1, <1>3, <2>1 DEF NotYetQueued
  <1>. QED
    BY <1>1, <1>2, <1>4, <1>5, <1>6, <1>7 DEF IInv

LEMMA EndScanInv ==
    ASSUME IInv, EndScan
    PROVE  IInv'
  <1>1. /\ pc = "scan" /\ pc' = "push" /\ succIdx' = 1
        /\ UNCHANGED <<prog, backedges, worklist, visited, BB, pos, stack, BrPts, LCs>>
    BY DEF EndScan, find
  <1>2. TypeOK'
    <2>1. BB \in visited /\ succIdx' \in Nat \ {0}
      BY <1>1 DEF IInv, TypeOK
    <2>. QED
      BY <1>1, <2>1 DEF IInv, TypeOK
  <1>3. \A a, b : Fwd(a, b)' <=> Fwd(a, b)
    BY <1>1 DEF Fwd
  <1>4. Ready' /\ OnceEach'
    BY <1>1, <1>3 DEF IInv, Ready, OnceEach, Queued
  <1>5. \A a, b : Fwd(a, b) => ToCome(a, b)'
    BY <1>1, ForwardEdges DEF ToCome
  <1>6. NoneForgotten'
    <2>1. \A a, b : Fwd(a, b) => ToCome(a, b)
      BY <1>1 DEF ToCome, Searching
    <2>. QED
      BY <1>1, <1>3, <1>5, <2>1 DEF IInv, NoneForgotten, Queued
  <1>7. NotYetQueued'
    <2>1. \A b : ToCome(BB, b)
      BY <1>1 DEF ToCome, Searching
    <2>. QED
      BY <1>1, <1>3, <2>1 DEF IInv, NotYetQueued, Queued
  <1>. QED
    BY <1>1, <1>2, <1>4, <1>6, <1>7 DEF IInv

(****************************************************************************)
(* What is to come after the successor in hand.                             *)
(****************************************************************************)
LEMMA StillToCome ==
    ASSUME IInv, Pushing, succIdx' = succIdx + 1, pc' = "push", UNCHANGED <<prog, BB>>,
           NEW s, s = Succ
    PROVE  /\ \A b : ToCome(BB, b) <=> b = s \/ ToCome(BB, b)'
           /\ Simple(prog) => ~ToCome(BB, s)'
  <1>1. pc = "push" /\ ~Searching /\ ~Searching'
    BY DEF Pushing, Searching
  <1>2. succIdx \in 1..Len(prog.succ[BB]) /\ BB \in Blocks(prog)
    BY SuccFacts
  <1>3. prog.succ[BB] \in Seq(Blocks(prog) \ {Entry})
    BY <1>2, ProgramFacts DEF IInv
  <1>4. Len(prog.succ[BB]) \in Nat /\ DOMAIN prog.succ[BB] = 1..Len(prog.succ[BB])
    BY <1>3
  <1>5. /\ \A b : ToCome(BB, b) <=> \E j \in succIdx..Len(prog.succ[BB]) : prog.succ[BB][j] = b
        /\ \A b : ToCome(BB, b)' <=> \E j \in succIdx+1..Len(prog.succ[BB]) : prog.succ[BB][j] = b
    BY <1>1 DEF ToCome
  <1>6. \A j : j \in succIdx..Len(prog.succ[BB]) <=> j = succIdx \/ j \in succIdx+1..Len(prog.succ[BB])
    BY <1>2, <1>4
  <1>7. prog.succ[BB][succIdx] = s
    BY DEF Succ
  <1>8. \A b : ToCome(BB, b) <=> b = s \/ ToCome(BB, b)'
    BY <1>5, <1>6, <1>7
  <1>9. ASSUME Simple(prog) PROVE ~ToCome(BB, s)'
    <2>1. IsInjective(prog.succ[BB])
      BY <1>2, <1>9 DEF Simple
    <2>2. \A j \in succIdx+1..Len(prog.succ[BB]) : j \in 1..Len(prog.succ[BB]) /\ j # succIdx
      BY <1>2, <1>4
    <2>3. \A j \in succIdx+1..Len(prog.succ[BB]) : prog.succ[BB][j] # s
      BY <1>2, <1>4, <1>7, <2>1, <2>2 DEF IsInjective
    <2>. QED
      BY <1>5, <2>3
  <1>. QED
    BY <1>8, <1>9

LEMMA PushSuccInv ==
    ASSUME IInv, PushSucc
    PROVE  IInv'
  <1>1. /\ Pushing /\ pc = "push" /\ pc' = "push" /\ succIdx' = succIdx + 1
        /\ worklist' = Append(worklist, Succ)
        /\ Fwd(BB, Succ) /\ VisitedPreds(Succ)
        /\ UNCHANGED <<prog, backedges, visited, BB, pos, stack, BrPts, LCs>>
    BY SuccFacts DEF PushSucc, Pushing, find
  <1>s. PICK s : s = Succ
    OBVIOUS
  <1>2. s \in Blocks(prog) /\ BB \in visited
    BY <1>1, <1>s, SuccFacts
  <1>3. /\ worklist' \in Seq(Blocks(prog))
        /\ ToSet(worklist') = ToSet(worklist) \cup {s}
        /\ IsInjective(worklist) /\ s \notin ToSet(worklist) => IsInjective(worklist')
    BY <1>1, <1>2, <1>s, AppendElements DEF IInv, TypeOK
  <1>4. TypeOK'
    <2>1. succIdx' \in Nat \ {0}
      BY <1>1 DEF IInv, TypeOK
    <2>. QED
      BY <1>1, <1>3, <2>1 DEF IInv, TypeOK
  <1>5. Queued' = Queued \cup {s}
    BY <1>1, <1>3 DEF Queued
  <1>6. \A a, b : Fwd(a, b)' <=> Fwd(a, b)
    BY <1>1 DEF Fwd
  <1>7. Ready'
    <2>1. \A a : Fwd(a, s) => a \in visited
      BY <1>1, <1>2, <1>s, VisitedForward
    <2>. QED
      BY <1>1, <1>5, <1>6, <2>1 DEF IInv, Ready
  <1>8. NoneForgotten'
    <2>1. \A b : ToCome(BB, b) /\ b # s => ToCome(BB, b)'
      BY <1>1, <1>s, StillToCome
    <2>. QED
      BY <1>1, <1>5, <1>6, <2>1 DEF IInv, NoneForgotten
  <1>9. Simple(prog) => s \notin Queued
    BY <1>1, <1>s, StillToCome DEF IInv, NotYetQueued
  <1>10. OnceEach'
    BY <1>1, <1>3, <1>9 DEF IInv, OnceEach, Queued
  <1>11. NotYetQueued'
    <2>1. Simple(prog) => ~ToCome(BB, s)'
      BY <1>1, <1>s, StillToCome
    <2>2. \A b : ToCome(BB, b)' => ToCome(BB, b)
      BY <1>1, StillToCome
    <2>. QED
      BY <1>1, <1>5, <1>6, <2>1, <2>2 DEF IInv, NotYetQueued
  <1>. QED
    BY <1>1, <1>4, <1>7, <1>8, <1>10, <1>11 DEF IInv

(****************************************************************************)
(* A successor is passed over because of a back edge or because somebody    *)
(* before it was not scanned; the edge from there is still to come.         *)
(****************************************************************************)
LEMMA PassSuccInv ==
    ASSUME IInv, PassSucc
    PROVE  IInv'
  <1>1. /\ Pushing /\ pc = "push" /\ pc' = "push" /\ succIdx' = succIdx + 1
        /\ <<BB, Succ>> \in backedges \/ ~VisitedPreds(Succ)
        /\ UNCHANGED <<prog, backedges, worklist, visited, BB, pos, stack, BrPts, LCs>>
    BY DEF PassSucc, Pushing, find
  <1>s. PICK s : s = Succ
    OBVIOUS
  <1>2. s \in Blocks(prog) /\ (Fwd(BB, s) => ~VisitedPreds(s))
    BY <1>1, <1>s, SuccFacts
  <1>3. TypeOK'
    <2>1. succIdx' \in Nat \ {0}
      BY <1>1 DEF IInv, TypeOK
    <2>. QED
      BY <1>1, <2>1 DEF IInv, TypeOK
  <1>4. /\ \A a, b : Fwd(a, b)' <=> Fwd(a, b)
        /\ Queued' = Queued
    BY <1>1 DEF Fwd, Queued
  <1>5. Ready' /\ OnceEach'
    BY <1>1, <1>4 DEF IInv, Ready, OnceEach
  <1>6. NoneForgotten'
    <2>1. \A b : ToCome(BB, b) /\ b # s => ToCome(BB, b)'
      BY <1>1, <1>s, StillToCome
    <2>2. Fwd(BB, s) => \E a : Fwd(a, s) /\ a \notin visited
      BY <1>2, VisitedForward
    <2>3. ASSUME NEW b \in Blocks(prog), b \notin Queued
          PROVE  \E a : Fwd(a, b) /\ (a \notin visited \/ (a = BB /\ ToCome(BB, b)'))
      BY <2>1, <2>2, <2>3 DEF IInv, NoneForgotten
    <2>. QED
      BY <1>1, <1>4, <2>3 DEF IInv, NoneForgotten
  <1>7. NotYetQueued'
    <2>1. \A b : ToCome(BB, b)' => ToCome(BB, b)
      BY <1>1, StillToCome
    <2>. QED
      BY <1>1, <1>4, <2>1 DEF IInv, NotYetQueued
  <1>. QED
    BY <1>1, <1>3, <1>5, <1>6, <1>7 DEF IInv

LEMMA EndPushInv ==
    ASSUME IInv, EndPush
    PROVE  IInv'
  <1>1. /\ pc = "push" /\ pc' = "pop" /\ succIdx > Len(prog.succ[BB])
        /\ UNCHANGED <<prog, backedges, worklist, visited, BB, pos, succIdx, stack, BrPts, LCs>>
    BY DEF EndPush, find
  <1>2. TypeOK'
    BY <1>1 DEF IInv, TypeOK
  <1>3. \A a, b : Fwd(a, b)' <=> Fwd(a, b)
    BY <1>1 DEF Fwd
  <1>4. Ready' /\ OnceEach'
    BY <1>1, <1>3 DEF IInv, Ready, OnceEach, Queued
  <1>5. \A b : ~ToCome(BB, b) /\ ~ToCome(BB, b)'
    <2>1. BB \in Blocks(prog)
      BY <1>1 DEF IInv, TypeOK
    <2>2. prog.succ[BB] \in Seq(Blocks(prog) \ {Entry})
      BY <2>1, ProgramFacts DEF IInv
    <2>3. Len(prog.succ[BB]) \in Nat /\ succIdx \in Nat
      BY <2>2 DEF IInv, TypeOK
    <2>. QED
      BY <1>1, <2>3 DEF ToCome, Searching
  <1>6. NoneForgotten'
    BY <1>1, <1>3, <1>5 DEF IInv, NoneForgotten, Queued
  <1>7. NotYetQueued'
    BY <1>1, <1>3, <1>5 DEF IInv, NotYetQueued, Queued
  <1>. QED
    BY <1>1, <1>2, <1>4, <1>6, <1>7 DEF IInv

LEMMA FinishInv ==
    ASSUME IInv, Finish
    PROVE  IInv'
  <1>1. /\ pc = "pop" /\ pc' = "done"
        /\ UNCHANGED <<prog, backedges, worklist, visited, BB, pos, succIdx, stack, BrPts, LCs>>
    BY DEF Finish, find
  <1>2. TypeOK'
    BY <1>1 DEF IInv, TypeOK
  <1>3. \A a, b : (Fwd(a, b)' <=> Fwd(a, b)) /\ (ToCome(a, b)' <=> ToCome(a, b))
    BY <1>1 DEF Fwd, ToCome, Searching
  <1>4. Ready' /\ OnceEach' /\ NoneForgotten' /\ NotYetQueued'
    BY <1>1, <1>3 DEF IInv, Ready, OnceEach, NoneForgotten, NotYetQueued, Queued
  <1>. QED
    BY <1>1, <1>2, <1>4 DEF IInv

LEMMA InitInv ==
    ASSUME Init
    PROVE  IInv
  <1>1. prog \in Programs /\ backedges = BackEdges(prog) /\ worklist = <<Entry>>
        /\ visited = {} /\ pc = "pop" /\ BB = NullBlock
    BY DEF Init
  <1>2. /\ prog \in Program /\ Entry \in Blocks(prog)
        /\ \A b \in Blocks(prog) : prog.succ[b] \in Seq(Blocks(prog) \ {Entry})
        /\ \A b \in Blocks(prog) \ {Entry} : \E a \in Blocks(prog) : <<a, b>> \in Forward(prog)
    BY <1>1, ProgramFacts
  <1>3. worklist \in Seq(Blocks(prog)) /\ Queued = {Entry}
    <2>1. worklist \in Seq(Blocks(prog)) /\ Len(worklist) = 1 /\ worklist[1] = Entry
      BY <1>1, <1>2
    <2>2. ToSet(worklist) = {worklist[n] : n \in 1..Len(worklist)}
      BY <2>1, Elements
    <2>. QED
      BY <1>1, <2>1, <2>2 DEF Queued
  <1>4. TypeOK
    <2>1. stack \in Seq(Frame)
      BY DEF Init
    <2>. QED
      BY <1>2, <1>3, <2>1 DEF Init, TypeOK, Frame
  <1>5. Ready
    <2>1. ASSUME NEW a, Fwd(a, Entry) PROVE FALSE
      <3>1. a \in Blocks(prog) /\ Entry \in ToSet(prog.succ[a])
        BY <2>1 DEF Fwd, Forward, Edges
      <3>2. ToSet(prog.succ[a]) \subseteq Blocks(prog) \ {Entry}
        BY <1>2, <3>1, Elements
      <3>. QED
        BY <3>1, <3>2
    <2>. QED
      BY <1>3, <2>1 DEF Ready
  <1>6. NoneForgotten
    BY <1>1, <1>2, <1>3 DEF NoneForgotten, Fwd
  <1>7. OnceEach
    BY <1>1 DEF OnceEach, IsInjective
  <1>8. NotYetQueued
    BY <1>1 DEF NotYetQueued, ToCome, Searching
  <1>. QED
    BY <1>1, <1>4, <1>5, <1>6, <1>7, <1>8 DEF IInv

LEMMA NextInv ==
    ASSUME IInv, [Next]_vars
    PROVE  IInv'
  <1>1. CASE UNCHANGED vars
    <2>1. UNCHANGED <<prog, backedges, worklist, visited, BB, pos, succIdx, stack, BrPts, LCs, pc>>
      BY <1>1 DEF vars, find
    <2>2. TypeOK'
      BY <2>1 DEF IInv, TypeOK
    <2>3. \A a, b : (Fwd(a, b)' <=> Fwd(a, b)) /\ (ToCome(a, b)' <=> ToCome(a, b))
      BY <2>1 DEF Fwd, ToCome, Searching
    <2>. QED
      BY <2>1, <2>2, <2>3 DEF IInv, Ready, OnceEach, NoneForgotten, NotYetQueued, Queued
  <1>2. CASE Scan
    BY <1>2, ScanInv, EndScanInv DEF Scan
  <1>3. CASE Find
    BY <1>3, FindInv
  <1>4. CASE Push
    BY <1>4, PushSuccInv, PassSuccInv, EndPushInv DEF Push
  <1>. QED
    BY <1>1, <1>2, <1>3, <1>4, PopInv, FinishInv DEF Next, Ended

THEOREM Invariance == Spec => []IInv
  BY InitInv, NextInv, PTL DEF Spec

(****************************************************************************)
(* The worklist holds blocks, the stack calls for blocks, and a condition   *)
(* is never that of the null block.                                         *)
(****************************************************************************)
THEOREM TypeCorrect == Spec => []TypeOK
  <1>1. IInv => TypeOK
    BY DEF IInv
  <1>. QED
    BY <1>1, Invariance, PTL

(****************************************************************************)
(* No block is scanned twice, in any program without a switch that leads    *)
(* to a block twice.                                                        *)
(****************************************************************************)
THEOREM ScannedOnce == Spec => []OnceEach
  <1>1. IInv => OnceEach
    BY DEF IInv
  <1>. QED
    BY <1>1, Invariance, PTL

------------------------------------------------------------------------------
(****************************************************************************)
(* When the worklist is empty every block was scanned: of those left out    *)
(* one would have nobody left out before it.                                *)
(****************************************************************************)
LEMMA EmptyWorklist ==
    ASSUME IInv, pc = "pop", worklist = << >>
    PROVE  visited = Blocks(prog)
  <1>1. Queued = visited
    BY DEF Queued, ToSet
  <1>2. Entry \in visited /\ visited \subseteq Blocks(prog)
    BY <1>1 DEF IInv, NoneForgotten, TypeOK
  <1>3. ASSUME Blocks(prog) \ visited # {} PROVE FALSE
    <2>1. PICK b \in Blocks(prog) \ visited : \A a \in Blocks(prog) \ visited : ~Fwd(a, b)
      <3>1. Blocks(prog) \ visited \in SUBSET (Blocks(prog) \ {Entry})
        BY <1>2
      <3>. QED
        BY <1>3, <3>1, ProgramFacts DEF IInv, Fwd
    <2>2. PICK a : Fwd(a, b) /\ a \notin visited
      BY <1>1, <2>1 DEF IInv, NoneForgotten, ToCome, Searching
    <2>3. a \in Blocks(prog)
      BY <2>2, ForwardEdges
    <2>. QED
      BY <2>1, <2>2, <2>3
  <1>. QED
    BY <1>2, <1>3

LEMMA Frontier ==
    \A b : b \in Abstract!Frontier <=>
              /\ b \notin visited
              /\ b = Entry \/ \E a \in visited : b \in ToSet(prog.succ[a])
  <1>1. Abstract!Frontier = ({Entry} \cup UNION {ToSet(prog.succ[a]) : a \in visited}) \ visited
    BY DEF Abstract!Frontier, ToSet, Abstract!ToSet
  <1>. QED
    BY <1>1

(****************************************************************************)
(* The search implements Explore: the block taken from the worklist is the  *)
(* entry or follows one that was scanned, and at the end none is left.      *)
(****************************************************************************)
THEOREM Refinement == Spec => ImplementsExplore
  <1>1. Init => Abstract!Init
    BY DEF Init, Abstract!Init
  <1>2. ASSUME IInv, [Next]_vars PROVE [Abstract!Next]_Abstract!vars
    <2>1. CASE Pop
      <3>1. PICK b : b = Head(worklist)
        OBVIOUS
      <3>2. /\ b \in Queued /\ b \in Blocks(prog) /\ visited' = visited \cup {b}
            /\ pc = "pop" /\ pc' = "scan" /\ prog' = prog
        BY <1>2, <2>1, <3>1, PopFacts DEF Pop
      <3>3. CASE b \in visited
        BY <3>2, <3>3 DEF Abstract!vars
      <3>4. CASE b \notin visited
        <4>1. b = Entry \/ \E a \in visited : b \in ToSet(prog.succ[a])
          <5>1. CASE b # Entry
            <6>1. PICK a \in Blocks(prog) : <<a, b>> \in Forward(prog)
              BY <1>2, <3>2, <5>1, ProgramFacts DEF IInv
            <6>2. a \in visited /\ b \in ToSet(prog.succ[a])
              BY <1>2, <3>2, <6>1 DEF IInv, Ready, Fwd, Forward, Edges
            <6>. QED
              BY <6>2
          <5>. QED
            BY <5>1
        <4>2. b \in Abstract!Frontier
          BY <3>4, <4>1, Frontier
        <4>. QED
          BY <3>2, <4>2 DEF Abstract!Next, Abstract!Expand
      <3>. QED
        BY <3>3, <3>4
    <2>2. CASE Finish
      <3>1. visited = Blocks(prog) /\ pc = "pop" /\ pc' = "done" /\ UNCHANGED <<prog, visited>>
        BY <1>2, <2>2, EmptyWorklist DEF Finish
      <3>2. Entry \in Blocks(prog) /\ \A b \in Blocks(prog) : ToSet(prog.succ[b]) \subseteq Blocks(prog)
        <4>1. \A b \in Blocks(prog) : prog.succ[b] \in Seq(Blocks(prog) \ {Entry})
          BY <1>2, ProgramFacts DEF IInv
        <4>2. \A b \in Blocks(prog) : ToSet(prog.succ[b]) \subseteq Blocks(prog) \ {Entry}
          BY <4>1, Elements
        <4>. QED
          BY <1>2, <4>2, ProgramFacts DEF IInv
      <3>3. Abstract!Frontier = {}
        BY <3>1, <3>2, Frontier
      <3>. QED
        BY <3>1, <3>3 DEF Abstract!Next, Abstract!Finish
    <2>3. CASE Scan \/ Find \/ Push \/ Ended \/ UNCHANGED vars
      <3>1. UNCHANGED <<prog, visited>> /\ (pc = "done" <=> pc' = "done")
        BY <2>3 DEF Scan, PassInstr, StartFind, ReturnOfValue, IndirectCall, EndScan, Scanning,
                    Find, NoPreds, BranchBefore, JumpBefore, Overflow, SwitchBefore, Return, Found,
                    FoundNull, Finding, Push, PushSucc, PassSucc, EndPush, Pushing, Ended, vars
      <3>. QED
        BY <3>1 DEF Abstract!vars
    <2>. QED
      BY <1>2, <2>1, <2>2, <2>3 DEF Next
  <1>. QED
    BY <1>1, <1>2, Invariance, PTL DEF Spec, ImplementsExplore, Abstract!Spec
------------------------------------------------------------------------------
(****************************************************************************)
(* What findBranchPoints has done and has still to do.  Each call on the    *)
(* stack is for a block that jumps to the block of the call under it, the   *)
(* first one for the block in hand.                                         *)
(****************************************************************************)
SoughtKinds == {"abort", "reach_error", "ret"}

InHand == pos \in DOMAIN prog.instrs[BB] /\ I \in SoughtKinds

JumpChain ==
    /\ stack # << >> => stack[1].bb = BB
    /\ \A k \in DOMAIN stack :
          /\ stack[k].left \subseteq Preds(stack[k].bb)
          /\ BB \in JumpsTo(prog, stack[k].bb)
          /\ k > 1 => IsJump(prog, stack[k].bb) /\ stack[k-1].bb \in ToSet(prog.succ[stack[k].bb])

(****************************************************************************)
(* The sides of branches that decide whether a block is reached, and that   *)
(* what was found is of them.                                               *)
(****************************************************************************)
Deciding(b) ==
    {x \in Blocks(prog) \X BOOLEAN :
        /\ IsBranch(prog, x[1])
        /\ b \in JumpsTo(prog, prog.succ[x[1]][IF x[2] THEN 1 ELSE 2])}

FoundDecide ==
    \A x \in BrPts :
        \/ x = <<NullBlock, TRUE>> /\ BB \in JumpsTo(prog, Entry)
        \/ x \in Deciding(BB)

(****************************************************************************)
(* The blocks there was a call for: of each block before one of them        *)
(* nothing is left to do if it is a branch, or there was a call for it, or  *)
(* a call on the stack has it left.                                         *)
(****************************************************************************)
LeftOnStack(x, a) == \E k \in DOMAIN stack : stack[k].bb = x /\ a \in stack[k].left

AllCalled(called) ==
    /\ BB \in called
    /\ \A k \in DOMAIN stack : stack[k].bb \in called
    /\ \A x \in called : \A a \in Preds(x) :
          \/ IsBranch(prog, a) /\ <<a, prog.succ[a][1] = x>> \in BrPts
          \/ IsJump(prog, a) /\ a \in called
          \/ LeftOnStack(x, a)

(****************************************************************************)
(* A search that has found nothing yet has something to look at.            *)
(****************************************************************************)
FindsSome ==
    \/ BrPts # {}
    \/ stack # << >> /\ (Callee.left # {} \/ Preds(Callee.bb) = {})

FindInvariant ==
    pc = "find" =>
        /\ InHand
        /\ JumpChain
        /\ FoundDecide
        /\ FindsSome
        /\ \E called \in SUBSET Blocks(prog) : AllCalled(called)

(****************************************************************************)
(* The conditions of what was scanned, and no others.                       *)
(****************************************************************************)
Scanned(b, n) == b \in visited /\ (b = BB /\ Searching => n < pos)

BranchCondition(x, instr) ==
    [ofBranch |-> TRUE, bb |-> x[1], isTrueBr |-> x[2], label |-> Label(instr)]
ReturnCondition(b) == [ofBranch |-> FALSE, bb |-> b, isTrueBr |-> TRUE, label |-> "ASSERT"]

Noted(b, instr) ==
    /\ instr \in {"reach_error", "ret", "retval"} => \E c \in LCs : c.label = "ASSERT"
    /\ instr = "retval" => ReturnCondition(b) \in LCs
    /\ Simple(prog) /\ instr \in SoughtKinds => \A x \in Deciding(b) : BranchCondition(x, instr) \in LCs
    /\ instr # "indirect"

AllNoted == \A b \in Blocks(prog) : \A n \in DOMAIN prog.instrs[b] : Scanned(b, n) => Noted(b, prog.instrs[b][n])

FInv ==
    /\ FindInvariant
    /\ AllNoted
    /\ LCs \subseteq Conditions(prog)
    /\ pc = "done" => visited = Blocks(prog)
    /\ StopsForReason

LEMMA InstrsOfBlock ==
    ASSUME IInv, NEW b \in Blocks(prog)
    PROVE  /\ prog.instrs[b] \in Seq(Instr)
           /\ DOMAIN prog.instrs[b] \subseteq Nat \ {0}
  <1>1. prog \in Program /\ b \in DOMAIN prog.instrs
    BY ProgramFacts DEF IInv
  <1>2. prog.instrs[b] \in Seq(Instr)
    BY <1>1 DEF Program
  <1>. QED
    BY <1>2

LEMMA EdgeFacts ==
    ASSUME IInv, NEW x \in Blocks(prog), NEW a \in Preds(x)
    PROVE  /\ a \in Blocks(prog)
           /\ <<a, x>> \in Edges(prog)
           /\ x \in ToSet(prog.succ[a])
           /\ prog.succ[a] \in Seq(Blocks(prog) \ {Entry})
           /\ \E j \in 1..Len(prog.succ[a]) : prog.succ[a][j] = x
  <1>1. a \in Blocks(prog) /\ <<a, x>> \in Edges(prog)
    BY DEF Preds
  <1>2. x \in ToSet(prog.succ[a])
    BY <1>1 DEF Edges
  <1>3. prog.succ[a] \in Seq(Blocks(prog) \ {Entry})
    BY <1>1, ProgramFacts DEF IInv
  <1>. QED
    BY <1>1, <1>2, <1>3, Elements

LEMMA BranchEdge ==
    ASSUME IInv, NEW x \in Blocks(prog), NEW a \in Preds(x), IsBranch(prog, a)
    PROVE  /\ prog.succ[a][1] = x \/ prog.succ[a][2] = x
           /\ Simple(prog) => prog.succ[a][1] # prog.succ[a][2]
  <1>1. PICK j \in 1..Len(prog.succ[a]) : prog.succ[a][j] = x
    BY EdgeFacts
  <1>2. Len(prog.succ[a]) = 2 /\ DOMAIN prog.succ[a] = 1..2 /\ a \in Blocks(prog)
    <2>1. Len(prog.succ[a]) = 2
      BY DEF IsBranch
    <2>2. prog.succ[a] \in Seq(Blocks(prog) \ {Entry}) /\ a \in Blocks(prog)
      BY EdgeFacts
    <2>. QED
      BY <2>1, <2>2
  <1>3. j = 1 \/ j = 2
    BY <1>1, <1>2
  <1>4. Simple(prog) => prog.succ[a][1] # prog.succ[a][2]
    BY <1>2 DEF Simple, IsInjective
  <1>. QED
    BY <1>1, <1>3, <1>4

LEMMA JumpEdge ==
    ASSUME IInv, NEW x \in Blocks(prog), NEW a \in Preds(x), IsJump(prog, a)
    PROVE  prog.succ[a] = <<x>>
  <1>1. PICK j \in 1..Len(prog.succ[a]) : prog.succ[a][j] = x
    BY EdgeFacts
  <1>2. Len(prog.succ[a]) = 1 /\ prog.succ[a] \in Seq(Blocks(prog) \ {Entry})
    BY EdgeFacts DEF IsJump
  <1>. QED
    BY <1>1, <1>2

LEMMA JumpsReflexive ==
    ASSUME NEW p, NEW b \in Blocks(p)
    PROVE  b \in JumpsTo(p, b)
  BY DEF JumpsTo

LEMMA JumpsStep ==
    ASSUME NEW p, NEW e \in Edges(p), IsJump(p, e[1]), NEW x \in JumpsTo(p, e[2])
    PROVE  x \in JumpsTo(p, e[1])
  BY DEF JumpsTo, ClosedByJumps

LEMMA JumpsWithin ==
    ASSUME NEW p, NEW S \in SUBSET Blocks(p), NEW b \in S, ClosedByJumps(p, S)
    PROVE  JumpsTo(p, b) \subseteq S
  BY DEF JumpsTo

(****************************************************************************)
(* A block without a predecessor is the entry.                              *)
(****************************************************************************)
LEMMA NoPredsIsEntry ==
    ASSUME IInv, NEW x \in Blocks(prog), Preds(x) = {}
    PROVE  x = Entry
  BY ProgramFacts DEF IInv, Preds, Forward

(****************************************************************************)
(* When all calls have returned, what was found decides, all of it: the     *)
(* blocks there was no call for do not jump to one there was a call for.    *)
(****************************************************************************)
LEMMA AllFound ==
    ASSUME IInv, pc = "find", stack = << >>, Simple(prog), BB \in Blocks(prog),
           NEW called \in SUBSET Blocks(prog), AllCalled(called),
           NEW d \in Deciding(BB)
    PROVE  d \in BrPts
  <1>1. \A x \in called : \A a \in Preds(x) :
            \/ IsBranch(prog, a) /\ <<a, prog.succ[a][1] = x>> \in BrPts
            \/ IsJump(prog, a) /\ a \in called
    BY DEF AllCalled, LeftOnStack
  <1>2. ClosedByJumps(prog, Blocks(prog) \ called)
    <2>1. ASSUME NEW e \in Edges(prog), IsJump(prog, e[1]), e[1] \in Blocks(prog) \ called, e[2] \in called
          PROVE  FALSE
      <3>1. e[1] \in Preds(e[2])
        BY DEF Edges, Preds
      <3>2. ~IsBranch(prog, e[1])
        BY <2>1 DEF IsJump, IsBranch
      <3>. QED
        BY <1>1, <2>1, <3>1, <3>2
    <2>. QED
      BY <2>1 DEF ClosedByJumps, Edges
  <1>3. PICK a \in Blocks(prog), side \in BOOLEAN :
            /\ d = <<a, side>> /\ IsBranch(prog, a)
            /\ BB \in JumpsTo(prog, prog.succ[a][IF side THEN 1 ELSE 2])
    BY DEF Deciding
  <1>4. PICK c : c = prog.succ[a][IF side THEN 1 ELSE 2]
    OBVIOUS
  <1>5. prog.succ[a] \in Seq(Blocks(prog) \ {Entry}) /\ Len(prog.succ[a]) = 2
    BY <1>3, ProgramFacts DEF IInv, IsBranch
  <1>6. c \in Blocks(prog) /\ c \in ToSet(prog.succ[a])
    BY <1>4, <1>5, Elements
  <1>7. c \in called
    BY <1>2, <1>3, <1>4, <1>6, JumpsWithin DEF AllCalled
  <1>8. a \in Preds(c)
    BY <1>6 DEF Preds, Edges
  <1>9. <<a, prog.succ[a][1] = c>> \in BrPts
    <2>1. ~IsJump(prog, a)
      BY <1>3 DEF IsBranch, IsJump
    <2>. QED
      BY <1>1, <1>7, <1>8, <2>1
  <1>10. (prog.succ[a][1] = c) = side
    BY <1>3, <1>4, <1>6, <1>8, BranchEdge
  <1>. QED
    BY <1>3, <1>9, <1>10

(****************************************************************************)
(* The least-number principle, for a set.                                   *)
(****************************************************************************)
LEMMA LeastNumber ==
    ASSUME NEW T \in SUBSET Nat, T # {}
    PROVE  \E m \in T : \A k \in T : m <= k
  <1>. DEFINE Less == OpToRel(<, Nat)
  <1>1. \A x, y \in T : <<y, x>> \in Less <=> y < x
    BY DEF OpToRel
  <1>2. \E x \in T : \A y \in T : <<y, x>> \notin Less
    <2>. T \subseteq Nat
      OBVIOUS
    <2>. HIDE DEF Less
    <2>1. IsWellFoundedOn(Less, Nat)
      BY NatLessThanWellFounded DEF Less
    <2>. QED
      BY <2>1, WFMin
  <1>. HIDE DEF Less
  <1>3. \A x, y \in T : ~(y < x) => x <= y
    OBVIOUS
  <1>. QED
    BY <1>1, <1>2, <1>3

(****************************************************************************)
(* Of more jumps in a row than there are blocks one is made twice, and as a *)
(* jump leads to one block only, the first block of the row is met again.   *)
(****************************************************************************)
LEMMA RowOfJumps ==
    ASSUME NEW N \in Nat, NEW M \in Nat, M <= N,
           NEW x \in [1..N+1 -> 1..M],
           \A j, k \in 2..N+1 : x[j] = x[k] => x[j-1] = x[k-1]
    PROVE  \E j \in 2..N+1 : x[j] = x[1]
  <1>1. \E j, k \in 1..N+1 : j # k /\ x[j] = x[k]
    <2>1. IsFiniteSet(1..N+1) /\ Cardinality(1..N+1) = N + 1
      BY FS_Interval
    <2>2. IsFiniteSet(1..M) /\ Cardinality(1..M) = M
      BY FS_Interval
    <2>. DEFINE S == 1..N+1
                V == 1..M
    <2>3. IsFiniteSet(S) /\ IsFiniteSet(V) /\ Cardinality(V) < Cardinality(S) /\ x \in [S -> V]
      BY <2>1, <2>2
    <2>4. \E j, k \in S : j # k /\ x[j] = x[k]
      <3>. HIDE DEF S, V
      <3>1. \A y \in [S -> V] : \E j, k \in S : j # k /\ y[j] = y[k]
        BY <2>3, FS_PigeonHole, ZenonT(60)
      <3>. QED
        BY <2>3, <3>1
    <2>. QED
      BY <2>4
  <1>. DEFINE T == {j \in 1..N+1 : \E k \in j+1..N+1 : x[j] = x[k]}
  <1>2. T # {} /\ T \in SUBSET Nat
    <2>1. PICK j \in 1..N+1, k \in 1..N+1 : j # k /\ x[j] = x[k]
      BY <1>1
    <2>2. j < k \/ k < j
      BY <2>1
    <2>3. j < k => k \in j+1..N+1
      OBVIOUS
    <2>4. k < j => j \in k+1..N+1
      OBVIOUS
    <2>5. j \in T \/ k \in T
      BY <2>1, <2>2, <2>3, <2>4
    <2>6. T \in SUBSET Nat
      OBVIOUS
    <2>. HIDE DEF T
    <2>. QED
      BY <2>5, <2>6
  <1>3. PICK m \in T : \A j \in T : m <= j
    <2>. HIDE DEF T
    <2>. QED
      BY <1>2, LeastNumber
  <1>4. PICK k \in m+1..N+1 : x[m] = x[k]
    OBVIOUS
  <1>5. CASE m = 1
    BY <1>4, <1>5
  <1>6. CASE m # 1
    <2>1. m \in 2..N+1 /\ k \in 2..N+1 /\ m - 1 \in 1..N+1 /\ k - 1 \in (m - 1) + 1..N+1
      BY <1>4, <1>6
    <2>2. x[m-1] = x[k-1]
      BY <1>4, <2>1
    <2>3. m - 1 \in T
      BY <2>1, <2>2
    <2>. QED
      BY <1>3, <2>1, <2>3
  <1>. QED
    BY <1>5, <1>6

LEMMA StackFacts ==
    ASSUME IInv, JumpChain, Finding
    PROVE  /\ stack \in Seq(Frame) /\ Len(stack) \in Nat \ {0} /\ DOMAIN stack = 1..Len(stack)
           /\ Len(stack) \in DOMAIN stack
           /\ Callee = stack[Len(stack)] /\ Callee \in Frame /\ Callee.bb \in Blocks(prog)
           /\ Callee.left \subseteq Preds(Callee.bb)
           /\ BB \in JumpsTo(prog, Callee.bb)
           /\ \A k \in 1..Len(stack) : stack[k].bb \in Blocks(prog)
  <1>1. stack \in Seq(Frame) /\ Len(stack) \in Nat \ {0} /\ DOMAIN stack = 1..Len(stack)
    BY DEF IInv, TypeOK, Frame, Finding
  <1>2. Callee = stack[Len(stack)] /\ Len(stack) \in DOMAIN stack
    BY <1>1 DEF Callee, Last
  <1>3. \A k \in 1..Len(stack) : stack[k] \in Frame
    BY <1>1
  <1>. QED
    BY <1>1, <1>2, <1>3 DEF JumpChain, Frame

(****************************************************************************)
(* Out of stack: the block of interest jumps back to itself.                *)
(****************************************************************************)
LEMMA OverflowReason ==
    ASSUME IInv, JumpChain, Overflow, Len(prog.succ) <= MaxDepth, BB \in Blocks(prog)
    PROVE  \E e \in Edges(prog) : e[1] = BB /\ IsJump(prog, e[1]) /\ BB \in JumpsTo(prog, e[2])
  <1>1. Finding /\ Len(stack) = MaxDepth
    BY DEF Overflow
  <1>2. PICK a \in Callee.left : IsJump(prog, a)
    BY DEF Overflow
  <1>3. a \in Blocks(prog) /\ a \in Preds(Callee.bb)
    BY <1>1, <1>2, StackFacts, EdgeFacts
  <1>. DEFINE N == Len(stack)
              x == [k \in 1..N+1 |-> IF k <= N THEN stack[k].bb ELSE a]
  <1>4. N \in Nat \ {0} /\ Len(prog.succ) \in Nat /\ Blocks(prog) = 1..Len(prog.succ) /\ Len(prog.succ) <= N
    BY <1>1, StackFacts DEF IInv, TypeOK, Program, Blocks
  <1>5. x \in [1..N+1 -> 1..Len(prog.succ)]
    BY <1>1, <1>3, <1>4, StackFacts
  <1>6. \A k \in 1..N : x[k] = stack[k].bb
    BY <1>4
  <1>7. ASSUME NEW k \in 2..N+1
        PROVE  /\ x[k] \in Blocks(prog) /\ x[k-1] \in Blocks(prog)
               /\ x[k] \in Preds(x[k-1]) /\ IsJump(prog, x[k]) /\ prog.succ[x[k]] = <<x[k-1]>>
               /\ BB \in JumpsTo(prog, x[k-1])
    <2>1. k - 1 \in 1..N /\ x[k-1] = stack[k-1].bb
      BY <1>4, <1>6
    <2>2. x[k] \in Blocks(prog) /\ x[k-1] \in Blocks(prog)
      BY <1>4, <1>5, <2>1
    <2>3. IsJump(prog, x[k]) /\ x[k] \in Preds(x[k-1])
      <3>1. CASE k = N + 1
        BY <1>1, <1>2, <1>3, <1>4, <2>1, <3>1, StackFacts
      <3>2. CASE k # N + 1
        <4>1. k \in DOMAIN stack /\ k > 1 /\ x[k] = stack[k].bb
          BY <1>1, <1>4, <1>6, <3>2, StackFacts
        <4>2. IsJump(prog, x[k]) /\ x[k-1] \in ToSet(prog.succ[x[k]])
          BY <2>1, <4>1 DEF JumpChain
        <4>. QED
          BY <2>2, <4>2 DEF Preds, Edges
      <3>. QED
        BY <3>1, <3>2
    <2>4. prog.succ[x[k]] = <<x[k-1]>>
      BY <2>2, <2>3, JumpEdge
    <2>5. BB \in JumpsTo(prog, x[k-1])
      BY <1>1, <2>1, StackFacts DEF JumpChain
    <2>. QED
      BY <2>2, <2>3, <2>4, <2>5
  <1>8. \A j, k \in 2..N+1 : x[j] = x[k] => x[j-1] = x[k-1]
    <2>. HIDE DEF x
    <2>1. \A k \in 2..N+1 : prog.succ[x[k]] = <<x[k-1]>>
      BY <1>7
    <2>. QED
      BY <2>1
  <1>9. x[1] = BB
    BY <1>1, <1>4, <1>6, StackFacts DEF JumpChain
  <1>. HIDE DEF x
  <1>10. PICK j \in 2..N+1 : x[j] = x[1]
    <2>. HIDE DEF N
    <2>. QED
      BY <1>4, <1>5, <1>8, RowOfJumps
  <1>11. <<x[j], x[j-1]>> \in Edges(prog)
    BY <1>7 DEF Preds
  <1>. QED
    BY <1>7, <1>9, <1>10, <1>11

(****************************************************************************)
(* The calls.  A frame that has one predecessor less left.                  *)
(****************************************************************************)
LEMMA LookedFacts ==
    ASSUME IInv, JumpChain, Finding, NEW a \in Callee.left, NEW st, st = Looked(a)
    PROVE  /\ st \in Seq(Frame) /\ Len(st) = Len(stack) /\ DOMAIN st = DOMAIN stack
           /\ \A k \in DOMAIN stack : st[k].bb = stack[k].bb
           /\ \A k \in DOMAIN stack : k # Len(stack) => st[k].left = stack[k].left
           /\ st[Len(stack)].left = Callee.left \ {a}
  <1>1. /\ stack \in Seq(Frame) /\ Len(stack) \in DOMAIN stack
        /\ Callee = stack[Len(stack)] /\ Callee \in Frame
    BY StackFacts
  <1>2. st = [stack EXCEPT ![Len(stack)] = [Callee EXCEPT !.left = @ \ {a}]]
    BY <1>1 DEF Looked
  <1>3. [Callee EXCEPT !.left = @ \ {a}] \in Frame
    BY <1>1 DEF Frame
  <1>4. \A k \in DOMAIN stack : st[k] = IF k = Len(stack) THEN [Callee EXCEPT !.left = @ \ {a}] ELSE stack[k]
    BY <1>1, <1>2
  <1>5. st \in Seq(Frame) /\ Len(st) = Len(stack) /\ DOMAIN st = DOMAIN stack
    BY <1>1, <1>2, <1>3
  <1>. QED
    BY <1>1, <1>4, <1>5 DEF Frame

LEMMA FrontFacts ==
    ASSUME IInv, JumpChain, Finding, NEW st, st = Front(stack)
    PROVE  /\ st \in Seq(Frame) /\ Len(st) = Len(stack) - 1 /\ DOMAIN st = 1..Len(stack)-1
           /\ \A k \in 1..Len(stack)-1 : st[k] = stack[k] /\ k \in DOMAIN stack
           /\ st # << >> => 1 \in 1..Len(stack)-1
  <1>1. stack \in Seq(Frame) /\ Len(stack) \in Nat \ {0} /\ DOMAIN stack = 1..Len(stack)
    BY StackFacts
  <1>2. st = SubSeq(stack, 1, Len(stack)-1)
    BY DEF Front
  <1>3. st \in Seq(Frame) /\ Len(st) = Len(stack) - 1 /\ \A k \in 1..Len(stack)-1 : st[k] = stack[k]
    BY <1>1, <1>2
  <1>. QED
    BY <1>1, <1>3

(****************************************************************************)
(* What a step of findBranchPoints leaves alone.                            *)
(****************************************************************************)
finding == <<prog, BB, pos>>

LEMMA FindingKept ==
    ASSUME UNCHANGED finding
    PROVE  /\ InHand' = InHand
           /\ \A x : Preds(x)' = Preds(x)
           /\ \A x : Deciding(x)' = Deciding(x)
           /\ \A x : JumpsTo(prog', x) = JumpsTo(prog, x)
           /\ \A x : IsJump(prog', x) = IsJump(prog, x)
           /\ \A x : IsBranch(prog', x) = IsBranch(prog, x)
  BY DEF finding, InHand, I, Preds, Deciding

(****************************************************************************)
(* A call that has nothing left returns.                                    *)
(****************************************************************************)
LEMMA CallReturns ==
    ASSUME IInv, JumpChain, Finding, Callee.left = {}, stack' = Front(stack), BrPts \subseteq BrPts',
           UNCHANGED finding, NEW called \in SUBSET Blocks(prog), AllCalled(called)
    PROVE  JumpChain' /\ AllCalled(called)'
  <1>1. /\ DOMAIN stack' = 1..Len(stack)-1
        /\ \A k \in 1..Len(stack)-1 : stack'[k] = stack[k] /\ k \in DOMAIN stack
        /\ stack' # << >> => 1 \in 1..Len(stack)-1
    BY FrontFacts
  <1>2. DOMAIN stack = 1..Len(stack) /\ Len(stack) \in Nat \ {0} /\ Callee = stack[Len(stack)]
    BY StackFacts
  <1>3. JumpChain'
    <2>1. stack' # << >> => stack'[1].bb = BB'
      BY <1>1 DEF JumpChain, finding, Finding
    <2>2. \A k \in DOMAIN stack' : k > 1 => k - 1 \in 1..Len(stack)-1
      BY <1>1, <1>2
    <2>. QED
      BY <1>1, <2>1, <2>2, FindingKept DEF JumpChain, finding
  <1>4. \A x \in called : \A a \in Preds(x) : LeftOnStack(x, a) => LeftOnStack(x, a)'
    <2>1. ASSUME NEW x, NEW a, NEW k \in DOMAIN stack, stack[k].bb = x, a \in stack[k].left
          PROVE  LeftOnStack(x, a)'
      <3>1. k # Len(stack)
        BY <1>2, <2>1
      <3>2. k \in 1..Len(stack)-1
        BY <1>2, <3>1
      <3>. QED
        BY <1>1, <2>1, <3>2 DEF LeftOnStack
    <2>. QED
      BY <2>1 DEF LeftOnStack
  <1>. QED
    BY <1>1, <1>3, <1>4, FindingKept DEF AllCalled, finding

LEMMA ReturnFind ==
    ASSUME IInv, pc = "find", FindInvariant, Return, BB \in Blocks(prog)
    PROVE  FindInvariant'
  <1>1. /\ Finding /\ Callee.left = {} /\ Preds(Callee.bb) # {}
        /\ stack' = Front(stack) /\ BrPts' = BrPts /\ UNCHANGED finding
        /\ JumpChain /\ FoundDecide /\ FindsSome /\ InHand
    BY DEF Return, finding, FindInvariant
  <1>2. PICK called \in SUBSET Blocks(prog) : AllCalled(called)
    BY DEF FindInvariant
  <1>3. JumpChain' /\ AllCalled(called)'
    BY <1>1, <1>2, CallReturns
  <1>4. FoundDecide'
    BY <1>1, FindingKept DEF FoundDecide, finding
  <1>5. BrPts # {}
    BY <1>1 DEF FindsSome
  <1>. QED
    BY <1>1, <1>3, <1>4, <1>5, FindingKept DEF FindInvariant, FindsSome, finding

LEMMA NoPredsFind ==
    ASSUME IInv, pc = "find", FindInvariant, NoPreds, BB \in Blocks(prog)
    PROVE  FindInvariant'
  <1>1. /\ Finding /\ Preds(Callee.bb) = {}
        /\ stack' = Front(stack) /\ BrPts' = BrPts \cup {<<NullBlock, TRUE>>} /\ UNCHANGED finding
        /\ JumpChain /\ FoundDecide /\ InHand
    BY DEF NoPreds, finding, FindInvariant
  <1>2. PICK called \in SUBSET Blocks(prog) : AllCalled(called)
    BY DEF FindInvariant
  <1>3. Callee.bb \in Blocks(prog) /\ Callee.left = {} /\ BB \in JumpsTo(prog, Callee.bb)
    BY <1>1, StackFacts
  <1>4. JumpChain' /\ AllCalled(called)'
    BY <1>1, <1>2, <1>3, CallReturns
  <1>5. FoundDecide'
    <2>1. BB \in JumpsTo(prog, Entry)
      BY <1>1, <1>3, NoPredsIsEntry
    <2>2. \A x \in BrPts' : x \in BrPts \/ x = <<NullBlock, TRUE>>
      BY <1>1
    <2>. QED
      BY <1>1, <2>1, <2>2, FindingKept DEF FoundDecide, finding
  <1>6. BrPts' # {}
    BY <1>1
  <1>. QED
    BY <1>1, <1>4, <1>5, <1>6, FindingKept DEF FindInvariant, FindsSome, finding

LEMMA BranchFind ==
    ASSUME IInv, pc = "find", FindInvariant, BranchBefore, BB \in Blocks(prog)
    PROVE  FindInvariant'
  <1>1. Finding /\ UNCHANGED finding /\ JumpChain /\ FoundDecide /\ InHand
    BY DEF BranchBefore, finding, FindInvariant
  <1>2. PICK a \in Callee.left :
            /\ IsBranch(prog, a)
            /\ BrPts' = BrPts \cup {<<a, prog.succ[a][1] = Callee.bb>>}
            /\ stack' = Looked(a)
    BY DEF BranchBefore
  <1>3. PICK called \in SUBSET Blocks(prog) : AllCalled(called)
    BY DEF FindInvariant
  <1>4. /\ DOMAIN stack = 1..Len(stack) /\ Len(stack) \in DOMAIN stack /\ Callee = stack[Len(stack)]
        /\ Callee.bb \in Blocks(prog) /\ a \in Preds(Callee.bb) /\ BB \in JumpsTo(prog, Callee.bb)
    BY <1>1, <1>2, StackFacts
  <1>5. /\ DOMAIN stack' = DOMAIN stack
        /\ \A k \in DOMAIN stack : stack'[k].bb = stack[k].bb
        /\ \A k \in DOMAIN stack : k # Len(stack) => stack'[k].left = stack[k].left
        /\ stack'[Len(stack)].left = Callee.left \ {a}
        /\ stack' \in Seq(Frame)
    BY <1>1, <1>2, LookedFacts
  <1>6. JumpChain'
    <2>1. \A k \in DOMAIN stack : stack'[k].left \subseteq stack[k].left
      BY <1>4, <1>5
    <2>2. \A k \in DOMAIN stack : k > 1 => k - 1 \in DOMAIN stack
      BY <1>4
    <2>3. stack # << >> /\ 1 \in DOMAIN stack
      BY <1>1, <1>4 DEF Finding
    <2>. QED
      BY <1>1, <1>5, <2>1, <2>2, <2>3, FindingKept DEF JumpChain, finding
  <1>7. FoundDecide'
    <2>1. PICK side \in BOOLEAN : side = (prog.succ[a][1] = Callee.bb)
      OBVIOUS
    <2>2. prog.succ[a][IF side THEN 1 ELSE 2] = Callee.bb
      BY <1>2, <1>4, <2>1, BranchEdge
    <2>3. a \in Blocks(prog)
      BY <1>4, EdgeFacts
    <2>4. <<a, side>> \in Deciding(BB)
      BY <1>2, <1>4, <2>2, <2>3 DEF Deciding
    <2>5. \A x \in BrPts' : x \in BrPts \/ x = <<a, side>>
      BY <1>2, <2>1
    <2>. QED
      BY <1>1, <2>4, <2>5, FindingKept DEF FoundDecide, finding
  <1>8. AllCalled(called)'
    <2>1. ASSUME NEW x \in called, NEW b \in Preds(x), LeftOnStack(x, b)
          PROVE  \/ IsBranch(prog, b) /\ <<b, prog.succ[b][1] = x>> \in BrPts'
                 \/ LeftOnStack(x, b)'
      <3>1. PICK k \in DOMAIN stack : stack[k].bb = x /\ b \in stack[k].left
        BY <2>1 DEF LeftOnStack
      <3>2. CASE k = Len(stack) /\ b = a
        BY <1>2, <1>4, <3>1, <3>2
      <3>3. CASE k # Len(stack) \/ b # a
        <4>1. b \in stack'[k].left /\ stack'[k].bb = x /\ k \in DOMAIN stack'
          BY <1>4, <1>5, <3>1, <3>3
        <4>. QED
          BY <4>1 DEF LeftOnStack
      <3>. QED
        BY <3>2, <3>3
    <2>2. BrPts \subseteq BrPts'
      BY <1>2
    <2>. QED
      BY <1>1, <1>3, <1>5, <2>1, <2>2, FindingKept DEF AllCalled, finding
  <1>9. BrPts' # {}
    BY <1>2
  <1>. QED
    BY <1>1, <1>3, <1>6, <1>7, <1>8, <1>9, FindingKept DEF FindInvariant, FindsSome, finding

LEMMA CallMade ==
    ASSUME IInv, JumpChain, Finding, NEW a \in Callee.left, stack' = Append(Looked(a), Call(a)),
           NEW n, n = Len(stack)
    PROVE  /\ n \in Nat \ {0} /\ DOMAIN stack = 1..n /\ stack[n] = Callee
           /\ DOMAIN stack' = 1..n+1 /\ Len(stack') = n + 1 /\ stack' # << >>
           /\ stack'[n+1] = [bb |-> a, left |-> Preds(a)]
           /\ \A k \in 1..n : stack'[k].bb = stack[k].bb
           /\ \A k \in 1..n : stack'[k].left \subseteq stack[k].left
           /\ \A k \in 1..n : \A b : b \in stack[k].left /\ b # a => b \in stack'[k].left
  <1>1. PICK st : st = Looked(a)
    OBVIOUS
  <1>2. n \in Nat \ {0} /\ DOMAIN stack = 1..n /\ stack[n] = Callee /\ a \in Preds(Callee.bb) /\ Callee.bb \in Blocks(prog)
    BY StackFacts
  <1>3. /\ st \in Seq(Frame) /\ Len(st) = n
        /\ \A k \in 1..n : st[k].bb = stack[k].bb
        /\ \A k \in 1..n : k # n => st[k].left = stack[k].left
        /\ st[n].left = Callee.left \ {a}
    <2>1. /\ st \in Seq(Frame) /\ Len(st) = Len(stack)
          /\ \A k \in DOMAIN stack : st[k].bb = stack[k].bb
          /\ \A k \in DOMAIN stack : k # Len(stack) => st[k].left = stack[k].left
          /\ st[Len(stack)].left = Callee.left \ {a}
      BY <1>1, LookedFacts
    <2>. QED
      BY <1>2, <2>1
  <1>4. Call(a) = [bb |-> a, left |-> Preds(a)] /\ Call(a) \in Frame
    <2>1. a \in Blocks(prog) /\ Preds(a) \subseteq Blocks(prog)
      BY <1>2 DEF Preds
    <2>. QED
      BY <2>1 DEF Call, Frame
  <1>5. PICK c : c = Call(a)
    OBVIOUS
  <1>6. stack' = Append(st, c)
    BY <1>1, <1>5
  <1>7. /\ DOMAIN stack' = 1..n+1 /\ Len(stack') = n + 1 /\ stack' # << >>
        /\ stack'[n+1] = c
        /\ \A k \in 1..n : stack'[k] = st[k]
    BY <1>2, <1>3, <1>4, <1>5, <1>6
  <1>. QED
    BY <1>2, <1>3, <1>4, <1>5, <1>7

LEMMA JumpFind ==
    ASSUME IInv, pc = "find", FindInvariant, JumpBefore, BB \in Blocks(prog)
    PROVE  FindInvariant'
  <1>1. Finding /\ UNCHANGED finding /\ JumpChain /\ FoundDecide /\ InHand /\ BrPts' = BrPts
    BY DEF JumpBefore, finding, FindInvariant
  <1>2. PICK a \in Callee.left : IsJump(prog, a) /\ stack' = Append(Looked(a), Call(a))
    BY DEF JumpBefore
  <1>3. PICK called \in SUBSET Blocks(prog) : AllCalled(called)
    BY DEF FindInvariant
  <1>4. Callee.bb \in Blocks(prog) /\ a \in Preds(Callee.bb) /\ BB \in JumpsTo(prog, Callee.bb)
    BY <1>1, <1>2, StackFacts
  <1>5. a \in Blocks(prog) /\ <<a, Callee.bb>> \in Edges(prog) /\ Callee.bb \in ToSet(prog.succ[a])
    BY <1>4, EdgeFacts
  <1>6. PICK n : n = Len(stack)
    OBVIOUS
  <1>7. /\ n \in Nat \ {0} /\ DOMAIN stack = 1..n /\ stack[n] = Callee
        /\ DOMAIN stack' = 1..n+1 /\ Len(stack') = n + 1 /\ stack' # << >>
        /\ stack'[n+1] = [bb |-> a, left |-> Preds(a)]
        /\ \A k \in 1..n : stack'[k].bb = stack[k].bb
        /\ \A k \in 1..n : stack'[k].left \subseteq stack[k].left
        /\ \A k \in 1..n : \A b : b \in stack[k].left /\ b # a => b \in stack'[k].left
    BY <1>1, <1>2, <1>6, CallMade
  <1>8. \A k \in DOMAIN stack' : k \in 1..n \/ k = n + 1
    BY <1>7
  <1>9. stack'[n+1].bb = a /\ stack'[n+1].left = Preds(a)
    BY <1>7
  <1>10. JumpChain'
    <2>1. stack'[1].bb = BB
      BY <1>1, <1>7 DEF JumpChain, Finding
    <2>2. ASSUME NEW k \in 1..n
          PROVE  /\ stack'[k].left \subseteq Preds(stack'[k].bb)
                 /\ BB \in JumpsTo(prog, stack'[k].bb)
                 /\ k > 1 => IsJump(prog, stack'[k].bb) /\ stack'[k-1].bb \in ToSet(prog.succ[stack'[k].bb])
      <3>1. stack'[k].left \subseteq stack[k].left /\ stack'[k].bb = stack[k].bb /\ k \in DOMAIN stack
        BY <1>7
      <3>2. k > 1 => stack'[k-1].bb = stack[k-1].bb
        BY <1>7
      <3>. QED
        BY <1>1, <3>1, <3>2 DEF JumpChain
    <2>3. BB \in JumpsTo(prog, a)
      BY <1>2, <1>4, <1>5, JumpsStep
    <2>4. stack'[n].bb = Callee.bb /\ (n + 1) - 1 = n
      BY <1>7
    <2>5. ASSUME NEW k \in DOMAIN stack'
          PROVE  /\ stack'[k].left \subseteq Preds(stack'[k].bb)
                 /\ BB \in JumpsTo(prog, stack'[k].bb)
                 /\ k > 1 => IsJump(prog, stack'[k].bb) /\ stack'[k-1].bb \in ToSet(prog.succ[stack'[k].bb])
      BY <1>2, <1>5, <1>8, <1>9, <2>2, <2>3, <2>4
    <2>. QED
      BY <1>1, <2>1, <2>5, FindingKept DEF JumpChain, finding
  <1>11. FoundDecide'
    BY <1>1, FindingKept DEF FoundDecide, finding
  <1>12. AllCalled(called \cup {a})'
    <2>1. \A k \in DOMAIN stack' : stack'[k].bb \in called \cup {a}
      BY <1>3, <1>7, <1>8, <1>9 DEF AllCalled
    <2>2. ASSUME NEW x \in called \cup {a}, NEW b \in Preds(x)
          PROVE  \/ IsBranch(prog, b) /\ <<b, prog.succ[b][1] = x>> \in BrPts
                 \/ IsJump(prog, b) /\ b \in called \cup {a}
                 \/ LeftOnStack(x, b)'
      <3>1. CASE x = a
        <4>1. b \in stack'[n+1].left /\ stack'[n+1].bb = x /\ n + 1 \in DOMAIN stack'
          BY <1>7, <1>9, <2>2, <3>1
        <4>. QED
          BY <4>1 DEF LeftOnStack
      <3>2. CASE x \in called /\ ~LeftOnStack(x, b)
        BY <1>3, <2>2, <3>2 DEF AllCalled
      <3>3. CASE x \in called /\ LeftOnStack(x, b) /\ b # a
        <4>1. PICK k \in DOMAIN stack : stack[k].bb = x /\ b \in stack[k].left
          BY <3>3 DEF LeftOnStack
        <4>2. b \in stack'[k].left /\ stack'[k].bb = x /\ k \in DOMAIN stack'
          BY <1>7, <3>3, <4>1
        <4>. QED
          BY <4>2 DEF LeftOnStack
      <3>4. CASE b = a
        BY <1>2, <3>4
      <3>. QED
        BY <3>1, <3>2, <3>3, <3>4
    <2>. QED
      BY <1>1, <1>3, <2>1, <2>2, FindingKept DEF AllCalled, finding
  <1>13. FindsSome'
    <2>1. Callee' = stack'[n+1]
      BY <1>7 DEF Callee, Last
    <2>. QED
      BY <1>1, <1>7, <1>9, <2>1, FindingKept DEF FindsSome, finding
  <1>14. called \cup {a} \in SUBSET Blocks(prog)
    BY <1>5
  <1>. QED
    BY <1>1, <1>10, <1>11, <1>12, <1>13, <1>14, FindingKept DEF FindInvariant, finding

(****************************************************************************)
(* The search is sent off with the block of interest.                       *)
(****************************************************************************)
LEMMA StartFindFind ==
    ASSUME IInv, StartFind
    PROVE  FindInvariant'
  <1>1. /\ stack' = <<Call(BB)>> /\ BrPts' = {} /\ UNCHANGED finding /\ InHand
        /\ BB \in Blocks(prog) /\ Call(BB) = [bb |-> BB, left |-> Preds(BB)]
    <2>1. prog.instrs[BB] \in Seq(Instr) /\ BB \in Blocks(prog)
      BY InstrTypes, InstrsOfBlock DEF StartFind
    <2>2. pos \in 1..Len(prog.instrs[BB])
      BY <2>1 DEF StartFind, Scanning, IInv, TypeOK
    <2>3. pos \in DOMAIN prog.instrs[BB]
      BY <2>1, <2>2
    <2>. QED
      BY <2>1, <2>3 DEF StartFind, finding, InHand, Scanning, SoughtKinds, Call
  <1>2. DOMAIN stack' = {1} /\ stack' # << >> /\ stack'[1] = Call(BB) /\ Len(stack') = 1
    BY <1>1
  <1>3. stack'[1].bb = BB /\ stack'[1].left = Preds(BB)
    BY <1>1, <1>2
  <1>4. JumpChain'
    <2>1. BB \in JumpsTo(prog, BB)
      BY <1>1, JumpsReflexive
    <2>. QED
      BY <1>1, <1>2, <1>3, <2>1, FindingKept DEF JumpChain, finding
  <1>5. FoundDecide'
    BY <1>1 DEF FoundDecide
  <1>6. FindsSome'
    <2>1. Callee' = stack'[1]
      BY <1>2 DEF Callee, Last
    <2>. QED
      BY <1>1, <1>2, <1>3, <2>1, FindingKept DEF FindsSome, finding
  <1>7. AllCalled({BB})'
    <2>1. \A b \in Preds(BB) : LeftOnStack(BB, b)'
      BY <1>1, <1>2, <1>3 DEF LeftOnStack, finding
    <2>. QED
      BY <1>1, <1>2, <1>3, <2>1, FindingKept DEF AllCalled, finding
  <1>8. {BB} \in SUBSET Blocks(prog)
    BY <1>1
  <1>. QED
    BY <1>1, <1>4, <1>5, <1>6, <1>7, <1>8, FindingKept DEF FindInvariant, finding
------------------------------------------------------------------------------
(****************************************************************************)
(* The conditions.  What was noted stays noted.                             *)
(****************************************************************************)
LEMMA NotedKept ==
    ASSUME prog' = prog, LCs \subseteq LCs', NEW b, NEW instr, Noted(b, instr)
    PROVE  Noted(b, instr)'
  BY DEF Noted, Deciding

LEMMA NothingNew ==
    ASSUME IInv, FInv, UNCHANGED <<prog, LCs>>, StopsForReason',
           pc' = "find" => FindInvariant',
           pc' = "done" => visited' = Blocks(prog),
           \A b \in Blocks(prog) : \A n \in DOMAIN prog.instrs[b] : Scanned(b, n)' => Scanned(b, n)
    PROVE  FInv'
  <1>1. AllNoted'
    BY NotedKept DEF AllNoted, FInv
  <1>2. FindInvariant'
    BY DEF FindInvariant
  <1>. QED
    BY <1>1, <1>2 DEF FInv

(****************************************************************************)
(* The scan goes on behind an instruction that was noted.                   *)
(****************************************************************************)
LEMMA NextInstr ==
    ASSUME IInv, FInv, pc \in {"scan", "find"}, pos' = pos + 1, pc' = "scan", BB \in Blocks(prog),
           UNCHANGED <<prog, visited, BB>>,
           NEW bb, NEW instr, bb = BB, instr = I, pos \in DOMAIN prog.instrs[bb] => Noted(bb, instr)',
           LCs \subseteq LCs', LCs' \subseteq Conditions(prog)
    PROVE  FInv'
  <1>1. AllNoted'
    <2>1. ASSUME NEW b \in Blocks(prog), NEW n \in DOMAIN prog.instrs[b], Scanned(b, n)'
          PROVE  Noted(b, prog.instrs[b][n])'
      <3>1. n \in Nat /\ pos \in Nat
        BY InstrsOfBlock DEF IInv, TypeOK
      <3>2. CASE b = BB /\ n = pos
        <4>1. instr = prog.instrs[b][n] /\ b = bb
          BY <3>2 DEF I
        <4>. QED
          BY <3>2, <4>1
      <3>3. CASE b # BB \/ n # pos
        <4>1. Scanned(b, n)
          BY <2>1, <3>1, <3>3 DEF Scanned, Searching
        <4>. QED
          BY <4>1, NotedKept DEF FInv, AllNoted
      <3>. QED
        BY <3>2, <3>3
    <2>. QED
      BY <2>1 DEF AllNoted
  <1>. QED
    BY <1>1 DEF FInv, FindInvariant, StopsForReason

LEMMA OfInterestFacts ==
    ASSUME IInv, NEW b \in Blocks(prog), NEW n \in DOMAIN prog.instrs[b]
    PROVE  /\ <<b, prog.instrs[b][n]>> \in OfInterest(prog)
           /\ prog.instrs[b][n] \in SoughtKinds => <<b, prog.instrs[b][n]>> \in Sought(prog)
  <1>1. <<b, prog.instrs[b][n]>> \in OfInterest(prog)
    BY DEF OfInterest
  <1>. QED
    BY <1>1 DEF Sought, SoughtKinds

LEMMA ConditionsFacts ==
    ASSUME IInv, NEW b \in Blocks(prog), NEW n \in DOMAIN prog.instrs[b]
    PROVE  /\ prog.instrs[b][n] \in SoughtKinds =>
                \A x \in Deciding(b) : BranchCondition(x, prog.instrs[b][n]) \in Conditions(prog)
           /\ prog.instrs[b][n] = "retval" => ReturnCondition(b) \in Conditions(prog)
  <1>1. PICK l : l = <<b, prog.instrs[b][n]>>
    OBVIOUS
  <1>2. /\ l[1] = b /\ l[2] = prog.instrs[b][n] /\ l \in OfInterest(prog)
        /\ l[2] \in SoughtKinds => l \in Sought(prog)
    BY <1>1, OfInterestFacts
  <1>3. ASSUME l[2] \in SoughtKinds, NEW x \in Deciding(b)
        PROVE  BranchCondition(x, l[2]) \in Conditions(prog)
    <2>1. l \in Sought(prog) /\ x \in Deciding(l[1])
      BY <1>2, <1>3
    <2>. DEFINE OfBlock(m) == {BranchCondition(side, m[2]) : side \in Deciding(m[1])}
    <2>2. BranchCondition(x, l[2]) \in OfBlock(l) /\ OfBlock(l) \in {OfBlock(m) : m \in Sought(prog)}
      BY <2>1
    <2>3. UNION {OfBlock(m) : m \in Sought(prog)} \subseteq Conditions(prog)
      BY DEF Conditions, Deciding, BranchCondition
    <2>. HIDE DEF OfBlock
    <2>. QED
      BY <2>2, <2>3
  <1>4. ASSUME l[2] = "retval"
        PROVE  ReturnCondition(b) \in Conditions(prog)
    BY <1>2, <1>4 DEF Conditions, ReturnCondition
  <1>. QED
    BY <1>2, <1>3, <1>4

LEMMA FoundNoted ==
    ASSUME IInv, FInv, Found
    PROVE  FInv'
  <1>1. /\ pc = "find" /\ stack = << >> /\ <<NullBlock, TRUE>> \notin BrPts
        /\ LCs' = LCs \cup {BranchCondition(x, I) : x \in BrPts}
        /\ pos' = pos + 1 /\ pc' = "scan"
        /\ UNCHANGED <<prog, visited, BB>>
    BY DEF Found, BranchCondition
  <1>2. FindInvariant /\ BB \in Blocks(prog)
    <2>1. visited \subseteq Blocks(prog) /\ BB \in visited
      BY <1>1 DEF IInv, TypeOK
    <2>. QED
      BY <2>1 DEF FInv
  <1>3. InHand /\ FoundDecide /\ FindsSome /\ \E called \in SUBSET Blocks(prog) : AllCalled(called)
    BY <1>1, <1>2 DEF FindInvariant
  <1>4. pos \in DOMAIN prog.instrs[BB] /\ I \in SoughtKinds /\ I = prog.instrs[BB][pos]
    BY <1>3 DEF InHand, I
  <1>5. LCs' \subseteq Conditions(prog)
    <2>1. \A x \in BrPts : x \in Deciding(BB)
      BY <1>1, <1>3 DEF FoundDecide
    <2>2. \A x \in BrPts : BranchCondition(x, I) \in Conditions(prog)
      BY <1>2, <1>4, <2>1, ConditionsFacts
    <2>. QED
      BY <1>1, <2>2 DEF FInv
  <1>6. PICK instr, bb : instr = I /\ bb = BB
    OBVIOUS
  <1>7. Noted(bb, instr)'
    <2>1. ASSUME instr \in {"reach_error", "ret", "retval"} PROVE \E c \in LCs' : c.label = "ASSERT"
      <3>1. PICK x \in BrPts : TRUE
        BY <1>1, <1>3 DEF FindsSome
      <3>2. BranchCondition(x, instr) \in LCs' /\ BranchCondition(x, instr).label = "ASSERT"
        BY <1>1, <1>6, <2>1, <3>1 DEF BranchCondition, Label
      <3>. QED
        BY <3>2
    <2>2. ASSUME Simple(prog), NEW x \in Deciding(bb) PROVE BranchCondition(x, instr) \in LCs'
      <3>1. x \in BrPts
        BY <1>1, <1>2, <1>3, <1>6, <2>2, AllFound
      <3>. QED
        BY <1>1, <1>6, <3>1
    <2>. QED
      BY <1>1, <1>4, <1>6, <2>1, <2>2 DEF Noted, SoughtKinds, Deciding
  <1>. QED
    BY <1>1, <1>2, <1>5, <1>6, <1>7, NextInstr

LEMMA FoundNullStops ==
    ASSUME IInv, FInv, FoundNull
    PROVE  FInv'
  <1>1. /\ pc = "find" /\ stack = << >> /\ <<NullBlock, TRUE>> \in BrPts /\ pc' = "abort"
        /\ UNCHANGED <<prog, visited, BB, pos, LCs>>
    BY DEF FoundNull
  <1>2. FindInvariant /\ BB \in Blocks(prog)
    <2>1. visited \subseteq Blocks(prog) /\ BB \in visited
      BY <1>1 DEF IInv, TypeOK
    <2>. QED
      BY <2>1 DEF FInv
  <1>3. InHand /\ FoundDecide
    BY <1>1, <1>2 DEF FindInvariant
  <1>4. BB \in JumpsTo(prog, Entry)
    <2>1. <<NullBlock, TRUE>> \notin Deciding(BB)
      BY <1>2, BlockType DEF Deciding, IInv, NullBlock
    <2>. QED
      BY <1>1, <1>3, <2>1 DEF FoundDecide
  <1>5. <<BB, I>> \in Sought(prog)
    BY <1>2, <1>3, OfInterestFacts DEF InHand, I
  <1>6. StopsForReason'
    <2>1. PICK l : l = <<BB, I>>
      OBVIOUS
    <2>2. l[1] = BB /\ l \in Sought(prog)
      BY <1>5, <2>1
    <2>. QED
      BY <1>1, <1>4, <2>2 DEF StopsForReason
  <1>. QED
    BY <1>1, <1>6, NothingNew DEF Scanned, Searching

LEMMA SwitchStops ==
    ASSUME IInv, FInv, SwitchBefore
    PROVE  FInv'
  <1>1. Finding /\ pc = "find" /\ pc' = "abort" /\ UNCHANGED <<prog, visited, BB, pos, LCs>>
    BY DEF SwitchBefore, Finding
  <1>2. FindInvariant /\ BB \in Blocks(prog)
    <2>1. visited \subseteq Blocks(prog) /\ BB \in visited
      BY <1>1 DEF IInv, TypeOK
    <2>. QED
      BY <2>1 DEF FInv
  <1>3. InHand /\ JumpChain
    BY <1>1, <1>2 DEF FindInvariant
  <1>4. PICK a : a \in Callee.left /\ a \in prog.switches
    BY DEF SwitchBefore
  <1>5. <<a, Callee.bb>> \in Edges(prog) /\ BB \in JumpsTo(prog, Callee.bb)
    BY <1>1, <1>3, <1>4, StackFacts, EdgeFacts
  <1>6. <<BB, I>> \in Sought(prog)
    BY <1>2, <1>3, OfInterestFacts DEF InHand, I
  <1>7. StopsForReason'
    <2>1. PICK l, e : l = <<BB, I>> /\ e = <<a, Callee.bb>>
      OBVIOUS
    <2>2. l[1] = BB /\ l \in Sought(prog) /\ e \in Edges(prog) /\ e[1] \in prog.switches /\ l[1] \in JumpsTo(prog, e[2])
      BY <1>4, <1>5, <1>6, <2>1
    <2>. QED
      BY <1>1, <2>2 DEF StopsForReason
  <1>. QED
    BY <1>1, <1>7, NothingNew DEF Scanned, Searching

LEMMA OverflowStops ==
    ASSUME IInv, FInv, Overflow
    PROVE  FInv'
  <1>1. Finding /\ pc = "find" /\ pc' = "overflow" /\ UNCHANGED <<prog, visited, BB, pos, LCs>>
    BY DEF Overflow, Finding
  <1>2. FindInvariant /\ BB \in Blocks(prog)
    <2>1. visited \subseteq Blocks(prog) /\ BB \in visited
      BY <1>1 DEF IInv, TypeOK
    <2>. QED
      BY <2>1 DEF FInv
  <1>3. InHand /\ JumpChain
    BY <1>1, <1>2 DEF FindInvariant
  <1>4. <<BB, I>> \in Sought(prog)
    BY <1>2, <1>3, OfInterestFacts DEF InHand, I
  <1>5. StopsForReason'
    <2>1. PICK l : l = <<BB, I>>
      OBVIOUS
    <2>2. l[1] = BB /\ l \in Sought(prog)
      BY <1>4, <2>1
    <2>3. Len(prog.succ) <= MaxDepth =>
              \E e \in Edges(prog) : e[1] = BB /\ IsJump(prog, e[1]) /\ BB \in JumpsTo(prog, e[2])
      BY <1>2, <1>3, OverflowReason
    <2>. QED
      BY <1>1, <2>2, <2>3 DEF StopsForReason
  <1>. QED
    BY <1>1, <1>5, NothingNew DEF Scanned, Searching

LEMMA NextFInv ==
    ASSUME IInv, FInv, [Next]_vars
    PROVE  FInv'
  <1>1. CASE Pop
    <2>1. /\ pc = "pop" /\ pc' = "scan" /\ pos' = 1 /\ BB' \in visited' /\ UNCHANGED <<prog, LCs>>
          /\ visited' = visited \cup {BB'}
      BY <1>1 DEF Pop
    <2>2. ASSUME NEW b \in Blocks(prog), NEW n \in DOMAIN prog.instrs[b], Scanned(b, n)'
          PROVE  Scanned(b, n)
      <3>1. b # BB'
        BY <2>1, <2>2, InstrsOfBlock DEF Scanned, Searching
      <3>. QED
        BY <2>1, <2>2, <3>1 DEF Scanned, Searching
    <2>. QED
      BY <2>1, <2>2, NothingNew DEF StopsForReason
  <1>2. CASE Finish
    <2>1. pc = "pop" /\ pc' = "done" /\ visited' = Blocks(prog) /\ UNCHANGED <<prog, visited, BB, pos, LCs>>
      BY <1>2, EmptyWorklist DEF Finish
    <2>. QED
      BY <2>1, NothingNew DEF StopsForReason, Scanned, Searching
  <1>3. CASE PassInstr \/ ReturnOfValue
    <2>1. /\ pc = "scan" /\ pc' = "scan" /\ pos' = pos + 1 /\ UNCHANGED <<prog, visited, BB>>
          /\ BB \in Blocks(prog)
      BY <1>3, InstrTypes DEF PassInstr, ReturnOfValue, Scanning
    <2>2. PICK instr, bb : instr = I /\ bb = BB
      OBVIOUS
    <2>3. CASE PassInstr
      <3>1. instr = "other" /\ LCs' = LCs
        BY <2>2, <2>3 DEF PassInstr, Scanning
      <3>2. Noted(bb, instr)'
        BY <3>1 DEF Noted, SoughtKinds
      <3>. QED
        BY <2>1, <2>2, <3>1, <3>2, NextInstr DEF FInv
    <2>4. CASE ReturnOfValue
      <3>1. instr = "retval" /\ LCs' = LCs \cup {ReturnCondition(bb)} /\ pos <= Len(prog.instrs[BB])
        BY <2>2, <2>4 DEF ReturnOfValue, Scanning, ReturnCondition
      <3>2. ReturnCondition(bb) \in LCs' /\ ReturnCondition(bb).label = "ASSERT"
        BY <3>1 DEF ReturnCondition
      <3>3. Noted(bb, instr)'
        BY <3>1, <3>2 DEF Noted, SoughtKinds
      <3>4. pos \in DOMAIN prog.instrs[BB]
        BY <2>1, <3>1, InstrsOfBlock DEF IInv, TypeOK
      <3>5. LCs' \subseteq Conditions(prog)
        BY <2>1, <2>2, <3>1, <3>4, ConditionsFacts DEF FInv, I
      <3>. QED
        BY <2>1, <2>2, <3>1, <3>3, <3>5, NextInstr
    <2>. QED
      BY <1>3, <2>3, <2>4
  <1>4. CASE StartFind \/ IndirectCall
    <2>1. pc = "scan" /\ pc' \in {"find", "crash"} /\ UNCHANGED <<prog, visited, BB, pos, LCs>>
      BY <1>4 DEF StartFind, IndirectCall, Scanning
    <2>2. pc' = "find" => FindInvariant'
      BY <1>4, StartFindFind DEF IndirectCall
    <2>. QED
      BY <2>1, <2>2, NothingNew DEF StopsForReason, Scanned, Searching
  <1>5. CASE EndScan
    <2>1. /\ pc = "scan" /\ pc' = "push" /\ pos > Len(prog.instrs[BB]) /\ UNCHANGED <<prog, visited, BB, pos, LCs>>
          /\ pos \in Nat
      BY <1>5 DEF EndScan, IInv, TypeOK
    <2>2. ASSUME NEW b \in Blocks(prog), NEW n \in DOMAIN prog.instrs[b], Scanned(b, n)'
          PROVE  Scanned(b, n)
      <3>1. b = BB => n < pos
        BY <2>1, InstrsOfBlock
      <3>. QED
        BY <2>1, <2>2, <3>1 DEF Scanned, Searching
    <2>. QED
      BY <2>1, <2>2, NothingNew DEF StopsForReason
  <1>6. CASE NoPreds \/ BranchBefore \/ JumpBefore \/ Return
    <2>1. pc = "find" /\ pc' = "find" /\ UNCHANGED <<prog, visited, BB, pos, LCs>>
      BY <1>6 DEF NoPreds, BranchBefore, JumpBefore, Return, Finding
    <2>2. BB \in Blocks(prog) /\ FindInvariant
      BY <2>1 DEF IInv, TypeOK, FInv
    <2>3. FindInvariant'
      BY <1>6, <2>1, <2>2, NoPredsFind, BranchFind, JumpFind, ReturnFind
    <2>. QED
      BY <2>1, <2>3, NothingNew DEF StopsForReason, Scanned, Searching
  <1>7. CASE Push
    <2>1. pc = "push" /\ pc' \in {"push", "pop"} /\ UNCHANGED <<prog, visited, BB, pos, LCs>>
      BY <1>7 DEF Push, PushSucc, PassSucc, EndPush, Pushing, find
    <2>. QED
      BY <2>1, NothingNew DEF StopsForReason, Scanned, Searching
  <1>8. CASE UNCHANGED vars
    <2>1. UNCHANGED <<prog, visited, BB, pos, LCs, pc, stack, BrPts>>
      BY <1>8 DEF vars, find
    <2>2. StopsForReason' /\ FindInvariant' = FindInvariant
      BY <2>1 DEF FInv, StopsForReason, FindInvariant, InHand, I, JumpChain, FoundDecide, FindsSome, AllCalled,
                  LeftOnStack, Preds, Deciding, Callee
    <2>. QED
      BY <2>1, <2>2, NothingNew DEF FInv, Scanned, Searching
  <1>. QED
    BY <1>1, <1>2, <1>3, <1>4, <1>5, <1>6, <1>7, <1>8, FoundNoted, FoundNullStops, SwitchStops, OverflowStops
    DEF Next, Scan, Find, Ended

LEMMA InitFInv ==
    ASSUME Init
    PROVE  FInv
  BY DEF Init, FInv, FindInvariant, AllNoted, Scanned, StopsForReason

LEMMA FindInvariance == Spec => []FInv
  BY InitFInv, NextFInv, Invariance, PTL DEF Spec

(****************************************************************************)
(* The conditions found are those there are, for every program without a    *)
(* switch or a branch that leads to a block twice.                          *)
(****************************************************************************)
THEOREM AllConditionsFound == Spec => []DoneFindsAll
  <1>1. ASSUME IInv, FInv, pc = "done", Simple(prog)
        PROVE  Conditions(prog) \subseteq LCs
    <2>1. visited = Blocks(prog)
      BY <1>1 DEF FInv
    <2>2. ASSUME NEW l \in OfInterest(prog)
          PROVE  Noted(l[1], l[2])
      <3>1. PICK b \in Blocks(prog) : \E n \in DOMAIN prog.instrs[b] : l = <<b, prog.instrs[b][n]>>
        BY DEF OfInterest
      <3>2. \A n \in DOMAIN prog.instrs[b] : Scanned(b, n)
        BY <1>1, <2>1 DEF Scanned, Searching
      <3>. QED
        BY <1>1, <3>1, <3>2 DEF FInv, AllNoted
    <2>3. ASSUME NEW l \in Sought(prog), NEW x \in Deciding(l[1])
          PROVE  [ofBranch |-> TRUE, bb |-> x[1], isTrueBr |-> x[2], label |-> Label(l[2])] \in LCs
      BY <1>1, <2>2 DEF Sought, SoughtKinds, Noted, BranchCondition
    <2>4. ASSUME NEW l \in OfInterest(prog), l[2] = "retval"
          PROVE  [ofBranch |-> FALSE, bb |-> l[1], isTrueBr |-> TRUE, label |-> "ASSERT"] \in LCs
      BY <2>2, <2>4 DEF Noted, ReturnCondition
    <2>. QED
      BY <2>3, <2>4 DEF Conditions, Deciding
  <1>2. IInv /\ FInv => DoneFindsAll
    BY <1>1 DEF DoneFindsAll, FInv
  <1>. QED
    BY <1>2, Invariance, FindInvariance, PTL

(****************************************************************************)
(* verify() is told that there is nothing to assert only if main calls      *)
(* reach_error nowhere and returns nothing but 0.                           *)
(****************************************************************************)
THEOREM NothingToAssert == Spec => []NoAssertionMissed
  <1>1. ASSUME IInv, FInv, pc = "done", \A c \in LCs : c.label # "ASSERT", NEW l \in OfInterest(prog)
        PROVE  l[2] \in {"abort", "indirect", "other"}
    <2>1. visited = Blocks(prog)
      BY <1>1 DEF FInv
    <2>2. PICK b \in Blocks(prog) : \E n \in DOMAIN prog.instrs[b] : l = <<b, prog.instrs[b][n]>>
      BY DEF OfInterest
    <2>3. \A n \in DOMAIN prog.instrs[b] : Scanned(b, n)
      BY <1>1, <2>1 DEF Scanned, Searching
    <2>4. Noted(l[1], l[2])
      BY <1>1, <2>2, <2>3 DEF FInv, AllNoted
    <2>5. l[2] \in Instr
      BY <1>1, <2>2, InstrsOfBlock
    <2>. QED
      BY <1>1, <2>4, <2>5 DEF Noted, Instr
  <1>2. IInv /\ FInv => NoAssertionMissed
    BY <1>1 DEF NoAssertionMissed
  <1>. QED
    BY <1>2, Invariance, FindInvariance, PTL

(****************************************************************************)
(* The assertion fails for a block of interest that the entry or a switch   *)
(* leads to without a condition; and a program with room for a call per     *)
(* block runs out of stack only where such a block jumps back to itself.    *)
(****************************************************************************)
THEOREM StopsExplained == Spec => []StopsForReason
  <1>1. FInv => StopsForReason
    BY DEF FInv
  <1>. QED
    BY <1>1, FindInvariance, PTL
==============================================================================
