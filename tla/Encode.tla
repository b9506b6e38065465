------------------------------- MODULE Encode -------------------------------
(****************************************************************************)
(* baseCaseSMTChecking, inductiveStepSMT and inductiveStepChecking: the     *)
(* instructions of the blocks of a node sequence are turned into problems   *)
(* (equations and branch conditions over the constants of the solver).  A   *)
(* value of the program has one version of its constant per definition that *)
(* is passed; getExpr gives the current one, getExprWithRefresh the next.   *)
(*                                                                          *)
(* What an equation says (which operator, which width) is left out; which   *)
(* constants stand in it is kept, lookup by lookup, since lookups change    *)
(* the tables, and C++ leaves the order of two in one == open.              *)
(****************************************************************************)
EXTENDS Integers, Sequences, FiniteSets

CONSTANTS
    Value,      \* the values of the programs: instructions, globals, literals
    Jobs        \* what is put to the encoding: see Job

Instruction == [op : {"nondet", "malloc", "skip", "store", "binary", "cmp", "bitcast",
                      "br", "phi", "gep", "select", "load", "ext", "other"},
                res : Value,            \* the instruction as a value
                args : Seq(Value),      \* its operands
                bbs : Seq(Nat)]         \* br: the targets for true and false;
                                        \* phi: the incoming blocks

Arity(ins) ==
    /\ ins.op \in {"bitcast", "br", "load", "ext"} => Len(ins.args) = 1
    /\ ins.op \in {"store", "binary", "cmp"} => Len(ins.args) = 2
    /\ ins.op = "select" => Len(ins.args) = 3
    /\ ins.op = "phi" => Len(ins.args) = Len(ins.bbs)

Block == [name : STRING, instrs : Seq({ins \in Instruction : Arity(ins)})]

(****************************************************************************)
(* A value's type, as far as the code asks: an integer, a literal integer,  *)
(* a global integer, a pointer to an integer, or none of these.  The name   *)
(* "" is that of a value without one.  isConstant: an llvm::Constant, which  *)
(* literals and globals are, and undef and null.  gep: the operands of an   *)
(* address.                                                                 *)
(****************************************************************************)
ValueInfo ==
    {v \in [kind : {"int", "literal", "global", "ptr", "else"}, name : STRING,
            isConstant : BOOLEAN, gep : Seq(Value)] :
        v.kind \in {"literal", "global"} => v.isConstant}

Query == [mode : {"base", "inductive"}, nodes : Seq(Nat)]

(****************************************************************************)
(* The queries of one path: one per round of baseCase, then the base and    *)
(* the induction sequence of inductiveStep.                                 *)
(****************************************************************************)
Job == [blocks : Seq(Block), val : [Value -> ValueInfo], queries : Seq(Query)]

(****************************************************************************)
(* What LLVM says of a function.  An instruction without a result has no    *)
(* type the code asks for; a result is the result of one instruction and no *)
(* constant.  A branch ends its block, has two targets and a Boolean, which *)
(* is no address and no vector cast to one.  A name stands for one block.   *)
(****************************************************************************)
InstrOf(jb, b, l) == jb.blocks[b].instrs[l]
Lines(jb, b) == DOMAIN jb.blocks[b].instrs

ResultsDiffer(jb) ==
    \A b \in DOMAIN jb.blocks : \A l \in Lines(jb, b) :
        LET ins == InstrOf(jb, b, l)
        IN  IF ins.op \in {"skip", "store", "br", "other"}
            THEN ins.op # "other" => jb.val[ins.res].kind = "else"
            ELSE /\ ~jb.val[ins.res].isConstant
                 /\ \A c \in DOMAIN jb.blocks : \A m \in Lines(jb, c) :
                       InstrOf(jb, c, m).res = ins.res => c = b /\ m = l

BranchesEndBlocks(jb) ==
    \A b \in DOMAIN jb.blocks : \A l \in Lines(jb, b) :
        LET ins == InstrOf(jb, b, l)
        IN  ins.op = "br" =>
                /\ l = Len(jb.blocks[b].instrs)
                /\ Len(ins.bbs) = 2
                /\ {ins.bbs[1], ins.bbs[2]} \subseteq DOMAIN jb.blocks
                /\ jb.val[ins.args[1]].kind \in {"int", "literal"}
                /\ \A c \in DOMAIN jb.blocks : \A m \in Lines(jb, c) :
                      InstrOf(jb, c, m).res = ins.args[1] =>
                          InstrOf(jb, c, m).op \notin {"malloc", "bitcast"}

NamesDiffer(jb) ==
    \A b, c \in DOMAIN jb.blocks :
        jb.blocks[b].name = jb.blocks[c].name /\ jb.blocks[b].name # "" => b = c

ASSUME JobsAssumption ==
    \A jb \in Jobs :
        /\ jb \in Job
        /\ jb.queries # << >>
        /\ \A n \in DOMAIN jb.queries : jb.queries[n].nodes \in Seq(DOMAIN jb.blocks)
        /\ ResultsDiffer(jb) /\ BranchesEndBlocks(jb) /\ NamesDiffer(jb)

NoVersion == -1
Text == STRING \cup {"%", "arr"}            \* names of the program, and the code's own
Name == Text \X Nat                         \* <<"x", 0>>, or <<"%", n>> for %n
Const == [name : Name, times : Nat \cup {NoVersion}]
Arr == [name |-> <<"arr", 0>>, times |-> NoVersion]

NotIn == [index |-> 0, times |-> 0]         \* for a value not in the map

VARIABLES
    job,
    q,              \* the query
    i,              \* the position in its node sequence
    j,              \* the position in the block
    exprs,          \* the constants made so far
    val2exprIdx,    \* per value: the place of its constant in exprs, its version
    val2ArrayIdx,   \* per pointer into an array: the place of the array; 0: none
    label2Num,      \* the keys of the map of that name: values without a name
                    \* that were looked up.  Its entries are never read
    isFirstNondet,  \* the static flag
    problems,       \* what was put to the solver
    inductiveBase,  \* the problems of the first sequence of inductiveStep
    todo,           \* the lookups left for the current instruction
    terms,          \* the set of constants its lookups gave
    asserts,        \* what is to be asserted of them
    defs,           \* history: how often each value was defined so far
    before,         \* history: defs when the instruction reads its operands
    denotes,        \* history: what each constant was taken for
    pc              \* "next", "lookup", "check", "done", "false"; "abort" when an
                    \* assertion fails, "noRefresh" when that for globals does

tables == <<exprs, val2exprIdx, val2ArrayIdx, label2Num>>
hist == <<defs, before, denotes>>
place == <<job, q, i, j>>
vars == <<place, tables, isFirstNondet, problems, inductiveBase, todo, terms, asserts, hist, pc>>

nodes == job.queries[q].nodes
kval == q                       \* the first queries are the rounds 1, 2, ...
mode == job.queries[q].mode
Instrs(n) == job.blocks[n].instrs
Current == Instrs(nodes[i])[j]
Kind(v) == job.val[v].kind
BlockName(n) == job.blocks[n].name

(****************************************************************************)
(* The flag starts as false and is set by the clear() before the first      *)
(* encoding.                                                                *)
(****************************************************************************)
Init ==
    /\ job \in Jobs
    /\ q = 1
    /\ isFirstNondet = TRUE
    /\ inductiveBase = << >>
    /\ pc = "next"
    /\ i = 1 /\ j = 1
    /\ exprs = << >>
    /\ val2exprIdx = [v \in Value |-> NotIn]
    /\ val2ArrayIdx = [v \in Value |-> 0]
    /\ label2Num = {}
    /\ problems = << >>
    /\ todo = << >> /\ terms = {} /\ asserts = [kind |-> "nothing", val |-> 0]
    /\ defs = [v \in Value |-> 0]
    /\ before = [v \in Value |-> 0]
    /\ denotes = {}

------------------------------------------------------------------------------
(****************************************************************************)
(* The instructions.  Each one sets out its lookups and what is asserted of *)
(* the constants they give.                                                 *)
(****************************************************************************)
Get(v) == [val |-> v, refresh |-> FALSE]
Refresh(v) == [val |-> v, refresh |-> TRUE]
InAnyOrder(a, b) == {<<a, b>>, <<b, a>>}

At(op) ==
    /\ pc = "next"
    /\ i <= Len(nodes)
    /\ j <= Len(Instrs(nodes[i]))
    /\ Current.op = op

(****************************************************************************)
(* Phis stand first in a block and all read what was there before it.       *)
(****************************************************************************)
ReadBefore == IF Current.op = "phi" /\ j > 1 THEN before ELSE defs

Begin(lookups, kind, val) ==
    /\ todo' = lookups
    /\ terms' = {}
    /\ asserts' = [kind |-> kind, val |-> val]
    /\ before' = ReadBefore
    /\ pc' = "lookup"
    /\ UNCHANGED <<place, problems, inductiveBase, defs, denotes>>

Abort ==
    /\ pc' = "abort"
    /\ UNCHANGED <<place, tables, isFirstNondet, problems, inductiveBase, todo, terms, asserts, hist>>

FirstNondet ==
    /\ At("nondet")
    /\ mode = "base" /\ isFirstNondet
    /\ isFirstNondet' = FALSE
    /\ Begin(<<Refresh(Current.res)>>, "pin", kval)
    /\ UNCHANGED tables

OtherNondet ==
    /\ At("nondet")
    /\ mode = "inductive" \/ ~isFirstNondet
    /\ Begin(<<Refresh(Current.res)>>, "nothing", 0)
    /\ UNCHANGED <<tables, isFirstNondet>>

Malloc ==
    /\ At("malloc")
    /\ exprs' = Append(exprs, Arr)
    /\ val2ArrayIdx' = [val2ArrayIdx EXCEPT ![Current.res] = Len(exprs) + 1]
    /\ Begin(<< >>, "nothing", 0)
    /\ UNCHANGED <<val2exprIdx, label2Num, isFirstNondet>>

(****************************************************************************)
(* Calls of reach_error and llvm.dbg, unconditional branches, unreachable.  *)
(****************************************************************************)
Skip ==
    /\ At("skip")
    /\ Begin(<< >>, "nothing", 0)
    /\ UNCHANGED <<tables, isFirstNondet>>

StoreGlobal ==
    /\ At("store")
    /\ Kind(Current.args[2]) = "global"
    /\ \E lookups \in InAnyOrder(Get(Current.args[1]), Refresh(Current.args[2])) :
          Begin(lookups, "equation", 0)
    /\ UNCHANGED <<tables, isFirstNondet>>

(****************************************************************************)
(* The array's entry in exprs is replaced by the constant of the new array, *)
(* which has the same name, "arr", and so is the constant that was there.   *)
(****************************************************************************)
StoreElement ==
    /\ At("store")
    /\ LET gep == job.val[Current.args[2]].gep
       IN  /\ Len(gep) = 2
           /\ val2ArrayIdx[gep[1]] # 0
           /\ \E lookups \in InAnyOrder(Get(gep[2]), Get(Current.args[1])) :
                 Begin(lookups, "equation", 0)
    /\ UNCHANGED <<tables, isFirstNondet>>

StoreFails ==
    /\ At("store")
    /\ LET gep == job.val[Current.args[2]].gep
       IN  /\ Kind(Current.args[2]) # "global"
           /\ Len(gep) = 2 => val2ArrayIdx[gep[1]] = 0
    /\ Abort

(****************************************************************************)
(* handleBinaryOp and handleCmpOp: a literal stands for itself, and both    *)
(* operands are read before the result gets its version.                    *)
(****************************************************************************)
Operand(v) == IF Kind(v) = "literal" THEN << >> ELSE <<Get(v)>>

BinaryOrCmp ==
    /\ At("binary") \/ At("cmp")
    /\ Begin(Operand(Current.args[1]) \o Operand(Current.args[2]) \o <<Refresh(Current.res)>>,
             "equation", 0)
    /\ UNCHANGED <<tables, isFirstNondet>>

BitCast ==
    /\ At("bitcast")
    /\ val2ArrayIdx[Current.args[1]] # 0
    /\ val2ArrayIdx' = [val2ArrayIdx EXCEPT ![Current.res] = val2ArrayIdx[Current.args[1]]]
    /\ Begin(<< >>, "nothing", 0)
    /\ UNCHANGED <<exprs, val2exprIdx, label2Num, isFirstNondet>>

(****************************************************************************)
(* The next block is compared with the targets by name, the true target     *)
(* first.                                                                   *)
(****************************************************************************)
GoesToSwapped(n) == BlockName(nodes[i+1]) = BlockName(Current.bbs[3 - n])

GoesTo(n) == BlockName(nodes[i+1]) = BlockName(Current.bbs[n])

BranchTrue ==
    /\ At("br")
    /\ i < Len(nodes) /\ GoesTo(1)
    /\ Begin(<<Get(Current.args[1])>>, "branch", 1)
    /\ UNCHANGED <<tables, isFirstNondet>>

BranchFalse ==
    /\ At("br")
    /\ i < Len(nodes) /\ ~GoesTo(1) /\ GoesTo(2)
    /\ Begin(<<Get(Current.args[1])>>, "branch", 0)
    /\ UNCHANGED <<tables, isFirstNondet>>

(****************************************************************************)
(* assert(i + 1 <= size) lets the base case read past the end: whatever     *)
(* number stands there, the branch may seem to go either way or nowhere.    *)
(****************************************************************************)
BranchPastEnd ==
    /\ At("br")
    /\ i = Len(nodes) /\ mode = "base"
    /\ \E val \in {0, 1} : Begin(<<Get(Current.args[1])>>, "branch", val)
    /\ UNCHANGED <<tables, isFirstNondet>>

BranchFails ==
    /\ At("br")
    /\ i < Len(nodes) => ~(GoesTo(1) \/ GoesTo(2))
    /\ Abort

(****************************************************************************)
(* The incoming value: in the base case that of the block before, in the    *)
(* inductive step the first one that is no constant, whatever block was     *)
(* before.                                                                  *)
(****************************************************************************)
Incoming ==
    IF mode = "base"
    THEN {n \in DOMAIN Current.bbs : Current.bbs[n] = nodes[i-1]}
    ELSE {n \in DOMAIN Current.args : ~job.val[Current.args[n]].isConstant}

Phi ==
    /\ At("phi")
    /\ i > 1
    /\ \E n \in Incoming :
          /\ \A m \in Incoming : n <= m
          /\ \E lookups \in IF Kind(Current.args[n]) = "literal" THEN {<<Refresh(Current.res)>>}
                             ELSE InAnyOrder(Refresh(Current.res), Get(Current.args[n])) :
                Begin(lookups, "equation", 0)
    /\ UNCHANGED <<tables, isFirstNondet>>

PhiFails ==
    /\ At("phi")
    /\ i > 1 => Incoming = {}
    /\ Abort

Gep ==
    /\ At("gep")
    /\ Len(Current.args) = 2 /\ val2ArrayIdx[Current.args[1]] # 0
    /\ \E lookups \in InAnyOrder(Refresh(Current.res), Get(Current.args[2])) :
          Begin(lookups, "equation", 0)
    /\ UNCHANGED <<tables, isFirstNondet>>

NoArray ==
    /\ At("gep") \/ At("bitcast")
    /\ At("gep") /\ Len(Current.args) = 2 => val2ArrayIdx[Current.args[1]] = 0
    /\ At("bitcast") => val2ArrayIdx[Current.args[1]] = 0
    /\ Abort

Select ==
    /\ At("select")
    /\ \E lookups \in InAnyOrder(Refresh(Current.res), Get(Current.args[1])) :
          Begin(Operand(Current.args[2]) \o Operand(Current.args[3]) \o lookups, "equation", 0)
    /\ UNCHANGED <<tables, isFirstNondet>>

LoadOrExt ==
    /\ At("load") \/ At("ext")
    /\ \E lookups \in InAnyOrder(Refresh(Current.res), Get(Current.args[1])) :
          Begin(lookups, "equation", 0)
    /\ UNCHANGED <<tables, isFirstNondet>>

Unsupported == At("other") /\ Abort

Encoding ==
    \/ FirstNondet \/ OtherNondet \/ Malloc \/ Skip
    \/ StoreGlobal \/ StoreElement \/ StoreFails
    \/ BinaryOrCmp \/ BitCast \/ BranchTrue \/ BranchFalse \/ BranchPastEnd \/ BranchFails
    \/ Phi \/ PhiFails \/ Gep \/ NoArray \/ Select \/ LoadOrExt \/ Unsupported

------------------------------------------------------------------------------
(****************************************************************************)
(* The lookups.  Each one names the value first.                            *)
(****************************************************************************)
Wanted == Head(todo).val
Known == val2exprIdx[Wanted].index # 0

ValueName ==
    IF job.val[Wanted].name = "" THEN <<"%", Cardinality(label2Num) + 1>>
    ELSE <<job.val[Wanted].name, 0>>

Labelled == IF job.val[Wanted].name = "" THEN label2Num \cup {Wanted} ELSE label2Num

Looking(refresh) == pc = "lookup" /\ todo # << >> /\ Head(todo).refresh = refresh

(****************************************************************************)
(* A definition is the next one of its value.  A use means the value as it  *)
(* was when the instruction read its operands; late: it was given a new     *)
(* version since.                                                           *)
(****************************************************************************)
Meaning(c) ==
    [const |-> c, val |-> Wanted,
     inst |-> IF Head(todo).refresh THEN defs[Wanted] + 1 ELSE before[Wanted],
     late |-> ~Head(todo).refresh /\ before[Wanted] # defs[Wanted]]

Found(c) ==
    /\ todo' = Tail(todo)
    /\ terms' = terms \cup {c}
    /\ denotes' = denotes \cup {Meaning(c)}
    /\ defs' = IF Head(todo).refresh THEN [defs EXCEPT ![Wanted] = @ + 1] ELSE defs
    /\ label2Num' = Labelled
    /\ UNCHANGED <<place, val2ArrayIdx, isFirstNondet, problems, inductiveBase, asserts, before, pc>>

GetKnown ==
    /\ Looking(FALSE)
    /\ Known
    /\ Found(exprs[val2exprIdx[Wanted].index])
    /\ UNCHANGED <<exprs, val2exprIdx>>

(****************************************************************************)
(* The first constant of a value has version 0, whether it is used or       *)
(* defined.                                                                 *)
(****************************************************************************)
FirstVersion(kinds) ==
    /\ ~Known
    /\ Kind(Wanted) \in kinds
    /\ LET c == [name |-> ValueName, times |-> 0]
       IN  /\ exprs' = Append(exprs, c)
           /\ Found(c)
    /\ val2exprIdx' = [val2exprIdx EXCEPT ![Wanted] = [index |-> Len(exprs) + 1, times |-> 0]]

GetNew == Looking(FALSE) /\ FirstVersion({"int", "literal", "global"})
RefreshNew == Looking(TRUE) /\ FirstVersion({"int", "literal", "global", "ptr"})

SameVersion == [name |-> ValueName, times |-> val2exprIdx[Wanted].times]

NextVersion == [name |-> ValueName, times |-> val2exprIdx[Wanted].times + 1]

RefreshKnown ==
    /\ Looking(TRUE)
    /\ Known
    /\ Kind(Wanted) \in {"int", "literal"}
    /\ exprs' = [exprs EXCEPT ![val2exprIdx[Wanted].index] = NextVersion]
    /\ val2exprIdx' = [val2exprIdx EXCEPT ![Wanted].times = @ + 1]
    /\ Found(NextVersion)

(****************************************************************************)
(* The new constant of a pointer is appended, the old one returned.         *)
(****************************************************************************)
RefreshPointer ==
    /\ Looking(TRUE)
    /\ Known
    /\ Kind(Wanted) = "ptr"
    /\ exprs' = Append(exprs, NextVersion)
    /\ val2exprIdx' = [val2exprIdx EXCEPT ![Wanted].times = @ + 1]
    /\ Found(exprs[val2exprIdx[Wanted].index])

LookupFails ==
    /\ pc = "lookup" /\ todo # << >>
    /\ ~Known
    /\ Kind(Wanted) \in IF Head(todo).refresh THEN {"else"} ELSE {"else", "ptr"}
    /\ Abort

(****************************************************************************)
(* The type of a global is a pointer: the branch that would refresh an      *)
(* integer is never taken.                                                  *)
(****************************************************************************)
RefreshGlobalFails ==
    /\ Looking(TRUE)
    /\ Known
    /\ Kind(Wanted) = "global"
    /\ pc' = "noRefresh"
    /\ UNCHANGED <<place, tables, isFirstNondet, problems, inductiveBase, todo, terms, asserts, hist>>

Lookup ==
    \/ GetKnown \/ GetNew \/ RefreshNew \/ RefreshKnown \/ RefreshPointer
    \/ LookupFails \/ RefreshGlobalFails

------------------------------------------------------------------------------
(****************************************************************************)
(* The end of an instruction, of a block and of a query.                    *)
(****************************************************************************)
Problem == [pos |-> <<i, j>>, kind |-> asserts.kind, val |-> asserts.val, terms |-> terms]

EndInstruction ==
    /\ pc = "lookup" /\ todo = << >>
    /\ problems' = IF asserts.kind = "nothing" THEN problems ELSE Append(problems, Problem)
    /\ j' = j + 1
    /\ pc' = "next"
    /\ UNCHANGED <<job, q, i, tables, isFirstNondet, inductiveBase, todo, terms, asserts, hist>>

EndBlock ==
    /\ pc = "next"
    /\ i <= Len(nodes)
    /\ j > Len(Instrs(nodes[i]))
    /\ i' = i + 1
    /\ j' = 1
    /\ UNCHANGED <<job, q, tables, isFirstNondet, problems, inductiveBase, todo, terms, asserts,
                   hist, pc>>

Encoded == pc = "next" /\ i > Len(nodes)

StartQuery ==
    /\ q' = q + 1
    /\ i' = 1 /\ j' = 1
    /\ exprs' = << >>
    /\ val2exprIdx' = [v \in Value |-> NotIn]
    /\ val2ArrayIdx' = [v \in Value |-> 0]
    /\ label2Num' = {}
    /\ problems' = << >>
    /\ defs' = [v \in Value |-> 0]
    /\ before' = [v \in Value |-> 0]
    /\ denotes' = {}
    /\ pc' = "next"
    /\ UNCHANGED <<job, todo, terms, asserts>>

InductionKeepsMaps ==
    /\ Encoded
    /\ mode = "inductive" /\ q < Len(job.queries)
    /\ inductiveBase' = problems
    /\ q' = q + 1
    /\ i' = 1 /\ j' = 1
    /\ exprs' = << >>
    /\ problems' = << >>
    /\ defs' = [v \in Value |-> 0]
    /\ before' = [v \in Value |-> 0]
    /\ denotes' = {}
    /\ UNCHANGED <<job, val2exprIdx, val2ArrayIdx, label2Num, isFirstNondet, todo, terms, asserts, pc>>

(****************************************************************************)
(* The base sequence of inductiveStep is followed by the induction          *)
(* sequence, without a clear() in between and before the solver is asked.   *)
(****************************************************************************)
InductionNext ==
    /\ Encoded
    /\ mode = "inductive" /\ q < Len(job.queries)
    /\ inductiveBase' = problems
    /\ StartQuery
    /\ UNCHANGED isFirstNondet

EncodingDone ==
    /\ Encoded
    /\ mode = "base" \/ q = Len(job.queries)
    /\ pc' = IF mode = "inductive" /\ (inductiveBase = << >> \/ problems = << >>)
             THEN "abort" ELSE "check"
    /\ UNCHANGED <<place, tables, isFirstNondet, problems, inductiveBase, todo, terms, asserts, hist>>

UnsatNotCleared ==
    /\ pc = "check" /\ mode = "base"
    /\ q < Len(job.queries)
    /\ StartQuery
    /\ UNCHANGED <<isFirstNondet, inductiveBase>>

(****************************************************************************)
(* A round of the base case that is unsatisfiable is followed by the next,  *)
(* or by the inductive step; each starts with clear().                      *)
(****************************************************************************)
Unsat ==
    /\ pc = "check" /\ mode = "base"
    /\ q < Len(job.queries)
    /\ StartQuery
    /\ isFirstNondet' = TRUE
    /\ UNCHANGED inductiveBase

(****************************************************************************)
(* A model ends the run; the answers of the inductive step are printed.     *)
(****************************************************************************)
Answered ==
    /\ pc = "check"
    /\ pc' = IF mode = "base" THEN "false" ELSE "done"
    /\ UNCHANGED <<place, tables, isFirstNondet, problems, inductiveBase, todo, terms, asserts, hist>>

Unknown == pc = "check" /\ Abort

Ended == pc \in {"done", "false", "abort", "noRefresh"} /\ UNCHANGED vars

Next ==
    \/ Encoding \/ Lookup \/ EndInstruction \/ EndBlock
    \/ InductionNext \/ EncodingDone \/ Unsat \/ Answered \/ Unknown \/ Ended

Spec == Init /\ [][Next]_vars

------------------------------------------------------------------------------
Looks == [val : Value, refresh : BOOLEAN]
Denotation == [const : Const, val : Value, inst : Nat, late : BOOLEAN]

(****************************************************************************)
(* The tables fit together: the maps point into exprs, which a second       *)
(* encoding starts anew.                                                    *)
(****************************************************************************)
TypeOK ==
    /\ job \in Jobs
    /\ q \in DOMAIN job.queries
    /\ i \in Nat \ {0}
    /\ j \in Nat \ {0}
    /\ exprs \in Seq(Const)
    /\ val2exprIdx \in [Value -> [index : 0..Len(exprs), times : Nat]]
    /\ val2ArrayIdx \in [Value -> 0..Len(exprs)]
    /\ label2Num \subseteq Value
    /\ isFirstNondet \in BOOLEAN
    /\ todo \in Seq(Looks)
    /\ terms \subseteq Const
    /\ asserts \in [kind : {"nothing", "pin", "equation", "branch"}, val : Nat]
    /\ defs \in [Value -> Nat]
    /\ before \in [Value -> Nat]
    /\ denotes \subseteq Denotation
    /\ pc \in {"next", "lookup", "check", "done", "false", "abort", "noRefresh"}

(****************************************************************************)
(* Where a constant can be told from all others: the value is an integer or *)
(* a global (an address keeps its first version), no value shares its name, *)
(* without a name it was not refreshed (its second name is made from a      *)
(* number that need not be new), and it was not read by a phi after another *)
(* phi of the block gave it a new version.                                  *)
(****************************************************************************)
OwnName(v) == \A w \in Value : job.val[w].name = job.val[v].name => w = v

Tracked(d) ==
    /\ Kind(d.val) \notin {"ptr", "else"}
    /\ IF job.val[d.val].name = "" THEN d.const.times = 0 ELSE OwnName(d.val)
    /\ ~d.late

(****************************************************************************)
(* In one query a constant stands for one definition of one value, and      *)
(* every use of that definition is given this constant: no two values or    *)
(* passes through a loop are confused, none is split.                       *)
(****************************************************************************)
OneMeaning ==
    \A d1, d2 \in denotes : Tracked(d1) /\ Tracked(d2) =>
        (d1.const = d2.const <=> d1.val = d2.val /\ d1.inst = d2.inst)

(****************************************************************************)
(* What the walk itself says: its places, and how often it has defined a    *)
(* value by the end of its n-th block.                                      *)
(****************************************************************************)
Places == UNION {{<<n, l>> : l \in DOMAIN Instrs(nodes[n])} : n \in DOMAIN nodes}
InstrAt(p) == Instrs(nodes[p[1]])[p[2]]
Earlier(p, r) == p[1] < r[1] \/ (p[1] = r[1] /\ p[2] < r[2])
Executions(v, n) == Cardinality({p \in Places : p[1] <= n /\ InstrAt(p).res = v})
ConstantsOf(v, inst) == {d.const : d \in {e \in denotes : e.val = v /\ e.inst = inst}}

NondetPlaces == {p \in Places : InstrAt(p).op = "nondet"}
FirstNondets == {p \in NondetPlaces : \A r \in NondetPlaces : ~Earlier(r, p)}

(****************************************************************************)
(* A round of the base case fixes the first nondet value on its way, and    *)
(* nothing else, to the number of the round; the inductive step fixes none, *)
(* although the flag that says so outlives the queries.                     *)
(****************************************************************************)
NondetPinned ==
    pc = "check" =>
        LET pins == {n \in DOMAIN problems : problems[n].kind = "pin"}
        IN  /\ {problems[n].pos : n \in pins} = IF mode = "base" THEN FirstNondets ELSE {}
            /\ \A n \in pins :
                  /\ problems[n].val = q
                  /\ problems[n].terms \subseteq ConstantsOf(InstrAt(problems[n].pos).res, 1)

(****************************************************************************)
(* When blocks have names, a query says of every conditional branch on its  *)
(* way, once, that its condition had the value that leads to the next node, *)
(* and says it of the condition as computed last before the branch.         *)
(****************************************************************************)
NamedTargets(b) ==
    LET names == {BlockName(b.bbs[1]), BlockName(b.bbs[2]), ""}
    IN  b.bbs[1] # b.bbs[2] /\ Cardinality(names) = 3

PathConditions ==
    pc = "check" =>
        \A p \in Places :
            p[1] < Len(nodes) /\ InstrAt(p).op = "br" /\ NamedTargets(InstrAt(p)) =>
                LET said == {n \in DOMAIN problems : problems[n].pos = p}
                IN  /\ Cardinality(said) = 1
                    /\ \A n \in said :
                          /\ problems[n].kind = "branch"
                          /\ InstrAt(p).bbs[IF problems[n].val = 1 THEN 1 ELSE 2] = nodes[p[1]+1]
                          /\ problems[n].terms \subseteq
                                ConstantsOf(InstrAt(p).args[1], Executions(InstrAt(p).args[1], p[1]))

==============================================================================
