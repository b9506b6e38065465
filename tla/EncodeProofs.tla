---------------------------- MODULE EncodeProofs ----------------------------
(****************************************************************************)
(* The encoding keeps its tables together, never confuses two versions of   *)
(* a value, fixes the first nondet value to the round, and conditions every *)
(* query on the way it is about: for every set of programs and walks.       *)
(****************************************************************************)
EXTENDS Encode, SequenceTheorems, FiniteSetTheorems, TLAPS

------------------------------------------------------------------------------
(****************************************************************************)
(* Types.                                                                   *)
(****************************************************************************)
TableTypes ==
    /\ exprs \in Seq(Const)
    /\ val2exprIdx \in [Value -> [index : 0..Len(exprs), times : Nat]]
    /\ val2ArrayIdx \in [Value -> 0..Len(exprs)]
    /\ label2Num \subseteq Value

LEMMA ExceptKeepsSeq ==
    ASSUME NEW S, NEW s \in Seq(S), NEW n, NEW x \in S
    PROVE  [s EXCEPT ![n] = x] \in Seq(S) /\ Len([s EXCEPT ![n] = x]) = Len(s)
  <1>1. s \in [1..Len(s) -> S] /\ Len(s) \in Nat
    OBVIOUS
  <1>2. [s EXCEPT ![n] = x] \in [1..Len(s) -> S]
    BY <1>1
  <1>. QED
    BY <1>1, <1>2

(****************************************************************************)
(* A job is a job: the parts of its record have their types.                *)
(****************************************************************************)
LEMMA JobParts ==
    ASSUME TypeOK
    PROVE  /\ job \in Job
           /\ job.blocks \in Seq(Block)
           /\ job.val \in [Value -> ValueInfo]
           /\ job.queries \in Seq(Query)
           /\ job.queries[q] \in Query
           /\ nodes \in Seq(DOMAIN job.blocks)
           /\ q \in Nat
  <1>1. job \in Job
    BY JobsAssumption DEF TypeOK
  <1>2. job.queries \in Seq(Query) /\ q \in DOMAIN job.queries
    BY <1>1 DEF Job, TypeOK
  <1>3. nodes \in Seq(DOMAIN job.blocks)
    BY JobsAssumption DEF TypeOK, nodes
  <1>. QED
    BY <1>1, <1>2, <1>3 DEF Job

(****************************************************************************)
(* What stands at a place of the walk is an instruction with the operands   *)
(* of its kind.                                                             *)
(****************************************************************************)
LEMMA CurrentType ==
    ASSUME TypeOK, i <= Len(nodes), j <= Len(Instrs(nodes[i]))
    PROVE  Current \in Instruction /\ Arity(Current)
  <1>1. nodes[i] \in DOMAIN job.blocks
    BY JobParts, SMTT(30) DEF TypeOK
  <1>2. job.blocks[nodes[i]] \in Block
    BY <1>1, JobParts
  <1>3. Instrs(nodes[i]) \in Seq({ins \in Instruction : Arity(ins)})
    BY <1>2 DEF Block, Instrs
  <1>4. Instrs(nodes[i])[j] \in {ins \in Instruction : Arity(ins)}
    BY <1>3 DEF TypeOK
  <1>. QED
    BY <1>4 DEF Current

LEMMA CurrentAt ==
    ASSUME TypeOK, NEW op, At(op)
    PROVE  /\ Current \in Instruction
           /\ Arity(Current)
           /\ Current.res \in Value
           /\ Current.args \in Seq(Value)
           /\ Current.bbs \in Seq(Nat)
           /\ Current.op = op
  <1>1. Current \in Instruction /\ Arity(Current)
    BY CurrentType DEF At
  <1>. QED
    BY <1>1 DEF At, Instruction

(****************************************************************************)
(* Setting out the lookups of an instruction keeps the types.               *)
(****************************************************************************)
LEMMA BeginType ==
    ASSUME TypeOK, TableTypes', isFirstNondet' \in BOOLEAN,
           NEW lookups \in Seq(Looks),
           NEW kind \in {"nothing", "pin", "equation", "branch"},
           NEW val \in Nat,
           Begin(lookups, kind, val)
    PROVE  TypeOK'
  <1>1. before' \in [Value -> Nat]
    BY DEF TypeOK, Begin, ReadBefore
  <1>2. asserts' \in [kind : {"nothing", "pin", "equation", "branch"}, val : Nat]
    BY DEF Begin
  <1>. QED
    BY <1>1, <1>2 DEF TypeOK, TableTypes, Begin, place

LEMMA GetType ==
    ASSUME NEW v \in Value
    PROVE  Get(v) \in Looks /\ Refresh(v) \in Looks
  BY DEF Get, Refresh, Looks

LEMMA AnyOrderType ==
    ASSUME NEW a \in Looks, NEW b \in Looks, NEW c \in InAnyOrder(a, b)
    PROVE  c \in Seq(Looks)
  <1>1. c = <<a, b>> \/ c = <<b, a>>
    BY DEF InAnyOrder
  <1>2. \A x, y \in Looks : <<x, y>> \in Seq(Looks)
    OBVIOUS
  <1>. QED
    BY <1>1, <1>2

LEMMA OperandType ==
    ASSUME NEW v \in Value
    PROVE  Operand(v) \in Seq(Looks)
  BY GetType DEF Operand

LEMMA TablesKeepTypes ==
    ASSUME TypeOK, UNCHANGED tables
    PROVE  TableTypes'
  BY DEF TypeOK, TableTypes, tables

LEMMA BeginOnlyType ==
    ASSUME TypeOK, UNCHANGED <<tables, isFirstNondet>>,
           NEW lookups \in Seq(Looks),
           NEW kind \in {"nothing", "pin", "equation", "branch"},
           NEW val \in Nat,
           Begin(lookups, kind, val)
    PROVE  TypeOK'
  <1>1. TableTypes' /\ isFirstNondet' \in BOOLEAN
    BY TablesKeepTypes DEF TypeOK
  <1>. QED
    BY <1>1, BeginType

LEMMA ArrType == Arr \in Const
  <1>1. "arr" \in Text /\ 0 \in Nat
    BY DEF Text
  <1>2. <<"arr", 0>> \in Name
    BY <1>1 DEF Name
  <1>. QED
    BY <1>2 DEF Arr, Const

(****************************************************************************)
(* Each kind of instruction keeps the types.                                *)
(****************************************************************************)
LEMMA AbortType == ASSUME TypeOK, Abort PROVE TypeOK'
  BY DEF TypeOK, Abort, place, tables, hist

LEMMA EncodingType ==
    ASSUME TypeOK, Encoding
    PROVE  TypeOK'
  <1>1. CASE FirstNondet
    <2>1. <<Refresh(Current.res)>> \in Seq(Looks)
      BY <1>1, CurrentAt, GetType DEF FirstNondet
    <2>2. kval \in Nat
      BY JobParts DEF kval
    <2>. QED
      BY <1>1, <2>1, <2>2, BeginType, TablesKeepTypes DEF FirstNondet
  <1>2. CASE OtherNondet
    <2>1. <<Refresh(Current.res)>> \in Seq(Looks)
      BY <1>2, CurrentAt, GetType DEF OtherNondet
    <2>. QED
      BY <1>2, <2>1, BeginOnlyType DEF OtherNondet
  <1>3. CASE Malloc
    <2>2. exprs' \in Seq(Const) /\ Len(exprs') = Len(exprs) + 1
      BY <1>3, ArrType DEF Malloc, TypeOK
    <2>3. val2ArrayIdx' \in [Value -> 0..Len(exprs')]
      <3>1. Len(exprs) + 1 \in 0..Len(exprs') /\ 0..Len(exprs) \subseteq 0..Len(exprs')
        BY <2>2 DEF TypeOK
      <3>2. val2ArrayIdx' = [val2ArrayIdx EXCEPT ![Current.res] = Len(exprs) + 1]
        BY <1>3 DEF Malloc
      <3>. QED
        BY <3>1, <3>2 DEF TypeOK
    <2>4. val2exprIdx' \in [Value -> [index : 0..Len(exprs'), times : Nat]]
      BY <1>3, <2>2 DEF Malloc, TypeOK
    <2>5. TableTypes' /\ isFirstNondet' \in BOOLEAN
      BY <1>3, <2>2, <2>3, <2>4 DEF Malloc, TableTypes, TypeOK
    <2>6. << >> \in Seq(Looks)
      OBVIOUS
    <2>. QED
      BY <1>3, <2>5, <2>6, BeginType DEF Malloc
  <1>4. CASE Skip
    <2>1. << >> \in Seq(Looks)
      OBVIOUS
    <2>. QED
      BY <1>4, <2>1, BeginOnlyType DEF Skip
  <1>5. CASE StoreGlobal
    <2>1. Get(Current.args[1]) \in Looks /\ Refresh(Current.args[2]) \in Looks
      BY <1>5, CurrentAt, GetType DEF StoreGlobal, Arity
    <2>2. PICK lookups \in InAnyOrder(Get(Current.args[1]), Refresh(Current.args[2])) :
              Begin(lookups, "equation", 0)
      BY <1>5 DEF StoreGlobal
    <2>3. lookups \in Seq(Looks)
      BY <2>1, AnyOrderType
    <2>. QED
      BY <1>5, <2>2, <2>3, BeginOnlyType DEF StoreGlobal
  <1>6. CASE StoreElement
    <2>. DEFINE gep == job.val[Current.args[2]].gep
    <2>1. gep \in Seq(Value) /\ Len(gep) = 2
      BY <1>6, CurrentAt, JobParts DEF StoreElement, Arity, ValueInfo
    <2>2. Get(gep[2]) \in Looks /\ Get(Current.args[1]) \in Looks
      BY <1>6, <2>1, CurrentAt, GetType DEF StoreElement, Arity
    <2>3. PICK lookups \in InAnyOrder(Get(gep[2]), Get(Current.args[1])) : Begin(lookups, "equation", 0)
      BY <1>6 DEF StoreElement
    <2>4. lookups \in Seq(Looks)
      BY <2>2, AnyOrderType
    <2>. QED
      BY <1>6, <2>3, <2>4, BeginOnlyType DEF StoreElement
  <1>7. CASE BinaryOrCmp
    <2>1. Current.args[1] \in Value /\ Current.args[2] \in Value /\ Current.res \in Value
      BY <1>7, CurrentAt DEF BinaryOrCmp, Arity
    <2>2. Operand(Current.args[1]) \o Operand(Current.args[2]) \o <<Refresh(Current.res)>> \in Seq(Looks)
      BY <2>1, OperandType, GetType
    <2>. QED
      BY <1>7, <2>2, BeginOnlyType DEF BinaryOrCmp
  <1>8. CASE BitCast
    <2>1. Current.args[1] \in Value
      BY <1>8, CurrentAt DEF BitCast, Arity
    <2>2. TableTypes' /\ isFirstNondet' \in BOOLEAN
      BY <1>8, <2>1 DEF BitCast, TableTypes, TypeOK
    <2>3. << >> \in Seq(Looks)
      OBVIOUS
    <2>. QED
      BY <1>8, <2>2, <2>3, BeginType DEF BitCast
  <1>9. CASE BranchTrue \/ BranchFalse \/ BranchPastEnd
    <2>1. <<Get(Current.args[1])>> \in Seq(Looks)
      BY <1>9, CurrentAt, GetType DEF BranchTrue, BranchFalse, BranchPastEnd, Arity
    <2>2. PICK val \in {0, 1} : Begin(<<Get(Current.args[1])>>, "branch", val)
      BY <1>9 DEF BranchTrue, BranchFalse, BranchPastEnd
    <2>3. val \in Nat
      OBVIOUS
    <2>. QED
      BY <1>9, <2>1, <2>2, <2>3, BeginOnlyType DEF BranchTrue, BranchFalse, BranchPastEnd
  <1>10. CASE Phi
    <2>1. PICK n \in Incoming :
              \E lookups \in IF Kind(Current.args[n]) = "literal" THEN {<<Refresh(Current.res)>>}
                             ELSE InAnyOrder(Refresh(Current.res), Get(Current.args[n])) :
                 Begin(lookups, "equation", 0)
      BY <1>10 DEF Phi
    <2>2. n \in DOMAIN Current.args
      BY <1>10, CurrentAt DEF Phi, Incoming, Arity
    <2>3. Current.args[n] \in Value /\ Current.res \in Value
      BY <1>10, <2>2, CurrentAt DEF Phi
    <2>4. Get(Current.args[n]) \in Looks /\ Refresh(Current.res) \in Looks
      BY <2>3, GetType
    <2>5. PICK lookups \in IF Kind(Current.args[n]) = "literal" THEN {<<Refresh(Current.res)>>}
                           ELSE InAnyOrder(Refresh(Current.res), Get(Current.args[n])) :
              Begin(lookups, "equation", 0)
      BY <2>1
    <2>6. lookups \in Seq(Looks)
      <3>1. CASE Kind(Current.args[n]) = "literal"
        <4>1. lookups = <<Refresh(Current.res)>>
          BY <2>5, <3>1
        <4>2. <<Refresh(Current.res)>> \in Seq(Looks)
          BY <2>4
        <4>. QED
          BY <4>1, <4>2
      <3>2. CASE Kind(Current.args[n]) # "literal"
        BY <2>4, <2>5, <3>2, AnyOrderType
      <3>. QED
        BY <3>1, <3>2
    <2>. QED
      BY <1>10, <2>5, <2>6, BeginOnlyType DEF Phi
  <1>11. CASE Gep
    <2>1. Refresh(Current.res) \in Looks /\ Get(Current.args[2]) \in Looks
      BY <1>11, CurrentAt, GetType DEF Gep
    <2>2. PICK lookups \in InAnyOrder(Refresh(Current.res), Get(Current.args[2])) :
              Begin(lookups, "equation", 0)
      BY <1>11 DEF Gep
    <2>3. lookups \in Seq(Looks)
      BY <2>1, AnyOrderType
    <2>. QED
      BY <1>11, <2>2, <2>3, BeginOnlyType DEF Gep
  <1>12. CASE Select
    <2>1. /\ Current.args[1] \in Value /\ Current.args[2] \in Value /\ Current.args[3] \in Value
          /\ Current.res \in Value
      BY <1>12, CurrentAt DEF Select, Arity
    <2>2. PICK lookups \in InAnyOrder(Refresh(Current.res), Get(Current.args[1])) :
              Begin(Operand(Current.args[2]) \o Operand(Current.args[3]) \o lookups, "equation", 0)
      BY <1>12 DEF Select
    <2>3. lookups \in Seq(Looks)
      BY <2>1, GetType, AnyOrderType
    <2>4. Operand(Current.args[2]) \o Operand(Current.args[3]) \o lookups \in Seq(Looks)
      BY <2>1, <2>3, OperandType
    <2>. QED
      BY <1>12, <2>2, <2>4, BeginOnlyType DEF Select
  <1>13. CASE LoadOrExt
    <2>1. Refresh(Current.res) \in Looks /\ Get(Current.args[1]) \in Looks
      BY <1>13, CurrentAt, GetType DEF LoadOrExt, Arity
    <2>2. PICK lookups \in InAnyOrder(Refresh(Current.res), Get(Current.args[1])) :
              Begin(lookups, "equation", 0)
      BY <1>13 DEF LoadOrExt
    <2>3. lookups \in Seq(Looks)
      BY <2>1, AnyOrderType
    <2>. QED
      BY <1>13, <2>2, <2>3, BeginOnlyType DEF LoadOrExt
  <1>14. CASE StoreFails \/ BranchFails \/ PhiFails \/ NoArray \/ Unsupported
    BY <1>14, AbortType DEF StoreFails, BranchFails, PhiFails, NoArray, Unsupported
  <1>. QED
    BY <1>1, <1>2, <1>3, <1>4, <1>5, <1>6, <1>7, <1>8, <1>9, <1>10, <1>11, <1>12, <1>13, <1>14
       DEF Encoding

(****************************************************************************)
(* The lookups keep the types.                                              *)
(****************************************************************************)
LEMMA WantedType ==
    ASSUME TypeOK, todo # << >>
    PROVE  /\ Wanted \in Value
           /\ Head(todo).refresh \in BOOLEAN
           /\ Tail(todo) \in Seq(Looks)
           /\ job.val[Wanted] \in ValueInfo
           /\ Kind(Wanted) \in {"int", "literal", "global", "ptr", "else"}
  <1>1. Head(todo) \in Looks /\ Tail(todo) \in Seq(Looks)
    BY DEF TypeOK
  <1>2. Wanted \in Value /\ Head(todo).refresh \in BOOLEAN
    BY <1>1 DEF Looks, Wanted
  <1>3. job.val[Wanted] \in ValueInfo
    BY <1>2, JobParts
  <1>. QED
    BY <1>1, <1>2, <1>3 DEF ValueInfo, Kind

LEMMA ValueNameType ==
    ASSUME TypeOK, todo # << >>, IsFiniteSet(label2Num)
    PROVE  ValueName \in Name
  <1>1. Cardinality(label2Num) + 1 \in Nat
    BY FS_CardinalityType
  <1>2. job.val[Wanted].name \in STRING
    BY WantedType DEF ValueInfo
  <1>3. job.val[Wanted].name \in Text /\ "%" \in Text
    BY <1>2 DEF Text
  <1>. QED
    BY <1>1, <1>3 DEF ValueName, Name

LEMMA FoundType ==
    ASSUME TypeOK, NEW c \in Const, pc = "lookup", todo # << >>,
           exprs' \in Seq(Const),
           val2exprIdx' \in [Value -> [index : 0..Len(exprs'), times : Nat]],
           Len(exprs) <= Len(exprs'),
           Found(c)
    PROVE  TypeOK'
  <1>1. label2Num' \subseteq Value
    BY WantedType DEF Found, Labelled, TypeOK
  <1>2. defs' \in [Value -> Nat]
    <2>1. defs \in [Value -> Nat]
      BY DEF TypeOK
    <2>2. defs' = IF Head(todo).refresh THEN [defs EXCEPT ![Wanted] = defs[Wanted] + 1] ELSE defs
      BY DEF Found
    <2>. QED
      BY <2>1, <2>2, WantedType
  <1>3. Meaning(c) \in Denotation
    <2>1. (IF Head(todo).refresh THEN defs[Wanted] + 1 ELSE before[Wanted]) \in Nat
      BY WantedType DEF TypeOK
    <2>2. (~Head(todo).refresh /\ before[Wanted] # defs[Wanted]) \in BOOLEAN
      OBVIOUS
    <2>. QED
      BY <2>1, <2>2, WantedType DEF Meaning, Denotation
  <1>4. denotes' \subseteq Denotation
    BY <1>3 DEF Found, TypeOK
  <1>5. val2ArrayIdx' \in [Value -> 0..Len(exprs')]
    <2>1. 0..Len(exprs) \subseteq 0..Len(exprs')
      BY DEF TypeOK
    <2>. QED
      BY <2>1 DEF Found, TypeOK
  <1>6. todo' \in Seq(Looks)
    BY WantedType DEF Found
  <1>7. terms' = terms \cup {c} /\ terms \subseteq Const
    BY DEF Found, TypeOK
  <1>. QED
    BY <1>1, <1>2, <1>4, <1>5, <1>6, <1>7 DEF Found, TypeOK, place

LEMMA LookupType ==
    ASSUME TypeOK, IsFiniteSet(label2Num), Lookup
    PROVE  TypeOK'
  <1>1. todo # << >> /\ pc = "lookup"
    BY DEF Lookup, Looking, GetKnown, GetNew, RefreshNew, RefreshKnown, RefreshPointer,
           LookupFails, RefreshGlobalFails
  <1>2. /\ val2exprIdx[Wanted] \in [index : 0..Len(exprs), times : Nat]
        /\ val2exprIdx[Wanted].index \in 0..Len(exprs)
        /\ val2exprIdx[Wanted].times \in Nat
    BY <1>1, WantedType DEF TypeOK
  <1>3. Known => exprs[val2exprIdx[Wanted].index] \in Const
    BY <1>2 DEF Known, TypeOK
  <1>4. NextVersion \in Const
    BY <1>1, <1>2, ValueNameType DEF NextVersion, Const
  <1>. exprs \in Seq(Const) /\ Len(exprs) \in Nat
    BY DEF TypeOK
  <1>5. CASE GetKnown
    <2>1. exprs' = exprs /\ val2exprIdx' \in [Value -> [index : 0..Len(exprs'), times : Nat]]
      BY <1>5 DEF GetKnown, TypeOK
    <2>. QED
      BY <1>1, <1>3, <1>5, <2>1, FoundType DEF GetKnown
  <1>6. ASSUME NEW kinds, FirstVersion(kinds)
        PROVE  TypeOK'
    <2>. DEFINE c == [name |-> ValueName, times |-> 0]
    <2>1. c \in Const
      BY <1>1, ValueNameType DEF Const
    <2>2. exprs' = Append(exprs, c) /\ Found(c)
      BY <1>6 DEF FirstVersion
    <2>3. exprs' \in Seq(Const) /\ Len(exprs') = Len(exprs) + 1
      BY <2>1, <2>2 DEF TypeOK
    <2>4. val2exprIdx' \in [Value -> [index : 0..Len(exprs'), times : Nat]]
      <3>1. [index |-> Len(exprs) + 1, times |-> 0] \in [index : 0..Len(exprs'), times : Nat]
        BY <2>3 DEF TypeOK
      <3>2. \A v \in Value : val2exprIdx[v] \in [index : 0..Len(exprs'), times : Nat]
        BY <2>3 DEF TypeOK
      <3>. QED
        BY <1>6, <3>1, <3>2 DEF FirstVersion, TypeOK
    <2>. QED
      BY <1>1, <2>1, <2>2, <2>3, <2>4, FoundType
  <1>7. ASSUME val2exprIdx' = [val2exprIdx EXCEPT ![Wanted].times = @ + 1],
               exprs' \in Seq(Const), Len(exprs) <= Len(exprs')
        PROVE  val2exprIdx' \in [Value -> [index : 0..Len(exprs'), times : Nat]]
    <2>1. \A v \in Value : val2exprIdx[v] \in [index : 0..Len(exprs'), times : Nat]
      BY <1>7 DEF TypeOK
    <2>2. [val2exprIdx[Wanted] EXCEPT !.times = @ + 1] \in [index : 0..Len(exprs'), times : Nat]
      BY <1>1, <2>1, WantedType
    <2>3. val2exprIdx' = [val2exprIdx EXCEPT ![Wanted] = [val2exprIdx[Wanted] EXCEPT !.times = @ + 1]]
      BY <1>7
    <2>. QED
      BY <2>1, <2>2, <2>3 DEF TypeOK
  <1>8. CASE RefreshKnown
    <2>1. exprs' \in Seq(Const) /\ Len(exprs') = Len(exprs)
      <3>1. exprs' = [exprs EXCEPT ![val2exprIdx[Wanted].index] = NextVersion]
        BY <1>8 DEF RefreshKnown
      <3>. QED
        BY <1>4, <3>1, ExceptKeepsSeq
    <2>2. val2exprIdx' \in [Value -> [index : 0..Len(exprs'), times : Nat]]
      BY <1>7, <1>8, <2>1 DEF RefreshKnown, TypeOK
    <2>. QED
      BY <1>1, <1>4, <1>8, <2>1, <2>2, FoundType DEF RefreshKnown
  <1>9. CASE RefreshPointer
    <2>1. exprs' \in Seq(Const) /\ Len(exprs') = Len(exprs) + 1
      BY <1>4, <1>9 DEF RefreshPointer
    <2>2. val2exprIdx' \in [Value -> [index : 0..Len(exprs'), times : Nat]]
      BY <1>7, <1>9, <2>1, SMTT(30) DEF RefreshPointer, TypeOK
    <2>. QED
      BY <1>1, <1>3, <1>9, <2>1, <2>2, FoundType DEF RefreshPointer
  <1>10. CASE LookupFails
    BY <1>10, AbortType DEF LookupFails
  <1>11. CASE RefreshGlobalFails
    BY <1>11 DEF RefreshGlobalFails, TypeOK, place, tables, hist
  <1>. QED
    BY <1>5, <1>6, <1>8, <1>9, <1>10, <1>11 DEF Lookup, GetNew, RefreshNew

(****************************************************************************)
(* So do the ends of instructions, blocks and queries.                      *)
(****************************************************************************)
Ending ==
    \/ EndInstruction \/ EndBlock
    \/ InductionNext \/ EncodingDone \/ Unsat \/ Answered \/ Unknown \/ Ended

LEMMA StartType ==
    ASSUME TypeOK, q < Len(job.queries), StartQuery, isFirstNondet' \in BOOLEAN
    PROVE  TypeOK'
  <1>1. q' \in DOMAIN job'.queries
    BY JobParts DEF StartQuery, TypeOK
  <1>2. exprs' \in Seq(Const) /\ Len(exprs') = 0
    BY DEF StartQuery
  <1>3. NotIn \in [index : 0..Len(exprs'), times : Nat]
    BY <1>2 DEF NotIn
  <1>4. val2exprIdx' \in [Value -> [index : 0..Len(exprs'), times : Nat]]
    BY <1>3 DEF StartQuery
  <1>5. val2ArrayIdx' \in [Value -> 0..Len(exprs')]
    BY <1>2 DEF StartQuery
  <1>. QED
    BY <1>1, <1>2, <1>4, <1>5 DEF StartQuery, TypeOK

LEMMA EndingType ==
    ASSUME TypeOK, Ending
    PROVE  TypeOK'
  <1>1. CASE EndInstruction
    BY <1>1 DEF EndInstruction, TypeOK, tables, hist
  <1>2. CASE EndBlock
    BY <1>2 DEF EndBlock, TypeOK, tables, hist
  <1>3. CASE InductionNext
    BY <1>3, StartType DEF InductionNext, TypeOK
  <1>4. CASE EncodingDone
    BY <1>4 DEF EncodingDone, TypeOK, place, tables, hist
  <1>5. CASE Unsat
    BY <1>5, StartType DEF Unsat
  <1>6. CASE Answered
    BY <1>6 DEF Answered, TypeOK, place, tables, hist
  <1>7. CASE Unknown
    BY <1>7, AbortType DEF Unknown
  <1>8. CASE Ended
    BY <1>8 DEF Ended, TypeOK, vars, place, tables, hist
  <1>. QED
    BY <1>1, <1>2, <1>3, <1>4, <1>5, <1>6, <1>7, <1>8 DEF Ending

------------------------------------------------------------------------------
(****************************************************************************)
(* The invariant behind OneMeaning.  Only values without a name have keys   *)
(* in label2Num; every known value has a place of its own in exprs, apart   *)
(* from the arrays; the version of its constant and the number of its       *)
(* definitions differ by the same amount in everything that was looked up;  *)
(* and first versions without a name are named apart.                       *)
(****************************************************************************)
KnownValue(v) == val2exprIdx[v].index # 0
NoName(v) == job.val[v].name = ""
Followed(v) == Kind(v) \in {"int", "literal", "global"}
ConstOf(v) == exprs[val2exprIdx[v].index]
Offset(v) == defs[v] - val2exprIdx[v].times

Labels ==
    /\ IsFiniteSet(label2Num)
    /\ \A v \in Value : v \in label2Num <=> KnownValue(v) /\ NoName(v)

OwnPlaces ==
    \A v, w \in Value : KnownValue(v) =>
        /\ val2exprIdx[v].index = val2exprIdx[w].index => v = w
        /\ val2ArrayIdx[w] # val2exprIdx[v].index

IsVersion(c, v, times) ==
    /\ c.times = times
    /\ ~NoName(v) => c.name = <<job.val[v].name, 0>>
    /\ NoName(v) /\ times = 0 => \E n \in 1..Cardinality(label2Num) : c.name = <<"%", n>>

CurrentVersions ==
    \A v \in Value : KnownValue(v) /\ Followed(v) =>
        IsVersion(ConstOf(v), v, val2exprIdx[v].times)

Counted(d) == Followed(d.val) /\ ~d.late

Meanings ==
    \A d \in denotes : Counted(d) =>
        KnownValue(d.val) /\ IsVersion(d.const, d.val, d.inst - Offset(d.val))

FirstUnnamed(v) == KnownValue(v) /\ Followed(v) /\ NoName(v) /\ val2exprIdx[v].times = 0
MeansUnnamed(d) == Counted(d) /\ NoName(d.val) /\ d.const.times = 0

NamedApart ==
    /\ \A v, w \in Value :
          FirstUnnamed(v) /\ FirstUnnamed(w) /\ ConstOf(v).name = ConstOf(w).name => v = w
    /\ \A d \in denotes, v \in Value :
          MeansUnnamed(d) /\ FirstUnnamed(v) => (d.const.name = ConstOf(v).name <=> d.val = v)
    /\ \A d, e \in denotes :
          MeansUnnamed(d) /\ MeansUnnamed(e) => (d.const.name = e.const.name <=> d.val = e.val)

IInv == TypeOK /\ Labels /\ OwnPlaces /\ CurrentVersions /\ Meanings /\ NamedApart

(****************************************************************************)
(* It says what OneMeaning says.                                            *)
(****************************************************************************)
LEMMA InvMeansOne ==
    ASSUME IInv
    PROVE  OneMeaning
  <1>. SUFFICES ASSUME NEW d \in denotes, NEW e \in denotes, Tracked(d), Tracked(e)
                PROVE  d.const = e.const <=> d.val = e.val /\ d.inst = e.inst
    BY DEF OneMeaning
  <1>. d \in Denotation /\ e \in Denotation
    BY DEF IInv, TypeOK
  <1>1. \A x \in {d, e} : x.val \in Value /\ x.const \in Const /\ x.inst \in Nat
    BY DEF Denotation
  <1>2. \A x \in {d, e} : Kind(x.val) \in {"int", "literal", "global", "ptr", "else"}
    BY <1>1, JobParts DEF IInv, Kind, ValueInfo
  <1>3. Counted(d) /\ Counted(e)
    BY <1>2 DEF Tracked, Counted, Followed
  <1>4. \A x \in {d, e} : IsVersion(x.const, x.val, x.inst - Offset(x.val))
    BY <1>3 DEF IInv, Meanings
  <1>5. \A x \in {d, e} : Offset(x.val) \in Int
    <2>1. \A x \in {d, e} : defs[x.val] \in Nat /\ val2exprIdx[x.val].times \in Nat
      BY <1>1 DEF IInv, TypeOK
    <2>. QED
      BY <2>1 DEF Offset
  <1>6. d.const = e.const <=> d.const.name = e.const.name /\ d.const.times = e.const.times
    BY <1>1 DEF Const
  <1>7. d.val = e.val => (d.const.times = e.const.times <=> d.inst = e.inst)
    BY <1>1, <1>4, <1>5 DEF IsVersion
  <1>8. CASE NoName(d.val) /\ NoName(e.val)
    <2>1. d.const.times = 0 /\ e.const.times = 0
      BY <1>8 DEF Tracked, NoName
    <2>2. d.const.name = e.const.name <=> d.val = e.val
      BY <1>3, <1>8, <2>1 DEF IInv, NamedApart, MeansUnnamed
    <2>. QED
      BY <1>6, <1>7, <2>1, <2>2
  <1>9. CASE ~NoName(d.val) /\ ~NoName(e.val)
    <2>1. d.const.name = <<job.val[d.val].name, 0>> /\ e.const.name = <<job.val[e.val].name, 0>>
      BY <1>4, <1>9 DEF IsVersion
    <2>2. OwnName(d.val)
      BY <1>9 DEF Tracked, NoName
    <2>3. d.const.name = e.const.name <=> d.val = e.val
      BY <1>1, <2>1, <2>2 DEF OwnName
    <2>. QED
      BY <1>6, <1>7, <2>3
  <1>10. \A x, y \in {d, e} : NoName(x.val) /\ ~NoName(y.val) => x.const.name # y.const.name
    <2>. TAKE x, y \in {d, e}
    <2>. HAVE NoName(x.val) /\ ~NoName(y.val)
    <2>1. x.const.times = 0
      BY DEF Tracked, NoName
    <2>2. PICK n \in 1..Cardinality(label2Num) : x.const.name = <<"%", n>>
      BY <1>4, <2>1 DEF IsVersion
    <2>3. y.const.name = <<job.val[y.val].name, 0>>
      BY <1>4 DEF IsVersion
    <2>4. n # 0
      BY FS_CardinalityType DEF IInv, Labels
    <2>. QED
      BY <2>2, <2>3, <2>4
  <1>. QED
    BY <1>6, <1>8, <1>9, <1>10 DEF NoName

(****************************************************************************)
(* Steps that leave the values' constants alone keep it, whatever they do   *)
(* to the places of arrays.                                                 *)
(****************************************************************************)
LEMMA ConstantsKept ==
    ASSUME IInv, TypeOK', OwnPlaces',
           UNCHANGED <<job, val2exprIdx, label2Num, defs, denotes>>,
           \A v \in Value : KnownValue(v) => exprs'[val2exprIdx[v].index] = exprs[val2exprIdx[v].index]
    PROVE  IInv'
  <1>1. /\ \A v : (KnownValue(v)' <=> KnownValue(v)) /\ (NoName(v)' <=> NoName(v))
        /\ \A v : (Followed(v)' <=> Followed(v)) /\ Offset(v)' = Offset(v)
        /\ \A v \in Value : KnownValue(v) => ConstOf(v)' = ConstOf(v)
        /\ \A c, v, n : IsVersion(c, v, n)' <=> IsVersion(c, v, n)
    BY DEF KnownValue, NoName, Followed, Kind, Offset, ConstOf, IsVersion
  <1>2. Labels'
    BY <1>1 DEF IInv, Labels
  <1>3. CurrentVersions'
    BY <1>1 DEF IInv, CurrentVersions
  <1>4. \A d : Counted(d)' <=> Counted(d)
    BY <1>1 DEF Counted
  <1>5. Meanings'
    BY <1>1, <1>4 DEF IInv, Meanings
  <1>6. /\ \A d : MeansUnnamed(d)' <=> MeansUnnamed(d)
        /\ \A v : FirstUnnamed(v)' <=> FirstUnnamed(v)
        /\ \A v \in Value : FirstUnnamed(v) => ConstOf(v)' = ConstOf(v)
    BY <1>1, <1>4 DEF MeansUnnamed, FirstUnnamed
  <1>7. NamedApart'
    BY <1>6 DEF IInv, NamedApart
  <1>. QED
    BY <1>2, <1>3, <1>5, <1>7 DEF IInv

LEMMA NothingTouched ==
    ASSUME IInv, TypeOK', UNCHANGED <<job, tables, defs, denotes>>
    PROVE  IInv'
  <1>1. OwnPlaces'
    BY DEF IInv, OwnPlaces, KnownValue, tables
  <1>. QED
    BY <1>1, ConstantsKept DEF tables

LEMMA IndexTypes ==
    ASSUME TypeOK, NEW v \in Value
    PROVE  /\ val2exprIdx[v].index \in 0..Len(exprs)
           /\ val2exprIdx[v].times \in Nat
           /\ val2ArrayIdx[v] \in 0..Len(exprs)
           /\ defs[v] \in Nat
           /\ before[v] \in Nat
           /\ Len(exprs) \in Nat
           /\ exprs \in Seq(Const)
  BY DEF TypeOK

LEMMA EncodingInv ==
    ASSUME IInv, Encoding
    PROVE  IInv'
  <1>. TypeOK /\ TypeOK'
    BY EncodingType DEF IInv
  <1>1. CASE Malloc
    <2>1. /\ exprs' = Append(exprs, Arr)
          /\ val2ArrayIdx' = [val2ArrayIdx EXCEPT ![Current.res] = Len(exprs) + 1]
          /\ UNCHANGED <<job, val2exprIdx, label2Num, defs, denotes>>
      BY <1>1 DEF Malloc, Begin, place
    <2>2. \A v \in Value : KnownValue(v) => exprs'[val2exprIdx[v].index] = exprs[val2exprIdx[v].index]
      <3>. TAKE v \in Value
      <3>. HAVE KnownValue(v)
      <3>1. val2exprIdx[v].index \in 1..Len(exprs)
        BY IndexTypes DEF KnownValue
      <3>. QED
        BY <2>1, <3>1, IndexTypes
    <2>3. \A w \in Value : val2ArrayIdx'[w] = val2ArrayIdx[w] \/ val2ArrayIdx'[w] = Len(exprs) + 1
      BY <2>1 DEF TypeOK
    <2>4. OwnPlaces'
      <3>1. \A v \in Value : val2exprIdx[v].index # Len(exprs) + 1
        BY IndexTypes
      <3>. QED
        BY <2>1, <2>3, <3>1 DEF IInv, OwnPlaces, KnownValue
    <2>. QED
      BY <2>1, <2>2, <2>4, ConstantsKept
  <1>2. CASE BitCast
    <2>1. /\ val2ArrayIdx' = [val2ArrayIdx EXCEPT ![Current.res] = val2ArrayIdx[Current.args[1]]]
          /\ UNCHANGED <<job, exprs, val2exprIdx, label2Num, defs, denotes>>
      BY <1>2 DEF BitCast, Begin, place
    <2>2. Current.args[1] \in Value
      BY <1>2, CurrentAt DEF BitCast, Arity
    <2>3. \A w \in Value : \E u \in Value : val2ArrayIdx'[w] = val2ArrayIdx[u]
      BY <2>1, <2>2 DEF TypeOK
    <2>4. OwnPlaces'
      BY <2>1, <2>3 DEF IInv, OwnPlaces, KnownValue
    <2>. QED
      BY <2>1, <2>4, ConstantsKept
  <1>3. CASE ~Malloc /\ ~BitCast
    <2>1. UNCHANGED <<job, tables, defs, denotes>>
      BY <1>3 DEF Encoding, FirstNondet, OtherNondet, Skip, StoreGlobal, StoreElement, StoreFails,
             BinaryOrCmp, BranchTrue, BranchFalse, BranchPastEnd, BranchFails, Phi, PhiFails, Gep,
             NoArray, Select, LoadOrExt, Unsupported, Begin, Abort, place, hist
    <2>. QED
      BY <2>1, NothingTouched
  <1>. QED
    BY <1>1, <1>2, <1>3

LEMMA StartInv ==
    ASSUME TypeOK',
           val2exprIdx' = [v \in Value |-> NotIn], label2Num' = {}, denotes' = {}
    PROVE  IInv'
  <1>1. \A v \in Value : ~KnownValue(v)'
    BY DEF KnownValue, NotIn
  <1>2. Labels'
    BY <1>1, FS_EmptySet DEF Labels
  <1>. QED
    BY <1>1, <1>2 DEF IInv, OwnPlaces, CurrentVersions, Meanings, NamedApart, FirstUnnamed

LEMMA EndingInv ==
    ASSUME IInv, Ending
    PROVE  IInv'
  <1>. TypeOK /\ TypeOK'
    BY EndingType DEF IInv
  <1>2. CASE InductionNext \/ Unsat
    BY <1>2, StartInv DEF InductionNext, Unsat, StartQuery
  <1>3. CASE EndInstruction \/ EndBlock \/ EncodingDone \/ Answered \/ Unknown \/ Ended
    BY <1>3, NothingTouched
       DEF EndInstruction, EndBlock, EncodingDone, Answered, Unknown, Ended, Abort, vars, place, hist
  <1>. QED
    BY <1>2, <1>3 DEF Ending

------------------------------------------------------------------------------
(****************************************************************************)
(* The lookups keep the invariant.  A value that is known has its key, so   *)
(* the keys only grow when a value is new; and what was a version stays one *)
(* when there are more keys.                                                *)
(****************************************************************************)
LEMMA LabelsKept ==
    ASSUME IInv, todo # << >>, Known
    PROVE  Labelled = label2Num
  <1>1. Wanted \in Value
    BY WantedType DEF IInv
  <1>2. NoName(Wanted) => Wanted \in label2Num
    BY <1>1 DEF IInv, Labels, KnownValue, Known
  <1>. QED
    BY <1>2 DEF Labelled, NoName

LEMMA LabelsGrow ==
    ASSUME IInv, todo # << >>, ~Known
    PROVE  /\ IsFiniteSet(Labelled)
           /\ NoName(Wanted) => Cardinality(Labelled) = Cardinality(label2Num) + 1
           /\ ~NoName(Wanted) => Labelled = label2Num
           /\ Cardinality(label2Num) \in Nat /\ Cardinality(Labelled) \in Nat
           /\ Cardinality(label2Num) <= Cardinality(Labelled)
  <1>1. Wanted \in Value
    BY WantedType DEF IInv
  <1>2. Wanted \notin label2Num
    BY <1>1 DEF IInv, Labels, KnownValue, Known
  <1>3. IsFiniteSet(label2Num) /\ Cardinality(label2Num) \in Nat
    BY FS_CardinalityType DEF IInv, Labels
  <1>4. /\ IsFiniteSet(label2Num \cup {Wanted})
        /\ Cardinality(label2Num \cup {Wanted}) = Cardinality(label2Num) + 1
    BY <1>2, <1>3, FS_AddElement
  <1>5. NoName(Wanted) => Labelled = label2Num \cup {Wanted}
    BY DEF Labelled, NoName
  <1>6. ~NoName(Wanted) => Labelled = label2Num
    BY DEF Labelled, NoName
  <1>7. CASE NoName(Wanted)
    <2>1. Labelled = label2Num \cup {Wanted}
      BY <1>5, <1>7
    <2>2. IsFiniteSet(Labelled) /\ Cardinality(Labelled) = Cardinality(label2Num) + 1
      BY <1>4, <2>1
    <2>. QED
      BY <1>3, <1>7, <2>2
  <1>8. CASE ~NoName(Wanted)
    BY <1>3, <1>6, <1>8
  <1>. QED
    BY <1>7, <1>8

LEMMA StaysVersion ==
    ASSUME UNCHANGED job, NEW c, NEW v, NEW n, IsVersion(c, v, n),
           Cardinality(label2Num) \in Nat, Cardinality(label2Num') \in Nat,
           Cardinality(label2Num) <= Cardinality(label2Num')
    PROVE  IsVersion(c, v, n)'
  <1>1. 1..Cardinality(label2Num) \subseteq 1..Cardinality(label2Num')
    OBVIOUS
  <1>. QED
    BY <1>1 DEF IsVersion, NoName

(****************************************************************************)
(* A use of a known value adds one denotation, of the constant it has.      *)
(****************************************************************************)
LEMMA GetKnownInv ==
    ASSUME IInv, TypeOK', GetKnown
    PROVE  IInv'
  <1>. DEFINE m == Meaning(ConstOf(Wanted))
  <1>1. /\ todo # << >> /\ Known /\ ~Head(todo).refresh
        /\ UNCHANGED <<job, exprs, val2exprIdx, val2ArrayIdx, defs>>
        /\ denotes' = denotes \cup {m}
        /\ label2Num' = Labelled
    BY DEF GetKnown, Looking, Found, ConstOf, place
  <1>2. label2Num' = label2Num
    BY <1>1, LabelsKept
  <1>3. /\ Wanted \in Value /\ KnownValue(Wanted)
        /\ defs[Wanted] \in Nat /\ val2exprIdx[Wanted].times \in Nat
    BY <1>1, WantedType, IndexTypes DEF IInv, Known, KnownValue
  <1>4. /\ m.val = Wanted /\ m.const = ConstOf(Wanted)
        /\ m.inst = before[Wanted] /\ (~m.late => before[Wanted] = defs[Wanted])
    BY <1>1 DEF Meaning
  <1>. HIDE DEF m
  <1>5. Counted(m) => /\ IsVersion(m.const, m.val, m.inst - Offset(m.val))
                      /\ m.const.times = val2exprIdx[Wanted].times
    <2>. SUFFICES ASSUME Counted(m)
                  PROVE  /\ IsVersion(m.const, m.val, m.inst - Offset(m.val))
                         /\ m.const.times = val2exprIdx[Wanted].times
      OBVIOUS
    <2>1. IsVersion(ConstOf(Wanted), Wanted, val2exprIdx[Wanted].times)
      BY <1>3, <1>4 DEF IInv, CurrentVersions, Counted
    <2>2. m.inst - Offset(m.val) = val2exprIdx[Wanted].times
      BY <1>3, <1>4 DEF Counted, Offset
    <2>. QED
      BY <1>4, <2>1, <2>2 DEF IsVersion
  <1>6. /\ \A v : (KnownValue(v)' <=> KnownValue(v)) /\ (NoName(v)' <=> NoName(v))
        /\ \A v : (Followed(v)' <=> Followed(v)) /\ Offset(v)' = Offset(v)
        /\ \A v : ConstOf(v)' = ConstOf(v)
        /\ \A c, v, n : IsVersion(c, v, n)' <=> IsVersion(c, v, n)
    BY <1>1, <1>2 DEF KnownValue, NoName, Followed, Kind, Offset, ConstOf, IsVersion
  <1>7. Labels' /\ OwnPlaces' /\ CurrentVersions'
    BY <1>1, <1>2, <1>6 DEF IInv, Labels, OwnPlaces, CurrentVersions
  <1>8. Meanings'
    BY <1>1, <1>3, <1>4, <1>5, <1>6 DEF IInv, Meanings, Counted
  <1>9. /\ \A d : MeansUnnamed(d)' <=> MeansUnnamed(d)
        /\ \A v : FirstUnnamed(v)' <=> FirstUnnamed(v)
    BY <1>1, <1>6 DEF MeansUnnamed, FirstUnnamed, Counted
  <1>10. MeansUnnamed(m) => FirstUnnamed(Wanted)
    BY <1>3, <1>4, <1>5 DEF MeansUnnamed, FirstUnnamed, Counted
  <1>11. NamedApart'
    BY <1>1, <1>3, <1>4, <1>6, <1>9, <1>10 DEF IInv, NamedApart
  <1>. QED
    BY <1>7, <1>8, <1>11 DEF IInv

(****************************************************************************)
(* The first constant of a value: its place is new, and so is the number in *)
(* its name if the value has none.                                          *)
(****************************************************************************)
LEMMA FirstVersionInv ==
    ASSUME IInv, TypeOK', todo # << >>, NEW kinds, FirstVersion(kinds)
    PROVE  IInv'
  <1>w. PICK W : W = Wanted
    OBVIOUS
  <1>c. PICK c : c = [name |-> ValueName, times |-> 0]
    OBVIOUS
  <1>m. PICK m : m = Meaning(c)
    OBVIOUS
  <1>1. /\ ~Known
        /\ UNCHANGED <<job, val2ArrayIdx>>
        /\ exprs' = Append(exprs, c)
        /\ val2exprIdx' = [val2exprIdx EXCEPT ![W] = [index |-> Len(exprs) + 1, times |-> 0]]
        /\ denotes' = denotes \cup {m}
        /\ label2Num' = Labelled
        /\ defs' = IF Head(todo).refresh THEN [defs EXCEPT ![W] = defs[W] + 1] ELSE defs
    BY <1>w, <1>c, <1>m DEF FirstVersion, Found, place
  <1>2. W \in Value /\ ~KnownValue(W) /\ defs[W] \in Nat
    BY <1>w, <1>1, WantedType, IndexTypes DEF IInv, Known, KnownValue
  <1>3. /\ c.times = 0
        /\ ~NoName(W) => c.name = <<job.val[W].name, 0>>
        /\ NoName(W) => c.name = <<"%", Cardinality(label2Num) + 1>>
    BY <1>w, <1>c DEF ValueName, NoName
  <1>4. /\ m.val = W /\ m.const = c
        /\ ~m.late => m.inst = defs'[W]
    BY <1>w, <1>m, <1>1, <1>2 DEF Meaning, IInv, TypeOK
  <1>5. /\ val2exprIdx'[W].index = Len(exprs) + 1 /\ val2exprIdx'[W].times = 0
        /\ exprs'[Len(exprs) + 1] = c
        /\ \A v \in Value : v # W => val2exprIdx'[v] = val2exprIdx[v] /\ defs'[v] = defs[v]
        /\ \A v \in Value : val2exprIdx[v].index \in 0..Len(exprs) /\ val2ArrayIdx[v] \in 0..Len(exprs)
        /\ Len(exprs) \in Nat
    BY <1>1, <1>2, SMTT(30) DEF IInv, TypeOK
  <1>6. \A n \in 1..Len(exprs) : exprs'[n] = exprs[n]
    BY <1>1 DEF IInv, TypeOK
  <1>7. /\ \A v \in Value : v # W => (KnownValue(v)' <=> KnownValue(v)) /\ Offset(v)' = Offset(v)
        /\ \A v \in Value : v # W /\ KnownValue(v) => ConstOf(v)' = ConstOf(v)
        /\ KnownValue(W)' /\ ConstOf(W)' = c
        /\ \A v : (NoName(v)' <=> NoName(v)) /\ (Followed(v)' <=> Followed(v))
    <2>1. \A v \in Value : v # W => (KnownValue(v)' <=> KnownValue(v)) /\ Offset(v)' = Offset(v)
      BY <1>5 DEF KnownValue, Offset
    <2>2. \A v \in Value : v # W /\ KnownValue(v) => ConstOf(v)' = ConstOf(v)
      <3>1. \A v \in Value : KnownValue(v) => val2exprIdx[v].index \in 1..Len(exprs)
        BY <1>5 DEF KnownValue
      <3>. QED
        BY <1>5, <1>6, <3>1 DEF ConstOf
    <2>3. KnownValue(W)' /\ ConstOf(W)' = c
      BY <1>5 DEF KnownValue, ConstOf
    <2>4. \A v : (NoName(v)' <=> NoName(v)) /\ (Followed(v)' <=> Followed(v))
      BY <1>1 DEF NoName, Followed, Kind
    <2>. QED
      BY <2>1, <2>2, <2>3, <2>4
  <1>8. /\ IsFiniteSet(label2Num')
        /\ Cardinality(label2Num) \in Nat /\ Cardinality(label2Num') \in Nat
        /\ Cardinality(label2Num) <= Cardinality(label2Num')
        /\ NoName(W) => Cardinality(label2Num) + 1 <= Cardinality(label2Num')
    BY <1>w, <1>1, LabelsGrow
  <1>9. \A x, v, n : IsVersion(x, v, n) => IsVersion(x, v, n)'
    BY <1>1, <1>8, StaysVersion
  <1>10. IsVersion(c, W, 0)'
    BY <1>3, <1>7, <1>8, <1>1 DEF IsVersion
  <1>11. Labels'
    <2>1. label2Num' = IF NoName(W) THEN label2Num \cup {W} ELSE label2Num
      BY <1>w, <1>1 DEF Labelled, NoName
    <2>2. \A v \in Value : v \in label2Num' <=> KnownValue(v)' /\ NoName(v)'
      BY <1>2, <1>7, <2>1 DEF IInv, Labels
    <2>. QED
      BY <1>8, <2>2 DEF Labels
  <1>12. OwnPlaces'
    BY <1>1, <1>5, <1>7 DEF IInv, OwnPlaces, KnownValue
  <1>13. CurrentVersions'
    BY <1>2, <1>5, <1>7, <1>9, <1>10 DEF IInv, CurrentVersions
  <1>14. \A d : Counted(d)' <=> Counted(d)
    BY <1>7 DEF Counted
  <1>15. \A d \in denotes : Counted(d) => d.val \in Value /\ d.val # W /\ KnownValue(d.val)
    BY <1>2 DEF IInv, Meanings, TypeOK, Denotation
  <1>16. Meanings'
    <2>1. \A d \in denotes : Counted(d) => (KnownValue(d.val) /\ IsVersion(d.const, d.val, d.inst - Offset(d.val)))'
      BY <1>7, <1>9, <1>15 DEF IInv, Meanings
    <2>2. Counted(m) => (KnownValue(m.val) /\ IsVersion(m.const, m.val, m.inst - Offset(m.val)))'
      <3>1. defs'[W] \in Nat
        BY <1>2 DEF TypeOK
      <3>2. ~m.late => m.inst - Offset(W)' = 0
        BY <1>4, <1>5, <3>1 DEF Offset
      <3>. QED
        BY <1>4, <1>7, <1>10, <3>2 DEF Counted
    <2>. QED
      BY <1>1, <1>14, <2>1, <2>2 DEF Meanings
  <1>17. NamedApart'
    <2>1. \A v \in Value : v # W => (FirstUnnamed(v)' <=> FirstUnnamed(v))
      BY <1>5, <1>7 DEF FirstUnnamed
    <2>2. \A d : MeansUnnamed(d)' <=> MeansUnnamed(d)
      BY <1>7, <1>14 DEF MeansUnnamed
    <2>3. \A v \in Value : FirstUnnamed(v) /\ NoName(W) => ConstOf(v).name # c.name
      <3>. TAKE v \in Value
      <3>. HAVE FirstUnnamed(v) /\ NoName(W)
      <3>1. PICK n \in 1..Cardinality(label2Num) : ConstOf(v).name = <<"%", n>>
        BY DEF FirstUnnamed, IInv, CurrentVersions, IsVersion
      <3>. QED
        BY <1>3, <1>8, <3>1
    <2>4. \A d \in denotes : MeansUnnamed(d) /\ NoName(W) => d.const.name # c.name
      <3>. TAKE d \in denotes
      <3>. HAVE MeansUnnamed(d) /\ NoName(W)
      <3>1. IsVersion(d.const, d.val, d.inst - Offset(d.val)) /\ d.inst - Offset(d.val) = 0
        BY DEF MeansUnnamed, IInv, Meanings, IsVersion
      <3>2. PICK n \in 1..Cardinality(label2Num) : d.const.name = <<"%", n>>
        BY <3>1 DEF MeansUnnamed, IsVersion
      <3>. QED
        BY <1>3, <1>8, <3>2
    <2>5. \A v \in Value : FirstUnnamed(v)' => NoName(v) /\ (v # W => FirstUnnamed(v) /\ KnownValue(v))
      BY <1>7, <2>1 DEF FirstUnnamed
    <2>6. \A d \in denotes : MeansUnnamed(d) => d.val # W /\ NoName(d.val)
      BY <1>15 DEF MeansUnnamed
    <2>7. MeansUnnamed(m) => NoName(W)
      BY <1>4 DEF MeansUnnamed
    <2>8. \A v, w \in Value :
            FirstUnnamed(v)' /\ FirstUnnamed(w)' /\ ConstOf(v)'.name = ConstOf(w)'.name => v = w
      BY <1>7, <2>3, <2>5 DEF IInv, NamedApart
    <2>9. \A d \in denotes', v \in Value :
            MeansUnnamed(d) /\ FirstUnnamed(v)' => (d.const.name = ConstOf(v)'.name <=> d.val = v)
      BY <1>1, <1>4, <1>7, <2>3, <2>4, <2>5, <2>6, <2>7 DEF IInv, NamedApart
    <2>10. \A d, e \in denotes' :
            MeansUnnamed(d) /\ MeansUnnamed(e) => (d.const.name = e.const.name <=> d.val = e.val)
      BY <1>1, <1>4, <2>4, <2>6, <2>7 DEF IInv, NamedApart
    <2>. QED
      BY <2>2, <2>8, <2>9, <2>10 DEF NamedApart
  <1>. QED
    BY <1>11, <1>12, <1>13, <1>16, <1>17 DEF IInv

(****************************************************************************)
(* The next version of a known value replaces the constant at its place,    *)
(* and both its version and the number of its definitions go up by one.     *)
(****************************************************************************)
LEMMA RefreshKnownInv ==
    ASSUME IInv, TypeOK', RefreshKnown
    PROVE  IInv'
  <1>w. PICK W : W = Wanted
    OBVIOUS
  <1>c. PICK c : c = NextVersion
    OBVIOUS
  <1>m. PICK m : m = Meaning(c)
    OBVIOUS
  <1>1. /\ todo # << >> /\ Known /\ Head(todo).refresh
        /\ UNCHANGED <<job, val2ArrayIdx>>
        /\ exprs' = [exprs EXCEPT ![val2exprIdx[W].index] = c]
        /\ val2exprIdx' = [val2exprIdx EXCEPT ![W].times = val2exprIdx[W].times + 1]
        /\ denotes' = denotes \cup {m}
        /\ label2Num' = Labelled
        /\ defs' = [defs EXCEPT ![W] = defs[W] + 1]
    BY <1>w, <1>c, <1>m DEF RefreshKnown, Looking, Found, place
  <1>2. /\ W \in Value /\ KnownValue(W) /\ defs[W] \in Nat /\ val2exprIdx[W].times \in Nat
        /\ val2exprIdx[W].index \in 1..Len(exprs)
    BY <1>w, <1>1, WantedType, IndexTypes DEF IInv, Known, KnownValue
  <1>3. /\ c.times = val2exprIdx[W].times + 1
        /\ ~NoName(W) => c.name = <<job.val[W].name, 0>>
    BY <1>w, <1>c DEF NextVersion, ValueName, NoName
  <1>4. m.val = W /\ m.const = c /\ m.inst = defs[W] + 1
    BY <1>w, <1>m, <1>1 DEF Meaning
  <1>5. label2Num' = label2Num
    BY <1>1, LabelsKept
  <1>6. /\ val2exprIdx'[W].index = val2exprIdx[W].index
        /\ val2exprIdx'[W].times = val2exprIdx[W].times + 1
        /\ defs'[W] = defs[W] + 1
        /\ \A v \in Value : v # W => val2exprIdx'[v] = val2exprIdx[v] /\ defs'[v] = defs[v]
    BY <1>1, <1>2 DEF IInv, TypeOK
  <1>7. \A v \in Value : val2exprIdx'[v].index = val2exprIdx[v].index
    BY <1>6
  <1>8. \A v \in Value : Offset(v)' = Offset(v)
    <2>1. Offset(W)' = Offset(W)
      BY <1>2, <1>6 DEF Offset
    <2>2. \A v \in Value : v # W => Offset(v)' = Offset(v)
      BY <1>6 DEF Offset
    <2>. QED
      BY <2>1, <2>2
  <1>9. /\ \A v \in Value : (KnownValue(v)' <=> KnownValue(v))
        /\ \A v : (NoName(v)' <=> NoName(v)) /\ (Followed(v)' <=> Followed(v))
        /\ \A x, v, n : IsVersion(x, v, n)' <=> IsVersion(x, v, n)
    BY <1>1, <1>5, <1>7 DEF KnownValue, NoName, Followed, Kind, IsVersion
  <1>10. /\ \A v \in Value : KnownValue(v) /\ v # W => ConstOf(v)' = ConstOf(v)
         /\ ConstOf(W)' = c
    <2>1. exprs'[val2exprIdx[W].index] = c
      BY <1>1, <1>2, SMTT(30) DEF IInv, TypeOK
    <2>2. \A n : n # val2exprIdx[W].index => exprs'[n] = exprs[n]
      BY <1>1 DEF IInv, TypeOK
    <2>3. \A v \in Value : KnownValue(v) /\ v # W => val2exprIdx[v].index # val2exprIdx[W].index
      BY <1>2 DEF IInv, OwnPlaces
    <2>. QED
      BY <1>2, <1>7, <2>1, <2>2, <2>3 DEF ConstOf
  <1>11. IsVersion(c, W, val2exprIdx[W].times + 1)
    BY <1>2, <1>3 DEF IsVersion
  <1>12. Labels' /\ OwnPlaces'
    BY <1>1, <1>5, <1>7, <1>9 DEF IInv, Labels, OwnPlaces
  <1>13. CurrentVersions'
    BY <1>6, <1>9, <1>10, <1>11 DEF IInv, CurrentVersions
  <1>14. \A d : Counted(d)' <=> Counted(d)
    BY <1>9 DEF Counted
  <1>15. Meanings'
    <2>1. \A d \in denotes : Counted(d) => (KnownValue(d.val) /\ IsVersion(d.const, d.val, d.inst - Offset(d.val)))'
      BY <1>8, <1>9 DEF IInv, Meanings, TypeOK, Denotation
    <2>2. (KnownValue(m.val) /\ IsVersion(m.const, m.val, m.inst - Offset(m.val)))'
      <3>1. m.inst - Offset(W) = val2exprIdx[W].times + 1
        BY <1>2, <1>4 DEF Offset
      <3>. QED
        BY <1>2, <1>4, <1>8, <1>9, <1>11, <3>1
    <2>. QED
      BY <1>1, <1>14, <2>1, <2>2 DEF Meanings
  <1>16. NamedApart'
    <2>1. \A d : MeansUnnamed(d)' <=> MeansUnnamed(d)
      BY <1>9, <1>14 DEF MeansUnnamed
    <2>2. ~MeansUnnamed(m)
      BY <1>2, <1>3, <1>4 DEF MeansUnnamed
    <2>3. \A v \in Value : FirstUnnamed(v)' => v # W /\ FirstUnnamed(v) /\ ConstOf(v)' = ConstOf(v)
      BY <1>2, <1>6, <1>9, <1>10 DEF FirstUnnamed
    <2>. QED
      BY <1>1, <2>1, <2>2, <2>3 DEF IInv, NamedApart
  <1>. QED
    BY <1>12, <1>13, <1>15, <1>16 DEF IInv

(****************************************************************************)
(* A pointer's new constant is put behind all others and found by nobody.   *)
(****************************************************************************)
LEMMA RefreshPointerInv ==
    ASSUME IInv, TypeOK', RefreshPointer
    PROVE  IInv'
  <1>w. PICK W : W = Wanted
    OBVIOUS
  <1>m. PICK m : m = Meaning(exprs[val2exprIdx[W].index])
    OBVIOUS
  <1>1. /\ todo # << >> /\ Known /\ Kind(W) = "ptr"
        /\ UNCHANGED <<job, val2ArrayIdx>>
        /\ exprs' = Append(exprs, NextVersion)
        /\ val2exprIdx' = [val2exprIdx EXCEPT ![W].times = val2exprIdx[W].times + 1]
        /\ denotes' = denotes \cup {m}
        /\ label2Num' = Labelled
        /\ defs' = IF Head(todo).refresh THEN [defs EXCEPT ![W] = defs[W] + 1] ELSE defs
    BY <1>w, <1>m DEF RefreshPointer, Looking, Found, place
  <1>2. W \in Value /\ ~Followed(W)
    BY <1>w, <1>1, WantedType DEF IInv, Followed
  <1>3. m.val = W
    BY <1>w, <1>m DEF Meaning
  <1>4. label2Num' = label2Num
    BY <1>1, LabelsKept
  <1>5. /\ \A v \in Value : val2exprIdx'[v].index = val2exprIdx[v].index
        /\ \A v \in Value : v # W => val2exprIdx'[v].times = val2exprIdx[v].times /\ defs'[v] = defs[v]
    BY <1>1, <1>2 DEF IInv, TypeOK
  <1>6. /\ \A v \in Value : (KnownValue(v)' <=> KnownValue(v))
        /\ \A v : (NoName(v)' <=> NoName(v)) /\ (Followed(v)' <=> Followed(v))
        /\ \A x, v, n : IsVersion(x, v, n)' <=> IsVersion(x, v, n)
        /\ \A v \in Value : v # W => Offset(v)' = Offset(v)
    BY <1>1, <1>4, <1>5 DEF KnownValue, NoName, Followed, Kind, IsVersion, Offset
  <1>7. \A v \in Value : KnownValue(v) => ConstOf(v)' = ConstOf(v)
    <2>1. \A v \in Value : KnownValue(v) => val2exprIdx[v].index \in 1..Len(exprs)
      BY IndexTypes DEF IInv, KnownValue
    <2>2. \A n \in 1..Len(exprs) : exprs'[n] = exprs[n]
      BY <1>1 DEF IInv, TypeOK
    <2>. QED
      BY <1>5, <2>1, <2>2 DEF ConstOf
  <1>8. Labels' /\ OwnPlaces'
    BY <1>1, <1>4, <1>5, <1>6 DEF IInv, Labels, OwnPlaces
  <1>9. CurrentVersions'
    BY <1>2, <1>5, <1>6, <1>7 DEF IInv, CurrentVersions
  <1>10. /\ \A d : Counted(d)' <=> Counted(d)
         /\ ~Counted(m)
         /\ \A d \in denotes : Counted(d) => d.val \in Value /\ d.val # W
    BY <1>2, <1>3, <1>6 DEF Counted, IInv, TypeOK, Denotation
  <1>11. Meanings'
    BY <1>1, <1>6, <1>10 DEF IInv, Meanings
  <1>12. NamedApart'
    <2>1. /\ \A d : MeansUnnamed(d)' <=> MeansUnnamed(d)
          /\ ~MeansUnnamed(m)
      BY <1>6, <1>10 DEF MeansUnnamed
    <2>2. \A v \in Value : FirstUnnamed(v)' => FirstUnnamed(v) /\ ConstOf(v)' = ConstOf(v)
      BY <1>2, <1>5, <1>6, <1>7 DEF FirstUnnamed
    <2>. QED
      BY <1>1, <2>1, <2>2 DEF IInv, NamedApart
  <1>. QED
    BY <1>8, <1>9, <1>11, <1>12 DEF IInv

LEMMA LookupInv ==
    ASSUME IInv, Lookup
    PROVE  IInv'
  <1>1. TypeOK'
    BY LookupType DEF IInv, Labels
  <1>2. CASE GetKnown
    BY <1>1, <1>2, GetKnownInv
  <1>3. CASE GetNew \/ RefreshNew
    BY <1>1, <1>3, FirstVersionInv DEF GetNew, RefreshNew, Looking
  <1>4. CASE RefreshKnown
    BY <1>1, <1>4, RefreshKnownInv
  <1>5. CASE RefreshPointer
    BY <1>1, <1>5, RefreshPointerInv
  <1>6. CASE LookupFails \/ RefreshGlobalFails
    BY <1>1, <1>6, NothingTouched DEF LookupFails, RefreshGlobalFails, Abort, place, hist
  <1>. QED
    BY <1>2, <1>3, <1>4, <1>5, <1>6 DEF Lookup

------------------------------------------------------------------------------
LEMMA InitInv ==
    ASSUME Init
    PROVE  IInv
  <1>1. job \in Job /\ job.queries # << >>
    BY JobsAssumption DEF Init
  <1>2. q \in DOMAIN job.queries
    BY <1>1 DEF Init, Job
  <1>3. exprs \in Seq(Const) /\ Len(exprs) = 0
    BY DEF Init
  <1>4. NotIn \in [index : 0..Len(exprs), times : Nat]
    BY <1>3 DEF NotIn
  <1>5. /\ val2exprIdx \in [Value -> [index : 0..Len(exprs), times : Nat]]
        /\ val2ArrayIdx \in [Value -> 0..Len(exprs)]
    BY <1>3, <1>4 DEF Init
  <1>6. TypeOK
    BY <1>2, <1>3, <1>5 DEF Init, TypeOK
  <1>7. \A v \in Value : ~KnownValue(v)
    BY DEF Init, KnownValue, NotIn
  <1>8. Labels
    BY <1>7, FS_EmptySet DEF Init, Labels
  <1>. QED
    BY <1>6, <1>7, <1>8 DEF Init, IInv, OwnPlaces, CurrentVersions, Meanings, NamedApart, FirstUnnamed

LEMMA NextInv ==
    ASSUME IInv, [Next]_vars
    PROVE  IInv'
  <1>1. CASE Next
    BY <1>1, EncodingInv, LookupInv, EndingInv DEF Next, Ending
  <1>2. CASE UNCHANGED vars
    <2>1. TypeOK'
      BY <1>2 DEF IInv, TypeOK, vars, place, tables, hist
    <2>. QED
      BY <1>2, <2>1, NothingTouched DEF IInv, vars, place, hist
  <1>. QED
    BY <1>1, <1>2

(****************************************************************************)
(* The invariant holds of every run, whatever the programs and walks are.   *)
(****************************************************************************)
THEOREM Invariance == Spec => []IInv
  BY InitInv, NextInv, PTL DEF Spec

(****************************************************************************)
(* The tables of the encoding fit together: what the maps hold are places   *)
(* in exprs, in the second encoding of the inductive step as well.          *)
(****************************************************************************)
THEOREM TypeCorrect == Spec => []TypeOK
  <1>1. IInv => TypeOK
    BY DEF IInv
  <1>. QED
    BY <1>1, Invariance, PTL

(****************************************************************************)
(* In one query a constant stands for one definition of one value.          *)
(****************************************************************************)
THEOREM OneConstantOneMeaning == Spec => []OneMeaning
  BY InvMeansOne, Invariance, PTL

------------------------------------------------------------------------------
(****************************************************************************)
(* The invariant behind NondetPinned and PathConditions.  Passed are the    *)
(* places of the walk before the one in hand.                               *)
(****************************************************************************)
Here == <<i, j>>
Passed == {p \in Places : Earlier(p, Here)}
Begun == IF pc = "lookup" THEN Passed \cup {Here} ELSE Passed
PassedOf(v) == {p \in Passed : InstrAt(p).res = v}

OnTheWay ==
    /\ pc = "lookup" => i <= Len(nodes) /\ j <= Len(Instrs(nodes[i]))
    /\ pc = "check" => i > Len(nodes)

(****************************************************************************)
(* The flag is up until a base case meets a nondet value.                   *)
(****************************************************************************)
FlagTells ==
    isFirstNondet <=> mode = "inductive" \/ \A p \in Begun : InstrAt(p).op # "nondet"

(****************************************************************************)
(* A value that only instructions define which refresh it has been defined  *)
(* as often as they were passed, the one in hand included once its refresh  *)
(* is not among the lookups any more.                                       *)
(****************************************************************************)
Refreshing == {"nondet", "binary", "cmp", "phi", "gep", "select", "load", "ext"}

Countable(v) ==
    /\ Kind(v) # "global"
    /\ \A b \in DOMAIN job.blocks : \A l \in Lines(job, b) :
          InstrOf(job, b, l).res = v => InstrOf(job, b, l).op \in Refreshing \cup {"other"}

RefreshLeft == \E n \in DOMAIN todo : todo[n].refresh

OneRefresh(lookups) ==
    \A n \in DOMAIN lookups : lookups[n].refresh =>
        /\ \A m \in DOMAIN lookups : lookups[m].refresh => m = n
        /\ \A v \in Value : Countable(v) => (lookups[n].val = v <=> Current.res = v)

CountsRight ==
    /\ IsFiniteSet(Passed)
    /\ \A v \in Value : Countable(v) =>
          defs[v] = Cardinality(PassedOf(v))
                    + IF pc = "lookup" /\ Current.res = v /\ ~RefreshLeft THEN 1 ELSE 0
    /\ pc = "lookup" => OneRefresh(todo)

(****************************************************************************)
(* What is said of the instruction at p is right.                           *)
(****************************************************************************)
SaidBase(p) == mode = "base" /\ p \in FirstNondets

Right(p, kind, val) ==
    /\ kind = "pin" <=> SaidBase(p)
    /\ kind = "pin" => val = q
    /\ kind = "branch" <=> InstrAt(p).op = "br"
    /\ kind = "branch" /\ p[1] < Len(nodes) /\ NamedTargets(InstrAt(p)) =>
          InstrAt(p).bbs[IF val = 1 THEN 1 ELSE 2] = nodes[p[1]+1]

RightTerms(p, kind, cs) ==
    /\ kind = "pin" => cs \subseteq ConstantsOf(InstrAt(p).res, 1)
    /\ kind = "branch" =>
          cs \subseteq ConstantsOf(InstrAt(p).args[1], Executions(InstrAt(p).args[1], p[1]))

InHand ==
    pc = "lookup" =>
        /\ Current.op # "other"
        /\ Right(Here, asserts.kind, asserts.val)
        /\ asserts.kind \in {"pin", "branch"} =>
              \/ /\ terms = {}
                 /\ asserts.kind = "pin" => todo = <<Refresh(Current.res)>>
                 /\ asserts.kind = "branch" => todo = <<Get(Current.args[1])>> /\ before = defs
              \/ todo = << >> /\ RightTerms(Here, asserts.kind, terms)

ProblemType ==
    [pos : Nat \X Nat, kind : {"nothing", "pin", "equation", "branch"}, val : Nat, terms : SUBSET Const]

Said ==
    /\ problems \in Seq(ProblemType)
    /\ \A n \in DOMAIN problems :
          /\ problems[n].pos \in Passed
          /\ Right(problems[n].pos, problems[n].kind, problems[n].val)
          /\ RightTerms(problems[n].pos, problems[n].kind, problems[n].terms)
    /\ \A n, m \in DOMAIN problems : problems[n].pos = problems[m].pos => n = m
    /\ \A p \in Passed :
          /\ InstrAt(p).op # "other"
          /\ InstrAt(p).op = "br" \/ SaidBase(p) => \E n \in DOMAIN problems : problems[n].pos = p

WalkInv ==
    pc \in {"next", "lookup", "check"} =>
        OnTheWay /\ FlagTells /\ CountsRight /\ InHand /\ Said

(****************************************************************************)
(* The places of the walk and the instructions there.                       *)
(****************************************************************************)
LEMMA AtPlace ==
    ASSUME TypeOK, NEW p \in Places
    PROVE  /\ p = <<p[1], p[2]>> /\ p[1] \in Nat /\ p[2] \in Nat
           /\ p[1] \in 1..Len(nodes) /\ p[2] \in 1..Len(Instrs(nodes[p[1]]))
           /\ nodes[p[1]] \in DOMAIN job.blocks
           /\ p[2] \in Lines(job, nodes[p[1]])
           /\ InstrAt(p) = InstrOf(job, nodes[p[1]], p[2])
           /\ InstrAt(p) \in Instruction /\ Arity(InstrAt(p))
  <1>0. PICK n \in DOMAIN nodes : p \in {<<n, l>> : l \in DOMAIN Instrs(nodes[n])}
    BY DEF Places
  <1>1. PICK l \in DOMAIN Instrs(nodes[n]) : p = <<n, l>>
    BY <1>0
  <1>2. nodes[n] \in DOMAIN job.blocks /\ n \in 1..Len(nodes)
    BY JobParts
  <1>3. job.blocks[nodes[n]] \in Block
    BY <1>2, JobParts
  <1>4. Instrs(nodes[n]) \in Seq({ins \in Instruction : Arity(ins)})
    BY <1>3 DEF Block, Instrs
  <1>5. l \in 1..Len(Instrs(nodes[n])) /\ Instrs(nodes[n])[l] \in {ins \in Instruction : Arity(ins)}
    BY <1>4
  <1>6. Instrs(nodes[n])[l] = InstrOf(job, nodes[n], l) /\ l \in Lines(job, nodes[n])
    BY DEF Instrs, InstrOf, Lines
  <1>. QED
    BY <1>1, <1>2, <1>5, <1>6, JobParts DEF InstrAt

LEMMA HereIsAPlace ==
    ASSUME TypeOK, i <= Len(nodes), j <= Len(Instrs(nodes[i]))
    PROVE  /\ Here \in Places /\ Here \notin Passed
           /\ InstrAt(Here) = Current
           /\ Here[1] = i /\ Here[2] = j
  <1>1. i \in DOMAIN nodes
    BY JobParts DEF TypeOK
  <1>2. job.blocks[nodes[i]] \in Block
    BY <1>1, JobParts
  <1>3. Instrs(nodes[i]) \in Seq({ins \in Instruction : Arity(ins)})
    BY <1>2 DEF Block, Instrs
  <1>4. j \in DOMAIN Instrs(nodes[i])
    BY <1>3 DEF TypeOK
  <1>5. Here \in Places
    BY <1>1, <1>4 DEF Places, Here
  <1>6. ~Earlier(Here, Here)
    BY DEF Earlier, Here, TypeOK
  <1>. QED
    BY <1>5, <1>6 DEF Passed, InstrAt, Current, Here

LEMMA SameWalk ==
    ASSUME UNCHANGED <<job, q>>
    PROVE  /\ nodes' = nodes /\ mode' = mode
           /\ Places' = Places
           /\ \A p : InstrAt(p)' = InstrAt(p)
           /\ FirstNondets' = FirstNondets
           /\ \A p : SaidBase(p)' <=> SaidBase(p)
           /\ \A p, kind, val : Right(p, kind, val)' <=> Right(p, kind, val)
           /\ \A v : Countable(v)' <=> Countable(v)
           /\ \A v, n : Executions(v, n)' = Executions(v, n)
  <1>1. nodes' = nodes /\ mode' = mode /\ \A n : Instrs(n)' = Instrs(n)
    BY DEF nodes, mode, Instrs
  <1>2. Places' = Places /\ \A p : InstrAt(p)' = InstrAt(p)
    BY <1>1 DEF Places, InstrAt
  <1>3. FirstNondets' = FirstNondets
    BY <1>2 DEF FirstNondets, NondetPlaces
  <1>4. \A p : SaidBase(p)' <=> SaidBase(p)
    BY <1>1, <1>3 DEF SaidBase
  <1>5. \A b : NamedTargets(b)' <=> NamedTargets(b)
    BY DEF NamedTargets, BlockName
  <1>6. \A p, kind, val : Right(p, kind, val)' <=> Right(p, kind, val)
    BY <1>1, <1>2, <1>4, <1>5 DEF Right
  <1>7. \A v : Countable(v)' <=> Countable(v)
    BY DEF Countable, Kind
  <1>8. \A v, n : Executions(v, n)' = Executions(v, n)
    BY <1>2 DEF Executions
  <1>. QED
    BY <1>1, <1>2, <1>3, <1>4, <1>6, <1>7, <1>8

(****************************************************************************)
(* What the terms of a problem mean stays meant while the query lasts.      *)
(****************************************************************************)
LEMMA TermsStayRight ==
    ASSUME UNCHANGED <<job, q>>, denotes \subseteq denotes',
           NEW p, NEW kind, NEW cs, RightTerms(p, kind, cs)
    PROVE  RightTerms(p, kind, cs)'
  <1>1. \A v, n : ConstantsOf(v, n) \subseteq ConstantsOf(v, n)'
    BY DEF ConstantsOf
  <1>. QED
    BY <1>1, SameWalk DEF RightTerms

(****************************************************************************)
(* The place in hand holds the first nondet value when it is one and none   *)
(* was passed; its result was then not defined before, since an             *)
(* instruction with this result is this one.                                *)
(****************************************************************************)
LEMMA FirstHere ==
    ASSUME TypeOK, i <= Len(nodes), j <= Len(Instrs(nodes[i]))
    PROVE  Here \in FirstNondets <=>
               Current.op = "nondet" /\ \A r \in Passed : InstrAt(r).op # "nondet"
  <1>1. Here \in Places /\ InstrAt(Here) = Current
    BY HereIsAPlace
  <1>. QED
    BY <1>1 DEF FirstNondets, NondetPlaces, Passed

LEMMA ResultCountable ==
    ASSUME TypeOK, i <= Len(nodes), j <= Len(Instrs(nodes[i])), Current.op = "nondet"
    PROVE  /\ Current.res \in Value /\ Countable(Current.res)
           /\ \A p \in Places : InstrAt(p).res = Current.res => InstrAt(p).op = "nondet"
  <1>. DEFINE b == nodes[i]
  <1>1. /\ b \in DOMAIN job.blocks /\ j \in Lines(job, b)
        /\ Current = InstrOf(job, b, j) /\ Current \in Instruction
    BY HereIsAPlace, AtPlace
  <1>2. ResultsDiffer(job)
    BY JobsAssumption DEF TypeOK
  <1>3. /\ job.val[Current.res].kind # "global"
        /\ \A c \in DOMAIN job.blocks : \A m \in Lines(job, c) :
              InstrOf(job, c, m).res = Current.res => c = b /\ m = j
    <2>1. /\ ~job.val[Current.res].isConstant
          /\ \A c \in DOMAIN job.blocks : \A m \in Lines(job, c) :
                InstrOf(job, c, m).res = Current.res => c = b /\ m = j
      BY <1>1, <1>2 DEF ResultsDiffer
    <2>2. job.val[Current.res] \in ValueInfo
      BY <1>1, JobParts DEF Instruction
    <2>. QED
      BY <2>1, <2>2 DEF ValueInfo
  <1>. HIDE DEF b
  <1>4. \A c \in DOMAIN job.blocks : \A m \in Lines(job, c) :
            InstrOf(job, c, m).res = Current.res => InstrOf(job, c, m).op = "nondet"
    BY <1>1, <1>3
  <1>5. \A p \in Places : InstrAt(p).res = Current.res => InstrAt(p).op = "nondet"
    BY <1>4, AtPlace
  <1>. QED
    BY <1>1, <1>3, <1>4, <1>5 DEF Countable, Kind, Refreshing, Instruction

(****************************************************************************)
(* A branch stands last in its block: what its block and those before it    *)
(* define was passed.                                                       *)
(****************************************************************************)
LEMMA BranchHere ==
    ASSUME TypeOK, i <= Len(nodes), j <= Len(Instrs(nodes[i])), Current.op = "br"
    PROVE  /\ Current.args[1] \in Value /\ Countable(Current.args[1])
           /\ Executions(Current.args[1], i) = Cardinality(PassedOf(Current.args[1]))
           /\ Len(Current.bbs) = 2
           /\ Current.bbs[1] \in DOMAIN job.blocks /\ Current.bbs[2] \in DOMAIN job.blocks
  <1>. DEFINE b == nodes[i]
              v == Current.args[1]
  <1>1. /\ b \in DOMAIN job.blocks /\ j \in Lines(job, b)
        /\ Current = InstrOf(job, b, j) /\ Current \in Instruction /\ Arity(Current)
    BY HereIsAPlace, AtPlace
  <1>2. ResultsDiffer(job) /\ BranchesEndBlocks(job)
    BY JobsAssumption DEF TypeOK
  <1>3. /\ j = Len(Instrs(b)) /\ Len(Current.bbs) = 2
        /\ Current.bbs[1] \in DOMAIN job.blocks /\ Current.bbs[2] \in DOMAIN job.blocks
        /\ job.val[v].kind \in {"int", "literal"}
        /\ \A c \in DOMAIN job.blocks : \A m \in Lines(job, c) :
              InstrOf(job, c, m).res = v => InstrOf(job, c, m).op \notin {"malloc", "bitcast"}
    BY <1>1, <1>2 DEF BranchesEndBlocks, Instrs
  <1>4. \A c \in DOMAIN job.blocks : \A m \in Lines(job, c) :
            InstrOf(job, c, m).op \in {"skip", "store", "br"} =>
                job.val[InstrOf(job, c, m).res].kind = "else"
    BY <1>2 DEF ResultsDiffer
  <1>5. v \in Value
    BY <1>1 DEF Arity, Instruction
  <1>. HIDE DEF v
  <1>6. \A c \in DOMAIN job.blocks : \A m \in Lines(job, c) : InstrOf(job, c, m) \in Instruction
    <2>. SUFFICES ASSUME NEW c \in DOMAIN job.blocks, NEW m \in Lines(job, c)
                  PROVE  InstrOf(job, c, m) \in Instruction
      OBVIOUS
    <2>1. job.blocks[c] \in Block
      BY JobParts
    <2>2. job.blocks[c].instrs \in Seq({ins \in Instruction : Arity(ins)})
      BY <2>1 DEF Block
    <2>3. job.blocks[c].instrs[m] \in {ins \in Instruction : Arity(ins)}
      BY <2>2 DEF Lines
    <2>. QED
      BY <2>3 DEF InstrOf
  <1>7. Countable(v)
    <2>1. \A c \in DOMAIN job.blocks : \A m \in Lines(job, c) :
              InstrOf(job, c, m).res = v =>
                  InstrOf(job, c, m).op \notin {"malloc", "bitcast", "skip", "store", "br"}
      BY <1>3, <1>4
    <2>2. \A c \in DOMAIN job.blocks : \A m \in Lines(job, c) :
              InstrOf(job, c, m).op \in Refreshing \cup {"other", "malloc", "bitcast", "skip", "store", "br"}
      BY <1>6 DEF Instruction, Refreshing
    <2>. QED
      BY <1>3, <2>1, <2>2 DEF Countable, Kind
  <1>8. \A p \in Places : (p[1] <= i /\ InstrAt(p).res = v) <=> (p \in Passed /\ InstrAt(p).res = v)
    <2>. TAKE p \in Places
    <2>1. p[1] \in Nat /\ p[2] \in Nat /\ p[2] <= Len(Instrs(nodes[p[1]])) /\ p = <<p[1], p[2]>>
      BY AtPlace
    <2>2. InstrAt(Here).res # v /\ InstrAt(Here) = Current
      BY <1>1, <1>3, <1>4, HereIsAPlace DEF b
    <2>3. p[1] = i /\ p[2] = j => p = Here
      BY <2>1 DEF Here
    <2>4. i \in Nat /\ j \in Nat
      BY DEF TypeOK
    <2>5. p[1] = i => p[2] <= j
      BY <1>3, <2>1 DEF b
    <2>6. Earlier(p, Here) <=> p[1] < i \/ (p[1] = i /\ p[2] < j)
      BY DEF Earlier, Here
    <2>. QED
      BY <2>1, <2>2, <2>3, <2>4, <2>5, <2>6 DEF Passed
  <1>9. {p \in Places : p[1] <= i /\ InstrAt(p).res = v} = PassedOf(v)
    BY <1>8 DEF PassedOf, Passed
  <1>. QED
    BY <1>3, <1>5, <1>7, <1>9 DEF Executions, v

LEMMA SamePlace ==
    ASSUME UNCHANGED place
    PROVE  /\ Here' = Here /\ Passed' = Passed /\ Current' = Current
           /\ \A v : PassedOf(v)' = PassedOf(v)
           /\ i' = i /\ j' = j /\ nodes' = nodes /\ Len(Instrs(nodes[i]))' = Len(Instrs(nodes[i]))
           /\ \A lookups : OneRefresh(lookups)' <=> OneRefresh(lookups)
  <1>1. UNCHANGED <<job, q, i, j>>
    BY DEF place
  <1>2. Here' = Here /\ Passed' = Passed /\ \A v : PassedOf(v)' = PassedOf(v)
    BY <1>1, SameWalk DEF Here, Passed, Earlier, PassedOf
  <1>3. Current' = Current /\ Len(Instrs(nodes[i]))' = Len(Instrs(nodes[i]))
    BY <1>1 DEF Current, Instrs, nodes
  <1>4. \A lookups : OneRefresh(lookups)' <=> OneRefresh(lookups)
    BY <1>1, <1>3, SameWalk DEF OneRefresh
  <1>. QED
    BY <1>1, <1>2, <1>3, <1>4, SameWalk

(****************************************************************************)
(* Problems and places left alone, what was said stays said.                *)
(****************************************************************************)
LEMMA SaidStays ==
    ASSUME Said, UNCHANGED <<place, problems>>, denotes \subseteq denotes'
    PROVE  Said'
  <1>1. UNCHANGED <<job, q>> /\ Passed' = Passed
    BY SamePlace DEF place
  <1>2. \A p, kind, cs : RightTerms(p, kind, cs) => RightTerms(p, kind, cs)'
    BY <1>1, TermsStayRight
  <1>. QED
    BY <1>1, <1>2, SameWalk DEF Said

(****************************************************************************)
(* An instruction is taken in hand.                                         *)
(****************************************************************************)
LEMMA BeginWalk ==
    ASSUME TypeOK, WalkInv, pc = "next",
           i <= Len(nodes), j <= Len(Instrs(nodes[i])), Current.op # "other",
           NEW lookups, NEW kind, NEW val, Begin(lookups, kind, val),
           isFirstNondet' <=> mode = "inductive" \/ (isFirstNondet /\ Current.op # "nondet"),
           OneRefresh(lookups),
           Countable(Current.res) => \E n \in DOMAIN lookups : lookups[n].refresh,
           Right(Here, kind, val),
           kind = "pin" => lookups = <<Refresh(Current.res)>>,
           kind = "branch" => lookups = <<Get(Current.args[1])>>
    PROVE  WalkInv'
  <1>1. /\ todo' = lookups /\ terms' = {} /\ asserts' = [kind |-> kind, val |-> val]
        /\ before' = ReadBefore /\ pc' = "lookup"
        /\ UNCHANGED <<place, problems, defs, denotes>>
    BY DEF Begin
  <1>2. UNCHANGED <<job, q, i, j>>
    BY <1>1 DEF place
  <1>3. OnTheWay /\ FlagTells /\ CountsRight /\ Said
    BY DEF WalkInv
  <1>4. OnTheWay'
    BY <1>1, SamePlace DEF OnTheWay
  <1>5. FlagTells'
    <2>1. Begun = Passed /\ Begun' = Passed \cup {Here}
      BY <1>1, SamePlace DEF Begun
    <2>2. InstrAt(Here) = Current
      BY HereIsAPlace
    <2>. QED
      BY <1>2, <1>3, <2>1, <2>2, SameWalk DEF FlagTells
  <1>6. CountsRight'
    <2>1. Countable(Current.res) => RefreshLeft'
      BY <1>1 DEF RefreshLeft
    <2>2. \A v \in Value : Countable(v) => defs[v] = Cardinality(PassedOf(v)) + 0
      BY <1>3 DEF CountsRight
    <2>3. \A v \in Value : Countable(v)' =>
            defs'[v] = Cardinality(PassedOf(v)')
                       + IF pc' = "lookup" /\ Current'.res = v /\ ~RefreshLeft' THEN 1 ELSE 0
      BY <1>1, <1>2, <2>1, <2>2, SameWalk, SamePlace
    <2>4. OneRefresh(todo)'
      <3>1. OneRefresh(lookups)'
        BY <1>1, SamePlace
      <3>. QED
        BY <1>1, <3>1 DEF OneRefresh
    <2>. QED
      BY <1>1, <1>3, <2>3, <2>4, SamePlace DEF CountsRight
  <1>7. InHand'
    <2>1. kind = "branch" => before' = defs
      <3>. SUFFICES ASSUME kind = "branch" PROVE before' = defs
        OBVIOUS
      <3>1. Current.op = "br"
        BY HereIsAPlace DEF Right
      <3>. QED
        BY <1>1, <3>1 DEF ReadBefore
    <2>2. asserts'.kind = kind /\ asserts'.val = val
      BY <1>1
    <2>3. Right(Here, kind, val)'
      BY <1>2, SameWalk, SamePlace DEF Here
    <2>. QED
      BY <1>1, <2>1, <2>2, <2>3, SamePlace DEF InHand
  <1>8. Said'
    BY <1>1, <1>3, SaidStays
  <1>. QED
    BY <1>4, <1>5, <1>6, <1>7, <1>8 DEF WalkInv

(****************************************************************************)
(* The lookups an instruction sets out hold one refresh, that of its        *)
(* result, unless its result is not counted.                                *)
(****************************************************************************)
LEMMA OneOfTwo ==
    ASSUME NEW a, NEW b, a.refresh, ~b.refresh, NEW lookups \in InAnyOrder(a, b),
           \A v \in Value : Countable(v) => (a.val = v <=> Current.res = v)
    PROVE  OneRefresh(lookups) /\ \E n \in DOMAIN lookups : lookups[n].refresh
  <1>1. CASE lookups = <<a, b>>
    BY <1>1 DEF OneRefresh
  <1>2. CASE lookups = <<b, a>>
    BY <1>2 DEF OneRefresh
  <1>. QED
    BY <1>1, <1>2 DEF InAnyOrder

LEMMA OneAlone ==
    ASSUME NEW v
    PROVE  /\ OneRefresh(<<Refresh(Current.res)>>)
           /\ \E n \in DOMAIN <<Refresh(Current.res)>> : <<Refresh(Current.res)>>[n].refresh
           /\ OneRefresh(<<Get(v)>>) /\ OneRefresh(<< >>)
  BY DEF OneRefresh, Refresh, Get

LEMMA NoRefresh ==
    ASSUME NEW u, NEW v, NEW lookups \in InAnyOrder(Get(u), Get(v))
    PROVE  OneRefresh(lookups)
  <1>1. CASE lookups = <<Get(u), Get(v)>>
    BY <1>1 DEF OneRefresh, Get
  <1>2. CASE lookups = <<Get(v), Get(u)>>
    BY <1>2 DEF OneRefresh, Get
  <1>. QED
    BY <1>1, <1>2 DEF InAnyOrder

(****************************************************************************)
(* Two sequences of one element put together.                               *)
(****************************************************************************)
LEMMA OneAfterOther ==
    ASSUME NEW x \in Looks, NEW y \in Looks
    PROVE  <<x>> \o <<y>> = <<x, y>>
  <1>1. <<x>> \in Seq(Looks) /\ <<y>> \in Seq(Looks) /\ <<x, y>> \in Seq(Looks)
    OBVIOUS
  <1>2. Len(<<x>> \o <<y>>) = Len(<<x, y>>)
    BY <1>1
  <1>3. \A n \in 1..Len(<<x, y>>) : (<<x>> \o <<y>>)[n] = <<x, y>>[n]
    BY <1>1
  <1>4. <<x>> \o <<y>> \in Seq(Looks)
    BY <1>1
  <1>. QED
    BY <1>1, <1>2, <1>3, <1>4, SeqEqual

(****************************************************************************)
(* Literals are not looked up: the operands in front add no refresh.        *)
(****************************************************************************)
LEMMA OperandsInFront ==
    ASSUME NEW u \in Value, NEW v \in Value, NEW lookups \in Seq(Looks), OneRefresh(lookups),
           \E n \in DOMAIN lookups : lookups[n].refresh
    PROVE  /\ OneRefresh(Operand(u) \o Operand(v) \o lookups)
           /\ \E n \in DOMAIN (Operand(u) \o Operand(v) \o lookups) :
                 (Operand(u) \o Operand(v) \o lookups)[n].refresh
  <1>. DEFINE front == Operand(u) \o Operand(v)
              all == front \o lookups
  <1>1. front \in Seq(Looks) /\ \A n \in DOMAIN front : ~front[n].refresh
    <2>1. \A w \in {u, v} : Operand(w) = << >> \/ Operand(w) = <<Get(w)>>
      BY DEF Operand
    <2>2. ~Get(u).refresh /\ ~Get(v).refresh
      BY DEF Get
    <2>3. CASE Operand(u) = << >> /\ Operand(v) = << >>
      BY <2>3
    <2>4. CASE Operand(u) = << >> /\ Operand(v) = <<Get(v)>>
      <3>1. front = <<Get(v)>>
        BY <2>4
      <3>. QED
        BY <3>1, <2>2, GetType
    <2>5. CASE Operand(u) = <<Get(u)>> /\ Operand(v) = << >>
      <3>1. front = <<Get(u)>>
        BY <2>5
      <3>. QED
        BY <3>1, <2>2, GetType
    <2>6. CASE Operand(u) = <<Get(u)>> /\ Operand(v) = <<Get(v)>>
      <3>1. front = <<Get(u), Get(v)>>
        BY <2>6, OneAfterOther, GetType
      <3>. QED
        BY <3>1, <2>2, GetType
    <2>. QED
      BY <2>1, <2>3, <2>4, <2>5, <2>6
  <1>. HIDE DEF front
  <1>2. /\ Len(all) = Len(front) + Len(lookups)
        /\ \A n \in 1..Len(front) : all[n] = front[n]
        /\ \A n \in 1..Len(lookups) : all[Len(front) + n] = lookups[n]
        /\ Len(front) \in Nat /\ Len(lookups) \in Nat
        /\ DOMAIN all = 1..Len(all)
    BY <1>1
  <1>. HIDE DEF all
  <1>3. \A n \in DOMAIN all : all[n].refresh =>
           n - Len(front) \in DOMAIN lookups /\ all[n] = lookups[n - Len(front)]
    <2>. TAKE n \in DOMAIN all
    <2>. HAVE all[n].refresh
    <2>1. n \notin 1..Len(front)
      BY <1>1, <1>2
    <2>2. n - Len(front) \in 1..Len(lookups)
      BY <1>2, <2>1
    <2>3. n = Len(front) + (n - Len(front))
      BY <1>2
    <2>. QED
      BY <1>2, <2>2, <2>3
  <1>4. OneRefresh(all)
    <2>. SUFFICES ASSUME NEW n \in DOMAIN all, all[n].refresh
                  PROVE  /\ \A m \in DOMAIN all : all[m].refresh => m = n
                         /\ \A w \in Value : Countable(w) => (all[n].val = w <=> Current.res = w)
      BY DEF OneRefresh
    <2>1. \A m \in DOMAIN all : all[m].refresh => m - Len(front) = n - Len(front)
      BY <1>3 DEF OneRefresh
    <2>2. \A m \in DOMAIN all : m \in Int
      BY <1>2
    <2>3. \A m \in DOMAIN all : all[m].refresh => m = n
      BY <1>2, <2>1, <2>2
    <2>. QED
      BY <1>3, <2>3 DEF OneRefresh
  <1>5. \E n \in DOMAIN all : all[n].refresh
    <2>1. PICK n \in 1..Len(lookups) : lookups[n].refresh
      OBVIOUS
    <2>2. Len(front) + n \in DOMAIN all
      BY <1>2
    <2>. QED
      BY <1>2, <2>1, <2>2
  <1>. QED
    BY <1>4, <1>5 DEF all, front

(****************************************************************************)
(* Every instruction that goes on is set out as BeginWalk asks; the flag    *)
(* tells the first nondet value of a base case from the others.             *)
(****************************************************************************)
LEMMA RightElse ==
    ASSUME TypeOK, i <= Len(nodes), j <= Len(Instrs(nodes[i])),
           Current.op \notin {"nondet", "br"}, NEW kind \in {"nothing", "equation"}, NEW val
    PROVE  Right(Here, kind, val)
  <1>1. ~SaidBase(Here)
    BY FirstHere DEF SaidBase
  <1>. QED
    BY <1>1, HereIsAPlace DEF Right

LEMMA NondetWalk ==
    ASSUME TypeOK, WalkInv, FirstNondet \/ OtherNondet
    PROVE  WalkInv'
  <1>1. /\ pc = "next" /\ i <= Len(nodes) /\ j <= Len(Instrs(nodes[i])) /\ Current.op = "nondet"
        /\ InstrAt(Here) = Current
    BY HereIsAPlace DEF FirstNondet, OtherNondet, At
  <1>2. FlagTells /\ Begun = Passed
    BY <1>1 DEF WalkInv, Begun
  <1>3. job.queries[q].mode \in {"base", "inductive"}
    BY JobParts DEF Query
  <1>4. /\ OneRefresh(<<Refresh(Current.res)>>)
        /\ \E n \in DOMAIN <<Refresh(Current.res)>> : <<Refresh(Current.res)>>[n].refresh
    BY OneAlone
  <1>5. CASE FirstNondet
    <2>1. Here \in FirstNondets
      BY <1>1, <1>2, <1>5, FirstHere DEF FirstNondet, FlagTells
    <2>2. Right(Here, "pin", q)
      BY <1>1, <1>5, <2>1 DEF Right, SaidBase, FirstNondet
    <2>3. Begin(<<Refresh(Current.res)>>, "pin", q) /\ ~isFirstNondet' /\ mode # "inductive"
      BY <1>5 DEF FirstNondet, kval
    <2>. QED
      BY <1>1, <1>4, <2>2, <2>3, BeginWalk
  <1>6. CASE OtherNondet
    <2>1. ~SaidBase(Here)
      BY <1>1, <1>2, <1>6, FirstHere DEF OtherNondet, FlagTells, SaidBase
    <2>2. Right(Here, "nothing", 0)
      BY <1>1, <2>1 DEF Right
    <2>3. Begin(<<Refresh(Current.res)>>, "nothing", 0) /\ isFirstNondet' = isFirstNondet
      BY <1>6 DEF OtherNondet
    <2>4. isFirstNondet' <=> mode = "inductive"
      BY <1>2, <1>3, <1>6, <2>3 DEF OtherNondet, FlagTells, mode
    <2>. QED
      BY <1>1, <1>4, <2>2, <2>3, <2>4, BeginWalk
  <1>. QED
    BY <1>5, <1>6

LEMMA ThreeNames ==
    ASSUME NEW x, NEW y, NEW z, Cardinality({x, y, z}) = 3
    PROVE  x # z /\ y # z
  <1>1. PICK S : S = {x}
    OBVIOUS
  <1>0. IsFiniteSet(S) /\ Cardinality(S) = 1
    BY <1>1, FS_Singleton
  <1>2. Cardinality(S \cup {y}) = IF y \in S THEN 1 ELSE 2
    <2>1. Cardinality(S \cup {y}) = IF y \in S THEN Cardinality(S) ELSE Cardinality(S) + 1
      BY <1>0, FS_AddElement
    <2>. QED
      BY <1>0, <2>1
  <1>3. PICK T : T = {x, y, z}
    OBVIOUS
  <1>4. x = z \/ y = z => T = S \cup {y}
    BY <1>1, <1>3
  <1>5. Cardinality(T) = 3
    BY <1>3
  <1>6. T # S \cup {y}
    BY <1>2, <1>5
  <1>. QED
    BY <1>4, <1>6

(****************************************************************************)
(* The side a branch is said to take is the one the walk takes: the names   *)
(* tell the targets apart.                                                  *)
(****************************************************************************)
LEMMA BranchWalk ==
    ASSUME TypeOK, WalkInv, BranchTrue \/ BranchFalse \/ BranchPastEnd
    PROVE  WalkInv'
  <1>1. /\ pc = "next" /\ i <= Len(nodes) /\ j <= Len(Instrs(nodes[i])) /\ Current.op = "br"
        /\ InstrAt(Here) = Current /\ Here[1] = i
        /\ isFirstNondet' = isFirstNondet
    BY HereIsAPlace DEF BranchTrue, BranchFalse, BranchPastEnd, At
  <1>2. PICK val \in {0, 1} :
            /\ Begin(<<Get(Current.args[1])>>, "branch", val)
            /\ i < Len(nodes) => GoesTo(IF val = 1 THEN 1 ELSE 2)
    BY DEF BranchTrue, BranchFalse, BranchPastEnd
  <1>3. FlagTells /\ Begun = Passed
    BY <1>1 DEF WalkInv, Begun
  <1>4. ~SaidBase(Here)
    BY <1>1, FirstHere DEF SaidBase
  <1>5. i < Len(nodes) /\ NamedTargets(Current) => Current.bbs[IF val = 1 THEN 1 ELSE 2] = nodes[i+1]
    <2>. SUFFICES ASSUME i < Len(nodes), NamedTargets(Current)
                  PROVE  Current.bbs[IF val = 1 THEN 1 ELSE 2] = nodes[i+1]
      OBVIOUS
    <2>1. PICK t \in {1, 2} : t = IF val = 1 THEN 1 ELSE 2
      OBVIOUS
    <2>2. BlockName(nodes[i+1]) = BlockName(Current.bbs[t])
      BY <1>2, <2>1 DEF GoesTo
    <2>3. BlockName(Current.bbs[t]) # ""
      BY <2>1, ThreeNames DEF NamedTargets
    <2>4. Current.bbs[t] \in DOMAIN job.blocks
      BY <1>1, <2>1, BranchHere
    <2>6. i + 1 \in DOMAIN nodes
      BY JobParts DEF TypeOK
    <2>7. nodes[i+1] \in DOMAIN job.blocks
      BY <2>6, JobParts
    <2>5. NamesDiffer(job)
      BY JobsAssumption DEF TypeOK
    <2>. QED
      BY <2>1, <2>2, <2>3, <2>4, <2>5, <2>7 DEF NamesDiffer, BlockName
  <1>6. Right(Here, "branch", val)
    BY <1>1, <1>4, <1>5 DEF Right
  <1>7. ~Countable(Current.res)
    <2>1. /\ nodes[i] \in DOMAIN job.blocks /\ j \in Lines(job, nodes[i])
          /\ Current = InstrOf(job, nodes[i], j)
      BY <1>1, HereIsAPlace, AtPlace
    <2>. QED
      BY <1>1, <2>1 DEF Countable, Refreshing
  <1>8. isFirstNondet' <=> mode = "inductive" \/ isFirstNondet
    BY <1>1, <1>3 DEF FlagTells
  <1>9. OneRefresh(<<Get(Current.args[1])>>)
    BY OneAlone
  <1>. QED
    BY <1>1, <1>2, <1>6, <1>7, <1>8, <1>9, BeginWalk

LEMMA NotCounted ==
    ASSUME TypeOK, i <= Len(nodes), j <= Len(Instrs(nodes[i])),
           Current.op \notin Refreshing \cup {"other"}
    PROVE  ~Countable(Current.res)
  <1>1. /\ nodes[i] \in DOMAIN job.blocks /\ j \in Lines(job, nodes[i])
        /\ Current = InstrOf(job, nodes[i], j)
    BY HereIsAPlace, AtPlace
  <1>. QED
    BY <1>1 DEF Countable

LEMMA PlainWalk ==
    ASSUME TypeOK, WalkInv, NEW op, op \notin {"nondet", "br", "other"}, At(op),
           NEW kind \in {"nothing", "equation"}, NEW val, NEW lookups, Begin(lookups, kind, val),
           isFirstNondet' = isFirstNondet, OneRefresh(lookups),
           op \in Refreshing => \E n \in DOMAIN lookups : lookups[n].refresh
    PROVE  WalkInv'
  <1>1. /\ pc = "next" /\ i <= Len(nodes) /\ j <= Len(Instrs(nodes[i])) /\ Current.op = op
    BY DEF At
  <1>2. Right(Here, kind, val)
    BY <1>1, RightElse
  <1>3. Countable(Current.res) => \E n \in DOMAIN lookups : lookups[n].refresh
    BY <1>1, NotCounted
  <1>4. isFirstNondet' <=> mode = "inductive" \/ isFirstNondet
    <2>1. FlagTells
      BY <1>1 DEF WalkInv
    <2>. QED
      BY <2>1 DEF FlagTells
  <1>. QED
    BY <1>1, <1>2, <1>3, <1>4, BeginWalk

LEMMA EncodingWalk ==
    ASSUME TypeOK, WalkInv, Encoding
    PROVE  WalkInv'
  <1>r. \A u, v \in Value : \A lookups \in InAnyOrder(Refresh(Current.res), Get(u)) :
            OneRefresh(lookups) /\ \E n \in DOMAIN lookups : lookups[n].refresh
    <2>1. \A u : Refresh(Current.res).refresh /\ ~Get(u).refresh /\ Refresh(Current.res).val = Current.res
      BY DEF Refresh, Get
    <2>. QED
      BY <2>1, OneOfTwo
  <1>1. CASE FirstNondet \/ OtherNondet
    BY <1>1, NondetWalk
  <1>2. CASE BranchTrue \/ BranchFalse \/ BranchPastEnd
    BY <1>2, BranchWalk
  <1>3. CASE Malloc
    <2>1. At("malloc") /\ Begin(<< >>, "nothing", 0) /\ isFirstNondet' = isFirstNondet
      BY <1>3 DEF Malloc
    <2>2. OneRefresh(<< >>) /\ "malloc" \notin Refreshing
      BY DEF OneRefresh, Refreshing
    <2>. QED
      BY <2>1, <2>2, PlainWalk
  <1>4. CASE Skip
    <2>1. At("skip") /\ Begin(<< >>, "nothing", 0) /\ isFirstNondet' = isFirstNondet
      BY <1>4 DEF Skip
    <2>2. OneRefresh(<< >>) /\ "skip" \notin Refreshing
      BY DEF OneRefresh, Refreshing
    <2>. QED
      BY <2>1, <2>2, PlainWalk
  <1>5. CASE BitCast
    <2>1. At("bitcast") /\ Begin(<< >>, "nothing", 0) /\ isFirstNondet' = isFirstNondet
      BY <1>5 DEF BitCast
    <2>2. OneRefresh(<< >>) /\ "bitcast" \notin Refreshing
      BY DEF OneRefresh, Refreshing
    <2>. QED
      BY <2>1, <2>2, PlainWalk
  <1>6. CASE StoreGlobal
    <2>1. At("store") /\ Kind(Current.args[2]) = "global" /\ isFirstNondet' = isFirstNondet
      BY <1>6 DEF StoreGlobal
    <2>2. PICK lookups \in InAnyOrder(Get(Current.args[1]), Refresh(Current.args[2])) :
              Begin(lookups, "equation", 0)
      BY <1>6 DEF StoreGlobal
    <2>3. ~Countable(Current.res) /\ ~Countable(Current.args[2])
      BY <2>1, NotCounted DEF At, Refreshing, Countable
    <2>4. lookups \in InAnyOrder(Refresh(Current.args[2]), Get(Current.args[1]))
      BY <2>2 DEF InAnyOrder
    <2>5. /\ Refresh(Current.args[2]).refresh /\ ~Get(Current.args[1]).refresh
          /\ Refresh(Current.args[2]).val = Current.args[2]
      BY DEF Refresh, Get
    <2>6. OneRefresh(lookups)
      BY <2>3, <2>4, <2>5, OneOfTwo
    <2>. QED
      BY <2>1, <2>2, <2>6, PlainWalk DEF Refreshing
  <1>7. CASE StoreElement
    <2>1. At("store") /\ isFirstNondet' = isFirstNondet
      BY <1>7 DEF StoreElement
    <2>2. PICK u, v : \E lookups \in InAnyOrder(Get(u), Get(v)) : Begin(lookups, "equation", 0)
      BY <1>7 DEF StoreElement
    <2>3. PICK lookups \in InAnyOrder(Get(u), Get(v)) : Begin(lookups, "equation", 0)
      BY <2>2
    <2>4. OneRefresh(lookups)
      BY NoRefresh
    <2>. QED
      BY <2>1, <2>3, <2>4, PlainWalk DEF Refreshing
  <1>8. CASE BinaryOrCmp
    <2>. DEFINE lookups == Operand(Current.args[1]) \o Operand(Current.args[2]) \o <<Refresh(Current.res)>>
    <2>1. PICK op \in {"binary", "cmp"} : At(op)
      BY <1>8 DEF BinaryOrCmp
    <2>2. Current.args[1] \in Value /\ Current.args[2] \in Value /\ Current.res \in Value
      BY <2>1, CurrentAt DEF Arity
    <2>3. OneRefresh(lookups) /\ \E n \in DOMAIN lookups : lookups[n].refresh
      <3>1. PICK some : some = <<Refresh(Current.res)>>
        OBVIOUS
      <3>2. some \in Seq(Looks) /\ OneRefresh(some) /\ \E n \in DOMAIN some : some[n].refresh
        <4>1. <<Refresh(Current.res)>> \in Seq(Looks)
          BY <2>2, GetType
        <4>2. /\ OneRefresh(<<Refresh(Current.res)>>)
              /\ \E n \in DOMAIN <<Refresh(Current.res)>> : <<Refresh(Current.res)>>[n].refresh
          BY OneAlone
        <4>. QED
          BY ONLY <3>1, <4>1, <4>2
      <3>. QED
        BY <2>2, <3>1, <3>2, OperandsInFront
    <2>4. Begin(lookups, "equation", 0) /\ isFirstNondet' = isFirstNondet
      BY <1>8 DEF BinaryOrCmp
    <2>. HIDE DEF lookups
    <2>. QED
      BY <2>1, <2>3, <2>4, PlainWalk
  <1>9. CASE Phi
    <2>1. At("phi") /\ isFirstNondet' = isFirstNondet
      BY <1>9 DEF Phi
    <2>2. PICK u : \E lookups \in IF Kind(u) = "literal" THEN {<<Refresh(Current.res)>>}
                                  ELSE InAnyOrder(Refresh(Current.res), Get(u)) :
                      Begin(lookups, "equation", 0)
      BY <1>9 DEF Phi
    <2>3. PICK lookups \in {<<Refresh(Current.res)>>} \cup InAnyOrder(Refresh(Current.res), Get(u)) :
              Begin(lookups, "equation", 0)
      BY <2>2
    <2>4. OneRefresh(lookups) /\ \E n \in DOMAIN lookups : lookups[n].refresh
      <3>1. CASE lookups = <<Refresh(Current.res)>>
        BY <3>1, OneAlone
      <3>2. CASE lookups \in InAnyOrder(Refresh(Current.res), Get(u))
        <4>1. Refresh(Current.res).refresh /\ ~Get(u).refresh /\ Refresh(Current.res).val = Current.res
          BY DEF Refresh, Get
        <4>. QED
          BY <3>2, <4>1, OneOfTwo
      <3>. QED
        BY <3>1, <3>2
    <2>. QED
      BY <2>1, <2>3, <2>4, PlainWalk
  <1>10. CASE Gep \/ LoadOrExt
    <2>1. PICK op \in {"gep", "load", "ext"} : At(op)
      BY <1>10 DEF Gep, LoadOrExt
    <2>2. PICK u : \E lookups \in InAnyOrder(Refresh(Current.res), Get(u)) : Begin(lookups, "equation", 0)
      BY <1>10 DEF Gep, LoadOrExt
    <2>3. PICK lookups \in InAnyOrder(Refresh(Current.res), Get(u)) : Begin(lookups, "equation", 0)
      BY <2>2
    <2>4. Refresh(Current.res).refresh /\ ~Get(u).refresh /\ Refresh(Current.res).val = Current.res
      BY DEF Refresh, Get
    <2>5. OneRefresh(lookups) /\ \E n \in DOMAIN lookups : lookups[n].refresh
      BY <2>4, OneOfTwo
    <2>6. isFirstNondet' = isFirstNondet
      BY <1>10 DEF Gep, LoadOrExt
    <2>. QED
      BY <2>1, <2>3, <2>5, <2>6, PlainWalk
  <1>11. CASE Select
    <2>1. At("select") /\ isFirstNondet' = isFirstNondet
      BY <1>11 DEF Select
    <2>2. /\ Current.args[1] \in Value /\ Current.args[2] \in Value /\ Current.args[3] \in Value
          /\ Current.res \in Value
      BY <2>1, CurrentAt DEF Arity
    <2>3. PICK some \in InAnyOrder(Refresh(Current.res), Get(Current.args[1])) :
              Begin(Operand(Current.args[2]) \o Operand(Current.args[3]) \o some, "equation", 0)
      BY <1>11 DEF Select
    <2>. DEFINE lookups == Operand(Current.args[2]) \o Operand(Current.args[3]) \o some
    <2>4. some \in Seq(Looks)
      BY <2>2, GetType, AnyOrderType
    <2>5. OneRefresh(some) /\ \E n \in DOMAIN some : some[n].refresh
      BY <1>r, <2>2
    <2>6. OneRefresh(lookups) /\ \E n \in DOMAIN lookups : lookups[n].refresh
      BY <2>2, <2>4, <2>5, OperandsInFront
    <2>7. Begin(lookups, "equation", 0)
      BY <2>3
    <2>. HIDE DEF lookups
    <2>. QED
      BY <2>1, <2>6, <2>7, PlainWalk
  <1>12. CASE StoreFails \/ BranchFails \/ PhiFails \/ NoArray \/ Unsupported
    BY <1>12 DEF StoreFails, BranchFails, PhiFails, NoArray, Unsupported, Abort, WalkInv
  <1>. QED
    BY <1>1, <1>2, <1>3, <1>4, <1>5, <1>6, <1>7, <1>8, <1>9, <1>10, <1>11, <1>12 DEF Encoding

(****************************************************************************)
(* A lookup.  A pinned constant is the first definition of its value, that  *)
(* of a branch the last one before it.                                      *)
(****************************************************************************)
LEMMA TailOf ==
    ASSUME NEW s \in Seq(Looks), s # << >>
    PROVE  /\ 1 \in DOMAIN s /\ Head(s) = s[1]
           /\ \A n \in DOMAIN Tail(s) : n \in Nat /\ n + 1 \in DOMAIN s /\ n + 1 # 1 /\ Tail(s)[n] = s[n + 1]
           /\ \A n \in DOMAIN s : n # 1 => n - 1 \in DOMAIN Tail(s) /\ Tail(s)[n - 1] = s[n]
  OBVIOUS

LEMMA PassedCount ==
    ASSUME IsFiniteSet(Passed), NEW v
    PROVE  IsFiniteSet(PassedOf(v)) /\ Cardinality(PassedOf(v)) \in Nat
  <1>1. PassedOf(v) \in SUBSET Passed
    BY DEF PassedOf
  <1>2. IsFiniteSet(PassedOf(v))
    BY <1>1, FS_Subset
  <1>. QED
    BY <1>2, FS_CardinalityType

LEMMA TailCounts ==
    ASSUME TypeOK, CountsRight, pc = "lookup", todo # << >>, NEW c, Found(c)
    PROVE  CountsRight'
  <1>1. /\ todo' = Tail(todo) /\ pc' = pc
        /\ UNCHANGED place /\ UNCHANGED <<job, q>>
        /\ defs' = IF Head(todo).refresh THEN [defs EXCEPT ![Wanted] = defs[Wanted] + 1] ELSE defs
    BY DEF Found, place
  <1>2. todo \in Seq(Looks) /\ OneRefresh(todo) /\ defs \in [Value -> Nat] /\ Wanted \in Value
    BY WantedType DEF TypeOK, CountsRight
  <1>3. OneRefresh(todo')
    <2>1. \A n, m \in DOMAIN Tail(todo) : n + 1 = m + 1 => n = m
      BY <1>2, TailOf
    <2>. QED
      BY <1>1, <1>2, <2>1, TailOf DEF OneRefresh
  <1>4. OneRefresh(todo)'
    <2>1. PICK rest : rest = todo'
      OBVIOUS
    <2>2. OneRefresh(rest)'
      BY <1>1, <1>3, <2>1, SamePlace
    <2>. QED
      BY <2>1, <2>2 DEF OneRefresh
  <1>5. CASE Head(todo).refresh
    <2>1. RefreshLeft /\ ~RefreshLeft'
      BY <1>1, <1>2, <1>5, TailOf DEF RefreshLeft, OneRefresh
    <2>2. \A v \in Value : Countable(v) => (Wanted = v <=> Current.res = v)
      BY <1>2, <1>5, TailOf DEF OneRefresh, Wanted
    <2>3. \A v \in Value : defs'[v] = IF v = Wanted THEN defs[v] + 1 ELSE defs[v]
      BY <1>1, <1>2, <1>5
    <2>4. \A v \in Value : Countable(v) =>
            defs[v] = Cardinality(PassedOf(v)) /\ Cardinality(PassedOf(v)) \in Nat
      BY <1>2, <2>1, PassedCount DEF CountsRight
    <2>5. \A v \in Value : Countable(v) =>
            defs'[v] = Cardinality(PassedOf(v)) + IF Current.res = v THEN 1 ELSE 0
      <3>. SUFFICES ASSUME NEW v \in Value, Countable(v)
                    PROVE  defs'[v] = Cardinality(PassedOf(v)) + IF Current.res = v THEN 1 ELSE 0
        OBVIOUS
      <3>1. CASE v = Wanted
        BY <2>2, <2>3, <2>4, <3>1
      <3>2. CASE v # Wanted
        BY <2>2, <2>3, <2>4, <3>2
      <3>. QED
        BY <3>1, <3>2
    <2>. QED
      BY <1>1, <1>4, <2>1, <2>5, SameWalk, SamePlace DEF CountsRight
  <1>6. CASE ~Head(todo).refresh
    <2>0. (\E n \in DOMAIN Tail(todo) : Tail(todo)[n].refresh) <=> (\E n \in DOMAIN todo : todo[n].refresh)
      <3>1. PICK s \in Seq(Looks) : s = todo /\ s # << >>
        BY <1>2
      <3>2. PICK t : t = Tail(s)
        OBVIOUS
      <3>3. \A n \in DOMAIN t : n + 1 \in DOMAIN s /\ t[n] = s[n + 1]
        BY <3>1, <3>2, TailOf
      <3>4. \A n \in DOMAIN s : n # 1 => n - 1 \in DOMAIN t /\ t[n - 1] = s[n]
        BY <3>1, <3>2, TailOf
      <3>5. ~s[1].refresh
        BY <1>6, <3>1, TailOf
      <3>6. (\E n \in DOMAIN t : t[n].refresh) => \E n \in DOMAIN s : s[n].refresh
        BY <3>3
      <3>7. (\E n \in DOMAIN s : s[n].refresh) => \E n \in DOMAIN t : t[n].refresh
        BY <3>4, <3>5
      <3>. QED
        BY <3>1, <3>2, <3>6, <3>7
    <2>1. RefreshLeft' <=> RefreshLeft
      BY <1>1, <2>0 DEF RefreshLeft
    <2>2. defs' = defs
      BY <1>1, <1>6
    <2>. QED
      BY <1>1, <1>4, <2>1, <2>2, SameWalk, SamePlace DEF CountsRight
  <1>. QED
    BY <1>5, <1>6

LEMMA FoundWalk ==
    ASSUME TypeOK, WalkInv, pc = "lookup", todo # << >>, NEW c, Found(c)
    PROVE  WalkInv'
  <1>1. /\ todo' = Tail(todo) /\ pc' = pc /\ terms' = terms \cup {c}
        /\ denotes' = denotes \cup {Meaning(c)}
        /\ UNCHANGED place /\ UNCHANGED <<job, q, isFirstNondet, problems, asserts>>
    BY DEF Found, place
  <1>2. OnTheWay /\ FlagTells /\ CountsRight /\ InHand /\ Said
    BY DEF WalkInv
  <1>3. i <= Len(nodes) /\ j <= Len(Instrs(nodes[i]))
    BY <1>2 DEF OnTheWay
  <1>4. OnTheWay'
    BY <1>1, <1>2, SamePlace DEF OnTheWay
  <1>5. FlagTells'
    BY <1>1, <1>2, SameWalk, SamePlace DEF FlagTells, Begun
  <1>6. CountsRight'
    BY <1>2, TailCounts
  <1>7. Said'
    BY <1>1, <1>2, SaidStays
  <1>8. Right(Here, asserts.kind, asserts.val) /\ Current.op # "other"
    BY <1>2 DEF InHand
  <1>9. asserts.kind = "pin" => Meaning(c).inst = 1 /\ Meaning(c).val = Current.res
    <2>. SUFFICES ASSUME asserts.kind = "pin"
                  PROVE  Meaning(c).inst = 1 /\ Meaning(c).val = Current.res
      OBVIOUS
    <2>1. todo = <<Refresh(Current.res)>>
      BY <1>2 DEF InHand
    <2>2. Head(todo).refresh /\ Wanted = Current.res /\ RefreshLeft
      BY <2>1 DEF Refresh, Wanted, RefreshLeft
    <2>3. Here \in FirstNondets
      BY <1>8 DEF Right, SaidBase
    <2>4. /\ Current.op = "nondet" /\ \A r \in Passed : InstrAt(r).op # "nondet"
          /\ Current.res \in Value /\ Countable(Current.res)
          /\ \A p \in Places : InstrAt(p).res = Current.res => InstrAt(p).op = "nondet"
      BY <1>3, <2>3, FirstHere, ResultCountable
    <2>5. PassedOf(Current.res) = {}
      BY <2>4 DEF PassedOf, Passed
    <2>6. Cardinality(PassedOf(Current.res)) = 0
      BY <2>5, FS_EmptySet
    <2>7. defs[Current.res] = 0
      BY <1>2, <2>2, <2>4, <2>6 DEF CountsRight
    <2>. QED
      BY <2>2, <2>7 DEF Meaning
  <1>10. asserts.kind = "branch" =>
            /\ Meaning(c).inst = Executions(Current.args[1], i)
            /\ Meaning(c).val = Current.args[1]
    <2>. SUFFICES ASSUME asserts.kind = "branch"
                  PROVE  /\ Meaning(c).inst = Executions(Current.args[1], i)
                         /\ Meaning(c).val = Current.args[1]
      OBVIOUS
    <2>1. todo = <<Get(Current.args[1])>> /\ before = defs
      BY <1>2 DEF InHand
    <2>2. ~Head(todo).refresh /\ Wanted = Current.args[1]
      BY <2>1 DEF Get, Wanted
    <2>3. Current.op = "br"
      BY <1>3, <1>8, HereIsAPlace DEF Right
    <2>4. /\ Current.args[1] \in Value /\ Countable(Current.args[1])
          /\ Executions(Current.args[1], i) = Cardinality(PassedOf(Current.args[1]))
      BY <1>3, <2>3, BranchHere
    <2>5. ~Countable(Current.res)
      BY <1>3, <2>3, NotCounted DEF Refreshing
    <2>6. defs[Current.args[1]] = Cardinality(PassedOf(Current.args[1])) + 0 /\ defs[Current.args[1]] \in Nat
      BY <1>2, <2>4, <2>5 DEF CountsRight, TypeOK
    <2>7. Cardinality(PassedOf(Current.args[1])) \in Nat
      BY <1>2, PassedCount DEF CountsRight
    <2>. QED
      BY <2>1, <2>2, <2>4, <2>6, <2>7 DEF Meaning
  <1>11. InHand'
    <2>1. Right(Here, asserts.kind, asserts.val)'
      BY <1>1, <1>8, SameWalk, SamePlace
    <2>2. asserts.kind \in {"pin", "branch"} => todo' = << >> /\ terms' = {c}
      <3>1. asserts.kind \in {"pin", "branch"} => terms = {} /\ \E x : todo = <<x>>
        BY <1>2 DEF InHand
      <3>2. \A x : Tail(<<x>>) = << >>
        OBVIOUS
      <3>. QED
        BY <1>1, <3>1, <3>2
    <2>3. \A v, n : Meaning(c).val = v /\ Meaning(c).inst = n => c \in ConstantsOf(v, n)'
      <3>1. Meaning(c).const = c /\ Meaning(c) \in denotes'
        BY <1>1 DEF Meaning
      <3>. HIDE DEF Meaning
      <3>. QED
        BY <3>1 DEF ConstantsOf
    <2>4. InstrAt(Here)' = Current /\ Here'[1] = i /\ Here' = Here
      BY <1>1, <1>3, HereIsAPlace, SameWalk, SamePlace
    <2>5. Executions(Current.args[1], i)' = Executions(Current.args[1], i)
      BY <1>1, SameWalk, SamePlace DEF place
    <2>6. asserts.kind \in {"pin", "branch"} => RightTerms(Here, asserts.kind, terms)'
      BY <1>1, <1>9, <1>10, <2>2, <2>3, <2>4, <2>5, SamePlace, SameWalk DEF RightTerms
    <2>. QED
      BY <1>1, <1>8, <2>1, <2>2, <2>6, SamePlace DEF InHand
  <1>. QED
    BY <1>4, <1>5, <1>6, <1>7, <1>11 DEF WalkInv

(****************************************************************************)
(* The ends of instructions, blocks and queries.                            *)
(****************************************************************************)
LEMMA EndInstructionWalk ==
    ASSUME TypeOK, WalkInv, EndInstruction
    PROVE  WalkInv'
  <1>1. /\ pc = "lookup" /\ todo = << >> /\ pc' = "next" /\ i' = i /\ j' = j + 1
        /\ UNCHANGED <<job, q, isFirstNondet, defs, denotes>>
        /\ problems' = IF asserts.kind = "nothing" THEN problems ELSE Append(problems, Problem)
    BY DEF EndInstruction, hist
  <1>2. OnTheWay /\ FlagTells /\ CountsRight /\ InHand /\ Said
    BY <1>1 DEF WalkInv
  <1>3. i <= Len(nodes) /\ j <= Len(Instrs(nodes[i]))
    BY <1>1, <1>2 DEF OnTheWay
  <1>4. /\ Here \in Places /\ Here \notin Passed /\ InstrAt(Here) = Current
        /\ Here[1] = i /\ Here[2] = j
    BY <1>3, HereIsAPlace
  <1>5. Passed' = Passed \cup {Here}
    <2>1. \A p \in Places : Earlier(p, <<i, j + 1>>) <=> Earlier(p, Here) \/ p = Here
      <3>. TAKE p \in Places
      <3>1. p = <<p[1], p[2]>> /\ p[1] \in Nat /\ p[2] \in Nat /\ i \in Nat /\ j \in Nat
        BY AtPlace DEF TypeOK
      <3>2. p = Here <=> p[1] = i /\ p[2] = j
        BY <3>1 DEF Here
      <3>. QED
        BY <3>1, <3>2 DEF Earlier, Here
    <2>2. Passed' = {p \in Places : Earlier(p, <<i, j + 1>>)}
      BY <1>1, SameWalk DEF Passed, Here, Earlier
    <2>. QED
      BY <1>4, <2>1, <2>2 DEF Passed
  <1>6. OnTheWay' /\ InHand'
    BY <1>1 DEF OnTheWay, InHand
  <1>7. FlagTells'
    <2>1. Begun' = Begun
      BY <1>1, <1>5 DEF Begun
    <2>. QED
      BY <1>1, <1>2, <2>1, SameWalk DEF FlagTells
  <1>8. CountsRight'
    <2>1. ~RefreshLeft
      BY <1>1 DEF RefreshLeft
    <2>2. IsFiniteSet(Passed')
      BY <1>2, <1>5, FS_AddElement DEF CountsRight
    <2>3. \A v \in Value : Countable(v) => defs'[v] = Cardinality(PassedOf(v)')
      <3>. SUFFICES ASSUME NEW v \in Value, Countable(v)
                    PROVE  defs'[v] = Cardinality(PassedOf(v)')
        OBVIOUS
      <3>1. defs[v] = Cardinality(PassedOf(v)) + IF Current.res = v THEN 1 ELSE 0
        BY <1>1, <1>2, <2>1 DEF CountsRight
      <3>2. IsFiniteSet(PassedOf(v)) /\ Cardinality(PassedOf(v)) \in Nat /\ Here \notin PassedOf(v)
        BY <1>2, <1>4, PassedCount DEF CountsRight, PassedOf
      <3>3. CASE Current.res = v
        <4>1. PassedOf(v)' = PassedOf(v) \cup {Here}
          BY <1>1, <1>4, <1>5, <3>3, SameWalk DEF PassedOf
        <4>2. Cardinality(PassedOf(v) \cup {Here}) = Cardinality(PassedOf(v)) + 1
          BY <3>2, FS_AddElement
        <4>. QED
          BY <1>1, <3>1, <3>3, <4>1, <4>2
      <3>4. CASE Current.res # v
        <4>1. PassedOf(v)' = PassedOf(v)
          BY <1>1, <1>4, <1>5, <3>4, SameWalk DEF PassedOf
        <4>. QED
          BY <1>1, <3>1, <3>2, <3>4, <4>1
      <3>. QED
        BY <3>3, <3>4
    <2>4. \A v : Cardinality(PassedOf(v)') \in Nat
      <3>1. ASSUME NEW v PROVE Cardinality(PassedOf(v)') \in Nat
        <4>1. PassedOf(v)' \in SUBSET Passed'
          BY DEF PassedOf
        <4>. QED
          BY <2>2, <4>1, FS_Subset, FS_CardinalityType
      <3>. QED
        BY <3>1
    <2>. QED
      BY <1>1, <2>2, <2>3, <2>4, SameWalk DEF CountsRight
  <1>9. Said'
    <2>1. /\ Right(Here, asserts.kind, asserts.val) /\ Current.op # "other"
          /\ asserts.kind \in {"pin", "branch"} => RightTerms(Here, asserts.kind, terms)
      <3>1. <<Refresh(Current.res)>> # << >> /\ <<Get(Current.args[1])>> # << >>
        OBVIOUS
      <3>. QED
        BY <1>1, <1>2, <3>1 DEF InHand
    <2>2. RightTerms(Here, asserts.kind, terms)
      BY <2>1 DEF RightTerms
    <2>3. \A p, kind, cs : RightTerms(p, kind, cs) => RightTerms(p, kind, cs)'
      BY <1>1, TermsStayRight
    <2>4. CASE asserts.kind = "nothing"
      <3>1. ~(InstrAt(Here).op = "br" \/ SaidBase(Here))
        BY <2>1, <2>4 DEF Right
      <3>. QED
        BY <1>1, <1>2, <1>4, <1>5, <2>1, <2>3, <2>4, <3>1, SameWalk DEF Said
    <2>5. CASE asserts.kind # "nothing"
      <3>. DEFINE new == Problem
      <3>1. /\ new.pos = Here /\ new.kind = asserts.kind /\ new.val = asserts.val /\ new.terms = terms
            /\ new \in ProblemType
        <4>1. /\ asserts \in [kind : {"nothing", "pin", "equation", "branch"}, val : Nat]
              /\ terms \in SUBSET Const /\ i \in Nat /\ j \in Nat
          BY DEF TypeOK
        <4>. QED
          BY <4>1 DEF Problem, Here, ProblemType
      <3>. HIDE DEF new
      <3>2. /\ problems' = Append(problems, new) /\ problems \in Seq(ProblemType)
        BY <1>1, <1>2, <2>5 DEF Said, new
      <3>3. /\ problems' \in Seq(ProblemType)
            /\ DOMAIN problems' = DOMAIN problems \cup {Len(problems) + 1}
            /\ Len(problems) + 1 \notin DOMAIN problems
            /\ problems'[Len(problems) + 1] = new
            /\ \A n \in DOMAIN problems : problems'[n] = problems[n]
        BY <3>1, <3>2
      <3>4. \A n \in DOMAIN problems' :
               /\ problems'[n].pos \in Passed'
               /\ Right(problems'[n].pos, problems'[n].kind, problems'[n].val)
               /\ RightTerms(problems'[n].pos, problems'[n].kind, problems'[n].terms)
        BY <1>2, <1>5, <2>1, <2>2, <3>1, <3>3 DEF Said
      <3>5. (\A n \in DOMAIN problems :
               /\ Right(problems[n].pos, problems[n].kind, problems[n].val)
               /\ RightTerms(problems[n].pos, problems[n].kind, problems[n].terms))'
        <4>1. \A p, kind, val : Right(p, kind, val) => Right(p, kind, val)'
          BY <1>1, SameWalk
        <4>2. PICK ps : ps = problems'
          OBVIOUS
        <4>3. \A n \in DOMAIN ps :
               /\ Right(ps[n].pos, ps[n].kind, ps[n].val)'
               /\ RightTerms(ps[n].pos, ps[n].kind, ps[n].terms)'
          BY <2>3, <3>4, <4>1, <4>2
        <4>. QED
          BY <4>2, <4>3
      <3>6. \A n, m \in DOMAIN problems' : problems'[n].pos = problems'[m].pos => n = m
        <4>1. \A n \in DOMAIN problems : problems'[n].pos # Here
          BY <1>2, <1>4, <3>3 DEF Said
        <4>. QED
          BY <1>2, <3>1, <3>3, <4>1 DEF Said
      <3>7. \A p \in Passed' :
               /\ InstrAt(p).op # "other"
               /\ InstrAt(p).op = "br" \/ SaidBase(p) => \E n \in DOMAIN problems' : problems'[n].pos = p
        BY <1>2, <1>4, <1>5, <2>1, <3>1, <3>3 DEF Said
      <3>8. \A p \in Passed' :
               /\ InstrAt(p)'.op # "other"
               /\ InstrAt(p)'.op = "br" \/ SaidBase(p)' => \E n \in DOMAIN problems' : problems'[n].pos = p
        BY <1>1, <3>7, SameWalk
      <3>. QED
        BY <3>3, <3>4, <3>5, <3>6, <3>8 DEF Said
    <2>. QED
      BY <2>4, <2>5
  <1>. QED
    BY <1>6, <1>7, <1>8, <1>9 DEF WalkInv

LEMMA PlacesCountFromOne ==
    TypeOK => \A p \in Places : p[1] \in Nat \ {0} /\ p[2] \in Nat \ {0}
  <1>. SUFFICES ASSUME TypeOK, NEW p \in Places
                PROVE  p[1] \in Nat \ {0} /\ p[2] \in Nat \ {0}
    OBVIOUS
  <1>1. job.blocks[nodes[p[1]]] \in Block
    BY AtPlace, JobParts
  <1>2. Len(Instrs(nodes[p[1]])) \in Nat
    BY <1>1 DEF Block, Instrs
  <1>. QED
    BY <1>2, AtPlace, JobParts

LEMMA StartWalk ==
    ASSUME TypeOK, TypeOK', StartQuery, isFirstNondet'
    PROVE  WalkInv'
  <1>1. /\ pc' = "next" /\ i' = 1 /\ j' = 1 /\ problems' = << >>
        /\ defs' = [v \in Value |-> 0]
    BY DEF StartQuery
  <1>2. Passed' = {}
    <2>1. \A p \in Places' : p[1] \in Nat \ {0} /\ p[2] \in Nat \ {0}
      <3>1. (TypeOK => \A p \in Places : p[1] \in Nat \ {0} /\ p[2] \in Nat \ {0})'
        BY PlacesCountFromOne, PTL
      <3>. QED
        BY <3>1
    <2>2. \A p \in Places' : ~Earlier(p, <<1, 1>>)
      BY <2>1 DEF Earlier
    <2>3. Passed' = {p \in Places' : Earlier(p, <<1, 1>>)}
      BY <1>1 DEF Passed, Here, Earlier
    <2>. QED
      BY <2>2, <2>3
  <1>3. OnTheWay' /\ InHand'
    BY <1>1 DEF OnTheWay, InHand
  <1>4. FlagTells'
    <2>1. Begun' = {}
      BY <1>1, <1>2 DEF Begun
    <2>. QED
      BY <2>1 DEF FlagTells
  <1>5. CountsRight'
    <2>1. IsFiniteSet(Passed')
      BY <1>2, FS_EmptySet
    <2>2. \A v : PassedOf(v)' = {}
      BY <1>2 DEF PassedOf
    <2>3. \A v : Cardinality(PassedOf(v)') = 0
      BY <2>2, FS_EmptySet
    <2>4. \A v \in Value : defs'[v] = 0
      BY <1>1
    <2>. QED
      BY <1>1, <2>1, <2>3, <2>4 DEF CountsRight
  <1>6. Said'
    <2>1. problems' \in Seq(ProblemType) /\ DOMAIN problems' = {}
      BY <1>1
    <2>. QED
      BY <1>2, <2>1 DEF Said
  <1>. QED
    BY <1>3, <1>4, <1>5, <1>6 DEF WalkInv

LEMMA EndBlockWalk ==
    ASSUME TypeOK, WalkInv, EndBlock
    PROVE  WalkInv'
  <1>1. /\ pc = "next" /\ i <= Len(nodes) /\ j > Len(Instrs(nodes[i])) /\ i' = i + 1 /\ j' = 1 /\ pc' = pc
        /\ UNCHANGED <<job, q, isFirstNondet, problems, defs, denotes>>
    BY DEF EndBlock, hist
  <1>2. OnTheWay /\ FlagTells /\ CountsRight /\ InHand /\ Said
    BY <1>1 DEF WalkInv
  <1>3. Passed' = Passed
    <2>1. \A p \in Places : Earlier(p, <<i + 1, 1>>) <=> Earlier(p, Here)
      <3>. TAKE p \in Places
      <3>1. /\ p[1] \in Nat /\ p[2] \in Nat /\ i \in Nat /\ j \in Nat
            /\ p[2] \in 1..Len(Instrs(nodes[p[1]]))
        BY AtPlace DEF TypeOK
      <3>2. p[1] = i => p[2] < j
        <4>1. i \in DOMAIN nodes
          BY <1>1, JobParts DEF TypeOK
        <4>2. job.blocks[nodes[i]] \in Block
          BY <4>1, JobParts
        <4>3. Len(Instrs(nodes[i])) \in Nat
          BY <4>2 DEF Block, Instrs
        <4>. QED
          BY <1>1, <3>1, <4>3
      <3>3. p[2] >= 1
        BY PlacesCountFromOne
      <3>. QED
        BY <3>1, <3>2, <3>3 DEF Earlier, Here
    <2>2. Passed' = {p \in Places : Earlier(p, <<i + 1, 1>>)}
      BY <1>1, SameWalk DEF Passed, Here, Earlier
    <2>. QED
      BY <2>1, <2>2 DEF Passed
  <1>4. OnTheWay' /\ InHand'
    BY <1>1 DEF OnTheWay, InHand
  <1>5. FlagTells'
    BY <1>1, <1>2, <1>3, SameWalk DEF FlagTells, Begun
  <1>6. CountsRight'
    <2>1. \A v : PassedOf(v)' = PassedOf(v)
      BY <1>1, <1>3, SameWalk DEF PassedOf
    <2>2. \A v \in Value : Countable(v) => defs[v] = Cardinality(PassedOf(v)) + 0
      BY <1>1, <1>2 DEF CountsRight
    <2>. QED
      BY <1>1, <1>2, <1>3, <2>1, <2>2, SameWalk DEF CountsRight
  <1>7. Said'
    <2>1. \A p, kind, cs : RightTerms(p, kind, cs) => RightTerms(p, kind, cs)'
      BY <1>1, TermsStayRight
    <2>. QED
      BY <1>1, <1>2, <1>3, <2>1, SameWalk DEF Said
  <1>. QED
    BY <1>4, <1>5, <1>6, <1>7 DEF WalkInv

LEMMA EncodedWalk ==
    ASSUME TypeOK, WalkInv, EncodingDone
    PROVE  WalkInv'
  <1>1. /\ pc = "next" /\ i > Len(nodes) /\ pc' \in {"check", "abort"}
        /\ UNCHANGED <<place, job, q, i, isFirstNondet, problems, defs, denotes>>
    BY DEF EncodingDone, Encoded, place, hist
  <1>2. OnTheWay /\ FlagTells /\ CountsRight /\ InHand /\ Said
    BY <1>1 DEF WalkInv
  <1>3. OnTheWay' /\ InHand'
    BY <1>1, SamePlace DEF OnTheWay, InHand
  <1>4. FlagTells'
    BY <1>1, <1>2, SameWalk, SamePlace DEF FlagTells, Begun
  <1>5. CountsRight'
    <2>1. \A v \in Value : Countable(v) => defs[v] = Cardinality(PassedOf(v)) + 0
      BY <1>1, <1>2 DEF CountsRight
    <2>. QED
      BY <1>1, <1>2, <2>1, SameWalk, SamePlace DEF CountsRight
  <1>6. Said'
    BY <1>1, <1>2, SaidStays
  <1>. QED
    BY <1>3, <1>4, <1>5, <1>6 DEF WalkInv

LEMMA NextWalk ==
    ASSUME TypeOK, TypeOK', WalkInv, [Next]_vars
    PROVE  WalkInv'
  <1>1. CASE Encoding
    BY <1>1, EncodingWalk
  <1>2. CASE Lookup
    <2>1. pc = "lookup" /\ todo # << >>
      BY <1>2 DEF Lookup, Looking, GetKnown, GetNew, RefreshNew, RefreshKnown, RefreshPointer,
             LookupFails, RefreshGlobalFails
    <2>2. CASE LookupFails \/ RefreshGlobalFails
      BY <2>2 DEF LookupFails, RefreshGlobalFails, Abort, WalkInv
    <2>3. CASE ~LookupFails /\ ~RefreshGlobalFails
      <3>1. PICK c : Found(c)
        BY <1>2, <2>3 DEF Lookup, GetKnown, GetNew, RefreshNew, FirstVersion, RefreshKnown, RefreshPointer
      <3>. QED
        BY <2>1, <3>1, FoundWalk
    <2>. QED
      BY <2>2, <2>3
  <1>3. CASE EndInstruction
    BY <1>3, EndInstructionWalk
  <1>4. CASE EndBlock
    BY <1>4, EndBlockWalk
  <1>5. CASE InductionNext
    <2>1. isFirstNondet'
      <3>1. FlagTells /\ mode = "inductive"
        BY <1>5 DEF InductionNext, Encoded, WalkInv
      <3>. QED
        BY <1>5, <3>1 DEF FlagTells, InductionNext
    <2>. QED
      BY <1>5, <2>1, StartWalk DEF InductionNext
  <1>6. CASE EncodingDone
    BY <1>6, EncodedWalk
  <1>7. CASE Unsat
    BY <1>7, StartWalk DEF Unsat
  <1>8. CASE Answered \/ Unknown
    BY <1>8 DEF Answered, Unknown, Abort, WalkInv
  <1>9. CASE UNCHANGED vars
    <2>1. UNCHANGED <<place, problems, isFirstNondet, todo, terms, asserts, before, defs, denotes, pc, job, q>>
      BY <1>9 DEF vars, place, hist
    <2>2. CASE pc \in {"next", "lookup", "check"}
      <3>1. OnTheWay /\ FlagTells /\ CountsRight /\ InHand /\ Said
        BY <2>2 DEF WalkInv
      <3>2. OnTheWay'
        BY <2>1, <3>1, SamePlace DEF OnTheWay
      <3>3. FlagTells'
        BY <2>1, <3>1, SameWalk, SamePlace DEF FlagTells, Begun
      <3>4. CountsRight'
        <4>1. (RefreshLeft' <=> RefreshLeft) /\ (OneRefresh(todo)' <=> OneRefresh(todo))
          BY <2>1, SamePlace, SameWalk DEF RefreshLeft, OneRefresh
        <4>. QED
          BY <2>1, <3>1, <4>1, SameWalk, SamePlace DEF CountsRight
      <3>5. InHand'
        <4>1. \A p, kind, cs : RightTerms(p, kind, cs) => RightTerms(p, kind, cs)'
          BY <2>1, TermsStayRight
        <4>. QED
          BY <2>1, <3>1, <4>1, SameWalk, SamePlace DEF InHand
      <3>6. Said'
        BY <2>1, <3>1, SaidStays
      <3>. QED
        BY <3>2, <3>3, <3>4, <3>5, <3>6 DEF WalkInv
    <2>3. CASE pc \notin {"next", "lookup", "check"}
      BY <2>1, <2>3 DEF WalkInv
    <2>. QED
      BY <2>2, <2>3
  <1>. QED
    BY <1>1, <1>2, <1>3, <1>4, <1>5, <1>6, <1>7, <1>8, <1>9 DEF Next, Ended

LEMMA InitWalk ==
    ASSUME Init, TypeOK
    PROVE  WalkInv
  <1>1. /\ pc = "next" /\ i = 1 /\ j = 1 /\ problems = << >> /\ isFirstNondet
        /\ defs = [v \in Value |-> 0]
    BY DEF Init
  <1>2. Passed = {}
    BY <1>1, PlacesCountFromOne DEF Passed, Here, Earlier
  <1>3. OnTheWay /\ InHand
    BY <1>1 DEF OnTheWay, InHand
  <1>4. FlagTells
    BY <1>1, <1>2 DEF FlagTells, Begun
  <1>5. CountsRight
    <2>1. \A v : PassedOf(v) = {}
      BY <1>2 DEF PassedOf
    <2>. QED
      BY <1>1, <1>2, <2>1, FS_EmptySet DEF CountsRight
  <1>6. Said
    <2>1. problems \in Seq(ProblemType) /\ DOMAIN problems = {}
      BY <1>1
    <2>. QED
      BY <1>2, <2>1 DEF Said
  <1>. QED
    BY <1>3, <1>4, <1>5, <1>6 DEF WalkInv

(****************************************************************************)
(* The walk is followed faithfully in every run, for all programs.          *)
(****************************************************************************)
THEOREM WalkFollowed == Spec => []WalkInv
  <1>1. Init => TypeOK /\ WalkInv
    BY InitInv, InitWalk DEF IInv
  <1>2. TypeOK /\ TypeOK' /\ WalkInv /\ [Next]_vars => WalkInv'
    BY NextWalk
  <1>. QED
    BY <1>1, <1>2, TypeCorrect, PTL DEF Spec

(****************************************************************************)
(* At the end of a query all places were passed.                            *)
(****************************************************************************)
LEMMA AllPassed ==
    ASSUME TypeOK, WalkInv, pc = "check"
    PROVE  Passed = Places /\ Said
  <1>1. i > Len(nodes) /\ Said /\ i \in Nat
    BY DEF WalkInv, OnTheWay, TypeOK
  <1>2. \A p \in Places : p[1] < i
    BY <1>1, AtPlace, JobParts
  <1>. QED
    BY <1>1, <1>2 DEF Passed, Earlier, Here

(****************************************************************************)
(* A round of the base case fixes the first nondet value on its way to the  *)
(* number of the round, and nothing else; the inductive step fixes none.    *)
(****************************************************************************)
THEOREM FirstNondetPinned == Spec => []NondetPinned
  <1>1. ASSUME TypeOK, WalkInv PROVE NondetPinned
    <2>. SUFFICES ASSUME pc = "check"
                  PROVE  LET pins == {n \in DOMAIN problems : problems[n].kind = "pin"}
                         IN  /\ {problems[n].pos : n \in pins} = IF mode = "base" THEN FirstNondets ELSE {}
                             /\ \A n \in pins :
                                   /\ problems[n].val = q
                                   /\ problems[n].terms \subseteq ConstantsOf(InstrAt(problems[n].pos).res, 1)
      BY DEF NondetPinned
    <2>. DEFINE pins == {n \in DOMAIN problems : problems[n].kind = "pin"}
    <2>1. Passed = Places /\ Said
      BY <1>1, AllPassed
    <2>2. \A n \in DOMAIN problems : problems[n].kind = "pin" <=> SaidBase(problems[n].pos)
      BY <2>1 DEF Said, Right
    <2>3. \A n \in pins :
             /\ problems[n].val = q
             /\ problems[n].terms \subseteq ConstantsOf(InstrAt(problems[n].pos).res, 1)
      BY <2>1 DEF Said, Right, RightTerms
    <2>4. \A p : SaidBase(p) => \E n \in pins : problems[n].pos = p
      <3>1. \A p : SaidBase(p) => p \in Places
        BY DEF SaidBase, FirstNondets, NondetPlaces
      <3>. QED
        BY <2>1, <2>2, <3>1 DEF Said
    <2>5. \A p : SaidBase(p) <=> p \in IF mode = "base" THEN FirstNondets ELSE {}
      BY DEF SaidBase
    <2>6. {problems[n].pos : n \in pins} = IF mode = "base" THEN FirstNondets ELSE {}
      BY <2>2, <2>4, <2>5
    <2>. QED
      BY <2>3, <2>6
  <1>. QED
    BY <1>1, TypeCorrect, WalkFollowed, PTL

(****************************************************************************)
(* A query says of every conditional branch on its way, once, that its      *)
(* condition had the value that leads to the next node, and says it of the  *)
(* condition as computed last before the branch.                            *)
(****************************************************************************)
THEOREM PathIsConditioned == Spec => []PathConditions
  <1>1. ASSUME TypeOK, WalkInv PROVE PathConditions
    <2>. SUFFICES ASSUME pc = "check", NEW p \in Places, p[1] < Len(nodes),
                         InstrAt(p).op = "br", NamedTargets(InstrAt(p))
                  PROVE  LET said == {n \in DOMAIN problems : problems[n].pos = p}
                         IN  /\ Cardinality(said) = 1
                             /\ \A n \in said :
                                   /\ problems[n].kind = "branch"
                                   /\ InstrAt(p).bbs[IF problems[n].val = 1 THEN 1 ELSE 2] = nodes[p[1]+1]
                                   /\ problems[n].terms \subseteq
                                         ConstantsOf(InstrAt(p).args[1], Executions(InstrAt(p).args[1], p[1]))
      BY DEF PathConditions
    <2>. DEFINE said == {n \in DOMAIN problems : problems[n].pos = p}
    <2>1. p \in Passed /\ Said
      BY <1>1, AllPassed
    <2>2. PICK n \in DOMAIN problems : problems[n].pos = p
      BY <2>1 DEF Said
    <2>3. said = {n}
      BY <2>1, <2>2 DEF Said
    <2>4. Cardinality(said) = 1
      BY <2>3, FS_Singleton
    <2>5. /\ problems[n].kind = "branch"
          /\ InstrAt(p).bbs[IF problems[n].val = 1 THEN 1 ELSE 2] = nodes[p[1]+1]
      BY <2>1, <2>2 DEF Said, Right
    <2>6. problems[n].terms \subseteq ConstantsOf(InstrAt(p).args[1], Executions(InstrAt(p).args[1], p[1]))
      BY <2>1, <2>2, <2>5 DEF Said, RightTerms
    <2>. HIDE DEF said
    <2>7. \A m \in said : m = n
      BY <2>3
    <2>. QED
      BY <2>4, <2>5, <2>6, <2>7 DEF said
  <1>. QED
    BY <1>1, TypeCorrect, WalkFollowed, PTL
==============================================================================
