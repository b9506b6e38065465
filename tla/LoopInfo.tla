------------------------------ MODULE LoopInfo ------------------------------
(****************************************************************************)
(* The loops of a control-flow graph as LLVM's loop analysis finds them and *)
(* as WrapLCSSAInfoPass records them, used to give the model-checked        *)
(* programs the loops they would really have.                               *)
(****************************************************************************)
EXTENDS CFG, FiniteSets

(****************************************************************************)
(* The blocks that a walk from S reaches without entering Avoid; succ maps  *)
(* each block to the sequence of its successors.                            *)
(****************************************************************************)
Walk(succ, S, Avoid) ==
    LET step[n \in 0..Cardinality(DOMAIN succ)] ==
            IF n = 0 THEN S \ Avoid
            ELSE LET seen == step[n-1]
                 IN  seen \cup ((UNION {ToSet(succ[b]) : b \in seen}) \ Avoid)
    IN  step[Cardinality(DOMAIN succ)]

(****************************************************************************)
(* For each block, the reachable blocks it dominates.                       *)
(****************************************************************************)
Dominated(succ, entry) ==
    LET reached == Walk(succ, {entry}, {})
    IN  [d \in DOMAIN succ |-> reached \ Walk(succ, {entry}, {d})]

(****************************************************************************)
(* A loop per target of a back edge, an edge whose target dominates its     *)
(* source; its body is what reaches such a source without passing the       *)
(* header.                                                                  *)
(****************************************************************************)
Latches(succ, dom, h) == {b \in dom[h] : h \in ToSet(succ[b])}

Body(succ, dom, h) ==
    {h} \cup {b \in dom[h] \ {h} : Walk(succ, {b}, {h}) \cap Latches(succ, dom, h) # {}}

(****************************************************************************)
(* The blocks in the order in which a depth-first walk from the entry, over *)
(* the successors in order, leaves them.                                    *)
(****************************************************************************)
Postorder(succ, entry) ==
    LET walk[stack \in Seq(DOMAIN succ), seen \in SUBSET DOMAIN succ] ==
            LET unseen(b) == SelectSeq(succ[b], LAMBDA c : c \notin seen)
            IN  IF stack = << >> THEN << >>
                ELSE IF unseen(Last(stack)) = << >>
                     THEN <<Last(stack)>> \o walk[Front(stack), seen]
                     ELSE LET c == Head(unseen(Last(stack)))
                          IN  walk[Append(stack, c), seen \cup {c}]
    IN  walk[<<entry>>, {entry}]

(****************************************************************************)
(* The block vector: the header, and then the other blocks in reverse       *)
(* postorder.                                                               *)
(****************************************************************************)
BlocksVector(h, body, order) == <<h>> \o SelectSeq(order, LAMBDA b : b \in body \ {h})

(****************************************************************************)
(* getLoopLatch: the block with the edge back to the header, null when      *)
(* there are several such edges.                                            *)
(****************************************************************************)
LoopLatch(succ, dom, h) ==
    LET backEdges == UNION {{b} \X {j \in DOMAIN succ[b] : succ[b][j] = h} : b \in Latches(succ, dom, h)}
    IN  IF Cardinality(backEdges) = 1 THEN (CHOOSE e \in backEdges : TRUE)[1] ELSE NoBlock

(****************************************************************************)
(* runOnLoop: header, latch and block vector of one loop.                   *)
(****************************************************************************)
RunOnLoop(succ, dom, order, h) ==
    LET body == Body(succ, dom, h)
    IN  [header |-> h,
         latch |-> LoopLatch(succ, dom, h),
         bbVec |-> BlocksVector(h, body, order)]

(****************************************************************************)
(* The loop pass manager visits inner loops before the loops around them,   *)
(* which are larger.                                                        *)
(****************************************************************************)
LCSSAInfo(succ, entry) ==
    LET dom == Dominated(succ, entry)
        order == Reverse(Postorder(succ, entry))
        headers == {h \in DOMAIN succ : Latches(succ, dom, h) # {}}
        loops == {RunOnLoop(succ, dom, order, h) : h \in headers}
    IN  SetToSortSeq(loops, LAMBDA a, b : Len(a.bbVec) < Len(b.bbVec))
==============================================================================
