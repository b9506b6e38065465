------------------------------ MODULE MCGraphs ------------------------------
(****************************************************************************)
(* The graphs on which the path searches, the unrolling and verify() itself *)
(* are checked.  A graph is drawn as a plan, a sequence of regions each of  *)
(* which is a block or a loop, with edges to later regions only; every loop *)
(* of the plan is then built in each shape a loop can take.  All of them    *)
(* but those with two latches are in the form loop rotation leaves: a loop  *)
(* is entered over an edge of its own, has one latch, and its exit blocks   *)
(* are reached from it only.                                                *)
(****************************************************************************)
EXTENDS Paths, LoopInfo

(****************************************************************************)
(* The blocks of a loop at first, for the targets to (one or two).          *)
(*   self    one block                                                      *)
(*   header  header and latch, the exits leave from the header              *)
(*   latch   header and latch, the exit leaves from the latch               *)
(*   both    header and latch, an exit from each                            *)
(*   nest    an inner loop; the outer one exits from its latch              *)
(*   nestH   an inner loop; the outer one exits from its header             *)
(*   break   an inner loop that leaves both at once; the outer one exits    *)
(*           from its latch                                                 *)
(*   mid     an inner loop that is left between its header and its latch,   *)
(*           so neither can be rotated away; the outer one exits from its   *)
(*           header and its latch                                           *)
(*   two     two latches, as before the loops are simplified; the exits     *)
(*           leave from the header                                          *)
(****************************************************************************)
LoopShape(shape, f, to) ==
    CASE shape = "self"   -> <<<<f, to[1]>>>>
      [] shape = "header" -> <<<<f+1, to[1]>>, <<f>>>>
      [] shape = "latch"  -> <<<<f+1>>, <<f, to[1]>>>>
      [] shape = "both"   -> <<<<to[1], f+1>>, <<f, Last(to)>>>>
      [] shape = "nest"   -> <<<<f+1>>, <<f+2, f+1>>, <<f, to[1]>>>>
      [] shape = "nestH"  -> <<<<to[1], f+1>>, <<f+2>>, <<f+3, f+2>>, <<f>>>>
      [] shape = "break"  -> <<<<f+1>>, <<to[1], f+2>>, <<f+1, f+3>>, <<f, Last(to)>>>>
      [] shape = "mid"    -> <<<<to[1], f+1>>, <<f+2, f+3>>, <<f+3>>, <<f+4, f+5>>, <<f+1>>, <<f, Last(to)>>>>
      [] shape = "two"    -> <<<<to[1], f+1>>, <<f, f+2>>, <<f>>>>

Size(shape) == Len(LoopShape(shape, 1, <<1>>))

(****************************************************************************)
(* The successors of the blocks of a plan; shapes gives the shape of each   *)
(* region, "block" for a single block outside the loops.                    *)
(****************************************************************************)
Draw(plan, shapes) ==
    LET size(r) == IF shapes[r] = "block" THEN 1 ELSE Size(shapes[r])
        first[r \in 1..Len(plan)+1] == IF r = 1 THEN 1 ELSE first[r-1] + size(r-1)
        to(r) == [j \in DOMAIN plan[r].to |-> first[plan[r].to[j]]]
    IN  FlattenSeq([r \in DOMAIN plan |->
            IF shapes[r] = "block" THEN <<to(r)>> ELSE LoopShape(shapes[r], first[r], to(r))])

(****************************************************************************)
(* Every way to shape the loops of a plan; only three of them have two      *)
(* exits.                                                                   *)
(****************************************************************************)
Drawings(plan, LoopShapes) ==
    LET loops == {r \in DOMAIN plan : plan[r].kind = "loop"}
        fits(shape, r) == IF Len(plan[r].to) = 2 THEN shape \in {"both", "break", "mid"} ELSE shape # "break"
    IN  {Draw(plan, [r \in DOMAIN plan |-> IF r \in loops THEN s[r] ELSE "block"]) :
            s \in {t \in [loops -> LoopShapes] : \A r \in loops : fits(t[r], r)}}

(****************************************************************************)
(* The vector that buildCFG makes of the blocks.                            *)
(****************************************************************************)
Discovered(succ) ==
    LET add(seen, b) == IF b \in ToSet(seen) THEN seen ELSE Append(seen, b)
        order[i \in 0..Len(succ)] ==
            IF i = 0 THEN <<1>> ELSE LET seen == order[i-1] IN FoldLeft(add, seen, succ[seen[i]])
    IN  order[Len(succ)]

Built(succ, loops, errors, named) ==
    LET order == Discovered(succ)
        index(b) == CHOOSE i \in DOMAIN order : order[i] = b
        around(b) == {l \in DOMAIN loops : b \in ToSet(loops[l].bbVec)}
        node(b) == [bb |-> b,
                    isLoopNode |-> around(b) # {},
                    LCSSAIndex |-> IF around(b) = {} THEN NoIndex ELSE Max(around(b)),
                    childs |-> [j \in DOMAIN succ[b] |-> index(succ[b][j])]]
    IN  [CFGNodeVec |-> [i \in DOMAIN order |-> node(order[i])],
         LCSSAs |-> loops, errors |-> errors, named |-> named]

------------------------------------------------------------------------------
B(to) == [kind |-> "block", to |-> to]

L(to) == [kind |-> "loop", to |-> to]

End == B(<< >>)

(****************************************************************************)
(* Plans with one region after another, branches before, between and after  *)
(* loops, joins, loops in both arms of a branch, and a loop with two exits. *)
(****************************************************************************)
OneLoop == <<B(<<2>>), L(<<3>>), End>>
CheckAfterLoop == <<B(<<2>>), L(<<3>>), B(<<4, 5>>), End, End>>
GuardedLoop == <<B(<<5, 2>>), B(<<3>>), L(<<4>>), B(<<5>>), B(<<6, 7>>), End, End>>
LoopThenLoop == <<B(<<2>>), L(<<3>>), B(<<4>>), L(<<5>>), B(<<7, 6>>), End, End>>
LoopAfterDiamond == <<B(<<2, 3>>), B(<<4>>), B(<<4>>), B(<<5>>), L(<<6>>), B(<<7, 8>>), End, End>>
DiamondAfterLoop == <<B(<<2>>), L(<<3>>), B(<<4, 5>>), B(<<6>>), B(<<6, 7>>), End, End>>
LoopPerArm == <<B(<<2, 3>>), B(<<4>>), B(<<5>>), L(<<6>>), L(<<7>>), B(<<8>>), B(<<8, 9>>), End, End>>
SkippedLoop == <<B(<<2>>), L(<<3>>), B(<<4, 7>>), B(<<5>>), L(<<6>>), B(<<7>>), B(<<8, 9>>), End, End>>
TwoExits == <<B(<<2>>), L(<<3, 4>>), End, End>>
TwoExitsLater == <<B(<<2>>), L(<<3>>), B(<<4>>), L(<<5, 6>>), End, End>>
ErrorAtTheEnd == <<B(<<2>>), L(<<3>>), B(<<4>>), L(<<5>>), End>>
TwoExitsThenCheck == <<B(<<2>>), L(<<3, 4>>), B(<<5>>), B(<<5, 6>>), B(<<6, 7>>), End, End>>
DoubleEdge == <<B(<<2, 2>>), B(<<3>>), L(<<4>>), B(<<5, 5>>), B(<<6, 7>>), End, End>>

Plans == {OneLoop, CheckAfterLoop, GuardedLoop, LoopThenLoop, LoopAfterDiamond,
          DiamondAfterLoop, LoopPerArm, SkippedLoop, TwoExits, TwoExitsLater,
          TwoExitsThenCheck, DoubleEdge}

(****************************************************************************)
(* Every drawing of the plans with one of its ending blocks as the error    *)
(* block, which is then also the block named ERROR.                         *)
(****************************************************************************)
WithOneError(succ) ==
    LET loops == LCSSAInfo(succ, 1)
    IN  {Built(succ, loops, {e}, {e}) : e \in {b \in DOMAIN succ : succ[b] = << >>}}

GraphsOf(plans, LoopShapes) ==
    UNION {WithOneError(succ) : succ \in UNION {Drawings(p, LoopShapes) : p \in plans}}

MCBlock == 1..25

AllShapes == {"self", "header", "latch", "both", "nest", "nestH", "break", "mid"}
==============================================================================
