--------------------------------- MODULE CFG ---------------------------------
(****************************************************************************)
(* The data the verifier works on.                                          *)
(*                                                                          *)
(* A program is what LLVM hands to verify() after loop rotation: main's     *)
(* entry block, the successors of each block in terminator order, and the   *)
(* loops in the order in which the loop pass manager visits them.  The      *)
(* verifier's own view of it is CFGNodeVec, a vector of CFGNode records     *)
(* that refer to each other by index.                                       *)
(*                                                                          *)
(* Vectors are sequences, so the code's index i is position i+1 here, and   *)
(* the code's "no index" -1 is NoIndex = 0.                                 *)
(****************************************************************************)
EXTENDS Naturals, Sequences, SequencesExt

CONSTANTS
    Block,      \* the basic blocks (llvm::BasicBlock*)
    NoBlock     \* nullptr

ASSUME NoBlockAssumption == NoBlock \notin Block

NoIndex == 0

(****************************************************************************)
(* struct LCSSA: what the loop pass records of a loop.  Only the two ends   *)
(* of the back edge and the block vector are ever read.  The latch is that  *)
(* of getLoopLatch(), null when several edges lead back.                    *)
(****************************************************************************)
LCSSA == [header : Block, latch : Block \cup {NoBlock}, bbVec : Seq(Block)]

Program == [entry : Block, succ : [Block -> Seq(Block)], LCSSAs : Seq(LCSSA)]

CFGNodes == [bb : Block, isLoopNode : BOOLEAN, LCSSAIndex : Nat, childs : Seq(Nat)]

(****************************************************************************)
(* The index that find() computes over a vector, or NoIndex when the        *)
(* element is missing.                                                      *)
(****************************************************************************)
IndexByBB(vec, bb) == SelectInSeq(vec, LAMBDA n : n.bb = bb)

BBs(vec) == {vec[i].bb : i \in DOMAIN vec}

(****************************************************************************)
(* Reachability, stated without an algorithm: b is reachable from the entry *)
(* when every successor-closed set that holds the entry holds b.            *)
(****************************************************************************)
SuccClosed(p, S) == \A b \in S : ToSet(p.succ[b]) \subseteq S

Reachable(p) ==
    {b \in Block : \A S \in SUBSET Block :
        p.entry \in S /\ SuccClosed(p, S) => b \in S}

(****************************************************************************)
(* What the path searches and the unrolling may take for granted of the     *)
(* vector they walk: an index names one block, children are indexes, and    *)
(* the loop index of a node is that of the outermost loop around it, the    *)
(* same for every block of that loop.                                       *)
(****************************************************************************)
IsCFG(vec, LCSSAs) ==
    /\ vec # << >>
    /\ \A i \in DOMAIN vec :
          /\ \A j \in DOMAIN vec : vec[i].bb = vec[j].bb => i = j
          /\ ToSet(vec[i].childs) \subseteq DOMAIN vec
          /\ vec[i].isLoopNode <=> vec[i].LCSSAIndex # NoIndex
          /\ vec[i].isLoopNode =>
                /\ vec[i].LCSSAIndex \in DOMAIN LCSSAs
                /\ vec[i].bb \in ToSet(LCSSAs[vec[i].LCSSAIndex].bbVec)
    /\ \A l \in DOMAIN LCSSAs :
          /\ LCSSAs[l].header \in ToSet(LCSSAs[l].bbVec)
          /\ LCSSAs[l].latch \in ToSet(LCSSAs[l].bbVec) \cup {NoBlock}
          /\ ToSet(LCSSAs[l].bbVec) \subseteq BBs(vec)
          /\ \A i, j \in DOMAIN vec :
                {vec[i].bb, vec[j].bb} \subseteq ToSet(LCSSAs[l].bbVec)
                    => vec[i].LCSSAIndex = vec[j].LCSSAIndex
==============================================================================
