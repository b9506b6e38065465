----------------------------- MODULE MCBaseCase -----------------------------
(****************************************************************************)
(* The base case for every path found in graphs with an error block after   *)
(* the loops or right behind one, for k up to 3: enough for a first, a      *)
(* middle and a last round.  Loops with two latches are stopped by an       *)
(* assertion.                                                               *)
(****************************************************************************)
EXTENDS BaseCase, MCGraphs

MCBasePlans ==
    {OneLoop, CheckAfterLoop, LoopThenLoop, DiamondAfterLoop, TwoExits, TwoExitsLater,
     TwoExitsThenCheck}

(****************************************************************************)
(* A block that calls reach_error, is not named ERROR, and goes on with a   *)
(* branch: nothing says that reach_error is followed by abort.              *)
(****************************************************************************)
WithOpenError(succ) ==
    LET loops == LCSSAInfo(succ, 1)
        inLoops == UNION {ToSet(loops[l].bbVec) : l \in DOMAIN loops}
    IN  {Built(succ, loops, {e}, {}) : e \in {b \in DOMAIN succ \ inLoops : Len(succ[b]) = 2}}

OpenPlans == {DiamondAfterLoop, TwoExitsThenCheck}

MCBaseGraphs ==
    GraphsOf(MCBasePlans, AllShapes \cup {"two"})
        \cup UNION {WithOpenError(succ) : succ \in UNION {Drawings(p, AllShapes) : p \in OpenPlans}}
==============================================================================
