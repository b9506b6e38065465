----------------------------- MODULE MCBuildCFG -----------------------------
(****************************************************************************)
(* Every control-flow graph over four blocks, up to the names of the        *)
(* blocks: each block ends in a return, a jump or a two-way branch, nothing *)
(* jumps to the entry, and the entry's targets are 2 or 2 and 3.  Cyclic,   *)
(* irreducible and partly unreachable graphs are among them.                *)
(****************************************************************************)
EXTENDS BuildCFG, LoopInfo

MCBlock == 1..4

MCTargets == MCBlock \ {1}

MCTerminators == {<< >>} \cup {<<b>> : b \in MCTargets} \cup (MCTargets \X MCTargets)

MCSuccs ==
    {<<entry>> \o rest : entry \in {<<2>>, <<2, 3>>},
                         rest \in MCTerminators \X MCTerminators \X MCTerminators}

MCPrograms ==
    {[entry |-> 1, succ |-> s, LCSSAs |-> LCSSAInfo(s, 1)] : s \in MCSuccs}
==============================================================================
