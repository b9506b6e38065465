----------------------------- MODULE MCInitPaths -----------------------------
(****************************************************************************)
(* The way to the first loop, in every plan; the search never looks inside  *)
(* a loop, so two shapes are enough.                                        *)
(****************************************************************************)
EXTENDS InitPaths, MCGraphs

MCInitGraphs == GraphsOf(Plans, {"self", "both"})
==============================================================================
