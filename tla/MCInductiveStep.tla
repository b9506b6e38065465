--------------------------- MODULE MCInductiveStep ---------------------------
(****************************************************************************)
(* The base case and the inductive step of every path found in the graphs   *)
(* of MCBaseCase.                                                           *)
(****************************************************************************)
EXTENDS InductiveStep, MCBaseCase
==============================================================================
