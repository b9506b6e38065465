---------------------------- MODULE ErrPathSearch ----------------------------
(****************************************************************************)
(* What the two searches for an error path have in common: verify() calls   *)
(* one of them, on the graph it has built.                                  *)
(****************************************************************************)
EXTENDS Paths

VARIABLES
    g,              \* the graph
    pc              \* where the search stands
==============================================================================
