--------------------------- MODULE MCErrPathInNode ---------------------------
(****************************************************************************)
(* The paths from the first loop to an error block further down, in every   *)
(* plan and with every shape of loop.                                       *)
(****************************************************************************)
EXTENDS ErrPathInNode, MCGraphs

MCNodeGraphs == GraphsOf(Plans, AllShapes)
==============================================================================
