--------------------------- MODULE MCErrPathInLoop ---------------------------
(****************************************************************************)
(* The path to the loop that leads to the error block, with every shape of  *)
(* loop: the error block may hang off the header or the latch, loops on the *)
(* way may be left by their latch only, and the way may lead past dead ends *)
(* and joins.  In some of the graphs no block is named ERROR, as when clang *)
(* discards the names.                                                      *)
(****************************************************************************)
EXTENDS ErrPathInLoop, MCGraphs

DeadEndFirst == <<B(<<2>>), L(<<3>>), B(<<4, 5>>), End, B(<<6>>), L(<<7, 8>>), End, End>>
DiamondBetween == <<B(<<2>>), L(<<3>>), B(<<4, 5>>), B(<<6>>), B(<<6>>), B(<<7>>), L(<<8, 9>>), End, End>>
ErrorLoopInArm == <<B(<<2, 3>>), B(<<4>>), B(<<5>>), L(<<6>>), L(<<7, 8>>), End, End, End>>
DeadLoopFirst == <<B(<<2>>), L(<<3>>), B(<<4, 5>>), B(<<6>>), B(<<7>>), L(<<10>>), L(<<8, 9>>), End, End, End>>

InLoopPlans ==
    {OneLoop, TwoExits, TwoExitsLater, DeadEndFirst, DiamondBetween, ErrorLoopInArm,
     DeadLoopFirst, ErrorAtTheEnd}

MCNamedGraphs == GraphsOf(InLoopPlans, AllShapes)

MCUnnamedGraphs ==
    {[gr EXCEPT !.named = {}] : gr \in GraphsOf({OneLoop, TwoExits, TwoExitsLater}, AllShapes)}

MCLoopGraphs == MCNamedGraphs \cup MCUnnamedGraphs
==============================================================================
