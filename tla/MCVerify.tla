------------------------------ MODULE MCVerify ------------------------------
(****************************************************************************)
(* Whole runs of the verifier on the drawings of a few plans with every     *)
(* answer the solver may give: error blocks after loops, right behind a     *)
(* loop and inside a nest, or where no loop is on the way; two error blocks *)
(* at once; a program whose only assertion is its return value, one without *)
(* loops, one without assertions, one with a call.                          *)
(****************************************************************************)
EXTENDS Verify, MCGraphs

CheckBeforeLoop == <<B(<<4, 2>>), B(<<3>>), L(<<5>>), End, End>>

MCVerifyPlans == {OneLoop, CheckAfterLoop, CheckBeforeLoop, TwoExits, DiamondAfterLoop}

MCVerifyTwoLoops == {LoopThenLoop, ErrorAtTheEnd, LoopPerArm}

NoLoop == <<B(<<2, 3>>), End, End>>

Ends(gr) == {n.bb : n \in {m \in ToSet(gr.CFGNodeVec) : m.childs = << >>}}

Analysed ==
    GraphsOf(MCVerifyPlans, AllShapes)
        \cup GraphsOf(MCVerifyTwoLoops, {"self", "latch", "both"})
        \cup GraphsOf({NoLoop}, {"self"})
        \cup {[gr EXCEPT !.errors = Ends(gr), !.named = Ends(gr)] :
                  gr \in GraphsOf({CheckAfterLoop, CheckBeforeLoop, TwoExits}, {"self", "both"})}

WithoutError == {[gr EXCEPT !.errors = {}, !.named = {}] : gr \in GraphsOf({CheckAfterLoop}, {"self"})}

MCVerifyGraphs == Analysed \cup WithoutError

MCModules ==
    [graph : MCVerifyGraphs, hasNotExpandedCalls : {FALSE}, hasAssertions : {TRUE}]
        \cup [graph : WithoutError, hasNotExpandedCalls : BOOLEAN, hasAssertions : {FALSE}]
==============================================================================
