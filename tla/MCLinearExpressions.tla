------------------------ MODULE MCLinearExpressions ------------------------
(****************************************************************************)
(* Polynomials over two instructions, so that operands differ in the        *)
(* monomials they have; coefficients up to 2 cancel, double and halve.      *)
(****************************************************************************)
EXTENDS LinearExpressions

MCCoefs == -1..2
MCFactors == {-1, 0, 2}
MCDivisors == {0, 2}
==============================================================================
