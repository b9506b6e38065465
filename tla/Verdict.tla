------------------------------- MODULE Verdict -------------------------------
(****************************************************************************)
(* What a run of the verifier promises, without paths or encodings.  There  *)
(* is a set of base cases to refute, fixed by the program; TRUE is answered *)
(* only when none is left, FALSE only when one of those left has a model,   *)
(* and an answer is never taken back.  A run may end without an answer.     *)
(****************************************************************************)
VARIABLES
    open,       \* the base cases that have not been refuted
    verdict     \* "none", "TRUE", "FALSE", "UNKNOWN" or "crash"

vars == <<open, verdict>>

Init == verdict = "none"

Refute(o) ==
    /\ verdict = "none"
    /\ open' = open \ {o}
    /\ UNCHANGED verdict

AnswerTrue ==
    /\ verdict = "none"
    /\ open = {}
    /\ verdict' = "TRUE"
    /\ UNCHANGED open

AnswerFalse ==
    /\ verdict = "none"
    /\ open # {}
    /\ verdict' = "FALSE"
    /\ UNCHANGED open

NoAnswer ==
    /\ verdict = "none"
    /\ verdict' \in {"UNKNOWN", "crash"}
    /\ UNCHANGED open

Next == AnswerTrue \/ AnswerFalse \/ NoAnswer \/ \E o \in open : Refute(o)

Spec == Init /\ [][Next]_vars
==============================================================================
