------------------------------- MODULE Explore -------------------------------
(****************************************************************************)
(* What building the CFG promises, without the queue and the node vector:   *)
(* blocks are expanded one at a time, each at most once and only when it is *)
(* the entry or a successor of an expanded block, and the exploration may   *)
(* end only when nothing of the kind is left.                               *)
(****************************************************************************)
EXTENDS Sequences, SequencesExt

VARIABLES
    prog,       \* the program: entry is its first block, succ the successors
    expanded,   \* the blocks whose successors have been recorded
    finished    \* the exploration has ended

vars == <<prog, expanded, finished>>

Frontier == ({prog.entry} \cup UNION {ToSet(prog.succ[b]) : b \in expanded}) \ expanded

Init ==
    /\ expanded = {}
    /\ finished = FALSE

Expand(b) ==
    /\ ~finished
    /\ expanded' = expanded \cup {b}
    /\ UNCHANGED <<prog, finished>>

Finish ==
    /\ ~finished
    /\ Frontier = {}
    /\ finished' = TRUE
    /\ UNCHANGED <<prog, expanded>>

Next == Finish \/ \E b \in Frontier : Expand(b)

Spec == Init /\ [][Next]_vars
==============================================================================
