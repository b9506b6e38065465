-------------------------- MODULE MCSpecConditions --------------------------
(****************************************************************************)
(* Every control-flow graph over three or four blocks, up to the names of   *)
(* the blocks, without unreachable ones and with nothing that jumps to the  *)
(* entry; in it one block of interest, on three blocks also two, switches,  *)
(* and more than one thing of interest in a block.                          *)
(****************************************************************************)
EXTENDS SpecConditions

Terminators(n) == LET to == 2..n IN {<< >>} \cup {<<b>> : b \in to} \cup (to \X to)

AllReached(succ) ==
    LET from[n \in Nat] == IF n = 0 THEN {Entry} ELSE from[n-1] \cup UNION {ToSet(succ[b]) : b \in from[n-1]}
    IN  from[Len(succ)] = DOMAIN succ

Entries == {<<2>>, <<2, 3>>, <<2, 2>>}

ThreeBlocks == {s \in {<<e, b, c>> : e \in Entries, b \in Terminators(3), c \in Terminators(3)} : AllReached(s)}

FourBlocks ==
    {s \in {<<e, b, c, d>> : e \in {<<2>>, <<2, 3>>}, b \in Terminators(4), c \in Terminators(4), d \in Terminators(4)} :
        AllReached(s)}

SwitchBlocks == {<<<<2, 2, 3>>, <<4>>, <<4>>, << >>>>, <<<<2, 3>>, <<4>>, <<4, 3>>, << >>>>, <<<<2, 3, 4>>, <<3>>, <<2, 4>>, << >>>>}

Mark(succ, marks, switches) ==
    [succ |-> succ, switches |-> switches,
     instrs |-> [b \in DOMAIN succ |-> IF b \in DOMAIN marks THEN marks[b] ELSE <<"other">>]]

Contents == {<<"reach_error">>, <<"other", "abort", "reach_error">>, <<"indirect">>}
Returns == {<<"ret">>, <<"other", "retval">>}

OneMark(succ, switches) ==
    {Mark(succ, [c \in {b} |-> m], switches) :
        <<b, m>> \in {x \in (DOMAIN succ) \X (Contents \cup Returns) : x[2] \in Returns => succ[x[1]] = << >>}}

TwoMarks(succ) ==
    {Mark(succ, [c \in {2, 3} |-> IF c = 2 THEN first ELSE <<"abort">>], {}) :
        first \in {<<"reach_error">>, <<"abort">>, <<"other">>}}

MCPrograms ==
    UNION {OneMark(s, {}) \cup TwoMarks(s) : s \in ThreeBlocks}
    \cup UNION {OneMark(s, {Entry}) : s \in SwitchBlocks \cup {t \in ThreeBlocks : Len(t[1]) = 2}}
    \cup {Mark(x[1], [c \in {x[2]} |-> <<"reach_error">>], {}) :
              x \in {y \in FourBlocks \X {3, 4} : y[1][1] = <<2>> => y[2] = 4}}
==============================================================================
