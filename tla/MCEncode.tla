------------------------------ MODULE MCEncode ------------------------------
(****************************************************************************)
(* Small programs, one per thing the encoding does with tables and names,   *)
(* with the walks baseCase and inductiveStep hand over for k = 2.           *)
(****************************************************************************)
EXTENDS Encode

CONSTANT K          \* the number of rounds; the induction sequence has K + 1

MCValue == 0..9     \* 0: not a value; 9: the literal

Lit == 9
Ins(op, res, args, bbs) == [op |-> op, res |-> res, args |-> args, bbs |-> bbs]
Jump == Ins("skip", 0, << >>, << >>)
Call == Ins("skip", 0, << >>, << >>)
Blk(name, instrs) == [name |-> name, instrs |-> instrs]

Val(kind, name) ==
    [kind |-> kind, name |-> name, isConstant |-> kind \in {"literal", "global"}, gep |-> << >>]
Undef == [Val("int", "") EXCEPT !.isConstant = TRUE]

Values(named) ==
    [v \in MCValue |->
        IF v = 0 THEN Val("else", "none")
        ELSE IF v = Lit THEN Val("literal", "")
        ELSE IF v \in DOMAIN named THEN named[v] ELSE Val("else", "unused")]

Loops(body, n) == [m \in 1..n * Len(body) |-> body[((m - 1) % Len(body)) + 1]]

Queries(pre, body, post) ==
    [n \in 1..K |-> [mode |-> "base", nodes |-> pre \o Loops(body, K) \o post]]
        \o [n \in 1..2 |-> [mode |-> "inductive", nodes |-> pre \o Loops(body, K - 1 + n) \o post]]

MkJob(blocks, val, pre, body, post) ==
    [blocks |-> blocks, val |-> val, queries |-> Queries(pre, body, post)]

(****************************************************************************)
(* n = nondet(); do { i++; t = nondet(); } while (i < n); if (i == t) error *)
(****************************************************************************)
CountBlocks(nm) ==
    <<Blk(nm[1], <<Ins("nondet", 1, << >>, << >>), Jump>>),
      Blk(nm[2], <<Ins("phi", 2, <<Lit, 3>>, <<1, 2>>),
                   Ins("binary", 3, <<2, Lit>>, << >>),
                   Ins("nondet", 4, << >>, << >>),
                   Ins("cmp", 5, <<3, 1>>, << >>),
                   Ins("br", 0, <<5>>, <<2, 3>>)>>),
      Blk(nm[3], <<Ins("cmp", 6, <<3, 4>>, << >>), Ins("br", 0, <<6>>, <<4, 5>>)>>),
      Blk(nm[4], <<Call, Jump>>),
      Blk(nm[5], <<Jump>>)>>

Ints(names) == [v \in DOMAIN names |-> Val("int", names[v])]

Named == Ints(<<"n", "i", "inc", "t", "c", "d">>)
Unnamed == Ints(<<"", "", "", "", "", "">>)

BlockNames == <<"entry", "body", "exit", "error", "end">>
NoNames == <<"", "", "", "", "">>

CountJobs ==
    {MkJob(CountBlocks(nm), Values(val), <<1>>, <<2>>, <<3, 4>>) :
        nm \in {BlockNames, NoNames},
        val \in {Named, Unnamed, [Named EXCEPT ![1] = Val("int", "")]}}

(****************************************************************************)
(* Two phis that swap their values, and one that reads itself.              *)
(****************************************************************************)
SwapJob ==
    MkJob(<<Blk("entry", <<Ins("nondet", 1, << >>, << >>), Ins("nondet", 2, << >>, << >>), Jump>>),
            Blk("body", <<Ins("phi", 3, <<1, 4>>, <<1, 2>>), Ins("phi", 4, <<2, 3>>, <<1, 2>>),
                          Ins("phi", 5, <<1, 5>>, <<1, 2>>),
                          Ins("select", 6, <<5, 3, 4>>, << >>), Ins("br", 0, <<6>>, <<2, 3>>)>>),
            Blk("error", <<Call>>)>>,
          Values(Ints(<<"a", "b", "x", "y", "z", "s">>)), <<1>>, <<2>>, <<3>>)

(****************************************************************************)
(* A phi that is first given undef, then literals and undef alone: the      *)
(* inductive step passes over all of these.                                 *)
(****************************************************************************)
UndefJobs ==
    {MkJob(<<Blk("entry", <<Ins("nondet", 1, << >>, << >>), Jump>>),
             Blk("body", <<Ins("phi", 2, <<4, again>>, <<1, 2>>), Ins("cmp", 3, <<2, 1>>, << >>),
                           Ins("br", 0, <<3>>, <<2, 3>>)>>),
             Blk("error", <<Call>>)>>,
           Values(<<Val("int", "n"), Val("int", "x"), Val("int", "c"), Undef>>), <<1>>, <<2>>, <<3>>) :
        again \in {1, Lit, 4}}

(****************************************************************************)
(* p = malloc(); do { q = p + i; *q = i; v = *q; w = (long) v } while (w)   *)
(****************************************************************************)
ArrayJob(gepname) ==
    MkJob(<<Blk("entry", <<Ins("malloc", 1, << >>, << >>), Ins("bitcast", 2, <<1>>, << >>), Jump>>),
            Blk("body", <<Ins("phi", 3, <<Lit, 7>>, <<1, 2>>), Ins("gep", 4, <<2, 3>>, << >>),
                          Ins("store", 0, <<Lit, 4>>, << >>), Ins("load", 5, <<4>>, << >>),
                          Ins("ext", 6, <<5>>, << >>), Ins("binary", 7, <<3, Lit>>, << >>),
                          Ins("br", 0, <<6>>, <<2, 3>>)>>),
            Blk("error", <<Call>>)>>,
          Values(<<Val("ptr", "m"), Val("ptr", "p"), Val("int", "i"),
                   [Val("ptr", gepname) EXCEPT !.gep = <<2, 3>>],
                   Val("int", "v"), Val("int", "w"), Val("int", "inc")>>), <<1>>, <<2>>, <<3>>)

(****************************************************************************)
(* A global written once, and one written in a loop; its name may be that   *)
(* of a local.                                                              *)
(****************************************************************************)
GlobalJobs ==
    {MkJob(<<Blk("entry", <<Ins("nondet", 2, << >>, << >>), Ins("store", 0, <<2, 1>>, << >>), Jump>>),
             Blk("body", (IF again THEN <<Ins("store", 0, <<2, 1>>, << >>)>> ELSE << >>)
                             \o <<Ins("load", 3, <<1>>, << >>), Ins("br", 0, <<3>>, <<2, 3>>)>>),
             Blk("error", <<Call>>)>>,
           Values(<<Val("global", "g"), Val("int", local), Val("int", "")>>), <<1>>, <<2>>, <<3>>) :
        again \in BOOLEAN, local \in {"x", "g"}}

(****************************************************************************)
(* One instruction each that stops the encoding, or ends the way with a     *)
(* branch, or leaves nothing to ask.                                        *)
(****************************************************************************)
OneBlockJobs ==
    {MkJob(<<Blk("entry", <<ins>>), Blk("end", <<Jump>>), Blk("last", <<Jump>>)>>, Values(<<Val("ptr", "p"), Val("int", "c"), Val("int", "x")>>),
           <<1>>, <<1>>, << >>) :
        ins \in {Ins("other", 0, << >>, << >>), Ins("store", 0, <<3, 1>>, << >>),
                 Ins("bitcast", 1, <<1>>, << >>), Ins("gep", 1, <<1, 2>>, << >>),
                 Ins("load", 3, <<1>>, << >>), Ins("phi", 3, <<Lit>>, <<2>>),
                 Ins("br", 0, <<2>>, <<1, 2>>), Ins("br", 0, <<2>>, <<2, 3>>), Jump}}

OddJobs ==
    {MkJob(<<Blk("entry", <<Jump>>), Blk("end", <<Ins("phi", 3, <<Lit>>, <<2>>)>>),
             Blk("far", <<Ins("br", 0, <<2>>, <<1, 2>>)>>)>>,
           Values(<<Val("ptr", "p"), Val("int", "c"), Val("int", "x")>>), <<1>>, <<1>>, last) :
        last \in {<<2>>, <<3, 3>>, <<3>>}}

MCJobs ==
    CountJobs \cup UndefJobs \cup {SwapJob, ArrayJob("q"), ArrayJob("")} \cup GlobalJobs
        \cup OneBlockJobs \cup OddJobs
==============================================================================
