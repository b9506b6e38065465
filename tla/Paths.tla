-------------------------------- MODULE Paths --------------------------------
(****************************************************************************)
(* What the path searches work on: a finished CFGNodeVec with its loops,    *)
(* the blocks that call reach_error and those whose name holds "ERROR", and *)
(* the paths, in which a whole loop is one element.                         *)
(****************************************************************************)
EXTENDS CFG

CONSTANT Graphs     \* the graphs under verification

Graph == [CFGNodeVec : Seq(CFGNodes), LCSSAs : Seq(LCSSA),
          errors : SUBSET Block, named : SUBSET Block]

ASSUME GraphsAssumption ==
    /\ Graphs \subseteq Graph
    /\ \A g \in Graphs :
          /\ IsCFG(g.CFGNodeVec, g.LCSSAs)
          /\ ~g.CFGNodeVec[1].isLoopNode

NodeType == {"ALoop", "ANode", "ERRORNODE", "ERRORLOOP"}

(****************************************************************************)
(* struct Path; idx is loopLCSSAIdx or nodeIdx, whichever the type uses.    *)
(****************************************************************************)
Path == [type : NodeType, idx : Nat]

ALoop(l) == [type |-> "ALoop", idx |-> l]

ANode(n) == [type |-> "ANode", idx |-> n]

(****************************************************************************)
(* The path element for a node that a search steps onto.                    *)
(****************************************************************************)
Element(g, n) ==
    IF g.CFGNodeVec[n].isLoopNode THEN ALoop(g.CFGNodeVec[n].LCSSAIndex) ELSE ANode(n)

Elements(g) == {Element(g, n) : n \in DOMAIN g.CFGNodeVec}

(****************************************************************************)
(* The node whose children lead on from a path element: the node itself,    *)
(* or the header of the loop (backedge.first, called lastBB in the code).   *)
(****************************************************************************)
ExitNode(g, e) ==
    IF e.type \in {"ALoop", "ERRORLOOP"}
    THEN IndexByBB(g.CFGNodeVec, g.LCSSAs[e.idx].header)
    ELSE e.idx

Childs(g, e) == g.CFGNodeVec[ExitNode(g, e)].childs

(****************************************************************************)
(* The nodes of a path element: one, or all those of a loop.                *)
(****************************************************************************)
NodesOf(g, e) ==
    LET blocks == ToSet(g.LCSSAs[e.idx].bbVec)
    IN  IF e.type \in {"ALoop", "ERRORLOOP"}
        THEN {n \in DOMAIN g.CFGNodeVec : g.CFGNodeVec[n].bb \in blocks}
        ELSE {e.idx}

(****************************************************************************)
(* Element f may follow element e: some node of e has a child in f.         *)
(****************************************************************************)
Linked(g, e, f) ==
    LET nodes == NodesOf(g, f)
    IN  \E n \in NodesOf(g, e) : ToSet(g.CFGNodeVec[n].childs) \cap nodes # {}

IsChain(g, path) == \A i \in 1..Len(path)-1 : Linked(g, path[i], path[i+1])

(****************************************************************************)
(* The paths there are from the path start to a node, read off the edges    *)
(* between the elements, whichever block of a loop they leave from.         *)
(****************************************************************************)
RealPaths(g, start, node) ==
    LET after(p) == {Append(p, e) : e \in {f \in Elements(g) :
                        Linked(g, Last(p), f) /\ f \notin ToSet(p)}}
        ofLength[n \in 0..Len(g.CFGNodeVec)] ==
            IF n = 0 THEN {start} ELSE UNION {after(p) : p \in ofLength[n-1]}
        complete == {p \in UNION {ofLength[n] : n \in DOMAIN ofLength} : Last(p) = ANode(node)}
    IN  {[p EXCEPT ![Len(p)].type = "ERRORNODE"] : p \in complete}

(****************************************************************************)
(* The assumption behind leaving a loop by its header: what any block of    *)
(* the loop leads to outside of it, the header leads to as well.            *)
(****************************************************************************)
ExitsAtHeader(g) ==
    \A l \in DOMAIN g.LCSSAs : \A n \in NodesOf(g, ALoop(l)) :
        g.CFGNodeVec[n].LCSSAIndex = l =>
            ToSet(g.CFGNodeVec[n].childs) \ NodesOf(g, ALoop(l)) \subseteq ToSet(Childs(g, ALoop(l)))

(****************************************************************************)
(* What LLVM's loop analysis grants of a reducible program: outside the     *)
(* loops nothing leads back.  Height is the length of the longest way from  *)
(* an element, counted up to the number of nodes; it falls along every way  *)
(* just when there is no way round.                                         *)
(****************************************************************************)
LeadsOn(g, e, f) == Linked(g, e, f) /\ (e # f \/ e.type = "ANode")

Height(g) ==
    LET onwards == {e \in Elements(g) \X Elements(g) : LeadsOn(g, e[1], e[2])}
        longest[n \in 0..Len(g.CFGNodeVec)] ==
            IF n = 0 THEN [e \in Elements(g) |-> 0]
            ELSE LET before == longest[n-1]
                     last == {f \in Elements(g) : before[f] = n-1}
                 IN  [e \in Elements(g) |->
                         IF \E f \in last : <<e, f>> \in onwards THEN n ELSE before[e]]
    IN  longest[Len(g.CFGNodeVec)]

CyclesLieInLoops(g) ==
    LET height == Height(g)
    IN  /\ height \in [Elements(g) -> Nat]
        /\ \A e, f \in Elements(g) : LeadsOn(g, e, f) => height[f] < height[e]

ASSUME ReducibleAssumption == \A g \in Graphs : CyclesLieInLoops(g)

(****************************************************************************)
(* A block ends in a two-way branch at most, so a header, which leads back  *)
(* into its loop, leads out of it one way only; and a block named ERROR     *)
(* ends the program.                                                        *)
(****************************************************************************)
HeaderKeepsToLoop(g) ==
    \A l \in DOMAIN g.LCSSAs :
        \A c, d \in ToSet(Childs(g, ALoop(l))) \ NodesOf(g, ALoop(l)) : c = d

NamedEnds(g) ==
    \A n \in DOMAIN g.CFGNodeVec :
        LET node == g.CFGNodeVec[n]
        IN  node.bb \in g.named => node.childs = << >> /\ ~node.isLoopNode

ASSUME BlocksAssumption == \A g \in Graphs : HeaderKeepsToLoop(g) /\ NamedEnds(g)

(****************************************************************************)
(* What collectInitBasicBlock returns, as a function of the graph: for each *)
(* walk the saved paths of its children in order, up to the first loop.     *)
(****************************************************************************)
InitNodesOf(g) ==
    LET nodes == g.CFGNodeVec
        from[v \in Seq(DOMAIN nodes) \ {<< >>}] ==
            IF nodes[Last(v)].isLoopNode THEN <<v>>
            ELSE FlattenSeq([j \in DOMAIN nodes[Last(v)].childs |->
                                from[Append(v, nodes[Last(v)].childs[j])]])
    IN  from[<<1>>]

(****************************************************************************)
(* The path both searches start from: the nodes of an init path and then    *)
(* its loop.                                                                *)
(****************************************************************************)
StartPath(g, init) ==
    Append([i \in 1..Len(init)-1 |-> ANode(init[i])],
           ALoop(g.CFGNodeVec[Last(init)].LCSSAIndex))

(****************************************************************************)
(* The loops from which an edge leads to a block that calls reach_error,    *)
(* and the first node whose block calls it.                                 *)
(****************************************************************************)
VerifyLoops(g) ==
    {l \in DOMAIN g.LCSSAs :
        \E n \in NodesOf(g, ALoop(l)) : \E c \in ToSet(g.CFGNodeVec[n].childs) :
            g.CFGNodeVec[c].bb \in g.errors}

FindVerifyNode(g) == SelectInSeq(g.CFGNodeVec, LAMBDA n : n.bb \in g.errors)

(****************************************************************************)
(* What collectVerifyPathErrInNode appends to paths when it is called with  *)
(* the path start.                                                          *)
(****************************************************************************)
ErrPathsInNode(g, start, assertNodeIdx) ==
    LET stays(p, n) == Last(p).type = "ALoop" /\ Element(g, n) = Last(p)
        from[p \in Seq(Elements(g)) \ {<< >>}] ==
            IF Last(p) = ANode(assertNodeIdx)
            THEN <<[p EXCEPT ![Len(p)].type = "ERRORNODE"]>>
            ELSE FlattenSeq([j \in DOMAIN Childs(g, Last(p)) |->
                                IF stays(p, Childs(g, Last(p))[j]) THEN << >>
                                ELSE from[Append(p, Element(g, Childs(g, Last(p))[j]))]])
    IN  from[start]

(****************************************************************************)
(* The path collectVerifyPathErrInLoop finds to the loop l when it starts   *)
(* from an init path, with the loop retyped; the empty path when it runs    *)
(* out of path elements.                                                    *)
(****************************************************************************)
PathToLoop(g, init, l) ==
    LET marked(p, visit) ==
            IF Last(p).type = "ALoop" THEN visit \cup NodesOf(g, Last(p)) ELSE visit
        fresh(p, visit) == {j \in DOMAIN Childs(g, Last(p)) :
                                Childs(g, Last(p))[j] \notin marked(p, visit)}
        search[at \in Seq(Elements(g)) \X SUBSET DOMAIN g.CFGNodeVec] ==
            LET p == at[1]
                visit == at[2]
            IN  IF p = << >> THEN << >>
                ELSE IF Last(p) = ALoop(l) THEN [p EXCEPT ![Len(p)].type = "ERRORLOOP"]
                ELSE IF fresh(p, visit) = {} THEN search[<<Front(p), marked(p, visit)>>]
                ELSE LET child == Childs(g, Last(p))[Min(fresh(p, visit))]
                     IN  search[<<Append(p, Element(g, child)), marked(p, visit) \cup {child}>>]
    IN  search[<<StartPath(g, init), ToSet(Front(init))>>]

(****************************************************************************)
(* Where among the children of an element a block is named ERROR, and the   *)
(* first of these children, which is put behind the error loop.             *)
(****************************************************************************)
NamedErrors(g, e) ==
    {j \in DOMAIN Childs(g, e) : g.CFGNodeVec[Childs(g, e)[j]].bb \in g.named}

ErrorNode(g, e) ==
    [type |-> "ERRORNODE", idx |-> Childs(g, e)[Min(NamedErrors(g, e))]]
==============================================================================
