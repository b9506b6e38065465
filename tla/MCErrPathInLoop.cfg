CONSTANTS
    Block <- MCBlock
    NoBlock = NoBlock
    Graphs <- MCLoopGraphs
SPECIFICATION LoopFairSpec
INVARIANTS
    PathIsReal
    DoneIsPattern1
    EmptyMeansUnreachable
PROPERTIES
    LoopTerminates
