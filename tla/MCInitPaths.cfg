CONSTANTS
    Block <- MCBlock
    NoBlock = NoBlock
    Graphs <- MCInitGraphs
SPECIFICATION FairSpec
INVARIANTS
    InitPathsAreReal
    CallsMatchVec
    InitPathsComplete
PROPERTIES
    Terminates
