CONSTANTS
    Block <- MCBlock
    NoBlock = NoBlock
    Graphs <- MCNodeGraphs
SPECIFICATION FairSpec
INVARIANTS
    PathInProgressIsReal
    PathsReachError
    PathsComplete
PROPERTIES
    Terminates
