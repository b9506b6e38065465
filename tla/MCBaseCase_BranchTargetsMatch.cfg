CONSTANTS
    Block <- MCBlock
    NoBlock = NoBlock
    Graphs <- MCBaseGraphs
    MaxK = 1
SPECIFICATION Spec
INVARIANT
    BranchTargetsMatch
