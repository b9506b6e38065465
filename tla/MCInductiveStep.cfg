CONSTANTS
    Block <- MCBlock
    NoBlock = NoBlock
    Graphs <- MCBaseGraphs
    MaxK = 3
SPECIFICATION StepSpec
INVARIANTS
    RoundsAreSeparate
    QueriesAreExecutions
    OneMoreRound
    NoNewStop
