CONSTANTS
    Block <- MCBlock
    NoBlock = NoBlock
    Graphs <- MCVerifyGraphs
    Modules <- MCModules
SPECIFICATION Spec
INVARIANT
    InductiveStepsPass
