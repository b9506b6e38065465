CONSTANTS
    Block <- MCBlock
    NoBlock = NoBlock
    Programs <- MCPrograms
SPECIFICATION FairSpec
INVARIANTS
    OneNodePerBlock
    ChildsMirrorSuccs
    DoneIsCFG
PROPERTIES
    IndexesStable
    ImplementsExplore
    Terminates
