CONSTANTS
    Block <- MCBlock
    NoBlock = NoBlock
    Graphs <- MCVerifyGraphs
    Modules <- MCModules
SPECIFICATION FairSpec
INVARIANTS
    TypeOK
    TrueCoversErrorPaths
    OnlyFirstKDecides
PROPERTIES
    ImplementsVerdict
    Terminates
