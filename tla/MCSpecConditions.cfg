\* The stack has room for as many calls as there are blocks.
SPECIFICATION FairSpec
CONSTANTS
    Programs <- MCPrograms
    MaxDepth = 4
INVARIANTS
    TypeOK
    OnceEach
    DoneFindsAll
    NoAssertionMissed
    StopsForReason
PROPERTIES
    Terminates
    ImplementsExplore
