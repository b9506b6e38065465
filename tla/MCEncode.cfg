\* Two rounds of the base case and the pair of the inductive step.
SPECIFICATION Spec
CONSTANTS
    Value <- MCValue
    Jobs <- MCJobs
    K = 2
INVARIANTS
    TypeOK
    OneMeaning
    NondetPinned
    PathConditions
