CONSTANTS
    Inst = {inst1, inst2}
    nullptr = nullptr
    Coefs <- MCCoefs
    Factors <- MCFactors
    Divisors <- MCDivisors
    Bound = 2
SPECIFICATION Spec
INVARIANTS
    MeansExpected
    Canonical
