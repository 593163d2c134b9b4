CONSTANTS
    Minors <- MCMinors
    Limit = 256
    Labels <- MCLabels
    Fragile <- MCFragile
    MaxFaults = 1
SPECIFICATION Spec
CHECK_DEADLOCK FALSE
INVARIANTS
    CrateAvailable
    OnlyValidated
    NoOverwrite
    NothingMissing
    Complete
