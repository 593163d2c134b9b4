CONSTANTS
    Jobs <- MCJobs
    Slips <- MCSlips
    MaxSlips = 2
SPECIFICATION Spec
CHECK_DEADLOCK FALSE
INVARIANTS
    TypeOK
    StockPasses
    DescribedIsBuilt
    LibrariesCredited
