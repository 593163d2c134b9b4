CONSTANTS
    Jobs <- MCSuffixJobs
    Slips = {}
    MaxSlips = 0
SPECIFICATION Spec
CHECK_DEADLOCK FALSE
INVARIANT
    CorePathsExist
