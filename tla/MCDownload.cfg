\* Any file may be at the destination when three processes start.
CONSTANTS
    p1 = p1
    p2 = p2
    p3 = p3
    Procs <- ThreeProcs
    MaxAttempts = 2
    InitialContents <- AnyContent
SPECIFICATION Spec
INVARIANTS TypeOK NeverBadBytes TmpRemoved
PROPERTIES OnlyGoodInstalled Terminates NothingLost
\* Every process ends, so the system stops.
CHECK_DEADLOCK FALSE
