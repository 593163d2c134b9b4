\* Two processes that both find a bad file at the destination.
CONSTANTS
    p1 = p1
    p2 = p2
    p3 = p3
    Procs <- TwoProcs
    MaxAttempts = 2
    InitialContents <- AnyContent
SPECIFICATION Spec
INVARIANTS WorstCaseIsExtraDownloads
CHECK_DEADLOCK FALSE
