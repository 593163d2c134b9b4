\* A second run of another build over what the first one left.
CONSTANTS
    r1 = r1
    r2 = r2
    a = a
    b = b
    v1 = v1
    v2 = v2
    w1 = w1
    w2 = w2
    Missing = Missing
    Sums = Sums
    Munged = Munged
    Unset = Unset
    Artifacts <- TwoArtifacts
    Runs <- TwoRuns
    Dists <- TwoBuilds
    Window = 1
    MaxRetries = 0
    IgnoreMissing = FALSE
    RejectsDuplicates = TRUE
    Munges = {}
SPECIFICATION Spec
INVARIANTS PublishedMatchesSums
\* Every run ends, so the system stops.
CHECK_DEADLOCK FALSE
