\* Two overlapping runs, two builds of which one may have lost a file; bodies
\* may be altered; the server keeps names unique.
CONSTANTS
    r1 = r1
    r2 = r2
    a = a
    b = b
    v1 = v1
    v2 = v2
    w1 = w1
    w2 = w2
    Missing = Missing
    Sums = Sums
    Munged = Munged
    Unset = Unset
    Artifacts <- TwoArtifacts
    Runs <- TwoRuns
    Dists <- ThreeBuilds
    Window = 2
    MaxRetries = 1
    IgnoreMissing = FALSE
    RejectsDuplicates = TRUE
    Munges = {Sums}
SPECIFICATION Spec
INVARIANTS TypeOK SumsLast PublishedChecked
PROPERTIES RunsEnd PublishesAtomically
\* Every run ends, so the system stops.
CHECK_DEADLOCK FALSE
