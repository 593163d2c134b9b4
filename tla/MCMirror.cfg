\* Two overlapping runs over complete and incomplete dist directories.
CONSTANTS
    r1 = r1
    r2 = r2
    a = a
    b = b
    c = c
    v1 = v1
    v2 = v2
    v3 = v3
    Missing = Missing
    Sums = Sums
    Unset = Unset
    Runs <- TwoRuns
    Artifacts <- ThreeArtifacts
    UploadConcurrency = 2
    Dists <- WholeAndPartial
    IgnoreMissing = FALSE
SPECIFICATION Spec
INVARIANTS TypeOK SumsLast NoneHidden
PROPERTIES RunsEnd MirrorsAtomically
\* Every run ends, so the system stops.
CHECK_DEADLOCK FALSE
