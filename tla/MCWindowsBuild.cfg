CONSTANTS
    Minors <- MCMinors
    Slips <- MCSlips
    MaxEvents = 3
SPECIFICATION Spec
\* The number of builds is bounded, so the system stops.
CHECK_DEADLOCK FALSE
INVARIANTS
    DescribedIsLinked
    ShippedIsCurrent
    ProjectsConverted
