\* Three targets, two jobs, two edits and a fault.
CONSTANTS
    Targets <- Three
    Jobs = 2
    Edited <- EditedNames
    MaxEdits = 2
    MaxFaults = 1
SPECIFICATION Spec
INVARIANTS TypeOK InputsReady FreshBuild
PROPERTIES DistWhole BuildEnds
