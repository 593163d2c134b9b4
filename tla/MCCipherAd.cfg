\* Associated data is accepted before the key is set.
CONSTANTS
    t1 = t1
    t2 = t2
    c1 = c1
    c2 = c2
    Short = Short
    Threads <- TwoThreads
    Chunks <- TwoChunks
    TagArgs <- ShortTags
    Unaligned <- SecondUnaligned
    MaxCalls = 2
SPECIFICATION Spec
INVARIANTS AdProtected
\* The calls are bounded, so the system stops.
CHECK_DEADLOCK FALSE
