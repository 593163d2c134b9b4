\* A cipher, AEAD or not, shared by two threads.
CONSTANTS
    t1 = t1
    t2 = t2
    c1 = c1
    c2 = c2
    Short = Short
    Threads <- TwoThreads
    Chunks <- TwoChunks
    TagArgs <- ShortTags
    Unaligned <- SecondUnaligned
    MaxCalls = 3
SPECIFICATION Spec
INVARIANTS TypeOK StateMeansContext OneTag CompositeIsAtomic
PROPERTIES NoDataAfterFinal NoRevival CallsReturn
\* The calls are bounded, so the system stops.
CHECK_DEADLOCK FALSE
