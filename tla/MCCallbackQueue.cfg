\* Two workers (numThreads = 2), two producers, three callbacks.
CONSTANTS
    Workers = {w1, w2}
    Producers = {io, app}
    Callbacks = {c1, c2, c3}
    NoCallback = NoCallback
    Nobody = Nobody
SPECIFICATION FairSpec
INVARIANTS
    TypeOK
    
    TakenInOrder
    NoLostWakeup
PROPERTIES
    ImplementsTaskPool
    EveryCallbackTaken
    StopReturnsIfAllAwake
\* All threads may be idle for good, and stop() may wait forever (StopReturns).
CHECK_DEADLOCK FALSE
