\* One worker, as Server constructs the queue: does stop() return?
CONSTANTS
    Workers = {w1}
    Producers = {io}
    Callbacks = {c1, c2}
    NoCallback = NoCallback
    Nobody = Nobody
SPECIFICATION FairSpec
PROPERTY StopReturns
CHECK_DEADLOCK FALSE
