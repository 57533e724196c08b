\* Up to two connections per port, one crash of the sender, half-second stamps.
CONSTANTS
    Garbage = Garbage
    TwoTo32 = 65536
    None = None
    Messages <- MCMessages
    Ticks = 2
    MaxConnections = 2
    MaxCrashes = 1
SPECIFICATION FairSpec
INVARIANTS
    
    TerminatedByCrash
PROPERTY BridgeStarts
\* A terminated bridge may be left with a dead sender.
CHECK_DEADLOCK FALSE
