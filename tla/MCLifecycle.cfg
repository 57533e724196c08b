\* Two connections, of which stop may list none, one or both; two starts.
CONSTANTS
    Clients = {h1, h2}
    MaxPolls = 2
    MaxStarts = 2
    MaxQueue = 2
SPECIFICATION Spec
INVARIANTS
    DroppedByForce
    ListensWithLoop
    SafeDestruction
PROPERTY StopEnds
\* A server that was destroyed does nothing any more.
CHECK_DEADLOCK FALSE
