\* Is every client that subscribed on record?
CONSTANTS
    Clients = {h1, h2}
    NoClient = NoClient
    MaxCount = 3
    Updaters = {u1, u2}
    i1 = i1
    i2 = i2
    Names = {t}
    Ids = {i1, i2}
    Absent = Absent
    Graphs <- MCGraphs
    MaxUpdates = 1
SPECIFICATION GraphSpec
SYMMETRY Symmetry
INVARIANT SubscriberIsFlagged
\* A server no client talks to any more just waits.
CHECK_DEADLOCK FALSE
