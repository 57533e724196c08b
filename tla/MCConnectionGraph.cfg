\* Two connections, two updating threads, four graphs.
CONSTANTS
    Clients = {h1, h2}
    NoClient = NoClient
    MaxCount = 3
    Updaters = {u1, u2}
    i1 = i1
    i2 = i2
    Names = {t}
    Ids = {i1, i2}
    Absent = Absent
    Graphs <- MCGraphs
    MaxUpdates = 3
SPECIFICATION GraphSpec
SYMMETRY Symmetry
INVARIANTS
    CountAccounts
    InterestMatches
    
    ViewIsGraph
\* A server no client talks to any more just waits.
CHECK_DEADLOCK FALSE
