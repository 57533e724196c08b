\* One thread of either kind; one connection may be full while the other is not.
CONSTANTS
    Broadcasters = {s1}
    Directs = {s2}
    Clients = {h1, h2}
    Channels = {c1}
    SubIds = {i1}
    NoSub = NoSub
    NoClient = NoClient
    NoRequest = NoRequest
    Sizes = {2}
    Header = 1
    Control = 1
    Limit = 4
    MaxControl = 1
    WriterFirst = FALSE
SPECIFICATION Spec
INVARIANTS
    BufferBound
    LabelIsCurrent
    EveryoneServed
 
CHECK_DEADLOCK FALSE
