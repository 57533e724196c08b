\* One connection, two channels, payloads of up to two entries.
CONSTANTS
    Clients = {h1}
    MaxChannels = 2
    s1 = s1
    s2 = s2
    SubIds = {s1, s2}
    NoSub = NoSub
    NoClient = NoClient
    SubscribePayloads <- MCSubscribePayloads
    UnsubscribePayloads <- MCUnsubscribePayloads
SPECIFICATION FairSpec
INVARIANTS
    TypeOK
    NoMissedChannel
    NoPhantomChannel
    
    SubscriptionsAgree
    OnlyAvailableRecorded
PROPERTY CloseCancels
\* A server no client talks to any more just waits.
CHECK_DEADLOCK FALSE
