\* Two connections and two client channels.
CONSTANTS
    Clients = {h1, h2}
    c1 = c1
    c2 = c2
    ClientChannelIds = {c1, c2}
    NoClient = NoClient
    NoChannel = NoChannel
    AdvertisePayloads <- MCAdvertisePayloads
    UnadvertisePayloads <- MCUnadvertisePayloads
SPECIFICATION FairSpec
INVARIANTS
    AdvertisedAgree
    MessageAdvertised
    NoLeftoverEntry
PROPERTY CloseWithdraws
\* A server no client talks to any more just waits.
CHECK_DEADLOCK FALSE
