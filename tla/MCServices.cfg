\* One client, two service ids, two requests.
CONSTANTS
    Clients = {h1}
    n1 = n1
    n2 = n2
    Names <- MCNames
    Payloads <- MCPayloads
    MaxServices = 2
    MaxCalls = 2
    None = None
SPECIFICATION FairSpec
INVARIANTS
    ServicesKnown
    RequestReachesMeant
 
\* A server nobody talks to rests.
CHECK_DEADLOCK FALSE
