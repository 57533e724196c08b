\* Two connections and two parameters.
CONSTANTS
    Clients = {h1, h2}
    NoClient = NoClient
    Params = {p1, p2}
SPECIFICATION ParameterSpec
INVARIANT InterestMatchesSubscriptions
\* A server no client talks to any more just waits.
CHECK_DEADLOCK FALSE
