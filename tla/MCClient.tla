------------------------------- MODULE MCClient -------------------------------
(* Client for TLC: every call of the client and every message of the server, *)
(* at the boundaries of their encodings.                                      *)
EXTENDS Client

MCTexts == {"a", "b", "e", "n", "p", "r", "s", "t", "u", "v", "x", "y"}
MCKeySets == {{"a", "b"}}

Bytes(n) == [type |-> "byte_array", val |-> SubSeq(<<0, 255, 107, 254, 3>>, 1, n)]

\* Every length modulo 3, and every character class of base64.
MCParameters ==
    LET Param(v) == [name |-> "p", value |-> v] IN
    Each(Param, <<Bytes(0), Bytes(1), Bytes(2), Bytes(3), Bytes(4), Bytes(5),
                  [type |-> "byte_array", val |-> <<251, 239, 190, 0, 16, 131>>],
                  [type |-> "bool", val |-> <<1>>], [type |-> "string", val |-> <<65, 61>>],
                  [type |-> "double", val |-> <<>>], NotSet,
                  [type |-> "array", val |-> <<Bytes(2), NotSet, [type |-> "double", val |-> <<>>]>>],
                  [type |-> "struct", val |-> [a |-> Bytes(1), b |-> [type |-> "integer", val |-> <<-1>>]]]>>)

MCRequest(encoding, bytes) ==
    [serviceId |-> 256, callId |-> 2147483647, encoding |-> encoding, data |-> bytes]

MCCalls ==
    {[op |-> "publish", channelId |-> 16777219, data |-> bytes] : bytes \in {<<>>, <<7, 0>>}}
    \cup {[op |-> "serviceRequest", request |-> r] : r \in {MCRequest(<<>>, <<>>), MCRequest(<<106>>, <<5, 6>>)}}
    \cup {[op |-> "subscribe", subscriptions |-> <<[subId |-> 1, channelId |-> 2], [subId |-> 2, channelId |-> 1]>>],
          [op |-> "unsubscribe", subscriptionIds |-> <<2, 1>>],
          [op |-> "advertise", channels |-> <<[channelId |-> 3, topic |-> "t", encoding |-> "e",
                                              schemaName |-> "n", schema |-> <<1>>]>>],
          [op |-> "unadvertise", channelIds |-> <<3>>],
          [op |-> "getParameters", names |-> <<"p", "p">>, id |-> <<>>],
          [op |-> "setParameters", parameters |-> MCParameters, id |-> <<"r">>],
          [op |-> "subscribeParameterUpdates", parameterNames |-> <<"p", "p">>],
          [op |-> "unsubscribeParameterUpdates", parameterNames |-> <<"p">>],
          [op |-> "fetchAsset", uri |-> "u", requestId |-> 9]}

MCDefinition == [encoding |-> "e", schemaName |-> "n", schemaEncoding |-> "x", schema |-> "s"]

MCAsset(status, message) ==
    [op |-> "asset", requestId |-> 65536, status |-> status, errorMessage |-> message, data |-> <<4, 5>>]

MCIncoming ==
    {[op |-> "data", subId |-> 255, timestamp |-> <<1, 2>>, data |-> <<9>>],
     [op |-> "time", timestamp |-> <<0, 1>>],
     [op |-> "serviceResponse", response |-> MCRequest(<<106, 115>>, <<>>)],
     MCAsset(0, <<>>), MCAsset(1, <<69>>), MCAsset(0, <<69>>),
     [op |-> "parameterValues", parameters |-> MCParameters, id |-> <<>>],
     [op |-> "advertise", items |->
         <<[id |-> 1, topic |-> "t", encoding |-> "e", schemaName |-> "n", schema |-> "s", schemaEncoding |-> <<>>],
           [id |-> 2, topic |-> "u", encoding |-> "e", schemaName |-> "n", schema |-> "s", schemaEncoding |-> <<"x">>]>>],
     [op |-> "advertiseServices", items |->
         <<[id |-> 1, name |-> "v", type |-> "y", request |-> <<MCDefinition>>, response |-> <<>>,
            requestSchema |-> <<>>, responseSchema |-> <<"s">>]>>]}
=============================================================================
