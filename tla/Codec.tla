-------------------------------- MODULE Codec --------------------------------
(***************************************************************************)
(* The frames Client and Server exchange: what the sender writes and what  *)
(* the receiver makes of it.  A binary frame is a sequence of bytes; a     *)
(* text frame is the JSON object, as a function from its keys.  Character  *)
(* strings that are looked into are sequences of character codes, the      *)
(* others are values of their own.  A uint64 is a pair of 32-bit words,    *)
(* lower first.  An optional value is a sequence of length 0 or 1.         *)
(* Arrays and structs among parameter values are one level deep.           *)
(***************************************************************************)
EXTENDS Integers, Sequences, SequencesExt

CONSTANTS
    Texts,    \* character strings that are not looked into
    KeySets   \* the sets of names the members of a struct may have

\* The bytes from offset n on: `payload + n`.
At(buf, n) == SubSeq(buf, n + 1, Len(buf))

\* The values of a sequence under an operator.
Each(Op(_), s) == [i \in DOMAIN s |-> Op(s[i])]

\* An object with a single entry, and one with the entries of two.
Entry(key, value) == [k \in {key} |-> value]
Joined(a, b) == [k \in DOMAIN a \cup DOMAIN b |-> IF k \in DOMAIN a THEN a[k] ELSE b[k]]

-----------------------------------------------------------------------------
(* What calls and messages are made of *)

Octets == 0..255

\* The numbers below 2^32, which TLC cannot represent.
Uint32 == {n \in Nat : n \div 16777216 < 256}
Uint64 == Uint32 \X Uint32

\* std::optional
Maybe(S) == {s \in Seq(S) : Len(s) <= 1}

\* The length of the encoding is sent as an uint32_t.
Requests ==
    {r \in [serviceId : Uint32, callId : Uint32, encoding : Seq(Octets), data : Seq(Octets)] :
        Len(r.encoding) \in Uint32}

\* A value is its type and its content; the content of "double" is <<>> when it
\* is not finite, of "array" a sequence and of "struct" a function of values.
NotSet == [type |-> "not_set", val |-> <<>>]

Scalars ==
    [type : {"byte_array"}, val : Seq(Octets)]
        \cup [type : {"bool", "integer", "double", "string"}, val : Seq(Int)]
        \cup {NotSet}

ParameterValues ==
    Scalars
        \cup [type : {"array"}, val : Seq(Scalars)]
        \cup [type : {"struct"}, val : UNION {[K -> Scalars] : K \in KeySets}]

Parameter == [name : Texts, value : ParameterValues]

Channel ==
    [id : Uint32, topic : Texts, encoding : Texts, schemaName : Texts, schema : Texts,
     schemaEncoding : Maybe(Texts)]

Definition == [encoding : Texts, schemaName : Texts, schemaEncoding : Texts, schema : Texts]

Service ==
    [id : Uint32, name : Texts, type : Texts, request : Maybe(Definition), response : Maybe(Definition),
     requestSchema : Maybe(Texts), responseSchema : Maybe(Texts)]

\* The calls of the client
ClientCalls ==
    [op : {"publish"}, channelId : Uint32, data : Seq(Octets)]
        \cup [op : {"serviceRequest"}, request : Requests]
        \cup [op : {"subscribe"}, subscriptions : Seq([subId : Uint32, channelId : Uint32])]
        \cup [op : {"unsubscribe"}, subscriptionIds : Seq(Uint32)]
        \cup [op : {"advertise"}, channels : Seq([channelId : Uint32, topic : Texts, encoding : Texts,
                                                 schemaName : Texts, schema : Seq(Octets)])]
        \cup [op : {"unadvertise"}, channelIds : Seq(Uint32)]
        \cup [op : {"getParameters"}, names : Seq(Texts), id : Maybe(Texts)]
        \cup [op : {"setParameters"}, parameters : Seq(Parameter), id : Maybe(Texts)]
        \cup [op : {"subscribeParameterUpdates", "unsubscribeParameterUpdates"},
              parameterNames : Seq(Texts)]
        \cup [op : {"fetchAsset"}, uri : Texts, requestId : Uint32]

\* The messages of the server; an error message is shorter than its length field
\* can say.
ServerMessages ==
    [op : {"data"}, subId : Uint32, timestamp : Uint64, data : Seq(Octets)]
        \cup [op : {"time"}, timestamp : Uint64]
        \cup [op : {"serviceResponse"}, response : Requests]
        \cup {m \in [op : {"asset"}, requestId : Uint32, status : {0, 1}, errorMessage : Seq(Octets),
                     data : Seq(Octets)] : Len(m.errorMessage) \in Uint32}
        \cup [op : {"parameterValues"}, parameters : Seq(Parameter), id : Maybe(Texts)]
        \cup [op : {"advertise"}, items : Seq(Channel)]
        \cup [op : {"advertiseServices"}, items : Seq(Service)]

-----------------------------------------------------------------------------
(* Integers and services, serialization.hpp and serialization.cpp *)

WriteUint32LE(val) ==
    <<val % 256, (val \div 256) % 256, (val \div 65536) % 256, (val \div 16777216) % 256>>

WriteUint64LE(val) == WriteUint32LE(val[1]) \o WriteUint32LE(val[2])

ReadUint32LE(buf) == buf[1] + 256 * buf[2] + 65536 * buf[3] + 16777216 * buf[4]

\* ServiceResponse::write and read; ServiceRequest is the same type.
ServiceWrite(r) ==
    WriteUint32LE(r.serviceId) \o WriteUint32LE(r.callId)
        \o WriteUint32LE(Len(r.encoding)) \o r.encoding \o r.data

ServiceRead(payload) ==
    LET encodingLength == ReadUint32LE(At(payload, 8)) IN
    [serviceId |-> ReadUint32LE(payload), callId |-> ReadUint32LE(At(payload, 4)),
     encoding  |-> SubSeq(payload, 13, 12 + encodingLength),
     data      |-> At(payload, 12 + encodingLength)]

\* request.size() of a request without content.
EmptySize == 4 + 4 + 4

-----------------------------------------------------------------------------
(* base64.cpp *)

Pad == 61

Alphabet(n) ==
    CASE n \in 0..25  -> n + 65
      [] n \in 26..51 -> n + 71
      [] n \in 52..61 -> n - 4
      [] n = 62       -> 43
      [] n = 63       -> 47

\* Three bytes to four characters; the last one or two are padded.
base64Encode(data) ==
    LET size == 4 * ((Len(data) + 2) \div 3)
        padding == (3 - (Len(data) % 3)) % 3
        Byte(i) == IF i <= Len(data) THEN data[i] ELSE 0
        Sextet(g, k) ==
            CASE k = 0 -> Byte(3 * g + 1) \div 4
              [] k = 1 -> (Byte(3 * g + 1) % 4) * 16 + Byte(3 * g + 2) \div 16
              [] k = 2 -> (Byte(3 * g + 2) % 16) * 4 + Byte(3 * g + 3) \div 64
              [] k = 3 -> Byte(3 * g + 3) % 64
    IN [j \in 1..size |-> IF j > size - padding THEN Pad
                          ELSE Alphabet(Sextet((j - 1) \div 4, (j - 1) % 4))]

\* The value of a character, or -1.
SextetOf(c) ==
    CASE c \in 65..90  -> c - 65
      [] c \in 97..122 -> c - 71
      [] c \in 48..57  -> c + 4
      [] c = 43        -> 62
      [] c = 47        -> 63
      [] OTHER         -> -1

\* The characters before the first one outside the alphabet.
Digits(input) == SelectInSeq(Append(input, Pad), LAMBDA c : SextetOf(c) = -1) - 1

\* Faulty variant: the second byte before a single pad is dropped.
DecodedSizeShort(digits) == 3 * (digits \div 4) + (IF digits % 4 = 0 THEN 0 ELSE 1)

\* One pad leaves three characters, two bytes; two pads two characters, one byte.
DecodedSize(digits) == 3 * (digits \div 4) + (IF digits % 4 = 0 THEN 0 ELSE (digits % 4) - 1)

\* A length that is no multiple of four, another character and a pad that is not
\* among the last two are refused.  What follows a pad is not looked at.
Decodable(input) ==
    /\ Len(input) % 4 = 0
    /\ LET d == Digits(input) IN
       d < Len(input) => input[d + 1] = Pad /\ Len(input) - d \in {1, 2}

base64Decode(input) ==
    LET digits == Digits(input)
        Value(g, k) == SextetOf(input[4 * g + k])
        Byte(g, k) ==
            CASE k = 0 -> Value(g, 1) * 4 + Value(g, 2) \div 16
              [] k = 1 -> (Value(g, 2) % 16) * 16 + Value(g, 3) \div 4
              [] k = 2 -> (Value(g, 3) % 4) * 64 + Value(g, 4)
    IN [j \in 1..DecodedSize(digits) |-> Byte((j - 1) \div 3, (j - 1) % 3)]

-----------------------------------------------------------------------------
(* Parameters, serialization.cpp *)

\* JSON has no number that is not finite: dump() writes null.
ScalarToJson(p) ==
    CASE p.type = "byte_array" -> [type |-> "string", val |-> base64Encode(p.val)]
      [] p.type = "not_set" \/ (p.type = "double" /\ p.val = <<>>) -> [type |-> "null", val |-> <<>>]
      [] OTHER -> p

ScalarFromJson(j) == IF j.type = "null" THEN NotSet ELSE j

ValueToJson(p) ==
    IF p.type \in {"array", "struct"} THEN [p EXCEPT !.val = Each(ScalarToJson, @)] ELSE ScalarToJson(p)

ValueFromJson(j) ==
    IF j.type \in {"array", "struct"} THEN [j EXCEPT !.val = Each(ScalarFromJson, @)] ELSE ScalarFromJson(j)

\* Only the parameter itself says that a string stands for bytes.
ParameterToJson(p) ==
    Joined([value |-> ValueToJson(p.value), name |-> p.name],
           IF p.value.type = "byte_array" THEN Entry("type", "byte_array") ELSE <<>>)

ParameterFromJson(j) ==
    LET value == IF "value" \in DOMAIN j THEN ValueFromJson(j["value"]) ELSE NotSet IN
    [name  |-> j["name"],
     value |-> IF "type" \in DOMAIN j /\ j["type"] = "byte_array" /\ value.type = "string"
                 THEN [type |-> "byte_array", val |-> base64Decode(value.val)]
                 ELSE value]

\* base64Decode throws otherwise.
ParameterReadable(j) == "type" \in DOMAIN j => Decodable(j["value"].val)

-----------------------------------------------------------------------------
(* Channels and services, serialization.cpp *)

\* The entries of an object for a member that may be absent.
Optional(key, member) == IF member = <<>> THEN <<>> ELSE Entry(key, member[1])

\* j.find(key)
Found(j, key) == IF key \in DOMAIN j THEN <<j[key]>> ELSE <<>>

ChannelToJson(c) ==
    Joined([id |-> c.id, topic |-> c.topic, encoding |-> c.encoding, schemaName |-> c.schemaName,
            schema |-> c.schema], Optional("schemaEncoding", c.schemaEncoding))

ChannelFromJson(j) ==
    [id |-> j.id, topic |-> j.topic, encoding |-> j.encoding, schemaName |-> j.schemaName,
     schema |-> j.schema, schemaEncoding |-> Found(j, "schemaEncoding")]

\* ServiceRequestDefinition: four strings, all of them required.
DefinitionToJson(r) ==
    [encoding |-> r.encoding, schemaName |-> r.schemaName, schemaEncoding |-> r.schemaEncoding,
     schema |-> r.schema]

DefinitionFromJson(j) == DefinitionToJson(j)

ServiceToJson(s) ==
    Joined(Joined([id |-> s.id, name |-> s.name, type |-> s.type],
                  Joined(Optional("request", Each(DefinitionToJson, s.request)),
                         Optional("response", Each(DefinitionToJson, s.response)))),
           Joined(Optional("requestSchema", s.requestSchema),
                  Optional("responseSchema", s.responseSchema)))

ServiceFromJson(j) ==
    [id |-> j.id, name |-> j.name, type |-> j.type,
     request        |-> Each(DefinitionFromJson, Found(j, "request")),
     response       |-> Each(DefinitionFromJson, Found(j, "response")),
     requestSchema  |-> Found(j, "requestSchema"),
     responseSchema |-> Found(j, "responseSchema")]

-----------------------------------------------------------------------------
(* Calls of the client and what the handlers of the server read *)

MESSAGE_DATA == 1
TIME_DATA == 2
SERVICE_CALL_REQUEST == 2
SERVICE_CALL_RESPONSE == 3
FETCH_ASSET_RESPONSE == 4

Binary(bytes) == [binary |-> TRUE, body |-> bytes]
Text(object)  == [binary |-> FALSE, body |-> object]

publish(c) == Binary(<<MESSAGE_DATA>> \o WriteUint32LE(c.channelId) \o c.data)

sendServiceRequest(c) == Binary(<<SERVICE_CALL_REQUEST>> \o ServiceWrite(c.request))

subscribe(c) ==
    Text([op |-> "subscribe",
          subscriptions |-> Each(LAMBDA s : [id |-> s.subId, channelId |-> s.channelId], c.subscriptions)])

\* The schema of an advertisement is not sent.
advertise(c) ==
    Text([op |-> "advertise",
          channels |-> Each(LAMBDA a : [id |-> a.channelId, topic |-> a.topic, encoding |-> a.encoding,
                                        schemaName |-> a.schemaName], c.channels)])

getParameters(c) ==
    Text(Joined([op |-> "getParameters", parameterNames |-> c.names], Optional("id", c.id)))

setParameters(c) ==
    Text(Joined([op |-> "setParameters", parameters |-> Each(ParameterToJson, c.parameters)],
                Optional("id", c.id)))

\* unsubscribe, unadvertise, subscribeParameterUpdates, unsubscribeParameterUpdates
\* and fetchAsset: the object is the op and the arguments.
PlainCommand(c) == Text(c)

ClientFrame(c) ==
    CASE c.op = "publish"        -> publish(c)
      [] c.op = "serviceRequest" -> sendServiceRequest(c)
      [] c.op = "subscribe"      -> subscribe(c)
      [] c.op = "advertise"      -> advertise(c)
      [] c.op = "getParameters"  -> getParameters(c)
      [] c.op = "setParameters"  -> setParameters(c)
      [] OTHER                   -> PlainCommand(c)

Refused == [op |-> "refused"]

\* handleBinaryMessage; ClientMessage::getData skips the opcode and the channel.
ReadBinary(data) ==
    CASE data[1] = MESSAGE_DATA ->
           IF Len(data) < 5 THEN Refused
           ELSE [op |-> "publish", channelId |-> ReadUint32LE(At(data, 1)), data |-> At(data, 5)]
      [] data[1] = SERVICE_CALL_REQUEST ->
           IF Len(data) < EmptySize THEN Refused
           ELSE [op |-> "serviceRequest", request |-> ServiceRead(At(data, 1))]
      [] OTHER -> Refused

\* What the handlers take from the object.
ReadSubscribe(j) ==
    [op |-> j.op, subscriptions |->
         Each(LAMBDA s : [subId |-> s.id, channelId |-> s.channelId], j.subscriptions)]

\* The advertisement is built without a schema.
ReadAdvertise(j) ==
    [op |-> j.op, channels |->
         Each(LAMBDA a : [channelId |-> a.id, topic |-> a.topic, encoding |-> a.encoding,
                          schemaName |-> a.schemaName, schema |-> <<>>], j.channels)]

ReadGetParameters(j) == [op |-> j.op, names |-> j.parameterNames, id |-> Found(j, "id")]

ReadSetParameters(j) ==
    IF \A p \in ToSet(j.parameters) : ParameterReadable(p)
      THEN [op |-> j.op, parameters |-> Each(ParameterFromJson, j.parameters), id |-> Found(j, "id")]
      ELSE Refused

\* Names of parameters to subscribe to are read as a set.
ReadParameterNames(j) == [op |-> j.op, parameterNames |-> ToSet(j.parameterNames)]

ReadText(j) ==
    CASE j.op = "subscribe"     -> ReadSubscribe(j)
      [] j.op = "advertise"     -> ReadAdvertise(j)
      [] j.op = "getParameters" -> ReadGetParameters(j)
      [] j.op = "setParameters" -> ReadSetParameters(j)
      [] j.op \in {"subscribeParameterUpdates", "unsubscribeParameterUpdates"} -> ReadParameterNames(j)
      [] j.op \in {"unsubscribe", "unadvertise", "fetchAsset"} -> j
      [] OTHER -> Refused

ServerReads(frame) == IF frame.binary THEN ReadBinary(frame.body) ELSE ReadText(frame.body)

-----------------------------------------------------------------------------
(* Messages of the server, and what a handler of the client reads *)

\* sendMessage
DataFrame(m) ==
    Binary(<<MESSAGE_DATA>> \o WriteUint32LE(m.subId) \o WriteUint64LE(m.timestamp) \o m.data)

\* broadcastTime
TimeFrame(m) == Binary(<<TIME_DATA>> \o WriteUint64LE(m.timestamp))

\* sendServiceResponse
ResponseFrame(m) == Binary(<<SERVICE_CALL_RESPONSE>> \o ServiceWrite(m.response))

\* sendFetchAssetResponse: status 0 is success.  The length of the error message
\* is written even where the message itself is not.
AssetFrame(m) ==
    Binary(<<FETCH_ASSET_RESPONSE>> \o WriteUint32LE(m.requestId) \o <<m.status>>
               \o WriteUint32LE(Len(m.errorMessage))
               \o (IF m.status = 1 THEN m.errorMessage ELSE m.data))

\* The parameters that are set, in their order.
WithValue(parameters) ==
    LET upTo[i \in 0..Len(parameters)] ==
            IF i = 0 THEN <<>>
            ELSE IF parameters[i].value.type = "not_set" THEN upTo[i - 1]
            ELSE Append(upTo[i - 1], parameters[i])
    IN  upTo[Len(parameters)]

\* publishParameterValues leaves out the others.
ParametersFrame(m) ==
    Text(Joined([op |-> m.op, parameters |-> Each(ParameterToJson, WithValue(m.parameters))],
                Optional("id", m.id)))

\* The advertisements of channels and of services.
AdvertiseFrame(m) ==
    Text([op |-> m.op,
          items |-> IF m.op = "advertise" THEN Each(ChannelToJson, m.items) ELSE Each(ServiceToJson, m.items)])

ServerFrame(m) ==
    CASE m.op = "data"            -> DataFrame(m)
      [] m.op = "time"            -> TimeFrame(m)
      [] m.op = "serviceResponse" -> ResponseFrame(m)
      [] m.op = "asset"           -> AssetFrame(m)
      [] m.op = "parameterValues" -> ParametersFrame(m)
      [] OTHER                    -> AdvertiseFrame(m)

\* A handler of the application, by the layouts above.
HandlerReads(f) ==
    LET b == f.body
        Time(n) == <<ReadUint32LE(At(b, n)), ReadUint32LE(At(b, n + 4))>>
    IN IF f.binary
         THEN CASE b[1] = MESSAGE_DATA -> [op |-> "data", subId |-> ReadUint32LE(At(b, 1)),
                                           timestamp |-> Time(5), data |-> At(b, 13)]
                [] b[1] = TIME_DATA -> [op |-> "time", timestamp |-> Time(1)]
                [] b[1] = SERVICE_CALL_RESPONSE -> [op |-> "serviceResponse", response |-> ServiceRead(At(b, 1))]
                [] b[1] = FETCH_ASSET_RESPONSE ->
                     LET n == ReadUint32LE(At(b, 6)) IN
                     IF Len(b) < 10 + n THEN Refused
                     ELSE [op |-> "asset", requestId |-> ReadUint32LE(At(b, 1)), status |-> b[6],
                           errorMessage |-> SubSeq(b, 11, 10 + n), data |-> At(b, 10 + n)]
         ELSE CASE b.op = "parameterValues" -> [op |-> b.op, id |-> Found(b, "id"),
                                                parameters |-> Each(ParameterFromJson, b.parameters)]
                [] b.op = "advertise" -> [op |-> b.op, items |-> Each(ChannelFromJson, b.items)]
                [] b.op = "advertiseServices" -> [op |-> b.op, items |-> Each(ServiceFromJson, b.items)]
=============================================================================
