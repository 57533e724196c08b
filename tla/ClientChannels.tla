--------------------------- MODULE ClientChannels ---------------------------
(***************************************************************************)
(* Channels that clients advertise: _clientChannels, the advertisedChannels *)
(* of every client, and what the application was told about them.          *)
(*                                                                         *)
(* The worker runs handleAdvertise, handleUnadvertise and the client-data  *)
(* case of handleBinaryMessage, each with _clientChannelsMutex held from   *)
(* beginning to end and possibly for a client that has closed; the io      *)
(* thread runs handleConnectionOpened and handleConnectionClosed.  A step  *)
(* is one critical section of _clientsMutex or one handler call.           *)
(***************************************************************************)
EXTENDS Naturals, Sequences, FiniteSets

CONSTANTS
    Clients,             \* connection handles, one per connection
    ClientChannelIds,    \* channel ids clients choose
    NoClient,            \* a thread that serves no client
    NoChannel,           \* no channel in hand
    AdvertisePayloads,   \* "channels" arrays: sequences of [id, listed]
    UnadvertisePayloads  \* "channelIds" arrays: sequences of ids

\* listed: the topic matches clientTopicWhitelistPatterns
Entries == [id : ClientChannelIds, listed : BOOLEAN]

ASSUME ClientChannelsAssumption ==
    /\ NoClient \notin Clients
    /\ NoChannel \notin ClientChannelIds
    /\ AdvertisePayloads \subseteq Seq(Entries)
    /\ UnadvertisePayloads \subseteq Seq(ClientChannelIds)

VARIABLES
    conn,          \* the connection: "none", "open", "closed"; open = in _clients
    advertised,    \* _clients[h].advertisedChannels
    keys,          \* keys of _clientChannels
    pubs,          \* keys of _clientChannels[h], {} if there is no such entry
    ioPc, ioHdl,   \* the io thread and the connection it closes
    ioChans,       \* its copy oldAdvertisedChannels, less the ones done
    wPc, wHdl,     \* the worker and the client whose message it handles
    wReqs, wIds,   \* rest of an advertise / an unadvertise payload
    wChan,         \* channel of the entry being handled
    wFirst,        \* isFirstPublication
    told,          \* channels the application believes the client advertises
    orphans,       \* history: advertiseHandler calls whose emplace threw
    revived        \* history: closed clients given an entry in _clientChannels

tableVars == <<conn, advertised, keys, pubs>>
ioVars    == <<ioPc, ioHdl, ioChans>>
wVars     == <<wPc, wHdl, wReqs, wIds, wChan, wFirst>>
history   == <<orphans, revived>>
vars == <<conn, advertised, keys, pubs, ioPc, ioHdl, ioChans,
          wPc, wHdl, wReqs, wIds, wChan, wFirst, told, orphans, revived>>

Connected == {h \in Clients : conn[h] = "open"}

Init ==
    /\ conn = [h \in Clients |-> "none"]
    /\ advertised = [h \in Clients |-> {}]
    /\ keys = {}
    /\ pubs = [h \in Clients |-> {}]
    /\ ioPc = "idle" /\ ioHdl = NoClient /\ ioChans = {}
    /\ wPc = "idle" /\ wHdl = NoClient /\ wReqs = <<>> /\ wIds = <<>>
    /\ wChan = NoChannel /\ wFirst = FALSE
    /\ told = [h \in Clients |-> {}]
    /\ orphans = [h \in Clients |-> {}]
    /\ revived = {}

-----------------------------------------------------------------------------
(* worker thread *)

\* A message may be handled once the connection was open: also after it closed.
Delivered(h) == conn[h] \in {"open", "closed"}

\* The handler returns, or an exception leaves it: _clientChannelsMutex is free.
WorkerIdle ==
    /\ wPc' = "idle" /\ wHdl' = NoClient
    /\ wReqs' = <<>> /\ wIds' = <<>>
    /\ wChan' = NoChannel /\ wFirst' = FALSE

\* handleAdvertise makes an entry for the client if there is none; it does not
\* look whether the client is still connected.
AdvertiseBegin(h, reqs) ==
    /\ wPc = "idle"
    /\ Delivered(h)
    /\ keys' = keys \cup {h}
    /\ wPc' = "advertise" /\ wHdl' = h /\ wReqs' = reqs /\ wFirst' = (h \notin keys)
    /\ revived' = IF conn[h] = "closed" THEN revived \cup {h} ELSE revived
    /\ UNCHANGED <<conn, advertised, pubs, ioVars, wIds, wChan, told, orphans>>

\* An entry is skipped if its channel is advertised already, which is not looked
\* at in the client's first publication, or if its topic is not whitelisted.
Refused(req) ==
    \/ ~wFirst /\ req.id \in pubs[wHdl]
    \/ ~req.listed

AdvertiseSkip ==
    /\ wPc = "advertise"
    /\ wReqs # <<>>
    /\ Refused(Head(wReqs))
    /\ wReqs' = Tail(wReqs)
    /\ UNCHANGED <<tableVars, ioVars, wPc, wHdl, wIds, wChan, wFirst, told, history>>

\* clientAdvertiseHandler accepts, or throws to refuse: the rest is dropped.
AdvertiseCall ==
    /\ wPc = "advertise"
    /\ wReqs # <<>>
    /\ ~Refused(Head(wReqs))
    /\ \/ /\ told' = [told EXCEPT ![wHdl] = @ \cup {Head(wReqs).id}]
          /\ wChan' = Head(wReqs).id
          /\ wReqs' = Tail(wReqs)
          /\ wPc' = "advEmplace"
          /\ UNCHANGED <<wHdl, wIds, wFirst>>
       \/ WorkerIdle /\ UNCHANGED told
    /\ UNCHANGED <<tableVars, ioVars, history>>

\* Under _clientsMutex the channel is entered into both tables; _clients.at
\* throws, before either, if the client closed.
AdvertiseEmplace ==
    /\ wPc = "advEmplace"
    /\ \/ /\ wHdl \in Connected
          /\ advertised' = [advertised EXCEPT ![wHdl] = @ \cup {wChan}]
          /\ pubs' = [pubs EXCEPT ![wHdl] = @ \cup {wChan}]
          /\ wPc' = "advertise" /\ wChan' = NoChannel
          /\ UNCHANGED <<wHdl, wReqs, wIds, wFirst, orphans>>
       \/ /\ wHdl \notin Connected
          /\ orphans' = [orphans EXCEPT ![wHdl] = @ \cup {wChan}]
          /\ WorkerIdle
          /\ UNCHANGED <<advertised, pubs>>
    /\ UNCHANGED <<conn, keys, ioVars, told, revived>>

\* The loop of handleAdvertise or of handleUnadvertise is through.
PayloadDone ==
    /\ \/ wPc = "advertise" /\ wReqs = <<>>
       \/ wPc = "unadvertise" /\ wIds = <<>>
    /\ WorkerIdle
    /\ UNCHANGED <<tableVars, ioVars, told, history>>

\* handleUnadvertise returns at once if the client has no entry.
UnadvertiseBegin(h, ids) ==
    /\ wPc = "idle"
    /\ Delivered(h)
    /\ h \in keys
    /\ wPc' = "unadvertise" /\ wHdl' = h /\ wIds' = ids
    /\ UNCHANGED <<tableVars, ioVars, wReqs, wChan, wFirst, told, history>>

\* A channel that is not in the entry is skipped; otherwise
\* clientUnadvertiseHandler is called; if it throws the rest is dropped.
UnadvertiseCall ==
    /\ wPc = "unadvertise"
    /\ wIds # <<>>
    /\ LET id == Head(wIds) IN
       \/ /\ id \notin pubs[wHdl]
          /\ wIds' = Tail(wIds)
          /\ UNCHANGED <<wPc, wHdl, wReqs, wChan, wFirst, told>>
       \/ /\ id \in pubs[wHdl]
          /\ told' = [told EXCEPT ![wHdl] = @ \ {id}]
          /\ wPc' = "unadvErase" /\ wChan' = id /\ wIds' = Tail(wIds)
          /\ UNCHANGED <<wHdl, wReqs, wFirst>>
       \/ id \in pubs[wHdl] /\ WorkerIdle /\ UNCHANGED told
    /\ UNCHANGED <<tableVars, ioVars, history>>

\* Faulty variant: the channel stays in the client's advertisedChannels.
UnadvertiseEraseOne ==
    /\ wPc = "unadvErase"
    /\ IF wHdl \in Connected
         THEN /\ pubs' = [pubs EXCEPT ![wHdl] = @ \ {wChan}]
              /\ wPc' = "unadvertise" /\ wChan' = NoChannel
              /\ UNCHANGED <<wHdl, wReqs, wIds, wFirst>>
         ELSE WorkerIdle /\ UNCHANGED pubs
    /\ UNCHANGED <<conn, advertised, keys, ioVars, told, history>>

\* Under _clientsMutex both tables forget the channel; _clients.at throws,
\* before either, if the client closed.
UnadvertiseErase ==
    /\ wPc = "unadvErase"
    /\ IF wHdl \in Connected
         THEN /\ advertised' = [advertised EXCEPT ![wHdl] = @ \ {wChan}]
              /\ pubs' = [pubs EXCEPT ![wHdl] = @ \ {wChan}]
              /\ wPc' = "unadvertise" /\ wChan' = NoChannel
              /\ UNCHANGED <<wHdl, wReqs, wIds, wFirst>>
         ELSE WorkerIdle /\ UNCHANGED <<advertised, pubs>>
    /\ UNCHANGED <<conn, keys, ioVars, told, history>>

\* Faulty variant: the channel of a data message is not looked up.
MessageFindAny(h, ch) ==
    /\ wPc = "idle"
    /\ Delivered(h)
    /\ h \in keys
    /\ wPc' = "message" /\ wHdl' = h /\ wChan' = ch
    /\ UNCHANGED <<tableVars, ioVars, wReqs, wIds, wFirst, told, history>>

\* handleBinaryMessage, MESSAGE_DATA: answered with an error, and nothing
\* happens, unless the client's entry has the channel.
MessageFind(h, ch) ==
    /\ wPc = "idle"
    /\ Delivered(h)
    /\ h \in keys /\ ch \in pubs[h]
    /\ wPc' = "message" /\ wHdl' = h /\ wChan' = ch
    /\ UNCHANGED <<tableVars, ioVars, wReqs, wIds, wFirst, told, history>>

\* clientMessageHandler returns, or throws and the client gets an error.
MessageCall ==
    /\ wPc = "message"
    /\ WorkerIdle
    /\ UNCHANGED <<tableVars, ioVars, told, history>>

-----------------------------------------------------------------------------
(* io thread *)

\* handleConnectionOpened
Open(h) ==
    /\ ioPc = "idle"
    /\ conn[h] = "none"
    /\ conn' = [conn EXCEPT ![h] = "open"]
    /\ UNCHANGED <<advertised, keys, pubs, ioVars, wVars, told, history>>

\* Faulty variant: the client is erased before its channels are copied.
CloseEraseNoCopy(h) ==
    /\ ioPc = "idle"
    /\ conn[h] = "open"
    /\ conn' = [conn EXCEPT ![h] = "closed"]
    /\ advertised' = [advertised EXCEPT ![h] = {}]
    /\ ioPc' = "closing" /\ ioHdl' = h /\ ioChans' = {}
    /\ UNCHANGED <<keys, pubs, wVars, told, history>>

\* handleConnectionClosed copies advertisedChannels and erases the client ...
CloseErase(h) ==
    /\ ioPc = "idle"
    /\ conn[h] = "open"
    /\ conn' = [conn EXCEPT ![h] = "closed"]
    /\ advertised' = [advertised EXCEPT ![h] = {}]
    /\ ioPc' = "closing" /\ ioHdl' = h /\ ioChans' = advertised[h]
    /\ UNCHANGED <<keys, pubs, wVars, told, history>>

\* ... calls clientUnadvertiseHandler per channel, ignoring exceptions ...
CloseUnadvertise(ch) ==
    /\ ioPc = "closing"
    /\ ch \in ioChans
    /\ told' = [told EXCEPT ![ioHdl] = @ \ {ch}]
    /\ ioChans' = ioChans \ {ch}
    /\ UNCHANGED <<tableVars, ioPc, ioHdl, wVars, history>>

\* Faulty variant: the entry of the closed client is kept.
CloseForgetNot ==
    /\ ioPc = "closing"
    /\ ioChans = {}
    /\ wPc = "idle"
    /\ ioPc' = "idle" /\ ioHdl' = NoClient
    /\ UNCHANGED <<tableVars, ioChans, wVars, told, history>>

\* ... and erases the client's entry, when the worker is in no handler.
CloseForget ==
    /\ ioPc = "closing"
    /\ ioChans = {}
    /\ wPc = "idle"
    /\ keys' = keys \ {ioHdl}
    /\ pubs' = [pubs EXCEPT ![ioHdl] = {}]
    /\ ioPc' = "idle" /\ ioHdl' = NoClient
    /\ UNCHANGED <<conn, advertised, ioChans, wVars, told, history>>

-----------------------------------------------------------------------------
WorkerStep ==
    \/ \E h \in Clients :
         \/ \E reqs \in AdvertisePayloads : AdvertiseBegin(h, reqs)
         \/ \E ids \in UnadvertisePayloads : UnadvertiseBegin(h, ids)
         \/ \E ch \in ClientChannelIds : MessageFind(h, ch)
    \/ AdvertiseSkip \/ AdvertiseCall \/ AdvertiseEmplace \/ PayloadDone
    \/ UnadvertiseCall \/ UnadvertiseErase
    \/ MessageCall

IoStep ==
    \/ \E h \in Clients : Open(h) \/ CloseErase(h)
    \/ \E ch \in ClientChannelIds : CloseUnadvertise(ch)
    \/ CloseForget

Next == WorkerStep \/ IoStep

Spec == Init /\ [][Next]_vars

\* The close handler goes on with its calls, whatever the worker does.
FairSpec == Spec /\ WF_vars(\E ch \in ClientChannelIds : CloseUnadvertise(ch))

-----------------------------------------------------------------------------
(* Properties *)

\* Types of the variables; only clients with an entry have publications, only
\* connected ones have advertisedChannels.
TypeOK ==
    /\ conn \in [Clients -> {"none", "open", "closed"}]
    /\ advertised \in [Clients -> SUBSET ClientChannelIds]
    /\ keys \subseteq Clients
    /\ pubs \in [Clients -> SUBSET ClientChannelIds]
    /\ \A h \in Clients : h \notin keys => pubs[h] = {}
    /\ \A h \in Clients : h \notin Connected => advertised[h] = {}
    /\ ioPc \in {"idle", "closing"}
    /\ ioHdl \in Clients \cup {NoClient}
    /\ ioChans \subseteq ClientChannelIds
    /\ wPc \in {"idle", "advertise", "advEmplace", "unadvertise", "unadvErase", "message"}
    /\ wHdl \in Clients \cup {NoClient}
    /\ wReqs \in Seq(Entries)
    /\ wIds \in Seq(ClientChannelIds)
    /\ wChan \in ClientChannelIds \cup {NoChannel}
    /\ wFirst \in BOOLEAN
    /\ told \in [Clients -> SUBSET ClientChannelIds]
    /\ orphans \in [Clients -> SUBSET ClientChannelIds]
    /\ revived \subseteq Clients

Advertising(h) ==
    IF wPc = "advEmplace" /\ wHdl = h THEN {wChan} ELSE {}
Withdrawing(h) ==
    IF wPc = "unadvErase" /\ wHdl = h THEN {wChan} ELSE {}

\* What a connected client advertises is the same in _clientChannels (which
\* decides on its messages) and in its advertisedChannels (which decides what is
\* withdrawn when it closes).
TablesAgree == \A h \in Connected : pubs[h] = advertised[h]

\* The application knows exactly the channels a connected client advertises, but
\* for the one between a handler call and the table update.
ToldAgrees ==
    \A h \in Connected :
        /\ advertised[h] \ Withdrawing(h) \subseteq told[h]
        /\ told[h] \subseteq advertised[h] \cup Advertising(h)

\* Both tables and the application agree on what a connected client advertises,
\* although handleAdvertise and handleUnadvertise call handlers between them.
AdvertisedAgree == TypeOK /\ TablesAgree /\ ToldAgrees

\* clientMessageHandler gets a message of a connected client only for a channel
\* that the application knows of.
MessageAdvertised ==
    wPc = "message" /\ wHdl \in Connected => wChan \in told[wHdl]

\* A closed client keeps an entry in _clientChannels only until its close handler
\* is through, except if a message of it was handled after it closed.
NoLeftoverEntry ==
    \A h \in keys :
        h \in Connected \/ (ioPc = "closing" /\ ioHdl = h) \/ h \in revived

\* "Unadvertise all channels this client advertised": after a close the
\* application is told to drop every channel for good, but for those whose
\* clientAdvertiseHandler call came so late that the client was gone after it.
CloseWithdraws ==
    \A h \in Clients : conn[h] = "closed" ~> [](told[h] \subseteq orphans[h] \cup Advertising(h))
=============================================================================
