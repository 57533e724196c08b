--------------------------- MODULE ServerChannels ---------------------------
(***************************************************************************)
(* The part of Server (websocket_server.hpp) that keeps connections,       *)
(* channels and channel subscriptions: _clients with each client's         *)
(* subscriptionsByChannel, _channels and _nextChannelId.                   *)
(*                                                                         *)
(* Three threads work on them:                                             *)
(*   - io      runs handleConnectionOpened and handleConnectionClosed;     *)
(*   - worker  the one thread of _handlerCallbackQueue, runs               *)
(*             handleSubscribe and handleUnsubscribe;                      *)
(*   - app     calls addChannels and removeChannels.                       *)
(* A step is one critical section of _clientsMutex or _channelsMutex, or   *)
(* one call of a handler the application registered.                       *)
(*                                                                         *)
(* handleMessage queues a message of an open connection and the worker     *)
(* takes it later, possibly after the connection closed.  What a client    *)
(* sends is arbitrary, so the queue is not represented: the worker may     *)
(* take up any payload of any client whose opening is complete.            *)
(***************************************************************************)
EXTENDS Naturals, Sequences, FiniteSets

CONSTANTS
    Clients,              \* connection handles, one per connection
    MaxChannels,          \* bound: channel ids handed out
    SubIds,               \* subscription ids clients choose
    NoSub,                \* a channel the client is not subscribed to
    NoClient,             \* a thread that serves no client
    SubscribePayloads,    \* "subscriptions" arrays: sequences of [id, chan]
    UnsubscribePayloads   \* "subscriptionIds" arrays: sequences of ids

ChannelIds == 1..MaxChannels

ASSUME MaxChannelsAssumption == MaxChannels \in Nat \ {0}
ASSUME NoSubAssumption == NoSub \notin SubIds /\ NoClient \notin Clients
ASSUME PayloadAssumption ==
    /\ SubscribePayloads \subseteq Seq([id : SubIds, chan : ChannelIds])
    /\ UnsubscribePayloads \subseteq Seq(SubIds)

VARIABLES
    conn,          \* the connection: "none", "opening", "open", "closed"
    clients,       \* keys of _clients
    subs,          \* _clients[h].subscriptionsByChannel
    channels,      \* keys of _channels
    nextChannelId, \* _nextChannelId
    ioPc, ioHdl,   \* the io thread and the connection it serves
    ioChans,       \* its local copy: channels to advertise / to unsubscribe
    wPc, wHdl,     \* the worker and the client whose message it handles
    wReqs, wIds,   \* rest of a subscribe / an unsubscribe payload
    wSnap,         \* clientSubscriptionsByChannel, the copy taken at the start
    wChan,         \* channel of the entry being handled
    appPc, appIds, \* the application thread and its argument / new ids
    view,          \* channels the client has been told of, in send order
    told,          \* channels the application believes the client subscribes to
    stale,         \* history: advertised from a copy after their removal
    late,          \* history: subscriptions recorded after their channel's removal
    orphans        \* history: subscribeHandler calls whose emplace threw

netVars  == <<conn, clients, subs>>
chanVars == <<channels, nextChannelId>>
ioVars   == <<ioPc, ioHdl, ioChans>>
wVars    == <<wPc, wHdl, wReqs, wIds, wSnap, wChan>>
appVars  == <<appPc, appIds>>
vars == <<conn, clients, subs, channels, nextChannelId, ioPc, ioHdl, ioChans,
          wPc, wHdl, wReqs, wIds, wSnap, wChan, appPc, appIds, view, told, stale, late, orphans>>

NoSubs == [ch \in ChannelIds |-> NoSub]
Subscribed(table) == {ch \in ChannelIds : table[ch] # NoSub}

Init ==
    /\ conn = [h \in Clients |-> "none"]
    /\ clients = {}
    /\ subs = [h \in Clients |-> NoSubs]
    /\ channels = {}
    /\ nextChannelId = 0
    /\ ioPc = "idle" /\ ioHdl = NoClient /\ ioChans = {}
    /\ wPc = "idle" /\ wHdl = NoClient /\ wReqs = <<>> /\ wIds = <<>>
    /\ wSnap = NoSubs /\ wChan = 0
    /\ appPc = "idle" /\ appIds = {}
    /\ view = [h \in Clients |-> {}]
    /\ told = [h \in Clients |-> {}]
    /\ stale = [h \in Clients |-> {}]
    /\ late = [h \in Clients |-> {}]
    /\ orphans = [h \in Clients |-> {}]

-----------------------------------------------------------------------------
(* io thread *)

IoIdle == ioPc' = "idle" /\ ioHdl' = NoClient /\ ioChans' = {}

\* handleConnectionOpened enters the client into _clients ...
OpenEmplace(h) ==
    /\ ioPc = "idle"
    /\ conn[h] = "none"
    /\ conn' = [conn EXCEPT ![h] = "opening"]
    /\ clients' = clients \cup {h}
    /\ subs' = [subs EXCEPT ![h] = NoSubs]
    /\ ioPc' = "openSnap" /\ ioHdl' = h
    /\ UNCHANGED <<ioChans, chanVars, wVars, appVars, view, told, stale, late, orphans>>

\* ... sends serverInfo, copies _channels under the shared _channelsMutex ...
OpenSnapshot ==
    /\ ioPc = "openSnap"
    /\ appPc \notin {"insert", "erase"}
    /\ ioChans' = channels
    /\ ioPc' = "openSend"
    /\ UNCHANGED <<ioHdl, netVars, chanVars, wVars, appVars, view, told, stale, late, orphans>>

\* ... and advertises the copy after the mutex is released.
OpenAdvertise ==
    /\ ioPc = "openSend"
    /\ view' = [view EXCEPT ![ioHdl] = @ \cup ioChans]
    /\ conn' = [conn EXCEPT ![ioHdl] = "open"]
    /\ IoIdle
    /\ UNCHANGED <<clients, subs, chanVars, wVars, appVars, told, stale, late, orphans>>

\* Faulty variant: the client is erased before its subscriptions are copied.
CloseEraseNoCopy(h) ==
    /\ ioPc = "idle"
    /\ conn[h] = "open"
    /\ conn' = [conn EXCEPT ![h] = "closed"]
    /\ clients' = clients \ {h}
    /\ subs' = [subs EXCEPT ![h] = NoSubs]
    /\ ioPc' = "closing" /\ ioHdl' = h
    /\ ioChans' = {}
    /\ UNCHANGED <<chanVars, wVars, appVars, view, told, stale, late, orphans>>

\* handleConnectionClosed copies the subscriptions and erases the client in one
\* critical section ...
CloseErase(h) ==
    /\ ioPc = "idle"
    /\ conn[h] = "open"
    /\ conn' = [conn EXCEPT ![h] = "closed"]
    /\ clients' = clients \ {h}
    /\ subs' = [subs EXCEPT ![h] = NoSubs]
    /\ ioPc' = "closing" /\ ioHdl' = h
    /\ ioChans' = Subscribed(subs[h])
    /\ UNCHANGED <<chanVars, wVars, appVars, view, told, stale, late, orphans>>

\* ... then calls unsubscribeHandler once per copied channel, in any order;
\* exceptions are logged and the loop goes on.
CloseUnsubscribe(ch) ==
    /\ ioPc = "closing"
    /\ ch \in ioChans
    /\ told' = [told EXCEPT ![ioHdl] = @ \ {ch}]
    /\ ioChans' = ioChans \ {ch}
    /\ UNCHANGED <<ioPc, ioHdl, netVars, chanVars, wVars, appVars, view, stale, late, orphans>>

CloseDone ==
    /\ ioPc = "closing"
    /\ ioChans = {}
    /\ IoIdle
    /\ UNCHANGED <<netVars, chanVars, wVars, appVars, view, told, stale, late, orphans>>

-----------------------------------------------------------------------------
(* worker thread *)

\* A message may be handled once the connection was open: also after it closed.
Delivered(h) == conn[h] \in {"open", "closed"}

WorkerIdle ==
    /\ wPc' = "idle" /\ wHdl' = NoClient
    /\ wReqs' = <<>> /\ wIds' = <<>>
    /\ wSnap' = NoSubs /\ wChan' = 0

\* Faulty variant: the loop runs one entry too far.
NextRequestOffByOne ==
    IF Len(wReqs) = 0
      THEN WorkerIdle
      ELSE /\ wPc' = "subscribe" /\ wReqs' = Tail(wReqs) /\ wChan' = 0
           /\ UNCHANGED <<wHdl, wIds, wSnap>>

\* The loop of handleSubscribe goes on with the next entry, or ends.
NextRequest ==
    IF Len(wReqs) = 1
      THEN WorkerIdle
      ELSE /\ wPc' = "subscribe" /\ wReqs' = Tail(wReqs) /\ wChan' = 0
           /\ UNCHANGED <<wHdl, wIds, wSnap>>

\* handleSubscribe copies the client's subscriptions; _clients.at throws, and
\* nothing happens, if the client is gone.
SubscribeBegin(h, reqs) ==
    /\ wPc = "idle"
    /\ Delivered(h)
    /\ h \in clients
    /\ reqs # <<>>
    /\ wPc' = "subscribe" /\ wHdl' = h /\ wReqs' = reqs
    /\ wSnap' = subs[h]
    /\ UNCHANGED <<wIds, wChan, netVars, chanVars, ioVars, appVars, view, told, stale, late, orphans>>

\* Faulty variant: only the first table entry is compared.
IdUsedFirst(table, id) == table[1] = id

\* findSubscriptionBySubId
IdUsed(table, id) == \E ch \in ChannelIds : table[ch] = id

\* _channels.find without _channelsMutex: while the application is inside
\* addChannels or removeChannels the ids it inserts or erases may or may not be
\* found, and so may any other channel (the table may be rehashing).
FindResults(ch) ==
    IF appPc \in {"insert", "erase"} /\ ch \in channels \cup appIds
      THEN BOOLEAN
      ELSE {ch \in channels}

\* One entry: ignored if its id is in the copy or its channel is not available.
SubscribeCheck ==
    /\ wPc = "subscribe"
    /\ LET req == Head(wReqs) IN
       \E found \in FindResults(req.chan) :
         IF found /\ ~IdUsed(wSnap, req.id)
           THEN /\ wPc' = "subCall" /\ wChan' = req.chan
                /\ UNCHANGED <<wHdl, wReqs, wIds, wSnap>>
           ELSE NextRequest
    /\ UNCHANGED <<netVars, chanVars, ioVars, appVars, view, told, stale, late, orphans>>

\* Faulty variant: an exception of subscribeHandler is swallowed per entry.
SubscribeCallSwallow ==
    /\ wPc = "subCall"
    /\ \/ told' = [told EXCEPT ![wHdl] = @ \cup {wChan}]
       \/ UNCHANGED told
    /\ wPc' = "subEmplace"
    /\ UNCHANGED <<wHdl, wReqs, wIds, wSnap, wChan>>
    /\ UNCHANGED <<netVars, chanVars, ioVars, appVars, view, stale, late, orphans>>

\* _handlers.subscribeHandler accepts, or throws to refuse: then the rest of the
\* payload is dropped.  No lock is held.
SubscribeCall ==
    /\ wPc = "subCall"
    /\ \/ /\ told' = [told EXCEPT ![wHdl] = @ \cup {wChan}]
          /\ wPc' = "subEmplace"
          /\ UNCHANGED <<wHdl, wReqs, wIds, wSnap, wChan>>
       \/ WorkerIdle /\ UNCHANGED told
    /\ UNCHANGED <<netVars, chanVars, ioVars, appVars, view, stale, late, orphans>>

\* _clients.at(hdl).subscriptionsByChannel.emplace(channelId, subId): at throws
\* if the client closed meanwhile, emplace keeps an existing entry.
SubscribeEmplace ==
    /\ wPc = "subEmplace"
    /\ IF wHdl \in clients
         THEN /\ subs' = IF subs[wHdl][wChan] = NoSub
                           THEN [subs EXCEPT ![wHdl][wChan] = Head(wReqs).id]
                           ELSE subs
              /\ late' = [late EXCEPT ![wHdl] = @ \cup ({wChan} \ channels)]
              /\ NextRequest
              /\ UNCHANGED orphans
         ELSE /\ orphans' = [orphans EXCEPT ![wHdl] = @ \cup {wChan}]
              /\ WorkerIdle
              /\ UNCHANGED <<subs, late>>
    /\ UNCHANGED <<conn, clients, chanVars, ioVars, appVars, view, told, stale>>

NextId ==
    IF Len(wIds) = 1
      THEN WorkerIdle
      ELSE /\ wPc' = "unsubscribe" /\ wIds' = Tail(wIds) /\ wChan' = 0
           /\ UNCHANGED <<wHdl, wReqs, wSnap>>

\* handleUnsubscribe copies the client's subscriptions.
UnsubscribeBegin(h, ids) ==
    /\ wPc = "idle"
    /\ Delivered(h)
    /\ h \in clients
    /\ ids # <<>>
    /\ wPc' = "unsubscribe" /\ wHdl' = h /\ wIds' = ids
    /\ wSnap' = subs[h]
    /\ UNCHANGED <<wReqs, wChan, netVars, chanVars, ioVars, appVars, view, told, stale, late, orphans>>

\* An id that is not in the copy is ignored; otherwise unsubscribeHandler is
\* called, with no lock held; if it throws the rest of the payload is dropped.
UnsubscribeCall ==
    /\ wPc = "unsubscribe"
    /\ \/ /\ ~IdUsed(wSnap, Head(wIds))
          /\ NextId
          /\ UNCHANGED told
       \/ \E ch \in ChannelIds :
            /\ wSnap[ch] = Head(wIds)
            /\ told' = [told EXCEPT ![wHdl] = @ \ {ch}]
            /\ wPc' = "unsubErase" /\ wChan' = ch
            /\ UNCHANGED <<wHdl, wReqs, wIds, wSnap>>
       \/ /\ IdUsed(wSnap, Head(wIds))
          /\ WorkerIdle
          /\ UNCHANGED told
    /\ UNCHANGED <<netVars, chanVars, ioVars, appVars, view, stale, late, orphans>>

\* _clients.at(hdl).subscriptionsByChannel.erase(chanId)
UnsubscribeErase ==
    /\ wPc = "unsubErase"
    /\ IF wHdl \in clients
         THEN subs' = [subs EXCEPT ![wHdl][wChan] = NoSub] /\ NextId
         ELSE UNCHANGED subs /\ WorkerIdle
    /\ UNCHANGED <<conn, clients, chanVars, ioVars, appVars, view, told, stale, late, orphans>>

-----------------------------------------------------------------------------
(* application thread *)

AppIdle == appPc' = "idle" /\ appIds' = {}

\* addChannels takes _channelsMutex and gives each channel a new id ...
AddBegin(n) ==
    /\ appPc = "idle"
    /\ nextChannelId + n <= MaxChannels
    /\ appIds' = (nextChannelId + 1)..(nextChannelId + n)
    /\ nextChannelId' = nextChannelId + n
    /\ appPc' = "insert"
    /\ UNCHANGED <<netVars, channels, ioVars, wVars, view, told, stale, late, orphans>>

AddInsert ==
    /\ appPc = "insert"
    /\ channels' = channels \cup appIds
    /\ appPc' = "advertise"
    /\ UNCHANGED <<appIds, netVars, nextChannelId, ioVars, wVars, view, told, stale, late, orphans>>

\* Faulty variant: clients whose opening is not complete are skipped.
AddAdvertiseOpen ==
    /\ appPc = "advertise"
    /\ view' = [h \in Clients |->
                  IF h \in clients /\ conn[h] = "open" THEN view[h] \cup appIds ELSE view[h]]
    /\ AppIdle
    /\ UNCHANGED <<netVars, chanVars, ioVars, wVars, told, stale, late, orphans>>

\* ... releases it, and advertises the new channels to every client.
AddAdvertise ==
    /\ appPc = "advertise"
    /\ view' = [h \in Clients |-> IF h \in clients THEN view[h] \cup appIds ELSE view[h]]
    /\ AppIdle
    /\ UNCHANGED <<netVars, chanVars, ioVars, wVars, told, stale, late, orphans>>

\* removeChannels erases the channels under _channelsMutex ...
RemoveBegin(ids) ==
    /\ appPc = "idle"
    /\ ids # {}
    /\ appIds' = ids
    /\ appPc' = "erase"
    /\ UNCHANGED <<netVars, chanVars, ioVars, wVars, view, told, stale, late, orphans>>

RemoveErase ==
    /\ appPc = "erase"
    /\ channels' = channels \ appIds
    /\ appPc' = "unadvertise"
    /\ UNCHANGED <<appIds, netVars, nextChannelId, ioVars, wVars, view, told, stale, late, orphans>>

\* Faulty variant: subscriptions to the removed channels are kept.
RemoveUnadvertiseNoPurge ==
    /\ appPc = "unadvertise"
    /\ view' = [h \in Clients |-> IF h \in clients THEN view[h] \ appIds ELSE view[h]]
    /\ stale' = IF ioPc = "openSend"
                  THEN [stale EXCEPT ![ioHdl] = @ \cup (ioChans \cap appIds)]
                  ELSE stale
    /\ AppIdle
    /\ UNCHANGED <<netVars, chanVars, ioVars, wVars, told, late, orphans>>

\* Faulty variant: only subscribers of a removed channel are told.
RemoveUnadvertiseSubscribers ==
    /\ appPc = "unadvertise"
    /\ subs' = [h \in Clients |->
                  [ch \in ChannelIds |-> IF ch \in appIds THEN NoSub ELSE subs[h][ch]]]
    /\ view' = [h \in Clients |-> view[h] \ (appIds \cap Subscribed(subs[h]))]
    /\ AppIdle
    /\ UNCHANGED <<conn, clients, chanVars, ioVars, wVars, told, stale, late, orphans>>

\* ... and, under _clientsMutex, drops their subscriptions and unadvertises them.
RemoveUnadvertise ==
    /\ appPc = "unadvertise"
    /\ subs' = [h \in Clients |->
                  IF h \in clients
                    THEN [ch \in ChannelIds |-> IF ch \in appIds THEN NoSub ELSE subs[h][ch]]
                    ELSE subs[h]]
    /\ view' = [h \in Clients |-> IF h \in clients THEN view[h] \ appIds ELSE view[h]]
    /\ stale' = IF ioPc = "openSend"
                  THEN [stale EXCEPT ![ioHdl] = @ \cup (ioChans \cap appIds)]
                  ELSE stale
    /\ AppIdle
    /\ UNCHANGED <<conn, clients, chanVars, ioVars, wVars, told, late, orphans>>

-----------------------------------------------------------------------------
IoStep ==
    \/ \E h \in Clients : OpenEmplace(h) \/ CloseErase(h)
    \/ OpenSnapshot \/ OpenAdvertise
    \/ \E ch \in ChannelIds : CloseUnsubscribe(ch)
    \/ CloseDone

WorkerStep ==
    \/ \E h \in Clients :
         \/ \E reqs \in SubscribePayloads : SubscribeBegin(h, reqs)
         \/ \E ids \in UnsubscribePayloads : UnsubscribeBegin(h, ids)
    \/ SubscribeCheck \/ SubscribeCall \/ SubscribeEmplace
    \/ UnsubscribeCall \/ UnsubscribeErase

AppStep ==
    \/ \E n \in ChannelIds : AddBegin(n)
    \/ AddInsert \/ AddAdvertise
    \/ \E ids \in SUBSET (1..nextChannelId) : RemoveBegin(ids)
    \/ RemoveErase \/ RemoveUnadvertise

Next == IoStep \/ WorkerStep \/ AppStep

Spec == Init /\ [][Next]_vars

\* Each thread finishes the operation it began: handlers return, and a reader
\* that waits for _channelsMutex gets it although writers come again and again
\* (the platform's shared mutex prefers readers).  Nothing forces connections,
\* messages or calls to come.
Fairness ==
    /\ SF_vars(OpenSnapshot)
    /\ WF_vars(OpenSnapshot \/ OpenAdvertise \/ CloseDone
                 \/ \E ch \in ChannelIds : CloseUnsubscribe(ch))
    /\ WF_vars(SubscribeCheck \/ SubscribeCall \/ SubscribeEmplace
                 \/ UnsubscribeCall \/ UnsubscribeErase)
    /\ WF_vars(AddInsert \/ AddAdvertise \/ RemoveErase \/ RemoveUnadvertise)

FairSpec == Spec /\ Fairness

-----------------------------------------------------------------------------
(* Properties *)

\* Types of the variables; a loop of the worker always has an entry to look at,
\* and every channel id in use was handed out by addChannels.
TypeOK ==
    /\ conn \in [Clients -> {"none", "opening", "open", "closed"}]
    /\ clients \subseteq Clients
    /\ subs \in [Clients -> [ChannelIds -> SubIds \cup {NoSub}]]
    /\ nextChannelId \in 0..MaxChannels
    /\ channels \subseteq 1..nextChannelId
    /\ ioPc \in {"idle", "openSnap", "openSend", "closing"}
    /\ ioHdl \in Clients \cup {NoClient}
    /\ ioChans \subseteq ChannelIds
    /\ wPc \in {"idle", "subscribe", "subCall", "subEmplace", "unsubscribe", "unsubErase"}
    /\ wHdl \in Clients \cup {NoClient}
    /\ wReqs \in Seq([id : SubIds, chan : ChannelIds])
    /\ wIds \in Seq(SubIds)
    /\ wPc \in {"subscribe", "subCall", "subEmplace"} => wReqs # <<>> /\ wHdl \in Clients
    /\ wPc \in {"unsubscribe", "unsubErase"} => wIds # <<>> /\ wHdl \in Clients
    /\ wSnap \in [ChannelIds -> SubIds \cup {NoSub}]
    /\ wChan \in ChannelIds \cup {0}
    /\ appPc \in {"idle", "insert", "advertise", "erase", "unadvertise"}
    /\ appIds \subseteq 1..nextChannelId
    /\ view \in [Clients -> SUBSET ChannelIds]
    /\ told \in [Clients -> SUBSET ChannelIds]
    /\ stale \in [Clients -> SUBSET ChannelIds]
    /\ late \in [Clients -> SUBSET ChannelIds]
    /\ orphans \in [Clients -> SUBSET ChannelIds]

\* Channels whose advertise / unadvertise message has still to be sent.
Unannounced == IF appPc = "advertise" THEN appIds ELSE {}
Retracting  == IF appPc = "unadvertise" THEN appIds ELSE {}

\* A client that is through handleConnectionOpened knows every channel, however
\* its opening interleaves with addChannels: the client is entered into _clients
\* before _channels is copied, and addChannels inserts before it broadcasts.
NoMissedChannel ==
    \A h \in clients : conn[h] = "open" => channels \ Unannounced \subseteq view[h]

\* A client knows no removed channel, except one whose removal went out between
\* the copy of _channels and its advertisement in handleConnectionOpened.
NoPhantomChannel ==
    \A h \in clients : view[h] \subseteq channels \cup Retracting \cup stale[h]

DistinctIds(reqs) ==
    \A i, j \in DOMAIN reqs : reqs[i].id = reqs[j].id => i = j

\* No subscription id stands for two channels of a client (handleSubscribe
\* refuses ids in use), although the ids are compared with a copy taken before
\* the loop.  Needs payloads that do not repeat an id themselves.
UniqueSubIds ==
    \A h \in Clients : \A c1, c2 \in ChannelIds :
        subs[h][c1] # NoSub /\ subs[h][c1] = subs[h][c2] => c1 = c2

\* A subscription on record for an available channel is known to the
\* application: subscribeHandler was called and unsubscribeHandler was not,
\* unless the worker is about to erase it.
RecordedImpliesTold ==
    \A h \in clients : \A ch \in channels :
        subs[h][ch] # NoSub =>
            ch \in told[h] \/ (wPc = "unsubErase" /\ wHdl = h /\ wChan = ch)

\* The application believes in a subscription to an available channel only if it
\* is on record, is being recorded, or is about to be cancelled by the close
\* handler; the one exception is a client that closed between subscribeHandler
\* and emplace.
ToldImpliesRecorded ==
    \A h \in Clients : \A ch \in channels :
        ch \in told[h] =>
            \/ subs[h][ch] # NoSub
            \/ wPc = "subEmplace" /\ wHdl = h /\ wChan = ch
            \/ ioPc = "closing" /\ ioHdl = h /\ ch \in ioChans
            \/ ch \in orphans[h]

\* The subscriptions on record and those the application knows of agree in both
\* directions, whatever the worker, the close handler, removeChannels and a
\* throwing handler do in between.
SubscriptionsAgree == RecordedImpliesTold /\ ToldImpliesRecorded

\* The subscriptions of a closed client are eventually reported as ended, except
\* those whose emplace threw.
CloseCancels ==
    \A h \in Clients :
        conn[h] = "closed" ~> told[h] \cap channels \subseteq orphans[h]

\* Only available channels, and those whose removal is in progress, are on
\* record, except where the removal came between find and emplace in
\* handleSubscribe: removeChannels leaves no client's subscription behind.
OnlyAvailableRecorded ==
    \A h \in clients : Subscribed(subs[h]) \subseteq channels \cup Retracting \cup late[h]
=============================================================================
