------------------------------ MODULE Services ------------------------------
(***************************************************************************)
(* The services of the server: addServices and removeServices of the       *)
(* application, the part of handleConnectionOpened that advertises         *)
(* services, and service requests from the client to the application's     *)
(* serviceRequestHandler and back.                                         *)
(*                                                                         *)
(* Unlike addChannels, addServices and removeServices keep _servicesMutex  *)
(* until all clients were told: appPc # "idle" is that lock, and the       *)
(* readers of _services wait for it.                                       *)
(***************************************************************************)
EXTENDS Naturals, Sequences, FiniteSets

CONSTANTS
    Clients,     \* connections
    Names,       \* what a service is: its name, type and schemas
    Payloads,    \* arguments of addServices
    MaxServices, \* bound: service ids handed out
    MaxCalls,    \* bound: requests sent
    None         \* no service

Ids   == 1..MaxServices
Calls == 1..MaxCalls

\* valid: the definition has a request and a response, or their schemas
Entries == [name : Names, valid : BOOLEAN]

\* id is None in a message too short to be a request
Requests == [call : Calls, client : Clients, id : Ids \cup {None}, meant : Names \cup {None}]

ASSUME ServicesAssumption ==
    /\ Payloads \subseteq Seq(Entries)
    /\ MaxServices \in Nat
    /\ MaxCalls \in Nat
    /\ None \notin Names \cup Clients \cup Nat \cup Requests

VARIABLES
    conn,           \* connection -> "new", "open" (in _clients), "closed"
    services,       \* _services: id -> name or None
    nextServiceId,  \* _nextServiceId: the last id handed out
    ioPc, ioClient, \* the io thread within handleConnectionOpened
    copy,           \* its copy of _services
    appPc, appIds,  \* the application within addServices or removeServices
    queue,          \* requests in the callback queue
    wPc, request,   \* the worker within handleBinaryMessage
    view,           \* client -> what it was told of, in the order of sending
    outcome,        \* call -> how far it came; a history
    found,          \* the service the request was found to be for; a history
    hidden,         \* ids registered by a call of addServices that threw
    stale           \* client -> ids whose removal overtook the copy; a history

ioVars  == <<conn, ioPc, ioClient, copy>>
appVars == <<services, nextServiceId, appPc, appIds, hidden>>
wVars   == <<wPc, request, found>>
vars    == <<ioVars, appVars, wVars, queue, view, outcome, stale>>

NoServices == [i \in Ids |-> None]

Init ==
    /\ conn = [h \in Clients |-> "new"]
    /\ services = NoServices /\ nextServiceId = 0
    /\ ioPc = "idle" /\ ioClient = None /\ copy = NoServices
    /\ appPc = "idle" /\ appIds = {}
    /\ queue = <<>>
    /\ wPc = "idle" /\ request = None
    /\ view = [h \in Clients |-> NoServices]
    /\ outcome = [c \in Calls |-> "unsent"]
    /\ found = None
    /\ hidden = {}
    /\ stale = [h \in Clients |-> {}]

Registered(s) == {i \in Ids : s[i] # None}

-----------------------------------------------------------------------------
(* io thread *)

\* The client is in _clients before it is told of anything.
OpenEmplace(h) ==
    /\ ioPc = "idle"
    /\ conn[h] = "new"
    /\ conn' = [conn EXCEPT ![h] = "open"]
    /\ ioPc' = "copy" /\ ioClient' = h
    /\ UNCHANGED <<copy, appVars, wVars, queue, view, outcome, stale>>

OpenCopy ==
    /\ ioPc = "copy"
    /\ appPc = "idle"
    /\ copy' = services
    /\ ioPc' = "send"
    /\ UNCHANGED <<conn, ioClient, appVars, wVars, queue, view, outcome, stale>>

\* The copy is sent after the mutex was released.
OpenSend ==
    /\ ioPc = "send"
    /\ view' = [view EXCEPT ![ioClient] =
                   [i \in Ids |-> IF copy[i] # None THEN copy[i] ELSE @[i]]]
    /\ ioPc' = "idle" /\ ioClient' = None /\ copy' = NoServices
    /\ UNCHANGED <<conn, appVars, wVars, queue, outcome, stale>>

Close(h) ==
    /\ ioPc = "idle"
    /\ conn[h] = "open"
    /\ conn' = [conn EXCEPT ![h] = "closed"]
    /\ UNCHANGED <<ioPc, ioClient, copy, appVars, wVars, queue, view, outcome, stale>>

\* A client asks for a service it was told of or for any other; handleMessage
\* queues the message.
Deliver(h, i) ==
    /\ conn[h] = "open"
    /\ \E c \in Calls :
         /\ outcome[c] = "unsent"
         /\ \A d \in 1..(c - 1) : outcome[d] # "unsent"
         /\ queue' = Append(queue, [call |-> c, client |-> h, id |-> i,
                                    meant |-> IF i = None THEN None ELSE view[h][i]])
         /\ outcome' = [outcome EXCEPT ![c] = "queued"]
    /\ UNCHANGED <<ioVars, appVars, wVars, view, stale>>

-----------------------------------------------------------------------------
(* worker *)

\* sendServiceFailure and the end of the handler
Fail(r) ==
    /\ outcome' = [outcome EXCEPT ![r.call] = "failed"]
    /\ wPc' = "idle" /\ request' = None /\ found' = None

\* A short request is refused at once; the failure names whatever the
\* uninitialized ids are, so the client cannot tell which call it is about.
RequestBegin ==
    /\ wPc = "idle"
    /\ queue # <<>>
    /\ queue' = Tail(queue)
    /\ IF Head(queue).id = None
         THEN Fail(Head(queue))
         ELSE /\ request' = Head(queue)
              /\ wPc' = "lookup"
              /\ UNCHANGED <<outcome, found>>
    /\ UNCHANGED <<ioVars, appVars, view, stale>>

\* Faulty variant: a request for an unknown service is dropped.
RequestLookupDrop ==
    /\ wPc = "lookup"
    /\ appPc = "idle"
    /\ IF services[request.id] = None
         THEN wPc' = "idle" /\ request' = None /\ found' = None
         ELSE wPc' = "call" /\ found' = services[request.id] /\ UNCHANGED request
    /\ UNCHANGED <<ioVars, appVars, queue, view, outcome, stale>>

RequestLookup ==
    /\ wPc = "lookup"
    /\ appPc = "idle"
    /\ \/ /\ services[request.id] = None
          /\ Fail(request)
       \/ /\ services[request.id] # None
          /\ found' = services[request.id]
          /\ wPc' = "call"
          /\ UNCHANGED <<request, outcome>>
    /\ UNCHANGED <<ioVars, appVars, queue, view, stale>>

\* serviceRequestHandler, with no lock held: it takes the request, or throws.
RequestCall ==
    /\ wPc = "call"
    /\ \/ /\ outcome' = [outcome EXCEPT ![request.call] = "handed"]
          /\ wPc' = "idle" /\ request' = None /\ found' = None
       \/ Fail(request)
    /\ UNCHANGED <<ioVars, appVars, queue, view, stale>>

WorkerStep == RequestBegin \/ RequestLookup \/ RequestCall

-----------------------------------------------------------------------------
(* application *)

\* The entries before the first invalid one; all of them if there is none.
Accepted(p) == {j \in DOMAIN p : \A k \in 1..j : p[k].valid}

\* Faulty variant: ids are counted by the size of the table.
FirstIdReused == Cardinality(Registered(services)) + 1

FirstId == nextServiceId + 1

\* An invalid entry throws: the ones before it stay registered, nobody is told
\* of them and the mutex is released.
AddRegister(p) ==
    LET n   == Cardinality(Accepted(p))
        ids == FirstId..(FirstId + n - 1)
    IN  /\ appPc = "idle"
        /\ p # <<>>
        /\ nextServiceId + Len(p) <= MaxServices
        /\ services' = [i \in Ids |-> IF i \in ids THEN p[i + 1 - FirstId].name ELSE services[i]]
        /\ nextServiceId' = FirstId + n - 1
        /\ \/ /\ n = Len(p)
              /\ appPc' = "advertise" /\ appIds' = ids
              /\ UNCHANGED hidden
           \/ /\ n # Len(p)
              /\ hidden' = hidden \cup ids
              /\ UNCHANGED <<appPc, appIds>>
        /\ UNCHANGED <<ioVars, wVars, queue, view, outcome, stale>>

\* Faulty variant: a client that is being opened is left out.
AddAdvertiseOpen ==
    /\ appPc = "advertise"
    /\ view' = [h \in Clients |->
                  [i \in Ids |-> IF conn[h] = "open" /\ h # ioClient /\ i \in appIds
                                   THEN services[i] ELSE view[h][i]]]
    /\ appPc' = "idle" /\ appIds' = {}
    /\ UNCHANGED <<services, nextServiceId, hidden, ioVars, wVars, queue, outcome, stale>>

AddAdvertise ==
    /\ appPc = "advertise"
    /\ view' = [h \in Clients |->
                  [i \in Ids |-> IF conn[h] = "open" /\ i \in appIds
                                   THEN services[i] ELSE view[h][i]]]
    /\ appPc' = "idle" /\ appIds' = {}
    /\ UNCHANGED <<services, nextServiceId, hidden, ioVars, wVars, queue, outcome, stale>>

\* Nothing happens if none of the ids is registered.
RemoveErase(ids) ==
    LET removed == ids \cap Registered(services)
    IN  /\ appPc = "idle"
        /\ removed # {}
        /\ services' = [i \in Ids |-> IF i \in removed THEN None ELSE services[i]]
        /\ appPc' = "unadvertise" /\ appIds' = removed
        /\ UNCHANGED <<nextServiceId, hidden, ioVars, wVars, queue, view, outcome, stale>>

RemoveUnadvertise ==
    /\ appPc = "unadvertise"
    /\ view' = [h \in Clients |->
                  [i \in Ids |-> IF conn[h] = "open" /\ i \in appIds
                                   THEN None ELSE view[h][i]]]
    /\ stale' = [h \in Clients |->
                   IF ioPc = "send" /\ h = ioClient
                     THEN stale[h] \cup (appIds \cap Registered(copy)) ELSE stale[h]]
    /\ appPc' = "idle" /\ appIds' = {}
    /\ UNCHANGED <<services, nextServiceId, hidden, ioVars, wVars, queue, outcome>>

\* sendServiceResponse, whenever the application is done with a call
Respond(c) ==
    /\ outcome[c] = "handed"
    /\ outcome' = [outcome EXCEPT ![c] = "answered"]
    /\ UNCHANGED <<ioVars, appVars, wVars, queue, view, stale>>

-----------------------------------------------------------------------------
Next ==
    \/ \E h \in Clients : OpenEmplace(h) \/ Close(h)
    \/ OpenCopy \/ OpenSend
    \/ \E h \in Clients, i \in Ids \cup {None} : Deliver(h, i)
    \/ WorkerStep
    \/ \E p \in Payloads : AddRegister(p)
    \/ AddAdvertise
    \/ \E ids \in SUBSET Ids : RemoveErase(ids)
    \/ RemoveUnadvertise
    \/ \E c \in Calls : Respond(c)

Spec == Init /\ [][Next]_vars

\* Threads go on with what they have begun; a reader waiting for _servicesMutex
\* is given it although the application keeps taking it.
FairSpec ==
    /\ Spec
    /\ WF_vars(WorkerStep) /\ SF_vars(RequestLookup)
    /\ WF_vars(AddAdvertise) /\ WF_vars(RemoveUnadvertise)
    /\ SF_vars(OpenCopy) /\ WF_vars(OpenSend)

-----------------------------------------------------------------------------
(* Properties *)

\* Types; ids in the table were handed out, and the application is within a
\* call exactly while it has somebody to tell something.
TypeOK ==
    /\ conn \in [Clients -> {"new", "open", "closed"}]
    /\ services \in [Ids -> Names \cup {None}]
    /\ nextServiceId \in 0..MaxServices
    /\ Registered(services) \subseteq 1..nextServiceId
    /\ ioPc \in {"idle", "copy", "send"}
    /\ ioClient \in Clients \cup {None} /\ (ioPc = "idle" <=> ioClient = None)
    /\ copy \in [Ids -> Names \cup {None}]
    /\ appPc \in {"idle", "advertise", "unadvertise"}
    /\ appIds \subseteq Ids /\ (appPc = "idle" <=> appIds = {})
    /\ queue \in Seq(Requests)
    /\ wPc \in {"idle", "lookup", "call"}
    /\ request \in Requests \cup {None} /\ (wPc = "idle" <=> request = None)
    /\ view \in [Clients -> [Ids -> Names \cup {None}]]
    /\ outcome \in [Calls -> {"unsent", "queued", "failed", "handed", "answered"}]
    /\ found \in Names \cup {None}
    /\ hidden \subseteq Ids
    /\ stale \in [Clients -> SUBSET Ids]

\* A client whose opening is complete knows every service, however its opening
\* interleaved with addServices; except those of a call of addServices that
\* threw, which only clients that connect later learn of.
NoMissedService ==
    \A h \in Clients, i \in Ids :
        conn[h] = "open" /\ h # ioClient /\ services[i] # None
          => view[h][i] = services[i] \/ (appPc = "advertise" /\ i \in appIds) \/ i \in hidden

\* A client believes in a service that is gone only while it is being told, or
\* because the removal overtook the copy its opening sends after unlocking.
NoPhantomService ==
    \A h \in Clients, i \in Ids :
        conn[h] = "open" /\ view[h][i] # None
          => \/ view[h][i] = services[i]
             \/ appPc = "unadvertise" /\ i \in appIds
             \/ i \in stale[h]

\* What a client knows of the services is what is registered, in both directions.
ServicesKnown == TypeOK /\ NoMissedService /\ NoPhantomService

\* A request is handed over only as one for the service its client meant, even
\* if that service was removed and others were added while it was queued.
RequestReachesMeant ==
    wPc = "call" /\ request.meant # None => found = request.meant

\* Every request is refused or handed to the application, also if its client or
\* its service goes away meanwhile.
EveryRequestSettled ==
    \A c \in Calls : outcome[c] = "queued" ~> outcome[c] \in {"failed", "handed", "answered"}
=============================================================================
