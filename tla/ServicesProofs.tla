--------------------------- MODULE ServicesProofs ---------------------------
(***************************************************************************)
(* Services, for any number of clients, services and requests and any      *)
(* payloads of addServices: what clients know of the services, and that a  *)
(* request reaches the service it was meant for.                           *)
(***************************************************************************)
EXTENDS Services, FiniteSetTheorems, SequenceTheorems, TLAPS

\* An id, once handed out, stands for one service for good: what anybody took
\* the service of id i to be is what it is, unless it is gone.
Fits(i, name) ==
    name # None => i \in 1..nextServiceId /\ services[i] \in {None, name}

\* ... in the copy of the opening, in what clients know and in their requests.
IdentityInv ==
    /\ \A i \in Ids : Fits(i, copy[i])
    /\ \A h \in Clients, i \in Ids : Fits(i, view[h][i])
    /\ \A k \in DOMAIN queue : queue[k].id # None => Fits(queue[k].id, queue[k].meant)
    /\ wPc # "idle" => request.id \in Ids /\ Fits(request.id, request.meant)

\* The client being opened is open, one that is not knows nothing; ids being
\* unadvertised are free; and what the opening has still to send completes what
\* the client was told of by addServices and removeServices meanwhile.
OpeningInv ==
    /\ ioPc # "idle" => conn[ioClient] = "open"
    /\ \A h \in Clients, i \in Ids : conn[h] = "new" => view[h][i] = None
    /\ appPc = "unadvertise" => \A i \in appIds : services[i] = None
    /\ ioPc = "send" =>
         \A i \in Ids :
            /\ services[i] # None /\ copy[i] = None =>
                 \/ view[ioClient][i] = services[i]
                 \/ appPc = "advertise" /\ i \in appIds
                 \/ i \in hidden
            /\ copy[i] # None =>
                 \/ copy[i] = services[i]
                 \/ appPc = "unadvertise" /\ i \in appIds
                 \/ i \in stale[ioClient]

ServicesInv ==
    /\ TypeOK
    /\ IdentityInv
    /\ OpeningInv
    /\ NoMissedService
    /\ NoPhantomService
    /\ RequestReachesMeant

\* A freshly constructed server satisfies it.
LEMMA InitServicesInv == Init => ServicesInv
<1> SUFFICES ASSUME Init PROVE ServicesInv OBVIOUS
<1>1. queue \in Seq(Requests) BY DEF Init
<1> QED BY <1>1, ServicesAssumption
        DEF Init, ServicesInv, TypeOK, IdentityInv, OpeningInv, NoMissedService, NoPhantomService,
            RequestReachesMeant, Registered, NoServices, Fits

\* addServices gives the valid entries before the first invalid one the next ids.
LEMMA AcceptedIds ==
    ASSUME TypeOK, NEW p \in Payloads, p # <<>>, nextServiceId + Len(p) <= MaxServices
    PROVE  LET n   == Cardinality(Accepted(p))
               ids == FirstId..(FirstId + n - 1)
           IN  /\ n \in 0..Len(p)
               /\ FirstId + n - 1 \in 0..MaxServices
               /\ nextServiceId <= FirstId + n - 1
               /\ ids \subseteq Ids
               /\ ids \cap (1..nextServiceId) = {}
               /\ ids \subseteq 1..(FirstId + n - 1)
               /\ n = Len(p) => ids # {}
               /\ \A i \in ids : p[i + 1 - FirstId].name \in Names
<1> DEFINE n   == Cardinality(Accepted(p))
           ids == FirstId..(FirstId + n - 1)
<1>1. p \in Seq(Entries) /\ Len(p) \in Nat /\ Len(p) # 0 /\ DOMAIN p = 1..Len(p)
  BY ServicesAssumption, EmptySeq
<1>2. Accepted(p) \in SUBSET (1..Len(p))
  BY <1>1 DEF Accepted
<1>3. IsFiniteSet(1..Len(p)) /\ Cardinality(1..Len(p)) = Len(p)
  BY <1>1, FS_Interval
<1>4. n \in Nat /\ n <= Len(p)
  BY <1>2, <1>3, FS_Subset, FS_CardinalityType
<1>5. nextServiceId \in Nat /\ nextServiceId <= MaxServices /\ FirstId = nextServiceId + 1
      /\ MaxServices \in Nat
  BY ServicesAssumption DEF TypeOK, FirstId
<1> HIDE DEF n
<1>6. \A i \in ids : i + 1 - FirstId \in DOMAIN p
  BY <1>1, <1>4, <1>5
<1>7. \A i \in ids : p[i + 1 - FirstId].name \in Names
  <2> SUFFICES ASSUME NEW j \in DOMAIN p PROVE p[j].name \in Names
    BY <1>6
  <2>1. p[j] \in Entries BY <1>1
  <2> QED BY <2>1 DEF Entries
<1>8. ids \subseteq Ids
  BY <1>1, <1>4, <1>5 DEF Ids
<1>9. /\ n \in 0..Len(p)
      /\ FirstId + n - 1 \in 0..MaxServices
      /\ nextServiceId <= FirstId + n - 1
      /\ ids \cap (1..nextServiceId) = {}
      /\ ids \subseteq 1..(FirstId + n - 1)
  BY <1>1, <1>4, <1>5
<1>10. n = Len(p) => FirstId \in ids
  BY <1>1, <1>4, <1>5
<1> QED BY <1>7, <1>8, <1>9, <1>10 DEF n

\* The parts of the type invariant that a step of the application writes.
LEMMA AppKeepsInv ==
    ASSUME ServicesInv,
           \/ \E p \in Payloads : AddRegister(p)
           \/ AddAdvertise
           \/ \E ids \in SUBSET Ids : RemoveErase(ids)
           \/ RemoveUnadvertise
    PROVE  ServicesInv'
<1> USE ServicesAssumption
    DEF ServicesInv, TypeOK, IdentityInv, OpeningInv, NoMissedService, NoPhantomService,
        RequestReachesMeant, Registered, Fits, ioVars, wVars
<1>1. ASSUME NEW p \in Payloads, AddRegister(p) PROVE ServicesInv'
  <2> DEFINE n   == Cardinality(Accepted(p))
             ids == FirstId..(FirstId + n - 1)
  <2>1. /\ n \in 0..Len(p)
        /\ FirstId + n - 1 \in 0..MaxServices
        /\ nextServiceId <= FirstId + n - 1
        /\ ids \subseteq Ids
        /\ ids \cap (1..nextServiceId) = {}
        /\ ids \subseteq 1..(FirstId + n - 1)
        /\ n = Len(p) => ids # {}
        /\ \A i \in ids : p[i + 1 - FirstId].name \in Names
    BY <1>1, AcceptedIds DEF AddRegister
  <2>2. /\ appPc = "idle" /\ nextServiceId' = FirstId + n - 1
        /\ services' = [i \in Ids |-> IF i \in ids THEN p[i + 1 - FirstId].name ELSE services[i]]
        /\ \/ appPc' = "advertise" /\ appIds' = ids /\ n = Len(p) /\ hidden' = hidden
           \/ appPc' = "idle" /\ appIds' = appIds /\ hidden' = hidden \cup ids
        /\ UNCHANGED <<conn, ioPc, ioClient, copy, wPc, request, found, queue, view, outcome, stale>>
    BY <1>1 DEF AddRegister
  <2> HIDE DEF n, ids
  <2>3. 1..nextServiceId \subseteq 1..nextServiceId' /\ nextServiceId' \in 0..MaxServices
    BY <2>1, <2>2
  <2>4. /\ \A i \in Ids \ ids : services'[i] = services[i]
        /\ \A i \in 1..nextServiceId : i \in Ids /\ services'[i] = services[i]
        /\ \A i \in ids : services[i] = None
        /\ services' \in [Ids -> Names \cup {None}]
    <3>1. 1..nextServiceId \subseteq Ids BY DEF Ids
    <3>2. \A i \in ids : i \notin 1..nextServiceId BY <2>1
    <3>3. \A i \in ids : services[i] = None BY <2>1, <3>2
    <3>4. \A i \in Ids \ ids : services'[i] = services[i] BY <2>2
    <3>5. services' \in [Ids -> Names \cup {None}] BY <2>1, <2>2
    <3> QED BY <3>1, <3>2, <3>3, <3>4, <3>5
  <2>5. \A i : \A name : Fits(i, name) => Fits(i, name)'
    BY <2>3, <2>4
  <2>6. TypeOK'
    BY <2>1, <2>2, <2>3, <2>4
  <2>7. IdentityInv'
    BY <2>2, <2>5
  <2>8. OpeningInv'
    BY <2>1, <2>2, <2>4
  <2>9. NoMissedService' /\ NoPhantomService'
    BY <2>1, <2>2, <2>4
  <2>10. RequestReachesMeant'
    BY <2>2
  <2> QED BY <2>6, <2>7, <2>8, <2>9, <2>10
<1>2. CASE AddAdvertise
  BY <1>2 DEF AddAdvertise
<1>3. ASSUME NEW ids \in SUBSET Ids, RemoveErase(ids) PROVE ServicesInv'
  <2> DEFINE removed == ids \cap Registered(services)
  <2>1. /\ appPc = "idle" /\ removed # {} /\ removed \subseteq Ids
        /\ services' = [i \in Ids |-> IF i \in removed THEN None ELSE services[i]]
        /\ appPc' = "unadvertise" /\ appIds' = removed
        /\ UNCHANGED <<nextServiceId, hidden, conn, ioPc, ioClient, copy, wPc, request, found,
                       queue, view, outcome, stale>>
    BY <1>3 DEF RemoveErase
  <2> HIDE DEF removed
  <2>2. /\ \A i \in removed : services'[i] = None
        /\ \A i \in Ids \ removed : services'[i] = services[i]
        /\ services' \in [Ids -> Names \cup {None}]
    BY <2>1
  <2>3. \A i \in Ids : \A name : Fits(i, name) => Fits(i, name)'
    BY <2>1, <2>2
  <2>4. TypeOK' BY <2>1, <2>2
  <2>5. IdentityInv'
    <3>1. \A k \in DOMAIN queue : queue[k].id # None => queue[k].id \in Ids
      <4>1. \A k \in DOMAIN queue : queue[k] \in Requests OBVIOUS
      <4> QED BY <4>1 DEF Requests
    <3> QED BY <2>1, <2>3, <3>1
  <2>6. OpeningInv' BY <2>1, <2>2
  <2>7. NoMissedService' /\ NoPhantomService' BY <2>1, <2>2
  <2>8. RequestReachesMeant' BY <2>1
  <2> QED BY <2>4, <2>5, <2>6, <2>7, <2>8
<1>4. CASE RemoveUnadvertise
  BY <1>4 DEF RemoveUnadvertise
<1> QED BY <1>1, <1>2, <1>3, <1>4

\* Opening and closing connections keeps the invariant.
LEMMA IoKeepsInv ==
    ASSUME ServicesInv,
           \/ \E h \in Clients : OpenEmplace(h) \/ Close(h)
           \/ OpenCopy \/ OpenSend
    PROVE  ServicesInv'
<1> USE ServicesAssumption
    DEF ServicesInv, TypeOK, IdentityInv, OpeningInv, NoMissedService, NoPhantomService,
        RequestReachesMeant, Registered, Fits, appVars, wVars
<1>1. ASSUME NEW h \in Clients, OpenEmplace(h) PROVE ServicesInv'
  BY <1>1 DEF OpenEmplace
<1>2. ASSUME NEW h \in Clients, Close(h) PROVE ServicesInv'
  BY <1>2 DEF Close
<1>3. CASE OpenCopy
  BY <1>3 DEF OpenCopy
<1>4. CASE OpenSend
  <2>1. /\ ioPc = "send" /\ ioClient \in Clients /\ conn[ioClient] = "open"
        /\ ioPc' = "idle" /\ ioClient' = None /\ copy' = NoServices
        /\ UNCHANGED <<conn, services, nextServiceId, appPc, appIds, hidden, wPc, request, found,
                       queue, outcome, stale>>
    BY <1>4 DEF OpenSend
  <2>2. view' = [view EXCEPT ![ioClient] =
                   [i \in Ids |-> IF copy[i] # None THEN copy[i] ELSE view[ioClient][i]]]
    BY <1>4 DEF OpenSend
  <2>3. /\ \A h \in Clients \ {ioClient} : view'[h] = view[h]
        /\ \A i \in Ids : view'[ioClient][i] = IF copy[i] # None THEN copy[i] ELSE view[ioClient][i]
        /\ view' \in [Clients -> [Ids -> Names \cup {None}]]
    BY <2>1, <2>2
  <2>4. TypeOK' BY <2>1, <2>3 DEF NoServices
  <2>5. IdentityInv'
    <3>1. \A i \in Ids : copy'[i] = None BY <2>1 DEF NoServices
    <3>2. \A h \in Clients, i \in Ids : Fits(i, view'[h][i])
      <4> SUFFICES ASSUME NEW h \in Clients, NEW i \in Ids PROVE Fits(i, view'[h][i])
        OBVIOUS
      <4>1. view'[h][i] \in {copy[i], view[h][i]} BY <2>3, SMTT(30)
      <4>2. Fits(i, copy[i]) /\ Fits(i, view[h][i]) OBVIOUS
      <4> QED BY <4>1, <4>2
    <3> QED BY <2>1, <3>1, <3>2
  <2>6. OpeningInv' BY <2>1, <2>3
  <2>7. NoMissedService'
    <3> SUFFICES ASSUME NEW h \in Clients, NEW i \in Ids, conn[h] = "open", services[i] # None
                 PROVE  \/ view'[h][i] = services[i]
                        \/ appPc = "advertise" /\ i \in appIds
                        \/ i \in hidden
      BY <2>1
    <3>1. CASE h # ioClient BY <2>3, <3>1
    <3>2. CASE h = ioClient
      <4>1. CASE copy[i] = None BY <2>1, <2>3, <3>2, <4>1
      <4>2. CASE copy[i] # None
        <5>1. Fits(i, copy[i]) OBVIOUS
        <5>2. copy[i] = services[i] BY <4>2, <5>1
        <5> QED BY <2>3, <3>2, <4>2, <5>2
      <4> QED BY <4>1, <4>2
    <3> QED BY <3>1, <3>2
  <2>8. NoPhantomService'
    <3> SUFFICES ASSUME NEW h \in Clients, NEW i \in Ids, conn[h] = "open", view'[h][i] # None
                 PROVE  \/ view'[h][i] = services[i]
                        \/ appPc = "unadvertise" /\ i \in appIds
                        \/ i \in stale[h]
      BY <2>1
    <3>1. CASE h # ioClient BY <2>3, <3>1
    <3>2. CASE h = ioClient
      <4>1. CASE copy[i] = None BY <2>3, <3>2, <4>1
      <4>2. CASE copy[i] # None BY <2>1, <2>3, <3>2, <4>2
      <4> QED BY <4>1, <4>2
    <3> QED BY <3>1, <3>2
  <2>9. RequestReachesMeant' BY <2>1
  <2> QED BY <2>4, <2>5, <2>6, <2>7, <2>8, <2>9
<1> QED BY <1>1, <1>2, <1>3, <1>4

\* So does a request, from the client to the application.
LEMMA RequestKeepsInv ==
    ASSUME ServicesInv,
           \/ \E h \in Clients, i \in Ids \cup {None} : Deliver(h, i)
           \/ WorkerStep
           \/ \E c \in Calls : Respond(c)
    PROVE  ServicesInv'
<1> USE ServicesAssumption
    DEF ServicesInv, TypeOK, IdentityInv, OpeningInv, NoMissedService, NoPhantomService,
        RequestReachesMeant, Registered, Fits, appVars, wVars, ioVars
<1>1. ASSUME NEW h \in Clients, NEW i \in Ids \cup {None}, Deliver(h, i) PROVE ServicesInv'
  <2> DEFINE meant == IF i = None THEN None ELSE view[h][i]
  <2>1. PICK c \in Calls :
          /\ queue' = Append(queue, [call |-> c, client |-> h, id |-> i, meant |-> meant])
          /\ outcome' = [outcome EXCEPT ![c] = "queued"]
    BY <1>1 DEF Deliver
  <2>2. meant \in Names \cup {None} /\ (i # None => Fits(i, meant))
    OBVIOUS
  <2>3. UNCHANGED <<ioVars, appVars, wVars, view, stale>>
    BY <1>1 DEF Deliver
  <2> HIDE DEF meant
  <2>4. [call |-> c, client |-> h, id |-> i, meant |-> meant] \in Requests
    BY <2>2 DEF Requests
  <2>5. queue' \in Seq(Requests)
    BY <2>1, <2>4
  <2>6. \A k \in DOMAIN queue' : queue'[k].id # None => Fits(queue'[k].id, queue'[k].meant)
    <3> SUFFICES ASSUME NEW k \in DOMAIN queue', queue'[k].id # None
                 PROVE  Fits(queue'[k].id, queue'[k].meant)
      OBVIOUS
    <3>1. CASE k \in DOMAIN queue /\ queue'[k] = queue[k]
      BY <3>1
    <3>2. CASE queue'[k] = [call |-> c, client |-> h, id |-> i, meant |-> meant]
      BY <2>2, <3>2
    <3> QED BY <2>1, <2>4, <3>1, <3>2
  <2>7. outcome' \in [Calls -> {"unsent", "queued", "failed", "handed", "answered"}]
    BY <2>1
  <2> QED BY <2>3, <2>5, <2>6, <2>7
<1>2. CASE RequestBegin
  <2>1. /\ wPc = "idle" /\ queue # <<>> /\ queue' = Tail(queue)
        /\ UNCHANGED <<ioVars, appVars, view, stale>>
    BY <1>2 DEF RequestBegin
  <2>2. /\ Head(queue) \in Requests /\ queue' \in Seq(Requests) /\ 1 \in DOMAIN queue
        /\ Head(queue) = queue[1]
        /\ \A k \in DOMAIN queue' : \E j \in DOMAIN queue : queue'[k] = queue[j]
    <3>1. queue \in Seq(Requests) OBVIOUS
    <3>2. Len(queue) \in Nat \ {0} /\ DOMAIN queue = 1..Len(queue) /\ Head(queue) = queue[1]
      BY <2>1, EmptySeq
    <3>3. /\ Head(queue) \in Requests /\ queue' \in Seq(Requests)
          /\ Len(queue') = Len(queue) - 1 /\ DOMAIN queue' = 1..Len(queue')
          /\ \A k \in 1..Len(queue') : queue'[k] = queue[k + 1]
      BY <2>1, <3>1, HeadTailProperties
    <3>4. \A k \in DOMAIN queue' : k + 1 \in DOMAIN queue /\ queue'[k] = queue[k + 1]
      BY <3>2, <3>3
    <3> QED BY <3>2, <3>3, <3>4
  <2>3. \A k \in DOMAIN queue' : queue'[k].id # None => Fits(queue'[k].id, queue'[k].meant)
    <3> SUFFICES ASSUME NEW k \in DOMAIN queue', queue'[k].id # None
                 PROVE  Fits(queue'[k].id, queue'[k].meant)
      OBVIOUS
    <3>1. PICK j \in DOMAIN queue : queue'[k] = queue[j] BY <2>2
    <3>2. queue[j].id # None BY <3>1
    <3>3. Fits(queue[j].id, queue[j].meant) BY <3>2
    <3> QED BY <3>1, <3>3
  <2>4. CASE Head(queue).id = None
    <3>1. outcome' = [outcome EXCEPT ![Head(queue).call] = "failed"]
          /\ wPc' = "idle" /\ request' = None /\ found' = None
      BY <1>2, <2>4 DEF RequestBegin, Fail
    <3>2. outcome' \in [Calls -> {"unsent", "queued", "failed", "handed", "answered"}]
      BY <2>2, <3>1 DEF Requests
    <3> QED BY <2>1, <2>2, <2>3, <3>1, <3>2
  <2>5. CASE Head(queue).id # None
    <3>1. request' = Head(queue) /\ wPc' = "lookup" /\ UNCHANGED <<outcome, found>>
      BY <1>2, <2>5 DEF RequestBegin
    <3>2. request' \in Requests /\ request' # None /\ request'.id \in Ids
      BY <2>2, <2>5, <3>1 DEF Requests
    <3>3. Fits(request'.id, request'.meant)
      BY <2>2, <2>5, <3>1
    <3> QED BY <2>1, <2>2, <2>3, <3>1, <3>2, <3>3
  <2> QED BY <2>4, <2>5
<1>3. CASE RequestLookup
  <2>1. /\ wPc = "lookup" /\ request \in Requests /\ request.id \in Ids /\ request.call \in Calls
        /\ UNCHANGED <<ioVars, appVars, queue, view, stale>>
    BY <1>3 DEF RequestLookup, Requests
  <2>2. CASE Fail(request)
    BY <2>1, <2>2 DEF Fail
  <2>3. CASE /\ services[request.id] # None
             /\ found' = services[request.id] /\ wPc' = "call" /\ UNCHANGED <<request, outcome>>
    <3>1. request.meant # None => services[request.id] = request.meant
      BY <2>1, <2>3
    <3> QED BY <2>1, <2>3, <3>1
  <2> QED BY <1>3, <2>2, <2>3 DEF RequestLookup
<1>4. CASE RequestCall
  <2>1. /\ wPc = "call" /\ request \in Requests /\ request.call \in Calls
        /\ UNCHANGED <<ioVars, appVars, queue, view, stale>>
    BY <1>4 DEF RequestCall, Requests
  <2>2. /\ wPc' = "idle" /\ request' = None /\ found' = None
        /\ \/ outcome' = [outcome EXCEPT ![request.call] = "handed"]
           \/ outcome' = [outcome EXCEPT ![request.call] = "failed"]
    BY <1>4 DEF RequestCall, Fail
  <2>3. outcome' \in [Calls -> {"unsent", "queued", "failed", "handed", "answered"}]
    BY <2>1, <2>2
  <2> QED BY <2>1, <2>2, <2>3
<1>5. ASSUME NEW c \in Calls, Respond(c) PROVE ServicesInv'
  BY <1>5 DEF Respond
<1> QED BY <1>1, <1>2, <1>3, <1>4, <1>5 DEF WorkerStep

\* The invariant holds in every state.
LEMMA ServicesInvariant == Spec => []ServicesInv
<1>1. ServicesInv /\ UNCHANGED vars => ServicesInv'
  BY DEF vars, ioVars, appVars, wVars, ServicesInv, TypeOK, IdentityInv, OpeningInv,
         NoMissedService, NoPhantomService, RequestReachesMeant, Registered, Fits
<1>2. ServicesInv /\ [Next]_vars => ServicesInv'
  BY <1>1, IoKeepsInv, AppKeepsInv, RequestKeepsInv DEF Next
<1> QED BY <1>2, InitServicesInv, PTL DEF Spec

\* What a client knows of the services is what is registered, in every
\* interleaving of its opening with addServices and removeServices.
THEOREM ServicesAreKnown == Spec => []ServicesKnown
<1>1. ServicesInv => ServicesKnown BY DEF ServicesInv, ServicesKnown
<1> QED BY <1>1, ServicesInvariant, PTL

\* A request is handed over only as one for the service that its client meant,
\* whatever was removed and added while it was queued: ids are never used again.
THEOREM RequestsReachMeant == Spec => []RequestReachesMeant
<1>1. ServicesInv => RequestReachesMeant BY DEF ServicesInv
<1> QED BY <1>1, ServicesInvariant, PTL
=============================================================================
