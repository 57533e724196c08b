------------------------ MODULE ClientChannelsProofs ------------------------
(***************************************************************************)
(* ClientChannels, for any number of clients and channels and any          *)
(* payloads: the two tables and the application agree on what a connected  *)
(* client advertises, its messages are for channels the application knows, *)
(* and a closed client leaves no entry behind.                             *)
(***************************************************************************)
EXTENDS ClientChannels, SequenceTheorems, TLAPS

\* A thread inside a handler serves a client that was open; the worker's client
\* has an entry in _clientChannels, which the close handler cannot erase before
\* the worker is through.
ServedInv ==
    /\ wPc # "idle" => wHdl \in keys /\ conn[wHdl] \in {"open", "closed"}
    /\ wPc \in {"advEmplace", "unadvErase", "message"} => wChan \in ClientChannelIds
    /\ ioPc = "closing" => ioHdl \in Clients /\ conn[ioHdl] = "closed"

\* A client that was not open yet advertised nothing; the application knows of
\* the channel being entered and no longer of the one being erased.
HandlerInv ==
    /\ \A h \in Clients : conn[h] = "none" => h \notin keys /\ told[h] = {}
    /\ wPc = "advEmplace" /\ wHdl \in Connected => wChan \in told[wHdl]
    /\ wPc = "unadvErase" => wChan \notin told[wHdl]

\* The inductive invariant.
ChannelInv ==
    /\ TypeOK
    /\ ServedInv
    /\ HandlerInv
    /\ TablesAgree
    /\ ToldAgrees
    /\ MessageAdvertised
    /\ NoLeftoverEntry

\* A freshly constructed server satisfies it.
LEMMA InitChannelInv == Init => ChannelInv
<1> SUFFICES ASSUME Init PROVE ChannelInv OBVIOUS
<1>0. wFirst \in BOOLEAN
  BY Zenon DEF Init
<1>1. wReqs \in Seq(Entries) /\ wIds \in Seq(ClientChannelIds) /\ wFirst \in BOOLEAN
  BY <1>0 DEF Init
<1> QED BY <1>1 DEF Init, ChannelInv, TypeOK, ServedInv, HandlerInv, TablesAgree, ToldAgrees,
                   MessageAdvertised, NoLeftoverEntry, Connected, Advertising, Withdrawing

\* Opening and closing connections keeps it.
LEMMA IoKeepsInv ==
    ASSUME ChannelInv, IoStep
    PROVE  ChannelInv'
<1> USE DEF ChannelInv, TypeOK, ServedInv, HandlerInv, TablesAgree, ToldAgrees,
            MessageAdvertised, NoLeftoverEntry, Connected, Advertising, Withdrawing,
            tableVars, wVars, history
<1>0. wFirst' \in BOOLEAN
  BY Zenon DEF IoStep, Open, CloseErase, CloseUnadvertise, CloseForget
<1>1. ASSUME NEW h \in Clients, Open(h) PROVE ChannelInv'
  BY <1>0, <1>1, ZenonT(60) DEF Open, ioVars
<1>2. ASSUME NEW h \in Clients, CloseErase(h) PROVE ChannelInv'
  BY <1>0, <1>2 DEF CloseErase
<1>3. ASSUME NEW ch \in ClientChannelIds, CloseUnadvertise(ch) PROVE ChannelInv'
  BY <1>0, <1>3 DEF CloseUnadvertise
<1>4. CASE CloseForget
  BY <1>0, <1>4 DEF CloseForget
<1> QED BY <1>1, <1>2, <1>3, <1>4 DEF IoStep

\* What the worker has in hand, for a step that leaves its handler or goes on in
\* its loop.
LEMMA WorkerFirst ==
    ASSUME ChannelInv, WorkerStep
    PROVE  wFirst' \in BOOLEAN
BY Zenon DEF ChannelInv, TypeOK, WorkerStep, AdvertiseBegin, AdvertiseSkip, AdvertiseCall,
   AdvertiseEmplace, PayloadDone, UnadvertiseBegin, UnadvertiseCall, UnadvertiseErase,
   MessageFind, MessageCall, WorkerIdle, wVars

\* The rests of payloads stay payloads.
LEMMA WorkerPayload ==
    ASSUME ChannelInv, WorkerStep
    PROVE  wReqs' \in Seq(Entries) /\ wIds' \in Seq(ClientChannelIds)
<1>0. <<>> \in Seq(Entries) /\ <<>> \in Seq(ClientChannelIds)
  OBVIOUS
<1>1. wReqs \in Seq(Entries) /\ wIds \in Seq(ClientChannelIds)
  BY DEF ChannelInv, TypeOK
<1>2. wReqs # <<>> => Tail(wReqs) \in Seq(Entries)
  BY <1>1, HeadTailProperties
<1>3. wIds # <<>> => Tail(wIds) \in Seq(ClientChannelIds)
  BY <1>1, HeadTailProperties
<1> QED BY <1>0, <1>1, <1>2, <1>3, ClientChannelsAssumption
        DEF WorkerStep, AdvertiseBegin, AdvertiseSkip, AdvertiseCall, AdvertiseEmplace,
            PayloadDone, UnadvertiseBegin, UnadvertiseCall, UnadvertiseErase, MessageFind,
            MessageCall, WorkerIdle, wVars

\* Handling a message keeps the invariant.
LEMMA WorkerKeepsInv ==
    ASSUME ChannelInv, WorkerStep
    PROVE  ChannelInv'
<1> USE ClientChannelsAssumption
    DEF ChannelInv, TypeOK, ServedInv, HandlerInv, TablesAgree, ToldAgrees,
        MessageAdvertised, NoLeftoverEntry, Connected, Advertising, Withdrawing,
        tableVars, ioVars, history, WorkerIdle
<1>0. /\ wFirst' \in BOOLEAN
      /\ wReqs' \in Seq(Entries) /\ wIds' \in Seq(ClientChannelIds)
  BY WorkerFirst, WorkerPayload, Zenon
<1>1. ASSUME NEW h \in Clients, NEW reqs \in AdvertisePayloads, AdvertiseBegin(h, reqs)
      PROVE  ChannelInv'
  BY <1>0, <1>1 DEF AdvertiseBegin, Delivered
<1>2. ASSUME NEW h \in Clients, NEW ids \in UnadvertisePayloads, UnadvertiseBegin(h, ids)
      PROVE  ChannelInv'
  BY <1>0, <1>2 DEF UnadvertiseBegin, Delivered
<1>3. ASSUME NEW h \in Clients, NEW ch \in ClientChannelIds, MessageFind(h, ch)
      PROVE  ChannelInv'
  BY <1>0, <1>3 DEF MessageFind, Delivered
<1>4. CASE AdvertiseSkip
  BY <1>0, <1>4 DEF AdvertiseSkip
<1>5. CASE AdvertiseCall
  <2>1. CASE WorkerIdle /\ UNCHANGED told
    BY <1>0, <1>5, <2>1 DEF AdvertiseCall
  <2>2. ASSUME NEW id \in ClientChannelIds,
               told' = [told EXCEPT ![wHdl] = @ \cup {id}], wChan' = id,
               wPc' = "advEmplace", wHdl' = wHdl
        PROVE  ChannelInv'
    <3>1. /\ wPc = "advertise" /\ wHdl \in Clients
          /\ UNCHANGED <<conn, advertised, keys, pubs, ioPc, ioHdl, ioChans, orphans, revived>>
      BY <1>5 DEF AdvertiseCall
    <3>2. /\ told'[wHdl] = told[wHdl] \cup {id} /\ \A h \in Clients \ {wHdl} : told'[h] = told[h]
          /\ told' \in [Clients -> SUBSET ClientChannelIds]
      BY <2>2, <3>1
    <3>3. TypeOK' /\ ServedInv' BY <1>0, <2>2, <3>1, <3>2
    <3>4. HandlerInv' BY <2>2, <3>1, <3>2
    <3>5. TablesAgree' /\ ToldAgrees' BY <2>2, <3>1, <3>2
    <3>6. MessageAdvertised' /\ NoLeftoverEntry' BY <2>2, <3>1, <3>2
    <3> QED BY <3>3, <3>4, <3>5, <3>6
  <2>3. wReqs # <<>> => Head(wReqs).id \in ClientChannelIds
    <3>1. wReqs # <<>> => Head(wReqs) \in Entries
      BY HeadTailProperties
    <3> QED BY <3>1 DEF Entries
  <2> QED BY <1>5, <2>1, <2>2, <2>3 DEF AdvertiseCall
<1>6. CASE AdvertiseEmplace
  <2>1. /\ wPc = "advEmplace" /\ wHdl \in Clients /\ wHdl \in keys /\ wChan \in ClientChannelIds
        /\ UNCHANGED <<conn, keys, ioPc, ioHdl, ioChans, told, revived>>
    BY <1>6 DEF AdvertiseEmplace
  <2>2. CASE wHdl \in Connected
    <3>1. /\ advertised' = [advertised EXCEPT ![wHdl] = @ \cup {wChan}]
          /\ pubs' = [pubs EXCEPT ![wHdl] = @ \cup {wChan}]
          /\ wPc' = "advertise" /\ wHdl' = wHdl /\ wChan' = NoChannel /\ orphans' = orphans
      BY <1>6, <2>2 DEF AdvertiseEmplace
    <3>2. /\ advertised'[wHdl] = advertised[wHdl] \cup {wChan}
          /\ \A h \in Clients \ {wHdl} : advertised'[h] = advertised[h]
          /\ pubs'[wHdl] = pubs[wHdl] \cup {wChan}
          /\ \A h \in Clients \ {wHdl} : pubs'[h] = pubs[h]
          /\ advertised' \in [Clients -> SUBSET ClientChannelIds]
          /\ pubs' \in [Clients -> SUBSET ClientChannelIds]
      BY <2>1, <3>1
    <3>3. TypeOK' BY <1>0, <2>1, <2>2, <3>1, <3>2
    <3>4. ServedInv' /\ HandlerInv' BY <2>1, <3>1
    <3>5. TablesAgree'
      <4> SUFFICES ASSUME NEW h \in Clients, conn[h] = "open" PROVE pubs'[h] = advertised'[h]
        BY <2>1
      <4>1. pubs[h] = advertised[h] OBVIOUS
      <4>2. CASE h = wHdl BY <3>2, <4>1, <4>2
      <4>3. CASE h # wHdl BY <3>2, <4>1, <4>3
      <4> QED BY <4>2, <4>3
    <3>6. ToldAgrees'
      <4> SUFFICES ASSUME NEW h \in Clients, conn[h] = "open"
                   PROVE  advertised'[h] \subseteq told[h] /\ told[h] \subseteq advertised'[h]
        BY <2>1, <3>1
      <4>1. CASE h = wHdl BY <2>1, <2>2, <3>2, <4>1
      <4>2. CASE h # wHdl BY <2>1, <3>2, <4>2
      <4> QED BY <4>1, <4>2
    <3>7. MessageAdvertised' /\ NoLeftoverEntry' BY <2>1, <3>1
    <3> QED BY <3>3, <3>4, <3>5, <3>6, <3>7
  <2>3. CASE wHdl \notin Connected
    <3>1. UNCHANGED <<advertised, pubs>> /\ WorkerIdle
          /\ orphans' = [orphans EXCEPT ![wHdl] = @ \cup {wChan}]
      BY <1>6, <2>3 DEF AdvertiseEmplace
    <3>2. orphans' \in [Clients -> SUBSET ClientChannelIds] BY <2>1, <3>1
    <3> QED BY <1>0, <2>1, <2>3, <3>1, <3>2
  <2> QED BY <2>2, <2>3
<1>7. CASE PayloadDone
  BY <1>0, <1>7 DEF PayloadDone
<1>8. CASE UnadvertiseCall
  <2>1. /\ wPc = "unadvertise" /\ wHdl \in Clients
        /\ UNCHANGED <<conn, advertised, keys, pubs, ioPc, ioHdl, ioChans, orphans, revived>>
    BY <1>8 DEF UnadvertiseCall
  <2>2. CASE UNCHANGED <<wPc, wHdl, wChan, told>>
    BY <1>0, <2>1, <2>2
  <2>3. ASSUME NEW id \in pubs[wHdl],
               told' = [told EXCEPT ![wHdl] = @ \ {id}], wChan' = id,
               wPc' = "unadvErase", wHdl' = wHdl
        PROVE  ChannelInv'
    <3>1. id \in ClientChannelIds BY <2>1
    <3>2. /\ told'[wHdl] = told[wHdl] \ {id} /\ \A h \in Clients \ {wHdl} : told'[h] = told[h]
          /\ told' \in [Clients -> SUBSET ClientChannelIds]
      BY <2>1, <2>3
    <3>3. TypeOK' /\ ServedInv' BY <1>0, <2>1, <2>3, <3>1, <3>2
    <3>4. HandlerInv' BY <2>1, <2>3, <3>2
    <3>5. TablesAgree' /\ ToldAgrees' BY <2>1, <2>3, <3>2
    <3>6. MessageAdvertised' /\ NoLeftoverEntry' BY <2>1, <2>3, <3>2
    <3> QED BY <3>3, <3>4, <3>5, <3>6
  <2>4. CASE WorkerIdle /\ UNCHANGED told
    BY <1>0, <2>1, <2>4
  <2> QED BY <1>8, <2>2, <2>3, <2>4 DEF UnadvertiseCall
<1>9. CASE UnadvertiseErase
  <2>1. /\ wPc = "unadvErase" /\ wHdl \in Clients /\ wHdl \in keys /\ wChan \in ClientChannelIds
        /\ UNCHANGED <<conn, keys, ioPc, ioHdl, ioChans, told, orphans, revived>>
    BY <1>9 DEF UnadvertiseErase
  <2>2. CASE wHdl \in Connected
    <3>1. /\ advertised' = [advertised EXCEPT ![wHdl] = @ \ {wChan}]
          /\ pubs' = [pubs EXCEPT ![wHdl] = @ \ {wChan}]
          /\ wPc' = "unadvertise" /\ wHdl' = wHdl /\ wChan' = NoChannel
      BY <1>9, <2>2 DEF UnadvertiseErase
    <3>2. /\ advertised'[wHdl] = advertised[wHdl] \ {wChan}
          /\ \A h \in Clients \ {wHdl} : advertised'[h] = advertised[h]
          /\ pubs'[wHdl] = pubs[wHdl] \ {wChan}
          /\ \A h \in Clients \ {wHdl} : pubs'[h] = pubs[h]
          /\ advertised' \in [Clients -> SUBSET ClientChannelIds]
          /\ pubs' \in [Clients -> SUBSET ClientChannelIds]
      BY <2>1, <3>1
    <3>3. TypeOK' BY <1>0, <2>1, <2>2, <3>1, <3>2
    <3>4. ServedInv' /\ HandlerInv' BY <2>1, <3>1
    <3>5. TablesAgree'
      <4> SUFFICES ASSUME NEW h \in Clients, conn[h] = "open" PROVE pubs'[h] = advertised'[h]
        BY <2>1
      <4>1. pubs[h] = advertised[h] OBVIOUS
      <4>2. CASE h = wHdl BY <3>2, <4>1, <4>2
      <4>3. CASE h # wHdl BY <3>2, <4>1, <4>3
      <4> QED BY <4>2, <4>3
    <3>6. ToldAgrees'
      <4> SUFFICES ASSUME NEW h \in Clients, conn[h] = "open"
                   PROVE  advertised'[h] \subseteq told[h] /\ told[h] \subseteq advertised'[h]
        BY <2>1, <3>1
      <4>1. CASE h = wHdl BY <2>1, <2>2, <3>2, <4>1
      <4>2. CASE h # wHdl BY <2>1, <3>2, <4>2
      <4> QED BY <4>1, <4>2
    <3>7. MessageAdvertised' /\ NoLeftoverEntry' BY <2>1, <3>1
    <3> QED BY <3>3, <3>4, <3>5, <3>6, <3>7
  <2>3. CASE wHdl \notin Connected
    <3>1. UNCHANGED <<advertised, pubs>> /\ WorkerIdle
      BY <1>9, <2>3 DEF UnadvertiseErase
    <3> QED BY <1>0, <2>1, <2>3, <3>1
  <2> QED BY <2>2, <2>3
<1>10. CASE MessageCall
  BY <1>0, <1>10 DEF MessageCall
<1> QED BY <1>1, <1>2, <1>3, <1>4, <1>5, <1>6, <1>7, <1>8, <1>9, <1>10 DEF WorkerStep

\* The invariant holds in every state.
LEMMA ChannelInvariant == Spec => []ChannelInv
<1>1. ChannelInv /\ UNCHANGED vars => ChannelInv'
  <2> SUFFICES ASSUME ChannelInv, UNCHANGED vars PROVE ChannelInv' OBVIOUS
  <2>1. wFirst' \in BOOLEAN BY Zenon DEF ChannelInv, TypeOK, vars
  <2> QED BY <2>1 DEF vars, ChannelInv, TypeOK, ServedInv, HandlerInv, TablesAgree, ToldAgrees,
            MessageAdvertised, NoLeftoverEntry, Connected, Advertising, Withdrawing
<1>2. ChannelInv /\ [Next]_vars => ChannelInv'
  BY <1>1, IoKeepsInv, WorkerKeepsInv DEF Next
<1> QED BY <1>2, InitChannelInv, PTL DEF Spec

\* _clientChannels, advertisedChannels and the application agree on what a
\* connected client advertises, whenever handlers throw and connections close.
THEOREM AdvertisementsAgree == Spec => []AdvertisedAgree
<1>1. ChannelInv => AdvertisedAgree BY DEF ChannelInv, AdvertisedAgree
<1> QED BY <1>1, ChannelInvariant, PTL

\* clientMessageHandler never gets a message of a connected client on a channel
\* that the application does not know.
THEOREM MessagesAdvertised == Spec => []MessageAdvertised
<1>1. ChannelInv => MessageAdvertised BY DEF ChannelInv
<1> QED BY <1>1, ChannelInvariant, PTL

\* The close handler leaves no entry in _clientChannels, unless a message of the
\* client is handled after the close.
THEOREM NoEntryLeft == Spec => []NoLeftoverEntry
<1>1. ChannelInv => NoLeftoverEntry BY DEF ChannelInv
<1> QED BY <1>1, ChannelInvariant, PTL
=============================================================================
