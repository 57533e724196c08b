------------------------ MODULE ServerChannelsProofs ------------------------
(***************************************************************************)
(* ServerChannels, for any number of clients, channels and subscription    *)
(* ids and any payloads: type correctness, that a client knows every       *)
(* channel and no removed one, and that the table of subscriptions agrees  *)
(* with what the application was told, keeps nothing of a removed channel  *)
(* and has no id twice.                                                    *)
(***************************************************************************)
EXTENDS ServerChannels, SequenceTheorems, TLAPS

\* A thread inside a handler serves a client, and the worker has a channel in
\* hand where it uses one.
InHand ==
    /\ ioPc # "idle" => ioHdl \in Clients
    /\ wPc \in {"subCall", "subEmplace", "unsubErase"} => wChan \in ChannelIds

TypeInv == TypeOK /\ InHand

\* A loop that is not at its last entry has a next one.
LEMMA MoreToDo ==
    ASSUME NEW S, NEW s \in Seq(S), s # <<>>, Len(s) # 1
    PROVE  Tail(s) \in Seq(S) /\ Tail(s) # <<>>
<1>1. Tail(s) \in Seq(S) /\ Len(Tail(s)) = Len(s) - 1
  BY HeadTailProperties
<1>2. Len(s) \in Nat /\ Len(s) # 0
  OBVIOUS
<1>3. Len(Tail(s)) # Len(<<>>)
  BY <1>1, <1>2
<1> QED BY <1>1, <1>3, Zenon

\* The first entry of a subscribe payload names an id and a channel.
LEMMA HeadRequest ==
    ASSUME TypeInv, wReqs # <<>>
    PROVE  Head(wReqs).id \in SubIds /\ Head(wReqs).chan \in ChannelIds
<1>1. Head(wReqs) \in [id : SubIds, chan : ChannelIds]
  BY HeadTailProperties DEF TypeInv, TypeOK
<1> QED BY <1>1

\* What the io thread does keeps the types.
LEMMA IoTypeStep ==
    ASSUME TypeInv, IoStep
    PROVE  TypeInv'
<1> USE NoSubAssumption, MaxChannelsAssumption
    DEF TypeInv, TypeOK, InHand, netVars, chanVars, wVars, appVars, ioVars, NoSubs, IoIdle
<1>0. 1..nextChannelId \subseteq ChannelIds
  BY DEF ChannelIds
<1>1. ASSUME NEW h \in Clients, OpenEmplace(h) PROVE TypeInv'
  BY <1>1 DEF OpenEmplace
<1>2. ASSUME NEW h \in Clients, CloseErase(h) PROVE TypeInv'
  BY <1>2 DEF CloseErase, Subscribed
<1>3. CASE OpenSnapshot
  BY <1>0, <1>3 DEF OpenSnapshot
<1>4. CASE OpenAdvertise
  BY <1>4 DEF OpenAdvertise
<1>5. ASSUME NEW ch \in ChannelIds, CloseUnsubscribe(ch) PROVE TypeInv'
  BY <1>5 DEF CloseUnsubscribe
<1>6. CASE CloseDone
  BY <1>6 DEF CloseDone
<1> QED BY <1>1, <1>2, <1>3, <1>4, <1>5, <1>6 DEF IoStep

\* What the application's calls do keeps the types.
LEMMA AppTypeStep ==
    ASSUME TypeInv, AppStep
    PROVE  TypeInv'
<1> USE NoSubAssumption, MaxChannelsAssumption
    DEF TypeInv, TypeOK, InHand, netVars, chanVars, wVars, ioVars, AppIdle
<1>0. 1..nextChannelId \subseteq ChannelIds
  BY DEF ChannelIds
<1>1. ASSUME NEW n \in ChannelIds, AddBegin(n) PROVE TypeInv'
  <2>1. nextChannelId' \in 0..MaxChannels /\ 1..nextChannelId \subseteq 1..nextChannelId'
    BY <1>1 DEF AddBegin, ChannelIds
  <2>2. appIds' \subseteq 1..nextChannelId'
    BY <1>1 DEF AddBegin, ChannelIds
  <2> QED BY <1>1, <2>1, <2>2 DEF AddBegin
<1>2. CASE AddInsert
  BY <1>2 DEF AddInsert
<1>3. CASE AddAdvertise
  BY <1>0, <1>3 DEF AddAdvertise
<1>4. ASSUME NEW ids \in SUBSET (1..nextChannelId), RemoveBegin(ids) PROVE TypeInv'
  BY <1>4 DEF RemoveBegin
<1>5. CASE RemoveErase
  BY <1>5 DEF RemoveErase
<1>6. CASE RemoveUnadvertise
  BY <1>0, <1>6 DEF RemoveUnadvertise
<1> QED BY <1>1, <1>2, <1>3, <1>4, <1>5, <1>6 DEF AppStep

\* The worker's part of the type invariant.
WorkerTypes ==
    /\ wPc \in {"idle", "subscribe", "subCall", "subEmplace", "unsubscribe", "unsubErase"}
    /\ wHdl \in Clients \cup {NoClient}
    /\ wReqs \in Seq([id : SubIds, chan : ChannelIds])
    /\ wIds \in Seq(SubIds)
    /\ wPc \in {"subscribe", "subCall", "subEmplace"} => wReqs # <<>> /\ wHdl \in Clients
    /\ wPc \in {"unsubscribe", "unsubErase"} => wIds # <<>> /\ wHdl \in Clients
    /\ wSnap \in [ChannelIds -> SubIds \cup {NoSub}]
    /\ wChan \in ChannelIds \cup {0}
    /\ wPc \in {"subCall", "subEmplace", "unsubErase"} => wChan \in ChannelIds

\* Leaving a handler keeps the worker's types.
LEMMA WorkerIdleTypes ==
    ASSUME WorkerIdle PROVE WorkerTypes'
<1>1. wReqs' \in Seq([id : SubIds, chan : ChannelIds]) /\ wIds' \in Seq(SubIds)
  BY DEF WorkerIdle
<1> QED BY <1>1 DEF WorkerIdle, WorkerTypes, NoSubs

\* Going on in the loop of handleSubscribe keeps the worker's types.
LEMMA NextRequestTypes ==
    ASSUME TypeInv, wReqs # <<>>, wHdl \in Clients, NextRequest
    PROVE  WorkerTypes'
<1>1. CASE Len(wReqs) = 1
  BY <1>1, WorkerIdleTypes DEF NextRequest
<1>2. CASE Len(wReqs) # 1
  <2>0. wReqs \in Seq([id : SubIds, chan : ChannelIds]) /\ wReqs' = Tail(wReqs)
    BY <1>2 DEF NextRequest, TypeInv, TypeOK
  <2>1. wReqs' \in Seq([id : SubIds, chan : ChannelIds]) /\ wReqs' # <<>>
    BY <1>2, <2>0, MoreToDo
  <2> QED BY <1>2, <2>1 DEF NextRequest, TypeInv, TypeOK, WorkerTypes
<1> QED BY <1>1, <1>2

\* Going on in the loop of handleUnsubscribe keeps the worker's types.
LEMMA NextIdTypes ==
    ASSUME TypeInv, wIds # <<>>, wHdl \in Clients, NextId
    PROVE  WorkerTypes'
<1>1. CASE Len(wIds) = 1
  BY <1>1, WorkerIdleTypes DEF NextId
<1>2. CASE Len(wIds) # 1
  <2>0. wIds \in Seq(SubIds) /\ wIds' = Tail(wIds)
    BY <1>2 DEF NextId, TypeInv, TypeOK
  <2>1. wIds' \in Seq(SubIds) /\ wIds' # <<>>
    BY <1>2, <2>0, MoreToDo
  <2> QED BY <1>2, <2>1 DEF NextId, TypeInv, TypeOK, WorkerTypes
<1> QED BY <1>1, <1>2

\* The tables a step of the worker may write.
TableTypes ==
    /\ subs \in [Clients -> [ChannelIds -> SubIds \cup {NoSub}]]
    /\ told \in [Clients -> SUBSET ChannelIds]
    /\ late \in [Clients -> SUBSET ChannelIds]
    /\ orphans \in [Clients -> SUBSET ChannelIds]

\* Nothing else is written by the worker.
WorkerFrame ==
    UNCHANGED <<conn, clients, channels, nextChannelId, ioPc, ioHdl, ioChans,
                appPc, appIds, view, stale>>

\* The three parts make up the type invariant.
LEMMA WorkerTypesSuffice ==
    ASSUME TypeInv, WorkerTypes', TableTypes', WorkerFrame
    PROVE  TypeInv'
BY DEF TypeInv, TypeOK, InHand, WorkerTypes, TableTypes, WorkerFrame

\* A step of the worker touches neither connections nor channels, nor what the
\* other two threads are doing.
LEMMA WorkerFrameStep ==
    ASSUME WorkerStep
    PROVE  WorkerFrame
BY DEF WorkerStep, WorkerFrame, SubscribeBegin, SubscribeCheck, SubscribeCall, SubscribeEmplace,
       UnsubscribeBegin, UnsubscribeCall, UnsubscribeErase, netVars, chanVars, ioVars, appVars

\* What the worker does keeps the types: its loops never run past the payload.
LEMMA WorkerTypeStep ==
    ASSUME TypeInv, WorkerStep
    PROVE  TypeInv'
<1> SUFFICES WorkerTypes' /\ TableTypes'
  BY WorkerTypesSuffice, WorkerFrameStep
<1> USE DEF netVars
<1>0. TableTypes /\ WorkerTypes
  BY DEF TypeInv, TypeOK, InHand, TableTypes, WorkerTypes
<1>1. ASSUME NEW h \in Clients, NEW reqs \in SubscribePayloads, SubscribeBegin(h, reqs)
      PROVE  WorkerTypes' /\ TableTypes'
  BY <1>0, <1>1, PayloadAssumption DEF SubscribeBegin, WorkerTypes, TableTypes
<1>2. ASSUME NEW h \in Clients, NEW ids \in UnsubscribePayloads, UnsubscribeBegin(h, ids)
      PROVE  WorkerTypes' /\ TableTypes'
  BY <1>0, <1>2, PayloadAssumption DEF UnsubscribeBegin, WorkerTypes, TableTypes
<1>3. CASE SubscribeCheck
  <2>1. wReqs # <<>> /\ wHdl \in Clients
    BY <1>0, <1>3 DEF SubscribeCheck, WorkerTypes
  <2>2. TableTypes'
    BY <1>0, <1>3 DEF SubscribeCheck, TableTypes
  <2>3. CASE NextRequest
    BY <2>1, <2>2, <2>3, NextRequestTypes
  <2>4. CASE /\ wPc' = "subCall" /\ wChan' = Head(wReqs).chan
             /\ UNCHANGED <<wHdl, wReqs, wIds, wSnap>>
    BY <1>0, <2>1, <2>2, <2>4, HeadRequest DEF WorkerTypes
  <2> QED BY <1>3, <2>3, <2>4 DEF SubscribeCheck
<1>4. CASE SubscribeCall
  <2>1. wHdl \in Clients /\ wChan \in ChannelIds
    BY <1>0, <1>4 DEF SubscribeCall, WorkerTypes
  <2>2. TableTypes'
    BY <1>0, <1>4, <2>1 DEF SubscribeCall, TableTypes
  <2>3. CASE WorkerIdle
    BY <2>2, <2>3, WorkerIdleTypes
  <2>4. CASE wPc' = "subEmplace" /\ UNCHANGED <<wHdl, wReqs, wIds, wSnap, wChan>>
    BY <1>0, <1>4, <2>2, <2>4 DEF SubscribeCall, WorkerTypes
  <2> QED BY <1>4, <2>3, <2>4 DEF SubscribeCall
<1>5. CASE SubscribeEmplace
  <2>1. wReqs # <<>> /\ wHdl \in Clients /\ wChan \in ChannelIds
    BY <1>0, <1>5 DEF SubscribeEmplace, WorkerTypes
  <2>2. Head(wReqs).id \in SubIds
    BY <2>1, HeadRequest
  <2>3. TableTypes'
    <3>1. [subs EXCEPT ![wHdl][wChan] = Head(wReqs).id]
             \in [Clients -> [ChannelIds -> SubIds \cup {NoSub}]]
      BY <1>0, <2>1, <2>2 DEF TableTypes
    <3>2. subs' \in [Clients -> [ChannelIds -> SubIds \cup {NoSub}]]
      BY <1>0, <1>5, <3>1 DEF SubscribeEmplace, TableTypes
    <3>3. \A f \in [Clients -> SUBSET ChannelIds], x \in SUBSET ChannelIds :
            [f EXCEPT ![wHdl] = @ \cup x] \in [Clients -> SUBSET ChannelIds]
      BY <2>1
    <3>4. late' \in [Clients -> SUBSET ChannelIds]
      <4>1. {wChan} \ channels \in SUBSET ChannelIds BY <2>1
      <4>2. \/ late' = late
            \/ late' = [late EXCEPT ![wHdl] = @ \cup ({wChan} \ channels)]
        BY <1>5 DEF SubscribeEmplace
      <4>3. late \in [Clients -> SUBSET ChannelIds] BY <1>0 DEF TableTypes
      <4>4. [late EXCEPT ![wHdl] = @ \cup ({wChan} \ channels)] \in [Clients -> SUBSET ChannelIds]
        BY <3>3, <4>1, <4>3
      <4> QED BY <4>2, <4>3, <4>4
    <3>5. orphans' \in [Clients -> SUBSET ChannelIds]
      <4>1. {wChan} \in SUBSET ChannelIds BY <2>1
      <4> QED BY <1>0, <1>5, <3>3, <4>1 DEF SubscribeEmplace, TableTypes
    <3> QED BY <1>0, <1>5, <3>2, <3>4, <3>5 DEF SubscribeEmplace, TableTypes
  <2> QED BY <1>5, <2>1, <2>3, NextRequestTypes, WorkerIdleTypes DEF SubscribeEmplace
<1>6. CASE UnsubscribeCall
  <2>1. wIds # <<>> /\ wHdl \in Clients
    BY <1>0, <1>6 DEF UnsubscribeCall, WorkerTypes
  <2>2. TableTypes'
    BY <1>0, <1>6, <2>1 DEF UnsubscribeCall, TableTypes
  <2>3. CASE NextId \/ WorkerIdle
    BY <2>1, <2>2, <2>3, NextIdTypes, WorkerIdleTypes
  <2>4. ASSUME NEW ch \in ChannelIds, wPc' = "unsubErase", wChan' = ch,
               UNCHANGED <<wHdl, wReqs, wIds, wSnap>>
        PROVE  WorkerTypes'
    BY <1>0, <2>1, <2>4 DEF WorkerTypes
  <2> QED BY <1>6, <2>2, <2>3, <2>4 DEF UnsubscribeCall
<1>7. CASE UnsubscribeErase
  <2>1. wIds # <<>> /\ wHdl \in Clients
    BY <1>0, <1>7 DEF UnsubscribeErase, WorkerTypes
  <2>2. TableTypes'
    <3>1. wChan \in ChannelIds
      BY <1>0, <1>7 DEF UnsubscribeErase, WorkerTypes
    <3>2. [subs EXCEPT ![wHdl][wChan] = NoSub] \in [Clients -> [ChannelIds -> SubIds \cup {NoSub}]]
      BY <1>0, <2>1, <3>1 DEF TableTypes
    <3> QED BY <1>0, <1>7, <3>2 DEF UnsubscribeErase, TableTypes
  <2> QED BY <1>7, <2>1, <2>2, NextIdTypes, WorkerIdleTypes DEF UnsubscribeErase
<1> QED BY <1>1, <1>2, <1>3, <1>4, <1>5, <1>6, <1>7 DEF WorkerStep

\* A freshly constructed server has well-typed tables.
LEMMA InitTypeInv == Init => TypeInv
<1> SUFFICES ASSUME Init PROVE TypeInv OBVIOUS
<1>1. wReqs \in Seq([id : SubIds, chan : ChannelIds]) /\ wIds \in Seq(SubIds)
  BY DEF Init
<1> QED BY <1>1, MaxChannelsAssumption DEF Init, TypeInv, TypeOK, InHand, NoSubs

\* Every step of the three threads keeps the types.
LEMMA NextTypeInv == TypeInv /\ [Next]_vars => TypeInv'
<1> SUFFICES ASSUME TypeInv, [Next]_vars PROVE TypeInv' OBVIOUS
<1>1. CASE UNCHANGED vars
  BY <1>1 DEF vars, TypeInv, TypeOK, InHand
<1> QED BY <1>1, IoTypeStep, WorkerTypeStep, AppTypeStep DEF Next

\* The tables of connections, channels and subscriptions stay well typed.
THEOREM TypeCorrect == Spec => []TypeOK
<1>1. TypeInv => TypeOK BY DEF TypeInv
<1> QED BY <1>1, InitTypeInv, NextTypeInv, PTL DEF Spec

-----------------------------------------------------------------------------
(* What clients know *)

\* Where the threads are in announcing and retracting channels: the client being
\* opened is in _clients already, what is missing in its view is in the copy
\* about to be sent, and nothing else is in that copy.
AnnounceInv ==
    /\ ioPc \in {"openSnap", "openSend"} => ioHdl \in clients /\ conn[ioHdl] = "opening"
    /\ appPc = "advertise" => appIds \subseteq channels
    /\ appPc = "unadvertise" => channels \cap appIds = {}
    /\ ioPc = "openSend" =>
         /\ channels \ Unannounced \subseteq view[ioHdl] \cup ioChans
         /\ ioChans \subseteq channels \cup Retracting \cup stale[ioHdl]
    /\ NoMissedChannel
    /\ NoPhantomChannel

\* Connections that are opening or open are the keys of _clients, and one that
\* never opened was told of nothing.
OpenInv ==
    \A h \in Clients :
        /\ conn[h] \in {"opening", "open"} <=> h \in clients
        /\ conn[h] = "none" => view[h] = {}

\* The io thread keeps what clients know right.
LEMMA IoAnnounceStep ==
    ASSUME TypeInv, OpenInv, AnnounceInv, IoStep
    PROVE  AnnounceInv' /\ OpenInv'
<1> USE DEF TypeInv, TypeOK, InHand, OpenInv, AnnounceInv, NoMissedChannel, NoPhantomChannel,
            Unannounced, Retracting, netVars, chanVars, wVars, appVars, ioVars, IoIdle
<1>1. ASSUME NEW h \in Clients, OpenEmplace(h) PROVE AnnounceInv' /\ OpenInv'
  BY <1>1 DEF OpenEmplace
<1>2. ASSUME NEW h \in Clients, CloseErase(h) PROVE AnnounceInv' /\ OpenInv'
  BY <1>2 DEF CloseErase
<1>3. CASE OpenSnapshot
  BY <1>3 DEF OpenSnapshot
<1>4. CASE OpenAdvertise
  <2>1. /\ ioHdl \in clients /\ ioHdl \in Clients /\ conn[ioHdl] = "opening"
        /\ clients' = clients /\ channels' = channels /\ stale' = stale
        /\ appPc' = appPc /\ appIds' = appIds /\ ioPc' = "idle"
    BY <1>4 DEF OpenAdvertise
  <2>2. /\ view' = [view EXCEPT ![ioHdl] = view[ioHdl] \cup ioChans]
        /\ conn' = [conn EXCEPT ![ioHdl] = "open"]
    BY <1>4 DEF OpenAdvertise
  <2>3. \A h \in Clients \ {ioHdl} : view'[h] = view[h] /\ conn'[h] = conn[h]
    BY <2>2
  <2>4. view'[ioHdl] = view[ioHdl] \cup ioChans /\ conn'[ioHdl] = "open"
    BY <2>1, <2>2
  <2>5. OpenInv' BY <2>1, <2>3, <2>4
  <2>6. NoMissedChannel' BY <1>4, <2>1, <2>3, <2>4 DEF OpenAdvertise
  <2>7. NoPhantomChannel' BY <1>4, <2>1, <2>3, <2>4 DEF OpenAdvertise
  <2> QED BY <2>1, <2>5, <2>6, <2>7
<1>5. ASSUME NEW ch \in ChannelIds, CloseUnsubscribe(ch) PROVE AnnounceInv' /\ OpenInv'
  BY <1>5 DEF CloseUnsubscribe
<1>6. CASE CloseDone
  BY <1>6 DEF CloseDone
<1> QED BY <1>1, <1>2, <1>3, <1>4, <1>5, <1>6 DEF IoStep

\* So do addChannels and removeChannels.
LEMMA AppAnnounceStep ==
    ASSUME TypeInv, OpenInv, AnnounceInv, AppStep
    PROVE  AnnounceInv' /\ OpenInv'
<1> USE DEF TypeInv, TypeOK, InHand, OpenInv, AnnounceInv, NoMissedChannel, NoPhantomChannel,
            Unannounced, Retracting, netVars, chanVars, wVars, ioVars, AppIdle
<1>1. ASSUME NEW n \in ChannelIds, AddBegin(n) PROVE AnnounceInv' /\ OpenInv'
  BY <1>1 DEF AddBegin
<1>2. CASE AddInsert
  BY <1>2 DEF AddInsert
<1>3. CASE AddAdvertise
  BY <1>3 DEF AddAdvertise
<1>4. ASSUME NEW ids \in SUBSET (1..nextChannelId), RemoveBegin(ids)
      PROVE  AnnounceInv' /\ OpenInv'
  BY <1>4 DEF RemoveBegin
<1>5. CASE RemoveErase
  BY <1>5 DEF RemoveErase
<1>6. CASE RemoveUnadvertise
  BY <1>6 DEF RemoveUnadvertise
<1> QED BY <1>1, <1>2, <1>3, <1>4, <1>5, <1>6 DEF AppStep

\* The invariant behind both theorems about what clients know.
LEMMA AnnounceInvariant == Spec => [](TypeInv /\ OpenInv /\ AnnounceInv)
<1>1. Init => OpenInv /\ AnnounceInv
  BY DEF Init, OpenInv, AnnounceInv, NoMissedChannel, NoPhantomChannel, Unannounced, Retracting
<1>2. TypeInv /\ OpenInv /\ AnnounceInv /\ [Next]_vars => OpenInv' /\ AnnounceInv'
  <2> SUFFICES ASSUME TypeInv, OpenInv, AnnounceInv, [Next]_vars PROVE OpenInv' /\ AnnounceInv'
    OBVIOUS
  <2>1. CASE WorkerFrame
    BY <2>1 DEF WorkerFrame, OpenInv, AnnounceInv, NoMissedChannel, NoPhantomChannel,
                Unannounced, Retracting
  <2>2. CASE UNCHANGED vars
    BY <2>1, <2>2 DEF vars, WorkerFrame
  <2> QED BY <2>1, <2>2, WorkerFrameStep, IoAnnounceStep, AppAnnounceStep DEF Next
<1> QED BY <1>1, <1>2, InitTypeInv, NextTypeInv, PTL DEF Spec

\* A client through its open handler knows every announced channel, in every
\* interleaving of handleConnectionOpened, addChannels and removeChannels.
THEOREM NothingMissed == Spec => []NoMissedChannel
<1>1. AnnounceInv => NoMissedChannel BY DEF AnnounceInv
<1> QED BY <1>1, AnnounceInvariant, PTL

\* A client knows a removed channel only if the removal was sent between the copy
\* of _channels and its advertisement in handleConnectionOpened.
THEOREM NoPhantom == Spec => []NoPhantomChannel
<1>1. AnnounceInv => NoPhantomChannel BY DEF AnnounceInv
<1> QED BY <1>1, AnnounceInvariant, PTL

-----------------------------------------------------------------------------
(* What is on record and what the application was told *)

\* Channels that are available or about to be: ids addChannels is inserting were
\* never used before.
Live == channels \cup (IF appPc = "insert" THEN appIds ELSE {})

\* Whose message the worker handles, and which client the close handler is about.
ServedInv ==
    /\ wPc # "idle" => wHdl \in Clients /\ conn[wHdl] \in {"open", "closed"}
    /\ ioPc = "closing" => ioHdl \in Clients /\ conn[ioHdl] = "closed"

\* The application was told of subscriptions to ids handed out before, of clients
\* that were open; it knows of one that is being recorded, and no longer of one
\* that is being erased.
ToldInv ==
    /\ \A h \in Clients : told[h] \subseteq 1..nextChannelId /\ (conn[h] = "none" => told[h] = {})
    /\ wPc \in {"subCall", "subEmplace"} => wChan \in 1..nextChannelId
    /\ wPc = "subEmplace" /\ wHdl \in clients => wChan \in told[wHdl]
    /\ wPc = "unsubErase" => wChan \notin told[wHdl]

\* RecordedImpliesTold, for removed channels too.
RecordedTold ==
    \A h \in clients : \A ch \in ChannelIds :
        subs[h][ch] # NoSub =>
            ch \in told[h] \/ (wPc = "unsubErase" /\ wHdl = h /\ wChan = ch)

\* ToldImpliesRecorded, for channels being inserted too.
ToldRecorded ==
    \A h \in Clients : \A ch \in Live :
        ch \in told[h] =>
            \/ subs[h][ch] # NoSub
            \/ wPc = "subEmplace" /\ wHdl = h /\ wChan = ch
            \/ ioPc = "closing" /\ ioHdl = h /\ ch \in ioChans
            \/ ch \in orphans[h]

AgreeInv == ServedInv /\ ToldInv /\ RecordedTold /\ ToldRecorded

\* Ids of live channels were handed out.
LEMMA LiveIds ==
    ASSUME TypeOK PROVE Live \subseteq ChannelIds
<1>1. 1..nextChannelId \subseteq ChannelIds
  BY MaxChannelsAssumption DEF TypeOK, ChannelIds
<1>2. channels \subseteq 1..nextChannelId /\ appIds \subseteq 1..nextChannelId
  BY DEF TypeOK
<1> QED BY <1>1, <1>2 DEF Live

\* Opening and closing connections keeps the two views in agreement.
LEMMA IoAgreeStep ==
    ASSUME TypeInv, OpenInv, AgreeInv, IoStep
    PROVE  AgreeInv'
<1> USE DEF TypeInv, TypeOK, InHand, OpenInv, AgreeInv, ServedInv, ToldInv, RecordedTold,
            ToldRecorded, Live, netVars, chanVars, wVars, appVars, ioVars, IoIdle
<1>1. ASSUME NEW h \in Clients, OpenEmplace(h) PROVE AgreeInv'
  BY <1>1 DEF OpenEmplace, NoSubs
<1>2. ASSUME NEW h \in Clients, CloseErase(h) PROVE AgreeInv'
  BY <1>2 DEF CloseErase, NoSubs, Subscribed
<1>3. CASE OpenSnapshot
  BY <1>3 DEF OpenSnapshot
<1>4. CASE OpenAdvertise
  BY <1>4 DEF OpenAdvertise
<1>5. ASSUME NEW ch \in ChannelIds, CloseUnsubscribe(ch) PROVE AgreeInv'
  BY <1>5, ZenonT(60) DEF CloseUnsubscribe
<1>6. CASE CloseDone
  BY <1>6 DEF CloseDone
<1> QED BY <1>1, <1>2, <1>3, <1>4, <1>5, <1>6 DEF IoStep

\* So do addChannels and removeChannels: an id is never handed out twice, and
\* only subscriptions to removed channels are dropped.
LEMMA AppAgreeStep ==
    ASSUME TypeInv, AnnounceInv, AgreeInv, AppStep
    PROVE  AgreeInv'
<1> USE DEF TypeInv, TypeOK, InHand, AgreeInv, ServedInv, ToldInv, RecordedTold,
            ToldRecorded, Live, netVars, chanVars, wVars, ioVars, AppIdle
<1>1. ASSUME NEW n \in ChannelIds, AddBegin(n) PROVE AgreeInv'
  BY <1>1 DEF AddBegin, ChannelIds
<1>2. CASE AddInsert
  BY <1>2 DEF AddInsert
<1>3. CASE AddAdvertise
  BY <1>3 DEF AddAdvertise
<1>4. ASSUME NEW ids \in SUBSET (1..nextChannelId), RemoveBegin(ids) PROVE AgreeInv'
  BY <1>4 DEF RemoveBegin
<1>5. CASE RemoveErase
  BY <1>5 DEF RemoveErase
<1>6. CASE RemoveUnadvertise
  BY <1>6 DEF RemoveUnadvertise, AnnounceInv
<1> QED BY <1>1, <1>2, <1>3, <1>4, <1>5, <1>6 DEF AppStep

\* So do the loops of handleSubscribe and handleUnsubscribe.
LEMMA WorkerAgreeStep ==
    ASSUME TypeInv, OpenInv, AgreeInv, WorkerStep
    PROVE  AgreeInv'
<1> USE NoSubAssumption DEF TypeInv, TypeOK, InHand, AgreeInv, ServedInv, ToldInv, RecordedTold,
            ToldRecorded, Live, netVars, chanVars, ioVars, appVars, WorkerIdle, NextRequest, NextId
<1>1. ASSUME NEW h \in Clients, NEW reqs \in SubscribePayloads, SubscribeBegin(h, reqs)
      PROVE  AgreeInv'
  BY <1>1 DEF SubscribeBegin, Delivered
<1>2. ASSUME NEW h \in Clients, NEW ids \in UnsubscribePayloads, UnsubscribeBegin(h, ids)
      PROVE  AgreeInv'
  BY <1>2 DEF UnsubscribeBegin, Delivered
<1>3. CASE SubscribeCheck
  BY <1>3, HeadRequest, ZenonT(60) DEF SubscribeCheck, FindResults
<1>4. CASE SubscribeCall
  <2>1. CASE WorkerIdle /\ UNCHANGED told
    BY <1>4, <2>1 DEF SubscribeCall
  <2>2. CASE told' = [told EXCEPT ![wHdl] = @ \cup {wChan}] /\ wPc' = "subEmplace"
             /\ UNCHANGED <<wHdl, wReqs, wIds, wSnap, wChan>>
    <3>1. /\ wPc = "subCall" /\ wHdl \in Clients /\ wChan \in ChannelIds
          /\ UNCHANGED <<conn, clients, subs, channels, nextChannelId, ioPc, ioHdl, ioChans,
                         appPc, appIds, orphans>>
      BY <1>4 DEF SubscribeCall
    <3>2. told'[wHdl] = told[wHdl] \cup {wChan} /\ \A h \in Clients \ {wHdl} : told'[h] = told[h]
      BY <2>2, <3>1
    <3>3. ServedInv' /\ ToldInv' BY <2>2, <3>1, <3>2
    <3>4. RecordedTold' BY <2>2, <3>1, <3>2
    <3>5. ToldRecorded' BY <2>2, <3>1, <3>2
    <3> QED BY <3>3, <3>4, <3>5
  <2> QED BY <1>4, <2>1, <2>2 DEF SubscribeCall
<1>5. CASE SubscribeEmplace
  <2>1. /\ wPc = "subEmplace" /\ wHdl \in Clients /\ wChan \in ChannelIds
        /\ wPc' \in {"idle", "subscribe"} /\ (wPc' # "idle" => wHdl' = wHdl)
        /\ UNCHANGED <<conn, clients, channels, nextChannelId, ioPc, ioHdl, ioChans,
                       appPc, appIds, told>>
    BY <1>5 DEF SubscribeEmplace
  <2>2. Head(wReqs).id # NoSub
    BY <2>1, HeadRequest
  <2>3. ServedInv' /\ ToldInv' BY <2>1
  <2>4. CASE wHdl \in clients
    <3>1. /\ subs'[wHdl][wChan] # NoSub /\ orphans' = orphans
          /\ \A h \in Clients : \A ch \in ChannelIds :
               h # wHdl \/ ch # wChan => subs'[h][ch] = subs[h][ch]
      BY <1>5, <2>1, <2>2, <2>4 DEF SubscribeEmplace
    <3>2. Live \subseteq ChannelIds BY LiveIds, Zenon DEF TypeInv
    <3>3. RecordedTold'
      <4> SUFFICES ASSUME NEW h \in clients, NEW ch \in ChannelIds, subs'[h][ch] # NoSub
                   PROVE  ch \in told[h]
        BY <2>1
      <4>1. CASE h = wHdl /\ ch = wChan BY <2>1, <2>4, <4>1
      <4>2. CASE h # wHdl \/ ch # wChan
        <5>1. subs[h][ch] # NoSub BY <3>1, <4>2
        <5> QED BY <2>1, <5>1
      <4> QED BY <4>1, <4>2
    <3>4. ToldRecorded' BY <2>1, <2>4, <3>1, <3>2
    <3> QED BY <2>3, <3>3, <3>4
  <2>5. CASE wHdl \notin clients
    <3>0. subs' = subs /\ orphans' = [orphans EXCEPT ![wHdl] = @ \cup {wChan}]
      BY <1>5, <2>5 DEF SubscribeEmplace
    <3>1. /\ subs' = subs /\ wChan \in orphans'[wHdl]
          /\ \A h \in Clients : orphans[h] \subseteq orphans'[h]
      BY <2>1, <3>0
    <3>2. RecordedTold' BY <2>1, <2>5, <3>1
    <3>3. ToldRecorded' BY <2>1, <2>5, <3>1
    <3> QED BY <2>3, <3>2, <3>3
  <2> QED BY <2>4, <2>5
<1>6. CASE UnsubscribeCall
  <2>1. CASE (NextId \/ WorkerIdle) /\ UNCHANGED told
    BY <1>6, <2>1 DEF UnsubscribeCall
  <2>2. ASSUME NEW c \in ChannelIds, told' = [told EXCEPT ![wHdl] = @ \ {c}],
               wPc' = "unsubErase", wChan' = c, wHdl' = wHdl
        PROVE  AgreeInv'
    <3>1. /\ wPc = "unsubscribe" /\ wHdl \in Clients
          /\ UNCHANGED <<conn, clients, subs, channels, nextChannelId, ioPc, ioHdl, ioChans,
                         appPc, appIds, orphans>>
      BY <1>6 DEF UnsubscribeCall
    <3>2. told'[wHdl] = told[wHdl] \ {c} /\ \A h \in Clients \ {wHdl} : told'[h] = told[h]
      BY <2>2, <3>1
    <3>3. ServedInv' /\ ToldInv' BY <2>2, <3>1, <3>2
    <3>4. RecordedTold' BY <2>2, <3>1, <3>2
    <3>5. ToldRecorded' BY <2>2, <3>1, <3>2
    <3> QED BY <3>3, <3>4, <3>5
  <2> QED BY <1>6, <2>1, <2>2 DEF UnsubscribeCall
<1>7. CASE UnsubscribeErase
  <2>1. /\ wPc = "unsubErase" /\ wHdl \in Clients /\ wChan \in ChannelIds
        /\ wPc' \in {"idle", "unsubscribe"} /\ (wPc' # "idle" => wHdl' = wHdl)
        /\ UNCHANGED <<conn, clients, channels, nextChannelId, ioPc, ioHdl, ioChans,
                       appPc, appIds, told, orphans>>
    BY <1>7 DEF UnsubscribeErase
  <2>2. /\ wHdl \in clients => subs'[wHdl][wChan] = NoSub
        /\ \A h \in Clients : \A ch \in ChannelIds :
               h # wHdl \/ ch # wChan => subs'[h][ch] = subs[h][ch]
    BY <1>7, <2>1 DEF UnsubscribeErase
  <2>3. Live \subseteq ChannelIds BY LiveIds, Zenon DEF TypeInv
  <2>4. ServedInv' /\ ToldInv' BY <2>1
  <2>5. RecordedTold' BY <2>1, <2>2
  <2>6. ToldRecorded' BY <2>1, <2>2, <2>3
  <2> QED BY <2>4, <2>5, <2>6
<1> QED BY <1>1, <1>2, <1>3, <1>4, <1>5, <1>6, <1>7 DEF WorkerStep

\* The invariant behind the agreement of the two views.
LEMMA AgreeInvariant == Spec => []AgreeInv
<1>1. Init => AgreeInv
  BY DEF Init, AgreeInv, ServedInv, ToldInv, RecordedTold, ToldRecorded, Live, NoSubs
<1>2. TypeInv /\ OpenInv /\ AnnounceInv /\ AgreeInv /\ [Next]_vars => AgreeInv'
  <2> SUFFICES ASSUME TypeInv, OpenInv, AnnounceInv, AgreeInv, [Next]_vars PROVE AgreeInv'
    OBVIOUS
  <2>1. CASE UNCHANGED vars
    BY <2>1 DEF vars, AgreeInv, ServedInv, ToldInv, RecordedTold, ToldRecorded, Live
  <2> QED BY <2>1, IoAgreeStep, WorkerAgreeStep, AppAgreeStep DEF Next
<1> QED BY <1>1, <1>2, AnnounceInvariant, PTL DEF Spec

\* The subscriptions on record and those the application was told of agree, in
\* every interleaving of the worker, the close handler and removeChannels.
THEOREM RecordAndApplicationAgree == Spec => []SubscriptionsAgree
<1>1. TypeInv /\ AgreeInv => SubscriptionsAgree
  <2> SUFFICES ASSUME TypeInv, AgreeInv PROVE SubscriptionsAgree OBVIOUS
  <2>1. channels \subseteq Live /\ channels \subseteq ChannelIds
    BY MaxChannelsAssumption DEF Live, TypeInv, TypeOK, ChannelIds
  <2> QED BY <2>1 DEF AgreeInv, RecordedTold, ToldRecorded, SubscriptionsAgree,
                      RecordedImpliesTold, ToldImpliesRecorded
<1> QED BY <1>1, AgreeInvariant, AnnounceInvariant, PTL

-----------------------------------------------------------------------------
(* No subscription to a removed channel stays behind *)

\* Each step keeps subscriptions to channels that are gone out of the table.
LEMMA RecordedStep ==
    ASSUME TypeInv, OnlyAvailableRecorded, [Next]_vars
    PROVE  OnlyAvailableRecorded'
<1> USE DEF TypeInv, TypeOK, InHand, OnlyAvailableRecorded, Retracting, Subscribed,
            netVars, chanVars, ioVars, appVars, wVars
<1>1. CASE UNCHANGED <<clients, subs, channels, appPc, appIds, late>>
  BY <1>1
<1>2. CASE IoStep
  <2>1. ASSUME NEW h \in Clients, OpenEmplace(h) PROVE OnlyAvailableRecorded'
    BY <2>1 DEF OpenEmplace, NoSubs
  <2>2. ASSUME NEW h \in Clients, CloseErase(h) PROVE OnlyAvailableRecorded'
    BY <2>2 DEF CloseErase
  <2> QED BY <1>1, <1>2, <2>1, <2>2
        DEF IoStep, OpenSnapshot, OpenAdvertise, CloseUnsubscribe, CloseDone
<1>3. CASE AppStep
  <2>1. ASSUME NEW n \in ChannelIds, AddBegin(n) PROVE OnlyAvailableRecorded'
    BY <2>1 DEF AddBegin
  <2>2. CASE AddInsert
    BY <2>2 DEF AddInsert
  <2>3. CASE AddAdvertise
    BY <2>3 DEF AddAdvertise, AppIdle
  <2>4. ASSUME NEW ids \in SUBSET (1..nextChannelId), RemoveBegin(ids)
        PROVE  OnlyAvailableRecorded'
    BY <2>4 DEF RemoveBegin
  <2>5. CASE RemoveErase
    BY <2>5 DEF RemoveErase
  <2>6. CASE RemoveUnadvertise
    BY <2>6 DEF RemoveUnadvertise, AppIdle
  <2> QED BY <1>3, <2>1, <2>2, <2>3, <2>4, <2>5, <2>6 DEF AppStep
<1>4. CASE WorkerStep
  <2>1. CASE SubscribeEmplace
    <3>0. /\ wHdl \in Clients /\ wChan \in ChannelIds
          /\ UNCHANGED <<clients, channels, appPc, appIds>>
      BY <2>1 DEF SubscribeEmplace
    <3>1. \A h \in Clients : late[h] \subseteq late'[h]
      BY <2>1, <3>0, SMTT(30) DEF SubscribeEmplace
    <3>2. \A h \in Clients : \A ch \in ChannelIds :
            \/ subs'[h][ch] = subs[h][ch]
            \/ h = wHdl /\ ch = wChan /\ ch \in channels \cup late'[h]
      BY <2>1, <3>0 DEF SubscribeEmplace
    <3> QED BY <3>0, <3>1, <3>2
  <2>2. CASE UnsubscribeErase
    <3>0. /\ wHdl \in Clients /\ wChan \in ChannelIds
          /\ UNCHANGED <<clients, channels, appPc, appIds, late>>
      BY <2>2 DEF UnsubscribeErase
    <3>1. \A h \in Clients : \A ch \in ChannelIds :
            subs'[h][ch] = subs[h][ch] \/ subs'[h][ch] = NoSub
      <4>1. subs' = subs \/ subs' = [subs EXCEPT ![wHdl][wChan] = NoSub]
        BY <2>2 DEF UnsubscribeErase
      <4> QED BY <3>0, <4>1
    <3> QED BY <3>0, <3>1
  <2> QED BY <1>1, <1>4, <2>1, <2>2
        DEF WorkerStep, SubscribeBegin, SubscribeCheck, SubscribeCall, UnsubscribeBegin,
            UnsubscribeCall
<1>5. CASE UNCHANGED vars
  BY <1>1, <1>5 DEF vars
<1> QED BY <1>2, <1>3, <1>4, <1>5 DEF Next

\* removeChannels leaves no client's subscription behind, except one recorded
\* after its channel was erased.
THEOREM NothingLeftBehind == Spec => []OnlyAvailableRecorded
<1>1. Init => OnlyAvailableRecorded
  BY DEF Init, OnlyAvailableRecorded
<1>2. TypeInv /\ OnlyAvailableRecorded /\ [Next]_vars => OnlyAvailableRecorded'
  BY RecordedStep
<1> QED BY <1>1, <1>2, InitTypeInv, NextTypeInv, PTL DEF Spec

-----------------------------------------------------------------------------
(* Subscription ids *)

InLoop == wPc \in {"subscribe", "subCall", "subEmplace"}

\* What the copy taken at the start of handleSubscribe is good for: an id on
\* record is in the copy, or was recorded by this loop and does not come again.
CopyInv ==
    /\ InLoop => DistinctIds(wReqs)
    /\ InLoop /\ wHdl \in clients =>
         \A ch \in ChannelIds : subs[wHdl][ch] # NoSub =>
             \/ IdUsed(wSnap, subs[wHdl][ch])
             \/ \A i \in DOMAIN wReqs : wReqs[i].id # subs[wHdl][ch]
    /\ wPc \in {"subCall", "subEmplace"} => ~IdUsed(wSnap, Head(wReqs).id)

\* The ids left in a payload are among its ids, without the first.
LEMMA TailIds ==
    ASSUME NEW S, NEW s \in Seq(S), s # <<>>, DistinctIds(s)
    PROVE  /\ DistinctIds(Tail(s))
           /\ \A i \in DOMAIN Tail(s) : \E j \in DOMAIN s : s[j].id = Tail(s)[i].id
           /\ \A i \in DOMAIN Tail(s) : Tail(s)[i].id # Head(s).id
<1>0. s # <<>> /\ Len(s) \in Nat \ {0} /\ DOMAIN s = 1..Len(s) /\ Head(s) = s[1]
  BY EmptySeq
<1>1. DOMAIN Tail(s) = 1..(Len(s) - 1) /\ \A i \in DOMAIN Tail(s) : Tail(s)[i] = s[i + 1]
  BY <1>0, HeadTailProperties
<1>2. \A i \in DOMAIN Tail(s) : i + 1 \in DOMAIN s /\ i + 1 # 1 /\ Tail(s)[i] = s[i + 1]
  BY <1>0, <1>1
<1>3. \A i, j \in DOMAIN Tail(s) : i + 1 = j + 1 => i = j
  BY <1>0, <1>1
<1>4. DistinctIds(Tail(s))
  BY <1>2, <1>3 DEF DistinctIds
<1>5. 1 \in DOMAIN s
  BY <1>0
<1> QED BY <1>0, <1>2, <1>4, <1>5 DEF DistinctIds

\* A step that leaves handleSubscribe's loop alone and adds no subscription.
LEMMA CopyFrame ==
    ASSUME TypeInv, UniqueSubIds, CopyInv,
           UNCHANGED wVars,
           \A h \in Clients : \A ch \in ChannelIds :
               subs'[h][ch] = subs[h][ch] \/ subs'[h][ch] = NoSub,
           InLoop => (wHdl \in clients' => wHdl \in clients)
    PROVE  UniqueSubIds' /\ CopyInv'
<1>1. UniqueSubIds' BY DEF UniqueSubIds
<1>2. CopyInv'
  <2>1. InLoop => wHdl \in Clients BY DEF InLoop, TypeInv, TypeOK
  <2> QED BY <2>1 DEF CopyInv, InLoop, IdUsed, DistinctIds, wVars
<1> QED BY <1>1, <1>2

\* handleSubscribe goes on with the next entry: what is on record does not meet
\* the ids that are left.
LEMMA CopyNext ==
    ASSUME TypeInv, InLoop, DistinctIds(wReqs), NextRequest,
           clients' = clients,
           wHdl \in clients =>
             \A ch \in ChannelIds : subs'[wHdl][ch] # NoSub =>
               \/ IdUsed(wSnap, subs'[wHdl][ch])
               \/ \A i \in DOMAIN wReqs : wReqs[i].id # subs'[wHdl][ch]
               \/ subs'[wHdl][ch] = Head(wReqs).id
    PROVE  CopyInv'
<1>0. wReqs \in Seq([id : SubIds, chan : ChannelIds]) /\ wReqs # <<>>
  BY DEF TypeInv, TypeOK, InLoop
<1>1. CASE WorkerIdle
  BY <1>1 DEF WorkerIdle, CopyInv, InLoop
<1>2. CASE wPc' = "subscribe" /\ wReqs' = Tail(wReqs) /\ UNCHANGED <<wHdl, wSnap>>
  <2>1. /\ DistinctIds(wReqs')
        /\ \A i \in DOMAIN wReqs' : \E j \in DOMAIN wReqs : wReqs[j].id = wReqs'[i].id
        /\ \A i \in DOMAIN wReqs' : wReqs'[i].id # Head(wReqs).id
    BY <1>0, <1>2, TailIds
  <2>2. wHdl' \in clients' =>
          \A ch \in ChannelIds : subs'[wHdl'][ch] # NoSub =>
             \/ IdUsed(wSnap', subs'[wHdl'][ch])
             \/ \A i \in DOMAIN wReqs' : wReqs'[i].id # subs'[wHdl'][ch]
    BY <1>2, <2>1
  <2> QED BY <1>2, <2>1, <2>2 DEF CopyInv, InLoop
<1> QED BY <1>1, <1>2 DEF NextRequest

\* Every step keeps ids unique: the copy is as good as the table itself.
LEMMA UniqueStep ==
    ASSUME \A p \in SubscribePayloads : DistinctIds(p),
           TypeInv, OpenInv, ServedInv, UniqueSubIds, CopyInv, [Next]_vars
    PROVE  UniqueSubIds' /\ CopyInv'
<1>0. InLoop => wHdl \in Clients /\ conn[wHdl] \in {"open", "closed"}
  BY DEF InLoop, ServedInv
<1>1. CASE IoStep
  <2>1. UNCHANGED wVars
    BY <1>1 DEF IoStep, OpenEmplace, CloseErase, OpenSnapshot, OpenAdvertise, CloseUnsubscribe,
                CloseDone
  <2>2. ASSUME NEW h \in Clients, OpenEmplace(h) PROVE UniqueSubIds' /\ CopyInv'
    <3>1. subs' = [subs EXCEPT ![h] = NoSubs] /\ clients' = clients \cup {h} /\ conn[h] = "none"
      BY <2>2 DEF OpenEmplace
    <3>2. \A g \in Clients : \A ch \in ChannelIds :
            subs'[g][ch] = subs[g][ch] \/ subs'[g][ch] = NoSub
      BY <3>1 DEF TypeInv, TypeOK, NoSubs
    <3>3. InLoop => (wHdl \in clients' => wHdl \in clients)
      BY <1>0, <3>1
    <3> QED BY <2>1, <3>2, <3>3, CopyFrame
  <2>3. ASSUME NEW h \in Clients, CloseErase(h) PROVE UniqueSubIds' /\ CopyInv'
    <3>1. subs' = [subs EXCEPT ![h] = NoSubs] /\ clients' = clients \ {h}
      BY <2>3 DEF CloseErase
    <3>2. \A g \in Clients : \A ch \in ChannelIds :
            subs'[g][ch] = subs[g][ch] \/ subs'[g][ch] = NoSub
      BY <3>1 DEF TypeInv, TypeOK, NoSubs
    <3> QED BY <2>1, <3>1, <3>2, CopyFrame
  <2>4. CASE subs' = subs /\ clients' = clients
    BY <2>1, <2>4, CopyFrame
  <2> QED BY <1>1, <2>2, <2>3, <2>4
        DEF IoStep, OpenSnapshot, OpenAdvertise, CloseUnsubscribe, CloseDone, netVars
<1>2. CASE AppStep
  <2>1. UNCHANGED wVars /\ clients' = clients
    BY <1>2 DEF AppStep, AddBegin, AddInsert, AddAdvertise, RemoveBegin, RemoveErase,
                RemoveUnadvertise, netVars
  <2>2. CASE RemoveUnadvertise
    <3>1. \A h \in Clients : \A ch \in ChannelIds :
            subs'[h][ch] = subs[h][ch] \/ subs'[h][ch] = NoSub
      BY <2>2 DEF RemoveUnadvertise, TypeInv, TypeOK
    <3> QED BY <2>1, <3>1, CopyFrame
  <2>3. CASE subs' = subs
    BY <2>1, <2>3, CopyFrame
  <2> QED BY <1>2, <2>2, <2>3
        DEF AppStep, AddBegin, AddInsert, AddAdvertise, RemoveBegin, RemoveErase, netVars
<1>3. CASE WorkerStep
  <2>0. clients' = clients
    BY <1>3, WorkerFrameStep DEF WorkerFrame
  <2>1. ASSUME NEW h \in Clients, NEW reqs \in SubscribePayloads, SubscribeBegin(h, reqs)
        PROVE  UniqueSubIds' /\ CopyInv'
    <3>1. /\ wPc' = "subscribe" /\ wHdl' = h /\ wReqs' = reqs /\ wSnap' = subs[h]
          /\ UNCHANGED <<clients, subs>>
      BY <2>1 DEF SubscribeBegin, netVars
    <3>2. DistinctIds(wReqs')
      BY <3>1
    <3>3. \A ch \in ChannelIds : subs'[wHdl'][ch] # NoSub => IdUsed(wSnap', subs'[wHdl'][ch])
      BY <3>1 DEF IdUsed
    <3> QED BY <3>1, <3>2, <3>3 DEF UniqueSubIds, CopyInv, InLoop
  <2>2. ASSUME NEW h \in Clients, NEW ids \in UnsubscribePayloads, UnsubscribeBegin(h, ids)
        PROVE  UniqueSubIds' /\ CopyInv'
    BY <2>2 DEF UnsubscribeBegin, netVars, UniqueSubIds, CopyInv, InLoop
  <2>3. CASE SubscribeCheck
    <3>1. wPc = "subscribe" /\ InLoop /\ UNCHANGED <<clients, subs>>
      BY <2>3 DEF SubscribeCheck, netVars, InLoop
    <3>2. UniqueSubIds' BY <3>1 DEF UniqueSubIds
    <3>3. CASE NextRequest
      <4>1. CopyInv' BY <3>1, <3>3, CopyNext DEF CopyInv
      <4> QED BY <3>2, <4>1
    <3>4. CASE ~IdUsed(wSnap, Head(wReqs).id) /\ wPc' = "subCall"
               /\ UNCHANGED <<wHdl, wReqs, wIds, wSnap>>
      BY <3>1, <3>2, <3>4 DEF CopyInv, InLoop, IdUsed
    <3> QED BY <2>3, <3>3, <3>4 DEF SubscribeCheck
  <2>4. CASE SubscribeCall
    <3>1. wPc = "subCall" /\ UNCHANGED <<clients, subs>>
      BY <2>4 DEF SubscribeCall, netVars
    <3>2. UniqueSubIds' BY <3>1 DEF UniqueSubIds
    <3>3. CASE WorkerIdle
      BY <3>2, <3>3 DEF WorkerIdle, CopyInv, InLoop
    <3>4. CASE wPc' = "subEmplace" /\ UNCHANGED <<wHdl, wReqs, wIds, wSnap, wChan>>
      BY <3>1, <3>2, <3>4 DEF CopyInv, InLoop, IdUsed
    <3> QED BY <2>4, <3>3, <3>4 DEF SubscribeCall
  <2>5. CASE SubscribeEmplace
    <3>1. wPc = "subEmplace" /\ InLoop /\ wHdl \in Clients /\ wChan \in ChannelIds /\ wReqs # <<>>
      BY <2>5 DEF SubscribeEmplace, InLoop, TypeInv, TypeOK, InHand
    <3>2. CASE wHdl \notin clients
      BY <2>5, <3>2 DEF SubscribeEmplace, WorkerIdle, UniqueSubIds, CopyInv, InLoop
    <3>3. CASE wHdl \in clients
      <4>1. 1 \in DOMAIN wReqs /\ Head(wReqs) = wReqs[1]
        BY <3>1, EmptySeq DEF TypeInv, TypeOK
      <4>2. \A ch \in ChannelIds : subs[wHdl][ch] # NoSub => subs[wHdl][ch] # Head(wReqs).id
        BY <3>1, <3>3, <4>1 DEF CopyInv
      <4>3. NextRequest /\ subs' = IF subs[wHdl][wChan] = NoSub
                                     THEN [subs EXCEPT ![wHdl][wChan] = Head(wReqs).id]
                                     ELSE subs
        BY <2>5, <3>3 DEF SubscribeEmplace
      <4>4. \A h \in Clients : \A ch \in ChannelIds :
               \/ subs'[h][ch] = subs[h][ch]
               \/ h = wHdl /\ ch = wChan /\ subs'[h][ch] = Head(wReqs).id
        BY <3>1, <4>3 DEF TypeInv, TypeOK
      <4>5. UniqueSubIds'
        BY <3>1, <4>2, <4>4 DEF UniqueSubIds
      <4>6. \A ch \in ChannelIds : subs'[wHdl][ch] # NoSub =>
               \/ IdUsed(wSnap, subs'[wHdl][ch])
               \/ \A i \in DOMAIN wReqs : wReqs[i].id # subs'[wHdl][ch]
               \/ subs'[wHdl][ch] = Head(wReqs).id
        BY <3>1, <3>3, <4>4 DEF CopyInv
      <4>7. CopyInv'
        BY <2>0, <3>1, <4>3, <4>6, CopyNext DEF CopyInv
      <4> QED BY <4>5, <4>7
    <3> QED BY <3>2, <3>3
  <2>6. CASE UnsubscribeCall
    BY <2>6 DEF UnsubscribeCall, netVars, NextId, WorkerIdle, UniqueSubIds, CopyInv, InLoop
  <2>7. CASE UnsubscribeErase
    <3>1. wPc' \in {"idle", "unsubscribe"}
          /\ (subs' = subs \/ subs' = [subs EXCEPT ![wHdl][wChan] = NoSub])
      BY <2>7 DEF UnsubscribeErase, NextId, WorkerIdle
    <3>2. wHdl \in Clients /\ wChan \in ChannelIds
          /\ subs \in [Clients -> [ChannelIds -> SubIds \cup {NoSub}]]
      BY <2>7 DEF UnsubscribeErase, TypeInv, TypeOK, InHand
    <3>3. \A h \in Clients : \A ch \in ChannelIds :
            subs'[h][ch] = subs[h][ch] \/ subs'[h][ch] = NoSub
      BY <3>1, <3>2
    <3> QED BY <3>1, <3>3 DEF UniqueSubIds, CopyInv, InLoop
  <2> QED BY <1>3, <2>1, <2>2, <2>3, <2>4, <2>5, <2>6, <2>7 DEF WorkerStep
<1>4. CASE UNCHANGED vars
  BY <1>4, CopyFrame DEF vars, wVars
<1> QED BY <1>1, <1>2, <1>3, <1>4 DEF Next

\* No subscription id ever stands for two channels of a client, as long as no
\* payload repeats an id: comparing with the copy taken before the loop is enough,
\* although handleConnectionClosed and removeChannels change the table meanwhile.
THEOREM SubIdsUnique ==
    ASSUME \A p \in SubscribePayloads : DistinctIds(p)
    PROVE  Spec => []UniqueSubIds
<1>1. Init => UniqueSubIds /\ CopyInv
  BY DEF Init, UniqueSubIds, CopyInv, InLoop, NoSubs
<1>2. TypeInv /\ OpenInv /\ AgreeInv /\ UniqueSubIds /\ CopyInv /\ [Next]_vars
        => UniqueSubIds' /\ CopyInv'
  BY UniqueStep DEF AgreeInv
<1> QED BY <1>1, <1>2, AnnounceInvariant, AgreeInvariant, PTL DEF Spec
=============================================================================
