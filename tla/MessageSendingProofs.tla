------------------------ MODULE MessageSendingProofs ------------------------
(***************************************************************************)
(* MessageSending, for any number of threads, clients, channels and sizes: *)
(* broadcastMessage labels every message with a current subscription and   *)
(* leaves nobody out, and how far a send buffer can grow beyond its limit. *)
(***************************************************************************)
EXTENDS MessageSending, FiniteSetTheorems, TLAPS

Jobs == [chan : Channels, size : Sizes]

\* What the handlers of the server write.
ServerTypes ==
    /\ conn \in [Clients -> {"none", "open", "closed"}]
    /\ clients \subseteq Clients
    /\ subs \in [Clients -> [Channels -> SubIds \cup {NoSub}]]
    /\ writer \in Requests \cup {NoRequest}
    /\ data \in [Clients -> Nat]
    /\ control \in [Clients -> Nat]

\* What the senders write; one inside a call has a job, and a client in hand
\* where it looks up the subscription and sends.
SenderTypes ==
    /\ pc \in [Senders -> {"idle", "next", "lookup", "write"}]
    /\ job \in [Senders -> Jobs \cup {NoJob}]
    /\ todo \in [Senders -> SUBSET Clients]
    /\ hdl \in [Senders -> Clients \cup {NoClient}]
    /\ subId \in [Senders -> SubIds \cup {NoSub}]
    /\ got \in [Senders -> SUBSET Clients]
    /\ full \in [Senders -> SUBSET Clients]
    /\ \A s \in Senders :
         /\ pc[s] # "idle" => job[s] \in Jobs
         /\ pc[s] \in {"lookup", "write"} => hdl[s] \in Clients

Types == ServerTypes /\ SenderTypes

\* A sender is part of the way through its loop: a client that should get the
\* message got it, was full, is in hand or is still to come.
LoopOf(s) ==
    pc[s] # "idle" =>
        \A h \in clients :
            conn[h] = "open" /\ subs[h][job[s].chan] # NoSub =>
                \/ h \in got[s] \cup full[s] \cup todo[s]
                \/ pc[s] \in {"lookup", "write"} /\ hdl[s] = h

LabelOf(s) == pc[s] = "write" => subs[hdl[s]][job[s].chan] = subId[s]

LoopInv == \A s \in Broadcasters : LoopOf(s)

BroadcastInv == Types /\ LabelIsCurrent /\ LoopInv

\* A step of sender s as the other senders see it.
LEMMA SenderFrame ==
    ASSUME Types, NEW s \in Senders, SenderStep(s)
    PROVE  /\ UNCHANGED <<conn, clients, subs, writer>>
           /\ \A t \in Senders \ {s} :
                /\ pc'[t] = pc[t] /\ job'[t] = job[t] /\ todo'[t] = todo[t] /\ hdl'[t] = hdl[t]
                /\ subId'[t] = subId[t] /\ got'[t] = got[t] /\ full'[t] = full[t]
<1> USE DEF Types, SenderTypes
<1>1. ASSUME NEW h \in Clients, SendGone(s, h) \/ SendFull(s, h) \/ SendCheck(s, h)
      PROVE  /\ UNCHANGED <<conn, clients, subs, writer>>
             /\ \A t \in Senders \ {s} :
                  /\ pc'[t] = pc[t] /\ job'[t] = job[t] /\ todo'[t] = todo[t] /\ hdl'[t] = hdl[t]
                  /\ subId'[t] = subId[t] /\ got'[t] = got[t] /\ full'[t] = full[t]
  BY <1>1 DEF SendGone, SendFull, SendCheck
<1>2. CASE SendLookup(s)
  BY <1>2 DEF SendLookup
<1>3. CASE SendWrite(s)
  BY <1>3 DEF SendWrite
<1>4. CASE SendDone(s)
  BY <1>4 DEF SendDone
<1> QED BY <1>1, <1>2, <1>3, <1>4 DEF SenderStep

\* A step of a sender keeps the types.
LEMMA SenderKeepsTypes ==
    ASSUME Types, NEW s \in Senders, SenderStep(s)
    PROVE  Types'
<1> USE SendingAssumption DEF Types, ServerTypes, SenderTypes
<1>1. ASSUME NEW h \in Clients, SendGone(s, h) PROVE Types'
  BY <1>1 DEF SendGone, After
<1>2. ASSUME NEW h \in Clients, SendFull(s, h) PROVE Types'
  <2>1. control' \in [Clients -> Nat]
    BY <1>2 DEF SendFull
  <2> QED BY <1>2, <2>1 DEF SendFull, After
<1>3. ASSUME NEW h \in Clients, SendCheck(s, h) PROVE Types'
  BY <1>3 DEF SendCheck, After
<1>4. CASE SendLookup(s)
  <2>1. job[s] \in Jobs /\ job[s].chan \in Channels /\ hdl[s] \in Clients
    BY <1>4 DEF SendLookup, Jobs
  <2>2. CASE hdl[s] \in clients /\ subs[hdl[s]][job[s].chan] # NoSub
    <3>1. subs[hdl[s]][job[s].chan] \in SubIds \cup {NoSub} BY <2>1
    <3> QED BY <1>4, <2>1, <2>2, <3>1, ZenonT(60) DEF SendLookup
  <2>3. CASE ~(hdl[s] \in clients /\ subs[hdl[s]][job[s].chan] # NoSub)
    BY <1>4, <2>1, <2>3, ZenonT(60) DEF SendLookup
  <2> QED BY <2>2, <2>3
<1>5. CASE SendWrite(s)
  <2>1. job[s].size \in Nat /\ hdl[s] \in Clients
    BY <1>5 DEF SendWrite, Jobs
  <2>2. data' \in [Clients -> Nat]
    BY <1>5, <2>1 DEF SendWrite
  <2> QED BY <1>5, <2>1, <2>2 DEF SendWrite
<1>6. CASE SendDone(s)
  BY <1>6 DEF SendDone
<1> QED BY <1>1, <1>2, <1>3, <1>4, <1>5, <1>6 DEF SenderStep

\* So does the begin of a call.
LEMMA BeginKeepsTypes ==
    ASSUME Types, NEW s \in Senders, NEW c \in Channels, NEW z \in Sizes,
           NEW targets \in SUBSET Clients, Begin(s, c, z, targets)
    PROVE  Types'
BY DEF Begin, Types, ServerTypes, SenderTypes, Jobs

\* A table of subscriptions with one entry replaced is one.
LEMMA TableEntry ==
    ASSUME NEW f \in [Clients -> [Channels -> SubIds \cup {NoSub}]],
           NEW h \in Clients, NEW c \in Channels, NEW x \in SubIds \cup {NoSub}
    PROVE  [f EXCEPT ![h][c] = x] \in [Clients -> [Channels -> SubIds \cup {NoSub}]]
OBVIOUS

\* So do the handlers, the transport and the clock.
LEMMA ServerKeepsTypes ==
    ASSUME Types,
           \/ BroadcastControl
           \/ \E r \in Requests : WriteBegin(r)
           \/ WriteClients
           \/ \E h \in Clients : Disconnect(h) \/ Drain(h)
           \/ DebounceElapsed
    PROVE  Types'
<1> USE SendingAssumption DEF Types, ServerTypes, senderVars
<1>1. CASE BroadcastControl
  BY <1>1 DEF BroadcastControl, SenderTypes
<1>2. ASSUME NEW r \in Requests, WriteBegin(r) PROVE Types'
  BY <1>2 DEF WriteBegin, SenderTypes
<1>3. CASE WriteClients
  <2>1. /\ writer \in Requests /\ writer' = NoRequest
        /\ UNCHANGED <<data, control, pc, job, todo, hdl, subId, got, full>>
    BY <1>3 DEF WriteClients
  <2>2. writer.h \in Clients /\ writer.op \in {"open", "close", "subscribe", "unsubscribe"}
    BY <2>1 DEF Requests
  <2>3. CASE writer.op = "open"
    <3>1. clients' = clients \cup {writer.h} /\ conn' = [conn EXCEPT ![writer.h] = "open"]
          /\ subs' = subs
      BY <1>3, <2>3 DEF WriteClients
    <3> QED BY <2>1, <2>2, <3>1 DEF SenderTypes
  <2>4. CASE writer.op = "close"
    <3>1. clients' = clients \ {writer.h} /\ conn' = conn
          /\ subs' = [subs EXCEPT ![writer.h] = [c \in Channels |-> NoSub]]
      BY <1>3, <2>4 DEF WriteClients
    <3> QED BY <2>1, <2>2, <3>1 DEF SenderTypes
  <2>5. CASE writer.op = "subscribe"
    <3>1. writer.chan \in Channels /\ writer.id \in SubIds
      BY <2>1, <2>5 DEF Requests
    <3>2. clients' = clients /\ conn' = conn
          /\ (subs' = subs \/ subs' = [subs EXCEPT ![writer.h][writer.chan] = writer.id])
      BY <1>3, <2>5 DEF WriteClients
    <3>3. subs' \in [Clients -> [Channels -> SubIds \cup {NoSub}]]
      <4>1. subs \in [Clients -> [Channels -> SubIds \cup {NoSub}]] OBVIOUS
      <4>2. [subs EXCEPT ![writer.h][writer.chan] = writer.id]
               \in [Clients -> [Channels -> SubIds \cup {NoSub}]]
        BY <2>2, <3>1, <4>1, TableEntry
      <4> QED BY <3>2, <4>1, <4>2
    <3> QED BY <2>1, <3>2, <3>3 DEF SenderTypes
  <2>6. CASE writer.op = "unsubscribe"
    <3>1. writer.chan \in Channels
      BY <2>1, <2>6 DEF Requests
    <3>2. clients' = clients /\ conn' = conn
          /\ (subs' = subs \/ subs' = [subs EXCEPT ![writer.h][writer.chan] = NoSub])
      BY <1>3, <2>6 DEF WriteClients
    <3>3. subs' \in [Clients -> [Channels -> SubIds \cup {NoSub}]]
      <4>1. subs \in [Clients -> [Channels -> SubIds \cup {NoSub}]] OBVIOUS
      <4>2. [subs EXCEPT ![writer.h][writer.chan] = NoSub]
               \in [Clients -> [Channels -> SubIds \cup {NoSub}]]
        BY <2>2, <3>1, <4>1, TableEntry
      <4> QED BY <3>2, <4>1, <4>2
    <3> QED BY <2>1, <3>2, <3>3 DEF SenderTypes
  <2> QED BY <2>2, <2>3, <2>4, <2>5, <2>6
<1>4. ASSUME NEW h \in Clients, Disconnect(h) PROVE Types'
  BY <1>4 DEF Disconnect, SenderTypes
<1>5. ASSUME NEW h \in Clients, Drain(h) PROVE Types'
  BY <1>5 DEF Drain, SenderTypes
<1>6. CASE DebounceElapsed
  BY <1>6 DEF DebounceElapsed, SenderTypes
<1> QED BY <1>1, <1>2, <1>3, <1>4, <1>5, <1>6

\* Nothing changes for the senders when nobody may send.
LEMMA WriterAlone ==
    ASSUME Types, WriteClients
    PROVE  \A s \in Broadcasters : pc[s] = "idle" /\ pc'[s] = "idle"
BY DEF WriteClients, MayWrite, HoldsShared, Senders, senderVars, Types

\* Every step of a broadcaster keeps its label current and its loop complete.
LEMMA BroadcasterStep ==
    ASSUME BroadcastInv, NEW s \in Broadcasters, SenderStep(s)
    PROVE  LabelIsCurrent' /\ LoopInv'
<1>0. s \in Senders BY DEF Senders
<1>1. \A t \in Broadcasters \ {s} : LabelOf(t)' /\ LoopOf(t)'
  <2>1. \A t \in Broadcasters \ {s} : t \in Senders \ {s} BY DEF Senders
  <2>2. UNCHANGED <<conn, clients, subs>>
    BY <1>0, SenderFrame DEF BroadcastInv
  <2>3. \A t \in Broadcasters \ {s} :
          /\ pc'[t] = pc[t] /\ job'[t] = job[t] /\ todo'[t] = todo[t] /\ hdl'[t] = hdl[t]
          /\ subId'[t] = subId[t] /\ got'[t] = got[t] /\ full'[t] = full[t]
    BY <1>0, <2>1, SenderFrame DEF BroadcastInv
  <2> QED BY <2>2, <2>3 DEF BroadcastInv, LabelIsCurrent, LoopInv, LabelOf, LoopOf
<1> USE <1>0 DEF BroadcastInv, Types, ServerTypes, SenderTypes, LabelIsCurrent, LoopInv, LoopOf,
                 LabelOf
<1>2. ASSUME NEW g \in Clients, SendGone(s, g) PROVE LabelOf(s)' /\ LoopOf(s)'
  BY <1>2, SMTT(30) DEF SendGone, After
<1>3. ASSUME NEW g \in Clients, SendFull(s, g) PROVE LabelOf(s)' /\ LoopOf(s)'
  BY <1>3, SMTT(30) DEF SendFull, After
<1>4. ASSUME NEW g \in Clients, SendCheck(s, g) PROVE LabelOf(s)' /\ LoopOf(s)'
  BY <1>4 DEF SendCheck, After
<1>5. ASSUME SendLookup(s) PROVE LabelOf(s)' /\ LoopOf(s)'
  BY <1>5, SMTT(30) DEF SendLookup
<1>6. ASSUME SendWrite(s) PROVE LabelOf(s)' /\ LoopOf(s)'
  BY <1>6, SMTT(30) DEF SendWrite
<1>7. ASSUME SendDone(s) PROVE LabelOf(s)' /\ LoopOf(s)'
  BY <1>7 DEF SendDone
<1>8. LabelOf(s)' /\ LoopOf(s)'
  BY <1>2, <1>3, <1>4, <1>5, <1>6, <1>7 DEF SenderStep
<1> QED BY <1>1, <1>8

\* Every step keeps the invariant of broadcastMessage.
LEMMA BroadcastStep ==
    ASSUME BroadcastInv, [Next]_vars
    PROVE  BroadcastInv'
<1> USE DEF BroadcastInv
<1>1. ASSUME NEW s \in Senders, SenderStep(s) PROVE BroadcastInv'
  <2>1. Types' BY <1>1, SenderKeepsTypes
  <2>2. CASE s \in Broadcasters
    BY <1>1, <2>1, <2>2, BroadcasterStep
  <2>3. CASE s \notin Broadcasters
    <3>1. \A t \in Broadcasters : t \in Senders \ {s} BY <2>3 DEF Senders
    <3>2. UNCHANGED <<conn, clients, subs>>
      BY <1>1, SenderFrame
    <3>3. \A t \in Broadcasters :
            /\ pc'[t] = pc[t] /\ job'[t] = job[t] /\ todo'[t] = todo[t] /\ hdl'[t] = hdl[t]
            /\ subId'[t] = subId[t] /\ got'[t] = got[t] /\ full'[t] = full[t]
      BY <1>1, <3>1, SenderFrame
    <3> QED BY <2>1, <3>2, <3>3 DEF LabelIsCurrent, LoopInv, LoopOf
  <2> QED BY <2>2, <2>3
<1>2. ASSUME NEW s \in Broadcasters, NEW c \in Channels, NEW z \in Sizes,
             BroadcastMessage(s, c, z)
      PROVE  BroadcastInv'
  <2>1. Types'
    BY <1>2, BeginKeepsTypes DEF BroadcastMessage, Senders, Types, ServerTypes
  <2>2. LabelIsCurrent' /\ LoopInv'
    BY <1>2 DEF BroadcastMessage, Begin, LabelIsCurrent, LoopInv, LoopOf, Types, SenderTypes, Senders
  <2> QED BY <2>1, <2>2
<1>3. ASSUME NEW s \in Directs, NEW g \in Clients, NEW c \in Channels, NEW z \in Sizes,
             SendMessage(s, g, c, z)
      PROVE  BroadcastInv'
  <2>0. s \notin Broadcasters BY SendingAssumption
  <2>1. Types'
    BY <1>3, BeginKeepsTypes DEF SendMessage, Senders
  <2>2. LabelIsCurrent' /\ LoopInv'
    BY <1>3, <2>0 DEF SendMessage, Begin, LabelIsCurrent, LoopInv, LoopOf, Types, SenderTypes, Senders
  <2> QED BY <2>1, <2>2
<1>4. CASE \/ BroadcastControl
           \/ \E r \in Requests : WriteBegin(r)
           \/ WriteClients
           \/ \E h \in Clients : Disconnect(h) \/ Drain(h)
           \/ DebounceElapsed
  <2>1. Types' BY <1>4, ServerKeepsTypes
  <2>2. CASE WriteClients
    BY <2>1, <2>2, WriterAlone DEF LabelIsCurrent, LoopInv, LoopOf
  <2>3. CASE /\ UNCHANGED <<clients, subs, senderVars>>
             /\ \A h \in Clients : conn'[h] = "open" => conn[h] = "open"
    BY <2>1, <2>3 DEF LabelIsCurrent, LoopInv, LoopOf, senderVars, Types, ServerTypes
  <2>4. ASSUME NEW h \in Clients, Disconnect(h) PROVE BroadcastInv'
    <3>1. /\ UNCHANGED <<clients, subs, senderVars>>
          /\ \A g \in Clients : conn'[g] = "open" => conn[g] = "open"
      BY <2>4 DEF Disconnect, Types, ServerTypes
    <3> QED BY <2>3, <3>1
  <2> QED BY <1>4, <2>2, <2>3, <2>4 DEF BroadcastControl, WriteBegin, Drain, DebounceElapsed
<1>5. CASE UNCHANGED vars
  BY <1>5 DEF vars, senderVars, Types, ServerTypes, SenderTypes, LabelIsCurrent, LoopInv, LoopOf
<1> QED BY <1>1, <1>2, <1>3, <1>4, <1>5 DEF Next

\* A server without clients and with idle threads has well-typed state.
LEMMA InitBroadcastInv == Init => BroadcastInv
BY DEF Init, BroadcastInv, Types, ServerTypes, SenderTypes, LabelIsCurrent, LoopInv, LoopOf, Senders

\* The invariant holds in every state.
LEMMA BroadcastInvariant == Spec => []BroadcastInv
<1>1. BroadcastInv /\ [Next]_vars => BroadcastInv' BY BroadcastStep
<1> QED BY <1>1, InitBroadcastInv, PTL DEF Spec

\* broadcastMessage sends every message under the id that the client is
\* subscribed with at that moment: nobody writes _clients while it holds the lock.
THEOREM LabelsCurrent == Spec => []LabelIsCurrent
<1>1. BroadcastInv => LabelIsCurrent BY DEF BroadcastInv
<1> QED BY <1>1, BroadcastInvariant, PTL

\* At the end of the loop of broadcastMessage every subscribed client with an
\* open connection and room in its buffer has the message.
THEOREM NobodyLeftOut == Spec => []EveryoneServed
<1>1. BroadcastInv => EveryoneServed
  <2> SUFFICES ASSUME BroadcastInv, NEW s \in Broadcasters, pc[s] = "next", todo[s] = {},
                      NEW h \in clients, conn[h] = "open", subs[h][job[s].chan] # NoSub
               PROVE  h \in got[s] \cup full[s]
    BY DEF EveryoneServed
  <2> QED BY DEF BroadcastInv, LoopInv, LoopOf
<1> QED BY <1>1, BroadcastInvariant, PTL

-----------------------------------------------------------------------------
(* How far a send buffer grows *)

\* Senders that passed the test of the limit for h and have not sent yet.
Pending(h) == {s \in Senders : pc[s] \in {"lookup", "write"} /\ hdl[s] = h}

Whole == Header + MaxSize
Bound == Limit + Cardinality(Senders) * Header + (Cardinality(Senders) - 1) * MaxSize

\* If the senders that passed the test all send, the buffer stays below the
\* bound.  The last one to pass, t, found room for its own payload; nothing better
\* than the largest payload is known of the others.  When t has sent, or given up,
\* the first form remains.
Committed(h) ==
    LET k == Cardinality(Pending(h))
    IN  \/ data[h] + k * Whole < Bound
        \/ \E t \in Pending(h) : data[h] + Header + job[t].size + (k - 1) * Whole < Bound

CommittedInv == \A h \in Clients : Committed(h)

\* There is a largest payload, and there is something to send and room for it.
SizesBounded ==
    /\ \E z \in Sizes : \A y \in Sizes : y <= z
    /\ Senders # {}
    /\ Limit > 0

\* The arithmetic of the test: one payload fits below the limit, k others do not
\* count.
LEMMA Margin ==
    ASSUME NEW N \in Nat, NEW H \in Nat, NEW M \in Nat, NEW L \in Nat,
           NEW d \in Nat, NEW z \in Nat, NEW k \in Nat, k + 1 <= N, d + z < L
    PROVE  d + H + z + k * (H + M) < L + N * H + (N - 1) * M
<1>1. (N - 1 - k) * (H + M) >= 0
  <2> DEFINE a == N - 1 - k
             b == H + M
  <2>1. a \in Nat /\ b \in Nat OBVIOUS
  <2> HIDE DEF a, b
  <2>2. a * b >= 0 BY <2>1
  <2> QED BY <2>2 DEF a, b
<1>2. (N - 1 - k) * (H + M) = N * H + (N - 1) * M - H - k * (H + M)
  OBVIOUS
<1>3. k * (H + M) \in Int /\ N * H + (N - 1) * M \in Int
  OBVIOUS
<1> QED BY <1>1, <1>2, <1>3

\* One sender less, and at most its message more.
LEMMA Less ==
    ASSUME NEW k \in Nat, k # 0, NEW w \in Nat, NEW d \in Nat, NEW e \in Nat, NEW x \in Nat,
           x <= w, e <= d + x
    PROVE  /\ e + (k - 1) * w <= d + k * w
           /\ e + (k - 1) * w <= d + x + (k - 1) * w
           /\ k - 1 # 0 => e + (k - 1 - 1) * w <= d + (k - 1) * w
<1>1. k * w = (k - 1) * w + w /\ (k - 1) * w = (k - 1 - 1) * w + w
  OBVIOUS
<1>2. (k - 1) * w \in Int /\ (k - 1 - 1) * w \in Int
  OBVIOUS
<1> QED BY <1>1, <1>2

\* The constants of the bound are numbers, and no payload is larger than MaxSize.
LEMMA BoundTypes ==
    ASSUME SizesBounded
    PROVE  /\ MaxSize \in Nat /\ \A z \in Sizes : z \in Nat /\ z <= MaxSize
           /\ Whole \in Nat /\ Header \in Nat /\ Limit \in Nat
           /\ IsFiniteSet(Senders) /\ Cardinality(Senders) \in Nat /\ Cardinality(Senders) # 0
           /\ Bound \in Int /\ Bound > 0
<1>1. MaxSize \in Sizes /\ \A y \in Sizes : y <= MaxSize
  BY DEF SizesBounded, MaxSize
<1>2. MaxSize \in Nat /\ Header \in Nat /\ Limit \in Nat /\ \A z \in Sizes : z \in Nat
  BY <1>1, SendingAssumption
<1>3. IsFiniteSet(Senders)
  BY SendingAssumption, FS_Union DEF Senders
<1>4. Cardinality(Senders) \in Nat /\ Cardinality(Senders) # 0
  BY <1>3, FS_CardinalityType, FS_EmptySet DEF SizesBounded
<1>5. Bound \in Int /\ Bound > 0
  <2> DEFINE N == Cardinality(Senders)
  <2>1. N \in Nat /\ N - 1 \in Nat BY <1>4
  <2> HIDE DEF N
  <2>2. N * Header >= 0 /\ (N - 1) * MaxSize >= 0 /\ N * Header \in Int /\ (N - 1) * MaxSize \in Int
    <3>1. \A a, b \in Nat : a * b \in Nat OBVIOUS
    <3> QED BY <1>2, <2>1, <3>1
  <2>3. Bound = Limit + N * Header + (N - 1) * MaxSize BY DEF Bound, N
  <2> QED BY <1>2, <2>2, <2>3 DEF SizesBounded
<1> QED BY <1>1, <1>2, <1>3, <1>4, <1>5 DEF Whole

\* Pending senders are senders with a job.
LEMMA PendingTypes ==
    ASSUME Types, SizesBounded, NEW h \in Clients
    PROVE  /\ IsFiniteSet(Pending(h)) /\ Cardinality(Pending(h)) \in Nat
           /\ Cardinality(Pending(h)) <= Cardinality(Senders)
           /\ Pending(h) = {} => Cardinality(Pending(h)) = 0
           /\ \A s \in Pending(h) : job[s].size \in Nat /\ job[s].size <= MaxSize
           /\ data[h] \in Nat
<1>1. Pending(h) \in SUBSET Senders BY DEF Pending
<1>2. IsFiniteSet(Pending(h)) /\ Cardinality(Pending(h)) <= Cardinality(Senders)
  BY <1>1, BoundTypes, FS_Subset
<1>3. \A s \in Pending(h) : job[s].size \in Nat /\ job[s].size <= MaxSize
  <2> SUFFICES ASSUME NEW s \in Pending(h)
               PROVE  job[s].size \in Nat /\ job[s].size <= MaxSize
    OBVIOUS
  <2>1. job[s].size \in Sizes BY DEF Pending, Types, SenderTypes, Jobs
  <2> QED BY <2>1, BoundTypes
<1> QED BY <1>2, <1>3, FS_CardinalityType, FS_EmptySet DEF Types, ServerTypes

\* The buffer does not grow and nobody passes the test.
LEMMA CommittedKept ==
    ASSUME Types, Types', SizesBounded, NEW h \in Clients, Committed(h),
           Pending(h)' = Pending(h), \A s \in Pending(h) : job'[s] = job[s],
           data'[h] <= data[h]
    PROVE  Committed(h)'
<1> DEFINE k == Cardinality(Pending(h))
<1>1. k \in Nat /\ data[h] \in Nat /\ data'[h] \in Nat /\ Whole \in Nat /\ Bound \in Int
      /\ Header \in Nat
  BY PendingTypes, BoundTypes DEF Types, ServerTypes
<1>2. Cardinality(Pending(h)') = k OBVIOUS
<1>3. \A s \in Pending(h) : job[s].size \in Nat BY PendingTypes
<1>4. k * Whole \in Int /\ (k - 1) * Whole \in Int BY <1>1
<1> HIDE DEF k
<1>5. CASE data[h] + k * Whole < Bound
  <2>1. data'[h] + k * Whole < Bound BY <1>1, <1>4, <1>5
  <2> QED BY <1>2, <2>1 DEF Committed, Whole, Bound, MaxSize
<1>6. ASSUME NEW t \in Pending(h), data[h] + Header + job[t].size + (k - 1) * Whole < Bound
      PROVE  Committed(h)'
  <2>1. data'[h] + Header + job'[t].size + (k - 1) * Whole < Bound BY <1>1, <1>3, <1>4, <1>6
  <2> QED BY <1>2, <2>1 DEF Committed, Whole, Bound, MaxSize
<1> QED BY <1>5, <1>6 DEF Committed, k

\* A sender passes the test: its payload fits below the limit.
LEMMA CommittedPassed ==
    ASSUME Types, Types', SizesBounded, NEW h \in Clients, NEW t \in Senders, t \notin Pending(h),
           Pending(h)' = Pending(h) \cup {t}, data'[h] = data[h],
           job'[t].size \in Nat, data[h] + job'[t].size < Limit
    PROVE  Committed(h)'
<1> DEFINE k == Cardinality(Pending(h))
           N == Cardinality(Senders)
<1>1. k \in Nat /\ data[h] \in Nat /\ Header \in Nat /\ MaxSize \in Nat /\ Limit \in Nat
      /\ N \in Nat /\ IsFiniteSet(Pending(h))
  BY PendingTypes, BoundTypes
<1>2. Cardinality(Pending(h)') = k + 1
  BY <1>1, FS_AddElement
<1>3. k + 1 <= N
  <2>1. Pending(h) \cup {t} \in SUBSET Senders BY DEF Pending
  <2>2. Cardinality(Pending(h) \cup {t}) <= N BY <2>1, BoundTypes, FS_Subset
  <2> QED BY <1>2, <2>2
<1> HIDE DEF k, N
<1>4. data[h] + Header + job'[t].size + k * (Header + MaxSize)
        < Limit + N * Header + (N - 1) * MaxSize
  BY <1>1, <1>3, Margin
<1>5. (k + 1) - 1 = k BY <1>1
<1> QED BY <1>2, <1>4, <1>5 DEF Committed, Whole, Bound, N, MaxSize

\* A sender that passed the test sends, or finds no subscription.
LEMMA CommittedSent ==
    ASSUME Types, Types', SizesBounded, NEW h \in Clients, Committed(h), NEW u \in Pending(h),
           Pending(h)' = Pending(h) \ {u}, \A s \in Pending(h) : job'[s] = job[s],
           data'[h] <= data[h] + Header + job[u].size
    PROVE  Committed(h)'
<1> DEFINE k == Cardinality(Pending(h))
           x == Header + job[u].size
<1>1. k \in Nat /\ data[h] \in Nat /\ data'[h] \in Nat /\ Whole \in Nat /\ Bound \in Int
      /\ Header \in Nat /\ MaxSize \in Nat /\ IsFiniteSet(Pending(h))
  BY PendingTypes, BoundTypes DEF Types, ServerTypes
<1>2. Cardinality(Pending(h)') = k - 1
  BY <1>1, FS_RemoveElement
<1>3. k # 0
  BY <1>1, FS_EmptySet
<1>4. \A s \in Pending(h) : job[s].size \in Nat /\ job[s].size <= MaxSize BY PendingTypes
<1>5. x \in Nat /\ x <= Whole /\ data'[h] <= data[h] + x
  BY <1>1, <1>4 DEF Whole
<1> HIDE DEF k, x
<1>6. /\ data'[h] + (k - 1) * Whole <= data[h] + k * Whole
      /\ data'[h] + (k - 1) * Whole <= data[h] + x + (k - 1) * Whole
      /\ k - 1 # 0 => data'[h] + (k - 1 - 1) * Whole <= data[h] + (k - 1) * Whole
  BY <1>1, <1>3, <1>5, Less
<1>7. k * Whole \in Int /\ (k - 1) * Whole \in Int /\ (k - 1 - 1) * Whole \in Int BY <1>1
<1>8. CASE data'[h] + (k - 1) * Whole < Bound
  BY <1>2, <1>8 DEF Committed, Whole, Bound, MaxSize
<1>9. CASE data[h] + k * Whole < Bound
  <2>1. data'[h] + (k - 1) * Whole < Bound BY <1>1, <1>6, <1>7, <1>9
  <2> QED BY <1>8, <2>1
<1>10. ASSUME NEW t \in Pending(h), data[h] + Header + job[t].size + (k - 1) * Whole < Bound
       PROVE  Committed(h)'
  <2>1. CASE t = u
    <3>1. data[h] + x + (k - 1) * Whole < Bound BY <1>1, <1>4, <1>7, <1>10, <2>1 DEF x
    <3>2. data'[h] + (k - 1) * Whole < Bound BY <1>1, <1>5, <1>6, <1>7, <3>1
    <3> QED BY <1>8, <3>2
  <2>2. CASE t # u
    <3>1. t \in Pending(h)' BY <2>2
    <3>2. k - 1 # 0
      BY <1>1, <1>2, <3>1, FS_RemoveElement, FS_EmptySet
    <3>3. data'[h] + Header + job'[t].size + (k - 1 - 1) * Whole < Bound
      BY <1>1, <1>4, <1>6, <1>7, <1>10, <3>2
    <3> QED BY <1>2, <3>1, <3>3 DEF Committed, Whole, Bound, MaxSize
  <2> QED BY <2>1, <2>2
<1> QED BY <1>9, <1>10 DEF Committed, k

\* Every step keeps what is committed below the bound.
LEMMA CommittedStep ==
    ASSUME Types, Types', SizesBounded, CommittedInv, [Next]_vars
    PROVE  CommittedInv'
<1> USE DEF CommittedInv
<1>1. CASE /\ UNCHANGED <<pc, hdl, job>>
           /\ \A h \in Clients : data'[h] <= data[h]
  <2>1. \A h \in Clients : Pending(h)' = Pending(h) BY <1>1 DEF Pending
  <2> QED BY <1>1, <2>1, CommittedKept
<1>2. ASSUME NEW s \in Senders, SenderStep(s) PROVE CommittedInv'
  <2>0. \A h \in Clients : data[h] \in Nat /\ data[h] <= data[h] BY DEF Types, ServerTypes
  <2>1. ASSUME NEW g \in Clients, SendGone(s, g) \/ SendFull(s, g) PROVE CommittedInv'
    <3>1. UNCHANGED <<pc, hdl, job, data>> BY <2>1 DEF SendGone, SendFull
    <3> QED BY <1>1, <2>0, <3>1
  <2>2. ASSUME NEW g \in Clients, SendCheck(s, g) PROVE CommittedInv'
    <3>1. /\ pc[s] = "next" /\ ~OverLimit(g, job[s].size)
          /\ pc' = [pc EXCEPT ![s] = "lookup"] /\ hdl' = [hdl EXCEPT ![s] = g]
          /\ UNCHANGED <<data, job>>
      BY <2>2 DEF SendCheck
    <3>2. \A h \in Clients \ {g} : Pending(h)' = Pending(h)
      BY <3>1 DEF Pending, Types, SenderTypes
    <3>3. Pending(g)' = Pending(g) \cup {s} /\ s \notin Pending(g)
      BY <3>1 DEF Pending, Types, SenderTypes
    <3>4. job[s].size \in Nat
      BY <3>1, SendingAssumption DEF Types, SenderTypes, Jobs
    <3>5. data[g] + job[s].size < Limit
      BY <3>1, <3>4, SendingAssumption DEF OverLimit, Types, ServerTypes
    <3>6. \A h \in Clients \ {g} : Committed(h)'
      BY <2>0, <3>1, <3>2, CommittedKept
    <3>7. Committed(g)'
      BY <3>1, <3>3, <3>4, <3>5, CommittedPassed
    <3> QED BY <3>6, <3>7
  <2>3. CASE SendLookup(s)
    <3>1. /\ pc[s] = "lookup" /\ UNCHANGED <<data, job>>
          /\ \/ pc' = [pc EXCEPT ![s] = "write"] /\ hdl' = hdl
             \/ pc' = [pc EXCEPT ![s] = "next"] /\ hdl' = [hdl EXCEPT ![s] = NoClient]
      BY <2>3 DEF SendLookup
    <3>2. CASE pc' = [pc EXCEPT ![s] = "write"] /\ hdl' = hdl
      <4>1. \A h \in Clients : Pending(h)' = Pending(h)
        BY <3>1, <3>2 DEF Pending, Types, SenderTypes
      <4> QED BY <2>0, <3>1, <4>1, CommittedKept
    <3>3. CASE pc' = [pc EXCEPT ![s] = "next"] /\ hdl' = [hdl EXCEPT ![s] = NoClient]
      <4>1. PICK g \in Clients : g = hdl[s] /\ s \in Pending(g)
        BY <3>1 DEF Pending, Types, SenderTypes
      <4>2. Pending(g)' = Pending(g) \ {s}
        BY <3>1, <3>3, <4>1 DEF Pending, Types, SenderTypes
      <4>3. \A h \in Clients \ {g} : Pending(h)' = Pending(h)
        BY <3>1, <3>3, <4>1 DEF Pending, Types, SenderTypes
      <4>4. data[g] <= data[g] + Header + job[s].size
        BY <2>0, <4>1, PendingTypes, BoundTypes
      <4>5. Committed(g)'
        BY <3>1, <4>1, <4>2, <4>4, CommittedSent
      <4>6. \A h \in Clients \ {g} : Committed(h)'
        BY <2>0, <3>1, <4>3, CommittedKept
      <4> QED BY <4>5, <4>6
    <3> QED BY <3>1, <3>2, <3>3
  <2>4. CASE SendWrite(s)
    <3>1. /\ pc[s] = "write" /\ UNCHANGED job
          /\ pc' = [pc EXCEPT ![s] = "next"] /\ hdl' = [hdl EXCEPT ![s] = NoClient]
          /\ \/ data' = data
             \/ data' = [data EXCEPT ![hdl[s]] = @ + Header + job[s].size]
      BY <2>4 DEF SendWrite
    <3>2. PICK g \in Clients : g = hdl[s] /\ s \in Pending(g)
      BY <3>1 DEF Pending, Types, SenderTypes
    <3>3. Pending(g)' = Pending(g) \ {s}
      BY <3>1, <3>2 DEF Pending, Types, SenderTypes
    <3>4. \A h \in Clients \ {g} : Pending(h)' = Pending(h) /\ data'[h] <= data[h]
      BY <2>0, <3>1, <3>2 DEF Pending, Types, SenderTypes, ServerTypes
    <3>5. job[s].size \in Nat /\ Header \in Nat
      BY <3>2, PendingTypes, BoundTypes
    <3>6. data'[g] <= data[g] + Header + job[s].size
      BY <2>0, <3>1, <3>2, <3>5 DEF Types, ServerTypes
    <3>7. Committed(g)'
      BY <3>1, <3>2, <3>3, <3>6, CommittedSent
    <3>8. \A h \in Clients \ {g} : Committed(h)'
      BY <3>1, <3>4, CommittedKept
    <3> QED BY <3>7, <3>8
  <2>5. CASE SendDone(s)
    <3>1. /\ pc[s] = "next" /\ pc' = [pc EXCEPT ![s] = "idle"] /\ UNCHANGED <<hdl, data>>
          /\ job' = [job EXCEPT ![s] = NoJob]
      BY <2>5 DEF SendDone
    <3>2. \A h \in Clients : Pending(h)' = Pending(h) /\ \A t \in Pending(h) : job'[t] = job[t]
      BY <3>1 DEF Pending, Types, SenderTypes
    <3> QED BY <2>0, <3>1, <3>2, CommittedKept
  <2> QED BY <1>2, <2>1, <2>2, <2>3, <2>4, <2>5 DEF SenderStep
<1>3. ASSUME NEW s \in Senders, NEW c, NEW z, NEW targets, Begin(s, c, z, targets)
      PROVE  CommittedInv'
  <2>1. /\ pc[s] = "idle" /\ pc' = [pc EXCEPT ![s] = "next"] /\ UNCHANGED <<hdl, data>>
        /\ job' = [job EXCEPT ![s] = [chan |-> c, size |-> z]]
    BY <1>3 DEF Begin
  <2>2. \A h \in Clients : Pending(h)' = Pending(h) /\ \A t \in Pending(h) : job'[t] = job[t]
    BY <2>1 DEF Pending, Types, SenderTypes
  <2>3. \A h \in Clients : data'[h] <= data[h] BY <2>1 DEF Types, ServerTypes
  <2> QED BY <2>2, <2>3, CommittedKept
<1>4. ASSUME NEW h \in Clients, Disconnect(h) \/ Drain(h) PROVE CommittedInv'
  <2>1. UNCHANGED <<pc, hdl, job>>
    BY <1>4 DEF Disconnect, Drain, senderVars
  <2>2. \A g \in Clients : data'[g] <= data[g]
    BY <1>4, SendingAssumption DEF Disconnect, Drain, Types, ServerTypes
  <2> QED BY <1>1, <2>1, <2>2
<1>5. CASE UNCHANGED <<pc, hdl, job, data>>
  <2>1. \A h \in Clients : data'[h] <= data[h] BY <1>5 DEF Types, ServerTypes
  <2> QED BY <1>1, <1>5, <2>1
<1> QED BY <1>2, <1>3, <1>4, <1>5
      DEF Next, vars, senderVars, BroadcastMessage, SendMessage, BroadcastControl, WriteBegin,
          WriteClients, DebounceElapsed, Senders

\* The data messages in a connection's buffer exceed sendBufferLimitBytes by less
\* than a header per thread and a payload for each thread but one: every thread
\* tests the limit before any of them sends.
THEOREM BufferBounded ==
    ASSUME SizesBounded
    PROVE  Spec => []BufferBound
<1>1. Init => CommittedInv
  <2> SUFFICES ASSUME Init, NEW h \in Clients PROVE Committed(h)
    BY DEF CommittedInv
  <2>1. Pending(h) = {} /\ data[h] = 0 BY DEF Init, Pending
  <2>2. Cardinality(Pending(h)) = 0 BY <2>1, FS_EmptySet
  <2>3. 0 + 0 * Whole < Bound BY BoundTypes
  <2> QED BY <2>1, <2>2, <2>3 DEF Committed
<1>2. Types /\ Types' /\ CommittedInv /\ [Next]_vars => CommittedInv'
  BY CommittedStep
<1>3. Types /\ CommittedInv => BufferBound
  <2> SUFFICES ASSUME Types, CommittedInv, NEW h \in Clients PROVE data[h] < Bound
    BY DEF BufferBound, Bound
  <2> DEFINE k == Cardinality(Pending(h))
  <2>1. k \in Nat /\ data[h] \in Nat /\ Whole \in Nat /\ Bound \in Int /\ Header \in Nat
        /\ \A s \in Pending(h) : job[s].size \in Nat
    BY PendingTypes, BoundTypes
  <2>2. Committed(h) BY DEF CommittedInv
  <2>3. \A a, b \in Nat : a * b \in Nat OBVIOUS
  <2>4. CASE data[h] + k * Whole < Bound
    <3>1. k * Whole \in Nat BY <2>1, <2>3
    <3> QED BY <2>1, <2>4, <3>1
  <2>5. ASSUME NEW t \in Pending(h), data[h] + Header + job[t].size + (k - 1) * Whole < Bound
        PROVE  data[h] < Bound
    <3>1. k # 0 BY PendingTypes, FS_EmptySet
    <3>2. (k - 1) * Whole \in Nat
      <4>1. k - 1 \in Nat BY <2>1, <3>1
      <4> QED BY <2>1, <2>3, <4>1
    <3> QED BY <2>1, <2>5, <3>2
  <2> QED BY <2>2, <2>4, <2>5 DEF Committed
<1>4. BroadcastInv => Types BY DEF BroadcastInv
<1> QED BY <1>1, <1>2, <1>3, <1>4, BroadcastInvariant, PTL DEF Spec
=============================================================================
