--------------------------- MODULE MessageSending ----------------------------
(***************************************************************************)
(* sendMessage and broadcastMessage, called by application threads while   *)
(* clients connect, subscribe, unsubscribe and close.                      *)
(*                                                                         *)
(* broadcastMessage holds _clientsMutex shared over its loop, and          *)
(* sendMessage takes it shared a second time to look up the subscription.  *)
(* A direct sendMessage holds it for the lookup only.  The limit on a      *)
(* connection's send buffer is tested before the lookup, without the       *)
(* message header.                                                         *)
(***************************************************************************)
EXTENDS Integers, FiniteSets

CONSTANTS
    Broadcasters, \* application threads that call broadcastMessage
    Directs,      \* application threads that call sendMessage
    Clients,      \* connection handles
    Channels,     \* channel ids
    SubIds,       \* subscription ids, chosen by the clients
    NoSub,        \* no subscription
    NoClient,     \* a sender between two clients
    NoRequest,    \* nobody waits to write _clients
    Sizes,        \* payload sizes
    Header,       \* size of the message header: opcode, id and timestamp
    Control,      \* size of a message with no limit: time, status, warning
    Limit,        \* sendBufferLimitBytes
    MaxControl,   \* bound on the bytes of such messages in a buffer
    WriterFirst   \* a waiting writer of a shared_mutex keeps new readers out

ASSUME SendingAssumption ==
    /\ IsFiniteSet(Broadcasters) /\ IsFiniteSet(Directs) /\ Broadcasters \cap Directs = {}
    /\ NoSub \notin SubIds /\ NoClient \notin Clients
    /\ Sizes \subseteq Nat /\ {Header, Control, Limit, MaxControl} \subseteq Nat
    /\ WriterFirst \in BOOLEAN

Senders == Broadcasters \cup Directs

VARIABLES
    conn,        \* the connection: "none", "open", "closed"
    clients,     \* keys of _clients
    subs,        \* subscriptionsByChannel of each client
    writer,      \* who waits for _clientsMutex: a request, or NoRequest
    data,        \* bytes of data messages in each connection's send buffer
    control,     \* bytes of other messages in it
    debounced,   \* the last "Send buffer limit reached" is not 2.5 s old
    pc, job,     \* each sender and the call it serves
    todo, hdl,   \* the clients left in its loop, the one in its hands
    subId,       \* the subscription id it found
    got, full    \* history: clients given the message, and refused as full

senderVars == <<pc, job, todo, hdl, subId, got, full>>
vars == <<conn, clients, subs, writer, data, control, debounced, senderVars>>

NoJob == [chan |-> "none"]

Requests ==
    [op : {"open", "close"}, h : Clients]
    \cup [op : {"unsubscribe"}, h : Clients, chan : Channels]
    \cup [op : {"subscribe"}, h : Clients, chan : Channels, id : SubIds]

Init ==
    /\ conn = [h \in Clients |-> "none"]
    /\ clients = {}
    /\ subs = [h \in Clients |-> [c \in Channels |-> NoSub]]
    /\ writer = NoRequest
    /\ data = [h \in Clients |-> 0] /\ control = [h \in Clients |-> 0]
    /\ debounced = TRUE
    /\ pc = [s \in Senders |-> "idle"]
    /\ job = [s \in Senders |-> NoJob]
    /\ todo = [s \in Senders |-> {}]
    /\ hdl = [s \in Senders |-> NoClient]
    /\ subId = [s \in Senders |-> NoSub]
    /\ got = [s \in Senders |-> {}]
    /\ full = [s \in Senders |-> {}]

-----------------------------------------------------------------------------
(* _clientsMutex.  Critical sections of a single step need no holder. *)

\* Faulty variant: the lock is given up once the loop begins.
HoldsSharedNot(s) == FALSE

\* broadcastMessage keeps the shared lock until its loop ends.
HoldsShared(s) == s \in Broadcasters /\ pc[s] # "idle"

\* Faulty variant: the lookup takes the lock exclusively.
MayReadAlone == \A s \in Senders : ~HoldsShared(s)

\* lock_shared succeeds, for a thread that reads already too, unless writers
\* come first and one waits.
MayRead == WriterFirst => writer = NoRequest

MayWrite == \A s \in Senders : ~HoldsShared(s)

-----------------------------------------------------------------------------
(* application threads *)

\* Room for one more message that is not subject to the limit.
Room(h) == control[h] + Control <= MaxControl

\* Faulty variant: the payload is not counted.
OverLimitBuffer(h, size) == data[h] + control[h] >= Limit

OverLimit(h, size) == data[h] + control[h] + size >= Limit

Begin(s, c, z, targets) ==
    /\ pc[s] = "idle"
    /\ pc' = [pc EXCEPT ![s] = "next"]
    /\ job' = [job EXCEPT ![s] = [chan |-> c, size |-> z]]
    /\ todo' = [todo EXCEPT ![s] = targets]
    /\ UNCHANGED <<conn, clients, subs, writer, data, control, debounced, hdl, subId, got, full>>

\* broadcastMessage locks and iterates over all clients.
BroadcastMessage(s, c, z) ==
    /\ MayRead
    /\ Begin(s, c, z, clients)

\* sendMessage for one client; its handle may be that of a client long gone.
SendMessage(s, h, c, z) ==
    /\ conn[h] # "none"
    /\ Begin(s, c, z, {h})

\* Faulty variant: the first client that is full ends the loop.
AfterAll(s, h) == {}

\* sendMessage returns for one client, and the loop of broadcastMessage goes on.
After(s, h) == todo[s] \ {h}

\* get_con_from_hdl finds no connection, which needs it to be closed.
SendGone(s, h) ==
    /\ pc[s] = "next"
    /\ h \in todo[s]
    /\ conn[h] = "closed"
    /\ todo' = [todo EXCEPT ![s] = After(s, h)]
    /\ UNCHANGED <<conn, clients, subs, writer, data, control, debounced, pc, job, hdl, subId, got, full>>

\* The buffer is full: a warning at most every 2.5 s, over all clients (it
\* goes into the same buffer), and return.
SendFull(s, h) ==
    /\ pc[s] = "next"
    /\ h \in todo[s]
    /\ OverLimit(h, job[s].size)
    /\ debounced' = TRUE
    /\ control' = IF ~debounced /\ conn[h] = "open" /\ Room(h)
                    THEN [control EXCEPT ![h] = @ + Control] ELSE control
    /\ full' = [full EXCEPT ![s] = @ \cup {h}]
    /\ todo' = [todo EXCEPT ![s] = After(s, h)]
    /\ UNCHANGED <<conn, clients, subs, writer, data, pc, job, hdl, subId, got>>

SendCheck(s, h) ==
    /\ pc[s] = "next"
    /\ h \in todo[s]
    /\ ~OverLimit(h, job[s].size)
    /\ hdl' = [hdl EXCEPT ![s] = h]
    /\ todo' = [todo EXCEPT ![s] = After(s, h)]
    /\ pc' = [pc EXCEPT ![s] = "lookup"]
    /\ UNCHANGED <<conn, clients, subs, writer, data, control, debounced, job, subId, got, full>>

\* The client and its subscription are looked up under the shared lock.
SendLookup(s) ==
    /\ pc[s] = "lookup"
    /\ MayRead
    /\ LET h == hdl[s]  c == job[s].chan
       IN  IF h \in clients /\ subs[h][c] # NoSub
             THEN /\ pc' = [pc EXCEPT ![s] = "write"]
                  /\ subId' = [subId EXCEPT ![s] = subs[h][c]]
                  /\ UNCHANGED hdl
             ELSE /\ pc' = [pc EXCEPT ![s] = "next"]
                  /\ hdl' = [hdl EXCEPT ![s] = NoClient]
                  /\ UNCHANGED subId
    /\ UNCHANGED <<conn, clients, subs, writer, data, control, debounced, job, todo, got, full>>

\* Header and payload are put together and sent; con->send reports a connection
\* that is not open in an error code nobody reads.
SendWrite(s) ==
    /\ pc[s] = "write"
    /\ data' = IF conn[hdl[s]] = "open" THEN [data EXCEPT ![hdl[s]] = @ + Header + job[s].size] ELSE data
    /\ got' = [got EXCEPT ![s] = @ \cup {hdl[s]}]
    /\ subId' = [subId EXCEPT ![s] = NoSub]
    /\ pc' = [pc EXCEPT ![s] = "next"]
    /\ hdl' = [hdl EXCEPT ![s] = NoClient]
    /\ UNCHANGED <<conn, clients, subs, writer, control, debounced, job, todo, full>>

\* The loop is over and the lock released.
SendDone(s) ==
    /\ pc[s] = "next"
    /\ todo[s] = {}
    /\ pc' = [pc EXCEPT ![s] = "idle"]
    /\ job' = [job EXCEPT ![s] = NoJob]
    /\ got' = [got EXCEPT ![s] = {}] /\ full' = [full EXCEPT ![s] = {}]
    /\ UNCHANGED <<conn, clients, subs, writer, data, control, debounced, todo, hdl, subId>>

SenderStep(s) ==
    \/ \E h \in Clients : SendGone(s, h) \/ SendFull(s, h) \/ SendCheck(s, h)
    \/ SendLookup(s) \/ SendWrite(s) \/ SendDone(s)

\* broadcastTime, sendStatus and removeStatus: to everyone, whatever is buffered;
\* the exception of a closed connection is caught for each client.
BroadcastControl ==
    /\ MayRead
    /\ clients # {} /\ \A h \in clients : Room(h)
    /\ control' = [h \in Clients |->
           IF h \in clients /\ conn[h] = "open" THEN control[h] + Control ELSE control[h]]
    /\ UNCHANGED <<conn, clients, subs, writer, data, debounced, senderVars>>

-----------------------------------------------------------------------------
(* worker and io thread, transport, clock *)

\* A handler is about to lock _clientsMutex exclusively.
WriteBegin(r) ==
    /\ writer = NoRequest
    /\ r.op = "open" => conn[r.h] = "none"
    /\ r.op = "close" => r.h \in clients /\ conn[r.h] = "closed"
    /\ r.op \in {"subscribe", "unsubscribe"} => conn[r.h] # "none"
    /\ writer' = r
    /\ UNCHANGED <<conn, clients, subs, data, control, debounced, senderVars>>

\* The critical sections of handleConnectionOpened, handleConnectionClosed,
\* handleSubscribe (a channel or an id in use is refused) and handleUnsubscribe.
WriteClients ==
    /\ writer # NoRequest
    /\ MayWrite
    /\ LET h == writer.h  known == writer.h \in clients
       IN  CASE writer.op = "open" ->
                  /\ clients' = clients \cup {h} /\ conn' = [conn EXCEPT ![h] = "open"]
                  /\ UNCHANGED subs
             [] writer.op = "close" ->
                  /\ clients' = clients \ {h}
                  /\ subs' = [subs EXCEPT ![h] = [c \in Channels |-> NoSub]]
                  /\ UNCHANGED conn
             [] writer.op = "subscribe" ->
                  /\ subs' = IF /\ known /\ subs[h][writer.chan] = NoSub
                                /\ \A c \in Channels : subs[h][c] # writer.id
                               THEN [subs EXCEPT ![h][writer.chan] = writer.id] ELSE subs
                  /\ UNCHANGED <<clients, conn>>
             [] writer.op = "unsubscribe" ->
                  /\ subs' = IF known THEN [subs EXCEPT ![h][writer.chan] = NoSub] ELSE subs
                  /\ UNCHANGED <<clients, conn>>
    /\ writer' = NoRequest
    /\ UNCHANGED <<data, control, debounced, senderVars>>

\* The connection breaks or is closed by its client; its buffer goes with it.
Disconnect(h) ==
    /\ conn[h] = "open"
    /\ conn' = [conn EXCEPT ![h] = "closed"]
    /\ data' = [data EXCEPT ![h] = 0] /\ control' = [control EXCEPT ![h] = 0]
    /\ UNCHANGED <<clients, subs, writer, debounced, senderVars>>

\* A message leaves the buffer for the socket.
Drain(h) ==
    /\ \/ \E z \in Sizes : /\ data[h] >= Header + z
                           /\ data' = [data EXCEPT ![h] = @ - (Header + z)]
                           /\ UNCHANGED control
       \/ control[h] >= Control /\ control' = [control EXCEPT ![h] = @ - Control] /\ UNCHANGED data
    /\ UNCHANGED <<conn, clients, subs, writer, debounced, senderVars>>

DebounceElapsed ==
    /\ debounced' = FALSE
    /\ UNCHANGED <<conn, clients, subs, writer, data, control, senderVars>>

-----------------------------------------------------------------------------
Next ==
    \/ \E s \in Senders : SenderStep(s)
    \/ \E c \in Channels, z \in Sizes :
         \/ \E s \in Broadcasters : BroadcastMessage(s, c, z)
         \/ \E s \in Directs, h \in Clients : SendMessage(s, h, c, z)
    \/ BroadcastControl
    \/ \E r \in Requests : WriteBegin(r)
    \/ WriteClients
    \/ \E h \in Clients : Disconnect(h) \/ Drain(h)
    \/ DebounceElapsed

\* Application threads that have begun a call are scheduled.
Fairness == \A s \in Senders : WF_vars(SenderStep(s))

Spec == Init /\ [][Next]_vars /\ Fairness

-----------------------------------------------------------------------------
(* Properties *)

MaxSize == CHOOSE z \in Sizes : \A y \in Sizes : y <= z

\* sendBufferLimitBytes bounds the data messages of a connection, but not
\* exactly (996): the test leaves out the header, and every thread tests before
\* any of them sends.  Each of them can add a header, and all but one a payload.
BufferBound ==
    \A h \in Clients :
        data[h] < Limit + Cardinality(Senders) * Header + (Cardinality(Senders) - 1) * MaxSize

\* The id broadcastMessage writes into the header is the client's subscription
\* to the channel at the moment the message is sent: the shared lock keeps
\* handleUnsubscribe and a new subscription under the same id out meanwhile.  (A
\* direct sendMessage has released the lock by then.)
LabelIsCurrent ==
    \A s \in Broadcasters :
        pc[s] = "write" => subs[hdl[s]][job[s].chan] = subId[s]

\* A client that is slow, gone or not subscribed costs no other client the
\* message: at the end of the loop everyone subscribed has it, unless its own
\* connection is closed or its own buffer was full.
EveryoneServed ==
    \A s \in Broadcasters :
        pc[s] = "next" /\ todo[s] = {} =>
            \A h \in clients :
                conn[h] = "open" /\ subs[h][job[s].chan] # NoSub => h \in got[s] \cup full[s]

\* broadcastMessage returns, although sendMessage locks a mutex its caller
\* holds (978, 1004) and a handler may be waiting for it: this needs a
\* shared_mutex that lets readers pass a waiting writer.
BroadcastReturns == \A s \in Senders : pc[s] # "idle" ~> pc[s] = "idle"
=============================================================================
