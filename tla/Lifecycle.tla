------------------------------ MODULE Lifecycle ------------------------------
(***************************************************************************)
(* start(), stop() and the destruction of the server.                      *)
(*                                                                         *)
(* One application thread starts, stops and destroys the server.  The run  *)
(* loop, and stop() itself through poll_one, carry out the handlers of the *)
(* connections; the worker of the callback queue runs what handleMessage   *)
(* queued.  io_service::run returns, and the service counts as stopped     *)
(* from then on, when neither acceptor nor connections are left to serve.  *)
(***************************************************************************)
EXTENDS Naturals, FiniteSets

CONSTANTS
    Clients,    \* connection handles
    MaxPolls,   \* MAX_SHUTDOWN_MS / SLEEP_MS
    MaxStarts,  \* bound on the calls of start
    MaxQueue    \* bound on the callbacks waiting for the worker

ASSUME LifecycleAssumption == {MaxPolls, MaxStarts, MaxQueue} \subseteq Nat

VARIABLES
    appPc,      \* the application thread
    listening,  \* the acceptor is open
    accepting,  \* an accept is outstanding
    loop,       \* _serverThread: "none", "running", or "ended" and not joined
    ioStopped,  \* _server.stopped()
    conn,       \* "none", "handshake", "open", "closing", "closed"
    clients,    \* keys of _clients: opened, and the close handler has not run
    listed,     \* the connections stop() copied
    polls,      \* iterations of the wait for them
    queue, busy,\* callbacks waiting, and whether the worker runs one
    tables,     \* the members declared after _handlerCallbackQueue exist
    terminated, \* std::terminate was called
    starts,     \* history: how often a run loop was started
    stopped,    \* history: stop() returned since then
    forced,     \* history: stop() used force
    backlog,    \* history: a callback was left when the destructor began
    usedDead    \* history: the worker ran a callback without the tables

net   == <<listening, accepting, loop, ioStopped>>
peers == <<conn, clients>>
work  == <<queue, busy>>
life  == <<tables, terminated>>
past  == <<starts, stopped, forced, backlog, usedDead>>
vars  == <<appPc, net, peers, listed, polls, work, life, past>>

Init ==
    /\ appPc = "idle"
    /\ listening = FALSE /\ accepting = FALSE
    /\ loop = "none" /\ ioStopped = FALSE
    /\ conn = [h \in Clients |-> "none"] /\ clients = {}
    /\ listed = {} /\ polls = 0
    /\ queue = 0 /\ busy = FALSE
    /\ tables = TRUE /\ terminated = FALSE
    /\ starts = 0 /\ stopped = TRUE
    /\ forced = FALSE /\ backlog = FALSE /\ usedDead = FALSE

Active(h) == conn[h] \in {"handshake", "open", "closing"}

-----------------------------------------------------------------------------
(* start *)

\* start() throws if there is a thread, or if listen fails; nothing changes then.
Start ==
    /\ appPc = "idle"
    /\ loop = "none" /\ ~listening
    /\ starts < MaxStarts
    /\ listening' = TRUE
    /\ appPc' = "startAccept"
    /\ UNCHANGED <<accepting, loop, ioStopped, peers, listed, polls, work, life, past>>

\* Faulty variant: the first accept is left out.
StartAcceptNot ==
    /\ appPc = "startAccept"
    /\ appPc' = "startThread"
    /\ UNCHANGED <<net, peers, listed, polls, work, life, past>>

\* start_accept, which may fail and throw; the acceptor stays open then.
StartAccept ==
    /\ appPc = "startAccept"
    /\ \/ accepting' = TRUE /\ appPc' = "startThread"
       \/ UNCHANGED accepting /\ appPc' = "idle"
    /\ UNCHANGED <<listening, loop, ioStopped, peers, listed, polls, work, life, past>>

\* The thread runs the loop; then "WebSocket server listening at ..." is logged.
StartThread ==
    /\ appPc = "startThread"
    /\ loop' = "running"
    /\ starts' = starts + 1 /\ stopped' = FALSE
    /\ appPc' = "idle"
    /\ UNCHANGED <<listening, accepting, ioStopped, peers, listed, polls, work, life, forced, backlog, usedDead>>

-----------------------------------------------------------------------------
(* stop *)

\* Faulty variant: the acceptor stays open.
ListensAfterStop == listening

\* stop_listening closes the acceptor and cancels the accept.
Listens == FALSE

\* stop() returns at once from a service that has stopped.
StopBegin ==
    /\ appPc = "idle"
    /\ forced' = FALSE
    /\ IF ioStopped
         THEN stopped' = TRUE /\ UNCHANGED <<appPc, listening, accepting>>
         ELSE /\ appPc' = "stopCopy"
              /\ listening' = Listens /\ accepting' = (accepting /\ Listens)
              /\ UNCHANGED stopped
    /\ UNCHANGED <<loop, ioStopped, peers, listed, polls, work, life, starts, backlog, usedDead>>

\* The connections of _clients are copied; without any, the wait is skipped.
StopCopy ==
    /\ appPc = "stopCopy"
    /\ listed' = clients
    /\ polls' = 0
    /\ appPc' = IF clients = {} THEN "stopJoin" ELSE "stopClose"
    /\ UNCHANGED <<net, peers, work, life, past>>

\* The closing handshake begins; a connection that is not open ignores it.
StopClose ==
    /\ appPc = "stopClose"
    /\ conn' = [h \in Clients |-> IF h \in listed /\ conn[h] = "open" THEN "closing" ELSE conn[h]]
    /\ appPc' = "stopWait"
    /\ UNCHANGED <<net, clients, listed, polls, work, life, past>>

\* Sleep and poll_one: what it may run is in RunsHandlers.
StopWait ==
    /\ appPc = "stopWait"
    /\ IF ~ioStopped /\ polls < MaxPolls
         THEN polls' = polls + 1 /\ UNCHANGED appPc
         ELSE appPc' = (IF ioStopped THEN "stopJoin" ELSE "stopTerminate") /\ UNCHANGED polls
    /\ UNCHANGED <<net, peers, listed, work, life, past>>

\* Time is up: the listed connections are terminated ...
StopTerminate ==
    /\ appPc = "stopTerminate"
    /\ conn' = [h \in Clients |-> IF h \in listed /\ Active(h) THEN "closing" ELSE conn[h]]
    /\ appPc' = "stopService"
    /\ UNCHANGED <<net, clients, listed, polls, work, life, past>>

\* ... and the service is stopped, whatever is left.
StopService ==
    /\ appPc = "stopService"
    /\ ioStopped' = TRUE
    /\ forced' = TRUE
    /\ appPc' = "stopJoin"
    /\ UNCHANGED <<listening, accepting, loop, peers, listed, polls, work, life, starts, stopped, backlog, usedDead>>

\* Faulty variant: the run loop is joined only where it had connections to close.
JoinsListed == listed # {}

\* Faulty variant: it is not joined.
JoinsNever == FALSE

\* The run loop is joined if there is one.
Joins == loop # "none"

StopJoin ==
    /\ appPc = "stopJoin"
    /\ Joins => loop # "running"
    /\ loop' = IF Joins THEN "none" ELSE loop
    /\ appPc' = "stopClear"
    /\ UNCHANGED <<listening, accepting, ioStopped, peers, listed, polls, work, life, past>>

\* _clients.clear(), with no handler told.
StopClear ==
    /\ appPc = "stopClear"
    /\ clients' = {}
    /\ listed' = {}
    /\ stopped' = TRUE
    /\ appPc' = "idle"
    /\ UNCHANGED <<net, conn, polls, work, life, starts, forced, backlog, usedDead>>

StopStep == StopCopy \/ StopClose \/ StopWait \/ StopTerminate \/ StopService \/ StopJoin \/ StopClear

-----------------------------------------------------------------------------
(* ~Server, which does nothing itself; members go in reverse order *)

\* The tables and mutexes go while the worker is still there.
DestroyTables ==
    /\ appPc = "idle"
    /\ tables /\ ~terminated
    /\ tables' = FALSE
    /\ backlog' = (queue > 0 \/ busy)
    /\ usedDead' = busy
    /\ appPc' = "destroyQueue"
    /\ UNCHANGED <<net, peers, listed, polls, work, terminated, starts, stopped, forced>>

\* The callback queue joins its worker and drops what is left.
DestroyQueue ==
    /\ appPc = "destroyQueue"
    /\ ~busy
    /\ queue' = 0
    /\ appPc' = "destroyThread"
    /\ UNCHANGED <<net, peers, listed, polls, busy, life, past>>

\* A std::thread that is still joinable calls std::terminate.
DestroyThread ==
    /\ appPc = "destroyThread"
    /\ terminated' = (loop # "none")
    /\ appPc' = "gone"
    /\ UNCHANGED <<net, peers, listed, polls, work, tables, past>>

-----------------------------------------------------------------------------
(* run loop, and stop() where it polls; clients; worker *)

RunsHandlers ==
    /\ ~ioStopped /\ ~terminated
    /\ loop = "running" \/ appPc = "stopWait"

Accept(h) ==
    /\ RunsHandlers
    /\ accepting
    /\ conn[h] = "none"
    /\ conn' = [conn EXCEPT ![h] = "handshake"]
    /\ UNCHANGED <<appPc, net, clients, listed, polls, work, life, past>>

\* validateConnection refuses a client without the subprotocol, and a client
\* that stays silent is dropped; otherwise handleConnectionOpened enters it.
Handshake(h) ==
    /\ RunsHandlers
    /\ conn[h] = "handshake"
    /\ \/ conn' = [conn EXCEPT ![h] = "closed"] /\ UNCHANGED clients
       \/ conn' = [conn EXCEPT ![h] = "open"] /\ clients' = clients \cup {h}
    /\ UNCHANGED <<appPc, net, listed, polls, work, life, past>>

\* handleMessage queues a callback.
Message(h) ==
    /\ RunsHandlers
    /\ conn[h] = "open"
    /\ appPc \notin {"destroyThread", "gone"}
    /\ queue < MaxQueue
    /\ queue' = queue + 1
    /\ UNCHANGED <<appPc, net, peers, listed, polls, busy, life, past>>

ClientLeaves(h) ==
    /\ conn[h] = "open"
    /\ conn' = [conn EXCEPT ![h] = "closing"]
    /\ UNCHANGED <<appPc, net, clients, listed, polls, work, life, past>>

\* The connection ends and handleConnectionClosed erases the client.
Close(h) ==
    /\ RunsHandlers
    /\ conn[h] = "closing"
    /\ conn' = [conn EXCEPT ![h] = "closed"]
    /\ clients' = clients \ {h}
    /\ UNCHANGED <<appPc, net, listed, polls, work, life, past>>

\* run() returns when the service was stopped or has nothing left to do.
RunEnds ==
    /\ loop = "running"
    /\ ioStopped \/ (~accepting /\ \A h \in Clients : ~Active(h))
    /\ ioStopped' = TRUE
    /\ loop' = "ended"
    /\ UNCHANGED <<appPc, listening, accepting, peers, listed, polls, work, life, past>>

WorkerTake ==
    /\ queue > 0 /\ ~busy
    /\ queue' = queue - 1
    /\ busy' = TRUE
    /\ usedDead' = (usedDead \/ ~tables)
    /\ UNCHANGED <<appPc, net, peers, listed, polls, life, starts, stopped, forced, backlog>>

WorkerDone ==
    /\ busy
    /\ busy' = FALSE
    /\ UNCHANGED <<appPc, net, peers, listed, polls, queue, life, past>>

-----------------------------------------------------------------------------
Next ==
    \/ Start \/ StartAccept \/ StartThread
    \/ StopBegin \/ StopStep
    \/ DestroyTables \/ DestroyQueue \/ DestroyThread
    \/ \E h \in Clients : Accept(h) \/ Handshake(h) \/ Message(h) \/ ClientLeaves(h) \/ Close(h)
    \/ RunEnds \/ WorkerTake \/ WorkerDone

\* Threads are scheduled; websocketpp bounds the two handshakes by timeouts.
\* Nothing makes a client leave.
Fairness ==
    /\ WF_vars(StopStep) /\ WF_vars(RunEnds)
    /\ \A h \in Clients : WF_vars(Handshake(h)) /\ WF_vars(Close(h))

Spec == Init /\ [][Next]_vars /\ Fairness

-----------------------------------------------------------------------------
(* Properties *)

Stopping == appPc \in {"stopCopy", "stopClose", "stopWait", "stopTerminate", "stopService",
                       "stopJoin", "stopClear"}

\* A client that was still in its handshake when stop() took its list.
Stray == \E h \in Clients \ listed : conn[h] = "open"

\* stop() returns: within its second, by force, or because the run loop ends by
\* itself.  The exception is a client that gets in after the list was taken
\* and stays: if the list was empty, join() (509) waits for it without bound.
StopEnds == []<>(~Stray) => (Stopping ~> ~Stopping)

\* A client that stop() drops from _clients without handleConnectionClosed, so
\* that no handler of the application hears of it, was cut off by force.
DroppedByForce == appPc = "stopClear" /\ clients # {} => forced

\* A server that listens has a run loop, unless it was started once before:
\* stop() leaves the io_service stopped, and in a second start() run() returns at
\* once although "WebSocket server listening at" is logged (555).
ListensWithLoop == appPc = "idle" /\ listening /\ loop = "ended" => starts > 1

\* A server that was stopped is destroyed without std::terminate, unless it had
\* been started twice (the second stop() returns at once and joins nothing); and
\* the worker runs no callback on destroyed tables, unless callbacks were left
\* when the destructor began: stop() does not stop the callback queue.
SafeDestruction ==
    stopped => /\ terminated => starts > 1
               /\ usedDead => backlog
=============================================================================
