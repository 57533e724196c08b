-------------------------- MODULE LifecycleProofs ---------------------------
(***************************************************************************)
(* Lifecycle, for any number of clients, starts, polls and callbacks: what *)
(* stop() leaves behind, and when the server can be destroyed.             *)
(***************************************************************************)
EXTENDS Lifecycle, TLAPS

Destroying == appPc \in {"destroyQueue", "destroyThread", "gone"}

\* The values the control state takes.
ControlTypes ==
    /\ appPc \in {"idle", "startAccept", "startThread", "stopCopy", "stopClose", "stopWait",
                  "stopTerminate", "stopService", "stopJoin", "stopClear",
                  "destroyQueue", "destroyThread", "gone"}
    /\ loop \in {"none", "running", "ended"}
    /\ starts \in Nat
    /\ queue \in Nat
    /\ conn \in [Clients -> {"none", "handshake", "open", "closing", "closed"}]
    /\ clients \subseteq Clients

\* A client in _clients has a connection, and one that the service no longer
\* serves was cut off by a stop() that has still to clear the table.
ClientsInv ==
    /\ \A h \in clients : conn[h] \in {"open", "closing"}
    /\ ioStopped /\ clients # {} => forced /\ appPc \in {"stopJoin", "stopClear"}
    /\ appPc \in {"stopJoin", "stopClear"} /\ ~ioStopped /\ loop = "none" => clients = {}

\* Where the application thread is, and what that says of acceptor and run loop.
LoopInv ==
    /\ loop = "ended" => ioStopped
    /\ appPc \in {"startAccept", "startThread"} => listening /\ loop = "none"
    /\ appPc = "startThread" => accepting
    /\ Stopping => ~listening
    /\ appPc = "stopClear" => loop = "none"

\* Before the second start: no run loop and no clients before the first one; a
\* loop that listens accepts and has not ended; and outside stop() there is no
\* loop that does not listen.
FirstStartInv ==
    /\ starts = 0 => /\ loop = "none" /\ clients = {} /\ ~ioStopped
                     /\ appPc \notin {"stopClose", "stopWait", "stopTerminate", "stopService"}
    /\ starts = 1 /\ listening => loop # "ended"
    /\ starts = 1 /\ listening /\ loop = "running" => accepting /\ ~ioStopped
    /\ starts = 1 /\ loop # "none" /\ ~Stopping => listening

\* After stop() nothing runs handlers, and after the first one there is no loop.
StoppedInv ==
    /\ stopped => loop # "running" \/ ioStopped
    /\ stopped /\ starts \in {0, 1} => loop = "none"

\* The destructor, and what is left for the worker then.
DestroyInv ==
    /\ tables => ~usedDead /\ ~Destroying
    /\ ~tables => Destroying
    /\ terminated => appPc = "gone"
    /\ terminated /\ stopped => starts \notin {0, 1}
    /\ ~tables /\ stopped /\ ~backlog => queue = 0 /\ ~busy /\ ~usedDead

LifecycleInv ==
    ControlTypes /\ ClientsInv /\ LoopInv /\ FirstStartInv /\ StoppedInv /\ DestroyInv

\* start() keeps the invariant.
LEMMA StartKeepsInv ==
    ASSUME LifecycleInv, Start \/ StartAccept \/ StartThread
    PROVE  LifecycleInv'
<1> USE DEF LifecycleInv, ControlTypes, ClientsInv, LoopInv, FirstStartInv, StoppedInv,
            DestroyInv, Destroying, Stopping, net, peers, work, life, past
<1>1. CASE Start
  BY <1>1 DEF Start
<1>2. CASE StartAccept
  BY <1>2 DEF StartAccept
<1>3. CASE StartThread
  BY <1>3 DEF StartThread
<1> QED BY <1>1, <1>2, <1>3

\* So does stop().
LEMMA StopKeepsInv ==
    ASSUME LifecycleInv, StopBegin \/ StopStep
    PROVE  LifecycleInv'
<1> USE DEF LifecycleInv, ControlTypes, ClientsInv, LoopInv, FirstStartInv, StoppedInv,
            DestroyInv, Destroying, Stopping, net, peers, work, life, past
<1>1. CASE StopBegin
  BY <1>1 DEF StopBegin, Listens
<1>2. CASE StopCopy
  BY <1>2 DEF StopCopy
<1>3. CASE StopClose
  BY <1>3 DEF StopClose
<1>4. CASE StopWait
  BY <1>4 DEF StopWait
<1>5. CASE StopTerminate
  BY <1>5 DEF StopTerminate, Active
<1>6. CASE StopService
  BY <1>6 DEF StopService
<1>7. CASE StopJoin
  BY <1>7 DEF StopJoin, Joins
<1>8. CASE StopClear
  BY <1>8 DEF StopClear
<1> QED BY <1>1, <1>2, <1>3, <1>4, <1>5, <1>6, <1>7, <1>8 DEF StopStep

\* So does the destructor.
LEMMA DestroyKeepsInv ==
    ASSUME LifecycleInv, DestroyTables \/ DestroyQueue \/ DestroyThread
    PROVE  LifecycleInv'
<1> USE DEF LifecycleInv, ControlTypes, ClientsInv, LoopInv, FirstStartInv, StoppedInv,
            DestroyInv, Destroying, Stopping, net, peers, work, life, past
<1>1. CASE DestroyTables
  <2>1. (backlog' <=> queue > 0 \/ busy) /\ (usedDead' <=> busy)
    BY <1>1, Zenon DEF DestroyTables
  <2>2. DestroyInv'
    BY <1>1, <2>1 DEF DestroyTables
  <2> QED BY <1>1, <2>2 DEF DestroyTables
<1>2. CASE DestroyQueue
  BY <1>2 DEF DestroyQueue
<1>3. CASE DestroyThread
  BY <1>3 DEF DestroyThread
<1> QED BY <1>1, <1>2, <1>3

\* So do the connections, the run loop and the worker.
LEMMA RunKeepsInv ==
    ASSUME LifecycleInv,
           \/ \E h \in Clients : Accept(h) \/ Handshake(h) \/ Message(h) \/ ClientLeaves(h) \/ Close(h)
           \/ RunEnds \/ WorkerTake \/ WorkerDone
    PROVE  LifecycleInv'
<1> USE DEF LifecycleInv, ControlTypes, ClientsInv, LoopInv, FirstStartInv, StoppedInv,
            DestroyInv, Destroying, Stopping, net, peers, work, life, past, RunsHandlers
<1>1. ASSUME NEW h \in Clients, Accept(h) PROVE LifecycleInv'
  BY <1>1 DEF Accept
<1>2. ASSUME NEW h \in Clients, Handshake(h) PROVE LifecycleInv'
  BY <1>2 DEF Handshake
<1>3. ASSUME NEW h \in Clients, Message(h) PROVE LifecycleInv'
  BY <1>3 DEF Message
<1>4. ASSUME NEW h \in Clients, ClientLeaves(h) PROVE LifecycleInv'
  BY <1>4 DEF ClientLeaves
<1>5. ASSUME NEW h \in Clients, Close(h) PROVE LifecycleInv'
  BY <1>5 DEF Close
<1>6. CASE RunEnds
  BY <1>6 DEF RunEnds, Active
<1>7. CASE WorkerTake
  <2>1. usedDead' <=> usedDead \/ ~tables
    BY <1>7, Zenon DEF WorkerTake
  <2>2. DestroyInv'
    BY <1>7, <2>1 DEF WorkerTake
  <2> QED BY <1>7, <2>2 DEF WorkerTake
<1>8. CASE WorkerDone
  BY <1>8 DEF WorkerDone
<1> QED BY <1>1, <1>2, <1>3, <1>4, <1>5, <1>6, <1>7, <1>8

\* The invariant holds in every state.
LEMMA LifecycleInvariant == Spec => []LifecycleInv
<1>1. Init => LifecycleInv
  BY DEF Init, LifecycleInv, ControlTypes, ClientsInv, LoopInv, FirstStartInv, StoppedInv,
         DestroyInv, Destroying, Stopping
<1>2. LifecycleInv /\ UNCHANGED vars => LifecycleInv'
  BY DEF vars, net, peers, work, life, past, LifecycleInv, ControlTypes, ClientsInv, LoopInv,
         FirstStartInv, StoppedInv, DestroyInv, Destroying, Stopping
<1>3. LifecycleInv /\ [Next]_vars => LifecycleInv'
  BY <1>2, StartKeepsInv, StopKeepsInv, DestroyKeepsInv, RunKeepsInv DEF Next
<1> QED BY <1>1, <1>3, PTL DEF Spec

\* stop() drops a client without its close handler only after its wait was over.
THEOREM DroppedOnlyByForce == Spec => []DroppedByForce
<1>1. LifecycleInv => DroppedByForce
  BY DEF LifecycleInv, ClientsInv, LoopInv, DroppedByForce
<1> QED BY <1>1, LifecycleInvariant, PTL

\* A server started for the first time that listens has a run loop that serves it.
THEOREM ListenerServed == Spec => []ListensWithLoop
<1>1. LifecycleInv => ListensWithLoop
  <2> SUFFICES ASSUME LifecycleInv, listening, loop = "ended" PROVE starts > 1
    BY DEF ListensWithLoop
  <2>1. starts \in Nat /\ starts # 0 /\ starts # 1
    BY DEF LifecycleInv, ControlTypes, FirstStartInv
  <2> QED BY <2>1
<1> QED BY <1>1, LifecycleInvariant, PTL

\* A server that was started once and stopped is destroyed without
\* std::terminate, and its worker touches destroyed tables only if callbacks were
\* left when the destructor began.
THEOREM DestroyedSafely == Spec => []SafeDestruction
<1>1. LifecycleInv => SafeDestruction
  <2> SUFFICES ASSUME LifecycleInv, stopped
               PROVE  (terminated => starts > 1) /\ (usedDead => backlog)
    BY DEF SafeDestruction
  <2>1. usedDead => backlog
    BY DEF LifecycleInv, DestroyInv
  <2>2. terminated => starts \in Nat /\ starts \notin {0, 1}
    BY DEF LifecycleInv, DestroyInv, ControlTypes
  <2>3. terminated => starts > 1
    BY <2>2
  <2> QED BY <2>1, <2>3
<1> QED BY <1>1, LifecycleInvariant, PTL
=============================================================================
