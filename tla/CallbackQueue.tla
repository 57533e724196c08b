---------------------------- MODULE CallbackQueue ----------------------------
(***************************************************************************)
(* The CallbackQueue class of callback_queue.hpp: a deque of callbacks     *)
(* guarded by _mutex, a condition variable _cv the workers sleep on, and   *)
(* the atomic flag _quit that stop() raises WITHOUT holding _mutex.        *)
(*                                                                         *)
(* Every step is one access to shared state: testing the wait predicate    *)
(* and going to sleep are two steps (the predicate is evaluated with the   *)
(* mutex held, but _quit is not protected by it), and reading the front of *)
(* the deque and removing it are two steps.                                *)
(***************************************************************************)
EXTENDS Naturals, Sequences, FiniteSets

CONSTANTS
    Workers,     \* the threads of _workerThreads
    Producers,   \* the threads that call addCallback
    Callbacks,   \* the callbacks they hand over, each at most once
    NoCallback,  \* no callback
    Nobody       \* owner of the free mutex

ASSUME WorkersAssumption == Workers # {} /\ IsFiniteSet(Workers)
ASSUME DisjointAssumption ==
    /\ Workers \cap Producers = {}
    /\ Nobody \notin Workers \cup Producers
    /\ NoCallback \notin Callbacks

VARIABLES
    quit,        \* _quit
    mutex,       \* the thread that owns _mutex
    queue,       \* _callbackQueue
    waiters,     \* the workers asleep in _cv and not yet notified
    wpc, wcb,    \* per worker: where it is in doWork, its local cb
    ppc, pcb,    \* per producer: where it is in addCallback, its argument
    spc,         \* where the caller of stop() is
    submitted,   \* history: callbacks for which addCallback was called
    pushed,      \* history: the callbacks pushed, in order
    popped       \* history: the callbacks taken by a worker, in order

workerVars   == <<wpc, wcb>>
producerVars == <<ppc, pcb, submitted>>
vars == <<quit, mutex, queue, waiters, wpc, wcb, ppc, pcb, spc, submitted, pushed, popped>>

WorkerPCs   == {"loop", "lock", "test", "block", "asleep", "check", "pop", "exec", "exited"}
ProducerPCs == {"idle", "lock", "push", "notify"}
StopPCs     == {"running", "notify", "join", "returned"}

\* The constructor: the worker threads are running, the deque is empty.
Init ==
    /\ quit = FALSE
    /\ mutex = Nobody
    /\ queue = <<>>
    /\ waiters = {}
    /\ wpc = [w \in Workers |-> "loop"]
    /\ wcb = [w \in Workers |-> NoCallback]
    /\ ppc = [p \in Producers |-> "idle"]
    /\ pcb = [p \in Producers |-> NoCallback]
    /\ spc = "running"
    /\ submitted = {}
    /\ pushed = <<>>
    /\ popped = <<>>

-----------------------------------------------------------------------------
(* doWork *)

Goto(w, l) == wpc' = [wpc EXCEPT ![w] = l]

\* while (!_quit)
WorkerLoop(w) ==
    /\ wpc[w] = "loop"
    /\ Goto(w, IF quit THEN "exited" ELSE "lock")
    /\ UNCHANGED <<quit, mutex, queue, waiters, wcb, spc, pushed, popped, producerVars>>

\* Faulty variant: the deque is used without waiting for the mutex.
WorkerLockUnguarded(w) ==
    /\ wpc[w] = "lock"
    /\ mutex' = w
    /\ Goto(w, "test")
    /\ UNCHANGED <<quit, queue, waiters, wcb, spc, pushed, popped, producerVars>>

\* std::unique_lock<std::mutex> lock(_mutex)
WorkerLock(w) ==
    /\ wpc[w] = "lock"
    /\ mutex = Nobody
    /\ mutex' = w
    /\ Goto(w, "test")
    /\ UNCHANGED <<quit, queue, waiters, wcb, spc, pushed, popped, producerVars>>

\* Faulty variant: a wait predicate that forgets _quit.
WorkerTestNoQuit(w) ==
    /\ wpc[w] = "test"
    /\ Goto(w, IF queue # <<>> THEN "check" ELSE "block")
    /\ UNCHANGED <<quit, mutex, queue, waiters, wcb, spc, pushed, popped, producerVars>>

\* The predicate of _cv.wait, evaluated with the mutex held.
WorkerTest(w) ==
    /\ wpc[w] = "test"
    /\ Goto(w, IF quit \/ queue # <<>> THEN "check" ELSE "block")
    /\ UNCHANGED <<quit, mutex, queue, waiters, wcb, spc, pushed, popped, producerVars>>

\* _cv.wait releases the mutex and goes to sleep, in one atomic step.
WorkerBlock(w) ==
    /\ wpc[w] = "block"
    /\ mutex' = Nobody
    /\ waiters' = waiters \cup {w}
    /\ Goto(w, "asleep")
    /\ UNCHANGED <<quit, queue, wcb, spc, pushed, popped, producerVars>>

\* Faulty variant: a woken worker goes on without re-acquiring the mutex.
WorkerWakeUnlocked(w) ==
    /\ wpc[w] = "asleep"
    /\ w \notin waiters
    /\ Goto(w, "test")
    /\ UNCHANGED <<quit, mutex, queue, waiters, wcb, spc, pushed, popped, producerVars>>

\* A notified worker takes the mutex again and re-evaluates the predicate.
WorkerWake(w) ==
    /\ wpc[w] = "asleep"
    /\ w \notin waiters
    /\ mutex = Nobody
    /\ mutex' = w
    /\ Goto(w, "test")
    /\ UNCHANGED <<quit, queue, waiters, wcb, spc, pushed, popped, producerVars>>

\* A condition variable may wake a sleeper although nobody notified it.
SpuriousWakeup(w) ==
    /\ w \in waiters
    /\ waiters' = waiters \ {w}
    /\ UNCHANGED <<quit, mutex, queue, wpc, wcb, spc, pushed, popped, producerVars>>

\* if (_quit) break; else if (!empty()) cb = front(): _quit is read again.
WorkerCheck(w) ==
    /\ wpc[w] = "check"
    /\ IF quit
         THEN Goto(w, "exited") /\ mutex' = Nobody /\ UNCHANGED wcb
         ELSE IF queue # <<>>
                THEN Goto(w, "pop") /\ wcb' = [wcb EXCEPT ![w] = Head(queue)] /\ UNCHANGED mutex
                ELSE Goto(w, "loop") /\ mutex' = Nobody /\ UNCHANGED wcb
    /\ UNCHANGED <<quit, queue, waiters, spc, pushed, popped, producerVars>>

\* _callbackQueue.pop_front(); lock.unlock()
WorkerPop(w) ==
    /\ wpc[w] = "pop"
    /\ queue' = Tail(queue)
    /\ popped' = Append(popped, wcb[w])
    /\ mutex' = Nobody
    /\ Goto(w, "exec")
    /\ UNCHANGED <<quit, waiters, wcb, spc, pushed, producerVars>>

\* cb() returns or throws; either way the worker goes on.
WorkerExec(w) ==
    /\ wpc[w] = "exec"
    /\ wcb' = [wcb EXCEPT ![w] = NoCallback]
    /\ Goto(w, "loop")
    /\ UNCHANGED <<quit, mutex, queue, waiters, spc, pushed, popped, producerVars>>

-----------------------------------------------------------------------------
(* addCallback *)

\* Faulty variant: the callback is not handed to the critical section.
AddCallbackLost(p, c) ==
    /\ ppc[p] = "idle"
    /\ c \notin submitted
    /\ submitted' = submitted \cup {c}
    /\ ppc' = IF quit THEN ppc ELSE [ppc EXCEPT ![p] = "lock"]
    /\ UNCHANGED <<quit, mutex, queue, waiters, pcb, spc, pushed, popped, workerVars>>

\* if (_quit) return: tested before the mutex is taken.
AddCallback(p, c) ==
    /\ ppc[p] = "idle"
    /\ c \notin submitted
    /\ submitted' = submitted \cup {c}
    /\ IF quit
         THEN UNCHANGED <<ppc, pcb>>
         ELSE /\ ppc' = [ppc EXCEPT ![p] = "lock"]
              /\ pcb' = [pcb EXCEPT ![p] = c]
    /\ UNCHANGED <<quit, mutex, queue, waiters, spc, pushed, popped, workerVars>>

AddLock(p) ==
    /\ ppc[p] = "lock"
    /\ mutex = Nobody
    /\ mutex' = p
    /\ ppc' = [ppc EXCEPT ![p] = "push"]
    /\ UNCHANGED <<quit, queue, waiters, pcb, submitted, spc, pushed, popped, workerVars>>

AddPush(p) ==
    /\ ppc[p] = "push"
    /\ queue' = Append(queue, pcb[p])
    /\ pushed' = Append(pushed, pcb[p])
    /\ ppc' = [ppc EXCEPT ![p] = "notify"]
    /\ UNCHANGED <<quit, mutex, waiters, pcb, submitted, spc, popped, workerVars>>

\* Faulty variant: push without notify_one.
AddNotifySilent(p) ==
    /\ ppc[p] = "notify"
    /\ mutex' = Nobody
    /\ ppc' = [ppc EXCEPT ![p] = "idle"]
    /\ pcb' = [pcb EXCEPT ![p] = NoCallback]
    /\ UNCHANGED <<quit, queue, waiters, submitted, spc, pushed, popped, workerVars>>

\* _cv.notify_one() wakes some sleeper, if there is one; the lock is released.
AddNotify(p) ==
    /\ ppc[p] = "notify"
    /\ IF waiters = {}
         THEN UNCHANGED waiters
         ELSE \E w \in waiters : waiters' = waiters \ {w}
    /\ mutex' = Nobody
    /\ ppc' = [ppc EXCEPT ![p] = "idle"]
    /\ pcb' = [pcb EXCEPT ![p] = NoCallback]
    /\ UNCHANGED <<quit, queue, submitted, spc, pushed, popped, workerVars>>

-----------------------------------------------------------------------------
(* stop, called by the destructor *)

\* _quit = true: an atomic store, no mutex.
StopSetQuit ==
    /\ spc = "running"
    /\ quit' = TRUE
    /\ spc' = "notify"
    /\ UNCHANGED <<mutex, queue, waiters, pushed, popped, workerVars, producerVars>>

\* _cv.notify_all(): wakes those asleep now, not those about to sleep.
StopNotifyAll ==
    /\ spc = "notify"
    /\ waiters' = {}
    /\ spc' = "join"
    /\ UNCHANGED <<quit, mutex, queue, pushed, popped, workerVars, producerVars>>

\* Faulty variant: only one of the worker threads is joined.
StopJoinFirst ==
    /\ spc = "join"
    /\ \E w \in Workers : wpc[w] = "exited"
    /\ spc' = "returned"
    /\ UNCHANGED <<quit, mutex, queue, waiters, pushed, popped, workerVars, producerVars>>

\* thread.join() for every worker thread.
StopJoin ==
    /\ spc = "join"
    /\ \A w \in Workers : wpc[w] = "exited"
    /\ spc' = "returned"
    /\ UNCHANGED <<quit, mutex, queue, waiters, pushed, popped, workerVars, producerVars>>

-----------------------------------------------------------------------------
WorkerStep(w) ==
    \/ WorkerLoop(w) \/ WorkerLock(w) \/ WorkerTest(w) \/ WorkerBlock(w)
    \/ WorkerWake(w) \/ WorkerCheck(w) \/ WorkerPop(w) \/ WorkerExec(w)

ProducerStep(p) ==
    \/ \E c \in Callbacks : AddCallback(p, c)
    \/ AddLock(p) \/ AddPush(p) \/ AddNotify(p)

StopStep == StopSetQuit \/ StopNotifyAll \/ StopJoin

Next ==
    \/ \E w \in Workers : WorkerStep(w) \/ SpuriousWakeup(w)
    \/ \E p \in Producers : ProducerStep(p)
    \/ StopStep

Spec == Init /\ [][Next]_vars

\* The scheduler runs every thread that can run, and callbacks return.  Nothing
\* forces addCallback or stop to be called, nor a spurious wakeup to happen, and
\* the mutex need not be fair.
Fairness ==
    /\ \A w \in Workers : WF_vars(WorkerStep(w))
    /\ \A p \in Producers : WF_vars(AddLock(p) \/ AddPush(p) \/ AddNotify(p))
    /\ WF_vars(StopNotifyAll \/ StopJoin)

FairSpec == Spec /\ Fairness

-----------------------------------------------------------------------------
(* Properties *)

\* Every variable holds a value of its kind: in particular only callbacks that
\* were handed to addCallback ever reach the deque or a worker.
TypeOK ==
    /\ quit \in BOOLEAN
    /\ mutex \in Workers \cup Producers \cup {Nobody}
    /\ queue \in Seq(Callbacks)
    /\ waiters \subseteq Workers
    /\ wpc \in [Workers -> WorkerPCs]
    /\ wcb \in [Workers -> Callbacks \cup {NoCallback}]
    /\ ppc \in [Producers -> ProducerPCs]
    /\ pcb \in [Producers -> Callbacks \cup {NoCallback}]
    /\ spc \in StopPCs
    /\ submitted \subseteq Callbacks
    /\ pushed \in Seq(Callbacks)
    /\ popped \in Seq(Callbacks)

WorkerHolds(w)   == wpc[w] \in {"test", "block", "check", "pop"}
ProducerHolds(p) == ppc[p] \in {"push", "notify"}

\* Whoever is between lock and unlock in doWork or addCallback owns _mutex, and
\* nobody else does: a worker that wakes up inside _cv.wait, or leaves through
\* break, keeps to it too.
CriticalSection ==
    /\ \A w \in Workers : WorkerHolds(w) <=> mutex = w
    /\ \A p \in Producers : ProducerHolds(p) <=> mutex = p

\* The callbacks the workers took, followed by those still in the deque, are
\* exactly the callbacks pushed, in the order pushed: none is lost, duplicated
\* or overtaken, with any number of workers between front() and pop_front().
TakenInOrder ==
    /\ popped \o queue = pushed
    /\ \A w \in Workers : wpc[w] = "pop" => queue # <<>> /\ wcb[w] = Head(queue)

\* notify_one suffices: before stop() is called the deque is never non-empty
\* with every worker asleep and no notification on its way.
NoLostWakeup ==
    queue # <<>> /\ ~quit =>
        \/ \E w \in Workers : w \notin waiters /\ wpc[w] # "exited"
        \/ \E p \in Producers : ppc[p] = "notify"

\* The queue implements the pool of TaskPool: accepted at push_back, started at
\* pop_front in order, and nothing runs or starts after stop() returned.
Pool == INSTANCE TaskPool WITH
    Slots   <- Workers,
    pending <- queue,
    running <- [w \in Workers |-> IF wpc[w] = "exec" THEN wcb[w] ELSE NoCallback],
    phase   <- CASE spc = "running"  -> "open"
                 [] spc = "returned" -> "closed"
                 [] OTHER            -> "closing"

ImplementsTaskPool == Pool!Spec

\* A pushed callback is eventually taken by a worker, unless stop() is called
\* first (doWork drops what is still queued then).
EveryCallbackTaken ==
    \A c \in Callbacks :
        (\E i \in DOMAIN queue : queue[i] = c)
            ~> (quit \/ ~ \E i \in DOMAIN queue : queue[i] = c)

\* stop() returns if no worker was on its way to sleep when notify_all ran:
\* nobody starts to wait once _quit is set.
StopReturnsIfAllAwake ==
    (spc = "join" /\ waiters = {} /\ \A w \in Workers : wpc[w] # "block")
        ~> spc = "returned"

\* callback_queue.hpp:51 makes _quit part of the wait predicate and :31 notifies
\* the sleepers, so stop(), which the destructor calls, should always come back
\* from join().  It does not: a worker that read _quit = false and has not yet
\* gone to sleep misses the notification, because stop() does not take _mutex.
StopReturns == spc = "notify" ~> spc = "returned"
=============================================================================
