------------------------- MODULE CallbackQueueProofs -------------------------
(***************************************************************************)
(* CallbackQueue, for any number of workers, producers and callbacks:      *)
(* type correctness, mutual exclusion, first-in-first-out delivery, no     *)
(* lost wakeup before stop(), and the implementation of TaskPool.          *)
(*                                                                         *)
(* And ParameterInterest, whose handlers a worker of that queue runs, for  *)
(* any number of clients and any set of names: what the application was    *)
(* asked for is what clients subscribe to.  The two specifications share   *)
(* no name, and no theorem speaks of both.                                 *)
(***************************************************************************)
EXTENDS CallbackQueue, ParameterInterest, SequenceTheorems, TLAPS

\* A producer inside addCallback carries the callback it was given, and a worker
\* that took one carries it while it runs: what keeps the deque well typed.
CarriesCallback ==
    /\ \A p \in Producers : ppc[p] # "idle" => pcb[p] \in Callbacks
    /\ \A w \in Workers : wpc[w] \in {"pop", "exec"} => wcb[w] \in Callbacks

TypeInv == TypeOK /\ CarriesCallback

-----------------------------------------------------------------------------
\* Every step of a worker in doWork keeps the variables well typed.
LEMMA WorkerTypeStep ==
    ASSUME TypeInv, TakenInOrder, NEW w \in Workers, WorkerStep(w) \/ SpuriousWakeup(w)
    PROVE  TypeInv'
<1> USE DEF TypeInv, TypeOK, CarriesCallback, WorkerPCs, ProducerPCs, StopPCs, Goto, producerVars
<1>1. CASE WorkerLoop(w) BY <1>1 DEF WorkerLoop
<1>2. CASE WorkerLock(w) BY <1>2 DEF WorkerLock
<1>3. CASE WorkerTest(w) BY <1>3 DEF WorkerTest
<1>4. CASE WorkerBlock(w) BY <1>4 DEF WorkerBlock
<1>5. CASE WorkerWake(w) BY <1>5 DEF WorkerWake
<1>6. CASE WorkerCheck(w)
  <2>1. queue # <<>> => Head(queue) \in Callbacks OBVIOUS
  <2>2. wcb' \in [Workers -> Callbacks \cup {NoCallback}] BY <2>1, <1>6 DEF WorkerCheck
  <2>3. \A v \in Workers : wpc'[v] \in {"pop", "exec"} => wcb'[v] \in Callbacks
    BY <2>1, <1>6 DEF WorkerCheck
  <2> QED BY <2>2, <2>3, <1>6 DEF WorkerCheck
<1>7. CASE WorkerPop(w)
  <2>1. queue' \in Seq(Callbacks)
    BY <1>7, HeadTailProperties DEF WorkerPop, TakenInOrder
  <2>2. popped' \in Seq(Callbacks) BY <1>7 DEF WorkerPop
  <2> QED BY <2>1, <2>2, <1>7 DEF WorkerPop
<1>8. CASE WorkerExec(w) BY <1>8 DEF WorkerExec
<1>9. CASE SpuriousWakeup(w) BY <1>9 DEF SpuriousWakeup
<1> QED BY <1>1, <1>2, <1>3, <1>4, <1>5, <1>6, <1>7, <1>8, <1>9 DEF WorkerStep

\* Every step of addCallback keeps the variables well typed.
LEMMA ProducerTypeStep ==
    ASSUME TypeInv, NEW p \in Producers, ProducerStep(p)
    PROVE  TypeInv'
<1> USE DEF TypeInv, TypeOK, CarriesCallback, WorkerPCs, ProducerPCs, StopPCs, workerVars
<1>1. ASSUME NEW c \in Callbacks, AddCallback(p, c) PROVE TypeInv'
  BY <1>1 DEF AddCallback
<1>2. CASE AddLock(p) BY <1>2 DEF AddLock
<1>3. CASE AddPush(p) BY <1>3 DEF AddPush
<1>4. CASE AddNotify(p) BY <1>4 DEF AddNotify
<1> QED BY <1>1, <1>2, <1>3, <1>4 DEF ProducerStep

\* Every step of stop keeps the variables well typed.
LEMMA StopTypeStep ==
    ASSUME TypeInv, StopStep
    PROVE  TypeInv'
BY DEF TypeInv, TypeOK, CarriesCallback, StopStep, StopSetQuit, StopNotifyAll, StopJoin,
       StopPCs, workerVars, producerVars

-----------------------------------------------------------------------------
(* Mutual exclusion *)

\* A worker keeps to the mutex in every step of doWork, the one that sleeps and
\* the one that wakes up included.
LEMMA WorkerExclusionStep ==
    ASSUME TypeInv, CriticalSection, NEW w \in Workers, WorkerStep(w) \/ SpuriousWakeup(w)
    PROVE  CriticalSection'
<1> USE DisjointAssumption
    DEF TypeInv, TypeOK, CriticalSection, WorkerHolds, ProducerHolds, Goto, producerVars
<1>1. CASE WorkerLoop(w) BY <1>1 DEF WorkerLoop
<1>2. CASE WorkerLock(w) BY <1>2 DEF WorkerLock
<1>3. CASE WorkerTest(w) BY <1>3 DEF WorkerTest
<1>4. CASE WorkerBlock(w) BY <1>4 DEF WorkerBlock
<1>5. CASE WorkerWake(w) BY <1>5 DEF WorkerWake
<1>6. CASE WorkerCheck(w)
  <2>1. CASE quit \/ queue = <<>>
    <3>1. mutex' = Nobody /\ ppc' = ppc BY <1>6, <2>1 DEF WorkerCheck
    <3>2. wpc' = [wpc EXCEPT ![w] = wpc'[w]] /\ wpc'[w] \in {"exited", "loop"}
      BY <1>6, <2>1 DEF WorkerCheck
    <3>3. mutex = w BY <1>6 DEF WorkerCheck
    <3> QED BY <3>1, <3>2, <3>3
  <2>2. CASE ~quit /\ queue # <<>>
    <3>1. mutex' = mutex /\ ppc' = ppc /\ wpc' = [wpc EXCEPT ![w] = "pop"]
      BY <1>6, <2>2 DEF WorkerCheck
    <3> QED BY <3>1, <1>6 DEF WorkerCheck
  <2> QED BY <2>1, <2>2
<1>7. CASE WorkerPop(w) BY <1>7 DEF WorkerPop
<1>8. CASE WorkerExec(w) BY <1>8 DEF WorkerExec
<1>9. CASE SpuriousWakeup(w) BY <1>9 DEF SpuriousWakeup
<1> QED BY <1>1, <1>2, <1>3, <1>4, <1>5, <1>6, <1>7, <1>8, <1>9 DEF WorkerStep

\* So does a producer in every step of addCallback.
LEMMA ProducerExclusionStep ==
    ASSUME TypeInv, CriticalSection, NEW p \in Producers, ProducerStep(p)
    PROVE  CriticalSection'
<1> USE DisjointAssumption
    DEF TypeInv, TypeOK, CriticalSection, WorkerHolds, ProducerHolds, workerVars
<1>1. ASSUME NEW c \in Callbacks, AddCallback(p, c) PROVE CriticalSection'
  BY <1>1 DEF AddCallback
<1>2. CASE AddLock(p) BY <1>2 DEF AddLock
<1>3. CASE AddPush(p) BY <1>3 DEF AddPush
<1>4. CASE AddNotify(p) BY <1>4 DEF AddNotify
<1> QED BY <1>1, <1>2, <1>3, <1>4 DEF ProducerStep

-----------------------------------------------------------------------------
(* Delivery order *)

\* Moving the head of one sequence to the end of another keeps their
\* concatenation: what pop_front does to the two histories.
LEMMA MoveHead ==
    ASSUME NEW S, NEW s \in Seq(S), NEW t \in Seq(S), t # <<>>
    PROVE  Append(s, Head(t)) \o Tail(t) = s \o t
OBVIOUS

\* Appending to the second part appends to the whole: what push_back does.
LEMMA AppendRight ==
    ASSUME NEW S, NEW s \in Seq(S), NEW t \in Seq(S), NEW e \in S
    PROVE  s \o Append(t, e) = Append(s \o t, e)
OBVIOUS

\* No step of a worker loses, repeats or reorders a callback: only the owner of
\* the mutex is between front() and pop_front().
LEMMA WorkerOrderStep ==
    ASSUME TypeInv, CriticalSection, TakenInOrder,
           NEW w \in Workers, WorkerStep(w) \/ SpuriousWakeup(w)
    PROVE  TakenInOrder'
<1> USE DEF TypeInv, TypeOK, TakenInOrder, Goto, producerVars
<1>1. CASE WorkerLoop(w) BY <1>1 DEF WorkerLoop
<1>2. CASE WorkerLock(w) BY <1>2 DEF WorkerLock
<1>3. CASE WorkerTest(w) BY <1>3 DEF WorkerTest
<1>4. CASE WorkerBlock(w) BY <1>4 DEF WorkerBlock
<1>5. CASE WorkerWake(w) BY <1>5 DEF WorkerWake
<1>6. CASE WorkerCheck(w) BY <1>6 DEF WorkerCheck
<1>7. CASE WorkerPop(w)
  <2>1. queue # <<>> /\ wcb[w] = Head(queue) BY <1>7 DEF WorkerPop
  <2>2. popped' \o queue' = pushed'
    BY <1>7, <2>1, MoveHead DEF WorkerPop
  <2>3. \A v \in Workers : wpc'[v] # "pop"
    BY <1>7 DEF WorkerPop, CriticalSection, WorkerHolds
  <2> QED BY <2>2, <2>3
<1>8. CASE WorkerExec(w) BY <1>8 DEF WorkerExec
<1>9. CASE SpuriousWakeup(w) BY <1>9 DEF SpuriousWakeup
<1> QED BY <1>1, <1>2, <1>3, <1>4, <1>5, <1>6, <1>7, <1>8, <1>9 DEF WorkerStep

\* Nor does a step of a producer: it pushes while no worker is at pop_front().
LEMMA ProducerOrderStep ==
    ASSUME TypeInv, CriticalSection, TakenInOrder, NEW p \in Producers, ProducerStep(p)
    PROVE  TakenInOrder'
<1> USE DEF TypeInv, TypeOK, TakenInOrder, workerVars
<1>1. ASSUME NEW c \in Callbacks, AddCallback(p, c) PROVE TakenInOrder'
  BY <1>1 DEF AddCallback
<1>2. CASE AddLock(p) BY <1>2 DEF AddLock
<1>3. CASE AddPush(p)
  <2>1. pcb[p] \in Callbacks BY <1>3 DEF AddPush, CarriesCallback
  <2> popped \o Append(queue, pcb[p]) = Append(popped \o queue, pcb[p])
    BY <2>1, AppendRight
  <2>2. popped' \o queue' = pushed' BY <1>3 DEF AddPush
  <2>3. \A w \in Workers : wpc'[w] # "pop"
    BY <1>3, DisjointAssumption DEF AddPush, CriticalSection, WorkerHolds, ProducerHolds
  <2> QED BY <2>2, <2>3
<1>4. CASE AddNotify(p) BY <1>4 DEF AddNotify
<1> QED BY <1>1, <1>2, <1>3, <1>4 DEF ProducerStep

-----------------------------------------------------------------------------
(* The inductive invariant *)

\* Typing needs the order (pop_front on a non-empty deque), the order needs the
\* mutual exclusion, and all three need that threads carry real callbacks.
IndInv == TypeInv /\ CriticalSection /\ TakenInOrder

\* The constructor establishes the invariant.
LEMMA InitIndInv == Init => IndInv
<1> SUFFICES ASSUME Init PROVE IndInv OBVIOUS
<1> USE DEF Init
<1>1. queue \in Seq(Callbacks) /\ pushed \in Seq(Callbacks) /\ popped \in Seq(Callbacks)
  OBVIOUS
<1>2. TypeInv
  BY <1>1 DEF TypeInv, TypeOK, CarriesCallback, WorkerPCs, ProducerPCs, StopPCs
<1>3. CriticalSection
  BY DisjointAssumption DEF CriticalSection, WorkerHolds, ProducerHolds
<1>4. TakenInOrder
  BY DEF TakenInOrder
<1> QED BY <1>2, <1>3, <1>4 DEF IndInv

\* Every step of doWork, addCallback and stop preserves it.
LEMMA NextIndInv == IndInv /\ [Next]_vars => IndInv'
<1> SUFFICES ASSUME IndInv, [Next]_vars PROVE IndInv' OBVIOUS
<1>1. ASSUME NEW w \in Workers, WorkerStep(w) \/ SpuriousWakeup(w) PROVE IndInv'
  BY <1>1, WorkerTypeStep, WorkerExclusionStep, WorkerOrderStep DEF IndInv
<1>2. ASSUME NEW p \in Producers, ProducerStep(p) PROVE IndInv'
  BY <1>2, ProducerTypeStep, ProducerExclusionStep, ProducerOrderStep DEF IndInv
<1>3. CASE StopStep
  <2>1. TypeInv' BY <1>3, StopTypeStep DEF IndInv
  <2>2. CriticalSection' /\ TakenInOrder'
    BY <1>3 DEF IndInv, CriticalSection, WorkerHolds, ProducerHolds, TakenInOrder,
                StopStep, StopSetQuit, StopNotifyAll, StopJoin, workerVars, producerVars
  <2> QED BY <2>1, <2>2 DEF IndInv
<1>4. CASE UNCHANGED vars
  BY <1>4 DEF vars, IndInv, TypeInv, TypeOK, CarriesCallback, CriticalSection,
              WorkerHolds, ProducerHolds, TakenInOrder
<1> QED BY <1>1, <1>2, <1>3, <1>4 DEF Next

\* doWork, addCallback and stop keep every variable of its type: only callbacks
\* given to addCallback are ever queued or run.
THEOREM TypeCorrect == Spec => []TypeOK
<1>1. IndInv => TypeOK BY DEF IndInv, TypeInv
<1> QED BY <1>1, InitIndInv, NextIndInv, PTL DEF Spec

\* The deque is only touched by the owner of _mutex, for any number of threads.
THEOREM MutualExclusion == Spec => []CriticalSection
<1>1. IndInv => CriticalSection BY DEF IndInv
<1> QED BY <1>1, InitIndInv, NextIndInv, PTL DEF Spec

\* Callbacks are taken exactly in the order in which they were pushed, none lost
\* and none repeated, for any number of workers and producers.
THEOREM FirstInFirstOut == Spec => []TakenInOrder
<1>1. IndInv => TakenInOrder BY DEF IndInv
<1> QED BY <1>1, InitIndInv, NextIndInv, PTL DEF Spec

-----------------------------------------------------------------------------
(* Wakeups *)

\* A worker goes to sleep only on an empty deque, and leaves only after _quit;
\* stop() returns only when all have left.
SleepInv ==
    /\ \A w \in Workers : wpc[w] = "block" => queue = <<>>
    /\ \A w \in Workers : wpc[w] = "exited" => quit
    /\ spc = "returned" => \A w \in Workers : wpc[w] = "exited"
    /\ NoLostWakeup

\* A step of a worker keeps SleepInv: it decides to sleep with the mutex held.
LEMMA WorkerSleepStep ==
    ASSUME IndInv, SleepInv, NEW w \in Workers, WorkerStep(w) \/ SpuriousWakeup(w)
    PROVE  SleepInv'
<1> USE DEF IndInv, TypeInv, TypeOK, SleepInv, NoLostWakeup, Goto, producerVars
<1>1. CASE WorkerLoop(w) BY <1>1 DEF WorkerLoop
<1>2. CASE WorkerLock(w) BY <1>2 DEF WorkerLock
<1>3. CASE WorkerTest(w) BY <1>3 DEF WorkerTest
<1>4. CASE WorkerBlock(w) BY <1>4 DEF WorkerBlock
<1>5. CASE WorkerWake(w) BY <1>5 DEF WorkerWake
<1>6. CASE WorkerCheck(w) BY <1>6 DEF WorkerCheck
<1>7. CASE WorkerPop(w)
  <2>1. \A v \in Workers : wpc'[v] # "block"
    BY <1>7 DEF WorkerPop, CriticalSection, WorkerHolds
  <2>2. NoLostWakeup' BY <1>7 DEF WorkerPop, TakenInOrder
  <2> QED BY <1>7, <2>1, <2>2 DEF WorkerPop
<1>8. CASE WorkerExec(w) BY <1>8 DEF WorkerExec
<1>9. CASE SpuriousWakeup(w) BY <1>9 DEF SpuriousWakeup
<1> QED BY <1>1, <1>2, <1>3, <1>4, <1>5, <1>6, <1>7, <1>8, <1>9 DEF WorkerStep

\* So does a step of a producer: what it pushes it announces before it unlocks.
LEMMA ProducerSleepStep ==
    ASSUME IndInv, SleepInv, NEW p \in Producers, ProducerStep(p)
    PROVE  SleepInv'
<1> USE DEF IndInv, TypeInv, TypeOK, SleepInv, NoLostWakeup, workerVars
<1>1. ASSUME NEW c \in Callbacks, AddCallback(p, c) PROVE SleepInv'
  BY <1>1 DEF AddCallback
<1>2. CASE AddLock(p) BY <1>2 DEF AddLock
<1>3. CASE AddPush(p)
  <2>1. \A w \in Workers : wpc[w] # "block"
    BY <1>3, DisjointAssumption DEF AddPush, CriticalSection, WorkerHolds, ProducerHolds
  <2> QED BY <1>3, <2>1 DEF AddPush
<1>4. CASE AddNotify(p)
  <2>1. \E w \in Workers : w \notin waiters'
    BY <1>4, WorkersAssumption DEF AddNotify
  <2> QED BY <1>4, <2>1 DEF AddNotify
<1> QED BY <1>1, <1>2, <1>3, <1>4 DEF ProducerStep

\* The invariant behind the wakeup theorem and the implementation theorem.
LEMMA SleepInvariant == Spec => [](IndInv /\ SleepInv)
<1>1. Init => SleepInv
  BY DEF Init, SleepInv, NoLostWakeup
<1>2. IndInv /\ SleepInv /\ [Next]_vars => SleepInv'
  <2> SUFFICES ASSUME IndInv, SleepInv, [Next]_vars PROVE SleepInv' OBVIOUS
  <2>1. CASE StopStep
    BY <2>1 DEF SleepInv, NoLostWakeup, StopStep, StopSetQuit, StopNotifyAll, StopJoin,
                workerVars, producerVars
  <2>2. CASE UNCHANGED vars
    BY <2>2 DEF vars, SleepInv, NoLostWakeup
  <2> QED BY <2>1, <2>2, WorkerSleepStep, ProducerSleepStep DEF Next
<1> QED BY <1>1, <1>2, InitIndInv, NextIndInv, PTL DEF Spec

\* Until stop() is called, queued callbacks never face a pool that is entirely
\* asleep: one notify_one per push_back is enough for any number of workers.
THEOREM WakeupNotLost == Spec => []NoLostWakeup
<1>1. SleepInv => NoLostWakeup BY DEF SleepInv
<1> QED BY <1>1, SleepInvariant, PTL

-----------------------------------------------------------------------------
(* Implementation of TaskPool *)

\* What the workers run, as the refinement mapping defines it.
Running == [w \in Workers |-> IF wpc[w] = "exec" THEN wcb[w] ELSE NoCallback]

\* Every step of the queue is a step of the abstract pool, or changes nothing of it.
LEMMA PoolStep ==
    ASSUME IndInv, SleepInv, [Next]_vars
    PROVE  [Pool!Next]_(Pool!vars)
<1> USE DEF Pool!vars
<1>1. ASSUME NEW w \in Workers, WorkerStep(w) \/ SpuriousWakeup(w)
      PROVE  [Pool!Next]_(Pool!vars)
  <2>1. CASE WorkerPop(w)
    <3>1. queue # <<>> /\ wcb[w] = Head(queue) /\ wpc[w] = "pop"
      BY <2>1 DEF WorkerPop, IndInv, TakenInOrder
    <3>2. spc # "returned" BY <3>1 DEF SleepInv
    <3>3. queue' = Tail(queue) /\ spc' = spc /\ wcb' = wcb /\ wpc' = [wpc EXCEPT ![w] = "exec"]
      BY <2>1 DEF WorkerPop, Goto
    <3>4. Running[w] = NoCallback /\ Running' = [Running EXCEPT ![w] = Head(queue)]
      BY <3>1, <3>3 DEF Running, IndInv, TypeInv, TypeOK
    <3>5. Pool!Start(w)
      BY <3>1, <3>2, <3>3, <3>4 DEF Pool!Start, Running, IndInv, TypeInv, TypeOK, StopPCs
    <3> QED BY <3>5 DEF Pool!Next
  <2>2. CASE WorkerExec(w)
    <3>1. wpc[w] = "exec" /\ wcb[w] \in Callbacks
      BY <2>2 DEF WorkerExec, IndInv, TypeInv, CarriesCallback
    <3>2. Running[w] # NoCallback /\ Running' = [Running EXCEPT ![w] = NoCallback]
      BY <2>2, <3>1, DisjointAssumption
         DEF Running, WorkerExec, Goto, IndInv, TypeInv, TypeOK
    <3>3. Pool!Finish(w)
      BY <2>2, <3>2 DEF Pool!Finish, Running, WorkerExec
    <3> QED BY <3>3 DEF Pool!Next
  <2>3. CASE WorkerLoop(w) \/ WorkerLock(w) \/ WorkerTest(w) \/ WorkerBlock(w)
               \/ WorkerWake(w) \/ WorkerCheck(w) \/ SpuriousWakeup(w)
    <3>1. queue' = queue /\ spc' = spc
      BY <2>3 DEF WorkerLoop, WorkerLock, WorkerTest, WorkerBlock, WorkerWake, WorkerCheck,
                  SpuriousWakeup
    <3>2. \A v \in Workers : /\ wpc'[v] = "exec" <=> wpc[v] = "exec"
                             /\ wpc[v] = "exec" => wcb'[v] = wcb[v]
      BY <2>3 DEF WorkerLoop, WorkerLock, WorkerTest, WorkerBlock, WorkerWake, WorkerCheck,
                  SpuriousWakeup, Goto, IndInv, TypeInv, TypeOK
    <3>3. Running' = Running BY <3>2 DEF Running
    <3> QED BY <3>1, <3>3 DEF Running
  <2> QED BY <1>1, <2>1, <2>2, <2>3 DEF WorkerStep
<1>2. ASSUME NEW p \in Producers, ProducerStep(p) PROVE [Pool!Next]_(Pool!vars)
  <2>1. CASE AddPush(p)
    <3>1. pcb[p] \in Callbacks BY <2>1 DEF AddPush, IndInv, TypeInv, CarriesCallback
    <3>2. Pool!Accept(pcb[p]) BY <2>1 DEF Pool!Accept, AddPush, workerVars
    <3> QED BY <3>1, <3>2 DEF Pool!Next
  <2>2. CASE AddLock(p) \/ AddNotify(p) \/ \E c \in Callbacks : AddCallback(p, c)
    BY <2>2 DEF AddLock, AddNotify, AddCallback, workerVars
  <2> QED BY <1>2, <2>1, <2>2 DEF ProducerStep
<1>3. CASE StopSetQuit
  <2>1. Pool!Close BY <1>3 DEF Pool!Close, StopSetQuit, workerVars
  <2> QED BY <2>1 DEF Pool!Next
<1>4. CASE StopNotifyAll
  BY <1>4 DEF StopNotifyAll, workerVars
<1>5. CASE StopJoin
  <2>1. Running = [w \in Workers |-> NoCallback] BY <1>5 DEF StopJoin, Running
  <2>2. Pool!Closed BY <1>5, <2>1 DEF Pool!Closed, StopJoin, workerVars, Running
  <2> QED BY <2>2 DEF Pool!Next
<1>6. CASE UNCHANGED vars
  BY <1>6 DEF vars
<1> QED BY <1>1, <1>2, <1>3, <1>4, <1>5, <1>6 DEF Next, StopStep

\* CallbackQueue implements TaskPool: in-order starts, at most one callback per
\* worker, and nothing started or running once stop() has returned.
THEOREM Implementation == Spec => ImplementsTaskPool
<1>1. Init => Pool!Init
  BY DEF Init, Pool!Init
<1> QED BY <1>1, PoolStep, SleepInvariant, PTL DEF Spec, ImplementsTaskPool, Pool!Spec

-----------------------------------------------------------------------------
(* parameter subscriptions *)

\* What a thread decided under the mutex and has not carried out yet is still
\* right: the worker withdraws nothing a client wants; the io thread withdraws
\* such a name only if the SUBSCRIBE call for it crosses; and names about to be
\* asked for are wanted, or the client that wanted them is being closed.
DecisionInv ==
    /\ WWithdraws \cap Subscribed = {}
    /\ IoWithdraws \cap Subscribed \subseteq crossed
    /\ Asking \subseteq Subscribed \cup (IF ioPc = "closeScan" THEN ioNames ELSE {}) \cup crossed

ParameterInv ==
    ParameterTypes /\ DecisionInv /\ SubscribedImpliesInterest /\ InterestImpliesSubscribed

\* A step of the worker changes what is subscribed only at its client.
LEMMA SubscribedChange ==
    ASSUME ParameterTypes, NEW h \in Clients, NEW names \in SUBSET Params
    PROVE  /\ params' = [params EXCEPT ![h] = @ \cup names] =>
                /\ Subscribed' = Subscribed \cup names
                /\ params' \in [Clients -> SUBSET Params]
           /\ params' = [params EXCEPT ![h] = @ \ names] =>
                /\ Subscribed' \subseteq Subscribed
                /\ Subscribed \subseteq Subscribed' \cup names
                /\ params' \in [Clients -> SUBSET Params]
           /\ params' = [params EXCEPT ![h] = {}] =>
                /\ Subscribed' \subseteq Subscribed
                /\ Subscribed \subseteq Subscribed' \cup params[h]
                /\ params' \in [Clients -> SUBSET Params]
<1> USE DEF ParameterTypes, Subscribed, isParameterSubscribed
<1>1. CASE params' = [params EXCEPT ![h] = @ \cup names]
  <2>1. params'[h] = params[h] \cup names /\ \A g \in Clients \ {h} : params'[g] = params[g]
    BY <1>1
  <2> QED BY <1>1, <2>1
<1>2. CASE params' = [params EXCEPT ![h] = @ \ names]
  <2>1. params'[h] = params[h] \ names /\ \A g \in Clients \ {h} : params'[g] = params[g]
    BY <1>2
  <2> QED BY <1>2, <2>1
<1>3. CASE params' = [params EXCEPT ![h] = {}]
  <2>1. params'[h] = {} /\ \A g \in Clients \ {h} : params'[g] = params[g]
    BY <1>3
  <2> QED BY <1>3, <2>1
<1> QED BY <1>1, <1>2, <1>3

\* Handling a message keeps the invariant.
LEMMA ParameterWorkerKeepsInv ==
    ASSUME ParameterInv, ParameterWorkerStep
    PROVE  ParameterInv'
<1> USE NoClientAssumption
    DEF ParameterInv, ParameterTypes, DecisionInv, SubscribedImpliesInterest, InterestImpliesSubscribed,
        Asking, WWithdraws, IoWithdraws, Leaving, WorkerIdle, ioVars
<1>1. ASSUME NEW h \in Clients, NEW names \in SUBSET Params, Subscribe(h, names)
      PROVE  ParameterInv'
  <2> DEFINE new == {p \in names : ~isParameterSubscribed(p)}
  <2>1. /\ Subscribed' = Subscribed \cup names /\ params' \in [Clients -> SUBSET Params]
        /\ new = names \ Subscribed
    BY <1>1, SubscribedChange DEF Subscribe, Subscribed
  <2>2. \A g \in Clients : params'[g] # {} => g \in entries'
    BY <1>1 DEF Subscribe
  <2>3. CASE new = {}
    BY <1>1, <2>1, <2>2, <2>3 DEF Subscribe
  <2>4. CASE new # {}
    BY <1>1, <2>1, <2>2, <2>4 DEF Subscribe
  <2> QED BY <2>3, <2>4
<1>2. ASSUME NEW h \in Clients, NEW names \in SUBSET Params, Unsubscribe(h, names)
      PROVE  ParameterInv'
  <2>1. /\ Subscribed' \subseteq Subscribed /\ Subscribed \subseteq Subscribed' \cup names
        /\ params' \in [Clients -> SUBSET Params]
    BY <1>2, SubscribedChange DEF Unsubscribe
  <2>2. \A g \in Clients : params'[g] # {} => g \in entries'
    BY <1>2 DEF Unsubscribe
  <2> QED BY <1>2, <2>1, <2>2 DEF Unsubscribe
<1>3. CASE params' = params /\ entries' = entries
  <2>1. Subscribed' = Subscribed
    BY <1>3 DEF Subscribed, isParameterSubscribed
  <2>2. CASE SubscribeCall
    BY <2>1, <2>2 DEF SubscribeCall
  <2>3. CASE UnsubscribeScan
    <3>1. WithoutSubscriptions(wNames) = wNames \ Subscribed
      BY DEF WithoutSubscriptions, Subscribed
    <3> QED BY <2>1, <2>3, <3>1 DEF UnsubscribeScan
  <2>4. CASE UnsubscribeCall
    BY <2>1, <2>4 DEF UnsubscribeCall
  <2> QED BY <1>1, <1>2, <2>2, <2>3, <2>4 DEF ParameterWorkerStep
<1> QED BY <1>1, <1>2, <1>3 DEF ParameterWorkerStep, SubscribeCall, UnsubscribeScan, UnsubscribeCall

\* Opening and closing connections keeps it.
LEMMA ParameterIoKeepsInv ==
    ASSUME ParameterInv, ParameterIoStep
    PROVE  ParameterInv'
<1> USE NoClientAssumption
    DEF ParameterInv, ParameterTypes, DecisionInv, SubscribedImpliesInterest, InterestImpliesSubscribed,
        Asking, WWithdraws, IoWithdraws, Leaving, IoIdle, wVars
<1>1. ASSUME NEW h \in Clients, CloseErase(h) PROVE ParameterInv'
  <2>1. /\ Subscribed' \subseteq Subscribed /\ Subscribed \subseteq Subscribed' \cup params[h]
        /\ params' \in [Clients -> SUBSET Params]
    BY <1>1, SubscribedChange DEF CloseErase
  <2>2. \A g \in Clients : params'[g] # {} => g \in entries'
    BY <1>1 DEF CloseErase
  <2> QED BY <1>1, <2>1, <2>2 DEF CloseErase
<1>2. CASE params' = params /\ entries' = entries
  <2>1. Subscribed' = Subscribed
    BY <1>2 DEF Subscribed, isParameterSubscribed
  <2>2. ASSUME NEW h \in Clients, Open(h) PROVE ParameterInv'
    BY <2>1, <2>2 DEF Open, ioVars
  <2>3. CASE CloseScan
    <3>1. WithoutSubscriptions(ioNames) = ioNames \ Subscribed
      BY DEF WithoutSubscriptions, Subscribed
    <3> QED BY <2>1, <2>3, <3>1 DEF CloseScan
  <2>4. CASE CloseCall
    BY <2>1, <2>4 DEF CloseCall
  <2> QED BY <1>1, <2>2, <2>3, <2>4 DEF ParameterIoStep
<1> QED BY <1>1, <1>2 DEF ParameterIoStep, Open, CloseScan, CloseCall

\* What the application was asked for is what clients subscribe to, in every
\* interleaving of the worker's and the close handler's decisions and calls.
THEOREM InterestIsSubscriptions == ParameterSpec => []InterestMatchesSubscriptions
<1>1. ParameterInit => ParameterInv
  BY DEF ParameterInit, ParameterInv, ParameterTypes, DecisionInv, SubscribedImpliesInterest,
         InterestImpliesSubscribed, Asking, WWithdraws, IoWithdraws, Leaving, Subscribed,
         isParameterSubscribed
<1>2. ParameterInv /\ UNCHANGED parameterVars => ParameterInv'
  BY DEF parameterVars, wVars, ioVars, ParameterInv, ParameterTypes, DecisionInv, SubscribedImpliesInterest,
         InterestImpliesSubscribed, Asking, WWithdraws, IoWithdraws, Leaving, Subscribed,
         isParameterSubscribed
<1>3. ParameterInv /\ [ParameterNext]_parameterVars => ParameterInv'
  BY <1>2, ParameterWorkerKeepsInv, ParameterIoKeepsInv DEF ParameterNext
<1>4. ParameterInv => InterestMatchesSubscriptions
  BY DEF ParameterInv, InterestMatchesSubscriptions
<1> QED BY <1>1, <1>3, <1>4, PTL DEF ParameterSpec
=============================================================================
