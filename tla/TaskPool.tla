------------------------------ MODULE TaskPool ------------------------------
(***************************************************************************)
(* What a pool of worker threads promises to the code that hands it        *)
(* callbacks: callbacks are started in the order they were accepted, each  *)
(* at most once, at most one per worker at a time, and once the pool is    *)
(* closed nothing is running and nothing is started any more.  How the     *)
(* workers sleep, wake and share the queue is left to CallbackQueue, which *)
(* is shown to implement this module.                                      *)
(***************************************************************************)
EXTENDS Sequences

CONSTANTS
    Slots,       \* the worker threads
    Callbacks,   \* the callbacks that may be handed over
    NoCallback   \* a slot that is not running anything

VARIABLES
    pending,     \* accepted and not started, oldest first
    running,     \* slot -> the callback it runs
    phase        \* "open", "closing" or "closed"

vars == <<pending, running, phase>>

Init ==
    /\ pending = <<>>
    /\ running = [s \in Slots |-> NoCallback]
    /\ phase = "open"

Accept(c) ==
    /\ pending' = Append(pending, c)
    /\ UNCHANGED <<running, phase>>

Start(s) ==
    /\ pending # <<>>
    /\ running[s] = NoCallback
    /\ phase # "closed"
    /\ running' = [running EXCEPT ![s] = Head(pending)]
    /\ pending' = Tail(pending)
    /\ UNCHANGED phase

Finish(s) ==
    /\ running[s] # NoCallback
    /\ running' = [running EXCEPT ![s] = NoCallback]
    /\ UNCHANGED <<pending, phase>>

Close ==
    /\ phase = "open"
    /\ phase' = "closing"
    /\ UNCHANGED <<pending, running>>

Closed ==
    /\ phase = "closing"
    /\ running = [s \in Slots |-> NoCallback]
    /\ phase' = "closed"
    /\ UNCHANGED <<pending, running>>

Next ==
    \/ \E c \in Callbacks : Accept(c)
    \/ \E s \in Slots : Start(s) \/ Finish(s)
    \/ Close
    \/ Closed

Spec == Init /\ [][Next]_vars
=============================================================================
