-------------------------- MODULE ParameterInterest --------------------------
(***************************************************************************)
(* Parameter subscriptions: _clientParamSubscriptions, the names every     *)
(* client asked for, and the names the application has been asked for      *)
(* through parameterSubscriptionHandler.                                   *)
(*                                                                         *)
(* A name is passed on when nobody subscribed to it before, and withdrawn  *)
(* when nobody does any more.  Both are decided under                      *)
(* _clientParamSubscriptionsMutex and carried out after it is released, by *)
(* the worker (client messages) and by the io thread (a client closed).    *)
(***************************************************************************)
EXTENDS FiniteSets

CONSTANTS
    Clients,   \* connection handles
    NoClient,  \* a thread that serves no client
    Params     \* parameter names

ASSUME NoClientAssumption == NoClient \notin Clients

VARIABLES
    conn,        \* the connection: "none", "open", "closed"
    entries,     \* keys of _clientParamSubscriptions
    params,      \* _clientParamSubscriptions[h]
    interest,    \* names the application has been asked for
    wPc, wHdl, wNames,      \* worker: its client, the names of the next step
    ioPc, ioHdl, ioNames,   \* io thread: likewise
    refused,     \* history: names for which the handler threw on SUBSCRIBE
    crossed      \* history: names whose two handler calls crossed

wVars  == <<wPc, wHdl, wNames>>
ioVars == <<ioPc, ioHdl, ioNames>>
parameterVars == <<conn, entries, params, interest, wVars, ioVars, refused, crossed>>

ParameterInit ==
    /\ conn = [h \in Clients |-> "none"]
    /\ entries = {}
    /\ params = [h \in Clients |-> {}]
    /\ interest = {}
    /\ wPc = "idle" /\ wHdl = NoClient /\ wNames = {}
    /\ ioPc = "idle" /\ ioHdl = NoClient /\ ioNames = {}
    /\ refused = {}
    /\ crossed = {}

\* isParameterSubscribed, for the callers that hold the mutex.
isParameterSubscribed(p) == \E h \in Clients : p \in params[h]

Delivered(h) == conn[h] \in {"open", "closed"}
WorkerIdle == wPc' = "idle" /\ wHdl' = NoClient /\ wNames' = {}
IoIdle     == ioPc' = "idle" /\ ioHdl' = NoClient /\ ioNames' = {}

\* Names a thread has decided to ask the application for, or to withdraw.
Asking      == IF wPc = "subCall" THEN wNames ELSE {}
WWithdraws  == IF wPc = "unsubCall" THEN wNames ELSE {}
IoWithdraws == IF ioPc = "closeCall" THEN ioNames ELSE {}

-----------------------------------------------------------------------------
(* worker thread *)

\* handleSubscribeParameterUpdates: the names nobody subscribes to yet are to be
\* asked for, and the client's entry is extended (and created if need be, also
\* for a client that is gone).
Subscribe(h, names) ==
    /\ wPc = "idle"
    /\ Delivered(h)
    /\ params' = [params EXCEPT ![h] = @ \cup names]
    /\ entries' = entries \cup {h}
    /\ LET new == {p \in names : ~isParameterSubscribed(p)} IN
       IF new = {}
         THEN WorkerIdle /\ UNCHANGED crossed
         ELSE /\ wPc' = "subCall" /\ wHdl' = h /\ wNames' = new
              /\ crossed' = crossed \cup (new \cap IoWithdraws)
    /\ UNCHANGED <<conn, interest, refused, ioVars>>

\* parameterSubscriptionHandler(SUBSCRIBE), which may throw.
SubscribeCall ==
    /\ wPc = "subCall"
    /\ \/ interest' = interest \cup wNames /\ UNCHANGED refused
       \/ refused' = refused \cup wNames /\ UNCHANGED interest
    /\ WorkerIdle
    /\ UNCHANGED <<conn, entries, params, crossed, ioVars>>

\* handleUnsubscribeParameterUpdates takes the names from the client's entry ...
Unsubscribe(h, names) ==
    /\ wPc = "idle"
    /\ Delivered(h)
    /\ params' = [params EXCEPT ![h] = @ \ names]
    /\ entries' = entries \cup {h}
    /\ wPc' = "unsubScan" /\ wHdl' = h /\ wNames' = names
    /\ UNCHANGED <<conn, interest, refused, crossed, ioVars>>

\* Faulty variant: names other clients still want are withdrawn too.
WithoutSubscriptionsAll(names) == names

\* unsubscribeParamsWithoutSubscriptions: what nobody subscribes to any more.
WithoutSubscriptions(names) == {p \in names : ~isParameterSubscribed(p)}

\* ... and a second critical section decides which to withdraw.
UnsubscribeScan ==
    /\ wPc = "unsubScan"
    /\ LET gone == WithoutSubscriptions(wNames) IN
       IF gone = {}
         THEN WorkerIdle
         ELSE wPc' = "unsubCall" /\ wNames' = gone /\ UNCHANGED wHdl
    /\ UNCHANGED <<conn, entries, params, interest, refused, crossed, ioVars>>

\* parameterSubscriptionHandler(UNSUBSCRIBE); exceptions are caught.
UnsubscribeCall ==
    /\ wPc = "unsubCall"
    /\ interest' = interest \ wNames
    /\ WorkerIdle
    /\ UNCHANGED <<conn, entries, params, refused, crossed, ioVars>>

-----------------------------------------------------------------------------
(* io thread *)

Open(h) ==
    /\ ioPc = "idle"
    /\ conn[h] = "none"
    /\ conn' = [conn EXCEPT ![h] = "open"]
    /\ UNCHANGED <<entries, params, interest, refused, crossed, wVars, ioVars>>

\* handleConnectionClosed copies the client's names and erases its entry ...
CloseErase(h) ==
    /\ ioPc = "idle"
    /\ conn[h] = "open"
    /\ conn' = [conn EXCEPT ![h] = "closed"]
    /\ params' = [params EXCEPT ![h] = {}]
    /\ entries' = entries \ {h}
    /\ ioPc' = "closeScan" /\ ioHdl' = h /\ ioNames' = params[h]
    /\ UNCHANGED <<interest, refused, crossed, wVars>>

\* ... decides in a second critical section which names to withdraw ...
CloseScan ==
    /\ ioPc = "closeScan"
    /\ LET gone == WithoutSubscriptions(ioNames) IN
       IF gone = {}
         THEN IoIdle /\ UNCHANGED crossed
         ELSE /\ ioPc' = "closeCall" /\ ioNames' = gone /\ UNCHANGED ioHdl
              /\ crossed' = crossed \cup (gone \cap Asking)
    /\ UNCHANGED <<conn, entries, params, interest, refused, wVars>>

\* ... and calls the handler with no lock held.
CloseCall ==
    /\ ioPc = "closeCall"
    /\ interest' = interest \ ioNames
    /\ IoIdle
    /\ UNCHANGED <<conn, entries, params, refused, crossed, wVars>>

-----------------------------------------------------------------------------
ParameterWorkerStep ==
    \/ \E h \in Clients, names \in SUBSET Params : Subscribe(h, names) \/ Unsubscribe(h, names)
    \/ SubscribeCall \/ UnsubscribeScan \/ UnsubscribeCall

ParameterIoStep ==
    \/ \E h \in Clients : Open(h) \/ CloseErase(h)
    \/ CloseScan \/ CloseCall

ParameterNext == ParameterWorkerStep \/ ParameterIoStep

ParameterSpec == ParameterInit /\ [][ParameterNext]_parameterVars

-----------------------------------------------------------------------------
(* Properties *)

\* Types; a client without an entry has no names.
ParameterTypes ==
    /\ conn \in [Clients -> {"none", "open", "closed"}]
    /\ entries \subseteq Clients
    /\ params \in [Clients -> SUBSET Params]
    /\ \A h \in Clients : params[h] # {} => h \in entries
    /\ interest \subseteq Params
    /\ wPc \in {"idle", "subCall", "unsubScan", "unsubCall"}
    /\ wHdl \in Clients \cup {NoClient}
    /\ wNames \subseteq Params
    /\ ioPc \in {"idle", "closeScan", "closeCall"}
    /\ ioHdl \in Clients \cup {NoClient}
    /\ ioNames \subseteq Params
    /\ refused \subseteq Params
    /\ crossed \subseteq Params

Subscribed == {p \in Params : isParameterSubscribed(p)}

\* A name some client subscribes to has been asked for and not withdrawn, as
\* long as the application did not refuse it and no SUBSCRIBE and UNSUBSCRIBE
\* call for it were on their way at the same time: one client leaving never
\* withdraws what another one still wants.
SubscribedImpliesInterest ==
    Subscribed \subseteq interest \cup Asking \cup refused \cup crossed

\* Names waiting for the scan that decides whether they are withdrawn.
Leaving ==
    (IF wPc = "unsubScan" THEN wNames ELSE {}) \cup (IF ioPc = "closeScan" THEN ioNames ELSE {})

\* A name the application has been asked for is wanted by a client, or its
\* withdrawal is under way, unless its calls crossed.
InterestImpliesSubscribed ==
    interest \subseteq Subscribed \cup Leaving \cup WWithdraws \cup IoWithdraws \cup crossed

\* What the application was asked for is what clients subscribe to, whatever the
\* worker and the close handler decide under the mutex and carry out after it.
\* The exception are names whose SUBSCRIBE and UNSUBSCRIBE calls crossed (1190):
\* 1401, "Only consider parameters that are not subscribed yet", then never asks
\* for them again.
InterestMatchesSubscriptions == ParameterTypes /\ SubscribedImpliesInterest /\ InterestImpliesSubscribed
=============================================================================
