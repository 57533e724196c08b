---------------------------- MODULE GraphInterest ----------------------------
(***************************************************************************)
(* Who is interested in the connection graph: the subscription count of    *)
(* _connectionGraph, the flag subscribedToConnectionGraph of every client  *)
(* and what subscribeConnectionGraphHandler was last told.                 *)
(*                                                                         *)
(* The worker runs handleSubscribeConnectionGraph and                      *)
(* handleUnsubscribeConnectionGraph, possibly for a client that has closed *)
(* meanwhile; the io thread runs the end of handleConnectionClosed, which  *)
(* calls the handler with _connectionGraphMutex held.  A step is one       *)
(* critical section or one handler call.                                   *)
(***************************************************************************)
EXTENDS Integers, FiniteSets

CONSTANTS
    Clients,    \* connection handles
    NoClient,   \* a thread that serves no client
    MaxCount    \* bound on subscriptionCount

ASSUME GraphAssumption ==
    /\ IsFiniteSet(Clients)
    /\ NoClient \notin Clients
    /\ MaxCount \in Nat

VARIABLES
    conn,       \* the connection: "none", "open", "closed"; open = in _clients
    flagged,    \* clients with subscribedToConnectionGraph set
    count,      \* _connectionGraph.subscriptionCount
    interest,   \* what subscribeConnectionGraphHandler was last told
    graphMutex, \* the io thread holds _connectionGraphMutex across its call
    wPc, wHdl,  \* the worker and the client whose message it handles
    ioPc,       \* the io thread, at the end of handleConnectionClosed
    asked,      \* history: clients that subscribed, with the snapshot sent back
    leaked      \* history: increments of the count no flag stands for

vars == <<conn, flagged, count, interest, graphMutex, wPc, wHdl, ioPc, asked, leaked>>

Init ==
    /\ conn = [h \in Clients |-> "none"]
    /\ flagged = {}
    /\ count = 0
    /\ interest = FALSE
    /\ graphMutex = FALSE
    /\ wPc = "idle" /\ wHdl = NoClient
    /\ ioPc = "idle"
    /\ asked = {}
    /\ leaked = 0

Delivered(h) == conn[h] \in {"open", "closed"}
WorkerIdle   == wPc' = "idle" /\ wHdl' = NoClient

-----------------------------------------------------------------------------
(* worker thread *)

\* Faulty variant: every subscriber.
FirstAny(n) == n >= 1

\* subscribeToConnnectionGraph is set for the subscriber that makes the count 1.
First(n) == n = 1

\* subscriptionCount++; only the first subscriber takes the branch that calls
\* the handler and sets the flag.  The client need not be connected any more.
SubscribeCount(h) ==
    /\ wPc = "idle"
    /\ Delivered(h)
    /\ ~graphMutex
    /\ count < MaxCount
    /\ count' = count + 1
    /\ wHdl' = h
    /\ IF First(count + 1)
         THEN wPc' = "subCall" /\ UNCHANGED leaked
         ELSE wPc' = "subCopy" /\ leaked' = leaked + 1
    /\ UNCHANGED <<conn, flagged, interest, graphMutex, ioPc, asked>>

\* subscribeConnectionGraphHandler(true), which may throw.
SubscribeCall ==
    /\ wPc = "subCall"
    /\ \/ interest' = TRUE /\ wPc' = "subFlag" /\ UNCHANGED <<wHdl, leaked>>
       \/ UNCHANGED interest /\ WorkerIdle /\ leaked' = leaked + 1
    /\ UNCHANGED <<conn, flagged, count, graphMutex, ioPc, asked>>

\* _clients.at(hdl).subscribedToConnectionGraph = true; at throws if it is gone.
SubscribeFlag ==
    /\ wPc = "subFlag"
    /\ IF conn[wHdl] = "open"
         THEN flagged' = flagged \cup {wHdl} /\ wPc' = "subCopy" /\ UNCHANGED <<wHdl, leaked>>
         ELSE UNCHANGED flagged /\ WorkerIdle /\ leaked' = leaked + 1
    /\ UNCHANGED <<conn, count, interest, graphMutex, ioPc, asked>>

\* The graph is copied under the shared mutex...
SubscribeCopy ==
    /\ wPc = "subCopy"
    /\ ~graphMutex
    /\ wPc' = "subSend"
    /\ UNCHANGED <<conn, flagged, count, interest, graphMutex, wHdl, ioPc, asked, leaked>>

\* ...and sent to the client after its release.
SubscribeSend ==
    /\ wPc = "subSend"
    /\ asked' = IF conn[wHdl] = "open" THEN asked \cup {wHdl} ELSE asked
    /\ WorkerIdle
    /\ UNCHANGED <<conn, flagged, count, interest, graphMutex, ioPc, leaked>>

\* Faulty variant: the flag is not reset.
UnsubscribeFlagKept(h) ==
    /\ wPc = "idle"
    /\ conn[h] = "open"
    /\ h \in flagged
    /\ asked' = asked \ {h}
    /\ wPc' = "unsubCount" /\ wHdl' = h
    /\ UNCHANGED <<conn, flagged, count, interest, graphMutex, ioPc, leaked>>

\* handleUnsubscribeConnectionGraph resets the flag; a client without it gets an
\* error status, one that is gone an exception: nothing changes then.
UnsubscribeFlag(h) ==
    /\ wPc = "idle"
    /\ conn[h] = "open"
    /\ h \in flagged
    /\ flagged' = flagged \ {h}
    /\ asked' = asked \ {h}
    /\ wPc' = "unsubCount" /\ wHdl' = h
    /\ UNCHANGED <<conn, count, interest, graphMutex, ioPc, leaked>>

UnsubscribeCount ==
    /\ wPc = "unsubCount"
    /\ ~graphMutex
    /\ count' = count - 1
    /\ IF count - 1 = 0 THEN wPc' = "unsubCall" /\ UNCHANGED wHdl ELSE WorkerIdle
    /\ UNCHANGED <<conn, flagged, interest, graphMutex, ioPc, asked, leaked>>

\* subscribeConnectionGraphHandler(false), with no lock held.
UnsubscribeCall ==
    /\ wPc = "unsubCall"
    /\ interest' = FALSE
    /\ WorkerIdle
    /\ UNCHANGED <<conn, flagged, count, graphMutex, ioPc, asked, leaked>>

-----------------------------------------------------------------------------
(* io thread *)

\* handleConnectionOpened creates ClientInfo with the flag unset.
Open(h) ==
    /\ ioPc = "idle"
    /\ conn[h] = "none"
    /\ conn' = [conn EXCEPT ![h] = "open"]
    /\ UNCHANGED <<flagged, count, interest, graphMutex, wPc, wHdl, ioPc, asked, leaked>>

\* handleConnectionClosed reads the flag and erases the client together.
CloseErase(h) ==
    /\ ioPc = "idle"
    /\ conn[h] = "open"
    /\ conn' = [conn EXCEPT ![h] = "closed"]
    /\ flagged' = flagged \ {h}
    /\ asked' = asked \ {h}
    /\ ioPc' = IF h \in flagged THEN "closeCount" ELSE "idle"
    /\ UNCHANGED <<count, interest, graphMutex, wPc, wHdl, leaked>>

\* Faulty variant: the mutex is released before the handler is called.
CloseCountUnlock ==
    /\ ioPc = "closeCount"
    /\ ~graphMutex
    /\ count' = count - 1
    /\ ioPc' = IF count - 1 = 0 THEN "closeCall" ELSE "idle"
    /\ UNCHANGED <<conn, flagged, interest, graphMutex, wPc, wHdl, asked, leaked>>

\* Then it decrements the count, and keeps the mutex if it has to call.
CloseCount ==
    /\ ioPc = "closeCount"
    /\ ~graphMutex
    /\ count' = count - 1
    /\ IF count - 1 = 0
         THEN ioPc' = "closeCall" /\ graphMutex' = TRUE
         ELSE ioPc' = "idle" /\ UNCHANGED graphMutex
    /\ UNCHANGED <<conn, flagged, interest, wPc, wHdl, asked, leaked>>

\* subscribeConnectionGraphHandler(false) inside the critical section.
CloseCall ==
    /\ ioPc = "closeCall"
    /\ interest' = FALSE
    /\ graphMutex' = FALSE
    /\ ioPc' = "idle"
    /\ UNCHANGED <<conn, flagged, count, wPc, wHdl, asked, leaked>>

-----------------------------------------------------------------------------
WorkerStep ==
    \/ \E h \in Clients : SubscribeCount(h) \/ UnsubscribeFlag(h)
    \/ SubscribeCall \/ SubscribeFlag \/ SubscribeCopy \/ SubscribeSend
    \/ UnsubscribeCount \/ UnsubscribeCall

IoStep ==
    \/ \E h \in Clients : Open(h) \/ CloseErase(h)
    \/ CloseCount \/ CloseCall

Next == WorkerStep \/ IoStep

Spec == Init /\ [][Next]_vars

-----------------------------------------------------------------------------
(* Properties *)

\* Types; the count is never negative and only connected clients are flagged.
TypeOK ==
    /\ conn \in [Clients -> {"none", "open", "closed"}]
    /\ flagged \subseteq {h \in Clients : conn[h] = "open"}
    /\ count \in 0..MaxCount
    /\ interest \in BOOLEAN
    /\ graphMutex \in BOOLEAN
    /\ wPc \in {"idle", "subCall", "subFlag", "subCopy", "subSend", "unsubCount", "unsubCall"}
    /\ wHdl \in Clients \cup {NoClient}
    /\ wPc # "idle" => wHdl \in Clients
    /\ ioPc \in {"idle", "closeCount", "closeCall"}
    /\ asked \subseteq Clients
    /\ leaked \in Nat

One(b) == IF b THEN 1 ELSE 0

\* Every unit of the count is accounted for: a flagged client, a subscription
\* being entered, one being cancelled, or a leak.  So the unsubscribe handler
\* and the close handler never both give back the same subscription.
CountAccounts ==
    /\ TypeOK
    /\ count = Cardinality(flagged) + leaked
                 + One(wPc \in {"subCall", "subFlag", "unsubCount"})
                 + One(ioPc = "closeCount")

\* The application was told to produce updates, and not told to stop, while some
\* client is flagged: the close handler's call, made under the mutex, cannot
\* overtake the next client's subscription.  And it is asked for updates only
\* while the count is positive or the call that ends its interest is on its way.
InterestMatches ==
    /\ flagged # {} => interest
    /\ interest => count > 0 \/ wPc = "unsubCall" \/ ioPc = "closeCall"

\* websocket_server.hpp:1500-1502 answers "Client was not subscribed to
\* connection graph updates" to a client whose flag is unset: that should not
\* be a client that subscribed, got the graph back and did not unsubscribe.  The
\* flag is set for the first subscriber only (1443-1448), so the second one gets
\* no updates and cannot unsubscribe.
SubscriberIsFlagged ==
    \A h \in asked : conn[h] = "open" => h \in flagged
=============================================================================
