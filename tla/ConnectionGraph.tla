--------------------------- MODULE ConnectionGraph ---------------------------
(***************************************************************************)
(* The contents of the connection graph: updateConnectionGraph computes    *)
(* what changed under _connectionGraphMutex and sends it afterwards to the *)
(* flagged clients, while handleSubscribeConnectionGraph sends a copy of   *)
(* the whole graph to a new subscriber.  Composed with GraphInterest, which*)
(* says who is flagged; view is what a client makes of the messages.       *)
(***************************************************************************)
EXTENDS GraphInterest

CONSTANTS
    Updaters,   \* application threads that call updateConnectionGraph
    Names,      \* names of topics and of services
    Ids,        \* a set of publisher, subscriber or provider ids
    Absent,     \* no such name in the map
    Graphs,     \* the graphs the application may give
    MaxUpdates  \* bound on the number of updates

Maps  == [Names -> Ids \cup {Absent}]
Roles == {"published", "subscribed", "services"}
Empty == [r \in Roles |-> [n \in Names |-> Absent]]

ASSUME ContentsAssumption ==
    /\ Absent \notin Ids
    /\ Graphs \subseteq [Roles -> Maps]
    /\ MaxUpdates \in Nat

VARIABLES
    graph,      \* the three maps of _connectionGraph
    version,    \* history: how many times the graph was replaced
    diff,       \* updater -> the message it is about to send, or NoDiff
    copy,       \* the worker's copy of the graph, with its version
    closing,    \* open clients whose connection no longer takes messages
    view,       \* client -> the graph it knows
    latest,     \* history: the newest version whose diff was sent
    disordered  \* history: clients that got a message older than that

contents == <<graph, version, diff, copy, closing, view, latest, disordered>>

NoDiff == [changed |-> Empty, removedTopics |-> {}, removedServices |-> {}, version |-> 0]

InitContents ==
    /\ graph = Empty
    /\ version = 0
    /\ diff = [u \in Updaters |-> NoDiff]
    /\ copy = NoDiff
    /\ closing = {}
    /\ view = [h \in Clients |-> Empty]
    /\ latest = 0
    /\ disordered = {}

-----------------------------------------------------------------------------
(* The difference of two graphs *)

Named(map)    == {n \in Names : map[n] # Absent}
TopicNames(g) == Named(g["published"]) \cup Named(g["subscribed"])

\* Faulty variant: a name the graph has already is never sent again.
ChangedNew(old, new) ==
    [r \in Roles |-> [n \in Names |-> IF old[r][n] # Absent THEN Absent ELSE new[r][n]]]

\* publisherDiff, subscriberDiff and servicesDiff: new names and names with
\* other ids than before.
Changed(old, new) ==
    [r \in Roles |-> [n \in Names |-> IF new[r][n] = old[r][n] THEN Absent ELSE new[r][n]]]

\* A topic is removed when it is neither published nor subscribed any more: one
\* that keeps either role is in no list of the message.
Diff(old, new, v) ==
    [changed |-> Changed(old, new),
     removedTopics |-> TopicNames(old) \ TopicNames(new),
     removedServices |-> Named(old["services"]) \ Named(new["services"]),
     version |-> v]

SameContents(d) ==
    d.changed = Empty /\ d.removedTopics = {} /\ d.removedServices = {}

\* The message lists the name n in the role r, or removes it.
Mentions(m, r, n) ==
    \/ m.changed[r][n] # Absent
    \/ n \in IF r = "services" THEN m.removedServices ELSE m.removedTopics

\* What a client does with a message: it enters the names listed and drops the
\* ones removed.
Applied(known, m) ==
    [r \in Roles |-> [n \in Names |->
        IF Mentions(m, r, n) THEN m.changed[r][n] ELSE known[r][n]]]

\* Messages reach a client in the order they are sent.
Show(hs, m) ==
    /\ view' = [h \in Clients |-> IF h \in hs THEN Applied(view[h], m) ELSE view[h]]
    /\ disordered' = IF m.version < latest THEN disordered \cup hs ELSE disordered

-----------------------------------------------------------------------------
(* application threads *)

\* updateConnectionGraph compares and stores under the mutex; it returns if
\* nothing changed.
Update(u, g) ==
    /\ diff[u] = NoDiff
    /\ ~graphMutex
    /\ version < MaxUpdates
    /\ version' = version + 1
    /\ graph' = g
    /\ LET d == Diff(graph, g, version + 1)
       IN  diff' = [diff EXCEPT ![u] = IF SameContents(d) THEN NoDiff ELSE d]
    /\ UNCHANGED <<copy, closing, view, latest, disordered>>
    /\ UNCHANGED vars

\* Then it sends to the flagged clients under _clientsMutex.  A send to a
\* closing connection throws out of the loop, and what comes after it in the
\* order of _clients gets nothing.
UpdateSend(u) ==
    /\ diff[u] # NoDiff
    /\ \E reached \in SUBSET (flagged \ closing) :
         /\ flagged \cap closing = {} => reached = flagged
         /\ Show(reached, diff[u])
    /\ diff' = [diff EXCEPT ![u] = NoDiff]
    /\ latest' = IF diff[u].version > latest THEN diff[u].version ELSE latest
    /\ UNCHANGED <<graph, version, copy, closing>>
    /\ UNCHANGED vars

-----------------------------------------------------------------------------
(* worker and io thread *)

CopyGraph ==
    /\ SubscribeCopy
    /\ copy' = [NoDiff EXCEPT !.changed = graph, !.version = version]
    /\ UNCHANGED <<graph, version, diff, closing, view, latest, disordered>>

\* sendJsonRaw catches the exception of a closing connection.
SendGraph ==
    /\ SubscribeSend
    /\ Show({wHdl} \cap {h \in Clients \ closing : conn[h] = "open"}, copy)
    /\ copy' = NoDiff
    /\ UNCHANGED <<graph, version, diff, closing, latest>>

\* What a client that unsubscribed or closed knows is no longer looked at.
Forget(h) ==
    /\ UnsubscribeFlag(h) \/ CloseErase(h)
    /\ view' = [view EXCEPT ![h] = Empty]
    /\ disordered' = disordered \ {h}
    /\ closing' = IF conn'[h] = "closed" THEN closing \ {h} ELSE closing
    /\ UNCHANGED <<graph, version, diff, copy, latest>>

\* The connection starts to close; the close handler has not run yet.
Closing(h) ==
    /\ conn[h] = "open"
    /\ closing' = closing \cup {h}
    /\ UNCHANGED <<graph, version, diff, copy, view, latest, disordered>>
    /\ UNCHANGED vars

InterestStep ==
    /\ \/ \E h \in Clients : SubscribeCount(h) \/ Open(h)
       \/ SubscribeCall \/ SubscribeFlag
       \/ UnsubscribeCount \/ UnsubscribeCall
       \/ CloseCount \/ CloseCall
    /\ UNCHANGED contents

GraphNext ==
    \/ \E u \in Updaters : UpdateSend(u) \/ \E g \in Graphs : Update(u, g)
    \/ CopyGraph \/ SendGraph
    \/ \E h \in Clients : Forget(h) \/ Closing(h)
    \/ InterestStep

GraphInit == Init /\ InitContents

GraphSpec == GraphInit /\ [][GraphNext]_<<vars, contents>>

-----------------------------------------------------------------------------
(* Properties *)

\* At most one client is ever flagged: subscribedToConnectionGraph is set only
\* as the count becomes 1 (1443), and every flag is counted.  So the exception
\* that leaves the loop of updateConnectionGraph (1151) costs no other client
\* its update.
OneFlagged == Cardinality(flagged) <= 1

Settled(h) ==
    wHdl # h /\ h \notin closing /\ \A u \in Updaters : diff[u] = NoDiff

\* Once all messages are out, a flagged client that got them in order knows
\* the services and topics of the graph, with their ids.  The one thing it may
\* still believe is a role that a topic gave up while it kept the other one:
\* removedTopics does not name such a topic (1125-1129).
ViewIsGraph ==
    \A h \in flagged \ disordered : Settled(h) =>
        /\ view[h]["services"] = graph["services"]
        /\ TopicNames(view[h]) = TopicNames(graph)
        /\ \A r \in {"published", "subscribed"} : \A n \in Named(graph[r]) :
               view[h][r][n] = graph[r][n]
=============================================================================
