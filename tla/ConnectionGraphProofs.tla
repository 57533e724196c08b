------------------------ MODULE ConnectionGraphProofs ------------------------
(***************************************************************************)
(* GraphInterest and ConnectionGraph, for any number of clients, updating  *)
(* threads and names: the count of subscriptions accounts for every flag,  *)
(* the application's interest follows the flags, at most one client is     *)
(* flagged, and what that client makes of the messages is the graph.       *)
(***************************************************************************)
EXTENDS ConnectionGraph, FiniteSetTheorems, TLAPS

-----------------------------------------------------------------------------
(* Who is interested *)

\* The first subscriber is entered while nobody is flagged; the mutex is held
\* exactly across the call of the close handler; a thread that is about to end
\* the interest of the application has seen the count become 0, which it stays.
InterestInv ==
    /\ CountAccounts
    /\ InterestMatches
    /\ graphMutex <=> ioPc = "closeCall"
    /\ wPc \in {"subCall", "subFlag"} => flagged = {} /\ leaked = 0
    /\ wPc = "subFlag" => interest
    /\ wPc = "unsubCall" => count = 0
    /\ ioPc = "closeCall" => count = 0
    /\ \A h, k \in flagged : h = k

\* The flagged clients are finitely many, and how their number changes.
LEMMA FlaggedCard ==
    ASSUME TypeOK
    PROVE  /\ IsFiniteSet(flagged) /\ Cardinality(flagged) \in Nat
           /\ Cardinality(flagged) = 0 <=> flagged = {}
           /\ \A h : /\ h \in flagged => Cardinality(flagged \ {h}) = Cardinality(flagged) - 1
                     /\ h \notin flagged => /\ flagged \ {h} = flagged
                                            /\ Cardinality(flagged \cup {h}) = Cardinality(flagged) + 1
<1>1. IsFiniteSet(Clients) /\ flagged \in SUBSET Clients
  BY GraphAssumption DEF TypeOK
<1>2. IsFiniteSet(flagged)
  BY <1>1, FS_Subset
<1>3. Cardinality(flagged) \in Nat
  BY <1>2, FS_CardinalityType
<1>4. Cardinality(flagged) = 0 <=> flagged = {}
  BY <1>2, FS_EmptySet
<1>5. ASSUME NEW h
      PROVE  /\ h \in flagged => Cardinality(flagged \ {h}) = Cardinality(flagged) - 1
             /\ h \notin flagged => /\ flagged \ {h} = flagged
                                    /\ Cardinality(flagged \cup {h}) = Cardinality(flagged) + 1
  BY <1>2, FS_RemoveElement, FS_AddElement
<1> QED BY <1>2, <1>3, <1>4, <1>5

\* Where the count is 0 nobody is flagged, entering or leaving.
LEMMA ZeroCount ==
    ASSUME CountAccounts
    PROVE  /\ count = 0 => /\ flagged = {} /\ leaked = 0
                           /\ wPc \notin {"subCall", "subFlag", "unsubCount"}
                           /\ ioPc # "closeCount"
           /\ wPc \in {"subCall", "subFlag", "unsubCount"} \/ ioPc = "closeCount" => count > 0
BY FlaggedCard DEF CountAccounts, One, TypeOK

\* The worker keeps the accounts.
LEMMA WorkerInterestStep ==
    ASSUME InterestInv, WorkerStep
    PROVE  InterestInv'
<1> USE FlaggedCard, ZeroCount, GraphAssumption
    DEF InterestInv, CountAccounts, TypeOK, InterestMatches, One, WorkerIdle, Delivered
<1>1. ASSUME NEW h \in Clients, SubscribeCount(h) PROVE InterestInv'
  BY <1>1 DEF SubscribeCount, First
<1>2. ASSUME NEW h \in Clients, UnsubscribeFlag(h) PROVE InterestInv'
  BY <1>2 DEF UnsubscribeFlag
<1>3. CASE SubscribeCall
  <2>8. interest' \in BOOLEAN
    BY <1>3, Zenon DEF SubscribeCall
  <2>0. TypeOK'
    BY <1>3, <2>8 DEF SubscribeCall
  <2>1. CountAccounts'
    BY <1>3, <2>0 DEF SubscribeCall
  <2>2. InterestMatches'
    BY <1>3 DEF SubscribeCall
  <2> QED BY <1>3, <2>1, <2>2 DEF SubscribeCall
<1>4. CASE SubscribeFlag
  BY <1>4 DEF SubscribeFlag
<1>5. CASE SubscribeCopy
  BY <1>5 DEF SubscribeCopy
<1>6. CASE SubscribeSend
  BY <1>6 DEF SubscribeSend
<1>7. CASE UnsubscribeCount
  <2>1. CountAccounts'
    BY <1>7 DEF UnsubscribeCount
  <2>2. InterestMatches'
    BY <1>7 DEF UnsubscribeCount
  <2> QED BY <1>7, <2>1, <2>2 DEF UnsubscribeCount
<1>8. CASE UnsubscribeCall
  BY <1>8 DEF UnsubscribeCall
<1> QED BY <1>1, <1>2, <1>3, <1>4, <1>5, <1>6, <1>7, <1>8 DEF WorkerStep

\* So does the io thread.
LEMMA IoInterestStep ==
    ASSUME InterestInv, IoStep
    PROVE  InterestInv'
<1> USE FlaggedCard, ZeroCount, GraphAssumption
    DEF InterestInv, CountAccounts, TypeOK, InterestMatches, One
<1>1. ASSUME NEW h \in Clients, Open(h) PROVE InterestInv'
  BY <1>1 DEF Open
<1>2. ASSUME NEW h \in Clients, CloseErase(h) PROVE InterestInv'
  <2>0. TypeOK'
    BY <1>2 DEF CloseErase
  <2>1. CASE h \in flagged
    BY <1>2, <2>0, <2>1 DEF CloseErase
  <2>2. CASE h \notin flagged
    BY <1>2, <2>0, <2>2 DEF CloseErase
  <2> QED BY <2>1, <2>2
<1>3. CASE CloseCount
  <2>8. graphMutex' \in BOOLEAN
    BY <1>3, Zenon DEF CloseCount
  <2>9. count' \in 0..MaxCount /\ ioPc' \in {"idle", "closeCall"}
    BY <1>3 DEF CloseCount
  <2>0. TypeOK'
    BY <1>3, <2>8, <2>9 DEF CloseCount
  <2>1. CountAccounts'
    BY <1>3, <2>0 DEF CloseCount
  <2>2. InterestMatches'
    BY <1>3 DEF CloseCount
  <2> QED BY <1>3, <2>1, <2>2 DEF CloseCount
<1>4. CASE CloseCall
  <2>1. CountAccounts'
    BY <1>4 DEF CloseCall
  <2>2. InterestMatches'
    BY <1>4 DEF CloseCall
  <2> QED BY <1>4, <2>1, <2>2 DEF CloseCall
<1> QED BY <1>1, <1>2, <1>3, <1>4 DEF IoStep

\* What the invariant says of the initial state and of every step.
LEMMA InterestInductive ==
    /\ Init => InterestInv
    /\ InterestInv /\ [Next]_vars => InterestInv'
<1>1. Init => InterestInv
  <2> SUFFICES ASSUME Init PROVE InterestInv
    OBVIOUS
  <2>1. flagged = {} /\ Cardinality(flagged) = 0
    BY FS_EmptySet DEF Init
  <2>8. interest \in BOOLEAN /\ graphMutex \in BOOLEAN
    BY Zenon DEF Init
  <2>9. count \in 0..MaxCount /\ leaked \in Nat
    BY GraphAssumption DEF Init
  <2>2. TypeOK
    BY <2>8, <2>9 DEF Init, TypeOK
  <2> QED BY <2>1, <2>2 DEF Init, InterestInv, CountAccounts, InterestMatches, One
<1>2. ASSUME InterestInv, UNCHANGED vars PROVE InterestInv'
  BY <1>2 DEF vars, InterestInv, CountAccounts, TypeOK, InterestMatches, One
<1> QED BY <1>1, <1>2, WorkerInterestStep, IoInterestStep DEF Next

\* Every unit of subscriptionCount is a flagged client, a subscription being
\* entered or cancelled, or a leak: handleUnsubscribeConnectionGraph and
\* handleConnectionClosed never give back the same subscription twice.
THEOREM CountIsAccounted == Spec => []CountAccounts
<1>1. InterestInv => CountAccounts BY DEF InterestInv
<1> QED BY <1>1, InterestInductive, PTL DEF Spec

\* subscribeConnectionGraphHandler was told to produce updates while a client is
\* flagged, and only while one is counted or the call that ends it is due.
THEOREM InterestFollows == Spec => []InterestMatches
<1>1. InterestInv => InterestMatches BY DEF InterestInv
<1> QED BY <1>1, InterestInductive, PTL DEF Spec

-----------------------------------------------------------------------------
(* The contents add nothing to who is interested *)

\* A step of the composition is a step of GraphInterest or leaves its variables
\* alone.
LEMMA GraphStepIsInterestStep ==
    ASSUME [GraphNext]_<<vars, contents>>
    PROVE  [Next]_vars
BY DEF GraphNext, Update, UpdateSend, CopyGraph, SendGraph, Forget, Closing, InterestStep,
       Next, WorkerStep, IoStep

\* The composition with the contents of the graph implements GraphInterest.
THEOREM ContentsRefineInterest == GraphSpec => Spec
<1>1. GraphInit => Init BY DEF GraphInit
<1> QED BY <1>1, GraphStepIsInterestStep, PTL DEF GraphSpec, Spec

\* At most one client is flagged, so that an exception in the loop of
\* updateConnectionGraph costs no other client its update.
THEOREM AtMostOneFlagged == GraphSpec => []OneFlagged
<1>1. InterestInv => OneFlagged
  <2> SUFFICES ASSUME InterestInv PROVE OneFlagged
    OBVIOUS
  <2>1. CASE flagged = {}
    BY <2>1, FS_EmptySet DEF OneFlagged
  <2>2. ASSUME NEW h \in flagged PROVE OneFlagged
    <3>1. flagged = {h} BY DEF InterestInv
    <3> QED BY <3>1, FS_Singleton DEF OneFlagged
  <2> QED BY <2>1, <2>2
<1>2. GraphInit => Init BY DEF GraphInit
<1> QED BY <1>1, <1>2, InterestInductive, GraphStepIsInterestStep, PTL DEF GraphSpec

-----------------------------------------------------------------------------
(* What a flagged client knows *)

Messages ==
    [changed : [Roles -> Maps], removedTopics : SUBSET Names,
     removedServices : SUBSET Names, version : Nat]

\* What a client may hold of n in the role r when the graph is g: what g has, or
\* a role the topic gave up while it kept the other one.
Right(g, r, n, x) ==
    \/ x = g[r][n]
    \/ r # "services" /\ g[r][n] = Absent /\ n \in TopicNames(g)

\* The updating threads that still have to say something of n, in order.
Awaited(r, n) ==
    {u \in Updaters : diff[u].version > latest /\ Mentions(diff[u], r, n)}

\* Every message that is due is newer than the ones sent.
NoLate == \A u \in Updaters : diff[u] = NoDiff \/ diff[u].version > latest

\* The client has subscribed and not yet been sent the graph.
Incomplete(h) == wHdl = h /\ wPc \in {"subCopy", "subSend"}

ContentsOK ==
    /\ graph \in [Roles -> Maps]
    /\ diff \in [Updaters -> Messages]
    /\ copy \in Messages
    /\ view \in [Clients -> [Roles -> Maps]]
    /\ version \in Nat /\ latest \in Nat

\* Versions number the updates; a message is sent once.
VersionInv ==
    /\ latest <= version
    /\ \A u \in Updaters : diff[u] # NoDiff =>
           diff[u].version \in 1..version /\ diff[u].version # latest
    /\ \A u, t \in Updaters :
           diff[u] # NoDiff /\ diff[u].version = diff[t].version => u = t

\* Of the messages due on a name, the newest one tells what the graph has.
NewestInv ==
    \A r \in Roles, n \in Names : \A u \in Awaited(r, n) :
        (\A t \in Awaited(r, n) : diff[t].version <= diff[u].version)
            => Right(graph, r, n, diff[u].changed[r][n])

\* Where no message is due, the client is right already, or knows nothing yet.
KnownInv ==
    \A h \in flagged \ (disordered \cup closing) : NoLate =>
        \A r \in Roles, n \in Names : Awaited(r, n) = {} =>
            \/ Right(graph, r, n, view[h][r][n])
            \/ Incomplete(h) /\ view[h][r][n] = Absent

\* The copy is right but for what a newer message is about to tell.
CopyInv ==
    wPc = "subSend" =>
        /\ copy.version <= version
        /\ copy.removedTopics = {} /\ copy.removedServices = {}
        /\ copy.version >= latest =>
              \A r \in Roles, n \in Names :
                  \/ Right(graph, r, n, copy.changed[r][n])
                  \/ \E u \in Updaters :
                        diff[u].version > copy.version /\ Mentions(diff[u], r, n)

\* A client is flagged before anything is sent to it.
FreshInv ==
    leaked = 0 =>
        /\ \A h \in Clients \ flagged : view[h] = Empty
        /\ wPc \in {"subCopy", "subSend"} => wHdl \in flagged \/ conn[wHdl] = "closed"

ContentsInv ==
    ContentsOK /\ VersionInv /\ NewestInv /\ KnownInv /\ CopyInv /\ FreshInv

\* The difference of two graphs tells what the new one has, and leaves out only
\* what a client that was right about the old one need not be told.
LEMMA DiffIsRight ==
    ASSUME NEW old \in [Roles -> Maps], NEW new \in [Roles -> Maps], NEW v \in Nat,
           NEW r \in Roles, NEW n \in Names, NEW x
    PROVE  LET d == Diff(old, new, v)
           IN  /\ Mentions(d, r, n) => Right(new, r, n, d.changed[r][n])
               /\ ~Mentions(d, r, n) /\ Right(old, r, n, x) => Right(new, r, n, x)
<1> DEFINE d == Diff(old, new, v)
<1>1. /\ d.changed[r][n] = IF new[r][n] = old[r][n] THEN Absent ELSE new[r][n]
      /\ n \in d.removedTopics <=> n \in TopicNames(old) /\ n \notin TopicNames(new)
      /\ n \in d.removedServices <=> old["services"][n] # Absent /\ new["services"][n] = Absent
  BY DEF Diff, Changed, Named
<1>2. \A g \in [Roles -> Maps] :
         n \in TopicNames(g) <=> g["published"][n] # Absent \/ g["subscribed"][n] # Absent
  BY DEF TopicNames, Named
<1>3. r \in {"published", "subscribed", "services"}
  BY DEF Roles
<1> QED BY <1>1, <1>2, <1>3 DEF Mentions, Right

\* The difference is a message, and one without contents mentions nothing.
LEMMA DiffType ==
    ASSUME NEW old \in [Roles -> Maps], NEW new \in [Roles -> Maps], NEW v \in Nat
    PROVE  /\ Diff(old, new, v) \in Messages /\ Diff(old, new, v).version = v
           /\ SameContents(Diff(old, new, v)) =>
                 \A r \in Roles, n \in Names : ~Mentions(Diff(old, new, v), r, n)
<1>1. Changed(old, new) \in [Roles -> Maps]
  <2>1. ASSUME NEW r \in Roles
        PROVE  [n \in Names |-> IF new[r][n] = old[r][n] THEN Absent ELSE new[r][n]] \in Maps
    BY DEF Maps
  <2> QED BY <2>1 DEF Changed
<1>2. TopicNames(old) \subseteq Names /\ Named(old["services"]) \subseteq Names
  BY DEF TopicNames, Named
<1>3. Diff(old, new, v) \in Messages /\ Diff(old, new, v).version = v
  BY <1>1, <1>2 DEF Diff, Messages
<1>4. ASSUME SameContents(Diff(old, new, v)), NEW r \in Roles, NEW n \in Names
      PROVE  ~Mentions(Diff(old, new, v), r, n)
  BY <1>4 DEF SameContents, Mentions, Empty
<1> QED BY <1>3, <1>4

\* The empty graph and the empty message.
LEMMA EmptyType ==
    /\ Empty \in [Roles -> Maps] /\ NoDiff \in Messages /\ NoDiff.version = 0
    /\ NoDiff.removedTopics = {} /\ NoDiff.removedServices = {}
    /\ \A r \in Roles, n \in Names : Empty[r][n] = Absent /\ ~Mentions(NoDiff, r, n)
<1>1. Empty \in [Roles -> Maps]
  BY DEF Empty, Maps
<1>2. \A r \in Roles, n \in Names : Empty[r][n] = Absent
  BY DEF Empty
<1> QED BY <1>1, <1>2 DEF NoDiff, Messages, Mentions

\* What a client makes of a message, name by name.
LEMMA AppliedCell ==
    ASSUME NEW g \in [Roles -> Maps], NEW m \in Messages
    PROVE  /\ Applied(g, m) \in [Roles -> Maps]
           /\ \A r \in Roles, n \in Names :
                 Applied(g, m)[r][n] = IF Mentions(m, r, n) THEN m.changed[r][n] ELSE g[r][n]
<1>1. ASSUME NEW r \in Roles, NEW n \in Names
      PROVE  /\ m.changed[r][n] \in Ids \cup {Absent} /\ g[r][n] \in Ids \cup {Absent}
  BY DEF Messages, Maps
<1>2. ASSUME NEW r \in Roles, NEW n \in Names
      PROVE  /\ Applied(g, m)[r][n] \in Ids \cup {Absent}
             /\ Applied(g, m)[r][n] = IF Mentions(m, r, n) THEN m.changed[r][n] ELSE g[r][n]
  <2>1. Applied(g, m)[r][n] = IF Mentions(m, r, n) THEN m.changed[r][n] ELSE g[r][n]
    BY DEF Applied
  <2> QED BY <1>1, <2>1
<1>3. Applied(g, m) \in [Roles -> Maps]
  <2>1. Applied(g, m) = [r \in Roles |-> [n \in Names |-> Applied(g, m)[r][n]]]
    BY DEF Applied
  <2>2. ASSUME NEW r \in Roles
        PROVE  [n \in Names |-> Applied(g, m)[r][n]] \in Maps
    BY <1>2 DEF Maps
  <2>3. [r \in Roles |-> [n \in Names |-> Applied(g, m)[r][n]]] \in [Roles -> Maps]
    BY <2>2
  <2> QED BY <2>1, <2>3
<1> QED BY <1>2, <1>3

\* An update replaces the graph and leaves a message that makes up for it.
LEMMA UpdateKeeps ==
    ASSUME InterestInv, ContentsInv, NEW u \in Updaters, NEW g \in Graphs, Update(u, g)
    PROVE  ContentsInv'
<1> DEFINE d == Diff(graph, g, version + 1)
<1> USE DEF ContentsInv
<1>1. /\ diff[u] = NoDiff /\ version' = version + 1 /\ graph' = g
      /\ diff' = [diff EXCEPT ![u] = IF SameContents(d) THEN NoDiff ELSE d]
      /\ copy' = copy /\ closing' = closing /\ view' = view /\ latest' = latest
      /\ disordered' = disordered /\ flagged' = flagged /\ wPc' = wPc /\ wHdl' = wHdl
      /\ conn' = conn /\ leaked' = leaked
  BY DEF Update, vars
<1>2. /\ graph \in [Roles -> Maps] /\ g \in [Roles -> Maps] /\ version \in Nat /\ version + 1 \in Nat
      /\ latest \in Nat /\ latest <= version /\ diff \in [Updaters -> Messages]
  BY ContentsAssumption DEF ContentsOK, VersionInv
<1>3. d \in Messages /\ d.version = version + 1
  BY <1>2, DiffType
<1>4. /\ diff'[u] = IF SameContents(d) THEN NoDiff ELSE d
      /\ \A t \in Updaters : t # u => diff'[t] = diff[t]
  BY <1>1, <1>2
<1>5. ContentsOK'
  <2>1. diff' \in [Updaters -> Messages]
    BY <1>1, <1>2, <1>3, EmptyType
  <2> QED BY <1>1, <1>2, <2>1 DEF ContentsOK
<1>6. \A t \in Updaters : /\ diff[t].version \in Nat /\ diff[t].version <= version
                          /\ diff'[t].version \in Nat
  BY <1>2, <1>5, EmptyType DEF VersionInv, ContentsOK, Messages
<1>7. VersionInv'
  <2>1. latest' <= version'
    BY <1>1, <1>2
  <2>2. ASSUME NEW t \in Updaters, diff'[t] # NoDiff
        PROVE  diff'[t].version \in 1..version' /\ diff'[t].version # latest'
    BY <1>1, <1>2, <1>3, <1>4, <2>2 DEF VersionInv
  <2>3. ASSUME NEW s \in Updaters, NEW t \in Updaters,
               diff'[s] # NoDiff, diff'[s].version = diff'[t].version
        PROVE  s = t
    <3>1. NoDiff.version = 0 /\ diff'[s].version # 0
      BY <1>2, <1>1, <2>2, <2>3, EmptyType
    <3>2. diff'[t] # NoDiff
      BY <2>3, <3>1
    <3> QED BY <1>2, <1>3, <1>4, <1>6, <2>3, <3>2 DEF VersionInv
  <2> QED BY <2>1, <2>2, <2>3 DEF VersionInv
\* Where the message is silent, who was right still is.
<1>8. ASSUME NEW r \in Roles, NEW n \in Names
      PROVE  /\ Mentions(diff'[u], r, n) <=> Mentions(d, r, n)
             /\ Mentions(d, r, n) => diff'[u] = d
             /\ Mentions(d, r, n) => Right(g, r, n, d.changed[r][n])
             /\ \A x : ~Mentions(d, r, n) /\ Right(graph, r, n, x) => Right(g, r, n, x)
  <2>1. Mentions(d, r, n) => diff'[u] = d
    BY <1>2, <1>4, DiffType
  <2>2. ~Mentions(d, r, n) => ~Mentions(diff'[u], r, n)
    BY <1>4, EmptyType
  <2> QED BY <1>2, <2>1, <2>2, DiffIsRight
<1>9. ASSUME NEW r \in Roles, NEW n \in Names
      PROVE  /\ Mentions(d, r, n) => u \in Awaited(r, n)'
             /\ ~Mentions(d, r, n) => Awaited(r, n)' = Awaited(r, n)
  <2>1. Mentions(d, r, n) => u \in Awaited(r, n)'
    BY <1>1, <1>2, <1>3, <1>8 DEF Awaited
  <2>2. ASSUME ~Mentions(d, r, n) PROVE Awaited(r, n)' = Awaited(r, n)
    <3>1. ~Mentions(diff[u], r, n) /\ ~Mentions(diff'[u], r, n)
      BY <1>1, <1>8, <2>2, EmptyType
    <3> QED BY <1>1, <1>4, <3>1 DEF Awaited
  <2> QED BY <2>1, <2>2
<1>10. NewestInv'
  <2> SUFFICES ASSUME NEW r \in Roles, NEW n \in Names, NEW t \in Awaited(r, n)',
                      \A s \in Awaited(r, n)' : diff'[s].version <= diff'[t].version
               PROVE  Right(g, r, n, diff'[t].changed[r][n])
    BY <1>1 DEF NewestInv
  <2>1. t \in Updaters BY DEF Awaited
  <2>2. CASE Mentions(d, r, n)
    <3>1. diff'[u].version = version + 1 /\ diff'[u].version <= diff'[t].version
      BY <1>3, <1>8, <1>9, <2>2
    <3>2. t = u
      BY <1>2, <1>4, <1>6, <2>1, <3>1
    <3> QED BY <1>8, <2>2, <3>2
  <2>3. CASE ~Mentions(d, r, n)
    <3>1. Awaited(r, n)' = Awaited(r, n) /\ u \notin Awaited(r, n)
      BY <1>1, <1>9, <2>3, EmptyType DEF Awaited
    <3>2. \A s \in Awaited(r, n) : diff'[s] = diff[s]
      BY <1>4, <3>1 DEF Awaited
    <3>3. Right(graph, r, n, diff[t].changed[r][n])
      BY <3>1, <3>2 DEF NewestInv
    <3> QED BY <1>8, <2>3, <3>1, <3>2, <3>3
  <2> QED BY <2>2, <2>3
<1>11. KnownInv'
  <2> SUFFICES ASSUME NEW h \in flagged \ (disordered \cup closing), NoLate',
                      NEW r \in Roles, NEW n \in Names, Awaited(r, n)' = {}
               PROVE  \/ Right(g, r, n, view[h][r][n])
                      \/ Incomplete(h) /\ view[h][r][n] = Absent
    BY <1>1 DEF KnownInv, Incomplete
  <2>1. NoLate
    BY <1>1, <1>4 DEF NoLate
  <2>2. ~Mentions(d, r, n) /\ Awaited(r, n) = {}
    BY <1>9
  <2> QED BY <1>8, <2>1, <2>2 DEF KnownInv
<1>12. CopyInv'
  <2> SUFFICES ASSUME wPc = "subSend", CopyInv
               PROVE  CopyInv'
    BY <1>1 DEF CopyInv
  <2>1. copy.version \in Nat /\ copy.version <= version
    BY DEF ContentsOK, Messages, CopyInv
  <2>2. ASSUME copy.version >= latest, NEW r \in Roles, NEW n \in Names
        PROVE  \/ Right(g, r, n, copy.changed[r][n])
               \/ \E t \in Updaters : diff'[t].version > copy.version /\ Mentions(diff'[t], r, n)
    <3>1. CASE Mentions(d, r, n)
      <4>1. diff'[u].version > copy.version /\ Mentions(diff'[u], r, n)
        BY <1>2, <1>3, <1>8, <2>1, <3>1
      <4> QED BY <4>1
    <3>2. CASE ~Mentions(d, r, n) /\ Right(graph, r, n, copy.changed[r][n])
      BY <1>8, <3>2
    <3>3. ASSUME NEW t \in Updaters, diff[t].version > copy.version, Mentions(diff[t], r, n)
          PROVE  diff'[t].version > copy.version /\ Mentions(diff'[t], r, n)
      BY <1>1, <1>4, <3>3, EmptyType
    <3> QED BY <2>2, <3>1, <3>2, <3>3 DEF CopyInv
  <2> QED BY <1>1, <1>2, <2>1, <2>2 DEF CopyInv
<1>13. FreshInv'
  BY <1>1 DEF FreshInv
<1> QED BY <1>5, <1>7, <1>10, <1>11, <1>12, <1>13

\* A message sent in order makes its client right about what it mentions; one
\* sent late marks its client.
LEMMA UpdateSendKeeps ==
    ASSUME InterestInv, ContentsInv, NEW u \in Updaters, UpdateSend(u)
    PROVE  ContentsInv'
<1> USE DEF ContentsInv
<1>1. /\ diff[u] # NoDiff /\ diff' = [diff EXCEPT ![u] = NoDiff]
      /\ latest' = IF diff[u].version > latest THEN diff[u].version ELSE latest
      /\ graph' = graph /\ version' = version /\ copy' = copy /\ closing' = closing
      /\ flagged' = flagged /\ wPc' = wPc /\ wHdl' = wHdl /\ conn' = conn /\ leaked' = leaked
  BY DEF UpdateSend, vars
<1>2. PICK reached \in SUBSET (flagged \ closing) :
         /\ flagged \cap closing = {} => reached = flagged
         /\ Show(reached, diff[u])
  BY DEF UpdateSend
<1>3. /\ view' = [h \in Clients |-> IF h \in reached THEN Applied(view[h], diff[u]) ELSE view[h]]
      /\ disordered' = IF diff[u].version < latest THEN disordered \cup reached ELSE disordered
  BY <1>2 DEF Show
<1>4. /\ graph \in [Roles -> Maps] /\ version \in Nat /\ latest \in Nat /\ latest <= version
      /\ diff \in [Updaters -> Messages] /\ diff[u] \in Messages
      /\ view \in [Clients -> [Roles -> Maps]]
  BY DEF ContentsOK, VersionInv
<1>5. /\ \A t \in Updaters : diff[t].version \in Nat
      /\ diff[u].version \in 1..version /\ diff[u].version # latest
      /\ diff'[u] = NoDiff /\ \A t \in Updaters : t # u => diff'[t] = diff[t]
  BY <1>1, <1>4 DEF VersionInv, Messages
<1>6. latest' \in Nat /\ latest <= latest' /\ latest' <= version /\ diff[u].version <= latest'
  BY <1>1, <1>4, <1>5
<1>7. ASSUME NEW h \in Clients
      PROVE  view'[h] = IF h \in reached THEN Applied(view[h], diff[u]) ELSE view[h]
  BY <1>3
<1>8. ContentsOK'
  <2>1. diff' \in [Updaters -> Messages]
    BY <1>1, <1>4, EmptyType
  <2>2. \A h \in Clients : Applied(view[h], diff[u]) \in [Roles -> Maps]
    BY <1>4, AppliedCell
  <2>3. view' \in [Clients -> [Roles -> Maps]]
    BY <1>3, <1>4, <2>2
  <2> QED BY <1>1, <1>6, <2>1, <2>3 DEF ContentsOK
<1>9. VersionInv'
  <2>1. ASSUME NEW t \in Updaters, diff'[t] # NoDiff
        PROVE  t # u /\ diff'[t] = diff[t] /\ diff[t].version # diff[u].version
    BY <1>1, <1>5, <2>1 DEF VersionInv
  <2>2. ASSUME NEW t \in Updaters, diff'[t] # NoDiff
        PROVE  diff'[t].version \in 1..version' /\ diff'[t].version # latest'
    BY <1>1, <2>1, <2>2 DEF VersionInv
  <2>3. ASSUME NEW s \in Updaters, NEW t \in Updaters,
               diff'[s] # NoDiff, diff'[s].version = diff'[t].version
        PROVE  s = t
    <3>1. diff'[s].version # 0 /\ NoDiff.version = 0
      BY <1>4, <1>1, <2>2, <2>3, EmptyType
    <3>2. diff'[t] # NoDiff
      BY <2>3, <3>1
    <3> QED BY <2>1, <2>3, <3>2 DEF VersionInv
  <2> QED BY <1>1, <1>6, <2>2, <2>3 DEF VersionInv
\* The messages still due are those newer than this one.
<1>10. ASSUME NEW r \in Roles, NEW n \in Names
       PROVE  /\ \A t \in Awaited(r, n)' : /\ t \in Awaited(r, n) /\ t # u /\ diff'[t] = diff[t]
                                           /\ diff[t].version > latest'
              /\ \A t \in Awaited(r, n) : diff[t].version > latest' => t \in Awaited(r, n)'
  <2>1. ASSUME NEW t \in Awaited(r, n)'
        PROVE  /\ t \in Awaited(r, n) /\ t # u /\ diff'[t] = diff[t] /\ diff[t].version > latest'
    <3>1. t \in Updaters /\ diff'[t].version > latest' /\ Mentions(diff'[t], r, n)
      BY DEF Awaited
    <3>2. t # u
      BY <1>5, <3>1, EmptyType
    <3> QED BY <1>4, <1>5, <1>6, <3>1, <3>2 DEF Awaited
  <2>2. ASSUME NEW t \in Awaited(r, n), diff[t].version > latest'
        PROVE  t \in Awaited(r, n)'
    <3>1. t \in Updaters /\ t # u
      BY <1>5, <1>6, <2>2 DEF Awaited
    <3> QED BY <1>5, <2>2, <3>1 DEF Awaited
  <2> QED BY <2>1, <2>2
<1>11. NewestInv'
  <2> SUFFICES ASSUME NEW r \in Roles, NEW n \in Names, NEW t \in Awaited(r, n)',
                      \A s \in Awaited(r, n)' : diff'[s].version <= diff'[t].version
               PROVE  Right(graph, r, n, diff[t].changed[r][n])
    BY <1>1, <1>10 DEF NewestInv
  <2>1. t \in Awaited(r, n) /\ t \in Updaters /\ diff'[t] = diff[t] /\ diff[t].version > latest'
    BY <1>10 DEF Awaited
  <2>2. ASSUME NEW s \in Awaited(r, n) PROVE diff[s].version <= diff[t].version
    <3>1. s \in Updaters /\ diff[s].version \in Nat /\ diff[t].version \in Nat
      BY <1>5, <2>1 DEF Awaited
    <3>2. CASE diff[s].version > latest'
      BY <1>10, <2>1, <3>2
    <3>3. CASE diff[s].version <= latest'
      BY <1>6, <2>1, <3>1, <3>3
    <3> QED BY <1>6, <3>1, <3>2, <3>3
  <2> QED BY <2>1, <2>2 DEF NewestInv
<1>12. KnownInv'
  <2> SUFFICES ASSUME NEW h \in flagged \ (disordered' \cup closing), NoLate',
                      NEW r \in Roles, NEW n \in Names, Awaited(r, n)' = {}
               PROVE  \/ Right(graph, r, n, view'[h][r][n])
                      \/ Incomplete(h) /\ view'[h][r][n] = Absent
    BY <1>1 DEF KnownInv, Incomplete
  <2>1. flagged = {h} /\ h \in Clients
    BY DEF InterestInv, CountAccounts, TypeOK
  <2>2. reached = {h}
    BY <1>2, <2>1
  <2>3. diff[u].version > latest /\ latest' = diff[u].version /\ h \notin disordered
    <3>1. ~(diff[u].version < latest)
      <4> SUFFICES ASSUME diff[u].version < latest PROVE FALSE
        OBVIOUS
      <4>1. disordered' = disordered \cup {h}
        BY <1>3, <2>2
      <4> QED BY <4>1
    <3>2. diff[u].version \in Nat /\ latest \in Nat /\ diff[u].version # latest
      BY <1>4, <1>5, Zenon
    <3>3. diff[u].version > latest
      BY <3>1, <3>2
    <3> QED BY <1>1, <1>3, <3>1, <3>3
  <2>4. NoLate /\ \A t \in Updaters : t = u \/ diff[t] = NoDiff \/ diff[t].version > latest'
    BY <1>1, <1>4, <1>5, <1>6, <2>3 DEF NoLate
  <2>5. \A t \in Awaited(r, n) : t = u
    BY <1>4, <1>10, <2>4, EmptyType DEF Awaited
  <2>6. view'[h][r][n] = IF Mentions(diff[u], r, n) THEN diff[u].changed[r][n] ELSE view[h][r][n]
    BY <1>4, <1>7, <2>1, <2>2, AppliedCell
  <2>7. CASE Mentions(diff[u], r, n)
    <3>1. u \in Awaited(r, n) /\ \A t \in Awaited(r, n) : diff[t].version <= diff[u].version
      BY <1>5, <2>3, <2>5, <2>7 DEF Awaited
    <3> QED BY <2>6, <2>7, <3>1 DEF NewestInv
  <2>8. CASE ~Mentions(diff[u], r, n)
    <3>1. Awaited(r, n) = {}
      BY <2>5, <2>8 DEF Awaited
    <3> QED BY <2>3, <2>4, <2>6, <2>8, <3>1 DEF KnownInv
  <2> QED BY <2>7, <2>8
<1>13. CopyInv'
  <2> SUFFICES ASSUME wPc = "subSend", CopyInv
               PROVE  CopyInv'
    BY <1>1 DEF CopyInv
  <2>1. copy.version \in Nat /\ copy.version <= version
    BY DEF ContentsOK, Messages, CopyInv
  <2>2. ASSUME copy.version >= latest', NEW r \in Roles, NEW n \in Names
        PROVE  \/ Right(graph, r, n, copy.changed[r][n])
               \/ \E t \in Updaters : diff'[t].version > copy.version /\ Mentions(diff'[t], r, n)
    <3>1. copy.version >= latest
      BY <1>4, <1>6, <2>1, <2>2
    <3>2. ASSUME NEW t \in Updaters, diff[t].version > copy.version, Mentions(diff[t], r, n)
          PROVE  diff'[t].version > copy.version /\ Mentions(diff'[t], r, n)
      BY <1>5, <1>6, <2>1, <2>2, <3>2
    <3> QED BY <3>1, <3>2 DEF CopyInv
  <2> QED BY <1>1, <2>1, <2>2 DEF CopyInv
<1>14. FreshInv'
  <2>1. \A h \in Clients \ flagged : view'[h] = view[h]
    BY <1>2, <1>7
  <2> QED BY <1>1, <2>1 DEF FreshInv
<1> QED BY <1>8, <1>9, <1>11, <1>12, <1>13, <1>14

\* The steps that touch neither the graph nor a message that is due.
LEMMA NothingDue ==
    ASSUME VersionInv, NewestInv, UNCHANGED <<graph, version, diff, latest>>
    PROVE  /\ VersionInv' /\ NewestInv' /\ (NoLate' <=> NoLate)
           /\ \A r \in Roles, n \in Names : Awaited(r, n)' = Awaited(r, n)
<1>1. \A r \in Roles, n \in Names : Awaited(r, n)' = Awaited(r, n)
  BY DEF Awaited
<1>2. NewestInv'
  BY <1>1 DEF NewestInv
<1> QED BY <1>1, <1>2 DEF VersionInv, NoLate

\* The copy is the graph.
LEMMA CopyGraphKeeps ==
    ASSUME InterestInv, ContentsInv, CopyGraph
    PROVE  ContentsInv'
<1> USE DEF ContentsInv
<1>1. /\ wPc = "subCopy" /\ wPc' = "subSend" /\ wHdl' = wHdl /\ conn' = conn /\ leaked' = leaked
      /\ copy' = [NoDiff EXCEPT !.changed = graph, !.version = version]
      /\ UNCHANGED <<graph, version, diff, closing, view, latest, disordered, flagged>>
  BY DEF CopyGraph, SubscribeCopy
<1>2. /\ copy' \in Messages /\ copy'.changed = graph /\ copy'.version = version
      /\ copy'.removedTopics = {} /\ copy'.removedServices = {}
  BY <1>1, EmptyType DEF NoDiff, Messages, ContentsOK
<1>3. ContentsOK'
  BY <1>1, <1>2 DEF ContentsOK
<1>4. CopyInv'
  <2>1. \A r \in Roles, n \in Names : Right(graph, r, n, graph[r][n])
    BY DEF Right
  <2> QED BY <1>1, <1>2, <2>1 DEF CopyInv, ContentsOK
<1>5. KnownInv'
  BY <1>1, NothingDue DEF KnownInv, Incomplete
<1>6. FreshInv'
  BY <1>1 DEF FreshInv
<1> QED BY <1>1, <1>3, <1>4, <1>5, <1>6, NothingDue

\* The copy completes what the client knows.
LEMMA SendGraphKeeps ==
    ASSUME InterestInv, ContentsInv, SendGraph
    PROVE  ContentsInv'
<1> USE DEF ContentsInv
<1> DEFINE reached == {wHdl} \cap {h \in Clients \ closing : conn[h] = "open"}
<1>1. /\ wPc = "subSend" /\ wPc' = "idle" /\ conn' = conn /\ leaked' = leaked /\ copy' = NoDiff
      /\ view' = [h \in Clients |-> IF h \in reached THEN Applied(view[h], copy) ELSE view[h]]
      /\ disordered' = IF copy.version < latest THEN disordered \cup reached ELSE disordered
      /\ UNCHANGED <<graph, version, diff, closing, latest, flagged>>
  BY DEF SendGraph, SubscribeSend, Show, WorkerIdle
<1>2. /\ view \in [Clients -> [Roles -> Maps]] /\ copy \in Messages
      /\ copy.version \in Nat /\ latest \in Nat
  BY DEF ContentsOK, Messages
<1>3. ContentsOK'
  <2>1. \A h \in Clients : Applied(view[h], copy) \in [Roles -> Maps]
    BY <1>2, AppliedCell
  <2>2. view' \in [Clients -> [Roles -> Maps]]
    BY <1>1, <1>2, <2>1
  <2> QED BY <1>1, <2>2, EmptyType DEF ContentsOK
<1>4. CopyInv'
  BY <1>1 DEF CopyInv
<1>5. KnownInv'
  <2> SUFFICES ASSUME NEW h \in flagged \ (disordered' \cup closing), NoLate,
                      NEW r \in Roles, NEW n \in Names, Awaited(r, n) = {}
               PROVE  Right(graph, r, n, view'[h][r][n])
    BY <1>1, NothingDue DEF KnownInv
  <2>1. h \in Clients /\ conn[h] = "open" /\ h \notin disordered
    BY <1>1 DEF InterestInv, CountAccounts, TypeOK
  <2>2. \/ Right(graph, r, n, view[h][r][n])
        \/ Incomplete(h) /\ view[h][r][n] = Absent
    BY <2>1 DEF KnownInv
  <2>3. CASE wHdl # h
    BY <1>1, <2>1, <2>2, <2>3 DEF Incomplete
  <2>4. CASE wHdl = h
    <3>1. h \in reached
      BY <2>1, <2>4
    <3>2. copy.version >= latest
      BY <1>1, <1>2, <3>1
    <3>3. Right(graph, r, n, copy.changed[r][n])
      <4>1. ASSUME NEW t \in Updaters, diff[t].version > copy.version, Mentions(diff[t], r, n)
            PROVE  FALSE
        <5>1. diff[t].version \in Nat
          BY DEF ContentsOK, Messages
        <5> QED BY <1>2, <3>2, <4>1, <5>1 DEF Awaited
      <4> QED BY <1>1, <3>2, <4>1 DEF CopyInv
    <3>4. view'[h][r][n] = IF Mentions(copy, r, n) THEN copy.changed[r][n] ELSE view[h][r][n]
      BY <1>1, <1>2, <2>1, <3>1, AppliedCell
    <3>5. ~Mentions(copy, r, n) => copy.changed[r][n] = Absent
      BY DEF Mentions
    <3> QED BY <2>2, <3>3, <3>4, <3>5
  <2> QED BY <2>3, <2>4
<1>6. FreshInv'
  <2>1. ASSUME leaked = 0, NEW h \in Clients \ flagged PROVE view'[h] = Empty
    BY <1>1, <2>1 DEF FreshInv
  <2> QED BY <1>1, <2>1 DEF FreshInv
<1> QED BY <1>1, <1>3, <1>4, <1>5, <1>6, NothingDue

\* A client that unsubscribes or closes is no longer looked at.
LEMMA ForgetKeeps ==
    ASSUME InterestInv, ContentsInv, NEW h \in Clients, Forget(h)
    PROVE  ContentsInv'
<1> USE DEF ContentsInv
<1>1. /\ view' = [view EXCEPT ![h] = Empty] /\ disordered' = disordered \ {h}
      /\ closing \ {h} \subseteq closing' /\ flagged' = flagged \ {h} /\ leaked' = leaked
      /\ UNCHANGED <<graph, version, diff, copy, latest>>
  BY DEF Forget, UnsubscribeFlag, CloseErase
<1>2. \/ wPc = "idle" /\ wPc' = "unsubCount"
      \/ UNCHANGED <<wPc, wHdl>> /\ conn' = [conn EXCEPT ![h] = "closed"]
  BY DEF Forget, UnsubscribeFlag, CloseErase
<1>3. /\ view'[h] = Empty /\ \A k \in Clients \ {h} : view'[k] = view[k]
      /\ view' \in [Clients -> [Roles -> Maps]]
  BY <1>1, EmptyType DEF ContentsOK
<1>4. ContentsOK'
  BY <1>1, <1>3 DEF ContentsOK
<1>5. CopyInv'
  BY <1>1, <1>2 DEF CopyInv
<1>6. KnownInv'
  <2> SUFFICES ASSUME NEW k \in flagged' \ (disordered' \cup closing'), NoLate,
                      NEW r \in Roles, NEW n \in Names, Awaited(r, n) = {}
               PROVE  \/ Right(graph, r, n, view'[k][r][n])
                      \/ Incomplete(k)' /\ view'[k][r][n] = Absent
    BY <1>1, NothingDue DEF KnownInv
  <2>1. k \in Clients \ {h} /\ k \in flagged \ (disordered \cup closing)
    BY <1>1 DEF InterestInv, CountAccounts, TypeOK
  <2>2. Incomplete(k)' <=> Incomplete(k)
    BY <1>2 DEF Incomplete
  <2> QED BY <1>3, <2>1, <2>2 DEF KnownInv
<1>7. FreshInv'
  <2>1. leaked = 0 => \A k \in Clients \ flagged' : view'[k] = Empty
    BY <1>1, <1>3 DEF FreshInv
  <2>2. ASSUME leaked = 0, wPc' \in {"subCopy", "subSend"}
        PROVE  wHdl' \in flagged' \/ conn'[wHdl'] = "closed"
    <3>1. UNCHANGED <<wPc, wHdl>> /\ conn' = [conn EXCEPT ![h] = "closed"]
      BY <1>2, <2>2
    <3>2. wHdl \in Clients /\ conn \in [Clients -> {"none", "open", "closed"}]
      BY <2>2, <3>1 DEF InterestInv, CountAccounts, TypeOK
    <3> QED BY <1>1, <2>2, <3>1, <3>2 DEF FreshInv
  <2> QED BY <1>1, <2>1, <2>2 DEF FreshInv
<1> QED BY <1>1, <1>4, <1>5, <1>6, <1>7, NothingDue

\* A connection that starts to close asks for less.
LEMMA ClosingKeeps ==
    ASSUME ContentsInv, NEW h \in Clients, Closing(h)
    PROVE  ContentsInv'
<1> USE DEF ContentsInv
<1>1. /\ closing' = closing \cup {h} /\ UNCHANGED <<flagged, wPc, wHdl, conn, leaked>>
      /\ UNCHANGED <<graph, version, diff, copy, view, latest, disordered>>
  BY DEF Closing, vars
<1>2. KnownInv'
  BY <1>1, NothingDue DEF KnownInv, Incomplete
<1> QED BY <1>1, <1>2, NothingDue DEF ContentsOK, CopyInv, FreshInv

\* The flag is set for a client that has been sent nothing.
LEMMA InterestKeeps ==
    ASSUME InterestInv, ContentsInv, InterestStep
    PROVE  ContentsInv'
<1> USE DEF ContentsInv
<1>1. UNCHANGED <<graph, version, diff, copy, closing, view, latest, disordered>>
  BY DEF InterestStep, contents
<1>2. ContentsOK' /\ VersionInv' /\ NewestInv'
  BY <1>1, NothingDue DEF ContentsOK
<1>3. /\ conn \in [Clients -> {"none", "open", "closed"}] /\ leaked \in Nat
      /\ wPc # "idle" => wHdl \in Clients
  BY DEF InterestInv, CountAccounts, TypeOK
<1>4. CASE UNCHANGED <<flagged, leaked, conn>> /\ wPc' \notin {"subCopy", "subSend"}
                                             /\ wPc \notin {"subCopy", "subSend"}
  <2>1. KnownInv'
    BY <1>1, <1>4, NothingDue DEF KnownInv, Incomplete
  <2> QED BY <1>1, <1>2, <1>4, <2>1 DEF CopyInv, FreshInv
<1>5. CASE UNCHANGED <<flagged, leaked, wPc, wHdl>> /\ \A h \in Clients : conn[h] = "closed" => conn'[h] = "closed"
  <2>1. KnownInv'
    BY <1>1, <1>5, NothingDue DEF KnownInv, Incomplete
  <2> QED BY <1>1, <1>2, <1>3, <1>5, <2>1 DEF CopyInv, FreshInv
<1>6. CASE UNCHANGED flagged /\ leaked' = leaked + 1 /\ wPc \notin {"subCopy", "subSend"} /\ wPc' # "subSend"
  <2>1. KnownInv'
    BY <1>1, <1>6, NothingDue DEF KnownInv, Incomplete
  <2> QED BY <1>1, <1>2, <1>3, <1>6, <2>1 DEF CopyInv, FreshInv
<1>7. CASE /\ wPc = "subFlag" /\ wPc' = "subCopy" /\ flagged' = flagged \cup {wHdl}
           /\ UNCHANGED <<wHdl, leaked, conn>>
  <2>1. flagged = {} /\ leaked = 0 /\ wHdl \in Clients
    BY <1>3, <1>7 DEF InterestInv
  <2>2. view[wHdl] = Empty
    BY <2>1 DEF FreshInv
  <2>3. KnownInv'
    <3>1. \A h \in flagged' : h = wHdl /\ Incomplete(h)'
      BY <1>7, <2>1 DEF Incomplete
    <3>2. \A r \in Roles, n \in Names : view'[wHdl][r][n] = Absent
      BY <1>1, <2>2, EmptyType
    <3> QED BY <3>1, <3>2 DEF KnownInv
  <2>4. FreshInv'
    BY <1>1, <1>7, <2>1 DEF FreshInv
  <2> QED BY <1>2, <1>7, <2>3, <2>4 DEF CopyInv
<1>8. ASSUME NEW h \in Clients, SubscribeCount(h) PROVE ContentsInv'
  BY <1>4, <1>6, <1>8 DEF SubscribeCount
<1>9. ASSUME NEW h \in Clients, Open(h) PROVE ContentsInv'
  BY <1>3, <1>5, <1>9 DEF Open
<1>10. CASE SubscribeCall
  BY <1>4, <1>6, <1>10 DEF SubscribeCall, WorkerIdle
<1>11. CASE SubscribeFlag
  BY <1>6, <1>7, <1>11 DEF SubscribeFlag, WorkerIdle
<1>12. CASE UnsubscribeCount \/ UnsubscribeCall
  BY <1>4, <1>12 DEF UnsubscribeCount, UnsubscribeCall, WorkerIdle
<1>13. CASE CloseCount \/ CloseCall
  BY <1>5, <1>13 DEF CloseCount, CloseCall
<1> QED BY <1>8, <1>9, <1>10, <1>11, <1>12, <1>13 DEF InterestStep

\* The invariant of the contents holds initially and is kept by every step.
LEMMA ContentsInductive ==
    /\ GraphInit => InterestInv /\ ContentsInv
    /\ InterestInv /\ ContentsInv /\ [GraphNext]_<<vars, contents>> => InterestInv' /\ ContentsInv'
<1>1. ASSUME GraphInit PROVE InterestInv /\ ContentsInv
  <2>1. InterestInv /\ flagged = {} /\ wPc = "idle"
    BY <1>1, InterestInductive DEF GraphInit, Init
  <2>2. /\ graph = Empty /\ version = 0 /\ copy = NoDiff /\ latest = 0
        /\ diff = [u \in Updaters |-> NoDiff] /\ view = [h \in Clients |-> Empty]
    BY <1>1 DEF GraphInit, InitContents
  <2>3. ContentsOK
    BY <2>2, EmptyType DEF ContentsOK
  <2>4. VersionInv
    BY <2>2 DEF VersionInv
  <2>5. NewestInv
    <3>1. \A r \in Roles, n \in Names : Awaited(r, n) = {}
      BY <2>2, EmptyType DEF Awaited
    <3> QED BY <3>1 DEF NewestInv
  <2> QED BY <2>1, <2>2, <2>3, <2>4, <2>5 DEF ContentsInv, KnownInv, CopyInv, FreshInv
<1>2. ASSUME InterestInv, ContentsInv, UNCHANGED <<vars, contents>> PROVE ContentsInv'
  <2>1. /\ UNCHANGED <<graph, version, diff, copy, closing, view, latest, disordered>>
        /\ UNCHANGED <<flagged, wPc, wHdl, conn, leaked>>
    BY <1>2 DEF vars, contents
  <2>2. KnownInv'
    BY <1>2, <2>1, NothingDue DEF ContentsInv, KnownInv, Incomplete
  <2> QED BY <1>2, <2>1, <2>2, NothingDue DEF ContentsInv, ContentsOK, CopyInv, FreshInv
<1>3. ASSUME InterestInv, ContentsInv, GraphNext PROVE ContentsInv'
  BY <1>3, UpdateKeeps, UpdateSendKeeps, CopyGraphKeeps, SendGraphKeeps, ForgetKeeps,
     ClosingKeeps, InterestKeeps DEF GraphNext
<1> QED BY <1>1, <1>2, <1>3, InterestInductive, GraphStepIsInterestStep

\* A flagged client that got its messages in order knows, once they are all out,
\* the services and topics of the graph: neither the race of the snapshot of
\* handleSubscribeConnectionGraph with updateConnectionGraph nor that of two
\* updates loses one, whatever the number of names, threads and clients.
THEOREM ViewBecomesGraph == GraphSpec => []ViewIsGraph
<1>1. ASSUME InterestInv, ContentsInv PROVE ViewIsGraph
  <2> SUFFICES ASSUME NEW h \in flagged \ disordered, Settled(h)
               PROVE  /\ view[h]["services"] = graph["services"]
                      /\ TopicNames(view[h]) = TopicNames(graph)
                      /\ \A r \in {"published", "subscribed"} : \A n \in Named(graph[r]) :
                            view[h][r][n] = graph[r][n]
    BY DEF ViewIsGraph
  <2>1. /\ h \in Clients /\ view[h] \in [Roles -> Maps] /\ graph \in [Roles -> Maps]
        /\ latest \in Nat
    BY <1>1 DEF InterestInv, CountAccounts, TypeOK, ContentsInv, ContentsOK
  <2>2. NoLate /\ \A r \in Roles, n \in Names : Awaited(r, n) = {}
    BY <2>1, EmptyType DEF Settled, NoLate, Awaited
  <2>3. \A r \in Roles, n \in Names : Right(graph, r, n, view[h][r][n])
    BY <1>1, <2>2 DEF Settled, ContentsInv, KnownInv, Incomplete
  <2>4. view[h]["services"] = graph["services"]
    <3>1. \A n \in Names : view[h]["services"][n] = graph["services"][n]
      BY <2>3 DEF Right, Roles
    <3>2. view[h]["services"] \in Maps /\ graph["services"] \in Maps
      BY <2>1 DEF Roles
    <3> QED BY <3>1, <3>2 DEF Maps
  <2>5. ASSUME NEW n \in Names
        PROVE  n \in TopicNames(view[h]) <=> n \in TopicNames(graph)
    <3>1. "published" \in Roles /\ "subscribed" \in Roles
      BY DEF Roles
    <3>2. \A g : n \in TopicNames(g) <=> g["published"][n] # Absent \/ g["subscribed"][n] # Absent
      BY DEF TopicNames, Named
    <3> QED BY <2>3, <3>1, <3>2 DEF Right
  <2>6. TopicNames(view[h]) = TopicNames(graph)
    BY <2>5 DEF TopicNames, Named
  <2>7. ASSUME NEW r \in {"published", "subscribed"}, NEW n \in Named(graph[r])
        PROVE  view[h][r][n] = graph[r][n]
    BY <2>3 DEF Right, Roles, Named
  <2> QED BY <2>4, <2>6, <2>7
<1> QED BY <1>1, ContentsInductive, PTL DEF GraphSpec
=============================================================================
