-------------------------------- MODULE Client --------------------------------
(***************************************************************************)
(* The client: connect, close and the calls that send, made by one         *)
(* application thread and by the message handlers, which the run loop      *)
(* calls with _mutex held shared.  A connection object is new for every    *)
(* connect.  What is sent and received are the frames of Codec.            *)
(***************************************************************************)
EXTENDS Codec

CONSTANTS
    MaxConns,   \* bound on the connections made
    NoCon,      \* _con is null
    Calls,      \* calls of the application that send something
    Incoming,   \* messages of the server
    MaxFrames   \* bound on the frames on their way to the server

Conns == 1..MaxConns    \* connection objects, in the order they are made

ASSUME ClientAssumption ==
    /\ MaxConns \in Nat /\ MaxFrames \in Nat /\ NoCon \notin Conns
    /\ Calls \subseteq ClientCalls
    /\ Incoming \subseteq ServerMessages

VARIABLES
    con,        \* _con
    state,      \* websocketpp's state of each connection
    future,     \* of connect(uri): "none", "pending" or "ready"
    appPc,      \* "idle", or in ~Client: "dtorClose", "dtorStop", "dtorJoin", "gone"
    ioPc,       \* the run loop: "idle", "deliver", "handler", "ended";
                \* "stuck" for ever; "terminated" with the process
    perpetual,  \* run() does not return for lack of work
    wire,       \* per connection, the frames sent and what they mean
    handled,    \* the frame a worker of the server handles: meant and read
    shown,      \* the message a handler of the client is given: meant and read
    left        \* history: connections the client let go of before they were open,
                \* or without closing them

link == <<con, state, future>>
frames == <<wire, handled, shown>>
clientVars == <<link, appPc, ioPc, perpetual, frames, left>>

Nothing == [meant |-> Refused, read |-> Refused]

ClientInit ==
    /\ con = NoCon
    /\ state = [k \in Conns |-> "none"]
    /\ future = [k \in Conns |-> "none"]
    /\ appPc = "idle" /\ ioPc = "idle" /\ perpetual = TRUE
    /\ wire = [k \in Conns |-> <<>>]
    /\ handled = Nothing /\ shown = Nothing
    /\ left = {}

\* unique_lock(_mutex): no handler is running.
Exclusive == ioPc \in {"idle", "deliver", "ended"}

Active(k) == state[k] \in {"connecting", "open", "closing"}

\* _endpoint.send: throws unless the connection is open.
CanSend == con # NoCon /\ state[con] = "open"

MayTransmit ==
    handled = Nothing /\ FoldFunction(LAMBDA w, n : Len(w) + n, 0, wire) < MaxFrames

Transmit(c) == wire' = [wire EXCEPT ![con] = Append(@, [meant |-> c, frame |-> ClientFrame(c)])]

-----------------------------------------------------------------------------
(* application thread *)

\* connect, by the overload with a future; the other one differs by the open handler
\* alone.  _con is replaced without being closed.
Connect(k) ==
    /\ appPc = "idle" /\ Exclusive
    /\ state[k] = "none" /\ \A i \in 1..(k - 1) : state[i] # "none"
    /\ con' = k
    /\ left' = left \cup ({con} \ {NoCon})
    /\ state' = [state EXCEPT ![k] = "connecting"]
    /\ future' = [future EXCEPT ![k] = "pending"]
    /\ UNCHANGED <<appPc, ioPc, perpetual, frames>>

\* A URI that cannot be parsed: _con is null when connect throws.
ConnectBadUri ==
    /\ appPc = "idle" /\ Exclusive
    /\ con' = NoCon
    /\ left' = left \cup ({con} \ {NoCon})
    /\ UNCHANGED <<state, future, appPc, ioPc, perpetual, frames>>

\* Faulty variant: _con is reset and the connection left open.
ShutdownNot == state

\* The closing handshake begins; a connection that is not open ignores it.
Shutdown == [k \in Conns |-> IF k = con /\ state[k] = "open" THEN "closing" ELSE state[k]]

close ==
    /\ Exclusive
    /\ con' = NoCon
    /\ state' = Shutdown
    /\ left' = left \cup {k \in Conns : k = con /\ state[k] = "connecting"}
    /\ UNCHANGED <<future, ioPc, frames>>

Close ==
    /\ appPc = "idle" /\ con # NoCon
    /\ close
    /\ UNCHANGED <<appPc, perpetual>>

Send(c) ==
    /\ appPc = "idle"
    /\ CanSend /\ MayTransmit
    /\ Transmit(c)
    /\ UNCHANGED <<link, appPc, ioPc, perpetual, handled, shown, left>>

DtorBegin ==
    /\ appPc = "idle"
    /\ appPc' = "dtorClose"
    /\ UNCHANGED <<link, ioPc, perpetual, frames, left>>

DtorClose ==
    /\ appPc = "dtorClose"
    /\ close
    /\ appPc' = "dtorStop"
    /\ UNCHANGED perpetual

DtorStopPerpetual ==
    /\ appPc = "dtorStop"
    /\ perpetual' = FALSE
    /\ appPc' = "dtorJoin"
    /\ UNCHANGED <<link, ioPc, frames, left>>

DtorJoin ==
    /\ appPc = "dtorJoin"
    /\ ioPc = "ended"
    /\ appPc' = "gone"
    /\ UNCHANGED <<link, ioPc, perpetual, frames, left>>

-----------------------------------------------------------------------------
(* run loop *)

\* Faulty variant: the promise is not fulfilled.
FulfilNot(k) == future

\* The open handler of connect(uri).
Fulfil(k) == [future EXCEPT ![k] = "ready"]

\* A connection attempt ends; an attempt without an answer times out.
Resolve(k) ==
    /\ ioPc = "idle"
    /\ state[k] = "connecting"
    /\ \/ state' = [state EXCEPT ![k] = "open"] /\ future' = Fulfil(k)
       \/ state' = [state EXCEPT ![k] = "closed"] /\ UNCHANGED future
    /\ UNCHANGED <<con, appPc, ioPc, perpetual, frames, left>>

\* The connection is gone, and what was on its way with it.
End(k) ==
    /\ state' = [state EXCEPT ![k] = "closed"]
    /\ wire' = [wire EXCEPT ![k] = <<>>]
    /\ UNCHANGED <<con, future, appPc, ioPc, perpetual, handled, shown, left>>

\* The server or the network ends an open connection.
PeerCloses(k) == ioPc = "idle" /\ state[k] = "open" /\ End(k)

\* The closing handshake ends or times out.
Closed(k) == ioPc = "idle" /\ state[k] = "closing" /\ End(k)

\* A message arrives on a connection that is open ...
Arrives(k) ==
    /\ ioPc = "idle"
    /\ state[k] = "open"
    /\ ioPc' = "deliver"
    /\ UNCHANGED <<link, appPc, perpetual, frames, left>>

\* ... messageHandler takes the mutex and calls the handler for its opcode ...
messageHandler(m) ==
    /\ ioPc = "deliver"
    /\ shown' = [meant |-> m, read |-> HandlerReads(ServerFrame(m))]
    /\ ioPc' = "handler"
    /\ UNCHANGED <<link, appPc, perpetual, wire, handled, left>>

\* ... which may send (where _con is not open, the exception leaves run()
\* and the thread, and std::terminate is called) ...
HandlerSend(c) ==
    /\ ioPc = "handler"
    /\ CanSend /\ MayTransmit
    /\ Transmit(c)
    /\ UNCHANGED <<link, appPc, ioPc, perpetual, handled, shown, left>>

HandlerLeaves(pc) ==
    /\ ioPc = "handler"
    /\ ioPc' = pc
    /\ shown' = Nothing
    /\ UNCHANGED <<link, appPc, perpetual, wire, handled, left>>

HandlerThrows == ~CanSend /\ HandlerLeaves("terminated")

\* ... or call close, connect or set a handler, and wait for its own shared lock ...
HandlerLocks == HandlerLeaves("stuck")

\* ... or return.
HandlerReturns == HandlerLeaves("idle")

RunEnds ==
    /\ ioPc = "idle" /\ ~perpetual
    /\ \A k \in Conns : ~Active(k)
    /\ ioPc' = "ended"
    /\ UNCHANGED <<link, appPc, perpetual, frames, left>>

-----------------------------------------------------------------------------
(* server *)

\* Its worker takes the next frame of a connection ...
ServerTakes(k) ==
    /\ wire[k] # <<>> /\ handled = Nothing
    /\ LET next == Head(wire[k]) IN
       handled' = [meant |-> next.meant, read |-> ServerReads(next.frame)]
    /\ wire' = [wire EXCEPT ![k] = Tail(@)]
    /\ UNCHANGED <<link, appPc, ioPc, perpetual, shown, left>>

\* ... and has handled it.
ServerDone ==
    /\ handled # Nothing
    /\ handled' = Nothing
    /\ UNCHANGED <<link, appPc, ioPc, perpetual, wire, shown, left>>

-----------------------------------------------------------------------------
Step ==
    \/ \E k \in Conns : Connect(k)
    \/ ConnectBadUri \/ Close
    \/ \E c \in Calls : Send(c) \/ HandlerSend(c)
    \/ DtorBegin \/ DtorClose \/ DtorStopPerpetual \/ DtorJoin
    \/ \E k \in Conns : Resolve(k) \/ PeerCloses(k) \/ Closed(k) \/ ServerTakes(k)
    \/ \E k \in Conns : Arrives(k)
    \/ \E m \in Incoming : messageHandler(m)
    \/ HandlerThrows \/ HandlerLocks \/ HandlerReturns
    \/ RunEnds \/ ServerDone

ClientNext == ioPc # "terminated" /\ Step

\* Threads are scheduled and get the mutex, handlers return, the run loop serves
\* every connection, and websocketpp ends a handshake that is not answered.
\* Nothing makes a server close a connection.
ClientFairness ==
    /\ SF_clientVars(DtorClose) /\ WF_clientVars(DtorStopPerpetual) /\ WF_clientVars(DtorJoin)
    /\ WF_clientVars(\E m \in Incoming : messageHandler(m))
    /\ WF_clientVars(HandlerReturns) /\ WF_clientVars(RunEnds)
    /\ \A k \in Conns : SF_clientVars(Resolve(k)) /\ SF_clientVars(Closed(k))

ClientSpec == ClientInit /\ [][ClientNext]_clientVars /\ ClientFairness

-----------------------------------------------------------------------------
(* Properties *)

\* A handler waits for itself (138, 144), or ended the process.
Jammed == ioPc \in {"stuck", "terminated"}

\* Opened for a client that had let go of it: nobody will close it.
Stranded == \E k \in left : state[k] = "open"

\* ~Client ends, unless a handler locked the client up or the server keeps a
\* connection the client let go of: connect (91) drops an earlier one, and close()
\* (128) has no effect on one that is still connecting.
DestructorEnds == []<>(~Stranded /\ ~Jammed) => (appPc = "dtorClose" ~> appPc = "gone")

\* The future of connect(uri) becomes ready, or its promise is destroyed with the
\* connection: only a client that keeps a failed connection in _con leaves the
\* waiting thread waiting (112).
FutureSettles ==
    \A k \in Conns :
        []<>(con # k /\ ~Jammed) =>
            (future[k] = "pending" ~> (future[k] = "ready" \/ (state[k] = "closed" /\ con # k)))

\* A value inside an array or struct as it arrives: bytes in it arrive as their
\* base64 text, because only a parameter says that its string stands for bytes
\* (serialization.cpp:77); a double that is not finite arrives as no value at all.
Element(v) ==
    CASE v.type = "byte_array" -> [type |-> "string", val |-> base64Encode(v.val)]
      [] v.type = "double" /\ v.val = <<>> -> NotSet
      [] OTHER -> v

Value(v) ==
    CASE v.type = "byte_array" -> v
      [] v.type \in {"array", "struct"} -> [v EXCEPT !.val = Each(Element, @)]
      [] OTHER -> Element(v)

Parameters(ps) == Each(LAMBDA p : [p EXCEPT !.value = Value(@)], ps)

\* What is meant, as far as the protocol carries it.
Meant(m) ==
    CASE m.op = "setParameters"   -> [m EXCEPT !.parameters = Parameters(@)]
      [] m.op = "parameterValues" ->
            [m EXCEPT !.parameters = Parameters(WithValue(@))]
      [] m.op = "advertise" /\ "channels" \in DOMAIN m ->
            [m EXCEPT !.channels = Each(LAMBDA a : [a EXCEPT !.schema = <<>>], @)]
      [] m.op \in {"subscribeParameterUpdates", "unsubscribeParameterUpdates"} ->
            [m EXCEPT !.parameterNames = ToSet(@)]
      [] m.op = "asset" -> IF m.status = 1 THEN [m EXCEPT !.data = <<>>] ELSE m
      [] OTHER -> m

\* A response with the length of an error message and without the message (1539).
Garbled(m) == m.op = "asset" /\ m.status = 0 /\ m.errorMessage # <<>>

\* What a handler of the server reads is what the application meant by its call,
\* and what a handler of the client reads is what the server meant.
MessagesSurvive ==
    \A d \in {handled, shown} : Garbled(d.meant) \/ d.read = Meant(d.meant)
=============================================================================
