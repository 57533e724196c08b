------------------------------- MODULE Bridge -------------------------------
(***************************************************************************)
(* The sender program (dora/main.cc) and the bridge                        *)
(* (examples/src/laser_scan_server.cpp) with the TCP connections between   *)
(* them.                                                                   *)
(*                                                                         *)
(* The sender runs one thread per kind of message that connects, writes    *)
(* the length, writes the data and sleeps, for ever; errors are logged and *)
(* the next round is the retry.  The bridge listens on the port of the     *)
(* first kind, takes one message, goes on with the next kind, and only     *)
(* then starts its server and broadcasts what it got, once a second, until *)
(* SIGINT.  Nobody listens on the port of a kind before or after its turn. *)
(***************************************************************************)
EXTENDS WireFormat

CONSTANTS
    Messages,        \* the triples scan, cloud, path the sender may have
    Ticks,           \* resolution of stamps: ticks in a second
    MaxConnections,  \* bound: connections waiting on a port
    MaxCrashes,      \* bound: how often the sender program dies
    None             \* nothing received yet

Kinds == 1..3   \* in the order of the receives: scan, cloud, path

ASSUME BridgeAssumption ==
    /\ Ticks \in Nat \ {0}
    /\ MaxConnections \in Nat \ {0}
    /\ MaxCrashes \in Nat

\* A message of the sender is shorter than an uint32_t can count, and so is
\* whatever it is made of.
ASSUME MessagesAssumption ==
    /\ Messages \subseteq LaserScans \X PointClouds \X Paths
    /\ \A m \in Messages : /\ Len(LaserScanSerialize(m[1])) < TwoTo32
                           /\ Len(PointCloud2Serialize(m[2])) < TwoTo32
                           /\ Len(PathSerialize(m[3])) < TwoTo32

VARIABLES
    msgs,      \* kind -> the message the sender has; never changes
    spc,       \* kind -> where the sender's thread is
    socket,    \* kind -> its socket is the last of conns[kind]
    conns,     \* kind -> connections on the port: bytes sent, end of stream
    phase,     \* the bridge: "receiving", "serving", "stopped", "terminated"
    turn,      \* the kind it receives, then broadcasts
    rpc,       \* where receive() is
    length,    \* data_length
    buffer,    \* kind -> bytes read, of which receivedScan etc. are made
    published, \* kinds broadcast so far
    running,   \* the flag SIGINT clears
    crashes    \* how often the sender died

senderVars == <<spc, socket>>
bridgeVars == <<phase, turn, rpc, length, buffer, published, running>>
vars == <<msgs, spc, socket, conns, phase, turn, rpc, length, buffer,
          published, running, crashes>>

\* main() of the sender makes the messages once; their stamps, their seq and the
\* seven floats of the scan are never set, so Messages has several values of them.
Init ==
    /\ msgs \in Messages
    /\ spc = [k \in Kinds |-> "connect"]
    /\ socket = [k \in Kinds |-> FALSE]
    /\ conns = [k \in Kinds |-> <<>>]
    /\ phase = "receiving" /\ turn = 1 /\ rpc = "listen" /\ length = 0
    /\ buffer = [k \in Kinds |-> None]
    /\ published = {}
    /\ running = TRUE
    /\ crashes = 0

-----------------------------------------------------------------------------
(* sender program *)

Serialize(k) ==
    CASE k = 1 -> LaserScanSerialize(msgs[k])
      [] k = 2 -> PointCloud2Serialize(msgs[k])
      [] k = 3 -> PathSerialize(msgs[k])

Listening(k) == phase = "receiving" /\ turn = k /\ rpc # "listen"

\* The end of the stream the sender's current socket writes to.
HangUp(k) ==
    IF socket[k] THEN [conns[k] EXCEPT ![Len(conns[k])].eof = TRUE] ELSE conns[k]

\* asio::connect closes the old socket and connects anew; it is refused, and
\* the error logged, if the bridge does not listen.
SendConnect(k) ==
    /\ spc[k] = "connect"
    /\ \/ /\ Listening(k)
          /\ Len(conns[k]) < MaxConnections
          /\ conns' = [conns EXCEPT ![k] = Append(HangUp(k), [bytes |-> <<>>, eof |-> FALSE])]
          /\ socket' = [socket EXCEPT ![k] = TRUE]
          /\ spc' = [spc EXCEPT ![k] = "length"]
       \/ /\ ~Listening(k)
          /\ conns' = [conns EXCEPT ![k] = HangUp(k)]
          /\ socket' = [socket EXCEPT ![k] = FALSE]
          /\ spc' = [spc EXCEPT ![k] = "sleep"]
    /\ UNCHANGED <<msgs, bridgeVars, crashes>>

\* A write succeeds, in one step: a crash within the data is for the reader what
\* a crash before the data is.  If the bridge has dropped the connection it may
\* also fail, which ends this round.
Write(k, bytes, next) ==
    \/ /\ conns' = IF socket[k]
                     THEN [conns EXCEPT ![k][Len(conns[k])].bytes = @ \o bytes]
                     ELSE conns
       /\ spc' = [spc EXCEPT ![k] = next]
    \/ /\ ~socket[k]
       /\ spc' = [spc EXCEPT ![k] = "sleep"]
       /\ UNCHANGED conns

\* Faulty variant: the second write is missing.
SendLengthOnly(k) ==
    /\ spc[k] = "length"
    /\ Write(k, PutSize(Len(Serialize(k))), "sleep")
    /\ UNCHANGED <<msgs, socket, bridgeVars, crashes>>

SendLength(k) ==
    /\ spc[k] = "length"
    /\ Write(k, PutSize(Len(Serialize(k))), "data")
    /\ UNCHANGED <<msgs, socket, bridgeVars, crashes>>

SendData(k) ==
    /\ spc[k] = "data"
    /\ Write(k, Serialize(k), "sleep")
    /\ UNCHANGED <<msgs, socket, bridgeVars, crashes>>

\* Faulty variant: there is no next round.
SendSleepOnce(k) ==
    /\ spc[k] = "sleep"
    /\ UNCHANGED vars

\* sleep_for one second, then the next round
SendSleep(k) ==
    /\ spc[k] = "sleep"
    /\ spc' = [spc EXCEPT ![k] = "connect"]
    /\ UNCHANGED <<msgs, socket, conns, bridgeVars, crashes>>

SendStep(k) == SendConnect(k) \/ SendLength(k) \/ SendData(k) \/ SendSleep(k)

Alive == \A k \in Kinds : spc[k] # "dead"

\* The sender program dies; its sockets are closed.  It may be started again.
SenderCrash ==
    /\ Alive
    /\ crashes < MaxCrashes
    /\ crashes' = crashes + 1
    /\ conns' = [k \in Kinds |-> HangUp(k)]
    /\ socket' = [k \in Kinds |-> FALSE]
    /\ spc' = [k \in Kinds |-> "dead"]
    /\ UNCHANGED <<msgs, bridgeVars>>

SenderRestart ==
    /\ ~Alive
    /\ spc' = [k \in Kinds |-> "connect"]
    /\ UNCHANGED <<msgs, socket, conns, bridgeVars, crashes>>

-----------------------------------------------------------------------------
(* bridge program *)

\* The acceptor of the kind whose turn it is.
ReceiveListen ==
    /\ phase = "receiving"
    /\ rpc = "listen"
    /\ rpc' = "accept"
    /\ UNCHANGED <<msgs, senderVars, conns, phase, turn, length, buffer,
                   published, running, crashes>>

ReceiveAccept ==
    /\ phase = "receiving"
    /\ rpc = "accept"
    /\ conns[turn] # <<>>
    /\ rpc' = "length"
    /\ UNCHANGED <<msgs, senderVars, conns, phase, turn, length, buffer,
                   published, running, crashes>>

\* asio::read of n bytes: waits for them, throws at the end of the stream.
Readable(n) == Len(Head(conns[turn]).bytes) >= n
Broken(n)   == ~Readable(n) /\ Head(conns[turn]).eof

ReceiveLength ==
    /\ phase = "receiving"
    /\ rpc = "length"
    /\ Readable(U32)
    /\ length' = GetSize(Head(conns[turn]).bytes, 0, U32)
    /\ rpc' = "data"
    /\ UNCHANGED <<msgs, senderVars, conns, phase, turn, buffer,
                   published, running, crashes>>

\* receive() returns: its socket and its acceptor are gone, with every
\* connection on the port; the thread is joined and the next kind has its turn.
ReceiveData ==
    /\ phase = "receiving"
    /\ rpc = "data"
    /\ Readable(U32 + length)
    /\ buffer' = [buffer EXCEPT ![turn] =
                     SubSeq(Head(conns[turn]).bytes, U32 + 1, U32 + length)]
    /\ conns' = [conns EXCEPT ![turn] = <<>>]
    /\ socket' = [socket EXCEPT ![turn] = FALSE]
    /\ rpc' = "listen" /\ length' = 0
    /\ IF turn = 3
         THEN phase' = "serving" /\ turn' = 1
         ELSE turn' = turn + 1 /\ UNCHANGED phase
    /\ UNCHANGED <<msgs, spc, published, running, crashes>>

\* The exception of a broken read leaves the receiver thread: std::terminate.
ReceiveFail ==
    /\ phase = "receiving"
    /\ rpc \in {"length", "data"}
    /\ Broken(IF rpc = "length" THEN U32 ELSE U32 + length)
    /\ phase' = "terminated"
    /\ conns' = [k \in Kinds |-> <<>>]
    /\ socket' = [k \in Kinds |-> FALSE]
    /\ UNCHANGED <<msgs, spc, turn, rpc, length, buffer, published, running, crashes>>

\* One round of the loop broadcasts the three kinds in turn; the flag is looked
\* at only before the first.
Broadcast ==
    /\ phase = "serving"
    /\ turn = 1 => running
    /\ published' = published \cup {turn}
    /\ turn' = IF turn = 3 THEN 1 ELSE turn + 1
    /\ UNCHANGED <<msgs, senderVars, conns, phase, rpc, length, buffer, running, crashes>>

Stop ==
    /\ phase = "serving"
    /\ turn = 1
    /\ ~running
    /\ phase' = "stopped"
    /\ UNCHANGED <<msgs, senderVars, conns, turn, rpc, length, buffer,
                   published, running, crashes>>

\* SIGINT, once the handler is installed
Interrupt ==
    /\ phase = "serving"
    /\ running
    /\ running' = FALSE
    /\ UNCHANGED <<msgs, senderVars, conns, phase, turn, rpc, length, buffer,
                   published, crashes>>

BridgeStep ==
    \/ ReceiveListen \/ ReceiveAccept \/ ReceiveLength \/ ReceiveData \/ ReceiveFail
    \/ Broadcast \/ Stop

-----------------------------------------------------------------------------
(* What the bridge makes of the bytes *)

\* receivedScan, receivedCloud, receivedPath, and the offset deserialize() ends at
Received(k) ==
    CASE k = 1 -> LaserScanDeserialize(buffer[k])
      [] k = 2 -> PointCloud2Deserialize(buffer[k])
      [] k = 3 -> PathDeserialize(buffer[k])

\* foxglove::Time(stamp, stamp - sec), both arguments converted to uint32_t.
Time(stamp) ==
    LET sec == stamp \div Ticks
    IN  [sec |-> sec, nsec |-> (stamp - sec * Ticks) \div Ticks]

CreateType(type) == IF type \in 0..8 THEN type ELSE 0

\* The flatbuffer made of what was received.
Message(k) ==
    LET msg  == Received(k).value
        time == Time(msg.header.stamp) IN
    CASE k = 1 -> [timestamp |-> time, frame_id |-> msg.header.frame_id,
                   start_angle |-> msg.floats[1], end_angle |-> msg.floats[2],
                   ranges |-> msg.ranges, intensities |-> msg.intensities]
      [] k = 2 -> [timestamp |-> time, frame_id |-> msg.header.frame_id,
                   point_stride |-> msg.point_step,
                   fields |-> [i \in DOMAIN msg.fields |->
                                 [name |-> msg.fields[i].name, offset |-> msg.fields[i].offset,
                                  type |-> CreateType(msg.fields[i].datatype)]],
                   data |-> msg.data]
      [] k = 3 -> [timestamp |-> time, frame_id |-> msg.header.frame_id, poses |-> msg.points]

-----------------------------------------------------------------------------
Next ==
    \/ \E k \in Kinds : SendStep(k)
    \/ SenderCrash \/ SenderRestart
    \/ BridgeStep
    \/ Interrupt

Spec == Init /\ [][Next]_vars

\* Every thread that can go on does.
FairSpec ==
    /\ Spec
    /\ \A k \in Kinds : WF_vars(SendStep(k))
    /\ WF_vars(BridgeStep)

-----------------------------------------------------------------------------
(* Properties *)

\* Types of the control state; a thread's socket is a connection of its kind.
TypeOK ==
    /\ spc \in [Kinds -> {"connect", "length", "data", "sleep", "dead"}]
    /\ socket \in [Kinds -> BOOLEAN]
    /\ \A k \in Kinds : socket[k] => conns[k] # <<>> /\ ~conns[k][Len(conns[k])].eof
    /\ \A k \in Kinds : conns[k] # <<>> => Listening(k)
    /\ phase \in {"receiving", "serving", "stopped", "terminated"}
    /\ turn \in Kinds
    /\ rpc \in {"listen", "accept", "length", "data"}
    /\ length \in Nat
    /\ running \in BOOLEAN
    /\ crashes \in 0..MaxCrashes

\* What the bridge holds is what the sender sent, field by field, whatever
\* connections were refused, dropped or left over: deserialize() inverts
\* serialize(), reading to the last byte and not beyond, and no stream starts in
\* the middle of a message.  What it broadcasts has the second of the stamp and
\* never its fraction, which is not scaled to nanoseconds (151, 174, 204).
ReceivedIsSent ==
    /\ TypeOK
    /\ \A k \in Kinds :
         /\ buffer[k] # None => Received(k) = [value |-> msgs[k], offset |-> Len(buffer[k])]
         /\ k \in published => Message(k).timestamp = [sec |-> msgs[k].header.stamp \div Ticks, nsec |-> 0]

\* Only the death of the sender in the middle of a message ends the bridge: its
\* retries and its connections left in the backlog do not.
TerminatedByCrash == phase = "terminated" => crashes > 0

\* While the sender stays alive from some time on, the bridge gets all three
\* messages, although it listens for one kind at a time and the sender's first
\* attempts are refused; or it has been terminated before.
BridgeStarts == <>[]Alive => <>(phase # "receiving")
=============================================================================
