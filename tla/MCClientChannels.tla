-------------------------- MODULE MCClientChannels --------------------------
(* ClientChannels for TLC: the payloads clients send. *)
EXTENDS ClientChannels

CONSTANTS c1, c2   \* the members of ClientChannelIds

Listed(c)   == [id |-> c, listed |-> TRUE]
Unlisted(c) == [id |-> c, listed |-> FALSE]

\* One channel, two different ones, one twice, and one with a refused topic first.
MCAdvertisePayloads ==
    {<<Listed(c)>> : c \in ClientChannelIds}
      \cup {<<Listed(c1), Listed(c2)>>, <<Listed(c1), Listed(c1)>>, <<Unlisted(c1), Listed(c2)>>}

\* Nothing, one channel, two different ones, and one twice.
MCUnadvertisePayloads ==
    {<<>>, <<c1>>, <<c2>>, <<c1, c2>>, <<c1, c1>>}
=============================================================================
