-------------------------- MODULE MCServerChannels --------------------------
(* ServerChannels for TLC: the payloads clients send. *)
EXTENDS ServerChannels

CONSTANTS s1, s2   \* the members of SubIds

Requests == [id : SubIds, chan : ChannelIds]

\* Any single entry, and two entries with the ids s1, s2 and any channels.
MCSubscribePayloads ==
    [1..1 -> Requests]
      \cup {<<[id |-> s1, chan |-> c], [id |-> s2, chan |-> d]>> : c, d \in ChannelIds}

\* Any single id, two different ones, and one id twice.
MCUnsubscribePayloads == [1..1 -> SubIds] \cup {<<s1, s2>>, <<s1, s1>>}
=============================================================================
