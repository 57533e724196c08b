-------------------------- MODULE MCConnectionGraph --------------------------
(* ConnectionGraph for TLC. *)
EXTENDS ConnectionGraph, TLC

CONSTANTS i1, i2

\* A graph with the given ids of the only name in each role.
G(p, s, v) ==
    [r \in Roles |-> [n \in Names |->
        CASE r = "published" -> p [] r = "subscribed" -> s [] OTHER -> v]]

\* Published or not, subscribed or not, with one set of ids or another.
MCGraphs == {G(i1, Absent, i1), G(i2, i1, Absent), G(Absent, i1, i1), Empty}

\* Clients and updating threads are interchangeable.
Symmetry == Permutations(Clients) \cup Permutations(Updaters)
=============================================================================
