----------------------------- MODULE MCServices -----------------------------
(* Services for TLC: one service, two, and one followed by an invalid one.  *)
EXTENDS Services

CONSTANTS n1, n2

MCNames == {n1, n2}

Entry(name, valid) == [name |-> name, valid |-> valid]

MCPayloads ==
    {<<Entry(n1, TRUE)>>, <<Entry(n2, TRUE)>>,
     <<Entry(n1, TRUE), Entry(n2, TRUE)>>, <<Entry(n2, TRUE), Entry(n1, FALSE)>>}
=============================================================================
