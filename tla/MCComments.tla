---------------------------- MODULE MCComments ----------------------------
(***************************************************************************)
(* Instances of Comments for TLC: two nodes, at most two comments.         *)
(***************************************************************************)
EXTENDS Comments

CONSTANTS n1, n2, c1, c2, other

MCAccounts == {<<"super", "read_only">>, <<"normal", "read_only">>, <<"limited", "owner">>}
MCWritten(c, n, a) == [id |-> c, on |-> n, by |-> a, edited |-> FALSE]
MCStarts == {{MCWritten(c1, n1, Me)}, {MCWritten(c1, n1, other), MCWritten(c2, n2, Me)}}
=============================================================================
