----------------------------- MODULE MCNodePage -----------------------------
(***************************************************************************)
(* Instances of NodePage for TLC: a root folder, a folder in it with a     *)
(* file, and one more folder and file that may be made.                    *)
(***************************************************************************)
EXTENDS NodePage

CONSTANTS root, sub, file, made, sent

MCTypeOf == [n \in NodeIds |-> IF n \in {file, sent} THEN "file" ELSE "folder"]
MCPlaced == [n \in {root, sub, file} |-> CASE n = root -> <<>>
                                          [] n = sub  -> <<root>>
                                          [] n = file -> <<root, sub>>]
MCAccounts == {<<"normal", "write">>, <<"limited", "owner">>}
=============================================================================
