---------------------------- MODULE MCGroupPage ----------------------------
(***************************************************************************)
(* Instances of GroupPage for TLC: two groups, one account to assign, a    *)
(* root folder with one file in it.                                        *)
(***************************************************************************)
EXTENDS GroupPage

CONSTANTS root, file

MCChildren == [f \in {root} |-> {file}]
=============================================================================
