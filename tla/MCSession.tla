------------------------------ MODULE MCSession ------------------------------
(***************************************************************************)
(* Instances of Session for TLC: a super user and a limited one.           *)
(***************************************************************************)
EXTENDS Session

CONSTANTS sue, lee

MCRoleOf == [u \in Usrs |-> IF u = sue THEN "super" ELSE "limited"]
=============================================================================
