------------------------------ MODULE MCSharing ------------------------------
(***************************************************************************)
(* Instances of Sharing for TLC: two super users, a normal one and a       *)
(* limited one; sue and nora are the accounts that may be there already.   *)
(***************************************************************************)
EXTENDS Sharing, TLC

CONSTANTS sue, sam, nora, lee, name1, name2, name3

MCRoleOf == [u \in UsrIds |-> CASE u \in {sue, sam} -> "super"
                                [] u = nora -> "normal"
                                [] u = lee -> "limited"]
MCFirstName == [u \in Settled |-> IF u = sue THEN name1 ELSE name2]
Symmetric == Permutations(Requests)
=============================================================================
