------------------------------- MODULE Access -------------------------------
(***************************************************************************)
(* The authorization rules of the system: what a role may do, how the four *)
(* access levels of a group membership compare, and how a membership in a  *)
(* group reaches a node of the tree.                                       *)
(*                                                                         *)
(* A node path is the ltree path of the row: the sequence of labels from   *)
(* the root folder to the node.  Every label is the id of a node (a root   *)
(* folder's label is its own id here, where the code writes "usrs" and     *)
(* "shared").                                                              *)
(***************************************************************************)
EXTENDS Naturals, Sequences

Roles == {"super", "normal", "limited"}

AccessLevels == {"read_only", "write", "write_delete", "owner"}

\* domain.GroupAccessRank and the CASE of the access queries.
Rank(a) == CASE a = "read_only"    -> 1
             [] a = "write"        -> 2
             [] a = "write_delete" -> 3
             [] a = "owner"        -> 4

IsEquivalent(a, b) == Rank(a) >= Rank(b)

\* Mutant: the rule about super users is missing.
IsValidAccessToRole_AnySuper(a, role) == role = "limited" => a = "read_only"

\* The access that may be assigned by hand to a user of the role.
IsValidAccessToRole(a, role) ==
    \/ role = "normal"
    \/ role = "limited" /\ a = "read_only"

\* The Can... predicates of a role: all but the two about users agree.
CanManageUsrs(role) == role = "super"
CanChangeTree(role) == role \in {"super", "normal"}

\* ltree's  p <@ q : q is p or one of its ancestors.
Under(p, q) == /\ Len(q) <= Len(p)
               /\ \A i \in 1 .. Len(q) : p[i] = q[i]

(***************************************************************************)
(* The grants user u has over a path: its memberships in the groups one of *)
(* whose nodes (still a row of the nodes table) is on the path.            *)
(***************************************************************************)
Grants(groupUsrs, groupNodes, nodes, u, path) ==
    {m \in groupUsrs :
        /\ m.usr = u
        /\ \E n \in nodes : /\ <<m.group, n.id>> \in groupNodes
                            /\ Under(path, n.path)}

HasAccessFromPath(groupUsrs, groupNodes, nodes, u, path, req) ==
    \E m \in Grants(groupUsrs, groupNodes, nodes, u, path) :
        IsEquivalent(m.access, req)

\* By id the target has to be a row too: the query joins it.
HasAccess(groupUsrs, groupNodes, nodes, u, id, req) ==
    \E t \in nodes :
        /\ t.id = id
        /\ HasAccessFromPath(groupUsrs, groupNodes, nodes, u, t.path, req)
=============================================================================
