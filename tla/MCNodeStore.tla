----------------------------- MODULE MCNodeStore -----------------------------
(***************************************************************************)
(* Instances of NodeStore for TLC: one group, whose grant is over the root *)
(* folder, a writer "w" and a reader "l" of limited role.                  *)
(***************************************************************************)
EXTENDS NodeStore, TLC

CONSTANTS root, g, w, l

MCRoots == {root}
MCGroups == {g}
MCWriter == {w}
MCBoth == {w, l}
MCRole == [u \in Usrs |-> IF u = w THEN "normal" ELSE "limited"]
MCMembers == {[group |-> g, usr |-> u, access |-> IF u = w THEN "write" ELSE "read_only"]
                 : u \in Usrs}
MCRootGrants == {<<g, root>>}

\* Ids other than the root's, and the request slots, are interchangeable.
Symmetric == Permutations(NodeIds \ Roots) \cup Permutations(Requests)
=============================================================================
