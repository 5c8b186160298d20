------------------------------- MODULE Catalog -------------------------------
(***************************************************************************)
(* What the document store promises its clients about the tree: entries    *)
(* appear one at a time, a file together with its doc, a name is used once *)
(* in a folder, and a deletion removes an entry with everything below it   *)
(* at once.                                                                *)
(***************************************************************************)
EXTENDS Access

CONSTANTS NodeIds, Names, Roots

VARIABLES nodes, docs

cvars == <<nodes, docs>>

Entry == [id : NodeIds, path : Seq(NodeIds), type : {"folder", "file"},
          name : Names \cup Roots]

Init == /\ nodes = {[id |-> r, path |-> <<r>>, type |-> "folder", name |-> r] : r \in Roots}
        /\ docs = {}

Siblings(p, q) == Len(p) = Len(q) /\ \A i \in 1 .. Len(p) - 1 : p[i] = q[i]

\* A new entry, under a name its folder does not have yet.
Publish ==
    \E row \in nodes' :
        /\ row \in Entry
        /\ row.path[Len(row.path)] = row.id
        /\ \A n \in nodes : n.id # row.id /\ ~(Siblings(n.path, row.path) /\ n.name = row.name)
        /\ nodes' = nodes \cup {row}
        /\ docs' = IF row.type = "file" THEN docs \cup {row.id} ELSE docs

\* An entry and all that is below it disappear.
Withdraw ==
    \E t \in nodes :
        LET gone == {n \in nodes : Under(n.path, t.path)}
        IN  /\ nodes' = nodes \ gone
            /\ docs' = docs \ {n.id : n \in gone}

Next == Publish \/ Withdraw

Spec == Init /\ [][Next]_cvars
=============================================================================
