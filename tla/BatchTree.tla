------------------------------ MODULE BatchTree ------------------------------
(***************************************************************************)
(* The batch upload: one request that brings a manifest of files, by their *)
(* relative paths, and then the files, one after the other.  Execute turns *)
(* the manifest into rows, stores each file as it arrives, records all the *)
(* rows in one transaction, and on any failure hands the contents already  *)
(* stored to a pool of background workers that removes them.               *)
(*                                                                         *)
(* A batch is one Execute call that has passed the access check and the    *)
(* look at its parent, which change nothing.  The parent row is not kept:  *)
(* the paths of the rows here begin below it.                              *)
(***************************************************************************)
EXTENDS Naturals, SequencesExt

CONSTANTS
    Batches,      \* the calls of Execute
    Paths,        \* relative paths: sequences of names
    Announced,    \* sizes a manifest may announce
    MaxSize,      \* bound on the size of a file that is sent
    MaxEntries,   \* bound on the entries of a manifest
    Parallel,     \* BackgroundCleanupParallelCount
    Faults        \* the failures an instance allows

(***************************************************************************)
(* "cut"    : the body ends with an error in the middle of a file          *)
(* "close"  : closing the stored file reports an error                     *)
(* "remove" : removing a stored file fails                                 *)
(* "crash"  : the server stops                                             *)
(***************************************************************************)
FaultKinds == {"cut", "close", "remove", "crash"}

ASSUME PathsAssumption == \A p \in Paths : p \in Seq(STRING) /\ p # <<>>
ASSUME SizesAssumption == Announced \subseteq Nat /\ MaxSize \in Nat
ASSUME BoundsAssumption == MaxEntries \in Nat \ {0} /\ Parallel \in Nat
ASSUME FaultsAssumption == Faults \subseteq FaultKinds

VARIABLES
    batch,     \* the state of each batch, see Batch
    cleanup,   \* the cleanup pool of each batch, see Pool
    blobs,     \* the storage directory, see Content
    stray      \* ghost: keys whose removal failed, or that a crash has left

bvars == <<batch, cleanup, blobs, stray>>

Entry == [path : Paths, size : Announced]

\* The id of a row, which is the position in the manifest of the name it was made
\* for.  A storage key is the id of a file's row, and of no other batch's.
Id == (1 .. MaxEntries) \X (Nat \ {0})

\* A file of the directory, and the bytes written to it.  It is "whole" once Put has
\* closed it, and "torn" if closing it failed and Put could not remove it: what it
\* keeps of those bytes is unknown.
Content == [batch : Batches, id : Id, bytes : Nat, state : {"part", "whole", "torn"}]

Pcs == {"idle", "files", "copy", "tx", "cleaning", "ended"}

NoTree == [ok |-> TRUE, docs |-> {}, folders |-> {}, nodes |-> {}, at |-> <<>>]

\* manifest and tree: what was announced and what processManifest made of it;
\* resolved: the paths whose content is stored; file: the doc being received.
Batch == [pc : Pcs, manifest : Seq(Entry),
          docs : SUBSET [path : Paths, id : Id, size : Announced],
          nodes : SUBSET [id : Id, path : Seq(Id), name : STRING,
                          type : {"folder", "file"}],
          resolved : SUBSET Paths, file : Id \cup {<<>>}]

\* left: keys not yet handed to a worker; held: those workers hold;
\* workers: how many are running.
Pool == [left : SUBSET Id, held : SUBSET Id, workers : Nat]

NoPool == [left |-> {}, held |-> {}, workers |-> 0]

Idle == [pc |-> "idle", manifest |-> <<>>, docs |-> {}, nodes |-> {},
         resolved |-> {}, file |-> <<>>]

BatchTypeOK ==
    /\ batch \in [Batches -> Batch]
    /\ cleanup \in [Batches -> Pool]
    /\ blobs \subseteq Content
    /\ stray \subseteq Batches \X Id

BatchInit ==
    /\ batch = [b \in Batches |-> Idle]
    /\ cleanup = [b \in Batches |-> NoPool]
    /\ blobs = {}
    /\ stray = {}

-----------------------------------------------------------------------------
(***************************************************************************)
(* processManifest.  A tree in progress: its docs and folders by relative  *)
(* path, its rows, the path of ids walked so far, and whether no entry has *)
(* been refused.                                                           *)
(***************************************************************************)
\* Mutant: a folder that is found again does not become the current parent.
Segment_StaysAbove(tree, e, i, j) ==
    LET dir == SubSeq(e.path, 1, j)
        id == <<i, j>>
        path == Append(tree.at, id)
        row == [id |-> id, path |-> path, name |-> e.path[j], type |-> "folder"]
    IN  IF \E f \in tree.folders : f.path = dir
        THEN tree
        ELSE IF j = Len(e.path)
        THEN [tree EXCEPT !.docs = @ \cup {[path |-> dir, id |-> id, size |-> e.size]},
                          !.nodes = @ \cup {[row EXCEPT !.type = "file"]}]
        ELSE [tree EXCEPT !.folders = @ \cup {[path |-> dir, id |-> id]},
                          !.nodes = @ \cup {row}, !.at = path]

\* Name j of entry i: an existing folder is walked into, even by the last name
\* of the entry, which then gets no doc; else a row is made for it.
Segment(tree, e, i, j) ==
    LET dir == SubSeq(e.path, 1, j)
        id == <<i, j>>
        path == Append(tree.at, id)
        row == [id |-> id, path |-> path, name |-> e.path[j], type |-> "folder"]
        found == {f \in tree.folders : f.path = dir}
    IN  IF found # {}
        THEN [tree EXCEPT !.at = Append(@, (CHOOSE f \in found : TRUE).id)]
        ELSE IF j = Len(e.path)
        THEN [tree EXCEPT !.docs = @ \cup {[path |-> dir, id |-> id, size |-> e.size]},
                          !.nodes = @ \cup {[row EXCEPT !.type = "file"]}]
        ELSE [tree EXCEPT !.folders = @ \cup {[path |-> dir, id |-> id]},
                          !.nodes = @ \cup {row}, !.at = path]

\* The names of entry i, from the first to the last.
Walk(tree, e, i) ==
    LET walk[j \in 0 .. Len(e.path)] ==
            IF j = 0 THEN [tree EXCEPT !.at = <<>>] ELSE Segment(walk[j - 1], e, i, j)
    IN  walk

\* A path that has a doc already is refused.
AddEntry(tree, e, i) ==
    IF \E d \in tree.docs : d.path = e.path
    THEN [tree EXCEPT !.ok = FALSE]
    ELSE Walk(tree, e, i)[Len(e.path)]

Trees(man) ==
    LET trees[i \in 0 .. Len(man)] ==
            IF i = 0 THEN NoTree ELSE AddEntry(trees[i - 1], man[i], i)
    IN  trees

processManifest(man) == Trees(man)[Len(man)]

-----------------------------------------------------------------------------
BlobAt(b, id) == {c \in blobs : c.batch = b /\ c.id = id}

Written(b, id, bytes, state) ==
    (blobs \ BlobAt(b, id))
        \cup {[batch |-> b, id |-> id, bytes |-> bytes, state |-> state]}

\* os.Remove: a file that is not there is no error.
RemoveBlob(b, id) ==
    \/ blobs' = blobs \ BlobAt(b, id) /\ stray' = stray \ {<<b, id>>}
    \/ "remove" \in Faults /\ stray' = stray \cup {<<b, id>>} /\ UNCHANGED blobs

\* processCleanStorage, called with the docs of the given paths by an Execute
\* that answers an error: the answer does not wait for the pool.
Fail(b, paths) ==
    LET keys == {d.id : d \in {x \in batch[b].docs : x.path \in paths}}
    IN  /\ batch' = [batch EXCEPT ![b].pc = "cleaning"]
        /\ cleanup' = [cleanup EXCEPT ![b] =
                          [left |-> keys, held |-> {},
                           workers |-> Max({Min({Parallel, Cardinality(keys)}), 1})]]

\* A manifest that is accepted; a refused one is answered and changes nothing.
Begin(b) ==
    /\ batch[b].pc = "idle"
    /\ \E man \in BoundedSeq(Entry, MaxEntries) \ {<<>>} :
          LET tree == processManifest(man)
          IN  /\ tree.ok
              /\ batch' = [batch EXCEPT ![b] =
                    [pc |-> "files", manifest |-> man, docs |-> tree.docs,
                     nodes |-> tree.nodes, resolved |-> {}, file |-> <<>>]]
    /\ UNCHANGED <<cleanup, blobs, stray>>

\* The next part is a file of the manifest, of the announced type: Put opens
\* it, and truncates what an earlier part of the same path has stored.
Open(b) ==
    /\ batch[b].pc = "files"
    /\ \E d \in batch[b].docs :
          /\ batch' = [batch EXCEPT ![b].pc = "copy", ![b].file = d.id]
          /\ blobs' = Written(b, d.id, 0, "part")
    /\ UNCHANGED <<cleanup, stray>>

\* The next part is another file or no file at all, has another type or cannot
\* be read, or the file for its content cannot be opened.
Refuse(b) ==
    /\ batch[b].pc = "files"
    /\ Fail(b, batch[b].resolved)
    /\ UNCHANGED <<blobs, stray>>

\* Mutants: a path is marked after the sizes are compared; they are not compared.
Stored_MarkedLate(b, d, n) ==
    \/ /\ n = d.size
       /\ batch' = [batch EXCEPT ![b].pc = "files", ![b].resolved = @ \cup {d.path}]
       /\ UNCHANGED cleanup
    \/ n # d.size /\ Fail(b, batch[b].resolved)

Stored_AnySize(b, d, n) ==
    /\ n \in Nat
    /\ batch' = [batch EXCEPT ![b].pc = "files", ![b].resolved = @ \cup {d.path}]
    /\ UNCHANGED cleanup

\* Put has answered n bytes: the path is resolved, and a wrong size is an error.
Stored(b, d, n) ==
    \/ /\ n = d.size
       /\ batch' = [batch EXCEPT ![b].pc = "files", ![b].resolved = @ \cup {d.path}]
       /\ UNCHANGED cleanup
    \/ n # d.size /\ Fail(b, batch[b].resolved \cup {d.path})

(***************************************************************************)
(* Put copies a body of n bytes.  A body longer than announced, and one    *)
(* that breaks off, are errors that remove the file.  When closing it      *)
(* fails Put removes the file too, and answers a success whether the file  *)
(* is gone or not: the error of os.Remove is dropped.                      *)
(***************************************************************************)
Copy(b) ==
    /\ batch[b].pc = "copy"
    /\ \E d \in batch[b].docs, n \in 0 .. MaxSize :
          /\ d.id = batch[b].file
          /\ \/ /\ n <= d.size
                /\ blobs' = Written(b, d.id, n, "whole")
                /\ Stored(b, d, n)
                /\ UNCHANGED stray
             \/ /\ n <= d.size
                /\ "close" \in Faults
                /\ \/ blobs' = blobs \ BlobAt(b, d.id)
                   \/ "remove" \in Faults /\ blobs' = Written(b, d.id, n, "torn")
                /\ Stored(b, d, n)
                /\ UNCHANGED stray
             \/ /\ n > d.size \/ "cut" \in Faults
                /\ RemoveBlob(b, d.id)
                /\ Fail(b, batch[b].resolved)

\* io.EOF, and then the look for entries without a file.
NoMoreFiles(b) ==
    /\ batch[b].pc = "files"
    /\ \/ /\ \A d \in batch[b].docs : d.path \in batch[b].resolved
          /\ batch' = [batch EXCEPT ![b].pc = "tx"]
          /\ UNCHANGED cleanup
       \/ /\ \E d \in batch[b].docs : d.path \notin batch[b].resolved
          /\ Fail(b, batch[b].resolved)
    /\ UNCHANGED <<blobs, stray>>

(***************************************************************************)
(* The transaction.  CreateAll joins its statement from a raw string, in   *)
(* which \n is two characters, and whose VALUES list is not closed: the    *)
(* database refuses the statement whatever the rows are, so no row of a    *)
(* batch is ever written and Execute always takes its error path.          *)
(***************************************************************************)
RecordAll(b) ==
    /\ batch[b].pc = "tx"
    /\ Fail(b, {d.path : d \in batch[b].docs})
    /\ UNCHANGED <<blobs, stray>>

\* The feeder hands a key to a free worker: the channel holds nothing.
Feed(b) ==
    /\ Cardinality(cleanup[b].held) < cleanup[b].workers
    /\ \E k \in cleanup[b].left :
          cleanup' = [cleanup EXCEPT ![b].left = @ \ {k}, ![b].held = @ \cup {k}]
    /\ UNCHANGED <<batch, blobs, stray>>

\* Mutant: a worker returns on an error.
Delete_LeavesOnError(b) ==
    \E k \in cleanup[b].held :
        /\ RemoveBlob(b, k)
        /\ cleanup' = [cleanup EXCEPT ![b].held = @ \ {k},
                          ![b].workers = IF <<b, k>> \in stray' THEN @ - 1 ELSE @]
        /\ UNCHANGED batch

\* A worker removes its key; it only logs an error.
Delete(b) ==
    \E k \in cleanup[b].held :
        /\ RemoveBlob(b, k)
        /\ cleanup' = [cleanup EXCEPT ![b].held = @ \ {k}]
        /\ UNCHANGED batch

\* The channel is closed and the workers have ended.
CleanupEnd(b) ==
    /\ batch[b].pc = "cleaning"
    /\ cleanup[b].left = {} /\ cleanup[b].held = {}
    /\ batch' = [batch EXCEPT ![b].pc = "ended"]
    /\ cleanup' = [cleanup EXCEPT ![b] = NoPool]
    /\ UNCHANGED <<blobs, stray>>

\* The server stops: what was running is gone and the files stay.
Crash ==
    /\ "crash" \in Faults
    /\ batch' = [b \in Batches |->
                    IF batch[b].pc = "idle" THEN batch[b] ELSE [batch[b] EXCEPT !.pc = "ended"]]
    /\ cleanup' = [b \in Batches |-> NoPool]
    /\ stray' = stray \cup {<<c.batch, c.id>> : c \in blobs}
    /\ UNCHANGED blobs

Execute(b) == Begin(b) \/ Open(b) \/ Refuse(b) \/ Copy(b) \/ NoMoreFiles(b) \/ RecordAll(b)

Clean(b) == Feed(b) \/ Delete(b) \/ CleanupEnd(b)

BatchNext == (\E b \in Batches : Execute(b) \/ Clean(b)) \/ Crash

\* The runtime runs the goroutines of a pool; a client may never send a part.
Fairness == \A b \in Batches : WF_bvars(Clean(b))

BatchSpec == BatchInit /\ [][BatchNext]_bvars /\ Fairness
-----------------------------------------------------------------------------
(***************************************************************************)
(* Every content in the directory is somebody's to remove: of a batch in   *)
(* progress it is on the list a failure would hand on, or the file being   *)
(* written; of a failed one it is with its pool; else its removal failed   *)
(* or the server stopped.  This is the point of processCleanStorage: no    *)
(* error path may leave a content behind.                                  *)
(***************************************************************************)
Resolved(b, id) == \E d \in batch[b].docs : d.id = id /\ d.path \in batch[b].resolved

Answerable(b, id) ==
    \/ batch[b].pc \in {"files", "copy", "tx"} /\ Resolved(b, id)
    \/ batch[b].pc = "copy" /\ batch[b].file = id
    \/ id \in cleanup[b].left \cup cleanup[b].held
    \/ <<b, id>> \in stray

LeftoverHasCause == \A c \in blobs : Answerable(c.batch, c.id)

(***************************************************************************)
(* What reaches the transaction is complete: every doc has had its file,   *)
(* the last one sent if there were several; as many bytes were written as  *)
(* the manifest has announced; and the content is whole.  Put hides two    *)
(* exceptions from Execute: if closing the file failed the content is gone *)
(* or, if removing it failed too, torn.                                    *)
(***************************************************************************)
StoredWhole(b, d) ==
    /\ \A c \in BlobAt(b, d.id) :
          /\ c.bytes = d.size
          /\ c.state = "whole" \/ (c.state = "torn" /\ {"close", "remove"} \subseteq Faults)
    /\ "close" \notin Faults => BlobAt(b, d.id) # {}

CompleteAtTx ==
    \A b \in Batches : batch[b].pc = "tx" =>
        \A d \in batch[b].docs : d.path \in batch[b].resolved /\ StoredWhole(b, d)

(***************************************************************************)
(* The rows spell the manifest: a doc's node is reached by the names of    *)
(* its relative path, there is one folder for a path, and every entry has  *)
(* a doc, but for one that an earlier entry uses as a folder: its last     *)
(* name is taken for that folder and the entry is dropped without a word.  *)
(***************************************************************************)
Spelled(b, n) ==
    [i \in DOMAIN n.path |-> (CHOOSE m \in batch[b].nodes : m.id = n.path[i]).name]

TreeFollowsManifest ==
    \A b \in Batches :
        LET rows == batch[b].nodes
            folders == {n \in rows : n.type = "folder"}
        IN  /\ \A d \in batch[b].docs : \E n \in rows \ folders :
                   n.id = d.id /\ Spelled(b, n) = d.path
            /\ \A m, n \in folders : Spelled(b, m) = Spelled(b, n) => m = n
            /\ \A i \in DOMAIN batch[b].manifest :
                   \/ \E d \in batch[b].docs : d.path = batch[b].manifest[i].path
                   \/ \E k \in 1 .. i - 1 : IsStrictPrefix(batch[b].manifest[i].path,
                                                           batch[b].manifest[k].path)

\* A cleanup ends, whatever its removals answer: the feeder is not left waiting
\* for workers that are gone.
CleanupEnds == \A b \in Batches : batch[b].pc = "cleaning" ~> batch[b].pc = "ended"
=============================================================================
