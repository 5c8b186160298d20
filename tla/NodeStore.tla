------------------------------ MODULE NodeStore ------------------------------
(***************************************************************************)
(* The document store: the tables nodes, docs and group_nodes of the       *)
(* database, the directory of file contents, and the HTTP requests that    *)
(* change them concurrently.                                               *)
(*                                                                         *)
(* A request is one Execute call of a use case.  Each of its database      *)
(* queries and storage calls is one atomic step, and nothing holds a lock  *)
(* from one step to the next, so the rows it has read may be gone when it  *)
(* uses them.  A check that fails answers an error: the request is idle    *)
(* again and has changed nothing.                                          *)
(***************************************************************************)
EXTENDS Access, FiniteSets

CONSTANTS
    Requests,      \* slots of concurrent requests
    Sweepers,      \* slots of background cleanups (bounds those running)
    NodeIds,       \* node ids, each usable once
    Roots,         \* the ids of the root folders, made by "approot"
    Names,         \* node names a client may choose
    Usrs, Role,    \* the users and the role in each user's token
    Groups,
    Members,       \* the rows of group_usrs
    RootGrants,    \* the rows of group_nodes over the root folders
    NoNode,        \* no row
    Ops,           \* the use cases an instance runs
    Faults,        \* the failures an instance allows
    MaxCrashes     \* bound on the restarts of the server

UseCases == {"create_folder", "create_file", "delete_node", "delete_file",
             "download"}

(***************************************************************************)
(* "put"    : the upload is cut, is longer than announced or fails         *)
(* "close"  : closing the uploaded file reports an error                   *)
(* "db"     : a query or a transaction fails and changes nothing (a client *)
(*            that goes away cancels them too)                             *)
(* "commit" : the database commits a change and its caller is told it      *)
(*            failed                                                       *)
(* "remove" : removing a stored file fails                                 *)
(***************************************************************************)
FaultKinds == {"put", "close", "db", "commit", "remove"}

ASSUME RootsAssumption == Roots \subseteq NodeIds
ASSUME NoNodeAssumption == NoNode \notin NodeIds
ASSUME UsrsAssumption == Usrs # {} /\ Role \in [Usrs -> Roles]
ASSUME NamesAssumption == Names \cap NodeIds = {}
ASSUME MembersAssumption ==
    Members \subseteq [group : Groups, usr : Usrs, access : AccessLevels]
ASSUME RootGrantsAssumption == RootGrants \subseteq Groups \X Roots
ASSUME OpsAssumption == Ops \subseteq UseCases
ASSUME FaultsAssumption == Faults \subseteq FaultKinds
ASSUME MaxCrashesAssumption == MaxCrashes \in Nat

VARIABLES
    nodes,       \* rows of fs.nodes
    docs,        \* rows of fs.docs, each named by its (unique) node_id
    groupUsrs,   \* rows of fs.group_usrs
    groupNodes,  \* rows of fs.group_nodes
    blobs,       \* the storage directory: what each key holds
    req,         \* the request running in each slot
    sweeps,      \* the docs each background cleanup has still to remove
    used,        \* node ids drawn so far
    crashes      \* restarts so far

tables == <<nodes, docs, groupNodes>>
vars == <<nodes, docs, groupUsrs, groupNodes, blobs, req, sweeps, used, crashes>>

\* What the storage holds under a key: nothing, a file being written (or left
\* half written by a crash), or the whole content.
BlobStates == {"none", "partial", "full"}

Node == [id : NodeIds, path : Seq(NodeIds), type : {"folder", "file"},
         name : Names \cup Roots]

(***************************************************************************)
(* A request: the step it is at, its user, the row it has read (the parent *)
(* of a creation, the target of a deletion), the node id it works on, the  *)
(* name to create, and the docs a deletion has listed.                     *)
(***************************************************************************)
CreateSteps == {"folder_access", "folder_insert",
                "file_access", "file_put", "file_copy", "file_tx", "file_undo"}
NodeSteps == {"node_access", "node_list", "node_delete"}
DocSteps == {"doc_access", "doc_lookup", "doc_delete", "doc_clean", "panic",
             "read_access", "read_open"}
Steps == {"idle"} \cup CreateSteps \cup NodeSteps \cup DocSteps

Request == [pc : Steps, usr : Usrs, node : Node \cup {NoNode},
            id : NodeIds \cup {NoNode}, name : Names \cup {NoNode},
            docs : SUBSET NodeIds]

\* What a request has in hand at the steps that use it.
Equipped(q) ==
    /\ q.pc \in CreateSteps \cup NodeSteps => q.node \in Node
    /\ q.pc # "idle" => q.id \in NodeIds
    /\ q.pc \in CreateSteps => q.name \in Names

Idle == [pc |-> "idle", usr |-> CHOOSE u \in Usrs : TRUE, node |-> NoNode,
         id |-> NoNode, name |-> NoNode, docs |-> {}]

TypeOK ==
    /\ nodes \subseteq Node
    /\ docs \subseteq NodeIds
    /\ groupUsrs \subseteq [group : Groups, usr : Usrs, access : AccessLevels]
    /\ groupNodes \subseteq Groups \X NodeIds
    /\ blobs \in [NodeIds -> BlobStates]
    /\ req \in [Requests -> Request]
    /\ \A r \in Requests : Equipped(req[r])
    /\ sweeps \in [Sweepers -> SUBSET NodeIds]
    /\ used \subseteq NodeIds
    /\ crashes \in 0 .. MaxCrashes

RootRow(r) == [id |-> r, path |-> <<r>>, type |-> "folder", name |-> r]

Init ==
    /\ nodes = {RootRow(r) : r \in Roots}
    /\ docs = {}
    /\ groupUsrs = Members
    /\ groupNodes = RootGrants
    /\ blobs = [k \in NodeIds |-> "none"]
    /\ req = [r \in Requests |-> Idle]
    /\ sweeps = [s \in Sweepers |-> {}]
    /\ used = Roots
    /\ crashes = 0

-----------------------------------------------------------------------------
(***************************************************************************)
(* The queries of the repositories.                                        *)
(***************************************************************************)
NodePathAccess(u, path, level) ==
    HasAccessFromPath(groupUsrs, groupNodes, nodes, u, path, level)

NodeAccess(u, id, level) ==
    HasAccess(groupUsrs, groupNodes, nodes, u, id, level)

\* NodePath.NewChildPath
ChildRow(parent, id, type, name) ==
    [id |-> id, path |-> Append(parent.path, id), type |-> type, name |-> name]

\* The unique index on (subpath(path, 0, nlevel(path) - 1), name).
SameFolder(p, q) == /\ Len(p) = Len(q)
                    /\ \A i \in 1 .. Len(p) - 1 : p[i] = q[i]

\* Mutant: the index is not there.
UniqueName_NoIndex(row) == row \in Node

UniqueName(row) == \A n \in nodes : ~(SameFolder(n.path, row.path) /\ n.name = row.name)

\* Mutant: DELETE ... WHERE id = $1.
Subtree_RowOnly(id) == {n \in nodes : n.id = id}

\* DELETE ... WHERE path <@ (SELECT path ... WHERE id = $1): nothing, without
\* an error, when the row is gone.
Subtree(id) == {n \in nodes : \E t \in nodes : t.id = id /\ Under(n.path, t.path)}

Ids(rows) == {n.id : n \in rows}

\* Mutant: docs has no ON DELETE CASCADE.
DeleteRows_DocsStay(rows) ==
    /\ nodes' = nodes \ rows
    /\ groupNodes' = {g \in groupNodes : g[2] \notin Ids(rows)}
    /\ UNCHANGED docs

\* The rows and, by the ON DELETE CASCADE of the schema, their docs and grants.
DeleteRows(rows) ==
    /\ nodes' = nodes \ rows
    /\ docs' = docs \ Ids(rows)
    /\ groupNodes' = {g \in groupNodes : g[2] \notin Ids(rows)}

(***************************************************************************)
(* GetAllFromPath: docs whose node_id is IN (SELECT node_id FROM fs.nodes  *)
(* WHERE path <@ $1).  fs.nodes has no column node_id, so the name is the  *)
(* outer row's own: the test is whether any node is under the path.        *)
(***************************************************************************)
GetAllFromPath(path) == {d \in docs : \E n \in nodes : Under(n.path, path)}

Goto(r, pc) == req' = [req EXCEPT ![r].pc = pc]

\* The answer is sent and the slot is free again.
Answer(r) == req' = [req EXCEPT ![r] = Idle]

\* Starts request r of user u at step pc.
Begin(r, op, pc, u, row, id, name) ==
    /\ op \in Ops
    /\ req[r].pc = "idle"
    /\ req' = [req EXCEPT ![r] = [pc |-> pc, usr |-> u, node |-> row,
                                  id |-> id, name |-> name, docs |-> {}]]
    /\ UNCHANGED <<tables, groupUsrs, blobs, sweeps, crashes>>

\* Mutant: anything may be a parent.
BeginCreate_AnyParent(r, op, pc) ==
    \E u \in Usrs, p \in nodes, id \in NodeIds \ used, nm \in Names :
        /\ CanChangeTree(Role[u])
        /\ used' = used \cup {id}
        /\ Begin(r, op, pc, u, p, id, nm)

\* A creation in folder p.  Its new id, a UUID nobody else sees until it is used,
\* is drawn here, so that NodeIds bounds the creations that start.
BeginCreate(r, op, pc) ==
    \E u \in Usrs, p \in nodes, id \in NodeIds \ used, nm \in Names :
        /\ CanChangeTree(Role[u])
        /\ p.type = "folder"
        /\ used' = used \cup {id}
        /\ Begin(r, op, pc, u, p, id, nm)

\* The access check of request r on the path it has read; "next" when it passes.
CheckPath(r, pc, level, next) ==
    /\ req[r].pc = pc
    /\ \/ NodePathAccess(req[r].usr, req[r].node.path, level) /\ Goto(r, next)
       \/ ~NodePathAccess(req[r].usr, req[r].node.path, level) /\ Answer(r)
    /\ UNCHANGED <<tables, groupUsrs, blobs, sweeps, used, crashes>>

\* The same by node id.
CheckNode(r, pc, level, next) ==
    /\ req[r].pc = pc
    /\ \/ NodeAccess(req[r].usr, req[r].id, level) /\ Goto(r, next)
       \/ ~NodeAccess(req[r].usr, req[r].id, level) /\ Answer(r)
    /\ UNCHANGED <<tables, groupUsrs, blobs, sweeps, used, crashes>>

\* storage.Delete(key), a missing file being no error; it may fail.
RemoveBlob(key) ==
    \/ blobs' = [blobs EXCEPT ![key] = "none"]
    \/ "remove" \in Faults /\ UNCHANGED blobs
-----------------------------------------------------------------------------
(***************************************************************************)
(* CreateNodeFolderUseCase                                                 *)
(***************************************************************************)
FolderBegin(r) == BeginCreate(r, "create_folder", "folder_access")

FolderAccess(r) == CheckPath(r, "folder_access", "write", "folder_insert")

\* The insert, on its own and outside a transaction; a taken name is an error.
FolderInsert(r) ==
    /\ req[r].pc = "folder_insert"
    /\ LET row == ChildRow(req[r].node, req[r].id, "folder", req[r].name)
       IN  nodes' = IF UniqueName(row) THEN nodes \cup {row} ELSE nodes
    /\ Answer(r)
    /\ UNCHANGED <<docs, groupUsrs, groupNodes, blobs, sweeps, used, crashes>>

(***************************************************************************)
(* CreateNodeFileUseCase                                                   *)
(***************************************************************************)
FileBegin(r) == BeginCreate(r, "create_file", "file_access")

FileAccess(r) == CheckPath(r, "file_access", "write", "file_put")

\* Mutant: the rows are recorded while the content is being written.
FileOpen_TxFirst(r) ==
    /\ req[r].pc = "file_put"
    /\ blobs' = [blobs EXCEPT ![req[r].id] = "partial"]
    /\ Goto(r, "file_tx")
    /\ UNCHANGED <<tables, groupUsrs, sweeps, used, crashes>>

\* Put opens the file of the new id: it exists from here on.
FileOpen(r) ==
    /\ req[r].pc = "file_put"
    /\ \/ blobs' = [blobs EXCEPT ![req[r].id] = "partial"] /\ Goto(r, "file_copy")
       \/ "put" \in Faults /\ Answer(r) /\ UNCHANGED blobs
    /\ UNCHANGED <<tables, groupUsrs, sweeps, used, crashes>>

\* Put copies the content and closes the file.  On an error of the copy its
\* deferred function removes the file; when only Close fails it removes the
\* file too, but the result Put has already returned is a success.
FileCopy(r) ==
    /\ req[r].pc = "file_copy"
    /\ \/ /\ blobs' = [blobs EXCEPT ![req[r].id] = "full"]
          /\ Goto(r, "file_tx")
       \/ "put" \in Faults /\ RemoveBlob(req[r].id) /\ Answer(r)
       \/ "close" \in Faults /\ RemoveBlob(req[r].id) /\ Goto(r, "file_tx")
    /\ UNCHANGED <<tables, groupUsrs, sweeps, used, crashes>>

\* Mutant: persist returns the error without removing the content.
FileTx_NoUndo(r) ==
    LET row == ChildRow(req[r].node, req[r].id, "file", req[r].name)
    IN  /\ req[r].pc = "file_tx"
        /\ \/ /\ UniqueName(row)
              /\ nodes' = nodes \cup {row}
              /\ docs' = docs \cup {row.id}
           \/ "db" \in Faults /\ UNCHANGED <<nodes, docs>>
        /\ Answer(r)
        /\ UNCHANGED <<groupNodes, groupUsrs, blobs, sweeps, used, crashes>>

\* persist: the node and its doc in one transaction.
FileTx(r) ==
    LET row == ChildRow(req[r].node, req[r].id, "file", req[r].name)
        Insert == /\ UniqueName(row)
                  /\ nodes' = nodes \cup {row}
                  /\ docs' = docs \cup {row.id}
                  /\ UNCHANGED groupNodes
    IN  /\ req[r].pc = "file_tx"
        /\ \/ Insert /\ Answer(r)
           \/ "commit" \in Faults /\ Insert /\ Goto(r, "file_undo")
           \/ /\ ~UniqueName(row) \/ "db" \in Faults
              /\ Goto(r, "file_undo")
              /\ UNCHANGED tables
        /\ UNCHANGED <<groupUsrs, blobs, sweeps, used, crashes>>

\* persist's error path removes the content; its own error is dropped.
FileUndo(r) ==
    /\ req[r].pc = "file_undo"
    /\ RemoveBlob(req[r].id)
    /\ Answer(r)
    /\ UNCHANGED <<tables, groupUsrs, sweeps, used, crashes>>

(***************************************************************************)
(* DeleteNodeUseCase                                                       *)
(***************************************************************************)
\* Mutant: the id to delete is not kept.
NodeBegin_NoId(r) ==
    \E u \in Usrs, n \in nodes :
        /\ CanChangeTree(Role[u])
        /\ Begin(r, "delete_node", "node_access", u, n, NoNode, NoNode)
        /\ UNCHANGED used

NodeBegin(r) ==
    \E u \in Usrs, n \in nodes :
        /\ CanChangeTree(Role[u])
        /\ Begin(r, "delete_node", "node_access", u, n, n.id, NoNode)
        /\ UNCHANGED used

NodeAccessCheck(r) == CheckPath(r, "node_access", "write", "node_list")

\* The docs whose content the request will clean up.
NodeList(r) ==
    /\ req[r].pc = "node_list"
    /\ req' = [req EXCEPT ![r].pc = "node_delete",
                          ![r].docs = GetAllFromPath(req[r].node.path)]
    /\ UNCHANGED <<tables, groupUsrs, blobs, sweeps, used, crashes>>

\* The rows go, and the cleanup of the listed docs starts in the background,
\* unless the DELETE is reported to have failed.
\* (With every Sweeper running the step waits: the bound on running cleanups.)
NodeDelete(r) ==
    /\ req[r].pc = "node_delete"
    /\ DeleteRows(Subtree(req[r].id))
    /\ \/ /\ req[r].docs = {} \/ "commit" \in Faults
          /\ UNCHANGED sweeps
       \/ /\ req[r].docs # {}
          /\ \E s \in Sweepers : /\ sweeps[s] = {}
                                 /\ sweeps' = [sweeps EXCEPT ![s] = req[r].docs]
    /\ Answer(r)
    /\ UNCHANGED <<groupUsrs, blobs, used, crashes>>

\* Mutant: a worker ends the cleanup after its first job.
Sweep_FirstOnly(s) ==
    \E k \in sweeps[s] :
        /\ RemoveBlob(k)
        /\ sweeps' = [sweeps EXCEPT ![s] = {}]
        /\ UNCHANGED <<tables, groupUsrs, req, used, crashes>>

\* cleanStorage: its workers remove the contents in any order; a failure is
\* logged and not tried again.
Sweep(s) ==
    \E k \in sweeps[s] :
        /\ RemoveBlob(k)
        /\ sweeps' = [sweeps EXCEPT ![s] = @ \ {k}]
        /\ UNCHANGED <<tables, groupUsrs, req, used, crashes>>

(***************************************************************************)
(* DeleteNodeFileUseCase                                                   *)
(***************************************************************************)
DocBegin(r) ==
    \E u \in Usrs, d \in docs :
        /\ CanChangeTree(Role[u])
        /\ Begin(r, "delete_file", "doc_access", u, NoNode, d, NoNode)
        /\ UNCHANGED used

DocAccess(r) == CheckNode(r, "doc_access", "write", "doc_lookup")

\* Mutant: the content is removed before the row.
DocLookup_CleanFirst(r) ==
    /\ req[r].pc = "doc_lookup"
    /\ Goto(r, "doc_clean")
    /\ UNCHANGED <<tables, groupUsrs, blobs, sweeps, used, crashes>>

\* GetByID answers nil for a row that is gone, and the next line reads its ID.
DocLookup(r) ==
    /\ req[r].pc = "doc_lookup"
    /\ Goto(r, IF req[r].id \in Ids(nodes) THEN "doc_delete" ELSE "panic")
    /\ UNCHANGED <<tables, groupUsrs, blobs, sweeps, used, crashes>>

DocDelete(r) ==
    /\ req[r].pc = "doc_delete"
    /\ DeleteRows(Subtree(req[r].id))
    /\ Goto(r, "doc_clean") \/ ("commit" \in Faults /\ Answer(r))
    /\ UNCHANGED <<groupUsrs, blobs, sweeps, used, crashes>>

DocClean(r) ==
    /\ req[r].pc = "doc_clean"
    /\ RemoveBlob(req[r].id)
    /\ Answer(r)
    /\ UNCHANGED <<tables, groupUsrs, sweeps, used, crashes>>

\* net/http recovers the handler's panic and drops the connection.
Recover(r) ==
    /\ req[r].pc = "panic"
    /\ Answer(r)
    /\ UNCHANGED <<tables, groupUsrs, blobs, sweeps, used, crashes>>

(***************************************************************************)
(* DownloadNodeFileUseCase                                                 *)
(***************************************************************************)
ReadBegin(r) ==
    \E u \in Usrs, d \in docs :
        /\ Begin(r, "download", "read_access", u, NoNode, d, NoNode)
        /\ UNCHANGED used

ReadAccess(r) == CheckNode(r, "read_access", "read_only", "read_open")

\* The file is opened, or storage reports ErrFileNotFound.
ReadOpen(r) ==
    /\ req[r].pc = "read_open"
    /\ Answer(r)
    /\ UNCHANGED <<tables, groupUsrs, blobs, sweeps, used, crashes>>

\* The query a request is about to make fails: the request answers the error.
QueryFails(r) ==
    /\ "db" \in Faults
    /\ req[r].pc \in {"folder_access", "folder_insert", "file_access",
                       "node_access", "node_list", "node_delete",
                       "doc_access", "doc_lookup", "doc_delete", "read_access"}
    /\ Answer(r)
    /\ UNCHANGED <<tables, groupUsrs, blobs, sweeps, used, crashes>>

\* The server process dies and is started again: the tables and the files
\* stay, its requests and background cleanups are gone.
Crash ==
    /\ crashes < MaxCrashes
    /\ crashes' = crashes + 1
    /\ req' = [r \in Requests |-> Idle]
    /\ sweeps' = [s \in Sweepers |-> {}]
    /\ UNCHANGED <<tables, groupUsrs, blobs, used>>
-----------------------------------------------------------------------------
Start(r) == FolderBegin(r) \/ FileBegin(r) \/ NodeBegin(r) \/ DocBegin(r)
            \/ ReadBegin(r)

Proceed(r) ==
    \/ FolderAccess(r) \/ FolderInsert(r)
    \/ FileAccess(r) \/ FileOpen(r) \/ FileCopy(r) \/ FileTx(r) \/ FileUndo(r)
    \/ NodeAccessCheck(r) \/ NodeList(r) \/ NodeDelete(r)
    \/ DocAccess(r) \/ DocLookup(r) \/ DocDelete(r) \/ DocClean(r) \/ Recover(r)
    \/ ReadAccess(r) \/ ReadOpen(r)

Continue(r) == Proceed(r) \/ QueryFails(r)

Next == \/ \E r \in Requests : Start(r) \/ Continue(r)
        \/ \E s \in Sweepers : Sweep(s)
        \/ Crash

Spec == Init /\ [][Next]_vars

(***************************************************************************)
(* The goroutines of a cleanup are run by the Go scheduler until they end. *)
(* Nothing depends on requests: nobody has to send one or see its end.     *)
(***************************************************************************)
Fairness == \A s \in Sweepers : WF_vars(Sweep(s))

FairSpec == Spec /\ Fairness
-----------------------------------------------------------------------------
(***************************************************************************)
(* Properties                                                              *)
(***************************************************************************)

\* The tree keeps its shape whatever creations and deletions interleave: a row
\* is named by the last label of its path, ids are unique, two entries of one
\* folder differ in name, and only a folder has entries below it (the parent's
\* type is checked on a row read three steps before the insert).
TreeWellFormed ==
    /\ \A n \in nodes : Len(n.path) > 0 /\ n.path[Len(n.path)] = n.id
    /\ \A m, n \in nodes :
          /\ m.id = n.id => m = n
          /\ SameFolder(m.path, n.path) /\ m.name = n.name => m = n
          /\ Under(m.path, n.path) /\ m # n => n.type = "folder"

\* The tables agree at every commit: the file nodes are exactly the nodes with a
\* doc (persist's transaction, the cascade of a deletion), and a grant never
\* outlives its node.
RowsAgree ==
    /\ docs = {n.id : n \in {m \in nodes : m.type = "file"}}
    /\ \A g \in groupNodes : g[2] \in Ids(nodes)

\* Put's deferred function can leave what it wrote without reporting an error:
\* both closing and removing the file have to fail.
SilentTear == {"close", "remove"} \subseteq Faults

\* A doc on record never has a half-written content, whatever else fails in Put
\* and whenever the server restarts: the rows are inserted after Put has returned.
NoTornContent == SilentTear \/ \A d \in docs : blobs[d] # "partial"

\* A node id belongs to one entry for ever: the id of a creation in progress is
\* on no row and in no other request's hands, and the id a file deletion has
\* removed does not come back while its content is being removed.
OwnIds ==
    /\ Ids(nodes) \subseteq used
    /\ \A r \in Requests : req[r].pc # "idle" => req[r].id \in used
    /\ \A r \in Requests : req[r].pc \in CreateSteps \ {"file_undo"} =>
          /\ req[r].id \notin Ids(nodes)
          /\ \A q \in Requests \ {r} : req[q].pc # "idle" => req[q].id # req[r].id
    /\ \A r \in Requests : req[r].pc = "doc_clean" => req[r].id \notin Ids(nodes)

UniqueIds == \A m, n \in nodes : m.id = n.id => m = n

\* A creation records its document after its content is stored (or removed).
StoredFirst ==
    SilentTear \/ \A r \in Requests : req[r].pc = "file_tx" => blobs[req[r].id] # "partial"

\* What every step preserves, and the invariants above follow from.
IInv == TypeOK /\ OwnIds /\ UniqueIds /\ RowsAgree /\ StoredFirst /\ NoTornContent

\* A recorded document loses its content only to a background cleanup that has
\* listed it or to the error path of its own creation: no upload, no deletion
\* of another document and no restart takes it.
LossHasCause ==
    \A d \in docs \cap docs' :
        blobs[d] = "full" /\ blobs'[d] # "full" =>
            \/ \E s \in Sweepers : d \in sweeps[s]
            \/ \E r \in Requests : req[r].pc = "file_undo" /\ req[r].id = d

ContentLossHasCause == [][LossHasCause]_vars

\* Content somebody answers for: it is on record, or a request or a cleanup has
\* yet to record or remove it.
Accounted(k) ==
    \/ k \in docs
    \/ \E r \in Requests :
          req[r].id = k /\ req[r].pc \in {"file_copy", "file_tx", "file_undo", "doc_clean"}
    \/ \E s \in Sweepers : k \in sweeps[s]

\* The steps at which content k may stop being accounted for (leak): a restart; a
\* removal that was tried and failed; a deletion told that its DELETE failed; and
\* a DeleteNode that removes a doc recorded after it had listed the docs to clean.
LeakCause(k) ==
    \/ crashes' # crashes
    \/ \E s \in Sweepers : k \in sweeps[s] \ sweeps'[s]
    \/ \E r \in Requests :
          \/ /\ req[r].id = k
             /\ req[r].pc \in {"file_copy", "file_undo", "doc_clean"}
             /\ req'[r].pc = "idle"
          \/ /\ "commit" \in Faults
             /\ req[r].pc \in {"node_delete", "doc_delete"}
             /\ req'[r].pc = "idle" /\ sweeps' = sweeps
          \/ req[r].pc = "node_delete" /\ k \in docs \ req[r].docs

LeakCaused ==
    \A k \in NodeIds :
        (blobs[k] # "none" => Accounted(k)) /\ blobs'[k] # "none" /\ ~Accounted(k)'
            => LeakCause(k)

\* Content on the disk is on record, or somebody has yet to record or remove it,
\* until one of these steps.
LeakHasCause == [][LeakCaused]_vars

\* A row that survives a step keeps every ancestor it had, and a row that goes
\* was under the target of a deletion.
WholeSubtree ==
    /\ \A n \in nodes \cap nodes', t \in nodes : Under(n.path, t.path) => t \in nodes'
    /\ \A n \in nodes \ nodes' :
          \E r \in Requests, i \in 1 .. Len(n.path) :
              /\ req[r].pc \in {"node_delete", "doc_delete"}
              /\ req[r].id = n.path[i]

\* A deletion takes whole subtrees, and nothing but a deletion takes a row.
DeleteIsExact == [][WholeSubtree]_vars

\* Every document on record has its content (storage is keyed by node id so that
\* creation, download and deletion speak of the same object).
DocsHaveContent == \A d \in docs : blobs[d] = "full"

\* What a background cleanup has listed is removed from the disk.
SweptContentGoes ==
    \A k \in NodeIds : (\E s \in Sweepers : k \in sweeps[s]) ~> blobs[k] = "none"

\* Clients see the tree change as Catalog says: each creation and each deletion
\* in one step, however many steps of how many requests it takes here.
Catalog == INSTANCE Catalog WITH
    NodeIds <- NodeIds, Names <- Names, Roots <- Roots, nodes <- nodes, docs <- docs

CatalogSpec == Catalog!Spec
=============================================================================
