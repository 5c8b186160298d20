--------------------------- MODULE NodeStoreProofs ---------------------------
(***************************************************************************)
(* Theorems about NodeStore, for any sets of requests, users, groups, node *)
(* ids and names, any faults and any number of restarts.                   *)
(***************************************************************************)
EXTENDS NodeStore, TLAPS

USE DEF tables

-----------------------------------------------------------------------------
(***************************************************************************)
(* Type correctness                                                        *)
(***************************************************************************)
LEMMA IdleTyped == Idle \in Request /\ Equipped(Idle) /\ Idle.pc = "idle"
  BY UsrsAssumption DEF Idle, Request, Equipped, Steps, CreateSteps, NodeSteps, DocSteps

\* Ending a request keeps every request well formed.
LEMMA AnswerTyped ==
    ASSUME TypeOK, NEW r \in Requests, Answer(r)
    PROVE  req' \in [Requests -> Request] /\ \A q \in Requests : Equipped(req'[q])
  BY IdleTyped DEF TypeOK, Answer

\* So does moving it to a step that needs nothing it does not have.
LEMMA GotoTyped ==
    ASSUME TypeOK, NEW r \in Requests, NEW pc \in Steps, Goto(r, pc),
           req[r].pc # "idle",
           pc \in CreateSteps => req[r].pc \in CreateSteps,
           pc \in NodeSteps => req[r].pc \in NodeSteps
    PROVE  req' \in [Requests -> Request] /\ \A q \in Requests : Equipped(req'[q])
<1>1. req' = [req EXCEPT ![r] = [req[r] EXCEPT !.pc = pc]]
  BY DEF Goto
<1>2. req[r] \in Request /\ Equipped(req[r])
  BY DEF TypeOK
<1>3. [req[r] EXCEPT !.pc = pc] \in Request
  BY <1>2 DEF Request
<1>4. Equipped([req[r] EXCEPT !.pc = pc])
  BY <1>2 DEF Request, Equipped
<1> QED
  BY <1>1, <1>3, <1>4 DEF TypeOK

LEMMA ChildTyped ==
    ASSUME NEW p \in Node, NEW id \in NodeIds, NEW nm \in Names,
           NEW type \in {"folder", "file"}
    PROVE  ChildRow(p, id, type, nm) \in Node
  BY DEF ChildRow, Node

LEMMA CheckPathTyped ==
    ASSUME TypeOK, NEW r \in Requests, NEW pc \in Steps, NEW next \in Steps, NEW level,
           CheckPath(r, pc, level, next),
           \/ pc \in CreateSteps /\ next \in CreateSteps
           \/ pc \in NodeSteps /\ next \in NodeSteps
    PROVE  TypeOK'
<1>1. pc # "idle" /\ req[r].pc = pc
  BY DEF CheckPath, CreateSteps, NodeSteps
<1>2. pc \in CreateSteps => pc \notin NodeSteps
  BY DEF CreateSteps, NodeSteps
<1>3. next \in CreateSteps => next \notin NodeSteps
  BY DEF CreateSteps, NodeSteps
<1>4. req' \in [Requests -> Request] /\ \A q \in Requests : Equipped(req'[q])
  <2>1. CASE Answer(r)
    BY <2>1, AnswerTyped
  <2>2. CASE Goto(r, next)
    BY <1>1, <1>2, <1>3, <2>2, GotoTyped
  <2> QED
    BY <2>1, <2>2 DEF CheckPath
<1> QED
  BY <1>4 DEF TypeOK, CheckPath

LEMMA CheckNodeTyped ==
    ASSUME TypeOK, NEW r \in Requests, NEW pc \in DocSteps, NEW next \in DocSteps, NEW level,
           CheckNode(r, pc, level, next)
    PROVE  TypeOK'
<1>1. pc # "idle" /\ req[r].pc = pc /\ next \in Steps
  BY DEF CheckNode, DocSteps, Steps
<1>2. next \notin CreateSteps /\ next \notin NodeSteps
  BY DEF CreateSteps, NodeSteps, DocSteps
<1>3. req' \in [Requests -> Request] /\ \A q \in Requests : Equipped(req'[q])
  <2>1. CASE Answer(r)
    BY <2>1, AnswerTyped
  <2>2. CASE Goto(r, next)
    BY <1>1, <1>2, <2>2, GotoTyped
  <2> QED
    BY <2>1, <2>2 DEF CheckNode
<1> QED
  BY <1>3 DEF TypeOK, CheckNode

LEMMA BeginTyped ==
    ASSUME TypeOK, NEW r \in Requests, NEW op, NEW pc \in Steps \ {"idle"}, NEW u \in Usrs,
           NEW row \in Node \cup {NoNode}, NEW id \in NodeIds, NEW name \in Names \cup {NoNode},
           pc \in CreateSteps \cup NodeSteps => row \in Node,
           pc \in CreateSteps => name \in Names,
           Begin(r, op, pc, u, row, id, name), used' \subseteq NodeIds
    PROVE  TypeOK'
<1> DEFINE q == [pc |-> pc, usr |-> u, node |-> row, id |-> id, name |-> name, docs |-> {}]
<1>1. q \in Request
  BY DEF Request
<1>2. Equipped(q)
  BY DEF Equipped
<1>3. req' = [req EXCEPT ![r] = q]
  BY DEF Begin
<1> HIDE DEF q
<1>4. req' \in [Requests -> Request] /\ \A k \in Requests : Equipped(req'[k])
  BY <1>1, <1>2, <1>3 DEF TypeOK
<1> QED
  BY <1>4 DEF TypeOK, Begin

LEMMA DeleteRowsTyped ==
    ASSUME TypeOK, NEW rows, DeleteRows(rows)
    PROVE  nodes' \subseteq Node /\ docs' \subseteq NodeIds /\ groupNodes' \subseteq Groups \X NodeIds
  BY DEF TypeOK, DeleteRows

LEMMA StartTyped ==
    ASSUME TypeOK, NEW r \in Requests, Start(r)
    PROVE  TypeOK'
<1>1. ASSUME NEW op, NEW pc \in CreateSteps, BeginCreate(r, op, pc)
      PROVE  TypeOK'
  <2>1. PICK u \in Usrs, p \in nodes, id \in NodeIds \ used, nm \in Names :
            used' = used \cup {id} /\ Begin(r, op, pc, u, p, id, nm)
    BY <1>1 DEF BeginCreate
  <2>2. pc \in Steps \ {"idle"} /\ p \in Node /\ used' \subseteq NodeIds
    BY <2>1 DEF TypeOK, Steps, CreateSteps
  <2> QED
    BY <2>1, <2>2, BeginTyped
<1>2. CASE FolderBegin(r)
  BY <1>1, <1>2 DEF FolderBegin, CreateSteps
<1>3. CASE FileBegin(r)
  BY <1>1, <1>3 DEF FileBegin, CreateSteps
<1>4. CASE NodeBegin(r)
  <2>1. PICK u \in Usrs, n \in nodes :
            Begin(r, "delete_node", "node_access", u, n, n.id, NoNode) /\ UNCHANGED used
    BY <1>4 DEF NodeBegin
  <2>2. n \in Node /\ n.id \in NodeIds
    BY <2>1 DEF TypeOK, Node
  <2>3. "node_access" \in Steps \ {"idle"} /\ "node_access" \notin CreateSteps
    BY DEF Steps, NodeSteps, CreateSteps
  <2> QED
    BY <2>1, <2>2, <2>3, BeginTyped DEF TypeOK
<1>5. ASSUME NEW op, NEW pc \in DocSteps, NEW u \in Usrs, NEW d \in docs,
             Begin(r, op, pc, u, NoNode, d, NoNode), UNCHANGED used
      PROVE  TypeOK'
  <2>1. pc \in Steps \ {"idle"} /\ pc \notin CreateSteps /\ pc \notin NodeSteps
    BY DEF Steps, NodeSteps, CreateSteps, DocSteps
  <2>2. d \in NodeIds /\ used' \subseteq NodeIds
    BY <1>5 DEF TypeOK
  <2> QED
    BY <1>5, <2>1, <2>2, BeginTyped
<1>6. CASE DocBegin(r)
  BY <1>5, <1>6 DEF DocBegin, DocSteps
<1>7. CASE ReadBegin(r)
  BY <1>5, <1>7 DEF ReadBegin, DocSteps
<1> QED
  BY <1>2, <1>3, <1>4, <1>6, <1>7 DEF Start

LEMMA RemoveBlobTyped ==
    ASSUME TypeOK, NEW k \in NodeIds, RemoveBlob(k)
    PROVE  blobs' \in [NodeIds -> BlobStates]
  BY DEF TypeOK, RemoveBlob, BlobStates

\* The step a request is at tells what it has in hand.
LEMMA InHand ==
    ASSUME TypeOK, NEW r \in Requests, req[r].pc # "idle"
    PROVE  /\ req[r].id \in NodeIds
           /\ req[r].pc \in CreateSteps => /\ req[r].node \in Node
                                           /\ req[r].name \in Names
  BY DEF TypeOK, Equipped

LEMMA ContinueTyped ==
    ASSUME TypeOK, NEW r \in Requests, Continue(r)
    PROVE  TypeOK'
<1> USE DEF Steps, CreateSteps, NodeSteps, DocSteps
<1>1. CASE FolderAccess(r)
  BY <1>1, CheckPathTyped DEF FolderAccess
<1>2. CASE FolderInsert(r)
  <2>1. req[r].node \in Node /\ req[r].id \in NodeIds /\ req[r].name \in Names
    BY <1>2, InHand DEF FolderInsert
  <2>2. nodes' \subseteq Node
    BY <1>2, <2>1, ChildTyped DEF FolderInsert, TypeOK
  <2>3. req' \in [Requests -> Request] /\ \A q \in Requests : Equipped(req'[q])
    BY <1>2, AnswerTyped DEF FolderInsert
  <2> QED
    BY <1>2, <2>2, <2>3 DEF FolderInsert, TypeOK
<1>3. CASE FileAccess(r)
  BY <1>3, CheckPathTyped DEF FileAccess
<1>4. CASE FileOpen(r)
  <2>1. req[r].id \in NodeIds
    BY <1>4, InHand DEF FileOpen
  <2>2. blobs' \in [NodeIds -> BlobStates]
    BY <1>4, <2>1 DEF FileOpen, TypeOK, BlobStates
  <2>3. req' \in [Requests -> Request] /\ \A q \in Requests : Equipped(req'[q])
    BY <1>4, AnswerTyped, GotoTyped DEF FileOpen
  <2> QED
    BY <1>4, <2>2, <2>3 DEF FileOpen, TypeOK
<1>5. CASE FileCopy(r)
  <2>1. req[r].id \in NodeIds
    BY <1>5, InHand DEF FileCopy
  <2>2. blobs' \in [NodeIds -> BlobStates]
    BY <1>5, <2>1, RemoveBlobTyped DEF FileCopy, TypeOK, BlobStates
  <2>3. req' \in [Requests -> Request] /\ \A q \in Requests : Equipped(req'[q])
    BY <1>5, AnswerTyped, GotoTyped DEF FileCopy
  <2> QED
    BY <1>5, <2>2, <2>3 DEF FileCopy, TypeOK
<1>6. CASE FileTx(r)
  <2>1. req[r].node \in Node /\ req[r].id \in NodeIds /\ req[r].name \in Names
    BY <1>6, InHand DEF FileTx
  <2>2. ChildRow(req[r].node, req[r].id, "file", req[r].name) \in Node
    BY <2>1, ChildTyped
  <2>3. /\ nodes' \subseteq Node
        /\ docs' \subseteq NodeIds
        /\ groupNodes' \subseteq Groups \X NodeIds
    BY <1>6, <2>1, <2>2 DEF FileTx, TypeOK, ChildRow
  <2>4. req' \in [Requests -> Request] /\ \A q \in Requests : Equipped(req'[q])
    BY <1>6, AnswerTyped, GotoTyped DEF FileTx
  <2> QED
    BY <1>6, <2>3, <2>4 DEF FileTx, TypeOK
<1>7. CASE FileUndo(r)
  <2>1. blobs' \in [NodeIds -> BlobStates]
    BY <1>7, InHand, RemoveBlobTyped DEF FileUndo
  <2>2. req' \in [Requests -> Request] /\ \A q \in Requests : Equipped(req'[q])
    BY <1>7, AnswerTyped DEF FileUndo
  <2> QED
    BY <1>7, <2>1, <2>2 DEF FileUndo, TypeOK
<1>8. CASE NodeAccessCheck(r)
  BY <1>8, CheckPathTyped DEF NodeAccessCheck
<1>9. CASE NodeList(r)
  <2> DEFINE q == [req[r] EXCEPT !.pc = "node_delete", !.docs = GetAllFromPath(req[r].node.path)]
  <2>1. req' = [req EXCEPT ![r] = q]
    BY <1>9 DEF NodeList
  <2>2. req[r] \in Request /\ Equipped(req[r]) /\ req[r].pc = "node_list"
    BY <1>9 DEF NodeList, TypeOK
  <2>3. GetAllFromPath(req[r].node.path) \subseteq NodeIds
    BY DEF TypeOK, GetAllFromPath
  <2>4. q \in Request /\ Equipped(q)
    BY <2>2, <2>3 DEF Request, Equipped
  <2> HIDE DEF q
  <2>5. req' \in [Requests -> Request] /\ \A k \in Requests : Equipped(req'[k])
    BY <2>1, <2>4 DEF TypeOK
  <2> QED
    BY <1>9, <2>5 DEF NodeList, TypeOK
<1>10. CASE NodeDelete(r)
  <2>1. req[r].docs \subseteq NodeIds
    BY DEF TypeOK, Request
  <2>2. sweeps' \in [Sweepers -> SUBSET NodeIds]
    BY <1>10, <2>1 DEF NodeDelete, TypeOK
  <2>3. /\ nodes' \subseteq Node
        /\ docs' \subseteq NodeIds
        /\ groupNodes' \subseteq Groups \X NodeIds
    BY <1>10, DeleteRowsTyped DEF NodeDelete
  <2>4. req' \in [Requests -> Request] /\ \A q \in Requests : Equipped(req'[q])
    BY <1>10, AnswerTyped DEF NodeDelete
  <2> QED
    BY <1>10, <2>2, <2>3, <2>4 DEF NodeDelete, TypeOK
<1>11. CASE DocAccess(r)
  BY <1>11, CheckNodeTyped DEF DocAccess
<1>12. CASE DocLookup(r)
  <2>1. req' \in [Requests -> Request] /\ \A q \in Requests : Equipped(req'[q])
    <3>1. Goto(r, "doc_delete") \/ Goto(r, "panic")
      BY <1>12 DEF DocLookup
    <3>2. req[r].pc = "doc_lookup"
      BY <1>12 DEF DocLookup
    <3> QED
      BY <3>1, <3>2, GotoTyped
  <2> QED
    BY <1>12, <2>1 DEF DocLookup, TypeOK
<1>13. CASE DocDelete(r)
  <2>1. req' \in [Requests -> Request] /\ \A q \in Requests : Equipped(req'[q])
    BY <1>13, GotoTyped, AnswerTyped DEF DocDelete
  <2>2. /\ nodes' \subseteq Node
        /\ docs' \subseteq NodeIds
        /\ groupNodes' \subseteq Groups \X NodeIds
    BY <1>13, DeleteRowsTyped DEF DocDelete
  <2> QED
    BY <1>13, <2>1, <2>2 DEF DocDelete, TypeOK
<1>14. CASE DocClean(r)
  <2>1. blobs' \in [NodeIds -> BlobStates]
    BY <1>14, InHand, RemoveBlobTyped DEF DocClean
  <2>2. req' \in [Requests -> Request] /\ \A q \in Requests : Equipped(req'[q])
    BY <1>14, AnswerTyped DEF DocClean
  <2> QED
    BY <1>14, <2>1, <2>2 DEF DocClean, TypeOK
<1>15. CASE Recover(r)
  BY <1>15, AnswerTyped DEF Recover, TypeOK
<1>16. CASE ReadAccess(r)
  BY <1>16, CheckNodeTyped DEF ReadAccess
<1>17. CASE ReadOpen(r)
  BY <1>17, AnswerTyped DEF ReadOpen, TypeOK
<1>18. CASE QueryFails(r)
  BY <1>18, AnswerTyped DEF QueryFails, TypeOK
<1> QED
  BY <1>1, <1>2, <1>3, <1>4, <1>5, <1>6, <1>7, <1>8, <1>9, <1>10, <1>11, <1>12, <1>13,
     <1>14, <1>15, <1>16, <1>17, <1>18 DEF Continue, Proceed

LEMMA InitTyped == Init => TypeOK
<1> SUFFICES ASSUME Init PROVE TypeOK
  OBVIOUS
<1>1. nodes \subseteq Node
  <2>1. \A r \in Roots : RootRow(r) \in Node
    <3> SUFFICES ASSUME NEW r \in Roots PROVE RootRow(r) \in Node
      OBVIOUS
    <3>1. r \in NodeIds /\ <<r>> \in Seq(NodeIds)
      BY RootsAssumption
    <3> QED
      BY <3>1 DEF RootRow, Node
  <2> QED
    BY <2>1 DEF Init
<1>2. used \subseteq NodeIds /\ groupNodes \subseteq Groups \X NodeIds
  BY RootsAssumption, RootGrantsAssumption DEF Init
<1>3. req \in [Requests -> Request] /\ \A r \in Requests : Equipped(req[r])
  BY IdleTyped DEF Init
<1> QED
  BY <1>1, <1>2, <1>3, MembersAssumption, MaxCrashesAssumption DEF Init, TypeOK, BlobStates

LEMMA StepTyped == TypeOK /\ [Next]_vars => TypeOK'
<1> SUFFICES ASSUME TypeOK, [Next]_vars PROVE TypeOK'
  OBVIOUS
<1>1. ASSUME NEW r \in Requests, Start(r) \/ Continue(r) PROVE TypeOK'
  BY <1>1, StartTyped, ContinueTyped
<1>2. ASSUME NEW s \in Sweepers, Sweep(s) PROVE TypeOK'
  <2>1. PICK k \in sweeps[s] : /\ RemoveBlob(k)
                               /\ sweeps' = [sweeps EXCEPT ![s] = @ \ {k}]
                               /\ UNCHANGED <<tables, groupUsrs, req, used, crashes>>
    BY <1>2 DEF Sweep
  <2>2. k \in NodeIds
    BY <2>1 DEF TypeOK
  <2> QED
    BY <2>1, <2>2, RemoveBlobTyped DEF TypeOK
<1>3. CASE Crash
  BY <1>3, IdleTyped, MaxCrashesAssumption DEF Crash, TypeOK
<1>4. CASE UNCHANGED vars
  BY <1>4 DEF vars, TypeOK
<1> QED
  BY <1>1, <1>2, <1>3, <1>4 DEF Next

\* Whatever the requests, the faults and the restarts, the tables, the storage
\* directory and the requests in progress keep their types, and a request has
\* the row, the id and the name its step uses.
THEOREM TypeCorrect == Spec => []TypeOK
  BY InitTyped, StepTyped, PTL DEF Spec

-----------------------------------------------------------------------------
(***************************************************************************)
(* The inductive invariant.  The tables and the storage directory are only *)
(* kept consistent because an id drawn for a creation is nobody else's:    *)
(* OwnIds says so, and the other conjuncts follow step by step.            *)
(***************************************************************************)
Drawing == CreateSteps \ {"file_undo"}

\* A step of r that is not a start leaves the other requests as they are, and r
\* with its id, at a step no earlier than it was.
Follows(r) ==
    /\ \A q \in Requests \ {r} : req'[q] = req[q]
    /\ \/ req'[r].pc = "idle"
       \/ /\ req'[r].id = req[r].id
          /\ req[r].pc # "idle"
          /\ req'[r].pc \in Drawing => req[r].pc \in Drawing

LEMMA GotoEffect ==
    ASSUME TypeOK, NEW r \in Requests, NEW pc, Goto(r, pc)
    PROVE  /\ req'[r].pc = pc
           /\ req'[r].id = req[r].id
           /\ \A q \in Requests \ {r} : req'[q] = req[q]
<1>1. req[r] \in Request /\ req' = [req EXCEPT ![r] = [req[r] EXCEPT !.pc = pc]]
  BY DEF TypeOK, Goto
<1>2. [req[r] EXCEPT !.pc = pc].pc = pc /\ [req[r] EXCEPT !.pc = pc].id = req[r].id
  BY <1>1 DEF Request
<1> QED
  BY <1>1, <1>2 DEF TypeOK

LEMMA AnswerEffect ==
    ASSUME TypeOK, NEW r \in Requests, Answer(r)
    PROVE  /\ req'[r].pc = "idle"
           /\ \A q \in Requests \ {r} : req'[q] = req[q]
  BY IdleTyped DEF TypeOK, Answer

\* Steps that add no row keep the ids apart.
LEMMA OwnIdsKept ==
    ASSUME TypeOK, OwnIds, NEW r \in Requests, Follows(r),
           nodes' \subseteq nodes, used' = used,
           req'[r].pc = "doc_clean" => req[r].id \notin Ids(nodes')
    PROVE  OwnIds'
<1>1. Ids(nodes') \subseteq Ids(nodes)
  BY DEF Ids
<1>2. (Ids(nodes))' = Ids(nodes')
  BY DEF Ids
<1>3. "idle" \notin Drawing
  BY DEF Drawing, CreateSteps
<1> QED
  BY <1>1, <1>2, <1>3 DEF OwnIds, Follows, Drawing

\* Nor does the insert of the row a creation has drawn an id for.
LEMMA OwnIdsInsert ==
    ASSUME TypeOK, OwnIds, NEW r \in Requests, Follows(r), NEW row,
           row.id = req[r].id, req[r].pc \in Drawing, req'[r].pc \in {"idle", "file_undo"},
           nodes' = nodes \cup {row}, used' = used
    PROVE  OwnIds'
<1>1. Ids(nodes') = Ids(nodes) \cup {req[r].id}
  BY DEF Ids
<1>2. (Ids(nodes))' = Ids(nodes')
  BY DEF Ids
<1>3. req[r].pc # "idle" /\ req'[r].pc \notin Drawing /\ req'[r].pc # "doc_clean"
  BY DEF Drawing, CreateSteps
<1>4. \A q \in Requests \ {r} : req[q].pc # "idle" => req[q].id # req[r].id
  BY DEF OwnIds, Drawing
<1>5. "doc_clean" # "idle" /\ "idle" \notin Drawing
  BY DEF Drawing, CreateSteps
<1>6. (Ids(nodes))' \subseteq used'
  <2>1. Ids(nodes) \subseteq used /\ req[r].id \in used
    BY <1>3 DEF OwnIds
  <2> QED
    BY <1>1, <1>2, <2>1
<1>7. \A q \in Requests : req'[q].pc # "idle" => req'[q].id \in used'
  BY DEF OwnIds, Follows
<1>8. ASSUME NEW q \in Requests, req'[q].pc \in Drawing
      PROVE  /\ req'[q].id \notin (Ids(nodes))'
             /\ \A o \in Requests \ {q} : req'[o].pc # "idle" => req'[o].id # req'[q].id
  <2>1. q # r /\ req'[q] = req[q] /\ req[q].pc \in Drawing
    BY <1>3, <1>8 DEF Follows
  <2>2. req[q].id # req[r].id
    BY <1>4, <1>5, <2>1
  <2>3. req[q].id \notin Ids(nodes)
    BY <2>1 DEF OwnIds, Drawing
  <2>4. \A o \in Requests \ {q} : req[o].pc # "idle" => req[o].id # req[q].id
    BY <2>1 DEF OwnIds, Drawing
  <2> QED
    BY <1>1, <1>2, <1>3, <2>1, <2>2, <2>3, <2>4 DEF Follows
<1>9. ASSUME NEW q \in Requests, req'[q].pc = "doc_clean"
      PROVE  req'[q].id \notin (Ids(nodes))'
  <2>1. q # r /\ req'[q] = req[q]
    BY <1>3, <1>9 DEF Follows
  <2>2. req[q].id # req[r].id
    BY <1>4, <1>5, <1>9, <2>1
  <2> QED
    BY <1>1, <1>2, <1>9, <2>1, <2>2 DEF OwnIds
<1> QED
  BY <1>6, <1>7, <1>8, <1>9 DEF OwnIds, Drawing

\* What else a step has to keep, given that it touches one request: the rest of
\* the invariant.
Rest == UniqueIds /\ RowsAgree /\ StoredFirst /\ NoTornContent

\* Steps that change neither tables nor contents.
LEMMA RestKept ==
    ASSUME TypeOK, Rest, NEW r \in Requests, Follows(r),
           UNCHANGED <<nodes, docs, groupNodes, blobs>>,
           req'[r].pc # "file_tx" \/ req[r].pc = "file_tx" \/ SilentTear
    PROVE  Rest'
<1>1. UniqueIds' /\ RowsAgree' /\ NoTornContent'
  BY DEF Rest, UniqueIds, RowsAgree, NoTornContent, Ids
<1>2. StoredFirst'
  BY DEF Rest, StoredFirst, Follows
<1> QED
  BY <1>1, <1>2 DEF Rest

\* A deletion keeps docs and file nodes in step because ids are unique.
LEMMA RestDelete ==
    ASSUME TypeOK, Rest, NEW r \in Requests, Follows(r), NEW rows,
           rows \subseteq nodes, DeleteRows(rows), UNCHANGED blobs,
           req'[r].pc # "file_tx"
    PROVE  Rest'
<1>1. UniqueIds' /\ NoTornContent'
  BY DEF Rest, UniqueIds, NoTornContent, DeleteRows
<1>2. StoredFirst'
  BY DEF Rest, StoredFirst, Follows
<1>3. docs' = {n.id : n \in {m \in nodes' : m.type = "file"}}
  <2>1. \A n \in nodes, m \in rows : n.id = m.id => n \in rows
    BY DEF Rest, UniqueIds
  <2>2. docs = {n.id : n \in {m \in nodes : m.type = "file"}}
    BY DEF Rest, RowsAgree
  <2> QED
    BY <2>1, <2>2 DEF DeleteRows, Ids
<1>4. \A g \in groupNodes' : g[2] \in Ids(nodes')
  BY DEF Rest, RowsAgree, DeleteRows, Ids
<1>5. RowsAgree'
  BY <1>3, <1>4 DEF RowsAgree, Ids
<1> QED
  BY <1>1, <1>2, <1>5 DEF Rest

\* Contents change under a key that is no document's and no other creation's, or
\* become "none".
LEMMA RestBlob ==
    ASSUME TypeOK, Rest, NEW r \in Requests, Follows(r),
           UNCHANGED <<nodes, docs, groupNodes>>, NEW k \in NodeIds, NEW b \in BlobStates,
           blobs' = [blobs EXCEPT ![k] = b],
           b # "partial" \/ k \notin docs,
           b # "partial" \/ \A q \in Requests \ {r} : req[q].pc = "file_tx" => req[q].id # k,
           req'[r].pc = "file_tx" => k = req[r].id /\ req'[r].id = k /\ b # "partial"
    PROVE  Rest'
<1>1. UniqueIds' /\ RowsAgree'
  BY DEF Rest, UniqueIds, RowsAgree, Ids
<1>2. NoTornContent'
  BY DEF Rest, NoTornContent, TypeOK
<1>3. StoredFirst'
  <2> SUFFICES ASSUME NEW q \in Requests, req'[q].pc = "file_tx", ~SilentTear
               PROVE  blobs'[req'[q].id] # "partial"
    BY DEF StoredFirst
  <2>1. CASE q = r
    BY <2>1 DEF TypeOK
  <2>2. CASE q # r
    BY <2>2 DEF Rest, StoredFirst, Follows, TypeOK
  <2> QED
    BY <2>1, <2>2
<1> QED
  BY <1>1, <1>2, <1>3 DEF Rest

LEMMA BeginEffect ==
    ASSUME TypeOK, NEW r \in Requests, NEW op, NEW pc, NEW u, NEW row, NEW id, NEW name,
           Begin(r, op, pc, u, row, id, name)
    PROVE  /\ req[r].pc = "idle" /\ req'[r].pc = pc /\ req'[r].id = id
           /\ \A q \in Requests \ {r} : req'[q] = req[q]
           /\ UNCHANGED <<nodes, docs, groupNodes, blobs, sweeps>>
  BY DEF Begin, TypeOK

\* A creation that starts draws an id nobody has.
LEMMA BeginCreateInv ==
    ASSUME TypeOK, OwnIds, Rest, NEW r \in Requests, NEW op, NEW pc \in Drawing \ {"file_tx"},
           BeginCreate(r, op, pc)
    PROVE  OwnIds' /\ Rest'
<1>1. PICK u \in Usrs, p \in nodes, id \in NodeIds \ used, nm \in Names :
          used' = used \cup {id} /\ Begin(r, op, pc, u, p, id, nm)
  BY DEF BeginCreate
<1>2. /\ req[r].pc = "idle" /\ req'[r].pc = pc /\ req'[r].id = id
      /\ \A q \in Requests \ {r} : req'[q] = req[q]
      /\ UNCHANGED <<nodes, docs, groupNodes, blobs, sweeps>>
  BY <1>1, BeginEffect
<1>3. pc # "idle" /\ pc # "doc_clean" /\ pc # "file_tx"
  BY DEF Drawing, CreateSteps
<1>4. (Ids(nodes))' = Ids(nodes)
  BY <1>2 DEF Ids
<1>5. OwnIds'
  <2>1. Ids(nodes) \subseteq used /\ \A q \in Requests : req[q].pc # "idle" => req[q].id \in used
    BY DEF OwnIds
  <2>2. id \notin Ids(nodes) /\ \A q \in Requests \ {r} : req[q].pc # "idle" => req[q].id # id
    BY <1>1, <2>1
  <2>3. \A q \in Requests : req'[q].pc # "idle" => req'[q].id \in used'
    BY <1>1, <1>2, <2>1
  <2>4. ASSUME NEW q \in Requests, req'[q].pc \in Drawing
        PROVE  /\ req'[q].id \notin Ids(nodes)
               /\ \A o \in Requests \ {q} : req'[o].pc # "idle" => req'[o].id # req'[q].id
    <3>1. CASE q = r
      BY <1>2, <2>2, <3>1
    <3>2. CASE q # r
      <4>1. req[q].pc \in Drawing /\ req'[q] = req[q] /\ req[q].pc # "idle"
        BY <1>2, <2>4, <3>2 DEF Drawing, CreateSteps
      <4>2. /\ req[q].id \notin Ids(nodes)
            /\ \A o \in Requests \ {q} : req[o].pc # "idle" => req[o].id # req[q].id
        BY <4>1 DEF OwnIds, Drawing
      <4> QED
        BY <1>2, <2>2, <3>2, <4>1, <4>2
    <3> QED
      BY <3>1, <3>2
  <2>5. \A q \in Requests : req'[q].pc = "doc_clean" => req'[q].id \notin Ids(nodes)
    BY <1>2, <1>3 DEF OwnIds
  <2> QED
    BY <1>1, <1>4, <2>1, <2>3, <2>4, <2>5 DEF OwnIds, Drawing
<1>6. Rest'
  <2>1. UniqueIds' /\ RowsAgree' /\ NoTornContent'
    BY <1>2, <1>4 DEF Rest, UniqueIds, RowsAgree, NoTornContent
  <2>2. StoredFirst'
    BY <1>2, <1>3 DEF Rest, StoredFirst
  <2> QED
    BY <2>1, <2>2 DEF Rest
<1> QED
  BY <1>5, <1>6

\* A request on an existing entry starts with an id no creation has drawn.
LEMMA BeginOnInv ==
    ASSUME TypeOK, OwnIds, Rest, NEW r \in Requests, NEW op,
           NEW pc \in (NodeSteps \cup DocSteps) \ {"doc_clean"}, NEW u, NEW row,
           NEW id \in Ids(nodes), NEW name, Begin(r, op, pc, u, row, id, name), UNCHANGED used
    PROVE  OwnIds' /\ Rest'
<1>1. /\ req[r].pc = "idle" /\ req'[r].pc = pc /\ req'[r].id = id
      /\ \A q \in Requests \ {r} : req'[q] = req[q]
      /\ UNCHANGED <<nodes, docs, groupNodes, blobs, sweeps>>
  BY BeginEffect
<1>2. pc \notin Drawing /\ pc # "doc_clean" /\ pc # "file_tx"
  BY DEF Drawing, CreateSteps, NodeSteps, DocSteps
<1>3. (Ids(nodes))' = Ids(nodes)
  BY <1>1 DEF Ids
<1>4. OwnIds'
  <2>1. Ids(nodes) \subseteq used /\ \A q \in Requests : req[q].pc # "idle" => req[q].id \in used
    BY DEF OwnIds
  <2>2. \A q \in Requests : req'[q].pc # "idle" => req'[q].id \in used
    BY <1>1, <2>1
  <2>3. ASSUME NEW q \in Requests, req'[q].pc \in Drawing
        PROVE  /\ req'[q].id \notin Ids(nodes)
               /\ \A o \in Requests \ {q} : req'[o].pc # "idle" => req'[o].id # req'[q].id
    <3>1. q # r /\ req[q].pc \in Drawing /\ req'[q] = req[q]
      BY <1>1, <1>2, <2>3
    <3>2. /\ req[q].id \notin Ids(nodes)
          /\ \A o \in Requests \ {q} : req[o].pc # "idle" => req[o].id # req[q].id
      BY <3>1 DEF OwnIds, Drawing
    <3> QED
      BY <1>1, <3>1, <3>2
  <2>4. \A q \in Requests : req'[q].pc = "doc_clean" => req'[q].id \notin Ids(nodes)
    BY <1>1, <1>2 DEF OwnIds
  <2> QED
    BY <1>3, <2>1, <2>2, <2>3, <2>4 DEF OwnIds, Drawing
<1>5. Rest'
  <2>1. UniqueIds' /\ RowsAgree' /\ NoTornContent'
    BY <1>1, <1>3 DEF Rest, UniqueIds, RowsAgree, NoTornContent
  <2>2. StoredFirst'
    BY <1>1, <1>2 DEF Rest, StoredFirst
  <2> QED
    BY <2>1, <2>2 DEF Rest
<1> QED
  BY <1>4, <1>5

LEMMA DocsAreNodes ==
    ASSUME RowsAgree PROVE docs \subseteq Ids(nodes)
  BY DEF RowsAgree, Ids

LEMMA StartInv ==
    ASSUME TypeOK, OwnIds, Rest, NEW r \in Requests, Start(r)
    PROVE  OwnIds' /\ Rest'
<1>1. CASE FolderBegin(r)
  BY <1>1, BeginCreateInv DEF FolderBegin, Drawing, CreateSteps
<1>2. CASE FileBegin(r)
  BY <1>2, BeginCreateInv DEF FileBegin, Drawing, CreateSteps
<1>3. CASE NodeBegin(r)
  <2>1. PICK u \in Usrs, n \in nodes :
            Begin(r, "delete_node", "node_access", u, n, n.id, NoNode) /\ UNCHANGED used
    BY <1>3 DEF NodeBegin
  <2>2. n.id \in Ids(nodes) /\ "node_access" \in (NodeSteps \cup DocSteps) \ {"doc_clean"}
    BY DEF Ids, NodeSteps
  <2> QED
    BY <2>1, <2>2, BeginOnInv
<1>4. CASE DocBegin(r)
  <2>1. PICK u \in Usrs, d \in docs :
            Begin(r, "delete_file", "doc_access", u, NoNode, d, NoNode) /\ UNCHANGED used
    BY <1>4 DEF DocBegin
  <2>2. d \in Ids(nodes) /\ "doc_access" \in (NodeSteps \cup DocSteps) \ {"doc_clean"}
    BY DocsAreNodes DEF Rest, DocSteps
  <2> QED
    BY <2>1, <2>2, BeginOnInv
<1>5. CASE ReadBegin(r)
  <2>1. PICK u \in Usrs, d \in docs :
            Begin(r, "download", "read_access", u, NoNode, d, NoNode) /\ UNCHANGED used
    BY <1>5 DEF ReadBegin
  <2>2. d \in Ids(nodes) /\ "read_access" \in (NodeSteps \cup DocSteps) \ {"doc_clean"}
    BY DocsAreNodes DEF Rest, DocSteps
  <2> QED
    BY <2>1, <2>2, BeginOnInv
<1> QED
  BY <1>1, <1>2, <1>3, <1>4, <1>5 DEF Start

LEMMA UnderReflexive ==
    ASSUME NEW p \in Seq(NodeIds) PROVE Under(p, p)
  BY DEF Under

\* The subtree of an entry has the entry, so no row of that id survives it.
LEMMA SubtreeHead ==
    ASSUME TypeOK, NEW id, DeleteRows(Subtree(id))
    PROVE  Subtree(id) \subseteq nodes /\ id \notin Ids(nodes') /\ nodes' \subseteq nodes
<1>1. \A n \in nodes : n.id = id => n \in Subtree(id)
  <2> SUFFICES ASSUME NEW n \in nodes, n.id = id PROVE n \in Subtree(id)
    OBVIOUS
  <2>1. Under(n.path, n.path)
    BY UnderReflexive DEF TypeOK, Node
  <2> QED
    BY <2>1 DEF Subtree
<1> QED
  BY <1>1 DEF Subtree, DeleteRows, Ids

\* A step of r to the next of its steps, or to its end, with the tables and the
\* contents as they were.
LEMMA PlainStepInv ==
    ASSUME TypeOK, OwnIds, Rest, NEW r \in Requests, NEW pc \in Steps \ {"doc_clean", "file_tx"},
           Goto(r, pc) \/ Answer(r), req[r].pc # "idle",
           pc \in Drawing => req[r].pc \in Drawing,
           UNCHANGED <<nodes, docs, groupNodes, blobs, used>>
    PROVE  OwnIds' /\ Rest'
<1>1. Follows(r) /\ req'[r].pc # "doc_clean" /\ req'[r].pc # "file_tx"
  BY GotoEffect, AnswerEffect DEF Follows
<1>2. OwnIds'
  BY <1>1, OwnIdsKept
<1>3. Rest'
  BY <1>1, RestKept
<1> QED
  BY <1>2, <1>3

LEMMA CheckPathInv ==
    ASSUME TypeOK, OwnIds, Rest, NEW r \in Requests, NEW pc \in Steps \ {"idle"}, NEW level,
           NEW next \in Steps \ {"doc_clean", "file_tx"}, CheckPath(r, pc, level, next),
           next \in Drawing => pc \in Drawing
    PROVE  OwnIds' /\ Rest'
<1>1. /\ Goto(r, next) \/ Answer(r)
      /\ req[r].pc = pc /\ UNCHANGED <<nodes, docs, groupNodes, blobs, used>>
  BY DEF CheckPath
<1> QED
  BY <1>1, PlainStepInv

LEMMA CheckNodeInv ==
    ASSUME TypeOK, OwnIds, Rest, NEW r \in Requests, NEW pc \in DocSteps, NEW level,
           NEW next \in DocSteps \ {"doc_clean"}, CheckNode(r, pc, level, next)
    PROVE  OwnIds' /\ Rest'
<1>1. /\ Goto(r, next) \/ Answer(r)
      /\ req[r].pc = pc /\ UNCHANGED <<nodes, docs, groupNodes, blobs, used>>
  BY DEF CheckNode
<1>2. /\ next \in Steps \ {"doc_clean", "file_tx"} /\ pc # "idle"
      /\ next \in Drawing => pc \in Drawing
  BY DEF Steps, DocSteps, Drawing, CreateSteps
<1> QED
  BY <1>1, <1>2, PlainStepInv

\* A file removed from the storage directory, or not, at the end of a request.
LEMMA LastRemovalInv ==
    ASSUME TypeOK, OwnIds, Rest, NEW r \in Requests, req[r].pc # "idle", Answer(r),
           RemoveBlob(req[r].id), UNCHANGED <<nodes, docs, groupNodes, used>>
    PROVE  OwnIds' /\ Rest'
<1>1. Follows(r) /\ req'[r].pc # "doc_clean" /\ req'[r].pc # "file_tx"
  BY AnswerEffect DEF Follows
<1>2. OwnIds'
  BY <1>1, OwnIdsKept
<1>3. Rest'
  <2>1. CASE UNCHANGED blobs
    BY <1>1, <2>1, RestKept
  <2>2. CASE blobs' = [blobs EXCEPT ![req[r].id] = "none"]
    <3>1. req[r].id \in NodeIds /\ "none" \in BlobStates
      BY InHand DEF BlobStates
    <3> QED
      BY <1>1, <2>2, <3>1, RestBlob
  <2> QED
    BY <2>1, <2>2 DEF RemoveBlob
<1> QED
  BY <1>2, <1>3

\* The steps of an upload between the access check and the transaction.
LEMMA UploadInv ==
    ASSUME TypeOK, OwnIds, Rest, NEW r \in Requests, FileOpen(r) \/ FileCopy(r)
    PROVE  OwnIds' /\ Rest'
<1> DEFINE id == req[r].id
<1>1. /\ req[r].pc \in Drawing /\ req[r].pc # "idle" /\ id \in NodeIds
      /\ UNCHANGED <<nodes, docs, groupNodes, used>>
  <2>1. req[r].pc \in {"file_put", "file_copy"} /\ UNCHANGED <<nodes, docs, groupNodes, used>>
    BY DEF FileOpen, FileCopy
  <2> QED
    BY <2>1, InHand DEF Drawing, CreateSteps
<1>2. \/ Answer(r)
      \/ Goto(r, "file_copy")
      \/ Goto(r, "file_tx")
  BY DEF FileOpen, FileCopy
<1>3. Follows(r) /\ req'[r].pc # "doc_clean"
  BY <1>1, <1>2, GotoEffect, AnswerEffect DEF Follows
<1>4. OwnIds'
  BY <1>1, <1>3, OwnIdsKept
<1>5. \A q \in Requests \ {r} : req[q].pc = "file_tx" => req[q].id # id
  BY <1>1 DEF OwnIds, Drawing
<1>6. id \notin docs
  BY <1>1, DocsAreNodes DEF Rest, OwnIds, Drawing
<1>7. Rest'
  <2>1. CASE FileOpen(r)
    <3>1. CASE Answer(r) /\ UNCHANGED blobs
      BY <1>1, <1>3, <3>1, AnswerEffect, RestKept
    <3>2. CASE blobs' = [blobs EXCEPT ![id] = "partial"] /\ Goto(r, "file_copy")
      <4>1. req'[r].pc # "file_tx" /\ "partial" \in BlobStates
        BY <3>2, GotoEffect DEF BlobStates
      <4> HIDE DEF id
      <4> QED
        BY <1>1, <1>3, <1>5, <1>6, <3>2, <4>1, RestBlob
    <3> QED
      BY <2>1, <3>1, <3>2 DEF FileOpen
  <2>2. CASE FileCopy(r)
    <3>1. ASSUME NEW b \in {"full", "none"}, blobs' = [blobs EXCEPT ![id] = b]
          PROVE  Rest'
      <4>1. b \in BlobStates /\ b # "partial"
        BY DEF BlobStates
      <4>2. req'[r].pc = "file_tx" => req'[r].id = id
        <5>1. CASE Answer(r)
          BY <5>1, AnswerEffect
        <5>2. ASSUME NEW pc, Goto(r, pc) PROVE req'[r].id = id
          BY <5>2, GotoEffect
        <5> QED
          BY <1>2, <5>1, <5>2
      <4> HIDE DEF id
      <4> QED
        BY <1>1, <1>3, <3>1, <4>1, <4>2, RestBlob DEF id
    <3>2. ASSUME UNCHANGED blobs, Answer(r) \/ SilentTear PROVE Rest'
      BY <1>1, <1>3, <3>2, AnswerEffect, RestKept
    <3>3. \/ \E b \in {"full", "none"} : blobs' = [blobs EXCEPT ![id] = b]
          \/ UNCHANGED blobs /\ (Answer(r) \/ SilentTear)
      BY <2>2 DEF FileCopy, RemoveBlob, SilentTear
    <3> QED
      BY <3>1, <3>2, <3>3
  <2> QED
    BY <2>1, <2>2
<1> QED
  BY <1>4, <1>7

\* The insert of one row with a drawn id: a folder, or a file and its doc.
LEMMA InsertInv ==
    ASSUME TypeOK, OwnIds, Rest, NEW r \in Requests, NEW row \in Node, row.id = req[r].id,
           req[r].pc \in Drawing, Follows(r), req'[r].pc \in {"idle", "file_undo"},
           nodes' = nodes \cup {row},
           docs' = IF row.type = "file" THEN docs \cup {row.id} ELSE docs,
           UNCHANGED <<groupNodes, blobs, used>>,
           row.type = "file" => SilentTear \/ blobs[row.id] # "partial"
    PROVE  OwnIds' /\ Rest'
<1>1. OwnIds'
  BY OwnIdsInsert
<1>2. row.id \notin Ids(nodes)
  BY DEF OwnIds, Drawing
<1>3. UniqueIds'
  BY <1>2 DEF Rest, UniqueIds, Ids
<1>4. RowsAgree'
  <2>1. docs = {n.id : n \in {m \in nodes : m.type = "file"}} /\ \A g \in groupNodes : g[2] \in Ids(nodes)
    BY DEF Rest, RowsAgree
  <2>2. docs' = {n.id : n \in {m \in nodes' : m.type = "file"}}
    BY <2>1
  <2>3. \A g \in groupNodes' : g[2] \in (Ids(nodes))'
    BY <2>1 DEF Ids
  <2> QED
    BY <2>2, <2>3 DEF RowsAgree
<1>5. NoTornContent'
  BY DEF Rest, NoTornContent
<1>6. StoredFirst'
  BY DEF Rest, StoredFirst, Follows
<1> QED
  BY <1>1, <1>3, <1>4, <1>5, <1>6 DEF Rest

LEMMA ContinueInv ==
    ASSUME TypeOK, OwnIds, Rest, NEW r \in Requests, Continue(r)
    PROVE  OwnIds' /\ Rest'
<1> USE DEF Steps, CreateSteps, NodeSteps, DocSteps, Drawing
<1>1. CASE FolderAccess(r)
  BY <1>1, CheckPathInv DEF FolderAccess
<1>2. CASE FolderInsert(r)
  <2> DEFINE row == ChildRow(req[r].node, req[r].id, "folder", req[r].name)
  <2>1. req[r].pc = "folder_insert" /\ Answer(r) /\ UNCHANGED <<docs, groupNodes, blobs, used>>
    BY <1>2 DEF FolderInsert
  <2>2. row \in Node /\ row.id = req[r].id /\ row.type = "folder"
    BY <2>1, InHand, ChildTyped DEF ChildRow
  <2>3. nodes' = nodes \cup {row} \/ nodes' = nodes
    BY <1>2 DEF FolderInsert
  <2>4. Follows(r) /\ req'[r].pc = "idle"
    BY <2>1, AnswerEffect DEF Follows
  <2> HIDE DEF row
  <2>5. CASE nodes' = nodes \cup {row}
    BY <2>1, <2>2, <2>4, <2>5, InsertInv
  <2>6. CASE nodes' = nodes
    BY <2>1, <2>6, PlainStepInv
  <2> QED
    BY <2>3, <2>5, <2>6
<1>3. CASE FileAccess(r)
  BY <1>3, CheckPathInv DEF FileAccess
<1>4. CASE FileOpen(r) \/ FileCopy(r)
  BY <1>4, UploadInv
<1>5. CASE FileTx(r)
  <2> DEFINE row == ChildRow(req[r].node, req[r].id, "file", req[r].name)
  <2>1. req[r].pc = "file_tx" /\ UNCHANGED <<blobs, used>> /\ (Answer(r) \/ Goto(r, "file_undo"))
    BY <1>5 DEF FileTx
  <2>2. row \in Node /\ row.id = req[r].id /\ row.type = "file"
      /\ (SilentTear \/ blobs[row.id] # "partial")
    BY <2>1, InHand, ChildTyped DEF ChildRow, Rest, StoredFirst
  <2>3. \/ /\ nodes' = nodes \cup {row}
           /\ docs' = docs \cup {row.id}
           /\ UNCHANGED groupNodes
        \/ Goto(r, "file_undo") /\ UNCHANGED <<nodes, docs, groupNodes>>
    BY <1>5 DEF FileTx
  <2>4. Follows(r) /\ req'[r].pc \in {"idle", "file_undo"}
    BY <2>1, AnswerEffect, GotoEffect DEF Follows
  <2> HIDE DEF row
  <2>5. CASE nodes' = nodes \cup {row} /\ docs' = docs \cup {row.id} /\ UNCHANGED groupNodes
    BY <2>1, <2>2, <2>4, <2>5, InsertInv
  <2>6. CASE Goto(r, "file_undo") /\ UNCHANGED <<nodes, docs, groupNodes>>
    BY <2>1, <2>6, PlainStepInv
  <2> QED
    BY <2>3, <2>5, <2>6
<1>6. CASE FileUndo(r)
  BY <1>6, LastRemovalInv DEF FileUndo
<1>7. CASE NodeAccessCheck(r)
  BY <1>7, CheckPathInv DEF NodeAccessCheck
<1>8. CASE NodeList(r)
  <2>1. req[r].pc = "node_list" /\ req[r] \in Request
    BY <1>8 DEF NodeList, TypeOK
  <2>2. /\ req' = [req EXCEPT ![r] = [req[r] EXCEPT !.pc = "node_delete",
                                                   !.docs = GetAllFromPath(req[r].node.path)]]
        /\ UNCHANGED <<nodes, docs, groupNodes, blobs, used>>
    BY <1>8 DEF NodeList
  <2>3. req'[r].pc = "node_delete" /\ req'[r].id = req[r].id
    BY <2>1, <2>2 DEF TypeOK, Request
  <2>4. Follows(r)
    BY <2>1, <2>2, <2>3 DEF TypeOK, Follows
  <2> QED
    BY <2>2, <2>3, <2>4, OwnIdsKept, RestKept
<1>9. CASE NodeDelete(r)
  <2>1. /\ DeleteRows(Subtree(req[r].id)) /\ Answer(r) /\ UNCHANGED <<blobs, used>>
    BY <1>9 DEF NodeDelete
  <2>2. Follows(r) /\ req'[r].pc = "idle"
    BY <2>1, AnswerEffect DEF Follows
  <2> QED
    BY <2>1, <2>2, SubtreeHead, OwnIdsKept, RestDelete
<1>10. CASE DocAccess(r)
  BY <1>10, CheckNodeInv DEF DocAccess
<1>11. CASE DocLookup(r)
  <2>1. /\ Goto(r, "doc_delete") \/ Goto(r, "panic")
        /\ UNCHANGED <<nodes, docs, groupNodes, blobs, used>>
    BY <1>11 DEF DocLookup
  <2>2. req[r].pc = "doc_lookup"
    BY <1>11 DEF DocLookup
  <2> QED
    BY <2>1, <2>2, PlainStepInv
<1>12. CASE DocDelete(r)
  <2>1. /\ DeleteRows(Subtree(req[r].id)) /\ UNCHANGED <<blobs, used>>
        /\ Goto(r, "doc_clean") \/ Answer(r)
        /\ req[r].pc = "doc_delete"
    BY <1>12 DEF DocDelete
  <2>2. Follows(r) /\ req'[r].pc \in {"doc_clean", "idle"}
    BY <2>1, GotoEffect, AnswerEffect DEF Follows
  <2> QED
    BY <2>1, <2>2, SubtreeHead, OwnIdsKept, RestDelete
<1>13. CASE DocClean(r)
  BY <1>13, LastRemovalInv DEF DocClean
<1>14. CASE Recover(r)
  BY <1>14, PlainStepInv DEF Recover
<1>15. CASE ReadAccess(r)
  BY <1>15, CheckNodeInv DEF ReadAccess
<1>16. CASE ReadOpen(r)
  BY <1>16, PlainStepInv DEF ReadOpen
<1>17. CASE QueryFails(r)
  <2>1. req[r].pc # "idle" /\ Answer(r) /\ UNCHANGED <<nodes, docs, groupNodes, blobs, used>>
    BY <1>17 DEF QueryFails
  <2> QED
    BY <2>1, PlainStepInv
<1> QED
  BY <1>1, <1>2, <1>3, <1>4, <1>5, <1>6, <1>7, <1>8, <1>9, <1>10, <1>11, <1>12, <1>13,
     <1>14, <1>15, <1>16, <1>17 DEF Continue, Proceed

\* A background cleanup and a restart change no row.
LEMMA SweepInv ==
    ASSUME TypeOK, OwnIds, Rest, NEW s \in Sweepers, Sweep(s)
    PROVE  OwnIds' /\ Rest'
<1>1. PICK k \in sweeps[s] : RemoveBlob(k) /\ UNCHANGED <<tables, groupUsrs, req, used, crashes>>
  BY DEF Sweep
<1>2. k \in NodeIds
  BY <1>1 DEF TypeOK
<1>3. OwnIds'
  BY <1>1 DEF OwnIds, Ids
<1>4. UniqueIds' /\ RowsAgree'
  BY <1>1 DEF Rest, UniqueIds, RowsAgree, Ids
<1>5. \A j \in NodeIds : blobs[j] # "partial" => blobs'[j] # "partial"
  BY <1>1, <1>2 DEF RemoveBlob, TypeOK
<1>6. NoTornContent'
  BY <1>1, <1>5 DEF Rest, NoTornContent, TypeOK
<1>7. StoredFirst'
  <2> SUFFICES ASSUME NEW r \in Requests, req'[r].pc = "file_tx", ~SilentTear
               PROVE  blobs'[req'[r].id] # "partial"
    BY DEF StoredFirst
  <2>1. req' = req /\ req[r].id \in NodeIds
    BY <1>1, InHand
  <2> QED
    BY <1>5, <2>1 DEF Rest, StoredFirst
<1> QED
  BY <1>3, <1>4, <1>6, <1>7 DEF Rest

LEMMA CrashInv ==
    ASSUME TypeOK, OwnIds, Rest, Crash
    PROVE  OwnIds' /\ Rest'
<1>1. \A r \in Requests : req'[r].pc = "idle"
  BY IdleTyped DEF Crash
<1>2. UNCHANGED <<nodes, docs, groupNodes, blobs, used>>
  BY DEF Crash
<1> QED
  BY <1>1, <1>2 DEF OwnIds, Rest, UniqueIds, RowsAgree, StoredFirst, NoTornContent, Ids,
                    CreateSteps

\* The inductive invariant holds, for any numbers of requests, cleanups, faults
\* and restarts.
THEOREM Invariance == Spec => []IInv
<1>1. Init => IInv
  <2> SUFFICES ASSUME Init PROVE OwnIds /\ Rest
    BY InitTyped DEF IInv, Rest
  <2>1. Ids(nodes) = Roots /\ docs = {} /\ \A n \in nodes : n.type = "folder"
    <3>1. nodes = {RootRow(r) : r \in Roots} /\ docs = {}
      BY DEF Init
    <3>2. \A r \in Roots : RootRow(r).id = r /\ RootRow(r).type = "folder"
      BY DEF RootRow
    <3> QED
      BY <3>1, <3>2 DEF Ids
  <2>2. \A r \in Requests : req[r].pc = "idle"
    BY IdleTyped DEF Init
  <2>3. OwnIds
    BY <2>1, <2>2 DEF OwnIds, CreateSteps, Init
  <2>4. UniqueIds
    BY DEF UniqueIds, Init, RootRow
  <2>5. RowsAgree
    BY <2>1, RootGrantsAssumption DEF RowsAgree, Init
  <2>6. StoredFirst /\ NoTornContent
    BY <2>1, <2>2 DEF StoredFirst, NoTornContent
  <2> QED
    BY <2>3, <2>4, <2>5, <2>6 DEF Rest
<1>2. IInv /\ [Next]_vars => IInv'
  <2> SUFFICES ASSUME TypeOK, OwnIds, Rest, [Next]_vars PROVE OwnIds' /\ Rest' /\ TypeOK'
    BY DEF IInv, Rest
  <2>1. TypeOK'
    BY StepTyped
  <2>2. ASSUME NEW r \in Requests, Start(r) \/ Continue(r) PROVE OwnIds' /\ Rest'
    BY <2>2, StartInv, ContinueInv
  <2>3. ASSUME NEW s \in Sweepers, Sweep(s) PROVE OwnIds' /\ Rest'
    BY <2>3, SweepInv
  <2>4. CASE Crash
    BY <2>1, <2>4, CrashInv
  <2>5. CASE UNCHANGED vars
    BY <2>1, <2>5 DEF vars, OwnIds, Rest, UniqueIds, RowsAgree, StoredFirst, NoTornContent, Ids
  <2> QED
    BY <2>1, <2>2, <2>3, <2>4, <2>5 DEF Next
<1> QED
  BY <1>1, <1>2, PTL DEF Spec

\* The file nodes are the nodes with a doc, and every grant is over a node, in
\* every reachable state.
THEOREM TablesAgree == Spec => []RowsAgree
<1>1. IInv => RowsAgree
  BY DEF IInv
<1> QED
  BY <1>1, Invariance, PTL

\* No fault and no restart ever leaves a half-written content on record.
THEOREM NeverTorn == Spec => []NoTornContent
<1>1. IInv => NoTornContent
  BY DEF IInv
<1> QED
  BY <1>1, Invariance, PTL

-----------------------------------------------------------------------------
(***************************************************************************)
(* Loss of content.  An upload writes under the id it has drawn, which is  *)
(* no document's; a file deletion removes content whose row is gone for    *)
(* good.  That leaves cleanups and the error path of a creation.           *)
(***************************************************************************)
LEMMA LossStep ==
    ASSUME IInv, [Next]_vars
    PROVE  LossHasCause
<1> SUFFICES ASSUME NEW d \in docs \cap docs', blobs[d] = "full", blobs'[d] # "full",
                    ~\E s \in Sweepers : d \in sweeps[s],
                    ~\E r \in Requests : req[r].pc = "file_undo" /\ req[r].id = d
             PROVE  FALSE
  BY DEF LossHasCause
<1>1. TypeOK /\ OwnIds /\ d \in NodeIds /\ d \in Ids(nodes)
  BY DocsAreNodes DEF IInv, TypeOK
<1>2. ASSUME NEW r \in Requests, NEW b, req[r].id \in NodeIds, req[r].id # d,
             blobs' = [blobs EXCEPT ![req[r].id] = b] \/ UNCHANGED blobs
      PROVE  FALSE
  BY <1>1, <1>2 DEF TypeOK
<1>3. ASSUME NEW r \in Requests, FileOpen(r) \/ FileCopy(r) PROVE FALSE
  <2>1. req[r].pc \in Drawing /\ req[r].pc # "idle"
    BY <1>3 DEF FileOpen, FileCopy, Drawing, CreateSteps
  <2>2. req[r].id \notin Ids(nodes) /\ req[r].id \in NodeIds
    BY <1>1, <2>1, InHand DEF OwnIds, Drawing
  <2>3. \E b : blobs' = [blobs EXCEPT ![req[r].id] = b] \/ UNCHANGED blobs
    BY <1>3 DEF FileOpen, FileCopy, RemoveBlob
  <2> QED
    BY <1>1, <1>2, <2>2, <2>3
<1>4. ASSUME NEW r \in Requests, FileUndo(r) \/ DocClean(r) PROVE FALSE
  <2>1. /\ req[r].pc = "file_undo" \/ (req[r].pc = "doc_clean" /\ req[r].id \notin Ids(nodes))
        /\ req[r].id \in NodeIds
    BY <1>1, <1>4, InHand DEF FileUndo, DocClean, OwnIds
  <2>2. req[r].id # d
    BY <1>1, <2>1
  <2>3. blobs' = [blobs EXCEPT ![req[r].id] = "none"] \/ UNCHANGED blobs
    BY <1>4 DEF FileUndo, DocClean, RemoveBlob
  <2> QED
    BY <1>2, <2>1, <2>2, <2>3
<1>5. ASSUME NEW s \in Sweepers, Sweep(s) PROVE FALSE
  BY <1>1, <1>5 DEF Sweep, RemoveBlob, TypeOK
<1>6. ASSUME UNCHANGED blobs PROVE FALSE
  BY <1>6
<1>7. ASSUME NEW r \in Requests, Start(r) PROVE FALSE
  BY <1>6, <1>7 DEF Start, FolderBegin, FileBegin, NodeBegin, DocBegin, ReadBegin,
                    BeginCreate, Begin
<1>8. ASSUME NEW r \in Requests, Continue(r) PROVE FALSE
  BY <1>3, <1>4, <1>6, <1>8
     DEF Continue, Proceed, FolderAccess, FolderInsert, FileAccess, FileTx,
         NodeAccessCheck, NodeList, NodeDelete, DocAccess, DocLookup, DocDelete, Recover, ReadAccess, ReadOpen,
         QueryFails, CheckPath, CheckNode
<1>9. CASE Crash
  BY <1>6, <1>9 DEF Crash
<1>10. CASE UNCHANGED vars
  BY <1>6, <1>10 DEF vars
<1> QED
  BY <1>5, <1>7, <1>8, <1>9, <1>10 DEF Next

\* A recorded document loses its content only to a cleanup that has listed it or
\* to the error path of its own creation.
THEOREM LossOnlyWithCause == Spec => ContentLossHasCause
<1>1. IInv /\ [Next]_vars => [LossHasCause]_vars
  BY LossStep
<1> QED
  BY <1>1, Invariance, PTL DEF Spec, ContentLossHasCause

-----------------------------------------------------------------------------
(***************************************************************************)
(* The store implements Catalog: the insert of a creation is its Publish,  *)
(* the DELETE of a deletion its Withdraw, and every other step changes     *)
(* nothing a client sees of the tree.                                      *)
(***************************************************************************)
LEMMA PublishStep ==
    ASSUME IInv, NEW r \in Requests, NEW type \in {"folder", "file"},
           req[r].pc \in Drawing, req[r].node \in Node, req[r].name \in Names,
           UniqueName(ChildRow(req[r].node, req[r].id, type, req[r].name)),
           nodes' = nodes \cup {ChildRow(req[r].node, req[r].id, type, req[r].name)},
           docs' = IF type = "file" THEN docs \cup {req[r].id} ELSE docs
    PROVE  Catalog!Publish
<1> DEFINE row == ChildRow(req[r].node, req[r].id, type, req[r].name)
<1>1. req[r].id \in NodeIds /\ req[r].id \notin Ids(nodes)
  BY InHand DEF IInv, OwnIds, Drawing, CreateSteps
<1>2. row \in Node /\ row.id = req[r].id /\ row.type = type
  BY <1>1, ChildTyped DEF ChildRow
<1>3. row.path[Len(row.path)] = row.id
  BY <1>1 DEF ChildRow, Node
<1>4. \A n \in nodes : n.id # row.id /\ ~(Catalog!Siblings(n.path, row.path) /\ n.name = row.name)
  BY <1>1, <1>2 DEF Ids, UniqueName, SameFolder, Catalog!Siblings
<1>5. row \in nodes' /\ row \in Catalog!Entry
  BY <1>2 DEF Node, Catalog!Entry
<1> HIDE DEF row
<1>6. nodes' = nodes \cup {row} /\ docs' = IF row.type = "file" THEN docs \cup {row.id} ELSE docs
  BY <1>2 DEF row
<1> QED
  BY <1>3, <1>4, <1>5, <1>6 DEF Catalog!Publish

LEMMA WithdrawStep ==
    ASSUME IInv, NEW id, DeleteRows(Subtree(id))
    PROVE  Catalog!Withdraw \/ UNCHANGED <<nodes, docs>>
<1>1. CASE \E t \in nodes : t.id = id
  <2>1. PICK t \in nodes : t.id = id
    BY <1>1
  <2>2. Subtree(id) = {n \in nodes : Under(n.path, t.path)}
    BY <2>1 DEF Subtree, IInv, UniqueIds
  <2> DEFINE gone == {n \in nodes : Catalog!Under(n.path, t.path)}
  <2>3. Subtree(id) = gone
    BY <2>2 DEF Under, Catalog!Under
  <2>4. nodes' = nodes \ gone /\ docs' = docs \ {n.id : n \in gone}
    BY <2>3 DEF DeleteRows, Ids
  <2> QED
    BY <2>4, Zenon DEF Catalog!Withdraw
<1>2. CASE ~\E t \in nodes : t.id = id
  <2>1. Subtree(id) = {}
    BY <1>2 DEF Subtree
  <2> QED
    BY <2>1 DEF DeleteRows, Ids
<1> QED
  BY <1>1, <1>2

LEMMA CatalogStep ==
    ASSUME IInv, [Next]_vars
    PROVE  [Catalog!Next]_Catalog!cvars
<1> USE DEF Catalog!Next, Catalog!cvars
<1>1. ASSUME UNCHANGED <<nodes, docs>> PROVE [Catalog!Next]_Catalog!cvars
  BY <1>1
<1>2. ASSUME NEW r \in Requests, FolderInsert(r) PROVE [Catalog!Next]_Catalog!cvars
  <2>1. req[r].pc \in Drawing /\ req[r].node \in Node /\ req[r].name \in Names
    BY <1>2, InHand DEF FolderInsert, Drawing, CreateSteps, IInv
  <2> QED
    BY <1>1, <1>2, <2>1, PublishStep DEF FolderInsert
<1>3. ASSUME NEW r \in Requests, FileTx(r) PROVE [Catalog!Next]_Catalog!cvars
  <2>1. req[r].pc \in Drawing /\ req[r].node \in Node /\ req[r].name \in Names
    BY <1>3, InHand DEF FileTx, Drawing, CreateSteps, IInv
  <2> DEFINE row == ChildRow(req[r].node, req[r].id, "file", req[r].name)
  <2>2. \/ UNCHANGED <<nodes, docs>>
        \/ UniqueName(row) /\ nodes' = nodes \cup {row} /\ docs' = docs \cup {row.id}
    BY <1>3 DEF FileTx
  <2>3. row.id = req[r].id
    BY DEF ChildRow
  <2> QED
    BY <1>1, <2>1, <2>2, <2>3, PublishStep
<1>4. ASSUME NEW r \in Requests, NodeDelete(r) \/ DocDelete(r)
      PROVE  [Catalog!Next]_Catalog!cvars
  BY <1>4, WithdrawStep DEF NodeDelete, DocDelete
<1>5. ASSUME NEW r \in Requests, Start(r) PROVE [Catalog!Next]_Catalog!cvars
  BY <1>1, <1>5 DEF Start, FolderBegin, FileBegin, NodeBegin, DocBegin, ReadBegin,
                    BeginCreate, Begin
<1>6. ASSUME NEW r \in Requests, Continue(r) PROVE [Catalog!Next]_Catalog!cvars
  BY <1>1, <1>2, <1>3, <1>4, <1>6
     DEF Continue, Proceed, FolderAccess, FileAccess, FileOpen, FileCopy, FileUndo,
         NodeAccessCheck, NodeList, DocAccess, DocLookup, DocClean, Recover, ReadAccess, ReadOpen,
         QueryFails, CheckPath, CheckNode
<1>7. ASSUME NEW s \in Sweepers, Sweep(s) PROVE [Catalog!Next]_Catalog!cvars
  BY <1>1, <1>7 DEF Sweep
<1>8. CASE Crash
  BY <1>1, <1>8 DEF Crash
<1>9. CASE UNCHANGED vars
  BY <1>1, <1>9 DEF vars
<1> QED
  BY <1>5, <1>6, <1>7, <1>8, <1>9 DEF Next

\* Clients see the tree of the store change as Catalog promises, whatever the
\* requests in progress, the faults and the restarts.
THEOREM ImplementsCatalog == Spec => CatalogSpec
<1>1. Init => Catalog!Init
  BY DEF Init, RootRow, Catalog!Init
<1>2. IInv /\ [Next]_vars => [Catalog!Next]_Catalog!cvars
  BY CatalogStep
<1> QED
  BY <1>1, <1>2, Invariance, PTL DEF Spec, CatalogSpec, Catalog!Spec
-----------------------------------------------------------------------------
(***************************************************************************)
(* The shape of the tree.  A creation inserts below a folder it has read   *)
(* steps before, which may be gone, and with it some of those above it:    *)
(* what is left above the new row are folders all the same, because no row *)
(* comes back and no label of a path is the id of another creation.        *)
(***************************************************************************)
Labels(path) == {path[i] : i \in 1 .. Len(path)}

\* The steps of a file deletion before its DELETE.
Targeting == {"doc_access", "doc_lookup", "doc_delete"}

\* What request r knows of the tree stays true while it waits.
Abreast(r) ==
    /\ req[r].pc \in Drawing =>
          /\ Labels(req[r].node.path) \subseteq used
          /\ \A n \in nodes : req[r].id \notin Labels(n.path)
          /\ \A q \in Requests : req[q].pc \in Drawing => req[r].id \notin Labels(req[q].node.path)
          /\ \A n \in nodes : Under(req[r].node.path, n.path) => n.type = "folder"
    /\ req[r].pc \in Targeting => \A n \in nodes : n.id = req[r].id => n.type = "file"

Ancestry ==
    /\ \A n \in nodes : Labels(n.path) \subseteq used
    /\ \A r \in Requests : Abreast(r)

TreeInv == TreeWellFormed /\ Ancestry

LEMMA UnderTransitive ==
    ASSUME NEW p \in Seq(NodeIds), NEW q \in Seq(NodeIds), NEW s \in Seq(NodeIds),
           Under(p, q), Under(q, s)
    PROVE  Under(p, s)
  BY DEF Under

\* What is above a new entry is the entry, or above its folder.
LEMMA UnderChild ==
    ASSUME NEW p \in Seq(NodeIds), NEW id \in NodeIds, NEW q \in Seq(NodeIds),
           Under(Append(p, id), q)
    PROVE  Under(p, q) \/ (Len(q) = Len(p) + 1 /\ q[Len(q)] = id)
  BY DEF Under

LEMMA ChildLabels ==
    ASSUME NEW p \in Seq(NodeIds), NEW id \in NodeIds
    PROVE  Labels(Append(p, id)) = Labels(p) \cup {id}
<1>1. Len(Append(p, id)) = Len(p) + 1 /\ Append(p, id)[Len(p) + 1] = id
      /\ \A i \in 1 .. Len(p) : Append(p, id)[i] = p[i]
  OBVIOUS
<1>2. Len(p) \in Nat
  OBVIOUS
<1> QED
  BY <1>1, <1>2 DEF Labels

\* What is above an entry has its id among the labels.
LEMMA UnderLabel ==
    ASSUME NEW p \in Seq(NodeIds), NEW q \in Seq(NodeIds), Under(p, q), Len(q) > 0
    PROVE  q[Len(q)] \in Labels(p) /\ p[Len(q)] = q[Len(q)] /\ Len(q) \in 1 .. Len(p)
  BY DEF Under, Labels

\* A step of r that is not a start keeps the row it has read.
Moves(r) ==
    /\ Follows(r)
    /\ req'[r].pc \in Drawing => req'[r].node = req[r].node
    /\ req'[r].pc \in Targeting => req[r].pc \in Targeting

LEMMA TreeKept ==
    ASSUME TypeOK, TreeInv, NEW r \in Requests, Moves(r), nodes' \subseteq nodes, used' = used
    PROVE  TreeInv'
<1>1. TreeWellFormed'
  BY DEF TreeInv, TreeWellFormed
<1>2. "idle" \notin Drawing /\ "idle" \notin Targeting
  BY DEF Drawing, CreateSteps, Targeting
<1>3. ASSUME NEW q \in Requests
      PROVE  /\ req'[q].pc \in Drawing =>
                   req[q].pc \in Drawing /\ req'[q].id = req[q].id /\ req'[q].node = req[q].node
             /\ req'[q].pc \in Targeting => req[q].pc \in Targeting /\ req'[q].id = req[q].id
  BY <1>2 DEF Moves, Follows
<1>4. ASSUME NEW q \in Requests PROVE Abreast(q)'
  BY <1>3 DEF TreeInv, Ancestry, Abreast
<1> QED
  BY <1>1, <1>4 DEF TreeInv, Ancestry

\* The insert of the row a creation has drawn an id for.
LEMMA TreeInsert ==
    ASSUME TypeOK, OwnIds, UniqueIds, TreeInv, NEW r \in Requests, Moves(r),
           req[r].pc \in Drawing, req'[r].pc \notin Drawing, NEW type \in {"folder", "file"},
           NEW row, row = ChildRow(req[r].node, req[r].id, type, req[r].name),
           UniqueName(row), nodes' = nodes \cup {row}, used' = used
    PROVE  TreeInv'
<1> DEFINE p == req[r].node.path
           id == req[r].id
<1>1. /\ p \in Seq(NodeIds) /\ id \in NodeIds /\ id \in used
      /\ row \in Node /\ row.id = id /\ row.path = Append(p, id) /\ row.type = type
  BY InHand, ChildTyped DEF Drawing, CreateSteps, Node, ChildRow, OwnIds
<1>2. Labels(p) \subseteq used /\ id \notin Ids(nodes)
      /\ (\A n \in nodes : id \notin Labels(n.path))
      /\ \A n \in nodes : Under(p, n.path) => n.type = "folder"
  BY DEF TreeInv, Ancestry, Abreast, OwnIds, Drawing
<1>3. /\ Labels(row.path) = Labels(p) \cup {id} /\ Len(row.path) > 0 /\ row.path[Len(row.path)] = id
      /\ row.path \in Seq(NodeIds)
  BY <1>1, ChildLabels
<1>4. \A n \in nodes : /\ n.path \in Seq(NodeIds) /\ Len(n.path) > 0
                        /\ n.path[Len(n.path)] = n.id /\ n.id # id
  BY <1>2 DEF TypeOK, Node, TreeInv, TreeWellFormed, Ids
<1> HIDE DEF p, id
<1>5. ASSUME NEW n \in nodes PROVE ~Under(n.path, row.path)
  <2>1. Under(n.path, row.path) => id \in Labels(n.path)
    BY <1>3, <1>4, UnderLabel
  <2> QED
    BY <1>2, <2>1
<1>6. ASSUME NEW n \in nodes, Under(row.path, n.path) PROVE n.type = "folder"
  BY <1>1, <1>2, <1>4, <1>6, UnderChild
<1>7. ASSUME NEW n \in nodes, n.name = row.name
      PROVE  ~SameFolder(n.path, row.path) /\ ~SameFolder(row.path, n.path)
  BY <1>1, <1>4, <1>7 DEF UniqueName, SameFolder, Node
<1>8. TreeWellFormed'
  <2>1. \A n \in nodes' : Len(n.path) > 0 /\ n.path[Len(n.path)] = n.id
    BY <1>1, <1>3, <1>4
  <2>2. ASSUME NEW m \in nodes', NEW n \in nodes', m # n
        PROVE  /\ m.id # n.id
               /\ ~(SameFolder(m.path, n.path) /\ m.name = n.name)
               /\ Under(m.path, n.path) => n.type = "folder"
    <3>1. CASE m \in nodes /\ n \in nodes
      BY <2>2, <3>1 DEF TreeInv, TreeWellFormed
    <3>2. CASE m = row /\ n \in nodes
      BY <1>1, <1>4, <1>6, <1>7, <3>2
    <3>3. CASE n = row /\ m \in nodes
      BY <1>1, <1>4, <1>5, <1>7, <3>3
    <3> QED
      BY <2>2, <3>1, <3>2, <3>3
  <2> QED
    BY <2>1, <2>2 DEF TreeWellFormed
<1>9. ASSUME NEW q \in Requests PROVE Abreast(q)'
  <2>0. "idle" \notin Drawing /\ "idle" \notin Targeting /\ r \in Requests
        /\ req[r].pc \notin Targeting /\ req[r].pc # "idle"
    BY DEF Drawing, CreateSteps, Targeting
  <2>1. ASSUME NEW o \in Requests, o # r PROVE req'[o] = req[o]
    BY <2>1 DEF Moves, Follows
  <2>2. CASE q = r
    BY <2>0, <2>2 DEF Abreast, Moves
  <2>3. CASE q # r /\ req[q].pc \in Drawing
    <3>1. req[q].id # id
      BY <1>1, <2>0, <2>3 DEF OwnIds, Drawing, id
    <3>2. req[q].id \notin Labels(p)
      BY <2>3 DEF TreeInv, Ancestry, Abreast, p
    <3>3. \A n \in nodes' : req[q].id \notin Labels(n.path)
      BY <1>3, <2>3, <3>1, <3>2 DEF TreeInv, Ancestry, Abreast
    <3>4. id \notin Labels(req[q].node.path)
      BY <2>3 DEF TreeInv, Ancestry, Abreast, id
    <3>5. req[q].node.path \in Seq(NodeIds)
      BY <2>3 DEF TypeOK, Equipped, Drawing, Node
    <3>6. ~Under(req[q].node.path, row.path)
      BY <1>1, <1>3, <3>4, <3>5, UnderLabel DEF Node
    <3>7. \A n \in nodes' : Under(req[q].node.path, n.path) => n.type = "folder"
      BY <2>3, <3>6 DEF TreeInv, Ancestry, Abreast
    <3>8. req'[q] = req[q] /\ req[q].pc \notin Targeting
      BY <2>1, <2>3 DEF Drawing, CreateSteps, Targeting
    <3>9. Labels(req[q].node.path) \subseteq used
      BY <2>3 DEF TreeInv, Ancestry, Abreast
    <3>10. \A o \in Requests : req'[o].pc \in Drawing => req[q].id \notin Labels(req'[o].node.path)
      BY <2>1, <2>3 DEF TreeInv, Ancestry, Abreast, Moves
    <3> QED
      BY <3>3, <3>7, <3>8, <3>9, <3>10 DEF Abreast
  <2>4. CASE q # r /\ req[q].pc \notin Drawing
    <3>1. req[q].pc \in Targeting => req[q].id # id
      BY <1>1, <2>0, <2>4 DEF OwnIds, Drawing, id
    <3>2. req'[q] = req[q]
      BY <2>1, <2>4
    <3> QED
      BY <1>1, <2>4, <3>1, <3>2 DEF TreeInv, Ancestry, Abreast
  <2> QED
    BY <2>2, <2>3, <2>4
<1>10. \A n \in nodes' : Labels(n.path) \subseteq used
  BY <1>1, <1>2, <1>3 DEF TreeInv, Ancestry
<1> QED
  BY <1>8, <1>9, <1>10 DEF TreeInv, Ancestry
LEMMA GotoMoves ==
    ASSUME TypeOK, NEW r \in Requests, NEW pc, Goto(r, pc), req[r].pc # "idle",
           pc \in Drawing => req[r].pc \in Drawing,
           pc \in Targeting => req[r].pc \in Targeting
    PROVE  Moves(r) /\ req'[r].pc = pc
<1>1. req[r] \in Request /\ req' = [req EXCEPT ![r] = [req[r] EXCEPT !.pc = pc]]
  BY DEF TypeOK, Goto
<1>2. [req[r] EXCEPT !.pc = pc].node = req[r].node
  BY <1>1 DEF Request
<1> QED
  BY <1>1, <1>2, GotoEffect DEF TypeOK, Moves, Follows

LEMMA AnswerMoves ==
    ASSUME TypeOK, NEW r \in Requests, Answer(r)
    PROVE  Moves(r) /\ req'[r].pc = "idle"
<1>1. "idle" \notin Drawing /\ "idle" \notin Targeting
  BY DEF Drawing, CreateSteps, Targeting
<1> QED
  BY <1>1, AnswerEffect DEF Moves, Follows

\* A request that starts has read a row that is there.
LEMMA TreeBegin ==
    ASSUME TypeOK, OwnIds, TreeInv, UniqueIds, NEW r \in Requests, NEW op, NEW pc, NEW u, NEW row,
           NEW id \in NodeIds, NEW name, Begin(r, op, pc, u, row, id, name), used \subseteq used',
           pc \in Drawing => row \in nodes /\ row.type = "folder" /\ id \notin used,
           pc \in Targeting => \A n \in nodes : n.id = id => n.type = "file"
    PROVE  TreeInv'
<1>1. /\ req[r].pc = "idle" /\ req'[r].pc = pc /\ req'[r].id = id /\ req'[r].node = row
      /\ \A q \in Requests \ {r} : req'[q] = req[q]
      /\ UNCHANGED nodes
  BY DEF Begin, TypeOK
<1>2. TreeWellFormed'
  BY <1>1 DEF TreeInv, TreeWellFormed
<1>3. \A n \in nodes : Labels(n.path) \subseteq used
  BY DEF TreeInv, Ancestry
<1>4. Abreast(r)'
  <2>1. CASE pc \in Drawing
    <3>1. /\ Labels(row.path) \subseteq used /\ id \notin used
          /\ \A n \in nodes : Under(row.path, n.path) => n.type = "folder"
      BY <1>3, <2>1 DEF TreeInv, TreeWellFormed
    <3>2. \A q \in Requests : req'[q].pc \in Drawing => Labels(req'[q].node.path) \subseteq used
      BY <1>1, <3>1 DEF TreeInv, Ancestry, Abreast
    <3>3. pc \notin Targeting
      BY <2>1 DEF Drawing, CreateSteps, Targeting
    <3> QED
      BY <1>1, <1>3, <3>1, <3>2, <3>3 DEF Abreast
  <2>2. CASE pc \notin Drawing
    BY <1>1, <2>2 DEF Abreast
  <2> QED
    BY <2>1, <2>2
<1>5. ASSUME NEW q \in Requests \ {r} PROVE Abreast(q)'
  <2>1. req'[q] = req[q] /\ (req[q].pc \in Drawing => req[q].id \in used)
    BY <1>1 DEF OwnIds, Drawing, CreateSteps
  <2>2. pc \in Drawing => Labels(row.path) \subseteq used
    BY <1>3
  <2>3. req[q].pc \in Drawing =>
           \A o \in Requests : req'[o].pc \in Drawing => req[q].id \notin Labels(req'[o].node.path)
    <3> SUFFICES ASSUME req[q].pc \in Drawing, NEW o \in Requests, req'[o].pc \in Drawing
                 PROVE  req[q].id \notin Labels(req'[o].node.path)
      OBVIOUS
    <3>1. CASE o = r
      <4>1. row \in nodes /\ req'[o].node = row
        BY <1>1, <3>1
      <4> QED
        BY <4>1 DEF TreeInv, Ancestry, Abreast
    <3>2. CASE o # r
      BY <1>1, <3>2 DEF TreeInv, Ancestry, Abreast
    <3> QED
      BY <3>1, <3>2
  <2> QED
    BY <1>1, <2>1, <2>3 DEF TreeInv, Ancestry, Abreast
<1> QED
  BY <1>1, <1>2, <1>3, <1>4, <1>5 DEF TreeInv, Ancestry

LEMMA TreeStart ==
    ASSUME IInv, TreeInv, NEW r \in Requests, Start(r)
    PROVE  TreeInv'
<1> USE DEF IInv
<1>1. ASSUME NEW op, NEW pc \in Drawing, BeginCreate(r, op, pc) PROVE TreeInv'
  <2>1. PICK u \in Usrs, p \in nodes, id \in NodeIds \ used, nm \in Names :
            p.type = "folder" /\ used' = used \cup {id} /\ Begin(r, op, pc, u, p, id, nm)
    BY <1>1 DEF BeginCreate
  <2>2. pc \notin Targeting
    BY DEF Drawing, CreateSteps, Targeting
  <2> QED
    BY <2>1, <2>2, TreeBegin
<1>2. CASE FolderBegin(r) \/ FileBegin(r)
  BY <1>1, <1>2 DEF FolderBegin, FileBegin, Drawing, CreateSteps
<1>3. CASE NodeBegin(r)
  <2>1. PICK u \in Usrs, n \in nodes :
            Begin(r, "delete_node", "node_access", u, n, n.id, NoNode) /\ UNCHANGED used
    BY <1>3 DEF NodeBegin
  <2>2. n.id \in NodeIds /\ "node_access" \notin Drawing /\ "node_access" \notin Targeting
    BY DEF TypeOK, Node, Drawing, CreateSteps, Targeting
  <2> QED
    BY <2>1, <2>2, TreeBegin
<1>4. ASSUME NEW op, NEW pc \in DocSteps, NEW u, NEW d \in docs,
             Begin(r, op, pc, u, NoNode, d, NoNode), UNCHANGED used
      PROVE  TreeInv'
  <2>1. pc \notin Drawing /\ d \in NodeIds
    BY DEF Drawing, CreateSteps, DocSteps, TypeOK
  <2>2. \A n \in nodes : n.id = d => n.type = "file"
    BY DEF RowsAgree, UniqueIds
  <2> QED
    BY <1>4, <2>1, <2>2, TreeBegin
<1>5. CASE DocBegin(r)
  BY <1>4, <1>5 DEF DocBegin, DocSteps
<1>6. CASE ReadBegin(r)
  BY <1>4, <1>6 DEF ReadBegin, DocSteps
<1> QED
  BY <1>2, <1>3, <1>5, <1>6 DEF Start

LEMMA TreeContinue ==
    ASSUME IInv, TreeInv, NEW r \in Requests, Continue(r)
    PROVE  TreeInv'
<1>1. TypeOK /\ OwnIds /\ UniqueIds
  BY DEF IInv
<1>2. ASSUME NEW pc \in Steps, Goto(r, pc) \/ Answer(r), req[r].pc # "idle",
             pc \in Drawing => req[r].pc \in Drawing,
             pc \in Targeting => req[r].pc \in Targeting,
             nodes' \subseteq nodes, UNCHANGED used
      PROVE  TreeInv'
  BY <1>1, <1>2, GotoMoves, AnswerMoves, TreeKept
<1>3. CASE FolderInsert(r)
  <2> DEFINE row == ChildRow(req[r].node, req[r].id, "folder", req[r].name)
  <2>1. Moves(r) /\ req'[r].pc \notin Drawing /\ req[r].pc \in Drawing /\ UNCHANGED used
    BY <1>1, <1>3, AnswerMoves DEF FolderInsert, Drawing, CreateSteps
  <2>2. (UniqueName(row) /\ nodes' = nodes \cup {row}) \/ nodes' = nodes
    BY <1>3 DEF FolderInsert
  <2> QED
    BY <1>1, <2>1, <2>2, TreeInsert, TreeKept
<1>4. CASE FileTx(r)
  <2> DEFINE row == ChildRow(req[r].node, req[r].id, "file", req[r].name)
  <2>1. Answer(r) \/ Goto(r, "file_undo")
    BY <1>4 DEF FileTx
  <2>2. req[r].pc = "file_tx" /\ UNCHANGED used
    BY <1>4 DEF FileTx
  <2>3. /\ req[r].pc \in Drawing /\ req[r].pc # "idle" /\ "idle" \notin Drawing
        /\ "file_undo" \notin Drawing /\ "file_undo" \notin Targeting
    BY <2>2 DEF Drawing, CreateSteps, Targeting
  <2>4. Moves(r) /\ req'[r].pc \notin Drawing
    BY <1>1, <2>1, <2>3, AnswerMoves, GotoMoves
  <2>5. (UniqueName(row) /\ nodes' = nodes \cup {row}) \/ nodes' = nodes
    BY <1>4 DEF FileTx
  <2> QED
    BY <1>1, <2>2, <2>3, <2>4, <2>5, TreeInsert, TreeKept
<1>5. CASE NodeList(r)
  <2>1. req[r].pc = "node_list" /\ req[r] \in Request
    BY <1>1, <1>5 DEF NodeList, TypeOK
  <2>2. /\ req' = [req EXCEPT ![r] = [req[r] EXCEPT !.pc = "node_delete",
                                                   !.docs = GetAllFromPath(req[r].node.path)]]
        /\ UNCHANGED <<nodes, used>>
    BY <1>5 DEF NodeList
  <2>3. req'[r].pc = "node_delete" /\ req'[r].id = req[r].id /\ req'[r].node = req[r].node
    BY <1>1, <2>1, <2>2 DEF TypeOK, Request
  <2>4. \A q \in Requests \ {r} : req'[q] = req[q]
    BY <1>1, <2>2 DEF TypeOK
  <2>5. "node_delete" \notin Drawing /\ "node_delete" \notin Targeting
    BY DEF Drawing, CreateSteps, Targeting
  <2>6. Moves(r)
    BY <2>1, <2>3, <2>4, <2>5 DEF Moves, Follows
  <2> QED
    BY <1>1, <2>2, <2>6, TreeKept
<1>6. CASE NodeDelete(r) \/ DocDelete(r)
  <2>1. /\ Answer(r) \/ Goto(r, "doc_clean")
        /\ req[r].pc # "idle" /\ nodes' \subseteq nodes /\ UNCHANGED used
    BY <1>6 DEF NodeDelete, DocDelete, DeleteRows
  <2>2. "doc_clean" \in Steps /\ "doc_clean" \notin Drawing /\ "doc_clean" \notin Targeting
    BY DEF Steps, DocSteps, Drawing, CreateSteps, Targeting
  <2> QED
    BY <1>2, <2>1, <2>2
<1>7. CASE ~FolderInsert(r) /\ ~FileTx(r) /\ ~NodeList(r) /\ ~NodeDelete(r) /\ ~DocDelete(r)
  <2>1. req[r].pc # "idle" /\ UNCHANGED <<nodes, used>>
    BY <1>7 DEF Continue, Proceed, FolderAccess, FileAccess, FileOpen, FileCopy, FileUndo,
                NodeAccessCheck, DocAccess, DocLookup, DocClean, Recover, ReadAccess, ReadOpen,
                QueryFails, CheckPath, CheckNode
  <2>2. \/ Answer(r)
        \/ Goto(r, "folder_insert") /\ req[r].pc = "folder_access"
        \/ Goto(r, "file_put") /\ req[r].pc = "file_access"
        \/ Goto(r, "file_copy") /\ req[r].pc = "file_put"
        \/ Goto(r, "file_tx") /\ req[r].pc = "file_copy"
        \/ Goto(r, "node_list") /\ req[r].pc = "node_access"
        \/ Goto(r, "doc_lookup") /\ req[r].pc = "doc_access"
        \/ Goto(r, "doc_delete") /\ req[r].pc = "doc_lookup"
        \/ Goto(r, "panic") /\ req[r].pc = "doc_lookup"
        \/ Goto(r, "read_open") /\ req[r].pc = "read_access"
    BY <1>7 DEF Continue, Proceed, FolderAccess, FileAccess, FileOpen, FileCopy, FileUndo,
                NodeAccessCheck, DocAccess, DocLookup, DocClean, Recover, ReadAccess, ReadOpen,
                QueryFails, CheckPath, CheckNode
  <2>3. ASSUME NEW pc, Goto(r, pc), pc \in Drawing => req[r].pc \in Drawing,
               pc \in Targeting => req[r].pc \in Targeting
        PROVE  Moves(r)
    BY <1>1, <2>1, <2>3, GotoMoves
  <2>4. Moves(r)
    <3>1. CASE Answer(r)
      BY <1>1, <3>1, AnswerMoves
    <3>2. CASE Goto(r, "folder_insert") /\ req[r].pc = "folder_access"
      BY <2>3, <3>2 DEF Drawing, CreateSteps, Targeting
    <3>3. CASE Goto(r, "file_put") /\ req[r].pc = "file_access"
      BY <2>3, <3>3 DEF Drawing, CreateSteps, Targeting
    <3>4. CASE Goto(r, "file_copy") /\ req[r].pc = "file_put"
      BY <2>3, <3>4 DEF Drawing, CreateSteps, Targeting
    <3>5. CASE Goto(r, "file_tx") /\ req[r].pc = "file_copy"
      BY <2>3, <3>5 DEF Drawing, CreateSteps, Targeting
    <3>6. CASE Goto(r, "node_list") /\ req[r].pc = "node_access"
      BY <2>3, <3>6 DEF Drawing, CreateSteps, Targeting
    <3>7. CASE Goto(r, "doc_lookup") /\ req[r].pc = "doc_access"
      BY <2>3, <3>7 DEF Drawing, CreateSteps, Targeting
    <3>8. CASE Goto(r, "doc_delete") /\ req[r].pc = "doc_lookup"
      BY <2>3, <3>8 DEF Drawing, CreateSteps, Targeting
    <3>9. CASE Goto(r, "panic") /\ req[r].pc = "doc_lookup"
      BY <2>3, <3>9 DEF Drawing, CreateSteps, Targeting
    <3>10. CASE Goto(r, "read_open") /\ req[r].pc = "read_access"
      BY <2>3, <3>10 DEF Drawing, CreateSteps, Targeting
    <3> QED
      BY <2>2, <3>1, <3>2, <3>3, <3>4, <3>5, <3>6, <3>7, <3>8, <3>9, <3>10
  <2> QED
    BY <1>1, <2>1, <2>4, TreeKept
<1> QED
  BY <1>3, <1>4, <1>5, <1>6, <1>7

LEMMA TreeStep ==
    ASSUME IInv, TreeInv, [Next]_vars
    PROVE  TreeInv'
<1>1. ASSUME UNCHANGED <<nodes, used>>,
             \A r \in Requests : req'[r] = req[r] \/ req'[r].pc = "idle"
      PROVE  TreeInv'
  <2>1. TreeWellFormed' /\ \A n \in nodes' : Labels(n.path) \subseteq used'
    BY <1>1 DEF TreeInv, TreeWellFormed, Ancestry
  <2>2. "idle" \notin Drawing /\ "idle" \notin Targeting
    BY DEF Drawing, CreateSteps, Targeting
  <2>3. ASSUME NEW r \in Requests PROVE Abreast(r)'
    BY <1>1, <2>2 DEF TreeInv, Ancestry, Abreast
  <2> QED
    BY <2>1, <2>3 DEF TreeInv, Ancestry
<1>2. CASE \E s \in Sweepers : Sweep(s)
  BY <1>1, <1>2 DEF Sweep
<1>3. CASE Crash
  BY <1>1, <1>3 DEF Crash, Idle
<1>4. CASE UNCHANGED vars
  BY <1>1, <1>4 DEF vars
<1> QED
  BY <1>2, <1>3, <1>4, TreeStart, TreeContinue DEF Next

LEMMA TreeInit ==
    ASSUME Init
    PROVE  TreeInv
<1>1. \A n \in nodes : n.id \in Roots /\ n.path = <<n.id>> /\ n.name = n.id /\ n.type = "folder"
  BY DEF Init, RootRow
<1>2. \A m, n \in nodes : m.id = n.id => m = n
  BY DEF Init, RootRow
<1>3. TreeWellFormed
  <2>1. \A n \in nodes : Len(n.path) = 1 /\ n.path[1] = n.id
    BY <1>1
  <2>2. \A m, n \in nodes : SameFolder(m.path, n.path) /\ m.name = n.name => m = n
    BY <1>1, <1>2
  <2>3. \A m, n \in nodes : Under(m.path, n.path) => n.type = "folder"
    BY <1>1
  <2> QED
    BY <1>2, <2>1, <2>2, <2>3 DEF TreeWellFormed
<1>4. \A n \in nodes : Labels(n.path) = {n.id}
  BY <1>1 DEF Labels
<1>5. \A n \in nodes : Labels(n.path) \subseteq used
  BY <1>1, <1>4 DEF Init
<1>6. \A r \in Requests : Abreast(r)
  BY DEF Init, Idle, Abreast, Drawing, CreateSteps, Targeting
<1> QED
  BY <1>3, <1>5, <1>6 DEF TreeInv, Ancestry

LEMMA TreeInvariance == Spec => []TreeInv
<1>1. Init => TreeInv
  BY TreeInit
<1>2. IInv /\ TreeInv /\ [Next]_vars => TreeInv'
  BY TreeStep
<1> QED
  BY <1>1, <1>2, Invariance, PTL DEF Spec

\* The tree keeps its shape whatever creations and deletions interleave.
THEOREM TreeKeepsItsShape == Spec => []TreeWellFormed
<1>1. TreeInv => TreeWellFormed
  BY DEF TreeInv
<1> QED
  BY <1>1, TreeInvariance, PTL

-----------------------------------------------------------------------------
(***************************************************************************)
(* A deletion takes whole subtrees.                                        *)
(***************************************************************************)
LEMMA SubtreeIsWhole ==
    ASSUME TypeOK, TreeWellFormed, NEW id, DeleteRows(Subtree(id))
    PROVE  /\ \A n \in nodes \cap nodes', t \in nodes : Under(n.path, t.path) => t \in nodes'
           /\ \A n \in nodes \ nodes' : \E i \in 1 .. Len(n.path) : id = n.path[i]
<1>1. \A n \in nodes : n.path \in Seq(NodeIds) /\ Len(n.path) > 0 /\ n.path[Len(n.path)] = n.id
  BY DEF TypeOK, Node, TreeWellFormed
<1>2. nodes' = nodes \ Subtree(id)
  BY DEF DeleteRows
<1>3. ASSUME NEW n \in nodes, NEW t \in nodes, Under(n.path, t.path), t \in Subtree(id)
      PROVE  n \in Subtree(id)
  <2>1. PICK top \in nodes : top.id = id /\ Under(t.path, top.path)
    BY <1>3 DEF Subtree
  <2>2. Under(n.path, top.path)
    BY <1>1, <1>3, <2>1, UnderTransitive
  <2> QED
    BY <2>1, <2>2 DEF Subtree
<1>4. ASSUME NEW n \in Subtree(id) PROVE \E i \in 1 .. Len(n.path) : id = n.path[i]
  <2>1. n \in nodes /\ \E t \in nodes : t.id = id /\ Under(n.path, t.path)
    BY <1>4 DEF Subtree
  <2>2. PICK t \in nodes : t.id = id /\ Under(n.path, t.path)
    BY <2>1
  <2>3. n.path[Len(t.path)] = id /\ Len(t.path) \in 1 .. Len(n.path)
    BY <1>1, <2>1, <2>2, UnderLabel
  <2> QED
    BY <2>3
<1> QED
  BY <1>2, <1>3, <1>4

LEMMA DeleteStep ==
    ASSUME IInv, TreeInv, [Next]_vars
    PROVE  WholeSubtree
<1>1. ASSUME nodes \subseteq nodes' PROVE WholeSubtree
  BY <1>1 DEF WholeSubtree
<1>2. ASSUME NEW r \in Requests, NodeDelete(r) \/ DocDelete(r) PROVE WholeSubtree
  <2>1. DeleteRows(Subtree(req[r].id)) /\ req[r].pc \in {"node_delete", "doc_delete"}
    BY <1>2 DEF NodeDelete, DocDelete
  <2>2. TypeOK /\ TreeWellFormed
    BY DEF IInv, TreeInv
  <2> QED
    BY <2>1, <2>2, SubtreeIsWhole DEF WholeSubtree
<1>3. ASSUME NEW r \in Requests, Start(r) PROVE WholeSubtree
  BY <1>1, <1>3 DEF Start, FolderBegin, FileBegin, NodeBegin, DocBegin, ReadBegin, BeginCreate, Begin
<1>4. ASSUME NEW r \in Requests, Continue(r) PROVE WholeSubtree
  BY <1>1, <1>2, <1>4
     DEF Continue, Proceed, FolderAccess, FolderInsert, FileAccess, FileOpen, FileCopy, FileTx, FileUndo,
         NodeAccessCheck, NodeList, DocAccess, DocLookup, DocClean, Recover, ReadAccess, ReadOpen,
         QueryFails, CheckPath, CheckNode
<1>5. CASE \E s \in Sweepers : Sweep(s)
  BY <1>1, <1>5 DEF Sweep
<1>6. CASE Crash
  BY <1>1, <1>6 DEF Crash
<1>7. CASE UNCHANGED vars
  BY <1>1, <1>7 DEF vars
<1> QED
  BY <1>3, <1>4, <1>5, <1>6, <1>7 DEF Next

\* A row that stays keeps its ancestors; a row that goes was below the target
\* of a deletion.
THEOREM DeletionsAreExact == Spec => DeleteIsExact
<1>1. IInv /\ TreeInv /\ [Next]_vars => [WholeSubtree]_vars
  BY DeleteStep
<1> QED
  BY <1>1, Invariance, TreeInvariance, PTL DEF Spec, DeleteIsExact

-----------------------------------------------------------------------------
(***************************************************************************)
(* Content stops being accounted for only at the steps LeakCause names.    *)
(* Besides IInv the argument needs the tree: the DELETE of a file deletion *)
(* takes that one document because nothing is below a file.                *)
(***************************************************************************)
\* The steps at which a request has content to record or to remove.
Holding == {"file_copy", "file_tx", "file_undo", "doc_clean"}

\* A step of request r on content k that leaves the other requests alone.
LEMMA HeldByMover ==
    ASSUME NEW r \in Requests, \A q \in Requests \ {r} : req'[q] = req[q],
           NEW k, Accounted(k), ~Accounted(k)', k \in docs => k \in docs',
           \A s \in Sweepers : sweeps[s] \subseteq sweeps'[s]
    PROVE  /\ req[r].id = k /\ req[r].pc \in Holding
           /\ ~(req'[r].id = k /\ req'[r].pc \in Holding)
  BY DEF Accounted, Holding

LEMMA LeakAtRest ==
    ASSUME NEW r \in Requests, \A q \in Requests \ {r} : req'[q] = req[q],
           req[r].pc \notin Holding, NEW k, blobs[k] # "none" => Accounted(k), UNCHANGED <<docs, sweeps, blobs>>
    PROVE  blobs'[k] # "none" => Accounted(k)'
<1>1. Accounted(k) => Accounted(k)'
  BY HeldByMover
<1> QED
  BY <1>1

\* A step that writes or removes the content of its own request.
LEMMA LeakOfMover ==
    ASSUME TypeOK, NEW r \in Requests, Answer(r) \/ (\E pc : Goto(r, pc)),
           NEW k \in NodeIds, blobs[k] # "none" => Accounted(k),
           blobs'[k] # "none", ~Accounted(k)',
           docs \subseteq docs', UNCHANGED sweeps,
           UNCHANGED blobs \/ (\E b : blobs' = [blobs EXCEPT ![req[r].id] = b])
    PROVE  /\ req[r].id = k
           /\ \A pc \in Holding : ~Goto(r, pc)
<1>1. \A q \in Requests \ {r} : req'[q] = req[q]
  BY GotoEffect, AnswerEffect
<1>2. req[r].id = k
  <2>1. CASE Accounted(k)
    BY <1>1, <2>1, HeldByMover
  <2>2. CASE ~Accounted(k)
    BY <2>2 DEF TypeOK
  <2> QED
    BY <2>1, <2>2
<1>3. ASSUME NEW pc \in Holding, Goto(r, pc) PROVE FALSE
  BY <1>2, <1>3, GotoEffect DEF Accounted, Holding
<1> QED
  BY <1>2, <1>3

\* The DELETE of a file deletion takes its document and no other.
LEMMA OnlyTheFile ==
    ASSUME TypeOK, TreeInv, NEW r \in Requests, req[r].pc = "doc_delete",
           DeleteRows(Subtree(req[r].id)), NEW k \in docs, k \notin docs'
    PROVE  k = req[r].id
<1>1. PICK n \in nodes : n.id = k /\ n \in Subtree(req[r].id)
  BY DEF DeleteRows, Ids, Subtree
<1>2. PICK t \in nodes : t.id = req[r].id /\ Under(n.path, t.path)
  BY <1>1 DEF Subtree
<1>3. t.type = "file"
  BY <1>2 DEF TreeInv, Ancestry, Abreast, Targeting
<1> QED
  BY <1>1, <1>2, <1>3 DEF TreeInv, TreeWellFormed

LEMMA LeakContinue ==
    ASSUME IInv, TreeInv, NEW r \in Requests, Continue(r), NEW k \in NodeIds,
           blobs[k] # "none" => Accounted(k), blobs'[k] # "none", ~Accounted(k)'
    PROVE  LeakCause(k)
<1>1. TypeOK
  BY DEF IInv
<1>2. ASSUME Answer(r) \/ (\E pc : Goto(r, pc))
      PROVE  \A q \in Requests \ {r} : req'[q] = req[q]
  BY <1>1, <1>2, GotoEffect, AnswerEffect
<1>3. ASSUME Answer(r), req[r].id = k, req[r].pc \in {"file_copy", "file_undo", "doc_clean"}
      PROVE  LeakCause(k)
  BY <1>1, <1>3, AnswerEffect DEF LeakCause
<1>4. ASSUME req[r].pc \notin Holding, UNCHANGED <<docs, sweeps, blobs>>,
             Answer(r) \/ (\E pc : Goto(r, pc))
      PROVE  FALSE
  BY <1>2, <1>4, LeakAtRest
<1>5. CASE FileOpen(r)
  <2>1. CASE Goto(r, "file_copy") /\ blobs' = [blobs EXCEPT ![req[r].id] = "partial"]
    <3>1. UNCHANGED <<docs, sweeps>> /\ "file_copy" \in Holding
      BY <1>5 DEF FileOpen, tables, Holding
    <3> QED
      BY <1>1, <2>1, <3>1, LeakOfMover
  <2>2. CASE Answer(r) /\ UNCHANGED blobs
    BY <1>4, <1>5, <2>2 DEF FileOpen, tables, Holding
  <2> QED
    BY <1>5, <2>1, <2>2 DEF FileOpen
<1>6. CASE FileCopy(r)
  <2>1. /\ req[r].pc = "file_copy" /\ UNCHANGED <<docs, sweeps>>
        /\ Answer(r) \/ Goto(r, "file_tx")
        /\ UNCHANGED blobs \/ (\E b : blobs' = [blobs EXCEPT ![req[r].id] = b])
    BY <1>6 DEF FileCopy, RemoveBlob, tables
  <2>2. req[r].id = k /\ \A pc \in Holding : ~Goto(r, pc)
    BY <1>1, <2>1, LeakOfMover
  <2> QED
    BY <1>3, <2>1, <2>2 DEF Holding
<1>7. CASE FileTx(r)
  <2>1. /\ UNCHANGED <<blobs, sweeps>> /\ docs \subseteq docs'
        /\ Goto(r, "file_undo") \/ (Answer(r) /\ req[r].id \in docs')
    BY <1>7 DEF FileTx, ChildRow, tables
  <2>2. req[r].id = k /\ \A pc \in Holding : ~Goto(r, pc)
    BY <1>1, <2>1, LeakOfMover
  <2>3. k \in docs'
    BY <2>1, <2>2 DEF Holding
  <2> QED
    BY <2>3 DEF Accounted
<1>8. CASE FileUndo(r) \/ DocClean(r)
  <2>1. /\ req[r].pc \in {"file_undo", "doc_clean"} /\ UNCHANGED <<docs, sweeps>> /\ Answer(r)
        /\ UNCHANGED blobs \/ (\E b : blobs' = [blobs EXCEPT ![req[r].id] = b])
    BY <1>8 DEF FileUndo, DocClean, RemoveBlob, tables
  <2>2. req[r].id = k
    BY <1>1, <2>1, LeakOfMover
  <2> QED
    BY <1>3, <2>1, <2>2
<1>9. CASE NodeDelete(r)
  <2>1. req[r].pc = "node_delete" /\ Answer(r) /\ UNCHANGED blobs
    BY <1>9 DEF NodeDelete
  <2>2. \/ UNCHANGED sweeps /\ (req[r].docs = {} \/ "commit" \in Faults)
        \/ \E s \in Sweepers : sweeps[s] = {} /\ sweeps' = [sweeps EXCEPT ![s] = req[r].docs]
    BY <1>9 DEF NodeDelete
  <2>3. Accounted(k) /\ \A s \in Sweepers : sweeps[s] \subseteq sweeps'[s]
    BY <1>1, <2>1, <2>2 DEF TypeOK
  <2>4. k \in docs
    BY <1>2, <2>1, <2>3, HeldByMover DEF Holding
  <2>5. CASE k \notin req[r].docs
    BY <2>1, <2>4, <2>5 DEF LeakCause
  <2>6. CASE k \in req[r].docs /\ UNCHANGED sweeps
    <3>1. "commit" \in Faults /\ req'[r].pc = "idle"
      BY <1>1, <2>1, <2>2, <2>6, AnswerEffect DEF TypeOK
    <3> QED
      BY <2>1, <2>6, <3>1 DEF LeakCause
  <2>7. CASE k \in req[r].docs /\ ~UNCHANGED sweeps
    <3>1. \E s \in Sweepers : k \in sweeps'[s]
      BY <1>1, <2>2, <2>7 DEF TypeOK
    <3> QED
      BY <3>1 DEF Accounted
  <2> QED
    BY <2>5, <2>6, <2>7
<1>10. CASE DocDelete(r)
  <2>1. /\ req[r].pc = "doc_delete" /\ UNCHANGED <<blobs, sweeps>>
        /\ DeleteRows(Subtree(req[r].id))
        /\ Goto(r, "doc_clean") \/ ("commit" \in Faults /\ Answer(r))
    BY <1>10 DEF DocDelete
  <2>2. Accounted(k) /\ k \in docs /\ k \notin docs'
    BY <1>2, <2>1, HeldByMover DEF Holding, Accounted
  <2>3. k = req[r].id
    BY <1>1, <2>1, <2>2, OnlyTheFile
  <2>4. CASE Goto(r, "doc_clean")
    BY <1>1, <2>3, <2>4, GotoEffect DEF Accounted
  <2>5. CASE "commit" \in Faults /\ Answer(r)
    <3>1. req'[r].pc = "idle"
      BY <1>1, <2>5, AnswerEffect
    <3> QED
      BY <2>1, <2>5, <3>1 DEF LeakCause
  <2> QED
    BY <2>1, <2>4, <2>5
<1>11. CASE NodeList(r)
  <2>1. /\ req[r].pc = "node_list" /\ UNCHANGED <<docs, sweeps, blobs>>
        /\ \A q \in Requests \ {r} : req'[q] = req[q]
    BY <1>1, <1>11 DEF NodeList, tables, TypeOK
  <2> QED
    BY <2>1, LeakAtRest DEF Holding
<1>12. CASE /\ ~FileOpen(r) /\ ~FileCopy(r) /\ ~FileTx(r) /\ ~FileUndo(r) /\ ~DocClean(r)
            /\ ~NodeDelete(r) /\ ~DocDelete(r) /\ ~NodeList(r)
  <2>1. /\ req[r].pc \notin Holding /\ UNCHANGED <<docs, sweeps, blobs>>
        /\ Answer(r) \/ (\E pc : Goto(r, pc))
    BY <1>12 DEF Continue, Proceed, FolderAccess, FolderInsert, FileAccess, NodeAccessCheck,
                 DocAccess, DocLookup, Recover, ReadAccess, ReadOpen, QueryFails, CheckPath, CheckNode,
                 Holding, tables
  <2> QED
    BY <1>4, <2>1
<1> QED
  BY <1>5, <1>6, <1>7, <1>8, <1>9, <1>10, <1>11, <1>12

LEMMA LeakStep ==
    ASSUME IInv, TreeInv, [Next]_vars
    PROVE  LeakCaused
<1> SUFFICES ASSUME NEW k \in NodeIds, blobs[k] # "none" => Accounted(k),
                    blobs'[k] # "none", ~Accounted(k)'
             PROVE  LeakCause(k)
  BY DEF LeakCaused
<1>1. TypeOK
  BY DEF IInv
<1>2. ASSUME NEW r \in Requests, Start(r) PROVE FALSE
  <2>1. PICK op, pc, u, row, id, name : Begin(r, op, pc, u, row, id, name)
    BY <1>2 DEF Start, FolderBegin, FileBegin, NodeBegin, DocBegin, ReadBegin, BeginCreate
  <2>2. /\ req[r].pc \notin Holding /\ UNCHANGED <<docs, sweeps, blobs>>
        /\ \A q \in Requests \ {r} : req'[q] = req[q]
    BY <1>1, <2>1 DEF Begin, TypeOK, Holding, tables
  <2> QED
    BY <2>2, LeakAtRest
<1>3. ASSUME NEW s \in Sweepers, Sweep(s) PROVE LeakCause(k)
  <2>1. /\ UNCHANGED <<docs, req>> /\ \A o \in Sweepers \ {s} : sweeps'[o] = sweeps[o]
        /\ \A j \in NodeIds : blobs'[j] # "none" => blobs[j] # "none"
    BY <1>1, <1>3 DEF Sweep, RemoveBlob, tables, TypeOK
  <2>2. k \in sweeps[s] \ sweeps'[s]
    BY <2>1 DEF Accounted
  <2> QED
    BY <2>2 DEF LeakCause
<1>4. CASE Crash
  BY <1>1, <1>4 DEF Crash, LeakCause, TypeOK
<1>5. CASE UNCHANGED vars
  BY <1>5 DEF vars, Accounted
<1> QED
  BY <1>2, <1>3, <1>4, <1>5, LeakContinue DEF Next

\* Content on the disk stays on record, or in the hands of a request or a cleanup
\* that has yet to record or remove it, until a step LeakCause names.
THEOREM LeaksHaveACause == Spec => LeakHasCause
<1>1. IInv /\ TreeInv /\ [Next]_vars => [LeakCaused]_vars
  BY LeakStep
<1> QED
  BY <1>1, Invariance, TreeInvariance, PTL DEF Spec, LeakHasCause
=============================================================================
