--------------------------- MODULE SharingProofs ---------------------------
(***************************************************************************)
(* Theorems about Sharing, for any sets of requests, users, groups and     *)
(* names, any roles, any accounts there from the start and any bound on    *)
(* the requests.                                                           *)
(***************************************************************************)
EXTENDS Sharing, TLAPS

USE DEF tables

-----------------------------------------------------------------------------
(***************************************************************************)
(* Requests                                                                *)
(***************************************************************************)
LEMMA IdleTyped == Idle \in Request /\ Equipped(Idle) /\ Idle.pc = "idle"
  BY DEF Idle, Request, Equipped, Steps

\* Ending a request keeps every request well formed.
LEMMA AnswerTyped ==
    ASSUME TypeOK, NEW r \in Requests, Answer(r), Ids(usrs) \subseteq Ids(usrs)'
    PROVE  /\ req' \in [Requests -> Request]
           /\ \A s \in Requests : Equipped(req[s])'
<1>1. req' = [req EXCEPT ![r] = Idle]
  BY DEF Answer
<1>2. req' \in [Requests -> Request]
  BY <1>1, IdleTyped DEF TypeOK
<1>3. ASSUME NEW s \in Requests
      PROVE  Equipped(req[s])'
  <2>1. CASE s = r
    BY <1>1, <2>1, IdleTyped DEF TypeOK, Equipped
  <2>2. CASE s # r
    BY <1>1, <2>2 DEF TypeOK, Equipped
  <2> QED
    BY <2>1, <2>2
<1> QED
  BY <1>2, <1>3

\* Ending a request keeps the ids apart when no account and no group id is new.
LEMMA AnswerOwn ==
    ASSUME TypeOK, OwnIds, NEW r \in Requests, Answer(r), UNCHANGED <<usrs, used>>,
           Ids(groups)' \subseteq Ids(groups),
           \A g, h \in groups' : g.id = h.id => g = h
    PROVE  OwnIds'
<1>1. req' = [req EXCEPT ![r] = Idle]
  BY DEF Answer
<1>2. \A s \in Requests : (req[s].pc)' = "usr_tx" => req'[s] = req[s]
  BY <1>1, IdleTyped DEF TypeOK
<1>3. Ids(usrs)' = Ids(usrs)
  BY DEF Ids
<1>4. (Ids(usrs) \cup Ids(groups))' \subseteq used'
  BY <1>3 DEF OwnIds
<1>5. ASSUME NEW s \in Requests, (req[s].pc)' = "usr_tx"
      PROVE  /\ (req[s].target)' \in used' \ (Ids(usrs) \cup Ids(groups))'
             /\ \A q \in Requests \ {s} : (req[q].pc)' = "usr_tx" => (req[q].target)' # (req[s].target)'
  BY <1>2, <1>3, <1>5 DEF OwnIds
<1> QED
  BY <1>4, <1>5 DEF OwnIds

\* A request that has passed its first check, but for the creation of an account.
LEMMA BeginKeeps ==
    ASSUME IInv, begun < MaxRequests, NEW r \in Requests, NEW q \in Request, Equipped(q),
           q.pc # "usr_tx", Begin(r, q), UNCHANGED used
    PROVE  IInv'
<1>1. req' = [req EXCEPT ![r] = q] /\ UNCHANGED tables /\ begun' = begun + 1
  BY DEF Begin
<1>2. Ids(usrs)' = Ids(usrs) /\ Ids(groups)' = Ids(groups) /\ Ids(nodes)' = Ids(nodes)
  BY <1>1 DEF Ids
<1>3. req' \in [Requests -> Request]
  BY <1>1 DEF IInv, TypeOK
<1>4. \A s \in Requests : Equipped(req[s])'
  BY <1>1, <1>2 DEF IInv, TypeOK, Equipped
<1>5. begun' \in 0 .. MaxRequests
  BY <1>1, MaxAssumption DEF IInv, TypeOK
<1>6. TypeOK'
  BY <1>1, <1>3, <1>4, <1>5 DEF IInv, TypeOK
<1>7. \A s \in Requests : (req[s].pc)' = "usr_tx" => req'[s] = req[s]
  BY <1>1 DEF IInv, TypeOK
<1>8. OwnIds'
  BY <1>1, <1>2, <1>7 DEF IInv, OwnIds
<1>9. RowsRefer' /\ LimitedOnlyReads'
  BY <1>1, <1>2 DEF IInv, RowsRefer, LimitedOnlyReads
<1> QED
  BY <1>6, <1>8, <1>9 DEF IInv

-----------------------------------------------------------------------------
(***************************************************************************)
(* The invariant                                                           *)
(***************************************************************************)
LEMMA HomeTyped ==
    ASSUME NEW u \in UsrIds, NEW name \in UsrNames
    PROVE  /\ UsrRow(u, name) \in Usr
           /\ HomeGroup(u, name) \in Group
           /\ HomeNode(u, name) \in Node
           /\ u \in GroupIds /\ u \in NodeIds
           /\ Owner(u, u) \in GroupUsr
<1>1. u \in GroupIds /\ u \in NodeIds /\ UsrRoot \in NodeIds
  BY DEF GroupIds, NodeIds
<1>2. <<UsrRoot, u>> \in Seq(NodeIds)
  BY <1>1
<1> QED
  BY <1>1, <1>2 DEF UsrRow, Usr, HomeGroup, Group, HomeNode, Node, Owner, GroupUsr, AccessLevels, Names

LEMMA RootTyped ==
    /\ RootGroup \in GroupIds
    /\ RootGroupRow \in Group
    /\ RootNodes \subseteq Node
    /\ RootGrants \subseteq GroupIds \X NodeIds
<1>1. RootGroup \in GroupIds /\ UsrRoot \in NodeIds /\ SharedRoot \in NodeIds
  BY DEF GroupIds, NodeIds
<1>2. <<UsrRoot>> \in Seq(NodeIds) /\ <<SharedRoot>> \in Seq(NodeIds)
  BY <1>1
<1> QED
  BY <1>1, <1>2 DEF RootGroupRow, Group, RootNodes, Node, RootGrants

LEMMA IdsAdd ==
    ASSUME NEW S, NEW T
    PROVE  Ids(S \cup T) = Ids(S) \cup Ids(T)
  BY DEF Ids

LEMMA IdsOne ==
    ASSUME NEW x
    PROVE  Ids({x}) = {x.id}
  BY DEF Ids

LEMMA RootNodesIds == Ids(RootNodes) = {UsrRoot, SharedRoot}
<1> DEFINE a == [id |-> UsrRoot, path |-> <<UsrRoot>>, name |-> "usrs"]
           b == [id |-> SharedRoot, path |-> <<SharedRoot>>, name |-> "shared"]
<1>1. a.id = UsrRoot /\ b.id = SharedRoot
  OBVIOUS
<1>2. RootNodes = {a, b}
  BY DEF RootNodes
<1> HIDE DEF a, b
<1> QED
  BY <1>1, <1>2 DEF Ids

LEMMA InitKeeps == Init => IInv
<1> SUFFICES ASSUME Init PROVE IInv
  OBVIOUS
<1>1. req = [r \in Requests |-> Idle] /\ begun = 0
  BY DEF Init
<1>2. /\ req \in [Requests -> Request]
      /\ \A r \in Requests : Equipped(req[r]) /\ req[r].pc = "idle"
      /\ begun \in 0 .. MaxRequests
  BY <1>1, IdleTyped, MaxAssumption
<1>3. CASE InitEmpty
  <2>1. TypeOK
    BY <1>2, <1>3 DEF InitEmpty, TypeOK
  <2>2. OwnIds
    BY <1>2, <1>3 DEF InitEmpty, OwnIds, Ids
  <2>3. RowsRefer /\ LimitedOnlyReads
    BY <1>3 DEF InitEmpty, RowsRefer, LimitedOnlyReads
  <2> QED
    BY <2>1, <2>2, <2>3 DEF IInv
<1>4. CASE InitWith(Settled)
  <2>1. \A u \in Settled : u \in UsrIds /\ FirstName[u] \in UsrNames
    BY SettledAssumption
  <2>2. TypeOK
    <3>1. usrs \subseteq Usr
      BY <1>4, <2>1, HomeTyped DEF InitWith
    <3>2. groups \subseteq Group
      BY <1>4, <2>1, HomeTyped, RootTyped DEF InitWith
    <3>3. groupUsrs \subseteq GroupUsr
      BY <1>4, <2>1, HomeTyped, RootTyped DEF InitWith, Supers, Owner, GroupUsr, AccessLevels
    <3>4. groupNodes \subseteq GroupIds \X NodeIds
      BY <1>4, <2>1, HomeTyped, RootTyped DEF InitWith
    <3>5. nodes \subseteq Node
      BY <1>4, <2>1, HomeTyped, RootTyped DEF InitWith
    <3>6. used \subseteq UsrIds \cup NewGroups \cup {RootGroup}
      BY <1>4, <2>1 DEF InitWith
    <3> QED
      BY <1>2, <3>1, <3>2, <3>3, <3>4, <3>5, <3>6 DEF TypeOK
  <2>3. OwnIds
    BY <1>2, <1>4, <2>1, IdsAssumption DEF InitWith, OwnIds, Ids, UsrRow, HomeGroup, RootGroupRow
  <2>4. RowsRefer
    <3>1. \A m \in groupUsrs : \E u \in Settled : m = Owner(u, u) \/ m = Owner(RootGroup, u)
      BY <1>4 DEF InitWith, Supers
    <3>2. Settled \subseteq Ids(usrs) /\ Settled \cup {RootGroup} \subseteq Ids(groups)
      <4>1. \A u \in Settled : UsrRow(u, FirstName[u]) \in usrs /\ UsrRow(u, FirstName[u]).id = u
        BY <1>4 DEF InitWith, UsrRow
      <4>2. \A u \in Settled : HomeGroup(u, FirstName[u]) \in groups /\ HomeGroup(u, FirstName[u]).id = u
        BY <1>4 DEF InitWith, HomeGroup
      <4>3. RootGroupRow \in groups /\ RootGroupRow.id = RootGroup
        BY <1>4 DEF InitWith, RootGroupRow
      <4> QED
        BY <4>1, <4>2, <4>3 DEF Ids
    <3>3. \A m \in groupUsrs : m.group \in Ids(groups) /\ m.usr \in Ids(usrs)
      BY <3>1, <3>2 DEF Owner
    <3>4. Settled \cup {UsrRoot, SharedRoot} \subseteq Ids(nodes)
      <4>1. \A u \in Settled : HomeNode(u, FirstName[u]) \in nodes /\ HomeNode(u, FirstName[u]).id = u
        BY <1>4 DEF InitWith, HomeNode
      <4>2. \A x \in {UsrRoot, SharedRoot} : \E n \in nodes : n.id = x
        BY <1>4, RootNodesIds DEF InitWith, Ids
      <4>3. \A x \in Settled \cup {UsrRoot, SharedRoot} : \E n \in nodes : n.id = x
        BY <4>1, <4>2
      <4> QED
        BY <4>3 DEF Ids
    <3>5. \A x \in groupNodes : x[1] \in Ids(groups) /\ x[2] \in Ids(nodes)
      BY <1>4, <3>2, <3>4 DEF InitWith, RootGrants
    <3>6. \A m, k \in groupUsrs : m.group = k.group /\ m.usr = k.usr => m = k
      BY <3>1 DEF Owner
    <3> QED
      BY <3>3, <3>5, <3>6 DEF RowsRefer
  <2>5. LimitedOnlyReads
    BY <1>4, <2>1 DEF InitWith, LimitedOnlyReads, Supers, Owner
  <2> QED
    BY <2>2, <2>3, <2>4, <2>5 DEF IInv
<1> QED
  BY <1>3, <1>4 DEF Init

\* The transaction of "approot".
LEMMA approotKeeps ==
    ASSUME IInv, approot
    PROVE  IInv'
<1>1. /\ RootGroup \notin used /\ used' = used \cup {RootGroup}
      /\ groups' = groups \cup {RootGroupRow} /\ nodes' = nodes \cup RootNodes
      /\ groupNodes' = groupNodes \cup RootGrants
      /\ UNCHANGED <<usrs, groupUsrs, req, begun>>
  BY DEF approot
<1>2. TypeOK'
  BY <1>1, RootTyped DEF IInv, TypeOK, Equipped, Ids
<1>3. RootGroup \notin Ids(groups)
  BY <1>1 DEF IInv, OwnIds
<1>4. Ids(groups)' = Ids(groups) \cup {RootGroup} /\ Ids(usrs)' = Ids(usrs)
  <2>1. Ids({RootGroupRow}) = {RootGroup}
    <3>1. RootGroupRow.id = RootGroup
      BY DEF RootGroupRow
    <3> QED
      BY <3>1, IdsOne
  <2>2. Ids(groups') = Ids(groups) \cup Ids({RootGroupRow})
    BY <1>1, IdsAdd
  <2> QED
    BY <1>1, <2>1, <2>2 DEF Ids
<1>5. Ids(nodes) \cup {UsrRoot, SharedRoot} \subseteq Ids(nodes)'
  BY <1>1, IdsAdd, RootNodesIds
<1>6. OwnIds'
  <2>1. \A g, h \in groups' : g.id = h.id => g = h
    BY <1>1, <1>3 DEF IInv, OwnIds, Ids, RootGroupRow
  <2>2. \A r \in Requests : req[r].pc = "usr_tx" => req[r].target \in UsrIds /\ req[r].target # RootGroup
    BY IdsAssumption DEF IInv, TypeOK, Equipped
  <2> QED
    BY <1>1, <1>4, <2>1, <2>2 DEF IInv, OwnIds
<1>7. RowsRefer'
  <2>1. \A x \in RootGrants : x[1] = RootGroup /\ x[2] \in {UsrRoot, SharedRoot}
    BY DEF RootGrants
  <2> QED
    BY <1>1, <1>4, <1>5, <2>1 DEF IInv, RowsRefer
<1>8. LimitedOnlyReads'
  BY <1>1 DEF IInv, LimitedOnlyReads
<1> QED
  BY <1>2, <1>6, <1>7, <1>8 DEF IInv

\* The ids of the new account are nobody else's until its transaction.
LEMMA UsrBeginKeeps ==
    ASSUME IInv, begun < MaxRequests, NEW r \in Requests, req[r].pc = "idle", UsrBegin(r)
    PROVE  IInv'
<1>1. PICK u \in UsrIds \ used, name \in UsrNames, by \in Supers(Ids(usrs)) \cup {None} :
        /\ used' = used \cup {u}
        /\ Begin(r, [Idle EXCEPT !.pc = "usr_tx", !.usr = by, !.target = u, !.name = name])
  BY DEF UsrBegin
<1> DEFINE q == [Idle EXCEPT !.pc = "usr_tx", !.usr = by, !.target = u, !.name = name]
<1>2. by \in UsrIds \cup {None}
  BY DEF IInv, TypeOK, Usr, Ids, Supers
<1>3. q \in Request /\ q.pc = "usr_tx" /\ q.target = u /\ q.name = name
  BY <1>2 DEF Idle, Request, Steps, Names
<1>4. Equipped(q)
  BY <1>3 DEF Equipped
<1>5. req' = [req EXCEPT ![r] = q] /\ UNCHANGED tables /\ begun' = begun + 1
  BY <1>1 DEF Begin
<1> HIDE DEF q
<1>6. Ids(usrs)' = Ids(usrs) /\ Ids(groups)' = Ids(groups) /\ Ids(nodes)' = Ids(nodes)
  BY <1>5 DEF Ids
<1>7. TypeOK'
  <2>1. req' \in [Requests -> Request]
    BY <1>3, <1>5 DEF IInv, TypeOK
  <2>2. \A s \in Requests : Equipped(req[s])'
    BY <1>4, <1>5, <1>6 DEF IInv, TypeOK, Equipped
  <2>3. begun' \in 0 .. MaxRequests
    BY <1>5, MaxAssumption DEF IInv, TypeOK
  <2> QED
    BY <1>1, <1>5, <2>1, <2>2, <2>3 DEF IInv, TypeOK
<1>8. OwnIds'
  <2>1. u \notin Ids(usrs) \cup Ids(groups)
    BY DEF IInv, OwnIds
  <2>2. \A s \in Requests \ {r} : req'[s] = req[s]
    BY <1>5 DEF IInv, TypeOK
  <2>3. req'[r] = q
    BY <1>5 DEF IInv, TypeOK
  <2>4. \A s \in Requests \ {r} : req[s].pc = "usr_tx" => req[s].target \in used /\ req[s].target # u
    BY DEF IInv, OwnIds
  <2> QED
    BY <1>1, <1>3, <1>5, <1>6, <2>1, <2>2, <2>3, <2>4 DEF IInv, OwnIds
<1>9. RowsRefer' /\ LimitedOnlyReads'
  BY <1>5, <1>6 DEF IInv, RowsRefer, LimitedOnlyReads
<1> QED
  BY <1>7, <1>8, <1>9 DEF IInv

\* The transaction of CreateUsr, with the ids drawn when it began.
LEMMA UsrTxKeeps ==
    ASSUME IInv, NEW r \in Requests, UsrTx(r)
    PROVE  IInv'
<1> DEFINE u == req[r].target  name == req[r].name
<1>1. /\ req[r].pc = "usr_tx" /\ Answer(r) /\ UNCHANGED <<begun, used>>
      /\ u \in UsrIds /\ name \in UsrNames
      /\ u \in used /\ u \notin Ids(usrs) /\ u \notin Ids(groups)
  BY DEF UsrTx, Act, IInv, TypeOK, Equipped, OwnIds
<1>2. CASE UNCHANGED tables
  <2>1. Ids(usrs)' = Ids(usrs) /\ Ids(groups)' = Ids(groups) /\ Ids(nodes)' = Ids(nodes)
    BY <1>2 DEF Ids
  <2>2. TypeOK'
    BY <1>1, <1>2, <2>1, AnswerTyped DEF IInv, TypeOK
  <2>3. OwnIds'
    BY <1>1, <1>2, <2>1, AnswerOwn DEF IInv, OwnIds
  <2>4. RowsRefer' /\ LimitedOnlyReads'
    BY <1>2, <2>1 DEF IInv, RowsRefer, LimitedOnlyReads
  <2> QED
    BY <2>2, <2>3, <2>4 DEF IInv
<1>3. CASE ~UNCHANGED tables
  <2>1. /\ usrs' = usrs \cup {UsrRow(u, name)}
        /\ nodes' = nodes \cup {HomeNode(u, name)}
        /\ groups' = groups \cup {HomeGroup(u, name)}
        /\ groupNodes' = groupNodes \cup {<<u, u>>}
        /\ groupUsrs' = groupUsrs \cup {Owner(u, u)} \cup Joined(u)
    BY <1>3 DEF UsrTx
  <2>2. \A m \in Joined(u) : /\ m \in GroupUsr /\ m.usr = u /\ m.access = "owner"
                             /\ m.group \in Ids(groups) /\ RoleOf[u] = "super"
    <3>1. \A g \in RootGroups : g.id \in GroupIds /\ g.id \in Ids(groups)
      BY DEF IInv, TypeOK, Group, Ids, RootGroups
    <3> QED
      BY <1>1, <3>1 DEF Joined, Owner, GroupUsr, AccessLevels
  <2> HIDE DEF u, name
  <2>3. UsrRow(u, name).id = u /\ HomeGroup(u, name).id = u /\ HomeNode(u, name).id = u
    BY DEF UsrRow, HomeGroup, HomeNode
  <2>4. /\ Ids(usrs') = Ids(usrs) \cup {u} /\ Ids(groups') = Ids(groups) \cup {u}
        /\ Ids(nodes') = Ids(nodes) \cup {u}
    <3>1. /\ Ids({UsrRow(u, name)}) = {u} /\ Ids({HomeGroup(u, name)}) = {u}
          /\ Ids({HomeNode(u, name)}) = {u}
      BY <2>3, IdsOne
    <3> QED
      BY <2>1, <3>1, IdsAdd
  <2>5. Ids(usrs)' = Ids(usrs') /\ Ids(groups)' = Ids(groups') /\ Ids(nodes)' = Ids(nodes')
    BY DEF Ids
  <2>6. TypeOK'
    <3>1. req' \in [Requests -> Request] /\ \A s \in Requests : Equipped(req[s])'
      BY <1>1, <2>4, <2>5, AnswerTyped DEF IInv
    <3>2. groupUsrs' \subseteq GroupUsr
      BY <1>1, <2>1, <2>2, HomeTyped DEF IInv, TypeOK
    <3> QED
      BY <1>1, <2>1, <3>1, <3>2, HomeTyped DEF IInv, TypeOK
  <2>7. OwnIds'
    <3>1. req' = [req EXCEPT ![r] = Idle]
      BY <1>1 DEF Answer
    <3>2. \A s \in Requests : (req[s].pc)' = "usr_tx" => s # r /\ req'[s] = req[s]
      BY <3>1, IdleTyped DEF IInv, TypeOK
    <3>3. \A s \in Requests \ {r} : req[s].pc = "usr_tx" => req[s].target # u
      BY <1>1 DEF IInv, OwnIds, u
    <3>4. \A g, h \in groups' : g.id = h.id => g = h
      BY <1>1, <2>1, <2>3 DEF IInv, OwnIds, Ids
    <3>5. (Ids(usrs) \cup Ids(groups))' \subseteq used'
      BY <1>1, <2>4, <2>5 DEF IInv, OwnIds
    <3>6. ASSUME NEW s \in Requests, (req[s].pc)' = "usr_tx"
          PROVE  /\ (req[s].target)' \in used' \ (Ids(usrs) \cup Ids(groups))'
                 /\ \A q \in Requests \ {s} : (req[q].pc)' = "usr_tx" => (req[q].target)' # (req[s].target)'
      BY <1>1, <2>4, <2>5, <3>2, <3>3, <3>6 DEF IInv, OwnIds
    <3> QED
      BY <3>4, <3>5, <3>6 DEF OwnIds
  <2>8. RowsRefer'
    <3>1. \A m \in groupUsrs : m.usr # u /\ m.group # u
      BY <1>1 DEF IInv, RowsRefer
    <3>2. Owner(u, u).usr = u /\ Owner(u, u).group = u
      BY DEF Owner
    <3>3. \A m, k \in Joined(u) : m.group = k.group => m = k
      BY DEF Joined, Owner
    <3>4. \A m \in Joined(u) : m.group # u
      BY <1>1, <2>2
    <3>5. \A m \in groupUsrs' : m.group \in Ids(groups)' /\ m.usr \in Ids(usrs)'
      BY <2>1, <2>2, <2>4, <2>5, <3>2 DEF IInv, RowsRefer
    <3>6. \A m, k \in groupUsrs' : m.group = k.group /\ m.usr = k.usr => m = k
      BY <2>1, <2>2, <3>1, <3>2, <3>3, <3>4 DEF IInv, RowsRefer
    <3>7. \A x \in groupNodes' : x[1] \in Ids(groups)' /\ x[2] \in Ids(nodes)'
      <4>1. \A x \in {<<u, u>>} : x[1] = u /\ x[2] = u
        OBVIOUS
      <4> QED
        BY <2>1, <2>4, <2>5, <4>1 DEF IInv, RowsRefer
    <3> QED
      BY <3>5, <3>6, <3>7 DEF RowsRefer
  <2>9. LimitedOnlyReads'
    <3>1. Owner(u, u).usr = u /\ Owner(u, u).group = u
      BY DEF Owner
    <3> QED
      BY <2>1, <2>2, <3>1 DEF IInv, LimitedOnlyReads
  <2> QED
    BY <2>6, <2>7, <2>8, <2>9 DEF IInv
<1> QED
  BY <1>2, <1>3

\* A new group, its creator an owner.
LEMMA CreateGroupKeeps ==
    ASSUME IInv, CreateGroup
    PROVE  IInv'
<1>1. PICK u \in Managers, g \in NewGroups \ used, name \in GroupNames :
        /\ used' = used \cup {g}
        /\ groups' = groups \cup {[id |-> g, owner |-> u, name |-> name]}
        /\ groupUsrs' = groupUsrs \cup {Owner(g, u)}
        /\ UNCHANGED <<usrs, groupNodes, nodes, req, begun>>
  BY DEF CreateGroup
<1> DEFINE row == [id |-> g, owner |-> u, name |-> name]
<1>2. u \in UsrIds /\ u \in Ids(usrs) /\ g \in GroupIds /\ g \notin UsrIds
  BY IdsAssumption DEF IInv, TypeOK, Usr, Ids, Managers, GroupIds
<1>3. row \in Group /\ row.id = g /\ Owner(g, u) \in GroupUsr
  BY <1>2 DEF Group, Names, Owner, GroupUsr, AccessLevels
<1>4. Owner(g, u).group = g /\ Owner(g, u).usr = u /\ Owner(g, u).access = "owner"
  BY DEF Owner
<1> HIDE DEF row
<1>5. Ids(groups)' = Ids(groups) \cup {g}
  <2>1. Ids({row}) = {g}
    BY <1>3, IdsOne
  <2>2. Ids(groups') = Ids(groups) \cup Ids({row})
    BY <1>1, IdsAdd DEF row
  <2> QED
    BY <2>1, <2>2 DEF Ids
<1>6. Ids(usrs)' = Ids(usrs) /\ Ids(nodes)' = Ids(nodes)
  BY <1>1 DEF Ids
<1>7. TypeOK'
  BY <1>1, <1>3, <1>6 DEF IInv, TypeOK, Equipped, row
<1>8. OwnIds'
  <2>1. \A h, k \in groups' : h.id = k.id => h = k
    BY <1>1, <1>3 DEF IInv, OwnIds, Ids, row
  <2>2. \A r \in Requests : req[r].pc = "usr_tx" => req[r].target # g
    BY <1>2 DEF IInv, TypeOK, Equipped
  <2> QED
    BY <1>1, <1>5, <1>6, <2>1, <2>2 DEF IInv, OwnIds
<1>9. RowsRefer'
  <2>1. \A m \in groupUsrs : m.group # g
    BY DEF IInv, OwnIds, RowsRefer
  <2> QED
    BY <1>1, <1>2, <1>4, <1>5, <1>6, <2>1 DEF IInv, RowsRefer
<1>10. LimitedOnlyReads'
  <2>1. RoleOf[u] # "limited"
    BY DEF Managers, CanChangeTree
  <2> QED
    BY <1>1, <1>4, <2>1 DEF IInv, LimitedOnlyReads
<1> QED
  BY <1>7, <1>8, <1>9, <1>10 DEF IInv

-----------------------------------------------------------------------------
(***************************************************************************)
(* The last query of the requests on groups and nodes                      *)
(***************************************************************************)

\* A request's last query that leaves the accounts alone and adds no group id.
LEMMA ActKeeps ==
    ASSUME IInv, NEW r \in Requests, NEW pc, Act(r, pc), UNCHANGED usrs,
           groups' \subseteq Group, Ids(groups)' \subseteq Ids(groups),
           \A g, h \in groups' : g.id = h.id => g = h,
           groupUsrs' \subseteq GroupUsr, groupNodes' \subseteq GroupIds \X NodeIds,
           nodes' \subseteq Node,
           RowsRefer', LimitedOnlyReads'
    PROVE  IInv'
<1>1. Answer(r) /\ UNCHANGED <<begun, used>> /\ Ids(usrs) \subseteq Ids(usrs)'
  BY DEF Act, Ids
<1>2. TypeOK'
  BY <1>1, AnswerTyped DEF IInv, TypeOK
<1>3. OwnIds'
  BY <1>1, AnswerOwn DEF IInv
<1> QED
  BY <1>2, <1>3 DEF IInv

\* Renaming keeps every group's id and owner.
LEMMA RenamedGroups ==
    ASSUME IInv, NEW r \in Requests, GroupUpdate(r)
    PROVE  /\ groups' \subseteq Group /\ Ids(groups)' = Ids(groups)
           /\ \A g, h \in groups' : g.id = h.id => g = h
           /\ \A h \in groups' : \E k \in groups : h.id = k.id /\ h.owner = k.owner
<1> DEFINE New(h) == [h EXCEPT !.name = IF h.id = req[r].group THEN req[r].name ELSE @]
           renamed == {New(h) : h \in groups}
<1>1. groups' = groups \/ groups' = renamed
  BY DEF GroupUpdate
<1>2. req[r].name \in Names \cup {"."}
  BY DEF GroupUpdate, Act, IInv, TypeOK, Equipped
<1>3. CASE groups' = groups
  BY <1>3 DEF IInv, TypeOK, OwnIds, Ids
<1>4. CASE groups' = renamed
  <2>1. \A h \in groups : h \in Group
    BY DEF IInv, TypeOK
  <2>2. \A h \in groups : New(h) \in Group /\ New(h).id = h.id /\ New(h).owner = h.owner
    BY <1>2, <2>1 DEF Group
  <2> HIDE DEF New
  <2>3. \A h \in groups' : \E k \in groups : h = New(k) /\ h \in Group /\ h.id = k.id /\ h.owner = k.owner
    BY <1>4, <2>2
  <2>4. \A k \in groups : \E h \in groups' : h.id = k.id
    BY <1>4, <2>2
  <2>5. Ids(groups)' = Ids(groups)
    BY <2>3, <2>4 DEF Ids
  <2>6. \A h, k \in groups' : h.id = k.id => h = k
    BY <2>3 DEF IInv, OwnIds
  <2> QED
    BY <2>3, <2>5, <2>6
<1> QED
  BY <1>1, <1>3, <1>4

LEMMA GroupUpdateKeeps ==
    ASSUME IInv, NEW r \in Requests, GroupUpdate(r)
    PROVE  IInv'
<1>1. Act(r, "group_update") /\ UNCHANGED <<usrs, groupUsrs, groupNodes, nodes>>
  BY DEF GroupUpdate
<1>2. groups' \subseteq Group /\ Ids(groups)' = Ids(groups) /\ \A g, h \in groups' : g.id = h.id => g = h
  BY RenamedGroups
<1>3. RowsRefer' /\ LimitedOnlyReads'
  BY <1>1, <1>2 DEF IInv, RowsRefer, LimitedOnlyReads, Ids
<1> QED
  BY <1>1, <1>2, <1>3, ActKeeps DEF IInv, TypeOK

\* A group goes with everything that refers to it.
LEMMA GroupDeleteKeeps ==
    ASSUME IInv, NEW r \in Requests, GroupDelete(r)
    PROVE  IInv'
<1> DEFINE g == req[r].group
<1>1. /\ Act(r, "group_delete") /\ UNCHANGED <<usrs, nodes>>
      /\ groups' = {h \in groups : h.id # g}
      /\ groupUsrs' = {m \in groupUsrs : m.group # g}
      /\ groupNodes' = {x \in groupNodes : x[1] # g}
  BY DEF GroupDelete
<1> HIDE DEF g
<1>2. Ids(groups)' = Ids(groups) \ {g} /\ Ids(usrs)' = Ids(usrs) /\ Ids(nodes)' = Ids(nodes)
  BY <1>1 DEF Ids
<1>3. RowsRefer' /\ LimitedOnlyReads'
  BY <1>1, <1>2 DEF IInv, RowsRefer, LimitedOnlyReads
<1> QED
  BY <1>1, <1>2, <1>3, ActKeeps DEF IInv, TypeOK, OwnIds

\* The foreign keys of group_nodes.
LEMMA GrantKeeps ==
    ASSUME IInv, NEW r \in Requests, Grant(r)
    PROVE  IInv'
<1> DEFINE g == req[r].group  n == req[r].node
<1>1. /\ Act(r, "grant") /\ UNCHANGED <<usrs, groups, groupUsrs, nodes>>
      /\ \/ groupNodes' = groupNodes
         \/ g \in Ids(groups) /\ n \in Ids(nodes) /\ groupNodes' = groupNodes \cup {<<g, n>>}
  BY DEF Grant
<1> HIDE DEF g, n
<1>2. Ids(groups)' = Ids(groups) /\ Ids(usrs)' = Ids(usrs) /\ Ids(nodes)' = Ids(nodes)
  BY <1>1 DEF Ids
<1>3. \A x \in {<<g, n>>} : x[1] = g /\ x[2] = n
  OBVIOUS
<1>4. Ids(groups) \subseteq GroupIds /\ Ids(nodes) \subseteq NodeIds
  BY DEF IInv, TypeOK, Group, Node, Ids
<1>5. groupNodes' \subseteq GroupIds \X NodeIds
  BY <1>1, <1>4 DEF IInv, TypeOK
<1>6. RowsRefer' /\ LimitedOnlyReads'
  BY <1>1, <1>2, <1>3 DEF IInv, RowsRefer, LimitedOnlyReads
<1> QED
  BY <1>1, <1>2, <1>5, <1>6, ActKeeps DEF IInv, TypeOK, OwnIds

\* The role of the target limits the access, the foreign keys ask for the group.
LEMMA AssignKeeps ==
    ASSUME IInv, NEW r \in Requests, Assign(r)
    PROVE  IInv'
<1> DEFINE row == [group |-> req[r].group, usr |-> req[r].target, access |-> req[r].access]
<1>1. /\ Act(r, "assign") /\ UNCHANGED <<usrs, groups, groupNodes, nodes>>
      /\ \/ groupUsrs' = groupUsrs
         \/ /\ row.group \in Ids(groups) /\ IsValidAccessToRole(row.access, RoleOf[row.usr])
            /\ groupUsrs' = Upserted(row)
  BY DEF Assign
<1>2. row.usr \in Ids(usrs) /\ row.access \in AccessLevels
  BY <1>1 DEF Act, IInv, TypeOK, Equipped
<1>3. Ids(groups) \subseteq GroupIds /\ Ids(usrs) \subseteq UsrIds
  BY DEF IInv, TypeOK, Group, Usr, Ids
<1>4. row.group \in Ids(groups) => row \in GroupUsr
  BY <1>2, <1>3 DEF GroupUsr
<1> HIDE DEF row
<1>5. Ids(groups)' = Ids(groups) /\ Ids(usrs)' = Ids(usrs) /\ Ids(nodes)' = Ids(nodes)
  BY <1>1 DEF Ids
<1>6. groupUsrs' \subseteq GroupUsr
  BY <1>1, <1>4 DEF Upserted, IInv, TypeOK
<1>7. RowsRefer'
  BY <1>1, <1>2, <1>5 DEF Upserted, IInv, RowsRefer
<1>8. LimitedOnlyReads'
  BY <1>1 DEF Upserted, IsValidAccessToRole, IInv, LimitedOnlyReads
<1> QED
  BY <1>1, <1>5, <1>6, <1>7, <1>8, ActKeeps DEF IInv, TypeOK, OwnIds

LEMMA NodeDeleteKeeps ==
    ASSUME IInv, NEW r \in Requests, NodeDelete(r)
    PROVE  IInv'
<1> DEFINE gone == {n \in nodes : \E t \in nodes : t.id = req[r].node /\ Under(n.path, t.path)}
<1>1. /\ Act(r, "node_delete") /\ UNCHANGED <<usrs, groups, groupUsrs>>
      /\ nodes' = nodes \ gone
      /\ groupNodes' = {x \in groupNodes : x[2] \notin Ids(gone)}
  BY DEF NodeDelete
<1> HIDE DEF gone
<1>2. Ids(groups)' = Ids(groups) /\ Ids(usrs)' = Ids(usrs)
  BY <1>1 DEF Ids
<1>3. Ids(nodes) \ Ids(gone) \subseteq Ids(nodes)'
  BY <1>1 DEF Ids
<1>4. RowsRefer' /\ LimitedOnlyReads'
  BY <1>1, <1>2, <1>3 DEF IInv, RowsRefer, LimitedOnlyReads
<1> QED
  BY <1>1, <1>2, <1>4, ActKeeps DEF IInv, TypeOK, OwnIds

LEMMA ProceedKeeps ==
    ASSUME IInv, NEW r \in Requests, Proceed(r)
    PROVE  IInv'
<1>1. CASE UsrTx(r)
  BY <1>1, UsrTxKeeps
<1>2. CASE GroupUpdate(r)
  BY <1>2, GroupUpdateKeeps
<1>3. CASE GroupDelete(r)
  BY <1>3, GroupDeleteKeeps
<1>4. CASE GrantNode(r)
  <2>1. CASE Answer(r)
    <3>1. Act(r, "grant_node") /\ UNCHANGED tables
      BY <1>4, <2>1 DEF GrantNode, Act
    <3>2. RowsRefer' /\ LimitedOnlyReads' /\ Ids(groups)' = Ids(groups)
      BY <3>1 DEF IInv, RowsRefer, LimitedOnlyReads, Ids
    <3> QED
      BY <3>1, <3>2, ActKeeps DEF IInv, TypeOK, OwnIds
  <2>2. CASE req' = [req EXCEPT ![r].pc = "grant"]
    <3>1. req[r].pc = "grant_node" /\ UNCHANGED <<tables, begun, used>>
      BY <1>4 DEF GrantNode
    <3>2. \A s \in Requests : s # r => req'[s] = req[s]
      BY <2>2 DEF IInv, TypeOK
    <3>3. req'[r] = [req[r] EXCEPT !.pc = "grant"] /\ req[r] \in Request
      BY <2>2 DEF IInv, TypeOK
    <3>4. req'[r] \in Request /\ (req[r].pc)' = "grant"
      BY <3>3 DEF Request, Steps
    <3>5. TypeOK'
      BY <2>2, <3>1, <3>2, <3>4 DEF IInv, TypeOK, Equipped, Ids
    <3>6. OwnIds'
      BY <3>1, <3>2, <3>4 DEF IInv, OwnIds, Ids
    <3> QED
      BY <3>1, <3>5, <3>6 DEF IInv, RowsRefer, LimitedOnlyReads, Ids
  <2> QED
    BY <1>4, <2>1, <2>2 DEF GrantNode
<1>5. CASE Grant(r)
  BY <1>5, GrantKeeps
<1>6. CASE Revoke(r)
  <2>1. /\ Act(r, "revoke") /\ groupNodes' \subseteq groupNodes
        /\ UNCHANGED <<usrs, groups, groupUsrs, nodes>>
    BY <1>6 DEF Revoke
  <2>2. RowsRefer' /\ LimitedOnlyReads' /\ Ids(groups)' = Ids(groups)
    BY <2>1 DEF IInv, RowsRefer, LimitedOnlyReads, Ids
  <2> QED
    BY <2>1, <2>2, ActKeeps DEF IInv, TypeOK, OwnIds
<1>7. CASE Assign(r)
  BY <1>7, AssignKeeps
<1>8. CASE Remove(r)
  <2>1. /\ Act(r, "remove") /\ groupUsrs' \subseteq groupUsrs
        /\ UNCHANGED <<usrs, groups, groupNodes, nodes>>
    BY <1>8 DEF Remove
  <2>2. RowsRefer' /\ LimitedOnlyReads' /\ Ids(groups)' = Ids(groups)
    BY <2>1 DEF IInv, RowsRefer, LimitedOnlyReads, Ids
  <2> QED
    BY <2>1, <2>2, ActKeeps DEF IInv, TypeOK, OwnIds
<1>9. CASE NodeDelete(r)
  BY <1>9, NodeDeleteKeeps
<1> QED
  BY <1>1, <1>2, <1>3, <1>4, <1>5, <1>6, <1>7, <1>8, <1>9 DEF Proceed

\* A request that begins has what its next step uses.
LEMMA StartKeeps ==
    ASSUME IInv, NEW r \in Requests, Start(r)
    PROVE  IInv'
<1>1. begun < MaxRequests /\ req[r].pc = "idle"
  BY DEF Start
<1>2. /\ Ids(usrs) \subseteq UsrIds /\ Managers \subseteq UsrIds
      /\ Ids(groups) \subseteq GroupIds /\ Ids(nodes) \subseteq NodeIds
      /\ groupUsrs \subseteq GroupUsr
      /\ \A x \in groupNodes : x[1] \in GroupIds /\ x[2] \in NodeIds
  BY DEF IInv, TypeOK, Group, Usr, Node, Ids, Managers
<1>3. CASE UsrBegin(r)
  BY <1>1, <1>3, UsrBeginKeeps
<1>4. CASE GroupUpdateBegin(r)
  <2>1. PICK u \in Managers, g \in groups : \E name \in GroupNames \cup {g.name} :
            /\ Begin(r, [Idle EXCEPT !.pc = "group_update", !.usr = u, !.group = g.id, !.name = name])
            /\ UNCHANGED used
    BY <1>4 DEF GroupUpdateBegin
  <2>2. PICK name \in GroupNames \cup {g.name} :
            /\ Begin(r, [Idle EXCEPT !.pc = "group_update", !.usr = u, !.group = g.id, !.name = name])
            /\ UNCHANGED used
    BY <2>1
  <2> DEFINE q == [Idle EXCEPT !.pc = "group_update", !.usr = u, !.group = g.id, !.name = name]
  <2>3. g.id \in GroupIds /\ name \in Names \cup {"."}
    BY DEF IInv, TypeOK, Group, Names
  <2>4. q \in Request /\ Equipped(q) /\ q.pc # "usr_tx"
    BY <1>2, <2>3 DEF Idle, Request, Steps, Names, Equipped
  <2> QED
    BY <1>1, <2>2, <2>4, BeginKeeps
<1>5. CASE GroupDeleteBegin(r)
  <2>1. PICK u \in Managers, g \in Ids(groups) :
            /\ Begin(r, [Idle EXCEPT !.pc = "group_delete", !.usr = u, !.group = g])
            /\ UNCHANGED used
    BY <1>5 DEF GroupDeleteBegin
  <2> DEFINE q == [Idle EXCEPT !.pc = "group_delete", !.usr = u, !.group = g]
  <2>2. q \in Request /\ Equipped(q) /\ q.pc # "usr_tx"
    BY <1>2 DEF Idle, Request, Steps, Equipped
  <2> QED
    BY <1>1, <2>1, <2>2, BeginKeeps
<1>6. CASE GrantBegin(r)
  <2>1. PICK u \in Managers, g \in Ids(groups), n \in Ids(nodes) :
            /\ Begin(r, [Idle EXCEPT !.pc = "grant_node", !.usr = u, !.group = g, !.node = n])
            /\ UNCHANGED used
    BY <1>6 DEF GrantBegin
  <2> DEFINE q == [Idle EXCEPT !.pc = "grant_node", !.usr = u, !.group = g, !.node = n]
  <2>2. q \in Request /\ Equipped(q) /\ q.pc # "usr_tx"
    BY <1>2 DEF Idle, Request, Steps, Equipped
  <2> QED
    BY <1>1, <2>1, <2>2, BeginKeeps
<1>7. CASE RevokeBegin(r)
  <2>1. PICK u \in Managers, x \in groupNodes :
            /\ Begin(r, [Idle EXCEPT !.pc = "revoke", !.usr = u, !.group = x[1], !.node = x[2]])
            /\ UNCHANGED used
    BY <1>7 DEF RevokeBegin
  <2> DEFINE q == [Idle EXCEPT !.pc = "revoke", !.usr = u, !.group = x[1], !.node = x[2]]
  <2>2. q \in Request /\ Equipped(q) /\ q.pc # "usr_tx"
    BY <1>2 DEF Idle, Request, Steps, Equipped
  <2> QED
    BY <1>1, <2>1, <2>2, BeginKeeps
<1>8. CASE AssignBegin(r)
  <2>1. PICK u \in Managers, g \in Ids(groups) :
            /\ \E t \in Ids(usrs), a \in Levels :
                  Begin(r, [Idle EXCEPT !.pc = "assign", !.usr = u, !.group = g, !.target = t, !.access = a])
            /\ UNCHANGED used
    BY <1>8 DEF AssignBegin
  <2>2. PICK t \in Ids(usrs), a \in Levels :
            Begin(r, [Idle EXCEPT !.pc = "assign", !.usr = u, !.group = g, !.target = t, !.access = a])
    BY <2>1
  <2> DEFINE q == [Idle EXCEPT !.pc = "assign", !.usr = u, !.group = g, !.target = t, !.access = a]
  <2>3. q \in Request /\ Equipped(q) /\ q.pc # "usr_tx"
    BY <1>2, LevelsAssumption DEF Idle, Request, Steps, Equipped
  <2> QED
    BY <1>1, <2>1, <2>2, <2>3, BeginKeeps
<1>9. CASE RemoveBegin(r)
  <2>1. PICK u \in Managers, m \in groupUsrs :
            /\ Begin(r, [Idle EXCEPT !.pc = "remove", !.usr = u, !.group = m.group, !.target = m.usr])
            /\ UNCHANGED used
    BY <1>9 DEF RemoveBegin
  <2> DEFINE q == [Idle EXCEPT !.pc = "remove", !.usr = u, !.group = m.group, !.target = m.usr]
  <2>2. q \in Request /\ Equipped(q) /\ q.pc # "usr_tx"
    BY <1>2 DEF Idle, Request, Steps, Equipped, GroupUsr
  <2> QED
    BY <1>1, <2>1, <2>2, BeginKeeps
<1>10. CASE NodeBegin(r)
  <2>1. PICK u \in Managers, n \in nodes :
            /\ Begin(r, [Idle EXCEPT !.pc = "node_delete", !.usr = u, !.node = n.id])
            /\ UNCHANGED used
    BY <1>10 DEF NodeBegin
  <2> DEFINE q == [Idle EXCEPT !.pc = "node_delete", !.usr = u, !.node = n.id]
  <2>2. n.id \in NodeIds
    BY <1>2 DEF Ids
  <2>3. q \in Request /\ Equipped(q) /\ q.pc # "usr_tx"
    BY <1>2, <2>2 DEF Idle, Request, Steps, Equipped
  <2> QED
    BY <1>1, <2>1, <2>3, BeginKeeps
<1> QED
  BY <1>3, <1>4, <1>5, <1>6, <1>7, <1>8, <1>9, <1>10 DEF Start

LEMMA NextKeeps == IInv /\ [Next]_vars => IInv'
<1> SUFFICES ASSUME IInv, [Next]_vars
             PROVE  IInv'
  OBVIOUS
<1>1. CASE approot
  BY <1>1, approotKeeps
<1>2. CASE CreateGroup
  BY <1>2, CreateGroupKeeps
<1>3. ASSUME NEW r \in Requests, Start(r)
      PROVE  IInv'
  BY <1>3, StartKeeps
<1>4. ASSUME NEW r \in Requests, Proceed(r)
      PROVE  IInv'
  BY <1>4, ProceedKeeps
<1>5. ASSUME NEW r \in Requests, QueryFails(r)
      PROVE  IInv'
  <2>1. Act(r, req[r].pc) /\ UNCHANGED tables
    BY <1>5 DEF QueryFails, Act
  <2>2. RowsRefer' /\ LimitedOnlyReads' /\ Ids(groups)' = Ids(groups)
    BY <2>1 DEF IInv, RowsRefer, LimitedOnlyReads, Ids
  <2> QED
    BY <2>1, <2>2, ActKeeps DEF IInv, TypeOK, OwnIds
<1>6. CASE UNCHANGED vars
  BY <1>6 DEF vars, IInv, TypeOK, Equipped, OwnIds, RowsRefer, LimitedOnlyReads, Ids
<1> QED
  BY <1>1, <1>2, <1>3, <1>4, <1>5, <1>6 DEF Next

\* The invariant holds in every behaviour: well-formed state, ids that belong to
\* one account and one group, rows that refer to rows, limited users that read.
THEOREM IInvHolds == Spec => []IInv
  BY InitKeeps, NextKeeps, PTL DEF Spec

\* The tables and the requests have their types: no query of a request meets an
\* argument that was never read or has the wrong type.
THEOREM TypeOKHolds == Spec => []TypeOK
<1>1. IInv => TypeOK
  BY DEF IInv
<1> QED
  BY <1>1, IInvHolds, PTL

\* Whatever groups, nodes and memberships are deleted between a request's check
\* and its act, every membership and grant is of rows that are there.
THEOREM RowsReferHolds == Spec => []RowsRefer
<1>1. IInv => RowsRefer
  BY DEF IInv
<1> QED
  BY <1>1, IInvHolds, PTL

\* A limited user never has more than read access outside its home group.
THEOREM LimitedOnlyReadsHolds == Spec => []LimitedOnlyReads
<1>1. IInv => LimitedOnlyReads
  BY DEF IInv
<1> QED
  BY <1>1, IInvHolds, PTL

-----------------------------------------------------------------------------
(***************************************************************************)
(* What a step may never do                                                *)
(***************************************************************************)

\* The steps that add a membership.
LEMMA NewMemberships ==
    ASSUME IInv, [Next]_vars, NEW m \in groupUsrs', m \notin groupUsrs
    PROVE  \/ \E r \in Requests : /\ UsrTx(r) /\ Creatable(req[r].target, req[r].name)
                                /\ m \in {Owner(req[r].target, req[r].target)} \cup Joined(req[r].target)
           \/ /\ CreateGroup
              /\ m.group \notin Ids(groups) /\ m.group \in NewGroups
           \/ \E r \in Requests : /\ Assign(r)
                                /\ m.group = req[r].group /\ m.usr = req[r].target
                                /\ m.access = req[r].access
                                /\ IsValidAccessToRole(m.access, RoleOf[m.usr])
<1>1. CASE approot
  BY <1>1 DEF approot
<1>2. CASE CreateGroup
  BY <1>2 DEF CreateGroup, Owner, IInv, OwnIds
<1>3. ASSUME NEW r \in Requests, Start(r)
      PROVE  UNCHANGED groupUsrs
  BY <1>3 DEF Start, UsrBegin, GroupUpdateBegin, GroupDeleteBegin, GrantBegin, RevokeBegin,
              AssignBegin, RemoveBegin, NodeBegin, Begin
<1>4. ASSUME NEW r \in Requests, Proceed(r)
      PROVE  \/ /\ UsrTx(r) /\ Creatable(req[r].target, req[r].name)
                /\ m \in {Owner(req[r].target, req[r].target)} \cup Joined(req[r].target)
             \/ /\ Assign(r)
                /\ m.group = req[r].group /\ m.usr = req[r].target
                /\ m.access = req[r].access
                /\ IsValidAccessToRole(m.access, RoleOf[m.usr])
  <2>1. CASE UsrTx(r)
    BY <2>1 DEF UsrTx
  <2>2. CASE Assign(r)
    BY <2>2 DEF Assign, Upserted
  <2>3. CASE GroupUpdate(r) \/ GroupDelete(r) \/ GrantNode(r) \/ Grant(r) \/ Revoke(r) \/ Remove(r) \/ NodeDelete(r)
    BY <2>3 DEF GroupUpdate, GroupDelete, GrantNode, Grant, Revoke, Remove, NodeDelete
  <2> QED
    BY <1>4, <2>1, <2>2, <2>3 DEF Proceed
<1>5. ASSUME NEW r \in Requests, QueryFails(r)
      PROVE  UNCHANGED groupUsrs
  BY <1>5 DEF QueryFails
<1>6. CASE UNCHANGED vars
  BY <1>6 DEF vars
<1> QED
  BY <1>1, <1>2, <1>3, <1>4, <1>5, <1>6 DEF Next

\* A super user that exists gains no membership, but in a group it creates:
\* UpsertGroupUsr refuses the role, whatever happens between its two queries.
THEOREM SupersAreNotAssignedHolds == Spec => SupersAreNotAssigned
<1>1. ASSUME IInv, [Next]_vars, NEW m \in groupUsrs' \ groupUsrs,
             RoleOf[m.usr] = "super", m.usr \in Ids(usrs)
      PROVE  m.group \notin Ids(groups)
  <2>1. CASE \E r \in Requests : /\ UsrTx(r)
                                /\ m \in {Owner(req[r].target, req[r].target)} \cup Joined(req[r].target)
    <3>1. PICK r \in Requests : UsrTx(r) /\ m \in {Owner(req[r].target, req[r].target)} \cup Joined(req[r].target)
      BY <2>1
    <3>2. m.usr = req[r].target
      BY <3>1 DEF Owner, Joined
    <3>3. req[r].pc = "usr_tx"
      BY <3>1 DEF UsrTx, Act
    <3>4. req[r].target \notin Ids(usrs)
      BY <1>1, <3>3 DEF IInv, OwnIds
    <3> QED
      BY <1>1, <3>2, <3>4
  <2>2. CASE IsValidAccessToRole(m.access, RoleOf[m.usr])
    BY <1>1, <2>2 DEF IsValidAccessToRole
  <2> QED
    BY <1>1, <2>1, <2>2, NewMemberships
<1>2. IInv /\ [Next]_vars =>
        [\A m \in groupUsrs' \ groupUsrs :
            RoleOf[m.usr] = "super" /\ m.usr \in Ids(usrs) => m.group \notin Ids(groups)]_vars
  BY <1>1
<1> QED
  BY <1>2, IInvHolds, PTL DEF Spec, SupersAreNotAssigned

LEMMA NewUsrs ==
    ASSUME [Next]_vars, NEW x \in usrs' \ usrs
    PROVE  \E r \in Requests : /\ UsrTx(r) /\ Creatable(req[r].target, req[r].name)
                              /\ x = UsrRow(req[r].target, req[r].name)
                              /\ ~UNCHANGED usrs
<1>1. UNCHANGED usrs => FALSE
  OBVIOUS
<1>2. CASE approot \/ CreateGroup \/ UNCHANGED vars
  BY <1>1, <1>2 DEF approot, CreateGroup, vars
<1>3. ASSUME NEW r \in Requests, Start(r) \/ QueryFails(r)
      PROVE  FALSE
  BY <1>1, <1>3 DEF Start, UsrBegin, GroupUpdateBegin, GroupDeleteBegin, GrantBegin, RevokeBegin,
              AssignBegin, RemoveBegin, NodeBegin, Begin, QueryFails
<1>4. ASSUME NEW r \in Requests, Proceed(r)
      PROVE  /\ UsrTx(r) /\ Creatable(req[r].target, req[r].name)
             /\ x = UsrRow(req[r].target, req[r].name)
  <2>1. CASE UsrTx(r)
    BY <1>1, <2>1 DEF UsrTx
  <2>2. CASE ~UsrTx(r)
    BY <1>1, <1>4, <2>2 DEF Proceed, GroupUpdate, GroupDelete, GrantNode, Grant, Revoke, Assign, Remove, NodeDelete
  <2> QED
    BY <2>1, <2>2
<1> QED
  BY <1>1, <1>2, <1>3, <1>4 DEF Next

LEMMA OwnerRank == IsEquivalent("owner", "owner")
  BY DEF IsEquivalent, Rank

LEMMA UnderItself ==
    ASSUME NEW S, NEW p \in Seq(S)
    PROVE  Under(p, p)
  BY DEF Under

\* Every account that CreateUsr's transaction adds has a name of its own, owns its
\* home folder and, a super user, is an owner in the root group, with whatever
\* else has happened since the request checked the name.
THEOREM NewAccountsWholeHolds == Spec => NewAccountsWhole
<1> DEFINE Whole(x) ==
              /\ \A v \in usrs : v.name # x.name
              /\ HasAccess(groupUsrs', groupNodes', nodes', x.id, x.id, "owner")
              /\ RoleOf[x.id] = "super" =>
                    \E g \in groups' : /\ g.owner = None /\ g.name = "."
                                       /\ Owner(g.id, x.id) \in groupUsrs'
<1>1. ASSUME IInv, [Next]_vars, NEW x \in usrs' \ usrs
      PROVE  Whole(x)
  <2>1. PICK r \in Requests : /\ UsrTx(r) /\ Creatable(req[r].target, req[r].name)
                             /\ x = UsrRow(req[r].target, req[r].name) /\ ~UNCHANGED usrs
    BY <1>1, NewUsrs
  <2> DEFINE u == req[r].target  name == req[r].name
  <2>2. /\ nodes' = nodes \cup {HomeNode(u, name)}
        /\ groups' = groups \cup {HomeGroup(u, name)}
        /\ groupNodes' = groupNodes \cup {<<u, u>>}
        /\ groupUsrs' = groupUsrs \cup {Owner(u, u)} \cup Joined(u)
    BY <2>1 DEF UsrTx
  <2>3. x.id = u /\ x.name = name
    BY <2>1 DEF UsrRow
  <2>4. \A v \in usrs : v.name # x.name
    BY <2>1, <2>3 DEF Creatable
  <2>5. HasAccess(groupUsrs', groupNodes', nodes', u, u, "owner")
    <3>1. u \in UsrIds
      <4>1. req[r].pc = "usr_tx"
        BY <2>1 DEF UsrTx, Act
      <4> QED
        BY <1>1, <4>1 DEF IInv, TypeOK, Equipped
    <3> DEFINE home == HomeNode(u, name)  path == <<UsrRoot, u>>
    <3>2. home.id = u /\ home.path = path /\ home \in nodes'
      BY <2>2 DEF HomeNode
    <3>3. Under(path, path)
      <4>1. path \in Seq(NodeIds)
        BY <3>1 DEF NodeIds
      <4> HIDE DEF path
      <4> QED
        BY <4>1, UnderItself
    <3>4. Owner(u, u).usr = u /\ Owner(u, u).group = u /\ Owner(u, u).access = "owner"
      BY DEF Owner
    <3>5. Owner(u, u) \in groupUsrs' /\ <<u, u>> \in groupNodes'
      BY <2>2
    <3> HIDE DEF home, path
    <3>6. Owner(u, u) \in Grants(groupUsrs', groupNodes', nodes', u, path)
      BY <3>2, <3>3, <3>4, <3>5 DEF Grants
    <3> QED
      BY <3>2, <3>4, <3>6, OwnerRank DEF HasAccess, HasAccessFromPath
  <2>6. ASSUME RoleOf[u] = "super"
        PROVE  \E g \in groups' : g.owner = None /\ g.name = "." /\ Owner(g.id, u) \in groupUsrs'
    <3>1. PICK g \in RootGroups : TRUE
      BY <2>1, <2>6 DEF Creatable
    <3>2. Owner(g.id, u) \in Joined(u)
      BY <2>6 DEF Joined
    <3> QED
      BY <2>2, <3>2 DEF RootGroups
  <2> QED
    BY <2>3, <2>4, <2>5, <2>6
<1>2. IInv /\ [Next]_vars =>
        [\A u \in usrs' \ usrs :
            /\ \A v \in usrs : v.name # u.name
            /\ HasAccess(groupUsrs', groupNodes', nodes', u.id, u.id, "owner")
            /\ RoleOf[u.id] = "super" =>
                  \E g \in groups' : /\ g.owner = None /\ g.name = "."
                                     /\ Owner(g.id, u.id) \in groupUsrs']_vars
  BY <1>1
<1> QED
  BY <1>2, IInvHolds, PTL DEF Spec, NewAccountsWhole

\* The steps that add a grant.
LEMMA NewGrants ==
    ASSUME IInv, [Next]_vars, NEW x \in groupNodes', x \notin groupNodes
    PROVE  \/ x[1] = RootGroup /\ RootGroup \notin Ids(groups)
           \/ \E r \in Requests : req[r].pc = "usr_tx" /\ x[1] = req[r].target
           \/ \E r \in Requests : req[r].pc = "grant" /\ x[1] = req[r].group
<1>1. CASE approot
  <2>1. \A y \in RootGrants : y[1] = RootGroup
    BY DEF RootGrants
  <2> QED
    BY <1>1, <2>1 DEF approot, IInv, OwnIds
<1>2. CASE CreateGroup \/ UNCHANGED vars
  BY <1>2 DEF CreateGroup, vars
<1>3. ASSUME NEW r \in Requests, Start(r) \/ QueryFails(r)
      PROVE  FALSE
  BY <1>3 DEF Start, UsrBegin, GroupUpdateBegin, GroupDeleteBegin, GrantBegin, RevokeBegin,
              AssignBegin, RemoveBegin, NodeBegin, Begin, QueryFails
<1>4. ASSUME NEW r \in Requests, Proceed(r)
      PROVE  \/ req[r].pc = "usr_tx" /\ x[1] = req[r].target
             \/ req[r].pc = "grant" /\ x[1] = req[r].group
  <2>1. CASE UsrTx(r)
    <3>1. req[r].pc = "usr_tx" /\ groupNodes' = groupNodes \cup {<<req[r].target, req[r].target>>}
      BY <2>1 DEF UsrTx, Act
    <3> QED
      BY <3>1
  <2>2. CASE Grant(r)
    <3>1. req[r].pc = "grant" /\ groupNodes' = groupNodes \cup {<<req[r].group, req[r].node>>}
      BY <2>2 DEF Grant, Act
    <3> QED
      BY <3>1
  <2>3. CASE GroupUpdate(r) \/ GroupDelete(r) \/ GrantNode(r) \/ Assign(r) \/ Revoke(r) \/ Remove(r) \/ NodeDelete(r)
    BY <2>3 DEF GroupUpdate, GroupDelete, GrantNode, Assign, Revoke, Remove, NodeDelete
  <2> QED
    BY <1>4, <2>1, <2>2, <2>3 DEF Proceed
<1> QED
  BY <1>1, <1>2, <1>3, <1>4 DEF Next

Giving == {"assign", "grant_node", "grant"}

LEMMA WriteRank ==
    ASSUME NEW a \in AccessLevels, IsEquivalent(a, "owner")
    PROVE  IsEquivalent(a, "write")
  BY DEF IsEquivalent, Rank, AccessLevels

LEMMA AccessTyped ==
    ASSUME TypeOK, NEW u, NEW g, GroupAccess(u, g, "owner")
    PROVE  GroupAccess(u, g, "write")
  BY WriteRank DEF GroupAccess, TypeOK, GroupUsr

LEMMA BeginSets ==
    ASSUME TypeOK, NEW r \in Requests, NEW q, Begin(r, q)
    PROVE  req'[r] = q /\ \A s \in Requests \ {r} : req'[s] = req[s]
  BY DEF TypeOK, Begin

\* A request that begins is to give something of a group only if its user may.
LEMMA StartGives ==
    ASSUME TypeOK, NEW r \in Requests, Start(r)
    PROVE  /\ \A s \in Requests \ {r} : req'[s] = req[s]
           /\ req'[r].pc \in Giving => \E u \in Managers : GroupAccess(u, req'[r].group, "write")
<1>1. CASE UsrBegin(r)
  <2>1. PICK u \in UsrIds, name \in UsrNames, by \in Supers(Ids(usrs)) \cup {None} :
            Begin(r, [Idle EXCEPT !.pc = "usr_tx", !.usr = by, !.target = u, !.name = name])
    BY <1>1 DEF UsrBegin
  <2>2. [Idle EXCEPT !.pc = "usr_tx", !.usr = by, !.target = u, !.name = name].pc = "usr_tx"
    BY DEF Idle
  <2> QED
    BY <2>1, <2>2, BeginSets DEF Giving
<1>2. CASE GroupUpdateBegin(r)
  <2>1. PICK u \in Managers, g \in groups : \E name \in GroupNames \cup {g.name} :
            Begin(r, [Idle EXCEPT !.pc = "group_update", !.usr = u, !.group = g.id, !.name = name])
    BY <1>2 DEF GroupUpdateBegin
  <2>2. PICK name \in GroupNames \cup {g.name} :
            Begin(r, [Idle EXCEPT !.pc = "group_update", !.usr = u, !.group = g.id, !.name = name])
    BY <2>1
  <2>3. [Idle EXCEPT !.pc = "group_update", !.usr = u, !.group = g.id, !.name = name].pc = "group_update"
    BY DEF Idle
  <2> QED
    BY <2>2, <2>3, BeginSets DEF Giving
<1>3. CASE GroupDeleteBegin(r)
  <2>1. PICK u \in Managers, g \in Ids(groups) :
            Begin(r, [Idle EXCEPT !.pc = "group_delete", !.usr = u, !.group = g])
    BY <1>3 DEF GroupDeleteBegin
  <2>2. [Idle EXCEPT !.pc = "group_delete", !.usr = u, !.group = g].pc = "group_delete"
    BY DEF Idle
  <2> QED
    BY <2>1, <2>2, BeginSets DEF Giving
<1>4. CASE GrantBegin(r)
  <2>1. PICK u \in Managers, g \in Ids(groups), n \in Ids(nodes) :
            /\ GroupAccess(u, g, "owner")
            /\ Begin(r, [Idle EXCEPT !.pc = "grant_node", !.usr = u, !.group = g, !.node = n])
    BY <1>4 DEF GrantBegin
  <2>2. [Idle EXCEPT !.pc = "grant_node", !.usr = u, !.group = g, !.node = n].group = g
    BY DEF Idle
  <2> QED
    BY <2>1, <2>2, AccessTyped, BeginSets
<1>5. CASE RevokeBegin(r)
  <2>1. PICK u \in Managers, x \in groupNodes :
            Begin(r, [Idle EXCEPT !.pc = "revoke", !.usr = u, !.group = x[1], !.node = x[2]])
    BY <1>5 DEF RevokeBegin
  <2>2. [Idle EXCEPT !.pc = "revoke", !.usr = u, !.group = x[1], !.node = x[2]].pc = "revoke"
    BY DEF Idle
  <2> QED
    BY <2>1, <2>2, BeginSets DEF Giving
<1>6. CASE AssignBegin(r)
  <2>1. PICK u \in Managers, g \in Ids(groups) :
            /\ GroupAccess(u, g, "write")
            /\ \E t \in Ids(usrs), a \in Levels :
                  Begin(r, [Idle EXCEPT !.pc = "assign", !.usr = u, !.group = g, !.target = t, !.access = a])
    BY <1>6 DEF AssignBegin
  <2>2. PICK t \in Ids(usrs), a \in Levels :
            Begin(r, [Idle EXCEPT !.pc = "assign", !.usr = u, !.group = g, !.target = t, !.access = a])
    BY <2>1
  <2>3. [Idle EXCEPT !.pc = "assign", !.usr = u, !.group = g, !.target = t, !.access = a].group = g
    BY DEF Idle
  <2> QED
    BY <2>1, <2>2, <2>3, BeginSets
<1>7. CASE RemoveBegin(r)
  <2>1. PICK u \in Managers, m \in groupUsrs :
            Begin(r, [Idle EXCEPT !.pc = "remove", !.usr = u, !.group = m.group, !.target = m.usr])
    BY <1>7 DEF RemoveBegin
  <2>2. [Idle EXCEPT !.pc = "remove", !.usr = u, !.group = m.group, !.target = m.usr].pc = "remove"
    BY DEF Idle
  <2> QED
    BY <2>1, <2>2, BeginSets DEF Giving
<1>8. CASE NodeBegin(r)
  <2>1. PICK u \in Managers, n \in nodes :
            Begin(r, [Idle EXCEPT !.pc = "node_delete", !.usr = u, !.node = n.id])
    BY <1>8 DEF NodeBegin
  <2>2. [Idle EXCEPT !.pc = "node_delete", !.usr = u, !.node = n.id].pc = "node_delete"
    BY DEF Idle
  <2> QED
    BY <2>1, <2>2, BeginSets DEF Giving
<1> QED
  BY <1>1, <1>2, <1>3, <1>4, <1>5, <1>6, <1>7, <1>8 DEF Start

\* The steps after which a request is to give something of a group: it was, or a
\* member that may write has just been found.
LEMMA NewGivers ==
    ASSUME IInv, [Next]_vars, NEW s \in Requests, req'[s].pc \in Giving
    PROVE  \/ req[s].pc \in Giving /\ req'[s].group = req[s].group
           \/ \E u \in Managers : GroupAccess(u, req'[s].group, "write")
<1>1. CASE UNCHANGED req
  BY <1>1
<1>2. ASSUME NEW r \in Requests, Start(r)
      PROVE  \/ req'[s] = req[s]
             \/ \E u \in Managers : GroupAccess(u, req'[s].group, "write")
  <2>1. TypeOK
    BY DEF IInv
  <2>2. /\ \A k \in Requests \ {r} : req'[k] = req[k]
        /\ req'[r].pc \in Giving => \E u \in Managers : GroupAccess(u, req'[r].group, "write")
    BY <1>2, <2>1, StartGives
  <2>3. CASE s = r
    BY <2>2, <2>3
  <2>4. CASE s # r
    BY <2>2, <2>4
  <2> QED
    BY <2>3, <2>4
<1>3. ASSUME NEW r \in Requests, Answer(r)
      PROVE  req'[s] = req[s]
  <2>1. req'[r].pc \notin Giving
    BY <1>3, IdleTyped DEF Answer, Giving, IInv, TypeOK
  <2>2. s # r
    BY <2>1
  <2> QED
    BY <1>3, <2>2 DEF Answer, IInv, TypeOK
<1>4. ASSUME NEW r \in Requests, GrantNode(r)
      PROVE  \/ req'[s] = req[s]
             \/ req[s].pc \in Giving /\ req'[s].group = req[s].group
  <2>1. CASE Answer(r)
    BY <1>3, <2>1
  <2>2. CASE req' = [req EXCEPT ![r].pc = "grant"]
    <3>1. req[r].pc \in Giving /\ req[r] \in Request
      BY <1>4 DEF GrantNode, Giving, IInv, TypeOK
    <3>2. CASE s = r
      <4>1. req'[s] = [req[s] EXCEPT !.pc = "grant"]
        BY <2>2, <3>2 DEF IInv, TypeOK
      <4> QED
        BY <3>1, <3>2, <4>1 DEF Request
    <3>3. CASE s # r
      BY <2>2, <3>3 DEF IInv, TypeOK
    <3> QED
      BY <3>2, <3>3
  <2> QED
    BY <1>4, <2>1, <2>2 DEF GrantNode
<1>5. ASSUME NEW r \in Requests, Proceed(r)
      PROVE  \/ req'[s] = req[s]
             \/ req[s].pc \in Giving /\ req'[s].group = req[s].group
  <2>1. CASE GrantNode(r)
    BY <1>4, <2>1
  <2>2. CASE ~GrantNode(r)
    <3>1. Answer(r)
      BY <1>5, <2>2 DEF Proceed, UsrTx, GroupUpdate, GroupDelete, Grant, Revoke, Assign, Remove,
                        NodeDelete, Act
    <3> QED
      BY <1>3, <3>1
  <2> QED
    BY <2>1, <2>2
<1>6. CASE approot \/ CreateGroup \/ UNCHANGED vars
  BY <1>1, <1>6 DEF approot, CreateGroup, vars
<1>7. ASSUME NEW r \in Requests, QueryFails(r)
      PROVE  req'[s] = req[s]
  BY <1>3, <1>7 DEF QueryFails
<1> QED
  BY <1>2, <1>5, <1>6, <1>7 DEF Next

\* A group that nobody may give anything of, other than the root group, stays so
\* and gains no member, no level and no node: access comes only from members that
\* have it, through every interleaving of checks and acts.
THEOREM ClosedForGoodHolds == Spec => ClosedForGood
<1>1. ASSUME IInv, [Next]_vars, NEW g \in groups, g.owner # None, Closed(g.id)
      PROVE  /\ Closed(g.id)'
             /\ {m \in groupUsrs' : m.group = g.id} \subseteq groupUsrs
             /\ {x \in groupNodes' : x[1] = g.id} \subseteq groupNodes
  <2>1. g.id \in Ids(groups)
    BY DEF Ids
  <2>2. \A r \in Requests : req[r].pc = "usr_tx" => req[r].target # g.id
    BY <1>1, <2>1 DEF IInv, OwnIds
  <2>3. \A r \in Requests : req[r].pc \in Giving => req[r].group # g.id
    BY <1>1 DEF Closed, Giving
  <2>4. \A h \in RootGroups : h.id # g.id
    BY <1>1 DEF RootGroups, IInv, OwnIds
  <2>5. ASSUME NEW m \in groupUsrs', m.group = g.id
        PROVE  m \in groupUsrs
    <3> SUFFICES ASSUME m \notin groupUsrs PROVE FALSE
      OBVIOUS
    <3>1. ASSUME NEW r \in Requests, UsrTx(r),
                 m \in {Owner(req[r].target, req[r].target)} \cup Joined(req[r].target)
          PROVE  FALSE
      <4>1. req[r].pc = "usr_tx"
        BY <3>1 DEF UsrTx, Act
      <4>2. m.group = req[r].target \/ \E h \in RootGroups : m.group = h.id
        BY <3>1 DEF Owner, Joined
      <4> QED
        BY <2>2, <2>4, <2>5, <4>1, <4>2
    <3>2. ASSUME NEW r \in Requests, Assign(r), m.group = req[r].group
          PROVE  FALSE
      <4>1. req[r].pc \in Giving
        BY <3>2 DEF Assign, Act, Giving
      <4> QED
        BY <2>3, <2>5, <3>2, <4>1
    <3> QED
      BY <1>1, <2>1, <2>5, <3>1, <3>2, NewMemberships
  <2>6. ASSUME NEW x \in groupNodes', x[1] = g.id
        PROVE  x \in groupNodes
    BY <1>1, <2>1, <2>2, <2>3, <2>6, NewGrants DEF Giving
  <2>7. ASSUME NEW u \in Managers', GroupAccess(u, g.id, "write")'
        PROVE  FALSE
    <3>1. PICK m \in groupUsrs' : m.group = g.id /\ m.usr = u /\ IsEquivalent(m.access, "write")
      BY <2>7 DEF GroupAccess
    <3>2. m \in groupUsrs /\ u \in Ids(usrs)
      BY <1>1, <2>5, <3>1 DEF IInv, RowsRefer
    <3>3. CanChangeTree(RoleOf[u])
      BY <2>7 DEF Managers
    <3> QED
      BY <1>1, <3>1, <3>2, <3>3 DEF Closed, Managers, GroupAccess
  <2>8. ASSUME NEW r \in Requests, req'[r].group = g.id, req'[r].pc \in Giving
        PROVE  FALSE
    <3>1. \/ req[r].pc \in Giving /\ req'[r].group = req[r].group
          \/ \E u \in Managers : GroupAccess(u, g.id, "write")
      BY <1>1, <2>8, NewGivers
    <3> QED
      BY <1>1, <2>3, <2>8, <3>1 DEF Closed
  <2>9. Closed(g.id)'
    BY <2>7, <2>8 DEF Closed, Giving
  <2> QED
    BY <2>5, <2>6, <2>9
<1>2. IInv /\ [Next]_vars =>
        [\A g \in groups : g.owner # None /\ Closed(g.id) =>
            /\ Closed(g.id)'
            /\ {m \in groupUsrs' : m.group = g.id} \subseteq groupUsrs
            /\ {x \in groupNodes' : x[1] = g.id} \subseteq groupNodes]_vars
  BY <1>1
<1> QED
  BY <1>2, IInvHolds, PTL DEF Spec, ClosedForGood
=============================================================================
