------------------------------ MODULE Sharing ------------------------------
(***************************************************************************)
(* Accounts, groups and what they share: the tables usrs, groups,          *)
(* group_usrs and group_nodes, the commands "approot" and "superusr", and  *)
(* the requests that create accounts, change groups and delete nodes.      *)
(*                                                                         *)
(* As in NodeStore a request checks and acts in different queries, so the  *)
(* access it has been granted may be gone when it acts.  Only the top of   *)
(* the tree is kept: the root folders and the home folder of each account. *)
(***************************************************************************)
EXTENDS Access, FiniteSets

CONSTANTS
    Requests,     \* slots of concurrent requests
    UsrIds,       \* user ids, each usable once
    RoleOf,       \* the role each of them is created with
    Settled,      \* the accounts made, one by one, before the model starts
    NewGroups,    \* ids of the groups that may be created by hand
    RootGroup,    \* id of the group "."
    UsrRoot, SharedRoot,  \* ids of the folders "usrs" and "shared"
    UsrNames,     \* user names a client may choose
    GroupNames,   \* names of groups a client may choose
    FirstName,    \* the user name of each settled account
    Levels,       \* access levels that are assigned by hand
    None,
    MaxRequests   \* bound on the requests that pass their first check

(***************************************************************************)
(* An account comes with a home folder and a home group: the three ids     *)
(* drawn for them are written as one.                                      *)
(***************************************************************************)
Names == UsrNames \cup GroupNames
GroupIds == NewGroups \cup {RootGroup} \cup UsrIds
NodeIds == {UsrRoot, SharedRoot} \cup UsrIds

ASSUME RolesAssumption == RoleOf \in [UsrIds -> Roles]
ASSUME SettledAssumption ==
    /\ Settled \subseteq UsrIds
    /\ FirstName \in [Settled -> UsrNames]
    /\ \A u, v \in Settled : FirstName[u] = FirstName[v] => u = v
ASSUME IdsAssumption ==
    /\ RootGroup \notin NewGroups \cup UsrIds
    /\ NewGroups \cap UsrIds = {}
    /\ {UsrRoot, SharedRoot} \cap UsrIds = {} /\ UsrRoot # SharedRoot
    /\ None \notin UsrIds \cup GroupIds \cup NodeIds \cup Names \cup AccessLevels
ASSUME LevelsAssumption == Levels \subseteq AccessLevels
ASSUME MaxAssumption == MaxRequests \in Nat

VARIABLES
    usrs,        \* rows of fs.usrs
    groups,      \* rows of fs.groups
    groupUsrs,   \* rows of fs.group_usrs
    groupNodes,  \* rows of fs.group_nodes
    nodes,       \* the top of fs.nodes
    req,         \* the request running in each slot
    begun,       \* requests started so far
    used         \* ids drawn so far

tables == <<usrs, groups, groupUsrs, groupNodes, nodes>>
vars == <<tables, req, begun, used>>

Usr == [id : UsrIds, name : UsrNames]
Group == [id : GroupIds, owner : UsrIds \cup {None}, name : Names \cup {"."}]
GroupUsr == [group : GroupIds, usr : UsrIds, access : AccessLevels]
Node == [id : NodeIds, path : Seq(NodeIds), name : UsrNames \cup {"usrs", "shared"}]

(***************************************************************************)
(* A request that has passed its first check: the query it is about to     *)
(* make, its user (None for the command line) and what it works on.  A     *)
(* request that fails the check answers an error and changes nothing.      *)
(***************************************************************************)
Steps == {"idle", "usr_tx", "group_update", "group_delete", "grant_node", "grant",
          "revoke", "assign", "remove", "node_delete"}

Request == [pc : Steps, usr : UsrIds \cup {None}, group : GroupIds \cup {None},
            node : NodeIds \cup {None}, target : UsrIds \cup {None},
            access : AccessLevels \cup {None}, name : Names \cup {".", None}]

Idle == [pc |-> "idle", usr |-> None, group |-> None, node |-> None,
         target |-> None, access |-> None, name |-> None]

Ids(rows) == {x.id : x \in rows}

\* What a request has in hand at the step that uses it.
Equipped(q) ==
    /\ q.pc = "usr_tx" => q.target \in UsrIds /\ q.name \in UsrNames
    /\ q.pc = "group_update" => q.name \in Names \cup {"."}
    /\ q.pc = "assign" => q.target \in Ids(usrs) /\ q.access \in AccessLevels

TypeOK ==
    /\ usrs \subseteq Usr
    /\ groups \subseteq Group
    /\ groupUsrs \subseteq GroupUsr
    /\ groupNodes \subseteq GroupIds \X NodeIds
    /\ nodes \subseteq Node
    /\ req \in [Requests -> Request]
    /\ \A r \in Requests : Equipped(req[r])
    /\ begun \in 0 .. MaxRequests
    /\ used \subseteq UsrIds \cup NewGroups \cup {RootGroup}

UsrRow(u, name) == [id |-> u, name |-> name]
HomeGroup(u, name) == [id |-> u, owner |-> u, name |-> name]
HomeNode(u, name) == [id |-> u, path |-> <<UsrRoot, u>>, name |-> name]
Owner(g, u) == [group |-> g, usr |-> u, access |-> "owner"]
RootGroupRow == [id |-> RootGroup, owner |-> None, name |-> "."]
RootNodes == {[id |-> UsrRoot, path |-> <<UsrRoot>>, name |-> "usrs"],
              [id |-> SharedRoot, path |-> <<SharedRoot>>, name |-> "shared"]}
RootGrants == {<<RootGroup, UsrRoot>>, <<RootGroup, SharedRoot>>}

Supers(us) == {u \in us : RoleOf[u] = "super"}

\* The database as "approot" and the creation of the accounts in us leave it.
InitWith(us) ==
    /\ usrs = {UsrRow(u, FirstName[u]) : u \in us}
    /\ groups = {RootGroupRow} \cup {HomeGroup(u, FirstName[u]) : u \in us}
    /\ groupUsrs = {Owner(u, u) : u \in us} \cup {Owner(RootGroup, u) : u \in Supers(us)}
    /\ groupNodes = RootGrants \cup {<<u, u>> : u \in us}
    /\ nodes = RootNodes \cup {HomeNode(u, FirstName[u]) : u \in us}
    /\ used = {RootGroup} \cup us

\* After the migrations.
InitEmpty ==
    /\ usrs = {} /\ groups = {} /\ groupUsrs = {} /\ groupNodes = {} /\ nodes = {}
    /\ used = {}

Init ==
    /\ InitEmpty \/ InitWith(Settled)
    /\ req = [r \in Requests |-> Idle]
    /\ begun = 0
-----------------------------------------------------------------------------
(***************************************************************************)
(* The queries                                                             *)
(***************************************************************************)
GroupAccess(u, g, level) ==
    \E m \in groupUsrs : m.group = g /\ m.usr = u /\ IsEquivalent(m.access, level)

NodeAccess(u, n, level) == HasAccess(groupUsrs, groupNodes, nodes, u, n, level)

\* INSERT ... ON CONFLICT (group_id, usr_id) DO UPDATE SET access.
Upserted(row) ==
    {m \in groupUsrs : ~(m.group = row.group /\ m.usr = row.usr)} \cup {row}

\* The unique index groups(usr_id, name), NULLs being equal.
GroupNameFree(owner, name) == \A g \in groups : ~(g.owner = owner /\ g.name = name)

\* The unique index on a node's folder and name, for a child of "usrs".
HomeNameFree(name) == \A n \in nodes : ~(Len(n.path) = 2 /\ n.path[1] = UsrRoot /\ n.name = name)

Answer(r) == req' = [req EXCEPT ![r] = Idle]

\* Request r has passed its first check and waits for step q.pc.
Begin(r, q) ==
    /\ begun' = begun + 1
    /\ req' = [req EXCEPT ![r] = q]
    /\ UNCHANGED tables

\* The users who may change groups: those whose role may, logged in.
Managers == {u \in Ids(usrs) : CanChangeTree(RoleOf[u])}

\* The last query of a request.
Act(r, pc) == req[r].pc = pc /\ Answer(r) /\ UNCHANGED <<begun, used>>
-----------------------------------------------------------------------------
(***************************************************************************)
(* The command line and CreateUsrUseCase                                   *)
(***************************************************************************)

\* One transaction; a second one breaks the unique indexes.  (Its ids are drawn
\* once: a bound.)
approot ==
    /\ RootGroup \notin used
    /\ used' = used \cup {RootGroup}
    /\ groups' = groups \cup {RootGroupRow}
    /\ nodes' = nodes \cup RootNodes
    /\ groupNodes' = groupNodes \cup RootGrants
    /\ UNCHANGED <<usrs, groupUsrs, req, begun>>

\* The role (the command line comes with the super role) and the user name are
\* checked: a name in use answers a conflict.
UsrBegin(r) ==
    \E u \in UsrIds \ used, name \in UsrNames, by \in Supers(Ids(usrs)) \cup {None} :
        /\ by = None => RoleOf[u] = "super"
        /\ \A v \in usrs : v.name # name
        /\ used' = used \cup {u}
        /\ Begin(r, [Idle EXCEPT !.pc = "usr_tx", !.usr = by, !.target = u, !.name = name])

RootGroups == {g \in groups : g.owner = None /\ g.name = "."}

\* Mutant: the missing root group is passed over.
Creatable_NoRoot(u, name) ==
    (\A v \in usrs : v.name # name) /\ HomeNameFree(name) /\ GroupNameFree(u, name)

\* What the transaction asks of the database: free names and, for a super user,
\* the root group.
Creatable(u, name) ==
    /\ \A v \in usrs : v.name # name
    /\ HomeNameFree(name)
    /\ GroupNameFree(u, name)
    /\ RoleOf[u] = "super" => RootGroups # {}

\* A super user is an owner in the root group.
Joined(u) == {Owner(g.id, u) : g \in {h \in RootGroups : RoleOf[u] = "super"}}

\* The account, its home folder, its home group, and for a super user the
\* membership in the root group: all of it or, on an error, nothing.
UsrTx(r) ==
    LET u == req[r].target  name == req[r].name
    IN  /\ Act(r, "usr_tx")
        /\ \/ /\ Creatable(u, name)
              /\ usrs' = usrs \cup {UsrRow(u, name)}
              /\ nodes' = nodes \cup {HomeNode(u, name)}
              /\ groups' = groups \cup {HomeGroup(u, name)}
              /\ groupNodes' = groupNodes \cup {<<u, u>>}
              /\ groupUsrs' = groupUsrs \cup {Owner(u, u)} \cup Joined(u)
           \/ ~Creatable(u, name) /\ UNCHANGED tables
-----------------------------------------------------------------------------
(***************************************************************************)
(* Groups                                                                  *)
(***************************************************************************)

\* CreateGroup: a role check and one transaction.
CreateGroup ==
    \E u \in Managers, g \in NewGroups \ used, name \in GroupNames :
        /\ GroupNameFree(u, name)
        /\ used' = used \cup {g}
        /\ groups' = groups \cup {[id |-> g, owner |-> u, name |-> name]}
        /\ groupUsrs' = groupUsrs \cup {Owner(g, u)}
        /\ UNCHANGED <<usrs, groupNodes, nodes, req, begun>>

\* UpdateGroup asks only for the role.  It reads the row and writes all of it back:
\* a request that changes the description only carries the name it has read.
GroupUpdateBegin(r) ==
    \E u \in Managers, g \in groups : \E name \in GroupNames \cup {g.name} :
        /\ Begin(r, [Idle EXCEPT !.pc = "group_update", !.usr = u, !.group = g.id, !.name = name])
        /\ UNCHANGED used

GroupUpdate(r) ==
    LET g == req[r].group  name == req[r].name
        renamed == {[h EXCEPT !.name = IF h.id = g THEN name ELSE @] : h \in groups}
    IN  /\ Act(r, "group_update")
        /\ groups' = IF \E h, i \in renamed : h.id = g /\ i.id # g /\ h.owner = i.owner /\ h.name = i.name
                     THEN groups ELSE renamed
        /\ UNCHANGED <<usrs, groupUsrs, groupNodes, nodes>>

\* DeleteGroup: the row and the access (a membership is of a group that is there).
GroupDeleteBegin(r) ==
    \E u \in Managers, g \in Ids(groups) :
        /\ GroupAccess(u, g, "write_delete")
        /\ Begin(r, [Idle EXCEPT !.pc = "group_delete", !.usr = u, !.group = g])
        /\ UNCHANGED used

\* The group goes with its memberships and grants (ON DELETE CASCADE).
GroupDelete(r) ==
    LET g == req[r].group
    IN  /\ Act(r, "group_delete")
        /\ groups' = {h \in groups : h.id # g}
        /\ groupUsrs' = {m \in groupUsrs : m.group # g}
        /\ groupNodes' = {x \in groupNodes : x[1] # g}
        /\ UNCHANGED <<usrs, nodes>>

\* CreateGroupNode: owner of the group, then owner of the node.
GrantBegin(r) ==
    \E u \in Managers, g \in Ids(groups), n \in Ids(nodes) :
        /\ GroupAccess(u, g, "owner")
        /\ Begin(r, [Idle EXCEPT !.pc = "grant_node", !.usr = u, !.group = g, !.node = n])
        /\ UNCHANGED used

GrantNode(r) ==
    /\ req[r].pc = "grant_node"
    /\ \/ NodeAccess(req[r].usr, req[r].node, "owner") /\ req' = [req EXCEPT ![r].pc = "grant"]
       \/ ~NodeAccess(req[r].usr, req[r].node, "owner") /\ Answer(r)
    /\ UNCHANGED <<tables, begun, used>>

\* Mutant: no foreign keys.
Grant_NoKeys(r) ==
    /\ Act(r, "grant")
    /\ groupNodes' = groupNodes \cup {<<req[r].group, req[r].node>>}
    /\ UNCHANGED <<usrs, groups, groupUsrs, nodes>>

\* The foreign keys refuse a group or a node that is gone.
Grant(r) ==
    LET g == req[r].group  n == req[r].node
    IN  /\ Act(r, "grant")
        /\ groupNodes' = IF g \in Ids(groups) /\ n \in Ids(nodes)
                         THEN groupNodes \cup {<<g, n>>} ELSE groupNodes
        /\ UNCHANGED <<usrs, groups, groupUsrs, nodes>>

\* DeleteGroupNode
RevokeBegin(r) ==
    \E u \in Managers, x \in groupNodes :
        /\ GroupAccess(u, x[1], "write_delete")
        /\ Begin(r, [Idle EXCEPT !.pc = "revoke", !.usr = u, !.group = x[1], !.node = x[2]])
        /\ UNCHANGED used

Revoke(r) ==
    /\ Act(r, "revoke")
    /\ groupNodes' = groupNodes \ {<<req[r].group, req[r].node>>}
    /\ UNCHANGED <<usrs, groups, groupUsrs, nodes>>

\* Mutant: any member may assign.
AssignBegin_AnyMember(r) ==
    \E u \in Managers, g \in Ids(groups) :
        /\ GroupAccess(u, g, "read_only")
        /\ \E t \in Ids(usrs), a \in Levels :
              Begin(r, [Idle EXCEPT !.pc = "assign", !.usr = u, !.group = g, !.target = t, !.access = a])
        /\ UNCHANGED used

\* UpsertGroupUsr
AssignBegin(r) ==
    \E u \in Managers, g \in Ids(groups) :
        /\ GroupAccess(u, g, "write")
        /\ \E t \in Ids(usrs), a \in Levels :
              Begin(r, [Idle EXCEPT !.pc = "assign", !.usr = u, !.group = g, !.target = t, !.access = a])
        /\ UNCHANGED used

\* Mutant: only super users are refused.
Assign_NotSuper(r) ==
    LET row == [group |-> req[r].group, usr |-> req[r].target, access |-> req[r].access]
    IN  /\ Act(r, "assign")
        /\ groupUsrs' = IF row.group \in Ids(groups) /\ RoleOf[row.usr] # "super"
                        THEN Upserted(row) ELSE groupUsrs
        /\ UNCHANGED <<usrs, groups, groupNodes, nodes>>

\* The target's role limits what it may be given (users and their roles do not
\* change, so the lookup is part of this step); the group has to be there.
Assign(r) ==
    LET row == [group |-> req[r].group, usr |-> req[r].target, access |-> req[r].access]
    IN  /\ Act(r, "assign")
        /\ groupUsrs' = IF row.group \in Ids(groups) /\ IsValidAccessToRole(row.access, RoleOf[row.usr])
                        THEN Upserted(row) ELSE groupUsrs
        /\ UNCHANGED <<usrs, groups, groupNodes, nodes>>

\* DeleteGroupUsr
RemoveBegin(r) ==
    \E u \in Managers, m \in groupUsrs :
        /\ GroupAccess(u, m.group, "write_delete")
        /\ Begin(r, [Idle EXCEPT !.pc = "remove", !.usr = u, !.group = m.group, !.target = m.usr])
        /\ UNCHANGED used

Remove(r) ==
    /\ Act(r, "remove")
    /\ groupUsrs' = {m \in groupUsrs : ~(m.group = req[r].group /\ m.usr = req[r].target)}
    /\ UNCHANGED <<usrs, groups, groupNodes, nodes>>

(***************************************************************************)
(* DeleteNode, for the folders kept here (its documents are in NodeStore). *)
(***************************************************************************)
NodeBegin(r) ==
    \E u \in Managers, n \in nodes :
        /\ HasAccessFromPath(groupUsrs, groupNodes, nodes, u, n.path, "write")
        /\ Begin(r, [Idle EXCEPT !.pc = "node_delete", !.usr = u, !.node = n.id])
        /\ UNCHANGED used

\* The subtree goes with its grants.
NodeDelete(r) ==
    LET gone == {n \in nodes : \E t \in nodes : t.id = req[r].node /\ Under(n.path, t.path)}
    IN  /\ Act(r, "node_delete")
        /\ nodes' = nodes \ gone
        /\ groupNodes' = {x \in groupNodes : x[2] \notin Ids(gone)}
        /\ UNCHANGED <<usrs, groups, groupUsrs>>
-----------------------------------------------------------------------------
Start(r) ==
    /\ req[r].pc = "idle" /\ begun < MaxRequests
    /\ \/ UsrBegin(r) \/ GroupUpdateBegin(r) \/ GroupDeleteBegin(r) \/ GrantBegin(r)
       \/ RevokeBegin(r) \/ AssignBegin(r) \/ RemoveBegin(r) \/ NodeBegin(r)

Proceed(r) ==
    \/ UsrTx(r) \/ GroupUpdate(r) \/ GroupDelete(r) \/ GrantNode(r) \/ Grant(r)
    \/ Revoke(r) \/ Assign(r) \/ Remove(r) \/ NodeDelete(r)

\* A query fails, or the server stops: the request ends and changes nothing.
QueryFails(r) == req[r].pc # "idle" /\ Answer(r) /\ UNCHANGED <<tables, begun, used>>

Next == approot \/ CreateGroup \/ \E r \in Requests : Start(r) \/ Proceed(r) \/ QueryFails(r)

Spec == Init /\ [][Next]_vars
-----------------------------------------------------------------------------
(***************************************************************************)
(* Properties                                                              *)
(***************************************************************************)

\* The rows agree, whatever is deleted between a request's check and its act: a
\* membership is of a group and a user that are there, a grant of a group and a
\* node that are there, and a user has one access level in a group.
RowsRefer ==
    /\ \A m \in groupUsrs : m.group \in Ids(groups) /\ m.usr \in Ids(usrs)
    /\ \A x \in groupNodes : x[1] \in Ids(groups) /\ x[2] \in Ids(nodes)
    /\ \A m, k \in groupUsrs : m.group = k.group /\ m.usr = k.usr => m = k

\* A limited user is a reader everywhere but in its home group.
LimitedOnlyReads ==
    \A m \in groupUsrs :
        RoleOf[m.usr] = "limited" /\ m.group # m.usr => m.access = "read_only"

\* An id belongs to one account for ever, while its transaction is still to come
\* too, and to one group.
OwnIds ==
    /\ Ids(usrs) \cup Ids(groups) \subseteq used
    /\ \A g, h \in groups : g.id = h.id => g = h
    /\ \A r \in Requests : req[r].pc = "usr_tx" =>
          /\ req[r].target \in used \ (Ids(usrs) \cup Ids(groups))
          /\ \A q \in Requests \ {r} : req[q].pc = "usr_tx" => req[q].target # req[r].target

\* What every step preserves, and the properties follow from.
IInv == TypeOK /\ OwnIds /\ RowsRefer /\ LimitedOnlyReads

\* An existing super user only ever loses memberships, but for the groups it
\* creates: removed from the root group, it does not come back.
SupersAreNotAssigned ==
    [][\A m \in groupUsrs' \ groupUsrs :
          RoleOf[m.usr] = "super" /\ m.usr \in Ids(usrs) => m.group \notin Ids(groups)]_vars

\* Every new account is usable: its name is its own, it owns its home folder, and
\* a super user is an owner in the root group.
NewAccountsWhole ==
    [][\A u \in usrs' \ usrs :
          /\ \A v \in usrs : v.name # u.name
          /\ HasAccess(groupUsrs', groupNodes', nodes', u.id, u.id, "owner")
          /\ RoleOf[u.id] = "super" =>
                \E g \in groups' : /\ g.owner = None /\ g.name = "."
                                   /\ Owner(g.id, u.id) \in groupUsrs']_vars

\* Nobody can give anything of group g: no member may assign, and no request has
\* passed its check.
Closed(g) ==
    /\ \A u \in Managers : ~GroupAccess(u, g, "write")
    /\ \A r \in Requests : req[r].group = g => req[r].pc \notin {"assign", "grant_node", "grant"}

\* A group (not the root group, which new super users join) that is closed stays
\* closed: it never again gains a member, a level or a node.
ClosedForGood ==
    [][\A g \in groups : g.owner # None /\ Closed(g.id) =>
          /\ Closed(g.id)'
          /\ {m \in groupUsrs' : m.group = g.id} \subseteq groupUsrs
          /\ {x \in groupNodes' : x[1] = g.id} \subseteq groupNodes]_vars
=============================================================================
