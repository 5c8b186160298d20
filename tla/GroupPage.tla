------------------------------ MODULE GroupPage ------------------------------
(***************************************************************************)
(* The page of a group (GroupView with useGetGroup and the hooks that      *)
(* change groups): one mounted page, which the route moves from group to   *)
(* group until it is left, with the dialog that picks a node to share,     *)
(* next to a server that serves its calls in any order.                    *)
(*                                                                         *)
(* The dialogs are outside of what the page hides while it loads.          *)
(***************************************************************************)
EXTENDS ClientRules, NodePicker

CONSTANTS
    Groups,
    Usrs,      \* the accounts that may be assigned
    Accounts,  \* the roles of who may be signed in
    Start,     \* the group the page is first of
    Home,      \* the list of groups, which is another page
    MaxOps     \* bound on what the user does

ASSUME GroupsAssumption == Start \in Groups /\ {Home, None} \cap Groups = {} /\ Home # None
ASSUME AccountsAssumption == Accounts \subseteq Roles
ASSUME OpsAssumption == MaxOps \in Nat

VARIABLES
    role,
    exists, members, shared,   \* the server's groups, who and what is in them
    route,     \* params.id, or Home once the page is left
    view,      \* useGetGroup
    avail,     \* the accounts to choose from: being loaded, there, or not to be had
    busy,      \* the flags of the hooks that change members and nodes
    del,       \* the dialog that deletes the group
    calls,
    ops,
    lost       \* history: an answer was lost since the group was last read

server == <<exists, members, shared>>
vars == <<role, server, route, view, avail, busy, del, calls, ops, lost, pvars>>

Changes == {"addUsr", "removeUsr", "addNode", "removeNode"}
Answer == [id : Groups, usrs : SUBSET Usrs, nodes : SUBSET Nodes]
Call == [op : {"get", "delete"} \cup Changes, id : Groups,
         who : Usrs \cup Nodes \cup {None}, live : BOOLEAN,
         answer : {"none", "done", "failed"}, group : Answer \cup {None},
         closes : BOOLEAN, n : Nat]

TypeOK ==
    /\ PickerTypeOK
    /\ role \in Accounts /\ exists \subseteq Groups
    /\ members \in [Groups -> SUBSET Usrs] /\ shared \in [Groups -> SUBSET Nodes]
    /\ route \in Groups \cup {Home}
    /\ view \in [group : Answer \cup {None}, loading : BOOLEAN, error : BOOLEAN]
    /\ avail \in {"loading", "ready", "failed"}
    /\ busy \subseteq Changes
    /\ del \in [open : BOOLEAN, busy : BOOLEAN]
    /\ calls \subseteq Call
    /\ ops \in 0 .. MaxOps /\ lost \in BOOLEAN

Shown == route # Home /\ ~view.loading /\ ~view.error

N(cs) == CHOOSE n \in 1 .. Cardinality(cs) + 1 : \A c \in cs : c.n # n

Sent(cs, op, id, who, closes) ==
    cs \cup {[op |-> op, id |-> id, who |-> who, live |-> TRUE, answer |-> "none",
              group |-> None, closes |-> closes, n |-> N(cs)]}

\* Mutant: the answer of a group that was asked for earlier counts.
Outdated_Counts(cs) == cs

Outdated(cs) == {IF c.op = "get" THEN [c EXCEPT !.live = FALSE] ELSE c : c \in cs}

\* load: the group stays until the answer, hidden; closes: the dialog awaits it.
Refresh(cs, closes) ==
    /\ view' = [view EXCEPT !.loading = TRUE, !.error = FALSE]
    /\ calls' = Sent(Outdated(cs), "get", route, None, closes)

Init ==
    /\ role \in Accounts
    /\ exists = Groups
    /\ members = [g \in Groups |-> {}] /\ shared = [g \in Groups |-> {}]
    /\ route = Start
    /\ view = [group |-> None, loading |-> TRUE, error |-> FALSE]
    /\ avail = "loading"
    /\ busy = {} /\ del = [open |-> FALSE, busy |-> FALSE]
    /\ calls = Sent({}, "get", Start, None, FALSE)
    /\ ops = 0 /\ lost = FALSE
    /\ PickerInit

-----------------------------------------------------------------------------
(***************************************************************************)
(* The user                                                                *)
(***************************************************************************)

Ops == ops < MaxOps /\ ops' = ops + 1
Free == Shown /\ ~picking /\ ~del.open

\* The browser's back and forward, whatever is open: both effects run.
History(g) ==
    /\ route # Home /\ g # route /\ Ops
    /\ route' = g
    /\ view' = [group |-> None, loading |-> TRUE, error |-> FALSE]
    /\ avail' = "loading"
    /\ calls' = Sent(Outdated(calls), "get", g, None, FALSE)
    /\ UNCHANGED <<role, server, busy, del, lost, pvars>>

Retry ==
    /\ route # Home /\ view.error /\ ~picking /\ ~del.open /\ Ops
    /\ Refresh(calls, FALSE)
    /\ UNCHANGED <<role, server, route, avail, busy, del, lost, pvars>>

RetryUsrs ==
    /\ Free /\ avail = "failed" /\ Ops
    /\ avail' = "loading"
    /\ UNCHANGED <<role, server, route, view, busy, del, calls, lost, pvars>>

\* A change of the group on display.
Change(op, who) ==
    /\ Ops
    /\ busy' = busy \cup {op}
    /\ calls' = Sent(calls, op, view.group.id, who, FALSE)
    /\ UNCHANGED <<role, server, route, view, avail, del, lost, pvars>>

AddUsr(u) ==
    /\ Free /\ avail = "ready" /\ "addUsr" \notin busy
    /\ Change("addUsr", u)

\* The lists are hidden while the hooks beside them are busy.
RemoveUsr(u) ==
    /\ Free /\ u \in view.group.usrs /\ busy \cap {"addUsr", "removeUsr"} = {}
    /\ Change("removeUsr", u)

RemoveNode(n) ==
    /\ Free /\ canManageGroups(role)
    /\ n \in view.group.nodes /\ busy \cap {"addNode", "removeNode"} = {}
    /\ Change("removeNode", n)

\* A group that is not there yet, or has failed, lets the choice throw.
AddNode(n) ==
    /\ view.group # None
    /\ Choosable(n, view.group.nodes, "addNode" \in busy)
    /\ Change("addNode", n)

AskDelete ==
    /\ Free
    /\ del' = [del EXCEPT !.open = TRUE]
    /\ UNCHANGED <<role, server, route, view, avail, busy, calls, ops, lost, pvars>>

\* Escape and the cross close a dialog that waits, too.
Dismiss ==
    /\ del.open
    /\ del' = [del EXCEPT !.open = FALSE]
    /\ UNCHANGED <<role, server, route, view, avail, busy, calls, ops, lost, pvars>>

Confirm ==
    /\ del.open /\ ~del.busy /\ view.group # None /\ Ops
    /\ del' = [del EXCEPT !.busy = TRUE]
    /\ calls' = Sent(calls, "delete", view.group.id, None, FALSE)
    /\ UNCHANGED <<role, server, route, view, avail, busy, lost, pvars>>

Pick ==
    /\ \/ Free /\ canManageGroups(role) /\ Ops /\ OpenPicker
       \/ picking /\ ClosePicker /\ UNCHANGED ops
       \/ /\ Ops
          /\ \/ \E f \in Folders : openFolder(f)
             \/ \E i \in 0 .. Len(place.stack) : navigateTo(i)
             \/ \E q \in Terms \cup {TooShort} : Type(q)
             \/ \E p \in {1, 2} : TurnPage(p)
    /\ UNCHANGED <<role, server, route, view, avail, busy, del, calls, lost>>

-----------------------------------------------------------------------------
(***************************************************************************)
(* The server                                                              *)
(***************************************************************************)

Does(c) ==
    /\ c.op \in {"get", "delete"} \cup Changes => c.id \in exists
    /\ exists' = IF c.op = "delete" THEN exists \ {c.id} ELSE exists
    /\ members' = CASE c.op = "addUsr"    -> [members EXCEPT ![c.id] = @ \cup {c.who}]
                    [] c.op = "removeUsr" -> [members EXCEPT ![c.id] = @ \ {c.who}]
                    [] OTHER              -> members
    /\ shared' = CASE c.op = "addNode"    -> [shared EXCEPT ![c.id] = @ \cup {c.who}]
                   [] c.op = "removeNode" -> [shared EXCEPT ![c.id] = @ \ {c.who}]
                   [] OTHER               -> shared

Answered(c, answer) ==
    calls' = (calls \ {c}) \cup
        {[c EXCEPT !.answer = answer,
                   !.group = IF c.op = "get" /\ answer = "done"
                             THEN [id |-> c.id, usrs |-> members[c.id], nodes |-> shared[c.id]]
                             ELSE None]}

Serve(c) ==
    /\ c.answer = "none"
    /\ Does(c)
    /\ Answered(c, "done")
    /\ lost' = IF c.op = "get" /\ c.live THEN FALSE ELSE lost
    /\ UNCHANGED <<role, route, view, avail, busy, del, ops, pvars>>

\* Refused or unreachable; or done, and the answer lost.
Fail(c) ==
    /\ c.answer = "none"
    /\ \/ UNCHANGED <<server, lost>>
       \/ c.op \in {"delete"} \cup Changes /\ Does(c) /\ lost' = TRUE
    /\ Answered(c, "failed")
    /\ UNCHANGED <<role, route, view, avail, busy, del, ops, pvars>>

-----------------------------------------------------------------------------
(***************************************************************************)
(* The code that awaits an answer                                          *)
(***************************************************************************)

Failed(c) == c.answer = "failed"

\* The dialog closes when the group that has the node has been read, by whichever
\* call, and even if another is under way.
Loaded(c) ==
    /\ c.op = "get" /\ c.answer # "none"
    /\ calls' = calls \ {c}
    /\ view' = IF c.live THEN [group |-> c.group, loading |-> FALSE, error |-> Failed(c)] ELSE view
    /\ IF c.closes THEN ClosePicker ELSE UNCHANGED pvars
    /\ UNCHANGED <<role, server, route, avail, busy, del, ops, lost>>

\* The latest load of the accounts has ended: the answers of others are dropped.
UsrsLoaded ==
    /\ avail = "loading" /\ avail' \in {"ready", "failed"}
    /\ UNCHANGED <<role, server, route, view, busy, del, calls, ops, lost, pvars>>

\* Mutant: only a change of members has the group read again.
Done_KeepsNodes(c) ==
    /\ c.op \in Changes /\ c.answer # "none"
    /\ busy' = busy \ {c.op}
    /\ IF Failed(c) \/ c.op \in {"addNode", "removeNode"}
       THEN calls' = calls \ {c} /\ UNCHANGED view
       ELSE Refresh(calls \ {c}, FALSE)
    /\ UNCHANGED <<role, server, route, avail, del, ops, lost, pvars>>

Done(c) ==
    /\ c.op \in Changes /\ c.answer # "none"
    /\ busy' = busy \ {c.op}
    /\ IF Failed(c) THEN calls' = calls \ {c} /\ UNCHANGED view
       ELSE Refresh(calls \ {c}, c.op = "addNode")
    /\ UNCHANGED <<role, server, route, avail, del, ops, lost, pvars>>

NotDeleted(c) ==
    /\ c.op = "delete" /\ Failed(c)
    /\ calls' = calls \ {c}
    /\ del' = [open |-> FALSE, busy |-> FALSE]
    /\ UNCHANGED <<role, server, route, view, avail, busy, ops, lost, pvars>>

\* The page is left, whichever group it is of by then; the model ends here.
Deleted(c) ==
    /\ c.op = "delete" /\ c.answer = "done"
    /\ route' = Home
    /\ view' = [group |-> None, loading |-> FALSE, error |-> FALSE]
    /\ avail' = "failed"
    /\ busy' = {} /\ del' = [open |-> FALSE, busy |-> FALSE]
    /\ calls' = {}
    /\ picking' = FALSE /\ place' = [roots |-> {}, stack |-> <<>>, loading |-> FALSE, error |-> FALSE]
    /\ hunt' = NewHunt /\ delay' = None /\ pcalls' = {}
    /\ UNCHANGED <<role, server, ops, lost>>

-----------------------------------------------------------------------------
page == <<role, server, route, view, avail, busy, del, calls, ops, lost>>

User ==
    \/ \E g \in Groups : History(g)
    \/ \E u \in Usrs : AddUsr(u) \/ RemoveUsr(u)
    \/ \E n \in Nodes : AddNode(n) \/ RemoveNode(n)
    \/ Retry \/ RetryUsrs \/ AskDelete \/ Dismiss \/ Confirm \/ Pick

Server ==
    \/ \E c \in calls : Serve(c) \/ Fail(c)
    \/ (\E c \in pcalls : ServePick(c)) /\ UNCHANGED page

Script ==
    \/ UsrsLoaded
    \/ \E c \in calls : Loaded(c) \/ Done(c) \/ NotDeleted(c) \/ Deleted(c)
    \/ /\ DelayEnds \/ \E c \in pcalls : RootsTaken(c) \/ FolderTaken(c) \/ SearchTaken(c)
       /\ UNCHANGED page

Next == User \/ Server \/ Script

\* Calls are answered or fail in the end, timers elapse, and answers are taken.
Spec == Init /\ [][Next]_vars /\ WF_vars(Server) /\ WF_vars(Script)

-----------------------------------------------------------------------------
\* A group at rest has the members and the nodes the server has, however its
\* changes and the reads after them overtook each other, unless an answer was lost.
SettledIsCurrent ==
    calls = {} /\ Shown /\ ~lost =>
        view.group = [id |-> route, usrs |-> members[route], nodes |-> shared[route]]

\* The page is a Lookup of the route: it never shows a group it was led away from.
GroupLookup == INSTANCE Lookup WITH
    Things <- Groups, Nothing <- None,
    asked <- IF route = Home THEN None ELSE route,
    shown <- IF Shown THEN view.group.id ELSE None,
    waiting <- route # Home /\ view.loading

GroupSpec == GroupLookup!Spec
=============================================================================
