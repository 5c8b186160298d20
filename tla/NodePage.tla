------------------------------ MODULE NodePage ------------------------------
(***************************************************************************)
(* The page of a node (NodeView with useGetNode and the hooks that change  *)
(* nodes): one mounted page, which the route moves from node to node until *)
(* it is left, next to a server that serves its calls in any order.  The   *)
(* comments in its drawer are Comments.                                    *)
(*                                                                         *)
(* A page that loads or has failed to hides all it holds: dialogs and      *)
(* forms go and come back afresh, but whether they are open stays.         *)
(***************************************************************************)
EXTENDS ClientRules

CONSTANTS
    NodeIds, None,
    TypeOf,       \* "folder" or "file"
    Placed,       \* the nodes that exist at first: the folders above each
    Removed,      \* where a node is that has been deleted
    Starts,       \* the nodes whose page may be the first
    Home,         \* the list of roots, which is another page
    Accounts,     \* the pairs of a role and its level on these nodes
    MaxOps        \* bound on the calls the user makes

ASSUME TreeAssumption ==
    /\ TypeOf \in [NodeIds -> {"folder", "file"}]
    /\ DOMAIN Placed \subseteq NodeIds
    /\ \A n \in DOMAIN Placed : Placed[n] \in Seq({m \in NodeIds : TypeOf[m] = "folder"})
    /\ {Removed, Home, None} \cap NodeIds = {} /\ None \notin {Home, Removed}
ASSUME StartsAssumption == Starts \subseteq DOMAIN Placed
ASSUME AccountsAssumption == Accounts \subseteq Roles \X AccessLevels
ASSUME OpsAssumption == MaxOps \in Nat

VARIABLES
    account,   \* who is signed in, and the level of its access
    above,     \* the server's nodes: the folders above each; None, not made yet
    route,     \* params.id, or Home once the page is left
    back,      \* location.state.returnTo
    view,      \* useGetNode
    confirm,   \* the two ConfirmDialogs
    create,    \* NodeForm, and useCreateFolder's flag
    uploading, \* useCreateDoc's flag
    calls,     \* the calls under way
    ops,
    lost,      \* history: an answer was lost since the page was last read
    gone       \* history: the nodes whose deletion the page was told

page == <<route, back, view, confirm, create, uploading>>
history == <<lost, gone>>
vars == <<account, above, page, calls, ops, history>>

Dialogs == {"node", "doc"}
Answer == [id : NodeIds, kids : SUBSET NodeIds]
Call == [op : {"get", "create", "upload", "node", "doc"}, id : NodeIds, live : BOOLEAN,
         answer : {"none", "done", "failed", "refused"}, node : Answer \cup {None}, n : Nat]

TypeOK ==
    /\ account \in Accounts
    /\ above \in [NodeIds -> Seq(NodeIds) \cup {None, Removed}]
    /\ route \in NodeIds \cup {Home} /\ back \in NodeIds \cup {Home}
    /\ view \in [node : Answer \cup {None}, loading : BOOLEAN, error : BOOLEAN]
    /\ confirm \in [Dialogs -> [open : BOOLEAN, target : NodeIds \cup {None}, busy : BOOLEAN]]
    /\ create \in [open : BOOLEAN, busy : BOOLEAN]
    /\ uploading \in BOOLEAN
    /\ calls \subseteq Call
    /\ ops \in 0 .. MaxOps
    /\ lost \in BOOLEAN /\ gone \subseteq NodeIds

role == account[1]
level == account[2]

Exists == {n \in NodeIds : above[n] \notin {None, Removed}}
Kids(n) == {k \in Exists : above[k] = Append(above[n], n)}

\* n and all that is below it.
Subtree(n) == {k \in Exists : k = n \/ \E i \in DOMAIN above[k] : above[k][i] = n}

Shown == route # Home /\ ~view.loading /\ ~view.error

N(cs) == CHOOSE n \in 1 .. Cardinality(cs) + 1 : \A c \in cs : c.n # n

Sent(cs, op, id) ==
    cs \cup {[op |-> op, id |-> id, live |-> TRUE, answer |-> "none", node |-> None, n |-> N(cs)]}

-----------------------------------------------------------------------------
(***************************************************************************)
(* Loading                                                                 *)
(***************************************************************************)

\* Mutant: the answer of a load that has been overtaken counts.
Overtaken_Counts(cs) == {IF c.op = "get" THEN c ELSE [c EXCEPT !.live = FALSE] : c \in cs}

\* No load is the latest any more, and no dialog that waits is on display.
Overtaken(cs) == {[c EXCEPT !.live = FALSE] : c \in cs}

Loading == [node |-> None, loading |-> TRUE, error |-> FALSE]

\* The dialogs of a page that has been hidden since they were confirmed.
Unconfirmed(conf) == [d \in Dialogs |-> [conf[d] EXCEPT !.busy = FALSE]]

\* refresh: the node of the route is read again.
Refresh(cs, conf) ==
    /\ view' = Loading
    /\ calls' = Sent(Overtaken(cs), "get", route)
    /\ confirm' = Unconfirmed(conf)
    /\ UNCHANGED <<route, back>>

\* The route moves to another node: its effect loads that node.
MoveTo(id, from, cs, conf) ==
    /\ route' = id /\ back' = from
    /\ view' = Loading
    /\ calls' = Sent(Overtaken(cs), "get", id)
    /\ confirm' = Unconfirmed(conf)
    /\ UNCHANGED <<create, uploading>>

NoDialogs == [d \in Dialogs |-> [open |-> FALSE, target |-> None, busy |-> FALSE]]

\* The page is left; the model ends here.
Leave ==
    /\ route' = Home /\ back' = Home
    /\ view' = Loading /\ calls' = {}
    /\ confirm' = NoDialogs
    /\ create' = [open |-> FALSE, busy |-> FALSE]
    /\ uploading' = FALSE

\* navigate(returnTo()): where it leads has no returnTo of its own.
GoBack(cs, conf) == IF back = Home THEN Leave ELSE MoveTo(back, Home, cs, conf)

Init ==
    /\ account \in Accounts
    /\ above = [n \in NodeIds |-> IF n \in DOMAIN Placed THEN Placed[n] ELSE None]
    /\ route \in Starts /\ back = Home
    /\ view = Loading
    /\ confirm = NoDialogs
    /\ create = [open |-> FALSE, busy |-> FALSE]
    /\ uploading = FALSE
    /\ calls = Sent({}, "get", route)
    /\ ops = 0 /\ lost = FALSE /\ gone = {}

-----------------------------------------------------------------------------
(***************************************************************************)
(* The user                                                                *)
(***************************************************************************)

Ops == ops < MaxOps /\ ops' = ops + 1

NoModal == ~create.open /\ \A d \in Dialogs : ~confirm[d].open
Free == Shown /\ NoModal

\* What the header and the toolbar offer on a folder, and the rows on a child,
\* which has the level of its folder.
Offered == canChangeNode(role, level)

OpenNode(k) ==
    /\ Free /\ k \in view.node.kids /\ Ops
    /\ MoveTo(k, route, calls, confirm)
    /\ UNCHANGED <<account, above, history>>

BackButton ==
    /\ Free /\ Ops
    /\ GoBack(calls, confirm)
    /\ UNCHANGED <<account, above, history>>

\* The browser's back and forward, whatever is open.
History(n, from) ==
    /\ route # Home /\ n # route /\ from # n /\ Ops
    /\ MoveTo(n, from, calls, confirm)
    /\ UNCHANGED <<account, above, history>>

Retry ==
    /\ view.error /\ Ops
    /\ Refresh(calls, confirm)
    /\ UNCHANGED <<account, above, history, create, uploading>>

\* handleDelete and handleDeleteDoc: a file's row asks in the other dialog.
AskDelete(n) ==
    /\ Free /\ Offered
    /\ n \in {view.node.id} \cup view.node.kids
    /\ LET d == IF n = view.node.id \/ TypeOf[n] = "folder" THEN "node" ELSE "doc"
       IN  confirm' = [confirm EXCEPT ![d].open = TRUE, ![d].target = n]
    /\ UNCHANGED <<account, above, route, back, view, create, uploading, calls, ops, history>>

Confirm(d) ==
    /\ Shown /\ confirm[d].open /\ ~confirm[d].busy /\ Ops
    /\ confirm' = [confirm EXCEPT ![d].busy = TRUE]
    /\ calls' = Sent(calls, d, confirm[d].target)
    /\ UNCHANGED <<account, above, route, back, view, create, uploading, history>>

\* Escape and the cross close a dialog that waits, too.
Dismiss(d) ==
    /\ Shown /\ confirm[d].open
    /\ confirm' = [confirm EXCEPT ![d].open = FALSE]
    /\ UNCHANGED <<account, above, route, back, view, create, uploading, calls, ops, history>>

OpenForm ==
    /\ Free /\ TypeOf[view.node.id] = "folder" /\ Offered /\ ~uploading
    /\ create' = [create EXCEPT !.open = TRUE]
    /\ UNCHANGED <<account, above, route, back, view, confirm, uploading, calls, ops, history>>

CloseForm ==
    /\ Shown /\ create.open
    /\ create' = [create EXCEPT !.open = FALSE]
    /\ UNCHANGED <<account, above, route, back, view, confirm, uploading, calls, ops, history>>

SubmitForm ==
    /\ Shown /\ create.open /\ ~create.busy /\ Ops
    /\ create' = [create EXCEPT !.busy = TRUE]
    /\ calls' = Sent(calls, "create", view.node.id)
    /\ UNCHANGED <<account, above, route, back, view, confirm, uploading, history>>

Upload ==
    /\ Free /\ TypeOf[view.node.id] = "folder" /\ Offered /\ ~uploading /\ Ops
    /\ uploading' = TRUE
    /\ calls' = Sent(calls, "upload", route)
    /\ UNCHANGED <<account, above, route, back, view, confirm, create, history>>

-----------------------------------------------------------------------------
(***************************************************************************)
(* The server                                                              *)
(***************************************************************************)

MayChange == CanChangeTree(role) /\ IsEquivalent(level, "write")

\* The nodes after a call that the server takes: a fresh one of the type asked
\* for, or without a subtree.
After(c) ==
    CASE c.op = "get" -> IF c.id \in Exists THEN {above} ELSE {}
      [] c.op \in {"create", "upload"} ->
            {[above EXCEPT ![n] = Append(above[c.id], c.id)] :
                n \in {m \in NodeIds : /\ above[m] = None /\ c.id \in Exists
                                       /\ TypeOf[m] = IF c.op = "create" THEN "folder" ELSE "file"}}
      [] OTHER -> IF c.id \in Exists
                  THEN LET S == Subtree(c.id)
                       IN  {[n \in NodeIds |-> IF n \in S THEN Removed ELSE above[n]]}
                  ELSE {}

Answered(c, answer) ==
    calls' = (calls \ {c}) \cup
        {[c EXCEPT !.answer = answer,
                   !.node = IF c.op = "get" /\ answer = "done"
                            THEN [id |-> c.id, kids |-> Kids(c.id)] ELSE None]}

Apply(c) == above' \in After(c) /\ UNCHANGED <<account, page, ops, gone>>

Serve(c) ==
    /\ c.answer = "none" /\ (c.op = "get" \/ MayChange)
    /\ Apply(c)
    /\ Answered(c, "done")
    /\ lost' = IF c.op = "get" /\ c.live THEN FALSE ELSE lost

\* Done, and the answer lost.
Lose(c) ==
    /\ c.answer = "none" /\ c.op # "get" /\ MayChange
    /\ Apply(c)
    /\ Answered(c, "failed")
    /\ lost' = TRUE

Fail(c) ==
    /\ c.answer = "none"
    /\ Answered(c, "failed")
    /\ UNCHANGED <<account, above, page, ops, history>>

Refuse(c) ==
    /\ c.answer = "none" /\ c.op # "get" /\ ~MayChange
    /\ Answered(c, "refused")
    /\ UNCHANGED <<account, above, page, ops, history>>

-----------------------------------------------------------------------------
(***************************************************************************)
(* The code that awaits an answer                                          *)
(***************************************************************************)

Ended(c, op) == c.op = op /\ c.answer # "none"
Failed(c) == c.answer \in {"failed", "refused"}

Loaded(c) ==
    /\ Ended(c, "get")
    /\ calls' = calls \ {c}
    /\ view' = IF ~c.live THEN view
               ELSE [node |-> c.node, loading |-> FALSE, error |-> Failed(c)]
    /\ UNCHANGED <<account, above, route, back, confirm, create, uploading, ops, history>>

Made(c) ==
    /\ Ended(c, "create")
    /\ IF Failed(c)
       THEN /\ calls' = calls \ {c} /\ create' = [create EXCEPT !.busy = FALSE]
            /\ UNCHANGED <<route, back, view, confirm>>
       ELSE /\ Refresh(calls \ {c}, confirm)
            /\ create' = [open |-> FALSE, busy |-> FALSE]
    /\ UNCHANGED <<account, above, uploading, ops, history>>

Uploaded(c) ==
    /\ Ended(c, "upload")
    /\ uploading' = FALSE
    /\ IF Failed(c)
       THEN calls' = calls \ {c} /\ UNCHANGED <<route, back, view, confirm>>
       ELSE Refresh(calls \ {c}, confirm)
    /\ UNCHANGED <<account, above, create, ops, history>>

\* The dialog is closed, whatever it is open for by then.
Closed(c) ==
    [confirm EXCEPT ![c.op].open = FALSE, ![c.op].busy = IF c.live THEN FALSE ELSE @]

NotDeleted(c) ==
    /\ \E d \in Dialogs : Ended(c, d)
    /\ Failed(c)
    /\ calls' = calls \ {c} /\ confirm' = Closed(c)
    /\ UNCHANGED <<account, above, route, back, view, create, uploading, ops, history>>

\* Mutant: the page reads nothing again when a child is gone.
NodeDeleted_NoRefresh(c) ==
    /\ Ended(c, "node") /\ ~Failed(c)
    /\ IF view.node # None /\ view.node.id = c.id
       THEN GoBack(calls \ {c}, Closed(c))
       ELSE /\ calls' = calls \ {c} /\ confirm' = Closed(c)
            /\ UNCHANGED <<route, back, view, create, uploading>>
    /\ gone' = gone \cup {c.id}
    /\ UNCHANGED <<account, above, ops, lost>>

\* The page of the deleted node is left; any other is read again.
NodeDeleted(c) ==
    /\ Ended(c, "node") /\ ~Failed(c)
    /\ IF view.node # None /\ view.node.id = c.id
       THEN GoBack(calls \ {c}, Closed(c))
       ELSE Refresh(calls \ {c}, Closed(c)) /\ UNCHANGED <<create, uploading>>
    /\ gone' = gone \cup {c.id}
    /\ UNCHANGED <<account, above, ops, lost>>

DocDeleted(c) ==
    /\ Ended(c, "doc") /\ ~Failed(c)
    /\ Refresh(calls \ {c}, Closed(c))
    /\ gone' = gone \cup {c.id}
    /\ UNCHANGED <<account, above, create, uploading, ops, lost>>

-----------------------------------------------------------------------------
User ==
    \/ \E n \in NodeIds : OpenNode(n) \/ AskDelete(n)
    \/ \E n \in DOMAIN Placed : History(n, Home)
    \/ \E d \in Dialogs : Confirm(d) \/ Dismiss(d)
    \/ BackButton \/ Retry \/ OpenForm \/ CloseForm \/ SubmitForm \/ Upload

Server == \E c \in calls : Serve(c) \/ Lose(c) \/ Fail(c) \/ Refuse(c)

Script == \E c \in calls : \/ Loaded(c) \/ Made(c) \/ Uploaded(c)
                          \/ NotDeleted(c) \/ NodeDeleted(c) \/ DocDeleted(c)

Next == User \/ Server \/ Script

\* Calls are answered or fail in the end, and what awaits an answer is run.
Spec == Init /\ [][Next]_vars /\ WF_vars(Server) /\ WF_vars(Script)

-----------------------------------------------------------------------------
\* A node whose deletion the page was told succeeded is not seen again, as a page
\* or in its folder, however the answers of deletions and loads overtake each other.
GoneStaysGone ==
    Shown => view.node.id \notin gone /\ view.node.kids \cap gone = {}

\* A page at rest is what the server has, whatever was created, uploaded or
\* deleted from here, unless an answer was lost.
SettledIsCurrent ==
    calls = {} /\ Shown /\ ~lost =>
        view.node = [id |-> route, kids |-> Kids(route)]

\* Nothing the page offers to do to nodes is refused for want of a role or level.
OfferedIsTaken == \A c \in calls : c.answer # "refused"

\* The page is a Lookup of the route: it never shows a node it was led away from.
PageLookup == INSTANCE Lookup WITH
    Things <- NodeIds, Nothing <- None,
    asked <- IF route = Home THEN None ELSE route,
    shown <- IF Shown THEN view.node.id ELSE None,
    waiting <- route # Home /\ view.loading

PageSpec == PageLookup!Spec
=============================================================================
