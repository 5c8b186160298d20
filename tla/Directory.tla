------------------------------ MODULE Directory ------------------------------
(***************************************************************************)
(* The lists of groups and of users (GroupsView and UsrsView): a page of   *)
(* rows that match a term, the form that creates or edits a row, and the   *)
(* dialog that deletes one, next to a server that serves the calls of one  *)
(* client in any order.  Users are only created.                           *)
(*                                                                         *)
(* The server keeps rows by id and searches what they say: the name and    *)
(* the description of a group, the names and the role of a user.  So what  *)
(* an edit writes decides which searches the row is in from then on, the   *)
(* pages and the totals of all of them, and what the list has to show.     *)
(***************************************************************************)
EXTENDS ClientRules

CONSTANTS
    MaxItems,      \* the rows there may be: 1 .. MaxItems, in the order of the server
    PageSize,
    Terms, All,    \* what can be searched for; the empty search
    Texts,         \* what a row may say
    Matches,       \* the texts each term matches
    Starts,        \* the rows there may be at first
    MaxOps,        \* bound on what the user does
    None

Items == 1 .. MaxItems

ASSUME BoundsAssumption == {MaxItems, PageSize} \subseteq Nat \ {0} /\ MaxOps \in Nat
ASSUME TermsAssumption ==
    /\ All \in Terms /\ Matches \in [Terms -> SUBSET Texts] /\ Matches[All] = Texts
ASSUME StartsAssumption == Starts \subseteq [Items -> Texts \cup {None}]
ASSUME NoneAssumption == None \notin Items /\ None \notin Texts

VARIABLES
    kind,      \* "groups" or "usrs"
    rows,      \* the server's: the text of each row, or None
    list,      \* usePaginateGroups or usePaginateUsrs
    form,      \* GroupForm or CreateUsrForm, and the flags of the hooks behind it
    confirm,   \* ConfirmDialog
    calls,
    ops,
    lost       \* history: an answer was lost since the list was last read

vars == <<kind, rows, list, form, confirm, calls, ops, lost>>

Pages == 1 .. MaxItems
Request == [term : Terms, page : Pages]
Row == Items \X Texts

\* asked, of: the latest request, and the one whose rows or error are held.
\* closes: ConfirmDialog waits for this answer.
List == [page : Pages, term : Terms, rows : SUBSET Row, total : 0 .. MaxItems,
         loading : BOOLEAN, error : BOOLEAN, asked : Request, of : Request \cup {None}]
Form == [open : BOOLEAN, editing : Items \cup {None}, creating : BOOLEAN, updating : BOOLEAN]
Call == [op : {"list", "create", "edit", "delete"}, req : Request, id : Items \cup {None},
         live : BOOLEAN, closes : BOOLEAN, answer : {"none", "done", "failed"},
         rows : SUBSET Row, total : 0 .. MaxItems, n : Nat]

TypeOK ==
    /\ kind \in {"groups", "usrs"} /\ rows \in [Items -> Texts \cup {None}]
    /\ list \in List /\ form \in Form
    /\ confirm \in [open : BOOLEAN, target : Items \cup {None}, busy : BOOLEAN]
    /\ calls \subseteq Call
    /\ ops \in 0 .. MaxOps /\ lost \in BOOLEAN

Found(req) == {i \in Items : rows[i] \in Matches[req.term]}

\* A page of them in the order of their ids: those with as many up to them as it spans.
PageOf(req) ==
    {<<i, rows[i]>> : i \in {j \in Found(req) :
        LET upto == Cardinality({k \in Found(req) : k <= j})
        IN  (req.page - 1) * PageSize < upto /\ upto <= req.page * PageSize}}

N(cs) == CHOOSE n \in 1 .. Cardinality(cs) + 1 : \A c \in cs : c.n # n

Sent(cs, op, req, id, closes) ==
    cs \cup {[op |-> op, req |-> req, id |-> id, live |-> TRUE, closes |-> closes,
              answer |-> "none", rows |-> {}, total |-> 0, n |-> N(cs)]}

\* Mutant: the answer of a page that was asked for earlier counts.
Outdated_Counts(cs) == cs

Outdated(cs) == {IF c.op = "list" THEN [c EXCEPT !.live = FALSE] ELSE c : c \in cs}

\* fetch: the rows stay, hidden, until the answer.
Fetch(page, term, cs, closes) ==
    /\ list' = [list EXCEPT !.loading = TRUE, !.error = FALSE, !.term = term,
                            !.asked = [term |-> term, page |-> page]]
    /\ calls' = Sent(Outdated(cs), "list", [term |-> term, page |-> page], None, closes)

Refresh(cs, closes) == Fetch(list.page, list.term, cs, closes)

First == [term |-> All, page |-> 1]

Init ==
    /\ kind \in {"groups", "usrs"} /\ rows \in Starts
    /\ list = [page |-> 1, term |-> All, rows |-> {}, total |-> 0, loading |-> TRUE,
               error |-> FALSE, asked |-> First, of |-> None]
    /\ form = [open |-> FALSE, editing |-> None, creating |-> FALSE, updating |-> FALSE]
    /\ confirm = [open |-> FALSE, target |-> None, busy |-> FALSE]
    /\ calls = Sent({}, "list", First, None, FALSE)
    /\ ops = 0 /\ lost = FALSE

-----------------------------------------------------------------------------
(***************************************************************************)
(* The user                                                                *)
(***************************************************************************)

Ops == ops < MaxOps /\ ops' = ops + 1
Free == ~form.open /\ ~confirm.open

\* The rows, while none are being loaded; after an error there is a button to retry.
Shown == ~list.loading /\ ~list.error
Listing(i) == Shown /\ \E t \in Texts : <<i, t>> \in list.rows

\* The search button, or another choice of role: both go to the first page.
Search(term) ==
    /\ Free /\ Ops
    /\ Fetch(1, term, calls, FALSE)
    /\ UNCHANGED <<kind, rows, form, confirm, lost>>

\* The arrows, enabled by the page and the total, also while rows load.
Turn(page) ==
    /\ Free /\ ~list.error /\ Ops
    /\ \/ page = list.page - 1
       \/ page = list.page + 1 /\ list.page * PageSize < list.total
    /\ Fetch(page, list.term, calls, FALSE)
    /\ UNCHANGED <<kind, rows, form, confirm, lost>>

Retry ==
    /\ Free /\ list.error /\ Ops
    /\ Refresh(calls, FALSE)
    /\ UNCHANGED <<kind, rows, form, confirm, lost>>

\* The button for a new row leaves editing as it is.
New ==
    /\ Free
    /\ form' = [form EXCEPT !.open = TRUE]
    /\ UNCHANGED <<kind, rows, list, confirm, calls, ops, lost>>

Edit(i) ==
    /\ kind = "groups" /\ Free /\ Listing(i)
    /\ form' = [form EXCEPT !.open = TRUE, !.editing = i]
    /\ UNCHANGED <<kind, rows, list, confirm, calls, ops, lost>>

\* Escape and the cross close a form that waits, too.
CloseForm ==
    /\ form.open
    /\ form' = [form EXCEPT !.open = FALSE, !.editing = None]
    /\ UNCHANGED <<kind, rows, list, confirm, calls, ops, lost>>

Submit ==
    /\ form.open /\ ~form.creating /\ ~form.updating /\ Ops
    /\ IF form.editing = None
       THEN form' = [form EXCEPT !.creating = TRUE] /\ calls' = Sent(calls, "create", First, None, FALSE)
       ELSE form' = [form EXCEPT !.updating = TRUE] /\ calls' = Sent(calls, "edit", First, form.editing, FALSE)
    /\ UNCHANGED <<kind, rows, list, confirm, lost>>

AskDelete(i) ==
    /\ kind = "groups" /\ Free /\ Listing(i)
    /\ confirm' = [confirm EXCEPT !.open = TRUE, !.target = i]
    /\ UNCHANGED <<kind, rows, list, form, calls, ops, lost>>

Dismiss ==
    /\ confirm.open
    /\ confirm' = [confirm EXCEPT !.open = FALSE]
    /\ UNCHANGED <<kind, rows, list, form, calls, ops, lost>>

Confirm ==
    /\ confirm.open /\ ~confirm.busy /\ Ops
    /\ confirm' = [confirm EXCEPT !.busy = TRUE]
    /\ calls' = Sent(calls, "delete", First, confirm.target, TRUE)
    /\ UNCHANGED <<kind, rows, list, form, lost>>

-----------------------------------------------------------------------------
(***************************************************************************)
(* The server                                                              *)
(***************************************************************************)

Present == {i \in Items : rows[i] # None}

\* The rows after a call that the server takes.  What was typed is any text.
After(c) ==
    CASE c.op = "list"   -> {rows}
      [] c.op = "create" -> {[rows EXCEPT ![i] = t] : i \in Items \ Present, t \in Texts}
      [] c.op = "edit"   -> {[rows EXCEPT ![i] = t] : i \in Present \cap {c.id}, t \in Texts}
      [] c.op = "delete" -> {[rows EXCEPT ![i] = None] : i \in Present \cap {c.id}}

Answered(c, answer) ==
    calls' = (calls \ {c}) \cup
        {IF c.op = "list" /\ answer = "done"
         THEN [c EXCEPT !.answer = answer, !.rows = PageOf(c.req), !.total = Cardinality(Found(c.req))]
         ELSE [c EXCEPT !.answer = answer]}

Serve(c) ==
    /\ c.answer = "none"
    /\ rows' \in After(c)
    /\ Answered(c, "done")
    /\ lost' = IF c.op = "list" /\ c.live THEN FALSE ELSE lost
    /\ UNCHANGED <<kind, list, form, confirm, ops>>

\* Refused or unreachable; or done, and the answer lost.
Fail(c) ==
    /\ c.answer = "none"
    /\ \/ UNCHANGED <<rows, lost>>
       \/ c.op # "list" /\ rows' \in After(c) /\ lost' = TRUE
    /\ Answered(c, "failed")
    /\ UNCHANGED <<kind, list, form, confirm, ops>>

-----------------------------------------------------------------------------
(***************************************************************************)
(* The code that awaits an answer                                          *)
(***************************************************************************)

Failed(c) == c.answer = "failed"

\* The dialog is closed when what it waits for has ended.
Closed(c) == IF c.closes THEN [confirm EXCEPT !.open = FALSE, !.busy = FALSE] ELSE confirm

Listed(c) ==
    /\ c.op = "list" /\ c.answer # "none"
    /\ calls' = calls \ {c}
    /\ list' = IF ~c.live THEN list
               ELSE [list EXCEPT !.loading = FALSE, !.error = Failed(c), !.of = c.req,
                                 !.rows = c.rows, !.total = c.total,
                                 !.page = IF Failed(c) THEN @ ELSE c.req.page]
    /\ confirm' = Closed(c)
    /\ UNCHANGED <<kind, rows, form, ops, lost>>

\* The form is closed whatever it is open for by then, and what it edits stays.
Created(c) ==
    /\ c.op = "create" /\ c.answer # "none"
    /\ form' = [form EXCEPT !.creating = FALSE, !.open = Failed(c) /\ @]
    /\ IF Failed(c) THEN calls' = calls \ {c} /\ UNCHANGED list ELSE Refresh(calls \ {c}, FALSE)
    /\ UNCHANGED <<kind, rows, confirm, ops, lost>>

\* Mutant: the rows are not read again after an edit.
Edited_NoRefresh(c) ==
    /\ c.op = "edit" /\ c.answer # "none"
    /\ form' = IF Failed(c) THEN [form EXCEPT !.updating = FALSE]
               ELSE [form EXCEPT !.updating = FALSE, !.open = FALSE, !.editing = None]
    /\ calls' = calls \ {c} /\ UNCHANGED list
    /\ UNCHANGED <<kind, rows, confirm, ops, lost>>

Edited(c) ==
    /\ c.op = "edit" /\ c.answer # "none"
    /\ form' = IF Failed(c) THEN [form EXCEPT !.updating = FALSE]
               ELSE [form EXCEPT !.updating = FALSE, !.open = FALSE, !.editing = None]
    /\ IF Failed(c) THEN calls' = calls \ {c} /\ UNCHANGED list ELSE Refresh(calls \ {c}, FALSE)
    /\ UNCHANGED <<kind, rows, confirm, ops, lost>>

\* The dialog waits for the rows to be read again, too.
Deleted(c) ==
    /\ c.op = "delete" /\ c.answer # "none"
    /\ IF Failed(c)
       THEN calls' = calls \ {c} /\ confirm' = Closed(c) /\ UNCHANGED list
       ELSE Refresh(calls \ {c}, TRUE) /\ UNCHANGED confirm
    /\ UNCHANGED <<kind, rows, form, ops, lost>>

-----------------------------------------------------------------------------
User ==
    \/ \E t \in Terms : Search(t)
    \/ \E p \in Pages : Turn(p)
    \/ \E i \in Items : Edit(i) \/ AskDelete(i)
    \/ Retry \/ New \/ CloseForm \/ Submit \/ Dismiss \/ Confirm

Server == \E c \in calls : Serve(c) \/ Fail(c)
Script == \E c \in calls : Listed(c) \/ Created(c) \/ Edited(c) \/ Deleted(c)

Next == User \/ Server \/ Script

\* Calls are answered or fail in the end, and what awaits an answer is run.
Spec == Init /\ [][Next]_vars /\ WF_vars(Server) /\ WF_vars(Script)

-----------------------------------------------------------------------------
\* A list at rest is the server's page of what was searched for last, row by row, with
\* its total: whatever was created, deleted or edited from here, into the search or out
\* of it, and however pages, searches and the reads after a change overtook each other,
\* unless an answer was lost.
SettledIsCurrent ==
    calls = {} /\ Shown /\ ~lost =>
        LET req == [term |-> list.term, page |-> list.page]
        IN  list.rows = PageOf(req) /\ list.total = Cardinality(Found(req))

\* The list is a Lookup of requests: it never shows the rows of a page or of a term
\* that has been left, and always ends loading.
Rows == INSTANCE Lookup WITH
    Things <- Request, Nothing <- None,
    asked <- list.asked,
    shown <- IF Shown THEN list.of ELSE None,
    waiting <- list.loading

RowsSpec == Rows!Spec
=============================================================================
