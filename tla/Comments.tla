------------------------------ MODULE Comments ------------------------------
(***************************************************************************)
(* The comments of the node on display: the list that follows the route    *)
(* (useGetComments), the form that adds one, the editor in the list and    *)
(* the calls they make, next to a server that serves them in any order.    *)
(*                                                                         *)
(* The page around the panel is NodePage's; here it moves to another node  *)
(* and hides or shows the panel whenever it likes.                         *)
(***************************************************************************)
EXTENDS ClientRules

CONSTANTS
    NodeIds,
    Remarks,     \* the ids of comments
    Authors, Me, \* the accounts; the one at this client
    Accounts,    \* the pairs of a role and its level on these nodes
    Starts,      \* what comments there may be at first
    MaxOps,      \* bound on what the user asks for and the page does
    None

ASSUME NamesAssumption == None \notin NodeIds \cup Remarks /\ Me \in Authors
ASSUME AccountsAssumption == Accounts \subseteq Roles \X AccessLevels
ASSUME OpsAssumption == MaxOps \in Nat

Remark == [id : Remarks, on : NodeIds, by : Authors, edited : BOOLEAN]

ASSUME StartsAssumption ==
    \A S \in Starts : S \subseteq Remark /\ \A r, s \in S : r.id = s.id => r = s

VARIABLES
    remarks,   \* the server's comments
    talk,      \* useGetComments: the list, and its flags
    editor,    \* CommentsList: the comment being edited, and whether it is saved
    posting,   \* useCreateComment's flag
    talks,     \* the calls under way
    account,   \* who is signed in, and the level of its access
    node,      \* params.id
    showComments, \* the panel is on display
    exists,    \* the server's nodes
    ops,
    talkLost   \* history: an answer was lost since the list was last read

around == <<account, node, showComments, exists, ops>>
tvars == <<remarks, talk, editor, posting, talks, talkLost>>
vars == <<around, tvars>>

\* live: of a get, the latest; of an edit, of an editor still on display.
TalkCall == [op : {"get", "post", "edit", "remove"}, on : NodeIds, id : Remarks \cup {None},
             live : BOOLEAN, answer : {"none", "done", "failed"}, list : SUBSET Remark, n : Nat]

TypeOK ==
    /\ account \in Accounts /\ node \in NodeIds /\ showComments \in BOOLEAN
    /\ exists \subseteq NodeIds /\ ops \in 0 .. MaxOps
    /\ remarks \subseteq Remark
    /\ talk \in [of : NodeIds \cup {None}, list : SUBSET Remark, loading : BOOLEAN, error : BOOLEAN]
    /\ editor \in [id : Remarks \cup {None}, saving : BOOLEAN]
    /\ posting \in BOOLEAN
    /\ talks \subseteq TalkCall
    /\ talkLost \in BOOLEAN

NoEditor == [id |-> None, saving |-> FALSE]

TalkN(cs) == CHOOSE n \in 1 .. Cardinality(cs) + 1 : \A c \in cs : c.n # n

role == account[1]
level == account[2]

NewTalk(cs, op, on, id) ==
    cs \cup {[op |-> op, on |-> on, id |-> id, live |-> TRUE, answer |-> "none",
              list |-> {}, n |-> TalkN(cs)]}

\* Mutant: a list that was asked for earlier still counts.
Superseded_Counts(cs) == cs

\* No list asked for so far is the latest any more.
Superseded(cs) == {IF c.op = "get" THEN [c EXCEPT !.live = FALSE] ELSE c : c \in cs}

\* load: the list stays, hidden, until the answer is there.
LoadTalk(n, cs) ==
    /\ talk' = [talk EXCEPT !.loading = TRUE, !.error = FALSE]
    /\ talks' = NewTalk(Superseded(cs), "get", n, None)

\* What is left of the panel when the page hides it.
HidePanel(cs) == {IF c.op = "edit" THEN [c EXCEPT !.live = FALSE] ELSE c : c \in cs}

\* CommentsList offers to edit and delete what is one's own, a super user all.
canManageComment(c) == role = "super" \/ c.by = Me

-----------------------------------------------------------------------------
(***************************************************************************)
(* The user                                                                *)
(***************************************************************************)

Ops == ops < MaxOps /\ ops' = ops + 1
Listed == showComments /\ ~talk.loading /\ ~talk.error

Post ==
    /\ showComments /\ ~posting /\ canCommentOnNode(role, level)
    /\ \E id \in Remarks :
          /\ id \notin {r.id : r \in remarks} \cup {c.id : c \in talks}
          /\ talks' = NewTalk(talks, "post", node, id)
    /\ posting' = TRUE
    /\ UNCHANGED <<remarks, talk, editor, talkLost>>

StartEdit ==
    /\ Listed
    /\ \E c \in talk.list :
          /\ canManageComment(c)
          /\ editor' = [editor EXCEPT !.id = c.id]
    /\ UNCHANGED <<remarks, talk, posting, talks, talkLost>>

CancelEdit ==
    /\ editor.id # None /\ ~editor.saving
    /\ editor' = [editor EXCEPT !.id = None]
    /\ UNCHANGED <<remarks, talk, posting, talks, talkLost>>

SaveEdit ==
    /\ Listed /\ editor.id \in {c.id : c \in talk.list} /\ ~editor.saving
    /\ editor' = [editor EXCEPT !.saving = TRUE]
    /\ talks' = NewTalk(talks, "edit", node, editor.id)
    /\ UNCHANGED <<remarks, talk, posting, talkLost>>

Remove ==
    /\ Listed
    /\ \E c \in talk.list :
          /\ canManageComment(c) /\ editor.id # c.id
          /\ talks' = NewTalk(talks, "remove", node, c.id)
    /\ UNCHANGED <<remarks, talk, editor, posting, talkLost>>

RetryTalk ==
    /\ showComments /\ talk.error
    /\ LoadTalk(node, talks)
    /\ UNCHANGED <<remarks, editor, posting, talkLost>>

User ==
    /\ \/ Ops /\ (Post \/ SaveEdit \/ Remove \/ RetryTalk)
       \/ (StartEdit \/ CancelEdit) /\ UNCHANGED ops
    /\ UNCHANGED <<account, node, showComments, exists>>

-----------------------------------------------------------------------------
(***************************************************************************)
(* The page                                                                *)
(***************************************************************************)

\* The route moves to another node: the effect of the comments runs.
Move(n) ==
    /\ n # node /\ Ops
    /\ node' = n /\ showComments' = FALSE
    /\ LoadTalk(n, HidePanel(talks)) /\ editor' = NoEditor
    /\ UNCHANGED <<account, exists, remarks, posting, talkLost>>

\* The page loads again, or the drawer is closed: the list and its editor go.
Hide ==
    /\ showComments /\ Ops /\ showComments' = FALSE
    /\ talks' = HidePanel(talks) /\ editor' = NoEditor
    /\ UNCHANGED <<account, node, exists, remarks, talk, posting, talkLost>>

Show ==
    /\ ~showComments /\ showComments' = TRUE
    /\ UNCHANGED <<account, node, exists, ops, tvars>>

-----------------------------------------------------------------------------
(***************************************************************************)
(* The server                                                              *)
(***************************************************************************)

\* What a call the server takes does to the comments.
Changed(c) ==
    CASE c.op = "post"   -> remarks \cup {[id |-> c.id, on |-> c.on, by |-> Me, edited |-> FALSE]}
      [] c.op = "edit"   -> {IF r.id = c.id THEN [r EXCEPT !.edited = TRUE] ELSE r : r \in remarks}
      [] c.op = "remove" -> {r \in remarks : r.id # c.id}
      [] OTHER           -> remarks

\* Who reaches the node reads and adds; authors edit, they and super users delete.
Accepts(c) ==
    CASE c.op \in {"get", "post"} -> c.on \in exists
      [] c.op = "edit"   -> \E r \in remarks : r.id = c.id /\ r.by = Me
      [] c.op = "remove" -> \E r \in remarks : r.id = c.id /\ (role = "super" \/ r.by = Me)

Served(c, answer) ==
    talks' = (talks \ {c}) \cup
        {[c EXCEPT !.answer = answer,
                   !.list = IF c.op = "get" /\ answer = "done"
                            THEN {r \in remarks : r.on = c.on} ELSE {}]}

ServeTalk(c) ==
    /\ c.answer = "none" /\ Accepts(c)
    /\ remarks' = Changed(c)
    /\ Served(c, "done")
    /\ talkLost' = IF c.op = "get" /\ c.live THEN FALSE ELSE talkLost
    /\ UNCHANGED <<talk, editor, posting>>

\* Refused or unreachable; or done, and the answer lost.
FailTalk(c) ==
    /\ c.answer = "none"
    /\ \/ UNCHANGED <<remarks, talkLost>>
       \/ Accepts(c) /\ remarks' = Changed(c) /\ talkLost' = (talkLost \/ c.op # "get")
    /\ Served(c, "failed")
    /\ UNCHANGED <<talk, editor, posting>>

\* A node is deleted, from this page or elsewhere: its comments go with it.
DeleteNode(n) ==
    /\ n \in exists /\ Ops
    /\ exists' = exists \ {n}
    /\ remarks' = {r \in remarks : r.on # n}
    /\ talkLost' = TRUE
    /\ UNCHANGED <<account, node, showComments, talk, editor, posting, talks>>

-----------------------------------------------------------------------------
(***************************************************************************)
(* The code that awaits an answer, at the node of the route                *)
(***************************************************************************)

TalkLoaded(c) ==
    /\ c.op = "get" /\ c.answer # "none" /\ c.live
    /\ talk' = [of |-> c.on, list |-> c.list, loading |-> FALSE, error |-> c.answer = "failed"]
    /\ IF c.answer = "failed"  \* the error takes the place of the list and its editor
       THEN talks' = HidePanel(talks \ {c}) /\ editor' = NoEditor
       ELSE talks' = talks \ {c} /\ UNCHANGED editor
    /\ UNCHANGED <<remarks, posting, talkLost>>

\* The answer of a list that has been asked for again meanwhile.
TalkDropped(c) ==
    /\ c.op = "get" /\ c.answer # "none" /\ ~c.live
    /\ talks' = talks \ {c}
    /\ UNCHANGED <<remarks, talk, editor, posting, talkLost>>

\* Mutant: the comment that went is only taken off the list.
AfterChange_NotRead(c) ==
    /\ talks' = talks \ {c}
    /\ talk' = IF c.answer = "done" /\ c.op = "remove"
               THEN [talk EXCEPT !.list = {r \in @ : r.id # c.id}] ELSE talk

\* A change that was made has the list read again; of what is on display by then.
AfterChange(c) ==
    IF c.answer = "done" THEN LoadTalk(node, talks \ {c})
    ELSE talks' = talks \ {c} /\ UNCHANGED talk

PostDone(c) ==
    /\ c.op = "post" /\ c.answer # "none"
    /\ AfterChange(c)
    /\ posting' = FALSE
    /\ UNCHANGED <<remarks, editor, talkLost>>

\* A saved edit closes the editor, whichever comment it is on by then.
EditDone(c) ==
    /\ c.op = "edit" /\ c.answer # "none"
    /\ AfterChange(c)
    /\ editor' = IF ~c.live THEN editor
                 ELSE IF c.answer = "done" THEN NoEditor
                 ELSE [editor EXCEPT !.saving = FALSE]
    /\ UNCHANGED <<remarks, posting, talkLost>>

RemoveDone(c) ==
    /\ c.op = "remove" /\ c.answer # "none"
    /\ AfterChange(c)
    /\ UNCHANGED <<remarks, editor, posting, talkLost>>

-----------------------------------------------------------------------------
Init ==
    /\ account \in Accounts /\ node \in NodeIds /\ showComments = FALSE
    /\ exists = NodeIds
    /\ ops = 0 /\ talkLost = FALSE
    /\ remarks \in Starts
    /\ talk = [of |-> None, list |-> {}, loading |-> TRUE, error |-> FALSE]
    /\ editor = NoEditor /\ posting = FALSE
    /\ talks = NewTalk({}, "get", node, None)

Page == Hide \/ Show \/ \E n \in NodeIds : Move(n)

Server == \E c \in talks : (ServeTalk(c) \/ FailTalk(c)) /\ UNCHANGED around

Script ==
    /\ \E c \in talks : \/ TalkLoaded(c) \/ TalkDropped(c)
                        \/ PostDone(c) \/ EditDone(c) \/ RemoveDone(c)
    /\ UNCHANGED around

Next == User \/ Page \/ Server \/ Script \/ \E n \in NodeIds : DeleteNode(n)

\* Calls are answered or fail in the end, and what awaits an answer is run.
Spec == Init /\ [][Next]_vars /\ WF_vars(Server) /\ WF_vars(Script)

-----------------------------------------------------------------------------
\* With nothing under way, no answer lost and no node deleted meanwhile, the list
\* is the server's, whatever was written, edited or removed from here.
TalkIsCurrent ==
    talks = {} /\ Listed /\ ~talkLost => talk.list = {r \in remarks : r.on = node}

\* The list is a Lookup of the route: the comments of a node the page has left
\* are never shown under another, however late their answer comes.
TalkLookup == INSTANCE Lookup WITH
    Things <- NodeIds, Nothing <- None,
    asked <- node,
    shown <- IF talk.loading \/ talk.error THEN None ELSE talk.of,
    waiting <- talk.loading

TalkSpec == TalkLookup!Spec
=============================================================================
