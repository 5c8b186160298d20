---------------------------- MODULE PanelProofs ----------------------------
(***************************************************************************)
(* Two panels of the page of a node.  Of the comments: for any nodes,      *)
(* comments, accounts and number of steps, the panel shows those of the    *)
(* node of the route, and with nothing under way it shows the server's.    *)
(* Of the search dialog: it shows what its inputs ask for, for any terms   *)
(* and filters, any number of pages, and however many changes, searches    *)
(* and answers overtake each other.                                        *)
(***************************************************************************)
EXTENDS Comments, NodeFinder, FiniteSetTheorems, TLAPS

\* What a function makes of the elements of a finite set is finite.
LEMMA ImageIsFinite ==
    ASSUME NEW S, IsFiniteSet(S), NEW f, f = [x \in S |-> f[x]]
    PROVE  /\ IsFiniteSet({f[x] : x \in S})
           /\ Cardinality({f[x] : x \in S}) <= Cardinality(S)
<1> DEFINE T == {f[x] : x \in S}
<1>1. f \in Surjection(S, T)
  BY DEF Surjection
<1> QED
  BY <1>1, FS_Surjection

\* Calls are numbered, however many are under way.
LEMMA SomeNumberIsFree ==
    ASSUME NEW cs, IsFiniteSet(cs)
    PROVE  /\ Cardinality(cs) \in Nat
           /\ \E n \in 1 .. Cardinality(cs) + 1 : \A c \in cs : c.n # n
<1> DEFINE k == Cardinality(cs)
           used == {c.n : c \in cs}
<1>1. k \in Nat
  BY FS_CardinalityType
<1>2. IsFiniteSet(used) /\ Cardinality(used) <= Cardinality(cs)
  <2> DEFINE f == [c \in cs |-> c.n]
  <2>1. f = [c \in cs |-> f[c]] /\ used = {f[c] : c \in cs}
    OBVIOUS
  <2> HIDE DEF f, used
  <2> QED
    BY <2>1, ImageIsFinite
<1>3. IsFiniteSet(1 .. k + 1) /\ Cardinality(1 .. k + 1) = k + 1
  <2>1. 1 \in Int /\ k + 1 \in Int /\ ~(1 > k + 1) /\ (k + 1) - 1 + 1 = k + 1
    BY <1>1
  <2> HIDE DEF k
  <2> QED
    BY <2>1, FS_Interval
<1>4. ~(1 .. k + 1 \subseteq used)
  <2>1. Cardinality(used) \in Nat /\ Cardinality(used) <= k
    BY <1>2, FS_CardinalityType
  <2> HIDE DEF used, k
  <2> QED
    BY <1>1, <1>2, <1>3, <2>1, FS_Subset
<1> QED
  BY <1>1, <1>4

-----------------------------------------------------------------------------
(***************************************************************************)
(* The comments.                                                           *)
(***************************************************************************)
CallRecord(c) ==
    /\ c = [op |-> c.op, on |-> c.on, id |-> c.id, live |-> c.live, answer |-> c.answer,
            list |-> c.list, n |-> c.n]
    /\ c.answer \in {"none", "done", "failed"}

Shape ==
    /\ node \in NodeIds
    /\ talk = [of |-> talk.of, list |-> talk.list, loading |-> talk.loading, error |-> talk.error]
    /\ \A c \in talks : CallRecord(c)

LiveGet(c) == c.op = "get" /\ c.live

\* The list that would be taken is the one the panel waits for, of the route's node.
WaitedFor ==
    /\ \A c \in talks : LiveGet(c) => talk.loading /\ c.on = node
    /\ \A c, d \in talks : LiveGet(c) /\ LiveGet(d) => c = d

IInv == Shape /\ WaitedFor

(***************************************************************************)
(* A change that was made here has its answer still to be taken, or has    *)
(* had the list asked for again.                                           *)
(***************************************************************************)
Untold == \E c \in talks : c.op # "get" /\ c.answer = "done"

On(n) == {r \in remarks : r.on = n}

UpToDate ==
    ~talkLost /\ ~Untold =>
        /\ ~talk.loading /\ ~talk.error => talk.list = On(node)
        /\ \A c \in talks : LiveGet(c) /\ c.answer = "done" => c.list = On(c.on)

-----------------------------------------------------------------------------
LEMMA NewTalkCalls ==
    ASSUME NEW cs, NEW op, NEW on, NEW id
    PROVE  \E new : /\ NewTalk(cs, op, on, id) = cs \cup {new}
                    /\ CallRecord(new) /\ new.op = op /\ new.on = on /\ new.answer = "none"
<1> DEFINE new == [op |-> op, on |-> on, id |-> id, live |-> TRUE, answer |-> "none",
                   list |-> {}, n |-> TalkN(cs)]
<1>1. NewTalk(cs, op, on, id) = cs \cup {new}
  BY DEF NewTalk
<1>2. CallRecord(new) /\ new.op = op /\ new.on = on /\ new.answer = "none"
  BY DEF CallRecord
<1> QED
  BY <1>1, <1>2

\* What marks and answers leave of a call.
LEMMA CallFields ==
    ASSUME NEW c, CallRecord(c)
    PROVE  \E op, on, id, live, answer, list, n :
               c = [op |-> op, on |-> on, id |-> id, live |-> live, answer |-> answer,
                    list |-> list, n |-> n]
<1> WITNESS c.op, c.on, c.id, c.live, c.answer, c.list, c.n
<1> QED
  BY DEF CallRecord

LEMMA DullCalls ==
    ASSUME NEW c, CallRecord(c), NEW d, d = [c EXCEPT !.live = FALSE]
    PROVE  CallRecord(d) /\ ~d.live /\ d.op = c.op /\ d.answer = c.answer
<1>1. PICK op, on, id, live, answer, list, n :
          c = [op |-> op, on |-> on, id |-> id, live |-> live, answer |-> answer,
               list |-> list, n |-> n]
  BY CallFields
<1>2. d = [op |-> op, on |-> on, id |-> id, live |-> FALSE, answer |-> answer,
           list |-> list, n |-> n]
  BY <1>1
<1>3. c.answer \in {"none", "done", "failed"}
  BY DEF CallRecord
<1> QED
  BY <1>1, <1>2, <1>3 DEF CallRecord

Answered(c, answer, list) == [c EXCEPT !.answer = answer, !.list = list]

LEMMA AnsweredCalls ==
    ASSUME NEW c, CallRecord(c), NEW answer \in {"done", "failed"}, NEW list
    PROVE  LET d == Answered(c, answer, list)
           IN  /\ CallRecord(d) /\ d.answer = answer /\ d.list = list
               /\ d.op = c.op /\ d.on = c.on /\ d.live = c.live
<1>1. PICK op, on, id, live, old, had, n :
          c = [op |-> op, on |-> on, id |-> id, live |-> live, answer |-> old,
               list |-> had, n |-> n]
  BY CallFields
<1>2. Answered(c, answer, list)
        = [op |-> op, on |-> on, id |-> id, live |-> live, answer |-> answer,
           list |-> list, n |-> n]
  <2>1. PICK d : d = Answered(c, answer, list)
    OBVIOUS
  <2>2. d = [op |-> op, on |-> on, id |-> id, live |-> live, answer |-> answer,
             list |-> list, n |-> n]
    BY <1>1, <2>1 DEF Answered
  <2> QED
    BY <2>1, <2>2
<1> QED
  BY <1>1, <1>2 DEF CallRecord

LEMMA InitIInv == Init => IInv /\ UpToDate /\ TalkLookup!Init
<1> SUFFICES ASSUME Init PROVE IInv /\ UpToDate /\ TalkLookup!Init
  OBVIOUS
<1>1. PICK new : /\ talks = {} \cup {new} /\ CallRecord(new)
                 /\ new.op = "get" /\ new.on = node /\ new.answer = "none"
  BY NewTalkCalls DEF Init
<1>2. node \in NodeIds /\ talk.loading
      /\ talk = [of |-> talk.of, list |-> talk.list, loading |-> talk.loading, error |-> talk.error]
  BY DEF Init
<1>3. IInv
  BY <1>1, <1>2 DEF IInv, Shape, WaitedFor
<1>4. UpToDate
  BY <1>1, <1>2 DEF UpToDate
<1>5. TalkLookup!Init
  BY <1>2 DEF TalkLookup!Init
<1> QED
  BY <1>3, <1>4, <1>5

\* Asking for the list makes every other answer one that is dropped.
LEMMA LoadKeeps ==
    ASSUME IInv, NEW n \in NodeIds, node' = n, NEW cs, \A c \in cs : CallRecord(c), LoadTalk(n, cs)
    PROVE  IInv' /\ UpToDate' /\ TalkLookup!Ask
<1>1. PICK new : /\ talks' = Superseded(cs) \cup {new} /\ CallRecord(new)
                 /\ new.op = "get" /\ new.on = n /\ new.answer = "none"
  BY NewTalkCalls DEF LoadTalk
<1>2. ASSUME NEW c \in Superseded(cs) PROVE CallRecord(c) /\ ~LiveGet(c)
  <2>1. PICK b \in cs : c = IF b.op = "get" THEN [b EXCEPT !.live = FALSE] ELSE b
    BY DEF Superseded
  <2> QED
    BY <2>1, DullCalls DEF LiveGet
<1>3. /\ talk'.loading /\ ~talk'.error
      /\ talk' = [of |-> talk'.of, list |-> talk'.list, loading |-> talk'.loading, error |-> talk'.error]
  BY DEF LoadTalk, IInv, Shape
<1>4. \A c \in talks' : LiveGet(c) => c = new
  BY <1>1, <1>2
<1>5. Shape'
  BY <1>1, <1>2, <1>3 DEF Shape
<1>6. WaitedFor'
  BY <1>1, <1>3, <1>4 DEF WaitedFor
<1>7. UpToDate'
  BY <1>1, <1>3, <1>4 DEF UpToDate
<1>8. TalkLookup!Ask
  BY <1>3 DEF TalkLookup!Ask
<1> QED
  BY <1>5, <1>6, <1>7, <1>8 DEF IInv

\* A step of no consequence for the list: none of the panel's.
LEMMA RestKeeps ==
    ASSUME IInv, UNCHANGED <<node, talk>>,
           \A c \in talks' : CallRecord(c) /\ (LiveGet(c) => c \in talks)
    PROVE  IInv' /\ UNCHANGED TalkLookup!lvars
<1>1. Shape' /\ WaitedFor'
  BY DEF IInv, Shape, WaitedFor
<1> QED
  BY <1>1 DEF IInv, TalkLookup!lvars

LEMMA RestCurrent ==
    ASSUME UpToDate, UNCHANGED <<node, talk, remarks>>, ~talkLost' => ~talkLost,
           \A c \in talks : c.op # "get" /\ c.answer = "done" =>
              \E d \in talks' : d.op # "get" /\ d.answer = "done",
           \A c \in talks' : LiveGet(c) /\ c.answer = "done" => c \in talks
    PROVE  UpToDate'
<1>1. Untold => Untold'
  BY DEF Untold
<1>2. On(node)' = On(node) /\ \A n : On(n)' = On(n)
  BY DEF On
<1> QED
  BY <1>1, <1>2 DEF UpToDate

\* The three ways the calls change in such steps.
LEMMA SendKeeps ==
    ASSUME IInv, UpToDate, UNCHANGED <<node, talk, remarks, talkLost>>,
           NEW op, op # "get", NEW on, NEW id, talks' = NewTalk(talks, op, on, id)
    PROVE  IInv' /\ UpToDate' /\ UNCHANGED TalkLookup!lvars
<1>1. PICK new : /\ talks' = talks \cup {new} /\ CallRecord(new)
                 /\ new.op = op /\ new.answer = "none"
  BY NewTalkCalls
<1>2. \A c \in talks' : CallRecord(c) /\ (LiveGet(c) => c \in talks)
  BY <1>1 DEF LiveGet, IInv, Shape
<1>3. \A c \in talks' : c.answer = "done" => c \in talks
  BY <1>1
<1> QED
  BY <1>1, <1>2, <1>3, RestKeeps, RestCurrent

LEMMA DropKeeps ==
    ASSUME IInv, UpToDate, UNCHANGED <<node, talk, remarks, talkLost>>, NEW c,
           c.op = "get" \/ c.answer = "failed", talks' = talks \ {c}
    PROVE  IInv' /\ UpToDate' /\ UNCHANGED TalkLookup!lvars
<1>1. \A d \in talks' : CallRecord(d) /\ d \in talks
  BY DEF IInv, Shape
<1>2. \A d \in talks : d.op # "get" /\ d.answer = "done" => d \in talks'
  OBVIOUS
<1> QED
  BY <1>1, <1>2, RestKeeps, RestCurrent

LEMMA HiddenCalls ==
    ASSUME NEW cs, \A c \in cs : CallRecord(c)
    PROVE  /\ \A d \in HidePanel(cs) : CallRecord(d) /\ (LiveGet(d) => d \in cs)
           /\ \A c \in cs : c.op # "get" /\ c.answer = "done" =>
                 \E d \in HidePanel(cs) : d.op # "get" /\ d.answer = "done"
<1>1. ASSUME NEW d \in HidePanel(cs) PROVE CallRecord(d) /\ (LiveGet(d) => d \in cs)
  <2>1. PICK c \in cs : d = IF c.op = "edit" THEN [c EXCEPT !.live = FALSE] ELSE c
    BY DEF HidePanel
  <2> QED
    BY <2>1, DullCalls DEF LiveGet
<1>2. ASSUME NEW c \in cs, c.op # "get", c.answer = "done"
      PROVE  \E d \in HidePanel(cs) : d.op # "get" /\ d.answer = "done"
  <2> DEFINE d == IF c.op = "edit" THEN [c EXCEPT !.live = FALSE] ELSE c
  <2>1. d \in HidePanel(cs)
    BY DEF HidePanel
  <2>2. d.op # "get" /\ d.answer = "done"
    BY <1>2, DullCalls
  <2> QED
    BY <2>1, <2>2
<1> QED
  BY <1>1, <1>2

-----------------------------------------------------------------------------
Kept == IInv' /\ UpToDate' /\ [TalkLookup!Next]_(TalkLookup!lvars)

LEMMA UserSteps == IInv /\ UpToDate /\ User => Kept
<1> SUFFICES ASSUME IInv, UpToDate, User PROVE Kept
  OBVIOUS
<1>1. UNCHANGED node
  BY DEF User
<1>2. CASE Post
  BY <1>1, <1>2, SendKeeps DEF Post, Kept
<1>3. CASE SaveEdit
  BY <1>1, <1>3, SendKeeps DEF SaveEdit, Kept
<1>4. CASE Remove
  BY <1>1, <1>4, SendKeeps DEF Remove, Kept
<1>5. CASE RetryTalk
  BY <1>1, <1>5, LoadKeeps DEF RetryTalk, Kept, IInv, Shape, TalkLookup!Next
<1>6. CASE StartEdit \/ CancelEdit
  <2>1. UNCHANGED <<node, talk, remarks, talkLost, talks>>
    BY <1>1, <1>6 DEF StartEdit, CancelEdit
  <2>2. \A c \in talks' : CallRecord(c) /\ c \in talks
    BY <2>1 DEF IInv, Shape
  <2> QED
    BY <2>1, <2>2, RestKeeps, RestCurrent DEF Kept
<1> QED
  BY <1>2, <1>3, <1>4, <1>5, <1>6 DEF User

LEMMA PageSteps == IInv /\ UpToDate /\ (Page \/ \E n \in NodeIds : DeleteNode(n)) => Kept
<1> SUFFICES ASSUME IInv, UpToDate, Page \/ \E n \in NodeIds : DeleteNode(n) PROVE Kept
  OBVIOUS
<1>0. \A c \in talks : CallRecord(c)
  BY DEF IInv, Shape
<1>1. ASSUME NEW n \in NodeIds, Move(n) PROVE Kept
  BY <1>0, <1>1, HiddenCalls, LoadKeeps DEF Move, Kept, TalkLookup!Next
<1>2. CASE Hide
  BY <1>0, <1>2, HiddenCalls, RestKeeps, RestCurrent DEF Hide, Kept
<1>3. CASE Show
  BY <1>0, <1>3, RestKeeps, RestCurrent DEF Show, tvars, Kept
<1>4. ASSUME NEW n \in NodeIds, DeleteNode(n) PROVE Kept
  <2>1. UpToDate'
    BY <1>4 DEF DeleteNode, UpToDate
  <2> QED
    BY <1>0, <1>4, <2>1, RestKeeps DEF DeleteNode, Kept
<1> QED
  BY <1>1, <1>2, <1>3, <1>4 DEF Page

LEMMA ServerSteps == IInv /\ UpToDate /\ Server => Kept
<1> SUFFICES ASSUME IInv, UpToDate, NEW c \in talks, ServeTalk(c) \/ FailTalk(c), UNCHANGED around
             PROVE  Kept
  BY DEF Server
<1>0. UNCHANGED <<node, talk>> /\ c.answer = "none" /\ CallRecord(c)
  BY DEF ServeTalk, FailTalk, around, IInv, Shape
<1>1. PICK d : /\ talks' = (talks \ {c}) \cup {d} /\ CallRecord(d)
               /\ d.op = c.op /\ d.on = c.on /\ d.live = c.live
               /\ ServeTalk(c) => d.answer = "done"
               /\ ServeTalk(c) /\ c.op = "get" => d.list = On(c.on)
               /\ ~ServeTalk(c) => d.answer = "failed"
  <2> DEFINE list == IF c.op = "get" THEN {r \in remarks : r.on = c.on} ELSE {}
  <2>1. ServeTalk(c) => talks' = (talks \ {c}) \cup {Answered(c, "done", list)}
    BY DEF ServeTalk, Served, Answered
  <2>2. ~ServeTalk(c) => talks' = (talks \ {c}) \cup {Answered(c, "failed", {})}
    BY DEF FailTalk, Served, Answered
  <2>3. c.op = "get" => list = On(c.on)
    BY DEF On
  <2> HIDE DEF list
  <2>4. CASE ServeTalk(c)
    BY <1>0, <2>1, <2>3, <2>4, AnsweredCalls
  <2>5. CASE ~ServeTalk(c)
    BY <1>0, <2>2, <2>5, AnsweredCalls
  <2> QED
    BY <2>4, <2>5
<1>2. Shape'
  BY <1>0, <1>1 DEF IInv, Shape
<1>3. WaitedFor'
  BY <1>0, <1>1 DEF IInv, WaitedFor, LiveGet
<1>4. UpToDate'
  <2>1. CASE c.op # "get" /\ ServeTalk(c)
    BY <1>1, <2>1 DEF UpToDate, Untold
  <2>2. CASE LiveGet(c) /\ ServeTalk(c)
    <3>1. UNCHANGED remarks /\ talk.loading /\ \A e \in talks' : LiveGet(e) => e = d
      BY <1>1, <2>2 DEF ServeTalk, Changed, IInv, WaitedFor, LiveGet
    <3>2. On(c.on)' = On(c.on)
      BY <3>1 DEF On
    <3>3. \A e \in talks' : LiveGet(e) => e.list = On(e.on)'
      BY <1>1, <2>2, <3>1, <3>2 DEF LiveGet
    <3> QED
      BY <1>0, <3>1, <3>3 DEF UpToDate
  <2>3. CASE c.op = "get" /\ ~c.live /\ ServeTalk(c)
    <3>1. UNCHANGED <<node, talk, remarks, talkLost>>
      BY <1>0, <2>3 DEF ServeTalk, Changed
    <3> QED
      BY <1>0, <1>1, <2>3, <3>1, RestCurrent DEF LiveGet
  <2>4. CASE ~ServeTalk(c) /\ UNCHANGED remarks /\ (~talkLost' => ~talkLost)
    BY <1>0, <1>1, <2>4, RestCurrent DEF LiveGet
  <2>5. CASE ~ServeTalk(c) /\ talkLost'
    BY <2>5 DEF UpToDate
  <2>6. ~ServeTalk(c) /\ UNCHANGED <<remarks, talkLost>>
        => UNCHANGED remarks /\ (~talkLost' => ~talkLost)
    OBVIOUS
  <2>7. ~ServeTalk(c) /\ ~UNCHANGED <<remarks, talkLost>>
        => remarks' = Changed(c) /\ (talkLost' <=> talkLost \/ c.op # "get")
    <3>1. ~ServeTalk(c) /\ ~UNCHANGED <<remarks, talkLost>>
          => remarks' = Changed(c) /\ talkLost' = (talkLost \/ c.op # "get")
      BY DEF FailTalk
    <3>2. talkLost' = (talkLost \/ c.op # "get") => (talkLost' <=> talkLost \/ c.op # "get")
      BY Zenon
    <3> QED
      BY <3>1, <3>2
  <2>8. remarks' = Changed(c) /\ c.op = "get" => UNCHANGED remarks
    BY DEF Changed
  <2> QED
    BY <2>1, <2>2, <2>3, <2>4, <2>5, <2>6, <2>7, <2>8 DEF LiveGet
<1>5. UNCHANGED TalkLookup!lvars
  BY <1>0 DEF TalkLookup!lvars
<1> QED
  BY <1>2, <1>3, <1>4, <1>5 DEF Kept, IInv

LEMMA LoadedKeeps == ASSUME IInv, UpToDate, UNCHANGED around, NEW c \in talks, TalkLoaded(c) PROVE Kept
<1>0. LiveGet(c) /\ c.on = node /\ talk.loading /\ UNCHANGED <<node, remarks, talkLost>>
      /\ CallRecord(c)
  BY DEF TalkLoaded, LiveGet, IInv, WaitedFor, Shape, around
<1>1. talk' = [of |-> c.on, list |-> c.list, loading |-> FALSE, error |-> c.answer = "failed"]
  BY DEF TalkLoaded
<1>2. talks' = talks \ {c} \/ talks' = HidePanel(talks \ {c})
  BY DEF TalkLoaded
<1>3. /\ \A d \in talks' : CallRecord(d) /\ (LiveGet(d) => d \in talks \ {c})
      /\ \A d \in talks : d.op # "get" /\ d.answer = "done" =>
            \E e \in talks' : e.op # "get" /\ e.answer = "done"
  BY <1>0, <1>2, HiddenCalls DEF IInv, Shape, LiveGet
<1>4. \A d \in talks' : ~LiveGet(d)
  BY <1>0, <1>3 DEF IInv, WaitedFor
<1>5. IInv'
  BY <1>0, <1>1, <1>3, <1>4 DEF IInv, Shape, WaitedFor
<1>6. UpToDate'
  <2>1. Untold => Untold'
    BY <1>3 DEF Untold
  <2>2. On(node)' = On(node)
    BY <1>0 DEF On
  <2>3. c.answer # "failed" => c.answer = "done"
    BY <1>0 DEF CallRecord, TalkLoaded
  <2>4. talk'.list = c.list /\ talk'.error = (c.answer = "failed")
    BY <1>1
  <2> QED
    BY <1>0, <1>4, <2>1, <2>2, <2>3, <2>4 DEF UpToDate
<1>7. TalkLookup!Settle
  BY <1>0, <1>1 DEF TalkLookup!Settle
<1> QED
  BY <1>5, <1>6, <1>7 DEF Kept, TalkLookup!Next

LEMMA ScriptSteps == IInv /\ UpToDate /\ Script => Kept
<1> SUFFICES ASSUME IInv, UpToDate, UNCHANGED around, NEW c \in talks,
                    \/ TalkLoaded(c) \/ TalkDropped(c)
                    \/ PostDone(c) \/ EditDone(c) \/ RemoveDone(c)
             PROVE  Kept
  BY DEF Script
<1>0. UNCHANGED node /\ CallRecord(c) /\ node \in NodeIds /\ \A d \in talks \ {c} : CallRecord(d)
  BY DEF around, IInv, Shape
<1>1. CASE TalkLoaded(c)
  BY <1>1, LoadedKeeps
<1>2. CASE TalkDropped(c)
  BY <1>0, <1>2, DropKeeps DEF TalkDropped, Kept
<1>3. CASE PostDone(c) \/ EditDone(c) \/ RemoveDone(c)
  <2>1. c.answer # "none" /\ AfterChange(c) /\ UNCHANGED <<remarks, talkLost>>
    BY <1>3 DEF PostDone, EditDone, RemoveDone
  <2>2. CASE c.answer = "done"
    BY <1>0, <2>1, <2>2, LoadKeeps DEF AfterChange, Kept, TalkLookup!Next
  <2>3. CASE c.answer # "done"
    <3>1. c.answer = "failed" /\ talks' = talks \ {c} /\ UNCHANGED talk
      BY <1>0, <2>1, <2>3 DEF AfterChange, CallRecord
    <3> QED
      BY <1>0, <2>1, <3>1, DropKeeps DEF Kept
  <2> QED
    BY <2>2, <2>3
<1> QED
  BY <1>1, <1>2, <1>3

LEMMA StepKeeps == IInv /\ UpToDate /\ [Next]_vars => Kept
<1> SUFFICES ASSUME IInv, UpToDate, [Next]_vars PROVE Kept
  OBVIOUS
<1>1. CASE UNCHANGED vars
  <2>1. UNCHANGED <<node, talk, remarks, talkLost, talks>>
    BY <1>1 DEF vars, around, tvars
  <2>2. \A c \in talks' : CallRecord(c) /\ c \in talks
    BY <2>1 DEF IInv, Shape
  <2> QED
    BY <2>1, <2>2, RestKeeps, RestCurrent DEF Kept
<1> QED
  BY <1>1, UserSteps, PageSteps, ServerSteps, ScriptSteps DEF Next

\* Every step is one of the panel's or none (useGetComments): the comments of a
\* node that was left are never shown.  That a wait ends is left to the model checker.
THEOREM ImplementsLookup == Spec => TalkLookup!Init /\ [][TalkLookup!Next]_(TalkLookup!lvars)
<1>1. Init => IInv /\ UpToDate /\ TalkLookup!Init
  BY InitIInv
<1>2. IInv /\ UpToDate /\ [Next]_vars => IInv' /\ UpToDate' /\ [TalkLookup!Next]_(TalkLookup!lvars)
  BY StepKeeps DEF Kept
<1> QED
  BY <1>1, <1>2, PTL DEF Spec

\* With nothing under way, no answer lost and no node deleted meanwhile, the list
\* is the server's (features/comments/usecase/index.js).
THEOREM TalkIsCurrentHolds == Spec => []TalkIsCurrent
<1>1. Init => IInv /\ UpToDate
  BY InitIInv
<1>2. IInv /\ UpToDate /\ [Next]_vars => (IInv /\ UpToDate)'
  BY StepKeeps DEF Kept
<1>3. IInv /\ UpToDate => TalkIsCurrent
  BY DEF UpToDate, TalkIsCurrent, Untold, Listed, On
<1> QED
  BY <1>1, <1>2, <1>3, PTL DEF Spec

-----------------------------------------------------------------------------
(***************************************************************************)
(* The types of the panel, of which the lists needed only the shape: what  *)
(* is posted has an id, and there are only so many calls to be numbered.   *)
(***************************************************************************)
TalksTyped(cs) ==
    /\ cs \subseteq TalkCall /\ IsFiniteSet(cs)
    /\ \A c \in cs : c.op = "post" => c.id \in Remarks

Typed == TypeOK /\ TalksTyped(talks)

Askable(op, on, id) ==
    /\ op \in {"get", "post", "edit", "remove"} /\ on \in NodeIds
    /\ id \in Remarks \cup {None} /\ (op = "post" => id \in Remarks)

LEMMA NewTalkTyped ==
    ASSUME NEW cs, TalksTyped(cs), NEW op, NEW on, NEW id, Askable(op, on, id)
    PROVE  TalksTyped(NewTalk(cs, op, on, id))
<1>1. PICK new : new = [op |-> op, on |-> on, id |-> id, live |-> TRUE, answer |-> "none",
                        list |-> {}, n |-> TalkN(cs)]
  OBVIOUS
<1>2. TalkN(cs) \in Nat
  BY SomeNumberIsFree DEF TalkN, TalksTyped
<1>3. new \in TalkCall /\ (new.op = "post" => new.id \in Remarks)
  BY <1>1, <1>2 DEF TalkCall, Askable
<1>4. TalksTyped(cs \cup {new})
  BY <1>3, FS_AddElement DEF TalksTyped
<1>5. NewTalk(cs, op, on, id) = cs \cup {new}
  BY <1>1 DEF NewTalk
<1> QED
  BY <1>4, <1>5

\* Marking the calls of one kind leaves their types.
LEMMA MarkedTyped ==
    ASSUME NEW cs, TalksTyped(cs), NEW op
    PROVE  TalksTyped({IF c.op = op THEN [c EXCEPT !.live = FALSE] ELSE c : c \in cs})
<1> DEFINE f == [c \in cs |-> IF c.op = op THEN [c EXCEPT !.live = FALSE] ELSE c]
           marked == {IF c.op = op THEN [c EXCEPT !.live = FALSE] ELSE c : c \in cs}
<1>1. f = [c \in cs |-> f[c]] /\ marked = {f[c] : c \in cs}
  OBVIOUS
<1>2. ASSUME NEW c \in cs PROVE f[c] \in TalkCall /\ (f[c].op = "post" => f[c].id \in Remarks)
  <2>1. PICK d : d = [c EXCEPT !.live = FALSE]
    OBVIOUS
  <2>2. c \in TalkCall /\ (c.op = "post" => c.id \in Remarks)
    BY DEF TalksTyped
  <2>3. d \in TalkCall /\ d.op = c.op /\ d.id = c.id
    BY <2>1, <2>2 DEF TalkCall
  <2>4. f[c] = c \/ f[c] = d
    BY <2>1
  <2> QED
    BY <2>2, <2>3, <2>4
<1> HIDE DEF f
<1>3. IsFiniteSet(marked)
  BY <1>1, ImageIsFinite DEF TalksTyped
<1> QED
  BY <1>1, <1>2, <1>3 DEF TalksTyped

LEMMA LessTyped == ASSUME NEW cs, TalksTyped(cs), NEW c PROVE TalksTyped(cs \ {c})
BY FS_RemoveElement DEF TalksTyped

LEMMA LoadTyped ==
    ASSUME TypeOK, NEW n \in NodeIds, NEW cs, TalksTyped(cs), LoadTalk(n, cs)
    PROVE  /\ talk' \in [of : NodeIds \cup {None}, list : SUBSET Remark,
                         loading : BOOLEAN, error : BOOLEAN]
           /\ TalksTyped(talks')
<1>1. Askable("get", n, None)
  BY DEF Askable
<1>2. TalksTyped(Superseded(cs))
  BY MarkedTyped DEF Superseded
<1>3. TalksTyped(NewTalk(Superseded(cs), "get", n, None))
  BY <1>1, <1>2, NewTalkTyped
<1> QED
  BY <1>3 DEF LoadTalk, TypeOK

LEMMA TalkOpsBounded == ASSUME ops \in 0 .. MaxOps, Ops PROVE ops' \in 0 .. MaxOps
BY OpsAssumption DEF Ops

LEMMA NoEditorTyped == NoEditor \in [id : Remarks \cup {None}, saving : BOOLEAN]
BY DEF NoEditor

LEMMA InitTyped == Init => Typed
<1> SUFFICES ASSUME Init PROVE Typed
  OBVIOUS
<1>1. TalksTyped({})
  BY FS_EmptySet DEF TalksTyped
<1>2. Askable("get", node, None)
  BY DEF Askable, Init
<1>3. TalksTyped(talks)
  BY <1>1, <1>2, NewTalkTyped DEF Init
<1>4. talk \in [of : NodeIds \cup {None}, list : SUBSET Remark, loading : BOOLEAN, error : BOOLEAN]
  BY DEF Init
<1>5. /\ account \in Accounts /\ node \in NodeIds /\ exists \subseteq NodeIds
      /\ ops \in 0 .. MaxOps /\ remarks \subseteq Remark
      /\ editor \in [id : Remarks \cup {None}, saving : BOOLEAN]
  BY StartsAssumption, OpsAssumption, NoEditorTyped DEF Init
<1>6. showComments \in BOOLEAN /\ posting \in BOOLEAN /\ talkLost \in BOOLEAN
  BY DEF Init
<1> QED
  BY <1>3, <1>4, <1>5, <1>6 DEF Typed, TypeOK, TalksTyped

LEMMA UserTyped == Typed /\ User => Typed'
<1> SUFFICES ASSUME Typed, User PROVE Typed'
  OBVIOUS
<1>1. CASE Ops /\ (Post \/ SaveEdit \/ Remove \/ RetryTalk)
  <2>1. ops' \in 0 .. MaxOps
    BY <1>1, TalkOpsBounded DEF Typed, TypeOK
  <2>2. ASSUME Post PROVE TalksTyped(talks') /\ posting' \in BOOLEAN
    <3>1. PICK id \in Remarks : talks' = NewTalk(talks, "post", node, id)
      BY <2>2 DEF Post
    <3>2. Askable("post", node, id)
      BY DEF Askable, Typed, TypeOK
    <3>3. posting' \in BOOLEAN
      BY <2>2, Zenon DEF Post
    <3> QED
      BY <3>1, <3>2, <3>3, NewTalkTyped DEF Typed
  <2>3. ASSUME SaveEdit
        PROVE  TalksTyped(talks') /\ editor' \in [id : Remarks \cup {None}, saving : BOOLEAN]
    <3>1. Askable("edit", node, editor.id)
      BY DEF Askable, Typed, TypeOK
    <3>2. editor' \in [id : Remarks \cup {None}, saving : BOOLEAN]
      BY <2>3 DEF SaveEdit, Typed, TypeOK
    <3> QED
      BY <2>3, <3>1, <3>2, NewTalkTyped DEF SaveEdit, Typed
  <2>4. ASSUME Remove PROVE TalksTyped(talks')
    <3>1. PICK c \in talk.list : talks' = NewTalk(talks, "remove", node, c.id)
      BY <2>4 DEF Remove
    <3>2. Askable("remove", node, c.id)
      BY DEF Askable, Typed, TypeOK, Remark
    <3> QED
      BY <3>1, <3>2, NewTalkTyped DEF Typed
  <2>5. CASE Post
    BY <1>1, <2>1, <2>2, <2>5 DEF User, Post, Typed, TypeOK, TalksTyped
  <2>6. CASE SaveEdit
    BY <1>1, <2>1, <2>3, <2>6 DEF User, SaveEdit, Typed, TypeOK, TalksTyped
  <2>7. CASE Remove
    BY <1>1, <2>1, <2>4, <2>7 DEF User, Remove, Typed, TypeOK, TalksTyped
  <2>8. CASE RetryTalk
    <3>1. /\ talk' \in [of : NodeIds \cup {None}, list : SUBSET Remark,
                        loading : BOOLEAN, error : BOOLEAN]
          /\ TalksTyped(talks')
      BY <2>8, LoadTyped DEF RetryTalk, Typed, TypeOK
    <3> QED
      BY <1>1, <2>1, <2>8, <3>1 DEF User, RetryTalk, Typed, TypeOK, TalksTyped
  <2> QED
    BY <1>1, <2>5, <2>6, <2>7, <2>8
<1>2. CASE (StartEdit \/ CancelEdit) /\ UNCHANGED ops
  <2>1. editor' \in [id : Remarks \cup {None}, saving : BOOLEAN]
    BY <1>2 DEF StartEdit, CancelEdit, Typed, TypeOK, Remark
  <2> QED
    BY <1>2, <2>1 DEF User, StartEdit, CancelEdit, Typed, TypeOK, TalksTyped
<1> QED
  BY <1>1, <1>2 DEF User

LEMMA PageTyped == Typed /\ (Page \/ \E n \in NodeIds : DeleteNode(n)) => Typed'
<1> SUFFICES ASSUME Typed, Page \/ \E n \in NodeIds : DeleteNode(n) PROVE Typed'
  OBVIOUS
<1>1. TalksTyped(HidePanel(talks))
  BY MarkedTyped DEF HidePanel, Typed
<1>2. ASSUME NEW n \in NodeIds, Move(n) PROVE Typed'
  <2>1. /\ talk' \in [of : NodeIds \cup {None}, list : SUBSET Remark,
                      loading : BOOLEAN, error : BOOLEAN]
        /\ TalksTyped(talks')
    BY <1>1, <1>2, LoadTyped DEF Move, Typed
  <2>2. ops' \in 0 .. MaxOps /\ showComments' \in BOOLEAN
    BY <1>2, TalkOpsBounded DEF Move, Typed, TypeOK
  <2>3. node' \in NodeIds /\ editor' \in [id : Remarks \cup {None}, saving : BOOLEAN]
    BY <1>2, NoEditorTyped DEF Move
  <2> QED
    BY <1>2, <2>1, <2>2, <2>3 DEF Move, Typed, TypeOK, TalksTyped
<1>3. ASSUME Hide PROVE Typed'
  <2>1. ops' \in 0 .. MaxOps /\ showComments' \in BOOLEAN
    BY <1>3, TalkOpsBounded DEF Hide, Typed, TypeOK
  <2>2. TalksTyped(talks') /\ editor' \in [id : Remarks \cup {None}, saving : BOOLEAN]
    BY <1>1, <1>3, NoEditorTyped DEF Hide
  <2> QED
    BY <1>3, <2>1, <2>2 DEF Hide, Typed, TypeOK, TalksTyped
<1>4. ASSUME Show PROVE Typed'
  <2>1. showComments' \in BOOLEAN
    BY <1>4, Zenon DEF Show
  <2> QED
    BY <1>4, <2>1 DEF Show, tvars, Typed, TypeOK, TalksTyped
<1>5. ASSUME NEW n \in NodeIds, DeleteNode(n) PROVE Typed'
  <2>1. ops' \in 0 .. MaxOps
    BY <1>5, TalkOpsBounded DEF DeleteNode, Typed, TypeOK
  <2>2. exists' \subseteq NodeIds /\ remarks' \subseteq Remark
    BY <1>5 DEF DeleteNode, Typed, TypeOK
  <2>3. talkLost' \in BOOLEAN
    BY <1>5, Zenon DEF DeleteNode
  <2> QED
    BY <1>5, <2>1, <2>2, <2>3 DEF DeleteNode, Typed, TypeOK, TalksTyped
<1> QED
  BY <1>2, <1>3, <1>4, <1>5 DEF Page

LEMMA ServerTyped == Typed /\ Server => Typed'
<1> SUFFICES ASSUME Typed, UNCHANGED around, NEW c \in talks, ServeTalk(c) \/ FailTalk(c)
             PROVE  Typed'
  BY DEF Server
<1>1. c \in TalkCall /\ (c.op = "post" => c.id \in Remarks) /\ remarks \subseteq Remark
  BY DEF Typed, TypeOK, TalksTyped
<1>2. Changed(c) \subseteq Remark
  <2>1. ASSUME c.op = "post" PROVE Changed(c) \subseteq Remark
    <3>1. [id |-> c.id, on |-> c.on, by |-> Me, edited |-> FALSE] \in Remark
      BY <1>1, <2>1, NamesAssumption DEF TalkCall, Remark
    <3> QED
      BY <1>1, <2>1, <3>1 DEF Changed
  <2>2. ASSUME c.op = "edit" PROVE Changed(c) \subseteq Remark
    <3>1. ASSUME NEW r \in remarks PROVE [r EXCEPT !.edited = TRUE] \in Remark
      <4>1. PICK d : d = [r EXCEPT !.edited = TRUE]
        OBVIOUS
      <4>2. d \in Remark
        BY <1>1, <4>1 DEF Remark
      <4> QED
        BY <4>1, <4>2
    <3>2. Changed(c) = {IF r.id = c.id THEN [r EXCEPT !.edited = TRUE] ELSE r : r \in remarks}
      BY <2>2 DEF Changed
    <3> QED
      BY <1>1, <3>1, <3>2
  <2>3. CASE c.op \in {"remove", "get"}
    BY <1>1, <2>3 DEF Changed
  <2> QED
    BY <1>1, <2>1, <2>2, <2>3 DEF TalkCall
<1>3. ASSUME NEW answer \in {"done", "failed"}, Served(c, answer) PROVE TalksTyped(talks')
  <2>1. PICK answers : answers = IF c.op = "get" /\ answer = "done"
                                 THEN {r \in remarks : r.on = c.on} ELSE {}
    OBVIOUS
  <2>2. answers \in SUBSET Remark
    BY <1>1, <2>1
  <2>3. PICK d : d = [c EXCEPT !.answer = answer, !.list = answers]
    OBVIOUS
  <2>4. d \in TalkCall /\ d.op = c.op /\ d.id = c.id
    BY <1>1, <2>2, <2>3 DEF TalkCall
  <2>5. talks' = (talks \ {c}) \cup {d}
    BY <1>3, <2>1, <2>3 DEF Served
  <2>6. TalksTyped(talks \ {c})
    BY LessTyped DEF Typed
  <2> QED
    BY <1>1, <2>4, <2>5, <2>6, FS_AddElement DEF TalksTyped
<1>4. TalksTyped(talks')
  BY <1>3 DEF ServeTalk, FailTalk
<1>5. remarks' \subseteq Remark
  BY <1>1, <1>2 DEF ServeTalk, FailTalk
<1>6. talkLost' \in BOOLEAN
  BY DEF ServeTalk, FailTalk, Typed, TypeOK
<1>7. UNCHANGED <<talk, editor, posting>>
  BY DEF ServeTalk, FailTalk
<1> QED
  BY <1>4, <1>5, <1>6, <1>7 DEF around, Typed, TypeOK, TalksTyped

LEMMA ScriptTyped == Typed /\ Script => Typed'
<1> SUFFICES ASSUME Typed, UNCHANGED around, NEW c \in talks,
                    \/ TalkLoaded(c) \/ TalkDropped(c)
                    \/ PostDone(c) \/ EditDone(c) \/ RemoveDone(c)
             PROVE  Typed'
  BY DEF Script
<1>1. c \in TalkCall /\ TalksTyped(talks \ {c})
  BY LessTyped DEF Typed, TypeOK
<1>2. /\ talk' \in [of : NodeIds \cup {None}, list : SUBSET Remark,
                    loading : BOOLEAN, error : BOOLEAN]
      /\ TalksTyped(talks')
  <2>1. CASE TalkLoaded(c)
    <3>1. (c.answer = "failed") \in BOOLEAN
      OBVIOUS
    <3>2. talk' \in [of : NodeIds \cup {None}, list : SUBSET Remark,
                     loading : BOOLEAN, error : BOOLEAN]
      BY <1>1, <2>1, <3>1 DEF TalkLoaded, TalkCall
    <3>3. TalksTyped(HidePanel(talks \ {c}))
      BY <1>1, MarkedTyped DEF HidePanel
    <3> QED
      BY <1>1, <2>1, <3>2, <3>3 DEF TalkLoaded
  <2>2. CASE TalkDropped(c)
    BY <1>1, <2>2 DEF TalkDropped, Typed, TypeOK
  <2>3. CASE PostDone(c) \/ EditDone(c) \/ RemoveDone(c)
    <3>1. AfterChange(c)
      BY <2>3 DEF PostDone, EditDone, RemoveDone
    <3> QED
      BY <1>1, <3>1, LoadTyped DEF AfterChange, Typed, TypeOK
  <2> QED
    BY <2>1, <2>2, <2>3
<1>3. editor' \in [id : Remarks \cup {None}, saving : BOOLEAN]
  BY NoEditorTyped
  DEF TalkLoaded, TalkDropped, PostDone, EditDone, RemoveDone, Typed, TypeOK
<1>4. posting' \in BOOLEAN
  <2>1. CASE PostDone(c)
    BY <2>1, Zenon DEF PostDone
  <2>2. CASE ~PostDone(c)
    BY <2>2 DEF TalkLoaded, TalkDropped, EditDone, RemoveDone, Typed, TypeOK
  <2> QED
    BY <2>1, <2>2
<1>5. UNCHANGED <<remarks, talkLost>>
  BY DEF TalkLoaded, TalkDropped, PostDone, EditDone, RemoveDone
<1> QED
  BY <1>2, <1>3, <1>4, <1>5 DEF around, Typed, TypeOK, TalksTyped

\* Every variable of the comments and of their server keeps its type
\* (features/comments), for any comments, accounts and number of steps.
THEOREM TypeCorrect == Spec => []TypeOK
<1>1. Init => Typed
  BY InitTyped
<1>2. Typed /\ [Next]_vars => Typed'
  <2>1. Typed /\ UNCHANGED vars => Typed'
    BY DEF vars, around, tvars, Typed, TypeOK
  <2> QED
    BY <2>1, UserTyped, PageTyped, ServerTyped, ScriptTyped DEF Next
<1>3. Typed => TypeOK
  BY DEF Typed
<1> QED
  BY <1>1, <1>2, <1>3, PTL DEF Spec

-----------------------------------------------------------------------------
(***************************************************************************)
(* The search dialog.                                                      *)
(***************************************************************************)
USE DEF Kinds

\* An answer that would be taken, and a search that is about to start, are of the
\* inputs as they stand, in a dialog that is open.
CallsMatchInputs ==
    /\ \A c \in calls : c.live =>
          open /\ Searchable(inputs) /\ \E p \in 1 .. MaxPages : c.req = Wanted(inputs, p)
    /\ timer # NoRequest => open /\ Searchable(inputs) /\ timer = Wanted(inputs, 1)

FinderInv == FinderTypeOK /\ IsFiniteSet(calls) /\ CallsMatchInputs /\ ShownMatchesInputs

-----------------------------------------------------------------------------
\* A new call of a pager has a number.
LEMMA PagerNumber == ASSUME IsFiniteSet(calls) PROVE N \in Nat
BY SomeNumberIsFree DEF N

LEMMA OutdatedIsFinite ==
    ASSUME NEW cs, IsFiniteSet(cs)
    PROVE  IsFiniteSet(Outdated(cs, Kinds))
<1> DEFINE f == [c \in cs |-> IF c.req.kind \in Kinds THEN [c EXCEPT !.live = FALSE] ELSE c]
<1>1. f = [c \in cs |-> f[c]] /\ Outdated(cs, Kinds) = {f[c] : c \in cs}
  BY DEF Outdated
<1> HIDE DEF f
<1> QED
  BY <1>1, ImageIsFinite

LEMMA WantedIsRequest ==
    ASSUME NEW in \in Inputs, Searchable(in), NEW page \in 1 .. MaxPages, globalOnly \in BOOLEAN
    PROVE  Wanted(in, page) \in Request /\ Wanted(in, page).page = page
                                       /\ Wanted(in, page).kind = in.kind
BY TermsAssumption DEF Inputs, Searchable, Wanted, Scope, Request

LEMMA SameInputs ==
    ASSUME UNCHANGED <<globalOnly, inputs>>
    PROVE  /\ Searchable(inputs)' <=> Searchable(inputs)
           /\ \A p : Wanted(inputs, p)' = Wanted(inputs, p)
BY DEF Searchable, Wanted, Scope

\* Clearing the results leaves no answer to take and nothing on display.
LEMMA ClearedIsEmpty ==
    ASSUME FinderTypeOK, IsFiniteSet(calls), clearResults
    PROVE  /\ pagers' \in [Kinds -> Pager] /\ calls' \subseteq Call /\ IsFiniteSet(calls')
           /\ \A c \in calls' : ~c.live
           /\ \A k \in Kinds : pagers'[k].of = NoRequest
<1>1. pagers' \in [Kinds -> Pager] /\ \A k \in Kinds : pagers'[k].of = NoRequest
  BY BoundsAssumption DEF clearResults, NewPager, Pager
<1>2. calls' \subseteq Call /\ \A c \in calls' : ~c.live
  BY DEF FinderTypeOK, clearResults, Outdated, Call, Request
<1>3. IsFiniteSet(calls')
  BY OutdatedIsFinite DEF clearResults
<1> QED
  BY <1>1, <1>2, <1>3

\* A search for the inputs as they stand keeps the invariant.
LEMMA SearchKeeps ==
    ASSUME FinderInv, NEW p \in 1 .. MaxPages, open, Searchable(inputs),
           performSearch(Wanted(inputs, p)), timer' \in {timer, NoRequest},
           steps' \in 0 .. MaxSteps, UNCHANGED <<globalOnly, open, inputs>>
    PROVE  FinderInv'
<1> DEFINE req == Wanted(inputs, p)
           new == [req |-> req, live |-> TRUE, answer |-> "none", pages |-> 0, n |-> N]
<1>1. req \in Request /\ req.kind = inputs.kind /\ N \in Nat
  BY WantedIsRequest, PagerNumber DEF FinderInv, FinderTypeOK
<1>2. new \in Call
  BY <1>1, BoundsAssumption DEF Call
<1>3. calls' = Outdated(calls, Kinds) \cup {new}
  BY DEF performSearch
<1>4. /\ Outdated(calls, Kinds) \subseteq Call
      /\ \A c \in Outdated(calls, Kinds) : ~c.live
      /\ IsFiniteSet(Outdated(calls, Kinds))
  <2>1. Outdated(calls, Kinds) \subseteq Call /\ \A c \in Outdated(calls, Kinds) : ~c.live
    BY DEF FinderInv, FinderTypeOK, Outdated, Call, Request
  <2>2. IsFiniteSet(Outdated(calls, Kinds))
    BY OutdatedIsFinite DEF FinderInv
  <2> QED
    BY <2>1, <2>2
<1>5. calls' \subseteq Call /\ IsFiniteSet(calls')
  BY <1>2, <1>3, <1>4, FS_AddElement
<1>6. pagers' \in [Kinds -> Pager]
  <2>1. NewPager \in Pager
    BY BoundsAssumption DEF NewPager, Pager
  <2>2. ASSUME NEW k \in Kinds
        PROVE  [pagers[k] EXCEPT !.loading = TRUE, !.error = FALSE, !.searched = TRUE,
                                 !.of = IF pagers[k].error THEN NoRequest ELSE @] \in Pager
    <3>1. pagers[k] \in Pager
      BY DEF FinderInv, FinderTypeOK
    <3> QED
      BY <3>1 DEF Pager
  <2> QED
    BY <2>1, <2>2 DEF performSearch
<1>7. FinderTypeOK'
  BY <1>5, <1>6 DEF FinderInv, FinderTypeOK
<1>8. CallsMatchInputs'
  <2> HIDE DEF new
  <2>1. new.req = req
    BY DEF new
  <2> QED
    BY <1>3, <1>4, <2>1, SameInputs DEF FinderInv, CallsMatchInputs
<1>9. ShownMatchesInputs'
  <2> SUFFICES ASSUME NEW k \in Kinds, pagers'[k].of # NoRequest
               PROVE  /\ open /\ Searchable(inputs)
                      /\ \E q \in 1 .. MaxPages : pagers'[k].of = Wanted(inputs, q)
                      /\ ~pagers'[k].error => pagers'[k].page = pagers'[k].of.page
    BY SameInputs DEF ShownMatchesInputs
  <2>1. pagers[k] \in Pager
    BY DEF FinderInv, FinderTypeOK
  <2>2. k = req.kind /\ ~pagers[k].error /\ pagers'[k].of = pagers[k].of /\ pagers'[k].page = pagers[k].page
    BY <2>1, BoundsAssumption DEF performSearch, NewPager, Pager
  <2> QED
    BY <2>2 DEF FinderInv, ShownMatchesInputs
<1> QED
  BY <1>5, <1>7, <1>8, <1>9 DEF FinderInv

-----------------------------------------------------------------------------
LEMMA FinderInitInv == FinderInit => FinderInv
<1> SUFFICES ASSUME FinderInit PROVE FinderInv
  OBVIOUS
<1>1. FinderTypeOK
  <2>1. NewPager \in Pager
    BY BoundsAssumption DEF NewPager, Pager
  <2>2. inputs \in Inputs
    BY TermsAssumption DEF FinderInit, Inputs
  <2>3. pagers \in [Kinds -> Pager]
    BY <2>1 DEF FinderInit
  <2>4. calls \subseteq Call /\ steps \in 0 .. MaxSteps
    BY BoundsAssumption DEF FinderInit
  <2> QED
    BY <2>2, <2>3, <2>4 DEF FinderInit, FinderTypeOK
<1>2. IsFiniteSet(calls)
  BY FS_EmptySet DEF FinderInit
<1>3. CallsMatchInputs /\ ShownMatchesInputs
  BY DEF FinderInit, CallsMatchInputs, ShownMatchesInputs, NewPager
<1> QED
  BY <1>1, <1>2, <1>3 DEF FinderInv

LEMMA OpsBounded == ASSUME steps \in 0 .. MaxSteps, Steps PROVE steps' \in 0 .. MaxSteps
  BY BoundsAssumption DEF Steps

LEMMA OpenKeeps == FinderInv /\ Open => FinderInv'
<1> SUFFICES ASSUME FinderInv, Open PROVE FinderInv'
  OBVIOUS
<1>1. clearResults /\ steps' \in 0 .. MaxSteps
  BY OpsBounded DEF Open, Settle, FinderInv, FinderTypeOK
<1>2. timer' # NoRequest => Searchable(inputs') /\ timer' = Wanted(inputs, 1) /\ Wanted(inputs, 1) = Wanted(inputs, 1)'
  BY DEF Open, Settle, Searchable, Wanted, Scope
<1>3. timer' \in Request \cup {NoRequest}
  BY WantedIsRequest, BoundsAssumption DEF Open, Settle, FinderInv, FinderTypeOK
<1> QED
  BY <1>1, <1>2, <1>3, ClearedIsEmpty DEF FinderInv, FinderTypeOK, Open, CallsMatchInputs, ShownMatchesInputs, Searchable

LEMMA CloseKeeps == FinderInv /\ Close => FinderInv'
<1> SUFFICES ASSUME FinderInv, Close PROVE FinderInv'
  OBVIOUS
<1>1. clearResults /\ steps' \in 0 .. MaxSteps
  BY OpsBounded DEF Close, FinderInv, FinderTypeOK
<1>2. inputs' \in Inputs
  BY DEF Close, FinderInv, FinderTypeOK, Inputs
<1> QED
  BY <1>1, <1>2, ClearedIsEmpty DEF FinderInv, FinderTypeOK, Close, CallsMatchInputs, ShownMatchesInputs

LEMMA ChangeKeeps == ASSUME FinderInv, NEW in \in Inputs, Change(in) PROVE FinderInv'
<1>1. clearResults /\ steps' \in 0 .. MaxSteps
  BY OpsBounded DEF Change, Settle, FinderInv, FinderTypeOK
<1>2. timer' # NoRequest => Searchable(inputs') /\ timer' = Wanted(in, 1) /\ Wanted(in, 1) = Wanted(inputs, 1)'
  BY DEF Change, Settle, Searchable, Wanted, Scope
<1>3. timer' \in Request \cup {NoRequest}
  BY WantedIsRequest, BoundsAssumption DEF Change, Settle, FinderInv, FinderTypeOK
<1> QED
  BY <1>1, <1>2, <1>3, ClearedIsEmpty DEF FinderInv, FinderTypeOK, Change, CallsMatchInputs, ShownMatchesInputs, Searchable

LEMMA TurnKeeps == ASSUME FinderInv, NEW page \in 1 .. MaxPages, Turn(page) PROVE FinderInv'
<1>1. steps' \in 0 .. MaxSteps
  BY OpsBounded DEF Turn, FinderInv, FinderTypeOK
<1>2. CASE Searchable(inputs)
  BY <1>1, <1>2, SearchKeeps DEF Turn
<1>3. CASE ~Searchable(inputs)
  BY <1>1, <1>3, SameInputs DEF Turn, FinderInv, FinderTypeOK, CallsMatchInputs, ShownMatchesInputs
<1> QED
  BY <1>2, <1>3

LEMMA ElapseKeeps == FinderInv /\ Elapse => FinderInv'
BY SearchKeeps, BoundsAssumption DEF Elapse, FinderInv, CallsMatchInputs, FinderTypeOK

LEMMA ServeKeeps == ASSUME FinderInv, NEW c \in calls, Serve(c) PROVE FinderInv'
<1>1. c \in Call
  BY DEF FinderInv, FinderTypeOK
<1>2. PICK d \in Call : calls' = (calls \ {c}) \cup {d} /\ d.live = c.live /\ d.req = c.req
  <2>1. CASE \E p \in 0 .. MaxPages :
                calls' = (calls \ {c}) \cup {[c EXCEPT !.answer = "done", !.pages = p]}
    <3>1. PICK p \in 0 .. MaxPages :
              calls' = (calls \ {c}) \cup {[c EXCEPT !.answer = "done", !.pages = p]}
      BY <2>1
    <3> DEFINE d == [c EXCEPT !.answer = "done", !.pages = p]
    <3>2. d \in Call /\ d.live = c.live /\ d.req = c.req
      BY <1>1 DEF Call
    <3> QED
      BY <3>1, <3>2
  <2>2. CASE calls' = (calls \ {c}) \cup {[c EXCEPT !.answer = "failed"]}
    <3> DEFINE d == [c EXCEPT !.answer = "failed"]
    <3>1. d \in Call /\ d.live = c.live /\ d.req = c.req
      BY <1>1 DEF Call
    <3> QED
      BY <2>2, <3>1
  <2> QED
    BY <2>1, <2>2 DEF Serve
<1>3. IsFiniteSet(calls')
  BY <1>2, FS_RemoveElement, FS_AddElement DEF FinderInv
<1>4. FinderTypeOK'
  BY <1>2 DEF FinderInv, FinderTypeOK, Serve
<1>5. CallsMatchInputs'
  <2>1. d.live => open /\ Searchable(inputs) /\ \E p \in 1 .. MaxPages : d.req = Wanted(inputs, p)
    BY <1>2 DEF FinderInv, CallsMatchInputs
  <2>2. UNCHANGED <<globalOnly, open, inputs, timer>>
    BY DEF Serve
  <2> QED
    BY <1>2, <2>1, <2>2, SameInputs DEF FinderInv, CallsMatchInputs
<1>6. ShownMatchesInputs'
  BY SameInputs DEF FinderInv, ShownMatchesInputs, Serve
<1> QED
  BY <1>3, <1>4, <1>5, <1>6 DEF FinderInv

LEMMA TakeKeeps == ASSUME FinderInv, NEW c \in calls, Take(c) PROVE FinderInv'
<1>1. c \in Call /\ pagers \in [Kinds -> Pager] /\ c.req.kind \in Kinds /\ c.req.page \in 1 .. MaxPages
  BY DEF FinderInv, FinderTypeOK, Call, Request
<1>2. IsFiniteSet(calls')
  BY FS_RemoveElement DEF FinderInv, Take
<1>3. PICK p \in Pager :
          /\ pagers' = IF c.live THEN [pagers EXCEPT ![c.req.kind] = p] ELSE pagers
          /\ p.of = c.req /\ (~p.error => p.page = c.req.page)
  <2> DEFINE settled == [pagers[c.req.kind] EXCEPT !.of = c.req, !.loading = FALSE]
             failed == [settled EXCEPT !.error = TRUE]
             done == [settled EXCEPT !.page = c.req.page, !.pages = c.pages]
  <2>1. pagers[c.req.kind] \in Pager
    BY <1>1
  <2>2. settled \in Pager /\ settled.of = c.req
    BY <1>1, <2>1 DEF Pager, Call
  <2>3. failed \in Pager /\ failed.of = c.req /\ failed.error
    BY <2>2 DEF Pager
  <2>4. done \in Pager /\ done.of = c.req /\ done.page = c.req.page
    BY <1>1, <2>2 DEF Pager, Call
  <2>5. pagers' = IF ~c.live THEN pagers
                  ELSE [pagers EXCEPT ![c.req.kind] = IF c.answer = "failed" THEN failed ELSE done]
    BY DEF Take
  <2> HIDE DEF settled, failed, done
  <2>6. CASE c.answer = "failed"
    BY <2>3, <2>5, <2>6
  <2>7. CASE c.answer # "failed"
    BY <2>4, <2>5, <2>7
  <2> QED
    BY <2>6, <2>7
<1>4. CallsMatchInputs'
  BY SameInputs DEF FinderInv, CallsMatchInputs, Take
<1>5. ShownMatchesInputs'
  <2> SUFFICES ASSUME NEW k \in Kinds, pagers'[k].of # NoRequest
               PROVE  /\ open /\ Searchable(inputs)
                      /\ \E q \in 1 .. MaxPages : pagers'[k].of = Wanted(inputs, q)
                      /\ ~pagers'[k].error => pagers'[k].page = pagers'[k].of.page
    BY SameInputs DEF ShownMatchesInputs, Take
  <2>1. CASE c.live /\ k = c.req.kind
    <3>1. /\ pagers'[k].of = c.req
          /\ ~pagers'[k].error => pagers'[k].page = c.req.page
      BY <1>1, <1>3, <2>1
    <3> QED
      BY <2>1, <3>1 DEF FinderInv, CallsMatchInputs
  <2>2. CASE ~(c.live /\ k = c.req.kind)
    BY <1>1, <1>3, <2>2 DEF FinderInv, ShownMatchesInputs
  <2> QED
    BY <2>1, <2>2
<1> QED
  BY <1>1, <1>2, <1>3, <1>4, <1>5 DEF FinderInv, FinderTypeOK, Take

LEMMA FinderStepKeeps == FinderInv /\ [FinderNext]_finderVars => FinderInv'
<1> SUFFICES ASSUME FinderInv, [FinderNext]_finderVars PROVE FinderInv'
  OBVIOUS
<1>1. CASE FinderUser
  BY <1>1, OpenKeeps, CloseKeeps, ChangeKeeps, TurnKeeps DEF FinderUser
<1>2. CASE FinderServer
  BY <1>2, ServeKeeps DEF FinderServer
<1>3. CASE FinderScript
  BY <1>3, ElapseKeeps, TakeKeeps DEF FinderScript
<1>4. CASE UNCHANGED finderVars
  BY <1>4, SameInputs DEF finderVars, FinderInv, FinderTypeOK, CallsMatchInputs, ShownMatchesInputs
<1> QED
  BY <1>1, <1>2, <1>3, <1>4 DEF FinderNext

\* The invariant the theorem below rests on (NodeSearch.jsx and its two pagers):
\* no call or timer of inputs that have changed can still put anything on display.
THEOREM FinderInvHolds == FinderSpec => []FinderInv
<1>1. FinderInit => FinderInv
  BY FinderInitInv
<1>2. FinderInv /\ [FinderNext]_finderVars => FinderInv'
  BY FinderStepKeeps
<1> QED
  BY <1>1, <1>2, PTL DEF FinderSpec

\* Results and errors on display are those of the query, scope, kind and filters
\* as they stand, whatever overtakes what.
THEOREM ShownMatchesInputsHolds == FinderSpec => []ShownMatchesInputs
<1>1. FinderInv => ShownMatchesInputs
  BY DEF FinderInv
<1> QED
  BY <1>1, FinderInvHolds, PTL
=============================================================================
