--------------------------- MODULE DirectoryProofs ---------------------------
(***************************************************************************)
(* The lists of groups and of users show what was asked for last: for any  *)
(* number of rows and any page size, terms and number of steps, whatever   *)
(* the server makes of the calls.                                          *)
(***************************************************************************)
EXTENDS Directory, FiniteSetTheorems, TLAPS

\* The answer that would be taken is the one the list waits for, and there is only one.
WaitedFor ==
    /\ \A c \in calls : c.op = "list" /\ c.live => list.loading /\ c.req = list.asked
    /\ \A c, d \in calls : c.op = "list" /\ c.live /\ d.op = "list" /\ d.live => c = d

\* What of the types the refinement needs.
ListOK ==
    /\ list \in [page : Pages, term : Terms, rows : {list.rows}, total : {list.total},
                 loading : BOOLEAN, error : BOOLEAN, asked : Request, of : {list.of}]
    /\ \A c \in calls :
          /\ c = [op |-> c.op, req |-> c.req, id |-> c.id, live |-> c.live, closes |-> c.closes,
                  answer |-> c.answer, rows |-> c.rows, total |-> c.total, n |-> c.n]
          /\ c.req \in Request /\ c.answer \in {"none", "done", "failed"}

IInv == ListOK /\ WaitedFor

LEMMA SentCalls ==
    ASSUME NEW cs, NEW op, NEW req, NEW id, NEW closes
    PROVE  \E new : /\ Sent(cs, op, req, id, closes) = cs \cup {new}
                    /\ new = [op |-> op, req |-> req, id |-> id, live |-> TRUE, closes |-> closes,
                              answer |-> "none", rows |-> {}, total |-> 0, n |-> N(cs)]
BY DEF Sent

LEMMA FirstIsRequest == First \in Request /\ 1 \in Pages
BY TermsAssumption, BoundsAssumption DEF First, Request, Pages

LEMMA InitIInv == Init => IInv /\ Rows!Init
<1> SUFFICES ASSUME Init PROVE IInv /\ Rows!Init
  OBVIOUS
<1>1. list.asked = First /\ list.loading
  BY DEF Init
<1>2. PICK new : /\ calls = {new}
                 /\ new = [op |-> "list", req |-> First, id |-> None, live |-> TRUE, closes |-> FALSE,
                           answer |-> "none", rows |-> {}, total |-> 0, n |-> N({})]
  <2>1. calls = Sent({}, "list", First, None, FALSE)
    BY DEF Init
  <2> QED
    BY <2>1 DEF Sent
<1>3. ListOK
  <2>1. list \in [page : Pages, term : Terms, rows : {list.rows}, total : {list.total},
                  loading : BOOLEAN, error : BOOLEAN, asked : Request, of : {list.of}]
    BY TermsAssumption, FirstIsRequest DEF Init
  <2> QED
    BY <1>2, <2>1, FirstIsRequest DEF ListOK
<1>5. WaitedFor
  BY <1>1, <1>2 DEF WaitedFor
<1>4. Rows!Init
  BY <1>1, FirstIsRequest DEF Rows!Init, Shown, Init
<1> QED
  BY <1>3, <1>4, <1>5 DEF IInv

-----------------------------------------------------------------------------
\* A request makes every other answer one that is dropped, and is an Ask.
LEMMA FetchAsks ==
    ASSUME IInv, NEW page \in Pages, NEW term \in Terms, NEW cs \in SUBSET calls, NEW closes,
           Fetch(page, term, cs, closes)
    PROVE  IInv' /\ Rows!Ask
<1> DEFINE req == [term |-> term, page |-> page]
<1>1. req \in Request
  BY DEF Request
<1>2. PICK new : /\ calls' = Outdated(cs) \cup {new}
                 /\ new = [op |-> "list", req |-> req, id |-> None, live |-> TRUE, closes |-> closes,
                           answer |-> "none", rows |-> {}, total |-> 0, n |-> N(Outdated(cs))]
  BY SentCalls DEF Fetch
<1>3. \A c \in Outdated(cs) :
         /\ ~(c.op = "list" /\ c.live)
         /\ c = [op |-> c.op, req |-> c.req, id |-> c.id, live |-> c.live, closes |-> c.closes,
                 answer |-> c.answer, rows |-> c.rows, total |-> c.total, n |-> c.n]
         /\ c.req \in Request /\ c.answer \in {"none", "done", "failed"}
  BY DEF Outdated, IInv, ListOK
<1>4. /\ list'.asked = req /\ list'.loading
      /\ list' \in [page : Pages, term : Terms, rows : {list'.rows}, total : {list'.total},
                    loading : BOOLEAN, error : BOOLEAN, asked : Request, of : {list'.of}]
  BY <1>1 DEF Fetch, IInv, ListOK
<1>5. ListOK'
  BY <1>1, <1>2, <1>3, <1>4 DEF ListOK
<1>6. WaitedFor'
  <2>1. \A c \in calls' : c.op = "list" /\ c.live => c = new
    BY <1>2, <1>3
  <2>2. new.req = req
    BY <1>2
  <2> QED
    BY <1>4, <2>1, <2>2 DEF WaitedFor
<1>7. Rows!Ask
  BY <1>1, <1>4 DEF Rows!Ask, Shown
<1> QED
  BY <1>5, <1>6, <1>7 DEF IInv

CallRecord(c) ==
    /\ c = [op |-> c.op, req |-> c.req, id |-> c.id, live |-> c.live, closes |-> c.closes,
            answer |-> c.answer, rows |-> c.rows, total |-> c.total, n |-> c.n]
    /\ c.req \in Request /\ c.answer \in {"none", "done", "failed"}

\* A step that leaves the list alone and only drops calls is none of the panel's.
LEMMA DropStutters ==
    ASSUME IInv, UNCHANGED list, calls' \subseteq calls
    PROVE  IInv' /\ UNCHANGED Rows!lvars
<1>1. ListOK' /\ WaitedFor'
  BY DEF IInv, ListOK, WaitedFor
<1> QED
  BY <1>1 DEF IInv, Rows!lvars, Shown

\* Nor is one that puts a call in the place of another like it, or adds one that is
\* no request of rows.
LEMMA RestStutters ==
    ASSUME IInv, UNCHANGED list, NEW c, NEW d, calls' = (calls \ {c}) \cup {d}, CallRecord(d),
           d.op = "list" /\ d.live =>
               c \in calls /\ c.op = "list" /\ c.live /\ d.req = c.req
    PROVE  IInv' /\ UNCHANGED Rows!lvars
<1>1. ListOK'
  BY DEF IInv, ListOK, CallRecord
<1>2. WaitedFor'
  BY DEF IInv, WaitedFor
<1> QED
  BY <1>1, <1>2 DEF IInv, Rows!lvars, Shown

LEMMA SendStutters ==
    ASSUME IInv, UNCHANGED list, NEW op, op # "list", NEW id, NEW closes,
           calls' = Sent(calls, op, First, id, closes)
    PROVE  IInv' /\ UNCHANGED Rows!lvars
<1>1. PICK new : /\ calls' = calls \cup {new}
                 /\ new = [op |-> op, req |-> First, id |-> id, live |-> TRUE, closes |-> closes,
                           answer |-> "none", rows |-> {}, total |-> 0, n |-> N(calls)]
  BY SentCalls
<1>2. CallRecord(new) /\ new.op # "list"
  BY <1>1, FirstIsRequest DEF CallRecord
<1>3. calls' = (calls \ {new}) \cup {new}
  BY <1>1
<1> QED
  BY <1>2, <1>3, RestStutters

-----------------------------------------------------------------------------
LEMMA UserSteps == IInv /\ User => IInv' /\ [Rows!Next]_(Rows!lvars)
<1> SUFFICES ASSUME IInv, User PROVE IInv' /\ [Rows!Next]_(Rows!lvars)
  OBVIOUS
<1>0. list.page \in Pages /\ list.term \in Terms
  BY DEF IInv, ListOK
<1>1. ASSUME NEW t \in Terms, Search(t) PROVE IInv' /\ Rows!Next
  BY <1>1, FirstIsRequest, FetchAsks DEF Search, Rows!Next
<1>2. ASSUME NEW p \in Pages, Turn(p) PROVE IInv' /\ Rows!Next
  BY <1>0, <1>2, FetchAsks DEF Turn, Rows!Next
<1>3. ASSUME Retry PROVE IInv' /\ Rows!Next
  BY <1>0, <1>3, FetchAsks DEF Retry, Refresh, Rows!Next
<1>4. ASSUME Submit PROVE IInv' /\ UNCHANGED Rows!lvars
  BY <1>4, SendStutters DEF Submit
<1>5. ASSUME Confirm PROVE IInv' /\ UNCHANGED Rows!lvars
  BY <1>5, SendStutters DEF Confirm
<1>6. ASSUME New \/ CloseForm \/ Dismiss \/ \E i \in Items : Edit(i) \/ AskDelete(i)
      PROVE  IInv' /\ UNCHANGED Rows!lvars
  BY <1>6, DropStutters DEF New, CloseForm, Dismiss, Edit, AskDelete
<1> QED
  BY <1>1, <1>2, <1>3, <1>4, <1>5, <1>6 DEF User

LEMMA ServerSteps == IInv /\ Server => IInv' /\ UNCHANGED Rows!lvars
<1> SUFFICES ASSUME IInv, NEW c \in calls, Serve(c) \/ Fail(c)
             PROVE  IInv' /\ UNCHANGED Rows!lvars
  BY DEF Server
<1>1. PICK answer \in {"done", "failed"} : UNCHANGED list /\ Answered(c, answer)
  BY DEF Serve, Fail
<1>2. PICK d : /\ calls' = (calls \ {c}) \cup {d}
               /\ d = [c EXCEPT !.answer = d.answer, !.rows = d.rows, !.total = d.total]
               /\ d.answer = answer
  <2>1. CASE c.op = "list" /\ answer = "done"
    <3> DEFINE d == [c EXCEPT !.answer = answer, !.rows = PageOf(c.req), !.total = Cardinality(Found(c.req))]
    <3>1. d.answer = answer /\ d.rows = PageOf(c.req) /\ d.total = Cardinality(Found(c.req))
      BY DEF IInv, ListOK
    <3> QED
      BY <1>1, <2>1, <3>1 DEF Answered
  <2>2. CASE ~(c.op = "list" /\ answer = "done")
    <3> DEFINE d == [c EXCEPT !.answer = answer]
    <3>1. d.answer = answer /\ d.rows = c.rows /\ d.total = c.total
      BY DEF IInv, ListOK
    <3>2. d = [c EXCEPT !.answer = d.answer, !.rows = d.rows, !.total = d.total]
      BY <3>1 DEF IInv, ListOK
    <3> QED
      BY <1>1, <2>2, <3>1, <3>2 DEF Answered
  <2> QED
    BY <2>1, <2>2
<1>3. CallRecord(d) /\ d.op = c.op /\ d.req = c.req /\ d.live = c.live
  BY <1>2 DEF IInv, ListOK, CallRecord
<1> QED
  BY <1>1, <1>2, <1>3, RestStutters

LEMMA ScriptSteps == IInv /\ Script => IInv' /\ [Rows!Next]_(Rows!lvars)
<1> SUFFICES ASSUME IInv, NEW c \in calls, Listed(c) \/ Created(c) \/ Edited(c) \/ Deleted(c)
             PROVE  IInv' /\ [Rows!Next]_(Rows!lvars)
  BY DEF Script
<1>0. list.page \in Pages /\ list.term \in Terms /\ calls \ {c} \in SUBSET calls
  BY DEF IInv, ListOK
<1>1. CASE Listed(c) /\ ~c.live
  BY <1>1, DropStutters DEF Listed
<1>2. CASE Listed(c) /\ c.live
  <2>1. list.loading /\ c.req = list.asked
    BY <1>2 DEF Listed, IInv, WaitedFor
  <2>2. /\ list'.loading = FALSE /\ list'.asked = list.asked
        /\ list'.error = Failed(c) /\ list'.of = c.req
        /\ list' \in [page : Pages, term : Terms, rows : {list'.rows}, total : {list'.total},
                      loading : BOOLEAN, error : BOOLEAN, asked : Request, of : {list'.of}]
    <3>1. c.req.page \in Pages /\ Failed(c) \in BOOLEAN
      BY DEF IInv, ListOK, Request, Failed
    <3> QED
      BY <1>2, <3>1 DEF Listed, IInv, ListOK
  <2>3. ListOK'
    BY <1>2, <2>2 DEF Listed, IInv, ListOK
  <2>4. Rows!Settle
    BY <2>1, <2>2 DEF Rows!Settle, Shown
  <2>5. WaitedFor'
    BY <1>2 DEF Listed, IInv, WaitedFor
  <2> QED
    BY <2>3, <2>4, <2>5 DEF IInv, Rows!Next
<1>3. CASE (Created(c) \/ Edited(c) \/ Deleted(c)) /\ Failed(c)
  BY <1>3, DropStutters DEF Created, Edited, Deleted
<1>4. CASE (Created(c) \/ Edited(c) \/ Deleted(c)) /\ ~Failed(c)
  BY <1>0, <1>4, FetchAsks DEF Created, Edited, Deleted, Refresh, Rows!Next
<1> QED
  BY <1>1, <1>2, <1>3, <1>4

-----------------------------------------------------------------------------
(***************************************************************************)
(* A list at rest is the server's page: a change that was made here has    *)
(* its answer still to be taken, or has had the rows asked for again.      *)
(***************************************************************************)
Untold == \E c \in calls : c.op # "list" /\ c.answer = "done"

\* A page and a total, as the server would give them now.
IsPage(req, page, total) == page = PageOf(req) /\ total = Cardinality(Found(req))

Current ==
    /\ list.asked.term = list.term
    /\ ~lost /\ ~Untold =>
        /\ Shown => IsPage([term |-> list.term, page |-> list.page], list.rows, list.total)
        /\ \A c \in calls : c.op = "list" /\ c.live /\ c.answer = "done" =>
              IsPage(c.req, c.rows, c.total)

LEMMA SamePage ==
    ASSUME UNCHANGED rows, NEW req, NEW page, NEW total
    PROVE  IsPage(req, page, total)' <=> IsPage(req, page, total)
BY DEF IsPage, PageOf, Found

LEMMA SameListPage ==
    ASSUME UNCHANGED <<rows, list>>
    PROVE  IsPage([term |-> list.term, page |-> list.page], list.rows, list.total)'
           <=> IsPage([term |-> list.term, page |-> list.page], list.rows, list.total)
BY DEF IsPage, PageOf, Found

LEMMA InitCurrent == Init => Current
<1> SUFFICES ASSUME Init PROVE Current
  OBVIOUS
<1>1. list.asked.term = list.term /\ ~Shown
  BY DEF Init, First, Shown
<1>2. \A c \in calls : c.answer = "none"
  BY DEF Init, Sent
<1> QED
  BY <1>1, <1>2 DEF Current

\* After a request there is nothing on display and no answer of rows.
LEMMA FetchCurrent ==
    ASSUME IInv, NEW page \in Pages, NEW term \in Terms, NEW cs \in SUBSET calls, NEW closes,
           Fetch(page, term, cs, closes)
    PROVE  Current'
<1>1. list'.asked.term = list'.term /\ ~Shown'
  BY DEF Fetch, IInv, ListOK, Shown
<1>2. ASSUME NEW c \in calls', c.op = "list", c.live PROVE c.answer = "none"
  <2>1. c \notin Outdated(cs)
    BY <1>2 DEF Outdated, IInv, ListOK
  <2> QED
    BY <2>1, SentCalls DEF Fetch
<1> QED
  BY <1>1, <1>2 DEF Current

\* What changes neither rows nor list, and adds no answer, changes nothing of it.
LEMMA RestCurrent ==
    ASSUME IInv, Current, UNCHANGED <<rows, list, lost>>,
           \A c \in calls : c.op # "list" /\ c.answer = "done" => c \in calls',
           \A c \in calls' : c.op = "list" /\ c.live /\ c.answer = "done" => c \in calls
    PROVE  Current'
<1>1. Untold => Untold'
  BY DEF Untold
<1> QED
  BY <1>1, SamePage, SameListPage DEF Current, Shown

LEMMA SendCurrent ==
    ASSUME IInv, Current, UNCHANGED <<rows, list, lost>>, NEW op, NEW id, NEW closes,
           calls' = Sent(calls, op, First, id, closes)
    PROVE  Current'
<1>1. PICK new : calls' = calls \cup {new} /\ new.answer = "none"
  BY SentCalls
<1> QED
  BY <1>1, RestCurrent

LEMMA UserCurrent == IInv /\ Current /\ User => Current'
<1> SUFFICES ASSUME IInv, Current, User PROVE Current'
  OBVIOUS
<1>0. list.page \in Pages /\ list.term \in Terms /\ First.term = All
  BY DEF IInv, ListOK, First
<1>1. ASSUME NEW t \in Terms, Search(t) PROVE Current'
  BY <1>1, FirstIsRequest, FetchCurrent DEF Search
<1>2. ASSUME NEW p \in Pages, Turn(p) PROVE Current'
  BY <1>0, <1>2, FetchCurrent DEF Turn
<1>3. ASSUME Retry PROVE Current'
  BY <1>0, <1>3, FetchCurrent DEF Retry, Refresh
<1>4. ASSUME Submit PROVE Current'
  BY <1>4, SendCurrent DEF Submit
<1>5. ASSUME Confirm PROVE Current'
  BY <1>5, SendCurrent DEF Confirm
<1>6. ASSUME New \/ CloseForm \/ Dismiss \/ \E i \in Items : Edit(i) \/ AskDelete(i) PROVE Current'
  BY <1>6, RestCurrent DEF New, CloseForm, Dismiss, Edit, AskDelete
<1> QED
  BY <1>1, <1>2, <1>3, <1>4, <1>5, <1>6 DEF User

LEMMA ServeCurrent == ASSUME IInv, Current, NEW c \in calls, Serve(c) PROVE Current'
<1>1. UNCHANGED list /\ c.answer = "none"
  BY DEF Serve
<1>2. CASE c.op = "list"
  <2>1. PICK d : /\ calls' = (calls \ {c}) \cup {d} /\ UNCHANGED rows
                 /\ d.op = "list" /\ d.live = c.live /\ d.req = c.req
                 /\ d.rows = PageOf(c.req) /\ d.total = Cardinality(Found(c.req))
    <3> DEFINE d == [c EXCEPT !.answer = "done", !.rows = PageOf(c.req), !.total = Cardinality(Found(c.req))]
    <3>1. calls' = (calls \ {c}) \cup {d} /\ UNCHANGED rows
      BY <1>2 DEF Serve, Answered, After
    <3>2. /\ d.op = "list" /\ d.live = c.live /\ d.req = c.req
          /\ d.rows = PageOf(c.req) /\ d.total = Cardinality(Found(c.req))
      BY <1>2 DEF IInv, ListOK
    <3> QED
      BY <3>1, <3>2
  <2>2. IsPage(d.req, d.rows, d.total)
    BY <2>1 DEF IsPage
  <2>3. IsPage(d.req, d.rows, d.total)'
    BY <2>1, <2>2, SamePage
  <2>4. Untold => Untold'
    BY <1>2, <2>1 DEF Untold
  <2>5. CASE c.live
    <3>1. ~Shown'
      BY <1>1, <1>2, <2>5 DEF IInv, WaitedFor, Shown
    <3>2. \A e \in calls' : e.op = "list" /\ e.live => e = d
      BY <1>2, <2>1, <2>5 DEF IInv, WaitedFor
    <3>3. list'.asked.term = list'.term
      BY <1>1 DEF Current
    <3>4. \A e \in calls' : e.op = "list" /\ e.live => IsPage(e.req, e.rows, e.total)'
      BY <2>3, <3>2
    <3> QED
      BY <3>1, <3>3, <3>4 DEF Current
  <2>6. CASE ~c.live
    <3>1. lost' = lost
      BY <2>6 DEF Serve
    <3>2. Shown' = Shown
      BY <1>1 DEF Shown
    <3>3. ASSUME NEW e \in calls', e.op = "list", e.live PROVE e \in calls
      BY <2>1, <2>6, <3>3
    <3>4. ASSUME ~lost', ~Untold'
          PROVE  /\ Shown' => IsPage([term |-> list.term, page |-> list.page], list.rows, list.total)'
                 /\ \A e \in calls' : e.op = "list" /\ e.live /\ e.answer = "done" =>
                       IsPage(e.req, e.rows, e.total)'
      <4>1. Shown' => IsPage([term |-> list.term, page |-> list.page], list.rows, list.total)'
        BY <1>1, <2>1, <2>4, <3>1, <3>2, <3>4, SameListPage DEF Current
      <4>2. ASSUME NEW e \in calls', e.op = "list", e.live, e.answer = "done"
            PROVE  IsPage(e.req, e.rows, e.total)'
        <5>1. IsPage(e.req, e.rows, e.total)
          BY <2>4, <3>1, <3>3, <3>4, <4>2 DEF Current
        <5> QED
          BY <2>1, <5>1, SamePage
      <4> QED
        BY <4>1, <4>2
    <3>5. list'.asked.term = list'.term
      BY <1>1 DEF Current
    <3> QED
      BY <3>4, <3>5 DEF Current
  <2> QED
    BY <2>5, <2>6
<1>3. CASE c.op # "list"
  <2> DEFINE d == [c EXCEPT !.answer = "done"]
  <2>1. d \in calls'
    BY <1>3 DEF Serve, Answered
  <2>2. d.op = c.op /\ d.answer = "done"
    BY DEF IInv, ListOK
  <2>3. Untold'
    BY <1>3, <2>1, <2>2 DEF Untold
  <2> QED
    BY <1>1, <2>3 DEF Current
<1> QED
  BY <1>2, <1>3

LEMMA FailCurrent == ASSUME IInv, Current, NEW c \in calls, Fail(c) PROVE Current'
<1>1. UNCHANGED list /\ c.answer = "none"
  BY DEF Fail
<1> DEFINE d == [c EXCEPT !.answer = "failed"]
<1>2. calls' = (calls \ {c}) \cup {d} /\ d.answer = "failed"
  BY DEF Fail, Answered, IInv, ListOK
<1> HIDE DEF d
<1>3. CASE UNCHANGED <<rows, lost>>
  BY <1>1, <1>2, <1>3, RestCurrent
<1>4. CASE lost'
  BY <1>1, <1>4 DEF Current
<1> QED
  BY <1>3, <1>4 DEF Fail

LEMMA ScriptCurrent == IInv /\ Current /\ Script => Current'
<1> SUFFICES ASSUME IInv, Current, NEW c \in calls, Listed(c) \/ Created(c) \/ Edited(c) \/ Deleted(c)
             PROVE  Current'
  BY DEF Script
<1>0. list.page \in Pages /\ list.term \in Terms /\ calls \ {c} \in SUBSET calls
  BY DEF IInv, ListOK
<1>1. CASE Listed(c) /\ ~c.live
  BY <1>1, RestCurrent DEF Listed
<1>2. CASE Listed(c) /\ c.live
  <2>1. c.req = list.asked /\ c.req.term \in Terms /\ c.req.page \in Pages
        /\ c.req = [term |-> c.req.term, page |-> c.req.page]
    BY <1>2 DEF Listed, IInv, WaitedFor, ListOK, Request
  <2>2. /\ list'.loading = FALSE /\ list'.asked = list.asked /\ list'.term = list.term
        /\ list'.error = Failed(c) /\ list'.rows = c.rows /\ list'.total = c.total
        /\ ~Failed(c) => list'.page = c.req.page
    BY <1>2 DEF Listed, IInv, ListOK
  <2>3. calls' = calls \ {c} /\ UNCHANGED <<rows, lost>> /\ c.op = "list"
    BY <1>2 DEF Listed
  <2>4. Untold => Untold'
    BY <2>3 DEF Untold
  <2>5. \A d \in calls' : ~(d.op = "list" /\ d.live)
    BY <1>2, <2>3 DEF IInv, WaitedFor
  <2>6. ASSUME ~lost, ~Untold, ~Failed(c)
        PROVE  IsPage([term |-> list.term, page |-> list.page], list.rows, list.total)'
    <3>1. c.answer \in {"none", "done", "failed"}
      BY DEF IInv, ListOK
    <3>2. c.answer = "done"
      BY <1>2, <2>6, <3>1 DEF Listed, Failed
    <3>3. IsPage(c.req, c.rows, c.total)
      BY <1>2, <2>3, <2>6, <3>2 DEF Current
    <3>4. [term |-> list'.term, page |-> list'.page] = c.req
      BY <2>1, <2>2, <2>6 DEF Current
    <3>5. IsPage(c.req, c.rows, c.total)'
      BY <2>3, <3>3 DEF IsPage, PageOf, Found
    <3> QED
      BY <2>2, <3>4, <3>5 DEF IsPage
  <2>7. Shown' => ~Failed(c)
    BY <2>2 DEF Shown
  <2>8. list'.asked.term = list'.term
    BY <2>2 DEF Current
  <2> QED
    BY <2>3, <2>4, <2>5, <2>6, <2>7, <2>8 DEF Current
<1>3. CASE (Created(c) \/ Edited(c) \/ Deleted(c)) /\ Failed(c)
  BY <1>3, RestCurrent DEF Created, Edited, Deleted, Failed
<1>4. CASE (Created(c) \/ Edited(c) \/ Deleted(c)) /\ ~Failed(c)
  BY <1>0, <1>4, FetchCurrent DEF Created, Edited, Deleted, Refresh
<1> QED
  BY <1>1, <1>2, <1>3, <1>4

\* Every step of the lists is one of the panel's or none (usePaginateGroups.js and
\* usePaginateUsrs.js): the rows on display are never those of a request that was
\* overtaken.  That a wait ends is left to the model checker.
THEOREM ImplementsLookup == Spec => Rows!Init /\ [][Rows!Next]_(Rows!lvars)
<1>1. Init => IInv /\ Rows!Init
  BY InitIInv
<1>2. IInv /\ [Next]_vars => IInv' /\ [Rows!Next]_(Rows!lvars)
  <2>1. IInv /\ UNCHANGED vars => IInv' /\ UNCHANGED Rows!lvars
    BY DropStutters DEF vars
  <2> QED
    BY <2>1, UserSteps, ServerSteps, ScriptSteps DEF Next
<1> QED
  BY <1>1, <1>2, PTL DEF Spec

\* With nothing under way and no answer lost the list is the server's page
\* (GroupsView, UsrsView and their hooks), for any number of rows and changes.
THEOREM SettledIsCurrentHolds == Spec => []SettledIsCurrent
<1>1. Init => IInv /\ Current
  BY InitIInv, InitCurrent
<1>2. IInv /\ Current /\ [Next]_vars => (IInv /\ Current)'
  <2> SUFFICES ASSUME IInv, Current, [Next]_vars PROVE (IInv /\ Current)'
    OBVIOUS
  <2>1. CASE UNCHANGED vars
    BY <2>1, DropStutters, RestCurrent DEF vars
  <2>2. CASE Next
    BY <2>2, UserSteps, ServerSteps, ScriptSteps, UserCurrent, ServeCurrent, FailCurrent,
       ScriptCurrent DEF Next, Server
  <2> QED
    BY <2>1, <2>2
<1>3. IInv /\ Current => SettledIsCurrent
  BY DEF Current, SettledIsCurrent, IsPage, Untold
<1> QED
  BY <1>1, <1>2, <1>3, PTL DEF Spec

-----------------------------------------------------------------------------
(***************************************************************************)
(* The types, of which the refinement needed only those of the requests.   *)
(* Calls are numbered because there are only so many; a total is of rows.  *)
(***************************************************************************)
CallsTyped(cs) == cs \subseteq Call /\ IsFiniteSet(cs)

Sendable(op, req, id, closes) ==
    /\ op \in {"list", "create", "edit", "delete"} /\ req \in Request
    /\ id \in Items \cup {None} /\ closes \in BOOLEAN

\* What a function makes of the elements of a finite set is finite.
LEMMA ImageIsFinite ==
    ASSUME NEW S, IsFiniteSet(S), NEW f, f = [x \in S |-> f[x]]
    PROVE  /\ IsFiniteSet({f[x] : x \in S})
           /\ Cardinality({f[x] : x \in S}) <= Cardinality(S)
<1> DEFINE T == {f[x] : x \in S}
<1>1. f \in Surjection(S, T)
  BY DEF Surjection
<1> QED
  BY <1>1, FS_Surjection

LEMMA SomeNumberIsFree == ASSUME NEW cs, IsFiniteSet(cs) PROVE N(cs) \in Nat
<1> DEFINE k == Cardinality(cs)
           used == {c.n : c \in cs}
<1>1. k \in Nat
  BY FS_CardinalityType
<1>2. IsFiniteSet(used) /\ Cardinality(used) <= Cardinality(cs)
  <2> DEFINE f == [c \in cs |-> c.n]
  <2>1. f = [c \in cs |-> f[c]] /\ used = {f[c] : c \in cs}
    OBVIOUS
  <2> HIDE DEF f, used
  <2> QED
    BY <2>1, ImageIsFinite
<1>3. IsFiniteSet(1 .. k + 1) /\ Cardinality(1 .. k + 1) = k + 1
  <2>1. 1 \in Int /\ k + 1 \in Int /\ ~(1 > k + 1) /\ (k + 1) - 1 + 1 = k + 1
    BY <1>1
  <2> HIDE DEF k
  <2> QED
    BY <2>1, FS_Interval
<1>4. ~(1 .. k + 1 \subseteq used)
  <2>1. Cardinality(used) \in Nat /\ Cardinality(used) <= k
    BY <1>2, FS_CardinalityType
  <2> HIDE DEF used, k
  <2> QED
    BY <1>1, <1>2, <1>3, <2>1, FS_Subset
<1>5. \E n \in 1 .. k + 1 : \A c \in cs : c.n # n
  BY <1>4
<1> QED
  BY <1>1, <1>5 DEF N

LEMMA SentTyped ==
    ASSUME NEW cs, CallsTyped(cs), NEW op, NEW req, NEW id, NEW closes,
           Sendable(op, req, id, closes)
    PROVE  CallsTyped(Sent(cs, op, req, id, closes))
<1>1. PICK new : /\ Sent(cs, op, req, id, closes) = cs \cup {new}
                 /\ new = [op |-> op, req |-> req, id |-> id, live |-> TRUE, closes |-> closes,
                           answer |-> "none", rows |-> {}, total |-> 0, n |-> N(cs)]
  BY SentCalls
<1>2. N(cs) \in Nat /\ 0 \in 0 .. MaxItems
  BY SomeNumberIsFree, BoundsAssumption DEF CallsTyped
<1>3. new \in Call
  BY <1>1, <1>2 DEF Call, Sendable
<1>4. CallsTyped(cs \cup {new})
  BY <1>3, FS_AddElement DEF CallsTyped
<1> QED
  BY <1>1, <1>4

LEMMA OutdatedTyped == ASSUME NEW cs, CallsTyped(cs) PROVE CallsTyped(Outdated(cs))
<1> DEFINE f == [c \in cs |-> IF c.op = "list" THEN [c EXCEPT !.live = FALSE] ELSE c]
<1>1. f = [c \in cs |-> f[c]] /\ Outdated(cs) = {f[c] : c \in cs}
  BY DEF Outdated
<1>2. ASSUME NEW c \in cs PROVE f[c] \in Call
  <2>1. PICK d : d = [c EXCEPT !.live = FALSE]
    OBVIOUS
  <2>2. c \in Call /\ d \in Call
    BY <2>1 DEF CallsTyped, Call
  <2> QED
    BY <2>1, <2>2
<1> HIDE DEF f
<1> QED
  BY <1>1, <1>2, ImageIsFinite DEF CallsTyped

LEMMA FetchTyped ==
    ASSUME TypeOK, NEW cs, CallsTyped(cs), NEW page \in Pages, NEW term \in Terms,
           NEW closes \in BOOLEAN, Fetch(page, term, cs, closes)
    PROVE  list' \in List /\ CallsTyped(calls')
<1>1. PICK req \in Request : req = [term |-> term, page |-> page]
  BY DEF Request
<1>2. list' \in List
  BY <1>1 DEF Fetch, TypeOK, List
<1>3. Sendable("list", req, None, closes)
  BY DEF Sendable
<1>4. CallsTyped(Sent(Outdated(cs), "list", req, None, closes))
  BY <1>3, OutdatedTyped, SentTyped
<1> QED
  BY <1>1, <1>2, <1>4 DEF Fetch

LEMMA OpsBounded == ASSUME ops \in 0 .. MaxOps, Ops PROVE ops' \in 0 .. MaxOps
BY BoundsAssumption DEF Ops

Typed == TypeOK /\ IsFiniteSet(calls)

LEMMA InitTyped == Init => Typed
<1> SUFFICES ASSUME Init PROVE Typed
  OBVIOUS
<1>1. CallsTyped({})
  BY FS_EmptySet DEF CallsTyped
<1>2. Sendable("list", First, None, FALSE)
  BY FirstIsRequest DEF Sendable
<1>3. CallsTyped(calls)
  BY <1>1, <1>2, SentTyped DEF Init
<1>4. list \in List
  <2>1. 0 \in 0 .. MaxItems /\ {} \in SUBSET Row /\ All \in Terms
    BY BoundsAssumption, TermsAssumption
  <2> QED
    BY <2>1, FirstIsRequest DEF Init, List
<1>5. form \in Form /\ confirm \in [open : BOOLEAN, target : Items \cup {None}, busy : BOOLEAN]
  BY DEF Init, Form
<1>6. kind \in {"groups", "usrs"} /\ rows \in [Items -> Texts \cup {None}] /\ ops \in 0 .. MaxOps
  BY StartsAssumption, BoundsAssumption DEF Init
<1>7. lost \in BOOLEAN
  BY DEF Init
<1> QED
  BY <1>3, <1>4, <1>5, <1>6, <1>7 DEF Typed, TypeOK, CallsTyped

LEMMA UserTyped == Typed /\ User => Typed'
<1> SUFFICES ASSUME Typed, User PROVE Typed'
  OBVIOUS
<1>t. TypeOK /\ CallsTyped(calls) /\ 1 \in Pages /\ list.page \in Pages /\ list.term \in Terms
  BY FirstIsRequest DEF Typed, TypeOK, CallsTyped, List
<1>1. ASSUME NEW term \in Terms, Search(term) PROVE Typed'
  <2>1. list' \in List /\ CallsTyped(calls') /\ ops' \in 0 .. MaxOps
    BY <1>1, <1>t, FetchTyped, OpsBounded DEF Search, TypeOK
  <2> QED
    BY <1>1, <1>t, <2>1 DEF Search, Typed, TypeOK, CallsTyped
<1>2. ASSUME NEW page \in Pages, Turn(page) PROVE Typed'
  <2>1. list' \in List /\ CallsTyped(calls') /\ ops' \in 0 .. MaxOps
    BY <1>2, <1>t, FetchTyped, OpsBounded DEF Turn, TypeOK
  <2> QED
    BY <1>2, <1>t, <2>1 DEF Turn, Typed, TypeOK, CallsTyped
<1>3. ASSUME Retry PROVE Typed'
  <2>1. list' \in List /\ CallsTyped(calls') /\ ops' \in 0 .. MaxOps
    BY <1>3, <1>t, FetchTyped, OpsBounded DEF Retry, Refresh, TypeOK
  <2> QED
    BY <1>3, <1>t, <2>1 DEF Retry, Typed, TypeOK, CallsTyped
<1>4. ASSUME NEW i \in Items, Edit(i) \/ AskDelete(i) PROVE Typed'
  <2>1. /\ form' \in Form
        /\ confirm' \in [open : BOOLEAN, target : Items \cup {None}, busy : BOOLEAN]
    BY <1>4 DEF Edit, AskDelete, Typed, TypeOK, Form
  <2> QED
    BY <1>4, <2>1 DEF Edit, AskDelete, Typed, TypeOK
<1>5. ASSUME New \/ CloseForm \/ Dismiss PROVE Typed'
  <2>1. /\ form' \in Form
        /\ confirm' \in [open : BOOLEAN, target : Items \cup {None}, busy : BOOLEAN]
    BY <1>5 DEF New, CloseForm, Dismiss, Typed, TypeOK, Form
  <2> QED
    BY <1>5, <2>1 DEF New, CloseForm, Dismiss, Typed, TypeOK
<1>6. ASSUME Submit PROVE Typed'
  <2>1. /\ Sendable("create", First, None, FALSE)
        /\ Sendable("edit", First, form.editing, FALSE)
    BY FirstIsRequest DEF Sendable, Typed, TypeOK, Form
  <2>2. CallsTyped(calls')
    BY <1>6, <1>t, <2>1, SentTyped DEF Submit
  <2>3. form' \in Form /\ ops' \in 0 .. MaxOps
    BY <1>6, <1>t, OpsBounded DEF Submit, TypeOK, Form
  <2> QED
    BY <1>6, <1>t, <2>2, <2>3 DEF Submit, Typed, TypeOK, CallsTyped
<1>7. ASSUME Confirm PROVE Typed'
  <2>1. Sendable("delete", First, confirm.target, TRUE)
    BY FirstIsRequest DEF Sendable, Typed, TypeOK
  <2>2. CallsTyped(calls')
    BY <1>7, <1>t, <2>1, SentTyped DEF Confirm
  <2>3. /\ confirm' \in [open : BOOLEAN, target : Items \cup {None}, busy : BOOLEAN]
        /\ ops' \in 0 .. MaxOps
    BY <1>7, <1>t, OpsBounded DEF Confirm, TypeOK
  <2> QED
    BY <1>7, <1>t, <2>2, <2>3 DEF Confirm, Typed, TypeOK, CallsTyped
<1> QED
  BY <1>1, <1>2, <1>3, <1>4, <1>5, <1>6, <1>7 DEF User

LEMMA TotalIsOfRows ==
    ASSUME rows \in [Items -> Texts \cup {None}], NEW req \in Request
    PROVE  PageOf(req) \subseteq Row /\ Cardinality(Found(req)) \in 0 .. MaxItems
<1>1. Found(req) \subseteq Items
  BY DEF Found
<1>2. IsFiniteSet(Items) /\ Cardinality(Items) = MaxItems
  <2>1. 1 \in Int /\ MaxItems \in Int /\ ~(1 > MaxItems) /\ MaxItems - 1 + 1 = MaxItems
    BY BoundsAssumption
  <2> QED
    BY <2>1, FS_Interval DEF Items
<1>3. IsFiniteSet(Found(req)) /\ Cardinality(Found(req)) <= MaxItems
  BY <1>1, <1>2, FS_Subset
<1>4. Cardinality(Found(req)) \in Nat
  BY <1>3, FS_CardinalityType
<1>5. \A i \in Found(req) : rows[i] \in Texts
  BY TermsAssumption DEF Found, Request
<1>6. PageOf(req) \subseteq Row
  <2> SUFFICES ASSUME NEW x \in PageOf(req) PROVE x \in Row
    OBVIOUS
  <2>1. PICK i \in Found(req) : x = <<i, rows[i]>>
    BY Zenon DEF PageOf
  <2> QED
    BY <1>1, <1>5, <2>1 DEF Row
<1> QED
  BY <1>3, <1>4, <1>6, BoundsAssumption

LEMMA AnsweredTyped ==
    ASSUME Typed, NEW c \in calls, NEW answer \in {"done", "failed"}, Answered(c, answer)
    PROVE  CallsTyped(calls')
<1>1. c \in Call /\ c.req \in Request
  BY DEF Typed, TypeOK, Call
<1>2. PICK page, total : page = PageOf(c.req) /\ total = Cardinality(Found(c.req))
  OBVIOUS
<1>3. page \in SUBSET Row /\ total \in 0 .. MaxItems
  BY <1>1, <1>2, TotalIsOfRows DEF Typed, TypeOK
<1>4. PICK d : d = IF c.op = "list" /\ answer = "done"
                   THEN [c EXCEPT !.answer = answer, !.rows = page, !.total = total]
                   ELSE [c EXCEPT !.answer = answer]
  OBVIOUS
<1>5. d \in Call
  BY <1>1, <1>3, <1>4 DEF Call
<1>6. calls' = (calls \ {c}) \cup {d}
  BY <1>2, <1>4 DEF Answered
<1> QED
  BY <1>5, <1>6, FS_AddElement, FS_RemoveElement DEF Typed, TypeOK, CallsTyped

LEMMA ServerTyped == Typed /\ Server => Typed'
<1> SUFFICES ASSUME Typed, NEW c \in calls, Serve(c) \/ Fail(c) PROVE Typed'
  BY DEF Server
<1>1. CallsTyped(calls')
  BY AnsweredTyped DEF Serve, Fail
<1>2. ASSUME rows' \in After(c) PROVE rows' \in [Items -> Texts \cup {None}]
  <2>1. c.op \in {"list", "create", "edit", "delete"} /\ rows \in [Items -> Texts \cup {None}]
    BY DEF Typed, TypeOK, Call
  <2>2. ASSUME NEW i \in Items, NEW t \in Texts \cup {None}
        PROVE  [rows EXCEPT ![i] = t] \in [Items -> Texts \cup {None}]
    BY <2>1
  <2>3. rows' = rows \/ \E i \in Items, t \in Texts \cup {None} : rows' = [rows EXCEPT ![i] = t]
    <3>1. CASE c.op = "list"
      BY <1>2, <3>1 DEF After
    <3>2. CASE c.op = "create"
      BY <1>2, <3>2 DEF After
    <3>3. CASE c.op = "edit"
      BY <1>2, <3>3 DEF After, Present
    <3>4. CASE c.op = "delete"
      BY <1>2, <3>4 DEF After, Present
    <3> QED
      BY <2>1, <3>1, <3>2, <3>3, <3>4
  <2> QED
    BY <2>1, <2>2, <2>3
<1>3. rows' \in [Items -> Texts \cup {None}] /\ lost' \in BOOLEAN
  BY <1>2 DEF Serve, Fail, Typed, TypeOK
<1>4. UNCHANGED <<kind, list, form, confirm, ops>>
  BY DEF Serve, Fail
<1> QED
  BY <1>1, <1>3, <1>4 DEF Typed, TypeOK, CallsTyped

LEMMA ScriptTyped == Typed /\ Script => Typed'
<1> SUFFICES ASSUME Typed, NEW c \in calls,
                    Listed(c) \/ Created(c) \/ Edited(c) \/ Deleted(c)
             PROVE  Typed'
  BY DEF Script
<1>1. c \in Call /\ list.page \in Pages /\ list.term \in Terms
  BY DEF Typed, TypeOK, List
<1>2. CallsTyped(calls \ {c})
  BY FS_RemoveElement DEF Typed, TypeOK, CallsTyped
<1>3. /\ form' \in Form
      /\ confirm' \in [open : BOOLEAN, target : Items \cup {None}, busy : BOOLEAN]
  <2>1. Closed(c) \in [open : BOOLEAN, target : Items \cup {None}, busy : BOOLEAN]
    BY DEF Closed, Typed, TypeOK
  <2>2. form' \in Form
    BY DEF Listed, Created, Edited, Deleted, Failed, Typed, TypeOK, Form
  <2> QED
    BY <2>1, <2>2 DEF Listed, Created, Edited, Deleted, Typed, TypeOK
<1>4. list' \in List /\ CallsTyped(calls')
  <2>1. ASSUME NEW closes \in BOOLEAN, Refresh(calls \ {c}, closes)
        PROVE  list' \in List /\ CallsTyped(calls')
    BY <1>1, <1>2, <2>1, FetchTyped DEF Refresh, Typed
  <2>2. CASE Listed(c)
    <3>1. c.req \in Request /\ c.req.page \in Pages /\ c.rows \in SUBSET Row
          /\ c.total \in 0 .. MaxItems
      BY <1>1 DEF Call, Request
    <3>2. PICK page \in Pages : page = IF Failed(c) THEN list.page ELSE c.req.page
      BY <1>1, <3>1
    <3>3. Failed(c) \in BOOLEAN
      BY DEF Failed
    <3>4. list' \in List
      BY <2>2, <3>1, <3>2, <3>3 DEF Listed, List, Typed, TypeOK
    <3> QED
      BY <1>2, <2>2, <3>4 DEF Listed
  <2>3. CASE Created(c) \/ Edited(c) \/ Deleted(c)
    BY <1>2, <2>1, <2>3 DEF Created, Edited, Deleted, Typed, TypeOK
  <2> QED
    BY <2>2, <2>3
<1>5. UNCHANGED <<kind, rows, ops, lost>>
  BY DEF Listed, Created, Edited, Deleted
<1> QED
  BY <1>3, <1>4, <1>5 DEF Typed, TypeOK, CallsTyped

\* Every variable of the lists of groups and of users keeps its type (GroupsView,
\* UsrsView), for any rows, terms and number of steps.
THEOREM TypeCorrect == Spec => []TypeOK
<1>1. Init => Typed
  BY InitTyped
<1>2. Typed /\ [Next]_vars => Typed'
  <2>1. Typed /\ UNCHANGED vars => Typed'
    BY DEF vars, Typed, TypeOK
  <2> QED
    BY <2>1, UserTyped, ServerTyped, ScriptTyped DEF Next
<1>3. Typed => TypeOK
  BY DEF Typed
<1> QED
  BY <1>1, <1>2, <1>3, PTL DEF Spec
=============================================================================
