----------------------------- MODULE NodeFinder -----------------------------
(***************************************************************************)
(* The search dialog (NodeSearch): its inputs, the search that starts when *)
(* they have been left alone for a while, and its two pagers, one for      *)
(* folders and one for documents (usePaginateNodes, usePaginateDocs).      *)
(*                                                                         *)
(* What a search finds is the request it answers and how many pages there  *)
(* are.  A query is a term or too short to be searched.                    *)
(***************************************************************************)
EXTENDS Naturals, FiniteSets

CONSTANTS
    Terms, TooShort,   \* what the query may be
    Filters, NoFilter, \* what the filters of documents may be
    MaxPages,          \* bound on the pages of an answer
    MaxSteps,          \* bound on what the user does
    NoRequest

ASSUME TermsAssumption == TooShort \notin Terms /\ NoFilter \in Filters
ASSUME BoundsAssumption == MaxPages \in Nat \ {0} /\ MaxSteps \in Nat

VARIABLES
    globalOnly,  \* the dialog of HomeView, which is of no folder
    open,
    inputs,      \* query, scopeSelection, searchDocuments and the filters
    timer,       \* the search that is to start, or NoRequest
    pagers,      \* nodePager and docPager
    calls,       \* the calls of the API whose answer has not been taken
    steps

finderVars == <<globalOnly, open, inputs, timer, pagers, calls, steps>>

Kinds == {"nodes", "docs"}
Inputs == [query : Terms \cup {TooShort}, scope : {"folder", "global"},
           kind : Kinds, filter : Filters]

\* A request of a search; folders have no filters.
Request == [query : Terms, scope : {"folder", "global"}, kind : Kinds,
            filter : Filters, page : 1 .. MaxPages]

\* of: the request whose results or error are on display.
Pager == [of : Request \cup {NoRequest}, error : BOOLEAN, page : 1 .. MaxPages, pages : 0 .. MaxPages,
          loading : BOOLEAN, searched : BOOLEAN]

Call == [req : Request, live : BOOLEAN, answer : {"none", "done", "failed"},
         pages : 0 .. MaxPages, n : Nat]

FinderTypeOK ==
    /\ globalOnly \in BOOLEAN /\ open \in BOOLEAN
    /\ inputs \in Inputs
    /\ timer \in Request \cup {NoRequest}
    /\ pagers \in [Kinds -> Pager]
    /\ calls \subseteq Call
    /\ steps \in 0 .. MaxSteps

NewPager == [of |-> NoRequest, error |-> FALSE, page |-> 1, pages |-> 0,
             loading |-> FALSE, searched |-> FALSE]

Scope(in) == IF globalOnly THEN "global" ELSE in.scope

\* The search the inputs ask for.
Wanted(in, page) ==
    [query |-> in.query, scope |-> Scope(in), kind |-> in.kind,
     filter |-> IF in.kind = "docs" THEN in.filter ELSE NoFilter, page |-> page]

Searchable(in) == in.query # TooShort
Current == pagers[inputs.kind]

\* The answers of a pager that was cleared or runs again are not the latest.
Outdated(cs, kinds) == {IF c.req.kind \in kinds THEN [c EXCEPT !.live = FALSE] ELSE c : c \in cs}

\* Mutant: clear forgets the results and lets the calls under way be.
clearResults_KeepsCalls ==
    /\ pagers' = [k \in Kinds |-> NewPager]
    /\ calls' = calls

clearResults ==
    /\ pagers' = [k \in Kinds |-> NewPager]
    /\ calls' = Outdated(calls, Kinds)

N == CHOOSE n \in 1 .. Cardinality(calls) + 1 : \A c \in calls : c.n # n

\* The pager of the other kind is cleared, the one asked runs; what it shows
\* stays until the answer, under a line that says it searches.
performSearch(req) ==
    /\ pagers' = [k \in Kinds |->
           IF k # req.kind THEN NewPager
           ELSE [pagers[k] EXCEPT !.loading = TRUE, !.error = FALSE, !.searched = TRUE,
                                  !.of = IF pagers[k].error THEN NoRequest ELSE @]]
    /\ calls' = Outdated(calls, Kinds) \cup
           {[req |-> req, live |-> TRUE, answer |-> "none", pages |-> 0, n |-> N]}

FinderInit ==
    /\ globalOnly \in BOOLEAN /\ open = FALSE
    /\ inputs = [query |-> TooShort, scope |-> "folder", kind |-> "nodes", filter |-> NoFilter]
    /\ timer = NoRequest /\ pagers = [k \in Kinds |-> NewPager]
    /\ calls = {} /\ steps = 0

-----------------------------------------------------------------------------
(***************************************************************************)
(* The user                                                                *)
(***************************************************************************)

Steps == steps < MaxSteps /\ steps' = steps + 1

\* The effect that runs when the dialog is open and an input changes.
Settle(in) ==
    /\ clearResults
    /\ timer' = IF Searchable(in) THEN Wanted(in, 1) ELSE NoRequest

Open ==
    /\ ~open /\ Steps /\ open' = TRUE
    /\ Settle(inputs)
    /\ UNCHANGED <<globalOnly, inputs>>

\* One input is changed: the scope only where there is a folder, the filters only
\* among documents.
Change(in) ==
    /\ open /\ Steps
    /\ in # inputs
    /\ \/ \E q \in Terms \cup {TooShort} : in = [inputs EXCEPT !.query = q]
       \/ ~globalOnly /\ \E s \in {"folder", "global"} : in = [inputs EXCEPT !.scope = s]
       \/ \E k \in Kinds : in = [inputs EXCEPT !.kind = k]
       \/ inputs.kind = "docs" /\ \E f \in Filters : in = [inputs EXCEPT !.filter = f]
    /\ inputs' = in
    /\ Settle(in)
    /\ UNCHANGED <<globalOnly, open>>

\* Previous and Next, also while a page is under way.
Turn(page) ==
    /\ open /\ Current.searched /\ Current.pages > 1 /\ Steps
    /\ page \in {Current.page - 1, Current.page + 1} /\ page \in 1 .. Current.pages
    /\ IF Searchable(inputs) THEN performSearch(Wanted(inputs, page)) ELSE UNCHANGED <<pagers, calls>>
    /\ UNCHANGED <<globalOnly, open, inputs, timer>>

\* Escape, the cross, or a result that is opened.
Close ==
    /\ open /\ Steps /\ open' = FALSE
    /\ inputs' = [inputs EXCEPT !.query = TooShort]
    /\ timer' = NoRequest
    /\ clearResults
    /\ UNCHANGED globalOnly

-----------------------------------------------------------------------------
(***************************************************************************)
(* The browser and the server                                              *)
(***************************************************************************)

\* The inputs have been left alone for 300 ms.
Elapse ==
    /\ timer # NoRequest
    /\ timer' = NoRequest
    /\ performSearch(timer)
    /\ UNCHANGED <<globalOnly, open, inputs, steps>>

Serve(c) ==
    /\ c.answer = "none"
    /\ \/ \E p \in 0 .. MaxPages :
              calls' = (calls \ {c}) \cup {[c EXCEPT !.answer = "done", !.pages = p]}
       \/ calls' = (calls \ {c}) \cup {[c EXCEPT !.answer = "failed"]}
    /\ UNCHANGED <<globalOnly, open, inputs, timer, pagers, steps>>

\* Mutant: a failure leaves the flag up.
Take_FailedStillLoads(c) ==
    /\ c.answer # "none"
    /\ calls' = calls \ {c}
    /\ pagers' = IF ~c.live THEN pagers
                 ELSE [pagers EXCEPT ![c.req.kind] =
                          IF c.answer = "failed" THEN [@ EXCEPT !.of = c.req, !.error = TRUE]
                          ELSE [@ EXCEPT !.of = c.req, !.loading = FALSE,
                                         !.page = c.req.page, !.pages = c.pages]]
    /\ UNCHANGED <<globalOnly, open, inputs, timer, steps>>

\* An answer that is not the latest is dropped; a failure keeps the page and the count.
Take(c) ==
    /\ c.answer # "none"
    /\ calls' = calls \ {c}
    /\ LET p == pagers[c.req.kind]
           settled == [p EXCEPT !.of = c.req, !.loading = FALSE]
       IN  pagers' = IF ~c.live THEN pagers
                     ELSE [pagers EXCEPT ![c.req.kind] =
                              IF c.answer = "failed" THEN [settled EXCEPT !.error = TRUE]
                              ELSE [settled EXCEPT !.page = c.req.page, !.pages = c.pages]]
    /\ UNCHANGED <<globalOnly, open, inputs, timer, steps>>

FinderUser == Open \/ Close \/ (\E in \in Inputs : Change(in)) \/ (\E p \in 1 .. MaxPages : Turn(p))
FinderServer == \E c \in calls : Serve(c)
FinderScript == Elapse \/ \E c \in calls : Take(c)

FinderNext == FinderUser \/ FinderServer \/ FinderScript

\* Timers elapse, calls are answered or fail in the end, and answers are taken.
FinderSpec == FinderInit /\ [][FinderNext]_finderVars /\ WF_finderVars(FinderServer) /\ WF_finderVars(FinderScript)

-----------------------------------------------------------------------------
\* Whatever results or error the dialog shows, it was asked for with the inputs
\* as they stand: never with a query, scope, kind or filter that has been changed
\* meanwhile, and never by a dialog that has been closed.
ShownMatchesInputs ==
    \A k \in Kinds : pagers[k].of # NoRequest =>
        /\ open /\ Searchable(inputs)
        /\ \E p \in 1 .. MaxPages : pagers[k].of = Wanted(inputs, p)
        /\ ~pagers[k].error => pagers[k].page = pagers[k].of.page

\* Once the user stops, an open dialog with something to search shows its results
\* or an error: a search is neither lost between the timer and the calls that
\* overtake each other, nor does the line that says it searches stay.
SearchSettles == <>[](open /\ Searchable(inputs) => Current.of # NoRequest /\ ~Current.loading)
=============================================================================
