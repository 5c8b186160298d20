----------------------------- MODULE NodePicker -----------------------------
(***************************************************************************)
(* The dialog in which a node is chosen to be shared with a group          *)
(* (GroupNodePicker): it walks the folders the user can reach, and         *)
(* searches below the one it is in.  GroupPage opens it, closes it, and    *)
(* shares what is chosen.                                                  *)
(***************************************************************************)
EXTENDS Integers, FiniteSets, Sequences

CONSTANTS
    Nodes, Roots,     \* what the user can reach, and what has no folder above
    Children,         \* what is in each folder; a file is in no folder's place
    Terms, TooShort,  \* what the query may be
    None

ASSUME PlacesAssumption ==
    /\ Roots \subseteq Nodes
    /\ DOMAIN Children \subseteq Nodes
    /\ \A f \in DOMAIN Children : Children[f] \subseteq Nodes
ASSUME TermsAssumption == TooShort \notin Terms

VARIABLES
    picking,   \* the dialog is open
    place,     \* roots, stack, children, and the flags of loading them
    hunt,      \* the search: its inputs, and the request whose outcome is on display
    delay,     \* the search that is to start, or None
    pcalls     \* the calls of the dialog whose answer has not been taken

pvars == <<picking, place, hunt, delay, pcalls>>

Folders == DOMAIN Children

\* A search finds nothing, or two pages.  stack().at(-1) is the folder the dialog is in; None among the roots.
Request == [query : Terms, below : Folders \cup {None}, page : {1, 2}]
Place == [roots : SUBSET Nodes, stack : Seq(Folders), loading : BOOLEAN, error : BOOLEAN]
Hunt == [query : Terms \cup {TooShort}, page : {1, 2}, loading : BOOLEAN, error : BOOLEAN,
         of : Request \cup {None}, pages : {0, 2}]
PickCall == [op : {"roots", "open", "search"}, id : Folders \cup {None},
             req : Request \cup {None}, live : BOOLEAN,
             answer : {"none", "done", "failed"}, pages : {0, 2}, n : Nat]

PickerTypeOK ==
    /\ picking \in BOOLEAN /\ place \in Place /\ hunt \in Hunt
    /\ delay \in Request \cup {None}
    /\ pcalls \subseteq PickCall

Top(stack) == IF stack = <<>> THEN None ELSE stack[Len(stack)]

NewHunt == [query |-> TooShort, page |-> 1, loading |-> FALSE, error |-> FALSE,
            of |-> None, pages |-> 0]

PickN(cs) == CHOOSE n \in 1 .. Cardinality(cs) + 1 : \A c \in cs : c.n # n

Asked(cs, op, id, req) ==
    cs \cup {[op |-> op, id |-> id, req |-> req, live |-> TRUE, answer |-> "none",
              pages |-> 0, n |-> PickN(cs)]}

\* Mutant: the answers of searches with other inputs still count.
Superseded_Counts(cs) == cs

Superseded(cs) == {IF c.op = "search" THEN [c EXCEPT !.live = FALSE] ELSE c : c \in cs}

\* The effect of the search: whatever changes of its inputs, the results go and,
\* if the query is long enough, a search is to start.
Search(query, page, stack, cs) ==
    /\ hunt' = [NewHunt EXCEPT !.query = query, !.page = page, !.loading = query # TooShort]
    /\ delay' = IF query = TooShort THEN None
                ELSE [query |-> query, below |-> Top(stack), page |-> page]
    /\ pcalls' = Superseded(cs)

PickerInit ==
    /\ picking = FALSE
    /\ place = [roots |-> {}, stack |-> <<>>, loading |-> FALSE, error |-> FALSE]
    /\ hunt = NewHunt /\ delay = None /\ pcalls = {}

-----------------------------------------------------------------------------
(***************************************************************************)
(* The user.  What is under way when the dialog closes is not dropped.     *)
(***************************************************************************)

\* Both effects run: everything is reset, and the roots are read.
OpenPicker ==
    /\ picking' = TRUE
    /\ place' = [roots |-> {}, stack |-> <<>>, loading |-> TRUE, error |-> FALSE]
    /\ Search(TooShort, 1, <<>>, Asked(pcalls, "roots", None, None))

ClosePicker ==
    /\ picking' = FALSE
    /\ hunt' = [NewHunt EXCEPT !.query = hunt.query, !.page = hunt.page]
    /\ delay' = None
    /\ pcalls' = Superseded(pcalls)
    /\ UNCHANGED place

\* The list is hidden while anything loads or has failed.
Listing ==
    /\ picking
    /\ ~place.loading /\ ~place.error /\ ~hunt.loading /\ ~hunt.error

\* What a search finds may be anything; a folder lists its children.
Visible ==
    IF hunt.query # TooShort THEN IF hunt.of # None /\ hunt.pages > 0 THEN Nodes ELSE {}
    ELSE IF place.stack # <<>> THEN Children[Top(place.stack)] ELSE place.roots

openFolder(f) ==
    /\ Listing /\ f \in Visible \cap Folders
    /\ place' = [place EXCEPT !.loading = TRUE, !.error = FALSE]
    /\ pcalls' = Asked(pcalls, "open", f, None)
    /\ UNCHANGED <<picking, hunt, delay>>

\* The path stays enabled while a folder is being opened.
navigateTo(i) ==
    /\ picking /\ place.stack # <<>> /\ i \in 0 .. Len(place.stack)
    /\ place' = [place EXCEPT !.stack = SubSeq(@, 1, i), !.error = FALSE]
    /\ Search(TooShort, 1, place'.stack, pcalls)
    /\ UNCHANGED picking

Type(query) ==
    /\ picking /\ query # hunt.query
    /\ Search(query, 1, place.stack, pcalls)
    /\ UNCHANGED <<picking, place>>

TurnPage(page) ==
    /\ picking /\ hunt.query # TooShort /\ hunt.pages > 1
    /\ page \in 1 .. hunt.pages /\ page # hunt.page
    /\ Search(hunt.query, page, place.stack, pcalls)
    /\ UNCHANGED <<picking, place>>

\* What may be chosen: a row that is not shared yet, or the folder the dialog is in.
Choosable(n, assigned, busy) ==
    /\ picking /\ n \notin assigned
    /\ \/ Listing /\ n \in Visible /\ (~busy \/ n \notin Folders)
       \/ n = Top(place.stack) /\ ~busy /\ ~place.loading

-----------------------------------------------------------------------------
(***************************************************************************)
(* The browser, the server, and the code that awaits an answer             *)
(***************************************************************************)

\* The inputs have been left alone for 300 ms.
DelayEnds ==
    /\ delay # None /\ delay' = None
    /\ pcalls' = Asked(pcalls, "search", None, delay)
    /\ UNCHANGED <<picking, place, hunt>>

ServePick(c) ==
    /\ c.answer = "none"
    /\ \/ \E p \in IF c.op = "search" THEN {0, 2} ELSE {0} :
              pcalls' = (pcalls \ {c}) \cup {[c EXCEPT !.answer = "done", !.pages = p]}
       \/ pcalls' = (pcalls \ {c}) \cup {[c EXCEPT !.answer = "failed"]}
    /\ UNCHANGED <<picking, place, hunt, delay>>

\* Whichever load ends, the dialog is no longer loading.
Taken(c) == [place EXCEPT !.loading = FALSE, !.error = @ \/ c.answer = "failed"]

RootsTaken(c) ==
    /\ c.op = "roots" /\ c.answer # "none"
    /\ place' = IF c.answer = "failed" THEN Taken(c) ELSE [Taken(c) EXCEPT !.roots = Roots]
    /\ pcalls' = pcalls \ {c}
    /\ UNCHANGED <<picking, hunt, delay>>

\* Mutant: the query stays when a folder is entered, and what it found.
FolderTaken_KeepsSearch(c) ==
    /\ c.op = "open" /\ c.answer # "none"
    /\ place' = IF c.answer = "failed" THEN Taken(c)
                ELSE [Taken(c) EXCEPT !.stack = Append(@, c.id)]
    /\ pcalls' = pcalls \ {c}
    /\ UNCHANGED <<picking, hunt, delay>>

\* The folder goes on top of wherever the dialog is by then; the search starts anew.
FolderTaken(c) ==
    /\ c.op = "open" /\ c.answer # "none"
    /\ IF c.answer = "failed"
       THEN place' = Taken(c) /\ pcalls' = pcalls \ {c} /\ UNCHANGED <<hunt, delay>>
       ELSE /\ place' = [Taken(c) EXCEPT !.stack = Append(@, c.id)]
            /\ Search(TooShort, 1, place'.stack, pcalls \ {c})
    /\ UNCHANGED picking

SearchTaken(c) ==
    /\ c.op = "search" /\ c.answer # "none"
    /\ pcalls' = pcalls \ {c}
    /\ hunt' = IF ~c.live THEN hunt
               ELSE [hunt EXCEPT !.loading = FALSE, !.of = c.req, !.pages = c.pages,
                                 !.error = c.answer = "failed"]
    /\ UNCHANGED <<picking, place, delay>>

-----------------------------------------------------------------------------
\* What the search of the dialog shows was asked for with its query, its page and
\* below the folder it is in, also when a folder that was being opened comes late.
FoundHere ==
    hunt.of # None =>
        /\ picking
        /\ hunt.of = [query |-> hunt.query, below |-> Top(place.stack), page |-> hunt.page]
=============================================================================
