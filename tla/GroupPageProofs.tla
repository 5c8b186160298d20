-------------------------- MODULE GroupPageProofs --------------------------
(***************************************************************************)
(* The page of a group and the dialog that picks a node: for any groups,   *)
(* accounts and tree of folders, and however many steps, the page is of    *)
(* the group of the route, a group at rest is the server's, and what the   *)
(* dialog has found was searched for where it is.                          *)
(***************************************************************************)
EXTENDS GroupPage, FiniteSetTheorems, TLAPS

\* What a function makes of the elements of a finite set is finite.
LEMMA ImageIsFinite ==
    ASSUME NEW S, IsFiniteSet(S), NEW f, f = [x \in S |-> f[x]]
    PROVE  /\ IsFiniteSet({f[x] : x \in S})
           /\ Cardinality({f[x] : x \in S}) <= Cardinality(S)
<1> DEFINE T == {f[x] : x \in S}
<1>1. f \in Surjection(S, T)
  BY DEF Surjection
<1> QED
  BY <1>1, FS_Surjection

\* Calls are numbered, however many are under way.
LEMMA SomeNumberIsFree ==
    ASSUME NEW cs, IsFiniteSet(cs)
    PROVE  N(cs) \in Nat /\ PickN(cs) \in Nat
<1> DEFINE k == Cardinality(cs)
           used == {c.n : c \in cs}
<1>1. k \in Nat
  BY FS_CardinalityType
<1>2. IsFiniteSet(used) /\ Cardinality(used) <= k
  <2> DEFINE f == [c \in cs |-> c.n]
  <2>1. f = [c \in cs |-> f[c]] /\ used = {f[c] : c \in cs}
    OBVIOUS
  <2> HIDE DEF f, used, k
  <2>2. IsFiniteSet(used) /\ Cardinality(used) <= Cardinality(cs)
    BY <2>1, ImageIsFinite
  <2> QED
    BY <2>2 DEF k
<1>3. IsFiniteSet(1 .. k + 1) /\ Cardinality(1 .. k + 1) = k + 1
  <2>1. 1 \in Int /\ k + 1 \in Int /\ ~(1 > k + 1) /\ (k + 1) - 1 + 1 = k + 1
    BY <1>1
  <2> HIDE DEF k
  <2> QED
    BY <2>1, FS_Interval
<1>4. ~(1 .. k + 1 \subseteq used)
  <2>1. Cardinality(used) \in Nat
    BY <1>2, FS_CardinalityType
  <2> HIDE DEF used, k
  <2> QED
    BY <1>1, <1>2, <1>3, <2>1, FS_Subset
<1>5. \E n \in 1 .. k + 1 : \A c \in cs : c.n # n
  BY <1>4
<1> QED
  BY <1>1, <1>5 DEF N, PickN

-----------------------------------------------------------------------------
(***************************************************************************)
(* The dialog.  The search its timer holds and the searches whose answer   *)
(* would be taken are of its inputs and the folder it is in, and it is     *)
(* open; a folder that is being opened is one.                             *)
(***************************************************************************)
Wanted == [query |-> hunt.query, below |-> Top(place.stack), page |-> hunt.page]

CallsTyped(cs) ==
    /\ cs \subseteq PickCall /\ IsFiniteSet(cs)
    /\ \A c \in cs : c.op = "open" => c.id \in Folders

LiveSearch(c) == c.op = "search" /\ c.live

PickerInv ==
    /\ PickerTypeOK /\ CallsTyped(pcalls)
    /\ \A c \in pcalls : LiveSearch(c) => picking /\ c.req = Wanted
    /\ delay # None => picking /\ delay = Wanted
    /\ FoundHere

LEMMA SupersededCalls ==
    ASSUME NEW cs, CallsTyped(cs)
    PROVE  CallsTyped(Superseded(cs)) /\ \A c \in Superseded(cs) : ~LiveSearch(c)
<1> DEFINE f == [c \in cs |-> IF c.op = "search" THEN [c EXCEPT !.live = FALSE] ELSE c]
<1>1. f = [c \in cs |-> f[c]] /\ Superseded(cs) = {f[c] : c \in cs}
  BY DEF Superseded
<1>2. ASSUME NEW c \in cs
      PROVE  /\ f[c] \in PickCall /\ ~LiveSearch(f[c])
             /\ f[c].op = "open" => f[c].id \in Folders
  <2>1. c \in PickCall /\ (c.op = "open" => c.id \in Folders)
    BY DEF CallsTyped
  <2>2. CASE c.op = "search"
    <3>1. PICK d : d = [c EXCEPT !.live = FALSE]
      OBVIOUS
    <3>2. d \in PickCall /\ d.op = "search" /\ ~d.live
      BY <2>1, <2>2, <3>1 DEF PickCall
    <3>3. f[c] = d
      BY <2>2, <3>1
    <3> QED
      BY <3>2, <3>3 DEF LiveSearch
  <2>3. CASE c.op # "search"
    BY <2>1, <2>3 DEF LiveSearch
  <2> QED
    BY <2>2, <2>3
<1> HIDE DEF f
<1>3. IsFiniteSet(Superseded(cs))
  BY <1>1, ImageIsFinite DEF CallsTyped
<1> QED
  BY <1>1, <1>2, <1>3 DEF CallsTyped

Askable(op, id, req) ==
    /\ op \in {"roots", "open", "search"} /\ req \in Request \cup {None}
    /\ id \in Folders \/ (id = None /\ op # "open")

NewAsk(cs, op, id, req) ==
    [op |-> op, id |-> id, req |-> req, live |-> TRUE, answer |-> "none",
     pages |-> 0, n |-> PickN(cs)]

LEMMA AskedCalls ==
    ASSUME NEW cs, CallsTyped(cs), NEW op, NEW id, NEW req, Askable(op, id, req)
    PROVE  LET new == NewAsk(cs, op, id, req)
           IN  /\ Asked(cs, op, id, req) = cs \cup {new}
               /\ new.op = op /\ new.req = req
               /\ CallsTyped(cs \cup {new})
<1>0. PICK new : new = NewAsk(cs, op, id, req)
  OBVIOUS
<1>1. PickN(cs) \in Nat
  BY SomeNumberIsFree DEF CallsTyped
<1>2. new \in PickCall /\ new.op = op /\ new.req = req /\ new.id = id
  BY <1>0, <1>1 DEF PickCall, NewAsk, Askable
<1>3. Asked(cs, op, id, req) = cs \cup {new}
  BY <1>0 DEF Asked, NewAsk
<1>4. CallsTyped(cs \cup {new})
  BY <1>2, FS_AddElement DEF CallsTyped, Askable
<1> QED
  BY <1>0, <1>2, <1>3, <1>4

LEMMA DroppedCalls ==
    ASSUME NEW cs, CallsTyped(cs), NEW c
    PROVE  CallsTyped(cs \ {c})
BY FS_RemoveElement DEF CallsTyped

\* The record of a search that starts over.
LEMMA NewHuntFields ==
    ASSUME NEW query \in Terms \cup {TooShort}, NEW p \in {1, 2}, NEW loading \in BOOLEAN
    PROVE  LET h == [NewHunt EXCEPT !.query = query, !.page = p, !.loading = loading]
           IN  h \in Hunt /\ h.query = query /\ h.page = p /\ h.of = None
<1>1. PICK h : h = [NewHunt EXCEPT !.query = query, !.page = p, !.loading = loading]
  OBVIOUS
<1>2. h = [query |-> query, page |-> p, loading |-> loading, error |-> FALSE,
           of |-> None, pages |-> 0]
  BY <1>1 DEF NewHunt
<1>3. h \in Hunt /\ h.query = query /\ h.page = p /\ h.of = None
  BY <1>2 DEF Hunt
<1> QED
  BY <1>1, <1>3

LEMMA TopTyped == ASSUME NEW stack \in Seq(Folders) PROVE Top(stack) \in Folders \cup {None}
  BY DEF Top

\* Whatever starts the search over leaves nothing found, and no call to take.
LEMMA SearchKeeps ==
    ASSUME NEW query \in Terms \cup {TooShort}, NEW p \in {1, 2}, NEW stack,
           NEW cs, CallsTyped(cs), Search(query, p, stack, cs),
           picking' \in BOOLEAN, picking' \/ query = TooShort,
           place' \in Place, place'.stack = stack
    PROVE  PickerInv'
<1>1. hunt' \in Hunt /\ hunt'.query = query /\ hunt'.page = p /\ hunt'.of = None
  <2>1. PICK loading \in BOOLEAN : loading = (query # TooShort)
    OBVIOUS
  <2>2. hunt' = [NewHunt EXCEPT !.query = query, !.page = p, !.loading = loading]
    BY <2>1 DEF Search
  <2> QED
    BY <2>2, NewHuntFields
<1>2. CallsTyped(pcalls') /\ \A c \in pcalls' : ~LiveSearch(c)
  BY SupersededCalls DEF Search
<1>3. stack \in Seq(Folders) /\ Top(stack) \in Folders \cup {None}
  BY TopTyped DEF Place
<1>4. delay' \in Request \cup {None} /\ (delay' # None => picking' /\ delay' = Wanted')
  BY <1>1, <1>3 DEF Search, Request, Wanted
<1>5. PickerTypeOK'
  BY <1>1, <1>2, <1>4 DEF PickerTypeOK, CallsTyped
<1>6. FoundHere'
  BY <1>1 DEF FoundHere
<1> QED
  BY <1>2, <1>4, <1>5, <1>6 DEF PickerInv

\* What is left of the dialog's calls and of its search in the other steps.
LEMMA CallsKeep ==
    ASSUME PickerInv, place' \in Place, place'.stack = place.stack,
           UNCHANGED <<picking, hunt>>, delay' \in {delay, None}, CallsTyped(pcalls'),
           \A c \in pcalls' : LiveSearch(c) => picking /\ c.req = Wanted
    PROVE  PickerInv'
<1>1. Wanted' = Wanted
  BY DEF Wanted, Top
<1>2. FoundHere'
  BY DEF PickerInv, FoundHere, Top
<1>3. PickerTypeOK'
  BY DEF PickerInv, PickerTypeOK, CallsTyped
<1> QED
  BY <1>1, <1>2, <1>3 DEF PickerInv

\* The fields of the record of the folders.
LEMMA PlaceFields ==
    ASSUME NEW p \in Place, NEW loading \in BOOLEAN, NEW error \in BOOLEAN,
           NEW stack \in Seq(Folders)
    PROVE  /\ [p EXCEPT !.loading = loading, !.error = error] \in Place
           /\ [p EXCEPT !.loading = loading, !.error = error].stack = p.stack
           /\ [p EXCEPT !.stack = stack, !.error = error] \in Place
           /\ [p EXCEPT !.stack = stack, !.error = error].stack = stack
<1>1. PICK q : q = [p EXCEPT !.loading = loading, !.error = error]
  OBVIOUS
<1>2. q \in Place /\ q.stack = p.stack
  BY <1>1 DEF Place
<1>3. PICK r : r = [p EXCEPT !.stack = stack, !.error = error]
  OBVIOUS
<1>4. r \in Place /\ r.stack = stack
  BY <1>3 DEF Place
<1> QED
  BY <1>1, <1>2, <1>3, <1>4

LEMMA OpenKeeps == ASSUME PickerInv, OpenPicker PROVE PickerInv'
<1> DEFINE new == NewAsk(pcalls, "roots", None, None)
<1>1. Asked(pcalls, "roots", None, None) = pcalls \cup {new} /\ CallsTyped(pcalls \cup {new})
  <2>1. CallsTyped(pcalls) /\ Askable("roots", None, None)
    BY DEF PickerInv, Askable
  <2> QED
    BY <2>1, AskedCalls
<1> HIDE DEF new
<1>2. Search(TooShort, 1, <<>>, pcalls \cup {new})
  BY <1>1 DEF OpenPicker
<1>3. place' \in Place /\ place'.stack = <<>> /\ picking' = TRUE
  BY DEF OpenPicker, Place
<1> QED
  BY <1>1, <1>2, <1>3, SearchKeeps

LEMMA CloseKeeps == ASSUME PickerInv, ClosePicker PROVE PickerInv'
<1>1. hunt.query \in Terms \cup {TooShort} /\ hunt.page \in {1, 2}
  BY DEF PickerInv, PickerTypeOK, Hunt
<1>2. hunt' \in Hunt /\ hunt'.of = None
  <2>1. PICK query, p : query = hunt.query /\ p = hunt.page
    OBVIOUS
  <2>2. PICK h : h = [NewHunt EXCEPT !.query = query, !.page = p]
    OBVIOUS
  <2>3. h = [query |-> query, page |-> p, loading |-> FALSE, error |-> FALSE,
             of |-> None, pages |-> 0]
    BY <2>2 DEF NewHunt
  <2>4. h \in Hunt /\ h.of = None
    BY <1>1, <2>1, <2>3 DEF Hunt
  <2>5. hunt' = h
    BY <2>1, <2>2 DEF ClosePicker
  <2> QED
    BY <2>4, <2>5
<1>3. CallsTyped(pcalls') /\ \A c \in pcalls' : ~LiveSearch(c)
  BY SupersededCalls DEF ClosePicker, PickerInv
<1> QED
  BY <1>2, <1>3 DEF PickerInv, PickerTypeOK, CallsTyped, FoundHere, ClosePicker

LEMMA openFolderKeeps == ASSUME PickerInv, NEW f \in Folders, openFolder(f) PROVE PickerInv'
<1> DEFINE new == NewAsk(pcalls, "open", f, None)
<1>1. pcalls' = pcalls \cup {new} /\ new.op = "open" /\ CallsTyped(pcalls \cup {new})
  <2>1. CallsTyped(pcalls) /\ Askable("open", f, None)
    BY DEF PickerInv, Askable
  <2>2. Asked(pcalls, "open", f, None) = pcalls \cup {new} /\ new.op = "open" /\ CallsTyped(pcalls \cup {new})
    BY <2>1, AskedCalls
  <2> QED
    BY <2>2 DEF openFolder
<1> HIDE DEF new
<1>2. place' \in Place /\ place'.stack = place.stack
  BY DEF openFolder, PickerInv, PickerTypeOK, Place
<1>3. \A c \in pcalls' : LiveSearch(c) => c \in pcalls
  BY <1>1 DEF LiveSearch
<1> QED
  BY <1>1, <1>2, <1>3, CallsKeep DEF openFolder, PickerInv

LEMMA navigateToKeeps ==
    ASSUME PickerInv, NEW i \in 0 .. Len(place.stack), navigateTo(i)
    PROVE  PickerInv'
<1>1. place \in Place /\ place.stack \in Seq(Folders)
  BY DEF PickerInv, PickerTypeOK, Place
<1>2. SubSeq(place.stack, 1, i) \in Seq(Folders)
  BY <1>1
<1>3. place' \in Place
  <2>1. PICK t : t = SubSeq(place.stack, 1, i)
    OBVIOUS
  <2>2. place' = [place EXCEPT !.stack = t, !.error = FALSE] /\ t \in Seq(Folders)
    BY <1>2, <2>1 DEF navigateTo
  <2> QED
    BY <1>1, <2>2, PlaceFields
<1>4. Search(TooShort, 1, place'.stack, pcalls) /\ picking' = TRUE
  BY DEF navigateTo, PickerInv, PickerTypeOK
<1> QED
  BY <1>3, <1>4, SearchKeeps DEF PickerInv

LEMMA TypeKeeps ==
    ASSUME PickerInv, NEW q \in Terms \cup {TooShort}, Type(q)
    PROVE  PickerInv'
<1>1. place' \in Place /\ place'.stack = place.stack /\ picking' = TRUE
  BY DEF Type, PickerInv, PickerTypeOK
<1> QED
  BY <1>1, SearchKeeps DEF Type, PickerInv

LEMMA TurnKeeps == ASSUME PickerInv, NEW p \in {1, 2}, TurnPage(p) PROVE PickerInv'
<1>1. place' \in Place /\ place'.stack = place.stack /\ picking' = TRUE
  BY DEF TurnPage, PickerInv, PickerTypeOK
<1>2. hunt.query \in Terms \cup {TooShort}
  BY DEF PickerInv, PickerTypeOK, Hunt
<1> QED
  BY <1>1, <1>2, SearchKeeps DEF TurnPage, PickerInv

LEMMA DelayKeeps == ASSUME PickerInv, DelayEnds PROVE PickerInv'
<1>1. delay \in Request /\ delay = Wanted /\ picking
  BY DEF DelayEnds, PickerInv, PickerTypeOK
<1> DEFINE new == NewAsk(pcalls, "search", None, delay)
<1>2. pcalls' = pcalls \cup {new} /\ new.req = delay /\ CallsTyped(pcalls \cup {new})
  <2>1. CallsTyped(pcalls) /\ Askable("search", None, delay)
    BY <1>1 DEF PickerInv, Askable
  <2>2. /\ Asked(pcalls, "search", None, delay) = pcalls \cup {new}
        /\ new.req = delay /\ CallsTyped(pcalls \cup {new})
    BY <1>1, <2>1, AskedCalls
  <2> QED
    BY <2>2 DEF DelayEnds
<1> HIDE DEF new
<1>3. \A c \in pcalls' : LiveSearch(c) => picking /\ c.req = Wanted
  BY <1>1, <1>2 DEF PickerInv
<1>4. place \in Place
  BY DEF PickerInv, PickerTypeOK
<1> QED
  BY <1>2, <1>3, <1>4, CallsKeep DEF DelayEnds

LEMMA ServePickKeeps == ASSUME PickerInv, NEW c \in pcalls, ServePick(c) PROVE PickerInv'
<1>1. c \in PickCall /\ CallsTyped(pcalls) /\ (c.op = "open" => c.id \in Folders)
  BY DEF PickerInv, CallsTyped
<1>2. PICK d \in PickCall : /\ pcalls' = (pcalls \ {c}) \cup {d}
                            /\ d.op = c.op /\ d.id = c.id /\ d.live = c.live /\ d.req = c.req
  <2>1. CASE \E p \in {0, 2} :
                pcalls' = (pcalls \ {c}) \cup {[c EXCEPT !.answer = "done", !.pages = p]}
    <3>1. PICK p \in {0, 2} :
              pcalls' = (pcalls \ {c}) \cup {[c EXCEPT !.answer = "done", !.pages = p]}
      BY <2>1
    <3>2. PICK d : d = [c EXCEPT !.answer = "done", !.pages = p]
      OBVIOUS
    <3>3. /\ d \in PickCall
          /\ d.op = c.op /\ d.id = c.id /\ d.live = c.live /\ d.req = c.req
      BY <1>1, <3>2 DEF PickCall
    <3> QED
      BY <3>1, <3>2, <3>3
  <2>2. CASE pcalls' = (pcalls \ {c}) \cup {[c EXCEPT !.answer = "failed"]}
    <3>1. PICK d : d = [c EXCEPT !.answer = "failed"]
      OBVIOUS
    <3>2. /\ d \in PickCall
          /\ d.op = c.op /\ d.id = c.id /\ d.live = c.live /\ d.req = c.req
      BY <1>1, <3>1 DEF PickCall
    <3> QED
      BY <2>2, <3>1, <3>2
  <2>3. \A p : p \in (IF c.op = "search" THEN {0, 2} ELSE {0}) => p \in {0, 2}
    OBVIOUS
  <2> QED
    BY <2>1, <2>2, <2>3 DEF ServePick
<1>3. CallsTyped(pcalls')
  BY <1>1, <1>2, FS_RemoveElement, FS_AddElement DEF CallsTyped
<1>4. \A e \in pcalls' : LiveSearch(e) => picking /\ e.req = Wanted
  BY <1>2 DEF PickerInv, LiveSearch
<1>5. place \in Place
  BY DEF PickerInv, PickerTypeOK
<1> QED
  BY <1>3, <1>4, <1>5, CallsKeep DEF ServePick

LEMMA TakenFields ==
    ASSUME NEW p \in Place, place = p, NEW c
    PROVE  Taken(c) \in Place /\ Taken(c).stack = p.stack
<1>1. PICK error \in BOOLEAN : error = (p.error \/ c.answer = "failed")
  BY Zenon DEF Place
<1>2. Taken(c) = [p EXCEPT !.loading = FALSE, !.error = error]
  BY <1>1, Zenon DEF Taken
<1>3. p.stack \in Seq(Folders)
  BY DEF Place
<1>4. PICK q : q = [p EXCEPT !.loading = FALSE, !.error = error]
  OBVIOUS
<1>5. q \in Place /\ q.stack = p.stack
  BY <1>4 DEF Place
<1> QED
  BY <1>2, <1>4, <1>5

LEMMA RootsKeep == ASSUME PickerInv, NEW c \in pcalls, RootsTaken(c) PROVE PickerInv'
<1>1. place \in Place /\ CallsTyped(pcalls \ {c})
  BY DroppedCalls DEF PickerInv, PickerTypeOK
<1>2. PICK t : t = Taken(c)
  OBVIOUS
<1>3. t \in Place /\ t.stack = place.stack
  BY <1>1, <1>2, TakenFields
<1>4. [t EXCEPT !.roots = Roots] \in Place /\ [t EXCEPT !.roots = Roots].stack = t.stack
  BY <1>3, PlacesAssumption DEF Place
<1>5. place' \in Place /\ place'.stack = place.stack
  BY <1>2, <1>3, <1>4 DEF RootsTaken
<1>6. \A d \in pcalls' : LiveSearch(d) => picking /\ d.req = Wanted
  BY DEF RootsTaken, PickerInv
<1> QED
  BY <1>1, <1>5, <1>6, CallsKeep DEF RootsTaken

LEMMA FolderKeeps == ASSUME PickerInv, NEW c \in pcalls, FolderTaken(c) PROVE PickerInv'
<1>1. place \in Place /\ CallsTyped(pcalls \ {c}) /\ c.id \in Folders
  BY DroppedCalls DEF PickerInv, PickerTypeOK, FolderTaken, CallsTyped
<1>2. PICK t : t = Taken(c)
  OBVIOUS
<1>3. t \in Place /\ t.stack = place.stack
  BY <1>1, <1>2, TakenFields
<1>4. CASE c.answer = "failed"
  <2>1. place' \in Place /\ place'.stack = place.stack
    BY <1>2, <1>3, <1>4 DEF FolderTaken
  <2>2. \A d \in pcalls' : LiveSearch(d) => picking /\ d.req = Wanted
    BY <1>4 DEF FolderTaken, PickerInv
  <2> QED
    BY <1>1, <1>4, <2>1, <2>2, CallsKeep DEF FolderTaken
<1>5. CASE c.answer # "failed"
  <2>1. PICK stack : stack = Append(t.stack, c.id)
    OBVIOUS
  <2>2. stack \in Seq(Folders)
    BY <1>1, <1>3, <2>1 DEF Place
  <2>3. [t EXCEPT !.stack = stack] \in Place /\ [t EXCEPT !.stack = stack].stack = stack
    BY <1>3, <2>2 DEF Place
  <2>4. place' = [t EXCEPT !.stack = stack]
    BY <1>2, <1>5, <2>1 DEF FolderTaken
  <2>5. Search(TooShort, 1, place'.stack, pcalls \ {c})
    BY <1>5 DEF FolderTaken
  <2> QED
    BY <1>1, <2>3, <2>4, <2>5, SearchKeeps DEF FolderTaken, PickerInv, PickerTypeOK
<1> QED
  BY <1>4, <1>5

LEMMA SearchTakenKeeps == ASSUME PickerInv, NEW c \in pcalls, SearchTaken(c) PROVE PickerInv'
<1>1. place \in Place /\ hunt \in Hunt /\ c \in PickCall /\ CallsTyped(pcalls \ {c})
  BY DroppedCalls DEF PickerInv, PickerTypeOK
<1>2. \A d \in pcalls' : LiveSearch(d) => picking /\ d.req = Wanted
  BY DEF SearchTaken, PickerInv
<1>3. CASE ~c.live
  BY <1>1, <1>2, <1>3, CallsKeep DEF SearchTaken
<1>4. CASE c.live
  <2>1. c.req = Wanted /\ picking
    BY <1>4 DEF PickerInv, LiveSearch, SearchTaken
  <2>2. PICK error \in BOOLEAN : error = (c.answer = "failed")
    OBVIOUS
  <2>3. hunt' = [hunt EXCEPT !.loading = FALSE, !.of = c.req, !.pages = c.pages, !.error = error]
    BY <1>4, <2>2 DEF SearchTaken
  <2>4. hunt' \in Hunt /\ hunt'.query = hunt.query /\ hunt'.page = hunt.page /\ hunt'.of = c.req
    BY <1>1, <2>3 DEF Hunt, PickCall
  <2>5. Wanted' = Wanted
    BY <2>4 DEF SearchTaken, Wanted, Top
  <2>6. FoundHere'
    BY <2>1, <2>4, <2>5 DEF FoundHere, Wanted, SearchTaken
  <2>7. PickerTypeOK'
    BY <1>1, <2>4 DEF PickerInv, PickerTypeOK, SearchTaken, CallsTyped
  <2> QED
    BY <1>1, <1>2, <2>5, <2>6, <2>7 DEF PickerInv, SearchTaken
<1> QED
  BY <1>3, <1>4

LEMMA PickerInitInv == PickerInit => PickerInv
<1> SUFFICES ASSUME PickerInit PROVE PickerInv
  OBVIOUS
<1>1. hunt \in Hunt /\ hunt.of = None
  BY DEF PickerInit, NewHunt, Hunt
<1>2. place \in Place
  BY DEF PickerInit, Place
<1>3. CallsTyped(pcalls)
  BY FS_EmptySet DEF PickerInit, CallsTyped
<1> QED
  BY <1>1, <1>2, <1>3 DEF PickerInit, PickerInv, PickerTypeOK, FoundHere

LEMMA SamePicker == ASSUME PickerInv, UNCHANGED pvars PROVE PickerInv'
<1>1. Wanted' = Wanted
  BY DEF pvars, Wanted, Top
<1>2. FoundHere'
  BY DEF pvars, PickerInv, FoundHere, Top
<1> QED
  BY <1>1, <1>2 DEF pvars, PickerInv, PickerTypeOK

LEMMA PickKeeps == PickerInv /\ Pick => PickerInv'
<1> SUFFICES ASSUME PickerInv, Pick PROVE PickerInv'
  OBVIOUS
<1>1. CASE OpenPicker
  BY <1>1, OpenKeeps
<1>2. CASE ClosePicker
  BY <1>2, CloseKeeps
<1>3. ASSUME NEW f \in Folders, openFolder(f) PROVE PickerInv'
  BY <1>3, openFolderKeeps
<1>4. ASSUME NEW i \in 0 .. Len(place.stack), navigateTo(i) PROVE PickerInv'
  BY <1>4, navigateToKeeps
<1>5. ASSUME NEW q \in Terms \cup {TooShort}, Type(q) PROVE PickerInv'
  BY <1>5, TypeKeeps
<1>6. ASSUME NEW p \in {1, 2}, TurnPage(p) PROVE PickerInv'
  BY <1>6, TurnKeeps
<1> QED
  BY <1>1, <1>2, <1>3, <1>4, <1>5, <1>6 DEF Pick

LEMMA PickerStep == PickerInv /\ [Next]_vars => PickerInv'
<1> SUFFICES ASSUME PickerInv, [Next]_vars PROVE PickerInv'
  OBVIOUS
<1>1. CASE User
  <2>1. CASE Pick
    BY <2>1, PickKeeps
  <2>2. CASE ~Pick
    BY <1>1, <2>2, SamePicker
       DEF User, History, AddUsr, RemoveUsr, AddNode, RemoveNode, Change, Retry, RetryUsrs,
           AskDelete, Dismiss, Confirm
  <2> QED
    BY <2>1, <2>2
<1>2. CASE Server
  <2>1. ASSUME NEW c \in calls, Serve(c) \/ Fail(c) PROVE PickerInv'
    BY <2>1, SamePicker DEF Serve, Fail
  <2>2. ASSUME NEW c \in pcalls, ServePick(c) PROVE PickerInv'
    BY <2>2, ServePickKeeps
  <2> QED
    BY <1>2, <2>1, <2>2 DEF Server
<1>3. CASE Script
  <2>1. CASE UsrsLoaded
    BY <2>1, SamePicker DEF UsrsLoaded
  <2>2. ASSUME NEW c \in calls, Loaded(c) PROVE PickerInv'
    BY <2>2, SamePicker, CloseKeeps DEF Loaded
  <2>3. ASSUME NEW c \in calls, Done(c) \/ NotDeleted(c) PROVE PickerInv'
    BY <2>3, SamePicker DEF Done, NotDeleted
  <2>4. ASSUME NEW c \in calls, Deleted(c) PROVE PickerInv'
    <3>2. hunt' \in Hunt /\ hunt'.of = None
      BY <2>4 DEF Deleted, NewHunt, Hunt
    <3>3. place' \in Place
      BY <2>4 DEF Deleted, Place
    <3>4. CallsTyped(pcalls')
      BY <2>4, FS_EmptySet DEF Deleted, CallsTyped
    <3> QED
      BY <2>4, <3>2, <3>3, <3>4 DEF Deleted, PickerInv, PickerTypeOK, FoundHere
  <2>5. CASE DelayEnds
    BY <2>5, DelayKeeps
  <2>6. ASSUME NEW c \in pcalls, RootsTaken(c) \/ FolderTaken(c) \/ SearchTaken(c)
        PROVE  PickerInv'
    BY <2>6, RootsKeep, FolderKeeps, SearchTakenKeeps
  <2> QED
    BY <1>3, <2>1, <2>2, <2>3, <2>4, <2>5, <2>6 DEF Script
<1>4. CASE UNCHANGED vars
  BY <1>4, SamePicker DEF vars
<1> QED
  BY <1>1, <1>2, <1>3, <1>4 DEF Next

LEMMA PickerInvariance == Spec => []PickerInv
<1>1. Init => PickerInv
  BY PickerInitInv DEF Init
<1>2. PickerInv /\ [Next]_vars => PickerInv'
  BY PickerStep
<1> QED
  BY <1>1, <1>2, PTL DEF Spec

\* What the dialog shows as found was searched for with its query, its page and below
\* the folder it is in (GroupNodePicker.jsx), whatever overtakes what.
THEOREM FoundHereHolds == Spec => []FoundHere
<1>1. PickerInv => FoundHere
  BY DEF PickerInv
<1> QED
  BY <1>1, PickerInvariance, PTL

-----------------------------------------------------------------------------
(***************************************************************************)
(* The page: its types, its calls, and the group it waits for.             *)
(***************************************************************************)
PageTyped ==
    /\ role \in Accounts /\ exists \subseteq Groups
    /\ members \in [Groups -> SUBSET Usrs] /\ shared \in [Groups -> SUBSET Nodes]
    /\ route \in Groups \cup {Home}
    /\ view \in [group : Answer \cup {None}, loading : BOOLEAN, error : BOOLEAN]
    /\ avail \in {"loading", "ready", "failed"}
    /\ busy \subseteq Changes
    /\ del \in [open : BOOLEAN, busy : BOOLEAN]
    /\ ops \in 0 .. MaxOps /\ lost \in BOOLEAN

\* Who is to be added is of the kind the call is about, and an answer is of the group
\* that was asked for.
CallSound(c) ==
    /\ c \in Call
    /\ c.op = "addUsr" => c.who \in Usrs
    /\ c.op = "addNode" => c.who \in Nodes
    /\ c.op = "get" /\ c.answer = "done" => c.group \in Answer /\ c.group.id = c.id

CallsSound(cs) == IsFiniteSet(cs) /\ \A c \in cs : CallSound(c)

LiveGet(c) == c.op = "get" /\ c.live

\* The answer that would be taken is the one the page waits for, of the route's group.
WaitedFor ==
    /\ \A c \in calls : LiveGet(c) => view.loading /\ c.id = route
    /\ \A c, d \in calls : LiveGet(c) /\ LiveGet(d) => c = d

\* A page that has been left has no calls; one at rest has a group.
AtHome == route = Home => calls = {} /\ view.group = None
OnDisplay == Shown => view.group \in Answer

PageInv == PageTyped /\ CallsSound(calls) /\ WaitedFor /\ AtHome /\ OnDisplay

(***************************************************************************)
(* A change that was made here has its answer still to be taken, or has    *)
(* had the group read again.                                               *)
(***************************************************************************)
Now(g) == [id |-> g, usrs |-> members[g], nodes |-> shared[g]]

Untold == \E c \in calls : c.op \in Changes /\ c.answer = "done"

UpToDate ==
    ~lost /\ ~Untold =>
        /\ Shown => view.group = Now(route)
        /\ \A c \in calls : LiveGet(c) /\ c.answer = "done" => c.group = Now(c.id)

\* The calls that the handlers make.
Sendable(op, id, who, closes) ==
    /\ op \in {"get", "delete"} \cup Changes /\ id \in Groups
    /\ who \in Usrs \cup Nodes \cup {None} /\ closes \in BOOLEAN
    /\ op = "addUsr" => who \in Usrs
    /\ op = "addNode" => who \in Nodes

NewCall(cs, op, id, who, closes) ==
    [op |-> op, id |-> id, who |-> who, live |-> TRUE, answer |-> "none",
     group |-> None, closes |-> closes, n |-> N(cs)]

LEMMA SentCalls ==
    ASSUME NEW cs, CallsSound(cs), NEW op, NEW id, NEW who, NEW closes,
           Sendable(op, id, who, closes)
    PROVE  LET new == NewCall(cs, op, id, who, closes)
           IN  /\ Sent(cs, op, id, who, closes) = cs \cup {new}
               /\ CallsSound(cs \cup {new})
               /\ new.op = op /\ new.id = id /\ new.answer = "none"
<1>1. PICK new : new = NewCall(cs, op, id, who, closes)
  OBVIOUS
<1>2. N(cs) \in Nat
  BY SomeNumberIsFree DEF CallsSound
<1>3. new \in Call /\ new.op = op /\ new.id = id /\ new.answer = "none" /\ new.who = who
  BY <1>1, <1>2 DEF NewCall, Call, Sendable
<1>4. Sent(cs, op, id, who, closes) = cs \cup {new}
  BY <1>1 DEF Sent, NewCall
<1>5. CallSound(new)
  BY <1>3 DEF CallSound, Sendable
<1>6. CallsSound(cs \cup {new})
  BY <1>5, FS_AddElement DEF CallsSound
<1> QED
  BY <1>1, <1>3, <1>4, <1>6

LEMMA OutdatedCalls ==
    ASSUME NEW cs, CallsSound(cs)
    PROVE  CallsSound(Outdated(cs)) /\ \A c \in Outdated(cs) : ~LiveGet(c)
<1> DEFINE f == [c \in cs |-> IF c.op = "get" THEN [c EXCEPT !.live = FALSE] ELSE c]
<1>1. f = [c \in cs |-> f[c]] /\ Outdated(cs) = {f[c] : c \in cs}
  BY DEF Outdated
<1>2. ASSUME NEW c \in cs PROVE CallSound(f[c]) /\ ~LiveGet(f[c])
  <2>1. CallSound(c)
    BY DEF CallsSound
  <2>2. CASE c.op = "get"
    <3>1. PICK d : d = [c EXCEPT !.live = FALSE]
      OBVIOUS
    <3>2. /\ d \in Call /\ d.op = "get" /\ ~d.live
          /\ d.answer = c.answer /\ d.group = c.group /\ d.id = c.id
      BY <2>1, <2>2, <3>1 DEF CallSound, Call
    <3>3. f[c] = d
      BY <2>2, <3>1
    <3> QED
      BY <2>1, <2>2, <3>2, <3>3 DEF LiveGet, CallSound
  <2>3. CASE c.op # "get"
    BY <2>1, <2>3 DEF LiveGet
  <2> QED
    BY <2>2, <2>3
<1> HIDE DEF f
<1>3. IsFiniteSet(Outdated(cs))
  BY <1>1, ImageIsFinite DEF CallsSound
<1> QED
  BY <1>1, <1>2, <1>3 DEF CallsSound

LEMMA DroppedCall == ASSUME NEW cs, CallsSound(cs), NEW c PROVE CallsSound(cs \ {c})
BY FS_RemoveElement DEF CallsSound

AnswerTo(c, answer) ==
    [c EXCEPT !.answer = answer,
              !.group = IF c.op = "get" /\ answer = "done"
                        THEN [id |-> c.id, usrs |-> members[c.id], nodes |-> shared[c.id]]
                        ELSE None]

LEMMA AnsweredCalls ==
    ASSUME PageTyped, NEW c, CallSound(c), NEW answer \in {"done", "failed"}
    PROVE  LET d == AnswerTo(c, answer)
           IN  /\ CallSound(d) /\ d.answer = answer /\ d.op = c.op /\ d.id = c.id
               /\ d.live = c.live
               /\ c.op = "get" /\ answer = "done" => d.group = Now(c.id)
<1>1. PICK a : a = IF c.op = "get" /\ answer = "done" THEN Now(c.id) ELSE None
  OBVIOUS
<1>2. c \in Call /\ c.id \in Groups
  BY DEF CallSound, Call
<1>3. Now(c.id) \in Answer /\ Now(c.id).id = c.id
  BY <1>2 DEF PageTyped, Answer, Now
<1>4. PICK d : d = AnswerTo(c, answer)
  OBVIOUS
<1>5. d = [c EXCEPT !.answer = answer, !.group = a]
  BY <1>1, <1>4 DEF AnswerTo, Now
<1>6. /\ d \in Call /\ d.answer = answer /\ d.op = c.op /\ d.id = c.id /\ d.who = c.who
      /\ d.live = c.live /\ d.group = a
  BY <1>1, <1>2, <1>3, <1>5 DEF Call
<1>7. CallSound(d)
  BY <1>1, <1>3, <1>6 DEF CallSound
<1> QED
  BY <1>1, <1>4, <1>6, <1>7

LEMMA NotHome == ASSUME NEW g \in Groups PROVE g # Home
BY GroupsAssumption

\* Reading the group makes every other answer one that is dropped.
LEMMA LoadKeeps ==
    ASSUME PageTyped', NEW cs, CallsSound(cs), NEW closes \in BOOLEAN, route' \in Groups,
           calls' = Sent(Outdated(cs), "get", route', None, closes), view'.loading
    PROVE  PageInv' /\ UpToDate' /\ GroupLookup!Ask
<1>0. PICK g \in Groups : g = route'
  OBVIOUS
<1>1. CallsSound(Outdated(cs)) /\ \A c \in Outdated(cs) : ~LiveGet(c)
  BY OutdatedCalls
<1> DEFINE new == NewCall(Outdated(cs), "get", g, None, closes)
<1>2. /\ calls' = Outdated(cs) \cup {new} /\ CallsSound(calls')
      /\ new.op = "get" /\ new.id = g /\ new.answer = "none"
  <2>1. Sendable("get", g, None, closes)
    BY DEF Sendable
  <2>2. /\ Sent(Outdated(cs), "get", g, None, closes) = Outdated(cs) \cup {new}
        /\ CallsSound(Outdated(cs) \cup {new})
        /\ new.op = "get" /\ new.id = g /\ new.answer = "none"
    BY <1>1, <2>1, SentCalls
  <2> QED
    BY <1>0, <2>2
<1> HIDE DEF new
<1>3. \A c \in calls' : LiveGet(c) => c = new
  BY <1>1, <1>2
<1>4. WaitedFor'
  BY <1>0, <1>2, <1>3 DEF WaitedFor
<1>5. route' # Home /\ ~Shown'
  BY NotHome DEF Shown
<1>6. UpToDate'
  BY <1>2, <1>3, <1>5 DEF UpToDate
<1>7. GroupLookup!Ask
  BY <1>5 DEF GroupLookup!Ask
<1> QED
  BY <1>2, <1>4, <1>5, <1>6, <1>7 DEF PageInv, AtHome, OnDisplay

\* A step of no consequence for the group on display.
LEMMA RestKeeps ==
    ASSUME PageInv, PageTyped', UNCHANGED <<route, view>>, CallsSound(calls'),
           \A c \in calls' : LiveGet(c) => c \in calls, route = Home => calls' = {}
    PROVE  PageInv' /\ UNCHANGED GroupLookup!lvars
<1>1. WaitedFor'
  BY DEF PageInv, WaitedFor
<1>2. AtHome' /\ OnDisplay'
  BY DEF PageInv, AtHome, OnDisplay, Shown
<1>3. UNCHANGED GroupLookup!lvars
  BY DEF GroupLookup!lvars, Shown
<1> QED
  BY <1>1, <1>2, <1>3 DEF PageInv

LEMMA RestCurrent ==
    ASSUME UpToDate, UNCHANGED <<route, view, members, shared>>, ~lost' => ~lost,
           \A c \in calls : c.op \in Changes /\ c.answer = "done" =>
              \E d \in calls' : d.op \in Changes /\ d.answer = "done",
           \A c \in calls' : LiveGet(c) /\ c.answer = "done" => c \in calls
    PROVE  UpToDate'
<1>1. Untold => Untold'
  BY DEF Untold
<1>2. \A g : Now(g)' = Now(g)
  BY DEF Now
<1>3. Shown' => Shown
  BY DEF Shown
<1>4. Now(route)' = Now(route)
  BY DEF Now
<1> QED
  BY <1>1, <1>2, <1>3, <1>4 DEF UpToDate

Kept == PageInv' /\ UpToDate' /\ [GroupLookup!Next]_(GroupLookup!lvars)

\* The three ways the calls change in such steps.
LEMMA QuietKeeps ==
    ASSUME PageInv, UpToDate, PageTyped', UNCHANGED <<route, view, members, shared, calls, lost>>
    PROVE  Kept
<1>1. CallsSound(calls') /\ (route = Home => calls' = {})
  BY DEF PageInv, AtHome
<1> QED
  BY <1>1, RestKeeps, RestCurrent DEF Kept

LEMMA SendKeeps ==
    ASSUME PageInv, UpToDate, PageTyped', UNCHANGED <<route, view, members, shared, lost>>,
           NEW op, op # "get", NEW id, NEW who, NEW closes, Sendable(op, id, who, closes),
           calls' = Sent(calls, op, id, who, closes), route # Home
    PROVE  Kept
<1> DEFINE new == NewCall(calls, op, id, who, closes)
<1>1. /\ calls' = calls \cup {new} /\ CallsSound(calls')
      /\ new.op = op /\ new.answer = "none"
  <2>1. CallsSound(calls)
    BY DEF PageInv
  <2>2. /\ Sent(calls, op, id, who, closes) = calls \cup {new}
        /\ CallsSound(calls \cup {new})
        /\ new.op = op /\ new.answer = "none"
    BY <2>1, SentCalls
  <2> QED
    BY <2>2
<1> HIDE DEF new
<1>2. \A c \in calls' : LiveGet(c) => c \in calls
  BY <1>1 DEF LiveGet
<1>3. PageInv' /\ UNCHANGED GroupLookup!lvars
  BY <1>1, <1>2, RestKeeps
<1>4. UpToDate'
  BY <1>1, <1>2, RestCurrent
<1> QED
  BY <1>3, <1>4 DEF Kept

LEMMA DropKeeps ==
    ASSUME PageInv, UpToDate, PageTyped', UNCHANGED <<route, view, members, shared, lost>>,
           NEW c, c.op \notin Changes \/ c.answer = "failed", calls' = calls \ {c}
    PROVE  Kept
<1>1. CallsSound(calls') /\ (route = Home => calls' = {})
  BY DroppedCall DEF PageInv, AtHome
<1>2. \A d \in calls : d.op \in Changes /\ d.answer = "done" => d \in calls'
  OBVIOUS
<1>3. PageInv' /\ UNCHANGED GroupLookup!lvars
  BY <1>1, RestKeeps
<1>4. UpToDate'
  BY <1>2, RestCurrent
<1> QED
  BY <1>3, <1>4 DEF Kept

-----------------------------------------------------------------------------
LEMMA OpsBounded == ASSUME ops \in 0 .. MaxOps, Ops PROVE ops' \in 0 .. MaxOps
  BY OpsAssumption DEF Ops

\* view.group is one while it is shown, and whoever changes it is on its page.
LEMMA ShownGroup ==
    ASSUME PageInv
    PROVE  /\ Shown \/ view.group # None => route # Home /\ view.group \in Answer
           /\ view.group \in Answer => view.group.id \in Groups
BY DEF PageInv, OnDisplay, AtHome, Shown, PageTyped, Answer

LEMMA ChangeKeeps ==
    ASSUME PageInv, UpToDate, NEW op \in Changes, NEW who, Change(op, who),
           who \in Usrs \cup Nodes, op = "addUsr" => who \in Usrs, op = "addNode" => who \in Nodes,
           Shown \/ view.group # None
    PROVE  Kept
<1>1. ops' \in 0 .. MaxOps
  BY OpsBounded DEF Change, PageInv, PageTyped
<1>2. PageTyped'
  BY <1>1 DEF Change, PageInv, PageTyped, server
<1>3. route # Home /\ Sendable(op, view.group.id, who, FALSE) /\ op # "get"
  BY ShownGroup DEF Sendable, Changes
<1> QED
  BY <1>2, <1>3, SendKeeps DEF Change, server

LEMMA ReadKeeps ==
    ASSUME PageInv, UpToDate, NEW cs, CallsSound(cs), NEW closes \in BOOLEAN, route # Home,
           Refresh(cs, closes), ops' \in 0 .. MaxOps, busy' \subseteq Changes,
           UNCHANGED <<role, exists, members, shared, route, avail, del, lost>>
    PROVE  Kept
<1>1. view' \in [group : Answer \cup {None}, loading : BOOLEAN, error : BOOLEAN] /\ view'.loading
  BY DEF Refresh, PageInv, PageTyped
<1>2. PageTyped' /\ route' \in Groups
  BY <1>1 DEF PageInv, PageTyped
<1>3. calls' = Sent(Outdated(cs), "get", route', None, closes)
  BY DEF Refresh
<1> QED
  BY <1>1, <1>2, <1>3, LoadKeeps DEF Kept, GroupLookup!Next

LEMMA HistoryKeeps == ASSUME PageInv, UpToDate, NEW g \in Groups, History(g) PROVE Kept
<1>1. ops' \in 0 .. MaxOps
  BY OpsBounded DEF History, PageInv, PageTyped
<1>2. PageTyped' /\ view'.loading
  BY <1>1 DEF History, PageInv, PageTyped, server
<1>3. calls' = Sent(Outdated(calls), "get", route', None, FALSE) /\ route' \in Groups
  BY DEF History
<1>4. CallsSound(calls)
  BY DEF PageInv
<1> QED
  BY <1>2, <1>3, <1>4, LoadKeeps DEF Kept, GroupLookup!Next

LEMMA UserSteps == PageInv /\ UpToDate /\ User => Kept
<1> SUFFICES ASSUME PageInv, UpToDate, User PROVE Kept
  OBVIOUS
<1>1. ASSUME NEW g \in Groups, History(g) PROVE Kept
  BY <1>1, HistoryKeeps
<1>2. ASSUME NEW u \in Usrs, AddUsr(u) \/ RemoveUsr(u) PROVE Kept
  BY <1>2, ChangeKeeps DEF AddUsr, RemoveUsr, Free, Changes
<1>3. ASSUME NEW n \in Nodes, AddNode(n) \/ RemoveNode(n) PROVE Kept
  BY <1>3, ChangeKeeps DEF AddNode, RemoveNode, Free, Changes
<1>4. CASE Retry
  <2>1. ops' \in 0 .. MaxOps /\ CallsSound(calls) /\ busy' \subseteq Changes
    BY <1>4, OpsBounded DEF Retry, PageInv, PageTyped
  <2> QED
    BY <1>4, <2>1, ReadKeeps DEF Retry, server
<1>5. CASE RetryUsrs \/ AskDelete \/ Dismiss
  <2>1. ops' \in 0 .. MaxOps
    BY <1>5, OpsBounded DEF RetryUsrs, AskDelete, Dismiss, PageInv, PageTyped
  <2>2. PageTyped'
    BY <1>5, <2>1 DEF RetryUsrs, AskDelete, Dismiss, PageInv, PageTyped, server
  <2> QED
    BY <1>5, <2>2, QuietKeeps DEF RetryUsrs, AskDelete, Dismiss, server
<1>6. CASE Confirm
  <2>1. ops' \in 0 .. MaxOps
    BY <1>6, OpsBounded DEF Confirm, PageInv, PageTyped
  <2>2. PageTyped'
    BY <1>6, <2>1 DEF Confirm, PageInv, PageTyped, server
  <2>3. route # Home /\ Sendable("delete", view.group.id, None, FALSE)
    BY <1>6, ShownGroup DEF Confirm, Sendable
  <2> QED
    BY <1>6, <2>2, <2>3, SendKeeps DEF Confirm, server
<1>7. CASE Pick
  <2>1. ops' \in 0 .. MaxOps
    BY <1>7, OpsBounded DEF Pick, PageInv, PageTyped
  <2>2. PageTyped'
    BY <1>7, <2>1 DEF Pick, PageInv, PageTyped, server
  <2> QED
    BY <1>7, <2>2, QuietKeeps DEF Pick, server
<1> QED
  BY <1>1, <1>2, <1>3, <1>4, <1>5, <1>6, <1>7 DEF User

LEMMA DoesTyped ==
    ASSUME PageTyped, NEW c, CallSound(c), Does(c)
    PROVE  /\ exists' \subseteq Groups
           /\ members' \in [Groups -> SUBSET Usrs] /\ shared' \in [Groups -> SUBSET Nodes]
           /\ c.op \notin Changes => UNCHANGED <<members, shared>>
<1>1. c.id \in Groups
  BY DEF CallSound, Call
<1>2. exists' \subseteq Groups
  BY DEF Does, PageTyped
<1>3. members' \in [Groups -> SUBSET Usrs]
  <2>1. CASE c.op = "addUsr"
    BY <1>1, <2>1 DEF Does, PageTyped, CallSound
  <2>2. CASE c.op = "removeUsr"
    BY <1>1, <2>2 DEF Does, PageTyped
  <2>3. CASE c.op \notin {"addUsr", "removeUsr"}
    BY <2>3 DEF Does, PageTyped
  <2> QED
    BY <2>1, <2>2, <2>3
<1>4. shared' \in [Groups -> SUBSET Nodes]
  <2>1. CASE c.op = "addNode"
    BY <1>1, <2>1 DEF Does, PageTyped, CallSound
  <2>2. CASE c.op = "removeNode"
    BY <1>1, <2>2 DEF Does, PageTyped
  <2>3. CASE c.op \notin {"addNode", "removeNode"}
    BY <2>3 DEF Does, PageTyped
  <2> QED
    BY <2>1, <2>2, <2>3
<1>5. c.op \notin Changes => UNCHANGED <<members, shared>>
  BY DEF Does, Changes
<1> QED
  BY <1>2, <1>3, <1>4, <1>5

\* One call has its answer, and the page has not looked yet.
LEMMA AnsweredKeeps ==
    ASSUME PageInv, NEW c \in calls, NEW answer \in {"done", "failed"}, Answered(c, answer),
           PageTyped', UNCHANGED <<route, view>>
    PROVE  /\ PageInv' /\ UNCHANGED GroupLookup!lvars
           /\ \E d : /\ calls' = (calls \ {c}) \cup {d} /\ d.op = c.op /\ d.id = c.id
                     /\ d.live = c.live /\ d.answer = answer
                     /\ c.op = "get" /\ answer = "done" => d.group = Now(c.id)
<1> DEFINE d == AnswerTo(c, answer)
<1>1. CallSound(c) /\ CallsSound(calls) /\ PageTyped
  BY DEF PageInv, CallsSound
<1>2. /\ CallSound(d) /\ d.op = c.op /\ d.id = c.id /\ d.live = c.live /\ d.answer = answer
      /\ c.op = "get" /\ answer = "done" => d.group = Now(c.id)
  BY <1>1, AnsweredCalls
<1>3. calls' = (calls \ {c}) \cup {d}
  BY DEF Answered, AnswerTo
<1> HIDE DEF d
<1>4. CallsSound(calls')
  BY <1>1, <1>2, <1>3, FS_RemoveElement, FS_AddElement DEF CallsSound
<1>5. WaitedFor'
  BY <1>2, <1>3 DEF PageInv, WaitedFor, LiveGet
<1>6. AtHome' /\ OnDisplay'
  BY DEF PageInv, AtHome, OnDisplay, Shown
<1>7. UNCHANGED GroupLookup!lvars
  BY DEF GroupLookup!lvars, Shown
<1> QED
  BY <1>2, <1>3, <1>4, <1>5, <1>6, <1>7 DEF PageInv

LEMMA ServeKeeps == ASSUME PageInv, UpToDate, NEW c \in calls, Serve(c) PROVE Kept
<1>1. CallSound(c) /\ PageTyped /\ c.answer = "none" /\ Does(c)
  BY DEF PageInv, CallsSound, Serve
<1>2. PageTyped'
  BY <1>1, DoesTyped DEF Serve, PageTyped
<1>3. UNCHANGED <<route, view>> /\ Answered(c, "done")
  BY DEF Serve
<1>4. PICK d : /\ calls' = (calls \ {c}) \cup {d} /\ d.op = c.op /\ d.id = c.id
               /\ d.live = c.live /\ d.answer = "done"
               /\ c.op = "get" => d.group = Now(c.id)
  BY <1>2, <1>3, AnsweredKeeps
<1>5. UpToDate'
  <2>1. CASE c.op \in Changes
    BY <1>4, <2>1 DEF UpToDate, Untold
  <2>2. CASE LiveGet(c)
    <3>1. UNCHANGED <<members, shared>>
      BY <1>1, <2>2, DoesTyped DEF LiveGet, Changes
    <3>2. view.loading /\ \A e \in calls' : LiveGet(e) => e = d
      BY <1>4, <2>2 DEF PageInv, WaitedFor, LiveGet
    <3>3. Now(c.id)' = Now(c.id) /\ ~Shown'
      BY <1>3, <3>1, <3>2 DEF Now, Shown
    <3>4. d.group = Now(d.id)'
      BY <1>4, <2>2, <3>1 DEF LiveGet, Now
    <3> QED
      BY <3>2, <3>3, <3>4 DEF UpToDate
  <2>3. CASE c.op \notin Changes /\ ~LiveGet(c)
    <3>1. UNCHANGED <<members, shared>> /\ UNCHANGED lost
      BY <1>1, <2>3, DoesTyped DEF Serve, LiveGet
    <3>2. \A e \in calls' : LiveGet(e) => e \in calls
      BY <1>4, <2>3 DEF LiveGet
    <3>3. \A e \in calls : e.op \in Changes /\ e.answer = "done" => e \in calls'
      BY <1>4, <2>3
    <3> QED
      BY <1>3, <3>1, <3>2, <3>3, RestCurrent
  <2> QED
    BY <2>1, <2>2, <2>3
<1> QED
  BY <1>2, <1>3, <1>5, AnsweredKeeps DEF Kept

LEMMA FailKeeps == ASSUME PageInv, UpToDate, NEW c \in calls, Fail(c) PROVE Kept
<1>1. CallSound(c) /\ PageTyped /\ c.answer = "none"
  BY DEF PageInv, CallsSound, Fail
<1>2. UNCHANGED <<route, view>> /\ Answered(c, "failed")
  BY DEF Fail
<1>3. PageTyped'
  <2>1. CASE UNCHANGED <<server, lost>>
    BY <2>1 DEF Fail, PageInv, PageTyped, server
  <2>2. CASE Does(c) /\ lost' = TRUE
    BY <1>1, <2>2, DoesTyped DEF Fail, PageTyped
  <2> QED
    BY <2>1, <2>2 DEF Fail
<1>4. PICK d : /\ calls' = (calls \ {c}) \cup {d} /\ d.op = c.op /\ d.answer = "failed"
  BY <1>2, <1>3, AnsweredKeeps
<1>5. UpToDate'
  <2>1. CASE UNCHANGED <<server, lost>>
    <3>1. \A e \in calls' : e.answer = "done" => e \in calls
      BY <1>4
    <3>2. \A e \in calls : e.answer = "done" => e \in calls'
      BY <1>1, <1>4
    <3> QED
      BY <1>2, <2>1, <3>1, <3>2, RestCurrent DEF server
  <2>2. CASE lost' = TRUE
    BY <2>2 DEF UpToDate
  <2> QED
    BY <2>1, <2>2 DEF Fail
<1> QED
  BY <1>2, <1>3, <1>5, AnsweredKeeps DEF Kept

LEMMA ServerSteps == PageInv /\ UpToDate /\ Server => Kept
<1> SUFFICES ASSUME PageInv, UpToDate, Server PROVE Kept
  OBVIOUS
<1>1. ASSUME NEW c \in calls, Serve(c) \/ Fail(c) PROVE Kept
  BY <1>1, ServeKeeps, FailKeeps
<1>2. CASE UNCHANGED page
  <2>1. PageTyped'
    BY <1>2 DEF page, server, PageInv, PageTyped
  <2> QED
    BY <1>2, <2>1, QuietKeeps DEF page, server
<1> QED
  BY <1>1, <1>2 DEF Server

-----------------------------------------------------------------------------
LEMMA LoadedKeeps == ASSUME PageInv, UpToDate, NEW c \in calls, Loaded(c) PROVE Kept
<1>1. CallSound(c) /\ CallsSound(calls \ {c}) /\ c.op = "get" /\ c.answer # "none"
      /\ calls' = calls \ {c} /\ UNCHANGED <<role, server, route, avail, busy, del, ops, lost>>
  BY DroppedCall DEF PageInv, CallsSound, Loaded
<1>2. c.answer = "done" \/ c.answer = "failed"
  BY <1>1 DEF CallSound, Call
<1>3. CASE ~c.live
  <2>1. UNCHANGED view
    BY <1>3 DEF Loaded
  <2>2. PageTyped'
    BY <1>1, <2>1 DEF PageInv, PageTyped, server
  <2>3. c.op \notin Changes
    BY <1>1 DEF Changes
  <2> QED
    BY <1>1, <2>1, <2>2, <2>3, DropKeeps DEF server
<1>4. CASE c.live
  <2>1. view.loading /\ c.id = route
    BY <1>1, <1>4 DEF PageInv, WaitedFor, LiveGet
  <2>2. PICK error \in BOOLEAN : error = (c.answer = "failed")
    OBVIOUS
  <2>3. view' = [group |-> c.group, loading |-> FALSE, error |-> error]
    BY <1>4, <2>2, Zenon DEF Loaded, Failed
  <2>4. PageTyped'
    BY <1>1, <2>3 DEF PageInv, PageTyped, server, CallSound, Call
  <2>5. \A d \in calls' : ~LiveGet(d)
    BY <1>1, <1>4 DEF PageInv, WaitedFor, LiveGet
  <2>6. WaitedFor' /\ AtHome' /\ OnDisplay'
    <3>1. WaitedFor'
      BY <2>5 DEF WaitedFor
    <3>2. route # Home /\ AtHome'
      BY <1>1 DEF PageInv, AtHome
    <3>3. OnDisplay'
      BY <1>1, <1>2, <2>2, <2>3 DEF OnDisplay, Shown, CallSound
    <3> QED
      BY <3>1, <3>2, <3>3
  <2>7. UpToDate'
    <3>1. Untold => Untold'
      BY <1>1 DEF Untold, Changes
    <3>2. Now(route)' = Now(route)
      BY <1>1 DEF Now, server
    <3>3. Shown' => c.answer = "done" /\ view'.group = c.group
      BY <1>2, <2>2, <2>3 DEF Shown
    <3> QED
      BY <1>1, <1>4, <2>1, <2>5, <3>1, <3>2, <3>3 DEF UpToDate, LiveGet
  <2>8. GroupLookup!Settle
    <3>1. route # Home
      BY <1>1 DEF PageInv, AtHome
    <3>2. Shown' => view'.group.id = route
      BY <1>1, <1>2, <2>1, <2>2, <2>3 DEF Shown, CallSound
    <3> QED
      BY <1>1, <2>1, <2>3, <3>1, <3>2 DEF GroupLookup!Settle
  <2> QED
    BY <1>1, <2>4, <2>6, <2>7, <2>8 DEF Kept, PageInv, GroupLookup!Next
<1> QED
  BY <1>3, <1>4

LEMMA DoneKeeps == ASSUME PageInv, UpToDate, NEW c \in calls, Done(c) PROVE Kept
<1>1. /\ CallsSound(calls \ {c}) /\ route # Home
      /\ busy' \subseteq Changes /\ ops' \in 0 .. MaxOps
      /\ UNCHANGED <<role, exists, members, shared, route, avail, del, lost>>
  BY DroppedCall DEF Done, PageInv, PageTyped, AtHome, server
<1>2. CASE Failed(c)
  <2>1. PageTyped' /\ UNCHANGED view
    BY <1>1, <1>2 DEF Done, PageInv, PageTyped
  <2> QED
    BY <1>1, <1>2, <2>1, DropKeeps DEF Done, Failed
<1>3. CASE ~Failed(c)
  <2>1. PICK closes \in BOOLEAN : closes = (c.op = "addNode")
    OBVIOUS
  <2>2. Refresh(calls \ {c}, closes)
    BY <1>3, <2>1, Zenon DEF Done
  <2> QED
    BY <1>1, <2>2, ReadKeeps
<1> QED
  BY <1>2, <1>3

LEMMA DeletedKeeps == ASSUME PageInv, NEW c \in calls, Deleted(c) PROVE Kept
<1>1. /\ route' = Home /\ calls' = {}
      /\ view' = [group |-> None, loading |-> FALSE, error |-> FALSE]
  BY DEF Deleted
<1>2. PageTyped'
  BY <1>1 DEF Deleted, PageInv, PageTyped, server
<1>3. ~Shown'
  BY <1>1 DEF Shown
<1>4. PageInv'
  BY <1>1, <1>2, <1>3, FS_EmptySet DEF PageInv, CallsSound, WaitedFor, AtHome, OnDisplay
<1>5. UpToDate'
  BY <1>1, <1>3 DEF UpToDate
<1>6. GroupLookup!Close
  BY <1>1, <1>3 DEF GroupLookup!Close
<1> QED
  BY <1>4, <1>5, <1>6 DEF Kept, GroupLookup!Next

LEMMA ScriptSteps == PageInv /\ UpToDate /\ Script => Kept
<1> SUFFICES ASSUME PageInv, UpToDate, Script PROVE Kept
  OBVIOUS
<1>1. CASE UsrsLoaded
  <2>1. PageTyped'
    BY <1>1 DEF UsrsLoaded, PageInv, PageTyped, server
  <2> QED
    BY <1>1, <2>1, QuietKeeps DEF UsrsLoaded, server
<1>2. ASSUME NEW c \in calls, Loaded(c) \/ Done(c) \/ Deleted(c) PROVE Kept
  BY <1>2, LoadedKeeps, DoneKeeps, DeletedKeeps
<1>3. ASSUME NEW c \in calls, NotDeleted(c) PROVE Kept
  <2>1. PageTyped'
    BY <1>3 DEF NotDeleted, PageInv, PageTyped, server
  <2> QED
    BY <1>3, <2>1, DropKeeps DEF NotDeleted, Failed, server
<1>4. CASE UNCHANGED page
  <2>1. PageTyped'
    BY <1>4 DEF page, server, PageInv, PageTyped
  <2> QED
    BY <1>4, <2>1, QuietKeeps DEF page, server
<1> QED
  BY <1>1, <1>2, <1>3, <1>4 DEF Script

-----------------------------------------------------------------------------
LEMMA InitPageInv == Init => PageInv /\ UpToDate /\ GroupLookup!Init
<1> SUFFICES ASSUME Init PROVE PageInv /\ UpToDate /\ GroupLookup!Init
  OBVIOUS
<1>1. Start \in Groups /\ route = Start /\ Start # Home
  BY GroupsAssumption DEF Init
<1>2. PageTyped
  <2>1. view \in [group : Answer \cup {None}, loading : BOOLEAN, error : BOOLEAN]
        /\ del \in [open : BOOLEAN, busy : BOOLEAN]
    BY DEF Init
  <2>2. members \in [Groups -> SUBSET Usrs] /\ shared \in [Groups -> SUBSET Nodes]
    BY DEF Init
  <2>3. ops \in 0 .. MaxOps
    BY OpsAssumption DEF Init
  <2>4. lost \in BOOLEAN
    BY Zenon DEF Init
  <2>5. role \in Accounts /\ exists = Groups /\ avail = "loading" /\ busy = {}
    BY DEF Init
  <2> QED
    BY <1>1, <2>1, <2>2, <2>3, <2>4, <2>5 DEF PageTyped
<1>3. PICK cs : cs = {}
  OBVIOUS
<1>4. PICK no \in BOOLEAN : no = FALSE
  OBVIOUS
<1> DEFINE new == NewCall(cs, "get", Start, None, no)
<1>5. calls = {new} /\ CallsSound({new}) /\ new.op = "get" /\ new.id = Start /\ new.answer = "none"
  <2>1. CallsSound(cs) /\ Sendable("get", Start, None, no)
    BY <1>1, <1>3, FS_EmptySet DEF CallsSound, Sendable
  <2>2. /\ Sent(cs, "get", Start, None, no) = cs \cup {new} /\ CallsSound(cs \cup {new})
        /\ new.op = "get" /\ new.id = Start /\ new.answer = "none"
    BY <2>1, SentCalls
  <2>3. cs \cup {new} = {new} /\ calls = Sent(cs, "get", Start, None, no)
    BY <1>3, <1>4, Zenon DEF Init
  <2> QED
    BY <2>2, <2>3
<1> HIDE DEF new
<1>6. view.loading /\ ~Shown
  BY DEF Init, Shown
<1>7. PageInv
  BY <1>1, <1>2, <1>5, <1>6 DEF PageInv, WaitedFor, AtHome, OnDisplay
<1>8. UpToDate
  BY <1>5, <1>6 DEF UpToDate
<1>9. GroupLookup!Init
  BY <1>1, <1>6 DEF GroupLookup!Init
<1> QED
  BY <1>7, <1>8, <1>9

LEMMA StepKeeps == PageInv /\ UpToDate /\ [Next]_vars => Kept
<1> SUFFICES ASSUME PageInv, UpToDate, [Next]_vars PROVE Kept
  OBVIOUS
<1>1. CASE UNCHANGED vars
  <2>1. PageTyped'
    BY <1>1 DEF vars, server, PageInv, PageTyped
  <2> QED
    BY <1>1, <2>1, QuietKeeps DEF vars, server
<1> QED
  BY <1>1, UserSteps, ServerSteps, ScriptSteps DEF Next

LEMMA PageInvariance == Spec => [](PageInv /\ UpToDate)
<1>1. Init => PageInv /\ UpToDate
  BY InitPageInv
<1>2. PageInv /\ UpToDate /\ [Next]_vars => (PageInv /\ UpToDate)'
  BY StepKeeps DEF Kept
<1> QED
  BY <1>1, <1>2, PTL DEF Spec

\* Every state of the page and of its dialog is of the declared types: what is added is
\* of the right kind, a change is of a group there is, and only folders are opened.
THEOREM TypeCorrect == Spec => []TypeOK
<1>1. PageInv /\ PickerInv => TypeOK
  BY DEF PageInv, PageTyped, CallsSound, CallSound, PickerInv, TypeOK
<1> QED
  BY <1>1, PageInvariance, PickerInvariance, PTL

\* A group at rest has the members and the nodes the server has (useGetGroup and the
\* hooks that change groups), whatever overtook what, unless an answer was lost.
THEOREM SettledIsCurrentHolds == Spec => []SettledIsCurrent
<1>1. PageInv /\ UpToDate => SettledIsCurrent
  BY DEF UpToDate, SettledIsCurrent, Untold, Now
<1> QED
  BY <1>1, PageInvariance, PTL

\* Every step is one of a panel that follows the route, or none (GroupView): a group
\* the page was led away from is never shown.  That a wait ends is left to the model
\* checker.
THEOREM ImplementsLookup == Spec => GroupLookup!Init /\ [][GroupLookup!Next]_(GroupLookup!lvars)
<1>1. Init => PageInv /\ UpToDate /\ GroupLookup!Init
  BY InitPageInv
<1>2. PageInv /\ UpToDate /\ [Next]_vars
        => PageInv' /\ UpToDate' /\ [GroupLookup!Next]_(GroupLookup!lvars)
  BY StepKeeps DEF Kept
<1> QED
  BY <1>1, <1>2, PTL DEF Spec
=============================================================================
