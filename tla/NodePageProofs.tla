--------------------------- MODULE NodePageProofs ---------------------------
(***************************************************************************)
(* Facts about the rules of the web client, for every list, name and role; *)
(* and about the page of a node: for any tree, accounts and number of      *)
(* steps, it shows the node of the route as it last was, never one whose   *)
(* deletion it was told, and offers only what the server takes.            *)
(***************************************************************************)
EXTENDS NodePage, FiniteSetTheorems, SequenceTheorems, WellFoundedInduction, TLAPS

\* A role and a level that are offered a change of a node are a role the server
\* lets change the tree and a level it takes for a write; and whoever is offered
\* to read has a level (shared/authz against domain/usr.go and group.go).
THEOREM OffersAreGranted ==
    ASSUME NEW who \in Roles, NEW access \in AccessLevels \cup {NoLevel}
    PROVE  /\ canChangeNode(who, access) =>
                 /\ access \in AccessLevels
                 /\ CanChangeTree(who) /\ IsEquivalent(access, "write")
           /\ canReadNode(who, access) =>
                 access \in AccessLevels /\ IsEquivalent(access, "read_only")
<1>1. NoLevel \notin AccessLevels /\ NoRole \notin Roles
  BY DEF NoLevel, NoRole, AccessLevels, Roles
<1>2. CASE access = NoLevel
  BY <1>1, <1>2 DEF canChangeNode, canReadNode, EffectiveRank, hasKnownAccess
<1>3. CASE access \in AccessLevels
  <2>1. who # NoRole
    BY <1>1
  <2>2. Rank(access) \in 1 .. 4 /\ Rank("write") = 2 /\ Rank("read_only") = 1
    BY <1>3 DEF Rank, AccessLevels
  <2>3. RoleCeilingRank(who) = IF who = "limited" THEN 1 ELSE 4
    BY DEF RoleCeilingRank, Roles
  <2>4. EffectiveRank(who, access) = IF Rank(access) < RoleCeilingRank(who)
                                     THEN Rank(access) ELSE RoleCeilingRank(who)
    BY <1>3, <2>1 DEF EffectiveRank, hasKnownAccess
  <2>5. canChangeNode(who, access) => who # "limited" /\ Rank(access) >= 2
    BY <2>2, <2>3, <2>4 DEF canChangeNode
  <2>6. canChangeNode(who, access) => CanChangeTree(who) /\ IsEquivalent(access, "write")
    BY <2>2, <2>5 DEF CanChangeTree, IsEquivalent, Roles
  <2>7. IsEquivalent(access, "read_only")
    BY <2>2 DEF IsEquivalent
  <2> QED
    BY <1>3, <2>6, <2>7
<1> QED
  BY <1>2, <1>3

\* The levels the group form offers for a user are exactly those the server
\* accepts for its role.
THEOREM AssignableLevels ==
    ASSUME NEW who \in Roles, NEW access \in AccessLevels
    PROVE  isValidAccessForRole(access, who) <=> IsValidAccessToRole(access, who)
BY DEF isValidAccessForRole, IsValidAccessToRole, hasKnownAccess, Roles, AccessLevels

\* Whatever page is asked for, the page shown is one of the list's pages.
THEOREM PageInRange ==
    ASSUME NEW requested \in Int, NEW pages \in Nat \ {0}
    PROVE  /\ PageFor(requested, pages) \in 1 .. pages
           /\ requested \in 1 .. pages => PageFor(requested, pages) = requested
BY DEF PageFor

\* The loop of uniqueFileName always finds a suffix: of one suffix more than there
\* are taken names, one is free.
LEMMA SomeSuffixIsFree ==
    ASSUME NEW taken, IsFiniteSet(taken), NEW base, NEW marks \in Seq(Nat),
           NEW name, name = [base |-> base, marks |-> marks]
    PROVE  FreeSuffixes(name, taken) # {}
<1> DEFINE k == Cardinality(taken)
           f == [i \in 1 .. k + 1 |-> Renamed(name, i)]
<1>1. k \in Nat
  BY FS_CardinalityType
<1>2. SUFFICES ASSUME FreeSuffixes(name, taken) = {} PROVE FALSE
  OBVIOUS
<1>3. f \in [1 .. k + 1 -> taken]
  BY <1>2 DEF FreeSuffixes
<1>4. \A i, j \in 1 .. k + 1 : f[i] = f[j] => i = j
  <2> SUFFICES ASSUME NEW i \in 1 .. k + 1, NEW j \in 1 .. k + 1, f[i] = f[j] PROVE i = j
    OBVIOUS
  <2>1. f[i].marks = Append(marks, i) /\ f[j].marks = Append(marks, j)
    BY DEF Renamed
  <2>2. Append(marks, i)[Len(marks) + 1] = i /\ Append(marks, j)[Len(marks) + 1] = j
    BY <1>1
  <2> QED
    BY <2>1, <2>2
<1>5. f \in Injection(1 .. k + 1, taken)
  BY <1>3, <1>4 DEF Injection, IsInjective
<1>6. IsFiniteSet(1 .. k + 1) /\ Cardinality(1 .. k + 1) = k + 1
  <2>1. 1 \in Int /\ k + 1 \in Int /\ ~(1 > k + 1) /\ (k + 1) - 1 + 1 = k + 1
    BY <1>1
  <2> HIDE DEF k
  <2> QED
    BY <2>1, FS_Interval
<1>7. k + 1 <= k
  BY <1>5, <1>6, FS_Injection
<1> QED
  BY <1>1, <1>7

\* An upload is never given a name its folder is known to have, and keeps the
\* name it came with whenever that is free.
THEOREM NewNameIsFree ==
    ASSUME NEW taken, IsFiniteSet(taken), NEW base, NEW marks \in Seq(Nat),
           NEW name, name = [base |-> base, marks |-> marks]
    PROVE  /\ uniqueFileName(name, taken) \notin taken
           /\ name \notin taken => uniqueFileName(name, taken) = name
<1> DEFINE free == FreeSuffixes(name, taken)
           least(k) == \A j \in free : k <= j
<1>1. free # {} /\ free \subseteq Nat
  <2>1. Cardinality(taken) \in Nat
    BY FS_CardinalityType
  <2>2. free \subseteq Nat
    BY <2>1 DEF FreeSuffixes
  <2> QED
    BY <2>2, SomeSuffixIsFree
<1>2. \E k \in free : least(k)
  <2>1. IsWellFoundedOn(OpToRel(<, Nat), Nat)
    BY NatLessThanWellFounded
  <2>2. PICK k \in free : \A j \in free : <<j, k>> \notin OpToRel(<, Nat)
    BY <1>1, <2>1, WFMin
  <2>3. \A j \in free : ~(j < k)
    BY <1>1, <2>2 DEF OpToRel
  <2> QED
    BY <1>1, <2>3
<1>3. (CHOOSE i \in free : least(i)) \in free
  BY <1>2
<1> QED
  BY <1>3 DEF uniqueFileName, FreeSuffixes

-----------------------------------------------------------------------------
LiveGet(c) == c.op = "get" /\ c.live

\* What is shown and what would be are answers, and what is asked about is a node.
Sound ==
    /\ Shown => view.node \in Answer
    /\ \A c \in calls : c.op = "get" /\ c.answer = "done" => c.node \in Answer /\ c.node.id = c.id
    /\ \A d \in Dialogs : confirm[d].open => confirm[d].target \in NodeIds
    /\ route = Home => calls = {} /\ view = Loading

Typed == TypeOK /\ IsFiniteSet(calls) /\ Sound

LEMMA ImageIsFinite ==
    ASSUME NEW S, IsFiniteSet(S), NEW f, f = [x \in S |-> f[x]]
    PROVE  /\ IsFiniteSet({f[x] : x \in S})
           /\ Cardinality({f[x] : x \in S}) <= Cardinality(S)
<1> DEFINE T == {f[x] : x \in S}
<1>1. f \in Surjection(S, T)
  BY DEF Surjection
<1> QED
  BY <1>1, FS_Surjection

\* Calls are numbered, however many are under way.
LEMMA SomeNumberIsFree ==
    ASSUME NEW cs, IsFiniteSet(cs)
    PROVE  N(cs) \in Nat
<1> DEFINE k == Cardinality(cs)
           used == {c.n : c \in cs}
<1>1. k \in Nat
  BY FS_CardinalityType
<1>2. IsFiniteSet(used) /\ Cardinality(used) <= k
  <2> DEFINE f == [c \in cs |-> c.n]
  <2>1. f = [c \in cs |-> f[c]] /\ used = {f[c] : c \in cs}
    OBVIOUS
  <2> HIDE DEF f, used, k
  <2>2. IsFiniteSet(used) /\ Cardinality(used) <= Cardinality(cs)
    BY <2>1, ImageIsFinite
  <2> QED
    BY <2>2 DEF k
<1>3. IsFiniteSet(1 .. k + 1) /\ Cardinality(1 .. k + 1) = k + 1
  <2>1. 1 \in Int /\ k + 1 \in Int /\ ~(1 > k + 1) /\ (k + 1) - 1 + 1 = k + 1
    BY <1>1
  <2> HIDE DEF k
  <2> QED
    BY <2>1, FS_Interval
<1>4. ~(1 .. k + 1 \subseteq used)
  <2>1. Cardinality(used) \in Nat
    BY <1>2, FS_CardinalityType
  <2> HIDE DEF used, k
  <2> QED
    BY <1>1, <1>2, <1>3, <2>1, FS_Subset
<1>5. \E n \in 1 .. k + 1 : \A c \in cs : c.n # n
  BY <1>4
<1> QED
  BY <1>1, <1>5 DEF N

OpKinds == {"get", "create", "upload", "node", "doc"}

NewCall(cs, op, id) ==
    [op |-> op, id |-> id, live |-> TRUE, answer |-> "none", node |-> None, n |-> N(cs)]

LEMMA SentCalls ==
    ASSUME NEW cs, cs \subseteq Call, IsFiniteSet(cs), NEW op \in OpKinds, NEW id \in NodeIds
    PROVE  /\ NewCall(cs, op, id) \in Call
           /\ Sent(cs, op, id) = cs \cup {NewCall(cs, op, id)}
           /\ NewCall(cs, op, id).op = op /\ NewCall(cs, op, id).id = id
           /\ NewCall(cs, op, id).live /\ NewCall(cs, op, id).answer = "none"
           /\ IsFiniteSet(cs \cup {NewCall(cs, op, id)})
<1>1. NewCall(cs, op, id) \in Call
  BY SomeNumberIsFree DEF Call, OpKinds, NewCall
<1>2. Sent(cs, op, id) = cs \cup {NewCall(cs, op, id)}
  BY DEF Sent, NewCall
<1>3. IsFiniteSet(cs \cup {NewCall(cs, op, id)})
  BY FS_AddElement
<1> QED
  BY <1>1, <1>2, <1>3 DEF NewCall

\* What a mark and an answer leave of a call.
LEMMA DullCalls ==
    ASSUME NEW c \in Call, NEW d, d = [c EXCEPT !.live = FALSE]
    PROVE  /\ d \in Call /\ ~d.live
           /\ d.op = c.op /\ d.id = c.id /\ d.answer = c.answer /\ d.node = c.node
BY DEF Call

LEMMA OvertakenCalls ==
    ASSUME NEW cs, cs \subseteq Call, IsFiniteSet(cs)
    PROVE  /\ Overtaken(cs) \subseteq Call /\ IsFiniteSet(Overtaken(cs))
           /\ \A d \in Overtaken(cs) :
                 ~d.live /\ \E c \in cs : /\ d.op = c.op /\ d.id = c.id
                                        /\ d.answer = c.answer /\ d.node = c.node
           /\ \A c \in cs : \E d \in Overtaken(cs) : d.op = c.op /\ d.answer = c.answer
<1> DEFINE f == [c \in cs |-> [c EXCEPT !.live = FALSE]]
<1>1. f = [c \in cs |-> f[c]] /\ Overtaken(cs) = {f[c] : c \in cs}
  BY DEF Overtaken
<1>2. \A c \in cs : f[c] \in Call /\ ~f[c].live /\ f[c].op = c.op /\ f[c].id = c.id
                    /\ f[c].answer = c.answer /\ f[c].node = c.node
  BY DullCalls
<1> HIDE DEF f
<1>3. IsFiniteSet(Overtaken(cs))
  BY <1>1, ImageIsFinite
<1>4. \A d \in Overtaken(cs) : \E c \in cs : d = f[c]
  BY <1>1
<1>5. \A c \in cs : f[c] \in Overtaken(cs)
  BY <1>1
<1>6. Overtaken(cs) \subseteq Call
  BY <1>2, <1>4
<1> QED
  BY <1>2, <1>3, <1>4, <1>5, <1>6

AnswerTo(c, answer) ==
    [c EXCEPT !.answer = answer,
              !.node = IF c.op = "get" /\ answer = "done"
                       THEN [id |-> c.id, kids |-> Kids(c.id)] ELSE None]

LEMMA AnsweredCalls ==
    ASSUME NEW c \in Call, NEW answer \in {"done", "failed", "refused"}
    PROVE  LET d == AnswerTo(c, answer)
           IN  /\ d \in Call /\ d.answer = answer /\ d.op = c.op /\ d.id = c.id /\ d.live = c.live
               /\ c.op = "get" /\ answer = "done" => d.node = [id |-> c.id, kids |-> Kids(c.id)]
<1> DEFINE a == IF c.op = "get" /\ answer = "done"
                THEN [id |-> c.id, kids |-> Kids(c.id)] ELSE None
<1>1. a \in Answer \cup {None}
  BY DEF Call, Answer, Kids, Exists
<1>2. PICK d : d = AnswerTo(c, answer)
  OBVIOUS
<1>3. d = [c EXCEPT !.answer = answer, !.node = a]
  BY <1>2 DEF AnswerTo
<1> HIDE DEF a
<1>4. d \in Call /\ d.answer = answer /\ d.op = c.op /\ d.id = c.id /\ d.live = c.live /\ d.node = a
  BY <1>1, <1>3 DEF Call
<1> QED
  BY <1>2, <1>4 DEF a
-----------------------------------------------------------------------------
\* The page's own part of the type, and the server's.
PageTyped ==
    /\ route \in NodeIds \cup {Home} /\ back \in NodeIds \cup {Home}
    /\ view \in [node : Answer \cup {None}, loading : BOOLEAN, error : BOOLEAN]
    /\ confirm \in [Dialogs -> [open : BOOLEAN, target : NodeIds \cup {None}, busy : BOOLEAN]]
    /\ create \in [open : BOOLEAN, busy : BOOLEAN]
    /\ uploading \in BOOLEAN

LEMMA LoadingTyped ==
    /\ Loading \in [node : Answer \cup {None}, loading : BOOLEAN, error : BOOLEAN]
    /\ Loading.loading /\ ~Loading.error /\ Loading.node = None
BY DEF Loading

LEMMA NoDialogsTyped ==
    /\ NoDialogs \in [Dialogs -> [open : BOOLEAN, target : NodeIds \cup {None}, busy : BOOLEAN]]
    /\ \A d \in Dialogs : ~NoDialogs[d].open
BY DEF NoDialogs

LEMMA UnconfirmedTyped ==
    ASSUME NEW conf \in [Dialogs -> [open : BOOLEAN, target : NodeIds \cup {None}, busy : BOOLEAN]]
    PROVE  /\ Unconfirmed(conf)
                 \in [Dialogs -> [open : BOOLEAN, target : NodeIds \cup {None}, busy : BOOLEAN]]
           /\ \A d \in Dialogs : /\ Unconfirmed(conf)[d].open = conf[d].open
                                 /\ Unconfirmed(conf)[d].target = conf[d].target
BY DEF Unconfirmed

LEMMA ClosedTyped ==
    ASSUME PageTyped, NEW c, c.op \in Dialogs
    PROVE  /\ Closed(c) \in [Dialogs -> [open : BOOLEAN, target : NodeIds \cup {None}, busy : BOOLEAN]]
           /\ \A d \in Dialogs : /\ Closed(c)[d].open => confirm[d].open
                                 /\ Closed(c)[d].target = confirm[d].target
<1> DEFINE busy == IF c.live THEN FALSE ELSE confirm[c.op].busy
           shut == [confirm[c.op] EXCEPT !.open = FALSE, !.busy = busy]
<1>1. confirm \in [Dialogs -> [open : BOOLEAN, target : NodeIds \cup {None}, busy : BOOLEAN]]
  BY DEF PageTyped
<1>2. confirm[c.op] \in [open : BOOLEAN, target : NodeIds \cup {None}, busy : BOOLEAN]
  BY <1>1
<1>3. busy \in BOOLEAN
  BY <1>2
<1>4. Closed(c) = [confirm EXCEPT ![c.op] = shut]
  BY <1>1, <1>2 DEF Closed
<1> HIDE DEF busy
<1>5. /\ shut \in [open : BOOLEAN, target : NodeIds \cup {None}, busy : BOOLEAN]
      /\ ~shut.open /\ shut.target = confirm[c.op].target
  BY <1>2, <1>3
<1> HIDE DEF shut
<1> QED
  BY <1>1, <1>4, <1>5

(***************************************************************************)
(* A step that loads the node id: no call of before is live.               *)
(***************************************************************************)
LoadStep(id, cs) ==
    /\ id \in NodeIds /\ route' = id /\ view' = Loading
    /\ cs \subseteq calls /\ calls' = Sent(Overtaken(cs), "get", id)
    /\ UNCHANGED <<account, above, lost>>
    /\ \A d \in Dialogs : confirm'[d].open =>
                             confirm[d].open /\ confirm'[d].target = confirm[d].target
    /\ create'.open => create.open

LEMMA LoadCalls ==
    ASSUME Typed, NEW id, NEW cs, LoadStep(id, cs)
    PROVE  /\ calls' \subseteq Call /\ IsFiniteSet(calls')
           /\ \E new \in calls' :
                 /\ LiveGet(new) /\ new.id = id /\ new.answer = "none"
                 /\ \A d \in calls' \ {new} :
                       ~d.live /\ \E c \in cs : /\ d.op = c.op /\ d.id = c.id
                                              /\ d.answer = c.answer /\ d.node = c.node
<1>1. cs \subseteq Call /\ IsFiniteSet(cs)
  BY FS_Subset DEF Typed, TypeOK, LoadStep
<1> DEFINE old == Overtaken(cs)
<1>2. /\ old \subseteq Call /\ IsFiniteSet(old)
      /\ \A d \in old : ~d.live /\ \E c \in cs : /\ d.op = c.op /\ d.id = c.id
                                                 /\ d.answer = c.answer /\ d.node = c.node
  BY <1>1, OvertakenCalls
<1> HIDE DEF old
<1>3. PICK new : new = NewCall(old, "get", id)
  OBVIOUS
<1>4. /\ new \in Call /\ Sent(old, "get", id) = old \cup {new} /\ IsFiniteSet(old \cup {new})
      /\ new.op = "get" /\ new.id = id /\ new.live /\ new.answer = "none"
  <2>1. id \in NodeIds /\ "get" \in OpKinds
    BY DEF LoadStep, OpKinds
  <2> QED
    BY <1>2, <1>3, <2>1, SentCalls
<1>5. calls' = old \cup {new}
  BY <1>4 DEF LoadStep, old
<1> QED
  BY <1>2, <1>4, <1>5 DEF LiveGet

LEMMA LoadSound ==
    ASSUME Typed, NEW id, NEW cs, LoadStep(id, cs)
    PROVE  Sound'
<1>1. \A c \in calls' : c.op = "get" /\ c.answer = "done" => c.node \in Answer /\ c.node.id = c.id
  BY LoadCalls DEF Typed, Sound, LoadStep
<1>2. ~Shown'
  BY LoadingTyped DEF LoadStep, Shown
<1>3. \A d \in Dialogs : confirm'[d].open => confirm'[d].target \in NodeIds
  BY DEF LoadStep, Typed, Sound
<1>4. route' # Home
  BY TreeAssumption DEF LoadStep
<1> QED
  BY <1>1, <1>2, <1>3, <1>4 DEF Sound

LeaveStep ==
    /\ Leave
    /\ UNCHANGED <<account, above, lost>>

LEMMA LeaveTyped ==
    ASSUME LeaveStep
    PROVE  PageTyped' /\ calls' = {} /\ IsFiniteSet(calls') /\ Sound' /\ route' = Home
<1>0. Loading' = Loading
  BY DEF Loading
<1>1. PageTyped'
  BY LoadingTyped, NoDialogsTyped DEF LeaveStep, Leave, PageTyped
<1>2. ~Shown' /\ calls' = {} /\ \A d \in Dialogs : ~confirm'[d].open
  BY NoDialogsTyped DEF LeaveStep, Leave, Shown
<1> QED
  BY <1>0, <1>1, <1>2, FS_EmptySet DEF Sound, LeaveStep, Leave
LEMMA SendTyped ==
    ASSUME Typed, NEW op \in {"create", "upload", "node", "doc"}, NEW id \in NodeIds,
           calls' = Sent(calls, op, id)
    PROVE  /\ calls' \subseteq Call /\ IsFiniteSet(calls')
           /\ \E new : /\ calls' = calls \cup {new}
                       /\ new.op = op /\ new.id = id /\ new.answer = "none"
<1>1. calls \subseteq Call /\ IsFiniteSet(calls)
  BY DEF Typed, TypeOK
<1>2. op \in OpKinds
  BY DEF OpKinds
<1>3. /\ calls' = calls \cup {NewCall(calls, op, id)} /\ NewCall(calls, op, id) \in Call
      /\ NewCall(calls, op, id).op = op /\ NewCall(calls, op, id).id = id
      /\ NewCall(calls, op, id).answer = "none"
      /\ IsFiniteSet(calls \cup {NewCall(calls, op, id)})
  BY <1>1, <1>2, SentCalls
<1> QED
  BY <1>1, <1>3

LEMMA DropTyped ==
    ASSUME Typed, NEW c, calls' = calls \ {c}
    PROVE  calls' \subseteq Call /\ IsFiniteSet(calls')
<1>1. calls \subseteq Call /\ IsFiniteSet(calls)
  BY DEF Typed, TypeOK
<1> QED
  BY <1>1, FS_RemoveElement

LEMMA AnswerTyped ==
    ASSUME Typed, NEW c \in calls, NEW answer \in {"done", "failed", "refused"}, Answered(c, answer)
    PROVE  /\ calls' \subseteq Call /\ IsFiniteSet(calls')
           /\ \E d : /\ calls' = (calls \ {c}) \cup {d}
                     /\ d.answer = answer /\ d.op = c.op /\ d.id = c.id /\ d.live = c.live
                     /\ c.op = "get" /\ answer = "done" => d.node = [id |-> c.id, kids |-> Kids(c.id)]
<1>1. calls \subseteq Call /\ IsFiniteSet(calls) /\ c \in Call
  BY DEF Typed, TypeOK
<1>2. PICK d \in Call : /\ d = AnswerTo(c, answer)
                        /\ d.answer = answer /\ d.op = c.op /\ d.id = c.id /\ d.live = c.live
                        /\ c.op = "get" /\ answer = "done" => d.node = [id |-> c.id, kids |-> Kids(c.id)]
  BY <1>1, AnsweredCalls
<1>3. calls' = (calls \ {c}) \cup {d}
  BY <1>2 DEF Answered, AnswerTo
<1>4. IsFiniteSet(calls \ {c})
  BY <1>1, FS_RemoveElement
<1>5. IsFiniteSet((calls \ {c}) \cup {d})
  BY <1>4, FS_AddElement
<1> QED
  BY <1>1, <1>2, <1>3, <1>5

\* What the server does with a call leaves every node somewhere, and a deleted one
\* deleted.
LEMMA TreeTyped ==
    ASSUME TypeOK, NEW c \in calls, above' \in After(c)
    PROVE  /\ above' \in [NodeIds -> Seq(NodeIds) \cup {None, Removed}]
           /\ \A n \in NodeIds : above[n] = Removed => above'[n] = Removed
           /\ c.op \in Dialogs => above'[c.id] = Removed
           /\ c.op = "get" => above' = above /\ c.id \in Exists
<1>1. c \in Call /\ above \in [NodeIds -> Seq(NodeIds) \cup {None, Removed}]
  BY DEF TypeOK
<1>2. CASE c.op = "get"
  BY <1>1, <1>2 DEF After, Dialogs
<1>3. CASE c.op \in {"create", "upload"}
  <2>1. PICK n \in NodeIds : /\ above[n] = None /\ c.id \in Exists
                             /\ above' = [above EXCEPT ![n] = Append(above[c.id], c.id)]
    BY <1>3 DEF After
  <2>2. above[c.id] \in Seq(NodeIds) /\ c.id \in NodeIds
    BY <1>1, <2>1 DEF Exists
  <2>3. Append(above[c.id], c.id) \in Seq(NodeIds)
    BY <2>2
  <2> QED
    BY <1>1, <1>3, <2>1, <2>3, TreeAssumption DEF Dialogs
<1>4. CASE c.op \in Dialogs
  <2>1. c.id \in Exists /\ above' = [n \in NodeIds |-> IF n \in Subtree(c.id) THEN Removed ELSE above[n]]
    BY <1>4 DEF After, Dialogs
  <2>2. c.id \in Subtree(c.id) /\ c.id \in NodeIds
    BY <2>1 DEF Subtree, Exists
  <2> QED
    BY <1>1, <1>4, <2>1, <2>2 DEF Dialogs
<1> QED
  BY <1>1, <1>2, <1>3, <1>4 DEF Call, Dialogs
-----------------------------------------------------------------------------
\* The steps that load a node.
LEMMA UserLoads ==
    ASSUME Typed,
           \/ \E n \in NodeIds : OpenNode(n) \/ History(n, Home)
           \/ Retry \/ (BackButton /\ back # Home)
    PROVE  Ops /\ UNCHANGED gone /\ PageTyped' /\ \E id, cs : LoadStep(id, cs)
<1> USE DEF Ops, history
<1>1. PageTyped
  BY DEF Typed, TypeOK, PageTyped
<1>2. /\ PageTyped => Unconfirmed(confirm)
              \in [Dialogs -> [open : BOOLEAN, target : NodeIds \cup {None}, busy : BOOLEAN]]
      /\ \A d \in Dialogs : /\ Unconfirmed(confirm)[d].open = confirm[d].open
                            /\ Unconfirmed(confirm)[d].target = confirm[d].target
  BY <1>1, UnconfirmedTyped DEF PageTyped
<1>3. ASSUME NEW id \in NodeIds, NEW from \in NodeIds \cup {Home},
             MoveTo(id, from, calls, confirm), UNCHANGED <<account, above, lost>>
      PROVE  PageTyped' /\ LoadStep(id, calls)
  BY <1>1, <1>2, <1>3, LoadingTyped DEF MoveTo, PageTyped, LoadStep
<1>4. ASSUME NEW n \in NodeIds, OpenNode(n)
      PROVE  Ops /\ UNCHANGED gone /\ PageTyped' /\ \E id, cs : LoadStep(id, cs)
  BY <1>1, <1>3, <1>4 DEF OpenNode, PageTyped
<1>5. ASSUME NEW n \in NodeIds, History(n, Home)
      PROVE  Ops /\ UNCHANGED gone /\ PageTyped' /\ \E id, cs : LoadStep(id, cs)
  BY <1>3, <1>5 DEF History
<1>6. CASE BackButton /\ back # Home
  BY <1>1, <1>3, <1>6 DEF BackButton, GoBack, PageTyped
<1>7. CASE Retry
  <2>1. route \in NodeIds
    BY <1>1, <1>7, LoadingTyped DEF Retry, Typed, Sound, PageTyped
  <2>2. PageTyped' /\ LoadStep(route, calls)
    BY <1>1, <1>2, <1>7, <2>1, LoadingTyped DEF Retry, Refresh, PageTyped, LoadStep
  <2> QED
    BY <1>7, <2>2 DEF Retry
<1> QED
  BY <1>4, <1>5, <1>6, <1>7

\* A change that is done has the page read again, whatever node it is by now.
LEMMA ScriptLoads ==
    ASSUME Typed, NEW c \in calls,
           \/ (Made(c) \/ Uploaded(c)) /\ ~Failed(c)
           \/ NodeDeleted(c) \/ DocDeleted(c)
    PROVE  /\ UNCHANGED ops /\ c.op # "get" /\ c.answer = "done"
           /\ gone' = gone \/ (c.op \in Dialogs /\ gone' = gone \cup {c.id})
           /\ PageTyped'
           /\ LeaveStep \/ \E id, cs : LoadStep(id, cs)
<1> USE DEF history
<1>1. PageTyped /\ c \in Call /\ route \in NodeIds
  BY DEF Typed, TypeOK, PageTyped, Sound
<1>2. c.op # "get" /\ c.answer = "done"
  BY <1>1 DEF Made, Uploaded, NodeDeleted, DocDeleted, Ended, Failed, Call
<1>3. ASSUME NEW id \in NodeIds, NEW conf, conf = confirm \/ (c.op \in Dialogs /\ conf = Closed(c)),
             confirm' = Unconfirmed(conf)
      PROVE  /\ confirm' \in [Dialogs -> [open : BOOLEAN, target : NodeIds \cup {None}, busy : BOOLEAN]]
             /\ \A d \in Dialogs : confirm'[d].open =>
                                      confirm[d].open /\ confirm'[d].target = confirm[d].target
  <2>1. /\ conf \in [Dialogs -> [open : BOOLEAN, target : NodeIds \cup {None}, busy : BOOLEAN]]
        /\ \A d \in Dialogs : /\ conf[d].open => confirm[d].open
                              /\ conf[d].target = confirm[d].target
    BY <1>1, <1>3, ClosedTyped DEF PageTyped
  <2> QED
    BY <1>3, <2>1, UnconfirmedTyped
<1>4. ASSUME NEW conf, conf = confirm \/ (c.op \in Dialogs /\ conf = Closed(c)),
             Refresh(calls \ {c}, conf), UNCHANGED <<account, above, lost>>,
             create' \in [open : BOOLEAN, busy : BOOLEAN], create'.open => create.open,
             uploading' \in BOOLEAN
      PROVE  PageTyped' /\ LoadStep(route, calls \ {c})
  <2>1. confirm' = Unconfirmed(conf)
    BY <1>4 DEF Refresh
  <2> QED
    BY <1>1, <1>3, <1>4, <2>1, LoadingTyped DEF Refresh, PageTyped, LoadStep
<1>5. CASE Made(c) /\ ~Failed(c)
  <2>1. Refresh(calls \ {c}, confirm) /\ create' = [open |-> FALSE, busy |-> FALSE]
    BY <1>5 DEF Made
  <2> QED
    BY <1>1, <1>2, <1>4, <1>5, <2>1 DEF Made, PageTyped
<1>6. CASE Uploaded(c) /\ ~Failed(c)
  BY <1>1, <1>2, <1>4, <1>6 DEF Uploaded, PageTyped
<1>7. CASE DocDeleted(c)
  BY <1>1, <1>2, <1>4, <1>7 DEF DocDeleted, PageTyped, Ended, Dialogs
<1>8. CASE NodeDeleted(c)
  <2>1. c.op \in Dialogs /\ UNCHANGED <<account, above, lost, ops>> /\ gone' = gone \cup {c.id}
    BY <1>8 DEF NodeDeleted, Ended, Dialogs
  <2>2. CASE Refresh(calls \ {c}, Closed(c)) /\ UNCHANGED <<create, uploading>>
    BY <1>1, <1>2, <1>4, <2>1, <2>2 DEF PageTyped
  <2>3. CASE GoBack(calls \ {c}, Closed(c)) /\ back # Home
    <3>1. back \in NodeIds /\ MoveTo(back, Home, calls \ {c}, Closed(c))
      BY <1>1, <2>3 DEF GoBack, PageTyped
    <3>2. confirm' = Unconfirmed(Closed(c))
      BY <3>1 DEF MoveTo
    <3>3. PageTyped' /\ LoadStep(back, calls \ {c})
      BY <1>1, <1>3, <2>1, <3>1, <3>2, LoadingTyped DEF MoveTo, PageTyped, LoadStep
    <3> QED
      BY <1>2, <2>1, <3>3
  <2>4. CASE GoBack(calls \ {c}, Closed(c)) /\ back = Home
    <3>1. LeaveStep
      BY <2>1, <2>4 DEF GoBack, LeaveStep
    <3> QED
      BY <1>2, <2>1, <3>1, LeaveTyped
  <2> QED
    BY <1>8, <2>2, <2>3, <2>4 DEF NodeDeleted
<1> QED
  BY <1>5, <1>6, <1>7, <1>8
-----------------------------------------------------------------------------
\* What waits for the server, or may, is what the server lets the account do.
Granted ==
    /\ \A c \in calls : c.answer # "refused" /\ (c.op # "get" => MayChange)
    /\ create.open \/ (\E d \in Dialogs : confirm[d].open) => MayChange

\* What the page was told, or will be, is so, and stays so.
Buried ==
    /\ \A n \in gone : above[n] = Removed
    /\ \A c \in calls : c.op \in Dialogs /\ c.answer = "done" => above[c.id] = Removed

Clear(a) == a.id \notin gone /\ a.kids \cap gone = {}

Clean ==
    /\ Shown => Clear(view.node)
    /\ \A c \in calls : LiveGet(c) /\ c.answer = "done" => Clear(c.node)

\* The answer that would be taken is the one the page waits for, of its route.
WaitedFor ==
    /\ \A c \in calls : LiveGet(c) => view.loading /\ c.id = route
    /\ \A c, d \in calls : LiveGet(c) /\ LiveGet(d) => c = d
    /\ Shown => view.node.id = route

(***************************************************************************)
(* A change that was made here has its answer still to be taken, or has    *)
(* had the node asked for again.                                           *)
(***************************************************************************)
Untold == \E c \in calls : c.op # "get" /\ c.answer = "done"

Here(n) == [id |-> n, kids |-> Kids(n)]

Current ==
    ~lost /\ ~Untold =>
        /\ Shown => view.node = Here(route)
        /\ \A c \in calls : LiveGet(c) /\ c.answer = "done" => c.node = Here(c.id)

IInv == Typed /\ Granted /\ Buried /\ Clean /\ WaitedFor /\ Current

Kept == IInv' /\ [PageLookup!Next]_(PageLookup!lvars)

LEMMA TypedFrom ==
    ASSUME Typed, PageTyped', account' = account, Ops \/ UNCHANGED ops,
           above' \in [NodeIds -> Seq(NodeIds) \cup {None, Removed}],
           calls' \subseteq Call, IsFiniteSet(calls'), lost' \in BOOLEAN, gone' \subseteq NodeIds, Sound'
    PROVE  Typed'
<1>1. ops' \in 0 .. MaxOps
  BY OpsAssumption DEF Typed, TypeOK, Ops
<1> QED
  BY <1>1 DEF Typed, TypeOK, PageTyped, Call

LEMMA SameTree ==
    ASSUME UNCHANGED above
    PROVE  \A n : Here(n)' = Here(n)
BY DEF Here, Kids, Exists

LEMMA LoadKeeps ==
    ASSUME IInv, NEW id, NEW cs, LoadStep(id, cs), PageTyped', Ops \/ UNCHANGED ops,
           gone' \subseteq NodeIds, \A n \in gone' : above[n] = Removed
    PROVE  Kept
<1>0. Typed /\ above \in [NodeIds -> Seq(NodeIds) \cup {None, Removed}] /\ lost \in BOOLEAN
  BY DEF IInv, Typed, TypeOK
<1>1. calls' \subseteq Call /\ IsFiniteSet(calls') /\ Sound'
  BY <1>0, LoadCalls, LoadSound
<1>2. PICK new \in calls' :
          /\ LiveGet(new) /\ new.id = id /\ new.answer = "none"
          /\ \A d \in calls' \ {new} :
                ~d.live /\ \E c \in cs : /\ d.op = c.op /\ d.id = c.id
                                       /\ d.answer = c.answer /\ d.node = c.node
  BY <1>0, LoadCalls
<1>3. /\ route' = id /\ id \in NodeIds /\ cs \subseteq calls
      /\ view'.loading /\ ~Shown' /\ UNCHANGED <<account, above, lost>>
  BY LoadingTyped DEF LoadStep, Shown
<1>4. Typed'
  BY <1>0, <1>1, <1>3, TypedFrom
<1>5. Granted'
  BY <1>2, <1>3 DEF LiveGet, LoadStep, IInv, Granted, MayChange, role, level
<1>6. Buried'
  BY <1>2, <1>3 DEF LiveGet, IInv, Buried, Dialogs
<1>7. \A c \in calls' : LiveGet(c) => c = new
  BY <1>2 DEF LiveGet
<1>8. Clean' /\ WaitedFor' /\ Current'
  BY <1>2, <1>3, <1>7 DEF Clean, WaitedFor, Current
<1>9. PageLookup!Ask
  BY <1>3, TreeAssumption DEF PageLookup!Ask
<1> QED
  BY <1>4, <1>5, <1>6, <1>8, <1>9 DEF Kept, IInv, PageLookup!Next

LEMMA LeaveKeeps ==
    ASSUME IInv, LeaveStep, Ops \/ UNCHANGED ops,
           gone' \subseteq NodeIds, \A n \in gone' : above[n] = Removed
    PROVE  Kept
<1>0. Typed /\ above \in [NodeIds -> Seq(NodeIds) \cup {None, Removed}] /\ lost \in BOOLEAN
  BY DEF IInv, Typed, TypeOK
<1>1. /\ PageTyped' /\ calls' = {} /\ IsFiniteSet(calls') /\ Sound' /\ route' = Home
      /\ UNCHANGED <<account, above, lost>>
  BY LeaveTyped DEF LeaveStep
<1>2. Typed'
  BY <1>0, <1>1, TypedFrom
<1>3. ~Shown' /\ ~create'.open /\ \A d \in Dialogs : ~confirm'[d].open
  BY <1>1, NoDialogsTyped DEF LeaveStep, Leave, Shown
<1>4. Granted' /\ Buried' /\ Clean' /\ WaitedFor' /\ Current'
  BY <1>1, <1>3 DEF Granted, Buried, Clean, WaitedFor, Current
<1>5. PageLookup!Close
  BY <1>1, <1>3 DEF PageLookup!Close
<1> QED
  BY <1>2, <1>4, <1>5 DEF Kept, IInv, PageLookup!Next

\* A step of the page in which nothing is shown, asked for or taken.
CalmStep ==
    /\ UNCHANGED <<account, route, view>> /\ PageTyped'
    /\ Ops \/ UNCHANGED ops
    /\ \A d \in Dialogs : confirm'[d].open =>
            \/ confirm[d].open /\ confirm'[d].target = confirm[d].target
            \/ MayChange /\ confirm'[d].target \in NodeIds
    /\ create'.open => create.open \/ MayChange

LEMMA SameShown ==
    ASSUME UNCHANGED <<route, view>>
    PROVE  (Shown' <=> Shown) /\ UNCHANGED PageLookup!lvars /\ Loading' = Loading
BY DEF Shown, PageLookup!lvars, Loading

LEMMA QuietKeeps ==
    ASSUME IInv, CalmStep, UNCHANGED <<above, calls, lost, gone>>
    PROVE  Kept
<1>0. /\ UNCHANGED <<account, route, view, above, calls, lost, gone>>
      /\ (MayChange' <=> MayChange) /\ Typed /\ (Shown' <=> Shown)
  BY SameShown DEF CalmStep, MayChange, role, level, IInv
<1>1. Sound'
  BY <1>0, SameShown DEF CalmStep, Typed, Sound
<1>2. Typed'
  BY <1>0, <1>1, TypedFrom DEF CalmStep, Typed, TypeOK
<1>3. Granted'
  BY <1>0 DEF CalmStep, IInv, Granted
<1>4. Buried' /\ Clean' /\ WaitedFor'
  BY <1>0 DEF IInv, Buried, Clean, Clear, WaitedFor
<1>5. Current'
  BY <1>0, SameTree DEF IInv, Current, Untold
<1> QED
  BY <1>0, <1>2, <1>3, <1>4, <1>5, SameShown DEF Kept, IInv

LEMMA SendKeeps ==
    ASSUME IInv, CalmStep, UNCHANGED <<above, lost, gone>>, MayChange, route # Home,
           NEW op \in {"create", "upload", "node", "doc"}, NEW id \in NodeIds,
           calls' = Sent(calls, op, id)
    PROVE  Kept
<1>0. /\ UNCHANGED <<account, route, view, above, lost, gone>>
      /\ (MayChange' <=> MayChange) /\ Typed /\ (Shown' <=> Shown)
  BY SameShown DEF CalmStep, MayChange, role, level, IInv
<1>1. PICK new : /\ calls' = calls \cup {new} /\ calls' \subseteq Call /\ IsFiniteSet(calls')
                 /\ new.op # "get" /\ new.answer = "none"
  <2>1. op # "get"
    OBVIOUS
  <2> QED
    BY <1>0, <2>1, SendTyped
<1>2. Sound'
  BY <1>0, <1>1, SameShown DEF CalmStep, Typed, Sound
<1>3. Typed'
  BY <1>0, <1>1, <1>2, TypedFrom DEF CalmStep, Typed, TypeOK
<1>4. Granted'
  BY <1>0, <1>1 DEF IInv, Granted
<1>5. Buried' /\ Clean' /\ WaitedFor'
  BY <1>0, <1>1 DEF IInv, Buried, Clean, Clear, WaitedFor, LiveGet
<1>6. Current'
  BY <1>0, <1>1, SameTree DEF IInv, Current, Untold, LiveGet
<1> QED
  BY <1>0, <1>3, <1>4, <1>5, <1>6, SameShown DEF Kept, IInv

LEMMA DropKeeps ==
    ASSUME IInv, CalmStep, UNCHANGED <<above, lost, gone>>,
           NEW c \in calls, c.op = "get" \/ c.answer # "done", calls' = calls \ {c}
    PROVE  Kept
<1>0. /\ UNCHANGED <<account, route, view, above, lost, gone>>
      /\ (MayChange' <=> MayChange) /\ Typed /\ (Shown' <=> Shown)
  BY SameShown DEF CalmStep, MayChange, role, level, IInv
<1>1. calls' \subseteq Call /\ IsFiniteSet(calls')
  BY <1>0, DropTyped
<1>2. Sound'
  BY <1>0, SameShown DEF CalmStep, Typed, Sound
<1>3. Typed'
  BY <1>0, <1>1, <1>2, TypedFrom DEF CalmStep, Typed, TypeOK
<1>4. Granted'
  BY <1>0 DEF CalmStep, IInv, Granted
<1>5. Buried' /\ Clean' /\ WaitedFor'
  BY <1>0 DEF IInv, Buried, Clean, Clear, WaitedFor
<1>6. Current'
  BY <1>0, SameTree DEF IInv, Current, Untold
<1> QED
  BY <1>0, <1>3, <1>4, <1>5, <1>6, SameShown DEF Kept, IInv
-----------------------------------------------------------------------------
\* What the page offers on nodes, the server takes from the account.
LEMMA OfferedIsGranted == TypeOK /\ Offered => MayChange
<1>1. TypeOK => role \in Roles /\ level \in AccessLevels \cup {NoLevel}
  BY AccountsAssumption DEF TypeOK, role, level
<1> QED
  BY <1>1, OffersAreGranted DEF Offered, MayChange

LEMMA UserSteps == IInv /\ User => Kept
<1> SUFFICES ASSUME IInv, User PROVE Kept
  OBVIOUS
<1> USE DEF history
<1>1. Typed /\ TypeOK /\ PageTyped /\ Sound /\ gone \subseteq NodeIds /\ \A n \in gone : above[n] = Removed
  BY DEF IInv, Buried, Typed, TypeOK, PageTyped
<1>2. Shown => route # Home
  BY DEF Shown
<1>3. create.open \/ (\E d \in Dialogs : confirm[d].open) => MayChange
  BY DEF IInv, Granted
<1>4. CASE \/ \E n \in NodeIds : OpenNode(n) \/ History(n, Home)
           \/ Retry \/ (BackButton /\ back # Home)
  BY <1>1, <1>4, UserLoads, LoadKeeps
<1>5. CASE BackButton /\ back = Home
  BY <1>1, <1>5, LeaveKeeps DEF BackButton, GoBack, LeaveStep
<1>6. ASSUME NEW n \in NodeIds, AskDelete(n) PROVE Kept
  <2>1. PICK d \in Dialogs : confirm' = [confirm EXCEPT ![d].open = TRUE, ![d].target = n]
    BY <1>6 DEF AskDelete, Dialogs
  <2>2. /\ confirm' \in [Dialogs -> [open : BOOLEAN, target : NodeIds \cup {None}, busy : BOOLEAN]]
        /\ confirm'[d].target = n
        /\ \A e \in Dialogs \ {d} : confirm'[e] = confirm[e]
    BY <1>1, <2>1 DEF PageTyped
  <2>3. MayChange /\ UNCHANGED <<account, above, route, back, view, create, uploading, calls, ops, lost, gone>>
    BY <1>1, <1>6, OfferedIsGranted DEF AskDelete
  <2>4. CalmStep
    BY <1>1, <2>2, <2>3 DEF CalmStep, PageTyped
  <2> QED
    BY <2>3, <2>4, QuietKeeps
<1>7. ASSUME NEW d \in Dialogs, Confirm(d) PROVE Kept
  <2>1. /\ confirm' \in [Dialogs -> [open : BOOLEAN, target : NodeIds \cup {None}, busy : BOOLEAN]]
        /\ \A e \in Dialogs : confirm'[e].open = confirm[e].open /\ confirm'[e].target = confirm[e].target
    BY <1>1, <1>7 DEF Confirm, PageTyped
  <2>2. /\ MayChange /\ route # Home /\ confirm[d].target \in NodeIds
        /\ calls' = Sent(calls, d, confirm[d].target)
        /\ UNCHANGED <<account, above, route, back, view, create, uploading, lost, gone>> /\ Ops
    BY <1>1, <1>2, <1>3, <1>7 DEF Confirm, Sound
  <2>3. CalmStep
    BY <1>1, <2>1, <2>2 DEF CalmStep, PageTyped
  <2>4. d \in {"create", "upload", "node", "doc"}
    BY DEF Dialogs
  <2> QED
    BY <2>2, <2>3, <2>4, SendKeeps
<1>8. ASSUME NEW d \in Dialogs, Dismiss(d) PROVE Kept
  <2>1. /\ confirm' \in [Dialogs -> [open : BOOLEAN, target : NodeIds \cup {None}, busy : BOOLEAN]]
        /\ \A e \in Dialogs : /\ confirm'[e].open => confirm[e].open
                              /\ confirm'[e].target = confirm[e].target
    BY <1>1, <1>8 DEF Dismiss, PageTyped
  <2>2. UNCHANGED <<account, above, route, back, view, create, uploading, calls, ops, lost, gone>>
    BY <1>8 DEF Dismiss
  <2>3. CalmStep
    BY <1>1, <2>1, <2>2 DEF CalmStep, PageTyped
  <2> QED
    BY <2>2, <2>3, QuietKeeps
<1>9. CASE OpenForm \/ CloseForm
  <2>1. /\ create' \in [open : BOOLEAN, busy : BOOLEAN] /\ (create'.open => create.open \/ MayChange)
        /\ UNCHANGED <<account, above, route, back, view, confirm, uploading, calls, ops, lost, gone>>
    BY <1>1, <1>9, OfferedIsGranted DEF OpenForm, CloseForm, PageTyped
  <2>2. CalmStep
    BY <1>1, <2>1 DEF CalmStep, PageTyped
  <2> QED
    BY <2>1, <2>2, QuietKeeps
<1>10. CASE SubmitForm
  <2>1. /\ create' \in [open : BOOLEAN, busy : BOOLEAN] /\ (create'.open => create.open)
        /\ MayChange /\ route # Home /\ view.node.id \in NodeIds
        /\ calls' = Sent(calls, "create", view.node.id)
        /\ UNCHANGED <<account, above, route, back, view, confirm, uploading, lost, gone>> /\ Ops
    BY <1>1, <1>2, <1>3, <1>10 DEF SubmitForm, PageTyped, Sound, Answer
  <2>2. CalmStep
    BY <1>1, <2>1 DEF CalmStep, PageTyped
  <2> QED
    BY <2>1, <2>2, SendKeeps
<1>11. CASE Upload
  <2>1. /\ uploading' \in BOOLEAN
        /\ MayChange /\ route # Home /\ route \in NodeIds
        /\ calls' = Sent(calls, "upload", route)
        /\ UNCHANGED <<account, above, route, back, view, confirm, create, lost, gone>> /\ Ops
    BY <1>1, <1>2, <1>11, OfferedIsGranted DEF Upload, Free, PageTyped
  <2>2. CalmStep
    BY <1>1, <2>1 DEF CalmStep, PageTyped
  <2> QED
    BY <2>1, <2>2, SendKeeps
<1> QED
  BY <1>4, <1>5, <1>6, <1>7, <1>8, <1>9, <1>10, <1>11, TreeAssumption DEF User

LEMMA ServerSteps == IInv /\ Server => Kept
<1> SUFFICES ASSUME IInv, NEW c \in calls, Serve(c) \/ Lose(c) \/ Fail(c) \/ Refuse(c)
             PROVE  Kept
  BY DEF Server
<1> USE DEF page, history
<1>1. Typed /\ TypeOK /\ PageTyped /\ Sound /\ c \in Call /\ c.answer = "none"
  BY DEF IInv, Typed, TypeOK, PageTyped, Serve, Lose, Fail, Refuse
<1>2. UNCHANGED <<account, route, back, view, confirm, create, uploading, ops, gone>>
  BY DEF Serve, Lose, Fail, Refuse, Apply
<1>3. PageTyped' /\ (MayChange' <=> MayChange) /\ (Shown' <=> Shown)
  BY <1>1, <1>2, SameShown DEF PageTyped, MayChange, role, level
<1>4. ~Refuse(c)
  BY <1>1 DEF Refuse, IInv, Granted
<1>5. /\ above' \in [NodeIds -> Seq(NodeIds) \cup {None, Removed}]
      /\ \A n \in NodeIds : above[n] = Removed => above'[n] = Removed
      /\ (Serve(c) \/ Lose(c)) /\ c.op \in Dialogs => above'[c.id] = Removed
      /\ c.op = "get" => above' = above
      /\ Serve(c) /\ c.op = "get" => c.id \in Exists
  <2>1. CASE Serve(c) \/ Lose(c)
    BY <1>1, <2>1, TreeTyped DEF Serve, Lose, Apply
  <2>2. CASE Fail(c) /\ ~Serve(c) /\ ~Lose(c)
    BY <1>1, <2>2 DEF Fail, TypeOK
  <2> QED
    BY <1>4, <2>1, <2>2
<1>6. lost' \in BOOLEAN
  BY <1>1 DEF Serve, Lose, Fail, Refuse, TypeOK
<1>7. PICK d : /\ calls' = (calls \ {c}) \cup {d} /\ calls' \subseteq Call /\ IsFiniteSet(calls')
               /\ d.op = c.op /\ d.id = c.id /\ d.live = c.live
               /\ d.answer = IF Serve(c) THEN "done" ELSE "failed"
               /\ c.op = "get" /\ Serve(c) => d.node = Here(c.id)
  <2>1. PICK answer \in {"done", "failed"} :
            Answered(c, answer) /\ answer = IF Serve(c) THEN "done" ELSE "failed"
    BY <1>4 DEF Serve, Lose, Fail
  <2> QED
    BY <1>1, <2>1, AnswerTyped DEF Here
<1>8. Here(c.id) \in Answer /\ Here(c.id).id = c.id /\ Here(c.id).kids \subseteq Exists
  BY <1>1 DEF Here, Kids, Exists, Answer, Call
<1>9. Sound'
  BY <1>1, <1>2, <1>3, <1>7, <1>8, SameShown DEF Sound
<1>10. Typed'
  BY <1>1, <1>2, <1>3, <1>5, <1>6, <1>7, <1>9, TypedFrom DEF TypeOK
<1>11. Granted'
  BY <1>2, <1>3, <1>7 DEF IInv, Granted
<1>12. Buried'
  <2>1. \A n \in gone : n \in NodeIds /\ above'[n] = Removed
    BY <1>1, <1>5 DEF IInv, Buried, TypeOK
  <2>2. \A e \in calls : e.op \in Dialogs /\ e.answer = "done" => above'[e.id] = Removed
    BY <1>1, <1>5 DEF IInv, Buried, TypeOK, Call
  <2>3. d.op \in Dialogs /\ d.answer = "done" => above'[d.id] = Removed
    BY <1>5, <1>7
  <2> QED
    BY <1>2, <1>7, <2>1, <2>2, <2>3 DEF Buried
<1>13. Clean'
  <2>1. Exists \cap gone = {}
    BY DEF Exists, IInv, Buried
  <2>2. c.op = "get" /\ Serve(c) => d.node.id \notin gone /\ d.node.kids \cap gone = {}
    BY <1>5, <1>7, <1>8, <2>1
  <2> QED
    BY <1>2, <1>3, <1>7, <2>2 DEF IInv, Clean, Clear, LiveGet
<1>14. WaitedFor'
  BY <1>2, <1>3, <1>7 DEF IInv, WaitedFor, LiveGet
<1>15. Current'
  <2>1. CASE Serve(c) /\ c.op # "get"
    BY <1>7, <2>1 DEF Current, Untold
  <2>2. CASE Serve(c) /\ LiveGet(c)
    <3>1. ~Shown' /\ \A e \in calls' : LiveGet(e) => e = d
      BY <1>3, <1>7, <2>2 DEF IInv, WaitedFor, LiveGet, Shown
    <3>2. d.node = Here(d.id)'
      BY <1>5, <1>7, <2>2, SameTree DEF LiveGet
    <3> QED
      BY <3>1, <3>2 DEF Current
  <2>3. CASE (Serve(c) /\ c.op = "get" /\ ~c.live) \/ (~Serve(c) /\ Fail(c))
    <3>1. UNCHANGED <<above, lost>>
      BY <1>5, <2>3 DEF Serve, Fail
    <3>2. Untold => Untold'
      BY <1>1, <1>7 DEF Untold
    <3> QED
      BY <1>2, <1>3, <1>7, <2>3, <3>1, <3>2, SameTree DEF IInv, Current, LiveGet
  <2>4. CASE ~Serve(c) /\ Lose(c)
    BY <2>4 DEF Lose, Current
  <2> QED
    BY <1>4, <2>1, <2>2, <2>3, <2>4 DEF LiveGet
<1> QED
  BY <1>2, <1>10, <1>11, <1>12, <1>13, <1>14, <1>15, SameShown DEF Kept, IInv

LEMMA LoadedKeeps == ASSUME IInv, NEW c \in calls, Loaded(c), c.live PROVE Kept
<1> USE DEF history
<1>1. Typed /\ TypeOK /\ PageTyped /\ Sound /\ c \in Call /\ LiveGet(c)
  BY DEF IInv, Typed, TypeOK, PageTyped, Loaded, Ended, LiveGet
<1>2. /\ UNCHANGED <<account, above, route, back, confirm, create, uploading, ops, lost, gone>>
      /\ calls' = calls \ {c}
      /\ view' = [node |-> c.node, loading |-> FALSE, error |-> Failed(c)]
  BY DEF Loaded
<1>3. c.id = route /\ view.loading /\ route # Home
  BY <1>1, TreeAssumption DEF IInv, WaitedFor, Call
<1>4. PageTyped' /\ view'.node = c.node /\ (Shown' <=> ~Failed(c)) /\ ~view'.loading
  <2>1. Failed(c) \in BOOLEAN
    BY DEF Failed
  <2>2. PageTyped' /\ view'.node = c.node /\ ~view'.loading /\ view'.error = Failed(c)
    BY <1>1, <1>2, <2>1 DEF PageTyped, Call
  <2>3. view'.error <=> Failed(c)
    BY <2>2, Zenon
  <2> QED
    BY <1>2, <1>3, <2>2, <2>3 DEF Shown
<1>5. ~Failed(c) => c.answer = "done"
  BY <1>1 DEF Loaded, Ended, Failed, Call
<1>6. calls' \subseteq Call /\ IsFiniteSet(calls') /\ \A e \in calls' : ~LiveGet(e)
  BY <1>1, <1>2, DropTyped DEF IInv, WaitedFor
<1>7. Sound'
  BY <1>1, <1>2, <1>3, <1>4, <1>5 DEF Sound, LiveGet
<1>8. Typed'
  BY <1>1, <1>2, <1>4, <1>6, <1>7, TypedFrom DEF TypeOK
<1>9. Granted'
  BY <1>2 DEF IInv, Granted, MayChange, role, level
<1>10. Buried'
  BY <1>2 DEF IInv, Buried
<1>11. Clean' /\ WaitedFor'
  BY <1>1, <1>2, <1>3, <1>4, <1>5, <1>6 DEF IInv, Clean, Clear, WaitedFor, Sound, LiveGet
<1>12. Current'
  <2>1. Untold => Untold'
    BY <1>1, <1>2 DEF Untold, LiveGet
  <2> QED
    BY <1>1, <1>2, <1>3, <1>4, <1>5, <1>6, <2>1, SameTree DEF IInv, Current
<1>13. PageLookup!Settle
  BY <1>1, <1>2, <1>3, <1>4, <1>5 DEF PageLookup!Settle, Sound, LiveGet, Shown
<1> QED
  BY <1>8, <1>9, <1>10, <1>11, <1>12, <1>13 DEF Kept, IInv, PageLookup!Next

LEMMA ScriptSteps == IInv /\ Script => Kept
<1> SUFFICES ASSUME IInv, NEW c \in calls,
                    \/ Loaded(c) \/ Made(c) \/ Uploaded(c)
                    \/ NotDeleted(c) \/ NodeDeleted(c) \/ DocDeleted(c)
             PROVE  Kept
  BY DEF Script
<1> USE DEF history
<1>1. /\ Typed /\ PageTyped /\ gone \subseteq NodeIds /\ c \in Call
      /\ \A n \in gone : above[n] = Removed
  BY DEF IInv, Buried, Typed, TypeOK, PageTyped
<1>2. CASE Loaded(c) /\ c.live
  BY <1>2, LoadedKeeps
<1>3. CASE Loaded(c) /\ ~c.live
  <2>1. CalmStep /\ calls' = calls \ {c} /\ c.op = "get" /\ UNCHANGED <<above, lost, gone>>
    BY <1>1, <1>3 DEF Loaded, Ended, CalmStep, PageTyped
  <2> QED
    BY <2>1, DropKeeps
<1>4. CASE \/ (Made(c) \/ Uploaded(c)) /\ ~Failed(c)
           \/ NodeDeleted(c) \/ DocDeleted(c)
  <2>1. gone' \subseteq NodeIds /\ \A n \in gone' : above[n] = Removed
    BY <1>1, <1>4, ScriptLoads DEF IInv, Buried, Call
  <2>2. CASE LeaveStep
    BY <1>1, <1>4, <2>1, <2>2, ScriptLoads, LeaveKeeps
  <2>3. CASE \E id, cs : LoadStep(id, cs)
    BY <1>1, <1>4, <2>1, <2>3, ScriptLoads, LoadKeeps
  <2> QED
    BY <1>1, <1>4, <2>2, <2>3, ScriptLoads
<1>5. CASE (Made(c) \/ Uploaded(c)) /\ Failed(c)
  <2>1. /\ calls' = calls \ {c} /\ c.answer # "done"
        /\ create' \in [open : BOOLEAN, busy : BOOLEAN] /\ create'.open = create.open
        /\ uploading' \in BOOLEAN
        /\ UNCHANGED <<account, above, route, back, view, confirm, ops, lost, gone>>
    BY <1>1, <1>5 DEF Made, Uploaded, Failed, PageTyped
  <2>2. CalmStep
    BY <1>1, <2>1 DEF CalmStep, PageTyped
  <2> QED
    BY <2>1, <2>2, DropKeeps
<1>6. CASE NotDeleted(c)
  <2>1. /\ calls' = calls \ {c} /\ c.answer # "done" /\ c.op \in Dialogs /\ confirm' = Closed(c)
        /\ UNCHANGED <<account, above, route, back, view, create, uploading, ops, lost, gone>>
    BY <1>6 DEF NotDeleted, Ended, Failed
  <2>2. CalmStep
    BY <1>1, <2>1, ClosedTyped DEF CalmStep, PageTyped
  <2> QED
    BY <2>1, <2>2, DropKeeps
<1> QED
  BY <1>2, <1>3, <1>4, <1>5, <1>6

LEMMA InitIInv == Init => IInv /\ PageLookup!Init
<1> SUFFICES ASSUME Init PROVE IInv /\ PageLookup!Init
  OBVIOUS
<1>1. /\ route \in NodeIds /\ route # Home /\ view.loading /\ ~Shown
      /\ ~create.open /\ \A d \in Dialogs : ~confirm[d].open
  BY StartsAssumption, TreeAssumption, LoadingTyped, NoDialogsTyped DEF Init, Shown
<1>2. PageTyped
  BY <1>1, LoadingTyped, NoDialogsTyped DEF Init, PageTyped
<1>3. PICK new \in Call : /\ calls = {} \cup {new} /\ IsFiniteSet(calls)
                          /\ new.op = "get" /\ new.id = route /\ new.answer = "none"
  <2>1. PICK cs : cs = {}
    OBVIOUS
  <2>2. cs \subseteq Call /\ IsFiniteSet(cs) /\ route \in NodeIds /\ "get" \in OpKinds
    BY <1>1, <2>1, FS_EmptySet DEF OpKinds
  <2>3. PICK new : new = NewCall(cs, "get", route)
    OBVIOUS
  <2>4. /\ new \in Call /\ Sent(cs, "get", route) = cs \cup {new} /\ IsFiniteSet(cs \cup {new})
        /\ new.op = "get" /\ new.id = route /\ new.answer = "none"
    BY <2>2, <2>3, SentCalls
  <2> QED
    BY <2>1, <2>4 DEF Init
<1>4. above \in [NodeIds -> Seq(NodeIds) \cup {None, Removed}]
  <2>1. \A n \in DOMAIN Placed : Placed[n] \in Seq(NodeIds)
    <3>1. Seq({m \in NodeIds : TypeOf[m] = "folder"}) \subseteq Seq(NodeIds)
      BY SeqMonotonic
    <3> QED
      BY <3>1, TreeAssumption
  <2> QED
    BY <2>1 DEF Init
<1>5. Sound
  BY <1>1, <1>3 DEF Sound
<1>6. Typed
  <2>1. calls \subseteq Call
    BY <1>3
  <2>2. account \in Accounts /\ ops = 0 /\ lost = FALSE /\ gone = {}
    BY Zenon DEF Init
  <2>3. ops \in 0 .. MaxOps
    BY <2>2, OpsAssumption
  <2> QED
    BY <1>2, <1>3, <1>4, <1>5, <2>1, <2>2, <2>3 DEF Typed, TypeOK, PageTyped
<1>7. Granted /\ Buried /\ Clean /\ WaitedFor /\ Current
  BY <1>1, <1>3 DEF Init, Granted, Buried, Clean, WaitedFor, Current, Dialogs
<1>8. PageLookup!Init
  BY <1>1 DEF PageLookup!Init
<1> QED
  BY <1>6, <1>7, <1>8 DEF IInv

LEMMA StepKeeps == IInv /\ [Next]_vars => Kept
<1> SUFFICES ASSUME IInv, [Next]_vars PROVE Kept
  OBVIOUS
<1>1. CASE UNCHANGED vars
  <2>1. CalmStep /\ UNCHANGED <<above, calls, lost, gone>>
    BY <1>1 DEF vars, page, history, CalmStep, PageTyped, IInv, Typed, TypeOK
  <2> QED
    BY <2>1, QuietKeeps
<1> QED
  BY <1>1, UserSteps, ServerSteps, ScriptSteps DEF Next

LEMMA Invariance == Spec => []IInv
<1>1. Init => IInv
  BY InitIInv
<1>2. IInv /\ [Next]_vars => IInv'
  BY StepKeeps DEF Kept
<1> QED
  BY <1>1, <1>2, PTL DEF Spec

-----------------------------------------------------------------------------
\* Every variable of the page and of the server keeps its type.
THEOREM TypeCorrect == Spec => []TypeOK
<1>1. IInv => TypeOK
  BY DEF IInv, Typed
<1> QED
  BY <1>1, Invariance, PTL

\* Nothing the page offers to do to nodes is refused (NodeView/index.jsx, shared/authz):
\* a dialog or form that is open, and a call under way, were offered on an account
\* that keeps its role and level.
THEOREM OfferedIsTakenHolds == Spec => []OfferedIsTaken
<1>1. IInv => OfferedIsTaken
  BY DEF IInv, Granted, OfferedIsTaken
<1> QED
  BY <1>1, Invariance, PTL

\* A node whose deletion the page was told is never on display again: no load that
\* was asked for before the deletion was answered counts once it has been.
THEOREM GoneStaysGoneHolds == Spec => []GoneStaysGone
<1>1. IInv => GoneStaysGone
  BY DEF IInv, Clean, Clear, GoneStaysGone
<1> QED
  BY <1>1, Invariance, PTL

\* With nothing under way and no answer lost, the page shows the node of the route
\* and its children as the server has them: every change made from here is followed
\* by a load that is asked for after it.
THEOREM SettledIsCurrentHolds == Spec => []SettledIsCurrent
<1>1. IInv => SettledIsCurrent
  BY DEF IInv, Current, Untold, Here, SettledIsCurrent
<1> QED
  BY <1>1, Invariance, PTL

\* Every step is one of the panel's or none (useGetNode): the page of a node that was
\* left is never shown.  That a wait ends is left to the model checker.
THEOREM ImplementsLookup == Spec => PageLookup!Init /\ [][PageLookup!Next]_(PageLookup!lvars)
<1>1. Init => PageLookup!Init
  BY InitIInv
<1>2. IInv /\ [Next]_vars => [PageLookup!Next]_(PageLookup!lvars)
  BY StepKeeps DEF Kept
<1> QED
  BY <1>1, <1>2, Invariance, PTL DEF Spec
=============================================================================
