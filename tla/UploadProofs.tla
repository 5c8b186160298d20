---------------------------- MODULE UploadProofs ----------------------------
(***************************************************************************)
(* Theorems about the two uploads of a directory.  Of FolderUpload, the    *)
(* client's, item by item: the types, that the list is true, that parents  *)
(* come first, that files land where the upload was started, and that each *)
(* item is counted once.  Of BatchTree, the server's in one request: that  *)
(* no content is forgotten, that the rows spell the manifest, and that     *)
(* what reaches the transaction is complete.                               *)
(***************************************************************************)
EXTENDS FolderUpload, BatchTree, FiniteSetTheorems, WellFoundedInduction,
        SequenceTheorems, TLAPS

-----------------------------------------------------------------------------
(***************************************************************************)
(* Runs: what a step does to the record of one run.                        *)
(***************************************************************************)
\* A step of run r leaves the others alone, and r its destination and its start.
Only(r) ==
    /\ runs' \in [RunIds -> Run]
    /\ \A q \in RunIds \ {r} : runs'[q] = runs[q]
    /\ runs'[r].dest = runs[r].dest /\ runs'[r].first = runs[r].first
    /\ runs'[r].aborted = runs[r].aborted

\* Run r with other work, at another point.
Rec(r, phase, level, todo, waiting, workers) ==
    [phase |-> phase, level |-> level, todo |-> todo, waiting |-> waiting,
     workers |-> workers, aborted |-> runs[r].aborted, dest |-> runs[r].dest,
     first |-> runs[r].first]

LEMMA RunSet ==
    ASSUME runs \in [RunIds -> Run], NEW r \in RunIds, NEW R \in Run,
           runs' = [runs EXCEPT ![r] = R]
    PROVE  /\ runs' \in [RunIds -> Run] /\ runs'[r] = R
           /\ \A q \in RunIds \ {r} : runs'[q] = runs[q]
  OBVIOUS

LEMMA RecSet ==
    ASSUME runs \in [RunIds -> Run], NEW r \in RunIds,
           NEW phase \in Phases, NEW level \in {0} \cup Depths, NEW todo \in SUBSET Items,
           NEW waiting \in SUBSET (Items \X Ids), NEW workers \in 0 .. Limit,
           runs' = [runs EXCEPT ![r] = Rec(r, phase, level, todo, waiting, workers)]
    PROVE  /\ Only(r)
           /\ runs'[r].phase = phase /\ runs'[r].level = level /\ runs'[r].todo = todo
           /\ runs'[r].waiting = waiting /\ runs'[r].workers = workers
<1>0. PICK R : R = Rec(r, phase, level, todo, waiting, workers)
  OBVIOUS
<1>1. R \in Run
  BY <1>0 DEF Run, Rec
<1>2. runs' \in [RunIds -> Run] /\ runs'[r] = R /\ \A q \in RunIds \ {r} : runs'[q] = runs[q]
  BY <1>0, <1>1, RunSet
<1> QED
  BY <1>0, <1>2 DEF Only, Rec

\* Run r keeps its phase, its level and its signal.
Steady(r) ==
    /\ Only(r)
    /\ runs'[r].phase = runs[r].phase /\ runs'[r].level = runs[r].level
    /\ runs'[r].workers = runs[r].workers

LEMMA SkipEffect ==
    ASSUME TypeOK, NEW r \in RunIds, NEW i \in Items, Skip(r, i) \/ NoParent(r, i)
    PROVE  /\ Steady(r) /\ runs'[r].todo = runs[r].todo \ {i}
           /\ runs'[r].waiting = runs[r].waiting
<1>1. runs \in [RunIds -> Run] /\ runs[r] \in Run
  BY DEF TypeOK
<1>2. PICK todo \in SUBSET Items : todo = runs[r].todo \ {i}
  BY <1>1 DEF Run
<1>3. PICK R : R = [runs[r] EXCEPT !.todo = todo]
  OBVIOUS
<1>4. runs' = [runs EXCEPT ![r] = R]
  BY <1>2, <1>3 DEF Skip, NoParent
<1>5. R = Rec(r, runs[r].phase, runs[r].level, todo, runs[r].waiting, runs[r].workers)
  BY <1>1, <1>3 DEF Run, Rec
<1>6. PICK phase \in Phases, level \in {0} \cup Depths, waiting \in SUBSET (Items \X Ids),
           workers \in 0 .. Limit :
         /\ phase = runs[r].phase /\ level = runs[r].level /\ waiting = runs[r].waiting
         /\ workers = runs[r].workers
  BY <1>1, Zenon DEF Run
<1>7. runs' = [runs EXCEPT ![r] = Rec(r, phase, level, todo, waiting, workers)]
  BY <1>4, <1>5, <1>6
<1>8. /\ Only(r)
      /\ runs'[r].phase = phase /\ runs'[r].level = level /\ runs'[r].todo = todo
      /\ runs'[r].waiting = waiting /\ runs'[r].workers = workers
  BY <1>1, <1>7, RecSet
<1> QED
  BY <1>2, <1>6, <1>8 DEF Steady

LEMMA SendEffect ==
    ASSUME TypeOK, NEW r \in RunIds, NEW i \in Items, Send(r, i)
    PROVE  /\ Steady(r) /\ runs'[r].todo = runs[r].todo \ {i}
           /\ idOf[Parent[i]] \in Ids
           /\ runs'[r].waiting = runs[r].waiting \cup {<<i, idOf[Parent[i]]>>}
<1>1. runs \in [RunIds -> Run] /\ runs[r] \in Run
  BY DEF TypeOK
<1>2. PICK id \in Ids : id = idOf[Parent[i]]
  BY PlanAssumption DEF TypeOK, Send
<1>3. PICK todo \in SUBSET Items, waiting \in SUBSET (Items \X Ids) :
          todo = runs[r].todo \ {i} /\ waiting = runs[r].waiting \cup {<<i, id>>}
  <2>1. runs[r].todo \ {i} \in SUBSET Items
        /\ runs[r].waiting \cup {<<i, id>>} \in SUBSET (Items \X Ids)
    BY <1>1 DEF Run
  <2> QED
    BY <2>1, Zenon
<1>4. PICK R : R = [runs[r] EXCEPT !.todo = todo, !.waiting = waiting]
  OBVIOUS
<1>5. runs' = [runs EXCEPT ![r] = R]
  BY <1>2, <1>3, <1>4 DEF Send
<1>6. R = Rec(r, runs[r].phase, runs[r].level, todo, waiting, runs[r].workers)
  BY <1>1, <1>4 DEF Run, Rec
<1>7. PICK phase \in Phases, level \in {0} \cup Depths, workers \in 0 .. Limit :
         phase = runs[r].phase /\ level = runs[r].level /\ workers = runs[r].workers
  BY <1>1, Zenon DEF Run
<1>8. runs' = [runs EXCEPT ![r] = Rec(r, phase, level, todo, waiting, workers)]
  BY <1>5, <1>6, <1>7
<1>9. /\ Only(r)
      /\ runs'[r].phase = phase /\ runs'[r].level = level /\ runs'[r].todo = todo
      /\ runs'[r].waiting = waiting /\ runs'[r].workers = workers
  BY <1>1, <1>8, RecSet
<1> QED
  BY <1>2, <1>3, <1>7, <1>9 DEF Steady

\* The request of an item has ended, and its worker is free.
LEMMA EndsEffect ==
    ASSUME TypeOK, NEW r \in RunIds, NEW i \in Items, NEW id \in Ids,
           Acknowledged(r, i, id) \/ Cut(r, i, id) \/ (Failed(r, i, id) /\ i \in Files)
    PROVE  /\ Steady(r) /\ runs'[r].todo = runs[r].todo
           /\ runs'[r].waiting = runs[r].waiting \ {<<i, id>>}
<1>1. runs \in [RunIds -> Run] /\ runs[r] \in Run
  BY DEF TypeOK
<1>2. PICK waiting \in SUBSET (Items \X Ids) : waiting = runs[r].waiting \ {<<i, id>>}
  BY <1>1 DEF Run
<1>3. PICK R : R = [runs[r] EXCEPT !.waiting = waiting]
  OBVIOUS
<1>4. runs' = [runs EXCEPT ![r] = R]
  BY <1>2, <1>3 DEF Acknowledged, Cut, Failed
<1>5. R = Rec(r, runs[r].phase, runs[r].level, runs[r].todo, waiting, runs[r].workers)
  BY <1>1, <1>3 DEF Run, Rec
<1>6. PICK phase \in Phases, level \in {0} \cup Depths, todo \in SUBSET Items,
           workers \in 0 .. Limit :
         /\ phase = runs[r].phase /\ level = runs[r].level /\ todo = runs[r].todo
         /\ workers = runs[r].workers
  BY <1>1, Zenon DEF Run
<1>7. runs' = [runs EXCEPT ![r] = Rec(r, phase, level, todo, waiting, workers)]
  BY <1>4, <1>5, <1>6
<1>8. /\ Only(r)
      /\ runs'[r].phase = phase /\ runs'[r].level = level /\ runs'[r].todo = todo
      /\ runs'[r].waiting = waiting /\ runs'[r].workers = workers
  BY <1>1, <1>7, RecSet
<1> QED
  BY <1>2, <1>6, <1>8 DEF Steady

\* A folder's request has failed: its worker has thrown.
LEMMA ThrowEffect ==
    ASSUME TypeOK, NEW r \in RunIds, NEW i \in Folders, NEW id \in Ids, Failed(r, i, id),
           runs[r].workers > 0
    PROVE  /\ Only(r) /\ runs'[r].phase = "left" /\ runs'[r].level = runs[r].level
           /\ runs'[r].todo = runs[r].todo
           /\ runs'[r].waiting = runs[r].waiting \ {<<i, id>>}
           /\ runs'[r].workers = runs[r].workers - 1
<1>1. runs \in [RunIds -> Run] /\ runs[r] \in Run
  BY DEF TypeOK
<1>2. PICK waiting \in SUBSET (Items \X Ids) : waiting = runs[r].waiting \ {<<i, id>>}
  BY <1>1 DEF Run
<1>3. PICK rest : rest = [runs[r] EXCEPT !.waiting = waiting]
  OBVIOUS
<1>4. rest = [phase |-> runs[r].phase, level |-> runs[r].level, todo |-> runs[r].todo,
              waiting |-> waiting, workers |-> runs[r].workers,
              aborted |-> runs[r].aborted, dest |-> runs[r].dest, first |-> runs[r].first]
  BY <1>1, <1>3 DEF Run
<1>5. PICK workers \in 0 .. Limit : workers = runs[r].workers - 1
  BY <1>1, LimitAssumption DEF Run
<1>6. PICK R : R = [rest EXCEPT !.phase = "left", !.workers = workers]
  OBVIOUS
<1>7. i \notin Files
  BY PlanAssumption
<1>8. runs' = [runs EXCEPT ![r] = R]
  BY <1>2, <1>3, <1>4, <1>5, <1>6, <1>7 DEF Failed
<1>9. R = Rec(r, "left", runs[r].level, runs[r].todo, waiting, workers)
  BY <1>4, <1>6 DEF Rec
<1>10. PICK phase \in Phases, level \in {0} \cup Depths, todo \in SUBSET Items :
          phase = "left" /\ level = runs[r].level /\ todo = runs[r].todo
  BY <1>1, Zenon DEF Run, Phases
<1>11. runs' = [runs EXCEPT ![r] = Rec(r, phase, level, todo, waiting, workers)]
  BY <1>8, <1>9, <1>10
<1>12. /\ Only(r)
       /\ runs'[r].phase = phase /\ runs'[r].level = level /\ runs'[r].todo = todo
       /\ runs'[r].waiting = waiting /\ runs'[r].workers = workers
  BY <1>1, <1>11, RecSet
<1> QED
  BY <1>2, <1>5, <1>10, <1>12

\* A run goes on to another point of execute.
LEMMA NextLevelEffect ==
    ASSUME TypeOK, NEW r \in RunIds, NextLevel(r)
    PROVE  /\ Only(r) /\ runs'[r].phase = "folders"
           /\ runs'[r].level = runs[r].level + 1 /\ runs'[r].level \in Depths
           /\ runs'[r].todo = Queued(Level(runs[r].level + 1))
           /\ runs'[r].waiting = {} /\ runs'[r].workers = runs[r].workers
<1>1. runs \in [RunIds -> Run] /\ runs[r] \in Run
  BY DEF TypeOK
<1>0. PICK waiting \in SUBSET (Items \X Ids), workers \in 0 .. Limit :
          waiting = runs[r].waiting /\ workers = runs[r].workers
  BY <1>1, Zenon DEF Run
<1>2. PICK level \in Depths : level = runs[r].level + 1
  BY DEF NextLevel
<1>3. PICK todo \in SUBSET Items : todo = Queued(Level(runs[r].level + 1))
  BY DEF Queued, Level, Items
<1>4. PICK R : R = [runs[r] EXCEPT !.level = level, !.todo = todo]
  OBVIOUS
<1>5. runs' = [runs EXCEPT ![r] = R]
  BY <1>2, <1>3, <1>4 DEF NextLevel
<1>6. PICK phase \in Phases : phase = runs[r].phase
  BY <1>1, Zenon DEF Run
<1>7. R = Rec(r, phase, level, todo, waiting, workers)
  BY <1>1, <1>4, <1>6, <1>0 DEF Run, Rec
<1>8. /\ Only(r)
      /\ runs'[r].phase = phase /\ runs'[r].level = level /\ runs'[r].todo = todo
      /\ runs'[r].waiting = waiting /\ runs'[r].workers = workers
  <2> runs' = [runs EXCEPT ![r] = Rec(r, phase, level, todo, waiting, workers)]
    BY <1>5, <1>7
  <2> QED
    BY <1>1, RecSet
<1> QED
  BY <1>2, <1>3, <1>6, <1>8, <1>0 DEF NextLevel, Through

LEMMA StartFilesEffect ==
    ASSUME TypeOK, NEW r \in RunIds, StartFiles(r)
    PROVE  /\ Only(r) /\ runs'[r].phase = "files" /\ runs'[r].level = runs[r].level
           /\ runs'[r].todo = Queued(Files)
           /\ runs'[r].waiting = {} /\ runs'[r].workers = runs[r].workers
<1>1. runs \in [RunIds -> Run] /\ runs[r] \in Run
  BY DEF TypeOK
<1>0. PICK waiting \in SUBSET (Items \X Ids), workers \in 0 .. Limit :
          waiting = runs[r].waiting /\ workers = runs[r].workers
  BY <1>1, Zenon DEF Run
<1>2. PICK level \in {0} \cup Depths : level = runs[r].level
  BY <1>1, Zenon DEF Run
<1>3. PICK todo \in SUBSET Items : todo = Queued(Files)
  BY DEF Queued, Items
<1>4. PICK R : R = [runs[r] EXCEPT !.phase = "files", !.todo = todo]
  OBVIOUS
<1>5. runs' = [runs EXCEPT ![r] = R]
  BY <1>3, <1>4 DEF StartFiles
<1>6. PICK phase \in Phases : phase = "files"
  BY DEF Phases
<1>7. R = Rec(r, phase, level, todo, waiting, workers)
  BY <1>1, <1>2, <1>4, <1>6, <1>0 DEF Run, Rec
<1>8. /\ Only(r)
      /\ runs'[r].phase = phase /\ runs'[r].level = level /\ runs'[r].todo = todo
      /\ runs'[r].waiting = waiting /\ runs'[r].workers = workers
  <2> runs' = [runs EXCEPT ![r] = Rec(r, phase, level, todo, waiting, workers)]
    BY <1>5, <1>7
  <2> QED
    BY <1>1, RecSet
<1> QED
  BY <1>2, <1>3, <1>6, <1>8, <1>0 DEF StartFiles, LastLevel, Through

LEMMA StopEffect ==
    ASSUME TypeOK, NEW r \in RunIds, EndEarly(r) \/ EndFiles(r)
    PROVE  /\ Only(r) /\ runs'[r].phase = IF EndEarly(r) THEN "early" ELSE "done"
           /\ runs'[r].level = runs[r].level /\ runs'[r].todo = {}
           /\ runs'[r].waiting = {} /\ runs'[r].workers = runs[r].workers
<1>1. runs \in [RunIds -> Run] /\ runs[r] \in Run
  BY DEF TypeOK
<1>0. PICK waiting \in SUBSET (Items \X Ids), workers \in 0 .. Limit :
          waiting = runs[r].waiting /\ workers = runs[r].workers
  BY <1>1, Zenon DEF Run
<1>2. PICK level \in {0} \cup Depths, todo \in SUBSET Items :
          level = runs[r].level /\ todo = runs[r].todo
  BY <1>1, Zenon DEF Run
<1>3. runs[r].phase = IF EndEarly(r) THEN "folders" ELSE "files"
  BY DEF EndEarly, EndFiles, LastLevel
<1>4. PICK phase \in Phases : phase = IF EndEarly(r) THEN "early" ELSE "done"
  BY DEF Phases
<1>5. PICK R : R = [runs[r] EXCEPT !.phase = phase]
  OBVIOUS
<1>6. runs' = [runs EXCEPT ![r] = R]
  BY <1>3, <1>4, <1>5 DEF EndEarly, EndFiles
<1>7. R = Rec(r, phase, level, todo, waiting, workers)
  BY <1>1, <1>2, <1>5, <1>0 DEF Run, Rec
<1>8. /\ Only(r)
      /\ runs'[r].phase = phase /\ runs'[r].level = level /\ runs'[r].todo = todo
      /\ runs'[r].waiting = waiting /\ runs'[r].workers = workers
  <2> runs' = [runs EXCEPT ![r] = Rec(r, phase, level, todo, waiting, workers)]
    BY <1>6, <1>7
  <2> QED
    BY <1>1, RecSet
<1> QED
  BY <1>2, <1>4, <1>8, <1>0 DEF EndEarly, EndFiles, LastLevel, Through

LEMMA CancelEffect ==
    ASSUME TypeOK, cancel, current \in RunIds
    PROVE  /\ runs' \in [RunIds -> Run]
           /\ \A q \in RunIds \ {current} : runs'[q] = runs[q]
           /\ runs'[current] = [phase |-> runs[current].phase, level |-> runs[current].level,
                                todo |-> runs[current].todo, waiting |-> runs[current].waiting,
                                workers |-> runs[current].workers, aborted |-> TRUE,
                                dest |-> runs[current].dest, first |-> runs[current].first]
<1>1. runs \in [RunIds -> Run] /\ runs[current] \in Run
  BY DEF TypeOK
<1>2. PICK R : R = [runs[current] EXCEPT !.aborted = TRUE]
  OBVIOUS
<1>3. runs' = [runs EXCEPT ![current] = R]
  BY <1>2 DEF cancel
<1>4. R = [phase |-> runs[current].phase, level |-> runs[current].level,
           todo |-> runs[current].todo, waiting |-> runs[current].waiting,
           workers |-> runs[current].workers, aborted |-> TRUE,
           dest |-> runs[current].dest, first |-> runs[current].first]
  BY <1>1, <1>2 DEF Run
<1>5. R \in Run
  BY <1>1, <1>4 DEF Run
<1> QED
  BY <1>1, <1>3, <1>4, <1>5

\* A new run.
Begun(newPlan, dest, first) ==
    [phase |-> "folders", level |-> 1, todo |-> {f \in Level(1) : newPlan[f] = "queued"},
     waiting |-> {}, workers |-> Limit, aborted |-> FALSE, dest |-> dest, first |-> first]

LEMMA FirstLevel == 1 \in Depths
<1>1. Depths \subseteq Nat /\ Depths # {}
  BY PlanAssumption DEF Depths
<1>2. IsWellFoundedOn(OpToRel(<, Nat), Nat)
  BY NatLessThanWellFounded
<1>3. PICK d \in Depths : \A e \in Depths : ~(<<e, d>> \in OpToRel(<, Nat))
  BY <1>1, <1>2, WFMin
<1>4. \A e \in Depths : ~(e < d)
  BY <1>1, <1>3 DEF OpToRel
<1>5. PICK f \in Folders : Depth[f] = d
  BY DEF Depths
<1>6. CASE Parent[f] = Top
  <2>1. Depth[f] = 1
    BY <1>6, PlanAssumption
  <2> QED
    BY <1>5, <2>1
<1>7. CASE Parent[f] # Top
  <2>1. Parent[f] \in Folders /\ d = Depth[Parent[f]] + 1
    BY <1>5, <1>7, PlanAssumption DEF Items
  <2>2. Depth[Parent[f]] \in Depths
    BY <2>1 DEF Depths
  <2>3. PICK e \in Nat : e = Depth[Parent[f]]
    BY <1>1, <2>2
  <2>4. ~(e < d)
    BY <1>4, <2>2, <2>3
  <2> QED
    BY <1>1, <2>1, <2>3, <2>4
<1> QED
  BY <1>6, <1>7

LEMMA ExecuteEffect ==
    ASSUME TypeOK, NEW n \in RunIds, n = LastRun + 1, NEW dest \in Dests \cup {None},
           NEW first \in 0 .. MaxRuns, execute(plan', dest, first)
    PROVE  /\ runs' \in [RunIds -> Run]
           /\ \A q \in RunIds \ {n} : runs'[q] = runs[q]
           /\ runs'[n] = Begun(plan', dest, first)
<1>1. runs \in [RunIds -> Run]
  BY DEF TypeOK
<1>2. PICK todo \in SUBSET Items : todo = {f \in Level(1) : plan'[f] = "queued"}
  BY DEF Level, Items
<1>3. PICK R : R = [NoRun EXCEPT !.phase = "folders", !.level = 1, !.todo = todo,
                                 !.workers = Limit, !.dest = dest, !.first = first]
  OBVIOUS
<1>4. runs' = [runs EXCEPT ![n] = R]
  BY <1>2, <1>3 DEF execute
<1>5. R = [phase |-> "folders", level |-> 1, todo |-> todo, waiting |-> {}, workers |-> Limit,
           aborted |-> FALSE, dest |-> dest, first |-> first]
  BY <1>3 DEF NoRun
<1>6. R \in Run
  BY <1>5, FirstLevel, LimitAssumption DEF Run, Phases
<1> QED
  BY <1>1, <1>2, <1>4, <1>5, <1>6 DEF Begun
-----------------------------------------------------------------------------
(***************************************************************************)
(* The runs: which one is on, and what its workers may have.               *)
(***************************************************************************)
On == {r \in RunIds : runs[r].phase # "off"}

\* Runs are numbered in the order they were called.
Numbered ==
    /\ LastRun \in 0 .. MaxRuns
    /\ \A r \in RunIds : runs[r].phase = "off" <=> r > LastRun
    /\ LastRun = 0 => \A i \in Items : plan[i] = "gone"

\* activeController belongs to the last run, while it is among the folders or the
\* files; the others are over.
Single ==
    /\ uploading <=> current # 0
    /\ current # 0 => current = LastRun
    /\ \A r \in RunIds : runs[r].phase \in {"folders", "files"} <=> r = current

\* The work of a run is of its phase, no item is both queued and sent, and none is sent
\* twice at once; a run is left over by an error, which an aborted one ignores.
Work(r) ==
    /\ runs[r].phase \notin {"folders", "files", "left"} =>
          runs[r].todo = {} /\ runs[r].waiting = {}
    /\ runs[r].phase \in {"folders", "left"} =>
          /\ runs[r].todo \subseteq Level(runs[r].level)
          /\ \A w \in runs[r].waiting : w[1] \in Level(runs[r].level)
    /\ runs[r].phase = "files" =>
          runs[r].todo \subseteq Files /\ \A w \in runs[r].waiting : w[1] \in Files
    /\ \A w \in runs[r].waiting : w[1] \notin runs[r].todo
    /\ \A v, w \in runs[r].waiting : v[1] = w[1] => v = w
    /\ IsFiniteSet(runs[r].waiting) /\ Cardinality(runs[r].waiting) <= runs[r].workers
    /\ runs[r].phase = "left" => ~runs[r].aborted

RunsInv == Numbered /\ Single /\ \A r \in RunIds : Work(r)

LEMMA OnFinite ==
    IsFiniteSet(RunIds) /\ IsFiniteSet(On) /\ Cardinality(On) = LastRun
<1>1. IsFiniteSet(RunIds)
  BY BoundAssumption, FS_Interval DEF RunIds
<1>2. IsFiniteSet(On)
  BY <1>1, FS_Subset DEF On
<1> QED
  BY <1>1, <1>2 DEF On, LastRun

LEMMA LastStays ==
    ASSUME Numbered, \A r \in RunIds : runs'[r].phase = "off" <=> runs[r].phase = "off",
           LastRun = 0 => plan' = plan
    PROVE  LastRun' = LastRun /\ Numbered'
<1>1. {r \in RunIds : runs'[r].phase # "off"} = {r \in RunIds : runs[r].phase # "off"}
  OBVIOUS
<1>2. LastRun' = LastRun
  BY <1>1 DEF LastRun
<1> QED
  BY <1>2 DEF Numbered

LEMMA LastGrows ==
    ASSUME Numbered, NEW n \in RunIds, n = LastRun + 1,
           \A q \in RunIds \ {n} : runs'[q] = runs[q], runs'[n].phase = "folders"
    PROVE  LastRun' = n /\ Numbered'
<1>1. runs[n].phase = "off"
  BY DEF Numbered, RunIds
<1>2. On' = On \cup {n} /\ n \notin On
  BY <1>1 DEF On
<1>3. Cardinality(On') = LastRun + 1
  BY <1>2, OnFinite, FS_AddElement
<1>4. LastRun' = n
  BY <1>3 DEF LastRun, On
<1>5. \A r \in RunIds : (r > n <=> r > LastRun /\ r # n) /\ n # 0
  BY DEF Numbered, RunIds
<1> QED
  BY <1>4, <1>5 DEF Numbered, RunIds

\* A step of one run keeps the others' work.
LEMMA OneRun ==
    ASSUME RunsInv, NEW r \in RunIds, \A q \in RunIds \ {r} : runs'[q] = runs[q],
           runs'[r].phase = "off" <=> runs[r].phase = "off",
           LastRun = 0 => plan' = plan, Work(r)',
           LastRun' = LastRun => Single'
    PROVE  RunsInv' /\ LastRun' = LastRun
<1>1. \A q \in RunIds : runs'[q].phase = "off" <=> runs[q].phase = "off"
  OBVIOUS
<1>2. LastRun' = LastRun /\ Numbered'
  BY <1>1, LastStays DEF RunsInv
<1>3. \A q \in RunIds : Work(q)'
  <2>1. ASSUME NEW q \in RunIds \ {r} PROVE Work(q)'
    BY <2>1 DEF RunsInv, Work
  <2> QED
    BY <2>1
<1> QED
  BY <1>2, <1>3 DEF RunsInv

\* A step within a phase.
LEMMA SteadyRuns ==
    ASSUME RunsInv, NEW r \in RunIds, Steady(r), Work(r)',
           UNCHANGED <<plan, uploading, current>>
    PROVE  RunsInv' /\ LastRun' = LastRun
<1>1. \A q \in RunIds : runs'[q].phase = runs[q].phase
  BY DEF Steady, Only
<1>2. LastRun' = LastRun => Single'
  BY <1>1 DEF RunsInv, Single
<1> QED
  BY <1>1, <1>2, OneRun DEF Steady, Only

LEMMA TakeRuns ==
    ASSUME TypeOK, RunsInv, NEW r \in RunIds, NEW i \in Items, Take(r, i)
    PROVE  RunsInv' /\ LastRun' = LastRun /\ Steady(r)
<1>1. CASE Skip(r, i) \/ NoParent(r, i)
  <2>1. /\ Steady(r) /\ runs'[r].todo = runs[r].todo \ {i}
        /\ runs'[r].waiting = runs[r].waiting
    BY <1>1, SkipEffect
  <2>2. Work(r)'
    BY <2>1 DEF RunsInv, Work, Steady, Only
  <2> QED
    BY <2>1, <2>2, SteadyRuns DEF Take
<1>2. CASE Send(r, i)
  <2> DEFINE w == <<i, idOf[Parent[i]]>>
  <2>1. /\ Steady(r) /\ runs'[r].todo = runs[r].todo \ {i}
        /\ runs'[r].waiting = runs[r].waiting \cup {w}
    BY <1>2, SendEffect
  <2>2. w \notin runs[r].waiting /\ i \in runs[r].todo /\ w[1] = i
    BY DEF RunsInv, Work, Take
  <2>3. /\ IsFiniteSet(runs[r].waiting \cup {w})
        /\ Cardinality(runs[r].waiting \cup {w}) = Cardinality(runs[r].waiting) + 1
    BY <2>2, FS_AddElement DEF RunsInv, Work
  <2>4. Cardinality(runs[r].waiting) \in Nat /\ runs[r].workers \in Nat
    BY FS_CardinalityType, LimitAssumption DEF RunsInv, Work, TypeOK, Run
  <2> HIDE DEF w
  <2>5. Cardinality(runs'[r].waiting) <= runs'[r].workers /\ IsFiniteSet(runs'[r].waiting)
    BY <2>1, <2>3, <2>4 DEF Steady, Take
  <2>6. /\ runs'[r].phase = runs[r].phase /\ runs'[r].level = runs[r].level
        /\ runs'[r].aborted = runs[r].aborted
    BY <2>1 DEF Steady, Only
  <2>7. runs[r].phase \in {"folders", "files", "left"}
    BY DEF Take, Live
  <2>8. Work(r)'
    BY <2>1, <2>2, <2>5, <2>6, <2>7 DEF RunsInv, Work
  <2> QED
    BY <2>1, <2>8, SteadyRuns DEF Take
<1> QED
  BY <1>1, <1>2 DEF Take

\* One request less.
LEMMA FewerWaiting ==
    ASSUME TypeOK, RunsInv, NEW r \in RunIds, NEW w \in runs[r].waiting
    PROVE  /\ IsFiniteSet(runs[r].waiting \ {w})
           /\ Cardinality(runs[r].waiting \ {w}) = Cardinality(runs[r].waiting) - 1
           /\ Cardinality(runs[r].waiting) \in Nat \ {0} /\ runs[r].workers \in Nat \ {0}
<1>1. IsFiniteSet(runs[r].waiting) /\ Cardinality(runs[r].waiting) <= runs[r].workers
  BY DEF RunsInv, Work
<1>2. /\ IsFiniteSet(runs[r].waiting \ {w})
      /\ Cardinality(runs[r].waiting \ {w}) = Cardinality(runs[r].waiting) - 1
  BY <1>1, FS_RemoveElement
<1>3. Cardinality(runs[r].waiting) \in Nat /\ Cardinality(runs[r].waiting \ {w}) \in Nat
  BY <1>1, <1>2, FS_CardinalityType
<1>4. runs[r].workers \in 0 .. Limit
  BY DEF TypeOK, Run
<1> QED
  BY <1>1, <1>2, <1>3, <1>4, LimitAssumption

LEMMA EndsRuns ==
    ASSUME TypeOK, RunsInv, NEW r \in RunIds, NEW i \in Items, NEW id \in Ids,
           Acknowledged(r, i, id) \/ Cut(r, i, id) \/ (Failed(r, i, id) /\ i \in Files)
    PROVE  RunsInv' /\ LastRun' = LastRun /\ Steady(r)
<1>1. /\ Steady(r) /\ runs'[r].todo = runs[r].todo
      /\ runs'[r].waiting = runs[r].waiting \ {<<i, id>>}
  BY EndsEffect
<1>2. <<i, id>> \in runs[r].waiting
  BY DEF Acknowledged, Cut, Failed
<1>3. /\ IsFiniteSet(runs[r].waiting \ {<<i, id>>})
      /\ Cardinality(runs[r].waiting \ {<<i, id>>}) = Cardinality(runs[r].waiting) - 1
      /\ Cardinality(runs[r].waiting) \in Nat \ {0} /\ runs[r].workers \in Nat \ {0}
  BY <1>2, FewerWaiting
<1>4. IsFiniteSet(runs'[r].waiting) /\ Cardinality(runs'[r].waiting) <= runs'[r].workers
  BY <1>1, <1>3 DEF RunsInv, Work, Steady
<1>5. Work(r)'
  BY <1>1, <1>4 DEF RunsInv, Work, Steady, Only
<1>6. UNCHANGED <<plan, uploading, current>>
  <2>1. CASE i \in Files
    BY <2>1, PlanAssumption DEF Acknowledged, Cut, Failed, TypeOK
  <2>2. CASE i \notin Files
    BY <2>2 DEF Acknowledged, Cut
  <2> QED
    BY <2>1, <2>2
<1> QED
  BY <1>1, <1>5, <1>6, SteadyRuns

LEMMA ThrowRuns ==
    ASSUME TypeOK, RunsInv, NEW r \in RunIds, NEW i \in Folders, NEW id \in Ids, Failed(r, i, id)
    PROVE  RunsInv' /\ LastRun' = LastRun
<1>1. <<i, id>> \in runs[r].waiting /\ Live(r) /\ ~runs[r].aborted
  BY DEF Failed
<1>2. /\ IsFiniteSet(runs[r].waiting \ {<<i, id>>})
      /\ Cardinality(runs[r].waiting \ {<<i, id>>}) = Cardinality(runs[r].waiting) - 1
      /\ Cardinality(runs[r].waiting) \in Nat \ {0} /\ runs[r].workers \in Nat \ {0}
  BY <1>1, FewerWaiting
<1>3. /\ Only(r) /\ runs'[r].phase = "left" /\ runs'[r].level = runs[r].level
      /\ runs'[r].todo = runs[r].todo
      /\ runs'[r].waiting = runs[r].waiting \ {<<i, id>>}
      /\ runs'[r].workers = runs[r].workers - 1
  BY <1>2, ThrowEffect
<1>4. runs[r].phase \in {"folders", "left"}
  BY <1>1, PlanAssumption DEF RunsInv, Work, Live
<1>5. IsFiniteSet(runs'[r].waiting) /\ Cardinality(runs'[r].waiting) <= runs'[r].workers
  <2>1. Cardinality(runs[r].waiting) <= runs[r].workers
    BY DEF RunsInv, Work
  <2> QED
    BY <1>2, <1>3, <2>1
<1>6. Work(r)'
  BY <1>1, <1>3, <1>4, <1>5 DEF RunsInv, Work, Only
<1>7. /\ uploading' = (uploading /\ runs[r].phase # "folders")
      /\ current' = IF runs[r].phase = "folders" THEN 0 ELSE current
  BY DEF Failed
<1>8. LastRun' = LastRun => Single'
  <2>1. CASE runs[r].phase = "folders"
    <3>1. r = current /\ \A q \in RunIds : runs'[q].phase \notin {"folders", "files"}
      BY <1>3, <2>1 DEF RunsInv, Single, Only
    <3>2. uploading' = FALSE /\ current' = 0
      BY <1>7, <2>1
    <3> QED
      BY <3>1, <3>2 DEF Single, RunIds
  <2>2. CASE runs[r].phase = "left"
    BY <1>3, <1>7, <2>2 DEF RunsInv, Single, Only
  <2> QED
    BY <1>4, <2>1, <2>2
<1>9. plan' = plan
  BY DEF Failed
<1> QED
  BY <1>3, <1>4, <1>6, <1>8, <1>9, OneRun DEF Only

LEMMA TurnRuns ==
    ASSUME TypeOK, RunsInv, NEW r \in RunIds, NextLevel(r) \/ StartFiles(r)
    PROVE  RunsInv' /\ LastRun' = LastRun /\ r = current
<1>1. runs[r].phase = "folders"
  BY DEF NextLevel, StartFiles, LastLevel
<1>2. runs[r].workers \in Nat /\ IsFiniteSet({}) /\ Cardinality({}) = 0
  BY LimitAssumption, FS_EmptySet DEF TypeOK, Run
<1>3. Only(r) /\ Work(r)' /\ runs'[r].phase \in {"folders", "files"}
  <2>1. CASE NextLevel(r)
    <3>1. /\ Only(r) /\ runs'[r].phase = "folders"
          /\ runs'[r].level = runs[r].level + 1
          /\ runs'[r].todo = Queued(Level(runs[r].level + 1))
          /\ runs'[r].waiting = {} /\ runs'[r].workers = runs[r].workers
      BY <2>1, NextLevelEffect
    <3>2. runs'[r].todo \subseteq Level(runs'[r].level)
      BY <3>1 DEF Queued
    <3> QED
      BY <1>2, <3>1, <3>2 DEF Work
  <2>2. CASE StartFiles(r)
    <3>1. /\ Only(r) /\ runs'[r].phase = "files" /\ runs'[r].todo = Queued(Files)
          /\ runs'[r].waiting = {} /\ runs'[r].workers = runs[r].workers
      BY <2>2, StartFilesEffect
    <3>2. runs'[r].todo \subseteq Files
      BY <3>1 DEF Queued
    <3> QED
      BY <1>2, <3>1, <3>2 DEF Work
  <2> QED
    BY <2>1, <2>2
<1>4. UNCHANGED <<plan, uploading, current>>
  BY DEF NextLevel, StartFiles, hook
<1>5. LastRun' = LastRun => Single'
  BY <1>1, <1>3, <1>4 DEF RunsInv, Single, Only
<1>6. r = current
  BY <1>1 DEF RunsInv, Single
<1> QED
  BY <1>1, <1>3, <1>4, <1>5, <1>6, OneRun DEF Only

LEMMA StopRuns ==
    ASSUME TypeOK, RunsInv, NEW r \in RunIds, EndEarly(r) \/ EndFiles(r)
    PROVE  RunsInv' /\ LastRun' = LastRun /\ r = current
<1>1. runs[r].phase \in {"folders", "files"}
  BY DEF EndEarly, EndFiles, LastLevel
<1>2. r = current /\ current = LastRun /\ LastRun # 0
  BY <1>1 DEF RunsInv, Single, RunIds
<1>3. runs[r].workers \in Nat /\ IsFiniteSet({}) /\ Cardinality({}) = 0
  BY LimitAssumption, FS_EmptySet DEF TypeOK, Run
<1>4. /\ Only(r) /\ runs'[r].phase \in {"early", "done"}
      /\ runs'[r].todo = {} /\ runs'[r].waiting = {} /\ runs'[r].workers = runs[r].workers
  BY StopEffect
<1>5. Work(r)'
  BY <1>3, <1>4 DEF Work
<1>6. uploading' = FALSE /\ current' = 0
  BY DEF EndEarly, EndFiles, Release
<1>7. LastRun' = LastRun => Single'
  BY <1>2, <1>4, <1>6 DEF RunsInv, Single, Only, RunIds
<1> QED
  BY <1>1, <1>2, <1>4, <1>5, <1>7, OneRun DEF Only

LEMMA CancelRuns ==
    ASSUME TypeOK, RunsInv, cancel
    PROVE  /\ RunsInv' /\ LastRun' = LastRun /\ current = LastRun /\ LastRun \in RunIds
           /\ runs' \in [RunIds -> Run]
           /\ \A q \in RunIds \ {LastRun} : runs'[q] = runs[q]
           /\ runs'[LastRun] = [phase |-> runs[LastRun].phase, level |-> runs[LastRun].level,
                             todo |-> runs[LastRun].todo, waiting |-> runs[LastRun].waiting,
                             workers |-> runs[LastRun].workers, aborted |-> TRUE,
                             dest |-> runs[LastRun].dest, first |-> runs[LastRun].first]
<1>1. PICK r \in RunIds : r = current
  BY DEF cancel, RunsInv, Single, TypeOK, RunIds
<1>2. r = LastRun
  BY <1>1 DEF RunsInv, Single, RunIds
<1>3. runs[r].phase \in {"folders", "files"}
  BY <1>1 DEF RunsInv, Single
<1>4. /\ runs' \in [RunIds -> Run]
      /\ \A q \in RunIds \ {r} : runs'[q] = runs[q]
      /\ runs'[r] = [phase |-> runs[r].phase, level |-> runs[r].level,
                     todo |-> runs[r].todo, waiting |-> runs[r].waiting,
                     workers |-> runs[r].workers, aborted |-> TRUE,
                     dest |-> runs[r].dest, first |-> runs[r].first]
  BY <1>1, CancelEffect
<1>5. Work(r)'
  BY <1>3, <1>4 DEF RunsInv, Work
<1>6. UNCHANGED <<plan, uploading, current>>
  BY DEF cancel
<1>7. LastRun' = LastRun => Single'
  BY <1>1, <1>4, <1>6 DEF RunsInv, Single
<1>8. RunsInv' /\ LastRun' = LastRun
  BY <1>4, <1>5, <1>6, <1>7, OneRun
<1> QED
  BY <1>1, <1>2, <1>4, <1>8

LEMMA ExecuteRuns ==
    ASSUME TypeOK, RunsInv, ~uploading, NEW dest \in Dests \cup {None},
           NEW first \in 0 .. MaxRuns, execute(plan', dest, first)
    PROVE  /\ RunsInv' /\ LastRun' = LastRun + 1 /\ LastRun' \in RunIds
           /\ runs' \in [RunIds -> Run]
           /\ \A q \in RunIds \ {LastRun'} : runs'[q] = runs[q]
           /\ runs'[LastRun'] = Begun(plan', dest, first)
<1>1. PICK n \in RunIds : n = LastRun + 1
  BY BoundAssumption DEF execute, RunsInv, Numbered, RunIds
<1>2. /\ runs' \in [RunIds -> Run]
      /\ \A q \in RunIds \ {n} : runs'[q] = runs[q]
      /\ runs'[n] = Begun(plan', dest, first)
  BY <1>1, ExecuteEffect
<1>3. PICK R : R = Begun(plan', dest, first)
  OBVIOUS
<1>4. /\ R.phase = "folders" /\ R.level = 1 /\ R.todo \subseteq Level(1) /\ R.waiting = {}
      /\ R.workers = Limit
  BY <1>3 DEF Begun
<1>5. runs'[n] = R
  BY <1>2, <1>3
<1>6. LastRun' = n /\ Numbered'
  BY <1>1, <1>2, <1>4, <1>5, LastGrows DEF RunsInv
<1>7. \A q \in RunIds : Work(q)'
  <2>1. ASSUME NEW q \in RunIds \ {n} PROVE Work(q)'
    BY <1>2, <2>1 DEF RunsInv, Work
  <2>2. IsFiniteSet({}) /\ Cardinality({}) = 0
    BY FS_EmptySet
  <2>3. Work(n)'
    BY <1>4, <1>5, <2>2, LimitAssumption DEF Work
  <2> QED
    BY <2>1, <2>3
<1>8. Single'
  <2>1. \A q \in RunIds \ {n} : runs'[q].phase \notin {"folders", "files"}
    BY <1>2 DEF RunsInv, Single, RunIds
  <2>2. uploading' = TRUE /\ current' = n /\ n # 0
    BY <1>1 DEF execute, RunIds
  <2> QED
    BY <1>4, <1>5, <1>6, <2>1, <2>2 DEF Single
<1> QED
  BY <1>1, <1>2, <1>6, <1>7, <1>8 DEF RunsInv

LEMMA IdleRuns ==
    ASSUME RunsInv, UNCHANGED <<uploading, current, runs>>,
           LastRun = 0 => \A i \in Items : plan'[i] = "gone"
    PROVE  RunsInv' /\ LastRun' = LastRun
<1>1. LastRun' = LastRun
  BY DEF LastRun
<1> QED
  BY <1>1 DEF RunsInv, Numbered, Single, Work

LEMMA ItemsFinite ==
    /\ \A S \in SUBSET Items : IsFiniteSet(S) /\ Cardinality(S) \in Nat
    /\ IsFiniteSet(Files) /\ Cardinality(Files) \in Nat
<1>1. \A S \in SUBSET Items : IsFiniteSet(S) /\ Cardinality(S) \in Nat
  BY PlanAssumption, FS_Subset, FS_CardinalityType
<1> QED
  BY <1>1 DEF Items

LEMMA RetryRuns ==
    ASSUME TypeOK, RunsInv, retryFailed
    PROVE  /\ RunsInv' /\ LastRun' = LastRun + 1 /\ LastRun' \in RunIds /\ LastRun \in RunIds
           /\ runs' \in [RunIds -> Run]
           /\ \A q \in RunIds \ {LastRun'} : runs'[q] = runs[q]
           /\ runs'[LastRun'] = Begun(plan', runs[LastRun].dest, runs[LastRun].first)
<1>1. LastRun # 0
  BY DEF retryFailed, isRetryable, RunsInv, Numbered
<1>2. LastRun \in RunIds
  BY <1>1, BoundAssumption DEF RunsInv, Numbered, RunIds
<1>3. PICK dest \in Dests \cup {None}, first \in 0 .. MaxRuns :
         dest = runs[LastRun].dest /\ first = runs[LastRun].first
  BY <1>2 DEF TypeOK, Run
<1>4. execute(plan', dest, first) /\ ~uploading
  BY <1>3 DEF retryFailed
<1>5. /\ RunsInv' /\ LastRun' = LastRun + 1 /\ LastRun' \in RunIds
      /\ runs' \in [RunIds -> Run]
      /\ \A q \in RunIds \ {LastRun'} : runs'[q] = runs[q]
      /\ runs'[LastRun'] = Begun(plan', dest, first)
  BY <1>4, ExecuteRuns
<1> QED
  BY <1>2, <1>3, <1>5

LEMMA StartRuns ==
    ASSUME TypeOK, RunsInv, NEW d \in Dests, start(d)
    PROVE  /\ RunsInv' /\ LastRun' = LastRun + 1 /\ LastRun' \in RunIds
           /\ runs' \in [RunIds -> Run]
           /\ \A q \in RunIds \ {LastRun'} : runs'[q] = runs[q]
           /\ runs'[LastRun'] = Begun(plan', d, LastRun')
<1>1. PICK first \in 0 .. MaxRuns : first = LastRun + 1
  BY BoundAssumption DEF start, execute, RunsInv, Numbered
<1>2. execute(plan', d, first) /\ ~uploading
  BY <1>1 DEF start
<1>3. /\ RunsInv' /\ LastRun' = LastRun + 1 /\ LastRun' \in RunIds
      /\ runs' \in [RunIds -> Run]
      /\ \A q \in RunIds \ {LastRun'} : runs'[q] = runs[q]
      /\ runs'[LastRun'] = Begun(plan', d, first)
  BY <1>2, ExecuteRuns
<1> QED
  BY <1>1, <1>3

LEMMA RunsStep ==
    ASSUME TypeOK, RunsInv, [Next]_vars
    PROVE  RunsInv' /\ runs' \in [RunIds -> Run]
<1>1. ASSUME NEW r \in RunIds, NEW i \in Items, Take(r, i)
      PROVE  RunsInv' /\ runs' \in [RunIds -> Run]
  BY <1>1, TakeRuns DEF Steady, Only
<1>2. ASSUME NEW r \in RunIds, NEW i \in Items, NEW id \in Ids, Cut(r, i, id)
      PROVE  RunsInv' /\ runs' \in [RunIds -> Run]
  BY <1>2, EndsRuns DEF Steady, Only
<1>3. ASSUME NEW r \in RunIds, NEW i \in Items, NEW id \in Ids, Acknowledged(r, i, id)
      PROVE  RunsInv' /\ runs' \in [RunIds -> Run]
  BY <1>3, EndsRuns DEF Steady, Only
<1>4. ASSUME NEW r \in RunIds, NEW i \in Items, NEW id \in Ids, Failed(r, i, id)
      PROVE  RunsInv' /\ runs' \in [RunIds -> Run]
  <2>1. CASE i \in Files
    BY <1>4, <2>1, EndsRuns DEF Steady, Only
  <2>2. CASE i \in Folders
    <3>1. runs[r].workers > 0
      <4>1. PICK w \in runs[r].waiting : w = <<i, id>>
        BY <1>4 DEF Failed
      <4>2. runs[r].workers \in Nat \ {0}
        BY FewerWaiting
      <4> QED
        BY <4>2
    <3>2. runs' \in [RunIds -> Run]
      BY <1>4, <2>2, <3>1, ThrowEffect DEF Only
    <3> QED
      BY <1>4, <2>2, <3>2, ThrowRuns
  <2> QED
    BY <2>1, <2>2 DEF Items
<1>5. ASSUME NEW r \in RunIds, NextLevel(r) PROVE RunsInv' /\ runs' \in [RunIds -> Run]
  BY <1>5, TurnRuns, NextLevelEffect DEF Only
<1>6. ASSUME NEW r \in RunIds, StartFiles(r) PROVE RunsInv' /\ runs' \in [RunIds -> Run]
  BY <1>6, TurnRuns, StartFilesEffect DEF Only
<1>7. ASSUME NEW r \in RunIds, EndEarly(r) \/ EndFiles(r)
      PROVE  RunsInv' /\ runs' \in [RunIds -> Run]
  BY <1>7, StopRuns, StopEffect DEF Only
<1>8. ASSUME NEW d \in Dests, start(d) PROVE RunsInv' /\ runs' \in [RunIds -> Run]
  BY <1>8, StartRuns
<1>9. CASE retryFailed
  BY <1>9, RetryRuns
<1>10. CASE cancel
  BY <1>10, CancelRuns
<1>11. CASE clear
  <2>1. UNCHANGED <<uploading, current, runs>> /\ \A i \in Items : plan'[i] = "gone"
    BY <1>11 DEF clear
  <2> QED
    BY <2>1, IdleRuns DEF TypeOK
<1>12. CASE UNCHANGED vars
  <2>1. UNCHANGED <<uploading, current, runs, plan>>
    BY <1>12 DEF vars, hook
  <2>2. LastRun = 0 => \A i \in Items : plan'[i] = "gone"
    BY <2>1 DEF RunsInv, Numbered
  <2> QED
    BY <2>1, <2>2, IdleRuns DEF TypeOK
<1> QED
  BY <1>1, <1>2, <1>3, <1>4, <1>5, <1>6, <1>7, <1>8, <1>9, <1>10, <1>11, <1>12
  DEF Next, Micro, Answer, User
-----------------------------------------------------------------------------
LEMMA MakeTypes ==
    ASSUME TypeOK, NEW r \in RunIds, NEW i \in Items, NEW id \in Ids, Make(r, i, id)
    PROVE  made' \subseteq Ids /\ stored' \subseteq [parent : Ids, file : Files, run : RunIds]
<1>1. i \in Folders => <<id[1], i>> \in Ids
  BY DEF Ids
<1>2. i \in Files => [parent |-> id, file |-> i, run |-> r]
                     \in [parent : Ids, file : Files, run : RunIds]
  OBVIOUS
<1> QED
  BY <1>1, <1>2 DEF Make, TypeOK

\* The counters, and what the hook knows besides the runs.
LEMMA HookTypes ==
    ASSUME TypeOK, RunsInv, [Next]_vars
    PROVE  /\ plan' \in [Items -> Statuses \cup {"gone"}]
           /\ updates' \in [Items -> Statuses \cup {None}]
           /\ idOf' \in [Folders \cup {Top} -> Ids \cup {None}]
           /\ total' \in 0 .. Cardinality(Items)
           /\ completed' \in Nat /\ failed' \in Nat
           /\ cancelledCount' \in Int /\ active' \in Int
           /\ uploading' \in BOOLEAN /\ cancelled' \in BOOLEAN
           /\ current' \in 0 .. MaxRuns
           /\ made' \subseteq Ids
           /\ stored' \subseteq [parent : Ids, file : Files, run : RunIds]
           /\ unsure' \subseteq Items
<1> DEFINE Goal == /\ plan' \in [Items -> Statuses \cup {"gone"}]
                   /\ updates' \in [Items -> Statuses \cup {None}]
                   /\ idOf' \in [Folders \cup {Top} -> Ids \cup {None}]
                   /\ total' \in 0 .. Cardinality(Items)
                   /\ completed' \in Nat /\ failed' \in Nat
                   /\ cancelledCount' \in Int /\ active' \in Int
                   /\ uploading' \in BOOLEAN /\ cancelled' \in BOOLEAN
                   /\ current' \in 0 .. MaxRuns
                   /\ made' \subseteq Ids
                   /\ stored' \subseteq [parent : Ids, file : Files, run : RunIds]
                   /\ unsure' \subseteq Items
<1>0. {"queued", "uploading", "completed", "failed", "cancelled"} \subseteq Statuses
  BY DEF Statuses
<1>1. ASSUME NEW r \in RunIds, NEW i \in Items, Take(r, i) PROVE Goal
  BY <1>0, <1>1 DEF Take, Skip, NoParent, Send, server, TypeOK
<1>2. ASSUME NEW r \in RunIds, NEW i \in Items, NEW id \in Ids, Cut(r, i, id) PROVE Goal
  <2>1. /\ made' \subseteq Ids
        /\ stored' \subseteq [parent : Ids, file : Files, run : RunIds] /\ unsure' \subseteq Items
    BY <1>2, MakeTypes DEF Cut, server, TypeOK
  <2> QED
    BY <1>0, <1>2, <2>1 DEF Cut, Ended, TypeOK
<1>3. ASSUME NEW r \in RunIds, NEW i \in Items, NEW id \in Ids, Acknowledged(r, i, id)
      PROVE  Goal
  <2>1. made' \subseteq Ids /\ stored' \subseteq [parent : Ids, file : Files, run : RunIds]
    BY <1>3, MakeTypes DEF Acknowledged
  <2>2. idOf' \in [Folders \cup {Top} -> Ids \cup {None}]
    <3>1. i \in Folders => <<id[1], i>> \in Ids
      BY DEF Ids
    <3> QED
      BY <1>3, <3>1 DEF Acknowledged, TypeOK
  <2> QED
    BY <1>0, <1>3, <2>1, <2>2 DEF Acknowledged, Ended, TypeOK
<1>4. ASSUME NEW r \in RunIds, NEW i \in Items, NEW id \in Ids, Failed(r, i, id) PROVE Goal
  <2>1. /\ made' \subseteq Ids
        /\ stored' \subseteq [parent : Ids, file : Files, run : RunIds] /\ unsure' \subseteq Items
    BY <1>4, MakeTypes DEF Failed, server, TypeOK
  <2>2. uploading' \in BOOLEAN /\ current' \in 0 .. MaxRuns
    BY <1>4, BoundAssumption DEF Failed, TypeOK
  <2> QED
    BY <1>0, <1>4, <2>1, <2>2 DEF Failed, Ended, TypeOK
<1>5. ASSUME NEW r \in RunIds, NextLevel(r) \/ StartFiles(r) PROVE Goal
  BY <1>5 DEF NextLevel, StartFiles, hook, counters, server, TypeOK
<1>6. ASSUME NEW r \in RunIds, EndEarly(r) PROVE Goal
  <2>1. Cardinality({f \in Files : plan[f] # "gone"}) \in Int
    BY ItemsFinite DEF Items
  <2> QED
    <3>1. uploading' \in BOOLEAN
      BY <1>6, Zenon DEF EndEarly, Release
    <3> QED
      BY <1>6, <2>1, <3>1, BoundAssumption DEF EndEarly, Release, server, TypeOK
<1>7. ASSUME NEW r \in RunIds, EndFiles(r) PROVE Goal
  <2>1. plan' \in [Items -> Statuses \cup {"gone"}]
    BY <1>7 DEF EndFiles, flushUpdates, TypeOK
  <2>2. updates' \in [Items -> Statuses \cup {None}]
    BY <1>7 DEF EndFiles, flushUpdates
  <2> QED
    <3>1. uploading' \in BOOLEAN
      BY <1>7, Zenon DEF EndFiles, Release
    <3> QED
      BY <1>7, <2>1, <2>2, <3>1, BoundAssumption
      DEF EndFiles, Release, counters, server, TypeOK
<1>8. ASSUME NEW d \in Dests, start(d) PROVE Goal
  <2>1. Cardinality(Items) \in 0 .. Cardinality(Items)
    BY PlanAssumption, FS_CardinalityType
  <2>2. /\ idOf' \in [Folders \cup {Top} -> Ids \cup {None}]
        /\ plan' \in [Items -> Statuses \cup {"gone"}]
    BY <1>0, <1>8 DEF start, Ids
  <2>3. uploading' \in BOOLEAN /\ cancelled' \in BOOLEAN /\ current' \in 0 .. MaxRuns
    <3>1. uploading' \in BOOLEAN /\ cancelled' \in BOOLEAN
      BY <1>8, Zenon DEF start, execute
    <3> QED
      BY <1>8, <3>1, BoundAssumption DEF start, execute, RunsInv, Numbered
  <2> QED
    BY <1>8, <2>1, <2>2, <2>3 DEF start, TypeOK
<1>9. ASSUME retryFailed PROVE Goal
  <2>1. Cardinality({f \in Files : isRetryable(plan[f])}) \in Int
    BY ItemsFinite DEF Items
  <2>2. plan' \in [Items -> Statuses \cup {"gone"}]
    BY <1>0, <1>9 DEF retryFailed, TypeOK
  <2>3. uploading' \in BOOLEAN /\ cancelled' \in BOOLEAN /\ current' \in 0 .. MaxRuns
    <3>1. uploading' \in BOOLEAN /\ cancelled' \in BOOLEAN
      BY <1>9, Zenon DEF retryFailed, execute
    <3> QED
      BY <1>9, <3>1, BoundAssumption DEF retryFailed, execute, RunsInv, Numbered
  <2> QED
    BY <1>9, <2>1, <2>2, <2>3 DEF retryFailed, server, TypeOK
<1>10. ASSUME cancel PROVE Goal
  BY <1>10 DEF cancel, counters, server, TypeOK
<1>11. ASSUME clear PROVE Goal
  <2>1. 0 \in 0 .. Cardinality(Items)
    BY PlanAssumption, FS_CardinalityType
  <2> QED
    <3>1. cancelled' \in BOOLEAN
      BY <1>11, Zenon DEF clear
    <3> QED
      BY <1>11, <2>1, <3>1 DEF clear, server, TypeOK
<1>12. ASSUME UNCHANGED vars PROVE Goal
  BY <1>12 DEF vars, hook, counters, server, TypeOK
<1> HIDE DEF Goal
<1>13. Goal
  <2>1. CASE UNCHANGED vars
    BY <1>12, <2>1
  <2>2. CASE Answer
    BY <1>3, <1>4, <2>2 DEF Answer
  <2>3. CASE User
    BY <1>8, <1>9, <1>10, <1>11, <2>3 DEF User
  <2>4. CASE Micro
    BY <1>1, <1>2, <1>5, <1>6, <1>7, <2>4 DEF Micro
  <2> QED
    BY <2>1, <2>2, <2>3, <2>4 DEF Next
<1> QED
  BY <1>13 DEF Goal

TypeInv == TypeOK /\ RunsInv

LEMMA TypeInit == Init => TypeInv
<1> SUFFICES ASSUME Init PROVE TypeInv
  OBVIOUS
<1>1. NoRun \in Run
  BY BoundAssumption, LimitAssumption DEF NoRun, Run, Phases
<1>2. Cardinality(Items) \in Nat
  BY ItemsFinite
<1>3. TypeOK
  <2>1. uploading \in BOOLEAN /\ cancelled \in BOOLEAN
    BY Zenon DEF Init
  <2> QED
    BY <1>1, <1>2, <2>1, BoundAssumption DEF Init, TypeOK
<1>4. \A r \in RunIds : runs[r] = NoRun /\ r # 0
  BY DEF Init, RunIds
<1>5. {r \in RunIds : runs[r].phase # "off"} = {}
  BY <1>4 DEF NoRun
<1>6. LastRun = 0
  BY <1>5, FS_EmptySet DEF LastRun
<1>7. Numbered
  BY <1>4, <1>6, BoundAssumption DEF Numbered, NoRun, Init, RunIds
<1>8. Single
  BY <1>4 DEF Single, NoRun, Init
<1>9. \A r \in RunIds : Work(r)
  BY <1>4, FS_EmptySet DEF Work, NoRun
<1> QED
  BY <1>3, <1>7, <1>8, <1>9 DEF TypeInv, RunsInv

LEMMA TypeStep == TypeInv /\ [Next]_vars => TypeInv'
  BY RunsStep, HookTypes DEF TypeInv, TypeOK

\* Every state is of the declared types: a run creates only levels the directory has,
\* sends only items of the plan to folders with an id, and throws no more often than it
\* has workers.
THEOREM TypeCorrect == Spec => []TypeOK
<1>1. TypeInv => TypeOK
  BY DEF TypeInv
<1> QED
  BY <1>1, TypeInit, TypeStep, PTL DEF Spec
-----------------------------------------------------------------------------
(***************************************************************************)
(* Requests, folder ids and stored files.                                  *)
(***************************************************************************)
\* A request is for its item's folder, by an id the server has given; so are the
\* stored files, and folderIdByPath has such ids only.
Sent ==
    /\ \A r \in RunIds : \A w \in runs[r].waiting :
          w[2][2] = Parent[w[1]] /\ (w[2][2] = Top \/ w[2] \in made)
    /\ \A p \in Folders \cup {Top} : idOf[p] # None =>
          idOf[p][2] = p /\ (p = Top \/ idOf[p] \in made)
    /\ \A u \in stored :
          u.parent[2] = Parent[u.file] /\ u.parent \in made /\ runs[u.run].phase # "off"

\* What a step may do to them: a request is sent to the id of its folder, an id comes
\* from a start or with a folder just made, and a file is stored by its request.
NewRequests ==
    \A r \in RunIds : \A w \in runs'[r].waiting \ runs[r].waiting :
        /\ w[1] \in runs[r].todo /\ ~runs[r].aborted /\ Live(r)
        /\ idOf[Parent[w[1]]] # None /\ w[2] = idOf[Parent[w[1]]]
NewIds ==
    \A p \in Folders \cup {Top} :
        \/ idOf'[p] \in {idOf[p], None}
        \/ p = Top /\ idOf'[p][2] = Top
        \/ /\ p \in Folders /\ idOf'[p] \in made' \ made
           /\ \E r \in RunIds : \E w \in runs[r].waiting : idOf'[p] = <<w[2][1], p>>
NewFiles ==
    \A u \in stored' \ stored :
        u.run \in RunIds /\ Live(u.run) /\ <<u.file, u.parent>> \in runs[u.run].waiting
RunsStayOn == \A r \in RunIds : runs'[r].phase = "off" => runs[r].phase = "off"

Traffic == NewRequests /\ NewIds /\ NewFiles /\ RunsStayOn /\ made \subseteq made'

LEMMA MakeTraffic ==
    ASSUME TypeInv, NEW r \in RunIds, NEW i \in Items, NEW id \in Ids, Make(r, i, id),
           Live(r), <<i, id>> \in runs[r].waiting
    PROVE  NewFiles /\ made \subseteq made'
  BY DEF Make, NewFiles

\* No new request, no new run.
LEMMA FewerTraffic ==
    ASSUME NEW r \in RunIds, Only(r), runs'[r].waiting \subseteq runs[r].waiting,
           runs'[r].phase = "off" => runs[r].phase = "off"
    PROVE  NewRequests /\ RunsStayOn
  BY DEF Only, NewRequests, RunsStayOn

LEMMA SameIds ==
    ASSUME idOf' = idOf PROVE NewIds
  BY DEF NewIds

LEMMA SameServer ==
    ASSUME UNCHANGED <<made, stored>> PROVE NewFiles /\ made \subseteq made'
  BY DEF NewFiles

LEMMA TrafficStep ==
    ASSUME TypeInv, [Next]_vars
    PROVE  Traffic
<1>0. TypeOK /\ RunsInv
  BY DEF TypeInv
<1>1. ASSUME NEW r \in RunIds, NEW i \in Items, Take(r, i) PROVE Traffic
  <2>1. idOf' = idOf /\ UNCHANGED <<made, stored>>
    BY <1>1 DEF Take, server
  <2>2. CASE Skip(r, i) \/ NoParent(r, i)
    <3>1. Steady(r) /\ runs'[r].waiting = runs[r].waiting
      BY <1>0, <2>2, SkipEffect
    <3>2. NewRequests /\ RunsStayOn
      BY <3>1, FewerTraffic DEF Steady
    <3> QED
      BY <2>1, <3>2, SameIds, SameServer DEF Traffic
  <2>3. CASE Send(r, i)
    <3>1. /\ Steady(r) /\ idOf[Parent[i]] \in Ids
          /\ runs'[r].waiting = runs[r].waiting \cup {<<i, idOf[Parent[i]]>>}
      BY <1>0, <2>3, SendEffect
    <3>2. ~runs[r].aborted /\ Live(r) /\ i \in runs[r].todo /\ idOf[Parent[i]] # None
      BY <1>1, <2>3 DEF Take, Send
    <3>3. NewRequests /\ RunsStayOn
      BY <3>1, <3>2 DEF NewRequests, RunsStayOn, Steady, Only
    <3> QED
      BY <2>1, <3>3, SameIds, SameServer DEF Traffic
  <2> QED
    BY <1>1, <2>2, <2>3 DEF Take
<1>2. ASSUME NEW r \in RunIds, NEW i \in Items, NEW id \in Ids, Cut(r, i, id) PROVE Traffic
  <2>1. Steady(r) /\ runs'[r].waiting \subseteq runs[r].waiting
    BY <1>0, <1>2, EndsEffect
  <2>2. NewFiles /\ made \subseteq made'
    BY <1>2, MakeTraffic, SameServer DEF Cut, server
  <2> QED
    BY <1>2, <2>1, <2>2, FewerTraffic, SameIds DEF Traffic, Steady, Cut
<1>3. ASSUME NEW r \in RunIds, NEW i \in Items, NEW id \in Ids, Acknowledged(r, i, id)
      PROVE  Traffic
  <2>1. Steady(r) /\ runs'[r].waiting \subseteq runs[r].waiting
    BY <1>0, <1>3, EndsEffect
  <2>2. NewFiles /\ made \subseteq made'
    BY <1>3, MakeTraffic DEF Acknowledged
  <2>3. NewIds
    <3>1. CASE i \in Folders
      <4>1. made' = made \cup {<<id[1], i>>} /\ <<id[1], i>> \notin made
            /\ idOf' = [idOf EXCEPT ![i] = <<id[1], i>>]
        BY <1>3, <3>1 DEF Acknowledged, Make, Taken
      <4>2. PICK w \in runs[r].waiting : w = <<i, id>>
        BY <1>3 DEF Acknowledged
      <4>3. idOf'[i] = <<w[2][1], i>>
        BY <1>0, <3>1, <4>1, <4>2 DEF TypeOK
      <4>4. \A p \in (Folders \cup {Top}) \ {i} : idOf'[p] = idOf[p]
        BY <1>0, <4>1 DEF TypeOK
      <4>5. idOf'[i] \in made' \ made
        BY <4>1, <4>2, <4>3
      <4> QED
        BY <3>1, <4>3, <4>4, <4>5 DEF NewIds
    <3>2. CASE i \notin Folders
      BY <1>3, <3>2, SameIds DEF Acknowledged
    <3> QED
      BY <3>1, <3>2
  <2> QED
    BY <2>1, <2>2, <2>3, FewerTraffic DEF Traffic, Steady
<1>4. ASSUME NEW r \in RunIds, NEW i \in Items, NEW id \in Ids, Failed(r, i, id)
      PROVE  Traffic
  <2>1. Only(r) /\ runs'[r].waiting \subseteq runs[r].waiting
        /\ (runs'[r].phase = "off" => runs[r].phase = "off")
    <3>1. CASE i \in Files
      BY <1>0, <1>4, <3>1, EndsEffect DEF Steady
    <3>2. CASE i \in Folders
      <4>1. PICK w \in runs[r].waiting : w = <<i, id>>
        BY <1>4 DEF Failed
      <4>2. runs[r].workers > 0
        <5>1. runs[r].workers \in Nat \ {0}
          BY <1>0, FewerWaiting
        <5> QED
          BY <5>1
      <4>3. /\ Only(r) /\ runs'[r].phase = "left"
            /\ runs'[r].waiting = runs[r].waiting \ {<<i, id>>}
        BY <1>0, <1>4, <3>2, <4>2, ThrowEffect
      <4> QED
        BY <4>3
    <3> QED
      BY <3>1, <3>2 DEF Items
  <2>2. NewFiles /\ made \subseteq made'
    BY <1>4, MakeTraffic, SameServer DEF Failed, server
  <2> QED
    BY <1>4, <2>1, <2>2, FewerTraffic, SameIds DEF Traffic, Failed
<1>5. ASSUME NEW r \in RunIds, NextLevel(r) \/ StartFiles(r) PROVE Traffic
  <2>1. Only(r) /\ runs'[r].waiting = {} /\ runs'[r].phase # "off"
    <3>1. CASE NextLevel(r)
      BY <1>0, <3>1, NextLevelEffect
    <3>2. CASE StartFiles(r)
      BY <1>0, <3>2, StartFilesEffect
    <3> QED
      BY <1>5, <3>1, <3>2
  <2>2. idOf' = idOf /\ UNCHANGED <<made, stored>>
    BY <1>5 DEF NextLevel, StartFiles, hook, server
  <2> QED
    BY <2>1, <2>2, FewerTraffic, SameIds, SameServer DEF Traffic
<1>6. ASSUME NEW r \in RunIds, EndEarly(r) \/ EndFiles(r) PROVE Traffic
  <2>1. Only(r) /\ runs'[r].waiting = {} /\ runs'[r].phase # "off"
    BY <1>0, <1>6, StopEffect
  <2>2. idOf' = idOf /\ UNCHANGED <<made, stored>>
    BY <1>6 DEF EndEarly, EndFiles, server
  <2> QED
    BY <2>1, <2>2, FewerTraffic, SameIds, SameServer DEF Traffic
<1>7. ASSUME NEW n \in RunIds, \A q \in RunIds \ {n} : runs'[q] = runs[q],
             runs'[n].waiting = {}, runs'[n].phase # "off"
      PROVE  NewRequests /\ RunsStayOn
  BY <1>7 DEF NewRequests, RunsStayOn
<1>8. ASSUME NEW d \in Dests, start(d) PROVE Traffic
  <2>1. PICK n \in RunIds : n = LastRun'
    BY <1>0, <1>8, StartRuns
  <2>2. \A q \in RunIds \ {n} : runs'[q] = runs[q]
    BY <1>0, <1>8, <2>1, StartRuns
  <2>3. runs'[n].waiting = {} /\ runs'[n].phase # "off"
    <3>1. runs'[n] = Begun(plan', d, LastRun')
      BY <1>0, <1>8, <2>1, StartRuns
    <3> QED
      BY <3>1 DEF Begun
  <2>4. NewIds
    BY <1>8 DEF NewIds, start
  <2>5. UNCHANGED <<made, stored>>
    BY <1>8 DEF start
  <2> QED
    BY <1>7, <2>2, <2>3, <2>4, <2>5, SameServer DEF Traffic
<1>9. CASE retryFailed
  <2>1. PICK n \in RunIds : n = LastRun'
    BY <1>0, <1>9, RetryRuns
  <2>2. \A q \in RunIds \ {n} : runs'[q] = runs[q]
    BY <1>0, <1>9, <2>1, RetryRuns
  <2>3. runs'[n].waiting = {} /\ runs'[n].phase # "off"
    <3>1. runs'[n] = Begun(plan', runs[LastRun].dest, runs[LastRun].first)
      BY <1>0, <1>9, <2>1, RetryRuns
    <3> QED
      BY <3>1 DEF Begun
  <2>4. idOf' = idOf /\ UNCHANGED <<made, stored>>
    BY <1>9 DEF retryFailed, server
  <2> QED
    BY <1>7, <2>2, <2>3, <2>4, SameIds, SameServer DEF Traffic
<1>10. CASE cancel
  <2>1. \A q \in RunIds : runs'[q].waiting = runs[q].waiting /\ runs'[q].phase = runs[q].phase
    BY <1>0, <1>10, CancelRuns
  <2>2. idOf' = idOf /\ UNCHANGED <<made, stored>>
    BY <1>10 DEF cancel, server
  <2>3. NewRequests /\ RunsStayOn
    BY <2>1 DEF NewRequests, RunsStayOn
  <2> QED
    BY <2>2, <2>3, SameIds, SameServer DEF Traffic
<1>11. CASE clear
  <2>1. runs' = runs /\ UNCHANGED <<made, stored>>
    BY <1>11 DEF clear, server
  <2>2. NewIds
    BY <1>11 DEF clear, NewIds
  <2> QED
    BY <2>1, <2>2, SameServer DEF Traffic, NewRequests, RunsStayOn
<1>12. CASE UNCHANGED vars
  <2>1. runs' = runs /\ idOf' = idOf /\ UNCHANGED <<made, stored>>
    BY <1>12 DEF vars, hook, server
  <2> QED
    BY <2>1, SameIds, SameServer DEF Traffic, NewRequests, RunsStayOn
<1> QED
  BY <1>1, <1>2, <1>3, <1>4, <1>5, <1>6, <1>8, <1>9, <1>10, <1>11, <1>12
  DEF Next, Micro, Answer, User

LEMMA SentStep ==
    ASSUME TypeInv, Sent, Traffic, TypeOK'
    PROVE  Sent'
<1>1. \A p \in Folders \cup {Top} : idOf'[p] # None =>
          idOf'[p][2] = p /\ (p = Top \/ idOf'[p] \in made')
  BY DEF Sent, Traffic, NewIds
<1>2. \A r \in RunIds : \A w \in runs'[r].waiting :
          w[2][2] = Parent[w[1]] /\ (w[2][2] = Top \/ w[2] \in made')
  <2> SUFFICES ASSUME NEW r \in RunIds, NEW w \in runs'[r].waiting
               PROVE  w[2][2] = Parent[w[1]] /\ (w[2][2] = Top \/ w[2] \in made')
    OBVIOUS
  <2>1. CASE w \in runs[r].waiting
    BY <2>1 DEF Sent, Traffic
  <2>2. CASE w \notin runs[r].waiting
    <3>1. w[2] = idOf[Parent[w[1]]] /\ idOf[Parent[w[1]]] # None
      BY <2>2 DEF Traffic, NewRequests
    <3>2. Parent[w[1]] \in Folders \cup {Top}
      BY PlanAssumption DEF TypeOK, Run
    <3> QED
      BY <3>1, <3>2 DEF Sent, Traffic
  <2> QED
    BY <2>1, <2>2
<1>3. \A u \in stored' :
          u.parent[2] = Parent[u.file] /\ u.parent \in made' /\ runs'[u.run].phase # "off"
  <2> SUFFICES ASSUME NEW u \in stored'
               PROVE  /\ u.parent[2] = Parent[u.file] /\ u.parent \in made'
                      /\ runs'[u.run].phase # "off"
    OBVIOUS
  <2>0. u.file \in Files /\ u.run \in RunIds
    BY DEF TypeOK
  <2>1. CASE u \in stored
    BY <2>0, <2>1 DEF Sent, Traffic, RunsStayOn
  <2>2. CASE u \notin stored
    <3>1. <<u.file, u.parent>> \in runs[u.run].waiting /\ Live(u.run)
      BY <2>2 DEF Traffic, NewFiles
    <3>2. u.parent[2] = Parent[u.file] /\ (u.parent[2] = Top \/ u.parent \in made)
      BY <2>0, <3>1 DEF Sent
    <3>3. Parent[u.file] # Top
      BY <2>0, PlanAssumption DEF Items
    <3> QED
      BY <2>0, <3>1, <3>2, <3>3 DEF Traffic, RunsStayOn, Live
  <2> QED
    BY <2>1, <2>2
<1> QED
  BY <1>1, <1>2, <1>3 DEF Sent
-----------------------------------------------------------------------------
(***************************************************************************)
(* What the list says of the files.                                        *)
(***************************************************************************)
\* A file has an update only while a run is among the files, where it was queued.
UpdatesOfRun ==
    \A f \in Files : updates[f] # None =>
        plan[f] = "queued" /\ \E r \in RunIds : runs[r].phase = "files"

FilesOfRun ==
    \A r \in RunIds : runs[r].phase = "files" =>
        /\ \A f \in runs[r].todo : plan[f] = "queued" /\ updates[f] = None
        /\ \A w \in runs[r].waiting : plan[w[1]] = "queued" /\ updates[w[1]] = "uploading"

\* A file stored in the folder the hook knows is completed, or about to be shown as
\* completed, or was reported otherwise.
StoredIsKnown ==
    \A f \in Files, u \in stored : u.file = f /\ u.parent = idOf[Parent[f]] =>
        f \in unsure \/ updates[f] = "completed" \/ ~isRetryable(plan[f])

StoredByList(f) == \E u \in stored : u.file = f /\ runs[u.run].first = runs[LastRun].first

CompletedWasStored ==
    \A f \in Files : plan[f] = "completed" \/ updates[f] = "completed" => StoredByList(f)

ListInv == UpdatesOfRun /\ FilesOfRun /\ StoredIsKnown /\ CompletedWasStored

\* A step that is not about the files.
FoldersOnly ==
    /\ \A f \in Files : updates'[f] = updates[f] /\ plan'[f] = plan[f]
    /\ \A r \in RunIds :
          /\ runs'[r].phase = "files" <=> runs[r].phase = "files"
          /\ runs[r].phase = "files" =>
                runs'[r].todo = runs[r].todo /\ runs'[r].waiting = runs[r].waiting
          /\ runs'[r].first = runs[r].first
    /\ LastRun' = LastRun
    /\ stored' = stored /\ unsure \subseteq unsure'
    /\ \A p \in Folders : idOf'[p] = idOf[p] \/ idOf'[p] \notin made

LEMMA FilesInFolders == \A f \in Files : f \in Items /\ f \notin Folders /\ Parent[f] \in Folders
  BY PlanAssumption DEF Items

LEMMA FoldersOnlyKeeps ==
    ASSUME TypeInv, Sent, ListInv, FoldersOnly
    PROVE  ListInv'
<1>1. UpdatesOfRun'
  BY DEF ListInv, UpdatesOfRun, FoldersOnly
<1>2. FilesOfRun'
  <2> SUFFICES ASSUME NEW r \in RunIds, runs'[r].phase = "files"
               PROVE  /\ \A f \in runs'[r].todo : plan'[f] = "queued" /\ updates'[f] = None
                      /\ \A w \in runs'[r].waiting :
                            plan'[w[1]] = "queued" /\ updates'[w[1]] = "uploading"
    BY DEF FilesOfRun
  <2>1. /\ runs[r].phase = "files" /\ runs'[r].todo = runs[r].todo
        /\ runs'[r].waiting = runs[r].waiting
    BY DEF FoldersOnly
  <2>2. runs[r].todo \subseteq Files /\ \A w \in runs[r].waiting : w[1] \in Files
    BY <2>1 DEF TypeInv, RunsInv, Work
  <2> QED
    BY <2>1, <2>2 DEF ListInv, FilesOfRun, FoldersOnly
<1>3. StoredIsKnown'
  <2> SUFFICES ASSUME NEW f \in Files, NEW u \in stored', u.file = f,
                      u.parent = idOf'[Parent[f]]
               PROVE  f \in unsure' \/ updates'[f] = "completed" \/ ~isRetryable(plan'[f])
    BY DEF StoredIsKnown
  <2>1. u \in stored /\ u.parent \in made
    BY DEF FoldersOnly, Sent
  <2>2. idOf'[Parent[f]] = idOf[Parent[f]]
    BY <2>1, FilesInFolders DEF FoldersOnly
  <2>3. f \in unsure \/ updates[f] = "completed" \/ ~isRetryable(plan[f])
    BY <2>1, <2>2 DEF ListInv, StoredIsKnown
  <2> QED
    BY <2>3 DEF FoldersOnly
<1>4. CompletedWasStored'
  <2> SUFFICES ASSUME NEW f \in Files, plan'[f] = "completed" \/ updates'[f] = "completed"
               PROVE  StoredByList(f)'
    BY DEF CompletedWasStored
  <2>1. PICK u \in stored : u.file = f /\ runs[u.run].first = runs[LastRun].first
    BY DEF FoldersOnly, ListInv, CompletedWasStored, StoredByList
  <2>2. u.run \in RunIds
    BY DEF TypeInv, TypeOK
  <2>3. LastRun \in RunIds
    <3>1. runs[u.run].phase # "off"
      BY DEF Sent
    <3> QED
      BY <2>2, <3>1, BoundAssumption DEF TypeInv, RunsInv, Numbered, RunIds
  <2> QED
    BY <2>1, <2>2, <2>3 DEF StoredByList, FoldersOnly
<1> QED
  BY <1>1, <1>2, <1>3, <1>4 DEF ListInv

\* The folders' requests, and the turns of execute but the last.
LEMMA FolderItem ==
    ASSUME TypeInv, NEW r \in RunIds, NEW i \in Folders,
           i \in runs[r].todo \/ \E id \in Ids : <<i, id>> \in runs[r].waiting
    PROVE  runs[r].phase # "files"
<1>1. i \notin Files
  BY PlanAssumption
<1> QED
  BY <1>1 DEF TypeInv, RunsInv, Work

LEMMA FolderSteps ==
    ASSUME TypeInv, [Next]_vars,
           \/ \E r \in RunIds, i \in Folders :
                 \/ Take(r, i)
                 \/ \E id \in Ids : Cut(r, i, id) \/ Acknowledged(r, i, id) \/ Failed(r, i, id)
           \/ \E r \in RunIds : NextLevel(r) \/ EndEarly(r)
           \/ cancel
           \/ UNCHANGED vars
    PROVE  FoldersOnly
<1>0. TypeOK /\ RunsInv
  BY DEF TypeInv
<1>1. ASSUME NEW r \in RunIds, Only(r), runs[r].phase # "files", runs'[r].phase # "files",
             LastRun' = LastRun, plan' = plan, stored' = stored, unsure \subseteq unsure',
             \A f \in Files : updates'[f] = updates[f],
             \A p \in Folders : idOf'[p] = idOf[p] \/ idOf'[p] \notin made
      PROVE  FoldersOnly
  BY <1>1 DEF FoldersOnly, Only
<1>2. ASSUME NEW r \in RunIds, NEW i \in Folders, Take(r, i) PROVE FoldersOnly
  <2>1. Steady(r) /\ LastRun' = LastRun
    BY <1>0, <1>2, TakeRuns DEF Items
  <2>2. runs[r].phase # "files"
    BY <1>2, FolderItem DEF Take
  <2>3. \A f \in Files : updates'[f] = updates[f]
    BY <1>0, <1>2, FilesInFolders DEF Take, Skip, NoParent, Send, TypeOK
  <2> QED
    BY <1>1, <1>2, <2>1, <2>2, <2>3 DEF Take, server, Steady
<1>3. ASSUME NEW r \in RunIds, NEW i \in Folders, NEW id \in Ids,
             Cut(r, i, id) \/ Acknowledged(r, i, id)
      PROVE  FoldersOnly
  <2>1. Steady(r) /\ LastRun' = LastRun
    BY <1>0, <1>3, EndsRuns DEF Items
  <2>2. runs[r].phase # "files"
    BY <1>3, FolderItem DEF Cut, Acknowledged
  <2>3. \A f \in Files : updates'[f] = updates[f]
    BY <1>0, <1>3, FilesInFolders DEF Cut, Acknowledged, Ended, TypeOK
  <2>4. i \notin Files
    BY PlanAssumption
  <2>5. \A p \in Folders : idOf'[p] = idOf[p] \/ idOf'[p] \notin made
    <3>1. CASE Cut(r, i, id)
      BY <3>1 DEF Cut
    <3>2. CASE Acknowledged(r, i, id)
      BY <1>0, <3>2 DEF Acknowledged, Make, Taken, TypeOK
    <3> QED
      BY <1>3, <3>1, <3>2
  <2>6. stored' = stored /\ unsure \subseteq unsure' /\ plan' = plan
    BY <1>3, <2>4 DEF Cut, Acknowledged, Make, server
  <2> QED
    BY <1>1, <2>1, <2>2, <2>3, <2>5, <2>6 DEF Steady
<1>4. ASSUME NEW r \in RunIds, NEW i \in Folders, NEW id \in Ids, Failed(r, i, id)
      PROVE  FoldersOnly
  <2>0. PICK w \in runs[r].waiting : w = <<i, id>>
    BY <1>4 DEF Failed
  <2>1. runs[r].workers > 0
    <3>1. runs[r].workers \in Nat \ {0}
      BY <1>0, FewerWaiting
    <3> QED
      BY <3>1
  <2>2. Only(r) /\ runs'[r].phase = "left" /\ LastRun' = LastRun
    <3>1. Only(r) /\ runs'[r].phase = "left"
      BY <1>0, <1>4, <2>1, ThrowEffect
    <3> QED
      BY <1>0, <1>4, <3>1, ThrowRuns
  <2>3. runs[r].phase # "files"
    BY <1>4, FolderItem DEF Failed
  <2>4. \A f \in Files : updates'[f] = updates[f]
    BY <1>0, <1>4, FilesInFolders DEF Failed, Ended, TypeOK
  <2>5. i \notin Files
    BY PlanAssumption
  <2>6. stored' = stored /\ unsure \subseteq unsure' /\ plan' = plan /\ idOf' = idOf
    BY <1>4, <2>5 DEF Failed, Make, server
  <2> QED
    BY <1>1, <2>2, <2>3, <2>4, <2>6
<1>5. ASSUME NEW r \in RunIds, NextLevel(r) PROVE FoldersOnly
  <2>1. Only(r) /\ runs'[r].phase = "folders" /\ LastRun' = LastRun
    BY <1>0, <1>5, NextLevelEffect, TurnRuns
  <2> QED
    BY <1>1, <1>5, <2>1 DEF NextLevel, hook, server
<1>6. ASSUME NEW r \in RunIds, EndEarly(r) PROVE FoldersOnly
  <2>1. Only(r) /\ runs'[r].phase = "early" /\ LastRun' = LastRun
    BY <1>0, <1>6, StopEffect, StopRuns
  <2> QED
    BY <1>1, <1>6, <2>1 DEF EndEarly, LastLevel, server
<1>7. CASE cancel
  BY <1>0, <1>7, CancelRuns DEF FoldersOnly, cancel, server
<1>8. CASE UNCHANGED vars
  BY <1>8 DEF FoldersOnly, vars, hook, server, LastRun
<1> QED
  BY <1>2, <1>3, <1>4, <1>5, <1>6, <1>7, <1>8

LEMMA ListStays ==
    ASSUME TypeInv, Sent, stored \subseteq stored', LastRun' = LastRun,
           \A r \in RunIds : runs'[r].first = runs[r].first
    PROVE  \A f \in Files : StoredByList(f) => StoredByList(f)'
<1> SUFFICES ASSUME NEW f \in Files, StoredByList(f) PROVE StoredByList(f)'
  OBVIOUS
<1>1. PICK u \in stored : u.file = f /\ runs[u.run].first = runs[LastRun].first
  BY DEF StoredByList
<1>2. u.run \in RunIds /\ runs[u.run].phase # "off"
  BY DEF TypeInv, TypeOK, Sent
<1>3. LastRun \in RunIds
  BY <1>2, BoundAssumption DEF TypeInv, RunsInv, Numbered, RunIds
<1> QED
  BY <1>1, <1>2, <1>3 DEF StoredByList

\* The run a file is of is the only one among the files.
LEMMA FileRun ==
    ASSUME TypeInv, NEW r \in RunIds, Live(r), NEW f \in Files,
           f \in runs[r].todo \/ \E id \in Ids : <<f, id>> \in runs[r].waiting
    PROVE  /\ runs[r].phase = "files" /\ r = current /\ r = LastRun
           /\ \A q \in RunIds : runs[q].phase = "files" => q = r
<1>1. f \notin Folders
  BY FilesInFolders
<1>2. runs[r].phase = "files"
  BY <1>1 DEF TypeInv, RunsInv, Work, Live, Level
<1> QED
  BY <1>2 DEF TypeInv, RunsInv, Single, RunIds

LEMMA TakeFile ==
    ASSUME TypeInv, Sent, ListInv, NEW r \in RunIds, NEW f \in Files, Take(r, f)
    PROVE  ListInv'
<1>0. TypeOK /\ RunsInv /\ f \in Items
  BY DEF TypeInv, Items
<1>1. f \in runs[r].todo /\ Live(r)
  BY DEF Take
<1>2. runs[r].phase = "files" /\ \A q \in RunIds : runs[q].phase = "files" => q = r
  BY <1>1, FileRun
<1>3. plan[f] = "queued" /\ updates[f] = None
  BY <1>1, <1>2 DEF ListInv, FilesOfRun
<1>4. Steady(r) /\ LastRun' = LastRun
  BY <1>0, TakeRuns
<1>5. UNCHANGED <<plan, stored, unsure, idOf>>
  BY DEF Take, server
<1>6. /\ \A g \in Files \ {f} : updates'[g] = updates[g]
      /\ updates'[f] \in {None, "failed", "uploading"}
  <2>1. CASE Skip(r, f)
    BY <1>3, <2>1 DEF Skip
  <2>2. CASE NoParent(r, f) \/ Send(r, f)
    BY <1>0, <2>2 DEF NoParent, Send, TypeOK, Items
  <2> QED
    BY <2>1, <2>2 DEF Take
<1>7. runs'[r].todo = runs[r].todo \ {f}
      /\ \A w \in runs'[r].waiting : w \in runs[r].waiting \/ (w[1] = f /\ updates'[f] = "uploading")
  <2>1. CASE Skip(r, f) \/ NoParent(r, f)
    BY <1>0, <2>1, SkipEffect
  <2>2. CASE Send(r, f)
    <3>1. /\ runs'[r].todo = runs[r].todo \ {f}
          /\ runs'[r].waiting = runs[r].waiting \cup {<<f, idOf[Parent[f]]>>}
      BY <1>0, <2>2, SendEffect
    <3>2. updates'[f] = "uploading"
      BY <1>0, <2>2 DEF Send, TypeOK
    <3> QED
      BY <3>1, <3>2
  <2> QED
    BY <2>1, <2>2 DEF Take
<1>8. \A q \in RunIds : runs'[q].phase = runs[q].phase /\ runs'[q].first = runs[q].first
  BY <1>4 DEF Steady, Only
<1>9. None # "completed"
  BY NoneAssumption DEF Statuses
<1>10. UpdatesOfRun'
  BY <1>2, <1>3, <1>5, <1>6, <1>8 DEF ListInv, UpdatesOfRun
<1>11. FilesOfRun'
  <2> SUFFICES ASSUME NEW q \in RunIds, runs'[q].phase = "files"
               PROVE  /\ \A g \in runs'[q].todo : plan'[g] = "queued" /\ updates'[g] = None
                      /\ \A w \in runs'[q].waiting :
                            plan'[w[1]] = "queued" /\ updates'[w[1]] = "uploading"
    BY DEF FilesOfRun
  <2>1. q = r
    BY <1>2, <1>8
  <2>2. runs[r].todo \subseteq Files /\ \A w \in runs[r].waiting : w[1] \in Files \ {f}
    BY <1>1, <1>2 DEF TypeInv, RunsInv, Work
  <2>3. /\ \A g \in runs[r].todo : plan[g] = "queued" /\ updates[g] = None
        /\ \A w \in runs[r].waiting : plan[w[1]] = "queued" /\ updates[w[1]] = "uploading"
    BY <1>2 DEF ListInv, FilesOfRun
  <2>4. \A g \in runs'[q].todo : plan'[g] = "queued" /\ updates'[g] = None
    BY <1>5, <1>6, <1>7, <2>1, <2>2, <2>3
  <2>5. \A w \in runs'[q].waiting : plan'[w[1]] = "queued" /\ updates'[w[1]] = "uploading"
    BY <1>3, <1>5, <1>6, <1>7, <2>1, <2>2, <2>3
  <2> QED
    BY <2>4, <2>5
<1>12. StoredIsKnown'
  BY <1>3, <1>5, <1>6, <1>9 DEF ListInv, StoredIsKnown
<1>13. CompletedWasStored'
  <2>1. \A g \in Files : StoredByList(g) => StoredByList(g)'
    BY <1>4, <1>5, <1>8, ListStays
  <2> QED
    BY <1>3, <1>5, <1>6, <1>9, <2>1 DEF ListInv, CompletedWasStored
<1> QED
  BY <1>10, <1>11, <1>12, <1>13 DEF ListInv

\* A file's request has ended with a status.
LEMMA EndFileEffect ==
    ASSUME TypeInv, NEW r \in RunIds, NEW f \in Files, NEW id \in Ids,
           Acknowledged(r, f, id) \/ Cut(r, f, id) \/ Failed(r, f, id)
    PROVE  /\ Steady(r) /\ LastRun' = LastRun
           /\ runs'[r].todo = runs[r].todo
           /\ runs'[r].waiting = runs[r].waiting \ {<<f, id>>}
           /\ UNCHANGED <<plan, idOf>> /\ unsure \subseteq unsure' /\ stored \subseteq stored'
           /\ \A g \in Files \ {f} : updates'[g] = updates[g]
           /\ updates'[f] \in Statuses
           /\ \A u \in stored' \ stored : u.file = f
           /\ \/ updates'[f] = "completed" /\ \E u \in stored' : u.file = f /\ u.run = r
              \/ updates'[f] # "completed" /\ (stored' = stored \/ f \in unsure')
<1>0. TypeOK /\ RunsInv /\ f \in Items /\ f \notin Folders
  BY FilesInFolders DEF TypeInv
<1>1. /\ Steady(r) /\ runs'[r].todo = runs[r].todo
      /\ runs'[r].waiting = runs[r].waiting \ {<<f, id>>}
  BY <1>0, EndsEffect
<1>2. LastRun' = LastRun
  BY <1>0, EndsRuns
<1>3. UNCHANGED <<plan, idOf>> /\ unsure \subseteq unsure'
  BY <1>0 DEF Acknowledged, Cut, Failed, server
<1>4. /\ \A g \in Files \ {f} : updates'[g] = updates[g]
      /\ updates'[f] = IF Acknowledged(r, f, id) THEN "completed"
                       ELSE IF Cut(r, f, id) THEN "cancelled" ELSE "failed"
  <2>1. CASE Acknowledged(r, f, id)
    BY <1>0, <2>1 DEF Acknowledged, Ended, TypeOK, Items
  <2>2. CASE Cut(r, f, id) /\ ~Acknowledged(r, f, id)
    BY <1>0, <2>2 DEF Cut, Ended, TypeOK, Items
  <2>3. CASE Failed(r, f, id) /\ ~Acknowledged(r, f, id) /\ ~Cut(r, f, id)
    BY <1>0, <2>3 DEF Failed, Ended, TypeOK, Items
  <2> QED
    BY <2>1, <2>2, <2>3
<1>5. Make(r, f, id) => stored' = stored \cup {[parent |-> id, file |-> f, run |-> r]}
  BY DEF Make
<1>6. /\ Acknowledged(r, f, id) => Make(r, f, id)
      /\ ~Acknowledged(r, f, id) =>
            stored' = stored \/ (Make(r, f, id) /\ f \in unsure')
  BY DEF Acknowledged, Cut, Failed, server
<1>7. stored \subseteq stored' /\ \A u \in stored' \ stored : u.file = f
  BY <1>5, <1>6
<1>8. \/ updates'[f] = "completed" /\ \E u \in stored' : u.file = f /\ u.run = r
      \/ updates'[f] # "completed" /\ (stored' = stored \/ f \in unsure')
  <2>1. CASE Acknowledged(r, f, id)
    <3>1. [parent |-> id, file |-> f, run |-> r] \in stored'
      BY <1>5, <1>6, <2>1
    <3>2. \E u \in stored' : u.file = f /\ u.run = r
      BY <3>1
    <3> QED
      BY <1>4, <2>1, <3>2
  <2>2. CASE ~Acknowledged(r, f, id)
    BY <1>4, <1>6, <2>2
  <2> QED
    BY <2>1, <2>2
<1>9. updates'[f] \in Statuses
  BY <1>4 DEF Statuses
<1> QED
  BY <1>1, <1>2, <1>3, <1>4, <1>7, <1>8, <1>9

LEMMA EndFile ==
    ASSUME TypeInv, Sent, ListInv, NEW r \in RunIds, NEW f \in Files, NEW id \in Ids,
           Acknowledged(r, f, id) \/ Cut(r, f, id) \/ Failed(r, f, id)
    PROVE  ListInv'
<1>1. <<f, id>> \in runs[r].waiting /\ Live(r)
  BY DEF Acknowledged, Cut, Failed
<1>2. /\ runs[r].phase = "files" /\ r = LastRun
      /\ \A q \in RunIds : runs[q].phase = "files" => q = r
  BY <1>1, FileRun
<1>3. plan[f] = "queued" /\ updates[f] = "uploading"
  BY <1>1, <1>2 DEF ListInv, FilesOfRun
<1>4. /\ Steady(r) /\ LastRun' = LastRun
      /\ runs'[r].todo = runs[r].todo
      /\ runs'[r].waiting = runs[r].waiting \ {<<f, id>>}
      /\ UNCHANGED <<plan, idOf>> /\ unsure \subseteq unsure' /\ stored \subseteq stored'
      /\ \A g \in Files \ {f} : updates'[g] = updates[g]
      /\ updates'[f] \in Statuses
      /\ \A u \in stored' \ stored : u.file = f
      /\ \/ updates'[f] = "completed" /\ \E u \in stored' : u.file = f /\ u.run = r
         \/ updates'[f] # "completed" /\ (stored' = stored \/ f \in unsure')
  BY EndFileEffect
<1>5. \A q \in RunIds : runs'[q].phase = runs[q].phase /\ runs'[q].first = runs[q].first
  BY <1>4 DEF Steady, Only
<1>6. UpdatesOfRun'
  BY <1>2, <1>3, <1>4, <1>5 DEF ListInv, UpdatesOfRun
<1>7. FilesOfRun'
  <2> SUFFICES ASSUME NEW q \in RunIds, runs'[q].phase = "files"
               PROVE  /\ \A g \in runs'[q].todo : plan'[g] = "queued" /\ updates'[g] = None
                      /\ \A w \in runs'[q].waiting :
                            plan'[w[1]] = "queued" /\ updates'[w[1]] = "uploading"
    BY DEF FilesOfRun
  <2>1. q = r
    BY <1>2, <1>5
  <2>2. runs[r].todo \subseteq Files \ {f}
        /\ \A w \in runs[r].waiting \ {<<f, id>>} : w[1] \in Files \ {f}
    BY <1>1, <1>2 DEF TypeInv, RunsInv, Work
  <2>3. /\ \A g \in runs[r].todo : plan[g] = "queued" /\ updates[g] = None
        /\ \A w \in runs[r].waiting : plan[w[1]] = "queued" /\ updates[w[1]] = "uploading"
    BY <1>2 DEF ListInv, FilesOfRun
  <2> QED
    BY <1>4, <2>1, <2>2, <2>3
<1>8. StoredIsKnown'
  <2> SUFFICES ASSUME NEW g \in Files, NEW u \in stored', u.file = g,
                      u.parent = idOf'[Parent[g]]
               PROVE  g \in unsure' \/ updates'[g] = "completed" \/ ~isRetryable(plan'[g])
    BY DEF StoredIsKnown
  <2>1. CASE u \in stored
    <3>1. g \in unsure \/ updates[g] = "completed" \/ ~isRetryable(plan[g])
      BY <1>4, <2>1 DEF ListInv, StoredIsKnown
    <3> QED
      BY <1>3, <1>4, <3>1
  <2>2. CASE u \notin stored
    BY <1>4, <2>2
  <2> QED
    BY <2>1, <2>2
<1>9. CompletedWasStored'
  <2>1. \A g \in Files : StoredByList(g) => StoredByList(g)'
    BY <1>4, <1>5, ListStays
  <2>2. \A g \in Files \ {f} : plan'[g] = "completed" \/ updates'[g] = "completed" =>
            StoredByList(g)'
    BY <1>4, <2>1 DEF ListInv, CompletedWasStored
  <2>3. updates'[f] = "completed" => StoredByList(f)'
    BY <1>2, <1>4 DEF StoredByList
  <2> QED
    BY <1>3, <1>4, <2>2, <2>3 DEF CompletedWasStored
<1> QED
  BY <1>6, <1>7, <1>8, <1>9 DEF ListInv

LEMMA StartFilesList ==
    ASSUME TypeInv, Sent, ListInv, NEW r \in RunIds, StartFiles(r)
    PROVE  ListInv'
<1>1. /\ Only(r) /\ runs'[r].phase = "files" /\ runs'[r].todo = Queued(Files)
      /\ runs'[r].waiting = {}
  BY StartFilesEffect DEF TypeInv
<1>2. LastRun' = LastRun /\ r = current
  BY TurnRuns DEF TypeInv
<1>3. UNCHANGED <<plan, updates, idOf, stored, unsure>>
  BY DEF StartFiles, hook, server
<1>4. \A q \in RunIds : runs[q].phase # "files"
  <2>1. runs[r].phase # "files"
    BY DEF StartFiles, LastLevel
  <2> QED
    BY <1>2, <2>1 DEF TypeInv, RunsInv, Single
<1>5. \A f \in Files : updates[f] = None
  BY <1>4 DEF ListInv, UpdatesOfRun
<1>6. UpdatesOfRun' /\ StoredIsKnown'
  BY <1>3, <1>5 DEF UpdatesOfRun, ListInv, StoredIsKnown
<1>7. FilesOfRun'
  <2> SUFFICES ASSUME NEW q \in RunIds, runs'[q].phase = "files"
               PROVE  /\ \A g \in runs'[q].todo : plan'[g] = "queued" /\ updates'[g] = None
                      /\ \A w \in runs'[q].waiting :
                            plan'[w[1]] = "queued" /\ updates'[w[1]] = "uploading"
    BY DEF FilesOfRun
  <2>1. q = r
    BY <1>1, <1>4 DEF Only
  <2> QED
    BY <1>1, <1>3, <1>5, <2>1 DEF Queued
<1>8. CompletedWasStored'
  <2>1. \A g \in Files : StoredByList(g) => StoredByList(g)'
    BY <1>1, <1>2, <1>3, ListStays DEF Only
  <2> QED
    BY <1>3, <2>1 DEF ListInv, CompletedWasStored
<1> QED
  BY <1>6, <1>7, <1>8 DEF ListInv

LEMMA EndFilesList ==
    ASSUME TypeInv, Sent, ListInv, NEW r \in RunIds, EndFiles(r)
    PROVE  ListInv'
<1>1. Only(r) /\ runs'[r].phase \in {"early", "done"}
  BY StopEffect DEF TypeInv
<1>2. LastRun' = LastRun /\ r = current
  BY StopRuns DEF TypeInv
<1>3. UNCHANGED <<idOf, stored, unsure>> /\ flushUpdates
  BY DEF EndFiles, server
<1>4. \A q \in RunIds : runs'[q].phase # "files"
  BY <1>1, <1>2 DEF TypeInv, RunsInv, Single, Only
<1>5. \A f \in Files : f \in Items /\ updates'[f] = None
  BY <1>3 DEF flushUpdates, Items
<1>6. \A f \in Files :
        /\ updates[f] # None => plan[f] = "queued" /\ plan'[f] = updates[f]
        /\ updates[f] = None => plan'[f] = plan[f] \/ plan'[f] = "gone"
  BY <1>3 DEF flushUpdates, Items, ListInv, UpdatesOfRun
<1>7. UpdatesOfRun' /\ FilesOfRun'
  BY <1>4, <1>5 DEF UpdatesOfRun, FilesOfRun
<1>8. StoredIsKnown'
  <2> SUFFICES ASSUME NEW f \in Files, NEW u \in stored, u.file = f,
                      u.parent = idOf[Parent[f]], isRetryable(plan'[f])
               PROVE  f \in unsure
    BY <1>3 DEF StoredIsKnown
  <2>1. f \in unsure \/ updates[f] = "completed" \/ ~isRetryable(plan[f])
    BY DEF ListInv, StoredIsKnown
  <2>2. None # "completed"
    BY NoneAssumption DEF Statuses
  <2> QED
    BY <1>6, <2>1, <2>2 DEF isRetryable
<1>9. CompletedWasStored'
  <2>1. \A g \in Files : StoredByList(g) => StoredByList(g)'
    BY <1>1, <1>2, <1>3, ListStays DEF Only
  <2>2. None # "completed"
    BY NoneAssumption DEF Statuses
  <2> QED
    BY <1>5, <1>6, <2>1, <2>2 DEF ListInv, CompletedWasStored
<1> QED
  BY <1>7, <1>8, <1>9 DEF ListInv

\* While nothing is uploading no file has an update.
LEMMA IdleUpdates ==
    ASSUME TypeInv, ListInv, ~uploading
    PROVE  (\A r \in RunIds : runs[r].phase # "files") /\ \A f \in Files : updates[f] = None
<1>1. \A r \in RunIds : runs[r].phase # "files"
  BY DEF TypeInv, RunsInv, Single, RunIds
<1> QED
  BY <1>1 DEF ListInv, UpdatesOfRun

LEMMA StartList ==
    ASSUME TypeInv, Sent, ListInv, NEW d \in Dests, start(d)
    PROVE  ListInv'
<1>1. (\A r \in RunIds : runs[r].phase # "files") /\ \A f \in Files : updates[f] = None
  BY IdleUpdates DEF start
<1>2. PICK n \in RunIds : n = LastRun'
  BY StartRuns DEF TypeInv
<1>3. (\A q \in RunIds \ {n} : runs'[q] = runs[q]) /\ runs'[n] = Begun(plan', d, LastRun')
  BY <1>2, StartRuns DEF TypeInv
<1>4. \A r \in RunIds : runs'[r].phase # "files"
  <2>1. runs'[n].phase = "folders"
    BY <1>3 DEF Begun
  <2> QED
    BY <1>1, <1>3, <2>1
<1>5. /\ \A f \in Files : updates'[f] = None /\ plan'[f] = "queued" /\ idOf'[Parent[f]] = None
      /\ stored' = stored
  BY <1>1, FilesInFolders, PlanAssumption DEF start, Items
<1>6. UpdatesOfRun' /\ FilesOfRun'
  BY <1>4, <1>5 DEF UpdatesOfRun, FilesOfRun
<1>7. \A u \in stored : u.parent # None
  BY NoneAssumption DEF TypeInv, TypeOK
<1>8. StoredIsKnown'
  BY <1>5, <1>7 DEF StoredIsKnown
<1>9. CompletedWasStored'
  <2>1. None # "completed"
    BY NoneAssumption DEF Statuses
  <2> QED
    BY <1>5, <2>1 DEF CompletedWasStored
<1> QED
  BY <1>6, <1>8, <1>9 DEF ListInv

LEMMA ClearList ==
    ASSUME TypeInv, Sent, ListInv, clear
    PROVE  ListInv'
<1>1. (\A r \in RunIds : runs[r].phase # "files") /\ \A f \in Files : updates[f] = None
  BY IdleUpdates DEF clear
<1>2. /\ \A f \in Files : updates'[f] = None /\ plan'[f] = "gone"
      /\ runs' = runs
  BY <1>1 DEF clear, Items
<1>3. UpdatesOfRun' /\ FilesOfRun' /\ StoredIsKnown'
  BY <1>1, <1>2 DEF UpdatesOfRun, FilesOfRun, StoredIsKnown, isRetryable
<1>4. CompletedWasStored'
  <2>1. None # "completed"
    BY NoneAssumption DEF Statuses
  <2> QED
    BY <1>2, <2>1 DEF CompletedWasStored
<1> QED
  BY <1>3, <1>4 DEF ListInv

LEMMA RetryList ==
    ASSUME TypeInv, Sent, ListInv, retryFailed
    PROVE  ListInv'
<1>1. (\A r \in RunIds : runs[r].phase # "files") /\ \A f \in Files : updates[f] = None
  BY IdleUpdates DEF retryFailed
<1>2. PICK n \in RunIds, m \in RunIds : n = LastRun' /\ m = LastRun /\ n = m + 1
  BY RetryRuns DEF TypeInv
<1>3. /\ \A q \in RunIds \ {n} : runs'[q] = runs[q]
      /\ runs'[n] = Begun(plan', runs[LastRun].dest, runs[LastRun].first)
  BY <1>2, RetryRuns DEF TypeInv
<1>4. runs'[n].phase = "folders" /\ runs'[n].first = runs[m].first
  BY <1>2, <1>3 DEF Begun
<1>5. \A r \in RunIds : runs'[r].phase # "files"
  BY <1>1, <1>3, <1>4
<1>6. /\ UNCHANGED <<updates, idOf, stored, unsure>>
      /\ \A f \in Files : plan'[f] = IF isRetryable(plan[f]) THEN "queued" ELSE plan[f]
  BY DEF retryFailed, server, Items
<1>7. UpdatesOfRun' /\ FilesOfRun'
  BY <1>1, <1>5, <1>6 DEF UpdatesOfRun, FilesOfRun
<1>8. StoredIsKnown'
  BY <1>6 DEF ListInv, StoredIsKnown
<1>9. CompletedWasStored'
  <2> SUFFICES ASSUME NEW f \in Files, plan'[f] = "completed" \/ updates'[f] = "completed"
               PROVE  StoredByList(f)'
    BY DEF CompletedWasStored
  <2>1. plan[f] = "completed" \/ updates[f] = "completed"
    BY <1>6
  <2>2. PICK u \in stored : u.file = f /\ runs[u.run].first = runs[LastRun].first
    BY <2>1 DEF ListInv, CompletedWasStored, StoredByList
  <2>3. u.run \in RunIds /\ runs[u.run].phase # "off"
    BY DEF TypeInv, TypeOK, Sent
  <2>4. u.run # n
    BY <1>2, <2>3 DEF TypeInv, RunsInv, Numbered, RunIds
  <2> QED
    BY <1>2, <1>3, <1>4, <1>6, <2>2, <2>3, <2>4 DEF StoredByList
<1> QED
  BY <1>7, <1>8, <1>9 DEF ListInv

ListTypeInv == TypeInv /\ Sent /\ ListInv

LEMMA ListStep ==
    ASSUME TypeInv, Sent, ListInv, [Next]_vars
    PROVE  ListInv'
<1>1. ASSUME NEW r \in RunIds, NEW i \in Items, Take(r, i) PROVE ListInv'
  <2>1. CASE i \in Files
    BY <1>1, <2>1, TakeFile
  <2>2. CASE i \in Folders
    BY <1>1, <2>2, FolderSteps, FoldersOnlyKeeps
  <2> QED
    BY <2>1, <2>2 DEF Items
<1>2. ASSUME NEW r \in RunIds, NEW i \in Items, NEW id \in Ids,
             Cut(r, i, id) \/ Acknowledged(r, i, id) \/ Failed(r, i, id)
      PROVE  ListInv'
  <2>1. CASE i \in Files
    BY <1>2, <2>1, EndFile
  <2>2. CASE i \in Folders
    BY <1>2, <2>2, FolderSteps, FoldersOnlyKeeps
  <2> QED
    BY <2>1, <2>2 DEF Items
<1>3. ASSUME NEW r \in RunIds, NextLevel(r) \/ EndEarly(r) PROVE ListInv'
  BY <1>3, FolderSteps, FoldersOnlyKeeps
<1>4. CASE cancel \/ UNCHANGED vars
  BY <1>4, FolderSteps, FoldersOnlyKeeps
<1>5. CASE (\E d \in Dests : start(d)) \/ retryFailed \/ clear
  BY <1>5, StartList, RetryList, ClearList
<1>6. ASSUME NEW r \in RunIds, StartFiles(r) \/ EndFiles(r) PROVE ListInv'
  BY <1>6, StartFilesList, EndFilesList
<1> QED
  BY <1>1, <1>2, <1>3, <1>4, <1>5, <1>6 DEF Next, Micro, Answer, User

LEMMA ListInit == Init => ListTypeInv
<1> SUFFICES ASSUME Init PROVE ListTypeInv
  OBVIOUS
<1>1. Sent
  BY DEF Init, Sent, NoRun
<1>2. \A r \in RunIds : runs[r].phase = "off"
  BY DEF Init, NoRun
<1>3. None # "completed"
  BY NoneAssumption DEF Statuses
<1>4. \A f \in Files : plan[f] = "gone" /\ updates[f] = None
  BY DEF Init, Items
<1>5. ListInv
  BY <1>2, <1>3, <1>4
  DEF Init, ListInv, UpdatesOfRun, FilesOfRun, StoredIsKnown, CompletedWasStored
<1> QED
  BY <1>1, <1>5, TypeInit DEF ListTypeInv

LEMMA ListInvStep == ListTypeInv /\ [Next]_vars => ListTypeInv'
<1> SUFFICES ASSUME ListTypeInv, [Next]_vars PROVE ListTypeInv'
  OBVIOUS
<1>1. TypeInv' /\ TypeOK'
  BY TypeStep DEF ListTypeInv, TypeInv
<1>2. Sent'
  BY <1>1, TrafficStep, SentStep DEF ListTypeInv
<1>3. ListInv'
  BY ListStep DEF ListTypeInv
<1> QED
  BY <1>1, <1>2, <1>3 DEF ListTypeInv

LEMMA ListInvIsTrue == ListTypeInv => ListIsTrue
<1> SUFFICES ASSUME ListTypeInv PROVE ListIsTrue
  OBVIOUS
<1>1. RetryOnlyUndone
  <2> SUFFICES ASSUME ~uploading, NEW f \in Files, NEW u \in stored, isRetryable(plan[f]),
                      u.file = f, u.parent = idOf[Parent[f]]
               PROVE  f \in unsure
    BY DEF RetryOnlyUndone
  <2>1. updates[f] = None
    BY IdleUpdates DEF ListTypeInv
  <2>2. None # "completed"
    BY NoneAssumption DEF Statuses
  <2> QED
    BY <2>1, <2>2 DEF ListTypeInv, ListInv, StoredIsKnown
<1>2. CompletedIsStored
  BY DEF ListTypeInv, ListInv, CompletedWasStored, CompletedIsStored, StoredByList
<1> QED
  BY <1>1, <1>2 DEF ListIsTrue

\* What the list says of a file is so, however many runs of execute, left over or not,
\* share the hook's maps: a file shown as completed was stored by a run of the list, and
\* none that the client knows to be stored is offered for retry.
THEOREM ListStaysTrue == Spec => []ListIsTrue
  BY ListInit, ListInvStep, ListInvIsTrue, PTL DEF Spec
-----------------------------------------------------------------------------
(***************************************************************************)
(* How far a run has come among the folders.                               *)
(***************************************************************************)
LEMMA Depths1 ==
    \A f \in Folders :
        /\ Depth[f] \in Nat \ {0} /\ Depth[f] \in Depths /\ f \in Level(Depth[f])
        /\ Depth[f] = 1 <=> Parent[f] = Top
        /\ Parent[f] # Top => Parent[f] \in Folders /\ Depth[Parent[f]] = Depth[f] - 1
<1> SUFFICES ASSUME NEW f \in Folders
             PROVE  /\ Depth[f] \in Nat \ {0} /\ Depth[f] \in Depths /\ f \in Level(Depth[f])
                    /\ Depth[f] = 1 <=> Parent[f] = Top
                    /\ Parent[f] # Top => Parent[f] \in Folders /\ Depth[Parent[f]] = Depth[f] - 1
  OBVIOUS
<1>1. Depth[f] \in Nat \ {0} /\ Depth[f] \in Depths /\ f \in Level(Depth[f])
  BY PlanAssumption DEF Depths, Level
<1>2. Depth[f] = IF Parent[f] = Top THEN 1 ELSE Depth[Parent[f]] + 1
  BY PlanAssumption
<1>3. Parent[f] # Top => Parent[f] \in Folders
  BY PlanAssumption DEF Items
<1>4. Parent[f] # Top => Depth[Parent[f]] \in Nat \ {0}
  BY <1>3, PlanAssumption
<1> QED
  BY <1>1, <1>2, <1>3, <1>4

\* Depths are consecutive: without a next level every folder is at a level reached.
LEMMA LastLevelIsLast ==
    ASSUME NEW l \in Nat, l + 1 \notin Depths
    PROVE  \A f \in Folders : Depth[f] <= l
<1> DEFINE Over == {e \in Depths : e > l}
<1> SUFFICES ASSUME Over # {} PROVE FALSE
  <2>1. Over = {}
    OBVIOUS
  <2>2. \A f \in Folders : Depth[f] \in Depths /\ Depth[f] \in Nat
    BY Depths1
  <2> QED
    BY <2>1, <2>2
<1>1. Over \subseteq Nat
  BY PlanAssumption DEF Depths
<1>2. IsWellFoundedOn(OpToRel(<, Nat), Nat)
  BY NatLessThanWellFounded
<1>3. PICK d \in Over : \A e \in Over : ~(<<e, d>> \in OpToRel(<, Nat))
  BY <1>1, <1>2, WFMin
<1>4. \A e \in Over : ~(e < d)
  BY <1>1, <1>3 DEF OpToRel
<1>5. PICK f \in Folders : Depth[f] = d
  BY DEF Depths
<1>6. d \in Nat /\ d > l
  BY <1>1
<1>7. CASE Parent[f] = Top
  BY <1>5, <1>6, <1>7, Depths1, FirstLevel
<1>8. CASE Parent[f] # Top
  <2>1. PICK e \in Nat : e = Depth[Parent[f]] /\ e \in Depths /\ e = d - 1
    BY <1>5, <1>8, Depths1
  <2>2. e \notin Over
    BY <1>4, <1>6, <2>1
  <2>3. d = l + 1
    BY <1>6, <2>1, <2>2
  <2> QED
    BY <2>3
<1> QED
  BY <1>7, <1>8

\* The hook knows the destination of the list's runs.
TopKnown ==
    /\ uploading \/ (\E i \in Items : plan[i] # "gone") => idOf[Top] # None
    /\ idOf[Top] # None => LastRun \in RunIds /\ idOf[Top] = <<runs[LastRun].dest, Top>>

\* The folders of a list are all still queued, or none is.
AllOrNone ==
    (\A f \in Folders : plan[f] = "queued") \/ (\A f \in Folders : plan[f] # "queued")

\* A run among the folders works on queued ones; those it has taken have an update,
\* and so has every queued folder once it is among the files.
FolderWorkOf(r) ==
    /\ runs[r].phase = "folders" =>
          /\ \A i \in runs[r].todo : plan[i] = "queued"
          /\ \A w \in runs[r].waiting : plan[w[1]] = "queued"
    /\ runs[r].phase = "folders" /\ ~runs[r].aborted =>
          \A f \in Folders \ runs[r].todo :
              plan[f] = "queued" /\ Depth[f] <= runs[r].level => updates[f] # None
    /\ runs[r].phase = "files" =>
          \A f \in Folders : plan[f] = "queued" => updates[f] # None

Progress ==
    /\ TopKnown /\ AllOrNone
    /\ \A f \in Folders : updates[f] # "queued"
    /\ \A r \in RunIds : FolderWorkOf(r)

\* What a step that neither starts a run nor shows the updates leaves alone.
HookKept ==
    /\ plan' = plan /\ LastRun' = LastRun /\ idOf'[Top] = idOf[Top] /\ (uploading' => uploading)
    /\ \A r \in RunIds : runs'[r].dest = runs[r].dest
    /\ \A i \in Items : /\ updates[i] # None => updates'[i] # None
                        /\ updates'[i] = "queued" => updates[i] = "queued"
    /\ \A p \in Folders : idOf[p] # None => idOf'[p] # None

\* What it does to a run among the folders: a folder taken is sent, if its parent has an
\* id, and one whose request has ended is made; or the next level begins.
SameLevel(r) ==
    /\ runs'[r].level = runs[r].level
    /\ \A i \in runs'[r].todo : i \in runs[r].todo
    /\ \A w \in runs'[r].waiting : w \in runs[r].waiting \/ w[1] \in runs[r].todo
    /\ runs[r].aborted \/ \A i \in runs[r].todo \ runs'[r].todo :
          /\ updates'[i] # None
          /\ idOf[Parent[i]] # None => <<i, idOf[Parent[i]]>> \in runs'[r].waiting
    /\ runs[r].aborted \/ \A w \in runs[r].waiting \ runs'[r].waiting :
          <<w[2][1], w[1]>> \in made' \ made /\ idOf'[w[1]] # None
LevelUp(r) ==
    /\ Through(r)
    /\ runs'[r].level = runs[r].level + 1 /\ runs'[r].waiting = {}
    /\ runs'[r].todo = Queued(Level(runs[r].level + 1))
GoesOn(r) ==
    /\ runs'[r].phase = "done" => runs[r].phase = "done"
    /\ runs'[r].phase = "folders" =>
          /\ runs[r].phase = "folders"
          /\ runs[r].aborted => runs'[r].aborted
          /\ SameLevel(r) \/ LevelUp(r)
TurnsToFiles(r) ==
    runs'[r].phase = "files" =>
        \/ runs[r].phase = "files"
        \/ /\ runs[r].phase = "folders" /\ ~runs[r].aborted /\ Through(r)
           /\ runs[r].level + 1 \notin Depths

Advance == HookKept /\ \A r \in RunIds : GoesOn(r) /\ TurnsToFiles(r)

LEMMA OthersGoOn ==
    ASSUME TypeInv, NEW r \in RunIds, \A q \in RunIds \ {r} : runs'[q] = runs[q]
    PROVE  \A q \in RunIds \ {r} : GoesOn(q) /\ TurnsToFiles(q)
  BY DEF GoesOn, TurnsToFiles, SameLevel

LEMMA TakeAdvance ==
    ASSUME TypeInv, NEW r \in RunIds, NEW i \in Items, Take(r, i)
    PROVE  Advance
<1>0. TypeOK /\ RunsInv
  BY DEF TypeInv
<1>1. Steady(r) /\ LastRun' = LastRun
  BY <1>0, TakeRuns
<1>2. HookKept
  <2>1. \A j \in Items : (updates[j] # None => updates'[j] # None)
                         /\ (updates'[j] = "queued" => updates[j] = "queued")
    <3>1. "failed" # None /\ "uploading" # None
      BY NoneAssumption DEF Statuses
    <3> QED
      BY <1>0, <3>1 DEF Take, Skip, NoParent, Send, TypeOK
  <2> QED
    BY <1>1, <2>1 DEF HookKept, Steady, Only, Take
<1>3. GoesOn(r) /\ TurnsToFiles(r)
  <2>1. CASE Skip(r, i) \/ NoParent(r, i)
    <3>1. /\ Steady(r) /\ runs'[r].todo = runs[r].todo \ {i}
          /\ runs'[r].waiting = runs[r].waiting
      BY <1>0, <2>1, SkipEffect
    <3>2. runs[r].aborted \/ (updates'[i] # None /\ idOf[Parent[i]] = None)
      <4>1. "failed" # None
        BY NoneAssumption DEF Statuses
      <4> QED
        BY <1>0, <2>1, <4>1 DEF Skip, NoParent, TypeOK
    <3> QED
      BY <3>1, <3>2 DEF GoesOn, TurnsToFiles, SameLevel, Steady, Only
  <2>2. CASE Send(r, i)
    <3>1. /\ Steady(r) /\ runs'[r].todo = runs[r].todo \ {i}
          /\ runs'[r].waiting = runs[r].waiting \cup {<<i, idOf[Parent[i]]>>}
      BY <1>0, <2>2, SendEffect
    <3>2. updates'[i] # None
      <4>1. "uploading" # None
        BY NoneAssumption DEF Statuses
      <4> QED
        BY <1>0, <2>2, <4>1 DEF Send, TypeOK
    <3>3. i \in runs[r].todo
      BY DEF Take
    <3> QED
      BY <3>1, <3>2, <3>3 DEF GoesOn, TurnsToFiles, SameLevel, Steady, Only
  <2> QED
    BY <2>1, <2>2 DEF Take
<1> QED
  BY <1>1, <1>2, <1>3, OthersGoOn DEF Advance, Steady, Only

LEMMA EndsAdvance ==
    ASSUME TypeInv, NEW r \in RunIds, NEW i \in Items, NEW id \in Ids,
           Acknowledged(r, i, id) \/ Cut(r, i, id) \/ Failed(r, i, id)
    PROVE  Advance
<1>0. TypeOK /\ RunsInv
  BY DEF TypeInv
<1>1. <<i, id>> \in runs[r].waiting /\ Live(r)
  BY DEF Acknowledged, Cut, Failed
<1>2. /\ Only(r) /\ LastRun' = LastRun /\ runs'[r].level = runs[r].level
      /\ runs'[r].todo = runs[r].todo /\ runs'[r].waiting = runs[r].waiting \ {<<i, id>>}
      /\ IF Failed(r, i, id) /\ i \in Folders THEN runs'[r].phase = "left"
         ELSE runs'[r].phase = runs[r].phase
  <2>1. CASE Failed(r, i, id) /\ i \in Folders
    <3>1. PICK w \in runs[r].waiting : w = <<i, id>>
      BY <1>1
    <3>2. runs[r].workers > 0
      <4>1. runs[r].workers \in Nat \ {0}
        BY <1>0, FewerWaiting
      <4> QED
        BY <4>1
    <3> QED
      BY <1>0, <2>1, <3>2, ThrowEffect, ThrowRuns
  <2>2. CASE ~(Failed(r, i, id) /\ i \in Folders)
    <3>1. Acknowledged(r, i, id) \/ Cut(r, i, id) \/ (Failed(r, i, id) /\ i \in Files)
      BY <2>2 DEF Items
    <3> QED
      BY <1>0, <2>2, <3>1, EndsEffect, EndsRuns DEF Steady
  <2> QED
    BY <2>1, <2>2
<1>3. HookKept
  <2>1. \A j \in Items : (updates[j] # None => updates'[j] # None)
                         /\ (updates'[j] = "queued" => updates[j] = "queued")
    <3>1. "failed" # None /\ "completed" # None /\ "cancelled" # None
      BY NoneAssumption DEF Statuses
    <3> QED
      BY <1>0, <3>1 DEF Acknowledged, Cut, Failed, Ended, TypeOK
  <2>2. idOf'[Top] = idOf[Top] /\ \A p \in Folders : idOf[p] # None => idOf'[p] # None
    <3>1. <<id[1], i>> # None \/ i \notin Folders
      BY NoneAssumption DEF Ids
    <3> QED
      BY <1>0, <3>1, PlanAssumption DEF Acknowledged, Cut, Failed, TypeOK
  <2>3. uploading' => uploading
    BY DEF Acknowledged, Cut, Failed
  <2>4. plan' = plan
    BY DEF Acknowledged, Cut, Failed
  <2> QED
    BY <1>2, <2>1, <2>2, <2>3, <2>4 DEF HookKept, Only
<1>4. GoesOn(r) /\ TurnsToFiles(r)
  <2>1. TurnsToFiles(r)
    BY <1>2 DEF TurnsToFiles
  <2>2. ASSUME runs'[r].phase = "folders", ~runs[r].aborted
        PROVE  <<id[1], i>> \in made' \ made /\ idOf'[i] # None
    <3>1. i \in Folders
      BY <1>1, <1>2, <2>2, PlanAssumption DEF TypeInv, RunsInv, Work, Level
    <3>2. Acknowledged(r, i, id)
      BY <1>2, <2>2, <3>1 DEF Cut
    <3>3. <<id[1], i>> # None
      BY <3>1, NoneAssumption DEF Ids
    <3> QED
      BY <1>0, <3>1, <3>2, <3>3 DEF Acknowledged, Make, Taken, TypeOK
  <2>3. runs'[r].phase = "folders" => runs[r].phase = "folders"
    BY <1>2
  <2>4. runs'[r].phase = "folders" => SameLevel(r)
    BY <1>2, <2>2 DEF SameLevel
  <2> QED
    BY <1>2, <2>1, <2>3, <2>4 DEF GoesOn, Only
<1> QED
  BY <1>2, <1>3, <1>4, OthersGoOn DEF Advance, Only

LEMMA TurnAdvance ==
    ASSUME TypeInv, NEW r \in RunIds, NextLevel(r) \/ StartFiles(r) \/ EndEarly(r)
    PROVE  Advance
<1>0. TypeOK /\ RunsInv
  BY DEF TypeInv
<1>1. Only(r) /\ LastRun' = LastRun
  BY <1>0, NextLevelEffect, StartFilesEffect, StopEffect, TurnRuns, StopRuns
<1>2. HookKept
  BY <1>1 DEF HookKept, Only, NextLevel, StartFiles, EndEarly, Release, hook
<1>3. GoesOn(r) /\ TurnsToFiles(r)
  <2>1. CASE NextLevel(r)
    <3>1. /\ runs'[r].phase = "folders" /\ runs'[r].level = runs[r].level + 1
          /\ runs'[r].todo = Queued(Level(runs[r].level + 1)) /\ runs'[r].waiting = {}
      BY <1>0, <2>1, NextLevelEffect
    <3> QED
      BY <1>1, <2>1, <3>1 DEF GoesOn, TurnsToFiles, LevelUp, Only, NextLevel
  <2>2. CASE StartFiles(r)
    <3>1. runs'[r].phase = "files"
      BY <1>0, <2>2, StartFilesEffect
    <3> QED
      BY <2>2, <3>1 DEF GoesOn, TurnsToFiles, StartFiles, LastLevel
  <2>3. CASE EndEarly(r)
    <3>1. runs'[r].phase = "early"
      BY <1>0, <2>3, StopEffect
    <3> QED
      BY <3>1 DEF GoesOn, TurnsToFiles
  <2> QED
    BY <2>1, <2>2, <2>3
<1> QED
  BY <1>1, <1>2, <1>3, OthersGoOn DEF Advance, Only

LEMMA CancelAdvance ==
    ASSUME TypeInv, cancel \/ UNCHANGED vars
    PROVE  Advance
<1>1. CASE cancel
  <2>1. /\ LastRun' = LastRun /\ LastRun \in RunIds
        /\ \A q \in RunIds \ {LastRun} : runs'[q] = runs[q]
        /\ runs'[LastRun] = [phase |-> runs[LastRun].phase, level |-> runs[LastRun].level,
                          todo |-> runs[LastRun].todo, waiting |-> runs[LastRun].waiting,
                          workers |-> runs[LastRun].workers, aborted |-> TRUE,
                          dest |-> runs[LastRun].dest, first |-> runs[LastRun].first]
    BY <1>1, CancelRuns DEF TypeInv
  <2>2. HookKept
    BY <1>1, <2>1 DEF HookKept, cancel
  <2>3. GoesOn(LastRun) /\ TurnsToFiles(LastRun)
    BY <2>1 DEF GoesOn, TurnsToFiles, SameLevel
  <2> QED
    BY <2>1, <2>2, <2>3, OthersGoOn DEF Advance
<1>2. CASE UNCHANGED vars
  BY <1>2 DEF Advance, HookKept, GoesOn, TurnsToFiles, SameLevel, vars, hook, LastRun
<1> QED
  BY <1>1, <1>2

LEMMA AdvanceProgress ==
    ASSUME TypeInv, Progress, Advance
    PROVE  Progress'
<1>1. TopKnown'
  BY DEF Progress, TopKnown, Advance, HookKept
<1>2. AllOrNone' /\ \A f \in Folders : updates'[f] # "queued"
  BY DEF Progress, AllOrNone, Advance, HookKept, Items
<1>3. ASSUME NEW r \in RunIds PROVE FolderWorkOf(r)'
  <2>0. plan' = plan /\ \A f \in Folders : updates[f] # None => updates'[f] # None
    BY DEF Advance, HookKept, Items
  <2>1. ASSUME runs'[r].phase = "folders"
        PROVE  /\ \A i \in runs'[r].todo : plan[i] = "queued"
               /\ \A w \in runs'[r].waiting : plan[w[1]] = "queued"
    <3>1. runs[r].phase = "folders" /\ (SameLevel(r) \/ LevelUp(r))
      BY <2>1 DEF Advance, GoesOn
    <3>2. CASE SameLevel(r)
      BY <3>1, <3>2 DEF SameLevel, Progress, FolderWorkOf
    <3>3. CASE LevelUp(r)
      BY <3>3 DEF LevelUp, Queued
    <3> QED
      BY <3>1, <3>2, <3>3
  <2>2. ASSUME runs'[r].phase = "folders", ~runs'[r].aborted,
               NEW f \in Folders \ runs'[r].todo, plan[f] = "queued",
               Depth[f] <= runs'[r].level
        PROVE  updates'[f] # None
    <3>1. /\ runs[r].phase = "folders" /\ ~runs[r].aborted
          /\ SameLevel(r) \/ LevelUp(r)
      BY <2>2 DEF Advance, GoesOn
    <3>2. \A g \in Folders \ runs[r].todo :
              plan[g] = "queued" /\ Depth[g] <= runs[r].level => updates[g] # None
      BY <3>1 DEF Progress, FolderWorkOf
    <3>3. CASE SameLevel(r)
      BY <2>0, <2>2, <3>1, <3>2, <3>3 DEF SameLevel
    <3>4. CASE LevelUp(r)
      <4>1. f \notin Queued(Level(runs[r].level + 1)) /\ Depth[f] <= runs[r].level + 1
        BY <2>2, <3>4 DEF LevelUp
      <4>2. Depth[f] # runs[r].level + 1
        BY <2>2, <4>1 DEF Queued, Level
      <4>3. Depth[f] \in Nat /\ runs[r].level \in Nat
        BY PlanAssumption, Depths1 DEF TypeInv, TypeOK, Run, Depths
      <4>4. Depth[f] <= runs[r].level
        BY <4>1, <4>2, <4>3
      <4> QED
        BY <2>0, <2>2, <3>2, <3>4, <4>4 DEF LevelUp, Through
    <3> QED
      BY <3>1, <3>3, <3>4
  <2>3. ASSUME runs'[r].phase = "files", NEW f \in Folders, plan[f] = "queued"
        PROVE  updates'[f] # None
    <3>1. CASE runs[r].phase = "files"
      BY <2>0, <2>3, <3>1 DEF Progress, FolderWorkOf
    <3>2. CASE runs[r].phase # "files"
      <4>1. /\ runs[r].phase = "folders" /\ ~runs[r].aborted /\ Through(r)
            /\ runs[r].level + 1 \notin Depths
        BY <2>3, <3>2 DEF Advance, TurnsToFiles
      <4>2. PICK l \in Nat : l = runs[r].level
        BY PlanAssumption DEF TypeInv, TypeOK, Run, Depths
      <4>3. Depth[f] <= l
        BY <4>1, <4>2, LastLevelIsLast
      <4> QED
        BY <2>0, <2>3, <4>1, <4>2, <4>3 DEF Progress, FolderWorkOf, Through
    <3> QED
      BY <3>1, <3>2
  <2> QED
    BY <2>0, <2>1, <2>2, <2>3 DEF FolderWorkOf
<1> QED
  BY <1>1, <1>2, <1>3 DEF Progress

LEMMA EndFilesProgress ==
    ASSUME TypeInv, Progress, NEW r \in RunIds, EndFiles(r)
    PROVE  Progress'
<1>1. Only(r) /\ runs'[r].phase \in {"early", "done"}
  BY StopEffect DEF TypeInv
<1>2. LastRun' = LastRun /\ r = current
  BY StopRuns DEF TypeInv
<1>3. idOf' = idOf /\ flushUpdates /\ runs[r].phase = "files" /\ uploading
  BY <1>2 DEF EndFiles, TypeInv, RunsInv, Single, RunIds
<1>4. TopKnown'
  BY <1>1, <1>2, <1>3 DEF Progress, TopKnown, Only
<1>5. \A f \in Folders :
         f \in Items /\ updates[f] # "queued" /\ (plan[f] = "queued" => updates[f] # None)
  BY <1>3 DEF Progress, FolderWorkOf, Items
<1>6. \A f \in Folders : plan'[f] # "queued" /\ updates'[f] = None
  BY <1>3, <1>5 DEF flushUpdates
<1>7. None # "queued"
  BY NoneAssumption DEF Statuses
<1>8. \A q \in RunIds : runs'[q].phase \notin {"folders", "files"}
  BY <1>1, <1>2 DEF TypeInv, RunsInv, Single, Only
<1> QED
  BY <1>4, <1>6, <1>7, <1>8 DEF Progress, AllOrNone, FolderWorkOf

LEMMA BegunProgress ==
    ASSUME TypeInv, Progress, ~uploading, NEW n \in RunIds, NEW dest, NEW first,
           \A q \in RunIds \ {n} : runs'[q] = runs[q], runs'[n] = Begun(plan', dest, first)
    PROVE  \A q \in RunIds : FolderWorkOf(q)'
<1>1. \A q \in RunIds \ {n} : runs'[q].phase \notin {"folders", "files"}
  BY DEF TypeInv, RunsInv, Single, RunIds
<1>2. /\ runs'[n].phase = "folders" /\ runs'[n].level = 1 /\ runs'[n].waiting = {}
      /\ runs'[n].todo = {f \in Level(1) : plan'[f] = "queued"}
  BY DEF Begun
<1>3. \A f \in Folders \ runs'[n].todo : plan'[f] = "queued" => ~(Depth[f] <= 1)
  BY <1>2, Depths1 DEF Level
<1>4. FolderWorkOf(n)'
  BY <1>2, <1>3 DEF FolderWorkOf
<1> QED
  BY <1>1, <1>4 DEF FolderWorkOf

LEMMA StartProgress ==
    ASSUME TypeInv, Progress, NEW d \in Dests, start(d)
    PROVE  Progress'
<1>1. PICK n \in RunIds : n = LastRun'
  BY StartRuns DEF TypeInv
<1>2. PICK first : first = LastRun'
  OBVIOUS
<1>3. (\A q \in RunIds \ {n} : runs'[q] = runs[q]) /\ runs'[n] = Begun(plan', d, first)
  BY <1>1, <1>2, StartRuns DEF TypeInv
<1>4. \A q \in RunIds : FolderWorkOf(q)'
  BY <1>3, BegunProgress DEF start
<1>5. TopKnown'
  <2>1. idOf'[Top] = <<d, Top>> /\ runs'[n].dest = d
    BY <1>3 DEF start, Begun
  <2>2. <<d, Top>> # None
    BY NoneAssumption DEF Ids
  <2> QED
    BY <1>1, <2>1, <2>2 DEF TopKnown
<1>6. \A f \in Folders : plan'[f] = "queued" /\ updates'[f] # "queued"
  BY DEF start, Items, Progress
<1> QED
  BY <1>4, <1>5, <1>6 DEF Progress, AllOrNone

LEMMA RetryProgress ==
    ASSUME TypeInv, Progress, retryFailed
    PROVE  Progress'
<1>1. PICK n \in RunIds, m \in RunIds : n = LastRun' /\ m = LastRun
  BY RetryRuns DEF TypeInv
<1>2. PICK dest, first : dest = runs[LastRun].dest /\ first = runs[LastRun].first
  OBVIOUS
<1>3. (\A q \in RunIds \ {n} : runs'[q] = runs[q]) /\ runs'[n] = Begun(plan', dest, first)
  BY <1>1, <1>2, RetryRuns DEF TypeInv
<1>4. \A q \in RunIds : FolderWorkOf(q)'
  BY <1>3, BegunProgress DEF retryFailed
<1>5. idOf' = idOf /\ idOf[Top] # None /\ idOf[Top] = <<dest, Top>>
  BY <1>2 DEF retryFailed, isRetryable, Progress, TopKnown
<1>6. TopKnown'
  <2>1. runs'[n].dest = dest
    BY <1>3 DEF Begun
  <2> QED
    BY <1>1, <1>5, <2>1 DEF TopKnown
<1>7. \A f \in Folders : plan'[f] = plan[f] /\ updates'[f] = updates[f]
  BY PlanAssumption DEF retryFailed, Items
<1> QED
  BY <1>4, <1>6, <1>7 DEF Progress, AllOrNone

LEMMA ClearProgress ==
    ASSUME TypeInv, Progress, clear
    PROVE  Progress'
<1>1. idOf'[Top] = None /\ runs' = runs /\ updates' = updates /\ uploading' = uploading
  BY DEF clear
<1>2. \A i \in Items : plan'[i] = "gone"
  BY DEF clear
<1>3. \A q \in RunIds : runs[q].phase \notin {"folders", "files"}
  BY DEF clear, TypeInv, RunsInv, Single, RunIds
<1>4. TopKnown'
  BY <1>1, <1>2 DEF TopKnown, clear
<1>5. AllOrNone'
  BY <1>2 DEF AllOrNone, Items
<1> QED
  BY <1>1, <1>3, <1>4, <1>5 DEF Progress, FolderWorkOf

\* The steps of a run that is on, or left over.
LEMMA StepKinds ==
    ASSUME TypeInv, [Next]_vars
    PROVE  \/ Advance
           \/ \E r \in RunIds : EndFiles(r)
           \/ \E d \in Dests : start(d)
           \/ retryFailed \/ clear
  BY TakeAdvance, EndsAdvance, TurnAdvance, CancelAdvance DEF Next, Micro, Answer, User

LEMMA ProgressStep ==
    ASSUME TypeInv, Progress, [Next]_vars
    PROVE  Progress'
  BY StepKinds, AdvanceProgress, EndFilesProgress, StartProgress, RetryProgress, ClearProgress

LEMMA ProgressInit == Init => Progress
<1> SUFFICES ASSUME Init PROVE Progress
  OBVIOUS
<1>1. \A r \in RunIds : runs[r].phase = "off"
  BY DEF Init, NoRun
<1>2. None # "queued"
  BY NoneAssumption DEF Statuses
<1>3. TopKnown
  BY DEF Init, TopKnown
<1>4. AllOrNone
  BY DEF Init, AllOrNone, Items
<1>5. \A f \in Folders : updates[f] # "queued"
  BY <1>2 DEF Init, Items
<1> QED
  BY <1>1, <1>3, <1>4, <1>5 DEF Progress, FolderWorkOf
-----------------------------------------------------------------------------
(***************************************************************************)
(* Parents come first.                                                     *)
(***************************************************************************)
\* A run that has thrown stays so.
LeftStays(r) ==
    runs[r].phase = "left" =>
        /\ runs'[r].phase = "left" /\ runs'[r].level = runs[r].level
        /\ runs'[r].dest = runs[r].dest

LEMMA LeftOverStays ==
    ASSUME TypeInv, [Next]_vars
    PROVE  \A r \in RunIds : LeftStays(r)
<1>0. TypeOK /\ RunsInv
  BY DEF TypeInv
<1>1. ASSUME NEW n \in RunIds, \A q \in RunIds \ {n} : runs'[q] = runs[q],
             runs[n].phase # "left"
      PROVE  \A r \in RunIds : LeftStays(r)
  BY <1>1 DEF LeftStays
<1>2. ASSUME NEW n \in RunIds, Steady(n) PROVE \A r \in RunIds : LeftStays(r)
  BY <1>2 DEF LeftStays, Steady, Only
<1>3. ASSUME NEW r \in RunIds, NEW i \in Items, Take(r, i)
      PROVE  \A q \in RunIds : LeftStays(q)
  BY <1>0, <1>2, <1>3, TakeRuns
<1>4. ASSUME NEW r \in RunIds, NEW i \in Items, NEW id \in Ids,
             Acknowledged(r, i, id) \/ Cut(r, i, id) \/ (Failed(r, i, id) /\ i \in Files)
      PROVE  \A q \in RunIds : LeftStays(q)
  BY <1>0, <1>2, <1>4, EndsRuns
<1>5. ASSUME NEW r \in RunIds, NEW i \in Folders, NEW id \in Ids, Failed(r, i, id)
      PROVE  \A q \in RunIds : LeftStays(q)
  <2>1. PICK w \in runs[r].waiting : w = <<i, id>>
    BY <1>5 DEF Failed
  <2>2. runs[r].workers > 0
    <3>1. runs[r].workers \in Nat \ {0}
      BY <1>0, FewerWaiting
    <3> QED
      BY <3>1
  <2>3. Only(r) /\ runs'[r].phase = "left" /\ runs'[r].level = runs[r].level
    BY <1>0, <1>5, <2>2, ThrowEffect
  <2> QED
    BY <2>3 DEF LeftStays, Only
<1>6. ASSUME NEW r \in RunIds, NextLevel(r) \/ StartFiles(r) \/ EndEarly(r) \/ EndFiles(r)
      PROVE  \A q \in RunIds : LeftStays(q)
  <2>1. runs[r].phase # "left"
    BY <1>6 DEF NextLevel, StartFiles, EndEarly, EndFiles, LastLevel
  <2>2. Only(r)
    BY <1>0, <1>6, NextLevelEffect, StartFilesEffect, StopEffect
  <2> QED
    BY <1>1, <2>1, <2>2 DEF Only
<1>7. ASSUME (\E d \in Dests : start(d)) \/ retryFailed PROVE \A q \in RunIds : LeftStays(q)
  <2>1. PICK n \in RunIds : n = LastRun + 1 /\ \A q \in RunIds \ {n} : runs'[q] = runs[q]
    <3>1. CASE retryFailed
      <4>1. PICK n \in RunIds : n = LastRun'
        BY <1>0, <3>1, RetryRuns
      <4> QED
        BY <1>0, <3>1, <4>1, RetryRuns
    <3>2. ASSUME NEW d \in Dests, start(d)
          PROVE  \E n \in RunIds : n = LastRun + 1 /\ \A q \in RunIds \ {n} : runs'[q] = runs[q]
      <4>1. PICK n \in RunIds : n = LastRun'
        BY <1>0, <3>2, StartRuns
      <4> QED
        BY <1>0, <3>2, <4>1, StartRuns
    <3> QED
      BY <1>7, <3>1, <3>2
  <2>2. runs[n].phase = "off"
    BY <1>0, <2>1 DEF RunsInv, Numbered, RunIds
  <2> QED
    BY <1>1, <2>1, <2>2
<1>8. CASE cancel
  <2>1. PICK n \in RunIds : n = LastRun
    BY <1>0, <1>8, CancelRuns
  <2>2. (\A q \in RunIds \ {n} : runs'[q] = runs[q])
        /\ runs'[n].phase = runs[n].phase /\ runs'[n].level = runs[n].level
        /\ runs'[n].dest = runs[n].dest
    BY <1>0, <1>8, <2>1, CancelRuns
  <2> QED
    BY <2>2 DEF LeftStays
<1>9. CASE clear \/ UNCHANGED vars
  BY <1>9 DEF clear, vars, LeftStays
<1> QED
  BY <1>3, <1>4, <1>5, <1>6, <1>7, <1>8, <1>9 DEF Next, Micro, Answer, User, Items

\* As long as no run has thrown, a folder has an id once its request is over: before the
\* next level is begun, all its folders' parents have one.
Named ==
    ~Threw =>
        /\ idOf[Top] # None => \A f \in Folders : plan[f] # "queued" => idOf[f] # None
        /\ \A r \in RunIds : runs[r].phase = "folders" /\ ~runs[r].aborted =>
              \A f \in Folders \ runs[r].todo :
                  plan[f] = "queued" /\ Depth[f] <= runs[r].level
                      /\ (\A w \in runs[r].waiting : w[1] # f) => idOf[f] # None
        /\ \A r \in RunIds : runs[r].phase = "files" => \A f \in Folders : idOf[f] # None

LEMMA ParentKnown ==
    ASSUME TypeInv, Progress, Named, ~Threw, NEW r \in RunIds, Live(r), ~runs[r].aborted,
           NEW i \in runs[r].todo
    PROVE  idOf[Parent[i]] # None
<1>1. runs[r].phase \in {"folders", "files"} /\ uploading
  BY DEF Live, Threw, TypeInv, RunsInv, Single, RunIds
<1>2. CASE runs[r].phase = "files"
  BY <1>2, FilesInFolders DEF Named, TypeInv, RunsInv, Work
<1>3. CASE runs[r].phase = "folders"
  <2>1. i \in Folders /\ Depth[i] = runs[r].level /\ plan[i] = "queued"
    BY <1>3 DEF TypeInv, RunsInv, Work, Level, Progress, FolderWorkOf
  <2>2. CASE Parent[i] = Top
    BY <1>1, <2>2 DEF Progress, TopKnown
  <2>3. CASE Parent[i] # Top
    <3>1. /\ Parent[i] \in Folders /\ Depth[Parent[i]] = Depth[i] - 1
          /\ Depth[i] \in Nat
      BY <2>1, <2>3, Depths1
    <3>2. Depth[Parent[i]] <= runs[r].level /\ Depth[Parent[i]] # runs[r].level
      BY <2>1, <3>1
    <3>3. Parent[i] \notin runs[r].todo /\ \A w \in runs[r].waiting : w[1] # Parent[i]
      BY <1>3, <3>2 DEF TypeInv, RunsInv, Work, Level
    <3>4. plan[Parent[i]] = "queued"
      BY <2>1, <3>1 DEF Progress, AllOrNone
    <3> QED
      BY <1>3, <3>1, <3>2, <3>3, <3>4 DEF Named
  <2> QED
    BY <2>2, <2>3
<1> QED
  BY <1>1, <1>2, <1>3

LEMMA AdvanceNamed ==
    ASSUME TypeInv, Progress, Named, Advance, ~Threw
    PROVE  Named'
<1>0. /\ plan' = plan /\ idOf'[Top] = idOf[Top]
      /\ \A p \in Folders : idOf[p] # None => idOf'[p] # None
  BY DEF Advance, HookKept
<1>1. idOf'[Top] # None => \A f \in Folders : plan'[f] # "queued" => idOf'[f] # None
  BY <1>0 DEF Named
<1>2. ASSUME NEW r \in RunIds, runs'[r].phase = "folders", ~runs'[r].aborted,
             NEW f \in Folders \ runs'[r].todo, plan'[f] = "queued",
             Depth[f] <= runs'[r].level, \A w \in runs'[r].waiting : w[1] # f
      PROVE  idOf'[f] # None
  <2>1. /\ runs[r].phase = "folders" /\ ~runs[r].aborted
        /\ SameLevel(r) \/ LevelUp(r)
    BY <1>2 DEF Advance, GoesOn
  <2>2. \A g \in Folders \ runs[r].todo :
           plan[g] = "queued" /\ Depth[g] <= runs[r].level
               /\ (\A w \in runs[r].waiting : w[1] # g) => idOf[g] # None
    BY <2>1 DEF Named
  <2>3. CASE SameLevel(r)
    <3>1. f \notin runs[r].todo
      <4> SUFFICES ASSUME f \in runs[r].todo PROVE FALSE
        OBVIOUS
      <4>1. idOf[Parent[f]] # None
        BY <2>1, ParentKnown DEF Live
      <4>2. <<f, idOf[Parent[f]]>> \in runs'[r].waiting
        BY <1>2, <2>1, <2>3, <4>1 DEF SameLevel
      <4> QED
        BY <1>2, <4>2
    <3>2. CASE \A w \in runs[r].waiting : w[1] # f
      <4>1. Depth[f] <= runs[r].level
        BY <1>2, <2>3 DEF SameLevel
      <4> QED
        BY <1>0, <1>2, <2>2, <3>1, <3>2, <4>1
    <3>3. ASSUME NEW w \in runs[r].waiting, w[1] = f PROVE idOf'[f] # None
      BY <1>2, <2>1, <2>3, <3>3 DEF SameLevel
    <3> QED
      BY <3>2, <3>3
  <2>4. CASE LevelUp(r)
    <3>1. f \notin Queued(Level(runs[r].level + 1)) /\ Depth[f] <= runs[r].level + 1
      BY <1>2, <2>4 DEF LevelUp
    <3>2. Depth[f] # runs[r].level + 1
      BY <1>0, <1>2, <3>1 DEF Queued, Level
    <3>3. Depth[f] \in Nat /\ runs[r].level \in Nat
      BY PlanAssumption, Depths1 DEF TypeInv, TypeOK, Run, Depths
    <3>4. Depth[f] <= runs[r].level
      BY <3>1, <3>2, <3>3
    <3> QED
      BY <1>0, <1>2, <2>2, <2>4, <3>4 DEF LevelUp, Through
  <2> QED
    BY <2>1, <2>3, <2>4
<1>3. ASSUME NEW r \in RunIds, runs'[r].phase = "files", NEW f \in Folders
      PROVE  idOf'[f] # None
  <2>1. CASE runs[r].phase = "files"
    BY <1>0, <2>1 DEF Named
  <2>2. CASE runs[r].phase # "files"
    <3>1. /\ runs[r].phase = "folders" /\ ~runs[r].aborted /\ Through(r)
          /\ runs[r].level + 1 \notin Depths
      BY <1>3, <2>2 DEF Advance, TurnsToFiles
    <3>2. PICK l \in Nat : l = runs[r].level
      BY PlanAssumption DEF TypeInv, TypeOK, Run, Depths
    <3>3. Depth[f] <= l
      BY <3>1, <3>2, LastLevelIsLast
    <3>4. idOf[Top] # None
      BY <3>1 DEF Progress, TopKnown, TypeInv, RunsInv, Single, RunIds
    <3>5. idOf[f] # None
      BY <3>1, <3>2, <3>3, <3>4 DEF Named, Through
    <3> QED
      BY <1>0, <3>5
  <2> QED
    BY <2>1, <2>2
<1> QED
  BY <1>1, <1>2, <1>3 DEF Named

LEMMA NamedStep ==
    ASSUME TypeInv, Progress, Named, [Next]_vars
    PROVE  Named'
<1>1. Threw => Threw'
  BY LeftOverStays DEF Threw, LeftStays
<1> SUFFICES ASSUME ~Threw PROVE Named'
  BY <1>1 DEF Named
<1>2. CASE Advance
  BY <1>2, AdvanceNamed
<1>3. ASSUME NEW r \in RunIds, EndFiles(r) PROVE Named'
  <2>1. Only(r) /\ runs'[r].phase \in {"early", "done"} /\ r = current
    BY <1>3, StopEffect, StopRuns DEF TypeInv
  <2>2. \A q \in RunIds : runs'[q].phase \notin {"folders", "files"}
    BY <2>1 DEF TypeInv, RunsInv, Single, Only
  <2>3. idOf' = idOf /\ \A f \in Folders : idOf[f] # None
    BY <1>3 DEF EndFiles, Named
  <2> QED
    BY <2>2, <2>3 DEF Named
<1>4. ASSUME NEW n \in RunIds, NEW dest, NEW first, ~uploading,
             \A q \in RunIds \ {n} : runs'[q] = runs[q], runs'[n] = Begun(plan', dest, first)
      PROVE  \A r \in RunIds :
                /\ runs'[r].phase = "folders" /\ ~runs'[r].aborted =>
                      \A f \in Folders \ runs'[r].todo :
                          ~(plan'[f] = "queued" /\ Depth[f] <= runs'[r].level)
                /\ runs'[r].phase # "files"
  <2>1. \A q \in RunIds \ {n} : runs'[q].phase \notin {"folders", "files"}
    BY <1>4 DEF TypeInv, RunsInv, Single, RunIds
  <2>2. /\ runs'[n].phase = "folders" /\ runs'[n].level = 1
        /\ runs'[n].todo = {f \in Level(1) : plan'[f] = "queued"}
    BY <1>4 DEF Begun
  <2>3. \A f \in Folders \ runs'[n].todo : plan'[f] = "queued" => ~(Depth[f] <= 1)
    BY <2>2, Depths1 DEF Level
  <2> QED
    BY <2>1, <2>2, <2>3
<1>5. ASSUME NEW d \in Dests, start(d) PROVE Named'
  <2>1. PICK n \in RunIds : n = LastRun'
    BY <1>5, StartRuns DEF TypeInv
  <2>2. PICK first : first = LastRun'
    OBVIOUS
  <2>3. (\A q \in RunIds \ {n} : runs'[q] = runs[q]) /\ runs'[n] = Begun(plan', d, first)
    BY <1>5, <2>1, <2>2, StartRuns DEF TypeInv
  <2>4. \A r \in RunIds :
           /\ runs'[r].phase = "folders" /\ ~runs'[r].aborted =>
                 \A f \in Folders \ runs'[r].todo :
                     ~(plan'[f] = "queued" /\ Depth[f] <= runs'[r].level)
           /\ runs'[r].phase # "files"
    BY <1>4, <1>5, <2>3 DEF start
  <2>5. \A f \in Folders : plan'[f] = "queued"
    BY <1>5 DEF start, Items
  <2> QED
    BY <2>4, <2>5 DEF Named
<1>6. CASE retryFailed
  <2>1. PICK n \in RunIds : n = LastRun'
    BY <1>6, RetryRuns DEF TypeInv
  <2>2. PICK dest, first : dest = runs[LastRun].dest /\ first = runs[LastRun].first
    OBVIOUS
  <2>3. (\A q \in RunIds \ {n} : runs'[q] = runs[q]) /\ runs'[n] = Begun(plan', dest, first)
    BY <1>6, <2>1, <2>2, RetryRuns DEF TypeInv
  <2>4. \A r \in RunIds :
           /\ runs'[r].phase = "folders" /\ ~runs'[r].aborted =>
                 \A f \in Folders \ runs'[r].todo :
                     ~(plan'[f] = "queued" /\ Depth[f] <= runs'[r].level)
           /\ runs'[r].phase # "files"
    BY <1>4, <1>6, <2>3 DEF retryFailed
  <2>5. idOf' = idOf /\ \A f \in Folders : plan'[f] = plan[f]
    BY <1>6, PlanAssumption DEF retryFailed, Items
  <2> QED
    BY <2>4, <2>5 DEF Named
<1>7. CASE clear
  <2>1. idOf'[Top] = None /\ runs' = runs
    BY <1>7 DEF clear
  <2>2. \A q \in RunIds : runs[q].phase \notin {"folders", "files"}
    BY <1>7 DEF clear, TypeInv, RunsInv, Single, RunIds
  <2> QED
    BY <2>1, <2>2 DEF Named
<1> QED
  BY <1>2, <1>3, <1>5, <1>6, <1>7, StepKinds

NameInv == TypeInv /\ Progress /\ Named

LEMMA NameInit == Init => NameInv
<1> SUFFICES ASSUME Init PROVE NameInv
  OBVIOUS
<1>1. \A r \in RunIds : runs[r].phase = "off"
  BY DEF Init, NoRun
<1>2. Named
  BY <1>1 DEF Named, Init
<1> QED
  BY <1>2, TypeInit, ProgressInit DEF NameInv

LEMMA NameStep == NameInv /\ [Next]_vars => NameInv'
  BY TypeStep, ProgressStep, NamedStep DEF NameInv

\* An item fails without a request only for want of its folder's id.
LEMMA FailsWithoutRequest ==
    ASSUME TypeInv, [Next]_vars, failed' > failed,
           \A r \in RunIds : runs'[r].waiting = runs[r].waiting
    PROVE  \E r \in RunIds, i \in Items : Take(r, i) /\ NoParent(r, i)
<1>0. failed \in Nat
  BY DEF TypeInv, TypeOK
<1>1. ASSUME NEW r \in RunIds, NEW i \in Items, Take(r, i)
      PROVE  NoParent(r, i)
  BY <1>0, <1>1 DEF Take, Skip, Send
<1>2. ASSUME NEW r \in RunIds, NEW i \in Items, NEW id \in Ids,
             Failed(r, i, id)
      PROVE  FALSE
  <2>1. PICK w \in runs[r].waiting : w = <<i, id>>
    BY <1>2 DEF Failed
  <2>2. runs[r].workers > 0
    <3>1. runs[r].workers \in Nat \ {0}
      BY FewerWaiting DEF TypeInv
    <3> QED
      BY <3>1
  <2>3. runs'[r].waiting = runs[r].waiting \ {<<i, id>>}
    <3>1. CASE i \in Files
      BY <1>2, <3>1, EndsEffect DEF TypeInv
    <3>2. CASE i \in Folders
      BY <1>2, <2>2, <3>2, ThrowEffect DEF TypeInv
    <3> QED
      BY <3>1, <3>2 DEF Items
  <2> QED
    BY <2>1, <2>3
<1>3. ASSUME NEW r \in RunIds, NEW i \in Items, NEW id \in Ids,
             Acknowledged(r, i, id) \/ Cut(r, i, id)
      PROVE  FALSE
  BY <1>0, <1>3 DEF Acknowledged, Cut
<1>4. ASSUME NEW r \in RunIds, NextLevel(r) \/ StartFiles(r) \/ EndEarly(r) \/ EndFiles(r)
      PROVE  FALSE
  BY <1>0, <1>4 DEF NextLevel, StartFiles, EndEarly, EndFiles, hook, counters
<1>5. CASE User
  BY <1>0, <1>5 DEF User, start, retryFailed, cancel, clear, counters
<1>6. CASE UNCHANGED vars
  BY <1>0, <1>6 DEF vars, hook, counters
<1> QED
  BY <1>1, <1>2, <1>3, <1>4, <1>5, <1>6 DEF Next, Micro, Answer

\* Folders are created parents first: without an error no item ever lacks the id of its
\* folder, and the list fails only by what the server answers.
THEOREM ParentsAlwaysFirst == Spec => ParentsComeFirst
<1> DEFINE P == failed' > failed /\ (\A r \in RunIds : runs'[r].waiting = runs[r].waiting)
                    => Threw
<1>1. NameInv /\ [Next]_vars => [P]_vars
  <2> SUFFICES ASSUME NameInv, [Next]_vars, failed' > failed,
                      \A r \in RunIds : runs'[r].waiting = runs[r].waiting, ~Threw
               PROVE  FALSE
    OBVIOUS
  <2>1. PICK r \in RunIds, i \in Items : Take(r, i) /\ NoParent(r, i)
    BY FailsWithoutRequest DEF NameInv
  <2>2. Live(r) /\ i \in runs[r].todo /\ ~runs[r].aborted /\ idOf[Parent[i]] = None
    BY <2>1 DEF Take, NoParent
  <2> QED
    BY <2>2, ParentKnown DEF NameInv
<1>2. Spec => [][P]_vars
  BY <1>1, NameInit, NameStep, PTL DEF Spec
<1> QED
  BY <1>2 DEF ParentsComeFirst
-----------------------------------------------------------------------------
(***************************************************************************)
(* Where files land.                                                       *)
(***************************************************************************)
\* A folder of the directory's top is on the server in destination d.
Blocked(d) == \E x \in Level(1) : <<d, x>> \in made

\* The top folders go to the run's destination; past the first level all those that
\* were queued are there.
Reached(r) ==
    runs[r].phase = "folders" =>
        /\ \A w \in runs[r].waiting : Parent[w[1]] = Top => w[2] = <<runs[r].dest, Top>>
        /\ ~runs[r].aborted => \A x \in Level(1) :
              plan[x] = "queued" /\ <<runs[r].dest, x>> \notin made =>
                  /\ runs[r].level = 1
                  /\ x \in runs[r].todo \/ <<x, <<runs[r].dest, Top>>>> \in runs[r].waiting

\* A run left over before its destination had any of the directory's folders takes no
\* item more: all its free workers have thrown.
LeftIdle(r) ==
    runs[r].phase = "left" /\ ~Blocked(runs[r].dest) =>
        /\ runs[r].level = 1
        /\ \A w \in runs[r].waiting : w[2] = <<runs[r].dest, Top>>
        /\ runs[r].todo = {} \/ Cardinality(runs[r].waiting) >= runs[r].workers

SameDest == \A r \in RunIds : runs[r].phase = "left" => runs[r].dest = runs[LastRun].dest

\* The list will not get to its files: a top folder it has still to create is there.
DoomedBy(x) ==
    /\ plan[x] = "queued" /\ <<runs[LastRun].dest, x>> \in made
    /\ runs[LastRun].phase \notin {"files", "done"}
    /\ runs[LastRun].phase = "folders" /\ ~runs[LastRun].aborted =>
          /\ runs[LastRun].level = 1
          /\ x \in runs[LastRun].todo
             \/ <<x, <<runs[LastRun].dest, Top>>>> \in runs[LastRun].waiting
Doomed == \E x \in Level(1) : DoomedBy(x)

\* The ids known and used are all of the last destination.
InDest ==
    /\ \A p \in Folders \cup {Top} : idOf[p] # None => idOf[p][1] = runs[LastRun].dest
    /\ \A r \in RunIds : \A w \in runs[r].waiting : w[2][1] = runs[LastRun].dest

Aimed == idOf[Top] # None /\ SameDest /\ ~Doomed => InDest

LandInv ==
    /\ \A r \in RunIds : Reached(r) /\ LeftIdle(r)
    /\ Aimed /\ LandsWhereAsked

LEMMA TopFolder ==
    \A x \in Level(1) : x \in Folders /\ x \in Items /\ Parent[x] = Top
  BY Depths1 DEF Level, Items

LEMMA DestStays ==
    ASSUME TypeInv, [Next]_vars
    PROVE  \A r \in RunIds : runs[r].phase # "off" => runs'[r].dest = runs[r].dest
<1>1. CASE Advance
  BY <1>1 DEF Advance, HookKept
<1>2. ASSUME NEW r \in RunIds, EndFiles(r)
      PROVE  \A q \in RunIds : runs[q].phase # "off" => runs'[q].dest = runs[q].dest
  BY <1>2, StopEffect DEF TypeInv, Only
<1>3. ASSUME NEW n \in RunIds, n = LastRun', LastRun' = LastRun + 1,
             \A q \in RunIds \ {n} : runs'[q] = runs[q]
      PROVE  \A q \in RunIds : runs[q].phase # "off" => runs'[q].dest = runs[q].dest
  <2>1. runs[n].phase = "off"
    BY <1>3 DEF TypeInv, RunsInv, Numbered, RunIds
  <2> QED
    BY <1>3, <2>1
<1>4. ASSUME NEW d \in Dests, start(d)
      PROVE  \A q \in RunIds : runs[q].phase # "off" => runs'[q].dest = runs[q].dest
  <2>1. PICK n \in RunIds : n = LastRun'
    BY <1>4, StartRuns DEF TypeInv
  <2>2. LastRun' = LastRun + 1 /\ \A q \in RunIds \ {n} : runs'[q] = runs[q]
    BY <1>4, <2>1, StartRuns DEF TypeInv
  <2> QED
    BY <1>3, <2>1, <2>2
<1>5. ASSUME retryFailed
      PROVE  \A q \in RunIds : runs[q].phase # "off" => runs'[q].dest = runs[q].dest
  <2>1. PICK n \in RunIds : n = LastRun'
    BY <1>5, RetryRuns DEF TypeInv
  <2>2. LastRun' = LastRun + 1 /\ \A q \in RunIds \ {n} : runs'[q] = runs[q]
    BY <1>5, <2>1, RetryRuns DEF TypeInv
  <2> QED
    BY <1>3, <2>1, <2>2
<1>6. CASE clear
  BY <1>6 DEF clear
<1> QED
  BY <1>1, <1>2, <1>4, <1>5, <1>6, StepKinds

LEMMA ReachedAdvance ==
    ASSUME TypeInv, Progress, Advance, Traffic, NEW r \in RunIds, Reached(r)
    PROVE  Reached(r)'
<1>0. /\ plan' = plan /\ LastRun' = LastRun /\ runs'[r].dest = runs[r].dest /\ made \subseteq made'
  BY DEF Advance, HookKept, Traffic
<1> SUFFICES ASSUME runs'[r].phase = "folders" PROVE Reached(r)'
  BY DEF Reached
<1>1. /\ runs[r].phase = "folders" /\ (runs[r].aborted => runs'[r].aborted)
      /\ SameLevel(r) \/ LevelUp(r)
  BY DEF Advance, GoesOn
<1>2. idOf[Top] = <<runs[r].dest, Top>> /\ idOf[Top] # None
  BY <1>1 DEF Progress, TopKnown, TypeInv, RunsInv, Single, RunIds
<1>3. ASSUME NEW w \in runs'[r].waiting, Parent[w[1]] = Top
      PROVE  w[2] = <<runs[r].dest, Top>>
  <2>1. CASE w \in runs[r].waiting
    BY <1>1, <1>3, <2>1 DEF Reached
  <2>2. CASE w \notin runs[r].waiting
    BY <1>2, <1>3, <2>2 DEF Traffic, NewRequests
  <2> QED
    BY <2>1, <2>2
<1>4. ASSUME ~runs'[r].aborted, NEW x \in Level(1), plan[x] = "queued",
             <<runs[r].dest, x>> \notin made'
      PROVE  /\ runs'[r].level = 1
             /\ x \in runs'[r].todo \/ <<x, <<runs[r].dest, Top>>>> \in runs'[r].waiting
  <2>1. ~runs[r].aborted /\ <<runs[r].dest, x>> \notin made
    BY <1>0, <1>1, <1>4
  <2>2. /\ runs[r].level = 1
        /\ x \in runs[r].todo \/ <<x, <<runs[r].dest, Top>>>> \in runs[r].waiting
    BY <1>1, <1>4, <2>1 DEF Reached
  <2>3. SameLevel(r)
    BY <1>1, <2>2 DEF LevelUp, Through
  <2>4. CASE x \in runs[r].todo
    <3>1. x \in runs'[r].todo \/ <<x, idOf[Parent[x]]>> \in runs'[r].waiting
      BY <1>2, <2>1, <2>3, <2>4, TopFolder DEF SameLevel
    <3> QED
      BY <1>2, <2>2, <2>3, <3>1, TopFolder DEF SameLevel
  <2>5. CASE <<x, <<runs[r].dest, Top>>>> \in runs[r].waiting
    <3>1. PICK w \in runs[r].waiting : w = <<x, <<runs[r].dest, Top>>>>
      BY <2>5
    <3>2. w \notin runs'[r].waiting => <<w[2][1], w[1]>> \in made'
      BY <2>1, <2>3 DEF SameLevel
    <3>3. w \in runs'[r].waiting
      BY <1>4, <3>1, <3>2
    <3> QED
      BY <2>2, <2>3, <3>1, <3>3 DEF SameLevel
  <2> QED
    BY <2>2, <2>4, <2>5
<1> QED
  BY <1>0, <1>3, <1>4 DEF Reached

LEMMA ReachedBegun ==
    ASSUME TypeInv, ~uploading, NEW n \in RunIds, NEW dest, NEW first,
           \A q \in RunIds \ {n} : runs'[q] = runs[q], runs'[n] = Begun(plan', dest, first)
    PROVE  \A r \in RunIds : Reached(r)'
<1>1. \A q \in RunIds \ {n} : runs'[q].phase # "folders"
  BY DEF TypeInv, RunsInv, Single, RunIds
<1>2. /\ runs'[n].level = 1 /\ runs'[n].waiting = {}
      /\ runs'[n].todo = {f \in Level(1) : plan'[f] = "queued"}
  BY DEF Begun
<1>3. Reached(n)'
  BY <1>2 DEF Reached
<1> QED
  BY <1>1, <1>3 DEF Reached

LEMMA ReachedStep ==
    ASSUME TypeInv, Progress, \A r \in RunIds : Reached(r), [Next]_vars
    PROVE  \A r \in RunIds : Reached(r)'
<1>1. CASE Advance
  BY <1>1, TrafficStep, ReachedAdvance
<1>2. ASSUME NEW n \in RunIds, EndFiles(n) PROVE \A r \in RunIds : Reached(r)'
  <2>1. Only(n) /\ runs'[n].phase \in {"early", "done"} /\ n = current
    BY <1>2, StopEffect, StopRuns DEF TypeInv
  <2>2. \A q \in RunIds : runs'[q].phase # "folders"
    BY <2>1 DEF TypeInv, RunsInv, Single, Only
  <2> QED
    BY <2>2 DEF Reached
<1>3. ASSUME NEW d \in Dests, start(d) PROVE \A r \in RunIds : Reached(r)'
  <2>1. PICK n \in RunIds : n = LastRun'
    BY <1>3, StartRuns DEF TypeInv
  <2>2. PICK first : first = LastRun'
    OBVIOUS
  <2>3. (\A q \in RunIds \ {n} : runs'[q] = runs[q]) /\ runs'[n] = Begun(plan', d, first)
    BY <1>3, <2>1, <2>2, StartRuns DEF TypeInv
  <2> QED
    BY <1>3, <2>3, ReachedBegun DEF start
<1>4. CASE retryFailed
  <2>1. PICK n \in RunIds : n = LastRun'
    BY <1>4, RetryRuns DEF TypeInv
  <2>2. PICK dest, first : dest = runs[LastRun].dest /\ first = runs[LastRun].first
    OBVIOUS
  <2>3. (\A q \in RunIds \ {n} : runs'[q] = runs[q]) /\ runs'[n] = Begun(plan', dest, first)
    BY <1>4, <2>1, <2>2, RetryRuns DEF TypeInv
  <2> QED
    BY <1>4, <2>3, ReachedBegun DEF retryFailed
<1>5. CASE clear
  <2>1. \A q \in RunIds : runs'[q].phase # "folders"
    BY <1>5 DEF clear, TypeInv, RunsInv, Single, RunIds
  <2> QED
    BY <2>1 DEF Reached
<1> QED
  BY <1>1, <1>2, <1>3, <1>4, <1>5, StepKinds

LEMMA LeftIdleSame ==
    ASSUME NEW r \in RunIds, LeftIdle(r), made \subseteq made',
           runs'[r] = runs[r] \/ runs'[r].phase # "left"
    PROVE  LeftIdle(r)'
  BY DEF LeftIdle, Blocked

\* A folder of a run left over, or of the run that now throws, has failed.
LEMMA LeftIdleThrow ==
    ASSUME TypeInv, Progress, NEW r \in RunIds, Reached(r), LeftIdle(r), Quiet,
           NEW i \in Folders, NEW id \in Ids, Failed(r, i, id), made \subseteq made'
    PROVE  LeftIdle(r)' /\ \A q \in RunIds \ {r} : runs'[q] = runs[q]
<1>1. PICK w \in runs[r].waiting : w = <<i, id>>
  BY DEF Failed
<1>2. /\ Cardinality(runs[r].waiting \ {w}) = Cardinality(runs[r].waiting) - 1
      /\ Cardinality(runs[r].waiting) \in Nat \ {0} /\ runs[r].workers \in Nat \ {0}
  BY FewerWaiting DEF TypeInv
<1>3. runs[r].workers > 0
  BY <1>2
<1>4. /\ Only(r) /\ runs'[r].phase = "left" /\ runs'[r].level = runs[r].level
      /\ runs'[r].todo = runs[r].todo
      /\ runs'[r].waiting = runs[r].waiting \ {w}
      /\ runs'[r].workers = runs[r].workers - 1
  BY <1>1, <1>3, ThrowEffect DEF TypeInv
<1>5. Live(r) /\ runs[r].phase \in {"folders", "left"} /\ i \in Level(runs[r].level)
  BY <1>1, PlanAssumption DEF Failed, TypeInv, RunsInv, Work, Live
<1>6. ASSUME ~Blocked(runs[r].dest)
      PROVE  /\ runs[r].level = 1
             /\ \A v \in runs[r].waiting : v[2] = <<runs[r].dest, Top>>
             /\ runs[r].todo = {} \/ Cardinality(runs[r].waiting) >= runs[r].workers
  <2>1. CASE runs[r].phase = "left"
    BY <1>6, <2>1 DEF LeftIdle
  <2>2. CASE runs[r].phase = "folders"
    <3>1. \A f \in Folders : plan[f] = "queued"
      BY <1>1, <2>2 DEF Progress, AllOrNone, FolderWorkOf
    <3>2. PICK x \in Level(1) : x \in Folders
      BY FirstLevel DEF Depths, Level
    <3>3. <<runs[r].dest, x>> \notin made
      BY <1>6 DEF Blocked
    <3>4. ~runs[r].aborted
      BY DEF Failed
    <3>5. runs[r].level = 1
      BY <2>2, <3>1, <3>2, <3>3, <3>4 DEF Reached
    <3>6. \A v \in runs[r].waiting : v[1] \in Level(1)
      BY <2>2, <3>5 DEF TypeInv, RunsInv, Work
    <3>7. \A v \in runs[r].waiting : v[2] = <<runs[r].dest, Top>>
      BY <2>2, <3>6, TopFolder DEF Reached
    <3>8. runs[r].todo = {} \/ ~(Cardinality(runs[r].waiting) < runs[r].workers)
      BY <1>5 DEF Quiet, Ready
    <3> QED
      BY <1>2, <3>5, <3>7, <3>8
  <2> QED
    BY <1>5, <2>1, <2>2
<1>7. ASSUME ~Blocked(runs[r].dest)' PROVE ~Blocked(runs[r].dest)
  BY <1>7, <1>4 DEF Blocked, Only
<1>8. ~Blocked(runs[r].dest) =>
         runs'[r].todo = {} \/ Cardinality(runs'[r].waiting) >= runs'[r].workers
  BY <1>2, <1>4, <1>6
<1> QED
  BY <1>4, <1>6, <1>7, <1>8 DEF LeftIdle, Only

LEMMA LeftIdleStep ==
    ASSUME TypeInv, Progress, \A r \in RunIds : Reached(r) /\ LeftIdle(r), [Next]_vars
    PROVE  \A r \in RunIds : LeftIdle(r)'
<1>0. TypeOK /\ RunsInv /\ made \subseteq made'
  BY TrafficStep DEF TypeInv, Traffic
<1>1. ASSUME NEW n \in RunIds, \A q \in RunIds \ {n} : runs'[q] = runs[q],
             runs'[n].phase # "left"
      PROVE  \A r \in RunIds : LeftIdle(r)'
  BY <1>0, <1>1, LeftIdleSame
<1>2. ASSUME NEW n \in RunIds, NEW i \in Items, Take(n, i)
      PROVE  \A r \in RunIds : LeftIdle(r)'
  <2>1. Steady(n)
    BY <1>0, <1>2, TakeRuns
  <2>2. CASE runs[n].phase # "left"
    BY <1>1, <2>1, <2>2 DEF Steady, Only
  <2>3. CASE runs[n].phase = "left"
    <3>1. i \in runs[n].todo /\ Cardinality(runs[n].waiting) < runs[n].workers
      BY <1>2 DEF Take
    <3>2. Cardinality(runs[n].waiting) \in Nat /\ runs[n].workers \in Nat
      BY <1>0, FS_CardinalityType, LimitAssumption DEF RunsInv, Work, TypeOK, Run
    <3>3. Blocked(runs[n].dest)
      BY <2>3, <3>1, <3>2 DEF LeftIdle
    <3>4. Blocked(runs[n].dest)'
      BY <1>0, <2>1, <3>3 DEF Blocked, Steady, Only
    <3>5. LeftIdle(n)'
      BY <3>4 DEF LeftIdle
    <3> QED
      BY <1>0, <2>1, <3>5, LeftIdleSame DEF Steady, Only
  <2> QED
    BY <2>2, <2>3
<1>3. ASSUME NEW n \in RunIds, NEW i \in Items, NEW id \in Ids,
             Cut(n, i, id) \/ (Failed(n, i, id) /\ i \in Files)
      PROVE  \A r \in RunIds : LeftIdle(r)'
  <2>1. Steady(n)
    BY <1>0, <1>3, EndsRuns
  <2>2. runs[n].phase # "left"
    <3>1. CASE Cut(n, i, id)
      BY <1>0, <3>1 DEF Cut, RunsInv, Work
    <3>2. CASE Failed(n, i, id) /\ i \in Files
      <4>1. Live(n) /\ <<i, id>> \in runs[n].waiting
        BY <3>2 DEF Failed
      <4> QED
        BY <3>2, <4>1, FileRun
    <3> QED
      BY <1>3, <3>1, <3>2
  <2> QED
    BY <1>1, <2>1, <2>2 DEF Steady, Only
<1>4. ASSUME NEW n \in RunIds, NEW i \in Items, NEW id \in Ids, Acknowledged(n, i, id)
      PROVE  \A r \in RunIds : LeftIdle(r)'
  <2>1. Steady(n)
    BY <1>0, <1>4, EndsRuns
  <2>2. CASE runs[n].phase # "left"
    BY <1>1, <2>1, <2>2 DEF Steady, Only
  <2>3. CASE runs[n].phase = "left"
    <3>1. PICK w \in runs[n].waiting : w = <<i, id>>
      BY <1>4 DEF Acknowledged
    <3>2. i \in Level(runs[n].level) /\ i \in Folders
      BY <1>0, <2>3, <3>1 DEF RunsInv, Work, Level
    <3>3. <<id[1], i>> \in made'
      BY <1>4, <3>2 DEF Acknowledged, Make
    <3>4. ASSUME ~Blocked(runs[n].dest) PROVE Blocked(runs[n].dest)'
      <4>1. runs[n].level = 1 /\ id = <<runs[n].dest, Top>>
        BY <2>3, <3>1, <3>4 DEF LeftIdle
      <4>2. i \in Level(1) /\ <<runs'[n].dest, i>> \in made'
        BY <2>1, <3>2, <3>3, <4>1 DEF Steady, Only
      <4> QED
        BY <4>2 DEF Blocked
    <3>5. Blocked(runs[n].dest) => Blocked(runs[n].dest)'
      BY <1>0, <2>1 DEF Blocked, Steady, Only
    <3>6. LeftIdle(n)'
      BY <3>4, <3>5 DEF LeftIdle
    <3> QED
      BY <1>0, <2>1, <3>6, LeftIdleSame DEF Steady, Only
  <2> QED
    BY <2>2, <2>3
<1>5. ASSUME NEW n \in RunIds, NEW i \in Folders, NEW id \in Ids, Failed(n, i, id), Quiet
      PROVE  \A r \in RunIds : LeftIdle(r)'
  <2>1. LeftIdle(n)' /\ \A q \in RunIds \ {n} : runs'[q] = runs[q]
    BY <1>0, <1>5, LeftIdleThrow
  <2> QED
    BY <1>0, <2>1, LeftIdleSame
<1>6. ASSUME NEW n \in RunIds, NextLevel(n) \/ StartFiles(n) \/ EndEarly(n) \/ EndFiles(n)
      PROVE  \A r \in RunIds : LeftIdle(r)'
  <2>1. Only(n) /\ runs'[n].phase # "left"
    BY <1>0, <1>6, NextLevelEffect, StartFilesEffect, StopEffect
  <2> QED
    BY <1>1, <2>1 DEF Only
<1>7. ASSUME NEW d \in Dests, start(d) PROVE \A r \in RunIds : LeftIdle(r)'
  <2>1. PICK n \in RunIds : n = LastRun'
    BY <1>0, <1>7, StartRuns
  <2>2. PICK first : first = LastRun'
    OBVIOUS
  <2>3. (\A q \in RunIds \ {n} : runs'[q] = runs[q]) /\ runs'[n] = Begun(plan', d, first)
    BY <1>0, <1>7, <2>1, <2>2, StartRuns
  <2>4. runs'[n].phase # "left"
    BY <2>3 DEF Begun
  <2> QED
    BY <1>1, <2>3, <2>4
<1>8. CASE retryFailed
  <2>1. PICK n \in RunIds : n = LastRun'
    BY <1>0, <1>8, RetryRuns
  <2>2. PICK dest, first : dest = runs[LastRun].dest /\ first = runs[LastRun].first
    OBVIOUS
  <2>3. (\A q \in RunIds \ {n} : runs'[q] = runs[q]) /\ runs'[n] = Begun(plan', dest, first)
    BY <1>0, <1>8, <2>1, <2>2, RetryRuns
  <2>4. runs'[n].phase # "left"
    BY <2>3 DEF Begun
  <2> QED
    BY <1>1, <2>3, <2>4
<1>9. CASE cancel
  <2>1. PICK n \in RunIds : n = LastRun /\ n = current
    BY <1>0, <1>9, CancelRuns
  <2>2. (\A q \in RunIds \ {n} : runs'[q] = runs[q]) /\ runs'[n].phase = runs[n].phase
    BY <1>0, <1>9, <2>1, CancelRuns
  <2>3. runs[n].phase # "left"
    BY <1>0, <2>1 DEF RunsInv, Single
  <2> QED
    BY <1>1, <2>2, <2>3
<1>10. CASE clear \/ UNCHANGED vars
  <2>1. runs' = runs
    BY <1>10 DEF clear, vars
  <2> QED
    BY <1>0, <2>1, LeftIdleSame
<1> QED
  BY <1>2, <1>3, <1>4, <1>5, <1>6, <1>7, <1>8, <1>9, <1>10
  DEF Next, Micro, Answer, User, Items

\* A doomed list stays so until another is started.
LEMMA DoomedStays ==
    ASSUME TypeInv, Progress, Advance, Traffic, Doomed
    PROVE  Doomed'
<1>0. /\ plan' = plan /\ LastRun' = LastRun /\ made \subseteq made'
      /\ \A r \in RunIds : runs'[r].dest = runs[r].dest
  BY DEF Advance, HookKept, Traffic
<1>1. PICK x \in Level(1) : DoomedBy(x)
  BY DEF Doomed
<1>2. x \in Folders /\ x \in Items /\ Parent[x] = Top
  BY TopFolder
<1>3. PICK r \in RunIds : r = LastRun
  <2>1. plan[x] # "gone"
    BY <1>1 DEF DoomedBy
  <2>2. LastRun # 0
    BY <1>2, <2>1 DEF TypeInv, RunsInv, Numbered
  <2> QED
    BY <2>2, BoundAssumption DEF TypeInv, RunsInv, Numbered, RunIds
<1>4. /\ plan[x] = "queued" /\ <<runs[r].dest, x>> \in made
      /\ runs[r].phase \notin {"files", "done"}
      /\ runs[r].phase = "folders" /\ ~runs[r].aborted =>
            /\ runs[r].level = 1
            /\ x \in runs[r].todo \/ <<x, <<runs[r].dest, Top>>>> \in runs[r].waiting
  BY <1>1, <1>3 DEF DoomedBy
<1>5. runs'[r].phase \notin {"files", "done"}
  <2>1. runs'[r].phase # "done"
    BY <1>4 DEF Advance, GoesOn
  <2>2. runs'[r].phase # "files"
    BY <1>4 DEF Advance, TurnsToFiles, Through
  <2> QED
    BY <2>1, <2>2
<1>6. ASSUME runs'[r].phase = "folders", ~runs'[r].aborted
      PROVE  /\ runs'[r].level = 1
             /\ x \in runs'[r].todo \/ <<x, <<runs[r].dest, Top>>>> \in runs'[r].waiting
  <2>1. /\ runs[r].phase = "folders" /\ ~runs[r].aborted
        /\ SameLevel(r) \/ LevelUp(r)
    BY <1>6 DEF Advance, GoesOn
  <2>2. /\ runs[r].level = 1
        /\ x \in runs[r].todo \/ <<x, <<runs[r].dest, Top>>>> \in runs[r].waiting
    BY <1>4, <2>1
  <2>3. SameLevel(r)
    BY <2>1, <2>2 DEF LevelUp, Through
  <2>4. idOf[Top] = <<runs[r].dest, Top>> /\ idOf[Top] # None
    BY <1>3, <2>1 DEF Progress, TopKnown, TypeInv, RunsInv, Single, RunIds
  <2>5. CASE x \in runs[r].todo
    <3>1. x \in runs'[r].todo \/ <<x, idOf[Parent[x]]>> \in runs'[r].waiting
      BY <1>2, <2>1, <2>3, <2>4, <2>5 DEF SameLevel
    <3> QED
      BY <1>2, <2>2, <2>3, <2>4, <3>1 DEF SameLevel
  <2>6. CASE <<x, <<runs[r].dest, Top>>>> \in runs[r].waiting
    <3>1. PICK w \in runs[r].waiting : w = <<x, <<runs[r].dest, Top>>>>
      BY <2>6
    <3>2. w \notin runs'[r].waiting => <<w[2][1], w[1]>> \notin made
      BY <2>1, <2>3 DEF SameLevel
    <3>3. w \in runs'[r].waiting
      BY <1>4, <3>1, <3>2
    <3> QED
      BY <2>2, <2>3, <3>1, <3>3 DEF SameLevel
  <2> QED
    BY <2>2, <2>5, <2>6
<1>7. DoomedBy(x)'
  BY <1>0, <1>3, <1>4, <1>5, <1>6 DEF DoomedBy
<1> QED
  BY <1>7 DEF Doomed

LEMMA AimedAdvance ==
    ASSUME TypeInv, Progress, Aimed, Advance, Traffic, \A r \in RunIds : LeftStays(r)
    PROVE  Aimed'
<1> SUFFICES ASSUME idOf'[Top] # None, SameDest', ~Doomed' PROVE InDest'
  BY DEF Aimed
<1>0. /\ LastRun' = LastRun /\ idOf'[Top] = idOf[Top]
      /\ \A r \in RunIds : runs'[r].dest = runs[r].dest
  BY DEF Advance, HookKept
<1>1. LastRun \in RunIds
  BY <1>0 DEF Progress, TopKnown
<1>2. SameDest
  BY <1>0, <1>1 DEF SameDest, LeftStays
<1>3. InDest
  BY <1>0, <1>2, DoomedStays DEF Aimed
<1>4. ASSUME NEW p \in Folders \cup {Top}, idOf'[p] # None
      PROVE  idOf'[p][1] = runs[LastRun].dest
  <2>1. CASE idOf'[p] = idOf[p]
    BY <1>3, <1>4, <2>1 DEF InDest
  <2>2. CASE idOf'[p] # idOf[p]
    <3>1. PICK r \in RunIds : \E w \in runs[r].waiting : idOf'[p] = <<w[2][1], p>>
      BY <1>0, <1>4, <2>2 DEF Traffic, NewIds
    <3> QED
      BY <1>3, <3>1 DEF InDest
  <2> QED
    BY <2>1, <2>2
<1>5. ASSUME NEW r \in RunIds, NEW w \in runs'[r].waiting
      PROVE  w[2][1] = runs[LastRun].dest
  <2>1. CASE w \in runs[r].waiting
    BY <1>3, <2>1 DEF InDest
  <2>2. CASE w \notin runs[r].waiting
    <3>1. /\ w[1] \in runs[r].todo
          /\ idOf[Parent[w[1]]] # None /\ w[2] = idOf[Parent[w[1]]]
      BY <2>2 DEF Traffic, NewRequests
    <3>2. Parent[w[1]] \in Folders \cup {Top}
      BY <3>1, PlanAssumption DEF TypeInv, TypeOK, Run
    <3> QED
      BY <1>3, <3>1, <3>2 DEF InDest
  <2> QED
    BY <2>1, <2>2
<1> QED
  BY <1>0, <1>1, <1>4, <1>5 DEF InDest

LEMMA EndFilesAimed ==
    ASSUME TypeInv, Progress, Aimed, NEW n \in RunIds, EndFiles(n)
    PROVE  Aimed'
<1>1. /\ Only(n) /\ runs'[n].waiting = {} /\ runs'[n].phase \in {"early", "done"}
      /\ LastRun' = LastRun /\ n = current
  BY StopEffect, StopRuns DEF TypeInv
<1>2. n = LastRun /\ runs[n].phase = "files"
  BY <1>1 DEF EndFiles, TypeInv, RunsInv, Single, RunIds
<1>3. ~Doomed
  BY <1>2 DEF Doomed, DoomedBy
<1>4. SameDest' => SameDest
  BY <1>1, <1>2 DEF SameDest, Only
<1>5. idOf' = idOf /\ runs'[n].dest = runs[n].dest
  BY <1>1 DEF EndFiles, Only
<1> QED
  BY <1>1, <1>2, <1>3, <1>4, <1>5 DEF Aimed, InDest, Only

LEMMA StartAimed ==
    ASSUME TypeInv, \A r \in RunIds : LeftIdle(r), NEW d \in Dests, start(d)
    PROVE  Aimed'
<1> SUFFICES ASSUME SameDest', ~Doomed' PROVE InDest'
  BY DEF Aimed
<1>1. PICK n \in RunIds : n = LastRun'
  BY StartRuns DEF TypeInv
<1>2. PICK first : first = LastRun'
  OBVIOUS
<1>3. (\A q \in RunIds \ {n} : runs'[q] = runs[q]) /\ runs'[n] = Begun(plan', d, first)
  BY <1>1, <1>2, StartRuns DEF TypeInv
<1>4. /\ runs'[n].phase = "folders" /\ runs'[n].level = 1 /\ runs'[n].waiting = {}
      /\ runs'[n].todo = {f \in Level(1) : plan'[f] = "queued"} /\ runs'[n].dest = d
  BY <1>3 DEF Begun
<1>5. made' = made /\ \A i \in Items : plan'[i] = "queued"
  BY DEF start
<1>6. ~Blocked(d)
  <2> SUFFICES ASSUME NEW x \in Level(1), <<d, x>> \in made PROVE FALSE
    BY DEF Blocked
  <2>1. plan'[x] = "queued" /\ x \in runs'[n].todo
    BY <1>4, <1>5, TopFolder
  <2>2. DoomedBy(x)'
    BY <1>1, <1>4, <1>5, <2>1 DEF DoomedBy
  <2> QED
    BY <2>2 DEF Doomed
<1>7. ASSUME NEW p \in Folders \cup {Top}, idOf'[p] # None PROVE idOf'[p][1] = d
  BY <1>7 DEF start
<1>8. ASSUME NEW r \in RunIds, NEW w \in runs'[r].waiting PROVE w[2][1] = d
  <2>1. r # n /\ runs'[r] = runs[r] /\ w \in runs[r].waiting
    BY <1>3, <1>4, <1>8
  <2>2. runs[r].phase = "left"
    <3>1. runs[r].phase \in {"folders", "files", "left"}
      BY <2>1 DEF TypeInv, RunsInv, Work
    <3>2. runs[r].phase \notin {"folders", "files"}
      BY DEF start, TypeInv, RunsInv, Single, RunIds
    <3> QED
      BY <3>1, <3>2
  <2>3. runs[r].dest = d
    BY <1>1, <1>4, <2>1, <2>2 DEF SameDest
  <2> QED
    BY <1>6, <2>1, <2>2, <2>3 DEF LeftIdle
<1> QED
  BY <1>1, <1>4, <1>7, <1>8 DEF InDest

LEMMA RetryAimed ==
    ASSUME TypeInv, Progress, Aimed, retryFailed
    PROVE  Aimed'
<1> SUFFICES ASSUME SameDest', ~Doomed' PROVE InDest'
  BY DEF Aimed
<1>1. PICK n \in RunIds, m \in RunIds : n = LastRun' /\ m = LastRun /\ LastRun' = LastRun + 1
  BY RetryRuns DEF TypeInv
<1>2. PICK dest, first : dest = runs[LastRun].dest /\ first = runs[LastRun].first
  OBVIOUS
<1>3. (\A q \in RunIds \ {n} : runs'[q] = runs[q]) /\ runs'[n] = Begun(plan', dest, first)
  BY <1>1, <1>2, RetryRuns DEF TypeInv
<1>4. /\ runs'[n].phase = "folders" /\ runs'[n].level = 1 /\ runs'[n].waiting = {}
      /\ runs'[n].todo = {f \in Level(1) : plan'[f] = "queued"} /\ runs'[n].dest = dest
  BY <1>3 DEF Begun
<1>5. /\ made' = made /\ idOf' = idOf
      /\ \A f \in Folders : plan'[f] = plan[f]
  BY PlanAssumption DEF retryFailed, server, Items
<1>6. idOf[Top] # None
  BY DEF retryFailed, isRetryable, Progress, TopKnown
<1>7. ~Doomed
  <2> SUFFICES ASSUME NEW x \in Level(1), DoomedBy(x) PROVE FALSE
    BY DEF Doomed
  <2>1. plan[x] = "queued" /\ <<dest, x>> \in made /\ x \in Folders
    BY <1>2, TopFolder DEF DoomedBy
  <2>2. plan'[x] = "queued" /\ x \in runs'[n].todo
    BY <1>4, <1>5, <2>1
  <2>3. DoomedBy(x)'
    BY <1>1, <1>4, <1>5, <2>1, <2>2 DEF DoomedBy
  <2> QED
    BY <2>3 DEF Doomed
<1>8. SameDest
  <2>1. runs[n].phase = "off"
    BY <1>1 DEF TypeInv, RunsInv, Numbered, RunIds
  <2> QED
    BY <1>1, <1>2, <1>3, <1>4, <2>1 DEF SameDest
<1>9. InDest
  BY <1>6, <1>7, <1>8 DEF Aimed
<1> QED
  BY <1>1, <1>2, <1>3, <1>4, <1>5, <1>9 DEF InDest

LEMMA AimedStep ==
    ASSUME TypeInv, Progress, Aimed, \A r \in RunIds : LeftIdle(r), [Next]_vars
    PROVE  Aimed'
<1>1. CASE Advance
  BY <1>1, TrafficStep, LeftOverStays, AimedAdvance
<1>2. CASE clear
  BY <1>2 DEF clear, Aimed
<1> QED
  BY <1>1, <1>2, StepKinds, EndFilesAimed, StartAimed, RetryAimed

LEMMA LandsStep ==
    ASSUME TypeInv, Progress, Sent, Aimed, LandsWhereAsked, [Next]_vars
    PROVE  LandsWhereAsked'
<1> SUFFICES ASSUME NEW u \in stored'
             PROVE  \/ u.parent[1] = runs'[u.run].dest
                    \/ \E r \in 1 .. u.run - 1 :
                          runs'[r].phase = "left" /\ runs'[r].dest # runs'[u.run].dest
  BY DEF LandsWhereAsked
<1>0. TypeOK'
  BY TypeStep DEF TypeInv
<1>1. u.run \in RunIds /\ u.file \in Files
  BY <1>0 DEF TypeOK
<1>2. runs[u.run].phase # "off"
  <2>1. CASE u \in stored
    BY <2>1 DEF Sent
  <2>2. CASE u \notin stored
    BY <2>2, TrafficStep DEF Traffic, NewFiles, Live
  <2> QED
    BY <2>1, <2>2
<1>3. runs'[u.run].dest = runs[u.run].dest
  BY <1>1, <1>2, DestStays
<1>4. \/ u.parent[1] = runs[u.run].dest
      \/ \E r \in 1 .. u.run - 1 :
            runs[r].phase = "left" /\ runs[r].dest # runs[u.run].dest
  <2>1. CASE u \in stored
    BY <2>1 DEF LandsWhereAsked
  <2>2. CASE u \notin stored
    <3>1. Live(u.run) /\ <<u.file, u.parent>> \in runs[u.run].waiting
      BY <2>2, TrafficStep DEF Traffic, NewFiles
    <3>2. PICK n \in RunIds : n = u.run
      BY <1>1
    <3>3. PICK w \in runs[n].waiting : w = <<u.file, u.parent>>
      BY <3>1, <3>2
    <3>4. u.parent \in Ids
      BY <1>0 DEF TypeOK
    <3>5. PICK f \in Files, id \in Ids : f = u.file /\ id = u.parent
      BY <1>1, <3>4
    <3>6. runs[n].phase = "files" /\ n = current /\ n = LastRun
      BY <3>1, <3>2, <3>5, FileRun
    <3>7. idOf[Top] # None /\ ~Doomed
      <4>1. uploading
        BY <3>6 DEF TypeInv, RunsInv, Single, RunIds
      <4>2. idOf[Top] # None
        BY <4>1 DEF Progress, TopKnown
      <4>3. ~Doomed
        BY <3>6 DEF Doomed, DoomedBy
      <4> QED
        BY <4>2, <4>3
    <3>8. CASE SameDest
      BY <3>2, <3>3, <3>6, <3>7, <3>8 DEF Aimed, InDest
    <3>9. CASE ~SameDest
      <4>1. PICK r \in RunIds : runs[r].phase = "left" /\ runs[r].dest # runs[n].dest
        BY <3>6, <3>9 DEF SameDest
      <4>2. r <= LastRun /\ r # n
        BY <3>6, <4>1 DEF TypeInv, RunsInv, Numbered, RunIds
      <4>3. r \in 1 .. n - 1
        BY <3>6, <4>2 DEF RunIds
      <4> QED
        BY <3>2, <4>1, <4>3
    <3> QED
      BY <3>8, <3>9
  <2> QED
    BY <2>1, <2>2
<1>5. CASE u.parent[1] = runs[u.run].dest
  BY <1>3, <1>5
<1>6. ASSUME NEW r \in 1 .. u.run - 1, runs[r].phase = "left",
             runs[r].dest # runs[u.run].dest
      PROVE  runs'[r].phase = "left" /\ runs'[r].dest # runs'[u.run].dest
  <2>1. r \in RunIds
    BY <1>1, BoundAssumption DEF RunIds
  <2> QED
    BY <1>3, <1>6, <2>1, LeftOverStays DEF LeftStays
<1> QED
  BY <1>4, <1>5, <1>6

LandTypeInv == TypeInv /\ Sent /\ Progress /\ LandInv

LEMMA LandInit == Init => LandTypeInv
<1> SUFFICES ASSUME Init PROVE LandTypeInv
  OBVIOUS
<1>1. \A r \in RunIds : runs[r].phase = "off"
  BY DEF Init, NoRun
<1>2. \A r \in RunIds : Reached(r) /\ LeftIdle(r)
  BY <1>1 DEF Reached, LeftIdle
<1>3. Aimed /\ LandsWhereAsked
  BY DEF Init, Aimed, LandsWhereAsked
<1>4. Sent
  BY DEF Init, Sent, NoRun
<1> QED
  BY <1>2, <1>3, <1>4, TypeInit, ProgressInit DEF LandTypeInv, LandInv

LEMMA LandStep == LandTypeInv /\ [Next]_vars => LandTypeInv'
<1> SUFFICES ASSUME LandTypeInv, [Next]_vars PROVE LandTypeInv'
  OBVIOUS
<1>1. TypeInv' /\ TypeOK' /\ Sent' /\ Progress'
  BY TypeStep, TrafficStep, SentStep, ProgressStep DEF LandTypeInv, TypeInv
<1>2. \A r \in RunIds : Reached(r)' /\ LeftIdle(r)'
  BY ReachedStep, LeftIdleStep DEF LandTypeInv, LandInv
<1>3. Aimed'
  BY AimedStep DEF LandTypeInv, LandInv
<1>4. LandsWhereAsked'
  BY LandsStep DEF LandTypeInv, LandInv
<1> QED
  BY <1>1, <1>2, <1>3, <1>4 DEF LandTypeInv, LandInv

\* A file lands in the destination its upload was started for, whatever is left over of
\* earlier uploads to the same one: what such a run has still to send would create a
\* folder that the new list needs, so the list never comes to its files.
THEOREM FilesLandWhereAsked == Spec => []LandsWhereAsked
<1>1. LandTypeInv => LandsWhereAsked
  BY DEF LandTypeInv, LandInv
<1> QED
  BY <1>1, LandInit, LandStep, PTL DEF Spec

-----------------------------------------------------------------------------
(***************************************************************************)
(* Every item is counted once.                                             *)
(***************************************************************************)
\* The items run n has still to count: what its workers have and, among the folders,
\* what comes after its level.
InHand(n) == runs[n].todo \cup {w[1] : w \in runs[n].waiting}
Ahead(n) ==
    IF runs[n].phase = "folders"
    THEN {i \in Items : plan[i] = "queued" /\ (i \in Folders => Depth[i] > runs[n].level)}
    ELSE {}
Uncounted(n) == InHand(n) \cup Ahead(n)

NoFolderQueued == \A f \in Folders : plan[f] # "queued"

\* A run starts with everything queued, or has nothing to do among the folders: then it
\* passes them before anything else is heard, a cancel included.
PassesFolders(n) ==
    runs[n].phase = "folders" =>
        \/ \A i \in Items : plan[i] = "queued"
        \/ /\ NoFolderQueued /\ ~runs[n].aborted
           /\ runs[n].todo = {} /\ runs[n].waiting = {}

Counted(n) ==
    /\ completed + failed + cancelledCount + Cardinality(Uncounted(n)) = total
    /\ active = Cardinality(runs[n].waiting)
    /\ PassesFolders(n)
    /\ runs[n].phase = "done" => NoFolderQueued

\* No run has failed at a folder, and those of the list before the last have come to
\* their end.
ListWhole ==
    /\ total > 0 /\ ~Threw
    /\ \A r \in 1 .. LastRun - 1 :
          runs[r].first = runs[LastRun].first => runs[r].phase = "done"

Firsts ==
    /\ total > 0 => LastRun \in RunIds
    /\ \A r \in RunIds : runs[r].phase # "off" => runs[r].first <= r

CountInv == Firsts /\ \A n \in RunIds : n = LastRun /\ ListWhole => Counted(n)

LEMMA CountsAreNumbers ==
    TypeOK => completed \in Int /\ failed \in Int /\ cancelledCount \in Int
              /\ active \in Int /\ total \in Int /\ (total > 0 <=> total # 0)
<1>1. Cardinality(Items) \in Nat
  BY ItemsFinite
<1> QED
  BY <1>1 DEF TypeOK

LEMMA UncountedFinite ==
    ASSUME TypeInv, NEW n \in RunIds
    PROVE  /\ IsFiniteSet(Uncounted(n)) /\ Cardinality(Uncounted(n)) \in Nat
           /\ IsFiniteSet(runs[n].waiting) /\ Cardinality(runs[n].waiting) \in Nat
<1>1. runs[n].todo \subseteq Items /\ runs[n].waiting \subseteq Items \X Ids
  BY DEF TypeInv, TypeOK, Run
<1>2. \A w \in runs[n].waiting : w[1] \in Items
  BY <1>1
<1>3. Uncounted(n) \subseteq Items
  BY <1>1, <1>2 DEF Uncounted, InHand, Ahead
<1>4. IsFiniteSet(runs[n].waiting)
  BY DEF TypeInv, RunsInv, Work
<1> QED
  BY <1>3, <1>4, ItemsFinite, FS_CardinalityType

\* An item that is taken or sent is not also among those to come.
LEMMA InHandOnce ==
    ASSUME TypeInv, NEW n \in RunIds, runs[n].phase \in {"folders", "files"}
    PROVE  /\ \A i \in InHand(n) : i \notin Ahead(n)
           /\ \A w \in runs[n].waiting : w[1] \notin runs[n].todo
           /\ \A v, w \in runs[n].waiting : v[1] = w[1] => v = w
<1>1. CASE runs[n].phase = "folders"
  <2>1. \A i \in InHand(n) : i \in Level(runs[n].level)
    BY <1>1 DEF InHand, TypeInv, RunsInv, Work
  <2>2. \A i \in Level(runs[n].level) : i \in Folders /\ ~(Depth[i] > runs[n].level)
    BY Depths1 DEF Level
  <2> QED
    BY <1>1, <2>1, <2>2 DEF Ahead, TypeInv, RunsInv, Work
<1>2. CASE runs[n].phase = "files"
  BY <1>2 DEF Ahead, TypeInv, RunsInv, Work
<1> QED
  BY <1>1, <1>2

\* One item less to count, and one counter more.
LEMMA OneCounted ==
    ASSUME TypeInv, TypeOK', NEW n \in RunIds, NEW i \in Uncounted(n),
           Uncounted(n)' = Uncounted(n) \ {i}, total' = total,
           completed + failed + cancelledCount + Cardinality(Uncounted(n)) = total,
           completed' + failed' + cancelledCount' = completed + failed + cancelledCount + 1
    PROVE  completed' + failed' + cancelledCount' + Cardinality(Uncounted(n)') = total'
<1>1. /\ IsFiniteSet(Uncounted(n)) /\ Cardinality(Uncounted(n)) \in Nat
      /\ Cardinality(Uncounted(n) \ {i}) = Cardinality(Uncounted(n)) - 1
  BY UncountedFinite, FS_RemoveElement
<1>2. PICK s \in Int, t \in Int, k \in Int, m \in Int :
         /\ s = completed + failed + cancelledCount
         /\ t = completed' + failed' + cancelledCount'
         /\ k = Cardinality(Uncounted(n)) /\ m = Cardinality(Uncounted(n)')
  <2>1. completed + failed + cancelledCount \in Int
    BY CountsAreNumbers DEF TypeInv
  <2>2. completed' + failed' + cancelledCount' \in Int
    BY DEF TypeOK
  <2>3. Cardinality(Uncounted(n)) \in Int /\ Cardinality(Uncounted(n)') \in Int
    BY <1>1
  <2> QED
    BY <2>1, <2>2, <2>3
<1>3. m = k - 1
  BY <1>1, <1>2
<1>4. s + k = total /\ t = s + 1
  BY <1>2
<1>5. t + m = total
  BY <1>3, <1>4
<1> QED
  BY <1>2, <1>5

LEMMA TakeCounted ==
    ASSUME TypeInv, TypeOK', NEW n \in RunIds, runs[n].phase \in {"folders", "files"},
           NEW i \in Items, Take(n, i), Counted(n)
    PROVE  Counted(n)'
<1>0. TypeOK /\ RunsInv
  BY DEF TypeInv
<1>1. Steady(n) /\ i \in runs[n].todo /\ plan' = plan /\ total' = total /\ completed' = completed
  BY <1>0, TakeRuns DEF Take
<1>2. runs'[n].phase = runs[n].phase /\ runs'[n].level = runs[n].level
      /\ runs'[n].aborted = runs[n].aborted
  BY <1>1 DEF Steady, Only
<1>3. Ahead(n)' = Ahead(n) /\ NoFolderQueued' = NoFolderQueued
  BY <1>1, <1>2 DEF Ahead, NoFolderQueued
<1>4. i \in InHand(n) /\ i \notin Ahead(n) /\ \A w \in runs[n].waiting : w[1] # i
  BY <1>1, InHandOnce DEF InHand
<1>5. PassesFolders(n)'
  BY <1>1, <1>2 DEF Counted, PassesFolders
<1>6. runs'[n].phase # "done"
  BY <1>2
<1>7. CASE Skip(n, i) \/ NoParent(n, i)
  <2>1. runs'[n].todo = runs[n].todo \ {i} /\ runs'[n].waiting = runs[n].waiting
    BY <1>0, <1>7, SkipEffect
  <2>2. Uncounted(n)' = Uncounted(n) \ {i} /\ i \in Uncounted(n)
    BY <1>3, <1>4, <2>1 DEF Uncounted, InHand
  <2>3. /\ completed' + failed' + cancelledCount' = completed + failed + cancelledCount + 1
        /\ active' = active
    BY <1>0, <1>1, <1>7, CountsAreNumbers DEF Skip, NoParent
  <2>4. completed' + failed' + cancelledCount' + Cardinality(Uncounted(n)') = total'
    BY <1>1, <2>2, <2>3, OneCounted DEF Counted
  <2> QED
    BY <1>5, <1>6, <2>1, <2>3, <2>4 DEF Counted
<1>8. CASE Send(n, i)
  <2> DEFINE w == <<i, idOf[Parent[i]]>>
  <2>1. runs'[n].todo = runs[n].todo \ {i} /\ runs'[n].waiting = runs[n].waiting \cup {w}
    BY <1>0, <1>8, SendEffect
  <2>2. w \notin runs[n].waiting /\ w[1] = i
    BY <1>4
  <2> HIDE DEF w
  <2>3. Uncounted(n)' = Uncounted(n)
    BY <1>1, <1>3, <2>1, <2>2 DEF Uncounted, InHand
  <2>4. /\ IsFiniteSet(runs[n].waiting) /\ Cardinality(runs[n].waiting) \in Nat
        /\ Cardinality(runs[n].waiting \cup {w}) = Cardinality(runs[n].waiting) + 1
    BY <2>2, UncountedFinite, FS_AddElement
  <2>5. active' = Cardinality(runs'[n].waiting)
    BY <1>8, <2>1, <2>4 DEF Send, Counted
  <2>6. completed' = completed /\ failed' = failed /\ cancelledCount' = cancelledCount
    BY <1>1, <1>8 DEF Send
  <2> QED
    BY <1>1, <1>5, <1>6, <2>3, <2>5, <2>6 DEF Counted
<1> QED
  BY <1>7, <1>8 DEF Take

\* A request that ends without a throw.
LEMMA EndsCounted ==
    ASSUME TypeInv, TypeOK', NEW n \in RunIds, runs[n].phase \in {"folders", "files"},
           NEW i \in Items, NEW id \in Ids,
           Acknowledged(n, i, id) \/ Cut(n, i, id) \/ (Failed(n, i, id) /\ i \in Files),
           Counted(n)
    PROVE  Counted(n)'
<1>0. TypeOK /\ RunsInv
  BY DEF TypeInv
<1>1. /\ Steady(n) /\ runs'[n].todo = runs[n].todo
      /\ runs'[n].waiting = runs[n].waiting \ {<<i, id>>}
  BY <1>0, EndsEffect
<1>2. <<i, id>> \in runs[n].waiting /\ plan' = plan /\ total' = total
  BY DEF Acknowledged, Cut, Failed
<1>3. PICK w \in runs[n].waiting : w = <<i, id>>
  BY <1>2
<1>4. runs'[n].phase = runs[n].phase /\ runs'[n].level = runs[n].level
      /\ runs'[n].aborted = runs[n].aborted
  BY <1>1 DEF Steady, Only
<1>5. Ahead(n)' = Ahead(n)
  BY <1>2, <1>4 DEF Ahead
<1>6. i \in InHand(n) /\ i \notin Ahead(n) /\ i \notin runs[n].todo
      /\ \A v \in runs[n].waiting : v[1] = i <=> v = w
  <2>1. w[1] = i
    BY <1>3
  <2> QED
    BY <1>3, <2>1, InHandOnce DEF InHand
<1>7. Uncounted(n)' = Uncounted(n) \ {i} /\ i \in Uncounted(n)
  <2>1. runs'[n].waiting = runs[n].waiting \ {w}
    BY <1>1, <1>3
  <2> QED
    BY <1>1, <1>5, <1>6, <2>1 DEF Uncounted, InHand
<1>8. /\ completed' + failed' + cancelledCount' = completed + failed + cancelledCount + 1
      /\ active' = active - 1
  BY <1>0, CountsAreNumbers DEF Acknowledged, Cut, Failed, Ended
<1>9. completed' + failed' + cancelledCount' + Cardinality(Uncounted(n)') = total'
  BY <1>2, <1>7, <1>8, OneCounted DEF Counted
<1>10. active' = Cardinality(runs'[n].waiting)
  <2>1. Cardinality(runs[n].waiting \ {w}) = Cardinality(runs[n].waiting) - 1
    BY UncountedFinite, FS_RemoveElement
  <2> QED
    BY <1>1, <1>3, <1>8, <2>1 DEF Counted
<1>11. PassesFolders(n)'
  BY <1>1, <1>2, <1>3, <1>4 DEF Counted, PassesFolders
<1> QED
  BY <1>4, <1>9, <1>10, <1>11 DEF Counted

\* The pool of a run's phase is through, and it goes on.
LEMMA TurnCounted ==
    ASSUME TypeInv, NEW n \in RunIds, NextLevel(n) \/ StartFiles(n), Counted(n)
    PROVE  Counted(n)'
<1>0. TypeOK /\ RunsInv
  BY DEF TypeInv
<1>1. /\ runs[n].phase = "folders" /\ runs[n].todo = {} /\ runs[n].waiting = {}
      /\ UNCHANGED <<plan, total, completed, failed, cancelledCount, active>>
  BY DEF NextLevel, StartFiles, LastLevel, Through, hook, counters
<1>2. runs[n].level \in Nat /\ \A i \in Folders : i \in Items /\ Depth[i] \in Nat
  BY <1>0, Depths1 DEF TypeOK, Run, Items, Depths
<1>3. CASE NextLevel(n)
  <2>1. /\ Only(n) /\ runs'[n].phase = "folders" /\ runs'[n].level = runs[n].level + 1
        /\ runs'[n].todo = Queued(Level(runs[n].level + 1)) /\ runs'[n].waiting = {}
    BY <1>0, <1>3, NextLevelEffect
  <2>2. InHand(n) = {} /\ InHand(n)' = Queued(Level(runs[n].level + 1))
    BY <1>1, <2>1 DEF InHand
  <2>3. ASSUME NEW i \in Items
        PROVE  i \in Ahead(n) <=> i \in Queued(Level(runs[n].level + 1)) \/ i \in Ahead(n)'
    <3>1. CASE i \in Folders
      BY <1>1, <1>2, <2>1, <3>1 DEF Ahead, Queued, Level
    <3>2. CASE i \notin Folders
      BY <1>1, <2>1, <3>2 DEF Ahead, Queued, Level
    <3> QED
      BY <3>1, <3>2
  <2>4. Uncounted(n)' = Uncounted(n)
    <3>1. Queued(Level(runs[n].level + 1)) \subseteq Items
      BY DEF Queued, Level, Items
    <3>2. Ahead(n) \subseteq Items /\ Ahead(n)' \subseteq Items
      BY DEF Ahead
    <3> QED
      BY <2>2, <2>3, <3>1, <3>2 DEF Uncounted
  <2>5. PassesFolders(n)'
    <3>1. NoFolderQueued => Queued(Level(runs[n].level + 1)) = {}
      BY DEF NoFolderQueued, Queued, Level
    <3> QED
      BY <1>1, <2>1, <3>1 DEF Counted, PassesFolders, NoFolderQueued, Only
  <2> QED
    BY <1>1, <2>1, <2>4, <2>5 DEF Counted
<1>4. CASE StartFiles(n)
  <2>1. /\ runs'[n].phase = "files" /\ runs'[n].todo = Queued(Files) /\ runs'[n].waiting = {}
    BY <1>0, <1>4, StartFilesEffect
  <2>2. \A f \in Folders : ~(Depth[f] > runs[n].level)
    BY <1>2, <1>4, LastLevelIsLast DEF StartFiles, LastLevel
  <2>3. Ahead(n) = Queued(Files) /\ Ahead(n)' = {}
    BY <1>1, <2>1, <2>2, PlanAssumption DEF Ahead, Queued, Items
  <2>4. Uncounted(n)' = Uncounted(n)
    BY <1>1, <2>1, <2>3 DEF Uncounted, InHand
  <2>5. PassesFolders(n)'
    BY <2>1 DEF PassesFolders
  <2> QED
    BY <1>1, <2>1, <2>4, <2>5 DEF Counted
<1> QED
  BY <1>3, <1>4

\* A run that is over has nothing to count.
LEMMA NothingUncounted ==
    ASSUME TypeInv', NEW n \in RunIds, runs'[n].phase \in {"early", "done"}
    PROVE  Uncounted(n)' = {} /\ runs'[n].waiting = {} /\ Cardinality(Uncounted(n)') = 0
           /\ Cardinality(runs'[n].waiting) = 0 /\ PassesFolders(n)'
<1>1. runs'[n].todo = {} /\ runs'[n].waiting = {}
  BY DEF TypeInv, RunsInv, Work
<1>2. Uncounted(n)' = {}
  BY <1>1 DEF Uncounted, InHand, Ahead
<1> QED
  BY <1>1, <1>2, FS_EmptySet DEF PassesFolders

LEMMA EndFilesCounted ==
    ASSUME TypeInv, TypeInv', Progress, NEW n \in RunIds, EndFiles(n), Counted(n)
    PROVE  Counted(n)'
<1>1. runs'[n].phase = "done" /\ runs[n].phase = "files"
  BY StopEffect DEF TypeInv, EndFiles, EndEarly, LastLevel
<1>2. Uncounted(n) = {} /\ runs[n].waiting = {}
  BY <1>1 DEF Uncounted, InHand, Ahead, EndFiles, Through
<1>3. UNCHANGED <<completed, failed, cancelledCount, active, total>>
  BY DEF EndFiles, counters
<1>4. NoFolderQueued'
  <2>1. \A f \in Folders :
           f \in Items /\ updates[f] # "queued" /\ (plan[f] = "queued" => updates[f] # None)
    BY <1>1 DEF Progress, FolderWorkOf, Items
  <2>2. flushUpdates
    BY DEF EndFiles
  <2> QED
    BY <2>1, <2>2 DEF flushUpdates, NoFolderQueued
<1>5. Cardinality({}) = 0
  BY FS_EmptySet
<1> QED
  BY <1>1, <1>2, <1>3, <1>4, <1>5, NothingUncounted DEF Counted

\* Cancelled among the folders: everything was still queued, so the files of the list
\* are those to come.
LEMMA EndEarlyCounted ==
    ASSUME TypeInv, TypeInv', NEW n \in RunIds, EndEarly(n), Counted(n)
    PROVE  Counted(n)'
<1>0. TypeOK
  BY DEF TypeInv
<1>1. runs'[n].phase = "early" /\ runs[n].phase = "folders" /\ runs[n].aborted
  BY <1>0, StopEffect DEF EndEarly, LastLevel
<1>2. /\ runs[n].todo = {} /\ runs[n].waiting = {}
      /\ cancelledCount' = cancelledCount + Cardinality({f \in Files : plan[f] # "gone"})
      /\ UNCHANGED <<completed, failed, active, total>>
  BY DEF EndEarly, LastLevel, Through
<1>3. \A i \in Items : plan[i] = "queued"
  BY <1>1 DEF Counted, PassesFolders
<1>4. \A f \in Folders : ~(Depth[f] > runs[n].level)
  <2>1. runs[n].level \in Nat /\ \A f \in Folders : Depth[f] \in Nat
    BY <1>0, Depths1 DEF TypeOK, Run, Depths
  <2> QED
    BY <2>1, LastLevelIsLast DEF EndEarly, LastLevel
<1>5. Ahead(n) = {f \in Files : plan[f] # "gone"}
  <2>1. \A i \in Items : i \in Folders \/ i \in Files
    BY DEF Items
  <2>2. \A f \in Files : f \in Items /\ f \notin Folders
    BY PlanAssumption DEF Items
  <2> QED
    BY <1>1, <1>3, <1>4, <2>1, <2>2 DEF Ahead
<1>6. Uncounted(n) = {f \in Files : plan[f] # "gone"}
  BY <1>2, <1>5 DEF Uncounted, InHand
<1>7. PICK k \in Int : k = Cardinality({f \in Files : plan[f] # "gone"})
  <2>1. Cardinality(Uncounted(n)) \in Nat
    BY UncountedFinite
  <2>2. Cardinality({f \in Files : plan[f] # "gone"}) \in Nat
    BY <1>6, <2>1, Zenon
  <2> QED
    BY <2>2
<1>8. completed' + failed' + cancelledCount' = total'
  BY <1>0, <1>2, <1>6, <1>7, CountsAreNumbers DEF Counted
<1>9. active' = 0
  BY <1>2, FS_EmptySet DEF Counted
<1>10. total' \in Int /\ completed' + failed' + cancelledCount' \in Int
  BY <1>2, <1>8, CountsAreNumbers DEF TypeInv
<1> QED
  BY <1>1, <1>8, <1>9, <1>10, NothingUncounted DEF Counted

LEMMA CancelCounted ==
    ASSUME TypeInv, NEW n \in RunIds, n = current, cancel, Counted(n)
    PROVE  Counted(n)'
<1>1. runs'[n] = [phase |-> runs[n].phase, level |-> runs[n].level,
                  todo |-> runs[n].todo, waiting |-> runs[n].waiting,
                  workers |-> runs[n].workers, aborted |-> TRUE,
                  dest |-> runs[n].dest, first |-> runs[n].first]
  BY CancelEffect DEF TypeInv
<1>2. /\ runs'[n].phase = runs[n].phase /\ runs'[n].level = runs[n].level
      /\ runs'[n].todo = runs[n].todo /\ runs'[n].waiting = runs[n].waiting
  BY <1>1
<1>3. UNCHANGED <<plan, completed, failed, cancelledCount, active, total>>
  BY DEF cancel, counters
<1>4. Uncounted(n)' = Uncounted(n)
  BY <1>2, <1>3 DEF Uncounted, InHand, Ahead
<1>5. PassesFolders(n)'
  <2>1. SUFFICES ASSUME runs[n].phase = "folders" PROVE \A i \in Items : plan[i] = "queued"
    BY <1>2, <1>3 DEF PassesFolders
  <2>2. ~Ready(n)
    BY DEF cancel, Quiet
  <2>3. ~(runs[n].todo = {} /\ runs[n].waiting = {})
    BY <2>1, <2>2 DEF Ready, Live
  <2> QED
    BY <2>1, <2>3 DEF Counted, PassesFolders
<1> QED
  BY <1>2, <1>3, <1>4, <1>5 DEF Counted, NoFolderQueued

\* A run is of a list that was started no later than itself.
LEMMA FirstsStep ==
    ASSUME TypeInv, Firsts, [Next]_vars
    PROVE  Firsts'
<1>0. TypeOK /\ RunsInv
  BY DEF TypeInv
<1>1. ASSUME LastRun' = LastRun, total' = total \/ total' = 0,
             \A r \in RunIds : /\ runs'[r].first = runs[r].first
                               /\ runs'[r].phase # "off" => runs[r].phase # "off"
      PROVE  Firsts'
  BY <1>1 DEF Firsts
<1>2. ASSUME NEW n \in RunIds, NEW k \in RunIds, n = LastRun', NEW R, runs'[n] = R, R.first = k,
             k <= n, \A q \in RunIds \ {n} : runs'[q] = runs[q]
      PROVE  Firsts'
  BY <1>2 DEF Firsts
<1>3. ASSUME NEW r \in RunIds, Only(r), LastRun' = LastRun, total' = total PROVE Firsts'
  <2>1. TypeInv'
    BY TypeStep
  <2>2. \A q \in RunIds : runs'[q].phase # "off" => runs[q].phase # "off"
    BY <1>3, <2>1 DEF TypeInv, RunsInv, Numbered
  <2> QED
    BY <1>1, <1>3, <2>2 DEF Only
<1>4. ASSUME NEW r \in RunIds, NEW i \in Items, Take(r, i) PROVE Firsts'
  BY <1>0, <1>3, <1>4, TakeRuns DEF Take, Steady
<1>5. ASSUME NEW r \in RunIds, NEW i \in Items, NEW id \in Ids,
             Acknowledged(r, i, id) \/ Cut(r, i, id) \/ Failed(r, i, id)
      PROVE  Firsts'
  <2>1. total' = total
    BY <1>5 DEF Acknowledged, Cut, Failed
  <2>2. CASE Failed(r, i, id) /\ i \notin Files
    <3>1. i \in Folders
      BY <2>2 DEF Items
    <3>2. runs[r].workers > 0
      <4>1. PICK w \in runs[r].waiting : w = <<i, id>>
        BY <2>2 DEF Failed
      <4>2. runs[r].workers \in Nat \ {0}
        BY <1>0, <4>1, FewerWaiting
      <4> QED
        BY <4>2
    <3>3. Only(r)
      BY <1>0, <2>2, <3>1, <3>2, ThrowEffect
    <3>4. LastRun' = LastRun
      BY <1>0, <2>2, <3>1, ThrowRuns
    <3> QED
      BY <1>3, <2>1, <3>3, <3>4
  <2>3. CASE ~(Failed(r, i, id) /\ i \notin Files)
    BY <1>0, <1>3, <1>5, <2>1, <2>3, EndsRuns DEF Steady
  <2> QED
    BY <2>2, <2>3
<1>6. ASSUME NEW r \in RunIds, NextLevel(r) \/ StartFiles(r) PROVE Firsts'
  <2>1. Only(r)
    BY <1>0, <1>6, NextLevelEffect, StartFilesEffect
  <2>2. LastRun' = LastRun
    BY <1>0, <1>6, TurnRuns
  <2> QED
    BY <1>3, <1>6, <2>1, <2>2 DEF NextLevel, StartFiles, hook, counters
<1>7. ASSUME NEW r \in RunIds, EndEarly(r) \/ EndFiles(r) PROVE Firsts'
  <2>1. Only(r) /\ LastRun' = LastRun
    BY <1>0, <1>7, StopEffect, StopRuns
  <2> QED
    BY <1>3, <1>7, <2>1 DEF EndEarly, EndFiles, counters
<1>8. CASE cancel
  <2>1. /\ LastRun' = LastRun /\ LastRun \in RunIds
        /\ \A q \in RunIds \ {LastRun} : runs'[q] = runs[q]
        /\ runs'[LastRun] = [phase |-> runs[LastRun].phase, level |-> runs[LastRun].level,
                          todo |-> runs[LastRun].todo, waiting |-> runs[LastRun].waiting,
                          workers |-> runs[LastRun].workers, aborted |-> TRUE,
                          dest |-> runs[LastRun].dest, first |-> runs[LastRun].first]
    BY <1>0, <1>8, CancelRuns
  <2>2. \A r \in RunIds : runs'[r].first = runs[r].first /\ runs'[r].phase = runs[r].phase
    BY <2>1
  <2> QED
    BY <1>1, <1>8, <2>1, <2>2 DEF cancel, counters
<1>9. ASSUME NEW d \in Dests, start(d) PROVE Firsts'
  <2>1. PICK n \in RunIds : n = LastRun'
    BY <1>0, <1>9, StartRuns
  <2>2. PICK R : R = Begun(plan', d, n)
    OBVIOUS
  <2>3. (\A q \in RunIds \ {n} : runs'[q] = runs[q]) /\ runs'[n] = R
    BY <1>0, <1>9, <2>1, <2>2, StartRuns
  <2>4. R.first = n /\ n <= n
    BY <2>2 DEF Begun, RunIds
  <2> QED
    BY <1>2, <2>1, <2>3, <2>4
<1>10. CASE retryFailed
  <2>1. PICK n \in RunIds, m \in RunIds : n = LastRun' /\ m = LastRun /\ n = m + 1
    BY <1>0, <1>10, RetryRuns
  <2>2. PICK dest, first : dest = runs[m].dest /\ first = runs[m].first
    OBVIOUS
  <2>3. PICK R : R = Begun(plan', dest, first)
    OBVIOUS
  <2>4. (\A q \in RunIds \ {n} : runs'[q] = runs[q]) /\ runs'[n] = R /\ R.first = first
    <3>1. (\A q \in RunIds \ {n} : runs'[q] = runs[q]) /\ runs'[n] = R
      BY <1>0, <1>10, <2>1, <2>2, <2>3, RetryRuns
    <3> QED
      BY <2>3, <3>1 DEF Begun
  <2>5. first \in 0 .. MaxRuns /\ first <= m
    <3>1. runs[m].phase # "off"
      BY <1>0, <2>1 DEF RunsInv, Numbered, RunIds
    <3> QED
      BY <1>0, <2>2, <3>1 DEF Firsts, TypeOK, Run
  <2>6. first <= n
    BY <2>1, <2>5 DEF RunIds
  <2> QED
    BY <2>1, <2>4, <2>6 DEF Firsts
<1>11. CASE clear
  <2>1. runs' = runs /\ LastRun' = LastRun /\ total' = 0
    BY <1>11 DEF clear, LastRun
  <2> QED
    BY <1>1, <2>1
<1>12. CASE UNCHANGED vars
  BY <1>1, <1>12 DEF vars, hook, counters, LastRun
<1> QED
  BY <1>4, <1>5, <1>6, <1>7, <1>8, <1>9, <1>10, <1>11, <1>12 DEF Next, Micro, Answer, User

LEMMA StartCounted ==
    ASSUME TypeInv, NEW d \in Dests, start(d), NEW n \in RunIds, n = LastRun'
    PROVE  Counted(n)'
<1>1. PICK R : R = Begun(plan', d, n)
  OBVIOUS
<1>2. runs'[n] = R
  BY <1>1, StartRuns DEF TypeInv
<1>3. /\ R.phase = "folders" /\ R.level = 1 /\ R.waiting = {}
      /\ R.todo = {f \in Level(1) : plan'[f] = "queued"}
  BY <1>1 DEF Begun
<1>4. \A i \in Items : plan'[i] = "queued"
  BY DEF start
<1>5. Uncounted(n)' = Items
  <2>1. \A f \in Folders : f \in Items /\ Depth[f] \in Nat \ {0}
    BY PlanAssumption DEF Items
  <2>2. \A f \in Folders : f \in R.todo \/ Depth[f] > 1
    BY <1>3, <1>4, <2>1 DEF Level
  <2>3. R.todo \subseteq Items
    BY <1>3, <2>1 DEF Level
  <2>4. InHand(n)' = R.todo
    BY <1>2, <1>3 DEF InHand
  <2>5. Ahead(n)' = {i \in Items : i \in Folders => Depth[i] > 1}
    BY <1>2, <1>3, <1>4 DEF Ahead
  <2> QED
    BY <2>2, <2>3, <2>4, <2>5 DEF Uncounted
<1>6. /\ total' = Cardinality(Items) /\ completed' = 0 /\ failed' = 0
      /\ cancelledCount' = 0 /\ active' = 0
  BY DEF start
<1>7. Cardinality(Items) \in Nat /\ Cardinality({}) = 0
  BY ItemsFinite, FS_EmptySet
<1>8. PassesFolders(n)'
  BY <1>4 DEF PassesFolders
<1> QED
  BY <1>2, <1>3, <1>5, <1>6, <1>7, <1>8 DEF Counted

\* A retry counts the files it queues again; the folders are done.
LEMMA RetryCounted ==
    ASSUME TypeInv, retryFailed, NEW n \in RunIds, n = LastRun', NEW m \in RunIds, m = LastRun,
           Counted(m), runs[m].phase = "done"
    PROVE  Counted(n)'
<1>0. TypeOK /\ RunsInv
  BY DEF TypeInv
<1>1. PICK dest, first : dest = runs[m].dest /\ first = runs[m].first
  OBVIOUS
<1>2. PICK R : R = Begun(plan', dest, first)
  OBVIOUS
<1>3. runs'[n] = R
  BY <1>0, <1>1, <1>2, RetryRuns
<1>4. /\ R.phase = "folders" /\ R.level = 1 /\ R.waiting = {} /\ R.aborted = FALSE
      /\ R.todo = {f \in Level(1) : plan'[f] = "queued"}
  BY <1>2 DEF Begun
<1> DEFINE Again == {f \in Files : isRetryable(plan[f])}
<1>5. NoFolderQueued /\ NoFolderQueued'
  <2>1. NoFolderQueued
    BY DEF Counted
  <2>2. \A f \in Folders : plan'[f] = plan[f]
    BY PlanAssumption DEF retryFailed, Items
  <2> QED
    BY <2>1, <2>2 DEF NoFolderQueued
<1>6. R.todo = {}
  BY <1>4, <1>5 DEF NoFolderQueued, Level
<1>7. \A f \in Files : plan'[f] = "queued" <=> isRetryable(plan[f])
  BY DEF retryFailed, isRetryable, Items
<1>8. Uncounted(n)' = Again
  <2>1. \A i \in Items : i \in Folders \/ i \in Files
    BY DEF Items
  <2>2. \A f \in Files : f \in Items /\ f \notin Folders
    BY PlanAssumption DEF Items
  <2>3. Ahead(n)' = Again
    BY <1>3, <1>4, <1>5, <1>7, <2>1, <2>2 DEF Ahead, NoFolderQueued
  <2> QED
    BY <1>3, <1>4, <1>6, <2>3 DEF Uncounted, InHand
<1>9. /\ cancelledCount' = cancelledCount - Cardinality(Again) /\ active' = 0
      /\ UNCHANGED <<completed, failed, total>>
  BY DEF retryFailed
<1>10. Cardinality(Again) \in Nat /\ Cardinality({}) = 0
  BY ItemsFinite, FS_EmptySet DEF Items
<1>11. completed + failed + cancelledCount = total
  <2>1. Uncounted(m) = {}
    BY <1>0 DEF Uncounted, InHand, Ahead, RunsInv, Work
  <2> QED
    BY <1>0, <1>10, <2>1, CountsAreNumbers DEF Counted
<1>12. completed' + failed' + cancelledCount' + Cardinality(Uncounted(n)') = total'
  <2>1. PICK k \in Int : k = Cardinality(Again)
    BY <1>10
  <2>2. cancelledCount' = cancelledCount - k /\ Cardinality(Uncounted(n)') = k
    BY <1>8, <1>9, <2>1
  <2> QED
    BY <1>0, <1>9, <1>11, <2>2, CountsAreNumbers
<1>13. PassesFolders(n)'
  BY <1>3, <1>4, <1>5, <1>6 DEF PassesFolders
<1> QED
  BY <1>3, <1>4, <1>9, <1>10, <1>12, <1>13 DEF Counted

\* Without an error only the last run has work.
LEMMA OnlyTheLast ==
    ASSUME TypeInv, ~Threw, NEW r \in RunIds, Live(r)
    PROVE  r = current /\ r = LastRun /\ runs[r].phase \in {"folders", "files"}
<1>1. runs[r].phase # "left"
  BY DEF Threw
<1>2. runs[r].phase \in {"folders", "files"}
  BY <1>1 DEF Live
<1> QED
  BY <1>2 DEF TypeInv, RunsInv, Single, RunIds

LEMMA EarlierRuns == \A n \in RunIds : \A r \in 1 .. n - 1 : r \in RunIds \ {n}
  BY BoundAssumption DEF RunIds

LEMMA CountedStep ==
    ASSUME TypeInv, Progress, CountInv, [Next]_vars
    PROVE  CountInv'
<1>0. TypeOK /\ RunsInv /\ TypeInv' /\ TypeOK'
  BY TypeStep DEF TypeInv
<1>1. Firsts'
  BY FirstsStep DEF CountInv
<1> SUFFICES ASSUME NEW n \in RunIds, n = LastRun', ListWhole'
             PROVE  Counted(n)'
  BY <1>1 DEF CountInv
<1>2. ~Threw
  BY LeftOverStays DEF ListWhole, Threw, LeftStays
<1>3. ASSUME n = LastRun, total' = total, \A q \in RunIds \ {n} : runs'[q] = runs[q],
             runs'[n].first = runs[n].first
      PROVE  Counted(n)
  <2>1. \A r \in 1 .. n - 1 : r \in RunIds \ {n}
    BY EarlierRuns
  <2>2. ListWhole
    BY <1>2, <1>3, <2>1 DEF ListWhole
  <2> QED
    BY <1>3, <2>2 DEF CountInv
<1>4. ASSUME NEW r \in RunIds, NEW i \in Items, Take(r, i) PROVE Counted(n)'
  <2>1. Steady(r) /\ LastRun' = LastRun /\ Live(r) /\ total' = total
    BY <1>0, <1>4, TakeRuns DEF Take
  <2>2. r = n /\ runs[n].phase \in {"folders", "files"}
    BY <1>2, <2>1, OnlyTheLast
  <2>3. Counted(n)
    BY <1>3, <2>1, <2>2 DEF Steady, Only
  <2> QED
    BY <1>0, <1>4, <2>2, <2>3, TakeCounted
<1>5. ASSUME NEW r \in RunIds, NEW i \in Items, NEW id \in Ids,
             Acknowledged(r, i, id) \/ Cut(r, i, id) \/ Failed(r, i, id)
      PROVE  Counted(n)'
  <2>1. Live(r) /\ total' = total
    BY <1>5 DEF Acknowledged, Cut, Failed
  <2>2. ~(Failed(r, i, id) /\ i \notin Files)
    <3>1. SUFFICES ASSUME Failed(r, i, id), i \in Folders PROVE FALSE
      BY DEF Items
    <3>2. runs[r].workers > 0
      <4>1. PICK w \in runs[r].waiting : w = <<i, id>>
        BY <3>1 DEF Failed
      <4>2. runs[r].workers \in Nat \ {0}
        BY <1>0, <4>1, FewerWaiting
      <4> QED
        BY <4>2
    <3>3. runs'[r].phase = "left"
      BY <1>0, <3>1, <3>2, ThrowEffect
    <3> QED
      BY <3>3 DEF ListWhole, Threw
  <2>3. Steady(r) /\ LastRun' = LastRun
    BY <1>0, <1>5, <2>2, EndsRuns
  <2>4. r = n /\ runs[n].phase \in {"folders", "files"}
    BY <1>2, <2>1, <2>3, OnlyTheLast
  <2>5. Counted(n)
    BY <1>3, <2>1, <2>3, <2>4 DEF Steady, Only
  <2> QED
    BY <1>0, <1>5, <2>2, <2>4, <2>5, EndsCounted
<1>6. ASSUME NEW r \in RunIds, NextLevel(r) \/ StartFiles(r) PROVE Counted(n)'
  <2>1. Only(r)
    BY <1>0, <1>6, NextLevelEffect, StartFilesEffect
  <2>2. LastRun' = LastRun /\ Live(r) /\ total' = total
    BY <1>0, <1>6, TurnRuns DEF NextLevel, StartFiles, LastLevel, Live, hook, counters
  <2>3. r = n
    BY <1>2, <2>2, OnlyTheLast
  <2>4. Counted(n)
    BY <1>3, <2>1, <2>2, <2>3 DEF Only
  <2> QED
    BY <1>6, <2>3, <2>4, TurnCounted
<1>7. ASSUME NEW r \in RunIds, EndEarly(r) \/ EndFiles(r) PROVE Counted(n)'
  <2>1. Only(r) /\ LastRun' = LastRun
    BY <1>0, <1>7, StopEffect, StopRuns
  <2>2. Live(r) /\ total' = total
    BY <1>7 DEF EndEarly, EndFiles, LastLevel, Live, counters
  <2>3. r = n
    BY <1>2, <2>1, <2>2, OnlyTheLast
  <2>4. Counted(n)
    BY <1>3, <2>1, <2>2, <2>3 DEF Only
  <2> QED
    BY <1>0, <1>7, <2>3, <2>4, EndEarlyCounted, EndFilesCounted
<1>8. CASE cancel
  <2>1. /\ LastRun' = LastRun /\ LastRun \in RunIds
        /\ \A q \in RunIds \ {LastRun} : runs'[q] = runs[q]
        /\ runs'[LastRun] = [phase |-> runs[LastRun].phase, level |-> runs[LastRun].level,
                          todo |-> runs[LastRun].todo, waiting |-> runs[LastRun].waiting,
                          workers |-> runs[LastRun].workers, aborted |-> TRUE,
                          dest |-> runs[LastRun].dest, first |-> runs[LastRun].first]
    BY <1>0, <1>8, CancelRuns
  <2>2. runs'[n].first = runs[n].first /\ total' = total
    BY <1>8, <2>1 DEF cancel, counters
  <2>3. Counted(n)
    BY <1>3, <2>1, <2>2
  <2>4. n = current
    BY <1>0, <1>8, <2>1 DEF cancel, RunsInv, Single
  <2> QED
    BY <1>8, <2>3, <2>4, CancelCounted
<1>9. ASSUME NEW d \in Dests, start(d) PROVE Counted(n)'
  BY <1>9, StartCounted
<1>10. CASE retryFailed
  <2>1. PICK m \in RunIds : m = LastRun /\ n = m + 1
    BY <1>0, <1>10, RetryRuns
  <2>2. \A q \in RunIds \ {n} : runs'[q] = runs[q]
    BY <1>0, <1>10, RetryRuns
  <2>3. runs'[n].first = runs[m].first
    <3>1. PICK dest, first : dest = runs[m].dest /\ first = runs[m].first
      OBVIOUS
    <3>2. runs'[n] = Begun(plan', dest, first)
      BY <1>0, <1>10, <2>1, <3>1, RetryRuns
    <3> QED
      BY <3>1, <3>2 DEF Begun
  <2>4. \A r \in 1 .. m : r \in RunIds \ {n} /\ r \in 1 .. n - 1
    BY <2>1, BoundAssumption DEF RunIds
  <2>5. \A r \in 1 .. m : runs[r].first = runs[m].first => runs[r].phase = "done"
    BY <2>2, <2>3, <2>4 DEF ListWhole
  <2>6. m \in 1 .. m /\ \A r \in 1 .. m - 1 : r \in 1 .. m
    BY DEF RunIds
  <2>7. runs[m].phase = "done"
    BY <2>5, <2>6
  <2>8. ListWhole
    BY <1>2, <1>10, <2>1, <2>5, <2>6 DEF ListWhole, retryFailed
  <2>9. Counted(m)
    BY <2>1, <2>8 DEF CountInv
  <2> QED
    BY <1>10, <2>1, <2>7, <2>9, RetryCounted
<1>11. CASE clear
  <2>1. total' = 0
    BY <1>11 DEF clear
  <2> QED
    BY <2>1 DEF ListWhole
<1>12. CASE UNCHANGED vars
  <2>1. LastRun' = LastRun /\ runs' = runs /\ plan' = plan /\ counters' = counters
    BY <1>12 DEF vars, hook, LastRun
  <2>2. Counted(n)
    BY <1>3, <2>1 DEF counters
  <2> QED
    BY <2>1, <2>2 DEF Counted, PassesFolders, NoFolderQueued, Uncounted, InHand, Ahead, counters
<1> QED
  BY <1>4, <1>5, <1>6, <1>7, <1>8, <1>9, <1>10, <1>11, <1>12 DEF Next, Micro, Answer, User

CountTypeInv == TypeInv /\ Progress /\ CountInv

LEMMA CountInit == Init => CountTypeInv
<1> SUFFICES ASSUME Init PROVE CountTypeInv
  OBVIOUS
<1>1. \A r \in RunIds : runs[r].phase = "off"
  BY DEF Init, NoRun
<1>2. total = 0
  BY DEF Init
<1> QED
  BY <1>1, <1>2, TypeInit, ProgressInit DEF CountTypeInv, CountInv, Firsts, ListWhole

LEMMA CountStep == CountTypeInv /\ [Next]_vars => CountTypeInv'
  BY TypeStep, ProgressStep, CountedStep DEF CountTypeInv

LEMMA CountedWhenStopped == CountTypeInv => FullyCounted
<1> SUFFICES ASSUME CountTypeInv, ~uploading, ListWhole
             PROVE  completed + failed + cancelledCount = total /\ active = 0
  BY DEF FullyCounted, ListWhole
<1>0. TypeInv /\ TypeOK /\ RunsInv
  BY DEF CountTypeInv, TypeInv
<1>1. PICK n \in RunIds : n = LastRun
  BY DEF CountTypeInv, CountInv, Firsts, ListWhole
<1>2. Counted(n)
  BY <1>1 DEF CountTypeInv, CountInv
<1>3. runs[n].phase \notin {"folders", "files", "left"}
  BY <1>0 DEF RunsInv, Single, RunIds, ListWhole, Threw
<1>4. Uncounted(n) = {} /\ runs[n].waiting = {}
  BY <1>0, <1>3 DEF RunsInv, Work, Uncounted, InHand, Ahead
<1>5. Cardinality({}) = 0
  BY FS_EmptySet
<1> QED
  BY <1>0, <1>2, <1>4, <1>5, CountsAreNumbers DEF Counted

\* When an upload stops every item of its list has been counted once, as completed, failed
\* or cancelled, and no request is shown as active: through cancels and retries, as long as
\* no folder has failed and no earlier run of the list was cancelled among its folders.
THEOREM EveryItemCounted == Spec => []FullyCounted
  BY CountInit, CountStep, CountedWhenStopped, PTL DEF Spec

-----------------------------------------------------------------------------
(***************************************************************************)
(* The batch upload of the server, for every set of batches and paths,     *)
(* every manifest and whatever fails.  First that no content is forgotten, *)
(* where what processManifest computes is left opaque: nothing of it       *)
(* depends on that.                                                        *)
(***************************************************************************)
\* The fields of a batch and of a pool, whatever their values.
Shape ==
    /\ batch = [b \in Batches |-> batch[b]]
    /\ \A b \in Batches :
          DOMAIN batch[b] = {"pc", "manifest", "docs", "nodes", "resolved", "file"}
    /\ cleanup = [b \in Batches |-> cleanup[b]]
    /\ \A b \in Batches : DOMAIN cleanup[b] = {"left", "held", "workers"}

OfBatches == \A c \in blobs : c.batch \in Batches

\* Only a batch that has failed has a pool: Fail overwrites none.
PoolAfterFailure ==
    \A b \in Batches : batch[b].pc # "cleaning" =>
        cleanup[b].left = {} /\ cleanup[b].held = {}

BatchInv == Shape /\ OfBatches /\ PoolAfterFailure /\ LeftoverHasCause

LEMMA BatchInitInv == BatchInit => BatchInv
  BY DEF BatchInit, BatchInv, Shape, OfBatches, PoolAfterFailure, LeftoverHasCause, Idle, NoPool

-----------------------------------------------------------------------------
(***************************************************************************)
(* Two ways a step of batch b changes the state: another batch's contents  *)
(* are answered for as before, and a failure answers for what it is told.  *)
(***************************************************************************)

\* A step of b that leaves the other batches, and the marks of their keys, alone.
Within(b) ==
    /\ \A x \in Batches \ {b} : batch'[x] = batch[x] /\ cleanup'[x] = cleanup[x]
    /\ \A x \in Batches \ {b} : \A id : <<x, id>> \in stray => <<x, id>> \in stray'
    /\ \A c \in blobs' : c.batch # b => c \in blobs

\* What is left to show of b itself.
LEMMA OnlyOwnContents ==
  ASSUME BatchInv, NEW b \in Batches, Within(b), Shape',
         \A c \in blobs' : c.batch \in Batches,
         batch'[b].pc # "cleaning" => cleanup'[b].left = {} /\ cleanup'[b].held = {},
         \A c \in blobs' : c.batch = b => Answerable(b, c.id)'
  PROVE  BatchInv'
<1>1. ASSUME NEW x \in Batches \ {b}, NEW id, Answerable(x, id) PROVE Answerable(x, id)'
  BY <1>1 DEF Within, Answerable, Resolved
<1>2. LeftoverHasCause'
  BY <1>1 DEF BatchInv, LeftoverHasCause, Within
<1>3. PoolAfterFailure'
  BY DEF BatchInv, PoolAfterFailure, Within
<1> QED
  BY <1>2, <1>3 DEF BatchInv, OfBatches

\* A failure hands on every doc of the given paths, and touches nothing else.
LEMMA FailHandsOn ==
  ASSUME Shape, NEW b \in Batches, NEW S, Fail(b, S)
  PROVE  /\ Shape'
         /\ batch'[b].pc = "cleaning"
         /\ batch'[b].docs = batch[b].docs
         /\ \A x \in Batches \ {b} : batch'[x] = batch[x] /\ cleanup'[x] = cleanup[x]
         /\ \A d \in batch[b].docs : d.path \in S => d.id \in cleanup'[b].left
<1>1. Shape'
  BY DEF Shape, Fail
<1>2. /\ batch'[b].pc = "cleaning"
      /\ batch'[b].docs = batch[b].docs
      /\ \A x \in Batches \ {b} : batch'[x] = batch[x] /\ cleanup'[x] = cleanup[x]
  BY DEF Shape, Fail
<1>3. cleanup'[b].left = {d.id : d \in {x \in batch[b].docs : x.path \in S}}
  BY DEF Shape, Fail
<1> QED
  BY <1>1, <1>2, <1>3

\* A failure while nothing is being written: with the resolved paths among the
\* given ones, every content of the batch goes to the pool or was stray.
LEMMA FailAnswers ==
  ASSUME BatchInv, NEW b \in Batches, NEW S, Fail(b, S),
         batch[b].pc \in {"files", "tx"},
         \A d \in batch[b].docs : d.path \in batch[b].resolved => d.path \in S,
         UNCHANGED <<blobs, stray>>
  PROVE  BatchInv'
<1>1. ASSUME NEW c \in blobs, c.batch = b PROVE Answerable(b, c.id)'
  <2>1. Answerable(b, c.id)
    BY <1>1 DEF BatchInv, LeftoverHasCause
  <2>2. cleanup[b].left = {} /\ cleanup[b].held = {}
    BY DEF BatchInv, PoolAfterFailure
  <2>3. CASE Resolved(b, c.id)
    BY <2>3, FailHandsOn DEF BatchInv, Resolved, Answerable
  <2>4. CASE <<b, c.id>> \in stray
    BY <2>4 DEF Answerable
  <2> QED
    BY <2>1, <2>2, <2>3, <2>4 DEF Answerable
<1>2. Within(b) /\ Shape'
  BY FailHandsOn DEF BatchInv, Within
<1> QED
  BY <1>1, <1>2, FailHandsOn, OnlyOwnContents DEF BatchInv, OfBatches
-----------------------------------------------------------------------------
(***************************************************************************)
(* The steps of Execute.                                                   *)
(***************************************************************************)
LEMMA BeginStep == ASSUME BatchInv, NEW b \in Batches, Begin(b) PROVE BatchInv'
<1>1. PICK q : /\ batch' = [batch EXCEPT ![b] = q]
               /\ DOMAIN q = {"pc", "manifest", "docs", "nodes", "resolved", "file"}
               /\ q.pc = "files"
  <2>1. PICK man, tree :
           batch' = [batch EXCEPT ![b] =
                       [pc |-> "files", manifest |-> man, docs |-> tree.docs,
                        nodes |-> tree.nodes, resolved |-> {}, file |-> <<>>]]
    BY Zenon DEF Begin
  <2> DEFINE q == [pc |-> "files", manifest |-> man, docs |-> tree.docs,
                   nodes |-> tree.nodes, resolved |-> {}, file |-> <<>>]
  <2>2. q.pc = "files"
        /\ DOMAIN q = {"pc", "manifest", "docs", "nodes", "resolved", "file"}
    OBVIOUS
  <2>3. batch' = [batch EXCEPT ![b] = q]
    BY <2>1
  <2> HIDE DEF q
  <2> QED
    BY <2>2, <2>3
<1>3. Within(b) /\ Shape' /\ batch'[b].pc = "files"
  BY <1>1 DEF BatchInv, Shape, Begin, Within
<1>2. ASSUME NEW c \in blobs, c.batch = b PROVE Answerable(b, c.id)'
  <2>1. Answerable(b, c.id) /\ batch[b].pc = "idle"
    BY <1>2 DEF BatchInv, LeftoverHasCause, Begin
  <2> QED
    BY <2>1 DEF Answerable, Begin
<1> QED
  BY <1>3, <1>2, OnlyOwnContents DEF BatchInv, OfBatches, PoolAfterFailure, Begin

\* A content that Written puts in place is of the batch and id it is given.
LEMMA WrittenContents ==
  ASSUME NEW b \in Batches, NEW id, NEW n, NEW w, NEW c \in Written(b, id, n, w)
  PROVE  \/ c.batch = b /\ c.id = id
         \/ c \in blobs
  BY DEF Written

LEMMA OpenStep == ASSUME BatchInv, NEW b \in Batches, Open(b) PROVE BatchInv'
<1>1. PICK d \in batch[b].docs :
         /\ batch' = [batch EXCEPT ![b].pc = "copy", ![b].file = d.id]
         /\ blobs' = Written(b, d.id, 0, "part")
  BY DEF Open
<1>2. /\ Shape'
      /\ batch'[b].pc = "copy" /\ batch'[b].file = d.id
      /\ batch'[b].docs = batch[b].docs /\ batch'[b].resolved = batch[b].resolved
      /\ \A x \in Batches \ {b} : batch'[x] = batch[x]
  BY <1>1 DEF BatchInv, Shape, Open
<1>3. \A c \in blobs' : (c.batch = b /\ c.id = d.id) \/ c \in blobs
  BY <1>1, WrittenContents
<1>4. Within(b)
  BY <1>2, <1>3 DEF Within, Open
<1>5. ASSUME NEW c \in blobs', c.batch = b PROVE Answerable(b, c.id)'
  <2>1. CASE c.id = d.id
    BY <2>1, <1>2 DEF Answerable
  <2>2. CASE c \in blobs
    <3>1. Answerable(b, c.id) /\ batch[b].pc = "files"
      BY <1>5, <2>2 DEF BatchInv, LeftoverHasCause, Open
    <3> QED
      BY <3>1, <1>2 DEF Answerable, Resolved, Open
  <2> QED
    BY <2>1, <2>2, <1>3
<1> QED
  BY <1>2, <1>3, <1>4, <1>5, OnlyOwnContents DEF BatchInv, OfBatches, PoolAfterFailure, Open

\* The file in hand has been stored, or has not: either way what else there is
\* of the batch is resolved or stray, and goes on to be.
LEMMA StoredStep ==
  ASSUME BatchInv, NEW b \in Batches, NEW d \in batch[b].docs, NEW n,
         batch[b].pc = "copy", d.id = batch[b].file, Stored(b, d, n),
         UNCHANGED stray,
         \A c \in blobs' : (c.batch = b /\ c.id = d.id) \/ c \in blobs
  PROVE  BatchInv'
<1>1. ASSUME NEW c \in blobs', c.batch = b
      PROVE  \/ c.id = d.id
             \/ Resolved(b, c.id)
             \/ <<b, c.id>> \in stray
  <2>1. CASE c \in blobs
    BY <2>1, <1>1 DEF BatchInv, LeftoverHasCause, Answerable, PoolAfterFailure
  <2> QED
    BY <2>1
<1>2. CASE n = d.size
  <2>1. batch' = [batch EXCEPT ![b].pc = "files", ![b].resolved = @ \cup {d.path}]
        /\ UNCHANGED cleanup
    BY <1>2 DEF Stored
  <2>2. /\ Shape'
        /\ batch'[b].pc = "files" /\ batch'[b].docs = batch[b].docs
        /\ batch'[b].resolved = batch[b].resolved \cup {d.path}
        /\ \A x \in Batches \ {b} : batch'[x] = batch[x]
    BY <2>1 DEF BatchInv, Shape
  <2>3. ASSUME NEW c \in blobs', c.batch = b PROVE Answerable(b, c.id)'
    BY <2>2, <2>3, <1>1 DEF Answerable, Resolved
  <2>4. Within(b)
    BY <2>1, <2>2 DEF Within
  <2> QED
    BY <2>1, <2>2, <2>3, <2>4, OnlyOwnContents DEF BatchInv, OfBatches, PoolAfterFailure
<1>3. CASE n # d.size
  <2>1. Fail(b, batch[b].resolved \cup {d.path})
    BY <1>3 DEF Stored
  <2>2. ASSUME NEW c \in blobs', c.batch = b PROVE Answerable(b, c.id)'
    BY <2>1, <2>2, <1>1, FailHandsOn DEF BatchInv, Answerable, Resolved
  <2>3. Within(b) /\ Shape'
    BY <2>1, FailHandsOn DEF BatchInv, Within
  <2> QED
    BY <2>1, <2>2, <2>3, FailHandsOn, OnlyOwnContents DEF BatchInv, OfBatches
<1> QED
  BY <1>2, <1>3

LEMMA CopyStep == ASSUME BatchInv, NEW b \in Batches, Copy(b) PROVE BatchInv'
<1>1. PICK d \in batch[b].docs, n \in 0 .. MaxSize :
         /\ d.id = batch[b].file
         /\ \/ /\ \/ blobs' = Written(b, d.id, n, "whole")
                  \/ blobs' = Written(b, d.id, n, "torn")
               /\ Stored(b, d, n)
               /\ UNCHANGED stray
            \/ /\ blobs' = blobs \ BlobAt(b, d.id)
               /\ Stored(b, d, n)
               /\ UNCHANGED stray
            \/ /\ RemoveBlob(b, d.id)
               /\ Fail(b, batch[b].resolved)
  BY DEF Copy
<1>2. batch[b].pc = "copy"
  BY DEF Copy
<1>3. ASSUME NEW s, blobs' = Written(b, d.id, n, s), Stored(b, d, n), UNCHANGED stray
      PROVE  BatchInv'
  BY <1>1, <1>2, <1>3, WrittenContents, StoredStep
<1>4. CASE blobs' = blobs \ BlobAt(b, d.id) /\ Stored(b, d, n) /\ UNCHANGED stray
  BY <1>1, <1>2, <1>4, StoredStep
<1>5. CASE RemoveBlob(b, d.id) /\ Fail(b, batch[b].resolved)
  <2>1. /\ \A c \in blobs' : c \in blobs
        /\ \A c \in blobs' : c.batch = b /\ c.id = d.id => <<b, c.id>> \in stray'
        /\ \A x, id : <<x, id>> \in stray /\ <<x, id>> # <<b, d.id>> => <<x, id>> \in stray'
    BY <1>5 DEF RemoveBlob, BlobAt
  <2>2. ASSUME NEW c \in blobs', c.batch = b PROVE Answerable(b, c.id)'
    <3>1. CASE c.id = d.id
      BY <3>1, <2>1, <2>2 DEF Answerable
    <3>2. CASE c.id # d.id
      <4>1. Answerable(b, c.id)
        BY <2>1, <2>2 DEF BatchInv, LeftoverHasCause
      <4>2. Resolved(b, c.id) \/ <<b, c.id>> \in stray
        BY <4>1, <3>2, <1>1, <1>2 DEF BatchInv, PoolAfterFailure, Answerable
      <4>3. CASE Resolved(b, c.id)
        BY <4>3, <1>5, FailHandsOn DEF BatchInv, Resolved, Answerable
      <4>4. CASE <<b, c.id>> \in stray
        BY <4>4, <3>2, <2>1 DEF Answerable
      <4> QED
        BY <4>2, <4>3, <4>4
    <3> QED
      BY <3>1, <3>2
  <2>3. Within(b) /\ Shape'
    BY <1>5, <2>1, FailHandsOn DEF BatchInv, Within
  <2> QED
    BY <1>5, <2>1, <2>2, <2>3, FailHandsOn, OnlyOwnContents DEF BatchInv, OfBatches
<1> QED
  BY <1>1, <1>3, <1>4, <1>5

LEMMA RefuseStep == ASSUME BatchInv, NEW b \in Batches, Refuse(b) PROVE BatchInv'
  BY FailAnswers DEF Refuse

LEMMA NoMoreFilesStep == ASSUME BatchInv, NEW b \in Batches, NoMoreFiles(b) PROVE BatchInv'
<1>1. CASE batch' = [batch EXCEPT ![b].pc = "tx"] /\ UNCHANGED cleanup
  <2>1. /\ Shape'
        /\ batch'[b].pc = "tx" /\ batch'[b].docs = batch[b].docs
        /\ batch'[b].resolved = batch[b].resolved
        /\ \A x \in Batches \ {b} : batch'[x] = batch[x]
    BY <1>1 DEF BatchInv, Shape
  <2>2. UNCHANGED <<blobs, stray>> /\ batch[b].pc = "files"
    BY DEF NoMoreFiles
  <2>3. Within(b)
    BY <1>1, <2>1, <2>2 DEF Within
  <2>4. ASSUME NEW c \in blobs', c.batch = b PROVE Answerable(b, c.id)'
    BY <1>1, <2>1, <2>2, <2>4 DEF BatchInv, LeftoverHasCause, Answerable, Resolved
  <2> QED
    BY <1>1, <2>1, <2>2, <2>3, <2>4, OnlyOwnContents DEF BatchInv, OfBatches, PoolAfterFailure
<1>2. CASE Fail(b, batch[b].resolved)
  BY <1>2, FailAnswers DEF NoMoreFiles
<1> QED
  BY <1>1, <1>2 DEF NoMoreFiles

LEMMA RecordAllStep == ASSUME BatchInv, NEW b \in Batches, RecordAll(b) PROVE BatchInv'
  BY FailAnswers DEF RecordAll
-----------------------------------------------------------------------------
(***************************************************************************)
(* The steps of a cleanup, and a crash.                                    *)
(***************************************************************************)
LEMMA FeedStep == ASSUME BatchInv, NEW b \in Batches, Feed(b) PROVE BatchInv'
<1>1. PICK k \in cleanup[b].left :
         cleanup' = [cleanup EXCEPT ![b].left = @ \ {k}, ![b].held = @ \cup {k}]
  BY DEF Feed
<1>2. UNCHANGED <<batch, blobs, stray>>
  BY DEF Feed
<1>3. /\ Shape'
      /\ cleanup'[b].left = cleanup[b].left \ {k}
      /\ cleanup'[b].held = cleanup[b].held \cup {k}
      /\ \A x \in Batches \ {b} : cleanup'[x] = cleanup[x]
  BY <1>1, <1>2 DEF BatchInv, Shape
<1>4. Within(b)
  BY <1>2, <1>3 DEF Within
<1>5. ASSUME NEW c \in blobs', c.batch = b PROVE Answerable(b, c.id)'
  BY <1>2, <1>3, <1>5 DEF BatchInv, LeftoverHasCause, Answerable, Resolved
<1>6. batch[b].pc = "cleaning"
  BY <1>1 DEF BatchInv, PoolAfterFailure
<1> QED
  BY <1>2, <1>3, <1>4, <1>5, <1>6, OnlyOwnContents DEF BatchInv, OfBatches

LEMMA DeleteStep == ASSUME BatchInv, NEW b \in Batches, Delete(b) PROVE BatchInv'
<1>1. PICK k \in cleanup[b].held :
         /\ RemoveBlob(b, k)
         /\ cleanup' = [cleanup EXCEPT ![b].held = @ \ {k}]
         /\ UNCHANGED batch
  BY DEF Delete
<1>2. /\ Shape'
      /\ cleanup'[b].left = cleanup[b].left
      /\ cleanup'[b].held = cleanup[b].held \ {k}
      /\ \A x \in Batches \ {b} : cleanup'[x] = cleanup[x]
  BY <1>1 DEF BatchInv, Shape
<1>3. /\ \A c \in blobs' : c \in blobs
      /\ \A c \in blobs' : c.batch = b /\ c.id = k => <<b, c.id>> \in stray'
      /\ \A x, id : <<x, id>> \in stray /\ <<x, id>> # <<b, k>> => <<x, id>> \in stray'
  BY <1>1 DEF RemoveBlob, BlobAt
<1>4. Within(b)
  BY <1>1, <1>2, <1>3 DEF Within
<1>5. ASSUME NEW c \in blobs', c.batch = b PROVE Answerable(b, c.id)'
  <2>1. CASE c.id = k
    BY <2>1, <1>3, <1>5 DEF Answerable
  <2>2. CASE c.id # k
    BY <2>2, <1>1, <1>2, <1>3, <1>5 DEF BatchInv, LeftoverHasCause, Answerable, Resolved
  <2> QED
    BY <2>1, <2>2
<1>6. batch[b].pc = "cleaning"
  BY <1>1 DEF BatchInv, PoolAfterFailure
<1> QED
  BY <1>1, <1>2, <1>3, <1>4, <1>5, <1>6, OnlyOwnContents DEF BatchInv, OfBatches

\* The pool of a batch that ends has nothing left, so it answers for nothing.
LEMMA CleanupEndStep == ASSUME BatchInv, NEW b \in Batches, CleanupEnd(b) PROVE BatchInv'
<1>1. /\ Shape'
      /\ batch'[b].pc = "ended"
      /\ cleanup'[b] = NoPool
      /\ \A x \in Batches \ {b} : batch'[x] = batch[x] /\ cleanup'[x] = cleanup[x]
  BY DEF BatchInv, Shape, CleanupEnd, NoPool
<1>2. UNCHANGED <<blobs, stray>>
  BY DEF CleanupEnd
<1>3. ASSUME NEW c \in blobs', c.batch = b PROVE Answerable(b, c.id)'
  BY <1>2, <1>3 DEF BatchInv, LeftoverHasCause, Answerable, CleanupEnd
<1>4. Within(b)
  BY <1>1, <1>2 DEF Within
<1> QED
  BY <1>1, <1>2, <1>3, <1>4, OnlyOwnContents DEF BatchInv, OfBatches, NoPool

LEMMA CrashStep == ASSUME BatchInv, Crash PROVE BatchInv'
<1>1. Shape'
  BY DEF BatchInv, Shape, Crash, NoPool
<1>2. PoolAfterFailure'
  BY DEF PoolAfterFailure, Crash, NoPool
<1>3. OfBatches' /\ LeftoverHasCause'
  BY DEF BatchInv, OfBatches, LeftoverHasCause, Answerable, Crash
<1> QED
  BY <1>1, <1>2, <1>3 DEF BatchInv

LEMMA BatchNextInv == BatchInv /\ [BatchNext]_bvars => BatchInv'
<1>1. ASSUME BatchInv, BatchNext PROVE BatchInv'
  BY <1>1, BeginStep, OpenStep, RefuseStep, CopyStep, NoMoreFilesStep, RecordAllStep,
     FeedStep, DeleteStep, CleanupEndStep, CrashStep DEF BatchNext, Execute, Clean
<1>2. ASSUME BatchInv, UNCHANGED bvars PROVE BatchInv'
  BY <1>2 DEF bvars, BatchInv, Shape, OfBatches, PoolAfterFailure, LeftoverHasCause,
              Answerable, Resolved
<1> QED
  BY <1>1, <1>2

\* The contents of a batch are always in somebody's hands: no path through
\* Execute, whatever arrives and whatever fails, forgets a file it has stored.
THEOREM LeftoverHasCauseHolds == BatchSpec => []LeftoverHasCause
<1>1. BatchInv => LeftoverHasCause
  BY DEF BatchInv
<1> QED
  BY BatchInitInv, BatchNextInv, <1>1, PTL DEF BatchSpec

-----------------------------------------------------------------------------
(***************************************************************************)
(* processManifest: its recursive functions exist, and so are what their   *)
(* equations say, and every tree on the way satisfies one invariant.  The  *)
(* inductions are over sets of numbers: the functions are concrete, so no  *)
(* theorem with a predicate for a parameter is needed.                     *)
(***************************************************************************)
\* Induction over the numbers, of a set instead of a predicate.
LEMMA NatSets ==
    ASSUME NEW S \in SUBSET Nat, 0 \in S, \A n \in S : n + 1 \in S
    PROVE  S = Nat
<1>1. ASSUME Nat \ S # {} PROVE FALSE
  <2>1. PICK m \in Nat \ S : \A x \in Nat \ S : ~(<<x, m>> \in OpToRel(<, Nat))
    BY <1>1, WFMin, NatLessThanWellFounded, Zenon
  <2>2. m # 0 /\ m - 1 \in Nat /\ m - 1 < m /\ (m - 1) + 1 = m OBVIOUS
  <2>3. m - 1 \notin S BY <2>2
  <2>4. <<m - 1, m>> \in OpToRel(<, Nat) BY <2>2 DEF OpToRel
  <2> QED BY <2>1, <2>2, <2>3, <2>4
<1> QED BY <1>1

\* A path has a name, and so a last one.
LEMMA PathsHaveNames ==
    ASSUME NEW e \in Entry PROVE e.path \in Seq(STRING) /\ Len(e.path) \in Nat \ {0}
BY PathsAssumption DEF Entry

\* The walk of an entry exists: for every length, by induction, there is a function
\* that goes that far, and the one of the definition is such a one.
LEMMA WalkDef ==
    ASSUME NEW tree, NEW e \in Entry, NEW i
    PROVE  \E w : /\ w = Walk(tree, e, i)
                  /\ w[0] = [tree EXCEPT !.at = <<>>]
                  /\ \A j \in 1 .. Len(e.path) : w[j] = Segment(w[j - 1], e, i, j)
<1> DEFINE A == [tree EXCEPT !.at = <<>>]
           N == Len(e.path)
           P(k, g) == g = [j \in 0 .. k |-> IF j = 0 THEN A ELSE Segment(g[j - 1], e, i, j)]
           S == {k \in Nat : \E g : P(k, g)}
<1>0. N \in Nat BY PathsHaveNames
<1>1. 0 \in S
  <2> DEFINE g0 == [j \in 0 .. 0 |-> A]
  <2>1. P(0, g0) OBVIOUS
  <2> QED BY <2>1
<1>2. ASSUME NEW k \in S PROVE k + 1 \in S
  <2>1. PICK g : P(k, g) OBVIOUS
  <2> HIDE DEF A
  <2> DEFINE h == [j \in 0 .. k + 1 |-> IF j <= k THEN g[j] ELSE Segment(g[k], e, i, k + 1)]
  <2>2. ASSUME NEW j \in 0 .. k + 1
        PROVE h[j] = IF j = 0 THEN A ELSE Segment(h[j - 1], e, i, j)
    <3>1. CASE j = 0 BY <3>1, <2>1
    <3>2. CASE j \in 1 .. k
      <4>1. j - 1 \in 0 .. k /\ h[j - 1] = g[j - 1] BY <3>2
      <4>2. h[j] = g[j] /\ g[j] = Segment(g[j - 1], e, i, j) BY <3>2, <2>1
      <4> QED BY <4>1, <4>2, <3>2
    <3>3. CASE j = k + 1
      <4>1. j - 1 = k /\ h[k] = g[k] BY <3>3
      <4>2. h[j] = Segment(g[k], e, i, k + 1) BY <3>3
      <4> QED BY <4>1, <4>2, <3>3
    <3> QED BY <3>1, <3>2, <3>3
  <2>3. P(k + 1, h) BY <2>2
  <2>4. \E f : P(k + 1, f) BY <2>3, Zenon
  <2> HIDE DEF P
  <2> QED BY <2>4
<1>3. S = Nat
  <2> HIDE DEF P
  <2> QED BY <1>1, <1>2, NatSets
<1>4. PICK g : P(N, g) BY <1>3, <1>0
<1>5. P(N, Walk(tree, e, i)) BY <1>4, Zenon DEF Walk
<1>6. PICK w : w = Walk(tree, e, i) /\ P(N, w) BY <1>5, Zenon
<1>7. w[0] = A /\ \A j \in 1 .. N : w[j] = Segment(w[j - 1], e, i, j)
  <2> HIDE DEF A, N
  <2> QED BY <1>6, <1>0
<1> QED BY <1>6, <1>7, Zenon

\* So do the trees of a manifest.
LEMMA TreesDef ==
    ASSUME NEW man \in Seq(Entry)
    PROVE  \E w : /\ w = Trees(man)
                  /\ w[0] = NoTree
                  /\ \A i \in 1 .. Len(man) : w[i] = AddEntry(w[i - 1], man[i], i)
<1> DEFINE N == Len(man)
           P(k, g) == g = [i \in 0 .. k |->
                             IF i = 0 THEN NoTree ELSE AddEntry(g[i - 1], man[i], i)]
           S == {k \in Nat : \E g : P(k, g)}
<1>0. N \in Nat OBVIOUS
<1>1. 0 \in S
  <2> DEFINE g0 == [i \in 0 .. 0 |-> NoTree]
  <2>1. P(0, g0) OBVIOUS
  <2> QED BY <2>1
<1>2. ASSUME NEW k \in S PROVE k + 1 \in S
  <2>1. PICK g : P(k, g) OBVIOUS
  <2> DEFINE h == [i \in 0 .. k + 1 |-> IF i <= k THEN g[i]
                                        ELSE AddEntry(g[k], man[k + 1], k + 1)]
  <2>2. ASSUME NEW i \in 0 .. k + 1
        PROVE h[i] = IF i = 0 THEN NoTree ELSE AddEntry(h[i - 1], man[i], i)
    <3>1. CASE i = 0 BY <3>1, <2>1
    <3>2. CASE i \in 1 .. k
      <4>1. i - 1 \in 0 .. k /\ h[i - 1] = g[i - 1] BY <3>2
      <4>2. h[i] = g[i] /\ g[i] = AddEntry(g[i - 1], man[i], i) BY <3>2, <2>1
      <4> QED BY <4>1, <4>2, <3>2
    <3>3. CASE i = k + 1
      <4>1. i - 1 = k /\ h[k] = g[k] BY <3>3
      <4>2. h[i] = AddEntry(g[k], man[k + 1], k + 1) BY <3>3
      <4> QED BY <4>1, <4>2, <3>3
    <3> QED BY <3>1, <3>2, <3>3
  <2>3. P(k + 1, h) BY <2>2
  <2>4. \E f : P(k + 1, f) BY <2>3, Zenon
  <2> HIDE DEF P
  <2> QED BY <2>4
<1>3. S = Nat
  <2> HIDE DEF P
  <2> QED BY <1>1, <1>2, NatSets
<1>4. PICK g : P(N, g) BY <1>3, <1>0
<1>5. P(N, Trees(man)) BY <1>4, Zenon DEF Trees
<1>6. PICK w : w = Trees(man) /\ P(N, w) BY <1>5, Zenon
<1>7. w[0] = NoTree /\ \A i \in 1 .. N : w[i] = AddEntry(w[i - 1], man[i], i)
  <2> HIDE DEF N
  <2> QED BY <1>6, <1>0
<1> QED BY <1>6, <1>7, Zenon

\* The values of a tree in progress.
DocType == [path : Paths, id : Id, size : Announced]
FolderType == [path : Seq(STRING), id : Id]
RowType == [id : Id, path : Seq(Id), name : STRING, type : {"folder", "file"}]

TreeType == [ok : BOOLEAN, docs : SUBSET DocType, folders : SUBSET FolderType,
             nodes : SUBSET RowType, at : Seq(Id)]

\* The directory that j names of an entry lead to.
LEMMA PathPrefix ==
    ASSUME NEW e \in Entry, NEW j \in 0 .. Len(e.path)
    PROVE  /\ SubSeq(e.path, 1, j) \in Seq(STRING) /\ Len(SubSeq(e.path, 1, j)) = j
           /\ \A k \in 1 .. j : SubSeq(e.path, 1, j)[k] = e.path[k]
           /\ j = Len(e.path) => SubSeq(e.path, 1, j) = e.path
<1>1. e.path \in Seq(STRING) /\ Len(e.path) \in Nat BY PathsHaveNames
<1>2. \A k \in 1 .. j : e.path[k] \in STRING BY <1>1
<1>3. j - 1 + 1 = j /\ (IF 1 <= j THEN j ELSE 0) = j /\ \A k \in 1 .. j : 1 + k - 1 = k BY <1>1
<1>4. SubSeq(e.path, 1, j) \in Seq(STRING) /\ Len(SubSeq(e.path, 1, j)) = j
  BY <1>1, <1>2, <1>3, SubSeqProperties
<1>5. \A k \in 1 .. j : SubSeq(e.path, 1, j)[k] = e.path[k] BY <1>1, <1>2, <1>3, SubSeqProperties
<1>6. j = Len(e.path) => SubSeq(e.path, 1, j) = e.path BY <1>1, SubSeqFull
<1> QED BY <1>4, <1>5, <1>6

\* What a name does to a tree: it leads into a folder, makes a doc or a folder.
WalksInto(t, u, e, j) ==
    /\ \E f \in t.folders : f.path = SubSeq(e.path, 1, j) /\ u.at = Append(t.at, f.id)
    /\ u.docs = t.docs /\ u.folders = t.folders /\ u.nodes = t.nodes

NewRow(t, e, i, j, type) ==
    [id |-> <<i, j>>, path |-> Append(t.at, <<i, j>>), name |-> e.path[j], type |-> type]

MakesDoc(t, u, e, i, j) ==
    /\ j = Len(e.path) /\ u.folders = t.folders
    /\ u.docs = t.docs \cup {[path |-> SubSeq(e.path, 1, j), id |-> <<i, j>>, size |-> e.size]}
    /\ u.nodes = t.nodes \cup {NewRow(t, e, i, j, "file")}

MakesFolder(t, u, e, i, j) ==
    /\ j < Len(e.path) /\ u.docs = t.docs /\ u.at = Append(t.at, <<i, j>>)
    /\ \A f \in t.folders : f.path # SubSeq(e.path, 1, j)
    /\ u.folders = t.folders \cup {[path |-> SubSeq(e.path, 1, j), id |-> <<i, j>>]}
    /\ u.nodes = t.nodes \cup {NewRow(t, e, i, j, "folder")}

\* Those three are what Segment does.
LEMMA SegmentCases ==
    ASSUME NEW t \in TreeType, NEW e \in Entry, NEW i \in 1 .. MaxEntries,
           NEW j \in 1 .. Len(e.path), NEW u, u = Segment(t, e, i, j)
    PROVE  /\ u \in TreeType /\ <<i, j>> \in Id /\ Append(t.at, <<i, j>>) \in Seq(Id)
           /\ WalksInto(t, u, e, j) \/ MakesDoc(t, u, e, i, j) \/ MakesFolder(t, u, e, i, j)
<1> DEFINE dir == SubSeq(e.path, 1, j)
           id == <<i, j>>
           path == Append(t.at, id)
           row == [id |-> id, path |-> path, name |-> e.path[j], type |-> "folder"]
           found == {f \in t.folders : f.path = dir}
<1>1. e.path \in Seq(STRING) /\ Len(e.path) \in Nat /\ e.path \in Paths /\ e.size \in Announced
  BY PathsHaveNames DEF Entry
<1>2. dir \in Seq(STRING) /\ (j = Len(e.path) => dir \in Paths)
  <2>1. j \in 0 .. Len(e.path) BY <1>1
  <2> QED BY <1>1, <2>1, PathPrefix
<1>3. id \in Id BY <1>1, BoundsAssumption DEF Id
<1>4. t.at \in Seq(Id) /\ path \in Seq(Id) BY <1>3 DEF TreeType
<1>5. e.path[j] \in STRING BY <1>1
<1>6. row \in RowType /\ [row EXCEPT !.type = "file"] \in RowType
      /\ [row EXCEPT !.type = "file"] = [id |-> id, path |-> path, name |-> e.path[j], type |-> "file"]
  <2> HIDE DEF id, path
  <2> QED BY <1>3, <1>4, <1>5 DEF RowType
<1>7. CASE found # {}
  <2>1. PICK f \in found : f = CHOOSE x \in found : TRUE BY <1>7
  <2>2. f \in t.folders /\ f.path = dir /\ f.id \in Id BY <2>1 DEF TreeType, FolderType
  <2>3. u = [t EXCEPT !.at = Append(@, f.id)] BY <1>7, <2>1 DEF Segment
  <2>4. Append(t.at, f.id) \in Seq(Id) BY <1>4, <2>2
  <2>5. u \in TreeType /\ u.at = Append(t.at, f.id) /\ u.docs = t.docs /\ u.ok = t.ok
        /\ u.folders = t.folders /\ u.nodes = t.nodes
    BY <2>3, <2>4 DEF TreeType
  <2> QED BY <2>2, <2>5, <1>3, <1>4 DEF WalksInto
<1>8. CASE found = {} /\ j = Len(e.path)
  <2> DEFINE doc == [path |-> dir, id |-> id, size |-> e.size]
             new == [row EXCEPT !.type = "file"]
  <2>1. u = [t EXCEPT !.docs = @ \cup {doc}, !.nodes = @ \cup {new}] BY <1>8 DEF Segment
  <2>2. doc \in DocType BY <1>1, <1>2, <1>3, <1>8 DEF DocType
  <2>3. new \in RowType BY <1>6
  <2>4. u \in TreeType /\ u.at = t.at /\ u.docs = t.docs \cup {doc} /\ u.ok = t.ok
        /\ u.folders = t.folders /\ u.nodes = t.nodes \cup {new}
    <3> HIDE DEF doc, new
    <3> QED BY <2>1, <2>2, <2>3 DEF TreeType
  <2> QED BY <2>4, <1>3, <1>4, <1>6, <1>8 DEF MakesDoc, NewRow
<1>9. CASE found = {} /\ j # Len(e.path)
  <2> DEFINE fld == [path |-> dir, id |-> id]
  <2>1. u = [t EXCEPT !.folders = @ \cup {fld}, !.nodes = @ \cup {row}, !.at = path]
    BY <1>9 DEF Segment
  <2>2. fld \in FolderType BY <1>2, <1>3 DEF FolderType
  <2>4. u \in TreeType /\ u.at = path /\ u.docs = t.docs /\ u.ok = t.ok
        /\ u.folders = t.folders \cup {fld} /\ u.nodes = t.nodes \cup {row}
    <3> HIDE DEF fld, row, path
    <3>1. u = [ok |-> t.ok, docs |-> t.docs, folders |-> t.folders \cup {fld},
               nodes |-> t.nodes \cup {row}, at |-> path]
      BY <2>1 DEF TreeType
    <3>2. t.ok \in BOOLEAN BY Zenon DEF TreeType
    <3>3. t.docs \in SUBSET DocType /\ t.folders \cup {fld} \in SUBSET FolderType
          /\ t.nodes \cup {row} \in SUBSET RowType
      BY <2>2, <1>6 DEF TreeType
    <3> QED BY <3>1, <3>2, <3>3, <1>4 DEF TreeType
  <2>5. \A f \in t.folders : f.path # dir BY <1>9
  <2>6. j < Len(e.path) BY <1>9, <1>1
  <2> QED BY <2>4, <2>5, <2>6, <1>3, <1>4 DEF MakesFolder, NewRow
<1> QED BY <1>7, <1>8, <1>9

\* An id of an earlier entry, or of the first j names of entry i.
Before(id, i, j) == id[1] < i \/ (id[1] = i /\ id[2] <= j)

\* The rows of a path of ids have the given names, one by one.
Spells(nodes, ids, names) ==
    /\ Len(ids) = Len(names)
    /\ \A k \in 1 .. Len(ids) : \E m \in nodes : m.id = ids[k] /\ m.name = names[k]

(***************************************************************************)
(* The inductive invariant of processManifest, of a tree that has taken    *)
(* the entries before i and the first j names of entry i: ids are used     *)
(* once and in order; folders by path, and their rows, go together, and    *)
(* each is above a file of the manifest; a doc has a row that is reached   *)
(* by its names; and no two docs share a path or an id.                    *)
(***************************************************************************)
RowsOnce(t) == \A m, n \in t.nodes : m.id = n.id => m = n
RowsBefore(t, i, j) == \A n \in t.nodes : Before(n.id, i, j)
FoldersHaveRows(t) ==
    \A f \in t.folders : \E n \in t.nodes :
        /\ n.type = "folder" /\ n.id = f.id /\ n.name = f.path[Len(f.path)]
        /\ Spells(t.nodes, n.path, f.path)
RowsHaveFolders(t) == \A n \in t.nodes : n.type = "folder" => \E f \in t.folders : f.id = n.id
FoldersOnce(t) == \A f, g \in t.folders : f.path = g.path => f = g
FoldersLead(t, man, i) ==
    \A f \in t.folders : \E k \in 1 .. i :
        /\ Len(f.path) < Len(man[k].path)
        /\ f.path = SubSeq(man[k].path, 1, Len(f.path))
DocsHaveRows(t) ==
    \A d \in t.docs : \E n \in t.nodes :
        n.type = "file" /\ n.id = d.id /\ Spells(t.nodes, n.path, d.path)
DocsOnce(t) == \A c, d \in t.docs : c.path = d.path \/ c.id = d.id => c = d

TreeInv(t, man, i, j) ==
    /\ t \in TreeType
    /\ RowsOnce(t) /\ RowsBefore(t, i, j)
    /\ FoldersHaveRows(t) /\ RowsHaveFolders(t) /\ FoldersOnce(t) /\ FoldersLead(t, man, i)
    /\ DocsHaveRows(t) /\ DocsOnce(t) /\ IsFiniteSet(t.docs)

\* Entry e is walked down to its name j, and has no doc yet.
Under(t, e, j) ==
    Spells(t.nodes, t.at, SubSeq(e.path, 1, j)) /\ \A d \in t.docs : d.path # e.path

\* At the end of its walk its path has a doc, or is a folder's.
Entered(t, p) == (\E d \in t.docs : d.path = p) \/ (\E f \in t.folders : f.path = p)

\* Spelling survives new rows, and goes on by a name.
LEMMA SpellsMore ==
    ASSUME NEW nodes, NEW more, nodes \subseteq more, NEW ids, NEW names,
           Spells(nodes, ids, names)
    PROVE  Spells(more, ids, names)
BY DEF Spells

LEMMA SpellsNext ==
    ASSUME NEW e \in Entry, NEW j \in 1 .. Len(e.path), NEW nodes, NEW ids \in Seq(Id),
           Spells(nodes, ids, SubSeq(e.path, 1, j - 1)),
           NEW m \in nodes, m.id \in Id, m.name = e.path[j]
    PROVE  Spells(nodes, Append(ids, m.id), SubSeq(e.path, 1, j))
<1>0. e.path \in Seq(STRING) /\ Len(e.path) \in Nat BY PathsHaveNames
<1>1. j \in 0 .. Len(e.path) /\ j - 1 \in 0 .. Len(e.path) /\ j - 1 + 1 = j BY <1>0
<1> DEFINE p == SubSeq(e.path, 1, j)
           q == SubSeq(e.path, 1, j - 1)
           x == Append(ids, m.id)
<1>2. Len(p) = j /\ Len(q) = j - 1 BY <1>1, PathPrefix
<1>3. \A k \in 1 .. j - 1 : q[k] = e.path[k] BY <1>1, PathPrefix
<1>3a. \A k \in 1 .. j : p[k] = e.path[k] BY <1>1, PathPrefix
<1>4. Len(ids) = j - 1 BY <1>2 DEF Spells
<1>5. Len(x) = j /\ x[j] = m.id /\ \A k \in 1 .. j - 1 : x[k] = ids[k] BY <1>4, <1>1
<1> HIDE DEF p, q, x
<1>6. ASSUME NEW k \in 1 .. j PROVE \E n \in nodes : n.id = x[k] /\ n.name = p[k]
  <2>1. CASE k = j BY <2>1, <1>5, <1>3a
  <2>2. CASE k \in 1 .. j - 1
    <3>1. PICK n \in nodes : n.id = ids[k] /\ n.name = q[k] BY <2>2, <1>4 DEF Spells, q
    <3> QED BY <3>1, <2>2, <1>3, <1>3a, <1>5
  <2> QED BY <2>1, <2>2, <1>1, <1>0
<1>7. Spells(nodes, x, p) BY <1>2, <1>5, <1>6 DEF Spells
<1> QED BY <1>7 DEF x, p

\* A new row is not one of those there are.
LEMMA NotBefore ==
    ASSUME NEW i \in Nat, NEW j \in Nat \ {0}
    PROVE  /\ ~Before(<<i, j>>, i, j - 1) /\ Before(<<i, j>>, i, j)
           /\ \A id \in Id : Before(id, i, j - 1) => Before(id, i, j) /\ id # <<i, j>>
<1>1. \A id \in Id : id[1] \in Nat /\ id[2] \in Nat BY BoundsAssumption DEF Id
<1> QED BY <1>1 DEF Before

LEMMA OldRows ==
    ASSUME NEW t \in TreeType, NEW man \in Seq(Entry), NEW i \in Nat, NEW k \in Nat,
           TreeInv(t, man, i, k), NEW j, j = k + 1
    PROVE  /\ \A n \in t.nodes : n.id # <<i, j>> /\ Before(n.id, i, j)
           /\ \A f \in t.folders : f.id # <<i, j>>
           /\ \A d \in t.docs : d.id # <<i, j>>
<1>1. \A n \in t.nodes : n.id \in Id BY DEF TreeType, RowType
<1>2. \A n \in t.nodes : Before(n.id, i, k) BY DEF TreeInv, RowsBefore
<1>3. ASSUME NEW n \in t.nodes PROVE n.id # <<i, j>> /\ Before(n.id, i, j)
  <2>1. j \in Nat \ {0} /\ k = j - 1 OBVIOUS
  <2>2. Before(n.id, i, j - 1) BY <1>2, <2>1, Zenon
  <2> QED BY <1>1, <2>1, <2>2, NotBefore
<1>4. \A f \in t.folders : \E n \in t.nodes : n.id = f.id BY DEF TreeInv, FoldersHaveRows
<1>5. \A d \in t.docs : \E n \in t.nodes : n.id = d.id BY DEF TreeInv, DocsHaveRows
<1> QED BY <1>3, <1>4, <1>5

\* An existing folder is walked into.
LEMMA IntoFolder ==
    ASSUME NEW man \in Seq(Entry), NEW i \in 1 .. Len(man), NEW e \in Entry,
           NEW j \in 1 .. Len(e.path), NEW t \in TreeType, NEW u \in TreeType,
           TreeInv(t, man, i, j - 1), Under(t, e, j - 1),
           u.docs = t.docs, u.folders = t.folders, u.nodes = t.nodes,
           NEW f \in t.folders, f.path = SubSeq(e.path, 1, j), u.at = Append(t.at, f.id)
    PROVE  TreeInv(u, man, i, j) /\ Under(u, e, j)
           /\ (j = Len(e.path) => Entered(u, e.path))
<1>1. e.path \in Seq(STRING) /\ Len(e.path) \in Nat BY PathsHaveNames
<1>2. j \in 0 .. Len(e.path) /\ j - 1 \in Nat /\ j - 1 + 1 = j /\ i \in Nat BY <1>1
<1>3. RowsBefore(u, i, j)
  <2>1. j \in Nat \ {0} BY <1>1
  <2> QED BY <1>2, <2>1, OldRows DEF RowsBefore
<1>4. TreeInv(u, man, i, j)
  <2>1. RowsOnce(u) /\ FoldersHaveRows(u) /\ RowsHaveFolders(u) /\ FoldersOnce(u)
        /\ FoldersLead(u, man, i) /\ DocsHaveRows(u) /\ DocsOnce(u)
    BY DEF TreeInv, RowsOnce, FoldersHaveRows, RowsHaveFolders, FoldersOnce, FoldersLead,
           DocsHaveRows, DocsOnce
  <2> QED BY <2>1, <1>3 DEF TreeInv
<1>5. Len(f.path) = j /\ f.path[j] = e.path[j] BY <1>1, <1>2, PathPrefix
<1>6. PICK n \in t.nodes : n.id = f.id /\ n.name = f.path[Len(f.path)]
  BY DEF TreeInv, FoldersHaveRows
<1>7. n.id \in Id /\ t.at \in Seq(Id) BY DEF TreeType, RowType
<1>8. n.name = e.path[j] BY <1>5, <1>6
<1>9. Spells(t.nodes, t.at, SubSeq(e.path, 1, j - 1)) BY DEF Under
<1>10. Spells(t.nodes, Append(t.at, n.id), SubSeq(e.path, 1, j))
  BY <1>7, <1>8, <1>9, SpellsNext
<1>11. Spells(u.nodes, u.at, SubSeq(e.path, 1, j)) BY <1>10, <1>6
<1>12. Under(u, e, j) BY <1>11 DEF Under
<1>13. j = Len(e.path) => f.path = e.path BY <1>2, PathPrefix
<1> QED BY <1>4, <1>12, <1>13 DEF Entered

\* A row with a new id leaves ids unique and the paths of ids spelling what they did.
LEMMA RowAdded ==
    ASSUME NEW man \in Seq(Entry), NEW i \in Nat, NEW k \in Nat,
           NEW t \in TreeType, NEW u \in TreeType, TreeInv(t, man, i, k),
           NEW row \in RowType, row.id = <<i, k + 1>>,
           t.nodes \subseteq u.nodes, \A n \in u.nodes : n \in t.nodes \/ n = row
    PROVE  /\ RowsOnce(u) /\ RowsBefore(u, i, k + 1)
           /\ \A ids, names : Spells(t.nodes, ids, names) => Spells(u.nodes, ids, names)
<1>1. \A n \in t.nodes : n.id # <<i, k + 1>> /\ Before(n.id, i, k + 1)
  BY OldRows
<1>2. Before(row.id, i, k + 1)
  BY DEF Before
<1>3. RowsOnce(t) BY DEF TreeInv
<1>4. RowsOnce(u) BY <1>1, <1>3 DEF RowsOnce
<1>5. RowsBefore(u, i, k + 1) BY <1>1, <1>2 DEF RowsBefore
<1> QED BY <1>4, <1>5, SpellsMore

\* A folder is made.
LEMMA FolderMade ==
    ASSUME NEW man \in Seq(Entry), NEW i \in 1 .. Len(man), NEW e \in Entry, e = man[i],
           NEW j \in 1 .. Len(e.path), NEW t \in TreeType, NEW u \in TreeType,
           TreeInv(t, man, i, j - 1), Under(t, e, j - 1), j < Len(e.path),
           \A f \in t.folders : f.path # SubSeq(e.path, 1, j),
           NEW row \in RowType,
           row.id = <<i, j>>, row.path = Append(t.at, <<i, j>>), row.name = e.path[j],
           row.type = "folder",
           NEW fld \in FolderType, fld.path = SubSeq(e.path, 1, j), fld.id = <<i, j>>,
           u.docs = t.docs, u.at = Append(t.at, <<i, j>>),
           u.folders = t.folders \cup {fld}, u.nodes = t.nodes \cup {row}
    PROVE  TreeInv(u, man, i, j) /\ Under(u, e, j)
<1>1. e.path \in Seq(STRING) /\ Len(e.path) \in Nat BY PathsHaveNames
<1>2. j \in 0 .. Len(e.path) /\ j \in Nat \ {0} /\ j - 1 \in Nat /\ j - 1 + 1 = j /\ i \in Nat
  BY <1>1
<1>3. row.id = <<i, j>> /\ row.path = Append(t.at, <<i, j>>) /\ row.name = e.path[j]
      /\ row.type = "folder" /\ fld.path = SubSeq(e.path, 1, j) /\ fld.id = <<i, j>>
      /\ row.id \in Id /\ t.at \in Seq(Id)
  BY DEF RowType, TreeType
<1>3a. PICK k \in Nat : k = j - 1 /\ j = k + 1 BY <1>2
<1>3b. TreeInv(t, man, i, k) BY <1>3a
<1>3c. t.nodes \subseteq u.nodes /\ \A n \in u.nodes : n \in t.nodes \/ n = row OBVIOUS
<1>3d. row.id = <<i, k + 1>> BY <1>3, <1>3a
<1>3e. RowsOnce(u) /\ RowsBefore(u, i, k + 1)
  BY <1>2, <1>3d, <1>3b, <1>3c, RowAdded
<1>4. RowsOnce(u) /\ RowsBefore(u, i, j) BY <1>3a, <1>3e
<1>5. \A ids, names : Spells(t.nodes, ids, names) => Spells(u.nodes, ids, names)
  BY <1>3c, SpellsMore
<1>6. Spells(u.nodes, u.at, SubSeq(e.path, 1, j))
  <2>1. Spells(u.nodes, t.at, SubSeq(e.path, 1, j - 1)) BY <1>5 DEF Under
  <2>2. row \in u.nodes OBVIOUS
  <2>3. Spells(u.nodes, Append(t.at, row.id), SubSeq(e.path, 1, j))
    BY <2>1, <2>2, <1>3, SpellsNext
  <2> QED BY <2>3, <1>3
<1>7. Len(fld.path) = j /\ fld.path[j] = e.path[j] BY <1>1, <1>2, <1>3, PathPrefix
<1>8. FoldersHaveRows(u)
  <2>1. ASSUME NEW f \in t.folders
        PROVE \E n \in u.nodes : /\ n.type = "folder" /\ n.id = f.id
                                 /\ n.name = f.path[Len(f.path)]
                                 /\ Spells(u.nodes, n.path, f.path)
    <3>1. PICK n \in t.nodes : /\ n.type = "folder" /\ n.id = f.id
                               /\ n.name = f.path[Len(f.path)]
                               /\ Spells(t.nodes, n.path, f.path)
      BY DEF TreeInv, FoldersHaveRows
    <3>2. Spells(u.nodes, n.path, f.path) /\ n \in u.nodes BY <3>1, <1>5
    <3> QED BY <3>1, <3>2
  <2>2. /\ row \in u.nodes /\ row.type = "folder" /\ row.id = fld.id
        /\ row.name = fld.path[Len(fld.path)] /\ Spells(u.nodes, row.path, fld.path)
    BY <1>3, <1>6, <1>7
  <2> QED BY <2>1, <2>2 DEF FoldersHaveRows
<1>9. RowsHaveFolders(u) BY <1>3 DEF TreeInv, RowsHaveFolders
<1>10. FoldersOnce(u) BY <1>3 DEF TreeInv, FoldersOnce
<1>11. FoldersLead(u, man, i)
  <2>1. Len(fld.path) < Len(man[i].path) /\ fld.path = SubSeq(man[i].path, 1, Len(fld.path))
    BY <1>3, <1>7
  <2>2. i \in 1 .. i BY <1>2
  <2> QED BY <2>1, <2>2 DEF TreeInv, FoldersLead
<1>12. DocsHaveRows(u)
  <2> SUFFICES ASSUME NEW d \in t.docs
               PROVE \E n \in u.nodes : n.type = "file" /\ n.id = d.id
                                        /\ Spells(u.nodes, n.path, d.path)
    BY DEF DocsHaveRows
  <2>1. PICK n \in t.nodes : n.type = "file" /\ n.id = d.id /\ Spells(t.nodes, n.path, d.path)
    BY DEF TreeInv, DocsHaveRows
  <2>2. Spells(u.nodes, n.path, d.path) /\ n \in u.nodes BY <2>1, <1>5
  <2> QED BY <2>1, <2>2
<1>13. DocsOnce(u) BY DEF TreeInv, DocsOnce
<1>14. TreeInv(u, man, i, j) BY <1>4, <1>8, <1>9, <1>10, <1>11, <1>12, <1>13 DEF TreeInv
<1>15. Under(u, e, j) BY <1>6 DEF Under
<1> QED BY <1>14, <1>15

LEMMA OneMore ==
    ASSUME NEW S, NEW x, NEW T, IsFiniteSet(S), T = S \cup {x} PROVE IsFiniteSet(T)
BY FS_AddElement

\* A doc is made.
LEMMA DocMade ==
    ASSUME NEW man \in Seq(Entry), NEW i \in 1 .. Len(man), NEW e \in Entry,
           NEW j \in 1 .. Len(e.path), NEW t \in TreeType, NEW u \in TreeType,
           TreeInv(t, man, i, j - 1), Under(t, e, j - 1), ~(j < Len(e.path)),
           NEW row \in RowType,
           row.id = <<i, j>>, row.path = Append(t.at, <<i, j>>), row.name = e.path[j],
           row.type = "file",
           NEW doc \in DocType,
           doc.path = SubSeq(e.path, 1, j), doc.id = <<i, j>>,
           u.docs = t.docs \cup {doc}, u.folders = t.folders, u.nodes = t.nodes \cup {row}
    PROVE  TreeInv(u, man, i, j) /\ Entered(u, e.path)
<1>1. e.path \in Seq(STRING) /\ Len(e.path) \in Nat BY PathsHaveNames
<1>2. j \in 0 .. Len(e.path) /\ j \in Nat \ {0} /\ j - 1 \in Nat /\ j - 1 + 1 = j /\ i \in Nat
  BY <1>1
<1>2a. j = Len(e.path) BY <1>1
<1>3. row.id = <<i, j>> /\ row.path = Append(t.at, <<i, j>>) /\ row.name = e.path[j]
      /\ row.type = "file" /\ doc.path = SubSeq(e.path, 1, j) /\ doc.id = <<i, j>>
      /\ row.id \in Id /\ t.at \in Seq(Id)
  BY DEF RowType, TreeType
<1>3a. PICK k \in Nat : k = j - 1 /\ j = k + 1 BY <1>2
<1>3b. TreeInv(t, man, i, k) BY <1>3a
<1>3c. t.nodes \subseteq u.nodes /\ \A n \in u.nodes : n \in t.nodes \/ n = row OBVIOUS
<1>3d. row.id = <<i, k + 1>> BY <1>3, <1>3a
<1>3e. RowsOnce(u) /\ RowsBefore(u, i, k + 1)
  BY <1>2, <1>3d, <1>3b, <1>3c, RowAdded
<1>4. RowsOnce(u) /\ RowsBefore(u, i, j) BY <1>3a, <1>3e
<1>5. \A ids, names : Spells(t.nodes, ids, names) => Spells(u.nodes, ids, names)
  BY <1>3c, SpellsMore
<1>6. Spells(u.nodes, row.path, doc.path)
  <2>1. Spells(u.nodes, t.at, SubSeq(e.path, 1, j - 1)) BY <1>5 DEF Under
  <2>2. row \in u.nodes OBVIOUS
  <2>3. Spells(u.nodes, Append(t.at, row.id), SubSeq(e.path, 1, j))
    BY <2>1, <2>2, <1>3, SpellsNext
  <2> QED BY <2>3, <1>3
<1>8. FoldersHaveRows(u)
  <2> SUFFICES ASSUME NEW f \in t.folders
               PROVE \E n \in u.nodes : /\ n.type = "folder" /\ n.id = f.id
                                        /\ n.name = f.path[Len(f.path)]
                                        /\ Spells(u.nodes, n.path, f.path)
    BY DEF FoldersHaveRows
  <2>1. PICK n \in t.nodes : /\ n.type = "folder" /\ n.id = f.id
                             /\ n.name = f.path[Len(f.path)]
                             /\ Spells(t.nodes, n.path, f.path)
    BY DEF TreeInv, FoldersHaveRows
  <2>2. Spells(u.nodes, n.path, f.path) /\ n \in u.nodes BY <2>1, <1>5
  <2> QED BY <2>1, <2>2
<1>9. RowsHaveFolders(u) BY <1>3 DEF TreeInv, RowsHaveFolders
<1>10. FoldersOnce(u) BY DEF TreeInv, FoldersOnce
<1>11. FoldersLead(u, man, i) BY DEF TreeInv, FoldersLead
<1>12. DocsHaveRows(u)
  <2>1. ASSUME NEW d \in t.docs
        PROVE \E n \in u.nodes : n.type = "file" /\ n.id = d.id
                                 /\ Spells(u.nodes, n.path, d.path)
    <3>1. PICK n \in t.nodes : n.type = "file" /\ n.id = d.id
                               /\ Spells(t.nodes, n.path, d.path)
      BY DEF TreeInv, DocsHaveRows
    <3>2. Spells(u.nodes, n.path, d.path) /\ n \in u.nodes BY <3>1, <1>5
    <3> QED BY <3>1, <3>2
  <2>2. row \in u.nodes /\ row.type = "file" /\ row.id = doc.id BY <1>3
  <2> QED BY <2>1, <2>2, <1>6 DEF DocsHaveRows
<1>13. doc.path = e.path BY <1>2, <1>2a, <1>3, PathPrefix
<1>14. DocsOnce(u)
  <2>1. \A d \in t.docs : d.path # doc.path BY <1>13 DEF Under
  <2>2. \A d \in t.docs : d.id # doc.id BY <1>2, <1>3, <1>3a, <1>3b, OldRows
  <2> QED BY <2>1, <2>2 DEF TreeInv, DocsOnce
<1>14a. IsFiniteSet(u.docs)
  <2>1. IsFiniteSet(t.docs) BY DEF TreeInv
  <2> QED BY <2>1, OneMore, Zenon
<1>15. TreeInv(u, man, i, j)
  BY <1>4, <1>8, <1>9, <1>10, <1>11, <1>12, <1>14, <1>14a DEF TreeInv
<1> QED BY <1>13, <1>15 DEF Entered

\* Docs and folders are never taken back.
Grows(t, u) == t.docs \subseteq u.docs /\ t.folders \subseteq u.folders

\* A name keeps the invariant.
LEMMA SegmentStep ==
    ASSUME NEW man \in Seq(Entry), NEW i \in 1 .. Len(man), Len(man) <= MaxEntries,
           NEW e \in Entry, e = man[i], NEW j \in 1 .. Len(e.path), NEW t \in TreeType,
           TreeInv(t, man, i, j - 1), Under(t, e, j - 1)
    PROVE  LET u == Segment(t, e, i, j)
           IN  /\ TreeInv(u, man, i, j) /\ Grows(t, u)
               /\ j < Len(e.path) => Under(u, e, j)
               /\ j = Len(e.path) => Entered(u, e.path)
<1>0. Len(e.path) \in Nat /\ i \in 1 .. MaxEntries BY PathsHaveNames, BoundsAssumption
<1>1. PICK u \in TreeType :
        /\ u = Segment(t, e, i, j) /\ <<i, j>> \in Id /\ Append(t.at, <<i, j>>) \in Seq(Id)
        /\ WalksInto(t, u, e, j) \/ MakesDoc(t, u, e, i, j) \/ MakesFolder(t, u, e, i, j)
  BY <1>0, SegmentCases, Zenon
<1>2. e.path[j] \in STRING /\ e.size \in Announced /\ SubSeq(e.path, 1, j) \in Seq(STRING)
      /\ (j = Len(e.path) => SubSeq(e.path, 1, j) \in Paths)
  <2>1. e.path \in Seq(STRING) /\ e.path \in Paths /\ e.size \in Announced
    BY PathsHaveNames DEF Entry
  <2>2. j \in 0 .. Len(e.path) BY <1>0
  <2>3. SubSeq(e.path, 1, j) \in Seq(STRING) BY <2>2, PathPrefix
  <2>4. j = Len(e.path) => SubSeq(e.path, 1, j) = e.path BY <2>2, PathPrefix
  <2>5. e.path[j] \in STRING BY <2>1
  <2> QED BY <2>1, <2>3, <2>4, <2>5, Zenon
<1>3. ASSUME NEW type \in {"folder", "file"} PROVE NewRow(t, e, i, j, type) \in RowType
  BY <1>1, <1>2 DEF RowType, NewRow
<1> DEFINE Good == /\ TreeInv(u, man, i, j) /\ Grows(t, u)
                   /\ j < Len(e.path) => Under(u, e, j)
                   /\ j = Len(e.path) => Entered(u, e.path)
<1>4. ASSUME WalksInto(t, u, e, j) PROVE Good
  <2>1. PICK f \in t.folders : f.path = SubSeq(e.path, 1, j) /\ u.at = Append(t.at, f.id)
    BY <1>4 DEF WalksInto
  <2>2. u.docs = t.docs /\ u.folders = t.folders /\ u.nodes = t.nodes BY <1>4 DEF WalksInto
  <2>3. TreeInv(u, man, i, j) /\ Under(u, e, j) /\ (j = Len(e.path) => Entered(u, e.path))
    BY <2>1, <2>2, IntoFolder
  <2>4. Grows(t, u) BY <2>2 DEF Grows
  <2> QED BY <2>3, <2>4
<1>5. ASSUME MakesDoc(t, u, e, i, j) PROVE Good
  <2>1. PICK row \in RowType : row = NewRow(t, e, i, j, "file") BY <1>3
  <2>2. PICK doc \in DocType : doc = [path |-> SubSeq(e.path, 1, j), id |-> <<i, j>>,
                                      size |-> e.size]
    BY <1>1, <1>2, <1>5 DEF DocType, MakesDoc
  <2>3. row.id = <<i, j>> /\ row.path = Append(t.at, <<i, j>>) /\ row.name = e.path[j]
        /\ row.type = "file" BY <2>1 DEF NewRow
  <2>4. doc.path = SubSeq(e.path, 1, j) /\ doc.id = <<i, j>> BY <2>2
  <2>5. u.docs = t.docs \cup {doc} /\ u.folders = t.folders /\ u.nodes = t.nodes \cup {row}
    BY <1>5, <2>1, <2>2, Zenon DEF MakesDoc
  <2>6. ~(j < Len(e.path)) BY <1>5, <1>0 DEF MakesDoc
  <2>7. TreeInv(u, man, i, j) /\ Entered(u, e.path)
    BY <2>3, <2>4, <2>5, <2>6, DocMade
  <2>8. Grows(t, u) BY <2>5 DEF Grows
  <2> QED BY <2>6, <2>7, <2>8, <1>0
<1>6. ASSUME MakesFolder(t, u, e, i, j) PROVE Good
  <2>1. PICK row \in RowType : row = NewRow(t, e, i, j, "folder") BY <1>3
  <2>2. PICK fld \in FolderType : fld = [path |-> SubSeq(e.path, 1, j), id |-> <<i, j>>]
    BY <1>1, <1>2 DEF FolderType
  <2>3. row.id = <<i, j>> /\ row.path = Append(t.at, <<i, j>>) /\ row.name = e.path[j]
        /\ row.type = "folder" BY <2>1 DEF NewRow
  <2>4. fld.path = SubSeq(e.path, 1, j) /\ fld.id = <<i, j>> BY <2>2
  <2>5. u.docs = t.docs /\ u.folders = t.folders \cup {fld} /\ u.nodes = t.nodes \cup {row}
        /\ u.at = Append(t.at, <<i, j>>)
    BY <1>6, <2>1, <2>2, Zenon DEF MakesFolder
  <2>6. j < Len(e.path) /\ \A f \in t.folders : f.path # SubSeq(e.path, 1, j)
    BY <1>6 DEF MakesFolder
  <2>7. TreeInv(u, man, i, j) /\ Under(u, e, j)
    BY <2>3, <2>4, <2>5, <2>6, FolderMade
  <2>8. Grows(t, u) BY <2>5 DEF Grows
  <2> QED BY <2>6, <2>7, <2>8, <1>0
<1>7. Good
  <2> HIDE DEF Good
  <2> QED BY <1>1, <1>4, <1>5, <1>6
<1> QED BY <1>1, <1>7, Zenon

\* The walk of an entry keeps it: induction over its names.
LEMMA WalkKeeps ==
    ASSUME NEW man \in Seq(Entry), NEW i \in 1 .. Len(man), Len(man) <= MaxEntries,
           NEW e \in Entry, e = man[i], NEW t, TreeInv(t, man, i, 0),
           \A d \in t.docs : d.path # e.path
    PROVE  LET u == Walk(t, e, i)[Len(e.path)]
           IN  TreeInv(u, man, i, Len(e.path)) /\ Grows(t, u) /\ Entered(u, e.path)
<1>0. e.path \in Seq(STRING) /\ Len(e.path) \in Nat \ {0} /\ t \in TreeType
  BY PathsHaveNames DEF TreeInv
<1>1. PICK w : /\ w = Walk(t, e, i) /\ w[0] = [t EXCEPT !.at = <<>>]
               /\ \A j \in 1 .. Len(e.path) : w[j] = Segment(w[j - 1], e, i, j)
  BY WalkDef
<1> DEFINE Reaches(j) == TreeInv(w[j], man, i, j) /\ Under(w[j], e, j) /\ Grows(t, w[j])
           S == {j \in Nat : j < Len(e.path) => Reaches(j)}
<1>2. 0 \in S
  <2>1. PICK u : u = w[0] OBVIOUS
  <2>2. u = [ok |-> t.ok, docs |-> t.docs, folders |-> t.folders, nodes |-> t.nodes,
             at |-> <<>>]
    BY <1>0, <1>1, <2>1 DEF TreeType
  <2>2a. t.ok \in BOOLEAN BY <1>0, Zenon DEF TreeType
  <2>2b. <<>> \in Seq(Id) OBVIOUS
  <2>3. u \in TreeType /\ u.docs = t.docs /\ u.folders = t.folders /\ u.nodes = t.nodes
        /\ u.at = <<>>
    BY <1>0, <2>2, <2>2a, <2>2b DEF TreeType
  <2>4. TreeInv(u, man, i, 0)
    BY <2>3 DEF TreeInv, RowsOnce, RowsBefore, FoldersHaveRows, RowsHaveFolders, FoldersOnce,
                FoldersLead, DocsHaveRows, DocsOnce
  <2>5. Under(u, e, 0)
    <3>1. 0 \in 0 .. Len(e.path) BY <1>0
    <3>2. Len(SubSeq(e.path, 1, 0)) = 0 BY <3>1, PathPrefix
    <3> QED BY <2>3, <3>2 DEF Under, Spells
  <2>6. Grows(t, u) BY <2>3 DEF Grows
  <2> QED BY <2>1, <2>4, <2>5, <2>6
<1>3. ASSUME NEW k \in Nat, k + 1 \in 1 .. Len(e.path), Reaches(k)
      PROVE  /\ TreeInv(w[k + 1], man, i, k + 1) /\ Grows(t, w[k + 1])
             /\ k + 1 < Len(e.path) => Under(w[k + 1], e, k + 1)
             /\ k + 1 = Len(e.path) => Entered(w[k + 1], e.path)
  <2>1. PICK j \in 1 .. Len(e.path) : j = k + 1 /\ k = j - 1 BY <1>3
  <2>1a. w[k] \in TreeType BY <1>3 DEF TreeInv
  <2>2. PICK v \in TreeType : v = w[k] BY <2>1a
  <2>2a. PICK u : u = w[j] OBVIOUS
  <2>3. u = Segment(v, e, i, j) BY <1>1, <2>1, <2>2, <2>2a
  <2>4. TreeInv(v, man, i, j - 1) /\ Under(v, e, j - 1) /\ Grows(t, v) BY <1>3, <2>1, <2>2
  <2>5. /\ TreeInv(u, man, i, j) /\ Grows(v, u)
        /\ j < Len(e.path) => Under(u, e, j)
        /\ j = Len(e.path) => Entered(u, e.path)
    <3>1. LET s == Segment(v, e, i, j)
          IN  /\ TreeInv(s, man, i, j) /\ Grows(v, s)
              /\ j < Len(e.path) => Under(s, e, j)
              /\ j = Len(e.path) => Entered(s, e.path)
      BY <2>4, SegmentStep
    <3> QED BY <2>3, <3>1, Zenon
  <2>6. Grows(t, u) BY <2>4, <2>5 DEF Grows
  <2> QED BY <2>1, <2>2, <2>2a, <2>5, <2>6
<1>4. ASSUME NEW k \in S PROVE k + 1 \in S
  <2> SUFFICES ASSUME k + 1 < Len(e.path) PROVE Reaches(k + 1) OBVIOUS
  <2>1. k + 1 \in 1 .. Len(e.path) /\ k < Len(e.path) BY <1>0
  <2>2. Reaches(k) BY <2>1
  <2> HIDE DEF Reaches
  <2>3. /\ TreeInv(w[k + 1], man, i, k + 1) /\ Grows(t, w[k + 1])
        /\ k + 1 < Len(e.path) => Under(w[k + 1], e, k + 1)
    BY <1>3, <2>1, <2>2
  <2> QED BY <2>3 DEF Reaches
<1>5. S = Nat
  <2> HIDE DEF Reaches
  <2> QED BY <1>2, <1>4, NatSets
<1>6. PICK k \in Nat : k + 1 = Len(e.path)
  <2>1. Len(e.path) - 1 \in Nat /\ (Len(e.path) - 1) + 1 = Len(e.path) BY <1>0
  <2> QED BY <2>1
<1>7. Reaches(k) BY <1>0, <1>5, <1>6
<1> HIDE DEF Reaches
<1>8. TreeInv(w[k + 1], man, i, k + 1) /\ Grows(t, w[k + 1]) /\ Entered(w[k + 1], e.path)
  BY <1>0, <1>3, <1>6, <1>7
<1> QED BY <1>1, <1>6, <1>8, Zenon

\* An entry has its doc, or an earlier entry uses its path as a folder.
Listed(t, man, k) ==
    \/ \E d \in t.docs : d.path = man[k].path
    \/ \E h \in 1 .. k - 1 :
          /\ Len(man[k].path) < Len(man[h].path)
          /\ man[k].path = SubSeq(man[h].path, 1, Len(man[k].path))

\* An entry, refused or walked, keeps it, and is listed: a folder with the entry's
\* own path was made by an earlier one, for those it makes itself are shorter.
LEMMA EntryStep ==
    ASSUME NEW man \in Seq(Entry), NEW i \in 1 .. Len(man), Len(man) <= MaxEntries,
           NEW t, TreeInv(t, man, i, 0), NEW u, u = AddEntry(t, man[i], i)
    PROVE  /\ \E j \in Nat : TreeInv(u, man, i, j)
           /\ t.docs \subseteq u.docs /\ Listed(u, man, i)
<1>0. PICK e \in Entry : e = man[i] OBVIOUS
<1>1. CASE \E d \in t.docs : d.path = e.path
  <2>1. u = [t EXCEPT !.ok = FALSE] BY <1>0, <1>1 DEF AddEntry
  <2>2. t \in TreeType BY DEF TreeInv
  <2>3. u \in TreeType /\ u.docs = t.docs /\ u.folders = t.folders /\ u.nodes = t.nodes
    BY <2>1, <2>2 DEF TreeType
  <2>4. TreeInv(u, man, i, 0)
    BY <2>3 DEF TreeInv, RowsOnce, RowsBefore, FoldersHaveRows, RowsHaveFolders, FoldersOnce,
                FoldersLead, DocsHaveRows, DocsOnce
  <2>5. Listed(u, man, i) BY <1>0, <1>1, <2>3 DEF Listed
  <2> QED BY <2>3, <2>4, <2>5
<1>2. CASE \A d \in t.docs : d.path # e.path
  <2>1. u = Walk(t, e, i)[Len(e.path)]
    <3>1. ~ \E d \in t.docs : d.path = e.path BY <1>2
    <3> QED BY <1>0, <3>1, Zenon DEF AddEntry
  <2>2. TreeInv(u, man, i, Len(e.path)) /\ Grows(t, u) /\ Entered(u, e.path)
    BY <1>0, <1>2, <2>1, WalkKeeps
  <2>3. Len(e.path) \in Nat BY PathsHaveNames
  <2>4. Listed(u, man, i)
    <3>1. CASE \E d \in u.docs : d.path = e.path BY <3>1, <1>0 DEF Listed
    <3>2. CASE \E f \in u.folders : f.path = e.path
      <4>1. PICK f \in u.folders : f.path = e.path BY <3>2
      <4>2. PICK h \in 1 .. i : /\ Len(f.path) < Len(man[h].path)
                                /\ f.path = SubSeq(man[h].path, 1, Len(f.path))
        BY <2>2 DEF TreeInv, FoldersLead
      <4>3. h # i BY <4>1, <4>2, <1>0, <2>3
      <4>4. h \in 1 .. i - 1 BY <4>3
      <4> QED BY <4>1, <4>2, <4>4, <1>0 DEF Listed
    <3> QED BY <2>2, <3>1, <3>2 DEF Entered
  <2> QED BY <2>2, <2>3, <2>4 DEF Grows
<1> QED BY <1>1, <1>2

\* After entry i, i + 1 is about to begin.
LEMMA NextEntry ==
    ASSUME NEW man \in Seq(Entry), NEW t, NEW i \in Nat, NEW j \in Nat, TreeInv(t, man, i, j)
    PROVE  TreeInv(t, man, i + 1, 0)
<1>1. \A n \in t.nodes : n.id[1] \in Nat /\ n.id[2] \in Nat
  BY BoundsAssumption DEF TreeInv, TreeType, RowType, Id
<1>2. RowsBefore(t, i + 1, 0) BY <1>1 DEF TreeInv, RowsBefore, Before
<1>3. FoldersLead(t, man, i + 1)
  <2>1. 1 .. i \subseteq 1 .. i + 1 OBVIOUS
  <2> QED BY <2>1 DEF TreeInv, FoldersLead
<1> QED BY <1>2, <1>3 DEF TreeInv

\* What processManifest makes of any manifest: induction over its entries.
LEMMA ManifestTree ==
    ASSUME NEW man \in Seq(Entry), Len(man) <= MaxEntries
    PROVE  LET t == processManifest(man)
           IN  /\ \E i \in Nat, j \in Nat : TreeInv(t, man, i, j)
               /\ \A k \in 1 .. Len(man) : Listed(t, man, k)
<1>0. Len(man) \in Nat OBVIOUS
<1>1. PICK w : /\ w = Trees(man) /\ w[0] = NoTree
               /\ \A i \in 1 .. Len(man) : w[i] = AddEntry(w[i - 1], man[i], i)
  BY TreesDef
<1> DEFINE Made(i) == /\ \E j \in Nat : TreeInv(w[i], man, i, j)
                      /\ \A k \in 1 .. i : Listed(w[i], man, k)
           S == {i \in Nat : i <= Len(man) => Made(i)}
<1>2. 0 \in S
  <2>1. NoTree \in TreeType BY Zenon, EmptySeq DEF NoTree, TreeType
  <2>2. TreeInv(NoTree, man, 0, 0)
    BY <2>1, FS_EmptySet DEF NoTree, TreeInv, RowsOnce, RowsBefore, FoldersHaveRows, RowsHaveFolders,
                FoldersOnce, FoldersLead, DocsHaveRows, DocsOnce
  <2> QED BY <2>2, <1>1
<1>3. ASSUME NEW k \in S PROVE k + 1 \in S
  <2> SUFFICES ASSUME k + 1 <= Len(man) PROVE Made(k + 1) OBVIOUS
  <2>1. PICK i \in 1 .. Len(man) : i = k + 1 /\ k = i - 1 BY <1>0
  <2>2. Made(k) BY <1>0
  <2>3. PICK t, u : t = w[k] /\ u = w[i] OBVIOUS
  <2>4. PICK j \in Nat : TreeInv(t, man, k, j) BY <2>2, <2>3
  <2>5. TreeInv(t, man, i, 0) BY <2>1, <2>4, NextEntry
  <2>6. u = AddEntry(t, man[i], i) BY <1>1, <2>1, <2>3
  <2>7. /\ \E l \in Nat : TreeInv(u, man, i, l)
        /\ t.docs \subseteq u.docs /\ Listed(u, man, i)
    BY <2>5, <2>6, EntryStep
  <2>8. ASSUME NEW h \in 1 .. i PROVE Listed(u, man, h)
    <3>1. CASE h = i BY <3>1, <2>7
    <3>2. CASE h \in 1 .. k
      <4>1. Listed(t, man, h) BY <2>2, <2>3, <3>2
      <4> QED BY <4>1, <2>7 DEF Listed
    <3> QED BY <3>1, <3>2, <2>1
  <2> QED BY <2>1, <2>3, <2>7, <2>8
<1>4. S = Nat
  <2> HIDE DEF Made
  <2> QED BY <1>2, <1>3, NatSets
<1>5. Made(Len(man)) BY <1>0, <1>4
<1>6. processManifest(man) = w[Len(man)] BY <1>1, Zenon DEF processManifest
<1> QED BY <1>0, <1>5, <1>6, Zenon

-----------------------------------------------------------------------------
(***************************************************************************)
(* The docs and the rows of a batch are those of its manifest, and stay.   *)
(***************************************************************************)
\* What a batch keeps from its manifest on.
SameRows(x) ==
    /\ batch'[x].manifest = batch[x].manifest /\ batch'[x].docs = batch[x].docs
    /\ batch'[x].nodes = batch[x].nodes

FromManifest ==
    \A b \in Batches :
        /\ batch[b].manifest \in Seq(Entry) /\ Len(batch[b].manifest) <= MaxEntries
        /\ batch[b].docs = processManifest(batch[b].manifest).docs
        /\ batch[b].nodes = processManifest(batch[b].manifest).nodes

LEMMA FailKeepsRows ==
    ASSUME Shape, NEW b \in Batches, NEW S, Fail(b, S)
    PROVE  \A x \in Batches : SameRows(x)
BY DEF Shape, Fail, SameRows

\* Every step but Begin.
LEMMA OthersKeepRows ==
    ASSUME Shape, NEW b \in Batches,
           Open(b) \/ Refuse(b) \/ Copy(b) \/ NoMoreFiles(b) \/ RecordAll(b) \/ Clean(b) \/ Crash
    PROVE  \A x \in Batches : SameRows(x)
<1>1. CASE Open(b)
  <2>1. PICK d : batch' = [batch EXCEPT ![b].pc = "copy", ![b].file = d.id] BY <1>1 DEF Open
  <2> QED BY <2>1 DEF Shape, SameRows
<1>2. CASE Refuse(b) BY <1>2, FailKeepsRows DEF Refuse
<1>3. CASE Copy(b)
  <2>1. PICK d, n, S : Stored(b, d, n) \/ Fail(b, S) BY <1>3 DEF Copy
  <2>2. CASE Stored(b, d, n)
    <3>1. CASE batch' = [batch EXCEPT ![b].pc = "files", ![b].resolved = @ \cup {d.path}]
      BY <3>1 DEF Shape, SameRows
    <3> QED BY <2>2, <3>1, FailKeepsRows DEF Stored
  <2> QED BY <2>1, <2>2, FailKeepsRows
<1>4. CASE NoMoreFiles(b)
  <2>1. CASE batch' = [batch EXCEPT ![b].pc = "tx"] BY <2>1 DEF Shape, SameRows
  <2> QED BY <1>4, <2>1, FailKeepsRows DEF NoMoreFiles
<1>5. CASE RecordAll(b) BY <1>5, FailKeepsRows DEF RecordAll
<1>6. CASE Clean(b)
  <2>1. CASE UNCHANGED batch BY <2>1 DEF SameRows
  <2>2. CASE CleanupEnd(b) BY <2>2 DEF CleanupEnd, Shape, SameRows
  <2> QED BY <1>6, <2>1, <2>2 DEF Clean, Feed, Delete
<1>7. CASE Crash BY <1>7 DEF Crash, Shape, SameRows
<1> QED BY <1>1, <1>2, <1>3, <1>4, <1>5, <1>6, <1>7

\* A batch that has not begun is one with an empty manifest.
LEMMA EmptyManifest ==
    /\ <<>> \in Seq(Entry) /\ Len(<<>>) <= MaxEntries
    /\ processManifest(<<>>) = NoTree
<1>0. <<>> \in Seq(Entry) /\ Len(<<>>) = 0 OBVIOUS
<1>1. PICK man \in Seq(Entry) : man = <<>> /\ Len(man) = 0 BY <1>0, Zenon
<1>2. PICK w : w = Trees(man) /\ w[0] = NoTree BY TreesDef
<1>3. processManifest(man) = NoTree BY <1>1, <1>2 DEF processManifest
<1> QED BY <1>1, <1>3, BoundsAssumption

LEMMA ManifestsAreShort ==
    ASSUME NEW man \in BoundedSeq(Entry, MaxEntries)
    PROVE  man \in Seq(Entry) /\ Len(man) <= MaxEntries
BY BoundsAssumption DEF BoundedSeq, SeqOf

LEMMA RowsInit == BatchInit => FromManifest
<1> SUFFICES ASSUME BatchInit, NEW b \in Batches
             PROVE /\ batch[b].manifest \in Seq(Entry) /\ Len(batch[b].manifest) <= MaxEntries
                   /\ batch[b].docs = processManifest(batch[b].manifest).docs
                   /\ batch[b].nodes = processManifest(batch[b].manifest).nodes
  BY DEF FromManifest
<1>1. batch[b].manifest = <<>> /\ batch[b].docs = {} /\ batch[b].nodes = {}
  BY DEF BatchInit, Idle
<1>2. NoTree.docs = {} /\ NoTree.nodes = {} BY DEF NoTree
<1> QED BY <1>1, <1>2, EmptyManifest

LEMMA RowsBegin ==
    ASSUME Shape, FromManifest, NEW b \in Batches, Begin(b)
    PROVE  FromManifest'
<1>1. PICK man, tree :
        /\ man \in BoundedSeq(Entry, MaxEntries) /\ tree = processManifest(man)
        /\ batch' = [batch EXCEPT ![b] =
                       [pc |-> "files", manifest |-> man, docs |-> tree.docs,
                        nodes |-> tree.nodes, resolved |-> {}, file |-> <<>>]]
  BY Zenon DEF Begin
<1>2. /\ batch'[b].manifest = man /\ batch'[b].docs = tree.docs /\ batch'[b].nodes = tree.nodes
      /\ \A x \in Batches \ {b} : batch'[x] = batch[x]
  BY <1>1 DEF Shape
<1>3. man \in Seq(Entry) /\ Len(man) <= MaxEntries BY <1>1, ManifestsAreShort
<1> QED BY <1>1, <1>2, <1>3 DEF FromManifest

LEMMA RowsStep == Shape /\ FromManifest /\ [BatchNext]_bvars => FromManifest'
<1>1. ASSUME Shape, FromManifest, NEW b \in Batches, Begin(b) PROVE FromManifest'
  BY <1>1, RowsBegin
<1>2. ASSUME FromManifest, \A x \in Batches : SameRows(x) PROVE FromManifest'
  BY <1>2 DEF FromManifest, SameRows
<1>3. ASSUME Shape, FromManifest, Crash PROVE FromManifest'
  <2>1. \A x \in Batches : SameRows(x) BY <1>3 DEF Crash, Shape, SameRows
  <2> QED BY <1>2, <1>3, <2>1
<1>4. ASSUME Shape, FromManifest, NEW b \in Batches, Execute(b) \/ Clean(b) PROVE FromManifest'
  <2>1. CASE Begin(b) BY <2>1, <1>1, <1>4
  <2>2. CASE ~Begin(b)
    <3>1. \A x \in Batches : SameRows(x) BY <2>2, <1>4, OthersKeepRows DEF Execute
    <3> QED BY <1>2, <1>4, <3>1
  <2> QED BY <2>1, <2>2
<1>5. ASSUME FromManifest, UNCHANGED bvars PROVE FromManifest'
  BY <1>5 DEF bvars, FromManifest
<1> QED BY <1>3, <1>4, <1>5 DEF BatchNext

\* With ids used once, the names a batch's rows spell are those of the invariant.
LEMMA SpelledIs ==
    ASSUME NEW b \in Batches, NEW t, t.nodes = batch[b].nodes, RowsOnce(t),
           NEW n, NEW names \in Seq(STRING), n.path \in Seq(Id),
           Spells(t.nodes, n.path, names)
    PROVE  Spelled(b, n) = names
<1>1. DOMAIN n.path = 1 .. Len(n.path) /\ Len(n.path) \in Nat OBVIOUS
<1>2. names = [k \in 1 .. Len(n.path) |-> names[k]] BY DEF Spells
<1>3. ASSUME NEW k \in 1 .. Len(n.path)
      PROVE (CHOOSE m \in batch[b].nodes : m.id = n.path[k]).name = names[k]
  <2>1. PICK m \in t.nodes : m.id = n.path[k] /\ m.name = names[k] BY DEF Spells
  <2>2. \A l \in t.nodes : l.id = n.path[k] => l = m BY <2>1 DEF RowsOnce
  <2>3. m = CHOOSE l \in batch[b].nodes : l.id = n.path[k] BY <2>1, <2>2
  <2> QED BY <2>1, <2>3
<1> QED BY <1>1, <1>2, <1>3 DEF Spelled

\* The tree's invariant says what the run checks of a batch.
LEMMA RowsFollow == FromManifest => TreeFollowsManifest
<1> SUFFICES ASSUME FromManifest, NEW b \in Batches
             PROVE LET rows == batch[b].nodes
                       folders == {n \in rows : n.type = "folder"}
                   IN  /\ \A d \in batch[b].docs : \E n \in rows \ folders :
                              n.id = d.id /\ Spelled(b, n) = d.path
                       /\ \A m, n \in folders : Spelled(b, m) = Spelled(b, n) => m = n
                       /\ \A i \in DOMAIN batch[b].manifest :
                              \/ \E d \in batch[b].docs : d.path = batch[b].manifest[i].path
                              \/ \E k \in 1 .. i - 1 :
                                   IsStrictPrefix(batch[b].manifest[i].path,
                                                  batch[b].manifest[k].path)
  BY DEF TreeFollowsManifest
<1>1. PICK man \in Seq(Entry) : man = batch[b].manifest /\ Len(man) <= MaxEntries
  BY DEF FromManifest
<1>2. PICK t : t = processManifest(man) OBVIOUS
<1>3. batch[b].docs = t.docs /\ batch[b].nodes = t.nodes BY <1>1, <1>2 DEF FromManifest
<1>4. PICK i \in Nat, j \in Nat : TreeInv(t, man, i, j) BY <1>1, <1>2, ManifestTree
<1>5. \A k \in 1 .. Len(man) : Listed(t, man, k) BY <1>1, <1>2, ManifestTree
<1>6. /\ \A n \in t.nodes : n.path \in Seq(Id)
      /\ \A f \in t.folders : f.path \in Seq(STRING)
      /\ \A d \in t.docs : d.path \in Seq(STRING)
  BY <1>4, PathsAssumption DEF TreeInv, TreeType, RowType, FolderType, DocType
<1>7. RowsOnce(t) BY <1>4 DEF TreeInv
<1>8. ASSUME NEW d \in t.docs
      PROVE \E n \in t.nodes : n.type = "file" /\ n.id = d.id /\ Spelled(b, n) = d.path
  <2>1. PICK n \in t.nodes : n.type = "file" /\ n.id = d.id /\ Spells(t.nodes, n.path, d.path)
    BY <1>4 DEF TreeInv, DocsHaveRows
  <2>2. Spelled(b, n) = d.path BY <2>1, <1>3, <1>6, <1>7, SpelledIs
  <2> QED BY <2>1, <2>2
<1>9. ASSUME NEW n \in t.nodes, n.type = "folder"
      PROVE \E f \in t.folders : n.id = f.id /\ Spelled(b, n) = f.path
  <2>1. PICK f \in t.folders : f.id = n.id BY <1>4, <1>9 DEF TreeInv, RowsHaveFolders
  <2>2. PICK m \in t.nodes : m.id = f.id /\ Spells(t.nodes, m.path, f.path)
    BY <1>4 DEF TreeInv, FoldersHaveRows
  <2>3. m = n BY <2>1, <2>2, <1>7 DEF RowsOnce
  <2>4. Spelled(b, n) = f.path BY <2>2, <2>3, <1>3, <1>6, <1>7, SpelledIs
  <2> QED BY <2>1, <2>4
<1>10. ASSUME NEW m \in t.nodes, NEW n \in t.nodes, m.type = "folder", n.type = "folder",
              Spelled(b, m) = Spelled(b, n)
       PROVE m = n
  <2>1. PICK f \in t.folders : m.id = f.id /\ Spelled(b, m) = f.path BY <1>9, <1>10
  <2>2. PICK g \in t.folders : n.id = g.id /\ Spelled(b, n) = g.path BY <1>9, <1>10
  <2>3. f = g BY <2>1, <2>2, <1>4, <1>10 DEF TreeInv, FoldersOnce
  <2> QED BY <2>1, <2>2, <2>3, <1>7 DEF RowsOnce
<1>11. ASSUME NEW k \in 1 .. Len(man), NEW h \in 1 .. Len(man),
              Len(man[k].path) < Len(man[h].path),
              man[k].path = SubSeq(man[h].path, 1, Len(man[k].path))
       PROVE IsStrictPrefix(man[k].path, man[h].path)
  <2>1. PICK p \in Seq(STRING), q \in Seq(STRING) : p = man[k].path /\ q = man[h].path
    <3>1. man[k] \in Entry /\ man[h] \in Entry OBVIOUS
    <3> QED BY <3>1, PathsHaveNames
  <2>2. Len(p) < Len(q) /\ p = SubSeq(q, 1, Len(p)) BY <1>11, <2>1
  <2>3. SubSeq(p, 1, Len(p)) = p BY SubSeqFull
  <2>4. IsStrictPrefix(p, q)
    <3>1. p # q BY <2>2
    <3>2. IsPrefix(p, q) BY <2>2, <2>3 DEF IsPrefix
    <3> QED BY <3>1, <3>2 DEF IsStrictPrefix
  <2> QED BY <2>1, <2>4
<1>12. ASSUME NEW k \in DOMAIN man
       PROVE \/ \E d \in t.docs : d.path = man[k].path
             \/ \E h \in 1 .. k - 1 : IsStrictPrefix(man[k].path, man[h].path)
  <2>1. k \in 1 .. Len(man) /\ \A h \in 1 .. k - 1 : h \in 1 .. Len(man) OBVIOUS
  <2> QED BY <2>1, <1>5, <1>11 DEF Listed
<1> QED
  <2>1. \A d \in batch[b].docs : \E n \in batch[b].nodes \ {x \in batch[b].nodes : x.type = "folder"} :
           n.id = d.id /\ Spelled(b, n) = d.path
    BY <1>3, <1>8
  <2>2. \A m, n \in {x \in batch[b].nodes : x.type = "folder"} :
           Spelled(b, m) = Spelled(b, n) => m = n
    BY <1>3, <1>10
  <2>3. \A k \in DOMAIN batch[b].manifest :
           \/ \E d \in batch[b].docs : d.path = batch[b].manifest[k].path
           \/ \E h \in 1 .. k - 1 : IsStrictPrefix(batch[b].manifest[k].path,
                                                   batch[b].manifest[h].path)
    BY <1>1, <1>3, <1>12
  <2> QED BY <2>1, <2>2, <2>3

RowsInv == BatchInv /\ FromManifest

\* The rows a batch is about to record spell its manifest, whatever its paths are:
\* the nodes of the docs are reached by the names of their paths, no folder is made
\* twice, and no entry is lost but one whose path an earlier one uses as a folder.
THEOREM RowsFollowManifest == BatchSpec => []TreeFollowsManifest
<1>1. BatchInit => RowsInv BY BatchInitInv, RowsInit DEF RowsInv
<1>2. RowsInv /\ [BatchNext]_bvars => RowsInv'
  BY BatchNextInv, RowsStep DEF RowsInv, BatchInv
<1>3. RowsInv => TreeFollowsManifest BY RowsFollow DEF RowsInv
<1> QED BY <1>1, <1>2, <1>3, PTL DEF BatchSpec

-----------------------------------------------------------------------------
(***************************************************************************)
(* What reaches the transaction is complete.  While a batch receives its   *)
(* files, a resolved doc that is not being sent again has what was         *)
(* announced: the invariant needs the docs to be one for a path and one    *)
(* for an id, which is the tree's.                                         *)
(***************************************************************************)
\* A doc that is resolved, and is not being sent again, has what was announced.
FiledAt(b) ==
    /\ batch[b].pc \in {"files", "copy", "tx"} =>
          \A d \in batch[b].docs :
              d.path \in batch[b].resolved /\ ~(batch[b].pc = "copy" /\ batch[b].file = d.id)
                  => StoredWhole(b, d)
    /\ batch[b].pc = "tx" => \A d \in batch[b].docs : d.path \in batch[b].resolved

Filed == \A b \in Batches : FiledAt(b)

\* Two docs of a batch share neither a path nor an id.
LEMMA DocsOneToOne ==
    FromManifest => \A b \in Batches : \A c, d \in batch[b].docs :
                        c.path = d.path \/ c.id = d.id => c = d
<1> SUFFICES ASSUME FromManifest, NEW b \in Batches
             PROVE \A c, d \in batch[b].docs : c.path = d.path \/ c.id = d.id => c = d
  OBVIOUS
<1>1. PICK man \in Seq(Entry) : man = batch[b].manifest /\ Len(man) <= MaxEntries
  BY DEF FromManifest
<1>2. PICK t : t = processManifest(man) OBVIOUS
<1>3. batch[b].docs = t.docs BY <1>1, <1>2 DEF FromManifest
<1>4. PICK i \in Nat, j \in Nat : TreeInv(t, man, i, j) BY <1>1, <1>2, ManifestTree
<1> QED BY <1>3, <1>4 DEF TreeInv, DocsOnce

\* What a step of another batch leaves as it was.
LEMMA OthersStay ==
    ASSUME NEW x \in Batches, FiledAt(x), batch'[x] = batch[x],
           \A id : BlobAt(x, id)' = BlobAt(x, id)
    PROVE  FiledAt(x)'
BY DEF FiledAt, StoredWhole

\* A failure leaves nothing to show.
LEMMA FiledFails ==
    ASSUME BatchInv, Filed, NEW b \in Batches, NEW S, Fail(b, S),
           \A x \in Batches \ {b} : \A id : BlobAt(x, id)' = BlobAt(x, id)
    PROVE  Filed'
<1>1. /\ batch'[b].pc = "cleaning"
      /\ \A x \in Batches \ {b} : batch'[x] = batch[x]
  BY FailHandsOn DEF BatchInv
<1>2. FiledAt(b)' BY <1>1 DEF FiledAt
<1>3. \A x \in Batches \ {b} : FiledAt(x)' BY <1>1, OthersStay DEF Filed
<1> QED BY <1>2, <1>3 DEF Filed

\* What a write, and a removal, do to the contents of each key.
LEMMA WrittenElsewhere ==
    ASSUME NEW b, NEW id, NEW n, NEW w, blobs' = Written(b, id, n, w)
    PROVE  /\ \A x, k : x # b \/ k # id => BlobAt(x, k)' = BlobAt(x, k)
           /\ BlobAt(b, id)' = {[batch |-> b, id |-> id, bytes |-> n, state |-> w]}
<1> DEFINE new == [batch |-> b, id |-> id, bytes |-> n, state |-> w]
<1>1. new.batch = b /\ new.id = id OBVIOUS
<1>2. blobs' = (blobs \ {c \in blobs : c.batch = b /\ c.id = id}) \cup {new}
  BY DEF Written, BlobAt
<1> HIDE DEF new
<1>3. \A x, k : x # b \/ k # id => {c \in blobs' : c.batch = x /\ c.id = k}
                                   = {c \in blobs : c.batch = x /\ c.id = k}
  BY <1>1, <1>2
<1>4. {c \in blobs' : c.batch = b /\ c.id = id} = {new} BY <1>1, <1>2
<1> QED BY <1>3, <1>4 DEF BlobAt, new

LEMMA RemovedElsewhere ==
    ASSUME NEW b, NEW id, RemoveBlob(b, id) \/ blobs' = blobs \ BlobAt(b, id)
    PROVE  /\ \A x, k : x # b \/ k # id => BlobAt(x, k)' = BlobAt(x, k)
           /\ blobs' = blobs \ BlobAt(b, id) => BlobAt(b, id)' = {}
<1>1. CASE blobs' = blobs \ BlobAt(b, id) BY <1>1 DEF BlobAt
<1>2. CASE blobs' = blobs BY <1>2 DEF BlobAt
<1> QED BY <1>1, <1>2 DEF RemoveBlob

LEMMA FiledOpen ==
    ASSUME BatchInv, FromManifest, Filed, NEW b \in Batches, Open(b)
    PROVE  Filed'
<1>1. PICK d \in batch[b].docs :
         /\ batch' = [batch EXCEPT ![b].pc = "copy", ![b].file = d.id]
         /\ blobs' = Written(b, d.id, 0, "part")
  BY DEF Open
<1>2. /\ batch'[b].pc = "copy" /\ batch'[b].file = d.id
      /\ batch'[b].docs = batch[b].docs /\ batch'[b].resolved = batch[b].resolved
      /\ \A x \in Batches \ {b} : batch'[x] = batch[x]
  BY <1>1 DEF BatchInv, Shape
<1>3. \A x, k : x # b \/ k # d.id => BlobAt(x, k)' = BlobAt(x, k)
  <2>1. PICK id, n, w : id = d.id /\ blobs' = Written(b, id, n, w) BY <1>1, Zenon
  <2>2. \A x, k : x # b \/ k # id => BlobAt(x, k)' = BlobAt(x, k)
    BY <2>1, WrittenElsewhere
  <2> QED BY <2>1, <2>2
<1>4. FiledAt(b)'
  <2>1. ASSUME NEW c \in batch[b].docs, c.path \in batch[b].resolved, c.id # d.id
        PROVE StoredWhole(b, c)'
    <3>1. StoredWhole(b, c) BY <2>1 DEF Filed, FiledAt, Open
    <3>2. BlobAt(b, c.id)' = BlobAt(b, c.id) BY <2>1, <1>3
    <3> QED BY <3>1, <3>2 DEF StoredWhole
  <2> QED BY <2>1, <1>2 DEF FiledAt
<1>5. \A x \in Batches \ {b} : FiledAt(x)' BY <1>2, <1>3, OthersStay DEF Filed
<1> QED BY <1>4, <1>5 DEF Filed

\* The file in hand has been copied: it is whole, or its close has failed and it is
\* gone or torn.
LEMMA FiledStored ==
    ASSUME BatchInv, FromManifest, Filed, NEW b \in Batches, NEW d \in batch[b].docs, NEW n,
           batch[b].pc = "copy", d.id = batch[b].file, Stored(b, d, n),
           \A x, k : x # b \/ k # d.id => BlobAt(x, k)' = BlobAt(x, k),
           \A c \in BlobAt(b, d.id)' :
               /\ c.bytes = n
               /\ c.state = "whole" \/ (c.state = "torn" /\ {"close", "remove"} \subseteq Faults),
           "close" \notin Faults => BlobAt(b, d.id)' # {}
    PROVE  Filed'
<1>1. CASE n = d.size
  <2>1. batch' = [batch EXCEPT ![b].pc = "files", ![b].resolved = @ \cup {d.path}]
    BY <1>1 DEF Stored
  <2>2. /\ batch'[b].pc = "files" /\ batch'[b].docs = batch[b].docs
        /\ batch'[b].resolved = batch[b].resolved \cup {d.path}
        /\ \A x \in Batches \ {b} : batch'[x] = batch[x]
    BY <2>1 DEF BatchInv, Shape
  <2>3. ASSUME NEW c \in batch[b].docs, c.path \in batch[b].resolved \cup {d.path}
        PROVE StoredWhole(b, c)'
    <3>1. CASE c = d BY <3>1, <1>1 DEF StoredWhole
    <3>2. CASE c # d
      <4>1. c.path # d.path /\ c.id # d.id BY <3>2, DocsOneToOne
      <4>2. StoredWhole(b, c) BY <4>1, <2>3 DEF Filed, FiledAt
      <4>3. BlobAt(b, c.id)' = BlobAt(b, c.id) BY <4>1
      <4> QED BY <4>2, <4>3 DEF StoredWhole
    <3> QED BY <3>1, <3>2
  <2>4. FiledAt(b)' BY <2>2, <2>3 DEF FiledAt
  <2>5. \A x \in Batches \ {b} : FiledAt(x)' BY <2>2, OthersStay DEF Filed
  <2> QED BY <2>4, <2>5 DEF Filed
<1>2. CASE n # d.size
  <2>1. PICK S : Fail(b, S) BY <1>2 DEF Stored
  <2> QED BY <2>1, FiledFails
<1> QED BY <1>1, <1>2

LEMMA FiledCopy ==
    ASSUME BatchInv, FromManifest, Filed, NEW b \in Batches, Copy(b)
    PROVE  Filed'
<1>1. PICK d \in batch[b].docs, n \in 0 .. MaxSize :
         /\ d.id = batch[b].file
         /\ \/ blobs' = Written(b, d.id, n, "whole") /\ Stored(b, d, n)
            \/ /\ "close" \in Faults
               /\ blobs' = blobs \ BlobAt(b, d.id)
               /\ Stored(b, d, n)
            \/ /\ {"close", "remove"} \subseteq Faults
               /\ blobs' = Written(b, d.id, n, "torn")
               /\ Stored(b, d, n)
            \/ /\ RemoveBlob(b, d.id)
               /\ Fail(b, batch[b].resolved)
  BY DEF Copy
<1>2. batch[b].pc = "copy" BY DEF Copy
<1>3. ASSUME NEW s \in {"whole", "torn"}, blobs' = Written(b, d.id, n, s), Stored(b, d, n),
             s = "torn" => {"close", "remove"} \subseteq Faults
      PROVE  Filed'
  <2>1. /\ \A x, k : x # b \/ k # d.id => BlobAt(x, k)' = BlobAt(x, k)
        /\ BlobAt(b, d.id)' = {[batch |-> b, id |-> d.id, bytes |-> n, state |-> s]}
    BY <1>3, WrittenElsewhere
  <2>2. /\ \A c \in BlobAt(b, d.id)' :
              /\ c.bytes = n
              /\ c.state = "whole" \/ (c.state = "torn" /\ {"close", "remove"} \subseteq Faults)
        /\ BlobAt(b, d.id)' # {}
    BY <1>3, <2>1
  <2> QED BY <1>1, <1>2, <1>3, <2>1, <2>2, FiledStored
<1>4. CASE "close" \in Faults /\ blobs' = blobs \ BlobAt(b, d.id) /\ Stored(b, d, n)
  <2>1. /\ \A x, k : x # b \/ k # d.id => BlobAt(x, k)' = BlobAt(x, k)
        /\ BlobAt(b, d.id)' = {}
    BY <1>4, RemovedElsewhere
  <2>2. \A c \in BlobAt(b, d.id)' :
           /\ c.bytes = n
           /\ c.state = "whole" \/ (c.state = "torn" /\ {"close", "remove"} \subseteq Faults)
    BY <2>1
  <2> QED BY <1>1, <1>2, <1>4, <2>1, <2>2, FiledStored
<1>5. CASE RemoveBlob(b, d.id) /\ Fail(b, batch[b].resolved)
  BY <1>5, RemovedElsewhere, FiledFails
<1> QED BY <1>1, <1>3, <1>4, <1>5

\* The steps that write nothing.
LEMMA FiledQuiet ==
    ASSUME BatchInv, Filed, NEW b \in Batches,
           Refuse(b) \/ NoMoreFiles(b) \/ RecordAll(b)
    PROVE  Filed'
<1>1. \A x, k : BlobAt(x, k)' = BlobAt(x, k) BY DEF Refuse, NoMoreFiles, RecordAll, BlobAt
<1>2. CASE \E S : Fail(b, S) BY <1>1, <1>2, FiledFails
<1>3. CASE /\ batch[b].pc = "files" /\ \A d \in batch[b].docs : d.path \in batch[b].resolved
           /\ batch' = [batch EXCEPT ![b].pc = "tx"]
  <2>1. /\ batch'[b].pc = "tx" /\ batch'[b].docs = batch[b].docs
        /\ batch'[b].resolved = batch[b].resolved
        /\ \A x \in Batches \ {b} : batch'[x] = batch[x]
    BY <1>3 DEF BatchInv, Shape
  <2>2. \A d \in batch[b].docs : StoredWhole(b, d) BY <1>3 DEF Filed, FiledAt
  <2>3. \A d \in batch[b].docs : StoredWhole(b, d)' BY <2>2, <1>1 DEF StoredWhole
  <2>4. FiledAt(b)' BY <1>3, <2>1, <2>3 DEF FiledAt
  <2>5. \A x \in Batches \ {b} : FiledAt(x)' BY <2>1, <1>1, OthersStay DEF Filed
  <2> QED BY <2>4, <2>5 DEF Filed
<1> QED BY <1>2, <1>3 DEF Refuse, NoMoreFiles, RecordAll

LEMMA FiledBegin ==
    ASSUME BatchInv, Filed, NEW b \in Batches, Begin(b)
    PROVE  Filed'
<1>1. PICK man, tree :
        batch' = [batch EXCEPT ![b] =
                    [pc |-> "files", manifest |-> man, docs |-> tree.docs,
                     nodes |-> tree.nodes, resolved |-> {}, file |-> <<>>]]
  BY Zenon DEF Begin
<1>2. /\ batch'[b].pc = "files" /\ batch'[b].resolved = {}
      /\ \A x \in Batches \ {b} : batch'[x] = batch[x]
  BY <1>1 DEF BatchInv, Shape
<1>3. \A x, k : BlobAt(x, k)' = BlobAt(x, k) BY DEF Begin, BlobAt
<1>4. FiledAt(b)' BY <1>2 DEF FiledAt
<1>5. \A x \in Batches \ {b} : FiledAt(x)' BY <1>2, <1>3, OthersStay DEF Filed
<1> QED BY <1>4, <1>5 DEF Filed

\* A pool works for a batch that has failed.
LEMMA FiledClean ==
    ASSUME BatchInv, Filed, NEW b \in Batches, Clean(b)
    PROVE  Filed'
<1>1. batch[b].pc = "cleaning"
  BY DEF Clean, Feed, Delete, CleanupEnd, BatchInv, PoolAfterFailure
<1>2. /\ batch'[b].pc \in {"cleaning", "ended"}
      /\ \A x \in Batches \ {b} : batch'[x] = batch[x]
  <2>1. CASE UNCHANGED batch BY <2>1, <1>1
  <2>2. CASE batch' = [batch EXCEPT ![b].pc = "ended"] BY <2>2 DEF BatchInv, Shape
  <2> QED BY <2>1, <2>2 DEF Clean, Feed, Delete, CleanupEnd
<1>3. \A x \in Batches \ {b} : \A k : BlobAt(x, k)' = BlobAt(x, k)
  <2>1. CASE UNCHANGED blobs BY <2>1 DEF BlobAt
  <2>2. CASE Delete(b)
    <3>1. PICK id : RemoveBlob(b, id) BY <2>2 DEF Delete
    <3> QED BY <3>1, RemovedElsewhere
  <2> QED BY <2>1, <2>2 DEF Clean, Feed, CleanupEnd
<1>4. FiledAt(b)' BY <1>2 DEF FiledAt
<1>5. \A x \in Batches \ {b} : FiledAt(x)' BY <1>2, <1>3, OthersStay DEF Filed
<1> QED BY <1>4, <1>5 DEF Filed

\* After a crash no batch is receiving.
LEMMA FiledCrash == ASSUME BatchInv, Crash PROVE Filed'
<1>1. \A b \in Batches : batch'[b].pc \in {"idle", "ended"} BY DEF Crash, BatchInv, Shape
<1> QED BY <1>1 DEF Filed, FiledAt

FiledInv == BatchInv /\ FromManifest /\ Filed

LEMMA FiledStep == FiledInv /\ [BatchNext]_bvars => Filed'
<1>1. ASSUME FiledInv, NEW b \in Batches, Execute(b) PROVE Filed'
  BY <1>1, FiledBegin, FiledOpen, FiledCopy, FiledQuiet DEF FiledInv, Execute
<1>2. ASSUME FiledInv, UNCHANGED bvars PROVE Filed'
  BY <1>2 DEF FiledInv, bvars, Filed, FiledAt, StoredWhole, BlobAt
<1> QED BY <1>1, <1>2, FiledClean, FiledCrash DEF FiledInv, BatchNext

\* A batch that reaches its transaction has a whole content of the announced size
\* for every doc of its manifest, however often a file was sent, but for those whose
\* close has failed (storage_manager_fs.go): they are gone, or torn if removing them
\* failed as well.
THEOREM TransactionsAreComplete == BatchSpec => []CompleteAtTx
<1>1. BatchInit => FiledInv
  <2>1. BatchInit => Filed BY DEF BatchInit, Idle, Filed, FiledAt
  <2> QED BY <2>1, BatchInitInv, RowsInit DEF FiledInv
<1>2. FiledInv /\ [BatchNext]_bvars => FiledInv'
  BY BatchNextInv, RowsStep, FiledStep DEF FiledInv, BatchInv
<1>3. FiledInv => CompleteAtTx
  BY DEF FiledInv, Filed, FiledAt, StoredWhole, CompleteAtTx
<1> QED BY <1>1, <1>2, <1>3, PTL DEF BatchSpec

-----------------------------------------------------------------------------
(***************************************************************************)
(* The types of a batch.  Its docs and rows are typed as those of any tree *)
(* of a manifest; a pool has at least one worker and as many as there are  *)
(* keys at most, which are finitely many.                                  *)
(***************************************************************************)
LEMMA DocsOfManifest ==
    ASSUME FromManifest, NEW b \in Batches
    PROVE  /\ batch[b].manifest \in Seq(Entry)
           /\ batch[b].docs \in SUBSET DocType /\ batch[b].nodes \in SUBSET RowType
           /\ IsFiniteSet(batch[b].docs)
<1>1. PICK t : t = processManifest(batch[b].manifest) OBVIOUS
<1>2. PICK i \in Nat, j \in Nat : TreeInv(t, batch[b].manifest, i, j)
  BY <1>1, ManifestTree DEF FromManifest
<1>3. t.docs \in SUBSET DocType /\ t.nodes \in SUBSET RowType /\ IsFiniteSet(t.docs)
  BY <1>2 DEF TreeInv, TreeType
<1> QED BY <1>1, <1>3 DEF FromManifest

LEMMA WorkersOf ==
    ASSUME NEW n \in Nat
    PROVE  Max({Min({Parallel, n}), 1}) \in Nat
<1>1. Parallel \in Nat BY BoundsAssumption
<1>2. \E x \in {Parallel, n} : \A y \in {Parallel, n} : x <= y BY <1>1
<1>3. Min({Parallel, n}) \in {Parallel, n} BY <1>2 DEF Min
<1>4. PICK m \in Nat : m = Min({Parallel, n}) BY <1>1, <1>3
<1>5. \E x \in {m, 1} : \A y \in {m, 1} : x >= y OBVIOUS
<1>6. Max({m, 1}) \in {m, 1} BY <1>5 DEF Max
<1> QED BY <1>4, <1>6

\* A batch and a pool are records: they are what their fields are.
IsRecord(r) == r = [k \in DOMAIN r |-> r[k]]

Records == \A b \in Batches : IsRecord(batch[b]) /\ IsRecord(cleanup[b])

\* A step of one batch, and of its pool, keeps the other ones.
LEMMA OneRecord ==
    ASSUME Records, NEW b \in Batches, IsRecord(batch'[b]), IsRecord(cleanup'[b]),
           \A x \in Batches \ {b} : batch'[x] = batch[x] /\ cleanup'[x] = cleanup[x]
    PROVE  Records'
BY DEF Records

LEMMA FailRecords ==
    ASSUME Shape, Records, NEW b \in Batches, NEW S, Fail(b, S) PROVE Records'
<1>1. IsRecord(batch'[b])
  <2>1. batch'[b] = [batch[b] EXCEPT !.pc = "cleaning"] BY DEF Fail, Shape
  <2> QED BY <2>1 DEF IsRecord
<1>2. IsRecord(cleanup'[b])
  <2>1. PICK left, workers : cleanup'[b] = [left |-> left, held |-> {}, workers |-> workers]
    BY DEF Fail, Shape
  <2> QED BY <2>1 DEF IsRecord
<1> QED BY <1>1, <1>2, FailHandsOn, OneRecord

LEMMA ExecuteRecords ==
    ASSUME Shape, Records, NEW b \in Batches, Execute(b) PROVE Records'
<1>1. CASE Begin(b)
  <2>1. PICK man, tree :
          batch' = [batch EXCEPT ![b] =
                      [pc |-> "files", manifest |-> man, docs |-> tree.docs,
                       nodes |-> tree.nodes, resolved |-> {}, file |-> <<>>]]
    BY <1>1, Zenon DEF Begin
  <2>2. /\ batch'[b] = [pc |-> "files", manifest |-> man, docs |-> tree.docs,
                        nodes |-> tree.nodes, resolved |-> {}, file |-> <<>>]
        /\ \A x \in Batches \ {b} : batch'[x] = batch[x]
    BY <2>1 DEF Shape
  <2>3. IsRecord(batch'[b]) BY <2>2 DEF IsRecord
  <2> QED BY <1>1, <2>2, <2>3, OneRecord DEF Begin, Records
<1>2. CASE Open(b)
  <2>1. PICK d : batch' = [batch EXCEPT ![b].pc = "copy", ![b].file = d.id] BY <1>2 DEF Open
  <2>2. /\ batch'[b] = [[batch[b] EXCEPT !.pc = "copy"] EXCEPT !.file = d.id]
        /\ \A x \in Batches \ {b} : batch'[x] = batch[x]
    BY <2>1 DEF Shape
  <2>3. IsRecord(batch'[b]) BY <2>2 DEF IsRecord
  <2> QED BY <1>2, <2>2, <2>3, OneRecord DEF Open, Records
<1>3. CASE Copy(b)
  <2>1. PICK d, n, S : Stored(b, d, n) \/ Fail(b, S) BY <1>3 DEF Copy
  <2>2. CASE /\ batch' = [batch EXCEPT ![b].pc = "files", ![b].resolved = @ \cup {d.path}]
             /\ UNCHANGED cleanup
    <3>1. PICK set : batch' = [batch EXCEPT ![b].pc = "files", ![b].resolved = set]
      BY <2>2, Zenon
    <3>2. /\ batch'[b] = [[batch[b] EXCEPT !.pc = "files"] EXCEPT !.resolved = set]
          /\ \A x \in Batches \ {b} : batch'[x] = batch[x]
      BY <3>1 DEF Shape
    <3>3. IsRecord(batch'[b]) BY <3>2 DEF IsRecord
    <3> QED BY <2>2, <3>2, <3>3, OneRecord DEF Records
  <2> QED BY <2>1, <2>2, FailRecords DEF Stored
<1>4. CASE batch' = [batch EXCEPT ![b].pc = "tx"] /\ UNCHANGED cleanup
  <2>1. /\ batch'[b] = [batch[b] EXCEPT !.pc = "tx"]
        /\ \A x \in Batches \ {b} : batch'[x] = batch[x]
    BY <1>4 DEF Shape
  <2>2. IsRecord(batch'[b]) BY <2>1 DEF IsRecord
  <2> QED BY <1>4, <2>1, <2>2, OneRecord DEF Records
<1>5. CASE Refuse(b) \/ NoMoreFiles(b) \/ RecordAll(b)
  BY <1>4, <1>5, FailRecords DEF Refuse, NoMoreFiles, RecordAll
<1> QED BY <1>1, <1>2, <1>3, <1>5 DEF Execute

LEMMA CleanRecords ==
    ASSUME Shape, Records, NEW b \in Batches, Clean(b) PROVE Records'
<1>1. CASE Feed(b)
  <2>1. PICK left, held :
            cleanup' = [cleanup EXCEPT ![b].left = left, ![b].held = held]
    <3>1. PICK k : cleanup' = [cleanup EXCEPT ![b].left = @ \ {k}, ![b].held = @ \cup {k}]
      BY <1>1 DEF Feed
    <3> QED BY <3>1, Zenon
  <2>2. /\ cleanup'[b] = [[cleanup[b] EXCEPT !.left = left] EXCEPT !.held = held]
        /\ \A x \in Batches \ {b} : cleanup'[x] = cleanup[x]
    BY <2>1 DEF Shape
  <2>3. IsRecord(cleanup'[b]) BY <2>2 DEF IsRecord
  <2> QED BY <1>1, <2>2, <2>3, OneRecord DEF Feed, Records
<1>2. CASE Delete(b)
  <2>1. PICK held : cleanup' = [cleanup EXCEPT ![b].held = held]
    <3>1. PICK k : cleanup' = [cleanup EXCEPT ![b].held = @ \ {k}] BY <1>2 DEF Delete
    <3> QED BY <3>1, Zenon
  <2>2. /\ cleanup'[b] = [cleanup[b] EXCEPT !.held = held]
        /\ \A x \in Batches \ {b} : cleanup'[x] = cleanup[x]
    BY <2>1 DEF Shape
  <2>3. IsRecord(cleanup'[b]) BY <2>2 DEF IsRecord
  <2> QED BY <1>2, <2>2, <2>3, OneRecord DEF Delete, Records
<1>3. CASE CleanupEnd(b)
  <2>1. /\ batch'[b] = [batch[b] EXCEPT !.pc = "ended"] /\ cleanup'[b] = NoPool
        /\ \A x \in Batches \ {b} : batch'[x] = batch[x] /\ cleanup'[x] = cleanup[x]
    BY <1>3 DEF CleanupEnd, Shape
  <2>2. IsRecord(batch'[b]) BY <2>1 DEF IsRecord
  <2>3. IsRecord(cleanup'[b]) BY <2>1 DEF IsRecord, NoPool
  <2> QED BY <2>1, <2>2, <2>3, OneRecord
<1> QED BY <1>1, <1>2, <1>3 DEF Clean

LEMMA RecordsStep == Shape /\ Records /\ [BatchNext]_bvars => Records'
<1>1. ASSUME Records, Crash PROVE Records'
  <2> SUFFICES ASSUME NEW b \in Batches PROVE IsRecord(batch'[b]) /\ IsRecord(cleanup'[b])
    BY DEF Records
  <2>1. cleanup'[b] = NoPool BY <1>1 DEF Crash
  <2>2. batch'[b] = batch[b] \/ batch'[b] = [batch[b] EXCEPT !.pc = "ended"]
    BY <1>1 DEF Crash
  <2>3. IsRecord(batch[b]) BY <1>1 DEF Records
  <2>4. IsRecord(batch'[b]) BY <2>2, <2>3 DEF IsRecord
  <2>5. IsRecord(NoPool) BY DEF IsRecord, NoPool
  <2> QED BY <2>1, <2>4, <2>5
<1>2. ASSUME Records, UNCHANGED bvars PROVE Records'
  BY <1>2 DEF bvars, Records
<1> QED BY <1>1, <1>2, ExecuteRecords, CleanRecords DEF BatchNext

LEMMA RecordsInit == BatchInit => Records
<1>1. IsRecord(Idle) BY DEF IsRecord, Idle
<1>2. IsRecord(NoPool) BY DEF IsRecord, NoPool
<1> QED BY <1>1, <1>2 DEF BatchInit, Records

\* What a step that only concerns batch b has to leave.
BatchTyped(b) ==
    /\ batch[b].pc \in Pcs
    /\ batch[b].resolved \in SUBSET Paths /\ batch[b].file \in Id \cup {<<>>}
    /\ cleanup[b].left \in SUBSET Id /\ cleanup[b].held \in SUBSET Id
    /\ cleanup[b].workers \in Nat

BatchesTyped ==
    /\ \A b \in Batches : BatchTyped(b)
    /\ blobs \subseteq Content /\ stray \subseteq Batches \X Id

LEMMA AreBatchTypes == Shape /\ Records /\ FromManifest /\ BatchesTyped => BatchTypeOK
<1> SUFFICES ASSUME Shape, Records, FromManifest, BatchesTyped PROVE BatchTypeOK OBVIOUS
<1>1. ASSUME NEW b \in Batches PROVE batch[b] \in Batch /\ cleanup[b] \in Pool
  <2>1. PICK q : q = batch[b] OBVIOUS
  <2>2. PICK p : p = cleanup[b] OBVIOUS
  <2>3. q = [pc |-> q.pc, manifest |-> q.manifest, docs |-> q.docs, nodes |-> q.nodes,
             resolved |-> q.resolved, file |-> q.file]
    BY <2>1 DEF Shape, Records, IsRecord
  <2>4. p = [left |-> p.left, held |-> p.held, workers |-> p.workers]
    BY <2>2 DEF Shape, Records, IsRecord
  <2>5. q.manifest \in Seq(Entry) /\ q.docs \in SUBSET DocType /\ q.nodes \in SUBSET RowType
    BY <2>1, DocsOfManifest
  <2>6. /\ q.pc \in Pcs /\ q.resolved \in SUBSET Paths /\ q.file \in Id \cup {<<>>}
        /\ p.left \in SUBSET Id /\ p.held \in SUBSET Id /\ p.workers \in Nat
    BY <2>1, <2>2 DEF BatchesTyped, BatchTyped
  <2>7. q \in Batch BY <2>3, <2>5, <2>6, Zenon DEF Batch, DocType, RowType
  <2>8. p \in Pool BY <2>4, <2>6, Zenon DEF Pool
  <2> QED BY <2>1, <2>2, <2>7, <2>8
<1>2. batch \in [Batches -> Batch] /\ cleanup \in [Batches -> Pool]
  BY <1>1, Zenon DEF Shape
<1> QED BY <1>2 DEF BatchesTyped, BatchTypeOK

\* A step that leaves the other batches, and the contents typed.
LEMMA OneBatchTyped ==
    ASSUME BatchesTyped, NEW b \in Batches, BatchTyped(b)',
           \A x \in Batches \ {b} : batch'[x] = batch[x] /\ cleanup'[x] = cleanup[x],
           blobs' \subseteq Content, stray' \subseteq Batches \X Id
    PROVE  BatchesTyped'
BY DEF BatchesTyped, BatchTyped

LEMMA FailTyped ==
    ASSUME Shape, FromManifest, BatchesTyped, NEW b \in Batches, NEW S, Fail(b, S),
           blobs' \subseteq Content, stray' \subseteq Batches \X Id
    PROVE  BatchesTyped'
<1>1. PICK keys : keys = {d.id : d \in {x \in batch[b].docs : x.path \in S}} OBVIOUS
<1>2. keys \in SUBSET Id /\ Cardinality(keys) \in Nat
  <2>1. batch[b].docs \in SUBSET DocType /\ IsFiniteSet(batch[b].docs) BY DocsOfManifest
  <2>2. PICK docs : docs = {x \in batch[b].docs : x.path \in S} OBVIOUS
  <2>3. IsFiniteSet(docs) BY <2>1, <2>2, FS_Subset
  <2>4. PICK ids : ids = [d \in docs |-> d.id] OBVIOUS
  <2>5. keys = {ids[d] : d \in docs} BY <1>1, <2>2, <2>4
  <2>6. ids \in Surjection(docs, keys) BY <2>4, <2>5 DEF Surjection
  <2>7. IsFiniteSet(keys) BY <2>3, <2>6, FS_Surjection
  <2> QED BY <1>1, <2>1, <2>7, FS_CardinalityType DEF DocType
<1>3. PICK workers \in Nat : workers = Max({Min({Parallel, Cardinality(keys)}), 1})
  BY <1>2, WorkersOf
<1>4. /\ batch' = [batch EXCEPT ![b].pc = "cleaning"]
      /\ cleanup' = [cleanup EXCEPT ![b] = [left |-> keys, held |-> {}, workers |-> workers]]
  BY <1>1, <1>3 DEF Fail
<1>5. /\ batch'[b].pc = "cleaning" /\ batch'[b].resolved = batch[b].resolved
      /\ batch'[b].file = batch[b].file
      /\ cleanup'[b].left = keys /\ cleanup'[b].held = {} /\ cleanup'[b].workers = workers
  BY <1>4 DEF Shape
<1>6. \A x \in Batches \ {b} : batch'[x] = batch[x] /\ cleanup'[x] = cleanup[x]
  BY <1>4 DEF Shape
<1>7. BatchTyped(b)' BY <1>2, <1>5 DEF BatchTyped, BatchesTyped, Pcs
<1> QED BY <1>6, <1>7, OneBatchTyped

LEMMA WrittenTyped ==
    ASSUME BatchesTyped, NEW b \in Batches, NEW id \in Id, NEW n \in Nat,
           NEW s \in {"part", "whole", "torn"}
    PROVE  Written(b, id, n, s) \subseteq Content
<1>1. [batch |-> b, id |-> id, bytes |-> n, state |-> s] \in Content BY DEF Content
<1> QED BY <1>1 DEF Written, BatchesTyped

LEMMA RemovedTyped ==
    ASSUME BatchesTyped, NEW b \in Batches, NEW id \in Id, RemoveBlob(b, id)
    PROVE  blobs' \subseteq Content /\ stray' \subseteq Batches \X Id
BY DEF RemoveBlob, BatchesTyped

LEMMA BeginTyped ==
    ASSUME Shape, BatchesTyped, NEW b \in Batches, Begin(b) PROVE BatchesTyped'
<1>1. PICK man, tree :
        batch' = [batch EXCEPT ![b] =
                    [pc |-> "files", manifest |-> man, docs |-> tree.docs,
                     nodes |-> tree.nodes, resolved |-> {}, file |-> <<>>]]
  BY Zenon DEF Begin
<1>2. /\ batch'[b].pc = "files" /\ batch'[b].resolved = {} /\ batch'[b].file = <<>>
      /\ \A x \in Batches \ {b} : batch'[x] = batch[x]
  BY <1>1 DEF Shape
<1>3. UNCHANGED <<cleanup, blobs, stray>> BY DEF Begin
<1>4. BatchTyped(b)' BY <1>2, <1>3 DEF BatchTyped, BatchesTyped, Pcs
<1> QED BY <1>2, <1>3, <1>4, OneBatchTyped DEF BatchesTyped

LEMMA OpenTyped ==
    ASSUME Shape, FromManifest, BatchesTyped, NEW b \in Batches, Open(b) PROVE BatchesTyped'
<1>1. PICK d \in batch[b].docs :
        /\ batch' = [batch EXCEPT ![b].pc = "copy", ![b].file = d.id]
        /\ blobs' = Written(b, d.id, 0, "part")
  BY DEF Open
<1>2. d.id \in Id BY DocsOfManifest DEF DocType
<1>3. /\ batch'[b].pc = "copy" /\ batch'[b].resolved = batch[b].resolved
      /\ batch'[b].file = d.id
      /\ \A x \in Batches \ {b} : batch'[x] = batch[x]
  BY <1>1 DEF Shape
<1>4. UNCHANGED <<cleanup, stray>> BY DEF Open
<1>5. BatchTyped(b)' BY <1>2, <1>3, <1>4 DEF BatchTyped, BatchesTyped, Pcs
<1>6. blobs' \subseteq Content BY <1>1, <1>2, WrittenTyped
<1> QED BY <1>3, <1>4, <1>5, <1>6, OneBatchTyped DEF BatchesTyped

LEMMA StoredTyped ==
    ASSUME Shape, FromManifest, BatchesTyped, NEW b \in Batches, NEW d \in batch[b].docs,
           NEW n \in Nat, Stored(b, d, n), blobs' \subseteq Content, UNCHANGED stray
    PROVE  BatchesTyped'
<1>1. stray' \subseteq Batches \X Id BY DEF BatchesTyped
<1>2. CASE /\ batch' = [batch EXCEPT ![b].pc = "files", ![b].resolved = @ \cup {d.path}]
           /\ UNCHANGED cleanup
  <2>1. d.path \in Paths BY DocsOfManifest DEF DocType
  <2>2. /\ batch'[b].pc = "files" /\ batch'[b].resolved = batch[b].resolved \cup {d.path}
        /\ batch'[b].file = batch[b].file
        /\ \A x \in Batches \ {b} : batch'[x] = batch[x]
    BY <1>2 DEF Shape
  <2>3. BatchTyped(b)' BY <1>2, <2>1, <2>2 DEF BatchTyped, BatchesTyped, Pcs
  <2> QED BY <1>1, <1>2, <2>2, <2>3, OneBatchTyped
<1> QED BY <1>1, <1>2, FailTyped DEF Stored

LEMMA CopyTyped ==
    ASSUME Shape, FromManifest, BatchesTyped, NEW b \in Batches, Copy(b) PROVE BatchesTyped'
<1>1. PICK d \in batch[b].docs, n \in 0 .. MaxSize :
          \/ blobs' = Written(b, d.id, n, "whole") /\ Stored(b, d, n) /\ UNCHANGED stray
          \/ blobs' = Written(b, d.id, n, "torn") /\ Stored(b, d, n) /\ UNCHANGED stray
          \/ blobs' = blobs \ BlobAt(b, d.id) /\ Stored(b, d, n) /\ UNCHANGED stray
          \/ RemoveBlob(b, d.id) /\ Fail(b, batch[b].resolved)
  BY DEF Copy
<1>2. d.id \in Id /\ n \in Nat BY DocsOfManifest, SizesAssumption DEF DocType
<1>3. /\ Written(b, d.id, n, "whole") \subseteq Content
      /\ Written(b, d.id, n, "torn") \subseteq Content
      /\ blobs \ BlobAt(b, d.id) \subseteq Content
  BY <1>2, WrittenTyped DEF BatchesTyped
<1>4. CASE RemoveBlob(b, d.id) /\ Fail(b, batch[b].resolved)
  BY <1>2, <1>4, RemovedTyped, FailTyped
<1> QED BY <1>1, <1>2, <1>3, <1>4, StoredTyped

LEMMA QuietTyped ==
    ASSUME Shape, FromManifest, BatchesTyped, NEW b \in Batches,
           Refuse(b) \/ NoMoreFiles(b) \/ RecordAll(b)
    PROVE  BatchesTyped'
<1>1. blobs' \subseteq Content /\ stray' \subseteq Batches \X Id
  BY DEF Refuse, NoMoreFiles, RecordAll, BatchesTyped
<1>2. CASE batch' = [batch EXCEPT ![b].pc = "tx"] /\ UNCHANGED cleanup
  <2>1. /\ batch'[b].pc = "tx" /\ batch'[b].resolved = batch[b].resolved
        /\ batch'[b].file = batch[b].file
        /\ \A x \in Batches \ {b} : batch'[x] = batch[x]
    BY <1>2 DEF Shape
  <2>2. BatchTyped(b)' BY <1>2, <2>1 DEF BatchTyped, BatchesTyped, Pcs
  <2> QED BY <1>1, <1>2, <2>1, <2>2, OneBatchTyped
<1> QED BY <1>1, <1>2, FailTyped DEF Refuse, NoMoreFiles, RecordAll

LEMMA CleanTyped ==
    ASSUME Shape, BatchesTyped, NEW b \in Batches, Clean(b) PROVE BatchesTyped'
<1>1. CASE Feed(b)
  <2>1. PICK k \in cleanup[b].left :
            cleanup' = [cleanup EXCEPT ![b].left = @ \ {k}, ![b].held = @ \cup {k}]
    BY <1>1 DEF Feed
  <2>2. /\ cleanup'[b].left = cleanup[b].left \ {k}
        /\ cleanup'[b].held = cleanup[b].held \cup {k}
        /\ cleanup'[b].workers = cleanup[b].workers
        /\ \A x \in Batches \ {b} : cleanup'[x] = cleanup[x]
    BY <2>1 DEF Shape
  <2>3. UNCHANGED <<batch, blobs, stray>> BY <1>1 DEF Feed
  <2>4. BatchTyped(b)' BY <2>2, <2>3 DEF BatchTyped, BatchesTyped
  <2> QED BY <2>2, <2>3, <2>4, OneBatchTyped DEF BatchesTyped
<1>2. CASE Delete(b)
  <2>1. PICK k \in cleanup[b].held :
            RemoveBlob(b, k) /\ cleanup' = [cleanup EXCEPT ![b].held = @ \ {k}]
    BY <1>2 DEF Delete
  <2>2. /\ cleanup'[b].left = cleanup[b].left /\ cleanup'[b].held = cleanup[b].held \ {k}
        /\ cleanup'[b].workers = cleanup[b].workers
        /\ \A x \in Batches \ {b} : cleanup'[x] = cleanup[x]
    BY <2>1 DEF Shape
  <2>3. k \in Id BY DEF BatchesTyped, BatchTyped
  <2>4. UNCHANGED batch BY <1>2 DEF Delete
  <2>5. BatchTyped(b)' BY <2>2, <2>4 DEF BatchTyped, BatchesTyped
  <2>6. blobs' \subseteq Content /\ stray' \subseteq Batches \X Id
    BY <2>1, <2>3, RemovedTyped
  <2> QED BY <2>2, <2>4, <2>5, <2>6, OneBatchTyped
<1>3. CASE CleanupEnd(b)
  <2>1. /\ batch'[b].pc = "ended" /\ batch'[b].resolved = batch[b].resolved
        /\ batch'[b].file = batch[b].file
        /\ cleanup'[b].left = {} /\ cleanup'[b].held = {} /\ cleanup'[b].workers = 0
        /\ \A x \in Batches \ {b} : batch'[x] = batch[x] /\ cleanup'[x] = cleanup[x]
    BY <1>3 DEF CleanupEnd, Shape, NoPool
  <2>2. BatchTyped(b)' BY <2>1 DEF BatchTyped, BatchesTyped, Pcs
  <2> QED BY <1>3, <2>1, <2>2, OneBatchTyped DEF CleanupEnd, BatchesTyped
<1> QED BY <1>1, <1>2, <1>3 DEF Clean

LEMMA CrashTyped == ASSUME Shape, BatchesTyped, Crash PROVE BatchesTyped'
<1>1. ASSUME NEW b \in Batches PROVE BatchTyped(b)'
  <2>1. /\ batch'[b].pc \in {batch[b].pc, "ended"} /\ batch'[b].resolved = batch[b].resolved
        /\ batch'[b].file = batch[b].file /\ cleanup'[b] = NoPool
    BY DEF Crash, Shape
  <2> QED BY <2>1 DEF BatchTyped, BatchesTyped, Pcs, NoPool
<1>2. {<<c.batch, c.id>> : c \in blobs} \subseteq Batches \X Id
  BY DEF BatchesTyped, Content
<1> QED BY <1>1, <1>2 DEF Crash, BatchesTyped

LEMMA BatchesStep == Shape /\ FromManifest /\ BatchesTyped /\ [BatchNext]_bvars => BatchesTyped'
<1>1. ASSUME BatchesTyped, UNCHANGED bvars PROVE BatchesTyped'
  BY <1>1 DEF bvars, BatchesTyped, BatchTyped
<1>2. ASSUME Shape, FromManifest, BatchesTyped, NEW b \in Batches, Execute(b) \/ Clean(b)
      PROVE  BatchesTyped'
  BY <1>2, BeginTyped, OpenTyped, CopyTyped, QuietTyped, CleanTyped DEF Execute
<1> QED BY <1>1, <1>2, CrashTyped DEF BatchNext

\* Every variable of the batch upload keeps its type (batch_node_tree_usecase.go), for
\* any manifests, sizes and failures.
THEOREM BatchTypeCorrect == BatchSpec => []BatchTypeOK
<1> DEFINE Typed == BatchInv /\ Records /\ FromManifest /\ BatchesTyped
<1>1. BatchInit => Typed
  <2>1. BatchInit => BatchesTyped
    BY DEF BatchInit, Idle, NoPool, BatchesTyped, BatchTyped, Pcs
  <2> QED BY <2>1, BatchInitInv, RecordsInit, RowsInit
<1>2. Typed /\ [BatchNext]_bvars => Typed'
  BY BatchNextInv, RecordsStep, RowsStep, BatchesStep DEF BatchInv
<1>3. Typed => BatchTypeOK
  BY AreBatchTypes DEF BatchInv
<1> QED BY <1>1, <1>2, <1>3, PTL DEF BatchSpec
=============================================================================
