---------------------------- MODULE FolderUpload ----------------------------
(***************************************************************************)
(* useUploadFolder of the web client: a directory is uploaded as one       *)
(* request per folder, level by level, and then one request per file, each *)
(* phase by a pool of workers; the user may cancel, retry what is left,    *)
(* clear the list and start again.                                         *)
(*                                                                         *)
(* A run is one call of execute.  When a folder cannot be created execute  *)
(* rejects at once while the other workers of its level go on: they are    *)
(* left over, and share every variable of the hook with the runs to come.  *)
(*                                                                         *)
(* JavaScript runs to completion: what follows an answer or a click up to  *)
(* the next request is done (the steps of Micro) before anything else is   *)
(* heard.                                                                  *)
(***************************************************************************)
EXTENDS Integers, FiniteSets

CONSTANTS
    Folders, Files,  \* the items of the directory's plan
    Top,             \* the path '' of the destination folder
    Parent,          \* the folder each item is in
    Depth,           \* the level of each folder
    Dests,           \* the folders of the drive an upload may be started in
    Limit,           \* FOLDER_UPLOAD_CONCURRENCY
    Refusals,        \* the items the server may refuse
    Losses,          \* the items whose answer may be lost
    MaxRuns,         \* bound on the calls of start and retryFailed
    None

Items == Folders \cup Files

\* A file's path begins with the name of the chosen directory: it is in a folder.
ASSUME PlanAssumption ==
    /\ IsFiniteSet(Items)
    /\ Folders # {} /\ Folders \cap Files = {} /\ Top \notin Items
    /\ Parent \in [Items -> Folders \cup {Top}]
    /\ \A f \in Files : Parent[f] \in Folders
    /\ Depth \in [Folders -> Nat \ {0}]
    /\ \A f \in Folders : Depth[f] = IF Parent[f] = Top THEN 1 ELSE Depth[Parent[f]] + 1
ASSUME LimitAssumption == Limit \in Nat \ {0}
ASSUME BoundAssumption == MaxRuns \in Nat
ASSUME RefusalsAssumption == Refusals \subseteq Items /\ Losses \subseteq Items

VARIABLES
    plan,        \* the status of each item on the list
    updates,     \* updatesMap: statuses not yet on the list
    idOf,        \* folderIdByPath
    total, completed, failed, cancelledCount, active,  \* the counters
    uploading, cancelled,
    current,     \* the run activeController belongs to, or 0
    runs,        \* the calls of execute
    made,        \* the folders the server has
    stored,      \* the files the server has, and the run that sent them
    unsure       \* history: items the server has made that were reported as failed
                 \* or cancelled since the last start

counters == <<total, completed, failed, cancelledCount, active>>
hook == <<plan, updates, idOf, counters, uploading, cancelled, current>>
server == <<made, stored, unsure>>
vars == <<hook, runs, server>>

\* A folder of the server: the destination it was uploaded to and its path.
Ids == Dests \X (Folders \cup {Top})

\* "gone": not, or no longer, on the list.
Statuses == {"queued", "uploading", "completed", "failed", "cancelled"}

ASSUME NoneAssumption == None \notin Ids \cup Statuses

isRetryable(status) == status \in {"queued", "failed", "cancelled"}

(***************************************************************************)
(* A run: where execute is ("early": it returned after the folders, being  *)
(* cancelled; "done": after the files; "left": it has rejected), the level *)
(* it creates, the queued items its workers have still to take, the        *)
(* requests they wait for (with the parent id sent), how many workers are  *)
(* left, whether its signal is aborted, where and by which start.          *)
(***************************************************************************)
Phases == {"off", "folders", "files", "early", "done", "left"}
Depths == {Depth[f] : f \in Folders}
Run == [phase : Phases, level : {0} \cup Depths, todo : SUBSET Items,
        waiting : SUBSET (Items \X Ids), workers : 0 .. Limit,
        aborted : BOOLEAN, dest : Dests \cup {None}, first : 0 .. MaxRuns]

RunIds == 1 .. MaxRuns

TypeOK ==
    /\ plan \in [Items -> Statuses \cup {"gone"}]
    /\ updates \in [Items -> Statuses \cup {None}]
    /\ idOf \in [Folders \cup {Top} -> Ids \cup {None}]
    /\ total \in 0 .. Cardinality(Items)
    /\ completed \in Nat /\ failed \in Nat
    /\ cancelledCount \in Int /\ active \in Int
    /\ uploading \in BOOLEAN /\ cancelled \in BOOLEAN
    /\ current \in 0 .. MaxRuns
    /\ runs \in [RunIds -> Run]
    /\ made \subseteq Ids
    /\ stored \subseteq [parent : Ids, file : Files, run : RunIds]
    /\ unsure \subseteq Items

NoRun == [phase |-> "off", level |-> 0, todo |-> {}, waiting |-> {}, workers |-> 0,
          aborted |-> FALSE, dest |-> None, first |-> 0]

Init ==
    /\ plan = [i \in Items |-> "gone"]
    /\ updates = [i \in Items |-> None]
    /\ idOf = [p \in Folders \cup {Top} |-> None]
    /\ total = 0 /\ completed = 0 /\ failed = 0 /\ cancelledCount = 0 /\ active = 0
    /\ uploading = FALSE /\ cancelled = FALSE
    /\ current = 0
    /\ runs = [r \in RunIds |-> NoRun]
    /\ made = {} /\ stored = {} /\ unsure = {}

\* The number of runs so far: the last one.
LastRun == Cardinality({r \in RunIds : runs[r].phase # "off"})

Live(r) == runs[r].phase \in {"folders", "files", "left"}

\* Work that needs no event to go on.
Ready(r) ==
    /\ Live(r)
    /\ \/ runs[r].todo # {} /\ Cardinality(runs[r].waiting) < runs[r].workers
       \/ runs[r].todo = {} /\ runs[r].waiting = {} /\ runs[r].phase # "left"
       \/ runs[r].aborted /\ runs[r].waiting # {}

Quiet == \A r \in RunIds : ~Ready(r)

Queued(items) == {i \in items : plan[i] = "queued"}
-----------------------------------------------------------------------------
(***************************************************************************)
(* The workers                                                             *)
(***************************************************************************)

\* Mutant: it is not counted.
Skip_NotCounted(r, i) ==
    /\ runs[r].aborted
    /\ runs' = [runs EXCEPT ![r].todo = @ \ {i}]
    /\ UNCHANGED <<updates, cancelledCount, failed, active>>

\* The upload is cancelled: the item is counted and keeps its status.
Skip(r, i) ==
    /\ runs[r].aborted
    /\ cancelledCount' = cancelledCount + 1
    /\ runs' = [runs EXCEPT ![r].todo = @ \ {i}]
    /\ UNCHANGED <<updates, failed, active>>

\* The item's folder has no id.
NoParent(r, i) ==
    /\ ~runs[r].aborted /\ idOf[Parent[i]] = None
    /\ updates' = [updates EXCEPT ![i] = "failed"]
    /\ failed' = failed + 1
    /\ runs' = [runs EXCEPT ![r].todo = @ \ {i}]
    /\ UNCHANGED <<cancelledCount, active>>

Send(r, i) ==
    /\ ~runs[r].aborted /\ idOf[Parent[i]] # None
    /\ updates' = [updates EXCEPT ![i] = "uploading"]
    /\ active' = active + 1
    /\ runs' = [runs EXCEPT ![r].todo = @ \ {i},
                            ![r].waiting = @ \cup {<<i, idOf[Parent[i]]>>}]
    /\ UNCHANGED <<cancelledCount, failed>>

\* A worker takes the next item of its phase.
Take(r, i) ==
    /\ Live(r) /\ i \in runs[r].todo
    /\ Cardinality(runs[r].waiting) < runs[r].workers
    /\ Skip(r, i) \/ NoParent(r, i) \/ Send(r, i)
    /\ UNCHANGED <<plan, idOf, total, completed, uploading, cancelled, current, server>>

\* Names are unique in a folder of the server.
Taken(id, i) == IF i \in Folders THEN <<id[1], i>> \in made
                ELSE \E u \in stored : u.parent = id /\ u.file = i

\* The server makes item i of run r in folder id.
Make(r, i, id) ==
    /\ ~Taken(id, i)
    /\ made' = IF i \in Folders THEN made \cup {<<id[1], i>>} ELSE made
    /\ stored' = IF i \in Files THEN stored \cup {[parent |-> id, file |-> i, run |-> r]}
                 ELSE stored

\* Mutant: the item is marked as completed however its request ended.
Ended_Completed(i, status) ==
    /\ updates' = [updates EXCEPT ![i] = IF status = "failed" THEN "completed" ELSE status]
    /\ active' = active - 1

\* The request of item i has ended for the client with a status.
Ended(i, status) ==
    /\ updates' = [updates EXCEPT ![i] = status]
    /\ active' = active - 1

\* The request is answered: the folder's id is known, or the file is stored.
Acknowledged(r, i, id) ==
    /\ Live(r) /\ <<i, id>> \in runs[r].waiting /\ ~runs[r].aborted
    /\ Make(r, i, id)
    /\ runs' = [runs EXCEPT ![r].waiting = @ \ {<<i, id>>}]
    /\ idOf' = IF i \in Folders THEN [idOf EXCEPT ![i] = <<id[1], i>>] ELSE idOf
    /\ Ended(i, "completed")
    /\ completed' = completed + 1
    /\ UNCHANGED <<plan, total, failed, cancelledCount, uploading, cancelled, current, unsure>>

(***************************************************************************)
(* The request fails: it is refused (a taken name, a missing permission,   *)
(* an error) or its answer is lost after the server has acted.  A file is  *)
(* marked; a folder also makes its worker throw, which rejects execute:    *)
(* the run is over for the hook, and its other workers are left over.      *)
(***************************************************************************)
Failed(r, i, id) ==
    /\ Live(r) /\ <<i, id>> \in runs[r].waiting /\ ~runs[r].aborted
    /\ \/ /\ i \in Refusals \/ Taken(id, i)
          /\ UNCHANGED server
       \/ /\ i \in Losses
          /\ Make(r, i, id)
          /\ unsure' = unsure \cup {i}
    /\ Ended(i, "failed")
    /\ failed' = failed + 1
    /\ LET rest == [runs[r] EXCEPT !.waiting = @ \ {<<i, id>>}]
           ends == i \in Folders /\ runs[r].phase = "folders"
       IN  /\ runs' = [runs EXCEPT ![r] =
                          IF i \in Files THEN rest
                          ELSE [rest EXCEPT !.phase = "left", !.workers = @ - 1]]
           /\ uploading' = (uploading /\ ~ends)
           /\ current' = IF ends THEN 0 ELSE current
    /\ UNCHANGED <<plan, idOf, total, completed, cancelledCount, cancelled>>

\* Mutant: the signal is not given to fetch.
Cut_NoSignal(r, i, id) ==
    /\ runs[r].phase = "off" /\ <<i, id>> \in runs[r].waiting
    /\ UNCHANGED vars

\* The signal is aborted: fetch rejects with AbortError, whether or not the
\* server has acted on the request.
Cut(r, i, id) ==
    /\ Live(r) /\ <<i, id>> \in runs[r].waiting /\ runs[r].aborted
    /\ \/ UNCHANGED server
       \/ Make(r, i, id) /\ unsure' = unsure \cup {i}
    /\ runs' = [runs EXCEPT ![r].waiting = @ \ {<<i, id>>}]
    /\ Ended(i, "cancelled")
    /\ cancelledCount' = cancelledCount + 1
    /\ UNCHANGED <<plan, idOf, total, completed, failed, uploading, cancelled, current>>
-----------------------------------------------------------------------------
(***************************************************************************)
(* The phases of execute                                                   *)
(***************************************************************************)
Level(d) == {f \in Folders : Depth[f] = d}

\* The pool of run r is through: every worker has returned.
Through(r) == runs[r].todo = {} /\ runs[r].waiting = {}

\* Mutant: a level is not waited for.
NextLevel_NotAwaited(r) ==
    /\ runs[r].phase = "folders" /\ runs[r].todo = {}
    /\ runs[r].level + 1 \in Depths
    /\ runs' = [runs EXCEPT ![r].level = @ + 1, ![r].todo = Queued(Level(runs[r].level + 1))]
    /\ UNCHANGED <<hook, server>>

\* Depths are consecutive: the next one, or the files, when a level is through.
NextLevel(r) ==
    /\ runs[r].phase = "folders" /\ Through(r)
    /\ runs[r].level + 1 \in Depths
    /\ runs' = [runs EXCEPT ![r].level = @ + 1, ![r].todo = Queued(Level(runs[r].level + 1))]
    /\ UNCHANGED <<hook, server>>

LastLevel(r) == runs[r].phase = "folders" /\ Through(r) /\ runs[r].level + 1 \notin Depths

StartFiles(r) ==
    /\ LastLevel(r) /\ ~runs[r].aborted
    /\ runs' = [runs EXCEPT ![r].phase = "files", ![r].todo = Queued(Files)]
    /\ UNCHANGED <<hook, server>>

\* finally: the controls are free again.
Release == uploading' = FALSE /\ current' = 0

\* Cancelled among the folders: every file of the list counts as cancelled, and
\* the updates are not flushed.
EndEarly(r) ==
    /\ LastLevel(r) /\ runs[r].aborted
    /\ cancelledCount' = cancelledCount + Cardinality({f \in Files : plan[f] # "gone"})
    /\ runs' = [runs EXCEPT ![r].phase = "early"]
    /\ Release
    /\ UNCHANGED <<plan, updates, idOf, total, completed, failed, active, cancelled, server>>

\* Mutant: the updates are dropped.
flushUpdates_Dropped ==
    /\ plan' = [i \in Items |-> IF plan[i] = "completed" THEN "gone" ELSE plan[i]]
    /\ updates' = [i \in Items |-> None]

\* What was completed before leaves the list, and the updates are applied to the
\* rest; with no update at all nothing changes.
flushUpdates ==
    /\ plan' = IF \A i \in Items : updates[i] = None THEN plan
               ELSE [i \in Items |-> CASE plan[i] \in {"completed", "gone"} -> "gone"
                                       [] updates[i] # None -> updates[i]
                                       [] OTHER -> plan[i]]
    /\ updates' = [i \in Items |-> None]

EndFiles(r) ==
    /\ runs[r].phase = "files" /\ Through(r)
    /\ flushUpdates
    /\ runs' = [runs EXCEPT ![r].phase = "done"]
    /\ Release
    /\ UNCHANGED <<idOf, counters, cancelled, server>>
-----------------------------------------------------------------------------
(***************************************************************************)
(* The user                                                                *)
(***************************************************************************)

\* A new run of execute over the list, with a controller of its own.
execute(newPlan, dest, first) ==
    /\ LastRun < MaxRuns
    /\ runs' = [runs EXCEPT ![LastRun + 1] =
                  [NoRun EXCEPT !.phase = "folders", !.level = 1,
                                !.todo = {f \in Level(1) : newPlan[f] = "queued"},
                                !.workers = Limit, !.dest = dest, !.first = first]]
    /\ current' = LastRun + 1
    /\ uploading' = TRUE
    /\ cancelled' = FALSE

\* Mutant: folderIdByPath is not reset.
start_KeepsIds(d) ==
    /\ ~uploading /\ Quiet
    /\ plan' = [i \in Items |-> "queued"]
    /\ execute(plan', d, LastRun + 1)
    /\ idOf' = IF idOf[Top] = None THEN [idOf EXCEPT ![Top] = <<d, Top>>] ELSE idOf
    /\ total' = Cardinality(Items)
    /\ completed' = 0 /\ failed' = 0 /\ cancelledCount' = 0 /\ active' = 0
    /\ unsure' = {}
    /\ UNCHANGED <<updates, made, stored>>

\* The directory is uploaded to folder d.  updatesMap keeps what it had.
start(d) ==
    /\ ~uploading /\ Quiet
    /\ plan' = [i \in Items |-> "queued"]
    /\ execute(plan', d, LastRun + 1)
    /\ idOf' = [p \in Folders \cup {Top} |-> IF p = Top THEN <<d, Top>> ELSE None]
    /\ total' = Cardinality(Items)
    /\ completed' = 0 /\ failed' = 0 /\ cancelledCount' = 0 /\ active' = 0
    /\ unsure' = {}
    /\ UNCHANGED <<updates, made, stored>>

\* The failed and cancelled files are queued again; folders stay as they are.
retryFailed ==
    /\ ~uploading /\ Quiet
    /\ \E i \in Items : isRetryable(plan[i])
    /\ plan' = [i \in Items |-> IF i \in Files /\ isRetryable(plan[i]) THEN "queued"
                                ELSE plan[i]]
    /\ cancelledCount' = cancelledCount - Cardinality({f \in Files : isRetryable(plan[f])})
    /\ active' = 0
    /\ execute(plan', runs[LastRun].dest, runs[LastRun].first)
    /\ UNCHANGED <<updates, idOf, total, completed, failed, server>>

cancel ==
    /\ uploading /\ Quiet /\ ~runs[current].aborted
    /\ cancelled' = TRUE
    /\ runs' = [runs EXCEPT ![current].aborted = TRUE]
    /\ UNCHANGED <<plan, updates, idOf, counters, uploading, current, server>>

clear ==
    /\ ~uploading /\ Quiet /\ total > 0
    /\ plan' = [i \in Items |-> "gone"]
    /\ idOf' = [p \in Folders \cup {Top} |-> None]
    /\ total' = 0 /\ completed' = 0 /\ failed' = 0 /\ cancelledCount' = 0 /\ active' = 0
    /\ cancelled' = FALSE
    /\ UNCHANGED <<updates, uploading, current, runs, server>>
-----------------------------------------------------------------------------
Micro == \E r \in RunIds :
            \/ \E i \in Items : Take(r, i)
            \/ \E i \in Items, id \in Ids : Cut(r, i, id)
            \/ NextLevel(r) \/ StartFiles(r) \/ EndEarly(r) \/ EndFiles(r)

Answer == Quiet /\ \E r \in RunIds, i \in Items, id \in Ids :
                       Acknowledged(r, i, id) \/ Failed(r, i, id)

User == (\E d \in Dests : start(d)) \/ retryFailed \/ cancel \/ clear

Next == Micro \/ Answer \/ User

\* Only the event loop is fair: no answer has to come (fetch has no timeout).
Spec == Init /\ [][Next]_vars /\ WF_vars(Micro)
-----------------------------------------------------------------------------
(***************************************************************************)
(* Properties                                                              *)
(***************************************************************************)
Threw == \E r \in RunIds : runs[r].phase = "left"

\* Folders are created parents first: an item fails without a request of its own
\* (its parent has no id) only after some folder's request failed.
ParentsComeFirst ==
    [][failed' > failed /\ (\A r \in RunIds : runs'[r].waiting = runs[r].waiting)
           => Threw]_vars

\* Nothing that the client knows is stored is offered for retry.
RetryOnlyUndone ==
    ~uploading => \A f \in Files, u \in stored :
        isRetryable(plan[f]) /\ u.file = f /\ u.parent = idOf[Parent[f]] => f \in unsure

\* A file the list shows as completed was stored by a run of that list.
CompletedIsStored ==
    \A f \in Files : plan[f] = "completed" =>
        \E u \in stored : u.file = f /\ runs[u.run].first = runs[LastRun].first

\* What the list says of a file is so, through failures, cancels and retries.
ListIsTrue == RetryOnlyUndone /\ CompletedIsStored

\* A file lands in the destination its upload was started for, unless an earlier
\* upload, to another one, has left workers over.
LandsWhereAsked ==
    \A u \in stored :
        \/ u.parent[1] = runs[u.run].dest
        \/ \E r \in 1 .. u.run - 1 :
              runs[r].phase = "left" /\ runs[r].dest # runs[u.run].dest

\* When an upload stops, each of its items has been counted once, and no request is
\* counted as active; a folder that failed, and a retry of an upload cancelled
\* among its folders, spoil the counters.
FullyCounted ==
    ~uploading /\ total > 0 /\ ~Threw
        /\ (\A r \in 1 .. LastRun - 1 : runs[r].first = runs[LastRun].first => runs[r].phase = "done")
        => completed + failed + cancelledCount = total /\ active = 0

\* Cancelling always ends the upload, whatever the server does.
CancelEnds == uploading /\ cancelled ~> ~uploading
=============================================================================
