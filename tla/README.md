# ownned in TLA+

Specifications of the document store *ownned* (`src/`): a Go server that keeps a
tree of folders and files in PostgreSQL and the contents in a directory, shares
subtrees through groups, and a SolidJS client with its pages, its session and the
upload of whole folders. The
modules are translated from the code; the configurations check them with TLC on
small instances, and the proof modules carry theorems, checked by TLAPS, for
every value of the constants.

Contents: 1 the system, 2 the modules, 3 what is checked, 4 bounds and fairness,
5 what is proved, 6 where code and documents disagree, 7 what is not modelled,
8 the plan, 9 how to run it.

## 1. The system

| Component | State it keeps | Operations | What makes it hard | What makes it correct |
|---|---|---|---|---|
| Node tree (`app/node`, `postgres/node_repository.go`, `doc_repository.go`) | rows of `nodes` (an ltree path each) and `docs` | create folder, create file, delete folder, delete file, download, list | a use case reads and checks in one query and acts in another, with no lock between; deletions cascade; content is outside the transaction | well-formed paths, unique names and ids, file nodes = nodes with a doc, exact deletions |
| Storage (`outbound/storage`) | one file per key (the node id) | put, delete, download | writes are not atomic, undo may fail, `Close` errors are lost, a restart cuts an upload | a document on record has its whole content; content off record is being removed by somebody |
| Unit of work (`tx_factory.go`) | a database transaction | `Do` | commit done but reported failed; timeouts | all or nothing; the caller's undo |
| Background cleanup (`delete_node_usecase.go`) | the docs listed before a deletion | a feeder and workers over an unbuffered channel | runs after the answer, dies with the process, no retry | what is listed goes; nothing else does |
| Batch upload (`batch_node_tree_usecase.go`, `parsing.go`) | per request: the docs of a manifest, the paths resolved, a pool of cleanup workers | one request with a manifest and a stream of files | every file is stored before any row exists; each error path has to hand on what is stored; parts may repeat, be cut, or lie about their size | no content is forgotten; what is recorded is complete; the rows spell the manifest |
| Authorization (`domain/usr.go`, `domain/group.go`, `app/group/access_checker.go`, `group_usr_repository.go`) | none (reads `group_usrs`, `group_nodes`, `nodes`) | role predicates, access by node, by path and by group | the answer is stale as soon as it is given | levels are ordered; limited users only read; super users are not assigned |
| Accounts (`app/usr`, `cmd/cli`) | `usrs`, plus a home folder, a home group and memberships per account | create, list, `approot`, `superusr` | seven rows of five tables; name looked up before a slow hash | an account is whole or absent |
| Groups (`app/group`) | `groups`, `group_usrs`, `group_nodes` | create, update, delete, grant and revoke a node, assign and remove a member | two checks before each write; groups vanish meanwhile; no last owner is kept | rows refer to rows; access is given only by those who have it |
| Comments (`app/node`) | `node_comments` | create, edit, delete, list | author or owner checks by separate queries | only the author edits |
| HTTP API (`inbound/httpapi`) | none | routing, parsing, views | - | a request is decoded as it was meant |
| Session (`app/auth`, `AuthProvider.jsx`, `ProtectedRoute.jsx`, `usePwdLogin.js`, `LoginView`) | the JWT in a cookie; in the client the user, whether it has been checked, an error; the login form | session check, log in, log out, retry, navigation | three calls each replace the whole state when their code runs, the cookie changes when their answer arrives; the form may be gone by then | the user shown is the one the browser acts as; a logout that was carried out is final |
| Folder upload (`useUploadFolder.js`, `runWithConcurrency.js`) | the plan's statuses, a map of pending updates, the ids of created folders, counters, the abort controller | start, cancel, retry, clear; a pool of workers per level of folders, then for files | workers survive the run that failed; answers lost after the server acted; state shared by consecutive runs | nothing stored is sent again; what is shown as completed is stored; counters add up; cancelling ends |
| Page of a node (`NodeView`, `useGetNode`, `useCreate*`, `useDelete*`) | the node on display, its flags, a request number; two dialogs, a form, the way back | load, open, go back, create, upload, delete | calls outlive the page they were made from; after an await the code reads what is on display by then | what is deleted is not seen again; a page at rest is the server's |
| Comments of a node (`features/comments`) | the list, an editor, flags | load, post, edit, remove | the list is read again after each change, of the node the route is at by then | the comments shown are those of the node shown |
| Search dialog (`NodeSearch`, `usePaginateNode`, `usePaginateDocs`) | inputs, a timer, two pagers with a request number each | type, change scope, kind or filter, turn the page, close | a timer and two kinds of calls, overtaken by changes | results are those of the inputs |
| Lists of groups and users (`GroupsView`, `UsrsView`, `usePaginate*`) | rows, page, term, flags; a form, a dialog | search, turn, create, edit, delete | a refresh after a change races the user's own requests; an edit decides which searches a row is in | rows, total and page belong together, to what was asked last and to what the rows say by then |
| Page of a group (`GroupView`, `useGetGroup`, `GroupNodePicker`) | the group, accounts to assign, flags of four hooks; in the dialog the path, its children, a search | add and remove users and nodes, delete, walk folders, search | folders open with no request number; the dialog closes when a read it did not make ends | the group at rest is the server's; a search is of the folder it is in |
| Client rules (`shared/authz`, `naming.js`, `paginateChildren.js`, `shared/api`) | none | what is offered, names, pages, classes of errors | two tables of access rules, in two languages | what is offered is granted |
| Configuration, hashing, errors, styles, seed, S3 (an empty file) | none | - | - | - |

How they interact. A page calls a hook, a hook calls `fetch` once per request;
the handler of the route decodes it and calls `Execute` of one use case with the
user and role found in the token. `Execute` makes its queries one after the
other, each on its own connection or inside one `UnitOfWork.Do`; it calls the
storage before (creation) or after (deletion) its transaction. A folder's
deletion hands a list of docs to a goroutine and answers. Groups and memberships
decide, through one SQL query over `group_usrs`, `group_nodes` and the paths of
`nodes`, what later requests may do. Nothing else is shared, there are no locks,
and only the database's indexes, foreign keys and cascades are atomic: that is
where the server's hazards in `PROJECT.json` come from. In the browser one thread
runs event handlers and the code behind each `await` to its end; between them
anything may have happened to the page, and answers come in any order. Most hooks
count their requests and drop an answer that is not the last's: those that do not,
and what is read after an `await`, are the client's hazards. The use cases are taken as the
entry points of the server.

## 2. The modules

| Module | What it is |
|---|---|
| `Access` | Constant operators: roles, the four levels and their rank, the assignment rule, ltree's `<@` (`Under`), the access queries over `group_usrs` x `group_nodes` x `nodes`. Used by all server modules. |
| `Catalog` | The abstract tree a client is promised: `Publish` an entry, `Withdraw` a subtree, each in one step. |
| `NodeStore` | The node tree, storage, unit of work and cleanup: five use cases, one action per query or storage call. Refines `Catalog`. |
| `Sharing` | Accounts, groups, memberships and grants over the top of the tree: `approot`, the creation of accounts, the seven use cases of groups, and the deletion of folders. |
| `FolderUpload` | The client's `useUploadFolder` and its pool of workers, against the server it sees. |
| `BatchTree` | The batch upload: the manifest's tree, the loop over the parts, the transaction, the cleanup pool. |
| `ClientRules` | Constant operators of the client: ranks and predicates of `authz`, pages of children, free names, classes of errors. Extends `Access`. |
| `Lookup` | The abstract panel: asked for one thing after another, it shows the last or nothing, and every wait ends. |
| `Session` | One tab: session check, login form, logout, the gate in front of the pages, history and reloads. |
| `NodePage` | The page of a node. Refines `Lookup` of the route. |
| `Comments` | The comments of the node on display, and the server's. Refines `Lookup` of the route. |
| `NodeFinder` | The search dialog: inputs, timer, two pagers. |
| `Directory` | The lists of groups and of users. Refines `Lookup` of requests. |
| `NodePicker`, `GroupPage` | The dialog that picks a node to share, and the page of a group, which extends it. Refines `Lookup` of the route. |
| `NodeStoreProofs`, `SharingProofs`, `UploadProofs`, `NodePageProofs`, `SessionProofs`, `DirectoryProofs`, `PanelProofs` (of `Comments` and `NodeFinder`), `GroupPageProofs` (of `NodePicker` too) | The theorems and their proofs. |
| `MC...` | Instances for TLC. |

`NodeStore` and `Sharing` describe the same tables from two sides. `NodeStore`
has the whole tree and its contents under constant memberships (`Members`);
`Sharing` changes the memberships and keeps only the top of the tree. Both use
the definitions of `Access`.

### NodeStore and the code

`nodes`, `docs`, `groupNodes`, `groupUsrs` are the rows of the tables (columns
that no check reads are left out); a doc is named by its `node_id`, which is
unique. `blobs[k]` is what the storage directory holds under key `k`: nothing,
part of a content, or all of it. `req[r]` is one `Execute` call: the step it is
at and what it has read so far. `sweeps[s]` is what one cleanup goroutine has
still to remove. `used` are the UUIDs drawn.

| Code | Actions |
|---|---|
| `CreateNodeFolderUseCase.Execute` | `FolderBegin` (parent read), `FolderAccess`, `FolderInsert` |
| `CreateNodeFileUseCase.Execute`, `storageManagerFS.Put`, `persist` | `FileBegin`, `FileAccess`, `FileOpen`, `FileCopy` (with the deferred clean-up of `Put`), `FileTx`, `FileUndo` |
| `DeleteNodeUseCase.Execute`, `cleanStorage` | `NodeBegin`, `NodeAccessCheck`, `NodeList`, `NodeDelete`, `Sweep` |
| `DeleteNodeFileUseCase.Execute` | `DocBegin`, `DocAccess`, `DocLookup`, `DocDelete`, `DocClean`, and `Recover` for the panic `net/http` recovers |
| `DownloadNodeFileUseCase.Execute` | `ReadBegin`, `ReadAccess`, `ReadOpen` |
| any query that returns an error | `QueryFails`; a commit done but reported failed is a branch of `FileTx`, `NodeDelete` and `DocDelete` |
| the process dies and is started again | `Crash` |

Two things come straight from the SQL. `Subtree` is computed inside the DELETE,
from the path the row has then, and is empty without an error when the row is
gone. `GetAllFromPath` is the query as PostgreSQL resolves it, with `node_id`
bound to the outer row (see section 6).

### Sharing and the code

The three ids drawn for an account (user, home folder, home group) are written as
one. `req[r]` is a request that has passed its first check; a first check that
fails changes nothing, so it has no step. The check of a role reads the token and
the role of a user never changes, so `RoleOf` is a constant.

| Code | Actions |
|---|---|
| `cmd/cli/approot.go` | `approot` |
| `CreateUsrUseCase.Execute` (and `superusr`, user `None`) | `UsrBegin` (role, name lookup, ids), `UsrTx` (the transaction; `Creatable` is what the indexes and the root group lookup ask) |
| `CreateGroupUseCase` | `CreateGroup` |
| `UpdateGroupUseCase` | `GroupUpdateBegin` (the row read, the name that will be written back), `GroupUpdate` |
| `DeleteGroupUseCase` | `GroupDeleteBegin`, `GroupDelete` (with the cascades) |
| `CreateGroupNodeUseCase` | `GrantBegin`, `GrantNode` (second check), `Grant` (with the foreign keys) |
| `DeleteGroupNodeUseCase` | `RevokeBegin`, `Revoke` |
| `UpsertGroupUsrUseCase` | `AssignBegin`, `Assign` (the target's role, the upsert, the foreign key) |
| `DeleteGroupUsrUseCase` | `RemoveBegin`, `Remove` |
| `DeleteNodeUseCase`, on the folders kept here | `NodeBegin`, `NodeDelete` |
| an error of a query, or a restart | `QueryFails` |

### FolderUpload and the code

Each variable is a piece of state or a ref of the hook (`plan`, `updates` =
`updatesMap`, `idOf` = `folderIdByPath`, the counters, `uploading`, `cancelled`,
`current` = the controller in `activeController`). `runs[n]` is the n-th call of
`execute`: its phase, the items its pool has still to take, the requests it waits
for and its signal. A run whose folder failed is `"left"`: `execute` has rejected
but its other workers go on, on the same variables as later runs. JavaScript runs
to completion, so the steps of `Micro` (workers taking items, aborted requests,
phases ending) are done before an `Answer` or a `User` step. `made`, `stored` and
`unsure` are the server, from outside: an answer may be a refusal, or be lost
after the server has acted. `PlanAssumption` is what `buildUploadPlan` makes of a
chosen directory: a finite tree in which every file has a folder (each
`webkitRelativePath` begins with the directory's name) and depths count the names.

### BatchTree and the code

`batch[b]` is one `Execute` past its access check and its look at the parent (both
change nothing). `docs` and `nodes` are `docMap` and the rows to insert, `resolved`
the map of stored paths, `file` the doc whose content is arriving; `cleanup[b]` is
the pool of `processCleanStorage`: keys to hand out, keys held, workers running.

| Code | Actions and operators |
|---|---|
| `processManifest` | `processManifest`: `Trees` adds the entries one by one (`AddEntry`), `Walk` the names of a path (`Segment`) |
| `processUploads`, `processUpload`, `Put` | `Open`, `Copy` (too long, cut, closed with an error, then `Stored`: the mark before the size check), `Refuse`, `NoMoreFiles` |
| the transaction | `RecordAll`: `CreateAll`'s statement is never accepted (section 6) |
| the error paths, `processCleanStorage` | `Fail`, `Feed`, `Delete`, `CleanupEnd` |

A batch shares nothing with other requests before its transaction (its ids are
new), and its transaction writes nothing, so it is a module of its own and not a
use case of `NodeStore`.

### The client's pages and the code

The five modules of pages have one shape. `calls` are the requests under way, each
with what was asked, its answer once it has one, and `live`: whether the request
number it was made with is still the hook's (`requestId`, `latestRequest`), or, of
a change, whether the component that waits is still mounted. `Serve`, `Fail` and
`Lose` are the server and the network (done; refused or unreachable; done and the
answer lost), one action per `await` takes an answer, and the actions of the user
are the handlers, with the conditions under which the page renders them as guards:
what is hidden or disabled while something loads cannot be clicked. An overlay
hides what is under it from clicks, but not from the browser's history, and Escape
closes a dialog that waits (`Modal.jsx`).

| Code | Module and actions |
|---|---|
| `AuthProvider`: `checkSession`, `loginPwd`, `logout`, `retrySessionCheck` | `Session`: `Open`, `Arrive`, `Fail`, `CheckDone`, `Submit`, `LoginDone`, `LoginRefused`, `Logout`, `LogoutDone`, `Retry`. An answer changes `cookie` in `Arrive`, and the state later |
| `ProtectedRoute`, `Navbar`, the routes, `LoginView` | `Screen`, `Display` (the redirect of a page nobody is signed in for is part of the step), `Link`, `History`, `Type`, `SubmitInvalid`; `Expire` is the cookie's `maxAge` |
| `NodeView`, `useGetNode`, `ConfirmDialog`, `NodeForm`, `useCreateFolder`, `useCreateDoc`, `useDeleteNode`, `useDeleteDoc` | `NodePage`: `OpenNode`, `BackButton`, `History`, `Retry`, `AskDelete`, `Confirm`, `Dismiss`, `OpenForm`, `SubmitForm`, `Upload`; `Loaded`, `Made`, `Uploaded`, `NodeDeleted`, `DocDeleted`, `NotDeleted` |
| `CommentsDrawer`, `CommentsList`, `useGetComments` and the hooks of changes | `Comments`: `Post`, `StartEdit`, `CancelEdit`, `SaveEdit`, `Remove`, `RetryTalk`; `TalkLoaded`, `TalkDropped`, `PostDone`, `EditDone`, `RemoveDone`; the page around them is `Move`, `Hide`, `Show` |
| `NodeSearch`, `usePaginateNode`, `usePaginateDocs` | `NodeFinder`: `Open`, `Change`, `Turn`, `Close`, `Elapse` (the 300 ms), `Take` |
| `GroupsView`, `UsrsView`, `usePaginateGroups`, `usePaginateUsrs` and the hooks of changes | `Directory`, with `kind` for the two pages: `Search`, `Turn`, `Retry`, `New`, `Edit`, `Submit`, `AskDelete`, `Confirm`, `Dismiss`; `Listed`, `Created`, `Edited`, `Deleted` |
| `GroupView`, `useGetGroup`, the four hooks of members and nodes | `GroupPage`: `AddUsr`, `RemoveUsr`, `AddNode`, `RemoveNode`, `AskDelete`, `Confirm`, `Retry`, `RetryUsrs`, `History`; `Loaded`, `Done`, `Deleted`, `NotDeleted`, `UsrsLoaded` |
| `GroupNodePicker` | `NodePicker`: `OpenPicker`, `ClosePicker`, `openFolder`, `navigateTo`, `Type`, `TurnPage`; `DelayEnds`, `RootsTaken`, `FolderTaken`, `SearchTaken` |

Of the server these modules keep what the page shows (the folders above each node;
the comments; the rows and what they say; a group's members and nodes) and change it in
one step per call: the steps inside a call are those of `NodeStore` and `Sharing`. A
read is one answer. In `Directory` a row says one of a few `Texts` and a term matches
some of them (`ILIKE` on names and descriptions), so an edit moves a row into a search or
out of it. `NodePage`
takes the server's checks from `Access`, and its offers from `ClientRules`: its
property `OfferedIsTaken` compares the two. `lost` and its like are history: an
answer was lost since the panel was last read, and then nobody tells the page that
its content is old.

## 3. What is checked

| Run | Distinct states | Question |
|---|---|---|
| `NodeStore_faults` | 117 828 | Do tables, files and tree stay consistent with two concurrent requests of every kind, all faults but `close`, and one restart? Does every step refine `Catalog`? |
| `NodeStore_live` | 74 279 | Does all that a cleanup lists leave the disk, whatever requests do meanwhile, when no removal fails? |
| `FolderUpload_runs` | 138 717 | Does what the hook shows and sends stay true over three runs with refusals, lost answers, cancels and leftover workers? |
| `Sharing_all` | 365 044 | Do rows, role rules, accounts and closed groups survive every interleaving of three requests? |
| `BatchTree_all` | 177 955 | Whatever is announced and sent, is every stored content somebody's to remove, is what reaches the transaction complete, and does the cleanup end? |
| `Session_all` | 156 668 | Is the user on display the one whose session the browser holds, is a logout that was carried out final, what does a failed one promise, does the check end? |
| `NodePage_all` | 390 483 | Is nothing that is deleted seen again, is a page at rest the server's, is what is offered taken? Is the page a `Lookup`? |
| `Comments_all` | 458 901 | Are the comments shown those of the node of the route, and at rest the server's? |
| `NodeFinder_all` | 343 849 | Are the results those of the inputs, and does an open search end in some? |
| `Directory_all` | 911 114 | Are the rows at rest the server's page as created, deleted and edited since, and never those of a request left behind? |
| `GroupPage_all` | 870 632 | Is a group at rest the server's, is a search of the picker one of its folder? Is the page a `Lookup`? |
| `NodeStore_sweep` | - | A counterexample, see section 6. |

Properties of `NodeStore`: `TreeWellFormed` (paths, ids, names, folders only
above entries), `RowsAgree` (file nodes = docs; grants have nodes),
`NoTornContent` (content is whole when it is recorded),
`ContentLossHasCause` (only a cleanup that lists it or its own error path takes a
recorded content), `LeakHasCause` (content nobody answers for has one of four
named causes), `DeleteIsExact` (whole subtrees, and only under a target),
`SweptContentGoes`, and `CatalogSpec`. `ContentLossHasCause` and
`LeakHasCause` say what the code does guarantee where the stronger property
(`DocsHaveContent`; no leak) is false: they name every way it can fail, so that a
new way would be noticed. `NoTornContent` excludes one known hole by name
(`SilentTear`: both closing and removing an upload fail).

Properties of `Sharing`: `RowsRefer`, `LimitedOnlyReads`, `SupersAreNotAssigned`
(an existing super user never gains a membership except in a group it creates),
`NewAccountsWhole`, and `ClosedForGood`: a group in which no member may assign,
and with no request already past its check, never again gains a member, a level
or a node. The last one is the system's version of "access comes only from those
who have it"; it also says that such a group is lost, since nothing keeps a last
owner.

Properties of `FolderUpload`: `ListIsTrue` (what a retry will send again is not
stored, what is shown as completed is), `LandsWhereAsked`, `FullyCounted`, `ParentsComeFirst`, `CancelEnds`. Three of
them name the situations in which the code does less: an item whose answer was
lost (`unsure`) is offered again; after a run has thrown, leftover workers send
to the folders of a later start and spoil the counters.

Properties of `BatchTree`: `LeftoverHasCause` (no error path forgets a stored
content), `CompleteAtTx` (every doc resolved and what is stored of it of the announced
size, also when a path was sent twice), `TreeFollowsManifest` (a node is reached by
the names of its path, one folder per path, a doc for every entry) and
`CleanupEnds`. `TreeFollowsManifest` excludes by name an entry whose path an
earlier entry uses as a folder: `processManifest` drops it without an error.
`CompleteAtTx` names what `Put` hides from its caller: after a failed close it removes
the file and answers a success (`storage_manager_fs.go:24-30`, the deferred function
assigns to a variable that is no result), so that a content may be gone, or, since the
error of that removal is dropped, be torn if both fail. In no other way is it
incomplete. The run has both faults.

Properties of `Session`: `ShownUserHoldsSession`, `LogoutIsFinal`, `HiddenUntilAsked`,
`SpinnerEnds`. The first three are about stretches in which no login is under way
together with another call of the session (`crossed`): what goes wrong then is in
section 6. `LogoutIsFinal` is about a logout the server has carried out: once the
client has taken its answer nobody is signed in, in the tab, in the cookie or in a call
under way, and nobody is until credentials are submitted, over reloads and retries too.
A logout that failed promises less: `AuthProvider` clears its state in a `finally` and
the cookie stays, so that the pages are hidden until the session is checked again
(`HiddenUntilAsked`), and a reload shows the user as before, with no login.

Properties of the pages. That a panel never shows what it has left is not a list of
cases but a refinement: `PageSpec`, `TalkSpec`, `RowsSpec` and `GroupSpec` say that
each step of the page is a step of `Lookup` or none, and, since `Lookup` has
`waiting ~> ~waiting`, that a page does not load for ever. `SettledIsCurrent` and
`TalkIsCurrent` say what it shows at rest: what the server has, after any changes
made from here in any order of answers, unless an answer was lost. `GoneStaysGone`
is the same of a page that is not at rest. `ShownMatchesInputs` and `FoundHere` say
of the two searches that what is on display was asked for with the inputs as they
stand; `SearchSettles` that a search is not lost between its timer and the calls.
`OfferedIsTaken`: nothing the page offers is refused for want of a role or level.

Every property has a mutant: a plausible bug, written next to the definition it
alters, under which TLC finds the property violated.

## 4. Bounds and fairness

*NodeStore.* Two requests (every race here is between a check and one other
actor), one cleanup, a root and two or three new ids (a parent, a child and a
sibling), one or two names (a clash), one writer and one limited reader, one
crash. `NodeIds` bounds the creations, since an id is used once; a deletion waits
while every cleanup slot is busy. Ids and request slots are symmetric in the
safety run; the liveness run uses no symmetry. `CHECK_DEADLOCK FALSE`: with all
ids drawn and all rows deleted nothing is left to do.

*Sharing.* Four accounts, one for every role and a second super user; two there
from the start or none (the second initial state is an empty database, so
`superusr` may run before `approot`); one group made by hand; the levels
`read_only` and `write`; two slots and `MaxRequests = 3`: one request prepares a
situation, two race in it. `CreateGroup` and `approot` are not counted. Deadlock
is not checked because the budget of requests ends.

*FolderUpload.* A folder with two subfolders, a file in each: two levels, two
workers (`Limit = 2`) and so every order of answers in a level; two destinations;
one folder and one file that may be refused, one of each whose answer may be
lost; three runs. Deadlock is not checked: after `MaxRuns` runs and `clear`
nothing is left.

*Session.* A super user and a limited one (the link to the users is offered to one
of them), one page for all and one for super users, three calls of the API: a login
and two others, or a check that fails, a retry and one more. Failures are "no
answer" and 500: a rejected `fetch` and an error of the API, which the form treats
differently. Reloads count as a call.

*NodePage.* A root, a folder in it with a file, and a folder and a file that may be
made: a page above, beside and below what is deleted. Three user calls: enough to
confirm a deletion, leave and come back while it is under way. Two accounts: one
that may change nodes and one whose role takes that away from its level.

*Comments.* Two nodes, two comments, of oneself and of another; a super, a normal and
a limited account; three changes, moves or deletions of nodes. *Directory.* Two rows
on pages of one, so that a second page comes and goes; two texts, of which a term
matches one, and a search that matches both; at first both rows, one of them matched, or
only that one; three steps: a change, a search and another change. *GroupPage.* Two groups, one account to assign, a root folder with a file, and a user
who may manage groups (another has some of its steps);
four steps: opening the dialog, a folder, a query, and one more. *NodeFinder.* Two
terms and two filters, pages up to two, five steps, since it takes two to have a
page to turn. In all of these the budget of the user ends, so deadlock is not
checked; opening and closing a form is free where it makes no call.

*BatchTree.* One batch, since batches share nothing; all manifests of up to three
entries over a file in a folder, a file in a folder of that folder, and the outer
folder's path announced as a file; sizes 0 and 1 announced and bodies of 0 to 2, so
that a body may be short, equal or too long by one; two workers for up to three
keys. Deadlock is not checked: a batch that has ended does nothing more.

Fairness. `BatchTree`: weak fairness of the cleanup's steps (the Go scheduler);
none for the parts, which a client may never send. `NodeStore`: weak fairness of `Sweep(s)`, for the same
reason; none of the requests, which are straight-line code and end when their queries
do, so that no property is about that. `FolderUpload`: weak fairness of `Micro` only, the event loop; no
answer has to come, since `fetch` is called without a timeout, and that is why
only cancelling is claimed to end. `Sharing` has no liveness property and no
fairness. The pages: weak fairness of `Server` (each call is answered or fails in
the end: the browser and the server close a connection nobody uses) and of `Script`,
the event loop, which runs what awaits an answer and timers that have elapsed. The
user is never fair. A property that something ends could only fail by the client's
own doing, which is the question asked. In `FolderUpload`, where the question is
what a cancel does to calls that hang, that assumption is not made.

## 5. What is proved

For all sets of requests, users, groups, ids and names, any faults and any number
of crashes, from the named assumptions of the modules (roots are node ids, roles
are roles, grants are over roots, `None` and `NoNode` are none of the values...):

| Module | Theorem | Statement |
|---|---|---|
| `NodeStoreProofs` | `TypeCorrect`, `Invariance` | `Spec => []TypeOK`, `Spec => []IInv` |
| | `TablesAgree`, `NeverTorn` | `Spec => []RowsAgree`, `Spec => []NoTornContent` |
| | `LossOnlyWithCause` | `Spec => ContentLossHasCause` |
| | `ImplementsCatalog` | `Spec => CatalogSpec`: every step of the store is a `Publish`, a `Withdraw` or a stutter |
| | `TreeKeepsItsShape` | `Spec => []TreeWellFormed` |
| | `DeletionsAreExact`, `LeaksHaveACause` | `Spec => DeleteIsExact`, `Spec => LeakHasCause` |
| `SharingProofs` | `IInvHolds`, `TypeOKHolds`, `RowsReferHolds`, `LimitedOnlyReadsHolds` | the inductive invariant and its parts |
| | `SupersAreNotAssignedHolds`, `NewAccountsWholeHolds`, `ClosedForGoodHolds` | the action properties of `Sharing` |
| `UploadProofs` | `TypeCorrect`, `ListStaysTrue` | `Spec => []TypeOK`, `Spec => []ListIsTrue` of `FolderUpload` |
| | `ParentsAlwaysFirst`, `FilesLandWhereAsked`, `EveryItemCounted` | its `ParentsComeFirst`, `LandsWhereAsked` and `FullyCounted` |
| | `BatchTypeCorrect`, `LeftoverHasCauseHolds` | `BatchSpec => []BatchTypeOK` and `BatchSpec => []LeftoverHasCause` of `BatchTree` |
| | `RowsFollowManifest`, `TransactionsAreComplete` | `BatchSpec => []TreeFollowsManifest`, `BatchSpec => []CompleteAtTx` |
| `NodePageProofs` | `OffersAreGranted`, `AssignableLevels` | what the client offers for any role and level, the server's rules grant; the levels it lets one assign are those the server takes |
| | `PageInRange`, `NewNameIsFree` | `PageFor` is a page there is; `uniqueFileName` is free, for any finite set of taken names |
| | `TypeCorrect`, `OfferedIsTakenHolds`, `SettledIsCurrentHolds` | the types and the two safety properties of `NodePage` |
| | `GoneStaysGoneHolds`, `ImplementsLookup` | `Spec => GoneStaysGone`; every step of the page is a step of `Lookup` or none |
| `SessionProofs` | `IInvHolds`, `ShownUserHoldsSessionHolds`, `LogoutIsFinalHolds`, `HiddenUntilAskedHolds` | the inductive invariant (with `TypeOK`) and the three safety properties |
| `DirectoryProofs` | `TypeCorrect`, `SettledIsCurrentHolds` | the types of `Directory`; `Spec => []SettledIsCurrent` |
| | `ImplementsLookup` | every step of a list is a step of `Lookup` or none |
| `PanelProofs` | `FinderInvHolds`, `ShownMatchesInputsHolds` | the inductive invariant of `NodeFinder` (with `FinderTypeOK`) and its safety property |
| | `TypeCorrect`, `TalkIsCurrentHolds` | the types of `Comments`; `Spec => []TalkIsCurrent` |
| | `ImplementsLookup` | every step of the comments is a step of `Lookup` or none |
| `GroupPageProofs` | `TypeCorrect`, `SettledIsCurrentHolds`, `FoundHereHolds` | the types and the two safety properties of `GroupPage` and its picker |
| | `ImplementsLookup` | every step of the page of a group is a step of `Lookup` or none |

The argument in `BatchTree`. `LeftoverHasCause` needs that a batch which has not
failed has an empty pool (`PoolAfterFailure`: no failure overwrites a pool) and
that contents belong to batches. What `processManifest` returns is left opaque there.
The other two are about what it returns, a recursive function of the entries over a
recursive function of the names. `WalkDef` and `TreesDef` show that the functions
exist and satisfy their equations, and `ManifestTree` that every tree on the way
satisfies `TreeInv`: ids are of the entry and name at hand or of earlier ones, so no
row's id is taken twice (`RowsOnce`, `RowsBefore`); a folder's row spells its path
(`FoldersHaveRows`), each row that is a folder is in the map (`RowsHaveFolders`), and
each path is there once (`FoldersOnce`); an entry's parents are in the map when its doc is made
(`FoldersLead`), a doc has its row and its path is no other doc's (`DocsHaveRows`,
`DocsOnce`). A batch keeps the tree it was given (`FromManifest`). `CompleteAtTx`
needs `Filed`: a path is resolved only once the content of its doc is stored at the
announced size (`StoredWhole`, with the two exceptions of a failed close), and nothing overwrites it without leaving the loop or resolving it anew. The types
(`BatchTypeOK`) rest on the tree as well: a pool has a number of workers only because
the docs it is sized by are finitely many, which the induction over the manifest shows.

The argument in `FolderUpload`, in five steps, each an invariant on top of the last.
(1) `RunsInv`: runs are numbered as they were called, one at most is on and it is the
last and has the controller (`Numbered`, `Single`); what its workers have is of its
phase, nothing is both queued and sent or sent twice, and only an error leaves a run
over (`Work`). (2) `Sent`: requests, ids and stored files are each of the right
folder. `ListInv`: a file's update, its request and its place in the pool belong to
the one run that is among the files (`UpdatesOfRun`, `FilesOfRun`); a file that the
server has is `completed` on the list or about to be (`StoredIsKnown`), and
conversely. (3) `Progress`: the folders of a list are all queued or none is, and what a run among the
folders has taken has an update; with `Named` (without an error a folder has an id once
its request is over) a level is begun only when its parents are there. (4)
`LandInv`: a leftover run of the same destination either has free workers that have
all thrown (`LeftIdle`), or what it creates is a top folder the new list needs, which
then fails on the name (`Doomed`): in both cases the ids known are of the destination
asked for (`Aimed`). (5) `CountInv`: as long as no folder has failed, each item is
counted, or in a worker's hands, or ahead (`Counted`), and a run that has nothing to
do among the folders passes them before a cancel can be heard (`PassesFolders`).

The argument in `NodeStore`. `RowsAgree` is not inductive alone: inserting a file
keeps "file nodes = docs" only if no row has its id, and a commit is only
harmless to another row if ids are not shared. `OwnIds` says so (the id of a
creation in progress is on no row and in no other request's hands; the id of a
file being cleaned up does not come back), `UniqueIds` that rows differ in id.
`NoTornContent` needs `StoredFirst`: a creation about to record its document has
no half-written content. `IInv` is the conjunction with `TypeOK`, whose part
`Equipped` says what a request holds at the step that uses it. The proof has one
step per action. `ImplementsCatalog` and `LossOnlyWithCause` are action
properties from `IInv`.

`TreeWellFormed` speaks of paths, of which `IInv` says nothing. A creation inserts
below a folder it has read three steps before, and that folder, or one above it, may
be gone by then. What keeps files without entries below them is `Ancestry`: every
label of a path is a drawn id, the id of a creation in progress is a label of no path
(of a row or of a row somebody has read), and what is still above the row a creation
has read are folders. A new id is fresh, so nothing is below it; no row comes back,
so nothing above it turns into a file. `DeletionsAreExact` uses that `Under` is
transitive and that a row's id is the last label of its path. `LeaksHaveACause` needs
the tree for one step: the DELETE of a file deletion takes no other document because
nothing is below a file.

The argument in `Sharing`. `RowsRefer` and "one access per member" survive
`UsrTx` only if nothing refers to the new ids yet: `OwnIds` (ids of rows are
drawn; those of a pending account are on no row and in no other request; group
ids are unique). Assignments keep `LimitedOnlyReads` because the role is checked
in the step that writes and roles do not change. `ClosedForGood` rests on three
lemmas: which steps add a membership (`NewMemberships`), which add a grant
(`NewGrants`) and which bring a request to the point of giving (`NewGivers`).

The argument in `Directory` and `Comments`. That nothing left behind is shown needs
`WaitedFor`: the answer that would be taken is the only one of its kind, and it is of
what the panel waits for. That a panel at rest is the server's is not inductive: a
change on the server makes it false at once. What is kept (`Current` of the list,
`UpToDate` of the comments) is that a
change made from here is either still to be taken (`Untold`), or the panel waits for
a list that was, or will be, read after it, or an answer was lost.

The argument in `NodePage` is the same with more to keep: what the page was told is
deleted stays so (`Buried`), so that nothing it shows afterwards has it (`Clean`);
and what it offers of the node on display was granted by the answer it shows
(`Granted`). `GoneStaysGone` needs that a deleted node is no other place in the tree:
the assumption `TreeAssumption` of `NodePage` says that the marks it uses are no nodes.

The argument in `GroupPage` is that of the lists (`WaitedFor`, `UpToDate`), with two
facts about the route: the page of no group has nothing under way (`AtHome`), and what
is on display is an answer (`OnDisplay`). Of its picker, `FoundHere` is not inductive:
it needs that the search the timer holds, and every search whose answer would be taken,
are of the query, the page and the folder on top of the path as they stand, and that
the dialog is open then (`PickerInv`). Every change of those three outdates the searches
under way; a folder that arrives after the dialog was closed starts an empty search,
which asks for nothing.

The argument in `NodeFinder`. Every call that would be taken, and the search the
timer holds, are of the inputs as they stand (`CallsMatchInputs`): each change of an
input clears both pagers, and this outdates their calls.

The argument in `Session`. `Held` says of a stretch without a crossing which calls
may be under way together (a login alone; one check, while the state says it
checks) and that whom an answer will show is whom the cookie is of, unless it ran
out. Calls are numbered within the bound because there are no more of them than were
sent (`Counted`). `LogoutIsFinal` needs `Leaving` besides: a logout under way carries
nobody's cookie to anyone, and one the server has carried out leaves none behind,
because only the answer to a login brings a cookie and none crosses it.

`NewNameIsFree` counts: of one suffix more than there are taken names one is free;
so the loop of `uniqueFileName` never reaches its `throw`.

The library's induction theorems have a predicate for a parameter, which the provers
cannot instantiate, so nothing is proved of recursion in general. For one concrete
function induction over a set of numbers is enough (`NatSets` in `UploadProofs`,
from the well-foundedness of `<`), and that is how `processManifest` is handled.

Only model-checked: every liveness property, that is
`SweptContentGoes`, `CancelEnds`, `CleanupEnds`, `SpinnerEnds`, `SearchSettles`, and the
`waiting ~> ~waiting` of the refinements of `Lookup` (temporal reasoning under
fairness is out of the prover's reach). Every safety invariant and every action property
that a run checks has its theorem, and so has the type invariant of every module with
variables.

## 6. Where code and documents disagree

One is a run that TLC refutes, since it is what the other properties of the store have
to make room for:

- `NodeStore_sweep`: `GetAllFromPath` (`doc_repository.go:108`) selects a column that
  only the outer query has, so it lists every document; deleting a folder removes the
  content of documents outside it.

The others follow from the models, in which they are behaviours like any other, and
the properties name or exclude them. In the server:

- A creation whose parent is deleted between its check and its insert leaves a row
  without a folder (`create_node_folder_usecase.go:84`). `TreeWellFormed` asks for
  folders only where there are rows.
- Of two deletions of one file the second reads the id of a nil row and panics
  (`delete_node_file_usecase.go:83`); `net/http` recovers (`Recover`). No property is
  about it.
- A member with `write_delete` access deletes a group (`delete_group_usecase.go:49`),
  where `doc/frontend/contract-coverage.md:76` says the owner.
- `CreateAll`'s statement is joined from a raw string, so it contains a backslash and
  an `n`, and its VALUES list is not closed (`node_repository.go:330`): a complete
  batch is refused and its files are removed.
- Two PATCHes of one group read its row and write all of it back
  (`update_group_usecase.go:65`): one of the changes may be undone.

In the client:

- An upload cancelled among its folders settles with its items still `queued`
  (`useUploadFolder.js:277`), where the test (`useUploadFolder.test.js:177`) expects
  `cancelled`.
- A retry creates again folders whose ids the hook holds (`useUploadFolder.js:274`), and
  fails on their names; `doc/proposal/dir_upload.md:41` says they are reused.
- A check of the session that began before a login may end after it, and shows
  nobody; a login whose cookie arrives first may be shown last. `crossed` excludes both.
- Submitting a login form the DTO refuses leaves it loading for good
  (`SubmitInvalid`; `doc/frontend/canonical-flows.md:61` has it usable again).
- Whatever ends first closes what is open by then: the answer of a deletion closes a
  dialog opened since for another row (`Closed`), a saved comment the editor of
  another (`EditDone`), a created group the form in which one is being edited, which
  leaves `editingGroup` set, so that "New Group" next renames that one
  (`GroupsView/index.jsx:49`, `Created` and `New`).
- Deleting the last row of the last page leaves an empty page, with no arrow but back.
- A folder opened in the picker comes on top of the path the user is in by then
  (`GroupNodePicker.jsx:113`, `FolderTaken`), which may not be its parent's; what
  `FoundHere` keeps is that the search is of that folder.
- The picker and the deletion dialog of a group stay open while the route moves; what
  is confirmed then acts on the group on display (`AddNode`, `Confirm`).

## 7. What is not modelled, and why

- The steps inside a read of the server (`get`, roots, pagination, comments): they
  change nothing, and the client's modules take a read as one answer. That its
  queries see different moments (a group and its members, a page and its total) is left
  out, and no property would notice it.
- Sizes, byte ranges, limits and offsets at their integer width: data of their own.
- The use cases of comments, step by step: their checks are separate queries, but a
  comment has one author for good, and what a race with the deletion of its node
  leaves is decided by the foreign key. `Comments` has them as one step each.
- HTTP decoding, JSON views, configuration, hashing, signing, error values: no state
  that a property could be about, or arithmetic of a library.
- `useGetRoot` and the home page: one load without a request number and no change;
  `useUpdateNode`: no page calls it.
- The DTOs' limits (`entities/*`): lengths are data; a form's content is valid or not.
- Toasts, tables, icons, styles: wording and layout. `FolderUploadQueue` renders what
  `FolderUpload` has.
- In `NodePage` and `GroupPage`, what happens after the page is left. Its effects are
  disposed of, but code that awaits an answer still runs: a deletion that was confirmed
  before navigates when it is answered (`NodeView/index.jsx:128`, `GroupView/index.jsx:84`),
  from whatever page the user is on by then. In `NodePage`, several files chosen at once:
  the handler takes the first.
- In `Session`, more than one tab: tabs share the cookie and nothing else, so that what
  one shows says nothing of it once another has logged in.
- The S3 adapter is an empty file.
- In `Sharing`, descriptions and passwords (data), and everything below the home
  folders (in `NodeStore`). In `FolderUpload`, the renaming of a file whose name is
  taken (`uniqueFileName` in `ClientRules` is proved apart) and the timer of the label.
- The lost update of a group's PATCH has no property: the code promises nothing there.

## 8. The plan

Done: 1 `Access`, `Catalog`, `NodeStore` with `NodeStoreProofs`; 2 `FolderUpload` and
`BatchTree` with `UploadProofs`; 3 `Sharing` with `SharingProofs`; 4 the client:
`ClientRules`, `Lookup`, `Session`, `NodePage`, `Comments`, `NodeFinder`, `Directory`,
`NodePicker` and `GroupPage`, with five modules of proofs.

Next, in this order:

5. `Drive`: `NodeStore` with the memberships of `Sharing` changing under requests
   in progress; property: an access revoked before a request begins is never used.
6. The reads of the server query by query, torn between moments.
7. Byte ranges, sizes and pages of the server at their integer width, against a
   reference definition over bounded inputs.

## 9. Running it

    tlc -workers 2 -config NodeStore_faults.cfg MCNodeStore.tla
    tlc -workers 2 -config GroupPage_all.cfg MCGroupPage.tla
    tlapm NodeStoreProofs.tla

A `.cfg` named `X_y.cfg` belongs to the module `MCX` (`NodeFinder_all.cfg` to
`NodeFinder` itself). The runs take from ten seconds to three minutes, the proofs up to
a few minutes each, `UploadProofs` about ten.
