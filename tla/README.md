# BranchDB operator: TLA+ models, checks and proofs

BranchDB gives every developer or CI job a database of its own: a *branch* is a
writable ZFS clone of a snapshot, exported over NFS and mounted by a database
pod. A web console creates, watches and deletes branches and snapshots. This directory
models the parts of the system that keep state, checks them with TLC and proves
every safety property the runs check with TLAPS. Paths are relative to the
repository.

Check a model with `tlc -config X.cfg M.tla`, a proof with `tlapm M.tla`.

## 1. The system

| Component | Code | State | Operations | Talks to |
|---|---|---|---|---|
| DatabaseBranch operator | `internal/interface/operator/reconciler.go` | none of its own; `status.phase`, `expiresAt`, the finalizer, the work queue and its timers | `Reconcile` (expire, add finalizer, create), `handleDeletion`, `setError` | API server (cached reads, direct writes), both providers |
| Database provider | `internal/infrastructure/k8sdatabase/provider.go` | five Kubernetes objects per name | `Start`, `Stop` | API server, informer cache |
| ZFS agent client | `internal/infrastructure/zfsagent/provider.go` | a 30 s timeout | one HTTP call per method | agent |
| ZFS agent | `internal/interface/api/zfsagent/handler.go`, `cmd/zfsagent/main.go` | the default dataset, chosen at start | one goroutine per request, no lock | `AgentProvider` |
| AgentProvider | `internal/infrastructure/zfs/agent_provider.go` | clones, snapshots, exports, the nfsd thread count of the host | clone/share/rollback, unshare/destroy/nfsd release, snapshot/archive, collect, reset | `zfs`, `/proc/fs/nfsd` |
| API server of BranchDB | `internal/interface/api/k8s_branch_handler.go` | none; two lists inside `handleGC` and `handleResetDataset` | create, delete, snapshots, `/gc`, `/snapshots/reset` | Kubernetes API server, agent |
| Web console: branches | `web/src/App.tsx` (`App`, `BranchesTab`, `BranchRow`), `web/src/api.ts` | list of branches, error banner, form, metrics | load by timer, on request and after a change; create, delete | API server |
| Web console: edit sessions | `App.tsx` (`SnapshotsTab`, `EditSessionPanel`) | `sessions`, an interval per row | open, poll, close, restore from the list | API server |
| Web console: snapshots and forms | `App.tsx` (`CreateModal`, `SnapshotsTab`, `TakeSnapshotModal`) | type, list, selections | list, pick, create, take, overwrite, delete, reset | API server |
| WebSocket hub | `internal/interface/api/ws_hub.go` | clients, broadcast queue | register, unregister, broadcast | browsers (wired into no program) |

On the server everything meets in three shared places: the `DatabaseBranch` resource (users,
API server, operator), the *name* of the branch (clone, Kubernetes objects and
resource are tied by name only, so whatever one branch leaves behind the next of
its name adopts) and the ZFS host (one export table and one nfsd thread count
under all branches). The console shares nothing but HTTP with the rest: every
request is answered when the server pleases, none is ever cancelled, and each
callback writes into whatever the page has become since.

What is hard, and what correctness means there:

- **Operator.** Reads are stale, writes may conflict, replies get lost, the
  process stops anywhere, the agent may execute what was given up. Correct: the
  finalizer guarantees the cleanup; Ready means backed by its own clone and
  objects; Ready is stable; expiry hits the branch it was decided for; no wakeup
  is lost; deletions and creations complete.
- **Database provider.** Kubernetes deletes asynchronously, `AlreadyExists` is a
  success and `Stop` ignores errors. Correct: `Start` is complete after any
  retries; `Stop` asks for everything; nothing stale is taken over for good.
- **Agent.** Commands fail one by one, requests are cancelled between commands,
  goroutines interleave on the host. Correct: created means exported and in the
  right dataset; deleted means gone; an nfsd outage ends and is fully undone; an
  overwritten snapshot name keeps a snapshot.
- **Maintenance calls.** Lists grow old while they are acted on, and the reset
  runs against the operator's own cleanup. Correct: a call destroys no clone of a
  branch that was there when it looked, and orphans are destroyed in the end.
- **Console.** Requests overlap and are answered out of order; the user closes,
  leaves and changes types meanwhile. Correct: the table catches up and no load
  undoes what it was sent for; a session keeps its branch and is polled; forms
  and lists are of the type they show; what is deleted is what was confirmed.

## 2. Modules

| Module | Models | Abstracts from |
|---|---|---|
| `BranchLifecycle` | what the operator promises: the life of a branch, its volume and its database | everything the operator does to get there |
| `BranchOperator` | one name, one reconciler: one action per call, the API server's versions and finalizers, the informer, queue and timer, crashes, late calls | the steps inside the providers |
| `K8sDatabase` | `Start` and `Stop` object by object, termination in Kubernetes, the cached Service | the reconciler around them |
| `CloneService` | what the agent promises: each call happens at once or not at all | commands, requests, restarts |
| `AgentClones` | client, `pickProvider`, `CreateClone` command by command with rollback, agent restarts | nfsd inside `DeleteClone` |
| `NfsRelease` | `DeleteClone` and `releaseNFSAndDestroy` command by command, several requests, stops of the agent | the callers |
| `ZfsSnapshots` | take (with and without a name), overwrite, delete, collect, reset, beside clones | contents of datasets |
| `BranchFleet` | several names as the maintenance calls see them: resource, operator's progress, clone | caches, conflicts and objects of `BranchOperator`, which implements it |
| `CloneGC` | `handleGC` and `handleResetDataset`, overlapping calls, on top of `BranchFleet` | snapshots (in `ZfsSnapshots`) |
| `EditSessions` | the edit sessions of the console, request by request | what the server does to a branch beyond its phase |
| `BranchTable` | the table of branches, its loads, form and metrics, seen by one name | the other names, the row's details |
| `SnapshotForms` | lists of snapshots by type and what is chosen from them; the server's check and creation | names typed in, messages |
| `*_proofs` | the theorems of section 5 | |
| `MCZfsSnapshots` | the symmetry of requests | |

`CloneGC` composes with `BranchFleet`. `BranchOperator` implements
`BranchLifecycle`, which says what a user may rely on, and, for its one name,
`BranchFleet`, so what is proved of the maintenance calls is proved beside the
operator as it is. `K8sDatabase`, `AgentClones` and `NfsRelease` open up one call
of `BranchOperator` each; `AgentClones` implements `CloneService`, the agent
`BranchOperator` counts on. The three modules of the console stand beside one
another: they are three parts of `App.tsx` with disjoint state, and each has the
part of the API server it calls. An operator named `X_Y` is a variant of `X` with
a plausible mistake; no specification uses it.

How state and actions correspond to the code:

- **BranchOperator.** `cr` is the stored object, `cache` what `r.Get` returns,
  `versions` the writes the watch has still to deliver; `obj` is the local
  `branch` of the running `Reconcile` and `pc` its next call. The `Reconcile...`
  actions are its branches up to the first write, and `AddFinalizer`,
  `MarkCreating`, `CreateClone`, `Start`, `MarkReady`, `MarkDeleting`, `Stop`,
  `DeleteClone`, `RemoveFinalizer`, `SetError` its calls in order, each with its
  error path. `clone` and `db` hold the incarnation the clone and the objects
  were *made for*, which is how adopting a predecessor's leftovers is visible.
  One worker is enough: the work queue never runs one name twice at a time.
- **K8sDatabase.** `obj[k]` is absent, live or terminating and carries its
  owner. The claim cannot vanish before the pod, nor the volume before the
  claim. Binding (a Released volume) is left out. The type of a branch is
  `configured` (has a ConfigMap), `plain` or `unsupported` (always an error).
- **BranchFleet.** `stage` is read off the resource: `new` has no finalizer of
  the operator yet, `creating` has it, `released` waits for the finalizer of
  somebody else. `worker` is where the operator is between the writes that
  matter: `creating` (before `CreateClone`), `created` (before the write of
  Ready), `deleted` (before the finalizer goes). `Abandon` is every error,
  conflict and crash in between.
- **AgentClones.** One request is under way per name, because the operator makes
  one call at a time and a cancelled request starts no further command. Any
  command and any call may fail, any number of times.
- **NfsRelease.** `Crash` is also an ordinary stop of the agent, whose `main`
  returns on SIGTERM without waiting for requests. A cancelled context (`HangUp`) makes every later
  `exec.CommandContext` fail, while the two writes to `/proc` still happen. A
  served clone is `pinned` while nfsd has threads. `misread` is the history of a
  request that took the fallback for a count it found 0 or could not read.
- **ZfsSnapshots.** A snapshot is an identity with a prefix and a stamp (0: the
  plain name); one without a name is called `auto` and its second, so that nothing
  but the prefix tells it from an archive. Its `id` tells a snapshot from a later
  one of the same name. The sort by minute with ties is "any set of surplus archives none
  of which is younger than one that is kept".
- **CloneGC.** One action per call of `handleGC` and of `handleResetDataset`.
  `asOf` remembers, of the clones a call may yet destroy, the incarnations there
  were when it listed the resources,
  `blind` the living names a failed `List` or `Delete` of resources has exposed,
  `spared` the branches a reset has listed and skipped, being of another type,
  `swept` the first branches that lost their clone to a reset that spared them or
  had listed before they were there. The names are those of one dataset: types
  that share none do not meet, but in `handleGC`, see section 6.
- **EditSessions.** A request is sent, answered and handled in three actions.
  A row's session, its interval (`pollRefs`) and its creation are separate, as
  in the code, where an answer of one writes into the others. `trouble` is a
  history of what a row has been through in this visit: `calm`, `upset` (a failed
  request, a branch that went away, an answer of another branch, overlapping
  polls) or `crossed` (closed with an answer under way).
- **BranchTable.** The server's branch is a number of changes modulo four
  (absent, starting, Ready, Deleting), so a list is as new as its number. `App`
  outlives `BranchesTab`, so `visit` tells whose state a callback writes to.
- **SnapshotForms.** `page` is what is mounted, `lists` the lists under way with
  the type they were asked for, `order` the one creation, deletion, snapshot or
  reset under way with what was on the screen when it was confirmed (`meant`).

## 3. Runs

| Run | Question | Bounds | Distinct states |
|---|---|---|---|
| `operator_safety` | cleanup, backing, wakeups, expiry, refinement of the life cycle and of the fleet | 2 incarnations, 2 faults, no late calls, no failing `Stop` | 236 k |
| `operator_liveness` | stability of Ready; deletion, creation and expiry complete | 2 incarnations, 1 fault, late calls and failing `Stop` | 254 k |
| `operator_stop_leak` | *violated*: cleanup when a Delete inside `Stop` fails | 1 fault | |
| `database` | completeness of `Start`, reach of `Stop`, stale objects, termination | 2 incarnations, 2 faults | 259 k |
| `database_terminating` | *violated*: Ready means served | no fault | |
| `agent_clones` | created has its clone, deleted is gone, calls are atomic to the operator | 2 datasets, 1 type without one; faults unbounded | 1.5 k |
| `nfs_release` | threads and exports restored, outages owned and ended | 2 clones, 2 requests, 2 faults (crashes among them), 16 threads | 342 k |
| `snapshots` | names survive overwrites and are renewed by them, only old archives collected, reset complete | 2 requests, 1 name and nameless ones, 1 clone, 3 snapshots, 3 ticks, 1 fault | 3.1 M |
| `gc` | which clones a collection or a reset may hit, orphans collected | 2 names (1 reused; 1 leftover, with another's finalizer; 1 maybe of another type), 2 incarnations, 1 fault, 1 collector, 1 reset | 794 k |
| `console_sessions` | sessions keep their branch, none is forgotten, spinners are polled | 1 row, 2 openings, 2 requests under way, 1 visit, 1 fault | 953 k |
| `console_table` | loads are newer, the table catches up, forms and metrics | 3 changes, 2 loads, 1 call, 2 forms, 2 visits, 1 fault | 861 k |
| `console_forms` | types of lists, forms and deletions | 2 types with 2 names, 2 lists and 1 order under way, 2 choices, 1 fault | 2.7 M |

Why the bounds are enough: the bad cases here need a predecessor and a successor
of one name (two incarnations), a failure and the failure of its repair (two
faults), one interruption of a sequence by another (two requests), an archive to
keep, one to collect and a plain snapshot (three snapshots) and a minute with two
ticks beside another minute, a host whose thread count is not the fallback of
the code, a branch of the type of the reset beside one of another, and in the console an answer that is overtaken by
one other answer and by one thing the user does (two requests, two choices).
Larger instances were checked once without liveness: `CloneGC` with every name
reused, shared and maybe of another type, with its inductive invariant (3.4 M states), `BranchTable` with 2 calls (4.0 M), `SnapshotForms` with
3 choices (13.6 M). Overlapping collectors and resets and arbitrary numbers of
requests, incarnations and faults are covered by the proofs. `MaxUid` and
`MaxId` let a model stop when a name or an id is used up, which is why some
configurations switch deadlock checking off; the liveness runs check that it
does not stop too early.

### What the violated runs show

- `operator_stop_leak`: `Stop` (`k8sdatabase/provider.go:157`) ignores the
  errors of its Deletes and returns nil, so the finalizer goes while objects
  stay; `operator-lifecycle.en.md:57` says a failing step is an error that is
  retried.
- `database_terminating`: creates take `AlreadyExists` for success also when the
  object is terminating; a branch created right after the deletion of its
  predecessor becomes Ready and loses its pod (`crd-spec.en.md:48`).

### Known limits the passing properties state

These are behaviours of the code that the properties allow by an explicit
exception, and nothing beyond it:

- What `Stop` misses is only what failed (`StopReachesAll`); a stale object is
  adopted for good only if its Delete failed (`StaleOnlyIfMissed`).
- `NewHandler` takes its default dataset from a map iteration (`handler.go:46`).
  Types with a dataset are created and deleted in it (`CreatedHasClone`,
  `DeletedIsGone`); a clone of another type may be left in an earlier default.
- The second of two concurrent releases may read the 0 of the first; it then
  restores the fallback 8 (`agent_provider.go:187`), whatever the host is
  configured with. No failure is needed: on the 16-thread host of the run one
  overlap leaves 8 threads, and since later releases read 8, it keeps them. So
  the comment at `agent_provider.go:181`, that threads are always restored, holds
  for a host with 8 threads or for releases that do not overlap, and
  `ThreadsRestored` says what holds in general: the configured number, or 8 if a
  request has misread the count, and nothing else, least of all 0.
- An agent stopped in a release leaves nfsd stopped or exports missing; only the
  requests it kills lose anything (`OutageIsOwned`, `SharesRestored`).
- Nameless snapshots are collected like archives (`CollectsTheOldest`).
- `handleGC` and `handleResetDataset` hit living branches created after they
  listed the resources, under a name they had seen, or those a failed `List` or
  `Delete` exposed (`GCHitsOnlyLateComers`).
- `handleResetDataset` deletes only the resources of its `db_type`
  (`k8s_branch_handler.go:513`), but the agent resets the dataset `pickProvider`
  finds for that type (`zfsagent/handler.go:75-84`): the default one for a type
  without its own. Where types share a dataset, as on an installation with only
  one, a reset of one type destroys the clones of all, and the branches of the
  others go on living without. These are the branches in `spared`, the third
  exception of `GCHitsOnlyLateComers`; a branch the reset has listed and not
  skipped does not lose its clone while it lives.
- A second overwrite of a snapshot with clones within one second is answered with
  an error; the snapshot the first one took stays under the name
  (`OverwriteRenews`).
- Closing a row with an answer under way may leave a session without a name, and
  a branch nobody knows of when the DELETE overtakes the POST
  (`NamelessOnlyIfCrossed`, `ForgottenOnlyIfMissed`).
- A load of the timer may replace the list after a creation by an older one for
  a while (`ReloadsAreNewer` against `EventuallyFresh`).
- A list under way when the type changes, or the `load` of the rendering in which
  "Delete", "Take" or "Full Refresh" was clicked, is applied to the type selected
  now (`FormOffersItsType` and `ListFollowsFilter` leave out just that); the
  server refuses what such a form sends (`BranchHasSnapshot`).

## 4. Fairness

- *Operator*: it goes on with a reconcile it began and takes queued names;
  controller-runtime retries errors and a crashed process is restarted. The
  watch delivers and timers fire. Nothing is assumed of users; faults are
  bounded, so "in the end" means "once faults stop".
- *Kubernetes* (`K8sDatabase`): terminating objects nothing holds go away, and
  the informer catches up.
- *Agent* (`NfsRelease`): a goroutine that has begun goes on. Clients may hang up.
- *Console* (`BranchTable`): the interval fires, and the browser answers or fails
  each request of a form and, however many polls there are, always some of them.
  Nothing is assumed of the user. The other two modules state no liveness.
- *GC*: the Helm chart's CronJob calls `/gc` again and again
  (`deploy/helm/branchdb/templates/gc-cronjob.yaml`). Nothing is assumed of
  users and operator there.

## 5. Proofs

All theorems hold for every value of the constants that satisfies the named
assumptions of the module (bounds are natural numbers, sets are finite, and what
the code makes distinct is distinct). They state every invariant and every
action property of the passing runs, and the three refinements.

| Theorem | Says | Rests on |
|---|---|---|
| `TypeCorrect`, `ExpiryIsExact`, `ReadyIsStable` | `TypeOK`, `ExpiryHitsTheExpired`, `ReadyUntilDeleted` of `BranchOperator` | `ControlInv`, with late calls and failing `Stop` |
| `WakeupsAreNotLost` | `NoLostWakeup` | `ControlInv`, `WakeInv`, the same |
| `FinalizerGuaranteesCleanup`, `ReadyHasItsOwnVolume` | `CleanupGuaranteed`, `ReadyIsBacked` | `ResourceInv`, assuming `~LateRequests` and `~StopErrors` |
| `OperatorImplementsLifecycle` | `BranchOperator` implements `BranchLifecycle` | both invariants, same assumptions |
| `OperatorImplementsFleet` | `BranchOperator` implements `BranchFleet` | `ControlInv`, `Numbered`, assuming `~LateRequests` |
| `DatabaseTyping`, `StopAsksForAll`, `StaleOnesWereMissed` | `TypeOK`, `StopReachesAll`, `StaleOnlyIfMissed` of `K8sDatabase`, any number of branches of a name and of faults | `StaleInv` |
| `FirstStartIsComplete` | `StartIsComplete` | `IInv` |
| `CreatedBranchesHaveClones`, `DeletedBranchesLeaveNoClone` | `CreatedHasClone`, `DeletedIsGone` of `AgentClones` | `AgentInv` |
| `AgentImplementsService` | `AgentClones` implements `CloneService` | `AgentInv`, `RollbackInv` |
| `OverwrittenNamesSurvive`, `OldArchivesAreCollected`, `ResetsAreComplete` | `NameSurvivesOverwrite`, `CollectsTheOldest`, `ResetRemoves` of `ZfsSnapshots`, any names, clones and requests | `SnapshotInv` |
| `OverwritesRenew` | `OverwriteRenews`, the same | `SnapshotInv`, `RenewInv` |
| `OutageHasAnOwner`, `SharesComeBack`, `Typing` | `OutageIsOwned`, `SharesRestored`, `TypeOK` of `NfsRelease`, any number of requests | `OutageInv` |
| `ThreadsComeBack` | `ThreadsRestored`, any configured number of threads | `ThreadsInv` |
| `FreshNamesAreSafe`, `OnlyBystandersAreHit` | `FreshNameKeepsClone`, `GCHitsOnlyLateComers` of `CloneGC`, any number of collectors and resets, any types in the dataset | `GCInv` |
| `SessionsKeepTheirName`, `SpinnersArePolled`, `ClosedBranchesAreDeleted` | the three invariants of `EditSessions`, any number of snapshots, requests and visits | `QuietInv`, `OwnInv`, `ForgetInv` |
| `LoadsShowWhatWasDone`, `BusyFormsHaveCalls`, `MetricsAreAskedOnce` | `ReloadsAreNewer`, `BusyHasCall`, `AskedOnce` of `BranchTable`, any number of loads, calls, forms and visits | `FreshInv`, `FormInv`, `MetricsInv` |
| `FormIsOfItsType`, `TabIsOfItsFilter`, `BranchesHaveSnapshots`, `DeletionsHitTheirRow` | the four properties of `SnapshotForms`, any types, names and lists | `FormInv`, `TabInv`, `HereInv`, `CheckedInv`, `MeantInv` |

The arguments:

- **`ControlInv`.** None of the operator's properties is inductive, because a
  worker acts on a copy it took earlier. The invariant says what a copy is good
  for: the watch window lies between cache and stored object and a
  resourceVersion names one version; a protected, undeleted version in the
  window belongs to the incarnation that exists, and if it was Ready the object
  still is, or is being deleted (only a worker that has read the deletion
  removes the finalizer); for each `pc`, what the worker has read is still true
  of the object or its next write conflicts. **`ResourceInv`** adds whose clone
  and objects may be there at each step. The two assumptions are necessary:
  `operator_stop_leak` shows one, and a call executed after it was given up
  breaks the other.
- **`WakeInv`.** Only the beginning of a Reconcile takes the name out of the
  queue, and it has then read the cache; a write of its own is still to be
  delivered. The one return without a requeue or a write, the deletion of an
  expired branch that is already being deleted, needs that the cache has moved
  since, and so the queue been filled.
- **Refinement.** The stage of `BranchLifecycle` is read off `deletionTimestamp`
  and `status.phase`; clone and objects are themselves. One step lemma
  (`NextRefines`) has a case per action; most steps stutter. For the fleet
  (`NextFleet`) failing Deletes of `Stop` do not matter, since it knows of no
  objects, and late calls do: an agent that makes a clone nobody waits for is a
  step the fleet does not have. `Numbered` keeps the 0 of `clone` for "none".
- **`StaleInv`, `IInv`.** A Stop runs only while its branch is being deleted, and
  what it has been through is live no more or was missed (`StopInv`). So a name
  is left with live objects only where a Delete failed, and the next branch adds
  only its own to them (`LeftInv`). Before the first deletion no Stop has run:
  objects are not there or live and the first branch's own, the cache holds
  that Service or none, and a Start has made all it has been through
  (`FirstInv`).
- **`OutageInv`.** A stopped nfsd or a missing export has a request at or before
  the command that restores it, and every such request has read a positive
  count, 0 being turned into 8. **`ThreadsInv`** adds which: what a request is
  going to restore, and what nfsd runs when it runs, is the configured number,
  or 8 once a count was misread.
- **`GCInv`.** In the fleet a worker that is under way has a resource that holds
  the finalizer, and a first branch that is Ready or past `CreateClone` has its
  clone (`Fresh`). Per name: a name in `todo` of a collector that is not blind had no
  resource when it looked, so its incarnation is at least the recorded one and a
  living branch under it is strictly younger. A reset is the other way round: a
  name it has passed (`Passed`), neither skipped for its type nor of a younger
  incarnation, is no longer living, unless its Delete failed.
- **`EditSessions`.** An answer acts on the session of its row whoever that
  belongs to, so none of the properties is inductive. `QuietInv`: a row without a
  session that was not crossed waits for nothing. `OwnInv`: all that is under way
  for a calm row is about the branch of its session, and while that is not Ready
  it is polled or its creation is unanswered. `ForgetInv` accounts for every
  branch of the visit: it has a session, is being deleted or was missed, or has
  not been made.
- **`BranchTable`.** A load is no older than what the table showed when it was
  sent or the call it follows has done, and its answer no older than that
  (`FreshInv`); a form is only open in its tab (`FormInv`), so a busy one is that
  of its call; the placeholder is set in the step that asks (`MetricsInv`).
- **`SnapshotForms`.** A calm form has one list under way, of its type, and
  nothing selected until it comes (`FormInv`); all under way on a calm tab is of
  its type (`TabInv`); a request that will be heard belongs to the page shown
  (`HereInv`); what was looked up is there or excused (`CheckedInv`); a deletion
  names what was on the screen when it was confirmed (`MeantInv`).
- **`SnapshotInv`.** Ids are never given twice, so a snapshot that comes under a
  name later is told from the one before. `NameHeld`: a name without a snapshot
  was dropped, or an overwrite is about to take it again. `Collecting`: what a
  collection has on its list had `Keep` archives as recent in the answer it was
  made of, however much has been renamed and deleted since; the lemmas about
  cardinality it needs come from `FiniteSetTheorems`. `Resetting`: of the
  snapshots there were when a reset began, those left are on its list or have
  been archived under another name.
- **`RenewInv`.** The snapshot under a plain name is no older than any archive of
  the name (`Aging`), so a rename that is refused because its second is taken
  leaves one of this second; and between the two commands of an overwrite what
  comes under the name is never one it had before (`Replacing`), because a rename
  only leads away from a plain name and a new snapshot has a new id.
- **`AgentInv`.** The request under way belongs to the phase of the branch and
  works in the dataset of its type; it needs `branch` to move only on an answer.
  **Service**: a clone that may still be rolled back is mapped to no clone, so a
  rollback stutters, and the step happens when the request ends, however it
  ends; it needs that only what the request itself has made is rolled back.

Only model-checked: the eight liveness properties (`DeletionCompletes`,
`CreationCompletes`, `ExpiryHonoured`, `StartCompletes`, `ObjectsGoAway`,
`OutageEnds`, `OrphansCollected`, `EventuallyFresh`), since TLAPS has no support
for the fairness reasoning and `ENABLED`.

## 6. Not modelled

- `pollForPort`, and the pod and metrics handlers: they change nothing.
- The WebSocket hub: no program constructs it.
- Two active operators: leader election is taken to work as configured by the
  Helm chart.
- Two databases with branches of one name: `handleGC` compares clones of one type
  with resources of every type.
- A killed command of the agent whose effect comes after its retry.
- In the console: statistics, `DetailPanel`, formats, messages and the copy
  button; more than one creation, deletion or snapshot under way on the tab of
  snapshots; an interval a callback starts after the tab was left (it is stopped
  by nothing, and asks for a branch nobody shows); the texts of errors, such as
  that any error that contains "501" hides the tab and that a failed deletion of
  a branch is shown nowhere; the overwrite target of an earlier type.
- Read-only handlers, request decoding, authentication, image and pod contents,
  deployment files, generated code: no state, or data no property tells apart.

## 7. Plan

Done: operator with its life cycle and proofs; nfsd release with stops of the
agent; clone collection and dataset reset beside users and operator; database
provider with proofs; snapshots, nameless ones included; agent clones; the three parts of the
web console; proofs of every safety property, and of the refinements of the life
cycle, the fleet and the clone service.

Left, in this order:

1. What a call that outlives its client does inside the agent (a `zfs destroy` of
   a rollback that ends after the retry), and the theorems that survive it.
2. Two operators in `BranchOperator`: what is lost without leader election.
3. `WSHub`, once a program constructs it: no send on a closed channel.
