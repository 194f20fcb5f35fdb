--------------------------- MODULE BranchOperator ---------------------------
(***************************************************************************)
(* The DatabaseBranch operator (internal/interface/operator/reconciler.go) *)
(* at work on one branch name. The work queue of controller-runtime never  *)
(* runs two reconciles of one name at a time, so one worker is enough; the *)
(* concurrency is with the API server's other clients, with the informer   *)
(* that feeds the cached reads of mgr.GetClient(), with the ZFS agent that *)
(* may answer late, and with crashes of the operator itself.               *)
(*                                                                         *)
(* External parts are modelled from how the reconciler uses them: the API  *)
(* server (optimistic concurrency on resourceVersion, deletionTimestamp    *)
(* and finalizers), the informer, the work queue, and the two providers    *)
(* behind the interfaces of internal/domain.                               *)
(***************************************************************************)
EXTENDS Naturals, FiniteSets

CONSTANTS
    MaxUid,        \* bound: how many times the name is created
    MaxFaults,     \* bound: failed calls and operator crashes
    LateRequests,  \* TRUE: a call the operator gave up may still be executed
    StopErrors     \* TRUE: a Delete inside Stop may fail (Stop ignores it)

ASSUME BoundsAssumption ==
    /\ MaxUid \in Nat
    /\ MaxFaults \in Nat
    /\ LateRequests \in BOOLEAN
    /\ StopErrors \in BOOLEAN

VARIABLES
    cr,        \* the DatabaseBranch of this name in the API server
    cache,     \* the version of it the informer holds: what r.Get returns
    versions,  \* cache and every later version: what the watch will deliver
    queue,     \* the name is in the work queue
    timer,     \* a RequeueAfter is pending
    pc,        \* the call the running Reconcile is about to make
    obj,       \* `branch`, the local copy of the running Reconcile
    clone,     \* the incarnation whose CreateClone made the ZFS clone, or 0
    db,        \* the incarnation whose Start made the Kubernetes objects, or 0
    elapsed,   \* the incarnations whose status.expiresAt has passed
    late,      \* calls to the agent given up by the operator, not executed yet
    faults     \* how many faults have happened (bounded by MaxFaults)

server == <<cr, versions>>
informer == <<cache, versions>>
worker == <<pc, obj>>
outside == <<clone, db, late>>
vars == <<cr, cache, versions, queue, timer, pc, obj, clone, db, elapsed,
          late, faults>>

-----------------------------------------------------------------------------
(* The resource and the API server.                                        *)

Phases == {"", "Creating", "Ready", "Error", "Deleting"}

(* other: a finalizer of somebody else; exp: status.expiresAt is set.      *)
Version == [rv: Nat, live: BOOLEAN, uid: 0..MaxUid, fin: BOOLEAN,
            other: BOOLEAN, del: BOOLEAN, phase: Phases, ttl: BOOLEAN,
            exp: BOOLEAN]

Absent(n, u) == [rv |-> n, live |-> FALSE, uid |-> u, fin |-> FALSE,
                 other |-> FALSE, del |-> FALSE, phase |-> "",
                 ttl |-> FALSE, exp |-> FALSE]

Blank == Absent(0, 0)

(* A deleting object whose last finalizer is gone is removed from etcd.    *)
Settle(v) == IF v.del /\ ~v.fin /\ ~v.other THEN Absent(v.rv, v.uid) ELSE v

DeleteOf(v) == Settle([v EXCEPT !.del = TRUE, !.rv = v.rv + 1])

WithPhase(v, p, e) ==
    IF v.phase = p /\ v.exp = e THEN v      \* nothing to write: no new version
    ELSE [v EXCEPT !.phase = p, !.exp = e, !.rv = v.rv + 1]

Commit(v) == /\ cr' = v
             /\ versions' = versions \cup {v}

(* The optimistic lock: the stored object is still the one read.           *)
Fresh == cr.live /\ obj.rv = cr.rv

-----------------------------------------------------------------------------
Init == /\ cr = Blank /\ cache = Blank /\ versions = {Blank}
        /\ queue = FALSE /\ timer = FALSE
        /\ pc = "idle" /\ obj = Blank
        /\ clone = 0 /\ db = 0
        /\ elapsed = {} /\ late = {} /\ faults = 0

-----------------------------------------------------------------------------
(* Users, other controllers, the clock, the informer and the work queue.   *)

UserCreate ==
    /\ ~cr.live /\ cr.uid < MaxUid
    /\ \E ttl, other \in BOOLEAN :
         Commit([Absent(cr.rv + 1, cr.uid + 1) EXCEPT
                    !.live = TRUE, !.ttl = ttl, !.other = other])
    /\ UNCHANGED <<cache, queue, timer, worker, outside, elapsed, faults>>

UserDelete ==
    /\ cr.live /\ ~cr.del
    /\ Commit(DeleteOf(cr))
    /\ UNCHANGED <<cache, queue, timer, worker, outside, elapsed, faults>>

OtherFinalizerRemoved ==
    /\ cr.live /\ cr.other
    /\ Commit(Settle([cr EXCEPT !.other = FALSE, !.rv = cr.rv + 1]))
    /\ UNCHANGED <<cache, queue, timer, worker, outside, elapsed, faults>>

Elapse ==
    /\ \E v \in versions : /\ v.exp /\ v.uid \notin elapsed
                           /\ elapsed' = elapsed \cup {v.uid}
    /\ UNCHANGED <<cr, informer, queue, timer, worker, outside, faults>>

(* The watch moves the cache forward, never back, and wakes the worker.    *)
Deliver ==
    /\ \E v \in versions :
         /\ v.rv > cache.rv
         /\ cache' = v
         /\ versions' = {w \in versions : w.rv >= v.rv}
    /\ queue' = TRUE
    /\ UNCHANGED <<cr, timer, worker, outside, elapsed, faults>>

TimerFires ==
    /\ timer
    /\ timer' = FALSE /\ queue' = TRUE
    /\ UNCHANGED <<cr, informer, worker, outside, elapsed, faults>>

-----------------------------------------------------------------------------
(* The beginning of Reconcile: one action per way through its conditions.  *)

(* Variant: the clock is not consulted.                                    *)
Expired_AnyTime(v) == v.exp /\ v.phase = "Ready"

Expired(v) == v.exp /\ v.phase = "Ready" /\ v.uid \in elapsed

(* r.Get from the cache, and on to the first call of the branch taken.     *)
Begin(next) ==
    /\ pc = "idle" /\ queue
    /\ queue' = FALSE
    /\ pc' = next
    /\ obj' = IF next = "idle" THEN Blank ELSE cache
    /\ UNCHANGED <<cr, informer, outside, elapsed, faults>>

ReconcileNothing ==
    /\ ~cache.live \/ (cache.del /\ ~cache.fin)
    /\ Begin("idle") /\ UNCHANGED timer

(* Variant: a branch in Error is not looked at again.                      *)
ReconcileDeletion_NotAfterError ==
    /\ cache.live /\ cache.del /\ cache.fin /\ cache.phase # "Error"
    /\ Begin("markDeleting") /\ UNCHANGED timer

ReconcileDeletion ==
    /\ cache.live /\ cache.del /\ cache.fin
    /\ Begin("markDeleting") /\ UNCHANGED timer

ReconcileExpired ==
    /\ cache.live /\ ~cache.del /\ Expired(cache)
    /\ Begin("expire") /\ UNCHANGED timer

ReconcileUnprotected ==
    /\ cache.live /\ ~cache.del /\ ~Expired(cache)
    /\ ~cache.fin
    /\ Begin("addFinalizer") /\ UNCHANGED timer

(* Variant: no RequeueAfter for a Ready branch.                            *)
ReconcileReady_NoTimer ==
    /\ cache.live /\ ~cache.del /\ ~Expired(cache)
    /\ cache.fin /\ cache.phase = "Ready"
    /\ Begin("idle") /\ UNCHANGED timer

ReconcileReady ==
    /\ cache.live /\ ~cache.del /\ ~Expired(cache)
    /\ cache.fin /\ cache.phase = "Ready"
    /\ Begin("idle") /\ timer' = TRUE

(* Variant: side effects without waiting for the finalizer.                *)
ReconcileCreation_Unprotected ==
    /\ cache.live /\ ~cache.del /\ ~Expired(cache)
    /\ cache.phase # "Ready"
    /\ Begin("markCreating") /\ UNCHANGED timer

(* Variant: Ready does not end the reconcile early.                        *)
ReconcileCreation_ReadyToo ==
    /\ cache.live /\ ~cache.del /\ ~Expired(cache)
    /\ cache.fin
    /\ Begin("markCreating") /\ UNCHANGED timer

(* Variant: Error and Creating are skipped like Ready.                     *)
ReconcileCreation_OnlyNew ==
    /\ cache.live /\ ~cache.del /\ ~Expired(cache)
    /\ cache.fin /\ cache.phase \notin {"Ready", "Creating", "Error"}
    /\ Begin("markCreating") /\ UNCHANGED timer

ReconcileCreation ==
    /\ cache.live /\ ~cache.del /\ ~Expired(cache)
    /\ cache.fin /\ cache.phase # "Ready"
    /\ Begin("markCreating") /\ UNCHANGED timer

-----------------------------------------------------------------------------
(* The calls Reconcile makes, one action each.                             *)

Goto(next) == pc' = next /\ UNCHANGED <<obj, queue>>

(* Result{}, nil.                                                          *)
Return == pc' = "idle" /\ obj' = Blank /\ UNCHANGED queue

(* An error, or Requeue: true: the name goes back to the queue.            *)
Requeue == pc' = "idle" /\ obj' = Blank /\ queue' = TRUE

Fault == faults < MaxFaults /\ faults' = faults + 1
NoFault == UNCHANGED faults

(* Update and Status().Update refused by the lock, or failed: the write is *)
(* lost, or it is made and its answer is lost. Reconcile returns the error.*)
WriteFails(v) ==
    \/ ~Fresh /\ NoFault /\ Requeue /\ UNCHANGED server
    \/ Fault /\ Requeue /\ UNCHANGED server
    \/ Fresh /\ Fault /\ Requeue /\ Commit(v)

Write(at, v, next) ==
    /\ pc = at
    /\ \/ /\ Fresh /\ NoFault
          /\ Commit(v)
          /\ pc' = next /\ obj' = v /\ UNCHANGED queue
       \/ WriteFails(v)
    /\ UNCHANGED <<cache, timer, outside, elapsed>>

(* r.Delete(ctx, branch) names the object and gives no precondition.       *)
DeleteExpired ==
    /\ pc = "expire"
    /\ \/ cr.live /\ ~cr.del /\ Commit(DeleteOf(cr)) /\ NoFault /\ Return
       \/ cr.live /\ cr.del /\ UNCHANGED server /\ NoFault /\ Return
       \/ ~cr.live /\ UNCHANGED server /\ NoFault /\ Requeue
       \/ Fault /\ UNCHANGED server /\ Requeue
       \/ cr.live /\ ~cr.del /\ Fault /\ Commit(DeleteOf(cr)) /\ Requeue
    /\ UNCHANGED <<cache, timer, outside, elapsed>>

AddFinalizer ==
    /\ pc = "addFinalizer"
    /\ \/ /\ Fresh /\ NoFault /\ Requeue
          /\ Commit([cr EXCEPT !.fin = TRUE, !.rv = cr.rv + 1])
       \/ WriteFails([cr EXCEPT !.fin = TRUE, !.rv = cr.rv + 1])
    /\ UNCHANGED <<cache, timer, outside, elapsed>>

MarkCreating ==
    Write("markCreating", WithPhase(cr, "Creating", cr.exp), "createClone")

(* A clone that is already there is taken as the one asked for.            *)
CloneFor(u) == IF clone = 0 THEN u ELSE clone

GiveUp(op) == LateRequests /\ late' = late \cup {[op |-> op, uid |-> obj.uid]}

CreateClone ==
    /\ pc = "createClone"
    /\ \/ clone' = CloneFor(obj.uid) /\ NoFault /\ Goto("start")
          /\ UNCHANGED late
       \/ clone' \in {clone, CloneFor(obj.uid)} /\ Fault /\ Goto("setError")
          /\ UNCHANGED late
       \/ GiveUp("create") /\ Fault /\ Goto("setError") /\ UNCHANGED clone
    /\ UNCHANGED <<server, cache, timer, db, elapsed>>

(* Objects that are already there are taken as the ones asked for.         *)
ObjectsFor(u) == IF db = 0 THEN u ELSE db

(* Variant: the error of Start is not looked at.                           *)
Start_ErrorIgnored ==
    /\ pc = "start"
    /\ \/ db' = ObjectsFor(obj.uid) /\ NoFault
       \/ db' \in {db, ObjectsFor(obj.uid)} /\ Fault
    /\ Goto("markReady")
    /\ UNCHANGED <<server, cache, timer, clone, late, elapsed>>

Start ==
    /\ pc = "start"
    /\ \/ db' = ObjectsFor(obj.uid) /\ NoFault /\ Goto("markReady")
       \/ db' \in {db, ObjectsFor(obj.uid)} /\ Fault /\ Goto("setError")
    /\ UNCHANGED <<server, cache, timer, clone, late, elapsed>>

MarkReady ==
    /\ pc = "markReady"
    /\ \/ /\ Fresh /\ NoFault /\ Return
          /\ Commit(WithPhase(cr, "Ready", cr.ttl))
          /\ timer' = TRUE
       \/ WriteFails(WithPhase(cr, "Ready", cr.ttl))
          /\ UNCHANGED timer
    /\ UNCHANGED <<cache, outside, elapsed>>

(* Variant: the clone goes before the database that runs on it.            *)
MarkDeleting_CloneFirst ==
    Write("markDeleting", WithPhase(cr, "Deleting", cr.exp), "deleteClone")

MarkDeleting ==
    Write("markDeleting", WithPhase(cr, "Deleting", cr.exp), "stop")

(* Stop answers nil whatever its five Deletes did.                         *)
Stop ==
    /\ pc = "stop"
    /\ \/ db' = 0 /\ NoFault
       \/ StopErrors /\ Fault /\ UNCHANGED db
    /\ Goto("deleteClone")
    /\ UNCHANGED <<server, cache, timer, clone, late, elapsed>>

(* 404 counts as success.                                                  *)
DeleteClone ==
    /\ pc = "deleteClone"
    /\ \/ clone' = 0 /\ NoFault /\ Goto("removeFinalizer") /\ UNCHANGED late
       \/ clone' \in {clone, 0} /\ Fault /\ Goto("setError")
          /\ UNCHANGED late
       \/ GiveUp("delete") /\ Fault /\ Goto("setError") /\ UNCHANGED clone
    /\ UNCHANGED <<server, cache, timer, db, elapsed>>

Unprotected(v) == Settle([v EXCEPT !.fin = FALSE, !.rv = v.rv + 1])

RemoveFinalizer ==
    /\ pc = "removeFinalizer"
    /\ \/ Fresh /\ NoFault /\ Return /\ Commit(Unprotected(cr))
       \/ WriteFails(Unprotected(cr))
    /\ UNCHANGED <<cache, timer, outside, elapsed>>

(* Variant: setError answers nil.                                          *)
SetError_Swallowed ==
    /\ pc = "setError"
    /\ Return
    /\ \/ Fresh /\ NoFault /\ Commit(WithPhase(cr, "Error", cr.exp))
       \/ ~Fresh /\ NoFault /\ UNCHANGED server
       \/ Fault /\ UNCHANGED server
    /\ UNCHANGED <<cache, timer, outside, elapsed>>

(* The status write of setError is best effort: its failure is ignored.    *)
SetError ==
    /\ pc = "setError"
    /\ Requeue
    /\ \/ Fresh /\ NoFault /\ Commit(WithPhase(cr, "Error", cr.exp))
       \/ ~Fresh /\ NoFault /\ UNCHANGED server
       \/ Fault /\ UNCHANGED server
    /\ UNCHANGED <<cache, timer, outside, elapsed>>

-----------------------------------------------------------------------------
(* The agent executes a call its caller no longer waits for.               *)
LateCall ==
    /\ \E c \in late :
         /\ clone' = IF c.op = "create" THEN CloneFor(c.uid) ELSE 0
         /\ late' = late \ {c}
    /\ UNCHANGED <<server, cache, queue, timer, worker, db, elapsed, faults>>

(* The operator dies between two calls, or in one, and its successor lists *)
(* the resource afresh.                                                    *)
Crash ==
    /\ Fault
    /\ pc' = "idle" /\ obj' = Blank
    /\ cache' = cr /\ versions' = {cr}
    /\ queue' = cr.live /\ timer' = FALSE
    /\ \/ UNCHANGED late
       \/ pc = "createClone" /\ GiveUp("create")
       \/ pc = "deleteClone" /\ GiveUp("delete")
    /\ UNCHANGED <<cr, clone, db, elapsed>>

-----------------------------------------------------------------------------
Reconcile ==
    \/ ReconcileNothing \/ ReconcileDeletion \/ ReconcileExpired
    \/ ReconcileUnprotected \/ ReconcileReady \/ ReconcileCreation
    \/ DeleteExpired \/ AddFinalizer
    \/ MarkCreating \/ CreateClone \/ Start \/ MarkReady
    \/ MarkDeleting \/ Stop \/ DeleteClone \/ RemoveFinalizer
    \/ SetError

Environment ==
    \/ UserCreate \/ UserDelete \/ OtherFinalizerRemoved \/ Elapse
    \/ Deliver \/ TimerFires \/ LateCall \/ Crash

Next == Reconcile \/ Environment

Spec == Init /\ [][Next]_vars

(* The operator runs, the watch delivers and pending timers fire. Nothing  *)
(* is assumed of users, of the clock or of other finalizers.               *)
Fairness == WF_vars(Reconcile) /\ WF_vars(Deliver) /\ WF_vars(TimerFires)

FairSpec == Spec /\ Fairness

-----------------------------------------------------------------------------
(* Properties.                                                             *)

TypeOK ==
    /\ cr \in Version /\ cache \in Version /\ obj \in Version
    /\ versions \subseteq Version
    /\ queue \in BOOLEAN /\ timer \in BOOLEAN
    /\ pc \in {"idle", "expire", "addFinalizer", "markCreating",
               "createClone", "start", "markReady", "markDeleting", "stop",
               "deleteClone", "removeFinalizer", "setError"}
    /\ clone \in 0..MaxUid /\ db \in 0..MaxUid
    /\ elapsed \subseteq 0..MaxUid
    /\ late \subseteq [op : {"create", "delete"}, uid : 0..MaxUid]
    /\ faults \in 0..MaxFaults

(* The finalizer guarantees the cleanup: whatever was retried, whatever    *)
(* reply was lost and wherever the operator crashed, a name whose resource *)
(* is gone, or no longer carries the finalizer, has neither a ZFS clone    *)
(* nor Kubernetes objects (Reconcile adds the finalizer before any side    *)
(* effect, handleDeletion removes it after the last).                      *)
CleanupGuaranteed ==
    ~(cr.live /\ cr.fin) => clone = 0 /\ db = 0

(* A Ready branch is served by the clone and the objects made for itself,  *)
(* never by what an earlier branch of the same name left (AlreadyExists    *)
(* and "dataset already exists" count as success), and expires iff its     *)
(* spec has a TTL.                                                         *)
ReadyIsBacked ==
    cr.live /\ cr.phase = "Ready" =>
        clone = cr.uid /\ db = cr.uid /\ cr.exp = cr.ttl

(* No lost wakeup: when nothing is running, queued or on its way from the  *)
(* watch, the cache is current and the branch is gone, or waits for        *)
(* somebody else's finalizer, or is Ready with its TTL check scheduled.    *)
(* The TTL deletion returns Result{} and relies on the watch for this.     *)
NoLostWakeup ==
    pc = "idle" /\ ~queue /\ (\A v \in versions : v.rv <= cache.rv) =>
        /\ cache = cr
        /\ \/ ~cr.live
           \/ cr.del /\ ~cr.fin
           \/ ~cr.del /\ cr.fin /\ cr.phase = "Ready" /\ timer

(* The unconditional r.Delete of the TTL check, decided on a cached copy,  *)
(* only ever hits the branch whose own TTL has passed, never a successor   *)
(* of the same name.                                                       *)
ExpiryHitsTheExpired ==
    [][pc = "expire" /\ cr' # cr /\ pc' = "idle" =>
         cr.phase = "Ready" /\ cr.uid \in elapsed]_vars

(* A branch that became Ready stays Ready until its deletion is asked for: *)
(* no stale read makes Reconcile run the creation flow again on it.        *)
ReadyUntilDeleted ==
    [][cr.live /\ ~cr.del /\ cr.phase = "Ready" /\ cr'.uid = cr.uid =>
         cr'.phase = "Ready" \/ cr'.del \/ ~cr'.live]_vars

Stage ==
    IF ~cr.live THEN "absent"
    ELSE IF cr.del THEN "retiring"
    ELSE CASE cr.phase = "" -> "new"
           [] cr.phase = "Creating" -> "provisioning"
           [] cr.phase = "Error" -> "failed"
           [] OTHER -> "ready"

Lifecycle == INSTANCE BranchLifecycle
    WITH life <- [stage |-> Stage, id |-> cr.uid],
         volume <- clone, database <- db

(* The operator implements the life cycle: in particular clone and objects *)
(* are released only once deletion was asked for, in the order Stop, then  *)
(* DeleteClone, and acquired only for the incarnation that exists.         *)
ImplementsLifecycle == Lifecycle!LSpec

FleetStage ==
    IF ~cr.live THEN "absent"
    ELSE IF cr.del THEN IF cr.fin THEN "deleting" ELSE "released"
    ELSE IF ~cr.fin THEN "new"
    ELSE IF cr.phase = "Ready" THEN "ready" ELSE "creating"

FleetWorker ==
    CASE pc = "createClone" -> "creating"
      [] pc \in {"start", "markReady"} -> "created"
      [] pc = "removeFinalizer" -> "deleted"
      [] OTHER -> "idle"

name == "branch"

Fleet == INSTANCE BranchFleet
    WITH Names <- {name}, Orphans <- {}, MaxUid <- MaxUid,
         Reused <- {name}, Shared <- {name},
         stage <- [n \in {name} |-> FleetStage],
         uid <- [n \in {name} |-> cr.uid],
         worker <- [n \in {name} |-> FleetWorker],
         clones <- {n \in {name} : clone # 0}

(* The operator moves a branch as BranchFleet says, which CloneGC sets the *)
(* maintenance calls against: whatever it has read and however stale, it   *)
(* makes a clone only for a protected branch that was not deleted when the *)
(* creation began, makes it Ready after that, destroys clones of deleted   *)
(* branches only, and removes the finalizer after that.                    *)
ImplementsFleet == Fleet!FleetSpec

(* A deletion is carried out: the finalizer of a deleting branch goes away *)
(* once faults stop ("If the Operator stops while the finalizer remains,   *)
(* Reconcile resumes after it restarts").                                  *)
DeletionCompletes == cr.del /\ cr.fin ~> ~(cr.del /\ cr.fin)

(* A branch nobody deletes becomes Ready: transient errors and conflicts   *)
(* recover on their own.                                                   *)
CreationCompletes ==
    cr.live /\ ~cr.del /\ cr.phase # "Ready" ~>
        cr.phase = "Ready" \/ cr.del \/ ~cr.live

(* A Ready branch whose TTL has passed is deleted, whether its check was   *)
(* pending, lost in a crash, or failed.                                    *)
ExpiryHonoured ==
    cr.live /\ ~cr.del /\ cr.uid \in elapsed ~> cr.del \/ ~cr.live

=============================================================================
