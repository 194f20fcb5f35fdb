----------------------------- MODULE BranchFleet -----------------------------
(***************************************************************************)
(* The branches of one dataset as the maintenance calls of the API server  *)
(* see them: a DatabaseBranch and perhaps a ZFS clone per name, moved by   *)
(* users and by the operator. What BranchOperator does to one name is a    *)
(* behaviour of this fleet (ImplementsFleet there): its caches, conflicts, *)
(* objects and retries are left out, the steps that create and remove      *)
(* resources and clones, and what fails between them, remain.              *)
(***************************************************************************)
EXTENDS Naturals, FiniteSets

CONSTANTS
    Names,      \* names of branches
    Orphans,    \* the names with a clone left over from before
    MaxUid,     \* bound: how many times a name is created
    Reused,     \* bound: the names created more than once
    Shared      \* bound: the names whose branches may carry the finalizer
                \* of somebody else

VARIABLES
    stage,    \* stage[n]: the DatabaseBranch of name n
    uid,      \* uid[n]: its incarnation, or that of the last one
    worker,   \* worker[n]: where the operator's reconcile of n is
    clones    \* the names that have a ZFS clone

fleet == <<stage, uid, worker, clones>>

(* Without the finalizer ("new"), with it, Ready, being deleted, and being *)
(* deleted but for the finalizer of somebody else ("released").            *)
Stages == {"absent", "new", "creating", "ready", "deleting", "released"}

Workers == {"idle", "creating", "created", "deleted"}

Live(n) == stage[n] \in {"new", "creating", "ready"}

(* A clone the cleanup of its branch has missed (see BranchOperator).      *)
Orphan(n) == n \in clones /\ stage[n] = "absent" /\ worker[n] = "idle"

FleetInit ==
    /\ stage = [n \in Names |-> "absent"]
    /\ uid = [n \in Names |-> 0]
    /\ worker = [n \in Names |-> "idle"]
    /\ clones = Orphans

Work(n, from, to) == worker[n] = from /\ worker' = [worker EXCEPT ![n] = to]

Stage(n, s) == stage' = [stage EXCEPT ![n] = s]

-----------------------------------------------------------------------------
UserCreate(n) ==
    /\ stage[n] = "absent" /\ uid[n] < MaxUid
    /\ uid[n] > 0 => n \in Reused
    /\ Stage(n, "new")
    /\ uid' = [uid EXCEPT ![n] = uid[n] + 1]
    /\ UNCHANGED <<worker, clones>>

(* Without the operator's finalizer a deleted branch is gone, unless it    *)
(* carries another.                                                        *)
Gone(n) == {"absent"} \cup (IF n \in Shared THEN {"released"} ELSE {})

(* DELETE of a branch the operator has come to, or has not come to yet.    *)
StagesDeleted(n) == IF stage[n] = "new" THEN Gone(n) ELSE {"deleting"}

(* By a user, or by the TTL check of the operator.                         *)
Delete(n) ==
    /\ Live(n)
    /\ \E s \in StagesDeleted(n) : Stage(n, s)
    /\ UNCHANGED <<uid, worker, clones>>

Release(n) ==
    /\ stage[n] = "released" /\ Stage(n, "absent")
    /\ UNCHANGED <<uid, worker, clones>>

-----------------------------------------------------------------------------
(* The finalizer comes first.                                              *)
Protect(n) ==
    /\ stage[n] = "new" /\ worker[n] = "idle" /\ Stage(n, "creating")
    /\ UNCHANGED <<uid, worker, clones>>

(* Phase Creating is written: from here on the operator acts.              *)
BeginCreation(n) ==
    /\ stage[n] = "creating" /\ Work(n, "idle", "creating")
    /\ UNCHANGED <<stage, uid, clones>>

(* A clone that is already there is taken as the one asked for. A call     *)
(* that fails may have made it.                                            *)
CreateClone(n) ==
    /\ \/ Work(n, "creating", "created")
       \/ Work(n, "creating", "idle")
    /\ clones' = clones \cup {n}
    /\ UNCHANGED <<stage, uid>>

(* Not of a branch whose deletion came first: that write conflicts.        *)
MarkReady(n) ==
    /\ stage[n] = "creating" /\ Stage(n, "ready")
    /\ Work(n, "created", "idle")
    /\ UNCHANGED <<uid, clones>>

(* An error, a conflict or a crash: the next reconcile begins anew.        *)
Abandon(n) ==
    /\ worker[n] # "idle" /\ worker' = [worker EXCEPT ![n] = "idle"]
    /\ UNCHANGED <<stage, uid, clones>>

(* Not found counts as success.                                            *)
DeleteClone(n) ==
    /\ stage[n] = "deleting"
    /\ \/ Work(n, "idle", "deleted")
       \/ worker[n] = "idle" /\ UNCHANGED worker
    /\ clones' = clones \ {n}
    /\ UNCHANGED <<stage, uid>>

RemoveFinalizer(n) ==
    /\ Work(n, "deleted", "idle")
    /\ \E s \in Gone(n) : Stage(n, s)
    /\ UNCHANGED <<uid, clones>>

Operator(n) == \/ Protect(n) \/ BeginCreation(n) \/ CreateClone(n) \/ MarkReady(n)
               \/ Abandon(n) \/ DeleteClone(n) \/ RemoveFinalizer(n)

FleetNext ==
    \E n \in Names : UserCreate(n) \/ Delete(n) \/ Release(n) \/ Operator(n)

FleetSpec == FleetInit /\ [][FleetNext]_fleet

FleetTypeOK ==
    /\ stage \in [Names -> Stages]
    /\ uid \in [Names -> 0..MaxUid]
    /\ worker \in [Names -> Workers]
    /\ clones \subseteq Names
=============================================================================
