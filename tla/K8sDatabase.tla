----------------------------- MODULE K8sDatabase -----------------------------
(***************************************************************************)
(* k8sdatabase.Provider: the Kubernetes objects behind one branch name.    *)
(* Start creates them one after the other and takes AlreadyExists for      *)
(* success; Stop deletes them in the opposite order and ignores errors.    *)
(* BranchOperator has both as single steps; here each call to the API      *)
(* server is one, and deletion is what Kubernetes makes of it: an object   *)
(* stays, terminating, until its pod has stopped or its protection ends.   *)
(* The reconciler around them is reduced to the order of its calls.        *)
(***************************************************************************)
EXTENDS Naturals, Sequences

CONSTANTS
    MaxUid,     \* bound: how many times the name is created
    MaxFaults   \* bound: calls that fail

ASSUME DatabaseAssumption ==
    /\ MaxUid \in Nat /\ MaxFaults \in Nat

StartOrder == <<"pv", "pvc", "cm", "pod", "svc">>
StopOrder == <<"svc", "pod", "cm", "pvc", "pv">>
Kinds == {"pv", "pvc", "cm", "pod", "svc"}

VARIABLES
    obj,      \* obj[k]: the object of kind k: its state and its owner
    cached,   \* the owner of the Service the informer holds, or 0
    branch,   \* the DatabaseBranch: "absent", "creating", "ready", "deleting"
    uid,      \* its incarnation, or that of the last one
    dbType,   \* its database type, as far as Start tells types apart
    call,     \* the call the reconciler is in: "none", "start" or "stop"
    step,     \* the next object of that call
    port,     \* whose NodePort is in status.externalPort
    missed,   \* history: kinds whose Delete failed in the last Stop
    faults    \* how many faults have happened (bounded by MaxFaults)

cluster == <<obj, cached>>
resource == <<branch, uid, dbType, port>>
vars == <<obj, cached, branch, uid, dbType, call, step, port, missed, faults>>

None == [state |-> "absent", owner |-> 0]

(* builtinConfigs: with an extraConfig (mysql), without, or no entry.      *)
DbTypes == {"configured", "plain", "unsupported"}

Needed == IF dbType = "configured" THEN Kinds ELSE Kinds \ {"cm"}

Init == /\ obj = [k \in Kinds |-> None] /\ cached = 0
        /\ branch = "absent" /\ uid = 0 /\ dbType = "plain" /\ port = 0
        /\ call = "none" /\ step = 1
        /\ missed = {} /\ faults = 0

Fault == faults < MaxFaults /\ faults' = faults + 1

Exists(k) == obj[k].state # "absent"

(* The informer follows at once, or later (CacheCatchesUp).                *)
Put(k, o) ==
    /\ obj' = [obj EXCEPT ![k] = o]
    /\ cached' \in IF k # "svc" THEN {cached}
                   ELSE {o.owner, cached}

-----------------------------------------------------------------------------
(* The resource, and the reconciler's calls.                               *)

CreateBranch ==
    /\ branch = "absent" /\ uid < MaxUid
    /\ branch' = "creating" /\ uid' = uid + 1 /\ port' = 0
    /\ dbType' \in DbTypes
    /\ UNCHANGED <<cluster, call, step, missed, faults>>

DeleteBranch ==
    /\ branch \in {"creating", "ready"}
    /\ branch' = "deleting"
    /\ UNCHANGED <<cluster, uid, dbType, port, call, step, missed, faults>>

(* Variant: a Start that was given up is not called again.                 *)
BeginStart_Once ==
    /\ branch = "creating" /\ call = "none" /\ ~Exists("pv")
    /\ call' = "start" /\ step' = 1
    /\ UNCHANGED <<cluster, resource, missed, faults>>

(* A type Start does not know is an error before anything is created.      *)
BeginStart ==
    /\ branch = "creating" /\ call = "none" /\ dbType # "unsupported"
    /\ call' = "start" /\ step' = 1
    /\ UNCHANGED <<cluster, resource, missed, faults>>

BeginStop ==
    /\ branch = "deleting" /\ call = "none"
    /\ call' = "stop" /\ step' = 1 /\ missed' = {}
    /\ UNCHANGED <<cluster, resource, faults>>

(* The operator crashes, or Start fails: Start is called again later.      *)
GiveUp == /\ Fault /\ call # "none"
          /\ call' = "none" /\ step' = 1
          /\ UNCHANGED <<cluster, resource, missed>>

-----------------------------------------------------------------------------
(* Start.                                                                  *)

Advance == step' = step + 1 /\ UNCHANGED <<resource, call, missed>>

At(c, k) == call = c /\ step <= 5 /\
            k = IF c = "start" THEN StartOrder[step] ELSE StopOrder[step]

(* createPV, createPVC, createConfigMap, createPod, createService.         *)
CreateObject ==
    \E k \in Kinds :
      /\ At("start", k) /\ Advance /\ UNCHANGED faults
      /\ IF Exists(k) \/ k \notin Needed
         THEN UNCHANGED cluster
         ELSE Put(k, [state |-> "live", owner |-> uid])

(* The create is made and its answer lost.                                 *)
CreateUnanswered ==
    \E k \in Kinds :
      /\ At("start", k) /\ k \in Needed /\ ~Exists(k) /\ Fault
      /\ Put(k, [state |-> "live", owner |-> uid])
      /\ call' = "none" /\ step' = 1
      /\ UNCHANGED <<resource, missed>>

(* Variant: the answer of Get is not looked at.                            *)
GetNodePort_Unchecked ==
    /\ call = "start" /\ step = 6
    /\ call' = "none" /\ step' = 1 /\ port' = cached
    /\ branch' = IF branch = "creating" THEN "ready" ELSE branch
    /\ UNCHANGED <<cluster, uid, dbType, missed, faults>>

(* Get reads the cache; Start fails when it knows of no Service. Then the  *)
(* status is written, unless a deletion came first.                        *)
GetNodePort ==
    /\ call = "start" /\ step = 6
    /\ call' = "none" /\ step' = 1
    /\ IF cached # 0 /\ branch = "creating"
       THEN branch' = "ready" /\ port' = cached
       ELSE UNCHANGED <<branch, port>>
    /\ UNCHANGED <<cluster, uid, dbType, missed, faults>>

-----------------------------------------------------------------------------
(* Stop.                                                                   *)

(* Variant: the pod is left to the deletion of its volume.                 *)
DeleteObject_NotThePod ==
    \E k \in Kinds :
      /\ At("stop", k) /\ Advance /\ UNCHANGED faults
      /\ IF obj[k].state # "live" \/ k = "pod" THEN UNCHANGED cluster
         ELSE \/ Put(k, None)
              \/ Put(k, [obj[k] EXCEPT !.state = "terminating"])

(* Variant: an object that is not found ends the loop.                     *)
DeleteObject_UntilNotFound ==
    \E k \in Kinds :
      /\ At("stop", k) /\ UNCHANGED <<resource, call, missed, faults>>
      /\ IF Exists(k) THEN step' = step + 1 /\ Put(k, None)
                      ELSE step' = 6 /\ UNCHANGED cluster

DeleteObject ==
    \E k \in Kinds :
      /\ At("stop", k) /\ Advance /\ UNCHANGED faults
      /\ IF obj[k].state # "live" THEN UNCHANGED cluster
         ELSE \/ Put(k, None)
              \/ Put(k, [obj[k] EXCEPT !.state = "terminating"])

(* The error of a Delete is ignored.                                       *)
DeleteFails ==
    \E k \in Kinds :
      /\ At("stop", k) /\ obj[k].state = "live" /\ Fault
      /\ step' = step + 1 /\ missed' = missed \cup {k}
      /\ UNCHANGED <<cluster, resource, call>>

(* Stop answers nil; clone deleted, the finalizer is removed.              *)
StopDone ==
    /\ call = "stop" /\ step = 6
    /\ call' = "none" /\ step' = 1 /\ branch' = "absent"
    /\ UNCHANGED <<cluster, uid, dbType, port, missed, faults>>

-----------------------------------------------------------------------------
(* Kubernetes: a terminating claim waits for the pod that mounts it, a     *)
(* terminating volume for the claim bound to it.                           *)
Vanish ==
    \E k \in Kinds :
      /\ obj[k].state = "terminating"
      /\ k = "pvc" => ~Exists("pod")
      /\ k = "pv" => ~Exists("pvc")
      /\ Put(k, None)
      /\ UNCHANGED <<resource, call, step, missed, faults>>

CacheCatchesUp ==
    /\ cached # obj["svc"].owner /\ cached' = obj["svc"].owner
    /\ UNCHANGED <<obj, resource, call, step, missed, faults>>

Provider == \/ BeginStart \/ CreateObject \/ GetNodePort
            \/ BeginStop \/ DeleteObject \/ StopDone

Next == \/ CreateBranch \/ DeleteBranch \/ GiveUp
        \/ CreateUnanswered \/ DeleteFails \/ Provider
        \/ Vanish \/ CacheCatchesUp

Spec == Init /\ [][Next]_vars

(* The reconciler retries, and Kubernetes carries deletions out.           *)
FairSpec == Spec /\ WF_vars(Provider) /\ WF_vars(Vanish)
                 /\ WF_vars(CacheCatchesUp)

-----------------------------------------------------------------------------
TypeOK ==
    /\ obj \in [Kinds -> [state : {"absent", "live", "terminating"},
                          owner : 0..MaxUid]]
    /\ cached \in 0..MaxUid /\ port \in 0..MaxUid /\ uid \in 0..MaxUid
    /\ branch \in {"absent", "creating", "ready", "deleting"}
    /\ dbType \in DbTypes
    /\ call \in {"none", "start", "stop"} /\ step \in 1..6
    /\ missed \subseteq Kinds /\ faults \in 0..MaxFaults

Served == \A k \in Needed : obj[k] = [state |-> "live", owner |-> uid]

(* The first branch of a name is Ready with all of its objects and its own *)
(* port, wherever Start failed or lost an answer and was called again.     *)
StartIsComplete == branch = "ready" /\ uid = 1 => Served /\ port = uid

(* A Ready branch is connectable: its objects exist, are its own and are   *)
(* not on their way out (the phase Ready in the description of the CRD).   *)
ReadyIsServed == branch = "ready" => Served

(* A Ready branch has taken over for good an object of an earlier branch   *)
(* of its name only if the Delete of that object had failed, although      *)
(* AlreadyExists counts as success (a terminating one goes away yet).      *)
StaleOnlyIfMissed ==
    branch = "ready" => \A k \in Kinds :
        obj[k].state = "live" => obj[k].owner = uid \/ k \in missed

(* When the finalizer is gone, no object is left that nobody has asked to  *)
(* delete, except where the Delete itself failed.                          *)
StopReachesAll ==
    branch = "absent" => \A k \in Kinds : obj[k].state = "live" => k \in missed

(* What Stop has asked for happens: the objects of a deleted branch go     *)
(* away, or its name is used again, or a Delete failed.                    *)
ObjectsGoAway ==
    branch = "absent" ~>
        \/ \A k \in Kinds : ~Exists(k)
        \/ branch # "absent" \/ missed # {}

(* A branch of a supported type becomes Ready, although the port is read   *)
(* from a cache that may not have the Service yet.                         *)
StartCompletes ==
    branch = "creating" /\ dbType # "unsupported" ~> branch # "creating"
=============================================================================
