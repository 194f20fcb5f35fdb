-------------------------- MODULE BranchLifecycle --------------------------
(***************************************************************************)
(* What the operator promises about one DatabaseBranch name, with no word  *)
(* of caches, retries or crashes: the life of a branch is the state        *)
(* diagram of the operator, and the resources behind it (the ZFS clone and *)
(* the Kubernetes objects of its database) are held only while the branch  *)
(* exists, are complete while it is Ready, and are given up only after its *)
(* deletion was asked for.                                                 *)
(***************************************************************************)
EXTENDS Naturals

VARIABLES
    life,      \* where the current incarnation of the name is
    volume,    \* the incarnation the clone was made for, 0 when there is none
    database   \* the incarnation the objects were made for, 0 when none

lvars == <<life, volume, database>>

Stages == {"absent", "new", "provisioning", "failed", "ready", "retiring"}

LInit == /\ life = [stage |-> "absent", id |-> 0]
         /\ volume = 0
         /\ database = 0

To(s) == life' = [life EXCEPT !.stage = s]

(* A name can be taken again only once nothing of its last bearer is left. *)
LCreate == /\ life.stage = "absent"
           /\ volume = 0 /\ database = 0
           /\ life' = [stage |-> "new", id |-> life.id + 1]
           /\ UNCHANGED <<volume, database>>

LProvision == /\ life.stage \in {"new", "failed"}
              /\ To("provisioning")
              /\ UNCHANGED <<volume, database>>

(* A creation under way when the deletion is asked for may still finish.   *)
LAcquireVolume == /\ life.stage \in {"provisioning", "retiring"}
                  /\ volume = 0
                  /\ volume' = life.id
                  /\ UNCHANGED <<life, database>>

LAcquireDatabase == /\ life.stage \in {"provisioning", "retiring"}
                    /\ database = 0
                    /\ volume = life.id
                    /\ database' = life.id
                    /\ UNCHANGED <<life, volume>>

LFail == /\ life.stage = "provisioning"
         /\ To("failed")
         /\ UNCHANGED <<volume, database>>

LServe == /\ life.stage = "provisioning"
          /\ volume = life.id /\ database = life.id
          /\ To("ready")
          /\ UNCHANGED <<volume, database>>

LRetire == /\ life.stage \in {"new", "provisioning", "failed", "ready"}
           /\ To("retiring")
           /\ UNCHANGED <<volume, database>>

LReleaseDatabase == /\ life.stage = "retiring"
                    /\ database # 0
                    /\ database' = 0
                    /\ UNCHANGED <<life, volume>>

LReleaseVolume == /\ life.stage = "retiring"
                  /\ volume # 0 /\ database = 0
                  /\ volume' = 0
                  /\ UNCHANGED <<life, database>>

(* The name disappears last. A branch nothing was done for goes at once.   *)
LForget == /\ life.stage \in {"new", "retiring"}
           /\ volume = 0 /\ database = 0
           /\ To("absent")
           /\ UNCHANGED <<volume, database>>

LNext == \/ LCreate \/ LProvision \/ LAcquireVolume \/ LAcquireDatabase
         \/ LFail \/ LServe \/ LRetire
         \/ LReleaseDatabase \/ LReleaseVolume \/ LForget

LSpec == LInit /\ [][LNext]_lvars
=============================================================================
