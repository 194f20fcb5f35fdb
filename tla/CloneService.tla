----------------------------- MODULE CloneService -----------------------------
(***************************************************************************)
(* What the ZFS agent promises the operator about the clone of one name,   *)
(* with no word of commands, requests and restarts: each CreateClone and   *)
(* each DeleteClone happens at once or not at all, one that fails may have *)
(* happened nevertheless, and none undoes what an earlier one has done.    *)
(* BranchOperator takes the agent for such a service.                      *)
(***************************************************************************)
CONSTANTS Datasets, OtherTypes

VARIABLES
    branch,   \* the branch as its reconciler sees it
    type,     \* spec.databaseType
    volumes   \* the datasets that hold a clone of the name

service == <<branch, type, volumes>>

(* Where the clone of a type may be.                                       *)
Places == IF type \in Datasets THEN {type} ELSE Datasets

SInit == branch = "absent" /\ type \in Datasets \cup OtherTypes /\ volumes = {}

SCreateBranch ==
    /\ branch = "absent" /\ branch' = "creating"
    /\ type' \in Datasets \cup OtherTypes
    /\ UNCHANGED volumes

SDeleteBranch ==
    /\ branch \in {"creating", "created"} /\ branch' = "deleting"
    /\ UNCHANGED <<type, volumes>>

Take == \E d \in Places : volumes' = volumes \cup {d}
Drop == \E d \in Places : volumes' = volumes \ {d}

SCreate ==
    /\ branch = "creating" /\ branch' = "created"
    /\ Take /\ UNCHANGED type

(* A deletion that came first makes a success a failure.                   *)
SCreateFails ==
    /\ branch \in {"creating", "deleting"} /\ UNCHANGED branch
    /\ Take /\ UNCHANGED type

SDelete ==
    /\ branch = "deleting" /\ branch' = "absent"
    /\ Drop /\ UNCHANGED type

SDeleteFails ==
    /\ branch = "deleting" /\ UNCHANGED branch
    /\ Drop /\ UNCHANGED type

SNext == \/ SCreateBranch \/ SDeleteBranch
         \/ SCreate \/ SCreateFails \/ SDelete \/ SDeleteFails

SSpec == SInit /\ [][SNext]_service
=============================================================================
