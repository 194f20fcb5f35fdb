---------------------------- MODULE AgentClones ----------------------------
(***************************************************************************)
(* The clone of one branch name between the operator and ZFS: the client   *)
(* (zfsagent.Provider) and its timeout, the choice of the dataset          *)
(* (pickProvider) and the commands of AgentProvider.CreateClone with its   *)
(* rollback. BranchOperator has a call of the agent as one step. Stopping  *)
(* nfsd inside DeleteClone is NfsRelease; here a deletion is one step.     *)
(* Every command and every call may fail, at any time and any number of    *)
(* times.                                                                  *)
(***************************************************************************)
EXTENDS FiniteSets

CONSTANTS
    Datasets,   \* the database types the agent has a dataset for
    OtherTypes  \* the database types it has none for

ASSUME AgentAssumption ==
    Datasets # {} /\ Datasets \cap OtherTypes = {}

VARIABLES
    branch,   \* the branch as its reconciler sees it
    type,     \* spec.databaseType
    default,  \* defaultType of the running agent
    exports,  \* the datasets whose sharenfs is on
    clones,   \* the datasets with a clone of the name
    command,  \* the next command of the request under way, or "idle"
    dataset,  \* the dataset it has picked
    fresh     \* its zfs clone has made the clone

host == <<exports, clones>>
agent == <<command, dataset, fresh>>
agentVars == <<branch, type, default, exports, clones, command, dataset,
               fresh>>

Types == Datasets \cup OtherTypes

(* A type without a dataset goes where no type at all goes.                *)
pickProvider(t) == IF t \in Datasets THEN t ELSE default

AgentInit ==
    /\ branch = "absent" /\ type \in Types
    /\ default \in Datasets /\ exports \in SUBSET Datasets
    /\ clones = {}
    /\ command = "idle" /\ dataset = default /\ fresh = FALSE

-----------------------------------------------------------------------------
(* The resource.                                                           *)

CreateBranch ==
    /\ branch = "absent" /\ branch' = "creating" /\ type' \in Types
    /\ UNCHANGED <<default, host, agent>>

DeleteBranch ==
    /\ branch \in {"creating", "created"} /\ branch' = "deleting"
    /\ UNCHANGED <<type, default, host, agent>>

-----------------------------------------------------------------------------
(* The client. The operator has one call under way per name.               *)

Call(phase, first) ==
    /\ branch = phase /\ command = "idle" /\ command' = first
    /\ dataset' = pickProvider(type) /\ fresh' = FALSE
    /\ UNCHANGED <<branch, type, default, host>>

CallCreate == Call("creating", "clone")
CallDelete == Call("deleting", "destroy")

(* 30 seconds, or a crash of the operator: the context of the request is   *)
(* cancelled, and no further command is started, that of the rollback not  *)
(* either. (BranchOperator has calls that outlive their client.)           *)
GiveUp ==
    /\ command # "idle" /\ command' = "idle"
    /\ UNCHANGED <<branch, type, default, host, dataset, fresh>>

GoOn(to) == command' = to /\ UNCHANGED branch

Answer(phase) == command' = "idle" /\ branch' = phase

(* A deletion may have come first: then the answer is of no use.           *)
Created == Answer(IF branch = "creating" THEN "created" ELSE branch)
Error == Answer(branch)

-----------------------------------------------------------------------------
(* CreateClone.                                                            *)

(* Variant: a clone that exists is taken to be exported already.           *)
Clone_ExistsIsDone ==
    /\ command = "clone"
    /\ \/ /\ dataset \notin clones /\ GoOn("share")
          /\ clones' = clones \cup {dataset} /\ fresh' = TRUE
       \/ /\ dataset \in clones /\ Created
          /\ UNCHANGED <<clones, fresh>>
       \/ Error /\ UNCHANGED <<clones, fresh>>
    /\ UNCHANGED <<type, default, exports, dataset>>

(* zfs clone; "dataset already exists" is as good. A command that fails or *)
(* is killed may have made the clone.                                      *)
Clone ==
    /\ command = "clone"
    /\ \/ /\ GoOn("share")
          /\ clones' = clones \cup {dataset}
          /\ fresh' = (dataset \notin clones)
       \/ /\ clones' \in {clones, clones \cup {dataset}}
          /\ Error /\ UNCHANGED fresh
    /\ UNCHANGED <<type, default, exports, dataset>>

(* zfs share: an error also when it is shared already, as it normally is.  *)
Share ==
    /\ command = "share"
    /\ \/ dataset \in clones \cap exports /\ Created
       \/ GoOn("getSharenfs")
    /\ UNCHANGED <<type, default, host, dataset, fresh>>

(* Variant: a clone that was there is rolled back as well.                 *)
GetSharenfs_RollsBackAny ==
    /\ command = "getSharenfs"
    /\ \/ dataset \in clones \cap exports /\ Created
       \/ GoOn("rollback")
    /\ UNCHANGED <<type, default, host, dataset, fresh>>

(* zfs get sharenfs: not off is taken for shared, whatever the error was.  *)
GetSharenfs ==
    /\ command = "getSharenfs"
    /\ \/ dataset \in clones \cap exports /\ Created
       \/ fresh /\ GoOn("rollback")
       \/ ~fresh /\ Error
    /\ UNCHANGED <<type, default, host, dataset, fresh>>

(* zfs destroy -f, its error ignored.                                      *)
Rollback ==
    /\ command = "rollback"
    /\ clones' \in {clones, clones \ {dataset}} /\ Error
    /\ UNCHANGED <<type, default, exports, dataset, fresh>>

-----------------------------------------------------------------------------
(* Variant: any error is "does not exist".                                 *)
Destroy_AnyErrorIsNotFound ==
    /\ command = "destroy"
    /\ clones' \in {clones, clones \ {dataset}} /\ Answer("absent")
    /\ UNCHANGED <<type, default, exports, dataset, fresh>>

(* DeleteClone: unshared, then destroyed; 404 is a success to the client,  *)
(* which then removes the finalizer. The answer may be lost.               *)
Destroy ==
    /\ command = "destroy"
    /\ \/ clones' = clones \ {dataset} /\ Answer("absent")
       \/ clones' \in {clones, clones \ {dataset}} /\ Error
    /\ UNCHANGED <<type, default, exports, dataset, fresh>>

(* The agent restarts: its requests are gone, and NewHandler takes the     *)
(* first type that comes out of a map for its default.                     *)
Restart ==
    /\ default' \in Datasets
    /\ command' = "idle"
    /\ UNCHANGED <<branch, type, host, dataset, fresh>>

AgentNext ==
    \/ CreateBranch \/ DeleteBranch \/ Restart
    \/ CallCreate \/ CallDelete \/ GiveUp
    \/ Clone \/ Share \/ GetSharenfs \/ Rollback \/ Destroy

AgentSpec == AgentInit /\ [][AgentNext]_agentVars

-----------------------------------------------------------------------------
AgentTypeOK ==
    /\ branch \in {"absent", "creating", "created", "deleting"}
    /\ type \in Types /\ default \in Datasets
    /\ exports \subseteq Datasets
    /\ clones \subseteq Datasets
    /\ command \in {"idle", "clone", "share", "getSharenfs", "rollback", "destroy"}
    /\ dataset \in Datasets /\ fresh \in BOOLEAN

(* A branch the agent has answered for has its clone, under the dataset    *)
(* property that exports it, and for a type with a dataset in that one,    *)
(* whichever commands failed, timed out or were rolled back before.        *)
CreatedHasClone ==
    branch = "created" =>
        \E d \in clones \cap exports : type \in Datasets => d = type

(* A branch of a type with a dataset leaves no clone there when it is      *)
(* gone, although agent and operator restart between and during calls.     *)
DeletedIsGone == branch = "absent" /\ type \in Datasets => type \notin clones

(* A clone that may still be rolled back is not there yet.                 *)
Unsettled == fresh /\ command \in {"share", "getSharenfs", "rollback"}

Service == INSTANCE CloneService
    WITH volumes <- clones \ (IF Unsettled THEN {dataset} ELSE {})

(* The agent is the service BranchOperator takes it for: a rollback, a     *)
(* timeout or a restart in the middle of a CreateClone takes back at most  *)
(* what that request has done ("existing clones are not touched"), and a   *)
(* clone only goes where a deletion was asked for.                         *)
ImplementsService == Service!SSpec
=============================================================================
