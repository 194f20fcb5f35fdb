------------------------------- MODULE CloneGC -------------------------------
(***************************************************************************)
(* The maintenance calls of K8sBranchHandler that destroy clones. POST /gc *)
(* (handleGC) destroys those without a resource: it asks the agent for the *)
(* clones, then the API server for the resources, then the agent for one   *)
(* deletion after the other. POST /snapshots/reset (handleResetDataset)    *)
(* lists the resources, deletes each of its type, and has the agent list   *)
(* and destroy all clones of the dataset, which types without one of their *)
(* own share. Users and the operator go on in between, and calls overlap.  *)
(***************************************************************************)
EXTENDS BranchFleet

CONSTANTS
    Collectors, \* the calls of POST /gc that overlap
    Resets,     \* the calls of POST /snapshots/reset, which may overlap too
    OtherTypes, \* bound: the names whose branches may be of another type than
                \* the one a reset is asked for
    MaxFaults   \* bound: steps of these calls that fail

ASSUME GCAssumption ==
    /\ IsFiniteSet(Names) /\ Orphans \subseteq Names
    /\ OtherTypes \subseteq Names
    /\ MaxUid \in Nat /\ MaxFaults \in Nat
    /\ IsFiniteSet(Collectors) /\ Collectors \cap Resets = {}

Calls == Collectors \cup Resets

VARIABLES
    pc,      \* pc[g]: the next step of call g
    seen,    \* seen[g]: zfsClones, the answer of ListClones
    todo,    \* todo[g]: the names left to delete
    asOf,    \* asOf[g]: history, uid when g listed the resources, of the
             \* clones g may yet destroy
    spared,  \* spared[g]: history, the branches reset g has listed and skips
    blind,   \* history: names whose living branch a failed List or Delete
             \* of resources has exposed
    swept,   \* history: names without a leftover whose first branch lost its
             \* clone to a reset that does not know it or has spared it
    faults   \* how many faults have happened (bounded by MaxFaults)

gcvars == <<pc, seen, todo, asOf, spared, blind, swept, faults>>
vars == <<fleet, gcvars>>

Init == /\ FleetInit
        /\ pc = [g \in Calls |-> "idle"]
        /\ seen = [g \in Calls |-> {}]
        /\ todo = [g \in Calls |-> {}]
        /\ asOf = [g \in Calls |-> [n \in Names |-> 0]]
        /\ spared = [g \in Calls |-> {}]
        /\ blind = {} /\ swept = {} /\ faults = 0

Fault == faults < MaxFaults /\ faults' = faults + 1

Step(g, from, to) == pc[g] = from /\ pc' = [pc EXCEPT ![g] = to]

(* n is dealt with.                                                        *)
Remove(g, n) == /\ todo' = [todo EXCEPT ![g] = todo[g] \ {n}]
                /\ asOf' = [asOf EXCEPT ![g][n] = 0]

-----------------------------------------------------------------------------
(* The agent answers that there are none when its zfs list fails. An error *)
(* of the call itself is answered 500: nothing has been done.              *)
ListClones(g) ==
    /\ Step(g, "idle", "listResources")
    /\ \/ seen' = [seen EXCEPT ![g] = clones] /\ UNCHANGED faults
       \/ seen' = [seen EXCEPT ![g] = {}] /\ Fault
    /\ UNCHANGED <<fleet, todo, asOf, spared, blind, swept>>

Compare(g, known) ==
    /\ Step(g, "listResources", "deleteOrphans")
    /\ todo' = [todo EXCEPT ![g] = seen[g] \ known]
    /\ asOf' = [asOf EXCEPT ![g] =
                   [n \in Names |-> IF n \in todo'[g] THEN uid[n] ELSE 0]]
    /\ seen' = [seen EXCEPT ![g] = {}]
    /\ UNCHANGED <<fleet, spared, swept>>

(* Variant: the map is made of the clones, not of the resources.           *)
ListResources_WrongList(g) ==
    /\ Compare(g, seen[g])
    /\ UNCHANGED <<blind, faults>>

(* The error of List is ignored and the empty list taken for the answer.   *)
ListResources(g) ==
    \/ /\ Compare(g, {n \in Names : stage[n] # "absent"})
       /\ UNCHANGED <<blind, faults>>
    \/ /\ Compare(g, {}) /\ Fault
       /\ blind' = blind \cup {n \in seen[g] : Live(n)}

(* A failed deletion is skipped.                                           *)
DeleteOrphan(g) ==
    /\ pc[g] = "deleteOrphans"
    /\ \E n \in todo[g] :
         /\ Remove(g, n)
         /\ \/ clones' = clones \ {n} /\ UNCHANGED faults
            \/ Fault /\ UNCHANGED clones
    /\ UNCHANGED <<stage, uid, worker, pc, seen, spared, blind, swept>>

(* GCSnapshots (see ZfsSnapshots) and the answer.                            *)
Finish(g) ==
    /\ todo[g] = {} /\ Step(g, "deleteOrphans", "idle")
    /\ UNCHANGED <<fleet, seen, todo, asOf, spared, blind, swept, faults>>

(* Variant: the resources are listed first, then the clones.               *)
ResourcesFirst(g) ==
    /\ Step(g, "idle", "listResources")
    /\ seen' = [seen EXCEPT ![g] = {n \in Names : stage[n] = "absent"}]
    /\ UNCHANGED <<fleet, todo, asOf, spared, blind, swept, faults>>

ClonesSecond(g) ==
    /\ Step(g, "listResources", "deleteOrphans")
    /\ todo' = [todo EXCEPT ![g] = clones \cap seen[g]]
    /\ UNCHANGED <<fleet, seen, asOf, spared, blind, swept, faults>>

Collect_Swapped(g) == \/ ResourcesFirst(g) \/ ClonesSecond(g)
                      \/ DeleteOrphan(g) \/ Finish(g)

Collect(g) == \/ ListClones(g) \/ ListResources(g)
              \/ DeleteOrphan(g) \/ Finish(g)

-----------------------------------------------------------------------------
(* handleResetDataset; an error of its List is answered 500. What is not of*)
(* the type asked for is skipped (nothing is, when none is given); which   *)
(* branches that is follows from types the fleet does not tell.            *)
ResetList(r) ==
    /\ Step(r, "idle", "deleteBranches")
    /\ \E skipped \in SUBSET {n \in OtherTypes : stage[n] # "absent"} :
         /\ todo' = [todo EXCEPT ![r] =
                        {n \in Names : stage[n] # "absent"} \ skipped]
         /\ spared' = [spared EXCEPT ![r] = skipped]
    /\ asOf' = [asOf EXCEPT ![r] = uid]
    /\ UNCHANGED <<fleet, seen, blind, swept, faults>>

(* Variant: the Delete is left to the next call while the operator is busy.*)
ResetBranch_NotCreating(r) ==
    /\ pc[r] = "deleteBranches"
    /\ \E n \in todo[r] :
         /\ todo' = [todo EXCEPT ![r] = todo[r] \ {n}]
         /\ IF Live(n) /\ stage[n] # "creating"
            THEN \E s \in StagesDeleted(n) : Stage(n, s)
            ELSE UNCHANGED stage
    /\ UNCHANGED <<uid, worker, clones, pc, seen, asOf, spared, blind, swept,
                   faults>>

(* The Delete goes by name; its error is ignored.                          *)
ResetBranch(r) ==
    /\ pc[r] = "deleteBranches"
    /\ \E n \in todo[r] :
         /\ todo' = [todo EXCEPT ![r] = todo[r] \ {n}]
         /\ \/ /\ IF Live(n) THEN \E s \in StagesDeleted(n) : Stage(n, s)
                            ELSE UNCHANGED stage
               /\ UNCHANGED <<blind, faults>>
            \/ /\ Fault /\ UNCHANGED stage
               /\ blind' = IF Live(n) THEN blind \cup {n} ELSE blind
    /\ UNCHANGED <<uid, worker, clones, pc, seen, asOf, spared, swept>>

(* AgentProvider.ResetDataset (its snapshots are in ZfsSnapshots): all the *)
(* clones there are, of whatever type; none when its zfs list fails.       *)
ResetClones(r) ==
    /\ todo[r] = {} /\ Step(r, "deleteBranches", "deleteClones")
    /\ \/ todo' = [todo EXCEPT ![r] = clones] /\ UNCHANGED faults
       \/ UNCHANGED todo /\ Fault
    /\ asOf' = [asOf EXCEPT ![r] =
                   [n \in Names |-> IF n \in todo'[r] THEN asOf[r][n] ELSE 0]]
    /\ spared' = [spared EXCEPT ![r] = spared[r] \cap todo'[r]]
    /\ UNCHANGED <<fleet, seen, blind, swept>>

Over(r) == /\ pc' = [pc EXCEPT ![r] = "over"]
           /\ asOf' = [asOf EXCEPT ![r] = [n \in Names |-> 0]]
           /\ spared' = [spared EXCEPT ![r] = {}]

(* The branch of n is none the reset has meant to delete.                  *)
Bystander(r, n) == uid[n] > asOf[r][n] \/ n \in spared[r]

(* The first error ends it, and that includes a clone the operator or a    *)
(* collector has destroyed in the meantime.                                *)
ResetClone(r) ==
    /\ pc[r] = "deleteClones"
    /\ \E n \in todo[r] :
         \/ /\ n \in clones /\ clones' = clones \ {n}
            /\ Remove(r, n)
            /\ swept' = IF /\ Live(n) /\ uid[n] = 1 /\ n \notin Orphans
                           /\ Bystander(r, n)
                        THEN swept \cup {n} ELSE swept
            /\ spared' = [spared EXCEPT ![r] = spared[r] \ {n}]
            /\ UNCHANGED <<pc, faults>>
         \/ /\ IF n \in clones THEN Fault ELSE UNCHANGED faults
            /\ Over(r) /\ todo' = [todo EXCEPT ![r] = {}]
            /\ UNCHANGED <<clones, swept>>
    /\ UNCHANGED <<stage, uid, worker, seen, blind>>

ResetDone(r) ==
    /\ pc[r] = "deleteClones" /\ todo[r] = {} /\ Over(r)
    /\ UNCHANGED <<fleet, seen, todo, blind, swept, faults>>

Reset(r) == \/ ResetList(r) \/ ResetBranch(r) \/ ResetClones(r)
            \/ ResetClone(r) \/ ResetDone(r)

Next == \/ FleetNext /\ UNCHANGED gcvars
        \/ \E g \in Collectors : Collect(g)
        \/ \E r \in Resets : Reset(r)

Spec == Init /\ [][Next]_vars

(* The CronJob calls again and again; nothing is assumed of the operator.  *)
(* Every step of a collector changes pc or todo.                           *)
FairSpec == Spec /\ \A g \in Collectors : WF_<<pc, todo>>(Collect(g))

-----------------------------------------------------------------------------
TypeOK ==
    /\ FleetTypeOK
    /\ pc \in [Calls -> {"idle", "listResources", "deleteOrphans",
                         "deleteBranches", "deleteClones", "over"}]
    /\ seen \in [Calls -> SUBSET Names]
    /\ todo \in [Calls -> SUBSET Names]
    /\ asOf \in [Calls -> [Names -> 0..MaxUid]]
    /\ spared \in [Calls -> SUBSET Names]
    /\ blind \subseteq Names /\ swept \subseteq Names
    /\ faults \in 0..MaxFaults

(* A branch whose name was never used before keeps its clone, whenever the *)
(* collectors run: the clones are listed before the resources, so a branch *)
(* created between the two lists is not taken for an orphan. The exceptions*)
(* are a List or Delete that fails, its error being ignored, and a reset   *)
(* that sweeps a branch created after its list, or of another type.        *)
FreshNameKeepsClone ==
    \A n \in Names \ (Orphans \cup blind \cup swept) :
        stage[n] = "ready" /\ uid[n] = 1 => n \in clones

(* When a collector destroys the clone of a living branch, the branch was  *)
(* created after that call had listed the resources ("the resource exists: *)
(* not an orphan"), however old the answers are it acts on; when a reset   *)
(* does, after it had listed them, or the reset has skipped the branch for *)
(* its type and the two types share the dataset; unless a List or a Delete *)
(* of the resources failed. So a reset leaves no branch it has listed and  *)
(* is asked for living without its clone.                                  *)
GCHitsOnlyLateComers ==
    [][\A g \in Calls, n \in Names :
          n \in todo[g] \ todo'[g] /\ n \in clones \ clones' /\ Live(n) =>
              \/ n \in blind
              \/ uid[n] > asOf[g][n]
              \/ g \in Resets /\ n \in spared[g]]_vars

(* A clone its branch left behind is collected, or its name is used again. *)
OrphansCollected == \A n \in Names : Orphan(n) ~> ~Orphan(n)
=============================================================================
