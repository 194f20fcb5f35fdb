---------------------------- MODULE CloneGC_proofs ----------------------------
(***************************************************************************)
(* Proofs about CloneGC for any names, any leftover clones and any number  *)
(* of overlapping collectors and resets.                                   *)
(***************************************************************************)
EXTENDS CloneGC, TLAPS

(* One name n and the collectors that may hold a claim on its clone.       *)
Claims(n) ==
    n \notin blind => \A g \in Collectors :
        /\ n \in todo[g] => /\ uid[n] >= asOf[g][n]
                            /\ Live(n) => uid[n] > asOf[g][n]
        /\ n \notin Orphans =>
              /\ n \in seen[g] => uid[n] >= 1
              /\ n \in todo[g] => uid[n] >= 1 /\ (Live(n) => uid[n] > 1)

(* A reset has deleted the branches it listed, meant to delete and has come*)
(* to: a living branch is a later one, or one that it skips.               *)
Passed(n) ==
    n \notin blind => \A r \in Resets :
        /\ uid[n] >= asOf[r][n]
        /\ Live(n) /\ (pc[r] = "deleteClones" \/ (pc[r] = "deleteBranches" /\ n \notin todo[r]))
              => Bystander(r, n)

Fresh(n) ==
    /\ worker[n] # "idle" => stage[n] \in {"creating", "deleting"}
    /\ worker[n] = "deleted" => stage[n] = "deleting"
    /\ stage[n] # "absent" => uid[n] >= 1
    /\ n \notin Orphans =>
          /\ n \in clones => uid[n] >= 1
          /\ /\ n \notin blind \cup swept /\ uid[n] = 1
             /\ stage[n] = "ready" \/ (stage[n] = "creating" /\ worker[n] = "created")
             => n \in clones

GCInv == TypeOK /\ \A n \in Names : Claims(n) /\ Passed(n) /\ Fresh(n)

LEMMA GCTyping == Spec => []TypeOK
<1> USE GCAssumption DEF TypeOK, FleetTypeOK, Stages, Workers, Calls
<1>1. Init => TypeOK
  BY DEF Init, FleetInit
<1>2. TypeOK /\ [Next]_vars => TypeOK'
  <2> SUFFICES ASSUME TypeOK, [Next]_vars PROVE TypeOK'
    OBVIOUS
  <2>1. ASSUME NEW n \in Names, UserCreate(n), UNCHANGED gcvars PROVE TypeOK'
    <3>1. uid' \in [Names -> 0..MaxUid]
      BY <2>1 DEF UserCreate
    <3> QED
      BY <2>1, <3>1 DEF UserCreate, Stage, gcvars
  <2>2. ASSUME NEW n \in Names, Delete(n) \/ Release(n) \/ Protect(n) \/ BeginCreation(n)
                                \/ MarkReady(n) \/ Abandon(n) \/ RemoveFinalizer(n),
               UNCHANGED gcvars
        PROVE  TypeOK'
    BY <2>2 DEF Delete, StagesDeleted, Gone, Release, Protect, BeginCreation, MarkReady,
                Abandon, RemoveFinalizer, Gone, Stage, Work, gcvars
  <2>3. ASSUME NEW n \in Names, CreateClone(n) \/ DeleteClone(n),
               UNCHANGED gcvars
        PROVE  TypeOK'
    <3>2. worker' \in [Names -> Workers]
      BY <2>3 DEF CreateClone, DeleteClone, Work
    <3>3. clones' \subseteq Names
      BY <2>3 DEF CreateClone, DeleteClone
    <3> QED
      BY <2>3, <3>2, <3>3 DEF CreateClone, DeleteClone, gcvars
  <2>4. ASSUME NEW g \in Collectors, Collect(g) PROVE TypeOK'
    <3>1. CASE ListClones(g)
      <4>1. faults' \in 0..MaxFaults /\ seen' \in [Calls -> SUBSET Names]
        BY <3>1 DEF ListClones, Fault
      <4> QED
        BY <3>1, <4>1 DEF ListClones, Step, fleet
    <3>2. CASE ListResources(g)
      <4>1. faults' \in 0..MaxFaults
        BY <3>2 DEF ListResources, Fault
      <4> QED
        <5>1. PICK known \in SUBSET Names : Compare(g, known)
          BY <3>2 DEF ListResources
        <5>4. blind' \subseteq Names
          BY <3>2 DEF ListResources
        <5>2. todo' \in [Calls -> SUBSET Names] /\ seen' \in [Calls -> SUBSET Names]
          BY <5>1 DEF Compare
        <5>3. pc' \in [Calls -> {"idle", "listResources", "deleteOrphans",
                                 "deleteBranches", "deleteClones", "over"}]
          BY <5>1 DEF Compare, Step
        <5>5. asOf' \in [Calls -> [Names -> 0..MaxUid]]
          <6> DEFINE new == [n \in Names |-> IF n \in todo'[g] THEN uid[n] ELSE 0]
          <6>1. new \in [Names -> 0..MaxUid] OBVIOUS
          <6>2. asOf' = [asOf EXCEPT ![g] = new] BY <5>1 DEF Compare
          <6> HIDE DEF new
          <6> QED BY <6>1, <6>2
        <5> QED
          BY <4>1, <5>1, <5>2, <5>3, <5>4, <5>5 DEF Compare, Calls, fleet
    <3>3. CASE DeleteOrphan(g)
      <4>1. faults' \in 0..MaxFaults
        BY <3>3 DEF DeleteOrphan, Remove, Fault
      <4>2. clones' \subseteq Names
        BY <3>3 DEF DeleteOrphan, Remove
      <4> QED
        BY <3>3, <4>1, <4>2 DEF DeleteOrphan, Remove
    <3>4. CASE Finish(g)
      BY <3>4 DEF Finish, Step, fleet
    <3> QED
      BY <2>4, <3>1, <3>2, <3>3, <3>4 DEF Collect
  <2>5. ASSUME NEW r \in Resets, Reset(r) PROVE TypeOK'
    <3>1. CASE ResetList(r)
      <4>1. {n \in Names : stage[n] # "absent"} \in SUBSET Names OBVIOUS
      <4> QED BY <3>1, <4>1 DEF ResetList, Step, fleet
    <3>2. CASE ResetBranch(r)
      <4>1. faults' \in 0..MaxFaults /\ blind' \subseteq Names
        BY <3>2 DEF ResetBranch, Fault
      <4>2. stage' \in [Names -> Stages]
        BY <3>2 DEF ResetBranch, StagesDeleted, Gone, Stage
      <4>3. todo' \in [Calls -> SUBSET Names] BY <3>2 DEF ResetBranch
      <4> QED BY <3>2, <4>1, <4>2, <4>3 DEF ResetBranch
    <3>3. CASE ResetClones(r)
      <4>1. faults' \in 0..MaxFaults /\ todo' \in [Calls -> SUBSET Names]
        BY <3>3 DEF ResetClones, Fault
      <4>2. spared' \in [Calls -> SUBSET Names]
        BY <3>3 DEF ResetClones
      <4>3. asOf' \in [Calls -> [Names -> 0..MaxUid]]
        <5> DEFINE new == [n \in Names |-> IF n \in todo'[r] THEN asOf[r][n] ELSE 0]
        <5>1. new \in [Names -> 0..MaxUid] OBVIOUS
        <5>2. asOf' = [asOf EXCEPT ![r] = new] BY <3>3 DEF ResetClones
        <5> HIDE DEF new
        <5> QED BY <5>1, <5>2
      <4> QED BY <3>3, <4>1, <4>2, <4>3 DEF ResetClones, Step, fleet
    <3>4. CASE ResetClone(r)
      <4>1. faults' \in 0..MaxFaults /\ clones' \subseteq Names /\ swept' \subseteq Names
        BY <3>4 DEF ResetClone, Remove, Fault
      <4>2. todo' \in [Calls -> SUBSET Names] BY <3>4 DEF ResetClone, Remove
      <4>3. pc' \in [Calls -> {"idle", "listResources", "deleteOrphans",
                               "deleteBranches", "deleteClones", "over"}]
            /\ asOf' \in [Calls -> [Names -> 0..MaxUid]]
        <5>1. [n \in Names |-> 0] \in [Names -> 0..MaxUid] OBVIOUS
        <5>2. \/ pc' = pc /\ \E n \in Names : asOf' = [asOf EXCEPT ![r][n] = 0]
              \/ Over(r)
          BY <3>4 DEF ResetClone, Remove
        <5>3. CASE Over(r) BY <5>1, <5>3 DEF Over
        <5>4. CASE pc' = pc /\ \E n \in Names : asOf' = [asOf EXCEPT ![r][n] = 0]
          BY <5>1, <5>4
        <5> QED BY <5>2, <5>3, <5>4
      <4>4. spared' \in [Calls -> SUBSET Names] BY <3>4 DEF ResetClone, Over
      <4> QED BY <3>4, <4>1, <4>2, <4>3, <4>4 DEF ResetClone
    <3>5. CASE ResetDone(r) BY <3>5 DEF ResetDone, Over, fleet
    <3> QED BY <2>5, <3>1, <3>2, <3>3, <3>4, <3>5 DEF Reset
  <2>6. CASE UNCHANGED vars
    BY <2>6 DEF vars, fleet, gcvars
  <2> QED
    BY <2>1, <2>2, <2>3, <2>4, <2>5, <2>6 DEF Next, FleetNext, Operator
<1> QED
  BY <1>1, <1>2, PTL DEF Spec

LEMMA GCInit == Init => GCInv
BY GCAssumption
   DEF Init, FleetInit, GCInv, TypeOK, FleetTypeOK, Stages, Workers, Claims, Fresh,
       Live, Passed, Calls, Bystander

LEMMA GCStep ==
    ASSUME GCInv, [Next]_vars, TypeOK'
    PROVE  GCInv'
<1> SUFFICES ASSUME NEW m \in Names PROVE Claims(m)' /\ Passed(m)' /\ Fresh(m)'
  BY DEF GCInv
<1>0. TypeOK /\ Claims(m) /\ Passed(m) /\ Fresh(m)
  BY DEF GCInv
<1>t. uid[m] \in Nat /\ \A g \in Calls : asOf[g][m] \in Nat
  BY <1>0 DEF TypeOK, FleetTypeOK
<1> USE <1>0, <1>t, GCAssumption
        DEF TypeOK, FleetTypeOK, Stages, Workers, Live, Claims, Passed, Fresh, Calls, Bystander
<1>1. ASSUME NEW n \in Names, UserCreate(n), UNCHANGED gcvars
      PROVE  Claims(m)' /\ Passed(m)' /\ Fresh(m)'
  BY <1>1 DEF UserCreate, Stage, gcvars
<1>2. ASSUME NEW n \in Names, Delete(n), UNCHANGED gcvars
      PROVE  Claims(m)' /\ Passed(m)' /\ Fresh(m)'
  BY <1>2 DEF Delete, StagesDeleted, Gone, Stage, gcvars
<1>3. ASSUME NEW n \in Names, BeginCreation(n), UNCHANGED gcvars
      PROVE  Claims(m)' /\ Passed(m)' /\ Fresh(m)'
  BY <1>3 DEF BeginCreation, Work, gcvars
<1>4. ASSUME NEW n \in Names, CreateClone(n), UNCHANGED gcvars
      PROVE  Claims(m)' /\ Passed(m)' /\ Fresh(m)'
  BY <1>4 DEF CreateClone, Work, gcvars
<1>5. ASSUME NEW n \in Names, MarkReady(n), UNCHANGED gcvars
      PROVE  Claims(m)' /\ Passed(m)' /\ Fresh(m)'
  BY <1>5 DEF MarkReady, Work, Stage, gcvars
<1>6. ASSUME NEW n \in Names, DeleteClone(n), UNCHANGED gcvars
      PROVE  Claims(m)' /\ Passed(m)' /\ Fresh(m)'
  BY <1>6 DEF DeleteClone, Work, gcvars
<1>7. ASSUME NEW n \in Names, RemoveFinalizer(n), UNCHANGED gcvars
      PROVE  Claims(m)' /\ Passed(m)' /\ Fresh(m)'
  BY <1>7 DEF RemoveFinalizer, Gone, Work, Stage, gcvars
<1>8. ASSUME NEW h \in Collectors, ListClones(h)
      PROVE  Claims(m)' /\ Passed(m)' /\ Fresh(m)'
  <2>1. UNCHANGED <<fleet, todo, asOf, spared, blind, swept>> /\ h \in Calls \ Resets
        /\ \E S \in SUBSET clones : seen' = [seen EXCEPT ![h] = S]
    BY <1>8 DEF ListClones
  <2>2. \A r \in Resets : pc'[r] = pc[r]
    BY <1>8, <2>1 DEF ListClones, Step
  <2> QED BY <2>1, <2>2 DEF fleet
<1>9. ASSUME NEW h \in Collectors, ListResources(h)
      PROVE  Claims(m)' /\ Passed(m)' /\ Fresh(m)'
  <2>1. PICK known \in SUBSET Names :
          /\ Compare(h, known)
          /\ \/ known = {n \in Names : stage[n] # "absent"} /\ blind' = blind
             \/ known = {} /\ blind' = blind \cup {n \in seen[h] : Live(n)}
    BY <1>9 DEF ListResources
  <2>2. UNCHANGED <<stage, uid, worker, clones, spared, swept>> /\ blind \subseteq blind'
    BY <2>1 DEF Compare, fleet
  <2>3. todo' = [todo EXCEPT ![h] = seen[h] \ known]
        /\ seen' = [seen EXCEPT ![h] = {}] /\ h \in Calls
    BY <2>1 DEF Compare
  <2>4. \A g \in Calls \ {h} : /\ asOf'[g] = asOf[g] /\ pc'[g] = pc[g]
                              /\ todo'[g] = todo[g] /\ seen'[g] = seen[g]
    BY <2>1, <2>3 DEF Compare, Step
  <2>5. m \in todo'[h] => asOf'[h][m] = uid[m]
    BY <2>1, <2>3 DEF Compare
  <2>6. Fresh(m)' /\ Passed(m)'
    BY <2>2, <2>4
  <2>7. m \notin blind' /\ m \in todo'[h] => ~Live(m) /\ m \in seen[h]
    BY <2>1, <2>3
  <2>8. Claims(m)'
    BY <2>2, <2>3, <2>4, <2>5, <2>7
  <2> QED
    BY <2>6, <2>8
<1>10. ASSUME NEW h \in Collectors, DeleteOrphan(h)
       PROVE  Claims(m)' /\ Passed(m)' /\ Fresh(m)'
  BY <1>10 DEF DeleteOrphan, Remove
<1>11. ASSUME NEW h \in Collectors, Finish(h)
       PROVE  Claims(m)' /\ Passed(m)' /\ Fresh(m)'
  <2>1. UNCHANGED <<fleet, seen, todo, asOf, spared, blind, swept>> /\ h \in Calls \ Resets
    BY <1>11 DEF Finish
  <2>2. \A g \in Calls \ {h} : pc'[g] = pc[g]
    BY <1>11, <2>1 DEF Finish, Step
  <2> QED BY <2>1, <2>2 DEF fleet
<1>12. ASSUME NEW r \in Resets, ResetList(r)
       PROVE  Claims(m)' /\ Passed(m)' /\ Fresh(m)'
  BY <1>12 DEF ResetList, Step, fleet
<1>13. ASSUME NEW r \in Resets, ResetBranch(r)
       PROVE  Claims(m)' /\ Passed(m)' /\ Fresh(m)'
  BY <1>13 DEF ResetBranch, StagesDeleted, Gone, Stage
<1>14. ASSUME NEW r \in Resets, ResetClones(r)
       PROVE  Claims(m)' /\ Passed(m)' /\ Fresh(m)'
  BY <1>14 DEF ResetClones, Step, fleet
<1>15. ASSUME NEW r \in Resets, ResetClone(r)
       PROVE  Claims(m)' /\ Passed(m)' /\ Fresh(m)'
  <2>1. /\ UNCHANGED <<stage, uid, worker, seen, blind>> /\ clones' \subseteq clones
        /\ pc[r] = "deleteClones" /\ r \in Calls \ Collectors
    BY <1>15 DEF ResetClone, Remove
  <2>2. \A g \in Calls \ {r} : pc'[g] = pc[g] /\ asOf'[g] = asOf[g] /\ todo'[g] = todo[g]
    BY <1>15, <2>1 DEF ResetClone, Remove, Over
  <2>3. \/ pc'[r] = pc[r] /\ asOf'[r][m] \in {asOf[r][m], 0}
        \/ pc'[r] = "over" /\ asOf'[r][m] = 0
    BY <1>15, <2>1 DEF ResetClone, Remove, Over
  <2>a. \A g \in Calls \ {r} : spared'[g] = spared[g]
    BY <1>15, <2>1 DEF ResetClone, Over
  <2>b. pc'[r] # "over" /\ m \in spared[r] \ spared'[r] => asOf'[r][m] = 0
    BY <1>15, <2>1 DEF ResetClone, Remove, Over
  <2>4. swept \subseteq swept' /\ (m \in clones \ clones' /\ Live(m) /\ uid[m] = 1
                                  /\ m \notin Orphans \cup blind => m \in swept')
    <3>1. Live(m) /\ m \notin blind => Bystander(r, m)
      BY <2>1
    <3> QED
      BY <1>15, <3>1 DEF ResetClone, Remove
  <2>5. Claims(m)'
    BY <2>1, <2>2
  <2>6. Passed(m)'
    BY <2>1, <2>2, <2>3, <2>a, <2>b
  <2>7. Fresh(m)'
    BY <2>1, <2>4
  <2> QED BY <2>5, <2>6, <2>7
<1>16. ASSUME NEW r \in Resets, ResetDone(r)
       PROVE  Claims(m)' /\ Passed(m)' /\ Fresh(m)'
  BY <1>16 DEF ResetDone, Over, fleet
<1>18. ASSUME NEW n \in Names, Release(n) \/ Protect(n), UNCHANGED gcvars
       PROVE  Claims(m)' /\ Passed(m)' /\ Fresh(m)'
  BY <1>18 DEF Release, Protect, Stage, gcvars
<1>19. ASSUME NEW n \in Names, Abandon(n), UNCHANGED gcvars
       PROVE  Claims(m)' /\ Passed(m)' /\ Fresh(m)'
  BY <1>19 DEF Abandon, gcvars
<1>17. CASE UNCHANGED vars
  BY <1>17 DEF vars, fleet, gcvars
<1> QED
  BY <1>1, <1>2, <1>3, <1>4, <1>5, <1>6, <1>7, <1>8, <1>9, <1>10, <1>11, <1>12,
     <1>13, <1>14, <1>15, <1>16, <1>17, <1>18, <1>19 DEF Next, FleetNext, Operator, Collect, Reset

LEMMA GCInvariant == Spec => []GCInv
<1>1. GCInv /\ TypeOK' /\ [Next]_vars => GCInv'
  BY GCStep
<1> QED
  BY <1>1, GCInit, GCTyping, PTL DEF Spec

(* Whenever collectors run and however many, a Ready branch whose name was *)
(* never used before has its clone, unless a List or a Delete of resources *)
(* failed or a reset that lists it not or spares it swept it: handleGC     *)
(* lists clones, then resources.                                           *)
THEOREM FreshNamesAreSafe == Spec => []FreshNameKeepsClone
<1>1. GCInv => FreshNameKeepsClone
  <2> SUFFICES ASSUME GCInv, NEW n \in Names, n \notin Orphans,
                      n \notin blind \cup swept,
                      stage[n] = "ready", uid[n] = 1
               PROVE  n \in clones
    BY DEF FreshNameKeepsClone
  <2>1. Fresh(n)
    BY DEF GCInv
  <2> QED
    BY <2>1 DEF Fresh
<1> QED
  BY <1>1, GCInvariant, PTL

(* A collector only destroys the clone of a living branch that was created *)
(* after it had listed the resources, and a reset that of such a branch or *)
(* of one it skips for its type, unless a List or a Delete of the resources*)
(* failed.                                                                 *)
THEOREM OnlyBystandersAreHit == Spec => GCHitsOnlyLateComers
<1>1. ASSUME GCInv, NEW g \in Collectors, NEW n \in Names,
             n \in todo[g], Live(n), n \notin blind
      PROVE  uid[n] > asOf[g][n]
  BY <1>1 DEF GCInv, Claims
<1>2. ASSUME GCInv, Next, NEW r \in Resets, NEW n \in Names,
             n \in todo[r] \ todo'[r], n \in clones \ clones', Live(n), n \notin blind
      PROVE  uid[n] > asOf[r][n] \/ n \in spared[r]
  <2>1. todo[r] # todo'[r] /\ r \notin Collectors /\ clones # clones'
    BY <1>2, GCAssumption
  <2>2. \E q \in Resets : ResetClone(q)
    BY <1>2, <2>1, GCAssumption DEF Next, gcvars, Collect, ListClones, ListResources,
         Compare, DeleteOrphan, Remove, Finish, Reset, ResetList, ResetBranch, ResetClones, ResetDone,
         GCInv, TypeOK, Calls, fleet
  <2>3. ResetClone(r)
    <3>1. PICK q \in Resets : ResetClone(q) BY <2>2
    <3>2. \A g \in Calls \ {q} : todo'[g] = todo[g]
      <4>1. todo \in [Calls -> SUBSET Names] BY <1>2 DEF GCInv, TypeOK
      <4>2. PICK x : todo' = [todo EXCEPT ![q] = x] BY <3>1 DEF ResetClone, Remove
      <4> QED BY <4>1, <4>2
    <3> QED BY <2>1, <3>1, <3>2 DEF Calls
  <2>4. Passed(n) /\ pc[r] = "deleteClones"
    BY <1>2, <2>3 DEF GCInv, ResetClone
  <2> QED
    BY <1>2, <2>4 DEF Passed, Bystander
<1>3. GCInv /\ [Next]_vars =>
        [\A g \in Calls, n \in Names :
           n \in todo[g] \ todo'[g] /\ n \in clones \ clones' /\ Live(n) =>
              \/ n \in blind
              \/ uid[n] > asOf[g][n]
              \/ g \in Resets /\ n \in spared[g]]_vars
  BY <1>1, <1>2 DEF Calls
<1> QED
  BY <1>3, GCInvariant, PTL DEF Spec, GCHitsOnlyLateComers
===============================================================================
