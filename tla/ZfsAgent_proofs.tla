------------------------- MODULE ZfsAgent_proofs -------------------------
(***************************************************************************)
(* Proofs about the two sides of AgentProvider: the snapshots of a dataset *)
(* (ZfsSnapshots), for any names, clones and keepCount and any number of   *)
(* requests under way, and the clones of a branch (AgentClones), for any   *)
(* datasets and database types.                                            *)
(***************************************************************************)
EXTENDS ZfsSnapshots, AgentClones, FiniteSetTheorems, TLAPS

(***************************************************************************)
(* Snapshots.                                                              *)
(***************************************************************************)
Snapshots == SnapshotsOf(1..lastId)

(* What one command does to the set of snapshots: it takes one under a new *)
(* id and a free name, or gives one the free name of an archive, or at     *)
(* most removes some.                                                      *)
Takes(x) ==
    /\ lastId' = lastId + 1 /\ lastId' <= MaxId
    /\ x \in SnapshotsOf({lastId'}) /\ x.taken = now /\ x.stamp \in {0, now}
    /\ IF x.stamp = 0 THEN x.prefix \in Prefixes ELSE x.prefix = AutoName
    /\ \A t \in snaps : NameOf(t) # NameOf(x)
    /\ snaps' = snaps \cup {x}

Renames(x, y) ==
    /\ lastId' = lastId
    /\ x \in snaps /\ x.stamp = 0
    /\ y \in Snapshots /\ y.id = x.id /\ y.prefix = x.prefix /\ y.stamp = now
    /\ y.taken = x.taken
    /\ \A t \in snaps : NameOf(t) # NameOf(y)
    /\ snaps' = (snaps \ {x}) \cup {y}

Removes == lastId' = lastId /\ snaps' \subseteq snaps

SnapStep ==
    \/ \E x : Takes(x)
    \/ \E x, y : Renames(x, y)
    \/ Removes

LEMMA Bounds ==
    /\ MaxId \in Nat /\ MaxNow \in Nat \ {0} /\ MaxFaults \in Nat
    /\ TypeOK => now \in Nat \ {0} /\ lastId \in Nat
  BY SnapshotAssumption DEF TypeOK

LEMMA OldSnapshots ==
    ASSUME TypeOK, lastId' \in Nat, lastId <= lastId'
    PROVE  Snapshots \subseteq Snapshots'
  BY Bounds DEF Snapshots, SnapshotsOf

LEMMA PlainIsOne ==
    ASSUME TypeOK, NEW r \in Requests, NEW x \in Plain(r)
    PROVE  /\ x \in snaps /\ x.prefix = name[r] /\ x.stamp = 0
           /\ Plain(r) = {x}
<1>1. x \in snaps /\ NameOf(x) = <<name[r], 0>>
  BY DEF Plain, Named
<1>2. \A y \in Plain(r) : y = x
  BY <1>1 DEF Plain, Named, TypeOK
<1> QED
  BY <1>1, <1>2 DEF NameOf

LEMMA ArchiveRenames ==
    ASSUME TypeOK, NEW r \in Requests, Archive(r), snaps' # snaps
    PROVE  \E x, y : x \in Plain(r) /\ Renames(x, y)
<1>1. /\ Plain(r) # {} /\ Named(<<name[r], now>>) = {}
      /\ snaps' = (snaps \ Plain(r)) \cup {[s EXCEPT !.stamp = now] : s \in Plain(r)}
      /\ lastId' = lastId
  BY DEF Archive
<1>2. PICK x \in Plain(r) : TRUE
  BY <1>1
<1>3. /\ x \in snaps /\ x.prefix = name[r] /\ x.stamp = 0
      /\ Plain(r) = {x}
  BY PlainIsOne
<1> DEFINE y == [x EXCEPT !.stamp = now]
<1>4. /\ y \in Snapshots /\ y.id = x.id /\ y.prefix = x.prefix
      /\ y.stamp = now /\ y.taken = x.taken
  BY <1>3, Bounds DEF TypeOK, Snapshots, SnapshotsOf
<1>5. \A t \in snaps : NameOf(t) # NameOf(y)
  <2>1. NameOf(y) = <<name[r], now>>
    BY <1>3, <1>4 DEF NameOf
  <2> QED
    BY <1>1, <2>1 DEF Named
<1>6. snaps' = (snaps \ {x}) \cup {y}
  BY <1>1, <1>3
<1> QED
  BY <1>1, <1>2, <1>3, <1>4, <1>5, <1>6 DEF Renames

LEMMA SnapshotTakes ==
    ASSUME TypeOK, NEW r \in Requests, Snapshot(r) \/ SnapshotNameless(r),
           snaps' # snaps
    PROVE  \E x : Takes(x)
<1>1. CASE Snapshot(r)
  <2> DEFINE x == [id |-> lastId', prefix |-> name[r], stamp |-> 0, taken |-> now]
  <2>1. /\ Plain(r) = {} /\ lastId < MaxId /\ lastId' = lastId + 1
        /\ snaps' = snaps \cup {x}
    BY <1>1 DEF Snapshot
  <2>2. /\ x \in SnapshotsOf({lastId'}) /\ x.taken = now /\ x.stamp \in {0, now}
        /\ IF x.stamp = 0 THEN x.prefix \in Prefixes ELSE x.prefix = AutoName
    BY Bounds DEF SnapshotsOf, TypeOK
  <2>3. NameOf(x) = <<name[r], 0>>
    BY DEF NameOf
  <2>4. \A t \in snaps : NameOf(t) # NameOf(x)
    BY <2>1, <2>3 DEF Plain, Named
  <2> QED
    BY <2>1, <2>2, <2>4, Bounds DEF Takes
<1>2. CASE SnapshotNameless(r)
  <2> DEFINE x == [id |-> lastId', prefix |-> AutoName, stamp |-> now, taken |-> now]
  <2>1. /\ Named(<<AutoName, now>>) = {} /\ lastId < MaxId /\ lastId' = lastId + 1
        /\ snaps' = snaps \cup {x}
    BY <1>2 DEF SnapshotNameless
  <2>2. /\ x \in SnapshotsOf({lastId'}) /\ x.taken = now /\ x.stamp \in {0, now}
        /\ IF x.stamp = 0 THEN x.prefix \in Prefixes ELSE x.prefix = AutoName
    BY Bounds DEF SnapshotsOf, TypeOK
  <2>3. NameOf(x) = <<AutoName, now>>
    BY DEF NameOf
  <2>4. \A t \in snaps : NameOf(t) # NameOf(x)
    BY <2>1, <2>3 DEF Named
  <2> QED
    BY <2>1, <2>2, <2>4, Bounds DEF Takes
<1> QED
  BY <1>1, <1>2

LEMMA SnapshotSteps == TypeOK /\ [Next]_vars => SnapStep
<1> SUFFICES ASSUME TypeOK, [Next]_vars PROVE SnapStep
  OBVIOUS
<1>1. CASE UNCHANGED <<snaps, lastId>>
  BY <1>1 DEF SnapStep, Removes
<1>2. CASE Tick \/ UNCHANGED vars
  BY <1>1, <1>2 DEF Tick, vars, zfs
<1>3. ASSUME NEW r \in Requests, Begin(r) PROVE SnapStep
  BY <1>1, <1>3 DEF Begin, zfs
<1>4. ASSUME NEW r \in Requests,
             \/ DestroyOld(r) \/ DeleteSnapshot(r) \/ CollectArchive(r)
             \/ DropSnapshot(r)
      PROVE  SnapStep
  BY <1>4 DEF DestroyOld, DeleteSnapshot, CollectArchive, DropSnapshot, SnapStep, Removes
<1>5. ASSUME NEW r \in Requests,
             \/ CreateClone(r) \/ DeleteClone(r) \/ ListArchives(r)
             \/ CollectDone(r) \/ ListClones(r) \/ DropClone(r)
             \/ ListSnapshots(r) \/ ResetDone(r)
      PROVE  SnapStep
  BY <1>1, <1>5 DEF CreateClone, DeleteClone, ListArchives, CollectDone, ListClones,
                    DropClone, ListSnapshots, ResetDone, zfs
<1>6. ASSUME NEW r \in Requests, Archive(r) PROVE SnapStep
  <2>1. CASE snaps' = snaps
    BY <1>1, <1>6, <2>1 DEF Archive
  <2> QED
    BY <1>6, <2>1, ArchiveRenames DEF SnapStep
<1>7. ASSUME NEW r \in Requests, Snapshot(r) \/ SnapshotNameless(r) PROVE SnapStep
  <2>1. CASE snaps' = snaps /\ lastId' = lastId
    BY <1>1, <2>1
  <2>2. snaps' # snaps \/ lastId' = lastId
    <3>1. ASSUME lastId' = lastId + 1,
                 \E x \in SnapshotsOf({lastId'}) : snaps' = snaps \cup {x}
          PROVE  snaps' # snaps
      BY <3>1, Bounds DEF TypeOK, SnapshotsOf
    <3>2. \A p \in Prefixes \cup {AutoName}, n \in 0..MaxNow :
             [id |-> lastId', prefix |-> p, stamp |-> n, taken |-> now]
                \in SnapshotsOf({lastId'})
      BY DEF TypeOK, SnapshotsOf
    <3>3. name[r] \in Prefixes /\ now \in 0..MaxNow /\ 0 \in 0..MaxNow
      BY Bounds DEF TypeOK
    <3> QED
      BY <1>7, <3>1, <3>2, <3>3 DEF Snapshot, SnapshotNameless
  <2> QED
    BY <1>7, <2>1, <2>2, SnapshotTakes DEF SnapStep
<1> QED
  BY <1>2, <1>3, <1>4, <1>5, <1>6, <1>7 DEF Next, Serve

-----------------------------------------------------------------------------
LEMMA SnapshotTypes ==
    ASSUME TypeOK, SnapStep
    PROVE  /\ snaps' \subseteq SnapshotsOf(1..lastId')
           /\ \A s, t \in snaps' : NameOf(s) = NameOf(t) => s = t
           /\ lastId' \in 0..MaxId /\ lastId <= lastId'
           /\ Snapshots \subseteq SnapshotsOf(1..lastId')
<1>1. CASE \E x : Takes(x)
  <2>1. PICK x : Takes(x)
    BY <1>1
  <2>2. lastId' \in 0..MaxId /\ lastId <= lastId'
    BY <2>1, Bounds DEF Takes, TypeOK
  <2>3. Snapshots \subseteq SnapshotsOf(1..lastId')
    BY <2>2, OldSnapshots DEF Snapshots
  <2>4. x \in SnapshotsOf(1..lastId')
    BY <2>1, Bounds DEF Takes, SnapshotsOf, TypeOK
  <2> QED
    BY <2>1, <2>2, <2>3, <2>4 DEF Takes, TypeOK, Snapshots
<1>2. CASE \E x, y : Renames(x, y)
  BY <1>2, Bounds DEF Renames, TypeOK, Snapshots
<1>3. CASE Removes
  BY <1>3, Bounds DEF Removes, TypeOK, Snapshots
<1> QED
  BY <1>1, <1>2, <1>3 DEF SnapStep

LEMMA NamesOfSnapshots ==
    TypeOK => {NameOf(s) : s \in snaps} \subseteq Names
  BY DEF TypeOK, SnapshotsOf, NameOf, Names

LEMMA InitTyping == Init => TypeOK
<1> SUFFICES ASSUME Init PROVE TypeOK
  OBVIOUS
<1>1. lastId \in Nat /\ lastId \in 0..MaxId
  BY FS_CardinalityType, SnapshotAssumption DEF Init
<1>2. PICK id \in [Prefixes -> 1..lastId] :
        snaps = {[id |-> id[p], prefix |-> p, stamp |-> 0, taken |-> 1] : p \in Prefixes}
  BY DEF Init
<1>3. snaps \subseteq SnapshotsOf(1..lastId)
  BY <1>1, <1>2, Bounds DEF SnapshotsOf
<1>4. \A s, t \in snaps : NameOf(s) = NameOf(t) => s = t
  BY <1>2 DEF NameOf
<1>5. origin \in [Clones -> 0..MaxId]
  BY <1>1, Bounds DEF Init
<1> QED
  BY <1>1, <1>3, <1>4, <1>5, Bounds DEF Init, TypeOK, AllOps

Commands == {"idle", "run", "destroy", "rename", "list", "collect", "dropClones",
             "dropSnapshots"}

(* What a command leaves of a request is typed, whichever it is.           *)
LEMMA RequestTypes ==
    ASSUME TypeOK, NEW r \in Requests,
           \/ Reply(r)
           \/ \E to \in Commands : Goto(r, to)
           \/ UNCHANGED request
    PROVE  /\ op' \in [Requests -> AllOps \cup {"none"}]
           /\ pc' \in [Requests -> Commands]
           /\ \A q \in Requests : since'[q] \subseteq since[q]
           /\ since' \in [Requests -> SUBSET Snapshots]
<1>1. since \in [Requests -> SUBSET Snapshots] /\ pc \in [Requests -> Commands]
      /\ op \in [Requests -> AllOps \cup {"none"}]
  BY DEF TypeOK, Snapshots, Commands
<1>2. CASE Reply(r)
  BY <1>1, <1>2 DEF Reply, Commands
<1>3. CASE \E to \in Commands : Goto(r, to)
  BY <1>1, <1>3 DEF Goto
<1>4. CASE UNCHANGED request
  BY <1>1, <1>4 DEF request
<1> QED
  BY <1>2, <1>3, <1>4

LEMMA NextTyping == TypeOK /\ [Next]_vars => TypeOK'
<1> SUFFICES ASSUME TypeOK, [Next]_vars PROVE TypeOK'
  OBVIOUS
<1>s. /\ snaps' \subseteq SnapshotsOf(1..lastId')
      /\ \A s, t \in snaps' : NameOf(s) = NameOf(t) => s = t
      /\ lastId' \in 0..MaxId /\ lastId \in 0..MaxId /\ lastId <= lastId'
      /\ Snapshots \subseteq SnapshotsOf(1..lastId')
  BY SnapshotSteps, SnapshotTypes DEF TypeOK
<1>m. SUBSET Snapshots \subseteq SUBSET SnapshotsOf(1..lastId') /\ snaps \in SUBSET Snapshots
  BY <1>s DEF TypeOK, Snapshots
<1>n. \A f \in [Requests -> SUBSET Snapshots] : f \in [Requests -> SUBSET SnapshotsOf(1..lastId')]
  BY <1>m
<1>l. /\ listed \in [Requests -> SUBSET Snapshots] /\ since \in [Requests -> SUBSET Snapshots]
      /\ todo \in [Requests -> SUBSET (Names \cup Clones)]
      /\ origin \in [Clones -> 0..MaxId] /\ name \in [Requests -> Prefixes]
      /\ op \in [Requests -> AllOps \cup {"none"}] /\ pc \in [Requests -> Commands]
      /\ now \in 1..MaxNow /\ dropped \subseteq Prefixes /\ faults \in 0..MaxFaults
  BY DEF TypeOK, Snapshots, Commands
<1> DEFINE Rest ==
        /\ listed' \in [Requests -> SUBSET Snapshots] /\ since' \in [Requests -> SUBSET Snapshots]
        /\ todo' \in [Requests -> SUBSET (Names \cup Clones)]
        /\ origin' \in [Clones -> 0..MaxId] /\ name' \in [Requests -> Prefixes]
        /\ op' \in [Requests -> AllOps \cup {"none"}] /\ pc' \in [Requests -> Commands]
        /\ now' \in 1..MaxNow /\ dropped' \subseteq Prefixes /\ faults' \in 0..MaxFaults
<1>q. SUFFICES Rest
  BY <1>s, <1>n DEF TypeOK, Commands
<1>f. Fault => faults' \in 0..MaxFaults
  BY <1>l, Bounds DEF Fault
<1>d. \A n : Dropping(n) \subseteq Prefixes
  BY <1>l DEF Dropping
<1>1. CASE Tick
  BY <1>1, <1>l, Bounds DEF Tick, zfs, request, loop
<1>2. ASSUME NEW r \in Requests, Begin(r) PROVE Rest
  <2>1. op' \in [Requests -> AllOps \cup {"none"}] /\ pc' \in [Requests -> Commands]
        /\ name' \in [Requests -> Prefixes]
    BY <1>2, <1>l, SnapshotAssumption DEF Begin, Commands
  <2>2. since' \in [Requests -> SUBSET Snapshots]
    <3>1. \A n : Named(n) \in SUBSET Snapshots
      BY <1>m DEF Named
    <3>2. {} \in SUBSET Snapshots /\ snaps \in SUBSET Snapshots
      BY <1>m
    <3>3. PICK S \in SUBSET Snapshots : since' = [since EXCEPT ![r] = S]
      BY <1>2, <3>1, <3>2 DEF Begin
    <3> QED
      BY <3>3, <1>l
  <2> QED
    BY <1>2, <1>l, <2>1, <2>2 DEF Begin, zfs, loop
<1>3. ASSUME NEW r \in Requests, Serve(r) PROVE Rest
  <2>1. Reply(r) \/ (\E to \in Commands : Goto(r, to)) \/ UNCHANGED request
    BY <1>3 DEF Serve, DestroyOld, Archive, Snapshot, SnapshotNameless, DeleteSnapshot,
         CreateClone, DeleteClone, ListArchives, CollectArchive, CollectDone, ListClones,
         DropClone, ListSnapshots, DropSnapshot, ResetDone, Commands
  <2>2. /\ op' \in [Requests -> AllOps \cup {"none"}] /\ pc' \in [Requests -> Commands]
        /\ since' \in [Requests -> SUBSET Snapshots]
    BY <2>1, RequestTypes
  <2>3. name' = name /\ now' = now
    BY <1>3 DEF Serve, DestroyOld, Archive, Snapshot, SnapshotNameless, DeleteSnapshot,
         CreateClone, DeleteClone, ListArchives, CollectArchive, CollectDone, ListClones,
         DropClone, ListSnapshots, DropSnapshot, ResetDone
  <2>4. dropped' \subseteq Prefixes /\ faults' \in 0..MaxFaults
    <3>1. faults' = faults \/ Fault
      BY <1>3 DEF Serve, DestroyOld, Archive, Snapshot, SnapshotNameless, DeleteSnapshot,
         CreateClone, DeleteClone, ListArchives, CollectArchive, CollectDone, ListClones,
         DropClone, ListSnapshots, DropSnapshot, ResetDone
    <3>2. dropped' = dropped \/ dropped' = dropped \cup {name[r]} \/ \E n : dropped' = Dropping(n)
      BY <1>3 DEF Serve, DestroyOld, Archive, Snapshot, SnapshotNameless, DeleteSnapshot,
         CreateClone, DeleteClone, ListArchives, CollectArchive, CollectDone, ListClones,
         DropClone, ListSnapshots, DropSnapshot, ResetDone
    <3> QED
      BY <3>1, <3>2, <1>l, <1>f, <1>d
  <2>5. origin' \in [Clones -> 0..MaxId]
    <3>1. CASE origin' = origin
      BY <3>1, <1>l
    <3>2. CASE CreateClone(r)
      <4>1. \A s \in snaps : s.id \in 0..MaxId
        BY <1>s, Bounds DEF TypeOK, SnapshotsOf
      <4> QED
        BY <3>2, <4>1, <1>l DEF CreateClone
    <3>3. CASE DeleteClone(r) \/ DropClone(r)
      BY <3>3, <1>l, Bounds DEF DeleteClone, DropClone
    <3> QED
      BY <1>3, <3>1, <3>2, <3>3 DEF Serve, DestroyOld, Archive, Snapshot, SnapshotNameless,
         DeleteSnapshot, ListArchives, CollectArchive, CollectDone, ListClones, ListSnapshots,
         DropSnapshot, ResetDone, zfs
  <2>6. listed' \in [Requests -> SUBSET Snapshots] /\ todo' \in [Requests -> SUBSET (Names \cup Clones)]
    <3>1. CASE UNCHANGED loop
      BY <3>1, <1>l DEF loop
    <3>2. CASE ListArchives(r)
      <4>1. PICK D \in [Prefixes \cup {AutoName} -> SUBSET snaps] :
               todo' = [todo EXCEPT ![r] = {NameOf(s) : s \in UNION {D[p] : p \in DOMAIN D}}]
        BY <3>2 DEF ListArchives
      <4>2. {NameOf(s) : s \in UNION {D[p] : p \in DOMAIN D}} \subseteq Names
        BY NamesOfSnapshots
      <4> HIDE DEF SnapshotsOf
      <4>3. listed' = [listed EXCEPT ![r] = snaps]
        BY <3>2 DEF ListArchives
      <4> QED
        BY <4>1, <4>2, <4>3, <1>l, <1>m
    <3>3. CASE CollectArchive(r) \/ CollectDone(r) \/ DropClone(r) \/ DropSnapshot(r)
      BY <3>3, <1>l DEF CollectArchive, CollectDone, DropClone, DropSnapshot
    <3>4. CASE ListClones(r) \/ ListSnapshots(r)
      BY <3>4, <1>l, NamesOfSnapshots DEF ListClones, ListSnapshots
    <3> QED
      BY <1>3, <3>1, <3>2, <3>3, <3>4 DEF Serve, DestroyOld, Archive, Snapshot, SnapshotNameless,
         DeleteSnapshot, CreateClone, DeleteClone, ResetDone
  <2> QED
    BY <2>2, <2>3, <2>4, <2>5, <2>6, <1>l
<1>4. CASE UNCHANGED vars
  BY <1>4, <1>l DEF vars
<1> QED
  BY <1>1, <1>2, <1>3, <1>4 DEF Next

-----------------------------------------------------------------------------
(* No id is given twice, and an archived snapshot stays one.               *)
IdsAreUnique == \A s, t \in snaps : s.id = t.id => s = t

(* An overwrite that has destroyed or renamed the old snapshot is about to *)
(* take the new one.                                                       *)
NameHeld(p) ==
    \/ p \in dropped
    \/ Named(<<p, 0>>) # {}
    \/ \E r \in Requests : op[r] = "overwrite" /\ pc[r] = "run" /\ name[r] = p

(* What a collection has put on its list are archives with Keep others as  *)
(* recent in the answer it was made of.                                    *)
Collecting(r) ==
    op[r] = "gc" /\ pc[r] = "collect" =>
        /\ \A n \in todo[r] : n[2] # 0
        /\ \A s \in listed[r] : NameOf(s) \in todo[r] =>
              Cardinality(AsRecent(s, listed[r])) >= Keep

(* The snapshots of S that are still in T are themselves or were archived. *)
KeptOrArchived(S, T) ==
    \A s \in S : \A t \in T :
        s.id = t.id => s = t \/ (s.stamp = 0 /\ t.stamp # 0)

(* So are those there when a reset began, and once it has listed the       *)
(* snapshots the remaining ones are on its list.                           *)
Resetting(r) ==
    op[r] = "reset" =>
        /\ KeptOrArchived(since[r], snaps)
        /\ pc[r] = "dropSnapshots" =>
              \A s \in since[r] \cap snaps : NameOf(s) \in todo[r]

SnapshotInv ==
    /\ TypeOK /\ IsFiniteSet(snaps) /\ IdsAreUnique
    /\ \A p \in Prefixes : NameHeld(p)
    /\ \A r \in Requests : Collecting(r) /\ Resetting(r)

LEMMA InitSnapshots == Init => SnapshotInv
<1> SUFFICES ASSUME Init PROVE SnapshotInv
  OBVIOUS
<1>1. TypeOK
  BY InitTyping
<1>2. PICK id \in [Prefixes -> 1..lastId] :
        /\ \A p, q \in Prefixes : id[p] = id[q] => p = q
        /\ snaps = {[id |-> id[p], prefix |-> p, stamp |-> 0, taken |-> 1] : p \in Prefixes}
  BY DEF Init
<1> DEFINE f == [p \in Prefixes |-> [id |-> id[p], prefix |-> p, stamp |-> 0, taken |-> 1]]
<1>3. f \in Surjection(Prefixes, snaps)
  BY <1>2 DEF Surjection
<1>4. IsFiniteSet(snaps)
  BY <1>3, FS_Surjection, SnapshotAssumption
<1>5. IdsAreUnique
  BY <1>2 DEF IdsAreUnique
<1>6. ASSUME NEW p \in Prefixes PROVE NameHeld(p)
  <2>1. f[p] \in snaps /\ NameOf(f[p]) = <<p, 0>>
    BY <1>2 DEF NameOf
  <2> QED
    BY <2>1 DEF NameHeld, Named
<1>7. ASSUME NEW r \in Requests PROVE Collecting(r) /\ Resetting(r)
  BY <1>7 DEF Init, Collecting, Resetting, KeptOrArchived
<1> QED
  BY <1>1, <1>4, <1>5, <1>6, <1>7 DEF SnapshotInv

LEMMA NextIds ==
    ASSUME SnapshotInv, [Next]_vars
    PROVE  IsFiniteSet(snaps') /\ IdsAreUnique'
<1>1. SnapStep
  BY SnapshotSteps DEF SnapshotInv
<1>2. CASE \E x : Takes(x)
  <2>1. PICK x : Takes(x)
    BY <1>2
  <2>2. \A s \in snaps : s.id # x.id
    BY <2>1, Bounds DEF Takes, SnapshotInv, TypeOK, SnapshotsOf
  <2>3. IsFiniteSet(snaps')
    BY <2>1, FS_AddElement DEF Takes, SnapshotInv
  <2> QED
    BY <2>1, <2>2, <2>3 DEF Takes, SnapshotInv, IdsAreUnique
<1>3. CASE \E x, y : Renames(x, y)
  <2>1. PICK x, y : Renames(x, y)
    BY <1>3
  <2>2. IsFiniteSet(snaps \ {x})
    BY FS_RemoveElement DEF SnapshotInv
  <2>3. IsFiniteSet(snaps')
    BY <2>1, <2>2, FS_AddElement DEF Renames
  <2> QED
    BY <2>1, <2>3 DEF Renames, SnapshotInv, IdsAreUnique
<1>4. CASE Removes
  BY <1>4, FS_Subset DEF Removes, SnapshotInv, IdsAreUnique
<1> QED
  BY <1>1, <1>2, <1>3, <1>4 DEF SnapStep

(* A plain name that is lost without having been dropped was taken away by *)
(* an overwrite, which goes on to take the new snapshot.                   *)
LEMMA PlainLost ==
    ASSUME SnapshotInv, [Next]_vars, NEW p \in Prefixes,
           Named(<<p, 0>>) # {}, Named(<<p, 0>>)' = {}, p \notin dropped'
    PROVE  \E r \in Requests : op'[r] = "overwrite" /\ pc'[r] = "run" /\ name'[r] = p
<1>1. PICK s \in snaps : NameOf(s) = <<p, 0>>
  BY DEF Named
<1>2. s \notin snaps' /\ s.prefix = p /\ s.stamp = 0
  BY <1>1 DEF Named, NameOf
<1>3. PICK r \in Requests : Serve(r)
  BY <1>2 DEF Next, Tick, Begin, vars, zfs
<1>4. name' = name
  BY <1>3 DEF Serve, DestroyOld, Archive, Snapshot, SnapshotNameless, DeleteSnapshot,
       CreateClone, DeleteClone, ListArchives, CollectArchive, CollectDone, ListClones,
       DropClone, ListSnapshots, DropSnapshot, ResetDone
<1>5. ASSUME NEW n, s \in Named(n), dropped' = Dropping(n)
      PROVE  FALSE
  <2>1. n = <<p, 0>>
    BY <1>1, <1>5 DEF Named
  <2> QED
    BY <1>5, <2>1 DEF Dropping
<1>6. CASE DestroyOld(r) \/ Archive(r)
  <2>1. s \in Plain(r) /\ Goto(r, "run") /\ op[r] = "overwrite"
    <3>1. CASE DestroyOld(r)
      BY <1>2, <3>1 DEF DestroyOld, At
    <3>2. CASE Archive(r)
      BY <1>2, <3>2 DEF Archive, At
    <3> QED
      BY <1>6, <3>1, <3>2
  <2>2. name[r] = p
    BY <1>2, <2>1, PlainIsOne DEF SnapshotInv
  <2>3. op'[r] = "overwrite" /\ pc'[r] = "run"
    BY <2>1 DEF Goto, SnapshotInv, TypeOK
  <2> QED
    BY <1>4, <2>2, <2>3
<1>7. CASE DeleteSnapshot(r)
  <2>1. PICK n : IF Named(n) = {} \/ \E t \in Named(n) : HasClones(t)
                 THEN Reply(r) /\ UNCHANGED <<snaps, dropped>>
                 ELSE /\ snaps' = snaps \ Named(n) /\ Reply(r)
                      /\ dropped' = Dropping(n)
    BY <1>7 DEF DeleteSnapshot
  <2>2. s \in Named(n) /\ dropped' = Dropping(n)
    BY <1>2, <2>1
  <2> QED
    BY <1>5, <2>2
<1>8. CASE CollectArchive(r)
  <2>1. PICK n \in todo[r] : NameOf(s) = n
    BY <1>2, <1>8 DEF CollectArchive
  <2>2. op[r] = "gc" /\ pc[r] = "collect"
    BY <1>8 DEF CollectArchive, At
  <2>3. n[2] # 0
    BY <2>1, <2>2 DEF SnapshotInv, Collecting
  <2> QED
    BY <1>1, <2>1, <2>3
<1>9. CASE DropSnapshot(r)
  <2>1. PICK n \in todo[r] :
            IF Named(n) = {} \/ \E t \in Named(n) : HasClones(t)
            THEN UNCHANGED <<snaps, dropped>>
            ELSE snaps' = snaps \ Named(n) /\ dropped' = Dropping(n)
    BY <1>9 DEF DropSnapshot
  <2>2. s \in Named(n) /\ dropped' = Dropping(n)
    BY <1>2, <2>1
  <2> QED
    BY <1>5, <2>2
<1>10. CASE ~(\/ DestroyOld(r) \/ Archive(r) \/ DeleteSnapshot(r) \/ CollectArchive(r)
              \/ DropSnapshot(r))
  BY <1>2, <1>3, <1>10 DEF Serve, Snapshot, SnapshotNameless, CreateClone, DeleteClone,
       ListArchives, CollectDone, ListClones, DropClone, ListSnapshots, ResetDone, zfs
<1> QED
  BY <1>6, <1>7, <1>8, <1>9, <1>10

(* Names are never given back, and only its own commands move a request.   *)
LEMMA OwnStep ==
    ASSUME TypeOK, [Next]_vars
    PROVE  /\ dropped \subseteq dropped'
           /\ \/ \E r \in Requests :
                   /\ Begin(r) \/ Serve(r)
                   /\ \A q \in Requests \ {r} :
                         /\ op'[q] = op[q] /\ pc'[q] = pc[q] /\ name'[q] = name[q]
                         /\ listed'[q] = listed[q] /\ todo'[q] = todo[q]
                         /\ since'[q] = since[q]
              \/ UNCHANGED <<zfs, request, name, loop, dropped>>
<1>1. CASE Tick \/ UNCHANGED vars
  BY <1>1 DEF Tick, vars, zfs, request, loop
<1>2. ASSUME NEW r \in Requests, Begin(r) \/ Serve(r)
      PROVE  /\ dropped \subseteq dropped'
             /\ \A q \in Requests \ {r} :
                   /\ op'[q] = op[q] /\ pc'[q] = pc[q] /\ name'[q] = name[q]
                   /\ listed'[q] = listed[q] /\ todo'[q] = todo[q]
                   /\ since'[q] = since[q]
  <2>1. \/ Reply(r) \/ (\E to : Goto(r, to)) \/ UNCHANGED request \/ Begin(r)
    BY <1>2 DEF Serve, DestroyOld, Archive, Snapshot, SnapshotNameless, DeleteSnapshot,
         CreateClone, DeleteClone, ListArchives, CollectArchive, CollectDone, ListClones,
         DropClone, ListSnapshots, DropSnapshot, ResetDone
  <2>2. /\ \E x : op' = [op EXCEPT ![r] = x] \/ op' = op
        /\ \E x : pc' = [pc EXCEPT ![r] = x] \/ pc' = pc
        /\ \E x : since' = [since EXCEPT ![r] = x] \/ since' = since
    BY <2>1 DEF Reply, Goto, request, Begin
  <2>3. /\ \E x : name' = [name EXCEPT ![r] = x] \/ name' = name
        /\ \E x : listed' = [listed EXCEPT ![r] = x] \/ listed' = listed
        /\ \E x : todo' = [todo EXCEPT ![r] = x] \/ todo' = todo
    BY <1>2 DEF Begin, Serve, DestroyOld, Archive, Snapshot, SnapshotNameless, DeleteSnapshot,
         CreateClone, DeleteClone, ListArchives, CollectArchive, CollectDone, ListClones,
         DropClone, ListSnapshots, DropSnapshot, ResetDone, loop
  <2>4. dropped \subseteq dropped'
    BY <1>2 DEF Begin, Serve, DestroyOld, Archive, Snapshot, SnapshotNameless, DeleteSnapshot,
         CreateClone, DeleteClone, ListArchives, CollectArchive, CollectDone, ListClones,
         DropClone, ListSnapshots, DropSnapshot, ResetDone, Dropping
  <2> QED
    BY <2>2, <2>3, <2>4 DEF TypeOK
<1> QED
  BY <1>1, <1>2 DEF Next

LEMMA NextNames ==
    ASSUME SnapshotInv, [Next]_vars, NEW p \in Prefixes
    PROVE  NameHeld(p)'
<1>1. dropped \subseteq dropped'
  BY OwnStep DEF SnapshotInv
<1>2. CASE p \in dropped
  BY <1>1, <1>2 DEF NameHeld
<1>3. CASE Named(<<p, 0>>) # {}
  BY <1>3, PlainLost DEF NameHeld
<1>4. ASSUME NEW r \in Requests, op[r] = "overwrite", pc[r] = "run", name[r] = p
      PROVE  NameHeld(p)'
  <2>1. CASE op'[r] = op[r] /\ pc'[r] = pc[r] /\ name'[r] = name[r]
    BY <1>4, <2>1 DEF NameHeld
  <2>2. CASE Serve(r)
    <3>1. Snapshot(r)
      BY <1>4, <2>2 DEF Serve, At, DestroyOld, Archive, SnapshotNameless, DeleteSnapshot,
           CreateClone, DeleteClone, ListArchives, CollectArchive, CollectDone, ListClones,
           DropClone, ListSnapshots, DropSnapshot, ResetDone
    <3> DEFINE x == [id |-> lastId', prefix |-> p, stamp |-> 0, taken |-> now]
    <3>2. CASE snaps' = snaps \cup {x}
      <4>1. NameOf(x) = <<p, 0>> /\ x \in snaps'
        BY <3>2 DEF NameOf
      <4> QED
        BY <4>1 DEF NameHeld, Named
    <3>3. CASE Plain(r) # {} /\ snaps' = snaps
      BY <1>4, <3>3 DEF NameHeld, Named, Plain
    <3>4. CASE dropped' = dropped \cup {p}
      BY <3>4 DEF NameHeld
    <3> QED
      BY <1>4, <3>1, <3>2, <3>3, <3>4 DEF Snapshot
  <2>3. ~Begin(r)
    BY <1>4 DEF Begin
  <2> QED
    BY <2>1, <2>2, <2>3, OwnStep DEF SnapshotInv, request
<1> QED
  BY <1>2, <1>3, <1>4 DEF SnapshotInv, NameHeld

-----------------------------------------------------------------------------
(* GCSnapshots: what lies beyond the first Keep archives of a name.        *)
LEMMA SurplusIsOld ==
    ASSUME NEW S, IsFiniteSet(S), NEW p, NEW D \in Surplus(p, S), NEW s \in D
    PROVE  /\ s.prefix = p /\ s.stamp # 0
           /\ Cardinality(AsRecent(s, S)) >= Keep
<1>1. /\ D \subseteq Archives(p, S)
      /\ \A t \in Archives(p, S) \ D : CreatedAt(s) <= CreatedAt(t)
      /\ Cardinality(Archives(p, S) \ D) = Keep
  BY DEF Surplus
<1>2. s.prefix = p /\ s.stamp # 0
  BY <1>1 DEF Archives
<1>3. Archives(p, S) \ D \subseteq AsRecent(s, S)
  BY <1>1, <1>2 DEF AsRecent
<1>4. IsFiniteSet(AsRecent(s, S))
  <2>1. AsRecent(s, S) \in SUBSET S
    BY DEF AsRecent, Archives
  <2> QED
    BY <2>1, FS_Subset
<1>5. Cardinality(Archives(p, S) \ D) <= Cardinality(AsRecent(s, S))
  BY <1>3, <1>4, FS_Subset
<1>6. Cardinality(AsRecent(s, S)) \in Nat /\ Keep \in Nat
  BY <1>4, FS_CardinalityType, SnapshotAssumption
<1> QED
  BY <1>1, <1>2, <1>5, <1>6

LEMMA ListedAreOld ==
    ASSUME SnapshotInv, NEW r \in Requests, ListArchives(r)
    PROVE  Collecting(r)'
<1>1. PICK D \in [Prefixes \cup {AutoName} -> SUBSET snaps] :
         /\ \A p \in DOMAIN D : D[p] \in Surplus(p, snaps)
         /\ todo' = [todo EXCEPT ![r] = {NameOf(s) : s \in UNION {D[p] : p \in DOMAIN D}}]
  BY DEF ListArchives
<1>2. /\ todo'[r] = {NameOf(s) : s \in UNION {D[p] : p \in DOMAIN D}}
      /\ listed'[r] = snaps
  BY <1>1 DEF ListArchives, SnapshotInv, TypeOK
<1>3. ASSUME NEW n \in todo'[r]
      PROVE  \E t \in snaps : /\ NameOf(t) = n /\ t.stamp # 0
                              /\ Cardinality(AsRecent(t, snaps)) >= Keep
  <2>1. PICK p \in DOMAIN D : \E t \in D[p] : NameOf(t) = n
    BY <1>2, <1>3
  <2>2. PICK t \in D[p] : NameOf(t) = n
    BY <2>1
  <2>3. D[p] \in Surplus(p, snaps) /\ t \in snaps
    BY <1>1, <2>1, <2>2
  <2> QED
    BY <2>2, <2>3, SurplusIsOld DEF SnapshotInv
<1>4. ASSUME NEW n \in todo'[r] PROVE n[2] # 0
  BY <1>3, <1>4 DEF NameOf
<1>5. ASSUME NEW s \in snaps, NameOf(s) \in todo'[r]
      PROVE  Cardinality(AsRecent(s, snaps)) >= Keep
  <2>1. PICK t \in snaps : /\ NameOf(t) = NameOf(s)
                           /\ Cardinality(AsRecent(t, snaps)) >= Keep
    BY <1>3, <1>5
  <2>2. t = s
    BY <2>1 DEF SnapshotInv, TypeOK
  <2> QED
    BY <2>1, <2>2
<1> QED
  BY <1>2, <1>4, <1>5 DEF Collecting, AsRecent, Archives, CreatedAt, NameOf

LEMMA NextCollecting ==
    ASSUME SnapshotInv, [Next]_vars, NEW q \in Requests
    PROVE  Collecting(q)'
<1>1. Collecting(q)
  BY DEF SnapshotInv
<1>2. CASE /\ op'[q] = op[q] /\ pc'[q] = pc[q]
           /\ listed'[q] = listed[q] /\ todo'[q] \subseteq todo[q]
  BY <1>1, <1>2 DEF Collecting, AsRecent, Archives, CreatedAt, NameOf
<1>3. CASE Begin(q)
  BY <1>3 DEF Begin, Collecting, SnapshotInv, TypeOK
<1>4. CASE Serve(q)
  <2>1. CASE ListArchives(q)
    BY <2>1, ListedAreOld
  <2>2. CASE CollectArchive(q)
    BY <1>2, <2>2 DEF CollectArchive, request, SnapshotInv, TypeOK
  <2>3. CASE Reply(q)
    BY <2>3 DEF Reply, Collecting, SnapshotInv, TypeOK
  <2>4. CASE op[q] # "gc" /\ op'[q] = op[q]
    BY <2>4 DEF Collecting
  <2> QED
    BY <1>4, <2>1, <2>2, <2>3, <2>4 DEF Serve, At, Goto, request, DestroyOld, Archive, Snapshot,
         SnapshotNameless, DeleteSnapshot, CreateClone, DeleteClone, CollectDone, ListClones,
         DropClone, ListSnapshots, DropSnapshot, ResetDone
<1> QED
  BY <1>2, <1>3, <1>4, OwnStep DEF SnapshotInv, request, loop
-----------------------------------------------------------------------------
(* ResetDataset: a snapshot seen before is not made again.                 *)
LEMMA NothingSeenComesBack ==
    ASSUME SnapshotInv, [Next]_vars, NEW S \in SUBSET Snapshots, KeptOrArchived(S, snaps)
    PROVE  KeptOrArchived(S, snaps') /\ S \cap snaps' \subseteq snaps
<1>1. SnapStep
  BY SnapshotSteps DEF SnapshotInv
<1>2. CASE \E x : Takes(x)
  <2>1. PICK x : Takes(x)
    BY <1>2
  <2>2. \A s \in S : s.id # x.id
    BY <2>1, Bounds DEF Takes, SnapshotInv, Snapshots, SnapshotsOf
  <2> QED
    BY <2>1, <2>2 DEF Takes, KeptOrArchived
<1>3. CASE \E x, y : Renames(x, y)
  <2>1. PICK x, y : Renames(x, y)
    BY <1>3
  <2>2. x \in snaps /\ x.stamp = 0 /\ y.id = x.id /\ y.stamp # 0
    BY <2>1, Bounds DEF Renames, SnapshotInv
  <2>3. \A s \in S : s.id = y.id => s = x
    BY <2>2 DEF KeptOrArchived
  <2> QED
    BY <2>1, <2>2, <2>3 DEF Renames, KeptOrArchived
<1>4. CASE Removes
  BY <1>4 DEF Removes, KeptOrArchived
<1> QED
  BY <1>1, <1>2, <1>3, <1>4 DEF SnapStep

LEMMA NextResetting ==
    ASSUME SnapshotInv, [Next]_vars, NEW q \in Requests
    PROVE  Resetting(q)'
<1>1. Resetting(q) /\ since[q] \in SUBSET Snapshots
  BY DEF SnapshotInv, TypeOK, Snapshots
<1>2. op[q] = "reset" =>
        KeptOrArchived(since[q], snaps') /\ since[q] \cap snaps' \subseteq snaps
  BY <1>1, NothingSeenComesBack DEF Resetting
<1>3. ASSUME op[q] = "reset", since'[q] = since[q],
             pc'[q] = "dropSnapshots" =>
                \A s \in since[q] \cap snaps' : NameOf(s) \in todo'[q]
      PROVE  Resetting(q)'
  BY <1>2, <1>3 DEF Resetting, KeptOrArchived, NameOf
<1>4. CASE UNCHANGED <<op[q], pc[q], since[q]>> /\ todo'[q] = todo[q]
  BY <1>1, <1>2, <1>3, <1>4 DEF Resetting
<1>5. CASE Begin(q)
  <2>1. pc'[q] # "dropSnapshots" /\ snaps' = snaps /\ since'[q] \subseteq snaps
    BY <1>5 DEF Begin, SnapshotInv, TypeOK, zfs, Named
  <2>2. KeptOrArchived(since'[q], snaps')
    BY <2>1 DEF KeptOrArchived, SnapshotInv, IdsAreUnique
  <2> QED
    BY <2>1, <2>2 DEF Resetting, KeptOrArchived
<1>6. CASE Serve(q)
  <2>1. CASE Reply(q)
    BY <2>1 DEF Reply, Resetting, SnapshotInv, TypeOK
  <2>2. CASE op[q] # "reset" /\ op'[q] = op[q]
    BY <2>2 DEF Resetting
  <2>3. CASE ListClones(q)
    BY <1>3, <2>3 DEF ListClones, Goto, At, SnapshotInv, TypeOK
  <2>4. CASE DropClone(q) /\ UNCHANGED request
    BY <1>3, <2>4 DEF DropClone, At, request
  <2>5. CASE ListSnapshots(q)
    BY <1>3, <2>5 DEF ListSnapshots, Goto, At, zfs, SnapshotInv, TypeOK
  <2>6. CASE DropSnapshot(q) /\ UNCHANGED request
    <3>1. op[q] = "reset" /\ pc[q] = "dropSnapshots" /\ since'[q] = since[q]
      BY <2>6 DEF DropSnapshot, At, request
    <3>2. PICK n \in todo[q] :
             \/ Reply(q)
             \/ snaps' = snaps \ Named(n) /\ todo'[q] = todo[q] \ {n}
      BY <2>6 DEF DropSnapshot, SnapshotInv, TypeOK
    <3>3. ASSUME snaps' = snaps \ Named(n), todo'[q] = todo[q] \ {n},
                 NEW s \in since[q] \cap snaps'
          PROVE  NameOf(s) \in todo'[q]
      <4>1. s \in snaps /\ NameOf(s) # n
        BY <3>3 DEF Named
      <4> QED
        BY <1>1, <3>1, <3>3, <4>1 DEF Resetting
    <3> QED
      BY <1>3, <2>1, <3>1, <3>2, <3>3
  <2> QED
    BY <1>6, <2>1, <2>2, <2>3, <2>4, <2>5, <2>6 DEF Serve, At, Goto, request, DestroyOld,
         Archive, Snapshot, SnapshotNameless, DeleteSnapshot, CreateClone, DeleteClone,
         ListArchives, CollectArchive, CollectDone, DropClone, DropSnapshot, ResetDone
<1> QED
  BY <1>4, <1>5, <1>6, OwnStep DEF SnapshotInv, request, loop

-----------------------------------------------------------------------------
LEMMA SnapshotInvariant == Spec => []SnapshotInv
<1>1. SnapshotInv /\ [Next]_vars => SnapshotInv'
  <2> SUFFICES ASSUME SnapshotInv, [Next]_vars PROVE SnapshotInv'
    OBVIOUS
  <2>1. TypeOK'
    BY NextTyping DEF SnapshotInv
  <2>2. IsFiniteSet(snaps') /\ IdsAreUnique'
    BY NextIds
  <2>3. \A p \in Prefixes : NameHeld(p)'
    BY NextNames
  <2>4. \A r \in Requests : Collecting(r)' /\ Resetting(r)'
    BY NextCollecting, NextResetting
  <2> QED
    BY <2>1, <2>2, <2>3, <2>4 DEF SnapshotInv
<1> QED
  BY <1>1, InitSnapshots, PTL DEF Spec

(* TakeSnapshot with overwrite leaves a snapshot under the name, whatever  *)
(* else goes on, unless the zfs snapshot fails or the name is deleted.     *)
THEOREM OverwrittenNamesSurvive == Spec => []NameSurvivesOverwrite
<1>1. SnapshotInv => NameSurvivesOverwrite
  BY DEF SnapshotInv, NameSurvivesOverwrite, NameHeld
<1> QED
  BY <1>1, SnapshotInvariant, PTL

(* GCSnapshots deletes no archive of those it listed that is among the Keep*)
(* youngest of them, with ties within a minute.                            *)
THEOREM OldArchivesAreCollected == Spec => CollectsTheOldest
<1> DEFINE Old == \A r \in Requests : \A s \in CollectedBy(r) \cap listed[r] :
                     op[r] = "gc" => Cardinality(AsRecent(s, listed[r])) >= Keep
<1>1. SnapshotInv /\ [Next]_vars => Old
  <2> SUFFICES ASSUME SnapshotInv, [Next]_vars, NEW r \in Requests,
                      NEW s \in CollectedBy(r) \cap listed[r], op[r] = "gc"
               PROVE  Cardinality(AsRecent(s, listed[r])) >= Keep
    OBVIOUS
  <2>1. s \in snaps \ snaps' /\ NameOf(s) \in todo[r] \ todo'[r]
    BY DEF CollectedBy
  <2>2. snaps' # snaps /\ todo'[r] # todo[r]
    BY <2>1
  <2>3. Begin(r) \/ Serve(r)
    BY <2>2, OwnStep DEF SnapshotInv, zfs, loop
  <2>4. CollectArchive(r)
    BY <2>2, <2>3 DEF Begin, Serve, At, zfs, loop, DestroyOld, Archive, Snapshot,
         SnapshotNameless, DeleteSnapshot, CreateClone, DeleteClone, ListArchives,
         CollectDone, ListClones, DropClone, ListSnapshots, DropSnapshot, ResetDone
  <2>5. pc[r] = "collect"
    BY <2>4 DEF CollectArchive, At
  <2> QED
    BY <2>1, <2>5 DEF SnapshotInv, Collecting
<1> QED
  BY <1>1, SnapshotInvariant, PTL DEF Spec, CollectsTheOldest

(* ResetDataset answers 200 only when every snapshot there was has been    *)
(* deleted or archived meanwhile.                                          *)
THEOREM ResetsAreComplete == Spec => ResetRemoves
<1> DEFINE Done == \A r \in Requests : ResetDone(r) => since[r] \cap snaps' = {}
<1>1. SnapshotInv => Done
  BY DEF SnapshotInv, Resetting, ResetDone, At, zfs
<1> QED
  BY <1>1, SnapshotInvariant, PTL DEF ResetRemoves

-----------------------------------------------------------------------------
(* TakeSnapshot with overwrite: what is old goes.                          *)

(* An archive is named after a second that has come, and the snapshot that *)
(* has the plain name was taken then or later.                             *)
Aging ==
    /\ \A s \in snaps : /\ s.stamp <= now
                        /\ s.stamp = 0 => s.taken <= now /\ s.prefix \in Prefixes
    /\ \A s, t \in snaps :
          s.prefix = t.prefix /\ s.stamp # 0 /\ t.stamp = 0 => s.stamp <= t.taken

(* An overwrite about to take the new snapshot finds no old one.           *)
Replacing(r) ==
    op[r] = "overwrite" /\ pc[r] = "run" => Plain(r) \cap since[r] = {}

RenewInv == Aging /\ \A r \in Requests : Replacing(r)

LEMMA InitRenew == Init => RenewInv
<1> SUFFICES ASSUME Init PROVE RenewInv
  OBVIOUS
<1>1. now = 1 /\ \A s \in snaps : s.stamp = 0 /\ s.taken = 1 /\ s.prefix \in Prefixes
  BY DEF Init
<1>2. \A r \in Requests : op[r] = "none"
  BY DEF Init
<1> QED
  BY <1>1, <1>2 DEF RenewInv, Aging, Replacing

LEMMA NextAging ==
    ASSUME SnapshotInv, Aging, [Next]_vars
    PROVE  Aging'
<1>1. SnapStep /\ TypeOK
  BY SnapshotSteps DEF SnapshotInv
<1>2. now \in Nat /\ now' \in Nat /\ now <= now'
  <2>1. now' = now \/ now' = now + 1
    BY DEF Next, Tick, Begin, vars, Serve, DestroyOld, Archive, Snapshot, SnapshotNameless,
         DeleteSnapshot, CreateClone, DeleteClone, ListArchives, CollectArchive, CollectDone,
         ListClones, DropClone, ListSnapshots, DropSnapshot, ResetDone
  <2> QED
    BY <1>1, <2>1, Bounds
<1>3. \A s \in snaps : s.stamp \in Nat /\ s.taken \in Nat /\ s.prefix \in Prefixes \cup {AutoName}
  BY <1>1, Bounds DEF TypeOK, SnapshotsOf
<1>4. CASE \E x : Takes(x)
  <2>1. PICK x : Takes(x)
    BY <1>4
  <2>2. x.taken = now /\ x.stamp \in {0, now} /\ (x.stamp = 0 => x.prefix \in Prefixes)
        /\ snaps' = snaps \cup {x}
    BY <2>1 DEF Takes
  <2>3. ASSUME NEW t \in snaps, x.stamp # 0, t.stamp = 0, x.prefix = t.prefix
        PROVE  FALSE
    BY <2>1, <2>3, SnapshotAssumption DEF Takes, Aging
  <2> QED
    BY <1>2, <1>3, <2>2, <2>3 DEF Aging
<1>5. CASE \E x, y : Renames(x, y)
  <2>1. PICK x, y : Renames(x, y)
    BY <1>5
  <2>2. \A t \in snaps \ {x} : t.stamp = 0 => t.prefix # x.prefix
    BY <1>1, <2>1 DEF Renames, TypeOK, NameOf
  <2>3. y.stamp = now /\ y.prefix = x.prefix /\ snaps' = (snaps \ {x}) \cup {y} /\ now # 0
    BY <1>1, <2>1, Bounds DEF Renames
  <2> QED
    BY <1>2, <1>3, <2>2, <2>3 DEF Aging
<1>6. CASE Removes
  BY <1>2, <1>3, <1>6 DEF Removes, Aging
<1> QED
  BY <1>1, <1>4, <1>5, <1>6 DEF SnapStep

(* A snapshot under a plain name was there before, or is a new one.        *)
LEMMA PlainIsOldOrNew ==
    ASSUME SnapshotInv, [Next]_vars, NEW s \in snaps', s.stamp = 0
    PROVE  s \in snaps \/ s \notin Snapshots
<1>1. SnapStep
  BY SnapshotSteps DEF SnapshotInv
<1>2. ASSUME NEW x, Takes(x) PROVE x \notin Snapshots
  BY <1>2, Bounds DEF Takes, SnapshotInv, Snapshots, SnapshotsOf
<1>3. ASSUME NEW x, NEW y, Renames(x, y) PROVE s # y
  BY <1>3, Bounds DEF Renames, SnapshotInv
<1> QED
  BY <1>1, <1>2, <1>3 DEF SnapStep, Takes, Renames, Removes

LEMMA NextReplacing ==
    ASSUME SnapshotInv, [Next]_vars, NEW q \in Requests, Replacing(q)
    PROVE  Replacing(q)'
<1> SUFFICES ASSUME op'[q] = "overwrite", pc'[q] = "run"
             PROVE  Plain(q)' \cap since'[q] = {}
  BY DEF Replacing
<1>1. TypeOK /\ since[q] \subseteq Snapshots
  BY DEF SnapshotInv, TypeOK, Snapshots
<1>2. \A s \in Plain(q)' : s \in snaps' /\ s.prefix = name'[q] /\ s.stamp = 0
  BY DEF Plain, Named, NameOf
<1>3. CASE /\ op'[q] = op[q] /\ pc'[q] = pc[q] /\ name'[q] = name[q]
           /\ since'[q] = since[q]
  <2>1. ASSUME NEW s \in Plain(q)', s \in since'[q] PROVE FALSE
    <3>1. s \in snaps
      BY <1>1, <1>2, <1>3, <2>1, PlainIsOldOrNew
    <3>2. s \in Plain(q)
      BY <1>2, <1>3, <2>1, <3>1 DEF Plain, Named, NameOf
    <3> QED
      BY <1>3, <2>1, <3>2 DEF Replacing
  <2> QED
    BY <2>1
<1>4. ~Begin(q)
  BY <1>1 DEF Begin, TypeOK
<1>5. CASE Serve(q)
  <2>1. ~Reply(q)
    BY <1>1 DEF Reply, TypeOK
  <2>2. CASE DestroyOld(q) \/ Archive(q)
    <3>1. /\ name'[q] = name[q] /\ Goto(q, "run")
          /\ \/ snaps' = snaps \ Plain(q)
             \/ snaps' = (snaps \ Plain(q)) \cup {[s EXCEPT !.stamp = now] : s \in Plain(q)}
      BY <1>1, <2>1, <2>2 DEF DestroyOld, Archive, Goto, TypeOK
    <3>2. \A s \in Plain(q) : [s EXCEPT !.stamp = now].stamp # 0
      BY <1>1, PlainIsOne, Bounds DEF TypeOK, SnapshotsOf
    <3>3. \A s \in snaps \ Plain(q) : NameOf(s) # <<name[q], 0>>
      BY DEF Plain, Named
    <3>4. ASSUME NEW s \in Plain(q)' PROVE FALSE
      <4>1. s \in snaps' /\ NameOf(s) = <<name[q], 0>> /\ s.stamp = 0
        BY <1>2, <3>1 DEF Plain, Named
      <4> QED
        BY <3>1, <3>2, <3>3, <4>1
    <3> QED
      BY <3>4
  <2>3. op[q] = "overwrite"
    BY <1>1, <1>5, <2>1 DEF Serve, Goto, request, DestroyOld, Archive, Snapshot,
         SnapshotNameless, DeleteSnapshot, CreateClone, DeleteClone, ListArchives,
         CollectArchive, CollectDone, ListClones, DropClone, ListSnapshots, DropSnapshot,
         ResetDone
  <2> QED
    BY <1>5, <2>1, <2>2, <2>3 DEF Serve, At, Snapshot, SnapshotNameless, DeleteSnapshot,
         CreateClone, DeleteClone, ListArchives, CollectArchive, CollectDone, ListClones,
         DropClone, ListSnapshots, DropSnapshot, ResetDone
<1> QED
  BY <1>3, <1>4, <1>5, OwnStep DEF SnapshotInv, request

LEMMA RenewInvariant == Spec => [](SnapshotInv /\ RenewInv)
<1>1. SnapshotInv /\ RenewInv /\ [Next]_vars => RenewInv'
  BY NextAging, NextReplacing DEF RenewInv
<1> QED
  BY <1>1, InitRenew, SnapshotInvariant, PTL DEF Spec

(* TakeSnapshot with overwrite: what was there when it began is destroyed, *)
(* archived or of this second when it is answered, unless a command fails, *)
(* whichever overwrites and deletions of the name interleave.              *)
THEOREM OverwritesRenew == Spec => OverwriteRenews
<1> DEFINE Renewed ==
        \A r \in Requests :
            op[r] = "overwrite" /\ op'[r] = "none" /\ UNCHANGED faults =>
                \A s \in snaps' : NameOf(s) = <<name[r], 0>> =>
                    s \notin since[r] \/ s.taken = now
<1>1. SnapshotInv /\ RenewInv /\ [Next]_vars => Renewed
  <2> SUFFICES ASSUME SnapshotInv, RenewInv, [Next]_vars, NEW r \in Requests,
                      op[r] = "overwrite", op'[r] = "none", UNCHANGED faults,
                      NEW s \in snaps', NameOf(s) = <<name[r], 0>>, s \in since[r]
               PROVE  s.taken = now
    OBVIOUS
  <2>1. TypeOK /\ s \in Snapshots /\ s.stamp = 0
    BY DEF SnapshotInv, TypeOK, Snapshots, NameOf
  <2>2. s \in Plain(r)
    BY <2>1, PlainIsOldOrNew DEF Plain, Named
  <2>3. ~Fault
    BY <2>1, Bounds DEF Fault, TypeOK
  <2>4. Serve(r)
    <3>1. ~Begin(r)
      BY <2>1, SnapshotAssumption DEF Begin, AllOps, TypeOK
    <3> QED
      BY <3>1, OwnStep DEF SnapshotInv, request
  <2>5. ~\E to : Goto(r, to)
    BY DEF Goto
  <2>6. Archive(r) \/ Snapshot(r)
    BY <2>3, <2>4, <2>5 DEF Serve, At, DestroyOld, SnapshotNameless, DeleteSnapshot,
         CreateClone, DeleteClone, ListArchives, CollectArchive, CollectDone, ListClones,
         DropClone, ListSnapshots, DropSnapshot, ResetDone
(* A refused rename has been overtaken by one of this second.              *)
  <2>7. CASE Archive(r)
    <3>1. Named(<<name[r], now>>) # {}
      BY <2>2, <2>3, <2>5, <2>7 DEF Archive
    <3>2. PICK t \in snaps : NameOf(t) = <<name[r], now>>
      BY <3>1 DEF Named
    <3>3. t.prefix = name[r] /\ t.stamp = now /\ now # 0 /\ now \in Nat
      BY <2>1, <3>2, Bounds DEF NameOf
    <3>4. s \in snaps /\ s.prefix = name[r]
      BY <2>1, <2>2, PlainIsOne
    <3>5. s.taken \in Nat
      BY <2>1, Bounds DEF Snapshots, SnapshotsOf
    <3> QED
      BY <2>1, <3>3, <3>4, <3>5 DEF RenewInv, Aging
  <2>8. CASE Snapshot(r)
    BY <2>2, <2>8 DEF Snapshot, At, RenewInv, Replacing
  <2> QED
    BY <2>6, <2>7, <2>8
<1> QED
  BY <1>1, RenewInvariant, PTL DEF Spec, OverwriteRenews

(***************************************************************************)
(* Clones.                                                                 *)
(***************************************************************************)
(* The call under way is one of the phase the branch is in, and works on   *)
(* the dataset of the type.                                                *)
CallInv ==
    command # "idle" =>
        /\ branch \in {"creating", "deleting"}
        /\ command = "destroy" => branch = "deleting"
        /\ type \in Datasets => dataset = type

AgentInv == AgentTypeOK /\ CallInv /\ CreatedHasClone /\ DeletedIsGone

LEMMA AgentStart == AgentInit => AgentInv
BY AgentAssumption
   DEF AgentInit, AgentInv, AgentTypeOK, CallInv, CreatedHasClone, DeletedIsGone

LEMMA AgentTyping ==
    ASSUME AgentTypeOK, [AgentNext]_agentVars
    PROVE  AgentTypeOK'
<1> USE AgentAssumption DEF AgentTypeOK, agent, host
<1>1. CASE CreateBranch \/ DeleteBranch \/ Restart \/ GiveUp
  BY <1>1 DEF CreateBranch, DeleteBranch, Restart, GiveUp
<1>2. CASE CallCreate \/ CallDelete
  <2>1. pickProvider(type) \in Datasets
    BY DEF pickProvider
  <2> QED
    BY <1>2, <2>1 DEF CallCreate, CallDelete, Call
<1>3. CASE Clone
  BY <1>3 DEF Clone, GoOn, Error, Answer
<1>4. CASE Share
  BY <1>4 DEF Share, GoOn, Created, Answer
<1>5. CASE GetSharenfs
  BY <1>5 DEF GetSharenfs, GoOn, Created, Error, Answer
<1>6. CASE Rollback
  BY <1>6 DEF Rollback, Error, Answer
<1>7. CASE Destroy
  BY <1>7 DEF Destroy, Error, Answer
<1>8. CASE UNCHANGED agentVars
  BY <1>8 DEF agentVars
<1> QED
  BY <1>1, <1>2, <1>3, <1>4, <1>5, <1>6, <1>7, <1>8 DEF AgentNext

LEMMA AgentStep ==
    ASSUME AgentInv, [AgentNext]_agentVars
    PROVE  AgentInv'
<1> USE AgentAssumption
    DEF AgentInv, AgentTypeOK, CallInv, CreatedHasClone, DeletedIsGone, agent, host
<1>0. AgentTypeOK'
  BY AgentTyping
<1>1. CASE CreateBranch
  BY <1>0, <1>1 DEF CreateBranch
<1>2. CASE DeleteBranch
  BY <1>0, <1>2 DEF DeleteBranch
<1>3. CASE Restart
  BY <1>0, <1>3 DEF Restart
<1>4. CASE GiveUp
  BY <1>0, <1>4 DEF GiveUp
<1>5. CASE CallCreate \/ CallDelete
  BY <1>0, <1>5 DEF CallCreate, CallDelete, Call, pickProvider
<1>6. CASE Clone
  BY <1>0, <1>6 DEF Clone, GoOn, Error, Answer
<1>7. CASE Share
  BY <1>0, <1>7 DEF Share, GoOn, Created, Answer
<1>8. CASE GetSharenfs
  BY <1>0, <1>8 DEF GetSharenfs, GoOn, Created, Error, Answer
<1>9. CASE Rollback
  BY <1>0, <1>9 DEF Rollback, Error, Answer
<1>10. CASE Destroy
  BY <1>0, <1>10 DEF Destroy, Error, Answer
<1>11. CASE UNCHANGED agentVars
  BY <1>0, <1>11 DEF agentVars
<1> QED
  BY <1>1, <1>2, <1>3, <1>4, <1>5, <1>6, <1>7, <1>8, <1>9, <1>10, <1>11
     DEF AgentNext

LEMMA AgentInvariant == AgentSpec => []AgentInv
<1>1. AgentInv /\ [AgentNext]_agentVars => AgentInv'
  BY AgentStep
<1> QED
  BY <1>1, AgentStart, PTL DEF AgentSpec

(* A branch the operator goes on with has its clone: answers, timeouts,    *)
(* rollbacks and restarts of the agent come in any order.                  *)
THEOREM CreatedBranchesHaveClones == AgentSpec => []CreatedHasClone
<1>1. AgentInv => CreatedHasClone
  BY DEF AgentInv
<1> QED
  BY <1>1, AgentInvariant, PTL

(* For types with a dataset of their own, deletion is complete.            *)
THEOREM DeletedBranchesLeaveNoClone == AgentSpec => []DeletedIsGone
<1>1. AgentInv => DeletedIsGone
  BY DEF AgentInv
<1> QED
  BY <1>1, AgentInvariant, PTL

(* Only a clone its request has made is rolled back.                       *)
RollbackInv == command = "rollback" => fresh

LEMMA RollbackStep ==
    ASSUME RollbackInv, [AgentNext]_agentVars
    PROVE  RollbackInv'
  BY DEF RollbackInv, AgentNext, agentVars, agent, host, CreateBranch, DeleteBranch,
         Restart, CallCreate, CallDelete, Call, GiveUp, Clone, Share, GetSharenfs,
         Rollback, Destroy, GoOn, Created, Error, Answer

LEMMA ServiceStep ==
    ASSUME AgentInv, RollbackInv, [AgentNext]_agentVars
    PROVE  [Service!SNext]_(Service!service)
<1> DEFINE volumes == clones \ (IF Unsettled THEN {dataset} ELSE {})
<1> USE DEF Service!service, Unsettled
<1>1. command # "idle" =>
        /\ branch \in {"creating", "deleting"} /\ dataset \in Service!Places
        /\ command = "destroy" => branch = "deleting"
  BY DEF AgentInv, AgentTypeOK, CallInv, Service!Places
<1>2. CASE CreateBranch
  <2>1. command = "idle"
    BY <1>1, <1>2 DEF CreateBranch
  <2>2. Service!SCreateBranch
    BY <1>2, <2>1 DEF CreateBranch, Service!SCreateBranch, Types, agent, host
  <2> QED
    BY <2>2 DEF Service!SNext
<1>3. CASE DeleteBranch
  <2>1. Service!SDeleteBranch
    BY <1>3 DEF DeleteBranch, Service!SDeleteBranch, agent, host
  <2> QED
    BY <2>1 DEF Service!SNext
<1>4. CASE CallCreate \/ CallDelete
  BY <1>4 DEF CallCreate, CallDelete, Call, host
(* The request ends where it is, and what it has made stays.               *)
<1>a. ASSUME command # "idle", UNCHANGED <<branch, type>>,
             volumes' = volumes \/ volumes' = volumes \cup {dataset}
      PROVE  [Service!SNext]_(Service!service)
  <2>1. CASE volumes' = volumes
    BY <1>a, <2>1
  <2>2. CASE volumes' = volumes \cup {dataset}
    <3>1. Service!SCreateFails
      BY <1>1, <1>a, <2>2 DEF Service!SCreateFails, Service!Take
    <3> QED
      BY <3>1 DEF Service!SNext
  <2> QED
    BY <1>a, <2>1, <2>2
<1>b. dataset \in clones => volumes \cup {dataset} = clones \/ volumes = clones
  OBVIOUS
(* It is answered 201, and the branch may be waiting for that.             *)
<1>c. ASSUME command \in {"share", "getSharenfs"}, dataset \in clones, Created,
             UNCHANGED <<type, clones>>
      PROVE  [Service!SNext]_(Service!service)
  <2>1. volumes' = volumes \cup {dataset}
    BY <1>c DEF Created, Answer
  <2>2. CASE branch = "creating"
    <3>1. Service!SCreate
      BY <1>1, <1>c, <2>1, <2>2 DEF Created, Answer, Service!SCreate, Service!Take
    <3> QED
      BY <3>1 DEF Service!SNext
  <2>3. CASE branch # "creating"
    BY <1>a, <1>c, <2>1, <2>3 DEF Created, Answer
  <2> QED
    BY <2>2, <2>3
<1>5. CASE GiveUp \/ Restart
  <2>1. /\ command' = "idle" /\ clones' = clones
        /\ UNCHANGED <<branch, type, dataset, fresh>>
    BY <1>5 DEF GiveUp, Restart, host
  <2>2. volumes' = clones
    BY <2>1
  <2>3. volumes' = volumes \/ (command # "idle" /\ volumes' = volumes \cup {dataset})
    BY <2>1, <2>2
  <2> QED
    BY <1>a, <2>1, <2>3
<1>6. CASE Clone
  <2>1. command = "clone" /\ volumes = clones /\ UNCHANGED <<branch, type, dataset>>
    BY <1>6 DEF Clone, GoOn, Error, Answer
  <2>2. CASE command' = "share"
    BY <1>6, <1>a, <2>1, <2>2 DEF Clone, Error, Answer
  <2>3. CASE command' = "idle" /\ clones' \in {clones, clones \cup {dataset}}
    BY <1>a, <2>1, <2>3
  <2> QED
    BY <1>6, <2>2, <2>3 DEF Clone, GoOn, Error, Answer
<1>7. CASE Share
  <2>1. CASE command' = "getSharenfs"
    BY <1>7, <2>1 DEF Share, GoOn, Created, Answer, host
  <2>2. CASE dataset \in clones /\ Created
    BY <1>7, <1>c, <2>2 DEF Share, host
  <2> QED
    BY <1>7, <2>1, <2>2 DEF Share, GoOn
<1>8. CASE GetSharenfs
  <2>1. CASE fresh /\ GoOn("rollback")
    BY <1>8, <2>1 DEF GetSharenfs, GoOn, host
  <2>2. CASE ~fresh /\ Error
    BY <1>8, <2>2 DEF GetSharenfs, Error, Answer, host
  <2>3. CASE dataset \in clones /\ Created
    BY <1>8, <1>c, <2>3 DEF GetSharenfs, host
  <2> QED
    BY <1>8, <2>1, <2>2, <2>3 DEF GetSharenfs
<1>9. CASE Rollback
  <2>1. /\ command = "rollback" /\ command' = "idle" /\ fresh
        /\ UNCHANGED <<branch, type, dataset>>
    BY <1>9 DEF Rollback, RollbackInv, Error, Answer
  <2>2. volumes = clones \ {dataset} /\ volumes' = clones'
    BY <2>1
  <2>3. volumes' = volumes \/ volumes' = volumes \cup {dataset}
    BY <1>9, <2>2 DEF Rollback
  <2> QED
    BY <1>a, <2>1, <2>3
<1>10. CASE Destroy
  <2>1. command = "destroy" /\ command' = "idle" /\ UNCHANGED type
    BY <1>10 DEF Destroy, Error, Answer
  <2>2. volumes = clones /\ volumes' = clones' /\ branch = "deleting"
    BY <1>1, <2>1
  <2>3. CASE clones' = clones /\ branch' = branch
    BY <2>1, <2>2, <2>3
  <2>4. CASE clones' = clones \ {dataset} /\ branch' \in {branch, "absent"}
    <3>1. Service!SDelete \/ Service!SDeleteFails
      BY <1>1, <2>1, <2>2, <2>4
         DEF Service!SDelete, Service!SDeleteFails, Service!Drop
    <3> QED
      BY <3>1 DEF Service!SNext
  <2> QED
    BY <1>10, <2>3, <2>4 DEF Destroy, Error, Answer
<1>11. CASE UNCHANGED agentVars
  BY <1>11 DEF agentVars
<1> QED
  BY <1>2, <1>3, <1>4, <1>5, <1>6, <1>7, <1>8, <1>9, <1>10, <1>11 DEF AgentNext

(* CreateClone and DeleteClone are atomic for the operator: for any        *)
(* datasets and whatever fails, is given up, restarted or rolled back, the *)
(* clone of an earlier CreateClone stays until a deletion is asked for.    *)
THEOREM AgentImplementsService == AgentSpec => ImplementsService
<1>1. AgentInit => Service!SInit /\ RollbackInv
  BY DEF AgentInit, Service!SInit, RollbackInv, Types
<1>2. AgentInv /\ RollbackInv /\ [AgentNext]_agentVars
        => RollbackInv' /\ [Service!SNext]_(Service!service)
  BY RollbackStep, ServiceStep
<1> QED
  BY <1>1, <1>2, AgentInvariant, PTL DEF AgentSpec, ImplementsService, Service!SSpec
=============================================================================
