-------------------------- MODULE K8sDatabase_proofs --------------------------
(***************************************************************************)
(* Proofs about K8sDatabase for every number of incarnations and faults.   *)
(***************************************************************************)
EXTENDS K8sDatabase, TLAPS

Live(k) == obj[k].state = "live"
Own(k) == [state |-> "live", owner |-> k]

(* Start and Stop have been through the objects before their next step.    *)
StopInv ==
    call = "stop" =>
        /\ branch = "deleting"
        /\ \A i \in 1..5 :
              i < step /\ Live(StopOrder[i]) => StopOrder[i] \in missed

(* What is live under a name is the branch's own, or what a Delete in the  *)
(* last Stop has missed; without a branch no call is under way.            *)
LeftInv ==
    /\ branch = "absent" =>
          call = "none" /\ \A k \in Kinds : Live(k) => k \in missed
    /\ branch \in {"creating", "ready"} =>
          \A k \in Kinds : Live(k) => obj[k].owner = uid \/ k \in missed

StaleInv == TypeOK /\ StopInv /\ LeftInv

(* Before a name is deleted for the first time its objects are live or not *)
(* there, and a Start has made all those it has been through.              *)
FirstInv ==
    /\ uid = 0 =>
          branch = "absent" /\ cached = 0 /\ \A k \in Kinds : obj[k] = None
    /\ uid = 1 /\ branch \in {"creating", "ready"} =>
          /\ cached \in {0, 1}
          /\ \A k \in Kinds : obj[k] \in {None, Own(1)}
    /\ uid = 1 /\ branch = "creating" /\ call = "start" =>
          \A i \in 1..5 :
             i < step /\ StartOrder[i] \in Needed => obj[StartOrder[i]] = Own(1)

IInv == StaleInv /\ FirstInv /\ StartIsComplete

-----------------------------------------------------------------------------
LEMMA Orders ==
    /\ \A i \in 1..5 : StartOrder[i] \in Kinds /\ StopOrder[i] \in Kinds
    /\ \A k \in Kinds : \E i \in 1..5 : StartOrder[i] = k
    /\ \A k \in Kinds : \E i \in 1..5 : StopOrder[i] = k
    /\ \A i, j \in 1..5 : StartOrder[i] = StartOrder[j] => i = j
    /\ \A i, j \in 1..5 : StopOrder[i] = StopOrder[j] => i = j
  BY DEF StartOrder, StopOrder, Kinds

Objects == [state : {"absent", "live", "terminating"}, owner : 0..MaxUid]

LEMMA NoneIsAnObject == None \in Objects /\ ~(None.state = "live")
  BY DatabaseAssumption DEF None, Objects

(* What putting an object in its place keeps of the types.                 *)
LEMMA PutType ==
    ASSUME TypeOK, NEW k \in Kinds, NEW o \in Objects, Put(k, o)
    PROVE  obj' \in [Kinds -> Objects] /\ cached' \in 0..MaxUid
<1>1. obj' \in [Kinds -> Objects]
  BY DEF Put, TypeOK, Objects
<1>2. o.owner \in 0..MaxUid /\ cached \in 0..MaxUid
  BY DEF TypeOK, Objects
<1> QED
  BY <1>1, <1>2 DEF Put

LEMMA InitDatabase == Init => IInv
<1> SUFFICES ASSUME Init PROVE IInv
  OBVIOUS
<1> USE DatabaseAssumption
<1>1. TypeOK
  BY NoneIsAnObject DEF Init, TypeOK, DbTypes, Objects
<1>2. StopInv /\ LeftInv /\ FirstInv /\ StartIsComplete
  BY NoneIsAnObject DEF Init, StopInv, LeftInv, FirstInv, StartIsComplete, Live
<1> QED
  BY <1>1, <1>2 DEF IInv, StaleInv

LEMMA NextType == TypeOK /\ [Next]_vars => TypeOK'
<1> SUFFICES ASSUME TypeOK, [Next]_vars PROVE TypeOK'
  OBVIOUS
<1> USE DatabaseAssumption
<1>f. Fault => faults' \in 0..MaxFaults
  BY DEF Fault, TypeOK
<1>1. CASE CreateBranch \/ DeleteBranch
  BY <1>1 DEF CreateBranch, DeleteBranch, TypeOK, cluster
<1>2. CASE BeginStart \/ BeginStop \/ StopDone
  BY <1>2 DEF BeginStart, BeginStop, StopDone, TypeOK, cluster, resource
<1>3. CASE GiveUp
  BY <1>3, <1>f DEF GiveUp, TypeOK, cluster, resource
<1>4. CASE GetNodePort
  BY <1>4 DEF GetNodePort, TypeOK, cluster
<1>5. CASE CreateObject \/ CreateUnanswered
  <2>1. PICK k \in Kinds : /\ At("start", k)
                           /\ \/ UNCHANGED cluster
                              \/ Put(k, [state |-> "live", owner |-> uid])
    BY <1>5 DEF CreateObject, CreateUnanswered
  <2>2. [state |-> "live", owner |-> uid] \in Objects
    BY DEF TypeOK, Objects
  <2>3. obj' \in [Kinds -> Objects] /\ cached' \in 0..MaxUid
    BY <2>1, <2>2, PutType DEF TypeOK, cluster, Objects
  <2>4. step' \in 1..6 /\ faults' \in 0..MaxFaults /\ call' \in {"none", "start", "stop"}
    BY <1>5, <1>f DEF CreateObject, CreateUnanswered, At, Advance, TypeOK
  <2> QED
    BY <1>5, <2>3, <2>4 DEF CreateObject, CreateUnanswered, Advance, TypeOK, resource, Objects
<1>6. CASE DeleteObject
  <2>1. PICK k \in Kinds : /\ At("stop", k)
                           /\ \/ UNCHANGED cluster
                              \/ Put(k, None)
                              \/ Put(k, [obj[k] EXCEPT !.state = "terminating"])
    BY <1>6 DEF DeleteObject
  <2>2. [obj[k] EXCEPT !.state = "terminating"] \in Objects
    BY DEF TypeOK, Objects
  <2>3. obj' \in [Kinds -> Objects] /\ cached' \in 0..MaxUid
    BY <2>1, <2>2, PutType, NoneIsAnObject DEF TypeOK, cluster, Objects
  <2>4. step' \in 1..6
    BY <1>6 DEF DeleteObject, At, Advance, TypeOK
  <2> QED
    BY <1>6, <2>3, <2>4 DEF DeleteObject, Advance, TypeOK, resource, Objects
<1>7. CASE DeleteFails
  BY <1>7, <1>f DEF DeleteFails, At, TypeOK, cluster, resource
<1>8. CASE Vanish
  <2>1. obj' \in [Kinds -> Objects] /\ cached' \in 0..MaxUid
    BY <1>8, PutType, NoneIsAnObject DEF Vanish
  <2> QED
    BY <1>8, <2>1 DEF Vanish, TypeOK, resource, Objects
<1>9. CASE CacheCatchesUp
  <2>1. obj["svc"].owner \in 0..MaxUid
    BY DEF TypeOK, Kinds
  <2> QED
    BY <1>9, <2>1 DEF CacheCatchesUp, TypeOK, resource
<1>10. CASE UNCHANGED vars
  BY <1>10 DEF vars, TypeOK
<1> QED
  BY <1>1, <1>2, <1>3, <1>4, <1>5, <1>6, <1>7, <1>8, <1>9, <1>10 DEF Next, Provider

LEMMA PutElsewhere ==
    ASSUME TypeOK, NEW k \in Kinds, NEW o, Put(k, o)
    PROVE  obj'[k] = o /\ \A j \in Kinds : j # k => obj'[j] = obj[j]
  BY DEF Put, TypeOK

-----------------------------------------------------------------------------
(* What one object becomes in a step of its own kind.                      *)
Creates(k) ==
    At("start", k) /\ ~Exists(k) /\ Put(k, Own(uid))

Deletes(k) ==
    /\ Live(k)
    /\ Put(k, None) \/ Put(k, [obj[k] EXCEPT !.state = "terminating"])

LEMMA DeletesLive ==
    ASSUME TypeOK, NEW k \in Kinds, Deletes(k)
    PROVE  ~Live(k)' /\ \A j \in Kinds : Live(j)' => Live(j) /\ obj'[j] = obj[j]
<1>1. obj'[k] = None \/ obj'[k] = [obj[k] EXCEPT !.state = "terminating"]
  BY PutElsewhere DEF Deletes
<1>2. \A j \in Kinds : j # k => obj'[j] = obj[j]
  BY PutElsewhere DEF Deletes
<1>3. [obj[k] EXCEPT !.state = "terminating"].state = "terminating"
  BY DEF TypeOK
<1>4. ~Live(k)'
  BY <1>1, <1>3, NoneIsAnObject DEF Live
<1> QED
  BY <1>2, <1>4 DEF Live

LEMMA VanishLive ==
    ASSUME TypeOK, Vanish
    PROVE  \A j \in Kinds : Live(j)' => Live(j) /\ obj'[j] = obj[j]
<1>1. PICK k \in Kinds : Put(k, None)
  BY DEF Vanish
<1> QED
  BY <1>1, PutElsewhere, NoneIsAnObject DEF Live

LEMMA NextStop == StaleInv /\ [Next]_vars => StopInv'
<1> SUFFICES ASSUME StaleInv, [Next]_vars PROVE StopInv'
  OBVIOUS
<1> USE DEF StaleInv
<1>1. CASE CreateBranch \/ DeleteBranch
  BY <1>1 DEF CreateBranch, DeleteBranch, StopInv, LeftInv, Live, cluster
<1>2. CASE BeginStart \/ GetNodePort \/ GiveUp \/ StopDone \/ CreateUnanswered
  BY <1>2 DEF BeginStart, GetNodePort, GiveUp, StopDone, CreateUnanswered, StopInv
<1>3. CASE BeginStop
  BY <1>3 DEF BeginStop, StopInv, resource
<1>4. CASE CreateObject
  BY <1>4 DEF CreateObject, At, Advance, StopInv
<1>5. CASE DeleteObject
  <2>1. PICK k \in Kinds : At("stop", k) /\ ((~Live(k) /\ UNCHANGED cluster) \/ Deletes(k))
    BY <1>5 DEF DeleteObject, Live, Deletes
  <2>2. /\ branch' = "deleting" /\ step' = step + 1 /\ missed' = missed
        /\ k = StopOrder[step] /\ call = "stop" /\ step \in 1..5
    BY <1>5, <2>1 DEF DeleteObject, At, Advance, resource, StopInv, TypeOK
  <2>3. ~Live(k)' /\ \A j \in Kinds : Live(j)' => Live(j)
    BY <2>1, DeletesLive DEF cluster, Live
  <2>4. \A i \in 1..5 : i < step + 1 => i < step \/ i = step
    BY <2>2
  <2> QED
    BY <2>2, <2>3, <2>4, Orders DEF StopInv
<1>6. CASE DeleteFails
  <2>1. PICK k \in Kinds : At("stop", k) /\ missed' = missed \cup {k}
    BY <1>6 DEF DeleteFails
  <2>2. /\ branch' = "deleting" /\ step' = step + 1 /\ UNCHANGED obj
        /\ k = StopOrder[step] /\ call = "stop" /\ step \in 1..5
    BY <1>6, <2>1 DEF DeleteFails, At, cluster, resource, StopInv, TypeOK
  <2>3. \A i \in 1..5 : i < step + 1 => i < step \/ i = step
    BY <2>2
  <2> QED
    BY <2>1, <2>2, <2>3 DEF StopInv, Live
<1>7. CASE Vanish
  BY <1>7, VanishLive, Orders DEF Vanish, StopInv, resource
<1>8. CASE CacheCatchesUp \/ UNCHANGED vars
  BY <1>8 DEF CacheCatchesUp, vars, resource, StopInv, Live
<1> QED
  BY <1>1, <1>2, <1>3, <1>4, <1>5, <1>6, <1>7, <1>8 DEF Next, Provider

LEMMA NextLeft == StaleInv /\ [Next]_vars => LeftInv'
<1> SUFFICES ASSUME StaleInv, [Next]_vars PROVE LeftInv'
  OBVIOUS
<1> USE DEF StaleInv
<1>1. CASE CreateBranch \/ DeleteBranch
  BY <1>1 DEF CreateBranch, DeleteBranch, LeftInv, Live, cluster
<1>2. CASE BeginStart \/ GetNodePort \/ GiveUp
  BY <1>2 DEF BeginStart, GetNodePort, GiveUp, LeftInv, Live, cluster, resource
<1>3. CASE BeginStop
  BY <1>3 DEF BeginStop, LeftInv, resource
<1>4. CASE StopDone
  <2>1. \A i \in 1..5 : Live(StopOrder[i]) => StopOrder[i] \in missed
    BY <1>4 DEF StopDone, StopInv
  <2>2. \A k \in Kinds : Live(k) => k \in missed
    BY <2>1, Orders
  <2> QED
    BY <1>4, <2>2 DEF StopDone, LeftInv, Live, cluster
<1>5. CASE CreateObject \/ CreateUnanswered
  <2>1. /\ branch # "absent" /\ UNCHANGED <<branch, uid, missed>>
    BY <1>5 DEF CreateObject, CreateUnanswered, At, Advance, resource, LeftInv
  <2>2. PICK k \in Kinds : UNCHANGED obj \/ Put(k, Own(uid))
    BY <1>5 DEF CreateObject, CreateUnanswered, Own, cluster
  <2>3. \A j \in Kinds : obj'[j] = obj[j] \/ obj'[j] = Own(uid)
    BY <2>2, PutElsewhere
  <2>4. Own(uid).owner = uid
    BY DEF Own
  <2> QED
    BY <2>1, <2>3, <2>4 DEF LeftInv, Live
<1>6. CASE DeleteObject \/ DeleteFails
  BY <1>6 DEF DeleteObject, DeleteFails, At, Advance, resource, StopInv, LeftInv
<1>7. CASE Vanish
  BY <1>7, VanishLive DEF Vanish, LeftInv, resource
<1>8. CASE CacheCatchesUp \/ UNCHANGED vars
  BY <1>8 DEF CacheCatchesUp, vars, resource, LeftInv, Live
<1> QED
  BY <1>1, <1>2, <1>3, <1>4, <1>5, <1>6, <1>7, <1>8 DEF Next, Provider

LEMMA StaleInvariant == Spec => []StaleInv
<1>1. Init => StaleInv
  BY InitDatabase DEF IInv
<1>2. StaleInv /\ [Next]_vars => StaleInv'
  BY NextType, NextStop, NextLeft DEF StaleInv
<1> QED
  BY <1>1, <1>2, PTL DEF Spec

(* Every value the code can hold: the phases, the calls and the next       *)
(* object of a call, the objects and their owners.                         *)
THEOREM DatabaseTyping == Spec => []TypeOK
<1>1. StaleInv => TypeOK
  BY DEF StaleInv
<1> QED
  BY <1>1, StaleInvariant, PTL

(* Once Stop has answered nil and the finalizer is gone, every object of   *)
(* the branch is deleted or on its way out, or its own Delete failed.      *)
THEOREM StopAsksForAll == Spec => []StopReachesAll
<1>1. StaleInv => StopReachesAll
  BY DEF StaleInv, LeftInv, StopReachesAll, Live
<1> QED
  BY <1>1, StaleInvariant, PTL

(* The AlreadyExists that createPV and the others take for success lets a  *)
(* Ready branch keep a predecessor's object only if its Delete had failed. *)
THEOREM StaleOnesWereMissed == Spec => []StaleOnlyIfMissed
<1>1. StaleInv => StaleOnlyIfMissed
  BY DEF StaleInv, LeftInv, StaleOnlyIfMissed, Live
<1> QED
  BY <1>1, StaleInvariant, PTL

-----------------------------------------------------------------------------
(* While the first branch of a name is not being deleted, a step leaves    *)
(* its objects as they are or creates one of them.                         *)
LEMMA FirstObjects ==
    ASSUME IInv, [Next]_vars, uid = 1, branch \in {"creating", "ready"}
    PROVE  /\ cached' \in {0, 1}
           /\ \A k \in Kinds : obj'[k] = obj[k] \/ (obj[k] = None /\ obj'[k] = Own(1))
<1> USE DEF IInv, StaleInv
<1>1. cached \in {0, 1} /\ (\A k \in Kinds : obj[k] \in {None, Own(1)})
  BY DEF FirstInv
<1>2. /\ None.owner = 0 /\ None.state = "absent"
      /\ Own(1).owner = 1 /\ Own(1).state = "live"
  BY DEF None, Own
<1>3. CASE UNCHANGED cluster
  BY <1>1, <1>3 DEF cluster
<1>4. CASE CreateObject \/ CreateUnanswered
  <2>1. PICK k \in Kinds : UNCHANGED cluster \/ (~Exists(k) /\ Put(k, Own(1)))
    BY <1>4 DEF CreateObject, CreateUnanswered, Own
  <2>2. CASE UNCHANGED cluster
    BY <1>3, <2>2
  <2>3. CASE ~Exists(k) /\ Put(k, Own(1))
    <3>1. obj[k] = None
      BY <1>1, <1>2, <2>3 DEF Exists
    <3>2. cached' \in {0, 1}
      BY <1>1, <1>2, <2>3 DEF Put
    <3> QED
      BY <2>3, <3>1, <3>2, PutElsewhere
  <2> QED
    BY <2>1, <2>2, <2>3
<1>5. CASE DeleteObject
  BY <1>5 DEF DeleteObject, At, StopInv
<1>6. CASE Vanish
  BY <1>1, <1>2, <1>6 DEF Vanish
<1>7. CASE CacheCatchesUp
  <2>1. "svc" \in Kinds
    BY DEF Kinds
  <2> QED
    BY <1>1, <1>2, <1>7, <2>1 DEF CacheCatchesUp
<1>8. \/ UNCHANGED cluster \/ CreateObject \/ CreateUnanswered \/ DeleteObject
      \/ Vanish \/ CacheCatchesUp
  BY DEF Next, Provider, vars, CreateBranch, DeleteBranch, BeginStart, BeginStop,
         GiveUp, GetNodePort, DeleteFails, StopDone, cluster
<1> QED
  BY <1>3, <1>4, <1>5, <1>6, <1>7, <1>8

(* How the phase and the incarnation may move.                             *)
LEMMA PhaseStep ==
    ASSUME TypeOK, StopInv, [Next]_vars
    PROVE  /\ uid' = uid \/ (CreateBranch /\ uid' = uid + 1)
           /\ branch' = branch \/ CreateBranch \/ DeleteBranch \/ GetNodePort
              \/ (StopDone /\ branch' = "absent" /\ branch = "deleting")
  BY DEF Next, Provider, vars, CreateBranch, DeleteBranch, BeginStart, BeginStop,
         GiveUp, GetNodePort, DeleteFails, StopDone, CreateObject, CreateUnanswered,
         DeleteObject, Vanish, CacheCatchesUp, Advance, resource, StopInv

LEMMA FirstUncreated ==
    ASSUME IInv, [Next]_vars, uid' = 0
    PROVE  branch' = "absent" /\ cached' = 0 /\ \A k \in Kinds : obj'[k] = None
<1>1. uid = 0 /\ uid \in Nat /\ ~CreateBranch
  BY PhaseStep, DatabaseAssumption DEF IInv, StaleInv, TypeOK, CreateBranch
<1>2. /\ branch = "absent" /\ call = "none" /\ cached = 0
      /\ \A k \in Kinds : obj[k] = None
  BY <1>1 DEF IInv, StaleInv, FirstInv, LeftInv
<1>3. None.state = "absent" /\ None.owner = 0 /\ "svc" \in Kinds
  BY DEF None, Kinds
<1>4. ~Vanish /\ ~CacheCatchesUp
  BY <1>2, <1>3 DEF Vanish, CacheCatchesUp
<1>5. UNCHANGED vars
  BY <1>1, <1>2, <1>4 DEF Next, Provider, DeleteBranch, BeginStart, BeginStop, GiveUp,
         GetNodePort, DeleteFails, StopDone, CreateObject, CreateUnanswered,
         DeleteObject, At
<1> QED
  BY <1>2, <1>5 DEF vars

(* The first branch is still there after a step if it was there before, or *)
(* the step creates it.                                                    *)
LEMMA FirstPhase ==
    ASSUME IInv, [Next]_vars, uid' = 1, branch' \in {"creating", "ready"}
    PROVE  \/ CreateBranch /\ uid = 0
           \/ /\ ~CreateBranch /\ uid = 1 /\ branch \in {"creating", "ready"}
              /\ dbType' = dbType
              /\ branch' = branch \/ (GetNodePort /\ branch = "creating")
<1>1. uid \in Nat
  BY DatabaseAssumption DEF IInv, StaleInv, TypeOK
<1>2. CASE CreateBranch
  BY <1>1, <1>2 DEF CreateBranch
<1>3. CASE ~CreateBranch
  <2>1. uid = 1 /\ (branch' = branch \/ GetNodePort)
    BY <1>3, PhaseStep DEF IInv, StaleInv, DeleteBranch
  <2>2. dbType' = dbType
    BY <1>3 DEF Next, Provider, vars, DeleteBranch, BeginStart, BeginStop, GiveUp,
           GetNodePort, DeleteFails, StopDone, CreateObject, CreateUnanswered,
           DeleteObject, Vanish, CacheCatchesUp, Advance, resource
  <2>3. uid = 1 /\ (branch' = branch \/ (GetNodePort /\ branch = "creating"))
    BY <1>3, <2>1, PhaseStep DEF GetNodePort, IInv, StaleInv
  <2> QED
    BY <1>3, <2>2, <2>3
<1> QED
  BY <1>2, <1>3

LEMMA NextFirst == IInv /\ [Next]_vars => FirstInv'
<1> SUFFICES ASSUME IInv, [Next]_vars PROVE FirstInv'
  OBVIOUS
<1>1. ASSUME uid' = 1, branch' \in {"creating", "ready"}
      PROVE  cached' \in {0, 1} /\ \A k \in Kinds : obj'[k] \in {None, Own(1)}
  <2>1. CASE CreateBranch /\ uid = 0
    BY <2>1 DEF CreateBranch, cluster, IInv, FirstInv
  <2>2. CASE uid = 1 /\ branch \in {"creating", "ready"}
    BY <2>2, FirstObjects DEF IInv, FirstInv
  <2> QED
    BY <1>1, <2>1, <2>2, FirstPhase
<1>2. ASSUME uid' = 1, branch' = "creating", call' = "start",
             NEW i \in 1..5, i < step', StartOrder[i] \in Needed'
      PROVE  obj'[StartOrder[i]] = Own(1)
  <2>1. ~CreateBranch
    BY <1>2 DEF CreateBranch, IInv, StaleInv, LeftInv
  <2>2. uid = 1 /\ branch = "creating" /\ StartOrder[i] \in Needed
    BY <1>2, <2>1, FirstPhase DEF GetNodePort, Needed
  <2>3. \A k \in Kinds : obj[k] = Own(1) => obj'[k] = Own(1)
    BY <2>2, FirstObjects DEF None, Own
  <2>4. CASE CreateObject
    <3>1. PICK k \in Kinds : /\ At("start", k)
                             /\ \/ Exists(k) \/ k \notin Needed
                                \/ Put(k, Own(1))
      BY <2>2, <2>4 DEF CreateObject, Own
    <3>2. /\ call = "start" /\ step \in 1..5 /\ k = StartOrder[step]
          /\ step' = step + 1
      BY <2>4, <3>1 DEF CreateObject, At, Advance, IInv, StaleInv, TypeOK
    <3>3. i < step \/ i = step
      BY <1>2, <3>2
    <3>4. CASE i < step
      BY <2>2, <2>3, <3>2, <3>4, Orders DEF IInv, FirstInv
    <3>5. CASE i = step
      <4>1. CASE Exists(k)
        <5>1. obj[k] = Own(1)
          BY <2>2, <4>1 DEF IInv, FirstInv, Exists, None
        <5> QED
          BY <2>3, <3>2, <3>5, <5>1
      <4>2. CASE Put(k, Own(1))
        BY <3>2, <3>5, <4>2, PutElsewhere DEF IInv, StaleInv
      <4> QED
        BY <2>2, <3>1, <3>2, <3>5, <4>1, <4>2
    <3> QED
      BY <3>3, <3>4, <3>5
  <2>5. CASE ~CreateObject
    <3>1. ~BeginStart
      BY <1>2 DEF BeginStart
    <3>2. ~DeleteObject /\ ~DeleteFails
      BY <2>2 DEF DeleteObject, DeleteFails, At, IInv, StaleInv, StopInv
    <3>3. ~GetNodePort /\ ~GiveUp /\ ~CreateUnanswered /\ ~BeginStop /\ ~StopDone
          /\ ~DeleteBranch
      BY <1>2 DEF GetNodePort, GiveUp, CreateUnanswered, BeginStop, StopDone,
             DeleteBranch
    <3>4. UNCHANGED <<call, step>>
      BY <2>1, <2>5, <3>1, <3>2, <3>3 DEF Next, Provider, vars, Vanish, CacheCatchesUp
    <3>5. call = "start" /\ i < step
      BY <1>2, <3>4
    <3> QED
      BY <2>2, <2>3, <3>5, Orders DEF IInv, FirstInv
  <2> QED
    BY <2>4, <2>5
<1> QED
  BY <1>1, <1>2, FirstUncreated DEF FirstInv

LEMMA NextComplete == IInv /\ [Next]_vars => StartIsComplete'
<1> SUFFICES ASSUME IInv, [Next]_vars, branch' = "ready", uid' = 1
             PROVE  Served' /\ port' = uid'
  BY DEF StartIsComplete
<1>1. ~CreateBranch
  BY DEF CreateBranch
<1>2. uid = 1 /\ branch \in {"creating", "ready"} /\ Needed' = Needed
  BY <1>1, FirstPhase DEF Needed
<1>3. \A k \in Kinds : obj[k] = Own(1) => obj'[k] = Own(1)
  BY <1>2, FirstObjects DEF None, Own
<1>4. Needed \subseteq Kinds
  BY DEF Needed
<1>5. (\A k \in Needed : obj[k] = Own(1)) /\ port' = 1
  <2>1. CASE branch = "ready"
    <3>1. port' = port
      BY <1>1, <2>1
         DEF Next, Provider, vars, DeleteBranch, BeginStart, BeginStop, GiveUp,
             GetNodePort, DeleteFails, StopDone, CreateObject, CreateUnanswered,
             DeleteObject, Vanish, CacheCatchesUp, Advance, resource
    <3> QED
      BY <1>2, <2>1, <3>1 DEF IInv, StartIsComplete, Served, Own
  <2>2. CASE branch = "creating"
    <3>1. GetNodePort
      BY <1>1, <2>2, FirstPhase
    <3>2. call = "start" /\ step = 6 /\ port' = cached /\ cached # 0
      BY <2>2, <3>1 DEF GetNodePort
    <3>3. \A i \in 1..5 : StartOrder[i] \in Needed => obj[StartOrder[i]] = Own(1)
      BY <1>2, <2>2, <3>2 DEF IInv, FirstInv
    <3>4. \A k \in Needed : obj[k] = Own(1)
      BY <1>4, <3>3, Orders
    <3>5. port' = 1
      BY <1>2, <2>2, <3>2 DEF IInv, FirstInv
    <3> QED
      BY <3>4, <3>5
  <2> QED
    BY <1>2, <2>1, <2>2
<1> QED
  BY <1>2, <1>3, <1>4, <1>5 DEF Served, Own

(* Wherever Start of a name's first branch failed, lost an answer or was   *)
(* called again, Ready means every object it needs and its own port.       *)
THEOREM FirstStartIsComplete == Spec => []StartIsComplete
<1>1. IInv /\ [Next]_vars => IInv'
  BY NextType, NextStop, NextLeft, NextFirst, NextComplete DEF IInv, StaleInv
<1>2. IInv => StartIsComplete
  BY DEF IInv
<1> QED
  BY <1>1, <1>2, InitDatabase, PTL DEF Spec
=============================================================================
