------------------------ MODULE BranchOperator_proofs ------------------------
(***************************************************************************)
(* Proofs about BranchOperator for every number of incarnations and faults.*)
(***************************************************************************)
EXTENDS BranchOperator, TLAPS

-----------------------------------------------------------------------------
(* The inductive invariant, in named parts.                                *)

Creation == {"createClone", "start", "markReady"}
Cleanup == {"stop", "deleteClone", "removeFinalizer"}

(* What every version of the resource satisfies on its own.                *)
WellFormed(v) ==
    /\ v.fin => v.live
    /\ v.del => v.live
    /\ v.phase # "" => v.live
    /\ v.live /\ ~v.fin /\ ~v.del => v.phase = ""
    /\ v.phase = "Deleting" => v.del

(* The watch window lies between the cache and the stored object, and a    *)
(* resourceVersion names one version.                                      *)
WindowInv ==
    /\ cr \in versions /\ cache \in versions
    /\ \A v \in versions : /\ WellFormed(v)
                           /\ cache.rv <= v.rv /\ v.rv <= cr.rv
                           /\ v.rv = cr.rv => v = cr

(* A protected, undeleted version still in the window belongs to the       *)
(* incarnation that exists: only a worker that has read the deletion       *)
(* removes the finalizer. If it was Ready, so is the stored object, unless *)
(* it is being deleted.                                                    *)
Current(v) ==
    /\ cr.fin /\ cr.uid = v.uid
    /\ v.phase = "Ready" => cr.phase = "Ready" \/ cr.del

WindowIsCurrent == \A v \in versions : v.fin /\ ~v.del => Current(v)

(* The running Reconcile and the stored object.                            *)
WorkerInv ==
    /\ pc # "idle" => /\ obj.live
                      /\ obj.rv <= cr.rv
                      /\ obj.rv = cr.rv => cr = obj
    /\ pc = "addFinalizer" => ~obj.fin /\ ~obj.del
    /\ pc = "expire" => /\ obj.fin /\ obj.uid \in elapsed
                        /\ obj.phase = "Ready" /\ Current(obj)
    /\ pc = "markCreating" => obj.fin /\ ~obj.del /\ obj.phase # "Ready"
    /\ pc \in Creation => /\ cr.fin /\ cr.uid = obj.uid /\ obj.fin
                          /\ ~obj.del /\ obj.phase = "Creating"
                          /\ cr.del \/ cr.phase = "Creating"
    /\ pc = "markDeleting" => obj.del /\ obj.fin /\ obj.rv <= cache.rv
    /\ pc \in Cleanup => /\ cr.del /\ cr.fin /\ cr.phase = "Deleting"
                         /\ cr.uid = obj.uid /\ obj.phase = "Deleting"
                         /\ \A v \in versions : v.del
    /\ pc = "setError" => obj.phase \in {"Creating", "Deleting"}

ControlInv == TypeOK /\ WindowInv /\ WindowIsCurrent /\ WorkerInv

(* Clone and objects: true when no call is executed after it was given up  *)
(* and no Delete of Stop fails.                                            *)
ResourceInv ==
    /\ late = {}
    /\ clone # 0 => cr.fin /\ clone = cr.uid
    /\ db # 0 => cr.fin /\ db = cr.uid
    /\ cr.phase = "Ready" => /\ cr.fin /\ cr.exp = cr.ttl
                             /\ clone = cr.uid /\ db = cr.uid
    /\ pc \in {"start", "markReady"} => clone = cr.uid
    /\ pc = "markReady" => db = cr.uid
    /\ pc \in {"deleteClone", "removeFinalizer"} => db = 0
    /\ pc = "removeFinalizer" => clone = 0
-----------------------------------------------------------------------------
(* Every operation on the resource yields a version again.                 *)
LEMMA VersionOps ==
    ASSUME NEW v \in Version
    PROVE  /\ \A n \in Nat, u \in 0..MaxUid : Absent(n, u) \in Version
           /\ Settle(v) \in Version
           /\ DeleteOf(v) \in Version
           /\ Unprotected(v) \in Version
           /\ [v EXCEPT !.fin = TRUE, !.rv = v.rv + 1] \in Version
           /\ \A p \in Phases, e \in BOOLEAN : WithPhase(v, p, e) \in Version
<1>1. \A n \in Nat, u \in 0..MaxUid : Absent(n, u) \in Version
  BY DEF Absent, Version, Phases
<1>2. \A w \in Version : Settle(w) \in Version
  BY <1>1 DEF Settle, Version
<1>n. v.rv + 1 \in Nat
  <2>1. v.rv \in Nat
    BY DEF Version
  <2> QED
    BY <2>1
<1>3. [v EXCEPT !.del = TRUE, !.rv = v.rv + 1] \in Version
  BY <1>n DEF Version
<1>4. [v EXCEPT !.fin = FALSE, !.rv = v.rv + 1] \in Version
  BY <1>n DEF Version
<1>5. [v EXCEPT !.fin = TRUE, !.rv = v.rv + 1] \in Version
  BY <1>n DEF Version
<1>6. ASSUME NEW p \in Phases, NEW e \in BOOLEAN
      PROVE  WithPhase(v, p, e) \in Version
  <2>1. [v EXCEPT !.phase = p, !.exp = e, !.rv = v.rv + 1] \in Version
    BY <1>n DEF Version
  <2> QED
    BY <2>1 DEF WithPhase
<1> QED
  BY <1>1, <1>2, <1>3, <1>4, <1>5, <1>6 DEF DeleteOf, Unprotected

LEMMA InitTypeOK == Init => TypeOK
<1> SUFFICES ASSUME Init PROVE TypeOK
  OBVIOUS
<1>1. Blank \in Version
  BY BoundsAssumption DEF Blank, Absent, Version, Phases
<1>2. 0 \in 0..MaxUid /\ 0 \in 0..MaxFaults
  BY BoundsAssumption
<1> QED
  BY <1>1, <1>2 DEF Init, TypeOK

LEMMA NextTypeOK == TypeOK /\ [Next]_vars => TypeOK'
<1> SUFFICES ASSUME TypeOK, [Next]_vars PROVE TypeOK'
  OBVIOUS
<1> USE BoundsAssumption
<1>v. /\ cr \in Version /\ Blank \in Version
      /\ DeleteOf(cr) \in Version /\ Unprotected(cr) \in Version
      /\ [cr EXCEPT !.fin = TRUE, !.rv = cr.rv + 1] \in Version
      /\ \A p \in Phases, e \in BOOLEAN : WithPhase(cr, p, e) \in Version
      /\ cr.live \in BOOLEAN /\ cr.exp \in BOOLEAN /\ cr.ttl \in BOOLEAN /\ obj.uid \in 0..MaxUid
  <2>1. Blank \in Version
    BY DEF Blank, Absent, Version, Phases
  <2> QED
    BY <2>1, VersionOps DEF TypeOK, Version
<1>f. Fault \/ NoFault => faults' \in 0..MaxFaults
  BY DEF TypeOK, Fault, NoFault
<1>1. CASE UserCreate
  <2>1. PICK ttl \in BOOLEAN, other \in BOOLEAN :
          Commit([Absent(cr.rv + 1, cr.uid + 1) EXCEPT
                    !.live = TRUE, !.ttl = ttl, !.other = other])
    BY <1>1 DEF UserCreate
  <2>2. cr.uid + 1 \in 0..MaxUid /\ cr.rv + 1 \in Nat
    BY <1>1, <1>v DEF UserCreate, Version
  <2>3. [Absent(cr.rv + 1, cr.uid + 1) EXCEPT
                    !.live = TRUE, !.ttl = ttl, !.other = other] \in Version
    BY <2>2 DEF Absent, Version, Phases
  <2> QED
    BY <1>1, <2>1, <2>3
       DEF UserCreate, TypeOK, Commit, worker, outside
<1>2. CASE UserDelete
  BY <1>2, <1>v DEF UserDelete, TypeOK, Commit, worker, outside
<1>3. CASE OtherFinalizerRemoved
  <2>1. [cr EXCEPT !.other = FALSE, !.rv = cr.rv + 1] \in Version
    BY <1>v DEF Version
  <2>2. Settle([cr EXCEPT !.other = FALSE, !.rv = cr.rv + 1]) \in Version
    BY <2>1, VersionOps
  <2> QED
    BY <1>3, <2>2
       DEF OtherFinalizerRemoved, TypeOK, Commit, worker, outside
<1>4. CASE Elapse
  <2>1. \A v \in versions : v.uid \in 0..MaxUid
    BY DEF TypeOK, Version
  <2> QED
    BY <2>1, <1>4 DEF Elapse, TypeOK, informer, worker, outside
<1>5. CASE Deliver
  BY <1>5 DEF Deliver, TypeOK, worker, outside
<1>6. CASE TimerFires
  BY <1>6 DEF TimerFires, TypeOK, informer, worker, outside
<1>7. CASE LateCall
  BY <1>7 DEF LateCall, CloneFor, TypeOK, server, worker
<1>8. CASE Crash
  <2>1. late' \subseteq [op : {"create", "delete"}, uid : 0..MaxUid]
    BY <1>8, <1>v DEF Crash, GiveUp, TypeOK
  <2>2. /\ cr' \in Version /\ cache' \in Version /\ obj' \in Version
        /\ versions' \subseteq Version
        /\ queue' \in BOOLEAN /\ timer' \in BOOLEAN /\ pc' = "idle"
    BY <1>8, <1>v DEF Crash, TypeOK
  <2> QED
    BY <1>8, <1>f, <2>1, <2>2 DEF Crash, TypeOK
<1>9. ASSUME NEW next \in {"idle", "expire", "addFinalizer", "markCreating",
                           "markDeleting"},
             Begin(next), timer' \in BOOLEAN
      PROVE  TypeOK'
  BY <1>9, <1>v, <1>f DEF Begin, TypeOK, informer, outside
<1>10. CASE ReconcileNothing
  BY <1>10, <1>9 DEF ReconcileNothing, TypeOK
<1>11. CASE ReconcileDeletion
  BY <1>11, <1>9 DEF ReconcileDeletion, TypeOK
<1>12. CASE ReconcileExpired
  BY <1>12, <1>9 DEF ReconcileExpired, TypeOK
<1>13. CASE ReconcileUnprotected
  BY <1>13, <1>9 DEF ReconcileUnprotected, TypeOK
<1>14. CASE ReconcileReady
  BY <1>14, <1>9 DEF ReconcileReady, TypeOK
<1>15. CASE ReconcileCreation
  BY <1>15, <1>9 DEF ReconcileCreation, TypeOK
<1>16. CASE DeleteExpired
  BY <1>16, <1>v, <1>f DEF DeleteExpired, TypeOK, Commit, Return, Requeue, server, outside
<1>17. ASSUME NEW v \in Version, WriteFails(v), timer' \in BOOLEAN,
              UNCHANGED <<cache, outside, elapsed>>
       PROVE  TypeOK'
  BY <1>17, <1>v, <1>f DEF WriteFails, TypeOK, Commit, Requeue, server, outside
<1>18. ASSUME NEW v \in Version, NEW at,
              NEW next \in {"createClone", "stop"}, Write(at, v, next)
       PROVE  TypeOK'
  <2>1. CASE WriteFails(v)
    BY <1>18, <2>1, <1>17 DEF Write, TypeOK
  <2>2. CASE ~WriteFails(v)
    BY <1>18, <2>2, <1>f DEF Write, TypeOK, Commit, outside
  <2> QED
    BY <2>1, <2>2
<1>19. CASE AddFinalizer
  <2> DEFINE v == [cr EXCEPT !.fin = TRUE, !.rv = cr.rv + 1]
  <2>1. v \in Version
    BY <1>v
  <2>2. CASE WriteFails(v)
    BY <1>19, <2>1, <2>2, <1>17 DEF AddFinalizer, TypeOK
  <2>3. CASE ~WriteFails(v)
    BY <1>19, <2>1, <2>3, <1>v, <1>f DEF AddFinalizer, TypeOK, Commit, Requeue,
                                   outside
  <2> QED
    BY <2>2, <2>3
<1>20. CASE MarkCreating
  <2>1. WithPhase(cr, "Creating", cr.exp) \in Version
    BY <1>v, <1>f DEF Phases
  <2> QED
    BY <1>20, <2>1, <1>18 DEF MarkCreating
<1>21. CASE CreateClone
  BY <1>21, <1>v, <1>f DEF CreateClone, CloneFor, GiveUp, Goto, TypeOK, server
<1>22. CASE Start
  BY <1>22, <1>v, <1>f DEF Start, ObjectsFor, Goto, TypeOK, server
<1>23. CASE MarkReady
  <2> DEFINE v == WithPhase(cr, "Ready", cr.ttl)
  <2>1. v \in Version
    BY <1>v, <1>f DEF Phases
  <2>2. CASE WriteFails(v) /\ UNCHANGED timer
    BY <1>23, <2>1, <2>2, <1>17 DEF MarkReady, TypeOK
  <2>3. CASE ~(WriteFails(v) /\ UNCHANGED timer)
    BY <1>23, <2>1, <2>3, <1>v, <1>f DEF MarkReady, TypeOK, Commit, Return,
                                   outside
  <2> QED
    BY <2>2, <2>3
<1>24. CASE MarkDeleting
  <2>1. WithPhase(cr, "Deleting", cr.exp) \in Version
    BY <1>v, <1>f DEF Phases
  <2> QED
    BY <1>24, <2>1, <1>18 DEF MarkDeleting
<1>25. CASE Stop
  BY <1>25, <1>v, <1>f DEF Stop, Goto, TypeOK, server
<1>26. CASE DeleteClone
  BY <1>26, <1>v, <1>f DEF DeleteClone, GiveUp, Goto, TypeOK, server
<1>27. CASE RemoveFinalizer
  <2>1. CASE WriteFails(Unprotected(cr))
    BY <1>27, <2>1, <1>v, <1>17 DEF RemoveFinalizer, TypeOK
  <2>2. CASE ~WriteFails(Unprotected(cr))
    BY <1>27, <2>2, <1>v, <1>f DEF RemoveFinalizer, TypeOK, Commit, Return,
                             outside
  <2> QED
    BY <2>1, <2>2
<1>28. CASE SetError
  <2>1. WithPhase(cr, "Error", cr.exp) \in Version
    BY <1>v, <1>f DEF Phases
  <2> QED
    BY <1>28, <2>1, <1>v, <1>f DEF SetError, TypeOK, Commit, Requeue, server, outside
<1>29. CASE UNCHANGED vars
  BY <1>29 DEF vars, TypeOK
<1> QED
  BY <1>1, <1>2, <1>3, <1>4, <1>5, <1>6, <1>7, <1>8, <1>10, <1>11, <1>12,
     <1>13, <1>14, <1>15, <1>16, <1>19, <1>20, <1>21, <1>22, <1>23, <1>24,
     <1>25, <1>26, <1>27, <1>28, <1>29 DEF Next, Reconcile, Environment

(* Every variable keeps its type, whatever the bounds and toggles.         *)
THEOREM TypeCorrect == Spec => []TypeOK
  BY InitTypeOK, NextTypeOK, PTL DEF Spec
-----------------------------------------------------------------------------
(* The control invariant.                                                  *)

Successor(v) == v \in Version /\ v.rv = cr.rv + 1 /\ WellFormed(v)

(* v may follow cr: it is the next version, and does not take the          *)
(* finalizer, a deletion or readiness away from a protected branch.        *)
Follows(v) ==
    /\ Successor(v)
    /\ cr.fin => /\ v.fin /\ v.uid = cr.uid
                 /\ cr.del => v.del
                 /\ cr.phase = "Ready" => v.phase = "Ready" \/ v.del

LEMMA CommitWindow ==
    ASSUME ControlInv, NEW v, Successor(v), Commit(v), UNCHANGED cache
    PROVE  WindowInv'
<1>1. /\ cr \in versions /\ cache \in versions /\ cr' = v /\ cache' = cache
      /\ versions' = versions \cup {v}
  BY DEF ControlInv, WindowInv, Commit
<1>2. \A w \in versions \cup {cache, cr, v} : w.rv \in Nat
  BY <1>1 DEF ControlInv, TypeOK, Version, Successor
<1>3. \A w \in versions : w.rv < v.rv
  BY <1>1, <1>2 DEF ControlInv, WindowInv, Successor
<1> QED
  BY <1>1, <1>2, <1>3 DEF ControlInv, WindowInv, Successor

LEMMA CommitCurrent ==
    ASSUME ControlInv, NEW v, Follows(v), Commit(v)
    PROVE  WindowIsCurrent'
<1>1. cr' = v /\ versions' = versions \cup {v}
  BY DEF Commit
<1>2. ASSUME NEW w \in versions, w.fin, ~w.del
      PROVE  v.fin /\ v.uid = w.uid
             /\ (w.phase = "Ready" => v.phase = "Ready" \/ v.del)
  BY <1>2 DEF ControlInv, WindowIsCurrent, Current, Follows
<1> QED
  BY <1>1, <1>2 DEF WindowIsCurrent, Current

(* A write that changes nothing makes no version.                          *)
LEMMA CommitSame ==
    ASSUME ControlInv, Commit(cr), UNCHANGED cache
    PROVE  UNCHANGED <<cr, versions>> /\ WindowInv' /\ WindowIsCurrent'
<1>1. cr' = cr /\ versions' = versions
  BY DEF Commit, ControlInv, WindowInv
<1> QED
  BY <1>1 DEF ControlInv, WindowInv, WindowIsCurrent, Current

(* The fields of the versions the clients write.                           *)
LEMMA WrittenFields ==
    ASSUME cr \in Version, WellFormed(cr)
    PROVE  /\ cr.live => Follows(DeleteOf(cr))
           /\ cr.live => Follows(Settle([cr EXCEPT !.other = FALSE,
                                                   !.rv = cr.rv + 1]))
           /\ cr.fin => /\ DeleteOf(cr).phase = cr.phase
                        /\ Settle([cr EXCEPT !.other = FALSE,
                                             !.rv = cr.rv + 1]).phase = cr.phase
<1> DEFINE d == [cr EXCEPT !.del = TRUE, !.rv = cr.rv + 1]
           o == [cr EXCEPT !.other = FALSE, !.rv = cr.rv + 1]
<1>1. cr.rv + 1 \in Nat
  <2>1. cr.rv \in Nat
    BY DEF Version
  <2> QED
    BY <2>1
<1>2. d \in Version /\ o \in Version
  BY <1>1 DEF Version
<1>3. Settle(d) \in Version /\ Settle(o) \in Version
  BY <1>2, VersionOps
<1>4. /\ d.rv = cr.rv + 1 /\ d.del /\ d.fin = cr.fin /\ d.live = cr.live
      /\ d.phase = cr.phase /\ d.uid = cr.uid /\ d.other = cr.other
  BY DEF Version
<1>5. /\ o.rv = cr.rv + 1 /\ o.del = cr.del /\ o.fin = cr.fin
      /\ o.live = cr.live /\ o.phase = cr.phase /\ o.uid = cr.uid /\ ~o.other
  BY DEF Version
<1>6. cr.live => Follows(Settle(d))
  BY <1>3, <1>4 DEF Settle, Follows, Successor, WellFormed, Absent
<1>7. cr.live => Follows(Settle(o))
  BY <1>3, <1>5 DEF Settle, Follows, Successor, WellFormed, Absent
<1>8. cr.fin => Settle(d).phase = cr.phase /\ Settle(o).phase = cr.phase
  BY <1>4, <1>5 DEF Settle
<1> QED
  BY <1>6, <1>7, <1>8 DEF DeleteOf

(* A write of somebody else leaves the running Reconcile as it was.        *)
LEMMA OthersWrite ==
    ASSUME ControlInv, NEW v, Follows(v), cr.fin => v.phase = cr.phase,
           Commit(v), UNCHANGED <<cache, pc, obj, elapsed>>
    PROVE  WorkerInv'
<1>1. /\ cr' = v /\ versions' = versions \cup {v}
      /\ cache' = cache /\ pc' = pc /\ obj' = obj /\ elapsed' = elapsed
  BY DEF Commit
<1>2. cr.rv \in Nat /\ obj.rv \in Nat
  BY DEF ControlInv, TypeOK, Version
<1>3. v.rv = cr.rv + 1
  BY DEF Follows, Successor
<1>4. pc # "idle" => obj.live /\ obj.rv <= v.rv /\ obj.rv # v.rv
  BY <1>2, <1>3 DEF ControlInv, WorkerInv
<1>5. pc = "expire" => /\ obj.fin /\ obj.uid \in elapsed
                       /\ obj.phase = "Ready"
                       /\ v.fin /\ v.uid = obj.uid
                       /\ v.phase = "Ready" \/ v.del
  BY DEF ControlInv, WorkerInv, Current, Follows
<1>6. pc \in Creation => /\ v.fin /\ v.uid = obj.uid
                         /\ v.del \/ v.phase = "Creating"
  BY DEF ControlInv, WorkerInv, Follows
<1>7. pc \in Cleanup => /\ v.del /\ v.fin /\ v.phase = "Deleting"
                        /\ v.uid = obj.uid /\ obj.phase = "Deleting"
                        /\ \A w \in versions \cup {v} : w.del
  BY DEF ControlInv, WorkerInv, Follows
<1> QED
  BY <1>1, <1>4, <1>5, <1>6, <1>7 DEF ControlInv, WorkerInv, Current

LEMMA PhaseWritten ==
    ASSUME cr \in Version, WellFormed(cr), cr.live, cr.fin \/ cr.del,
           NEW p \in Phases \ {""}, NEW e \in BOOLEAN,
           p = "Deleting" => cr.del,
           cr.phase = "Ready" => p = "Ready" \/ cr.del
    PROVE  /\ WithPhase(cr, p, e) = cr \/ Follows(WithPhase(cr, p, e))
           /\ WithPhase(cr, p, e) \in Version
           /\ WithPhase(cr, p, e).phase = p
           /\ \A f \in {"live", "fin", "del", "uid", "other", "ttl"} :
                WithPhase(cr, p, e)[f] = cr[f]
<1> DEFINE v == WithPhase(cr, p, e)
<1>1. v \in Version
  BY VersionOps
<1>2. /\ v.phase = p /\ v.live = cr.live /\ v.fin = cr.fin /\ v.del = cr.del
      /\ v.uid = cr.uid /\ v.other = cr.other /\ v.ttl = cr.ttl
      /\ v = cr \/ v.rv = cr.rv + 1
  BY DEF WithPhase, Version
<1>3. v = cr \/ Follows(v)
  BY <1>1, <1>2 DEF Follows, Successor, WellFormed
<1> QED
  BY <1>1, <1>2, <1>3

(* A Reconcile that has returned asks nothing of the invariant.            *)
LEMMA IdleWorker == ASSUME pc' = "idle" PROVE WorkerInv'
  BY DEF WorkerInv, Creation, Cleanup

(* What the optimistic lock gives: the local copy is the stored object.    *)
LEMMA FreshCopy ==
    ASSUME ControlInv, pc # "idle", Fresh
    PROVE  cr = obj /\ cr \in Version /\ WellFormed(cr) /\ cr.live
  BY DEF ControlInv, TypeOK, WindowInv, WorkerInv, Fresh

(* Commit(v) of a version that is new or the same.                         *)
LEMMA CommitEither ==
    ASSUME ControlInv, NEW v, v = cr \/ Follows(v), Commit(v),
           UNCHANGED cache
    PROVE  WindowInv' /\ WindowIsCurrent'
  BY CommitSame, CommitWindow, CommitCurrent DEF Follows

LEMMA ServerUnchanged ==
    ASSUME ControlInv, UNCHANGED <<cr, versions, cache>>
    PROVE  WindowInv' /\ WindowIsCurrent'
  BY DEF ControlInv, WindowInv, WindowIsCurrent, Current

(* A write that fails, or whose answer is lost, ends the Reconcile.        *)
LEMMA FailedWrite ==
    ASSUME ControlInv, NEW v, WriteFails(v), UNCHANGED cache,
           Fresh => v = cr \/ Follows(v)
    PROVE  WindowInv' /\ WindowIsCurrent' /\ WorkerInv'
<1>1. pc' = "idle"
  BY DEF WriteFails, Requeue
<1>2. UNCHANGED server \/ (Fresh /\ Commit(v))
  BY DEF WriteFails
<1>3. CASE UNCHANGED server
  BY <1>1, <1>3, IdleWorker, ServerUnchanged DEF server
<1>4. CASE Fresh /\ Commit(v)
  BY <1>1, <1>4, IdleWorker, CommitEither
<1> QED
  BY <1>2, <1>3, <1>4

(* The steps of Reconcile between two writes leave the server alone.       *)
LEMMA CallStep ==
    ASSUME ControlInv, UNCHANGED <<cr, versions, cache, obj, elapsed>>,
           \/ pc \in Creation /\ pc' \in Creation
           \/ pc \in Cleanup /\ pc' \in Cleanup
           \/ pc \in Creation \cup Cleanup /\ pc' = "setError"
    PROVE  WindowInv' /\ WindowIsCurrent' /\ WorkerInv'
<1>1. WindowInv' /\ WindowIsCurrent'
  BY ServerUnchanged
<1>2. pc' \notin {"idle", "addFinalizer", "expire", "markCreating",
                  "markDeleting"}
  BY DEF Creation, Cleanup
<1>3. CASE pc \in Creation
  BY <1>1, <1>2, <1>3 DEF ControlInv, WorkerInv, Creation, Cleanup
<1>4. CASE pc \in Cleanup
  <2>1. obj.live /\ obj.rv <= cr.rv /\ (obj.rv = cr.rv => cr = obj)
    BY <1>4 DEF ControlInv, WorkerInv, Cleanup
  <2> QED
    BY <1>1, <1>2, <1>4, <2>1 DEF ControlInv, WorkerInv, Creation, Cleanup
<1> QED
  BY <1>1, <1>3, <1>4

LEMMA InitControl == Init => ControlInv
<1> SUFFICES ASSUME Init PROVE ControlInv
  OBVIOUS
<1>1. TypeOK
  BY InitTypeOK
<1>2. WellFormed(Blank) /\ ~Blank.fin /\ Blank.rv = 0
  BY DEF WellFormed, Blank, Absent
<1>3. WindowInv /\ WindowIsCurrent
  BY <1>2 DEF Init, WindowInv, WindowIsCurrent
<1>4. WorkerInv
  BY DEF Init, WorkerInv, Creation, Cleanup
<1> QED
  BY <1>1, <1>3, <1>4 DEF ControlInv

(* The environment: users, other controllers, clock, watch, agent, crash.  *)
LEMMA EnvironmentControl ==
    ASSUME ControlInv, Environment
    PROVE  WindowInv' /\ WindowIsCurrent' /\ WorkerInv'
<1>v. cr \in Version /\ WellFormed(cr)
  BY DEF ControlInv, TypeOK, WindowInv
<1>1. CASE UserCreate
  <2>1. PICK ttl \in BOOLEAN, other \in BOOLEAN :
          Commit([Absent(cr.rv + 1, cr.uid + 1) EXCEPT
                    !.live = TRUE, !.ttl = ttl, !.other = other])
    BY <1>1 DEF UserCreate
  <2> DEFINE v == [Absent(cr.rv + 1, cr.uid + 1) EXCEPT
                    !.live = TRUE, !.ttl = ttl, !.other = other]
  <2>2. cr.uid + 1 \in 0..MaxUid /\ cr.rv + 1 \in Nat
    BY <1>1, <1>v, BoundsAssumption DEF UserCreate, Version
  <2>3. v \in Version
    BY <2>2 DEF Absent, Version, Phases
  <2>4. /\ v.rv = cr.rv + 1 /\ v.live /\ ~v.fin /\ ~v.del /\ v.phase = ""
    BY DEF Absent
  <2>5. ~cr.fin
    BY <1>1, <1>v DEF UserCreate, WellFormed
  <2>6. Follows(v)
    BY <2>3, <2>4, <2>5 DEF Follows, Successor, WellFormed
  <2>7. Commit(v) /\ UNCHANGED <<cache, pc, obj, elapsed>>
    BY <1>1, <2>1 DEF UserCreate, worker
  <2> HIDE DEF v
  <2> QED
    BY <2>5, <2>6, <2>7, CommitWindow, CommitCurrent, OthersWrite DEF Follows
<1>2. CASE UserDelete
  <2> DEFINE v == DeleteOf(cr)
  <2>1. Follows(v) /\ (cr.fin => v.phase = cr.phase)
    BY <1>2, <1>v, WrittenFields DEF UserDelete
  <2>2. Commit(v) /\ UNCHANGED <<cache, pc, obj, elapsed>>
    BY <1>2 DEF UserDelete, worker
  <2> HIDE DEF v
  <2> QED
    BY <2>1, <2>2, CommitWindow, CommitCurrent, OthersWrite DEF Follows
<1>3. CASE OtherFinalizerRemoved
  <2> DEFINE v == Settle([cr EXCEPT !.other = FALSE, !.rv = cr.rv + 1])
  <2>1. Follows(v) /\ (cr.fin => v.phase = cr.phase)
    BY <1>3, <1>v, WrittenFields DEF OtherFinalizerRemoved
  <2>2. Commit(v) /\ UNCHANGED <<cache, pc, obj, elapsed>>
    BY <1>3 DEF OtherFinalizerRemoved, worker
  <2> HIDE DEF v
  <2> QED
    BY <2>1, <2>2, CommitWindow, CommitCurrent, OthersWrite DEF Follows
<1>4. CASE Elapse
  <2>1. /\ UNCHANGED <<cr, versions, cache, pc, obj>>
        /\ elapsed \subseteq elapsed'
    BY <1>4 DEF Elapse, informer, worker
  <2> QED
    BY <2>1, ServerUnchanged DEF ControlInv, WorkerInv, Current
<1>5. CASE Deliver
  <2>1. PICK v \in versions : /\ v.rv > cache.rv
                              /\ cache' = v
                              /\ versions' = {w \in versions : w.rv >= v.rv}
    BY <1>5 DEF Deliver
  <2>2. \A w \in versions \cup {cache, cr, obj} : w.rv \in Nat
    BY DEF ControlInv, TypeOK, Version
  <2>3. cr' = cr /\ pc' = pc /\ obj' = obj /\ elapsed' = elapsed
    BY <1>5 DEF Deliver, worker
  <2>4. WindowInv'
    BY <2>1, <2>2, <2>3 DEF ControlInv, WindowInv
  <2>5. WindowIsCurrent'
    BY <2>1, <2>3 DEF ControlInv, WindowIsCurrent, Current
  <2>6. obj.rv <= cache.rv => obj.rv <= cache'.rv
    BY <2>1, <2>2
  <2>7. WorkerInv'
    BY <2>1, <2>3, <2>6 DEF ControlInv, WorkerInv, Current
  <2> QED
    BY <2>4, <2>5, <2>7
<1>6. ASSUME UNCHANGED <<cr, versions, cache, pc, obj, elapsed>>
      PROVE  WindowInv' /\ WindowIsCurrent' /\ WorkerInv'
  BY <1>6, ServerUnchanged DEF ControlInv, WorkerInv, Current
<1>7. CASE TimerFires
  BY <1>6, <1>7 DEF TimerFires, informer, worker
<1>8. CASE LateCall
  BY <1>6, <1>8 DEF LateCall, server, worker
<1>9. CASE Crash
  <2>1. cr' = cr /\ cache' = cr /\ versions' = {cr} /\ pc' = "idle"
    BY <1>9 DEF Crash
  <2>2. cr.rv \in Nat
    BY <1>v DEF Version
  <2>3. WindowInv'
    BY <1>v, <2>1, <2>2 DEF WindowInv
  <2>4. WindowIsCurrent'
    BY <2>1 DEF WindowIsCurrent, Current
  <2> QED
    BY <2>1, <2>3, <2>4, IdleWorker
<1> QED
  BY <1>1, <1>2, <1>3, <1>4, <1>5, <1>7, <1>8, <1>9 DEF Environment

(* The steps of Reconcile.                                                 *)
LEMMA ReconcileControl ==
    ASSUME ControlInv, Reconcile
    PROVE  WindowInv' /\ WindowIsCurrent' /\ WorkerInv'
<1>v. cr \in Version /\ WellFormed(cr) /\ cache \in versions
      /\ WellFormed(cache)
  BY DEF ControlInv, TypeOK, WindowInv
<1>b. cr.exp \in BOOLEAN /\ cr.ttl \in BOOLEAN
  BY <1>v DEF Version
<1>p. {"Creating", "Ready", "Error", "Deleting"} = Phases \ {""}
  BY DEF Phases
<1>1. ASSUME NEW next, Begin(next), next # "idle", cache.live
      PROVE  /\ UNCHANGED <<cr, versions, cache, elapsed>>
             /\ pc' = next /\ obj' = cache
             /\ WindowInv' /\ WindowIsCurrent'
             /\ obj'.live /\ obj'.rv <= cr'.rv
             /\ obj'.rv = cr'.rv => cr' = obj'
  <2>1. /\ UNCHANGED <<cr, versions, cache, elapsed>>
        /\ pc' = next /\ obj' = cache
    BY <1>1 DEF Begin, informer
  <2> QED
    BY <1>1, <1>v, <2>1, ServerUnchanged DEF ControlInv, WindowInv
<1>2. ASSUME Begin("idle")
      PROVE  WindowInv' /\ WindowIsCurrent' /\ WorkerInv'
  BY <1>2, ServerUnchanged, IdleWorker DEF Begin, informer
<1>3. CASE ReconcileNothing
  BY <1>2, <1>3 DEF ReconcileNothing
<1>4. CASE ReconcileReady
  BY <1>2, <1>4 DEF ReconcileReady
<1>5. CASE ReconcileDeletion
  <2>1. cache.rv <= cache.rv
    BY DEF ControlInv, TypeOK, Version
  <2> QED
    BY <1>5, <1>1, <2>1
       DEF ReconcileDeletion, WorkerInv, Creation, Cleanup
<1>6. CASE ReconcileExpired
  <2>1. cache.fin
    BY <1>6, <1>v DEF ReconcileExpired, Expired, WellFormed
  <2>2. Current(cache)
    BY <1>6, <1>v, <2>1 DEF ReconcileExpired, ControlInv, WindowIsCurrent
  <2> QED
    BY <1>6, <1>1, <2>1, <2>2
       DEF ReconcileExpired, Expired, WorkerInv, Current, Creation, Cleanup
<1>7. CASE ReconcileUnprotected
  BY <1>7, <1>1 DEF ReconcileUnprotected, WorkerInv, Creation, Cleanup
<1>8. CASE ReconcileCreation
  BY <1>8, <1>1 DEF ReconcileCreation, WorkerInv, Creation, Cleanup
<1>9. CASE DeleteExpired
  <2>1. pc' = "idle" /\ cache' = cache
    BY <1>9 DEF DeleteExpired, Return, Requeue
  <2>2. UNCHANGED server \/ (cr.live /\ Commit(DeleteOf(cr)))
    BY <1>9 DEF DeleteExpired
  <2>3. CASE UNCHANGED server
    BY <2>1, <2>3, ServerUnchanged, IdleWorker DEF server
  <2>4. CASE cr.live /\ Commit(DeleteOf(cr))
    BY <1>v, <2>1, <2>4, WrittenFields, CommitEither, IdleWorker
  <2> QED
    BY <2>2, <2>3, <2>4
<1>10. CASE AddFinalizer
  <2> DEFINE v == [cr EXCEPT !.fin = TRUE, !.rv = cr.rv + 1]
  <2>1. Fresh => Follows(v)
    <3> SUFFICES ASSUME Fresh PROVE Follows(v)
      OBVIOUS
    <3>1. cr = obj /\ cr.live /\ ~cr.fin /\ ~cr.del
      BY <1>10, FreshCopy DEF AddFinalizer, ControlInv, WorkerInv
    <3>2. v \in Version
      BY <1>v, VersionOps
    <3>3. /\ v.rv = cr.rv + 1 /\ v.live /\ v.fin /\ ~v.del
          /\ v.phase = cr.phase
      BY <1>v, <3>1 DEF Version
    <3> QED
      BY <1>v, <3>1, <3>2, <3>3 DEF Follows, Successor, WellFormed
  <2>2. (Fresh /\ Commit(v) /\ pc' = "idle") \/ WriteFails(v)
    BY <1>10 DEF AddFinalizer, Requeue
  <2>3. cache' = cache
    BY <1>10 DEF AddFinalizer
  <2> HIDE DEF v
  <2> QED
    BY <2>1, <2>2, <2>3, CommitEither, IdleWorker, FailedWrite
<1>11. CASE MarkCreating
  <2> DEFINE v == WithPhase(cr, "Creating", cr.exp)
  <2>1. Fresh => /\ cr = obj /\ cr.live /\ cr.fin /\ ~cr.del
                 /\ cr.phase # "Ready"
    BY <1>11, FreshCopy DEF MarkCreating, Write, ControlInv, WorkerInv
  <2>2. Fresh => /\ v = cr \/ Follows(v)
                 /\ v \in Version
                 /\ v.phase = "Creating" /\ v.live /\ v.fin /\ ~v.del
    <3> SUFFICES ASSUME Fresh
                 PROVE  /\ v = cr \/ Follows(v)
                        /\ v \in Version
                        /\ v.phase = "Creating" /\ v.live /\ v.fin /\ ~v.del
      OBVIOUS
    <3>1. cr.live /\ cr.fin /\ ~cr.del /\ cr.phase # "Ready"
      BY <2>1
    <3>2. "Creating" \in Phases \ {""}
      BY <1>p
    <3> QED
      BY <1>v, <1>b, <3>1, <3>2, PhaseWritten
  <2>3. cache' = cache
    BY <1>11 DEF MarkCreating, Write
  <2>4. CASE WriteFails(v)
    BY <2>2, <2>3, <2>4, FailedWrite
  <2>5. CASE ~WriteFails(v)
    <3>1. Fresh /\ Commit(v) /\ pc' = "createClone" /\ obj' = v
      BY <1>11, <2>5 DEF MarkCreating, Write
    <3>2. cr' = v
      BY <3>1 DEF Commit
    <3>3. v.rv <= v.rv
      BY <2>2, <3>1 DEF Version
    <3>4. WindowInv' /\ WindowIsCurrent'
      BY <2>2, <2>3, <3>1, CommitEither
    <3>5. WorkerInv'
      BY <2>2, <3>1, <3>2, <3>3 DEF WorkerInv, Creation, Cleanup
    <3> QED
      BY <3>4, <3>5
  <2> QED
    BY <2>4, <2>5
<1>12. CASE CreateClone
  BY <1>12, CallStep
     DEF CreateClone, Goto, server, Creation, Cleanup
<1>13. CASE Start
  BY <1>13, CallStep DEF Start, Goto, server, Creation, Cleanup
<1>14. CASE MarkReady
  <2> DEFINE v == WithPhase(cr, "Ready", cr.ttl)
  <2>1. Fresh => cr = obj /\ cr.live /\ cr.fin
    BY <1>14, FreshCopy DEF MarkReady, ControlInv, WorkerInv, Creation
  <2>2. Fresh => v = cr \/ Follows(v)
    <3> SUFFICES ASSUME Fresh PROVE v = cr \/ Follows(v)
      OBVIOUS
    <3>1. cr.live /\ (cr.fin \/ cr.del)
      BY <2>1
    <3>2. cr.phase = "Ready" => "Ready" = "Ready" \/ cr.del
      BY <2>1
    <3>3. "Ready" \in Phases \ {""}
      BY <1>p
    <3> QED
      BY <1>v, <1>b, <3>1, <3>2, <3>3, PhaseWritten
  <2>3. cache' = cache
    BY <1>14 DEF MarkReady
  <2>4. (Fresh /\ Commit(v) /\ pc' = "idle") \/ WriteFails(v)
    BY <1>14 DEF MarkReady, Return
  <2> HIDE DEF v
  <2> QED
    BY <2>2, <2>3, <2>4, CommitEither, IdleWorker, FailedWrite
<1>15. CASE MarkDeleting
  <2> DEFINE v == WithPhase(cr, "Deleting", cr.exp)
  <2>1. Fresh => cr = obj /\ cr.live /\ cr.fin /\ cr.del
    BY <1>15, FreshCopy DEF MarkDeleting, Write, ControlInv, WorkerInv
  <2>2. Fresh => /\ v = cr \/ Follows(v)
                 /\ v \in Version
                 /\ v.phase = "Deleting" /\ v.live /\ v.fin /\ v.del
    BY <1>v, <1>b, <1>p, <2>1, PhaseWritten
  <2>3. cache' = cache
    BY <1>15 DEF MarkDeleting, Write
  <2>4. CASE WriteFails(v)
    BY <2>2, <2>3, <2>4, FailedWrite
  <2>5. CASE ~WriteFails(v)
    <3>1. Fresh /\ Commit(v) /\ pc' = "stop" /\ obj' = v
      BY <1>15, <2>5 DEF MarkDeleting, Write
    <3>2. cr' = v /\ versions' = versions \cup {v}
      BY <3>1 DEF Commit
    <3>3. v.rv <= v.rv
      BY <2>2, <3>1 DEF Version
    <3>4. obj.rv <= cache.rv /\ pc = "markDeleting"
      BY <1>15 DEF MarkDeleting, Write, ControlInv, WorkerInv
    <3>5. \A w \in versions \cup {cr, cache} : w.rv \in Nat
      BY DEF ControlInv, TypeOK, Version
    <3>6. \A w \in versions : w = cr
      BY <3>1, <3>4, <3>5, <2>1 DEF ControlInv, WindowInv
    <3>7. WindowInv' /\ WindowIsCurrent'
      BY <2>2, <2>3, <3>1, CommitEither
    <3>8. WorkerInv'
      BY <2>1, <2>2, <3>1, <3>2, <3>3, <3>6
         DEF WorkerInv, Creation, Cleanup
    <3> QED
      BY <3>7, <3>8
  <2> QED
    BY <2>4, <2>5
<1>16. CASE Stop
  BY <1>16, CallStep DEF Stop, Goto, server, Creation, Cleanup
<1>17. CASE DeleteClone
  BY <1>17, CallStep DEF DeleteClone, Goto, server, Creation, Cleanup
<1>18. CASE RemoveFinalizer
  <2> DEFINE v == Unprotected(cr)
  <2>1. cache' = cache /\ pc' = "idle"
    BY <1>18 DEF RemoveFinalizer, Return, WriteFails, Requeue
  <2>2. UNCHANGED server \/ Commit(v)
    BY <1>18 DEF RemoveFinalizer, WriteFails
  <2>3. CASE UNCHANGED server
    BY <2>1, <2>3, ServerUnchanged, IdleWorker DEF server
  <2>4. CASE Commit(v)
    <3>1. cr.del /\ cr.fin /\ \A w \in versions : w.del
      BY <1>18 DEF RemoveFinalizer, ControlInv, WorkerInv, Cleanup
    <3> DEFINE u == [cr EXCEPT !.fin = FALSE, !.rv = cr.rv + 1]
    <3>2. v \in Version
      BY <1>v, VersionOps
    <3>3. /\ u.rv = cr.rv + 1 /\ ~u.fin /\ u.del = cr.del
          /\ u.live = cr.live /\ u.phase = cr.phase
      BY <1>v DEF Version
    <3>4. v.rv = cr.rv + 1 /\ ~v.fin /\ WellFormed(v)
      BY <1>v, <3>1, <3>3 DEF Unprotected, Settle, Absent, WellFormed
    <3>5. WindowInv'
      BY <2>1, <2>4, <3>2, <3>4, CommitWindow DEF Successor
    <3>6. WindowIsCurrent'
      BY <2>4, <3>1, <3>4 DEF Commit, WindowIsCurrent
    <3> QED
      BY <2>1, <3>5, <3>6, IdleWorker
  <2> QED
    BY <2>2, <2>3, <2>4
<1>19. CASE SetError
  <2> DEFINE v == WithPhase(cr, "Error", cr.exp)
  <2>1. Fresh => /\ cr = obj /\ cr.live /\ (cr.fin \/ cr.del)
                 /\ cr.phase \in {"Creating", "Deleting"}
    BY <1>19, <1>v, FreshCopy
       DEF SetError, ControlInv, WorkerInv, WellFormed
  <2>2. Fresh => v = cr \/ Follows(v)
    <3> SUFFICES ASSUME Fresh PROVE v = cr \/ Follows(v)
      OBVIOUS
    <3>1. cr.live /\ (cr.fin \/ cr.del)
      BY <2>1
    <3>2. cr.phase = "Ready" => "Error" = "Ready" \/ cr.del
      BY <2>1
    <3>3. "Error" \in Phases \ {""}
      BY <1>p
    <3> QED
      BY <1>v, <1>b, <3>1, <3>2, <3>3, PhaseWritten
  <2>3. cache' = cache /\ pc' = "idle"
    BY <1>19 DEF SetError, Requeue
  <2>4. (Fresh /\ Commit(v)) \/ UNCHANGED server
    BY <1>19 DEF SetError
  <2> HIDE DEF v
  <2> QED
    BY <2>2, <2>3, <2>4, CommitEither, ServerUnchanged, IdleWorker DEF server
<1> QED
  BY <1>3, <1>4, <1>5, <1>6, <1>7, <1>8, <1>9, <1>10, <1>11, <1>12, <1>13,
     <1>14, <1>15, <1>16, <1>17, <1>18, <1>19 DEF Reconcile

LEMMA NextControl == ControlInv /\ [Next]_vars => ControlInv'
<1> SUFFICES ASSUME ControlInv, [Next]_vars PROVE ControlInv'
  OBVIOUS
<1>1. TypeOK'
  BY NextTypeOK DEF ControlInv
<1>2. CASE UNCHANGED vars
  BY <1>2 DEF vars, ControlInv, TypeOK, WindowInv, WindowIsCurrent, Current,
              WorkerInv
<1> QED
  BY <1>1, <1>2, EnvironmentControl, ReconcileControl DEF ControlInv, Next

LEMMA ControlInvariant == Spec => []ControlInv
  BY InitControl, NextControl, PTL DEF Spec

-----------------------------------------------------------------------------
(* The TTL check deletes only what expired, and a Ready branch stays Ready *)
(* until it is deleted: whatever the bounds, and whether or not late calls *)
(* and failing Stops happen.                                               *)
THEOREM ExpiryIsExact == Spec => ExpiryHitsTheExpired
<1>1. ASSUME ControlInv, pc = "expire", cr' # cr, pc' = "idle", [Next]_vars
      PROVE  cr.phase = "Ready" /\ cr.uid \in elapsed
  <2>1. obj.uid \in elapsed /\ cr.uid = obj.uid /\ (cr.phase = "Ready" \/ cr.del)
    BY <1>1 DEF ControlInv, WorkerInv, Current
  <2>2. ~cr.del
    <3>1. pc' # pc
      BY <1>1
    <3> QED
      BY <1>1, <3>1 DEF Next, Environment, UserCreate, UserDelete,
         OtherFinalizerRemoved, Elapse, Deliver, TimerFires, LateCall, Crash,
         Reconcile, ReconcileNothing, ReconcileDeletion, ReconcileExpired,
         ReconcileUnprotected, ReconcileReady, ReconcileCreation, Begin,
         DeleteExpired, AddFinalizer, MarkCreating, MarkDeleting, Write,
         CreateClone, Start, MarkReady, Stop, DeleteClone, RemoveFinalizer,
         SetError, server, worker, vars
  <2> QED
    BY <2>1, <2>2
<1> QED
  BY <1>1, ControlInvariant, PTL DEF Spec, ExpiryHitsTheExpired

(* Every write keeps the version it replaces in the watch window.          *)
LEMMA WritesAreWatched ==
    ASSUME [Next]_vars, cr' # cr
    PROVE  versions \subseteq versions'
<1>1. versions' = versions \cup {cr'}
  BY DEF Next, Environment, UserCreate, UserDelete, OtherFinalizerRemoved,
     Elapse, Deliver, TimerFires, LateCall, Crash, Reconcile,
     ReconcileNothing, ReconcileDeletion, ReconcileExpired,
     ReconcileUnprotected, ReconcileReady, ReconcileCreation, Begin,
     DeleteExpired, AddFinalizer, MarkCreating, MarkDeleting, Write,
     CreateClone, Start, MarkReady, Stop, DeleteClone, RemoveFinalizer,
     SetError, WriteFails, Commit, server, informer, vars
<1> QED
  BY <1>1

(* Readiness is never taken back but by a deletion: no stale read, retry,  *)
(* crash or late reply makes the creation flow run again.                  *)
THEOREM ReadyIsStable == Spec => ReadyUntilDeleted
<1>1. ASSUME ControlInv, [Next]_vars, cr.live, ~cr.del, cr.phase = "Ready",
             cr'.uid = cr.uid
      PROVE  cr'.phase = "Ready" \/ cr'.del \/ ~cr'.live
  <2>1. CASE cr' = cr
    BY <1>1, <2>1
  <2>2. CASE cr' # cr
    <3>1. cr \in versions'
      BY <1>1, <2>2, WritesAreWatched DEF ControlInv, WindowInv
    <3>2. cr.fin
      BY <1>1 DEF ControlInv, WindowInv, WellFormed
    <3>3. WindowIsCurrent'
      BY <1>1, NextControl DEF ControlInv
    <3> QED
      BY <1>1, <3>1, <3>2, <3>3 DEF WindowIsCurrent, Current
  <2> QED
    BY <2>1, <2>2
<1> QED
  BY <1>1, ControlInvariant, PTL DEF Spec, ReadyUntilDeleted

-----------------------------------------------------------------------------
(* No wakeup is lost. Only the beginning of a Reconcile takes the name out *)
(* of the queue (a crash lists the resource anew), so what the worker rests*)
(* on is the stored object as it saw it, or as it wrote it.                *)

AtRest ==
    \/ ~cr.live
    \/ cr.del /\ ~cr.fin
    \/ ~cr.del /\ cr.fin /\ cr.phase = "Ready" /\ timer

WakeInv ==
    /\ pc = "idle" /\ ~queue /\ cache = cr => AtRest
    /\ pc = "expire" => ~obj.del /\ (queue \/ cache = obj)

(* A step that queues the name, or goes on to a call other than the        *)
(* deletion of an expired branch, asks nothing of WakeInv.                 *)
LEMMA Awake ==
    ASSUME queue' \/ pc' # "idle", pc' # "expire" PROVE WakeInv'
  BY DEF WakeInv

(* A write the informer has not delivered yet will wake the worker.        *)
LEMMA WriteWakes ==
    ASSUME ControlInv, cr' \in Version, cr'.rv = cr.rv + 1, UNCHANGED cache
    PROVE  cache' # cr'
<1>1. cache.rv <= cr.rv /\ cache.rv \in Nat /\ cr.rv \in Nat
  BY DEF ControlInv, WindowInv, TypeOK, Version
<1> QED
  BY <1>1

(* The writes of users and other controllers.                              *)
LEMMA WakeOthers ==
    ASSUME ControlInv, WakeInv, UserCreate \/ UserDelete \/ OtherFinalizerRemoved
    PROVE  WakeInv'
<1>1. UNCHANGED <<cache, queue, pc, obj>>
  BY DEF UserCreate, UserDelete, OtherFinalizerRemoved, worker
<1>2. cr'.rv = cr.rv + 1
  <2>1. /\ cr \in Version
        /\ [cr EXCEPT !.del = TRUE, !.rv = cr.rv + 1].rv = cr.rv + 1
        /\ [cr EXCEPT !.other = FALSE, !.rv = cr.rv + 1].rv = cr.rv + 1
    BY DEF ControlInv, TypeOK, Version
  <2>2. \A w, n : w.rv = n => Settle(w).rv = n
    BY DEF Settle, Absent
  <2>3. CASE UserCreate
    BY <2>3 DEF UserCreate, Commit, Absent
  <2> QED
    BY <2>1, <2>2, <2>3 DEF UserDelete, OtherFinalizerRemoved, Commit, DeleteOf
<1>3. cr' \in Version
  BY NextTypeOK DEF ControlInv, Next, Environment, TypeOK
<1> QED
  BY <1>1, <1>2, <1>3, WriteWakes DEF WakeInv

LEMMA InitWake == Init => WakeInv
<1>1. ~Blank.live
  BY DEF Blank, Absent
<1> QED
  BY <1>1 DEF Init, WakeInv, AtRest

LEMMA NextWake == ControlInv /\ WakeInv /\ [Next]_vars => WakeInv'
<1> SUFFICES ASSUME ControlInv, WakeInv, [Next]_vars PROVE WakeInv'
  OBVIOUS
<1>t. cr' \in Version /\ cr \in Version
  BY NextTypeOK DEF ControlInv, TypeOK
<1>1. CASE UserCreate \/ UserDelete \/ OtherFinalizerRemoved
  BY <1>1, WakeOthers
<1>2. CASE Elapse
  BY <1>2 DEF Elapse, informer, worker, WakeInv, AtRest
<1>3. CASE LateCall
  BY <1>3 DEF LateCall, server, informer, worker, WakeInv, AtRest
<1>4. CASE Deliver \/ TimerFires
  BY <1>4 DEF Deliver, TimerFires, informer, worker, WakeInv
<1>5. CASE Crash
  BY <1>5 DEF Crash, WakeInv, AtRest
<1>6. CASE ReconcileNothing \/ ReconcileReady
  BY <1>6 DEF ReconcileNothing, ReconcileReady, Begin, informer, WakeInv,
              AtRest
<1>7. CASE ReconcileExpired
  BY <1>7 DEF ReconcileExpired, Begin, informer, WakeInv
<1>8. CASE ReconcileDeletion \/ ReconcileUnprotected \/ ReconcileCreation
  BY <1>8, Awake DEF ReconcileDeletion, ReconcileUnprotected,
                     ReconcileCreation, Begin
<1>9. CASE DeleteExpired
  <2>1. CASE queue'
    BY <1>9, <2>1, Awake DEF DeleteExpired, Return, Requeue
  <2>2. CASE ~queue' /\ cr.live /\ ~cr.del
    <3>1. cr' = DeleteOf(cr) /\ UNCHANGED cache /\ pc' = "idle"
      BY <1>9, <2>2 DEF DeleteExpired, Return, Requeue, Commit
    <3>2. cr'.rv = cr.rv + 1
      BY <3>1, <1>t DEF DeleteOf, Settle, Absent, Version
    <3> QED
      BY <1>t, <3>1, <3>2, WriteWakes DEF WakeInv
  <2>3. CASE ~queue' /\ cr.live /\ cr.del
    <3>1. UNCHANGED <<cr, cache, queue>> /\ pc = "expire" /\ pc' = "idle"
      BY <1>9, <2>3 DEF DeleteExpired, Return, Requeue, server
    <3> QED
      BY <2>3, <3>1 DEF WakeInv
  <2> QED
    BY <1>9, <2>1, <2>2, <2>3 DEF DeleteExpired, Requeue
<1>10. CASE AddFinalizer \/ SetError
  BY <1>10, Awake DEF AddFinalizer, SetError, WriteFails, Requeue
<1>11. CASE MarkCreating \/ MarkDeleting
  BY <1>11, Awake DEF MarkCreating, MarkDeleting, Write, WriteFails, Requeue
<1>12. CASE CreateClone \/ Start \/ Stop \/ DeleteClone
  BY <1>12, Awake DEF CreateClone, Start, Stop, DeleteClone, Goto
<1>13. CASE MarkReady
  <2>1. CASE queue'
    BY <1>13, <2>1, Awake DEF MarkReady, Return, WriteFails, Requeue
  <2>2. CASE ~queue'
    <3>1. /\ Fresh /\ cr' = WithPhase(cr, "Ready", cr.ttl)
          /\ UNCHANGED cache /\ pc = "markReady" /\ pc' = "idle"
      BY <1>13, <2>2 DEF MarkReady, Return, WriteFails, Requeue, Commit
    <3>2. cr.phase = "Creating"
      BY <3>1, FreshCopy DEF ControlInv, WorkerInv, Creation
    <3>3. cr'.rv = cr.rv + 1
      BY <1>t, <3>1, <3>2 DEF WithPhase, Version
    <3> QED
      BY <1>t, <3>1, <3>3, WriteWakes DEF WakeInv
  <2> QED
    BY <2>1, <2>2
<1>14. CASE RemoveFinalizer
  <2>1. CASE queue'
    BY <1>14, <2>1, Awake DEF RemoveFinalizer, Return, WriteFails, Requeue
  <2>2. CASE ~queue'
    <3>1. cr' = Unprotected(cr) /\ UNCHANGED cache /\ pc' = "idle"
      BY <1>14, <2>2 DEF RemoveFinalizer, Return, WriteFails, Requeue, Commit
    <3>2. cr'.rv = cr.rv + 1
      BY <1>t, <3>1 DEF Unprotected, Settle, Absent, Version
    <3> QED
      BY <1>t, <3>1, <3>2, WriteWakes DEF WakeInv
  <2> QED
    BY <2>1, <2>2
<1>15. CASE UNCHANGED vars
  BY <1>15 DEF vars, WakeInv, AtRest
<1> QED
  BY <1>1, <1>2, <1>3, <1>4, <1>5, <1>6, <1>7, <1>8, <1>9, <1>10, <1>11,
     <1>12, <1>13, <1>14, <1>15 DEF Next, Environment, Reconcile

(* When nothing is running, queued or on its way, the operator has seen    *)
(* the branch as it is and there is nothing left to do for it, or a timer  *)
(* is set, whatever was retried, refused or lost and wherever it crashed.  *)
THEOREM WakeupsAreNotLost == Spec => []NoLostWakeup
<1>1. ASSUME ControlInv, WakeInv PROVE NoLostWakeup
  <2>1. (\A v \in versions : v.rv <= cache.rv) => cache = cr
    BY <1>1 DEF ControlInv, WindowInv, TypeOK, Version
  <2> QED
    BY <1>1, <2>1 DEF NoLostWakeup, WakeInv, AtRest
<1>2. Spec => []WakeInv
  BY ControlInvariant, InitWake, NextWake, PTL DEF Spec
<1> QED
  BY <1>1, <1>2, ControlInvariant, PTL

-----------------------------------------------------------------------------
(* The cleanup guarantee. It needs both assumptions: the runs that drop    *)
(* one of them violate it.                                                 *)

LEMMA InitResource == Init => ResourceInv
<1>1. Blank.phase = ""
  BY DEF Blank, Absent
<1> QED
  BY <1>1 DEF Init, ResourceInv

(* A client's write changes neither the incarnation nor the phase of a     *)
(* protected branch, and nothing is held for an unprotected one.           *)
LEMMA ResourceOthers ==
    ASSUME ControlInv, ResourceInv, NEW v, cr' = v,
           cr.fin => v.fin /\ v.uid = cr.uid /\ v.phase = cr.phase
                     /\ v.exp = cr.exp /\ v.ttl = cr.ttl,
           ~cr.fin => v.phase \in {"", cr.phase},
           UNCHANGED <<pc, clone, db, late>>
    PROVE  ResourceInv'
<1>1. CASE cr.fin
  BY <1>1 DEF ResourceInv
<1>2. CASE ~cr.fin
  <2>1. pc \notin Creation \cup Cleanup
    BY <1>2 DEF ControlInv, WorkerInv
  <2>2. clone = 0 /\ db = 0
    BY <1>2 DEF ResourceInv
  <2> QED
    BY <1>2, <2>1, <2>2 DEF ResourceInv, Creation, Cleanup
<1> QED
  BY <1>1, <1>2

LEMMA NextResource ==
    ASSUME ~LateRequests, ~StopErrors, ControlInv, ResourceInv, [Next]_vars
    PROVE  ResourceInv'
<1>v. cr \in Version /\ WellFormed(cr)
  BY DEF ControlInv, TypeOK, WindowInv
<1>1. CASE UserCreate
  <2>1. PICK ttl \in BOOLEAN, other \in BOOLEAN :
          cr' = [Absent(cr.rv + 1, cr.uid + 1) EXCEPT
                    !.live = TRUE, !.ttl = ttl, !.other = other]
    BY <1>1 DEF UserCreate, Commit
  <2>2. cr'.phase = "" /\ ~cr.fin
    BY <1>1, <1>v, <2>1 DEF UserCreate, Absent, WellFormed
  <2> QED
    BY <1>1, <2>2, ResourceOthers DEF UserCreate, worker, outside
<1> DEFINE d == [cr EXCEPT !.del = TRUE, !.rv = cr.rv + 1]
           o == [cr EXCEPT !.other = FALSE, !.rv = cr.rv + 1]
           f == [cr EXCEPT !.fin = TRUE, !.rv = cr.rv + 1]
           u == [cr EXCEPT !.fin = FALSE, !.rv = cr.rv + 1]
<1>d. /\ d.fin = cr.fin /\ d.uid = cr.uid /\ d.phase = cr.phase
      /\ d.exp = cr.exp /\ d.ttl = cr.ttl /\ d.del
      /\ o.fin = cr.fin /\ o.uid = cr.uid /\ o.phase = cr.phase
      /\ o.exp = cr.exp /\ o.ttl = cr.ttl /\ o.del = cr.del
      /\ f.fin /\ f.phase = cr.phase /\ ~u.fin /\ u.phase = cr.phase
  BY <1>v DEF Version
<1>2. CASE UserDelete
  <2>1. cr' = Settle(d) /\ UNCHANGED <<pc, clone, db, late>>
    BY <1>2 DEF UserDelete, DeleteOf, Commit, worker, outside
  <2>2. (cr.fin => cr' = d) /\ cr'.phase \in {"", cr.phase}
    BY <1>d, <2>1 DEF Settle, Absent
  <2> HIDE DEF d
  <2> QED
    BY <1>d, <2>1, <2>2, ResourceOthers
<1>3. CASE OtherFinalizerRemoved
  <2>1. cr' = Settle(o) /\ UNCHANGED <<pc, clone, db, late>>
    BY <1>3 DEF OtherFinalizerRemoved, Commit, worker, outside
  <2>2. (cr.fin => cr' = o) /\ cr'.phase \in {"", cr.phase}
    BY <1>d, <2>1 DEF Settle, Absent
  <2> HIDE DEF o
  <2> QED
    BY <1>d, <2>1, <2>2, ResourceOthers
<1>4. ASSUME UNCHANGED <<cr, clone, db, late>>,
             pc' = pc \/ pc' \in {"idle", "expire", "addFinalizer",
                                  "markCreating", "markDeleting", "setError"}
      PROVE  ResourceInv'
  BY <1>4 DEF ResourceInv
<1>5. CASE Elapse \/ Deliver \/ TimerFires \/ UNCHANGED vars
  BY <1>4, <1>5 DEF Elapse, Deliver, TimerFires, informer, worker, outside,
                    vars
<1>6. CASE LateCall
  BY <1>6 DEF LateCall, ResourceInv
<1>7. CASE Crash
  BY <1>4, <1>7 DEF Crash, GiveUp
<1>8. ASSUME NEW next \in {"idle", "expire", "addFinalizer", "markCreating",
                           "markDeleting"}, Begin(next)
      PROVE  ResourceInv'
  BY <1>4, <1>8 DEF Begin, outside
<1>9. CASE \/ ReconcileNothing \/ ReconcileDeletion \/ ReconcileExpired
           \/ ReconcileUnprotected \/ ReconcileReady \/ ReconcileCreation
  BY <1>8, <1>9 DEF ReconcileNothing, ReconcileDeletion, ReconcileExpired,
     ReconcileUnprotected, ReconcileReady, ReconcileCreation
<1>10. CASE DeleteExpired
  <2>1. cr.fin /\ pc' = "idle" /\ UNCHANGED <<clone, db, late>>
    BY <1>10 DEF DeleteExpired, Return, Requeue, outside, ControlInv,
                 WorkerInv, Current
  <2>2. cr' = cr \/ cr' = d
    BY <1>10, <1>d, <2>1 DEF DeleteExpired, DeleteOf, Settle, Commit, server
  <2> HIDE DEF d
  <2>3. CASE cr' = cr
    BY <1>4, <2>1, <2>3
  <2>4. CASE cr' = d
    BY <1>d, <2>1, <2>4 DEF ResourceInv
  <2> QED
    BY <2>2, <2>3, <2>4
<1>11. CASE AddFinalizer
  <2>1. pc' = "idle" /\ UNCHANGED <<clone, db, late>>
    BY <1>11 DEF AddFinalizer, WriteFails, Requeue, outside
  <2>2. cr' = cr \/ (Fresh /\ cr' = f)
    BY <1>11 DEF AddFinalizer, WriteFails, Commit, server
  <2>3. CASE cr' = cr
    BY <1>4, <2>1, <2>3
  <2>4. CASE Fresh /\ cr' = f
    <3>1. ~cr.fin
      BY <1>11, <2>4, FreshCopy DEF AddFinalizer, ControlInv, WorkerInv
    <3> HIDE DEF f
    <3> QED
      BY <1>d, <2>1, <2>4, <3>1 DEF ResourceInv
  <2> QED
    BY <2>2, <2>3, <2>4
(* A write of a phase other than Ready.                                    *)
<1>12. ASSUME NEW p \in {"Creating", "Deleting", "Error"},
              cr' = cr \/ cr' = WithPhase(cr, p, cr.exp),
              UNCHANGED <<clone, db, late>>,
              pc' \in {"idle", "createClone", "stop"}
       PROVE  ResourceInv'
  <2>1. cr' = cr \/ (cr'.phase = p /\ cr'.fin = cr.fin /\ cr'.uid = cr.uid)
    BY <1>12, <1>v DEF WithPhase, Version
  <2>2. p # "Ready"
    BY <1>12
  <2> QED
    BY <1>12, <2>1, <2>2 DEF ResourceInv
<1>13. CASE MarkCreating
  BY <1>12, <1>13 DEF MarkCreating, Write, WriteFails, Requeue, Commit,
                      server, outside
<1>14. CASE MarkDeleting
  BY <1>12, <1>14 DEF MarkDeleting, Write, WriteFails, Requeue, Commit,
                      server, outside
<1>15. CASE SetError
  BY <1>12, <1>15 DEF SetError, Requeue, Commit, server, outside
<1>16. CASE CreateClone
  <2>1. cr.fin /\ cr.uid = obj.uid
    BY <1>16 DEF CreateClone, ControlInv, WorkerInv, Creation
  <2>2. CloneFor(obj.uid) = cr.uid
    BY <2>1 DEF CloneFor, ResourceInv
  <2>3. /\ clone' \in {clone, cr.uid}
        /\ UNCHANGED <<cr, db, late>>
        /\ \/ pc' = "start" /\ clone' = cr.uid
           \/ pc' = "setError"
    BY <1>16, <2>2 DEF CreateClone, GiveUp, Goto, server
  <2> QED
    BY <2>1, <2>3 DEF ResourceInv
<1>17. CASE Start
  <2>1. cr.fin /\ cr.uid = obj.uid /\ clone = cr.uid
    BY <1>17 DEF Start, ControlInv, WorkerInv, Creation, ResourceInv
  <2>2. ObjectsFor(obj.uid) = cr.uid
    BY <2>1 DEF ObjectsFor, ResourceInv
  <2>3. /\ db' \in {db, cr.uid}
        /\ UNCHANGED <<cr, clone, late>>
        /\ \/ pc' = "markReady" /\ db' = cr.uid
           \/ pc' = "setError"
    BY <1>17, <2>2 DEF Start, Goto, server
  <2> QED
    BY <2>1, <2>3 DEF ResourceInv
<1>18. CASE MarkReady
  <2>1. cr.fin /\ clone = cr.uid /\ db = cr.uid
    BY <1>18 DEF MarkReady, ControlInv, WorkerInv, Creation, ResourceInv
  <2>2. /\ cr' = cr \/ cr' = WithPhase(cr, "Ready", cr.ttl)
        /\ pc' = "idle" /\ UNCHANGED <<clone, db, late>>
    BY <1>18 DEF MarkReady, WriteFails, Return, Requeue, Commit, server,
                 outside
  <2>3. cr' = cr \/ /\ cr'.fin = cr.fin /\ cr'.uid = cr.uid
                    /\ cr'.exp = cr.ttl /\ cr'.ttl = cr.ttl
    BY <1>v, <2>2 DEF WithPhase, Version
  <2> QED
    BY <2>1, <2>2, <2>3 DEF ResourceInv
<1>19. CASE Stop
  <2>1. cr.phase = "Deleting" /\ cr.fin
    BY <1>19 DEF Stop, ControlInv, WorkerInv, Cleanup
  <2>2. pc' = "deleteClone" /\ db' = 0 /\ UNCHANGED <<cr, clone, late>>
    BY <1>19 DEF Stop, Goto, server
  <2> QED
    BY <2>1, <2>2 DEF ResourceInv
<1>20. CASE DeleteClone
  <2>1. cr.phase = "Deleting" /\ cr.fin /\ db = 0
    BY <1>20 DEF DeleteClone, ControlInv, WorkerInv, Cleanup, ResourceInv
  <2>2. /\ clone' \in {clone, 0} /\ UNCHANGED <<cr, db, late>>
        /\ \/ pc' = "removeFinalizer" /\ clone' = 0
           \/ pc' = "setError"
    BY <1>20 DEF DeleteClone, GiveUp, Goto, server
  <2> QED
    BY <2>1, <2>2 DEF ResourceInv
<1>21. CASE RemoveFinalizer
  <2>1. cr.phase = "Deleting" /\ db = 0 /\ clone = 0
    BY <1>21 DEF RemoveFinalizer, ControlInv, WorkerInv, Cleanup, ResourceInv
  <2>2. /\ pc' = "idle" /\ UNCHANGED <<clone, db, late>>
        /\ cr' = cr \/ cr' = Settle(u)
    BY <1>21 DEF RemoveFinalizer, Unprotected, WriteFails, Return, Requeue,
                 Commit, server, outside
  <2> HIDE DEF u
  <2>3. Settle(u).phase \in {"", u.phase}
    BY DEF Settle, Absent
  <2>4. cr'.phase # "Ready"
    BY <1>d, <2>1, <2>2, <2>3
  <2> QED
    BY <2>1, <2>2, <2>4 DEF ResourceInv
<1> QED
  BY <1>1, <1>2, <1>3, <1>5, <1>6, <1>7, <1>9, <1>10, <1>11, <1>13, <1>14,
     <1>15, <1>16, <1>17, <1>18, <1>19, <1>20, <1>21
     DEF Next, Environment, Reconcile

LEMMA ResourceInvariant ==
    ASSUME ~LateRequests, ~StopErrors
    PROVE  Spec => []ResourceInv
<1>1. ControlInv /\ ResourceInv /\ [Next]_vars => ResourceInv'
  BY NextResource
<1> QED
  BY <1>1, InitResource, ControlInvariant, PTL DEF Spec

(* The finalizer guarantees the cleanup, for any number of incarnations,   *)
(* faults and crashes, when calls given up are not executed later and the  *)
(* Deletes of Stop do not fail.                                            *)
THEOREM FinalizerGuaranteesCleanup ==
    ASSUME ~LateRequests, ~StopErrors
    PROVE  Spec => []CleanupGuaranteed
<1>1. ControlInv /\ ResourceInv => CleanupGuaranteed
  BY DEF ControlInv, WindowInv, WellFormed, ResourceInv, CleanupGuaranteed
<1> QED
  BY <1>1, ControlInvariant, ResourceInvariant, PTL

(* A Ready branch is backed by its own clone and its own objects.          *)
THEOREM ReadyHasItsOwnVolume ==
    ASSUME ~LateRequests, ~StopErrors
    PROVE  Spec => []ReadyIsBacked
<1>1. ResourceInv => ReadyIsBacked
  BY DEF ResourceInv, ReadyIsBacked
<1> QED
  BY <1>1, ResourceInvariant, PTL

-----------------------------------------------------------------------------
(* BranchOperator implements BranchLifecycle: the initial state maps to    *)
(* the initial state, every step to a step or a stutter.                   *)

(* How the stage follows from the fields of the resource.                  *)
LEMMA StageOf ==
    /\ ~cr.live => Stage = "absent"
    /\ cr.live /\ cr.del => Stage = "retiring"
    /\ cr.live /\ ~cr.del /\ cr.phase = "" => Stage = "new"
    /\ cr.live /\ ~cr.del /\ cr.phase = "Creating" => Stage = "provisioning"
    /\ cr.live /\ ~cr.del /\ cr.phase = "Error" => Stage = "failed"
    /\ cr.live /\ ~cr.del /\ cr.phase = "Ready" => Stage = "ready"
  BY DEF Stage

LEMMA StageOfNext ==
    /\ ~cr'.live => Stage' = "absent"
    /\ cr'.live /\ cr'.del => Stage' = "retiring"
    /\ cr'.live /\ ~cr'.del /\ cr'.phase = "" => Stage' = "new"
    /\ cr'.live /\ ~cr'.del /\ cr'.phase = "Creating" =>
         Stage' = "provisioning"
    /\ cr'.live /\ ~cr'.del /\ cr'.phase = "Error" => Stage' = "failed"
    /\ cr'.live /\ ~cr'.del /\ cr'.phase = "Ready" => Stage' = "ready"
  BY DEF Stage

LEMMA Stages ==
    ASSUME ControlInv
    PROVE  cr.live /\ ~cr.del =>
             Stage \in {"new", "provisioning", "failed", "ready"}
<1>1. WellFormed(cr) /\ cr.phase \in Phases
  BY DEF ControlInv, TypeOK, WindowInv, Version
<1> QED
  BY <1>1, StageOf DEF WellFormed, Phases

LEMMA InitRefines == Init => Lifecycle!LInit
<1>1. ~Blank.live /\ Blank.uid = 0
  BY DEF Blank, Absent
<1> QED
  BY <1>1, StageOf DEF Init, Lifecycle!LInit

LEMMA MoveStage ==
    ASSUME NEW s, Stage' = s, cr'.uid = cr.uid
    PROVE  Lifecycle!To(s)
  BY DEF Lifecycle!To

LEMMA StutterRefines ==
    ASSUME Stage' = Stage, cr'.uid = cr.uid, clone' = clone, db' = db
    PROVE  UNCHANGED Lifecycle!lvars
  BY DEF Lifecycle!lvars

LEMMA NextRefines ==
    ASSUME ~LateRequests, ~StopErrors, ControlInv, ResourceInv, [Next]_vars
    PROVE  [Lifecycle!LNext]_(Lifecycle!lvars)
<1> DEFINE Goal == Lifecycle!LNext \/ UNCHANGED Lifecycle!lvars
           d == [cr EXCEPT !.del = TRUE, !.rv = cr.rv + 1]
           o == [cr EXCEPT !.other = FALSE, !.rv = cr.rv + 1]
           f == [cr EXCEPT !.fin = TRUE, !.rv = cr.rv + 1]
           u == [cr EXCEPT !.fin = FALSE, !.rv = cr.rv + 1]
<1> SUFFICES Goal
  OBVIOUS
<1>v. cr \in Version /\ WellFormed(cr)
  BY DEF ControlInv, TypeOK, WindowInv
<1>d. /\ d.fin = cr.fin /\ d.uid = cr.uid /\ d.phase = cr.phase
      /\ d.live = cr.live /\ d.del
      /\ o.fin = cr.fin /\ o.uid = cr.uid /\ o.phase = cr.phase
      /\ o.live = cr.live /\ o.del = cr.del
      /\ f.uid = cr.uid /\ f.phase = cr.phase /\ f.live = cr.live
      /\ f.del = cr.del
      /\ u.uid = cr.uid /\ u.phase = cr.phase /\ u.live = cr.live
      /\ u.del = cr.del
  BY <1>v DEF Version
<1>a. \A n, i : ~Absent(n, i).live /\ Absent(n, i).uid = i
  BY DEF Absent
(* The stage and the identity depend on three fields of the resource.      *)
<1>s. ASSUME cr'.live = cr.live, cr'.del = cr.del, cr'.uid = cr.uid,
             cr'.phase = cr.phase \/ cr.del \/ ~cr.live,
             clone' = clone, db' = db
      PROVE  Goal
  <2>1. Stage' = Stage
    BY <1>s, StageOf, StageOfNext DEF Stage
  <2> QED
    BY <1>s, <2>1, StutterRefines
<1>u. ASSUME cr' = cr, clone' = clone, db' = db
      PROVE  Goal
  BY <1>u, <1>s
(* The name disappears: nothing is held any more.                          *)
<1>g. ASSUME cr.live, cr.del \/ ~cr.fin, ~cr'.live, cr'.uid = cr.uid,
             clone = 0, db = 0, clone' = clone, db' = db
      PROVE  Goal
  <2>1. Stage \in {"new", "retiring"}
    BY <1>g, <1>v, StageOf DEF WellFormed
  <2>2. Lifecycle!To("absent")
    BY <1>g, StageOfNext, MoveStage
  <2> QED
    BY <1>g, <2>1, <2>2 DEF Lifecycle!LNext, Lifecycle!LForget
<1>r. ASSUME cr.live, ~cr.del, cr'.live, cr'.del, cr'.uid = cr.uid,
             clone' = clone, db' = db
      PROVE  Goal
  <2>1. Stage \in {"new", "provisioning", "failed", "ready"}
    BY <1>r, Stages
  <2>2. Lifecycle!To("retiring")
    BY <1>r, StageOfNext, MoveStage
  <2> QED
    BY <1>r, <2>1, <2>2 DEF Lifecycle!LNext, Lifecycle!LRetire
<1>1. CASE UserCreate
  <2>1. PICK ttl \in BOOLEAN, other \in BOOLEAN :
          cr' = [Absent(cr.rv + 1, cr.uid + 1) EXCEPT
                    !.live = TRUE, !.ttl = ttl, !.other = other]
    BY <1>1 DEF UserCreate, Commit
  <2>2. cr'.live /\ ~cr'.del /\ cr'.phase = "" /\ cr'.uid = cr.uid + 1
    BY <2>1 DEF Absent
  <2>3. ~cr.live /\ ~cr.fin /\ clone' = clone /\ db' = db
    BY <1>1, <1>v DEF UserCreate, WellFormed, outside
  <2>4. clone = 0 /\ db = 0
    BY <2>3 DEF ResourceInv
  <2>5. Stage = "absent" /\ Stage' = "new"
    BY <2>2, <2>3, StageOf, StageOfNext
  <2> QED
    BY <2>2, <2>3, <2>4, <2>5 DEF Lifecycle!LNext, Lifecycle!LCreate
<1>n. ~cr.fin => clone = 0 /\ db = 0
  BY DEF ResourceInv
<1>2. CASE UserDelete
  <2>1. cr.live /\ ~cr.del /\ cr' = Settle(d) /\ clone' = clone /\ db' = db
    BY <1>2 DEF UserDelete, DeleteOf, Commit, outside
  <2>2. cr' = d \/ (~cr.fin /\ cr' = Absent(d.rv, d.uid))
    BY <1>d, <2>1 DEF Settle
  <2> HIDE DEF d, Goal
  <2>3. CASE cr' = d
    BY <1>d, <1>r, <2>1, <2>3
  <2>4. CASE ~cr.fin /\ cr' = Absent(d.rv, d.uid)
    <3>1. ~cr'.live /\ cr'.uid = cr.uid
      BY <1>a, <1>d, <2>4
    <3> QED
      BY <1>g, <1>n, <2>1, <2>4, <3>1
  <2> QED
    BY <2>2, <2>3, <2>4
<1>3. CASE OtherFinalizerRemoved
  <2>1. cr.live /\ cr' = Settle(o) /\ clone' = clone /\ db' = db
    BY <1>3 DEF OtherFinalizerRemoved, Commit, outside
  <2>2. cr' = o \/ (cr.del /\ ~cr.fin /\ cr' = Absent(o.rv, o.uid))
    BY <1>d, <2>1 DEF Settle
  <2> HIDE DEF o, Goal
  <2>3. CASE cr' = o
    BY <1>d, <1>s, <2>1, <2>3
  <2>4. CASE cr.del /\ ~cr.fin /\ cr' = Absent(o.rv, o.uid)
    <3>1. ~cr'.live /\ cr'.uid = cr.uid
      BY <1>a, <1>d, <2>4
    <3> QED
      BY <1>g, <1>n, <2>1, <2>4, <3>1
  <2> QED
    BY <2>2, <2>3, <2>4
<1>4. CASE Elapse \/ Deliver \/ TimerFires \/ Crash \/ UNCHANGED vars
  BY <1>4, <1>u DEF Elapse, Deliver, TimerFires, Crash, outside, vars
<1>5. CASE LateCall
  BY <1>5 DEF LateCall, ResourceInv
<1>6. CASE \/ ReconcileNothing \/ ReconcileDeletion \/ ReconcileExpired
           \/ ReconcileUnprotected \/ ReconcileReady \/ ReconcileCreation
  BY <1>6, <1>u DEF ReconcileNothing, ReconcileDeletion, ReconcileExpired,
     ReconcileUnprotected, ReconcileReady, ReconcileCreation, Begin, outside
<1>7. CASE DeleteExpired
  <2>1. cr.fin /\ clone' = clone /\ db' = db
    BY <1>7 DEF DeleteExpired, outside, ControlInv, WorkerInv, Current
  <2>2. cr' = cr \/ (cr.live /\ ~cr.del /\ cr' = d)
    BY <1>7, <1>d, <2>1 DEF DeleteExpired, DeleteOf, Settle, Commit, server
  <2> HIDE DEF d, Goal
  <2> QED
    BY <1>d, <1>r, <1>u, <2>1, <2>2
<1>8. CASE AddFinalizer
  <2>1. clone' = clone /\ db' = db
    BY <1>8 DEF AddFinalizer, outside
  <2>2. cr' = cr \/ cr' = f
    BY <1>8 DEF AddFinalizer, WriteFails, Commit, server
  <2> HIDE DEF f, Goal
  <2> QED
    BY <1>d, <1>s, <1>u, <2>1, <2>2
<1>w. ASSUME NEW p, NEW e, cr' = WithPhase(cr, p, e), cr' # cr
      PROVE  /\ cr'.phase = p /\ cr'.live = cr.live /\ cr'.del = cr.del
             /\ cr'.uid = cr.uid
  BY <1>w, <1>v DEF WithPhase, Version
<1>9. CASE MarkCreating
  <2>1. clone' = clone /\ db' = db /\ pc = "markCreating"
    BY <1>9 DEF MarkCreating, Write, outside
  <2>2. cr' = cr \/ (Fresh /\ cr' = WithPhase(cr, "Creating", cr.exp))
    BY <1>9 DEF MarkCreating, Write, WriteFails, Commit, server
  <2>3. CASE cr' # cr /\ cr.phase # "Creating"
    <3>1. Fresh /\ cr'.phase = "Creating" /\ cr'.live = cr.live
          /\ cr'.del = cr.del /\ cr'.uid = cr.uid
      BY <1>w, <2>2, <2>3
    <3>2. cr.live /\ ~cr.del /\ cr.phase # "Ready"
      BY <2>1, <3>1, FreshCopy DEF ControlInv, WorkerInv
    <3>3. cr.phase \in {"", "Error"}
      BY <1>v, <2>3, <3>2 DEF WellFormed, Version, Phases
    <3>4. Stage \in {"new", "failed"}
      BY <3>2, <3>3, StageOf
    <3>5. Lifecycle!To("provisioning")
      BY <3>1, <3>2, StageOfNext, MoveStage
    <3> QED
      BY <2>1, <3>4, <3>5 DEF Lifecycle!LNext, Lifecycle!LProvision
  <2>4. CASE cr' = cr \/ (cr' # cr /\ cr.phase = "Creating")
    BY <1>s, <1>u, <1>w, <2>1, <2>2, <2>4
  <2> QED
    BY <2>3, <2>4
<1>10. CASE MarkDeleting
  <2>1. clone' = clone /\ db' = db /\ pc = "markDeleting"
    BY <1>10 DEF MarkDeleting, Write, outside
  <2>2. cr' = cr \/ (Fresh /\ cr' = WithPhase(cr, "Deleting", cr.exp))
    BY <1>10 DEF MarkDeleting, Write, WriteFails, Commit, server
  <2>3. Fresh => cr.del
    BY <2>1, FreshCopy DEF ControlInv, WorkerInv
  <2> HIDE DEF Goal
  <2> QED
    BY <1>s, <1>u, <1>w, <2>1, <2>2, <2>3
<1>11. CASE SetError
  <2>1. clone' = clone /\ db' = db /\ pc = "setError"
    BY <1>11 DEF SetError, outside
  <2>2. cr' = cr \/ (Fresh /\ cr' = WithPhase(cr, "Error", cr.exp))
    BY <1>11 DEF SetError, Commit, server
  <2>3. CASE cr' # cr /\ ~cr.del
    <3>1. /\ Fresh /\ cr'.phase = "Error" /\ cr'.live = cr.live
          /\ cr'.del = cr.del /\ cr'.uid = cr.uid
      BY <1>w, <2>2, <2>3
    <3>2. cr.live /\ cr.phase \in {"Creating", "Deleting"}
      BY <2>1, <3>1, FreshCopy DEF ControlInv, WorkerInv
    <3>3. cr.phase = "Creating"
      BY <1>v, <2>3, <3>2 DEF WellFormed
    <3>4. Stage = "provisioning"
      BY <2>3, <3>2, <3>3, StageOf
    <3>5. Lifecycle!To("failed")
      BY <2>3, <3>1, <3>2, StageOfNext, MoveStage
    <3> QED
      BY <2>1, <3>4, <3>5 DEF Lifecycle!LNext, Lifecycle!LFail
  <2>4. CASE cr' = cr \/ (cr' # cr /\ cr.del)
    BY <1>s, <1>u, <1>w, <2>1, <2>2, <2>4
  <2> QED
    BY <2>3, <2>4
<1>c. ASSUME pc \in Creation
      PROVE  /\ cr.fin /\ cr.uid = obj.uid
             /\ Stage \in {"provisioning", "retiring"}
  <2>1. /\ cr.fin /\ cr.uid = obj.uid
        /\ cr.del \/ cr.phase = "Creating"
    BY <1>c DEF ControlInv, WorkerInv
  <2>2. cr.live
    BY <1>v, <2>1 DEF WellFormed
  <2> QED
    BY <2>1, <2>2, StageOf
<1>12. CASE CreateClone
  <2>1. cr.uid = obj.uid /\ Stage \in {"provisioning", "retiring"}
    BY <1>12, <1>c DEF CreateClone, Creation
  <2>2. cr' = cr /\ db' = db /\ clone' \in {clone, CloneFor(cr.uid)}
    BY <1>12, <2>1 DEF CreateClone, GiveUp, server
  <2>3. Stage' = Stage
    BY <2>2 DEF Stage
  <2>4. CASE clone' = clone
    BY <1>u, <2>2, <2>4
  <2>5. CASE clone' # clone
    <3>1. clone = 0 /\ clone' = cr.uid
      BY <2>2, <2>5 DEF CloneFor
    <3> QED
      BY <2>1, <2>2, <2>3, <3>1
         DEF Lifecycle!LNext, Lifecycle!LAcquireVolume
  <2> QED
    BY <2>4, <2>5
<1>13. CASE Start
  <2>1. cr.uid = obj.uid /\ Stage \in {"provisioning", "retiring"}
    BY <1>13, <1>c DEF Start, Creation
  <2>2. cr' = cr /\ clone' = clone /\ db' \in {db, ObjectsFor(cr.uid)}
    BY <1>13, <2>1 DEF Start, server
  <2>3. Stage' = Stage
    BY <2>2 DEF Stage
  <2>4. CASE db' = db
    BY <1>u, <2>2, <2>4
  <2>5. CASE db' # db
    <3>1. db = 0 /\ db' = cr.uid /\ clone = cr.uid
      BY <1>13, <2>2, <2>5 DEF ObjectsFor, Start, ResourceInv
    <3> QED
      BY <2>1, <2>2, <2>3, <3>1
         DEF Lifecycle!LNext, Lifecycle!LAcquireDatabase
  <2> QED
    BY <2>4, <2>5
<1>14. CASE MarkReady
  <2>1. clone' = clone /\ db' = db /\ pc = "markReady"
    BY <1>14 DEF MarkReady, outside
  <2>2. cr' = cr \/ (Fresh /\ cr' = WithPhase(cr, "Ready", cr.ttl))
    BY <1>14 DEF MarkReady, WriteFails, Commit, server
  <2>3. CASE cr' = cr
    BY <1>u, <2>1, <2>3
  <2>4. CASE cr' # cr
    <3>1. /\ Fresh /\ cr'.phase = "Ready" /\ cr'.live = cr.live
          /\ cr'.del = cr.del /\ cr'.uid = cr.uid
      BY <1>w, <2>2, <2>4
    <3>2. cr.live /\ ~cr.del /\ cr.phase = "Creating"
      BY <2>1, <3>1, FreshCopy DEF ControlInv, WorkerInv, Creation
    <3>3. clone = cr.uid /\ db = cr.uid
      BY <2>1 DEF ResourceInv
    <3>4. Stage = "provisioning"
      BY <3>2, StageOf
    <3>5. Lifecycle!To("ready")
      BY <3>1, <3>2, StageOfNext, MoveStage
    <3> QED
      BY <2>1, <3>3, <3>4, <3>5 DEF Lifecycle!LNext, Lifecycle!LServe
  <2> QED
    BY <2>3, <2>4
<1>e. ASSUME pc \in Cleanup
      PROVE  cr.del /\ cr.live /\ Stage = "retiring"
  <2>1. cr.del /\ cr.live
    BY <1>e, <1>v DEF ControlInv, WorkerInv, WellFormed
  <2> QED
    BY <2>1, StageOf
<1>15. CASE Stop
  <2>1. Stage = "retiring"
    BY <1>15, <1>e DEF Stop, Cleanup
  <2>2. cr' = cr /\ clone' = clone /\ db' = 0
    BY <1>15 DEF Stop, server
  <2>3. Stage' = Stage
    BY <2>2 DEF Stage
  <2>4. CASE db = 0
    BY <1>u, <2>2, <2>4
  <2>5. CASE db # 0
    BY <2>1, <2>2, <2>3, <2>5
       DEF Lifecycle!LNext, Lifecycle!LReleaseDatabase
  <2> QED
    BY <2>4, <2>5
<1>16. CASE DeleteClone
  <2>1. Stage = "retiring" /\ db = 0
    BY <1>16, <1>e DEF DeleteClone, Cleanup, ResourceInv
  <2>2. cr' = cr /\ db' = db /\ clone' \in {clone, 0}
    BY <1>16 DEF DeleteClone, GiveUp, server
  <2>3. Stage' = Stage
    BY <2>2 DEF Stage
  <2>4. CASE clone' = clone
    BY <1>u, <2>2, <2>4
  <2>5. CASE clone' # clone
    BY <2>1, <2>2, <2>3, <2>5
       DEF Lifecycle!LNext, Lifecycle!LReleaseVolume
  <2> QED
    BY <2>4, <2>5
<1>17. CASE RemoveFinalizer
  <2>1. cr.del /\ cr.live /\ clone = 0 /\ db = 0
    BY <1>17, <1>e DEF RemoveFinalizer, Cleanup, ResourceInv
  <2>2. clone' = clone /\ db' = db /\ (cr' = cr \/ cr' = Settle(u))
    BY <1>17 DEF RemoveFinalizer, Unprotected, WriteFails, Commit, server,
                 outside
  <2>3. Settle(u) \in {u, Absent(u.rv, u.uid)}
    BY DEF Settle
  <2> HIDE DEF u, Goal
  <2>4. CASE cr' = cr
    BY <1>u, <2>2, <2>4
  <2>5. CASE cr' = u
    BY <1>d, <1>s, <2>1, <2>2, <2>5
  <2>6. CASE cr' = Absent(u.rv, u.uid)
    <3>1. ~cr'.live /\ cr'.uid = cr.uid
      BY <1>a, <1>d, <2>6
    <3> QED
      BY <1>g, <2>1, <2>2, <3>1
  <2> QED
    BY <2>2, <2>3, <2>4, <2>5, <2>6
<1> QED
  BY <1>1, <1>2, <1>3, <1>4, <1>5, <1>6, <1>7, <1>8, <1>9, <1>10, <1>11,
     <1>12, <1>13, <1>14, <1>15, <1>16, <1>17
     DEF Next, Environment, Reconcile

(* The operator implements the life cycle of a branch, under the two       *)
(* assumptions the cleanup guarantee needs.                                *)
THEOREM OperatorImplementsLifecycle ==
    ASSUME ~LateRequests, ~StopErrors
    PROVE  Spec => ImplementsLifecycle
<1>1. ControlInv /\ ResourceInv /\ [Next]_vars =>
        [Lifecycle!LNext]_(Lifecycle!lvars)
  BY NextRefines
<1> QED
  BY <1>1, InitRefines, ControlInvariant, ResourceInvariant, PTL
     DEF Spec, ImplementsLifecycle, Lifecycle!LSpec
-----------------------------------------------------------------------------
(* BranchOperator implements BranchFleet for its name. The fleet knows of  *)
(* no objects, so the Deletes of Stop may fail.                            *)

LEMMA NothingLate ==
    ASSUME ~LateRequests
    PROVE  Spec => [](late = {})
<1>1. Init => late = {}
  BY DEF Init
<1>2. late = {} /\ [Next]_vars => (late = {})'
  BY DEF Next, Environment, Reconcile, vars, UserCreate, UserDelete, OtherFinalizerRemoved,
     Elapse, Deliver, TimerFires, LateCall, Crash, GiveUp, Begin, ReconcileNothing,
     ReconcileDeletion, ReconcileExpired, ReconcileUnprotected, ReconcileReady,
     ReconcileCreation, DeleteExpired, AddFinalizer, Write, MarkCreating, CreateClone, Start,
     MarkReady, MarkDeleting, Stop, DeleteClone, RemoveFinalizer, SetError, outside
<1> QED
  BY <1>1, <1>2, PTL DEF Spec

(* A branch that exists has a number: no write but the one that creates it *)
(* changes the number or brings the branch into existence.                 *)
Numbered == cr.live => cr.uid # 0

LEMMA SettleKeeps ==
    ASSUME NEW v
    PROVE  Settle(v).uid = v.uid /\ (Settle(v).live => v.live)
  BY DEF Settle, Absent

LEMMA NextNumbered ==
    ASSUME ControlInv, Numbered, [Next]_vars
    PROVE  Numbered'
<1> USE DEF Numbered
<1> DEFINE d == [cr EXCEPT !.del = TRUE, !.rv = cr.rv + 1]
           o == [cr EXCEPT !.other = FALSE, !.rv = cr.rv + 1]
           f == [cr EXCEPT !.fin = TRUE, !.rv = cr.rv + 1]
           u == [cr EXCEPT !.fin = FALSE, !.rv = cr.rv + 1]
<1>v. cr \in Version
  BY DEF ControlInv, TypeOK
<1>k. \A v \in {cr, d, o, f, u} : v.uid = cr.uid /\ v.live = cr.live
  BY <1>v DEF Version
<1>p. \A p, e : WithPhase(cr, p, e).uid = cr.uid /\ WithPhase(cr, p, e).live = cr.live
  BY <1>v DEF WithPhase, Version
<1>s. \A v \in {d, o, u} : Settle(v).uid = cr.uid /\ (Settle(v).live => cr.live)
  BY <1>k, SettleKeeps
<1> HIDE DEF d, o, f, u
<1>1. CASE UserCreate
  <2>1. cr.uid \in Nat /\ cr'.uid = cr.uid + 1
    BY <1>v, <1>1 DEF UserCreate, Commit, Absent, Version
  <2> QED
    BY <2>1
<1>2. CASE UserDelete \/ OtherFinalizerRemoved \/ DeleteExpired \/ RemoveFinalizer
  <2>1. cr' \in {cr, Settle(d), Settle(o), Settle(u)}
    BY <1>2 DEF UserDelete, OtherFinalizerRemoved, DeleteExpired, RemoveFinalizer,
                DeleteOf, Unprotected, WriteFails, Commit, server, d, o, u
  <2> QED
    BY <1>k, <1>s, <2>1
<1>3. CASE AddFinalizer
  <2>1. cr' \in {cr, f}
    BY <1>3 DEF AddFinalizer, WriteFails, Commit, server, f
  <2> QED
    BY <1>k, <2>1
<1>4. CASE MarkCreating \/ MarkReady \/ MarkDeleting \/ SetError
  <2>1. cr' = cr \/ \E p, e : cr' = WithPhase(cr, p, e)
    BY <1>4 DEF MarkCreating, MarkReady, MarkDeleting, SetError, Write, WriteFails,
                Commit, server
  <2> QED
    BY <1>p, <2>1
<1>5. CASE \/ ReconcileNothing \/ ReconcileDeletion \/ ReconcileExpired
           \/ ReconcileUnprotected \/ ReconcileReady \/ ReconcileCreation
           \/ CreateClone \/ Start \/ Stop \/ DeleteClone
           \/ Elapse \/ Deliver \/ TimerFires \/ LateCall \/ Crash \/ UNCHANGED vars
  <2>1. cr' = cr
    BY <1>5 DEF ReconcileNothing, ReconcileDeletion, ReconcileExpired,
       ReconcileUnprotected, ReconcileReady, ReconcileCreation, Begin,
       CreateClone, Start, Stop, DeleteClone,
       Elapse, Deliver, TimerFires, LateCall, Crash, server, vars
  <2> QED
    BY <2>1
<1> QED
  BY <1>1, <1>2, <1>3, <1>4, <1>5 DEF Next, Environment, Reconcile

LEMMA NumberedInvariant == Spec => []Numbered
<1>1. ~Blank.live
  BY DEF Blank, Absent
<1>2. Init => Numbered
  BY <1>1 DEF Init, Numbered
<1> QED
  BY <1>2, NextNumbered, ControlInvariant, PTL DEF Spec

LEMMA InitFleet == Init => Fleet!FleetInit
<1>1. ~Blank.live /\ Blank.uid = 0
  BY DEF Blank, Absent
<1> QED
  BY <1>1 DEF Init, Fleet!FleetInit, FleetStage, FleetWorker

(* A step of the fleet is a step of the one name in it.                    *)
LEMMA FleetStutters ==
    ASSUME FleetStage' = FleetStage, cr'.uid = cr.uid, FleetWorker' = FleetWorker,
           clone' = clone
    PROVE  UNCHANGED Fleet!fleet
  BY DEF Fleet!fleet

LEMMA FleetCreates ==
    ASSUME FleetStage = "absent", FleetStage' = "new", cr.uid < MaxUid,
           cr'.uid = cr.uid + 1, FleetWorker' = FleetWorker, clone' = clone
    PROVE  Fleet!FleetNext
<1>1. Fleet!UserCreate(name)
  BY DEF Fleet!UserCreate, Fleet!Stage
<1> QED
  BY <1>1 DEF Fleet!FleetNext

(* The steps that move the resource of the name and nothing else.          *)
LEMMA FleetResource ==
    ASSUME cr'.uid = cr.uid, clone' = clone, FleetWorker' = FleetWorker,
           \/ FleetStage = "new" /\ FleetStage' \in {"absent", "released"}
           \/ FleetStage \in {"creating", "ready"} /\ FleetStage' = "deleting"
           \/ FleetStage = "released" /\ FleetStage' = "absent"
           \/ FleetStage = "new" /\ FleetStage' = "creating" /\ FleetWorker = "idle"
    PROVE  Fleet!FleetNext
<1>1. \/ Fleet!Delete(name) \/ Fleet!Release(name) \/ Fleet!Protect(name)
  BY DEF Fleet!Delete, Fleet!Release, Fleet!Protect, Fleet!Stage, Fleet!Live,
         Fleet!StagesDeleted, Fleet!Gone
<1> QED
  BY <1>1 DEF Fleet!FleetNext, Fleet!Operator

LEMMA FleetWorks ==
    ASSUME cr'.uid = cr.uid,
           \/ /\ FleetStage' = FleetStage /\ clone' = clone
              /\ FleetWorker # "idle" /\ FleetWorker' = "idle"
           \/ /\ FleetStage = "creating" /\ FleetStage' = FleetStage /\ clone' = clone
              /\ FleetWorker = "idle" /\ FleetWorker' = "creating"
           \/ /\ FleetStage' = FleetStage /\ clone' # 0
              /\ FleetWorker = "creating" /\ FleetWorker' \in {"created", "idle"}
           \/ /\ FleetStage = "creating" /\ FleetStage' = "ready" /\ clone' = clone
              /\ FleetWorker = "created" /\ FleetWorker' = "idle"
           \/ /\ FleetStage = "deleting" /\ FleetStage' = FleetStage /\ clone' = 0
              /\ FleetWorker = "idle" /\ FleetWorker' \in {"deleted", "idle"}
           \/ /\ FleetStage' \in {"absent", "released"} /\ clone' = clone
              /\ FleetWorker = "deleted" /\ FleetWorker' = "idle"
    PROVE  Fleet!FleetNext
<1>1. \/ Fleet!Abandon(name) \/ Fleet!BeginCreation(name) \/ Fleet!CreateClone(name)
      \/ Fleet!MarkReady(name) \/ Fleet!DeleteClone(name) \/ Fleet!RemoveFinalizer(name)
  BY DEF Fleet!Abandon, Fleet!BeginCreation, Fleet!CreateClone, Fleet!MarkReady,
         Fleet!DeleteClone, Fleet!RemoveFinalizer, Fleet!Gone, Fleet!Stage, Fleet!Work
<1> QED
  BY <1>1 DEF Fleet!FleetNext, Fleet!Operator

(* How stage and worker follow from the fields and from pc.                *)
LEMMA FleetStageOf ==
    /\ ~cr.live => FleetStage = "absent"
    /\ cr.live /\ cr.del /\ cr.fin => FleetStage = "deleting"
    /\ cr.live /\ cr.del /\ ~cr.fin => FleetStage = "released"
    /\ cr.live /\ ~cr.del /\ ~cr.fin => FleetStage = "new"
    /\ cr.live /\ ~cr.del /\ cr.fin => FleetStage \in {"creating", "ready"}
    /\ cr.live /\ ~cr.del /\ cr.fin /\ cr.phase # "Ready" => FleetStage = "creating"
    /\ cr.live /\ ~cr.del /\ cr.fin /\ cr.phase = "Ready" => FleetStage = "ready"
  BY DEF FleetStage

LEMMA FleetStageOfNext ==
    /\ ~cr'.live => FleetStage' = "absent"
    /\ cr'.live /\ cr'.del /\ cr'.fin => FleetStage' = "deleting"
    /\ cr'.live /\ cr'.del /\ ~cr'.fin => FleetStage' = "released"
    /\ cr'.live /\ ~cr'.del /\ ~cr'.fin => FleetStage' = "new"
    /\ cr'.live /\ ~cr'.del /\ cr'.fin /\ cr'.phase # "Ready" => FleetStage' = "creating"
    /\ cr'.live /\ ~cr'.del /\ cr'.fin /\ cr'.phase = "Ready" => FleetStage' = "ready"
  BY DEF FleetStage

LEMMA FleetWorkerOf ==
    /\ pc \notin {"createClone", "start", "markReady", "removeFinalizer"} => FleetWorker = "idle"
    /\ pc = "createClone" => FleetWorker = "creating"
    /\ pc \in {"start", "markReady"} => FleetWorker = "created"
    /\ pc = "removeFinalizer" => FleetWorker = "deleted"
    /\ pc' \notin {"createClone", "start", "markReady", "removeFinalizer"} => FleetWorker' = "idle"
    /\ pc' = "createClone" => FleetWorker' = "creating"
    /\ pc' \in {"start", "markReady"} => FleetWorker' = "created"
    /\ pc' = "removeFinalizer" => FleetWorker' = "deleted"
    /\ pc' = pc => FleetWorker' = FleetWorker
  BY DEF FleetWorker

LEMMA NextFleet ==
    ASSUME ControlInv, Numbered, late = {}, ~LateRequests, [Next]_vars
    PROVE  [Fleet!FleetNext]_(Fleet!fleet)
<1> DEFINE Goal == Fleet!FleetNext \/ UNCHANGED Fleet!fleet
           d == [cr EXCEPT !.del = TRUE, !.rv = cr.rv + 1]
           o == [cr EXCEPT !.other = FALSE, !.rv = cr.rv + 1]
           f == [cr EXCEPT !.fin = TRUE, !.rv = cr.rv + 1]
           u == [cr EXCEPT !.fin = FALSE, !.rv = cr.rv + 1]
<1> SUFFICES Goal
  OBVIOUS
<1>v. cr \in Version /\ WellFormed(cr)
  BY DEF ControlInv, TypeOK, WindowInv
<1>d. /\ d.fin = cr.fin /\ d.uid = cr.uid /\ d.phase = cr.phase
      /\ d.live = cr.live /\ d.del
      /\ o.fin = cr.fin /\ o.uid = cr.uid /\ o.phase = cr.phase
      /\ o.live = cr.live /\ o.del = cr.del
      /\ f.uid = cr.uid /\ f.phase = cr.phase /\ f.live = cr.live
      /\ f.del = cr.del /\ f.fin
      /\ u.uid = cr.uid /\ u.phase = cr.phase /\ u.live = cr.live
      /\ u.del = cr.del /\ ~u.fin
  BY <1>v DEF Version
<1>a. \A n, i : ~Absent(n, i).live /\ Absent(n, i).uid = i
  BY DEF Absent
<1>w. ASSUME NEW p, NEW e, cr' = WithPhase(cr, p, e)
      PROVE  /\ cr'.phase = p /\ cr'.live = cr.live /\ cr'.del = cr.del
             /\ cr'.fin = cr.fin /\ cr'.uid = cr.uid
  BY <1>w, <1>v DEF WithPhase, Version
(* The resource stays: at most the worker gives up.                        *)
<1>u. ASSUME FleetStage' = FleetStage, cr'.uid = cr.uid, clone' = clone,
             pc' \notin {"createClone", "start", "markReady", "removeFinalizer"} \/ pc' = pc
      PROVE  Goal
  <2>1. FleetWorker' = "idle" \/ FleetWorker' = FleetWorker
    BY <1>u, FleetWorkerOf
  <2> QED
    BY <1>u, <2>1, FleetWorks, FleetStutters
<1>c. cr' = cr => FleetStage' = FleetStage /\ cr'.uid = cr.uid
  BY DEF FleetStage
<1>s. cr'.live = cr.live /\ cr'.del = cr.del /\ cr'.fin = cr.fin
        /\ (cr.del \/ ~cr.fin \/ (cr.phase = "Ready" <=> cr'.phase = "Ready"))
      => FleetStage' = FleetStage
  BY DEF FleetStage
(* A DELETE, while the worker does what it does.                           *)
<1>r. ASSUME cr.live, ~cr.del, cr' = Settle(d), clone' = clone, FleetWorker' = FleetWorker
      PROVE  Goal
  <2>1. cr'.uid = cr.uid
    BY <1>a, <1>d, <1>r DEF Settle
  <2>2. CASE cr.fin
    <3>1. cr'.live /\ cr'.del /\ cr'.fin
      BY <1>d, <1>r, <2>2 DEF Settle
    <3> QED
      BY <1>r, <2>1, <2>2, <3>1, FleetStageOf, FleetStageOfNext, FleetResource
  <2>3. CASE ~cr.fin
    <3>1. ~cr'.live \/ (cr'.live /\ cr'.del /\ ~cr'.fin)
      BY <1>a, <1>d, <1>r, <2>3 DEF Settle
    <3> QED
      BY <1>r, <2>1, <2>3, <3>1, FleetStageOf, FleetStageOfNext, FleetResource
  <2> QED
    BY <2>2, <2>3
<1>1. CASE UserCreate
  <2>1. PICK ttl \in BOOLEAN, other \in BOOLEAN :
          cr' = [Absent(cr.rv + 1, cr.uid + 1) EXCEPT
                    !.live = TRUE, !.ttl = ttl, !.other = other]
    BY <1>1 DEF UserCreate, Commit
  <2>2. cr'.live /\ ~cr'.del /\ ~cr'.fin /\ cr'.uid = cr.uid + 1
    BY <2>1 DEF Absent
  <2>3. ~cr.live /\ cr.uid < MaxUid /\ clone' = clone /\ pc' = pc
    BY <1>1 DEF UserCreate, outside, worker
  <2> QED
    BY <2>2, <2>3, FleetStageOf, FleetStageOfNext, FleetWorkerOf, FleetCreates
<1>2. CASE UserDelete
  <2>1. cr.live /\ ~cr.del /\ cr' = Settle(d) /\ clone' = clone /\ pc' = pc
    BY <1>2 DEF UserDelete, DeleteOf, Commit, outside, worker
  <2> QED
    BY <1>r, <2>1, FleetWorkerOf
<1>3. CASE OtherFinalizerRemoved
  <2>1. cr.live /\ cr' = Settle(o) /\ clone' = clone /\ pc' = pc
    BY <1>3 DEF OtherFinalizerRemoved, Commit, outside, worker
  <2>2. cr' = o \/ (cr.del /\ ~cr.fin /\ cr' = Absent(o.rv, o.uid))
    BY <1>d, <2>1 DEF Settle
  <2> HIDE DEF o, Goal
  <2>3. CASE cr' = o
    BY <1>d, <1>s, <1>u, <2>1, <2>3
  <2>4. CASE cr.del /\ ~cr.fin /\ cr' = Absent(o.rv, o.uid)
    <3>1. ~cr'.live /\ cr'.uid = cr.uid
      BY <1>a, <1>d, <2>4
    <3> QED
      BY <2>1, <2>4, <3>1, FleetStageOf, FleetStageOfNext, FleetWorkerOf, FleetResource DEF Goal
  <2> QED
    BY <2>2, <2>3, <2>4
<1>4. CASE Elapse \/ Deliver \/ TimerFires \/ Crash \/ UNCHANGED vars
  BY <1>4, <1>c, <1>u DEF Elapse, Deliver, TimerFires, Crash, outside, worker, vars
<1>5. CASE LateCall
  BY <1>5 DEF LateCall
<1>6. CASE \/ ReconcileNothing \/ ReconcileDeletion \/ ReconcileExpired
           \/ ReconcileUnprotected \/ ReconcileReady \/ ReconcileCreation
  BY <1>6, <1>c, <1>u DEF ReconcileNothing, ReconcileDeletion, ReconcileExpired,
     ReconcileUnprotected, ReconcileReady, ReconcileCreation, Begin, outside
<1>7. CASE DeleteExpired
  <2>1. pc = "expire" /\ pc' = "idle" /\ clone' = clone
    BY <1>7 DEF DeleteExpired, Return, Requeue, outside
  <2>2. cr' = cr \/ (cr.live /\ ~cr.del /\ cr' = Settle(d))
    BY <1>7 DEF DeleteExpired, DeleteOf, Commit, server
  <2> QED
    BY <1>c, <1>r, <1>u, <2>1, <2>2, FleetWorkerOf
<1>8. CASE AddFinalizer
  <2>1. pc = "addFinalizer" /\ pc' = "idle" /\ clone' = clone
    BY <1>8 DEF AddFinalizer, WriteFails, Requeue, outside
  <2>2. cr' = cr \/ (Fresh /\ cr' = f)
    BY <1>8 DEF AddFinalizer, WriteFails, Commit, server
  <2>3. Fresh => cr.live /\ ~cr.fin /\ ~cr.del /\ cr.phase = ""
    BY <2>1, FreshCopy DEF ControlInv, WorkerInv, WellFormed
  <2> HIDE DEF f
  <2>4. CASE Fresh /\ cr' = f
    <3>1. cr'.live /\ cr'.fin /\ ~cr'.del /\ cr'.phase = "" /\ cr'.uid = cr.uid
      BY <1>d, <2>3, <2>4
    <3> QED
      BY <2>1, <2>3, <2>4, <3>1, FleetStageOf, FleetStageOfNext, FleetWorkerOf, FleetResource
  <2> QED
    BY <1>c, <1>u, <2>1, <2>2, <2>4
<1>9. CASE MarkCreating
  <2>1. pc = "markCreating" /\ pc' \in {"idle", "createClone"} /\ clone' = clone
    BY <1>9 DEF MarkCreating, Write, WriteFails, Requeue, outside
  <2>2. \/ cr' = cr /\ pc' = "idle"
        \/ Fresh /\ cr' = WithPhase(cr, "Creating", cr.exp)
    BY <1>9 DEF MarkCreating, Write, WriteFails, Requeue, Commit, server
  <2>3. CASE Fresh /\ cr' = WithPhase(cr, "Creating", cr.exp)
    <3>1. cr.live /\ cr.fin /\ ~cr.del /\ cr.phase # "Ready"
      BY <2>1, <2>3, FreshCopy DEF ControlInv, WorkerInv
    <3>2. /\ cr'.live = cr.live /\ cr'.del = cr.del /\ cr'.fin = cr.fin
          /\ cr'.uid = cr.uid /\ cr'.phase = "Creating"
      BY <1>w, <2>3
    <3>3. FleetStage = "creating" /\ FleetStage' = "creating"
      BY <3>1, <3>2, FleetStageOf, FleetStageOfNext
    <3> QED
      BY <1>u, <2>1, <3>2, <3>3, FleetWorkerOf, FleetWorks
  <2> QED
    BY <1>c, <1>u, <2>1, <2>2, <2>3
<1>10. CASE MarkDeleting
  <2>1. pc = "markDeleting" /\ pc' \in {"idle", "stop"} /\ clone' = clone
    BY <1>10 DEF MarkDeleting, Write, WriteFails, Requeue, outside
  <2>2. cr' = cr \/ (Fresh /\ cr' = WithPhase(cr, "Deleting", cr.exp))
    BY <1>10 DEF MarkDeleting, Write, WriteFails, Commit, server
  <2>3. Fresh => cr.del
    BY <2>1, FreshCopy DEF ControlInv, WorkerInv
  <2> HIDE DEF Goal
  <2> QED
    BY <1>c, <1>s, <1>u, <1>w, <2>1, <2>2, <2>3
<1>11. CASE SetError
  <2>1. pc = "setError" /\ pc' = "idle" /\ clone' = clone
    BY <1>11 DEF SetError, Requeue, outside
  <2>2. cr' = cr \/ (Fresh /\ cr' = WithPhase(cr, "Error", cr.exp))
    BY <1>11 DEF SetError, Commit, server
  <2>3. Fresh => cr.phase # "Ready"
    BY <2>1, FreshCopy DEF ControlInv, WorkerInv
  <2> HIDE DEF Goal
  <2> QED
    BY <1>c, <1>s, <1>u, <1>w, <2>1, <2>2, <2>3
<1>12. CASE CreateClone
  <2>1. pc = "createClone" /\ pc' \in {"start", "setError"} /\ cr' = cr
    BY <1>12 DEF CreateClone, Goto, server
  <2>2. \/ clone' = CloneFor(obj.uid)
        \/ clone' = clone /\ pc' = "setError"
    BY <1>12 DEF CreateClone, GiveUp, Goto
  <2>3. obj.uid # 0
    BY <1>v, <2>1 DEF ControlInv, WorkerInv, Creation, WellFormed, Numbered
  <2>5. CloneFor(obj.uid) # 0
    BY <2>3 DEF CloneFor
  <2>4. CASE clone' # 0
    BY <1>c, <2>1, <2>4, FleetWorkerOf, FleetWorks
  <2> QED
    BY <1>c, <1>u, <2>1, <2>2, <2>4, <2>5
<1>13. CASE Start
  <2>1. pc = "start" /\ pc' \in {"markReady", "setError"} /\ cr' = cr /\ clone' = clone
    BY <1>13 DEF Start, Goto, server
  <2>2. FleetWorker' = FleetWorker \/ pc' = "setError"
    BY <2>1, FleetWorkerOf
  <2> QED
    BY <1>c, <1>u, <2>1, <2>2, FleetStutters
<1>14. CASE MarkReady
  <2>1. pc = "markReady" /\ pc' = "idle" /\ clone' = clone
    BY <1>14 DEF MarkReady, Return, WriteFails, Requeue, outside
  <2>2. cr' = cr \/ (Fresh /\ cr' = WithPhase(cr, "Ready", cr.ttl))
    BY <1>14 DEF MarkReady, WriteFails, Commit, server
  <2>3. CASE Fresh /\ cr' = WithPhase(cr, "Ready", cr.ttl)
    <3>1. cr.live /\ cr.fin /\ ~cr.del /\ cr.phase # "Ready"
      BY <2>1, <2>3, FreshCopy DEF ControlInv, WorkerInv, Creation
    <3>2. /\ cr'.live = cr.live /\ cr'.del = cr.del /\ cr'.fin = cr.fin
          /\ cr'.uid = cr.uid /\ cr'.phase = "Ready"
      BY <1>w, <2>3
    <3>3. FleetStage = "creating" /\ FleetStage' = "ready"
      BY <3>1, <3>2, FleetStageOf, FleetStageOfNext
    <3> QED
      BY <2>1, <3>2, <3>3, FleetWorkerOf, FleetWorks
  <2> QED
    BY <1>c, <1>u, <2>1, <2>2, <2>3
<1>15. CASE Stop
  BY <1>15, <1>c, <1>u DEF Stop, Goto, server
<1>e. pc \in Cleanup => cr.del /\ cr.fin /\ cr.live
  BY <1>v DEF ControlInv, WorkerInv, WellFormed
<1>16. CASE DeleteClone
  <2>1. pc = "deleteClone" /\ pc' \in {"removeFinalizer", "setError"} /\ cr' = cr
    BY <1>16 DEF DeleteClone, Goto, server
  <2>2. \/ clone' = 0
        \/ clone' = clone /\ pc' = "setError"
    BY <1>16 DEF DeleteClone, GiveUp, Goto
  <2>3. FleetStage = "deleting"
    BY <1>e, <2>1, FleetStageOf DEF Cleanup
  <2> QED
    BY <1>c, <1>u, <2>1, <2>2, <2>3, FleetWorkerOf, FleetWorks
<1>17. CASE RemoveFinalizer
  <2>1. pc = "removeFinalizer" /\ pc' = "idle" /\ clone' = clone
    BY <1>17 DEF RemoveFinalizer, Return, WriteFails, Requeue, outside
  <2>2. cr' = cr \/ cr' = Settle(u)
    BY <1>17 DEF RemoveFinalizer, Unprotected, WriteFails, Commit, server
  <2>3. CASE cr' = Settle(u)
    <3>1. cr'.uid = cr.uid /\ (~cr'.live \/ (cr'.live /\ cr'.del /\ ~cr'.fin))
      BY <1>a, <1>d, <1>e, <2>1, <2>3 DEF Settle, Cleanup
    <3> QED
      BY <2>1, <3>1, FleetStageOfNext, FleetWorkerOf, FleetWorks
  <2> QED
    BY <1>c, <1>u, <2>1, <2>2, <2>3
<1> QED
  BY <1>1, <1>2, <1>3, <1>4, <1>5, <1>6, <1>7, <1>8, <1>9, <1>10, <1>11,
     <1>12, <1>13, <1>14, <1>15, <1>16, <1>17
     DEF Next, Environment, Reconcile

(* What the operator does to a name is a behaviour of BranchFleet, for all *)
(* bounds and whether Deletes of Stop fail, as long as calls given up are  *)
(* not executed: the fleet CloneGC is proved on is that of the operator.   *)
THEOREM OperatorImplementsFleet ==
    ASSUME ~LateRequests
    PROVE  Spec => ImplementsFleet
<1>1. ControlInv /\ Numbered /\ late = {} /\ [Next]_vars =>
        [Fleet!FleetNext]_(Fleet!fleet)
  BY NextFleet
<1> QED
  BY <1>1, InitFleet, ControlInvariant, NumberedInvariant, NothingLate, PTL
     DEF Spec, ImplementsFleet, Fleet!FleetSpec
=============================================================================
