-------------------------- MODULE NfsRelease_proofs --------------------------
(***************************************************************************)
(* Proofs about NfsRelease for any number of clones and of requests.       *)
(***************************************************************************)
EXTENDS NfsRelease, TLAPS

LEMMA InitTyping == Init => TypeOK
<1>1. Init => misread \in BOOLEAN
  BY DEF Init
<1> QED
  BY <1>1, ReleaseAssumption DEF Init, TypeOK, Commands

THEOREM Typing == Spec => []TypeOK
<1> USE ReleaseAssumption DEF Commands
<1>1. Init => TypeOK
  BY InitTyping
<1>2. TypeOK /\ [Next]_vars => TypeOK'
  <2> SUFFICES ASSUME TypeOK, [Next]_vars PROVE TypeOK'
    OBVIOUS
  <2>1. CASE Serve
    BY <2>1 DEF TypeOK, Serve, dataset, counts
  <2>2. ASSUME NEW r \in Requests, Unshare(r) PROVE TypeOK'
    BY <2>2 DEF TypeOK, Unshare, Step, counts
  <2>3. ASSUME NEW r \in Requests, HangUp(r) PROVE TypeOK'
    BY <2>3 DEF TypeOK, HangUp, dataset, nfs, counts
  <2>4. ASSUME NEW r \in Requests, Release(r) PROVE TypeOK'
    <3>1. CASE DestroyDone(r)
      BY <3>1 DEF TypeOK, DestroyDone, Step, counts
    <3>2. CASE DestroyFails(r)
      BY <3>2 DEF TypeOK, DestroyFails, Step, dataset, nfs, counts, Fault
    <3>3. CASE DestroyBusy(r)
      BY <3>3 DEF TypeOK, DestroyBusy, Step, dataset, nfs, counts
    <3>4. CASE ReadNFSDThreads(r)
      <4>1. misread' \in BOOLEAN
        BY <3>4 DEF TypeOK, ReadNFSDThreads
      <4>2. prev' \in [Requests -> Nat] /\ faults' \in 0..MaxFaults
        BY <3>4 DEF TypeOK, ReadNFSDThreads, Fault, DefaultThreads
      <4> QED
        BY <3>4, <4>1, <4>2 DEF TypeOK, ReadNFSDThreads, Step, dataset, nfs
    <3>5. CASE StopThreads(r)
      <4>1. threads' \in Nat /\ shared' \subseteq Clones /\ pinned' \subseteq Clones
            /\ ignored' = ignored
        BY <3>5 DEF TypeOK, StopThreads, nfs
      <4>2. faults' \in 0..MaxFaults
        BY <3>5 DEF TypeOK, StopThreads, Fault
      <4>3. pc' \in [Requests -> Commands]
        BY <3>5 DEF TypeOK, StopThreads, Step
      <4> QED
        BY <4>1, <4>2, <4>3, <3>5 DEF TypeOK, StopThreads, dataset
    <3>6. CASE DestroyAgain(r)
      BY <3>6 DEF TypeOK, DestroyAgain, Step, Fault, counts
    <3>7. CASE RestoreThreads(r)
      <4>1. ignored' \subseteq {"threads", "shares"} /\ threads' \in Nat
            /\ shared' \subseteq Clones
        BY <3>7 DEF TypeOK, RestoreThreads, dataset
      <4>2. faults' \in 0..MaxFaults
        BY <3>7 DEF TypeOK, RestoreThreads, Fault
      <4>3. pc' \in [Requests -> Commands]
        BY <3>7 DEF TypeOK, RestoreThreads, Step
      <4> QED
        BY <4>1, <4>2, <4>3, <3>7 DEF TypeOK, RestoreThreads, dataset
    <3>8. CASE ShareAll(r)
      <4>1. ignored' \subseteq {"threads", "shares"} /\ threads' \in Nat
            /\ shared' \subseteq Clones
        BY <3>8 DEF TypeOK, ShareAll, dataset, counts
      <4>2. faults' \in 0..MaxFaults
        BY <3>8 DEF TypeOK, ShareAll, Fault
      <4>3. pc' \in [Requests -> Commands]
        BY <3>8 DEF TypeOK, ShareAll, Step
      <4> QED
        BY <4>1, <4>2, <4>3, <3>8 DEF TypeOK, ShareAll, dataset, counts
    <3> QED
      BY <2>4, <3>1, <3>2, <3>3, <3>4, <3>5, <3>6, <3>7, <3>8 DEF Release
  <2>5. CASE Crash
    <3>1. ignored' \subseteq {"threads", "shares"}
      BY <2>5 DEF TypeOK, Crash
    <3>2. pc' \in [Requests -> Commands] /\ faults' \in 0..MaxFaults
      BY <2>5 DEF TypeOK, Crash, Fault
    <3> QED
      BY <2>5, <3>1, <3>2 DEF TypeOK, Crash, dataset
  <2>6. CASE UNCHANGED vars
    BY <2>6 DEF TypeOK, vars
  <2> QED
    BY <2>1, <2>2, <2>3, <2>4, <2>5, <2>6 DEF Next
<1> QED
  BY <1>1, <1>2, PTL DEF Spec

-----------------------------------------------------------------------------
(* A request between reading the count and restoring it holds a count that *)
(* will start nfsd again: readNFSDThreads never answers 0, whatever other  *)
(* requests did before the read.                                           *)
Restarters == {"stopThreads", "destroyAgain", "restoreThreads"}

PrevStartsNFSD == \A r \in Requests : pc[r] \in Restarters => prev[r] > 0

SharingOwned ==
    ~(exists \ wanted \subseteq shared)
        => Resharing \/ "shares" \in ignored

StoppingOwned == threads = 0 => Restarting \/ "threads" \in ignored

OutageInv == TypeOK /\ PrevStartsNFSD /\ SharingOwned /\ StoppingOwned

LEMMA OutageInit == Init => OutageInv
BY InitTyping, ReleaseAssumption
   DEF Init, OutageInv, PrevStartsNFSD, SharingOwned, StoppingOwned, Restarters

(* What every step of a request preserves of the counts read.              *)
LEMMA PrevStep ==
    ASSUME TypeOK, PrevStartsNFSD, [Next]_vars
    PROVE  PrevStartsNFSD'
<1> USE ReleaseAssumption DEF PrevStartsNFSD, Restarters, TypeOK
<1>1. CASE Serve
  BY <1>1 DEF Serve, counts
<1>2. ASSUME NEW r \in Requests, Unshare(r) PROVE PrevStartsNFSD'
  BY <1>2 DEF Unshare, Step, counts
<1>3. ASSUME NEW r \in Requests, HangUp(r) PROVE PrevStartsNFSD'
  BY <1>3 DEF HangUp, counts
<1>4. ASSUME NEW r \in Requests, ReadNFSDThreads(r) PROVE PrevStartsNFSD'
  BY <1>4 DEF ReadNFSDThreads, Step, DefaultThreads
<1>5. ASSUME NEW r \in Requests, Release(r), ~ReadNFSDThreads(r)
      PROVE  PrevStartsNFSD'
  BY <1>5 DEF Release, DestroyDone, DestroyFails, DestroyBusy, StopThreads,
              DestroyAgain, RestoreThreads, ShareAll, Step, counts
<1>6. CASE Crash
  BY <1>6 DEF Crash
<1>7. CASE UNCHANGED vars
  BY <1>7 DEF vars
<1> QED
  BY <1>1, <1>2, <1>3, <1>4, <1>5, <1>6, <1>7 DEF Next

(* One step of a request, seen by the outage it causes or ends.            *)
LEMMA OwnerStep ==
    ASSUME OutageInv, NEW r \in Requests, Release(r)
    PROVE  SharingOwned' /\ StoppingOwned'
<1> USE DEF OutageInv, TypeOK, SharingOwned, StoppingOwned, Resharing,
            Restarting, Runs
<1>1. CASE DestroyDone(r)
  BY <1>1 DEF DestroyDone, Step
<1>2. CASE DestroyFails(r)
  BY <1>2 DEF DestroyFails, Step, dataset, nfs, counts
<1>3. CASE DestroyBusy(r)
  BY <1>3 DEF DestroyBusy, Step, dataset, nfs, counts
<1>4. CASE ReadNFSDThreads(r)
  BY <1>4 DEF ReadNFSDThreads, Step, dataset, nfs, counts
<1>5. CASE StopThreads(r)
  BY <1>5 DEF StopThreads, Step, dataset, nfs, counts
<1>6. CASE DestroyAgain(r)
  BY <1>6 DEF DestroyAgain, Step
<1>7. CASE RestoreThreads(r)
  <2>1. prev[r] > 0
    BY <1>7 DEF RestoreThreads, Step, PrevStartsNFSD, Restarters
  <2> QED
    BY <1>7, <2>1 DEF RestoreThreads, Step, dataset
<1>8. CASE ShareAll(r)
  BY <1>8 DEF ShareAll, Step, dataset
<1> QED
  BY <1>1, <1>2, <1>3, <1>4, <1>5, <1>6, <1>7, <1>8 DEF Release

LEMMA OutageStep ==
    ASSUME OutageInv, [Next]_vars, TypeOK'
    PROVE  OutageInv'
<1>1. PrevStartsNFSD'
  BY PrevStep DEF OutageInv
<1>2. SharingOwned' /\ StoppingOwned'
  <2> USE DEF OutageInv, TypeOK, SharingOwned, StoppingOwned, Resharing,
              Restarting
  <2>1. CASE Serve
    BY <2>1 DEF Serve, dataset
  <2>2. ASSUME NEW r \in Requests, Unshare(r)
        PROVE  SharingOwned' /\ StoppingOwned'
    BY <2>2 DEF Unshare, Step
  <2>3. ASSUME NEW r \in Requests, HangUp(r)
        PROVE  SharingOwned' /\ StoppingOwned'
    BY <2>3 DEF HangUp, dataset, nfs, counts
  <2>4. ASSUME NEW r \in Requests, Release(r)
        PROVE  SharingOwned' /\ StoppingOwned'
    BY <2>4, OwnerStep
  <2>5. CASE Crash
    BY <2>5 DEF Crash, dataset
  <2>6. CASE UNCHANGED vars
    BY <2>6 DEF vars
  <2> QED
    BY <2>1, <2>2, <2>3, <2>4, <2>5, <2>6 DEF Next
<1> QED
  BY <1>1, <1>2 DEF OutageInv

LEMMA OutageInvariant == Spec => []OutageInv
<1>1. Spec => []TypeOK
  BY Typing
<1>2. TypeOK' /\ OutageInv /\ [Next]_vars => OutageInv'
  BY OutageStep
<1> QED
  BY <1>1, <1>2, OutageInit, PTL DEF Spec

(* However many deletions interleave, a stopped nfsd and a missing export  *)
(* have a request that will restore them, and with no deletion under way   *)
(* every surviving clone is exported, up to restoring commands that fail   *)
(* themselves or are not run, their client or the agent gone.              *)
THEOREM OutageHasAnOwner == Spec => []OutageIsOwned
<1>1. OutageInv => OutageIsOwned
  BY DEF OutageInv, SharingOwned, StoppingOwned, OutageIsOwned
<1> QED
  BY <1>1, OutageInvariant, PTL

(* With no deletion under way, the exports are back.                       *)
THEOREM SharesComeBack == Spec => []SharesRestored
<1>1. OutageInv => SharesRestored
  BY DEF OutageInv, SharingOwned, SharesRestored, Resharing, Restarting, Idle
<1> QED
  BY <1>1, OutageInvariant, PTL

-----------------------------------------------------------------------------
(* Every count read and restored is the host's, or the default once some   *)
(* request has misread it; nfsd runs one of them or is stopped.            *)
Counts == {Configured} \cup (IF misread THEN {DefaultThreads} ELSE {})

ThreadsInv ==
    /\ threads \in {0} \cup Counts
    /\ \A r \in Requests : pc[r] \in Restarters => prev[r] \in Counts

(* Whatever count the host is configured with and however many deletions   *)
(* interleave, nfsd runs that many threads when none is under way, up to   *)
(* restoring writes that fail or are not run; or DefaultThreads, but only  *)
(* if some request has read a 0 another one wrote or could not read.       *)
THEOREM ThreadsComeBack == Spec => []ThreadsRestored
<1>1. Init => ThreadsInv
  BY DEF Init, ThreadsInv, Restarters, Counts
<1>2. ThreadsInv /\ OutageInv /\ [Next]_vars => ThreadsInv'
  <2> SUFFICES ASSUME ThreadsInv, OutageInv, [Next]_vars PROVE ThreadsInv'
    OBVIOUS
  <2>c. Counts \subseteq Counts'
    <3>1. misread' = misread \/ misread' = TRUE
      BY DEF Next, Serve, Crash, Unshare, HangUp, Release, DestroyDone,
             DestroyFails, DestroyBusy, ReadNFSDThreads, StopThreads,
             DestroyAgain, RestoreThreads, ShareAll, counts, vars
    <3> QED
      BY <3>1 DEF Counts
  <2> USE <2>c DEF ThreadsInv, Restarters, OutageInv, TypeOK
  <2>1. CASE Serve
    BY <2>1 DEF Serve, counts
  <2>2. ASSUME NEW r \in Requests, Unshare(r) PROVE ThreadsInv'
    BY <2>2 DEF Unshare, Step, counts
  <2>3. ASSUME NEW r \in Requests, HangUp(r) PROVE ThreadsInv'
    BY <2>3 DEF HangUp, nfs, counts
  <2>4. ASSUME NEW r \in Requests, ReadNFSDThreads(r) PROVE ThreadsInv'
    <3>1. prev'[r] \in Counts'
      BY <2>4 DEF ReadNFSDThreads, Counts
    <3> QED
      BY <2>4, <3>1 DEF ReadNFSDThreads, Step, nfs
  <2>5. ASSUME NEW r \in Requests, StopThreads(r) PROVE ThreadsInv'
    BY <2>5 DEF StopThreads, Step, nfs
  <2>6. ASSUME NEW r \in Requests, RestoreThreads(r) PROVE ThreadsInv'
    BY <2>6 DEF RestoreThreads, Step
  <2>7. ASSUME NEW r \in Requests, Release(r), ~ReadNFSDThreads(r),
               ~StopThreads(r), ~RestoreThreads(r)
        PROVE  ThreadsInv'
    BY <2>7 DEF Release, DestroyDone, DestroyFails, DestroyBusy,
                DestroyAgain, ShareAll, Step, nfs, counts
  <2>8. CASE Crash
    BY <2>8 DEF Crash
  <2>9. CASE UNCHANGED vars
    BY <2>9 DEF vars
  <2> QED
    BY <2>1, <2>2, <2>3, <2>4, <2>5, <2>6, <2>7, <2>8, <2>9 DEF Next
<1>3. ThreadsInv /\ OutageInv => ThreadsRestored
  BY DEF ThreadsInv, OutageInv, StoppingOwned, Restarting, ThreadsRestored,
         Idle, Counts
<1> QED
  BY <1>1, <1>2, <1>3, OutageInvariant, PTL DEF Spec
=============================================================================
