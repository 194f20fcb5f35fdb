----------------------------- MODULE NfsRelease -----------------------------
(***************************************************************************)
(* AgentProvider.DeleteClone and releaseNFSAndDestroy (agent_provider.go): *)
(* a clone the kernel NFS server still pins is destroyed by stopping all   *)
(* nfsd threads of the host, destroying, and starting them again. The      *)
(* agent serves each HTTP request in a goroutine of its own and takes no   *)
(* lock, so several of these sequences interleave on the one thread count  *)
(* and the one export table of the host.                                   *)
(***************************************************************************)
EXTENDS Naturals, FiniteSets

CONSTANTS
    Clones,      \* the clones of the dataset at the start
    Requests,    \* the goroutines serving DELETE /clones/{name}
    Configured,  \* the nfsd threads the host runs
    MaxFaults    \* bound: commands that fail for no reason of their own

DefaultThreads == 8

ASSUME ReleaseAssumption ==
    /\ IsFiniteSet(Clones) /\ IsFiniteSet(Requests)
    /\ Configured \in Nat \ {0}
    /\ MaxFaults \in Nat

VARIABLES
    exists,     \* the clones that exist
    shared,     \* the clones that are exported
    pinned,     \* the clones the running nfsd holds a reference to
    threads,    \* /proc/fs/nfsd/threads
    pc,         \* pc[r]: the next command of request r
    target,     \* target[r]: the clone r deletes
    prev,       \* prev[r]: the thread count r has read and will restore
    cancelled,  \* the requests whose context is cancelled
    misread,    \* history: a request has taken DefaultThreads for a count
                \* that was 0 or not to be read
    wanted,     \* the clones somebody asked to delete
    ignored,    \* restoring commands that failed or were not run, unnoticed
    faults      \* how many faults have happened (bounded by MaxFaults)

vars == <<exists, shared, pinned, threads, pc, target, prev, cancelled,
          misread, wanted, ignored, faults>>

dataset == <<exists, wanted>>
counts == <<prev, misread>>
nfs == <<shared, pinned, threads, ignored>>

Init == /\ exists = Clones /\ shared = Clones /\ pinned = {}
        /\ threads = Configured
        /\ pc = [r \in Requests |-> "idle"]
        /\ target \in [Requests -> Clones]
        /\ prev = [r \in Requests |-> 0]
        /\ cancelled = {} /\ misread = FALSE /\ wanted = {} /\ ignored = {}
        /\ faults = 0

(* The next command of a request, in the order it gives them.              *)
Commands == {"idle", "destroy", "readThreads", "stopThreads",
             "destroyAgain", "restoreThreads", "shareAll"}

Step(r, from, to) == pc[r] = from /\ pc' = [pc EXCEPT ![r] = to]

Fault == faults < MaxFaults /\ faults' = faults + 1

(* exec.CommandContext runs nothing once the context is cancelled.         *)
Runs(r) == r \notin cancelled

Busy(c) == c \in pinned /\ threads > 0

-----------------------------------------------------------------------------
(* A client reads or writes the clone: nfsd keeps it referenced.           *)
Serve ==
    /\ threads > 0
    /\ \E c \in exists \cap shared : pinned' = pinned \cup {c}
    /\ UNCHANGED <<dataset, shared, threads, ignored, pc, target, counts,
                   cancelled, faults>>

(* The HTTP client times out (30 s): the context of its request is         *)
(* cancelled.                                                              *)
HangUp(r) ==
    /\ pc[r] # "idle" /\ r \notin cancelled
    /\ cancelled' = cancelled \cup {r}
    /\ UNCHANGED <<dataset, nfs, pc, target, counts, faults>>

(* DELETE /clones/{name}; zfs unshare, its error ignored.                  *)
Unshare(r) ==
    /\ Step(r, "idle", "destroy")
    /\ \E c \in Clones :
         /\ target' = [target EXCEPT ![r] = c]
         /\ wanted' = wanted \cup {c}
         /\ shared' = shared \ {c}
    /\ cancelled' = cancelled \ {r}
    /\ UNCHANGED <<exists, pinned, threads, ignored, counts, faults>>

(* zfs destroy -f: done, or answered ErrNotFound.                          *)
DestroyDone(r) ==
    /\ Step(r, "destroy", "idle")
    /\ Runs(r) /\ ~(target[r] \in exists /\ Busy(target[r]))
    /\ exists' = exists \ {target[r]}
    /\ pinned' = pinned \ {target[r]}
    /\ UNCHANGED <<wanted, shared, threads, ignored, target, counts,
                   cancelled, faults>>

(* An error that is neither "does not exist" nor "busy" is returned.       *)
DestroyFails(r) ==
    /\ Step(r, "destroy", "idle")
    /\ \/ Runs(r) /\ Fault
       \/ ~Runs(r) /\ UNCHANGED faults
    /\ UNCHANGED <<dataset, nfs, target, counts, cancelled>>

DestroyBusy(r) ==
    /\ Step(r, "destroy", "readThreads")
    /\ Runs(r) /\ target[r] \in exists /\ Busy(target[r])
    /\ UNCHANGED <<dataset, nfs, target, counts, cancelled, faults>>

(* Variant: the count is taken as it is read.                              *)
ReadNFSDThreads_AsRead(r) ==
    /\ Step(r, "readThreads", "stopThreads")
    /\ prev' = [prev EXCEPT ![r] = threads]
    /\ UNCHANGED <<dataset, nfs, target, cancelled, misread, faults>>

(* Unreadable, or not positive: the default.                               *)
ReadNFSDThreads(r) ==
    /\ Step(r, "readThreads", "stopThreads")
    /\ \/ /\ threads > 0 /\ prev' = [prev EXCEPT ![r] = threads]
          /\ UNCHANGED <<misread, faults>>
       \/ /\ IF threads = 0 THEN UNCHANGED faults ELSE Fault
          /\ prev' = [prev EXCEPT ![r] = DefaultThreads]
          /\ misread' = TRUE
    /\ UNCHANGED <<dataset, nfs, target, cancelled>>

(* Stopping nfsd drops its references, and may drop its exports.           *)
StopThreads(r) ==
    /\ \/ /\ Step(r, "stopThreads", "destroyAgain")
          /\ threads' = 0 /\ pinned' = {} /\ shared' \in {shared, {}}
          /\ UNCHANGED <<ignored, prev, faults>>
       \/ /\ Step(r, "stopThreads", "idle") /\ Fault
          /\ prev' = [prev EXCEPT ![r] = 0]
          /\ UNCHANGED nfs
    /\ UNCHANGED <<dataset, target, misread, cancelled>>

(* Variant: the error of the second destroy is returned at once.           *)
DestroyAgain_ReturnsError(r) ==
    /\ \/ /\ Step(r, "destroyAgain", "restoreThreads")
          /\ Runs(r) /\ ~Busy(target[r])
          /\ exists' = exists \ {target[r]}
          /\ pinned' = pinned \ {target[r]}
          /\ UNCHANGED faults
       \/ /\ Step(r, "destroyAgain", "idle")
          /\ ~Runs(r) \/ Busy(target[r]) \/ faults < MaxFaults
          /\ UNCHANGED <<exists, pinned, faults>>
    /\ UNCHANGED <<wanted, shared, threads, ignored, target, counts,
                   cancelled>>

(* The second destroy, its error kept for the answer.                      *)
DestroyAgain(r) ==
    /\ Step(r, "destroyAgain", "restoreThreads")
    /\ \/ /\ Runs(r) /\ ~Busy(target[r])
          /\ exists' = exists \ {target[r]}
          /\ pinned' = pinned \ {target[r]}
          /\ UNCHANGED faults
       \/ /\ ~Runs(r) \/ Busy(target[r])
          /\ UNCHANGED <<exists, pinned, faults>>
       \/ Runs(r) /\ Fault /\ UNCHANGED <<exists, pinned>>
    /\ UNCHANGED <<wanted, shared, threads, ignored, target, counts,
                   cancelled>>

(* Variant: only a request that destroyed its clone starts nfsd again.     *)
RestoreThreads_AfterSuccess(r) ==
    /\ Step(r, "restoreThreads", "shareAll")
    /\ threads' = IF target[r] \in exists THEN threads ELSE prev[r]
    /\ prev' = [prev EXCEPT ![r] = 0]
    /\ UNCHANGED <<dataset, shared, pinned, ignored, target, misread,
                   cancelled, faults>>

(* The error of this write is ignored.                                     *)
RestoreThreads(r) ==
    /\ Step(r, "restoreThreads", "shareAll")
    /\ \/ /\ threads' = prev[r] /\ ignored' = ignored \ {"threads"}
          /\ UNCHANGED faults
       \/ /\ Fault /\ ignored' = ignored \cup {"threads"}
          /\ UNCHANGED threads
    /\ prev' = [prev EXCEPT ![r] = 0]
    /\ UNCHANGED <<dataset, shared, pinned, target, misread, cancelled>>

(* Variant: zfs share <target>, as CreateClone does.                       *)
ShareAll_OnlyTarget(r) ==
    /\ Step(r, "shareAll", "idle")
    /\ shared' = shared \cup ({target[r]} \cap exists)
    /\ UNCHANGED <<dataset, pinned, threads, ignored, target, counts,
                   cancelled, faults>>

(* zfs share -a, with the context of the request, its error ignored.       *)
ShareAll(r) ==
    /\ Step(r, "shareAll", "idle")
    /\ \/ /\ Runs(r) /\ shared' = exists /\ ignored' = ignored \ {"shares"}
          /\ UNCHANGED faults
       \/ /\ IF Runs(r) THEN Fault ELSE UNCHANGED faults
          /\ ignored' = ignored \cup {"shares"} /\ UNCHANGED shared
    /\ UNCHANGED <<dataset, pinned, threads, target, counts, cancelled>>

Release(r) ==
    \/ DestroyDone(r) \/ DestroyFails(r) \/ DestroyBusy(r)
    \/ ReadNFSDThreads(r) \/ StopThreads(r) \/ DestroyAgain(r)
    \/ RestoreThreads(r) \/ ShareAll(r)

(* A request that will start nfsd again, or share everything again.        *)
Restarting == \E r \in Requests : pc[r] \in {"destroyAgain", "restoreThreads"}
Resharing == Restarting \/ \E r \in Requests : pc[r] = "shareAll"

(* The agent dies or is stopped, which waits for no request: what they had *)
(* still to do is not done, and nothing at its start looks at nfsd or the  *)
(* exports.                                                                *)
Crash ==
    /\ \E r \in Requests : pc[r] # "idle"
    /\ Fault
    /\ pc' = [r \in Requests |-> "idle"] /\ cancelled' = {}
    /\ prev' = [r \in Requests |-> 0]
    /\ ignored' = ignored \cup {k \in {"threads"} : Restarting}
                          \cup {k \in {"shares"} : Resharing}
    /\ UNCHANGED <<dataset, shared, pinned, threads, target, misread>>

Next == \/ Serve \/ Crash
        \/ \E r \in Requests : Unshare(r) \/ HangUp(r) \/ Release(r)

Spec == Init /\ [][Next]_vars

(* A goroutine that has begun goes on; nothing is assumed of clients.      *)
FairSpec == Spec /\ \A r \in Requests : WF_vars(Release(r))

-----------------------------------------------------------------------------
TypeOK ==
    /\ exists \subseteq Clones /\ shared \subseteq Clones
    /\ pinned \subseteq Clones /\ wanted \subseteq Clones
    /\ threads \in Nat /\ prev \in [Requests -> Nat]
    /\ pc \in [Requests -> Commands]
    /\ target \in [Requests -> Clones]
    /\ cancelled \subseteq Requests /\ misread \in BOOLEAN
    /\ ignored \subseteq {"threads", "shares"} /\ faults \in 0..MaxFaults

Idle == \A r \in Requests : pc[r] = "idle"

(* Threads are restored whatever became of the destroy: when no deletion   *)
(* is under way, nfsd runs the threads the host was configured with,       *)
(* however many, unless the restoring write itself failed, whose error is  *)
(* ignored, or the agent died before it, or some request has misread the   *)
(* count, for which one release overlapping another is enough: it reads the*)
(* 0 the other one has written. Then nfsd may run DefaultThreads, and will *)
(* for good, since later requests read that; never any other number.       *)
ThreadsRestored ==
    Idle /\ "threads" \notin ignored =>
        threads = Configured \/ (misread /\ threads = DefaultThreads)

(* So are the exports: when no deletion is under way, every clone nobody   *)
(* asked to delete is exported, whichever requests interleaved, unless     *)
(* zfs share -a itself failed or, its client or the agent gone, was not run*)
SharesRestored ==
    Idle /\ "shares" \notin ignored => exists \ wanted \subseteq shared

(* A stopped nfsd always has a request that will start it again, and every *)
(* clone without its export has one that will share it again: the outage   *)
(* of the other branches is nobody else's to end, in any interleaving.     *)
OutageIsOwned ==
    /\ threads = 0 => Restarting \/ "threads" \in ignored
    /\ ~(exists \ wanted \subseteq shared) => Resharing \/ "shares" \in ignored

(* The NFS server comes back: an outage caused by a deletion ends.         *)
OutageEnds == threads = 0 ~> threads > 0 \/ "threads" \in ignored
=============================================================================
