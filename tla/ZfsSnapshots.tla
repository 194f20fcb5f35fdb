---------------------------- MODULE ZfsSnapshots ----------------------------
(***************************************************************************)
(* AgentProvider on the snapshots of one dataset: TakeSnapshot with and    *)
(* without overwrite, DeleteSnapshot, GCSnapshots and ResetDataset, beside *)
(* the clones they depend on. Every request runs in a goroutine of its own *)
(* and is a sequence of zfs commands; a command is atomic, the sequence is *)
(* not, and no lock is taken.                                              *)
(***************************************************************************)
EXTENDS Naturals, FiniteSets

CONSTANTS
    Requests,   \* the goroutines
    Ops,        \* the operations they are asked for
    Prefixes,   \* names of snapshots without an archive suffix
    AutoName,   \* "auto", what the clock makes a name of for a nameless one
    Clones,     \* names of clones
    Keep,       \* keepCount
    PerMinute,  \* ticks of the clock the list of snapshots tells not apart
    MaxId,      \* bound: snapshots ever taken
    MaxNow,     \* bound: ticks of the clock
    MaxFaults   \* bound: commands that fail for no reason of their own

AllOps == {"take", "nameless", "overwrite", "delete", "gc", "reset",
           "clone", "unclone"}

ASSUME SnapshotAssumption ==
    /\ Ops \subseteq AllOps /\ AutoName \notin Prefixes
    /\ Keep \in Nat \ {0} /\ PerMinute \in Nat \ {0}
    /\ IsFiniteSet(Prefixes) /\ Cardinality(Prefixes) <= MaxId
    /\ MaxId \in Nat /\ MaxNow \in Nat \ {0} /\ MaxFaults \in Nat

VARIABLES
    snaps,    \* the snapshots
    origin,   \* origin[c]: the id of the snapshot clone c was made of, or 0
    now,      \* the clock
    lastId,   \* the id of the last snapshot taken
    op,       \* op[r]: the operation of request r, "none" when it is idle
    pc,       \* pc[r]: its next command
    name,     \* name[r]: the name it is about
    listed,   \* listed[r]: the snapshots it has listed
    todo,     \* todo[r]: the names it goes through
    since,    \* since[r]: history, of the snapshots r is to remove or replace,
              \* those there when it began
    dropped,  \* history: names deleted on demand or lost to a failed command
    faults    \* how many faults have happened (bounded by MaxFaults)

zfs == <<snaps, origin, lastId>>
request == <<op, pc, since>>
loop == <<listed, todo>>
vars == <<snaps, origin, now, lastId, op, pc, name, listed, todo, since,
          dropped, faults>>

(* A snapshot: stamp 0 is the plain name, any other one an archive suffix. *)
NameOf(s) == <<s.prefix, s.stamp>>
Named(n) == {s \in snaps : NameOf(s) = n}
HasClones(s) == \E c \in Clones : origin[c] = s.id
Archives(p, S) == {s \in S : s.prefix = p /\ s.stamp # 0}
CreatedAt(s) == s.taken \div PerMinute

Init ==
    /\ lastId = Cardinality(Prefixes)
    /\ \E id \in [Prefixes -> 1..lastId] :
         /\ \A p, q \in Prefixes : id[p] = id[q] => p = q
         /\ snaps = {[id |-> id[p], prefix |-> p, stamp |-> 0, taken |-> 1] :
                        p \in Prefixes}
    /\ origin \in [Clones -> 0..lastId]
    /\ now = 1
    /\ op = [r \in Requests |-> "none"] /\ pc = [r \in Requests |-> "idle"]
    /\ name \in [Requests -> Prefixes]
    /\ listed = [r \in Requests |-> {}] /\ todo = [r \in Requests |-> {}]
    /\ since = [r \in Requests |-> {}]
    /\ dropped = {} /\ faults = 0

Fault == faults < MaxFaults /\ faults' = faults + 1

Goto(r, to) == pc' = [pc EXCEPT ![r] = to] /\ UNCHANGED <<op, since>>

(* The answer, 200 or an error; nothing is kept of a request.              *)
Reply(r) == /\ pc' = [pc EXCEPT ![r] = "idle"]
            /\ op' = [op EXCEPT ![r] = "none"]
            /\ since' = [since EXCEPT ![r] = {}]

At(r, o, at) == op[r] \in o /\ pc[r] = at

Tick == /\ now < MaxNow /\ now' = now + 1
        /\ UNCHANGED <<zfs, request, name, loop, dropped, faults>>

Begin(r) ==
    /\ pc[r] = "idle"
    /\ \E o \in Ops, p \in Prefixes :
         /\ op' = [op EXCEPT ![r] = o]
         /\ name' = [name EXCEPT ![r] = p]
         /\ pc' = [pc EXCEPT ![r] = CASE o \in {"gc", "reset"} -> "list"
                                      [] o = "overwrite" -> "destroy"
                                      [] OTHER -> "run"]
         /\ since' = [since EXCEPT ![r] =
                         CASE o = "reset" -> snaps
                           [] o = "overwrite" -> Named(<<p, 0>>)
                           [] OTHER -> {}]
    /\ UNCHANGED <<zfs, now, loop, dropped, faults>>

-----------------------------------------------------------------------------
(* TakeSnapshot.                                                           *)

Plain(r) == Named(<<name[r], 0>>)

(* zfs destroy: done, "does not exist", "has dependent clones", or failed. *)
DestroyOld(r) ==
    /\ At(r, {"overwrite"}, "destroy")
    /\ \/ /\ \E s \in Plain(r) : HasClones(s)
          /\ Goto(r, "rename") /\ UNCHANGED <<snaps, faults>>
       \/ /\ \A s \in Plain(r) : ~HasClones(s)
          /\ snaps' = snaps \ Plain(r)
          /\ Goto(r, "run") /\ UNCHANGED faults
       \/ Fault /\ Reply(r) /\ UNCHANGED snaps
    /\ UNCHANGED <<origin, lastId, name, now, loop, dropped>>

(* Variant: the archived snapshot is the result.                           *)
Archive_AsResult(r) ==
    /\ At(r, {"overwrite"}, "rename")
    /\ snaps' = (snaps \ Plain(r)) \cup
                    {[s EXCEPT !.stamp = now] : s \in Plain(r)}
    /\ Reply(r)
    /\ UNCHANGED <<origin, lastId, name, now, loop, dropped, faults>>

(* Variant: the archive name has no seconds.                               *)
Minute == (now \div PerMinute) * PerMinute + 1

Archive_ToTheMinute(r) ==
    /\ At(r, {"overwrite"}, "rename")
    /\ IF Plain(r) # {} /\ Named(<<name[r], Minute>>) = {}
       THEN /\ snaps' = (snaps \ Plain(r)) \cup
                            {[s EXCEPT !.stamp = Minute] : s \in Plain(r)}
            /\ Goto(r, "run")
       ELSE Reply(r) /\ UNCHANGED snaps
    /\ UNCHANGED <<origin, lastId, name, now, loop, dropped, faults>>

(* zfs rename to the name with the current second, refused when it is taken*)
(* (the name is formed as the command is given); clones follow.            *)
Archive(r) ==
    /\ At(r, {"overwrite"}, "rename")
    /\ \/ /\ Plain(r) # {} /\ Named(<<name[r], now>>) = {}
          /\ snaps' = (snaps \ Plain(r)) \cup
                          {[s EXCEPT !.stamp = now] : s \in Plain(r)}
          /\ Goto(r, "run") /\ UNCHANGED faults
       \/ /\ Plain(r) = {} \/ Named(<<name[r], now>>) # {}
          /\ Reply(r) /\ UNCHANGED <<snaps, faults>>
       \/ Fault /\ Reply(r) /\ UNCHANGED snaps
    /\ UNCHANGED <<origin, lastId, name, now, loop, dropped>>

(* zfs snapshot: refused when the name is taken.                           *)
Snapshot(r) ==
    /\ At(r, {"take", "overwrite"}, "run")
    /\ \/ /\ Plain(r) = {} /\ lastId < MaxId
          /\ lastId' = lastId + 1
          /\ snaps' = snaps \cup {[id |-> lastId', prefix |-> name[r],
                                   stamp |-> 0, taken |-> now]}
          /\ Reply(r) /\ UNCHANGED <<dropped, faults>>
       \/ /\ Plain(r) # {} /\ Reply(r)
          /\ UNCHANGED <<snaps, lastId, dropped, faults>>
       \/ /\ Fault /\ Reply(r) /\ dropped' = dropped \cup {name[r]}
          /\ UNCHANGED <<snaps, lastId>>
    /\ UNCHANGED <<origin, name, now, loop>>

(* A snapshot without a name is called auto- and the current second, as the*)
(* archives of a name are called (the clock of the API server, which forms *)
(* the name, and that of the agent are taken as one).                      *)
SnapshotNameless(r) ==
    /\ At(r, {"nameless"}, "run")
    /\ \/ /\ Named(<<AutoName, now>>) = {} /\ lastId < MaxId
          /\ lastId' = lastId + 1
          /\ snaps' = snaps \cup {[id |-> lastId', prefix |-> AutoName,
                                   stamp |-> now, taken |-> now]}
          /\ UNCHANGED faults
       \/ Named(<<AutoName, now>>) # {} /\ UNCHANGED <<snaps, lastId, faults>>
       \/ Fault /\ UNCHANGED <<snaps, lastId>>
    /\ Reply(r)
    /\ UNCHANGED <<origin, name, now, loop, dropped>>

-----------------------------------------------------------------------------
(* DeleteSnapshot, and the clones as far as snapshots depend on them.      *)

Dropping(n) == dropped \cup {p \in Prefixes : n = <<p, 0>>}

DeleteSnapshot(r) ==
    /\ At(r, {"delete"}, "run")
    /\ \E n \in {NameOf(s) : s \in snaps} \cup {<<name[r], 0>>} :
         IF Named(n) = {} \/ \E s \in Named(n) : HasClones(s)
         THEN Reply(r) /\ UNCHANGED <<snaps, dropped>>
         ELSE /\ snaps' = snaps \ Named(n) /\ Reply(r)
              /\ dropped' = Dropping(n)
    /\ UNCHANGED <<origin, lastId, name, now, loop, faults>>

(* A clone that exists is taken as the one asked for. Any snapshot will do,*)
(* archives and nameless ones too.                                         *)
CreateClone(r) ==
    /\ At(r, {"clone"}, "run")
    /\ \E c \in Clones :
         \/ origin[c] # 0 /\ Reply(r) /\ UNCHANGED origin
         \/ /\ origin[c] = 0
            /\ \E s \in snaps : origin' = [origin EXCEPT ![c] = s.id]
            /\ Reply(r)
         \/ /\ origin[c] = 0 /\ Plain(r) = {}
            /\ Reply(r) /\ UNCHANGED origin
    /\ UNCHANGED <<snaps, lastId, name, now, loop, dropped, faults>>

DeleteClone(r) ==
    /\ At(r, {"unclone"}, "run")
    /\ \E c \in Clones : origin' = [origin EXCEPT ![c] = 0]
    /\ Reply(r)
    /\ UNCHANGED <<snaps, lastId, name, now, loop, dropped, faults>>

-----------------------------------------------------------------------------
(* GCSnapshots.                                                            *)

(* Variant: keeps one less than it is told.                                *)
Surplus_OneMore(p, S) ==
    {D \in SUBSET Archives(p, S) :
        /\ Cardinality(Archives(p, S) \ D) < Keep
        /\ \A s \in D, t \in Archives(p, S) \ D : CreatedAt(s) <= CreatedAt(t)}

(* What may lie beyond the first Keep archives after sorting by CreatedAt, *)
(* newest first; the list tells minutes apart, and ties come as they come. *)
Surplus(p, S) ==
    {D \in SUBSET Archives(p, S) :
        /\ IF Cardinality(Archives(p, S)) <= Keep THEN D = {}
           ELSE Cardinality(Archives(p, S) \ D) = Keep
        /\ \A s \in D, t \in Archives(p, S) \ D : CreatedAt(s) <= CreatedAt(t)}

ListArchives(r) ==
    /\ At(r, {"gc"}, "list")
    /\ listed' = [listed EXCEPT ![r] = snaps]
    /\ \E D \in [Prefixes \cup {AutoName} -> SUBSET snaps] :
         /\ \A p \in DOMAIN D : D[p] \in Surplus(p, snaps)
         /\ todo' = [todo EXCEPT ![r] =
                        {NameOf(s) : s \in UNION {D[p] : p \in DOMAIN D}}]
    /\ Goto(r, "collect")
    /\ UNCHANGED <<zfs, name, now, dropped, faults>>

(* With dependent clones, or when the deletion fails: skipped.             *)
CollectArchive(r) ==
    /\ At(r, {"gc"}, "collect")
    /\ \E n \in todo[r] :
         /\ todo' = [todo EXCEPT ![r] = todo[r] \ {n}]
         /\ \/ /\ snaps' = {s \in snaps : NameOf(s) # n \/ HasClones(s)}
               /\ UNCHANGED faults
            \/ Fault /\ UNCHANGED snaps
    /\ UNCHANGED <<origin, lastId, name, now, request, listed, dropped>>

CollectDone(r) ==
    /\ At(r, {"gc"}, "collect") /\ todo[r] = {}
    /\ Reply(r)
    /\ listed' = [listed EXCEPT ![r] = {}]
    /\ UNCHANGED <<zfs, name, now, todo, dropped, faults>>

-----------------------------------------------------------------------------
(* ResetDataset: the first error ends it.                                  *)

(* No clones, when the zfs list fails.                                     *)
ListClones(r) ==
    /\ At(r, {"reset"}, "list")
    /\ \/ /\ todo' = [todo EXCEPT ![r] = {c \in Clones : origin[c] # 0}]
          /\ UNCHANGED faults
       \/ todo' = [todo EXCEPT ![r] = {}] /\ Fault
    /\ Goto(r, "dropClones")
    /\ UNCHANGED <<zfs, name, now, listed, dropped>>

DropClone(r) ==
    /\ At(r, {"reset"}, "dropClones")
    /\ \E c \in todo[r] :
         IF origin[c] = 0
         THEN /\ Reply(r) /\ UNCHANGED origin
              /\ todo' = [todo EXCEPT ![r] = {}]
         ELSE /\ origin' = [origin EXCEPT ![c] = 0]
              /\ todo' = [todo EXCEPT ![r] = todo[r] \ {c}]
              /\ UNCHANGED request
    /\ UNCHANGED <<snaps, lastId, name, now, listed, dropped, faults>>

ListSnapshots(r) ==
    /\ At(r, {"reset"}, "dropClones") /\ todo[r] = {}
    /\ todo' = [todo EXCEPT ![r] = {NameOf(s) : s \in snaps}]
    /\ Goto(r, "dropSnapshots")
    /\ UNCHANGED <<zfs, name, now, listed, dropped, faults>>

(* Variant: a snapshot that cannot be deleted is skipped, as GC does.      *)
DropSnapshot_Skip(r) ==
    /\ At(r, {"reset"}, "dropSnapshots")
    /\ \E n \in todo[r] :
         /\ snaps' = {s \in snaps : NameOf(s) # n \/ HasClones(s)}
         /\ todo' = [todo EXCEPT ![r] = todo[r] \ {n}]
         /\ dropped' = Dropping(n)
    /\ UNCHANGED <<origin, lastId, name, now, request, listed, faults>>

DropSnapshot(r) ==
    /\ At(r, {"reset"}, "dropSnapshots")
    /\ \E n \in todo[r] :
         IF Named(n) = {} \/ \E s \in Named(n) : HasClones(s)
         THEN /\ Reply(r) /\ UNCHANGED <<snaps, dropped>>
              /\ todo' = [todo EXCEPT ![r] = {}]
         ELSE /\ snaps' = snaps \ Named(n)
              /\ dropped' = Dropping(n)
              /\ todo' = [todo EXCEPT ![r] = todo[r] \ {n}]
              /\ UNCHANGED request
    /\ UNCHANGED <<origin, lastId, name, now, listed, faults>>

ResetDone(r) ==
    /\ At(r, {"reset"}, "dropSnapshots") /\ todo[r] = {}
    /\ Reply(r)
    /\ UNCHANGED <<zfs, name, now, loop, dropped, faults>>

-----------------------------------------------------------------------------
Serve(r) ==
    \/ DestroyOld(r) \/ Archive(r) \/ Snapshot(r) \/ SnapshotNameless(r)
    \/ DeleteSnapshot(r)
    \/ CreateClone(r) \/ DeleteClone(r)
    \/ ListArchives(r) \/ CollectArchive(r) \/ CollectDone(r)
    \/ ListClones(r) \/ DropClone(r)
    \/ ListSnapshots(r) \/ DropSnapshot(r) \/ ResetDone(r)

Next == Tick \/ \E r \in Requests : Begin(r) \/ Serve(r)

Spec == Init /\ [][Next]_vars

-----------------------------------------------------------------------------
(* Types, and what zfs guarantees of names.                                *)
Names == (Prefixes \cup {AutoName}) \X (0..MaxNow)

SnapshotsOf(ids) == [id : ids, prefix : Prefixes \cup {AutoName},
                     stamp : 0..MaxNow, taken : 1..MaxNow]

TypeOK ==
    /\ snaps \subseteq SnapshotsOf(1..lastId)
    /\ \A s, t \in snaps : NameOf(s) = NameOf(t) => s = t
    /\ origin \in [Clones -> 0..MaxId]
    /\ now \in 1..MaxNow /\ lastId \in 0..MaxId
    /\ op \in [Requests -> AllOps \cup {"none"}]
    /\ pc \in [Requests -> {"idle", "run", "destroy", "rename", "list",
                            "collect", "dropClones", "dropSnapshots"}]
    /\ name \in [Requests -> Prefixes]
    /\ listed \in [Requests -> SUBSET SnapshotsOf(1..lastId)]
    /\ todo \in [Requests -> SUBSET (Names \cup Clones)]
    /\ since \in [Requests -> SUBSET SnapshotsOf(1..lastId)]
    /\ dropped \subseteq Prefixes /\ faults \in 0..MaxFaults

(* An overwrite replaces: with no request under way, a name still has its  *)
(* snapshot, whichever overwrites, deletions of clones and collections     *)
(* interleaved, unless somebody deleted it or the zfs snapshot itself      *)
(* failed (the old one is destroyed or renamed before the new is taken).   *)
NameSurvivesOverwrite ==
    (\A r \in Requests : pc[r] = "idle") =>
        \A p \in Prefixes : p \in dropped \/ Named(<<p, 0>>) # {}

AsRecent(s, S) ==
    {t \in Archives(s.prefix, S) : t # s /\ CreatedAt(t) >= CreatedAt(s)}

CollectedBy(r) == {s \in snaps \ snaps' : NameOf(s) \in todo[r] \ todo'[r]}

(* A collection only deletes an archive it has listed when, in its list,   *)
(* Keep others of the name are as recent to the minute, although overwrites*)
(* and other collections go on (a name given again within its second to    *)
(* another snapshot is not one it has listed).                             *)
CollectsTheOldest ==
    [][\A r \in Requests : \A s \in CollectedBy(r) \cap listed[r] :
          op[r] = "gc" => Cardinality(AsRecent(s, listed[r])) >= Keep]_vars

(* A reset that succeeds has removed every snapshot there was when it      *)
(* began, and so every clone of them, although snapshots and clones are    *)
(* made and deleted meanwhile, but for those an overwrite has renamed.     *)
ResetRemoves ==
    [][\A r \in Requests : ResetDone(r) => since[r] \cap snaps' = {}]_vars

(* Once an overwrite is answered, and none of its commands failed, its name*)
(* stands for no snapshot that was there when it began, although it may be *)
(* refused: the snapshot another one took in between is as new, and when   *)
(* the name for the archive is taken, the one it was taken by has replaced *)
(* the snapshot within this second.                                        *)
OverwriteRenews ==
    [][\A r \in Requests :
          op[r] = "overwrite" /\ op'[r] = "none" /\ UNCHANGED faults =>
              \A s \in snaps' : NameOf(s) = <<name[r], 0>> =>
                  s \notin since[r] \/ s.taken = now]_vars
=============================================================================
