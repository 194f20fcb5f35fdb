---------------------------- MODULE EditSessions ----------------------------
(***************************************************************************)
(* The edit sessions of the web console (SnapshotsTab of App.tsx): "Open"  *)
(* on a row creates a branch edit-<snapshot>-<time> and polls it until it  *)
(* is Ready, "Close" deletes it, and a list of the branches restores the   *)
(* sessions of an earlier visit. Every request is answered when the server *)
(* pleases and its answer handled later still, whatever the user has done  *)
(* meanwhile; leaving the tab unmounts the component and loses its state,  *)
(* but not the callbacks of the requests that are under way.               *)
(***************************************************************************)
EXTENDS Naturals, FiniteSets

CONSTANTS
    None,       \* no branch, no phase, no answer
    Snapshots,  \* names of snapshots
    MaxOpens,   \* bound: edit branches of one snapshot
    MaxRequests, \* bound: polls, list and creations under way at a time
    MaxVisits,  \* bound: how many times the tab is opened
    MaxFaults   \* bound: requests that fail and creations that end in Error

(* The name is edit-<snap>-<no>, no being the time of creation.            *)
Branches == [snap : Snapshots, no : 1..MaxOpens]

ASSUME EditAssumption ==
    /\ {MaxOpens, MaxRequests, MaxVisits, MaxFaults} \subseteq Nat
    /\ IsFiniteSet(Snapshots)
    /\ None \notin Branches /\ None \notin {"starting", "moving", "settled", "Deleting", "absent"}

VARIABLES
    phase,     \* phase[b]: the resource on the server
    deletes,   \* branches whose DELETE is under way
    missed,    \* history: branches that live on after a DELETE
    visit,     \* which visit of the tab this is
    mounted,   \* the tab is open
    shown,     \* a list of the snapshots has come
    list,      \* the list of the branches under way (one at a time)
    sessions,  \* sessions[s]: the edit session of the row
    creates,   \* creates[b]: the POST that creates b
    gets,      \* gets[s][i]: a poll of the row under way
    poll,      \* poll[s]: the branch the interval pollRefs[s] asks for
    trouble,   \* history: what the row has been through in this visit
    faults     \* how many faults have happened (bounded by MaxFaults)

server == <<phase, deletes, missed>>
tab    == <<visit, mounted, shown>>
rows   == <<sessions, creates, gets, poll, trouble>>
vars   == <<server, tab, list, rows, faults>>

-----------------------------------------------------------------------------
(* "settled": Ready or Error, where polling ends; "starting": before that. *)
Live == {"starting", "settled"}

(* What the console makes of the phase of a resource.                      *)
Seen(p) == CASE p = "settled" -> "settled"
             [] p \in {"starting", "Deleting"} -> "moving"
             [] OTHER -> "absent"

NoSession == [open |-> FALSE, name |-> None, phase |-> None]

(* {...prev[s], branch: b}: where there is no session, nothing is spread   *)
(* and the result has a branch and no name.                                *)
WithBranch(session, p) == [session EXCEPT !.open = TRUE, !.phase = p]

(* Variant: setSessions({..., [s.name]: { error }}) without the spread.      *)
WithError_NoSpread(session) == [NoSession EXCEPT !.open = TRUE]

(* {...prev[s], error}: the error is stored, and shown nowhere.            *)
WithError(session) == [session EXCEPT !.open = TRUE]

Idle    == [branch |-> None, answer |-> None]
NoList  == [visit |-> 0, answer |-> None]
NotSent == [visit |-> 0, stage |-> "unsent"]
Over    == [visit |-> 0, stage |-> "over"]

Fault == faults < MaxFaults /\ faults' = faults + 1

(* The callbacks of an earlier visit change no state.                      *)
Current(request) == mounted /\ request.visit = visit

Session(s, new) == sessions' = [sessions EXCEPT ![s] = new]

Disturb(s) == trouble' = [trouble EXCEPT ![s] = IF @ = "calm" THEN "upset" ELSE @]

Pending(b) == creates[b].stage \in {"sent", "done", "failed"}
UnderWay(s) == {i \in 1..MaxRequests : gets[s][i] # Idle}

(* An answer about the row is still to come.                               *)
Awaited(s) == \/ UnderWay(s) # {}
              \/ \E b \in Branches : b.snap = s /\ Pending(b) /\ Current(creates[b])

(* There is room for another request within the bound.                     *)
Room == Cardinality({b \in Branches : Pending(b)})
        + Cardinality({p \in Snapshots \X (1..MaxRequests) : p[2] \in UnderWay(p[1])})
        + (IF list = NoList THEN 0 ELSE 1) < MaxRequests

(* A snapshot may have an edit branch of an earlier visit.                 *)
Init ==
    /\ phase \in [Branches -> {None, "starting", "settled"}]
    /\ \A b \in Branches : phase[b] # None => b.no = 1
    /\ creates = [b \in Branches |-> IF phase[b] = None THEN NotSent ELSE Over]
    /\ deletes = {} /\ missed = {}
    /\ visit = 0 /\ mounted = FALSE /\ shown = FALSE
    /\ list = NoList
    /\ sessions = [s \in Snapshots |-> NoSession]
    /\ gets = [s \in Snapshots |-> [i \in 1..MaxRequests |-> Idle]]
    /\ poll = [s \in Snapshots |-> None]
    /\ trouble = [s \in Snapshots |-> "calm"]
    /\ faults = 0

-----------------------------------------------------------------------------
(* The list of snapshots, and the list of branches that follows it.        *)

Mount ==
    /\ ~mounted /\ visit < MaxVisits
    /\ mounted' = TRUE /\ visit' = visit + 1
    /\ UNCHANGED <<server, shown, list, rows, faults>>

(* load has its answer, and the effect on [snapshots, dbTypeFilter] lists  *)
(* the branches; a change of the filter runs it as well. Which snapshots   *)
(* there are is left out: the rows are all of them, and those of one name  *)
(* share a session whatever type is shown.                                 *)
Loaded ==
    /\ mounted /\ list = NoList /\ Room
    /\ shown' = TRUE
    /\ list' = [visit |-> visit, answer |-> None]
    /\ UNCHANGED <<server, visit, mounted, rows, faults>>

(* An empty list restores nothing, and neither does one that fails.        *)
AnswerList ==
    LET answer == [b \in Branches |-> Seen(phase[b])]
    IN  /\ list # NoList /\ list.answer = None
        /\ list' = IF \A b \in Branches : answer[b] = "absent" THEN NoList
                   ELSE [list EXCEPT !.answer = answer]
        /\ UNCHANGED <<server, tab, rows, faults>>

Listed(answer, s) == {b \in Branches : b.snap = s /\ answer[b] # "absent"}

(* Variant: b.status === 'Ready' for !== 'Ready' in the restoring effect.    *)
Moving_Settled(answer, s) == {b \in Listed(answer, s) : answer[b] = "settled"}

Moving(answer, s) == {b \in Listed(answer, s) : answer[b] = "moving"}

(* The list is in the order of names.                                      *)
IsFirst(b, bs) == IF bs = {} THEN b = None ELSE b \in bs /\ \A c \in bs : b.no <= c.no
IsLast(b, bs)  == IF bs = {} THEN b = None ELSE b \in bs /\ \A c \in bs : c.no <= b.no

(* A row without a session gets one for its first edit branch.             *)
Recovered(s, first) ==
    IF sessions[s].open \/ first = None THEN sessions[s]
    ELSE [open |-> TRUE, name |-> first, phase |-> list.answer[first]]

(* Branches that are not Ready or Error are polled, session or no session, *)
(* and each poll replaces the one before it.                               *)
Restored ==
    /\ list.answer # None
    /\ list' = NoList
    /\ IF Current(list)
       THEN \E first, last \in [Snapshots -> Branches \cup {None}] :
              /\ \A s \in Snapshots : /\ IsFirst(first[s], Listed(list.answer, s))
                                      /\ IsLast(last[s], Moving(list.answer, s))
              /\ sessions' = [s \in Snapshots |-> Recovered(s, first[s])]
              /\ poll' = [s \in Snapshots |->
                             IF last[s] = None THEN poll[s] ELSE last[s]]
              /\ trouble' = [s \in Snapshots |->
                   IF trouble[s] = "calm" /\ last[s] \notin {None, Recovered(s, first[s]).name}
                   THEN "upset" ELSE trouble[s]]
       ELSE UNCHANGED <<sessions, poll, trouble>>
    /\ UNCHANGED <<server, tab, creates, gets, faults>>

-----------------------------------------------------------------------------
(* The polls of a row.                                                     *)

Tick(s) ==
    /\ poll[s] # None /\ Room
    /\ \E i \in 1..MaxRequests :
         /\ i \notin UnderWay(s) /\ 1..(i - 1) \subseteq UnderWay(s)
         /\ gets' = [gets EXCEPT ![s][i].branch = poll[s]]
    /\ UNCHANGED <<server, tab, list, sessions, creates, poll, trouble, faults>>

AnswerGet(s, i) ==
    LET g == gets[s][i]
        Answer(a) == gets' = [gets EXCEPT ![s][i].answer = a]
    IN  /\ g # Idle /\ g.answer = None
        /\ \/ Answer(Seen(phase[g.branch])) /\ UNCHANGED faults
           \/ Answer("absent") /\ Fault
        /\ UNCHANGED <<server, tab, list, sessions, creates, poll, trouble>>

(* Ready, Error and a failure stop the interval of the row, whatever       *)
(* branch it is asking for by now; the polls under way are answered later. *)
Got(s, i) ==
    LET g == gets[s][i]
    IN  /\ g.answer # None
        /\ gets' = [gets EXCEPT ![s][i] = Idle]
        /\ IF g.answer = "absent" THEN UNCHANGED sessions
           ELSE Session(s, WithBranch(sessions[s], g.answer))
        /\ IF g.answer = "moving" THEN UNCHANGED poll
           ELSE poll' = [poll EXCEPT ![s] = None]
        /\ IF \/ g.answer = "absent" \/ g.branch # sessions[s].name
              \/ g.answer = "settled" /\ UnderWay(s) # {i}
           THEN Disturb(s) ELSE UNCHANGED trouble
    /\ UNCHANGED <<server, tab, list, creates, faults>>

-----------------------------------------------------------------------------
(* Opening and closing.                                                    *)

(* One session per row; the name is a new one.                             *)
Open(s) ==
    /\ mounted /\ shown /\ ~sessions[s].open /\ Room
    /\ \E b \in Branches :
         /\ b.snap = s
         /\ \A c \in Branches : c.snap = s => (creates[c] # NotSent <=> c.no < b.no)
         /\ creates' = [creates EXCEPT ![b] = [visit |-> visit, stage |-> "sent"]]
         /\ Session(s, [NoSession EXCEPT !.open = TRUE, !.name = b])
    /\ UNCHANGED <<server, tab, list, gets, poll, trouble, faults>>

(* handleCreate; a lost answer looks like a failure.                       *)
AnswerCreate(b) ==
    LET Stage(to) == creates' = [creates EXCEPT ![b].stage = to]
    IN  /\ creates[b].stage = "sent"
        /\ \/ /\ phase' = [phase EXCEPT ![b] = "starting"]
              /\ Stage("done") /\ UNCHANGED faults
           \/ /\ phase' \in {phase, [phase EXCEPT ![b] = "starting"]}
              /\ Stage("failed") /\ Fault
        /\ UNCHANGED <<deletes, missed, tab, list, sessions, gets, poll, trouble>>

(* The branch goes into whatever session the row has by now, and its poll  *)
(* replaces the one of the row. After an unmount the answer still starts   *)
(* an interval, which shows nothing and ends by its answer.                *)
Created(b) ==
    LET s == b.snap
    IN  /\ creates[b].stage = "done"
        /\ creates' = [creates EXCEPT ![b].stage = "over"]
        /\ IF Current(creates[b])
           THEN /\ Session(s, WithBranch(sessions[s], "moving"))
                /\ poll' = [poll EXCEPT ![s] = b]
                /\ IF sessions[s].name = b THEN UNCHANGED trouble ELSE Disturb(s)
           ELSE UNCHANGED <<sessions, poll, trouble>>
        /\ UNCHANGED <<server, tab, list, gets, faults>>

NotCreated(b) ==
    LET s == b.snap
    IN  /\ creates[b].stage = "failed"
        /\ creates' = [creates EXCEPT ![b].stage = "over"]
        /\ IF Current(creates[b])
           THEN Session(s, WithError(sessions[s])) /\ Disturb(s)
           ELSE UNCHANGED <<sessions, trouble>>
        /\ UNCHANGED <<server, tab, list, gets, poll, faults>>

(* Variant: nothing is deleted before the branch is known (session.branch).*)
Close_OnlyIfCreated(s) ==
    /\ sessions[s].open
    /\ Session(s, NoSession)
    /\ poll' = [poll EXCEPT ![s] = None]
    /\ deletes' = deletes \cup
          (IF sessions[s].phase = None THEN {} ELSE {sessions[s].name} \ {None})
    /\ trouble' = [trouble EXCEPT ![s] = IF Awaited(s) THEN "crossed" ELSE "calm"]
    /\ UNCHANGED <<phase, missed, tab, list, creates, gets, faults>>

(* From the row or from the panel, which does not wait for the creation:   *)
(* only the button of the row is off until there is a branch or an error.  *)
Close(s) ==
    /\ sessions[s].open
    /\ Session(s, NoSession)
    /\ poll' = [poll EXCEPT ![s] = None]
    /\ deletes' = deletes \cup ({sessions[s].name} \ {None})
    /\ trouble' = [trouble EXCEPT ![s] = IF Awaited(s) THEN "crossed" ELSE "calm"]
    /\ UNCHANGED <<phase, missed, tab, list, creates, gets, faults>>

(* handleDelete; the console ignores what it answers.                      *)
AnswerDelete(b) ==
    /\ b \in deletes
    /\ deletes' = deletes \ {b}
    /\ \/ /\ phase[b] \in Live
          /\ phase' = [phase EXCEPT ![b] = "Deleting"]
          /\ missed' = missed \ {b} /\ UNCHANGED faults
       \/ /\ phase[b] \notin Live
          /\ missed' = IF creates[b].stage = "sent" THEN missed \cup {b} ELSE missed
          /\ UNCHANGED <<phase, faults>>
       \/ /\ phase[b] \in Live /\ Fault
          /\ missed' = missed \cup {b} /\ UNCHANGED phase
    /\ UNCHANGED <<tab, list, rows>>

(* The cleanup of the effect clears the intervals; the requests go on.     *)
Unmount ==
    /\ mounted
    /\ mounted' = FALSE /\ shown' = FALSE
    /\ sessions' = [s \in Snapshots |-> NoSession]
    /\ gets' = [s \in Snapshots |-> [i \in 1..MaxRequests |-> Idle]]
    /\ poll' = [s \in Snapshots |-> None]
    /\ trouble' = [s \in Snapshots |-> "calm"]
    /\ missed' = {}
    /\ UNCHANGED <<phase, deletes, visit, list, creates, faults>>

-----------------------------------------------------------------------------
(* The operator (see BranchOperator) and other users.                      *)

Become(b, from, to) ==
    /\ phase[b] = from /\ phase' = [phase EXCEPT ![b] = to]
    /\ missed' = IF to \in Live THEN missed ELSE missed \ {b}
    /\ UNCHANGED <<deletes, tab, list, rows>>

Finish(b) == /\ Become(b, "starting", "settled") \/ Become(b, "Deleting", None)
             /\ UNCHANGED faults

(* By its expiry, a reset or another client.                               *)
DeletedElsewhere(b) ==
    /\ Fault
    /\ \E p \in Live : Become(b, p, "Deleting")

Next ==
    \/ Mount \/ Unmount \/ Loaded \/ AnswerList \/ Restored
    \/ \E s \in Snapshots :
         \/ Open(s) \/ Close(s) \/ Tick(s)
         \/ \E i \in 1..MaxRequests : AnswerGet(s, i) \/ Got(s, i)
    \/ \E b \in Branches :
         \/ AnswerCreate(b) \/ Created(b) \/ NotCreated(b) \/ AnswerDelete(b)
         \/ Finish(b) \/ DeletedElsewhere(b)

Spec == Init /\ [][Next]_vars

-----------------------------------------------------------------------------
(* A session loses the name of its branch ("Close" then deletes a branch   *)
(* called undefined and the real one stays) only when it was closed while  *)
(* an answer about its row was under way: handleOpen and pollBranch write  *)
(* into the session of the row without asking whose it is.                 *)
NamelessOnlyIfCrossed ==
    \A s \in Snapshots :
        sessions[s].open /\ sessions[s].name = None => trouble[s] = "crossed"

(* A branch opened in this visit that lives on without a session was asked *)
(* to go, and the request failed or reached the server before the creation *)
(* it followed: Close forgets no branch, also while it is being created.   *)
ForgottenOnlyIfMissed ==
    \A b \in Branches :
        /\ mounted /\ creates[b].visit = visit
        /\ phase[b] \in Live /\ b \notin deletes
        /\ \A s \in Snapshots : sessions[s].name # b
        => b \in missed

Starting(s) == sessions[s].open /\ sessions[s].phase # "settled"

(* The panel that says "Starting database..." is about a branch that is    *)
(* still being created or that the interval of the row asks for, unless    *)
(* the row was closed with an answer under way, a request failed, its      *)
(* branch went away, an answer was another branch's, or polls overlapped.  *)
SpinnerIsPolled ==
    \A s \in Snapshots :
        Starting(s) /\ trouble[s] = "calm" =>
            \/ poll[s] = sessions[s].name
            \/ Pending(sessions[s].name)
=============================================================================
