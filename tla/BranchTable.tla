----------------------------- MODULE BranchTable -----------------------------
(***************************************************************************)
(* The table of branches of the web console (App and BranchesTab of        *)
(* App.tsx), seen by one name: the list is loaded by a timer, on request   *)
(* and after each creation and deletion, the loads overlap and each is     *)
(* applied when its answer has come, and the form that creates a branch    *)
(* may be left while its request is under way.                             *)
(***************************************************************************)
EXTENDS Integers, FiniteSets

CONSTANTS
    MaxVersion,  \* bound: changes of the branch on the server
    MaxPolls,    \* bound: loads of the timer and the user under way
    MaxCalls,    \* bound: creations and deletions under way
    MaxForms,    \* bound: forms opened
    MaxVisits,   \* bound: visits of the tab
    MaxFaults    \* bound: requests that fail

ASSUME TableAssumption ==
    /\ {MaxVersion, MaxPolls, MaxCalls, MaxForms, MaxVisits, MaxFaults} \subseteq Nat
    /\ MaxVersion % 4 = 3   \* so that the last version refuses or ignores all
    /\ MaxPolls > 0

VARIABLES
    server,   \* the branch on the server, as a number of changes
    shown,    \* the version of the branch in the list that App holds
    err,      \* the error banner of App
    polls,    \* the loads of the timer, the user and the first effect
    calls,    \* calls[i]: a creation or a deletion and the load after it
    visit,    \* which visit of the tab "Branches" this is
    tab,      \* that tab is shown
    form,     \* the form: which one it is, and "closed", "open" or "busy"
    metrics,  \* metrics[name]: "undefined", "asked" (null) or "known"
    asks,     \* history: how often the metrics were asked for in this visit
    faults    \* how many requests have failed (bounded by MaxFaults)

app      == <<shown, err>>
requests == <<polls, calls>>
page     == <<visit, tab, form>>
measured == <<metrics, asks>>
vars     == <<server, app, requests, page, measured, faults>>

-----------------------------------------------------------------------------
(* The life of the name on the server: absent, starting, Ready, Deleting,  *)
(* absent again and so on; a version names one of its states for good.     *)
Absent(v)   == v % 4 = 0
Starting(v) == v % 4 = 1
Ready(v)    == v % 4 = 2
Deleting(v) == v % 4 = 3

Deleted(v) == IF Starting(v) THEN v + 2 ELSE v + 1

NoAnswer == -1
Failed   == -2

(* A load: what the table showed when it was sent, and its answer.         *)
Load(base) == [base |-> base, answer |-> NoAnswer]

NoCall == [kind |-> "none", stage |-> "idle", visit |-> 0, form |-> 0, load |-> Load(0)]

Closed(f) == [f EXCEPT !.state = "closed"]

Fault == faults < MaxFaults /\ faults' = faults + 1

(* The first effects: the list is loaded and the timer set.                *)
Init ==
    /\ server \in {0, 2}
    /\ shown = 0
    /\ err = FALSE
    /\ polls = {Load(0)}
    /\ calls = [i \in 1..MaxCalls |-> NoCall]
    /\ visit = 1 /\ tab = TRUE
    /\ form = [no |-> 0, state |-> "closed"]
    /\ metrics = "undefined" /\ asks = 0
    /\ faults = 0

-----------------------------------------------------------------------------
(* The effect on [branches, metrics]: the metrics of a Ready branch are    *)
(* asked for when there is no entry, and null takes its place at once.     *)

More(n) == IF n < 2 THEN n + 1 ELSE n

(* Variant: without setMetrics(... null) before the request.               *)
Asking_NoPlaceholder(list, entry, n) ==
    /\ metrics' = entry
    /\ asks' = IF Ready(list) /\ entry = "undefined" THEN More(n) ELSE n

Asking(list, entry, n) ==
    IF Ready(list) /\ entry = "undefined"
    THEN metrics' = "asked" /\ asks' = More(n)
    ELSE metrics' = entry /\ asks' = n

(* Its answer, or { available: false } when it fails; never asked again,   *)
(* not even for another branch of that name.                               *)
Measured ==
    /\ tab /\ asks > 0 /\ metrics # "known"
    /\ metrics' = "known"
    /\ UNCHANGED <<server, app, requests, page, asks, faults>>

-----------------------------------------------------------------------------
(* loadBranches: the list and the statistics are asked for together and    *)
(* applied together, or the error of either; the statistics are left out.  *)

Answer(v) ==
    /\ v \in {server, Failed}
    /\ IF v = Failed THEN Fault ELSE UNCHANGED faults

Apply(load) ==
    /\ load.answer # NoAnswer
    /\ err' = (load.answer = Failed)
    /\ IF load.answer = Failed
       THEN UNCHANGED <<shown, measured>>
       ELSE /\ shown' = load.answer
            /\ IF tab THEN Asking(shown', metrics, asks) ELSE UNCHANGED measured

(* Variant: the timer belongs to BranchesTab and goes with it.               *)
Tick_InTab ==
    /\ tab
    /\ Cardinality(polls) < MaxPolls
    /\ polls' = polls \cup {Load(shown)}
    /\ UNCHANGED <<server, app, calls, page, measured, faults>>

(* The timer (every 5 s or 10 s, whichever tab is shown), or "Refresh";    *)
(* neither waits for the load before it.                                   *)
Tick ==
    /\ Cardinality(polls) < MaxPolls
    /\ polls' = polls \cup {Load(shown)}
    /\ UNCHANGED <<server, app, calls, page, measured, faults>>

AnswerPoll(load) ==
    /\ load \in polls /\ load.answer = NoAnswer
    /\ \E v \in Failed..MaxVersion :
         /\ Answer(v)
         /\ polls' = (polls \ {load}) \cup {[load EXCEPT !.answer = v]}
    /\ UNCHANGED <<server, app, calls, page, measured>>

Polled(load) ==
    /\ load \in polls /\ Apply(load)
    /\ polls' = polls \ {load}
    /\ UNCHANGED <<server, calls, page, faults>>

-----------------------------------------------------------------------------
(* The form and the button of the row.                                     *)

NewBranch ==
    /\ tab /\ form.state = "closed" /\ form.no < MaxForms
    /\ form' = [no |-> form.no + 1, state |-> "open"]
    /\ UNCHANGED <<server, app, requests, visit, tab, measured, faults>>

(* "Cancel" is off while the form is busy; a click beside it never is.     *)
Dismiss ==
    /\ form.state # "closed"
    /\ form' = Closed(form)
    /\ UNCHANGED <<server, app, requests, visit, tab, measured, faults>>

Sent(kind) ==
    \E i \in 1..MaxCalls :
        /\ calls[i] = NoCall /\ \A j \in 1..(i - 1) : calls[j] # NoCall
        /\ calls' = [calls EXCEPT ![i] = [NoCall EXCEPT
                         !.kind = kind, !.stage = "sent", !.visit = visit, !.form = form.no]]

Submit ==
    /\ form.state = "open" /\ Sent("create")
    /\ form' = [form EXCEPT !.state = "busy"]
    /\ UNCHANGED <<server, app, polls, visit, tab, measured, faults>>

Delete ==
    /\ tab /\ ~Absent(shown) /\ Sent("delete")
    /\ UNCHANGED <<server, app, polls, page, measured, faults>>

(* handleCreate and handleDelete: a name that exists is not created again, *)
(* nor is a branch of a snapshot that is not found (see SnapshotForms); a  *)
(* name that does not exist is not found; a lost answer looks like a       *)
(* failure.                                                                *)
AnswerCall(i) ==
    LET call == calls[i]
        Refused == IF call.kind = "create" THEN ~Absent(server) ELSE Absent(server)
        after == IF call.kind = "create" THEN server + 1
                 ELSE IF Deleting(server) THEN server ELSE Deleted(server)
        Stage(to) == calls' = [calls EXCEPT ![i].stage = to, ![i].load.base = server']
    IN  /\ call.stage = "sent"
        /\ \/ /\ Refused \/ call.kind = "create"
              /\ UNCHANGED <<server, faults>> /\ Stage("failed")
           \/ ~Refused /\ server' = after /\ Stage("done") /\ UNCHANGED faults
           \/ server' \in {server} \cup (IF Refused THEN {} ELSE {after})
              /\ Stage("failed") /\ Fault
        /\ UNCHANGED <<app, polls, page, measured>>

Here(call) == tab /\ call.visit = visit

(* Variant: onCreate does not wait for loadBranches.                         *)
Proceed_NoAwait(i) ==
    /\ calls[i].stage = "done"
    /\ calls' = [calls EXCEPT ![i] = NoCall]
    /\ form' = IF calls[i].kind = "create" /\ Here(calls[i]) THEN Closed(form) ELSE form
    /\ UNCHANGED <<server, app, polls, visit, tab, measured, faults>>

(* App.handleCreate and handleDelete go on with a load of their own.       *)
Proceed(i) ==
    /\ calls[i].stage = "done"
    /\ calls' = [calls EXCEPT ![i].stage = "loading"]
    /\ UNCHANGED <<server, app, polls, page, measured, faults>>

(* Variant: the catch of handleSubmit without setLoading(false).             *)
Refuse_StaysBusy(i) ==
    /\ calls[i].stage = "failed"
    /\ calls' = [calls EXCEPT ![i] = NoCall]
    /\ UNCHANGED <<server, app, polls, page, measured, faults>>

(* The form shows why and may be sent again, if it is still there; nothing *)
(* is shown of a deletion that failed, nor of a form that was left.        *)
Refuse(i) ==
    /\ calls[i].stage = "failed"
    /\ calls' = [calls EXCEPT ![i] = NoCall]
    /\ form' = IF /\ calls[i].kind = "create" /\ Here(calls[i])
                  /\ form.no = calls[i].form /\ form.state = "busy"
               THEN [form EXCEPT !.state = "open"] ELSE form
    /\ UNCHANGED <<server, app, polls, visit, tab, measured, faults>>

AnswerReload(i) ==
    /\ calls[i].stage = "loading" /\ calls[i].load.answer = NoAnswer
    /\ \E v \in Failed..MaxVersion :
         Answer(v) /\ calls' = [calls EXCEPT ![i].load.answer = v]
    /\ UNCHANGED <<server, app, polls, page, measured>>

(* The load hides its own failure from onCreate, so the form goes; with it *)
(* goes a form that was opened after that one had been left.               *)
Reloaded(i) ==
    /\ Apply(calls[i].load)
    /\ calls' = [calls EXCEPT ![i] = NoCall]
    /\ form' = IF calls[i].kind = "create" /\ Here(calls[i]) THEN Closed(form) ELSE form
    /\ UNCHANGED <<server, polls, visit, tab, faults>>

-----------------------------------------------------------------------------
(* The tabs: BranchesTab keeps the form and the metrics, App the lists.    *)

Leave ==
    /\ tab /\ visit < MaxVisits
    /\ tab' = FALSE
    /\ form' = Closed(form)
    /\ metrics' = "undefined" /\ asks' = 0
    /\ UNCHANGED <<server, app, requests, visit, faults>>

Return ==
    /\ ~tab
    /\ tab' = TRUE /\ visit' = visit + 1
    /\ Asking(shown, "undefined", 0)
    /\ UNCHANGED <<server, app, requests, form, faults>>

(* The operator and other clients.                                         *)
Elsewhere ==
    /\ server' \in {server + 1, Deleted(server)} /\ server' <= MaxVersion
    /\ Starting(server) \/ server' = server + 1
    /\ UNCHANGED <<app, requests, page, measured, faults>>

CallStep(i) == AnswerCall(i) \/ Proceed(i) \/ Refuse(i) \/ AnswerReload(i) \/ Reloaded(i)

Next ==
    \/ Tick \/ NewBranch \/ Dismiss \/ Submit \/ Delete
    \/ Measured \/ Leave \/ Return \/ Elsewhere
    \/ \E load \in polls : AnswerPoll(load) \/ Polled(load)
    \/ \E i \in 1..MaxCalls : CallStep(i)

(* The timer fires, and the browser answers or fails every request of a    *)
(* form and, however many polls there are, always some of them.            *)
Fairness ==
    /\ WF_vars(Tick)
    /\ WF_vars(\E load \in polls : AnswerPoll(load))
    /\ WF_vars(\E load \in polls : Polled(load))
    /\ \A i \in 1..MaxCalls : WF_vars(CallStep(i))

Spec == Init /\ [][Next]_vars /\ Fairness

-----------------------------------------------------------------------------
(* In the state after a step: an error is shown, or nothing older.         *)
Newer(base) == err' \/ shown' >= base

(* What a load shows is at least as new as what the table showed when the  *)
(* load was sent and, after a creation or a deletion, as what that request *)
(* had done: the form that goes leaves its branch in the table, or an      *)
(* error banner. (A load that was sent earlier may still undo it.)         *)
ReloadsAreNewer ==
    [][ /\ \A load \in polls \ polls' :
             load.answer # NoAnswer => Newer(load.base)
        /\ \A i \in 1..MaxCalls :
             calls[i].stage \in {"done", "loading"} /\ calls'[i] = NoCall
             => Newer(calls[i].load.base) ]_vars

(* Loads overlap and an older one may be applied last, but once the branch *)
(* changes no more the table shows it for good and no error is left: the   *)
(* timer goes on whether anything is in progress or not.                   *)
EventuallyFresh == <>[](shown = server /\ ~err)

(* The effect that asks for the metrics depends on the state it sets; it   *)
(* asks once in a visit, however many lists come before the answer.        *)
AskedOnce == asks <= 1 /\ (metrics # "undefined" => asks = 1)

(* A form that says "Creating..." waits for a request of its own, also     *)
(* after forms that were left while theirs was under way: none stays busy. *)
BusyHasCall ==
    form.state = "busy" =>
        \E i \in 1..MaxCalls :
            /\ calls[i].kind = "create" /\ calls[i].form = form.no
            /\ Here(calls[i])
=============================================================================
