-------------------------- MODULE BranchTable_proofs --------------------------
(***************************************************************************)
(* Proofs about BranchTable for any number of loads, calls, forms, visits  *)
(* and faults: every load under way was sent with the version it will at   *)
(* least show, a busy form has its call, and metrics are asked for once.   *)
(***************************************************************************)
EXTENDS BranchTable, TLAPS

LoadRecords == [base : Nat, answer : Nat \cup {NoAnswer, Failed}]
CallRecords == [kind : {"none", "create", "delete"},
                stage : {"idle", "sent", "done", "failed", "loading"},
                visit : Nat, form : Nat, load : LoadRecords]

TableType ==
    /\ server \in Nat /\ shown \in Nat
    /\ polls \subseteq LoadRecords
    /\ calls \in [1..MaxCalls -> CallRecords]
    /\ tab \in BOOLEAN /\ visit \in Nat
    /\ form \in [no : Nat, state : {"closed", "open", "busy"}]

(* A load is not ahead of the server, nor its answer behind it: the answer *)
(* was read after the load was sent.                                       *)
InOrder(load, now) ==
    /\ load.base <= now
    /\ load.answer \in Nat => load.base <= load.answer /\ load.answer <= now

FreshInv ==
    /\ shown <= server
    /\ \A load \in polls : InOrder(load, server)
    /\ \A i \in 1..MaxCalls :
         /\ calls[i].stage \in {"done", "loading"} => InOrder(calls[i].load, server)
         /\ calls[i].stage # "loading" => calls[i].load.answer = NoAnswer

(* A form is open in its tab only.                                         *)
FormInv == form.state # "closed" => tab

MetricsInv == asks = IF metrics = "undefined" THEN 0 ELSE 1

IInv == TableType /\ FreshInv
BInv == FormInv /\ BusyHasCall

-----------------------------------------------------------------------------
LEMMA Kinds == NoAnswer \notin Nat /\ Failed \notin Nat /\ NoAnswer # Failed
BY DEF NoAnswer, Failed

(* The server only moves on.                                               *)
LEMMA ServerMovesOn ==
    ASSUME TableType, [Next]_vars
    PROVE  server' \in Nat /\ server <= server'
<1>1. Deleted(server) \in Nat /\ server <= Deleted(server)
  BY DEF Deleted, TableType
<1>2. CASE \E i \in 1..MaxCalls : AnswerCall(i)
  BY <1>1, <1>2 DEF AnswerCall, TableType
<1>3. CASE Elsewhere
  BY <1>1, <1>3 DEF Elsewhere, TableType
<1>4. CASE UNCHANGED server
  BY <1>4 DEF TableType
<1>5. UNCHANGED server \/ Elsewhere \/ \E i \in 1..MaxCalls : AnswerCall(i)
  BY DEF Next, Tick, NewBranch, Dismiss, Submit, Delete, Measured, Leave, Return, AnswerPoll,
         Polled, CallStep, Proceed, Refuse, AnswerReload, Reloaded, vars
<1>. QED BY <1>2, <1>3, <1>4, <1>5

LEMMA InOrderLater ==
    ASSUME NEW load \in LoadRecords, NEW now \in Nat, NEW later \in Nat,
           InOrder(load, now), now <= later
    PROVE  InOrder(load, later)
BY DEF InOrder, LoadRecords

LEMMA InitIInv == Init => IInv
BY TableAssumption DEF Init, IInv, TableType, FreshInv, InOrder, Load, NoCall, LoadRecords,
                       CallRecords, NoAnswer, Failed

(* The loads of the timer.                                                 *)
LEMMA PollsKeepIInv ==
    ASSUME IInv, Tick \/ \E load \in polls : AnswerPoll(load) \/ Polled(load)
    PROVE  IInv'
<1> USE Kinds DEF IInv, TableType, FreshInv, page
<1>1. CASE Tick
  <2>1. Load(shown) \in LoadRecords /\ InOrder(Load(shown), server)
    BY DEF Load, LoadRecords, InOrder
  <2>. QED BY <1>1, <2>1 DEF Tick, app
<1>2. CASE \E load \in polls : AnswerPoll(load)
  <2>1. PICK load \in polls : AnswerPoll(load) BY <1>2
  <2>2. PICK v \in Failed..MaxVersion :
           v \in {server, Failed} /\ polls' = (polls \ {load}) \cup {[load EXCEPT !.answer = v]}
    BY <2>1 DEF AnswerPoll, Answer
  <2>3. load \in LoadRecords /\ InOrder(load, server) OBVIOUS
  <2>4. LET new == [load EXCEPT !.answer = v]
        IN  new \in LoadRecords /\ InOrder(new, server)
    BY <2>2, <2>3 DEF LoadRecords, InOrder
  <2>. QED BY <2>1, <2>2, <2>4 DEF AnswerPoll, app
<1>3. CASE \E load \in polls : Polled(load)
  <2>1. PICK load \in polls : Polled(load) BY <1>3
  <2>2. load \in LoadRecords /\ InOrder(load, server) OBVIOUS
  <2>3. shown' \in Nat /\ shown' <= server
    BY <2>1, <2>2 DEF Polled, Apply, LoadRecords, InOrder
  <2>. QED BY <2>1, <2>3 DEF Polled
<1>. QED BY <1>1, <1>2, <1>3

(* Creations and deletions: what is left to show of one call.              *)
Sound(call, now) ==
    /\ call \in CallRecords
    /\ call.stage \in {"done", "loading"} => InOrder(call.load, now)
    /\ call.stage # "loading" => call.load.answer = NoAnswer

LEMMA CallKeepsIInv ==
    ASSUME IInv, NEW i \in 1..MaxCalls, NEW new,
           server' \in Nat, server <= server', Sound(new, server'),
           calls' = [calls EXCEPT ![i] = new],
           polls' = polls, shown' \in Nat, shown' <= server',
           tab' = tab, visit' = visit, form' \in [no : Nat, state : {"closed", "open", "busy"}]
    PROVE  IInv'
<1> USE DEF IInv, TableType, FreshInv
<1>1. \A load \in polls : InOrder(load, server')
  BY InOrderLater
<1>2. ASSUME NEW j \in 1..MaxCalls PROVE Sound(calls'[j], server')
  <2>1. CASE j = i BY <2>1
  <2>2. CASE j # i
    <3>1. calls'[j] = calls[j] /\ calls[j] \in CallRecords BY <2>2
    <3>2. calls[j].load \in LoadRecords BY <3>1 DEF CallRecords
    <3>3. calls[j].stage \in {"done", "loading"} => InOrder(calls[j].load, server')
      BY <3>2, InOrderLater
    <3>. QED BY <3>1, <3>3 DEF Sound
  <2>. QED BY <2>1, <2>2
<1>. QED BY <1>1, <1>2 DEF Sound

LEMMA NoCallIsSound == \A now : Sound(NoCall, now)
BY DEF Sound, NoCall, Load, CallRecords, LoadRecords

LEMMA CallsKeepIInv ==
    ASSUME IInv, NEW i \in 1..MaxCalls, CallStep(i)
    PROVE  IInv'
<1> USE Kinds
<1>1. /\ calls[i] \in CallRecords /\ calls[i].load \in LoadRecords
      /\ Sound(calls[i], server) /\ server \in Nat /\ shown \in Nat /\ shown <= server
      /\ form \in [no : Nat, state : {"closed", "open", "busy"}]
  BY DEF IInv, TableType, FreshInv, CallRecords, Sound
<1>2. server' \in Nat /\ server <= server'
  BY ServerMovesOn DEF IInv, Next
<1>3. CASE AnswerCall(i)
  <2>1. PICK to \in {"done", "failed"} :
           calls' = [calls EXCEPT ![i].stage = to, ![i].load.base = server']
    BY <1>3 DEF AnswerCall
  <2> DEFINE new == [calls[i] EXCEPT !.stage = to, !.load.base = server']
  <2>2. calls' = [calls EXCEPT ![i] = new] BY <2>1 DEF IInv, TableType
  <2>3. calls[i].load.answer = NoAnswer BY <1>1, <1>3 DEF Sound, AnswerCall
  <2>4. new.load = [calls[i].load EXCEPT !.base = server'] /\ new.stage = to
    BY <1>1 DEF CallRecords
  <2>5. new \in CallRecords BY <1>1, <1>2 DEF CallRecords, LoadRecords
  <2>6. Sound(new, server')
    BY <1>1, <1>2, <2>3, <2>4, <2>5 DEF Sound, InOrder, LoadRecords
  <2>7. UNCHANGED <<shown, polls, tab, visit, form>>
    BY <1>3 DEF AnswerCall, app, page
  <2>8. shown' \in Nat /\ shown' <= server' BY <1>1, <1>2, <2>7
  <2> HIDE DEF new
  <2>. QED BY <1>1, <1>2, <2>2, <2>6, <2>7, <2>8, CallKeepsIInv
<1>4. CASE Proceed(i)
  <2> DEFINE new == [calls[i] EXCEPT !.stage = "loading"]
  <2>1. calls' = [calls EXCEPT ![i] = new] BY <1>4 DEF Proceed, IInv, TableType
  <2>2. Sound(new, server) BY <1>1, <1>4 DEF Proceed, Sound, CallRecords
  <2> HIDE DEF new
  <2>. QED BY <1>1, <1>2, <1>4, <2>1, <2>2, CallKeepsIInv DEF Proceed, app, page
<1>5. CASE Refuse(i)
  <2>1. form' \in [no : Nat, state : {"closed", "open", "busy"}]
    BY <1>1, <1>5 DEF Refuse
  <2>. QED BY <1>1, <1>2, <1>5, <2>1, CallKeepsIInv, NoCallIsSound DEF Refuse, app
<1>6. CASE AnswerReload(i)
  <2>1. PICK v : v \in {server, Failed} /\ calls' = [calls EXCEPT ![i].load.answer = v]
    BY <1>6 DEF AnswerReload, Answer
  <2> DEFINE new == [calls[i] EXCEPT !.load.answer = v]
  <2>2. calls' = [calls EXCEPT ![i] = new] BY <2>1 DEF IInv, TableType
  <2>3. new.load = [calls[i].load EXCEPT !.answer = v] /\ new.stage = "loading"
    BY <1>1, <1>6 DEF AnswerReload, CallRecords
  <2>4. new \in CallRecords BY <1>1, <2>1 DEF CallRecords, LoadRecords
  <2>5. Sound(new, server)
    BY <1>1, <1>6, <2>1, <2>3, <2>4 DEF Sound, InOrder, LoadRecords, AnswerReload
  <2> HIDE DEF new
  <2>. QED BY <1>1, <1>2, <1>6, <2>2, <2>5, CallKeepsIInv DEF AnswerReload, app, page
<1>7. CASE Reloaded(i)
  <2>1. calls[i].stage = "loading"
    BY <1>1, <1>7 DEF Reloaded, Apply, Sound
  <2>2. shown' \in Nat /\ shown' <= server
    BY <1>1, <1>7, <2>1 DEF Reloaded, Apply, Sound, InOrder, LoadRecords
  <2>3. form' \in [no : Nat, state : {"closed", "open", "busy"}]
    BY <1>1, <1>7 DEF Reloaded, Closed
  <2>. QED BY <1>1, <1>2, <1>7, <2>2, <2>3, CallKeepsIInv, NoCallIsSound DEF Reloaded
<1>. QED BY <1>3, <1>4, <1>5, <1>6, <1>7 DEF CallStep

(* The user sends a call.                                                  *)
LEMMA SentKeepsIInv ==
    ASSUME IInv, Submit \/ Delete
    PROVE  IInv'
<1>1. PICK kind \in {"create", "delete"} : Sent(kind) BY DEF Submit, Delete
<1> DEFINE new == [NoCall EXCEPT
                     !.kind = kind, !.stage = "sent", !.visit = visit, !.form = form.no]
<1>2. PICK i \in 1..MaxCalls : calls' = [calls EXCEPT ![i] = new]
  BY <1>1 DEF Sent
<1>3. Sound(new, server)
  BY DEF Sound, NoCall, Load, CallRecords, LoadRecords, IInv, TableType
<1>4. form' \in [no : Nat, state : {"closed", "open", "busy"}]
  BY DEF Submit, Delete, IInv, TableType, page
<1>5. UNCHANGED <<server, shown, polls, tab, visit>>
  BY DEF Submit, Delete, app, page
<1>6. server \in Nat /\ shown \in Nat /\ shown <= server
  BY DEF IInv, TableType, FreshInv
<1>7. server' \in Nat /\ server <= server' /\ shown' \in Nat /\ shown' <= server'
  BY <1>5, <1>6
<1>8. Sound(new, server') BY <1>3, <1>5
<1> HIDE DEF new
<1>. QED BY <1>2, <1>4, <1>5, <1>7, <1>8, CallKeepsIInv

LEMMA RestKeepsIInv ==
    ASSUME IInv,
           \/ NewBranch \/ Dismiss \/ Measured \/ Leave \/ Return \/ Elsewhere
           \/ UNCHANGED vars
    PROVE  IInv'
<1>1. server' \in Nat /\ server <= server'
  BY ServerMovesOn DEF IInv, Next
<1>2. UNCHANGED <<shown, polls, calls>>
  BY DEF NewBranch, Dismiss, Measured, Leave, Return, Elsewhere, vars, app, requests
<1>3. /\ tab' \in BOOLEAN /\ visit' \in Nat
      /\ form' \in [no : Nat, state : {"closed", "open", "busy"}]
  <2>1. /\ tab \in BOOLEAN /\ visit \in Nat
        /\ form \in [no : Nat, state : {"closed", "open", "busy"}]
        /\ Closed(form) \in [no : Nat, state : {"closed", "open", "busy"}]
    BY DEF IInv, TableType, Closed
  <2>2. CASE NewBranch
    <3>1. form.no + 1 \in Nat BY <2>1
    <3>. QED BY <2>1, <2>2, <3>1 DEF NewBranch
  <2>3. CASE Dismiss \/ Leave BY <2>1, <2>3 DEF Dismiss, Leave
  <2>4. CASE Return BY <2>1, <2>4 DEF Return
  <2>5. CASE Measured \/ Elsewhere \/ UNCHANGED vars
    BY <2>1, <2>5 DEF Measured, Elsewhere, vars, page
  <2>. QED BY <2>2, <2>3, <2>4, <2>5
<1>4. \A load \in polls : InOrder(load, server')
  BY <1>1, InOrderLater DEF IInv, TableType, FreshInv
<1>5. \A i \in 1..MaxCalls :
         calls[i].stage \in {"done", "loading"} => InOrder(calls[i].load, server')
  BY <1>1, InOrderLater DEF IInv, TableType, FreshInv, CallRecords
<1>. QED BY <1>1, <1>2, <1>3, <1>4, <1>5 DEF IInv, TableType, FreshInv

LEMMA StepIInv == IInv /\ [Next]_vars => IInv'
BY PollsKeepIInv, CallsKeepIInv, SentKeepsIInv, RestKeepsIInv DEF Next

-----------------------------------------------------------------------------
(* A load that is applied.                                                 *)
LEMMA AppliedIsNewer ==
    ASSUME NEW load \in LoadRecords, NEW now, InOrder(load, now), Apply(load)
    PROVE  Newer(load.base)
BY Kinds DEF Apply, Newer, InOrder, LoadRecords

LEMMA ReloadStep ==
    ASSUME IInv, Next
    PROVE  /\ \A load \in polls \ polls' :
                load.answer # NoAnswer => Newer(load.base)
           /\ \A i \in 1..MaxCalls :
                calls[i].stage \in {"done", "loading"} /\ calls'[i] = NoCall
                => Newer(calls[i].load.base)
<1>1. ASSUME NEW load \in polls \ polls', load.answer # NoAnswer
      PROVE  Newer(load.base)
  <2>1. load \in LoadRecords /\ InOrder(load, server)
    BY DEF IInv, TableType, FreshInv
  <2>2. Polled(load)
    <3>1. \/ \E other \in polls : AnswerPoll(other) \/ Polled(other)
          \/ polls \subseteq polls'
      BY DEF Next, Tick, NewBranch, Dismiss, Submit, Delete, Measured, Leave, Return, Elsewhere,
             CallStep, AnswerCall, Proceed, Refuse, AnswerReload, Reloaded, requests
    <3>2. \A other \in polls : AnswerPoll(other) => other = load
      BY DEF AnswerPoll
    <3>3. ~AnswerPoll(load) BY <1>1 DEF AnswerPoll
    <3>4. \A other \in polls : Polled(other) => other = load
      BY DEF Polled
    <3>. QED BY <3>1, <3>2, <3>3, <3>4
  <2>. QED BY <2>1, <2>2, AppliedIsNewer DEF Polled
<1>2. ASSUME NEW i \in 1..MaxCalls,
             calls[i].stage \in {"done", "loading"}, calls'[i] = NoCall
      PROVE  Newer(calls[i].load.base)
  <2>1. calls[i].load \in LoadRecords /\ InOrder(calls[i].load, server)
    BY <1>2 DEF IInv, TableType, FreshInv, CallRecords
  <2>2. Reloaded(i)
    <3>1. NoCall.stage = "idle" BY DEF NoCall
    <3>2. PICK j \in 1..MaxCalls : CallStep(j) \/ Sent("create") \/ Sent("delete") \/ calls' = calls
      BY DEF Next, Tick, NewBranch, Dismiss, Submit, Delete, Measured, Leave, Return, Elsewhere,
             AnswerPoll, Polled, requests
    <3>3. calls' # calls BY <1>2, <3>1
    <3>4. ~Sent("create") /\ ~Sent("delete")
      <4>1. ASSUME NEW kind, Sent(kind) PROVE FALSE
        <5>1. PICK k \in 1..MaxCalls :
                 /\ calls[k] = NoCall
                 /\ calls' = [calls EXCEPT ![k] = [NoCall EXCEPT
                         !.kind = kind, !.stage = "sent", !.visit = visit, !.form = form.no]]
          BY <4>1 DEF Sent
        <5>2. k # i BY <1>2, <3>1, <5>1
        <5>. QED BY <1>2, <3>1, <5>1, <5>2 DEF IInv, TableType
      <4>. QED BY <4>1
    <3>5. CallStep(j) BY <3>2, <3>3, <3>4
    <3>6. j = i
      BY <1>2, <3>1, <3>5
         DEF CallStep, AnswerCall, Proceed, Refuse, AnswerReload, Reloaded, IInv, TableType
    <3>7. ~AnswerCall(i) /\ ~Refuse(i) BY <1>2 DEF AnswerCall, Refuse
    <3>8. ~Proceed(i) /\ ~AnswerReload(i)
      BY <1>2, <3>1 DEF Proceed, AnswerReload, IInv, TableType, CallRecords
    <3>. QED BY <3>5, <3>6, <3>7, <3>8 DEF CallStep
  <2>. QED BY <2>1, <2>2, AppliedIsNewer DEF Reloaded
<1>. QED BY <1>1, <1>2

(* A load never shows less than the table showed when it was sent, nor     *)
(* less than the creation or deletion it follows (ReloadsAreNewer).        *)
THEOREM LoadsShowWhatWasDone == Spec => ReloadsAreNewer
<1>1. ASSUME IInv, [Next]_vars
      PROVE  [ /\ \A load \in polls \ polls' :
                    load.answer # NoAnswer => Newer(load.base)
               /\ \A i \in 1..MaxCalls :
                    calls[i].stage \in {"done", "loading"} /\ calls'[i] = NoCall
                    => Newer(calls[i].load.base) ]_vars
  BY <1>1, ReloadStep
<1>. QED BY InitIInv, StepIInv, <1>1, PTL DEF Spec, ReloadsAreNewer

-----------------------------------------------------------------------------
(* What makes a call the one that a busy form waits for.                   *)
Owns(call) == call.kind = "create" /\ call.form = form.no /\ Here(call)

LEMMA CallsKeepBInv ==
    ASSUME TableType, BInv, NEW i \in 1..MaxCalls, CallStep(i)
    PROVE  BInv'
<1> USE DEF BInv, FormInv, TableType
<1>1. CASE AnswerCall(i) \/ Proceed(i) \/ AnswerReload(i)
  <2>1. UNCHANGED <<visit, tab, form>>
    BY <1>1 DEF AnswerCall, Proceed, AnswerReload, page
  <2>2. \A j \in 1..MaxCalls :
           calls'[j].kind = calls[j].kind /\ calls'[j].form = calls[j].form
           /\ calls'[j].visit = calls[j].visit
    <3>1. ASSUME NEW j \in 1..MaxCalls, j # i PROVE calls'[j] = calls[j]
      BY <1>1, <3>1 DEF AnswerCall, Proceed, AnswerReload
    <3>2. calls'[i].kind = calls[i].kind /\ calls'[i].form = calls[i].form
          /\ calls'[i].visit = calls[i].visit
      <4>1. calls[i] \in CallRecords OBVIOUS
      <4>2. CASE AnswerCall(i)
        <5>1. PICK to : calls' = [calls EXCEPT ![i].stage = to, ![i].load.base = server']
          BY <4>2 DEF AnswerCall
        <5>. QED BY <4>1, <5>1 DEF CallRecords
      <4>3. CASE Proceed(i) BY <4>1, <4>3 DEF Proceed, CallRecords
      <4>4. CASE AnswerReload(i)
        <5>1. PICK v : calls' = [calls EXCEPT ![i].load.answer = v]
          BY <4>4 DEF AnswerReload
        <5>. QED BY <4>1, <5>1 DEF CallRecords
      <4>. QED BY <1>1, <4>2, <4>3, <4>4
    <3>. QED BY <3>1, <3>2
  <2>. QED BY <2>1, <2>2 DEF BusyHasCall, Here
<1>2. CASE Refuse(i) \/ Reloaded(i)
  <2>1. calls' = [calls EXCEPT ![i] = NoCall] /\ UNCHANGED <<visit, tab>>
    BY <1>2 DEF Refuse, Reloaded
  <2>2. form' \in {form, Closed(form), [form EXCEPT !.state = "open"]}
    BY <1>2 DEF Refuse, Reloaded
  <2>3. form.state # "closed" => tab OBVIOUS
  <2>4. FormInv'
    <3>1. form'.state = "open" => tab
      BY <1>2, <2>3 DEF Refuse, Reloaded, Closed, Here
    <3>2. form'.state = "busy" => tab BY <2>2, <2>3 DEF Closed
    <3>3. form'.state \in {"closed", "open", "busy"} BY <2>2 DEF Closed
    <3>. QED BY <2>1, <3>1, <3>2, <3>3
  <2>5. ASSUME form'.state = "busy" PROVE form' = form /\ form.state = "busy" /\ ~Owns(calls[i])
    BY <1>2, <2>2, <2>5 DEF Refuse, Reloaded, Closed, Owns
  <2>6. BusyHasCall'
    BY <2>1, <2>5 DEF BusyHasCall, Owns, Here
  <2>. QED BY <2>4, <2>6
<1>. QED BY <1>1, <1>2 DEF CallStep

LEMMA StepBInv == TableType /\ BInv /\ [Next]_vars => BInv'
<1> SUFFICES ASSUME TableType, BInv, [Next]_vars PROVE BInv'
  OBVIOUS
<1> USE DEF BInv, FormInv, TableType
<1>1. CASE \E i \in 1..MaxCalls : CallStep(i)
  BY <1>1, CallsKeepBInv
<1>2. CASE Submit
  <2>1. PICK i \in 1..MaxCalls :
           calls' = [calls EXCEPT ![i] = [NoCall EXCEPT !.kind = "create", !.stage = "sent",
                                              !.visit = visit, !.form = form.no]]
    BY <1>2 DEF Submit, Sent
  <2>2. calls'[i].kind = "create" /\ calls'[i].form = form.no /\ calls'[i].visit = visit
    BY <2>1 DEF NoCall
  <2>. QED BY <1>2, <2>2 DEF Submit, BusyHasCall, Here
<1>3. CASE Delete
  <2>1. PICK i \in 1..MaxCalls :
           calls[i] = NoCall /\ \A j \in 1..MaxCalls \ {i} : calls'[j] = calls[j]
    BY <1>3 DEF Delete, Sent
  <2>2. NoCall.kind = "none" BY DEF NoCall
  <2>. QED BY <1>3, <2>1, <2>2 DEF Delete, BusyHasCall, Here, page
<1>4. CASE NewBranch \/ Dismiss \/ Leave \/ Return
  <2>1. form'.state # "busy" /\ (form'.state # "closed" => tab')
    BY <1>4 DEF NewBranch, Dismiss, Leave, Return, Closed
  <2>. QED BY <2>1 DEF BusyHasCall
<1>5. CASE UNCHANGED <<calls, visit, tab, form>>
  BY <1>5 DEF BusyHasCall, Here
<1>6. Tick \/ Measured \/ Elsewhere \/ (\E load \in polls : AnswerPoll(load) \/ Polled(load))
      \/ UNCHANGED vars => UNCHANGED <<calls, visit, tab, form>>
  BY DEF Tick, Measured, Elsewhere, AnswerPoll, Polled, vars, page, requests
<1>. QED BY <1>1, <1>2, <1>3, <1>4, <1>5, <1>6 DEF Next

(* A form that says "Creating..." has its request under way, whatever      *)
(* forms were left, refused or sent again before it (BusyHasCall).         *)
THEOREM BusyFormsHaveCalls == Spec => []BusyHasCall
<1>1. Init => BInv
  BY DEF Init, BInv, FormInv, BusyHasCall
<1>2. IInv /\ BInv /\ [Next]_vars => IInv' /\ BInv'
  BY StepIInv, StepBInv DEF IInv
<1>3. BInv => BusyHasCall BY DEF BInv
<1>. QED BY InitIInv, <1>1, <1>2, <1>3, PTL DEF Spec

-----------------------------------------------------------------------------
LEMMA AskingKeepsMetricsInv ==
    ASSUME NEW list, NEW entry, NEW n \in Nat, Asking(list, entry, n),
           n = IF entry = "undefined" THEN 0 ELSE 1
    PROVE  MetricsInv'
BY DEF Asking, More, MetricsInv

LEMMA StepMetrics == MetricsInv /\ [Next]_vars => MetricsInv'
<1> SUFFICES ASSUME MetricsInv, [Next]_vars PROVE MetricsInv'
  OBVIOUS
<1> USE DEF MetricsInv
<1>1. \/ UNCHANGED <<metrics, asks>> \/ Measured \/ Leave \/ Return
      \/ \E load : Apply(load)
  BY DEF Next, Tick, NewBranch, Dismiss, Submit, Delete, Elsewhere, AnswerPoll, Polled, CallStep,
         AnswerCall, Proceed, Refuse, AnswerReload, Reloaded, vars, measured
<1>2. CASE Measured BY <1>2 DEF Measured
<1>3. CASE Leave BY <1>3 DEF Leave
<1>4. CASE Return BY <1>4, AskingKeepsMetricsInv DEF Return
<1>5. CASE \E load : Apply(load)
  <2>1. UNCHANGED <<metrics, asks>> \/ \E list : Asking(list, metrics, asks)
    BY <1>5 DEF Apply, measured
  <2>. QED BY <2>1, AskingKeepsMetricsInv
<1>. QED BY <1>1, <1>2, <1>3, <1>4, <1>5

(* The effect that sets the state it depends on asks once in a visit, for  *)
(* however many lists and loads (AskedOnce).                               *)
THEOREM MetricsAreAskedOnce == Spec => []AskedOnce
<1>1. Init => MetricsInv BY DEF Init, MetricsInv
<1>2. MetricsInv => AskedOnce BY DEF MetricsInv, AskedOnce
<1>. QED BY <1>1, <1>2, StepMetrics, PTL DEF Spec
=============================================================================
