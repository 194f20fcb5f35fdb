------------------------ MODULE EditSessions_proofs ------------------------
(***************************************************************************)
(* Which callbacks can write into the session of a row: the inductive      *)
(* invariant says that whatever is still under way for a row belongs to    *)
(* the session the row has, as long as the row was not closed meanwhile.   *)
(***************************************************************************)
EXTENDS EditSessions, TLAPS

Answers == {"moving", "settled", "absent"}
Stages  == {"unsent", "sent", "done", "failed", "over"}
OrNone(S) == S \cup {None}

Polls   == [branch : OrNone(Branches), answer : OrNone(Answers)]
EditSession == [open : BOOLEAN, name : OrNone(Branches), phase : OrNone(Answers)]

(* The types of what the callbacks of the console read and write.          *)
ConsoleType ==
    /\ visit \in Nat /\ mounted \in BOOLEAN
    /\ list \in [visit : Nat, answer : OrNone([Branches -> Answers])]
    /\ sessions \in [Snapshots -> EditSession]
    /\ creates \in [Branches -> [visit : Nat, stage : Stages]]
    /\ gets \in [Snapshots -> [1..MaxRequests -> Polls]]
    /\ poll \in [Snapshots -> OrNone(Branches)]
    /\ trouble \in [Snapshots -> {"calm", "upset", "crossed"}]

(* No request is of a visit to come, and a closed tab has no session.      *)
VisitInv ==
    /\ list.visit <= visit
    /\ \A b \in Branches : creates[b].visit <= visit
    /\ ~mounted => \A s \in Snapshots : ~sessions[s].open /\ trouble[s] # "crossed"

(* A row without a session waits for nothing.                              *)
QuietInv == \A s \in Snapshots :
    trouble[s] # "crossed" /\ ~sessions[s].open => poll[s] = None /\ ~Awaited(s)

(* What is under way for a row that nothing has disturbed is about the     *)
(* branch of its session, and an unfinished session is waited for.         *)
Undisturbed(s) ==
    LET name == sessions[s].name
    IN  /\ name \in Branches /\ name.snap = s
        /\ poll[s] \in {None, name}
        /\ \A i \in 1..MaxRequests : gets[s][i].branch \in {None, name}
        /\ UnderWay(s) # {} => poll[s] = name
        /\ \A b \in Branches : b.snap = s /\ Pending(b) /\ Current(creates[b]) => b = name
        /\ sessions[s].phase # "settled" =>
              poll[s] = name \/ (Pending(name) /\ Current(creates[name]))

OwnInv == \A s \in Snapshots :
    trouble[s] = "calm" /\ sessions[s].open => Undisturbed(s)

IInv == ConsoleType /\ VisitInv /\ QuietInv /\ NamelessOnlyIfCrossed /\ OwnInv

-----------------------------------------------------------------------------
(* The rows are as they were: nothing of the invariant is touched.         *)
LEMMA RowsKeepIInv ==
    ASSUME IInv, UNCHANGED <<tab, list, rows>>
    PROVE  IInv'
BY DEF IInv, ConsoleType, VisitInv, QuietInv, NamelessOnlyIfCrossed, OwnInv, Undisturbed,
       Awaited, UnderWay, Pending, Current, tab, rows

LEMMA InitIInv == Init => IInv
<1> SUFFICES ASSUME Init PROVE IInv
  OBVIOUS
<1>1. ConsoleType
  BY EditAssumption DEF Init, ConsoleType, NoSession, Idle, NoList, NotSent, Over,
                        OrNone, Answers, Stages, Polls, EditSession
<1>2. /\ list.visit <= visit
      /\ \A b \in Branches : creates[b].visit <= visit
      /\ \A s \in Snapshots :
           /\ ~sessions[s].open /\ trouble[s] = "calm" /\ poll[s] = None
           /\ UnderWay(s) = {} /\ ~mounted
  BY DEF Init, NoList, NotSent, Over, NoSession, UnderWay
<1> QED
  BY <1>1, <1>2 DEF IInv, VisitInv, QuietInv, NamelessOnlyIfCrossed, OwnInv, Awaited, Current

LEMMA SeenIsAnswer == \A p : Seen(p) \in Answers
BY DEF Seen, Answers

(* Mounting and unmounting: no session, and no request of the new visit.   *)
LEMMA VisitsKeepIInv == IInv /\ (Mount \/ Unmount) => IInv'
<1> SUFFICES ASSUME IInv, Mount \/ Unmount PROVE IInv'
  OBVIOUS
<1> USE EditAssumption DEF IInv, server, rows
<1>1. CASE Mount
  BY <1>1 DEF Mount, ConsoleType, VisitInv, QuietInv, NamelessOnlyIfCrossed, OwnInv,
              Awaited, UnderWay, Pending, Current
<1>2. CASE Unmount
  BY <1>2 DEF Unmount, ConsoleType, VisitInv, QuietInv, NamelessOnlyIfCrossed, OwnInv,
              Awaited, UnderWay, Pending, Current, NoSession, Idle, OrNone, Polls, EditSession
<1> QED BY <1>1, <1>2

(* Sending and answering the list of the branches changes no row.          *)
LEMMA ListKeepsIInv == IInv /\ (Loaded \/ AnswerList) => IInv'
<1> SUFFICES ASSUME IInv, Loaded \/ AnswerList PROVE IInv'
  OBVIOUS
<1>1. UNCHANGED <<visit, mounted, rows>>
  BY DEF Loaded, AnswerList, tab
<1>2. list' \in [visit : Nat, answer : OrNone([Branches -> Answers])] /\ list'.visit <= visit'
  BY SeenIsAnswer DEF IInv, ConsoleType, VisitInv, Loaded, AnswerList, tab, NoList, OrNone
<1> QED
  BY <1>1, <1>2 DEF IInv, ConsoleType, VisitInv, QuietInv, NamelessOnlyIfCrossed, OwnInv,
       Undisturbed, Awaited, UnderWay, Pending, Current, rows

-----------------------------------------------------------------------------
LEMMA OnePoll ==
    ASSUME NEW f \in [Snapshots -> [1..MaxRequests -> Polls]],
           NEW s \in Snapshots, NEW i \in 1..MaxRequests, NEW p \in Polls
    PROVE  LET h == [f EXCEPT ![s][i] = p]
           IN  /\ h \in [Snapshots -> [1..MaxRequests -> Polls]]
               /\ h[s][i] = p
               /\ \A j \in (1..MaxRequests) \ {i} : h[s][j] = f[s][j]
               /\ \A t \in Snapshots \ {s} : h[t] = f[t]
OBVIOUS

(* The polls. An undisturbed row polls for the branch of its session, so   *)
(* that is the branch of every poll, and of every answer that counts.      *)
LEMMA TickKeepsIInv ==
    ASSUME IInv, NEW s \in Snapshots, Tick(s)
    PROVE  IInv'
<1>1. UNCHANGED <<visit, mounted, list, sessions, creates, poll, trouble>> /\ poll[s] # None
  BY DEF Tick, tab
<1>2. PICK i \in 1..MaxRequests : gets' = [gets EXCEPT ![s][i].branch = poll[s]]
  BY DEF Tick
<1> DEFINE new == [gets[s][i] EXCEPT !.branch = poll[s]]
<1>3. /\ gets \in [Snapshots -> [1..MaxRequests -> Polls]] /\ poll[s] \in OrNone(Branches)
      /\ gets' = [gets EXCEPT ![s][i] = new]
  BY <1>2 DEF IInv, ConsoleType
<1>4. new \in Polls /\ new.branch = poll[s]
  BY <1>3 DEF Polls
<1> HIDE DEF new
<1>5. /\ gets' \in [Snapshots -> [1..MaxRequests -> Polls]]
      /\ \A t \in Snapshots \ {s} : gets'[t] = gets[t]
      /\ \A j \in 1..MaxRequests : gets'[s][j].branch \in {gets[s][j].branch, poll[s]}
  BY <1>3, <1>4, OnePoll
<1>6. ConsoleType'
  BY <1>1, <1>5 DEF IInv, ConsoleType
<1>7. QuietInv'
  <2> SUFFICES ASSUME NEW t \in Snapshots, trouble[t] # "crossed", ~sessions[t].open
               PROVE  (poll[t] = None /\ ~Awaited(t))'
    BY <1>1 DEF QuietInv
  <2>1. poll[t] = None /\ ~Awaited(t)
    BY DEF IInv, QuietInv
  <2>2. t # s
    BY <2>1, <1>1
  <2> QED BY <2>1, <2>2, <1>1, <1>5 DEF Awaited, UnderWay, Pending, Current
<1>8. OwnInv'
  <2> SUFFICES ASSUME NEW t \in Snapshots, trouble[t] = "calm", sessions[t].open
               PROVE  Undisturbed(t)'
    BY <1>1 DEF OwnInv
  <2>1. Undisturbed(t)
    BY DEF IInv, OwnInv
  <2>2. CASE t # s
    BY <2>1, <2>2, <1>1, <1>5 DEF Undisturbed, UnderWay, Pending, Current
  <2>3. CASE t = s
    <3>1. poll[s] = sessions[s].name
      BY <2>1, <2>3, <1>1 DEF Undisturbed
    <3> QED
      BY <2>1, <2>3, <1>1, <3>1, <1>5 DEF Undisturbed, Pending, Current
  <2> QED BY <2>2, <2>3
<1> QED BY <1>1, <1>6, <1>7, <1>8 DEF IInv, VisitInv, NamelessOnlyIfCrossed

LEMMA AnswerGetKeepsIInv ==
    ASSUME IInv, NEW s \in Snapshots, NEW i \in 1..MaxRequests, AnswerGet(s, i)
    PROVE  IInv'
<1>1. PICK a \in Answers : gets' = [gets EXCEPT ![s][i] = [@ EXCEPT !.answer = a]]
  BY SeenIsAnswer DEF AnswerGet, Answers
<1>2. UNCHANGED <<visit, mounted, list, sessions, creates, poll, trouble>> /\ gets[s][i] # Idle
  BY DEF AnswerGet, tab
<1> DEFINE new == [gets[s][i] EXCEPT !.answer = a]
<1>3. /\ gets \in [Snapshots -> [1..MaxRequests -> Polls]] /\ gets' = [gets EXCEPT ![s][i] = new]
      /\ gets[s][i] \in Polls
  BY <1>1 DEF IInv, ConsoleType
<1>4. new \in Polls /\ new.branch = gets[s][i].branch
  BY <1>3 DEF Polls, OrNone
<1> HIDE DEF new
<1>5. /\ gets' \in [Snapshots -> [1..MaxRequests -> Polls]]
      /\ \A t \in Snapshots : \A j \in 1..MaxRequests : gets'[t][j].branch = gets[t][j].branch
      /\ \A t \in Snapshots \ {s} : gets'[t] = gets[t]
  BY <1>3, <1>4, OnePoll
<1>6. \A t \in Snapshots : UnderWay(t) = {} => t # s
  BY <1>2 DEF UnderWay
<1>7. ConsoleType'
  BY <1>2, <1>5 DEF IInv, ConsoleType
<1>8. QuietInv'
  BY <1>2, <1>5, <1>6 DEF IInv, QuietInv, Awaited, UnderWay, Pending, Current
<1>9. OwnInv'
  BY <1>2, <1>5, <1>6 DEF IInv, OwnInv, Undisturbed, UnderWay, Pending, Current
<1> QED BY <1>2, <1>7, <1>8, <1>9 DEF IInv, VisitInv, NamelessOnlyIfCrossed

(* What Got, Created and NotCreated write: the row keeps its branch.       *)
LEMMA WritersKeepName ==
    ASSUME NEW session \in EditSession, NEW p \in Answers
    PROVE  /\ WithBranch(session, p) \in EditSession /\ WithError(session) \in EditSession
           /\ WithBranch(session, p).open /\ WithError(session).open
           /\ WithBranch(session, p).name = session.name
           /\ WithError(session).name = session.name
           /\ WithBranch(session, p).phase = p
BY DEF WithBranch, WithError, EditSession, OrNone

LEMMA GotKeepsIInv ==
    ASSUME IInv, NEW s \in Snapshots, NEW i \in 1..MaxRequests, Got(s, i)
    PROVE  IInv'
<1> DEFINE g == gets[s][i]
<1>1. UNCHANGED <<visit, mounted, list, creates>> /\ g.answer # None
  BY DEF Got, tab
<1>2. gets' = [gets EXCEPT ![s][i] = Idle] /\ g # Idle
  BY DEF Got, Idle
<1>3. /\ g \in Polls /\ sessions[s] \in EditSession
      /\ gets \in [Snapshots -> [1..MaxRequests -> Polls]]
      /\ sessions \in [Snapshots -> EditSession] /\ poll \in [Snapshots -> OrNone(Branches)]
      /\ trouble \in [Snapshots -> {"calm", "upset", "crossed"}]
  BY DEF IInv, ConsoleType
<1>a. g.answer \in Answers
  BY <1>1, <1>3 DEF Polls, OrNone
<1> DEFINE new == IF g.answer = "absent" THEN sessions[s] ELSE WithBranch(sessions[s], g.answer)
           to  == IF g.answer = "moving" THEN poll[s] ELSE None
<1>4. sessions' = [sessions EXCEPT ![s] = new] /\ poll' = [poll EXCEPT ![s] = to]
  BY <1>3 DEF Got, Session
<1>5. PICK disturbed \in BOOLEAN :
        /\ disturbed <=> \/ g.answer = "absent" \/ g.branch # sessions[s].name
                         \/ g.answer = "settled" /\ UnderWay(s) # {i}
        /\ trouble' = [trouble EXCEPT ![s] = IF disturbed /\ @ = "calm" THEN "upset" ELSE @]
  BY <1>3 DEF Got, Disturb
<1>b. /\ new \in EditSession /\ new.name = sessions[s].name
      /\ sessions[s].open => new.open
      /\ g.answer # "absent" => new.open /\ new.phase = g.answer
  BY <1>3, <1>a, WritersKeepName
<1> HIDE DEF new
<1>6. /\ sessions'[s].name = sessions[s].name
      /\ sessions[s].open => sessions'[s].open
      /\ g.answer # "absent" => sessions'[s].open /\ sessions'[s].phase = g.answer
      /\ sessions' \in [Snapshots -> EditSession]
  BY <1>3, <1>4, <1>b
<1>c. Idle \in Polls
  BY DEF Idle, Polls, OrNone
<1>d. /\ gets' \in [Snapshots -> [1..MaxRequests -> Polls]] /\ gets'[s][i] = Idle
      /\ \A j \in (1..MaxRequests) \ {i} : gets'[s][j] = gets[s][j]
      /\ \A t \in Snapshots \ {s} : gets'[t] = gets[t]
  BY <1>2, <1>3, <1>c, OnePoll
<1>7. /\ \A t \in Snapshots \ {s} : /\ sessions'[t] = sessions[t] /\ poll'[t] = poll[t]
                                    /\ gets'[t] = gets[t] /\ trouble'[t] = trouble[t]
      /\ UnderWay(s)' = UnderWay(s) \ {i} /\ i \in UnderWay(s)
  BY <1>2, <1>3, <1>4, <1>5, <1>d DEF UnderWay
<1>8. ConsoleType'
  BY <1>1, <1>3, <1>4, <1>5, <1>6, <1>d DEF IInv, ConsoleType, OrNone
<1>9. trouble[s] # "crossed" => sessions[s].open
  BY <1>7 DEF IInv, QuietInv, Awaited
<1>10. trouble'[s] = "crossed" <=> trouble[s] = "crossed"
  BY <1>5 DEF IInv, ConsoleType
<1>11. QuietInv'
  <2> SUFFICES ASSUME NEW t \in Snapshots, trouble'[t] # "crossed", ~sessions'[t].open
               PROVE  (poll[t] = None /\ ~Awaited(t))'
    BY DEF QuietInv
  <2>1. t # s
    BY <1>6, <1>9, <1>10
  <2>2. poll[t] = None /\ ~Awaited(t)
    BY <2>1, <1>7 DEF IInv, QuietInv
  <2> QED BY <2>1, <2>2, <1>1, <1>7 DEF Awaited, UnderWay, Pending, Current
<1>12. NamelessOnlyIfCrossed'
  BY <1>6, <1>7, <1>9, <1>10 DEF IInv, NamelessOnlyIfCrossed
<1>13. OwnInv'
  <2> SUFFICES ASSUME NEW t \in Snapshots, trouble'[t] = "calm", sessions'[t].open
               PROVE  Undisturbed(t)'
    BY DEF OwnInv
  <2>1. CASE t # s
    BY <2>1, <1>1, <1>7 DEF IInv, OwnInv, Undisturbed, UnderWay, Pending, Current
  <2>2. CASE t = s
    <3>1. trouble[s] = "calm" /\ ~disturbed /\ Undisturbed(s)
      BY <2>2, <1>5, <1>9 DEF IInv, ConsoleType, OwnInv
    <3>2. g.answer # "absent" /\ g.answer \in {"moving", "settled"} /\ poll[s] = sessions[s].name
      BY <3>1, <1>a, <1>5, <1>7 DEF Undisturbed, Answers
    <3>3. \A j \in 1..MaxRequests : gets'[s][j].branch \in {gets[s][j].branch, None}
      BY <1>d DEF Idle
    <3>4. CASE g.answer = "moving"
      <4>1. poll'[s] = poll[s]
        BY <1>4, <3>4 DEF IInv, ConsoleType
      <4> QED BY <4>1, <3>1, <3>2, <3>3, <2>2, <1>1, <1>6 DEF Undisturbed, Pending, Current
    <3>5. CASE g.answer = "settled"
      <4>1. poll'[s] = None /\ UnderWay(s)' = {} /\ sessions'[s].phase = "settled"
        BY <1>4, <1>5, <1>6, <1>7, <3>1, <3>5 DEF IInv, ConsoleType
      <4> QED BY <4>1, <3>1, <3>3, <2>2, <1>1, <1>6 DEF Undisturbed, Pending, Current
    <3> QED BY <3>2, <3>4, <3>5
  <2> QED BY <2>1, <2>2
<1> QED BY <1>1, <1>6, <1>7, <1>8, <1>9, <1>10, <1>11, <1>12, <1>13 DEF IInv, VisitInv

-----------------------------------------------------------------------------
(* Opening and closing. A fresh session starts with nothing under way.     *)
LEMMA OpenKeepsIInv ==
    ASSUME IInv, NEW s \in Snapshots, Open(s)
    PROVE  IInv'
<1>1. /\ UNCHANGED <<visit, mounted, list, gets, poll, trouble>>
      /\ mounted /\ ~sessions[s].open
  BY DEF Open, tab
<1>2. PICK b \in Branches :
        /\ b.snap = s
        /\ creates' = [creates EXCEPT ![b] = [visit |-> visit, stage |-> "sent"]]
        /\ sessions' = [sessions EXCEPT ![s] = [NoSession EXCEPT !.open = TRUE, !.name = b]]
  BY DEF Open, Session
<1> DEFINE new == [NoSession EXCEPT !.open = TRUE, !.name = b]
<1>b. new \in EditSession /\ new.open /\ new.name = b /\ new.phase = None
  BY DEF NoSession, EditSession, OrNone
<1> HIDE DEF new
<1>3. /\ sessions \in [Snapshots -> EditSession] /\ creates \in [Branches -> [visit : Nat, stage : Stages]]
      /\ visit \in Nat
      /\ gets \in [Snapshots -> [1..MaxRequests -> Polls]]
  BY DEF IInv, ConsoleType
<1>4. /\ sessions' \in [Snapshots -> EditSession]
      /\ creates' \in [Branches -> [visit : Nat, stage : Stages]]
      /\ sessions'[s] = new
      /\ creates'[b] = [visit |-> visit, stage |-> "sent"]
      /\ \A t \in Snapshots \ {s} : sessions'[t] = sessions[t]
      /\ \A c \in Branches \ {b} : creates'[c] = creates[c]
  <2>1. [visit |-> visit, stage |-> "sent"] \in [visit : Nat, stage : Stages]
    BY <1>3 DEF Stages
  <2>2. sessions' = [sessions EXCEPT ![s] = new]
    BY <1>2 DEF new
  <2> QED BY <1>2, <1>3, <1>b, <2>1, <2>2
<1>a. ConsoleType'
  BY <1>1, <1>4 DEF IInv, ConsoleType
<1>5. VisitInv'
  <2>1. \A c \in Branches : creates'[c].visit <= visit
    <3> SUFFICES ASSUME NEW c \in Branches PROVE creates'[c].visit <= visit
      OBVIOUS
    <3>1. CASE c = b
      BY <3>1, <1>3, <1>4
    <3>2. CASE c # b
      BY <3>2, <1>4 DEF IInv, VisitInv
    <3> QED BY <3>1, <3>2
  <2> QED BY <2>1, <1>1 DEF IInv, VisitInv
<1>6. QuietInv'
  <2> SUFFICES ASSUME NEW t \in Snapshots, trouble[t] # "crossed", ~sessions'[t].open
               PROVE  (poll[t] = None /\ ~Awaited(t))'
    BY <1>1 DEF QuietInv
  <2>1. t # s
    BY <1>4, <1>b
  <2> QED BY <2>1, <1>1, <1>2, <1>4 DEF IInv, QuietInv, Awaited, UnderWay, Pending, Current
<1>7. NamelessOnlyIfCrossed'
  BY <1>1, <1>4, <1>b, EditAssumption DEF IInv, NamelessOnlyIfCrossed
<1>8. OwnInv'
  <2> SUFFICES ASSUME NEW t \in Snapshots, trouble[t] = "calm", sessions'[t].open
               PROVE  Undisturbed(t)'
    BY <1>1 DEF OwnInv
  <2>1. CASE t # s
    BY <2>1, <1>1, <1>2, <1>4 DEF IInv, OwnInv, Undisturbed, UnderWay, Pending, Current
  <2>2. CASE t = s
    <3>1. poll[s] = None /\ ~Awaited(s)
      BY <2>2, <1>1 DEF IInv, QuietInv
    <3>2. \A i \in 1..MaxRequests : gets[s][i].branch = None
      BY <3>1 DEF Awaited, UnderWay, Idle
    <3>3. \A c \in Branches : c.snap = s /\ Pending(c)' /\ Current(creates[c])' => c = b
      BY <3>1, <1>1, <1>4 DEF Awaited, Pending, Current
    <3>4. Pending(b)' /\ Current(creates[b])'
      BY <1>1, <1>4 DEF Pending, Current
    <3>5. UnderWay(s)' = {}
      BY <3>1, <1>1 DEF Awaited, UnderWay
    <3> QED BY <2>2, <3>1, <3>2, <3>3, <3>4, <3>5, <1>1, <1>2, <1>4, <1>b DEF Undisturbed
  <2> QED BY <2>1, <2>2
<1> QED BY <1>a, <1>5, <1>6, <1>7, <1>8 DEF IInv

(* Closing leaves the row crossed, or with nothing under way.              *)
LEMMA CloseKeepsIInv ==
    ASSUME IInv, NEW s \in Snapshots, Close(s)
    PROVE  IInv'
<1>1. /\ UNCHANGED <<visit, mounted, list, creates, gets>> /\ sessions[s].open
      /\ sessions' = [sessions EXCEPT ![s] = NoSession]
      /\ poll' = [poll EXCEPT ![s] = None]
      /\ trouble' = [trouble EXCEPT ![s] = IF Awaited(s) THEN "crossed" ELSE "calm"]
  BY DEF Close, Session, tab
<1>2. ConsoleType'
  BY <1>1 DEF IInv, ConsoleType, NoSession, EditSession, OrNone
<1>3. /\ ~sessions'[s].open /\ poll'[s] = None
      /\ trouble'[s] # "crossed" => ~Awaited(s)
      /\ \A t \in Snapshots \ {s} : /\ sessions'[t] = sessions[t] /\ poll'[t] = poll[t]
                                    /\ trouble'[t] = trouble[t]
  BY <1>1 DEF IInv, ConsoleType, NoSession
<1>4. \A t \in Snapshots : Awaited(t)' <=> Awaited(t)
  BY <1>1 DEF Awaited, UnderWay, Pending, Current
<1>5. QuietInv'
  BY <1>3, <1>4 DEF IInv, QuietInv
<1>6. OwnInv'
  <2> SUFFICES ASSUME NEW t \in Snapshots \ {s}, trouble[t] = "calm", sessions[t].open
               PROVE  Undisturbed(t)'
    BY <1>3 DEF OwnInv
  <2> QED BY <1>1, <1>3 DEF IInv, OwnInv, Undisturbed, UnderWay, Pending, Current
<1> QED
  BY <1>1, <1>2, <1>3, <1>5, <1>6 DEF IInv, VisitInv, NamelessOnlyIfCrossed

(* The server's part of a creation: its stage changes, it stays pending.   *)
LEMMA AnswerCreateKeepsIInv ==
    ASSUME IInv, NEW b \in Branches, AnswerCreate(b)
    PROVE  IInv'
<1>1. /\ UNCHANGED <<visit, mounted, list, sessions, gets, poll, trouble>>
      /\ creates[b].stage = "sent"
  BY DEF AnswerCreate, tab
<1>2. PICK to \in {"done", "failed"} : creates' = [creates EXCEPT ![b].stage = to]
  BY DEF AnswerCreate
<1>3. creates' \in [Branches -> [visit : Nat, stage : Stages]]
  BY <1>2 DEF IInv, ConsoleType, Stages
<1>4. \A c \in Branches : creates'[c].visit = creates[c].visit /\ (Pending(c)' <=> Pending(c))
  BY <1>1, <1>2 DEF IInv, ConsoleType, Pending
<1> QED
  BY <1>1, <1>3, <1>4 DEF IInv, ConsoleType, VisitInv, QuietInv, NamelessOnlyIfCrossed, OwnInv,
       Undisturbed, Awaited, UnderWay, Current

(* An answer to nobody: the creation is over, and it was of another visit. *)
LEMMA StaleAnswerKeepsIInv ==
    ASSUME IInv, NEW b \in Branches, Pending(b), ~Current(creates[b]),
           creates' = [creates EXCEPT ![b].stage = "over"],
           UNCHANGED <<visit, mounted, list, sessions, gets, poll, trouble>>
    PROVE  IInv'
<1>1. creates' \in [Branches -> [visit : Nat, stage : Stages]]
  BY DEF IInv, ConsoleType, Stages
<1>2. \A c \in Branches : /\ creates'[c].visit = creates[c].visit
                          /\ Pending(c)' => Pending(c)
                          /\ Pending(c) /\ Current(creates[c]) => Pending(c)'
  BY DEF IInv, ConsoleType, Pending, Current
<1>3. \A s \in Snapshots : Awaited(s)' => Awaited(s)
  BY <1>2 DEF Awaited, UnderWay, Current
<1> QED
  BY <1>1, <1>2, <1>3 DEF IInv, ConsoleType, VisitInv, QuietInv, NamelessOnlyIfCrossed, OwnInv,
       Undisturbed, UnderWay, Current

(* An answer of this visit is written into the session of the row: the row *)
(* has one, unless it was closed meanwhile, and it is the one that asked,  *)
(* unless the row is disturbed.                                            *)
LEMMA CreationKeepsIInv ==
    ASSUME IInv, NEW b \in Branches, Created(b) \/ NotCreated(b)
    PROVE  IInv'
<1> DEFINE s == b.snap
<1>1. /\ UNCHANGED <<visit, mounted, list, gets>> /\ Pending(b)
      /\ creates' = [creates EXCEPT ![b].stage = "over"]
  BY DEF Created, NotCreated, tab, Pending
<1>2. CASE ~Current(creates[b])
  BY <1>1, <1>2, StaleAnswerKeepsIInv DEF Created, NotCreated
<1>3. CASE Current(creates[b])
  <2>1. /\ s \in Snapshots /\ sessions[s] \in EditSession
        /\ sessions \in [Snapshots -> EditSession]
        /\ poll \in [Snapshots -> OrNone(Branches)]
        /\ trouble \in [Snapshots -> {"calm", "upset", "crossed"}]
    BY DEF IInv, ConsoleType, Branches
  <2>2. PICK new \in EditSession, to \in OrNone(Branches), mark \in {"calm", "upset", "crossed"} :
          /\ new.open /\ new.name = sessions[s].name
          /\ sessions' = [sessions EXCEPT ![s] = new]
          /\ poll' = [poll EXCEPT ![s] = to]
          /\ trouble' = [trouble EXCEPT ![s] = mark]
          /\ mark = "crossed" <=> trouble[s] = "crossed"
          /\ mark = "calm" => trouble[s] = "calm" /\ sessions[s].name = b /\ to = b
    <3>1. CASE Created(b)
      <4>1. "moving" \in Answers
        BY DEF Answers
      <4> DEFINE mk == IF sessions[s].name = b THEN trouble[s]
                       ELSE IF trouble[s] = "calm" THEN "upset" ELSE trouble[s]
      <4>2. trouble' = [trouble EXCEPT ![s] = mk]
        BY <3>1, <1>3, <2>1 DEF Created, Disturb
      <4>3. /\ sessions' = [sessions EXCEPT ![s] = WithBranch(sessions[s], "moving")]
            /\ poll' = [poll EXCEPT ![s] = b] /\ b \in OrNone(Branches)
        BY <3>1, <1>3 DEF Created, Session, OrNone
      <4>4. mk \in {"calm", "upset", "crossed"}
        BY <2>1
      <4>5. /\ mk = "crossed" <=> trouble[s] = "crossed"
            /\ mk = "calm" => trouble[s] = "calm" /\ sessions[s].name = b
        BY <2>1
      <4> QED BY <4>1, <4>2, <4>3, <4>4, <4>5, <2>1, WritersKeepName
    <3>2. CASE NotCreated(b)
      <4>1. "moving" \in Answers
        BY DEF Answers
      <4> DEFINE mk == IF trouble[s] = "calm" THEN "upset" ELSE trouble[s]
      <4>2. trouble' = [trouble EXCEPT ![s] = mk]
        BY <3>2, <1>3, <2>1 DEF NotCreated, Disturb
      <4>3. /\ sessions' = [sessions EXCEPT ![s] = WithError(sessions[s])]
            /\ poll' = [poll EXCEPT ![s] = poll[s]] /\ poll[s] \in OrNone(Branches)
        BY <3>2, <1>3, <2>1 DEF NotCreated, Session
      <4>4. mk \in {"upset", "crossed"} /\ (mk = "crossed" <=> trouble[s] = "crossed")
        BY <2>1
      <4> QED BY <4>1, <4>2, <4>3, <4>4, <2>1, WritersKeepName
    <3> QED BY <3>1, <3>2
  <2>3. /\ sessions' \in [Snapshots -> EditSession] /\ sessions'[s] = new
        /\ poll' \in [Snapshots -> OrNone(Branches)] /\ poll'[s] = to
        /\ trouble' \in [Snapshots -> {"calm", "upset", "crossed"}] /\ trouble'[s] = mark
        /\ \A t \in Snapshots \ {s} : /\ sessions'[t] = sessions[t] /\ poll'[t] = poll[t]
                                      /\ trouble'[t] = trouble[t]
    BY <2>1, <2>2
  <2>4. creates' \in [Branches -> [visit : Nat, stage : Stages]]
    BY <1>1 DEF IInv, ConsoleType, Stages
  <2>5. \A c \in Branches : /\ creates'[c].visit = creates[c].visit
                            /\ Pending(c)' => Pending(c)
                            /\ Pending(c) /\ c # b => Pending(c)'
    BY <1>1 DEF IInv, ConsoleType, Pending
  <2>6. \A t \in Snapshots : Awaited(t)' => Awaited(t)
    BY <1>1, <2>5 DEF Awaited, UnderWay, Current
  <2>7. trouble[s] # "crossed" => sessions[s].open
    BY <1>1, <1>3, <2>1 DEF IInv, QuietInv, Awaited
  <2>8. ConsoleType' /\ VisitInv'
    BY <1>1, <1>3, <2>2, <2>3, <2>4, <2>5 DEF IInv, ConsoleType, VisitInv, Current
  <2>9. QuietInv'
    BY <2>2, <2>3, <2>6 DEF IInv, QuietInv
  <2>10. NamelessOnlyIfCrossed'
    BY <2>2, <2>3, <2>7 DEF IInv, NamelessOnlyIfCrossed
  <2>11. OwnInv'
    <3> SUFFICES ASSUME NEW t \in Snapshots, trouble'[t] = "calm", sessions'[t].open
                 PROVE  Undisturbed(t)'
      BY DEF OwnInv
    <3>1. CASE t # s
      BY <3>1, <1>1, <2>3, <2>5 DEF IInv, OwnInv, Undisturbed, UnderWay, Current
    <3>2. CASE t = s
      <4>1. /\ trouble[s] = "calm" /\ sessions[s].open /\ new.name = b /\ to = b
            /\ sessions[s].name = b
        BY <3>2, <2>2, <2>3, <2>7
      <4>2. Undisturbed(s)
        BY <4>1, <2>1 DEF IInv, OwnInv
      <4>3. UnderWay(s)' = UnderWay(s)
        BY <1>1 DEF UnderWay
      <4> QED BY <3>2, <4>1, <4>2, <4>3, <1>1, <2>1, <2>3, <2>5 DEF Undisturbed, Current
    <3> QED BY <3>1, <3>2
  <2> QED BY <2>8, <2>9, <2>10, <2>11 DEF IInv
<1> QED BY <1>2, <1>3

-----------------------------------------------------------------------------
(* A list restores sessions of rows without one; of the polls it starts,   *)
(* one that is not of the session of its row disturbs the row.             *)
LEMMA RestoredKeepsIInv == IInv /\ Restored => IInv'
<1> SUFFICES ASSUME IInv, Restored PROVE IInv'
  OBVIOUS
<1>1. UNCHANGED <<visit, mounted, creates, gets>> /\ list.answer # None /\ list' = NoList
  BY DEF Restored, tab
<1>2. list' \in [visit : Nat, answer : OrNone([Branches -> Answers])] /\ list'.visit <= visit
  BY <1>1 DEF NoList, OrNone, IInv, ConsoleType
<1>3. CASE ~Current(list)
  <2>1. UNCHANGED <<visit, mounted, sessions, creates, gets, poll, trouble>>
    BY <1>1, <1>3 DEF Restored
  <2> QED
    BY <1>2, <2>1 DEF IInv, ConsoleType, VisitInv, QuietInv, NamelessOnlyIfCrossed, OwnInv,
         Undisturbed, Awaited, UnderWay, Pending, Current
<1>4. CASE Current(list)
  <2> DEFINE answer == list.answer
  <2>1. PICK first, last \in [Snapshots -> OrNone(Branches)] :
          /\ \A s \in Snapshots : /\ IsFirst(first[s], Listed(answer, s))
                                  /\ IsLast(last[s], Moving(answer, s))
          /\ sessions' = [s \in Snapshots |-> Recovered(s, first[s])]
          /\ poll' = [s \in Snapshots |-> IF last[s] = None THEN poll[s] ELSE last[s]]
          /\ trouble' = [s \in Snapshots |->
               IF trouble[s] = "calm" /\ last[s] \notin {None, Recovered(s, first[s]).name}
               THEN "upset" ELSE trouble[s]]
    BY <1>4 DEF Restored, OrNone
  <2>2. /\ answer \in [Branches -> Answers]
        /\ sessions \in [Snapshots -> EditSession] /\ poll \in [Snapshots -> OrNone(Branches)]
        /\ trouble \in [Snapshots -> {"calm", "upset", "crossed"}]
    BY <1>1 DEF IInv, ConsoleType, OrNone
  <2>3. ASSUME NEW s \in Snapshots
        PROVE  /\ sessions'[s] \in EditSession /\ poll'[s] \in OrNone(Branches)
               /\ trouble'[s] \in {"calm", "upset", "crossed"}
               /\ trouble'[s] = "crossed" <=> trouble[s] = "crossed"
               /\ trouble'[s] = "calm" => /\ trouble[s] = "calm"
                                          /\ last[s] \in {None, sessions'[s].name}
               /\ poll'[s] = IF last[s] = None THEN poll[s] ELSE last[s]
               /\ sessions[s].open => sessions'[s] = sessions[s]
               /\ ~sessions[s].open /\ first[s] # None =>
                    /\ sessions'[s].open /\ sessions'[s].name = first[s]
                    /\ first[s] \in Branches /\ first[s].snap = s
                    /\ sessions'[s].phase # "settled" => last[s] # None
               /\ ~sessions[s].open /\ first[s] = None =>
                    sessions'[s] = sessions[s] /\ last[s] = None
    <3>1. /\ first[s] \in OrNone(Branches) /\ last[s] \in OrNone(Branches)
          /\ IsFirst(first[s], Listed(answer, s)) /\ IsLast(last[s], Moving(answer, s))
          /\ sessions'[s] = Recovered(s, first[s])
          /\ poll'[s] = IF last[s] = None THEN poll[s] ELSE last[s]
          /\ trouble'[s] = IF trouble[s] = "calm" /\ last[s] \notin {None, sessions'[s].name}
                           THEN "upset" ELSE trouble[s]
      BY <2>1
    <3>2. None \notin Branches /\ None \notin Answers
      BY EditAssumption DEF Answers
    <3>3. CASE sessions[s].open
      <4>1. sessions'[s] = sessions[s]
        BY <3>1, <3>3 DEF Recovered
      <4> QED BY <2>2, <3>1, <3>3, <4>1 DEF OrNone
    <3>4. CASE ~sessions[s].open /\ first[s] = None
      <4>1. Listed(answer, s) = {}
        BY <3>1, <3>2, <3>4 DEF IsFirst, Listed
      <4>2. last[s] = None
        BY <3>1, <4>1 DEF IsLast, Moving
      <4>3. sessions'[s] = sessions[s]
        BY <3>1, <3>4 DEF Recovered
      <4> QED BY <2>2, <3>1, <3>4, <4>2, <4>3 DEF OrNone
    <3>5. CASE ~sessions[s].open /\ first[s] # None
      <4>1. first[s] \in Listed(answer, s)
        BY <3>1, <3>5 DEF IsFirst
      <4>2. /\ first[s] \in Branches /\ first[s].snap = s /\ answer[first[s]] \in {"moving", "settled"}
        BY <4>1, <2>2 DEF Listed, Answers
      <4>3. sessions'[s] = [open |-> TRUE, name |-> first[s], phase |-> answer[first[s]]]
        BY <3>1, <3>5 DEF Recovered
      <4>4. /\ sessions'[s] \in EditSession /\ sessions'[s].open /\ sessions'[s].name = first[s]
            /\ sessions'[s].phase = answer[first[s]]
        BY <4>2, <4>3 DEF EditSession, OrNone, Answers
      <4>5. answer[first[s]] # "settled" => last[s] # None
        <5> SUFFICES ASSUME answer[first[s]] # "settled" PROVE last[s] # None
          OBVIOUS
        <5>1. Moving(answer, s) # {}
          BY <4>1, <4>2 DEF Moving
        <5>2. last[s] \in Branches
          BY <3>1, <5>1 DEF IsLast, Moving, Listed
        <5> QED BY <5>2, <3>2
      <4> QED BY <2>2, <3>1, <3>5, <4>2, <4>4, <4>5 DEF OrNone
    <3> QED BY <3>3, <3>4, <3>5
  <2>4. ConsoleType'
    <3>1. /\ sessions' \in [Snapshots -> EditSession] /\ poll' \in [Snapshots -> OrNone(Branches)]
          /\ trouble' \in [Snapshots -> {"calm", "upset", "crossed"}]
      BY <2>1, <2>3
    <3> QED BY <3>1, <1>1, <1>2 DEF IInv, ConsoleType
  <2>5. VisitInv'
    BY <1>1, <1>2, <1>4 DEF IInv, VisitInv, Current
  <2>6. \A t \in Snapshots : Awaited(t)' <=> Awaited(t)
    BY <1>1 DEF Awaited, UnderWay, Pending, Current
  <2>7. QuietInv'
    <3> SUFFICES ASSUME NEW s \in Snapshots, trouble'[s] # "crossed", ~sessions'[s].open
                 PROVE  poll'[s] = None /\ ~Awaited(s)
      BY <2>6 DEF QuietInv
    <3>1. ~sessions[s].open /\ last[s] = None /\ trouble[s] # "crossed"
      BY <2>3
    <3> QED BY <3>1, <2>3 DEF IInv, QuietInv
  <2>8. NamelessOnlyIfCrossed'
    <3> SUFFICES ASSUME NEW s \in Snapshots, sessions'[s].open, sessions'[s].name = None
                 PROVE  trouble'[s] = "crossed"
      BY DEF NamelessOnlyIfCrossed
    <3>1. sessions[s].open /\ sessions[s].name = None
      BY <2>3, EditAssumption
    <3> QED BY <3>1, <2>3 DEF IInv, NamelessOnlyIfCrossed
  <2>9. OwnInv'
    <3> SUFFICES ASSUME NEW s \in Snapshots, trouble'[s] = "calm", sessions'[s].open
                 PROVE  Undisturbed(s)'
      BY DEF OwnInv
    <3>1. trouble[s] = "calm" /\ last[s] \in {None, sessions'[s].name}
      BY <2>3
    <3>2. CASE sessions[s].open
      <4>1. sessions'[s] = sessions[s] /\ poll'[s] \in {poll[s], sessions[s].name}
        BY <3>1, <3>2, <2>3
      <4> QED
        BY <3>1, <3>2, <4>1, <1>1, <2>3 DEF IInv, OwnInv, Undisturbed, UnderWay, Pending, Current
    <3>3. CASE ~sessions[s].open
      <4>1. poll[s] = None /\ ~Awaited(s)
        BY <3>1, <3>3 DEF IInv, QuietInv
      <4>2. \A i \in 1..MaxRequests : gets[s][i].branch = None
        BY <4>1 DEF Awaited, UnderWay, Idle
      <4>3. UnderWay(s)' = {} /\ \A b \in Branches : b.snap = s => ~(Pending(b)' /\ Current(creates[b])')
        BY <4>1, <1>1 DEF Awaited, UnderWay, Pending, Current
      <4>4. /\ sessions'[s].name \in Branches /\ sessions'[s].name.snap = s
            /\ sessions'[s].phase # "settled" => last[s] # None
        BY <3>3, <2>3
      <4>5. poll'[s] = last[s]
        BY <4>1, <2>3
      <4> QED BY <3>1, <4>2, <4>3, <4>4, <4>5, <1>1 DEF Undisturbed
    <3> QED BY <3>2, <3>3
  <2> QED BY <2>4, <2>5, <2>7, <2>8, <2>9 DEF IInv
<1> QED BY <1>3, <1>4

-----------------------------------------------------------------------------
LEMMA NextKeepsIInv == IInv /\ [Next]_vars => IInv'
<1> SUFFICES ASSUME IInv, [Next]_vars PROVE IInv'
  OBVIOUS
<1>1. CASE Mount \/ Unmount
  BY <1>1, VisitsKeepIInv
<1>2. CASE Loaded \/ AnswerList
  BY <1>2, ListKeepsIInv
<1>3. CASE Restored
  BY <1>3, RestoredKeepsIInv
<1>4. ASSUME NEW s \in Snapshots, Open(s) \/ Close(s) \/ Tick(s) PROVE IInv'
  BY <1>4, OpenKeepsIInv, CloseKeepsIInv, TickKeepsIInv
<1>5. ASSUME NEW s \in Snapshots, NEW i \in 1..MaxRequests, AnswerGet(s, i) \/ Got(s, i) PROVE IInv'
  BY <1>5, AnswerGetKeepsIInv, GotKeepsIInv
<1>6. ASSUME NEW b \in Branches, AnswerCreate(b) \/ Created(b) \/ NotCreated(b) PROVE IInv'
  BY <1>6, AnswerCreateKeepsIInv, CreationKeepsIInv
<1>7. ASSUME NEW b \in Branches, AnswerDelete(b) \/ Finish(b) \/ DeletedElsewhere(b) PROVE IInv'
  <2>1. UNCHANGED <<tab, list, rows>>
    BY <1>7 DEF AnswerDelete, Finish, DeletedElsewhere, Become
  <2> QED BY <2>1, RowsKeepIInv
<1>8. CASE UNCHANGED vars
  BY <1>8, RowsKeepIInv DEF vars
<1> QED BY <1>1, <1>2, <1>3, <1>4, <1>5, <1>6, <1>7, <1>8 DEF Next

LEMMA InvariantOfSpec == Spec => []IInv
<1> QED BY InitIInv, NextKeepsIInv, PTL DEF Spec

(* Whatever the number of rows, branches and requests: a session has the   *)
(* name of its branch, so "Close" deletes that branch, unless the row was  *)
(* closed while one of its answers was under way.                          *)
THEOREM SessionsKeepTheirName == Spec => []NamelessOnlyIfCrossed
<1>1. IInv => NamelessOnlyIfCrossed
  BY DEF IInv
<1> QED BY <1>1, InvariantOfSpec, PTL

(* An undisturbed session that says "Starting database..." is waited for.  *)
THEOREM SpinnersArePolled == Spec => []SpinnerIsPolled
<1>1. IInv => SpinnerIsPolled
  BY DEF IInv, OwnInv, Undisturbed, SpinnerIsPolled, Starting
<1> QED BY <1>1, InvariantOfSpec, PTL

-----------------------------------------------------------------------------
(* Every branch opened in this visit has its session, is being deleted,    *)
(* was missed by its DELETE, or is gone for good.                          *)
Accounted(b) ==
    \/ sessions[b.snap].name = b
    \/ b \in deletes \cup missed
    \/ phase[b] \notin Live /\ creates[b].stage # "sent"

ForgetInv ==
    /\ phase \in [Branches -> OrNone({"starting", "settled", "Deleting"})]
    /\ \A b \in Branches : phase[b] # None => creates[b].stage \in {"done", "failed", "over"}
    /\ \A s \in Snapshots : ~sessions[s].open => sessions[s].name = None
    /\ \A b \in Branches :
         mounted /\ creates[b].visit = visit /\ creates[b].stage # "unsent" => Accounted(b)

LEMMA InitForget == Init => ForgetInv
<1> SUFFICES ASSUME Init PROVE ForgetInv
  OBVIOUS
<1>1. phase \in [Branches -> OrNone({"starting", "settled", "Deleting"})] /\ ~mounted
  BY DEF Init, OrNone
<1>2. \A b \in Branches : phase[b] # None => creates[b].stage = "over"
  BY DEF Init, Over
<1>3. \A s \in Snapshots : sessions[s].name = None
  BY DEF Init, NoSession
<1> QED BY <1>1, <1>2, <1>3 DEF ForgetInv

(* The sessions keep their names, or get one where there was none, and the *)
(* creations go on: nothing becomes unaccounted for.                       *)
LEMMA NamesKeepForget ==
    ASSUME IInv, ForgetInv, UNCHANGED <<server, visit, mounted>>,
           \A s \in Snapshots : /\ sessions[s].name # None => sessions'[s].name = sessions[s].name
                                /\ ~sessions'[s].open => sessions'[s].name = None,
           \A b \in Branches : /\ creates'[b].visit = creates[b].visit
                               /\ \/ creates'[b].stage = creates[b].stage
                                  \/ creates[b].stage \in {"done", "failed"} /\ creates'[b].stage = "over"
    PROVE  ForgetInv'
<1>1. \A b \in Branches : b.snap \in Snapshots /\ b # None
  BY EditAssumption DEF Branches
<1> QED BY <1>1 DEF ForgetInv, Accounted, server

(* The phase of one branch changes, or a DELETE for it is answered.        *)
LEMMA ServerKeepsForget ==
    ASSUME IInv, ForgetInv, NEW b \in Branches,
           UNCHANGED <<tab, list, rows>>,
           phase' \in [Branches -> OrNone({"starting", "settled", "Deleting"})],
           \A c \in Branches \ {b} : phase'[c] = phase[c],
           deletes' \cup {b} = deletes \cup {b}, missed' \cup {b} = missed \cup {b},
           phase[b] = None => phase'[b] = None,
           phase[b] \notin Live => phase'[b] \notin Live,
           \/ phase'[b] \notin Live /\ creates[b].stage # "sent"
           \/ b \in deletes' \cup missed'
           \/ UNCHANGED <<deletes, missed>>
    PROVE  ForgetInv'
<1>1. \A c \in Branches \ {b} : (c \in deletes' <=> c \in deletes) /\ (c \in missed' <=> c \in missed)
  OBVIOUS
<1>2. ASSUME NEW c \in Branches, Accounted(c) PROVE Accounted(c)'
  <2>1. CASE c # b
    BY <2>1, <1>1, <1>2 DEF Accounted, rows
  <2>2. CASE c = b
    BY <2>2, <1>2 DEF Accounted, rows
  <2> QED BY <2>1, <2>2
<1> QED BY <1>2 DEF ForgetInv, rows, tab

LEMMA NextKeepsForget == IInv /\ ForgetInv /\ [Next]_vars => ForgetInv'
<1> SUFFICES ASSUME IInv, ForgetInv, [Next]_vars PROVE ForgetInv'
  OBVIOUS
<1> DEFINE Phases == OrNone({"starting", "settled", "Deleting"})
<1>0. /\ sessions \in [Snapshots -> EditSession] /\ creates \in [Branches -> [visit : Nat, stage : Stages]]
      /\ phase \in [Branches -> Phases] /\ visit \in Nat
      /\ None \notin Branches /\ \A b \in Branches : b.snap \in Snapshots
  BY EditAssumption DEF IInv, ConsoleType, ForgetInv, Branches
<1>a. \A s \in Snapshots : ~sessions[s].open => sessions[s].name = None
  BY DEF ForgetInv
<1>1. CASE Mount
  <2>1. \A b \in Branches : creates[b].visit # visit'
    BY <1>0, <1>1 DEF Mount, IInv, VisitInv
  <2> QED BY <2>1, <1>1 DEF Mount, ForgetInv, server, rows
<1>2. CASE Unmount
  <2>1. ~mounted' /\ UNCHANGED <<phase, creates>> /\ \A s \in Snapshots : sessions'[s].name = None
    BY <1>2 DEF Unmount, NoSession
  <2> QED BY <2>1 DEF ForgetInv
<1>3. CASE Loaded \/ AnswerList
  <2>1. UNCHANGED <<server, visit, mounted, sessions, creates>>
    BY <1>3 DEF Loaded, AnswerList, tab, rows
  <2> QED BY <2>1, <1>a, NamesKeepForget
<1>4. CASE Restored
  <2>1. UNCHANGED <<server, visit, mounted, creates>>
    BY <1>4 DEF Restored, tab
  <2>2. \A s \in Snapshots : sessions'[s] = sessions[s]
           \/ (~sessions[s].open /\ sessions'[s].open)
    BY <1>4 DEF Restored, Recovered
  <2>3. \A s \in Snapshots : /\ sessions[s].name # None => sessions'[s].name = sessions[s].name
                             /\ ~sessions'[s].open => sessions'[s].name = None
    BY <2>2 DEF ForgetInv
  <2> QED BY <2>1, <2>3, NamesKeepForget
<1>5. ASSUME NEW s \in Snapshots,
             Tick(s) \/ \E i \in 1..MaxRequests : AnswerGet(s, i)
      PROVE  ForgetInv'
  <2>1. UNCHANGED <<server, visit, mounted, sessions, creates>>
    BY <1>5 DEF Tick, AnswerGet, tab
  <2> QED BY <2>1, <1>a, NamesKeepForget
<1>6. ASSUME NEW s \in Snapshots, NEW i \in 1..MaxRequests, Got(s, i)
      PROVE  ForgetInv'
  <2> DEFINE new == WithBranch(sessions[s], gets[s][i].answer)
  <2>1. UNCHANGED <<server, visit, mounted, creates>>
        /\ (UNCHANGED sessions \/ sessions' = [sessions EXCEPT ![s] = new])
    BY <1>6 DEF Got, tab, Session
  <2>2. new.open /\ new.name = sessions[s].name
    BY <1>0 DEF WithBranch, EditSession
  <2> HIDE DEF new
  <2>3. \A t \in Snapshots : sessions'[t].name = sessions[t].name
                             /\ (sessions[t].open => sessions'[t].open)
    BY <1>0, <2>1, <2>2
  <2>4. \A t \in Snapshots : ~sessions'[t].open => sessions'[t].name = None
    BY <2>3 DEF ForgetInv
  <2> QED BY <2>1, <2>3, <2>4, NamesKeepForget
<1>7. ASSUME NEW s \in Snapshots, Open(s) PROVE ForgetInv'
  <2>1. UNCHANGED <<server, visit, mounted>> /\ ~sessions[s].open
    BY <1>7 DEF Open, tab
  <2>2. PICK b \in Branches :
          /\ b.snap = s
          /\ \A c \in Branches : c.snap = s => (creates[c] # NotSent <=> c.no < b.no)
          /\ creates' = [creates EXCEPT ![b] = [visit |-> visit, stage |-> "sent"]]
          /\ sessions' = [sessions EXCEPT ![s] = [NoSession EXCEPT !.open = TRUE, !.name = b]]
    BY <1>7 DEF Open, Session
  <2> DEFINE new == [NoSession EXCEPT !.open = TRUE, !.name = b]
  <2>3. new.open /\ new.name = b
    BY DEF NoSession
  <2> HIDE DEF new
  <2>4. /\ sessions'[s] = new /\ \A t \in Snapshots \ {s} : sessions'[t] = sessions[t]
        /\ creates'[b].stage = "sent" /\ \A c \in Branches \ {b} : creates'[c] = creates[c]
    <3>1. sessions' = [sessions EXCEPT ![s] = new]
      BY <2>2 DEF new
    <3> QED BY <3>1, <2>2, <1>0
  <2>5. phase[b] = None
    <3>1. b.no \in Nat
      BY EditAssumption DEF Branches
    <3>2. creates[b] = NotSent
      BY <2>2, <3>1
    <3> QED BY <3>2 DEF ForgetInv, NotSent
  <2>6. ASSUME NEW c \in Branches, c # b, Accounted(c) PROVE Accounted(c)'
    <3>1. CASE c.snap = s
      <4>1. sessions[s].name # c
        BY <2>1, <3>1, <1>0 DEF ForgetInv
      <4> QED BY <4>1, <2>1, <2>4, <2>6, <3>1 DEF Accounted, server
    <3>2. CASE c.snap # s
      BY <3>2, <2>1, <2>4, <2>6, <1>0 DEF Accounted, server
    <3> QED BY <3>1, <3>2
  <2>7. Accounted(b)'
    BY <2>2, <2>3, <2>4 DEF Accounted
  <2> QED BY <2>1, <2>2, <2>3, <2>4, <2>5, <2>6, <2>7, <1>0 DEF ForgetInv, server
<1>8. ASSUME NEW s \in Snapshots, Close(s) PROVE ForgetInv'
  <2>1. /\ UNCHANGED <<phase, missed, visit, mounted, creates>>
        /\ sessions' = [sessions EXCEPT ![s] = NoSession]
        /\ deletes' = deletes \cup ({sessions[s].name} \ {None})
    BY <1>8 DEF Close, Session, tab
  <2>2. sessions'[s].name = None /\ \A t \in Snapshots \ {s} : sessions'[t] = sessions[t]
    BY <2>1, <1>0 DEF NoSession
  <2>3. ASSUME NEW b \in Branches, Accounted(b) PROVE Accounted(b)'
    BY <2>1, <2>2, <2>3, <1>0 DEF Accounted
  <2> QED BY <2>1, <2>2, <2>3 DEF ForgetInv
<1>9. ASSUME NEW b \in Branches, AnswerCreate(b) PROVE ForgetInv'
  <2>1. /\ UNCHANGED <<deletes, missed, visit, mounted, sessions>> /\ creates[b].stage = "sent"
        /\ phase' \in {phase, [phase EXCEPT ![b] = "starting"]}
    BY <1>9 DEF AnswerCreate, tab
  <2>2. PICK to \in {"done", "failed"} : creates' = [creates EXCEPT ![b].stage = to]
    BY <1>9 DEF AnswerCreate
  <2>3. /\ creates'[b].visit = creates[b].visit /\ creates'[b].stage \in {"done", "failed"}
        /\ \A c \in Branches \ {b} : creates'[c] = creates[c] /\ phase'[c] = phase[c]
        /\ phase' \in [Branches -> Phases]
    BY <2>1, <2>2, <1>0 DEF OrNone
  <2>4. phase[b] = None
    BY <2>1 DEF ForgetInv
  <2>5. ASSUME NEW c \in Branches, Accounted(c) PROVE Accounted(c)'
    <3>1. CASE c = b
      BY <3>1, <2>1, <2>5 DEF Accounted
    <3>2. CASE c # b
      BY <3>2, <2>1, <2>3, <2>5 DEF Accounted
    <3> QED BY <3>1, <3>2
  <2> QED BY <2>1, <2>3, <2>4, <2>5 DEF ForgetInv
<1>10. ASSUME NEW b \in Branches, Created(b) \/ NotCreated(b) PROVE ForgetInv'
  <2> DEFINE s == b.snap
  <2>1. /\ UNCHANGED <<server, visit, mounted>> /\ creates[b].stage \in {"done", "failed"}
        /\ creates' = [creates EXCEPT ![b].stage = "over"]
        /\ \/ UNCHANGED sessions
           \/ sessions' = [sessions EXCEPT ![s] = WithBranch(sessions[s], "moving")]
           \/ sessions' = [sessions EXCEPT ![s] = WithError(sessions[s])]
    BY <1>10 DEF Created, NotCreated, tab, Session
  <2>2. /\ WithBranch(sessions[s], "moving").open /\ WithBranch(sessions[s], "moving").name = sessions[s].name
        /\ WithError(sessions[s]).open /\ WithError(sessions[s]).name = sessions[s].name
    BY <1>0 DEF WithBranch, WithError, EditSession
  <2>3. \A t \in Snapshots : sessions'[t].name = sessions[t].name
                             /\ (sessions[t].open => sessions'[t].open)
    BY <1>0, <2>1, <2>2
  <2>4. \A t \in Snapshots : ~sessions'[t].open => sessions'[t].name = None
    BY <2>3 DEF ForgetInv
  <2>5. \A c \in Branches : /\ creates'[c].visit = creates[c].visit
                            /\ \/ creates'[c].stage = creates[c].stage
                               \/ creates[c].stage \in {"done", "failed"} /\ creates'[c].stage = "over"
    BY <1>0, <2>1
  <2> QED BY <2>1, <2>3, <2>4, <2>5, NamesKeepForget
<1>11. ASSUME NEW b \in Branches, AnswerDelete(b) PROVE ForgetInv'
  <2>1. UNCHANGED <<tab, list, rows>> /\ b \in deletes /\ deletes' = deletes \ {b}
    BY <1>11 DEF AnswerDelete
  <2>2. /\ phase' = phase \/ (phase[b] \in Live /\ phase' = [phase EXCEPT ![b] = "Deleting"])
        /\ missed' \in {missed, missed \cup {b}, missed \ {b}}
        /\ (phase'[b] \notin Live /\ creates[b].stage # "sent") \/ b \in missed'
    <3>1. phase[b] \in Live => creates[b].stage # "sent"
      BY <1>0, EditAssumption DEF ForgetInv, Live
    <3> QED BY <3>1, <1>11, <1>0 DEF AnswerDelete, Live
  <2>3. /\ phase' \in [Branches -> Phases] /\ \A c \in Branches \ {b} : phase'[c] = phase[c]
        /\ (phase[b] = None => phase'[b] = None) /\ (phase[b] \notin Live => phase'[b] \notin Live)
    BY <2>2, <1>0, EditAssumption DEF OrNone, Live
  <2> QED BY <2>1, <2>2, <2>3, ServerKeepsForget
<1>12. ASSUME NEW b \in Branches, Finish(b) \/ DeletedElsewhere(b) PROVE ForgetInv'
  <2>1. PICK from \in {"starting", "settled", "Deleting"}, to \in {None, "settled", "Deleting"} :
          Become(b, from, to) /\ (to \in Live => from \in Live)
    BY <1>12, EditAssumption DEF Finish, DeletedElsewhere, Live
  <2>2. /\ UNCHANGED <<deletes, tab, list, rows>> /\ phase[b] = from
        /\ phase' = [phase EXCEPT ![b] = to]
        /\ missed' = IF to \in Live THEN missed ELSE missed \ {b}
    BY <2>1 DEF Become
  <2>3. creates[b].stage # "sent"
    BY <2>2, EditAssumption DEF ForgetInv
  <2> QED
    BY <2>1, <2>2, <2>3, <1>0, EditAssumption, ServerKeepsForget DEF OrNone, Live
<1>13. CASE UNCHANGED vars
  <2>1. UNCHANGED <<server, visit, mounted, sessions, creates>>
    BY <1>13 DEF vars, server, tab, rows
  <2> QED BY <2>1, <1>a, NamesKeepForget
<1> QED
  BY <1>1, <1>2, <1>3, <1>4, <1>5, <1>6, <1>7, <1>8, <1>9, <1>10, <1>11, <1>12, <1>13 DEF Next

(* Whatever the numbers and the order of the answers: no branch opened in  *)
(* this visit is left running without its session, unless its DELETE       *)
(* failed or overtook the creation.                                        *)
THEOREM ClosedBranchesAreDeleted == Spec => []ForgottenOnlyIfMissed
<1>1. ForgetInv => ForgottenOnlyIfMissed
  <2> SUFFICES ASSUME ForgetInv, NEW b \in Branches,
                      mounted, creates[b].visit = visit, phase[b] \in Live, b \notin deletes,
                      \A s \in Snapshots : sessions[s].name # b
               PROVE  b \in missed
    BY DEF ForgottenOnlyIfMissed
  <2>1. phase[b] # None /\ b.snap \in Snapshots
    BY EditAssumption DEF Live, Branches
  <2>2. creates[b].stage \in {"done", "failed", "over"}
    BY <2>1 DEF ForgetInv
  <2>3. Accounted(b)
    BY <2>2 DEF ForgetInv
  <2> QED BY <2>1, <2>3 DEF Accounted
<1> QED
  BY <1>1, InitForget, NextKeepsForget, InitIInv, NextKeepsIInv, PTL DEF Spec
=============================================================================
