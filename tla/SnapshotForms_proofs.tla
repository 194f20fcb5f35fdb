------------------------ MODULE SnapshotForms_proofs ------------------------
(***************************************************************************)
(* Proofs about SnapshotForms for every set of types and names, any number *)
(* of lists under way and any number of faults. The inductive invariant    *)
(* says what the lists under way are of while the type is "calm", and what *)
(* the request under way stands for.                                       *)
(***************************************************************************)
EXTENDS SnapshotForms, TLAPS

Lists == [type : Types, stage : {"sent", "ok", "failed", "unavailable"}, rows : SUBSET Snapshots]

Orders == [op : {"none", "create", "take", "overwrite", "delete", "reset"},
           type : Types \cup {None}, name : Names \cup {None},
           meant : SUBSET Snapshots, load : Types \cup {None},
           stage : {"idle", "sent", "checked", "unchecked", "done", "failed"},
           here : BOOLEAN]

(* Types, and rows that are of the type they were asked for.               *)
FormsType ==
    /\ snaps \subseteq Snapshots
    /\ page \in {"none", "form", "list"} /\ type \in Types
    /\ rows \subseteq Snapshots /\ ref \in Names \cup {None}
    /\ target \in Names \cup {None}
    /\ lists \subseteq Lists
    /\ \A l \in lists : \A s \in l.rows : s.type = l.type
    /\ order \in Orders
    /\ order.op \in {"create", "take", "overwrite", "delete"} => Wanted \in Snapshots
    /\ order.here => order.load \in Types
    /\ calm \in BOOLEAN

(* While a calm form waits for its list, which is the only one, nothing is *)
(* selected; what is selected is of the type and of the list.              *)
FormInv ==
    page = "form" /\ calm =>
        /\ \A l \in lists : l.type = type /\ lists = {l}
        /\ lists # {} => ref = None
        /\ ref # None => Snapshot(type, ref) \in rows
        /\ \A s \in rows : s.type = type

(* All that is under way on a calm tab is of the type selected.            *)
TabInv ==
    page = "list" /\ calm =>
        /\ \A l \in lists : l.type = type
        /\ order.here => order.load = type
        /\ listed = type \/ lists # {}

(* A request that will be heard belongs to the page that is shown.         *)
HereInv ==
    /\ order.here => page # "none" /\ (order.op = "create" <=> page = "form")
    /\ modal # "closed" => page = "list"
    /\ page = "none" => lists = {} /\ rows = {} /\ ref = None

(* What was looked up is there or excused.                                 *)
CheckedInv == order.stage = "checked" => Wanted \in snaps \cup excused

MeantInv == order.op = "delete" => order.meant = {Wanted}

IInv == FormsType /\ FormInv /\ TabInv /\ HereInv
SInv == FormsType /\ BranchHasSnapshot /\ CheckedInv
DInv == FormsType /\ MeantInv

-----------------------------------------------------------------------------
LEMMA RecordOf ==
    ASSUME NEW s \in Snapshots
    PROVE  s = Snapshot(s.type, s.name)
BY DEF Snapshots, Snapshot

LEMMA TypeInit == Init => FormsType
BY FormsAssumption DEF Init, FormsType, NoOrder, Orders, Wanted, Snapshot, Snapshots

(* Pages and lists keep the types.                                         *)
LEMMA TypeOfPages ==
    ASSUME FormsType,
           \/ \E p \in {"form", "list"} : Mount(p)
           \/ \E t \in Types : SelectType(t) \/ SelectFilter(t)
           \/ Leave \/ Refresh
    PROVE  FormsType'
<1> USE FormsAssumption
<1>1. \A t \in Types : List(t) \in Lists /\ List(t).rows = {}
  BY DEF List, Lists
<1>2. CASE \E p \in {"form", "list"} : Mount(p)
  BY <1>1, <1>2 DEF Mount, FormsType, server, take, Wanted
<1>3. CASE \E t \in Types : SelectType(t)
  BY <1>1, <1>3 DEF SelectType, Ask, FormsType, server, take, Wanted
<1>4. CASE \E t \in Types : SelectFilter(t)
  BY <1>1, <1>4 DEF SelectFilter, Ask, FormsType, server, take, Wanted
<1>5. CASE Leave
  BY <1>5 DEF Leave, Gone, FormsType, server, Orders, Wanted
<1>6. CASE Refresh
  BY <1>1, <1>6 DEF Refresh, Ask, FormsType, server, screen, take, Wanted
<1>. QED BY <1>2, <1>3, <1>4, <1>5, <1>6

(* An answer is of the type it was asked for, and so are the rows.         *)
LEMMA TypeOfLists ==
    ASSUME FormsType, NEW list \in lists, AnswerList(list) \/ Listed(list)
    PROVE  FormsType'
<1>1. list \in Lists /\ \A s \in list.rows : s.type = list.type
  BY DEF FormsType
<1>2. CASE AnswerList(list)
  <2>1. OfType(list.type) \subseteq Snapshots /\ \A s \in OfType(list.type) : s.type = list.type
    BY DEF OfType, FormsType
  <2>2. \A stage \in {"ok", "failed", "unavailable"}, answer \in {OfType(list.type), {}} :
           LET new == [list EXCEPT !.stage = stage, !.rows = answer]
           IN  new \in Lists /\ \A s \in new.rows : s.type = new.type
    BY <1>1, <2>1 DEF Lists
  <2>3. lists' \subseteq Lists /\ \A l \in lists' : \A s \in l.rows : s.type = l.type
    BY <1>2, <2>2 DEF AnswerList, FormsType
  <2>. QED BY <1>2, <2>3 DEF AnswerList, FormsType, server, screen, take, Wanted
<1>3. CASE Listed(list)
  <2>1. list.rows \subseteq Snapshots /\ \A s \in list.rows : s.name \in Names
    BY <1>1 DEF Lists, Snapshots
  <2>2. /\ rows' \subseteq Snapshots /\ ref' \in Names \cup {None} /\ calm' \in BOOLEAN
    BY <1>3, <2>1 DEF Listed, ListedForm, ListedTab, FormsType
  <2>. QED BY <1>3, <2>2 DEF Listed, FormsType, server, take, Wanted
<1>. QED BY <1>2, <1>3

(* What the user chooses and asks for.                                     *)
LEMMA TypeOfRequests ==
    ASSUME FormsType,
           \/ \E n \in Names : Pick(n) \/ PickTarget(n)
           \/ \E s \in rows : Delete(s)
           \/ Create \/ Reset \/ OpenTake \/ CloseTake \/ Take
    PROVE  FormsType'
<1> DEFINE Fits(o) ==
       /\ o \in Orders
       /\ o.op \in {"create", "take", "overwrite", "delete"} => Snapshot(o.type, o.name) \in Snapshots
       /\ o.load \in Types
<1>1. ASSUME NEW op \in {"create", "take", "overwrite", "delete", "reset"}, NEW t \in Types,
             NEW n \in Names, NEW meant \in SUBSET Snapshots
      PROVE  Fits(Order(op, t, n, meant))
  BY DEF Order, Orders, FormsType, Snapshot, Snapshots
<1>2. \A n : Named(n) \in SUBSET Snapshots
  BY DEF Named, FormsType
<1>3. CASE \E n \in Names : Pick(n) \/ PickTarget(n)
  BY <1>3 DEF Pick, PickTarget, FormsType, server, screen, take, Wanted
<1>4. CASE \E s \in rows : Delete(s)
  <2>1. PICK s \in rows : Delete(s) BY <1>4
  <2>2. s \in Snapshots /\ s.type \in Types /\ s.name \in Names BY DEF FormsType, Snapshots
  <2>3. Fits(order') BY <1>1, <2>1, <2>2 DEF Delete, Give
  <2>. QED BY <2>1, <2>3 DEF Delete, FormsType, server, screen, take, Wanted
<1>5. CASE Create
  <2>1. ref \in Names BY <1>5 DEF Create, CanCreate, FormsType
  <2>2. Fits(order') BY <1>1, <1>2, <1>5, <2>1 DEF Create, Give, FormsType
  <2>. QED BY <1>5, <2>2 DEF Create, FormsType, server, screen, take, Wanted
<1>6. CASE Reset
  <2>1. Fits(order') BY <1>6 DEF Reset, Give, FormsType, Order, Orders
  <2>. QED BY <1>6, <2>1 DEF Reset, FormsType, server, screen, take, Wanted
<1>7. CASE OpenTake \/ CloseTake
  <2>1. target' \in Names \cup {None}
    BY <1>7 DEF OpenTake, CloseTake, FormsType, Snapshots
  <2>. QED BY <1>7, <2>1 DEF OpenTake, CloseTake, FormsType, server, screen, Wanted
<1>8. CASE Take
  <2>1. target # None => target \in Names BY DEF FormsType
  <2>2. Fits(order')
    <3>1. CASE \E n \in Names : Give(Order("take", type, n, {}))
      BY <1>1, <3>1 DEF Give, FormsType
    <3>2. CASE target # None /\ Give(Order("overwrite", type, target, Named(target)))
      BY <1>1, <1>2, <2>1, <3>2 DEF Give, FormsType
    <3>. QED BY <1>8, <3>1, <3>2 DEF Take
  <2>. QED BY <1>8, <2>2 DEF Take, FormsType, server, screen, Wanted
<1>. QED BY <1>3, <1>4, <1>5, <1>6, <1>7, <1>8

(* The server changes the stage of the request and nothing else of it.     *)
LEMMA TypeOfServer ==
    ASSUME FormsType, Check \/ AnswerCreate \/ AnswerTake \/ AnswerDelete \/ AnswerReset
    PROVE  /\ FormsType'
           /\ UNCHANGED <<screen, take, lists, calm>>
           /\ order' \in {[order EXCEPT !.stage = st] :
                             st \in {"checked", "unchecked", "done", "failed"}}
<1>1. /\ UNCHANGED <<screen, take, lists, calm>>
      /\ order' \in {[order EXCEPT !.stage = st] :
                        st \in {"checked", "unchecked", "done", "failed"}}
  BY DEF Check, AnswerCreate, AnswerTake, AnswerDelete, AnswerReset, Done, Fails
<1>2. /\ order' \in Orders /\ order'.op = order.op /\ Wanted' = Wanted
      /\ order'.here = order.here /\ order'.load = order.load
  BY <1>1 DEF Orders, FormsType, Wanted, Snapshot
<1>3. snaps' \subseteq Snapshots
  BY DEF Check, AnswerCreate, AnswerTake, AnswerDelete, AnswerReset, Lose, FormsType, server
<1>. QED BY <1>1, <1>2, <1>3 DEF FormsType, screen, take

(* The end of a request: what it does to the page that is shown.           *)
LEMMA TypeOfEnds ==
    ASSUME FormsType, Succeeded \/ Refused \/ Elsewhere
    PROVE  FormsType'
<1> USE FormsAssumption
<1>1. NoOrder \in Orders /\ NoOrder.op = "none" /\ ~NoOrder.here
  BY DEF NoOrder, Orders
<1>2. CASE Succeeded
  <2>1. order' = NoOrder /\ UNCHANGED server BY <1>2 DEF Succeeded
  <2>2. CASE ~order.here
    BY <1>1, <1>2, <2>1, <2>2 DEF Succeeded, FormsType, server, screen, take, Wanted
  <2>3. CASE order.here /\ order.op = "create"
    BY <1>1, <1>2, <2>1, <2>3 DEF Succeeded, Gone, FormsType, server, Wanted
  <2>4. CASE order.here /\ order.op # "create"
    <3>1. /\ Ask(order.load) /\ UNCHANGED <<screen, calm>>
          /\ target' \in Names \cup {None}
      BY <1>2, <2>4 DEF Succeeded, FormsType, take
    <3>2. List(order.load) \in Lists
      BY <2>4 DEF List, Lists, FormsType
    <3>3. lists' \subseteq Lists /\ \A l \in lists' : \A s \in l.rows : s.type = l.type
      <4>1. List(order.load).rows = {} BY DEF List
      <4>. QED BY <3>1, <3>2, <4>1 DEF Ask, FormsType
    <3>. QED BY <1>1, <2>1, <3>1, <3>3 DEF FormsType, server, screen
  <2>. QED BY <2>2, <2>3, <2>4 DEF FormsType, Orders
<1>3. CASE Refused
  BY <1>1, <1>3 DEF Refused, FormsType, server, screen, Wanted
<1>4. CASE Elsewhere
  BY <1>4 DEF Elsewhere, Lose, FormsType, screen, take, Wanted
<1>. QED BY <1>2, <1>3, <1>4

LEMMA TypeStep == FormsType /\ [Next]_vars => FormsType'
<1> SUFFICES ASSUME FormsType, [Next]_vars PROVE FormsType'
  OBVIOUS
<1>1. CASE Next
  BY <1>1, TypeOfPages, TypeOfLists, TypeOfRequests, TypeOfServer, TypeOfEnds DEF Next
<1>2. CASE UNCHANGED vars
  BY <1>2 DEF vars, server, screen, take, FormsType, Wanted
<1>. QED BY <1>1, <1>2

-----------------------------------------------------------------------------
(* The form and the tab.                                                   *)

LEMMA InitIInv == Init => IInv
BY TypeInit DEF Init, IInv, FormInv, TabInv, HereInv, NoOrder

(* Pages: nothing is under way when a page is mounted, and a type that is  *)
(* selected while something is under way is not calm.                      *)
LEMMA PagesKeepIInv ==
    ASSUME IInv,
           \/ \E p \in {"form", "list"} : Mount(p)
           \/ \E t \in Types : SelectType(t) \/ SelectFilter(t)
           \/ Leave \/ Refresh
    PROVE  FormInv' /\ TabInv' /\ HereInv'
<1> USE DEF IInv, FormInv, TabInv, HereInv
<1>1. CASE \E p \in {"form", "list"} : Mount(p)
  BY <1>1 DEF Mount, List, server, take
<1>2. CASE \E t \in Types : SelectType(t)
  <2>1. PICK t \in Types : SelectType(t) BY <1>2
  <2>2. /\ page = "form" /\ page' = "form" /\ type' = t /\ ref' = None /\ rows' = {}
        /\ lists' = lists \cup {List(t)} /\ calm' = (lists = {})
        /\ UNCHANGED <<order, take>>
    BY <2>1 DEF SelectType, Ask
  <2>3. List(t).type = t BY DEF List
  <2>4. CASE lists = {}
    <3>1. lists' = {List(t)} BY <2>2, <2>4
    <3>. QED BY <2>2, <2>3, <3>1 DEF take
  <2>5. CASE lists # {}
    <3>1. calm' = FALSE BY <2>2, <2>5
    <3>. QED BY <2>2, <3>1 DEF take
  <2>. QED BY <2>4, <2>5
<1>3. CASE \E t \in Types : SelectFilter(t)
  <2>1. PICK t \in Types : SelectFilter(t) BY <1>3
  <2>2. /\ page = "list" /\ page' = "list" /\ type' = t
        /\ lists' = lists \cup {List(t)} /\ calm' = (lists = {} /\ ~order.here)
        /\ UNCHANGED <<order, take, rows, ref>>
    BY <2>1 DEF SelectFilter, Clickable, Ask
  <2>3. List(t).type = t BY DEF List
  <2>4. CASE lists = {} /\ ~order.here
    <3>1. lists' = {List(t)} BY <2>2, <2>4
    <3>. QED BY <2>2, <2>3, <2>4, <3>1 DEF take
  <2>5. CASE ~(lists = {} /\ ~order.here)
    <3>1. calm' = FALSE BY <2>2, <2>5
    <3>. QED BY <2>2, <3>1 DEF take
  <2>. QED BY <2>4, <2>5
<1>4. CASE Leave
  BY <1>4, FormsAssumption DEF Leave, Gone, server, FormsType, Orders
<1>5. CASE Refresh
  BY <1>5 DEF Refresh, Clickable, Ask, List, server, screen, take
<1>. QED BY <1>1, <1>2, <1>3, <1>4, <1>5

LEMMA ListsKeepIInv ==
    ASSUME IInv, NEW list \in lists, AnswerList(list) \/ Listed(list)
    PROVE  FormInv' /\ TabInv' /\ HereInv'
<1> USE DEF IInv, FormInv, TabInv, HereInv
<1>0. list \in Lists /\ \A s \in list.rows : s.type = list.type /\ s \in Snapshots
  BY DEF FormsType, Lists
<1>1. CASE AnswerList(list)
  <2>1. PICK new : lists' = (lists \ {list}) \cup {new} /\ new.type = list.type
    BY <1>0, <1>1 DEF AnswerList, Lists
  <2>. QED BY <1>1, <2>1 DEF AnswerList, server, screen, take, Snapshot
<1>2. CASE Listed(list) /\ page = "form"
  <2>1. CASE ~calm
    BY <1>2, <2>1 DEF Listed, ListedForm, ListedTab, server, take
  <2>2. CASE calm
    <3>1. lists' = {} /\ ref = None /\ list.type = type
      BY <1>2, <2>2 DEF Listed
    <3>2. CASE list.stage = "ok" /\ list.rows # {}
      <4>1. ref' \in {s.name : s \in list.rows} /\ rows' = list.rows /\ UNCHANGED <<type, order, page, take>>
        BY <1>2, <3>2 DEF Listed, ListedForm, ListedTab
      <4>2. PICK s \in list.rows : ref' = s.name BY <4>1
      <4>3. Snapshot(type, ref') \in rows'
        BY <1>0, <3>1, <4>1, <4>2, RecordOf
      <4>4. \A row \in rows' : row.type = type' BY <1>0, <3>1, <4>1
      <4>. QED BY <1>2, <3>1, <4>1, <4>3, <4>4 DEF Snapshot, take
    <3>3. CASE ~(list.stage = "ok" /\ list.rows # {})
      BY <1>2, <3>1, <3>3 DEF Listed, ListedForm, ListedTab, take
    <3>. QED BY <3>2, <3>3
  <2>. QED BY <2>1, <2>2 DEF FormsType
<1>3. CASE Listed(list) /\ page # "form"
  BY <1>3 DEF Listed, ListedForm, ListedTab, server, take
<1>. QED BY <1>1, <1>2, <1>3

LEMMA RequestsKeepIInv ==
    ASSUME IInv,
           \/ \E n \in Names : Pick(n) \/ PickTarget(n)
           \/ \E s \in rows : Delete(s)
           \/ Create \/ Reset \/ OpenTake \/ CloseTake \/ Take
    PROVE  FormInv' /\ TabInv' /\ HereInv'
<1> USE DEF IInv, FormInv, TabInv, HereInv
<1>1. CASE \E n \in Names : Pick(n)
  <2>1. PICK n \in Names : Pick(n) BY <1>1
  <2>2. PICK s \in rows : s.name = n BY <2>1 DEF Pick, Named
  <2>3. s = Snapshot(s.type, n) BY <2>2, RecordOf DEF FormsType
  <2>4. calm => Snapshot(type, n) \in rows BY <2>1, <2>2, <2>3 DEF Pick, CanCreate
  <2>5. /\ page = "form" /\ ref # None /\ ref' = n
        /\ UNCHANGED <<page, type, rows, lists, order, calm, take>>
    BY <2>1 DEF Pick, CanCreate
  <2>. QED BY <2>4, <2>5 DEF Snapshot, take
<1>2. CASE \E n \in Names : PickTarget(n)
  BY <1>2 DEF PickTarget, server, screen
<1>3. CASE \E s \in rows : Delete(s)
  BY <1>3 DEF Delete, Clickable, Give, Order, server, screen, take
<1>4. CASE Create
  BY <1>4 DEF Create, CanCreate, Give, Order, server, screen, take
<1>5. CASE Reset
  BY <1>5 DEF Reset, Clickable, Give, Order, server, screen, take
<1>6. CASE OpenTake \/ CloseTake
  BY <1>6 DEF OpenTake, CloseTake, Clickable, server, screen
<1>7. CASE Take
  BY <1>7 DEF Take, Give, Order, server, screen
<1>. QED BY <1>1, <1>2, <1>3, <1>4, <1>5, <1>6, <1>7

(* The server touches neither page; what ends is heard by its own page.    *)
LEMMA AnswersKeepIInv ==
    ASSUME IInv,
           \/ Check \/ AnswerCreate \/ AnswerTake \/ AnswerDelete \/ AnswerReset
           \/ Succeeded \/ Refused \/ Elsewhere
    PROVE  FormInv' /\ TabInv' /\ HereInv'
<1> USE DEF IInv, FormInv, TabInv, HereInv
<1>1. CASE Check \/ AnswerCreate \/ AnswerTake \/ AnswerDelete \/ AnswerReset
  <2>1. /\ UNCHANGED <<screen, take, lists, calm>>
        /\ order'.here = order.here /\ order'.op = order.op /\ order'.load = order.load
    BY <1>1, TypeOfServer DEF FormsType, Orders
  <2>. QED BY <2>1 DEF screen, take, Snapshot
<1>2. CASE Succeeded /\ ~order.here
  BY <1>2 DEF Succeeded, NoOrder, server, screen, take, Snapshot
<1>3. CASE Succeeded /\ order.here /\ order.op = "create"
  BY <1>3 DEF Succeeded, Gone, NoOrder, server
<1>4. CASE Succeeded /\ order.here /\ order.op # "create"
  <2>1. /\ page = "list" /\ UNCHANGED <<screen, calm>> /\ order' = NoOrder
        /\ lists' = lists \cup {List(order.load)}
        /\ modal' = "closed" \/ modal' = modal
    BY <1>4 DEF Succeeded, Ask, take, FormsType
  <2>. QED BY <1>4, <2>1 DEF NoOrder, List, screen
<1>5. CASE Refused
  BY <1>5 DEF Refused, NoOrder, server, screen, Snapshot
<1>6. CASE Elsewhere
  BY <1>6 DEF Elsewhere, screen, take, Snapshot
<1>. QED BY <1>1, <1>2, <1>3, <1>4, <1>5, <1>6

LEMMA StepIInv == IInv /\ [Next]_vars => IInv'
<1> SUFFICES ASSUME IInv, [Next]_vars PROVE IInv'
  OBVIOUS
<1>1. FormsType' BY TypeStep DEF IInv
<1>2. CASE Next
  BY <1>1, <1>2, PagesKeepIInv, ListsKeepIInv, RequestsKeepIInv, AnswersKeepIInv DEF Next, IInv
<1>3. CASE UNCHANGED vars
  BY <1>1, <1>3 DEF vars, screen, take, IInv, FormInv, TabInv, HereInv, Snapshot
<1>. QED BY <1>2, <1>3

(* What the form offers is of the type it shows (FormOffersItsType), for   *)
(* any number of lists under way: the effect on [dbType] empties the form. *)
THEOREM FormIsOfItsType == Spec => []FormOffersItsType
<1>1. IInv => FormOffersItsType
  BY DEF IInv, FormInv, FormOffersItsType, CanCreate
<1>. QED BY InitIInv, StepIInv, <1>1, PTL DEF Spec

(* The tab shows the list of its filter or waits for it                    *)
(* (ListFollowsFilter): a load keeps the type of the rendering it is from. *)
THEOREM TabIsOfItsFilter == Spec => []ListFollowsFilter
<1>1. IInv => ListFollowsFilter
  BY DEF IInv, TabInv, ListFollowsFilter
<1>. QED BY InitIInv, StepIInv, <1>1, PTL DEF Spec

-----------------------------------------------------------------------------
(* The API server.                                                         *)

LEMMA StepSInv == SInv /\ [Next]_vars => SInv'
<1> SUFFICES ASSUME SInv, [Next]_vars PROVE SInv'
  OBVIOUS
<1>0. FormsType' BY TypeStep DEF SInv
<1> USE DEF SInv, BranchHasSnapshot, CheckedInv
<1>1. CASE /\ UNCHANGED <<snaps, branches, excused>>
           /\ order' = order \/ order'.stage # "checked"
  BY <1>0, <1>1 DEF Wanted
<1>2. CASE \/ \E p \in {"form", "list"} : Mount(p)
           \/ \E t \in Types : SelectType(t) \/ SelectFilter(t)
           \/ \E n \in Names : Pick(n) \/ PickTarget(n)
           \/ \E list \in lists : AnswerList(list) \/ Listed(list)
           \/ Refresh \/ OpenTake \/ CloseTake
  BY <1>1, <1>2 DEF Mount, SelectType, SelectFilter, Pick, PickTarget, AnswerList, Listed,
                    Refresh, OpenTake, CloseTake, server
<1>3. CASE \/ \E s \in rows : Delete(s)
           \/ Create \/ Reset \/ Take \/ Succeeded \/ Refused
  BY <1>1, <1>3 DEF Delete, Create, Reset, Take, Succeeded, Refused, Give, Order, NoOrder, server
<1>4. CASE Leave
  BY <1>0, <1>4 DEF Leave, server, FormsType, Orders, Wanted
<1>5. CASE Check
  BY <1>0, <1>5 DEF Check, Fails, FormsType, Orders, Wanted, server
<1>6. CASE AnswerCreate
  <2>1. order'.stage # "checked" BY <1>6 DEF AnswerCreate, Done, Fails, FormsType, Orders
  <2>2. order.stage = "unchecked" \/ Wanted \in snaps \cup excused BY <1>6 DEF AnswerCreate
  <2>. QED BY <1>0, <1>6, <2>1, <2>2 DEF AnswerCreate
<1>7. CASE AnswerTake \/ AnswerDelete \/ AnswerReset
  <2>1. order'.stage # "checked" /\ branches' \subseteq branches
    BY <1>7 DEF AnswerTake, AnswerDelete, AnswerReset, Done, Fails, FormsType, Orders
  <2>2. snaps \cup excused \subseteq (snaps \cup excused)' \/ branches \subseteq (snaps \cup excused)'
    BY <1>7 DEF AnswerTake, AnswerDelete, AnswerReset, Lose
  <2>. QED BY <1>0, <2>1, <2>2
<1>8. CASE Elsewhere
  BY <1>0, <1>8 DEF Elsewhere, Lose, Wanted
<1>9. CASE UNCHANGED vars
  BY <1>1, <1>9 DEF vars, server
<1>. QED BY <1>2, <1>3, <1>4, <1>5, <1>6, <1>7, <1>8, <1>9 DEF Next

(* A branch made by the form has its snapshot (BranchHasSnapshot): the API *)
(* server looks it up in the type of the branch and then creates.          *)
THEOREM BranchesHaveSnapshots == Spec => []BranchHasSnapshot
<1>1. Init => SInv
  BY TypeInit DEF Init, SInv, BranchHasSnapshot, CheckedInv, NoOrder
<1>2. SInv => BranchHasSnapshot BY DEF SInv
<1>. QED BY <1>1, <1>2, StepSInv, PTL DEF Spec

-----------------------------------------------------------------------------
(* Deletions.                                                              *)

LEMMA StepDInv == DInv /\ [Next]_vars => DInv'
<1> SUFFICES ASSUME DInv, [Next]_vars PROVE DInv'
  OBVIOUS
<1>0. FormsType' BY TypeStep DEF DInv
<1> USE DEF DInv, MeantInv
<1>1. CASE order' = order \/ order'.op # "delete"
  BY <1>0, <1>1 DEF Wanted
<1>2. CASE \E s \in rows : Delete(s)
  <2>1. PICK s \in rows : Delete(s) BY <1>2
  <2>2. s = Snapshot(s.type, s.name) BY RecordOf DEF FormsType
  <2>. QED BY <1>0, <2>1, <2>2 DEF Delete, Give, Order, Wanted
<1>3. CASE Leave \/ Check \/ AnswerCreate \/ AnswerTake \/ AnswerDelete \/ AnswerReset
  <2>1. order'.op = order.op /\ order'.meant = order.meant /\ Wanted' = Wanted
    BY <1>3, TypeOfServer DEF Leave, FormsType, Orders, Wanted, Snapshot
  <2>. QED BY <1>0, <2>1
<1>4. CASE \/ \E p \in {"form", "list"} : Mount(p)
           \/ \E t \in Types : SelectType(t) \/ SelectFilter(t)
           \/ \E n \in Names : Pick(n) \/ PickTarget(n)
           \/ \E list \in lists : AnswerList(list) \/ Listed(list)
           \/ Refresh \/ OpenTake \/ CloseTake \/ Elsewhere
  BY <1>1, <1>4 DEF Mount, SelectType, SelectFilter, Pick, PickTarget, AnswerList, Listed,
                    Refresh, OpenTake, CloseTake, Elsewhere
<1>5. CASE Create \/ Reset \/ Take \/ Succeeded \/ Refused
  BY <1>1, <1>5 DEF Create, Reset, Take, Succeeded, Refused, Give, Order, NoOrder
<1>6. CASE UNCHANGED vars
  BY <1>1, <1>6 DEF vars
<1>. QED BY <1>2, <1>3, <1>4, <1>5, <1>6 DEF Next

(* A deletion takes the snapshot of the row and no other                   *)
(* (DeletesWhatWasConfirmed), whatever the filter is by then.              *)
THEOREM DeletionsHitTheirRow == Spec => DeletesWhatWasConfirmed
<1>1. Init => DInv
  BY TypeInit DEF Init, DInv, MeantInv, NoOrder
<1>2. ASSUME DInv, [Next]_vars
      PROVE  [ order.op = "delete" /\ order.stage = "sent" /\ order'.stage # "sent"
               => snaps \ snaps' \subseteq order.meant ]_vars
  <2> SUFFICES ASSUME Next, order.op = "delete", order.stage = "sent", order'.stage # "sent"
               PROVE  snaps \ snaps' \subseteq order.meant
    BY <1>2
  <2>1. AnswerDelete \/ UNCHANGED snaps \/ Elsewhere
    BY DEF Next, Mount, SelectType, SelectFilter, Pick, PickTarget, AnswerList, Listed, Delete,
           Leave, Refresh, Create, Reset, OpenTake, CloseTake, Take, Check, AnswerCreate,
           AnswerTake, AnswerReset, Succeeded, Refused, server
  <2>2. CASE AnswerDelete
    BY <1>2, <2>2 DEF AnswerDelete, Lose, DInv, MeantInv
  <2>3. CASE Elsewhere
    BY <2>3 DEF Elsewhere
  <2>. QED BY <2>1, <2>2, <2>3
<1>. QED BY <1>1, <1>2, StepDInv, PTL DEF Spec, DeletesWhatWasConfirmed
=============================================================================
