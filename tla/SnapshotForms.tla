---------------------------- MODULE SnapshotForms ----------------------------
(***************************************************************************)
(* Lists of snapshots in the web console and what is done with them        *)
(* (CreateModal, SnapshotsTab and TakeSnapshotModal of App.tsx). A list is *)
(* asked for one database type and answered when the server pleases; the   *)
(* type may be changed meanwhile, no request is ever cancelled, and what   *)
(* is on the screen is what the user chooses from. The API server checks   *)
(* the snapshot of a new branch in one call and creates it in another.     *)
(***************************************************************************)
EXTENDS Naturals, FiniteSets

CONSTANTS
    None,
    Types,      \* database types
    First,      \* the type that is selected first ('mysql')
    Names,      \* names of snapshots, those of the types may be the same
    Base,       \* the one that has no "Delete" ('base')
    MaxLists,   \* bound: lists under way
    MaxChoices, \* bound: pages opened and types selected
    MaxFaults   \* bound: failures, and changes by other clients

ASSUME FormsAssumption ==
    /\ First \in Types /\ Base \in Names /\ None \notin Names \cup Types
    /\ {MaxLists, MaxChoices, MaxFaults} \subseteq Nat

Snapshots == [type : Types, name : Names]

VARIABLES
    snaps,       \* the snapshots there are
    branches,    \* the snapshots of the branches made by the form
    excused,     \* history: those that went later, or were never checked
    page,        \* "none", "form" (CreateModal) or "list" (SnapshotsTab)
    type,        \* the type selected (dbType, dbTypeFilter)
    rows,        \* the list that is shown (snapshots)
    listed,      \* the type it was asked for; None: null, or reset
    ref,         \* the name selected in the form (snapshotRef)
    loading,     \* the form says "Loading snapshots..."
    unavailable, \* snapshotsUnavailable, notConfigured
    modal,       \* TakeSnapshotModal: "closed", "open" or "busy"
    target,      \* the name selected in it (overwriteTarget)
    lists,       \* the lists under way
    order,       \* the request under way that changes something (bound: one)
    calm,        \* history: nothing was under way when the type was selected
    choices,     \* how many pages and types were chosen (bounded)
    faults       \* how many faults have happened (bounded by MaxFaults)

server == <<snaps, branches, excused>>
screen == <<page, type, rows, listed, ref, loading, unavailable>>
take   == <<modal, target>>
vars   == <<server, screen, take, lists, order, calm, choices, faults>>

-----------------------------------------------------------------------------
List(t) == [type |-> t, stage |-> "sent", rows |-> {}]

NoOrder == [op |-> "none", type |-> None, name |-> None, meant |-> {}, load |-> None,
            stage |-> "idle", here |-> FALSE]

(* meant: the snapshots on the screen that the user chose; load: the type  *)
(* that was selected, whose list will be asked for when it is done.        *)
Order(op, t, n, meant) ==
    [op |-> op, type |-> t, name |-> n, meant |-> meant, load |-> type,
     stage |-> "sent", here |-> TRUE]

Snapshot(t, n) == [type |-> t, name |-> n]
Named(n) == {s \in rows : s.name = n}
OfType(t) == {s \in snaps : s.type = t}

Fault  == faults < MaxFaults /\ faults' = faults + 1
Choice == choices < MaxChoices /\ choices' = choices + 1

Ask(t) == /\ Cardinality(lists) < MaxLists
          /\ lists' = lists \cup {List(t)}

Init ==
    /\ snaps \in SUBSET Snapshots
    /\ branches = {} /\ excused = {}
    /\ page = "none" /\ type = First /\ rows = {} /\ listed = None
    /\ ref = None /\ loading = FALSE /\ unavailable = FALSE
    /\ modal = "closed" /\ target = None
    /\ lists = {} /\ order = NoOrder
    /\ calm = TRUE /\ choices = 0 /\ faults = 0

-----------------------------------------------------------------------------
(* Pages and lists.                                                        *)

(* The first effect of either asks for the list of the first type.         *)
Mount(p) ==
    /\ page = "none" /\ Choice
    /\ page' = p /\ type' = First
    /\ loading' = (p = "form")
    /\ lists' = {List(First)} /\ calm' = TRUE
    /\ UNCHANGED <<server, rows, listed, ref, unavailable, take, order, faults>>

(* The state goes, and what is answered later changes nothing.             *)
Gone ==
    /\ page' = "none" /\ type' = First /\ rows' = {} /\ listed' = None
    /\ ref' = None /\ loading' = FALSE /\ unavailable' = FALSE
    /\ modal' = "closed" /\ target' = None
    /\ lists' = {} /\ calm' = TRUE

Leave ==
    /\ page # "none" /\ Gone
    /\ order' = [order EXCEPT !.here = FALSE]
    /\ UNCHANGED <<server, choices, faults>>

(* Variant: the effect on [dbType] without setSnapshotRef('').               *)
SelectType_KeepsRef(t) ==
    /\ page = "form" /\ t # type /\ Choice
    /\ type' = t
    /\ loading' = TRUE /\ unavailable' = FALSE /\ UNCHANGED ref
    /\ rows' = {} /\ listed' = None
    /\ Ask(t) /\ calm' = (lists = {})
    /\ UNCHANGED <<server, page, take, order, faults>>

(* In the form, a new type empties what depends on it.                     *)
SelectType(t) ==
    /\ page = "form" /\ t # type /\ Choice
    /\ type' = t
    /\ loading' = TRUE /\ unavailable' = FALSE /\ ref' = None
    /\ rows' = {} /\ listed' = None
    /\ Ask(t) /\ calm' = (lists = {})
    /\ UNCHANGED <<server, page, take, order, faults>>

(* The tab is nothing but a banner once an answer had "501" in it; a modal *)
(* covers the rest.                                                        *)
Clickable == page = "list" /\ ~unavailable /\ modal = "closed"

(* Variant: load is made once (useCallback with []).                         *)
SelectFilter_NoLoad(t) ==
    /\ Clickable /\ t # type /\ Choice
    /\ type' = t
    /\ calm' = (lists = {} /\ ~order.here) /\ UNCHANGED lists
    /\ UNCHANGED <<server, page, rows, listed, ref, loading, unavailable, take, order, faults>>

(* On the tab the list of the type before stays until the new one comes.   *)
SelectFilter(t) ==
    /\ Clickable /\ t # type /\ Choice
    /\ type' = t
    /\ Ask(t) /\ calm' = (lists = {} /\ ~order.here)
    /\ UNCHANGED <<server, page, rows, listed, ref, loading, unavailable, take, order, faults>>

Refresh ==
    /\ Clickable /\ Ask(type)
    /\ UNCHANGED <<server, screen, take, order, calm, choices, faults>>

(* handleListSnapshots. Any error that has "501" in its text counts as     *)
(* "not configured".                                                       *)
AnswerList(list) ==
    LET Becomes(stage, answer) ==
            lists' = (lists \ {list}) \cup {[list EXCEPT !.stage = stage, !.rows = answer]}
    IN  /\ list \in lists /\ list.stage = "sent"
        /\ \/ Becomes("ok", OfType(list.type)) /\ UNCHANGED faults
           \/ \E stage \in {"failed", "unavailable"} : Becomes(stage, {}) /\ Fault
        /\ UNCHANGED <<server, screen, take, order, calm, choices>>

(* The form: whatever list comes is the list, its first name is selected,  *)
(* and the loading is over.                                                *)
ListedForm(list) ==
    /\ page = "form"
    /\ loading' = FALSE
    /\ IF list.stage = "ok"
       THEN /\ rows' = list.rows /\ listed' = list.type
            /\ IF list.rows = {} THEN UNCHANGED ref
               ELSE ref' \in {s.name : s \in list.rows}
            /\ UNCHANGED unavailable
       ELSE /\ unavailable' = (unavailable \/ list.stage = "unavailable")
            /\ UNCHANGED <<rows, listed, ref>>
    /\ UNCHANGED calm

(* The tab: the same, and the error or the banner.                         *)
ListedTab(list) ==
    /\ page = "list"
    /\ IF list.stage = "ok"
       THEN rows' = list.rows /\ listed' = list.type /\ unavailable' = FALSE /\ UNCHANGED calm
       ELSE /\ unavailable' = (unavailable \/ list.stage = "unavailable")
            /\ calm' = FALSE
            /\ UNCHANGED <<rows, listed>>
    /\ UNCHANGED <<ref, loading>>

Listed(list) ==
    /\ list \in lists /\ list.stage # "sent"
    /\ ListedForm(list) \/ ListedTab(list)
    /\ lists' = lists \ {list}
    /\ UNCHANGED <<server, page, type, take, order, choices, faults>>

-----------------------------------------------------------------------------
(* What the user asks for.                                                 *)

Give(o) == order = NoOrder /\ order' = o

CanCreate == page = "form" /\ ~unavailable /\ ~loading /\ ref # None

Pick(n) ==
    /\ CanCreate /\ Named(n) # {} /\ n # ref
    /\ ref' = n
    /\ UNCHANGED <<server, page, type, rows, listed, loading, unavailable, take,
                   lists, order, calm, choices, faults>>

(* handleSubmit of the form; what becomes of the form is in BranchTable.   *)
Create ==
    /\ CanCreate
    /\ Give(Order("create", type, ref, Named(ref)))
    /\ UNCHANGED <<server, screen, take, lists, calm, choices, faults>>

(* Variant: api.snapshots.delete(s.name, dbTypeFilter).                      *)
Delete_OfFilter(s) ==
    /\ Clickable /\ s \in rows /\ s.name # Base
    /\ Give(Order("delete", type, s.name, {s}))
    /\ UNCHANGED <<server, screen, take, lists, calm, choices, faults>>

(* "Delete" of a row, confirmed, is for the type of the row.               *)
Delete(s) ==
    /\ Clickable /\ s \in rows /\ s.name # Base
    /\ Give(Order("delete", s.type, s.name, {s}))
    /\ UNCHANGED <<server, screen, take, lists, calm, choices, faults>>

(* "Full Refresh", confirmed in a modal that goes at once.                 *)
Reset ==
    /\ Clickable
    /\ Give(Order("reset", type, None, {}))
    /\ UNCHANGED <<server, screen, take, lists, calm, choices, faults>>

(* The first row is selected; later lists do not change that.              *)
OpenTake ==
    /\ Clickable /\ modal' = "open"
    /\ IF rows = {} THEN target' = None ELSE target' \in {s.name : s \in rows}
    /\ UNCHANGED <<server, screen, lists, order, calm, choices, faults>>

CloseTake ==
    /\ modal # "closed" /\ modal' = "closed" /\ target' = None
    /\ UNCHANGED <<server, screen, lists, order, calm, choices, faults>>

PickTarget(n) ==
    /\ modal # "closed" /\ Named(n) # {} /\ n # target
    /\ target' = n
    /\ UNCHANGED <<server, screen, modal, lists, order, calm, choices, faults>>

(* handleSubmit of the modal, with a new name or the one to overwrite.     *)
Take ==
    /\ modal = "open" /\ ~unavailable
    /\ modal' = "busy"
    /\ \/ \E n \in Names : Give(Order("take", type, n, {}))
       \/ target # None /\ Give(Order("overwrite", type, target, Named(target)))
    /\ UNCHANGED <<server, screen, target, lists, calm, choices, faults>>

-----------------------------------------------------------------------------
(* The API server.                                                         *)

Fails  == order' = [order EXCEPT !.stage = "failed"]
Done   == order' = [order EXCEPT !.stage = "done"]
Wanted == Snapshot(order.type, order.name)

(* A branch is excused when its snapshot goes after it was looked up.      *)
Lose(gone) ==
    /\ snaps' = snaps \ gone
    /\ excused' = excused \cup (gone \cap
           (branches \cup IF order.stage = "checked" THEN {Wanted} ELSE {}))

(* Variant: the check asks for the snapshots of the default type.            *)
Check_AnyType ==
    /\ order.op = "create" /\ order.stage = "sent"
    /\ \/ /\ order.name \in {s.name : s \in snaps}
          /\ order' = [order EXCEPT !.stage = "checked"] /\ UNCHANGED faults
       \/ /\ order.name \notin {s.name : s \in snaps}
          /\ Fails /\ UNCHANGED faults
       \/ order' = [order EXCEPT !.stage = "unchecked"] /\ Fault
    /\ UNCHANGED <<server, screen, take, lists, calm, choices>>

(* handleCreate looks the snapshot up; a list that fails checks nothing.   *)
Check ==
    /\ order.op = "create" /\ order.stage = "sent"
    /\ \/ /\ Wanted \in snaps
          /\ order' = [order EXCEPT !.stage = "checked"] /\ UNCHANGED faults
       \/ Wanted \notin snaps /\ Fails /\ UNCHANGED faults
       \/ order' = [order EXCEPT !.stage = "unchecked"] /\ Fault
    /\ UNCHANGED <<server, screen, take, lists, calm, choices>>

(* It then creates the branch, or fails (the name exists).                 *)
AnswerCreate ==
    /\ order.stage \in {"checked", "unchecked"}
    /\ \/ /\ branches' = branches \cup {Wanted} /\ Done
          /\ excused' = IF order.stage = "unchecked" THEN excused \cup ({Wanted} \ snaps)
                        ELSE excused
       \/ UNCHANGED <<branches, excused>> /\ Fails
    /\ UNCHANGED <<snaps, screen, take, lists, calm, choices, faults>>

(* handleTakeSnapshot: a name that exists must be overwritten, which fails *)
(* after the old one is gone if it fails in the middle.                    *)
AnswerTake ==
    /\ order.op \in {"take", "overwrite"} /\ order.stage = "sent"
    /\ \/ /\ order.op = "take" => Wanted \notin snaps
          /\ snaps' = snaps \cup {Wanted} /\ Done /\ UNCHANGED <<excused, faults>>
       \/ /\ order.op = "take" /\ Wanted \in snaps
          /\ Fails /\ UNCHANGED <<snaps, excused, faults>>
       \/ /\ Lose(IF order.op = "overwrite" THEN {Wanted} ELSE {})
          /\ Fails /\ Fault
    /\ UNCHANGED <<branches, screen, take, lists, calm, choices>>

(* handleDeleteSnapshot; one that has clones stays.                        *)
AnswerDelete ==
    /\ order.op = "delete" /\ order.stage = "sent"
    /\ \/ Wanted \in snaps /\ Lose({Wanted}) /\ Done /\ UNCHANGED faults
       \/ Lose({}) /\ Fails /\ UNCHANGED faults
       \/ Lose({Wanted}) /\ Fails /\ Fault
    /\ UNCHANGED <<branches, screen, take, lists, calm, choices>>

(* handleResetDataset: the branches of the type, one that cannot be        *)
(* deleted being passed over, and then its snapshots; a failure of that,   *)
(* or of the list of the branches, leaves some of them.                    *)
AnswerReset ==
    LET mine == {b \in branches : b.type = order.type}
    IN  /\ order.op = "reset" /\ order.stage = "sent"
        /\ \/ branches' = branches \ mine /\ Lose(OfType(order.type)) /\ Done
              /\ UNCHANGED faults
           \/ /\ Fault
              /\ \E deleted \in SUBSET mine : branches' = branches \ deleted
              /\ \/ Lose(OfType(order.type)) /\ Done
                 \/ (\E gone \in SUBSET OfType(order.type) : Lose(gone)) /\ Fails
        /\ UNCHANGED <<screen, take, lists, calm, choices>>

(* The form goes; the tab closes the modal that is open, whichever it is,  *)
(* and asks for the list of the type that was selected when the button was *)
(* clicked (load is the one of that rendering).                            *)
Succeeded ==
    /\ order.stage = "done" /\ order' = NoOrder
    /\ \/ ~order.here /\ UNCHANGED <<screen, take, lists, calm>>
       \/ order.here /\ order.op = "create" /\ Gone
       \/ /\ order.here /\ order.op # "create"
          /\ Ask(order.load)
          /\ IF order.op \in {"take", "overwrite"}
             THEN modal' = "closed" /\ target' = None
             ELSE UNCHANGED take
          /\ UNCHANGED <<screen, calm>>
    /\ UNCHANGED <<server, choices, faults>>

Refused ==
    /\ order.stage = "failed" /\ order' = NoOrder
    /\ modal' = IF modal = "busy" THEN "open" ELSE modal
    /\ UNCHANGED <<server, screen, target, lists, calm, choices, faults>>

(* Other clients, the console in another window among them.                *)
Elsewhere ==
    /\ Fault
    /\ \E s \in Snapshots :
         \/ s \in snaps /\ Lose({s})
         \/ s \notin snaps /\ snaps' = snaps \cup {s} /\ UNCHANGED excused
    /\ UNCHANGED <<branches, screen, take, lists, order, calm, choices>>

Next ==
    \/ \E p \in {"form", "list"} : Mount(p)
    \/ \E t \in Types : SelectType(t) \/ SelectFilter(t)
    \/ \E n \in Names : Pick(n) \/ PickTarget(n)
    \/ \E list \in lists : AnswerList(list) \/ Listed(list)
    \/ \E s \in rows : Delete(s)
    \/ Leave \/ Refresh \/ Create \/ Reset \/ OpenTake \/ CloseTake \/ Take
    \/ Check \/ AnswerCreate \/ AnswerTake \/ AnswerDelete \/ AnswerReset
    \/ Succeeded \/ Refused \/ Elsewhere

Spec == Init /\ [][Next]_vars

-----------------------------------------------------------------------------
(* Whatever mixture of types the form sends, a branch it made has its      *)
(* snapshot in its own type, unless that went after the API server had     *)
(* looked it up, or could not be looked up.                                *)
BranchHasSnapshot == branches \subseteq snaps \cup excused

(* What the form offers to create is a snapshot of the type it shows and   *)
(* of the list it shows, also when lists fail or are empty, if no other    *)
(* list was under way when the type was selected. (If one was, its answer  *)
(* is taken for the new type's.)                                           *)
FormOffersItsType ==
    CanCreate /\ calm => Snapshot(type, ref) \in rows

(* The tab shows the list of its filter, or that list is still to come, if *)
(* nothing was under way when the type was selected and no list failed: a  *)
(* list under way, or the load after a deletion, a snapshot or a reset, is *)
(* of the type that was selected before.                                   *)
ListFollowsFilter ==
    page = "list" /\ calm =>
        listed = type \/ \E list \in lists : list.type = type

(* "Delete" removes no other snapshot than the one of the row that was     *)
(* confirmed, also when the row is of the type that was selected before    *)
(* and its list has not been replaced yet.                                 *)
DeletesWhatWasConfirmed ==
    [][ order.op = "delete" /\ order.stage = "sent" /\ order'.stage # "sent"
        => snaps \ snaps' \subseteq order.meant ]_vars
=============================================================================
