----------------------------- MODULE Workspace -----------------------------
(***************************************************************************)
(* The workspace page (frontend/app/dashboard/page.tsx): its list of the   *)
(* organization's dashboards, its copy of the active one, the modal over   *)
(* them, and its calls of the dashboards API, here a store that a          *)
(* colleague's page changes too (module Dashboards has its round trips).   *)
(*                                                                         *)
(* A call runs in the closure of the render that sent it; cancelling its   *)
(* modal does not cancel the call, so the page moves on meanwhile, and     *)
(* only a button whose own call is pending is disabled.  Names, texts and  *)
(* is_public are left out: whose copy is where does not depend on them.    *)
(***************************************************************************)
EXTENDS Naturals, Sequences, FiniteSets, SequencesExt

CONSTANTS
    Boards,     \* dashboard ids, handed out once
    Widgets     \* widget ids, handed out once

VARIABLES
    live,               \* the organization's dashboards, newest first
    gone,               \* ids of deleted dashboards
    widgets,            \* rows of widgets, those of deleted dashboards included
    loading,            \* the first GET has not ended
    dashboards,         \* the page's list of copies
    activeDashboard,    \* its active copy: {} or one
    panel,              \* Live Stream, Developer Settings or Team & Alerts is shown
    modal,              \* the modal that is open
    call,               \* each kind of call: {} or one record
    dropped             \* dashboards whose DELETE was answered (history)

storeVars == <<live, gone, widgets>>
viewVars == <<loading, dashboards, activeDashboard, panel, modal>>
vars == <<storeVars, viewVars, call, dropped>>

Kinds == {"list", "create", "update", "delete", "widget"}

Widget == [id: Widgets, dashboard_id: Boards]
Copy == [id: Boards, widgets: SUBSET Widget]

\* What the closure holds (the active id and the list), and the answer: copies,
\* or a new widget.
Call == [id: SUBSET Boards, dashboards: Seq(Copy), stage: {"sent", "served"},
         copies: Seq(Copy), widget: SUBSET Widget]

TypeOK ==
    /\ live \in Seq(Boards) /\ gone \subseteq Boards /\ widgets \subseteq Widget
    /\ loading \in BOOLEAN /\ panel \in BOOLEAN
    /\ dashboards \in Seq(Copy)
    /\ activeDashboard \subseteq Copy
    /\ modal \in {"none", "create", "edit", "widget"}
    /\ call \in [Kinds -> SUBSET Call]
    /\ dropped \subseteq Boards

NewCall(id, list) ==
    [id |-> id, dashboards |-> list, stage |-> "sent", copies |-> <<>>, widget |-> {}]

\* The page mounts and fetches the list.
Init ==
    /\ live = <<>> /\ gone = {} /\ widgets = {}
    /\ loading = TRUE /\ panel = FALSE
    /\ dashboards = <<>> /\ activeDashboard = {}
    /\ modal = "none"
    /\ call = [k \in Kinds |-> IF k = "list" THEN {NewCall({}, <<>>)} ELSE {}]
    /\ dropped = {}

-----------------------------------------------------------------------------
(* The API, for this page and for a colleague's.                           *)

Stored(b) == [id |-> b, widgets |-> {w \in widgets : w.dashboard_id = b}]

Store(b) == b \notin ToSet(live) \cup gone /\ live' = <<b>> \o live /\ UNCHANGED <<gone, widgets>>

Erase(b) ==
    /\ \E i \in DOMAIN live : live[i] = b /\ live' = RemoveAt(live, i)
    /\ gone' = gone \cup {b}
    /\ UNCHANGED widgets

Attach(b, w) ==
    /\ b \in ToSet(live)
    /\ \A x \in widgets : x.id # w
    /\ widgets' = widgets \cup {[id |-> w, dashboard_id |-> b]}
    /\ UNCHANGED <<live, gone>>

Colleague ==
    /\ \E b \in Boards : Store(b) \/ Erase(b) \/ \E w \in Widgets : Attach(b, w)
    /\ UNCHANGED <<viewVars, call, dropped>>

Answer(k, copies, new) ==
    \E c \in call[k] :
        /\ c.stage = "sent"
        /\ call' = [call EXCEPT ![k] = {[c EXCEPT !.stage = "served", !.copies = copies,
                                                  !.widget = new]}]

Target(k, b) == \E c \in call[k] : b \in c.id

Serve ==
    /\ \/ /\ Answer("list", [i \in DOMAIN live |-> Stored(live[i])], {})
          /\ UNCHANGED storeVars
       \/ \E b \in Boards : Store(b) /\ Answer("create", <<[id |-> b, widgets |-> {}]>>, {})
       \/ \E b \in ToSet(live) :
             \/ Target("update", b) /\ Answer("update", <<Stored(b)>>, {}) /\ UNCHANGED storeVars
             \/ Target("delete", b) /\ Answer("delete", <<>>, {}) /\ Erase(b)
             \/ \E w \in Widgets :
                   /\ Target("widget", b) /\ Attach(b, w)
                   /\ Answer("widget", <<>>, {[id |-> w, dashboard_id |-> b]})
    /\ UNCHANGED <<viewVars, dropped>>

-----------------------------------------------------------------------------
(* What the member does.                                                   *)

\* Until the list has arrived the page shows "Loading Workspace...".
Usable == ~loading

Idle == Usable /\ modal = "none"

Select(i) ==
    /\ Idle /\ i \in DOMAIN dashboards
    /\ activeDashboard' = {dashboards[i]} /\ panel' = FALSE
    /\ UNCHANGED <<storeVars, loading, dashboards, modal, call, dropped>>

\* Without dashboards the page offers no tabs.
SelectPanel ==
    /\ Idle /\ (dashboards # <<>> \/ panel)
    /\ activeDashboard' = {} /\ panel' = TRUE
    /\ UNCHANGED <<storeVars, loading, dashboards, modal, call, dropped>>

BoardIsShown == ~panel /\ dashboards # <<>> /\ activeDashboard # {}

OpenModal(m) ==
    /\ Idle
    /\ m \in {"edit", "widget"} => BoardIsShown
    /\ m = "widget" => \A d \in activeDashboard : d.widgets = {}
    /\ modal' = m
    /\ UNCHANGED <<storeVars, loading, dashboards, activeDashboard, panel, call, dropped>>

\* Cancel, or the cross: calls stay in flight.
CloseModal ==
    /\ Usable /\ modal # "none"
    /\ modal' = "none"
    /\ UNCHANGED <<storeVars, loading, dashboards, activeDashboard, panel, call, dropped>>

ModalOf(k) == CASE k = "create" -> "create" [] k = "widget" -> "widget" [] OTHER -> "edit"

\* A button is disabled while its own call is in flight.
Disabled(k) == call[k] # {}

\* handleCreateDashboard, handleUpdateDashboard, handleDeleteDashboard and
\* handleCreateWidget begin alike; the last three return without active board.
Submit(k) ==
    /\ k # "list" /\ Usable /\ modal = ModalOf(k) /\ ~Disabled(k)
    /\ k # "create" => activeDashboard # {}
    /\ call' = [call EXCEPT ![k] =
          {NewCall(IF k = "create" THEN {} ELSE {d.id : d \in activeDashboard}, dashboards)}]
    /\ UNCHANGED <<storeVars, viewVars, dropped>>

-----------------------------------------------------------------------------
(* Answers.                                                                *)

Served(k) == {c \in call[k] : c.stage = "served"}

Done(k) == call' = [call EXCEPT ![k] = {}]

\* Mutant: the modal stays as it is.
StaysOpen(m) == modal

\* An answer closes its own modal, if that is the one open.
Closed(m) == IF modal = m THEN "none" ELSE modal

First(list) == IF list = <<>> THEN {} ELSE {Head(list)}

ReceiveList ==
    /\ \E c \in Served("list") :
        /\ dashboards' = c.copies
        /\ activeDashboard' = First(c.copies)
    /\ loading' = FALSE
    /\ Done("list")
    /\ UNCHANGED <<storeVars, panel, modal, dropped>>

ReceiveCreate ==
    /\ \E c \in Served("create") :
        /\ dashboards' = dashboards \o c.copies
        /\ activeDashboard' = ToSet(c.copies)
    /\ panel' = FALSE
    /\ modal' = Closed("create")
    /\ Done("create")
    /\ UNCHANGED <<storeVars, loading, dropped>>

\* Mutant: a board the list does not have is added.
Upserted(list, updated) ==
    IF updated.id \in {d.id : d \in ToSet(list)}
    THEN [i \in DOMAIN list |-> IF list[i].id = updated.id THEN updated ELSE list[i]]
    ELSE Append(list, updated)

Replaced(list, updated) ==
    [i \in DOMAIN list |-> IF list[i].id = updated.id THEN updated ELSE list[i]]

ReceiveUpdate ==
    /\ \E c \in Served("update") : \E updated \in ToSet(c.copies) :
        /\ dashboards' = Replaced(dashboards, updated)
        /\ activeDashboard' = {updated}
    /\ modal' = Closed("edit")
    /\ Done("update")
    /\ UNCHANGED <<storeVars, loading, panel, dropped>>

\* The ways, exactly one, to go through a set of positions in order.
Orderings(kept) ==
    {p \in [1 .. Cardinality(kept) -> kept] : \A m, n \in DOMAIN p : m < n => p[m] < p[n]}

\* What the filter of handleDeleteDashboard leaves of a list.
Filtered(list, id) ==
    {[n \in DOMAIN p |-> list[p[n]]] :
        p \in Orderings({i \in DOMAIN list : list[i].id \notin id})}

\* "remaining" is taken from the list the closure holds.
ReceiveDelete ==
    /\ \E c \in Served("delete") : \E remaining \in Filtered(c.dashboards, c.id) :
        /\ dashboards' = remaining
        /\ activeDashboard' = First(remaining)
        /\ dropped' = dropped \cup c.id
    /\ modal' = Closed("edit")
    /\ Done("delete")
    /\ UNCHANGED <<storeVars, loading, panel>>

WithWidget(d, new) == [d EXCEPT !.widgets = @ \cup new]

\* Mutant: the list's entry of the board active now gets the widget.
ActiveId(c) == {d.id : d \in activeDashboard}

\* The list's entry of the board the closure holds gets the widget ...
ClosureId(c) == c.id

\* ... and so does the copy that is active by now, whichever it is.
ReceiveWidget ==
    /\ \E c \in Served("widget") :
        /\ dashboards' = [i \in DOMAIN dashboards |->
              IF dashboards[i].id \in ClosureId(c) THEN WithWidget(dashboards[i], c.widget)
              ELSE dashboards[i]]
        /\ activeDashboard' = {WithWidget(d, c.widget) : d \in activeDashboard}
    /\ modal' = Closed("widget")
    /\ Done("widget")
    /\ UNCHANGED <<storeVars, loading, panel, dropped>>

\* 403 for a dashboard that is gone, any other error, or a lost answer.
ReceiveError(k) ==
    /\ call[k] # {}
    /\ Done(k)
    /\ loading' = (loading /\ k # "list")
    /\ UNCHANGED <<storeVars, dashboards, activeDashboard, panel, modal, dropped>>

-----------------------------------------------------------------------------
Receive ==
    \/ ReceiveList \/ ReceiveCreate \/ ReceiveUpdate \/ ReceiveDelete \/ ReceiveWidget
    \/ \E k \in Kinds : ReceiveError(k)

Next ==
    \/ Colleague \/ Serve \/ Receive
    \/ \E i \in DOMAIN dashboards : Select(i)
    \/ SelectPanel \/ CloseModal
    \/ \E m \in {"create", "edit", "widget"} : OpenModal(m)
    \/ \E k \in Kinds : Submit(k)

Spec == Init /\ [][Next]_vars

-----------------------------------------------------------------------------
(* Properties.                                                             *)

\* No board is listed twice, and a listed board shows widgets of its own only,
\* whatever the member selected while its calls were in flight.
Sound(list) ==
    \A i, j \in DOMAIN list :
        /\ list[i].id = list[j].id => i = j
        /\ \A w \in list[i].widgets : w.dashboard_id = list[i].id

ListIsSound == Sound(dashboards)

\* A board whose delete was answered never comes back to the list, although
\* answers come late and a delete restores the list its click had seen.
DroppedStaysOff == \A i \in DOMAIN dashboards : dashboards[i].id \notin dropped

\* Under the open settings form, whose Save and Delete go to the active board,
\* the active board changes with the answer to a create only.
Ids(copies) == {d.id : d \in copies}

SettingsStayPut ==
    [][modal = "edit" /\ modal' = "edit" /\ Ids(activeDashboard') # Ids(activeDashboard)
          => Served("create") # {} /\ call'["create"] = {}]_vars

-----------------------------------------------------------------------------
(* The invariant behind the properties.                                    *)

\* The store hands an id out once.
Known == ToSet(live) \cup gone

IdsAreFresh ==
    /\ \A i, j \in DOMAIN live : live[i] = live[j] => i = j
    /\ ToSet(live) \cap gone = {}

\* Every id the page has seen, in its state or in a closure.
Seen ==
    Ids(ToSet(dashboards)) \cup Ids(activeDashboard) \cup dropped
    \cup UNION {UNION {c.id \cup Ids(ToSet(c.dashboards)) : c \in call[k]} : k \in Kinds}

\* Nothing happens on the page before its first GET has ended.
LoadingComesFirst ==
    /\ call["list"] # {} => loading
    /\ loading =>
          /\ dashboards = <<>> /\ activeDashboard = {} /\ modal = "none" /\ dropped = {}
          /\ \A k \in Kinds \ {"list"} : call[k] = {}

PageHoldsOne ==
    /\ \A d, e \in activeDashboard : d = e
    /\ \A k \in Kinds : \A c, d \in call[k] : c = d
    /\ \A k \in Kinds : \A c \in call[k] : \A a, b \in c.id : a = b
    /\ \A c \in call["create"] : \A d, e \in ToSet(c.copies) : d = e

\* What the answers hold, whenever they arrive.
AnswersAreSound ==
    /\ \A k \in Kinds : \A c \in call[k] : Sound(c.dashboards) /\ Sound(c.copies)
    /\ \A c \in call["list"] : Ids(ToSet(c.copies)) \subseteq Known
    /\ \A c \in call["create"] : Ids(ToSet(c.copies)) \subseteq Known \ Seen
    /\ \A c \in call["update"] : Ids(ToSet(c.copies)) \subseteq c.id
    /\ \A c \in call["delete"] : Ids(ToSet(c.dashboards)) \cap dropped = {}
    /\ \A c \in call["widget"] : \A w \in c.widget : w.dashboard_id \in c.id

IInv ==
    /\ TypeOK
    /\ IdsAreFresh
    /\ Seen \subseteq Known
    /\ LoadingComesFirst
    /\ PageHoldsOne
    /\ AnswersAreSound
    /\ ListIsSound
    /\ DroppedStaysOff

=============================================================================
