---------------------------- MODULE BoardStore ----------------------------
(***************************************************************************)
(* What the dashboards API promises: a store of dashboards in which an     *)
(* edit changes the columns it wanted to differ and no other, a widget     *)
(* lives as long as its dashboard, and what is deleted stays deleted.      *)
(*                                                                         *)
(* An edit is asked for first and takes effect later, or never; no edit    *)
(* carries a copy of the dashboard with it.                                *)
(***************************************************************************)
CONSTANTS Orgs, Boards, Widgets, Names, EventNames, Editors

VARIABLES
    live,       \* dashboards that exist
    gone,       \* dashboards that were deleted
    row,        \* columns of the dashboards that exist
    widgets,    \* widgets that exist
    wanted      \* each editor's changes that are still to take effect

storeVars == <<live, gone, row, widgets, wanted>>

Init ==
    /\ live = {}
    /\ gone = {}
    /\ row \in [Boards -> [organization_id: Orgs, name: Names, is_public: BOOLEAN]]
    /\ widgets = {}
    /\ wanted = [e \in Editors |-> {}]

Create(b) ==
    /\ b \notin live \cup gone
    /\ live' = live \cup {b}
    /\ \E org \in Orgs, name \in Names, is_public \in BOOLEAN :
          row' = [row EXCEPT ![b] = [organization_id |-> org, name |-> name,
                                     is_public |-> is_public]]
    /\ UNCHANGED <<gone, widgets, wanted>>

\* What an editor wants of each column is one value, or nothing ({}) if the
\* column has the value already.
Ask(e, b, name, is_public) ==
    /\ b \in live
    /\ wanted[e] = {}
    /\ wanted' = [wanted EXCEPT ![e] =
          {[dashboard |-> b, name |-> {name} \ {row[b].name},
            is_public |-> {is_public} \ {row[b].is_public}]}]
    /\ UNCHANGED <<live, gone, row, widgets>>

Obtained(want, current) == IF want = {} THEN {current} ELSE want

TakeEffect(e) ==
    /\ \E want \in wanted[e] :
        /\ want.dashboard \in live
        /\ \E name \in Obtained(want.name, row[want.dashboard].name),
              is_public \in Obtained(want.is_public, row[want.dashboard].is_public) :
              row' = [row EXCEPT ![want.dashboard].name = name,
                                 ![want.dashboard].is_public = is_public]
    /\ wanted' = [wanted EXCEPT ![e] = {}]
    /\ UNCHANGED <<live, gone, widgets>>

Forget(e) ==
    /\ wanted' = [wanted EXCEPT ![e] = {}]
    /\ UNCHANGED <<live, gone, row, widgets>>

AddWidget(b, w) ==
    /\ b \in live
    /\ \A other \in widgets : other.id # w
    /\ \E name \in EventNames :
          widgets' = widgets \cup {[id |-> w, dashboard_id |-> b, event_name |-> name]}
    /\ UNCHANGED <<live, gone, row, wanted>>

Delete(b) ==
    /\ b \in live
    /\ live' = live \ {b}
    /\ gone' = gone \cup {b}
    /\ widgets' = {w \in widgets : w.dashboard_id # b}
    /\ UNCHANGED <<row, wanted>>

Next ==
    \/ \E b \in Boards : Create(b) \/ Delete(b)
    \/ \E b \in Boards, w \in Widgets : AddWidget(b, w)
    \/ \E e \in Editors, b \in Boards, name \in Names, is_public \in BOOLEAN :
          Ask(e, b, name, is_public)
    \/ \E e \in Editors : TakeEffect(e) \/ Forget(e)

Spec == Init /\ [][Next]_storeVars

=============================================================================
