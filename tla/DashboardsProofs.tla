------------------------- MODULE DashboardsProofs -------------------------
(***************************************************************************)
(* The properties of Dashboards hold for any number of organizations,      *)
(* dashboards, widgets, sessions and events.                               *)
(***************************************************************************)
EXTENDS Dashboards, TLAPS

LEMMA BoardsInit == Init => IInv
<1>1. \E d \in Dashboard : ~d.is_public
  <2>1. PICK org \in Orgs, name \in Names : TRUE
    BY BoardConstants
  <2>2. [organization_id |-> org, name |-> name, is_public |-> FALSE] \in Dashboard
    BY <2>1 DEF Dashboard
  <2> QED
    BY <2>2
<1>2. NoRow \in Dashboard
  BY <1>1 DEF NoRow
<1> QED
  BY <1>2 DEF Init, IInv, TypeOK, IdsAreUnique, WidgetsHaveHomes,
     SessionsStayHome, SessionsHoldOne, ChartsStayHome

LEMMA EventKeeps ==
    ASSUME IInv, NEW id \in Events, NEW org \in Orgs, NEW name \in EventNames,
           create_events_batch(id, org, name)
    PROVE  IInv'
BY DEF create_events_batch, boardVars, IInv, TypeOK, Event, IdsAreUnique, WidgetsHaveHomes,
   SessionsStayHome, SessionsHoldOne, ChartsStayHome

LEMMA CreateKeeps ==
    ASSUME IInv, NEW b \in Boards, NEW dashboard \in Dashboard, create_dashboard(b, dashboard)
    PROVE  IInv'
<1>1. /\ b \notin live \cup gone
      /\ live' = live \cup {b}
      /\ row' = [row EXCEPT ![b] = dashboard]
      /\ UNCHANGED <<gone, widgets, spent, events, editor, viewer>>
  BY DEF create_dashboard
<1>2. \A c \in live \cup gone : row'[c] = row[c]
  BY <1>1 DEF IInv, TypeOK
<1>3. TypeOK' /\ IdsAreUnique' /\ WidgetsHaveHomes' /\ SessionsHoldOne'
  BY <1>1 DEF IInv, TypeOK, IdsAreUnique, WidgetsHaveHomes, SessionsHoldOne
<1>4. SessionsStayHome'
  BY <1>1, <1>2 DEF IInv, SessionsStayHome
<1>5. ChartsStayHome'
  BY <1>1, <1>2 DEF IInv, SessionsStayHome, ChartsStayHome
<1> QED
  BY <1>3, <1>4, <1>5 DEF IInv

LEMMA LoadKeeps ==
    ASSUME IInv, NEW e \in Editors, NEW b \in Boards, NEW org \in Orgs,
           NEW task \in {"update", "add_widget", "delete"}, NEW object \in Dashboard,
           get_dashboard(e, b, org, task, object)
    PROVE  IInv'
<1> DEFINE edit == [task |-> task, organization_id |-> org, dashboard |-> b,
                    loaded |-> row[b], object |-> object]
<1>1. /\ b \in live /\ row[b].organization_id = org
      /\ editor' = [editor EXCEPT ![e] = {edit}]
      /\ UNCHANGED <<boardVars, events, viewer>>
  BY DEF get_dashboard, BoardsByIdAndOrg
<1>2. row[b] \in Dashboard
  BY DEF IInv, TypeOK
<1>3. object.organization_id = row[b].organization_id
  BY <1>2 DEF get_dashboard, Dashboard
<1>4. /\ edit \in Edit
      /\ edit.dashboard = b /\ edit.organization_id = org
      /\ edit.loaded = row[b] /\ edit.object = object
  BY <1>2 DEF Edit
<1> HIDE DEF edit
<1>5. TypeOK' /\ IdsAreUnique' /\ WidgetsHaveHomes' /\ ChartsStayHome'
  BY <1>1, <1>4 DEF boardVars, IInv, TypeOK, IdsAreUnique, WidgetsHaveHomes, ChartsStayHome
<1>6. SessionsStayHome'
  BY <1>1, <1>3, <1>4 DEF boardVars, IInv, TypeOK, SessionsStayHome
<1>7. SessionsHoldOne'
  BY <1>1 DEF boardVars, IInv, TypeOK, SessionsHoldOne
<1> QED
  BY <1>5, <1>6, <1>7 DEF IInv

\* What the UPDATE leaves of a row.
LEMMA FlushedRow ==
    ASSUME NEW current \in Dashboard, NEW loaded \in Dashboard, NEW object \in Dashboard
    PROVE  LET flushed == FlushColumns(current, loaded, object)
           IN  /\ flushed \in Dashboard
               /\ flushed.organization_id = current.organization_id
               /\ flushed.name = IF object.name = loaded.name
                                 THEN current.name ELSE object.name
               /\ flushed.is_public = IF object.is_public = loaded.is_public
                                      THEN current.is_public ELSE object.is_public
BY DEF FlushColumns, Dashboard

\* What a PUT leaves of the table.
LEMMA UpdatedRows ==
    ASSUME IInv, NEW e \in Editors, NEW edit \in editor[e],
           row' = IF edit.dashboard \in live
                  THEN [row EXCEPT ![edit.dashboard] = FlushColumns(@, edit.loaded, edit.object)]
                  ELSE row
    PROVE  /\ row' \in [Boards -> Dashboard]
           /\ \A b \in Boards : row'[b].organization_id = row[b].organization_id
           /\ \A b \in Boards : row'[b] # row[b] =>
                 /\ b = edit.dashboard /\ b \in live
                 /\ row'[b] = FlushColumns(row[b], edit.loaded, edit.object)
<1>1. /\ edit \in Edit /\ edit.dashboard \in Boards
      /\ edit.loaded \in Dashboard /\ edit.object \in Dashboard
      /\ row[edit.dashboard] \in Dashboard
  BY DEF IInv, TypeOK, Edit
<1> DEFINE flushed == FlushColumns(row[edit.dashboard], edit.loaded, edit.object)
<1>2. flushed \in Dashboard
      /\ flushed.organization_id = row[edit.dashboard].organization_id
  BY <1>1, FlushedRow
<1>3. row' = IF edit.dashboard \in live THEN [row EXCEPT ![edit.dashboard] = flushed] ELSE row
  OBVIOUS
<1> HIDE DEF flushed
<1>4. row \in [Boards -> Dashboard]
  BY DEF IInv, TypeOK
<1>5. \A b \in Boards : row'[b] # row[b] =>
         b = edit.dashboard /\ b \in live /\ row'[b] = flushed
  BY <1>1, <1>3, <1>4
<1> QED
  BY <1>1, <1>2, <1>3, <1>4, <1>5 DEF flushed

LEMMA UpdateKeeps ==
    ASSUME IInv, NEW e \in Editors, update_dashboard(e)
    PROVE  IInv'
<1>1. PICK edit \in editor[e] :
         row' = IF edit.dashboard \in live
                THEN [row EXCEPT ![edit.dashboard] = FlushColumns(@, edit.loaded, edit.object)]
                ELSE row
  BY DEF update_dashboard
<1>2. /\ editor' = [editor EXCEPT ![e] = {}]
      /\ UNCHANGED <<live, gone, widgets, spent, events, viewer>>
  BY DEF update_dashboard
<1>3. /\ row' \in [Boards -> Dashboard]
      /\ \A b \in Boards : row'[b].organization_id = row[b].organization_id
  BY <1>1, UpdatedRows
<1>4. TypeOK' /\ IdsAreUnique' /\ WidgetsHaveHomes' /\ SessionsHoldOne'
  BY <1>2, <1>3 DEF IInv, TypeOK, IdsAreUnique, WidgetsHaveHomes, SessionsHoldOne
<1>5. SessionsStayHome'
  BY <1>2, <1>3 DEF IInv, TypeOK, SessionsStayHome
<1>6. ChartsStayHome'
  BY <1>2, <1>3 DEF IInv, TypeOK, SessionsStayHome, ChartsStayHome
<1> QED
  BY <1>4, <1>5, <1>6 DEF IInv

LEMMA AddKeeps ==
    ASSUME IInv, NEW e \in Editors, NEW w \in Widgets,
           NEW name \in EventNames \cup {NoEventName}, create_widget(e, w, name)
    PROVE  IInv'
<1>1. /\ w \notin spent /\ spent' = spent \cup {w}
      /\ editor' = [editor EXCEPT ![e] = {}]
      /\ UNCHANGED <<live, gone, row, events, viewer>>
  BY DEF create_widget
<1>2. PICK edit \in editor[e] :
         widgets' = IF ForeignKeyHolds(edit.dashboard)
                    THEN widgets \cup {[id |-> w, dashboard_id |-> edit.dashboard,
                                        event_name |-> name]}
                    ELSE widgets
  BY DEF create_widget
<1> DEFINE new == [id |-> w, dashboard_id |-> edit.dashboard, event_name |-> name]
<1>3. new \in Widget /\ new.id = w /\ new.dashboard_id = edit.dashboard
  BY DEF IInv, TypeOK, Edit, Widget
<1>4. \/ widgets' = widgets
      \/ /\ widgets' = widgets \cup {new}
         /\ edit.dashboard \in live
  BY <1>2 DEF ForeignKeyHolds
<1> HIDE DEF new
<1>5. TypeOK' /\ WidgetsHaveHomes' /\ IdsAreUnique'
  BY <1>1, <1>3, <1>4 DEF IInv, TypeOK, WidgetsHaveHomes, IdsAreUnique
<1>6. SessionsStayHome' /\ SessionsHoldOne' /\ ChartsStayHome'
  BY <1>1 DEF IInv, TypeOK, SessionsStayHome, SessionsHoldOne, ChartsStayHome
<1> QED
  BY <1>5, <1>6 DEF IInv

LEMMA DeleteKeeps ==
    ASSUME IInv, NEW e \in Editors, delete_dashboard(e)
    PROVE  IInv'
<1>1. PICK edit \in editor[e] :
         /\ live' = live \ {edit.dashboard}
         /\ gone' = gone \cup {edit.dashboard}
         /\ widgets' = CascadedWidgets(edit.dashboard)
  BY DEF delete_dashboard
<1>2. /\ editor' = [editor EXCEPT ![e] = {}]
      /\ UNCHANGED <<row, spent, events, viewer>>
  BY DEF delete_dashboard
<1>3. widgets' = {w \in widgets : w.dashboard_id # edit.dashboard}
  BY <1>1 DEF CascadedWidgets
<1>4. edit.dashboard \in Boards
  BY DEF IInv, TypeOK, Edit
<1>5. TypeOK' /\ IdsAreUnique' /\ WidgetsHaveHomes'
  BY <1>1, <1>2, <1>3, <1>4 DEF IInv, TypeOK, IdsAreUnique, WidgetsHaveHomes
<1>6. SessionsStayHome' /\ SessionsHoldOne' /\ ChartsStayHome'
  BY <1>1, <1>2 DEF IInv, TypeOK, SessionsStayHome, SessionsHoldOne, ChartsStayHome
<1> QED
  BY <1>5, <1>6 DEF IInv

LEMMA OpenKeeps ==
    ASSUME IInv, NEW v \in Viewers, NEW public \in BOOLEAN, NEW x \in widgets,
           NEW target \in Orgs, target = row[x.dashboard_id].organization_id,
           OpenView(v, public, x, target)
    PROVE  IInv'
<1> DEFINE view == [public |-> public, widget |-> x, target_org_id |-> target,
                    answered |-> FALSE, counted |-> {}]
<1>1. viewer' = [viewer EXCEPT ![v] = {view}] /\ UNCHANGED <<boardVars, events, editor>>
  BY DEF OpenView
<1>2. x \in Widget /\ x.dashboard_id \in live
  BY DEF IInv, TypeOK, WidgetsHaveHomes
<1>3. view \in View /\ view.widget = x /\ view.target_org_id = target /\ view.counted = {}
  BY <1>2 DEF View
<1> HIDE DEF view
<1>4. TypeOK' /\ IdsAreUnique' /\ WidgetsHaveHomes'
  BY <1>1, <1>3 DEF boardVars, IInv, TypeOK, IdsAreUnique, WidgetsHaveHomes
<1>5. SessionsStayHome' /\ SessionsHoldOne'
  BY <1>1, <1>2, <1>3 DEF boardVars, IInv, TypeOK, SessionsStayHome, SessionsHoldOne
<1>6. ChartsStayHome'
  BY <1>1, <1>3 DEF boardVars, IInv, TypeOK, ChartsStayHome
<1> QED
  BY <1>4, <1>5, <1>6 DEF IInv

LEMMA ChartKeeps ==
    ASSUME IInv, NEW v \in Viewers, NEW w \in Widgets, NEW b \in Boards,
           \/ \E org \in Orgs : get_widget_data(v, w, b, org)
           \/ get_public_widget_data(v, w, b)
    PROVE  IInv'
<1>1. ASSUME NEW org \in Orgs, get_widget_data(v, w, b, org) PROVE IInv'
  <2>1. PICK x \in get_widget_with_dashboard(w, b, org) : OpenView(v, FALSE, x, org)
    BY <1>1 DEF get_widget_data
  <2>2. x \in widgets /\ org = row[x.dashboard_id].organization_id
    BY DEF get_widget_with_dashboard, BoardsByIdAndOrg
  <2> QED
    BY <2>1, <2>2, OpenKeeps
<1>2. CASE get_public_widget_data(v, w, b)
  <2>1. PICK x \in get_public_widget_with_dashboard(w, b) :
           OpenView(v, TRUE, x, row[b].organization_id)
    BY <1>2 DEF get_public_widget_data, PublicTarget
  <2>2. x \in widgets /\ x.dashboard_id = b
    BY DEF get_public_widget_with_dashboard, get_public_dashboard
  <2>3. row[b].organization_id \in Orgs
    BY DEF IInv, TypeOK, Dashboard
  <2> QED
    BY <2>1, <2>2, <2>3, OpenKeeps
<1> QED
  BY <1>1, <1>2

LEMMA CountKeeps ==
    ASSUME IInv, NEW v \in Viewers, query_time_series_data(v)
    PROVE  IInv'
<1>1. PICK view \in viewer[v], recent \in SUBSET events :
         viewer' = [viewer EXCEPT ![v] =
            {[view EXCEPT !.answered = TRUE, !.counted = Counted(view) \cap recent]}]
  BY DEF query_time_series_data
<1> DEFINE shown == [view EXCEPT !.answered = TRUE, !.counted = Counted(view) \cap recent]
<1>2. view \in View
  BY DEF IInv, TypeOK
<1>3. Counted(view) \in SUBSET Event
      /\ \A event \in Counted(view) : event.organization_id = view.target_org_id
  BY DEF Counted, IInv, TypeOK
<1>4. /\ shown \in View /\ shown.widget = view.widget
      /\ shown.target_org_id = view.target_org_id
      /\ shown.counted \subseteq Counted(view)
  BY <1>2, <1>3 DEF View
<1>5. viewer' = [viewer EXCEPT ![v] = {shown}]
  BY <1>1
<1> HIDE DEF shown
<1>6. UNCHANGED <<boardVars, events, editor>>
  BY DEF query_time_series_data
<1>7. TypeOK' /\ IdsAreUnique' /\ WidgetsHaveHomes'
  BY <1>4, <1>5, <1>6 DEF boardVars, IInv, TypeOK, IdsAreUnique, WidgetsHaveHomes
<1>8. SessionsStayHome' /\ SessionsHoldOne'
  BY <1>4, <1>5, <1>6 DEF boardVars, IInv, TypeOK, SessionsStayHome, SessionsHoldOne
<1>9. ChartsStayHome'
  BY <1>3, <1>4, <1>5, <1>6 DEF boardVars, IInv, TypeOK, SessionsStayHome, ChartsStayHome
<1> QED
  BY <1>7, <1>8, <1>9 DEF IInv

LEMMA EndKeeps ==
    ASSUME IInv, \/ \E e \in Editors : DropEdit(e)
                 \/ \E v \in Viewers : CloseView(v)
                 \/ UNCHANGED vars
    PROVE  IInv'
<1>1. ASSUME NEW e \in Editors, DropEdit(e) PROVE IInv'
  BY <1>1 DEF DropEdit, boardVars, IInv, TypeOK, IdsAreUnique, WidgetsHaveHomes,
     SessionsStayHome, SessionsHoldOne, ChartsStayHome
<1>2. ASSUME NEW v \in Viewers, CloseView(v) PROVE IInv'
  BY <1>2 DEF CloseView, boardVars, IInv, TypeOK, IdsAreUnique, WidgetsHaveHomes,
     SessionsStayHome, SessionsHoldOne, ChartsStayHome
<1>3. CASE UNCHANGED vars
  BY <1>3 DEF vars, boardVars, IInv, TypeOK, IdsAreUnique, WidgetsHaveHomes,
     SessionsStayHome, SessionsHoldOne, ChartsStayHome
<1> QED
  BY <1>1, <1>2, <1>3

LEMMA BoardsStep == IInv /\ [Next]_vars => IInv'
<1> SUFFICES ASSUME IInv, [Next]_vars PROVE IInv'
  OBVIOUS
<1>1. ASSUME NEW id \in Events, NEW org \in Orgs, NEW name \in EventNames,
             create_events_batch(id, org, name)
      PROVE  IInv'
  BY <1>1, EventKeeps
<1>2. ASSUME NEW b \in Boards, NEW dashboard \in Dashboard, create_dashboard(b, dashboard)
      PROVE  IInv'
  BY <1>2, CreateKeeps
<1>3. ASSUME NEW e \in Editors, EditStep(e) PROVE IInv'
  <2>1. ASSUME NEW b \in Boards, NEW org \in Orgs, NEW object \in Dashboard,
               NEW task \in {"update", "add_widget", "delete"},
               get_dashboard(e, b, org, task, object)
        PROVE  IInv'
    BY <2>1, LoadKeeps
  <2>2. ASSUME NEW w \in Widgets, NEW name \in EventNames \cup {NoEventName},
               create_widget(e, w, name)
        PROVE  IInv'
    BY <2>2, AddKeeps
  <2> QED
    BY <1>3, <2>1, <2>2, UpdateKeeps, DeleteKeeps, EndKeeps DEF EditStep
<1>4. ASSUME NEW v \in Viewers, ViewStep(v) PROVE IInv'
  BY <1>4, ChartKeeps, CountKeeps, EndKeeps DEF ViewStep
<1>5. CASE UNCHANGED vars
  BY <1>5, EndKeeps
<1> QED
  BY <1>1, <1>2, <1>3, <1>4, <1>5 DEF Next

\* The inductive invariant holds in every behaviour of the API: copies in
\* flight stay within their organization whatever happens to the rows.
THEOREM BoardsInvariant == Spec => []IInv
BY BoardsInit, BoardsStep, PTL DEF Spec

\* No interleaving of adding a widget and deleting its dashboard leaves the
\* widget behind.
THEOREM NoWidgetIsLeft == Spec => []WidgetsHaveHomes
BY BoardsInvariant, PTL DEF IInv

\* Charts, public ones included, count no other organization's telemetry.
THEOREM ChartsCountTheirOwn == Spec => []ChartsStayHome
BY BoardsInvariant, PTL DEF IInv

-----------------------------------------------------------------------------
(* Action properties.                                                      *)

\* Steps other than a PUT change no row that exists before and after them.
LEMMA OtherStepsKeepRows ==
    ASSUME IInv, [Next]_vars, ~(\E e \in Editors : update_dashboard(e))
    PROVE  \A b \in live \cap live' : row'[b] = row[b]
<1>1. ASSUME NEW e \in Editors, EditStep(e)
      PROVE  \A b \in live \cap live' : row'[b] = row[b]
  BY <1>1 DEF EditStep, get_dashboard, create_widget, delete_dashboard, DropEdit, boardVars
<1>2. ASSUME NEW v \in Viewers, ViewStep(v)
      PROVE  \A b \in live \cap live' : row'[b] = row[b]
  BY <1>2 DEF ViewStep, get_widget_data, get_public_widget_data, OpenView,
     query_time_series_data, CloseView, boardVars
<1>3. ASSUME NEW b \in Boards, NEW dashboard \in Dashboard, create_dashboard(b, dashboard)
      PROVE  \A c \in live \cap live' : row'[c] = row[c]
  BY <1>3 DEF create_dashboard, IInv, TypeOK
<1> QED
  BY <1>1, <1>2, <1>3 DEF Next, vars, boardVars, create_events_batch

LEMMA PutsAreAsked ==
    ASSUME IInv, NEW e \in Editors, update_dashboard(e), NEW b \in live,
           NEW column \in {"organization_id", "name", "is_public"},
           row'[b][column] # row[b][column]
    PROVE  AskedFor(b, column)
<1>1. PICK edit \in editor[e] :
         /\ edit.task = "update"
         /\ row' = IF edit.dashboard \in live
                   THEN [row EXCEPT ![edit.dashboard] = FlushColumns(@, edit.loaded, edit.object)]
                   ELSE row
  BY DEF update_dashboard
<1>2. b \in Boards /\ row[b] \in Dashboard /\ edit.loaded \in Dashboard /\ edit.object \in Dashboard
  BY DEF IInv, TypeOK, Edit
<1>3. row'[b] # row[b]
  OBVIOUS
<1>4. b = edit.dashboard /\ row'[b] = FlushColumns(row[b], edit.loaded, edit.object)
  BY <1>1, <1>2, <1>3, UpdatedRows
<1> DEFINE flushed == FlushColumns(row[b], edit.loaded, edit.object)
<1>5. /\ flushed.organization_id = row[b].organization_id
      /\ flushed.name = IF edit.object.name = edit.loaded.name
                        THEN row[b].name ELSE edit.object.name
      /\ flushed.is_public = IF edit.object.is_public = edit.loaded.is_public
                             THEN row[b].is_public ELSE edit.object.is_public
  BY <1>2, FlushedRow
<1>6. row'[b] = flushed
  BY <1>4
<1> HIDE DEF flushed
<1>7. /\ edit.object[column] = row'[b][column]
      /\ edit.loaded[column] # row'[b][column]
  <2>1. CASE column = "organization_id"
    BY <1>5, <1>6, <2>1
  <2>2. CASE column = "name"
    BY <1>5, <1>6, <2>2
  <2>3. CASE column = "is_public"
    BY <1>5, <1>6, <2>3
  <2> QED
    BY <2>1, <2>2, <2>3
<1>8. edit.organization_id = row[b].organization_id
  BY <1>4 DEF IInv, SessionsStayHome
<1> QED
  BY <1>1, <1>4, <1>7, <1>8 DEF AskedFor

LEMMA StepsAreAsked ==
    IInv /\ [Next]_vars =>
        [\A b \in live \cap live' : \A column \in {"organization_id", "name", "is_public"} :
            row'[b][column] # row[b][column] => AskedFor(b, column)]_vars
<1> SUFFICES ASSUME IInv, [Next]_vars, NEW b \in live \cap live',
                    NEW column \in {"organization_id", "name", "is_public"},
                    row'[b][column] # row[b][column]
             PROVE  AskedFor(b, column)
  OBVIOUS
<1>1. PICK e \in Editors : update_dashboard(e)
  BY OtherStepsKeepRows
<1> QED
  BY <1>1, PutsAreAsked

\* A PUT writes back nothing that it merely loaded: what a colleague made
\* private meanwhile stays private.
THEOREM EditsChangeWhatTheyAsk == Spec => ChangesAreAsked
BY BoardsInvariant, StepsAreAsked, PTL DEF Spec, ChangesAreAsked

-----------------------------------------------------------------------------
(* Who sees what in public.                                                *)

\* The public route opens the widgets of public dashboards, and no other step
\* shows a dashboard to somebody who is not signed in.
LEMMA OnlyPublicIsShown ==
    ASSUME IInv, [Next]_vars, NEW b \in Boards, ~Public(b), ~SeenInPublic(b)
    PROVE  ~SeenInPublic(b)'
<1>1. SUFFICES ASSUME NEW v \in Viewers, NEW view \in viewer'[v], view.public
               PROVE  view.widget.dashboard_id # b
  BY DEF SeenInPublic
<1>2. viewer \in [Viewers -> SUBSET View]
  BY DEF IInv, TypeOK
<1>3. CASE view \in viewer[v]
  BY <1>1, <1>3 DEF SeenInPublic
<1>4. ASSUME NEW s \in Viewers, ViewStep(s), view \notin viewer[v]
      PROVE  view.widget.dashboard_id # b
  <2>1. ASSUME NEW x, NEW public, NEW target, OpenView(s, public, x, target)
        PROVE  view.public = public /\ view.widget = x
    <3> DEFINE opened == [public |-> public, widget |-> x, target_org_id |-> target,
                          answered |-> FALSE, counted |-> {}]
    <3>1. viewer' = [viewer EXCEPT ![s] = {opened}]
      BY <2>1 DEF OpenView
    <3>2. opened.public = public /\ opened.widget = x
      OBVIOUS
    <3> HIDE DEF opened
    <3>3. view = opened
      BY <1>1, <1>2, <1>4, <3>1
    <3> QED
      BY <3>2, <3>3
  <2>2. ASSUME NEW w \in Widgets, NEW c \in Boards, NEW org \in Orgs,
               get_widget_data(s, w, c, org)
        PROVE  ~view.public
    BY <2>1, <2>2 DEF get_widget_data
  <2>3. ASSUME NEW w \in Widgets, NEW c \in Boards, get_public_widget_data(s, w, c)
        PROVE  view.widget.dashboard_id # b
    <3>1. PICK x \in widgets :
             /\ x.dashboard_id \in get_public_dashboard(c)
             /\ OpenView(s, TRUE, x, PublicTarget(c))
      BY <2>3 DEF get_public_widget_data, get_public_widget_with_dashboard
    <3>2. Public(x.dashboard_id)
      BY <3>1 DEF get_public_dashboard, Public
    <3> QED
      BY <2>1, <3>1, <3>2
  <2>4. CASE query_time_series_data(s)
    <3>1. PICK old \in viewer[s], recent \in SUBSET events :
             viewer' = [viewer EXCEPT ![s] =
                {[old EXCEPT !.answered = TRUE, !.counted = Counted(old) \cap recent]}]
      BY <2>4 DEF query_time_series_data
    <3>2. s = v /\ view = [old EXCEPT !.answered = TRUE, !.counted = Counted(old) \cap recent]
      BY <1>1, <1>2, <1>4, <3>1
    <3>3. old \in View
      BY <1>2
    <3>4. view.public = old.public /\ view.widget = old.widget
      BY <3>2, <3>3 DEF View
    <3> QED
      BY <1>1, <3>4 DEF SeenInPublic
  <2>5. CASE CloseView(s)
    BY <1>1, <1>2, <1>4, <2>5 DEF CloseView
  <2> QED
    BY <1>1, <1>4, <2>2, <2>3, <2>4, <2>5 DEF ViewStep
<1>5. ASSUME NEW e \in Editors, EditStep(e) PROVE viewer' = viewer
  BY <1>5 DEF EditStep, get_dashboard, update_dashboard, create_widget, delete_dashboard,
     DropEdit
<1>6. viewer' = viewer \/ \E s \in Viewers : ViewStep(s)
  BY <1>5 DEF Next, vars, create_events_batch, create_dashboard
<1> QED
  BY <1>3, <1>4, <1>6

\* Somebody who is not signed in gets no chart of a dashboard that is never
\* public: neither an edit of the row nor another dashboard opens a way to it.
THEOREM PrivateBoardsStayHidden == Spec => PrivateStaysHidden
<1>1. ASSUME NEW b \in Boards PROVE Spec => ([]~Public(b) => []~SeenInPublic(b))
  <2>1. Init => ~SeenInPublic(b)
    BY DEF Init, SeenInPublic
  <2>2. IInv /\ [Next]_vars /\ ~Public(b) /\ ~SeenInPublic(b) => ~SeenInPublic(b)'
    BY OnlyPublicIsShown
  <2> QED
    BY <2>1, <2>2, BoardsInvariant, PTL DEF Spec
<1> QED
  BY <1>1 DEF PrivateStaysHidden

-----------------------------------------------------------------------------
(* The refinement of BoardStore.                                           *)

LEMMA StoreInit == Init => Store!Init
<1>1. SUFFICES ASSUME Init PROVE Store!Init
  OBVIOUS
<1>2. row \in [Boards -> [organization_id: Orgs, name: Names, is_public: BOOLEAN]]
  BY <1>1, BoardsInit DEF IInv, TypeOK, Dashboard
<1>3. Wanted = [e \in Editors |-> {}]
  BY <1>1 DEF Init, Wanted, WantedBy
<1> QED
  BY <1>1, <1>2, <1>3 DEF Init, Store!Init

\* Wanted follows the session that moves.
LEMMA WantedMoves ==
    ASSUME IInv, NEW e \in Editors, NEW edits, editor' = [editor EXCEPT ![e] = edits]
    PROVE  Wanted' = [Wanted EXCEPT ![e] = WantedBy(edits)]
BY DEF IInv, TypeOK, Wanted

\* A session that ends wants nothing more.
LEMMA WantedEnds ==
    ASSUME IInv, NEW e \in Editors, editor' = [editor EXCEPT ![e] = {}]
    PROVE  Wanted' = [Wanted EXCEPT ![e] = {}]
<1>1. WantedBy({}) = {}
  BY DEF WantedBy
<1>2. Wanted' = [Wanted EXCEPT ![e] = WantedBy({})]
  BY WantedMoves
<1> QED
  BY <1>1, <1>2

\* A session that holds one record wants what the record says.
LEMMA WantedByOne ==
    ASSUME NEW edit
    PROVE  WantedBy({edit}) =
             IF edit.task = "update"
             THEN {[dashboard |-> edit.dashboard,
                    name |-> {edit.object.name} \ {edit.loaded.name},
                    is_public |-> {edit.object.is_public} \ {edit.loaded.is_public}]}
             ELSE {}
BY DEF WantedBy

LEMMA SessionIsItsEdit ==
    ASSUME IInv, NEW e \in Editors, NEW edit \in editor[e]
    PROVE  editor[e] = {edit} /\ Wanted[e] = WantedBy({edit})
BY DEF IInv, SessionsHoldOne, Wanted

LEMMA CreateRefines ==
    ASSUME IInv, NEW b \in Boards, NEW dashboard \in Dashboard, create_dashboard(b, dashboard)
    PROVE  Store!Create(b)
<1>1. /\ dashboard.organization_id \in Orgs /\ dashboard.name \in Names
      /\ dashboard.is_public \in BOOLEAN
      /\ dashboard = [organization_id |-> dashboard.organization_id,
                      name |-> dashboard.name, is_public |-> dashboard.is_public]
  BY DEF Dashboard
<1>2. Wanted' = Wanted
  BY DEF create_dashboard, Wanted
<1> QED
  BY <1>1, <1>2 DEF create_dashboard, Store!Create

LEMMA LoadRefines ==
    ASSUME IInv, NEW e \in Editors, NEW b \in Boards, NEW org \in Orgs,
           NEW task \in {"update", "add_widget", "delete"}, NEW object \in Dashboard,
           get_dashboard(e, b, org, task, object)
    PROVE  Store!Ask(e, b, object.name, object.is_public) \/ UNCHANGED Store!storeVars
<1> DEFINE edit == [task |-> task, organization_id |-> org, dashboard |-> b,
                    loaded |-> row[b], object |-> object]
<1>1. /\ b \in live /\ editor[e] = {}
      /\ editor' = [editor EXCEPT ![e] = {edit}]
      /\ UNCHANGED boardVars
  BY DEF get_dashboard, BoardsByIdAndOrg
<1>2. /\ edit.task = task /\ edit.dashboard = b
      /\ edit.loaded = row[b] /\ edit.object = object
  OBVIOUS
<1> HIDE DEF edit
<1>3. Wanted' = [Wanted EXCEPT ![e] = WantedBy({edit})] /\ Wanted[e] = {}
  BY <1>1, WantedMoves DEF Wanted, WantedBy
<1>4. CASE task = "update"
  BY <1>1, <1>2, <1>3, <1>4, WantedByOne DEF boardVars, Store!Ask
<1>5. CASE task # "update"
  <2>1. Wanted' = Wanted
    BY <1>2, <1>3, <1>5, WantedByOne DEF Wanted
  <2> QED
    BY <1>1, <2>1 DEF boardVars, Store!storeVars
<1> QED
  BY <1>4, <1>5

LEMMA UpdateRefines ==
    ASSUME IInv, NEW e \in Editors, update_dashboard(e)
    PROVE  Store!TakeEffect(e) \/ Store!Forget(e)
<1>1. PICK edit \in editor[e] :
         /\ edit.task = "update"
         /\ row' = IF edit.dashboard \in live
                   THEN [row EXCEPT ![edit.dashboard] = FlushColumns(@, edit.loaded, edit.object)]
                   ELSE row
  BY DEF update_dashboard
<1>2. editor' = [editor EXCEPT ![e] = {}] /\ UNCHANGED <<live, gone, widgets>>
  BY DEF update_dashboard
<1>3. Wanted' = [Wanted EXCEPT ![e] = {}]
  BY <1>2, WantedEnds
<1> DEFINE b == edit.dashboard
           want == [dashboard |-> b,
                    name |-> {edit.object.name} \ {edit.loaded.name},
                    is_public |-> {edit.object.is_public} \ {edit.loaded.is_public}]
           flushed == FlushColumns(row[b], edit.loaded, edit.object)
<1>4. Wanted[e] = {want}
  BY <1>1, SessionIsItsEdit, WantedByOne
<1>5. CASE b \in live
  <2>1. b \in Boards /\ row \in [Boards -> Dashboard] /\ row[b] \in Dashboard
        /\ edit.loaded \in Dashboard /\ edit.object \in Dashboard
    BY DEF IInv, TypeOK, Edit
  <2>2. /\ flushed \in Dashboard
        /\ flushed.organization_id = row[b].organization_id
        /\ flushed.name = IF edit.object.name = edit.loaded.name
                          THEN row[b].name ELSE edit.object.name
        /\ flushed.is_public = IF edit.object.is_public = edit.loaded.is_public
                               THEN row[b].is_public ELSE edit.object.is_public
    BY <2>1, FlushedRow
  <2>3. row' = [row EXCEPT ![b] = flushed]
    BY <1>1, <1>5
  <2>4. want.dashboard = b
        /\ flushed.name \in Store!Obtained(want.name, row[b].name)
        /\ flushed.is_public \in Store!Obtained(want.is_public, row[b].is_public)
    BY <2>2 DEF Store!Obtained
  <2> HIDE DEF want, flushed
  <2>5. flushed = [row[b] EXCEPT !.name = flushed.name, !.is_public = flushed.is_public]
    BY <2>1, <2>2 DEF Dashboard
  <2>6. row' = [row EXCEPT ![b].name = flushed.name, ![b].is_public = flushed.is_public]
    BY <2>1, <2>3, <2>5
  <2>7. want \in Wanted[e] /\ want.dashboard \in live
    BY <1>4, <1>5, <2>4
  <2> QED
    BY <1>2, <1>3, <2>4, <2>6, <2>7 DEF Store!TakeEffect
<1>6. CASE b \notin live
  BY <1>1, <1>2, <1>3, <1>6 DEF Store!Forget
<1> QED
  BY <1>5, <1>6

LEMMA AddRefines ==
    ASSUME IInv, NEW e \in Editors, NEW w \in Widgets,
           NEW name \in EventNames \cup {NoEventName}, create_widget(e, w, name)
    PROVE  (\E b \in Boards : Store!AddWidget(b, w)) \/ UNCHANGED Store!storeVars
<1>1. PICK edit \in editor[e] :
         /\ edit.task = "add_widget"
         /\ widgets' = IF ForeignKeyHolds(edit.dashboard)
                       THEN widgets \cup {[id |-> w, dashboard_id |-> edit.dashboard,
                                           event_name |-> name]}
                       ELSE widgets
  BY DEF create_widget
<1>2. /\ w \notin spent
      /\ editor' = [editor EXCEPT ![e] = {}]
      /\ UNCHANGED <<live, gone, row>>
  BY DEF create_widget
<1>3. Wanted' = Wanted
  <2>1. Wanted[e] = {}
    BY <1>1, SessionIsItsEdit, WantedByOne
  <2>2. Wanted' = [Wanted EXCEPT ![e] = {}]
    BY <1>2, WantedEnds
  <2> QED
    BY <2>1, <2>2 DEF Wanted
<1>4. \A other \in widgets : other.id # w
  BY <1>2 DEF IInv, IdsAreUnique
<1>5. edit.dashboard \in Boards
  BY DEF IInv, TypeOK, Edit
<1> QED
  BY <1>1, <1>2, <1>3, <1>4, <1>5 DEF ForeignKeyHolds, Store!AddWidget, Store!storeVars

LEMMA DeleteRefines ==
    ASSUME IInv, NEW e \in Editors, delete_dashboard(e)
    PROVE  (\E b \in Boards : Store!Delete(b)) \/ UNCHANGED Store!storeVars
<1>1. PICK edit \in editor[e] :
         /\ edit.task = "delete"
         /\ live' = live \ {edit.dashboard}
         /\ gone' = gone \cup {edit.dashboard}
         /\ widgets' = {w \in widgets : w.dashboard_id # edit.dashboard}
  BY DEF delete_dashboard, CascadedWidgets
<1>2. editor' = [editor EXCEPT ![e] = {}] /\ row' = row
  BY DEF delete_dashboard
<1>3. Wanted' = Wanted
  <2>1. Wanted[e] = {}
    BY <1>1, SessionIsItsEdit, WantedByOne
  <2>2. Wanted' = [Wanted EXCEPT ![e] = {}]
    BY <1>2, WantedEnds
  <2> QED
    BY <2>1, <2>2 DEF Wanted
<1>4. edit.dashboard \in Boards /\ edit.dashboard \in live \cup gone
  BY DEF IInv, TypeOK, Edit, SessionsStayHome
<1>5. CASE edit.dashboard \in live
  BY <1>1, <1>2, <1>3, <1>4, <1>5 DEF Store!Delete
<1>6. CASE edit.dashboard \notin live
  <2>1. widgets' = widgets
    BY <1>1, <1>6 DEF IInv, WidgetsHaveHomes
  <2> QED
    BY <1>1, <1>2, <1>3, <1>4, <1>6, <2>1 DEF Store!storeVars
<1> QED
  BY <1>5, <1>6

LEMMA OthersRefine ==
    ASSUME IInv
    PROVE  /\ \A e \in Editors : DropEdit(e) => Store!Forget(e)
           /\ \A v \in Viewers : ViewStep(v) => UNCHANGED Store!storeVars
           /\ \A id \in Events, org \in Orgs, name \in EventNames :
                 create_events_batch(id, org, name) => UNCHANGED Store!storeVars
           /\ UNCHANGED vars => UNCHANGED Store!storeVars
<1>1. ASSUME NEW e \in Editors, DropEdit(e) PROVE Store!Forget(e)
  <2>1. Wanted' = [Wanted EXCEPT ![e] = {}]
    BY <1>1, WantedEnds DEF DropEdit
  <2> QED
    BY <1>1, <2>1 DEF DropEdit, boardVars, Store!Forget
<1>2. editor' = editor => Wanted' = Wanted
  BY DEF Wanted
<1>3. ASSUME NEW v \in Viewers, ViewStep(v) PROVE UNCHANGED Store!storeVars
  BY <1>2, <1>3 DEF ViewStep, get_widget_data, get_public_widget_data, OpenView,
     query_time_series_data, CloseView, boardVars, Store!storeVars
<1>4. ASSUME NEW id \in Events, NEW org \in Orgs, NEW name \in EventNames,
             create_events_batch(id, org, name)
      PROVE  UNCHANGED Store!storeVars
  BY <1>2, <1>4 DEF create_events_batch, boardVars, Store!storeVars
<1>5. UNCHANGED vars => UNCHANGED Store!storeVars
  BY <1>2 DEF vars, boardVars, Store!storeVars
<1> QED
  BY <1>1, <1>3, <1>4, <1>5

LEMMA StoreStep == IInv /\ [Next]_vars => [Store!Next]_Store!storeVars
<1> SUFFICES ASSUME IInv, [Next]_vars PROVE [Store!Next]_Store!storeVars
  OBVIOUS
<1>1. ASSUME NEW b \in Boards, NEW dashboard \in Dashboard, create_dashboard(b, dashboard)
      PROVE  Store!Next
  BY <1>1, CreateRefines DEF Store!Next
<1>2. ASSUME NEW e \in Editors, EditStep(e) PROVE [Store!Next]_Store!storeVars
  <2>1. ASSUME NEW b \in Boards, NEW org \in Orgs, NEW object \in Dashboard,
               NEW task \in {"update", "add_widget", "delete"},
               get_dashboard(e, b, org, task, object)
        PROVE  [Store!Next]_Store!storeVars
    <3>1. object.name \in Names /\ object.is_public \in BOOLEAN
      BY DEF Dashboard
    <3> QED
      BY <2>1, <3>1, LoadRefines DEF Store!Next
  <2>2. ASSUME NEW w \in Widgets, NEW name \in EventNames \cup {NoEventName},
               create_widget(e, w, name)
        PROVE  [Store!Next]_Store!storeVars
    BY <2>2, AddRefines DEF Store!Next
  <2>3. CASE update_dashboard(e)
    BY <2>3, UpdateRefines DEF Store!Next
  <2>4. CASE delete_dashboard(e)
    BY <2>4, DeleteRefines DEF Store!Next
  <2>5. CASE DropEdit(e)
    BY <2>5, OthersRefine DEF Store!Next
  <2> QED
    BY <1>2, <2>1, <2>2, <2>3, <2>4, <2>5 DEF EditStep
<1> QED
  BY <1>1, <1>2, OthersRefine DEF Next

\* Sessions that load, wait and write behave like a store whose edits carry no
\* copy of the dashboard.
THEOREM DashboardsImplementStore == Spec => ImplementsStore
BY BoardsInvariant, StoreInit, StoreStep, PTL DEF Spec, Store!Spec, ImplementsStore

=============================================================================
