---------------------------- MODULE Dashboards ----------------------------
(***************************************************************************)
(* Dashboards and their widgets (services/dashboard.py): members of an     *)
(* organization create, edit, share and delete them; members, and for a    *)
(* public dashboard anybody, read a widget's chart of the telemetry.       *)
(*                                                                         *)
(* Every request owns a SQLAlchemy session.  PUT, DELETE and the POST of a *)
(* widget first load the dashboard under the caller's organization and     *)
(* write in a later round trip; a chart is computed by a second query, of  *)
(* the events table, after the one that checks access to the widget.  One  *)
(* action is one round trip that others can observe.                       *)
(*                                                                         *)
(* The columns name and description are treated alike by the code; name    *)
(* stands for both.  Of a widget's query_config the event name is kept.    *)
(***************************************************************************)
EXTENDS FiniteSets

CONSTANTS
    Orgs,           \* organizations
    Boards,         \* dashboard ids (uuid4: handed out once)
    Widgets,        \* widget ids (uuid4: handed out once)
    Names,          \* names of dashboards
    EventNames,     \* event names of telemetry and of query_config
    NoEventName,    \* a query_config, which is free JSON, without "event_name"
    Editors,        \* sessions of POST, PUT and DELETE requests
    Viewers,        \* sessions of chart requests
    Events          \* ids of the rows the ingest workers insert

ASSUME BoardConstants ==
    /\ Orgs # {} /\ Names # {}
    /\ NoEventName \notin EventNames

VARIABLES
    live,           \* dashboards with a row
    gone,           \* dashboards whose row was deleted
    row,            \* columns of dashboards, by id (of one that is gone: the last)
    widgets,        \* rows of widgets
    spent,          \* widget ids handed out
    events,         \* rows of events
    editor,         \* what each editing session loaded: {} or one record
    viewer          \* what each chart request knows: {} or one record

boardVars == <<live, gone, row, widgets, spent>>
vars == <<boardVars, events, editor, viewer>>

Dashboard == [organization_id: Orgs, name: Names, is_public: BOOLEAN]
Widget == [id: Widgets, dashboard_id: Boards, event_name: EventNames \cup {NoEventName}]
Event == [id: Events, organization_id: Orgs, event_name: EventNames]

\* An editing session: whose it is, the row as loaded, and the object in
\* memory after the assignments of update_dashboard.
Edit == [task: {"update", "add_widget", "delete"}, organization_id: Orgs,
         dashboard: Boards, loaded: Dashboard, object: Dashboard]

\* A chart request: the widget it may read, whose events it will count, and
\* the rows it counted.
View == [public: BOOLEAN, widget: Widget, target_org_id: Orgs,
         answered: BOOLEAN, counted: SUBSET Event]

TypeOK ==
    /\ live \subseteq Boards
    /\ gone \subseteq Boards
    /\ row \in [Boards -> Dashboard]
    /\ widgets \subseteq Widget
    /\ spent \subseteq Widgets
    /\ events \subseteq Event
    /\ editor \in [Editors -> SUBSET Edit]
    /\ viewer \in [Viewers -> SUBSET View]

\* Rows that never existed hold this value.
NoRow == CHOOSE dashboard \in Dashboard : ~dashboard.is_public

Init ==
    /\ live = {}
    /\ gone = {}
    /\ row = [b \in Boards |-> NoRow]
    /\ widgets = {}
    /\ spent = {}
    /\ events = {}
    /\ editor = [e \in Editors |-> {}]
    /\ viewer = [v \in Viewers |-> {}]

\* The ingest pipeline commits an event.
create_events_batch(id, org, name) ==
    /\ \A event \in events : event.id # id
    /\ events' = events \cup {[id |-> id, organization_id |-> org, event_name |-> name]}
    /\ UNCHANGED <<boardVars, editor, viewer>>

-----------------------------------------------------------------------------
(* Members edit.                                                           *)

create_dashboard(b, dashboard) ==
    /\ b \notin live \cup gone
    /\ live' = live \cup {b}
    /\ row' = [row EXCEPT ![b] = dashboard]
    /\ UNCHANGED <<gone, widgets, spent, events, editor, viewer>>

BoardsByIdAndOrg(b, org) == {b} \cap {c \in live : row[c].organization_id = org}

\* PUT, DELETE and POST of a widget start alike; with no row, 403.  The object
\* becomes what the payload of a PUT makes of the row.
get_dashboard(e, b, org, task, object) ==
    /\ editor[e] = {}
    /\ b \in BoardsByIdAndOrg(b, org)
    /\ object = IF task = "update"
                THEN [row[b] EXCEPT !.name = object.name, !.is_public = object.is_public]
                ELSE row[b]
    /\ editor' = [editor EXCEPT ![e] =
          {[task |-> task, organization_id |-> org, dashboard |-> b,
            loaded |-> row[b], object |-> object]}]
    /\ UNCHANGED <<boardVars, events, viewer>>

\* Mutant: the UPDATE sets every column of the object.
FlushAllColumns(current, loaded, object) == object

\* The UPDATE sets the columns that differ from what was loaded.
FlushColumns(current, loaded, object) ==
    [current EXCEPT
        !.name = IF object.name = loaded.name THEN @ ELSE object.name,
        !.is_public = IF object.is_public = loaded.is_public THEN @ ELSE object.is_public]

\* Without a row the flush, or the refresh, raises: 500 and nothing written.
update_dashboard(e) ==
    /\ \E edit \in editor[e] :
        /\ edit.task = "update"
        /\ row' = IF edit.dashboard \in live
                  THEN [row EXCEPT ![edit.dashboard] = FlushColumns(@, edit.loaded, edit.object)]
                  ELSE row
    /\ editor' = [editor EXCEPT ![e] = {}]
    /\ UNCHANGED <<live, gone, widgets, spent, events, viewer>>

\* Mutant: nothing checks that the dashboard is still there.
WithoutForeignKey(b) == TRUE

\* The foreign key refuses a widget whose dashboard is gone: 500.
ForeignKeyHolds(b) == b \in live

create_widget(e, w, name) ==
    /\ w \notin spent
    /\ spent' = spent \cup {w}
    /\ \E edit \in editor[e] :
        /\ edit.task = "add_widget"
        /\ widgets' = IF ForeignKeyHolds(edit.dashboard)
                      THEN widgets \cup {[id |-> w, dashboard_id |-> edit.dashboard,
                                          event_name |-> name]}
                      ELSE widgets
    /\ editor' = [editor EXCEPT ![e] = {}]
    /\ UNCHANGED <<live, gone, row, events, viewer>>

\* Mutant: the delete takes the widgets of every dashboard along.
CascadeToAll(b) == {}

\* The ORM deletes the widgets it loaded with the dashboard, and the foreign
\* key's ON DELETE CASCADE those that came later.
CascadedWidgets(b) == {w \in widgets : w.dashboard_id # b}

\* A row that is gone already only makes the ORM warn: 204 all the same.
delete_dashboard(e) ==
    /\ \E edit \in editor[e] :
        /\ edit.task = "delete"
        /\ live' = live \ {edit.dashboard}
        /\ gone' = gone \cup {edit.dashboard}
        /\ widgets' = CascadedWidgets(edit.dashboard)
    /\ editor' = [editor EXCEPT ![e] = {}]
    /\ UNCHANGED <<row, spent, events, viewer>>

\* The connection to the database, or the server, goes away.
DropEdit(e) ==
    /\ editor[e] # {}
    /\ editor' = [editor EXCEPT ![e] = {}]
    /\ UNCHANGED <<boardVars, events, viewer>>

-----------------------------------------------------------------------------
(* Charts.                                                                 *)

\* Mutant: the query forgets is_public.
AnyBoard(b) == {b} \cap live

get_public_dashboard(b) == {b} \cap {c \in live : row[c].is_public}

\* The widget, joined with a dashboard of the caller's organization ...
get_widget_with_dashboard(w, b, org) ==
    {x \in widgets : x.id = w /\ x.dashboard_id \in BoardsByIdAndOrg(b, org)}

\* ... or, for a caller who is not signed in, with a public one.
get_public_widget_with_dashboard(w, b) ==
    {x \in widgets : x.id = w /\ x.dashboard_id \in get_public_dashboard(b)}

\* The public route counts the events of the dashboard's organization.
PublicTarget(b) == row[b].organization_id

OpenView(v, public, x, target) ==
    /\ viewer[v] = {}
    /\ x.event_name \in EventNames
    /\ viewer' = [viewer EXCEPT ![v] =
          {[public |-> public, widget |-> x, target_org_id |-> target,
            answered |-> FALSE, counted |-> {}]}]
    /\ UNCHANGED <<boardVars, events, editor>>

get_widget_data(v, w, b, org) ==
    \E x \in get_widget_with_dashboard(w, b, org) : OpenView(v, FALSE, x, org)

get_public_widget_data(v, w, b) ==
    \E x \in get_public_widget_with_dashboard(w, b) :
        OpenView(v, TRUE, x, PublicTarget(b))

\* Mutant: the query forgets the organization.
CountedByName(view) == {event \in events : event.event_name = view.widget.event_name}

Counted(view) ==
    {event \in events : /\ event.organization_id = view.target_org_id
                        /\ event.event_name = view.widget.event_name}

\* time_range_hours leaves out some of the events, the oldest.
query_time_series_data(v) ==
    /\ \E view \in viewer[v], recent \in SUBSET events :
        /\ ~view.answered
        /\ viewer' = [viewer EXCEPT ![v] =
              {[view EXCEPT !.answered = TRUE, !.counted = Counted(view) \cap recent]}]
    /\ UNCHANGED <<boardVars, events, editor>>

\* The response is sent, or the request fails.
CloseView(v) ==
    /\ viewer[v] # {}
    /\ viewer' = [viewer EXCEPT ![v] = {}]
    /\ UNCHANGED <<boardVars, events, editor>>

-----------------------------------------------------------------------------
EditStep(e) ==
    \/ \E b \in Boards, org \in Orgs, object \in Dashboard :
          \E task \in {"update", "add_widget", "delete"} :
             get_dashboard(e, b, org, task, object)
    \/ update_dashboard(e)
    \/ \E w \in Widgets, name \in EventNames \cup {NoEventName} : create_widget(e, w, name)
    \/ delete_dashboard(e)
    \/ DropEdit(e)

ViewStep(v) ==
    \/ \E w \in Widgets, b \in Boards :
          \/ \E org \in Orgs : get_widget_data(v, w, b, org)
          \/ get_public_widget_data(v, w, b)
    \/ query_time_series_data(v)
    \/ CloseView(v)

Next ==
    \/ \E id \in Events, org \in Orgs, name \in EventNames : create_events_batch(id, org, name)
    \/ \E b \in Boards, dashboard \in Dashboard : create_dashboard(b, dashboard)
    \/ \E e \in Editors : EditStep(e)
    \/ \E v \in Viewers : ViewStep(v)

Spec == Init /\ [][Next]_vars

-----------------------------------------------------------------------------
(* Properties.                                                             *)

\* However adding a widget and deleting its dashboard interleave, no widget is
\* left without a dashboard: DELETE promises to "recursively purge its widgets".
WidgetsHaveHomes == \A w \in widgets : w.dashboard_id \in live

\* A chart counts only telemetry of the organization that owns the dashboard,
\* whoever asked for it and whatever happened to the dashboard meanwhile: the
\* "secure public cross-tenant mapping" of get_public_widget_data.
ChartsStayHome ==
    \A v \in Viewers : \A view \in viewer[v] : \A event \in view.counted :
        event.organization_id = row[view.widget.dashboard_id].organization_id

\* A column changes only to what a session of the dashboard's organization
\* asked for after it had seen the other value: an edit that loaded the row
\* before somebody made it private does not publish it again.
AskedFor(b, column) ==
    \E e \in Editors : \E edit \in editor[e] :
        /\ edit.task = "update" /\ edit.dashboard = b
        /\ edit.organization_id = row[b].organization_id
        /\ edit.object[column] = row'[b][column]
        /\ edit.loaded[column] # row'[b][column]

ChangesAreAsked ==
    [][\A b \in live \cap live' : \A column \in {"organization_id", "name", "is_public"} :
          row'[b][column] # row[b][column] => AskedFor(b, column)]_vars

Public(b) == b \in live /\ row[b].is_public

SeenInPublic(b) ==
    \E v \in Viewers : \E view \in viewer[v] : view.public /\ view.widget.dashboard_id = b

\* Who is not signed in never gets a chart of a dashboard that is never public,
\* whatever sessions edit it and whichever dashboards are.
PrivateStaysHidden == \A b \in Boards : []~Public(b) => []~SeenInPublic(b)

-----------------------------------------------------------------------------
(* The abstraction, and the invariant behind it.                           *)

\* What a PUT in flight will change: the columns it loaded with another value.
WantedBy(edits) ==
    {[dashboard |-> edit.dashboard,
      name |-> {edit.object.name} \ {edit.loaded.name},
      is_public |-> {edit.object.is_public} \ {edit.loaded.is_public}] :
        edit \in {edit \in edits : edit.task = "update"}}

Wanted == [e \in Editors |-> WantedBy(editor[e])]

Store == INSTANCE BoardStore WITH
    wanted <- Wanted, EventNames <- EventNames \cup {NoEventName}

\* Sessions that work on copies leave exactly the behaviours of a store whose
\* edits carry no copy.
ImplementsStore == Store!Spec

IdsAreUnique ==
    /\ live \cap gone = {}
    /\ \A w \in widgets : w.id \in spent
    /\ \A w, x \in widgets : w.id = x.id => w = x

\* Every session works on a dashboard of its own organization; the row may be
\* gone, but another organization's it never is.
SessionsStayHome ==
    /\ \A e \in Editors : \A edit \in editor[e] :
          /\ edit.dashboard \in live \cup gone
          /\ edit.organization_id = row[edit.dashboard].organization_id
          /\ edit.object.organization_id = edit.loaded.organization_id
          /\ edit.loaded.organization_id = edit.organization_id
    /\ \A v \in Viewers : \A view \in viewer[v] :
          /\ view.widget.dashboard_id \in live \cup gone
          /\ view.target_org_id = row[view.widget.dashboard_id].organization_id

SessionsHoldOne ==
    /\ \A e \in Editors : \A edit, other \in editor[e] : edit = other
    /\ \A v \in Viewers : \A view, other \in viewer[v] : view = other

\* The inductive invariant: the properties above speak of rows, and what a
\* session will do to them follows from what it loaded.
IInv ==
    /\ TypeOK
    /\ IdsAreUnique
    /\ WidgetsHaveHomes
    /\ SessionsStayHome
    /\ SessionsHoldOne
    /\ ChartsStayHome

=============================================================================
