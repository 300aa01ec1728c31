\* Two sessions edit one dashboard and its widget while its chart is read.
SPECIFICATION Spec
CONSTANTS
    Orgs = {o1, o2}
    Boards = {b1, b2}
    Widgets = {w1}
    Names = {n1}
    EventNames = {"signup"}
    NoEventName = ""
    Editors = {e1, e2}
    Viewers = {v1}
    Events = {1}
INVARIANTS
    WidgetsHaveHomes
    ChartsStayHome
PROPERTIES
    ChangesAreAsked
    ImplementsStore
    PrivateStaysHidden
CHECK_DEADLOCK FALSE
