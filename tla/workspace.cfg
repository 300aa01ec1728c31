\* A member and a colleague share two boards and a widget.
SPECIFICATION Spec
CONSTANTS
    Boards = {b1, b2}
    Widgets = {w1}
INVARIANTS
    ListIsSound
    DroppedStaysOff
PROPERTIES
    SettingsStayPut
SYMMETRY WorkspaceSymmetry
