SPECIFICATION Spec
CONSTANTS
    Handles = {h1, h2, h3}
    NoWindow = nowindow
    MaxCalls = 4
INVARIANTS
    ForeignSpared
PROPERTIES
    LaunchedIsManaged
SYMMETRY Symmetry
CHECK_DEADLOCK FALSE
