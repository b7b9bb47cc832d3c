CONSTANTS
    Place = {0}
    Width = {2, 6}
    BorderSize = {0, 2}
    BarSize = {0, 2}
    SizeHints <- MCSizeHints
    None = None
    Screen <- MCScreen
    MaxWidth = 8
    MaxPending = 2
SPECIFICATION Spec
INVARIANTS
    ContentFits
    AppIsInformed
PROPERTY PlacesAreKept
