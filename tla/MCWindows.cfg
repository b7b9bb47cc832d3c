CONSTANTS
    Window = {w1, w2, w3}
    None = None
    MaxDepth = 3
    Layout <- MCLayout
    ScreenClient = {c1}
    Position = {0, 2}
    MaxScreens = 4
    MaxScreenCalls = 4
    NoScreen = NoScreen
    AreaClient = {c1}
    AreaDrawin = {d1}
    AreaScreen = {1, 2}
    Strut <- MCStrut
    NoStrut <- MCNoStrut
    ScreenWidth = 4
    MaxAreaCalls = 4
    MaxNesting = 2
    MaxWidth = 3
    MaxX = 1
    MaxBar = 2
    MaxDrawCalls = 5
    MaxPixmaps = 6
    MaxSettings = 3
    MaxProgramSteps = 4
    NoPixmap = NoPixmap
    Process = {p1, p2, p3}
    MaxStarts = 4
    Nobody = Nobody
SPECIFICATION WindowsSpec
CHECK_DEADLOCK FALSE
INVARIANTS
    NoTransientLoop
    TransientForIsLive
    OneLayerUnlessCrossed
    LayerChangesRestack
    ScreensInv
    WorkareaInv
    DrawingInv
    WallpaperInv
    TakeoverInv
PROPERTY ListsFollowTheRelation
