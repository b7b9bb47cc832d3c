CONSTANTS
    Client = {c1, c2, c3}
    Dialog = {c2, c3}
    Desktop = {c1}
    Layered = {c2}
    Drawin = {d1}
    Special = {"fullscreen", "ontop"}
    Nobody = Nobody
    Data <- MCData
    Pixmaps <- MCPixmaps
    Surfaces <- MCSurfaces
    Preferred = {0, 1, 2, 3}
    MaxIconSteps = 3
    NoIcon = NoIcon
    ColorString <- MCColors
    Visual <- MCVisuals
    Garbage = {1}
    MaxCells = 2
    MaxColorSteps = 4
    NoString = NoString
    NoPixel = NoPixel
    XName = {"size"}
    Kept = {"floating", "single_instance_id"}
    XWindow = {root, w1}
    Root = root
    TypeOf <- MCTypeOf
    ValueOf <- MCValueOf
    Nil = Nil
    Foreign = Foreign
    MaxXCalls = 4
SPECIFICATION ClientsSpec
CHECK_DEADLOCK FALSE
SYMMETRY Symmetry
INVARIANTS
    StackingInv
    AppearanceInv
    XpropertiesInv
