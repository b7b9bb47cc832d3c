CONSTANTS
    Client = {c1, c2, c3}
    NoInput = {c1, c3}
    TakesFocus = {c1}
    SelfFocusing = {c3}
    Mortal = {c1, c2}
    LuaUnfocuses = TRUE
    MaxChanges = 3
    MaxTime = 1
    None = None
    RootWindow = RootWindow
    NoFocus = NoFocus
SPECIFICATION FairSpec
CHECK_DEADLOCK FALSE
INVARIANT FocusInv
PROPERTY FocusBecomesQuiet
