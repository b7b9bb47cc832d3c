CONSTANTS
    Window = {w1, w2, w3}
    MaxChanges = 5
    MaxLives = 2
    None = None
    EwmhClient = {c1, c2}
    Desktop = {t1, t2}
    Settable = {"sticky", "maximized_horizontal"}
    NoHint = NoHint
    MaxEwmhCalls = 4
    MaxAsked = 1
    MaxEwmhNesting = 2
SPECIFICATION LivesSpec
SYMMETRY Symmetry
CHECK_DEADLOCK FALSE
INVARIANT EwmhInv
PROPERTY ClientsLiveOn
