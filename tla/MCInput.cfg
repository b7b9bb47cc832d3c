CONSTANTS
    Client = {c1, c2}
    Tag = {t1, t2}
    None = None
    InactiveTagsInUse = FALSE
    Modulus = 10
    MayStraddle = FALSE
    MaxRequests = 22
    MaxBehind = 4
    MaxPointerSteps = 5
    code1 = code1
    code2 = code2
    sym1 = sym1
    sym2 = sym2
    Code <- MCCode
    Sym <- MCSym
    Keymaps <- MCKeymaps
    Modifiers = {"none", "shift"}
    KeyObject = {o1, o2}
    Group = {0, 1}
    KeyClient = {k1, k2}
    MaxKeyCalls = 4
    NoKey = NoKey
    Callback = {f, g}
    Typed = {"a", "b", "c"}
    KeyBinding = {"a", "b", "ab"}
    KeyOf <- MCKeyOf
    KeyLists <- MCKeyLists
    MaxTyped = 2
    MaxKeygrabs = 5
    NoCallback = NoCallback
    NoEvent = NoEvent
    Icon = {i1, i2}
    TrayDrawin = {d1, d2}
    TrayRows = {2}
    MaxIconCalls = 3
    MaxTrayRequests = 1
    NoDrawin = NoDrawin
SPECIFICATION InputSpec
CHECK_DEADLOCK FALSE
INVARIANTS
    BanningFollowsVisibility
    FocusReachesTheServer
    TagsHoldManagedClients
    EnterLeaveInv
    PointerInv
    KeyboardInv
    KeygrabberInv
    TrayInv
