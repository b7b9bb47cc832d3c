CONSTANTS
    Acquire = {a1, a2}
    Watcher = {w1}
    MaxOwnerChanges = 4
    MaxReleases = 2
    None = None
    Pid = {pid1, pid2}
    Launch = {l1, l2}
    MaxSpawns = 2
    MaxPipe = 1
    MaxMessages = 2
    Body <- MCBody
    Result <- MCResult
    MaxInbox = 1
    Obj = {o1, o2}
    Func = {f1, f2}
    Signal = {"new", "x", "x::connected"}
    Announced <- MCAnnounced
    Class = Class
    Nil = Nil
    MaxObjectCalls = 5
    MaxEmissions = 2
    Texts <- MCTexts
    Name <- MCName
    ReadMax = 16
    KeyMax = 5
    HasArgument <- MCHasArgument
    Force <- OptionF
    CommandLines <- MCCommandLines
    MaxConfigs = 2
SPECIFICATION ServicesSpec
CHECK_DEADLOCK FALSE
INVARIANTS
    OwnershipInv
    SpawnInv
    DbusInv
    ObjectsInv
    OptionsInv
