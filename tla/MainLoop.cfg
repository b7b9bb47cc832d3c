CONSTANTS
    Kinds = {"motion", "button", "other"}
    MaxEvents = 3
    None = None
SPECIFICATION FairSpec
INVARIANTS
    NoSleepOverWork
    LeftoverWorkWakesUp
    MotionInOrder
PROPERTY EventsAreHandled
