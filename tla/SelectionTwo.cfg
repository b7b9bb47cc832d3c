CONSTANTS
    Window = {w1}
    Property = {p1, p2}
    AwesomeAsks = {}
    AwesomeOwns = {w1}
    MaxPiece = 2
    MaxSend = 2
    MaxData = 2
SPECIFICATION FairSpec
CHECK_DEADLOCK FALSE
PROPERTY TransfersEnd
