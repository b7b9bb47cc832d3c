CONSTANTS
    Window = {w1, w2}
    Property = {p1}
    AwesomeAsks = {w1}
    AwesomeOwns = {w2}
    MaxPiece = 2
    MaxSend = 3
    MaxData = 4
SPECIFICATION FairSpec
CHECK_DEADLOCK FALSE
INVARIANT SelectionInv
PROPERTIES
    TransfersEnd
    ImplementsStream
