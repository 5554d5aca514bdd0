SPECIFICATION FairSpec
CONSTANTS
    MaxFrames = 3
    Empty = Empty
    NoFrame = NoFrame
INVARIANTS
    TypeOK
    FramesKeepTheirOrder
    NothingIsLostWhileOpen
    SocketsAreReleased
PROPERTIES
    SessionEndsWhenBothClose
    NoTaskIsLeftBehind
