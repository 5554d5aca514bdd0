SPECIFICATION FairSpec
CONSTANTS
    MaxFrames = 1
    Empty = Empty
    NoFrame = NoFrame
PROPERTY
    EitherSideEndsSession
