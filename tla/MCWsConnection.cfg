SPECIFICATION Spec
CONSTANTS
    Frames <- AllFrames
    Args <- EitherArgs
    MaxFrames = 3
INVARIANTS MessagesInv ClosesWhenItHasTo PingsAreAnswered EchoIsReadable
PROPERTIES LeavingEndsListener
