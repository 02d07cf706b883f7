SPECIFICATION FairSpec
CONSTANTS
    Requests <- MCRequests
    Frames <- MCFrames
    Writers = {server, reader}
    Worker = Worker
    Nobody = Nobody
    BufSize = 16
    PinSize = 3
    MemSize = 2
    Short = 1
    Medium = 2
    MaxFrames = 2
INVARIANTS BodyIsRead StaysOpen
PROPERTIES ImplementsFrames FramesAreWhole Answered WorkerIsFreed
CHECK_DEADLOCK FALSE
