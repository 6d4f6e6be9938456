CONSTANTS
    Jobs <- AllJobs
    Frames <- AllFrames
    Scenarios <- TestOnly
    MaxIdx = 3
    IdxMax = 2
    Ops = 6
    HeaderLen = 6
    Lens = {1, 4}
    MaxFrames = 1
    Commands = 3
    Tests = 2
    Steps = 2
    Skip = 1
SPECIFICATION ViewerSpec
PROPERTY TestEnds
CHECK_DEADLOCK FALSE
