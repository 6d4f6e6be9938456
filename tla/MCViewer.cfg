CONSTANTS
    Jobs <- AllJobs
    Frames <- AllFrames
    Scenarios <- AllScenarios
    MaxIdx = 3
    IdxMax = 2
    Ops = 6
    HeaderLen = 6
    Lens = {1, 4}
    MaxFrames = 1
    Commands = 3
    Tests = 1
    Steps = 2
    Skip = 1
SPECIFICATION ViewerSpec
INVARIANTS PairsInOrder SamplesWhole PictureRight ReadsBack Salvaged IndexPoints
PROPERTY TestEnds
CHECK_DEADLOCK FALSE
