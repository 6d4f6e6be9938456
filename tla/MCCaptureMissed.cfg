CONSTANTS
    Frames = 3
    Pieces = 1
    Endless = TRUE
    Wanted = 2
    MaxFiles = 0
    ClearBuff = FALSE
    Lossy = FALSE
SPECIFICATION FairCaptureSpec
PROPERTIES Recorded
CHECK_DEADLOCK FALSE
