CONSTANTS
    Frames = 4
    Pieces = 2
    Endless = TRUE
    Wanted = 4
    MaxFiles = 4
    ClearBuff = FALSE
    Lossy = TRUE
SPECIFICATION FairCaptureSpec
INVARIANTS Whole
PROPERTIES Undisturbed EndsOrMissed
CHECK_DEADLOCK FALSE
