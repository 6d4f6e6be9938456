CONSTANTS
    Max = 1
    MaxFd = 2
    Kinds = {"socket","listen"}
    Preset <- NoPreset
    Faults = {}
    Sessions = TRUE
    MaxLimit = 0
SPECIFICATION FairSpec
PROPERTIES PassEnds
