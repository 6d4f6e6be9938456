CONSTANTS
    Max = 2
    MaxFd = 3
    Kinds = {"reader", "socket", "writer"}
    Preset <- ServerPreset
    Faults = {"fcntl", "malloc", "connect", "send", "listenerr"}
    Sessions = TRUE
    MaxLimit = 2
SPECIFICATION FairSpec
INVARIANTS TypeOK FreeTaskLeft
PROPERTIES PassEnds
