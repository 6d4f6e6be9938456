CONSTANTS
    Max = 3
    MaxFd = 4
    Kinds = {}
    Preset <- ServerPreset
    Faults = {"send"}
    Sessions = TRUE
    MaxLimit = 0
SPECIFICATION PassSpec
INVARIANTS IndexMaps DescriptorsOwned PendingPolled NobodySkipped
PROPERTIES SurvivorsKeepSlot
