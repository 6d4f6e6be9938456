CONSTANTS
    R = 2
    Packets = 2
    Endless = TRUE
    Reinits = 1
    Clips <- Packets4
    Announcements <- Announced
    Wanted <- Ours
    IFS_NUM_MCL = 3
    CL_NUM_MCL = 1
SPECIFICATION ClientSpec
INVARIANTS TableIsAnnounced CommandsToAnnounced DumpsItsOwn
PROPERTIES IsAQueue AllTaken StopEnds
CHECK_DEADLOCK FALSE
