CONSTANTS
    R = 3
    Packets = 4
    Endless = TRUE
    Reinits = 2
SPECIFICATION StreamRingSpec
PROPERTIES AllTaken
CHECK_DEADLOCK FALSE
