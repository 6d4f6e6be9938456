CONSTANTS
    Peers = {"cam", "client"}
    Other <- Opposite
    Packets = {"f1", "f2", "f3", "empty", "c1", "c3"}
    From <- SenderOf
    Body <- BodyLength
    Header = 2
    TxMax = 6
    RxMax = 3
    Wire = 3
    Commands = {"c3"}
SPECIFICATION FairStreamSpec
INVARIANTS TornNeedsCut StallIsMutual
PROPERTIES ImplementsChannel TakenArrives
CHECK_DEADLOCK FALSE
