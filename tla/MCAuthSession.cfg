CONSTANTS
    Sides = {"cam", "client"}
    Peer <- Opposite
    Modes = {{}, {"cam"}, {"cam", "client"}}
    Users = {"ann", "bob", "eve"}
    Secrets = {"pwd", ""}
    NoSecret = ""
    Nameless = nameless
    Known <- Accounts
    Wire = 1
    MaxData = 3
    Clients = {c1, c2}
    Bufs = {b1, b2, b3}
    C = 3
    Units = 2
    Chunks = 4
    Reuse = TRUE
    None = none
SPECIFICATION ServerSpec
INVARIANTS OpenIsKnown QuietIsOpen DataIsHeard CountsAreSenders StaysWhole NoneLeft
PROPERTIES GateSettles NewestNext
CHECK_DEADLOCK FALSE
