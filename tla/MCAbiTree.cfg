CONSTANTS
    Contexts = {"writer", "reader"}
    Size <- Capacity
    Containers = {"dir"}
    Leaves = {"x", "y"}
    KeySize <- KeyBytes
    ValSize <- ValBytes
    Room <- RoomBytes
    N = 4
    Parts = {"a", "b"}
    KeySet <- ShortKeys
SPECIFICATION ReaderSpec
INVARIANTS SizesAreExact ReadsWhatItKnows FirstMatch
PROPERTIES GrowsATree
CHECK_DEADLOCK FALSE
