------------------------------ MODULE MCViewer ------------------------------
EXTENDS Viewer

Window(dx, dy, sx, sy, w, h, m) ==
    [mode |-> m, dim_x |-> dx, dim_y |-> dy, startx |-> sx, starty |-> sy, ww |-> w, wh |-> h]
AllModes == UNION {{Window(32, 8, 0, 0, 32, 8, m), Window(32, 24, 16, 16, 16, 6, m),
                    Window(20, 6, 0, 0, 20, 6, m), Window(32, 24, 16, 0, 10, 4, m)} : m \in 0 .. 4}
            \cup {Window(20, 6, 0, 0, 20, 6, 5)}
Small == Window(4, 6, 0, 0, 4, 4, 4)
Larger == Window(4, 6, 0, 0, 4, 6, 4)
AllJobs == AllModes \cup {Small, Larger}

Command(name) == [name |-> name, newline |-> TRUE]
Key(name) == [name |-> name, newline |-> FALSE]

Bytes(format, n) == [format |-> format, size |-> n]
Packed == {Bytes(0, 2), Bytes(1, 44), Bytes(2, 24), Bytes(3, 4), Bytes(4, 6)}
AllFrames == Packed

Test == [commands |-> {Command(n) : n \in {"TEST", "EXP", "DUMPRAW"}}, jobs |-> {Small},
         formats |-> {Bytes(0, 2)}, frames |-> -1, library |-> FALSE]
VideoFiles == [commands |-> {Key("VIDEO:START"), Key("VIDEO:FINISH"), Command("STOP")}, jobs |-> {Small, Larger},
         formats |-> {Bytes(0, 2)}, frames |-> 4, library |-> FALSE]
RawVideo == [commands |-> {Command(n) : n \in {"RAWVIDEO:START", "RAWVIDEO:FINISH", "DUMPYUV", "STOP"}}, jobs |-> {Small},
         formats |-> {Bytes(0, 2)}, frames |-> 4, library |-> FALSE]
Unpacking == [commands |-> {Command("DUMPRAW")}, jobs |-> {Small}, formats |-> Packed,
         frames |-> 2, library |-> FALSE]
Pictures == [commands |-> {}, jobs |-> AllModes, formats |-> {Bytes(0, 2)},
         frames |-> 1, library |-> FALSE]
LibraryUse == [commands |-> {}, jobs |-> {Small}, formats |-> {Bytes(0, 2)}, frames |-> 0, library |-> TRUE]
AllScenarios == {Test, VideoFiles, RawVideo, Unpacking, Pictures, LibraryUse}
TestOnly == {Test}
=============================================================================
