----------------------------- MODULE MCAbiTree -----------------------------
(* A writer and a reader with trees of their own, or a reader that searches *)
(* a branch: the two share nothing, an instance does the one or the other.  *)
(* With the sizes below a node with one x has 127 bytes, one with two keys  *)
(* more than 0x7f, one with y more than 0x3fff.                             *)
EXTENDS AbiTree, AbiMatch, TLC

VARIABLE searching

Capacity == [c \in Contexts |-> CASE c = "writer" -> 4 [] c = "reader" -> 3 [] OTHER -> 5]
KeyBytes == [k \in Keys |-> CASE k = "dir" -> 128 [] k = "x" -> 1 [] k = "y" -> 3]
ValBytes == [k \in Keys |-> CASE k = "dir" -> 0 [] k = "x" -> 125 [] k = "y" -> 16384]
RoomBytes == [k \in Keys |-> CASE k = "dir" -> 200 [] k = "x" -> 125 [] k = "y" -> 100]

SomeKey(size, parts) == [size |-> size, parts |-> parts]
(* The keys of the program fit one part; the empty key has none.            *)
Empty == SomeKey(0, <<>>)
ShortKeys == {Empty, SomeKey(4, <<"a">>), SomeKey(4, <<"b">>), SomeKey(8, <<"a">>)}

ReaderInit ==
    /\ TreeInit /\ MatchInit /\ searching \in BOOLEAN
    /\ ~searching => key = [n \in Nodes |-> Empty] /\ want = Empty /\ \A n \in Nodes : match[n] = 0
Build == ~searching /\ TreeNext /\ UNCHANGED <<matchVars, searching>>
Search == searching /\ MatchNext /\ UNCHANGED <<nodes, searching>>
ReaderSpec == ReaderInit /\ [][Build \/ Search]_<<nodes, matchVars, searching>>
=============================================================================
