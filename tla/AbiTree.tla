------------------------------ MODULE AbiTree ------------------------------
(***************************************************************************)
(* Packets as trees of nodes: how abi-writer.c links them in an array       *)
(* (abi_insert_node, abi_append_node, abi_append_subnode), what size        *)
(* headers it writes, and what abi-reader.c makes of the bytes with a tree  *)
(* of its own.  A node is linked to its first subnode (next) and to the     *)
(* node after it (neig); -1 is no link.                                     *)
(*                                                                          *)
(* A packet is a sequence of pieces: the bytes of a size header, a key, a   *)
(* value.  Which node a key matches is the first with that key among its    *)
(* neighbours; AbiMatch has the search.                                     *)
(***************************************************************************)
EXTENDS Integers, Sequences, FiniteSets, FiniteSetsExt

CONSTANTS
    Contexts,       \* node arrays (abi_context_t)
    Size,            \* context -> its capacity (abi->max)
    Containers,     \* keys of nodes made of subnodes
    Leaves,         \* keys of nodes with a value of their own
    KeySize,        \* key -> bytes
    ValSize,        \* key -> bytes of the value, 0 for containers
    Room            \* key -> bytes its reader has room for

Keys == Containers \cup Leaves
ASSUME KeyAssumption == Containers \cap Leaves = {}
ASSUME SizeAssumption ==
    /\ KeySize \in [Keys -> Nat] /\ ValSize \in [Keys -> Nat] /\ Room \in [Keys -> Nat]
    /\ \A k \in Containers : ValSize[k] = 0
ASSUME ContextAssumption == Contexts # {} /\ Size \in [Contexts -> Nat]
(* A size header has 30 bits for the size; a node takes at most two of four *)
(* bytes.                                                                   *)
ASSUME PacketAssumption ==
    \A c \in Contexts, k \in Keys : Size[c] * (KeySize[k] + ValSize[k] + 8) < 1073741824

VARIABLE nodes      \* context -> its array: [0 .. last-1 -> key, next, neig]

Node == [key : Keys, next : Int, neig : Int]
Count(c) == Cardinality(DOMAIN nodes[c])

TreeInit == nodes = [c \in Contexts |-> [i \in {} |-> 0]]

(* The array of c with the new node n and field f of node i set to it.      *)
Grow(c, n, i, f) ==
    nodes' = [nodes EXCEPT ![c] =
        [j \in 0 .. Count(c) |->
            IF j = Count(c) THEN n
            ELSE IF j # i THEN nodes[c][j]
            ELSE [nodes[c][j] EXCEPT ![f] = Count(c)]]]

NewNode(k, next, neig) == [key |-> k, next |-> next, neig |-> neig]

(* Fault: the nodes that followed i are not linked to the new one.          *)
InsertNodeLast(c, i, k) ==
    /\ Count(c) < Size[c] /\ i \in 0 .. Count(c) - 1
    /\ Grow(c, NewNode(k, -1, -1), i, "neig")

InsertNode(c, i, k) ==
    /\ Count(c) < Size[c] /\ i \in 0 .. Count(c) - 1
    /\ Grow(c, NewNode(k, -1, nodes[c][i].neig), i, "neig")

(* The node before in the array is linked to the new one, whatever it was   *)
(* linked to.                                                               *)
AppendNode(c, k) ==
    /\ Count(c) < Size[c]
    /\ Grow(c, NewNode(k, -1, -1), Count(c) - 1, "neig")

(* A subnode that i already has becomes a subnode of the new one.           *)
AppendSubnode(c, i, k) ==
    /\ Count(c) < Size[c] /\ i \in 0 .. Count(c) - 1
    /\ nodes[c][i].key \in Containers
    /\ Grow(c, NewNode(k, nodes[c][i].next, -1), i, "next")

(* How the callers build: subnodes into a node that has none yet, and       *)
(* append only where nothing follows.                                       *)
Follows(c) == Count(c) > 0 /\ nodes[c][Count(c) - 1].neig # -1
Filled(c, i) == i \in DOMAIN nodes[c] /\ nodes[c][i].next # -1

Building(c, k) ==
    \/ \E i \in 0 .. Count(c) - 1 : InsertNode(c, i, k)
    \/ ~Follows(c) /\ AppendNode(c, k)
    \/ \E i \in 0 .. Count(c) - 1 : ~Filled(c, i) /\ AppendSubnode(c, i, k)

TreeNext == \E c \in Contexts, k \in Keys : Building(c, k)
TreeSpec == TreeInit /\ [][TreeNext]_nodes

-----------------------------------------------------------------------------
(* The tree the links stand for *)

(* Node i and the nodes after it.                                           *)
Chain(t, i) ==
    LET chain[j \in DOMAIN t \cup {-1}] ==
        IF j = -1 THEN <<>> ELSE <<j>> \o chain[t[j].neig]
    IN chain[i]

Roots(t) == IF DOMAIN t = {} THEN <<>> ELSE Chain(t, 0)
Kids(t, i) == IF i = -1 THEN Roots(t) ELSE Chain(t, t[i].next)
AllKids(t) == [i \in DOMAIN t \cup {-1} |-> Kids(t, i)]

-----------------------------------------------------------------------------
(* Size headers *)

(* Fault: 0x80 is still written in one byte.                                *)
HeaderSizeLoose(n) == (IF n > 128 THEN 2 ELSE 1) + (IF n > 16383 THEN 2 ELSE 0)
HeaderSize(n) == (IF n > 127 THEN 2 ELSE 1) + (IF n > 16383 THEN 2 ELSE 0)

(* abiw_eval_ssize: the bytes of the header for n, in network order.        *)
Header(n) ==
    CASE HeaderSize(n) = 1 -> <<n % 256>>
      [] HeaderSize(n) = 2 -> <<128 + (n \div 256), n % 256>>
      [] OTHER -> <<192 + ((n \div 16777216) % 64), (n \div 65536) % 256,
                      (n \div 256) % 256, n % 256>>

(* abir_get_ssize: the size a header stands for; its first byte says how    *)
(* many bytes it has.                                                       *)
Width(h) == IF h[1] < 128 THEN 1 ELSE IF h[1] < 192 THEN 2 ELSE 4
SizeIn(h) ==
    CASE Width(h) = 1 -> h[1]
      [] Width(h) = 2 -> (h[1] % 64) * 256 + h[2]
      [] OTHER -> (h[1] % 64) * 16777216 + h[2] * 65536 + h[3] * 256 + h[4]

(* Fault: the boundary of the one byte header is not abiw_eval_ssize's.     *)
AdjustedLoose(n) == n + (IF n > 128 THEN 2 ELSE 1) + (IF n > 16383 THEN 2 ELSE 0)

(* abiw_ajust_size: the bytes of a key or value with its header.            *)
Adjusted(n) == n + (IF n > 127 THEN 2 ELSE 1) + (IF n > 16383 THEN 2 ELSE 0)

-----------------------------------------------------------------------------
(* Writing *)

(* abiw_get_node_sizes: the bytes of node i and of the nodes after it.      *)
SizeFrom(t, i) ==
    LET size[j \in DOMAIN t] ==
        Adjusted(KeySize[t[j].key])
        + Adjusted(IF t[j].next # -1 THEN size[t[j].next] ELSE ValSize[t[j].key])
        + (IF t[j].neig # -1 THEN size[t[j].neig] ELSE 0)
    IN size[i]

(* The bytes of the value of node i.                                        *)
ValueSize(t, i) == IF t[i].next # -1 THEN SizeFrom(t, t[i].next) ELSE ValSize[t[i].key]

HeaderPiece(n) == [is |-> "size", bytes |-> Header(n), size |-> Len(Header(n))]
KeyPiece(k) == [is |-> "key", key |-> k, size |-> KeySize[k]]
ValuePieces(i, k) ==
    IF ValSize[k] = 0 THEN <<>> ELSE <<[is |-> "value", of |-> i, size |-> ValSize[k]]>>

(* abiw_write_recursive *)
Written(t, i) ==
    LET written[j \in DOMAIN t] ==
        <<HeaderPiece(KeySize[t[j].key]), KeyPiece(t[j].key), HeaderPiece(ValueSize(t, j))>>
        \o (IF t[j].next # -1 THEN written[t[j].next] ELSE ValuePieces(j, t[j].key))
        \o (IF t[j].neig # -1 THEN written[t[j].neig] ELSE <<>>)
    IN written[i]

(* The bytes of the first n pieces.                                         *)
Bytes(pieces, n) ==
    LET bytes[m \in 0 .. Len(pieces)] == IF m = 0 THEN 0 ELSE bytes[m - 1] + pieces[m].size
    IN bytes[n]

-----------------------------------------------------------------------------
(* Reading *)

(* The reader's place in a packet is the piece that comes next, or Lost     *)
(* when it has stopped inside one.  Skipped is its place n bytes after p.   *)
Lost == 0
Skipped(pieces, p, n) ==
    LET ends == {q \in p .. Len(pieces) + 1 : Bytes(pieces, q - 1) = Bytes(pieces, p - 1) + n} IN
    IF ends = {} THEN Lost ELSE Min(ends)

Match(t, chain, k) ==
    LET m == {j \in DOMAIN chain : t[chain[j]].key = k} IN
    IF m = {} THEN -1 ELSE chain[Min(m)]

Lesser(a, b) == IF a < b THEN a ELSE b

(* What is handed out of a value of n bytes to node m.                      *)
Handed(t, m, n) ==
    [node |-> m, size |-> Lesser(n, Room[t[m].key]), tail |-> n - Lesser(n, Room[t[m].key])]

(* A key and the header of its value are next, and whole.                   *)
IsNode(pieces, p) ==
    /\ p # Lost /\ p + 2 <= Len(pieces)
    /\ pieces[p].is = "size" /\ pieces[p + 1].is = "key" /\ pieces[p + 2].is = "size"
    /\ \A j \in {p, p + 2} : Len(pieces[j].bytes) = Width(pieces[j].bytes)

(* abir_process_node with the tree t, at p, among the subnodes of j: what   *)
(* it hands out, where it stops, and the bytes it used; read is how it      *)
(* reads subnodes.                                                          *)
ReadNode(t, pieces, p, j, read) ==
    LET n == SizeIn(pieces[p + 2].bytes)
        m == Match(t, Kids(t, j), pieces[p + 1].key)
        inner == read[[among |-> m, from |-> p + 3, left |-> n]]
        used == pieces[p].size + pieces[p + 1].size + pieces[p + 2].size + n IN
    IF m = -1
    THEN [out |-> <<>>, rest |-> Skipped(pieces, p + 3, n), used |-> used]
    ELSE IF t[m].next # -1
    THEN [out |-> Append(inner.out, [node |-> m]), rest |-> inner.rest, used |-> used]
    ELSE [out |-> <<Handed(t, m, n)>>, rest |-> Skipped(pieces, p + 3, n), used |-> used]

Torn == [node |-> -1]       \* stands for what the reader stops at

(* Nodes until n bytes are used (abir_read_size).                           *)
ReadNodes(t, pieces, n) ==
    LET read[x \in [among : DOMAIN t \cup {-1}, from : 0 .. Len(pieces) + 1, left : Int]] ==
        IF x.left <= 0 \/ x.from > Len(pieces)
        THEN [out |-> IF x.left = 0 THEN <<>> ELSE <<Torn>>, rest |-> x.from]
        ELSE IF ~IsNode(pieces, x.from) THEN [out |-> <<Torn>>, rest |-> Lost]
        ELSE LET r == ReadNode(t, pieces, x.from, x.among, read)
                 s == read[[x EXCEPT !.from = r.rest, !.left = @ - r.used]] IN
             [out |-> r.out \o s.out, rest |-> s.rest]
    IN read[[among |-> -1, from |-> 1, left |-> n]]

-----------------------------------------------------------------------------
(* Properties *)

NonEmpty == {c \in Contexts : Count(c) > 0}

(* The size announced for a packet is the number of bytes written for it,   *)
(* at every depth: across the sizes at which headers grow.                  *)
SizesAreExact ==
    \A c \in NonEmpty :
        LET packet == Written(nodes[c], 0) IN SizeFrom(nodes[c], 0) = Bytes(packet, Len(packet))

(* What a reader with the tree t should get from node i of w and the nodes  *)
(* after it, among the subnodes of j: each node it knows, at its place      *)
(* under nodes it knows; subnodes before their node.                        *)
Expected(w, i, t, j) ==
    LET expected[n \in DOMAIN w] == [p \in DOMAIN t \cup {-1} |->
        LET m == Match(t, Kids(t, p), w[n].key)
            inner == IF w[n].next # -1 THEN expected[w[n].next][m] ELSE <<>> IN
        (IF m = -1 THEN <<>>
         ELSE IF t[m].next # -1 THEN Append(inner, [node |-> m])
         ELSE <<Handed(t, m, ValueSize(w, n))>>)
        \o (IF w[n].neig # -1 THEN expected[w[n].neig][p] ELSE <<>>)]
    IN expected[i][j]

(* A reader gets exactly that from any packet, whichever nodes it does not  *)
(* know, and uses up the packet.                                            *)
ReadsWhatItKnows ==
    \A c, d \in NonEmpty :
        LET packet == Written(nodes[c], 0)
            r == ReadNodes(nodes[d], packet, SizeFrom(nodes[c], 0)) IN
        /\ r.out = Expected(nodes[c], 0, nodes[d], -1)
        /\ r.rest = Len(packet) + 1

(* Building as the callers do grows an ordered tree; stated of one context, *)
(* since contexts do not touch each other.                                  *)
One == CHOOSE c \in Contexts : TRUE
Promise == INSTANCE PacketTree WITH kids <- AllKids(nodes[One])
GrowsATree == Promise!TreeSpec
=============================================================================
