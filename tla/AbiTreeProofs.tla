---------------------------- MODULE AbiTreeProofs ----------------------------
(***************************************************************************)
(* Packets of any size.  The links of a node array are a tree, because the  *)
(* nodes can be given places in the packet such that what is in a node and  *)
(* what comes after it have later ones; adding a node moves the places      *)
(* behind it by one.  Along those places the recursive definitions of       *)
(* AbiTree are well-founded, so that what is written, read and expected can *)
(* be compared node by node, from the end of the packet: sizes are exact, a *)
(* reader gets the nodes it knows, and building grows an ordered tree.      *)
(*                                                                          *)
(* The last part is the key search of AbiMatch: it finds the first node     *)
(* with the received key, for branches of any length, when keys are read in *)
(* one part.  While the list is built it runs through the nodes passed so   *)
(* far; while it is scanned either the head is the node looked at, and no   *)
(* node before it has the key, or the head is the answer already.           *)
(***************************************************************************)
EXTENDS AbiTree, AbiMatch, SequenceTheorems, FiniteSetTheorems, WellFoundedInduction, TLAPS

(* Induction on a counter.                                                  *)
LEMMA UpTo ==
    ASSUME NEW S, NEW L \in Nat, 0 \in S, \A n \in 0 .. L : n < L /\ n \in S => n + 1 \in S
    PROVE  \A n \in 0 .. L : n \in S
<1> DEFINE T == {n \in 0 .. L : n \notin S}
<1>1. SUFFICES ASSUME T # {} PROVE FALSE
  OBVIOUS
<1>2. T \in SUBSET Nat OBVIOUS
<1> HIDE DEF T
<1>3. PICK n \in T : \A k \in T : ~(<<k, n>> \in OpToRel(<, Nat))
  BY <1>1, <1>2, WFMin, NatLessThanWellFounded, Zenon
<1>4. \A k \in T : ~(k < n) BY <1>2, <1>3, Zenon DEF OpToRel
<1>5. n \in 0 .. L /\ n # 0 BY DEF T
<1>6. n - 1 \in 0 .. L /\ n - 1 < n BY <1>5
<1>7. n - 1 \notin T BY <1>4, <1>6
<1>8. n - 1 \in S /\ n - 1 < L /\ n - 1 + 1 = n BY <1>5, <1>6, <1>7 DEF T
<1>9. n \in S BY <1>6, <1>8
<1> QED BY <1>9 DEF T

-----------------------------------------------------------------------------
(* The links make a tree: the nodes have places lo in the packet, in order, *)
(* and node i and the nodes after it, with all that is in them, have the    *)
(* places from lo[i] up to hi[i].                                           *)

Places(t) == DOMAIN t \cup {-1}

IsArray(t, L) ==
    /\ DOMAIN t = 0 .. L - 1
    /\ \A j \in 0 .. L - 1 :
        /\ t[j].key \in Keys /\ t[j].next \in Places(t) /\ t[j].neig \in Places(t)
        /\ t[j].next # -1 => t[j].key \in Containers

EndOf(t, j, lo, hi) == IF t[j].neig # -1 THEN lo[t[j].neig] ELSE hi[j]

Ordered(t, L, lo, hi) ==
    \A j \in 0 .. L - 1 :
        /\ lo[j] \in 0 .. L /\ hi[j] \in 0 .. L /\ lo[j] < hi[j]
        /\ t[j].next # -1 => lo[j] < lo[t[j].next] /\ hi[t[j].next] <= EndOf(t, j, lo, hi)
        /\ t[j].neig # -1 => lo[j] < lo[t[j].neig] /\ hi[t[j].neig] <= hi[j]

(* Induction along the links, from the end of the packet.                   *)
LEMMA Downward ==
    ASSUME NEW t, NEW L \in Nat, NEW lo, NEW hi, IsArray(t, L), Ordered(t, L, lo, hi), NEW S,
           \A j \in DOMAIN t : (t[j].next # -1 => t[j].next \in S) /\ (t[j].neig # -1 => t[j].neig \in S)
                                 => j \in S
    PROVE  \A j \in DOMAIN t : j \in S
<1> DEFINE T == {m \in 0 .. L : \A j \in 0 .. L - 1 : lo[j] >= L - m => j \in S}
<1>1. \A j \in 0 .. L - 1 : lo[j] \in 0 .. L - 1
  BY DEF Ordered
<1>2. 0 \in T BY <1>1
<1>3. ASSUME NEW m \in 0 .. L, m < L, m \in T PROVE m + 1 \in T
  <2>1. ASSUME NEW j \in 0 .. L - 1, lo[j] >= L - (m + 1) PROVE j \in S
    <3>1. t[j].next # -1 => t[j].next \in 0 .. L - 1 /\ lo[t[j].next] > lo[j]
      BY DEF IsArray, Ordered, Places
    <3>2. t[j].neig # -1 => t[j].neig \in 0 .. L - 1 /\ lo[t[j].neig] > lo[j]
      BY DEF IsArray, Ordered, Places
    <3>3. t[j].next # -1 => t[j].next \in S
      BY <1>1, <1>3, <2>1, <3>1
    <3>4. t[j].neig # -1 => t[j].neig \in S
      BY <1>1, <1>3, <2>1, <3>2
    <3> QED BY <3>3, <3>4 DEF IsArray
  <2> QED BY <1>3, <2>1
<1> HIDE DEF T
<1>4. L \in T
  <2>1. \A m \in 0 .. L : m \in T BY <1>2, <1>3, UpTo
  <2> QED BY <2>1
<1> QED BY <1>1, <1>4 DEF T, IsArray

(* What a function defined along the links is: its values are in V when G   *)
(* makes one of two others, and there is such a function.                   *)
Link(c, l, d) == IF l # -1 THEN c[l] ELSE d
Along(t, V, G, d) ==
    \E c \in [DOMAIN t -> V] : \A j \in DOMAIN t :
        c[j] = G[j][Link(c, t[j].next, d)][Link(c, t[j].neig, d)]

(* Such a function exists for every packet the writer can have built: the   *)
(* links have no cycle.                                                     *)
LEMMA AlongLinks ==
    ASSUME NEW t, NEW L \in Nat, NEW lo, NEW hi, IsArray(t, L), Ordered(t, L, lo, hi),
           NEW V, NEW G \in [DOMAIN t -> [V -> [V -> V]]], NEW d \in V
    PROVE  Along(t, V, G, d)
<1> DEFINE Late(m) == {j \in 0 .. L - 1 : lo[j] >= L - m}
    Upto(m, c) == /\ c \in [Late(m) -> V]
                  /\ \A j \in Late(m) : c[j] = G[j][Link(c, t[j].next, d)][Link(c, t[j].neig, d)]
    T == {m \in 0 .. L : \E c : Upto(m, c)}
<1>1. \A j \in 0 .. L - 1 : lo[j] \in 0 .. L - 1
  BY DEF Ordered
<1>2. 0 \in T
  <2>1. Late(0) = {} BY <1>1
  <2>2. PICK c : c = [j \in Late(0) |-> d] OBVIOUS
  <2>3. Upto(0, c) BY <2>1, <2>2
  <2> HIDE DEF Upto
  <2> QED BY <2>3
<1>3. ASSUME NEW m \in 0 .. L, m < L, m \in T PROVE m + 1 \in T
  <2>1. PICK c : Upto(m, c) BY <1>3
  <2>2. PICK e : e = [j \in Late(m + 1) |-> IF j \in Late(m) THEN c[j]
                       ELSE G[j][Link(c, t[j].next, d)][Link(c, t[j].neig, d)]]
    OBVIOUS
  <2>3. Late(m) \subseteq Late(m + 1) BY <1>1
  <2>4. ASSUME NEW j \in Late(m + 1)
        PROVE  /\ Link(c, t[j].next, d) \in V /\ Link(e, t[j].next, d) = Link(c, t[j].next, d)
               /\ Link(c, t[j].neig, d) \in V /\ Link(e, t[j].neig, d) = Link(c, t[j].neig, d)
    <3>1. t[j].next # -1 => t[j].next \in Late(m)
      BY <1>1 DEF IsArray, Ordered, Places
    <3>2. t[j].neig # -1 => t[j].neig \in Late(m)
      BY <1>1 DEF IsArray, Ordered, Places
    <3> QED BY <2>1, <2>2, <2>3, <3>1, <3>2 DEF Link
  <2>5. ASSUME NEW j \in Late(m + 1)
        PROVE  e[j] \in V /\ e[j] = G[j][Link(e, t[j].next, d)][Link(e, t[j].neig, d)]
    <3>1. j \in DOMAIN t BY DEF IsArray
    <3>2. G[j][Link(c, t[j].next, d)][Link(c, t[j].neig, d)] \in V BY <2>4, <3>1
    <3> QED BY <2>1, <2>2, <2>4, <3>2
  <2>6. e \in [Late(m + 1) -> V] BY <2>2, <2>5
  <2>7. Upto(m + 1, e) BY <2>5, <2>6
  <2> HIDE DEF Upto
  <2>8. m + 1 \in 0 .. L BY <1>3
  <2> QED BY <2>7, <2>8
<1> HIDE DEF T
<1>4. L \in T
  <2>1. \A m \in 0 .. L : m \in T BY <1>2, <1>3, UpTo
  <2> QED BY <2>1
<1>5. Late(L) = DOMAIN t BY <1>1 DEF IsArray
<1> QED BY <1>4, <1>5 DEF T, Along

-----------------------------------------------------------------------------
(* What the functions along the links are *)

(* abiw_ajust_size adds from one to four bytes.                             *)
LEMMA AdjustedIs == \A n \in Nat : Adjusted(n) \in Nat /\ Adjusted(n) > n /\ Adjusted(n) <= n + 4
BY DEF Adjusted

(* Keys, values and the room for them have sizes.                           *)
LEMMA KeyIs ==
    ASSUME NEW k \in Keys
    PROVE  KeySize[k] \in Nat /\ ValSize[k] \in Nat /\ Room[k] \in Nat
BY SizeAssumption

Sizes(t, c) ==
    c = [j \in DOMAIN t |->
            Adjusted(KeySize[t[j].key])
            + Adjusted(IF t[j].next # -1 THEN c[t[j].next] ELSE ValSize[t[j].key])
            + (IF t[j].neig # -1 THEN c[t[j].neig] ELSE 0)]

(* The sizes abiw_get_node_sizes returns satisfy their recursive            *)
(* definition.                                                              *)
LEMMA SizeIs ==
    ASSUME NEW t, NEW L \in Nat, NEW lo, NEW hi, IsArray(t, L), Ordered(t, L, lo, hi)
    PROVE  \A j \in DOMAIN t :
              /\ SizeFrom(t, j) \in Nat /\ ValueSize(t, j) \in Nat
              /\ SizeFrom(t, j) = Adjusted(KeySize[t[j].key]) + Adjusted(ValueSize(t, j))
                                  + Link([n \in DOMAIN t |-> SizeFrom(t, n)], t[j].neig, 0)
<1> DEFINE G == [j \in DOMAIN t |-> [a \in Nat |-> [b \in Nat |->
        Adjusted(KeySize[t[j].key]) + Adjusted(IF t[j].next # -1 THEN a ELSE ValSize[t[j].key]) + b]]]
<1>1. \A j \in DOMAIN t : t[j].key \in Keys /\ t[j].next \in Places(t) /\ t[j].neig \in Places(t)
  BY DEF IsArray
<1>2. \A j \in DOMAIN t, a, b \in Nat :
        Adjusted(KeySize[t[j].key]) + Adjusted(IF t[j].next # -1 THEN a ELSE ValSize[t[j].key]) + b \in Nat
  BY <1>1, AdjustedIs, KeyIs
<1>3. G \in [DOMAIN t -> [Nat -> [Nat -> Nat]]] BY <1>2
<1>4. \A j \in DOMAIN t, a, b \in Nat : G[j][a][b] =
        Adjusted(KeySize[t[j].key]) + Adjusted(IF t[j].next # -1 THEN a ELSE ValSize[t[j].key]) + b
  OBVIOUS
<1> HIDE DEF G
<1>5. PICK c \in [DOMAIN t -> Nat] : \A j \in DOMAIN t : c[j] = G[j][Link(c, t[j].next, 0)][Link(c, t[j].neig, 0)]
  <2>1. 0 \in Nat OBVIOUS
  <2>2. Along(t, Nat, G, 0) BY <1>3, <2>1, AlongLinks, Zenon
  <2> QED BY <2>2 DEF Along
<1>6. ASSUME NEW j \in DOMAIN t
      PROVE  c[j] = Adjusted(KeySize[t[j].key])
                + Adjusted(IF t[j].next # -1 THEN c[t[j].next] ELSE ValSize[t[j].key])
                + (IF t[j].neig # -1 THEN c[t[j].neig] ELSE 0)
  <2>1. Link(c, t[j].next, 0) \in Nat /\ Link(c, t[j].neig, 0) \in Nat
    BY <1>1, <1>5 DEF Link, Places
  <2>2. c[j] = Adjusted(KeySize[t[j].key])
               + Adjusted(IF t[j].next # -1 THEN Link(c, t[j].next, 0) ELSE ValSize[t[j].key]) + Link(c, t[j].neig, 0)
    BY <1>4, <1>5, <2>1
  <2> QED BY <2>2 DEF Link
<1>7. Sizes(t, c) BY <1>5, <1>6 DEF Sizes
<1>8. PICK f : f = (CHOOSE e : Sizes(t, e)) OBVIOUS
<1>9. Sizes(t, f) BY <1>7, <1>8, Zenon
<1>10. \A j : SizeFrom(t, j) = (CHOOSE e : Sizes(t, e))[j] BY Zenon DEF SizeFrom, Sizes
<1>11. \A j : SizeFrom(t, j) = f[j] BY <1>8, <1>10
<1>12. \A j \in DOMAIN t : f[j] = Adjusted(KeySize[t[j].key])
                + Adjusted(IF t[j].next # -1 THEN f[t[j].next] ELSE ValSize[t[j].key])
                + (IF t[j].neig # -1 THEN f[t[j].neig] ELSE 0)
  BY <1>9, Zenon DEF Sizes
<1>13. \A j \in DOMAIN t : SizeFrom(t, j) = Adjusted(KeySize[t[j].key])
                + Adjusted(ValueSize(t, j)) + (IF t[j].neig # -1 THEN SizeFrom(t, t[j].neig) ELSE 0)
  BY <1>11, <1>12 DEF ValueSize
<1> DEFINE S == {j \in DOMAIN t : SizeFrom(t, j) \in Nat}
<1>14. \A j \in DOMAIN t : (t[j].next # -1 => t[j].next \in S) => ValueSize(t, j) \in Nat
  BY <1>1, KeyIs DEF ValueSize
<1>15. \A j \in DOMAIN t : (t[j].next # -1 => t[j].next \in S) /\ (t[j].neig # -1 => t[j].neig \in S) => j \in S
  BY <1>1, <1>13, <1>14, AdjustedIs, KeyIs
<1>16. \A j \in DOMAIN t : j \in S
  <2> HIDE DEF S
  <2> QED BY <1>15, Downward
<1>17. \A j \in DOMAIN t : t[j].neig # -1 => t[j].neig \in DOMAIN t BY <1>1 DEF Places
<1>18. \A j \in DOMAIN t : ValueSize(t, j) \in Nat BY <1>1, <1>14, <1>16 DEF Places
<1> QED BY <1>13, <1>16, <1>17, <1>18 DEF Link

ValuePiece(j, k) == [is |-> "value", of |-> j, size |-> ValSize[k]]
Pieces ==
    {HeaderPiece(n) : n \in Nat} \cup {KeyPiece(k) : k \in Keys}
    \cup {ValuePiece(j, k) : j \in Nat, k \in {l \in Keys : ValSize[l] # 0}}

Front(t, j) == <<HeaderPiece(KeySize[t[j].key]), KeyPiece(t[j].key), HeaderPiece(ValueSize(t, j))>>
Inside(t, j) == IF t[j].next # -1 THEN Written(t, t[j].next) ELSE ValuePieces(j, t[j].key)
Behind(t, j) == IF t[j].neig # -1 THEN Written(t, t[j].neig) ELSE <<>>

Writings(t, c) ==
    c = [j \in DOMAIN t |->
            <<HeaderPiece(KeySize[t[j].key]), KeyPiece(t[j].key), HeaderPiece(ValueSize(t, j))>>
            \o (IF t[j].next # -1 THEN c[t[j].next] ELSE ValuePieces(j, t[j].key))
            \o (IF t[j].neig # -1 THEN c[t[j].neig] ELSE <<>>)]

(* A node begins with three pieces: the header of its key, the key, the     *)
(* header of its value.                                                     *)
LEMMA PiecesOf ==
    ASSUME NEW t, NEW L \in Nat, NEW lo, NEW hi, IsArray(t, L), Ordered(t, L, lo, hi), NEW j \in DOMAIN t
    PROVE  /\ Front(t, j) \in Seq(Pieces) /\ Len(Front(t, j)) = 3
           /\ ValuePieces(j, t[j].key) \in Seq(Pieces)
<1>1. t[j].key \in Keys /\ j \in Nat BY DEF IsArray
<1>2. KeySize[t[j].key] \in Nat /\ ValueSize(t, j) \in Nat BY <1>1, SizeIs, KeyIs
<1>3. HeaderPiece(KeySize[t[j].key]) \in Pieces /\ KeyPiece(t[j].key) \in Pieces /\ HeaderPiece(ValueSize(t, j)) \in Pieces
  BY <1>1, <1>2 DEF Pieces
<1>4. ValSize[t[j].key] # 0 => ValuePiece(j, t[j].key) \in Pieces
  BY <1>1 DEF Pieces
<1>5. ValuePieces(j, t[j].key) = IF ValSize[t[j].key] = 0 THEN <<>> ELSE <<ValuePiece(j, t[j].key)>>
  BY DEF ValuePieces, ValuePiece
<1> HIDE DEF Pieces
<1> QED BY <1>3, <1>4, <1>5 DEF Front

(* What abiw_write_recursive writes of a node: its front, its value or      *)
(* subnodes, then the nodes after it.                                       *)
LEMMA WrittenIs ==
    ASSUME NEW t, NEW L \in Nat, NEW lo, NEW hi, IsArray(t, L), Ordered(t, L, lo, hi)
    PROVE  \A j \in DOMAIN t :
              /\ Written(t, j) \in Seq(Pieces) /\ Inside(t, j) \in Seq(Pieces) /\ Behind(t, j) \in Seq(Pieces)
              /\ Written(t, j) = Front(t, j) \o Inside(t, j) \o Behind(t, j)
<1> DEFINE V == Seq(Pieces)
    G == [j \in DOMAIN t |-> [a \in V |-> [b \in V |->
            Front(t, j) \o (IF t[j].next # -1 THEN a ELSE ValuePieces(j, t[j].key)) \o b]]]
<1>1. \A j \in DOMAIN t : t[j].next \in Places(t) /\ t[j].neig \in Places(t)
  BY DEF IsArray
<1>2. \A j \in DOMAIN t, a, b \in V :
        Front(t, j) \o (IF t[j].next # -1 THEN a ELSE ValuePieces(j, t[j].key)) \o b \in V
  BY PiecesOf
<1>3. G \in [DOMAIN t -> [V -> [V -> V]]] BY <1>2
<1>4. \A j \in DOMAIN t, a, b \in V : G[j][a][b] =
        Front(t, j) \o (IF t[j].next # -1 THEN a ELSE ValuePieces(j, t[j].key)) \o b
  OBVIOUS
<1>v. <<>> \in V OBVIOUS
<1> HIDE DEF G, V
<1>5. PICK c \in [DOMAIN t -> V] : \A j \in DOMAIN t : c[j] = G[j][Link(c, t[j].next, <<>>)][Link(c, t[j].neig, <<>>)]
  <2>1. Along(t, V, G, <<>>) BY <1>3, <1>v, AlongLinks, Zenon
  <2> QED BY <2>1 DEF Along
<1>6. ASSUME NEW j \in DOMAIN t
      PROVE  c[j] = Front(t, j) \o (IF t[j].next # -1 THEN c[t[j].next] ELSE ValuePieces(j, t[j].key))
                    \o (IF t[j].neig # -1 THEN c[t[j].neig] ELSE <<>>)
  <2>1. Link(c, t[j].next, <<>>) \in V /\ Link(c, t[j].neig, <<>>) \in V
    BY <1>1, <1>5, <1>v DEF Link, Places
  <2>2. c[j] = Front(t, j) \o (IF t[j].next # -1 THEN Link(c, t[j].next, <<>>) ELSE ValuePieces(j, t[j].key))
               \o Link(c, t[j].neig, <<>>)
    BY <1>4, <1>5, <2>1
  <2> QED BY <2>2 DEF Link
<1>7. Writings(t, c) BY <1>5, <1>6 DEF Writings, Front
<1>8. PICK f : f = (CHOOSE e : Writings(t, e)) OBVIOUS
<1>9. Writings(t, f) BY <1>7, <1>8, Zenon
<1>10. \A j : Written(t, j) = (CHOOSE e : Writings(t, e))[j] BY Zenon DEF Written, Writings
<1>11. \A j : Written(t, j) = f[j] BY <1>8, <1>10
<1>12. \A j \in DOMAIN t : f[j] = Front(t, j)
                \o (IF t[j].next # -1 THEN f[t[j].next] ELSE ValuePieces(j, t[j].key))
                \o (IF t[j].neig # -1 THEN f[t[j].neig] ELSE <<>>)
  BY <1>9, Zenon DEF Writings, Front
<1>13. \A j \in DOMAIN t : Written(t, j) = Front(t, j) \o Inside(t, j) \o Behind(t, j)
  BY <1>11, <1>12 DEF Inside, Behind
<1> DEFINE S == {j \in DOMAIN t : Written(t, j) \in V}
<1>p. \A j \in DOMAIN t : Front(t, j) \in V /\ ValuePieces(j, t[j].key) \in V
  BY PiecesOf DEF V
<1>14. \A j \in DOMAIN t : (t[j].next # -1 => t[j].next \in S) => Inside(t, j) \in V
  BY <1>1, <1>p DEF Inside
<1>15. \A j \in DOMAIN t : (t[j].neig # -1 => t[j].neig \in S) => Behind(t, j) \in V
  BY <1>1, <1>v DEF Behind, V
<1>16. \A j \in DOMAIN t : (t[j].next # -1 => t[j].next \in S) /\ (t[j].neig # -1 => t[j].neig \in S) => j \in S
  <2>1. \A a, b, e \in V : a \o b \o e \in V BY DEF V
  <2> SUFFICES ASSUME NEW j \in DOMAIN t, t[j].next # -1 => t[j].next \in S, t[j].neig # -1 => t[j].neig \in S
               PROVE  Written(t, j) \in V
    OBVIOUS
  <2>2. Inside(t, j) \in V BY <1>14
  <2>3. Behind(t, j) \in V BY <1>15
  <2>4. Front(t, j) \o Inside(t, j) \o Behind(t, j) \in V BY <1>p, <2>1, <2>2, <2>3
  <2> QED BY <1>13, <2>4
<1>17. \A j \in DOMAIN t : j \in S
  <2> HIDE DEF S
  <2> QED BY <1>16, Downward
<1>18. \A j \in DOMAIN t : (t[j].next # -1 => t[j].next \in S) /\ (t[j].neig # -1 => t[j].neig \in S)
  BY <1>1, <1>17 DEF Places
<1> QED BY <1>13, <1>14, <1>15, <1>17, <1>18 DEF V

-----------------------------------------------------------------------------
(* Bytes of pieces *)

(* A size header is as long as abiw_ajust_size reckons.                     *)
LEMMA HeaderLength ==
    ASSUME NEW n \in Nat
    PROVE  /\ Len(Header(n)) = HeaderSize(n) /\ HeaderSize(n) \in 1 .. 4
           /\ Adjusted(n) = n + HeaderSize(n)
           /\ HeaderPiece(n).size = HeaderSize(n)
<1>1. HeaderSize(n) = 1 \/ HeaderSize(n) = 2 \/ HeaderSize(n) = 4
  BY DEF HeaderSize
<1>2. Len(Header(n)) = HeaderSize(n)
  BY <1>1 DEF Header
<1>3. Adjusted(n) = n + HeaderSize(n) BY DEF Adjusted, HeaderSize
<1> QED BY <1>1, <1>2, <1>3 DEF HeaderPiece

(* Every piece has a size.                                                  *)
LEMMA PieceSize ==
    ASSUME NEW x \in Pieces
    PROVE  x.size \in Nat
<1>1. CASE \E n \in Nat : x = HeaderPiece(n)
  <2>1. PICK n \in Nat : x = HeaderPiece(n) BY <1>1
  <2>2. HeaderPiece(n).size = HeaderSize(n) /\ HeaderSize(n) \in 1 .. 4 BY HeaderLength
  <2> QED BY <2>1, <2>2
<1>2. CASE \E k \in Keys : x = KeyPiece(k) BY <1>2, KeyIs DEF KeyPiece
<1>3. CASE \E j \in Nat, k \in Keys : x = ValuePiece(j, k) BY <1>3, KeyIs DEF ValuePiece
<1> QED BY <1>1, <1>2, <1>3 DEF Pieces

Counting(u, c) == c = [m \in 0 .. Len(u) |-> IF m = 0 THEN 0 ELSE c[m - 1] + u[m].size]

(* The bytes of a prefix of a packet, piece by piece.                       *)
LEMMA BytesIs ==
    ASSUME NEW u \in Seq(Pieces)
    PROVE  /\ Bytes(u, 0) = 0
           /\ \A m \in 0 .. Len(u) : Bytes(u, m) \in Nat
           /\ \A m \in 0 .. Len(u) : m # 0 => Bytes(u, m) = Bytes(u, m - 1) + u[m].size
<1>1. PICK L \in Nat : L = Len(u) OBVIOUS
<1> DEFINE Upto(m, c) == c = [n \in 0 .. m |-> IF n = 0 THEN 0 ELSE c[n - 1] + u[n].size]
    S == {m \in Nat : \E c : Upto(m, c)}
<1>2. 0 \in S
  <2>1. PICK c : c = [n \in 0 .. 0 |-> 0] OBVIOUS
  <2>2. Upto(0, c) BY <2>1
  <2> QED BY <2>2
<1>3. ASSUME NEW m \in 0 .. L, m < L, m \in S PROVE m + 1 \in S
  <2>1. PICK c : Upto(m, c) BY <1>3
  <2>2. PICK d : d = [n \in 0 .. m + 1 |-> IF n <= m THEN c[n] ELSE c[m] + u[m + 1].size]
    OBVIOUS
  <2>3. \A n \in 0 .. m : c[n] = IF n = 0 THEN 0 ELSE c[n - 1] + u[n].size
    BY <2>1, Zenon
  <2>4. \A n \in 0 .. m : d[n] = c[n] BY <2>2
  <2>5. d[m + 1] = c[m] + u[m + 1].size BY <2>2
  <2>6. ASSUME NEW n \in 0 .. m + 1
        PROVE  d[n] = IF n = 0 THEN 0 ELSE d[n - 1] + u[n].size
    <3>1. CASE n = 0 BY <2>3, <2>4, <3>1
    <3>2. CASE n \in 1 .. m
      <4>1. n \in 0 .. m /\ n - 1 \in 0 .. m /\ n # 0 BY <3>2
      <4>2. d[n] = c[n - 1] + u[n].size BY <2>3, <2>4, <4>1
      <4> QED BY <2>4, <4>1, <4>2
    <3>3. CASE n = m + 1
      <4>1. n # 0 /\ n - 1 = m BY <3>3
      <4> QED BY <2>4, <2>5, <3>3, <4>1
    <3> QED BY <3>1, <3>2, <3>3
  <2>7. d = [n \in 0 .. m + 1 |-> IF n = 0 THEN 0 ELSE d[n - 1] + u[n].size]
    BY <2>2, <2>6
  <2>8. Upto(m + 1, d) BY <2>7
  <2> HIDE DEF Upto
  <2> QED BY <2>8
<1> HIDE DEF S
<1>4. L \in S
  <2>1. \A n \in 0 .. L : n \in S BY <1>2, <1>3, UpTo
  <2> QED BY <2>1
<1>5. \E c : Counting(u, c) BY <1>1, <1>4 DEF S, Counting
<1>6. PICK c : c = (CHOOSE d : Counting(u, d)) OBVIOUS
<1>7. Counting(u, c) BY <1>5, <1>6, Zenon
<1>8. \A n : Bytes(u, n) = (CHOOSE d : Counting(u, d))[n] BY Zenon DEF Bytes, Counting
<1>9. \A n : Bytes(u, n) = c[n] BY <1>6, <1>8
<1>10. \A n \in 0 .. Len(u) : c[n] = IF n = 0 THEN 0 ELSE c[n - 1] + u[n].size
  BY <1>7, Zenon DEF Counting
<1>11. Bytes(u, 0) = 0 BY <1>9, <1>10
<1>12. \A n \in 0 .. Len(u) : n # 0 => Bytes(u, n) = Bytes(u, n - 1) + u[n].size
  BY <1>9, <1>10
<1>13. \A n \in 1 .. Len(u) : u[n].size \in Nat BY PieceSize
<1> DEFINE T == {n \in 0 .. L : Bytes(u, n) \in Nat}
<1>14. 0 \in T BY <1>11
<1>15. ASSUME NEW n \in 0 .. L, n < L, n \in T PROVE n + 1 \in T
  <2>1. n + 1 \in 1 .. Len(u) /\ n + 1 \in 0 .. Len(u) /\ n + 1 # 0 /\ n + 1 - 1 = n BY <1>1, <1>15
  <2>2. Bytes(u, n + 1) = Bytes(u, n) + u[n + 1].size BY <1>12, <2>1
  <2> QED BY <1>1, <1>13, <1>15, <2>1, <2>2
<1>16. \A n \in 0 .. L : n \in T
  <2> HIDE DEF T
  <2> QED BY <1>14, <1>15, UpTo
<1> QED BY <1>1, <1>11, <1>12, <1>16

(* The pieces u are those from p on.                                        *)
Segment(pieces, p, u) ==
    /\ p - 1 + Len(u) <= Len(pieces)
    /\ \A k \in 1 .. Len(u) : pieces[p - 1 + k] = u[k]

(* Where a run of pieces lies in a packet, the bytes before its end are     *)
(* those before its start and its own.                                      *)
LEMMA SegmentBytes ==
    ASSUME NEW u \in Seq(Pieces), NEW pieces \in Seq(Pieces), NEW p \in Nat \ {0}, Segment(pieces, p, u)
    PROVE  \A m \in 0 .. Len(u) : Bytes(pieces, p - 1 + m) = Bytes(pieces, p - 1) + Bytes(u, m)
<1>1. PICK L \in Nat : L = Len(u) OBVIOUS
<1> DEFINE T == {m \in 0 .. L : Bytes(pieces, p - 1 + m) = Bytes(pieces, p - 1) + Bytes(u, m)}
<1>2. 0 \in T
  <2>1. p - 1 + 0 = p - 1 /\ p - 1 \in 0 .. Len(pieces) BY DEF Segment
  <2>2. Bytes(u, 0) = 0 /\ Bytes(pieces, p - 1) \in Nat BY <2>1, BytesIs
  <2> QED BY <2>1, <2>2
<1>3. ASSUME NEW m \in 0 .. L, m < L, m \in T PROVE m + 1 \in T
  <2>1. m + 1 \in 1 .. Len(u) /\ m + 1 \in 0 .. Len(u) /\ m + 1 # 0 /\ m + 1 - 1 = m /\ m \in 0 .. Len(u)
    BY <1>1, <1>3
  <2>2. PICK q : q = p - 1 + (m + 1) OBVIOUS
  <2>3. q \in 0 .. Len(pieces) /\ q # 0 /\ q - 1 = p - 1 + m /\ p - 1 \in 0 .. Len(pieces) /\ q - 1 \in 0 .. Len(pieces)
    BY <2>1, <2>2 DEF Segment
  <2>4. Bytes(pieces, q) = Bytes(pieces, q - 1) + pieces[q].size BY <2>3, BytesIs
  <2>5. Bytes(u, m + 1) = Bytes(u, m) + u[m + 1].size BY <2>1, BytesIs
  <2>6. pieces[q] = u[m + 1] BY <2>1, <2>2 DEF Segment
  <2>7. Bytes(pieces, q - 1) = Bytes(pieces, p - 1) + Bytes(u, m) BY <1>3, <2>3
  <2>8. u[m + 1].size \in Nat BY <2>1, PieceSize
  <2>9. Bytes(pieces, p - 1) \in Nat /\ Bytes(u, m) \in Nat BY <2>1, <2>3, BytesIs
  <2> QED BY <1>3, <2>1, <2>2, <2>4, <2>5, <2>6, <2>7, <2>8, <2>9
<1> HIDE DEF T
<1>4. \A m \in 0 .. L : m \in T BY <1>2, <1>3, UpTo
<1> QED BY <1>1, <1>4 DEF T

(* Two runs that lie in a packet one after the other both lie in it.        *)
LEMMA SegmentOfTwo ==
    ASSUME NEW u \in Seq(Pieces), NEW v \in Seq(Pieces), NEW pieces \in Seq(Pieces), NEW p \in Nat \ {0},
           Segment(pieces, p, u \o v)
    PROVE  Segment(pieces, p, u) /\ Segment(pieces, p + Len(u), v)
<1>1. Len(u \o v) = Len(u) + Len(v) /\ Len(u) \in Nat /\ Len(v) \in Nat OBVIOUS
<1>2. Segment(pieces, p, u)
  <2>1. \A k \in 1 .. Len(u) : k \in 1 .. Len(u \o v) /\ (u \o v)[k] = u[k] BY <1>1
  <2> QED BY <1>1, <2>1 DEF Segment
<1>3. Segment(pieces, p + Len(u), v)
  <2>1. ASSUME NEW k \in 1 .. Len(v) PROVE pieces[p + Len(u) - 1 + k] = v[k]
    <3>1. Len(u) + k \in 1 .. Len(u \o v) /\ (u \o v)[Len(u) + k] = v[k] BY <1>1
    <3>2. p - 1 + (Len(u) + k) = p + Len(u) - 1 + k BY <1>1
    <3> QED BY <3>1, <3>2 DEF Segment
  <2> QED BY <1>1, <2>1 DEF Segment
<1> QED BY <1>2, <1>3

(* The bytes of two runs of pieces add up.                                  *)
LEMMA BytesOfTwo ==
    ASSUME NEW u \in Seq(Pieces), NEW v \in Seq(Pieces)
    PROVE  Bytes(u \o v, Len(u \o v)) = Bytes(u, Len(u)) + Bytes(v, Len(v))
<1>c. u \o v \in Seq(Pieces) OBVIOUS
<1>1. PICK w \in Seq(Pieces) : w = u \o v BY <1>c
<1>2. Len(w) = Len(u) + Len(v) /\ Len(u) \in Nat /\ Len(v) \in Nat /\ Len(w) \in Nat BY <1>1
<1>3. Segment(w, 1, w)
  <2>1. \A k \in 1 .. Len(w) : 1 - 1 + k = k BY <1>2
  <2> QED BY <1>2, <2>1 DEF Segment
<1>4. Segment(w, 1, u) /\ Segment(w, 1 + Len(u), v)
  <2>1. 1 \in Nat \ {0} /\ Segment(w, 1, u \o v) BY <1>1, <1>3
  <2> QED BY <2>1, SegmentOfTwo
<1>5. PICK p \in Nat \ {0} : p = 1 + Len(u) BY <1>2
<1>6. \A m \in 0 .. Len(u) : Bytes(w, 1 - 1 + m) = Bytes(w, 1 - 1) + Bytes(u, m) BY <1>4, SegmentBytes
<1>7. \A m \in 0 .. Len(v) : Bytes(w, p - 1 + m) = Bytes(w, p - 1) + Bytes(v, m) BY <1>4, <1>5, SegmentBytes
<1>8. Bytes(w, 0) = 0 /\ Bytes(u, Len(u)) \in Nat /\ Bytes(v, Len(v)) \in Nat
  <2>1. Len(u) \in 0 .. Len(u) /\ Len(v) \in 0 .. Len(v) BY <1>2
  <2> QED BY <2>1, BytesIs
<1>9. Bytes(w, Len(u)) = Bytes(u, Len(u))
  <2>1. Len(u) \in 0 .. Len(u) /\ 1 - 1 + Len(u) = Len(u) /\ 1 - 1 = 0 BY <1>2
  <2> QED BY <1>6, <1>8, <2>1
<1>10. Bytes(w, Len(w)) = Bytes(w, Len(u)) + Bytes(v, Len(v))
  <2>1. Len(v) \in 0 .. Len(v) /\ p - 1 + Len(v) = Len(w) /\ p - 1 = Len(u) BY <1>2, <1>5
  <2> QED BY <1>7, <2>1
<1> QED BY <1>1, <1>9, <1>10

(* The bytes of one piece are its size.                                     *)
LEMMA BytesOfOne ==
    ASSUME NEW x \in Pieces
    PROVE  Bytes(<<x>>, Len(<<x>>)) = x.size
<1>1. <<x>> \in Seq(Pieces) /\ Len(<<x>>) = 1 /\ <<x>>[1] = x OBVIOUS
<1>2. 1 \in 0 .. Len(<<x>>) /\ 1 - 1 = 0 /\ 1 # 0 BY <1>1
<1>3. Bytes(<<x>>, 1) = Bytes(<<x>>, 0) + x.size BY <1>1, <1>2, BytesIs
<1>4. Bytes(<<x>>, 0) = 0 /\ x.size \in Nat BY <1>1, BytesIs, PieceSize
<1> QED BY <1>1, <1>3, <1>4

-----------------------------------------------------------------------------
(* Sizes *)

(* The bytes of the front of a node: its key with the header, and the       *)
(* header of its value.                                                     *)
LEMMA FrontBytes ==
    ASSUME NEW t, NEW L \in Nat, NEW lo, NEW hi, IsArray(t, L), Ordered(t, L, lo, hi), NEW j \in DOMAIN t
    PROVE  Bytes(Front(t, j), 3) = Adjusted(KeySize[t[j].key]) + HeaderSize(ValueSize(t, j))
<1>1. t[j].key \in Keys /\ KeySize[t[j].key] \in Nat /\ ValueSize(t, j) \in Nat
  BY SizeIs, KeyIs DEF IsArray
<1>2. Front(t, j) \in Seq(Pieces) /\ Len(Front(t, j)) = 3 BY PiecesOf
<1>3. PICK u \in Seq(Pieces) : u = Front(t, j) BY <1>2
<1>4. /\ u[1] = HeaderPiece(KeySize[t[j].key]) /\ u[2] = KeyPiece(t[j].key)
      /\ u[3] = HeaderPiece(ValueSize(t, j)) /\ Len(u) = 3
  BY <1>2, <1>3 DEF Front
<1>5. \A m \in 0 .. Len(u) : m # 0 => Bytes(u, m) = Bytes(u, m - 1) + u[m].size BY BytesIs
<1>6. Bytes(u, 0) = 0 /\ Bytes(u, 1) = Bytes(u, 0) + u[1].size
      /\ Bytes(u, 2) = Bytes(u, 1) + u[2].size /\ Bytes(u, 3) = Bytes(u, 2) + u[3].size
  <2>1. 1 \in 0 .. 3 /\ 1 - 1 = 0 /\ 2 \in 0 .. 3 /\ 2 - 1 = 1 /\ 3 \in 0 .. 3 /\ 3 - 1 = 2 OBVIOUS
  <2>2. Bytes(u, 0) = 0 BY BytesIs
  <2> QED BY <1>4, <1>5, <2>1, <2>2
<1>7. u[2].size = KeySize[t[j].key] BY <1>4 DEF KeyPiece
<1>8. u[1].size = HeaderSize(KeySize[t[j].key]) /\ u[3].size = HeaderSize(ValueSize(t, j))
  BY <1>1, <1>4, HeaderLength
<1>9. /\ HeaderSize(KeySize[t[j].key]) \in 1 .. 4 /\ HeaderSize(ValueSize(t, j)) \in 1 .. 4
      /\ Adjusted(KeySize[t[j].key]) = KeySize[t[j].key] + HeaderSize(KeySize[t[j].key])
  BY <1>1, HeaderLength
<1> QED BY <1>1, <1>3, <1>6, <1>7, <1>8, <1>9

(* The bytes of the value of a node that has no subnodes.                   *)
LEMMA ValueBytes ==
    ASSUME NEW j \in Nat, NEW k \in Keys
    PROVE  Bytes(ValuePieces(j, k), Len(ValuePieces(j, k))) = ValSize[k]
<1>1. CASE ValSize[k] = 0
  <2>1. ValuePieces(j, k) = <<>> /\ <<>> \in Seq(Pieces) /\ Len(<<>>) = 0 BY <1>1 DEF ValuePieces
  <2>2. Bytes(<<>>, 0) = 0 BY <2>1, BytesIs
  <2> QED BY <1>1, <2>1, <2>2
<1>2. CASE ValSize[k] # 0
  <2>1. ValuePieces(j, k) = <<ValuePiece(j, k)>> BY <1>2 DEF ValuePieces, ValuePiece
  <2>2. ValuePiece(j, k) \in Pieces BY <1>2 DEF Pieces
  <2>3. Bytes(<<ValuePiece(j, k)>>, Len(<<ValuePiece(j, k)>>)) = ValuePiece(j, k).size BY <2>2, BytesOfOne
  <2> QED BY <2>1, <2>3 DEF ValuePiece
<1> QED BY <1>1, <1>2

(* The size announced for node j and those after it is what is written.     *)
LEMMA SizesExact ==
    ASSUME NEW t, NEW L \in Nat, NEW lo, NEW hi, IsArray(t, L), Ordered(t, L, lo, hi)
    PROVE  \A j \in DOMAIN t :
              /\ SizeFrom(t, j) = Bytes(Written(t, j), Len(Written(t, j)))
              /\ ValueSize(t, j) = Bytes(Inside(t, j), Len(Inside(t, j)))
<1> DEFINE S == {j \in DOMAIN t : SizeFrom(t, j) = Bytes(Written(t, j), Len(Written(t, j)))}
<1>1. \A j \in DOMAIN t : /\ t[j].key \in Keys /\ j \in Nat
                          /\ t[j].next \in Places(t) /\ t[j].neig \in Places(t)
  BY DEF IsArray
<1>2. ASSUME NEW j \in DOMAIN t, t[j].next # -1 => t[j].next \in S
      PROVE  ValueSize(t, j) = Bytes(Inside(t, j), Len(Inside(t, j)))
  <2>1. CASE t[j].next # -1 BY <1>2, <2>1 DEF ValueSize, Inside
  <2>2. CASE t[j].next = -1 BY <1>1, <2>2, ValueBytes DEF ValueSize, Inside
  <2> QED BY <2>1, <2>2
<1>3. ASSUME NEW j \in DOMAIN t, t[j].next # -1 => t[j].next \in S, t[j].neig # -1 => t[j].neig \in S
      PROVE  j \in S
  <2>1. PICK A, B, F : A = Inside(t, j) /\ B = Behind(t, j) /\ F = Front(t, j) OBVIOUS
  <2>2. A \in Seq(Pieces) /\ B \in Seq(Pieces) /\ F \in Seq(Pieces) /\ Len(F) = 3
    BY <2>1, WrittenIs, PiecesOf
  <2>3. Written(t, j) = F \o A \o B BY <2>1, WrittenIs
  <2>4. F \o A \in Seq(Pieces) BY <2>2
  <2>5. Bytes(F \o A \o B, Len(F \o A \o B)) = Bytes(F \o A, Len(F \o A)) + Bytes(B, Len(B))
    BY <2>2, <2>4, BytesOfTwo
  <2>6. Bytes(F \o A, Len(F \o A)) = Bytes(F, 3) + Bytes(A, Len(A)) BY <2>2, BytesOfTwo
  <2>7. Bytes(F, 3) = Adjusted(KeySize[t[j].key]) + HeaderSize(ValueSize(t, j)) BY <2>1, FrontBytes
  <2>8. Bytes(A, Len(A)) = ValueSize(t, j) BY <1>2, <1>3, <2>1
  <2>9. Bytes(B, Len(B)) = Link([n \in DOMAIN t |-> SizeFrom(t, n)], t[j].neig, 0)
    <3>1. CASE t[j].neig = -1
      <4>1. B = <<>> /\ Len(B) = 0 BY <2>1, <3>1 DEF Behind
      <4>2. Bytes(B, 0) = 0 BY <2>2, BytesIs
      <4> QED BY <3>1, <4>1, <4>2 DEF Link
    <3>2. CASE t[j].neig # -1
      <4>1. t[j].neig \in DOMAIN t BY <1>1, <3>2 DEF Places
      <4> QED BY <1>3, <2>1, <3>2, <4>1 DEF Behind, Link
    <3> QED BY <3>1, <3>2
  <2>10. SizeFrom(t, j) = Adjusted(KeySize[t[j].key]) + Adjusted(ValueSize(t, j))
                          + Link([n \in DOMAIN t |-> SizeFrom(t, n)], t[j].neig, 0)
         /\ ValueSize(t, j) \in Nat
    BY SizeIs
  <2>11. Adjusted(ValueSize(t, j)) = ValueSize(t, j) + HeaderSize(ValueSize(t, j)) /\ HeaderSize(ValueSize(t, j)) \in 1 .. 4
    BY <2>10, HeaderLength
  <2>12. Adjusted(KeySize[t[j].key]) \in Nat BY <1>1, KeyIs, AdjustedIs
  <2>13. Bytes(B, Len(B)) \in Nat
    <3>1. Len(B) \in 0 .. Len(B) BY <2>2
    <3> QED BY <2>2, <3>1, BytesIs
  <2>14. SizeFrom(t, j) = Bytes(F \o A \o B, Len(F \o A \o B))
    BY <2>5, <2>6, <2>7, <2>8, <2>9, <2>10, <2>11, <2>12, <2>13
  <2> QED BY <2>3, <2>14
<1>4. \A j \in DOMAIN t : j \in S
  <2>1. \A j \in DOMAIN t : (t[j].next # -1 => t[j].next \in S) /\ (t[j].neig # -1 => t[j].neig \in S) => j \in S
    BY <1>3
  <2> HIDE DEF S
  <2> QED BY <2>1, Downward
<1>5. \A j \in DOMAIN t : t[j].next # -1 => t[j].next \in S
  BY <1>1, <1>4 DEF Places
<1> QED BY <1>2, <1>4, <1>5

(* With at most B bytes of each node, sizes go with places.                 *)
LEMMA SizesBounded ==
    ASSUME NEW t, NEW L \in Nat, NEW lo, NEW hi, IsArray(t, L), Ordered(t, L, lo, hi),
           NEW B \in Nat, \A j \in DOMAIN t : KeySize[t[j].key] + ValSize[t[j].key] + 8 <= B
    PROVE  \A j \in DOMAIN t : SizeFrom(t, j) <= L * B /\ ValueSize(t, j) <= L * B
<1> DEFINE S == {j \in DOMAIN t : SizeFrom(t, j) <= (hi[j] - lo[j]) * B}
<1>1. \A j \in DOMAIN t : /\ t[j].key \in Keys /\ t[j].next \in Places(t) /\ t[j].neig \in Places(t)
                          /\ lo[j] \in Nat /\ hi[j] \in Nat /\ hi[j] <= L /\ lo[j] < hi[j]
  BY DEF IsArray, Ordered
<1>m. \A a, b \in Nat : a <= b => a * B <= b * B
  OBVIOUS
<1>a. \A a, b, e, f \in Int : (b - a) * B = b * B - a * B /\ a * B \in Int
  OBVIOUS
<1>2. ASSUME NEW j \in DOMAIN t, t[j].next # -1 => t[j].next \in S, t[j].neig # -1 => t[j].neig \in S
      PROVE  j \in S
  <2>1. SizeFrom(t, j) = Adjusted(KeySize[t[j].key]) + Adjusted(ValueSize(t, j))
                          + Link([n \in DOMAIN t |-> SizeFrom(t, n)], t[j].neig, 0)
         /\ ValueSize(t, j) \in Nat /\ SizeFrom(t, j) \in Nat
    BY SizeIs
  <2>2. PICK e \in Nat : e = IF t[j].neig # -1 THEN lo[t[j].neig] ELSE hi[j]
    BY <1>1 DEF Places
  <2>3. e <= hi[j] /\ lo[j] < e
    BY <1>1, <2>2, SMTT(30) DEF Ordered, IsArray, Places
  <2>4. PICK s \in Int : s = Link([n \in DOMAIN t |-> SizeFrom(t, n)], t[j].neig, 0)
    BY <1>1, SizeIs DEF Link, Places
  <2>5. s <= hi[j] * B - e * B
    <3>1. CASE t[j].neig = -1 BY <1>1, <1>a, <2>2, <2>4, <3>1 DEF Link
    <3>2. CASE t[j].neig # -1
      <4>1. PICK n \in DOMAIN t : n = t[j].neig BY <1>1, <3>2 DEF Places
      <4>2. s <= hi[n] * B - lo[n] * B
        <5>1. s = SizeFrom(t, n) BY <2>4, <3>2, <4>1 DEF Link
        <5>2. SizeFrom(t, n) <= (hi[n] - lo[n]) * B BY <1>2, <3>2, <4>1
        <5>3. hi[n] \in Nat /\ lo[n] \in Nat BY <1>1
        <5>4. (hi[n] - lo[n]) * B = hi[n] * B - lo[n] * B BY <1>a, <5>3
        <5> QED BY <5>1, <5>2, <5>4
      <4>3. e = lo[n] /\ hi[n] <= hi[j] BY <2>2, <3>2, <4>1 DEF Ordered, IsArray
      <4>4. hi[n] * B <= hi[j] * B BY <1>1, <1>m, <4>3
      <4> QED BY <1>1, <1>a, <4>2, <4>3, <4>4
    <3> QED BY <3>1, <3>2
  <2>6. Adjusted(KeySize[t[j].key]) + Adjusted(ValueSize(t, j)) <= e * B - lo[j] * B
    <3>1. KeySize[t[j].key] \in Nat /\ ValSize[t[j].key] \in Nat BY <1>1, KeyIs
    <3>2. /\ Adjusted(KeySize[t[j].key]) \in Nat /\ Adjusted(KeySize[t[j].key]) <= KeySize[t[j].key] + 4
          /\ Adjusted(ValueSize(t, j)) \in Nat /\ Adjusted(ValueSize(t, j)) <= ValueSize(t, j) + 4
      BY <2>1, <3>1, AdjustedIs
    <3>3. KeySize[t[j].key] + ValSize[t[j].key] + 8 <= B OBVIOUS
    <3>4. CASE t[j].next = -1
      <4>1. ValueSize(t, j) = ValSize[t[j].key] BY <3>4 DEF ValueSize
      <4>2. Adjusted(KeySize[t[j].key]) + Adjusted(ValueSize(t, j)) <= B BY <3>1, <3>2, <3>3, <4>1
      <4>3. (lo[j] + 1) * B <= e * B BY <1>1, <1>m, <2>3
      <4>4. (lo[j] + 1) * B = lo[j] * B + B BY <1>1
      <4> QED BY <1>1, <1>a, <3>2, <4>2, <4>3, <4>4
    <3>5. CASE t[j].next # -1
      <4>1. PICK n \in DOMAIN t : n = t[j].next BY <1>1, <3>5 DEF Places
      <4>2. ValueSize(t, j) = SizeFrom(t, n) BY <3>5, <4>1 DEF ValueSize
      <4>3. SizeFrom(t, n) <= hi[n] * B - lo[n] * B
        <5>2. SizeFrom(t, n) <= (hi[n] - lo[n]) * B BY <1>2, <3>5, <4>1
        <5>3. hi[n] \in Nat /\ lo[n] \in Nat BY <1>1
        <5>4. (hi[n] - lo[n]) * B = hi[n] * B - lo[n] * B BY <1>a, <5>3
        <5> QED BY <5>2, <5>4
      <4>4. hi[n] <= e /\ lo[j] + 1 <= lo[n]
        BY <1>1, <2>2, <3>5, <4>1, SMTT(30) DEF Ordered, IsArray, EndOf
      <4>5. hi[n] * B <= e * B /\ (lo[j] + 1) * B <= lo[n] * B
        <5>1. lo[j] + 1 \in Nat BY <1>1
        <5> QED BY <1>1, <1>m, <4>4, <5>1
      <4>6. (lo[j] + 1) * B = lo[j] * B + B BY <1>1
      <4> QED BY <1>1, <1>a, <2>1, <3>1, <3>2, <3>3, <4>2, <4>3, <4>5, <4>6
    <3> QED BY <3>4, <3>5
  <2>7. Adjusted(KeySize[t[j].key]) \in Nat /\ Adjusted(ValueSize(t, j)) \in Nat
    BY <1>1, <2>1, KeyIs, AdjustedIs
  <2>8. SizeFrom(t, j) <= hi[j] * B - lo[j] * B
    BY <1>1, <1>a, <2>1, <2>4, <2>5, <2>6, <2>7
  <2> QED BY <1>1, <1>a, <2>8
<1>3. \A j \in DOMAIN t : j \in S
  <2>1. \A j \in DOMAIN t : (t[j].next # -1 => t[j].next \in S) /\ (t[j].neig # -1 => t[j].neig \in S) => j \in S
    BY <1>2
  <2> HIDE DEF S
  <2> QED BY <2>1, Downward
<1>4. ASSUME NEW j \in DOMAIN t PROVE SizeFrom(t, j) <= L * B
  <2>1. SizeFrom(t, j) <= (hi[j] - lo[j]) * B BY <1>3
  <2>2. hi[j] - lo[j] \in Nat /\ hi[j] - lo[j] <= L BY <1>1
  <2>3. (hi[j] - lo[j]) * B <= L * B BY <1>m, <2>2
  <2>4. SizeFrom(t, j) \in Nat BY SizeIs
  <2>5. L * B \in Int /\ (hi[j] - lo[j]) * B \in Int BY <2>2
  <2> QED BY <2>1, <2>3, <2>4, <2>5
<1>5. ASSUME NEW j \in DOMAIN t PROVE ValueSize(t, j) <= L * B
  <2>1. SizeFrom(t, j) \in Nat /\ ValueSize(t, j) \in Nat
        /\ SizeFrom(t, j) = Adjusted(KeySize[t[j].key]) + Adjusted(ValueSize(t, j))
                            + Link([n \in DOMAIN t |-> SizeFrom(t, n)], t[j].neig, 0)
    BY SizeIs
  <2>2. Link([n \in DOMAIN t |-> SizeFrom(t, n)], t[j].neig, 0) \in Nat
    BY <1>1, SizeIs DEF Link, Places
  <2>3. Adjusted(KeySize[t[j].key]) \in Nat /\ Adjusted(ValueSize(t, j)) \in Nat /\ Adjusted(ValueSize(t, j)) > ValueSize(t, j)
    BY <1>1, <2>1, KeyIs, AdjustedIs
  <2> QED BY <1>4, <2>1, <2>2, <2>3
<1> QED BY <1>4, <1>5

-----------------------------------------------------------------------------
(* Reading: what abir_get_ssize makes of the header abiw_eval_ssize makes,  *)
(* and where a value ends.                                                  *)
LEMMA Remainder ==
    ASSUME NEW d \in Nat \ {0}, NEW q \in Nat, NEW r \in Nat, r < d, NEW x, x = d * q + r
    PROVE  x % d = r
BY SMT

(* Quotient and remainder.                                                  *)
LEMMA DivMod ==
    ASSUME NEW d \in Nat \ {0}, NEW x \in Nat
    PROVE  \E q \in Nat, r \in 0 .. d - 1 : q = x \div d /\ r = x % d /\ x = d * q + r
<1>1. x - d * (x \div d) \in 0 .. d - 1 /\ x \div d \in Nat BY SMT
<1>2. PICK q \in Nat : q = x \div d BY <1>1
<1>3. PICK r \in 0 .. d - 1 : r = x - d * q BY <1>1, <1>2
<1>4. x = d * q + r /\ r \in Nat /\ r < d BY <1>2, <1>3
<1>5. x % d = r BY <1>4, Remainder
<1> QED BY <1>2, <1>3, <1>4, <1>5

(* abir_get_ssize reads from a header of abiw_eval_ssize the length of the  *)
(* header and the size that was written, for every size below 2^30.         *)
LEMMA HeaderRead ==
    ASSUME NEW n \in Nat, n < 1073741824
    PROVE  Width(Header(n)) = Len(Header(n)) /\ SizeIn(Header(n)) = n
<1>1. CASE n <= 127
  <2>1. HeaderSize(n) = 1 BY <1>1, SMTT(20) DEF HeaderSize
  <2>2. Header(n) = <<n % 256>> /\ n % 256 = n BY <1>1, <2>1, SMTT(20) DEF Header
  <2>3. Width(Header(n)) = 1 BY <1>1, <2>2, SMTT(20) DEF Width
  <2> QED BY <2>2, <2>3, SMTT(20) DEF SizeIn
<1>2. CASE 127 < n /\ n <= 16383
  <2>1. HeaderSize(n) = 2 BY <1>2, SMTT(20) DEF HeaderSize
  <2>2. Header(n) = <<128 + (n \div 256), n % 256>> BY <2>1, SMTT(20) DEF Header
  <2>4. PICK q \in Nat, r \in 0 .. 255 : q = n \div 256 /\ r = n % 256 /\ n = 256 * q + r BY DivMod, SMTT(20)
  <2>5. Header(n) = <<128 + q, r>> /\ q \in 0 .. 63 BY <1>2, <2>2, <2>4, SMTT(20)
  <2>6. Width(Header(n)) = 2 BY <2>5, SMTT(20) DEF Width
  <2>7. (128 + q) % 64 = q BY <2>5, SMTT(20)
  <2>8. SizeIn(Header(n)) = q * 256 + r BY <2>5, <2>6, <2>7, SMTT(20) DEF SizeIn
  <2>9. Len(Header(n)) = 2 BY <2>5, SMTT(20)
  <2>10. SizeIn(Header(n)) = n BY <2>4, <2>8, SMTT(20)
  <2> QED BY <2>6, <2>9, <2>10, SMTT(20)
<1>3. CASE 16383 < n
  <2>1. HeaderSize(n) = 4 BY <1>3, SMTT(20) DEF HeaderSize
  <2>2. Header(n) = <<192 + ((n \div 16777216) % 64), (n \div 65536) % 256, (n \div 256) % 256, n % 256>>
    BY <2>1, SMTT(20) DEF Header
  <2>d. PICK a \in Nat, b \in Nat, e \in Nat : a = n \div 256 /\ b = n \div 65536 /\ e = n \div 16777216
    BY SMTT(20)
  <2>e. b = a \div 256 /\ e = b \div 256 /\ e <= 63
    BY <2>d, SMTT(20)
  <2>f. PICK r0 \in 0 .. 255 : n = 256 * a + r0 /\ n % 256 = r0 BY <2>d, DivMod, SMTT(20)
  <2>g. PICK r1 \in 0 .. 255 : a = 256 * b + r1 /\ a % 256 = r1 BY <2>e, DivMod, SMTT(20)
  <2>h. PICK r2 \in 0 .. 255 : b = 256 * e + r2 /\ b % 256 = r2 BY <2>e, DivMod, SMTT(20)
  <2>3. e % 64 = e BY <2>e, SMTT(20)
  <2>i. Header(n) = <<192 + e, r2, r1, r0>> BY <2>2, <2>3, <2>d, <2>f, <2>g, <2>h, SMTT(20)
  <2>4. n = e * 16777216 + r2 * 65536 + r1 * 256 + r0
    BY <2>f, <2>g, <2>h, SMTT(20)
  <2>6. Width(Header(n)) = 4 /\ Len(Header(n)) = 4 BY <2>e, <2>i, SMTT(20) DEF Width
  <2>7. (192 + e) % 64 = e BY <2>e, SMTT(20)
  <2>8. SizeIn(Header(n)) = e * 16777216 + r2 * 65536 + r1 * 256 + r0 BY <2>i, <2>6, <2>7, SMTT(20) DEF SizeIn
  <2>9. SizeIn(Header(n)) = n BY <2>4, <2>8, SMTT(20)
  <2> QED BY <2>6, <2>9, SMTT(20)
<1> QED BY <1>1, <1>2, <1>3, SMTT(20)

(* The last piece of what is written is not empty, so no shorter part of it *)
(* has as many bytes.                                                       *)
Solid(u) == Len(u) > 0 => u[Len(u)].size > 0

(* Two runs that do not end with an empty piece, put together.              *)
LEMMA SolidTwo ==
    ASSUME NEW u \in Seq(Pieces), NEW v \in Seq(Pieces), Solid(u), Solid(v)
    PROVE  Solid(u \o v)
<1>1. CASE Len(v) = 0
  <2>1. u \o v = u BY <1>1
  <2> QED BY <2>1
<1>2. CASE Len(v) # 0
  <2>1. Len(v) \in Nat /\ Len(v) > 0 /\ Len(u \o v) = Len(u) + Len(v) BY <1>2
  <2>2. (u \o v)[Len(u) + Len(v)] = v[Len(v)] BY <2>1
  <2> QED BY <2>1, <2>2 DEF Solid
<1> QED BY <1>1, <1>2

(* What is written of a node or of its inside does not end with an empty    *)
(* piece.                                                                   *)
LEMMA WrittenSolid ==
    ASSUME NEW t, NEW L \in Nat, NEW lo, NEW hi, IsArray(t, L), Ordered(t, L, lo, hi)
    PROVE  \A j \in DOMAIN t : Solid(Written(t, j)) /\ Solid(Inside(t, j))
<1> DEFINE S == {j \in DOMAIN t : Solid(Written(t, j))}
<1>1. \A j \in DOMAIN t : /\ t[j].key \in Keys /\ j \in Nat
                          /\ t[j].next \in Places(t) /\ t[j].neig \in Places(t)
  BY DEF IsArray
<1>2. ASSUME NEW j \in DOMAIN t, t[j].next # -1 => t[j].next \in S PROVE Solid(Inside(t, j))
  <2>1. CASE t[j].next # -1 BY <1>2, <2>1 DEF Inside
  <2>2. CASE t[j].next = -1
    <3>1. Inside(t, j) = ValuePieces(j, t[j].key) BY <2>2 DEF Inside
    <3>2. ValSize[t[j].key] \in Nat BY <1>1, KeyIs
    <3>3. CASE ValSize[t[j].key] = 0 BY <3>1, <3>3 DEF ValuePieces, Solid
    <3>4. CASE ValSize[t[j].key] # 0
      <4>1. Inside(t, j) = <<ValuePiece(j, t[j].key)>> BY <3>1, <3>4 DEF ValuePieces, ValuePiece
      <4>2. ValuePiece(j, t[j].key).size > 0 BY <3>2, <3>4 DEF ValuePiece
      <4> QED BY <4>1, <4>2 DEF Solid
    <3> QED BY <3>3, <3>4
  <2> QED BY <2>1, <2>2
<1>3. ASSUME NEW j \in DOMAIN t, t[j].next # -1 => t[j].next \in S, t[j].neig # -1 => t[j].neig \in S
      PROVE  j \in S
  <2>1. PICK A, B, F : A = Inside(t, j) /\ B = Behind(t, j) /\ F = Front(t, j) OBVIOUS
  <2>2. A \in Seq(Pieces) /\ B \in Seq(Pieces) /\ F \in Seq(Pieces) BY <2>1, WrittenIs, PiecesOf
  <2>3. Written(t, j) = F \o A \o B BY <2>1, WrittenIs
  <2>4. Solid(A) BY <1>2, <1>3, <2>1
  <2>5. Solid(B)
    <3>1. CASE t[j].neig = -1
      <4>1. B = <<>> BY <2>1, <3>1 DEF Behind
      <4> QED BY <4>1 DEF Solid
    <3>2. CASE t[j].neig # -1 BY <1>3, <2>1, <3>2 DEF Behind
    <3> QED BY <3>1, <3>2
  <2>6. Solid(F)
    <3>1. Len(F) = 3 /\ F[3] = HeaderPiece(ValueSize(t, j)) BY <2>1 DEF Front
    <3>2. ValueSize(t, j) \in Nat BY SizeIs
    <3>3. F[3].size \in 1 .. 4 BY <3>1, <3>2, HeaderLength
    <3> QED BY <3>1, <3>3 DEF Solid
  <2>7. F \o A \in Seq(Pieces) /\ Solid(F \o A) BY <2>2, <2>4, <2>6, SolidTwo
  <2> QED BY <2>2, <2>3, <2>5, <2>7, SolidTwo
<1>4. \A j \in DOMAIN t : j \in S
  <2>1. \A j \in DOMAIN t : (t[j].next # -1 => t[j].next \in S) /\ (t[j].neig # -1 => t[j].neig \in S) => j \in S
    BY <1>3
  <2> HIDE DEF S
  <2> QED BY <2>1, Downward
<1>5. \A j \in DOMAIN t : t[j].next # -1 => t[j].next \in S
  BY <1>1, <1>4 DEF Places
<1> QED BY <1>2, <1>4, <1>5

(* More pieces have no fewer bytes.                                         *)
LEMMA BytesGrow ==
    ASSUME NEW u \in Seq(Pieces)
    PROVE  \A n \in 0 .. Len(u) : \A m \in 0 .. n : Bytes(u, m) <= Bytes(u, n)
<1>1. PICK L \in Nat : L = Len(u) OBVIOUS
<1> DEFINE S == {n \in 0 .. L : \A m \in 0 .. n : Bytes(u, m) <= Bytes(u, n)}
<1>2. \A n \in 0 .. L : Bytes(u, n) \in Nat BY <1>1, BytesIs
<1>3. 0 \in S BY <1>2
<1>4. ASSUME NEW n \in 0 .. L, n < L, n \in S PROVE n + 1 \in S
  <2>1. n + 1 \in 0 .. Len(u) /\ n + 1 # 0 /\ n + 1 - 1 = n /\ n + 1 \in 1 .. Len(u) BY <1>1, <1>4
  <2>2. Bytes(u, n + 1) = Bytes(u, n) + u[n + 1].size BY <2>1, BytesIs
  <2>3. u[n + 1].size \in Nat BY <2>1, PieceSize
  <2>4. Bytes(u, n) <= Bytes(u, n + 1) /\ Bytes(u, n + 1) \in Nat BY <1>2, <2>2, <2>3
  <2>5. ASSUME NEW m \in 0 .. n + 1 PROVE Bytes(u, m) <= Bytes(u, n + 1)
    <3>1. CASE m = n + 1 BY <2>4, <3>1
    <3>2. CASE m # n + 1
      <4>1. m \in 0 .. n /\ m \in 0 .. L BY <3>2
      <4>2. Bytes(u, m) <= Bytes(u, n) BY <1>4, <4>1
      <4> QED BY <1>2, <2>4, <4>1, <4>2
    <3> QED BY <3>1, <3>2
  <2> QED BY <1>1, <2>1, <2>5
<1> HIDE DEF S
<1>5. \A n \in 0 .. L : n \in S BY <1>3, <1>4, UpTo
<1> QED BY <1>1, <1>5 DEF S

(* A run that does not end with an empty piece has more bytes than any part *)
(* of it.                                                                   *)
LEMMA SolidLess ==
    ASSUME NEW u \in Seq(Pieces), Solid(u), NEW m \in Nat, m < Len(u)
    PROVE  Bytes(u, m) < Bytes(u, Len(u))
<1>1. PICK L \in Nat : L = Len(u) OBVIOUS
<1>2. L > 0 /\ u[L].size > 0 /\ L \in 0 .. Len(u) /\ L # 0 /\ L \in 1 .. Len(u) BY <1>1 DEF Solid
<1>3. Bytes(u, L) = Bytes(u, L - 1) + u[L].size BY <1>2, BytesIs
<1>4. L - 1 \in 0 .. Len(u) /\ m \in 0 .. L - 1 BY <1>1, <1>2
<1>5. Bytes(u, m) <= Bytes(u, L - 1) BY <1>4, BytesGrow
<1>6. Bytes(u, m) \in Nat /\ Bytes(u, L - 1) \in Nat
  <2>1. m \in 0 .. Len(u) BY <1>1
  <2> QED BY <1>4, <2>1, BytesIs
<1>7. u[L].size \in Nat BY <1>2, PieceSize
<1> QED BY <1>1, <1>2, <1>3, <1>5, <1>6, <1>7

(* Skipping the bytes of u leads behind it.                                 *)
LEMMA SkippedIs ==
    ASSUME NEW u \in Seq(Pieces), NEW pieces \in Seq(Pieces), NEW p \in Nat \ {0}, Segment(pieces, p, u), Solid(u)
    PROVE  Skipped(pieces, p, Bytes(u, Len(u))) = p + Len(u)
<1>1. PICK L \in Nat : L = Len(u) OBVIOUS
<1>2. PICK n \in Nat : n = Bytes(u, L)
  <2>1. L \in 0 .. Len(u) BY <1>1
  <2> QED BY <2>1, BytesIs
<1>3. p - 1 + L <= Len(pieces) /\ Len(pieces) \in Nat BY <1>1 DEF Segment
<1>4. \A m \in 0 .. L : Bytes(pieces, p - 1 + m) = Bytes(pieces, p - 1) + Bytes(u, m)
  BY <1>1, SegmentBytes
<1>5. PICK b \in Nat : b = Bytes(pieces, p - 1)
  <2>1. p - 1 \in 0 .. Len(pieces) BY <1>3
  <2> QED BY <2>1, BytesIs
<1> DEFINE Ends == {q \in p .. Len(pieces) + 1 : Bytes(pieces, q - 1) = Bytes(pieces, p - 1) + n}
<1>6. p + L \in Ends
  <2>1. p + L \in p .. Len(pieces) + 1 /\ p + L - 1 = p - 1 + L /\ L \in 0 .. L BY <1>3
  <2>2. Bytes(pieces, p - 1 + L) = Bytes(pieces, p - 1) + n BY <1>2, <1>4, <2>1
  <2> QED BY <2>1, <2>2
<1>7. ASSUME NEW q \in Ends PROVE p + L <= q
  <2>1. SUFFICES ASSUME q < p + L PROVE FALSE BY <1>3
  <2>2. PICK m \in 0 .. L : m = q - p BY <2>1
  <2>3. m < Len(u) /\ m \in Nat /\ q - 1 = p - 1 + m BY <1>1, <2>1, <2>2
  <2>4. Bytes(u, m) < n BY <1>1, <1>2, <2>3, SolidLess
  <2>5. b + Bytes(u, m) = b + n BY <1>4, <1>5, <2>2, <2>3
  <2>6. Bytes(u, m) \in Nat BY <1>1, <2>2, BytesIs
  <2> QED BY <2>4, <2>5, <2>6
<1>8. Min(Ends) = p + L
  <2>1. Ends \subseteq Int BY <1>3
  <2>2. PICK e : e = Min(Ends) OBVIOUS
  <2> HIDE DEF Ends
  <2>3. e \in Ends /\ \A x \in Ends : e <= x
    <3>1. \E z \in Ends : \A x \in Ends : z <= x BY <1>6, <1>7
    <3>2. e = CHOOSE z \in Ends : \A x \in Ends : z <= x BY <2>2 DEF Min
    <3> QED BY <3>1, <3>2
  <2>4. p + L <= e /\ e <= p + L BY <1>6, <1>7, <2>3
  <2> QED BY <2>1, <2>2, <2>3, <2>4
<1>9. Skipped(pieces, p, n) = Min(Ends)
  <2>1. Ends # {} BY <1>6
  <2> QED BY <2>1 DEF Skipped
<1> QED BY <1>1, <1>2, <1>8, <1>9

-----------------------------------------------------------------------------
(* The neighbours of a node *)

Chains(t, c) ==
    c = [j \in DOMAIN t \cup {-1} |-> IF j = -1 THEN <<>> ELSE <<j>> \o c[t[j].neig]]

(* The chain of a node: the node, then the chain of its neighbour.          *)
LEMMA ChainIs ==
    ASSUME NEW t, NEW L \in Nat, NEW lo, NEW hi, IsArray(t, L), Ordered(t, L, lo, hi)
    PROVE  /\ Chain(t, -1) = <<>>
           /\ \A j \in DOMAIN t : Chain(t, j) = <<j>> \o Chain(t, t[j].neig)
           /\ \A j \in Places(t) : Chain(t, j) \in Seq(DOMAIN t)
<1> DEFINE V == Seq(DOMAIN t)
    G == [j \in DOMAIN t |-> [a \in V |-> [b \in V |-> <<j>> \o b]]]
<1>1. /\ \A j \in DOMAIN t : t[j].neig \in Places(t)
      /\ -1 \notin DOMAIN t
  BY DEF IsArray
<1>2. \A j \in DOMAIN t, b \in V : <<j>> \o b \in V OBVIOUS
<1>3. G \in [DOMAIN t -> [V -> [V -> V]]] BY <1>2
<1>4. \A j \in DOMAIN t, a, b \in V : G[j][a][b] = <<j>> \o b OBVIOUS
<1>v. <<>> \in V OBVIOUS
<1> HIDE DEF G, V
<1>5. PICK c \in [DOMAIN t -> V] : \A j \in DOMAIN t : c[j] = G[j][Link(c, t[j].next, <<>>)][Link(c, t[j].neig, <<>>)]
  <2>1. Along(t, V, G, <<>>) BY <1>3, <1>v, AlongLinks, Zenon
  <2> QED BY <2>1 DEF Along
<1>6. ASSUME NEW j \in DOMAIN t PROVE c[j] = <<j>> \o Link(c, t[j].neig, <<>>)
  <2>1. t[j].next \in Places(t) /\ t[j].neig \in Places(t) BY DEF IsArray
  <2>2. Link(c, t[j].next, <<>>) \in V /\ Link(c, t[j].neig, <<>>) \in V
    BY <1>5, <1>v, <2>1 DEF Link, Places
  <2> QED BY <1>4, <1>5, <2>2
<1>7. PICK e : e = [j \in DOMAIN t \cup {-1} |-> IF j = -1 THEN <<>> ELSE c[j]] OBVIOUS
<1>8. ASSUME NEW j \in DOMAIN t \cup {-1}
      PROVE  e[j] = IF j = -1 THEN <<>> ELSE <<j>> \o e[t[j].neig]
  <2>1. CASE j = -1 BY <1>7, <2>1
  <2>2. CASE j # -1
    <3>1. j \in DOMAIN t /\ e[j] = c[j] BY <1>7, <2>2
    <3>2. e[t[j].neig] = Link(c, t[j].neig, <<>>) BY <1>1, <1>7, <3>1 DEF Places, Link
    <3> QED BY <1>6, <2>2, <3>1, <3>2
  <2> QED BY <2>1, <2>2
<1>9. Chains(t, e) BY <1>7, <1>8 DEF Chains
<1>10. PICK f : f = (CHOOSE d : Chains(t, d)) OBVIOUS
<1>11. Chains(t, f) BY <1>9, <1>10, Zenon
<1>12. \A j : Chain(t, j) = (CHOOSE d : Chains(t, d))[j] BY Zenon DEF Chain, Chains
<1>13. \A j : Chain(t, j) = f[j] BY <1>10, <1>12
<1>14. \A j \in DOMAIN t \cup {-1} : f[j] = IF j = -1 THEN <<>> ELSE <<j>> \o f[t[j].neig]
  BY <1>11, Zenon DEF Chains
<1>15. Chain(t, -1) = <<>> BY <1>13, <1>14
<1>16. \A j \in DOMAIN t : Chain(t, j) = <<j>> \o Chain(t, t[j].neig)
  BY <1>1, <1>13, <1>14
<1> DEFINE S == {j \in DOMAIN t : Chain(t, j) \in V}
<1>17. \A j \in DOMAIN t : (t[j].next # -1 => t[j].next \in S) /\ (t[j].neig # -1 => t[j].neig \in S) => j \in S
  <2> SUFFICES ASSUME NEW j \in DOMAIN t, t[j].neig # -1 => t[j].neig \in S PROVE Chain(t, j) \in V
    OBVIOUS
  <2>1. Chain(t, t[j].neig) \in V BY <1>15, <1>v
  <2> QED BY <1>16, <1>2, <2>1
<1>18. \A j \in DOMAIN t : j \in S
  <2> HIDE DEF S
  <2> QED BY <1>17, Downward
<1>19. \A j \in Places(t) : Chain(t, j) \in Seq(DOMAIN t) BY <1>15, <1>18, <1>v DEF Places, V
<1> QED BY <1>15, <1>16, <1>19

(* The subnodes of a place are nodes of the array.                          *)
LEMMA KidsAre ==
    ASSUME NEW t, NEW L \in Nat, NEW lo, NEW hi, IsArray(t, L), Ordered(t, L, lo, hi), NEW j \in Places(t)
    PROVE  Kids(t, j) \in Seq(DOMAIN t)
<1>1. CASE j = -1 /\ DOMAIN t = {} BY <1>1 DEF Kids, Roots
<1>2. CASE j = -1 /\ DOMAIN t # {}
  <2>1. 0 \in Places(t) BY <1>2 DEF IsArray, Places
  <2> QED BY <1>2, <2>1, ChainIs DEF Kids, Roots
<1>3. CASE j # -1
  <2>1. t[j].next \in Places(t) BY <1>3 DEF IsArray, Places
  <2> QED BY <1>3, <2>1, ChainIs DEF Kids
<1> QED BY <1>1, <1>2, <1>3

(* A match is a node with the key, or -1.                                   *)
LEMMA MatchIs ==
    ASSUME NEW t, NEW chain \in Seq(DOMAIN t), NEW k
    PROVE  /\ Match(t, chain, k) \in Places(t)
           /\ Match(t, chain, k) # -1 => t[Match(t, chain, k)].key = k
<1> DEFINE M == {j \in DOMAIN chain : t[chain[j]].key = k}
<1>1. CASE M = {} BY <1>1 DEF Match, Places
<1>2. CASE M # {}
  <2>1. M \subseteq Nat /\ M # {} BY <1>2
  <2>2. Match(t, chain, k) = chain[Min(M)] BY <1>2 DEF Match
  <2> HIDE DEF M
  <2>3. PICK e \in M : \A j \in M : ~(<<j, e>> \in OpToRel(<, Nat))
    BY <2>1, WFMin, NatLessThanWellFounded, Zenon
  <2>4. \A j \in M : ~(j < e) BY <2>1, <2>3, Zenon DEF OpToRel
  <2>5. \A j \in M : e <= j BY <2>1, <2>4
  <2>6. Min(M) \in M BY <2>5 DEF Min
  <2>7. chain[Min(M)] \in DOMAIN t /\ t[chain[Min(M)]].key = k BY <2>6 DEF M
  <2> QED BY <2>2, <2>7 DEF Places
<1> QED BY <1>1, <1>2

-----------------------------------------------------------------------------
(* The reader's function *)

Spots(t, pieces) == [among : DOMAIN t \cup {-1}, from : 0 .. Len(pieces) + 1, left : Int]

OneReading(t, pieces, x, c) ==
    IF x.left <= 0 \/ x.from > Len(pieces)
    THEN [out |-> IF x.left = 0 THEN <<>> ELSE <<Torn>>, rest |-> x.from]
    ELSE IF ~IsNode(pieces, x.from) THEN [out |-> <<Torn>>, rest |-> Lost]
    ELSE LET r == ReadNode(t, pieces, x.from, x.among, c)
             s == c[[x EXCEPT !.from = r.rest, !.left = @ - r.used]] IN
         [out |-> r.out \o s.out, rest |-> s.rest]

Reads(t, pieces, c) == c = [x \in Spots(t, pieces) |-> OneReading(t, pieces, x, c)]

(* A reader stops behind p, or has lost its place.                          *)
Stops(pieces, p, q) == q \in 0 .. Len(pieces) + 1 /\ (q = Lost \/ (p # Lost /\ p <= q))

(* Skipping stops further on, or loses its place.                           *)
LEMMA SkippedStops ==
    ASSUME NEW pieces \in Seq(Pieces), NEW p \in Nat \ {0}, NEW n
    PROVE  Stops(pieces, p, Skipped(pieces, p, n))
<1> DEFINE E == {q \in p .. Len(pieces) + 1 : Bytes(pieces, q - 1) = Bytes(pieces, p - 1) + n}
<1>1. CASE E = {}
  <2>1. Skipped(pieces, p, n) = Lost BY <1>1 DEF Skipped
  <2>2. Lost \in 0 .. Len(pieces) + 1 BY DEF Lost
  <2> QED BY <2>1, <2>2 DEF Stops
<1>2. CASE E # {}
  <2>1. E \subseteq Nat /\ E # {} BY <1>2
  <2>2. Skipped(pieces, p, n) = Min(E) BY <1>2 DEF Skipped
  <2>0. E \subseteq p .. Len(pieces) + 1 OBVIOUS
  <2> HIDE DEF E
  <2>3. PICK e \in E : \A j \in E : ~(<<j, e>> \in OpToRel(<, Nat))
    BY <2>1, WFMin, NatLessThanWellFounded, Zenon
  <2>4. \A j \in E : ~(j < e) BY <2>1, <2>3, Zenon DEF OpToRel
  <2>5. \A j \in E : e <= j BY <2>1, <2>4
  <2>6. Min(E) \in E BY <2>5 DEF Min
  <2>7. PICK q \in p .. Len(pieces) + 1 : q = Min(E) BY <2>0, <2>6
  <2>8. q \in 0 .. Len(pieces) + 1 /\ p <= q BY <2>7
  <2> QED BY <2>2, <2>7, <2>8 DEF Stops, Lost
<1> QED BY <1>1, <1>2

(* What is read from a header is a number.                                  *)
LEMMA SizeInIs ==
    ASSUME NEW n \in Nat
    PROVE  SizeIn(Header(n)) \in Int
<1>1. CASE n <= 16383
  <2>1. n < 1073741824 BY <1>1, SMTT(20)
  <2> QED BY <2>1, HeaderRead, SMTT(20)
<1>2. CASE 16383 < n
  <2>1. HeaderSize(n) = 4 BY <1>2, SMTT(20) DEF HeaderSize
  <2>2. Header(n) = <<192 + ((n \div 16777216) % 64), (n \div 65536) % 256, (n \div 256) % 256, n % 256>>
    BY <2>1, SMTT(20) DEF Header
  <2>3. PICK a \in Nat, b \in Nat, e \in Nat : a = n \div 256 /\ b = n \div 65536 /\ e = n \div 16777216
    BY SMTT(20)
  <2>4. PICK h1 \in 0 .. 63 : h1 = e % 64 BY DivMod, SMTT(20)
  <2>5. PICK h2 \in 0 .. 255 : h2 = b % 256 BY DivMod, SMTT(20)
  <2>6. PICK h3 \in 0 .. 255 : h3 = a % 256 BY DivMod, SMTT(20)
  <2>7. PICK h4 \in 0 .. 255 : h4 = n % 256 BY DivMod, SMTT(20)
  <2>8. Header(n) = <<192 + h1, h2, h3, h4>> BY <2>2, <2>3, <2>4, <2>5, <2>6, <2>7, SMTT(20)
  <2>9. Width(Header(n)) = 4 BY <2>8, SMTT(20) DEF Width
  <2>10. PICK h0 \in Nat : h0 = 192 + h1 BY SMTT(20)
  <2>11. PICK h5 \in Nat : h5 = h0 % 64 BY <2>10, DivMod, SMTT(20)
  <2>12. SizeIn(Header(n)) = h5 * 16777216 + h2 * 65536 + h3 * 256 + h4
    BY <2>8, <2>9, <2>10, <2>11, SMTT(20) DEF SizeIn
  <2> QED BY <2>12, SMTT(20)
<1> QED BY <1>1, <1>2, SMTT(20)

(* In a packet a piece that is a size header is one.                        *)
LEMMA HeadersAre ==
    ASSUME NEW pieces \in Seq(Pieces), NEW q \in 1 .. Len(pieces), pieces[q].is = "size"
    PROVE  \E n \in Nat : pieces[q] = HeaderPiece(n)
<1>1. pieces[q] \in Pieces OBVIOUS
<1>2. \A k \in Keys : KeyPiece(k).is = "key" BY DEF KeyPiece
<1>3. \A k \in Keys, j \in Nat : ValuePiece(j, k).is = "value" BY DEF ValuePiece
<1> QED BY <1>1, <1>2, <1>3 DEF Pieces

(* Where a node is next, its three pieces are there and have sizes.         *)
LEMMA NodeIs ==
    ASSUME NEW pieces \in Seq(Pieces), NEW p \in Nat, IsNode(pieces, p)
    PROVE  /\ p \in 1 .. Len(pieces) /\ p + 3 \in 0 .. Len(pieces) + 1
           /\ SizeIn(pieces[p + 2].bytes) \in Int
           /\ pieces[p].size + pieces[p + 1].size + pieces[p + 2].size \in Int
<1>1. p \in 1 .. Len(pieces) /\ p + 1 \in 1 .. Len(pieces) /\ p + 2 \in 1 .. Len(pieces) /\ pieces[p + 2].is = "size"
  BY DEF IsNode, Lost
<1>2. PICK n \in Nat : pieces[p + 2] = HeaderPiece(n) BY <1>1, HeadersAre
<1>3. pieces[p + 2].bytes = Header(n) BY <1>2 DEF HeaderPiece
<1>4. SizeIn(pieces[p + 2].bytes) \in Int BY <1>3, SizeInIs
<1>5. pieces[p].size \in Nat /\ pieces[p + 1].size \in Nat /\ pieces[p + 2].size \in Nat BY <1>1, PieceSize
<1> QED BY <1>1, <1>4, <1>5, SMTT(30)

Agree(t, pieces, p, c, d) ==
    \A y \in Spots(t, pieces) : y.from > p => c[y] = d[y] /\ Stops(pieces, y.from, c[y].rest)

(* Reading a node depends only on how places further on are read.           *)
LEMMA NodeAgrees ==
    ASSUME NEW t, NEW L \in Nat, NEW lo, NEW hi, IsArray(t, L), Ordered(t, L, lo, hi),
           NEW pieces \in Seq(Pieces), NEW p \in Nat, IsNode(pieces, p), NEW j \in Places(t),
           NEW c, NEW d, Agree(t, pieces, p, c, d)
    PROVE  /\ ReadNode(t, pieces, p, j, c) = ReadNode(t, pieces, p, j, d)
           /\ Stops(pieces, p + 3, ReadNode(t, pieces, p, j, c).rest)
           /\ ReadNode(t, pieces, p, j, c).used \in Int
<1>1. PICK n \in Int : n = SizeIn(pieces[p + 2].bytes) BY NodeIs
<1>2. PICK m : m = Match(t, Kids(t, j), pieces[p + 1].key) OBVIOUS
<1>3. m \in Places(t) BY <1>2, KidsAre, MatchIs
<1>s. PICK s \in Int : s = pieces[p].size + pieces[p + 1].size + pieces[p + 2].size BY NodeIs
<1>4. PICK u \in Int : u = pieces[p].size + pieces[p + 1].size + pieces[p + 2].size + n BY <1>s
<1>5. PICK y : y = [among |-> m, from |-> p + 3, left |-> n] OBVIOUS
<1>6. y \in Spots(t, pieces) /\ y.from = p + 3
  BY <1>1, <1>3, <1>5, NodeIs DEF Spots, Places
<1>7. c[y] = d[y] /\ Stops(pieces, p + 3, c[y].rest) BY <1>6 DEF Agree
<1>8. \A e : ReadNode(t, pieces, p, j, e) =
        IF m = -1 THEN [out |-> <<>>, rest |-> Skipped(pieces, p + 3, n), used |-> u]
        ELSE IF t[m].next # -1 THEN [out |-> Append(e[y].out, [node |-> m]), rest |-> e[y].rest, used |-> u]
        ELSE [out |-> <<Handed(t, m, n)>>, rest |-> Skipped(pieces, p + 3, n), used |-> u]
  BY <1>1, <1>2, <1>4, <1>5 DEF ReadNode
<1>9. Stops(pieces, p + 3, Skipped(pieces, p + 3, n))
  <2>1. p + 3 \in Nat \ {0} OBVIOUS
  <2> QED BY <2>1, SkippedStops
<1>10. ReadNode(t, pieces, p, j, c) = ReadNode(t, pieces, p, j, d) BY <1>7, <1>8
<1>r. PICK r : r = ReadNode(t, pieces, p, j, c) OBVIOUS
<1>11. CASE m = -1
  <2>1. r = [out |-> <<>>, rest |-> Skipped(pieces, p + 3, n), used |-> u] BY <1>8, <1>11, <1>r
  <2>2. r.rest = Skipped(pieces, p + 3, n) /\ r.used = u BY <2>1
  <2> QED BY <1>9, <1>10, <1>r, <2>2
<1>12. CASE m # -1 /\ t[m].next # -1
  <2>1. r = [out |-> Append(c[y].out, [node |-> m]), rest |-> c[y].rest, used |-> u] BY <1>8, <1>12, <1>r
  <2>2. r.rest = c[y].rest /\ r.used = u BY <2>1
  <2> QED BY <1>7, <1>10, <1>r, <2>2
<1>13. CASE m # -1 /\ t[m].next = -1
  <2>1. r = [out |-> <<Handed(t, m, n)>>, rest |-> Skipped(pieces, p + 3, n), used |-> u] BY <1>8, <1>13, <1>r
  <2>2. r.rest = Skipped(pieces, p + 3, n) /\ r.used = u BY <2>1
  <2> QED BY <1>9, <1>10, <1>r, <2>2
<1> QED BY <1>11, <1>12, <1>13

(* Reading from a place depends only on how places further on are read: the *)
(* recursion of abir_process_node is well-founded on any packet.            *)
LEMMA ReadingAgrees ==
    ASSUME NEW t, NEW L \in Nat, NEW lo, NEW hi, IsArray(t, L), Ordered(t, L, lo, hi),
           NEW pieces \in Seq(Pieces), NEW x \in Spots(t, pieces),
           NEW c, NEW d, \A y \in Spots(t, pieces) : y.from = Lost =>
                             c[y] = d[y] /\ Stops(pieces, y.from, c[y].rest),
           x.from # Lost => Agree(t, pieces, x.from, c, d)
    PROVE  /\ OneReading(t, pieces, x, c) = OneReading(t, pieces, x, d)
           /\ Stops(pieces, x.from, OneReading(t, pieces, x, c).rest)
<1>1. x.from \in 0 .. Len(pieces) + 1 /\ x.among \in Places(t) /\ x.left \in Int /\ x.from \in Nat
  BY DEF Spots, Places
<1>2. CASE x.left <= 0 \/ x.from > Len(pieces)
  <2>1. PICK o : o = IF x.left = 0 THEN <<>> ELSE <<Torn>> OBVIOUS
  <2>2. \A e : OneReading(t, pieces, x, e) = [out |-> o, rest |-> x.from]
    BY <1>2, <2>1, Zenon DEF OneReading
  <2>3. [out |-> o, rest |-> x.from].rest = x.from OBVIOUS
  <2>4. Stops(pieces, x.from, x.from) BY <1>1 DEF Stops
  <2> QED BY <2>2, <2>3, <2>4, Zenon
<1>3. CASE ~(x.left <= 0 \/ x.from > Len(pieces)) /\ ~IsNode(pieces, x.from)
  <2>1. \A e : OneReading(t, pieces, x, e) = [out |-> <<Torn>>, rest |-> Lost] BY <1>3 DEF OneReading
  <2>2. [out |-> <<Torn>>, rest |-> Lost].rest = Lost /\ Lost \in 0 .. Len(pieces) + 1 BY DEF Lost
  <2> QED BY <2>1, <2>2 DEF Stops
<1>4. CASE ~(x.left <= 0 \/ x.from > Len(pieces)) /\ IsNode(pieces, x.from)
  <2>1. Agree(t, pieces, x.from, c, d) /\ x.from # Lost BY <1>4 DEF IsNode
  <2>2. PICK r : r = ReadNode(t, pieces, x.from, x.among, c) OBVIOUS
  <2>3. r = ReadNode(t, pieces, x.from, x.among, d) /\ Stops(pieces, x.from + 3, r.rest) /\ r.used \in Int
    BY <1>1, <1>4, <2>1, <2>2, NodeAgrees
  <2>4. PICK y : y = [x EXCEPT !.from = r.rest, !.left = @ - r.used] OBVIOUS
  <2>5. y \in Spots(t, pieces) /\ y.from = r.rest
    <3>1. x.left - r.used \in Int /\ r.rest \in 0 .. Len(pieces) + 1 BY <1>1, <2>3 DEF Stops
    <3> QED BY <2>4, <3>1 DEF Spots
  <2>6. y.from = Lost \/ y.from > x.from BY <1>1, <2>3, <2>5 DEF Stops
  <2>7. c[y] = d[y] /\ Stops(pieces, y.from, c[y].rest) BY <2>1, <2>5, <2>6 DEF Agree
  <2>8. \A e : ReadNode(t, pieces, x.from, x.among, e) = r =>
          OneReading(t, pieces, x, e) = [out |-> r.out \o e[y].out, rest |-> e[y].rest]
    BY <1>4, <2>4 DEF OneReading
  <2>9. OneReading(t, pieces, x, c) = [out |-> r.out \o c[y].out, rest |-> c[y].rest] BY <2>2, <2>8
  <2>10. OneReading(t, pieces, x, d) = [out |-> r.out \o d[y].out, rest |-> d[y].rest] BY <2>3, <2>8
  <2>11. Stops(pieces, x.from, c[y].rest)
    <3>1. CASE y.from = Lost
      <4>1. Stops(pieces, Lost, c[y].rest) BY <2>7, <3>1
      <4> QED BY <4>1 DEF Stops, Lost
    <3>2. CASE y.from > x.from
      <4>1. y.from \in Nat /\ Stops(pieces, y.from, c[y].rest) BY <2>5, <2>7 DEF Spots
      <4> QED BY <1>1, <2>1, <3>2, <4>1 DEF Stops, Lost
    <3> QED BY <2>6, <3>1, <3>2
  <2> QED BY <2>7, <2>9, <2>10, <2>11
<1> QED BY <1>2, <1>3, <1>4

(* So a function that reads from every place of a packet exists.            *)
LEMMA ReadsExist ==
    ASSUME NEW t, NEW L \in Nat, NEW lo, NEW hi, IsArray(t, L), Ordered(t, L, lo, hi),
           NEW pieces \in Seq(Pieces)
    PROVE  \E c : Reads(t, pieces, c)
<1>1. PICK N0 \in Nat : N0 = Len(pieces) OBVIOUS
<1> DEFINE Late(m) == {x \in Spots(t, pieces) : x.from = Lost \/ x.from > N0 + 1 - m}
    Upto(m, c) == c = [x \in Late(m) |-> OneReading(t, pieces, x, c)]
    Sound(m, c) == Upto(m, c) /\ \A x \in Late(m) : Stops(pieces, x.from, c[x].rest)
    S == {m \in 0 .. N0 + 1 : \E c : Sound(m, c)}
<1>2. \A x \in Spots(t, pieces) : x.from \in 0 .. N0 + 1 BY <1>1 DEF Spots
<1>3. 0 \in S
  <2>1. PICK c : c = [x \in Late(0) |-> [out |-> IF x.left = 0 THEN <<>> ELSE <<Torn>>, rest |-> x.from]]
    OBVIOUS
  <2>2. ASSUME NEW x \in Late(0)
        PROVE  OneReading(t, pieces, x, c) = c[x] /\ Stops(pieces, x.from, c[x].rest)
    <3>1. x.from = Lost /\ x.left \in Int BY <1>2 DEF Spots
    <3>2. c[x] = [out |-> IF x.left = 0 THEN <<>> ELSE <<Torn>>, rest |-> x.from] BY <2>1
    <3>3. OneReading(t, pieces, x, c) = [out |-> IF x.left = 0 THEN <<>> ELSE <<Torn>>, rest |-> x.from]
      BY <3>1 DEF OneReading, IsNode
    <3>4. c[x].rest = x.from BY <3>2
    <3> QED BY <1>1, <3>1, <3>2, <3>3, <3>4 DEF Stops, Lost
  <2>3. Upto(0, c) BY <2>1, <2>2
  <2>4. Sound(0, c) BY <2>2, <2>3
  <2> HIDE DEF Sound
  <2> QED BY <2>4
<1>4. ASSUME NEW m \in 0 .. N0 + 1, m < N0 + 1, m \in S PROVE m + 1 \in S
  <2>1. PICK c : Sound(m, c) BY <1>4
  <2>2. PICK d : d = [x \in Late(m + 1) |-> OneReading(t, pieces, x, c)] OBVIOUS
  <2>3. Late(m) \subseteq Late(m + 1) BY <1>2
  <2>4. \A x \in Late(m) : c[x] = OneReading(t, pieces, x, c)
    <3>1. Upto(m, c) BY <2>1
    <3> HIDE DEF Late
    <3> QED BY <3>1, Zenon
  <2>5. \A x \in Late(m) : d[x] = c[x] /\ Stops(pieces, x.from, c[x].rest)
    BY <2>1, <2>2, <2>3, <2>4
  <2>6. ASSUME NEW x \in Late(m + 1)
        PROVE  /\ OneReading(t, pieces, x, c) = OneReading(t, pieces, x, d)
               /\ Stops(pieces, x.from, d[x].rest)
    <3>1. \A y \in Spots(t, pieces) : y.from = Lost => c[y] = d[y] /\ Stops(pieces, y.from, c[y].rest)
      BY <2>5
    <3>2. x.from # Lost => Agree(t, pieces, x.from, c, d)
      <4>1. SUFFICES ASSUME x.from # Lost, NEW y \in Spots(t, pieces), y.from > x.from PROVE y \in Late(m)
        BY <2>5 DEF Agree
      <4> QED BY <1>2, <4>1
    <3>3. d[x] = OneReading(t, pieces, x, c) BY <2>2
    <3>4. x \in Spots(t, pieces) OBVIOUS
    <3> HIDE DEF Late
    <3>5. OneReading(t, pieces, x, c) = OneReading(t, pieces, x, d)
          /\ Stops(pieces, x.from, OneReading(t, pieces, x, c).rest)
      BY <3>1, <3>2, <3>4, ReadingAgrees
    <3> QED BY <3>3, <3>5
  <2>7. Upto(m + 1, d)
    <3>1. \A x \in Late(m + 1) : OneReading(t, pieces, x, c) = OneReading(t, pieces, x, d) BY <2>6
    <3> HIDE DEF Late
    <3> QED BY <2>2, <3>1
  <2>8. Sound(m + 1, d) BY <2>6, <2>7
  <2>9. m + 1 \in 0 .. N0 + 1 BY <1>4
  <2> HIDE DEF Sound
  <2> QED BY <2>8, <2>9
<1> HIDE DEF S
<1>5. N0 + 1 \in S
  <2>1. N0 + 1 \in Nat /\ N0 + 1 \in 0 .. N0 + 1 OBVIOUS
  <2>2. \A m \in 0 .. N0 + 1 : m \in S BY <1>3, <1>4, <2>1, UpTo
  <2> QED BY <2>1, <2>2
<1>6. Late(N0 + 1) = Spots(t, pieces) BY <1>2 DEF Lost
<1>7. PICK c : Upto(N0 + 1, c) BY <1>5 DEF S
<1> QED BY <1>6, <1>7 DEF Reads

(* And ReadNodes is that function, from the first piece.                    *)
LEMMA ReadIs ==
    ASSUME NEW t, NEW L \in Nat, NEW lo, NEW hi, IsArray(t, L), Ordered(t, L, lo, hi),
           NEW pieces \in Seq(Pieces)
    PROVE  \E c : /\ \A x \in Spots(t, pieces) : c[x] = OneReading(t, pieces, x, c)
                  /\ \A n : ReadNodes(t, pieces, n) = c[[among |-> -1, from |-> 1, left |-> n]]
<1>1. PICK c : c = (CHOOSE d : Reads(t, pieces, d)) OBVIOUS
<1>2. Reads(t, pieces, c) BY <1>1, ReadsExist, Zenon
<1>3. \A n : ReadNodes(t, pieces, n) = (CHOOSE d : Reads(t, pieces, d))[[among |-> -1, from |-> 1, left |-> n]]
  BY Zenon DEF ReadNodes, Reads, OneReading, Spots
<1>4. \A x \in Spots(t, pieces) : c[x] = OneReading(t, pieces, x, c) BY <1>2, Zenon DEF Reads
<1> QED BY <1>1, <1>3, <1>4

(* What a reader with the tree t makes of node n of w alone, among the      *)
(* subnodes of p, when it makes inner of its subnodes.                      *)
Alone(w, n, t, p, inner) ==
    LET m == Match(t, Kids(t, p), w[n].key) IN
    IF m = -1 THEN <<>>
    ELSE IF t[m].next # -1 THEN Append(inner, [node |-> m])
    ELSE <<Handed(t, m, ValueSize(w, n))>>

Expecting(w, t, e) ==
    e = [n \in DOMAIN w |-> [p \in DOMAIN t \cup {-1} |->
        LET m == Match(t, Kids(t, p), w[n].key)
            inner == IF w[n].next # -1 THEN e[w[n].next][m] ELSE <<>> IN
        (IF m = -1 THEN <<>>
         ELSE IF t[m].next # -1 THEN Append(inner, [node |-> m])
         ELSE <<Handed(t, m, ValueSize(w, n))>>)
        \o (IF w[n].neig # -1 THEN e[w[n].neig][p] ELSE <<>>)]]

Outs(w, t) == {[node |-> m] : m \in DOMAIN t} \cup {Handed(t, m, ValueSize(w, n)) : m \in DOMAIN t, n \in DOMAIN w}

(* What a reader should get of a node and of those after it, node by node.  *)
LEMMA ExpectedIs ==
    ASSUME NEW w, NEW M \in Nat, NEW wlo, NEW whi, IsArray(w, M), Ordered(w, M, wlo, whi),
           NEW t, NEW L \in Nat, NEW lo, NEW hi, IsArray(t, L), Ordered(t, L, lo, hi)
    PROVE  \A n \in DOMAIN w, p \in Places(t) :
              Expected(w, n, t, p) =
                Alone(w, n, t, p,
                      IF w[n].next # -1
                      THEN Expected(w, w[n].next, t, Match(t, Kids(t, p), w[n].key)) ELSE <<>>)
                \o (IF w[n].neig # -1 THEN Expected(w, w[n].neig, t, p) ELSE <<>>)
<1> DEFINE O == Seq(Outs(w, t))
    V == [Places(t) -> O]
    G == [n \in DOMAIN w |-> [a \in V |-> [b \in V |-> [p \in Places(t) |->
            Alone(w, n, t, p, IF w[n].next # -1 THEN a[Match(t, Kids(t, p), w[n].key)] ELSE <<>>) \o b[p]]]]]
    d == [p \in Places(t) |-> <<>>]
<1>1. \A n \in DOMAIN w : w[n].next \in Places(w) /\ w[n].neig \in Places(w) BY DEF IsArray
<1>2. \A n \in DOMAIN w, p \in Places(t) : Match(t, Kids(t, p), w[n].key) \in Places(t)
  BY KidsAre, MatchIs
<1>o. <<>> \in O /\ \A x, y \in O : x \o y \in O OBVIOUS
<1>3. ASSUME NEW n \in DOMAIN w, NEW p \in Places(t), NEW inner \in O
      PROVE  Alone(w, n, t, p, inner) \in O
  <2>1. PICK m \in Places(t) : m = Match(t, Kids(t, p), w[n].key) BY <1>2
  <2>2. m # -1 => m \in DOMAIN t BY DEF Places
  <2>3. m # -1 => [node |-> m] \in Outs(w, t) /\ Handed(t, m, ValueSize(w, n)) \in Outs(w, t)
    BY <2>2 DEF Outs
  <2>4. CASE m = -1 BY <2>1, <2>4, <1>o DEF Alone
  <2>5. CASE m # -1
    <3>1. Append(inner, [node |-> m]) \in O /\ <<Handed(t, m, ValueSize(w, n))>> \in O BY <2>3, <2>5
    <3> QED BY <2>1, <2>5, <3>1 DEF Alone
  <2> QED BY <2>4, <2>5
<1>v. d \in V BY <1>o
<1>4. ASSUME NEW n \in DOMAIN w, NEW a \in V, NEW b \in V, NEW p \in Places(t)
      PROVE  Alone(w, n, t, p, IF w[n].next # -1 THEN a[Match(t, Kids(t, p), w[n].key)] ELSE <<>>) \o b[p] \in O
  <2>1. PICK m \in Places(t) : m = Match(t, Kids(t, p), w[n].key) BY <1>2
  <2>2. PICK x \in O : x = IF w[n].next # -1 THEN a[Match(t, Kids(t, p), w[n].key)] ELSE <<>>
    <3>1. a[m] \in O OBVIOUS
    <3> HIDE DEF O
    <3> QED BY <1>o, <2>1, <3>1
  <2>3. PICK y \in O : y = Alone(w, n, t, p, x) BY <1>3
  <2>4. b[p] \in O OBVIOUS
  <2> HIDE DEF O
  <2> QED BY <1>o, <2>2, <2>3, <2>4
<1>5. G \in [DOMAIN w -> [V -> [V -> V]]]
  <2> HIDE DEF O
  <2> QED BY <1>4
<1>6. \A n \in DOMAIN w, a, b \in V : G[n][a][b] = [p \in Places(t) |->
            Alone(w, n, t, p, IF w[n].next # -1 THEN a[Match(t, Kids(t, p), w[n].key)] ELSE <<>>) \o b[p]]
  OBVIOUS
<1>d. PICK z : z = d OBVIOUS
<1> HIDE DEF O, V, G, d
<1>7. PICK c \in [DOMAIN w -> V] : \A n \in DOMAIN w : c[n] = G[n][Link(c, w[n].next, z)][Link(c, w[n].neig, z)]
  <2>1. Along(w, V, G, z) BY <1>5, <1>v, <1>d, AlongLinks, Zenon
  <2> QED BY <2>1 DEF Along
<1>8. ASSUME NEW n \in DOMAIN w
      PROVE  c[n] = [p \in Places(t) |->
               Alone(w, n, t, p, IF w[n].next # -1 THEN c[w[n].next][Match(t, Kids(t, p), w[n].key)] ELSE <<>>)
               \o (IF w[n].neig # -1 THEN c[w[n].neig][p] ELSE <<>>)]
  <2>1. Link(c, w[n].next, z) \in V /\ Link(c, w[n].neig, z) \in V
    BY <1>1, <1>7, <1>v, <1>d DEF Link, Places
  <2>2. c[n] = [p \in Places(t) |->
            Alone(w, n, t, p, IF w[n].next # -1 THEN Link(c, w[n].next, z)[Match(t, Kids(t, p), w[n].key)] ELSE <<>>)
            \o Link(c, w[n].neig, z)[p]]
    BY <1>6, <1>7, <2>1
  <2>3. \A p \in Places(t) : z[p] = <<>> BY <1>d DEF d
  <2>4. w[n].next # -1 => Link(c, w[n].next, z) = c[w[n].next] BY DEF Link
  <2>5. \A p \in Places(t) : Link(c, w[n].neig, z)[p] = IF w[n].neig # -1 THEN c[w[n].neig][p] ELSE <<>>
    BY <2>3 DEF Link
  <2> QED BY <2>2, <2>4, <2>5
<1>9. Expecting(w, t, c)
  <2>1. c = [n \in DOMAIN w |-> c[n]] BY <1>7
  <2> QED BY <1>8, <2>1 DEF Expecting, Alone, Places
<1>10. PICK f : f = (CHOOSE e : Expecting(w, t, e)) OBVIOUS
<1>11. Expecting(w, t, f) BY <1>9, <1>10, Zenon
<1>12. \A n, p : Expected(w, n, t, p) = (CHOOSE e : Expecting(w, t, e))[n][p] BY Zenon DEF Expected, Expecting
<1>13. \A n, p : Expected(w, n, t, p) = f[n][p] BY <1>10, <1>12
<1>14. ASSUME NEW n \in DOMAIN w, NEW p \in Places(t)
       PROVE  f[n][p] = Alone(w, n, t, p, IF w[n].next # -1 THEN f[w[n].next][Match(t, Kids(t, p), w[n].key)] ELSE <<>>)
                     \o (IF w[n].neig # -1 THEN f[w[n].neig][p] ELSE <<>>)
  <2>1. p \in DOMAIN t \cup {-1} BY DEF Places
  <2>2. f[n] = [q \in DOMAIN t \cup {-1} |->
                Alone(w, n, t, q, IF w[n].next # -1 THEN f[w[n].next][Match(t, Kids(t, q), w[n].key)] ELSE <<>>)
                \o (IF w[n].neig # -1 THEN f[w[n].neig][q] ELSE <<>>)]
    <3>1. f = [m \in DOMAIN w |-> [q \in DOMAIN t \cup {-1} |->
                Alone(w, m, t, q, IF w[m].next # -1 THEN f[w[m].next][Match(t, Kids(t, q), w[m].key)] ELSE <<>>)
                \o (IF w[m].neig # -1 THEN f[w[m].neig][q] ELSE <<>>)]]
      BY <1>11, Zenon DEF Expecting, Alone
    <3> QED BY <3>1, Zenon
  <2> QED BY <2>1, <2>2, Zenon
<1>15. ASSUME NEW n \in DOMAIN w, NEW p \in Places(t)
       PROVE  Expected(w, n, t, p) =
                Alone(w, n, t, p,
                      IF w[n].next # -1
                      THEN Expected(w, w[n].next, t, Match(t, Kids(t, p), w[n].key)) ELSE <<>>)
                \o (IF w[n].neig # -1 THEN Expected(w, w[n].neig, t, p) ELSE <<>>)
  <2>1. Expected(w, n, t, p) = f[n][p] BY <1>13
  <2>2. Expected(w, w[n].next, t, Match(t, Kids(t, p), w[n].key)) = f[w[n].next][Match(t, Kids(t, p), w[n].key)]
    BY <1>13
  <2>3. Expected(w, w[n].neig, t, p) = f[w[n].neig][p] BY <1>13
  <2> QED BY <1>14, <2>1, <2>2, <2>3
<1> QED BY <1>15

(* The sizes of w fit in a header.                                          *)
Fits(n) == n < 1073741824
Readable(w) == \A n \in DOMAIN w : Fits(KeySize[w[n].key]) /\ Fits(ValueSize(w, n))

(* A size that fits is read from its header as it was written.              *)
LEMMA HeaderFits ==
    ASSUME NEW n \in Nat, Fits(n)
    PROVE  Width(Header(n)) = Len(Header(n)) /\ SizeIn(Header(n)) = n
BY HeaderRead, SMTT(20) DEF Fits

(* The length of two runs of pieces.                                        *)
LEMMA JoinLength ==
    ASSUME NEW u \in Seq(Pieces), NEW v \in Seq(Pieces)
    PROVE  /\ Len(u) \in Nat /\ Len(v) \in Nat /\ Len(u \o v) = Len(u) + Len(v)
OBVIOUS

(* What the reader finds where node n of w is written.                      *)
LEMMA NodeThere ==
    ASSUME NEW w, NEW M \in Nat, NEW wlo, NEW whi, IsArray(w, M), Ordered(w, M, wlo, whi), Readable(w),
           NEW n \in DOMAIN w, NEW pieces \in Seq(Pieces), NEW p \in Nat \ {0}, Segment(pieces, p, Written(w, n))
    PROVE  /\ IsNode(pieces, p) /\ p \in 1 .. Len(pieces)
           /\ pieces[p + 1].key = w[n].key
           /\ SizeIn(pieces[p + 2].bytes) = ValueSize(w, n)
           /\ pieces[p].size + pieces[p + 1].size + pieces[p + 2].size + ValueSize(w, n)
                = Adjusted(KeySize[w[n].key]) + Adjusted(ValueSize(w, n))
           /\ Segment(pieces, p + 3, Inside(w, n))
           /\ Segment(pieces, p + 3 + Len(Inside(w, n)), Behind(w, n))
           /\ Len(Written(w, n)) = 3 + Len(Inside(w, n)) + Len(Behind(w, n))
<1>1. PICK A, B, F : A = Inside(w, n) /\ B = Behind(w, n) /\ F = Front(w, n) OBVIOUS
<1>2. A \in Seq(Pieces) /\ B \in Seq(Pieces) /\ F \in Seq(Pieces) /\ Len(F) = 3
  BY <1>1, WrittenIs, PiecesOf
<1>3. Written(w, n) = F \o A \o B BY <1>1, WrittenIs
<1>4. F \o A \in Seq(Pieces) BY <1>2
<1>5. PICK FA \in Seq(Pieces) : FA = F \o A BY <1>4
<1>6. Len(FA) = 3 + Len(A) /\ Len(A) \in Nat /\ Len(B) \in Nat
  <2>1. Len(F \o A) = Len(F) + Len(A) /\ Len(A) \in Nat /\ Len(B) \in Nat BY <1>2, JoinLength
  <2> QED BY <1>2, <1>5, <2>1
<1>7. Segment(pieces, p, FA) /\ Segment(pieces, p + Len(FA), B)
  <2>1. Segment(pieces, p, FA \o B) BY <1>3, <1>5
  <2> QED BY <1>2, <2>1, SegmentOfTwo
<1>8. Segment(pieces, p, F) /\ Segment(pieces, p + 3, A)
  <2>1. Segment(pieces, p, F \o A) BY <1>5, <1>7
  <2>2. Segment(pieces, p, F) /\ Segment(pieces, p + Len(F), A) BY <1>2, <2>1, SegmentOfTwo
  <2> QED BY <1>2, <2>2
<1>9. Len(FA \o B) = 3 + Len(A) + Len(B)
  <2>1. Len(FA \o B) = Len(FA) + Len(B) BY <1>2, JoinLength
  <2> QED BY <1>6, <2>1
<1>10. PICK k \in Keys, a \in Nat, v \in Nat : k = w[n].key /\ a = KeySize[k] /\ v = ValueSize(w, n)
  BY SizeIs, KeyIs DEF IsArray
<1>11. Fits(a) /\ Fits(v) BY <1>10 DEF Readable
<1>12. F = <<HeaderPiece(a), KeyPiece(k), HeaderPiece(v)>> BY <1>1, <1>10 DEF Front
<1>13. p + 2 <= Len(pieces) /\ pieces[p] = F[1] /\ pieces[p + 1] = F[2] /\ pieces[p + 2] = F[3]
  <2>1. p - 1 + 3 <= Len(pieces) /\ \A i \in 1 .. 3 : pieces[p - 1 + i] = F[i] BY <1>2, <1>8 DEF Segment
  <2>2. p - 1 + 1 = p /\ p - 1 + 2 = p + 1 /\ p - 1 + 3 = p + 2 OBVIOUS
  <2>3. 1 \in 1 .. 3 /\ 2 \in 1 .. 3 /\ 3 \in 1 .. 3 OBVIOUS
  <2> QED BY <2>1, <2>2, <2>3
<1>14. pieces[p] = HeaderPiece(a) /\ pieces[p + 1] = KeyPiece(k) /\ pieces[p + 2] = HeaderPiece(v)
  BY <1>12, <1>13
<1>15. /\ pieces[p].is = "size" /\ pieces[p].bytes = Header(a)
       /\ pieces[p + 2].is = "size" /\ pieces[p + 2].bytes = Header(v)
       /\ pieces[p + 1].is = "key" /\ pieces[p + 1].key = k /\ pieces[p + 1].size = a
  BY <1>10, <1>14 DEF HeaderPiece, KeyPiece
<1>16. /\ Width(Header(a)) = Len(Header(a)) /\ Width(Header(v)) = Len(Header(v)) /\ SizeIn(Header(v)) = v
  BY <1>11, HeaderFits
<1>17. IsNode(pieces, p) BY <1>13, <1>15, <1>16 DEF IsNode, Lost
<1>18. pieces[p].size = HeaderSize(a) /\ pieces[p + 2].size = HeaderSize(v)
       /\ HeaderSize(a) \in 1 .. 4 /\ HeaderSize(v) \in 1 .. 4
       /\ Adjusted(a) = a + HeaderSize(a) /\ Adjusted(v) = v + HeaderSize(v)
  BY <1>14, HeaderLength
<1>19. pieces[p].size + pieces[p + 1].size + pieces[p + 2].size + v = Adjusted(a) + Adjusted(v)
  <2>1. PICK x, y : x = HeaderSize(a) /\ y = HeaderSize(v) OBVIOUS
  <2>2. x \in Int /\ y \in Int BY <1>18, <2>1
  <2>3. x + a + y + v = (a + x) + (v + y) BY <2>2
  <2> QED BY <1>15, <1>18, <2>1, <2>3
<1>20. p + Len(FA) = p + 3 + Len(A) BY <1>6
<1>21. p \in 1 .. Len(pieces) BY <1>13
<1> QED BY <1>1, <1>3, <1>5, <1>7, <1>8, <1>9, <1>10, <1>15, <1>16, <1>17, <1>19, <1>20, <1>21

RightAt(w, t, pieces, c, n, p, j) ==
    LET x == [among |-> j, from |-> p, left |-> SizeFrom(w, n)] IN
    /\ c[x].out = Expected(w, n, t, j)
    /\ c[x].rest = p + Len(Written(w, n))
Right(w, t, pieces, c, n) ==
    \A p \in Nat \ {0}, j \in Places(t) :
        Segment(pieces, p, Written(w, n)) => RightAt(w, t, pieces, c, n, p, j)

Reader(t, pieces, c) == \A x \in Spots(t, pieces) : c[x] = OneReading(t, pieces, x, c)

(* Nothing left to read.                                                    *)
Done(c, x) == c[x].out = <<>> /\ c[x].rest = x.from
(* With no bytes left nothing more is read.                                 *)
LEMMA AllRead ==
    ASSUME NEW t, NEW pieces \in Seq(Pieces), NEW c, Reader(t, pieces, c),
           NEW x \in Spots(t, pieces), x.left = 0
    PROVE  Done(c, x)
<1>1. OneReading(t, pieces, x, c) = [out |-> <<>>, rest |-> x.from]
  <2>1. x.left <= 0 OBVIOUS
  <2>2. OneReading(t, pieces, x, c) = [out |-> IF x.left = 0 THEN <<>> ELSE <<Torn>>, rest |-> x.from]
    BY <2>1, Zenon DEF OneReading
  <2> QED BY <2>2
<1> QED BY <1>1 DEF Reader, Done

(* The node alone.                                                          *)
LEMMA NodeRead ==
    ASSUME NEW w, NEW M \in Nat, NEW wlo, NEW whi, IsArray(w, M), Ordered(w, M, wlo, whi), Readable(w),
           NEW t, NEW L \in Nat, NEW lo, NEW hi, IsArray(t, L), Ordered(t, L, lo, hi),
           NEW pieces \in Seq(Pieces), NEW c, Reader(t, pieces, c),
           NEW n \in DOMAIN w, w[n].next # -1 => Right(w, t, pieces, c, w[n].next),
           NEW p \in Nat \ {0}, NEW j \in Places(t), Segment(pieces, p, Written(w, n))
    PROVE  LET r == ReadNode(t, pieces, p, j, c) IN
           /\ r.out = Alone(w, n, t, j,
                            IF w[n].next # -1
                            THEN Expected(w, w[n].next, t, Match(t, Kids(t, j), w[n].key)) ELSE <<>>)
           /\ r.rest = p + 3 + Len(Inside(w, n))
           /\ r.used = Adjusted(KeySize[w[n].key]) + Adjusted(ValueSize(w, n))
<1>1. PICK A \in Seq(Pieces), v \in Nat, k \in Keys : A = Inside(w, n) /\ v = ValueSize(w, n) /\ k = w[n].key
  BY WrittenIs, SizeIs DEF IsArray
<1>2. PICK u : u = Adjusted(KeySize[w[n].key]) + Adjusted(ValueSize(w, n)) OBVIOUS
<1>3. /\ pieces[p + 1].key = k /\ SizeIn(pieces[p + 2].bytes) = v
      /\ pieces[p].size + pieces[p + 1].size + pieces[p + 2].size + v = u
      /\ Segment(pieces, p + 3, A)
  <2>1. IsArray(w, M) /\ Ordered(w, M, wlo, whi) /\ Readable(w) /\ Segment(pieces, p, Written(w, n)) OBVIOUS
  <2> QED BY <1>1, <1>2, <2>1, NodeThere
<1>4. PICK m \in Places(t) : m = Match(t, Kids(t, j), k) BY KidsAre, MatchIs
<1>5. m # -1 => m \in DOMAIN t /\ t[m].key = k BY <1>4, KidsAre, MatchIs DEF Places
<1>6. PICK inner : inner = IF w[n].next # -1
                           THEN Expected(w, w[n].next, t, Match(t, Kids(t, j), w[n].key)) ELSE <<>>
  OBVIOUS
<1>7. PICK y : y = [among |-> m, from |-> p + 3, left |-> v] OBVIOUS
<1>8. ReadNode(t, pieces, p, j, c) =
        IF m = -1 THEN [out |-> <<>>, rest |-> Skipped(pieces, p + 3, v), used |-> u]
        ELSE IF t[m].next # -1 THEN [out |-> Append(c[y].out, [node |-> m]), rest |-> c[y].rest, used |-> u]
        ELSE [out |-> <<Handed(t, m, v)>>, rest |-> Skipped(pieces, p + 3, v), used |-> u]
  BY <1>3, <1>4, <1>7 DEF ReadNode
<1>9. Alone(w, n, t, j, inner) =
        IF m = -1 THEN <<>> ELSE IF t[m].next # -1 THEN Append(inner, [node |-> m]) ELSE <<Handed(t, m, v)>>
  BY <1>1, <1>4 DEF Alone
<1>10. Skipped(pieces, p + 3, v) = p + 3 + Len(A)
  <2>1. p + 3 \in Nat \ {0} OBVIOUS
  <2>2. Solid(A) /\ v = Bytes(A, Len(A)) BY <1>1, WrittenSolid, SizesExact
  <2> QED BY <1>3, <2>1, <2>2, SkippedIs
<1>11. m # -1 /\ t[m].next # -1 => c[y].out = inner /\ c[y].rest = p + 3 + Len(A)
  <2>1. SUFFICES ASSUME m # -1, t[m].next # -1 PROVE c[y].out = inner /\ c[y].rest = p + 3 + Len(A)
    OBVIOUS
  <2>2. CASE w[n].next # -1
    <3>1. PICK i : i = w[n].next OBVIOUS
    <3>2. A = Written(w, i) /\ v = SizeFrom(w, i) BY <1>1, <2>2, <3>1 DEF Inside, ValueSize
    <3>3. Segment(pieces, p + 3, Written(w, i)) /\ p + 3 \in Nat \ {0} BY <1>3, <3>2
    <3>4. RightAt(w, t, pieces, c, i, p + 3, m) BY <2>2, <3>1, <3>3 DEF Right
    <3>5. y = [among |-> m, from |-> p + 3, left |-> SizeFrom(w, i)] BY <1>7, <3>2
    <3>6. c[y].out = Expected(w, i, t, m) /\ c[y].rest = p + 3 + Len(Written(w, i)) BY <3>4, <3>5 DEF RightAt
    <3>7. inner = Expected(w, i, t, m) BY <1>1, <1>4, <1>6, <2>2, <3>1
    <3> QED BY <3>2, <3>6, <3>7
  <2>3. CASE w[n].next = -1
    <3>1. k \in Containers BY <1>5, <2>1 DEF IsArray
    <3>2. ValSize[k] = 0 BY <3>1, SizeAssumption
    <3>3. v = 0 /\ A = <<>> BY <1>1, <2>3, <3>2 DEF ValueSize, Inside, ValuePieces
    <3>4. p + 3 \in 0 .. Len(pieces) + 1 BY <1>3 DEF Segment
    <3>5. c[y].out = <<>> /\ c[y].rest = p + 3
      <4>1. y = [among |-> m, from |-> p + 3, left |-> 0] BY <1>7, <3>3
      <4>2. y \in Spots(t, pieces) /\ y.left = 0 /\ y.from = p + 3 BY <3>4, <4>1 DEF Spots, Places
      <4>3. Done(c, y) BY <4>2, AllRead, Zenon
      <4> QED BY <4>2, <4>3 DEF Done
    <3>6. Len(A) = 0 BY <3>3
    <3> QED BY <1>6, <2>3, <3>5, <3>6
  <2> QED BY <2>2, <2>3
<1>12. PICK r : r = ReadNode(t, pieces, p, j, c) OBVIOUS
<1>13. r.out = Alone(w, n, t, j, inner) /\ r.rest = p + 3 + Len(A) /\ r.used = u
  <2>1. CASE m = -1
    <3>1. r = [out |-> <<>>, rest |-> Skipped(pieces, p + 3, v), used |-> u] BY <1>8, <1>12, <2>1
    <3> QED BY <1>9, <1>10, <2>1, <3>1
  <2>2. CASE m # -1 /\ t[m].next # -1
    <3>1. r = [out |-> Append(c[y].out, [node |-> m]), rest |-> c[y].rest, used |-> u] BY <1>8, <1>12, <2>2
    <3> QED BY <1>9, <1>11, <2>2, <3>1
  <2>3. CASE m # -1 /\ t[m].next = -1
    <3>1. r = [out |-> <<Handed(t, m, v)>>, rest |-> Skipped(pieces, p + 3, v), used |-> u] BY <1>8, <1>12, <2>3
    <3> QED BY <1>9, <1>10, <2>3, <3>1
  <2> QED BY <2>1, <2>2, <2>3
<1> QED BY <1>1, <1>2, <1>6, <1>12, <1>13

(* A reader makes of a node and the nodes after it what it should, and uses *)
(* up their bytes.                                                          *)
LEMMA ReadingIs ==
    ASSUME NEW w, NEW M \in Nat, NEW wlo, NEW whi, IsArray(w, M), Ordered(w, M, wlo, whi), Readable(w),
           NEW t, NEW L \in Nat, NEW lo, NEW hi, IsArray(t, L), Ordered(t, L, lo, hi),
           NEW pieces \in Seq(Pieces), NEW c, Reader(t, pieces, c)
    PROVE  \A n \in DOMAIN w : Right(w, t, pieces, c, n)
<1> DEFINE S == {n \in DOMAIN w : Right(w, t, pieces, c, n)}
<1>1. ASSUME NEW n \in DOMAIN w,
             w[n].next # -1 => Right(w, t, pieces, c, w[n].next),
             w[n].neig # -1 => Right(w, t, pieces, c, w[n].neig),
             NEW p \in Nat \ {0}, NEW j \in Places(t), Segment(pieces, p, Written(w, n))
      PROVE  RightAt(w, t, pieces, c, n, p, j)
  <2>1. PICK A \in Seq(Pieces), B \in Seq(Pieces) : A = Inside(w, n) /\ B = Behind(w, n) BY WrittenIs
  <2>2. PICK a \in Nat, b \in Nat : a = Len(A) /\ b = Len(B) OBVIOUS
  <2>3. PICK u : u = Adjusted(KeySize[w[n].key]) + Adjusted(ValueSize(w, n)) OBVIOUS
  <2>4. u \in Nat /\ u > 0
    <3>1. w[n].key \in Keys /\ ValueSize(w, n) \in Nat BY SizeIs DEF IsArray
    <3>2. /\ Adjusted(KeySize[w[n].key]) \in Nat /\ Adjusted(ValueSize(w, n)) \in Nat
          /\ Adjusted(KeySize[w[n].key]) > KeySize[w[n].key] /\ KeySize[w[n].key] \in Nat
      BY <3>1, KeyIs, AdjustedIs
    <3> QED BY <2>3, <3>2
  <2>5. /\ IsNode(pieces, p) /\ p \in 1 .. Len(pieces)
        /\ Segment(pieces, p + 3 + a, B)
        /\ Len(Written(w, n)) = 3 + a + b
    <3>1. /\ IsNode(pieces, p) /\ p \in 1 .. Len(pieces)
          /\ Segment(pieces, p + 3 + Len(Inside(w, n)), Behind(w, n))
          /\ Len(Written(w, n)) = 3 + Len(Inside(w, n)) + Len(Behind(w, n))
      BY <1>1, NodeThere
    <3> QED BY <2>1, <2>2, <3>1
  <2>6. PICK m \in Places(t) : m = Match(t, Kids(t, j), w[n].key) BY KidsAre, MatchIs
  <2>7. PICK f : f = Alone(w, n, t, j, IF w[n].next # -1
                            THEN Expected(w, w[n].next, t, Match(t, Kids(t, j), w[n].key)) ELSE <<>>)
    OBVIOUS
  <2>8. PICK r : r = ReadNode(t, pieces, p, j, c) OBVIOUS
  <2>9. r.out = f /\ r.rest = p + 3 + a /\ r.used = u
    BY <1>1, <2>1, <2>2, <2>3, <2>7, <2>8, NodeRead
  <2>10. PICK s \in Nat : s = Link([i \in DOMAIN w |-> SizeFrom(w, i)], w[n].neig, 0)
    <3>1. w[n].neig \in Places(w) BY DEF IsArray
    <3> QED BY <3>1, SizeIs DEF Link, Places
  <2>11. SizeFrom(w, n) = u + s BY <2>3, <2>10, SizeIs
  <2>12. PICK x : x = [among |-> j, from |-> p, left |-> SizeFrom(w, n)] OBVIOUS
  <2>14. x \in Spots(t, pieces) /\ x.from = p /\ x.left = u + s /\ x.among = j
    BY <2>4, <2>5, <2>11, <2>12 DEF Spots, Places
  <2>16. p + 3 + a \in 0 .. Len(pieces) + 1
    <3>1. p + 3 + a - 1 + Len(B) <= Len(pieces) BY <2>5 DEF Segment
    <3>2. PICK l \in Nat : l = Len(pieces) OBVIOUS
    <3>3. p + 3 + a - 1 + b <= l BY <2>2, <3>1, <3>2
    <3>4. p + 3 + a \in 0 .. l + 1 BY <3>3
    <3> QED BY <3>2, <3>4
  <2>15. PICK z : z = [x EXCEPT !.from = r.rest, !.left = @ - r.used] OBVIOUS
  <2>17. z \in Spots(t, pieces) /\ z.from = p + 3 + a /\ z.left = s /\ z.among = j
    <3>1. x.left - r.used = s /\ s \in Int BY <2>4, <2>9, <2>14
    <3> QED BY <2>9, <2>14, <2>15, <2>16, <3>1 DEF Spots
  <2>13. z = [among |-> j, from |-> p + 3 + a, left |-> s]
    BY <2>17 DEF Spots
  <2>18. OneReading(t, pieces, x, c) = [out |-> r.out \o c[z].out, rest |-> c[z].rest]
    <3>1. ~(x.left <= 0 \/ x.from > Len(pieces)) BY <2>4, <2>5, <2>14
    <3> QED BY <2>5, <2>8, <2>14, <2>15, <3>1 DEF OneReading
  <2>19. c[x].out = f \o c[z].out /\ c[x].rest = c[z].rest
    BY <2>9, <2>14, <2>18, SMTT(30) DEF Reader
  <2>20. PICK g : g = IF w[n].neig # -1 THEN Expected(w, w[n].neig, t, j) ELSE <<>> OBVIOUS
  <2>21. Expected(w, n, t, j) = f \o g BY <2>7, <2>20, ExpectedIs
  <2>22. c[z].out = g /\ c[z].rest = p + 3 + a + b
    <3>1. CASE w[n].neig = -1
      <4>1. s = 0 /\ B = <<>> /\ g = <<>> BY <2>1, <2>10, <2>20, <3>1 DEF Link, Behind
      <4>2. b = 0 BY <2>2, <4>1
      <4>3. Done(c, z) BY <2>17, <4>1, AllRead, Zenon
      <4> QED BY <2>17, <4>1, <4>2, <4>3 DEF Done
    <3>2. CASE w[n].neig # -1
      <4>1. PICK i : i = w[n].neig OBVIOUS
      <4>2. i \in DOMAIN w BY <3>2, <4>1 DEF IsArray, Places
      <4>3. B = Written(w, i) /\ s = SizeFrom(w, i) /\ g = Expected(w, i, t, j)
        BY <2>1, <2>10, <2>20, <3>2, <4>1, <4>2 DEF Link, Behind
      <4>4. RightAt(w, t, pieces, c, i, p + 3 + a, j)
        <5>1. p + 3 + a \in Nat \ {0} /\ Segment(pieces, p + 3 + a, Written(w, i)) BY <2>5, <4>3
        <5>2. Right(w, t, pieces, c, i) BY <1>1, <3>2, <4>1
        <5> QED BY <5>1, <5>2 DEF Right
      <4>5. z = [among |-> j, from |-> p + 3 + a, left |-> SizeFrom(w, i)] BY <2>13, <4>3
      <4>6. c[z].out = Expected(w, i, t, j) /\ c[z].rest = p + 3 + a + Len(Written(w, i))
        BY <4>4, <4>5 DEF RightAt
      <4> QED BY <2>2, <4>3, <4>6
    <3> QED BY <3>1, <3>2
  <2>23. p + 3 + a + b = p + (3 + a + b) OBVIOUS
  <2>24. c[x].out = Expected(w, n, t, j) /\ c[x].rest = p + Len(Written(w, n))
    BY <2>5, <2>19, <2>21, <2>22, <2>23
  <2> QED BY <2>12, <2>24 DEF RightAt
<1>2. \A n \in DOMAIN w : (w[n].next # -1 => w[n].next \in S) /\ (w[n].neig # -1 => w[n].neig \in S) => n \in S
  <2> SUFFICES ASSUME NEW n \in DOMAIN w,
                      w[n].next # -1 => Right(w, t, pieces, c, w[n].next),
                      w[n].neig # -1 => Right(w, t, pieces, c, w[n].neig)
               PROVE  Right(w, t, pieces, c, n)
    OBVIOUS
  <2> QED BY <1>1 DEF Right
<1>3. \A n \in DOMAIN w : n \in S
  <2> HIDE DEF S
  <2> QED BY <1>2, Downward
<1> QED BY <1>3

(* The packet of w, read with the tree t.                                   *)
LEMMA PacketRead ==
    ASSUME NEW w, NEW M \in Nat, NEW wlo, NEW whi, IsArray(w, M), Ordered(w, M, wlo, whi), Readable(w), M > 0,
           NEW t, NEW L \in Nat, NEW lo, NEW hi, IsArray(t, L), Ordered(t, L, lo, hi)
    PROVE  /\ ReadNodes(t, Written(w, 0), SizeFrom(w, 0)).out = Expected(w, 0, t, -1)
           /\ ReadNodes(t, Written(w, 0), SizeFrom(w, 0)).rest = Len(Written(w, 0)) + 1
<1>1. 0 \in DOMAIN w /\ -1 \in Places(t) BY DEF IsArray, Places
<1>2. PICK u \in Seq(Pieces) : u = Written(w, 0) BY <1>1, WrittenIs
<1>3. PICK c : /\ \A x \in Spots(t, u) : c[x] = OneReading(t, u, x, c)
               /\ \A n : ReadNodes(t, u, n) = c[[among |-> -1, from |-> 1, left |-> n]]
  BY ReadIs
<1>4. Reader(t, u, c) BY <1>3 DEF Reader
<1>5. Right(w, t, u, c, 0) BY <1>1, <1>4, ReadingIs
<1>6. Segment(u, 1, Written(w, 0))
  <2>1. Len(u) \in Nat /\ \A k \in 1 .. Len(u) : 1 - 1 + k = k OBVIOUS
  <2> QED BY <1>2, <2>1 DEF Segment
<1>7. RightAt(w, t, u, c, 0, 1, -1)
  <2>1. 1 \in Nat \ {0} OBVIOUS
  <2> QED BY <1>1, <1>5, <1>6, <2>1 DEF Right
<1>8. ReadNodes(t, u, SizeFrom(w, 0)).out = Expected(w, 0, t, -1)
      /\ ReadNodes(t, u, SizeFrom(w, 0)).rest = 1 + Len(Written(w, 0))
  BY <1>3, <1>7 DEF RightAt
<1>9. 1 + Len(u) = Len(u) + 1 OBVIOUS
<1> QED BY <1>2, <1>8, <1>9

-----------------------------------------------------------------------------
(* What building keeps *)

(* The places after one more is taken at x: nodes from x on move by one, and *)
(* what holds the place after l ends one later.                             *)
Later(x, a) == IF a >= x THEN a + 1 ELSE a
Ends(x, l, a, b) == IF b > x \/ (b = x /\ a <= l) THEN b + 1 ELSE b

(* Making room for a new place keeps every node one place long or more.     *)
LEMMA LaterEnds ==
    ASSUME NEW x \in Nat, NEW l \in Nat, NEW a \in Nat, NEW b \in Nat
    PROVE  /\ Later(x, a) \in Nat /\ Later(x, a) <= a + 1
           /\ Ends(x, l, a, b) \in Nat /\ Ends(x, l, a, b) <= b + 1
           /\ a < b => Later(x, a) < Ends(x, l, a, b)
BY DEF Later, Ends

(* Making room keeps the order of places.                                   *)
LEMMA LaterGrows ==
    ASSUME NEW x \in Nat, NEW a \in Nat, NEW b \in Nat, a < b
    PROVE  Later(x, a) < Later(x, b)
BY DEF Later

(* Making room keeps what ended before a place before it.                   *)
LEMMA EndsBefore ==
    ASSUME NEW x \in Nat, NEW l \in Nat, NEW a \in Nat, NEW b \in Nat, NEW e \in Nat, b <= e
    PROVE  Ends(x, l, a, b) <= Later(x, e)
BY DEF Later, Ends

(* Making room keeps what was inside a node inside it.                      *)
LEMMA EndsInside ==
    ASSUME NEW x \in Nat, NEW l \in Nat, NEW a \in Nat, NEW b \in Nat, NEW d \in Nat, NEW e \in Nat, b <= e, d < a
    PROVE  Ends(x, l, a, b) <= Ends(x, l, d, e)
BY DEF Ends

(* The array t of L nodes with one more: behind i, or into i.               *)
GrownBehind(t, L, i, s) ==
    /\ DOMAIN s = 0 .. L
    /\ \A j \in 0 .. L - 1 : s[j].key = t[j].key /\ s[j].next = t[j].next /\ (j # i => s[j].neig = t[j].neig)
    /\ s[i].neig = L /\ s[L].key \in Keys /\ s[L].next = -1 /\ s[L].neig = t[i].neig

GrownInto(t, L, i, s) ==
    /\ DOMAIN s = 0 .. L
    /\ \A j \in 0 .. L - 1 : s[j].key = t[j].key /\ s[j].neig = t[j].neig /\ (j # i => s[j].next = t[j].next)
    /\ s[i].next = L /\ s[L].key \in Keys /\ s[L].next = -1 /\ s[L].neig = -1

Placed(t, L) == \E lo, hi : Ordered(t, L, lo, hi)

(* The places lo and hi after one more is taken at x.                       *)
Moves(L, x, l, lo, hi, plo, phi) ==
    \A j \in 0 .. L - 1 : plo[j] = Later(x, lo[j]) /\ phi[j] = Ends(x, l, lo[j], hi[j])

(* Making room keeps the places of every node in order.                     *)
LEMMA Moved ==
    ASSUME NEW t, NEW L \in Nat, NEW lo, NEW hi, IsArray(t, L), Ordered(t, L, lo, hi),
           NEW x \in Nat, NEW l \in Nat, NEW plo, NEW phi, Moves(L, x, l, lo, hi, plo, phi), NEW j \in 0 .. L - 1
    PROVE  /\ plo[j] \in 0 .. L + 1 /\ phi[j] \in 0 .. L + 1 /\ plo[j] < phi[j]
           /\ t[j].next # -1 => plo[j] < plo[t[j].next] /\ phi[t[j].next] <= EndOf(t, j, plo, phi)
           /\ t[j].neig # -1 => plo[j] < plo[t[j].neig] /\ phi[t[j].neig] <= phi[j]
<1>1. /\ \A i \in 0 .. L - 1 : lo[i] \in 0 .. L /\ hi[i] \in 0 .. L /\ lo[i] < hi[i] /\ lo[i] \in Nat /\ hi[i] \in Nat
      /\ \A i \in 0 .. L - 1 : t[i].next \in 0 .. L - 1 \cup {-1} /\ t[i].neig \in 0 .. L - 1 \cup {-1}
  BY DEF Ordered, IsArray, Places
<1>2. \A i \in 0 .. L - 1 : plo[i] = Later(x, lo[i]) /\ phi[i] = Ends(x, l, lo[i], hi[i])
  BY DEF Moves
<1>3. ASSUME NEW a \in 0 .. L - 1, NEW b \in 0 .. L - 1
      PROVE  /\ lo[a] < lo[b] => plo[a] < plo[b]
             /\ hi[a] <= lo[b] => phi[a] <= plo[b]
             /\ hi[a] <= hi[b] /\ lo[b] < lo[a] => phi[a] <= phi[b]
  <2>1. lo[a] \in Nat /\ hi[a] \in Nat /\ lo[b] \in Nat /\ hi[b] \in Nat BY <1>1
  <2>2. lo[a] < lo[b] => plo[a] < plo[b]
    <3>1. lo[a] < lo[b] => Later(x, lo[a]) < Later(x, lo[b]) BY <2>1, LaterGrows
    <3> QED BY <1>2, <3>1
  <2>3. hi[a] <= lo[b] => phi[a] <= plo[b]
    <3>1. hi[a] <= lo[b] => Ends(x, l, lo[a], hi[a]) <= Later(x, lo[b]) BY <2>1, EndsBefore
    <3> QED BY <1>2, <3>1
  <2>4. hi[a] <= hi[b] /\ lo[b] < lo[a] => phi[a] <= phi[b]
    <3>1. hi[a] <= hi[b] /\ lo[b] < lo[a] => Ends(x, l, lo[a], hi[a]) <= Ends(x, l, lo[b], hi[b])
      BY <2>1, EndsInside
    <3> QED BY <1>2, <3>1
  <2> QED BY <2>2, <2>3, <2>4
<1>4. plo[j] \in Nat /\ phi[j] \in Nat /\ plo[j] <= L + 1 /\ phi[j] <= L + 1 /\ plo[j] < phi[j]
  <2>1. lo[j] \in Nat /\ hi[j] \in Nat /\ lo[j] < hi[j] /\ hi[j] <= L /\ lo[j] <= L BY <1>1
  <2>2. /\ Later(x, lo[j]) \in Nat /\ Later(x, lo[j]) <= lo[j] + 1
        /\ Ends(x, l, lo[j], hi[j]) \in Nat /\ Ends(x, l, lo[j], hi[j]) <= hi[j] + 1
        /\ Later(x, lo[j]) < Ends(x, l, lo[j], hi[j])
    BY <2>1, LaterEnds
  <2> QED BY <1>2, <2>1, <2>2
<1>5. t[j].next # -1 => plo[j] < plo[t[j].next] /\ phi[t[j].next] <= EndOf(t, j, plo, phi)
  <2>1. SUFFICES ASSUME t[j].next # -1 PROVE plo[j] < plo[t[j].next] /\ phi[t[j].next] <= EndOf(t, j, plo, phi)
    OBVIOUS
  <2>2. PICK a \in 0 .. L - 1 : a = t[j].next BY <1>1, <2>1
  <2>3. lo[j] < lo[a] /\ hi[a] <= EndOf(t, j, lo, hi) BY <2>1, <2>2 DEF Ordered
  <2>4. plo[j] < plo[a] BY <1>3, <2>2, <2>3
  <2>5. CASE t[j].neig = -1
    <3>1. hi[a] <= hi[j] BY <2>3, <2>5 DEF EndOf
    <3>2. phi[a] <= phi[j] BY <1>3, <2>2, <2>3, <3>1
    <3> QED BY <2>2, <2>4, <2>5, <3>2 DEF EndOf
  <2>6. CASE t[j].neig # -1
    <3>1. PICK b \in 0 .. L - 1 : b = t[j].neig BY <1>1, <2>6
    <3>2. hi[a] <= lo[b] BY <2>3, <2>6, <3>1 DEF EndOf
    <3>3. phi[a] <= plo[b] BY <1>3, <2>2, <3>1, <3>2
    <3> QED BY <2>2, <2>4, <2>6, <3>1, <3>3 DEF EndOf
  <2> QED BY <2>5, <2>6
<1>6. t[j].neig # -1 => plo[j] < plo[t[j].neig] /\ phi[t[j].neig] <= phi[j]
  <2>1. SUFFICES ASSUME t[j].neig # -1 PROVE plo[j] < plo[t[j].neig] /\ phi[t[j].neig] <= phi[j]
    OBVIOUS
  <2>2. PICK b \in 0 .. L - 1 : b = t[j].neig BY <1>1, <2>1
  <2>3. lo[j] < lo[b] /\ hi[b] <= hi[j] BY <2>1, <2>2 DEF Ordered
  <2> QED BY <1>3, <2>2, <2>3
<1> QED BY <1>4, <1>5, <1>6

(* Where an array with one more node is ordered.                            *)
LEMMA GrownOrdered ==
    ASSUME NEW s, NEW L \in Nat, NEW plo, NEW phi,
           \A j \in 0 .. L :
              /\ plo[j] \in 0 .. L + 1 /\ phi[j] \in 0 .. L + 1 /\ plo[j] < phi[j]
              /\ s[j].next # -1 => plo[j] < plo[s[j].next] /\ phi[s[j].next] <= EndOf(s, j, plo, phi)
              /\ s[j].neig # -1 => plo[j] < plo[s[j].neig] /\ phi[s[j].neig] <= phi[j]
    PROVE  Placed(s, L + 1)
<1>1. L + 1 - 1 = L BY SMT
<1>2. Ordered(s, L + 1, plo, phi) BY <1>1 DEF Ordered
<1> QED BY <1>2 DEF Placed

(* A node inserted behind another (abi_insert_node, abi_append_node) leaves *)
(* the links a tree.                                                        *)
LEMMA BehindPlaced ==
    ASSUME NEW t, NEW L \in Nat, IsArray(t, L), Placed(t, L), NEW i \in 0 .. L - 1,
           NEW s, GrownBehind(t, L, i, s)
    PROVE  IsArray(s, L + 1) /\ Placed(s, L + 1)
<1>1. IsArray(s, L + 1)
  <2>1. L + 1 - 1 = L BY SMT
  <2>2. ASSUME NEW j \in 0 .. L
        PROVE  /\ s[j].key \in Keys /\ s[j].next \in Places(s) /\ s[j].neig \in Places(s)
               /\ s[j].next # -1 => s[j].key \in Containers
    <3>1. CASE j = L BY <3>1 DEF IsArray, GrownBehind, Places
    <3>2. CASE j # L
      <4>1. j \in 0 .. L - 1 BY <3>2
      <4> QED BY <4>1, SMTT(30) DEF IsArray, GrownBehind, Places
    <3> QED BY <3>1, <3>2
  <2> QED BY <2>1, <2>2 DEF IsArray, GrownBehind
<1>2. PICK lo, hi : Ordered(t, L, lo, hi) BY DEF Placed
<1>3. /\ \A j \in 0 .. L - 1 : lo[j] \in 0 .. L /\ hi[j] \in 0 .. L /\ lo[j] < hi[j] /\ lo[j] \in Nat /\ hi[j] \in Nat
      /\ \A j \in 0 .. L - 1 : t[j].next \in 0 .. L - 1 \cup {-1} /\ t[j].neig \in 0 .. L - 1 \cup {-1}
  BY <1>2 DEF Ordered, IsArray, Places
<1>4. PICK x \in Nat : x = EndOf(t, i, lo, hi)
  <2>1. EndOf(t, i, lo, hi) \in Nat BY <1>3 DEF EndOf
  <2> QED BY <2>1
<1>5. PICK l \in Nat : l = lo[i] BY <1>3
<1>6. l < x /\ x <= hi[i] /\ x <= L
  <2>1. CASE t[i].neig = -1 BY <1>3, <1>4, <1>5, <2>1 DEF EndOf
  <2>2. CASE t[i].neig # -1 BY <1>2, <1>3, <1>4, <1>5, <2>2 DEF EndOf, Ordered
  <2> QED BY <2>1, <2>2
<1>7. PICK plo : plo = [j \in 0 .. L |-> IF j = L THEN x ELSE Later(x, lo[j])] OBVIOUS
<1>8. PICK phi : phi = [j \in 0 .. L |->
            IF j = L THEN IF t[i].neig # -1 THEN Ends(x, l, lo[t[i].neig], hi[t[i].neig]) ELSE x + 1
            ELSE Ends(x, l, lo[j], hi[j])]
  OBVIOUS
<1>9. \A j \in 0 .. L - 1 : plo[j] = Later(x, lo[j]) /\ phi[j] = Ends(x, l, lo[j], hi[j])
  BY <1>7, <1>8
<1>10. plo[L] = x /\ phi[L] = IF t[i].neig # -1 THEN phi[t[i].neig] ELSE x + 1
  <2>1. L \in 0 .. L BY SMT
  <2>2. t[i].neig # -1 => t[i].neig \in 0 .. L - 1 BY <1>3
  <2> QED BY <1>7, <1>8, <1>9, <2>1, <2>2
<1>11. ASSUME NEW j \in 0 .. L - 1
       PROVE  /\ plo[j] \in 0 .. L + 1 /\ phi[j] \in 0 .. L + 1 /\ plo[j] < phi[j]
              /\ t[j].next # -1 => plo[j] < plo[t[j].next] /\ phi[t[j].next] <= EndOf(t, j, plo, phi)
              /\ t[j].neig # -1 => plo[j] < plo[t[j].neig] /\ phi[t[j].neig] <= phi[j]
  <2>1. Moves(L, x, l, lo, hi, plo, phi) BY <1>9 DEF Moves
  <2> QED BY <1>2, <2>1, Moved
<1>12. ASSUME t[i].neig # -1
       PROVE  /\ t[i].neig \in 0 .. L - 1
              /\ plo[t[i].neig] = x + 1 /\ phi[t[i].neig] = hi[t[i].neig] + 1
              /\ hi[t[i].neig] <= hi[i]
  <2>2. PICK b \in 0 .. L - 1 : b = t[i].neig BY <1>3, <1>12
  <2>3. lo[b] = x /\ hi[b] <= hi[i] /\ x < hi[b] BY <1>2, <1>3, <1>4, <1>12, <2>2 DEF EndOf, Ordered
  <2>4. plo[b] = x + 1 /\ phi[b] = hi[b] + 1 BY <1>3, <1>9, <2>3 DEF Later, Ends
  <2> QED BY <2>2, <2>3, <2>4
<1>13. plo[i] = l /\ phi[i] = hi[i] + 1
  <2>1. lo[i] = l /\ hi[i] \in Nat /\ l < x /\ x <= hi[i] BY <1>3, <1>5, <1>6
  <2>2. Later(x, l) = l BY <1>6 DEF Later
  <2>3. Ends(x, l, l, hi[i]) = hi[i] + 1 BY <2>1 DEF Ends
  <2> QED BY <1>9, <2>1, <2>2, <2>3
<1>14. ASSUME NEW j \in 0 .. L
       PROVE  /\ plo[j] \in 0 .. L + 1 /\ phi[j] \in 0 .. L + 1 /\ plo[j] < phi[j]
              /\ s[j].next # -1 => plo[j] < plo[s[j].next] /\ phi[s[j].next] <= EndOf(s, j, plo, phi)
              /\ s[j].neig # -1 => plo[j] < plo[s[j].neig] /\ phi[s[j].neig] <= phi[j]
  <2>1. CASE j = L
    <3>1. s[j].next = -1 /\ s[j].neig = t[i].neig BY <2>1 DEF GrownBehind
    <3>2. CASE t[i].neig = -1 BY <1>6, <1>10, <2>1, <3>1, <3>2
    <3>3. CASE t[i].neig # -1
      <4>1. PICK b \in 0 .. L - 1 : b = t[i].neig BY <1>3, <3>3
      <4>2. plo[b] = x + 1 /\ phi[L] = phi[b] /\ plo[L] = x /\ plo[b] < phi[b] /\ phi[b] \in 0 .. L + 1
        BY <1>10, <1>11, <1>12, <3>3, <4>1
      <4> QED BY <1>6, <2>1, <3>1, <4>1, <4>2
    <3> QED BY <3>2, <3>3
  <2>2. CASE j \in 0 .. L - 1 /\ j # i
    <3>1. s[j].next = t[j].next /\ s[j].neig = t[j].neig BY <2>2 DEF GrownBehind
    <3>2. EndOf(s, j, plo, phi) = EndOf(t, j, plo, phi) BY <3>1 DEF EndOf
    <3> QED BY <1>11, <2>2, <3>1, <3>2
  <2>3. CASE j = i
    <3>1. s[j].next = t[i].next /\ s[j].neig = L BY <2>3 DEF GrownBehind
    <3>2. L # -1 BY SMT
    <3>3. EndOf(s, j, plo, phi) = x BY <1>10, <3>1, <3>2 DEF EndOf
    <3>4. plo[j] < plo[L] /\ phi[L] <= phi[j]
      <4>1. phi[L] <= hi[i] + 1
        <5>1. CASE t[i].neig = -1
          <6>1. x = hi[i] BY <1>4, <5>1 DEF EndOf
          <6> QED BY <1>3, <1>10, <5>1, <6>1
        <5>2. CASE t[i].neig # -1 BY <1>3, <1>10, <1>12, <5>2
        <5> QED BY <5>1, <5>2
      <4> QED BY <1>6, <1>10, <1>13, <2>3, <4>1
    <3>5. t[i].next # -1 => plo[i] < plo[t[i].next] /\ phi[t[i].next] <= x
      <4>1. SUFFICES ASSUME t[i].next # -1 PROVE phi[t[i].next] <= x
        BY <1>11
      <4>2. PICK a \in 0 .. L - 1 : a = t[i].next BY <1>3, <4>1
      <4>3. lo[i] < lo[a] /\ hi[a] <= x BY <1>2, <1>4, <4>1, <4>2 DEF Ordered
      <4>4. phi[a] = hi[a] BY <1>3, <1>5, <1>9, <4>2, <4>3 DEF Ends
      <4> QED BY <4>2, <4>3, <4>4
    <3> QED BY <1>11, <2>3, <3>1, <3>3, <3>4, <3>5
  <2> QED BY <2>1, <2>2, <2>3
<1>15. Placed(s, L + 1) BY <1>14, GrownOrdered
<1> QED BY <1>1, <1>15

(* A first subnode (abi_append_subnode) leaves the links a tree.            *)
LEMMA IntoPlaced ==
    ASSUME NEW t, NEW L \in Nat, IsArray(t, L), Placed(t, L),
           NEW i \in 0 .. L - 1, t[i].next = -1, t[i].key \in Containers,
           NEW s, GrownInto(t, L, i, s)
    PROVE  IsArray(s, L + 1) /\ Placed(s, L + 1)
<1>1. IsArray(s, L + 1)
  <2>1. L + 1 - 1 = L BY SMT
  <2>2. ASSUME NEW j \in 0 .. L
        PROVE  /\ s[j].key \in Keys /\ s[j].next \in Places(s) /\ s[j].neig \in Places(s)
               /\ s[j].next # -1 => s[j].key \in Containers
    <3>1. CASE j = L BY <3>1 DEF IsArray, GrownInto, Places
    <3>2. CASE j # L
      <4>1. j \in 0 .. L - 1 BY <3>2
      <4> QED BY <4>1 DEF IsArray, GrownInto, Places
    <3> QED BY <3>1, <3>2
  <2> QED BY <2>1, <2>2 DEF IsArray, GrownInto
<1>2. PICK lo, hi : Ordered(t, L, lo, hi) BY DEF Placed
<1>3. /\ \A j \in 0 .. L - 1 : lo[j] \in 0 .. L /\ hi[j] \in 0 .. L /\ lo[j] < hi[j] /\ lo[j] \in Nat /\ hi[j] \in Nat
      /\ \A j \in 0 .. L - 1 : t[j].next \in 0 .. L - 1 \cup {-1} /\ t[j].neig \in 0 .. L - 1 \cup {-1}
  BY <1>2 DEF Ordered, IsArray, Places
<1>4. PICK l \in Nat, x \in Nat : l = lo[i] /\ x = l + 1 BY <1>3
<1>5. l < x /\ x <= hi[i] /\ x <= L
  <2>1. lo[i] < hi[i] /\ hi[i] \in 0 .. L BY <1>3
  <2> QED BY <1>4, <2>1
<1>6. PICK plo : plo = [j \in 0 .. L |-> IF j = L THEN x ELSE Later(x, lo[j])] OBVIOUS
<1>7. PICK phi : phi = [j \in 0 .. L |-> IF j = L THEN x + 1 ELSE Ends(x, l, lo[j], hi[j])] OBVIOUS
<1>8. \A j \in 0 .. L - 1 : plo[j] = Later(x, lo[j]) /\ phi[j] = Ends(x, l, lo[j], hi[j])
  BY <1>6, <1>7
<1>9. plo[L] = x /\ phi[L] = x + 1
  <2>1. L \in 0 .. L BY SMT
  <2> QED BY <1>6, <1>7, <2>1
<1>10. ASSUME NEW j \in 0 .. L - 1
       PROVE  /\ plo[j] \in 0 .. L + 1 /\ phi[j] \in 0 .. L + 1 /\ plo[j] < phi[j]
              /\ t[j].next # -1 => plo[j] < plo[t[j].next] /\ phi[t[j].next] <= EndOf(t, j, plo, phi)
              /\ t[j].neig # -1 => plo[j] < plo[t[j].neig] /\ phi[t[j].neig] <= phi[j]
  <2>1. Moves(L, x, l, lo, hi, plo, phi) BY <1>8 DEF Moves
  <2> QED BY <1>2, <2>1, Moved
<1>11. plo[i] = l /\ phi[i] = hi[i] + 1
  <2>1. lo[i] = l /\ hi[i] \in Nat /\ l < x /\ x <= hi[i] BY <1>3, <1>4, <1>5
  <2>2. Later(x, l) = l BY <1>5 DEF Later
  <2>3. Ends(x, l, l, hi[i]) = hi[i] + 1 BY <2>1 DEF Ends
  <2> QED BY <1>8, <2>1, <2>2, <2>3
<1>12. x + 1 <= EndOf(t, i, plo, phi)
  <2>1. CASE t[i].neig = -1 BY <1>3, <1>5, <1>11, <2>1 DEF EndOf
  <2>2. CASE t[i].neig # -1
    <3>1. PICK b \in 0 .. L - 1 : b = t[i].neig BY <1>3, <2>2
    <3>2. x <= lo[b] /\ lo[b] \in Nat BY <1>2, <1>3, <1>4, <2>2, <3>1 DEF Ordered
    <3>3. plo[b] = lo[b] + 1 BY <1>8, <3>1, <3>2 DEF Later
    <3> QED BY <2>2, <3>1, <3>2, <3>3 DEF EndOf
  <2> QED BY <2>1, <2>2
<1>13. ASSUME NEW j \in 0 .. L
       PROVE  /\ plo[j] \in 0 .. L + 1 /\ phi[j] \in 0 .. L + 1 /\ plo[j] < phi[j]
              /\ s[j].next # -1 => plo[j] < plo[s[j].next] /\ phi[s[j].next] <= EndOf(s, j, plo, phi)
              /\ s[j].neig # -1 => plo[j] < plo[s[j].neig] /\ phi[s[j].neig] <= phi[j]
  <2>1. CASE j = L
    <3>1. s[j].next = -1 /\ s[j].neig = -1 BY <2>1 DEF GrownInto
    <3> QED BY <1>5, <1>9, <2>1, <3>1
  <2>2. CASE j \in 0 .. L - 1
    <3>1. s[j].neig = t[j].neig BY <2>2 DEF GrownInto
    <3>2. EndOf(s, j, plo, phi) = EndOf(t, j, plo, phi) BY <3>1 DEF EndOf
    <3>3. CASE j # i
      <4>1. s[j].next = t[j].next BY <2>2, <3>3 DEF GrownInto
      <4> QED BY <1>10, <2>2, <3>1, <3>2, <4>1
    <3>4. CASE j = i
      <4>1. s[j].next = L BY <3>4 DEF GrownInto
      <4>2. plo[j] < plo[L] /\ phi[L] <= EndOf(s, j, plo, phi) BY <1>5, <1>9, <1>11, <1>12, <3>2, <3>4
      <4> QED BY <1>10, <2>2, <3>1, <4>1, <4>2
    <3> QED BY <3>3, <3>4
  <2> QED BY <2>1, <2>2
<1>14. Placed(s, L + 1) BY <1>13, GrownOrdered
<1> QED BY <1>1, <1>14

(* The first node is a tree.                                                *)
LEMMA FirstPlaced ==
    ASSUME NEW s, DOMAIN s = {0}, s[0].key \in Keys, s[0].next = -1, s[0].neig = -1
    PROVE  IsArray(s, 1) /\ Placed(s, 1)
<1>1. 0 .. 1 - 1 = {0} BY SMT
<1>2. IsArray(s, 1) BY <1>1 DEF IsArray, Places
<1>3. PICK lo, hi : lo = [j \in {0} |-> 0] /\ hi = [j \in {0} |-> 1] OBVIOUS
<1>4. Ordered(s, 1, lo, hi) BY <1>1, <1>3 DEF Ordered
<1> QED BY <1>2, <1>4 DEF Placed

Shaped(t, max) ==
    \E L \in 0 .. max : IsArray(t, L) /\ Placed(t, L) /\ \A j \in 0 .. L - 1 : t[j] \in Node
TreeInv == DOMAIN nodes = Contexts /\ \A c \in Contexts : Shaped(nodes[c], Size[c])

(* The number of nodes of an array.                                         *)
LEMMA CountIs ==
    ASSUME NEW t, NEW L \in Nat, IsArray(t, L)
    PROVE  Cardinality(DOMAIN t) = L
<1>1. DOMAIN t = 0 .. L - 1 BY DEF IsArray
<1>2. 0 \in Int /\ L - 1 \in Int BY SMT
<1>3. Cardinality(0 .. L - 1) = IF 0 > L - 1 THEN 0 ELSE (L - 1) - 0 + 1 BY <1>2, FS_Interval
<1> QED BY <1>1, <1>3

(* The array after Grow.                                                    *)
Larger(t, L, n, i, f) ==
    [j \in 0 .. L |-> IF j = L THEN n ELSE IF j # i THEN t[j] ELSE [t[j] EXCEPT ![f] = L]]

(* What abi_insert_node makes of an array.                                  *)
LEMMA LargerBehind ==
    ASSUME NEW t, NEW L \in Nat, IsArray(t, L), \A j \in 0 .. L - 1 : t[j] \in Node, NEW i \in 0 .. L - 1,
           NEW k \in Keys, NEW s, s = Larger(t, L, NewNode(k, -1, t[i].neig), i, "neig")
    PROVE  GrownBehind(t, L, i, s) /\ \A j \in 0 .. L : s[j] \in Node
<1>1. PICK n : n = NewNode(k, -1, t[i].neig) OBVIOUS
<1>2. n.key = k /\ n.next = -1 /\ n.neig = t[i].neig /\ n \in Node BY <1>1 DEF NewNode, Node
<1>3. DOMAIN s = 0 .. L BY DEF Larger
<1>4. s[L] = n BY <1>1 DEF Larger
<1>5. ASSUME NEW j \in 0 .. L - 1, j # i PROVE s[j] = t[j] BY <1>5 DEF Larger
<1>6. s[i] = [t[i] EXCEPT !["neig"] = L] BY DEF Larger
<1>7. s[i].neig = L /\ s[i].key = t[i].key /\ s[i].next = t[i].next /\ s[i] \in Node
  BY <1>6 DEF Node
<1>8. \A j \in 0 .. L : s[j] \in Node
  <2>1. \A j \in 0 .. L : j = L \/ j = i \/ (j \in 0 .. L - 1 /\ j # i) OBVIOUS
  <2> QED BY <1>2, <1>4, <1>5, <1>7, <2>1
<1> QED BY <1>2, <1>3, <1>4, <1>5, <1>7, <1>8 DEF GrownBehind

(* What abi_append_subnode makes of an array.                               *)
LEMMA LargerInto ==
    ASSUME NEW t, NEW L \in Nat, IsArray(t, L), \A j \in 0 .. L - 1 : t[j] \in Node, NEW i \in 0 .. L - 1,
           t[i].next = -1, NEW k \in Keys, NEW s, s = Larger(t, L, NewNode(k, t[i].next, -1), i, "next")
    PROVE  GrownInto(t, L, i, s) /\ \A j \in 0 .. L : s[j] \in Node
<1>1. PICK n : n = NewNode(k, t[i].next, -1) OBVIOUS
<1>2. n.key = k /\ n.next = -1 /\ n.neig = -1 /\ n \in Node BY <1>1 DEF NewNode, Node
<1>3. DOMAIN s = 0 .. L BY DEF Larger
<1>4. s[L] = n BY <1>1 DEF Larger
<1>5. ASSUME NEW j \in 0 .. L - 1, j # i PROVE s[j] = t[j] BY <1>5 DEF Larger
<1>6. s[i] = [t[i] EXCEPT !["next"] = L] BY DEF Larger
<1>7. s[i].next = L /\ s[i].key = t[i].key /\ s[i].neig = t[i].neig /\ s[i] \in Node
  BY <1>6 DEF Node
<1>8. \A j \in 0 .. L : s[j] \in Node
  <2>1. \A j \in 0 .. L : j = L \/ j = i \/ (j \in 0 .. L - 1 /\ j # i) OBVIOUS
  <2> QED BY <1>2, <1>4, <1>5, <1>7, <2>1
<1> QED BY <1>2, <1>3, <1>4, <1>5, <1>7, <1>8 DEF GrownInto

(* What abi_append_node makes of an empty array.                            *)
LEMMA LargerFirst ==
    ASSUME NEW t, NEW k \in Keys, NEW s, s = Larger(t, 0, NewNode(k, -1, -1), -1, "neig")
    PROVE  DOMAIN s = {0} /\ s[0] = NewNode(k, -1, -1) /\ s[0] \in Node
<1>1. 0 .. 0 = {0} BY SMT
<1>2. DOMAIN s = {0} /\ s[0] = NewNode(k, -1, -1) BY <1>1 DEF Larger
<1> QED BY <1>2 DEF NewNode, Node

(* What a step makes of the array t of L nodes.                             *)
Built(t, L, s) ==
    \/ \E i \in 0 .. L - 1 : GrownBehind(t, L, i, s)
    \/ \E i \in 0 .. L - 1 : t[i].next = -1 /\ t[i].key \in Containers /\ GrownInto(t, L, i, s)
    \/ L = 0 /\ DOMAIN s = {0} /\ s[0].key \in Keys /\ s[0].next = -1 /\ s[0].neig = -1

(* Every step of building puts one node behind another, into one without    *)
(* subnodes, or first; the other arrays are left alone.                     *)
LEMMA BuildingIs ==
    ASSUME NEW c \in Contexts, NEW k \in Keys, Building(c, k), DOMAIN nodes = Contexts,
           NEW L \in Nat, IsArray(nodes[c], L), \A j \in 0 .. L - 1 : nodes[c][j] \in Node
    PROVE  /\ L < Size[c] /\ Built(nodes[c], L, nodes'[c])
           /\ \A j \in 0 .. L : nodes'[c][j] \in Node
           /\ DOMAIN nodes' = Contexts /\ \A d \in Contexts \ {c} : nodes'[d] = nodes[d]
<1>1. Count(c) = L BY CountIs DEF Count
<1>2. DOMAIN nodes[c] = 0 .. L - 1 BY DEF IsArray
<1>3. ASSUME NEW n, NEW i, NEW f, Grow(c, n, i, f)
      PROVE  /\ nodes'[c] = Larger(nodes[c], L, n, i, f)
             /\ DOMAIN nodes' = Contexts /\ \A d \in Contexts \ {c} : nodes'[d] = nodes[d]
  BY <1>1, <1>3 DEF Grow, Larger
<1>4. PICK t, s : t = nodes[c] /\ s = nodes'[c] OBVIOUS
<1>5. CASE \E i \in 0 .. Count(c) - 1 : InsertNode(c, i, k)
  <2>1. PICK i \in 0 .. L - 1 : InsertNode(c, i, k) BY <1>1, <1>5
  <2>2. L < Size[c] /\ Grow(c, NewNode(k, -1, nodes[c][i].neig), i, "neig") BY <1>1, <2>1 DEF InsertNode
  <2>3. s = Larger(t, L, NewNode(k, -1, t[i].neig), i, "neig") BY <1>3, <1>4, <2>2
  <2>4. GrownBehind(t, L, i, s) /\ \A j \in 0 .. L : s[j] \in Node BY <1>4, <2>3, LargerBehind
  <2>5. Built(t, L, s) BY <2>4 DEF Built
  <2> QED BY <1>3, <1>4, <2>2, <2>4, <2>5
<1>6. CASE ~Follows(c) /\ AppendNode(c, k)
  <2>1. L < Size[c] /\ Grow(c, NewNode(k, -1, -1), L - 1, "neig") BY <1>1, <1>6 DEF AppendNode
  <2>2. s = Larger(t, L, NewNode(k, -1, -1), L - 1, "neig") BY <1>3, <1>4, <2>1
  <2>3. CASE L = 0
    <3>1. L - 1 = -1 BY <2>3
    <3>2. s = Larger(t, 0, NewNode(k, -1, -1), -1, "neig") BY <2>2, <2>3, <3>1
    <3>3. DOMAIN s = {0} /\ s[0] = NewNode(k, -1, -1) /\ s[0] \in Node BY <3>2, LargerFirst
    <3>4. s[0].key \in Keys /\ s[0].next = -1 /\ s[0].neig = -1 BY <3>3 DEF NewNode
    <3>5. Built(t, L, s) BY <2>3, <3>3, <3>4 DEF Built
    <3>6. \A j \in 0 .. L : s[j] \in Node BY <2>3, <3>3
    <3> QED BY <1>3, <1>4, <2>1, <3>5, <3>6
  <2>4. CASE L # 0
    <3>1. PICK i \in 0 .. L - 1 : i = L - 1 BY <2>4
    <3>2. t[i].neig = -1 BY <1>1, <1>4, <1>6, <2>4, <3>1 DEF Follows
    <3>3. s = Larger(t, L, NewNode(k, -1, t[i].neig), i, "neig") BY <2>2, <3>1, <3>2
    <3>4. GrownBehind(t, L, i, s) /\ \A j \in 0 .. L : s[j] \in Node BY <1>4, <3>3, LargerBehind
    <3>5. Built(t, L, s) BY <3>4 DEF Built
    <3> QED BY <1>3, <1>4, <2>1, <3>4, <3>5
  <2> QED BY <2>3, <2>4
<1>7. CASE \E i \in 0 .. Count(c) - 1 : ~Filled(c, i) /\ AppendSubnode(c, i, k)
  <2>1. PICK i \in 0 .. L - 1 : ~Filled(c, i) /\ AppendSubnode(c, i, k) BY <1>1, <1>7
  <2>2. L < Size[c] /\ Grow(c, NewNode(k, nodes[c][i].next, -1), i, "next") /\ t[i].key \in Containers
    BY <1>1, <1>4, <2>1 DEF AppendSubnode
  <2>3. t[i].next = -1 BY <1>2, <1>4, <2>1 DEF Filled
  <2>4. s = Larger(t, L, NewNode(k, t[i].next, -1), i, "next") BY <1>3, <1>4, <2>2
  <2>5. GrownInto(t, L, i, s) /\ \A j \in 0 .. L : s[j] \in Node BY <1>4, <2>3, <2>4, LargerInto
  <2>6. Built(t, L, s) BY <2>2, <2>3, <2>5 DEF Built
  <2> QED BY <1>3, <1>4, <2>2, <2>5, <2>6
<1> QED BY <1>5, <1>6, <1>7 DEF Building

(* Every step of building leaves the links a tree.                          *)
LEMMA BuiltPlaced ==
    ASSUME NEW t, NEW L \in Nat, IsArray(t, L), Placed(t, L), NEW s, Built(t, L, s)
    PROVE  IsArray(s, L + 1) /\ Placed(s, L + 1)
<1>1. CASE \E i \in 0 .. L - 1 : GrownBehind(t, L, i, s) BY <1>1, BehindPlaced
<1>2. CASE \E i \in 0 .. L - 1 : t[i].next = -1 /\ t[i].key \in Containers /\ GrownInto(t, L, i, s)
  BY <1>2, IntoPlaced
<1>3. CASE L = 0 /\ DOMAIN s = {0} /\ s[0].key \in Keys /\ s[0].next = -1 /\ s[0].neig = -1
  <2>1. IsArray(s, 1) /\ Placed(s, 1) BY <1>3, FirstPlaced
  <2> QED BY <1>3, <2>1
<1> QED BY <1>1, <1>2, <1>3 DEF Built

(* The links make a tree whatever is built.                                 *)
THEOREM TreeShaped == TreeSpec => []TreeInv
<1>1. TreeInit => TreeInv
  <2> SUFFICES ASSUME TreeInit PROVE TreeInv
    OBVIOUS
  <2>1. ASSUME NEW c \in Contexts PROVE Shaped(nodes[c], Size[c])
    <3>1. DOMAIN nodes[c] = {} BY DEF TreeInit
    <3>2. 0 .. 0 - 1 = {} BY SMT
    <3>3. 0 \in 0 .. Size[c] BY ContextAssumption
    <3>4. IsArray(nodes[c], 0) BY <3>1, <3>2 DEF IsArray
    <3>5. Ordered(nodes[c], 0, <<>>, <<>>) BY <3>2 DEF Ordered
    <3>6. Placed(nodes[c], 0) BY <3>5 DEF Placed
    <3> QED BY <3>2, <3>3, <3>4, <3>6 DEF Shaped
  <2> QED BY <2>1 DEF TreeInit, TreeInv
<1>2. TreeInv /\ [TreeNext]_nodes => TreeInv'
  <2> SUFFICES ASSUME TreeInv, [TreeNext]_nodes PROVE TreeInv'
    OBVIOUS
  <2>1. CASE UNCHANGED nodes
    BY <2>1 DEF TreeInv, Shaped, Placed, Ordered, EndOf, IsArray, Places
  <2>2. ASSUME NEW c \in Contexts, NEW k \in Keys, Building(c, k) PROVE TreeInv'
    <3>1. PICK L \in 0 .. Size[c] : IsArray(nodes[c], L) /\ Placed(nodes[c], L) /\ \A j \in 0 .. L - 1 : nodes[c][j] \in Node
      BY DEF TreeInv, Shaped
    <3>2. L \in Nat /\ Size[c] \in Nat BY ContextAssumption
    <3>3. /\ L < Size[c] /\ Built(nodes[c], L, nodes'[c])
          /\ \A j \in 0 .. L : nodes'[c][j] \in Node
          /\ DOMAIN nodes' = Contexts /\ \A d \in Contexts \ {c} : nodes'[d] = nodes[d]
      BY <2>2, <3>1, <3>2, BuildingIs DEF TreeInv
    <3>4. IsArray(nodes'[c], L + 1) /\ Placed(nodes'[c], L + 1) BY <3>1, <3>2, <3>3, BuiltPlaced
    <3>5. L + 1 \in 0 .. Size[c] /\ L + 1 - 1 = L BY <3>2, <3>3
    <3>6. Shaped(nodes'[c], Size[c]) BY <3>3, <3>4, <3>5 DEF Shaped
    <3>7. \A d \in Contexts \ {c} : Shaped(nodes'[d], Size[d]) BY <3>3 DEF TreeInv
    <3>8. DOMAIN nodes' = Contexts /\ \A d \in Contexts : Shaped(nodes'[d], Size[d]) BY <3>3, <3>6, <3>7
    <3> QED BY <3>8, Zenon DEF TreeInv, Shaped, Placed, Ordered, EndOf, IsArray, Places
  <2> QED BY <2>1, <2>2 DEF TreeNext
<1> QED BY <1>1, <1>2, PTL DEF TreeSpec

(* A product is below a limit exactly when its factor is below a share of   *)
(* it.                                                                      *)
LEMMA Share ==
    ASSUME NEW L \in Nat \ {0}, NEW Z \in Nat
    PROVE  \E B \in Nat : L * B <= Z /\ \A k \in Nat : L * k <= Z => k <= B
<1>1. PICK q \in Nat, r \in 0 .. L - 1 : Z = L * q + r BY DivMod
<1>2. PICK a \in Nat : a = L * q OBVIOUS
<1>3. a <= Z /\ Z < a + L BY <1>1, <1>2
<1>4. ASSUME NEW k \in Nat, k > q PROVE L * k > Z
  <2>1. PICK e \in Nat : k = q + 1 + e
    <3>1. k - (q + 1) \in Nat /\ k = q + 1 + (k - (q + 1)) BY <1>4
    <3> QED BY <3>1
  <2>2. L * (q + 1 + e) = L * q + L + L * e OBVIOUS
  <2>3. L * e \in Nat OBVIOUS
  <2>4. L * k = a + L + L * e BY <1>2, <2>1, <2>2
  <2> QED BY <1>3, <2>3, <2>4
<1>5. \A k \in Nat : L * k <= Z => k <= q
  <2> SUFFICES ASSUME NEW k \in Nat, L * k <= Z, ~(k <= q) PROVE FALSE
    OBVIOUS
  <2>1. k > q OBVIOUS
  <2>2. L * k > Z BY <1>4, <2>1
  <2>3. L * k \in Int OBVIOUS
  <2> QED BY <2>2, <2>3
<1> QED BY <1>2, <1>3, <1>5

(* The sizes that fit a header are those up to a limit.                     *)
LEMMA Room30 == \E Z \in Nat : \A n \in Nat : Fits(n) <=> n <= Z
<1>1. PICK Z \in Nat : Z = 1073741823 BY SMTT(20)
<1>2. \A n \in Nat : Fits(n) <=> n <= Z BY <1>1, SMTT(20) DEF Fits
<1> QED BY <1>2, SMTT(20)

(* A packet of nodes like any one of its nodes fits a header.               *)
LEMMA PacketFits ==
    ASSUME NEW c \in Contexts, NEW k \in Keys
    PROVE  Fits(Size[c] * (KeySize[k] + ValSize[k] + 8))
BY PacketAssumption, SMTT(20) DEF Fits

(* All sizes within a packet fit a header.                                  *)
LEMMA ArrayReadable ==
    ASSUME NEW c \in Contexts, NEW t, NEW L \in 0 .. Size[c], NEW lo, NEW hi, IsArray(t, L), Ordered(t, L, lo, hi)
    PROVE  Readable(t)
<1>1. Size[c] \in Nat /\ L \in Nat /\ L <= Size[c] BY ContextAssumption
<1>2. CASE L = 0
  <2>1. 0 .. 0 - 1 = {} BY SMT
  <2>2. DOMAIN t = {} BY <1>2, <2>1 DEF IsArray
  <2> QED BY <2>2 DEF Readable
<1>3. CASE L # 0
  <2>1. PICK Z \in Nat : \A n \in Nat : Fits(n) <=> n <= Z BY Room30
  <2>2. PICK B \in Nat : L * B <= Z /\ \A k \in Nat : L * k <= Z => k <= B BY <1>1, <1>3, Share
  <2>3. ASSUME NEW j \in DOMAIN t PROVE KeySize[t[j].key] + ValSize[t[j].key] + 8 <= B
    <3>1. PICK k \in Keys : k = t[j].key BY DEF IsArray
    <3>2. PICK b \in Nat : b = KeySize[k] + ValSize[k] + 8 BY KeyIs
    <3>3. Fits(Size[c] * b) BY <3>2, PacketFits
    <3>4. Size[c] * b \in Nat /\ L * b \in Nat /\ L * b <= Size[c] * b
      <4>1. \A x, y \in Nat : x <= y => x * b <= y * b OBVIOUS
      <4>2. \A x \in Nat : x * b \in Nat OBVIOUS
      <4> QED BY <1>1, <4>1, <4>2
    <3>5. L * b <= Z BY <2>1, <3>3, <3>4
    <3>6. b <= B BY <2>2, <3>5
    <3> QED BY <3>1, <3>2, <3>6
  <2>4. \A j \in DOMAIN t : SizeFrom(t, j) <= L * B /\ ValueSize(t, j) <= L * B
    BY <1>1, <2>3, SizesBounded
  <2>5. B <= L * B /\ L * B \in Nat BY <1>1, <1>3
  <2>6. ASSUME NEW j \in DOMAIN t PROVE Fits(KeySize[t[j].key]) /\ Fits(ValueSize(t, j))
    <3>1. PICK k \in Keys : k = t[j].key BY DEF IsArray
    <3>2. KeySize[k] \in Nat /\ ValSize[k] \in Nat /\ ValueSize(t, j) \in Nat BY <1>1, KeyIs, SizeIs
    <3>3. ValueSize(t, j) <= Z BY <2>2, <2>4, <2>5, <3>2
    <3>4. KeySize[k] <= B BY <2>3, <3>1, <3>2
    <3>5. KeySize[k] <= Z BY <2>2, <2>5, <3>2, <3>4
    <3> QED BY <2>1, <3>1, <3>2, <3>3, <3>5
  <2> QED BY <2>6 DEF Readable
<1> QED BY <1>2, <1>3

(* A context with nodes is a tree that fits its capacity.                   *)
LEMMA NonEmptyIs ==
    ASSUME TreeInv, NEW c \in NonEmpty
    PROVE  /\ c \in Contexts
           /\ \E L \in Nat : \E lo, hi :
                 IsArray(nodes[c], L) /\ Ordered(nodes[c], L, lo, hi) /\ L > 0 /\ L \in 0 .. Size[c]
<1>1. c \in Contexts /\ Count(c) > 0 BY DEF NonEmpty
<1>2. PICK L \in 0 .. Size[c] : IsArray(nodes[c], L) /\ Placed(nodes[c], L)
  BY <1>1 DEF TreeInv, Shaped
<1>3. L \in Nat BY <1>1, ContextAssumption
<1>4. L > 0 BY <1>1, <1>2, <1>3, CountIs DEF Count
<1>5. PICK lo, hi : Ordered(nodes[c], L, lo, hi) BY <1>2 DEF Placed
<1> QED BY <1>1, <1>2, <1>3, <1>4, <1>5

(* The size announced for a packet is the number of bytes written for it,   *)
(* for every tree the writer can build (abiw_get_node_sizes against         *)
(* abiw_write_recursive).                                                   *)
THEOREM ExactSizes == TreeSpec => []SizesAreExact
<1>1. TreeInv => SizesAreExact
  <2> SUFFICES ASSUME TreeInv, NEW c \in NonEmpty
               PROVE  SizeFrom(nodes[c], 0) = Bytes(Written(nodes[c], 0), Len(Written(nodes[c], 0)))
    BY Zenon DEF SizesAreExact
  <2>1. PICK L, lo, hi : L \in Nat /\ IsArray(nodes[c], L) /\ Ordered(nodes[c], L, lo, hi) /\ L > 0
    BY NonEmptyIs
  <2>2. 0 \in DOMAIN nodes[c] BY <2>1 DEF IsArray
  <2> QED BY <2>1, <2>2, SizesExact
<1> QED BY <1>1, TreeShaped, PTL

(* A reader gets from any packet the writer can build exactly the nodes it  *)
(* knows, at their places, and uses the packet up, whatever keys, sizes and *)
(* trees the two sides have (abir_process_node).                            *)
THEOREM KnownIsRead == TreeSpec => []ReadsWhatItKnows
<1>1. TreeInv => ReadsWhatItKnows
  <2> SUFFICES ASSUME TreeInv, NEW c \in NonEmpty, NEW d \in NonEmpty
               PROVE  /\ ReadNodes(nodes[d], Written(nodes[c], 0), SizeFrom(nodes[c], 0)).out
                           = Expected(nodes[c], 0, nodes[d], -1)
                      /\ ReadNodes(nodes[d], Written(nodes[c], 0), SizeFrom(nodes[c], 0)).rest
                           = Len(Written(nodes[c], 0)) + 1
    BY Zenon DEF ReadsWhatItKnows
  <2>1. PICK w, t : w = nodes[c] /\ t = nodes[d] OBVIOUS
  <2>2. PICK M, wlo, whi : M \in Nat /\ IsArray(w, M) /\ Ordered(w, M, wlo, whi) /\ M > 0 /\ M \in 0 .. Size[c]
    BY <2>1, NonEmptyIs
  <2>3. PICK L, lo, hi : L \in Nat /\ IsArray(t, L) /\ Ordered(t, L, lo, hi)
    BY <2>1, NonEmptyIs
  <2>4. c \in Contexts BY NonEmptyIs
  <2>5. Readable(w) BY <2>2, <2>4, ArrayReadable
  <2> QED BY <2>1, <2>2, <2>3, <2>5, PacketRead
<1> QED BY <1>1, TreeShaped, PTL

-----------------------------------------------------------------------------
(* What building makes of the neighbours *)

(* The nodes after a node have later places.                                *)
LEMMA ChainPlaces ==
    ASSUME NEW t, NEW L \in Nat, NEW lo, NEW hi, IsArray(t, L), Ordered(t, L, lo, hi)
    PROVE  \A j \in DOMAIN t : \A k \in 1 .. Len(Chain(t, j)) : lo[j] <= lo[Chain(t, j)[k]]
<1> DEFINE S == {j \in DOMAIN t : \A k \in 1 .. Len(Chain(t, j)) : lo[j] <= lo[Chain(t, j)[k]]}
<1>1. \A j \in DOMAIN t : lo[j] \in Nat /\ t[j].neig \in Places(t)
  BY DEF IsArray, Ordered
<1>2. ASSUME NEW j \in DOMAIN t, t[j].neig # -1 => t[j].neig \in S
      PROVE  j \in S
  <2>1. t[j].neig \in Places(t) BY <1>1
  <2>2. PICK u \in Seq(DOMAIN t) : u = Chain(t, t[j].neig) BY <2>1, ChainIs
  <2>3. Chain(t, j) = <<j>> \o u BY <2>2, ChainIs
  <2>4. ASSUME NEW k \in 1 .. Len(<<j>> \o u) PROVE lo[j] <= lo[(<<j>> \o u)[k]]
    <3>1. CASE k = 1 BY <1>1, <3>1
    <3>2. CASE k # 1
      <4>1. k - 1 \in 1 .. Len(u) /\ (<<j>> \o u)[k] = u[k - 1] BY <3>2
      <4>2. u[k - 1] \in DOMAIN t BY <4>1
      <4>3. t[j].neig # -1
        <5>1. SUFFICES ASSUME t[j].neig = -1 PROVE FALSE OBVIOUS
        <5>2. u = <<>> BY <2>2, <5>1, ChainIs
        <5> QED BY <4>1, <5>2
      <4>4. lo[t[j].neig] <= lo[u[k - 1]] BY <1>2, <2>2, <4>1, <4>3
      <4>5. lo[j] < lo[t[j].neig] BY <4>3 DEF Ordered, IsArray
      <4>6. t[j].neig \in DOMAIN t BY <2>1, <4>3 DEF Places
      <4> QED BY <1>1, <4>1, <4>2, <4>4, <4>5, <4>6
    <3> QED BY <3>1, <3>2
  <2> QED BY <2>3, <2>4
<1>3. \A j \in DOMAIN t : j \in S
  <2>1. \A j \in DOMAIN t : (t[j].next # -1 => t[j].next \in S) /\ (t[j].neig # -1 => t[j].neig \in S) => j \in S
    BY <1>2
  <2> HIDE DEF S
  <2> QED BY <2>1, Downward
<1> QED BY <1>3

(* The sequence v is u with n at k.                                         *)
Inserted(u, v, k, n) ==
    /\ k \in 1 .. Len(u) + 1 /\ Len(v) = Len(u) + 1
    /\ \A m \in 1 .. Len(u) + 1 : v[m] = IF m < k THEN u[m] ELSE IF m = k THEN n ELSE u[m - 1]

(* The sequence v is u with n behind i, if i is there.                      *)
OneMore(u, v, i, n) ==
    \/ (\A k \in 1 .. Len(u) : u[k] # i) /\ v = u
    \/ \E k \in 1 .. Len(u) : u[k] = i /\ Inserted(u, v, k + 1, n)

(* A longer chain, with a node before it.                                   *)
LEMMA OneMoreBehind ==
    ASSUME NEW S, NEW T, NEW u \in Seq(S), NEW v \in Seq(T), NEW i, NEW n, OneMore(u, v, i, n), NEW j, j # i
    PROVE  OneMore(<<j>> \o u, <<j>> \o v, i, n)
<1>1. PICK ju, jv : ju = <<j>> \o u /\ jv = <<j>> \o v OBVIOUS
<1>2. /\ Len(ju) = Len(u) + 1 /\ Len(jv) = Len(v) + 1 /\ Len(u) \in Nat /\ Len(v) \in Nat
      /\ ju[1] = j /\ jv[1] = j
      /\ \A m \in 2 .. Len(u) + 1 : ju[m] = u[m - 1]
      /\ \A m \in 2 .. Len(v) + 1 : jv[m] = v[m - 1]
  BY <1>1
<1>3. CASE (\A k \in 1 .. Len(u) : u[k] # i) /\ v = u
  <2>1. ASSUME NEW k \in 1 .. Len(ju) PROVE ju[k] # i
    <3>1. CASE k = 1 BY <1>2, <3>1
    <3>2. CASE k # 1
      <4>1. k \in 2 .. Len(u) + 1 /\ k - 1 \in 1 .. Len(u) BY <1>2, <3>2
      <4> QED BY <1>2, <1>3, <4>1
    <3> QED BY <3>1, <3>2
  <2> QED BY <1>1, <1>3, <2>1 DEF OneMore
<1>4. CASE \E k \in 1 .. Len(u) : u[k] = i /\ Inserted(u, v, k + 1, n)
  <2>1. PICK k \in 1 .. Len(u) : u[k] = i /\ Inserted(u, v, k + 1, n) BY <1>4
  <2>2. Len(v) = Len(u) + 1 /\ \A m \in 1 .. Len(u) + 1 :
            v[m] = IF m < k + 1 THEN u[m] ELSE IF m = k + 1 THEN n ELSE u[m - 1]
    BY <2>1 DEF Inserted
  <2>3. ASSUME NEW m \in 1 .. Len(ju) + 1
        PROVE  jv[m] = IF m < k + 2 THEN ju[m] ELSE IF m = k + 2 THEN n ELSE ju[m - 1]
    <3>1. CASE m = 1 BY <1>2, <3>1
    <3>2. CASE m # 1
      <4>1. m \in 2 .. Len(v) + 1 /\ m - 1 \in 1 .. Len(u) + 1 BY <1>2, <2>2, <3>2
      <4>2. jv[m] = v[m - 1] BY <1>2, <4>1
      <4>3. CASE m < k + 2
        <5>1. m - 1 < k + 1 /\ m \in 2 .. Len(u) + 1 BY <1>2, <4>1, <4>3
        <5> QED BY <1>2, <2>2, <4>1, <4>2, <4>3, <5>1
      <4>4. CASE m = k + 2
        <5>1. m - 1 = k + 1 /\ ~(m - 1 < k + 1) /\ ~(m < k + 2) BY <4>4
        <5> QED BY <2>2, <4>1, <4>2, <4>4, <5>1
      <4>5. CASE m > k + 2
        <5>1. ~(m - 1 < k + 1) /\ m - 1 # k + 1 /\ ~(m < k + 2) /\ m # k + 2 BY <4>5
        <5>2. v[m - 1] = u[m - 1 - 1] BY <2>2, <4>1, <5>1
        <5>3. m - 1 \in 2 .. Len(u) + 1 BY <4>1, <4>5
        <5>4. ju[m - 1] = u[m - 1 - 1] BY <1>2, <5>3
        <5> QED BY <4>2, <5>1, <5>2, <5>4
      <4> QED BY <4>3, <4>4, <4>5
    <3> QED BY <3>1, <3>2
  <2>4. k + 1 \in 1 .. Len(ju) /\ k + 1 + 1 = k + 2 /\ k + 2 \in 1 .. Len(ju) + 1 /\ k + 1 \in 2 .. Len(u) + 1 /\ k + 1 - 1 = k
    BY <1>2
  <2>5. ju[k + 1] = i BY <1>2, <2>1, <2>4
  <2>6. Inserted(ju, jv, k + 1 + 1, n) BY <1>2, <2>2, <2>3, <2>4 DEF Inserted
  <2> QED BY <1>1, <2>4, <2>5, <2>6 DEF OneMore
<1> QED BY <1>3, <1>4 DEF OneMore

(* A chain with the new node right after its first.                         *)
LEMMA OneMoreHere ==
    ASSUME NEW S, NEW u \in Seq(S), NEW i, NEW n
    PROVE  OneMore(<<i>> \o u, <<i>> \o (<<n>> \o u), i, n)
<1>1. PICK iu, iv : iu = <<i>> \o u /\ iv = <<i>> \o (<<n>> \o u) OBVIOUS
<1>2. Len(u) \in Nat /\ Len(iu) = Len(u) + 1 /\ Len(iv) = Len(u) + 2 /\ iu[1] = i /\ iv[1] = i /\ iv[2] = n
      /\ (\A m \in 2 .. Len(u) + 1 : iu[m] = u[m - 1])
      /\ \A m \in 3 .. Len(u) + 2 : iv[m] = u[m - 2]
  BY <1>1
<1>3. ASSUME NEW m \in 1 .. Len(iu) + 1
      PROVE  iv[m] = IF m < 2 THEN iu[m] ELSE IF m = 2 THEN n ELSE iu[m - 1]
  <2>1. CASE m = 1 BY <1>2, <2>1
  <2>2. CASE m = 2 BY <1>2, <2>2
  <2>3. CASE m > 2
    <3>1. m \in 3 .. Len(u) + 2 /\ m - 1 \in 2 .. Len(u) + 1 /\ m - 1 - 1 = m - 2 BY <1>2, <2>3
    <3>2. iv[m] = u[m - 2] /\ iu[m - 1] = u[m - 2] BY <1>2, <3>1
    <3> QED BY <2>3, <3>2
  <2> QED BY <2>1, <2>2, <2>3
<1>4. 1 + 1 = 2 /\ 2 \in 1 .. Len(iu) + 1 /\ 1 \in 1 .. Len(iu) BY <1>2
<1>5. Inserted(iu, iv, 1 + 1, n) BY <1>2, <1>3, <1>4 DEF Inserted
<1> QED BY <1>1, <1>2, <1>4, <1>5 DEF OneMore

(* An insertion is InsertAt of the promise.                                 *)
LEMMA InsertedIs ==
    ASSUME NEW S, NEW u \in Seq(S), NEW T, NEW v \in Seq(T), NEW k, NEW n, Inserted(u, v, k, n)
    PROVE  v = Promise!InsertAt(u, k, n)
<1>1. PICK l \in Nat : l = Len(u) OBVIOUS
<1>2. k \in 1 .. l + 1 /\ Len(v) = l + 1
      /\ \A m \in 1 .. l + 1 : v[m] = IF m < k THEN u[m] ELSE IF m = k THEN n ELSE u[m - 1]
  BY <1>1 DEF Inserted
<1>3. PICK a, b : a = SubSeq(u, 1, k - 1) /\ b = SubSeq(u, k, l) OBVIOUS
<1>4. a \in Seq(S) /\ Len(a) = k - 1 /\ \A m \in 1 .. k - 1 : a[m] = u[m]
  BY <1>1, <1>2, <1>3
<1>5. b \in Seq(S) /\ Len(b) = l - k + 1 /\ \A m \in 1 .. l - k + 1 : b[m] = u[k + m - 1]
  BY <1>1, <1>2, <1>3
<1>6. PICK w : w = a \o <<n>> \o b OBVIOUS
<1>7. a \in Seq(S \cup {n}) /\ <<n>> \in Seq(S \cup {n}) /\ b \in Seq(S \cup {n}) BY <1>4, <1>5
<1>8. PICK an \in Seq(S \cup {n}) : an = a \o <<n>>
  <2>1. a \o <<n>> \in Seq(S \cup {n}) BY <1>7
  <2> QED BY <2>1
<1>9. Len(an) = k /\ an[k] = n /\ \A m \in 1 .. k - 1 : an[m] = u[m]
  BY <1>2, <1>4, <1>8
<1>10. w = an \o b /\ Len(w) = l + 1 /\ w \in Seq(S \cup {n})
  <2>1. w = an \o b BY <1>6, <1>8
  <2>2. an \o b \in Seq(S \cup {n}) /\ Len(an \o b) = Len(an) + Len(b) BY <1>7
  <2> QED BY <1>2, <1>5, <1>9, <2>1, <2>2
<1>11. ASSUME NEW m \in 1 .. l + 1 PROVE v[m] = w[m]
  <2>1. CASE m < k
    <3>1. m \in 1 .. k - 1 /\ m \in 1 .. Len(an) BY <1>2, <1>9, <2>1
    <3>2. w[m] = an[m] BY <1>5, <1>8, <1>10, <3>1
    <3> QED BY <1>2, <1>9, <2>1, <3>1, <3>2
  <2>2. CASE m = k
    <3>1. m \in 1 .. Len(an) BY <1>2, <1>9, <2>2
    <3>2. w[m] = an[m] BY <1>5, <1>8, <1>10, <3>1
    <3> QED BY <1>2, <1>9, <2>2, <3>2
  <2>3. CASE m > k
    <3>1. m - k \in 1 .. Len(b) /\ m = Len(an) + (m - k) /\ m - k \in 1 .. l - k + 1 /\ k + (m - k) - 1 = m - 1
      BY <1>2, <1>5, <1>9, <2>3
    <3>2. w[m] = b[m - k] BY <1>8, <1>5, <1>10, <3>1
    <3>3. b[m - k] = u[m - 1] BY <1>5, <3>1
    <3> QED BY <1>2, <2>3, <3>2, <3>3
  <2> QED BY <1>2, <2>1, <2>2, <2>3
<1>12. v = w
  <2>1. PICK W : W = S \cup {n} \cup T OBVIOUS
  <2>2. v \in Seq(W) BY <2>1
  <2>3. w \in Seq(W) BY <1>10, <2>1
  <2>4. Len(v) = Len(w) /\ \A m \in 1 .. Len(v) : v[m] = w[m] BY <1>2, <1>10, <1>11
  <2> QED BY <2>2, <2>3, <2>4, SeqEqual
<1> QED BY <1>1, <1>3, <1>6, <1>12 DEF Promise!InsertAt

(* A node inserted behind i is in the chains i is in, right after i, and in *)
(* no other.                                                                *)
LEMMA ChainBehind ==
    ASSUME NEW t, NEW L \in Nat, IsArray(t, L), Placed(t, L), NEW i \in 0 .. L - 1,
           NEW s, GrownBehind(t, L, i, s)
    PROVE  /\ \A j \in Places(t) : OneMore(Chain(t, j), Chain(s, j), i, L)
           /\ Chain(s, -1) = <<>>
<1>1. IsArray(s, L + 1) /\ Placed(s, L + 1) BY BehindPlaced
<1>2. PICK lo, hi : Ordered(t, L, lo, hi) BY DEF Placed
<1>3. /\ Chain(t, -1) = <<>>
      /\ \A j \in DOMAIN t : Chain(t, j) = <<j>> \o Chain(t, t[j].neig)
      /\ \A j \in Places(t) : Chain(t, j) \in Seq(DOMAIN t)
  BY <1>2, ChainIs
<1>4. /\ Chain(s, -1) = <<>>
      /\ \A j \in DOMAIN s : Chain(s, j) = <<j>> \o Chain(s, s[j].neig)
      /\ \A j \in Places(s) : Chain(s, j) \in Seq(DOMAIN s)
  <2>1. L + 1 \in Nat BY SMT
  <2>2. PICK plo, phi : Ordered(s, L + 1, plo, phi) BY <1>1 DEF Placed
  <2> QED BY <1>1, <2>1, <2>2, ChainIs
<1>5. DOMAIN t = 0 .. L - 1 /\ DOMAIN s = 0 .. L BY DEF IsArray, GrownBehind
<1>6. OneMore(Chain(t, -1), Chain(s, -1), i, L)
  <2>1. Len(<<>>) = 0 /\ 1 .. 0 = {} BY SMT
  <2> QED BY <1>3, <1>4, <2>1 DEF OneMore
<1> DEFINE S == {j \in DOMAIN t : OneMore(Chain(t, j), Chain(s, j), i, L)}
<1>7. ASSUME NEW j \in DOMAIN t, t[j].neig # -1 => t[j].neig \in S PROVE j \in S
  <2>1. PICK n : n = t[j].neig OBVIOUS
  <2>2. n \in Places(t) BY <2>1 DEF IsArray
  <2>3. OneMore(Chain(t, n), Chain(s, n), i, L) BY <1>6, <1>7, <2>1
  <2>4. PICK u \in Seq(DOMAIN t), v \in Seq(DOMAIN s) : u = Chain(t, n) /\ v = Chain(s, n)
    <3>1. n \in Places(s) BY <1>5, <2>2 DEF Places
    <3> QED BY <1>3, <1>4, <2>2, <3>1
  <2>5. Chain(t, j) = <<j>> \o u BY <1>3, <2>1, <2>4
  <2>6. CASE j # i
    <3>1. s[j].neig = n /\ j \in DOMAIN s BY <1>5, <2>1, <2>6 DEF GrownBehind
    <3>2. Chain(s, j) = <<j>> \o v BY <1>4, <2>4, <3>1
    <3>3. OneMore(<<j>> \o u, <<j>> \o v, i, L) BY <2>3, <2>4, <2>6, OneMoreBehind
    <3> QED BY <2>5, <3>2, <3>3
  <2>7. CASE j = i
    <3>1. s[i].neig = L /\ s[L].neig = n /\ i \in DOMAIN s /\ L \in DOMAIN s
      BY <1>5, <2>1, <2>7 DEF GrownBehind
    <3>2. Chain(s, i) = <<i>> \o (<<L>> \o v) BY <1>4, <2>4, <3>1
    <3>3. \A k \in 1 .. Len(u) : u[k] # i
      <4> SUFFICES ASSUME NEW k \in 1 .. Len(u), u[k] = i PROVE FALSE
        OBVIOUS
      <4>1. n # -1
        <5> SUFFICES ASSUME n = -1 PROVE FALSE OBVIOUS
        <5>1. u = <<>> BY <1>3, <2>4
        <5> QED BY <5>1
      <4>2. n \in DOMAIN t BY <2>2, <4>1 DEF Places
      <4>3. lo[n] <= lo[u[k]] BY <1>2, <2>4, <4>2, ChainPlaces
      <4>4. lo[i] < lo[n] /\ lo[i] \in Nat /\ lo[n] \in Nat
        BY <1>2, <1>5, <2>1, <2>7, <4>1, <4>2 DEF Ordered
      <4> QED BY <4>3, <4>4
    <3>4. v = u BY <2>3, <2>4, <3>3 DEF OneMore
    <3>5. OneMore(<<i>> \o u, <<i>> \o (<<L>> \o u), i, L) BY OneMoreHere
    <3> QED BY <2>5, <2>7, <3>2, <3>4, <3>5
  <2> QED BY <2>6, <2>7
<1>8. \A j \in DOMAIN t : j \in S
  <2>1. \A j \in DOMAIN t : (t[j].next # -1 => t[j].next \in S) /\ (t[j].neig # -1 => t[j].neig \in S) => j \in S
    BY <1>7
  <2> HIDE DEF S
  <2> QED BY <1>2, <2>1, Downward
<1> QED BY <1>4, <1>6, <1>8 DEF Places

(* A first subnode of i is in no chain but its own.                         *)
LEMMA ChainInto ==
    ASSUME NEW t, NEW L \in Nat, IsArray(t, L), Placed(t, L),
           NEW i \in 0 .. L - 1, t[i].next = -1, t[i].key \in Containers,
           NEW s, GrownInto(t, L, i, s)
    PROVE  /\ \A j \in Places(t) : Chain(s, j) = Chain(t, j)
           /\ Chain(s, -1) = <<>> /\ Chain(s, L) = <<L>>
<1>1. IsArray(s, L + 1) /\ Placed(s, L + 1) BY IntoPlaced
<1>2. PICK lo, hi : Ordered(t, L, lo, hi) BY DEF Placed
<1>3. /\ Chain(t, -1) = <<>>
      /\ \A j \in DOMAIN t : Chain(t, j) = <<j>> \o Chain(t, t[j].neig)
  BY <1>2, ChainIs
<1>4. /\ Chain(s, -1) = <<>>
      /\ \A j \in DOMAIN s : Chain(s, j) = <<j>> \o Chain(s, s[j].neig)
  <2>1. L + 1 \in Nat BY SMT
  <2>2. PICK plo, phi : Ordered(s, L + 1, plo, phi) BY <1>1 DEF Placed
  <2> QED BY <1>1, <2>1, <2>2, ChainIs
<1>5. DOMAIN t = 0 .. L - 1 /\ DOMAIN s = 0 .. L BY DEF IsArray, GrownInto
<1> DEFINE S == {j \in DOMAIN t : Chain(s, j) = Chain(t, j)}
<1>6. ASSUME NEW j \in DOMAIN t, t[j].neig # -1 => t[j].neig \in S PROVE j \in S
  <2>1. s[j].neig = t[j].neig /\ j \in DOMAIN s BY <1>5 DEF GrownInto
  <2>2. Chain(s, t[j].neig) = Chain(t, t[j].neig) BY <1>3, <1>4, <1>6
  <2> QED BY <1>3, <1>4, <2>1, <2>2
<1>7. \A j \in DOMAIN t : j \in S
  <2>1. \A j \in DOMAIN t : (t[j].next # -1 => t[j].next \in S) /\ (t[j].neig # -1 => t[j].neig \in S) => j \in S
    BY <1>6
  <2> HIDE DEF S
  <2> QED BY <1>2, <2>1, Downward
<1>8. Chain(s, L) = <<L>>
  <2>1. L \in DOMAIN s /\ s[L].neig = -1 BY <1>5 DEF GrownInto
  <2>2. Chain(s, L) = <<L>> \o <<>> BY <1>4, <2>1
  <2> QED BY <2>2
<1> QED BY <1>3, <1>4, <1>7, <1>8 DEF Places

(* What a step makes of the subnodes: the new node comes among those of one *)
(* node or of the packet, and everything else stays.                        *)
OneKid(t, s, L, p, k) ==
    /\ p \in Places(t) /\ Inserted(Kids(t, p), Kids(s, p), k, L)
    /\ \A q \in Places(t) \ {p} : Kids(s, q) = Kids(t, q)
    /\ Kids(s, L) = <<>>
    /\ L # 0 => k > 1 \/ p # -1

(* Every node is among the subnodes of one node or the packet, once.        *)
Together(t) ==
    /\ \A j \in DOMAIN t : \E p \in Places(t) : \E k \in 1 .. Len(Kids(t, p)) : Kids(t, p)[k] = j
    /\ \A p, q \in Places(t) : \A k \in 1 .. Len(Kids(t, p)), l \in 1 .. Len(Kids(t, q)) :
          Kids(t, p)[k] = Kids(t, q)[l] => p = q /\ k = l

(* Every step of building puts one node among the subnodes of one place and *)
(* leaves all others as they are.                                           *)
LEMMA BuiltKids ==
    ASSUME NEW t, NEW L \in Nat, IsArray(t, L), Placed(t, L), Together(t), NEW s, Built(t, L, s)
    PROVE  \E p, k : OneKid(t, s, L, p, k)
<1>1. DOMAIN t = 0 .. L - 1 /\ -1 \notin DOMAIN t BY DEF IsArray
<1>2. CASE \E i \in 0 .. L - 1 : GrownBehind(t, L, i, s)
  <2>1. PICK i \in 0 .. L - 1 : GrownBehind(t, L, i, s) BY <1>2
  <2>2. DOMAIN s = 0 .. L BY <2>1 DEF GrownBehind
  <2>3. \A j \in Places(t) : OneMore(Chain(t, j), Chain(s, j), i, L) BY <2>1, ChainBehind
  <2>4. Chain(s, -1) = <<>> BY <2>1, ChainBehind
  <2>5. ASSUME NEW p \in Places(t) PROVE OneMore(Kids(t, p), Kids(s, p), i, L)
    <3>1. CASE p = -1
      <4>1. 0 \in DOMAIN t /\ 0 \in DOMAIN s BY <1>1, <2>2
      <4>2. Kids(t, p) = Chain(t, 0) /\ Kids(s, p) = Chain(s, 0) BY <3>1, <4>1 DEF Kids, Roots
      <4> QED BY <2>3, <4>1, <4>2 DEF Places
    <3>2. CASE p # -1
      <4>1. p \in 0 .. L - 1 BY <1>1, <3>2 DEF Places
      <4>2. s[p].next = t[p].next /\ t[p].next \in Places(t) BY <2>1, <4>1 DEF GrownBehind, IsArray
      <4> QED BY <2>3, <3>2, <4>2 DEF Kids
    <3> QED BY <3>1, <3>2
  <2>6. Kids(s, L) = <<>>
    <3>1. L # -1 BY SMT
    <3>2. s[L].next = -1 BY <2>1 DEF GrownBehind
    <3> QED BY <2>4, <3>1, <3>2 DEF Kids
  <2>7. PICK p \in Places(t) : \E k \in 1 .. Len(Kids(t, p)) : Kids(t, p)[k] = i BY <1>1 DEF Together
  <2>8. PICK k \in 1 .. Len(Kids(t, p)) : Kids(t, p)[k] = i /\ Inserted(Kids(t, p), Kids(s, p), k + 1, L)
    BY <2>5, <2>7 DEF OneMore
  <2>9. ASSUME NEW q \in Places(t) \ {p} PROVE Kids(s, q) = Kids(t, q)
    <3>1. \A l \in 1 .. Len(Kids(t, q)) : Kids(t, q)[l] # i BY <2>8 DEF Together
    <3> QED BY <2>5, <3>1 DEF OneMore
  <2>10. k + 1 > 1 OBVIOUS
  <2>11. OneKid(t, s, L, p, k + 1) BY <2>6, <2>8, <2>9, <2>10 DEF OneKid
  <2> QED BY <2>11
<1>3. CASE \E i \in 0 .. L - 1 : t[i].next = -1 /\ t[i].key \in Containers /\ GrownInto(t, L, i, s)
  <2>1. PICK i \in 0 .. L - 1 : t[i].next = -1 /\ t[i].key \in Containers /\ GrownInto(t, L, i, s) BY <1>3
  <2>2. DOMAIN s = 0 .. L BY <2>1 DEF GrownInto
  <2>3. \A j \in Places(t) : Chain(s, j) = Chain(t, j) BY <2>1, ChainInto
  <2>4. Chain(s, -1) = <<>> /\ Chain(s, L) = <<L>> BY <2>1, ChainInto
  <2>5. ASSUME NEW q \in Places(t) \ {i} PROVE Kids(s, q) = Kids(t, q)
    <3>1. CASE q = -1
      <4>1. 0 \in DOMAIN t /\ 0 \in DOMAIN s BY <1>1, <2>2
      <4>2. Kids(t, q) = Chain(t, 0) /\ Kids(s, q) = Chain(s, 0) BY <3>1, <4>1 DEF Kids, Roots
      <4> QED BY <2>3, <4>1, <4>2 DEF Places
    <3>2. CASE q # -1
      <4>1. q \in 0 .. L - 1 BY <1>1, <3>2 DEF Places
      <4>2. s[q].next = t[q].next /\ t[q].next \in Places(t) BY <2>1, <4>1 DEF GrownInto, IsArray
      <4> QED BY <2>3, <3>2, <4>2 DEF Kids
    <3> QED BY <3>1, <3>2
  <2>6. L # -1 /\ i # -1 BY SMT
  <2>7. Kids(s, L) = <<>> BY <2>1, <2>4, <2>6 DEF Kids, GrownInto
  <2>8. Kids(s, i) = <<L>> BY <2>1, <2>4, <2>6 DEF Kids, GrownInto
  <2>9. Kids(t, i) = <<>> BY <2>1, <2>3, <2>4, <2>6 DEF Kids, Places
  <2>10. Inserted(Kids(t, i), Kids(s, i), 1, L)
    <3>1. Inserted(<<>>, <<L>>, 1, L) BY SMT DEF Inserted
    <3> QED BY <2>8, <2>9, <3>1
  <2>11. i \in Places(t) BY <1>1 DEF Places
  <2>12. OneKid(t, s, L, i, 1) BY <2>5, <2>6, <2>7, <2>10, <2>11 DEF OneKid
  <2> QED BY <2>12
<1>4. CASE L = 0 /\ DOMAIN s = {0} /\ s[0].key \in Keys /\ s[0].next = -1 /\ s[0].neig = -1
  <2>1. DOMAIN t = {} /\ Places(t) = {-1} BY <1>1, <1>4 DEF Places
  <2>2. Kids(t, -1) = <<>> BY <2>1 DEF Kids, Roots
  <2>3. IsArray(s, 1) /\ Placed(s, 1) BY <1>4, FirstPlaced
  <2>4. PICK lo, hi : Ordered(s, 1, lo, hi) BY <2>3 DEF Placed
  <2>5. 1 \in Nat BY SMT
  <2>6. Chain(s, -1) = <<>> /\ \A j \in DOMAIN s : Chain(s, j) = <<j>> \o Chain(s, s[j].neig)
    BY <2>3, <2>4, <2>5, ChainIs
  <2>7. Chain(s, 0) = <<0>>
    <3>1. Chain(s, 0) = <<0>> \o <<>> BY <1>4, <2>6
    <3> QED BY <3>1
  <2>8. Kids(s, -1) = <<0>> BY <1>4, <2>7 DEF Kids, Roots
  <2>9. Kids(s, 0) = <<>>
    <3>1. 0 # -1 BY SMT
    <3> QED BY <1>4, <2>6, <3>1 DEF Kids
  <2>10. Inserted(<<>>, <<0>>, 1, 0) BY SMT DEF Inserted
  <2>11. OneKid(t, s, 0, -1, 1) BY <2>1, <2>2, <2>8, <2>9, <2>10 DEF OneKid
  <2> QED BY <1>4, <2>11
<1> QED BY <1>2, <1>3, <1>4 DEF Built

(* The subnodes of q after a step: those before it, but for the new one.    *)
LEMMA TogetherKept ==
    ASSUME NEW t, NEW L \in Nat, IsArray(t, L), Placed(t, L), Together(t),
           NEW s, IsArray(s, L + 1), NEW p, NEW k, OneKid(t, s, L, p, k)
    PROVE  Together(s)
<1>1. DOMAIN t = 0 .. L - 1 /\ DOMAIN s = 0 .. L /\ -1 \notin DOMAIN t /\ L \notin DOMAIN t
  <2>1. L + 1 - 1 = L BY SMT
  <2> QED BY <2>1 DEF IsArray
<1>2. p \in Places(t) /\ L \notin Places(t) /\ Places(s) = Places(t) \cup {L} /\ p # L
  BY <1>1 DEF OneKid, Places
<1>3. PICK u, v : u = Kids(t, p) /\ v = Kids(s, p) OBVIOUS
<1>4. u \in Seq(DOMAIN t) /\ \A q \in Places(t) : Kids(t, q) \in Seq(DOMAIN t)
  <2>1. PICK lo, hi : Ordered(t, L, lo, hi) BY DEF Placed
  <2> QED BY <1>2, <1>3, <2>1, KidsAre
<1>5. PICK l \in Nat : l = Len(u) BY <1>4
<1>6. /\ k \in 1 .. l + 1 /\ Len(v) = l + 1
      /\ \A m \in 1 .. l + 1 : v[m] = IF m < k THEN u[m] ELSE IF m = k THEN L ELSE u[m - 1]
  BY <1>3, <1>5 DEF OneKid, Inserted
(* Where a subnode of q was.                                                *)
<1> DEFINE Was(m) == IF m < k THEN m ELSE m - 1
<1>7. ASSUME NEW m \in 1 .. l + 1, m # k
      PROVE  Was(m) \in 1 .. l /\ v[m] = u[Was(m)] /\ v[m] \in DOMAIN t
  <2>1. CASE m < k
    <3>1. m \in 1 .. l BY <1>6, <2>1
    <3> QED BY <1>4, <1>5, <1>6, <2>1, <3>1
  <2>2. CASE ~(m < k)
    <3>1. m - 1 \in 1 .. l BY <1>6, <1>7, <2>2
    <3>2. v[m] = u[m - 1] BY <1>6, <1>7, <2>2
    <3> QED BY <1>4, <1>5, <2>2, <3>1, <3>2
  <2> QED BY <2>1, <2>2
<1>8. v[k] = L BY <1>6
<1>9. /\ \A q \in Places(t) \ {p} : Kids(s, q) = Kids(t, q)
      /\ Kids(s, L) = <<>> /\ Len(<<>>) = 0
  BY DEF OneKid
<1>10. ASSUME NEW j \in DOMAIN s PROVE \E q \in Places(s) : \E m \in 1 .. Len(Kids(s, q)) : Kids(s, q)[m] = j
  <2>1. CASE j = L
    <3>1. p \in Places(s) /\ k \in 1 .. Len(Kids(s, p)) /\ Kids(s, p)[k] = j BY <1>2, <1>3, <1>6, <1>8, <2>1
    <3> QED BY <3>1
  <2>2. CASE j # L
    <3>1. j \in DOMAIN t BY <1>1, <2>2
    <3>2. PICK q \in Places(t) : \E m \in 1 .. Len(Kids(t, q)) : Kids(t, q)[m] = j BY <3>1 DEF Together
    <3>3. PICK m \in 1 .. Len(Kids(t, q)) : Kids(t, q)[m] = j BY <3>2
    <3>4. CASE q # p BY <1>2, <1>9, <3>3, <3>4
    <3>5. CASE q = p
      <4>1. m \in 1 .. l /\ u[m] = j BY <1>3, <1>5, <3>3, <3>5
      <4>2. CASE m < k
        <5>1. m \in 1 .. l + 1 /\ v[m] = j BY <1>6, <4>1, <4>2
        <5>2. p \in Places(s) /\ m \in 1 .. Len(Kids(s, p)) /\ Kids(s, p)[m] = j BY <1>2, <1>3, <1>6, <5>1
        <5> QED BY <5>2
      <4>3. CASE ~(m < k)
        <5>1. m + 1 \in 1 .. l + 1 /\ ~(m + 1 < k) /\ m + 1 # k /\ m + 1 - 1 = m BY <1>6, <4>1, <4>3
        <5>2. v[m + 1] = j BY <1>6, <4>1, <5>1
        <5>3. p \in Places(s) /\ m + 1 \in 1 .. Len(Kids(s, p)) /\ Kids(s, p)[m + 1] = j BY <1>2, <1>3, <1>6, <5>1, <5>2
        <5> QED BY <5>3
      <4> QED BY <4>2, <4>3
    <3> QED BY <3>4, <3>5
  <2> QED BY <2>1, <2>2
<1>11. \A q, r \in Places(t) : \A m \in 1 .. Len(Kids(t, q)), n \in 1 .. Len(Kids(t, r)) :
          Kids(t, q)[m] = Kids(t, r)[n] => q = r /\ m = n
  BY DEF Together
<1>12. ASSUME NEW q \in Places(s), NEW r \in Places(s),
              NEW m \in 1 .. Len(Kids(s, q)), NEW n \in 1 .. Len(Kids(s, r)), Kids(s, q)[m] = Kids(s, r)[n]
       PROVE  q = r /\ m = n
  <2>1. q # L /\ r # L
    <3>1. 1 .. 0 = {} BY SMT
    <3> QED BY <1>9, <3>1
  <2>2. q \in Places(t) /\ r \in Places(t) BY <1>2, <2>1
  <2>3. CASE q # p /\ r # p BY <1>9, <1>11, <1>12, <2>2, <2>3
  <2>4. CASE q = p /\ r # p
    <3>1. Kids(s, r) = Kids(t, r) BY <1>9, <2>2, <2>4
    <3>2. m \in 1 .. l + 1 /\ n \in 1 .. Len(Kids(t, r)) /\ v[m] = Kids(t, r)[n] BY <1>3, <1>6, <1>12, <2>4, <3>1
    <3>3. Kids(t, r)[n] \in DOMAIN t BY <1>4, <2>2, <3>2
    <3>4. m # k BY <1>1, <1>8, <3>2, <3>3
    <3>5. PICK w \in 1 .. l : w = Was(m) /\ v[m] = u[w] BY <1>7, <3>2, <3>4
    <3>6. w \in 1 .. Len(Kids(t, p)) /\ Kids(t, p)[w] = Kids(t, r)[n] BY <1>3, <1>5, <3>2, <3>5
    <3> QED BY <1>2, <1>11, <2>2, <2>4, <3>2, <3>6
  <2>5. CASE q # p /\ r = p
    <3>1. Kids(s, q) = Kids(t, q) BY <1>9, <2>2, <2>5
    <3>2. n \in 1 .. l + 1 /\ m \in 1 .. Len(Kids(t, q)) /\ v[n] = Kids(t, q)[m] BY <1>3, <1>6, <1>12, <2>5, <3>1
    <3>3. Kids(t, q)[m] \in DOMAIN t BY <1>4, <2>2, <3>2
    <3>4. n # k BY <1>1, <1>8, <3>2, <3>3
    <3>5. PICK w \in 1 .. l : w = Was(n) /\ v[n] = u[w] BY <1>7, <3>2, <3>4
    <3>6. w \in 1 .. Len(Kids(t, p)) /\ Kids(t, p)[w] = Kids(t, q)[m] BY <1>3, <1>5, <3>2, <3>5
    <3> QED BY <1>2, <1>11, <2>2, <2>5, <3>2, <3>6
  <2>6. CASE q = p /\ r = p
    <3>1. m \in 1 .. l + 1 /\ n \in 1 .. l + 1 /\ v[m] = v[n] BY <1>3, <1>6, <1>12, <2>6
    <3>2. CASE m = k
      <4>1. n = k BY <1>1, <1>7, <1>8, <3>1, <3>2
      <4> QED BY <2>6, <3>2, <4>1
    <3>3. CASE m # k
      <4>1. n # k BY <1>1, <1>7, <1>8, <3>1, <3>3
      <4>2. /\ Was(m) \in 1 .. Len(Kids(t, p)) /\ Was(n) \in 1 .. Len(Kids(t, p))
            /\ Kids(t, p)[Was(m)] = Kids(t, p)[Was(n)]
        <5>1. Was(m) \in 1 .. l /\ v[m] = u[Was(m)] BY <1>7, <3>1, <3>3
        <5>2. Was(n) \in 1 .. l /\ v[n] = u[Was(n)] BY <1>7, <3>1, <4>1
        <5> QED BY <1>3, <1>5, <3>1, <5>1, <5>2
      <4>3. Was(m) = Was(n)
        <5> HIDE DEF Was
        <5> QED BY <1>2, <1>11, <4>2
      <4> QED BY <1>6, <2>6, <3>1, <3>3, <4>1, <4>3
    <3> QED BY <3>2, <3>3
  <2> QED BY <2>3, <2>4, <2>5, <2>6
<1> QED BY <1>10, <1>12 DEF Together

(* The step of Promise from the subnodes kd to the subnodes ks.             *)
PlaceOf(kd, ks, n, p, k) ==
    ks = [m \in DOMAIN kd \cup {n} |->
            CASE m = n -> <<>> [] m = p -> Promise!InsertAt(kd[p], k, n) [] OTHER -> kd[m]]
NextOf(kd, ks) ==
    LET n == Cardinality(DOMAIN kd \ {-1}) IN
    \/ DOMAIN kd \ {-1} = {} /\ PlaceOf(kd, ks, n, -1, 1)
    \/ \E i \in DOMAIN kd \ {-1} :
         \/ \E p \in DOMAIN kd : \E k \in 1 .. Len(kd[p]) : kd[p][k] = i /\ PlaceOf(kd, ks, n, p, k + 1)
         \/ \E k \in 1 .. Len(kd[i]) + 1 : PlaceOf(kd, ks, n, i, k)

(* One more node among the subnodes of a place is a step of the promise.    *)
LEMMA OneKidPromised ==
    ASSUME NEW t, NEW L \in Nat, IsArray(t, L), Placed(t, L),
           NEW s, IsArray(s, L + 1), Placed(s, L + 1), NEW p, NEW k, OneKid(t, s, L, p, k)
    PROVE  NextOf(AllKids(t), AllKids(s))
<1>1. DOMAIN t = 0 .. L - 1 /\ DOMAIN s = 0 .. L /\ -1 \notin DOMAIN t /\ L \notin DOMAIN t
  <2>1. L + 1 - 1 = L BY SMT
  <2> QED BY <2>1 DEF IsArray
<1>2. p \in Places(t) /\ L \notin Places(t) /\ Places(s) = Places(t) \cup {L} /\ p # L
  BY <1>1 DEF OneKid, Places
<1>3. PICK kd, ks : kd = AllKids(t) /\ ks = AllKids(s) OBVIOUS
<1>4. /\ DOMAIN kd = Places(t) /\ DOMAIN ks = Places(t) \cup {L}
      /\ \A q \in Places(t) : kd[q] = Kids(t, q)
      /\ \A q \in Places(s) : ks[q] = Kids(s, q)
      /\ ks = [q \in Places(s) |-> Kids(s, q)]
  BY <1>2, <1>3 DEF AllKids, Places
<1>5. \A q \in Places(t) : Kids(t, q) \in Seq(DOMAIN t)
  <2>1. PICK lo, hi : Ordered(t, L, lo, hi) BY DEF Placed
  <2> QED BY <2>1, KidsAre
<1>6. \A q \in Places(s) : Kids(s, q) \in Seq(DOMAIN s)
  <2>1. PICK lo, hi : Ordered(s, L + 1, lo, hi) BY DEF Placed
  <2>2. L + 1 \in Nat BY SMT
  <2> QED BY <2>1, <2>2, KidsAre
<1>7. Kids(s, p) = Promise!InsertAt(Kids(t, p), k, L)
  <2>1. Inserted(Kids(t, p), Kids(s, p), k, L) BY DEF OneKid
  <2>2. Kids(t, p) \in Seq(DOMAIN t) /\ Kids(s, p) \in Seq(DOMAIN s) BY <1>2, <1>5, <1>6
  <2> QED BY <2>1, <2>2, InsertedIs
<1>8. PlaceOf(kd, ks, L, p, k)
  <2>1. ASSUME NEW m \in Places(s)
        PROVE  Kids(s, m) = CASE m = L -> <<>> [] m = p -> Promise!InsertAt(kd[p], k, L) [] OTHER -> kd[m]
    <3>1. CASE m = L BY <1>2, <3>1 DEF OneKid
    <3>2. CASE m = p BY <1>2, <1>4, <1>7, <3>2
    <3>3. CASE m # L /\ m # p
      <4>1. m \in Places(t) \ {p} BY <1>2, <3>3
      <4> QED BY <1>4, <3>3, <4>1 DEF OneKid
    <3> QED BY <3>1, <3>2, <3>3
  <2> QED BY <1>2, <1>4, <2>1 DEF PlaceOf
<1>9. DOMAIN kd \ {-1} = DOMAIN t /\ Cardinality(DOMAIN t) = L
  BY <1>1, <1>4, CountIs DEF Places
<1>10. k \in 1 .. Len(kd[p]) + 1 BY <1>2, <1>4 DEF OneKid, Inserted
<1>11. CASE L = 0
  <2>1. DOMAIN t = {} /\ Places(t) = {-1} BY <1>1, <1>11 DEF Places
  <2>2. p = -1 BY <1>2, <2>1
  <2>3. kd[-1] = <<>> BY <1>2, <1>4, <2>1, <2>2 DEF Kids, Roots
  <2>4. k = 1 BY <1>10, <2>2, <2>3
  <2>5. DOMAIN kd \ {-1} = {} /\ PlaceOf(kd, ks, L, -1, 1) BY <1>8, <1>9, <2>1, <2>2, <2>4
  <2> QED BY <1>3, <1>9, <2>5 DEF NextOf
<1>12. CASE L # 0 /\ k > 1
  <2>1. PICK l \in Nat : l = Len(kd[p]) BY <1>2, <1>4, <1>5
  <2>2. PICK m \in 1 .. l : k = m + 1
    <3>1. k - 1 \in 1 .. l /\ k = (k - 1) + 1 BY <1>10, <1>12, <2>1
    <3> QED BY <3>1
  <2>3. kd[p][m] \in DOMAIN t BY <1>2, <1>4, <1>5, <2>1, <2>2
  <2>4. PlaceOf(kd, ks, L, p, m + 1) /\ m \in 1 .. Len(kd[p]) /\ p \in DOMAIN kd BY <1>2, <1>4, <1>8, <2>1, <2>2
  <2> QED BY <1>3, <1>9, <2>3, <2>4 DEF NextOf
<1>13. CASE L # 0 /\ p # -1
  <2>1. p \in DOMAIN t BY <1>2, <1>13 DEF Places
  <2> QED BY <1>3, <1>8, <1>9, <1>10, <2>1 DEF NextOf
<1> QED BY <1>11, <1>12, <1>13 DEF OneKid

OneTogether == Together(nodes[One])

(* One is a context.                                                        *)
LEMMA OneIs == One \in Contexts
BY ContextAssumption DEF One

(* Every step of building is a step of the promise, or one of another       *)
(* context.                                                                 *)
LEMMA StepPromised ==
    ASSUME TreeInv, OneTogether, TreeNext
    PROVE  Together(nodes'[One]) /\ (NextOf(AllKids(nodes[One]), AllKids(nodes'[One])) \/ nodes'[One] = nodes[One])
<1>1. PICK c \in Contexts, k \in Keys : Building(c, k) BY DEF TreeNext
<1>2. PICK L \in 0 .. Size[c] : IsArray(nodes[c], L) /\ Placed(nodes[c], L) /\ \A j \in 0 .. L - 1 : nodes[c][j] \in Node
  BY DEF TreeInv, Shaped
<1>3. L \in Nat BY ContextAssumption
<1>4. Built(nodes[c], L, nodes'[c]) /\ \A d \in Contexts \ {c} : nodes'[d] = nodes[d]
  BY <1>1, <1>2, <1>3, BuildingIs DEF TreeInv
<1>5. CASE One # c
  <2>1. nodes'[One] = nodes[One] BY <1>4, <1>5, OneIs
  <2> QED BY <2>1 DEF OneTogether
<1>6. CASE One = c
  <2>1. PICK t, s : t = nodes[c] /\ s = nodes'[c] OBVIOUS
  <2>2. Together(t) /\ Built(t, L, s) /\ IsArray(t, L) /\ Placed(t, L) BY <1>2, <1>4, <1>6, <2>1 DEF OneTogether
  <2>3. PICK p, n : OneKid(t, s, L, p, n) BY <1>3, <2>2, BuiltKids
  <2>4. IsArray(s, L + 1) /\ Placed(s, L + 1) BY <1>3, <2>2, BuiltPlaced
  <2>5. Together(s) BY <1>3, <2>2, <2>3, <2>4, TogetherKept
  <2>6. NextOf(AllKids(t), AllKids(s)) BY <1>3, <2>2, <2>3, <2>4, OneKidPromised
  <2> QED BY <1>6, <2>1, <2>5, <2>6
<1> QED BY <1>5, <1>6

(* Building as the callers do implements the growing of an ordered tree: no *)
(* node that was added earlier changes its parent or its order              *)
(* (abi_insert_node, abi_append_node, abi_append_subnode).                  *)
THEOREM BuildingGrows == TreeSpec => GrowsATree
<1>1. TreeInit => OneTogether /\ Promise!TreeInit
  <2> SUFFICES ASSUME TreeInit PROVE OneTogether /\ Promise!TreeInit
    OBVIOUS
  <2>1. PICK t : t = nodes[One] OBVIOUS
  <2>2. DOMAIN t = {} BY <2>1, OneIs DEF TreeInit
  <2>3. Kids(t, -1) = <<>> BY <2>2 DEF Kids, Roots
  <2>4. Together(t)
    <3>1. Places(t) = {-1} /\ 1 .. Len(<<>>) = {} BY <2>2 DEF Places
    <3> QED BY <2>2, <2>3, <3>1 DEF Together
  <2>5. AllKids(t) = [m \in {-1} |-> <<>>]
    <3>1. DOMAIN t \cup {-1} = {-1} BY <2>2
    <3> QED BY <2>3, <3>1 DEF AllKids
  <2>6. Promise!TreeInit BY <2>1, <2>5 DEF Promise!TreeInit, Promise!Packet
  <2> QED BY <2>1, <2>4, <2>6 DEF OneTogether
<1>2. TreeInv /\ OneTogether /\ [TreeNext]_nodes
        => OneTogether' /\ [Promise!TreeNext]_(AllKids(nodes[One]))
  <2> SUFFICES ASSUME TreeInv, OneTogether, [TreeNext]_nodes
               PROVE  OneTogether' /\ [Promise!TreeNext]_(AllKids(nodes[One]))
    OBVIOUS
  <2>1. Together(nodes'[One]) /\ (NextOf(AllKids(nodes[One]), AllKids(nodes'[One])) \/ nodes'[One] = nodes[One])
    <3>1. CASE TreeNext BY <3>1, StepPromised
    <3>2. CASE UNCHANGED nodes BY <3>2 DEF OneTogether
    <3> QED BY <3>1, <3>2
  <2>2. OneTogether' BY <2>1, Zenon DEF OneTogether, Together, Places, Kids, Roots, Chain
  <2>3. AllKids(nodes[One])' = AllKids(nodes'[One]) BY DEF AllKids, Kids, Roots, Chain
  <2>4. ASSUME NextOf(AllKids(nodes[One]), AllKids(nodes[One])') PROVE Promise!TreeNext
    <3>1. PICK kd : kd = AllKids(nodes[One]) OBVIOUS
    <3>2. PICK ks : ks = AllKids(nodes[One])' OBVIOUS
    <3>3. PICK n : n = Cardinality(DOMAIN kd \ {-1}) OBVIOUS
    <3>0. n = Promise!Cardinality(DOMAIN kd \ {-1})
      BY <3>3, Zenon DEF Cardinality, Promise!Cardinality, IsFiniteSet, Promise!IsFiniteSet
    <3>4. ASSUME NEW p, NEW k, PlaceOf(kd, ks, n, p, k) PROVE Promise!Place(n, p, k)
      BY <3>1, <3>2, <3>4, Zenon DEF PlaceOf, Promise!Place
    <3>5. NextOf(kd, ks) BY <3>1, <3>2, <2>4
    <3>6. CASE DOMAIN kd \ {-1} = {} /\ PlaceOf(kd, ks, n, -1, 1)
      <4>1. Promise!AddFirst(n) BY <3>1, <3>4, <3>6, Zenon DEF Promise!AddFirst, Promise!Nodes, Promise!Packet
      <4> QED BY <3>0, <3>1, <4>1, Zenon DEF Promise!TreeNext, Promise!Nodes, Promise!Packet
    <3>7. CASE \E i \in DOMAIN kd \ {-1} : \E p \in DOMAIN kd : \E k \in 1 .. Len(kd[p]) :
                 kd[p][k] = i /\ PlaceOf(kd, ks, n, p, k + 1)
      <4>1. PICK i \in DOMAIN kd \ {-1} : \E p \in DOMAIN kd : \E k \in 1 .. Len(kd[p]) :
                 kd[p][k] = i /\ PlaceOf(kd, ks, n, p, k + 1)
        BY <3>7
      <4>2. Promise!AddAfter(n, i) BY <3>1, <3>4, <4>1, Zenon DEF Promise!AddAfter
      <4> QED BY <3>0, <3>1, <4>1, <4>2, Zenon DEF Promise!TreeNext, Promise!Nodes, Promise!Packet
    <3>8. CASE \E i \in DOMAIN kd \ {-1} : \E k \in 1 .. Len(kd[i]) + 1 : PlaceOf(kd, ks, n, i, k)
      <4>1. PICK i \in DOMAIN kd \ {-1} : \E k \in 1 .. Len(kd[i]) + 1 : PlaceOf(kd, ks, n, i, k)
        BY <3>8
      <4>2. Promise!AddInto(n, i) BY <3>1, <3>4, <4>1, Zenon DEF Promise!AddInto
      <4> QED BY <3>0, <3>1, <4>1, <4>2, Zenon DEF Promise!TreeNext, Promise!Nodes, Promise!Packet
    <3> QED BY <3>3, <3>5, <3>6, <3>7, <3>8, Zenon DEF NextOf
  <2>5. nodes'[One] = nodes[One] => AllKids(nodes[One])' = AllKids(nodes[One]) BY <2>3, Zenon
  <2> QED BY <2>1, <2>2, <2>3, <2>4, <2>5
<1> QED BY <1>1, <1>2, TreeShaped, PTL DEF TreeSpec, GrowsATree, Promise!TreeSpec

-----------------------------------------------------------------------------
(* The key search *)

(* All keys are read in one part; the program's keys have at most 23 bytes. *)
Short == \A k \in KeySet : Len(k.parts) <= 1

(* The nodes whose key has the received size.                               *)
Sized == {n \in Nodes : key[n].size = want.size}

(* j follows i among the sized nodes.                                       *)
Succeeds(i, j) ==
    /\ j = 0 => \A n \in Sized : n <= i
    /\ j # 0 => j \in Sized /\ i < j /\ \A n \in Sized : n <= i \/ j <= n

(* The nodes passed before idx.                                             *)
Before(n) == idx = 0 \/ n < idx

Linking ==
    /\ head = 0 => prev = 0 /\ \A n \in Sized : ~Before(n)
    /\ head # 0 =>
        /\ head \in Sized /\ prev \in Sized /\ Before(prev)
        /\ \A n \in Sized : Before(n) => head <= n /\ n <= prev
        /\ \A n \in Sized : Before(n) /\ n # prev => Succeeds(n, match[n])

First(h) ==
    /\ h # 0 => h \in Sized
    /\ \A n \in Sized : h # 0 /\ h <= n

Linked(h) == \A n \in Sized : h # 0 /\ h <= n => Succeeds(n, match[n])

Answer == (head # 0 => key[head] = want) /\ \A n \in Nodes : key[n] = want => head # 0 /\ head <= n

Scanning ==
    \/ /\ idx = head
       /\ idx # 0 => idx \in Sized
       /\ Linked(idx)
       /\ \A n \in Nodes : key[n] = want => idx # 0 /\ idx <= n
    \/ head # 0 /\ Answer

SearchInv ==
    /\ TypeOK
    /\ pc = "link" => part = 0 /\ Linking
    /\ pc = "next" /\ part = 0 => First(head) /\ Linked(head)
    /\ pc = "scan" => part = 1 /\ Len(want.parts) = 1 /\ Scanning
    /\ pc = "next" /\ part # 0 => part = 1 /\ Answer
    /\ pc = "found" => Answer

-----------------------------------------------------------------------------

(* Two keys of one size and at most one part are equal when that part is.   *)
LEMMA SameKey ==
    ASSUME Short, NEW k \in KeySet, NEW l \in KeySet, k.size = l.size,
           Len(k.parts) = 1 => k.parts[1] = l.parts[1]
    PROVE  k = l
<1>1. k \in [size : Nat, parts : Seq(Parts)] /\ l \in [size : Nat, parts : Seq(Parts)]
  BY PartsAssumption
<1>2. Len(k.parts) = Len(l.parts) /\ Len(k.parts) <= 1 /\ Len(k.parts) \in Nat
  BY PartsAssumption, <1>1 DEF Short
<1>3. k.parts = l.parts
  <2>0. Len(k.parts) = 0 \/ Len(k.parts) = 1
    <3>1. \A m \in Nat : m <= 1 => m = 0 \/ m = 1
      OBVIOUS
    <3> QED BY <1>2, <3>1, Zenon
  <2>1. CASE Len(k.parts) = 0
    BY <2>1, <1>1, <1>2
  <2>2. CASE Len(k.parts) = 1
    BY <2>2, <1>1, <1>2
  <2> QED BY <2>0, <2>1, <2>2
<1> QED BY <1>1, <1>3

(* The search begins with the list as it was left.                          *)
LEMMA SearchStarts == MatchInit => SearchInv
<1> SUFFICES ASSUME MatchInit PROVE SearchInv
  OBVIOUS
<1> USE NAssumption
<1>1. TypeOK
  <2>1. want.parts \in Seq(Parts)
    BY PartsAssumption DEF MatchInit
  <2>2. idx \in Links /\ prev \in Links /\ head \in Links
    BY DEF MatchInit, Links
  <2>3. match \in [Nodes -> Links]
    BY DEF MatchInit
  <2> QED BY <2>1, <2>2, <2>3 DEF TypeOK, MatchInit
<1>2. \A n \in Sized : ~Before(n)
  BY DEF MatchInit, Sized, Nodes, Before
<1> QED BY <1>1, <1>2 DEF SearchInv, Linking, MatchInit

(* Every step of the search keeps what the list is at its stage.            *)
LEMMA SearchStep == Short /\ SearchInv /\ [MatchNext]_matchVars => SearchInv'
<1> SUFFICES ASSUME Short, SearchInv, [MatchNext]_matchVars PROVE SearchInv'
  OBVIOUS
<1> USE NAssumption
<1> DEFINE W == Len(want.parts)
<1>t. /\ TypeOK /\ want.parts \in Seq(Parts) /\ W \in Nat /\ W <= 1
      /\ \A n \in Nodes : key[n] \in KeySet
  BY PartsAssumption DEF SearchInv, TypeOK, Short
<1>s. ASSUME UNCHANGED <<key, want>>
      PROVE  Sized' = Sized /\ UNCHANGED W
  BY <1>s DEF Sized
<1>n. /\ Nodes \subseteq Links /\ 0 \in Links /\ Links \subseteq Nat
      /\ \A i \in Links : i = 0 \/ i \in Nodes
      /\ \A i \in Nodes : After(i) \in Links /\ i # 0
      /\ Sized \subseteq Nodes
  BY DEF Nodes, Links, After, Sized
(* Passing a node puts it among those before idx.                           *)
<1>b. ASSUME idx \in Nodes, idx' = After(idx)
      PROVE  \A n \in Nodes : Before(n)' <=> Before(n) \/ n = idx
  BY <1>b DEF Nodes, Before, After
<1>1. CASE LinkNode
  <2> USE <1>1 DEF LinkNode
  <2>1. idx \in Nodes /\ idx \in Sized /\ Linking /\ part = 0 /\ pc' = "link" /\ part' = 0
    BY <1>t, <1>n DEF SearchInv, TypeOK, Sized
  <2>2. TypeOK'
    BY <1>t, <1>n, <2>1 DEF TypeOK
  <2>3. ~Before(idx) /\ prev' = idx
    BY <2>1 DEF Before, Nodes
  <2>4. Sized' = Sized /\ \A n \in Sized : Before(n)' <=> Before(n) \/ n = idx
    BY <1>s, <1>b, <1>n, <2>1
  <2>5. CASE head = 0
    BY <2>1, <2>2, <2>3, <2>4, <2>5 DEF SearchInv, Linking, Nodes, Links
  <2>6. CASE head # 0
    <3>1. /\ prev # 0 /\ prev \in Sized /\ head \in Sized /\ Before(prev) /\ prev \in Nodes
          /\ match' = [match EXCEPT ![prev] = idx] /\ head' = head
      BY <2>1, <2>6, <1>n DEF Linking
    <3>2. \A n \in Sized : Before(n) => head <= n /\ n <= prev
      BY <2>1, <2>6 DEF Linking
    <3>3. prev < idx /\ head <= idx
      BY <2>1, <3>1, <3>2 DEF Before, Nodes, Sized
    <3>4. Succeeds(prev, idx)
      BY <2>1, <3>2, <3>3 DEF Succeeds, Before, Nodes, Sized
    <3>5. ASSUME NEW n \in Sized, Before(n)', n # prev'
          PROVE  Succeeds(n, match'[n])
      <4>1. Before(n) /\ n \in Nodes
        BY <3>5, <2>3, <2>4, <1>n
      <4>2. CASE n = prev
        BY <4>2, <3>1, <3>4, <1>t DEF TypeOK
      <4>3. CASE n # prev
        BY <4>1, <4>3, <3>1, <2>1, <2>6, <1>t DEF TypeOK, Linking
      <4> QED BY <4>2, <4>3
    <3>6. Succeeds(1, 1)' = Succeeds(1, 1) /\ \A n, j : Succeeds(n, j)' <=> Succeeds(n, j)
      BY <2>4 DEF Succeeds
    <3>7. Linking'
      BY <2>1, <2>3, <2>4, <3>1, <3>2, <3>3, <3>5, <3>6 DEF Linking, Nodes, Sized
    <3> QED BY <2>1, <2>2, <3>7 DEF SearchInv
  <2> QED BY <2>5, <2>6
<1>2. CASE PassNode
  <2> USE <1>2 DEF PassNode
  <2>1. idx \in Nodes /\ idx \notin Sized /\ Linking /\ part = 0 /\ pc' = "link" /\ part' = 0
    BY <1>t, <1>n DEF SearchInv, TypeOK, Sized
  <2>2. TypeOK'
    BY <1>t, <1>n, <2>1 DEF TypeOK
  <2>3. Sized' = Sized /\ \A n \in Sized : Before(n)' <=> Before(n)
    BY <1>s, <1>b, <1>n, <2>1
  <2>4. Linking'
    BY <2>1, <2>3 DEF Linking, Succeeds
  <2> QED BY <2>1, <2>2, <2>4 DEF SearchInv
<1>f. \A n, j : UNCHANGED <<key, want>> => (Succeeds(n, j)' <=> Succeeds(n, j))
  BY <1>s DEF Succeeds
<1>a. UNCHANGED <<key, want, head>> => (Answer' <=> Answer)
  BY DEF Answer
(* A node with the received key is one of the received size.                *)
<1>k. /\ \A n \in Nodes : key[n] = want => n \in Sized
      /\ \A n \in Sized : (W = 1 => key[n].parts[1] = want.parts[1]) => key[n] = want
  <2>1. \A n \in Nodes : key[n] = want => n \in Sized
    BY DEF Sized
  <2>2. ASSUME NEW n \in Sized, W = 1 => key[n].parts[1] = want.parts[1]
        PROVE  key[n] = want
    <3>1. key[n] \in KeySet /\ want \in KeySet /\ key[n].size = want.size
      BY <1>t, <1>n DEF Sized, TypeOK
    <3>2. Len(key[n].parts) = W
      BY <3>1, PartsAssumption
    <3> QED BY <2>2, <3>1, <3>2, SameKey
  <2> QED BY <2>1, <2>2
<1>3. CASE LinkDone
  <2> USE <1>3 DEF LinkDone
  <2>1. Linking /\ part = 0 /\ idx = 0 /\ pc' = "next" /\ part' = 0 /\ Sized' = Sized
    BY <1>s DEF SearchInv
  <2>2. TypeOK'
    BY <1>t, <1>n DEF TypeOK
  <2>3. CASE head = 0
    <3>1. Sized = {}
      BY <2>1, <2>3 DEF Linking, Before
    <3> QED BY <2>1, <2>2, <2>3, <3>1 DEF SearchInv, First, Linked
  <2>4. CASE head # 0
    <3>1. head \in Sized /\ prev \in Sized /\ prev \in Nodes
      BY <2>1, <2>4, <1>n DEF Linking
    <3>2. \A n \in Sized : head <= n /\ n <= prev /\ (n # prev => Succeeds(n, match[n]))
      BY <2>1, <2>4 DEF Linking, Before
    <3>3. Succeeds(prev, 0)
      BY <3>2 DEF Succeeds
    <3>4. \A n \in Sized : Succeeds(n, match'[n])
      BY <2>4, <3>1, <3>2, <3>3, <1>t, <1>n DEF TypeOK
    <3>5. First(head)' /\ Linked(head)'
      BY <2>1, <2>4, <3>1, <3>2, <3>4, <1>f DEF First, Linked
    <3> QED BY <2>1, <2>2, <3>5 DEF SearchInv
  <2> QED BY <2>3, <2>4
<1>4. CASE ReadPart
  <2> USE <1>4 DEF ReadPart
  <2>1. part = 0 /\ W = 1 /\ part' = 1 /\ W' = 1 /\ Sized' = Sized
    <3>1. part \in Nat /\ part < W
      BY <1>t DEF TypeOK
    <3>2. part = 0 /\ W = 1
      <4>1. \A p, w \in Nat : w <= 1 /\ p < w => p = 0 /\ w = 1
        OBVIOUS
      <4> QED BY <1>t, <3>1, <4>1, Zenon
    <3> QED BY <3>2, <1>s
  <2>2. TypeOK'
    BY <1>t, <2>1 DEF TypeOK
  <2>3. First(head) /\ Linked(head) /\ idx' = head /\ head # 0 /\ pc' = "scan"
    BY <2>1 DEF SearchInv
  <2>4. Scanning'
    BY <2>1, <2>3, <1>f, <1>k DEF Scanning, First, Linked
  <2> QED BY <2>1, <2>2, <2>3, <2>4 DEF SearchInv
<1>5. CASE KeepNode
  <2> USE <1>5 DEF KeepNode
  <2>1. part = 1 /\ W = 1 /\ Scanning /\ idx \in Nodes /\ pc' = "scan" /\ part' = 1 /\ W' = 1
    BY <1>t, <1>n, <1>s DEF SearchInv, TypeOK
  <2>2. TypeOK'
    BY <1>t, <1>n, <2>1 DEF TypeOK
  <2>3. head # 0 /\ Answer
    <3>1. CASE idx = head /\ idx \in Sized /\ \A n \in Nodes : key[n] = want => idx # 0 /\ idx <= n
      BY <3>1, <1>k, <2>1 DEF Answer
    <3> QED BY <3>1, <2>1 DEF Scanning
  <2>4. Scanning'
    BY <2>3, <1>a DEF Scanning
  <2> QED BY <2>1, <2>2, <2>4 DEF SearchInv
<1>6. CASE DropNode
  <2> USE <1>6 DEF DropNode
  <2>1. part = 1 /\ W = 1 /\ Scanning /\ idx \in Nodes /\ pc' = "scan" /\ part' = 1 /\ W' = 1 /\ Sized' = Sized
    BY <1>t, <1>n, <1>s DEF SearchInv, TypeOK
  <2>2. TypeOK'
    BY <1>t, <1>n, <2>1 DEF TypeOK
  <2>3. key[idx] # want
    BY <2>1
  <2>4. CASE idx # head
    BY <2>1, <2>2, <2>4, <1>a DEF Scanning, SearchInv
  <2>5. CASE idx = head
    <3>1. head' = match[idx] /\ idx' = match[idx] /\ match' = match
      BY <2>5
    <3>2. /\ idx \in Sized /\ Linked(idx)
          /\ \A n \in Nodes : key[n] = want => idx <= n
      BY <2>1, <2>3, <2>5 DEF Scanning, Answer
    <3>3. Succeeds(idx, match[idx])
      BY <3>2, <2>1, <1>n DEF Linked, Nodes
    <3>4. match[idx] # 0 => match[idx] \in Sized /\ idx < match[idx]
      BY <3>3 DEF Succeeds
    <3>5. Linked(idx)'
      <4>1. ASSUME NEW n \in Sized, match[idx] # 0, match[idx] <= n
            PROVE  Succeeds(n, match[n])
        BY <4>1, <2>1, <3>2, <3>4, <1>n DEF Linked, Nodes
      <4>2. \A n \in Sized : Succeeds(n, match[n])' <=> Succeeds(n, match[n])
        BY <3>1, <1>f
      <4> QED BY <2>1, <3>1, <4>1, <4>2 DEF Linked
    <3>6. ASSUME NEW n \in Nodes, key[n] = want
          PROVE  match[idx] # 0 /\ match[idx] <= n
      <4>1. n \in Sized /\ idx <= n /\ n # idx
        BY <3>6, <3>2, <2>3, <1>k
      <4>2. ~(n <= idx)
        BY <4>1, <2>1 DEF Nodes
      <4> QED BY <4>1, <4>2, <3>3 DEF Succeeds
    <3>7. Scanning'
      <4>1. idx' = head' /\ (idx' # 0 => idx' \in Sized')
        BY <2>1, <3>1, <3>4
      <4>2. \A n \in Nodes : key'[n] = want' => idx' # 0 /\ idx' <= n
        BY <3>1, <3>6
      <4> QED BY <4>1, <4>2, <3>5 DEF Scanning
    <3> QED BY <2>1, <2>2, <3>7 DEF SearchInv
  <2> QED BY <2>4, <2>5
<1>7. CASE PartDone
  <2> USE <1>7 DEF PartDone
  <2>1. part = 1 /\ Scanning /\ idx = 0 /\ pc' = "next" /\ part' = 1
    BY DEF SearchInv
  <2>2. TypeOK'
    BY <1>t DEF TypeOK
  <2>3. Answer
    BY <2>1 DEF Scanning, Answer
  <2> QED BY <2>1, <2>2, <2>3, <1>a DEF SearchInv
<1>8. CASE Found
  <2> USE <1>8 DEF Found
  <2>1. TypeOK' /\ pc' = "found"
    BY <1>t DEF TypeOK
  <2>2. CASE part # 0
    BY <2>1, <2>2, <1>a DEF SearchInv
  <2>3. CASE part = 0
    <3>1. First(head)
      BY <2>3 DEF SearchInv
    <3>2. head # 0 => head \in Sized /\ W = 0
      BY <3>1, <2>3 DEF First
    <3>3. Answer
      BY <3>1, <3>2, <1>k DEF Answer, First
    <3> QED BY <2>1, <3>3, <1>a DEF SearchInv
  <2> QED BY <2>2, <2>3
<1>9. CASE UNCHANGED matchVars
  BY <1>9 DEF matchVars, SearchInv, TypeOK, Linking, First, Linked, Answer, Scanning, Succeeds, Sized, Before
<1> QED BY <1>1, <1>2, <1>3, <1>4, <1>5, <1>6, <1>7, <1>8, <1>9 DEF MatchNext

(* Whatever the branch and whatever links an earlier search left in it, the *)
(* key search of abir_process_node ends with the first node that has the    *)
(* received key (abir_scan_key_part).                                       *)
THEOREM ShortKeysFirst == Short => (MatchSpec => []FirstMatch)
<1> SUFFICES ASSUME Short PROVE MatchSpec => []FirstMatch
  OBVIOUS
<1>1. MatchInit => SearchInv
  BY SearchStarts
<1>2. SearchInv /\ [MatchNext]_matchVars => SearchInv'
  BY SearchStep
<1>3. SearchInv => FirstMatch
  BY DEF SearchInv, FirstMatch, Answer
<1> QED BY <1>1, <1>2, <1>3, PTL DEF MatchSpec
=============================================================================
