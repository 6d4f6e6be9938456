----------------------------- MODULE PacketTree -----------------------------
(***************************************************************************)
(* What building a packet promises: an ordered tree that only grows.  A new *)
(* node comes right after a given one, or into a given one; every earlier   *)
(* node keeps its parent, its order and its place in the packet.            *)
(***************************************************************************)
EXTENDS Integers, Sequences, FiniteSets, SequencesExt

VARIABLE kids       \* node or Packet -> its subnodes, in order

Packet == -1
Nodes == DOMAIN kids \ {Packet}

TreeInit == kids = [m \in {Packet} |-> <<>>]

(* The new node n among the subnodes of p, at place k.                      *)
Place(n, p, k) ==
    kids' = [m \in DOMAIN kids \cup {n} |->
        CASE m = n -> <<>>
          [] m = p -> InsertAt(kids[p], k, n)
          [] OTHER -> kids[m]]

AddFirst(n) == Nodes = {} /\ Place(n, Packet, 1)
AddAfter(n, i) ==
    \E p \in DOMAIN kids : \E k \in 1 .. Len(kids[p]) :
        kids[p][k] = i /\ Place(n, p, k + 1)
AddInto(n, i) == \E k \in 1 .. Len(kids[i]) + 1 : Place(n, i, k)

TreeNext ==
    LET n == Cardinality(Nodes) IN      \* nodes are named as they come
    AddFirst(n) \/ \E i \in Nodes : AddAfter(n, i) \/ AddInto(n, i)
TreeSpec == TreeInit /\ [][TreeNext]_kids
=============================================================================
