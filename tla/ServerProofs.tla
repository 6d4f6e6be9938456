---------------------------- MODULE ServerProofs ----------------------------
(***************************************************************************)
(* Proofs about the two parts of a server MCAuthSession checks: sessions    *)
(* and the writers of HTTP streams.                                         *)
(*                                                                          *)
(* The session handshake, for every number of connections, account table,   *)
(* capacity of the kernel and amount of application data.                   *)
(* A gate opens for the right password because a response names the user    *)
(* and the password of the side that sent it.  That two ends which both require     *)
(* sessions cannot stall, and skip nothing, needs the order of the whole    *)
(* handshake: what is in flight towards a closed gate continues the script  *)
(* CAPS, REQUEST, RESPONSE, STATUS from where the gate is in it.            *)
(*                                                                          *)
(* The writers of HTTP streams, for every number of clients, buffers, slots *)
(* of a ring and writes of a chunk: what a buffer's count means, that       *)
(* nothing is overwritten while it is sent, that a client goes on with the  *)
(* newest chunk, and that none is left waiting.                             *)
(* The inductive invariant says of a ring where its chunks are: the one     *)
(* that is sent is in the get slot, a later put slot has the newest, and    *)
(* nothing waits in a ring that has never refused a chunk while the client  *)
(* sends nothing.                                                           *)
(***************************************************************************)
EXTENDS AuthSession, ChunkRing, SequenceTheorems, FiniteSetTheorems, TLAPS

----------------------------------------------------------------------------
(* The session handshake                                                    *)

(* What a side with the login l writes.                                     *)
From(l) ==
    [type : {"CAPS", "DATA"}]
    \cup [type : {"REQUEST"}, nonce : Nat \ {0}]
    \cup [type : {"RESPONSE"}, nonce : Nat, user : {l.user},
          hash : {Hash(l.secret, l.user, n) : n \in Nat}]
    \cup [type : {"STATUS"}, ok : BOOLEAN]

Types ==
    /\ sessions \subseteq Sides
    /\ login \in [Sides -> [user : Users \cup {Nameless}, secret : Secrets]]
    /\ gated \in [Sides -> BOOLEAN] /\ up \in [Sides -> BOOLEAN]
    /\ expires \in [Sides -> BOOLEAN]
    /\ state \in [Sides -> SUBSET {"INFO", "HASH", "POSITIVE", "NEGATIVE"}]
    /\ nonce \in [Sides -> Nat] /\ asked \in [Sides -> Nat]
    /\ events \in [Sides -> SUBSET {"IN", "OUT"}]
    /\ skipped \in [Sides -> SUBSET {"STATUS", "DATA"}]
    /\ wire = [s \in Sides |-> wire[s]]
    /\ tx = [s \in Sides |-> tx[s]]
    /\ \A s \in Sides : wire[s] \in Seq(From(login[s])) /\ tx[s] \in Seq(From(login[s]))

(* A side that waits for input has written all, and the kernel holds no     *)
(* more than it can.                                                        *)
Blocked == \A s \in Sides :
    /\ "IN" \in events[s] => tx[s] = <<>>
    /\ up[Peer[s]] => Len(wire[s]) <= Wire

(* Where a side is in the handshake: it has seen a CAPS, and then a REQUEST. *)
Phase(s) == IF asked[s] # 0 THEN 2 ELSE IF nonce[s] # 0 THEN 1 ELSE 0
Then(x, y) == x \o y
Flight(s) == Then(wire[s], tx[s])
Script(n) == CASE n = 1 -> "CAPS" [] n = 2 -> "REQUEST" [] n = 3 -> "RESPONSE"
               [] n = 4 -> "STATUS" [] OTHER -> "DATA"

(* The messages q on the way to a side that is open (u), gated (g) and in   *)
(* phase k, from a side with u2, g2 and k2.                                 *)
LaneOf(u, g, k, q, u2, g2, k2) ==
    u /\ g =>
        /\ \A i \in 1 .. Len(q) : q[i].type = Script(k + i)
        /\ u2 /\ g2 => Len(q) = 1 + k2 - k
        /\ ~g2 => Len(q) >= 4 - k
Lane(r) == LaneOf(up[r], gated[r], Phase(r), Flight(Peer[r]),
                  up[Peer[r]], gated[Peer[r]], Phase(Peer[r]))
Lanes == Mutual => \A r \in Sides : Lane(r) /\ skipped[r] = {}

Base == Types /\ Blocked /\ OpenIsKnown
IInv == Base /\ Lanes

-----------------------------------------------------------------------------
(* Messages                                                                 *)

(* What the fields of a message say.                                        *)
LEMMA Meaning ==
    ASSUME NEW l, NEW m \in From(l)
    PROVE  /\ m.type \in {"CAPS", "DATA", "REQUEST", "RESPONSE", "STATUS"}
           /\ m.type = "REQUEST" => m.nonce \in Nat \ {0}
           /\ m.type = "RESPONSE" =>
                  /\ m.nonce \in Nat /\ m.user = l.user
                  /\ \E n \in Nat : m.hash = Hash(l.secret, l.user, n)
BY DEF From

(* What each handler writes.                                                *)
LEMMA Written ==
    ASSUME NEW l
    PROVE  /\ [type |-> "CAPS"] \in From(l) /\ [type |-> "DATA"] \in From(l)
           /\ \A n \in Nat \ {0} : [type |-> "REQUEST", nonce |-> n] \in From(l)
           /\ \A n \in Nat : [type |-> "RESPONSE", nonce |-> n, user |-> l.user,
                              hash |-> Hash(l.secret, l.user, n)] \in From(l)
           /\ \A b \in BOOLEAN : [type |-> "STATUS", ok |-> b] \in From(l)
BY DEF From

(* One sequence and then another.                                           *)
LEMMA ThenProperties ==
    ASSUME NEW S, NEW x \in Seq(S), NEW y \in Seq(S)
    PROVE  /\ Then(x, y) \in Seq(S) /\ Len(Then(x, y)) = Len(x) + Len(y)
           /\ \A i \in 1 .. Len(x) + Len(y) :
                  Then(x, y)[i] = IF i <= Len(x) THEN x[i] ELSE y[i - Len(x)]
           /\ Then(x, <<>>) = x
BY ConcatProperties, ConcatEmptySeq DEF Then

(* Three sequences one behind the other.                                    *)
LEMMA ThenAssociative ==
    ASSUME NEW S, NEW x \in Seq(S), NEW y \in Seq(S), NEW z \in Seq(S)
    PROVE  Then(Then(x, y), z) = Then(x, Then(y, z))
<1>1. (x \o y) \o z = x \o (y \o z) BY ConcatAssociative
<1> QED BY <1>1 DEF Then

(* A message that is written last is last in flight.                        *)
LEMMA ThenOne ==
    ASSUME NEW S, NEW x \in Seq(S), NEW m \in S
    PROVE  Then(x, <<m>>) = Append(x, m)
BY AppendIsConcat DEF Then

(* The front of a sequence and what follows it make up the sequence.        *)
LEMMA Parts ==
    ASSUME NEW S, NEW q \in Seq(S), NEW w \in Seq(S), NEW n \in 0 .. Len(q)
    PROVE  /\ SubSeq(q, 1, n) \in Seq(S) /\ Len(SubSeq(q, 1, n)) = n
           /\ SubSeq(q, n + 1, Len(q)) \in Seq(S)
           /\ Len(SubSeq(q, n + 1, Len(q))) = Len(q) - n
           /\ Then(Then(w, SubSeq(q, 1, n)), SubSeq(q, n + 1, Len(q))) = Then(w, q)
<1>1. Len(q) \in Nat /\ \A i \in 1 .. Len(q) : q[i] \in S
  BY LenProperties, ElementOfSeq
<1>2. PICK a : a = SubSeq(q, 1, n) OBVIOUS
<1>3. a \in Seq(S) /\ Len(a) = n
  <2>1. \A i \in 1 .. n : q[i] \in S BY <1>1
  <2> QED BY <1>1, <1>2, <2>1, SubSeqProperties
<1>4. PICK b : b = SubSeq(q, n + 1, Len(q)) OBVIOUS
<1>5. b \in Seq(S) /\ Len(b) = Len(q) - n
  <2>1. \A i \in n + 1 .. Len(q) : q[i] \in S BY <1>1
  <2>2. n + 1 \in Int /\ Len(q) \in Int BY <1>1
  <2>3. /\ SubSeq(q, n + 1, Len(q)) \in Seq(S)
        /\ Len(SubSeq(q, n + 1, Len(q)))
               = IF n + 1 <= Len(q) THEN Len(q) - (n + 1) + 1 ELSE 0
    BY <2>1, <2>2, SubSeqProperties
  <2> QED BY <1>1, <1>4, <2>3
<1>6. Then(a, b) = q
  <2>1. 1 \in 1 .. Len(q) + 1 /\ n \in 1 - 1 .. Len(q) /\ Len(q) \in n .. Len(q)
    BY <1>1
  <2>2. Then(SubSeq(q, 1, n), SubSeq(q, n + 1, Len(q))) = q
    BY <2>1, ConcatAdjacentSubSeq, SubSeqFull DEF Then
  <2> QED BY <1>2, <1>4, <2>2
<1>7. Then(Then(w, a), b) = Then(w, q) BY <1>3, <1>5, <1>6, ThenAssociative
<1> QED BY <1>2, <1>3, <1>4, <1>5, <1>7

-----------------------------------------------------------------------------
(* The order of the handshake                                               *)

(* A gate that takes the next message of the script is one phase further.   *)
LEMMA LaneTakes ==
    ASSUME NEW S, NEW q \in Seq(S), q # <<>>, NEW k \in 0 .. 2, NEW k2 \in 0 .. 2,
           NEW u2 \in BOOLEAN, NEW g2 \in BOOLEAN, LaneOf(TRUE, TRUE, k, q, u2, g2, k2)
    PROVE  /\ q[1].type = Script(k + 1)
           /\ LaneOf(TRUE, TRUE, k + 1, Tail(q), u2, g2, k2)
<1>1. /\ Len(q) \in Nat \ {0} /\ Len(Tail(q)) = Len(q) - 1
      /\ \A i \in 1 .. Len(q) - 1 : Tail(q)[i] = q[i + 1]
  BY HeadTailProperties, EmptySeq
<1>2. \A i \in 1 .. Len(q) : q[i].type = Script(k + i) BY DEF LaneOf
<1>3. q[1].type = Script(k + 1) BY <1>1, <1>2
<1>4. ASSUME NEW i \in 1 .. Len(Tail(q))
      PROVE  Tail(q)[i].type = Script((k + 1) + i)
  <2>1. i + 1 \in 1 .. Len(q) /\ k + (i + 1) = (k + 1) + i BY <1>1
  <2>2. q[i + 1].type = Script(k + (i + 1)) BY <1>2, <2>1
  <2> QED BY <1>1, <2>1, <2>2
<1>5. /\ u2 /\ g2 => Len(Tail(q)) = 1 + k2 - (k + 1)
      /\ ~g2 => Len(Tail(q)) >= 4 - (k + 1)
  BY <1>1 DEF LaneOf
<1> QED BY <1>3, <1>4, <1>5 DEF LaneOf

(* What a gated side in phase k answers comes next in the script of its     *)
(* peer; its own gate is then in the next phase.                            *)
LEMMA LaneGets ==
    ASSUME NEW S, NEW q \in Seq(S), NEW m \in S, NEW k \in 0 .. 2, NEW k2 \in 0 .. 2,
           NEW u \in BOOLEAN, NEW g \in BOOLEAN, LaneOf(u, g, k2, q, TRUE, TRUE, k),
           m.type = Script(k + 2)
    PROVE  LaneOf(u, g, k2, Append(q, m), TRUE, TRUE, k + 1)
<1> SUFFICES ASSUME u, g PROVE LaneOf(u, g, k2, Append(q, m), TRUE, TRUE, k + 1)
  BY Zenon DEF LaneOf
<1>1. /\ Len(q) = 1 + k - k2 /\ Len(q) \in Nat
      /\ \A i \in 1 .. Len(q) : q[i].type = Script(k2 + i)
  BY LenProperties DEF LaneOf
<1>2. /\ Len(Append(q, m)) = Len(q) + 1 /\ Append(q, m)[Len(q) + 1] = m
      /\ \A i \in 1 .. Len(q) : Append(q, m)[i] = q[i]
  BY AppendProperties
<1>3. PICK r : r = Append(q, m) OBVIOUS
<1>4. ASSUME NEW i \in 1 .. Len(r) PROVE r[i].type = Script(k2 + i)
  <2>1. CASE i \in 1 .. Len(q)
    <3>1. r[i] = q[i] BY <1>2, <1>3, <2>1
    <3> QED BY <1>1, <2>1, <3>1
  <2>2. CASE i = Len(q) + 1
    <3>1. k2 + i = k + 2 BY <1>1, <2>2
    <3> QED BY <1>2, <1>3, <2>2, <3>1
  <2> QED BY <1>1, <1>2, <1>3, <2>1, <2>2
<1>5. Len(r) = 1 + (k + 1) - k2 BY <1>1, <1>2, <1>3
<1> QED BY <1>3, <1>4, <1>5, Zenon DEF LaneOf

(* With the verdict it opens its gate, or hangs up.                         *)
LEMMA LaneEnds ==
    ASSUME NEW r, NEW k2 \in 0 .. 2, NEW u \in BOOLEAN, NEW g \in BOOLEAN,
           LaneOf(u, g, k2, r, TRUE, TRUE, 3), NEW x \in BOOLEAN
    PROVE  /\ LaneOf(u, g, k2, r, x, FALSE, 2)
           /\ LaneOf(u, g, k2, r, FALSE, TRUE, 2)
<1> SUFFICES ASSUME u, g PROVE LaneOf(u, g, k2, r, x, FALSE, 2) /\ LaneOf(u, g, k2, r, FALSE, TRUE, 2)
  BY Zenon DEF LaneOf
<1>1. Len(r) = 1 + 3 - k2 BY Zenon DEF LaneOf
<1>2. \A i \in 1 .. Len(r) : r[i].type = Script(k2 + i) BY Zenon DEF LaneOf
<1>3. Len(r) >= 4 - k2 BY <1>1
<1> QED BY <1>2, <1>3, Zenon DEF LaneOf

(* What an open side sends comes after the handshake.                       *)
LEMMA LaneGetsData ==
    ASSUME NEW S, NEW q \in Seq(S), NEW m \in S, NEW k \in 0 .. 2, NEW k2 \in 0 .. 2,
           NEW u \in BOOLEAN, NEW g \in BOOLEAN, NEW u2 \in BOOLEAN,
           LaneOf(u, g, k2, q, u2, FALSE, k), m.type = "DATA"
    PROVE  LaneOf(u, g, k2, Append(q, m), u2, FALSE, k)
<1> SUFFICES ASSUME u, g
             PROVE  /\ \A i \in 1 .. Len(Append(q, m)) : Append(q, m)[i].type = Script(k2 + i)
                    /\ Len(Append(q, m)) >= 4 - k2
  BY DEF LaneOf
<1>1. /\ Len(q) >= 4 - k2 /\ Len(q) \in Nat
      /\ \A i \in 1 .. Len(q) : q[i].type = Script(k2 + i)
  BY LenProperties DEF LaneOf
<1>2. /\ Len(Append(q, m)) = Len(q) + 1 /\ Append(q, m)[Len(q) + 1] = m
      /\ \A i \in 1 .. Len(q) : Append(q, m)[i] = q[i]
  BY AppendProperties
<1>3. ASSUME NEW i \in 1 .. Len(Append(q, m)) PROVE Append(q, m)[i].type = Script(k2 + i)
  <2>1. CASE i \in 1 .. Len(q) BY <1>1, <1>2, <2>1
  <2>2. CASE i = Len(q) + 1
    <3>1. k2 + i \in Int /\ k2 + i > 4 BY <1>1, <2>2
    <3>2. Script(k2 + i) = "DATA" BY <3>1 DEF Script
    <3> QED BY <1>2, <2>2, <3>2
  <2> QED BY <1>1, <1>2, <2>1, <2>2
<1> QED BY <1>1, <1>2, <1>3

(* A side that closes is expected to answer no more.                        *)
LEMMA LaneCloses ==
    ASSUME NEW u, NEW g, NEW k, NEW q, NEW u2, NEW g2, NEW k2, LaneOf(u, g, k, q, u2, g2, k2)
    PROVE  LaneOf(FALSE, g, k, q, u2, g2, k2) /\ LaneOf(u, g, k, q, FALSE, g2, k2)
BY DEF LaneOf

-----------------------------------------------------------------------------
(* Writing                                                                  *)

(* Taking the head of a sequence leaves what follows it.                    *)
LEMMA TailOfConcat ==
    ASSUME NEW S, NEW w \in Seq(S), NEW t \in Seq(S), w # <<>>
    PROVE  /\ Then(w, t) \in Seq(S) /\ Then(w, t) # <<>>
           /\ Then(w, t)[1] = Head(w) /\ Head(w) \in S
           /\ Tail(Then(w, t)) = Then(Tail(w), t) /\ Tail(w) \in Seq(S)
           /\ Len(Tail(w)) = Len(w) - 1
<1>1. /\ Len(w) \in Nat \ {0} /\ Len(t) \in Nat /\ Head(w) \in S /\ Tail(w) \in Seq(S)
      /\ Len(Tail(w)) = Len(w) - 1 /\ \A i \in 1 .. Len(w) - 1 : Tail(w)[i] = w[i + 1]
  BY HeadTailProperties, EmptySeq, LenProperties
<1>2. /\ Then(w, t) \in Seq(S) /\ Len(Then(w, t)) = Len(w) + Len(t)
      /\ \A i \in 1 .. Len(w) + Len(t) :
             Then(w, t)[i] = IF i <= Len(w) THEN w[i] ELSE t[i - Len(w)]
  BY ThenProperties
<1>3. Then(w, t) # <<>> BY <1>1, <1>2, EmptySeq
<1>4. Then(w, t)[1] = Head(w) BY <1>1, <1>2
<1>5. /\ Tail(Then(w, t)) \in Seq(S) /\ Len(Tail(Then(w, t))) = Len(w) + Len(t) - 1
      /\ \A i \in 1 .. Len(w) + Len(t) - 1 : Tail(Then(w, t))[i] = Then(w, t)[i + 1]
  BY <1>1, <1>2, <1>3, HeadTailProperties
<1>6. /\ Then(Tail(w), t) \in Seq(S) /\ Len(Then(Tail(w), t)) = Len(w) - 1 + Len(t)
      /\ \A i \in 1 .. Len(w) - 1 + Len(t) :
             Then(Tail(w), t)[i] = IF i <= Len(w) - 1 THEN Tail(w)[i] ELSE t[i - (Len(w) - 1)]
  <2>1. PICK v \in Seq(S) : v = Tail(w) BY <1>1
  <2>2. /\ Then(v, t) \in Seq(S) /\ Len(Then(v, t)) = Len(v) + Len(t)
        /\ \A i \in 1 .. Len(v) + Len(t) :
               Then(v, t)[i] = IF i <= Len(v) THEN v[i] ELSE t[i - Len(v)]
    BY ThenProperties
  <2> QED BY <1>1, <2>1, <2>2
<1>7. ASSUME NEW i \in 1 .. Len(w) + Len(t) - 1
      PROVE  Tail(Then(w, t))[i] = Then(Tail(w), t)[i]
  <2>1. i + 1 \in 1 .. Len(w) + Len(t) /\ i \in 1 .. Len(w) - 1 + Len(t) BY <1>1
  <2>2. Tail(Then(w, t))[i] = Then(w, t)[i + 1] BY <1>5
  <2>3. CASE i <= Len(w) - 1
    <3>1. i + 1 <= Len(w) /\ i \in 1 .. Len(w) - 1 BY <1>1, <2>3
    <3> QED BY <1>1, <1>2, <1>6, <2>1, <2>2, <2>3, <3>1
  <2>4. CASE ~(i <= Len(w) - 1)
    <3>1. ~(i + 1 <= Len(w)) /\ i + 1 - Len(w) = i - (Len(w) - 1) BY <1>1, <2>4
    <3>2. Then(w, t)[i + 1] = t[i + 1 - Len(w)] BY <1>2, <2>1, <3>1
    <3>3. Then(Tail(w), t)[i] = t[i - (Len(w) - 1)] BY <1>6, <2>1, <2>4
    <3> QED BY <2>2, <3>1, <3>2, <3>3
  <2> QED BY <2>3, <2>4
<1>8. Tail(Then(w, t)) = Then(Tail(w), t) BY <1>1, <1>5, <1>6, <1>7, SeqEqual
<1> QED BY <1>1, <1>2, <1>3, <1>4, <1>8

(* A write of q by the side s moves nothing out of order, and waits for     *)
(* input only when all is written.                                          *)
LEMMA WriteKeeps ==
    ASSUME Types, Blocked, NEW s \in Sides, NEW q \in Seq(From(login[s])),
           NEW from \in Seq(From(login[Peer[s]])), Len(from) <= Wire,
           Write(s, q, from), login' = login, \A r \in Sides : up'[r] => up[r]
    PROVE  /\ wire' = [r \in Sides |-> wire'[r]] /\ tx' = [r \in Sides |-> tx'[r]]
           /\ \A r \in Sides : /\ wire'[r] \in Seq(From(login'[r]))
                               /\ tx'[r] \in Seq(From(login'[r]))
           /\ events' \in [Sides -> SUBSET {"IN", "OUT"}]
           /\ Blocked'
           /\ Flight(s)' = Then(wire[s], q)
           /\ Flight(Peer[s])' = Then(from, tx[Peer[s]])
           /\ \A r \in Sides \ {s, Peer[s]} : Flight(r)' = Flight(r)
<1>1. Peer[s] \in Sides /\ Peer[s] # s /\ Peer[Peer[s]] = s BY PeerAssumption
<1>2. /\ wire[s] \in Seq(From(login[s])) /\ Len(wire[s]) \in Nat /\ Len(q) \in Nat
      /\ up[Peer[s]] => Len(wire[s]) <= Wire
  BY <1>1, LenProperties DEF Types, Blocked
<1>3. PICK n \in 0 .. Len(q) :
          /\ wire' = [wire EXCEPT ![s] = Then(wire[s], SubSeq(q, 1, n)), ![Peer[s]] = from]
          /\ tx' = [tx EXCEPT ![s] = SubSeq(q, n + 1, Len(q))]
          /\ events' = [events EXCEPT ![s] = EventsAfter(events[s], q, Len(q) - n)]
          /\ up[Peer[s]] => n <= Wire - Len(wire[s])
  <2> DEFINE room == IF up[Peer[s]] THEN Wire - Len(wire[s]) ELSE Len(q)
             k == IF room < Len(q) THEN room ELSE Len(q)
  <2>1. /\ wire' = [wire EXCEPT ![s] = @ \o SubSeq(q, 1, k), ![Peer[s]] = from]
        /\ tx' = [tx EXCEPT ![s] = SubSeq(q, k + 1, Len(q))]
        /\ events' = [events EXCEPT ![s] = EventsAfter(@, q, Len(q) - k)]
    BY DEF Write
  <2>2. k \in 0 .. Len(q) /\ (up[Peer[s]] => k <= Wire - Len(wire[s]))
    <3>1. room \in Nat /\ (up[Peer[s]] => room = Wire - Len(wire[s]))
      <4>1. CASE up[Peer[s]] BY <4>1, <1>2, BoundAssumption
      <4>2. CASE ~up[Peer[s]] BY <4>2, <1>2
      <4> QED BY <4>1, <4>2
    <3>2. PICK j \in Nat : j = room BY <3>1
    <3>3. k = IF j < Len(q) THEN j ELSE Len(q) BY <3>2
    <3>4. up[Peer[s]] => j = Wire - Len(wire[s]) BY <3>1, <3>2
    <3> HIDE DEF k, room
    <3>5. CASE j < Len(q) BY <3>2, <3>3, <3>4, <3>5, <1>2
    <3>6. CASE ~(j < Len(q)) BY <3>2, <3>3, <3>4, <3>6, <1>2, BoundAssumption
    <3> QED BY <3>5, <3>6
  <2> HIDE DEF k
  <2>3. wire' = [wire EXCEPT ![s] = Then(wire[s], SubSeq(q, 1, k)), ![Peer[s]] = from]
    BY <2>1 DEF Then
  <2>4. events' = [events EXCEPT ![s] = EventsAfter(events[s], q, Len(q) - k)]
    BY <2>1
  <2> QED BY <2>1, <2>2, <2>3, <2>4
<1>4. PICK a : a = SubSeq(q, 1, n) OBVIOUS
<1>5. PICK b : b = SubSeq(q, n + 1, Len(q)) OBVIOUS
<1>6. /\ a \in Seq(From(login[s])) /\ b \in Seq(From(login[s]))
      /\ Len(b) = Len(q) - n /\ Then(Then(wire[s], a), b) = Then(wire[s], q)
      /\ Then(wire[s], a) \in Seq(From(login[s])) /\ Len(Then(wire[s], a)) = Len(wire[s]) + n
      /\ Len(b) = 0 => b = <<>>
  <2>1. PICK S : S = From(login[s]) OBVIOUS
  <2>2. q \in Seq(S) /\ wire[s] \in Seq(S) BY <1>2, <2>1
  <2>3. PICK w \in Seq(S) : w = wire[s] BY <2>2
  <2>4. n \in 0 .. Len(q) BY <1>3
  <2>5. /\ a \in Seq(S) /\ Len(a) = n /\ b \in Seq(S) /\ Len(b) = Len(q) - n
        /\ Then(Then(w, a), b) = Then(w, q)
    BY <1>4, <1>5, <2>2, <2>4, Parts
  <2>6. Then(w, a) \in Seq(S) /\ Len(Then(w, a)) = Len(w) + n
    BY <2>5, ThenProperties
  <2>7. Len(b) = 0 => b = <<>> BY <2>5, EmptySeq
  <2> QED BY <2>1, <2>3, <2>5, <2>6, <2>7
<1>7. /\ wire' = [wire EXCEPT ![s] = Then(wire[s], a), ![Peer[s]] = from]
      /\ tx' = [tx EXCEPT ![s] = b]
  BY <1>3, <1>4, <1>5
<1>8. /\ wire'[s] = Then(wire[s], a) /\ wire'[Peer[s]] = from
      /\ \A r \in Sides \ {s, Peer[s]} : wire'[r] = wire[r]
      /\ wire' = [r \in Sides |-> wire'[r]]
  <2>1. wire = [r \in Sides |-> wire[r]] BY DEF Types
  <2> QED BY <1>1, <1>7, <2>1
<1>9. /\ tx'[s] = b /\ \A r \in Sides \ {s} : tx'[r] = tx[r]
      /\ tx' = [r \in Sides |-> tx'[r]]
  BY <1>7 DEF Types
<1>10. \A r \in Sides : wire'[r] \in Seq(From(login'[r])) /\ tx'[r] \in Seq(From(login'[r]))
  <2> SUFFICES ASSUME NEW r \in Sides
               PROVE  wire'[r] \in Seq(From(login[r])) /\ tx'[r] \in Seq(From(login[r]))
    OBVIOUS
  <2>1. wire[r] \in Seq(From(login[r])) /\ tx[r] \in Seq(From(login[r])) BY DEF Types
  <2> QED BY <2>1, <1>6, <1>8, <1>9
<1>11. PICK e : e = EventsAfter(events[s], q, Len(q) - n) OBVIOUS
<1>12. e \in SUBSET {"IN", "OUT"} /\ ("IN" \in e => b = <<>>)
  <2>1. events[s] \in SUBSET {"IN", "OUT"} BY DEF Types
  <2>2. CASE q = <<>>
    <3>1. Len(b) = 0 BY <1>2, <1>6, <2>2
    <3> QED BY <1>6, <1>11, <2>2, <3>1 DEF EventsAfter
  <2>3. CASE q # <<>> /\ Len(q) - n > 0
    BY <1>11, <2>3 DEF EventsAfter, WaitFor
  <2>4. CASE q # <<>> /\ ~(Len(q) - n > 0)
    <3>1. Len(b) = 0 BY <1>2, <1>6, <2>4
    <3> QED BY <1>6, <1>11, <2>1, <2>4, <3>1 DEF EventsAfter, WaitFor
  <2> QED BY <2>2, <2>3, <2>4
<1>13. /\ events' = [events EXCEPT ![s] = e]
       /\ events' \in [Sides -> SUBSET {"IN", "OUT"}]
  BY <1>3, <1>11, <1>12 DEF Types
<1>14. Blocked'
  <2> SUFFICES ASSUME NEW r \in Sides
               PROVE  /\ "IN" \in events'[r] => tx'[r] = <<>>
                      /\ up'[Peer[r]] => Len(wire'[r]) <= Wire
    BY DEF Blocked
  <2>1. "IN" \in events'[r] => tx'[r] = <<>>
    BY <1>9, <1>12, <1>13 DEF Blocked, Types
  <2>2. up'[Peer[r]] => up[Peer[r]] BY PeerAssumption
  <2>3. up[Peer[r]] => Len(wire'[r]) <= Wire
    <3>1. CASE r = s BY <3>1, <1>2, <1>3, <1>6, <1>8, BoundAssumption
    <3>2. CASE r = Peer[s] BY <3>2, <1>8
    <3>3. CASE r # s /\ r # Peer[s] BY <3>3, <1>8 DEF Blocked
    <3> QED BY <3>1, <3>2, <3>3
  <2> QED BY <2>1, <2>2, <2>3
<1>15. /\ Flight(s)' = Then(wire[s], q)
       /\ Flight(Peer[s])' = Then(from, tx[Peer[s]])
       /\ \A r \in Sides \ {s, Peer[s]} : Flight(r)' = Flight(r)
  BY <1>1, <1>6, <1>8, <1>9 DEF Flight
<1> QED BY <1>8, <1>9, <1>10, <1>13, <1>14, <1>15

(* The message a side receives, and what its answer does to what is in      *)
(* flight.                                                                  *)
LEMMA Arrival ==
    ASSUME Types, Blocked, NEW s \in Sides, CanReceive(s)
    PROVE  /\ Head(wire[Peer[s]]) \in From(login[Peer[s]])
           /\ Tail(wire[Peer[s]]) \in Seq(From(login[Peer[s]]))
           /\ Len(Tail(wire[Peer[s]])) <= Wire
           /\ Then(Tail(wire[Peer[s]]), tx[Peer[s]]) = Tail(Flight(Peer[s]))
           /\ Flight(Peer[s]) \in Seq(From(login[Peer[s]])) /\ Flight(Peer[s]) # <<>>
           /\ Flight(Peer[s])[1] = Head(wire[Peer[s]])
           /\ Flight(s) = wire[s] /\ tx[s] = <<>>
<1>1. Peer[s] \in Sides /\ Peer[Peer[s]] = s BY PeerAssumption
<1>2. PICK S : S = From(login[Peer[s]]) OBVIOUS
<1>3. PICK w \in Seq(S) : w = wire[Peer[s]] BY <1>1, <1>2 DEF Types
<1>4. PICK t \in Seq(S) : t = tx[Peer[s]] BY <1>1, <1>2 DEF Types
<1>5. w # <<>> BY <1>3 DEF CanReceive
<1>6. /\ Then(w, t) \in Seq(S) /\ Then(w, t) # <<>> /\ Then(w, t)[1] = Head(w)
      /\ Head(w) \in S /\ Tail(Then(w, t)) = Then(Tail(w), t) /\ Tail(w) \in Seq(S)
      /\ Len(Tail(w)) = Len(w) - 1
  BY <1>5, TailOfConcat
<1>7. Len(w) \in Nat /\ Len(w) <= Wire
  BY <1>1, <1>3, LenProperties DEF Blocked, CanReceive
<1>8. tx[s] = <<>> BY DEF CanReceive, Blocked
<1>9. Flight(s) = wire[s]
  <2>1. PICK T : T = From(login[s]) OBVIOUS
  <2>2. PICK v \in Seq(T) : v = wire[s] BY <2>1 DEF Types
  <2>3. Then(v, <<>>) = v BY EmptySeq, ThenProperties
  <2> QED BY <1>8, <2>2, <2>3 DEF Flight
<1>10. Len(Tail(w)) <= Wire BY <1>6, <1>7, BoundAssumption
<1> QED BY <1>2, <1>3, <1>4, <1>6, <1>8, <1>9, <1>10 DEF Flight

(* An answer follows what is in flight.                                     *)
LEMMA AnswerKeeps ==
    ASSUME Types, Blocked, NEW s \in Sides, CanReceive(s), NEW m \in From(login[s]),
           Answer(s, m, Tail(wire[Peer[s]])), login' = login, \A r \in Sides : up'[r] => up[r]
    PROVE  /\ wire' = [r \in Sides |-> wire'[r]] /\ tx' = [r \in Sides |-> tx'[r]]
           /\ \A r \in Sides : /\ wire'[r] \in Seq(From(login'[r]))
                               /\ tx'[r] \in Seq(From(login'[r]))
           /\ events' \in [Sides -> SUBSET {"IN", "OUT"}]
           /\ Blocked'
           /\ Flight(s)' = Append(Flight(s), m)
           /\ Flight(Peer[s])' = Tail(Flight(Peer[s]))
           /\ \A r \in Sides \ {s, Peer[s]} : Flight(r)' = Flight(r)
<1>1. PICK q : q = <<m>> OBVIOUS
<1>2. q \in Seq(From(login[s])) BY <1>1
<1>3. Write(s, q, Tail(wire[Peer[s]])) BY <1>1 DEF Answer
<1>4. PICK f : f = Tail(wire[Peer[s]]) OBVIOUS
<1>5. f \in Seq(From(login[Peer[s]])) /\ Len(f) <= Wire BY <1>4, Arrival
<1>6. Write(s, q, f) BY <1>3, <1>4
<1>7. /\ wire' = [r \in Sides |-> wire'[r]] /\ tx' = [r \in Sides |-> tx'[r]]
      /\ \A r \in Sides : /\ wire'[r] \in Seq(From(login'[r]))
                          /\ tx'[r] \in Seq(From(login'[r]))
      /\ events' \in [Sides -> SUBSET {"IN", "OUT"}]
      /\ Blocked'
      /\ Flight(s)' = Then(wire[s], q)
      /\ Flight(Peer[s])' = Then(f, tx[Peer[s]])
      /\ \A r \in Sides \ {s, Peer[s]} : Flight(r)' = Flight(r)
  BY <1>2, <1>5, <1>6, WriteKeeps
<1>8. Flight(s)' = Append(Flight(s), m)
  <2>1. PICK T : T = From(login[s]) OBVIOUS
  <2>2. PICK v \in Seq(T) : v = wire[s] BY <2>1 DEF Types
  <2>3. m \in T BY <2>1
  <2>4. Then(v, <<m>>) = Append(v, m) BY <2>3, ThenOne
  <2> QED BY <1>1, <1>7, <2>2, <2>4, Arrival
<1>9. Flight(Peer[s])' = Tail(Flight(Peer[s])) BY <1>4, <1>7, Arrival
<1> QED BY <1>7, <1>8, <1>9

(* The order of the other connections is not disturbed.                     *)
LEMMA LanesAfter ==
    ASSUME Lanes, NEW s \in Sides, sessions' = sessions,
           \A r \in Sides \ {s} :
               /\ up'[r] = up[r] /\ gated'[r] = gated[r] /\ nonce'[r] = nonce[r]
               /\ asked'[r] = asked[r] /\ skipped'[r] = skipped[r],
           \A r \in Sides \ {s, Peer[s]} : Flight(r)' = Flight(r),
           Mutual => Lane(s)' /\ Lane(Peer[s])' /\ skipped'[s] = {}
    PROVE  Lanes'
<1> SUFFICES ASSUME Mutual, NEW r \in Sides PROVE Lane(r)' /\ skipped'[r] = {}
  BY DEF Lanes, Mutual
<1>1. Lane(r) /\ skipped[r] = {} BY DEF Lanes
<1>2. CASE r = s BY <1>2
<1>3. CASE r = Peer[s] BY <1>1, <1>3, PeerAssumption
<1>4. CASE r # s /\ r # Peer[s]
  <2>1. /\ Peer[r] \in Sides /\ Peer[r] # s /\ Peer[r] # Peer[s]
    BY <1>4, PeerAssumption
  <2>2. Phase(r)' = Phase(r) /\ Phase(Peer[r])' = Phase(Peer[r])
    BY <1>4, <2>1 DEF Phase
  <2>3. Flight(Peer[r])' = Flight(Peer[r]) BY <2>1
  <2>4. /\ up'[r] = up[r] /\ gated'[r] = gated[r] /\ skipped'[r] = skipped[r]
        /\ up'[Peer[r]] = up[Peer[r]] /\ gated'[Peer[r]] = gated[Peer[r]]
    BY <1>4, <2>1
  <2> QED BY <1>1, <2>2, <2>3, <2>4 DEF Lane
<1> QED BY <1>2, <1>3, <1>4

(* Among ends that both require sessions, what arrives at a closed gate is  *)
(* the next message of the script, and its answer the one after it.         *)
LEMMA InOrder ==
    ASSUME Types, Blocked, Lanes, Mutual, NEW s \in Sides, CanReceive(s), gated[s]
    PROVE  /\ Phase(s) \in 0 .. 2
           /\ Head(wire[Peer[s]]).type = Script(Phase(s) + 1)
           /\ LaneOf(TRUE, TRUE, Phase(s) + 1, Tail(Flight(Peer[s])),
                     up[Peer[s]], gated[Peer[s]], Phase(Peer[s]))
           /\ \A m \in From(login[s]) : m.type = Script(Phase(s) + 2) =>
                  /\ LaneOf(up[Peer[s]], gated[Peer[s]], Phase(Peer[s]),
                            Append(Flight(s), m), TRUE, TRUE, Phase(s) + 1)
                  /\ Phase(s) = 2 => \A x \in BOOLEAN :
                         LaneOf(up[Peer[s]], gated[Peer[s]], Phase(Peer[s]),
                                Append(Flight(s), m), x, FALSE, Phase(s))
                  /\ Phase(s) = 2 =>
                         LaneOf(up[Peer[s]], gated[Peer[s]], Phase(Peer[s]),
                                Append(Flight(s), m), FALSE, TRUE, Phase(s))
<1>1. Peer[s] \in Sides /\ Peer[Peer[s]] = s BY PeerAssumption
<1>2. PICK k \in 0 .. 2 : k = Phase(s) BY DEF Phase
<1>3. PICK k2 \in 0 .. 2 : k2 = Phase(Peer[s]) BY DEF Phase
<1>4. PICK u2 \in BOOLEAN : u2 = up[Peer[s]] BY <1>1 DEF Types
<1>5. PICK g2 \in BOOLEAN : g2 = gated[Peer[s]] BY <1>1 DEF Types
<1>6. up[s] = TRUE /\ gated[s] = TRUE BY DEF CanReceive, Types
<1>7. PICK S : S = From(login[Peer[s]]) OBVIOUS
<1>8. PICK q \in Seq(S) : q = Flight(Peer[s]) BY <1>7, Arrival
<1>9. q # <<>> /\ q[1] = Head(wire[Peer[s]]) BY <1>8, Arrival
<1>10. LaneOf(TRUE, TRUE, k, q, u2, g2, k2)
  <2>1. Lane(s) BY DEF Lanes
  <2> QED BY <2>1, <1>2, <1>3, <1>4, <1>5, <1>6, <1>8 DEF Lane
<1>11. q[1].type = Script(k + 1) /\ LaneOf(TRUE, TRUE, k + 1, Tail(q), u2, g2, k2)
  BY <1>9, <1>10, LaneTakes
<1>12. PICK T : T = From(login[s]) OBVIOUS
<1>13. PICK v \in Seq(T) : v = Flight(s)
  <2>1. wire[s] \in Seq(T) BY <1>12 DEF Types
  <2> QED BY <2>1, Arrival
<1>14. LaneOf(u2, g2, k2, v, TRUE, TRUE, k)
  <2>1. Lane(Peer[s]) BY <1>1 DEF Lanes
  <2> QED BY <2>1, <1>1, <1>2, <1>3, <1>4, <1>5, <1>6, <1>13 DEF Lane
<1>15. ASSUME NEW m \in T, m.type = Script(k + 2)
       PROVE  /\ LaneOf(u2, g2, k2, Append(v, m), TRUE, TRUE, k + 1)
              /\ k = 2 => \A x \in BOOLEAN : LaneOf(u2, g2, k2, Append(v, m), x, FALSE, k)
              /\ k = 2 => LaneOf(u2, g2, k2, Append(v, m), FALSE, TRUE, k)
  <2>1. k \in 0 .. 2 /\ k2 \in 0 .. 2 /\ u2 \in BOOLEAN /\ g2 \in BOOLEAN /\ v \in Seq(T)
    BY <1>2, <1>3, <1>4, <1>5, <1>13
  <2>2. LaneOf(u2, g2, k2, Append(v, m), TRUE, TRUE, k + 1)
    BY <2>1, <1>14, <1>15, LaneGets
  <2>3. PICK r : r = Append(v, m) OBVIOUS
  <2>4. ASSUME k = 2, NEW x \in BOOLEAN
        PROVE  LaneOf(u2, g2, k2, r, x, FALSE, 2) /\ LaneOf(u2, g2, k2, r, FALSE, TRUE, 2)
    <3>1. LaneOf(u2, g2, k2, r, TRUE, TRUE, 3)
      <4>1. k + 1 = 3 BY <2>4
      <4> QED BY <2>2, <2>3, <4>1, Zenon
    <3> QED BY <2>1, <2>4, <3>1, LaneEnds
  <2> QED BY <2>2, <2>3, <2>4, Zenon
<1> QED BY <1>2, <1>3, <1>4, <1>5, <1>8, <1>9, <1>11, <1>12, <1>13, <1>15

-----------------------------------------------------------------------------
(* The steps                                                                *)

(* Both ends start with nothing, or with an announcement, in flight.        *)
LEMMA Initially == AuthInit => IInv
<1> SUFFICES ASSUME AuthInit PROVE IInv
  OBVIOUS
<1> PICK m : m = [type |-> "CAPS"] OBVIOUS
<1>1. \A s \in Sides : wire[s] = IF s \in sessions THEN <<m>> ELSE <<>>
  BY DEF AuthInit
<1>2. \A s \in Sides : tx[s] = <<>> BY DEF AuthInit
<1>3. \A s \in Sides : wire[s] \in Seq(From(login[s])) /\ tx[s] \in Seq(From(login[s]))
  <2> SUFFICES ASSUME NEW s \in Sides
               PROVE  wire[s] \in Seq(From(login[s])) /\ tx[s] \in Seq(From(login[s]))
    OBVIOUS
  <2>1. [type |-> "CAPS"] \in From(login[s]) BY Written
  <2>2. <<m>> \in Seq(From(login[s])) /\ <<>> \in Seq(From(login[s])) BY <2>1
  <2> QED BY <1>1, <1>2, <2>2
<1>4. Types
  <2>1. wire = [s \in Sides |-> wire[s]] /\ tx = [s \in Sides |-> tx[s]]
    BY DEF AuthInit
  <2>2. sessions \subseteq Sides BY SessionAssumption DEF AuthInit
  <2>3. gated \in [Sides -> BOOLEAN] /\ up \in [Sides -> BOOLEAN] /\ expires \in [Sides -> BOOLEAN]
    BY DEF AuthInit
  <2>4. /\ state \in [Sides -> SUBSET {"INFO", "HASH", "POSITIVE", "NEGATIVE"}]
        /\ events \in [Sides -> SUBSET {"IN", "OUT"}]
        /\ skipped \in [Sides -> SUBSET {"STATUS", "DATA"}]
    BY DEF AuthInit
  <2>5. /\ login \in [Sides -> [user : Users \cup {Nameless}, secret : Secrets]]
        /\ nonce \in [Sides -> Nat] /\ asked \in [Sides -> Nat]
    BY DEF AuthInit
  <2> QED BY <1>3, <2>1, <2>2, <2>3, <2>4, <2>5 DEF Types
<1>5. Blocked
  <2> SUFFICES ASSUME NEW s \in Sides PROVE tx[s] = <<>> /\ Len(wire[s]) <= Wire
    BY DEF Blocked
  <2>1. PICK c : c = <<m>> OBVIOUS
  <2>2. Len(c) = 1 /\ Len(<<>>) = 0
    <3>1. (\A x : Len(<<x>>) = 1) /\ Len(<<>>) = 0 OBVIOUS
    <3> QED BY <2>1, <3>1
  <2>3. wire[s] = IF s \in sessions THEN c ELSE <<>> BY <1>1, <2>1
  <2>4. tx[s] = <<>> BY <1>2
  <2>5. Len(wire[s]) <= 1 /\ Len(wire[s]) \in Nat
    <3>1. CASE s \in sessions
      <4>1. wire[s] = c BY <2>3, <3>1
      <4>2. Len(wire[s]) = 1 BY <2>2, <4>1
      <4> QED BY <4>2
    <3>2. CASE s \notin sessions
      <4>1. wire[s] = <<>> BY <2>3, <3>2
      <4>2. Len(wire[s]) = 0 BY <2>2, <4>1
      <4> QED BY <4>2
    <3> QED BY <3>1, <3>2
  <2> QED BY <2>4, <2>5, BoundAssumption
<1>6. OpenIsKnown
  <2>1. sessions \subseteq Sides BY SessionAssumption DEF AuthInit
  <2> QED BY <2>1 DEF AuthInit, OpenIsKnown
<1>7. Lanes
  <2> SUFFICES ASSUME sessions = Sides, NEW r \in Sides PROVE Lane(r) /\ skipped[r] = {}
    BY DEF Lanes, Mutual
  <2>1. Peer[r] \in Sides BY PeerAssumption
  <2>2. m.type = "CAPS" OBVIOUS
  <2>4. Flight(Peer[r]) = <<m>>
    <3>1. Then(<<m>>, <<>>) = <<m>>
      <4>1. <<m>> \in Seq({m}) /\ <<>> \in Seq({m}) OBVIOUS
      <4> QED BY <4>1, ThenProperties
    <3> QED BY <1>1, <1>2, <2>1, <3>1 DEF Flight
  <2>5. Phase(r) = 0 /\ Phase(Peer[r]) = 0 BY <2>1 DEF AuthInit, Phase
  <2>6. gated[Peer[r]] BY <2>1 DEF AuthInit
  <2>7. LaneOf(up[r], gated[r], 0, <<m>>, up[Peer[r]], gated[Peer[r]], 0)
    <3>1. \A i \in 1 .. Len(<<m>>) : <<m>>[i].type = Script(0 + i)
      BY <2>2 DEF Script
    <3> QED BY <2>6, <3>1 DEF LaneOf
  <2>8. skipped[r] = {} BY DEF AuthInit
  <2> QED BY <2>4, <2>5, <2>7, <2>8 DEF Lane
<1> QED BY <1>4, <1>5, <1>6, <1>7 DEF IInv, Base

(* Writing what is left in the buffer.                                      *)
LEMMA FlushStep == ASSUME IInv, NEW s \in Sides, Flush(s) PROVE IInv'
<1> USE DEF IInv, Base
<1>1. Peer[s] \in Sides /\ Peer[Peer[s]] = s BY PeerAssumption
<1>2. /\ sessions' = sessions /\ login' = login /\ gated' = gated /\ up' = up
      /\ state' = state /\ nonce' = nonce /\ asked' = asked /\ expires' = expires
      /\ skipped' = skipped
  BY DEF Flush, ends
<1>3. Len(wire[Peer[s]]) <= Wire BY <1>1 DEF Blocked, Flush, CanFlush
<1>4. /\ tx[s] \in Seq(From(login[s])) /\ wire[Peer[s]] \in Seq(From(login[Peer[s]]))
  BY <1>1 DEF Types
<1>5. Write(s, tx[s], wire[Peer[s]]) BY DEF Flush
<1>6. /\ wire' = [r \in Sides |-> wire'[r]] /\ tx' = [r \in Sides |-> tx'[r]]
      /\ \A r \in Sides : /\ wire'[r] \in Seq(From(login'[r]))
                          /\ tx'[r] \in Seq(From(login'[r]))
      /\ events' \in [Sides -> SUBSET {"IN", "OUT"}]
      /\ Blocked'
      /\ Flight(s)' = Then(wire[s], tx[s])
      /\ Flight(Peer[s])' = Then(wire[Peer[s]], tx[Peer[s]])
      /\ \A r \in Sides \ {s, Peer[s]} : Flight(r)' = Flight(r)
  BY <1>2, <1>3, <1>4, <1>5, WriteKeeps
<1>7. Types' BY <1>2, <1>6 DEF Types
<1>8. OpenIsKnown' BY <1>2 DEF OpenIsKnown, PasswordOf
<1>9. Lanes'
  <2>1. \A r \in Sides : Flight(r)' = Flight(r) BY <1>6 DEF Flight
  <2>2. \A r \in Sides : Phase(r)' = Phase(r) BY <1>2 DEF Phase
  <2> QED BY <1>2, <2>1, <2>2, PeerAssumption DEF Lanes, Lane, Mutual
<1> QED BY <1>6, <1>7, <1>8, <1>9

(* An open side sends data: it follows the handshake.                       *)
LEMMA SendDataStep == ASSUME IInv, NEW s \in Sides, SendData(s) PROVE IInv'
<1> USE DEF IInv, Base
<1>1. Peer[s] \in Sides /\ Peer[Peer[s]] = s /\ Peer[s] # s BY PeerAssumption
<1>2. /\ sessions' = sessions /\ login' = login /\ gated' = gated /\ up' = up
      /\ state' = state /\ nonce' = nonce /\ asked' = asked /\ expires' = expires
      /\ skipped' = skipped
  BY DEF SendData, ends
<1>3. Len(wire[Peer[s]]) <= Wire BY <1>1 DEF Blocked, SendData
<1>4. PICK m : m = [type |-> "DATA"] OBVIOUS
<1>5. m \in From(login[s]) /\ m.type = "DATA"
  <2>1. [type |-> "DATA"] \in From(login[s]) BY Written
  <2> QED BY <1>4, <2>1
<1>6. PICK T : T = From(login[s]) OBVIOUS
<1>7. PICK t \in Seq(T) : t = tx[s] BY <1>6 DEF Types
<1>8. PICK w \in Seq(T) : w = wire[s] BY <1>6 DEF Types
<1>9. PICK q : q = Append(t, m) OBVIOUS
<1>10. q \in Seq(T) BY <1>5, <1>6, <1>9, AppendProperties
<1>11. Write(s, q, wire[Peer[s]]) BY <1>4, <1>7, <1>9 DEF SendData
<1>12. q \in Seq(From(login[s])) /\ wire[Peer[s]] \in Seq(From(login[Peer[s]]))
  BY <1>1, <1>6, <1>10 DEF Types
<1>13. /\ wire' = [r \in Sides |-> wire'[r]] /\ tx' = [r \in Sides |-> tx'[r]]
       /\ \A r \in Sides : /\ wire'[r] \in Seq(From(login'[r]))
                           /\ tx'[r] \in Seq(From(login'[r]))
       /\ events' \in [Sides -> SUBSET {"IN", "OUT"}]
       /\ Blocked'
       /\ Flight(s)' = Then(wire[s], q)
       /\ Flight(Peer[s])' = Then(wire[Peer[s]], tx[Peer[s]])
       /\ \A r \in Sides \ {s, Peer[s]} : Flight(r)' = Flight(r)
  BY <1>2, <1>3, <1>11, <1>12, WriteKeeps
<1>14. Types' BY <1>2, <1>13 DEF Types
<1>15. OpenIsKnown' BY <1>2 DEF OpenIsKnown, PasswordOf
<1>16. Lanes'
  <2> SUFFICES ASSUME Mutual PROVE Lane(s)' /\ Lane(Peer[s])' /\ skipped'[s] = {}
    BY <1>2, <1>13, LanesAfter
  <2>1. Lane(s) /\ Lane(Peer[s]) /\ skipped[s] = {} BY <1>1 DEF Lanes
  <2>2. \A r \in Sides : Phase(r)' = Phase(r) BY <1>2 DEF Phase
  <2>3. Lane(s)'
    <3>1. Flight(Peer[s])' = Flight(Peer[s]) BY <1>13 DEF Flight
    <3> QED BY <1>1, <1>2, <2>1, <2>2, <3>1 DEF Lane
  <2>4. Lane(Peer[s])'
    <3>1. PICK v \in Seq(T) : v = Flight(s)
      BY <1>7, <1>8, ThenProperties DEF Flight
    <3>2. Flight(s)' = Append(v, m)
      <4>1. m \in T BY <1>5, <1>6
      <4>2. q = Then(t, <<m>>) BY <1>7, <1>9, <4>1, ThenOne
      <4>3. PICK o : o = <<m>> OBVIOUS
      <4>4. Then(w, Then(t, o)) = Then(Then(w, t), o)
        <5>1. <<m>> \in Seq(T) BY <4>1
        <5>2. o \in Seq(T) BY <4>3, <5>1
        <5> QED BY <1>7, <1>8, <5>2, ThenAssociative
      <4>5. Then(v, <<m>>) = Append(v, m) BY <3>1, <4>1, ThenOne
      <4> QED BY <1>7, <1>8, <1>13, <3>1, <4>2, <4>3, <4>4, <4>5 DEF Flight
    <3>3. PICK k \in 0 .. 2 : k = Phase(s) BY DEF Phase
    <3>4. PICK k2 \in 0 .. 2 : k2 = Phase(Peer[s]) BY DEF Phase
    <3>5. PICK u \in BOOLEAN : u = up[Peer[s]] BY <1>1 DEF Types
    <3>6. PICK g \in BOOLEAN : g = gated[Peer[s]] BY <1>1 DEF Types
    <3>7. PICK u2 \in BOOLEAN : u2 = up[s] BY DEF Types
    <3>8. gated[s] = FALSE BY DEF SendData, Types
    <3>9. LaneOf(u, g, k2, v, u2, FALSE, k)
      BY <1>1, <2>1, <3>1, <3>3, <3>4, <3>5, <3>6, <3>7, <3>8 DEF Lane
    <3>10. m \in T BY <1>5, <1>6
    <3>11. LaneOf(u, g, k2, Append(v, m), u2, FALSE, k)
      BY <1>5, <3>9, <3>10, LaneGetsData
    <3> QED BY <1>1, <1>2, <2>2, <3>2, <3>3, <3>4, <3>5, <3>6, <3>7, <3>8, <3>11 DEF Lane
  <2> QED BY <1>2, <2>1, <2>3, <2>4
<1> QED BY <1>13, <1>14, <1>15, <1>16

(* An open side takes a message for its application.                        *)
LEMMA ReceiveOpenStep == ASSUME IInv, NEW s \in Sides, ReceiveOpen(s) PROVE IInv'
<1> USE DEF IInv, Base
<1>1. Peer[s] \in Sides /\ Peer[Peer[s]] = s /\ Peer[s] # s BY PeerAssumption
<1>2. /\ sessions' = sessions /\ login' = login /\ gated' = gated /\ up' = up
      /\ state' = state /\ nonce' = nonce /\ asked' = asked /\ expires' = expires
      /\ skipped' = skipped /\ tx' = tx /\ events' = events
  BY DEF ReceiveOpen, ends
<1>3. PICK f : f = Tail(wire[Peer[s]]) OBVIOUS
<1>4. f \in Seq(From(login[Peer[s]])) /\ Len(f) <= Wire
  BY <1>3, Arrival DEF ReceiveOpen
<1>5. wire' = [wire EXCEPT ![Peer[s]] = f] BY <1>3 DEF ReceiveOpen
<1>6. /\ wire'[Peer[s]] = f /\ \A r \in Sides \ {Peer[s]} : wire'[r] = wire[r]
      /\ wire' = [r \in Sides |-> wire'[r]]
  BY <1>1, <1>5 DEF Types
<1>7. \A r \in Sides : wire'[r] \in Seq(From(login'[r])) /\ tx'[r] \in Seq(From(login'[r]))
  <2> SUFFICES ASSUME NEW r \in Sides
               PROVE  wire'[r] \in Seq(From(login[r])) /\ tx[r] \in Seq(From(login[r]))
    BY <1>2
  <2>1. wire[r] \in Seq(From(login[r])) /\ tx[r] \in Seq(From(login[r])) BY DEF Types
  <2> QED BY <2>1, <1>4, <1>6
<1>8. Types' BY <1>2, <1>6, <1>7 DEF Types
<1>9. Blocked' BY <1>2, <1>4, <1>6 DEF Blocked
<1>10. OpenIsKnown' BY <1>2 DEF OpenIsKnown, PasswordOf
<1>11. Lanes'
  <2>1. \A r \in Sides \ {Peer[s]} : Flight(r)' = Flight(r) BY <1>2, <1>6 DEF Flight
  <2> SUFFICES ASSUME Mutual PROVE Lane(s)' /\ Lane(Peer[s])' /\ skipped'[s] = {}
    BY <1>2, <2>1, LanesAfter
  <2>2. Lane(Peer[s]) /\ skipped[s] = {} BY <1>1 DEF Lanes
  <2>3. \A r \in Sides : Phase(r)' = Phase(r) BY <1>2 DEF Phase
  <2>4. Lane(s)' BY <1>2 DEF ReceiveOpen, Lane, LaneOf
  <2>5. Lane(Peer[s])' BY <1>1, <1>2, <2>1, <2>2, <2>3 DEF Lane
  <2> QED BY <1>2, <2>2, <2>4, <2>5
<1> QED BY <1>8, <1>9, <1>10, <1>11

(* A side that closes.                                                      *)
LEMMA CloseStep == ASSUME IInv, NEW s \in Sides, Close(s) PROVE IInv'
<1> USE DEF IInv, Base
<1>1. Peer[s] \in Sides /\ Peer[Peer[s]] = s /\ Peer[s] # s BY PeerAssumption
<1>2. /\ sessions' = sessions /\ login' = login /\ gated' = gated
      /\ state' = state /\ nonce' = nonce /\ asked' = asked /\ expires' = expires
      /\ skipped' = skipped /\ tx' = tx /\ wire' = wire /\ events' = events
      /\ up' = [up EXCEPT ![s] = FALSE]
  BY DEF Close, ends, link
<1>3. up'[s] = FALSE /\ \A r \in Sides \ {s} : up'[r] = up[r] BY <1>2 DEF Types
<1>4. Types' BY <1>2 DEF Types
<1>5. Blocked' BY <1>2, <1>3, PeerAssumption DEF Blocked
<1>6. OpenIsKnown' BY <1>2 DEF OpenIsKnown, PasswordOf
<1>7. Lanes'
  <2>1. \A r \in Sides : Flight(r)' = Flight(r) BY <1>2 DEF Flight
  <2> SUFFICES ASSUME Mutual PROVE Lane(s)' /\ Lane(Peer[s])' /\ skipped'[s] = {}
    BY <1>2, <1>3, <2>1, LanesAfter
  <2>2. Lane(Peer[s]) /\ skipped[s] = {} BY <1>1 DEF Lanes
  <2>3. \A r \in Sides : Phase(r)' = Phase(r) BY <1>2 DEF Phase
  <2>4. Lane(s)' BY <1>3 DEF Lane, LaneOf
  <2>5. Lane(Peer[s])'
    <3>1. LaneOf(up[Peer[s]], gated[Peer[s]], Phase(Peer[s]), Flight(s), FALSE, gated[s],
                 Phase(s))
      BY <1>1, <2>2, LaneCloses DEF Lane
    <3> QED BY <1>1, <1>2, <1>3, <2>1, <2>3, <3>1 DEF Lane
  <2> QED BY <1>2, <2>2, <2>4, <2>5
<1> QED BY <1>4, <1>5, <1>6, <1>7

(* A closed gate is announced a peer: it asks.                              *)
LEMMA CapsStep ==
    ASSUME IInv, NEW s \in Sides, CanReceive(s), gated[s], UNCHANGED ends,
           OnCaps(s, Head(wire[Peer[s]]), Tail(wire[Peer[s]]))
    PROVE  IInv'
<1> USE DEF IInv, Base
<1>1. Peer[s] \in Sides /\ Peer[Peer[s]] = s /\ Peer[s] # s BY PeerAssumption
<1>2. /\ sessions' = sessions /\ login' = login /\ gated' = gated /\ up' = up
      /\ state' = state /\ asked' = asked /\ expires' = expires
      /\ skipped' = skipped /\ nonce' = [nonce EXCEPT ![s] = @ + 1]
      /\ Head(wire[Peer[s]]).type = "CAPS"
  BY DEF OnCaps, ends
<1>3. nonce' \in [Sides -> Nat] /\ nonce'[s] = nonce[s] + 1 /\ nonce[s] + 1 \in Nat \ {0}
      /\ \A r \in Sides \ {s} : nonce'[r] = nonce[r]
  BY <1>2 DEF Types
<1>4. PICK m : m = [type |-> "REQUEST", nonce |-> nonce[s] + 1] OBVIOUS
<1>5. m \in From(login[s]) /\ m.type = "REQUEST"
  <2>1. [type |-> "REQUEST", nonce |-> nonce[s] + 1] \in From(login[s]) BY <1>3, Written
  <2> QED BY <1>4, <2>1
<1>6. Answer(s, m, Tail(wire[Peer[s]])) BY <1>4 DEF OnCaps
<1>7. /\ wire' = [r \in Sides |-> wire'[r]] /\ tx' = [r \in Sides |-> tx'[r]]
      /\ \A r \in Sides : /\ wire'[r] \in Seq(From(login'[r]))
                          /\ tx'[r] \in Seq(From(login'[r]))
      /\ events' \in [Sides -> SUBSET {"IN", "OUT"}]
      /\ Blocked'
      /\ Flight(s)' = Append(Flight(s), m)
      /\ Flight(Peer[s])' = Tail(Flight(Peer[s]))
      /\ \A r \in Sides \ {s, Peer[s]} : Flight(r)' = Flight(r)
  BY <1>2, <1>5, <1>6, AnswerKeeps
<1>8. Types' BY <1>2, <1>3, <1>7 DEF Types
<1>9. OpenIsKnown' BY <1>2 DEF OpenIsKnown, PasswordOf
<1>10. Lanes'
  <2> SUFFICES ASSUME Mutual PROVE Lane(s)' /\ Lane(Peer[s])' /\ skipped'[s] = {}
    BY <1>2, <1>3, <1>7, LanesAfter
  <2>1. skipped[s] = {} BY DEF Lanes
  <2>2. Script(Phase(s) + 1) = "CAPS" /\ Phase(s) \in 0 .. 2 BY <1>2, InOrder
  <2>3. Phase(s) = 0 BY <2>2 DEF Script
  <2>4. Phase(s)' = 1 /\ Phase(Peer[s])' = Phase(Peer[s])
    BY <1>1, <1>2, <1>3, <2>3 DEF Phase
  <2>5. m.type = Script(Phase(s) + 2) BY <1>5, <2>3 DEF Script
  <2>6. /\ LaneOf(TRUE, TRUE, Phase(s) + 1, Tail(Flight(Peer[s])),
                  up[Peer[s]], gated[Peer[s]], Phase(Peer[s]))
        /\ LaneOf(up[Peer[s]], gated[Peer[s]], Phase(Peer[s]),
                  Append(Flight(s), m), TRUE, TRUE, Phase(s) + 1)
    BY <1>5, <2>5, InOrder
  <2>7. up[s] = TRUE /\ gated[s] = TRUE BY DEF CanReceive, Types
  <2>8. Phase(s) + 1 = 1 BY <2>3
  <2> QED BY <1>1, <1>2, <1>7, <2>1, <2>4, <2>6, <2>7, <2>8 DEF Lane
<1> QED BY <1>7, <1>8, <1>9, <1>10

(* A closed gate is asked: it answers with its user and its hash.           *)
LEMMA RequestStep ==
    ASSUME IInv, NEW s \in Sides, CanReceive(s), gated[s], UNCHANGED ends,
           OnRequest(s, Head(wire[Peer[s]]), Tail(wire[Peer[s]]))
    PROVE  IInv'
<1> USE DEF IInv, Base
<1>1. Peer[s] \in Sides /\ Peer[Peer[s]] = s /\ Peer[s] # s BY PeerAssumption
<1>2. PICK h : h = Head(wire[Peer[s]]) OBVIOUS
<1>3. /\ sessions' = sessions /\ login' = login /\ gated' = gated /\ up' = up
      /\ state' = state /\ nonce' = nonce /\ expires' = expires
      /\ skipped' = skipped /\ asked' = [asked EXCEPT ![s] = h.nonce]
      /\ h.type = "REQUEST"
  BY <1>2 DEF OnRequest, ends
<1>4. h.nonce \in Nat \ {0}
  <2>1. h \in From(login[Peer[s]]) BY <1>2, Arrival
  <2> QED BY <1>3, <2>1, Meaning
<1>5. asked' \in [Sides -> Nat] /\ asked'[s] # 0 /\ \A r \in Sides \ {s} : asked'[r] = asked[r]
  BY <1>3, <1>4 DEF Types
<1>6. PICK m : m = [type |-> "RESPONSE", nonce |-> h.nonce, user |-> login[s].user,
                    hash |-> Hash(login[s].secret, login[s].user, h.nonce)]
  OBVIOUS
<1>7. m \in From(login[s]) /\ m.type = "RESPONSE"
  <2>1. \A n \in Nat : [type |-> "RESPONSE", nonce |-> n, user |-> login[s].user,
                        hash |-> Hash(login[s].secret, login[s].user, n)] \in From(login[s])
    BY Written
  <2> QED BY <1>4, <1>6, <2>1
<1>8. Answer(s, m, Tail(wire[Peer[s]])) BY <1>2, <1>6 DEF OnRequest
<1>9. /\ wire' = [r \in Sides |-> wire'[r]] /\ tx' = [r \in Sides |-> tx'[r]]
      /\ \A r \in Sides : /\ wire'[r] \in Seq(From(login'[r]))
                          /\ tx'[r] \in Seq(From(login'[r]))
      /\ events' \in [Sides -> SUBSET {"IN", "OUT"}]
      /\ Blocked'
      /\ Flight(s)' = Append(Flight(s), m)
      /\ Flight(Peer[s])' = Tail(Flight(Peer[s]))
      /\ \A r \in Sides \ {s, Peer[s]} : Flight(r)' = Flight(r)
  BY <1>3, <1>7, <1>8, AnswerKeeps
<1>10. Types' BY <1>3, <1>5, <1>9 DEF Types
<1>11. OpenIsKnown' BY <1>3 DEF OpenIsKnown, PasswordOf
<1>12. Lanes'
  <2> SUFFICES ASSUME Mutual PROVE Lane(s)' /\ Lane(Peer[s])' /\ skipped'[s] = {}
    BY <1>3, <1>5, <1>9, LanesAfter
  <2>1. skipped[s] = {} BY DEF Lanes
  <2>2. Script(Phase(s) + 1) = "REQUEST" /\ Phase(s) \in 0 .. 2 BY <1>2, <1>3, InOrder
  <2>3. Phase(s) = 1 BY <2>2 DEF Script
  <2>4. Phase(s)' = 2 /\ Phase(Peer[s])' = Phase(Peer[s])
    BY <1>1, <1>3, <1>5 DEF Phase
  <2>5. m.type = Script(Phase(s) + 2) BY <1>7, <2>3 DEF Script
  <2>6. /\ LaneOf(TRUE, TRUE, Phase(s) + 1, Tail(Flight(Peer[s])),
                  up[Peer[s]], gated[Peer[s]], Phase(Peer[s]))
        /\ LaneOf(up[Peer[s]], gated[Peer[s]], Phase(Peer[s]),
                  Append(Flight(s), m), TRUE, TRUE, Phase(s) + 1)
    BY <1>7, <2>5, InOrder
  <2>7. up[s] = TRUE /\ gated[s] = TRUE BY DEF CanReceive, Types
  <2>8. Phase(s) + 1 = 2 BY <2>3
  <2> QED BY <1>1, <1>3, <1>9, <2>1, <2>4, <2>6, <2>7, <2>8 DEF Lane
<1> QED BY <1>9, <1>10, <1>11, <1>12

(* A response that is accepted names a user the gate knows, or none, and    *)
(* has the password on file for it, because the hash of the answer is the hash of the *)
(* password on file.                                                        *)
LEMMA AcceptedStep ==
    ASSUME IInv, NEW s \in Sides, CanReceive(s), gated[s], UNCHANGED ends,
           OnResponseAccepted(s, Head(wire[Peer[s]]), Tail(wire[Peer[s]]))
    PROVE  IInv'
<1> USE DEF IInv, Base
<1>1. Peer[s] \in Sides /\ Peer[Peer[s]] = s /\ Peer[s] # s BY PeerAssumption
<1>2. PICK h : h = Head(wire[Peer[s]]) OBVIOUS
<1>3. /\ sessions' = sessions /\ login' = login /\ gated' = [gated EXCEPT ![s] = FALSE]
      /\ up' = up /\ state' = [state EXCEPT ![s] = Checked(s, h) \cup {"POSITIVE"}]
      /\ nonce' = nonce /\ expires' = [expires EXCEPT ![s] = FALSE]
      /\ skipped' = skipped /\ asked' = asked
      /\ h.type = "RESPONSE" /\ Accepts(s, h)
  BY <1>2 DEF OnResponseAccepted, ends
<1>4. gated'[s] = FALSE /\ \A r \in Sides \ {s} : gated'[r] = gated[r]
  BY <1>3 DEF Types
<1>5. state' \in [Sides -> SUBSET {"INFO", "HASH", "POSITIVE", "NEGATIVE"}]
  <2>1. state[s] \in SUBSET {"INFO", "HASH", "POSITIVE", "NEGATIVE"} BY DEF Types
  <2>2. Checked(s, h) \cup {"POSITIVE"} \in SUBSET {"INFO", "HASH", "POSITIVE", "NEGATIVE"}
    BY <2>1 DEF Checked
  <2> QED BY <1>3, <2>2 DEF Types
<1>6. PICK m : m = [type |-> "STATUS", ok |-> TRUE] OBVIOUS
<1>7. m \in From(login[s]) /\ m.type = "STATUS"
  <2>1. [type |-> "STATUS", ok |-> TRUE] \in From(login[s]) BY Written
  <2> QED BY <1>6, <2>1
<1>8. Answer(s, m, Tail(wire[Peer[s]])) BY <1>6 DEF OnResponseAccepted
<1>9. /\ wire' = [r \in Sides |-> wire'[r]] /\ tx' = [r \in Sides |-> tx'[r]]
      /\ \A r \in Sides : /\ wire'[r] \in Seq(From(login'[r]))
                          /\ tx'[r] \in Seq(From(login'[r]))
      /\ events' \in [Sides -> SUBSET {"IN", "OUT"}]
      /\ Blocked'
      /\ Flight(s)' = Append(Flight(s), m)
      /\ Flight(Peer[s])' = Tail(Flight(Peer[s]))
      /\ \A r \in Sides \ {s, Peer[s]} : Flight(r)' = Flight(r)
  BY <1>3, <1>7, <1>8, AnswerKeeps
<1>10. Types'
  <2>1. gated' \in [Sides -> BOOLEAN] /\ expires' \in [Sides -> BOOLEAN]
    BY <1>3 DEF Types
  <2> QED BY <1>3, <1>5, <1>9, <2>1 DEF Types
<1>11. OpenIsKnown'
  <2>1. h \in From(login[Peer[s]]) BY <1>2, Arrival
  <2>2. /\ h.user = login[Peer[s]].user
        /\ \E n \in Nat : h.hash = Hash(login[Peer[s]].secret, login[Peer[s]].user, n)
    BY <1>3, <2>1, Meaning
  <2>3. h.user \in DOMAIN Known[s] \cup {Nameless} BY <1>3 DEF Accepts, Checked
  <2>4. h.hash = Hash(PasswordOf(s, h.user), h.user, h.nonce) BY <1>3 DEF Accepts
  <2>5. PasswordOf(s, h.user) = login[Peer[s]].secret BY <2>2, <2>4 DEF Hash
  <2>6. login[Peer[s]].secret = PasswordOf(s, login[Peer[s]].user) BY <2>2, <2>5
  <2>7. sessions \subseteq Sides BY DEF Types
  <2> QED BY <1>3, <1>4, <2>2, <2>3, <2>6, <2>7 DEF OpenIsKnown, PasswordOf
<1>12. Lanes'
  <2> SUFFICES ASSUME Mutual PROVE Lane(s)' /\ Lane(Peer[s])' /\ skipped'[s] = {}
    BY <1>3, <1>4, <1>9, LanesAfter
  <2>1. skipped[s] = {} BY DEF Lanes
  <2>2. Script(Phase(s) + 1) = "RESPONSE" /\ Phase(s) \in 0 .. 2 BY <1>2, <1>3, InOrder
  <2>3. Phase(s) = 2 BY <2>2 DEF Script
  <2>4. Phase(s)' = Phase(s) /\ Phase(Peer[s])' = Phase(Peer[s]) BY <1>3 DEF Phase
  <2>5. m.type = Script(Phase(s) + 2) BY <1>7, <2>3 DEF Script
  <2>6. LaneOf(up[Peer[s]], gated[Peer[s]], Phase(Peer[s]),
               Append(Flight(s), m), TRUE, FALSE, Phase(s))
    BY <1>7, <2>3, <2>5, InOrder
  <2>7. up[s] = TRUE BY DEF CanReceive, Types
  <2>8. Lane(s)' BY <1>4 DEF Lane, LaneOf
  <2>9. Lane(Peer[s])' BY <1>1, <1>3, <1>4, <1>9, <2>4, <2>6, <2>7 DEF Lane
  <2> QED BY <1>3, <2>1, <2>8, <2>9
<1> QED BY <1>9, <1>10, <1>11, <1>12

(* A response that is refused closes the connection.                        *)
LEMMA RefusedStep ==
    ASSUME IInv, NEW s \in Sides, CanReceive(s), gated[s], UNCHANGED ends,
           OnResponseRefused(s, Head(wire[Peer[s]]), Tail(wire[Peer[s]]))
    PROVE  IInv'
<1> USE DEF IInv, Base
<1>1. Peer[s] \in Sides /\ Peer[Peer[s]] = s /\ Peer[s] # s BY PeerAssumption
<1>2. PICK h : h = Head(wire[Peer[s]]) OBVIOUS
<1>3. /\ sessions' = sessions /\ login' = login /\ gated' = gated
      /\ up' = [up EXCEPT ![s] = FALSE]
      /\ state' = [state EXCEPT ![s] = Checked(s, h) \cup {"NEGATIVE"}]
      /\ nonce' = nonce /\ expires' = expires
      /\ skipped' = skipped /\ asked' = asked
      /\ h.type = "RESPONSE"
  BY <1>2 DEF OnResponseRefused, ends
<1>4. up'[s] = FALSE /\ (\A r \in Sides \ {s} : up'[r] = up[r]) /\ up' \in [Sides -> BOOLEAN]
  BY <1>3 DEF Types
<1>5. state' \in [Sides -> SUBSET {"INFO", "HASH", "POSITIVE", "NEGATIVE"}]
  <2>1. state[s] \in SUBSET {"INFO", "HASH", "POSITIVE", "NEGATIVE"} BY DEF Types
  <2>2. Checked(s, h) \cup {"NEGATIVE"} \in SUBSET {"INFO", "HASH", "POSITIVE", "NEGATIVE"}
    BY <2>1 DEF Checked
  <2> QED BY <1>3, <2>2 DEF Types
<1>6. PICK m : m = [type |-> "STATUS", ok |-> FALSE] OBVIOUS
<1>7. m \in From(login[s]) /\ m.type = "STATUS"
  <2>1. [type |-> "STATUS", ok |-> FALSE] \in From(login[s]) BY Written
  <2> QED BY <1>6, <2>1
<1>8. Answer(s, m, Tail(wire[Peer[s]])) BY <1>6 DEF OnResponseRefused
<1>9. /\ wire' = [r \in Sides |-> wire'[r]] /\ tx' = [r \in Sides |-> tx'[r]]
      /\ \A r \in Sides : /\ wire'[r] \in Seq(From(login'[r]))
                          /\ tx'[r] \in Seq(From(login'[r]))
      /\ events' \in [Sides -> SUBSET {"IN", "OUT"}]
      /\ Blocked'
      /\ Flight(s)' = Append(Flight(s), m)
      /\ Flight(Peer[s])' = Tail(Flight(Peer[s]))
      /\ \A r \in Sides \ {s, Peer[s]} : Flight(r)' = Flight(r)
  BY <1>3, <1>4, <1>7, <1>8, AnswerKeeps
<1>10. Types' BY <1>3, <1>4, <1>5, <1>9 DEF Types
<1>11. OpenIsKnown' BY <1>3 DEF OpenIsKnown, PasswordOf
<1>12. Lanes'
  <2> SUFFICES ASSUME Mutual PROVE Lane(s)' /\ Lane(Peer[s])' /\ skipped'[s] = {}
    BY <1>3, <1>4, <1>9, LanesAfter
  <2>1. skipped[s] = {} BY DEF Lanes
  <2>2. Script(Phase(s) + 1) = "RESPONSE" /\ Phase(s) \in 0 .. 2 BY <1>2, <1>3, InOrder
  <2>3. Phase(s) = 2 BY <2>2 DEF Script
  <2>4. Phase(s)' = Phase(s) /\ Phase(Peer[s])' = Phase(Peer[s]) BY <1>3 DEF Phase
  <2>5. m.type = Script(Phase(s) + 2) BY <1>7, <2>3 DEF Script
  <2>6. LaneOf(up[Peer[s]], gated[Peer[s]], Phase(Peer[s]),
               Append(Flight(s), m), FALSE, TRUE, Phase(s))
    BY <1>7, <2>3, <2>5, InOrder
  <2>7. gated[s] = TRUE BY DEF Types
  <2>8. Lane(s)' BY <1>4 DEF Lane, LaneOf
  <2>9. Lane(Peer[s])' BY <1>1, <1>3, <1>4, <1>9, <2>4, <2>6, <2>7 DEF Lane
  <2> QED BY <1>3, <2>1, <2>8, <2>9
<1> QED BY <1>9, <1>10, <1>11, <1>12

(* A verdict or data that a closed gate skips: never among ends that both   *)
(* require sessions.                                                        *)
LEMMA OtherStep ==
    ASSUME IInv, NEW s \in Sides, CanReceive(s), gated[s], UNCHANGED ends,
           OnOther(s, Head(wire[Peer[s]]), Tail(wire[Peer[s]]))
    PROVE  IInv'
<1> USE DEF IInv, Base
<1>1. Peer[s] \in Sides /\ Peer[Peer[s]] = s /\ Peer[s] # s BY PeerAssumption
<1>2. PICK h : h = Head(wire[Peer[s]]) OBVIOUS
<1>3. /\ sessions' = sessions /\ login' = login /\ gated' = gated /\ up' = up
      /\ state' = state /\ nonce' = nonce /\ expires' = expires
      /\ skipped' = [skipped EXCEPT ![s] = @ \cup {h.type}]
      /\ asked' = asked /\ h.type \in {"STATUS", "DATA"}
  BY <1>2 DEF OnOther, ends
<1>4. PICK f : f = Tail(wire[Peer[s]]) OBVIOUS
<1>5. f \in Seq(From(login[Peer[s]])) /\ Len(f) <= Wire BY <1>4, Arrival
<1>6. Write(s, tx[s], f) /\ tx[s] \in Seq(From(login[s])) BY <1>4 DEF OnOther, Types
<1>7. /\ wire' = [r \in Sides |-> wire'[r]] /\ tx' = [r \in Sides |-> tx'[r]]
      /\ \A r \in Sides : /\ wire'[r] \in Seq(From(login'[r]))
                          /\ tx'[r] \in Seq(From(login'[r]))
      /\ events' \in [Sides -> SUBSET {"IN", "OUT"}]
      /\ Blocked'
  BY <1>3, <1>5, <1>6, WriteKeeps
<1>8. Types'
  <2>1. skipped' \in [Sides -> SUBSET {"STATUS", "DATA"}] BY <1>3 DEF Types
  <2> QED BY <1>3, <1>7, <2>1 DEF Types
<1>9. OpenIsKnown' BY <1>3 DEF OpenIsKnown, PasswordOf
<1>10. Lanes'
  <2>1. ~Mutual
    <3> SUFFICES ASSUME Mutual PROVE FALSE
      OBVIOUS
    <3>1. h.type = Script(Phase(s) + 1) /\ Phase(s) \in 0 .. 2 BY <1>2, InOrder
    <3> QED BY <1>3, <3>1 DEF Script
  <2> QED BY <1>3, <2>1 DEF Lanes, Mutual
<1> QED BY <1>7, <1>8, <1>9, <1>10

-----------------------------------------------------------------------------
(* The theorems                                                             *)

(* What is in flight towards a closed gate continues the handshake's script *)
(* from where that gate is in it, whatever arrives, is flushed late, is     *)
(* refused or hangs up (ioc_auth_rx, abi_mem2fd_task_send).                 *)
THEOREM Invariant == AuthSpec => []IInv
<1>1. AuthInit => IInv BY Initially
<1>2. IInv /\ [AuthNext]_authVars => IInv'
  <2> SUFFICES ASSUME IInv, [AuthNext]_authVars PROVE IInv'
    OBVIOUS
  <2>1. CASE UNCHANGED authVars
    <3>1. \A r \in Sides : Flight(r)' = Flight(r) /\ Phase(r)' = Phase(r)
      BY <2>1 DEF authVars, link, Flight, Phase
    <3>2. Types' BY <2>1 DEF IInv, Base, authVars, ends, link, Types
    <3>3. Blocked' BY <2>1 DEF IInv, Base, authVars, link, Blocked
    <3>4. OpenIsKnown' BY <2>1 DEF IInv, Base, authVars, ends, OpenIsKnown
    <3>5. Lanes'
      BY <2>1, <3>1, PeerAssumption DEF IInv, authVars, ends, Lanes, Lane, Mutual
    <3> QED BY <3>2, <3>3, <3>4, <3>5 DEF IInv, Base
  <2>2. ASSUME NEW s \in Sides, ReceiveGated(s) PROVE IInv'
    BY <2>2, CapsStep, RequestStep, AcceptedStep, RefusedStep, OtherStep DEF ReceiveGated
  <2>3. ASSUME NEW s \in Sides, HangUp(s) \/ Expire(s) PROVE IInv'
    BY <2>3, CloseStep DEF HangUp, Expire
  <2> QED
    BY <2>1, <2>2, <2>3, FlushStep, SendDataStep, ReceiveOpenStep DEF AuthNext
<1> QED BY <1>1, <1>2, PTL DEF AuthSpec

(* A gate opens only for a user this side knows whose password is the one   *)
(* the peer answered with, for every account table, the empty password and  *)
(* the unknown user included; or for a peer that names no user and answers  *)
(* with the empty password.  The peer's responses have the fields that the  *)
(* protocol requires (auth_abi_on_auth_response).                           *)
THEOREM OpensForTheKnown == AuthSpec => []OpenIsKnown
BY Invariant, PTL DEF IInv, Base

(* Two ends that both require sessions do not stall: with nothing in flight *)
(* both gates are open (ioc_auth_rx stops answering once its gate is open). *)
THEOREM NoStall == AuthSpec => []QuietIsOpen
<1>1. IInv => QuietIsOpen
  <2> SUFFICES ASSUME IInv, Mutual, NEW s \in Sides, gated[s],
                      \A r \in Sides : up[r] /\ tx[r] = <<>> /\ wire[r] = <<>>
               PROVE  FALSE
    BY DEF QuietIsOpen
  <2>1. Peer[s] \in Sides /\ Peer[Peer[s]] = s BY PeerAssumption
  <2>2. Lane(s) /\ Lane(Peer[s]) BY <2>1 DEF IInv, Lanes
  <2>3. Then(<<>>, <<>>) = <<>>
    <3>1. <<>> \in Seq({}) OBVIOUS
    <3> QED BY <3>1, ThenProperties
  <2>4. Flight(s) = <<>> /\ Flight(Peer[s]) = <<>> BY <2>1, <2>3 DEF Flight
  <2>5. Len(Flight(s)) = 0 /\ Len(Flight(Peer[s])) = 0 BY <2>4
  <2>6. PICK k \in 0 .. 2 : k = Phase(s) BY DEF Phase
  <2>7. PICK k2 \in 0 .. 2 : k2 = Phase(Peer[s]) BY DEF Phase
  <2>8. CASE gated[Peer[s]]
    <3>1. 0 = 1 + k2 - k /\ 0 = 1 + k - k2
      BY <2>1, <2>2, <2>5, <2>6, <2>7, <2>8 DEF Lane, LaneOf
    <3> QED BY <3>1
  <2>9. CASE ~gated[Peer[s]]
    <3>1. 0 >= 4 - k BY <2>1, <2>2, <2>5, <2>6, <2>9 DEF Lane, LaneOf
    <3> QED BY <3>1
  <2> QED BY <2>8, <2>9
<1> QED BY <1>1, Invariant, PTL

(* Among such ends the first data follows the verdict that opened the       *)
(* sender's gate, so a closed gate skips none of it (ioc_auth_rx).          *)
THEOREM NothingSkipped == AuthSpec => []DataIsHeard
<1>1. IInv => DataIsHeard BY DEF IInv, Lanes, DataIsHeard
<1> QED BY <1>1, Invariant, PTL

----------------------------------------------------------------------------
(* The writers of HTTP streams                                              *)

Writers == [chain : [Slots -> Bufs \cup {None}], put : Slots, get : Slots,
            todo : 0 .. Units, refused : BOOLEAN]
RingTypes ==
    /\ mem \in [Bufs -> Nat] /\ count \in [Bufs -> Int]
    /\ latest \in Bufs \cup {None}
    /\ ring \in [Clients -> Writers]
    /\ offered \in [Clients -> Nat] /\ current \in [Clients -> Nat]

(* Chunks are numbered as they are produced.                                *)
Numbered ==
    /\ \A b \in Bufs : mem[b] <= Produced
    /\ \A c \in Clients : offered[c] <= Produced

Senders(b) == {c \in Clients : Sending(c) /\ ring[c].chain[ring[c].get] = b}
Shape(r) ==
    /\ r.todo > 0 => r.chain[r.get] # None
    /\ r.todo > 0 /\ r.put # r.get => r.chain[r.put] # None
    /\ r.todo = 0 /\ ~r.refused => \A i \in Slots : r.chain[i] = None
    /\ r.todo > 0 /\ ~r.refused /\ r.put = r.get =>
           \A i \in Slots \ {r.get} : r.chain[i] = None
Shapes == \A c \in Clients : Shape(ring[c])
NewestPut == \A c \in Clients :
    Sending(c) /\ ring[c].put # ring[c].get => offered[c] <= mem[ring[c].chain[ring[c].put]]

RingInv == RingTypes /\ Numbered /\ Shapes /\ NewestPut /\ CountsAreSenders /\ StaysWhole

-----------------------------------------------------------------------------
(* The operators on a ring                                                  *)

(* Slots stay in the ring.                                                  *)
LEMMA SlotTypes ==
    /\ 0 \in Slots
    /\ \A i \in Slots : Up(i) \in Slots /\ Down(i) \in Slots
    /\ \A r \in Writers : Slot(r) \in Slots
    /\ Empty \in Writers /\ Shape(Empty)
<1>1. 0 \in Slots /\ \A i \in Slots : Up(i) \in Slots /\ Down(i) \in Slots
  BY ChunkAssumption DEF Slots, Up, Down
<1>2. \A r \in Writers : Slot(r) \in Slots
  BY <1>1 DEF Writers, Slot
<1>3. Empty \in Writers /\ Shape(Empty)
  BY <1>1, ChunkAssumption DEF Writers, Empty, Shape
<1> QED BY <1>1, <1>2, <1>3

(* A chunk that is added to a ring in which nothing is sent is sent.        *)
LEMMA BegunShape ==
    ASSUME NEW r \in Writers, Shape(r), NEW b \in Bufs, r.todo = 0,
           NEW s, s = Begun(Added(r, b))
    PROVE  /\ s \in Writers /\ Shape(s)
           /\ s.todo > 0 /\ s.put = s.get /\ s.chain[s.get] = b
<1>1. PICK k \in Slots : k = Slot(r) BY SlotTypes
<1>2. PICK a : a = Added(r, b) OBVIOUS
<1>3. /\ a \in Writers /\ a.chain = [r.chain EXCEPT ![k] = b] /\ a.put = k
      /\ a.refused = r.refused
  BY <1>1, <1>2 DEF Added, Writers
<1>4. /\ s \in Writers /\ s.chain = a.chain /\ s.put = k /\ s.get = k
      /\ s.todo = Units /\ s.refused = r.refused
  <2>1. s = [a EXCEPT !.get = a.put, !.todo = Units] BY <1>2 DEF Begun
  <2>2. Units \in 0 .. Units BY ChunkAssumption
  <2> QED BY <1>3, <2>1, <2>2 DEF Writers
<1> QED BY <1>3, <1>4, ChunkAssumption DEF Writers, Shape

(* A chunk that is added while another is sent waits in the put slot.       *)
LEMMA AddedShape ==
    ASSUME NEW r \in Writers, Shape(r), NEW b \in Bufs, r.todo > 0, r.chain[Slot(r)] = None,
           NEW s, s = Added(r, b)
    PROVE  /\ s \in Writers /\ Shape(s)
           /\ s.todo = r.todo /\ s.get = r.get /\ s.chain[s.get] = r.chain[r.get]
           /\ s.put # s.get /\ s.chain[s.put] = b
<1>1. PICK k \in Slots : k = Slot(r) BY SlotTypes
<1>2. /\ s \in Writers /\ s.chain = [r.chain EXCEPT ![k] = b] /\ s.put = k /\ s.get = r.get
      /\ s.todo = r.todo /\ s.refused = r.refused
  BY <1>1, ChunkAssumption DEF Added, Writers
<1>3. k # r.get BY <1>1 DEF Shape
<1> QED BY <1>2, <1>3, ChunkAssumption DEF Writers, Shape

(* After a chunk the ring goes on with the chunk in the put slot, when that *)
(* is another one, and rests otherwise.                                     *)
LEMMA AfterShape ==
    ASSUME NEW r \in Writers, Shape(r), r.todo = 1,
           NEW s, s = Restarted(After(r))
    PROVE  /\ s \in Writers /\ Shape(s) /\ s.put = s.get
           /\ s.todo = 0 <=> r.put = r.get
           /\ s.todo = 0 <=> s.chain[s.get] = None
           /\ s.todo > 0 => s.chain[s.get] = r.chain[r.put]
<1>1. PICK f \in Writers : f = Freed(r)
  BY ChunkAssumption DEF Freed, Writers
<1>2. /\ f.chain = [r.chain EXCEPT ![r.get] = None] /\ f.put = r.put /\ f.get = r.get
      /\ f.todo = 1 /\ f.refused = r.refused
  BY <1>1 DEF Freed, Writers
<1>3. CASE r.put = r.get
  <2>1. After(r) = f BY <1>1, <1>3 DEF After
  <2>2. /\ s \in Writers /\ s.chain = f.chain /\ s.put = r.put /\ s.get = r.get
        /\ s.todo = 0 /\ s.refused = r.refused
    BY <1>2, <1>3, <2>1, ChunkAssumption DEF Restarted, Writers
  <2> QED BY <1>2, <1>3, <2>2, ChunkAssumption DEF Writers, Shape
<1>4. CASE r.put # r.get
  <2>1. r.chain[r.put] # None /\ f.chain[r.put] = r.chain[r.put]
    BY <1>2, <1>4 DEF Shape, Writers
  <2>2. Newest(f) = r.put
    BY <1>2, <2>1 DEF Newest
  <2>3. PICK o : o = Only(f, {r.put}) OBVIOUS
  <2>4. /\ o \in Writers /\ o.chain = [i \in Slots |-> IF i = r.put THEN f.chain[i] ELSE None]
        /\ o.put = r.put /\ o.refused = r.refused
    BY <1>2, <2>3 DEF Only, Writers
  <2>5. PICK g : g = After(r) OBVIOUS
  <2>6. g = [o EXCEPT !.get = r.put]
    BY <1>1, <1>4, <2>2, <2>3, <2>5 DEF After
  <2>7. /\ g \in Writers /\ g.chain = o.chain
        /\ g.put = r.put /\ g.get = r.put /\ g.refused = r.refused
    BY <2>4, <2>6 DEF Writers
  <2>8. /\ s \in Writers /\ s.chain = g.chain /\ s.put = r.put /\ s.get = r.put
        /\ s.todo = Units /\ s.refused = r.refused
    BY <2>1, <2>4, <2>5, <2>7, ChunkAssumption DEF Restarted, Writers
  <2> QED BY <1>4, <2>1, <2>4, <2>7, <2>8, ChunkAssumption DEF Writers, Shape
<1> QED BY <1>3, <1>4

-----------------------------------------------------------------------------
(* The number of senders                                                    *)

(* Nobody sends a buffer with a count of 0.                                 *)
LEMMA NoSender ==
    ASSUME CountsAreSenders, NEW b \in Bufs, count[b] = 0
    PROVE  \A c \in Clients : Sending(c) => ring[c].chain[ring[c].get] # b
<1>1. IsFiniteSet(Senders(b))
  BY FS_Subset, ChunkAssumption DEF Senders
<1>2. Senders(b) = {}
  BY <1>1, FS_EmptySet DEF CountsAreSenders, Senders
<1> QED BY <1>2 DEF Senders

(* When the ring of one client changes, the senders of a buffer change by   *)
(* that client.                                                             *)
LEMMA Recount ==
    ASSUME NEW b \in Bufs, NEW c \in Clients,
           \A d \in Clients \ {c} : ring'[d] = ring[d]
    PROVE  Cardinality(Senders(b)') = Cardinality(Senders(b))
               - (IF c \in Senders(b) THEN 1 ELSE 0) + (IF c \in Senders(b)' THEN 1 ELSE 0)
<1> DEFINE Others == Senders(b) \ {c}
<1>1. IsFiniteSet(Senders(b)) /\ IsFiniteSet(Others)
  BY FS_Subset, ChunkAssumption DEF Senders
<1>2. /\ Cardinality(Senders(b)) \in Nat /\ Cardinality(Others) \in Nat
      /\ Cardinality(Others) = Cardinality(Senders(b)) - (IF c \in Senders(b) THEN 1 ELSE 0)
  BY <1>1, FS_RemoveElement, FS_CardinalityType
<1>3. CASE c \in Senders(b)'
  <2>1. Senders(b)' = Others \cup {c} BY <1>3 DEF Senders, Sending
  <2>2. Cardinality(Others \cup {c}) = Cardinality(Others) + 1
    BY <1>1, FS_AddElement
  <2> HIDE DEF Others
  <2> QED BY <1>2, <1>3, <2>1, <2>2
<1>4. CASE c \notin Senders(b)'
  <2>1. Senders(b)' = Others BY <1>4 DEF Senders, Sending
  <2> HIDE DEF Others
  <2> QED BY <1>2, <1>4, <2>1
<1> QED BY <1>3, <1>4

(* What holds of the count of a buffer after the ring of a client changed.  *)
LEMMA CountsKept ==
    ASSUME CountsAreSenders, NEW c \in Clients,
           \A d \in Clients \ {c} : ring'[d] = ring[d],
           \A b \in Bufs : count'[b] = count[b]
               - (IF c \in Senders(b) THEN 1 ELSE 0) + (IF c \in Senders(b)' THEN 1 ELSE 0)
    PROVE  CountsAreSenders'
<1> SUFFICES ASSUME NEW b \in Bufs PROVE count'[b] = Cardinality(Senders(b)')
  BY DEF CountsAreSenders, Senders
<1>1. count[b] = Cardinality(Senders(b)) BY DEF CountsAreSenders, Senders
<1> QED BY <1>1, Recount

(* ... and of all that a client's writer does not touch.                    *)
LEMMA OthersKept ==
    ASSUME RingInv, NEW c \in Clients, NEW r \in Writers, Shape(r),
           ring' = [ring EXCEPT ![c] = r], UNCHANGED <<mem, latest>>,
           offered' = offered \/ offered' = [offered EXCEPT ![c] = Produced],
           current' = current \/ \E n \in Nat : current' = [current EXCEPT ![c] = n],
           count' \in [Bufs -> Int],
           r.todo > 0 => current'[c] = mem[r.chain[r.get]],
           r.todo > 0 /\ r.put # r.get => offered'[c] <= mem[r.chain[r.put]]
    PROVE  RingTypes' /\ Numbered' /\ Shapes' /\ NewestPut' /\ StaysWhole'
<1> USE DEF RingInv
<1>1. Produced \in Nat /\ Produced' = Produced
  BY DEF RingTypes, Produced
<1>2. RingTypes' BY <1>1 DEF RingTypes
<1>3. Numbered' BY <1>1 DEF RingTypes, Numbered
<1>4. ring'[c] = r /\ \A d \in Clients \ {c} :
          ring'[d] = ring[d] /\ offered'[d] = offered[d] /\ current'[d] = current[d]
  BY DEF RingTypes
<1>5. Shapes' BY <1>4 DEF Shapes
<1>6. NewestPut' BY <1>4 DEF NewestPut, Sending
<1>7. StaysWhole' BY <1>4 DEF StaysWhole, Sending
<1> QED BY <1>2, <1>3, <1>5, <1>6, <1>7

-----------------------------------------------------------------------------
(* The steps                                                                *)

(* The initial state.                                                       *)
LEMMA RingInitially == ChunkInit => RingInv
<1> SUFFICES ASSUME ChunkInit PROVE RingInv OBVIOUS
<1> USE DEF ChunkInit
<1>1. RingTypes BY SlotTypes DEF RingTypes
<1>2. Numbered BY DEF Numbered, Produced
<1>3. \A c \in Clients : ring[c] = Empty /\ ring[c].todo = 0 BY DEF Empty
<1>4. Shapes BY <1>3, SlotTypes DEF Shapes
<1>5. NewestPut /\ StaysWhole BY <1>3 DEF NewestPut, StaysWhole, Sending
<1>6. CountsAreSenders
  <2> SUFFICES ASSUME NEW b \in Bufs PROVE count[b] = Cardinality(Senders(b))
    BY DEF CountsAreSenders, Senders
  <2>1. Senders(b) = {} BY <1>3 DEF Senders, Sending
  <2> QED BY <2>1, FS_EmptySet
<1> QED BY <1>1, <1>2, <1>4, <1>5, <1>6 DEF RingInv

(* A new chunk is put in a buffer that nobody sends.                        *)
LEMMA ProduceKeeps == ASSUME RingInv, NEW b \in Bufs, Produce(b) PROVE RingInv'
<1> USE DEF RingInv, Produce
<1>1. Produced \in Nat BY DEF RingTypes, Produced
<1>2. RingTypes' BY <1>1 DEF RingTypes
<1>3. Produced' = Produced + 1 /\ \A x \in Bufs : x # b => mem'[x] = mem[x]
  BY ChunkAssumption DEF RingTypes, Produced
<1>4. mem'[b] = Produced + 1 BY DEF RingTypes
<1>5. Numbered' BY <1>1, <1>3, <1>4 DEF RingTypes, Numbered
<1>6. Shapes' BY DEF Shapes
<1>7. \A c \in Clients : ring[c] \in Writers BY DEF RingTypes
<1>8. NewestPut'
  <2> SUFFICES ASSUME NEW c \in Clients, Sending(c), ring[c].put # ring[c].get
               PROVE  offered[c] <= mem'[ring[c].chain[ring[c].put]]
    BY DEF NewestPut, Sending
  <2>1. ring[c].chain[ring[c].put] \in Bufs
    BY <1>7 DEF Shapes, Shape, Sending, Writers
  <2>2. offered[c] \in Nat /\ offered[c] <= Produced BY DEF RingTypes, Numbered
  <2>3. offered[c] <= mem[ring[c].chain[ring[c].put]] BY DEF NewestPut
  <2> QED BY <1>1, <1>3, <1>4, <2>1, <2>2, <2>3
<1>9. StaysWhole'
  <2> SUFFICES ASSUME NEW c \in Clients, Sending(c)
               PROVE  mem'[ring[c].chain[ring[c].get]] = current[c]
    BY DEF StaysWhole, Sending
  <2>1. ring[c].chain[ring[c].get] \in Bufs \ {b}
    BY <1>7, NoSender DEF Shapes, Shape, Sending, Writers
  <2> QED BY <1>3, <2>1 DEF StaysWhole
<1>10. CountsAreSenders' BY DEF CountsAreSenders, Sending
<1> QED BY <1>2, <1>5, <1>6, <1>8, <1>9, <1>10

(* A client gets the newest chunk, to send at once or later.                *)
LEMMA AddKeeps == ASSUME RingInv, NEW c \in Clients, Add(c) PROVE RingInv'
<1> DEFINE r == ring[c]
<1>1. r \in Writers /\ Shape(r) /\ \A d \in Clients : ring[d] \in Writers
  BY DEF RingInv, RingTypes, Shapes
<1>2. latest \in Bufs /\ Produced = mem[latest] /\ Produced \in Nat
  BY DEF RingInv, RingTypes, Add, Produced
<1>3. /\ offered' = [offered EXCEPT ![c] = Produced] /\ offered'[c] = Produced
      /\ UNCHANGED <<mem, latest>>
  BY DEF Add, RingInv, RingTypes
<1>4. CASE r.todo = 0
  <2>1. PICK s : s = Begun(Added(r, latest)) OBVIOUS
  <2>2. /\ s \in Writers /\ Shape(s)
        /\ s.todo > 0 /\ s.put = s.get /\ s.chain[s.get] = latest
    BY <1>1, <1>2, <1>4, <2>1, BegunShape
  <2>3. /\ ring' = [ring EXCEPT ![c] = s] /\ count' = [count EXCEPT ![latest] = @ + 1]
        /\ current' = [current EXCEPT ![c] = Produced]
    BY <1>4, <2>1 DEF Add
  <2>4. ring'[c] = s /\ \A d \in Clients \ {c} : ring'[d] = ring[d]
    BY <2>3 DEF RingInv, RingTypes
  <2>5. count' \in [Bufs -> Int] /\ current'[c] = Produced
    BY <1>2, <2>3 DEF RingInv, RingTypes
  <2>6. RingTypes' /\ Numbered' /\ Shapes' /\ NewestPut' /\ StaysWhole'
    BY <1>2, <1>3, <2>2, <2>3, <2>5, OthersKept
  <2>7. ASSUME NEW b \in Bufs
        PROVE  /\ c \notin Senders(b)
               /\ c \in Senders(b)' <=> b = latest
               /\ count'[b] = count[b] + (IF b = latest THEN 1 ELSE 0)
    BY <1>4, <2>2, <2>3, <2>4 DEF Senders, Sending, RingInv, RingTypes
  <2>8. CountsAreSenders'
    <3>1. \A b \in Bufs : count'[b] = count[b]
               - (IF c \in Senders(b) THEN 1 ELSE 0) + (IF c \in Senders(b)' THEN 1 ELSE 0)
      BY <2>7 DEF RingInv, RingTypes
    <3> QED BY <2>4, <3>1, CountsKept DEF RingInv
  <2> QED BY <2>6, <2>8 DEF RingInv
<1>5. CASE r.todo # 0
  <2>1. PICK s : s = Added(r, latest) OBVIOUS
  <2>2. r.todo > 0 /\ r.chain[Slot(r)] = None BY <1>1, <1>5, ChunkAssumption DEF Add, Writers
  <2>3. /\ s \in Writers /\ Shape(s)
        /\ s.todo = r.todo /\ s.get = r.get /\ s.chain[s.get] = r.chain[r.get]
        /\ s.put # s.get /\ s.chain[s.put] = latest
    BY <1>1, <1>2, <2>1, <2>2, AddedShape
  <2>4. ring' = [ring EXCEPT ![c] = s] /\ UNCHANGED <<count, current>>
    BY <1>5, <2>1 DEF Add
  <2>5. ring'[c] = s /\ \A d \in Clients \ {c} : ring'[d] = ring[d]
    BY <2>4 DEF RingInv, RingTypes
  <2>6. current'[c] = mem[s.chain[s.get]] /\ count' \in [Bufs -> Int]
    BY <2>2, <2>3, <2>4 DEF RingInv, RingTypes, StaysWhole, Sending
  <2>7. RingTypes' /\ Numbered' /\ Shapes' /\ NewestPut' /\ StaysWhole'
    <3>1. offered'[c] <= mem[s.chain[s.put]] BY <1>2, <1>3, <2>3
    <3>2. current' = current BY <2>4
    <3> HIDE DEF r
    <3> QED BY <1>3, <2>3, <2>4, <2>6, <3>1, <3>2, OthersKept
  <2>8. \A b \in Bufs : c \in Senders(b) <=> c \in Senders(b)'
    BY <2>3, <2>5 DEF Senders, Sending
  <2>9. CountsAreSenders'
    <3>1. \A b \in Bufs : count'[b] = count[b]
               - (IF c \in Senders(b) THEN 1 ELSE 0) + (IF c \in Senders(b)' THEN 1 ELSE 0)
      BY <2>4, <2>8 DEF RingInv, RingTypes
    <3> QED BY <2>5, <3>1, CountsKept DEF RingInv
  <2> QED BY <2>7, <2>9 DEF RingInv
<1> QED BY <1>4, <1>5

(* A full ring refuses the chunk.                                           *)
LEMMA RefuseKeeps == ASSUME RingInv, NEW c \in Clients, Refuse(c) PROVE RingInv'
<1> DEFINE r == ring[c]
<1>1. r \in Writers /\ Shape(r) /\ Produced \in Nat
  BY DEF RingInv, RingTypes, Shapes, Produced
<1>2. PICK s : s = [r EXCEPT !.put = r.get, !.refused = TRUE] OBVIOUS
<1>3. /\ s \in Writers /\ s.chain = r.chain /\ s.put = r.get /\ s.get = r.get
      /\ s.todo = r.todo /\ s.refused = TRUE
  BY <1>1, <1>2 DEF Writers
<1>4. Shape(s) BY <1>1, <1>3 DEF Shape, Writers
<1>5. ring' = [ring EXCEPT ![c] = s]
  BY <1>2 DEF Refuse, RingInv, RingTypes, Writers
<1>6. ring'[c] = s /\ \A d \in Clients \ {c} : ring'[d] = ring[d]
  BY <1>5 DEF RingInv, RingTypes
<1>7. RingTypes' /\ Numbered' /\ Shapes' /\ NewestPut' /\ StaysWhole'
  <2>1. s.todo > 0 => current'[c] = mem[s.chain[s.get]]
    BY <1>3 DEF Refuse, RingInv, StaysWhole, Sending
  <2>2. /\ offered' = [offered EXCEPT ![c] = Produced] /\ current' = current
        /\ UNCHANGED <<mem, latest>> /\ count' \in [Bufs -> Int]
    BY DEF Refuse, RingInv, RingTypes
  <2> HIDE DEF r
  <2> QED BY <1>3, <1>4, <1>5, <2>1, <2>2, OthersKept
<1>8. CountsAreSenders'
  <2>1. \A b \in Bufs : c \in Senders(b) <=> c \in Senders(b)'
    BY <1>3, <1>6 DEF Senders, Sending
  <2>2. \A b \in Bufs : count'[b] = count[b]
             - (IF c \in Senders(b) THEN 1 ELSE 0) + (IF c \in Senders(b)' THEN 1 ELSE 0)
    BY <2>1 DEF Refuse, RingInv, RingTypes
  <2> QED BY <1>6, <2>2, CountsKept DEF RingInv
<1> QED BY <1>7, <1>8 DEF RingInv

(* A part of the chunk is written.                                          *)
LEMMA WritePartKeeps == ASSUME RingInv, NEW c \in Clients, WritePart(c) PROVE RingInv'
<1> DEFINE r == ring[c]
<1>1. /\ r \in Writers /\ Shape(r)
      /\ r.todo \in Nat /\ r.todo > 1 /\ r.todo > 0 /\ r.todo - 1 \in 0 .. Units
  BY ChunkAssumption DEF RingInv, RingTypes, Shapes, WritePart, Writers
<1>2. PICK s : s = [r EXCEPT !.todo = @ - 1] OBVIOUS
<1>3. /\ s \in Writers /\ s.chain = r.chain /\ s.put = r.put /\ s.get = r.get
      /\ s.todo = r.todo - 1 /\ s.todo > 0 /\ s.refused = r.refused
  <2>1. s.todo = r.todo - 1 BY <1>1, <1>2 DEF Writers
  <2> QED BY <1>1, <1>2, <2>1 DEF Writers
<1>4. Shape(s) BY <1>1, <1>3 DEF Shape, Writers
<1>5. ring' = [ring EXCEPT ![c] = s]
  BY <1>2 DEF WritePart, RingInv, RingTypes, Writers
<1>6. ring'[c] = s /\ \A d \in Clients \ {c} : ring'[d] = ring[d]
  BY <1>5 DEF RingInv, RingTypes
<1>7. RingTypes' /\ Numbered' /\ Shapes' /\ NewestPut' /\ StaysWhole'
  <2>1. s.todo > 0 => current'[c] = mem[s.chain[s.get]]
    BY <1>1, <1>3 DEF WritePart, RingInv, StaysWhole, Sending
  <2>2. s.put # s.get => offered'[c] <= mem[s.chain[s.put]]
    BY <1>1, <1>3 DEF WritePart, RingInv, NewestPut, Sending
  <2>3. UNCHANGED <<mem, latest, offered, current>> /\ count' \in [Bufs -> Int]
    BY DEF WritePart, RingInv, RingTypes
  <2> HIDE DEF r
  <2> QED BY <1>3, <1>4, <1>5, <2>1, <2>2, <2>3, OthersKept
<1>8. CountsAreSenders'
  <2>1. \A b \in Bufs : c \in Senders(b) <=> c \in Senders(b)'
    BY <1>1, <1>3, <1>6 DEF Senders, Sending
  <2>2. \A b \in Bufs : count'[b] = count[b]
             - (IF c \in Senders(b) THEN 1 ELSE 0) + (IF c \in Senders(b)' THEN 1 ELSE 0)
    BY <2>1 DEF WritePart, RingInv, RingTypes
  <2> QED BY <1>6, <2>2, CountsKept DEF RingInv
<1> QED BY <1>7, <1>8 DEF RingInv

(* The chunk is written, and the next one begun.                            *)
LEMMA WriteLastKeeps == ASSUME RingInv, NEW c \in Clients, WriteLast(c) PROVE RingInv'
<1> DEFINE r == ring[c]
<1>1. r \in Writers /\ Shape(r) /\ r.todo = 1 /\ r.chain[r.get] \in Bufs
  BY DEF RingInv, RingTypes, Shapes, WriteLast, Writers, Shape
<1>2. PICK s : s = Restarted(After(r)) OBVIOUS
<1>3. /\ s \in Writers /\ Shape(s) /\ s.put = s.get
      /\ s.todo = 0 <=> s.chain[s.get] = None
  BY <1>1, <1>2, AfterShape
<1>4. /\ ring' = [ring EXCEPT ![c] = s]
      /\ count' = [x \in Bufs |-> count[x] - (IF x = r.chain[r.get] THEN 1 ELSE 0)
                                           + (IF x = s.chain[s.get] THEN 1 ELSE 0)]
      /\ current' = IF s.chain[s.get] = None THEN current
                    ELSE [current EXCEPT ![c] = mem[s.chain[s.get]]]
      /\ UNCHANGED <<mem, latest, offered>>
  BY <1>2 DEF WriteLast
<1>5. ring'[c] = s /\ \A d \in Clients \ {c} : ring'[d] = ring[d]
  BY <1>4 DEF RingInv, RingTypes
<1>6. s.todo > 0 => s.chain[s.get] \in Bufs /\ mem[s.chain[s.get]] \in Nat
  BY <1>3 DEF Writers, RingInv, RingTypes
<1>7. s.todo \in Nat /\ (s.todo = 0 \/ s.todo > 0)
  BY <1>3, ChunkAssumption DEF Writers
<1>8. RingTypes' /\ Numbered' /\ Shapes' /\ NewestPut' /\ StaysWhole'
  <2>1. s.todo > 0 => current'[c] = mem[s.chain[s.get]]
    BY <1>3, <1>4, <1>6 DEF RingInv, RingTypes
  <2>2. current' = current \/ \E n \in Nat : current' = [current EXCEPT ![c] = n]
    BY <1>3, <1>4, <1>6, <1>7
  <2>3. count' \in [Bufs -> Int] BY <1>4 DEF RingInv, RingTypes
  <2> HIDE DEF r
  <2> QED BY <1>3, <1>4, <2>1, <2>2, <2>3, OthersKept
<1>9. CountsAreSenders'
  <2>1. \A b \in Bufs : /\ c \in Senders(b) <=> b = r.chain[r.get]
                        /\ c \in Senders(b)' <=> b = s.chain[s.get]
    BY <1>1, <1>3, <1>5, <1>7, ChunkAssumption DEF Senders, Sending
  <2>2. \A b \in Bufs : count'[b] = count[b]
             - (IF c \in Senders(b) THEN 1 ELSE 0) + (IF c \in Senders(b)' THEN 1 ELSE 0)
    BY <1>4, <2>1 DEF RingInv, RingTypes
  <2> QED BY <1>5, <2>2, CountsKept DEF RingInv
<1> QED BY <1>8, <1>9 DEF RingInv

(* A connection is closed, and a new client takes its place.                *)
LEMMA ShutdownKeeps == ASSUME RingInv, NEW c \in Clients, Shutdown(c) PROVE RingInv'
<1> DEFINE r == ring[c]
<1>1. r \in Writers /\ r.todo \in Nat
  BY ChunkAssumption DEF RingInv, RingTypes, Writers
<1>2. Empty \in Writers /\ Shape(Empty) /\ Empty.todo = 0 BY SlotTypes DEF Empty
<1>3. ring' = [ring EXCEPT ![c] = Empty] /\ UNCHANGED <<mem, latest, offered, current>>
  BY DEF Shutdown
<1>4. ring'[c] = Empty /\ \A d \in Clients \ {c} : ring'[d] = ring[d]
  BY <1>3 DEF RingInv, RingTypes
<1>5. ASSUME NEW b \in Bufs
      PROVE  /\ c \in Senders(b) <=> r.todo # 0 /\ b = r.chain[r.get]
             /\ c \notin Senders(b)'
  <2>1. r.todo > 0 <=> r.todo # 0 BY <1>1
  <2>2. ~Sending(c)' BY <1>2, <1>4 DEF Sending
  <2> QED BY <2>1, <2>2 DEF Senders, Sending
<1>6. \A b \in Bufs : count'[b] = count[b]
           - (IF c \in Senders(b) THEN 1 ELSE 0) + (IF c \in Senders(b)' THEN 1 ELSE 0)
  <2> SUFFICES ASSUME NEW b \in Bufs
               PROVE  count'[b] = count[b] - (IF c \in Senders(b) THEN 1 ELSE 0)
                                           + (IF c \in Senders(b)' THEN 1 ELSE 0)
    OBVIOUS
  <2>1. count'[b] = IF r.todo # 0 /\ b = r.chain[r.get] THEN count[b] - 1 ELSE count[b]
    BY DEF Shutdown
  <2>2. count[b] \in Int BY DEF RingInv, RingTypes
  <2> QED BY <1>5, <2>1, <2>2
<1>7. count' \in [Bufs -> Int] BY DEF Shutdown, RingInv, RingTypes
<1>8. RingTypes' /\ Numbered' /\ Shapes' /\ NewestPut' /\ StaysWhole'
  <2>1. PICK s : s = Empty OBVIOUS
  <2>2. ~(s.todo > 0) BY <1>2, <2>1
  <2> QED BY <1>2, <1>3, <1>7, <2>1, <2>2, OthersKept
<1>9. CountsAreSenders' BY <1>4, <1>6, CountsKept DEF RingInv
<1> QED BY <1>8, <1>9 DEF RingInv

(* Every step keeps the invariant.                                          *)
LEMMA NextKeeps == RingInv /\ [ChunkNext]_chunkVars => RingInv'
<1> SUFFICES ASSUME RingInv, [ChunkNext]_chunkVars PROVE RingInv' OBVIOUS
<1>1. CASE ChunkNext
  BY <1>1, ProduceKeeps, AddKeeps, RefuseKeeps, WritePartKeeps, WriteLastKeeps, ShutdownKeeps
     DEF ChunkNext
<1>2. CASE UNCHANGED chunkVars
  BY <1>2 DEF chunkVars, RingInv, RingTypes, Numbered, Shapes, NewestPut, CountsAreSenders,
              StaysWhole, Sending, Produced
<1> QED BY <1>1, <1>2

-----------------------------------------------------------------------------
(* The theorems                                                             *)

(* The inductive invariant.                                                 *)
THEOREM RingInvariant == ChunkSpec => []RingInv
<1> QED BY RingInitially, NextKeeps, PTL DEF ChunkSpec

(* A buffer's count is the number of clients that are sending it: every     *)
(* path of the writers that begins, ends or drops a chunk counts once.      *)
THEOREM CountsRight == ChunkSpec => []CountsAreSenders
<1>1. RingInv => CountsAreSenders BY DEF RingInv
<1> QED BY <1>1, RingInvariant, PTL

(* A producer that only looks at the count never writes over a chunk that   *)
(* is being sent.                                                           *)
THEOREM ChunksStayWhole == ChunkSpec => []StaysWhole
<1>1. RingInv => StaysWhole BY DEF RingInv
<1> QED BY <1>1, RingInvariant, PTL

(* A client that sends nothing has nothing waiting in its ring, unless the  *)
(* ring was full once.                                                      *)
THEOREM NoneIsLeft == ChunkSpec => []NoneLeft
<1>1. RingInv => NoneLeft
  <2> SUFFICES ASSUME RingInv, NEW c \in Clients, ~Sending(c), ~ring[c].refused
               PROVE  Waiting(c) = {}
    BY DEF NoneLeft, RingInv, RingTypes, Writers
  <2>1. ring[c].todo = 0 BY ChunkAssumption DEF Sending, RingInv, RingTypes, Writers
  <2> QED BY <2>1 DEF Waiting, RingInv, Shapes, Shape
<1> QED BY <1>1, RingInvariant, PTL

(* A client that has sent a chunk skips to the newest one it was given.     *)
THEOREM SkipsToNewest == ChunkSpec => NewestNext
<1> DEFINE Skips == \A c \in Clients :
        ring[c].todo = 1 /\ current'[c] # current[c] => current'[c] >= offered[c]
<1>1. RingInv /\ [ChunkNext]_chunkVars => [Skips]_chunkVars
  <2> SUFFICES ASSUME RingInv, ChunkNext, NEW c \in Clients, ring[c].todo = 1,
                      current'[c] # current[c]
               PROVE  current'[c] >= offered[c]
    BY DEF chunkVars
  <2>1. WriteLast(c)
    <3>1. ASSUME NEW b \in Bufs, Produce(b) PROVE FALSE BY <3>1 DEF Produce
    <3>2. ASSUME NEW d \in Clients, Add(d) PROVE FALSE BY <3>2 DEF Add, RingInv, RingTypes
    <3>3. ASSUME NEW d \in Clients, Refuse(d) \/ WritePart(d) \/ Shutdown(d) PROVE FALSE
      BY <3>3 DEF Refuse, WritePart, Shutdown
    <3>4. ASSUME NEW d \in Clients \ {c}, WriteLast(d) PROVE FALSE
      BY <3>4 DEF WriteLast, RingInv, RingTypes
    <3> QED BY <3>1, <3>2, <3>3, <3>4 DEF ChunkNext
  <2>2. PICK s : s = Restarted(After(ring[c])) OBVIOUS
  <2>3. ring[c] \in Writers /\ Shape(ring[c]) BY DEF RingInv, RingTypes, Shapes
  <2>4. /\ s.todo = 0 <=> ring[c].put = ring[c].get
        /\ s.todo = 0 <=> s.chain[s.get] = None
        /\ s.todo > 0 => s.chain[s.get] = ring[c].chain[ring[c].put]
        /\ s.todo \in Nat
    BY <2>2, <2>3, AfterShape, ChunkAssumption DEF Writers
  <2>5. s.chain[s.get] # None /\ current'[c] = mem[s.chain[s.get]]
    BY <2>1, <2>2 DEF WriteLast, RingInv, RingTypes
  <2>6. ring[c].put # ring[c].get /\ current'[c] = mem[ring[c].chain[ring[c].put]]
    BY <2>4, <2>5
  <2>7. ring[c].chain[ring[c].put] \in Bufs
    BY <2>3, <2>6 DEF Shape, Writers
  <2> QED BY <2>6, <2>7 DEF RingInv, NewestPut, Sending, RingTypes
<1> QED BY <1>1, RingInvariant, PTL DEF ChunkSpec, NewestNext
=============================================================================
