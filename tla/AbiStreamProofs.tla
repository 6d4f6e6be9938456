--------------------------- MODULE AbiStreamProofs ---------------------------
(***************************************************************************)
(* What is proved of a connection between two controllers, for all packets, *)
(* sizes of buffers and ways the kernel splits writes and reads: framing is  *)
(* lost only where a command cuts a packet, and without a command the        *)
(* connection is a channel of packets.                                     *)
(*                                                                         *)
(* The argument follows the bytes on their way: those the receiver has read  *)
(* of a packet, those on the wire and those in the send buffer, one behind   *)
(* the other, are whole packets laid end to end.                           *)
(***************************************************************************)
EXTENDS AbiStream, SequenceTheorems, TLAPS

(* A byte is a place in a packet.                                           *)
Bytes == Packets \X Nat
Total(p) == Header + Body[p]

(* One sequence and then another; the first n elements.                     *)
Then(x, y) == x \o y
Front(s, n) == SubSeq(s, 1, n)

(* The packets q lie in the bytes s one behind the other: q[m] from         *)
(* start[m] on, and every byte is a packet's.                               *)
LaidFrom(q, s, start) ==
    /\ start \in [1 .. Len(q) + 1 -> 0 .. Len(s)]
    /\ start[1] = 0 /\ start[Len(q) + 1] = Len(s)
    /\ \A k, m \in 1 .. Len(q) + 1 : k <= m => start[k] <= start[m]
    /\ \A m \in 1 .. Len(q) :
          /\ start[m + 1] = start[m] + Total(q[m])
          /\ \A j \in 1 .. Total(q[m]) : s[start[m] + j] = <<q[m], j>>
    /\ \A i \in 1 .. Len(s) : \E m \in 1 .. Len(q) : start[m] < i /\ i <= start[m + 1]
Laid(q, s) == q \in Seq(Packets) /\ s \in Seq(Bytes) /\ \E start : LaidFrom(q, s, start)

-----------------------------------------------------------------------------
(* Sequences                                                                *)

(* One sequence and then another.                                           *)
LEMMA ThenProperties ==
    ASSUME NEW S, NEW x \in Seq(S), NEW y \in Seq(S)
    PROVE  /\ Then(x, y) \in Seq(S) /\ Len(Then(x, y)) = Len(x) + Len(y)
           /\ \A i \in 1 .. Len(x) + Len(y) :
                  Then(x, y)[i] = IF i <= Len(x) THEN x[i] ELSE y[i - Len(x)]
           /\ Then(x, <<>>) = x /\ Then(<<>>, x) = x
BY ConcatProperties, ConcatEmptySeq DEF Then

(* Three sequences one behind the other.                                    *)
LEMMA ThenAssociative ==
    ASSUME NEW S, NEW x \in Seq(S), NEW y \in Seq(S), NEW z \in Seq(S)
    PROVE  Then(Then(x, y), z) = Then(x, Then(y, z))
<1>1. (x \o y) \o z = x \o (y \o z) BY ConcatAssociative
<1> QED BY <1>1 DEF Then

(* The front of a sequence and the rest make up the sequence.               *)
LEMMA Parts ==
    ASSUME NEW S, NEW q \in Seq(S), NEW n \in 0 .. Len(q)
    PROVE  /\ Front(q, n) \in Seq(S) /\ Len(Front(q, n)) = n
           /\ \A i \in 1 .. n : Front(q, n)[i] = q[i]
           /\ Rest(q, n) \in Seq(S) /\ Len(Rest(q, n)) = Len(q) - n
           /\ \A i \in 1 .. Len(q) - n : Rest(q, n)[i] = q[n + i]
           /\ Then(Front(q, n), Rest(q, n)) = q
<1>1. Len(q) \in Nat /\ \A i \in 1 .. Len(q) : q[i] \in S
  BY LenProperties, ElementOfSeq
<1>2. /\ SubSeq(q, 1, n) \in Seq(S)
      /\ Len(SubSeq(q, 1, n)) = IF 1 <= n THEN n - 1 + 1 ELSE 0
      /\ \A i \in 1 .. n - 1 + 1 : SubSeq(q, 1, n)[i] = q[1 + i - 1]
  <2>1. \A i \in 1 .. n : q[i] \in S BY <1>1
  <2> QED BY <1>1, <2>1, SubSeqProperties
<1>3. /\ SubSeq(q, n + 1, Len(q)) \in Seq(S)
      /\ Len(SubSeq(q, n + 1, Len(q))) = IF n + 1 <= Len(q) THEN Len(q) - (n + 1) + 1 ELSE 0
      /\ \A i \in 1 .. Len(q) - (n + 1) + 1 : SubSeq(q, n + 1, Len(q))[i] = q[n + 1 + i - 1]
  <2>1. \A i \in n + 1 .. Len(q) : q[i] \in S BY <1>1
  <2>2. n + 1 \in Int /\ Len(q) \in Int BY <1>1
  <2> QED BY <2>1, <2>2, SubSeqProperties
<1>4. SubSeq(q, 1, n) \o SubSeq(q, n + 1, Len(q)) = q
  <2>1. 1 \in 1 .. Len(q) + 1 /\ n \in 1 - 1 .. Len(q) /\ Len(q) \in n .. Len(q)
    BY <1>1
  <2> QED BY <2>1, ConcatAdjacentSubSeq, SubSeqFull
<1>5. PICK a : a = SubSeq(q, 1, n) OBVIOUS
<1>6. PICK b : b = SubSeq(q, n + 1, Len(q)) OBVIOUS
<1>7. /\ a \in Seq(S) /\ Len(a) = n /\ \A i \in 1 .. n : a[i] = q[i]
  BY <1>2, <1>5
<1>8. /\ b \in Seq(S) /\ Len(b) = Len(q) - n
      /\ \A i \in 1 .. Len(q) - n : b[i] = q[n + i]
  <2>1. b \in Seq(S) /\ Len(b) = Len(q) - n BY <1>1, <1>3, <1>6
  <2>2. ASSUME NEW i \in 1 .. Len(q) - n PROVE b[i] = q[n + i]
    <3>1. i \in 1 .. Len(q) - (n + 1) + 1 /\ n + 1 + i - 1 = n + i BY <1>1
    <3> QED BY <1>3, <1>6, <3>1
  <2> QED BY <2>1, <2>2
<1> QED BY <1>4, <1>5, <1>6, <1>7, <1>8 DEF Front, Rest, Then

(* A function on 1 .. n is a sequence of n elements.                        *)
LEMMA FunctionIsSeq ==
    ASSUME NEW S, NEW n \in Nat, NEW f \in [1 .. n -> S]
    PROVE  f \in Seq(S) /\ Len(f) = n
<1>1. f \in Seq(S) BY SeqDef
<1>2. DOMAIN f = 1 .. Len(f) /\ Len(f) \in Nat BY <1>1, LenProperties
<1>3. DOMAIN f = 1 .. n OBVIOUS
<1>4. PICK k \in Nat : k = Len(f) /\ 1 .. k = 1 .. n BY <1>2, <1>3
<1>5. k = n BY <1>4
<1> QED BY <1>1, <1>4, <1>5

(* A packet is its header and its body, each byte at its place.             *)
LEMMA BytesAre ==
    ASSUME NEW p \in Packets
    PROVE  /\ HeaderOf(p) \in Seq(Bytes) /\ Len(HeaderOf(p)) = Header
           /\ \A j \in 1 .. Header : HeaderOf(p)[j] = <<p, j>>
           /\ BodyOf(p) \in Seq(Bytes) /\ Len(BodyOf(p)) = Body[p]
           /\ \A j \in 1 .. Body[p] : BodyOf(p)[j] = <<p, Header + j>>
           /\ BytesOf(p) \in Seq(Bytes) /\ Len(BytesOf(p)) = Total(p)
           /\ \A j \in 1 .. Total(p) : BytesOf(p)[j] = <<p, j>>
           /\ Body[p] \in Nat /\ Total(p) \in Nat \ {0} /\ Header \in Nat \ {0}
<1>1. Header \in Nat \ {0} /\ Body[p] \in Nat BY PacketAssumption, SizeAssumption
<1>2. PICK h : h = HeaderOf(p) OBVIOUS
<1>3. h \in [1 .. Header -> Bytes] /\ \A j \in 1 .. Header : h[j] = <<p, j>>
  BY <1>1, <1>2 DEF HeaderOf, Bytes
<1>4. h \in Seq(Bytes) /\ Len(h) = Header
  BY <1>1, <1>3, FunctionIsSeq
<1>5. PICK b : b = BodyOf(p) OBVIOUS
<1>6. b \in [1 .. Body[p] -> Bytes] /\ \A j \in 1 .. Body[p] : b[j] = <<p, Header + j>>
  BY <1>1, <1>5 DEF BodyOf, Bytes
<1>7. b \in Seq(Bytes) /\ Len(b) = Body[p]
  BY <1>1, <1>6, FunctionIsSeq
<1>8. PICK y : y = Then(h, b) OBVIOUS
<1>9. /\ y \in Seq(Bytes) /\ Len(y) = Header + Body[p]
      /\ \A i \in 1 .. Header + Body[p] : y[i] = IF i <= Header THEN h[i] ELSE b[i - Header]
  <2>1. /\ y \in Seq(Bytes) /\ Len(y) = Len(h) + Len(b)
        /\ \A i \in 1 .. Len(h) + Len(b) : y[i] = IF i <= Len(h) THEN h[i] ELSE b[i - Len(h)]
    <3>1. h \in Seq(Bytes) /\ b \in Seq(Bytes) BY <1>4, <1>7
    <3> QED BY <1>8, <3>1, ThenProperties
  <2> QED BY <1>4, <1>7, <2>1
<1>10. ASSUME NEW j \in 1 .. Header + Body[p] PROVE y[j] = <<p, j>>
  <2>1. CASE j <= Header BY <1>1, <1>3, <1>9, <2>1
  <2>2. CASE j > Header
    <3>1. j - Header \in 1 .. Body[p] /\ Header + (j - Header) = j BY <1>1, <2>2
    <3>2. PICK k \in 1 .. Body[p] : k = j - Header /\ Header + k = j BY <3>1
    <3>3. b[k] = <<p, Header + k>> BY <1>6
    <3>4. y[j] = b[k] BY <1>1, <1>9, <2>2, <3>2
    <3> QED BY <3>2, <3>3, <3>4
  <2> QED BY <1>1, <2>1, <2>2
<1>11. y = BytesOf(p) BY <1>2, <1>5, <1>8 DEF BytesOf, Then
<1>12. PICK t : t = Total(p) OBVIOUS
<1>13. t = Header + Body[p] BY <1>12 DEF Total
<1>14. y \in Seq(Bytes) /\ Len(y) = t /\ \A j \in 1 .. t : y[j] = <<p, j>>
  BY <1>9, <1>10, <1>13
<1>15. t \in Nat \ {0} BY <1>1, <1>13
<1> QED BY <1>1, <1>2, <1>3, <1>4, <1>5, <1>6, <1>7, <1>11, <1>12, <1>14, <1>15

-----------------------------------------------------------------------------
(* Packets in a row                                                         *)

(* No packets lie in no bytes.                                              *)
LEMMA LaidNone == Laid(<<>>, <<>>)
<1>1. PICK q : q = <<>> OBVIOUS
<1>2. q \in Seq(Packets) /\ q \in Seq(Bytes) /\ Len(q) = 0 BY <1>1, EmptySeq
<1>3. PICK start : start = [k \in 1 .. 1 |-> 0] OBVIOUS
<1>4. LaidFrom(q, q, start) BY <1>2, <1>3 DEF LaidFrom
<1> QED BY <1>1, <1>2, <1>4 DEF Laid

(* One more packet at the end.                                              *)
LEMMA LaidAppend ==
    ASSUME NEW q, NEW s, NEW p \in Packets, Laid(q, s)
    PROVE  Laid(Append(q, p), Then(s, BytesOf(p)))
<1>1. q \in Seq(Packets) /\ s \in Seq(Bytes) /\ Len(q) \in Nat /\ Len(s) \in Nat
  BY LenProperties DEF Laid
<1>2. PICK start : LaidFrom(q, s, start) BY DEF Laid
<1>3. PICK y \in Seq(Bytes), t \in Nat \ {0} :
           /\ y = BytesOf(p) /\ t = Total(p) /\ Len(y) = t
           /\ \A j \in 1 .. t : y[j] = <<p, j>>
  BY BytesAre
<1>4. PICK r \in Seq(Packets) : r = Append(q, p) BY <1>1, AppendProperties
<1>5. /\ Len(r) = Len(q) + 1 /\ r[Len(q) + 1] = p
      /\ \A m \in 1 .. Len(q) : r[m] = q[m]
  BY <1>1, <1>4, AppendProperties
<1>6. PICK z \in Seq(Bytes) : z = Then(s, y) BY <1>1, ThenProperties
<1>7. /\ Len(z) = Len(s) + t
      /\ \A i \in 1 .. Len(s) + t : z[i] = IF i <= Len(s) THEN s[i] ELSE y[i - Len(s)]
  <2>1. /\ Len(Then(s, y)) = Len(s) + Len(y)
        /\ \A i \in 1 .. Len(s) + Len(y) :
               Then(s, y)[i] = IF i <= Len(s) THEN s[i] ELSE y[i - Len(s)]
    BY <1>1, ThenProperties
  <2>2. Len(y) = t BY <1>3
  <2> QED BY <1>6, <2>1, <2>2, Zenon
<1>8. \A i \in 1 .. Len(s) : z[i] = s[i]
  <2> SUFFICES ASSUME NEW i \in 1 .. Len(s) PROVE z[i] = s[i]
    OBVIOUS
  <2>1. i \in 1 .. Len(s) + t /\ i <= Len(s) BY <1>1, <1>3
  <2> QED BY <1>7, <2>1
<1>9. \A j \in 1 .. t : z[Len(s) + j] = <<p, j>>
  <2> SUFFICES ASSUME NEW j \in 1 .. t PROVE z[Len(s) + j] = <<p, j>>
    OBVIOUS
  <2>1. PICK i : i = Len(s) + j OBVIOUS
  <2>2. i \in 1 .. Len(s) + t /\ ~(i <= Len(s)) /\ i - Len(s) = j BY <1>1, <1>3, <2>1
  <2>3. z[i] = y[j] BY <1>7, <2>2
  <2> QED BY <1>3, <2>1, <2>3
<1>10. PICK st : st = [k \in 1 .. Len(q) + 2 |->
                          IF k <= Len(q) + 1 THEN start[k] ELSE Len(s) + t]
  OBVIOUS
<1>11. /\ \A k \in 1 .. Len(q) + 1 : st[k] = start[k] /\ start[k] \in 0 .. Len(s)
       /\ st[Len(q) + 2] = Len(s) + t
       /\ start[1] = 0 /\ start[Len(q) + 1] = Len(s)
  <2>1. /\ \A k \in 1 .. Len(q) + 1 : start[k] \in 0 .. Len(s)
        /\ start[1] = 0 /\ start[Len(q) + 1] = Len(s)
    BY <1>2 DEF LaidFrom
  <2>2. \A k \in 1 .. Len(q) + 1 : k \in 1 .. Len(q) + 2 /\ k <= Len(q) + 1 BY <1>1
  <2>3. Len(q) + 2 \in 1 .. Len(q) + 2 /\ ~(Len(q) + 2 <= Len(q) + 1) BY <1>1
  <2>4. \A k \in 1 .. Len(q) + 1 : st[k] = start[k] BY <1>10, <2>2
  <2>5. st[Len(q) + 2] = Len(s) + t BY <1>10, <2>3
  <2> QED BY <2>1, <2>4, <2>5
<1>12. LaidFrom(r, z, st)
  <2>1. st \in [1 .. Len(r) + 1 -> 0 .. Len(z)]
    <3>1. Len(r) + 1 = Len(q) + 2 /\ Len(z) = Len(s) + t BY <1>1, <1>5, <1>7
    <3>2. \A k \in 1 .. Len(q) + 2 :
             (IF k <= Len(q) + 1 THEN start[k] ELSE Len(s) + t) \in 0 .. Len(s) + t
      BY <1>1, <1>3, <1>11
    <3> QED BY <1>10, <3>1, <3>2
  <2>2. st[1] = 0 /\ st[Len(r) + 1] = Len(z)
    <3>1. Len(r) + 1 = Len(q) + 2 BY <1>1, <1>5
    <3> QED BY <1>1, <1>7, <1>11, <3>1
  <2>3. \A k, m \in 1 .. Len(r) + 1 : k <= m => st[k] <= st[m]
    <3> SUFFICES ASSUME NEW k \in 1 .. Len(r) + 1, NEW m \in 1 .. Len(r) + 1, k <= m
                 PROVE  st[k] <= st[m]
      OBVIOUS
    <3>1. CASE m <= Len(q) + 1
      <4>1. k \in 1 .. Len(q) + 1 /\ m \in 1 .. Len(q) + 1 BY <1>1, <1>5, <3>1
      <4>2. start[k] <= start[m] BY <1>2, <4>1 DEF LaidFrom
      <4> QED BY <1>11, <4>1, <4>2
    <3>2. CASE m > Len(q) + 1
      <4>1. m = Len(q) + 2 /\ (k = m \/ k \in 1 .. Len(q) + 1) BY <1>1, <1>5, <3>2
      <4> QED BY <1>1, <1>3, <1>11, <4>1
    <3> QED BY <1>1, <1>5, <3>1, <3>2
  <2>4. ASSUME NEW m \in 1 .. Len(r)
        PROVE  /\ st[m + 1] = st[m] + Total(r[m])
               /\ \A j \in 1 .. Total(r[m]) : z[st[m] + j] = <<r[m], j>>
    <3>1. CASE m = Len(q) + 1
      <4>1. r[m] = p /\ st[m] = Len(s) /\ st[m + 1] = Len(s) + t
        BY <1>1, <1>5, <1>11, <3>1
      <4> QED BY <1>3, <1>9, <4>1
    <3>2. CASE m # Len(q) + 1
      <4>1. m \in 1 .. Len(q) /\ m + 1 \in 1 .. Len(q) + 1 /\ m \in 1 .. Len(q) + 1
        BY <1>1, <1>5, <3>2
      <4>2. st[m] = start[m] /\ st[m + 1] = start[m + 1] /\ r[m] = q[m]
            /\ start[m] \in 0 .. Len(s) /\ start[m + 1] \in 0 .. Len(s)
        BY <1>5, <1>11, <4>1
      <4>3. /\ start[m + 1] = start[m] + Total(q[m])
            /\ \A j \in 1 .. Total(q[m]) : s[start[m] + j] = <<q[m], j>>
        BY <1>2, <4>1 DEF LaidFrom
      <4>4. PICK u \in Nat : u = Total(q[m])
        <5>1. q[m] \in Packets BY <1>1, <4>1, ElementOfSeq
        <5> QED BY <5>1, BytesAre
      <4>5. ASSUME NEW j \in 1 .. u PROVE z[start[m] + j] = <<q[m], j>>
        <5>1. start[m] + j \in 1 .. Len(s) BY <1>1, <4>2, <4>3, <4>4
        <5> QED BY <1>8, <4>3, <4>4, <5>1
      <4> QED BY <4>2, <4>3, <4>4, <4>5
    <3> QED BY <3>1, <3>2
  <2>5. ASSUME NEW i \in 1 .. Len(z)
        PROVE  \E m \in 1 .. Len(r) : st[m] < i /\ i <= st[m + 1]
    <3>1. CASE i <= Len(s)
      <4>1. PICK m \in 1 .. Len(q) : start[m] < i /\ i <= start[m + 1]
        BY <1>1, <1>2, <3>1 DEF LaidFrom
      <4>2. m \in 1 .. Len(r) /\ m \in 1 .. Len(q) + 1 /\ m + 1 \in 1 .. Len(q) + 1
        BY <1>1, <1>5
      <4> QED BY <1>11, <4>1, <4>2
    <3>2. CASE i > Len(s)
      <4>1. /\ Len(q) + 1 \in 1 .. Len(r) /\ Len(q) + 1 \in 1 .. Len(q) + 1
            /\ Len(q) + 1 + 1 = Len(q) + 2 /\ i <= Len(s) + t
        BY <1>1, <1>5, <1>7
      <4> QED BY <1>11, <3>2, <4>1
    <3> QED BY <1>1, <1>7, <3>1, <3>2
  <2> QED BY <2>1, <2>2, <2>3, <2>4, <2>5 DEF LaidFrom
<1> QED BY <1>3, <1>4, <1>6, <1>12 DEF Laid

(* The first packet lies at the front; without it the others are laid.      *)
LEMMA LaidFirst ==
    ASSUME NEW q, NEW s, Laid(q, s), s # <<>>
    PROVE  /\ q # <<>> /\ q[1] \in Packets /\ Total(q[1]) \in 0 .. Len(s)
           /\ \A j \in 1 .. Total(q[1]) : s[j] = <<q[1], j>>
           /\ Laid(Tail(q), Rest(s, Total(q[1])))
<1>1. q \in Seq(Packets) /\ s \in Seq(Bytes) /\ Len(q) \in Nat /\ Len(s) \in Nat \ {0}
  BY LenProperties, EmptySeq DEF Laid
<1>2. PICK start : LaidFrom(q, s, start) BY DEF Laid
<1>3. Len(q) # 0 BY <1>1, <1>2 DEF LaidFrom
<1>4. q # <<>> /\ 1 \in 1 .. Len(q) /\ 2 \in 1 .. Len(q) + 1
  <2>1. \A x : x = <<>> => Len(x) = 0 BY EmptySeq
  <2> QED BY <1>1, <1>3, <2>1
<1>5. q[1] \in Packets BY <1>1, <1>4, ElementOfSeq
<1>6. PICK t \in Nat \ {0} : t = Total(q[1]) BY <1>5, BytesAre
<1>7. /\ start[1] = 0 /\ start[2] = t /\ start[2] \in 0 .. Len(s)
      /\ \A j \in 1 .. t : s[0 + j] = <<q[1], j>>
  <2>1. /\ start[1 + 1] = start[1] + Total(q[1])
        /\ \A j \in 1 .. Total(q[1]) : s[start[1] + j] = <<q[1], j>>
    BY <1>2, <1>4 DEF LaidFrom
  <2>2. start[1] = 0 /\ start[2] \in 0 .. Len(s) BY <1>2, <1>4 DEF LaidFrom
  <2> QED BY <1>6, <2>1, <2>2
<1>8. PICK r \in Seq(Packets) : r = Tail(q) BY <1>1, <1>4, HeadTailProperties
<1>9. Len(r) = Len(q) - 1 /\ \A m \in 1 .. Len(q) - 1 : r[m] = q[m + 1]
  BY <1>1, <1>4, <1>8, HeadTailProperties
<1>10. PICK z \in Seq(Bytes) : z = Rest(s, t) BY <1>1, <1>7, Parts
<1>11. Len(z) = Len(s) - t /\ \A i \in 1 .. Len(s) - t : z[i] = s[t + i]
  <2>1. t \in 0 .. Len(s) /\ s \in Seq(Bytes) BY <1>1, <1>7
  <2>2. /\ Len(Rest(s, t)) = Len(s) - t
        /\ \A i \in 1 .. Len(s) - t : Rest(s, t)[i] = s[t + i]
    BY <2>1, Parts
  <2> QED BY <1>10, <2>2
<1>12. PICK st : st = [k \in 1 .. Len(q) |-> start[k + 1] - t] OBVIOUS
<1>13. \A k \in 1 .. Len(q) : /\ st[k] = start[k + 1] - t /\ start[k + 1] \in t .. Len(s)
                              /\ st[k] \in 0 .. Len(s) - t
  <2> SUFFICES ASSUME NEW k \in 1 .. Len(q)
               PROVE  /\ st[k] = start[k + 1] - t /\ start[k + 1] \in t .. Len(s)
                      /\ st[k] \in 0 .. Len(s) - t
    OBVIOUS
  <2>1. k + 1 \in 1 .. Len(q) + 1 /\ 2 <= k + 1 BY <1>1
  <2>2. start[2] <= start[k + 1] /\ start[k + 1] \in 0 .. Len(s)
    BY <1>2, <1>4, <2>1 DEF LaidFrom
  <2>3. st[k] = start[k + 1] - t BY <1>12
  <2>4. PICK c : c = start[k + 1] OBVIOUS
  <2>5. t <= c /\ c \in 0 .. Len(s) BY <1>4, <1>7, <2>2, <2>4
  <2> QED BY <1>1, <2>3, <2>4, <2>5
<1>14. LaidFrom(r, z, st)
  <2>1. st \in [1 .. Len(r) + 1 -> 0 .. Len(z)]
    <3>1. Len(r) + 1 = Len(q) BY <1>1, <1>9
    <3>2. \A k \in 1 .. Len(q) : start[k + 1] - t \in 0 .. Len(z)
      BY <1>11, <1>13
    <3> QED BY <1>12, <3>1, <3>2
  <2>2. st[1] = 0 /\ st[Len(r) + 1] = Len(z)
    <3>1. Len(r) + 1 = Len(q) /\ Len(q) \in 1 .. Len(q) BY <1>1, <1>3, <1>9
    <3>2. start[Len(q) + 1] = Len(s) BY <1>2 DEF LaidFrom
    <3>3. st[1] = start[1 + 1] - t BY <1>4, <1>13
    <3>4. st[Len(q)] = start[Len(q) + 1] - t BY <1>13, <3>1
    <3>5. st[1] = 0 BY <1>6, <1>7, <3>3
    <3> QED BY <1>11, <3>1, <3>2, <3>4, <3>5
  <2>3. \A k, m \in 1 .. Len(r) + 1 : k <= m => st[k] <= st[m]
    <3> SUFFICES ASSUME NEW k \in 1 .. Len(r) + 1, NEW m \in 1 .. Len(r) + 1, k <= m
                 PROVE  st[k] <= st[m]
      OBVIOUS
    <3>1. /\ k \in 1 .. Len(q) /\ m \in 1 .. Len(q) /\ k + 1 \in 1 .. Len(q) + 1
          /\ m + 1 \in 1 .. Len(q) + 1 /\ k + 1 <= m + 1
      BY <1>1, <1>9
    <3>2. start[k + 1] <= start[m + 1] BY <1>2, <3>1 DEF LaidFrom
    <3>3. st[k] = start[k + 1] - t /\ st[m] = start[m + 1] - t
          /\ start[k + 1] \in Int /\ start[m + 1] \in Int
      BY <1>13, <3>1
    <3> QED BY <3>2, <3>3
  <2>4. ASSUME NEW m \in 1 .. Len(r)
        PROVE  /\ st[m + 1] = st[m] + Total(r[m])
               /\ \A j \in 1 .. Total(r[m]) : z[st[m] + j] = <<r[m], j>>
    <3>1. /\ m \in 1 .. Len(q) - 1 /\ m \in 1 .. Len(q) /\ m + 1 \in 1 .. Len(q)
          /\ m + 1 \in Int
      BY <1>1, <1>9
    <3>2. PICK n \in 1 .. Len(q) : n = m + 1 BY <3>1
    <3>3. r[m] = q[n] BY <1>9, <3>1, <3>2
    <3>4. PICK u \in Nat : u = Total(q[n])
      <4>1. q[n] \in Packets BY <1>1, <3>2, ElementOfSeq
      <4> QED BY <4>1, BytesAre
    <3>5. /\ start[n + 1] = start[n] + u
          /\ \A j \in 1 .. u : s[start[n] + j] = <<q[n], j>>
      BY <1>2, <3>2, <3>4 DEF LaidFrom
    <3>6. st[m] = start[n] - t /\ st[n] = start[n + 1] - t
          /\ start[n] \in t .. Len(s) /\ start[n + 1] \in t .. Len(s)
      BY <1>13, <3>1, <3>2
    <3>7. st[n] = st[m] + u BY <3>5, <3>6
    <3>8. ASSUME NEW j \in 1 .. u PROVE z[st[m] + j] = <<q[n], j>>
      <4>1. PICK i : i = st[m] + j OBVIOUS
      <4>2. i \in 1 .. Len(s) - t /\ t + i = start[n] + j
        <5>1. PICK a, b : a = start[n] /\ b = start[n + 1] OBVIOUS
        <5>2. b = a + u /\ a \in t .. Len(s) /\ b \in t .. Len(s) /\ i = a - t + j
          BY <3>5, <3>6, <4>1, <5>1
        <5>3. i \in 1 .. Len(s) - t /\ t + i = a + j BY <1>1, <5>2
        <5> QED BY <5>1, <5>3
      <4>3. z[i] = s[t + i] BY <1>11, <4>2
      <4> QED BY <3>5, <4>1, <4>2, <4>3
    <3> QED BY <3>2, <3>3, <3>4, <3>7, <3>8
  <2>5. ASSUME NEW i \in 1 .. Len(z)
        PROVE  \E m \in 1 .. Len(r) : st[m] < i /\ i <= st[m + 1]
    <3>1. t + i \in 1 .. Len(s) /\ i \in Int /\ i > 0 BY <1>1, <1>11
    <3>2. PICK n \in 1 .. Len(q) : start[n] < t + i /\ t + i <= start[n + 1]
      BY <1>2, <3>1 DEF LaidFrom
    <3>3. n # 1 BY <1>7, <3>1, <3>2
    <3>4. PICK m \in 1 .. Len(r) : n = m + 1 /\ m \in 1 .. Len(q)
      <4>1. n - 1 \in 1 .. Len(r) /\ n = (n - 1) + 1 /\ n - 1 \in 1 .. Len(q)
        BY <1>1, <1>9, <3>3
      <4> QED BY <4>1
    <3>5. st[m] = start[n] - t /\ st[n] = start[n + 1] - t
          /\ start[n] \in Int /\ start[n + 1] \in Int
      BY <1>13, <3>4
    <3>6. st[m] < i /\ i <= st[m + 1] BY <3>1, <3>2, <3>4, <3>5
    <3> QED BY <3>6
  <2> QED BY <2>1, <2>2, <2>3, <2>4, <2>5 DEF LaidFrom
<1>15. Laid(Tail(q), Rest(s, t)) BY <1>8, <1>10, <1>14 DEF Laid
<1> QED BY <1>4, <1>5, <1>6, <1>7, <1>15

(* What is left when the bytes are cut off where a packet begins.           *)
LEMMA LaidCut ==
    ASSUME NEW q, NEW s, NEW n \in 0 .. Len(s), Laid(q, s),
           n = Len(s) \/ s[n + 1][2] = 1
    PROVE  \E r : Laid(r, Front(s, n))
<1>1. q \in Seq(Packets) /\ s \in Seq(Bytes) /\ Len(q) \in Nat /\ Len(s) \in Nat
  BY LenProperties DEF Laid
<1>2. CASE n = Len(s)
  <2>1. Front(s, n) = s BY <1>1, <1>2, SubSeqFull DEF Front
  <2> QED BY <2>1
<1>3. CASE n # Len(s)
  <2>1. n + 1 \in 1 .. Len(s) /\ s[n + 1][2] = 1 BY <1>1, <1>3
  <2>2. PICK start : LaidFrom(q, s, start) BY DEF Laid
  <2>3. PICK m \in 1 .. Len(q) : start[m] < n + 1 /\ n + 1 <= start[m + 1]
    BY <2>1, <2>2 DEF LaidFrom
  <2>4. m \in 1 .. Len(q) + 1 /\ m + 1 \in 1 .. Len(q) + 1 /\ m - 1 \in 0 .. Len(q)
    BY <1>1
  <2>5. start[m] \in 0 .. Len(s) BY <2>2, <2>4 DEF LaidFrom
  (* The cut is where packet m begins.                                      *)
  <2>6. start[m] = n
    <3>1. PICK a, j : a \in 0 .. Len(s) /\ a = start[m] /\ j = n + 1 - a BY <2>5
    <3>2. PICK u : u = Total(q[m]) OBVIOUS
    <3>3. /\ start[m + 1] = a + u
          /\ \A k \in 1 .. u : s[a + k] = <<q[m], k>>
      BY <2>2, <3>1, <3>2 DEF LaidFrom
    <3>4. u \in Nat
      <4>1. q[m] \in Packets BY <1>1, ElementOfSeq
      <4> QED BY <3>2, <4>1, BytesAre
    <3>5. j \in 1 .. u /\ a + j = n + 1
      <4>1. a < n + 1 /\ n + 1 <= a + u BY <2>3, <3>1, <3>3
      <4> QED BY <1>1, <3>1, <3>4, <4>1
    <3>6. s[n + 1] = <<q[m], j>> BY <3>3, <3>5
    <3>7. j = 1 BY <2>1, <3>6
    <3>8. a \in Nat /\ n \in Nat BY <1>1, <3>1
    <3>9. a = n BY <3>5, <3>7, <3>8
    <3> QED BY <3>1, <3>9
  <2>7. PICK r \in Seq(Packets) : r = Front(q, m - 1) BY <1>1, <2>4, Parts
  <2>8. Len(r) = m - 1 /\ \A k \in 1 .. m - 1 : r[k] = q[k]
    <3>1. PICK c \in 0 .. Len(q) : c = m - 1 BY <2>4
    <3>2. Len(Front(q, c)) = c /\ \A k \in 1 .. c : Front(q, c)[k] = q[k]
      BY <1>1, Parts
    <3> QED BY <2>7, <3>1, <3>2
  <2>9. PICK z \in Seq(Bytes) : z = Front(s, n) BY <1>1, Parts
  <2>10. Len(z) = n /\ \A i \in 1 .. n : z[i] = s[i]
    <3>1. /\ Len(Front(s, n)) = n
          /\ \A i \in 1 .. n : Front(s, n)[i] = s[i]
      BY <1>1, Parts
    <3> QED BY <2>9, <3>1
  <2>11. PICK st : st = [k \in 1 .. m |-> start[k]] OBVIOUS
  <2>12. \A k \in 1 .. m : /\ k \in 1 .. Len(q) + 1 /\ st[k] = start[k]
                           /\ start[k] \in 0 .. n
    <3> SUFFICES ASSUME NEW k \in 1 .. m
                 PROVE  k \in 1 .. Len(q) + 1 /\ st[k] = start[k] /\ start[k] \in 0 .. n
      OBVIOUS
    <3>1. k \in 1 .. Len(q) + 1 /\ k <= m BY <1>1, <2>4
    <3>2. start[k] <= start[m] /\ start[k] \in 0 .. Len(s)
      BY <2>2, <2>4, <3>1 DEF LaidFrom
    <3> QED BY <1>1, <2>6, <2>11, <3>1, <3>2
  <2>13. LaidFrom(r, z, st)
    <3>0. Len(r) + 1 = m BY <1>1, <2>8
    <3>1. st \in [1 .. Len(r) + 1 -> 0 .. Len(z)]
      BY <2>10, <2>11, <2>12, <3>0
    <3>2. st[1] = 0 /\ st[Len(r) + 1] = Len(z)
      <4>1. start[1] = 0 BY <2>2 DEF LaidFrom
      <4>2. 1 \in 1 .. m /\ m \in 1 .. m OBVIOUS
      <4> QED BY <2>6, <2>10, <2>12, <3>0, <4>1, <4>2
    <3>3. \A k, l \in 1 .. Len(r) + 1 : k <= l => st[k] <= st[l]
      BY <2>2, <2>12, <3>0 DEF LaidFrom
    <3>4. ASSUME NEW k \in 1 .. Len(r)
          PROVE  /\ st[k + 1] = st[k] + Total(r[k])
                 /\ \A j \in 1 .. Total(r[k]) : z[st[k] + j] = <<r[k], j>>
      <4>1. /\ k \in 1 .. m - 1 /\ k \in 1 .. m /\ k + 1 \in 1 .. m /\ k \in 1 .. Len(q)
        BY <1>1, <3>0
      <4>2. r[k] = q[k] /\ st[k] = start[k] /\ st[k + 1] = start[k + 1]
            /\ start[k] \in 0 .. n /\ start[k + 1] \in 0 .. n
        BY <2>8, <2>12, <4>1
      <4>3. PICK u \in Nat : u = Total(q[k])
        <5>1. q[k] \in Packets BY <1>1, <4>1, ElementOfSeq
        <5> QED BY <5>1, BytesAre
      <4>4. /\ start[k + 1] = start[k] + u
            /\ \A j \in 1 .. u : s[start[k] + j] = <<q[k], j>>
        BY <2>2, <4>1, <4>3 DEF LaidFrom
      <4>5. \A j \in 1 .. u : start[k] + j \in 1 .. n
        <5>1. PICK a, b : a = start[k] /\ b = start[k + 1] OBVIOUS
        <5>2. a \in 0 .. n /\ b \in 0 .. n /\ b = a + u BY <4>2, <4>4, <5>1
        <5>3. \A j \in 1 .. u : a + j \in 1 .. n BY <1>1, <5>2
        <5> QED BY <5>1, <5>3
      <4>6. \A j \in 1 .. u : z[start[k] + j] = <<q[k], j>>
        BY <2>10, <4>4, <4>5
      <4> QED BY <4>2, <4>3, <4>4, <4>6
    <3>5. ASSUME NEW i \in 1 .. Len(z)
          PROVE  \E k \in 1 .. Len(r) : st[k] < i /\ i <= st[k + 1]
      <4>1. i \in 1 .. Len(s) /\ i \in 1 .. n BY <1>1, <2>10
      <4>2. PICK k \in 1 .. Len(q) : start[k] < i /\ i <= start[k + 1]
        BY <2>2, <4>1 DEF LaidFrom
      <4>3. k < m
        <5> SUFFICES ASSUME m <= k PROVE FALSE
          BY <1>1
        <5>1. k \in 1 .. Len(q) + 1 BY <1>1
        <5>2. start[m] <= start[k] /\ start[k] \in 0 .. Len(s)
          BY <2>2, <2>4, <5>1 DEF LaidFrom
        <5> QED BY <1>1, <2>6, <4>1, <4>2, <5>2
      <4>4. k \in 1 .. Len(r) /\ k \in 1 .. m /\ k + 1 \in 1 .. m BY <1>1, <3>0, <4>3
      <4> QED BY <2>12, <4>2, <4>4
    <3> QED BY <3>1, <3>2, <3>3, <3>4, <3>5 DEF LaidFrom
  <2> QED BY <2>7, <2>9, <2>13 DEF Laid
<1> QED BY <1>2, <1>3

-----------------------------------------------------------------------------
(* What is on the way                                                       *)

(* The bytes h of a header and b of a body received, w on the wire and t in  *)
(* the send buffer.                                                         *)
Flow(h, b, w, t) == Then(Then(h, b), Then(w, t))

(* Its bytes, of which the last are the send buffer's.                      *)
LEMMA FlowProperties ==
    ASSUME NEW S, NEW h \in Seq(S), NEW b \in Seq(S), NEW w \in Seq(S), NEW t \in Seq(S)
    PROVE  /\ Flow(h, b, w, t) \in Seq(S)
           /\ Len(Flow(h, b, w, t)) = Len(h) + Len(b) + Len(w) + Len(t)
           /\ \A i \in 1 .. Len(t) : Flow(h, b, w, t)[Len(h) + Len(b) + Len(w) + i] = t[i]
<1>1. Len(h) \in Nat /\ Len(b) \in Nat /\ Len(w) \in Nat /\ Len(t) \in Nat
  BY LenProperties
<1>2. PICK x \in Seq(S) : /\ x = Then(h, b) /\ Len(x) = Len(h) + Len(b)
                          /\ \A i \in 1 .. Len(h) + Len(b) :
                                x[i] = IF i <= Len(h) THEN h[i] ELSE b[i - Len(h)]
  BY ThenProperties
<1>3. PICK y \in Seq(S) : /\ y = Then(w, t) /\ Len(y) = Len(w) + Len(t)
                          /\ \A i \in 1 .. Len(w) + Len(t) :
                                y[i] = IF i <= Len(w) THEN w[i] ELSE t[i - Len(w)]
  BY ThenProperties
<1>4. PICK f \in Seq(S) : /\ f = Then(x, y) /\ Len(f) = Len(x) + Len(y)
                          /\ \A i \in 1 .. Len(x) + Len(y) :
                                f[i] = IF i <= Len(x) THEN x[i] ELSE y[i - Len(x)]
  <2>1. x \in Seq(S) /\ y \in Seq(S) BY <1>2, <1>3
  <2> QED BY <2>1, ThenProperties
<1>5. f = Flow(h, b, w, t) BY <1>2, <1>3, <1>4 DEF Flow
<1>6. Len(f) = Len(h) + Len(b) + Len(w) + Len(t) BY <1>1, <1>2, <1>3, <1>4
<1>7. ASSUME NEW i \in 1 .. Len(t) PROVE f[Len(h) + Len(b) + Len(w) + i] = t[i]
  <2>1. PICK k, l : k = Len(h) + Len(b) + Len(w) + i /\ l = Len(w) + i OBVIOUS
  <2>2. k \in 1 .. Len(x) + Len(y) /\ ~(k <= Len(x)) /\ k - Len(x) = l
        /\ l \in 1 .. Len(w) + Len(t) /\ ~(l <= Len(w)) /\ l - Len(w) = i
    BY <1>1, <1>2, <1>3, <2>1
  <2>3. f[k] = y[l] /\ y[l] = t[i] BY <1>3, <1>4, <2>2
  <2> QED BY <2>1, <2>3
<1> QED BY <1>4, <1>5, <1>6, <1>7

(* A write takes the first n bytes of y, which are put behind the wire.     *)
LEMMA FlowWrite ==
    ASSUME NEW S, NEW h \in Seq(S), NEW b \in Seq(S), NEW w \in Seq(S),
           NEW y \in Seq(S), NEW n \in 0 .. Len(y)
    PROVE  Flow(h, b, Then(w, Front(y, n)), Rest(y, n)) = Flow(h, b, w, y)
<1>1. PICK f \in Seq(S), r \in Seq(S) : f = Front(y, n) /\ r = Rest(y, n)
  BY Parts
<1>2. Then(f, r) = y BY <1>1, Parts
<1>3. Then(Then(w, f), r) = Then(w, Then(f, r)) BY ThenAssociative
<1> QED BY <1>1, <1>2, <1>3 DEF Flow

(* What the buffer takes comes last.                                        *)
LEMMA FlowAppend ==
    ASSUME NEW S, NEW h \in Seq(S), NEW b \in Seq(S), NEW w \in Seq(S),
           NEW t \in Seq(S), NEW y \in Seq(S)
    PROVE  Flow(h, b, w, Then(t, y)) = Then(Flow(h, b, w, t), y)
<1>1. Then(w, Then(t, y)) = Then(Then(w, t), y) BY ThenAssociative
<1>2. PICK x \in Seq(S), v \in Seq(S) : x = Then(h, b) /\ v = Then(w, t)
  BY ThenProperties
<1>3. Then(Then(x, v), y) = Then(x, Then(v, y)) BY ThenAssociative
<1> QED BY <1>1, <1>2, <1>3 DEF Flow

(* Reading moves bytes from the wire to the header or the body.             *)
LEMMA FlowRead ==
    ASSUME NEW S, NEW h \in Seq(S), NEW b \in Seq(S), NEW w \in Seq(S),
           NEW t \in Seq(S), NEW n \in 0 .. Len(w)
    PROVE  /\ Flow(Then(h, Front(w, n)), <<>>, Rest(w, n), t) = Flow(h, <<>>, w, t)
           /\ Flow(h, Then(b, Front(w, n)), Rest(w, n), t) = Flow(h, b, w, t)
<1>1. PICK f \in Seq(S), r \in Seq(S) : f = Front(w, n) /\ r = Rest(w, n)
  BY Parts
<1>2. Then(f, r) = w BY <1>1, Parts
<1>3. PICK v \in Seq(S) : v = Then(r, t) BY ThenProperties
<1>4. Then(f, v) = Then(w, t)
  <2>1. Then(Then(f, r), t) = Then(f, Then(r, t)) BY ThenAssociative
  <2> QED BY <1>2, <1>3, <2>1
<1>5. ASSUME NEW x \in Seq(S) PROVE Then(Then(x, f), v) = Then(x, Then(w, t))
  <2>1. Then(Then(x, f), v) = Then(x, Then(f, v)) BY ThenAssociative
  <2> QED BY <1>4, <2>1
<1>6. Then(Then(h, f), <<>>) = Then(h, f) /\ Then(h, <<>>) = h
  <2>1. PICK g \in Seq(S) : g = Then(h, f) BY ThenProperties
  <2>2. Then(g, <<>>) = g /\ Then(h, <<>>) = h BY <2>1, ThenProperties
  <2> QED BY <2>1, <2>2
<1>7. Flow(Then(h, f), <<>>, r, t) = Flow(h, <<>>, w, t)
  BY <1>3, <1>5, <1>6 DEF Flow
<1>8. Flow(h, Then(b, f), r, t) = Flow(h, b, w, t)
  <2>1. Then(h, Then(b, f)) = Then(Then(h, b), f) BY ThenAssociative
  <2>2. PICK x \in Seq(S) : x = Then(h, b) BY ThenProperties
  <2> QED BY <1>3, <1>5, <2>1, <2>2 DEF Flow
<1> QED BY <1>1, <1>7, <1>8

(* A complete packet leaves.                                                *)
LEMMA FlowTake ==
    ASSUME NEW S, NEW h \in Seq(S), NEW b \in Seq(S), NEW w \in Seq(S), NEW t \in Seq(S)
    PROVE  Flow(<<>>, <<>>, w, t) = Rest(Flow(h, b, w, t), Len(h) + Len(b))
<1>1. PICK e \in Seq(S) : e = <<>> BY EmptySeq
<1>2. PICK v \in Seq(S) : v = Then(w, t) BY ThenProperties
<1>3. PICK x \in Seq(S) : x = Then(h, b) /\ Len(x) = Len(h) + Len(b)
  BY ThenProperties
<1>4. Len(x) \in Nat /\ Len(v) \in Nat BY LenProperties
<1>5. Flow(<<>>, <<>>, w, t) = v
  <2>1. Then(e, e) = e /\ Then(e, v) = v BY <1>1, ThenProperties
  <2> QED BY <1>1, <1>2, <2>1 DEF Flow
<1>6. PICK f \in Seq(S) : /\ f = Then(x, v) /\ Len(f) = Len(x) + Len(v)
                          /\ \A i \in 1 .. Len(x) + Len(v) :
                                f[i] = IF i <= Len(x) THEN x[i] ELSE v[i - Len(x)]
  BY ThenProperties
<1>7. PICK n : n = Len(x) OBVIOUS
<1>8. n \in 0 .. Len(f) BY <1>4, <1>6, <1>7
<1>9. PICK r \in Seq(S) : r = Rest(f, n) BY <1>8, Parts
<1>10. Len(r) = Len(f) - n /\ \A i \in 1 .. Len(f) - n : r[i] = f[n + i]
  <2>1. Len(Rest(f, n)) = Len(f) - n /\ \A i \in 1 .. Len(f) - n : Rest(f, n)[i] = f[n + i]
    BY <1>8, Parts
  <2> QED BY <1>9, <2>1
<1>11. Len(r) = Len(v) BY <1>4, <1>6, <1>7, <1>10
<1>12. ASSUME NEW i \in 1 .. Len(r) PROVE r[i] = v[i]
  <2>1. PICK k : k = n + i OBVIOUS
  <2>2. k \in 1 .. Len(x) + Len(v) /\ ~(k <= Len(x)) /\ k - Len(x) = i
    BY <1>4, <1>7, <1>11, <2>1
  <2>3. f[k] = v[i] BY <1>6, <2>2
  <2>4. i \in 1 .. Len(f) - n BY <1>10
  <2> QED BY <1>10, <2>1, <2>3, <2>4
<1>13. r = v BY <1>11, <1>12, SeqEqual
<1> QED BY <1>2, <1>3, <1>5, <1>6, <1>7, <1>9, <1>13 DEF Flow

-----------------------------------------------------------------------------
(* The invariant                                                            *)

LaneFlow(f) == Flow(head[f], body[f], wire[Other[f]], todo[Other[f]])

Types ==
    /\ todo \in [Peers -> Seq(Bytes)] /\ wire \in [Peers -> Seq(Bytes)]
    /\ head \in [Peers -> Seq(Bytes)] /\ body \in [Peers -> Seq(Bytes)]
    /\ rest \in [Peers -> Int]
    /\ got \in [Peers -> Seq(Packets \cup {Torn})] /\ taken \in [Peers -> Seq(Packets)]
    /\ cut \in [Peers -> BOOLEAN] /\ alive \in BOOLEAN /\ fresh \subseteq Packets

(* The header x, the body b and the count k of a receiver fit each other.   *)
ShapeOf(x, b, k) ==
    IF k = Length THEN b = <<>> /\ Len(x) < Header
    ELSE /\ Len(x) = Header /\ k \in Nat \ {0}
         /\ Len(b) + k = Body[x[1][1]]
Shape == \A f \in Peers : ShapeOf(head[f], body[f], rest[f])

(* Whole packets are on the way, unless one was cut.                        *)
Lanes == alive => \A f \in Peers : ~cut[Other[f]] => \E q : Laid(q, LaneFlow(f))

(* Until the first command they are the packets taken and not yet received. *)
LaneInOrder(f) ==
    /\ ~cut[Other[f]] /\ Len(got[f]) <= Len(taken[Other[f]])
    /\ Laid(Rest(taken[Other[f]], Len(got[f])), LaneFlow(f))
InOrder == alive /\ NoCommand => \A f \in Peers : LaneInOrder(f)

IInv == Types /\ Shape /\ Lanes /\ InOrder /\ TornNeedsCut

(* The sender of a lane, and the lane of a sender.                          *)
LEMMA Opposite ==
    ASSUME NEW e \in Peers
    PROVE  /\ Other[e] \in Peers /\ Other[Other[e]] = e
           /\ \A f \in Peers : f # Other[e] => Other[f] # e
BY PeersAssumption

-----------------------------------------------------------------------------
(* Sending                                                                  *)

(* Peer e has put y in place of what its buffer held, and written some.     *)
Wrote(e, y) ==
    /\ wire' \in [Peers -> Seq(Bytes)] /\ todo' \in [Peers -> Seq(Bytes)]
    /\ \A g \in Peers : g # e => wire'[g] = wire[g] /\ todo'[g] = todo[g]
    /\ \A h, b \in Seq(Bytes) : Flow(h, b, wire'[e], todo'[e]) = Flow(h, b, wire[e], y)

(* However much the kernel takes, nothing is lost on the way.               *)
LEMMA WriteKeeps ==
    ASSUME Types, NEW e \in Peers, NEW y \in Seq(Bytes), NEW o, Write(e, y, o)
    PROVE  Wrote(e, y)
<1>1. PICK w \in Seq(Bytes) : w = wire[e] BY DEF Types
<1>2. CASE y = <<>> /\ todo' = [todo EXCEPT ![e] = <<>>] /\ UNCHANGED wire
  <2>1. todo' = [todo EXCEPT ![e] = y] BY <1>2
  <2> QED BY <1>2, <2>1 DEF Wrote, Types
<1>3. ASSUME NEW n \in 0 .. Len(y),
             wire' = [wire EXCEPT ![e] = @ \o SubSeq(y, 1, n)],
             todo' = [todo EXCEPT ![e] = Rest(y, n)]
      PROVE  Wrote(e, y)
  <2>1. PICK r \in Seq(Bytes) : r = Rest(y, n) BY Parts
  <2>2. PICK x \in Seq(Bytes) : x = Then(w, Front(y, n))
    <3>1. Front(y, n) \in Seq(Bytes) BY Parts
    <3> QED BY <3>1, ThenProperties
  <2>3. wire' = [wire EXCEPT ![e] = x] /\ todo' = [todo EXCEPT ![e] = r]
    BY <1>1, <1>3, <2>1, <2>2 DEF Then, Front
  <2>4. /\ wire' \in [Peers -> Seq(Bytes)] /\ todo' \in [Peers -> Seq(Bytes)]
        /\ \A g \in Peers : g # e => wire'[g] = wire[g] /\ todo'[g] = todo[g]
        /\ wire'[e] = x /\ todo'[e] = r
    BY <2>3 DEF Types
  <2>5. ASSUME NEW h \in Seq(Bytes), NEW b \in Seq(Bytes)
        PROVE  Flow(h, b, x, r) = Flow(h, b, w, y)
    <3>1. Flow(h, b, Then(w, Front(y, n)), Rest(y, n)) = Flow(h, b, w, y)
      BY FlowWrite
    <3> QED BY <2>1, <2>2, <3>1
  <2> QED BY <1>1, <2>4, <2>5 DEF Wrote
<1>4. Len(y) \in Nat BY LenProperties
<1>5. Room(e) \in Int
  <2>1. Len(w) \in Nat BY LenProperties
  <2> QED BY <1>1, <2>1, SizeAssumption DEF Room
<1>6. \A n \in IF Room(e) = 0 THEN {0} ELSE 1 .. Least(Room(e), Len(y)) : n \in 0 .. Len(y)
  BY <1>4, <1>5 DEF Least
<1>7. CASE y # <<>>
  <2>1. PICK n \in IF Room(e) = 0 THEN {0} ELSE 1 .. Least(Room(e), Len(y)) :
             /\ wire' = [wire EXCEPT ![e] = @ \o SubSeq(y, 1, n)]
             /\ todo' = [todo EXCEPT ![e] = Rest(y, n)]
    BY <1>7 DEF Write
  <2> QED BY <1>3, <1>6, <2>1
<1> QED BY <1>2, <1>7 DEF Write

(* A write disturbs its own lane only.                                      *)
LEMMA SendKeeps ==
    ASSUME IInv, alive, NEW e \in Peers, NEW y \in Seq(Bytes), Wrote(e, y),
           UNCHANGED <<recvVars, alive>>, fresh' \subseteq fresh,
           cut' \in [Peers -> BOOLEAN], \A g \in Peers : g # e => cut'[g] = cut[g],
           cut[e] => cut'[e],
           taken' \in [Peers -> Seq(Packets)],
           \A g \in Peers : g # e => taken'[g] = taken[g],
           NEW z, z = Flow(head[Other[e]], body[Other[e]], wire[e], y),
           ~cut'[e] => \E q : Laid(q, z),
           NoCommand' => /\ ~cut'[e] /\ Len(got[Other[e]]) <= Len(taken'[e])
                         /\ Laid(Rest(taken'[e], Len(got[Other[e]])), z)
    PROVE  IInv'
<1>1. Types /\ Shape /\ Lanes /\ InOrder /\ TornNeedsCut BY DEF IInv
<1>2. Types' BY <1>1 DEF Types, Wrote, recvVars
<1>3. Shape' BY <1>1 DEF Shape, recvVars
<1>4. ASSUME NEW f \in Peers, f # Other[e] PROVE LaneFlow(f)' = LaneFlow(f)
  <2>1. Other[f] \in Peers /\ Other[f] # e BY <1>4, Opposite
  <2>2. wire'[Other[f]] = wire[Other[f]] /\ todo'[Other[f]] = todo[Other[f]]
    BY <2>1 DEF Wrote
  <2> QED BY <2>2 DEF LaneFlow, recvVars
<1>5. LaneFlow(Other[e])' = z
  <2>1. Other[e] \in Peers /\ Other[Other[e]] = e BY Opposite
  <2>2. head[Other[e]] \in Seq(Bytes) /\ body[Other[e]] \in Seq(Bytes)
    BY <1>1, <2>1 DEF Types
  <2>3. head' = head /\ body' = body BY DEF recvVars
  <2> QED BY <2>1, <2>2, <2>3 DEF LaneFlow, Wrote
<1>6. Lanes'
  <2> SUFFICES ASSUME NEW f \in Peers, ~cut'[Other[f]] PROVE \E q : Laid(q, LaneFlow(f)')
    BY DEF Lanes
  <2>1. CASE f = Other[e] BY <1>5, <2>1, Opposite
  <2>2. CASE f # Other[e]
    <3>1. ~cut[Other[f]] BY <2>2, Opposite
    <3> QED BY <1>1, <1>4, <2>2, <3>1 DEF Lanes
  <2> QED BY <2>1, <2>2
<1>7. InOrder'
  <2> SUFFICES ASSUME NoCommand', NEW f \in Peers PROVE LaneInOrder(f)'
    BY DEF InOrder
  <2>1. NoCommand BY DEF NoCommand
  <2>2. CASE f = Other[e]
    <3>1. Other[f] = e BY <2>2, Opposite
    <3>2. got' = got BY DEF recvVars
    <3>3. LaneFlow(f)' = z BY <1>5, <2>2
    <3> QED BY <2>2, <3>1, <3>2, <3>3 DEF LaneInOrder
  <2>3. CASE f # Other[e]
    <3>1. Other[f] \in Peers /\ Other[f] # e BY <2>3, Opposite
    <3>2. LaneInOrder(f) BY <1>1, <2>1 DEF InOrder
    <3>3. LaneFlow(f)' = LaneFlow(f) BY <1>4, <2>3
    <3>4. cut'[Other[f]] = cut[Other[f]] /\ taken'[Other[f]] = taken[Other[f]] /\ got' = got
      BY <3>1 DEF recvVars
    <3> QED BY <3>2, <3>3, <3>4 DEF LaneInOrder
  <2> QED BY <2>2, <2>3
<1>8. TornNeedsCut'
  <2> SUFFICES ASSUME NEW f \in Peers, cut[Other[f]] PROVE cut'[Other[f]]
    BY <1>1 DEF TornNeedsCut, recvVars
  <2>1. Other[f] \in Peers BY Opposite
  <2> QED BY <2>1
<1> QED BY <1>2, <1>3, <1>6, <1>7, <1>8 DEF IInv

(* One more element at the end: the rest ends with it too.                  *)
LEMMA RestAppend ==
    ASSUME NEW S, NEW s \in Seq(S), NEW p \in S, NEW n \in 0 .. Len(s)
    PROVE  /\ Append(s, p) \in Seq(S) /\ Len(Append(s, p)) = Len(s) + 1
           /\ Rest(Append(s, p), n) = Append(Rest(s, n), p)
<1>1. Len(s) \in Nat BY LenProperties
<1>2. PICK z \in Seq(S) : z = Append(s, p) BY AppendProperties
<1>3. Len(z) = Len(s) + 1 /\ z[Len(s) + 1] = p /\ \A i \in 1 .. Len(s) : z[i] = s[i]
  BY <1>2, AppendProperties
<1>4. PICK r \in Seq(S) : r = Rest(s, n) BY Parts
<1>5. Len(r) = Len(s) - n /\ \A i \in 1 .. Len(s) - n : r[i] = s[n + i]
  <2>1. Len(Rest(s, n)) = Len(s) - n /\ \A i \in 1 .. Len(s) - n : Rest(s, n)[i] = s[n + i]
    BY Parts
  <2> QED BY <1>4, <2>1
<1>6. n \in 0 .. Len(z) BY <1>1, <1>3
<1>7. PICK u \in Seq(S) : u = Rest(z, n) BY <1>6, Parts
<1>8. Len(u) = Len(z) - n /\ \A i \in 1 .. Len(z) - n : u[i] = z[n + i]
  <2>1. Len(Rest(z, n)) = Len(z) - n /\ \A i \in 1 .. Len(z) - n : Rest(z, n)[i] = z[n + i]
    BY <1>6, Parts
  <2> QED BY <1>7, <2>1
<1>9. PICK v \in Seq(S) : v = Append(r, p) BY AppendProperties
<1>10. Len(v) = Len(r) + 1 /\ v[Len(r) + 1] = p /\ \A i \in 1 .. Len(r) : v[i] = r[i]
  BY <1>9, AppendProperties
<1>11. Len(u) = Len(v) BY <1>1, <1>3, <1>5, <1>8, <1>10
<1>12. ASSUME NEW i \in 1 .. Len(u) PROVE u[i] = v[i]
  <2>1. i \in 1 .. Len(s) + 1 - n /\ u[i] = z[n + i] BY <1>3, <1>8
  <2>2. CASE i = Len(s) + 1 - n
    <3>1. n + i = Len(s) + 1 /\ i = Len(r) + 1 BY <1>1, <1>5, <2>2
    <3> QED BY <1>3, <1>10, <2>1, <3>1
  <2>3. CASE i # Len(s) + 1 - n
    <3>1. i \in 1 .. Len(s) - n /\ i \in 1 .. Len(r) /\ n + i \in 1 .. Len(s)
      BY <1>1, <1>5, <2>1, <2>3
    <3> QED BY <1>3, <1>5, <1>10, <2>1, <3>1
  <2> QED BY <2>2, <2>3
<1>13. u = v BY <1>11, <1>12, SeqEqual
<1> QED BY <1>2, <1>3, <1>4, <1>7, <1>9, <1>13

(* When something is left behind the first n elements, the rest begins with *)
(* the next one.                                                            *)
LEMMA RestTail ==
    ASSUME NEW S, NEW s \in Seq(S), NEW n \in Nat, n <= Len(s), Rest(s, n) # <<>>
    PROVE  /\ n + 1 <= Len(s) /\ Rest(s, n)[1] = s[n + 1]
           /\ Rest(s, n + 1) = Tail(Rest(s, n))
<1>1. Len(s) \in Nat BY LenProperties
<1>2. n \in 0 .. Len(s) BY <1>1
<1>3. PICK r \in Seq(S) : r = Rest(s, n) BY <1>2, Parts
<1>4. Len(r) = Len(s) - n /\ \A i \in 1 .. Len(s) - n : r[i] = s[n + i]
  <2>1. Len(Rest(s, n)) = Len(s) - n /\ \A i \in 1 .. Len(s) - n : Rest(s, n)[i] = s[n + i]
    BY <1>2, Parts
  <2> QED BY <1>3, <2>1
<1>5. r # <<>> /\ Len(r) # 0 BY <1>3, EmptySeq
<1>6. n + 1 \in 0 .. Len(s) /\ n + 1 <= Len(s) BY <1>1, <1>4, <1>5
<1>7. PICK v \in Seq(S) : v = Rest(s, n + 1) BY <1>6, Parts
<1>8. Len(v) = Len(s) - (n + 1) /\ \A i \in 1 .. Len(s) - (n + 1) : v[i] = s[n + 1 + i]
  <2>1. /\ Len(Rest(s, n + 1)) = Len(s) - (n + 1)
        /\ \A i \in 1 .. Len(s) - (n + 1) : Rest(s, n + 1)[i] = s[n + 1 + i]
    BY <1>6, Parts
  <2> QED BY <1>7, <2>1
<1>9. PICK u \in Seq(S) : u = Tail(r) BY <1>5, HeadTailProperties
<1>10. Len(u) = Len(r) - 1 /\ \A i \in 1 .. Len(u) : u[i] = r[i + 1]
  BY <1>5, <1>9, HeadTailProperties
<1>11. Len(v) = Len(u) BY <1>1, <1>4, <1>8, <1>10
<1>12. ASSUME NEW i \in 1 .. Len(v) PROVE v[i] = u[i]
  <2>1. PICK j : j = i + 1 OBVIOUS
  <2>2. j \in 1 .. Len(s) - n /\ n + j = n + 1 + i BY <1>1, <1>8, <2>1
  <2>3. r[j] = s[n + 1 + i] BY <1>4, <2>2
  <2>4. u[i] = r[j] /\ v[i] = s[n + 1 + i] BY <1>8, <1>10, <1>11, <2>1
  <2> QED BY <2>3, <2>4
<1>13. v = u BY <1>11, <1>12, SeqEqual
<1>14. r[1] = s[n + 1]
  <2>1. 1 \in 1 .. Len(s) - n BY <1>1, <1>6
  <2> QED BY <1>4, <2>1
<1> QED BY <1>3, <1>6, <1>7, <1>9, <1>13, <1>14

(* Discarding the buffer leaves the front of what was on the way.           *)
LEMMA FlowFront ==
    ASSUME NEW S, NEW h \in Seq(S), NEW b \in Seq(S), NEW w \in Seq(S), NEW t \in Seq(S)
    PROVE  Flow(h, b, w, <<>>) = Front(Flow(h, b, w, t), Len(h) + Len(b) + Len(w))
<1>1. PICK e \in Seq(S) : e = <<>> /\ Len(e) = 0 BY EmptySeq
<1>2. PICK g \in Seq(S) : g = Flow(h, b, w, e) /\ Len(g) = Len(h) + Len(b) + Len(w) + Len(e)
  BY FlowProperties
<1>3. Then(e, t) = t BY <1>1, ThenProperties
<1>4. Flow(h, b, w, Then(e, t)) = Then(Flow(h, b, w, e), t) BY FlowAppend
<1>5. PICK f \in Seq(S) : /\ f = Then(g, t) /\ Len(f) = Len(g) + Len(t)
                          /\ \A i \in 1 .. Len(g) + Len(t) :
                                f[i] = IF i <= Len(g) THEN g[i] ELSE t[i - Len(g)]
  BY ThenProperties
<1>6. f = Flow(h, b, w, t) BY <1>2, <1>3, <1>4, <1>5
<1>7. /\ Len(g) \in Nat /\ Len(t) \in Nat /\ Len(h) \in Nat /\ Len(b) \in Nat
      /\ Len(w) \in Nat
  BY LenProperties
<1>8. PICK n : n = Len(g) OBVIOUS
<1>9. n = Len(h) + Len(b) + Len(w) BY <1>1, <1>2, <1>7, <1>8
<1>10. n \in 0 .. Len(f) BY <1>5, <1>7, <1>8
<1>11. PICK r \in Seq(S) : r = Front(f, n) /\ Len(r) = n /\ \A i \in 1 .. n : r[i] = f[i]
  <2>1. /\ Front(f, n) \in Seq(S) /\ Len(Front(f, n)) = n
        /\ \A i \in 1 .. n : Front(f, n)[i] = f[i]
    BY <1>10, Parts
  <2> QED BY <2>1, Zenon
<1>12. ASSUME NEW i \in 1 .. Len(r) PROVE r[i] = g[i]
  <2>1. i \in 1 .. n /\ r[i] = f[i] BY <1>11
  <2>2. n \in Nat BY <1>7, <1>8
  <2>3. i \in 1 .. Len(g) + Len(t) /\ i <= Len(g) BY <1>7, <1>8, <2>1, <2>2
  <2>4. f[i] = g[i] BY <1>5, <2>3
  <2> QED BY <2>1, <2>4
<1>13. r = g BY <1>8, <1>11, <1>12, SeqEqual
<1> QED BY <1>1, <1>2, <1>6, <1>9, <1>11, <1>13

(* Packets laid on the way stay so when the buffer, which begins with one,  *)
(* is discarded.                                                            *)
LEMMA LaidDiscard ==
    ASSUME NEW h \in Seq(Bytes), NEW b \in Seq(Bytes), NEW w \in Seq(Bytes),
           NEW t \in Seq(Bytes), NEW q, Laid(q, Flow(h, b, w, t)),
           t = <<>> \/ t[1][2] = 1
    PROVE  \E r : Laid(r, Flow(h, b, w, <<>>))
<1>1. /\ Flow(h, b, w, t) \in Seq(Bytes)
      /\ Len(Flow(h, b, w, t)) = Len(h) + Len(b) + Len(w) + Len(t)
      /\ \A i \in 1 .. Len(t) : Flow(h, b, w, t)[Len(h) + Len(b) + Len(w) + i] = t[i]
  BY FlowProperties
<1>2. Len(h) \in Nat /\ Len(b) \in Nat /\ Len(w) \in Nat /\ Len(t) \in Nat
  BY LenProperties
<1>3. PICK f, n : f \in Seq(Bytes) /\ f = Flow(h, b, w, t) /\ n = Len(h) + Len(b) + Len(w)
  BY <1>1
<1>4. n \in Nat /\ Len(f) = n + Len(t) BY <1>1, <1>2, <1>3
<1>5. n \in 0 .. Len(f) BY <1>2, <1>4
<1>6. n = Len(f) \/ f[n + 1][2] = 1
  <2>1. CASE Len(t) = 0 BY <1>4, <2>1
  <2>2. CASE Len(t) # 0
    <3>1. 1 \in 1 .. Len(t) BY <1>2, <2>2
    <3>2. f[n + 1] = t[1] BY <1>1, <1>3, <3>1
    <3>3. t # <<>> BY <2>2, EmptySeq
    <3> QED BY <3>2, <3>3
  <2> QED BY <2>1, <2>2
<1>7. Flow(h, b, w, <<>>) = Front(Flow(h, b, w, t), Len(h) + Len(b) + Len(w))
  BY FlowFront
<1>8. Laid(q, f) BY <1>3
<1>9. PICK r : Laid(r, Front(f, n)) BY <1>5, <1>6, <1>8, LaidCut
<1> QED BY <1>3, <1>7, <1>9

(* The lane that peer e sends on.                                           *)
LEMMA SentOn ==
    ASSUME Types, NEW e \in Peers
    PROVE  /\ Other[e] \in Peers
           /\ head[Other[e]] \in Seq(Bytes) /\ body[Other[e]] \in Seq(Bytes)
           /\ wire[e] \in Seq(Bytes) /\ todo[e] \in Seq(Bytes)
           /\ taken[e] \in Seq(Packets) /\ Len(got[Other[e]]) \in Nat
           /\ LaneFlow(Other[e]) = Flow(head[Other[e]], body[Other[e]], wire[e], todo[e])
<1>1. Other[e] \in Peers /\ Other[Other[e]] = e BY Opposite
<1>2. got[Other[e]] \in Seq(Packets \cup {Torn}) BY <1>1 DEF Types
<1>3. Len(got[Other[e]]) \in Nat BY <1>2, LenProperties
<1> QED BY <1>1, <1>3 DEF Types, LaneFlow

(* Writing what is in the buffer changes nothing on the way.                *)
LEMMA RewriteKeeps ==
    ASSUME IInv, alive, NEW e \in Peers, Write(e, todo[e], done[e]),
           UNCHANGED <<recvVars, alive, taken, cut>>, fresh' \subseteq fresh
    PROVE  IInv'
<1>1. Types /\ Lanes /\ InOrder BY DEF IInv
<1>2. PICK y \in Seq(Bytes) : y = todo[e] BY <1>1, SentOn
<1>3. Wrote(e, y) BY <1>1, <1>2, WriteKeeps
<1>4. PICK z : z = Flow(head[Other[e]], body[Other[e]], wire[e], y) OBVIOUS
<1>5. z = LaneFlow(Other[e]) BY <1>1, <1>2, <1>4, SentOn
<1>6. Other[e] \in Peers /\ Other[Other[e]] = e BY Opposite
<1>7. cut' \in [Peers -> BOOLEAN] /\ taken' \in [Peers -> Seq(Packets)]
  BY <1>1 DEF Types
<1>8. ~cut'[e] => \E q : Laid(q, z) BY <1>1, <1>5, <1>6 DEF Lanes
<1>9. NoCommand' => /\ ~cut'[e] /\ Len(got[Other[e]]) <= Len(taken'[e])
                    /\ Laid(Rest(taken'[e], Len(got[Other[e]])), z)
  BY <1>1, <1>5, <1>6 DEF InOrder, LaneInOrder, NoCommand
<1>10. UNCHANGED <<recvVars, alive>> OBVIOUS
<1> QED BY <1>3, <1>4, <1>7, <1>8, <1>9, <1>10, SendKeeps

(* A packet is appended whole, or dropped whole.                            *)
LEMMA SendStep ==
    ASSUME IInv, NEW e \in Peers, NEW p \in Packets, Send(e, p)
    PROVE  IInv'
<1>1. Types /\ Lanes /\ InOrder BY DEF IInv
<1>2. alive /\ UNCHANGED <<recvVars, alive, cut>> /\ fresh' \subseteq fresh BY DEF Send
<1>3. CASE Len(todo[e]) + Len(BytesOf(p)) <= TxMax
  <2>1. PICK t \in Seq(Bytes), x \in Seq(Bytes) : t = todo[e] /\ x = BytesOf(p)
    BY <1>1, SentOn, BytesAre
  <2>2. PICK y \in Seq(Bytes) : y = Then(t, x) BY ThenProperties
  <2>3. PICK o : Write(e, y, o) BY <1>3, <2>1, <2>2 DEF Send, AppendPacket, Then
  <2>4. Wrote(e, y) BY <1>1, <2>3, WriteKeeps
  <2>5. taken' = [taken EXCEPT ![e] = Append(@, p)] BY <1>3 DEF Send, AppendPacket
  <2>6. PICK k \in Seq(Packets) : k = taken[e] BY <1>1, SentOn
  <2>7. Append(k, p) \in Seq(Packets) /\ Len(Append(k, p)) = Len(k) + 1 /\ Len(k) \in Nat
    BY AppendProperties, LenProperties
  <2>8. /\ taken' \in [Peers -> Seq(Packets)] /\ taken'[e] = Append(k, p)
        /\ \A g \in Peers : g # e => taken'[g] = taken[g]
    BY <1>1, <2>5, <2>6, <2>7 DEF Types
  <2>9. PICK z : z = Flow(head[Other[e]], body[Other[e]], wire[e], y) OBVIOUS
  <2>10. z = Then(LaneFlow(Other[e]), x)
    <3>1. PICK h \in Seq(Bytes), b \in Seq(Bytes), w \in Seq(Bytes) :
               h = head[Other[e]] /\ b = body[Other[e]] /\ w = wire[e]
      BY <1>1, SentOn
    <3>2. Flow(h, b, w, Then(t, x)) = Then(Flow(h, b, w, t), x) BY FlowAppend
    <3>3. LaneFlow(Other[e]) = Flow(h, b, w, t) BY <1>1, <2>1, <3>1, SentOn
    <3> QED BY <2>2, <2>9, <3>1, <3>2, <3>3
  <2>11. Other[e] \in Peers /\ Other[Other[e]] = e BY Opposite
  <2>12. ASSUME NEW q, Laid(q, LaneFlow(Other[e])) PROVE Laid(Append(q, p), z)
    <3>1. Laid(Append(q, p), Then(LaneFlow(Other[e]), BytesOf(p))) BY <2>12, LaidAppend
    <3> QED BY <2>1, <2>10, <3>1
  <2>13. ~cut'[e] => \E q : Laid(q, z)
    <3> HAVE ~cut'[e]
    <3>1. ~cut[e] BY <1>2
    <3>2. PICK q : Laid(q, LaneFlow(Other[e])) BY <1>1, <1>2, <2>11, <3>1 DEF Lanes
    <3> QED BY <2>12, <3>2
  <2>14. NoCommand' => /\ ~cut'[e] /\ Len(got[Other[e]]) <= Len(taken'[e])
                       /\ Laid(Rest(taken'[e], Len(got[Other[e]])), z)
    <3> HAVE NoCommand'
    <3>1. NoCommand BY <1>2 DEF NoCommand
    <3>2. LaneInOrder(Other[e]) BY <1>1, <1>2, <2>11, <3>1 DEF InOrder
    <3>3. PICK n \in Nat : n = Len(got[Other[e]]) BY <1>1, SentOn
    <3>4. ~cut[e] /\ n <= Len(k) /\ Laid(Rest(k, n), LaneFlow(Other[e]))
      BY <2>6, <2>11, <3>2, <3>3 DEF LaneInOrder
    <3>5. Rest(Append(k, p), n) = Append(Rest(k, n), p)
      <4>1. n \in 0 .. Len(k) BY <2>7, <3>4
      <4> QED BY <4>1, RestAppend
    <3>6. Laid(Append(Rest(k, n), p), z) BY <2>12, <3>4
    <3>7. n <= Len(taken'[e]) BY <2>7, <2>8, <3>4
    <3> QED BY <1>2, <2>8, <3>3, <3>4, <3>5, <3>6, <3>7
  <2>15. cut' \in [Peers -> BOOLEAN] /\ cut' = cut BY <1>1, <1>2 DEF Types
  <2>16. UNCHANGED <<recvVars, alive>> BY <1>2
  <2> QED BY <1>2, <2>4, <2>8, <2>9, <2>13, <2>14, <2>15, <2>16, SendKeeps
<1>4. CASE ~(Len(todo[e]) + Len(BytesOf(p)) <= TxMax)
  <2>1. Write(e, todo[e], done[e]) /\ UNCHANGED taken
    BY <1>4 DEF Send, AppendPacket
  <2>2. UNCHANGED <<recvVars, alive, taken, cut>> BY <1>2, <2>1
  <2> QED BY <1>2, <2>1, <2>2, RewriteKeeps
<1> QED BY <1>3, <1>4

(* POLLOUT writes what is in the buffer.                                    *)
LEMMA FlushStep ==
    ASSUME IInv, NEW e \in Peers, Flush(e)
    PROVE  IInv'
BY RewriteKeeps DEF Flush, CanFlush

(* A command discards what is in the buffer; whole packets stay on the way   *)
(* unless the first of the discarded bytes is in the middle of one.         *)
LEMMA CommandStep ==
    ASSUME IInv, NEW e \in Peers, NEW p \in Packets, Command(e, p)
    PROVE  IInv'
<1>1. Types /\ Lanes BY DEF IInv
<1>2. /\ alive /\ UNCHANGED <<recvVars, alive>> /\ fresh' = fresh \ {p}
      /\ p \in Commands /\ cut' = [cut EXCEPT ![e] = @ \/ HalfWritten(e)]
  BY DEF Command
<1>3. ~NoCommand' BY <1>2 DEF NoCommand
<1>4. /\ cut' \in [Peers -> BOOLEAN] /\ cut'[e] = (cut[e] \/ HalfWritten(e))
      /\ \A g \in Peers : g # e => cut'[g] = cut[g]
  <2>1. cut \in [Peers -> BOOLEAN] /\ HalfWritten(e) \in BOOLEAN
    BY <1>1 DEF Types, HalfWritten
  <2> QED BY <1>2, <2>1, Zenon
<1>5. /\ taken' \in [Peers -> Seq(Packets)]
      /\ \A g \in Peers : g # e => taken'[g] = taken[g]
  <2>1. taken' = [taken EXCEPT ![e] = Append(@, p)] \/ UNCHANGED taken BY DEF Command
  <2>2. Append(taken[e], p) \in Seq(Packets) BY <1>1, SentOn, AppendProperties
  <2> QED BY <1>1, <2>1, <2>2 DEF Types
<1>6. PICK y \in Seq(Bytes) :
           (y = BytesOf(p) \/ y = <<>>) /\ \E o : Write(e, y, o)
  <2>1. BytesOf(p) \in Seq(Bytes) /\ <<>> \in Seq(Bytes) BY BytesAre, EmptySeq
  <2> QED BY <2>1 DEF Command
<1>7. Wrote(e, y) BY <1>1, <1>6, WriteKeeps
<1>8. PICK z : z = Flow(head[Other[e]], body[Other[e]], wire[e], y) OBVIOUS
<1>9. ~cut'[e] => \E q : Laid(q, z)
  <2> SUFFICES ASSUME ~cut[e], ~HalfWritten(e) PROVE \E q : Laid(q, z)
    BY <1>4
  <2>1. PICK h \in Seq(Bytes), b \in Seq(Bytes), w \in Seq(Bytes), t \in Seq(Bytes) :
             /\ h = head[Other[e]] /\ b = body[Other[e]] /\ w = wire[e] /\ t = todo[e]
             /\ LaneFlow(Other[e]) = Flow(h, b, w, t)
    BY <1>1, SentOn
  <2>2. PICK q : Laid(q, Flow(h, b, w, t))
    <3>1. Other[e] \in Peers /\ Other[Other[e]] = e BY Opposite
    <3> QED BY <1>1, <1>2, <2>1, <3>1 DEF Lanes
  <2>3. t = <<>> \/ t[1][2] = 1 BY <2>1 DEF HalfWritten
  <2>4. PICK r : Laid(r, Flow(h, b, w, <<>>)) BY <2>2, <2>3, LaidDiscard
  <2>7. PICK g : g = Flow(h, b, w, <<>>) /\ Laid(r, g) BY <2>4
  <2>8. CASE y = <<>> BY <1>8, <2>1, <2>7, <2>8
  <2>9. CASE y = BytesOf(p)
    <3>1. PICK e0 \in Seq(Bytes) : e0 = <<>> BY EmptySeq
    <3>2. Then(e0, y) = y BY <3>1, ThenProperties
    <3>3. Flow(h, b, w, Then(e0, y)) = Then(Flow(h, b, w, e0), y) BY FlowAppend
    <3>5. z = Then(g, BytesOf(p)) BY <1>8, <2>1, <2>7, <2>9, <3>1, <3>2, <3>3
    <3>4. Laid(Append(r, p), Then(g, BytesOf(p))) BY <2>7, LaidAppend
    <3> QED BY <3>4, <3>5
  <2> QED BY <1>6, <2>8, <2>9
<1>10. fresh' \subseteq fresh BY <1>2
<1>11. cut[e] => cut'[e] BY <1>4
<1> QED BY <1>2, <1>3, <1>4, <1>5, <1>7, <1>8, <1>9, <1>10, <1>11, SendKeeps

-----------------------------------------------------------------------------
(* Receiving                                                                *)

(* Peer e's receiver is left with header x, body b and the count k, and its  *)
(* lane with v on the wire.                                                 *)
Heard(e, x, b, v, k) ==
    /\ head' \in [Peers -> Seq(Bytes)] /\ body' \in [Peers -> Seq(Bytes)]
    /\ wire' \in [Peers -> Seq(Bytes)] /\ rest' \in [Peers -> Int]
    /\ head'[e] = x /\ body'[e] = b /\ wire'[Other[e]] = v /\ rest'[e] = k
    /\ \A f \in Peers : f # e =>
          /\ head'[f] = head[f] /\ body'[f] = body[f] /\ rest'[f] = rest[f]
          /\ wire'[Other[f]] = wire[Other[f]]

(* With header h, body b and w on the wire the lane of e carries what it did.*)
SameFlow(e, h, b, w) ==
    \A t \in Seq(Bytes) : Flow(h, b, w, t) = Flow(head[e], body[e], wire[Other[e]], t)

(* The three outcomes of a receive: the connection is closed; some bytes of  *)
(* a packet have moved; a whole packet is handed over.                      *)
Closed == alive' = FALSE /\ UNCHANGED recvVars /\ wire' \in [Peers -> Seq(Bytes)]
Partial(e) ==
    /\ alive' = alive /\ got' = got
    /\ \E x, b, v \in Seq(Bytes), k \in Int :
          Heard(e, x, b, v, k) /\ ShapeOf(x, b, k) /\ SameFlow(e, x, b, v)
HandedOver(e, h, c, v) ==
    /\ Len(h) = Header /\ Len(c) = Body[h[1][1]]
    /\ Heard(e, <<>>, <<>>, v, Length) /\ SameFlow(e, h, c, v)
    /\ got' = [got EXCEPT ![e] = Append(@, Unframe(h, c))]
Complete(e) == alive' = alive /\ \E h, c, v \in Seq(Bytes) : HandedOver(e, h, c, v)

(* Updates of one receiver and its lane.                                    *)
LEMMA HeardIs ==
    ASSUME Types, NEW e \in Peers,
           NEW x \in Seq(Bytes), NEW b \in Seq(Bytes), NEW v \in Seq(Bytes), NEW k \in Int,
           wire' = [wire EXCEPT ![Other[e]] = v],
           head' = [head EXCEPT ![e] = x] \/ (head' = head /\ x = head[e]),
           body' = [body EXCEPT ![e] = b] \/ (body' = body /\ b = body[e]),
           rest' = [rest EXCEPT ![e] = k] \/ (rest' = rest /\ k = rest[e])
    PROVE  Heard(e, x, b, v, k)
<1>1. Other[e] \in Peers /\ \A f \in Peers : f # e => Other[f] \in Peers /\ Other[f] # Other[e]
  BY PeersAssumption
<1>2. /\ wire' \in [Peers -> Seq(Bytes)] /\ wire'[Other[e]] = v
      /\ \A f \in Peers : f # e => wire'[Other[f]] = wire[Other[f]]
  BY <1>1 DEF Types
<1>3. /\ head' \in [Peers -> Seq(Bytes)] /\ head'[e] = x
      /\ \A f \in Peers : f # e => head'[f] = head[f]
  BY DEF Types
<1>4. /\ body' \in [Peers -> Seq(Bytes)] /\ body'[e] = b
      /\ \A f \in Peers : f # e => body'[f] = body[f]
  BY DEF Types
<1>5. /\ rest' \in [Peers -> Int] /\ rest'[e] = k
      /\ \A f \in Peers : f # e => rest'[f] = rest[f]
  BY DEF Types
<1> QED BY <1>2, <1>3, <1>4, <1>5 DEF Heard

(* The second half of a receive.                                            *)
LEMMA ReadBodyIs ==
    ASSUME Types, NEW e \in Peers, NEW h \in Seq(Bytes), NEW n \in Nat, NEW w \in Seq(Bytes),
           ReadBody(e, h, n, w), Len(h) = Header, Len(body[e]) + n = Body[h[1][1]],
           SameFlow(e, h, body[e], w)
    PROVE  Closed \/ Partial(e) \/ Complete(e)
<1>1. PICK c \in Seq(Bytes) : c = body[e] BY DEF Types
<1>2. CASE n = 0 /\ alive' = FALSE /\ wire' = [wire EXCEPT ![Other[e]] = w]
           /\ UNCHANGED recvVars
  <2>1. wire' \in [Peers -> Seq(Bytes)] BY <1>2, Opposite DEF Types
  <2> QED BY <1>2, <2>1 DEF Closed
<1>3. CASE /\ n > 0 /\ wire' = [wire EXCEPT ![Other[e]] = w]
           /\ head' = [head EXCEPT ![e] = h] /\ rest' = [rest EXCEPT ![e] = n]
           /\ UNCHANGED <<body, got, alive>>
  <2>1. body' = body /\ n \in Int BY <1>3
  <2>2. Heard(e, h, c, w, n) BY <1>1, <1>3, <2>1, HeardIs
  <2>3. n # Length /\ n \in Nat \ {0} BY <1>3 DEF Length
  <2>4. ShapeOf(h, c, n) BY <1>1, <2>3 DEF ShapeOf
  <2> QED BY <1>1, <1>3, <2>1, <2>2, <2>4 DEF Partial
<1>4. ASSUME NEW m \in 1 .. Least(n, Len(w)), TakeBody(e, h, n, w, m), alive' = alive
      PROVE  Partial(e) \/ Complete(e)
  <2>1. Len(w) \in Nat /\ Len(c) \in Nat BY LenProperties
  <2>2. m \in 1 .. n /\ m \in 0 .. Len(w) BY <2>1 DEF Least
  <2>3. PICK x \in Seq(Bytes), v \in Seq(Bytes) :
             x = Front(w, m) /\ v = Rest(w, m) /\ Len(x) = m
    BY <2>2, Parts
  <2>4. PICK b \in Seq(Bytes) : b = Then(c, x) /\ Len(b) = Len(c) + Len(x)
    BY ThenProperties
  <2>5. wire' = [wire EXCEPT ![Other[e]] = v] BY <1>4, <2>3 DEF TakeBody
  <2>6. b = body[e] \o SubSeq(w, 1, m) BY <1>1, <2>3, <2>4 DEF Then, Front
  <2>7. SameFlow(e, h, b, v)
    <3> SUFFICES ASSUME NEW t \in Seq(Bytes)
                 PROVE  Flow(h, b, v, t) = Flow(head[e], body[e], wire[Other[e]], t)
      BY DEF SameFlow
    <3>1. Flow(h, Then(c, Front(w, m)), Rest(w, m), t) = Flow(h, c, w, t)
      BY <2>2, FlowRead
    <3> QED BY <1>1, <2>3, <2>4, <3>1 DEF SameFlow
  <2>8. Len(b) = Len(c) + m /\ Len(c) + n = Body[h[1][1]] BY <1>1, <2>3, <2>4
  <2>9. CASE m < n
    <3>1. /\ head' = [head EXCEPT ![e] = h] /\ body' = [body EXCEPT ![e] = b]
          /\ rest' = [rest EXCEPT ![e] = n - m] /\ got' = got
      BY <1>4, <2>6, <2>9 DEF TakeBody
    <3>2. PICK k \in Nat \ {0} : k = n - m BY <2>2, <2>9
    <3>3. k \in Int /\ k # Length BY <3>2 DEF Length
    <3>4. Heard(e, h, b, v, k) BY <2>5, <3>1, <3>2, <3>3, HeardIs
    <3>5. Len(b) + k = Body[h[1][1]] BY <2>1, <2>2, <2>8, <3>2
    <3>6. ShapeOf(h, b, k) BY <3>2, <3>3, <3>5 DEF ShapeOf
    <3> QED BY <1>4, <2>7, <3>1, <3>3, <3>4, <3>6 DEF Partial
  <2>10. CASE ~(m < n)
    <3>1. /\ head' = [head EXCEPT ![e] = <<>>] /\ body' = [body EXCEPT ![e] = <<>>]
          /\ rest' = [rest EXCEPT ![e] = Length]
          /\ got' = [got EXCEPT ![e] = Append(@, Unframe(h, b))]
      BY <1>4, <2>6, <2>10 DEF TakeBody
    <3>2. <<>> \in Seq(Bytes) /\ Length \in Int BY EmptySeq DEF Length
    <3>3. Heard(e, <<>>, <<>>, v, Length) BY <2>5, <3>1, <3>2, HeardIs
    <3>4. m = n BY <2>2, <2>10
    <3>5. Len(b) = Body[h[1][1]] BY <2>8, <3>4
    <3>6. HandedOver(e, h, b, v) BY <2>7, <3>1, <3>3, <3>5 DEF HandedOver
    <3> QED BY <1>4, <3>6 DEF Complete
  <2> QED BY <2>9, <2>10
<1> QED BY <1>2, <1>3, <1>4 DEF ReadBody

(* Every receive is one of the three.                                       *)
LEMMA ReceiveIs ==
    ASSUME Types, Shape, NEW e \in Peers, Receive(e)
    PROVE  Closed \/ Partial(e) \/ Complete(e)
<1>1. Other[e] \in Peers BY Opposite
<1>2. PICK h \in Seq(Bytes), c \in Seq(Bytes), w \in Seq(Bytes), k \in Int :
           h = head[e] /\ c = body[e] /\ w = wire[Other[e]] /\ k = rest[e]
  BY <1>1 DEF Types
<1>3. ShapeOf(h, c, k) BY <1>2 DEF Shape
<1>4. /\ Len(h) \in Nat /\ Len(c) \in Nat /\ Len(w) \in Nat /\ Header \in Nat \ {0}
  BY LenProperties, SizeAssumption
<1>5. CASE k # Length
  <2>1. Len(h) = Header /\ k \in Nat /\ Len(c) + k = Body[h[1][1]]
    BY <1>3, <1>5 DEF ShapeOf
  <2>2. ReadBody(e, h, k, w) BY <1>2, <1>5 DEF Receive
  <2>3. SameFlow(e, h, c, w) BY <1>2 DEF SameFlow
  <2> QED BY <1>2, <2>1, <2>2, <2>3, ReadBodyIs
<1>6. CASE k = Length
  <2>1. c = <<>> /\ Len(h) < Header BY <1>3, <1>6 DEF ShapeOf
  <2>2. PICK n, x :
             /\ n \in 1 .. Least(Header - Len(h), Len(w))
             /\ x = h \o SubSeq(w, 1, n)
             /\ \/ /\ Len(x) < Header
                   /\ wire' = [wire EXCEPT ![Other[e]] = Rest(w, n)]
                   /\ head' = [head EXCEPT ![e] = x]
                   /\ UNCHANGED <<body, rest, got, alive>>
                \/ /\ alive' = FALSE /\ wire' = [wire EXCEPT ![Other[e]] = Rest(w, n)]
                   /\ UNCHANGED recvVars
                \/ /\ Len(x) = Header /\ ReadBody(e, x, Announced(x), Rest(w, n))
    BY <1>2, <1>6 DEF Receive, ReadHeader
  <2>3. n \in 0 .. Len(w) /\ n \in Nat BY <1>4, <2>1, <2>2 DEF Least
  <2>4. PICK y \in Seq(Bytes), v \in Seq(Bytes) : y = Front(w, n) /\ v = Rest(w, n)
    BY <2>3, Parts
  <2>5. x \in Seq(Bytes) /\ x = Then(h, y) BY <2>2, <2>4, ThenProperties DEF Then, Front
  <2>6. SameFlow(e, x, c, v)
    <3> SUFFICES ASSUME NEW t \in Seq(Bytes)
                 PROVE  Flow(x, c, v, t) = Flow(head[e], body[e], wire[Other[e]], t)
      BY DEF SameFlow
    <3>1. Flow(Then(h, Front(w, n)), <<>>, Rest(w, n), t) = Flow(h, <<>>, w, t)
      BY <2>3, FlowRead
    <3> QED BY <1>2, <2>1, <2>4, <2>5, <3>1
  <2>7. CASE /\ Len(x) < Header /\ wire' = [wire EXCEPT ![Other[e]] = Rest(w, n)]
             /\ head' = [head EXCEPT ![e] = x] /\ UNCHANGED <<body, rest, got, alive>>
    <3>1. wire' = [wire EXCEPT ![Other[e]] = v] /\ body' = body /\ rest' = rest
      BY <2>4, <2>7
    <3>2. Heard(e, x, c, v, k) BY <1>2, <2>5, <2>7, <3>1, HeardIs
    <3>3. ShapeOf(x, c, k) BY <1>6, <2>1, <2>7 DEF ShapeOf
    <3> QED BY <2>5, <2>6, <2>7, <3>2, <3>3 DEF Partial
  <2>8. CASE /\ alive' = FALSE /\ wire' = [wire EXCEPT ![Other[e]] = Rest(w, n)]
             /\ UNCHANGED recvVars
    <3>1. wire' \in [Peers -> Seq(Bytes)] BY <1>1, <2>4, <2>8 DEF Types
    <3> QED BY <2>8, <3>1 DEF Closed
  <2>9. CASE Len(x) = Header /\ ReadBody(e, x, Announced(x), Rest(w, n))
    <3>1. PICK a : a = Announced(x) OBVIOUS
    <3>2. x[1] \in Bytes
      <4>1. 1 \in 1 .. Len(x) BY <1>4, <2>9
      <4> QED BY <2>5, <4>1, ElementOfSeq
    <3>3. a = Body[x[1][1]] /\ a \in Nat
      BY <3>1, <3>2, PacketAssumption DEF Announced, Bytes
    <3>4. Len(c) = 0 BY <2>1, EmptySeq
    <3>5. Len(body[e]) + a = Body[x[1][1]] BY <1>2, <3>3, <3>4
    <3>6. ReadBody(e, x, a, v) /\ Len(x) = Header BY <2>4, <2>9, <3>1
    <3>7. SameFlow(e, x, body[e], v) BY <1>2, <2>6
    <3> QED BY <2>5, <3>3, <3>5, <3>6, <3>7, ReadBodyIs
  <2> QED BY <2>2, <2>7, <2>8, <2>9
<1> QED BY <1>5, <1>6

(* What a header announces is a packet, and what is handed over a packet or *)
(* Torn.                                                                    *)
LEMMA UnframeIs ==
    ASSUME NEW h \in Seq(Bytes), NEW c, Len(h) = Header
    PROVE  Unframe(h, c) \in Packets \cup {Torn}
<1>1. 1 \in 1 .. Len(h) BY SizeAssumption
<1>2. h[1] \in Bytes BY <1>1, ElementOfSeq
<1> QED BY <1>2 DEF Unframe, Bytes

(* When packets are laid in a lane that starts with the header h and the    *)
(* body c it announces, these are the first packet's.                       *)
LEMMA FirstWhole ==
    ASSUME NEW h \in Seq(Bytes), NEW c \in Seq(Bytes), NEW v \in Seq(Bytes),
           NEW t \in Seq(Bytes)
    PROVE  \A q : Laid(q, Flow(h, c, v, t)) /\ Len(h) = Header /\ Len(c) = Body[h[1][1]] =>
               /\ q \in Seq(Packets) /\ q # <<>> /\ q[1] \in Packets
               /\ Unframe(h, c) = q[1]
               /\ Laid(Tail(q), Flow(<<>>, <<>>, v, t))
<1>1. PICK f : f = Flow(h, c, v, t) OBVIOUS
<1>2. /\ f \in Seq(Bytes) /\ Len(f) = Len(h) + Len(c) + Len(v) + Len(t)
      /\ \A i \in 1 .. Len(h) : f[i] = h[i]
      /\ \A i \in 1 .. Len(c) : f[Len(h) + i] = c[i]
  <2>1. PICK x \in Seq(Bytes) : /\ x = Then(h, c) /\ Len(x) = Len(h) + Len(c)
                                /\ \A i \in 1 .. Len(h) + Len(c) :
                                      x[i] = IF i <= Len(h) THEN h[i] ELSE c[i - Len(h)]
    BY ThenProperties
  <2>2. PICK y \in Seq(Bytes) : y = Then(v, t) /\ Len(y) = Len(v) + Len(t)
    BY ThenProperties
  <2>3. /\ Then(x, y) \in Seq(Bytes) /\ Len(Then(x, y)) = Len(x) + Len(y)
        /\ \A i \in 1 .. Len(x) + Len(y) :
              Then(x, y)[i] = IF i <= Len(x) THEN x[i] ELSE y[i - Len(x)]
    BY ThenProperties
  <2>4. f = Then(x, y) BY <1>1, <2>1, <2>2 DEF Flow
  <2>5. /\ Len(h) \in Nat /\ Len(c) \in Nat /\ Len(v) \in Nat /\ Len(t) \in Nat
        /\ Len(x) \in Nat /\ Len(y) \in Nat
    BY LenProperties
  <2>6. ASSUME NEW i \in 1 .. Len(x) PROVE f[i] = x[i] BY <2>3, <2>4, <2>5
  <2>7. ASSUME NEW i \in 1 .. Len(h) PROVE f[i] = h[i] BY <2>1, <2>5, <2>6
  <2>8. ASSUME NEW i \in 1 .. Len(c) PROVE f[Len(h) + i] = c[i]
    <3>1. PICK k : k = Len(h) + i OBVIOUS
    <3>2. k \in 1 .. Len(x) /\ k \in 1 .. Len(h) + Len(c) /\ ~(k <= Len(h)) /\ k - Len(h) = i
      BY <2>1, <2>5, <3>1
    <3> QED BY <2>1, <2>6, <3>1, <3>2
  <2>9. Len(f) = Len(h) + Len(c) + Len(v) + Len(t) BY <2>1, <2>2, <2>3, <2>4, <2>5
  <2> QED BY <2>3, <2>4, <2>7, <2>8, <2>9
<1>0. Flow(<<>>, <<>>, v, t) = Rest(f, Len(h) + Len(c)) BY <1>1, FlowTake
<1>3. /\ Len(h) \in Nat /\ Len(c) \in Nat /\ Len(v) \in Nat /\ Len(t) \in Nat
      /\ Header \in Nat \ {0}
  BY LenProperties, SizeAssumption
<1> SUFFICES ASSUME NEW q, Laid(q, f), Len(h) = Header, Len(c) = Body[h[1][1]]
             PROVE  /\ q \in Seq(Packets) /\ q # <<>> /\ q[1] \in Packets
                    /\ Unframe(h, c) = q[1]
                    /\ Laid(Tail(q), Flow(<<>>, <<>>, v, t))
  BY <1>1
<1>4. f # <<>>
  <2>1. Len(f) # 0 BY <1>2, <1>3
  <2>2. \A x : x = <<>> => Len(x) = 0 BY EmptySeq
  <2> QED BY <2>1, <2>2
<1>5. /\ q # <<>> /\ q[1] \in Packets /\ \A j \in 1 .. Total(q[1]) : f[j] = <<q[1], j>>
      /\ Laid(Tail(q), Rest(f, Total(q[1])))
  <2> QED BY <1>4, LaidFirst
<1>6. PICK p \in Packets : p = q[1] BY <1>5
<1>7. PICK n : n = Body[p] OBVIOUS
<1>8. n \in Nat /\ Total(p) = Header + n BY <1>7, PacketAssumption DEF Total
<1>9. \A j \in 1 .. Header + n : f[j] = <<p, j>> BY <1>5, <1>6, <1>8
<1>10. \A j \in 1 .. Header : h[j] = <<p, j>>
  <2> SUFFICES ASSUME NEW j \in 1 .. Header PROVE h[j] = <<p, j>>
    OBVIOUS
  <2>1. j \in 1 .. Len(h) /\ j \in 1 .. Header + n BY <1>3, <1>8
  <2> QED BY <1>2, <1>9, <2>1
<1>11. h[1][1] = p
  <2>1. 1 \in 1 .. Header BY <1>3
  <2> QED BY <1>10, <2>1
<1>12. Len(c) = n BY <1>7, <1>11
<1>13. ASSUME NEW j \in 1 .. n PROVE c[j] = <<p, Header + j>>
  <2>1. PICK i : i = Header + j OBVIOUS
  <2>2. i \in 1 .. Header + n /\ j \in 1 .. Len(c) BY <1>3, <1>8, <1>12, <2>1
  <2>3. f[i] = c[j] BY <1>2, <2>1, <2>2
  <2>4. f[i] = <<p, i>> BY <1>9, <2>2
  <2> QED BY <2>1, <2>3, <2>4
<1>14. PICK x \in Seq(Bytes) : /\ x = HeaderOf(p) /\ Len(x) = Header
                               /\ \A j \in 1 .. Header : x[j] = <<p, j>>
  BY BytesAre
<1>15. h = x
  <2>1. \A j \in 1 .. Len(h) : h[j] = x[j] BY <1>10, <1>14
  <2> QED BY <1>14, <2>1, SeqEqual
<1>16. PICK y \in Seq(Bytes) : /\ y = BodyOf(p) /\ Len(y) = Body[p]
                               /\ \A j \in 1 .. Body[p] : y[j] = <<p, Header + j>>
  BY BytesAre
<1>17. c = y
  <2>1. Len(c) = Len(y) /\ \A j \in 1 .. Len(c) : c[j] = y[j]
    BY <1>7, <1>12, <1>13, <1>16
  <2> QED BY <2>1, SeqEqual
<1>18. Unframe(h, c) = p BY <1>11, <1>14, <1>15, <1>16, <1>17 DEF Unframe
<1>19. Flow(<<>>, <<>>, v, t) = Rest(f, Total(p))
  <2>1. Len(h) + Len(c) = Total(p) BY <1>8, <1>12
  <2> QED BY <1>0, <2>1
<1>20. q \in Seq(Packets) BY DEF Laid
<1> QED BY <1>5, <1>6, <1>18, <1>19, <1>20

(* A receive keeps the invariant: bytes move along the lane, or the first of *)
(* the packets laid in it leaves.                                           *)
LEMMA ReceiveStep ==
    ASSUME IInv, NEW e \in Peers, Receive(e)
    PROVE  IInv'
<1>1. Types /\ Shape /\ Lanes /\ InOrder /\ TornNeedsCut BY DEF IInv
<1>2. alive /\ UNCHANGED <<todo, done, events, taken, cut, fresh>>
  BY DEF Receive, CanReceive
<1>3. CASE Closed
  <2>1. Types' BY <1>1, <1>2, <1>3 DEF Types, Closed, recvVars
  <2>2. Shape' BY <1>1, <1>3 DEF Shape, Closed, recvVars
  <2>3. Lanes' /\ InOrder' BY <1>3 DEF Lanes, InOrder, Closed
  <2>4. TornNeedsCut' BY <1>1, <1>2, <1>3 DEF TornNeedsCut, Closed, recvVars
  <2> QED BY <2>1, <2>2, <2>3, <2>4 DEF IInv
(* Only the lane and the receiver of e have changed.                        *)
<1>4. ASSUME NEW x, NEW b, NEW v, NEW k, Heard(e, x, b, v, k), ShapeOf(x, b, k)
      PROVE  /\ Shape'
             /\ \A f \in Peers : f # e => LaneFlow(f)' = LaneFlow(f)
             /\ LaneFlow(e)' = Flow(x, b, v, todo[Other[e]])
  <2>1. Shape'
    <3> SUFFICES ASSUME NEW f \in Peers PROVE ShapeOf(head'[f], body'[f], rest'[f])
      BY DEF Shape
    <3>1. CASE f = e BY <1>4, <3>1 DEF Heard
    <3>2. CASE f # e
      <4>1. head'[f] = head[f] /\ body'[f] = body[f] /\ rest'[f] = rest[f]
        BY <1>4, <3>2 DEF Heard
      <4> QED BY <1>1, <4>1 DEF Shape
    <3> QED BY <3>1, <3>2
  <2>2. ASSUME NEW f \in Peers, f # e PROVE LaneFlow(f)' = LaneFlow(f)
    <3>1. head'[f] = head[f] /\ body'[f] = body[f] /\ wire'[Other[f]] = wire[Other[f]]
      BY <1>4, <2>2 DEF Heard
    <3> QED BY <1>2, <3>1 DEF LaneFlow
  <2>3. LaneFlow(e)' = Flow(x, b, v, todo[Other[e]])
    BY <1>2, <1>4 DEF LaneFlow, Heard
  <2> QED BY <2>1, <2>2, <2>3
<1>5. PICK t \in Seq(Bytes) : t = todo[Other[e]] BY <1>1, Opposite DEF Types
<1>6. CASE Partial(e)
  <2>1. PICK x \in Seq(Bytes), b \in Seq(Bytes), v \in Seq(Bytes), k \in Int :
             Heard(e, x, b, v, k) /\ ShapeOf(x, b, k) /\ SameFlow(e, x, b, v)
    BY <1>6 DEF Partial
  <2>2. alive' = alive /\ got' = got BY <1>6 DEF Partial
  <2>3. Shape' BY <1>4, <2>1
  <2>4. ASSUME NEW f \in Peers PROVE LaneFlow(f)' = LaneFlow(f)
    <3>1. CASE f # e BY <1>4, <2>1, <3>1
    <3>2. CASE f = e
      <4>1. LaneFlow(e)' = Flow(x, b, v, t) BY <1>4, <1>5, <2>1
      <4>2. Flow(x, b, v, t) = LaneFlow(e) BY <1>5, <2>1 DEF SameFlow, LaneFlow
      <4> QED BY <3>2, <4>1, <4>2
    <3> QED BY <3>1, <3>2
  <2>5. Types'
    <3>1. /\ head' \in [Peers -> Seq(Bytes)] /\ body' \in [Peers -> Seq(Bytes)]
          /\ wire' \in [Peers -> Seq(Bytes)] /\ rest' \in [Peers -> Int]
      BY <2>1 DEF Heard
    <3> QED BY <1>1, <1>2, <2>2, <3>1 DEF Types
  <2>6. Lanes'
    <3> SUFFICES ASSUME NEW f \in Peers, ~cut[Other[f]] PROVE \E q : Laid(q, LaneFlow(f)')
      BY <1>2 DEF Lanes
    <3>1. \E q : Laid(q, LaneFlow(f)) BY <1>1, <1>2 DEF Lanes
    <3> QED BY <2>4, <3>1
  <2>7. InOrder'
    <3> SUFFICES ASSUME NoCommand, NEW f \in Peers PROVE LaneInOrder(f)'
      BY <1>2 DEF InOrder, NoCommand
    <3>1. LaneInOrder(f) BY <1>1, <1>2 DEF InOrder
    <3>2. LaneFlow(f)' = LaneFlow(f) BY <2>4
    <3> QED BY <1>2, <2>2, <3>1, <3>2 DEF LaneInOrder
  <2>8. TornNeedsCut' BY <1>1, <1>2, <2>2 DEF TornNeedsCut
  <2> QED BY <2>3, <2>5, <2>6, <2>7, <2>8 DEF IInv
<1>7. CASE Complete(e)
  <2>1. PICK h \in Seq(Bytes), c \in Seq(Bytes), v \in Seq(Bytes) : HandedOver(e, h, c, v)
    BY <1>7 DEF Complete
  <2>2. /\ Len(h) = Header /\ Len(c) = Body[h[1][1]]
        /\ Heard(e, <<>>, <<>>, v, Length) /\ SameFlow(e, h, c, v)
        /\ got' = [got EXCEPT ![e] = Append(@, Unframe(h, c))] /\ alive' = alive
    BY <1>7, <2>1 DEF HandedOver, Complete
  <2>3. LaneFlow(e) = Flow(h, c, v, t) BY <1>5, <2>2 DEF SameFlow, LaneFlow
  <2>4. PICK u \in Packets \cup {Torn} : u = Unframe(h, c) BY <2>2, UnframeIs
  <2>5. PICK g \in Seq(Packets \cup {Torn}) : g = got[e] BY <1>1 DEF Types
  <2>6. /\ Append(g, u) \in Seq(Packets \cup {Torn}) /\ Len(Append(g, u)) = Len(g) + 1
        /\ Append(g, u)[Len(g) + 1] = u /\ \A i \in 1 .. Len(g) : Append(g, u)[i] = g[i]
        /\ Len(g) \in Nat
    BY AppendProperties, LenProperties
  <2>7. /\ got' \in [Peers -> Seq(Packets \cup {Torn})] /\ got'[e] = Append(g, u)
        /\ \A f \in Peers : f # e => got'[f] = got[f]
    BY <1>1, <2>2, <2>4, <2>5, <2>6 DEF Types
  <2>8. ShapeOf(<<>>, <<>>, Length)
    <3>1. \A z : z = <<>> => Len(z) = 0 BY EmptySeq
    <3>2. Len(<<>>) = 0 BY <3>1
    <3> QED BY <3>2, SizeAssumption DEF ShapeOf
  <2>9. Shape' BY <1>4, <2>2, <2>8
  <2>10. Types'
    <3>1. /\ head' \in [Peers -> Seq(Bytes)] /\ body' \in [Peers -> Seq(Bytes)]
          /\ wire' \in [Peers -> Seq(Bytes)] /\ rest' \in [Peers -> Int]
      BY <2>2 DEF Heard
    <3> QED BY <1>1, <1>2, <2>2, <2>7, <3>1 DEF Types
  <2>11. LaneFlow(e)' = Flow(<<>>, <<>>, v, t) BY <1>4, <1>5, <2>2, <2>8
  <2>12. ASSUME NEW q, Laid(q, LaneFlow(e))
         PROVE  /\ q \in Seq(Packets) /\ q # <<>> /\ u = q[1] /\ u \in Packets
                /\ Laid(Tail(q), LaneFlow(e)')
    <3>1. Laid(q, Flow(h, c, v, t)) BY <2>3, <2>12
    <3>2. /\ q \in Seq(Packets) /\ q # <<>> /\ q[1] \in Packets
          /\ Unframe(h, c) = q[1] /\ Laid(Tail(q), Flow(<<>>, <<>>, v, t))
      BY <2>2, <3>1, FirstWhole
    <3> QED BY <2>4, <2>11, <3>2
  <2>13. Lanes'
    <3> SUFFICES ASSUME NEW f \in Peers, ~cut[Other[f]] PROVE \E q : Laid(q, LaneFlow(f)')
      BY <1>2 DEF Lanes
    <3>1. PICK q : Laid(q, LaneFlow(f)) BY <1>1, <1>2 DEF Lanes
    <3>2. CASE f # e
      <4>1. LaneFlow(f)' = LaneFlow(f) BY <1>4, <2>2, <2>8, <3>2
      <4> QED BY <3>1, <4>1
    <3>3. CASE f = e BY <2>12, <3>1, <3>3
    <3> QED BY <3>2, <3>3
  <2>14. InOrder'
    <3> SUFFICES ASSUME NoCommand, NEW f \in Peers PROVE LaneInOrder(f)'
      BY <1>2 DEF InOrder, NoCommand
    <3>1. LaneInOrder(f) BY <1>1, <1>2 DEF InOrder
    <3>2. CASE f # e
      <4>1. LaneFlow(f)' = LaneFlow(f) BY <1>4, <2>2, <2>8, <3>2
      <4> QED BY <1>2, <2>7, <3>1, <3>2, <4>1 DEF LaneInOrder
    <3>3. CASE f = e
      <4>1. PICK s \in Seq(Packets) : s = taken[Other[e]] BY <1>1, Opposite DEF Types
      <4>2. PICK n \in Nat : n = Len(g) BY <2>6
      <4>3. ~cut[Other[e]] /\ n <= Len(s) /\ Laid(Rest(s, n), LaneFlow(e))
        BY <2>5, <3>1, <3>3, <4>1, <4>2 DEF LaneInOrder
      <4>4. Rest(s, n) # <<>> /\ Laid(Tail(Rest(s, n)), LaneFlow(e)') BY <2>12, <4>3
      <4>5. n + 1 <= Len(s) /\ Rest(s, n + 1) = Tail(Rest(s, n)) BY <4>3, <4>4, RestTail
      <4>6. got'[e] = Append(g, u) /\ Len(Append(g, u)) = n + 1 BY <2>6, <2>7, <4>2
      <4> QED BY <1>2, <3>3, <4>1, <4>3, <4>4, <4>5, <4>6 DEF LaneInOrder
    <3> QED BY <3>2, <3>3
  <2>15. TornNeedsCut'
    <3> SUFFICES ASSUME NEW f \in Peers, NEW i \in 1 .. Len(got'[f]), got'[f][i] = Torn
                 PROVE  cut[Other[f]]
      BY <1>2 DEF TornNeedsCut
    <3>1. CASE f # e
      <4>1. got'[f] = got[f] BY <2>7, <3>1
      <4> QED BY <1>1, <4>1 DEF TornNeedsCut
    <3>2. CASE f = e /\ i \in 1 .. Len(g)
      <4>1. g[i] = Torn BY <2>6, <2>7, <3>2
      <4> QED BY <1>1, <2>5, <3>2, <4>1 DEF TornNeedsCut
    <3>3. CASE f = e /\ i \notin 1 .. Len(g)
      <4>1. i = Len(g) + 1 BY <2>6, <2>7, <3>3
      <4>2. u = Torn BY <2>6, <2>7, <3>3, <4>1
      <4> SUFFICES ASSUME ~cut[Other[e]] PROVE FALSE
        BY <3>3
      <4>3. PICK q : Laid(q, LaneFlow(e)) BY <1>1, <1>2 DEF Lanes
      <4>4. u \in Packets BY <2>12, <4>3
      <4> QED BY <4>2, <4>4, TornAssumption
    <3> QED BY <3>1, <3>2, <3>3
  <2> QED BY <2>9, <2>10, <2>13, <2>14, <2>15 DEF IInv
<1> QED BY <1>1, <1>3, <1>6, <1>7, ReceiveIs

-----------------------------------------------------------------------------
(* The theorems                                                             *)

(* Whatever packets are sent and however the kernel splits them, every byte *)
(* on the way belongs to a packet that lies there whole, unless a command   *)
(* has cut one: abi_mem2fd_task_send and abi_ioc_recv keep the framing.     *)
THEOREM Invariant == StreamSpec => []IInv
<1>1. StreamInit => IInv
  <2> SUFFICES ASSUME StreamInit PROVE IInv
    OBVIOUS
  <2>1. PICK z : z = <<>> OBVIOUS
  <2>2. /\ z \in Seq(Bytes) /\ z \in Seq(Packets) /\ z \in Seq(Packets \cup {Torn})
        /\ Len(z) = 0
    BY <2>1, EmptySeq
  <2>3. Types
    <3>1. FALSE \in BOOLEAN /\ TRUE \in BOOLEAN /\ Length \in Int BY DEF Length
    <3> QED BY <2>1, <2>2, <3>1 DEF StreamInit, Types
  <2>4. \A f \in Peers : /\ head[f] = z /\ body[f] = z /\ got[f] = z /\ rest[f] = Length
                          /\ wire[Other[f]] = z /\ todo[Other[f]] = z
                          /\ taken[Other[f]] = z /\ cut[Other[f]] = FALSE
    BY <2>1, Opposite DEF StreamInit
  <2>5. Shape BY <2>1, <2>2, <2>4, SizeAssumption DEF Shape, ShapeOf
  <2>6. Flow(z, z, z, z) = z
    <3>1. Then(z, z) = z BY <2>1, <2>2, ThenProperties
    <3> QED BY <3>1 DEF Flow
  <2>7. ASSUME NEW f \in Peers PROVE LaneFlow(f) = z /\ Laid(z, LaneFlow(f))
    <3>1. LaneFlow(f) = z BY <2>4, <2>6 DEF LaneFlow
    <3> QED BY <2>1, <3>1, LaidNone
  <2>8. Lanes BY <2>7 DEF Lanes
  <2>9. InOrder
    <3> SUFFICES ASSUME NEW f \in Peers PROVE LaneInOrder(f)
      BY DEF InOrder
    <3>1. Rest(z, 0) = z
      <4>1. z \in Seq(Packets) /\ 0 \in 0 .. Len(z) BY <2>2
      <4>2. Rest(z, 0) \in Seq(Packets) /\ Len(Rest(z, 0)) = Len(z) - 0
        BY <4>1, Parts
      <4>3. Len(Rest(z, 0)) = 0 BY <2>2, <4>2
      <4> QED BY <2>1, <4>2, <4>3, EmptySeq
    <3>2. Len(got[f]) = 0 /\ Len(taken[Other[f]]) = 0 BY <2>2, <2>4
    <3> QED BY <2>4, <2>7, <3>1, <3>2 DEF LaneInOrder
  <2>10. TornNeedsCut BY <2>2, <2>4 DEF TornNeedsCut
  <2> QED BY <2>3, <2>5, <2>8, <2>9, <2>10 DEF IInv
<1>2. IInv /\ [StreamNext]_vars => IInv'
  <2> SUFFICES ASSUME IInv, [StreamNext]_vars PROVE IInv'
    OBVIOUS
  <2>1. ASSUME NEW e \in Peers, Flush(e) PROVE IInv' BY <2>1, FlushStep
  <2>2. ASSUME NEW e \in Peers, Receive(e) PROVE IInv' BY <2>2, ReceiveStep
  <2>3. ASSUME NEW e \in Peers, NEW p \in Packets, Send(e, p) PROVE IInv' BY <2>3, SendStep
  <2>4. ASSUME NEW e \in Peers, NEW p \in Packets, Command(e, p) PROVE IInv'
    BY <2>4, CommandStep
  <2>5. CASE UNCHANGED vars
    <3>1. UNCHANGED <<todo, done, wire, events, head, body, rest, alive, taken, got, cut, fresh>>
      BY <2>5 DEF vars, sendVars, recvVars
    <3> QED BY <3>1 DEF IInv, Types, Shape, Lanes, InOrder, LaneInOrder, LaneFlow,
                        NoCommand, TornNeedsCut
  <2> QED BY <2>1, <2>2, <2>3, <2>4, <2>5 DEF StreamNext
<1> QED BY <1>1, <1>2, PTL DEF StreamSpec

(* rx_cb is given something that is not one packet's header and body only   *)
(* after a command overwrote a half written packet (abi_writer_task_reset). *)
THEOREM FramingHolds == StreamSpec => []TornNeedsCut
<1>1. IInv => TornNeedsCut BY DEF IInv
<1> QED BY <1>1, Invariant, PTL

-----------------------------------------------------------------------------
(* The channel of packets                                                   *)

(* What each peer's buffer took and the other end has not been given.       *)
Waiting(g) == Rest(taken[g], Len(got[Other[g]]))
WaitingAt == [g \in Peers |-> Waiting(g)]

(* The packet a receive completes is the first that waits.                  *)
LEMMA CompleteGets ==
    ASSUME IInv, alive, NoCommand, NEW e \in Peers,
           NEW h \in Seq(Bytes), NEW c \in Seq(Bytes), NEW v, HandedOver(e, h, c, v),
           v \in Seq(Bytes), UNCHANGED <<taken, alive>>
    PROVE  Promise!Get(Other[e])
<1>1. Types /\ InOrder BY DEF IInv
<1>2. Other[e] \in Peers /\ Other[Other[e]] = e BY Opposite
<1>3. PICK t \in Seq(Bytes) : t = todo[Other[e]] BY <1>1, <1>2 DEF Types
<1>4. /\ Len(h) = Header /\ Len(c) = Body[h[1][1]] /\ SameFlow(e, h, c, v)
      /\ got' = [got EXCEPT ![e] = Append(@, Unframe(h, c))]
  BY DEF HandedOver
<1>5. LaneFlow(e) = Flow(h, c, v, t) BY <1>3, <1>4 DEF SameFlow, LaneFlow
<1>6. PICK q : q = Waiting(Other[e]) OBVIOUS
<1>7. LaneInOrder(e) BY <1>1 DEF InOrder
<1>8. Len(got[e]) <= Len(taken[Other[e]]) /\ Laid(q, LaneFlow(e))
  BY <1>2, <1>6, <1>7 DEF LaneInOrder, Waiting
<1>9. q \in Seq(Packets) /\ q # <<>> /\ Unframe(h, c) = q[1]
  <2>1. Laid(q, Flow(h, c, v, t)) BY <1>5, <1>8
  <2> QED BY <1>4, <2>1, FirstWhole
<1>10. PICK s \in Seq(Packets) : s = taken[Other[e]] BY <1>1, <1>2 DEF Types
<1>11. PICK g \in Seq(Packets \cup {Torn}), n \in Nat : g = got[e] /\ n = Len(g)
  <2>1. got[e] \in Seq(Packets \cup {Torn}) BY <1>1 DEF Types
  <2>2. Len(got[e]) \in Nat BY <2>1, LenProperties
  <2> QED BY <2>1, <2>2
<1>12. q = Rest(s, n) /\ n <= Len(s) BY <1>2, <1>6, <1>8, <1>10, <1>11 DEF Waiting
<1>13. Rest(s, n + 1) = Tail(q)
  <2>1. Rest(s, n) # <<>> BY <1>9, <1>12
  <2> QED BY <1>12, <2>1, RestTail
<1>14. PICK u \in Packets : u = q[1]
  <2>1. Len(q) \in Nat \ {0} BY <1>9, EmptySeq
  <2>2. 1 \in 1 .. Len(q) BY <2>1
  <2> QED BY <1>9, <2>2, ElementOfSeq
<1>15. Head(q) = u BY <1>9, <1>14, HeadTailProperties
<1>16. got' = [got EXCEPT ![e] = Append(g, u)] /\ Len(Append(g, u)) = n + 1
  <2>1. u \in Packets \cup {Torn} BY <1>14
  <2> QED BY <1>4, <1>9, <1>11, <1>14, <2>1, AppendProperties
<1>17. got'[e] = Append(g, u) /\ \A f \in Peers : f # e => got'[f] = got[f]
  BY <1>1, <1>16 DEF Types
<1>18. WaitingAt' = [WaitingAt EXCEPT ![Other[e]] = Tail(@)]
  <2>1. Waiting(Other[e])' = Tail(Waiting(Other[e]))
    <3>1. Waiting(Other[e])' = Rest(s, n + 1)
      BY <1>2, <1>10, <1>16, <1>17 DEF Waiting
    <3> QED BY <1>6, <1>13, <3>1
  <2>2. ASSUME NEW f \in Peers, f # Other[e] PROVE Waiting(f)' = Waiting(f)
    <3>1. Other[f] \in Peers /\ Other[f] # e BY <2>2, Opposite
    <3> QED BY <1>17, <3>1 DEF Waiting
  <2> QED BY <1>2, <2>1, <2>2 DEF WaitingAt
<1>19. WaitingAt[Other[e]] = q BY <1>2, <1>6 DEF WaitingAt
<1>20. got' = [got EXCEPT ![Other[Other[e]]] = Append(@, Head(WaitingAt[Other[e]]))]
  BY <1>2, <1>11, <1>15, <1>16, <1>19
<1> QED BY <1>9, <1>18, <1>19, <1>20 DEF Promise!Get, WaitingAt, Waiting

(* Each step of the connection before the first command is a step of the    *)
(* channel, or none.                                                        *)
LEMMA StepMaps ==
    ASSUME IInv, StreamNext, NoCommand'
    PROVE  Promise!ChannelNext \/ UNCHANGED <<taken, got, alive>>
<1>1. Types /\ Shape /\ InOrder BY DEF IInv
<1>2. ASSUME NEW e \in Peers, Flush(e) PROVE UNCHANGED <<taken, got, alive>>
  BY <1>2 DEF Flush, recvVars
<1>3. ASSUME NEW e \in Peers, NEW p \in Packets, Command(e, p) PROVE FALSE
  BY <1>3 DEF Command, NoCommand
<1>4. ASSUME NEW e \in Peers, NEW p \in Packets, Send(e, p)
      PROVE  Promise!ChannelNext \/ UNCHANGED <<taken, got, alive>>
  <2>1. alive /\ got' = got /\ alive' = alive /\ fresh' \subseteq fresh
    BY <1>4 DEF Send, recvVars
  <2>2. CASE UNCHANGED taken BY <2>1, <2>2
  <2>3. CASE taken' = [taken EXCEPT ![e] = Append(@, p)]
    <3>1. PICK k \in Seq(Packets), n \in Nat : k = taken[e] /\ n = Len(got[Other[e]])
      BY <1>1, SentOn
    <3>2. NoCommand BY <2>1 DEF NoCommand
    <3>3. LaneInOrder(Other[e]) /\ Other[Other[e]] = e
      BY <1>1, <2>1, <3>2, Opposite DEF InOrder
    <3>4. n \in 0 .. Len(k)
      <4>1. Len(k) \in Nat BY LenProperties
      <4> QED BY <3>1, <3>3, <4>1 DEF LaneInOrder
    <3>5. Rest(Append(k, p), n) = Append(Rest(k, n), p) BY <3>4, RestAppend
    <3>6. taken'[e] = Append(k, p) /\ \A f \in Peers : f # e => taken'[f] = taken[f]
      BY <1>1, <2>3, <3>1 DEF Types
    <3>7. Waiting(e)' = Append(Waiting(e), p)
      BY <2>1, <3>1, <3>5, <3>6 DEF Waiting
    <3>8. \A f \in Peers : f # e => Waiting(f)' = Waiting(f)
      BY <2>1, <3>6 DEF Waiting
    <3>9. WaitingAt' = [WaitingAt EXCEPT ![e] = Append(@, p)]
      BY <3>7, <3>8 DEF WaitingAt
    <3>10. Promise!Put(e, p) BY <2>1, <3>9 DEF Promise!Put, WaitingAt, Waiting
    <3> QED BY <3>10 DEF Promise!ChannelNext
  <2> QED BY <1>4, <2>2, <2>3 DEF Send, AppendPacket
<1>5. ASSUME NEW e \in Peers, Receive(e)
      PROVE  Promise!ChannelNext \/ UNCHANGED <<taken, got, alive>>
  <2>1. alive /\ taken' = taken /\ fresh' = fresh BY <1>5 DEF Receive, CanReceive
  <2>2. NoCommand BY <2>1 DEF NoCommand
  <2>3. CASE Closed
    <3>1. got' = got /\ alive' = FALSE BY <2>3 DEF Closed, recvVars
    <3>2. WaitingAt' = WaitingAt BY <2>1, <3>1 DEF WaitingAt, Waiting
    <3>3. Promise!CloseChannel
      BY <3>1, <3>2 DEF Promise!CloseChannel, WaitingAt, Waiting
    <3> QED BY <3>3 DEF Promise!ChannelNext
  <2>4. CASE Partial(e) BY <2>1, <2>4 DEF Partial
  <2>5. CASE Complete(e)
    <3>1. PICK h \in Seq(Bytes), c \in Seq(Bytes), v \in Seq(Bytes) : HandedOver(e, h, c, v)
      BY <2>5 DEF Complete
    <3>2. alive' = alive /\ Other[e] \in Peers BY <2>5, Opposite DEF Complete
    <3>3. Promise!Get(Other[e]) BY <2>1, <2>2, <3>1, <3>2, CompleteGets
    <3> QED BY <3>2, <3>3 DEF Promise!ChannelNext
  <2> QED BY <1>1, <1>5, <2>3, <2>4, <2>5, ReceiveIs
<1> QED BY <1>2, <1>3, <1>4, <1>5 DEF StreamNext

(* Until the first command a connection carries the packets its buffers took *)
(* whole, once and in order, for every number and length of packets, size of *)
(* buffers and way the kernel splits a write or a read.                     *)
THEOREM ConnectionIsChannel == StreamSpec => ImplementsChannel
<1>1. StreamInit => Promise!ChannelInit
  <2> SUFFICES ASSUME StreamInit PROVE Promise!ChannelInit
    OBVIOUS
  <2>1. /\ taken = [g \in Peers |-> <<>>] /\ got = [g \in Peers |-> <<>>] /\ alive = TRUE
    BY DEF StreamInit
  <2>2. Rest(<<>>, Len(<<>>)) = <<>>
    <3>1. PICK z \in Seq(Packets) : z = <<>> /\ Len(z) = 0 BY EmptySeq
    <3>2. 0 \in 0 .. Len(z) BY <3>1
    <3>3. Rest(z, 0) \in Seq(Packets) /\ Len(Rest(z, 0)) = Len(z) - 0 BY <3>2, Parts
    <3>4. Len(Rest(z, 0)) = 0 BY <3>1, <3>3
    <3>5. Rest(z, 0) = <<>> BY <3>3, <3>4, EmptySeq
    <3> QED BY <3>1, <3>5
  <2>3. \A g \in Peers : Rest(taken[g], Len(got[Other[g]])) = <<>>
    BY <2>1, <2>2, Opposite
  <2> QED BY <2>1, <2>3 DEF Promise!ChannelInit
<1>2. IInv /\ [StreamNext]_vars =>
        [NoCommand' => Promise!ChannelNext]_<<taken, got, alive>>
  <2> SUFFICES ASSUME IInv, [StreamNext]_vars
               PROVE  (NoCommand' => Promise!ChannelNext) \/ UNCHANGED <<taken, got, alive>>
    OBVIOUS
  <2>1. CASE StreamNext BY <2>1, StepMaps
  <2>2. CASE UNCHANGED vars BY <2>2 DEF vars, recvVars
  <2> QED BY <2>1, <2>2
<1> QED BY <1>1, <1>2, Invariant, PTL DEF StreamSpec, ImplementsChannel

-----------------------------------------------------------------------------
(* A standstill                                                             *)

(* With bytes in its buffer a peer waits for output only, without it waits   *)
(* for input; the kernel holds no more than it has room for.                *)
StallInv ==
    /\ events \in [Peers -> SUBSET {"IN", "OUT"}]
    /\ \A e \in Peers : IF todo[e] = <<>> THEN "IN" \in events[e] ELSE events[e] = {"OUT"}
    /\ \A e \in Peers : Len(wire[e]) <= Wire

(* A write leaves the events that fit what it left in the buffer.           *)
LEMMA WriteStall ==
    ASSUME Types, StallInv, NEW e \in Peers, NEW y \in Seq(Bytes), NEW o, Write(e, y, o)
    PROVE  StallInv'
<1>1. PICK w \in Seq(Bytes), ev \in SUBSET {"IN", "OUT"} : w = wire[e] /\ ev = events[e]
  BY DEF Types, StallInv
<1>2. CASE /\ y = <<>> /\ todo' = [todo EXCEPT ![e] = <<>>]
           /\ events' = [events EXCEPT ![e] = {"IN"}] /\ UNCHANGED wire
  BY <1>2 DEF StallInv, Types
<1>3. CASE y # <<>>
  <2>1. Len(w) \in Nat /\ Len(y) \in Nat \ {0} /\ Wire \in Nat /\ Len(w) <= Wire
    BY <1>1, <1>3, LenProperties, EmptySeq, SizeAssumption DEF StallInv
  <2>2. Room(e) \in Nat /\ Len(w) + Room(e) = Wire BY <1>1, <2>1 DEF Room
  <2>3. PICK n \in IF Room(e) = 0 THEN {0} ELSE 1 .. Least(Room(e), Len(y)) :
             /\ wire' = [wire EXCEPT ![e] = @ \o SubSeq(y, 1, n)]
             /\ todo' = [todo EXCEPT ![e] = Rest(y, n)]
             /\ events' = [events EXCEPT ![e] = WaitFor(@, Len(y) - n)]
    BY <1>3 DEF Write
  <2>4. n \in 0 .. Len(y) /\ n <= Room(e) BY <2>1, <2>2 DEF Least
  <2>5. PICK x \in Seq(Bytes), r \in Seq(Bytes) :
             x = Front(y, n) /\ r = Rest(y, n) /\ Len(x) = n /\ Len(r) = Len(y) - n
    BY <2>4, Parts
  <2>6. PICK v \in Seq(Bytes) : v = Then(w, x) /\ Len(v) = Len(w) + Len(x)
    BY ThenProperties
  <2>7. Len(v) <= Wire BY <2>1, <2>2, <2>4, <2>5, <2>6
  <2>8. PICK nv \in SUBSET {"IN", "OUT"} : nv = WaitFor(ev, Len(y) - n) BY DEF WaitFor
  <2>9. IF r = <<>> THEN "IN" \in nv ELSE nv = {"OUT"}
    <3>1. CASE Len(y) - n > 0
      <4>1. \A s : s = <<>> => Len(s) = 0 BY EmptySeq
      <4>2. r # <<>> BY <2>5, <3>1, <4>1
      <4> QED BY <2>8, <3>1, <4>2 DEF WaitFor
    <3>2. CASE ~(Len(y) - n > 0)
      <4>1. Len(r) = 0 BY <2>1, <2>4, <2>5, <3>2
      <4>2. r = <<>> BY <4>1, EmptySeq
      <4> QED BY <2>8, <3>2, <4>2 DEF WaitFor
    <3> QED BY <3>1, <3>2
  <2>10. /\ wire' = [wire EXCEPT ![e] = v] /\ todo' = [todo EXCEPT ![e] = r]
         /\ events' = [events EXCEPT ![e] = nv]
    BY <1>1, <2>3, <2>5, <2>6, <2>8 DEF Then, Front
  <2>11. /\ events' \in [Peers -> SUBSET {"IN", "OUT"}]
         /\ wire'[e] = v /\ todo'[e] = r /\ events'[e] = nv
         /\ \A g \in Peers : g # e => /\ wire'[g] = wire[g] /\ todo'[g] = todo[g]
                                     /\ events'[g] = events[g]
    BY <2>10 DEF StallInv, Types
  <2> QED BY <2>7, <2>9, <2>11 DEF StallInv
<1> QED BY <1>2, <1>3 DEF Write

(* A receive takes bytes off the wire and waits for what it did.            *)
LEMMA ReceiveStall ==
    ASSUME Types, StallInv, NEW e \in Peers, Receive(e)
    PROVE  StallInv'
<1>1. Other[e] \in Peers BY Opposite
<1>2. PICK w \in Seq(Bytes) : w = wire[Other[e]] BY <1>1 DEF Types
<1>3. Len(w) \in Nat /\ Len(w) <= Wire BY <1>1, <1>2, LenProperties DEF StallInv
<1>4. ASSUME NEW v \in Seq(Bytes), wire' = [wire EXCEPT ![Other[e]] = v], Len(v) <= Len(w)
      PROVE  StallInv'
  <2>1. events' = events /\ todo' = todo BY DEF Receive
  <2>2. Len(v) <= Wire
    <3>1. Len(v) \in Nat BY LenProperties
    <3> QED BY <1>3, <1>4, <3>1, SizeAssumption
  <2>3. wire'[Other[e]] = v /\ \A g \in Peers : g # Other[e] => wire'[g] = wire[g]
    BY <1>1, <1>4 DEF Types
  <2> QED BY <2>1, <2>2, <2>3 DEF StallInv
<1>5. ASSUME NEW x, NEW m \in Nat, NEW u \in Seq(Bytes), ReadBody(e, x, m, u),
             Len(u) <= Len(w)
      PROVE  StallInv'
  <2>1. CASE wire' = [wire EXCEPT ![Other[e]] = u] BY <1>4, <1>5, <2>1
  <2>2. CASE \E i \in 1 .. Least(m, Len(u)) : TakeBody(e, x, m, u, i)
    <3>1. PICK i \in 1 .. Least(m, Len(u)) : TakeBody(e, x, m, u, i) BY <2>2
    <3>2. Len(u) \in Nat BY LenProperties
    <3>3. i \in 0 .. Len(u) BY <3>2 DEF Least
    <3>4. PICK v \in Seq(Bytes) : v = Rest(u, i) /\ Len(v) = Len(u) - i BY <3>3, Parts
    <3>5. Len(v) <= Len(w) BY <1>3, <1>5, <3>2, <3>3, <3>4
    <3> QED BY <1>4, <3>1, <3>4, <3>5 DEF TakeBody
  <2> QED BY <1>5, <2>1, <2>2 DEF ReadBody
<1>6. CASE rest[e] # Length /\ ReadBody(e, head[e], rest[e], w)
  <2>1. CASE rest[e] \in Nat BY <1>3, <1>5, <1>6, <2>1
  <2>2. CASE rest[e] \notin Nat
    <3>1. rest[e] \in Int BY DEF Types
    <3>2. ASSUME NEW i \in 1 .. Least(rest[e], Len(w)) PROVE FALSE
      BY <1>3, <2>2, <3>1 DEF Least
    <3>3. wire' = [wire EXCEPT ![Other[e]] = w] BY <1>6, <3>2 DEF ReadBody
    <3>4. Len(w) <= Len(w) BY <1>3
    <3> QED BY <1>4, <3>3, <3>4
  <2> QED BY <2>1, <2>2
<1>7. CASE ReadHeader(e)
  <2>1. PICK n, x :
             /\ n \in 1 .. Least(Header - Len(head[e]), Len(w))
             /\ x = head[e] \o SubSeq(w, 1, n)
             /\ \/ wire' = [wire EXCEPT ![Other[e]] = Rest(w, n)]
                \/ Len(x) = Header /\ ReadBody(e, x, Announced(x), Rest(w, n))
    BY <1>2, <1>7 DEF ReadHeader
  <2>2. PICK h \in Seq(Bytes) : h = head[e] BY DEF Types
  <2>3. n \in 0 .. Len(w)
    <3>1. Len(h) \in Nat /\ Header \in Nat BY LenProperties, SizeAssumption
    <3> QED BY <1>3, <2>1, <2>2, <3>1 DEF Least
  <2>4. PICK y \in Seq(Bytes), v \in Seq(Bytes) :
             y = Front(w, n) /\ v = Rest(w, n) /\ Len(v) = Len(w) - n
    BY <2>3, Parts
  <2>5. Len(v) <= Len(w) BY <1>3, <2>3, <2>4
  <2>6. CASE wire' = [wire EXCEPT ![Other[e]] = Rest(w, n)] BY <1>4, <2>4, <2>5, <2>6
  <2>7. CASE Len(x) = Header /\ ReadBody(e, x, Announced(x), Rest(w, n))
    <3>1. x \in Seq(Bytes)
      BY <2>1, <2>2, <2>4, ThenProperties DEF Then, Front
    <3>2. 1 \in 1 .. Len(x) BY <2>7, SizeAssumption
    <3>3. x[1] \in Bytes BY <3>1, <3>2, ElementOfSeq
    <3>4. PICK a \in Nat : a = Announced(x)
      BY <3>3, PacketAssumption DEF Announced, Bytes
    <3> QED BY <1>5, <2>4, <2>5, <2>7, <3>4
  <2> QED BY <2>1, <2>6, <2>7
<1> QED BY <1>2, <1>6, <1>7 DEF Receive

(* When nothing moves any more both ends are blocked on output: the only     *)
(* standstill of abi_io_iterator's POLLIN and POLLOUT is the mutual one.    *)
THEOREM StallsTogether == StreamSpec => []StallIsMutual
<1>1. StreamInit => StallInv
  <2> SUFFICES ASSUME StreamInit PROVE StallInv
    OBVIOUS
  <2>1. \A s : s = <<>> => Len(s) = 0 BY EmptySeq
  <2> QED BY <2>1, SizeAssumption DEF StreamInit, StallInv
<1>2. IInv /\ StallInv /\ [StreamNext]_vars => StallInv'
  <2> SUFFICES ASSUME IInv, StallInv, [StreamNext]_vars PROVE StallInv'
    OBVIOUS
  <2>1. Types BY DEF IInv
  <2>2. ASSUME NEW e \in Peers, NEW y \in Seq(Bytes), NEW o, Write(e, y, o) PROVE StallInv'
    BY <2>1, <2>2, WriteStall
  <2>3. ASSUME NEW e \in Peers, Flush(e) PROVE StallInv'
    <3>1. PICK t \in Seq(Bytes) : t = todo[e] BY <2>1, SentOn
    <3>2. Write(e, t, done[e]) BY <2>3, <3>1 DEF Flush
    <3> QED BY <2>2, <3>2
  <2>4. ASSUME NEW e \in Peers, Receive(e) PROVE StallInv' BY <2>1, <2>4, ReceiveStall
  <2>5. ASSUME NEW e \in Peers, NEW p \in Packets, Send(e, p) PROVE StallInv'
    <3>1. PICK t \in Seq(Bytes), x \in Seq(Bytes) : t = todo[e] /\ x = BytesOf(p)
      BY <2>1, SentOn, BytesAre
    <3>2. PICK y \in Seq(Bytes) : y = t \o x BY ThenProperties DEF Then
    <3>3. \E o : Write(e, y, o) \/ Write(e, t, o)
      BY <2>5, <3>1, <3>2 DEF Send, AppendPacket
    <3> QED BY <2>2, <3>3
  <2>6. ASSUME NEW e \in Peers, NEW p \in Packets, Command(e, p) PROVE StallInv'
    <3>1. PICK x \in Seq(Bytes), z \in Seq(Bytes) : x = BytesOf(p) /\ z = <<>>
      BY BytesAre, EmptySeq
    <3>2. \E o : Write(e, x, o) \/ Write(e, z, o) BY <2>6, <3>1 DEF Command
    <3> QED BY <2>2, <3>2
  <2>7. CASE UNCHANGED vars
    <3>1. UNCHANGED <<todo, wire, events>> BY <2>7 DEF vars, sendVars
    <3> QED BY <3>1 DEF StallInv
  <2> QED BY <2>3, <2>4, <2>5, <2>6, <2>7 DEF StreamNext
<1>3. IInv /\ StallInv => StallIsMutual
  <2> SUFFICES ASSUME IInv, StallInv, alive,
                      NEW e \in Peers, todo[e] # <<>> \/ wire[e] # <<>>,
                      \A g \in Peers : ~CanFlush(g) /\ ~CanReceive(g)
               PROVE  \A g \in Peers : todo[g] # <<>> /\ Room(g) = 0
    BY DEF StallIsMutual
  <2>1. Types BY DEF IInv
  (* Who has bytes left is blocked on output, and there is something to read.*)
  <2>2. ASSUME NEW g \in Peers, todo[g] # <<>> PROVE Room(g) = 0 /\ wire[g] # <<>>
    <3>1. PICK w \in Seq(Bytes) : w = wire[g] BY <2>1 DEF Types
    <3>2. Len(w) \in Nat /\ Len(w) <= Wire /\ Wire \in Nat \ {0}
      BY <3>1, LenProperties, SizeAssumption DEF StallInv
    <3>3. "OUT" \in events[g] BY <2>2 DEF StallInv
    <3>4. ~(Room(g) > 0) BY <3>3 DEF CanFlush
    <3>5. Room(g) = 0 /\ Len(w) = Wire BY <3>1, <3>2, <3>4 DEF Room
    <3>6. \A s : s = <<>> => Len(s) = 0 BY EmptySeq
    <3> QED BY <3>1, <3>2, <3>5, <3>6
  (* Who has something to read does not read: it has bytes left.            *)
  <2>3. ASSUME NEW g \in Peers, wire[Other[g]] # <<>> PROVE todo[g] # <<>>
    BY <2>3 DEF StallInv, CanReceive
  <2>4. Other[e] \in Peers /\ Other[Other[e]] = e BY Opposite
  <2>5. wire[e] # <<>> BY <2>2
  <2>6. todo[Other[e]] # <<>> BY <2>3, <2>4, <2>5
  <2>7. wire[Other[e]] # <<>> BY <2>2, <2>4, <2>6
  <2>8. todo[e] # <<>> BY <2>3, <2>7
  <2>9. \A g \in Peers : g = e \/ g = Other[e] BY PeersAssumption
  <2> QED BY <2>2, <2>6, <2>8, <2>9
<1> QED BY <1>1, <1>2, <1>3, Invariant, PTL DEF StreamSpec
=============================================================================
