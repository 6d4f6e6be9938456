------------------------------ MODULE AviProofs ------------------------------
(****************************************************************************)
(* The files avi-file-writer.c writes: what is in the file after any calls  *)
(* of the library, and where.  The elements a program has written and the   *)
(* offsets at which their headers are give the layout of the file (Placed), *)
(* the sizes of the lists (Sized) and the room in it (Present); each call   *)
(* is shown to keep them.  EntriesPoint follows for every file, and for one *)
(* that was closed (Sound) that avi-utils.c reads it back: the walk of the  *)
(* parser (Walk) keeps a list on its stack for each list around the next    *)
(* element, with the offset at which that list ends.                        *)
(****************************************************************************)
EXTENDS Viewer, SequenceTheorems, WellFoundedInduction, TLAPS

(* What holds of 0 and passes from n to n + 1 holds up to L.                *)
LEMMA UpTo ==
    ASSUME NEW S, NEW L \in Nat, 0 \in S, \A n \in 0 .. L : n < L /\ n \in S => n + 1 \in S
    PROVE  \A n \in 0 .. L : n \in S
<1> DEFINE T == {n \in 0 .. L : n \notin S}
<1>1. SUFFICES ASSUME T # {} PROVE FALSE
  OBVIOUS
<1>2. T \in SUBSET Nat OBVIOUS
<1> HIDE DEF T
<1>3. PICK n \in T : \A k \in T : ~(<<k, n>> \in OpToRel(<, Nat))
  BY <1>1, <1>2, WFMin, NatLessThanWellFounded, Zenon
<1>4. \A k \in T : ~(k < n) BY <1>2, <1>3, Zenon DEF OpToRel
<1>5. n \in 0 .. L /\ n # 0 BY DEF T
<1>6. n - 1 \in 0 .. L /\ n - 1 < n BY <1>5
<1>7. n - 1 \notin T BY <1>4, <1>6
<1>8. n - 1 \in S /\ n - 1 < L /\ n - 1 + 1 = n BY <1>5, <1>6, <1>7 DEF T
<1>9. n \in S BY <1>6, <1>8
<1> QED BY <1>9 DEF T

----------------------------------------------------------------------------
(* The elements of a file                                                   *)

ListNames == {"AVI ", "hdrl", "strl", "movi"}
ChunkNames == {"avih", "strh", "strf", "00db", "00dc", "01wb", "JUNK", "idx1"}
Elements == [level : Nat, name : ListNames \cup ChunkNames]
Heads == [name : ChunkNames \cup {Riff, List}, type : ListNames \cup {""}, size : Nat]
Opens == [name : ChunkNames \cup {Riff, List, ""}, type : ListNames \cup {""}, offs : Nat]

(* The elements behind o up to k are inside of o; the first that is not     *)
(* ends it.                                                                 *)
Around(W, o, k) == \A i \in o + 1 .. k : W[i].level > W[o].level
EndsAt(W, o, j) ==
    /\ j \in o + 1 .. Len(W) + 1 /\ Around(W, o, j - 1)
    /\ j <= Len(W) => W[j].level <= W[o].level

(* What is written is a tree: an element is inside of the one before, which *)
(* is a list then, or behind it.                                            *)
First(e) == e.level = 0 /\ e.name = "AVI "
Follows(d, e) ==
    /\ e.level >= 1
    /\ e.level <= d.level \/ (e.level = d.level + 1 /\ d.name \in ListNames)
Nested(W) ==
    /\ W \in Seq(Elements)
    /\ W # <<>> => First(W[1])
    /\ \A k \in 1 .. Len(W) - 1 : Follows(W[k], W[k + 1])

(* No list is written twice, the movi list holds chunks and the outermost   *)
(* one lists.                                                               *)
Rules(W) ==
    /\ \A j, k \in 1 .. Len(W) : W[j].name = W[k].name /\ W[k].name \in ListNames => j = k
    /\ \A j, k \in 1 .. Len(W) :
          j < k /\ W[j].name = "movi" /\ Around(W, j, k) => W[k].name \notin ListNames
    /\ \A k \in 1 .. Len(W) : W[k].level <= 1 => W[k].name \in ListNames

(* The headers h are those of the elements, one behind the other.           *)
IsEven(n) == n % 2 = 0
HeadFor(head, e, first, from, to) ==
    IF e.name \in ListNames
    THEN /\ head.name = (IF first THEN Riff ELSE List) /\ head.type = e.name
         /\ to = from + ListHead
    ELSE /\ head.name = e.name /\ e.name \notin {Riff, List} /\ head.type = ""
         /\ to = from + ChunkHead + Even(head.size)
Placed(h, W, at) ==
    /\ at \in [1 .. Len(W) + 1 -> Nat] /\ at[1] = 0
    /\ \A k \in 1 .. Len(W) + 1 : IsEven(at[k])
    /\ \A j, k \in 1 .. Len(W) + 1 : j < k => at[j] + ChunkHead <= at[k]
    /\ h \in [DOMAIN h -> Heads] /\ DOMAIN h = {at[k] : k \in 1 .. Len(W)}
    /\ \A k \in 1 .. Len(W) : HeadFor(h[at[k]], W[k], k = 1, at[k], at[k + 1])

(* The lists that are open, n of them, have no size yet.                    *)
Sized(h, W, at, n) ==
    \A o \in 1 .. Len(W) : W[o].name \in ListNames =>
        /\ W[o].level < n /\ Around(W, o, Len(W)) => h[at[o]].size = 0
        /\ \A j \in 1 .. Len(W) + 1 : EndsAt(W, o, j) /\ (j <= Len(W) \/ W[o].level >= n) =>
              h[at[o]].size = at[j] - at[o] - ChunkHead

(* The bytes of the elements are in the file; JUNK has a header only.       *)
Present(f, W, at) ==
    \A k \in 1 .. Len(W) :
        /\ f.end >= at[k] + ChunkHead
        /\ W[k].name \in ListNames => f.end >= at[k] + ListHead
        /\ W[k].name \notin ListNames \cup {"JUNK"} => f.end >= at[k] + ChunkHead + f.hdr[at[k]].size

IsHandle(a) ==
    /\ a = [file |-> a.file, pos |-> a.pos, size |-> a.size, idx |-> a.idx, l |-> a.l,
            partial |-> a.partial, align |-> a.align, movi_offs |-> a.movi_offs]
    /\ a.file = [end |-> a.file.end, hdr |-> a.file.hdr]
    /\ a.file.end \in Nat /\ a.pos \in Int /\ a.size \in Nat /\ a.idx \in 0 .. MaxIdx
    /\ a.l \in [0 .. MaxIdx -> Opens] /\ {a.partial, a.align} \subseteq BOOLEAN
    /\ a.movi_offs \in Nat

(* The lists that are open are those whose elements come last.              *)
IsOpen(a, W, at, d, o) ==
    /\ at[o] = a.l[d].offs /\ W[o].level = d /\ Around(W, o, Len(W)) /\ W[o].name \in ListNames
    /\ a.l[d].type = W[o].name /\ a.l[d].name = a.file.hdr[at[o]].name

Core(a, W, at) ==
    /\ IsHandle(a)
    /\ Nested(W) /\ Rules(W) /\ Placed(a.file.hdr, W, at) /\ Sized(a.file.hdr, W, at, a.idx)
    /\ Present(a.file, W, at)
    /\ \A d \in 0 .. a.idx - 1 : \E o \in 1 .. Len(W) : IsOpen(a, W, at, d, o)
    /\ \A k \in 1 .. Len(W) : W[k].name = "movi" => a.movi_offs = at[k] + ChunkHead

(* The handle between two calls.  A chunk that is written piece by piece is *)
(* not among the elements yet.                                              *)
Begun(a, W, at) ==
    LET p == at[Len(W) + 1] IN
    /\ a.idx >= 2 /\ a.l[a.idx].offs = p /\ a.l[a.idx].name = "00dc"
    /\ a.size >= p + ChunkHead /\ a.pos = a.size
    /\ a.size > p + ChunkHead => a.file.end >= a.size
Between(a, W, at) ==
    a.size = at[Len(W) + 1] /\ a.pos = (IF a.align THEN a.size - 1 ELSE a.size)
Opened(a, W, at) ==
    /\ Core(a, W, at) /\ a.file.end <= a.size
    /\ IF a.partial THEN Begun(a, W, at) ELSE Between(a, W, at)

Longer(at, n, p) == [k \in 1 .. n + 2 |-> IF k = n + 2 THEN p ELSE at[k]]
Put(h, o, e) == [p \in DOMAIN h \cup {o} |-> IF p = o THEN e ELSE h[p]]

(* An element has a level and a name.                                       *)
LEMMA ElementIs ==
    ASSUME NEW W \in Seq(Elements), NEW k \in 1 .. Len(W)
    PROVE  W[k] \in Elements /\ W[k].level \in Nat /\ W[k].name \in ListNames \cup ChunkNames
<1>1. W[k] \in Elements BY ElementOfSeq
<1> QED BY <1>1 DEF Elements

(* A header that is put changes nothing else.                               *)
LEMMA PutIs ==
    ASSUME NEW h, NEW o, NEW e
    PROVE  /\ DOMAIN Put(h, o, e) = DOMAIN h \cup {o} /\ Put(h, o, e)[o] = e
           /\ \A p \in DOMAIN h : p # o => Put(h, o, e)[p] = h[p]
           /\ Put(h, o, e) = [p \in DOMAIN Put(h, o, e) |-> Put(h, o, e)[p]]
BY DEF Put

(* The tree grows.                                                          *)
LEMMA NestedMore ==
    ASSUME NEW W, Nested(W), NEW e \in Elements,
           W = <<>> => First(e),
           W # <<>> => Follows(W[Len(W)], e)
    PROVE  Nested(Append(W, e))
<1>1. W \in Seq(Elements) BY DEF Nested
<1>2. PICK N \in Nat : N = Len(W) BY <1>1
<1>3. PICK V : V = Append(W, e) OBVIOUS
<1>4. V \in Seq(Elements) /\ Len(V) = N + 1 /\ V[N + 1] = e /\ \A k \in 1 .. N : V[k] = W[k]
  BY <1>1, <1>2, <1>3, AppendProperties
<1>5. First(V[1])
  <2>1. CASE N = 0
    <3>1. W = <<>> BY <1>1, <1>2, <2>1, EmptySeq
    <3> QED BY <1>4, <2>1, <3>1
  <2>2. CASE N # 0
    <3>1. W # <<>> /\ 1 \in 1 .. N BY <1>1, <1>2, <2>2
    <3> QED BY <1>4, <3>1 DEF Nested
  <2> QED BY <2>1, <2>2
<1>6. ASSUME NEW k \in 1 .. N
      PROVE  Follows(V[k], V[k + 1])
  <2>1. CASE k = N
    <3>1. W # <<>> BY <1>1, <1>2, <2>1
    <3> QED BY <1>2, <1>4, <2>1, <3>1
  <2>2. CASE k # N
    <3>1. k \in 1 .. N - 1 /\ k + 1 \in 1 .. N BY <2>2
    <3>2. V[k] = W[k] /\ V[k + 1] = W[k + 1] BY <1>4, <3>1
    <3>3. Follows(W[k], W[k + 1]) BY <1>2, <3>1 DEF Nested
    <3> QED BY <3>2, <3>3
  <2> QED BY <2>1, <2>2
<1>7. Len(V) - 1 = N BY <1>2, <1>4
<1> QED BY <1>3, <1>4, <1>5, <1>6, <1>7, Zenon DEF Nested

(* And the headers: e follows, with the header head, up to p.               *)
Grown(h, W, at, e, head, p, g, V, bt) ==
    LET from == at[Len(W) + 1] IN
    /\ Placed(h, W, at) /\ W \in Seq(Elements) /\ e \in Elements /\ head \in Heads
    /\ p \in Nat /\ IsEven(p) /\ p >= from + ChunkHead /\ HeadFor(head, e, Len(W) = 0, from, p)
    /\ g = Put(h, from, head) /\ V = Append(W, e) /\ bt = Longer(at, Len(W), p)
(* The next element: headers and places grow by one, and stay in order.     *)
LEMMA PlacedMore ==
    ASSUME NEW h, NEW W, NEW at, NEW e, NEW head, NEW p, NEW g, NEW V, NEW bt,
           Grown(h, W, at, e, head, p, g, V, bt), NEW N \in Nat, N = Len(W)
    PROVE  /\ V \in Seq(Elements) /\ Len(V) = N + 1 /\ V[N + 1] = e /\ \A k \in 1 .. N : V[k] = W[k]
           /\ bt[N + 2] = p /\ \A k \in 1 .. N + 1 : bt[k] = at[k]
           /\ g[at[N + 1]] = head /\ \A k \in 1 .. N : g[at[k]] = h[at[k]]
           /\ at[N + 1] \notin DOMAIN h
           /\ Placed(g, V, bt)
<1>1. /\ Placed(h, W, at) /\ W \in Seq(Elements) /\ e \in Elements /\ head \in Heads
      /\ p \in Nat /\ IsEven(p) /\ p >= at[N + 1] + ChunkHead /\ HeadFor(head, e, Len(W) = 0, at[N + 1], p)
      /\ g = Put(h, at[N + 1], head) /\ V = Append(W, e) /\ bt = Longer(at, N, p)
  BY Zenon DEF Grown
<1>2. at \in [1 .. N + 1 -> Nat] BY <1>1 DEF Placed
<1>17. at[1] = 0 /\ \A k \in 1 .. N + 1 : IsEven(at[k]) BY <1>1, Zenon DEF Placed
<1>18. p \in Nat /\ IsEven(p) /\ p >= at[N + 1] + ChunkHead BY <1>1, Zenon
<1>3. /\ V \in Seq(Elements) /\ Len(V) = N + 1 /\ V[N + 1] = e /\ \A k \in 1 .. N : V[k] = W[k]
      /\ bt \in [1 .. N + 2 -> Nat] /\ bt[N + 2] = p /\ \A k \in 1 .. N + 1 : bt[k] = at[k]
  <2>1. V \in Seq(Elements) /\ Len(V) = N + 1 /\ V[N + 1] = e /\ \A k \in 1 .. N : V[k] = W[k]
    BY <1>1, AppendProperties
  <2>2. bt \in [1 .. N + 2 -> Nat] /\ bt[N + 2] = p /\ \A k \in 1 .. N + 1 : bt[k] = at[k]
    BY <1>1, <1>2 DEF Longer
  <2> QED BY <2>1, <2>2
<1>4. /\ DOMAIN g = DOMAIN h \cup {at[N + 1]} /\ g[at[N + 1]] = head
      /\ \A o \in DOMAIN h : o # at[N + 1] => g[o] = h[o]
      /\ g = [o \in DOMAIN g |-> g[o]]
  BY <1>1 DEF Put
<1>5. \A j, k \in 1 .. N + 1 : j < k => at[j] + ChunkHead <= at[k] BY <1>1 DEF Placed
<1>6. DOMAIN h = {at[k] : k \in 1 .. N} BY <1>1 DEF Placed
<1>7. ASSUME NEW k \in 1 .. N PROVE g[at[k]] = h[at[k]] /\ at[k] # at[N + 1]
  <2>1. k \in 1 .. N + 1 /\ N + 1 \in 1 .. N + 1 /\ k < N + 1 OBVIOUS
  <2>2. at[k] + ChunkHead <= at[N + 1] BY <1>5, <2>1
  <2>3. at[k] \in Nat /\ at[N + 1] \in Nat BY <1>2, <2>1
  <2>4. at[k] # at[N + 1] BY <2>2, <2>3 DEF ChunkHead
  <2>5. at[k] \in DOMAIN h BY <1>6
  <2> QED BY <1>4, <2>4, <2>5
<1>8. bt[1] = 0 BY <1>3, <1>17
<1>9. ASSUME NEW k \in 1 .. N + 2 PROVE IsEven(bt[k])
  <2>1. CASE k = N + 2 BY <1>3, <1>18, <2>1
  <2>2. CASE k # N + 2
    <3>1. k \in 1 .. N + 1 BY <2>2
    <3> QED BY <1>3, <1>17, <3>1
  <2> QED BY <2>1, <2>2
<1>10. ASSUME NEW j \in 1 .. N + 2, NEW k \in 1 .. N + 2, j < k PROVE bt[j] + ChunkHead <= bt[k]
  <2>1. CASE k = N + 2
    <3>1. j \in 1 .. N + 1 /\ N + 1 \in 1 .. N + 1 BY <1>10, <2>1
    <3>2. at[j] \in Nat /\ at[N + 1] \in Nat /\ (j = N + 1 \/ j < N + 1) BY <1>2, <3>1
    <3>3. at[j] <= at[N + 1] BY <1>5, <3>1, <3>2 DEF ChunkHead
    <3> QED BY <1>3, <1>18, <2>1, <3>1, <3>2, <3>3 DEF ChunkHead
  <2>2. CASE k # N + 2
    <3>1. j \in 1 .. N + 1 /\ k \in 1 .. N + 1 BY <1>10, <2>2
    <3> QED BY <1>3, <1>5, <1>10, <3>1
  <2> QED BY <2>1, <2>2
<1>11. g \in [DOMAIN g -> Heads]
  <2>1. h \in [DOMAIN h -> Heads] BY <1>1 DEF Placed
  <2>2. \A o \in DOMAIN g : g[o] \in Heads BY <1>1, <1>4, <2>1
  <2> QED BY <1>4, <2>2, Zenon
<1>12. DOMAIN g = {bt[k] : k \in 1 .. N + 1}
  <2>1. ASSUME NEW o \in DOMAIN g PROVE o \in {bt[k] : k \in 1 .. N + 1}
    <3>1. CASE o = at[N + 1]
      <4>1. N + 1 \in 1 .. N + 1 /\ o = bt[N + 1] BY <1>3, <3>1
      <4> QED BY <4>1
    <3>2. CASE o # at[N + 1]
      <4>1. PICK k \in 1 .. N : o = at[k] BY <1>4, <1>6, <3>2
      <4>2. k \in 1 .. N + 1 /\ o = bt[k] BY <1>3, <4>1
      <4> QED BY <4>2
    <3> QED BY <3>1, <3>2
  <2>2. ASSUME NEW k \in 1 .. N + 1 PROVE bt[k] \in DOMAIN g
    <3>1. bt[k] = at[k] BY <1>3
    <3>2. k \in 1 .. N \/ k = N + 1 OBVIOUS
    <3> QED BY <1>4, <1>6, <3>1, <3>2
  <2> QED BY <2>1, <2>2
<1>13. ASSUME NEW k \in 1 .. N + 1 PROVE HeadFor(g[bt[k]], V[k], k = 1, bt[k], bt[k + 1])
  <2>1. CASE k = N + 1
    <3>1. V[k] = e /\ bt[k] = at[N + 1] /\ g[bt[k]] = head /\ bt[k + 1] = p /\ (k = 1 <=> N = 0)
      BY <1>3, <1>4, <2>1
    <3> QED BY <1>1, <3>1, Zenon
  <2>2. CASE k # N + 1
    <3>1. k \in 1 .. N /\ k + 1 \in 1 .. N + 1 BY <2>2
    <3>2. V[k] = W[k] /\ bt[k] = at[k] /\ g[bt[k]] = h[at[k]] /\ bt[k + 1] = at[k + 1]
      BY <1>3, <1>7, <3>1
    <3>3. HeadFor(h[at[k]], W[k], k = 1, at[k], at[k + 1]) BY <1>1, <3>1 DEF Placed
    <3> QED BY <3>2, <3>3
  <2> QED BY <2>1, <2>2
<1>14. Len(V) + 1 = N + 2 BY <1>3
<1>15. Placed(g, V, bt)
  <2>1. bt \in [1 .. Len(V) + 1 -> Nat] /\ bt[1] = 0 BY <1>3, <1>8, <1>14
  <2>2. \A k \in 1 .. Len(V) + 1 : IsEven(bt[k]) BY <1>9, <1>14
  <2>3. \A j, k \in 1 .. Len(V) + 1 : j < k => bt[j] + ChunkHead <= bt[k] BY <1>10, <1>14
  <2>4. DOMAIN g = {bt[k] : k \in 1 .. Len(V)} BY <1>3, <1>12
  <2>5. \A k \in 1 .. Len(V) : HeadFor(g[bt[k]], V[k], k = 1, bt[k], bt[k + 1]) BY <1>3, <1>13
  <2> QED BY <1>11, <2>1, <2>2, <2>3, <2>4, <2>5, Zenon DEF Placed
<1>16. at[N + 1] \notin DOMAIN h BY <1>6, <1>7
<1> QED BY <1>3, <1>4, <1>7, <1>15, <1>16

(* What is inside of what, with one element more.                           *)
LEMMA AroundMore ==
    ASSUME NEW W \in Seq(Elements), NEW e \in Elements, NEW N \in Nat, N = Len(W), NEW o \in 1 .. N
    PROVE  /\ \A k \in 1 .. N : Around(Append(W, e), o, k) <=> Around(W, o, k)
           /\ Around(Append(W, e), o, N + 1) <=> Around(W, o, N) /\ e.level > W[o].level
<1>1. PICK V : V = Append(W, e) OBVIOUS
<1>2. V \in Seq(Elements) /\ Len(V) = N + 1 /\ V[N + 1] = e /\ \A k \in 1 .. N : V[k] = W[k]
  BY <1>1, AppendProperties
<1>3. ASSUME NEW k \in 1 .. N PROVE Around(V, o, k) <=> Around(W, o, k)
  <2>1. \A i \in o + 1 .. k : i \in 1 .. N BY <1>3
  <2> QED BY <1>2, <2>1 DEF Around
<1>4. Around(V, o, N + 1) <=> Around(V, o, N) /\ e.level > W[o].level
  <2>1. \A i : i \in o + 1 .. N + 1 <=> i \in o + 1 .. N \/ i = N + 1 OBVIOUS
  <2> QED BY <1>2, <2>1, Zenon DEF Around
<1>5. N \in 1 .. N OBVIOUS
<1> QED BY <1>1, <1>3, <1>4, <1>5

(* And where it ends.                                                       *)
LEMMA EndsMore ==
    ASSUME NEW W \in Seq(Elements), NEW e \in Elements, NEW N \in Nat, N = Len(W), NEW o \in 1 .. N
    PROVE  /\ \A j \in 1 .. N : EndsAt(Append(W, e), o, j) <=> EndsAt(W, o, j)
           /\ EndsAt(W, o, N + 1) <=> Around(W, o, N)
           /\ EndsAt(Append(W, e), o, N + 1) <=> Around(W, o, N) /\ e.level <= W[o].level
           /\ EndsAt(Append(W, e), o, N + 2) <=> Around(W, o, N) /\ e.level > W[o].level
<1>1. PICK V : V = Append(W, e) OBVIOUS
<1>2. V \in Seq(Elements) /\ Len(V) = N + 1 /\ V[N + 1] = e /\ \A k \in 1 .. N : V[k] = W[k]
  BY <1>1, AppendProperties
<1>3. /\ \A k \in 1 .. N : Around(V, o, k) <=> Around(W, o, k)
      /\ Around(V, o, N + 1) <=> Around(W, o, N) /\ e.level > W[o].level
  BY <1>1, AroundMore
<1>4. ASSUME NEW j \in 1 .. N PROVE EndsAt(V, o, j) <=> EndsAt(W, o, j)
  <2>1. j \in o + 1 .. N + 1 <=> j \in o + 1 .. N + 2 BY <1>4
  <2>2. CASE j > o
    <3>1. j - 1 \in 1 .. N /\ j <= N /\ j <= N + 1 BY <1>4, <2>2
    <3>2. Around(V, o, j - 1) <=> Around(W, o, j - 1) BY <1>3, <3>1
    <3>3. V[j] = W[j] /\ V[o] = W[o] BY <1>2, <1>4
    <3> QED BY <1>2, <2>1, <3>1, <3>2, <3>3 DEF EndsAt
  <2>3. CASE ~(j > o)
    <3>1. j \notin o + 1 .. Len(V) + 1 /\ j \notin o + 1 .. Len(W) + 1 BY <1>4, <2>3
    <3> QED BY <3>1 DEF EndsAt
  <2> QED BY <1>4, <2>2, <2>3
<1>5. EndsAt(W, o, N + 1) <=> Around(W, o, N)
  <2>1. N + 1 \in o + 1 .. N + 1 /\ N + 1 - 1 = N /\ ~(N + 1 <= N) OBVIOUS
  <2> QED BY <2>1 DEF EndsAt
<1>6. EndsAt(V, o, N + 1) <=> Around(W, o, N) /\ e.level <= W[o].level
  <2>1. N + 1 \in o + 1 .. N + 2 /\ N + 1 - 1 = N /\ N + 1 <= N + 1 /\ N \in 1 .. N OBVIOUS
  <2>2. V[N + 1] = e /\ V[o] = W[o] /\ Len(V) + 1 = N + 2 BY <1>2
  <2>3. EndsAt(V, o, N + 1) <=> Around(V, o, N) /\ e.level <= W[o].level
    BY <1>2, <2>1, <2>2 DEF EndsAt
  <2> QED BY <1>3, <2>1, <2>3
<1>7. EndsAt(V, o, N + 2) <=> Around(W, o, N) /\ e.level > W[o].level
  <2>1. N + 2 \in o + 1 .. N + 2 /\ N + 2 - 1 = N + 1 /\ ~(N + 2 <= N + 1) OBVIOUS
  <2>2. Len(V) + 1 = N + 2 BY <1>2
  <2>3. EndsAt(V, o, N + 2) <=> Around(V, o, N + 1) BY <1>2, <2>1, <2>2 DEF EndsAt
  <2> QED BY <1>3, <2>3
<1> QED BY <1>1, <1>4, <1>5, <1>6, <1>7

(* The sizes, when an element follows in the innermost list that is open.   *)
LEMMA SizedMore ==
    ASSUME NEW h, NEW W, NEW at, NEW e, NEW head, NEW p, NEW g, NEW V, NEW bt,
           Grown(h, W, at, e, head, p, g, V, bt), Sized(h, W, at, e.level),
           e.name \in ListNames => head.size = 0
    PROVE  Sized(g, V, bt, IF e.name \in ListNames THEN e.level + 1 ELSE e.level)
<1>0. W \in Seq(Elements) /\ e \in Elements /\ V = Append(W, e) BY Zenon DEF Grown
<1>1. PICK N \in Nat : N = Len(W) BY <1>0
<1>2. /\ V \in Seq(Elements) /\ Len(V) = N + 1 /\ V[N + 1] = e /\ \A k \in 1 .. N : V[k] = W[k]
      /\ \A k \in 1 .. N + 1 : bt[k] = at[k]
      /\ g[at[N + 1]] = head /\ \A k \in 1 .. N : g[at[k]] = h[at[k]]
  BY <1>1, PlacedMore
<1>8. PICK n \in Nat : n = e.level BY <1>0 DEF Elements
<1>7. PICK m \in Nat : m = IF e.name \in ListNames THEN n + 1 ELSE n BY <1>8
<1>3. m = n \/ m = n + 1 BY <1>7
<1>4. ASSUME NEW o \in 1 .. N, V[o].name \in ListNames
      PROVE  /\ V[o].level < m /\ Around(V, o, N + 1) => g[bt[o]].size = 0
             /\ \A j \in 1 .. N + 2 : EndsAt(V, o, j) /\ (j <= N + 1 \/ V[o].level >= m) =>
                    g[bt[o]].size = bt[j] - bt[o] - ChunkHead
  <2>1. V[o] = W[o] /\ g[bt[o]] = h[at[o]] /\ bt[o] = at[o] BY <1>2, <1>4
  <2>2. /\ W[o].level < n /\ Around(W, o, N) => h[at[o]].size = 0
        /\ \A j \in 1 .. N + 1 : EndsAt(W, o, j) /\ (j <= N \/ W[o].level >= n) =>
              h[at[o]].size = at[j] - at[o] - ChunkHead
    BY <1>1, <1>4, <1>8, <2>1 DEF Sized
  <2>3. W[o].level \in Nat BY <1>0, <1>1, <1>4, ElementIs
  <2>4. /\ Around(V, o, N + 1) <=> Around(W, o, N) /\ n > W[o].level
        /\ \A j \in 1 .. N : EndsAt(V, o, j) <=> EndsAt(W, o, j)
        /\ EndsAt(W, o, N + 1) <=> Around(W, o, N)
        /\ EndsAt(V, o, N + 1) <=> Around(W, o, N) /\ n <= W[o].level
        /\ EndsAt(V, o, N + 2) <=> Around(W, o, N) /\ n > W[o].level
    BY <1>0, <1>1, <1>4, <1>8, AroundMore, EndsMore
  <2>5. V[o].level < m /\ Around(V, o, N + 1) => g[bt[o]].size = 0 BY <2>1, <2>2, <2>3, <2>4
  <2>6. ASSUME NEW j \in 1 .. N + 2, EndsAt(V, o, j), j <= N + 1 \/ V[o].level >= m
        PROVE  g[bt[o]].size = bt[j] - bt[o] - ChunkHead
    <3>1. CASE j \in 1 .. N
      <4>1. j \in 1 .. N + 1 /\ j <= N BY <3>1
      <4>2. h[at[o]].size = at[j] - at[o] - ChunkHead BY <2>2, <2>4, <2>6, <3>1, <4>1
      <4> QED BY <1>2, <2>1, <4>1, <4>2
    <3>2. CASE j = N + 1
      <4>1. j \in 1 .. N + 1 /\ EndsAt(W, o, j) /\ W[o].level >= n BY <2>3, <2>4, <2>6, <3>2
      <4>2. h[at[o]].size = at[j] - at[o] - ChunkHead BY <2>2, <4>1
      <4> QED BY <1>2, <2>1, <4>1, <4>2
    <3>3. CASE j = N + 2
      <4>1. n > W[o].level /\ W[o].level >= m BY <2>1, <2>4, <2>6, <3>3
      <4> QED BY <1>3, <2>3, <4>1
    <3> QED BY <2>6, <3>1, <3>2, <3>3
  <2> QED BY <2>5, <2>6
<1>5. ASSUME V[N + 1].name \in ListNames
      PROVE  /\ g[bt[N + 1]].size = 0
             /\ \A j \in 1 .. N + 2 : EndsAt(V, N + 1, j) /\ (j <= N + 1 \/ V[N + 1].level >= m) =>
                    g[bt[N + 1]].size = bt[j] - bt[N + 1] - ChunkHead
  <2>1. e.name \in ListNames /\ m = n + 1 /\ V[N + 1].level = n BY <1>2, <1>5, <1>7, <1>8
  <2>2. ASSUME NEW j \in 1 .. N + 2, EndsAt(V, N + 1, j), j <= N + 1 \/ V[N + 1].level >= m
        PROVE  FALSE
    <3>1. j \in N + 1 + 1 .. Len(V) + 1 BY <2>2 DEF EndsAt
    <3>2. j = N + 2 BY <1>2, <3>1
    <3> QED BY <2>1, <2>2, <3>2
  <2>3. bt[N + 1] = at[N + 1] BY <1>2
  <2> QED BY <1>2, <2>1, <2>2, <2>3
<1>6. Len(V) + 1 = N + 2 /\ \A o : o \in 1 .. Len(V) <=> o \in 1 .. N \/ o = N + 1 BY <1>2
<1>9. Sized(g, V, bt, m) BY <1>2, <1>4, <1>5, <1>6, Zenon DEF Sized
<1> QED BY <1>7, <1>8, <1>9

(* And when that list is closed.                                            *)
Closed(h, g, W, at, o, n) ==
    /\ Sized(h, W, at, n + 1) /\ o \in 1 .. Len(W) /\ W[o].level = n /\ Around(W, o, Len(W))
    /\ g[at[o]].size = at[Len(W) + 1] - at[o] - ChunkHead
    /\ \A k \in 1 .. Len(W) : k # o => g[at[k]] = h[at[k]]
(* The innermost list that is open gets its size, and is open no more.      *)
LEMMA SizedClosed ==
    ASSUME NEW h, NEW g, NEW W \in Seq(Elements), NEW at, NEW o, NEW n \in Nat, Closed(h, g, W, at, o, n)
    PROVE  Sized(g, W, at, n)
<1>2. PICK N \in Nat : N = Len(W) OBVIOUS
<1>3. o \in 1 .. N /\ W[o].level = n /\ Around(W, o, N) /\ g[at[o]].size = at[N + 1] - at[o] - ChunkHead
  BY <1>2 DEF Closed
<1>1. ASSUME NEW k \in 1 .. N, W[k].name \in ListNames
      PROVE  /\ W[k].level < n /\ Around(W, k, N) => g[at[k]].size = 0
             /\ \A j \in 1 .. N + 1 : EndsAt(W, k, j) /\ (j <= N \/ W[k].level >= n) =>
                    g[at[k]].size = at[j] - at[k] - ChunkHead
  <2>1. /\ W[k].level < n + 1 /\ Around(W, k, N) => h[at[k]].size = 0
        /\ \A j \in 1 .. N + 1 : EndsAt(W, k, j) /\ (j <= N \/ W[k].level >= n + 1) =>
              h[at[k]].size = at[j] - at[k] - ChunkHead
    BY <1>1, <1>2 DEF Closed, Sized
  <2>2. W[k].level \in Nat BY <1>1, <1>2, ElementIs
  <2>3. CASE k = o
    <3>1. ASSUME NEW j \in 1 .. N + 1, EndsAt(W, o, j) PROVE j = N + 1
      <4>1. CASE j \in o + 1 .. N
        <5>1. W[j].level <= n /\ W[j].level > n BY <1>2, <1>3, <3>1, <4>1 DEF EndsAt, Around
        <5>2. W[j].level \in Nat BY <1>2, <1>3, <3>1, <4>1, ElementIs
        <5> QED BY <5>1, <5>2
      <4>2. j \in o + 1 .. N + 1 BY <1>2, <3>1 DEF EndsAt
      <4> QED BY <1>3, <4>1, <4>2
    <3> QED BY <1>2, <1>3, <2>2, <2>3, <3>1
  <2>4. CASE k # o
    <3>1. g[at[k]].size = h[at[k]].size BY <1>1, <1>2, <2>4 DEF Closed
    <3>2. W[k].level < n => W[k].level < n + 1 BY <2>2
    <3>3. ASSUME W[k].level = n, Around(W, k, N) PROVE FALSE
      <4>1. CASE k < o
        <5>1. o \in k + 1 .. N BY <1>3, <4>1
        <5>2. W[o].level > W[k].level BY <3>3, <5>1 DEF Around
        <5> QED BY <1>3, <3>3, <5>2
      <4>2. CASE k > o
        <5>1. k \in o + 1 .. N BY <1>3, <4>2
        <5>2. W[k].level > W[o].level BY <1>3, <5>1 DEF Around
        <5> QED BY <1>3, <3>3, <5>2
      <4> QED BY <1>1, <1>3, <2>4, <4>1, <4>2
    <3>4. ASSUME NEW j \in 1 .. N + 1, EndsAt(W, k, j), j <= N \/ W[k].level >= n
          PROVE  j <= N \/ W[k].level >= n + 1
      <4>1. CASE j = N + 1
        <5>1. Around(W, k, N)
          <6>1. Around(W, k, j - 1) /\ j - 1 = N BY <3>4, <4>1 DEF EndsAt
          <6> QED BY <6>1
        <5> QED BY <2>2, <3>3, <3>4, <5>1
      <4> QED BY <4>1
    <3> QED BY <2>1, <3>1, <3>2, <3>4
  <2> QED BY <2>3, <2>4
<1> QED BY <1>1, <1>2, Zenon DEF Sized

(* A size is rounded up to the next even one.                               *)
LEMMA EvenIs ==
    ASSUME NEW n \in Nat
    PROVE  Even(n) \in Nat /\ IsEven(Even(n)) /\ n <= Even(n) /\ Even(n) <= n + 1
           /\ (IsEven(n) => Even(n) = n)
BY DEF Even, IsEven

(* Elements begin at even places.                                           *)
LEMMA EvenSum ==
    ASSUME NEW m \in Nat, NEW n \in Nat, IsEven(m), IsEven(n)
    PROVE  IsEven(m + n) /\ IsEven(m + ChunkHead) /\ IsEven(m + ListHead)
BY DEF IsEven, ChunkHead, ListHead

(* The next element is inside of the innermost list that is open.           *)
LEMMA NextFollows ==
    ASSUME NEW a, NEW W, NEW at, Core(a, W, at), a.idx >= 1, NEW name
    PROVE  /\ W # <<>> /\ Len(W) \in Nat \ {0}
           /\ Follows(W[Len(W)], [level |-> a.idx, name |-> name])
<1>1. W \in Seq(Elements) BY DEF Core, Nested
<1>2. PICK N \in Nat : N = Len(W) BY <1>1
<1>3. PICK n \in Nat : n = a.idx /\ n >= 1 BY DEF Core, IsHandle
<1>4. n - 1 \in 0 .. a.idx - 1 BY <1>3
<1>5. PICK o \in 1 .. N : IsOpen(a, W, at, n - 1, o) BY <1>2, <1>4, Zenon DEF Core
<1>6. W[o].level = n - 1 /\ Around(W, o, N) /\ W[o].name \in ListNames BY <1>2, <1>5 DEF IsOpen
<1>7. (W[N].level = n - 1 /\ W[N].name \in ListNames) \/ W[N].level >= n
  <2>1. CASE o = N BY <1>6, <2>1
  <2>2. CASE o # N
    <3>1. N \in o + 1 .. N BY <2>2
    <3>2. W[N].level > n - 1 BY <1>6, <3>1 DEF Around
    <3>3. N \in 1 .. Len(W) BY <1>2, <3>1
    <3>4. W[N].level \in Nat BY <1>1, <3>3, ElementIs
    <3> QED BY <3>2, <3>4
  <2> QED BY <2>1, <2>2
<1>8. PICK e : e = [level |-> n, name |-> name] OBVIOUS
<1>9. e.level = n BY <1>8
<1>10. N \in 1 .. Len(W) /\ N # 0 BY <1>2
<1>11. W[N].level \in Nat BY <1>1, <1>10, ElementIs
<1>12. Follows(W[N], e) BY <1>3, <1>7, <1>9, <1>11 DEF Follows
<1>13. W # <<>> BY <1>2, <1>10
<1> QED BY <1>2, <1>3, <1>8, <1>10, <1>12, <1>13

(* The lists that are open stay the last.                                   *)
LEMMA OpenMore ==
    ASSUME NEW a, NEW c, NEW W \in Seq(Elements), NEW at, NEW bt, NEW N \in Nat, N = Len(W),
           NEW e \in Elements, NEW d \in Nat, d < e.level, NEW o \in 1 .. N,
           IsOpen(a, W, at, d, o),
           c.l[d] = a.l[d], c.file.hdr[bt[o]] = a.file.hdr[at[o]], bt[o] = at[o]
    PROVE  IsOpen(c, Append(W, e), bt, d, o)
<1>1. PICK V : V = Append(W, e) OBVIOUS
<1>2. V \in Seq(Elements) /\ Len(V) = N + 1 /\ V[N + 1] = e /\ \A k \in 1 .. N : V[k] = W[k]
  BY <1>1, AppendProperties
<1>3. Around(V, o, N + 1) <=> Around(W, o, N) /\ e.level > W[o].level BY <1>1, AroundMore
<1>4. W[o].level = d /\ Around(W, o, N) BY DEF IsOpen
<1>5. e.level \in Nat BY DEF Elements
<1>6. Around(V, o, N + 1) BY <1>3, <1>4, <1>5
<1>7. V[o] = W[o] BY <1>2
<1> QED BY <1>1, <1>2, <1>6, <1>7, Zenon DEF IsOpen

(* The bytes that were there still are.                                     *)
LEMMA PresentMore ==
    ASSUME NEW W, NEW at, NEW e, NEW head, NEW p, NEW V, NEW bt, NEW f, NEW g,
           Grown(f.hdr, W, at, e, head, p, g.hdr, V, bt),
           Present(f, W, at), f.end \in Nat, g.end \in Nat, g.end >= f.end,
           g.end >= at[Len(W) + 1] + ChunkHead,
           e.name \in ListNames => g.end >= at[Len(W) + 1] + ListHead,
           e.name \notin ListNames \cup {"JUNK"} => g.end >= at[Len(W) + 1] + ChunkHead + head.size
    PROVE  Present(g, V, bt)
<1>0. W \in Seq(Elements) /\ Placed(f.hdr, W, at) BY Zenon DEF Grown
<1>1. PICK N \in Nat : N = Len(W) BY <1>0
<1>2. /\ V \in Seq(Elements) /\ Len(V) = N + 1 /\ V[N + 1] = e /\ \A k \in 1 .. N : V[k] = W[k]
      /\ \A k \in 1 .. N + 1 : bt[k] = at[k]
      /\ g.hdr[at[N + 1]] = head /\ \A k \in 1 .. N : g.hdr[at[k]] = f.hdr[at[k]]
  <2>1. PICK fh, gh : fh = f.hdr /\ gh = g.hdr OBVIOUS
  <2>2. Grown(fh, W, at, e, head, p, gh, V, bt) BY <2>1
  <2>3. /\ V \in Seq(Elements) /\ Len(V) = N + 1 /\ V[N + 1] = e /\ \A k \in 1 .. N : V[k] = W[k]
        /\ \A k \in 1 .. N + 1 : bt[k] = at[k]
        /\ gh[at[N + 1]] = head /\ \A k \in 1 .. N : gh[at[k]] = fh[at[k]]
    BY <1>1, <2>2, PlacedMore
  <2> QED BY <2>1, <2>3
<1>3. ASSUME NEW k \in 1 .. N
      PROVE  /\ g.end >= bt[k] + ChunkHead
             /\ V[k].name \in ListNames => g.end >= bt[k] + ListHead
             /\ V[k].name \notin ListNames \cup {"JUNK"} => g.end >= bt[k] + ChunkHead + g.hdr[bt[k]].size
  <2>1. V[k] = W[k] /\ bt[k] = at[k] /\ g.hdr[bt[k]] = f.hdr[at[k]] BY <1>2, <1>3
  <2>2. /\ f.end >= at[k] + ChunkHead
        /\ W[k].name \in ListNames => f.end >= at[k] + ListHead
        /\ W[k].name \notin ListNames \cup {"JUNK"} => f.end >= at[k] + ChunkHead + f.hdr[at[k]].size
    BY <1>1, <1>3, Zenon DEF Present
  <2>3. at[k] \in Nat BY <1>0, <1>1, <1>3 DEF Placed
  <2>4. f.hdr[at[k]] \in Heads BY <1>0, <1>1, <1>3 DEF Placed
  <2>5. f.hdr[at[k]].size \in Nat BY <2>4 DEF Heads
  <2> QED BY <2>1, <2>2, <2>3, <2>5 DEF ChunkHead, ListHead
<1>4. \A k : k \in 1 .. Len(V) <=> k \in 1 .. N \/ k = N + 1 BY <1>2
<1>5. bt[N + 1] = at[N + 1] BY <1>2
<1> QED BY <1>1, <1>2, <1>3, <1>4, <1>5, Zenon DEF Present

(* Of a level, one element is open.                                         *)
LEMMA OneOpen ==
    ASSUME NEW W \in Seq(Elements), NEW N \in Nat, N = Len(W), NEW j \in 1 .. N, NEW k \in 1 .. N,
           Around(W, j, N), Around(W, k, N)
    PROVE  /\ W[j].level = W[k].level => j = k
           /\ W[j].level < W[k].level => j < k /\ Around(W, j, k)
<1>1. W[j].level \in Nat /\ W[k].level \in Nat BY ElementIs
<1>2. j < k => W[k].level > W[j].level
  <2>1. j < k => k \in j + 1 .. N OBVIOUS
  <2> QED BY <2>1 DEF Around
<1>3. k < j => W[j].level > W[k].level
  <2>1. k < j => j \in k + 1 .. N OBVIOUS
  <2> QED BY <2>1 DEF Around
<1>4. Around(W, j, k)
  <2>1. \A i \in j + 1 .. k : i \in j + 1 .. N OBVIOUS
  <2> QED BY <2>1 DEF Around
<1> QED BY <1>1, <1>2, <1>3, <1>4

(* Inside of the movi list that is open there are no lists, so it is the    *)
(* innermost one.                                                           *)
LEMMA MoviInnermost ==
    ASSUME NEW a, NEW W, NEW at, Core(a, W, at), NEW j \in 1 .. Len(W),
           W[j].name = "movi", Around(W, j, Len(W)), W[j].level < a.idx
    PROVE  /\ a.idx >= 1 /\ a.l[a.idx - 1].type = "movi" /\ a.l[a.idx - 1].offs = at[j]
           /\ W[j].level = a.idx - 1
<1>1. W \in Seq(Elements) BY DEF Core, Nested
<1>2. PICK N \in Nat : N = Len(W) BY <1>1
<1>3. PICK n \in Nat : n = a.idx BY DEF Core, IsHandle
<1>4. PICK d \in Nat : d = W[j].level BY <1>1, ElementIs
<1>5. d \in 0 .. a.idx - 1 BY <1>3, <1>4
<1>6. PICK o \in 1 .. N : IsOpen(a, W, at, d, o) BY <1>2, <1>5, Zenon DEF Core
<1>7. W[o].level = d /\ Around(W, o, N) /\ at[o] = a.l[d].offs /\ a.l[d].type = W[o].name
  BY <1>2, <1>6 DEF IsOpen
<1>8. o = j BY <1>1, <1>2, <1>4, <1>7, OneOpen
<1>9. ASSUME d # n - 1 PROVE FALSE
  <2>1. d + 1 \in 0 .. a.idx - 1 BY <1>3, <1>5, <1>9
  <2>2. PICK i \in 1 .. N : IsOpen(a, W, at, d + 1, i) BY <1>2, <2>1, Zenon DEF Core
  <2>3. W[i].level = d + 1 /\ Around(W, i, N) /\ W[i].name \in ListNames BY <1>2, <2>2 DEF IsOpen
  <2>4. W[j].level < W[i].level BY <1>4, <2>3
  <2>5. j < i /\ Around(W, j, i) BY <1>1, <1>2, <2>3, <2>4, OneOpen
  <2>6. Rules(W) BY DEF Core
  <2> QED BY <1>2, <2>3, <2>5, <2>6, Zenon DEF Rules
<1> QED BY <1>3, <1>4, <1>5, <1>7, <1>8, <1>9

(* The rules are kept.                                                      *)
LEMMA RulesMore ==
    ASSUME NEW W \in Seq(Elements), NEW N \in Nat, N = Len(W), Rules(W), NEW e \in Elements,
           e.level <= 1 => e.name \in ListNames,
           e.name \in ListNames => \A k \in 1 .. N : W[k].name # e.name,
           e.name \in ListNames =>
              \A k \in 1 .. N : W[k].name = "movi" /\ Around(W, k, N) => e.level <= W[k].level
    PROVE  Rules(Append(W, e))
<1>1. PICK V : V = Append(W, e) OBVIOUS
<1>2. V \in Seq(Elements) /\ Len(V) = N + 1 /\ V[N + 1] = e /\ \A k \in 1 .. N : V[k] = W[k]
  BY <1>1, AppendProperties
<1>3. ASSUME NEW j \in 1 .. N + 1, NEW k \in 1 .. N + 1, V[j].name = V[k].name, V[k].name \in ListNames
      PROVE  j = k
  <2>1. CASE j \in 1 .. N /\ k \in 1 .. N BY <1>2, <1>3, <2>1 DEF Rules
  <2>2. CASE j = N + 1 /\ k \in 1 .. N BY <1>2, <1>3, <2>2
  <2>3. CASE j \in 1 .. N /\ k = N + 1 BY <1>2, <1>3, <2>3
  <2>4. CASE j = N + 1 /\ k = N + 1 BY <2>4
  <2> QED BY <2>1, <2>2, <2>3, <2>4
<1>4. ASSUME NEW j \in 1 .. N + 1, NEW k \in 1 .. N + 1, j < k, V[j].name = "movi", Around(V, j, k)
      PROVE  V[k].name \notin ListNames
  <2>1. j \in 1 .. N /\ V[j] = W[j] BY <1>2, <1>4
  <2>2. CASE k \in 1 .. N
    <3>1. Around(W, j, k) BY <1>1, <1>4, <2>1, <2>2, AroundMore
    <3> QED BY <1>2, <1>4, <2>1, <2>2, <3>1, Zenon DEF Rules
  <2>3. CASE k = N + 1
    <3>1. Around(W, j, N) /\ e.level > W[j].level BY <1>1, <1>4, <2>1, <2>3, AroundMore
    <3>2. W[j].level \in Nat /\ e.level \in Nat BY <2>1, ElementIs DEF Elements
    <3> QED BY <1>2, <1>4, <2>1, <2>3, <3>1, <3>2
  <2> QED BY <2>2, <2>3
<1>5. ASSUME NEW k \in 1 .. N + 1, V[k].level <= 1 PROVE V[k].name \in ListNames
  <2>1. CASE k \in 1 .. N BY <1>2, <1>5, <2>1 DEF Rules
  <2>2. CASE k = N + 1 BY <1>2, <1>5, <2>2
  <2> QED BY <2>1, <2>2
<1> QED BY <1>1, <1>2, <1>3, <1>4, <1>5, Zenon DEF Rules

(* A chunk at the end of the elements.                                      *)
AddsChunk(a, c, p, name, n) ==
    /\ IsHandle(c) /\ c.file.hdr = Put(a.file.hdr, p, ChunkHeader(name, n))
    /\ a.idx >= 2 /\ c.idx = a.idx /\ \A d \in 0 .. a.idx - 1 : c.l[d] = a.l[d]
    /\ c.movi_offs = a.movi_offs
    /\ c.file.end >= a.file.end /\ c.file.end >= p + ChunkHead
    /\ name # "JUNK" => c.file.end >= p + ChunkHead + n
(* The file with a chunk more: the lists that are open stay open around it. *)
LEMMA CoreChunk ==
    ASSUME NEW a, NEW W, NEW at, Core(a, W, at), NEW N \in Nat, N = Len(W),
           NEW name \in ChunkNames, NEW n \in Nat, NEW c, AddsChunk(a, c, at[N + 1], name, n)
    PROVE  Core(c, Append(W, [level |-> a.idx, name |-> name]), Longer(at, N, at[N + 1] + ChunkHead + Even(n)))
<1>1. W \in Seq(Elements) /\ Nested(W) /\ Rules(W) /\ Placed(a.file.hdr, W, at) BY DEF Core, Nested
<1>2. PICK i \in Nat : i = a.idx /\ i >= 2 BY DEF Core, IsHandle, AddsChunk
<1>3. PICK e : e = [level |-> i, name |-> name] OBVIOUS
<1>4. e.level = i /\ e.name = name /\ e.name \notin ListNames /\ name \notin {Riff, List}
  BY <1>3 DEF ChunkNames, ListNames, Riff, List
<1>5. e \in Elements BY <1>2, <1>3, <1>4 DEF Elements
<1>6. at \in [1 .. N + 1 -> Nat] /\ at[N + 1] \in Nat /\ IsEven(at[N + 1])
  <2>1. N + 1 \in 1 .. N + 1 OBVIOUS
  <2> QED BY <1>1, <2>1 DEF Placed
<1>7. PICK p \in Nat : p = at[N + 1] + ChunkHead + Even(n) /\ IsEven(p) /\ p >= at[N + 1] + ChunkHead
  <2>1. Even(n) \in Nat /\ IsEven(Even(n)) BY EvenIs
  <2>2. ChunkHead \in Nat BY DEF ChunkHead
  <2>3. IsEven(at[N + 1] + ChunkHead) BY <1>6, EvenSum
  <2>4. IsEven(at[N + 1] + ChunkHead + Even(n)) BY <1>6, <2>1, <2>2, <2>3, EvenSum
  <2>5. at[N + 1] + ChunkHead + Even(n) \in Nat /\ at[N + 1] + ChunkHead + Even(n) >= at[N + 1] + ChunkHead
    BY <1>6, <2>1, <2>2
  <2> QED BY <2>4, <2>5
<1>8. PICK head : head = ChunkHeader(name, n) OBVIOUS
<1>9. head \in Heads /\ head.name = name /\ head.type = "" /\ head.size = n
  BY <1>8 DEF Heads, ChunkHeader
<1>10. HeadFor(head, e, N = 0, at[N + 1], p) BY <1>4, <1>7, <1>9, Zenon DEF HeadFor
<1>11. PICK V, bt, g : V = Append(W, e) /\ bt = Longer(at, N, p) /\ g = Put(a.file.hdr, at[N + 1], head) OBVIOUS
<1>18. Grown(a.file.hdr, W, at, e, head, p, g, V, bt)
  BY <1>1, <1>5, <1>7, <1>9, <1>10, <1>11, Zenon DEF Grown
<1>12. c.file.hdr = g BY <1>8, <1>11, Zenon DEF AddsChunk
<1>13. /\ V \in Seq(Elements) /\ Len(V) = N + 1 /\ V[N + 1] = e /\ \A k \in 1 .. N : V[k] = W[k]
       /\ \A k \in 1 .. N + 1 : bt[k] = at[k]
       /\ \A k \in 1 .. N : g[at[k]] = a.file.hdr[at[k]]
       /\ Placed(g, V, bt)
  BY <1>18, PlacedMore
<1>14. Nested(V)
  <2>1. a.idx >= 1 BY <1>2
  <2>2. W # <<>> /\ Follows(W[N], e) BY <1>2, <1>3, <2>1, NextFollows
  <2> QED BY <1>1, <1>5, <1>11, <2>2, NestedMore
<1>15. Rules(V) BY <1>1, <1>2, <1>4, <1>5, <1>11, RulesMore
<1>16. Sized(g, V, bt, i)
  <2>1. Sized(a.file.hdr, W, at, e.level) BY <1>2, <1>4 DEF Core
  <2>2. Sized(g, V, bt, IF e.name \in ListNames THEN e.level + 1 ELSE e.level)
    BY <1>4, <1>18, <2>1, SizedMore
  <2> QED BY <1>4, <2>2
<1>17. Present(c.file, V, bt)
  <2>1. a.file.end \in Nat /\ c.file.end \in Nat /\ c.file.end >= a.file.end /\ Present(a.file, W, at)
    BY DEF Core, IsHandle, AddsChunk
  <2>2. c.file.end >= at[N + 1] + ChunkHead BY DEF AddsChunk
  <2>3. e.name \notin ListNames \cup {"JUNK"} => c.file.end >= at[N + 1] + ChunkHead + head.size
    BY <1>4, <1>9 DEF AddsChunk
  <2> QED BY <1>4, <1>12, <1>18, <2>1, <2>2, <2>3, PresentMore
<1>19. ASSUME NEW d \in 0 .. c.idx - 1 PROVE \E o \in 1 .. Len(V) : IsOpen(c, V, bt, d, o)
  <2>1. d \in 0 .. a.idx - 1 /\ d \in Nat /\ d < e.level BY <1>2, <1>4, <1>19 DEF AddsChunk
  <2>2. PICK o \in 1 .. N : IsOpen(a, W, at, d, o) BY <2>1, Zenon DEF Core
  <2>3. bt[o] = at[o] /\ c.file.hdr[bt[o]] = a.file.hdr[at[o]] BY <1>12, <1>13
  <2>4. c.l[d] = a.l[d] BY <2>1 DEF AddsChunk
  <2>5. IsOpen(c, V, bt, d, o) BY <1>1, <1>5, <1>11, <2>1, <2>2, <2>3, <2>4, OpenMore
  <2>6. o \in 1 .. Len(V) BY <1>13
  <2> QED BY <2>5, <2>6
<1>20. ASSUME NEW k \in 1 .. Len(V), V[k].name = "movi" PROVE c.movi_offs = bt[k] + ChunkHead
  <2>1. k # N + 1 BY <1>4, <1>13, <1>20 DEF ListNames
  <2>2. k \in 1 .. N /\ V[k] = W[k] /\ bt[k] = at[k] BY <1>13, <1>20, <2>1
  <2>3. a.movi_offs = at[k] + ChunkHead BY <1>20, <2>2, Zenon DEF Core
  <2> QED BY <2>2, <2>3 DEF AddsChunk
<1>22. c.idx = i /\ IsHandle(c) BY <1>2 DEF AddsChunk
<1>21. Core(c, V, bt) BY <1>12, <1>13, <1>14, <1>15, <1>16, <1>17, <1>19, <1>20, <1>22, Zenon DEF Core
<1> QED BY <1>2, <1>3, <1>7, <1>11, <1>21

(* A list at the end of the elements.                                       *)
AddsList(a, c, W, p, fcc, type) ==
    /\ type \in ListNames /\ \A k \in 1 .. Len(W) : W[k].name # type
    /\ IF W = <<>> THEN fcc = Riff /\ type = "AVI " /\ a.idx = 0
       ELSE fcc = List /\ a.idx >= 1 /\ a.l[a.idx - 1].type # "movi"
    /\ IsHandle(c) /\ c.file.hdr = Put(a.file.hdr, p, [name |-> fcc, type |-> type, size |-> 0])
    /\ c.idx = a.idx + 1 /\ \A d \in 0 .. a.idx - 1 : c.l[d] = a.l[d]
    /\ c.l[a.idx].name = fcc /\ c.l[a.idx].type = type /\ c.l[a.idx].offs = p
    /\ c.movi_offs = IF fcc = List /\ type = "movi" THEN p + ChunkHead ELSE a.movi_offs
    /\ c.file.end >= a.file.end /\ c.file.end >= p + ListHead
(* The file with a list more, which is the innermost one then.              *)
LEMMA CoreList ==
    ASSUME NEW a, NEW W, NEW at, Core(a, W, at), NEW N \in Nat, N = Len(W),
           NEW fcc, NEW type, NEW c, AddsList(a, c, W, at[N + 1], fcc, type)
    PROVE  Core(c, Append(W, [level |-> a.idx, name |-> type]), Longer(at, N, at[N + 1] + ListHead))
<1>1. W \in Seq(Elements) /\ Nested(W) /\ Rules(W) /\ Placed(a.file.hdr, W, at) BY DEF Core, Nested
<1>2. PICK i \in Nat : i = a.idx BY DEF Core, IsHandle
<1>3. PICK e : e = [level |-> i, name |-> type] OBVIOUS
<1>4. e.level = i /\ e.name = type /\ e.name \in ListNames /\ \A k \in 1 .. N : W[k].name # e.name
  BY <1>3 DEF AddsList
<1>5. e \in Elements BY <1>2, <1>3, <1>4 DEF Elements
<1>6. at \in [1 .. N + 1 -> Nat] /\ at[N + 1] \in Nat /\ IsEven(at[N + 1])
  <2>1. N + 1 \in 1 .. N + 1 OBVIOUS
  <2> QED BY <1>1, <2>1 DEF Placed
<1>7. PICK p \in Nat : p = at[N + 1] + ListHead /\ IsEven(p) /\ p >= at[N + 1] + ChunkHead
  <2>1. IsEven(at[N + 1] + ListHead)
    <3>1. 0 \in Nat /\ IsEven(0) BY DEF IsEven
    <3> QED BY <1>6, <3>1, EvenSum
  <2>2. at[N + 1] + ListHead \in Nat /\ at[N + 1] + ListHead >= at[N + 1] + ChunkHead
    BY <1>6 DEF ListHead, ChunkHead
  <2> QED BY <2>1, <2>2
<1>8. W = <<>> <=> N = 0 BY <1>1, EmptySeq
<1>9. fcc = IF N = 0 THEN Riff ELSE List BY <1>8 DEF AddsList
<1>10. PICK head : head = [name |-> fcc, type |-> type, size |-> 0] OBVIOUS
<1>11. head \in Heads /\ head.name = fcc /\ head.type = type /\ head.size = 0
  BY <1>4, <1>9, <1>10 DEF Heads
<1>12. HeadFor(head, e, N = 0, at[N + 1], p) BY <1>4, <1>7, <1>9, <1>11, Zenon DEF HeadFor
<1>13. PICK V, bt, g : V = Append(W, e) /\ bt = Longer(at, N, p) /\ g = Put(a.file.hdr, at[N + 1], head) OBVIOUS
<1>14. Grown(a.file.hdr, W, at, e, head, p, g, V, bt)
  BY <1>1, <1>5, <1>7, <1>11, <1>12, <1>13, Zenon DEF Grown
<1>15. c.file.hdr = g BY <1>10, <1>13, Zenon DEF AddsList
<1>16. /\ V \in Seq(Elements) /\ Len(V) = N + 1 /\ V[N + 1] = e /\ \A k \in 1 .. N : V[k] = W[k]
       /\ \A k \in 1 .. N + 1 : bt[k] = at[k]
       /\ g[at[N + 1]] = head /\ \A k \in 1 .. N : g[at[k]] = a.file.hdr[at[k]]
       /\ Placed(g, V, bt)
  BY <1>14, PlacedMore
<1>17. Nested(V)
  <2>1. W = <<>> => First(e) BY <1>2, <1>4 DEF AddsList, First
  <2>2. W # <<>> => Follows(W[N], e)
    <3>1. W # <<>> => a.idx >= 1 BY DEF AddsList
    <3> QED BY <1>2, <1>3, <3>1, NextFollows
  <2> QED BY <1>1, <1>5, <1>13, <2>1, <2>2, NestedMore
<1>18. Rules(V)
  <2>1. ASSUME NEW k \in 1 .. N, W[k].name = "movi", Around(W, k, N) PROVE e.level <= W[k].level
    <3>1. W[k].level \in Nat BY <1>1, ElementIs
    <3>2. W # <<>> BY <1>8
    <3>3. ~(W[k].level < a.idx)
      BY <2>1, <3>2, MoviInnermost DEF AddsList
    <3> QED BY <1>2, <1>4, <3>1, <3>3
  <2>2. e.level <= 1 => e.name \in ListNames BY <1>4
  <2> QED BY <1>1, <1>4, <1>5, <1>13, <2>1, <2>2, RulesMore
<1>19. Sized(g, V, bt, i + 1)
  <2>1. Sized(a.file.hdr, W, at, e.level) BY <1>2, <1>4 DEF Core
  <2>2. Sized(g, V, bt, IF e.name \in ListNames THEN e.level + 1 ELSE e.level)
    BY <1>11, <1>14, <2>1, SizedMore
  <2> QED BY <1>4, <2>2
<1>20. Present(c.file, V, bt)
  <2>1. a.file.end \in Nat /\ c.file.end \in Nat /\ c.file.end >= a.file.end /\ Present(a.file, W, at)
    BY DEF Core, IsHandle, AddsList
  <2>2. c.file.end >= at[N + 1] + ListHead BY DEF AddsList
  <2>3. c.file.end >= at[N + 1] + ChunkHead BY <1>6, <2>1, <2>2 DEF ListHead, ChunkHead
  <2> QED BY <1>4, <1>14, <1>15, <2>1, <2>2, <2>3, PresentMore
<1>21. ASSUME NEW d \in 0 .. c.idx - 1 PROVE \E o \in 1 .. Len(V) : IsOpen(c, V, bt, d, o)
  <2>1. CASE d < i
    <3>1. d \in 0 .. a.idx - 1 /\ d \in Nat /\ d < e.level BY <1>2, <1>4, <1>21, <2>1
    <3>2. PICK o \in 1 .. N : IsOpen(a, W, at, d, o) BY <3>1, Zenon DEF Core
    <3>3. bt[o] = at[o] /\ c.file.hdr[bt[o]] = a.file.hdr[at[o]] BY <1>15, <1>16
    <3>4. c.l[d] = a.l[d] BY <3>1 DEF AddsList
    <3>5. IsOpen(c, V, bt, d, o) BY <1>1, <1>5, <1>13, <3>1, <3>2, <3>3, <3>4, OpenMore
    <3>6. o \in 1 .. Len(V) BY <1>16
    <3> QED BY <3>5, <3>6
  <2>2. CASE ~(d < i)
    <3>0. c.idx = i + 1 BY <1>2 DEF AddsList
    <3>1. d = i /\ d = a.idx BY <1>2, <1>21, <2>2, <3>0
    <3>2. Around(V, N + 1, N + 1) BY DEF Around
    <3>3. c.l[d].offs = at[N + 1] /\ c.l[d].name = fcc /\ c.l[d].type = type BY <3>1 DEF AddsList
    <3>4. bt[N + 1] = at[N + 1] /\ c.file.hdr[bt[N + 1]] = head BY <1>15, <1>16
    <3>5. IsOpen(c, V, bt, d, N + 1)
      BY <1>4, <1>11, <1>16, <3>1, <3>2, <3>3, <3>4, Zenon DEF IsOpen
    <3>6. N + 1 \in 1 .. Len(V) BY <1>16
    <3> QED BY <3>5, <3>6
  <2> QED BY <2>1, <2>2
<1>22. ASSUME NEW k \in 1 .. Len(V), V[k].name = "movi" PROVE c.movi_offs = bt[k] + ChunkHead
  <2>1. CASE k = N + 1
    <3>1. type = "movi" BY <1>4, <1>16, <1>22, <2>1
    <3>2. fcc = List BY <3>1 DEF AddsList
    <3>3. c.movi_offs = at[N + 1] + ChunkHead BY <3>1, <3>2 DEF AddsList
    <3> QED BY <1>16, <2>1, <3>3
  <2>2. CASE k # N + 1
    <3>1. k \in 1 .. N /\ V[k] = W[k] /\ bt[k] = at[k] BY <1>16, <1>22, <2>2
    <3>2. a.movi_offs = at[k] + ChunkHead BY <1>22, <3>1, Zenon DEF Core
    <3>3. type # "movi" BY <1>4, <1>22, <3>1
    <3>4. c.movi_offs = a.movi_offs BY <3>3 DEF AddsList
    <3> QED BY <3>1, <3>2, <3>4
  <2> QED BY <2>1, <2>2
<1>23. c.idx = i + 1 /\ IsHandle(c) BY <1>2 DEF AddsList
<1>24. Core(c, V, bt) BY <1>15, <1>16, <1>17, <1>18, <1>19, <1>20, <1>21, <1>22, <1>23, Zenon DEF Core
<1> QED BY <1>2, <1>3, <1>7, <1>13, <1>24

(* The size of a list is written.                                           *)
Resizes(h, g, W, at, o, n) ==
    /\ Placed(h, W, at) /\ o \in 1 .. Len(W) /\ W[o].name \in ListNames /\ n \in Nat
    /\ DOMAIN g = DOMAIN h /\ g = [p \in DOMAIN g |-> g[p]]
    /\ \A p \in DOMAIN h : p # at[o] => g[p] = h[p]
    /\ g[at[o]] = [name |-> h[at[o]].name, type |-> h[at[o]].type, size |-> n]
(* A header that gets its size keeps its name and type; others are kept.    *)
LEMMA Resized ==
    ASSUME NEW h, NEW g, NEW W \in Seq(Elements), NEW at, NEW o, NEW n, Resizes(h, g, W, at, o, n)
    PROVE  /\ Placed(g, W, at) /\ g[at[o]].size = n
           /\ \A k \in 1 .. Len(W) : at[k] \in DOMAIN h
           /\ \A k \in 1 .. Len(W) : k # o => g[at[k]] = h[at[k]]
           /\ \A k \in 1 .. Len(W) : g[at[k]].name = h[at[k]].name
           /\ \A k \in 1 .. Len(W) : g[at[k]].type = h[at[k]].type
<1>12. PICK N \in Nat : N = Len(W) OBVIOUS
<1>13. Placed(h, W, at) /\ o \in 1 .. N /\ W[o].name \in ListNames /\ n \in Nat BY <1>12, Zenon DEF Resizes
<1>1. at \in [1 .. N + 1 -> Nat] /\ DOMAIN h = {at[k] : k \in 1 .. N} BY <1>12, <1>13 DEF Placed
<1>2. \A j, k \in 1 .. N + 1 : j < k => at[j] + ChunkHead <= at[k] BY <1>12, <1>13 DEF Placed
<1>3. ASSUME NEW k \in 1 .. N, k # o PROVE at[k] # at[o]
  <2>1. at[k] \in Nat /\ at[o] \in Nat /\ (k < o \/ o < k) BY <1>1, <1>3, <1>13
  <2>2. k \in 1 .. N + 1 /\ o \in 1 .. N + 1 BY <1>13
  <2>3. at[k] + ChunkHead <= at[o] \/ at[o] + ChunkHead <= at[k] BY <1>2, <2>1, <2>2
  <2> QED BY <2>1, <2>3 DEF ChunkHead
<1>4. \A k \in 1 .. N : at[k] \in DOMAIN h BY <1>1
<1>5. \A k \in 1 .. N : k # o => g[at[k]] = h[at[k]] BY <1>3, <1>4 DEF Resizes
<1>6. g[at[o]].name = h[at[o]].name /\ g[at[o]].type = h[at[o]].type /\ g[at[o]].size = n BY DEF Resizes
<1>7. \A k \in 1 .. N : g[at[k]].name = h[at[k]].name /\ g[at[k]].type = h[at[k]].type BY <1>5, <1>6
<1>8. g \in [DOMAIN g -> Heads]
  <2>1. h \in [DOMAIN h -> Heads] BY <1>13 DEF Placed
  <2>2. h[at[o]] \in Heads BY <1>4, <1>13, <2>1
  <2>6. PICK e : e = [name |-> h[at[o]].name, type |-> h[at[o]].type, size |-> n] OBVIOUS
  <2>7. e \in Heads BY <1>13, <2>2, <2>6 DEF Heads
  <2>3. g[at[o]] \in Heads BY <2>6, <2>7, Zenon DEF Resizes
  <2>4. ASSUME NEW p \in DOMAIN g PROVE g[p] \in Heads
    <3>1. p \in DOMAIN h BY DEF Resizes
    <3>2. p # at[o] => g[p] = h[p] BY <3>1 DEF Resizes
    <3> QED BY <2>1, <2>3, <3>1, <3>2
  <2>5. g = [p \in DOMAIN g |-> g[p]] BY DEF Resizes
  <2> QED BY <2>4, <2>5, Zenon
<1>9. ASSUME NEW k \in 1 .. N PROVE HeadFor(g[at[k]], W[k], k = 1, at[k], at[k + 1])
  <2>1. HeadFor(h[at[k]], W[k], k = 1, at[k], at[k + 1]) BY <1>9, <1>12, <1>13, Zenon DEF Placed
  <2>2. CASE k = o BY <1>7, <1>13, <2>1, <2>2, Zenon DEF HeadFor
  <2>3. CASE k # o BY <1>5, <2>1, <2>3, Zenon
  <2> QED BY <2>2, <2>3
<1>10. DOMAIN g = DOMAIN h BY DEF Resizes
<1>11. Placed(g, W, at) BY <1>8, <1>9, <1>10, <1>12, <1>13, Zenon DEF Placed
<1> QED BY <1>4, <1>5, <1>6, <1>7, <1>11, <1>12

(* The innermost list is closed.                                            *)
Closes(a, c, p) ==
    /\ a.idx >= 1 /\ IsHandle(c)
    /\ LET l == a.l[a.idx - 1] IN
       c.file.hdr = Put(a.file.hdr, l.offs, [name |-> l.name, type |-> l.type, size |-> p - l.offs - ChunkHead])
    /\ c.idx = a.idx - 1 /\ \A d \in 0 .. a.idx - 2 : c.l[d] = a.l[d]
    /\ c.movi_offs = a.movi_offs /\ c.file.end >= a.file.end
(* The innermost list is closed.                                            *)
LEMMA CoreClose ==
    ASSUME NEW a, NEW W, NEW at, Core(a, W, at), NEW N \in Nat, N = Len(W),
           NEW c, Closes(a, c, at[N + 1])
    PROVE  /\ Core(c, W, at)
           /\ \A p \in DOMAIN a.file.hdr :
                 /\ p \in DOMAIN c.file.hdr
                 /\ c.file.hdr[p].name = a.file.hdr[p].name /\ c.file.hdr[p].type = a.file.hdr[p].type
<1>1. W \in Seq(Elements) /\ Nested(W) /\ Rules(W) /\ Placed(a.file.hdr, W, at) BY DEF Core, Nested
<1>2. PICK n \in Nat : n + 1 = a.idx /\ c.idx = n
  <2>1. a.idx \in Nat /\ a.idx >= 1 /\ c.idx = a.idx - 1 BY DEF Core, IsHandle, Closes
  <2> QED BY <2>1
<1>3. n \in 0 .. a.idx - 1 /\ a.idx - 1 = n BY <1>2
<1>4. PICK o \in 1 .. N : IsOpen(a, W, at, n, o) BY <1>3, Zenon DEF Core
<1>5. /\ at[o] = a.l[n].offs /\ W[o].level = n /\ Around(W, o, N) /\ W[o].name \in ListNames
      /\ a.l[n].type = W[o].name /\ a.l[n].name = a.file.hdr[at[o]].name
  BY <1>4, Zenon DEF IsOpen
<1>6. a.file.hdr[at[o]].type = W[o].name
  <2>1. HeadFor(a.file.hdr[at[o]], W[o], o = 1, at[o], at[o + 1]) BY <1>1, <1>4, Zenon DEF Placed
  <2> QED BY <1>5, <2>1, Zenon DEF HeadFor
<1>7. PICK s \in Nat : s = at[N + 1] - at[o] - ChunkHead
  <2>1. o \in 1 .. N + 1 /\ N + 1 \in 1 .. N + 1 /\ o < N + 1 OBVIOUS
  <2>2. at[o] + ChunkHead <= at[N + 1] /\ at[o] \in Nat /\ at[N + 1] \in Nat BY <1>1, <2>1 DEF Placed
  <2>3. at[N + 1] - at[o] - ChunkHead \in Nat BY <2>2 DEF ChunkHead
  <2> QED BY <2>3
<1>8. PICK head : head = [name |-> a.file.hdr[at[o]].name, type |-> a.file.hdr[at[o]].type, size |-> s] OBVIOUS
<1>9. c.file.hdr = Put(a.file.hdr, at[o], head) BY <1>3, <1>5, <1>6, <1>7, <1>8, Zenon DEF Closes
<1>10. at[o] \in DOMAIN a.file.hdr BY <1>1, Zenon DEF Placed
<1>20. PICK h, g : h = a.file.hdr /\ g = c.file.hdr OBVIOUS
<1>11. Resizes(h, g, W, at, o, s)
  <2>1. g = Put(h, at[o], head) /\ at[o] \in DOMAIN h /\ Placed(h, W, at) BY <1>1, <1>9, <1>10, <1>20, Zenon
  <2>2. /\ DOMAIN g = DOMAIN h /\ g = [p \in DOMAIN g |-> g[p]]
        /\ \A p \in DOMAIN h : p # at[o] => g[p] = h[p]
        /\ g[at[o]] = head
    BY <2>1 DEF Put
  <2> QED BY <1>5, <1>7, <1>8, <1>20, <2>1, <2>2, Zenon DEF Resizes
<1>22. /\ Placed(g, W, at) /\ g[at[o]].size = s
       /\ \A k \in 1 .. Len(W) : at[k] \in DOMAIN h
       /\ \A k \in 1 .. Len(W) : k # o => g[at[k]] = h[at[k]]
       /\ \A k \in 1 .. Len(W) : g[at[k]].name = h[at[k]].name
       /\ \A k \in 1 .. Len(W) : g[at[k]].type = h[at[k]].type
  <2>1. W \in Seq(Elements) BY <1>1
  <2>2. Resizes(h, g, W, at, o, s) BY <1>11
  <2> QED BY <2>1, <2>2, Resized
<1>12. /\ Placed(g, W, at) /\ g[at[o]].size = s
       /\ \A k \in 1 .. N : at[k] \in DOMAIN h
       /\ \A k \in 1 .. N : k # o => g[at[k]] = h[at[k]]
       /\ \A k \in 1 .. N : g[at[k]].name = h[at[k]].name
       /\ \A k \in 1 .. N : g[at[k]].type = h[at[k]].type
  BY <1>22, Zenon
<1>13. Sized(g, W, at, n)
  <2>1. Sized(h, W, at, n + 1) BY <1>2, <1>20 DEF Core
  <2>2. Closed(h, g, W, at, o, n) BY <1>5, <1>7, <1>12, <2>1, Zenon DEF Closed
  <2> QED BY <1>1, <2>2, SizedClosed
<1>14. Present(c.file, W, at)
  <2>1. a.file.end \in Nat /\ c.file.end \in Nat /\ c.file.end >= a.file.end BY DEF Core, IsHandle, Closes
  <2>2. ASSUME NEW k \in 1 .. N
        PROVE  /\ c.file.end >= at[k] + ChunkHead
               /\ W[k].name \in ListNames => c.file.end >= at[k] + ListHead
               /\ W[k].name \notin ListNames \cup {"JUNK"} =>
                     c.file.end >= at[k] + ChunkHead + g[at[k]].size
    <3>1. /\ a.file.end >= at[k] + ChunkHead
          /\ W[k].name \in ListNames => a.file.end >= at[k] + ListHead
          /\ W[k].name \notin ListNames \cup {"JUNK"} =>
                a.file.end >= at[k] + ChunkHead + h[at[k]].size
      BY <1>20, <2>2, Zenon DEF Core, Present
    <3>2. at[k] \in Nat
      <4>1. at \in [1 .. Len(W) + 1 -> Nat] BY <1>1, Zenon DEF Placed
      <4> QED BY <1>1, <2>2, <4>1
    <3>3. W[k].name \notin ListNames => g[at[k]] = h[at[k]] BY <1>5, <1>12, Zenon
    <3>4. h[at[k]] \in Heads
      <4>1. Placed(h, W, at) BY <1>1, <1>20
      <4>2. at[k] \in DOMAIN h /\ h \in [DOMAIN h -> Heads] BY <1>1, <2>2, <4>1, Zenon DEF Placed
      <4> QED BY <4>2
    <3>5. h[at[k]].size \in Nat BY <3>4 DEF Heads
    <3>7. c.file.end >= at[k] + ChunkHead BY <2>1, <3>1, <3>2 DEF ChunkHead
    <3>8. W[k].name \in ListNames => c.file.end >= at[k] + ListHead BY <2>1, <3>1, <3>2 DEF ListHead
    <3>9. ASSUME W[k].name \notin ListNames \cup {"JUNK"}
          PROVE  c.file.end >= at[k] + ChunkHead + g[at[k]].size
      <4>1. a.file.end >= at[k] + ChunkHead + h[at[k]].size BY <3>1, <3>9
      <4>2. g[at[k]].size = h[at[k]].size BY <3>3, <3>9
      <4> QED BY <2>1, <3>2, <3>5, <4>1, <4>2 DEF ChunkHead
    <3> QED BY <3>7, <3>8, <3>9
  <2> QED BY <1>20, <2>2, Zenon DEF Present
<1>15. ASSUME NEW d \in 0 .. c.idx - 1 PROVE \E i \in 1 .. N : IsOpen(c, W, at, d, i)
  <2>1. d \in 0 .. a.idx - 1 /\ d \in 0 .. a.idx - 2 BY <1>2, <1>15
  <2>2. PICK i \in 1 .. N : IsOpen(a, W, at, d, i) BY <2>1, Zenon DEF Core
  <2>3. c.l[d] = a.l[d] BY <2>1 DEF Closes
  <2>4. c.file.hdr[at[i]].name = a.file.hdr[at[i]].name BY <1>12, <1>20
  <2>5. IsOpen(c, W, at, d, i) BY <2>2, <2>3, <2>4, Zenon DEF IsOpen
  <2> QED BY <2>5
<1>16. \A k \in 1 .. N : W[k].name = "movi" => c.movi_offs = at[k] + ChunkHead BY Zenon DEF Core, Closes
<1>17. IsHandle(c) BY DEF Closes
<1>18. Core(c, W, at) BY <1>1, <1>2, <1>12, <1>13, <1>14, <1>15, <1>16, <1>17, <1>20, Zenon DEF Core
<1>19. DOMAIN h = {at[k] : k \in 1 .. N} /\ DOMAIN g = DOMAIN h
  BY <1>1, <1>11, <1>20 DEF Placed, Resizes
<1>21. \A p \in DOMAIN h : p \in DOMAIN g /\ g[p].name = h[p].name /\ g[p].type = h[p].type
  BY <1>12, <1>19
<1> QED BY <1>18, <1>20, <1>21

(* Two handles have the same lists.                                         *)
Same(a, c) == c.idx = a.idx /\ c.l = a.l /\ c.movi_offs = a.movi_offs
Record(a) ==
    a = [file |-> a.file, pos |-> a.pos, size |-> a.size, idx |-> a.idx, l |-> a.l,
         partial |-> a.partial, align |-> a.align, movi_offs |-> a.movi_offs]

Named(h) == h.name # ""

(* A position.                                                              *)
LEMMA SeekIs ==
    ASSUME NEW a, IsHandle(a), NEW p, p \in Int, NEW c, c = lseek(a, p)
    PROVE  /\ IsHandle(c) /\ Same(a, c) /\ c.file = a.file /\ c.size = a.size /\ c.pos = p
           /\ c.partial = a.partial /\ c.align = a.align
BY DEF IsHandle, lseek, Same

(* A header, and data.                                                      *)
LEMMA WriteIs ==
    ASSUME NEW a, IsHandle(a), a.pos \in Nat, NEW h, Named(h), NEW n, n \in Nat, NEW c, c = write(a, h, n)
    PROVE  /\ IsHandle(c) /\ Same(a, c) /\ c.size = a.size /\ c.partial = a.partial /\ c.align = a.align
           /\ c.pos = a.pos + n /\ c.file.hdr = Put(a.file.hdr, a.pos, h)
           /\ c.file.end \in Nat /\ c.file.end >= a.file.end /\ c.file.end >= a.pos + n
           /\ c.file.end = a.file.end \/ c.file.end = a.pos + n
<1>1. PICK p \in Nat : p = a.pos + n OBVIOUS
<1>10. a.file.end \in Nat BY DEF IsHandle
<1>11. PICK e \in Nat : e = IF a.pos + n > a.file.end THEN a.pos + n ELSE a.file.end BY <1>1, <1>10
<1>2. PICK F : F = [end |-> e, hdr |-> Put(a.file.hdr, a.pos, h)] OBVIOUS
<1>12. [end |-> IF a.pos + n > a.file.end THEN a.pos + n ELSE a.file.end,
        hdr |-> IF h.name = "" THEN a.file.hdr
                ELSE [o \in DOMAIN a.file.hdr \cup {a.pos} |-> IF o = a.pos THEN h ELSE a.file.hdr[o]]] = F
  BY <1>2, <1>11, Zenon DEF Put, Named
<1>3. c = [a EXCEPT !.file = F, !.pos = p] BY <1>1, <1>12, Zenon DEF write
<1>4. Record(a) BY Zenon DEF IsHandle, Record
<1>5. Record(c) BY <1>3, <1>4 DEF Record
<1>6. /\ c.file = F /\ c.pos = p /\ c.size = a.size /\ c.idx = a.idx /\ c.l = a.l
      /\ c.partial = a.partial /\ c.align = a.align /\ c.movi_offs = a.movi_offs
  BY <1>3, <1>4 DEF Record
<1>7. F.end = e /\ F.hdr = Put(a.file.hdr, a.pos, h) /\ F = [end |-> F.end, hdr |-> F.hdr] BY <1>2
<1>8. e >= a.file.end /\ e >= p /\ (e = a.file.end \/ e = p) BY <1>1, <1>10, <1>11
<1>9. IsHandle(c)
  <2>1. /\ a.size \in Nat /\ a.idx \in 0 .. MaxIdx /\ a.l \in [0 .. MaxIdx -> Opens]
        /\ a.movi_offs \in Nat /\ {a.partial, a.align} \subseteq BOOLEAN
    BY Zenon DEF IsHandle
  <2>2. c.file.end \in Nat /\ c.pos \in Int BY <1>6, <1>7
  <2>3. c.file = [end |-> c.file.end, hdr |-> c.file.hdr] BY <1>6, <1>7, Zenon
  <2> QED BY <1>5, <1>6, <2>1, <2>2, <2>3, Zenon DEF IsHandle, Record
<1> QED BY <1>1, <1>6, <1>7, <1>8, <1>9, Zenon DEF Same

(* Data that are written take room and put no header.                       *)
LEMMA DataIs ==
    ASSUME NEW a, IsHandle(a), a.pos \in Nat, NEW n, n \in Nat, NEW c, c = write(a, Data, n)
    PROVE  /\ IsHandle(c) /\ Same(a, c) /\ c.size = a.size /\ c.partial = a.partial /\ c.align = a.align
           /\ c.pos = a.pos + n /\ c.file.hdr = a.file.hdr
           /\ c.file.end \in Nat /\ c.file.end >= a.file.end /\ c.file.end >= a.pos + n
           /\ c.file.end = a.file.end \/ c.file.end = a.pos + n
<1>1. PICK p \in Nat : p = a.pos + n OBVIOUS
<1>10. a.file.end \in Nat BY DEF IsHandle
<1>11. PICK e \in Nat : e = IF a.pos + n > a.file.end THEN a.pos + n ELSE a.file.end BY <1>1, <1>10
<1>2. PICK F : F = [end |-> e, hdr |-> a.file.hdr] OBVIOUS
<1>13. Data.name = "" BY DEF Data
<1>14. PICK D : D = Data OBVIOUS
<1>12. [end |-> IF a.pos + n > a.file.end THEN a.pos + n ELSE a.file.end,
        hdr |-> IF D.name = "" THEN a.file.hdr
                ELSE [o \in DOMAIN a.file.hdr \cup {a.pos} |-> IF o = a.pos THEN D ELSE a.file.hdr[o]]] = F
  BY <1>2, <1>11, <1>13, <1>14, Zenon
<1>15. c = write(a, D, n) BY <1>14, Zenon
<1>3. c = [a EXCEPT !.file = F, !.pos = p] BY <1>1, <1>12, <1>15, Zenon DEF write
<1>4. Record(a) BY Zenon DEF IsHandle, Record
<1>5. Record(c) BY <1>3, <1>4 DEF Record
<1>6. /\ c.file = F /\ c.pos = p /\ c.size = a.size /\ c.idx = a.idx /\ c.l = a.l
      /\ c.partial = a.partial /\ c.align = a.align /\ c.movi_offs = a.movi_offs
  BY <1>3, <1>4 DEF Record
<1>7. F.end = e /\ F.hdr = a.file.hdr /\ F = [end |-> F.end, hdr |-> F.hdr] BY <1>2
<1>8. e >= a.file.end /\ e >= p /\ (e = a.file.end \/ e = p) BY <1>1, <1>10, <1>11
<1>9. IsHandle(c)
  <2>1. /\ a.size \in Nat /\ a.idx \in 0 .. MaxIdx /\ a.l \in [0 .. MaxIdx -> Opens]
        /\ a.movi_offs \in Nat /\ {a.partial, a.align} \subseteq BOOLEAN
    BY Zenon DEF IsHandle
  <2>2. c.file.end \in Nat /\ c.pos \in Int BY <1>6, <1>7
  <2>3. c.file = [end |-> c.file.end, hdr |-> c.file.hdr] BY <1>6, <1>7, Zenon
  <2> QED BY <1>5, <1>6, <2>1, <2>2, <2>3, Zenon DEF IsHandle, Record
<1> QED BY <1>1, <1>6, <1>7, <1>8, <1>9, Zenon DEF Same

(* What makes a handle.                                                     *)
LEMMA HandleIs ==
    ASSUME NEW a, IsHandle(a), NEW c, Record(c), c.file = a.file, c.idx = a.idx, c.l = a.l,
           c.movi_offs = a.movi_offs, c.size \in Nat, c.pos \in Int,
           c.partial \in BOOLEAN, c.align \in BOOLEAN
    PROVE  IsHandle(c)
<1>1. {c.partial, c.align} \subseteq BOOLEAN BY Zenon
<1>2. /\ a.file = [end |-> a.file.end, hdr |-> a.file.hdr] /\ a.file.end \in Nat
      /\ a.idx \in 0 .. MaxIdx /\ a.l \in [0 .. MaxIdx -> Opens] /\ a.movi_offs \in Nat
  BY Zenon DEF IsHandle
<1> QED BY <1>1, <1>2, Zenon DEF IsHandle, Record

(* The size.                                                                *)
LEMMA AdjustIs ==
    ASSUME NEW a, IsHandle(a), NEW n, n \in Nat, NEW c, c = avi_ajust_size_and_seek(a, n)
    PROVE  /\ IsHandle(c) /\ Same(a, c) /\ c.file = a.file /\ c.partial = a.partial
           /\ c.size = Even(a.size + n) /\ c.pos = c.size /\ c.align = FALSE
<1>1. a.size \in Nat /\ a.size + n \in Nat BY DEF IsHandle
<1>2. PICK s \in Nat : s = Even(a.size + n) BY <1>1, EvenIs
<1>3. PICK b : b = [a EXCEPT !.size = s, !.align = FALSE] OBVIOUS
<1>4. c = [b EXCEPT !.pos = s] BY <1>2, <1>3, Zenon DEF avi_ajust_size_and_seek, lseek, Even
<1>5. Record(a) BY Zenon DEF IsHandle, Record
<1>6. /\ Record(b) /\ b.file = a.file /\ b.pos = a.pos /\ b.size = s /\ b.idx = a.idx /\ b.l = a.l
      /\ b.partial = a.partial /\ b.align = FALSE /\ b.movi_offs = a.movi_offs
  BY <1>3, <1>5 DEF Record
<1>7. /\ Record(c) /\ c.file = b.file /\ c.pos = s /\ c.size = b.size /\ c.idx = b.idx /\ c.l = b.l
      /\ c.partial = b.partial /\ c.align = b.align /\ c.movi_offs = b.movi_offs
  BY <1>4, <1>6 DEF Record
<1>8. IsHandle(c)
  <2>1. a.partial \in BOOLEAN BY DEF IsHandle
  <2>4. s \in Int OBVIOUS
  <2>2. c.size \in Nat /\ c.pos \in Int /\ c.align \in BOOLEAN BY <1>2, <1>6, <1>7, <2>4, Zenon
  <2>3. c.file = a.file /\ c.idx = a.idx /\ c.l = a.l /\ c.movi_offs = a.movi_offs /\ c.partial = a.partial
    BY <1>6, <1>7, Zenon
  <2> QED BY <1>7, <2>1, <2>2, <2>3, HandleIs
<1> QED BY <1>2, <1>6, <1>7, <1>8, Zenon DEF Same

(* avi_ajust_by_size rounds the size up, and says when it had to.           *)
LEMMA AdjustBySize ==
    ASSUME NEW a, IsHandle(a), NEW n, n \in Nat, NEW c, c = avi_ajust_by_size(a, n)
    PROVE  /\ IsHandle(c) /\ Same(a, c) /\ c.file = a.file /\ c.partial = a.partial /\ c.pos = a.pos
           /\ c.size = Even(a.size + n + ChunkHead) /\ c.align = ~IsEven(a.size + n + ChunkHead)
<1>1. a.size + n + ChunkHead \in Nat BY DEF IsHandle, ChunkHead
<1>2. PICK s \in Nat : s = Even(a.size + n + ChunkHead) BY <1>1, EvenIs
<1>3. PICK g \in BOOLEAN : g = ((a.size + n + ChunkHead) % 2 = 1) OBVIOUS
<1>9. g = ~IsEven(a.size + n + ChunkHead) BY <1>1, <1>3 DEF IsEven
<1>4. c = [a EXCEPT !.align = g, !.size = s] BY <1>2, <1>3, Zenon DEF avi_ajust_by_size, Even
<1>5. Record(a) BY Zenon DEF IsHandle, Record
<1>7. /\ Record(c) /\ c.file = a.file /\ c.pos = a.pos /\ c.size = s /\ c.idx = a.idx /\ c.l = a.l
      /\ c.partial = a.partial /\ c.align = g /\ c.movi_offs = a.movi_offs
  BY <1>4, <1>5 DEF Record
<1>8. IsHandle(c)
  <2>1. a.partial \in BOOLEAN /\ a.pos \in Int BY DEF IsHandle
  <2>2. c.size \in Nat /\ c.pos \in Int /\ c.align \in BOOLEAN BY <1>2, <1>3, <1>7, <2>1
  <2> QED BY <1>7, <2>1, <2>2, HandleIs
<1> QED BY <1>2, <1>7, <1>8, <1>9, Zenon DEF Same

(* avi_align_pos moves behind the byte that pads a chunk.                   *)
LEMMA AlignIs ==
    ASSUME NEW a, IsHandle(a), NEW c, c = avi_align_pos(a)
    PROVE  /\ IsHandle(c) /\ Same(a, c) /\ c.file = a.file /\ c.partial = a.partial
           /\ c.size = a.size /\ c.pos = (IF a.align THEN a.size ELSE a.pos) /\ c.align = FALSE
<1>5. Record(a) BY Zenon DEF IsHandle, Record
<1>1. CASE a.align
  <2>3. PICK b : b = [a EXCEPT !.align = FALSE] OBVIOUS
  <2>4. c = [b EXCEPT !.pos = a.size] BY <1>1, <2>3, Zenon DEF avi_align_pos, lseek
  <2>6. /\ Record(b) /\ b.file = a.file /\ b.pos = a.pos /\ b.size = a.size /\ b.idx = a.idx /\ b.l = a.l
        /\ b.partial = a.partial /\ b.align = FALSE /\ b.movi_offs = a.movi_offs
    BY <1>5, <2>3 DEF Record
  <2>7. /\ Record(c) /\ c.file = b.file /\ c.pos = a.size /\ c.size = b.size /\ c.idx = b.idx /\ c.l = b.l
        /\ c.partial = b.partial /\ c.align = b.align /\ c.movi_offs = b.movi_offs
    BY <2>4, <2>6 DEF Record
  <2>8. IsHandle(c)
    <3>1. a.partial \in BOOLEAN /\ a.size \in Nat BY DEF IsHandle
    <3>4. a.size \in Int BY <3>1
    <3>2. c.size \in Nat /\ c.pos \in Int /\ c.align \in BOOLEAN BY <2>6, <2>7, <3>1, <3>4, Zenon
    <3>3. c.file = a.file /\ c.idx = a.idx /\ c.l = a.l /\ c.movi_offs = a.movi_offs /\ c.partial = a.partial
      BY <2>6, <2>7, Zenon
    <3> QED BY <2>7, <3>1, <3>2, <3>3, HandleIs
  <2> QED BY <1>1, <2>6, <2>7, <2>8, Zenon DEF Same
<1>2. CASE ~a.align
  <2>1. c = a BY <1>2, Zenon DEF avi_align_pos
  <2>2. a.align = FALSE BY <1>2 DEF IsHandle
  <2> QED BY <1>2, <2>1, <2>2, Zenon DEF Same
<1> QED BY <1>1, <1>2

(* The names and types that were in a file still are.                       *)
Kept(h, g) == \A p \in DOMAIN h : p \in DOMAIN g /\ g[p].name = h[p].name /\ g[p].type = h[p].type
Settled(a, W, at) == Core(a, W, at) /\ a.file.end <= a.size /\ ~a.partial /\ Between(a, W, at)
(* What has been said to be written.                                        *)
Said(a, W) == IF a.partial THEN Append(W, [level |-> a.idx, name |-> "00dc"]) ELSE W

(* A header behind the last element touches none of them.                   *)
LEMMA KeptPut ==
    ASSUME NEW h, NEW W, NEW at, Placed(h, W, at), NEW N \in Nat, N = Len(W), NEW e, NEW g, g = Put(h, at[N + 1], e)
    PROVE  at[N + 1] \notin DOMAIN h /\ Kept(h, g)
<1>1. at \in [1 .. N + 1 -> Nat] /\ DOMAIN h = {at[k] : k \in 1 .. N} BY DEF Placed
<1>2. \A j, k \in 1 .. N + 1 : j < k => at[j] + ChunkHead <= at[k] BY DEF Placed
<1>3. ASSUME NEW k \in 1 .. N PROVE at[k] # at[N + 1]
  <2>1. k \in 1 .. N + 1 /\ N + 1 \in 1 .. N + 1 /\ k < N + 1 OBVIOUS
  <2>2. at[k] \in Nat /\ at[N + 1] \in Nat /\ at[k] + ChunkHead <= at[N + 1] BY <1>1, <1>2, <2>1
  <2> QED BY <2>2 DEF ChunkHead
<1>4. at[N + 1] \notin DOMAIN h BY <1>1, <1>3
<1>5. \A p \in DOMAIN h : p \in DOMAIN g /\ g[p] = h[p] BY <1>4 DEF Put
<1>6. Kept(h, g) BY <1>5, Zenon DEF Kept
<1> QED BY <1>4, <1>6

(* Positions of elements are even numbers.                                  *)
LEMMA PlaceIs ==
    ASSUME NEW h, NEW W \in Seq(Elements), NEW at, Placed(h, W, at), NEW k \in 1 .. Len(W) + 1
    PROVE  at[k] \in Nat /\ at[k] \in Int /\ IsEven(at[k]) /\ at[k] <= at[Len(W) + 1]
<1>1. PICK N \in Nat : N = Len(W) OBVIOUS
<1>2. at \in [1 .. N + 1 -> Nat] /\ \A j \in 1 .. N + 1 : IsEven(at[j]) BY <1>1 DEF Placed
<1>3. \A i, j \in 1 .. N + 1 : i < j => at[i] + ChunkHead <= at[j] BY <1>1 DEF Placed
<1>4. N + 1 \in 1 .. N + 1 /\ k \in 1 .. N + 1 BY <1>1
<1>5. k = N + 1 \/ at[k] + ChunkHead <= at[N + 1] BY <1>3, <1>4
<1> QED BY <1>1, <1>2, <1>4, <1>5 DEF ChunkHead

(* The flag of the piecewise chunk is set or cleared alone.                 *)
LEMMA PartialIs ==
    ASSUME NEW a, IsHandle(a), NEW g \in BOOLEAN, NEW c, c = [a EXCEPT !.partial = g]
    PROVE  /\ IsHandle(c) /\ Same(a, c) /\ c.file = a.file /\ c.size = a.size /\ c.pos = a.pos
           /\ c.partial = g /\ c.align = a.align
<1>1. Record(a) BY Zenon DEF IsHandle, Record
<1>2. /\ Record(c) /\ c.file = a.file /\ c.pos = a.pos /\ c.size = a.size /\ c.idx = a.idx /\ c.l = a.l
      /\ c.partial = g /\ c.align = a.align /\ c.movi_offs = a.movi_offs
  BY <1>1 DEF Record
<1>3. a.align \in BOOLEAN /\ a.size \in Nat /\ a.pos \in Int BY DEF IsHandle
<1>4. IsHandle(c) BY <1>2, <1>3, HandleIs
<1> QED BY <1>2, <1>4, Zenon DEF Same

(* Headers have names.                                                      *)
LEMMA HeadersNamed ==
    /\ \A n : \A name \in ChunkNames : Named(ChunkHeader(name, n))
    /\ \A type, n : \A name \in {Riff, List} : Named([name |-> name, type |-> type, size |-> n])
<1>1. ASSUME NEW name \in ChunkNames, NEW n PROVE Named(ChunkHeader(name, n))
  <2>1. ChunkHeader(name, n).name = name BY DEF ChunkHeader
  <2>2. name # "" BY DEF ChunkNames
  <2> QED BY <2>1, <2>2, Zenon DEF Named
<1>2. ASSUME NEW name \in {Riff, List}, NEW type, NEW n
      PROVE  Named([name |-> name, type |-> type, size |-> n])
  <2>1. [name |-> name, type |-> type, size |-> n].name = name OBVIOUS
  <2>2. name # "" BY DEF Riff, List
  <2> QED BY <2>1, <2>2, Zenon DEF Named
<1> QED BY <1>1, <1>2, Zenon

(* A size that is made even, behind an even position.                       *)
LEMMA EvenBehind ==
    ASSUME NEW p \in Nat, IsEven(p), NEW n \in Nat
    PROVE  Even(p + ChunkHead + n) = p + ChunkHead + Even(n) /\ Even(p + n + ChunkHead) = p + ChunkHead + Even(n)
           /\ (IsEven(p + n + ChunkHead) <=> IsEven(n)) /\ p + ChunkHead + n \in Nat
BY DEF Even, IsEven, ChunkHead

(* A chunk is added to the file.                                            *)
LEMMA ChunkAdded ==
    ASSUME NEW a, NEW W, NEW at, Core(a, W, at), NEW N \in Nat, N = Len(W),
           NEW name \in ChunkNames, NEW n \in Nat, NEW c, AddsChunk(a, c, at[N + 1], name, n),
           c.file.end <= c.size, ~c.partial, c.size = at[N + 1] + ChunkHead + Even(n),
           c.pos = IF c.align THEN c.size - 1 ELSE c.size
    PROVE  /\ \E bt : Settled(c, Append(W, [level |-> a.idx, name |-> name]), bt)
           /\ Kept(a.file.hdr, c.file.hdr)
<1>1. W \in Seq(Elements) /\ Placed(a.file.hdr, W, at) BY DEF Core, Nested
<1>2. PICK V : V = Append(W, [level |-> a.idx, name |-> name]) OBVIOUS
<1>3. PICK bt : bt = Longer(at, N, at[N + 1] + ChunkHead + Even(n)) OBVIOUS
<1>4. Core(c, V, bt) BY <1>2, <1>3, CoreChunk
<1>5. Len(V) = N + 1 BY <1>1, <1>2, AppendProperties
<1>6. bt[N + 2] = at[N + 1] + ChunkHead + Even(n) BY <1>3 DEF Longer
<1>7. Between(c, V, bt) BY <1>5, <1>6 DEF Between
<1>8. Settled(c, V, bt) BY <1>4, <1>7, Zenon DEF Settled
<1>9. c.file.hdr = Put(a.file.hdr, at[N + 1], ChunkHeader(name, n)) BY Zenon DEF AddsChunk
<1>10. Kept(a.file.hdr, c.file.hdr) BY <1>1, <1>9, KeptPut
<1> QED BY <1>2, <1>8, <1>10, Zenon

(* avi_file_data_last.                                                      *)
LEMMA DataLast ==
    ASSUME NEW a, NEW W, NEW at, Opened(a, W, at), NEW b, b = avi_file_data_last(a)
    PROVE  /\ \E bt : Settled(b, Said(a, W), bt)
           /\ Same(a, b) /\ Kept(a.file.hdr, b.file.hdr)
<1>1. Core(a, W, at) /\ a.file.end <= a.size /\ IsHandle(a) BY Zenon DEF Opened, Core
<1>2. W \in Seq(Elements) /\ Placed(a.file.hdr, W, at) BY <1>1 DEF Core, Nested
<1>3. PICK N \in Nat : N = Len(W) BY <1>2
<1>4. CASE ~a.partial
  <2>1. b = a /\ Said(a, W) = W BY <1>4, Zenon DEF avi_file_data_last, Said
  <2>2. Settled(a, W, at) BY <1>4, Zenon DEF Opened, Settled
  <2> QED BY <2>1, <2>2, Zenon DEF Same, Kept
<1>5. CASE a.partial
  <2>1. PICK p \in Nat : p = at[N + 1] /\ IsEven(p)
    <3>1. N + 1 \in 1 .. Len(W) + 1 BY <1>3
    <3>2. at[N + 1] \in Nat /\ IsEven(at[N + 1]) BY <1>2, <3>1, PlaceIs
    <3> QED BY <3>2
  <2>2. Begun(a, W, at) BY <1>5, Zenon DEF Opened
  <2>3. /\ a.idx >= 2 /\ a.l[a.idx].offs = p /\ a.l[a.idx].name = "00dc"
        /\ a.size >= p + ChunkHead /\ a.pos = a.size
        /\ a.size > p + ChunkHead => a.file.end >= a.size
    BY <1>3, <2>1, <2>2, Zenon DEF Begun
  <2>4. PICK name \in ChunkNames : name = "00dc" BY Zenon DEF ChunkNames
  <2>5. PICK n \in Nat : n = a.size - p - ChunkHead /\ a.size = p + ChunkHead + n
    <3>1. a.size \in Nat BY <1>1 DEF IsHandle
    <3> QED BY <2>1, <2>3, <3>1 DEF ChunkHead
  <2>6. PICK head : head = ChunkHeader(name, n) OBVIOUS
  <2>7. Named(head) BY <2>4, <2>6, HeadersNamed
  <2>8. PICK a1 : a1 = [a EXCEPT !.partial = FALSE] OBVIOUS
  <2>9. PICK a2 : a2 = lseek(a1, p) OBVIOUS
  <2>10. PICK a3 : a3 = write(a2, head, ChunkHead) OBVIOUS
  <2>28. PICK z \in Nat : z = 0 OBVIOUS
  <2>11. PICK c : c = avi_ajust_size_and_seek(a3, z) OBVIOUS
  <2>27. b = c
    BY <1>5, <2>3, <2>4, <2>5, <2>6, <2>8, <2>9, <2>10, <2>11, <2>28, Zenon DEF avi_file_data_last
  <2>12. /\ IsHandle(a1) /\ Same(a, a1) /\ a1.file = a.file /\ a1.size = a.size /\ a1.partial = FALSE
    BY <1>1, <2>8, PartialIs
  <2>13. /\ IsHandle(a2) /\ Same(a1, a2) /\ a2.file = a1.file /\ a2.size = a1.size /\ a2.pos = p
         /\ a2.partial = FALSE
    <3>1. p \in Int OBVIOUS
    <3> QED BY <2>9, <2>12, <3>1, SeekIs
  <2>14. /\ IsHandle(a3) /\ Same(a2, a3) /\ a3.size = a2.size /\ a3.partial = a2.partial
         /\ a3.file.hdr = Put(a2.file.hdr, p, head) /\ a3.file.end \in Nat
         /\ a3.file.end >= a2.file.end /\ a3.file.end >= p + ChunkHead
         /\ a3.file.end = a2.file.end \/ a3.file.end = p + ChunkHead
    <3>1. ChunkHead \in Nat BY DEF ChunkHead
    <3> QED BY <2>7, <2>10, <2>13, <3>1, WriteIs
  <2>15. /\ IsHandle(c) /\ Same(a3, c) /\ c.file = a3.file /\ c.partial = a3.partial
         /\ c.size = Even(a3.size + z) /\ c.pos = c.size /\ c.align = FALSE
    <3>2. IsHandle(a3) BY <2>14
    <3> QED BY <2>11, <3>2, AdjustIs
  <2>16. Same(a, c) BY <2>12, <2>13, <2>14, <2>15, Zenon DEF Same
  <2>17. c.file.hdr = Put(a.file.hdr, at[N + 1], ChunkHeader(name, n)) /\ ~c.partial
    BY <2>1, <2>6, <2>12, <2>13, <2>14, <2>15, Zenon
  <2>18. a.file.end \in Nat /\ a.size \in Nat BY <1>1 DEF IsHandle
  <2>19. c.file.end = a3.file.end /\ a2.file.end = a.file.end BY <2>12, <2>13, <2>15, Zenon
  <2>20. c.size = p + ChunkHead + Even(n) /\ a.size <= c.size
    <3>1. a3.size = a.size BY <2>12, <2>13, <2>14, Zenon
    <3>2. c.size = Even(a.size)
      <4>1. a.size + z = a.size BY <2>18, <2>28
      <4> QED BY <2>15, <3>1, <4>1, Zenon
    <3>3. Even(p + ChunkHead + n) = p + ChunkHead + Even(n) BY <2>1, EvenBehind
    <3>4. a.size <= Even(a.size) BY <2>18, EvenIs
    <3> QED BY <2>5, <3>2, <3>3, <3>4
  <2>21. c.file.end >= a.file.end /\ c.file.end >= p + ChunkHead + n /\ c.file.end <= c.size
    <3>1. c.file.end \in Nat BY <2>14, <2>19
    <3>2. c.file.end >= a.file.end /\ c.file.end >= p + ChunkHead BY <2>14, <2>19
    <3>3. c.file.end = a.file.end \/ c.file.end = p + ChunkHead BY <2>14, <2>19
    <3>4. c.file.end >= p + ChunkHead + n
      <4>1. CASE n = 0 BY <2>1, <3>1, <3>2, <4>1 DEF ChunkHead
      <4>2. CASE n # 0
        <5>1. a.size > p + ChunkHead BY <2>1, <2>5, <4>2 DEF ChunkHead
        <5> QED BY <2>3, <2>5, <2>18, <3>1, <3>2, <5>1
      <4> QED BY <4>1, <4>2
    <3>5. c.size \in Nat BY <2>15 DEF IsHandle
    <3>6. c.file.end <= c.size BY <1>1, <2>3, <2>18, <2>20, <3>1, <3>3, <3>5 DEF ChunkHead
    <3> QED BY <3>2, <3>4, <3>6
  <2>22. AddsChunk(a, c, at[N + 1], name, n)
    <3>1. c.idx = a.idx /\ c.l = a.l /\ c.movi_offs = a.movi_offs BY <2>16, Zenon DEF Same
    <3>2. c.file.end >= p + ChunkHead BY <2>14, <2>19
    <3> QED BY <2>1, <2>3, <2>15, <2>17, <2>21, <3>1, <3>2, Zenon DEF AddsChunk
  <2>23. c.size = at[N + 1] + ChunkHead + Even(n) BY <2>1, <2>20
  <2>24. c.pos = IF c.align THEN c.size - 1 ELSE c.size BY <2>15, Zenon
  <2>25. /\ \E bt : Settled(c, Append(W, [level |-> a.idx, name |-> name]), bt)
         /\ Kept(a.file.hdr, c.file.hdr)
    BY <1>1, <1>3, <2>17, <2>21, <2>22, <2>23, <2>24, ChunkAdded
  <2>26. Said(a, W) = Append(W, [level |-> a.idx, name |-> name]) BY <1>5, <2>4, Zenon DEF Said
  <2> QED BY <2>16, <2>25, <2>26, <2>27, Zenon
<1> QED BY <1>4, <1>5

(* Between two calls.                                                       *)
LEMMA SettledIs ==
    ASSUME NEW b, NEW W, NEW at, Settled(b, W, at)
    PROVE  /\ Core(b, W, at) /\ IsHandle(b) /\ W \in Seq(Elements) /\ Placed(b.file.hdr, W, at)
           /\ b.size = at[Len(W) + 1] /\ b.size \in Nat /\ IsEven(b.size)
           /\ b.file.end \in Nat /\ b.file.end <= b.size /\ ~b.partial
           /\ b.pos = IF b.align THEN b.size - 1 ELSE b.size
<1>1. Core(b, W, at) /\ b.file.end <= b.size /\ ~b.partial /\ Between(b, W, at) BY Zenon DEF Settled
<1>2. IsHandle(b) /\ W \in Seq(Elements) /\ Placed(b.file.hdr, W, at) BY <1>1, Zenon DEF Core, Nested
<1>3. b.size = at[Len(W) + 1] /\ b.pos = IF b.align THEN b.size - 1 ELSE b.size BY <1>1, Zenon DEF Between
<1>4. Len(W) + 1 \in 1 .. Len(W) + 1 BY <1>2
<1>5. at[Len(W) + 1] \in Nat /\ IsEven(at[Len(W) + 1]) BY <1>2, <1>4, PlaceIs
<1>6. b.file.end \in Nat BY <1>2, Zenon DEF IsHandle
<1> QED BY <1>1, <1>2, <1>3, <1>5, <1>6, Zenon

(* Only the outermost list is of level 0.                                   *)
LEMMA Outermost ==
    ASSUME NEW W, Nested(W), NEW o \in 1 .. Len(W), W[o].level = 0
    PROVE  o = 1 /\ W[o].name = "AVI "
<1>1. W \in Seq(Elements) BY DEF Nested
<1>2. PICK N \in Nat : N = Len(W) BY <1>1
<1>3. o = 1
  <2>1. ASSUME o # 1 PROVE FALSE
    <3>1. o - 1 \in 1 .. N - 1 /\ o - 1 + 1 = o BY <1>2, <2>1
    <3>2. Follows(W[o - 1], W[o - 1 + 1]) BY <1>2, <3>1, Zenon DEF Nested
    <3>3. W[o].level >= 1 BY <3>1, <3>2, Zenon DEF Follows
    <3> QED BY <3>3
  <2> QED BY <2>1
<1>4. W # <<>> BY <1>1, EmptySeq
<1> QED BY <1>3, <1>4, Zenon DEF Nested, First

Inner(a) == a.idx >= 1 /\ a.l[a.idx - 1].type # "AVI "
(* Within a list other than the outermost one, two lists are open.          *)
LEMMA Deep ==
    ASSUME NEW a, NEW W, NEW at, Core(a, W, at), Inner(a)
    PROVE  a.idx >= 2
<1>3. a.idx \in Nat BY DEF Core, IsHandle
<1>4. a.idx >= 1 BY Zenon DEF Inner
<1>1. PICK i \in Nat : i = a.idx BY <1>3
<1>2. ASSUME i = 1 PROVE FALSE
  <2>1. 0 \in 0 .. a.idx - 1 /\ a.idx - 1 = 0 BY <1>1, <1>2
  <2>2. PICK o \in 1 .. Len(W) : IsOpen(a, W, at, 0, o) BY <2>1, Zenon DEF Core
  <2>3. W[o].level = 0 /\ a.l[0].type = W[o].name BY <2>2, Zenon DEF IsOpen
  <2>4. Nested(W) BY Zenon DEF Core
  <2>5. W[o].name = "AVI " BY <2>3, <2>4, Outermost
  <2> QED BY <2>1, <2>3, <2>5, Zenon DEF Inner
<1> QED BY <1>1, <1>2, <1>4

(* A chunk that is written at once.                                         *)
LEMMA ChunkIs ==
    ASSUME NEW b, NEW W, NEW at, Settled(b, W, at), b.idx >= 2,
           NEW fcc \in ChunkNames, NEW n \in Nat, NEW c, c = Chunk(b, fcc, n)
    PROVE  /\ \E bt : Settled(c, Append(W, [level |-> b.idx, name |-> fcc]), bt)
           /\ Same(b, c) /\ Kept(b.file.hdr, c.file.hdr)
           /\ b.size \in DOMAIN c.file.hdr /\ c.file.hdr[b.size].name = fcc
<1>1. /\ Core(b, W, at) /\ IsHandle(b) /\ W \in Seq(Elements) /\ Placed(b.file.hdr, W, at)
      /\ b.size = at[Len(W) + 1] /\ b.size \in Nat /\ IsEven(b.size)
      /\ b.file.end \in Nat /\ b.file.end <= b.size /\ ~b.partial
  BY SettledIs
<1>2. b.pos = IF b.align THEN b.size - 1 ELSE b.size BY SettledIs, Zenon
<1>3. PICK N \in Nat : N = Len(W) BY <1>1
<1>4. PICK p \in Nat : p = at[N + 1] /\ p = b.size /\ IsEven(p) BY <1>1, <1>3
<1>5. PICK head : head = ChunkHeader(fcc, n) OBVIOUS
<1>6. Named(head) /\ head.name = fcc
  <2>1. head.name = fcc BY <1>5 DEF ChunkHeader
  <2> QED BY <1>5, <2>1, HeadersNamed
<1>7. PICK b1 : b1 = avi_align_pos(b) OBVIOUS
<1>8. PICK b2 : b2 = write(b1, head, ChunkHead) OBVIOUS
<1>9. PICK b3 : b3 = write(b2, Data, n) OBVIOUS
<1>10. PICK b4 : b4 = avi_ajust_by_size(b3, n) OBVIOUS
<1>11. b4 = c BY <1>5, <1>7, <1>8, <1>9, <1>10, Zenon DEF Chunk
<1>12. IsHandle(b1) /\ Same(b, b1) /\ b1.file = b.file /\ b1.partial = b.partial /\ b1.size = b.size /\ b1.pos = p
  <2>1. IsHandle(b1) /\ Same(b, b1) /\ b1.file = b.file /\ b1.partial = b.partial /\ b1.size = b.size
    BY <1>1, <1>7, AlignIs
  <2>2. b1.pos = IF b.align THEN b.size ELSE b.pos BY <1>1, <1>7, AlignIs
  <2>3. b1.pos = p BY <1>2, <1>4, <2>2, Zenon
  <2> QED BY <2>1, <2>3
<1>13. /\ IsHandle(b2) /\ Same(b1, b2) /\ b2.size = b1.size /\ b2.partial = b1.partial
       /\ b2.pos = p + ChunkHead /\ b2.file.hdr = Put(b1.file.hdr, p, head)
       /\ b2.file.end \in Nat /\ b2.file.end >= b1.file.end /\ b2.file.end >= p + ChunkHead
       /\ b2.file.end = b1.file.end \/ b2.file.end = p + ChunkHead
  <2>1. ChunkHead \in Nat /\ b1.pos \in Nat BY <1>12 DEF ChunkHead
  <2> QED BY <1>6, <1>8, <1>12, <2>1, WriteIs
<1>14. /\ IsHandle(b3) /\ Same(b2, b3) /\ b3.size = b2.size /\ b3.partial = b2.partial
       /\ b3.pos = p + ChunkHead + n /\ b3.file.hdr = b2.file.hdr
       /\ b3.file.end \in Nat /\ b3.file.end >= b2.file.end /\ b3.file.end >= p + ChunkHead + n
       /\ b3.file.end = b2.file.end \/ b3.file.end = p + ChunkHead + n
  <2>1. n \in Nat /\ b2.pos \in Nat BY <1>13 DEF ChunkHead
  <2> QED BY <1>9, <1>13, <2>1, DataIs
<1>15. /\ IsHandle(b4) /\ Same(b3, b4) /\ b4.file = b3.file /\ b4.partial = b3.partial /\ b4.pos = b3.pos
       /\ b4.size = Even(b3.size + n + ChunkHead) /\ b4.align = ~IsEven(b3.size + n + ChunkHead)
  <2>1. n \in Nat OBVIOUS
  <2> QED BY <1>10, <1>14, <2>1, AdjustBySize
<1>16. b3.size = p BY <1>4, <1>12, <1>13, <1>14, Zenon
<1>17. b4.size = p + ChunkHead + Even(n)
  <2>1. Even(p + n + ChunkHead) = p + ChunkHead + Even(n) BY <1>4, EvenBehind
  <2> QED BY <1>15, <1>16, <2>1, Zenon
<1>18. b4.pos = IF b4.align THEN b4.size - 1 ELSE b4.size
  <2>1. b4.align <=> ~IsEven(n)
    <3>1. IsEven(p + n + ChunkHead) <=> IsEven(n) BY <1>4, EvenBehind
    <3> QED BY <1>15, <1>16, <3>1, Zenon
  <2>2. b4.pos = p + ChunkHead + n BY <1>14, <1>15, Zenon
  <2>3. CASE IsEven(n)
    <3>1. Even(n) = n BY <2>3, EvenIs
    <3>2. b4.pos = b4.size BY <1>17, <2>2, <3>1, Zenon
    <3> QED BY <2>1, <2>3, <3>2, Zenon
  <2>4. CASE ~IsEven(n)
    <3>1. Even(n) = n + 1 BY <2>4 DEF IsEven, Even
    <3>2. b4.pos = b4.size - 1 BY <1>17, <2>2, <3>1 DEF ChunkHead
    <3> QED BY <2>1, <2>4, <3>2, Zenon
  <2> QED BY <2>3, <2>4
<1>19. Same(b, b4) BY <1>12, <1>13, <1>14, <1>15, Zenon DEF Same
<1>20. b4.file.hdr = Put(b.file.hdr, at[N + 1], ChunkHeader(fcc, n)) /\ ~b4.partial
  BY <1>1, <1>4, <1>5, <1>12, <1>13, <1>14, <1>15, Zenon
<1>21. /\ b4.file.end >= b.file.end /\ b4.file.end >= p + ChunkHead /\ b4.file.end >= p + ChunkHead + n
       /\ b4.file.end <= b4.size
  <2>1. b1.file.end = b.file.end /\ b4.file.end = b3.file.end BY <1>12, <1>15, Zenon
  <2>2. b4.file.end >= b.file.end /\ b4.file.end >= p + ChunkHead /\ b4.file.end >= p + ChunkHead + n
    BY <1>1, <1>13, <1>14, <2>1 DEF ChunkHead
  <2>3. Even(n) \in Nat /\ n <= Even(n) BY EvenIs
  <2>4. b4.file.end <= b4.size BY <1>1, <1>4, <1>13, <1>14, <1>17, <2>1, <2>3 DEF ChunkHead
  <2> QED BY <2>2, <2>4
<1>22. AddsChunk(b, b4, at[N + 1], fcc, n)
  <2>1. b4.idx = b.idx /\ b4.l = b.l /\ b4.movi_offs = b.movi_offs BY <1>19, Zenon DEF Same
  <2> QED BY <1>4, <1>15, <1>20, <1>21, <2>1, Zenon DEF AddsChunk
<1>23. /\ \E bt : Settled(b4, Append(W, [level |-> b.idx, name |-> fcc]), bt)
       /\ Kept(b.file.hdr, b4.file.hdr)
  BY <1>1, <1>3, <1>4, <1>17, <1>18, <1>20, <1>21, <1>22, ChunkAdded
<1>24. b.size \in DOMAIN b4.file.hdr /\ b4.file.hdr[b.size].name = fcc
  BY <1>4, <1>5, <1>6, <1>20 DEF Put
<1> QED BY <1>11, <1>19, <1>23, <1>24, Zenon

(* What a call leaves of the handle and of the headers.                     *)
Ready(a, w) == \E W, at : Opened(a, W, at) /\ w = Said(a, W)
Calls(a, c) == Same(a, c) /\ Kept(a.file.hdr, c.file.hdr)
Element(a, name) == [level |-> a.idx, name |-> name]

(* Between two calls with no chunk begun, the elements are what is said.    *)
LEMMA SettledReady ==
    ASSUME NEW c, NEW V, NEW bt, Settled(c, V, bt)
    PROVE  Opened(c, V, bt) /\ Said(c, V) = V /\ Ready(c, V)
<1>1. Opened(c, V, bt) /\ Said(c, V) = V BY Zenon DEF Settled, Opened, Said
<1> QED BY <1>1, Zenon DEF Ready

(* After avi_file_data_last the elements are what is said to be written.    *)
LEMMA LastReady ==
    ASSUME NEW a, NEW w, Ready(a, w), NEW b, b = avi_file_data_last(a)
    PROVE  /\ \E at : Settled(b, w, at)
           /\ Calls(a, b) /\ IsHandle(a) /\ (~a.partial => b = a)
<1>1. PICK W, at : Opened(a, W, at) /\ w = Said(a, W) BY Zenon DEF Ready
<1>2. /\ \E bt : Settled(b, w, bt)
      /\ Same(a, b) /\ Kept(a.file.hdr, b.file.hdr)
  BY <1>1, DataLast
<1>3. IsHandle(a) BY <1>1, Zenon DEF Opened, Core
<1>4. ~a.partial => b = a BY Zenon DEF avi_file_data_last
<1> QED BY <1>2, <1>3, <1>4, Zenon DEF Calls

(* Two calls on the same lists.                                             *)
LEMMA CallsOn ==
    ASSUME NEW a, NEW b, NEW c, Calls(a, b), Calls(b, c)
    PROVE  Calls(a, c)
<1>1. Same(a, c) BY Zenon DEF Calls, Same
<1>2. Kept(a.file.hdr, c.file.hdr)
  <2>1. ASSUME NEW p \in DOMAIN a.file.hdr
        PROVE  /\ p \in DOMAIN c.file.hdr /\ c.file.hdr[p].name = a.file.hdr[p].name
               /\ c.file.hdr[p].type = a.file.hdr[p].type
    <3>1. /\ p \in DOMAIN b.file.hdr /\ b.file.hdr[p].name = a.file.hdr[p].name
          /\ b.file.hdr[p].type = a.file.hdr[p].type
      BY Zenon DEF Calls, Kept
    <3>2. /\ p \in DOMAIN c.file.hdr /\ c.file.hdr[p].name = b.file.hdr[p].name
          /\ c.file.hdr[p].type = b.file.hdr[p].type
      BY <3>1, Zenon DEF Calls, Kept
    <3> QED BY <3>1, <3>2, Zenon
  <2> QED BY <2>1, Zenon DEF Kept
<1> QED BY <1>1, <1>2, Zenon DEF Calls

(* The list around is inside of the outermost one, before and after.        *)
LEMMA DeepLast ==
    ASSUME NEW a, Inner(a), NEW b, Calls(a, b), NEW W, NEW at, Settled(b, W, at)
    PROVE  b.idx >= 2 /\ b.idx = a.idx
<1>1. b.idx = a.idx /\ b.l = a.l BY Zenon DEF Calls, Same
<1>2. Inner(b) BY <1>1, Zenon DEF Inner
<1>3. Core(b, W, at) BY SettledIs
<1> QED BY <1>1, <1>2, <1>3, Deep

(* avif_odml_write_2fields, avi_file_chunk_append.                          *)
LEMMA ChunkReady ==
    ASSUME NEW a, NEW w, Ready(a, w), ~a.partial, Inner(a),
           NEW fcc \in ChunkNames, NEW n \in Nat, NEW c, c = Chunk(a, fcc, n)
    PROVE  /\ Ready(c, Append(w, Element(a, fcc))) /\ Calls(a, c)
           /\ a.size \in DOMAIN c.file.hdr /\ c.file.hdr[a.size].name = fcc
<1>1. PICK b : b = avi_file_data_last(a) OBVIOUS
<1>2. PICK at : Settled(b, w, at) BY <1>1, LastReady, Zenon
<1>3. b = a /\ Calls(a, b) BY <1>1, LastReady, Zenon
<1>4. a.idx >= 2 BY <1>2, <1>3, DeepLast
<1>5. Settled(a, w, at) BY <1>2, <1>3, Zenon
<1>6. /\ \E bt : Settled(c, Append(w, [level |-> a.idx, name |-> fcc]), bt)
      /\ Same(a, c) /\ Kept(a.file.hdr, c.file.hdr)
      /\ a.size \in DOMAIN c.file.hdr /\ c.file.hdr[a.size].name = fcc
  BY <1>4, <1>5, ChunkIs
<1>7. Ready(c, Append(w, Element(a, fcc))) BY <1>6, SettledReady, Zenon DEF Element
<1> QED BY <1>6, <1>7, Zenon DEF Calls

(* avi_file_chunk_append, with or without a piecewise chunk before.         *)
LEMMA AppendReady ==
    ASSUME NEW a, NEW w, Ready(a, w), Inner(a),
           NEW fcc \in ChunkNames, NEW n \in Nat, NEW c, c = avi_file_chunk_append(a, fcc, n)
    PROVE  /\ Ready(c, Append(w, Element(a, fcc))) /\ Calls(a, c)
           /\ ~a.partial => a.size \in DOMAIN c.file.hdr /\ c.file.hdr[a.size].name = fcc
<1>1. PICK b : b = avi_file_data_last(a) OBVIOUS
<1>2. PICK at : Settled(b, w, at) BY <1>1, LastReady, Zenon
<1>3. Calls(a, b) /\ (~a.partial => b = a) BY <1>1, LastReady, Zenon
<1>4. c = Chunk(b, fcc, n) BY <1>1, Zenon DEF avi_file_chunk_append
<1>5. Ready(b, w) /\ ~b.partial BY <1>2, SettledReady, SettledIs, Zenon
<1>6. Inner(b) /\ Element(b, fcc) = Element(a, fcc) BY <1>3, Zenon DEF Inner, Calls, Same, Element
<1>7. /\ Ready(c, Append(w, Element(b, fcc))) /\ Calls(b, c)
      /\ b.size \in DOMAIN c.file.hdr /\ c.file.hdr[b.size].name = fcc
  BY <1>4, <1>5, <1>6, ChunkReady
<1>8. Calls(a, c) BY <1>3, <1>7, CallsOn, Zenon
<1> QED BY <1>3, <1>6, <1>7, <1>8, Zenon

(* The elements stay as they are.                                           *)
Stays(b, c) ==
    /\ IsHandle(b) /\ IsHandle(c) /\ c.file.hdr = b.file.hdr /\ c.file.end >= b.file.end
    /\ c.idx = b.idx /\ c.movi_offs = b.movi_offs /\ \A d \in 0 .. b.idx - 1 : c.l[d] = b.l[d]
(* Then the file is as sound as before.                                     *)
LEMMA CoreStays ==
    ASSUME NEW b, NEW c, NEW W, NEW at, Core(b, W, at), Stays(b, c)
    PROVE  Core(c, W, at)
<1>1. W \in Seq(Elements) /\ Placed(b.file.hdr, W, at) BY Zenon DEF Core, Nested
<1>2. IsHandle(c) /\ c.file.hdr = b.file.hdr /\ c.idx = b.idx /\ c.movi_offs = b.movi_offs BY Zenon DEF Stays
<1>3. b.file.end \in Nat /\ c.file.end \in Nat /\ c.file.end >= b.file.end BY Zenon DEF Stays, IsHandle
<1>4. PICK e \in Nat, f \in Nat : e = b.file.end /\ f = c.file.end /\ f >= e BY <1>3
<1>5. PICK h : h = b.file.hdr OBVIOUS
<1>6. ASSUME NEW k \in 1 .. Len(W)
      PROVE  /\ f >= at[k] + ChunkHead
             /\ W[k].name \in ListNames => f >= at[k] + ListHead
             /\ W[k].name \notin ListNames \cup {"JUNK"} => f >= at[k] + ChunkHead + h[at[k]].size
  <2>1. /\ e >= at[k] + ChunkHead
        /\ W[k].name \in ListNames => e >= at[k] + ListHead
        /\ W[k].name \notin ListNames \cup {"JUNK"} => e >= at[k] + ChunkHead + h[at[k]].size
    BY <1>4, <1>5, Zenon DEF Core, Present
  <2>2. at[k] \in Nat BY <1>1, PlaceIs
  <2>3. h \in [DOMAIN h -> Heads] /\ at[k] \in DOMAIN h BY <1>1, <1>5, Zenon DEF Placed
  <2>4. h[at[k]] \in Heads BY <2>3
  <2>5. h[at[k]].size \in Nat BY <2>4 DEF Heads
  <2>6. PICK s \in Nat, p \in Nat : s = h[at[k]].size /\ p = at[k] BY <2>2, <2>5
  <2>7. \A x \in Int : e >= x => f >= x BY <1>4
  <2>8. p + ChunkHead \in Int /\ p + ListHead \in Int /\ p + ChunkHead + s \in Int BY DEF ChunkHead, ListHead
  <2> QED BY <2>1, <2>6, <2>7, <2>8, Zenon
<1>7. Present(c.file, W, at) BY <1>2, <1>4, <1>5, <1>6, Zenon DEF Present
<1>8. ASSUME NEW d \in 0 .. c.idx - 1 PROVE \E o \in 1 .. Len(W) : IsOpen(c, W, at, d, o)
  <2>1. PICK o \in 1 .. Len(W) : IsOpen(b, W, at, d, o) BY <1>2, <1>8, Zenon DEF Core
  <2>2. c.l[d] = b.l[d] BY <1>2, <1>8, Zenon DEF Stays
  <2>3. IsOpen(c, W, at, d, o) BY <1>2, <2>1, <2>2, Zenon DEF IsOpen
  <2> QED BY <2>3
<1> QED BY <1>1, <1>2, <1>7, <1>8, Zenon DEF Core

(* A call that writes no header.                                            *)
LEMMA KeptSame ==
    ASSUME NEW b, NEW c, Same(b, c), c.file.hdr = b.file.hdr
    PROVE  Calls(b, c)
BY Zenon DEF Calls, Kept

(* avi_file_data_create.                                                    *)
LEMMA CreateReady ==
    ASSUME NEW a, NEW w, Ready(a, w), Inner(a), NEW c, c = avi_file_data_create(a, "00dc")
    PROVE  /\ Ready(c, Append(w, Element(a, "00dc")))
           /\ c.movi_offs = a.movi_offs /\ Kept(a.file.hdr, c.file.hdr)
<1>1. PICK b : b = avi_file_data_last(a) OBVIOUS
<1>2. PICK at : Settled(b, w, at) BY <1>1, LastReady, Zenon
<1>3. Calls(a, b) BY <1>1, LastReady, Zenon
<1>4. b.idx >= 2 /\ b.idx = a.idx BY <1>2, <1>3, DeepLast
<1>5. /\ Core(b, w, at) /\ IsHandle(b) /\ b.size = at[Len(w) + 1] /\ b.size \in Nat
      /\ b.file.end \in Nat /\ b.file.end <= b.size
  BY <1>2, SettledIs
<1>6. PICK name : name = "00dc" /\ name \in ChunkNames \cup {Riff, List, ""} BY DEF ChunkNames
<1>7. PICK p \in Nat : p = b.size BY <1>5
<1>8. PICK s \in Nat : s = p + ChunkHead BY DEF ChunkHead
<1>9. PICK r \in Opens : r.name = name /\ r.offs = p /\ r = [name |-> name, type |-> "", offs |-> p]
  <2>1. PICK type \in ListNames \cup {""} : type = "" OBVIOUS
  <2>2. PICK r : r = [name |-> name, type |-> type, offs |-> p] OBVIOUS
  <2>3. r \in Opens /\ r.name = name /\ r.offs = p BY <1>6, <2>2 DEF Opens
  <2> QED BY <2>1, <2>2, <2>3
<1>10. PICK i \in 0 .. MaxIdx : i = b.idx BY <1>5 DEF IsHandle
<1>11. PICK c1 : c1 = [b EXCEPT !.partial = TRUE, !.size = s, !.l[i] = r] OBVIOUS
<1>12. c = lseek(c1, s)
  <2>1. [b EXCEPT !.partial = TRUE, !.size = b.size + ChunkHead,
                  !.l[b.idx] = [name |-> "00dc", type |-> "", offs |-> b.size]] = c1
    BY <1>6, <1>7, <1>8, <1>9, <1>10, <1>11, Zenon
  <2>2. b.size + ChunkHead = s BY <1>7, <1>8
  <2> QED BY <1>1, <2>1, <2>2, Zenon DEF avi_file_data_create
<1>13. Record(b) BY <1>5, Zenon DEF IsHandle, Record
<1>14. PICK l : l = [b.l EXCEPT ![i] = r] OBVIOUS
<1>15. b.l \in [0 .. MaxIdx -> Opens] BY <1>5, Zenon DEF IsHandle
<1>16. l \in [0 .. MaxIdx -> Opens] /\ l[i] = r /\ \A d \in 0 .. MaxIdx : d # i => l[d] = b.l[d]
  BY <1>14, <1>15
<1>17. c1 = [b EXCEPT !.partial = TRUE, !.size = s, !.l = l] BY <1>11, <1>14, Zenon
<1>18. /\ Record(c1) /\ c1.file = b.file /\ c1.pos = b.pos /\ c1.size = s /\ c1.idx = b.idx /\ c1.l = l
       /\ c1.partial = TRUE /\ c1.align = b.align /\ c1.movi_offs = b.movi_offs
  BY <1>13, <1>17 DEF Record
<1>19. IsHandle(c1)
  <2>1. /\ b.file = [end |-> b.file.end, hdr |-> b.file.hdr] /\ b.file.end \in Nat /\ b.pos \in Int
        /\ b.idx \in 0 .. MaxIdx /\ b.movi_offs \in Nat /\ {b.partial, b.align} \subseteq BOOLEAN
    BY <1>5, Zenon DEF IsHandle
  <2>2. {TRUE, b.align} \subseteq BOOLEAN BY <2>1
  <2> QED BY <1>16, <1>18, <2>1, <2>2, Zenon DEF IsHandle, Record
<1>20. /\ IsHandle(c) /\ Same(c1, c) /\ c.file = c1.file /\ c.size = c1.size /\ c.pos = s
       /\ c.partial = c1.partial
  <2>1. s \in Int OBVIOUS
  <2> QED BY <1>12, <1>19, <2>1, SeekIs
<1>21. c.idx = b.idx /\ c.l = l /\ c.movi_offs = b.movi_offs /\ c.file = b.file /\ c.size = s /\ c.partial
  BY <1>18, <1>20, Zenon DEF Same
<1>22. Stays(b, c)
  <2>1. c.file.end >= b.file.end BY <1>5, <1>21
  <2>2. ASSUME NEW d \in 0 .. b.idx - 1 PROVE d \in 0 .. MaxIdx /\ d # i
    <3>1. MaxIdx \in Nat BY AviFileAssumption
    <3> QED BY <1>10, <3>1
  <2> QED BY <1>5, <1>16, <1>20, <1>21, <2>1, <2>2, Zenon DEF Stays
<1>23. Core(c, w, at) BY <1>5, <1>22, CoreStays
<1>24. Begun(c, w, at)
  <2>1. c.l[c.idx].offs = p /\ c.l[c.idx].name = "00dc" BY <1>6, <1>9, <1>10, <1>16, <1>21, Zenon
  <2>2. c.idx >= 2 /\ c.size >= p + ChunkHead /\ c.pos = c.size /\ ~(c.size > p + ChunkHead)
    <3>1. c.idx >= 2 BY <1>4, <1>21, Zenon
    <3>2. c.pos = c.size BY <1>20, <1>21, Zenon
    <3>3. s >= p + ChunkHead /\ ~(s > p + ChunkHead) BY <1>8 DEF ChunkHead
    <3> QED BY <1>21, <3>1, <3>2, <3>3, Zenon
  <2> QED BY <1>5, <1>7, <2>1, <2>2, Zenon DEF Begun
<1>25. c.file.end <= c.size
  <2>1. b.file.end <= s BY <1>5, <1>7, <1>8 DEF ChunkHead
  <2> QED BY <1>21, <2>1, Zenon
<1>26. Opened(c, w, at) BY <1>21, <1>23, <1>24, <1>25, Zenon DEF Opened
<1>27. Said(c, w) = Append(w, Element(a, "00dc")) BY <1>4, <1>21, Zenon DEF Said, Element
<1>28. c.movi_offs = a.movi_offs /\ Kept(a.file.hdr, c.file.hdr) BY <1>3, <1>21, Zenon DEF Calls, Same
<1> QED BY <1>26, <1>27, <1>28, Zenon DEF Ready

(* avi_file_data_append.                                                    *)
LEMMA DataReady ==
    ASSUME NEW a, NEW w, Ready(a, w), a.partial, NEW n \in Nat, NEW c, c = avi_file_data_append(a, n)
    PROVE  Ready(c, w) /\ Calls(a, c)
<1>1. PICK W, at : Opened(a, W, at) /\ w = Said(a, W) BY Zenon DEF Ready
<1>2. Core(a, W, at) /\ a.file.end <= a.size /\ IsHandle(a) /\ Begun(a, W, at) BY <1>1, Zenon DEF Opened, Core
<1>3. W \in Seq(Elements) /\ Placed(a.file.hdr, W, at) BY <1>2, Zenon DEF Core, Nested
<1>4. PICK p \in Nat : p = at[Len(W) + 1]
  <2>1. Len(W) + 1 \in 1 .. Len(W) + 1 BY <1>3
  <2> QED BY <1>3, <2>1, PlaceIs
<1>5. /\ a.idx >= 2 /\ a.l[a.idx].offs = p /\ a.l[a.idx].name = "00dc"
      /\ a.size >= p + ChunkHead /\ a.pos = a.size
      /\ a.size > p + ChunkHead => a.file.end >= a.size
  BY <1>2, <1>4, Zenon DEF Begun
<1>6. PICK q \in Nat : q = a.size /\ q >= p + ChunkHead
  <2>1. a.size \in Nat BY <1>2, Zenon DEF IsHandle
  <2> QED BY <1>5, <2>1, Zenon
<1>7. PICK s \in Nat : s = q + n OBVIOUS
<1>8. PICK c1 : c1 = write(a, Data, n) OBVIOUS
<1>9. /\ IsHandle(c1) /\ Same(a, c1) /\ c1.size = q /\ c1.partial = a.partial
      /\ c1.pos = s /\ c1.file.hdr = a.file.hdr
      /\ c1.file.end \in Nat /\ c1.file.end >= a.file.end /\ c1.file.end >= s
      /\ c1.file.end = a.file.end \/ c1.file.end = s
  <2>1. n \in Nat /\ a.pos \in Nat /\ a.pos = q BY <1>5, <1>6, Zenon
  <2>2. IsHandle(a) BY <1>2
  <2>3. /\ IsHandle(c1) /\ Same(a, c1) /\ c1.size = a.size /\ c1.partial = a.partial
        /\ c1.pos = a.pos + n /\ c1.file.hdr = a.file.hdr
    BY <1>8, <2>1, <2>2, DataIs
  <2>4. /\ c1.file.end \in Nat /\ c1.file.end >= a.file.end /\ c1.file.end >= a.pos + n
        /\ c1.file.end = a.file.end \/ c1.file.end = a.pos + n
    BY <1>8, <2>1, <2>2, DataIs
  <2>5. a.pos + n = s BY <1>7, <2>1, Zenon
  <2> QED BY <1>6, <2>3, <2>4, <2>5, Zenon
<1>10. c = [c1 EXCEPT !.size = s] BY <1>6, <1>7, <1>8, <1>9, Zenon DEF avi_file_data_append
<1>11. Record(c1) BY <1>9, Zenon DEF IsHandle, Record
<1>12. /\ Record(c) /\ c.file = c1.file /\ c.pos = c1.pos /\ c.size = s /\ c.idx = c1.idx /\ c.l = c1.l
       /\ c.partial = c1.partial /\ c.align = c1.align /\ c.movi_offs = c1.movi_offs
  BY <1>10, <1>11 DEF Record
<1>13. IsHandle(c)
  <2>1. c1.partial \in BOOLEAN /\ c1.align \in BOOLEAN /\ c1.pos \in Int BY <1>9 DEF IsHandle
  <2>2. c.partial \in BOOLEAN /\ c.align \in BOOLEAN /\ c.pos \in Int /\ c.size \in Nat BY <1>12, <2>1, Zenon
  <2> QED BY <1>9, <1>12, <2>2, HandleIs
<1>14. Same(a, c) /\ c.file.hdr = a.file.hdr /\ c.partial BY <1>9, <1>12, Zenon DEF Same
<1>15. a.file.end \in Nat /\ c.file.end \in Nat /\ c.file.end >= a.file.end /\ c.file.end >= s /\ c.file.end <= s
  <2>1. a.file.end \in Nat BY <1>2, Zenon DEF IsHandle
  <2>2. a.file.end <= s BY <1>2, <1>6, <1>7, <2>1
  <2>3. c1.file.end <= s BY <1>9, <2>2
  <2> QED BY <1>9, <1>12, <2>1, <2>3, Zenon
<1>16. Stays(a, c) BY <1>2, <1>13, <1>14, <1>15, Zenon DEF Stays, Same
<1>17. Core(c, W, at) BY <1>2, <1>16, CoreStays
<1>18. Begun(c, W, at)
  <2>1. c.idx = a.idx /\ c.l = a.l BY <1>14, Zenon DEF Same
  <2>2. s >= p + ChunkHead BY <1>6, <1>7 DEF ChunkHead
  <2> QED BY <1>4, <1>5, <1>9, <1>12, <1>15, <2>1, <2>2, Zenon DEF Begun
<1>19. Opened(c, W, at) BY <1>12, <1>14, <1>15, <1>17, <1>18, Zenon DEF Opened
<1>20. Said(c, W) = Said(a, W) BY <1>14, Zenon DEF Said, Same
<1>21. Calls(a, c) BY <1>14, KeptSame
<1> QED BY <1>1, <1>19, <1>20, <1>21, Zenon DEF Ready

(* A chunk behind which the descriptor is moved.                            *)
Moves(b, c, fcc, n) ==
    /\ IsHandle(c) /\ Same(b, c) /\ c.file.hdr = Put(b.file.hdr, b.size, ChunkHeader(fcc, n)) /\ ~c.partial
    /\ c.file.end >= b.file.end /\ c.file.end >= b.size + ChunkHead
    /\ fcc # "JUNK" => c.file.end >= b.size + ChunkHead + n
    /\ c.file.end = b.file.end \/ c.file.end = b.size + ChunkHead \/ c.file.end = b.size + ChunkHead + n
    /\ c.size = Even(b.size + ChunkHead + n) /\ c.pos = c.size /\ c.align = FALSE
(* A chunk that is written at the end with a seek: the file is ready.       *)
LEMMA MovedReady ==
    ASSUME NEW b, NEW W, NEW at, Settled(b, W, at), b.idx >= 2,
           NEW fcc \in ChunkNames, NEW n \in Nat, NEW c, Moves(b, c, fcc, n)
    PROVE  Ready(c, Append(W, Element(b, fcc))) /\ Calls(b, c)
<1>1. /\ Core(b, W, at) /\ IsHandle(b) /\ W \in Seq(Elements) /\ Placed(b.file.hdr, W, at)
      /\ b.size = at[Len(W) + 1] /\ b.size \in Nat /\ IsEven(b.size)
      /\ b.file.end \in Nat /\ b.file.end <= b.size /\ ~b.partial
  BY SettledIs
<1>3. PICK N \in Nat : N = Len(W) BY <1>1
<1>4. PICK p \in Nat : p = at[N + 1] /\ p = b.size /\ IsEven(p) BY <1>1, <1>3
<1>5. /\ IsHandle(c) /\ Same(b, c) /\ c.file.hdr = Put(b.file.hdr, p, ChunkHeader(fcc, n)) /\ ~c.partial
      /\ c.file.end >= b.file.end /\ c.file.end >= p + ChunkHead
      /\ fcc # "JUNK" => c.file.end >= p + ChunkHead + n
      /\ c.size = Even(p + ChunkHead + n) /\ c.pos = c.size /\ c.align = FALSE
  BY <1>4, Zenon DEF Moves
<1>6. c.file.end = b.file.end \/ c.file.end = p + ChunkHead \/ c.file.end = p + ChunkHead + n
  BY <1>4, Zenon DEF Moves
<1>7. c.size = p + ChunkHead + Even(n)
  <2>1. Even(p + ChunkHead + n) = p + ChunkHead + Even(n) BY <1>4, EvenBehind
  <2> QED BY <1>5, <2>1, Zenon
<1>8. c.file.end <= c.size
  <2>1. PICK m \in Nat : m = Even(n) /\ n <= m BY EvenIs
  <2>2. b.file.end <= p BY <1>1, <1>4
  <2>3. PICK q \in Nat : q = c.size /\ q = p + ChunkHead + m
    <3>1. p + ChunkHead + m \in Nat BY DEF ChunkHead
    <3>2. c.size = p + ChunkHead + m BY <1>7, <2>1, Zenon
    <3> QED BY <3>1, <3>2, Zenon
  <2>4. c.file.end <= q BY <1>1, <1>6, <2>1, <2>2, <2>3 DEF ChunkHead
  <2> QED BY <2>3, <2>4, Zenon
<1>9. AddsChunk(b, c, at[N + 1], fcc, n)
  <2>1. c.idx = b.idx /\ c.l = b.l /\ c.movi_offs = b.movi_offs BY <1>5, Zenon DEF Same
  <2> QED BY <1>4, <1>5, <2>1, Zenon DEF AddsChunk
<1>10. c.pos = IF c.align THEN c.size - 1 ELSE c.size BY <1>5, Zenon
<1>12. ~c.partial BY <1>5, Zenon
<1>13. c.size = at[N + 1] + ChunkHead + Even(n) BY <1>4, <1>7, Zenon
<1>11. /\ \E bt : Settled(c, Append(W, [level |-> b.idx, name |-> fcc]), bt)
       /\ Kept(b.file.hdr, c.file.hdr)
  BY <1>1, <1>3, <1>8, <1>9, <1>10, <1>12, <1>13, ChunkAdded
<1> QED BY <1>5, <1>11, SettledReady, Zenon DEF Element, Calls

(* avi_file_chunk_append_fake.                                              *)
LEMMA FakeReady ==
    ASSUME NEW a, NEW w, Ready(a, w), Inner(a),
           NEW fcc \in ChunkNames, NEW n \in Nat, NEW c, c = avi_file_chunk_append_fake(a, fcc, n)
    PROVE  Ready(c, Append(w, Element(a, fcc))) /\ Calls(a, c)
<1>1. PICK b : b = avi_file_data_last(a) OBVIOUS
<1>2. PICK at : Settled(b, w, at) BY <1>1, LastReady, Zenon
<1>3. Calls(a, b) BY <1>1, LastReady, Zenon
<1>4. b.idx >= 2 /\ b.idx = a.idx BY <1>2, <1>3, DeepLast
<1>5. IsHandle(b) /\ b.size \in Nat /\ b.file.end \in Nat /\ ~b.partial BY <1>2, SettledIs
<1>6. PICK p \in Nat : p = b.size BY <1>5
<1>7. PICK head : head = ChunkHeader(fcc, n) OBVIOUS
<1>8. Named(head) BY <1>7, HeadersNamed
<1>9. PICK b1 : b1 = lseek(b, p) OBVIOUS
<1>10. PICK b2 : b2 = write(b1, head, ChunkHead) OBVIOUS
<1>11. PICK b3 : b3 = write(b2, Data, n) OBVIOUS
<1>12. PICK m \in Nat : m = n + ChunkHead BY DEF ChunkHead
<1>13. PICK b4 : b4 = avi_ajust_size_and_seek(b3, m) OBVIOUS
<1>14. c = b4 BY <1>1, <1>6, <1>7, <1>9, <1>10, <1>11, <1>12, <1>13, Zenon DEF avi_file_chunk_append_fake
<1>15. IsHandle(b1) /\ Same(b, b1) /\ b1.file = b.file /\ b1.size = b.size /\ b1.pos = p /\ b1.partial = b.partial
  <2>1. p \in Int OBVIOUS
  <2> QED BY <1>5, <1>9, <2>1, SeekIs
<1>16. /\ IsHandle(b2) /\ Same(b1, b2) /\ b2.size = b1.size /\ b2.partial = b1.partial
       /\ b2.pos = p + ChunkHead /\ b2.file.hdr = Put(b1.file.hdr, p, head)
       /\ b2.file.end \in Nat /\ b2.file.end >= b1.file.end /\ b2.file.end >= p + ChunkHead
       /\ b2.file.end = b1.file.end \/ b2.file.end = p + ChunkHead
  <2>1. ChunkHead \in Nat /\ b1.pos \in Nat BY <1>15 DEF ChunkHead
  <2> QED BY <1>8, <1>10, <1>15, <2>1, WriteIs
<1>17. PICK q \in Nat : q = p + ChunkHead BY DEF ChunkHead
<1>18. /\ IsHandle(b3) /\ Same(b2, b3) /\ b3.size = b2.size /\ b3.partial = b2.partial
       /\ b3.file.hdr = b2.file.hdr
       /\ b3.file.end \in Nat /\ b3.file.end >= b2.file.end /\ b3.file.end >= q + n
       /\ b3.file.end = b2.file.end \/ b3.file.end = q + n
  <2>1. n \in Nat /\ b2.pos \in Nat /\ b2.pos = q /\ IsHandle(b2) BY <1>16, <1>17
  <2>3. /\ IsHandle(b3) /\ Same(b2, b3) /\ b3.size = b2.size /\ b3.partial = b2.partial
        /\ b3.file.hdr = b2.file.hdr
    BY <1>11, <2>1, DataIs
  <2>4. /\ b3.file.end \in Nat /\ b3.file.end >= b2.file.end /\ b3.file.end >= b2.pos + n
        /\ b3.file.end = b2.file.end \/ b3.file.end = b2.pos + n
    BY <1>11, <2>1, DataIs
  <2> QED BY <2>1, <2>3, <2>4, Zenon
<1>19. /\ IsHandle(b4) /\ Same(b3, b4) /\ b4.file = b3.file /\ b4.partial = b3.partial
       /\ b4.size = Even(b3.size + m) /\ b4.pos = b4.size /\ b4.align = FALSE
  <2>1. m \in Nat /\ IsHandle(b3) BY <1>18
  <2> QED BY <1>13, <2>1, AdjustIs
<1>20. Moves(b, b4, fcc, n)
  <2>1. Same(b, b4) BY <1>15, <1>16, <1>18, <1>19, Zenon DEF Same
  <2>2. b4.file.hdr = Put(b.file.hdr, b.size, ChunkHeader(fcc, n)) /\ ~b4.partial
    BY <1>5, <1>6, <1>7, <1>15, <1>16, <1>18, <1>19, Zenon
  <2>3. b4.file.end = b3.file.end /\ b1.file.end = b.file.end BY <1>15, <1>19, Zenon
  <2>4. /\ b4.file.end >= b.file.end /\ b4.file.end >= p + ChunkHead /\ b4.file.end >= p + ChunkHead + n
        /\ b4.file.end = b.file.end \/ b4.file.end = p + ChunkHead \/ b4.file.end = p + ChunkHead + n
    BY <1>5, <1>16, <1>17, <1>18, <2>3 DEF ChunkHead
  <2>5. b4.size = Even(b.size + ChunkHead + n)
    <3>1. b3.size = p BY <1>6, <1>15, <1>16, <1>18, Zenon
    <3>2. p + m = p + ChunkHead + n BY <1>12 DEF ChunkHead
    <3> QED BY <1>6, <1>19, <3>1, <3>2, Zenon
  <2> QED BY <1>6, <1>19, <2>1, <2>2, <2>4, <2>5, Zenon DEF Moves
<1>21. Ready(b4, Append(w, Element(b, fcc))) /\ Calls(b, b4) BY <1>2, <1>4, <1>20, MovedReady
<1>22. Element(b, fcc) = Element(a, fcc) BY <1>4, Zenon DEF Element
<1>23. Calls(a, b4) BY <1>3, <1>21, CallsOn
<1> QED BY <1>14, <1>21, <1>22, <1>23, Zenon

(* avi_file_chunk_align.                                                    *)
LEMMA AlignReady ==
    ASSUME NEW a, NEW w, Ready(a, w), Inner(a), NEW n \in Nat \ {0}, NEW c, c = avi_file_chunk_align(a, n)
    PROVE  /\ Ready(c, IF c.size # avi_file_data_last(a).size THEN Append(w, Element(a, "JUNK")) ELSE w)
           /\ Calls(a, c)
<1>1. PICK d : d = avi_file_data_last(a) OBVIOUS
<1>2. PICK at : Settled(d, w, at) BY <1>1, LastReady, Zenon
<1>3. Calls(a, d) BY <1>1, LastReady, Zenon
<1>4. d.idx >= 2 /\ d.idx = a.idx BY <1>2, <1>3, DeepLast
<1>5. PICK b : b = avi_align_pos(d) OBVIOUS
<1>6. /\ IsHandle(d) /\ d.size \in Nat /\ d.file.end \in Nat /\ ~d.partial
      /\ d.pos = IF d.align THEN d.size - 1 ELSE d.size
  BY <1>2, SettledIs
<1>7. /\ IsHandle(b) /\ Same(d, b) /\ b.file = d.file /\ b.partial = d.partial /\ b.size = d.size
      /\ b.align = FALSE
  BY <1>5, <1>6, AlignIs
<1>8. b.pos = b.size
  <2>1. b.pos = IF d.align THEN d.size ELSE d.pos BY <1>5, <1>6, AlignIs
  <2> QED BY <1>6, <1>7, <2>1, Zenon
<1>9. Settled(b, w, at)
  <2>1. /\ Core(d, w, at) /\ d.file.end <= d.size /\ Between(d, w, at) BY <1>2, Zenon DEF Settled
  <2>2. d.file.end >= d.file.end BY <1>6
  <2>3. Stays(d, b) BY <1>6, <1>7, <2>2, Zenon DEF Stays, Same
  <2>4. Core(b, w, at) BY <2>1, <2>3, CoreStays
  <2>5. Between(b, w, at) BY <1>7, <1>8, <2>1, Zenon DEF Between
  <2> QED BY <1>6, <1>7, <2>1, <2>4, <2>5, Zenon DEF Settled
<1>10. Calls(d, b) BY <1>7, KeptSame
<1>11. Calls(a, b) BY <1>3, <1>10, CallsOn
<1>12. CASE b.size % n = 0
  <2>1. c = b BY <1>1, <1>5, <1>12, Zenon DEF avi_file_chunk_align
  <2>2. c.size = d.size BY <1>7, <2>1, Zenon
  <2> QED BY <1>1, <1>9, <1>11, <2>1, <2>2, SettledReady, Zenon
<1>13. CASE b.size % n # 0
  <2>1. PICK p \in Nat : p = b.size BY <1>6, <1>7
  <2>2. PICK junk \in Nat : junk = n - ((p + ChunkHead) % n)
    <3>1. p + ChunkHead \in Nat BY DEF ChunkHead
    <3>2. (p + ChunkHead) % n \in 0 .. n - 1 BY <3>1
    <3>3. n - ((p + ChunkHead) % n) \in Nat BY <3>2
    <3> QED BY <3>3
  <2>3. PICK fcc \in ChunkNames : fcc = "JUNK" BY DEF ChunkNames
  <2>4. PICK head : head = ChunkHeader(fcc, junk) OBVIOUS
  <2>5. Named(head) BY <2>4, HeadersNamed
  <2>6. PICK b2 : b2 = write(b, head, ChunkHead) OBVIOUS
  <2>7. PICK m \in Nat : m = ChunkHead + junk BY DEF ChunkHead
  <2>8. PICK b4 : b4 = avi_ajust_size_and_seek(b2, m) OBVIOUS
  <2>9. c = b4 BY <1>1, <1>5, <1>13, <2>1, <2>2, <2>3, <2>4, <2>6, <2>7, <2>8, Zenon DEF avi_file_chunk_align
  <2>10. /\ IsHandle(b2) /\ Same(b, b2) /\ b2.size = b.size /\ b2.partial = b.partial
         /\ b2.file.hdr = Put(b.file.hdr, p, head)
         /\ b2.file.end \in Nat /\ b2.file.end >= b.file.end /\ b2.file.end >= p + ChunkHead
         /\ b2.file.end = b.file.end \/ b2.file.end = p + ChunkHead
    <3>1. ChunkHead \in Nat /\ b.pos = p /\ b.pos \in Nat BY <1>8, <2>1 DEF ChunkHead
    <3>2. IsHandle(b) BY <1>7
    <3> QED BY <2>5, <2>6, <3>1, <3>2, WriteIs
  <2>11. /\ IsHandle(b4) /\ Same(b2, b4) /\ b4.file = b2.file /\ b4.partial = b2.partial
         /\ b4.size = Even(b2.size + m) /\ b4.pos = b4.size /\ b4.align = FALSE
    <3>1. m \in Nat /\ IsHandle(b2) BY <2>10
    <3> QED BY <2>8, <3>1, AdjustIs
  <2>12. p + m = p + ChunkHead + junk BY <2>7 DEF ChunkHead
  <2>13. Moves(b, b4, fcc, junk)
    <3>1. Same(b, b4) BY <2>10, <2>11, Zenon DEF Same
    <3>2. b4.file.hdr = Put(b.file.hdr, b.size, ChunkHeader(fcc, junk)) /\ ~b4.partial
      BY <1>6, <1>7, <2>1, <2>4, <2>10, <2>11, Zenon
    <3>3. b4.size = Even(b.size + ChunkHead + junk) BY <2>1, <2>10, <2>11, <2>12, Zenon
    <3>4. /\ b4.file.end >= b.file.end /\ b4.file.end >= b.size + ChunkHead
          /\ b4.file.end = b.file.end \/ b4.file.end = b.size + ChunkHead \/ b4.file.end = b.size + ChunkHead + junk
      BY <2>1, <2>10, <2>11, Zenon
    <3> QED BY <2>3, <2>11, <3>1, <3>2, <3>3, <3>4, Zenon DEF Moves
  <2>14. b.idx = a.idx /\ b.idx >= 2 BY <1>4, <1>7, Zenon DEF Same
  <2>15. Ready(b4, Append(w, Element(b, fcc))) /\ Calls(b, b4) BY <1>9, <2>13, <2>14, MovedReady
  <2>16. b4.size # d.size
    <3>1. b4.size = Even(p + ChunkHead + junk) BY <2>1, <2>10, <2>11, <2>12, Zenon
    <3>2. PICK q \in Nat : q = p + ChunkHead + junk /\ q > p BY DEF ChunkHead
    <3>3. PICK r \in Nat : r = Even(q) /\ q <= r BY EvenIs
    <3>4. r # p BY <3>2, <3>3
    <3> QED BY <1>7, <2>1, <3>1, <3>2, <3>3, <3>4, Zenon
  <2>17. Element(b, fcc) = Element(a, "JUNK") BY <2>3, <2>14, Zenon DEF Element
  <2>18. Calls(a, b4) BY <1>11, <2>15, CallsOn
  <2> QED BY <1>1, <2>9, <2>15, <2>16, <2>17, <2>18, Zenon
<1> QED BY <1>12, <1>13

(* avi_file_list_open.                                                      *)
Openable(a, w, fcc, type) ==
    /\ a.idx < MaxIdx /\ type \in ListNames /\ \A k \in 1 .. Len(w) : w[k].name # type
    /\ IF w = <<>> THEN fcc = Riff /\ type = "AVI "
       ELSE fcc = List /\ a.idx >= 1 /\ a.l[a.idx - 1].type # "movi"
MoviPlace(a, fcc, type, p) == IF fcc = List /\ type = "movi" THEN p + ChunkHead ELSE a.movi_offs
ListIs(a, c, w, type) ==
    /\ Ready(c, Append(w, Element(a, type))) /\ Kept(a.file.hdr, c.file.hdr)
    /\ c.idx = a.idx + 1 /\ c.l[a.idx].type = type /\ \A d \in 0 .. a.idx - 1 : c.l[d] = a.l[d]
    /\ type # "movi" => c.movi_offs = a.movi_offs
(* While nothing is written no list is open.                                *)
LEMMA NothingOpen ==
    ASSUME NEW a, NEW at, Core(a, <<>>, at)
    PROVE  a.idx = 0
<1>1. PICK i \in Nat : i = a.idx BY DEF Core, IsHandle
<1>2. ASSUME i # 0 PROVE FALSE
  <2>1. 0 \in 0 .. a.idx - 1 BY <1>1, <1>2
  <2>2. PICK o \in 1 .. Len(<<>>) : IsOpen(a, <<>>, at, 0, o) BY <2>1, Zenon DEF Core
  <2> QED BY <2>2
<1> QED BY <1>1, <1>2

(* The list that is opened is an element, and the innermost list.           *)
LEMMA ListReady ==
    ASSUME NEW a, NEW w, Ready(a, w), NEW fcc, NEW type, Openable(a, w, fcc, type),
           NEW c, c = avi_file_list_open(a, fcc, type)
    PROVE  ListIs(a, c, w, type)
<1>1. PICK b : b = avi_file_data_last(a) OBVIOUS
<1>2. PICK at : Settled(b, w, at) BY <1>1, LastReady, Zenon
<1>3. Calls(a, b) BY <1>1, LastReady, Zenon
<1>4. b.idx = a.idx /\ b.l = a.l /\ b.movi_offs = a.movi_offs BY <1>3, Zenon DEF Calls, Same
<1>5. /\ Core(b, w, at) /\ IsHandle(b) /\ w \in Seq(Elements) /\ Placed(b.file.hdr, w, at)
      /\ b.size = at[Len(w) + 1] /\ b.size \in Nat
      /\ b.file.end \in Nat /\ b.file.end <= b.size /\ ~b.partial
  BY <1>2, SettledIs
<1>6. b.pos = IF b.align THEN b.size - 1 ELSE b.size BY <1>2, SettledIs, Zenon
<1>7. PICK N \in Nat : N = Len(w) BY <1>5
<1>8. PICK p \in Nat : p = b.size /\ p = at[N + 1] BY <1>5, <1>7
<1>9. PICK i \in 0 .. MaxIdx : i = a.idx /\ i = b.idx BY <1>4, <1>5 DEF IsHandle
<1>10. type \in ListNames /\ fcc \in {Riff, List} /\ a.idx < MaxIdx BY Zenon DEF Openable
<1>11. PICK head : head = ListHeader([name |-> fcc, type |-> type, offs |-> p], 0) OBVIOUS
<1>12. head = [name |-> fcc, type |-> type, size |-> 0] BY <1>11 DEF ListHeader
<1>13. Named(head) BY <1>10, <1>12, HeadersNamed
<1>14. PICK b1 : b1 = avi_align_pos(b) OBVIOUS
<1>15. PICK b2 : b2 = write(b1, head, ListHead) OBVIOUS
<1>16. PICK s \in Nat : s = p + ListHead BY DEF ListHead
<1>17. PICK m : m = MoviPlace(a, fcc, type, p) OBVIOUS
<1>18. PICK r : r = [name |-> fcc, type |-> type, offs |-> p] OBVIOUS
<1>19. r \in Opens /\ r.name = fcc /\ r.type = type /\ r.offs = p BY <1>10, <1>18 DEF Opens
<1>20. IsHandle(b1) /\ Same(b, b1) /\ b1.file = b.file /\ b1.partial = b.partial /\ b1.size = p /\ b1.pos = p
  <2>1. IsHandle(b1) /\ Same(b, b1) /\ b1.file = b.file /\ b1.partial = b.partial /\ b1.size = b.size
    BY <1>5, <1>14, AlignIs
  <2>2. b1.pos = IF b.align THEN b.size ELSE b.pos BY <1>5, <1>14, AlignIs
  <2> QED BY <1>6, <1>8, <2>1, <2>2, Zenon
<1>36. b1.align = FALSE BY <1>5, <1>14, AlignIs
<1>21. /\ IsHandle(b2) /\ Same(b1, b2) /\ b2.size = p /\ b2.partial = b1.partial /\ b2.align = b1.align
       /\ b2.pos = s /\ b2.file.hdr = Put(b1.file.hdr, p, head)
       /\ b2.file.end \in Nat /\ b2.file.end >= b1.file.end /\ b2.file.end >= s
       /\ b2.file.end = b1.file.end \/ b2.file.end = s
  <2>1. ListHead \in Nat /\ b1.pos \in Nat /\ IsHandle(b1) BY <1>20 DEF ListHead
  <2>2. /\ IsHandle(b2) /\ Same(b1, b2) /\ b2.size = b1.size /\ b2.partial = b1.partial /\ b2.align = b1.align
        /\ b2.pos = b1.pos + ListHead /\ b2.file.hdr = Put(b1.file.hdr, b1.pos, head)
    BY <1>13, <1>15, <2>1, WriteIs
  <2>3. /\ b2.file.end \in Nat /\ b2.file.end >= b1.file.end /\ b2.file.end >= b1.pos + ListHead
        /\ b2.file.end = b1.file.end \/ b2.file.end = b1.pos + ListHead
    BY <1>13, <1>15, <2>1, WriteIs
  <2> QED BY <1>16, <1>20, <2>2, <2>3, Zenon
<1>22. PICK c1 : c1 = [b2 EXCEPT !.l[i] = r, !.idx = i + 1, !.size = s, !.movi_offs = m] OBVIOUS
<1>23. c = c1
  <2>1. b2.idx = i /\ b2.size = p /\ b2.movi_offs = a.movi_offs BY <1>4, <1>9, <1>20, <1>21, Zenon DEF Same
  <2>2. (IF fcc = "LIST" /\ type = "movi" THEN b2.size + ListHead - 4 ELSE b2.movi_offs) = m
    <3>1. p + ListHead - 4 = p + ChunkHead BY DEF ListHead, ChunkHead
    <3> QED BY <1>17, <2>1, <3>1, Zenon DEF MoviPlace, List
  <2>3. c = [b2 EXCEPT !.l[a.idx] = [name |-> fcc, type |-> type, offs |-> b.size], !.idx = b2.idx + 1,
                     !.size = b2.size + ListHead,
                     !.movi_offs = IF fcc = "LIST" /\ type = "movi" THEN b2.size + ListHead - 4
                                   ELSE b2.movi_offs]
    <3>1. ~(a.idx >= MaxIdx)
      <4>1. MaxIdx \in Nat /\ a.idx \in Nat BY <1>9, AviFileAssumption
      <4> QED BY <1>10, <4>1
    <3> QED BY <1>1, <1>8, <1>11, <1>14, <1>15, <3>1, Zenon DEF avi_file_list_open
  <2> QED BY <1>8, <1>9, <1>16, <1>18, <1>22, <2>1, <2>2, <2>3, Zenon
<1>24. PICK l : l = [b2.l EXCEPT ![i] = r] OBVIOUS
<1>25. b2.l = a.l BY <1>4, <1>20, <1>21, Zenon DEF Same
<1>26. a.l \in [0 .. MaxIdx -> Opens] BY <1>4, <1>5, Zenon DEF IsHandle
<1>27. l \in [0 .. MaxIdx -> Opens] /\ l[i] = r /\ \A d \in 0 .. MaxIdx : d # i => l[d] = a.l[d]
  BY <1>19, <1>24, <1>25, <1>26
<1>28. c1 = [b2 EXCEPT !.l = l, !.idx = i + 1, !.size = s, !.movi_offs = m] BY <1>22, <1>24, Zenon
<1>29. /\ Record(c1) /\ c1.file = b2.file /\ c1.pos = b2.pos /\ c1.size = s /\ c1.idx = i + 1 /\ c1.l = l
       /\ c1.partial = b2.partial /\ c1.align = b2.align /\ c1.movi_offs = m
  <2>1. Record(b2) BY <1>21, Zenon DEF IsHandle, Record
  <2> QED BY <1>28, <2>1 DEF Record
<1>30. IsHandle(c1)
  <2>1. /\ b2.file = [end |-> b2.file.end, hdr |-> b2.file.hdr] /\ b2.file.end \in Nat /\ b2.pos \in Int
        /\ {b2.partial, b2.align} \subseteq BOOLEAN /\ a.movi_offs \in Nat
    BY <1>4, <1>5, <1>21, Zenon DEF IsHandle
  <2>2. m \in Nat
    <3>1. p + ChunkHead \in Nat BY DEF ChunkHead
    <3> QED BY <1>17, <2>1, <3>1, Zenon DEF MoviPlace
  <2>3. i + 1 \in 0 .. MaxIdx BY <1>9, <1>10, AviFileAssumption
  <2> QED BY <1>27, <1>29, <2>1, <2>2, <2>3, Zenon DEF IsHandle, Record
<1>31. \A d \in 0 .. a.idx - 1 : c1.l[d] = a.l[d]
  <2>1. ASSUME NEW d \in 0 .. a.idx - 1 PROVE d \in 0 .. MaxIdx /\ d # i BY <1>9, AviFileAssumption
  <2> QED BY <1>27, <1>29, <2>1, Zenon
<1>32. c1.file.hdr = Put(b.file.hdr, at[N + 1], [name |-> fcc, type |-> type, size |-> 0])
  BY <1>8, <1>12, <1>20, <1>21, <1>29, Zenon
<1>33. c1.file.end >= b.file.end /\ c1.file.end >= at[N + 1] + ListHead /\ c1.file.end <= s
  <2>1. c1.file.end = b2.file.end /\ b1.file.end = b.file.end BY <1>20, <1>29, Zenon
  <2>2. b.file.end <= s BY <1>5, <1>8, <1>16 DEF ListHead
  <2>3. b2.file.end <= s BY <1>5, <1>21, <2>1, <2>2
  <2> QED BY <1>8, <1>16, <1>21, <2>1, <2>3, Zenon
<1>34. AddsList(b, c1, w, at[N + 1], fcc, type)
  <2>1. IF w = <<>> THEN fcc = Riff /\ type = "AVI " /\ b.idx = 0
        ELSE fcc = List /\ b.idx >= 1 /\ b.l[b.idx - 1].type # "movi"
    <3>1. CASE w = <<>>
      <4>1. b.idx = 0 BY <1>5, <3>1, NothingOpen, Zenon
      <4> QED BY <3>1, <4>1, Zenon DEF Openable
    <3>2. CASE w # <<>> BY <1>4, <3>2, Zenon DEF Openable
    <3> QED BY <3>1, <3>2
  <2>2. c1.l[b.idx].name = fcc /\ c1.l[b.idx].type = type /\ c1.l[b.idx].offs = at[N + 1]
    BY <1>8, <1>9, <1>19, <1>27, <1>29, Zenon
  <2>3. c1.movi_offs = IF fcc = List /\ type = "movi" THEN at[N + 1] + ChunkHead ELSE b.movi_offs
    BY <1>4, <1>8, <1>17, <1>29, Zenon DEF MoviPlace
  <2>4. \A d \in 0 .. b.idx - 1 : c1.l[d] = b.l[d] BY <1>4, <1>31, Zenon
  <2>5. c1.idx = b.idx + 1 BY <1>9, <1>29, Zenon
  <2>6. \A k \in 1 .. Len(w) : w[k].name # type BY Zenon DEF Openable
  <2> QED BY <1>10, <1>30, <1>32, <1>33, <2>1, <2>2, <2>3, <2>4, <2>5, <2>6, Zenon DEF AddsList
<1>35. PICK V, bt : V = Append(w, [level |-> b.idx, name |-> type]) /\ bt = Longer(at, N, at[N + 1] + ListHead)
  OBVIOUS
<1>37. Core(c1, V, bt) BY <1>5, <1>7, <1>34, <1>35, CoreList
<1>38. Settled(c1, V, bt)
  <2>1. Len(V) = N + 1 BY <1>5, <1>7, <1>35, AppendProperties
  <2>2. bt[N + 2] = s BY <1>8, <1>16, <1>35 DEF Longer
  <2>3. bt[Len(V) + 1] = s BY <2>1, <2>2
  <2>4. c1.size = s /\ c1.pos = s /\ ~c1.align /\ ~c1.partial BY <1>5, <1>20, <1>21, <1>29, <1>36, Zenon
  <2>5. Between(c1, V, bt) BY <2>3, <2>4, Zenon DEF Between
  <2> QED BY <1>33, <1>37, <2>4, <2>5, Zenon DEF Settled
<1>39. Ready(c1, Append(w, Element(a, type))) BY <1>4, <1>35, <1>38, SettledReady, Zenon DEF Element
<1>40. Kept(a.file.hdr, c1.file.hdr)
  <2>1. Kept(b.file.hdr, c1.file.hdr) BY <1>5, <1>7, <1>32, KeptPut
  <2>2. Kept(a.file.hdr, b.file.hdr) BY <1>3, Zenon DEF Calls
  <2>3. PICK f, g, h : f = a.file.hdr /\ g = b.file.hdr /\ h = c1.file.hdr OBVIOUS
  <2>4. Kept(f, g) /\ Kept(g, h) BY <2>1, <2>2, <2>3, Zenon
  <2>5. Kept(f, h) BY <2>4 DEF Kept
  <2> QED BY <2>3, <2>5, Zenon
<1>41. type # "movi" => c1.movi_offs = a.movi_offs BY <1>17, <1>29, Zenon DEF MoviPlace
<1>42. c1.l[a.idx].type = type /\ c1.idx = a.idx + 1 BY <1>9, <1>19, <1>27, <1>29, Zenon
<1> QED BY <1>23, <1>31, <1>39, <1>40, <1>41, <1>42, Zenon DEF ListIs

(* Headers that are kept twice are kept.                                    *)
LEMMA KeptOn ==
    ASSUME NEW f, NEW g, NEW h, Kept(f, g), Kept(g, h)
    PROVE  Kept(f, h)
BY DEF Kept

(* avi_file_list_close.                                                     *)
Closing(a, c, w) ==
    /\ \E bt : Settled(c, w, bt)
    /\ c.idx = a.idx - 1 /\ c.l = a.l /\ c.movi_offs = a.movi_offs /\ Kept(a.file.hdr, c.file.hdr)
(* A list is closed, and the piecewise chunk in it before.                  *)
LEMMA CloseReady ==
    ASSUME NEW a, NEW w, Ready(a, w), a.idx >= 1, NEW c, c = avi_file_list_close(a)
    PROVE  Closing(a, c, w)
<1>1. PICK b : b = avi_file_data_last(a) OBVIOUS
<1>2. PICK at : Settled(b, w, at) BY <1>1, LastReady, Zenon
<1>3. Calls(a, b) BY <1>1, LastReady, Zenon
<1>4. b.idx = a.idx /\ b.l = a.l /\ b.movi_offs = a.movi_offs BY <1>3, Zenon DEF Calls, Same
<1>5. /\ Core(b, w, at) /\ IsHandle(b) /\ w \in Seq(Elements) /\ Placed(b.file.hdr, w, at)
      /\ b.size = at[Len(w) + 1] /\ b.size \in Nat
      /\ b.file.end \in Nat /\ b.file.end <= b.size /\ ~b.partial
  BY <1>2, SettledIs
<1>7. PICK N \in Nat : N = Len(w) BY <1>5
<1>8. PICK p \in Nat : p = b.size /\ p = at[N + 1] BY <1>5, <1>7
<1>9. PICK i \in Nat : i + 1 = a.idx /\ i + 1 = b.idx /\ i \in 0 .. MaxIdx /\ a.idx - 1 = i
  <2>1. b.idx \in 0 .. MaxIdx BY <1>5, Zenon DEF IsHandle
  <2>2. b.idx >= 1 BY <1>4
  <2>3. b.idx - 1 \in Nat /\ b.idx - 1 + 1 = b.idx /\ b.idx - 1 \in 0 .. MaxIdx BY <2>1, <2>2, AviFileAssumption
  <2> QED BY <1>4, <2>3
<1>10. PICK l : l = b.l[i] OBVIOUS
<1>11. i \in 0 .. b.idx - 1 BY <1>9
<1>12. PICK o \in 1 .. N : IsOpen(b, w, at, i, o) BY <1>5, <1>7, <1>11, Zenon DEF Core
<1>13. at[o] = l.offs /\ w[o].name \in ListNames /\ l.type = w[o].name /\ l.name = b.file.hdr[at[o]].name
  BY <1>10, <1>12, Zenon DEF IsOpen
<1>14. l.name \in {Riff, List} /\ at[o + 1] = at[o] + ListHead
  <2>1. HeadFor(b.file.hdr[at[o]], w[o], o = 1, at[o], at[o + 1]) BY <1>5, <1>7, <1>12, Zenon DEF Placed
  <2> QED BY <1>13, <2>1, Zenon DEF HeadFor
<1>15. PICK q \in Nat : q = l.offs /\ q + ListHead <= p /\ q + ListHead \in Nat
  <2>1. o \in 1 .. Len(w) + 1 /\ o + 1 \in 1 .. Len(w) + 1 BY <1>7, <1>12
  <2>2. at[o] \in Nat BY <1>5, <2>1, PlaceIs
  <2>3. at[o + 1] <= at[Len(w) + 1] BY <1>5, <2>1, PlaceIs
  <2>4. at[o] + ListHead \in Nat BY <2>2 DEF ListHead
  <2> QED BY <1>7, <1>8, <1>13, <1>14, <2>2, <2>3, <2>4, Zenon
<1>16. PICK n : n = p - q - ChunkHead OBVIOUS
<1>17. PICK head : head = ListHeader(l, n) OBVIOUS
<1>18. head = [name |-> l.name, type |-> l.type, size |-> n] BY <1>17 DEF ListHeader
<1>19. Named(head) BY <1>14, <1>18, HeadersNamed
<1>20. PICK b1 : b1 = lseek(b, q) OBVIOUS
<1>21. PICK b2 : b2 = write(b1, head, ListHead) OBVIOUS
<1>22. PICK b3 : b3 = [b2 EXCEPT !.idx = i, !.align = FALSE] OBVIOUS
<1>23. PICK b4 : b4 = lseek(b3, p) OBVIOUS
<1>24. IsHandle(b1) /\ Same(b, b1) /\ b1.file = b.file /\ b1.size = b.size /\ b1.pos = q /\ b1.partial = b.partial
  <2>1. q \in Int /\ IsHandle(b) BY <1>5
  <2> QED BY <1>20, <2>1, SeekIs
<1>25. /\ IsHandle(b2) /\ Same(b1, b2) /\ b2.size = b1.size /\ b2.partial = b1.partial
       /\ b2.file.hdr = Put(b1.file.hdr, q, head)
       /\ b2.file.end \in Nat /\ b2.file.end >= b1.file.end
       /\ b2.file.end = b1.file.end \/ b2.file.end = q + ListHead
  <2>1. ListHead \in Nat /\ b1.pos = q /\ b1.pos \in Nat /\ IsHandle(b1) BY <1>24 DEF ListHead
  <2>2. /\ IsHandle(b2) /\ Same(b1, b2) /\ b2.size = b1.size /\ b2.partial = b1.partial
        /\ b2.file.hdr = Put(b1.file.hdr, b1.pos, head)
    BY <1>19, <1>21, <2>1, WriteIs
  <2>3. /\ b2.file.end \in Nat /\ b2.file.end >= b1.file.end
        /\ b2.file.end = b1.file.end \/ b2.file.end = b1.pos + ListHead
    BY <1>19, <1>21, <2>1, WriteIs
  <2> QED BY <2>1, <2>2, <2>3, Zenon
<1>26. c = b4
  <2>1. b2.idx - 1 = i BY <1>4, <1>9, <1>24, <1>25, Zenon DEF Same
  <2>2. c = lseek([b2 EXCEPT !.idx = b2.idx - 1, !.align = FALSE], b.size)
    <3>1. ~(a.idx <= 0) BY <1>9
    <3>2. b.idx - 1 = i BY <1>4, <1>9, Zenon
    <3> QED BY <1>1, <1>8, <1>10, <1>15, <1>16, <1>17, <1>20, <1>21, <3>1, <3>2, Zenon DEF avi_file_list_close
  <2> QED BY <1>8, <1>22, <1>23, <2>1, <2>2, Zenon
<1>27. /\ Record(b3) /\ b3.file = b2.file /\ b3.pos = b2.pos /\ b3.size = b2.size /\ b3.idx = i /\ b3.l = b2.l
       /\ b3.partial = b2.partial /\ b3.align = FALSE /\ b3.movi_offs = b2.movi_offs
  <2>1. Record(b2) BY <1>25, Zenon DEF IsHandle, Record
  <2> QED BY <1>22, <2>1 DEF Record
<1>28. IsHandle(b3)
  <2>1. /\ b2.file = [end |-> b2.file.end, hdr |-> b2.file.hdr] /\ b2.file.end \in Nat /\ b2.pos \in Int
        /\ b2.size \in Nat /\ b2.l \in [0 .. MaxIdx -> Opens] /\ b2.movi_offs \in Nat
        /\ {b2.partial, b2.align} \subseteq BOOLEAN
    BY <1>25, Zenon DEF IsHandle
  <2>2. {b2.partial, FALSE} \subseteq BOOLEAN BY <2>1
  <2> QED BY <1>9, <1>27, <2>1, <2>2, Zenon DEF IsHandle, Record
<1>29. /\ IsHandle(b4) /\ Same(b3, b4) /\ b4.file = b3.file /\ b4.size = b3.size /\ b4.pos = p
       /\ b4.partial = b3.partial /\ b4.align = b3.align
  <2>1. p \in Int OBVIOUS
  <2> QED BY <1>23, <1>28, <2>1, SeekIs
<1>30. b4.idx = i /\ b4.l = a.l /\ b4.movi_offs = a.movi_offs /\ b4.size = p /\ ~b4.partial /\ ~b4.align
  BY <1>4, <1>5, <1>8, <1>24, <1>25, <1>27, <1>29, Zenon DEF Same
<1>31. b4.file.hdr = Put(b.file.hdr, q, head) BY <1>24, <1>25, <1>27, <1>29, Zenon
<1>32. b4.file.end >= b.file.end /\ b4.file.end <= p
  <2>1. b4.file.end = b2.file.end /\ b1.file.end = b.file.end BY <1>24, <1>27, <1>29, Zenon
  <2>2. b.file.end <= p BY <1>5, <1>8
  <2>3. b2.file.end <= p BY <1>15, <1>25, <2>1, <2>2
  <2> QED BY <1>25, <2>1, <2>3, Zenon
<1>33. Closes(b, b4, at[N + 1])
  <2>1. b.idx >= 1 /\ b.idx - 1 = i BY <1>9
  <2>2. b4.idx = b.idx - 1 BY <1>30, <2>1, Zenon
  <2>3. b4.movi_offs = b.movi_offs /\ \A d \in 0 .. b.idx - 2 : b4.l[d] = b.l[d] BY <1>4, <1>30, Zenon
  <2>4. b4.file.hdr = Put(b.file.hdr, b.l[b.idx - 1].offs,
            [name |-> b.l[b.idx - 1].name, type |-> b.l[b.idx - 1].type,
             size |-> at[N + 1] - b.l[b.idx - 1].offs - ChunkHead])
    BY <1>8, <1>10, <1>15, <1>16, <1>18, <1>31, <2>1, Zenon
  <2> QED BY <1>29, <1>32, <2>1, <2>2, <2>3, <2>4, Zenon DEF Closes
<1>34. /\ Core(b4, w, at)
       /\ \A x \in DOMAIN b.file.hdr :
             /\ x \in DOMAIN b4.file.hdr
             /\ b4.file.hdr[x].name = b.file.hdr[x].name /\ b4.file.hdr[x].type = b.file.hdr[x].type
  BY <1>5, <1>7, <1>33, CoreClose
<1>35. Settled(b4, w, at)
  <2>1. Between(b4, w, at) BY <1>7, <1>8, <1>29, <1>30, Zenon DEF Between
  <2> QED BY <1>30, <1>32, <1>34, <2>1, Zenon DEF Settled
<1>36. Kept(a.file.hdr, b4.file.hdr)
  <2>1. Kept(b.file.hdr, b4.file.hdr) BY <1>34, Zenon DEF Kept
  <2>2. Kept(a.file.hdr, b.file.hdr) BY <1>3, Zenon DEF Calls
  <2> QED BY <2>1, <2>2, KeptOn
<1>37. b4.idx = a.idx - 1 BY <1>9, <1>30, Zenon
<1> QED BY <1>26, <1>30, <1>35, <1>36, <1>37, Zenon DEF Closing

(* The handle after the last chunk has its size and n lists are closed.     *)
Shut(a, w, b, n) ==
    /\ \E at : Settled(b, w, at)
    /\ b.idx = a.idx - n /\ b.movi_offs = a.movi_offs /\ Kept(a.file.hdr, b.file.hdr)
Closings(a, c) ==
    c = [n \in 0 .. a.idx |-> IF n = 0 THEN avi_file_data_last(a) ELSE avi_file_list_close(c[n - 1])]

(* The function of avi_file_close exists.                                   *)
LEMMA FileCloseIs ==
    ASSUME NEW a, a.idx \in Nat
    PROVE  \E c : Closings(a, c) /\ avi_file_close(a) = c[a.idx]
<1>1. PICK L \in Nat : L = a.idx OBVIOUS
<1> DEFINE Till(m, c) ==
      c = [n \in 0 .. m |-> IF n = 0 THEN avi_file_data_last(a) ELSE avi_file_list_close(c[n - 1])]
    S == {m \in Nat : \E c : Till(m, c)}
<1>2. 0 \in S
  <2>1. PICK c : c = [n \in 0 .. 0 |-> avi_file_data_last(a)] OBVIOUS
  <2>2. Till(0, c) BY <2>1
  <2> QED BY <2>2
<1>3. ASSUME NEW m \in 0 .. L, m < L, m \in S PROVE m + 1 \in S
  <2>1. PICK c : Till(m, c) BY <1>3
  <2>2. PICK d : d = [n \in 0 .. m + 1 |-> IF n <= m THEN c[n] ELSE avi_file_list_close(c[m])]
    OBVIOUS
  <2>3. \A n \in 0 .. m : c[n] = IF n = 0 THEN avi_file_data_last(a) ELSE avi_file_list_close(c[n - 1])
    BY <2>1, Zenon
  <2>4. \A n \in 0 .. m : d[n] = c[n] BY <2>2
  <2>5. d[m + 1] = avi_file_list_close(c[m]) BY <2>2
  <2>6. ASSUME NEW n \in 0 .. m + 1
        PROVE  d[n] = IF n = 0 THEN avi_file_data_last(a) ELSE avi_file_list_close(d[n - 1])
    <3>1. CASE n = 0 BY <2>3, <2>4, <3>1
    <3>2. CASE n \in 1 .. m
      <4>1. n \in 0 .. m /\ n - 1 \in 0 .. m /\ n # 0 BY <3>2
      <4>2. d[n] = avi_file_list_close(c[n - 1]) BY <2>3, <2>4, <4>1
      <4> QED BY <2>4, <4>1, <4>2
    <3>3. CASE n = m + 1
      <4>1. n # 0 /\ n - 1 = m BY <3>3
      <4> QED BY <2>4, <2>5, <3>3, <4>1
    <3> QED BY <3>1, <3>2, <3>3
  <2>7. d = [n \in 0 .. m + 1 |-> IF n = 0 THEN avi_file_data_last(a) ELSE avi_file_list_close(d[n - 1])]
    BY <2>2, <2>6
  <2> QED BY <2>7
<1> HIDE DEF S
<1>4. L \in S
  <2>1. \A n \in 0 .. L : n \in S BY <1>2, <1>3, UpTo
  <2> QED BY <2>1
<1>5. \E c : Closings(a, c) BY <1>1, <1>4 DEF S, Closings
<1>6. PICK c : c = (CHOOSE d : Closings(a, d)) OBVIOUS
<1>7. Closings(a, c) BY <1>5, <1>6, Zenon
<1>8. avi_file_close(a) = (CHOOSE d : Closings(a, d))[a.idx]
  BY Zenon DEF avi_file_close, Closings
<1> QED BY <1>6, <1>7, <1>8, Zenon

(* avi_file_close: every list that is open gets its size.                   *)
LEMMA FileCloseReady ==
    ASSUME NEW a, NEW w, Ready(a, w), NEW c, c = avi_file_close(a)
    PROVE  /\ \E at : Settled(c, w, at)
           /\ c.idx = 0 /\ c.movi_offs = a.movi_offs /\ Kept(a.file.hdr, c.file.hdr)
<1>1. PICK i \in Nat : i = a.idx
  <2>1. PICK b : b = avi_file_data_last(a) OBVIOUS
  <2>2. IsHandle(a) BY <2>1, LastReady
  <2>3. a.idx \in 0 .. MaxIdx BY <2>2, Zenon DEF IsHandle
  <2> QED BY <2>3, AviFileAssumption
<1>2. PICK f : Closings(a, f) /\ avi_file_close(a) = f[a.idx] BY <1>1, FileCloseIs
<1>3. \A n \in 0 .. i : f[n] = IF n = 0 THEN avi_file_data_last(a) ELSE avi_file_list_close(f[n - 1])
  BY <1>1, <1>2, Zenon DEF Closings
<1>4. \A n \in 0 .. i : n # 0 => f[n] = avi_file_list_close(f[n - 1]) BY <1>3
<1>5. f[0] = avi_file_data_last(a) BY <1>3
<1> DEFINE S == {n \in 0 .. i : Shut(a, w, f[n], n)}
<1>6. 0 \in S
  <2>1. PICK b : b = f[0] OBVIOUS
  <2>2. (\E at : Settled(b, w, at)) /\ Calls(a, b) BY <1>5, <2>1, LastReady, Zenon
  <2>3. b.idx = a.idx /\ b.movi_offs = a.movi_offs /\ Kept(a.file.hdr, b.file.hdr)
    BY <2>2, Zenon DEF Calls, Same
  <2>4. b.idx = a.idx - 0 BY <1>1, <2>3
  <2>5. Shut(a, w, b, 0) BY <2>2, <2>3, <2>4, Zenon DEF Shut
  <2> QED BY <2>1, <2>5
<1>7. ASSUME NEW n \in 0 .. i, n < i, n \in S PROVE n + 1 \in S
  <2>1. PICK b : b = f[n] OBVIOUS
  <2>2. Shut(a, w, b, n) BY <1>7, <2>1
  <2>3. PICK d : d = avi_file_list_close(b) OBVIOUS
  <2>4. PICK at : Settled(b, w, at) BY <2>2, Zenon DEF Shut
  <2>5. Ready(b, w) BY <2>4, SettledReady
  <2>6. b.idx = i - n /\ b.movi_offs = a.movi_offs /\ Kept(a.file.hdr, b.file.hdr)
    BY <1>1, <2>2, Zenon DEF Shut
  <2>7. b.idx >= 1 BY <1>7, <2>6
  <2>8. Closing(b, d, w) BY <2>3, <2>5, <2>7, CloseReady
  <2>9. /\ \E bt : Settled(d, w, bt)
        /\ d.idx = b.idx - 1 /\ d.movi_offs = b.movi_offs /\ Kept(b.file.hdr, d.file.hdr)
    BY <2>8, Zenon DEF Closing
  <2>10. d.idx = a.idx - (n + 1) BY <1>1, <2>6, <2>9
  <2>11. Kept(a.file.hdr, d.file.hdr) BY <2>6, <2>9, KeptOn
  <2>12. Shut(a, w, d, n + 1) BY <2>6, <2>9, <2>10, <2>11, Zenon DEF Shut
  <2>13. n + 1 \in 0 .. i /\ n + 1 # 0 /\ n + 1 - 1 = n BY <1>7
  <2>14. f[n + 1] = d BY <1>4, <2>1, <2>3, <2>13
  <2> QED BY <2>12, <2>13, <2>14
<1> HIDE DEF S
<1>8. i \in S
  <2>1. \A n \in 0 .. i : n \in S BY <1>6, <1>7, UpTo
  <2> QED BY <2>1
<1>9. Shut(a, w, c, i) BY <1>1, <1>2, <1>8, Zenon DEF S
<1>10. c.idx = 0
  <2>1. c.idx = i - i BY <1>1, <1>9, Zenon DEF Shut
  <2> QED BY <2>1
<1> QED BY <1>9, <1>10, Zenon DEF Shut

----------------------------------------------------------------------------
(* The entries of the index                                                 *)

IndexEntries == [off : Int, whole : BOOLEAN]
Points(a, e) ==
    LET o == a.movi_offs + e.off IN o \in DOMAIN a.file.hdr /\ a.file.hdr[o].name = "01wb"
Indexed(a, s) == \A i \in 1 .. Len(s) : s[i].whole => Points(a, s[i])
HasMovi(w) == \E k \in 1 .. Len(w) : w[k].name = "movi"
Begins(w, v) == \A k \in 1 .. Len(w) : k \in 1 .. Len(v) /\ v[k] = w[k]
FilePart(a, w, s) ==
    /\ Ready(a, w) /\ s \in Seq(IndexEntries) /\ Indexed(a, s)
    /\ s # <<>> => HasMovi(w)

(* What is written is a list of elements.                                   *)
LEMMA SaidIs ==
    ASSUME NEW a, NEW w, Ready(a, w)
    PROVE  w \in Seq(Elements) /\ IsHandle(a)
<1>1. PICK W, at : Opened(a, W, at) /\ w = Said(a, W) BY Zenon DEF Ready
<1>2. W \in Seq(Elements) /\ IsHandle(a) BY <1>1, Zenon DEF Opened, Core, Nested
<1>3. a.partial => [level |-> a.idx, name |-> "00dc"] \in Elements
  <2>1. ASSUME a.partial PROVE a.idx \in Nat
    <3>1. a.idx \in 0 .. MaxIdx BY <1>2, Zenon DEF IsHandle
    <3> QED BY <3>1, AviFileAssumption
  <2> QED BY <2>1 DEF Elements, ChunkNames
<1>4. w \in Seq(Elements)
  <2>1. CASE a.partial
    <3>1. PICK e : e = [level |-> a.idx, name |-> "00dc"] OBVIOUS
    <3>2. e \in Elements /\ w = Append(W, e) BY <1>1, <1>3, <2>1, <3>1, Zenon DEF Said
    <3> QED BY <1>2, <3>2, AppendProperties
  <2>2. CASE ~a.partial BY <1>1, <1>2, <2>2, Zenon DEF Said
  <2> QED BY <2>1, <2>2
<1> QED BY <1>2, <1>4

(* What was written before an element is written after it too.              *)
LEMMA BeginsMore ==
    ASSUME NEW w \in Seq(Elements), NEW e \in Elements
    PROVE  Begins(w, w) /\ Begins(w, Append(w, e))
<1>1. Begins(w, w) BY DEF Begins
<1>2. PICK v : v = Append(w, e) OBVIOUS
<1>3. PICK N \in Nat : N = Len(w) OBVIOUS
<1>4. Len(v) = N + 1 /\ \A k \in 1 .. N : v[k] = w[k] BY <1>2, <1>3, AppendProperties
<1>5. Begins(w, v) BY <1>3, <1>4 DEF Begins
<1> QED BY <1>1, <1>2, <1>5

(* A call that leaves the movi list where it is leaves the entries right.   *)
LEMMA PartOn ==
    ASSUME NEW a, NEW w, NEW s, FilePart(a, w, s), NEW c, NEW v, Ready(c, v),
           Kept(a.file.hdr, c.file.hdr), Begins(w, v),
           s = <<>> \/ c.movi_offs = a.movi_offs
    PROVE  FilePart(c, v, s)
<1>1. s \in Seq(IndexEntries) /\ Indexed(a, s) /\ (s # <<>> => HasMovi(w)) BY Zenon DEF FilePart
<1>2. Indexed(c, s)
  <2>1. CASE s = <<>>
    <3>1. Len(s) = 0 BY <2>1
    <3> QED BY <3>1 DEF Indexed
  <2>2. CASE c.movi_offs = a.movi_offs
    <3>1. ASSUME NEW i \in 1 .. Len(s), s[i].whole PROVE Points(c, s[i])
      <4>1. Points(a, s[i]) BY <1>1, <3>1, Zenon DEF Indexed
      <4>2. PICK o : o = a.movi_offs + s[i].off OBVIOUS
      <4>3. o \in DOMAIN a.file.hdr /\ a.file.hdr[o].name = "01wb" BY <4>1, <4>2, Zenon DEF Points
      <4>4. o \in DOMAIN c.file.hdr /\ c.file.hdr[o].name = a.file.hdr[o].name BY <4>3, Zenon DEF Kept
      <4> QED BY <2>2, <4>2, <4>3, <4>4, Zenon DEF Points
    <3> QED BY <3>1, Zenon DEF Indexed
  <2> QED BY <2>1, <2>2
<1>3. s # <<>> => HasMovi(v)
  <2>1. ASSUME HasMovi(w) PROVE HasMovi(v)
    <3>1. PICK k \in 1 .. Len(w) : w[k].name = "movi" BY <2>1, Zenon DEF HasMovi
    <3>2. k \in 1 .. Len(v) /\ v[k] = w[k] BY <3>1, Zenon DEF Begins
    <3> QED BY <3>1, <3>2, Zenon DEF HasMovi
  <2> QED BY <1>1, <2>1
<1> QED BY <1>1, <1>2, <1>3, Zenon DEF FilePart

(* An entry of a whole chunk is added.                                      *)
LEMMA PartEntry ==
    ASSUME NEW a, NEW w, NEW s, FilePart(a, w, s), NEW e, e \in IndexEntries,
           HasMovi(w), e.whole => Points(a, e)
    PROVE  FilePart(a, w, Append(s, e))
<1>1. s \in Seq(IndexEntries) /\ Indexed(a, s) /\ Ready(a, w) BY Zenon DEF FilePart
<1>2. PICK t : t = Append(s, e) OBVIOUS
<1>3. PICK N \in Nat : N = Len(s) BY <1>1
<1>4. t \in Seq(IndexEntries) /\ Len(t) = N + 1 /\ t[N + 1] = e /\ \A i \in 1 .. N : t[i] = s[i]
  BY <1>1, <1>2, <1>3, AppendProperties
<1>5. Indexed(a, t)
  <2>1. ASSUME NEW i \in 1 .. Len(t), t[i].whole PROVE Points(a, t[i])
    <3>1. CASE i = N + 1 BY <1>4, <2>1, <3>1, Zenon
    <3>2. CASE i # N + 1
      <4>1. i \in 1 .. N BY <1>4, <3>2
      <4> QED BY <1>1, <1>3, <1>4, <2>1, <4>1, Zenon DEF Indexed
    <3> QED BY <3>1, <3>2
  <2> QED BY <2>1, Zenon DEF Indexed
<1> QED BY <1>1, <1>2, <1>4, <1>5, Zenon DEF FilePart

(* The movi list is the only one of its type, and its type is where the     *)
(* offsets of the index are counted from.                                   *)
LEMMA MoviIs ==
    ASSUME NEW a, NEW w, Ready(a, w), HasMovi(w),
           NEW p, p \in DOMAIN a.file.hdr, a.file.hdr[p].type = "movi"
    PROVE  p \in Nat /\ p + ChunkHead = a.movi_offs
<1>1. PICK W, at : Opened(a, W, at) /\ w = Said(a, W) BY Zenon DEF Ready
<1>2. Core(a, W, at) BY <1>1, Zenon DEF Opened
<1>3. Nested(W) /\ Rules(W) /\ Placed(a.file.hdr, W, at) /\ W \in Seq(Elements) BY <1>2, Zenon DEF Core, Nested
<1>4. PICK k \in 1 .. Len(W) : p = at[k] BY <1>3, Zenon DEF Placed
<1>5. HeadFor(a.file.hdr[at[k]], W[k], k = 1, at[k], at[k + 1]) BY <1>3, Zenon DEF Placed
<1>6. W[k].name = "movi"
  <2>1. "movi" # "" OBVIOUS
  <2> QED BY <1>4, <1>5, <2>1, Zenon DEF HeadFor
<1>7. p \in Nat
  <2>1. k \in 1 .. Len(W) + 1 BY <1>3
  <2> QED BY <1>3, <1>4, <2>1, PlaceIs
<1>8. a.movi_offs = at[k] + ChunkHead BY <1>2, <1>6, Zenon DEF Core
<1> QED BY <1>4, <1>7, <1>8, Zenon

(* When movi is among the elements its header is in the file.               *)
LEMMA MoviThere ==
    ASSUME NEW a, NEW w, Ready(a, w), HasMovi(w)
    PROVE  \E p \in DOMAIN a.file.hdr : a.file.hdr[p].name = List /\ a.file.hdr[p].type = "movi"
<1>1. PICK W, at : Opened(a, W, at) /\ w = Said(a, W) BY Zenon DEF Ready
<1>2. Core(a, W, at) BY <1>1, Zenon DEF Opened
<1>3. Nested(W) /\ Rules(W) /\ Placed(a.file.hdr, W, at) /\ W \in Seq(Elements) BY <1>2, Zenon DEF Core, Nested
<1>4. PICK N \in Nat : N = Len(W) BY <1>3
<1>5. PICK k \in 1 .. N : W[k].name = "movi"
  <2>1. PICK j \in 1 .. Len(w) : w[j].name = "movi" BY Zenon DEF HasMovi
  <2>2. CASE ~a.partial BY <1>1, <1>4, <2>1, <2>2, Zenon DEF Said
  <2>3. CASE a.partial
    <3>1. PICK e : e = [level |-> a.idx, name |-> "00dc"] OBVIOUS
    <3>2. w = Append(W, e) BY <1>1, <2>3, <3>1, Zenon DEF Said
    <3>3. PICK T : T = {W[n] : n \in 1 .. N} \cup {e} OBVIOUS
    <3>4. W \in Seq(T) /\ e \in T
      <4>1. W \in [1 .. N -> Elements] BY <1>3, <1>4
      <4>2. W \in [1 .. N -> T] BY <3>3, <4>1
      <4> QED BY <1>4, <3>3, <4>2
    <3>5. Len(w) = N + 1 /\ w[N + 1] = e /\ \A n \in 1 .. N : w[n] = W[n]
      BY <1>4, <3>2, <3>4, AppendProperties
    <3>6. j # N + 1
      <4>1. e.name # "movi" BY <3>1
      <4> QED BY <2>1, <3>5, <4>1, Zenon
    <3>7. j \in 1 .. N BY <3>5, <3>6
    <3> QED BY <2>1, <3>5, <3>7, Zenon
  <2> QED BY <2>2, <2>3
<1>6. k # 1
  <2>1. W # <<>> BY <1>4
  <2>2. W[1].name = "AVI " BY <1>3, <2>1, Zenon DEF Nested, First
  <2>3. "AVI " # "movi" OBVIOUS
  <2> QED BY <1>5, <2>2, <2>3, Zenon
<1>7. HeadFor(a.file.hdr[at[k]], W[k], k = 1, at[k], at[k + 1]) BY <1>3, <1>4, Zenon DEF Placed
<1>8. at[k] \in DOMAIN a.file.hdr BY <1>3, <1>4, Zenon DEF Placed
<1>9. a.file.hdr[at[k]].name = List /\ a.file.hdr[at[k]].type = "movi"
  <2>1. "movi" \in ListNames BY DEF ListNames
  <2> QED BY <1>5, <1>6, <1>7, <2>1, Zenon DEF HeadFor
<1> QED BY <1>8, <1>9, Zenon

----------------------------------------------------------------------------
(* The file of write_video                                                  *)

InMoviList(a) == a.idx = 2 /\ a.l[1].type = "movi"

(* An empty file, as avi_file_open makes it.                                *)
LEMMA EmptyReady ==
    ASSUME NEW a, a = avi_file_open
    PROVE  Ready(a, <<>>) /\ a.idx = 0 /\ a.movi_offs = 0 /\ ~a.partial
<1>1. PICK at : at = [k \in 1 .. 1 |-> 0] OBVIOUS
<1>2. PICK W : W = <<>> OBVIOUS
<1>3. Len(W) = 0 /\ W \in Seq(Elements) BY <1>2
<1>4. PICK r, f : r = [name |-> "", type |-> "", offs |-> 0] /\ f = EmptyFile OBVIOUS
<1>15. r \in Opens BY <1>4 DEF Opens
<1>16. f.end = 0 /\ f.hdr = <<>> /\ f = [end |-> f.end, hdr |-> f.hdr] BY <1>4 DEF EmptyFile
<1>17. PICK l : l = [i \in 0 .. MaxIdx |-> r] OBVIOUS
<1>18. l \in [0 .. MaxIdx -> Opens] BY <1>15, <1>17
<1>19. a = [file |-> f, pos |-> 0, size |-> 0, idx |-> 0, l |-> l,
            partial |-> FALSE, align |-> FALSE, movi_offs |-> 0]
  BY <1>4, <1>17, Zenon DEF avi_file_open
<1>20. /\ a.file = f /\ a.pos = 0 /\ a.size = 0 /\ a.idx = 0 /\ a.movi_offs = 0
       /\ a.partial = FALSE /\ a.align = FALSE /\ a.l = l /\ Record(a)
  BY <1>19 DEF Record
<1>5. a.file.end = 0 /\ a.file.hdr = <<>> BY <1>16, <1>20, Zenon
<1>6. IsHandle(a)
  <2>2. a.l \in [0 .. MaxIdx -> Opens] BY <1>18, <1>20, Zenon
  <2>3. /\ a.file.end \in Nat /\ a.pos \in Int /\ a.size \in Nat /\ a.idx \in 0 .. MaxIdx
        /\ {a.partial, a.align} \subseteq BOOLEAN /\ a.movi_offs \in Nat
    <3>1. /\ a.file.end \in Nat /\ a.pos \in Int /\ a.size \in Nat /\ a.movi_offs \in Nat
      BY <1>20, <1>5
    <3>2. a.idx \in 0 .. MaxIdx BY <1>20, AviFileAssumption
    <3>3. {a.partial, a.align} \subseteq BOOLEAN BY <1>20, Zenon
    <3> QED BY <3>1, <3>2, <3>3
  <2> QED BY <1>16, <1>20, <2>2, <2>3, Zenon DEF IsHandle, Record
<1>7. Nested(W)
  <2>1. \A k \in 1 .. Len(W) - 1 : Follows(W[k], W[k + 1]) BY <1>3
  <2> QED BY <1>2, <1>3, <2>1, Zenon DEF Nested
<1>8. Rules(W) BY <1>3 DEF Rules
<1>9. Placed(a.file.hdr, W, at)
  <2>1. PICK h : h = a.file.hdr OBVIOUS
  <2>2. DOMAIN h = {} /\ h \in [DOMAIN h -> Heads] BY <1>5, <2>1
  <2>3. at \in [1 .. Len(W) + 1 -> Nat] /\ at[1] = 0 /\ IsEven(at[1]) BY <1>1, <1>3 DEF IsEven
  <2>4. \A k \in 1 .. Len(W) + 1 : IsEven(at[k]) BY <1>1, <1>3, <2>3
  <2>5. \A j, k \in 1 .. Len(W) + 1 : j < k => at[j] + ChunkHead <= at[k] BY <1>3
  <2>6. DOMAIN h = {at[k] : k \in 1 .. Len(W)} BY <1>3, <2>2
  <2>7. \A k \in 1 .. Len(W) : HeadFor(h[at[k]], W[k], k = 1, at[k], at[k + 1]) BY <1>3
  <2> QED BY <2>1, <2>2, <2>3, <2>4, <2>5, <2>6, <2>7, Zenon DEF Placed
<1>10. Sized(a.file.hdr, W, at, a.idx) BY <1>3 DEF Sized
<1>11. Present(a.file, W, at) BY <1>3 DEF Present
<1>12. /\ \A d \in 0 .. a.idx - 1 : \E o \in 1 .. Len(W) : IsOpen(a, W, at, d, o)
       /\ \A k \in 1 .. Len(W) : W[k].name = "movi" => a.movi_offs = at[k] + ChunkHead
  BY <1>3, <1>20
<1>13. Core(a, W, at) BY <1>6, <1>7, <1>8, <1>9, <1>10, <1>11, <1>12, Zenon DEF Core
<1>14. Settled(a, W, at)
  <2>1. a.size = at[Len(W) + 1] BY <1>1, <1>3, <1>20
  <2>2. a.pos = a.size BY <1>20
  <2>3. a.file.end <= a.size BY <1>20, <1>5
  <2> QED BY <1>20, <1>13, <2>1, <2>2, <2>3, Zenon DEF Settled, Between
<1> QED BY <1>2, <1>20, <1>14, SettledReady, Zenon

(* A list may be opened in another when its type has not been written.      *)
HasRoom(a) == a.idx >= 1 /\ a.idx < MaxIdx /\ a.l[a.idx - 1].type # "movi"
Fresh(w, type) == w # <<>> /\ \A k \in 1 .. Len(w) : w[k].name # type
(* The list is the innermost one, and the lists around it are the same.     *)
LEMMA ListIn ==
    ASSUME NEW a, NEW w, Ready(a, w), NEW type, type \in ListNames, HasRoom(a), Fresh(w, type),
           NEW c, c = avi_file_list_open(a, List, type)
    PROVE  /\ Ready(c, Append(w, Element(a, type)))
           /\ c.idx = a.idx + 1 /\ c.l[a.idx].type = type /\ \A d \in 0 .. a.idx - 1 : c.l[d] = a.l[d]
<1>1. Openable(a, w, List, type) BY Zenon DEF Openable, HasRoom, Fresh
<1>2. ListIs(a, c, w, type) BY <1>1, ListReady
<1> QED BY <1>2, Zenon DEF ListIs

(* The names after another element.                                         *)
LEMMA FreshOn ==
    ASSUME NEW w \in Seq(Elements), NEW type, Fresh(w, type), NEW e, e \in Elements, e.name # type
    PROVE  Append(w, e) \in Seq(Elements) /\ Fresh(Append(w, e), type)
<1>1. PICK v : v = Append(w, e) OBVIOUS
<1>2. PICK N \in Nat : N = Len(w) OBVIOUS
<1>3. v \in Seq(Elements) /\ Len(v) = N + 1 /\ v[N + 1] = e /\ \A k \in 1 .. N : v[k] = w[k]
  BY <1>1, <1>2, AppendProperties
<1>4. \A k \in 1 .. Len(v) : v[k].name # type
  <2>1. ASSUME NEW k \in 1 .. Len(v) PROVE v[k].name # type
    <3>1. CASE k = N + 1 BY <1>3, <3>1, Zenon
    <3>2. CASE k # N + 1
      <4>1. k \in 1 .. N BY <1>3, <3>2
      <4> QED BY <1>2, <1>3, <4>1, Zenon DEF Fresh
    <3> QED BY <3>1, <3>2
  <2> QED BY <2>1
<1>5. v # <<>> BY <1>3
<1> QED BY <1>1, <1>3, <1>4, <1>5, Zenon DEF Fresh

(* A list and one more.                                                     *)
LEMMA AppendIs ==
    ASSUME NEW T, NEW s \in Seq(T), NEW e \in T, NEW N \in Nat, N = Len(s), NEW t, t = Append(s, e)
    PROVE  t \in Seq(T) /\ Len(t) = N + 1 /\ t[N + 1] = e /\ \A k \in 1 .. N : t[k] = s[k]
BY AppendProperties

(* The lists and headers a film begins with; then the movi list is open.    *)
LEMMA VideoHeadReady ==
    ASSUME NEW h, VideoHead(h)
    PROVE  Ready(h, HeadElements) /\ InMoviList(h)
<1>1. PICK t1, t2, t3, t4, n1, n2, n3 :
         /\ t1 = "AVI " /\ t2 = "hdrl" /\ t3 = "strl" /\ t4 = "movi"
         /\ n1 = "avih" /\ n2 = "strh" /\ n3 = "strf"
  OBVIOUS
<1>2. {t1, t2, t3, t4} \subseteq ListNames /\ {n1, n2, n3} \subseteq ChunkNames
  BY <1>1 DEF ListNames, ChunkNames
<1>3. /\ t1 # t2 /\ t1 # t3 /\ t1 # t4 /\ t2 # t3 /\ t2 # t4 /\ t3 # t4
      /\ n1 # t3 /\ n1 # t4 /\ n2 # t4 /\ n3 # t4
  BY <1>1
<1>4. PICK a1, a2, a3, a4, a5, a6, a7, a8 :
         /\ a1 = avi_file_list_open(avi_file_open, Riff, "AVI ")
         /\ a2 = avi_file_list_open(a1, List, "hdrl")
         /\ a3 = avi_file_chunk_append(a2, "avih", HeaderLen)
         /\ a4 = avi_file_list_open(a3, List, "strl")
         /\ a5 = avi_file_chunk_append(a4, "strh", HeaderLen)
         /\ a6 = avi_file_chunk_append(a5, "strf", HeaderLen)
         /\ a7 = avi_file_list_close(a6)
         /\ a8 = avi_file_list_close(a7)
         /\ h = avi_file_list_open(a8, List, "movi")
  <2>1. PICK b1 : b1 = avi_file_list_open(avi_file_open, Riff, "AVI ") OBVIOUS
  <2>2. PICK b2 : b2 = avi_file_list_open(b1, List, "hdrl") OBVIOUS
  <2>3. PICK b3 : b3 = avi_file_chunk_append(b2, "avih", HeaderLen) OBVIOUS
  <2>4. PICK b4 : b4 = avi_file_list_open(b3, List, "strl") OBVIOUS
  <2>5. PICK b5 : b5 = avi_file_chunk_append(b4, "strh", HeaderLen) OBVIOUS
  <2>6. PICK b6 : b6 = avi_file_chunk_append(b5, "strf", HeaderLen) OBVIOUS
  <2>7. PICK b7 : b7 = avi_file_list_close(b6) OBVIOUS
  <2>8. PICK b8 : b8 = avi_file_list_close(b7) OBVIOUS
  <2>9. h = avi_file_list_open(b8, List, "movi")
    <3>4. \E riff \in {b1} : \E hdrl \in {avi_file_list_open(riff, List, "hdrl")} :
          \E avih \in {avi_file_chunk_append(hdrl, "avih", HeaderLen)} :
          \E strl \in {avi_file_list_open(avih, List, "strl")} :
          \E strh \in {avi_file_chunk_append(strl, "strh", HeaderLen)} :
          \E strf \in {avi_file_chunk_append(strh, "strf", HeaderLen)} :
          \E noStrl \in {avi_file_list_close(strf)} : \E noHdrl \in {avi_file_list_close(noStrl)} :
            h = avi_file_list_open(noHdrl, List, "movi")
      BY <2>1, Zenon DEF VideoHead
    <3>1. \E hdrl \in {b2} : \E avih \in {avi_file_chunk_append(hdrl, "avih", HeaderLen)} :
          \E strl \in {avi_file_list_open(avih, List, "strl")} :
          \E strh \in {avi_file_chunk_append(strl, "strh", HeaderLen)} :
          \E strf \in {avi_file_chunk_append(strh, "strf", HeaderLen)} :
          \E noStrl \in {avi_file_list_close(strf)} : \E noHdrl \in {avi_file_list_close(noStrl)} :
            h = avi_file_list_open(noHdrl, List, "movi")
      <4>1. PICK riff \in {b1} : \E hdrl \in {avi_file_list_open(riff, List, "hdrl")} :
          \E avih \in {avi_file_chunk_append(hdrl, "avih", HeaderLen)} :
          \E strl \in {avi_file_list_open(avih, List, "strl")} :
          \E strh \in {avi_file_chunk_append(strl, "strh", HeaderLen)} :
          \E strf \in {avi_file_chunk_append(strh, "strf", HeaderLen)} :
          \E noStrl \in {avi_file_list_close(strf)} : \E noHdrl \in {avi_file_list_close(noStrl)} :
            h = avi_file_list_open(noHdrl, List, "movi")
        BY <3>4, Zenon
      <4>2. riff = b1 OBVIOUS
      <4>3. avi_file_list_open(riff, List, "hdrl") = b2 BY <2>2, <4>2, Zenon
      <4> QED BY <4>1, <4>3, Zenon
    <3>2. \E strl \in {b4} : \E strh \in {avi_file_chunk_append(strl, "strh", HeaderLen)} :
          \E strf \in {avi_file_chunk_append(strh, "strf", HeaderLen)} :
          \E noStrl \in {avi_file_list_close(strf)} : \E noHdrl \in {avi_file_list_close(noStrl)} :
            h = avi_file_list_open(noHdrl, List, "movi")
      BY <2>3, <2>4, <3>1, Zenon
    <3>3. \E strf \in {b6} :
          \E noStrl \in {avi_file_list_close(strf)} : \E noHdrl \in {avi_file_list_close(noStrl)} :
            h = avi_file_list_open(noHdrl, List, "movi")
      BY <2>5, <2>6, <3>2, Zenon
    <3> QED BY <2>7, <2>8, <3>3, Zenon
  <2> QED BY <2>1, <2>2, <2>3, <2>4, <2>5, <2>6, <2>7, <2>8, <2>9, Zenon
<1>5. PICK a0 : a0 = avi_file_open OBVIOUS
<1>6. /\ a1 = avi_file_list_open(a0, Riff, t1) /\ a2 = avi_file_list_open(a1, List, t2)
      /\ a3 = avi_file_chunk_append(a2, n1, HeaderLen) /\ a4 = avi_file_list_open(a3, List, t3)
      /\ a5 = avi_file_chunk_append(a4, n2, HeaderLen) /\ a6 = avi_file_chunk_append(a5, n3, HeaderLen)
      /\ h = avi_file_list_open(a8, List, t4)
  BY <1>1, <1>4, <1>5, Zenon
<1>7. PICK e1, e2, e3, e4, e5, e6, e7 :
         /\ e1 = [level |-> 0, name |-> t1] /\ e2 = [level |-> 1, name |-> t2]
         /\ e3 = [level |-> 2, name |-> n1] /\ e4 = [level |-> 2, name |-> t3]
         /\ e5 = [level |-> 3, name |-> n2] /\ e6 = [level |-> 3, name |-> n3]
         /\ e7 = [level |-> 1, name |-> t4]
  OBVIOUS
<1>8. /\ e1.name = t1 /\ e2.name = t2 /\ e3.name = n1 /\ e4.name = t3 /\ e5.name = n2 /\ e6.name = n3
      /\ {e1, e2, e3, e4, e5, e6} \subseteq Elements /\ e7 \in Elements
  BY <1>2, <1>7 DEF Elements
<1>9. PICK w1 : w1 = <<e1>> OBVIOUS
<1>10. PICK w2 : w2 = Append(w1, e2) OBVIOUS
<1>11. PICK w3 : w3 = Append(w2, e3) OBVIOUS
<1>12. PICK w4 : w4 = Append(w3, e4) OBVIOUS
<1>13. PICK w5 : w5 = Append(w4, e5) OBVIOUS
<1>14. PICK w6 : w6 = Append(w5, e6) OBVIOUS
<1>15. PICK w7 : w7 = Append(w6, e7) OBVIOUS
<1>16. w7 = HeadElements
  <2>1. w7 = <<e1, e2, e3, e4, e5, e6, e7>>
    <3>1. e1 \in Elements /\ e2 \in Elements /\ e3 \in Elements /\ e4 \in Elements /\ e5 \in Elements
          /\ e6 \in Elements /\ e7 \in Elements
      BY <1>8
    <3>2. w1 \in Seq(Elements) /\ Len(w1) = 1 /\ w1[1] = e1 BY <1>9, <3>1
    <3>3. w2 \in Seq(Elements) /\ Len(w2) = 2 /\ w2[1] = e1 /\ w2[2] = e2
      <4>1. 1 \in Nat /\ 1 + 1 = 2 /\ 1 \in 1 .. 1 OBVIOUS
      <4>2. PICK N \in Nat : N = 1 /\ N = Len(w1) BY <3>2
      <4>3. w2 \in Seq(Elements) /\ Len(w2) = N + 1 /\ w2[N + 1] = e2 /\ \A k \in 1 .. N : w2[k] = w1[k]
        BY <1>10, <3>1, <3>2, <4>2, AppendIs
      <4> QED BY <3>2, <4>1, <4>2, <4>3
    <3>4. w3 \in Seq(Elements) /\ Len(w3) = 3 /\ w3[1] = e1 /\ w3[2] = e2 /\ w3[3] = e3
      BY <1>11, <3>1, <3>3, AppendIs
    <3>5. w4 \in Seq(Elements) /\ Len(w4) = 4 /\ w4[1] = e1 /\ w4[2] = e2 /\ w4[3] = e3 /\ w4[4] = e4
      BY <1>12, <3>1, <3>4, AppendIs
    <3>6. /\ w5 \in Seq(Elements) /\ Len(w5) = 5 /\ w5[1] = e1 /\ w5[2] = e2 /\ w5[3] = e3 /\ w5[4] = e4
          /\ w5[5] = e5
      BY <1>13, <3>1, <3>5, AppendIs
    <3>7. /\ w6 \in Seq(Elements) /\ Len(w6) = 6 /\ w6[1] = e1 /\ w6[2] = e2 /\ w6[3] = e3 /\ w6[4] = e4
          /\ w6[5] = e5 /\ w6[6] = e6
      BY <1>14, <3>1, <3>6, AppendIs
    <3>8. /\ w7 \in Seq(Elements) /\ Len(w7) = 7 /\ w7[1] = e1 /\ w7[2] = e2 /\ w7[3] = e3 /\ w7[4] = e4
          /\ w7[5] = e5 /\ w7[6] = e6 /\ w7[7] = e7
      BY <1>15, <3>1, <3>7, AppendIs
    <3> QED BY <3>8
  <2> QED BY <1>1, <1>7, <2>1, Zenon DEF HeadElements
<1>17. /\ Fresh(w1, t2) /\ Fresh(w3, t3) /\ Fresh(w6, t4)
  <2>1. w1 \in Seq(Elements) /\ w1 # <<>> /\ Len(w1) = 1 /\ w1[1] = e1 BY <1>8, <1>9
  <2>2. Fresh(w1, t2) /\ Fresh(w1, t3) /\ Fresh(w1, t4)
    <3>1. \A k \in 1 .. Len(w1) : w1[k] = e1 BY <2>1
    <3> QED BY <1>3, <1>8, <2>1, <3>1, Zenon DEF Fresh
  <2>3. w2 \in Seq(Elements) /\ Fresh(w2, t3) /\ Fresh(w2, t4) BY <1>3, <1>8, <1>10, <2>1, <2>2, FreshOn
  <2>4. w3 \in Seq(Elements) /\ Fresh(w3, t3) /\ Fresh(w3, t4) BY <1>3, <1>8, <1>11, <2>3, FreshOn
  <2>5. w4 \in Seq(Elements) /\ Fresh(w4, t4) BY <1>3, <1>8, <1>12, <2>4, FreshOn
  <2>6. w5 \in Seq(Elements) /\ Fresh(w5, t4) BY <1>3, <1>8, <1>13, <2>5, FreshOn
  <2>7. w6 \in Seq(Elements) /\ Fresh(w6, t4) BY <1>3, <1>8, <1>14, <2>6, FreshOn
  <2> QED BY <2>2, <2>4, <2>7
<1>20. MaxIdx \in Nat /\ MaxIdx >= 3 BY AviFileAssumption, ViewerAssumption
<1>21. HeaderLen \in Nat BY AviUseAssumption
<1>24. Ready(a0, <<>>) /\ a0.idx = 0 BY <1>5, EmptyReady
<1>25. Ready(a1, w1) /\ a1.idx = 1 /\ a1.l[0].type = t1
  <2>1. Openable(a0, <<>>, Riff, t1)
    <3>1. a0.idx < MaxIdx /\ \A k \in 1 .. Len(<<>>) : <<>>[k].name # t1 BY <1>20, <1>24
    <3> QED BY <1>1, <1>2, <3>1, Zenon DEF Openable
  <2>2. ListIs(a0, a1, <<>>, t1) BY <1>6, <1>24, <2>1, ListReady
  <2>3. /\ Ready(a1, Append(<<>>, Element(a0, t1))) /\ a1.idx = a0.idx + 1 /\ a1.l[a0.idx].type = t1
    BY <2>2, Zenon DEF ListIs
  <2>4. Element(a0, t1) = e1 BY <1>7, <1>24, Zenon DEF Element
  <2>5. Append(<<>>, e1) = w1 BY <1>9
  <2> QED BY <1>24, <2>3, <2>4, <2>5
<1>28. Ready(a2, w2) /\ a2.idx = 2 /\ a2.l[1].type = t2 /\ a2.l[0].type = t1
  <2>1. a1.idx >= 1 /\ a1.idx < MaxIdx /\ a1.idx - 1 = 0 /\ 0 \in 0 .. a1.idx - 1 BY <1>20, <1>25
  <2>2. HasRoom(a1) BY <1>1, <1>3, <1>25, <2>1, Zenon DEF HasRoom
  <2>3. t2 \in ListNames BY <1>2
  <2>4. /\ Ready(a2, Append(w1, Element(a1, t2)))
        /\ a2.idx = a1.idx + 1 /\ a2.l[a1.idx].type = t2 /\ \A d \in 0 .. a1.idx - 1 : a2.l[d] = a1.l[d]
    BY <1>6, <1>17, <1>25, <2>2, <2>3, ListIn
  <2>5. Append(w1, Element(a1, t2)) = w2 BY <1>7, <1>10, <1>25, Zenon DEF Element
  <2> QED BY <1>25, <2>1, <2>4, <2>5
<1>29. Ready(a3, w3) /\ a3.idx = 2 /\ a3.l = a2.l
  <2>1. Inner(a2)
    <3>1. a2.idx >= 1 /\ a2.idx - 1 = 1 BY <1>28
    <3> QED BY <1>1, <1>3, <1>28, <3>1, Zenon DEF Inner
  <2>2. n1 \in ChunkNames BY <1>2
  <2>3. Ready(a3, Append(w2, Element(a2, n1))) /\ Calls(a2, a3)
    BY <1>6, <1>21, <1>28, <2>1, <2>2, AppendReady
  <2>4. Append(w2, Element(a2, n1)) = w3 BY <1>7, <1>11, <1>28, Zenon DEF Element
  <2> QED BY <1>28, <2>3, <2>4, Zenon DEF Calls, Same
<1>31. Ready(a4, w4) /\ a4.idx = 3 /\ a4.l[2].type = t3 /\ a4.l[0].type = t1
  <2>1. a3.idx >= 1 /\ a3.idx < MaxIdx /\ a3.idx - 1 = 1 /\ 0 \in 0 .. a3.idx - 1 BY <1>20, <1>29
  <2>2. HasRoom(a3) BY <1>1, <1>3, <1>28, <1>29, <2>1, Zenon DEF HasRoom
  <2>3. t3 \in ListNames BY <1>2
  <2>4. /\ Ready(a4, Append(w3, Element(a3, t3)))
        /\ a4.idx = a3.idx + 1 /\ a4.l[a3.idx].type = t3 /\ \A d \in 0 .. a3.idx - 1 : a4.l[d] = a3.l[d]
    BY <1>6, <1>17, <1>29, <2>2, <2>3, ListIn
  <2>5. Append(w3, Element(a3, t3)) = w4 BY <1>7, <1>12, <1>29, Zenon DEF Element
  <2> QED BY <1>28, <1>29, <2>1, <2>4, <2>5
<1>32. Inner(a4)
  <2>1. a4.idx >= 1 /\ a4.idx - 1 = 2 BY <1>31
  <2> QED BY <1>1, <1>3, <1>31, <2>1, Zenon DEF Inner
<1>33. Ready(a5, w5) /\ a5.idx = 3 /\ a5.l = a4.l
  <2>1. n2 \in ChunkNames BY <1>2
  <2>2. Ready(a5, Append(w4, Element(a4, n2))) /\ Calls(a4, a5)
    BY <1>6, <1>21, <1>31, <1>32, <2>1, AppendReady
  <2>3. Append(w4, Element(a4, n2)) = w5 BY <1>7, <1>13, <1>31, Zenon DEF Element
  <2> QED BY <1>31, <2>2, <2>3, Zenon DEF Calls, Same
<1>34. Ready(a6, w6) /\ a6.idx = 3 /\ a6.l = a4.l
  <2>1. n3 \in ChunkNames BY <1>2
  <2>2. Inner(a5) BY <1>31, <1>32, <1>33, Zenon DEF Inner
  <2>3. Ready(a6, Append(w5, Element(a5, n3))) /\ Calls(a5, a6)
    BY <1>6, <1>21, <1>33, <2>1, <2>2, AppendReady
  <2>4. Append(w5, Element(a5, n3)) = w6 BY <1>7, <1>14, <1>33, Zenon DEF Element
  <2> QED BY <1>33, <2>3, <2>4, Zenon DEF Calls, Same
<1>35. Ready(a7, w6) /\ a7.idx = 2 /\ a7.l = a4.l
  <2>1. a6.idx >= 1 /\ a6.idx - 1 = 2 BY <1>34
  <2>2. Closing(a6, a7, w6) BY <1>4, <1>34, <2>1, CloseReady
  <2>3. PICK bt : Settled(a7, w6, bt) BY <2>2, Zenon DEF Closing
  <2> QED BY <1>34, <2>1, <2>2, <2>3, SettledReady, Zenon DEF Closing
<1>36. Ready(a8, w6) /\ a8.idx = 1 /\ a8.l = a4.l
  <2>1. a7.idx >= 1 /\ a7.idx - 1 = 1 BY <1>35
  <2>2. Closing(a7, a8, w6) BY <1>4, <1>35, <2>1, CloseReady
  <2>3. PICK bt : Settled(a8, w6, bt) BY <2>2, Zenon DEF Closing
  <2> QED BY <1>35, <2>1, <2>2, <2>3, SettledReady, Zenon DEF Closing
<1>38. Ready(h, w7) /\ h.idx = 2 /\ h.l[1].type = t4
  <2>1. a8.idx >= 1 /\ a8.idx < MaxIdx /\ a8.idx - 1 = 0 BY <1>20, <1>36
  <2>2. HasRoom(a8) BY <1>1, <1>3, <1>31, <1>36, <2>1, Zenon DEF HasRoom
  <2>3. t4 \in ListNames BY <1>2
  <2>4. /\ Ready(h, Append(w6, Element(a8, t4))) /\ h.idx = a8.idx + 1 /\ h.l[a8.idx].type = t4
    BY <1>6, <1>17, <1>36, <2>2, <2>3, ListIn
  <2>5. Append(w6, Element(a8, t4)) = w7 BY <1>7, <1>15, <1>36, Zenon DEF Element
  <2> QED BY <1>36, <2>4, <2>5
<1> QED BY <1>1, <1>16, <1>38, Zenon DEF InMoviList

----------------------------------------------------------------------------
(* The calls of a program that uses the library                             *)

(* What a call says it writes is an element, and what was written stays.    *)
LEMMA ElementOf ==
    ASSUME NEW a, NEW w, Ready(a, w), NEW name, name \in ListNames \cup ChunkNames
    PROVE  w \in Seq(Elements) /\ Element(a, name) \in Elements /\ Begins(w, Append(w, Element(a, name)))
<1>1. w \in Seq(Elements) /\ IsHandle(a) BY SaidIs
<1>2. a.idx \in Nat
  <2>1. a.idx \in 0 .. MaxIdx BY <1>1, Zenon DEF IsHandle
  <2> QED BY <2>1, AviFileAssumption
<1>3. Element(a, name) \in Elements BY <1>2 DEF Element, Elements
<1> QED BY <1>1, <1>3, BeginsMore

(* A call that writes an element, or none.                                  *)
LEMMA CallOn ==
    ASSUME NEW a, NEW w, NEW s, FilePart(a, w, s), NEW c, NEW name, name \in ListNames \cup ChunkNames,
           NEW v, v = w \/ v = Append(w, Element(a, name)), Ready(c, v), Calls(a, c)
    PROVE  FilePart(c, v, s)
<1>1. Ready(a, w) BY Zenon DEF FilePart
<1>2. w \in Seq(Elements) /\ Element(a, name) \in Elements /\ Begins(w, Append(w, Element(a, name)))
  BY <1>1, ElementOf
<1>3. Begins(w, v) BY <1>2, BeginsMore, Zenon
<1>4. c.movi_offs = a.movi_offs /\ Kept(a.file.hdr, c.file.hdr) BY Zenon DEF Calls, Same
<1> QED BY <1>3, <1>4, PartOn

InType(a, type) == a.idx > 0 /\ a.l[a.idx - 1].type = type
(* The innermost list is an element; only the outermost one is AVI.         *)
LEMMA InIs ==
    ASSUME NEW a, NEW w, Ready(a, w), NEW type, InType(a, type)
    PROVE  /\ a.idx >= 1 /\ type \in ListNames /\ w # <<>>
           /\ type # "AVI " => Inner(a)
           /\ type = "movi" => HasMovi(w)
<1>1. PICK W, at : Opened(a, W, at) /\ w = Said(a, W) BY Zenon DEF Ready
<1>2. Core(a, W, at) BY <1>1, Zenon DEF Opened
<1>3. W \in Seq(Elements) /\ IsHandle(a) BY <1>2, Zenon DEF Core, Nested
<1>4. a.idx \in Nat /\ a.idx >= 1 /\ a.idx - 1 \in 0 .. a.idx - 1
  <2>1. a.idx \in 0 .. MaxIdx /\ a.idx > 0 BY <1>3, Zenon DEF IsHandle, InType
  <2> QED BY <2>1, AviFileAssumption
<1>5. PICK o \in 1 .. Len(W) : IsOpen(a, W, at, a.idx - 1, o) BY <1>2, <1>4, Zenon DEF Core
<1>6. type = W[o].name /\ type \in ListNames BY <1>5, Zenon DEF IsOpen, InType
<1>7. Begins(W, w)
  <2>1. CASE a.partial
    <3>1. PICK e : e = [level |-> a.idx, name |-> "00dc"] OBVIOUS
    <3>2. w = Append(W, e) BY <1>1, <2>1, <3>1, Zenon DEF Said
    <3>4. "00dc" \in ChunkNames BY DEF ChunkNames
    <3>3. e \in Elements BY <1>4, <3>1, <3>4 DEF Elements
    <3> QED BY <1>3, <3>2, <3>3, BeginsMore
  <2>2. CASE ~a.partial
    <3>1. w = W BY <1>1, <2>2, Zenon DEF Said
    <3> QED BY <3>1 DEF Begins
  <2> QED BY <2>1, <2>2
<1>8. o \in 1 .. Len(w) /\ w[o].name = type BY <1>6, <1>7, Zenon DEF Begins
<1>9. w # <<>>
  <2>1. w \in Seq(Elements) BY SaidIs
  <2>2. PICK N \in Nat : N = Len(w) BY <2>1
  <2>3. N # 0 BY <1>8, <2>2
  <2>4. CASE w = <<>>
    <3>1. Len(w) = 0 BY <2>4
    <3> QED BY <2>2, <2>3, <3>1
  <2> QED BY <2>4
<1>10. type # "AVI " => Inner(a) BY <1>4, Zenon DEF Inner, InType
<1>11. type = "movi" => HasMovi(w) BY <1>8, Zenon DEF HasMovi
<1> QED BY <1>4, <1>6, <1>9, <1>10, <1>11

(* A list is opened, if there is room for it.                               *)
Opening(a, w, fcc, type) ==
    /\ \/ fcc = List /\ \E around : InType(a, around) /\ around # "movi"
       \/ fcc = Riff /\ type = "AVI " /\ w = <<>>
    /\ \A k \in 1 .. Len(w) : w[k].name # type
(* A list that is opened, unless too many are.                              *)
LEMMA OpenOn ==
    ASSUME NEW a, NEW w, NEW s, FilePart(a, w, s), NEW fcc, NEW type, type \in ListNames, Opening(a, w, fcc, type),
           NEW c, c = avi_file_list_open(a, fcc, type),
           NEW v, v = IF a.idx >= MaxIdx THEN w ELSE Append(w, Element(a, type))
    PROVE  FilePart(c, v, s)
<1>1. Ready(a, w) BY Zenon DEF FilePart
<1>2. w \in Seq(Elements) /\ IsHandle(a) BY <1>1, SaidIs
<1>3. a.idx \in 0 .. MaxIdx BY <1>2, Zenon DEF IsHandle
<1>4. CASE a.idx >= MaxIdx
  <2>1. c = a /\ v = w BY <1>4, Zenon DEF avi_file_list_open
  <2> QED BY <2>1, Zenon
<1>5. CASE ~(a.idx >= MaxIdx)
  <2>1. a.idx < MaxIdx BY <1>3, <1>5, AviFileAssumption
  <2>2. v = Append(w, Element(a, type)) BY <1>5
  <2>3. Openable(a, w, fcc, type)
    <3>3. \A k \in 1 .. Len(w) : w[k].name # type BY Zenon DEF Opening
    <3>1. CASE fcc = List /\ \E around : InType(a, around) /\ around # "movi"
      <4>1. PICK around : InType(a, around) /\ around # "movi" BY <3>1, Zenon
      <4>2. a.idx >= 1 /\ w # <<>> BY <1>1, <4>1, InIs
      <4>3. a.l[a.idx - 1].type # "movi" BY <4>1, Zenon DEF InType
      <4> QED BY <2>1, <3>1, <3>3, <4>2, <4>3, Zenon DEF Openable
    <3>2. CASE fcc = Riff /\ type = "AVI " /\ w = <<>> BY <2>1, <3>2, <3>3, Zenon DEF Openable
    <3> QED BY <3>1, <3>2, Zenon DEF Opening
  <2>4. ListIs(a, c, w, type) BY <1>1, <2>3, ListReady
  <2>5. Ready(c, v) /\ Kept(a.file.hdr, c.file.hdr) /\ (type # "movi" => c.movi_offs = a.movi_offs)
    BY <2>2, <2>4, Zenon DEF ListIs
  <2>6. Begins(w, v) BY <1>1, <2>2, ElementOf, Zenon
  <2>7. s = <<>> \/ c.movi_offs = a.movi_offs
    <3>1. CASE type # "movi" BY <2>5, <3>1
    <3>2. CASE type = "movi"
      <4>1. ~HasMovi(w) BY <3>2, Zenon DEF HasMovi, Opening
      <4> QED BY <4>1, Zenon DEF FilePart
    <3> QED BY <3>1, <3>2
  <2> QED BY <2>5, <2>6, <2>7, PartOn
<1> QED BY <1>4, <1>5

(* A file that is parsed is not written again.                              *)
Parsing == {"check", "checked", "salvage", "salvaged", "restore", "restored", "damaged",
            "recheck", "rechecked", "astray"}
(* Then the phase is one of those, and neither elements nor index change.   *)
LEMMA ParseLeaves ==
    ASSUME Parse
    PROVE  phase' \in Parsing /\ UNCHANGED <<wrote, entries>>
<1>1. DOMAIN Ended = {"check", "salvage", "recheck"} /\ \A p \in DOMAIN Ended : Ended[p] \in Parsing
  BY DEF Ended, Parsing
<1>2. \A p \in DOMAIN Ended : p \in Parsing BY <1>1, Zenon DEF Parsing
<1>3. CASE avi_check
  <2>1. Checking BY <1>3, Zenon DEF avi_check
  <2>2. phase \in Parsing /\ Ended[phase] \in Parsing BY <1>1, <1>2, <2>1, Zenon DEF Checking
  <2>3. phase' = Ended[phase] \/ UNCHANGED phase BY <1>3, Zenon DEF avi_check, avi_process_list
  <2>4. UNCHANGED wrote BY <1>3, Zenon DEF avi_check
  <2> QED BY <2>2, <2>3, <2>4, Zenon DEF Parse
<1>4. CASE avi_process_chunk
  <2>1. Checking /\ UNCHANGED wrote BY <1>4, Zenon DEF avi_process_chunk, InList
  <2>2. phase \in Parsing BY <1>2, <2>1, Zenon DEF Checking
  <2>3. phase' = "astray" \/ UNCHANGED phase BY <1>4, Zenon DEF avi_process_chunk
  <2> QED BY <2>1, <2>2, <2>3, Zenon DEF Parse, Parsing
<1>5. CASE SubList
  <2>1. Checking /\ UNCHANGED wrote BY <1>5, Zenon DEF SubList, InList
  <2>2. phase \in Parsing BY <1>2, <2>1, Zenon DEF Checking
  <2>3. UNCHANGED phase BY <1>5, Zenon DEF SubList, avi_process_list
  <2> QED BY <2>1, <2>2, <2>3, Zenon DEF Parse
<1>6. CASE ListEnds
  <2>1. Checking /\ UNCHANGED <<wrote, phase>> BY <1>6, Zenon DEF ListEnds, InList
  <2>2. phase \in Parsing BY <1>2, <2>1, Zenon DEF Checking
  <2> QED BY <2>1, <2>2, Zenon DEF Parse
<1>7. CASE RestoreBegins
  <2>1. phase' \in {"damaged", "restore"} /\ UNCHANGED wrote BY <1>7, Zenon DEF RestoreBegins
  <2> QED BY <2>1, Zenon DEF Parse, Parsing
<1>8. CASE RestoreChunk
  <2>1. phase = "restore" /\ UNCHANGED wrote BY <1>8, Zenon DEF RestoreChunk
  <2>2. phase' \in {"astray", "damaged"} \/ UNCHANGED phase BY <1>8, Zenon DEF RestoreChunk
  <2> QED BY <2>1, <2>2, Zenon DEF Parse, Parsing
<1>9. CASE RestoreEnds
  <2>1. phase' = "restored" /\ UNCHANGED wrote BY <1>9, Zenon DEF RestoreEnds
  <2> QED BY <2>1, Zenon DEF Parse, Parsing
<1>10. CASE StartCheck("restored", "recheck") \/ StartCheck("closed", "check") \/ StartCheck("left", "salvage")
  <2>1. phase' \in {"recheck", "check", "salvage"} /\ UNCHANGED wrote BY <1>10, Zenon DEF StartCheck
  <2> QED BY <2>1, Zenon DEF Parse, Parsing
<1> QED BY <1>3, <1>4, <1>5, <1>6, <1>7, <1>8, <1>9, <1>10, Zenon DEF Parse, ParseNext

(* A call of the library leaves a file that can be written on.              *)
LEMMA LibraryOn ==
    ASSUME FilePart(avi, wrote, entries), UseNext
    PROVE  phase' \in {"write", "closed"} => FilePart(avi', wrote', entries')
<1>1. PICK a, w, s, c, v, t : a = avi /\ w = wrote /\ s = entries /\ c = avi' /\ v = wrote' /\ t = entries'
  OBVIOUS
<1>2. FilePart(a, w, s) /\ Ready(a, w) BY <1>1, Zenon DEF FilePart
<1>3. SUFFICES ASSUME phase' \in {"write", "closed"} PROVE FilePart(c, v, t)
  BY <1>1, Zenon
<1>4. /\ "hdrl" # "movi" /\ "AVI " # "movi" /\ "strl" # "AVI " /\ "hdrl" # "AVI " /\ "movi" # "AVI "
      /\ "hdrl" \in ListNames /\ "movi" \in ListNames /\ "strl" \in ListNames /\ "AVI " \in ListNames
  BY DEF ListNames
<1>5. /\ "avih" \in ChunkNames /\ "strh" \in ChunkNames /\ "00db" \in ChunkNames /\ "00dc" \in ChunkNames
      /\ "01wb" \in ChunkNames /\ "JUNK" \in ChunkNames
  BY DEF ChunkNames
<1>6. {Ops, HeaderLen, MaxFrames} \subseteq Nat /\ Lens \subseteq Nat BY AviUseAssumption
<1>7. HeaderLen \in Nat /\ \A n \in Lens : n \in Nat BY <1>6
<1>8. \A type : In(type) => InType(a, type) BY <1>1, Zenon DEF In, InType
<1>9. InMovi => InType(a, "movi") /\ t = s BY <1>1, <1>8, Zenon DEF InMovi
<1>10. InType(a, "movi") => Inner(a) /\ HasMovi(w) BY <1>2, <1>4, InIs, Zenon
<1>11. \A name : Wrote(name) => v = Append(w, Element(a, name)) BY <1>1, Zenon DEF Wrote, Element
<1>12. CASE \E around, type : /\ OpenList(around, List, type) /\ around \in {"AVI ", "hdrl"}
                              /\ type \in {"hdrl", "strl", "movi"}
  <2>1. PICK around, type : /\ OpenList(around, List, type) /\ around \in {"AVI ", "hdrl"}
                            /\ type \in {"hdrl", "strl", "movi"}
    BY <1>12, Zenon
  <2>2. around # "" /\ around # "movi" /\ type \in ListNames BY <1>4, <2>1
  <2>3. InType(a, around) BY <1>8, <2>1, <2>2, Zenon DEF OpenList
  <2>4. \A k \in 1 .. Len(w) : w[k].name # type
    <3>1. DOMAIN wrote = 1 .. Len(wrote)
      <4>1. w \in Seq(Elements) BY <1>2, SaidIs
      <4>2. DOMAIN w = 1 .. Len(w) BY <4>1
      <4> QED BY <1>1, <4>2, Zenon
    <3> QED BY <1>1, <2>1, <3>1, Zenon DEF OpenList
  <2>5. Opening(a, w, List, type) BY <2>2, <2>3, <2>4, Zenon DEF Opening
  <2>6. c = avi_file_list_open(a, List, type) /\ t = s BY <1>1, <2>1, Zenon DEF OpenList
  <2>7. v = IF a.idx >= MaxIdx THEN w ELSE Append(w, Element(a, type))
    BY <1>1, <1>11, <2>1, Zenon DEF OpenList
  <2>8. FilePart(c, v, s) BY <1>2, <2>2, <2>5, <2>6, <2>7, OpenOn
  <2> QED BY <2>6, <2>8, Zenon
<1>13. CASE OpenList("", Riff, "AVI ")
  <2>1. ~InType(a, "")
    <3>1. "" \notin ListNames BY DEF ListNames
    <3> QED BY <1>2, <3>1, InIs, Zenon
  <2>2. w = <<>> BY <1>1, <1>8, <1>13, <2>1, Zenon DEF OpenList
  <2>3. PICK type : type = "AVI " /\ type \in ListNames BY <1>4
  <2>4. \A k \in 1 .. Len(w) : w[k].name # type BY <2>2
  <2>5. Opening(a, w, Riff, type) BY <2>2, <2>3, <2>4, Zenon DEF Opening
  <2>6. c = avi_file_list_open(a, Riff, type) /\ t = s BY <1>1, <1>13, <2>3, Zenon DEF OpenList
  <2>7. v = IF a.idx >= MaxIdx THEN w ELSE Append(w, Element(a, type))
    BY <1>1, <1>11, <1>13, <2>3, Zenon DEF OpenList
  <2>8. type \in ListNames BY <2>3
  <2>9. FilePart(c, v, s) BY <1>2, <2>5, <2>6, <2>7, <2>8, OpenOn
  <2> QED BY <2>6, <2>9, Zenon
<1>14. CASE \E around, fcc : StreamHeader(around, fcc) /\ around \in {"hdrl", "strl"} /\ fcc \in {"avih", "strh"}
  <2>1. PICK around, fcc : StreamHeader(around, fcc) /\ around \in {"hdrl", "strl"} /\ fcc \in {"avih", "strh"}
    BY <1>14, Zenon
  <2>2. around # "AVI " /\ fcc \in ChunkNames BY <1>4, <1>5, <2>1, Zenon
  <2>3. Inner(a) BY <1>2, <1>8, <2>1, <2>2, InIs, Zenon DEF StreamHeader
  <2>4. c = avi_file_chunk_append(a, fcc, HeaderLen) /\ t = s /\ v = Append(w, Element(a, fcc))
    BY <1>1, <1>11, <2>1, Zenon DEF StreamHeader
  <2>5. Ready(c, v) /\ Calls(a, c) BY <1>2, <1>7, <2>2, <2>3, <2>4, AppendReady, Zenon
  <2>6. FilePart(c, v, s) BY <1>2, <2>2, <2>4, <2>5, CallOn, Zenon
  <2> QED BY <2>4, <2>6, Zenon
<1>15. CASE CloseList
  <2>1. c = avi_file_list_close(a) /\ v = w /\ t = s /\ a.idx > 1 BY <1>1, <1>15, Zenon DEF CloseList
  <2>2. a.idx >= 1
    <3>1. IsHandle(a) BY <1>2, SaidIs
    <3>2. a.idx \in 0 .. MaxIdx BY <3>1, Zenon DEF IsHandle
    <3> QED BY <2>1, <3>2, AviFileAssumption
  <2>3. Closing(a, c, w) BY <1>2, <2>1, <2>2, CloseReady, Zenon
  <2>4. PICK bt : Settled(c, w, bt) BY <2>3, Zenon DEF Closing
  <2>5. Ready(c, v) BY <2>1, <2>4, SettledReady, Zenon
  <2>6. c.movi_offs = a.movi_offs /\ Kept(a.file.hdr, c.file.hdr) BY <2>3, Zenon DEF Closing
  <2>7. Begins(w, v) BY <2>1 DEF Begins
  <2>8. FilePart(c, v, s) BY <1>2, <2>5, <2>6, <2>7, PartOn, Zenon
  <2> QED BY <2>1, <2>8, Zenon
<1>16. CASE Create
  <2>1. InMovi /\ c = avi_file_data_create(a, "00dc") /\ v = Append(w, Element(a, "00dc"))
    BY <1>1, <1>11, <1>16, Zenon DEF Create
  <2>2. Inner(a) /\ t = s BY <1>9, <1>10, <2>1, Zenon
  <2>3. Ready(c, v) /\ c.movi_offs = a.movi_offs /\ Kept(a.file.hdr, c.file.hdr)
    BY <1>2, <2>1, <2>2, CreateReady, Zenon
  <2>4. Begins(w, v) BY <1>2, <1>5, <2>1, ElementOf, Zenon
  <2>5. FilePart(c, v, s) BY <1>2, <2>3, <2>4, PartOn, Zenon
  <2> QED BY <2>2, <2>5, Zenon
<1>17. ASSUME NEW n \in Lens, AppendChunk(n) PROVE FilePart(c, v, t)
  <2>1. InMovi /\ c = avi_file_chunk_append(a, "00db", n) /\ v = Append(w, Element(a, "00db"))
    BY <1>1, <1>11, <1>17, Zenon DEF AppendChunk
  <2>2. Inner(a) /\ t = s BY <1>9, <1>10, <2>1, Zenon
  <2>3. Ready(c, v) /\ Calls(a, c) BY <1>2, <1>5, <1>7, <2>1, <2>2, AppendReady, Zenon
  <2>4. FilePart(c, v, s) BY <1>2, <1>5, <2>1, <2>3, CallOn, Zenon
  <2> QED BY <2>2, <2>4, Zenon
<1>18. ASSUME NEW n \in Lens, AppendData(n) PROVE FilePart(c, v, t)
  <2>1. InMovi /\ a.partial /\ c = avi_file_data_append(a, n) /\ v = w
    BY <1>1, <1>18, Zenon DEF AppendData
  <2>2. t = s BY <1>9, <2>1, Zenon
  <2>3. Ready(c, v) /\ Calls(a, c) BY <1>2, <1>7, <2>1, DataReady, Zenon
  <2>4. FilePart(c, v, s) BY <1>2, <1>5, <2>1, <2>3, CallOn, Zenon
  <2> QED BY <2>2, <2>4, Zenon
<1>19. ASSUME NEW n \in Lens, AppendFake(n) PROVE FilePart(c, v, t)
  <2>1. InMovi /\ c = avi_file_chunk_append_fake(a, "00dc", n) /\ v = Append(w, Element(a, "00dc"))
    BY <1>1, <1>11, <1>19, Zenon DEF AppendFake
  <2>2. Inner(a) /\ t = s BY <1>9, <1>10, <2>1, Zenon
  <2>3. Ready(c, v) /\ Calls(a, c) BY <1>2, <1>5, <1>7, <2>1, <2>2, FakeReady, Zenon
  <2>4. FilePart(c, v, s) BY <1>2, <1>5, <2>1, <2>3, CallOn, Zenon
  <2> QED BY <2>2, <2>4, Zenon
<1>20. ASSUME NEW n \in Lens, Write2Fields(n) PROVE FilePart(c, v, t)
  <2>1. InMovi /\ ~a.partial /\ c = avif_odml_write_2fields(a, n, n) /\ v = Append(w, Element(a, "00dc"))
    BY <1>1, <1>11, <1>20, Zenon DEF Write2Fields
  <2>2. Inner(a) /\ t = s BY <1>9, <1>10, <2>1, Zenon
  <2>7. n \in Nat BY <1>7, Zenon
  <2>8. n + n \in Nat BY <2>7
  <2>3. PICK m : m = n + n /\ m \in Nat BY <2>8, Zenon
  <2>4. c = Chunk(a, "00dc", m) BY <2>1, <2>3, Zenon DEF avif_odml_write_2fields
  <2>9. ~a.partial /\ v = Append(w, Element(a, "00dc")) BY <2>1
  <2>10. Ready(c, Append(w, Element(a, "00dc"))) /\ Calls(a, c)
    <3>1. PICK name \in ChunkNames : name = "00dc" BY <1>5
    <3>2. c = Chunk(a, name, m) BY <2>4, <3>1, Zenon
    <3>3. Ready(c, Append(w, Element(a, name))) /\ Calls(a, c)
      BY <1>2, <2>2, <2>3, <2>9, <3>2, ChunkReady
    <3> QED BY <3>1, <3>3, Zenon
  <2>5. Ready(c, v) /\ Calls(a, c) BY <2>9, <2>10, Zenon
  <2>6. FilePart(c, v, s) BY <1>2, <1>5, <2>1, <2>5, CallOn, Zenon
  <2> QED BY <2>2, <2>6, Zenon
<1>21. CASE AlignNext(16)
  <2>1. InMovi /\ c = avi_file_chunk_align(a, 16) BY <1>1, <1>21, Zenon DEF AlignNext
  <2>2. v = IF c.size # avi_file_data_last(a).size THEN Append(w, Element(a, "JUNK")) ELSE w
    BY <1>1, <1>11, <1>21, Zenon DEF AlignNext
  <2>3. Inner(a) /\ t = s BY <1>9, <1>10, <2>1, Zenon
  <2>4. 16 \in Nat \ {0} OBVIOUS
  <2>5. Ready(c, v) /\ Calls(a, c) BY <1>2, <2>1, <2>2, <2>3, <2>4, AlignReady, Zenon
  <2>6. v = w \/ v = Append(w, Element(a, "JUNK")) BY <2>2
  <2>7. FilePart(c, v, s) BY <1>2, <1>5, <2>5, <2>6, CallOn, Zenon
  <2> QED BY <2>3, <2>7, Zenon
<1>22. ASSUME NEW n \in Lens, avif_write_audio(n) PROVE FilePart(c, v, t)
  <2>1. InType(a, "movi") BY <1>8, <1>22, Zenon DEF avif_write_audio
  <2>2. Inner(a) /\ HasMovi(w) BY <1>10, <2>1
  <2>3. CASE Len(entries) >= MaxFrames
    <3>1. c = a /\ v = w /\ t = s BY <1>1, <1>22, <2>3, Zenon DEF avif_write_audio
    <3> QED BY <1>2, <3>1, Zenon
  <2>4. CASE ~(Len(entries) >= MaxFrames)
    <3>1. PICK e : e = [off |-> a.size - a.movi_offs, whole |-> ~a.partial] OBVIOUS
    <3>2. t = Append(s, e) /\ c = avi_file_chunk_append(a, "01wb", n) /\ v = Append(w, Element(a, "01wb"))
      BY <1>1, <1>11, <1>22, <2>4, <3>1, Zenon DEF avif_write_audio
    <3>3. /\ Ready(c, v) /\ Calls(a, c)
          /\ ~a.partial => a.size \in DOMAIN c.file.hdr /\ c.file.hdr[a.size].name = "01wb"
      BY <1>2, <1>5, <1>7, <2>2, <3>2, AppendReady, Zenon
    <3>4. FilePart(c, v, s) BY <1>2, <1>5, <3>2, <3>3, CallOn, Zenon
    <3>5. a.size \in Nat /\ a.movi_offs \in Nat
      <4>1. IsHandle(a) BY <1>2, SaidIs
      <4> QED BY <4>1, Zenon DEF IsHandle
    <3>6. c.movi_offs = a.movi_offs BY <3>3, Zenon DEF Calls, Same
    <3>7. e.off = a.size - a.movi_offs /\ e.whole = ~a.partial BY <3>1
    <3>8. e \in IndexEntries
      <4>1. a.size - a.movi_offs \in Int BY <3>5
      <4> QED BY <3>1, <4>1 DEF IndexEntries
    <3>9. e.whole => Points(c, e)
      <4>1. c.movi_offs + e.off = a.size BY <3>5, <3>6, <3>7
      <4> QED BY <3>3, <3>7, <4>1, Zenon DEF Points
    <3>10. HasMovi(v)
      <4>1. Begins(w, v) BY <1>2, <1>5, <3>2, ElementOf, Zenon
      <4>2. PICK k \in 1 .. Len(w) : w[k].name = "movi" BY <2>2, Zenon DEF HasMovi
      <4>3. k \in 1 .. Len(v) /\ v[k] = w[k] BY <4>1, <4>2, Zenon DEF Begins
      <4> QED BY <4>2, <4>3, Zenon DEF HasMovi
    <3> QED BY <3>2, <3>4, <3>8, <3>9, <3>10, PartEntry, Zenon
  <2> QED BY <2>3, <2>4
<1>23. CASE Close
  <2>1. c = avi_file_close(a) /\ v = w /\ t = s BY <1>1, <1>23, Zenon DEF Close
  <2>2. /\ \E at : Settled(c, w, at)
        /\ c.movi_offs = a.movi_offs /\ Kept(a.file.hdr, c.file.hdr)
    BY <1>2, <2>1, FileCloseReady, Zenon
  <2>3. Ready(c, v) BY <2>1, <2>2, SettledReady, Zenon
  <2>4. Begins(w, v) BY <2>1 DEF Begins
  <2>5. FilePart(c, v, s) BY <1>2, <2>2, <2>3, <2>4, PartOn, Zenon
  <2> QED BY <2>1, <2>5, Zenon
<1>24. CASE Crash
  <2>1. phase' = "left" BY <1>24, Zenon DEF Crash
  <2> QED BY <1>3, <2>1
<1>25. CASE Parse
  <2>1. phase' \in Parsing BY <1>25, ParseLeaves
  <2> QED BY <1>3, <2>1 DEF Parsing
<1> QED
  BY <1>12, <1>13, <1>14, <1>15, <1>16, <1>17, <1>18, <1>19, <1>20, <1>21, <1>22, <1>23, <1>24, <1>25,
     Zenon DEF UseNext

----------------------------------------------------------------------------
(* The file through a run                                                   *)

Ongoing == {"write", "closed"}
FileInv ==
    /\ scenario \in Scenarios /\ window \in scenario.jobs
    /\ phase \in Ongoing => FilePart(avi, wrote, entries)
    /\ pc # "library" => entries = <<>>
    /\ FileOpen => pc \notin {"gone", "library"} /\ phase = "write" /\ InMoviList(avi)

(* At first nothing is written.                                             *)
LEMMA FileInit == ViewerInit => FileInv
<1> SUFFICES ASSUME ViewerInit PROVE FileInv OBVIOUS
<1>1. scenario \in Scenarios /\ window \in scenario.jobs BY Zenon DEF ViewerInit
<1>2. avi = avi_file_open /\ wrote = <<>> /\ entries = <<>> /\ phase = "write"
  BY Zenon DEF ViewerInit, UseInit, ParseInit
<1>3. FilePart(avi, wrote, entries)
  <2>1. PICK a, s : a = avi_file_open /\ s = <<>> OBVIOUS
  <2>2. Ready(a, <<>>) BY <2>1, EmptyReady
  <2>3. s \in Seq(IndexEntries) /\ Indexed(a, s) BY <2>1 DEF Indexed
  <2>4. FilePart(a, <<>>, s) BY <2>1, <2>2, <2>3, Zenon DEF FilePart
  <2> QED BY <1>2, <2>1, <2>4, Zenon
<1>4. ~FileOpen
  <2>1. video = "NONE" BY Zenon DEF ViewerInit
  <2> QED BY <2>1, Zenon DEF FileOpen
<1> QED BY <1>1, <1>2, <1>3, <1>4, Zenon DEF FileInv

(* Steps that leave the file alone.                                         *)
AviUnchanged == UNCHANGED <<avi, wrote, phase, entries>>
(* Then the invariant stays.                                                *)
LEMMA FileStays ==
    ASSUME FileInv, AviUnchanged, scenario' = scenario, window' \in scenario.jobs,
           pc' = "library" <=> pc = "library",
           FileOpen' => FileOpen /\ pc' # "gone"
    PROVE  FileInv'
<1>1. avi' = avi /\ wrote' = wrote /\ phase' = phase /\ entries' = entries BY Zenon DEF AviUnchanged
<1>2. scenario' \in Scenarios /\ window' \in scenario'.jobs BY Zenon DEF FileInv
<1>3. phase' \in Ongoing' => FilePart(avi', wrote', entries') BY <1>1, Zenon DEF FileInv, Ongoing
<1>4. pc' # "library" => entries' = <<>> BY <1>1, Zenon DEF FileInv
<1>5. FileOpen' => pc' \notin {"gone", "library"} /\ phase' = "write" /\ InMoviList(avi')
  <2>1. ASSUME FileOpen' PROVE pc' \notin {"gone", "library"} /\ phase' = "write" /\ InMoviList(avi')
    <3>1. FileOpen /\ pc' # "gone" BY <2>1
    <3>2. pc \notin {"gone", "library"} /\ phase = "write" /\ InMoviList(avi) BY <3>1, Zenon DEF FileInv
    <3>3. pc' # "library" BY <3>2, Zenon
    <3> QED BY <1>1, <3>1, <3>2, <3>3, Zenon
  <2> QED BY <2>1
<1> QED BY <1>2, <1>3, <1>4, <1>5, Zenon DEF FileInv

(* write_video: the file before and after a frame.                          *)
LEMMA VideoOn ==
    ASSUME FileInv, write_video, pc \notin {"gone", "library"}, entries' = entries
    PROVE  /\ phase' \in Ongoing => FilePart(avi', wrote', entries')
           /\ FileOpen' => phase' = "write" /\ InMoviList(avi')
<1>1. PICK a, w, c, v : a = avi /\ w = wrote /\ c = avi' /\ v = wrote' OBVIOUS
<1>2. entries = <<>> /\ entries' = <<>> BY Zenon DEF FileInv
<1>3. \A b, u : Ready(b, u) => FilePart(b, u, <<>>)
  <2>1. PICK s : s = <<>> OBVIOUS
  <2>2. \A b : s \in Seq(IndexEntries) /\ Indexed(b, s) BY <2>1 DEF Indexed
  <2> QED BY <2>1, <2>2, Zenon DEF FilePart
<1>4. CASE video = "START" /\ VideoHead(avi') /\ wrote' = HeadElements /\ phase' = "write"
  <2>1. Ready(c, v) /\ InMoviList(c) BY <1>1, <1>4, VideoHeadReady
  <2> QED BY <1>1, <1>2, <1>3, <1>4, <2>1, Zenon
<1>5. CASE /\ video = "FINISH" /\ video' = "NONE"
           /\ \E noMovi \in {avi_file_list_close(avi)} : \E noRiff \in {avi_file_list_close(noMovi)} :
                avi' = avi_file_close(noRiff)
           /\ phase' = "closed" /\ UNCHANGED wrote
  <2>1. FileOpen BY <1>5, Zenon DEF FileOpen
  <2>2. Ready(a, w) /\ a.idx = 2
    <3>1. phase \in Ongoing BY <2>1, Zenon DEF FileInv, Ongoing
    <3> QED BY <1>1, <2>1, <3>1, Zenon DEF FileInv, FilePart, InMoviList
  <2>3. PICK b, d : b = avi_file_list_close(a) /\ d = avi_file_list_close(b) /\ c = avi_file_close(d)
    BY <1>1, <1>5, Zenon
  <2>4. Closing(a, b, w) BY <2>2, <2>3, CloseReady
  <2>5. PICK bt : Settled(b, w, bt) BY <2>4, Zenon DEF Closing
  <2>6. b.idx = 1
    <3>1. b.idx = a.idx - 1 BY <2>4, Zenon DEF Closing
    <3> QED BY <2>2, <3>1
  <2>7. Ready(b, w) BY <2>5, SettledReady
  <2>8. Closing(b, d, w) BY <2>3, <2>6, <2>7, CloseReady
  <2>9. PICK dt : Settled(d, w, dt) BY <2>8, Zenon DEF Closing
  <2>10. Ready(d, w) BY <2>9, SettledReady
  <2>11. \E ct : Settled(c, w, ct) BY <2>3, <2>10, FileCloseReady
  <2>12. Ready(c, v) BY <1>1, <1>5, <2>11, SettledReady, Zenon
  <2>13. ~FileOpen' BY <1>5, Zenon DEF FileOpen
  <2> QED BY <1>1, <1>2, <1>3, <2>12, <2>13, Zenon
<1>6. CASE /\ video = "PROCESS"
           /\ avi' = avi_file_chunk_append(avi, "00db", window.ww * window.wh * 2) /\ Wrote("00db")
           /\ UNCHANGED <<video, phase>>
  <2>1. FileOpen BY <1>6, Zenon DEF FileOpen
  <2>2. phase = "write" /\ InMoviList(a) /\ Ready(a, w)
    <3>1. phase \in Ongoing BY <2>1, Zenon DEF FileInv, Ongoing
    <3> QED BY <1>1, <2>1, <3>1, Zenon DEF FileInv, FilePart
  <2>3. PICK n \in Nat : n = window.ww * window.wh * 2
    <3>1. window \in Jobs BY ViewerAssumption, Zenon DEF FileInv
    <3>2. window.ww \in Nat /\ window.wh \in Nat BY <3>1, DebayerAssumption
    <3>3. window.ww * window.wh * 2 \in Nat BY <3>2
    <3> QED BY <3>3
  <2>4. Inner(a)
    <3>1. a.idx = 2 /\ a.l[1].type = "movi" BY <2>2, Zenon DEF InMoviList
    <3>2. a.idx >= 1 /\ a.idx - 1 = 1 BY <3>1
    <3>3. "movi" # "AVI " OBVIOUS
    <3> QED BY <3>1, <3>2, <3>3, Zenon DEF Inner
  <2>5. c = avi_file_chunk_append(a, "00db", n) /\ v = Append(w, Element(a, "00db"))
    BY <1>1, <1>6, <2>3, Zenon DEF Wrote, Element
  <2>6. Ready(c, v) /\ Calls(a, c)
    <3>1. "00db" \in ChunkNames BY DEF ChunkNames
    <3> QED BY <2>2, <2>4, <2>5, <3>1, AppendReady, Zenon
  <2>7. InMoviList(c) BY <2>2, <2>6, Zenon DEF Calls, Same, InMoviList
  <2>8. phase' = "write" BY <1>6, <2>2, Zenon
  <2> QED BY <1>1, <1>2, <1>3, <2>6, <2>7, <2>8, Zenon
<1>7. CASE video = "NONE" /\ UNCHANGED <<video, avi, wrote, phase>>
  <2>1. ~FileOpen' BY <1>7, Zenon DEF FileOpen
  <2> QED BY <1>2, <1>7, <2>1, Zenon DEF FileInv
<1> QED BY <1>4, <1>5, <1>6, <1>7, Zenon DEF write_video

(* No step of the viewer or of the library breaks it.                       *)
LEMMA FileNext == FileInv /\ [ViewerNext]_viewerVars => FileInv'
<1> SUFFICES ASSUME FileInv, [ViewerNext]_viewerVars PROVE FileInv'
  OBVIOUS
<1>1. window \in scenario.jobs BY Zenon DEF FileInv
<1>2. CASE UNCHANGED viewerVars
  <2>1. AviUnchanged /\ UNCHANGED <<scenario, window, pc, video>>
    BY <1>2, Zenon DEF viewerVars, dataVars, useVars, aviVars, parseVars, videoVars, AviUnchanged
  <2>2. FileOpen' => FileOpen /\ pc' # "gone"
    <3>1. FileOpen' <=> FileOpen BY <2>1, Zenon DEF FileOpen
    <3>2. FileOpen => pc # "gone" BY Zenon DEF FileInv
    <3> QED BY <2>1, <3>1, <3>2, Zenon
  <2> QED BY <1>1, <2>1, <2>2, FileStays, Zenon
<1>3. CASE \/ Wake \/ ScriptReads \/ ScriptMakes \/ ScriptSends \/ ScriptWrites \/ cam4_dump_raw_frame
           \/ Unpack \/ write_raw_video \/ StartPicture \/ MakePicture
  <2>1. AviUnchanged /\ UNCHANGED <<scenario, window, video>>
    BY <1>3, Zenon DEF Wake, ScriptReads, ScriptMakes, ScriptSends, ScriptWrites, cam4_dump_raw_frame,
       Unpack, write_raw_video, StartPicture, MakePicture, dataVars, useVars, aviVars, parseVars,
       videoVars, AviUnchanged
  <2>2. pc \notin {"gone", "library"} /\ pc' \notin {"gone", "library"}
    <3>1. CASE MakePicture BY <3>1, Zenon DEF MakePicture
    <3>2. CASE ~MakePicture
      BY <1>3, <3>2, Zenon DEF Wake, ScriptReads, ScriptMakes, ScriptSends, ScriptWrites,
         cam4_dump_raw_frame, Unpack, write_raw_video, StartPicture
    <3> QED BY <3>1, <3>2
  <2>3. FileOpen' <=> FileOpen BY <2>1, Zenon DEF FileOpen
  <2> QED BY <1>1, <2>1, <2>2, <2>3, FileStays, Zenon
<1>4. CASE EndOfFrame
  <2>1. /\ pc \notin {"gone", "library"} /\ pc' = "sleep" /\ write_video
        /\ UNCHANGED <<entries, scenario, window>>
    BY <1>4, Zenon DEF EndOfFrame
  <2>2. /\ phase' \in Ongoing => FilePart(avi', wrote', entries')
        /\ FileOpen' => phase' = "write" /\ InMoviList(avi')
    BY <2>1, VideoOn, Zenon
  <2>3. scenario' \in Scenarios /\ window' \in scenario'.jobs /\ entries' = <<>>
    BY <2>1, Zenon DEF FileInv
  <2> QED BY <2>1, <2>2, <2>3, Zenon DEF FileInv, Ongoing
<1>5. CASE WriteCommand \/ TakeCommand \/ CommandMakes \/ CommandSends \/ CommandStores
  <2>1. AviUnchanged /\ UNCHANGED <<scenario, window, video, pc>> /\ Alive
    BY <1>5, Zenon DEF WriteCommand, TakeCommand, CommandMakes, CommandSends, CommandStores,
       dataVars, useVars, aviVars, parseVars, videoVars, AviUnchanged
  <2>2. pc \notin {"gone", "library"} BY <2>1, Zenon DEF Alive
  <2>3. FileOpen' <=> FileOpen BY <2>1, Zenon DEF FileOpen
  <2> QED BY <1>1, <2>1, <2>2, <2>3, FileStays, Zenon
<1>6. CASE parse_command
  <2>1. AviUnchanged /\ UNCHANGED <<scenario, window, pc>> /\ Alive /\ video' = Video(video, "VIDEO")
    BY <1>6, Zenon DEF parse_command, dataVars, useVars, aviVars, parseVars, AviUnchanged
  <2>2. pc \notin {"gone", "library"} BY <2>1, Zenon DEF Alive
  <2>3. FileOpen' => FileOpen
    <3>1. video' = "START" \/ (video' = "FINISH" /\ video = "PROCESS") \/ video' = video
      BY <2>1, Zenon DEF Video
    <3> QED BY <3>1, Zenon DEF FileOpen
  <2> QED BY <1>1, <2>1, <2>2, <2>3, FileStays, Zenon
<1>7. CASE MoveWindow
  <2>1. AviUnchanged /\ UNCHANGED <<scenario, pc, video>> /\ Alive /\ window' \in scenario.jobs
    BY <1>7, Zenon DEF MoveWindow, dataVars, useVars, aviVars, parseVars, videoVars, AviUnchanged
  <2>2. pc \notin {"gone", "library"} BY <2>1, Zenon DEF Alive
  <2>3. FileOpen' <=> FileOpen BY <2>1, Zenon DEF FileOpen
  <2> QED BY <2>1, <2>2, <2>3, FileStays, Zenon
<1>8. CASE Exit
  <2>1. /\ UNCHANGED <<avi, wrote, entries, scenario>> /\ Alive /\ pc' = "gone" /\ video' = "NONE"
        /\ window' = (CHOOSE j \in scenario.jobs : TRUE)
        /\ phase' = IF FileOpen THEN "left" ELSE phase
    BY <1>8, Zenon DEF Exit
  <2>2. ~FileOpen' BY <2>1, Zenon DEF FileOpen
  <2>3. window' \in scenario'.jobs BY <1>1, <2>1, Zenon
  <2>4. scenario' \in Scenarios BY <2>1, Zenon DEF FileInv
  <2>5. phase' \in Ongoing => FilePart(avi', wrote', entries')
    <3>1. phase' \in Ongoing => phase' = phase
      <4>1. "left" \notin Ongoing BY DEF Ongoing
      <4> QED BY <2>1, <4>1, Zenon
    <3> QED BY <2>1, <3>1, Zenon DEF FileInv
  <2>6. entries' = <<>>
    <3>1. pc # "library" BY <2>1, Zenon DEF Alive
    <3> QED BY <2>1, <3>1, Zenon DEF FileInv
  <2> QED BY <2>2, <2>3, <2>4, <2>5, <2>6, Zenon DEF FileInv, Ongoing
<1>9. CASE LaterParse
  <2>1. pc = "gone" /\ Parse /\ UNCHANGED <<scenario, window, pc, video>>
    BY <1>9, Zenon DEF LaterParse, ViewOnly, videoVars
  <2>2. phase' \notin Ongoing /\ entries' = entries
    <3>1. phase' \in Parsing /\ entries' = entries BY <2>1, ParseLeaves, Zenon
    <3>2. Parsing \cap Ongoing = {} BY DEF Parsing, Ongoing
    <3> QED BY <3>1, <3>2
  <2>3. ~FileOpen' BY <2>1, Zenon DEF FileInv, FileOpen
  <2>4. entries' = <<>> BY <2>1, <2>2, Zenon DEF FileInv
  <2> QED BY <1>1, <2>1, <2>2, <2>3, <2>4, Zenon DEF FileInv, Ongoing
<1>10. CASE Library
  <2>1. pc = "library" /\ UseNext /\ UNCHANGED <<scenario, window, pc, video>>
    BY <1>10, Zenon DEF Library, ViewOnly, videoVars
  <2>2. ~FileOpen' BY <2>1, Zenon DEF FileInv, FileOpen
  <2>3. phase' \in Ongoing => FilePart(avi', wrote', entries')
    <3>1. CASE phase \in Ongoing
      <4>1. FilePart(avi, wrote, entries) BY <3>1, Zenon DEF FileInv
      <4> QED BY <2>1, <4>1, LibraryOn, Zenon DEF Ongoing
    <3>2. CASE phase \notin Ongoing
      <4>1. phase # "write" BY <3>2, Zenon DEF Ongoing
      <4>2. Crash \/ Close => FALSE BY <4>1, Zenon DEF Crash, Close
      <4>3. ~Call BY <4>1, Zenon DEF Call
      <4>4. Parse
        BY <2>1, <4>2, <4>3, Zenon DEF UseNext, OpenList, StreamHeader, CloseList, Create, AppendChunk,
           AppendData, AppendFake, Write2Fields, avif_write_audio, AlignNext, In, InMovi
      <4>5. phase' \in Parsing BY <4>4, ParseLeaves, Zenon
      <4>6. Parsing \cap Ongoing = {} BY DEF Parsing, Ongoing
      <4> QED BY <4>5, <4>6
    <3> QED BY <3>1, <3>2
  <2> QED BY <1>1, <2>1, <2>2, <2>3, Zenon DEF FileInv, Ongoing
<1> QED
  BY <1>2, <1>3, <1>4, <1>5, <1>6, <1>7, <1>8, <1>9, <1>10, Zenon DEF ViewerNext, FrameThread,
     CommandThread

(* The entries of the index lead to the chunks of the sound.                *)
LEMMA EntriesLead == FileInv => IndexPoints
<1> SUFFICES ASSUME FileInv, phase \in {"write", "closed"},
                    NEW i \in DOMAIN entries, entries[i].whole
             PROVE  LET o == MoviType + entries[i].off
                    IN  o \in DOMAIN file.hdr /\ file.hdr[o].name = "01wb"
  BY Zenon DEF IndexPoints
<1>1. PICK a, w, s : a = avi /\ w = wrote /\ s = entries OBVIOUS
<1>2. FilePart(a, w, s) BY <1>1, Zenon DEF FileInv, Ongoing
<1>3. Ready(a, w) /\ s \in Seq(IndexEntries) /\ Indexed(a, s) BY <1>2, Zenon DEF FilePart
<1>4. i \in 1 .. Len(s)
  <2>1. DOMAIN s = 1 .. Len(s) BY <1>3
  <2> QED BY <1>1, <2>1, Zenon
<1>5. Points(a, s[i]) BY <1>1, <1>3, <1>4, Zenon DEF Indexed
<1>6. HasMovi(w)
  <2>1. s # <<>>
    <3>1. CASE s = <<>>
      <4>1. Len(s) = 0 BY <3>1
      <4> QED BY <1>4, <4>1
    <3> QED BY <3>1
  <2> QED BY <1>2, <2>1, Zenon DEF FilePart
<1>7. PICK p : p = (CHOOSE q \in {q \in DOMAIN a.file.hdr :
                                      a.file.hdr[q].name = List /\ a.file.hdr[q].type = "movi"} : TRUE)
  OBVIOUS
<1>8. p \in DOMAIN a.file.hdr /\ a.file.hdr[p].type = "movi" BY <1>3, <1>6, <1>7, MoviThere, Zenon
<1>9. p \in Nat /\ p + ChunkHead = a.movi_offs BY <1>3, <1>6, <1>8, MoviIs
<1>10. MoviType = a.movi_offs
  <2>1. MoviType = p + ListHead - 4 BY <1>1, <1>7, Zenon DEF MoviType, file
  <2>2. p + ListHead - 4 = p + ChunkHead BY <1>9 DEF ListHead, ChunkHead
  <2> QED BY <1>9, <2>1, <2>2
<1> QED BY <1>1, <1>5, <1>10, Zenon DEF Points, file

(* The entries of the index avif_write_audio keeps lead to the headers of   *)
(* its chunks: the place of the movi list is known from the first entry on, *)
(* no later call moves a header, and a chunk begins where the size of the   *)
(* file was, except after a chunk that was being written piece by piece.    *)
THEOREM EntriesPoint == ViewerSpec => []IndexPoints
<1>1. ViewerInit => FileInv BY FileInit
<1>2. FileInv /\ [ViewerNext]_viewerVars => FileInv' BY FileNext
<1>3. FileInv => IndexPoints BY EntriesLead
<1> QED BY <1>1, <1>2, <1>3, PTL DEF ViewerSpec

----------------------------------------------------------------------------
(* A file is walked through                                                 *)

(* A file whose lists are closed and whose chunks hold data; its last byte  *)
(* may be missing.                                                          *)
Sound(f, W, at) ==
    /\ W # <<>> /\ Nested(W) /\ Placed(f.hdr, W, at) /\ Sized(f.hdr, W, at, 0) /\ Present(f, W, at)
    /\ f.end \in Nat /\ f.end <= at[Len(W) + 1] /\ f.end + 1 >= at[Len(W) + 1]
    /\ \A p \in DOMAIN f.hdr : f.hdr[p].type = "" => f.hdr[p].size > 0

(* An element ends somewhere.                                               *)
LEMMA EndIs ==
    ASSUME NEW W \in Seq(Elements), NEW o \in 1 .. Len(W)
    PROVE  \E j \in o + 1 .. Len(W) + 1 : EndsAt(W, o, j)
<1>1. PICK N \in Nat : N = Len(W) OBVIOUS
<1> DEFINE S == {n \in 0 .. N - o : Around(W, o, o + n)}
<1>2. 0 \in S
  <2>1. 0 \in 0 .. N - o BY <1>1
  <2>2. Around(W, o, o + 0) BY DEF Around
  <2> QED BY <2>1, <2>2
<1>3. CASE \E n \in 0 .. N - o : n < N - o /\ n \in S /\ n + 1 \notin S
  <2>1. PICK n \in 0 .. N - o : n < N - o /\ n \in S /\ n + 1 \notin S BY <1>3
  <2>2. PICK j \in Nat : j = o + n + 1 BY <2>1
  <2>3. j \in o + 1 .. N /\ n + 1 \in 0 .. N - o /\ o + n = j - 1 /\ o + (n + 1) = j BY <1>1, <2>1, <2>2
  <2>4. Around(W, o, j - 1) /\ ~Around(W, o, j) BY <2>1, <2>3
  <2>5. W[j].level <= W[o].level
    <3>1. PICK i \in o + 1 .. j : ~(W[i].level > W[o].level) BY <2>4 DEF Around
    <3>2. i = j
      <4>1. i \in o + 1 .. j - 1 \/ i = j BY <2>3
      <4> QED BY <2>4, <3>1, <4>1 DEF Around
    <3>3. W[j].level \in Nat /\ W[o].level \in Nat BY <1>1, <2>3, ElementIs
    <3> QED BY <3>1, <3>2, <3>3
  <2>6. j \in o + 1 .. Len(W) + 1 BY <1>1, <2>3
  <2> QED BY <2>4, <2>5, <2>6, Zenon DEF EndsAt
<1>4. CASE ~\E n \in 0 .. N - o : n < N - o /\ n \in S /\ n + 1 \notin S
  <2>1. N - o \in Nat BY <1>1
  <2>2. \A n \in 0 .. N - o : n < N - o /\ n \in S => n + 1 \in S BY <1>4
  <2> HIDE DEF S
  <2>3. \A n \in 0 .. N - o : n \in S BY <1>2, <2>1, <2>2, UpTo
  <2>4. N - o \in S BY <2>1, <2>3
  <2>5. Around(W, o, N)
    <3>1. o + (N - o) = N BY <1>1
    <3> QED BY <2>4, <3>1 DEF S
  <2>6. N + 1 \in o + 1 .. Len(W) + 1 /\ N + 1 - 1 = N /\ ~(N + 1 <= Len(W)) BY <1>1
  <2>7. Around(W, o, N + 1 - 1) BY <2>5, <2>6
  <2>8. EndsAt(W, o, N + 1) BY <2>6, <2>7 DEF EndsAt
  <2> QED BY <2>6, <2>8
<1> QED BY <1>3, <1>4

(* An element takes more room than an empty chunk, and all but the last     *)
(* byte of it is in the file.                                               *)
LEMMA Gap ==
    ASSUME NEW f, NEW W, NEW at, Sound(f, W, at), NEW N \in Nat, N = Len(W), NEW k \in 0 .. N - 1
    PROVE  /\ at[k + 1] \in Nat /\ at[k + 2] \in Nat /\ at[k + 2] >= at[k + 1] + 10
           /\ at[k + 2] <= at[N + 1] /\ f.end >= at[k + 1] + 9
           /\ at[k + 1] \in DOMAIN f.hdr /\ f.hdr[at[k + 1]].size \in Nat
           /\ IsEven(at[k + 1]) /\ IsEven(at[k + 2])
<1>1. W \in Seq(Elements) /\ Placed(f.hdr, W, at) BY Zenon DEF Sound, Nested
<1>2. k + 1 \in 1 .. N /\ k + 1 \in 1 .. N + 1 /\ k + 2 \in 1 .. N + 1 /\ k + 1 + 1 = k + 2 OBVIOUS
<1>3. /\ at[k + 1] \in Nat /\ at[k + 2] \in Nat /\ at[N + 1] \in Nat
      /\ IsEven(at[k + 1]) /\ IsEven(at[k + 2]) /\ at[k + 2] <= at[N + 1]
  <2>1. N + 1 \in 1 .. Len(W) + 1 OBVIOUS
  <2> QED BY <1>1, <1>2, <2>1, PlaceIs
<1>4. PICK h : h = f.hdr OBVIOUS
<1>5. at[k + 1] \in DOMAIN h /\ h[at[k + 1]] \in Heads
  <2>1. h \in [DOMAIN h -> Heads] /\ at[k + 1] \in DOMAIN h BY <1>1, <1>2, <1>4, Zenon DEF Placed
  <2> QED BY <2>1
<1>6. h[at[k + 1]].size \in Nat BY <1>5 DEF Heads
<1>7. at[k + 2] >= at[k + 1] + 10
  <2>1. HeadFor(h[at[k + 1]], W[k + 1], k + 1 = 1, at[k + 1], at[k + 2]) BY <1>1, <1>2, <1>4, Zenon DEF Placed
  <2>2. CASE at[k + 2] = at[k + 1] + ListHead BY <1>3, <2>2 DEF ListHead
  <2>3. CASE h[at[k + 1]].type = "" /\ at[k + 2] = at[k + 1] + ChunkHead + Even(h[at[k + 1]].size)
    <3>1. h[at[k + 1]].size > 0 BY <1>4, <1>5, <2>3, Zenon DEF Sound
    <3>2. PICK n \in Nat : n = h[at[k + 1]].size /\ n > 0 BY <1>6, <3>1
    <3>3. Even(n) >= 2 BY <3>2 DEF Even
    <3>4. Even(n) \in Nat BY EvenIs
    <3>5. at[k + 2] = at[k + 1] + ChunkHead + Even(n) BY <2>3, <3>2, Zenon
    <3> QED BY <1>3, <3>3, <3>4, <3>5 DEF ChunkHead
  <2> QED BY <2>1, <2>2, <2>3, Zenon DEF HeadFor
<1>8. f.end \in Nat /\ f.end + 1 >= at[N + 1] BY Zenon DEF Sound
<1>9. f.end >= at[k + 1] + 9 BY <1>3, <1>7, <1>8
<1> QED BY <1>3, <1>4, <1>5, <1>6, <1>7, <1>9, Zenon

(* avi_process_list: the lists that are being read, innermost last.  Each   *)
(* has come as far as the next one begins.                                  *)
Reads == [off : Nat, pos : Nat, size : Nat]
Reading(W, at, k, i, r) ==
    \E o \in 1 .. k, j \in k + 1 .. Len(W) + 1 :
        W[o].level = i - 1 /\ EndsAt(W, o, j) /\ r.off = at[o] /\ r.size = at[j] - at[o] - ChunkHead
Walk(W, at, k, st, p, sn) ==
    /\ k \in 0 .. Len(W) /\ p = at[k + 1]
    /\ sn \in Seq(Elements) /\ Len(sn) = k /\ \A i \in 1 .. k : sn[i] = W[i]
    /\ st \in Seq(Reads)
    /\ \A i \in 1 .. Len(st) : Reading(W, at, k, i, st[i])
    /\ \A i \in 1 .. Len(st) - 1 : st[i].off + st[i].pos = st[i + 1].off
    /\ Len(st) > 0 => st[Len(st)].off + st[Len(st)].pos = p
    /\ k < Len(W) => W[k + 1].level <= Len(st)

(* The innermost list has come to its end when its position says so.        *)
LEMMA TopEnds ==
    ASSUME NEW f, NEW W, NEW at, Sound(f, W, at), NEW N \in Nat, N = Len(W),
           NEW k, NEW st, NEW p, NEW sn, Walk(W, at, k, st, p, sn), NEW n \in Nat, n = Len(st), n > 0
    PROVE  /\ k \in 0 .. N /\ st[n] \in Reads
           /\ st[n].pos < st[n].size => k < N /\ W[k + 1].level = n
           /\ ~(st[n].pos < st[n].size) /\ k < N => W[k + 1].level <= n - 1
<1>1. k \in 0 .. N /\ p = at[k + 1] BY DEF Walk
<1>2. st[n] \in Reads /\ st[n].off + st[n].pos = at[k + 1]
  <2>1. st \in Seq(Reads) /\ n \in 1 .. Len(st) BY DEF Walk
  <2>2. st[n] \in Reads BY <2>1, ElementOfSeq
  <2> QED BY <2>2, <1>1 DEF Walk
<1>3. PICK o \in 1 .. k, j \in k + 1 .. N + 1 :
        W[o].level = n - 1 /\ EndsAt(W, o, j) /\ st[n].off = at[o] /\ st[n].size = at[j] - at[o] - ChunkHead
  <2>1. n \in 1 .. Len(st) OBVIOUS
  <2>2. Reading(W, at, k, n, st[n]) BY <2>1, Zenon DEF Walk
  <2> QED BY <2>2, Zenon DEF Reading
<1>4. W \in Seq(Elements) /\ Placed(f.hdr, W, at) BY Zenon DEF Sound, Nested
<1>5. at[k + 1] \in Nat /\ at[o] \in Nat /\ at[j] \in Nat
  <2>1. k + 1 \in 1 .. N + 1 /\ o \in 1 .. N + 1 /\ j \in 1 .. N + 1 BY <1>1, <1>3
  <2>2. at \in [1 .. N + 1 -> Nat] BY <1>4, Zenon DEF Placed
  <2> QED BY <2>1, <2>2
<1>6. st[n].pos = at[k + 1] - at[o] /\ st[n].size = at[j] - at[o] - 8 /\ st[n].pos \in Nat /\ st[n].size \in Nat
  <2>1. st[n].pos \in Nat /\ st[n].size \in Nat /\ st[n].off \in Nat BY <1>2 DEF Reads
  <2> QED BY <1>2, <1>3, <1>5, <2>1 DEF ChunkHead
<1>7. CASE k + 1 = j
  <2>1. ~(st[n].pos < st[n].size) BY <1>5, <1>6, <1>7
  <2>2. k < N => W[k + 1].level <= n - 1 BY <1>1, <1>3, <1>7 DEF EndsAt
  <2> QED BY <1>1, <1>2, <2>1, <2>2
<1>8. CASE k + 1 < j
  <2>1. k \in 0 .. N - 1 /\ k + 2 \in 1 .. N + 1 /\ j \in 1 .. N + 1 BY <1>1, <1>3, <1>8
  <2>2. at[k + 2] >= at[k + 1] + 10 /\ at[k + 2] \in Nat BY <2>1, Gap
  <2>3. at[j] >= at[k + 2]
    <3>1. CASE j = k + 2 BY <3>1, <2>2
    <3>2. CASE j # k + 2
      <4>1. k + 2 < j BY <1>1, <1>3, <1>8, <3>2
      <4>2. at[k + 2] + 8 <= at[j] BY <1>4, <2>1, <4>1 DEF Placed, ChunkHead
      <4> QED BY <4>2, <2>2, <1>5
    <3> QED BY <3>1, <3>2
  <2>4. st[n].pos < st[n].size
    <3>1. PICK x \in Nat : x = at[k + 1] BY <1>5
    <3>2. PICK u \in Nat : u = at[j] BY <1>5
    <3>3. PICK z \in Nat : z = at[o] BY <1>5
    <3>4. u >= x + 10 BY <2>2, <2>3, <3>1, <3>2
    <3>5. st[n].pos = x - z /\ st[n].size = u - z - 8 BY <1>6, <3>1, <3>2, <3>3
    <3> QED BY <3>4, <3>5
  <2>5. W[k + 1].level > n - 1
    <3>1. k + 1 \in o + 1 .. j - 1 BY <1>1, <1>3, <1>8
    <3> QED BY <1>3, <3>1 DEF EndsAt, Around
  <2>6. W[k + 1].level <= n BY <2>1 DEF Walk
  <2>7. W[k + 1].level \in Nat
    <3>1. k + 1 \in 1 .. Len(W) BY <2>1
    <3> QED BY <1>4, <3>1, ElementIs
  <2> QED BY <1>2, <2>1, <2>4, <2>5, <2>6, <2>7
<1> QED BY <1>1, <1>3, <1>7, <1>8

(* Lists that are being read end behind an element that is inside of them.  *)
LEMMA ReadOn ==
    ASSUME NEW W \in Seq(Elements), NEW at, NEW N \in Nat, N = Len(W), NEW k \in 0 .. N - 1,
           NEW i \in Nat, W[k + 1].level >= i, i >= 1, NEW r, Reading(W, at, k, i, r),
           NEW s, s.off = r.off, s.size = r.size
    PROVE  Reading(W, at, k + 1, i, s)
<1>1. PICK o \in 1 .. k, j \in k + 1 .. N + 1 :
        W[o].level = i - 1 /\ EndsAt(W, o, j) /\ r.off = at[o] /\ r.size = at[j] - at[o] - ChunkHead
  BY Zenon DEF Reading
<1>2. W[k + 1].level \in Nat
  <2>1. k + 1 \in 1 .. Len(W) OBVIOUS
  <2> QED BY <2>1, ElementIs
<1>3. j # k + 1
  <2>1. ASSUME j = k + 1 PROVE FALSE
    <3>1. W[k + 1].level <= i - 1 BY <1>1, <2>1 DEF EndsAt
    <3> QED BY <3>1, <1>2
  <2> QED BY <2>1
<1>4. o \in 1 .. k + 1 /\ j \in (k + 1) + 1 .. Len(W) + 1 BY <1>3
<1>5. s.off = at[o] /\ s.size = at[j] - at[o] - ChunkHead BY <1>1
<1> QED BY <1>1, <1>4, <1>5, Zenon DEF Reading

(* The next element is read in the lists around it.                         *)
Reaches(W, k, n) == k < Len(W) /\ W[k + 1].level = n

(* An element that is read extends what has been read by the next of W.     *)
LEMMA SeenOn ==
    ASSUME NEW f, NEW W, NEW at, Sound(f, W, at), NEW k, NEW st, NEW p, NEW sn, Walk(W, at, k, st, p, sn),
           Reaches(W, k, Len(st)), NEW e, e = W[k + 1]
    PROVE  /\ k + 1 \in 0 .. Len(W) /\ Append(sn, e) \in Seq(Elements) /\ Len(Append(sn, e)) = k + 1
           /\ \A i \in 1 .. k + 1 : Append(sn, e)[i] = W[i]
<1>1. W \in Seq(Elements) BY Zenon DEF Sound, Nested
<1>2. k \in 0 .. Len(W) - 1 BY <1>1 DEF Walk, Reaches
<1>3. e \in Elements
  <2>1. k + 1 \in 1 .. Len(W) BY <1>1, <1>2
  <2> QED BY <1>1, <2>1, ElementIs
<1>4. sn \in Seq(Elements) /\ Len(sn) = k /\ \A i \in 1 .. k : sn[i] = W[i] BY Zenon DEF Walk
<1>5. Append(sn, e) \in Seq(Elements) /\ Len(Append(sn, e)) = k + 1 /\ Append(sn, e)[k + 1] = e
      /\ \A i \in 1 .. k : Append(sn, e)[i] = sn[i]
  BY <1>3, <1>4, AppendProperties
<1>6. \A i \in 1 .. k + 1 : Append(sn, e)[i] = W[i]
  <2>1. ASSUME NEW i \in 1 .. k + 1 PROVE Append(sn, e)[i] = W[i]
    <3>1. CASE i = k + 1 BY <1>5, <3>1
    <3>2. CASE i # k + 1
      <4>1. i \in 1 .. k BY <1>2, <3>2
      <4> QED BY <1>4, <1>5, <4>1
    <3> QED BY <3>1, <3>2
  <2> QED BY <2>1
<1> QED BY <1>2, <1>5, <1>6

(* The next element is a list: it is in the file, has a size, and ends in   *)
(* the file.                                                                *)
LEMMA ListHeads ==
    ASSUME NEW f, NEW W, NEW at, Sound(f, W, at), NEW N \in Nat, N = Len(W), NEW k \in 0 .. N - 1,
           W[k + 1].name \in ListNames, NEW z, z = f.hdr[at[k + 1]].size
    PROVE  /\ z \in Nat /\ z # 0 /\ at[k + 1] + z <= f.end /\ f.end >= at[k + 1] + ListHead
           /\ at[k + 2] = at[k + 1] + ListHead
           /\ \E j \in k + 2 .. N + 1 : EndsAt(W, k + 1, j) /\ z = at[j] - at[k + 1] - ChunkHead
<1>1. W \in Seq(Elements) /\ Placed(f.hdr, W, at) /\ Sized(f.hdr, W, at, 0) /\ Present(f, W, at)
  BY Zenon DEF Sound, Nested
<1>2. k + 1 \in 1 .. Len(W) /\ k + 1 \in 1 .. N /\ k + 2 \in 1 .. N + 1 /\ k + 1 + 1 = k + 2 OBVIOUS
<1>3. PICK j \in k + 1 + 1 .. Len(W) + 1 : EndsAt(W, k + 1, j) BY <1>1, <1>2, EndIs
<1>4. j \in 1 .. Len(W) + 1 /\ j \in k + 2 .. N + 1 BY <1>3
<1>5. W[k + 1].level \in Nat BY <1>1, <1>2, ElementIs
<1>6. z = at[j] - at[k + 1] - ChunkHead
  <2>1. W[k + 1].level >= 0 BY <1>5
  <2> QED BY <1>1, <1>2, <1>3, <1>4, <2>1, Zenon DEF Sized
<1>7. at[k + 2] = at[k + 1] + ListHead
  <2>1. HeadFor(f.hdr[at[k + 1]], W[k + 1], k + 1 = 1, at[k + 1], at[k + 2]) BY <1>1, <1>2, Zenon DEF Placed
  <2> QED BY <2>1, Zenon DEF HeadFor
<1>8. f.end >= at[k + 1] + ListHead BY <1>1, <1>2, Zenon DEF Present
<1>9. PICK x \in Nat : x = at[k + 1]
  <2>1. k + 1 \in 1 .. Len(W) + 1 OBVIOUS
  <2> QED BY <1>1, <2>1, PlaceIs
<1>10. PICK u \in Nat : u = at[j] /\ u <= at[N + 1]
  <2>1. at[j] \in Nat /\ at[j] <= at[N + 1]
    <3>1. N + 1 \in 1 .. Len(W) + 1 /\ at \in [1 .. N + 1 -> Nat]
      <4>1. N + 1 \in 1 .. Len(W) + 1 OBVIOUS
      <4> QED BY <1>1, <4>1, Zenon DEF Placed
    <3>2. at[j] \in Nat /\ at[N + 1] \in Nat BY <1>4, <3>1
    <3>3. j # N + 1 => at[j] + ChunkHead <= at[N + 1]
      <4>1. j # N + 1 => j < N + 1 BY <1>4
      <4> QED BY <1>1, <1>4, <3>1, <4>1, Zenon DEF Placed
    <3> QED BY <3>2, <3>3 DEF ChunkHead
  <2> QED BY <2>1
<1>11. u >= x + 12
  <2>1. CASE j = k + 2 BY <1>7, <1>9, <1>10, <2>1 DEF ListHead
  <2>2. CASE j # k + 2
    <3>1. k + 2 < j BY <1>4, <2>2
    <3>2. at[k + 2] + ChunkHead <= at[j] BY <1>1, <1>2, <1>4, <3>1, Zenon DEF Placed
    <3> QED BY <1>7, <1>9, <1>10, <3>2 DEF ListHead, ChunkHead
  <2> QED BY <2>1, <2>2
<1>12. z = u - x - 8 BY <1>6, <1>9, <1>10 DEF ChunkHead
<1>13. f.end \in Nat /\ f.end + 1 >= at[N + 1] /\ at[N + 1] \in Nat
  <2>1. N + 1 \in 1 .. Len(W) + 1 OBVIOUS
  <2>2. at[N + 1] \in Nat BY <1>1, <2>1, PlaceIs
  <2> QED BY <2>2, Zenon DEF Sound
<1>14. z \in Nat /\ z # 0 /\ x + z <= f.end
  <2>1. z \in Nat /\ z # 0 BY <1>11, <1>12
  <2>2. PICK t \in Nat : t = at[N + 1] BY <1>13
  <2>3. PICK v \in Nat : v = f.end BY <1>13
  <2>4. u <= t /\ t <= v + 1 BY <1>10, <1>13, <2>2, <2>3
  <2>5. x + z <= v BY <1>12, <2>4
  <2> QED BY <2>1, <2>3, <2>5
<1> QED BY <1>3, <1>4, <1>6, <1>7, <1>8, <1>9, <1>14

(* The walk goes on behind the head of a list, and in the list.             *)
LEMMA WalkList ==
    ASSUME NEW f, NEW W, NEW at, Sound(f, W, at), NEW k, NEW st, NEW p, NEW sn, Walk(W, at, k, st, p, sn),
           Reaches(W, k, Len(st)), W[k + 1].name \in ListNames, NEW z, z = f.hdr[p].size,
           NEW r, r = [off |-> p, pos |-> ListHead, size |-> z],
           NEW e, e = W[k + 1]
    PROVE  /\ p \in Nat /\ z \in Nat /\ z # 0 /\ p + z <= f.end /\ f.end >= p + ListHead
           /\ Walk(W, at, k + 1, Append(st, r), p + ListHead, Append(sn, e))
<1>1. W \in Seq(Elements) /\ Placed(f.hdr, W, at) BY Zenon DEF Sound, Nested
<1>2. PICK N \in Nat : N = Len(W) BY <1>1
<1>3. k \in 0 .. N - 1 /\ p = at[k + 1] BY <1>2 DEF Walk, Reaches
<1>4. st \in Seq(Reads) BY Zenon DEF Walk
<1>5. PICK n \in Nat : n = Len(st) BY <1>4
<1>6. W[k + 1].level = n BY <1>5 DEF Reaches
<1>7. /\ z \in Nat /\ z # 0 /\ p + z <= f.end /\ f.end >= p + ListHead
      /\ at[k + 2] = p + ListHead
      /\ \E j \in k + 2 .. N + 1 : EndsAt(W, k + 1, j) /\ z = at[j] - p - ChunkHead
  <2>1. z = f.hdr[at[k + 1]].size BY <1>3
  <2>2. /\ z \in Nat /\ z # 0 /\ at[k + 1] + z <= f.end /\ f.end >= at[k + 1] + ListHead
        /\ at[k + 2] = at[k + 1] + ListHead
        /\ \E j \in k + 2 .. N + 1 : EndsAt(W, k + 1, j) /\ z = at[j] - at[k + 1] - ChunkHead
    BY <1>2, <1>3, <2>1, ListHeads
  <2> QED BY <1>3, <2>2, Zenon
<1>8. p \in Nat
  <2>1. k + 1 \in 1 .. Len(W) + 1 BY <1>2, <1>3
  <2> QED BY <1>1, <1>3, <2>1, PlaceIs
<1>9. r \in Reads /\ r.off = p /\ r.pos = ListHead /\ r.size = z BY <1>7, <1>8 DEF Reads, ListHead
<1> DEFINE t == Append(st, r)
<1>10. t \in Seq(Reads) /\ Len(t) = n + 1 /\ t[n + 1] = r /\ \A i \in 1 .. n : t[i] = st[i]
  BY <1>4, <1>5, <1>9, AppendProperties
<1> HIDE DEF t
<1>11. \A i \in 1 .. Len(t) : Reading(W, at, k + 1, i, t[i])
  <2>1. ASSUME NEW i \in 1 .. n + 1 PROVE Reading(W, at, k + 1, i, t[i])
    <3>1. CASE i = n + 1
      <4>1. PICK j \in k + 2 .. N + 1 : EndsAt(W, k + 1, j) /\ z = at[j] - p - ChunkHead BY <1>7
      <4>2. k + 1 \in 1 .. k + 1 /\ j \in (k + 1) + 1 .. Len(W) + 1 /\ i - 1 = n BY <1>2, <1>3, <3>1
      <4>3. t[i].off = at[k + 1] /\ t[i].size = at[j] - at[k + 1] - ChunkHead
        BY <1>3, <1>9, <1>10, <3>1, <4>1, Zenon
      <4> QED BY <1>6, <4>1, <4>2, <4>3, Zenon DEF Reading
    <3>2. CASE i # n + 1
      <4>1. i \in 1 .. n BY <3>2
      <4>2. Reading(W, at, k, i, st[i]) BY <1>5, <4>1, Zenon DEF Walk
      <4>3. W[k + 1].level >= i /\ i >= 1 /\ i \in Nat BY <1>6, <4>1
      <4>4. t[i].off = st[i].off /\ t[i].size = st[i].size BY <1>10, <4>1
      <4> QED BY <1>1, <1>2, <1>3, <4>2, <4>3, <4>4, ReadOn, Zenon
    <3> QED BY <3>1, <3>2
  <2> QED BY <1>10, <2>1
<1>12. \A i \in 1 .. Len(t) - 1 : t[i].off + t[i].pos = t[i + 1].off
  <2>1. ASSUME NEW i \in 1 .. n PROVE t[i].off + t[i].pos = t[i + 1].off
    <3>1. CASE i = n
      <4>1. st[n].off + st[n].pos = p BY <1>5, <3>1 DEF Walk
      <4> QED BY <1>9, <1>10, <3>1, <4>1
    <3>2. CASE i # n
      <4>1. i \in 1 .. n - 1 /\ i + 1 \in 1 .. n BY <3>2
      <4>2. st[i].off + st[i].pos = st[i + 1].off BY <1>5, <4>1, Zenon DEF Walk
      <4> QED BY <1>10, <4>1, <4>2
    <3> QED BY <3>1, <3>2
  <2>2. Len(t) - 1 = n BY <1>10
  <2> QED BY <2>1, <2>2
<1>13. Len(t) > 0 /\ t[Len(t)].off + t[Len(t)].pos = p + ListHead BY <1>9, <1>10
<1>14. k + 1 < Len(W) => W[(k + 1) + 1].level <= Len(t)
  <2>1. ASSUME k + 1 < N PROVE W[k + 2].level <= n + 1
    <3>1. k + 1 \in 1 .. Len(W) - 1 /\ k + 1 + 1 = k + 2 BY <1>2, <1>3, <2>1
    <3>2. Follows(W[k + 1], W[k + 2]) BY <3>1, Zenon DEF Sound, Nested
    <3>3. W[k + 2].level \in Nat
      <4>1. k + 2 \in 1 .. Len(W) BY <3>1
      <4> QED BY <1>1, <4>1, ElementIs
    <3>4. W[k + 2].level <= W[k + 1].level \/ W[k + 2].level = W[k + 1].level + 1 BY <3>2, Zenon DEF Follows
    <3> QED BY <1>6, <3>3, <3>4
  <2>2. (k + 1) + 1 = k + 2 BY <1>3
  <2> QED BY <1>2, <1>10, <2>1, <2>2
<1>15. (k + 1) + 1 = k + 2 BY <1>3
<1>16. Walk(W, at, k + 1, t, p + ListHead, Append(sn, e))
  <2>1. /\ k + 1 \in 0 .. Len(W) /\ Append(sn, e) \in Seq(Elements) /\ Len(Append(sn, e)) = k + 1
        /\ \A i \in 1 .. k + 1 : Append(sn, e)[i] = W[i]
    BY SeenOn
  <2>2. p + ListHead = at[(k + 1) + 1] BY <1>7, <1>15
  <2> QED BY <1>10, <1>11, <1>12, <1>13, <1>14, <2>1, <2>2, Zenon DEF Walk
<1> QED BY <1>7, <1>8, <1>16 DEF t

(* The position of the innermost list goes on by u.                         *)
MovedOn(st, t, n, u) ==
    /\ t \in Seq(Reads) /\ Len(t) = n
    /\ \A i \in 1 .. n : t[i].off = st[i].off /\ t[i].size = st[i].size
    /\ \A i \in 1 .. n - 1 : t[i].pos = st[i].pos
    /\ t[n].pos = st[n].pos + u

(* What MovedOn says holds when the innermost position is increased.        *)
LEMMA PosOn ==
    ASSUME NEW st \in Seq(Reads), NEW n \in Nat, n = Len(st), n > 0, NEW u \in Nat,
           NEW t, t = [st EXCEPT ![n].pos = @ + u]
    PROVE  MovedOn(st, t, n, u)
<1>1. st \in [1 .. n -> Reads] BY LenProperties
<1>2. n \in 1 .. n OBVIOUS
<1>3. PICK d : d = [st[n] EXCEPT !.pos = st[n].pos + u] OBVIOUS
<1>4. st[n] \in Reads BY <1>1, <1>2
<1>5. d \in Reads /\ d.off = st[n].off /\ d.size = st[n].size /\ d.pos = st[n].pos + u
  <2>1. PICK r \in Reads : r = st[n] BY <1>4
  <2>2. r.off \in Nat /\ r.pos \in Nat /\ r.size \in Nat /\ r = [off |-> r.off, pos |-> r.pos, size |-> r.size]
    BY DEF Reads
  <2>3. d = [off |-> r.off, pos |-> r.pos + u, size |-> r.size] BY <1>3, <2>1, <2>2
  <2> QED BY <2>1, <2>2, <2>3 DEF Reads
<1>6. t = [st EXCEPT ![n] = d] BY <1>3
<1>7. t \in [1 .. n -> Reads] /\ t[n] = d /\ \A i \in 1 .. n - 1 : t[i] = st[i]
  <2>1. d \in Reads BY <1>5
  <2>2. \A i \in 1 .. n - 1 : i \in 1 .. n /\ i # n OBVIOUS
  <2> QED BY <1>1, <1>2, <1>6, <2>1, <2>2, Zenon
<1>8. t \in Seq(Reads) BY <1>7
<1>9. Len(t) = n BY <1>7, <1>8
<1>10. ASSUME NEW i \in 1 .. n PROVE t[i].off = st[i].off /\ t[i].size = st[i].size
  <2>1. CASE i = n BY <1>5, <1>7, <2>1
  <2>2. CASE i # n
    <3>1. i \in 1 .. n - 1 BY <2>2
    <3> QED BY <1>7, <3>1
  <2> QED BY <2>1, <2>2
<1> QED BY <1>5, <1>7, <1>8, <1>9, <1>10 DEF MovedOn

(* The walk goes on behind a chunk.                                         *)
LEMMA WalkChunk ==
    ASSUME NEW f, NEW W, NEW at, Sound(f, W, at), NEW k, NEW st, NEW p, NEW sn, Walk(W, at, k, st, p, sn),
           NEW n \in Nat, n = Len(st), n > 0, Reaches(W, k, n), W[k + 1].name \notin ListNames,
           NEW u, u = ChunkHead + Even(f.hdr[p].size), NEW t, MovedOn(st, t, n, u),
           NEW e, e = W[k + 1]
    PROVE  Walk(W, at, k + 1, t, p + u, Append(sn, e))
<1>1. W \in Seq(Elements) /\ Placed(f.hdr, W, at) BY Zenon DEF Sound, Nested
<1>2. PICK N \in Nat : N = Len(W) BY <1>1
<1>3. k \in 0 .. N - 1 /\ p = at[k + 1] BY <1>2 DEF Walk, Reaches
<1>4. st \in Seq(Reads) BY Zenon DEF Walk
<1>5. W[k + 1].level = n BY DEF Reaches
<1>6. p \in DOMAIN f.hdr /\ f.hdr[p].size \in Nat
  <2>1. at[k + 1] \in DOMAIN f.hdr /\ f.hdr[at[k + 1]].size \in Nat BY <1>2, <1>3, Gap
  <2> QED BY <1>3, <2>1
<1>7. u \in Nat
  <2>1. Even(f.hdr[p].size) \in Nat BY <1>6, EvenIs
  <2> QED BY <2>1 DEF ChunkHead
<1>8. at[k + 2] = p + u
  <2>1. k + 1 \in 1 .. Len(W) /\ k + 1 + 1 = k + 2 BY <1>2, <1>3
  <2>2. HeadFor(f.hdr[at[k + 1]], W[k + 1], k + 1 = 1, at[k + 1], at[k + 2]) BY <1>1, <2>1, Zenon DEF Placed
  <2>3. at[k + 2] = at[k + 1] + ChunkHead + Even(f.hdr[at[k + 1]].size) BY <2>2, Zenon DEF HeadFor
  <2>4. at[k + 2] = p + ChunkHead + Even(f.hdr[p].size) BY <1>3, <2>3, Zenon
  <2>5. PICK x \in Nat : x = Even(f.hdr[p].size) BY <1>6, EvenIs
  <2>6. p \in Nat
    <3>1. k + 1 \in 1 .. Len(W) + 1 BY <2>1
    <3> QED BY <1>1, <1>3, <3>1, PlaceIs
  <2> QED BY <2>4, <2>5, <2>6 DEF ChunkHead
<1>9. /\ t \in Seq(Reads) /\ Len(t) = n
      /\ \A i \in 1 .. n : t[i].off = st[i].off /\ t[i].size = st[i].size
      /\ \A i \in 1 .. n - 1 : t[i].pos = st[i].pos
      /\ t[n].pos = st[n].pos + u
  BY Zenon DEF MovedOn
<1>10. \A i \in 1 .. Len(t) : Reading(W, at, k + 1, i, t[i])
  <2>1. ASSUME NEW i \in 1 .. n PROVE Reading(W, at, k + 1, i, t[i])
    <3>1. Reading(W, at, k, i, st[i]) BY Zenon DEF Walk
    <3>2. W[k + 1].level >= i /\ i >= 1 /\ i \in Nat BY <1>5
    <3>3. t[i].off = st[i].off /\ t[i].size = st[i].size BY <1>9
    <3> QED BY <1>1, <1>2, <1>3, <3>1, <3>2, <3>3, ReadOn, Zenon
  <2> QED BY <1>9, <2>1
<1>11. \A i \in 1 .. Len(t) - 1 : t[i].off + t[i].pos = t[i + 1].off
  <2>1. ASSUME NEW i \in 1 .. n - 1 PROVE t[i].off + t[i].pos = t[i + 1].off
    <3>1. st[i].off + st[i].pos = st[i + 1].off BY Zenon DEF Walk
    <3>2. i \in 1 .. n /\ i + 1 \in 1 .. n OBVIOUS
    <3> QED BY <1>9, <3>1, <3>2
  <2> QED BY <1>9, <2>1
<1>12. Len(t) > 0 /\ t[Len(t)].off + t[Len(t)].pos = p + u
  <2>1. st[n].off + st[n].pos = p BY DEF Walk
  <2>2. n \in 1 .. n OBVIOUS
  <2>3. t[n].off = st[n].off /\ t[n].pos = st[n].pos + u BY <1>9, <2>2
  <2>4. st[n].off \in Nat /\ st[n].pos \in Nat
    <3>1. st[n] \in Reads BY <1>4, <2>2, ElementOfSeq
    <3> QED BY <3>1 DEF Reads
  <2>5. t[n].off + t[n].pos = p + u BY <1>7, <2>1, <2>3, <2>4
  <2> QED BY <1>9, <2>5
<1>13. k + 1 < Len(W) => W[(k + 1) + 1].level <= Len(t)
  <2>1. ASSUME k + 1 < N PROVE W[k + 2].level <= n
    <3>1. k + 1 \in 1 .. Len(W) - 1 /\ k + 1 + 1 = k + 2 BY <1>2, <1>3, <2>1
    <3>2. Follows(W[k + 1], W[k + 2]) BY <3>1, Zenon DEF Sound, Nested
    <3>3. W[k + 2].level <= W[k + 1].level BY <3>2, Zenon DEF Follows
    <3> QED BY <1>5, <3>3
  <2>2. (k + 1) + 1 = k + 2 BY <1>3
  <2> QED BY <1>2, <1>9, <2>1, <2>2
<1>14. /\ k + 1 \in 0 .. Len(W) /\ Append(sn, e) \in Seq(Elements) /\ Len(Append(sn, e)) = k + 1
       /\ \A i \in 1 .. k + 1 : Append(sn, e)[i] = W[i]
  BY SeenOn
<1>15. p + u = at[(k + 1) + 1]
  <2>1. (k + 1) + 1 = k + 2 BY <1>3
  <2> QED BY <1>8, <2>1
<1> QED BY <1>9, <1>10, <1>11, <1>12, <1>13, <1>14, <1>15, Zenon DEF Walk

(* A list ends, and the list around it goes on behind it.                   *)
LEMMA WalkEnd ==
    ASSUME NEW f, NEW W, NEW at, Sound(f, W, at), NEW k, NEW st, NEW p, NEW sn, Walk(W, at, k, st, p, sn),
           NEW n \in Nat, n = Len(st), n > 0, ~(st[n].pos < st[n].size) \/ k = Len(W),
           NEW s, s = SubSeq(st, 1, n - 1),
           NEW t, IF n = 1 THEN t = s ELSE MovedOn(s, t, n - 1, st[n].pos)
    PROVE  Walk(W, at, k, t, p, sn)
<1>1. W \in Seq(Elements) /\ Placed(f.hdr, W, at) BY Zenon DEF Sound, Nested
<1>2. PICK N \in Nat : N = Len(W) BY <1>1
<1>3. k \in 0 .. N /\ p = at[k + 1] BY <1>2 DEF Walk
<1>4. st \in Seq(Reads) /\ \A i \in 1 .. n : st[i] \in Reads
  <2>1. st \in Seq(Reads) BY Zenon DEF Walk
  <2> QED BY <2>1, ElementOfSeq
<1>5. s \in Seq(Reads) /\ Len(s) = n - 1 /\ \A i \in 1 .. n - 1 : s[i] = st[i]
  <2>1. 1 \in 1 .. Len(st) + 1 /\ n - 1 \in 1 - 1 .. Len(st) OBVIOUS
  <2>2. /\ SubSeq(st, 1, n - 1) \in Seq(Reads)
        /\ Len(SubSeq(st, 1, n - 1)) = IF 1 <= n - 1 THEN (n - 1) - 1 + 1 ELSE 0
        /\ \A i \in 1 .. (n - 1) - 1 + 1 : SubSeq(st, 1, n - 1)[i] = st[1 + i - 1]
    BY <1>4, <2>1, SubSeqProperties
  <2>3. \A i \in 1 .. n - 1 : 1 + i - 1 = i /\ i \in 1 .. (n - 1) - 1 + 1 OBVIOUS
  <2>4. Len(s) = n - 1 BY <2>2
  <2> QED BY <2>2, <2>3, <2>4
<1>6. /\ t \in Seq(Reads) /\ Len(t) = n - 1
      /\ \A i \in 1 .. n - 1 : t[i].off = st[i].off /\ t[i].size = st[i].size
      /\ \A i \in 1 .. n - 2 : t[i].pos = st[i].pos
      /\ n > 1 => t[n - 1].pos = st[n - 1].pos + st[n].pos
  <2>1. CASE n = 1
    <3>1. t = s BY <2>1
    <3>2. t \in Seq(Reads) /\ Len(t) = n - 1 BY <1>5, <3>1
    <3>3. 1 .. n - 1 = {} /\ 1 .. n - 2 = {} /\ ~(n > 1) BY <2>1
    <3> QED BY <3>2, <3>3
  <2>2. CASE n # 1
    <3>1. /\ t \in Seq(Reads) /\ Len(t) = n - 1
          /\ \A i \in 1 .. n - 1 : t[i].off = s[i].off /\ t[i].size = s[i].size
          /\ \A i \in 1 .. (n - 1) - 1 : t[i].pos = s[i].pos
          /\ t[n - 1].pos = s[n - 1].pos + st[n].pos
      BY <2>2, Zenon DEF MovedOn
    <3>2. n - 1 \in 1 .. n - 1 /\ (n - 1) - 1 = n - 2 BY <2>2
    <3>3. \A i \in 1 .. n - 2 : i \in 1 .. n - 1 /\ i \in 1 .. (n - 1) - 1 OBVIOUS
    <3> QED BY <1>5, <3>1, <3>2, <3>3
  <2> QED BY <2>1, <2>2
<1>7. \A i \in 1 .. Len(t) : Reading(W, at, k, i, t[i])
  <2>1. ASSUME NEW i \in 1 .. n - 1 PROVE Reading(W, at, k, i, t[i])
    <3>1. i \in 1 .. Len(st) OBVIOUS
    <3>2. Reading(W, at, k, i, st[i]) BY <3>1, Zenon DEF Walk
    <3>3. t[i].off = st[i].off /\ t[i].size = st[i].size BY <1>6
    <3> QED BY <3>2, <3>3, Zenon DEF Reading
  <2> QED BY <1>6, <2>1
<1>8. \A i \in 1 .. Len(t) - 1 : t[i].off + t[i].pos = t[i + 1].off
  <2>1. ASSUME NEW i \in 1 .. n - 2 PROVE t[i].off + t[i].pos = t[i + 1].off
    <3>1. i \in 1 .. Len(st) - 1 /\ i \in 1 .. n - 1 /\ i + 1 \in 1 .. n - 1 OBVIOUS
    <3>2. st[i].off + st[i].pos = st[i + 1].off BY <3>1, Zenon DEF Walk
    <3> QED BY <1>6, <3>1, <3>2
  <2>2. Len(t) - 1 = n - 2 BY <1>6
  <2> QED BY <2>1, <2>2
<1>9. Len(t) > 0 => t[Len(t)].off + t[Len(t)].pos = p
  <2>1. ASSUME n > 1 PROVE t[n - 1].off + t[n - 1].pos = p
    <3>1. n - 1 \in 1 .. Len(st) - 1 /\ n - 1 \in 1 .. n - 1 /\ (n - 1) + 1 = n /\ n \in 1 .. n BY <2>1
    <3>2. st[n - 1].off + st[n - 1].pos = st[n].off BY <3>1, Zenon DEF Walk
    <3>3. st[n].off + st[n].pos = p BY DEF Walk
    <3>4. t[n - 1].off = st[n - 1].off /\ t[n - 1].pos = st[n - 1].pos + st[n].pos BY <1>6, <2>1, <3>1
    <3>5. st[n - 1] \in Reads /\ st[n] \in Reads BY <1>4, <3>1
    <3>6. st[n - 1].off \in Nat /\ st[n - 1].pos \in Nat /\ st[n].off \in Nat /\ st[n].pos \in Nat
      BY <3>5 DEF Reads
    <3> QED BY <3>2, <3>3, <3>4, <3>6
  <2> QED BY <1>6, <2>1
<1>10. k < Len(W) => W[k + 1].level <= Len(t)
  <2>1. k < N => W[k + 1].level <= n - 1
    <3>1. CASE k = Len(W) BY <1>2, <1>3, <3>1
    <3>2. CASE ~(st[n].pos < st[n].size)
      <4>1. ~(st[n].pos < st[n].size) /\ k < N => W[k + 1].level <= n - 1 BY <1>2, TopEnds
      <4> QED BY <3>2, <4>1
    <3> QED BY <3>1, <3>2
  <2> QED BY <1>2, <1>6, <2>1
<1> QED BY <1>6, <1>7, <1>8, <1>9, <1>10, Zenon DEF Walk

(* The innermost list has come an even number of bytes.                     *)
LEMMA TopEven ==
    ASSUME NEW f, NEW W, NEW at, Sound(f, W, at), NEW k, NEW st, NEW p, NEW sn, Walk(W, at, k, st, p, sn),
           NEW n \in Nat, n = Len(st), n > 0
    PROVE  st[n].pos \in Nat /\ st[n].pos + (st[n].pos % 2) = st[n].pos
<1>1. W \in Seq(Elements) /\ Placed(f.hdr, W, at) BY Zenon DEF Sound, Nested
<1>2. PICK N \in Nat : N = Len(W) BY <1>1
<1>3. k \in 0 .. N /\ st[n].off + st[n].pos = at[k + 1] BY <1>2 DEF Walk
<1>4. n \in 1 .. Len(st) OBVIOUS
<1>5. st[n].off \in Nat /\ st[n].pos \in Nat
  <2>1. st[n] \in Reads
    <3>1. st \in Seq(Reads) BY Zenon DEF Walk
    <3> QED BY <1>4, <3>1, ElementOfSeq
  <2> QED BY <2>1 DEF Reads
<1>6. PICK o \in 1 .. k, j \in k + 1 .. Len(W) + 1 : st[n].off = at[o]
  <2>1. Reading(W, at, k, n, st[n]) BY <1>4, Zenon DEF Walk
  <2> QED BY <2>1, Zenon DEF Reading
<1>7. IsEven(at[o]) /\ IsEven(at[k + 1])
  <2>1. o \in 1 .. Len(W) + 1 /\ k + 1 \in 1 .. Len(W) + 1 BY <1>2, <1>3
  <2> QED BY <1>1, <2>1, PlaceIs
<1>8. PICK x \in Nat : x = st[n].pos BY <1>5
<1>9. PICK v \in Nat : v = st[n].off BY <1>5
<1>10. v % 2 = 0 /\ (v + x) % 2 = 0 BY <1>3, <1>6, <1>7, <1>8, <1>9 DEF IsEven
<1>11. x % 2 = 0 BY <1>10
<1>12. x + (x % 2) = x BY <1>11
<1> QED BY <1>8, <1>12

(* The header at the position of the descriptor is that of the next element.*)
IsHeadOf(h, e, n, k) ==
    IF e.name \in ListNames
    THEN h.name = (IF k = 0 THEN Riff ELSE List) /\ e = [level |-> n, name |-> h.type]
    ELSE h.name \notin {Riff, List} /\ e = [level |-> n, name |-> h.name]

(* Such a header is at hand, and the data avi_process_chunk reads is there. *)
LEMMA NextHead ==
    ASSUME NEW f, NEW W, NEW at, Sound(f, W, at), NEW k, NEW st, NEW p, NEW sn, Walk(W, at, k, st, p, sn),
           NEW n, Reaches(W, k, n)
    PROVE  /\ p \in Nat /\ p \in DOMAIN f.hdr /\ f.hdr[p].size \in Nat /\ f.end \in Nat /\ f.end >= p + 9
           /\ IsHeadOf(f.hdr[p], W[k + 1], n, k)
           /\ f.hdr[p].name \in {"avih", "strh"} => f.end >= p + ChunkHead + f.hdr[p].size
<1>1. W \in Seq(Elements) /\ Placed(f.hdr, W, at) /\ Present(f, W, at) BY Zenon DEF Sound, Nested
<1>2. PICK N \in Nat : N = Len(W) BY <1>1
<1>3. k \in 0 .. N - 1 /\ p = at[k + 1] BY <1>2 DEF Walk, Reaches
<1>4. p \in Nat /\ p \in DOMAIN f.hdr /\ f.hdr[p].size \in Nat /\ f.end >= p + 9
  <2>1. /\ at[k + 1] \in Nat /\ f.end >= at[k + 1] + 9
        /\ at[k + 1] \in DOMAIN f.hdr /\ f.hdr[at[k + 1]].size \in Nat
    BY <1>2, <1>3, Gap
  <2> QED BY <1>3, <2>1, Zenon
<1>5. f.end \in Nat BY Zenon DEF Sound
<1>6. k + 1 \in 1 .. Len(W) BY <1>2, <1>3
<1>7. PICK e : e = W[k + 1] OBVIOUS
<1>8. e = [level |-> n, name |-> e.name]
  <2>1. e \in Elements BY <1>1, <1>6, <1>7, ElementIs
  <2>2. e.level = n BY <1>7 DEF Reaches
  <2>3. e = [level |-> e.level, name |-> e.name] BY <2>1 DEF Elements
  <2> QED BY <2>2, <2>3
<1>9. PICK h : h = f.hdr[p] OBVIOUS
<1>10. HeadFor(h, e, k + 1 = 1, p, at[k + 2])
  <2>1. HeadFor(f.hdr[at[k + 1]], W[k + 1], k + 1 = 1, at[k + 1], at[k + 1 + 1]) BY <1>1, <1>6, Zenon DEF Placed
  <2>2. k + 1 + 1 = k + 2 BY <1>3
  <2> QED BY <1>3, <1>7, <1>9, <2>1, <2>2, Zenon
<1>11. k + 1 = 1 <=> k = 0 BY <1>3
<1>12. IsHeadOf(h, e, n, k)
  <2>1. CASE e.name \in ListNames
    <3>1. h.name = (IF k + 1 = 1 THEN Riff ELSE List) /\ h.type = e.name BY <1>10, <2>1, Zenon DEF HeadFor
    <3>2. e = [level |-> n, name |-> h.type] BY <1>8, <3>1, Zenon
    <3>3. h.name = (IF k = 0 THEN Riff ELSE List) BY <1>11, <3>1, Zenon
    <3> QED BY <2>1, <3>2, <3>3, Zenon DEF IsHeadOf
  <2>2. CASE e.name \notin ListNames
    <3>1. h.name = e.name /\ e.name \notin {Riff, List} BY <1>10, <2>2, Zenon DEF HeadFor
    <3>2. e = [level |-> n, name |-> h.name] BY <1>8, <3>1, Zenon
    <3>3. h.name \notin {Riff, List} BY <3>1, Zenon
    <3> QED BY <2>2, <3>2, <3>3, Zenon DEF IsHeadOf
  <2> QED BY <2>1, <2>2
<1>13. h.name \in {"avih", "strh"} => f.end >= p + ChunkHead + h.size
  <2>1. ASSUME h.name \in {"avih", "strh"} PROVE f.end >= p + ChunkHead + h.size
    <3>1. h.name \notin ListNames \cup {"JUNK"} /\ h.name \notin {Riff, List} BY <2>1 DEF ListNames, Riff, List
    <3>2. e.name \notin ListNames
      <4>1. ASSUME e.name \in ListNames PROVE FALSE
        <5>1. h.name = Riff \/ h.name = List BY <4>1, <1>12, Zenon DEF IsHeadOf
        <5> QED BY <3>1, <5>1, Zenon
      <4> QED BY <4>1
    <3>3. h.name = e.name BY <1>10, <3>2, Zenon DEF HeadFor
    <3>4. f.end >= at[k + 1] + ChunkHead + f.hdr[at[k + 1]].size
      BY <1>1, <1>6, <1>7, <3>1, <3>3, Zenon DEF Present
    <3> QED BY <1>3, <1>9, <3>4, Zenon
  <2> QED BY <2>1
<1> QED BY <1>4, <1>5, <1>7, <1>9, <1>12, <1>13, Zenon

(* avi_process_list at the head of a list that is in the file.              *)
LEMMA ProcessList ==
    ASSUME NEW W, NEW at, Sound(file, W, at), NEW k, Walk(W, at, k, stack, fdpos, seen),
           Reaches(W, k, Len(stack)), W[k + 1].name \in ListNames,
           errs = 0, avi_size = file.end, avi_process_list(fdpos)
    PROVE  phase' = phase /\ errs' = 0 /\ Walk(W, at, k + 1, stack', fdpos', seen')
<1>1. PICK f, st, p, sn, n, h : /\ f = file /\ st = stack /\ p = fdpos /\ sn = seen /\ n = Len(st)
                                /\ h = f.hdr[p]
  OBVIOUS
<1>2. Sound(f, W, at) /\ Walk(W, at, k, st, p, sn) /\ Reaches(W, k, n) BY <1>1
<1>3. PICK z, r, e : z = h.size /\ r = [off |-> p, pos |-> ListHead, size |-> z] /\ e = W[k + 1] OBVIOUS
<1>4. /\ p \in Nat /\ z \in Nat /\ z # 0 /\ p + z <= f.end /\ f.end >= p + ListHead
      /\ Walk(W, at, k + 1, Append(st, r), p + ListHead, Append(sn, e))
  BY <1>1, <1>2, <1>3, WalkList
<1>5. e = [level |-> n, name |-> h.type]
  <2>1. IsHeadOf(h, e, n, k) BY <1>1, <1>2, <1>3, NextHead, Zenon
  <2> QED BY <1>3, <2>1, Zenon DEF IsHeadOf
<1>6. ~(Left(p) < ListHead)
  <2>1. Left(p) = f.end - p BY <1>1 DEF Left
  <2>2. f.end \in Nat BY <1>2, Zenon DEF Sound
  <2> QED BY <1>4, <2>1, <2>2 DEF ListHead
<1>7. ~(h.size = 0 \/ p + h.size > avi_size)
  <2>1. f.end \in Nat /\ avi_size = f.end BY <1>1, <1>2, Zenon DEF Sound
  <2> QED BY <1>3, <1>4, <2>1
<1>8. /\ seen' = Append(sn, e) /\ fdpos' = p + ListHead /\ stack' = Append(st, r) /\ errs' = errs
      /\ phase' = phase
  BY <1>1, <1>3, <1>5, <1>6, <1>7, Zenon DEF avi_process_list, HeaderAt
<1> QED BY <1>4, <1>8, Zenon

(* The walk through a sound file.                                           *)
InWalk(W, at) ==
    /\ Sound(file, W, at) /\ errs = 0 /\ avi_size = file.end
    /\ \E k : Walk(W, at, k, stack, fdpos, seen)
(* A step of it: to the next element, or to the end.                        *)
WalkGoesOn(W, at) ==
    /\ errs' = 0
    /\ \/ phase' = phase /\ \E k : Walk(W, at, k, stack', fdpos', seen')
       \/ stack = <<>> /\ phase' = Ended[phase] /\ seen' = W

(* avi_process_list comes upon the next element when that is a list.        *)
LEMMA ListStep ==
    ASSUME NEW W, NEW at, InWalk(W, at), SubList
    PROVE  WalkGoesOn(W, at)
<1>1. PICK k : Walk(W, at, k, stack, fdpos, seen) BY Zenon DEF InWalk
<1>2. Sound(file, W, at) /\ errs = 0 /\ avi_size = file.end BY Zenon DEF InWalk
<1>3. PICK f, st, p, sn, n : f = file /\ st = stack /\ p = fdpos /\ sn = seen /\ n = Len(st) OBVIOUS
<1>4. Sound(f, W, at) /\ Walk(W, at, k, st, p, sn) BY <1>1, <1>2, <1>3
<1>5. st \in Seq(Reads) /\ n \in Nat /\ n > 0 /\ Top = st[n]
  <2>1. st \in Seq(Reads) /\ st # <<>> BY <1>3, <1>4, Zenon DEF Walk, SubList, InList
  <2>2. Top = st[n] BY <1>3 DEF Top, Last
  <2> QED BY <1>3, <2>1, <2>2
<1>6. Reaches(W, k, n)
  <2>1. st[n].pos < st[n].size BY <1>5, Zenon DEF SubList
  <2>2. PICK N \in Nat : N = Len(W)
    <3>1. W \in Seq(Elements) BY <1>2, Zenon DEF Sound, Nested
    <3> QED BY <3>1
  <2>3. k < N /\ W[k + 1].level = n BY <1>3, <1>4, <1>5, <2>1, <2>2, TopEnds
  <2> QED BY <2>2, <2>3 DEF Reaches
<1>7. W[k + 1].name \in ListNames
  <2>1. IsHeadOf(f.hdr[p], W[k + 1], n, k) BY <1>4, <1>6, NextHead, Zenon
  <2>2. f.hdr[p].name = List BY <1>3, Zenon DEF SubList, HeaderAt
  <2>3. W[k + 1].name \notin ListNames => f.hdr[p].name \notin {Riff, List} BY <2>1, Zenon DEF IsHeadOf
  <2> QED BY <2>2, <2>3, Zenon
<1>8. Top.off + Top.pos = fdpos
  <2>1. Len(st) > 0 BY <1>3, <1>5
  <2>2. st[Len(st)].off + st[Len(st)].pos = p BY <1>4, <2>1, Zenon DEF Walk
  <2> QED BY <1>3, <1>5, <2>2, Zenon
<1>9. avi_process_list(fdpos) BY <1>8, Zenon DEF SubList
<1>10. Reaches(W, k, Len(stack)) BY <1>3, <1>6, Zenon
<1>11. phase' = phase /\ errs' = 0 /\ Walk(W, at, k + 1, stack', fdpos', seen')
  BY <1>1, <1>2, <1>7, <1>9, <1>10, ProcessList, Zenon
<1> QED BY <1>11, Zenon DEF WalkGoesOn

(* avi_process_chunk comes upon the next element when that is a chunk.      *)
LEMMA ChunkStep ==
    ASSUME NEW W, NEW at, InWalk(W, at), avi_process_chunk
    PROVE  WalkGoesOn(W, at)
<1>1. PICK k : Walk(W, at, k, stack, fdpos, seen) BY Zenon DEF InWalk
<1>2. Sound(file, W, at) /\ errs = 0 BY Zenon DEF InWalk
<1>3. PICK f, st, p, sn, n : f = file /\ st = stack /\ p = fdpos /\ sn = seen /\ n = Len(st) OBVIOUS
<1>4. Sound(f, W, at) /\ Walk(W, at, k, st, p, sn) BY <1>1, <1>2, <1>3
<1>5. st \in Seq(Reads) /\ n \in Nat /\ n > 0 /\ Top = st[n]
  <2>1. st \in Seq(Reads) /\ st # <<>> BY <1>3, <1>4, Zenon DEF Walk, avi_process_chunk, InList
  <2>2. Top = st[n] BY <1>3 DEF Top, Last
  <2> QED BY <1>3, <2>1, <2>2
<1>6. Reaches(W, k, n) /\ k # 0
  <2>1. st[n].pos < st[n].size BY <1>5, Zenon DEF avi_process_chunk
  <2>2. PICK N \in Nat : N = Len(W)
    <3>1. W \in Seq(Elements) BY <1>2, Zenon DEF Sound, Nested
    <3> QED BY <3>1
  <2>3. k < N /\ W[k + 1].level = n BY <1>3, <1>4, <1>5, <2>1, <2>2, TopEnds
  <2>4. n \in 1 .. Len(st) BY <1>3, <1>5
  <2>5. Reading(W, at, k, n, st[n]) BY <1>4, <2>4, Zenon DEF Walk
  <2>6. PICK o \in 1 .. k : TRUE BY <2>5, Zenon DEF Reading
  <2> QED BY <2>2, <2>3, <2>6 DEF Reaches
<1>7. /\ p \in Nat /\ p \in DOMAIN f.hdr /\ f.hdr[p].size \in Nat /\ f.end \in Nat /\ f.end >= p + 9
      /\ IsHeadOf(f.hdr[p], W[k + 1], n, k)
      /\ f.hdr[p].name \in {"avih", "strh"} => f.end >= p + ChunkHead + f.hdr[p].size
  BY <1>4, <1>6, NextHead, Zenon
<1>8. PICK h, e : h = f.hdr[p] /\ e = W[k + 1] OBVIOUS
<1>9. Known(p) /\ HeaderAt(p) = h BY <1>3, <1>7, <1>8, Zenon DEF Known, HeaderAt
<1>10. W[k + 1].name \notin ListNames /\ e = [level |-> n, name |-> h.name]
  <2>1. h.name # List BY <1>3, <1>9, Zenon DEF avi_process_chunk
  <2>2. IsHeadOf(h, e, n, k) BY <1>7, <1>8, Zenon
  <2>3. e.name \notin ListNames BY <1>6, <2>1, <2>2, Zenon DEF IsHeadOf
  <2> QED BY <1>8, <2>2, <2>3, Zenon DEF IsHeadOf
<1>11. Top.off + Top.pos = p
  <2>1. Len(st) > 0 BY <1>3, <1>5
  <2>2. st[Len(st)].off + st[Len(st)].pos = p BY <1>4, <2>1, Zenon DEF Walk
  <2> QED BY <1>3, <1>5, <2>2, Zenon
<1>12. PICK u : u = ChunkHead + Even(h.size) OBVIOUS
<1>13. u \in Nat /\ u = ChunkHead + h.size + ((ChunkHead + h.size) % 2)
  <2>1. PICK x \in Nat : x = h.size BY <1>7, <1>8
  <2>2. u = 8 + (x + (x % 2)) BY <1>12, <2>1 DEF ChunkHead, Even
  <2>3. (8 + x) % 2 = x % 2 BY <2>1
  <2>4. u \in Nat /\ u = 8 + x + ((8 + x) % 2) BY <2>2, <2>3
  <2> QED BY <2>1, <2>4 DEF ChunkHead
<1>14. ~(Left(p) < ChunkHead)
  <2>1. Left(p) = f.end - p BY <1>3 DEF Left
  <2> QED BY <1>7, <2>1 DEF ChunkHead
<1>15. ~(h.name \in {"avih", "strh"} /\ Left(p) < ChunkHead + h.size)
  <2>1. ASSUME h.name \in {"avih", "strh"} PROVE ~(Left(p) < ChunkHead + h.size)
    <3>1. f.end >= p + ChunkHead + h.size BY <1>7, <1>8, <2>1, Zenon
    <3>2. Left(p) = f.end - p BY <1>3 DEF Left
    <3>3. PICK x \in Nat : x = h.size BY <1>7, <1>8
    <3>4. PICK v \in Nat : v = f.end BY <1>7
    <3>5. v >= p + 8 + x BY <3>1, <3>3, <3>4 DEF ChunkHead
    <3>6. ~(v - p < 8 + x) BY <1>7, <3>5
    <3> QED BY <3>2, <3>3, <3>4, <3>6 DEF ChunkHead
  <2> QED BY <2>1
<1>16. /\ stack' = [stack EXCEPT ![Len(stack)].pos = @ + u] /\ fdpos' = p + u
       /\ seen' = Append(seen, [level |-> Len(stack), name |-> h.name]) /\ phase' = phase
  BY <1>9, <1>11, <1>13, <1>14, <1>15, Zenon DEF avi_process_chunk
<1>17. errs' = 0 BY <1>2, Zenon DEF avi_process_chunk
<1>18. PICK t : t = stack' OBVIOUS
<1>19. t = [st EXCEPT ![n].pos = @ + u] BY <1>3, <1>16, <1>18, Zenon
<1>20. MovedOn(st, t, n, u) BY <1>3, <1>5, <1>13, <1>19, PosOn
<1>21. Walk(W, at, k + 1, t, p + u, Append(sn, e))
  BY <1>3, <1>4, <1>5, <1>6, <1>8, <1>10, <1>12, <1>20, WalkChunk, Zenon
<1>22. seen' = Append(sn, e) BY <1>3, <1>10, <1>16, Zenon
<1> QED BY <1>16, <1>17, <1>18, <1>21, <1>22, Zenon DEF WalkGoesOn

(* A list that has been read to its size ends, and no element is skipped.   *)
LEMMA EndStep ==
    ASSUME NEW W, NEW at, InWalk(W, at), ListEnds
    PROVE  WalkGoesOn(W, at)
<1>1. PICK k : Walk(W, at, k, stack, fdpos, seen) BY Zenon DEF InWalk
<1>2. Sound(file, W, at) /\ errs = 0 BY Zenon DEF InWalk
<1>3. PICK f, st, p, sn, n : f = file /\ st = stack /\ p = fdpos /\ sn = seen /\ n = Len(st) OBVIOUS
<1>4. Sound(f, W, at) /\ Walk(W, at, k, st, p, sn) BY <1>1, <1>2, <1>3
<1>5. st \in Seq(Reads) /\ n \in Nat /\ n > 0 /\ Top = st[n]
  <2>1. st \in Seq(Reads) /\ st # <<>> BY <1>3, <1>4, Zenon DEF Walk, ListEnds, InList
  <2>2. Top = st[n] BY <1>3 DEF Top, Last
  <2> QED BY <1>3, <2>1, <2>2
<1>6. PICK N \in Nat : N = Len(W)
  <2>1. W \in Seq(Elements) BY <1>2, Zenon DEF Sound, Nested
  <2> QED BY <2>1
<1>7. PICK u \in Nat : u = st[n].pos /\ u + (u % 2) = u BY <1>3, <1>4, <1>5, TopEven
<1>8. ~(st[n].pos < st[n].size)
  <2>1. ASSUME st[n].pos < st[n].size PROVE FALSE
    <3>1. k < N /\ W[k + 1].level = n BY <1>3, <1>4, <1>5, <1>6, <2>1, TopEnds
    <3>2. Reaches(W, k, n) BY <1>6, <3>1 DEF Reaches
    <3>3. p \in Nat /\ f.end \in Nat /\ f.end >= p + 9 BY <1>4, <3>2, NextHead, Zenon
    <3>4. Left(p) = f.end - p BY <1>3 DEF Left
    <3>5. ~(Left(p) < 4) BY <3>3, <3>4
    <3>6. st[n].pos >= st[n].size BY <1>3, <1>5, <3>5, Zenon DEF ListEnds
    <3>7. st[n].size \in Nat
      <4>1. n \in 1 .. Len(st) BY <1>3, <1>5
      <4>2. st[n] \in Reads BY <1>5, <4>1, ElementOfSeq
      <4> QED BY <4>2 DEF Reads
    <3> QED BY <1>7, <2>1, <3>6, <3>7
  <2> QED BY <2>1
<1>9. PICK s, t : s = SubSeq(st, 1, n - 1) /\ t = stack' OBVIOUS
<1>10. t = IF s = <<>> THEN s ELSE [s EXCEPT ![Len(s)].pos = @ + u]
  <2>1. Return(u) BY <1>5, <1>7, Zenon DEF ListEnds
  <2> QED BY <1>3, <1>7, <1>9, <2>1, Zenon DEF Return
<1>11. s \in Seq(Reads) /\ Len(s) = n - 1
  <2>1. 1 \in 1 .. Len(st) + 1 /\ n - 1 \in 1 - 1 .. Len(st) BY <1>3, <1>5
  <2>2. /\ SubSeq(st, 1, n - 1) \in Seq(Reads)
        /\ Len(SubSeq(st, 1, n - 1)) = IF 1 <= n - 1 THEN (n - 1) - 1 + 1 ELSE 0
    BY <1>5, <2>1, SubSeqProperties
  <2>3. Len(s) = n - 1 BY <1>5, <1>9, <2>2
  <2> QED BY <1>9, <2>2, <2>3
<1>12. IF n = 1 THEN t = s ELSE MovedOn(s, t, n - 1, u)
  <2>1. CASE n = 1
    <3>1. s = <<>> BY <1>11, <2>1
    <3> QED BY <1>10, <2>1, <3>1, Zenon
  <2>2. CASE n # 1
    <3>1. PICK m \in Nat : m = n - 1 /\ m > 0 BY <1>5, <2>2
    <3>2. m = Len(s) BY <1>11, <3>1
    <3>3. s # <<>> BY <3>1, <3>2
    <3>4. t = [s EXCEPT ![m].pos = @ + u] BY <1>10, <3>2, <3>3, Zenon
    <3>5. MovedOn(s, t, m, u) BY <1>11, <3>1, <3>2, <3>4, PosOn, Zenon
    <3> QED BY <2>2, <3>1, <3>5, Zenon
  <2> QED BY <2>1, <2>2
<1>13. Walk(W, at, k, t, p, sn)
  <2>1. IF n = 1 THEN t = s ELSE MovedOn(s, t, n - 1, st[n].pos) BY <1>7, <1>12, Zenon
  <2> QED BY <1>3, <1>4, <1>5, <1>8, <1>9, <2>1, WalkEnd, Zenon
<1>14. errs' = errs BY <1>5, <1>8, Zenon DEF ListEnds
<1>15. phase' = phase /\ fdpos' = p /\ seen' = sn BY <1>3, Zenon DEF ListEnds
<1> QED BY <1>2, <1>9, <1>13, <1>14, <1>15, Zenon DEF WalkGoesOn

(* avi_check begins the RIFF list, or ends when all of the file is read.    *)
LEMMA CheckStep ==
    ASSUME NEW W, NEW at, InWalk(W, at), avi_check
    PROVE  WalkGoesOn(W, at)
<1>1. PICK k : Walk(W, at, k, stack, fdpos, seen) BY Zenon DEF InWalk
<1>2. Sound(file, W, at) /\ errs = 0 /\ avi_size = file.end BY Zenon DEF InWalk
<1>3. PICK f, p, sn : f = file /\ p = fdpos /\ sn = seen OBVIOUS
<1>4. Sound(f, W, at) /\ Walk(W, at, k, stack, p, sn) BY <1>1, <1>2, <1>3
<1>5. stack = <<>> /\ Len(stack) = 0
  <2>1. stack = <<>> BY Zenon DEF avi_check
  <2> QED BY <2>1
<1>6. W \in Seq(Elements) /\ Placed(f.hdr, W, at) /\ W # <<>> /\ f.end \in Nat /\ f.end <= at[Len(W) + 1]
  BY <1>4, Zenon DEF Sound, Nested
<1>7. PICK N \in Nat : N = Len(W) /\ N > 0 BY <1>6
<1>8. k \in 0 .. N /\ p = at[k + 1] BY <1>4, <1>7 DEF Walk
<1>9. Left(p) = f.end - p BY <1>3 DEF Left
<1>10. CASE k = N
  <2>1. Left(p) < ListHead /\ ~(Left(p) > 0)
    <3>1. N + 1 \in 1 .. Len(W) + 1 BY <1>7
    <3>2. p \in Nat
      <4>1. at[N + 1] \in Nat BY <1>6, <3>1, PlaceIs
      <4> QED BY <1>8, <1>10, <4>1
    <3>3. f.end <= p BY <1>6, <1>7, <1>8, <1>10
    <3> QED BY <1>6, <1>9, <3>2, <3>3 DEF ListHead
  <2>2. Left(p) \in Int
    <3>1. N + 1 \in 1 .. Len(W) + 1 BY <1>7
    <3>2. at[N + 1] \in Nat BY <1>6, <3>1, PlaceIs
    <3> QED BY <1>6, <1>8, <1>9, <1>10, <3>2
  <2>3. ~(Left(p) >= ListHead) BY <2>1, <2>2 DEF ListHead
  <2>4. phase' = Ended[phase] /\ errs' = errs /\ seen' = sn BY <1>3, <2>1, <2>3, Zenon DEF avi_check
  <2>5. sn = W
    <3>1. sn \in Seq(Elements) /\ Len(sn) = k /\ \A i \in 1 .. k : sn[i] = W[i] BY <1>4, Zenon DEF Walk
    <3> QED BY <1>6, <1>7, <1>10, <3>1, SeqEqual
  <2> QED BY <1>2, <1>5, <2>4, <2>5, Zenon DEF WalkGoesOn
<1>11. CASE k # N
  <2>1. k < N /\ k + 1 \in 1 .. Len(W) BY <1>7, <1>8, <1>11
  <2>2. W[k + 1].level = 0 /\ k = 0
    <3>1. W[k + 1].level <= 0 BY <1>4, <1>5, <1>7, <2>1 DEF Walk
    <3>2. W[k + 1].level \in Nat BY <1>6, <2>1, ElementIs
    <3>3. ASSUME k # 0 PROVE FALSE
      <4>1. k \in 1 .. Len(W) - 1 BY <1>7, <1>8, <2>1, <3>3
      <4>2. Follows(W[k], W[k + 1]) BY <1>4, <4>1, Zenon DEF Sound, Nested
      <4>3. W[k + 1].level >= 1 BY <4>2, Zenon DEF Follows
      <4> QED BY <3>1, <3>2, <4>3
    <3> QED BY <3>1, <3>2, <3>3
  <2>3. Reaches(W, k, Len(stack)) BY <1>5, <1>7, <2>1, <2>2 DEF Reaches
  <2>4. W[k + 1].name \in ListNames
    <3>1. First(W[1]) BY <1>4, <1>6, Zenon DEF Sound, Nested
    <3>2. k + 1 = 1 BY <2>2
    <3>3. W[k + 1].name = "AVI " BY <3>1, <3>2, Zenon DEF First
    <3> QED BY <3>3 DEF ListNames
  <2>5. Left(p) >= ListHead /\ ~(Left(p) < ListHead)
    <3>1. PICK z, r, e : z = f.hdr[p].size /\ r = [off |-> p, pos |-> ListHead, size |-> z] /\ e = W[k + 1] OBVIOUS
    <3>2. p \in Nat /\ f.end >= p + ListHead BY <1>4, <2>3, <2>4, <3>1, WalkList
    <3> QED BY <1>6, <1>9, <3>2 DEF ListHead
  <2>6. Known(p) /\ HeaderAt(p).name \in {Riff, List}
    <3>1. p \in DOMAIN f.hdr /\ IsHeadOf(f.hdr[p], W[k + 1], Len(stack), k) BY <1>4, <2>3, NextHead, Zenon
    <3>2. f.hdr[p].name = Riff BY <2>2, <2>4, <3>1, Zenon DEF IsHeadOf
    <3> QED BY <1>3, <3>1, <3>2, Zenon DEF Known, HeaderAt
  <2>7. avi_process_list(fdpos) BY <1>3, <2>5, <2>6, Zenon DEF avi_check
  <2>8. phase' = phase /\ errs' = 0 /\ Walk(W, at, k + 1, stack', fdpos', seen')
    BY <1>1, <1>2, <2>3, <2>4, <2>7, ProcessList, Zenon
  <2> QED BY <2>8, Zenon DEF WalkGoesOn
<1> QED BY <1>10, <1>11

----------------------------------------------------------------------------
(* A file that was closed reads back                                        *)

IsClosed(a, w, at) == w # <<>> /\ a.idx = 0 /\ Settled(a, w, at)
WholeFile == NoEmptyChunk /\ file.end + 1 >= avi.size

(* Such a file is sound.                                                    *)
LEMMA ClosedSound ==
    ASSUME NEW at, IsClosed(avi, wrote, at), WholeFile
    PROVE  Sound(file, wrote, at) /\ avi.size = at[Len(wrote) + 1]
<1>1. PICK a, w, f : a = avi /\ w = wrote /\ f = a.file OBVIOUS
<1>2. /\ w # <<>> /\ a.idx = 0 /\ Core(a, w, at) /\ f.end <= a.size /\ Between(a, w, at) /\ ~a.partial
  BY <1>1, Zenon DEF IsClosed, Settled
<1>3. Nested(w) /\ Placed(f.hdr, w, at) /\ Sized(f.hdr, w, at, 0) /\ Present(f, w, at) /\ IsHandle(a)
  BY <1>1, <1>2, Zenon DEF Core
<1>4. f.end \in Nat /\ a.size \in Nat BY <1>1, <1>3, Zenon DEF IsHandle
<1>5. a.size = at[Len(w) + 1] BY <1>2, Zenon DEF Between
<1>6. f.end + 1 >= at[Len(w) + 1] BY <1>1, <1>5, Zenon DEF WholeFile, file
<1>7. f.end <= at[Len(w) + 1] BY <1>2, <1>5, Zenon
<1>8. \A p \in DOMAIN f.hdr : f.hdr[p].type = "" => f.hdr[p].size > 0
  BY <1>1, Zenon DEF WholeFile, NoEmptyChunk, file
<1>9. Sound(f, w, at) BY <1>2, <1>3, <1>4, <1>6, <1>7, <1>8, Zenon DEF Sound
<1> QED BY <1>1, <1>5, <1>9, Zenon DEF file

(* The walk begins at the first byte.                                       *)
LEMMA WalkBegins ==
    ASSUME NEW from, NEW to, StartCheck(from, to), NEW W, NEW at, Sound(file', W, at)
    PROVE  InWalk(W, at)'
<1>1. stack' = <<>> /\ fdpos' = 0 /\ errs' = 0 /\ seen' = <<>> /\ avi_size' = file.end /\ avi' = avi
  BY Zenon DEF StartCheck
<1>2. W \in Seq(Elements) /\ W # <<>> /\ First(W[1]) /\ Placed(file'.hdr, W, at) BY Zenon DEF Sound, Nested
<1>3. PICK N \in Nat : N = Len(W) /\ N > 0 BY <1>2
<1>4. at[1] = 0 BY <1>2, Zenon DEF Placed
<1>5. PICK st, sn : st = <<>> /\ sn = <<>> OBVIOUS
<1>6. Walk(W, at, 0, st, 0, sn)
  <2>1. W[1].level = 0 BY <1>2, Zenon DEF First
  <2>2. /\ st \in Seq(Reads) /\ Len(st) = 0 /\ sn \in Seq(Elements) /\ Len(sn) = 0 BY <1>5
  <2>3. 0 + 1 = 1 /\ 0 \in 0 .. Len(W) BY <1>3
  <2>4. 1 .. Len(st) = {} /\ 1 .. Len(st) - 1 = {} /\ 1 .. 0 = {} /\ ~(Len(st) > 0) BY <2>2
  <2>5. W[0 + 1].level <= Len(st) BY <2>1, <2>2, <2>3
  <2>6. 0 = at[0 + 1] BY <1>4, <2>3
  <2> QED BY <2>2, <2>3, <2>4, <2>5, <2>6, Zenon DEF Walk
<1>7. file' = file BY <1>1, Zenon DEF file
<1>8. Walk(W, at, 0, stack', fdpos', seen') BY <1>1, <1>5, <1>6, Zenon
<1> QED BY <1>1, <1>7, <1>8, Zenon DEF InWalk

(* Steps of the check.                                                      *)
WalkStep == avi_check \/ avi_process_chunk \/ SubList \/ ListEnds

(* A step of the check leaves the file, and is made in one of its phases.   *)
LEMMA WalkStays ==
    ASSUME WalkStep
    PROVE  UNCHANGED <<avi, wrote, avi_size>> /\ phase \in DOMAIN Ended
BY Zenon DEF WalkStep, avi_check, avi_process_chunk, SubList, ListEnds, InList, Checking

(* A check of a sound file stays one, until it has read all elements.       *)
LEMMA WalkSteps ==
    ASSUME NEW W, NEW at, InWalk(W, at), WalkStep
    PROVE  /\ phase' = phase => InWalk(W, at)'
           /\ phase' # phase => phase' = Ended[phase] /\ seen' = W /\ errs' = 0
<1>1. WalkGoesOn(W, at) BY ListStep, ChunkStep, EndStep, CheckStep, Zenon DEF WalkStep
<1>2. UNCHANGED <<avi, avi_size>> /\ phase \in DOMAIN Ended BY WalkStays, Zenon
<1>3. file' = file BY <1>2, Zenon DEF file
<1>4. Ended[phase] # phase BY <1>2 DEF Ended
<1>5. CASE phase' = phase
  <2>1. errs' = 0 /\ \E k : Walk(W, at, k, stack', fdpos', seen') BY <1>1, <1>4, <1>5, Zenon DEF WalkGoesOn
  <2> QED BY <1>2, <1>3, <1>5, <2>1, Zenon DEF InWalk
<1>6. CASE phase' # phase BY <1>1, <1>6, Zenon DEF WalkGoesOn
<1> QED BY <1>5, <1>6

(* avi_simple_check compares the size of the outermost list with the file.  *)
LEMMA SimpleIs ==
    ASSUME NEW W, NEW at, Sound(file, W, at)
    PROVE  avi_simple_check <=> file.end = at[Len(W) + 1]
<1>1. PICK f : f = file OBVIOUS
<1>2. /\ W \in Seq(Elements) /\ W # <<>> /\ First(W[1]) /\ Placed(f.hdr, W, at) /\ Sized(f.hdr, W, at, 0)
      /\ \A k \in 1 .. Len(W) - 1 : Follows(W[k], W[k + 1])
  BY <1>1, Zenon DEF Sound, Nested
<1>3. PICK N \in Nat : N = Len(W) /\ N > 0 BY <1>2
<1>4. W[1].level = 0 /\ W[1].name \in ListNames
  <2>1. W[1].level = 0 /\ W[1].name = "AVI " BY <1>2, Zenon DEF First
  <2> QED BY <2>1 DEF ListNames
<1>5. at[1] = 0 /\ at[N + 1] \in Nat
  <2>1. N + 1 \in 1 .. Len(W) + 1 BY <1>3
  <2>2. at[N + 1] \in Nat BY <1>2, <2>1, PlaceIs
  <2> QED BY <1>2, <2>2, Zenon DEF Placed
<1>6. PICK z : z = f.hdr[at[1]].size OBVIOUS
<1>7. z \in Nat /\ f.end >= ListHead
  <2>1. 0 \in 0 .. N - 1 /\ 0 + 1 = 1 BY <1>3
  <2>2. W[0 + 1].name \in ListNames /\ z = f.hdr[at[0 + 1]].size BY <1>4, <1>6, <2>1
  <2>3. z \in Nat /\ f.end >= at[0 + 1] + ListHead BY <1>1, <1>3, <2>1, <2>2, ListHeads
  <2> QED BY <1>5, <2>1, <2>3 DEF ListHead
<1>8. EndsAt(W, 1, N + 1)
  <2>1. Around(W, 1, N)
    <3>1. ASSUME NEW i \in 2 .. N PROVE W[i].level > W[1].level
      <4>1. i - 1 \in 1 .. Len(W) - 1 /\ (i - 1) + 1 = i /\ i \in 1 .. Len(W) BY <1>3
      <4>2. Follows(W[i - 1], W[i]) BY <1>2, <4>1
      <4>3. W[i].level >= 1 BY <4>2, Zenon DEF Follows
      <4>4. W[i].level \in Nat BY <1>2, <4>1, ElementIs
      <4> QED BY <1>4, <4>3, <4>4
    <3> QED BY <3>1 DEF Around
  <2>2. N + 1 \in 1 + 1 .. Len(W) + 1 /\ (N + 1) - 1 = N /\ ~(N + 1 <= Len(W)) BY <1>3
  <2>3. Around(W, 1, (N + 1) - 1) BY <2>1, <2>2
  <2> QED BY <2>2, <2>3 DEF EndsAt
<1>9. z = at[N + 1] - 8
  <2>1. 1 \in 1 .. Len(W) /\ N + 1 \in 1 .. Len(W) + 1 /\ W[1].level >= 0 BY <1>3, <1>4
  <2>2. z = at[N + 1] - at[1] - ChunkHead BY <1>2, <1>4, <1>6, <1>8, <2>1, Zenon DEF Sized
  <2> QED BY <1>5, <2>2 DEF ChunkHead
<1>10. HeaderAt(0).name = Riff /\ HeaderAt(0).size = z
  <2>1. 1 \in 1 .. Len(W) BY <1>3
  <2>2. HeadFor(f.hdr[at[1]], W[1], 1 = 1, at[1], at[1 + 1]) BY <1>2, <2>1, Zenon DEF Placed
  <2>3. f.hdr[at[1]].name = Riff BY <1>4, <2>2, Zenon DEF HeadFor
  <2> QED BY <1>1, <1>5, <1>6, <2>3, Zenon DEF HeaderAt
<1>11. f.end \in Nat BY <1>1, Zenon DEF Sound
<1>12. z + ChunkHead = f.end <=> f.end = at[N + 1]
  <2>1. PICK x \in Nat : x = at[N + 1] BY <1>5
  <2>2. z = x - 8 BY <1>9, <2>1
  <2> QED BY <1>11, <2>1, <2>2 DEF ChunkHead
<1>13. avi_simple_check <=> z + ChunkHead = f.end
  BY <1>1, <1>7, <1>10, Zenon DEF avi_simple_check
<1> QED BY <1>1, <1>3, <1>12, <1>13, Zenon

(* What leads to a check of a closed file.                                  *)
ClosedPhases == {"closed", "check", "checked"}

(* A check of a closed file is started after avi_close, or goes on.         *)
LEMMA CheckFrom ==
    ASSUME Parse, phase' \in ClosedPhases
    PROVE  \/ StartCheck("closed", "check")
           \/ WalkStep /\ phase = "check" /\ phase' \in {"check", "checked"}
<1>1. CASE WalkStep
  <2>1. phase' = phase \/ phase' = Ended[phase] \/ phase' = "astray"
    BY <1>1, Zenon DEF WalkStep, avi_check, avi_process_chunk, SubList, ListEnds, avi_process_list
  <2>2. phase \in DOMAIN Ended BY <1>1, WalkStays
  <2>3. /\ DOMAIN Ended = {"check", "salvage", "recheck"} /\ Ended["check"] = "checked"
        /\ Ended["salvage"] = "salvaged" /\ Ended["recheck"] = "rechecked"
    BY DEF Ended
  <2>4. phase = "check" \/ phase = "salvage" \/ phase = "recheck" BY <2>2, <2>3
  <2>5. /\ "salvage" \notin ClosedPhases /\ "salvaged" \notin ClosedPhases /\ "astray" \notin ClosedPhases
        /\ "recheck" \notin ClosedPhases /\ "rechecked" \notin ClosedPhases
    BY DEF ClosedPhases
  <2>6. phase = "check" BY <2>1, <2>3, <2>4, <2>5
  <2>7. phase' = "check" \/ phase' = "checked" BY <2>1, <2>3, <2>5, <2>6
  <2> QED BY <1>1, <2>6, <2>7
<1>2. CASE RestoreBegins \/ RestoreChunk \/ RestoreEnds
  <2>1. phase' \in {"damaged", "restore", "astray", "restored"} \/ (phase = "restore" /\ phase' = phase)
    BY <1>2, Zenon DEF RestoreBegins, RestoreChunk, RestoreEnds
  <2>2. \A s \in {"damaged", "restore", "astray", "restored"} : s \notin ClosedPhases BY DEF ClosedPhases
  <2> QED BY <2>1, <2>2
<1>3. CASE StartCheck("restored", "recheck") \/ StartCheck("left", "salvage")
  <2>1. phase' = "recheck" \/ phase' = "salvage" BY <1>3, Zenon DEF StartCheck
  <2>2. "recheck" \notin ClosedPhases /\ "salvage" \notin ClosedPhases BY DEF ClosedPhases
  <2> QED BY <2>1, <2>2
<1> QED BY <1>1, <1>2, <1>3, Zenon DEF Parse, ParseNext, WalkStep

(* The check of a file that was closed.                                     *)
Checked(at) ==
    /\ phase = "check" => InWalk(wrote, at)
    /\ phase = "checked" => seen = wrote /\ errs = 0
ClosedPart ==
    phase \in ClosedPhases => \E at : IsClosed(avi, wrote, at) /\ (WholeFile => Checked(at))
ReadInv == ClosedPart /\ (pc \notin {"gone", "library"} => phase \in Ongoing)

(* Steps that leave the file and the check alone.                           *)
LEMMA ClosedStays ==
    ASSUME ClosedPart, UNCHANGED <<avi, wrote, phase>>, phase \in Ongoing \/ UNCHANGED parseVars
    PROVE  ClosedPart'
<1> SUFFICES ASSUME phase' \in ClosedPhases
             PROVE  \E at : IsClosed(avi, wrote, at)' /\ (WholeFile' => Checked(at)')
  BY Zenon DEF ClosedPart
<1>1. PICK at : IsClosed(avi, wrote, at) /\ (WholeFile => Checked(at)) BY Zenon DEF ClosedPart
<1>2. IsClosed(avi', wrote', at) BY <1>1, Zenon
<1>3. file' = file /\ (WholeFile' <=> WholeFile) BY Zenon DEF WholeFile, NoEmptyChunk, file
<1>4. CASE phase \in Ongoing
  <2>1. phase' \in Ongoing BY <1>4, Zenon
  <2>2. "check" \notin Ongoing /\ "checked" \notin Ongoing BY DEF Ongoing
  <2>3. Checked(at)' BY <2>1, <2>2, Zenon DEF Checked
  <2> QED BY <1>2, <2>3, Zenon
<1>5. CASE UNCHANGED parseVars
  <2>1. Checked(at)' <=> Checked(at)
    BY <1>3, <1>5, Zenon DEF parseVars, Checked, InWalk
  <2> QED BY <1>1, <1>2, <1>3, <2>1, Zenon
<1> QED BY <1>4, <1>5

(* The parser's steps.                                                      *)
LEMMA ClosedParse ==
    ASSUME ClosedPart, Parse
    PROVE  ClosedPart'
<1> SUFFICES ASSUME phase' \in ClosedPhases
             PROVE  \E at : IsClosed(avi, wrote, at)' /\ (WholeFile' => Checked(at)')
  BY Zenon DEF ClosedPart
<1>1. CASE StartCheck("closed", "check")
  <2>1. phase = "closed" /\ phase' = "check" /\ UNCHANGED <<avi, wrote>> BY <1>1, Zenon DEF StartCheck
  <2>2. PICK at : IsClosed(avi, wrote, at)
    <3>1. "closed" \in ClosedPhases BY DEF ClosedPhases
    <3> QED BY <2>1, <3>1, Zenon DEF ClosedPart
  <2>3. IsClosed(avi', wrote', at) BY <2>1, <2>2, Zenon
  <2>4. ASSUME WholeFile' PROVE Checked(at)'
    <3>1. WholeFile BY <2>1, <2>4, Zenon DEF WholeFile, NoEmptyChunk, file
    <3>2. Sound(file, wrote, at) BY <2>2, <3>1, ClosedSound, Zenon
    <3>3. Sound(file', wrote, at) BY <2>1, <3>2, Zenon DEF file
    <3>4. InWalk(wrote, at)' BY <1>1, <2>1, <3>3, WalkBegins, Zenon
    <3>5. phase' # "checked" BY <2>1
    <3> QED BY <3>4, <3>5, Zenon DEF Checked
  <2> QED BY <2>3, <2>4, Zenon
<1>2. CASE WalkStep /\ phase = "check" /\ phase' \in {"check", "checked"}
  <2>1. UNCHANGED <<avi, wrote>> BY <1>2, WalkStays
  <2>2. PICK at : IsClosed(avi, wrote, at) /\ (WholeFile => Checked(at))
    <3>1. "check" \in ClosedPhases BY DEF ClosedPhases
    <3> QED BY <1>2, <3>1, Zenon DEF ClosedPart
  <2>3. IsClosed(avi', wrote', at) BY <2>1, <2>2, Zenon
  <2>4. ASSUME WholeFile' PROVE Checked(at)'
    <3>1. WholeFile BY <2>1, <2>4, Zenon DEF WholeFile, NoEmptyChunk, file
    <3>2. PICK w : w = wrote OBVIOUS
    <3>3. InWalk(w, at) BY <1>2, <2>2, <3>1, <3>2, Zenon DEF Checked
    <3>4. /\ phase' = phase => InWalk(w, at)'
          /\ phase' # phase => phase' = Ended[phase] /\ seen' = w /\ errs' = 0
      BY <1>2, <3>3, WalkSteps, Zenon
    <3>5. "check" # "checked" OBVIOUS
    <3>6. CASE phase' = "check"
      <4>1. InWalk(w, at)' BY <1>2, <3>4, <3>6, Zenon
      <4> QED BY <2>1, <3>2, <3>5, <3>6, <4>1, Zenon DEF Checked, InWalk
    <3>7. CASE phase' = "checked"
      <4>1. seen' = w /\ errs' = 0 BY <1>2, <3>4, <3>5, <3>7, Zenon
      <4> QED BY <2>1, <3>2, <3>5, <3>7, <4>1, Zenon DEF Checked
    <3> QED BY <1>2, <3>6, <3>7, Zenon
  <2> QED BY <2>3, <2>4, Zenon
<1> QED BY <1>1, <1>2, CheckFrom, Zenon

(* A file that is closed.                                                   *)
LEMMA ClosedNow ==
    ASSUME NEW a, NEW w, Ready(a, w), w # <<>>, avi' = avi_file_close(a), wrote' = w, phase' = "closed"
    PROVE  ClosedPart'
<1>1. PICK c : c = avi_file_close(a) OBVIOUS
<1>2. PICK at : Settled(c, w, at) /\ c.idx = 0 BY <1>1, FileCloseReady
<1>3. IsClosed(avi', wrote', at) BY <1>1, <1>2, Zenon DEF IsClosed
<1>4. Checked(at)'
  <2>1. phase' # "check" /\ phase' # "checked" OBVIOUS
  <2> QED BY <2>1, Zenon DEF Checked
<1> QED BY <1>3, <1>4, Zenon DEF ClosedPart

(* The program that uses the library.                                       *)
LEMMA ClosedUse ==
    ASSUME phase \in Ongoing => FilePart(avi, wrote, entries), ClosedPart, UseNext
    PROVE  ClosedPart'
<1>1. CASE Parse BY <1>1, ClosedParse, Zenon
<1>2. CASE Close
  <2>1. phase = "write" /\ wrote # <<>> /\ avi' = avi_file_close(avi) /\ phase' = "closed" /\ wrote' = wrote
    BY <1>2, Zenon DEF Close
  <2>2. Ready(avi, wrote)
    <3>1. phase \in Ongoing BY <2>1, Zenon DEF Ongoing
    <3> QED BY <3>1, Zenon DEF FilePart
  <2> QED BY <2>1, <2>2, ClosedNow, Zenon
<1>3. CASE ~Parse /\ ~Close
  <2>1. CASE Crash
    <3>1. phase' = "left" BY <2>1, Zenon DEF Crash
    <3>2. "left" \notin ClosedPhases BY DEF ClosedPhases
    <3> QED BY <3>1, <3>2, Zenon DEF ClosedPart
  <2>2. CASE ~Crash
    <3>1. Call
      BY <1>3, <2>2, Zenon DEF UseNext, OpenList, StreamHeader, CloseList, Create, AppendChunk,
         AppendData, AppendFake, Write2Fields, avif_write_audio, AlignNext, In, InMovi
    <3>2. phase' = "write" BY <3>1, Zenon DEF Call, parseVars
    <3>3. "write" \notin ClosedPhases BY DEF ClosedPhases
    <3> QED BY <3>2, <3>3, Zenon DEF ClosedPart
  <2> QED BY <2>1, <2>2
<1> QED BY <1>1, <1>2, <1>3

(* write_video closes the file at the end of a recording.                   *)
LEMMA ClosedVideo ==
    ASSUME FileInv, ReadInv, write_video, phase \in Ongoing
    PROVE  ClosedPart' /\ phase' \in Ongoing
<1>0. "write" \notin ClosedPhases /\ "write" \in Ongoing /\ "closed" \in Ongoing BY DEF ClosedPhases, Ongoing
<1>1. PICK a, w : a = avi /\ w = wrote OBVIOUS
<1>2. Ready(a, w) BY <1>1, Zenon DEF FileInv, FilePart
<1>3. CASE phase' = "write" BY <1>0, <1>3, Zenon DEF ClosedPart
<1>4. CASE /\ video = "FINISH" /\ video' = "NONE"
           /\ \E noMovi \in {avi_file_list_close(avi)} : \E noRiff \in {avi_file_list_close(noMovi)} :
                avi' = avi_file_close(noRiff)
           /\ phase' = "closed" /\ UNCHANGED wrote
  <2>1. FileOpen BY <1>4, Zenon DEF FileOpen
  <2>2. a.idx = 2 /\ a.l[1].type = "movi" BY <1>1, <2>1, Zenon DEF FileInv, InMoviList
  <2>3. PICK b, d : b = avi_file_list_close(a) /\ d = avi_file_list_close(b) /\ avi' = avi_file_close(d)
    BY <1>1, <1>4, Zenon
  <2>4. Closing(a, b, w)
    <3>1. a.idx >= 1 BY <2>2
    <3> QED BY <1>2, <2>3, <3>1, CloseReady
  <2>5. PICK bt : Settled(b, w, bt) BY <2>4, Zenon DEF Closing
  <2>6. b.idx = 1
    <3>1. b.idx = a.idx - 1 BY <2>4, Zenon DEF Closing
    <3> QED BY <2>2, <3>1
  <2>7. Ready(b, w) BY <2>5, SettledReady
  <2>8. Closing(b, d, w) BY <2>3, <2>6, <2>7, CloseReady
  <2>9. PICK dt : Settled(d, w, dt) BY <2>8, Zenon DEF Closing
  <2>10. Ready(d, w) BY <2>9, SettledReady
  <2>11. w # <<>>
    <3>1. PICK type : type = "movi" OBVIOUS
    <3>2. InType(a, type)
      <4>1. a.idx > 0 /\ a.idx - 1 = 1 BY <2>2
      <4> QED BY <2>2, <3>1, <4>1, Zenon DEF InType
    <3> QED BY <1>2, <3>2, InIs, Zenon
  <2>12. wrote' = w /\ phase' = "closed" BY <1>1, <1>4, Zenon
  <2> QED BY <1>0, <2>3, <2>10, <2>11, <2>12, ClosedNow, Zenon
<1>5. CASE UNCHANGED phase /\ phase = "write" BY <1>0, <1>5, Zenon DEF ClosedPart
<1>6. CASE video = "NONE" /\ UNCHANGED <<video, avi, wrote, phase>>
  BY <1>6, ClosedStays, Zenon DEF ReadInv
<1>7. CASE video = "PROCESS" /\ UNCHANGED phase
  <2>1. FileOpen BY <1>7, Zenon DEF FileOpen
  <2>2. phase = "write" BY <2>1, Zenon DEF FileInv
  <2> QED BY <1>5, <1>7, <2>2
<1> QED BY <1>3, <1>4, <1>6, <1>7, Zenon DEF write_video

(* At first nothing is closed.                                              *)
LEMMA ReadInit == ViewerInit => ReadInv
<1> SUFFICES ASSUME ViewerInit PROVE ReadInv OBVIOUS
<1>1. phase = "write" BY Zenon DEF ViewerInit, UseInit, ParseInit
<1>2. "write" \notin ClosedPhases /\ "write" \in Ongoing BY DEF ClosedPhases, Ongoing
<1> QED BY <1>1, <1>2, Zenon DEF ReadInv, ClosedPart

(* No step breaks it.                                                       *)
LEMMA ReadNext == FileInv /\ ReadInv /\ [ViewerNext]_viewerVars => ReadInv'
<1> SUFFICES ASSUME FileInv, ReadInv, [ViewerNext]_viewerVars PROVE ReadInv'
  OBVIOUS
<1>0. ClosedPart /\ (pc \notin {"gone", "library"} => phase \in Ongoing) BY Zenon DEF ReadInv
<1>1. ASSUME AviUnchanged, pc \notin {"gone", "library"} PROVE ReadInv'
  <2>1. phase \in Ongoing /\ UNCHANGED <<avi, wrote, phase>> BY <1>0, <1>1, Zenon DEF AviUnchanged
  <2>2. ClosedPart' BY <1>0, <2>1, ClosedStays, Zenon
  <2>3. phase' \in Ongoing BY <2>1, Zenon DEF Ongoing
  <2> QED BY <2>2, <2>3, Zenon DEF ReadInv
<1>2. CASE UNCHANGED viewerVars
  <2>1. UNCHANGED <<avi, wrote, phase>> /\ UNCHANGED parseVars /\ pc' = pc
    BY <1>2, Zenon DEF viewerVars, dataVars, useVars, aviVars, parseVars
  <2>2. ClosedPart' BY <1>0, <2>1, ClosedStays, Zenon
  <2>3. phase' \in Ongoing <=> phase \in Ongoing BY <2>1, Zenon DEF Ongoing
  <2> QED BY <1>0, <2>1, <2>2, <2>3, Zenon DEF ReadInv
<1>3. CASE \/ Wake \/ ScriptReads \/ ScriptMakes \/ ScriptSends \/ ScriptWrites \/ cam4_dump_raw_frame
           \/ Unpack \/ write_raw_video \/ StartPicture \/ MakePicture
  <2>1. AviUnchanged
    BY <1>3, Zenon DEF Wake, ScriptReads, ScriptMakes, ScriptSends, ScriptWrites, cam4_dump_raw_frame,
       Unpack, write_raw_video, StartPicture, MakePicture, dataVars, useVars, aviVars, parseVars, AviUnchanged
  <2>2. pc \notin {"gone", "library"}
    <3>1. CASE MakePicture BY <3>1, Zenon DEF MakePicture
    <3>2. CASE ~MakePicture
      BY <1>3, <3>2, Zenon DEF Wake, ScriptReads, ScriptMakes, ScriptSends, ScriptWrites,
         cam4_dump_raw_frame, Unpack, write_raw_video, StartPicture
    <3> QED BY <3>1, <3>2
  <2> QED BY <1>1, <2>1, <2>2
<1>4. CASE EndOfFrame
  <2>1. pc \notin {"gone", "library"} /\ write_video BY <1>4, Zenon DEF EndOfFrame
  <2>2. ClosedPart' /\ phase' \in Ongoing BY <1>0, <2>1, ClosedVideo, Zenon
  <2> QED BY <2>2, Zenon DEF ReadInv, Ongoing
<1>5. CASE WriteCommand \/ TakeCommand \/ CommandMakes \/ CommandSends \/ CommandStores \/ parse_command \/ MoveWindow
  <2>1. AviUnchanged /\ Alive
    BY <1>5, Zenon DEF WriteCommand, TakeCommand, CommandMakes, CommandSends, CommandStores, parse_command,
       MoveWindow, dataVars, useVars, aviVars, parseVars, AviUnchanged
  <2>2. pc \notin {"gone", "library"} BY <2>1, Zenon DEF Alive
  <2> QED BY <1>1, <2>1, <2>2
<1>6. CASE Exit
  <2>1. UNCHANGED <<avi, wrote>> /\ Alive /\ pc' = "gone" /\ phase' = IF FileOpen THEN "left" ELSE phase
    BY <1>6, Zenon DEF Exit
  <2>2. phase \in Ongoing BY <1>0, <2>1, Zenon DEF Alive
  <2>3. ClosedPart'
    <3>1. CASE FileOpen
      <4>1. phase' = "left" BY <2>1, <3>1, Zenon
      <4>2. "left" \notin ClosedPhases BY DEF ClosedPhases
      <4> QED BY <4>1, <4>2, Zenon DEF ClosedPart
    <3>2. CASE ~FileOpen
      <4>1. phase' = phase BY <2>1, <3>2, Zenon
      <4> QED BY <1>0, <2>1, <2>2, <4>1, ClosedStays, Zenon
    <3> QED BY <3>1, <3>2
  <2> QED BY <2>1, <2>3, Zenon DEF ReadInv
<1>7. CASE LaterParse
  <2>1. pc = "gone" /\ Parse /\ pc' = pc BY <1>7, Zenon DEF LaterParse, ViewOnly
  <2>2. ClosedPart' BY <1>0, <2>1, ClosedParse, Zenon
  <2> QED BY <2>1, <2>2, Zenon DEF ReadInv
<1>8. CASE Library
  <2>1. pc = "library" /\ UseNext /\ pc' = pc BY <1>8, Zenon DEF Library, ViewOnly
  <2>2. phase \in Ongoing => FilePart(avi, wrote, entries) BY Zenon DEF FileInv
  <2>3. ClosedPart' BY <1>0, <2>1, <2>2, ClosedUse, Zenon
  <2> QED BY <2>1, <2>3, Zenon DEF ReadInv
<1> QED
  BY <1>2, <1>3, <1>4, <1>5, <1>6, <1>7, <1>8, Zenon DEF ViewerNext, FrameThread, CommandThread

(* Then a file that was checked has been read as it was written.            *)
LEMMA ReadRight == ReadInv => ReadsBack
<1> SUFFICES ASSUME ReadInv, phase = "checked", NoEmptyChunk, file.end + 1 >= avi.size
             PROVE  seen = wrote /\ errs = 0 /\ (avi_simple_check <=> file.end = avi.size)
  BY Zenon DEF ReadsBack
<1>1. WholeFile BY Zenon DEF WholeFile
<1>2. PICK at : IsClosed(avi, wrote, at) /\ Checked(at)
  <2>1. phase \in ClosedPhases BY DEF ClosedPhases
  <2> QED BY <1>1, <2>1, Zenon DEF ReadInv, ClosedPart
<1>3. Sound(file, wrote, at) /\ avi.size = at[Len(wrote) + 1] BY <1>1, <1>2, ClosedSound
<1>4. avi_simple_check <=> file.end = avi.size BY <1>3, SimpleIs
<1>5. seen = wrote /\ errs = 0 BY <1>2, Zenon DEF Checked
<1> QED BY <1>4, <1>5

(* A file that was closed reads back: avi_check finds what was written, at  *)
(* the depth and in the order it was written, with no error, and            *)
(* avi_simple_check takes it when its last chunk is padded.  The layout the *)
(* writer keeps is what the walk relies on: each list on the stack ends     *)
(* where its size says, behind the elements that are inside of it.          *)
THEOREM ClosedReadsBack == ViewerSpec => []ReadsBack
<1>1. ViewerInit => FileInv /\ ReadInv BY FileInit, ReadInit
<1>2. FileInv /\ ReadInv /\ [ViewerNext]_viewerVars => (FileInv /\ ReadInv)' BY FileNext, ReadNext
<1>3. FileInv /\ ReadInv => ReadsBack BY ReadRight
<1> QED BY <1>1, <1>2, <1>3, PTL DEF ViewerSpec

----------------------------------------------------------------------------
(* A file that was left open                                                *)

(* The headers that are whole in a file of e bytes.                         *)
HeadersTo(h, e) == [p \in {q \in DOMAIN h : q + ChunkHead <= e} |-> h[p]]
(* The elements of a file whose program ended in the movi list, the m-th of *)
(* them; the file has some of the last element.                             *)
Abandoned(h, W, at, m, e) ==
    /\ Nested(W) /\ Rules(W) /\ Placed(h, W, at) /\ Sized(h, W, at, 2)
    /\ m \in 1 .. Len(W) /\ W[m].level = 1 /\ W[m].name = "movi" /\ Around(W, m, Len(W))
    /\ e \in Nat /\ e > at[Len(W)] /\ e >= at[m + 1]
Finished == IF avi.partial THEN Front(wrote) ELSE wrote

(* The movi list is among the elements when it is the innermost open one.   *)
LEMMA MoviElement ==
    ASSUME NEW a, NEW W, NEW at, Opened(a, W, at), InMoviList(a), NEW h, h = a.file.hdr, NEW N, N = Len(W)
    PROVE  /\ N \in Nat \ {0} /\ Nested(W) /\ Rules(W)
           /\ Placed(h, W, at) /\ Sized(h, W, at, 2) /\ Present(a.file, W, at)
           /\ a.file.end \in Nat
           /\ \E m \in 1 .. N : /\ W[m].level = 1 /\ W[m].name = "movi" /\ Around(W, m, Len(W))
                                /\ at[m + 1] = at[m] + ListHead /\ a.file.end >= at[m + 1]
<1>1. Core(a, W, at) /\ a.idx = 2 BY Zenon DEF Opened, InMoviList
<1>2. /\ Nested(W) /\ Rules(W) /\ Placed(h, W, at) /\ Sized(h, W, at, 2) /\ Present(a.file, W, at) /\ IsHandle(a)
  BY <1>1, Zenon DEF Core
<1>3. a.file.end \in Nat BY <1>2, Zenon DEF IsHandle
<1>4. W \in Seq(Elements) /\ N \in Nat BY <1>2 DEF Nested
<1>5. PICK m \in 1 .. N : IsOpen(a, W, at, 1, m)
  <2>1. 1 \in 0 .. a.idx - 1 BY <1>1
  <2> QED BY <1>1, <2>1, Zenon DEF Core
<1>6. W[m].level = 1 /\ W[m].name = "movi" /\ Around(W, m, Len(W)) BY <1>5, Zenon DEF IsOpen, InMoviList
<1>7. at[m + 1] = at[m] + ListHead /\ a.file.end >= at[m] + ListHead
  <2>1. "movi" \in ListNames BY DEF ListNames
  <2>2. HeadFor(h[at[m]], W[m], m = 1, at[m], at[m + 1]) BY <1>2, <1>5, Zenon DEF Placed
  <2>3. at[m + 1] = at[m] + ListHead BY <1>6, <2>1, <2>2, Zenon DEF HeadFor
  <2>4. a.file.end >= at[m] + ListHead BY <1>2, <1>5, <1>6, <2>1, Zenon DEF Present
  <2> QED BY <2>3, <2>4
<1>8. a.file.end >= at[m + 1] BY <1>7, Zenon
<1>9. N \in Nat \ {0} BY <1>4, <1>5
<1> QED BY <1>2, <1>3, <1>5, <1>6, <1>7, <1>8, <1>9, Zenon

(* A file that ends where the last call left it.                            *)
LEMMA LeftWhole ==
    ASSUME NEW a, NEW W, NEW at, Opened(a, W, at), InMoviList(a), NEW h, h = a.file.hdr, NEW e, e = a.file.end
    PROVE  h = HeadersTo(h, e) /\ \E m : Abandoned(h, W, at, m, e)
<1>1. PICK N : N = Len(W) OBVIOUS
<1>2. /\ N \in Nat \ {0} /\ Nested(W) /\ Rules(W) /\ Placed(h, W, at) /\ Sized(h, W, at, 2) /\ Present(a.file, W, at)
      /\ e \in Nat
  BY <1>1, MoviElement, Zenon
<1>3. PICK m \in 1 .. N : /\ W[m].level = 1 /\ W[m].name = "movi" /\ Around(W, m, Len(W))
                          /\ at[m + 1] = at[m] + ListHead /\ e >= at[m + 1]
  BY <1>1, MoviElement, Zenon
<1>4. \A k \in 1 .. N : e >= at[k] + ChunkHead BY <1>1, <1>2, Zenon DEF Present
<1>5. e > at[N]
  <2>1. N \in 1 .. N /\ N \in 1 .. N + 1 BY <1>2
  <2>2. W \in Seq(Elements) BY <1>2, Zenon DEF Nested
  <2>3. at[N] \in Nat BY <1>1, <1>2, <2>1, <2>2, PlaceIs
  <2>4. e >= at[N] + ChunkHead BY <1>4, <2>1, Zenon
  <2> QED BY <1>2, <2>3, <2>4 DEF ChunkHead
<1>6. Abandoned(h, W, at, m, e) BY <1>1, <1>2, <1>3, <1>5, Zenon DEF Abandoned
<1>7. h = HeadersTo(h, e)
  <2>1. h = [p \in DOMAIN h |-> h[p]] /\ DOMAIN h = {at[k] : k \in 1 .. N} BY <1>1, <1>2 DEF Placed
  <2>2. {q \in DOMAIN h : q + ChunkHead <= e} = DOMAIN h BY <1>4, <2>1
  <2> QED BY <2>1, <2>2, Zenon DEF HeadersTo
<1> QED BY <1>6, <1>7

(* What of a handle is not the file.                                        *)
OnlyFile(a, c) ==
    /\ Record(c) /\ c.idx = a.idx /\ c.l = a.l /\ c.partial = a.partial
    /\ c.file = [end |-> c.file.end, hdr |-> c.file.hdr]

(* The last header in the file is that of the last element.                 *)
LEMMA LastIs ==
    ASSUME NEW a, a = avi, NEW W \in Seq(Elements), NEW at, Placed(a.file.hdr, W, at), NEW N, N = Len(W), N > 0
    PROVE  LastHeader = at[N] /\ at[N] \in Nat
<1>1. PICK h : h = a.file.hdr OBVIOUS
<1>2. N \in Nat /\ N \in 1 .. N OBVIOUS
<1>3. \A k \in 1 .. N : at[k] \in Nat
  <2>1. \A k \in 1 .. N : k \in 1 .. Len(W) + 1 OBVIOUS
  <2> QED BY <2>1, PlaceIs
<1>4. \A k \in 1 .. N : at[k] <= at[N]
  <2>1. ASSUME NEW k \in 1 .. N PROVE at[k] <= at[N]
    <3>1. k < N => at[k] + ChunkHead <= at[N]
      <4>1. k \in 1 .. Len(W) + 1 /\ N \in 1 .. Len(W) + 1 BY <1>2
      <4> QED BY <4>1, Zenon DEF Placed
    <3>2. at[k] \in Nat /\ at[N] \in Nat BY <1>2, <1>3
    <3> QED BY <3>1, <3>2 DEF ChunkHead
  <2> QED BY <2>1
<1>5. DOMAIN h = {at[k] : k \in 1 .. N} BY <1>1 DEF Placed
<1>6. \A p \in DOMAIN h : p \in Nat /\ p <= at[N] BY <1>3, <1>4, <1>5
<1>7. at[N] \in DOMAIN h BY <1>2, <1>5
<1>8. \A o \in DOMAIN h : (\A p \in DOMAIN h : p <= o) => o = at[N] BY <1>3, <1>6, <1>7
<1>9. LastHeader = CHOOSE o \in DOMAIN h : \A p \in DOMAIN h : p <= o BY <1>1, Zenon DEF LastHeader
<1> QED BY <1>2, <1>3, <1>6, <1>7, <1>8, <1>9, Zenon

(* A file whose last chunk was written in part.                             *)
LEMMA LeftCut ==
    ASSUME NEW a, a = avi, NEW W, NEW at, Opened(a, W, at), InMoviList(a), NEW h, h = a.file.hdr,
           HeaderAt(LastHeader).name \notin {Riff, List},
           NEW e, e \in {LastHeader + 4, file.end - 1}, NEW c, c = CutAt(e)
    PROVE  /\ c.file.end = e /\ c.file.hdr = HeadersTo(h, e) /\ OnlyFile(a, c)
           /\ \E m : Abandoned(h, W, at, m, e)
<1>1. PICK N : N = Len(W) OBVIOUS
<1>2. /\ N \in Nat \ {0} /\ Nested(W) /\ Rules(W) /\ Placed(h, W, at) /\ Sized(h, W, at, 2) /\ Present(a.file, W, at)
      /\ a.file.end \in Nat
  BY <1>1, MoviElement, Zenon
<1>3. PICK m \in 1 .. N : /\ W[m].level = 1 /\ W[m].name = "movi" /\ Around(W, m, Len(W))
                          /\ at[m + 1] = at[m] + ListHead /\ a.file.end >= at[m + 1]
  BY <1>1, MoviElement, Zenon
<1>4. W \in Seq(Elements) BY <1>2, Zenon DEF Nested
<1>5. LastHeader = at[N] /\ at[N] \in Nat
  <2>1. N > 0 BY <1>2
  <2> QED BY <1>1, <1>2, <1>4, <2>1, LastIs, Zenon
<1>6. N \in 1 .. N /\ W[N].name \notin ListNames
  <2>1. N \in 1 .. N BY <1>2
  <2>2. HeadFor(h[at[N]], W[N], N = 1, at[N], at[N + 1]) BY <1>1, <1>2, <2>1, Zenon DEF Placed
  <2>3. h[at[N]].name \notin {Riff, List} BY <1>5, Zenon DEF HeaderAt, file
  <2> QED BY <2>1, <2>2, <2>3, Zenon DEF HeadFor
<1>7. m # N
  <2>1. "movi" \in ListNames BY DEF ListNames
  <2> QED BY <1>3, <1>6, <2>1, Zenon
<1>8. at[m + 1] <= at[N] /\ at[m + 1] \in Nat
  <2>1. m + 1 \in 1 .. Len(W) + 1 /\ N \in 1 .. Len(W) + 1 /\ (m + 1 = N \/ m + 1 < N) BY <1>1, <1>2, <1>7
  <2>2. at[m + 1] \in Nat BY <1>2, <1>4, <2>1, PlaceIs
  <2>3. m + 1 < N => at[m + 1] + ChunkHead <= at[N] BY <1>2, <2>1, Zenon DEF Placed
  <2> QED BY <1>5, <2>1, <2>2, <2>3 DEF ChunkHead
<1>9. e \in Nat /\ e > at[N]
  <2>1. a.file.end >= at[N] + ChunkHead BY <1>1, <1>2, <1>6, Zenon DEF Present
  <2>2. e = at[N] + 4 \/ e = a.file.end - 1 BY <1>5, Zenon DEF file
  <2> QED BY <1>2, <1>5, <2>1, <2>2 DEF ChunkHead
<1>10. e >= at[m + 1] BY <1>5, <1>8, <1>9
<1>11. Abandoned(h, W, at, m, e) BY <1>1, <1>2, <1>3, <1>9, <1>10, Zenon DEF Abandoned
<1>12. PICK f : f = [end |-> e, hdr |-> HeadersTo(h, e)] OBVIOUS
<1>13. c = [a EXCEPT !.file = f]
  <2>1. {p \in DOMAIN avi.file.hdr : p + ChunkHead <= e} = {q \in DOMAIN h : q + ChunkHead <= e} BY Zenon
  <2>2. [o \in {p \in DOMAIN avi.file.hdr : p + ChunkHead <= e} |-> avi.file.hdr[o]] = HeadersTo(h, e)
    BY <2>1 DEF HeadersTo
  <2> QED BY <1>12, <2>2, Zenon DEF CutAt
<1>14. Record(a)
  <2>1. IsHandle(a) BY Zenon DEF Opened, Core
  <2> QED BY <2>1, Zenon DEF IsHandle, Record
<1>15. c.file = f /\ c.idx = a.idx /\ c.l = a.l /\ c.partial = a.partial /\ Record(c)
  BY <1>13, <1>14 DEF Record
<1>16. f.end = e /\ f.hdr = HeadersTo(h, e) BY <1>12
<1>17. OnlyFile(a, c) BY <1>12, <1>15, <1>16, Zenon DEF OnlyFile
<1> QED BY <1>11, <1>15, <1>16, <1>17, Zenon

(* What the parser relies on in any file of the writer: the size of a list  *)
(* is even, and the movi list is at one place only.                         *)
Listed(h, q) ==
    \A o \in DOMAIN h :
        /\ o \in Nat /\ h[o].size \in Nat
        /\ h[o].name \in {Riff, List} => IsEven(h[o].size)
        /\ h[o].name = List /\ h[o].type = "movi" => o = q

(* A file that was left open is one.                                        *)
LEMMA LeftListed ==
    ASSUME NEW h, NEW W, NEW at, NEW m, NEW e, Abandoned(h, W, at, m, e)
    PROVE  Listed(HeadersTo(h, e), at[m])
<1>1. /\ W \in Seq(Elements) /\ Rules(W) /\ Placed(h, W, at) /\ Sized(h, W, at, 2)
      /\ m \in 1 .. Len(W) /\ W[m].name = "movi"
  BY Zenon DEF Abandoned, Nested
<1>2. PICK N \in Nat : N = Len(W) BY <1>1
<1>3. ASSUME NEW k \in 1 .. N
      PROVE  /\ at[k] \in Nat /\ h[at[k]].size \in Nat
             /\ h[at[k]].name \in {Riff, List} => IsEven(h[at[k]].size)
             /\ h[at[k]].name = List /\ h[at[k]].type = "movi" => k = m
  <2>1. HeadFor(h[at[k]], W[k], k = 1, at[k], at[k + 1]) BY <1>1, <1>2, Zenon DEF Placed
  <2>2. k \in 1 .. Len(W) + 1 BY <1>2
  <2>3. at[k] \in Nat /\ IsEven(at[k]) BY <1>1, <2>2, PlaceIs
  <2>4. h[at[k]].size \in Nat
    <3>1. at[k] \in DOMAIN h BY <1>1, <1>2, Zenon DEF Placed
    <3>2. h[at[k]] \in Heads BY <1>1, <3>1, Zenon DEF Placed
    <3> QED BY <3>2 DEF Heads
  <2>5. ASSUME h[at[k]].name \in {Riff, List} PROVE IsEven(h[at[k]].size)
    <3>1. W[k].name \in ListNames BY <2>1, <2>5, Zenon DEF HeadFor
    <3>2. PICK j \in k + 1 .. N + 1 : EndsAt(W, k, j) BY <1>1, <1>2, EndIs
    <3>3. W[k].level \in Nat BY <1>1, <1>2, ElementIs
    <3>4. CASE W[k].level < 2 /\ Around(W, k, Len(W))
      <4>1. h[at[k]].size = 0 BY <1>1, <1>2, <3>1, <3>4, Zenon DEF Sized
      <4> QED BY <4>1 DEF IsEven
    <3>5. CASE ~(W[k].level < 2 /\ Around(W, k, Len(W)))
      <4>1. j <= Len(W) \/ W[k].level >= 2
        <5>1. CASE j = N + 1
          <6>1. j - 1 = Len(W) BY <1>2, <5>1
          <6>2. Around(W, k, Len(W)) BY <3>2, <6>1, Zenon DEF EndsAt
          <6> QED BY <3>3, <3>5, <6>2
        <5> QED BY <1>2, <5>1
      <4>2. j \in 1 .. Len(W) + 1 BY <1>2
      <4>3. h[at[k]].size = at[j] - at[k] - ChunkHead BY <1>1, <1>2, <3>1, <3>2, <4>1, <4>2, Zenon DEF Sized
      <4>4. PICK x \in Nat : x = at[j] /\ IsEven(x) BY <1>1, <4>2, PlaceIs
      <4>5. PICK z \in Nat : z = at[k] /\ IsEven(z) BY <2>3
      <4>6. PICK s \in Nat : s = h[at[k]].size BY <2>4
      <4>7. s = x - z - 8 BY <4>3, <4>4, <4>5, <4>6 DEF ChunkHead
      <4>8. s % 2 = 0 BY <4>4, <4>5, <4>7 DEF IsEven
      <4> QED BY <4>6, <4>8 DEF IsEven
    <3> QED BY <3>4, <3>5
  <2>6. ASSUME h[at[k]].name = List, h[at[k]].type = "movi" PROVE k = m
    <3>1. W[k].name = "movi"
      <4>1. W[k].name \in ListNames BY <2>1, <2>6, Zenon DEF HeadFor
      <4> QED BY <2>1, <2>6, <4>1, Zenon DEF HeadFor
    <3>2. "movi" \in ListNames BY DEF ListNames
    <3> QED BY <1>1, <1>2, <3>1, <3>2, Zenon DEF Rules
  <2> QED BY <2>3, <2>4, <2>5, <2>6
<1>4. DOMAIN h = {at[k] : k \in 1 .. N} BY <1>1, <1>2, Zenon DEF Placed
<1>5. PICK g : g = HeadersTo(h, e) OBVIOUS
<1>6. \A o \in DOMAIN g : o \in DOMAIN h /\ g[o] = h[o] BY <1>5 DEF HeadersTo
<1>7. Listed(h, at[m]) BY <1>3, <1>4 DEF Listed
<1>8. Listed(g, at[m]) BY <1>6, <1>7, Zenon DEF Listed
<1> QED BY <1>5, <1>8

(* The parser in a file whose lists may not end where they say: the lists   *)
(* it reads are still one in the other, and the descriptor is at the        *)
(* position of the innermost one.                                           *)
Astride(st, p) ==
    /\ st \in Seq(Reads) /\ p \in Nat
    /\ \A i \in 1 .. Len(st) : IsEven(st[i].pos) /\ IsEven(st[i].size)
    /\ \A i \in 1 .. Len(st) - 1 : st[i].off + st[i].pos = st[i + 1].off
    /\ Len(st) > 0 => st[Len(st)].off + st[Len(st)].pos = p

(* The innermost list in numbers.                                           *)
LEMMA TopIs ==
    ASSUME NEW st, NEW p, Astride(st, p), NEW n, n = Len(st), n > 0
    PROVE  /\ n \in Nat /\ st[n].off \in Nat /\ st[n].pos \in Nat /\ st[n].size \in Nat
           /\ IsEven(st[n].pos) /\ IsEven(st[n].size) /\ st[n].off + st[n].pos = p
<1>1. st \in Seq(Reads) BY Zenon DEF Astride
<1>2. n \in 1 .. Len(st) BY <1>1
<1>3. st[n] \in Reads BY <1>1, <1>2, ElementOfSeq
<1>4. st[n].off \in Nat /\ st[n].pos \in Nat /\ st[n].size \in Nat BY <1>3 DEF Reads
<1>5. IsEven(st[n].pos) /\ IsEven(st[n].size) /\ st[n].off + st[n].pos = p BY <1>2, Zenon DEF Astride
<1> QED BY <1>2, <1>4, <1>5

(* A list is begun.                                                         *)
LEMMA AstrideList ==
    ASSUME NEW st, NEW p, Astride(st, p), NEW s \in Nat, IsEven(s),
           NEW r, r = [off |-> p, pos |-> ListHead, size |-> s]
    PROVE  Astride(Append(st, r), p + ListHead)
<1>1. PICK n \in Nat : n = Len(st)
  <2>1. st \in Seq(Reads) BY Zenon DEF Astride
  <2> QED BY <2>1
<1>2. st \in Seq(Reads) /\ p \in Nat BY Zenon DEF Astride
<1>3. r \in Reads /\ r.off = p /\ r.pos = ListHead /\ r.size = s BY <1>2 DEF Reads, ListHead
<1>4. PICK t : t = Append(st, r) OBVIOUS
<1>5. t \in Seq(Reads) /\ Len(t) = n + 1 /\ t[n + 1] = r /\ \A i \in 1 .. n : t[i] = st[i]
  BY <1>1, <1>2, <1>3, <1>4, AppendProperties
<1>6. ASSUME NEW i \in 1 .. n + 1 PROVE IsEven(t[i].pos) /\ IsEven(t[i].size)
  <2>1. CASE i = n + 1
    <3>1. IsEven(ListHead) BY DEF IsEven, ListHead
    <3> QED BY <1>3, <1>5, <2>1, <3>1, Zenon
  <2>2. CASE i # n + 1
    <3>1. i \in 1 .. n BY <2>2
    <3> QED BY <1>1, <1>5, <3>1, Zenon DEF Astride
  <2> QED BY <2>1, <2>2
<1>7. ASSUME NEW i \in 1 .. n PROVE t[i].off + t[i].pos = t[i + 1].off
  <2>1. CASE i = n
    <3>1. st[n].off + st[n].pos = p BY <1>1, <2>1, TopIs
    <3> QED BY <1>3, <1>5, <2>1, <3>1
  <2>2. CASE i # n
    <3>1. i \in 1 .. n - 1 /\ i + 1 \in 1 .. n BY <2>2
    <3>2. st[i].off + st[i].pos = st[i + 1].off BY <1>1, <3>1, Zenon DEF Astride
    <3> QED BY <1>5, <3>1, <3>2
  <2> QED BY <2>1, <2>2
<1>8. Len(t) - 1 = n /\ Len(t) > 0 /\ p + ListHead \in Nat BY <1>2, <1>5 DEF ListHead
<1>9. t[Len(t)].off + t[Len(t)].pos = p + ListHead BY <1>3, <1>5
<1> QED BY <1>4, <1>5, <1>6, <1>7, <1>8, <1>9, Zenon DEF Astride

(* The innermost list goes on by an even number.                            *)
LEMMA AstrideOn ==
    ASSUME NEW st, NEW p, Astride(st, p), NEW n, n = Len(st), n > 0, NEW u \in Nat, IsEven(u),
           NEW t, MovedOn(st, t, n, u)
    PROVE  Astride(t, p + u)
<1>1. n \in Nat /\ p \in Nat /\ st[n].off \in Nat /\ st[n].pos \in Nat /\ st[n].off + st[n].pos = p /\ IsEven(st[n].pos)
  BY TopIs, Zenon DEF Astride
<1>2. /\ t \in Seq(Reads) /\ Len(t) = n /\ \A i \in 1 .. n : t[i].off = st[i].off /\ t[i].size = st[i].size
      /\ \A i \in 1 .. n - 1 : t[i].pos = st[i].pos
      /\ t[n].pos = st[n].pos + u
  BY Zenon DEF MovedOn
<1>3. ASSUME NEW i \in 1 .. n PROVE IsEven(t[i].pos) /\ IsEven(t[i].size)
  <2>1. IsEven(st[i].pos) /\ IsEven(st[i].size) BY Zenon DEF Astride
  <2>2. IsEven(t[i].size) BY <1>2, <2>1, Zenon
  <2>3. CASE i = n
    <3>1. IsEven(st[n].pos + u) BY <1>1, EvenSum
    <3> QED BY <1>2, <2>2, <2>3, <3>1, Zenon
  <2>4. CASE i # n
    <3>1. i \in 1 .. n - 1 BY <1>1, <2>4
    <3> QED BY <1>2, <2>1, <2>2, <3>1, Zenon
  <2> QED BY <2>3, <2>4
<1>4. ASSUME NEW i \in 1 .. n - 1 PROVE t[i].off + t[i].pos = t[i + 1].off
  <2>1. i \in 1 .. n /\ i + 1 \in 1 .. n BY <1>1
  <2>2. st[i].off + st[i].pos = st[i + 1].off BY Zenon DEF Astride
  <2> QED BY <1>2, <2>1, <2>2, Zenon
<1>5. t[n].off + t[n].pos = p + u
  <2>1. n \in 1 .. n BY <1>1
  <2>2. t[n].off = st[n].off BY <1>2, <2>1
  <2>3. t[n].pos = st[n].pos + u BY <1>2
  <2> QED BY <1>1, <2>2, <2>3
<1>6. p + u \in Nat BY <1>1
<1> QED BY <1>2, <1>3, <1>4, <1>5, <1>6, Zenon DEF Astride

(* A list ends, and the one around it goes on by u.                         *)
LEMMA AstrideEnd ==
    ASSUME NEW st, NEW p, Astride(st, p), NEW n, n = Len(st), n > 0, NEW u \in Nat, IsEven(u),
           NEW s, s = SubSeq(st, 1, n - 1), NEW t, t = IF s = <<>> THEN s ELSE [s EXCEPT ![Len(s)].pos = @ + u]
    PROVE  Astride(t, st[n].off + u)
<1>1. n \in Nat /\ st[n].off \in Nat /\ st \in Seq(Reads) BY TopIs, Zenon DEF Astride
<1>2. PICK z \in Nat : z = st[n].off BY <1>1
<1>3. PICK m \in Nat : m = n - 1 BY <1>1
<1>4. s \in Seq(Reads) /\ Len(s) = m /\ \A i \in 1 .. m : s[i] = st[i]
  <2>1. 1 \in 1 .. Len(st) + 1 /\ m \in 1 - 1 .. Len(st) BY <1>1, <1>3
  <2>2. /\ SubSeq(st, 1, m) \in Seq(Reads)
        /\ Len(SubSeq(st, 1, m)) = IF 1 <= m THEN m - 1 + 1 ELSE 0
        /\ \A i \in 1 .. m - 1 + 1 : SubSeq(st, 1, m)[i] = st[1 + i - 1]
    BY <1>1, <2>1, SubSeqProperties
  <2>3. s = SubSeq(st, 1, m) BY <1>3
  <2>4. Len(s) = m BY <1>3, <2>2, <2>3
  <2>5. m - 1 + 1 = m /\ \A i \in 1 .. m : 1 + i - 1 = i BY <1>3
  <2> QED BY <2>2, <2>3, <2>4, <2>5
<1>5. z + u \in Nat BY <1>2
<1>6. CASE m = 0
  <2>1. s = <<>> BY <1>4, <1>6
  <2>2. t = s BY <2>1
  <2>3. t \in Seq(Reads) /\ 1 .. Len(t) = {} /\ 1 .. Len(t) - 1 = {} /\ ~(Len(t) > 0) BY <1>4, <1>6, <2>2
  <2>4. Astride(t, z + u) BY <1>5, <2>3, Zenon DEF Astride
  <2> QED BY <1>2, <2>4
<1>7. CASE m # 0
  <2>1. s # <<>> /\ m > 0 BY <1>4, <1>7
  <2>2. t = [s EXCEPT ![m].pos = @ + u] BY <1>4, <2>1, Zenon
  <2>3. MovedOn(s, t, m, u) BY <1>4, <2>1, <2>2, PosOn
  <2>4. Astride(s, z)
    <3>1. \A i \in 1 .. m : i \in 1 .. Len(st) BY <1>3
    <3>2. \A i \in 1 .. m - 1 : i \in 1 .. Len(st) - 1 /\ i \in 1 .. m /\ i + 1 \in 1 .. m BY <1>3
    <3>3. \A i \in 1 .. m : IsEven(s[i].pos) /\ IsEven(s[i].size) BY <1>4, <3>1, Zenon DEF Astride
    <3>4. \A i \in 1 .. m - 1 : s[i].off + s[i].pos = s[i + 1].off BY <1>4, <3>2, Zenon DEF Astride
    <3>5. s[m].off + s[m].pos = z
      <4>1. m \in 1 .. Len(st) - 1 /\ m + 1 = n /\ m \in 1 .. m BY <1>1, <1>3, <2>1
      <4>2. st[m].off + st[m].pos = st[m + 1].off BY <4>1, Zenon DEF Astride
      <4>3. s[m] = st[m] BY <1>4, <4>1
      <4> QED BY <1>2, <4>1, <4>2, <4>3, Zenon
    <3> QED BY <1>4, <3>3, <3>4, <3>5, Zenon DEF Astride
  <2>5. Astride(t, z + u) BY <1>4, <2>1, <2>3, <2>4, AstrideOn
  <2> QED BY <1>2, <2>5
<1> QED BY <1>6, <1>7

(* The check of a file that was left open.                                  *)
InSalvage(q) ==
    /\ avi_size = file.end /\ Listed(file.hdr, q) /\ Astride(stack, fdpos)
    /\ req_lst_off \in {0, q}
(* No list is read.                                                         *)
LEMMA AstrideNone ==
    ASSUME NEW st, NEW n, n = Len(st), st = <<>>, NEW p \in Nat
    PROVE  Astride(st, p)
<1>1. st \in Seq(Reads) /\ 1 .. Len(st) = {} /\ 1 .. Len(st) - 1 = {} /\ ~(Len(st) > 0) OBVIOUS
<1> QED BY <1>1, Zenon DEF Astride

(* avi_process_list in such a file.                                         *)
LEMMA SalvageList ==
    ASSUME NEW q, InSalvage(q), Known(fdpos), HeaderAt(fdpos).name \in {Riff, List}, avi_process_list(fdpos)
    PROVE  Astride(stack', fdpos') /\ req_lst_off' \in {0, q} /\ phase' = phase
<1>1. PICK st, p, h : st = stack /\ p = fdpos /\ h = HeaderAt(fdpos) OBVIOUS
<1>2. Astride(st, p) /\ req_lst_off \in {0, q} BY <1>1, Zenon DEF InSalvage
<1>3. st \in Seq(Reads) /\ p \in Nat BY <1>2, Zenon DEF Astride
<1>4. /\ h.size \in Nat /\ IsEven(h.size)
      /\ h.name = List /\ h.type = "movi" => p = q
  <2>1. p \in DOMAIN file.hdr /\ h = file.hdr[p] BY <1>1, Zenon DEF Known, HeaderAt
  <2> QED BY <1>1, <2>1, Zenon DEF InSalvage, Listed
<1>5. PICK z \in Nat : z = h.size BY <1>4
<1>6. CASE Left(p) < ListHead
  <2>1. stack' = <<>> /\ UNCHANGED <<phase, fdpos, req_lst_off>> BY <1>1, <1>6, Zenon DEF avi_process_list
  <2>2. PICK t : t = stack' OBVIOUS
  <2>3. Astride(t, p) BY <1>3, <2>1, <2>2, AstrideNone
  <2> QED BY <1>1, <1>2, <2>1, <2>2, <2>3, Zenon
<1>7. CASE ~(Left(p) < ListHead)
  <2>1. /\ fdpos' = p + ListHead /\ phase' = phase
        /\ req_lst_off' = IF h.name = List /\ h.type = "movi" THEN p ELSE req_lst_off
    BY <1>1, <1>7, Zenon DEF avi_process_list
  <2>2. req_lst_off' \in {0, q} BY <1>2, <1>4, <2>1, Zenon
  <2>3. PICK r, t : r = [off |-> p, pos |-> ListHead, size |-> z] /\ t = stack' OBVIOUS
  <2>4. \/ t = Append(st, r) \/ (st = <<>> /\ t = st)
        \/ st # <<>> /\ t = [st EXCEPT ![Len(st)].pos = @ + ListHead]
    BY <1>1, <1>5, <1>7, <2>3, Zenon DEF avi_process_list
  <2>5. Astride(t, p + ListHead)
    <3>1. CASE t = Append(st, r) BY <1>2, <1>4, <1>5, <2>3, <3>1, AstrideList, Zenon
    <3>2. CASE st = <<>> /\ t = st
      <4>1. p + ListHead \in Nat BY <1>3 DEF ListHead
      <4> QED BY <3>2, <4>1, AstrideNone
    <3>3. CASE st # <<>> /\ t = [st EXCEPT ![Len(st)].pos = @ + ListHead]
      <4>1. PICK n \in Nat : n = Len(st) /\ n > 0 BY <1>3, <3>3
      <4>2. ListHead \in Nat /\ IsEven(ListHead) BY DEF ListHead, IsEven
      <4>3. MovedOn(st, t, n, ListHead) BY <1>3, <3>3, <4>1, <4>2, PosOn
      <4> QED BY <1>2, <4>1, <4>2, <4>3, AstrideOn
    <3> QED BY <2>4, <3>1, <3>2, <3>3
  <2> QED BY <2>1, <2>2, <2>3, <2>5, Zenon
<1> QED BY <1>6, <1>7

(* A list of such a file ends and returns an even number.                   *)
LEMMA SalvageReturn ==
    ASSUME NEW q, InSalvage(q), stack # <<>>, NEW u \in Nat, IsEven(u), Return(u), NEW p, p = Top.off + u
    PROVE  Astride(stack', p)
<1>1. PICK st, n, s, t : st = stack /\ n = Len(st) /\ s = SubSeq(st, 1, n - 1) /\ t = stack' OBVIOUS
<1>2. Astride(st, fdpos) BY <1>1, Zenon DEF InSalvage
<1>3. n > 0 /\ Top = st[n]
  <2>1. st \in Seq(Reads) BY <1>2, Zenon DEF Astride
  <2> QED BY <1>1, <2>1 DEF Top, Last
<1>4. u + (u % 2) = u BY DEF IsEven
<1>5. t = IF s = <<>> THEN s ELSE [s EXCEPT ![Len(s)].pos = @ + u] BY <1>1, <1>4, Zenon DEF Return
<1>6. Astride(t, st[n].off + u) BY <1>1, <1>2, <1>3, <1>5, AstrideEnd
<1> QED BY <1>1, <1>3, <1>6, Zenon

(* avi_process_chunk in such a file.                                        *)
LEMMA SalvageChunk ==
    ASSUME NEW q, InSalvage(q), avi_process_chunk
    PROVE  phase' = "astray" \/ (phase' = phase /\ Astride(stack', fdpos'))
<1>1. PICK st, p, n : st = stack /\ p = fdpos /\ n = Len(st) OBVIOUS
<1>2. Astride(st, p) /\ stack # <<>> BY <1>1, Zenon DEF InSalvage, avi_process_chunk, InList
<1>3. st \in Seq(Reads) /\ n > 0 /\ Top = st[n]
  <2>1. st \in Seq(Reads) BY <1>2, Zenon DEF Astride
  <2> QED BY <1>1, <1>2, <2>1 DEF Top, Last
<1>4. /\ n \in Nat /\ st[n].off \in Nat /\ st[n].pos \in Nat /\ st[n].size \in Nat
      /\ IsEven(st[n].size) /\ st[n].off + st[n].pos = p
  BY <1>1, <1>2, <1>3, TopIs
<1>5. CASE phase' = "astray" BY <1>5
<1>6. CASE UNCHANGED phase /\ Return(ListHead + Top.size) /\ fdpos' = Top.off + ListHead + Top.size
  <2>1. PICK s \in Nat, o \in Nat : s = Top.size /\ o = Top.off /\ IsEven(s) BY <1>3, <1>4
  <2>2. PICK u \in Nat : u = ListHead + s BY <2>1 DEF ListHead
  <2>3. IsEven(u) BY <2>1, <2>2 DEF ListHead, IsEven
  <2>4. Return(u) BY <1>6, <2>1, <2>2, Zenon
  <2>5. o + ListHead + s = o + u BY <2>1, <2>2 DEF ListHead
  <2>6. fdpos' = Top.off + u BY <1>6, <2>1, <2>5, Zenon
  <2>7. Astride(stack', fdpos') BY <1>2, <2>3, <2>4, <2>6, SalvageReturn
  <2> QED BY <1>6, <2>7
<1>7. CASE /\ UNCHANGED phase /\ Known(p)
           /\ LET len == ChunkHead + HeaderAt(p).size
                  even == len + (len % 2)
              IN  stack' = [stack EXCEPT ![Len(stack)].pos = @ + even] /\ fdpos' = p + even
  <2>1. PICK z \in Nat : z = HeaderAt(p).size
    <3>1. HeaderAt(p).size \in Nat BY <1>7, Zenon DEF InSalvage, Listed, Known, HeaderAt
    <3> QED BY <3>1
  <2>2. PICK u \in Nat : u = (ChunkHead + z) + ((ChunkHead + z) % 2) /\ IsEven(u)
    BY <2>1 DEF ChunkHead, IsEven
  <2>3. stack' = [stack EXCEPT ![Len(stack)].pos = @ + u] /\ fdpos' = p + u BY <1>7, <2>1, <2>2, Zenon
  <2>4. PICK t : t = stack' OBVIOUS
  <2>5. t = [st EXCEPT ![n].pos = @ + u] BY <1>1, <2>3, <2>4, Zenon
  <2>6. MovedOn(st, t, n, u) BY <1>1, <1>3, <1>4, <2>5, PosOn
  <2>7. Astride(t, p + u) BY <1>1, <1>2, <1>3, <2>2, <2>6, AstrideOn
  <2> QED BY <1>7, <2>3, <2>4, <2>7, Zenon
<1>8. Top.off + Top.pos = p BY <1>3, <1>4, Zenon
<1> QED BY <1>5, <1>6, <1>7, <1>8, Zenon DEF avi_process_chunk

(* A step of the check of such a file.                                      *)
LEMMA SalvageStep ==
    ASSUME NEW q, InSalvage(q), WalkStep
    PROVE  phase' \in {phase, Ended[phase], "astray"} /\ (phase' # "astray" => InSalvage(q)')
<1>0. UNCHANGED <<avi, avi_size>> BY WalkStays
<1>1. file' = file BY <1>0, Zenon DEF file
<1>2. SUFFICES /\ phase' \in {phase, Ended[phase], "astray"}
               /\ phase' # "astray" => Astride(stack', fdpos') /\ req_lst_off' \in {0, q}
  <2>1. ASSUME Astride(stack', fdpos'), req_lst_off' \in {0, q} PROVE InSalvage(q)'
    <3>1. avi_size' = file'.end /\ Listed(file'.hdr, q) BY <1>0, <1>1, Zenon DEF InSalvage
    <3> QED BY <2>1, <3>1, Zenon DEF InSalvage
  <2> QED BY <2>1
<1>3. Astride(stack, fdpos) /\ req_lst_off \in {0, q} BY Zenon DEF InSalvage
<1>4. fdpos \in Nat /\ stack \in Seq(Reads) BY <1>3, Zenon DEF Astride
<1>5. CASE avi_check
  <2>1. CASE phase' = Ended[phase] /\ UNCHANGED <<stack, fdpos, req_lst_off>> BY <1>3, <2>1, Zenon
  <2>2. CASE Known(fdpos) /\ HeaderAt(fdpos).name \in {Riff, List} /\ avi_process_list(fdpos)
    BY <2>2, SalvageList, Zenon
  <2>3. CASE fdpos' = fdpos + ListHead /\ UNCHANGED <<phase, stack, req_lst_off>>
    <3>1. stack = <<>> BY <1>5, Zenon DEF avi_check
    <3>2. fdpos + ListHead \in Nat BY <1>4 DEF ListHead
    <3>3. Astride(stack, fdpos + ListHead) BY <3>1, <3>2, AstrideNone
    <3> QED BY <1>3, <2>3, <3>3, Zenon
  <2> QED BY <1>5, <2>1, <2>2, <2>3, Zenon DEF avi_check
<1>6. CASE avi_process_chunk
  <2>1. req_lst_off' = req_lst_off BY <1>6, Zenon DEF avi_process_chunk
  <2> QED BY <1>3, <1>6, <2>1, SalvageChunk, Zenon
<1>7. CASE SubList
  <2>1. PICK n : n = Len(stack) OBVIOUS
  <2>2. stack # <<>> BY <1>7, Zenon DEF SubList, InList
  <2>3. n > 0 /\ Top = stack[n] BY <1>4, <2>1, <2>2 DEF Top, Last
  <2>4. Top.off + Top.pos = fdpos BY <1>3, <2>1, <2>3, TopIs
  <2>5. Known(fdpos) /\ HeaderAt(fdpos).name \in {Riff, List} /\ avi_process_list(fdpos)
    BY <1>7, <2>4, Zenon DEF SubList
  <2> QED BY <2>5, SalvageList, Zenon
<1>8. CASE ListEnds
  <2>1. PICK n : n = Len(stack) OBVIOUS
  <2>2. stack # <<>> BY <1>8, Zenon DEF ListEnds, InList
  <2>3. n > 0 /\ Top = stack[n] BY <1>4, <2>1, <2>2 DEF Top, Last
  <2>4. PICK u \in Nat : u = Top.pos /\ IsEven(u) /\ Top.off + u = fdpos BY <1>3, <2>1, <2>3, TopIs
  <2>5. Return(u) /\ UNCHANGED <<phase, fdpos, req_lst_off>> BY <1>8, <2>4, Zenon DEF ListEnds
  <2>6. Astride(stack', fdpos) BY <2>2, <2>4, <2>5, SalvageReturn
  <2> QED BY <1>3, <2>5, <2>6, Zenon
<1> QED BY <1>5, <1>6, <1>7, <1>8, Zenon DEF WalkStep

----------------------------------------------------------------------------
(* A file that is restored                                                  *)

WithSize(h, o, n) == Put(h, o, [name |-> h[o].name, type |-> h[o].type, size |-> n])
Idx1 == [level |-> 1, name |-> "idx1"]
(* A file that ends behind its last element, with no list open.             *)
Whole(f, W, at) ==
    /\ W # <<>> /\ Nested(W) /\ Placed(f.hdr, W, at) /\ Sized(f.hdr, W, at, 0) /\ Present(f, W, at)
    /\ f.end \in Nat /\ f.end = at[Len(W) + 1]

(* Then what its headers say is in it.                                      *)
LEMMA AllPresent ==
    ASSUME NEW f, NEW W \in Seq(Elements), NEW at, Placed(f.hdr, W, at), f.end \in Nat, f.end >= at[Len(W) + 1]
    PROVE  Present(f, W, at)
<1>1. ASSUME NEW k \in 1 .. Len(W)
      PROVE  /\ f.end >= at[k] + ChunkHead
             /\ W[k].name \in ListNames => f.end >= at[k] + ListHead
             /\ W[k].name \notin ListNames \cup {"JUNK"} => f.end >= at[k] + ChunkHead + f.hdr[at[k]].size
  <2>1. k \in 1 .. Len(W) + 1 /\ k + 1 \in 1 .. Len(W) + 1 OBVIOUS
  <2>2. at[k] \in Nat /\ at[k + 1] \in Nat /\ at[k + 1] <= at[Len(W) + 1] /\ at[Len(W) + 1] \in Nat
    <3>1. Len(W) + 1 \in 1 .. Len(W) + 1 OBVIOUS
    <3> QED BY <2>1, <3>1, PlaceIs
  <2>3. at[k] + ChunkHead <= at[k + 1]
    <3>1. k < k + 1 OBVIOUS
    <3> QED BY <2>1, <3>1, Zenon DEF Placed
  <2>4. HeadFor(f.hdr[at[k]], W[k], k = 1, at[k], at[k + 1]) BY Zenon DEF Placed
  <2>5. f.end >= at[k + 1] BY <2>2
  <2>6. f.end >= at[k] + ChunkHead BY <2>2, <2>3, <2>5 DEF ChunkHead
  <2>7. ASSUME W[k].name \in ListNames PROVE f.end >= at[k] + ListHead
    <3>1. at[k + 1] = at[k] + ListHead BY <2>4, <2>7, Zenon DEF HeadFor
    <3> QED BY <2>5, <3>1
  <2>8. ASSUME W[k].name \notin ListNames PROVE f.end >= at[k] + ChunkHead + f.hdr[at[k]].size
    <3>1. at[k + 1] = at[k] + ChunkHead + Even(f.hdr[at[k]].size) BY <2>4, <2>8, Zenon DEF HeadFor
    <3>2. PICK z \in Nat : z = f.hdr[at[k]].size
      <4>1. at[k] \in DOMAIN f.hdr BY Zenon DEF Placed
      <4>2. f.hdr[at[k]] \in Heads BY <4>1, Zenon DEF Placed
      <4> QED BY <4>2 DEF Heads
    <3>3. Even(z) \in Nat /\ z <= Even(z) BY EvenIs
    <3>4. at[k + 1] = at[k] + ChunkHead + Even(z) BY <3>1, <3>2, Zenon
    <3>5. f.end >= at[k] + ChunkHead + z BY <2>2, <2>5, <3>3, <3>4 DEF ChunkHead
    <3> QED BY <3>2, <3>5, Zenon
  <2> QED BY <2>6, <2>7, <2>8, Zenon
<1> QED BY <1>1, Zenon DEF Present

(* The movi list is not the first element, and all others are inside of     *)
(* that one.                                                                *)
LEMMA InsideOfRiff ==
    ASSUME NEW W, Nested(W), W # <<>>
    PROVE  /\ W[1].level = 0 /\ W[1].name = "AVI " /\ "AVI " \in ListNames
           /\ \A k \in 1 .. Len(W) : k # 1 => W[k].level >= 1
           /\ Around(W, 1, Len(W))
<1>1. W \in Seq(Elements) /\ First(W[1]) /\ \A k \in 1 .. Len(W) - 1 : Follows(W[k], W[k + 1]) BY Zenon DEF Nested
<1>2. W[1].level = 0 /\ W[1].name = "AVI " BY <1>1, Zenon DEF First
<1>3. ASSUME NEW k \in 1 .. Len(W), k # 1 PROVE W[k].level >= 1
  <2>1. PICK j \in 1 .. Len(W) - 1 : j + 1 = k BY <1>1, <1>3
  <2>2. Follows(W[j], W[j + 1]) BY <1>1
  <2>3. Follows(W[j], W[k]) BY <2>1, <2>2, Zenon
  <2> QED BY <2>3, Zenon DEF Follows
<1>4. Around(W, 1, Len(W))
  <2>1. ASSUME NEW k \in 1 + 1 .. Len(W) PROVE W[k].level > W[1].level
    <3>1. k \in 1 .. Len(W) /\ k # 1 OBVIOUS
    <3>2. W[k].level \in Nat BY <1>1, <3>1, ElementIs
    <3>3. W[k].level >= 1 BY <1>3, <3>1, Zenon
    <3>4. W[1].level = 0 BY <1>2, Zenon
    <3> QED BY <3>2, <3>3, <3>4
  <2> QED BY <2>1, Zenon DEF Around
<1>5. "AVI " \in ListNames BY DEF ListNames
<1> QED BY <1>2, <1>3, <1>4, <1>5, Zenon

(* A header with a size.                                                    *)
LEMMA WithSizeIs ==
    ASSUME NEW h, NEW W \in Seq(Elements), NEW at, Placed(h, W, at), NEW o \in 1 .. Len(W), W[o].name \in ListNames,
           NEW n \in Nat, NEW g, g = WithSize(h, at[o], n)
    PROVE  Resizes(h, g, W, at, o, n)
<1>1. PICK p, r : p = at[o] /\ r = [name |-> h[p].name, type |-> h[p].type, size |-> n] OBVIOUS
<1>2. g = Put(h, p, r) BY <1>1, Zenon DEF WithSize
<1>3. p \in DOMAIN h BY <1>1, Zenon DEF Placed
<1>4. DOMAIN g = DOMAIN h \cup {p} /\ g[p] = r /\ (\A q \in DOMAIN h : q # p => g[q] = h[q])
      /\ g = [q \in DOMAIN g |-> g[q]]
  <2>1. /\ DOMAIN Put(h, p, r) = DOMAIN h \cup {p} /\ Put(h, p, r)[p] = r
        /\ \A q \in DOMAIN h : q # p => Put(h, p, r)[q] = h[q]
        /\ Put(h, p, r) = [q \in DOMAIN Put(h, p, r) |-> Put(h, p, r)[q]]
    BY DEF Put
  <2> QED BY <1>2, <2>1, Zenon
<1>5. DOMAIN g = DOMAIN h BY <1>3, <1>4
<1>6. h[at[o]].name = h[p].name /\ h[at[o]].type = h[p].type /\ g[at[o]] = r BY <1>1, <1>4, Zenon
<1>7. g[at[o]] = [name |-> h[at[o]].name, type |-> h[at[o]].type, size |-> n] BY <1>1, <1>6, Zenon
<1>8. \A q \in DOMAIN h : q # at[o] => g[q] = h[q] BY <1>1, <1>4, Zenon
<1> QED BY <1>4, <1>5, <1>7, <1>8, Zenon DEF Resizes

(* The innermost list that is open gets its size.                           *)
ClosesAt(h, W, at, o, s, n) ==
    /\ n \in Nat /\ Sized(h, W, at, n + 1)
    /\ o \in 1 .. Len(W) /\ W[o].level = n /\ Around(W, o, Len(W))
    /\ s = at[Len(W) + 1] - at[o] - ChunkHead
(* It is in its place, and closed.                                          *)
LEMMA ListClosed ==
    ASSUME NEW h, NEW g, NEW W \in Seq(Elements), NEW at, NEW o \in Nat, NEW s \in Nat, NEW n \in Nat,
           Resizes(h, g, W, at, o, s), ClosesAt(h, W, at, o, s, n)
    PROVE  Placed(g, W, at) /\ Sized(g, W, at, n)
<1>1. /\ Placed(g, W, at) /\ g[at[o]].size = s
      /\ \A k \in 1 .. Len(W) : k # o => g[at[k]] = h[at[k]]
  <2>1. W \in Seq(Elements) OBVIOUS
  <2>2. Resizes(h, g, W, at, o, s) OBVIOUS
  <2>3. Placed(g, W, at) BY <2>1, <2>2, Resized
  <2>4. \A k \in 1 .. Len(W) : k # o => g[at[k]] = h[at[k]] BY <2>1, <2>2, Resized
  <2>5. g[at[o]] = [name |-> h[at[o]].name, type |-> h[at[o]].type, size |-> s] BY DEF Resizes
  <2>6. g[at[o]].size = s BY <2>5
  <2> QED BY <2>3, <2>4, <2>6, Zenon
<1>2. Closed(h, g, W, at, o, n) BY <1>1, Zenon DEF Closed, ClosesAt
<1>3. Sized(g, W, at, n) BY <1>2, SizedClosed
<1> QED BY <1>1, <1>3

(* The size of the RIFF list is the size of the file: every list is closed. *)
SizeOfFile(V, bt, z) == z \in Nat /\ z >= ChunkHead /\ z = bt[Len(V) + 1]
(* All lists are closed.                                                    *)
LEMMA RiffClosed ==
    ASSUME NEW h, NEW V, NEW bt, Nested(V), Placed(h, V, bt), Sized(h, V, bt, 1), V # <<>>,
           NEW z, SizeOfFile(V, bt, z)
    PROVE  LET g == WithSize(h, 0, z - ChunkHead) IN Placed(g, V, bt) /\ Sized(g, V, bt, 0)
<1>1. V \in Seq(Elements) /\ bt[1] = 0 /\ Placed(h, V, bt) BY Zenon DEF Nested, Placed
<1>2. 1 \in 1 .. Len(V)
  <2>1. PICK N \in Nat : N = Len(V) /\ N > 0 BY <1>1
  <2> QED BY <2>1
<1>4. V[1].level = 0 /\ V[1].name \in ListNames /\ Around(V, 1, Len(V)) BY InsideOfRiff, Zenon
<1>5. PICK s \in Nat : s = z - ChunkHead
  <2>1. z \in Nat /\ z >= ChunkHead BY Zenon DEF SizeOfFile
  <2> QED BY <2>1 DEF ChunkHead
<1>6. s = bt[Len(V) + 1] - bt[1] - ChunkHead
  <2>1. z \in Nat /\ z = bt[Len(V) + 1] BY Zenon DEF SizeOfFile
  <2> QED BY <1>1, <1>5, <2>1 DEF ChunkHead
<1>7. Sized(h, V, bt, 0 + 1) /\ 0 \in Nat OBVIOUS
<1>8. PICK g : g = WithSize(h, bt[1], s) OBVIOUS
<1>9. Resizes(h, g, V, bt, 1, s) BY <1>1, <1>2, <1>4, <1>8, WithSizeIs
<1>10. ClosesAt(h, V, bt, 1, s, 0) BY <1>2, <1>4, <1>6, <1>7, Zenon DEF ClosesAt
<1>11. Placed(g, V, bt) /\ Sized(g, V, bt, 0)
  <2>1. 0 \in Nat OBVIOUS
  <2> QED BY <1>1, <1>9, <1>10, <2>1, ListClosed
<1>12. g = WithSize(h, 0, z - ChunkHead) BY <1>1, <1>5, <1>8, Zenon
<1> QED BY <1>11, <1>12, Zenon

(* The movi list gets its size.                                             *)
LEMMA MoviClosed ==
    ASSUME NEW h, NEW W, NEW at, NEW m, NEW e, Abandoned(h, W, at, m, e), e = at[Len(W) + 1]
    PROVE  LET g == WithSize(h, at[m], e - at[m] - ChunkHead) IN
           /\ Placed(g, W, at) /\ Sized(g, W, at, 1) /\ e - at[m] - ChunkHead \in Nat
           /\ Resizes(h, g, W, at, m, e - at[m] - ChunkHead)
<1>1. /\ W \in Seq(Elements) /\ Placed(h, W, at) /\ Sized(h, W, at, 2) /\ m \in 1 .. Len(W)
      /\ W[m].level = 1 /\ Around(W, m, Len(W)) /\ e \in Nat
  BY Zenon DEF Abandoned, Nested
<1>2. W[m].name \in ListNames
  <2>1. "movi" \in ListNames BY DEF ListNames
  <2> QED BY <2>1, Zenon DEF Abandoned
<1>3. PICK s \in Nat : s = e - at[m] - ChunkHead
  <2>1. m \in 1 .. Len(W) + 1 /\ Len(W) + 1 \in 1 .. Len(W) + 1 /\ m < Len(W) + 1 BY <1>1
  <2>2. at[m] \in Nat BY <1>1, <2>1, PlaceIs
  <2>3. at[m] + ChunkHead <= at[Len(W) + 1] BY <1>1, <2>1, Zenon DEF Placed
  <2> QED BY <1>1, <2>2, <2>3 DEF ChunkHead
<1>4. s = at[Len(W) + 1] - at[m] - ChunkHead BY <1>3, Zenon
<1>5. Sized(h, W, at, 1 + 1) /\ 1 \in Nat BY <1>1
<1>6. PICK g : g = WithSize(h, at[m], s) OBVIOUS
<1>7. Resizes(h, g, W, at, m, s) BY <1>1, <1>2, <1>3, <1>6, WithSizeIs
<1>8. ClosesAt(h, W, at, m, s, 1) BY <1>1, <1>2, <1>4, <1>5, Zenon DEF ClosesAt
<1>9. Placed(g, W, at) /\ Sized(g, W, at, 1) BY <1>1, <1>5, <1>7, <1>8, ListClosed
<1> QED BY <1>3, <1>6, <1>7, <1>9, Zenon

IndexHead(n) == ChunkHeader("idx1", n)
(* The index is put behind the last element.                                *)
PutsIndex(h, W, at, e, n, g, V, bt) ==
    /\ Nested(W) /\ W # <<>> /\ Placed(h, W, at) /\ Sized(h, W, at, 1) /\ W[Len(W)].level >= 1
    /\ n \in Nat /\ IsEven(n) /\ e \in Nat /\ e = at[Len(W) + 1]
    /\ g = Put(h, e, IndexHead(n)) /\ V = Append(W, Idx1) /\ bt = Longer(at, Len(W), e + ChunkHead + n)
(* It is the last element then, and in its place.                           *)
LEMMA IndexPut ==
    ASSUME NEW h, NEW W, NEW at, NEW e, NEW n, NEW g, NEW V, NEW bt, PutsIndex(h, W, at, e, n, g, V, bt)
    PROVE  /\ Nested(V) /\ V # <<>> /\ Placed(g, V, bt) /\ Sized(g, V, bt, 1)
           /\ bt[Len(V) + 1] = e + ChunkHead + n
<1>0. /\ Nested(W) /\ W # <<>> /\ Placed(h, W, at) /\ Sized(h, W, at, 1) /\ W[Len(W)].level >= 1
      /\ n \in Nat /\ IsEven(n) /\ e \in Nat /\ e = at[Len(W) + 1]
      /\ g = Put(h, e, IndexHead(n)) /\ V = Append(W, Idx1) /\ bt = Longer(at, Len(W), e + ChunkHead + n)
  BY Zenon DEF PutsIndex
<1>1. W \in Seq(Elements) BY <1>0, Zenon DEF Nested
<1>2. PICK N \in Nat : N = Len(W) /\ N > 0 BY <1>0, <1>1
<1>3. PICK d, r : d = Idx1 /\ r = IndexHead(n) OBVIOUS
<1>4. d.level = 1 /\ d.name = "idx1" /\ d \in Elements BY <1>3 DEF Idx1, Elements, ChunkNames
<1>5. r.name = "idx1" /\ r.type = "" /\ r.size = n /\ r \in Heads
  BY <1>0, <1>3 DEF IndexHead, ChunkHeader, Heads, ChunkNames
<1>6. "idx1" \notin ListNames /\ "idx1" \notin {Riff, List} BY DEF ListNames, Riff, List
<1>7. PICK p \in Nat : p = e + ChunkHead + n BY <1>0 DEF ChunkHead
<1>8. Grown(h, W, at, d, r, p, g, V, bt)
  <2>1. IsEven(e)
    <3>1. N + 1 \in 1 .. Len(W) + 1 BY <1>2
    <3> QED BY <1>0, <1>1, <1>2, <3>1, PlaceIs
  <2>2. IsEven(p) /\ p >= e + ChunkHead
    <3>1. IsEven(e + n) BY <1>0, <2>1, EvenSum
    <3>2. IsEven((e + n) + ChunkHead)
      <4>1. e + n \in Nat BY <1>0
      <4> QED BY <3>1, <4>1, EvenSum
    <3>3. p = (e + n) + ChunkHead BY <1>0, <1>7 DEF ChunkHead
    <3>4. p >= e + ChunkHead BY <1>0, <1>7 DEF ChunkHead
    <3> QED BY <3>2, <3>3, <3>4, Zenon
  <2>3. HeadFor(r, d, Len(W) = 0, e, p)
    <3>1. Even(n) = n BY <1>0, EvenIs
    <3>2. p = e + ChunkHead + Even(r.size) BY <1>5, <1>7, <3>1, Zenon
    <3> QED BY <1>4, <1>5, <1>6, <3>2, Zenon DEF HeadFor
  <2>4. g = Put(h, at[Len(W) + 1], r) /\ V = Append(W, d) /\ bt = Longer(at, Len(W), p) BY <1>0, <1>3, <1>7, Zenon
  <2> QED BY <1>0, <1>1, <1>4, <1>5, <1>7, <2>2, <2>3, <2>4, Zenon DEF Grown
<1>9. /\ V \in Seq(Elements) /\ Len(V) = N + 1 /\ bt[N + 2] = p /\ Placed(g, V, bt)
  <2>1. N \in Nat /\ N = Len(W) BY <1>2
  <2>2. V \in Seq(Elements) /\ Len(V) = N + 1
    <3>1. V = Append(W, d) BY <1>0, <1>3, Zenon
    <3> QED BY <1>1, <1>4, <2>1, <3>1
  <2>3. bt[N + 2] = p BY <1>8, <2>1, PlacedMore
  <2>4. Placed(g, V, bt) BY <1>8, <2>1, PlacedMore
  <2> QED BY <2>2, <2>3, <2>4, Zenon
<1>10. Nested(V)
  <2>1. Follows(W[Len(W)], d)
    <3>1. W[N].level \in Nat
      <4>1. N \in 1 .. Len(W) BY <1>2
      <4> QED BY <1>1, <4>1, ElementIs
    <3>2. d.level >= 1 /\ d.level <= W[N].level BY <1>0, <1>2, <1>4, <3>1
    <3> QED BY <1>2, <3>2, Zenon DEF Follows
  <2> QED BY <1>0, <1>3, <1>4, <2>1, NestedMore
<1>11. Sized(g, V, bt, 1)
  <2>1. Sized(h, W, at, d.level) BY <1>0, <1>4, Zenon
  <2>2. d.name \notin ListNames BY <1>4, <1>6, Zenon
  <2>3. Sized(g, V, bt, IF d.name \in ListNames THEN d.level + 1 ELSE d.level)
    BY <1>8, <2>1, <2>2, SizedMore
  <2> QED BY <1>4, <2>2, <2>3, Zenon
<1>12. V # <<>> /\ bt[Len(V) + 1] = p
  <2>1. Len(V) + 1 = N + 2 BY <1>9
  <2>2. V # <<>> BY <1>9
  <2> QED BY <1>9, <2>1, <2>2, Zenon
<1> QED BY <1>7, <1>9, <1>10, <1>11, <1>12, Zenon

(* Two headers may be put in either order.                                  *)
LEMMA PutOther ==
    ASSUME NEW h, NEW o, NEW p, o # p, NEW x, NEW z
    PROVE  Put(Put(h, o, x), p, z) = Put(Put(h, p, z), o, x)
<1>1. PICK g, k : g = Put(h, o, x) /\ k = Put(h, p, z) OBVIOUS
<1>2. \A q \in DOMAIN h \cup {o} : g[q] = (IF q = o THEN x ELSE h[q]) BY <1>1 DEF Put
<1>3. \A q \in DOMAIN h \cup {p} : k[q] = (IF q = p THEN z ELSE h[q]) BY <1>1 DEF Put
<1>4. DOMAIN g = DOMAIN h \cup {o} /\ DOMAIN k = DOMAIN h \cup {p} BY <1>1 DEF Put
<1>5. Put(g, p, z) = Put(k, o, x)
  <2>1. DOMAIN g \cup {p} = DOMAIN k \cup {o} BY <1>4
  <2>2. \A q \in DOMAIN g \cup {p} : (IF q = p THEN z ELSE g[q]) = (IF q = o THEN x ELSE k[q])
    BY <1>2, <1>3, <1>4
  <2> QED BY <2>1, <2>2 DEF Put
<1> QED BY <1>1, <1>5, Zenon

(* A header with a size, before or after another one is put.                *)
LEMMA WithSizeOther ==
    ASSUME NEW h, NEW o \in DOMAIN h, NEW p, o # p, NEW n, NEW z
    PROVE  Put(WithSize(h, o, n), p, z) = WithSize(Put(h, p, z), o, n)
<1>1. PICK g, x : g = Put(h, p, z) /\ x = [name |-> h[o].name, type |-> h[o].type, size |-> n] OBVIOUS
<1>2. g[o] = h[o] BY <1>1 DEF Put
<1>3. x = [name |-> g[o].name, type |-> g[o].type, size |-> n] BY <1>1, <1>2, Zenon
<1>4. WithSize(h, o, n) = Put(h, o, x) /\ WithSize(g, o, n) = Put(g, o, x) BY <1>1, <1>3, Zenon DEF WithSize
<1>5. Put(Put(h, o, x), p, z) = Put(Put(h, p, z), o, x) BY PutOther
<1> QED BY <1>1, <1>4, <1>5, Zenon

(* The last of two sizes remains.                                           *)
LEMMA WithSizeTwice ==
    ASSUME NEW h, NEW o \in DOMAIN h, NEW n, NEW s
    PROVE  WithSize(WithSize(h, o, n), o, s) = WithSize(h, o, s)
<1>1. PICK x, z : x = [name |-> h[o].name, type |-> h[o].type, size |-> n]
                  /\ z = [name |-> h[o].name, type |-> h[o].type, size |-> s] OBVIOUS
<1>2. PICK g : g = Put(h, o, x) OBVIOUS
<1>3. DOMAIN g = DOMAIN h /\ g[o] = x /\ \A q \in DOMAIN h : q # o => g[q] = h[q] BY <1>2 DEF Put
<1>4. x.name = h[o].name /\ x.type = h[o].type BY <1>1
<1>5. z = [name |-> g[o].name, type |-> g[o].type, size |-> s] BY <1>1, <1>3, <1>4, Zenon
<1>6. Put(g, o, z) = Put(h, o, z)
  <2>1. \A q \in DOMAIN h \cup {o} : (IF q = o THEN z ELSE g[q]) = (IF q = o THEN z ELSE h[q]) BY <1>3
  <2> QED BY <1>3, <2>1 DEF Put
<1> QED BY <1>1, <1>2, <1>5, <1>6, Zenon DEF WithSize

(* The restoration gives the movi list and the RIFF list their sizes and    *)
(* puts the index behind the last element.                                  *)
Mended(h, at, m, e, n) ==
    Put(WithSize(WithSize(h, at[m], e - at[m] - ChunkHead), 0, e + n), e, IndexHead(n))
(* Then the file is whole.                                                  *)
LEMMA MendedIs ==
    ASSUME NEW h, NEW W, NEW at, NEW m, NEW e, Abandoned(h, W, at, m, e), e = at[Len(W) + 1],
           NEW n \in Nat, IsEven(n),
           NEW f, f.hdr = Mended(h, at, m, e, n), f.end = e + ChunkHead + n
    PROVE  \E bt : Whole(f, Append(W, Idx1), bt)
<1>1. /\ W \in Seq(Elements) /\ Nested(W) /\ Placed(h, W, at) /\ m \in 1 .. Len(W) /\ W # <<>>
      /\ e \in Nat /\ e > at[Len(W)]
  <2>1. /\ Nested(W) /\ Placed(h, W, at) /\ m \in 1 .. Len(W) /\ e \in Nat /\ e > at[Len(W)]
    BY Zenon DEF Abandoned
  <2>2. W \in Seq(Elements) BY <2>1, Zenon DEF Nested
  <2>3. W # <<>> BY <2>1, <2>2
  <2> QED BY <2>1, <2>2, <2>3, Zenon
<1>2. PICK g : g = WithSize(h, at[m], e - at[m] - ChunkHead) OBVIOUS
<1>3. Placed(g, W, at) /\ Sized(g, W, at, 1)
  <2>2. Abandoned(h, W, at, m, e) /\ e = at[Len(W) + 1] OBVIOUS
  <2>1. /\ Placed(WithSize(h, at[m], e - at[m] - ChunkHead), W, at)
        /\ Sized(WithSize(h, at[m], e - at[m] - ChunkHead), W, at, 1)
    BY <2>2, MoviClosed
  <2> QED BY <1>2, <2>1, Zenon
<1>4. W[Len(W)].level >= 1
  <2>1. W[m].level = 1 BY Zenon DEF Abandoned
  <2>2. W[1].level = 0 BY <1>1, InsideOfRiff, Zenon
  <2>5. W[m].level # W[1].level BY <2>1, <2>2
  <2>3. m # 1 BY <2>5, Zenon
  <2>4. Len(W) \in 1 .. Len(W) /\ Len(W) # 1
    <3>1. PICK N \in Nat : N = Len(W) BY <1>1
    <3>2. m \in 1 .. N BY <1>1, <3>1
    <3>3. N \in 1 .. N /\ N # 1 BY <2>3, <3>2
    <3> QED BY <3>1, <3>3, Zenon
  <2> QED BY <1>1, <2>4, InsideOfRiff, Zenon
<1>5. PICK V, bt, k : V = Append(W, Idx1) /\ bt = Longer(at, Len(W), e + ChunkHead + n) /\ k = Put(g, e, IndexHead(n))
  OBVIOUS
<1>6. /\ Nested(V) /\ V # <<>> /\ Placed(k, V, bt) /\ Sized(k, V, bt, 1)
      /\ bt[Len(V) + 1] = e + ChunkHead + n
  <2>1. PutsIndex(g, W, at, e, n, k, V, bt) BY <1>1, <1>3, <1>4, <1>5, Zenon DEF PutsIndex
  <2> QED BY <2>1, IndexPut
<1>7. PICK z \in Nat : z = e + ChunkHead + n BY <1>1 DEF ChunkHead
<1>8. SizeOfFile(V, bt, z) /\ z - ChunkHead = e + n
  <2>1. z >= ChunkHead /\ z - ChunkHead = e + n BY <1>1, <1>7 DEF ChunkHead
  <2> QED BY <1>6, <1>7, <2>1, Zenon DEF SizeOfFile
<1>9. Placed(WithSize(k, 0, z - ChunkHead), V, bt) /\ Sized(WithSize(k, 0, z - ChunkHead), V, bt, 0)
  BY <1>6, <1>8, RiffClosed
<1>10. f.hdr = WithSize(k, 0, z - ChunkHead)
  <2>1. 0 \in DOMAIN g
    <3>1. at[1] = 0 /\ 1 \in 1 .. Len(W) BY <1>1 DEF Placed
    <3>2. at[1] \in DOMAIN g BY <1>3, <3>1, Zenon DEF Placed
    <3> QED BY <3>1, <3>2, Zenon
  <2>2. 0 # e
    <3>1. Len(W) \in 1 .. Len(W) + 1 BY <1>1
    <3>2. at[Len(W)] \in Nat BY <1>1, <3>1, PlaceIs
    <3> QED BY <1>1, <3>2
  <2>3. Put(WithSize(g, 0, e + n), e, IndexHead(n)) = WithSize(Put(g, e, IndexHead(n)), 0, e + n)
    BY <2>1, <2>2, WithSizeOther
  <2> QED BY <1>2, <1>5, <1>8, <2>3, Zenon DEF Mended
<1>11. Placed(f.hdr, V, bt) /\ Sized(f.hdr, V, bt, 0) BY <1>9, <1>10, Zenon
<1>12. f.end = bt[Len(V) + 1] /\ f.end \in Nat BY <1>6, <1>7, Zenon
<1>13. Present(f, V, bt)
  <2>1. V \in Seq(Elements) BY <1>6, Zenon DEF Nested
  <2>2. f.end >= bt[Len(V) + 1] BY <1>12
  <2> QED BY <1>11, <1>12, <2>1, <2>2, AllPresent
<1> QED BY <1>5, <1>6, <1>11, <1>12, <1>13, Zenon DEF Whole

(* A header of a file gets its size.                                        *)
FileRecord(f) == f = [end |-> f.end, hdr |-> f.hdr]
(* What changes in the file is that header.                                 *)
LEMMA SetSizeIs ==
    ASSUME NEW f, FileRecord(f), NEW h, h = f.hdr, h \in [DOMAIN h -> Heads], NEW o \in DOMAIN h, NEW n
    PROVE  SetSize(f, o, n) = [end |-> f.end, hdr |-> WithSize(h, o, n)]
<1>1. PICK x, e : x = h[o] /\ x \in Heads /\ e = f.end OBVIOUS
<1>2. PICK z : z = [name |-> x.name, type |-> x.type, size |-> n] OBVIOUS
<1>3. [x EXCEPT !.size = n] = z
  <2>1. PICK A, B, C : Heads = [name : A, type : B, size : C] BY Zenon DEF Heads
  <2>2. x \in [name : A, type : B, size : C] BY <1>1, <2>1, Zenon
  <2>3. x = [name |-> x.name, type |-> x.type, size |-> x.size] BY <2>2
  <2> QED BY <1>2, <2>3
<1>4. [h EXCEPT ![o] = z] = Put(h, o, z)
  <2>1. h = [p \in DOMAIN h |-> h[p]] OBVIOUS
  <2> QED BY <2>1 DEF Put
<1>5. f = [end |-> e, hdr |-> h] BY <1>1, Zenon DEF FileRecord
<1>6. SetSize(f, o, n) = [f EXCEPT !.hdr = [h EXCEPT ![o] = [x EXCEPT !.size = n]]]
  BY <1>1, Zenon DEF SetSize
<1>7. PICK k : k = [h EXCEPT ![o] = z] OBVIOUS
<1>8. SetSize(f, o, n) = [f EXCEPT !.hdr = k] BY <1>3, <1>6, <1>7, Zenon
<1>9. [f EXCEPT !.hdr = k] = [end |-> e, hdr |-> k] BY <1>5
<1> QED BY <1>1, <1>2, <1>4, <1>7, <1>8, <1>9, Zenon DEF WithSize

(* A handle with another file.                                              *)
LEMMA FileChanged ==
    ASSUME NEW a, Record(a), NEW f, FileRecord(f), NEW c, c = [a EXCEPT !.file = f]
    PROVE  OnlyFile(a, c) /\ c.file = f
<1>1. c.file = f /\ c.idx = a.idx /\ c.l = a.l /\ c.partial = a.partial /\ Record(c) BY DEF Record
<1>2. c.file = [end |-> c.file.end, hdr |-> c.file.hdr] BY <1>1, Zenon DEF FileRecord
<1> QED BY <1>1, <1>2, Zenon DEF OnlyFile

(* The headers of a file that was left open, those of its first list and of *)
(* the movi list among them.                                                *)
LEMMA HeadersIn ==
    ASSUME NEW h, NEW W, NEW at, NEW m, NEW e, Abandoned(h, W, at, m, e), NEW g, g = HeadersTo(h, e)
    PROVE  /\ g \in [DOMAIN g -> Heads] /\ 0 \in DOMAIN g /\ at[m] \in DOMAIN g
           /\ \A p \in DOMAIN g : g[p] = h[p]
           /\ \A p \in DOMAIN g : p \in DOMAIN h
           /\ \A p \in DOMAIN h : p + ChunkHead <= e => p \in DOMAIN g
           /\ at[m] \in Nat /\ at[m] # 0 /\ at[m + 1] = at[m] + ListHead /\ at[m + 1] <= e /\ e \in Nat
<1>1. /\ W \in Seq(Elements) /\ Nested(W) /\ Placed(h, W, at) /\ m \in 1 .. Len(W) /\ W # <<>>
      /\ W[m].level = 1 /\ W[m].name = "movi" /\ e \in Nat /\ e >= at[m + 1]
  <2>1. /\ Nested(W) /\ Placed(h, W, at) /\ m \in 1 .. Len(W)
        /\ W[m].level = 1 /\ W[m].name = "movi" /\ e \in Nat /\ e >= at[m + 1]
    BY Zenon DEF Abandoned
  <2>2. W \in Seq(Elements) BY <2>1, Zenon DEF Nested
  <2>3. W # <<>> BY <2>1, <2>2
  <2> QED BY <2>1, <2>2, <2>3, Zenon
<1>2. PICK N \in Nat : N = Len(W) BY <1>1
<1>3. m \in 1 .. N /\ m \in 1 .. Len(W) + 1 /\ m + 1 \in 1 .. Len(W) + 1 /\ 1 \in 1 .. N BY <1>1, <1>2
<1>4. at[m + 1] = at[m] + ListHead
  <2>1. "movi" \in ListNames BY DEF ListNames
  <2>2. HeadFor(h[at[m]], W[m], m = 1, at[m], at[m + 1]) BY <1>1, Zenon DEF Placed
  <2> QED BY <1>1, <2>1, <2>2, Zenon DEF HeadFor
<1>5. PICK q \in Nat : q = at[m] BY <1>1, <1>3, PlaceIs
<1>6. at[1] = 0 /\ DOMAIN h = {at[k] : k \in 1 .. N} /\ h \in [DOMAIN h -> Heads]
  BY <1>1, <1>2, Zenon DEF Placed
<1>7. m # 1
  <2>1. W[1].level = 0 BY <1>1, InsideOfRiff, Zenon
  <2>2. W[m].level # W[1].level BY <1>1, <2>1
  <2> QED BY <2>2, Zenon
<1>8. q # 0
  <2>1. 1 \in 1 .. Len(W) + 1 /\ 1 < m BY <1>1, <1>2, <1>3, <1>7
  <2>2. at[1] + ChunkHead <= q BY <1>1, <1>3, <1>5, <2>1, Zenon DEF Placed
  <2> QED BY <1>5, <1>6, <2>2 DEF ChunkHead
<1>9. q + ListHead <= e BY <1>1, <1>4, <1>5, Zenon
<1>10. q + ChunkHead <= e /\ 0 + ChunkHead <= e BY <1>1, <1>5, <1>9 DEF ChunkHead, ListHead
<1>11. 0 \in DOMAIN h /\ q \in DOMAIN h BY <1>3, <1>5, <1>6
<1>12. DOMAIN g = {p \in DOMAIN h : p + ChunkHead <= e} /\ \A p \in DOMAIN g : g[p] = h[p]
  BY DEF HeadersTo
<1>13. g = [p \in DOMAIN g |-> g[p]] BY DEF HeadersTo
<1>14. \A p \in DOMAIN g : g[p] \in Heads BY <1>6, <1>12
<1>15. g \in [DOMAIN g -> Heads] BY <1>13, <1>14, Zenon
<1>16. 0 \in DOMAIN g /\ q \in DOMAIN g BY <1>10, <1>11, <1>12
<1>17. \A p \in DOMAIN h : p + ChunkHead <= e => p \in DOMAIN g BY <1>12, Zenon
<1>18. \A p \in DOMAIN g : p \in DOMAIN h BY <1>12, Zenon
<1> QED BY <1>1, <1>4, <1>5, <1>8, <1>12, <1>15, <1>16, <1>17, <1>18, Zenon

(* The chunks of the movi list: each of them ends where the next begins.    *)
LEMMA MoviChunk ==
    ASSUME NEW h, NEW W, NEW at, NEW m, NEW e, Abandoned(h, W, at, m, e),
           NEW N \in Nat, N = Len(W), NEW k \in 1 .. N, m <= k
    PROVE  /\ at[k + 1] \in Nat
           /\ k = N => at[k + 1] \notin DOMAIN h
           /\ k < N => /\ at[k + 1] \in DOMAIN h /\ at[k + 1] # at[m]
                       /\ h[at[k + 1]].size \in Nat
                       /\ at[k + 2] = at[k + 1] + ChunkHead + Even(h[at[k + 1]].size)
<1>1. /\ W \in Seq(Elements) /\ Rules(W) /\ Placed(h, W, at) /\ m \in 1 .. Len(W)
      /\ W[m].name = "movi" /\ Around(W, m, Len(W))
  BY Zenon DEF Abandoned, Nested
<1>2. k + 1 \in 1 .. Len(W) + 1 /\ m \in 1 .. N /\ m \in 1 .. Len(W) + 1 /\ m < k + 1 BY <1>1
<1>3. at[k + 1] \in Nat /\ at[m] \in Nat BY <1>1, <1>2, PlaceIs
<1>4. DOMAIN h = {at[j] : j \in 1 .. N} /\ h \in [DOMAIN h -> Heads] BY <1>1, Zenon DEF Placed
<1>5. ASSUME k = N PROVE at[k + 1] \notin DOMAIN h
  <2>1. ASSUME NEW j \in 1 .. N PROVE at[j] # at[k + 1]
    <3>1. j \in 1 .. Len(W) + 1 /\ j < k + 1 BY <1>5
    <3>2. at[j] + ChunkHead <= at[k + 1] BY <1>1, <1>2, <3>1, Zenon DEF Placed
    <3>3. at[j] \in Nat BY <1>1, <3>1, PlaceIs
    <3> QED BY <1>3, <3>2, <3>3 DEF ChunkHead
  <2> QED BY <1>4, <2>1
<1>6. ASSUME k < N
      PROVE  /\ at[k + 1] \in DOMAIN h /\ at[k + 1] # at[m] /\ h[at[k + 1]].size \in Nat
             /\ at[k + 2] = at[k + 1] + ChunkHead + Even(h[at[k + 1]].size)
  <2>1. k + 1 \in 1 .. N /\ k + 1 + 1 = k + 2 BY <1>6
  <2>2. at[k + 1] \in DOMAIN h BY <1>4, <2>1
  <2>3. at[k + 1] # at[m]
    <3>1. at[m] + ChunkHead <= at[k + 1] BY <1>1, <1>2, Zenon DEF Placed
    <3> QED BY <1>3, <3>1 DEF ChunkHead
  <2>4. h[at[k + 1]].size \in Nat
    <3>1. h[at[k + 1]] \in Heads BY <1>4, <2>2
    <3> QED BY <3>1 DEF Heads
  <2>5. W[k + 1].name \notin ListNames
    <3>1. Around(W, m, k + 1)
      <4>1. \A i \in m + 1 .. k + 1 : i \in m + 1 .. Len(W) BY <1>1, <2>1
      <4> QED BY <1>1, <4>1, Zenon DEF Around
    <3> QED BY <1>1, <1>2, <2>1, <3>1, Zenon DEF Rules
  <2>6. HeadFor(h[at[k + 1]], W[k + 1], k + 1 = 1, at[k + 1], at[k + 2]) BY <1>1, <2>1, Zenon DEF Placed
  <2>7. at[k + 2] = at[k + 1] + ChunkHead + Even(h[at[k + 1]].size) BY <2>5, <2>6, Zenon DEF HeadFor
  <2> QED BY <2>2, <2>3, <2>4, <2>7
<1> QED BY <1>3, <1>5, <1>6, Zenon

(* The file while it is restored: the k-th element is the last one the size *)
(* of the movi list counts, and the part of the index that was written may  *)
(* have made the file longer.                                               *)
Entries == [name : ChunkNames \cup {Riff, List}, off : Nat]
Longest(x, e, n) == n \in Nat /\ (x = e \/ x = e + ChunkHead + EntrySize * n)
Restored(W, at, m, e, h, k) ==
    /\ Abandoned(h, W, at, m, e) /\ k \in m .. Len(W) /\ at[k + 1] <= e
    /\ FileRecord(file)
    /\ file.hdr = WithSize(HeadersTo(h, e), at[m], at[k + 1] - at[m] - ChunkHead)
    /\ Longest(file.end, e, Len(index))
InRestore(W, at, m, e, h, k) ==
    /\ Restored(W, at, m, e, h, k)
    /\ req_lst_off = at[m] /\ avi_size = e /\ restore.pos = at[k + 1]
    /\ restore = [pos |-> restore.pos, chunk_offs |-> restore.chunk_offs, idx |-> restore.idx]
    /\ restore.chunk_offs \in Nat /\ restore.idx \in Seq(Entries) /\ index \in Seq(Entries)

(* It begins behind the head of the list.                                   *)
LEMMA BeginsRestore ==
    ASSUME NEW h, NEW W, NEW at, NEW m, NEW e, Abandoned(h, W, at, m, e), Record(avi), FileRecord(file),
           file.hdr = HeadersTo(h, e), file.end = e, avi_size = e, req_lst_off \in {0, at[m]},
           index = <<>>, RestoreBegins
    PROVE  \/ phase' = "damaged"
           \/ phase' = "restore" /\ InRestore(W, at, m, e, h, m)' /\ OnlyFile(avi, avi')
<1>1. PICK a, f, g, q : a = avi /\ f = file /\ g = HeadersTo(h, e) /\ q = at[m] OBVIOUS
<1>2. /\ g \in [DOMAIN g -> Heads] /\ q \in DOMAIN g /\ q \in Nat /\ q # 0
      /\ at[m + 1] = q + ListHead /\ at[m + 1] <= e /\ e \in Nat
  <2>1. Abandoned(h, W, at, m, e) /\ g = HeadersTo(h, e) BY <1>1
  <2>2. g \in [DOMAIN g -> Heads] /\ at[m] \in DOMAIN g BY <2>1, HeadersIn
  <2>3. at[m] \in Nat /\ at[m] # 0 /\ at[m + 1] = at[m] + ListHead /\ at[m + 1] <= e /\ e \in Nat
    BY <2>1, HeadersIn
  <2> QED BY <1>1, <2>2, <2>3, Zenon
<1>3. CASE req_lst_off = 0 BY <1>3, Zenon DEF RestoreBegins
<1>4. CASE req_lst_off # 0
  <2>1. req_lst_off = q BY <1>1, <1>4, Zenon
  <2>2. /\ phase' = "restore" /\ UNCHANGED <<req_lst_off, avi_size, index>>
        /\ avi' = [a EXCEPT !.file = SetSize(f, q, 4)]
        /\ restore' = [pos |-> q + ListHead, chunk_offs |-> 4, idx |-> <<>>]
    BY <1>1, <1>4, <2>1, Zenon DEF RestoreBegins, file
  <2>3. PICK c : c = SetSize(f, q, 4) OBVIOUS
  <2>4. c = [end |-> e, hdr |-> WithSize(g, q, 4)]
    <3>1. FileRecord(f) /\ f.hdr = g /\ f.end = e BY <1>1, Zenon
    <3>2. SetSize(f, q, 4) = [end |-> f.end, hdr |-> WithSize(g, q, 4)] BY <1>2, <3>1, SetSizeIs
    <3> QED BY <2>3, <3>1, <3>2, Zenon
  <2>5. c.end = e /\ c.hdr = WithSize(g, q, 4) BY <2>4
  <2>6. FileRecord(c) BY <2>4, <2>5, Zenon DEF FileRecord
  <2>7. OnlyFile(a, avi') /\ avi'.file = c
    <3>1. PICK b : b = avi' OBVIOUS
    <3>2. Record(a) /\ FileRecord(c) /\ b = [a EXCEPT !.file = c] BY <1>1, <2>2, <2>3, <2>6, <3>1, Zenon
    <3>3. OnlyFile(a, b) /\ b.file = c BY <3>2, FileChanged
    <3> QED BY <3>1, <3>3, Zenon
  <2>8. file' = c BY <2>7, Zenon DEF file
  <2>9. at[m + 1] - q - ChunkHead = 4 BY <1>2 DEF ListHead, ChunkHead
  <2>10. Restored(W, at, m, e, h, m)'
    <3>1. m \in m .. Len(W)
      <4>1. W \in Seq(Elements) /\ m \in 1 .. Len(W) BY Zenon DEF Abandoned, Nested
      <4> QED BY <4>1
    <3>2. Len(index) = 0 /\ index' = index BY <2>2
    <3>3. Longest(file'.end, e, Len(index')) BY <2>5, <2>8, <3>2 DEF Longest
    <3>4. file'.hdr = WithSize(HeadersTo(h, e), at[m], at[m + 1] - at[m] - ChunkHead)
      BY <1>1, <2>5, <2>8, <2>9, Zenon
    <3> QED BY <1>2, <2>6, <2>8, <3>1, <3>3, <3>4, Zenon DEF Restored
  <2>11. PICK r : r = restore' OBVIOUS
  <2>12. /\ r.pos = q + ListHead /\ r.chunk_offs = 4 /\ r.idx = <<>>
         /\ r = [pos |-> r.pos, chunk_offs |-> r.chunk_offs, idx |-> r.idx]
    BY <2>2, <2>11
  <2>13. r.chunk_offs \in Nat /\ r.idx \in Seq(Entries) /\ index' \in Seq(Entries) BY <2>2, <2>12
  <2>14. req_lst_off' = at[m] /\ avi_size' = e /\ r.pos = at[m + 1] BY <1>1, <1>2, <2>1, <2>2, <2>12, Zenon
  <2> QED BY <1>1, <2>2, <2>7, <2>10, <2>11, <2>12, <2>13, <2>14, Zenon DEF InRestore
<1> QED BY <1>3, <1>4

(* The next header in such a file.                                          *)
LEMMA RestoredHeads ==
    ASSUME NEW W, NEW at, NEW m, NEW e, NEW h, NEW k, Restored(W, at, m, e, h, k),
           NEW g, g = HeadersTo(h, e), NEW s, s = at[k + 1] - at[m] - ChunkHead
    PROVE  /\ s \in Nat /\ DOMAIN file.hdr = DOMAIN g /\ file.hdr = WithSize(g, at[m], s)
           /\ file.hdr \in [DOMAIN file.hdr -> Heads]
           /\ file.hdr[at[m]].size = s
           /\ \A p \in DOMAIN g : p # at[m] => file.hdr[p] = h[p]
<1>1. Abandoned(h, W, at, m, e) /\ k \in m .. Len(W) BY Zenon DEF Restored
<1>2. PICK f, q : f = file.hdr /\ q = at[m] OBVIOUS
<1>3. f = WithSize(g, q, s) BY <1>2, Zenon DEF Restored
<1>4. g \in [DOMAIN g -> Heads] /\ q \in DOMAIN g
  BY <1>1, <1>2, HeadersIn
<1>5. \A p \in DOMAIN g : g[p] = h[p] BY <1>1, HeadersIn
<1>6. q \in Nat
  <2>1. at[m] \in Nat BY <1>1, HeadersIn
  <2> QED BY <1>2, <2>1, Zenon
<1>7. s \in Nat
  <2>1. PICK N \in Nat : N = Len(W)
    <3>1. W \in Seq(Elements) BY <1>1, Zenon DEF Abandoned, Nested
    <3> QED BY <3>1
  <2>2. m \in 1 .. N /\ k \in m .. N BY <1>1, <2>1 DEF Abandoned
  <2>3. at[m] + ChunkHead <= at[k + 1] /\ at[k + 1] \in Nat
    <3>1. W \in Seq(Elements) /\ Placed(h, W, at) BY <1>1, Zenon DEF Abandoned, Nested
    <3>2. m \in 1 .. Len(W) + 1 /\ k + 1 \in 1 .. Len(W) + 1 /\ m < k + 1 BY <2>1, <2>2
    <3>3. at[k + 1] \in Nat BY <3>1, <3>2, PlaceIs
    <3> QED BY <3>1, <3>2, <3>3, Zenon DEF Placed
  <2> QED BY <1>2, <1>6, <2>3 DEF ChunkHead
<1>8. PICK x, z : x = g[q] /\ x \in Heads /\ z = [name |-> x.name, type |-> x.type, size |-> s] BY <1>4
<1>9. z \in Heads /\ z.size = s BY <1>7, <1>8 DEF Heads
<1>10. f = Put(g, q, z) BY <1>3, <1>8, Zenon DEF WithSize
<1>11. DOMAIN f = DOMAIN g /\ f[q] = z /\ (\A p \in DOMAIN g : p # q => f[p] = g[p]) /\ f = [p \in DOMAIN f |-> f[p]]
  BY <1>4, <1>10 DEF Put
<1>12. f \in [DOMAIN f -> Heads]
  <2>1. \A p \in DOMAIN f : f[p] \in Heads BY <1>4, <1>9, <1>11
  <2> QED BY <1>11, <2>1, Zenon
<1>13. \A p \in DOMAIN g : p # q => f[p] = h[p] BY <1>5, <1>11, Zenon
<1> QED BY <1>2, <1>3, <1>7, <1>9, <1>11, <1>12, <1>13, Zenon

(* The file after the next chunk.                                           *)
LEMMA NextRestored ==
    ASSUME NEW W, NEW at, NEW m, NEW e, NEW h, NEW k, Restored(W, at, m, e, h, k), k < Len(W), at[k + 2] <= e,
           NEW z \in Nat, at[k + 2] = at[k + 1] + ChunkHead + z,
           NEW x, NEW j, Longest(x, e, Len(j)),
           NEW f, f = [end |-> x, hdr |-> SetSize(file, at[m], file.hdr[at[m]].size + ChunkHead + z).hdr],
           file' = f, index' = j
    PROVE  Restored(W, at, m, e, h, k + 1)'
<1>1. PICK g, s, q, fh : g = HeadersTo(h, e) /\ s = at[k + 1] - at[m] - ChunkHead /\ q = at[m] /\ fh = file.hdr OBVIOUS
<1>2. Abandoned(h, W, at, m, e) /\ k \in m .. Len(W) /\ FileRecord(file) BY Zenon DEF Restored
<1>3. /\ s \in Nat /\ DOMAIN fh = DOMAIN g /\ fh = WithSize(g, q, s)
      /\ fh \in [DOMAIN fh -> Heads] /\ fh[q].size = s
  <2>1. g = HeadersTo(h, e) /\ s = at[k + 1] - at[m] - ChunkHead /\ Restored(W, at, m, e, h, k) BY <1>1, Zenon
  <2>2. s \in Nat BY <2>1, RestoredHeads
  <2>3. DOMAIN file.hdr = DOMAIN g /\ file.hdr = WithSize(g, at[m], s) BY <2>1, RestoredHeads
  <2>4. file.hdr \in [DOMAIN file.hdr -> Heads] BY <2>1, RestoredHeads
  <2>5. file.hdr[at[m]].size = s BY <2>1, RestoredHeads
  <2> QED BY <1>1, <2>2, <2>3, <2>4, <2>5, Zenon
<1>4. q \in DOMAIN g /\ q \in Nat
  <2>1. at[m] \in DOMAIN g /\ at[m] \in Nat BY <1>1, <1>2, HeadersIn
  <2> QED BY <1>1, <2>1, Zenon
<1>5. PICK t \in Nat : t = s + ChunkHead + z BY <1>3 DEF ChunkHead
<1>6. SetSize(file, q, t) = [end |-> file.end, hdr |-> WithSize(fh, q, t)]
  <2>1. FileRecord(file) /\ fh = file.hdr /\ fh \in [DOMAIN fh -> Heads] /\ q \in DOMAIN fh
    BY <1>1, <1>2, <1>3, <1>4, Zenon
  <2> QED BY <2>1, SetSizeIs
<1>7. WithSize(fh, q, t) = WithSize(g, q, t)
  <2>1. WithSize(WithSize(g, q, s), q, t) = WithSize(g, q, t) BY <1>4, WithSizeTwice
  <2> QED BY <1>3, <2>1, Zenon
<1>8. f.end = x /\ f.hdr = WithSize(g, q, t) /\ FileRecord(f)
  <2>1. fh[q].size + ChunkHead + z = t BY <1>3, <1>5, Zenon
  <2>2. f = [end |-> x, hdr |-> SetSize(file, q, t).hdr] BY <1>1, <2>1, Zenon
  <2>3. SetSize(file, q, t).hdr = WithSize(g, q, t) BY <1>6, <1>7
  <2>4. f = [end |-> x, hdr |-> WithSize(g, q, t)] BY <2>2, <2>3, Zenon
  <2>5. f.end = x /\ f.hdr = WithSize(g, q, t) BY <2>4
  <2> QED BY <2>4, <2>5, Zenon DEF FileRecord
<1>9. t = at[(k + 1) + 1] - at[m] - ChunkHead /\ k + 1 \in m .. Len(W) /\ at[(k + 1) + 1] <= e
  <2>1. PICK N \in Nat : N = Len(W)
    <3>1. W \in Seq(Elements) BY <1>2, Zenon DEF Abandoned, Nested
    <3> QED BY <3>1
  <2>2. m \in 1 .. N /\ k \in m .. N /\ k < N BY <1>2, <2>1 DEF Abandoned
  <2>3. k + 1 \in m .. N /\ (k + 1) + 1 = k + 2 BY <2>2
  <2>4. PICK v \in Nat : v = at[k + 1]
    <3>1. W \in Seq(Elements) /\ Placed(h, W, at) BY <1>2, Zenon DEF Abandoned, Nested
    <3>2. k + 1 \in 1 .. Len(W) + 1 BY <2>1, <2>2
    <3> QED BY <3>1, <3>2, PlaceIs
  <2>5. t = (v + ChunkHead + z) - q - ChunkHead
    <3>1. s = v - q - ChunkHead BY <1>1, <2>4, Zenon
    <3>2. s \in Nat /\ q \in Nat BY <1>3, <1>4
    <3>3. t = s + ChunkHead + z /\ z \in Nat /\ v \in Nat BY <1>5, <2>4
    <3>4. t \in Nat BY <1>5
    <3> QED BY <3>1, <3>2, <3>3, <3>4, SMTT(30) DEF ChunkHead
  <2>6. t = at[k + 2] - at[m] - ChunkHead BY <1>1, <2>4, <2>5, Zenon
  <2>7. (k + 1) + 1 = k + 2 /\ at[k + 2] <= e BY <2>3
  <2>8. t = at[(k + 1) + 1] - at[m] - ChunkHead /\ at[(k + 1) + 1] <= e
    BY <2>6, <2>7, Zenon
  <2>9. k + 1 \in m .. Len(W) BY <2>1, <2>3, Zenon
  <2> QED BY <2>8, <2>9, Zenon
<1>10. f.hdr = WithSize(HeadersTo(h, e), at[m], at[(k + 1) + 1] - at[m] - ChunkHead) BY <1>1, <1>8, <1>9, Zenon
<1>11. Longest(f.end, e, Len(index')) BY <1>8, Zenon
<1> QED BY <1>2, <1>8, <1>9, <1>10, <1>11, Zenon DEF Restored

(* A step of the restoration takes the next chunk, or ends it.              *)
LEMMA ChunkRestored ==
    ASSUME NEW W, NEW at, NEW m, NEW e, NEW h, NEW k, InRestore(W, at, m, e, h, k), Record(avi), RestoreChunk
    PROVE  \/ phase' \in {"astray", "damaged"}
           \/ phase' = phase /\ InRestore(W, at, m, e, h, k + 1)' /\ OnlyFile(avi, avi')
<1>1. PICK g, q, fh, o : g = HeadersTo(h, e) /\ q = at[m] /\ fh = file.hdr /\ o = at[k + 1] OBVIOUS
<1>2. /\ Restored(W, at, m, e, h, k) /\ req_lst_off = q /\ avi_size = e /\ restore.pos = o
      /\ restore.chunk_offs \in Nat /\ restore.idx \in Seq(Entries) /\ index \in Seq(Entries)
  BY <1>1, Zenon DEF InRestore
<1>3. Abandoned(h, W, at, m, e) /\ k \in m .. Len(W) /\ FileRecord(file) /\ Longest(file.end, e, Len(index))
  BY <1>2, Zenon DEF Restored
<1>4. PICK N \in Nat : N = Len(W) /\ k \in 1 .. N /\ m \in 1 .. N /\ m <= k
  <2>1. W \in Seq(Elements) /\ m \in 1 .. Len(W) BY <1>3, Zenon DEF Abandoned, Nested
  <2> QED BY <1>3, <2>1
<1>5. e \in Nat /\ o < e BY <1>2, <1>3, Zenon DEF Abandoned, RestoreChunk
<1>6. DOMAIN fh = DOMAIN g /\ fh \in [DOMAIN fh -> Heads] /\ \A p \in DOMAIN g : p # q => fh[p] = h[p]
  <2>1. g = HeadersTo(h, e) /\ Restored(W, at, m, e, h, k) BY <1>1, <1>2
  <2>2. DOMAIN file.hdr = DOMAIN g BY <2>1, RestoredHeads
  <2>3. file.hdr \in [DOMAIN file.hdr -> Heads] BY <2>1, RestoredHeads
  <2>4. \A p \in DOMAIN g : p # at[m] => file.hdr[p] = h[p] BY <2>1, RestoredHeads
  <2> QED BY <1>1, <2>2, <2>3, <2>4, Zenon
<1>7. CASE ~Known(o) \/ Left(o) < ChunkHead
  <2>1. file.end \in Nat BY <1>3, <1>5 DEF Longest, ChunkHead, EntrySize
  <2>2. o \in Nat
    <3>1. at[k + 1] \in Nat BY <1>3, <1>4, MoviChunk
    <3> QED BY <1>1, <3>1, Zenon
  <2>3. Left(o) < ChunkHead \/ Left(o) >= ChunkHead BY <2>1, <2>2 DEF Left, ChunkHead
  <2> QED BY <1>2, <1>7, <2>3, Zenon DEF RestoreChunk
<1>8. CASE Known(o) /\ ~(Left(o) < ChunkHead)
  <2>1. o \in DOMAIN g /\ o \in DOMAIN h
    <3>1. o \in DOMAIN fh BY <1>1, <1>8, Zenon DEF Known
    <3>2. \A p \in DOMAIN g : p \in DOMAIN h BY <1>1, <1>3, HeadersIn
    <3> QED BY <1>6, <3>1, <3>2, Zenon
  <2>2. k < N
    <3>1. k = N => at[k + 1] \notin DOMAIN h BY <1>3, <1>4, MoviChunk, Zenon
    <3>2. k # N BY <1>1, <2>1, <3>1, Zenon
    <3> QED BY <1>4, <3>2
  <2>3. /\ at[k + 1] # at[m] /\ h[at[k + 1]].size \in Nat
        /\ at[k + 2] = at[k + 1] + ChunkHead + Even(h[at[k + 1]].size)
    BY <1>3, <1>4, <2>2, MoviChunk
  <2>4. PICK r : r = HeaderAt(o) OBVIOUS
  <2>5. r = h[o] /\ r \in Heads
    <3>1. r = fh[o] BY <1>1, <2>4, Zenon DEF HeaderAt
    <3>2. r = h[o] BY <1>1, <1>6, <2>1, <2>3, <3>1, Zenon
    <3>3. fh[o] \in Heads BY <1>6, <2>1
    <3> QED BY <3>1, <3>2, <3>3, Zenon
  <2>6. PICK z \in Nat : z = Even(r.size)
    <3>1. r.size \in Nat BY <1>1, <2>3, <2>5, Zenon
    <3> QED BY <3>1, EvenIs
  <2>7. at[k + 2] = o + ChunkHead + z BY <1>1, <2>3, <2>5, <2>6, Zenon
  <2>8. CASE o + ChunkHead + z > e BY <1>2, <1>8, <2>4, <2>6, <2>8, Zenon DEF RestoreChunk
  <2>9. CASE ~(o + ChunkHead + z > e)
    <3>1. PICK flush : flush = (Len(restore.idx) >= IdxMax) OBVIOUS
    <3>2. PICK x0, t : /\ x0 = IF flush THEN <<>> ELSE restore.idx
                       /\ t = [name |-> r.name, off |-> restore.chunk_offs]
      OBVIOUS
    <3>3. /\ restore' = [pos |-> o + ChunkHead + z, chunk_offs |-> restore.chunk_offs + ChunkHead + z,
                         idx |-> IF r.name = "JUNK" THEN x0 ELSE Append(x0, t)]
          /\ index' = (IF flush THEN index \o restore.idx ELSE index)
          /\ phase' = phase /\ UNCHANGED <<req_lst_off, avi_size>>
          /\ \E f \in {SetSize(file, q, HeaderAt(q).size + ChunkHead + z)} :
                avi' = [avi EXCEPT !.file = [f EXCEPT !.end = IF flush
                                    THEN e + ChunkHead + EntrySize * Len(index') ELSE @]]
      BY <1>2, <1>8, <2>4, <2>6, <2>9, <3>1, <3>2, Zenon DEF RestoreChunk
    <3>4. PICK j, x : j = index' /\ x = IF flush THEN e + ChunkHead + EntrySize * Len(j) ELSE file.end OBVIOUS
    <3>5. j \in Seq(Entries) /\ x0 \in Seq(Entries) /\ t \in Entries
      <4>1. j \in Seq(Entries) /\ x0 \in Seq(Entries) BY <1>2, <3>2, <3>3, <3>4
      <4>2. t \in Entries
        <5>1. r.name \in ChunkNames \cup {Riff, List} BY <2>5 DEF Heads
        <5> QED BY <1>2, <3>2, <5>1 DEF Entries
      <4> QED BY <4>1, <4>2
    <3>6. Longest(x, e, Len(j))
      <4>1. Len(j) \in Nat BY <3>5
      <4> QED BY <1>3, <3>3, <3>4, <4>1, Zenon DEF Longest
    <3>7. PICK s \in Nat : s = fh[q].size + ChunkHead + z
      <4>1. q \in DOMAIN g
        <5>1. at[m] \in DOMAIN g BY <1>1, <1>3, HeadersIn
        <5> QED BY <1>1, <5>1, Zenon
      <4>2. fh[q] \in Heads BY <1>6, <4>1
      <4>3. fh[q].size \in Nat BY <4>2 DEF Heads
      <4> QED BY <4>3 DEF ChunkHead
    <3>8. PICK f, c : f = SetSize(file, q, s) /\ c = [end |-> x, hdr |-> f.hdr] OBVIOUS
    <3>9. FileRecord(c) /\ [f EXCEPT !.end = IF flush THEN e + ChunkHead + EntrySize * Len(j) ELSE @] = c
      <4>1. q \in DOMAIN fh
        <5>1. at[m] \in DOMAIN g BY <1>1, <1>3, HeadersIn
        <5> QED BY <1>1, <1>6, <5>1, Zenon
      <4>2. f = [end |-> file.end, hdr |-> WithSize(fh, q, s)]
        <5>1. FileRecord(file) /\ fh = file.hdr /\ fh \in [DOMAIN fh -> Heads] /\ q \in DOMAIN fh
          BY <1>1, <1>3, <1>6, <4>1, Zenon
        <5>2. SetSize(file, q, s) = [end |-> file.end, hdr |-> WithSize(fh, q, s)] BY <5>1, SetSizeIs
        <5> QED BY <3>8, <5>2, Zenon
      <4>3. PICK u, v : u = file.end /\ v = WithSize(fh, q, s) OBVIOUS
      <4>4. f = [end |-> u, hdr |-> v] BY <4>2, <4>3, Zenon
      <4>5. f.end = u /\ f.hdr = v BY <4>4
      <4>6. [f EXCEPT !.end = x] = [end |-> x, hdr |-> v] BY <4>4
      <4>7. c = [end |-> x, hdr |-> v] BY <3>8, <4>5, Zenon
      <4>8. c.end = x /\ c.hdr = v BY <4>7
      <4>9. FileRecord(c) BY <4>7, <4>8, Zenon DEF FileRecord
      <4>10. [f EXCEPT !.end = IF flush THEN e + ChunkHead + EntrySize * Len(j) ELSE @] = [f EXCEPT !.end = x]
        BY <3>4, <4>3, <4>5, Zenon
      <4> QED BY <4>6, <4>7, <4>9, <4>10, Zenon
    <3>10. OnlyFile(avi, avi') /\ file' = c
      <4>1. PICK a, b : a = avi /\ b = avi' OBVIOUS
      <4>2. b = [a EXCEPT !.file = c]
        <5>1. SetSize(file, q, HeaderAt(q).size + ChunkHead + z) = f BY <1>1, <3>7, <3>8, Zenon DEF HeaderAt
        <5> QED BY <3>3, <3>4, <3>9, <4>1, <5>1, Zenon
      <4>3. Record(a) /\ FileRecord(c) BY <3>9, <4>1, Zenon
      <4>4. OnlyFile(a, b) /\ b.file = c BY <4>2, <4>3, FileChanged
      <4> QED BY <4>1, <4>4, Zenon DEF file
    <3>11. Restored(W, at, m, e, h, k + 1)'
      <4>1. k < Len(W) /\ at[k + 2] <= e
        <5>1. o \in Nat
          <6>1. at[k + 1] \in Nat BY <1>3, <1>4, MoviChunk
          <6> QED BY <1>1, <6>1, Zenon
        <5>2. o + ChunkHead + z <= e BY <1>5, <2>9, <5>1 DEF ChunkHead
        <5>3. k < Len(W) BY <1>4, <2>2, Zenon
        <5> QED BY <2>7, <5>2, <5>3, Zenon
      <4>2. at[k + 2] = at[k + 1] + ChunkHead + z BY <1>1, <2>7, Zenon
      <4>3. file.hdr[at[m]].size + ChunkHead + z = s BY <1>1, <3>7, Zenon
      <4>4. c = [end |-> x, hdr |-> SetSize(file, at[m], file.hdr[at[m]].size + ChunkHead + z).hdr]
        BY <1>1, <3>8, <4>3, Zenon
      <4>5. file' = c /\ index' = j BY <3>4, <3>10, Zenon
      <4> QED BY <1>2, <2>6, <3>6, <4>1, <4>2, <4>4, <4>5, NextRestored, Zenon
    <3>12. PICK v : v = restore' OBVIOUS
    <3>13. PICK w : w = IF r.name = "JUNK" THEN x0 ELSE Append(x0, t) OBVIOUS
    <3>14. w \in Seq(Entries) BY <3>5, <3>13
    <3>15. PICK d \in Nat : d = restore.chunk_offs + ChunkHead + z BY <1>2 DEF ChunkHead
    <3>16. v = [pos |-> at[k + 2], chunk_offs |-> d, idx |-> w] BY <2>7, <3>3, <3>12, <3>13, <3>15, Zenon
    <3>17. v.pos = at[k + 2] /\ v.chunk_offs = d /\ v.idx = w BY <3>16
    <3>18. (k + 1) + 1 = k + 2 BY <1>4
    <3>19. InRestore(W, at, m, e, h, k + 1)'
      <4>1. req_lst_off' = at[m] /\ avi_size' = e BY <1>1, <1>2, <3>3, Zenon
      <4>2. v.pos = at[(k + 1) + 1] BY <3>17, <3>18, Zenon
      <4>3. v = [pos |-> v.pos, chunk_offs |-> v.chunk_offs, idx |-> v.idx] BY <3>16, <3>17, Zenon
      <4>4. v.chunk_offs \in Nat /\ v.idx \in Seq(Entries) /\ index' \in Seq(Entries)
        BY <3>4, <3>5, <3>14, <3>15, <3>17, Zenon
      <4> QED BY <3>11, <3>12, <4>1, <4>2, <4>3, <4>4, Zenon DEF InRestore
    <3> QED BY <3>3, <3>10, <3>19
  <2> QED BY <2>8, <2>9
<1> QED BY <1>7, <1>8

(* At the end of the file all elements have been counted.                   *)
LEMMA AllCounted ==
    ASSUME NEW W, NEW at, NEW m, NEW e, NEW h, NEW k, Restored(W, at, m, e, h, k), at[k + 1] >= e
    PROVE  k = Len(W) /\ e = at[Len(W) + 1] /\ HeadersTo(h, e) = h
<1>1. Abandoned(h, W, at, m, e) /\ k \in m .. Len(W) /\ at[k + 1] <= e BY Zenon DEF Restored
<1>2. W \in Seq(Elements) /\ Placed(h, W, at) /\ m \in 1 .. Len(W) /\ e \in Nat /\ e > at[Len(W)]
  BY <1>1, Zenon DEF Abandoned, Nested
<1>3. PICK N \in Nat : N = Len(W) /\ k \in 1 .. N /\ N > 0 BY <1>1, <1>2
<1>4. k + 1 \in 1 .. Len(W) + 1 /\ N \in 1 .. Len(W) + 1 BY <1>3
<1>5. at[k + 1] \in Nat /\ at[N] \in Nat BY <1>2, <1>4, PlaceIs
<1>6. k = N
  <2>1. ASSUME k # N PROVE FALSE
    <3>1. k + 1 = N \/ k + 1 < N BY <1>3, <2>1
    <3>2. k + 1 < N => at[k + 1] + ChunkHead <= at[N] BY <1>2, <1>4, Zenon DEF Placed
    <3>3. at[k + 1] <= at[N] BY <1>5, <3>1, <3>2 DEF ChunkHead
    <3>4. at[N] < e BY <1>2, <1>3, <1>5
    <3> QED BY <1>2, <1>5, <3>3, <3>4
  <2> QED BY <2>1
<1>7. e = at[k + 1] BY <1>1, <1>2, <1>5
<1>8. \A j \in 1 .. N : at[j] + ChunkHead <= e
  <2>1. ASSUME NEW j \in 1 .. N PROVE at[j] + ChunkHead <= e
    <3>1. j \in 1 .. Len(W) + 1 /\ j < k + 1 BY <1>3, <1>6
    <3>2. at[j] + ChunkHead <= at[k + 1] BY <1>2, <1>4, <3>1, Zenon DEF Placed
    <3> QED BY <1>7, <3>2, Zenon
  <2> QED BY <2>1
<1>9. HeadersTo(h, e) = h
  <2>1. h = [p \in DOMAIN h |-> h[p]] /\ DOMAIN h = {at[j] : j \in 1 .. N} BY <1>2, <1>3 DEF Placed
  <2>2. {q \in DOMAIN h : q + ChunkHead <= e} = DOMAIN h BY <1>8, <2>1
  <2> QED BY <2>1, <2>2, Zenon DEF HeadersTo
<1> QED BY <1>3, <1>6, <1>7, <1>9, Zenon

(* The last step of the restoration leaves a whole file with an index.      *)
LEMMA EndRestored ==
    ASSUME NEW W, NEW at, NEW m, NEW e, NEW h, NEW k, InRestore(W, at, m, e, h, k), Record(avi), RestoreEnds
    PROVE  OnlyFile(avi, avi') /\ \E bt : Whole(file', Append(W, Idx1), bt)
<1>1. PICK q, fh, o : q = at[m] /\ fh = file.hdr /\ o = at[k + 1] OBVIOUS
<1>2. /\ Restored(W, at, m, e, h, k) /\ req_lst_off = q /\ avi_size = e /\ restore.pos = o
      /\ restore.idx \in Seq(Entries) /\ index \in Seq(Entries)
  BY <1>1, Zenon DEF InRestore
<1>3. Abandoned(h, W, at, m, e) /\ FileRecord(file) /\ Longest(file.end, e, Len(index)) /\ e \in Nat
  BY <1>2, Zenon DEF Restored, Abandoned
<1>4. o >= e BY <1>2, Zenon DEF RestoreEnds
<1>5. k = Len(W) /\ e = at[Len(W) + 1] /\ HeadersTo(h, e) = h 
  <2>1. Restored(W, at, m, e, h, k) /\ at[k + 1] >= e BY <1>1, <1>2, <1>4
  <2> QED BY <2>1, AllCounted
<1>6. PICK s : s = e - q - ChunkHead OBVIOUS
<1>7. /\ s \in Nat /\ DOMAIN fh = DOMAIN h /\ fh = WithSize(h, q, s)
      /\ fh \in [DOMAIN fh -> Heads] /\ fh[q].size = s
  <2>1. h = HeadersTo(h, e) /\ Restored(W, at, m, e, h, k) /\ s = at[k + 1] - at[m] - ChunkHead
    BY <1>1, <1>2, <1>5, <1>6, Zenon
  <2>2. s \in Nat BY <2>1, RestoredHeads
  <2>3. DOMAIN file.hdr = DOMAIN h BY <2>1, RestoredHeads
  <2>4. file.hdr = WithSize(h, at[m], s) BY <2>1, RestoredHeads
  <2>5. file.hdr \in [DOMAIN file.hdr -> Heads] BY <2>1, RestoredHeads
  <2>6. file.hdr[at[m]].size = s BY <2>1, RestoredHeads
  <2> QED BY <1>1, <2>2, <2>3, <2>4, <2>5, <2>6, Zenon
<1>8. 0 \in DOMAIN fh /\ q \in Nat
  <2>1. h = HeadersTo(h, e) BY <1>5
  <2>2. 0 \in DOMAIN h /\ at[m] \in Nat BY <1>3, <2>1, HeadersIn
  <2> QED BY <1>1, <1>7, <2>2, Zenon
<1>9. PICK rest : rest = SubSeq(restore.idx, 1, Len(restore.idx) - 1) OBVIOUS
<1>10. PICK i \in Nat, r \in Nat : i = Len(index) /\ r = Len(rest)
  <2>1. PICK x : x = restore.idx /\ x \in Seq(Entries) BY <1>2
  <2>2. PICK l \in Nat : l = Len(x) BY <2>1
  <2>3. rest = SubSeq(x, 1, l - 1) BY <1>9, <2>1, <2>2, Zenon
  <2>4. CASE l = 0
    <3>1. l - 1 = -1 BY <2>4
    <3>2. rest = SubSeq(x, 1, -1) BY <2>3, <3>1
    <3>3. Len(rest) \in Nat BY <3>2
    <3> QED BY <1>2, <3>3
  <2>5. CASE l > 0
    <3>1. Len(rest) \in Nat BY <2>1, <2>2, <2>3, <2>5
    <3> QED BY <1>2, <3>1
  <2> QED BY <2>2, <2>4, <2>5
<1>11. PICK n \in Nat : n = EntrySize * (i + r) /\ IsEven(n) BY <1>10 DEF EntrySize, IsEven
<1>12. PICK f : f = SetSize(file, 0, e + n) OBVIOUS
<1>13. q + HeaderAt(q).size + ChunkHead + n = e + n
  <2>1. HeaderAt(q).size = s BY <1>1, <1>7, Zenon DEF HeaderAt
  <2>2. q + s + ChunkHead + n = e + n BY <1>3, <1>6, <1>7, <1>8, <1>11 DEF ChunkHead
  <2> QED BY <2>1, <2>2, Zenon
<1>14. avi' = [avi EXCEPT !.file = Extend(f, e, ChunkHeader("idx1", n), ChunkHead + n)]
  BY <1>2, <1>9, <1>10, <1>11, <1>12, <1>13, Zenon DEF RestoreEnds
<1>15. f.end = file.end /\ f.hdr = WithSize(fh, 0, e + n)
  <2>1. FileRecord(file) /\ fh = file.hdr /\ fh \in [DOMAIN fh -> Heads] /\ 0 \in DOMAIN fh
    BY <1>1, <1>3, <1>7, <1>8, Zenon
  <2>2. SetSize(file, 0, e + n) = [end |-> file.end, hdr |-> WithSize(fh, 0, e + n)] BY <2>1, SetSizeIs
  <2>3. PICK u, v : u = file.end /\ v = WithSize(fh, 0, e + n) OBVIOUS
  <2>4. f = [end |-> u, hdr |-> v] BY <1>12, <2>2, <2>3, Zenon
  <2> QED BY <2>3, <2>4
<1>16. PICK c : c = Extend(f, e, ChunkHeader("idx1", n), ChunkHead + n) OBVIOUS
<1>17. FileRecord(c) /\ c.end = e + ChunkHead + n /\ c.hdr = Mended(h, at, m, e, n)
  <2>1. PICK x, w : /\ x = IF e + (ChunkHead + n) > f.end THEN e + (ChunkHead + n) ELSE f.end
                    /\ w = Put(f.hdr, e, IndexHead(n))
    OBVIOUS
  <2>2. c = [end |-> x, hdr |-> w] BY <1>16, <2>1 DEF Extend, Put, IndexHead
  <2>3. c.end = x /\ c.hdr = w BY <2>2
  <2>4. x = e + ChunkHead + n
    <3>1. file.end = e \/ file.end = e + ChunkHead + EntrySize * i BY <1>3, <1>10, Zenon DEF Longest
    <3>2. PICK z \in Nat : z = file.end /\ z <= e + ChunkHead + n
      BY <1>3, <1>10, <1>11, <3>1 DEF ChunkHead, EntrySize
    <3>3. x = IF e + (ChunkHead + n) > z THEN e + (ChunkHead + n) ELSE z BY <1>15, <2>1, <3>2, Zenon
    <3> QED BY <1>3, <3>2, <3>3 DEF ChunkHead
  <2>5. w = Mended(h, at, m, e, n) BY <1>1, <1>6, <1>7, <1>15, <2>1, Zenon DEF Mended
  <2> QED BY <2>2, <2>3, <2>4, <2>5, Zenon DEF FileRecord
<1>18. OnlyFile(avi, avi') /\ file' = c
  <2>1. PICK a, b : a = avi /\ b = avi' OBVIOUS
  <2>2. Record(a) /\ FileRecord(c) /\ b = [a EXCEPT !.file = c] BY <1>14, <1>16, <1>17, <2>1, Zenon
  <2>3. OnlyFile(a, b) /\ b.file = c BY <2>2, FileChanged
  <2> QED BY <2>1, <2>3, Zenon DEF file
<1>19. \E bt : Whole(c, Append(W, Idx1), bt)
  BY <1>3, <1>5, <1>11, <1>17, MendedIs
<1> QED BY <1>18, <1>19, Zenon

(* The way of a file that was left open, up to its restoration and after.   *)
OpenPhases == {"left", "salvage", "salvaged"}
WholePhases == {"restored", "recheck", "rechecked"}
LeftAs(W) ==
    \E at, m, e, h :
        /\ Abandoned(h, W, at, m, e) /\ FileRecord(file) /\ file.hdr = HeadersTo(h, e) /\ file.end = e
        /\ phase # "left" => InSalvage(at[m])
RestoredAs(W) == \E at, m, e, h, k : InRestore(W, at, m, e, h, k)
MendedAs(V) ==
    \E bt :
        /\ Whole(file, V, bt)
        /\ NoEmptyChunk /\ phase = "recheck" => InWalk(V, bt)
        /\ NoEmptyChunk /\ phase = "rechecked" => seen = V /\ errs = 0
LeftPart ==
    /\ phase \in OpenPhases \cup Ongoing => index = <<>>
    /\ phase \in OpenPhases \cup {"restore"} => Record(avi)
    /\ MoviOpen =>
        /\ phase \in OpenPhases => LeftAs(Finished)
        /\ phase = "restore" => RestoredAs(Finished)
        /\ phase \in WholePhases => MendedAs(Append(Finished, Idx1))

(* The phases a check goes through.                                         *)
LEMMA WalkPhases ==
    ASSUME WalkStep
    PROVE  \/ phase' \in {"check", "checked", "astray"}
           \/ phase = "salvage" /\ phase' \in {"salvage", "salvaged"}
           \/ phase = "recheck" /\ phase' \in {"recheck", "rechecked"}
<1>1. phase' = phase \/ phase' = Ended[phase] \/ phase' = "astray"
  BY Zenon DEF WalkStep, avi_check, avi_process_chunk, SubList, ListEnds, avi_process_list
<1>2. phase \in DOMAIN Ended BY WalkStays
<1>3. /\ DOMAIN Ended = {"check", "salvage", "recheck"} /\ Ended["check"] = "checked"
      /\ Ended["salvage"] = "salvaged" /\ Ended["recheck"] = "rechecked"
  BY DEF Ended
<1>4. phase = "check" \/ phase = "salvage" \/ phase = "recheck" BY <1>2, <1>3
<1> QED BY <1>1, <1>3, <1>4

(* Phases with nothing to keep.                                             *)
LEMMA PhasesOver ==
    ASSUME NEW s, s \in {"check", "checked", "astray", "damaged"}
    PROVE  s \notin OpenPhases /\ s \notin Ongoing /\ s # "restore" /\ s \notin WholePhases
BY DEF OpenPhases, Ongoing, WholePhases
(* In them it holds.                                                        *)
LEMMA LeftOver ==
    ASSUME phase' \in {"check", "checked", "astray", "damaged"}
    PROVE  LeftPart'
<1>1. /\ phase' \notin OpenPhases /\ phase' \notin Ongoing /\ phase' # "restore" /\ phase' \notin WholePhases
  BY PhasesOver, Zenon
<1> QED BY <1>1, Zenon DEF LeftPart

(* The other phases are different.                                          *)
LEMMA PhasesDiffer ==
    /\ \A s \in OpenPhases : s # "restore" /\ s \notin WholePhases
    /\ \A s \in WholePhases : s # "restore" /\ s \notin OpenPhases /\ s \notin Ongoing
    /\ "restore" \notin OpenPhases /\ "restore" \notin WholePhases /\ "restore" \notin Ongoing
    /\ \A s \in Ongoing : s # "restore" /\ s \notin OpenPhases /\ s \notin WholePhases
    /\ {"left", "salvage", "salvaged"} \subseteq OpenPhases
    /\ {"restored", "recheck", "rechecked"} \subseteq WholePhases
BY DEF OpenPhases, WholePhases, Ongoing

(* A step of the check of such a file, before its restoration.              *)
LEMMA LeftWalk ==
    ASSUME LeftPart, WalkStep, index' = index
    PROVE  LeftPart'
<1>1. UNCHANGED <<avi, wrote, avi_size>> BY WalkStays, Zenon
<1>2. file' = file /\ Finished' = Finished /\ (MoviOpen' <=> MoviOpen) /\ (NoEmptyChunk' <=> NoEmptyChunk)
  BY <1>1, Zenon DEF file, Finished, MoviOpen, NoEmptyChunk
<1>3. CASE phase' \in {"check", "checked", "astray"} BY <1>3, LeftOver, Zenon
<1>4. CASE phase = "salvage" /\ phase' \in {"salvage", "salvaged"}
  <2>1. phase \in OpenPhases /\ phase' \in OpenPhases /\ phase' # "astray" /\ phase' # "left" /\ phase # "left"
    BY <1>4 DEF OpenPhases
  <2>2. phase' # "restore" /\ phase' \notin WholePhases BY <2>1, PhasesDiffer, Zenon
  <2>3. index' = <<>> /\ Record(avi') BY <1>1, <2>1, Zenon DEF LeftPart
  <2>4. ASSUME MoviOpen PROVE LeftAs(Finished)'
    <3>1. PICK W : W = Finished OBVIOUS
    <3>2. LeftAs(W) BY <2>1, <2>4, <3>1, Zenon DEF LeftPart
    <3>3. PICK at, m, e, h :
             /\ Abandoned(h, W, at, m, e) /\ FileRecord(file) /\ file.hdr = HeadersTo(h, e) /\ file.end = e
             /\ InSalvage(at[m])
      BY <2>1, <3>2, Zenon DEF LeftAs
    <3>4. InSalvage(at[m])' BY <2>1, <3>3, SalvageStep, Zenon
    <3>5. LeftAs(W)' BY <1>2, <3>3, <3>4, Zenon DEF LeftAs
    <3> QED BY <1>2, <3>1, <3>5, Zenon
  <2> QED BY <1>2, <2>2, <2>3, <2>4, Zenon DEF LeftPart
<1>5. CASE phase = "recheck" /\ phase' \in {"recheck", "rechecked"}
  <2>1. phase \in WholePhases /\ phase' \in WholePhases BY <1>5 DEF WholePhases
  <2>2. phase' # "restore" /\ phase' \notin OpenPhases /\ phase' \notin Ongoing BY <2>1, PhasesDiffer, Zenon
  <2>3. "recheck" # "rechecked" OBVIOUS
  <2>4. ASSUME MoviOpen PROVE MendedAs(Append(Finished, Idx1))'
    <3>1. PICK V : V = Append(Finished, Idx1) OBVIOUS
    <3>2. MendedAs(V) BY <2>1, <2>4, <3>1, Zenon DEF LeftPart
    <3>3. PICK bt : Whole(file, V, bt) /\ (NoEmptyChunk => InWalk(V, bt)) BY <1>5, <3>2, Zenon DEF MendedAs
    <3>4. ASSUME NoEmptyChunk
          PROVE  /\ phase' = "recheck" => InWalk(V, bt)'
                 /\ phase' = "rechecked" => seen' = V /\ errs' = 0
      <4>1. /\ phase' = phase => InWalk(V, bt)'
            /\ phase' # phase => phase' = Ended[phase] /\ seen' = V /\ errs' = 0
        BY <3>3, <3>4, WalkSteps, Zenon
      <4> QED BY <1>5, <2>3, <4>1, Zenon
    <3>5. MendedAs(V)' BY <1>2, <3>3, <3>4, Zenon DEF MendedAs
    <3> QED BY <1>2, <3>1, <3>5, Zenon
  <2> QED BY <1>2, <2>2, <2>4, Zenon DEF LeftPart
<1> QED BY <1>3, <1>4, <1>5, WalkPhases, Zenon

(* The check of a file that was left open is begun.                         *)
LEMMA LeftStarts ==
    ASSUME LeftPart, StartCheck("left", "salvage")
    PROVE  LeftPart'
<1>1. /\ phase = "left" /\ phase' = "salvage" /\ stack' = <<>> /\ fdpos' = 0 /\ req_lst_off' = 0
      /\ avi_size' = file.end /\ UNCHANGED <<avi, wrote, index>>
  BY Zenon DEF StartCheck
<1>2. file' = file /\ Finished' = Finished /\ (MoviOpen' <=> MoviOpen)
  BY <1>1, Zenon DEF file, Finished, MoviOpen
<1>3. phase \in OpenPhases /\ phase' \in OpenPhases /\ phase' # "left" BY <1>1 DEF OpenPhases
<1>4. phase' # "restore" /\ phase' \notin WholePhases BY <1>3, PhasesDiffer, Zenon
<1>5. index' = <<>> /\ Record(avi') BY <1>1, <1>3, Zenon DEF LeftPart
<1>6. ASSUME MoviOpen PROVE LeftAs(Finished)'
  <2>1. PICK W : W = Finished OBVIOUS
  <2>2. LeftAs(W) BY <1>3, <1>6, <2>1, Zenon DEF LeftPart
  <2>3. PICK at, m, e, h : Abandoned(h, W, at, m, e) /\ FileRecord(file) /\ file.hdr = HeadersTo(h, e) /\ file.end = e
    BY <2>2, Zenon DEF LeftAs
  <2>4. InSalvage(at[m])'
    <3>1. Listed(file.hdr, at[m])
      <4>1. Listed(HeadersTo(h, e), at[m]) BY <2>3, LeftListed
      <4> QED BY <2>3, <4>1, Zenon
    <3>2. Astride(stack', fdpos')
      <4>1. PICK st : st = stack' OBVIOUS
      <4>2. st = <<>> /\ 0 \in Nat BY <1>1, <4>1
      <4>3. Astride(st, 0) BY <4>2, AstrideNone
      <4> QED BY <1>1, <4>1, <4>3, Zenon
    <3> QED BY <1>1, <1>2, <3>1, <3>2, Zenon DEF InSalvage
  <2>5. LeftAs(W)' BY <1>2, <2>3, <2>4, Zenon DEF LeftAs
  <2> QED BY <1>2, <2>1, <2>5, Zenon
<1> QED BY <1>2, <1>4, <1>5, <1>6, Zenon DEF LeftPart

(* With no empty chunk such a file is sound.                                *)
LEMMA WholeSound ==
    ASSUME NEW V, NEW bt, Whole(file, V, bt), NoEmptyChunk
    PROVE  Sound(file, V, bt)
<1>1. PICK f : f = file OBVIOUS
<1>2. /\ V # <<>> /\ Nested(V) /\ Placed(f.hdr, V, bt) /\ Sized(f.hdr, V, bt, 0) /\ Present(f, V, bt)
      /\ f.end \in Nat /\ f.end = bt[Len(V) + 1]
  BY <1>1, Zenon DEF Whole
<1>3. f.end <= bt[Len(V) + 1] /\ f.end + 1 >= bt[Len(V) + 1] BY <1>2
<1>4. \A p \in DOMAIN f.hdr : f.hdr[p].type = "" => f.hdr[p].size > 0 BY <1>1, Zenon DEF NoEmptyChunk
<1>5. Sound(f, V, bt) BY <1>2, <1>3, <1>4, Zenon DEF Sound
<1> QED BY <1>1, <1>5, Zenon

(* And that of a file that was restored.                                    *)
LEMMA WholeStarts ==
    ASSUME LeftPart, StartCheck("restored", "recheck")
    PROVE  LeftPart'
<1>1. phase = "restored" /\ phase' = "recheck" /\ UNCHANGED <<avi, wrote>> BY Zenon DEF StartCheck
<1>2. file' = file /\ Finished' = Finished /\ (MoviOpen' <=> MoviOpen) /\ (NoEmptyChunk' <=> NoEmptyChunk)
  BY <1>1, Zenon DEF file, Finished, MoviOpen, NoEmptyChunk
<1>3. phase \in WholePhases /\ phase' \in WholePhases /\ phase' # "rechecked" BY <1>1 DEF WholePhases
<1>4. phase' # "restore" /\ phase' \notin OpenPhases /\ phase' \notin Ongoing BY <1>3, PhasesDiffer, Zenon
<1>5. ASSUME MoviOpen PROVE MendedAs(Append(Finished, Idx1))'
  <2>1. PICK V : V = Append(Finished, Idx1) OBVIOUS
  <2>2. MendedAs(V) BY <1>3, <1>5, <2>1, Zenon DEF LeftPart
  <2>3. PICK bt : Whole(file, V, bt) BY <2>2, Zenon DEF MendedAs
  <2>4. ASSUME NoEmptyChunk PROVE InWalk(V, bt)'
    <3>1. Sound(file, V, bt) BY <2>3, <2>4, WholeSound, Zenon
    <3>2. Sound(file', V, bt) BY <1>2, <3>1, Zenon
    <3> QED BY <3>2, WalkBegins, Zenon
  <2>5. MendedAs(V)' BY <1>2, <1>3, <2>3, <2>4, Zenon DEF MendedAs
  <2> QED BY <1>2, <2>1, <2>5, Zenon
<1> QED BY <1>2, <1>4, <1>5, Zenon DEF LeftPart

(* A handle whose file only has changed.                                    *)
LEMMA FileOnly ==
    ASSUME Record(avi), NEW f, avi' = [avi EXCEPT !.file = f], wrote' = wrote
    PROVE  Record(avi') /\ (MoviOpen' <=> MoviOpen) /\ Finished' = Finished
<1>1. PICK a, b : a = avi /\ b = avi' OBVIOUS
<1>2. Record(a) /\ b = [a EXCEPT !.file = f] BY <1>1, Zenon
<1>3. b.idx = a.idx /\ b.l = a.l /\ b.partial = a.partial /\ Record(b) BY <1>2 DEF Record
<1>4. MoviOpen' <=> MoviOpen BY <1>1, <1>3, Zenon DEF MoviOpen
<1>5. Finished' = Finished BY <1>1, <1>3, Zenon DEF Finished
<1> QED BY <1>1, <1>3, <1>4, <1>5, Zenon

(* The restoration.                                                         *)
LEMMA LeftRestores ==
    ASSUME LeftPart, RestoreBegins \/ RestoreChunk \/ RestoreEnds
    PROVE  LeftPart'
<1>0. "salvaged" \in OpenPhases BY DEF OpenPhases
<1>1. CASE RestoreBegins
  <2>1. phase = "salvaged" /\ wrote' = wrote BY <1>1, Zenon DEF RestoreBegins
  <2>2. phase \in OpenPhases /\ phase # "left" BY <1>0, <2>1
  <2>3. Record(avi) /\ index = <<>> BY <2>2, Zenon DEF LeftPart
  <2>4. CASE phase' = "damaged" BY <2>4, LeftOver, Zenon
  <2>5. CASE phase' # "damaged"
    <3>1. PICK f : avi' = [avi EXCEPT !.file = f] /\ phase' = "restore"
      BY <1>1, <2>5, Zenon DEF RestoreBegins
    <3>2. Record(avi') /\ (MoviOpen' <=> MoviOpen) /\ Finished' = Finished BY <2>1, <2>3, <3>1, FileOnly, Zenon
    <3>3. ASSUME MoviOpen PROVE RestoredAs(Finished)'
      <4>1. PICK W : W = Finished OBVIOUS
      <4>2. LeftAs(W) BY <2>2, <3>3, <4>1, Zenon DEF LeftPart
      <4>3. PICK at, m, e, h :
               /\ Abandoned(h, W, at, m, e) /\ FileRecord(file) /\ file.hdr = HeadersTo(h, e) /\ file.end = e
               /\ InSalvage(at[m])
        BY <2>2, <4>2, Zenon DEF LeftAs
      <4>4. avi_size = e /\ req_lst_off \in {0, at[m]} BY <4>3, Zenon DEF InSalvage
      <4>5. InRestore(W, at, m, e, h, m)' BY <1>1, <2>3, <2>5, <4>3, <4>4, BeginsRestore, Zenon
      <4>6. RestoredAs(W)' BY <4>5, Zenon DEF RestoredAs
      <4> QED BY <3>2, <4>1, <4>6, Zenon
    <3>4. phase' \notin OpenPhases /\ phase' \notin Ongoing /\ phase' \notin WholePhases
      BY <3>1, PhasesDiffer, Zenon
    <3> QED BY <3>2, <3>3, <3>4, Zenon DEF LeftPart
  <2> QED BY <2>4, <2>5
<1>2. CASE RestoreChunk
  <2>1. phase = "restore" /\ wrote' = wrote BY <1>2, Zenon DEF RestoreChunk
  <2>2. Record(avi) BY <2>1, Zenon DEF LeftPart
  <2>3. CASE phase' \in {"astray", "damaged"} BY <2>3, LeftOver
  <2>4. CASE phase' \notin {"astray", "damaged"}
    <3>1. PICK f : avi' = [avi EXCEPT !.file = f] /\ phase' = phase
      BY <1>2, <2>4, Zenon DEF RestoreChunk
    <3>2. Record(avi') /\ (MoviOpen' <=> MoviOpen) /\ Finished' = Finished BY <2>1, <2>2, <3>1, FileOnly, Zenon
    <3>3. ASSUME MoviOpen PROVE RestoredAs(Finished)'
      <4>1. PICK W : W = Finished OBVIOUS
      <4>2. RestoredAs(W) BY <2>1, <3>3, <4>1, Zenon DEF LeftPart
      <4>3. PICK at, m, e, h, k : InRestore(W, at, m, e, h, k) BY <4>2, Zenon DEF RestoredAs
      <4>4. InRestore(W, at, m, e, h, k + 1)' BY <1>2, <2>2, <2>4, <4>3, ChunkRestored, Zenon
      <4>5. RestoredAs(W)' BY <4>4, Zenon DEF RestoredAs
      <4> QED BY <3>2, <4>1, <4>5, Zenon
    <3>4. phase' \notin OpenPhases /\ phase' \notin Ongoing /\ phase' \notin WholePhases
      BY <2>1, <3>1, PhasesDiffer, Zenon
    <3> QED BY <3>2, <3>3, <3>4, Zenon DEF LeftPart
  <2> QED BY <2>3, <2>4
<1>3. CASE RestoreEnds
  <2>1. phase = "restore" /\ wrote' = wrote /\ phase' = "restored" BY <1>3, Zenon DEF RestoreEnds
  <2>2. Record(avi) BY <2>1, Zenon DEF LeftPart
  <2>3. PICK f : avi' = [avi EXCEPT !.file = f] BY <1>3, Zenon DEF RestoreEnds
  <2>4. (MoviOpen' <=> MoviOpen) /\ Finished' = Finished BY <2>1, <2>2, <2>3, FileOnly, Zenon
  <2>5. phase' \in WholePhases /\ phase' # "recheck" /\ phase' # "rechecked" BY <2>1 DEF WholePhases
  <2>6. phase' # "restore" /\ phase' \notin OpenPhases /\ phase' \notin Ongoing BY <2>5, PhasesDiffer, Zenon
  <2>7. ASSUME MoviOpen PROVE MendedAs(Append(Finished, Idx1))'
    <3>1. PICK W : W = Finished OBVIOUS
    <3>2. RestoredAs(W) BY <2>1, <2>7, <3>1, Zenon DEF LeftPart
    <3>3. PICK at, m, e, h, k : InRestore(W, at, m, e, h, k) BY <3>2, Zenon DEF RestoredAs
    <3>4. PICK bt : Whole(file', Append(W, Idx1), bt) BY <1>3, <2>2, <3>3, EndRestored, Zenon
    <3>5. MendedAs(Append(W, Idx1))' BY <2>5, <3>4, Zenon DEF MendedAs
    <3> QED BY <2>4, <3>1, <3>5, Zenon
  <2> QED BY <2>4, <2>6, <2>7, Zenon DEF LeftPart
<1> QED BY <1>1, <1>2, <1>3

(* The elements that were finished.                                         *)
LEMMA FinishedIs ==
    ASSUME NEW W, NEW at, Opened(avi, W, at), wrote = Said(avi, W)
    PROVE  Finished = W /\ Record(avi) /\ FileRecord(avi.file)
<1>1. PICK a, w : a = avi /\ w = wrote OBVIOUS
<1>2. IsHandle(a) /\ W \in Seq(Elements) BY <1>1, Zenon DEF Opened, Core, Nested
<1>3. Record(a) /\ FileRecord(a.file) BY <1>2, Zenon DEF IsHandle, Record, FileRecord
<1>4. Finished = W
  <2>1. CASE a.partial
    <3>1. PICK x : x = [level |-> a.idx, name |-> "00dc"] OBVIOUS
    <3>2. w = Append(W, x) BY <1>1, <2>1, <3>1, Zenon DEF Said
    <3>3. Front(w) = W BY <1>2, <3>2 DEF Front
    <3> QED BY <1>1, <2>1, <3>3, Zenon DEF Finished
  <2>2. CASE ~a.partial
    <3>1. w = W BY <1>1, <2>2, Zenon DEF Said
    <3> QED BY <1>1, <2>2, <3>1, Zenon DEF Finished
  <2> QED BY <2>1, <2>2
<1> QED BY <1>1, <1>3, <1>4, Zenon

(* A program ends between two calls.                                        *)
LEMMA LeftNow ==
    ASSUME Ready(avi, wrote), UNCHANGED <<avi, wrote>>, phase' = "left", index' = <<>>
    PROVE  LeftPart'
<1>1. PICK W, at : Opened(avi, W, at) /\ wrote = Said(avi, W) BY Zenon DEF Ready
<1>2. Finished = W /\ Record(avi) /\ FileRecord(file) BY <1>1, FinishedIs, Zenon DEF file
<1>3. file' = file /\ Finished' = Finished /\ (MoviOpen' <=> MoviOpen) BY Zenon DEF file, Finished, MoviOpen
<1>4. phase' \in OpenPhases BY DEF OpenPhases
<1>5. phase' # "restore" /\ phase' \notin WholePhases BY <1>4, PhasesDiffer, Zenon
<1>6. ASSUME MoviOpen PROVE LeftAs(W)'
  <2>1. PICK a, h, e : a = avi /\ h = a.file.hdr /\ e = a.file.end OBVIOUS
  <2>2. Opened(a, W, at) /\ InMoviList(a) BY <1>1, <1>6, <2>1, Zenon DEF MoviOpen, InMoviList
  <2>3. h = HeadersTo(h, e) /\ \E m : Abandoned(h, W, at, m, e) BY <2>1, <2>2, LeftWhole
  <2>4. file'.hdr = h /\ file'.end = e BY <1>3, <2>1, Zenon DEF file
  <2> QED BY <1>2, <1>3, <2>3, <2>4, Zenon DEF LeftAs
<1> QED BY <1>2, <1>3, <1>4, <1>5, <1>6, Zenon DEF LeftPart

(* A program ends in the middle of a chunk, or between two calls.           *)
LEMMA LeftCrash ==
    ASSUME Ready(avi, wrote), index = <<>>, Crash
    PROVE  LeftPart'
<1>1. phase' = "left" /\ wrote' = wrote /\ index' = <<>> BY Zenon DEF Crash
<1>2. CASE avi' = avi BY <1>1, <1>2, LeftNow, Zenon
<1>3. CASE /\ ~avi.partial /\ HeaderAt(LastHeader).name \notin {Riff, List}
           /\ \E e \in {LastHeader + 4, file.end - 1} : avi' = CutAt(e)
  <2>1. PICK e \in {LastHeader + 4, file.end - 1} : avi' = CutAt(e) BY <1>3
  <2>2. PICK W, at : Opened(avi, W, at) /\ wrote = Said(avi, W) BY Zenon DEF Ready
  <2>3. Finished = W /\ Record(avi) BY <2>2, FinishedIs, Zenon
  <2>4. PICK f : avi' = [avi EXCEPT !.file = f] BY <2>1, Zenon DEF CutAt
  <2>5. Record(avi') /\ (MoviOpen' <=> MoviOpen) /\ Finished' = Finished BY <1>1, <2>3, <2>4, FileOnly, Zenon
  <2>6. phase' \in OpenPhases BY <1>1 DEF OpenPhases
  <2>7. phase' # "restore" /\ phase' \notin WholePhases BY <2>6, PhasesDiffer, Zenon
  <2>8. ASSUME MoviOpen PROVE LeftAs(W)'
    <3>1. PICK a, h, c : a = avi /\ h = a.file.hdr /\ c = CutAt(e) OBVIOUS
    <3>2. Opened(a, W, at) /\ InMoviList(a) BY <2>2, <2>8, <3>1, Zenon DEF MoviOpen, InMoviList
    <3>3. /\ c.file.end = e /\ c.file.hdr = HeadersTo(h, e) /\ OnlyFile(a, c)
          /\ \E m : Abandoned(h, W, at, m, e)
      <4>1. HeaderAt(LastHeader).name \notin {Riff, List} BY <1>3
      <4>2. e \in {LastHeader + 4, file.end - 1} BY <2>1
      <4>3. c.file.end = e BY <3>1, <3>2, <4>1, <4>2, LeftCut
      <4>4. c.file.hdr = HeadersTo(h, e) BY <3>1, <3>2, <4>1, <4>2, LeftCut
      <4>5. OnlyFile(a, c) BY <3>1, <3>2, <4>1, <4>2, LeftCut
      <4>6. \E m : Abandoned(h, W, at, m, e) BY <3>1, <3>2, <4>1, <4>2, LeftCut
      <4> QED BY <4>3, <4>4, <4>5, <4>6, Zenon
    <3>4. FileRecord(c.file) BY <3>3, Zenon DEF OnlyFile, FileRecord
    <3>5. file' = c.file BY <2>1, <3>1, Zenon DEF file
    <3> QED BY <1>1, <3>3, <3>4, <3>5, Zenon DEF LeftAs
  <2> QED BY <1>1, <2>3, <2>5, <2>6, <2>7, <2>8, Zenon DEF LeftPart
<1> QED BY <1>2, <1>3, Zenon DEF Crash

(* While a file is written there is nothing to keep.                        *)
LEMMA LeftWrites ==
    ASSUME phase' \in Ongoing, index' = <<>>
    PROVE  LeftPart'
<1>1. phase' \notin OpenPhases /\ phase' # "restore" /\ phase' \notin WholePhases BY PhasesDiffer, Zenon
<1> QED BY <1>1, Zenon DEF LeftPart

(* The parser's steps.                                                      *)
LEMMA LeftParse ==
    ASSUME LeftPart, Parse
    PROVE  LeftPart'
<1>1. CASE WalkStep
  <2>1. index' = index BY <1>1, Zenon DEF WalkStep, avi_check, avi_process_chunk, SubList, ListEnds
  <2> QED BY <1>1, <2>1, LeftWalk, Zenon
<1>2. CASE StartCheck("closed", "check")
  <2>1. phase' = "check" BY <1>2, Zenon DEF StartCheck
  <2> QED BY <2>1, LeftOver
<1>3. CASE StartCheck("left", "salvage") BY <1>3, LeftStarts, Zenon
<1>4. CASE StartCheck("restored", "recheck") BY <1>4, WholeStarts, Zenon
<1>5. CASE RestoreBegins \/ RestoreChunk \/ RestoreEnds BY <1>5, LeftRestores, Zenon
<1> QED BY <1>1, <1>2, <1>3, <1>4, <1>5, Zenon DEF Parse, ParseNext, WalkStep

(* The program that uses the library.                                       *)
LEMMA LeftUse ==
    ASSUME phase \in Ongoing => FilePart(avi, wrote, entries), LeftPart, UseNext
    PROVE  LeftPart'
<1>0. "write" \in Ongoing /\ "closed" \in Ongoing BY DEF Ongoing
<1>1. CASE Parse BY <1>1, LeftParse, Zenon
<1>2. ASSUME phase = "write" PROVE Ready(avi, wrote) /\ index = <<>>
  BY <1>0, <1>2, Zenon DEF FilePart, LeftPart
<1>3. CASE Close
  <2>1. phase = "write" /\ phase' = "closed" /\ index' = index BY <1>3, Zenon DEF Close
  <2> QED BY <1>0, <1>2, <2>1, LeftWrites, Zenon
<1>4. CASE Crash
  <2>1. phase = "write" BY <1>4, Zenon DEF Crash
  <2> QED BY <1>2, <1>4, <2>1, LeftCrash, Zenon
<1>5. CASE ~Parse /\ ~Close /\ ~Crash
  <2>1. Call
    BY <1>5, Zenon DEF UseNext, OpenList, StreamHeader, CloseList, Create, AppendChunk,
       AppendData, AppendFake, Write2Fields, avif_write_audio, AlignNext, In, InMovi
  <2>2. phase = "write" /\ phase' = "write" /\ index' = index BY <2>1, Zenon DEF Call, parseVars
  <2> QED BY <1>0, <1>2, <2>2, LeftWrites, Zenon
<1> QED BY <1>1, <1>3, <1>4, <1>5

(* Steps that leave the file and the parser alone.                          *)
LEMMA LeftStays ==
    ASSUME LeftPart, UNCHANGED <<avi, wrote>>, UNCHANGED parseVars
    PROVE  LeftPart'
<1>1. /\ avi' = avi /\ wrote' = wrote /\ phase' = phase /\ stack' = stack
      /\ fdpos' = fdpos /\ errs' = errs /\ seen' = seen
      /\ req_lst_off' = req_lst_off /\ avi_size' = avi_size /\ restore' = restore /\ index' = index
  BY Zenon DEF parseVars
<1>2. PICK a, x, s, d, W : a = avi /\ x = index /\ s = phase /\ d = file /\ W = Finished OBVIOUS
<1>3. /\ avi' = a /\ index' = x /\ phase' = s /\ file' = d /\ Finished' = W /\ (MoviOpen' <=> MoviOpen)
      /\ (NoEmptyChunk' <=> NoEmptyChunk)
  BY <1>1, <1>2, Zenon DEF file, Finished, MoviOpen, NoEmptyChunk
<1>4. \A q : InSalvage(q) => InSalvage(q)' BY <1>1, Zenon DEF InSalvage, file
<1>5. \A V, bt : InWalk(V, bt) => InWalk(V, bt)' BY <1>1, Zenon DEF InWalk, file
<1>6. ASSUME NEW V, NEW at, NEW m, NEW e, NEW h, NEW k, InRestore(V, at, m, e, h, k)
      PROVE  InRestore(V, at, m, e, h, k)'
  <2>1. Restored(V, at, m, e, h, k) BY <1>6, Zenon DEF InRestore
  <2>2. Restored(V, at, m, e, h, k)'
    <3>1. /\ Abandoned(h, V, at, m, e) /\ k \in m .. Len(V) /\ at[k + 1] <= e /\ FileRecord(d)
          /\ d.hdr = WithSize(HeadersTo(h, e), at[m], at[k + 1] - at[m] - ChunkHead) /\ Longest(d.end, e, Len(x))
      BY <1>2, <2>1, Zenon DEF Restored
    <3> QED BY <1>3, <3>1, Zenon DEF Restored
  <2>3. PICK r : r = restore OBVIOUS
  <2>4. /\ req_lst_off = at[m] /\ avi_size = e /\ r.pos = at[k + 1]
        /\ r = [pos |-> r.pos, chunk_offs |-> r.chunk_offs, idx |-> r.idx]
        /\ r.chunk_offs \in Nat /\ r.idx \in Seq(Entries) /\ x \in Seq(Entries)
    BY <1>2, <1>6, <2>3, Zenon DEF InRestore
  <2>5. restore' = r /\ req_lst_off' = at[m] /\ avi_size' = e BY <1>1, <2>3, <2>4
  <2> QED BY <1>3, <2>2, <2>4, <2>5, Zenon DEF InRestore
<1>7. ASSUME LeftAs(W) PROVE LeftAs(W)'
  <2>1. PICK at, m, e, h :
          /\ Abandoned(h, W, at, m, e) /\ FileRecord(file) /\ file.hdr = HeadersTo(h, e) /\ file.end = e
          /\ phase # "left" => InSalvage(at[m])
    BY <1>7, Zenon DEF LeftAs
  <2>2. phase' # "left" => InSalvage(at[m])' BY <1>1, <1>4, <2>1, Zenon
  <2>3. FileRecord(file') /\ file'.hdr = HeadersTo(h, e) /\ file'.end = e BY <1>2, <1>3, <2>1, Zenon
  <2> QED BY <2>1, <2>2, <2>3, Zenon DEF LeftAs
<1>8. ASSUME RestoredAs(W) PROVE RestoredAs(W)' BY <1>6, <1>8, Zenon DEF RestoredAs
<1>9. ASSUME MendedAs(Append(W, Idx1)) PROVE MendedAs(Append(W, Idx1))'
  <2>1. PICK V : V = Append(W, Idx1) OBVIOUS
  <2>2. MendedAs(V) BY <1>9, <2>1
  <2>3. PICK bt : /\ Whole(file, V, bt)
                  /\ NoEmptyChunk /\ phase = "recheck" => InWalk(V, bt)
                  /\ NoEmptyChunk /\ phase = "rechecked" => seen = V /\ errs = 0
    BY <2>2, Zenon DEF MendedAs
  <2>4. MendedAs(V)' BY <1>1, <1>2, <1>3, <1>5, <2>3, Zenon DEF MendedAs
  <2> QED BY <2>1, <2>4, Zenon
<1>10. Finished' = Finished BY <1>2, <1>3
<1> QED BY <1>1, <1>2, <1>3, <1>7, <1>8, <1>9, <1>10, Zenon DEF LeftPart

(* write_video closes the file at the end of a recording.                   *)
LEMMA LeftVideo ==
    ASSUME FileInv, ReadInv, LeftPart, write_video, phase \in Ongoing, index' = index
    PROVE  LeftPart'
<1>1. phase' \in Ongoing BY ClosedVideo
<1>2. index = <<>> BY Zenon DEF LeftPart
<1> QED BY <1>1, <1>2, LeftWrites

(* The program ends while a video is recorded.                              *)
LEMMA LeftExit ==
    ASSUME FileInv, ReadInv, LeftPart, Exit
    PROVE  LeftPart'
<1>1. UNCHANGED <<avi, wrote>> /\ index' = index /\ Alive /\ phase' = IF FileOpen THEN "left" ELSE phase
  BY Zenon DEF Exit
<1>2. phase \in Ongoing BY <1>1, Zenon DEF Alive, ReadInv
<1>3. index' = <<>> BY <1>1, <1>2, Zenon DEF LeftPart
<1>4. CASE FileOpen
  <2>1. phase' = "left" BY <1>1, <1>4, Zenon
  <2>2. Ready(avi, wrote) BY <1>2, Zenon DEF FileInv, FilePart
  <2> QED BY <1>1, <1>3, <2>1, <2>2, LeftNow, Zenon
<1>5. CASE ~FileOpen
  <2>1. phase' = phase BY <1>1, <1>5, Zenon
  <2>2. phase' \in Ongoing
    <3>1. PICK s \in Ongoing : s = phase BY <1>2
    <3> QED BY <2>1, <3>1, Zenon DEF Ongoing
  <2> QED BY <1>3, <2>2, LeftWrites, Zenon
<1> QED BY <1>4, <1>5

(* At first no file is left.                                                *)
LEMMA SalvageInit == ViewerInit => LeftPart
<1> SUFFICES ASSUME ViewerInit PROVE LeftPart OBVIOUS
<1>1. phase = "write" /\ index = <<>> BY Zenon DEF ViewerInit, UseInit, ParseInit
<1>2. "write" \notin OpenPhases /\ "write" \notin WholePhases /\ "write" # "restore" BY DEF OpenPhases, WholePhases
<1> QED BY <1>1, <1>2, Zenon DEF LeftPart

(* No step breaks it.                                                       *)
LEMMA SalvageNext == FileInv /\ ReadInv /\ LeftPart /\ [ViewerNext]_viewerVars => LeftPart'
<1> SUFFICES ASSUME FileInv, ReadInv, LeftPart, [ViewerNext]_viewerVars PROVE LeftPart'
  OBVIOUS
<1>1. CASE UNCHANGED viewerVars
  <2>1. UNCHANGED <<avi, wrote>> /\ UNCHANGED parseVars
    BY <1>1, Zenon DEF viewerVars, dataVars, useVars, aviVars, parseVars
  <2> QED BY <2>1, LeftStays, Zenon
<1>2. CASE \/ Wake \/ ScriptReads \/ ScriptMakes \/ ScriptSends \/ ScriptWrites \/ cam4_dump_raw_frame
           \/ Unpack \/ write_raw_video \/ StartPicture \/ MakePicture
  <2>1. UNCHANGED <<avi, wrote>> /\ UNCHANGED parseVars
    BY <1>2, Zenon DEF Wake, ScriptReads, ScriptMakes, ScriptSends, ScriptWrites, cam4_dump_raw_frame,
       Unpack, write_raw_video, StartPicture, MakePicture, dataVars, useVars, aviVars, parseVars
  <2> QED BY <2>1, LeftStays, Zenon
<1>3. CASE EndOfFrame
  <2>1. pc \notin {"gone", "library"} /\ write_video /\ index' = index BY <1>3, Zenon DEF EndOfFrame
  <2>2. phase \in Ongoing BY <2>1, Zenon DEF ReadInv
  <2> QED BY <2>1, <2>2, LeftVideo, Zenon
<1>4. CASE WriteCommand \/ TakeCommand \/ CommandMakes \/ CommandSends \/ CommandStores \/ parse_command \/ MoveWindow
  <2>1. UNCHANGED <<avi, wrote>> /\ UNCHANGED parseVars
    BY <1>4, Zenon DEF WriteCommand, TakeCommand, CommandMakes, CommandSends, CommandStores, parse_command,
       MoveWindow, dataVars, useVars, aviVars, parseVars
  <2> QED BY <2>1, LeftStays, Zenon
<1>5. CASE Exit BY <1>5, LeftExit, Zenon
<1>6. CASE LaterParse
  <2>1. Parse BY <1>6, Zenon DEF LaterParse
  <2> QED BY <2>1, LeftParse, Zenon
<1>7. CASE Library
  <2>1. UseNext BY <1>7, Zenon DEF Library
  <2>2. phase \in Ongoing => FilePart(avi, wrote, entries) BY Zenon DEF FileInv
  <2> QED BY <2>1, <2>2, LeftUse, Zenon
<1> QED
  BY <1>1, <1>2, <1>3, <1>4, <1>5, <1>6, <1>7, Zenon DEF ViewerNext, FrameThread, CommandThread

(* Then a file that was restored has been read as it was left.              *)
LEMMA SalvagedRight == LeftPart => Salvaged
<1> SUFFICES ASSUME LeftPart, phase = "rechecked", MoviOpen, NoEmptyChunk
             PROVE  /\ errs = 0 /\ avi_simple_check
                    /\ seen = Append(IF avi.partial THEN Front(wrote) ELSE wrote, [level |-> 1, name |-> "idx1"])
  BY Zenon DEF Salvaged
<1>1. PICK V : V = Append(Finished, Idx1) OBVIOUS
<1>2. MendedAs(V)
  <2>1. phase \in WholePhases BY DEF WholePhases
  <2> QED BY <1>1, <2>1, Zenon DEF LeftPart
<1>3. PICK bt : Whole(file, V, bt) /\ seen = V /\ errs = 0 BY <1>2, Zenon DEF MendedAs
<1>4. Sound(file, V, bt) BY <1>3, WholeSound
<1>5. file.end = bt[Len(V) + 1] BY <1>3, Zenon DEF Whole
<1>6. avi_simple_check BY <1>4, <1>5, SimpleIs, Zenon
<1>7. V = Append(IF avi.partial THEN Front(wrote) ELSE wrote, [level |-> 1, name |-> "idx1"])
  BY <1>1, Zenon DEF Finished, Idx1
<1> QED BY <1>3, <1>6, <1>7, Zenon

(* A file whose program ended in the movi list, between two calls or in the *)
(* middle of a chunk, and that avi_idx_restore takes, is whole afterwards:  *)
(* avi_check finds every chunk that was finished and the index behind them, *)
(* with no error.  Up to the restoration the walk has only to come upon the *)
(* movi list; from there the chunks that are whole are counted one by one,  *)
(* and the sizes the restoration writes end the three lists behind them.    *)
THEOREM LeftIsSalvaged == ViewerSpec => []Salvaged
<1>1. ViewerInit => FileInv /\ ReadInv /\ LeftPart BY FileInit, ReadInit, SalvageInit
<1>2. FileInv /\ ReadInv /\ LeftPart /\ [ViewerNext]_viewerVars => (FileInv /\ ReadInv /\ LeftPart)'
  BY FileNext, ReadNext, SalvageNext
<1>3. FileInv /\ ReadInv /\ LeftPart => Salvaged BY SalvagedRight
<1> QED BY <1>1, <1>2, <1>3, PTL DEF ViewerSpec
=============================================================================
