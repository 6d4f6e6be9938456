---------------------------- MODULE ClientProofs ----------------------------
(***************************************************************************)
(* Proofs about the programs that receive from a camera, for every set of   *)
(* announcements and packets and every size of the ring and the tables: a   *)
(* file holds the data of its own packet, the table of interfaces is what   *)
(* was announced, the command thread connects to the address announced, and *)
(* the receive ring is a queue until the user asks for a restart.           *)
(*                                                                          *)
(* The readers are recursive functions over the fields of a packet or an    *)
(* announcement: that each is the function its definition says, and what it *)
(* has after n fields, is shown with UpTo.                                  *)
(***************************************************************************)
EXTENDS Client, SequenceTheorems, WellFoundedInduction, TLAPS

----------------------------------------------------------------------------
(* Induction and sequences                                                  *)

(* What holds at 0 and at each number after one at which it holds.          *)
LEMMA UpTo ==
    ASSUME NEW S, NEW L \in Nat, 0 \in S, \A n \in 0 .. L : n < L /\ n \in S => n + 1 \in S
    PROVE  \A n \in 0 .. L : n \in S
<1> DEFINE T == {n \in 0 .. L : n \notin S}
<1>1. SUFFICES ASSUME T # {} PROVE FALSE
  OBVIOUS
<1>2. T \in SUBSET Nat OBVIOUS
<1> HIDE DEF T
<1>3. PICK n \in T : \A k \in T : ~(<<k, n>> \in OpToRel(<, Nat))
  BY <1>1, <1>2, WFMin, NatLessThanWellFounded, Zenon
<1>4. \A k \in T : ~(k < n) BY <1>2, <1>3, Zenon DEF OpToRel
<1>5. n \in 0 .. L /\ n # 0 BY DEF T
<1>6. n - 1 \in 0 .. L /\ n - 1 < n BY <1>5
<1>7. n - 1 \notin T BY <1>4, <1>6
<1>8. n - 1 \in S /\ n - 1 < L /\ n - 1 + 1 = n BY <1>5, <1>6, <1>7 DEF T
<1>9. n \in S BY <1>6, <1>8
<1> QED BY <1>9 DEF T

(* Lists: sequences of whatever is in them.                                 *)
LEMMA ListedIs ==
    ASSUME NEW s, Listed(s)
    PROVE  Len(s) \in Nat /\ DOMAIN s = 1 .. Len(s)
BY LenProperties DEF Listed

(* A sequence is a list.                                                    *)
LEMMA IsListed ==
    ASSUME NEW S, NEW s \in Seq(S)
    PROVE  Listed(s)
<1>1. Len(s) \in Nat /\ DOMAIN s = 1 .. Len(s) BY LenProperties
<1>2. PICK T : T = {s[n] : n \in DOMAIN s} OBVIOUS
<1>3. s \in [1 .. Len(s) -> T]
  <2>1. s = [n \in 1 .. Len(s) |-> s[n]] BY SeqDef
  <2>2. \A n \in 1 .. Len(s) : s[n] \in T BY <1>1, <1>2
  <2> QED BY <2>1, <2>2
<1>4. s \in Seq(T) BY <1>1, <1>3, SeqDef
<1> QED BY <1>2, <1>4 DEF Listed

(* A list with one more at its end.                                         *)
LEMMA OneMore ==
    ASSUME NEW s, NEW e, Listed(s)
    PROVE  /\ Listed(Append(s, e)) /\ Len(Append(s, e)) = Len(s) + 1
           /\ Append(s, e)[Len(s) + 1] = e
           /\ \A n \in 1 .. Len(s) : Append(s, e)[n] = s[n]
<1>1. PICK T : T = {s[n] : n \in DOMAIN s} \cup {e} OBVIOUS
<1>2. s \in Seq(T) /\ e \in T
  <2>1. s \in Seq({s[n] : n \in DOMAIN s}) BY DEF Listed
  <2> QED BY <1>1, <2>1
<1>3. PICK t : t = Append(s, e) OBVIOUS
<1>4. /\ t \in Seq(T) /\ Len(t) = Len(s) + 1 /\ t[Len(s) + 1] = e
      /\ \A n \in 1 .. Len(s) : t[n] = s[n]
  BY <1>2, <1>3, AppendProperties
<1> QED BY <1>3, <1>4, IsListed

(* The first m of a list and one more.                                      *)
LEMMA FirstAndOne ==
    ASSUME NEW s, NEW e, Listed(s), NEW m \in 0 .. Len(s)
    PROVE  /\ Listed(SubSeq(s, 1, m) \o <<e>>) /\ Len(SubSeq(s, 1, m) \o <<e>>) = m + 1
           /\ (SubSeq(s, 1, m) \o <<e>>)[m + 1] = e
           /\ \A n \in 1 .. m : (SubSeq(s, 1, m) \o <<e>>)[n] = s[n]
<1>1. PICK T : T = {s[n] : n \in DOMAIN s} \cup {e} OBVIOUS
<1>2. s \in Seq(T) /\ e \in T
  <2>1. s \in Seq({s[n] : n \in DOMAIN s}) BY DEF Listed
  <2> QED BY <1>1, <2>1
<1>3. PICK t : t = SubSeq(s, 1, m) OBVIOUS
<1>4. Len(s) \in Nat BY <1>2
<1>5. t \in Seq(T) /\ Len(t) = m /\ \A n \in 1 .. m : t[n] = s[n]
  BY <1>2, <1>3, <1>4
<1>6. SubSeq(s, 1, m) \o <<e>> = Append(t, e)
  BY <1>2, <1>3, <1>5
<1>7. PICK u : u = Append(t, e) OBVIOUS
<1>8. u \in Seq(T) /\ Len(u) = m + 1 /\ u[m + 1] = e /\ \A n \in 1 .. m : u[n] = t[n]
  BY <1>2, <1>5, <1>7, AppendProperties
<1> QED BY <1>5, <1>6, <1>7, <1>8, IsListed

----------------------------------------------------------------------------
(* The fields of a packet                                                   *)

ClipFields == {"size", "data", "flow"}

(* What has been read before a field, and after the last.                   *)
Reading(packet, c) ==
    c = [n \in 0 .. Len(packet) |-> IF n = 0 THEN Before(in) ELSE FrameField(c[n - 1], packet[n])]

(* There is such a function, and FrameFields is its last value.             *)
LEMMA FrameFieldsIs ==
    ASSUME NEW packet, Len(packet) \in Nat
    PROVE  \E c : Reading(packet, c) /\ FrameFields(packet) = c[Len(packet)]
<1>1. PICK L \in Nat : L = Len(packet) OBVIOUS
<1> DEFINE Upto(m, c) ==
      c = [n \in 0 .. m |-> IF n = 0 THEN Before(in) ELSE FrameField(c[n - 1], packet[n])]
    S == {m \in Nat : \E c : Upto(m, c)}
<1>2. 0 \in S
  <2>1. PICK c : c = [n \in 0 .. 0 |-> Before(in)] OBVIOUS
  <2>2. Upto(0, c) BY <2>1
  <2> QED BY <2>2
<1>3. ASSUME NEW m \in 0 .. L, m < L, m \in S PROVE m + 1 \in S
  <2>1. PICK c : Upto(m, c) BY <1>3
  <2>2. PICK d : d = [n \in 0 .. m + 1 |-> IF n <= m THEN c[n] ELSE FrameField(c[m], packet[m + 1])]
    OBVIOUS
  <2>3. \A n \in 0 .. m : c[n] = IF n = 0 THEN Before(in) ELSE FrameField(c[n - 1], packet[n])
    BY <2>1, Zenon
  <2>4. \A n \in 0 .. m : d[n] = c[n] BY <2>2
  <2>5. d[m + 1] = FrameField(c[m], packet[m + 1]) BY <2>2
  <2>6. ASSUME NEW n \in 0 .. m + 1
        PROVE  d[n] = IF n = 0 THEN Before(in) ELSE FrameField(d[n - 1], packet[n])
    <3>1. CASE n = 0 BY <2>3, <2>4, <3>1
    <3>2. CASE n \in 1 .. m
      <4>1. n \in 0 .. m /\ n - 1 \in 0 .. m /\ n # 0 BY <3>2
      <4>2. d[n] = FrameField(c[n - 1], packet[n]) BY <2>3, <2>4, <4>1
      <4> QED BY <2>4, <4>1, <4>2
    <3>3. CASE n = m + 1
      <4>1. n # 0 /\ n - 1 = m BY <3>3
      <4> QED BY <2>4, <2>5, <3>3, <4>1
    <3> QED BY <3>1, <3>2, <3>3
  <2>7. d = [n \in 0 .. m + 1 |-> IF n = 0 THEN Before(in) ELSE FrameField(d[n - 1], packet[n])]
    BY <2>2, <2>6
  <2> QED BY <2>7
<1> HIDE DEF S
<1>4. L \in S
  <2>1. \A n \in 0 .. L : n \in S BY <1>2, <1>3, UpTo
  <2> QED BY <2>1
<1>5. \E c : Reading(packet, c) BY <1>1, <1>4 DEF S, Reading
<1>6. PICK c : c = (CHOOSE d : Reading(packet, d)) OBVIOUS
<1>7. Reading(packet, c) BY <1>5, <1>6, Zenon
<1>8. FrameFields(packet) = (CHOOSE d : Reading(packet, d))[Len(packet)]
  BY Zenon DEF FrameFields, Reading
<1> QED BY <1>6, <1>7, <1>8

(* A data field sets data and size, an announcement of a size only the      *)
(* size, and the others neither.                                            *)
LEMMA FieldSets ==
    ASSUME NEW c, NEW d, NEW field, DOMAIN c = ClipFields, d = FrameField(c, field)
    PROVE  /\ DOMAIN d = ClipFields
           /\ field.key = "DEVICE_ABI_FRAME_DATA_T" => d.data = "this" /\ d.size = field.val
           /\ field.key \notin {"DEVICE_ABI_FRAME_DATA_T", "DEVICE_ABI_REQUEST_T"} =>
                 d.data = c.data /\ d.size = c.size
<1>2. CASE field.key = "DEVICE_ABI_REQUEST_T"
  <2>1. d = [c EXCEPT !.size = field.val] BY <1>2 DEF FrameField, cam4_read_meta
  <2> QED BY <1>2, <2>1
<1>3. CASE field.key = "DEVICE_ABI_FRAME_DATA_T"
  <2>1. d = [c EXCEPT !.data = "this", !.size = field.val]
    BY <1>3 DEF FrameField, cam4_read_data
  <2>2. DOMAIN d = ClipFields /\ d.data = "this" /\ d.size = field.val
    BY <2>1 DEF ClipFields
  <2> QED BY <1>3, <2>2
<1>4. CASE field.key = "P3_ABI_ID_T"
  <2>1. d = [c EXCEPT !.flow = field.val] BY <1>4 DEF FrameField, cam4_read_id
  <2>2. DOMAIN d = ClipFields /\ d.data = c.data /\ d.size = c.size
    BY <2>1 DEF ClipFields
  <2> QED BY <1>4, <2>2
<1>5. CASE field.key \notin {"DEVICE_ABI_REQUEST_T", "DEVICE_ABI_FRAME_DATA_T", "P3_ABI_ID_T"}
  <2>1. d = c BY <1>5 DEF FrameField
  <2> QED BY <1>5, <2>1
<1> QED BY <1>2, <1>3, <1>4, <1>5

(* What is in the reader after a packet is of its last data field.          *)
LEMMA FrameFieldsOwn ==
    ASSUME NEW packet, Listed(packet), DOMAIN in = ClipFields
    PROVE  /\ DOMAIN FrameFields(packet) = ClipFields
           /\ \A n \in DataAt(packet) :
                 (\A k \in DataAt(packet) \cup MetaAt(packet) : k <= n) =>
                    FrameFields(packet).data = "this" /\ FrameFields(packet).size = packet[n].val
<1>1. Len(packet) \in Nat /\ DOMAIN packet = 1 .. Len(packet) BY ListedIs
<1>2. PICK L \in Nat : L = Len(packet) BY <1>1
<1>3. PICK c : Reading(packet, c) /\ FrameFields(packet) = c[Len(packet)]
  BY <1>1, FrameFieldsIs
<1>4. /\ c[0] = Before(in)
      /\ \A n \in 1 .. L : c[n] = FrameField(c[n - 1], packet[n])
  <2>1. \A n \in 0 .. L : c[n] = IF n = 0 THEN Before(in) ELSE FrameField(c[n - 1], packet[n])
    BY <1>2, <1>3, Zenon DEF Reading
  <2> QED BY <2>1
<1>5. \A n \in 0 .. L : DOMAIN c[n] = ClipFields
  <2> DEFINE S == {n \in 0 .. L : DOMAIN c[n] = ClipFields}
  <2>1. 0 \in S BY <1>4 DEF Before
  <2>2. ASSUME NEW n \in 0 .. L, n < L, n \in S PROVE n + 1 \in S
    <3>1. n + 1 \in 1 .. L /\ n + 1 - 1 = n BY <2>2
    <3>2. c[n + 1] = FrameField(c[n], packet[n + 1]) BY <1>4, <3>1
    <3>3. DOMAIN c[n] = ClipFields BY <2>2
    <3>4. PICK b, d, f : b = c[n] /\ d = c[n + 1] /\ f = packet[n + 1] OBVIOUS
    <3>5. DOMAIN b = ClipFields /\ d = FrameField(b, f) BY <3>2, <3>3, <3>4, Zenon
    <3>6. DOMAIN d = ClipFields BY <3>5, FieldSets
    <3> QED BY <3>1, <3>4, <3>6
  <2> HIDE DEF S
  <2>3. \A n \in 0 .. L : n \in S BY <2>1, <2>2, UpTo
  <2> QED BY <2>3 DEF S
<1>6. ASSUME NEW n \in DataAt(packet), \A k \in DataAt(packet) \cup MetaAt(packet) : k <= n
      PROVE  c[L].data = "this" /\ c[L].size = packet[n].val
  <2>1. n \in 1 .. L /\ packet[n].key = "DEVICE_ABI_FRAME_DATA_T" BY <1>1, <1>2 DEF DataAt
  <2> DEFINE P(m) == c[m].data = "this" /\ c[m].size = packet[n].val
    S == {m \in 0 .. L : m >= n => P(m)}
  <2>2. 0 \in S BY <2>1
  <2>3. ASSUME NEW m \in 0 .. L, m < L, m \in S PROVE m + 1 \in S
    <3>1. m + 1 \in 1 .. L /\ m + 1 - 1 = m BY <2>3
    <3>2. c[m + 1] = FrameField(c[m], packet[m + 1]) /\ DOMAIN c[m] = ClipFields
      BY <1>4, <1>5, <3>1
    <3>6. PICK b, d, f : b = c[m] /\ d = c[m + 1] /\ f = packet[m + 1] OBVIOUS
    <3>7. d = FrameField(b, f) /\ DOMAIN b = ClipFields BY <3>2, <3>6, Zenon
    <3>3. CASE m + 1 < n BY <2>1, <3>1, <3>3
    <3>4. CASE m + 1 = n
      <4>1. packet[m + 1].key = "DEVICE_ABI_FRAME_DATA_T" BY <2>1, <3>4
      <4>2. d.data = "this" /\ d.size = f.val BY <3>6, <3>7, <4>1, FieldSets
      <4>3. P(m + 1) BY <3>4, <3>6, <4>2
      <4> HIDE DEF P
      <4> QED BY <3>1, <4>3
    <3>5. CASE m + 1 > n
      <4>1. m + 1 \notin DataAt(packet) \cup MetaAt(packet) BY <1>6, <2>1, <3>1, <3>5
      <4>2. packet[m + 1].key \notin {"DEVICE_ABI_FRAME_DATA_T", "DEVICE_ABI_REQUEST_T"}
        BY <1>1, <1>2, <3>1, <4>1 DEF DataAt, MetaAt
      <4>3. d.data = b.data /\ d.size = b.size BY <3>6, <3>7, <4>2, FieldSets
      <4>4. m >= n BY <2>1, <3>5
      <4>5. P(m) BY <2>3, <4>4
      <4>6. P(m + 1) BY <3>6, <4>3, <4>5
      <4> HIDE DEF P
      <4> QED BY <3>1, <4>6
    <3> QED BY <2>1, <3>1, <3>3, <3>4, <3>5
  <2> HIDE DEF S
  <2>4. \A m \in 0 .. L : m \in S BY <2>2, <2>3, UpTo
  <2>5. L \in 0 .. L /\ L >= n BY <2>1
  <2> QED BY <2>4, <2>5 DEF S
<1>7. L \in 0 .. L OBVIOUS
<1> QED BY <1>2, <1>3, <1>5, <1>6, <1>7

----------------------------------------------------------------------------
(* A file holds the data of its packet                                      *)

FilesInv ==
    /\ DOMAIN in = ClipFields /\ wmode \in BOOLEAN
    /\ DumpsItsOwn

(* At the start no file has been written.                                   *)
LEMMA FilesInit == ClientInit => FilesInv
<1> SUFFICES ASSUME ClientInit PROVE FilesInv OBVIOUS
<1>1. in = NoClip /\ wmode \in BOOLEAN /\ files = [size |-> 0, data |-> "none", from |-> <<>>]
  BY DEF ClientInit, CmdInit
<1>2. DOMAIN in = ClipFields BY <1>1 DEF NoClip, ClipFields
<1>3. DOMAIN files.from = {} BY <1>1
<1>4. DumpsItsOwn BY <1>3 DEF DumpsItsOwn, DataAt
<1> QED BY <1>1, <1>2, <1>4 DEF FilesInv

(* A frame that is written is read from its own packet.                     *)
LEMMA FrameStep == FilesInv /\ cam4_on_frame => FilesInv'
<1> SUFFICES ASSUME FilesInv, cam4_on_frame PROVE FilesInv' OBVIOUS
<1>1. PICK packet \in Clips :
        /\ in' = FrameFields(packet)
        /\ CASE wmode /\ FrameFields(packet).flow = "JPEG" ->
                    cam4_dump_jpeg_file(FrameFields(packet), packet)
             [] wmode /\ FrameFields(packet).flow = "FACE_DEV" ->
                    cam4_dump_face_file(FrameFields(packet), packet)
             [] OTHER -> UNCHANGED files
        /\ wmode' = wmode
  BY Zenon DEF cam4_on_frame
<1>2. PICK c : c = FrameFields(packet) OBVIOUS
<1>3. /\ DOMAIN c = ClipFields
      /\ \A n \in DataAt(packet) :
            (\A k \in DataAt(packet) \cup MetaAt(packet) : k <= n) =>
                c.data = "this" /\ c.size = packet[n].val
  BY <1>2, FrameFieldsOwn, ClipsAssumption DEF FilesInv
<1>4. \/ UNCHANGED files
      \/ files' = [size |-> c.size, data |-> c.data, from |-> packet]
  <2>1. wmode \in BOOLEAN BY DEF FilesInv
  <2>2. CASE wmode /\ c.flow = "JPEG" BY <1>1, <1>2, <2>2 DEF cam4_dump_jpeg_file
  <2>3. CASE wmode /\ c.flow = "FACE_DEV" BY <1>1, <1>2, <2>3 DEF cam4_dump_face_file
  <2>4. CASE ~(wmode /\ c.flow = "JPEG") /\ ~(wmode /\ c.flow = "FACE_DEV")
    BY <1>1, <1>2, <2>4
  <2> QED BY <2>2, <2>3, <2>4
<1>5. DumpsItsOwn'
  <2>1. CASE UNCHANGED files BY <2>1 DEF FilesInv, DumpsItsOwn, DataAt, MetaAt
  <2>2. CASE files' = [size |-> c.size, data |-> c.data, from |-> packet]
    <3>1. files'.size = c.size /\ files'.data = c.data /\ files'.from = packet BY <2>2
    <3> QED BY <1>3, <3>1 DEF DumpsItsOwn, DataAt, MetaAt
  <2> QED BY <1>4, <2>1, <2>2
<1> QED BY <1>1, <1>2, <1>3, <1>5 DEF FilesInv

(* No other step reads or writes frames.                                    *)
LEMMA FilesStep == FilesInv /\ [ClientNext]_clientVars => FilesInv'
<1> SUFFICES ASSUME FilesInv, [ClientNext]_clientVars PROVE FilesInv' OBVIOUS
<1>1. CASE UNCHANGED frameVars
  BY <1>1 DEF FilesInv, DumpsItsOwn, DataAt, MetaAt, frameVars
<1>2. CASE JpegFrame BY <1>2, FrameStep DEF JpegFrame
<1>3. UNCHANGED frameVars \/ JpegFrame
  <2>1. MainThread => UNCHANGED frameVars
    BY DEF MainThread, StartDiscovery, StartGiven, Discovered, Loop, LookAgain, LookedAgain,
           Finish, JpegStart, JpegEnd, mcastVars
  <2>2. DiscoveryThread => UNCHANGED frameVars
    BY DEF DiscoveryThread, Read, Answer, PassOver
  <2>3. ReceiveAny \/ CommandThread \/ Command \/ StopAsked \/ KernelStores => UNCHANGED frameVars
    BY DEF ReceiveAny, Receive, CommandThread, Command, StopAsked, KernelStores, mcastVars
  <2>4. UNCHANGED clientVars => UNCHANGED frameVars BY DEF clientVars, mcastVars
  <2> QED BY <2>1, <2>2, <2>3, <2>4 DEF ClientNext
<1> QED BY <1>1, <1>2, <1>3

(* A file holds the data of the packet it is written for, whatever earlier  *)
(* packets have left in the reader (cam4_on_frame).                         *)
THEOREM FilesAreOwn == ClientSpec => []DumpsItsOwn
<1>1. FilesInv => DumpsItsOwn BY DEF FilesInv
<1> QED BY <1>1, FilesInit, FilesStep, PTL DEF ClientSpec

----------------------------------------------------------------------------
(* What an announcement leaves in the record                                *)

RxFields == {"cpu", "table", "ifs_idx", "ifs", "cl_in"}
IfsFields == {"type", "conn", "clients", "cl_idx"}
IsRx(v) == DOMAIN v = RxFields /\ DOMAIN v.ifs = IfsFields /\ Listed(v.ifs.clients)

LowerOf(m, n) == IF m < n THEN m ELSE n

(* One more client is read: the table of clients takes it unless it is full.*)
LEMMA ClientReads ==
    ASSUME NEW v, NEW w, NEW conn, conn # "none", IsRx(v), w = client_n(v, conn),
           NEW n \in Nat, v.ifs.cl_idx = n, LowerOf(n, CL_NUM_MCL) <= Len(v.ifs.clients)
    PROVE  /\ IsRx(w) /\ w.ifs_idx = v.ifs_idx /\ w.table = v.table
           /\ w.ifs.type = v.ifs.type /\ w.ifs.conn = v.ifs.conn /\ w.ifs.cl_idx = n + 1
           /\ n >= CL_NUM_MCL => w.ifs.clients = v.ifs.clients
           /\ n < CL_NUM_MCL => w.ifs.clients = SubSeq(v.ifs.clients, 1, n) \o <<conn>>
<1>1. PICK l : l = IF n >= CL_NUM_MCL THEN v.ifs.clients ELSE SubSeq(v.ifs.clients, 1, n) \o <<conn>>
  OBVIOUS
<1>2. Field(v.cl_in, conn) = conn BY DEF Field
<1>3. w = [v EXCEPT !.cl_in = conn, !.ifs.cl_idx = n + 1, !.ifs.clients = l]
  BY <1>1, <1>2 DEF client_n
<1>4. DOMAIN v = RxFields /\ DOMAIN v.ifs = IfsFields BY DEF IsRx
<1>5. /\ DOMAIN w = RxFields /\ w.ifs_idx = v.ifs_idx /\ w.table = v.table
      /\ w.ifs = [v.ifs EXCEPT !.cl_idx = n + 1, !.clients = l]
  BY <1>3, <1>4 DEF RxFields
<1>6. /\ DOMAIN w.ifs = IfsFields /\ w.ifs.cl_idx = n + 1 /\ w.ifs.clients = l
      /\ w.ifs.type = v.ifs.type /\ w.ifs.conn = v.ifs.conn
  BY <1>4, <1>5 DEF IfsFields
<1>7. Listed(l)
  <2>1. CASE n >= CL_NUM_MCL BY <1>1, <2>1 DEF IsRx
  <2>2. CASE n < CL_NUM_MCL
    <3>1. Len(v.ifs.clients) \in Nat /\ n \in 0 .. Len(v.ifs.clients)
      BY <2>2, ListedIs, DiscoveryAssumption DEF IsRx, LowerOf
    <3>2. Listed(SubSeq(v.ifs.clients, 1, n) \o <<conn>>) BY <3>1, FirstAndOne DEF IsRx
    <3> QED BY <1>1, <2>2, <3>2, DiscoveryAssumption
  <2> QED BY <2>1, <2>2, DiscoveryAssumption
<1>8. IsRx(w) BY <1>5, <1>6, <1>7 DEF IsRx
<1>9. CL_NUM_MCL \in Nat BY DiscoveryAssumption
<1>10. n >= CL_NUM_MCL => l = v.ifs.clients BY <1>1
<1>11. n < CL_NUM_MCL => l = SubSeq(v.ifs.clients, 1, n) \o <<conn>> BY <1>1, <1>9
<1> QED BY <1>5, <1>6, <1>8, <1>10, <1>11, Zenon

(* The record while the clients of an interface are read, and while the     *)
(* interfaces of an announcement are.                                       *)
ClientReading(v, said, c) ==
    c = [n \in 0 .. Len(said.clients) |-> IF n = 0 THEN v ELSE client_n(c[n - 1], said.clients[n])]
Cleared(a) == [rx_cleared EXCEPT !.cpu = a.cpu]
IfsReading(a, c) ==
    c = [n \in 0 .. Len(a.ifs) |->
            IF n = 0 THEN Cleared(a) ELSE ReadInterface(c[n - 1], a.ifs[n])]

(* Both are functions: they are what their definition says.                 *)
LEMMA ReadInterfaceIs ==
    ASSUME NEW v, NEW said, Len(said.clients) \in Nat
    PROVE  \E c : /\ ClientReading(v, said, c)
                  /\ ReadInterface(v, said) = interface_n(c[Len(said.clients)], said)
<1>1. PICK L \in Nat : L = Len(said.clients) OBVIOUS
<1> DEFINE Upto(m, c) ==
      c = [n \in 0 .. m |-> IF n = 0 THEN v ELSE client_n(c[n - 1], said.clients[n])]
    S == {m \in Nat : \E c : Upto(m, c)}
<1>2. 0 \in S
  <2>1. PICK c : c = [n \in 0 .. 0 |-> v] OBVIOUS
  <2>2. Upto(0, c) BY <2>1
  <2> QED BY <2>2
<1>3. ASSUME NEW m \in 0 .. L, m < L, m \in S PROVE m + 1 \in S
  <2>1. PICK c : Upto(m, c) BY <1>3
  <2>2. PICK d : d = [n \in 0 .. m + 1 |-> IF n <= m THEN c[n] ELSE client_n(c[m], said.clients[m + 1])]
    OBVIOUS
  <2>3. \A n \in 0 .. m : c[n] = IF n = 0 THEN v ELSE client_n(c[n - 1], said.clients[n])
    BY <2>1, Zenon
  <2>4. \A n \in 0 .. m : d[n] = c[n] BY <2>2
  <2>5. d[m + 1] = client_n(c[m], said.clients[m + 1]) BY <2>2
  <2>6. ASSUME NEW n \in 0 .. m + 1
        PROVE  d[n] = IF n = 0 THEN v ELSE client_n(d[n - 1], said.clients[n])
    <3>1. CASE n = 0 BY <2>3, <2>4, <3>1
    <3>2. CASE n \in 1 .. m
      <4>1. n \in 0 .. m /\ n - 1 \in 0 .. m /\ n # 0 BY <3>2
      <4>2. d[n] = client_n(c[n - 1], said.clients[n]) BY <2>3, <2>4, <4>1
      <4> QED BY <2>4, <4>1, <4>2
    <3>3. CASE n = m + 1
      <4>1. n # 0 /\ n - 1 = m BY <3>3
      <4> QED BY <2>4, <2>5, <3>3, <4>1
    <3> QED BY <3>1, <3>2, <3>3
  <2>7. d = [n \in 0 .. m + 1 |-> IF n = 0 THEN v ELSE client_n(d[n - 1], said.clients[n])]
    BY <2>2, <2>6
  <2> QED BY <2>7
<1> HIDE DEF S
<1>4. L \in S
  <2>1. \A n \in 0 .. L : n \in S BY <1>2, <1>3, UpTo
  <2> QED BY <2>1
<1>5. \E c : ClientReading(v, said, c) BY <1>1, <1>4 DEF S, ClientReading
<1>6. PICK c : c = (CHOOSE d : ClientReading(v, said, d)) OBVIOUS
<1>7. ClientReading(v, said, c) BY <1>5, <1>6, Zenon
<1>8. ReadInterface(v, said) = interface_n((CHOOSE d : ClientReading(v, said, d))[Len(said.clients)], said)
  BY Zenon DEF ReadInterface, ClientReading
<1> QED BY <1>6, <1>7, <1>8

(* The same of the interfaces.                                              *)
LEMMA ReadAnnouncementIs ==
    ASSUME NEW a, Len(a.ifs) \in Nat
    PROVE  \E c : IfsReading(a, c) /\ ReadAnnouncement(a) = c[Len(a.ifs)]
<1>1. PICK L \in Nat : L = Len(a.ifs) OBVIOUS
<1> DEFINE Upto(m, c) ==
      c = [n \in 0 .. m |-> IF n = 0 THEN Cleared(a) ELSE ReadInterface(c[n - 1], a.ifs[n])]
    S == {m \in Nat : \E c : Upto(m, c)}
<1>2. 0 \in S
  <2>1. PICK c : c = [n \in 0 .. 0 |-> Cleared(a)] OBVIOUS
  <2>2. Upto(0, c) BY <2>1
  <2> QED BY <2>2
<1>3. ASSUME NEW m \in 0 .. L, m < L, m \in S PROVE m + 1 \in S
  <2>1. PICK c : Upto(m, c) BY <1>3
  <2>2. PICK d : d = [n \in 0 .. m + 1 |-> IF n <= m THEN c[n] ELSE ReadInterface(c[m], a.ifs[m + 1])]
    OBVIOUS
  <2>3. \A n \in 0 .. m : c[n] = IF n = 0 THEN Cleared(a) ELSE ReadInterface(c[n - 1], a.ifs[n])
    BY <2>1, Zenon
  <2>4. \A n \in 0 .. m : d[n] = c[n] BY <2>2
  <2>5. d[m + 1] = ReadInterface(c[m], a.ifs[m + 1]) BY <2>2
  <2>6. ASSUME NEW n \in 0 .. m + 1
        PROVE  d[n] = IF n = 0 THEN Cleared(a) ELSE ReadInterface(d[n - 1], a.ifs[n])
    <3>1. CASE n = 0 BY <2>3, <2>4, <3>1
    <3>2. CASE n \in 1 .. m
      <4>1. n \in 0 .. m /\ n - 1 \in 0 .. m /\ n # 0 BY <3>2
      <4>2. d[n] = ReadInterface(c[n - 1], a.ifs[n]) BY <2>3, <2>4, <4>1
      <4> QED BY <2>4, <4>1, <4>2
    <3>3. CASE n = m + 1
      <4>1. n # 0 /\ n - 1 = m BY <3>3
      <4> QED BY <2>4, <2>5, <3>3, <4>1
    <3> QED BY <3>1, <3>2, <3>3
  <2>7. d = [n \in 0 .. m + 1 |-> IF n = 0 THEN Cleared(a) ELSE ReadInterface(d[n - 1], a.ifs[n])]
    BY <2>2, <2>6
  <2> QED BY <2>7
<1> HIDE DEF S
<1>4. L \in S
  <2>1. \A n \in 0 .. L : n \in S BY <1>2, <1>3, UpTo
  <2> QED BY <2>1
<1>5. \E c : IfsReading(a, c) BY <1>1, <1>4 DEF S, IfsReading
<1>6. PICK c : c = (CHOOSE d : IfsReading(a, d)) OBVIOUS
<1>7. IfsReading(a, c) BY <1>5, <1>6, Zenon
<1>8. ReadAnnouncement(a) = (CHOOSE d : IfsReading(a, d))[Len(a.ifs)]
  BY Zenon DEF ReadAnnouncement, IfsReading, Cleared
<1> QED BY <1>6, <1>7, <1>8

(* The interface being read, after n of its clients.                        *)
AfterClients(v, said, n, w) ==
    /\ IsRx(w) /\ w.ifs_idx = v.ifs_idx /\ w.table = v.table
    /\ w.ifs.type = v.ifs.type /\ w.ifs.conn = v.ifs.conn /\ w.ifs.cl_idx = n
    /\ LowerOf(n, CL_NUM_MCL) <= Len(w.ifs.clients)
    /\ \A k \in 1 .. LowerOf(n, CL_NUM_MCL) : w.ifs.clients[k] = said.clients[k]

(* Each client that is named keeps the list of clients as it was said.      *)
LEMMA OneMoreClient ==
    ASSUME NEW v, NEW said, NEW n \in Nat, NEW w, AfterClients(v, said, n, w),
           said.clients[n + 1] # "none"
    PROVE  AfterClients(v, said, n + 1, client_n(w, said.clients[n + 1]))
<1>1. PICK conn, u : conn = said.clients[n + 1] /\ u = client_n(w, conn) OBVIOUS
<1>2. IsRx(w) /\ w.ifs.cl_idx = n /\ LowerOf(n, CL_NUM_MCL) <= Len(w.ifs.clients)
  BY DEF AfterClients
<1>3. PICK old, new : old = w.ifs.clients /\ new = u.ifs.clients OBVIOUS
<1>4. /\ IsRx(u) /\ u.ifs_idx = w.ifs_idx /\ u.table = w.table
      /\ u.ifs.type = w.ifs.type /\ u.ifs.conn = w.ifs.conn /\ u.ifs.cl_idx = n + 1
      /\ n >= CL_NUM_MCL => new = old
      /\ n < CL_NUM_MCL => new = SubSeq(old, 1, n) \o <<conn>>
  <2>1. conn # "none" BY <1>1
  <2> QED BY <1>1, <1>2, <1>3, <2>1, ClientReads
<1>5. CL_NUM_MCL \in Nat /\ Listed(old) /\ Len(old) \in Nat
  BY <1>2, <1>3, ListedIs, DiscoveryAssumption DEF IsRx
<1>6. \A k \in 1 .. LowerOf(n, CL_NUM_MCL) : old[k] = said.clients[k] BY <1>3 DEF AfterClients
<1>7. /\ LowerOf(n + 1, CL_NUM_MCL) <= Len(new)
      /\ \A k \in 1 .. LowerOf(n + 1, CL_NUM_MCL) : new[k] = said.clients[k]
  <2>1. CASE n >= CL_NUM_MCL
    <3>1. LowerOf(n + 1, CL_NUM_MCL) = LowerOf(n, CL_NUM_MCL) BY <1>5, <2>1 DEF LowerOf
    <3> QED BY <1>2, <1>3, <1>4, <1>6, <2>1, <3>1
  <2>2. CASE n < CL_NUM_MCL
    <3>1. LowerOf(n + 1, CL_NUM_MCL) = n + 1 /\ LowerOf(n, CL_NUM_MCL) = n
      BY <1>5, <2>2 DEF LowerOf
    <3>2. n \in 0 .. Len(old) BY <1>2, <1>3, <1>5, <3>1
    <3>3. /\ Len(new) = n + 1 /\ new[n + 1] = conn
          /\ \A k \in 1 .. n : new[k] = old[k]
      BY <1>4, <1>5, <2>2, <3>2, FirstAndOne
    <3>4. \A k \in 1 .. n + 1 : new[k] = said.clients[k] BY <1>1, <1>6, <3>1, <3>3
    <3> QED BY <3>1, <3>3, <3>4
  <2> QED BY <1>5, <2>1, <2>2
<1>8. /\ w.ifs_idx = v.ifs_idx /\ w.table = v.table
      /\ w.ifs.type = v.ifs.type /\ w.ifs.conn = v.ifs.conn
  BY DEF AfterClients
<1>9. AfterClients(v, said, n + 1, u) BY <1>3, <1>4, <1>7, <1>8 DEF AfterClients
<1> QED BY <1>1, <1>9

(* So the clients of an interface are as it says.                           *)
LEMMA ClientsRead ==
    ASSUME NEW v, NEW said, IsRx(v), v.ifs.cl_idx = 0, Listed(said.clients),
           \A n \in DOMAIN said.clients : said.clients[n] # "none"
    PROVE  \E w : AfterClients(v, said, Len(said.clients), w) /\ ReadInterface(v, said) = interface_n(w, said)
<1>1. Len(said.clients) \in Nat /\ DOMAIN said.clients = 1 .. Len(said.clients) BY ListedIs
<1>2. PICK L \in Nat : L = Len(said.clients) BY <1>1
<1>3. PICK c : ClientReading(v, said, c) /\ ReadInterface(v, said) = interface_n(c[Len(said.clients)], said)
  BY <1>1, ReadInterfaceIs
<1>4. /\ c[0] = v
      /\ \A n \in 1 .. L : c[n] = client_n(c[n - 1], said.clients[n])
  <2>1. \A n \in 0 .. L : c[n] = IF n = 0 THEN v ELSE client_n(c[n - 1], said.clients[n])
    BY <1>2, <1>3, Zenon DEF ClientReading
  <2> QED BY <2>1
<1> DEFINE S == {n \in 0 .. L : AfterClients(v, said, n, c[n])}
<1>5. 0 \in S
  <2>1. LowerOf(0, CL_NUM_MCL) = 0 BY DiscoveryAssumption DEF LowerOf
  <2>2. Len(v.ifs.clients) \in Nat BY ListedIs DEF IsRx
  <2>3. AfterClients(v, said, 0, v) BY <2>1, <2>2 DEF AfterClients
  <2> QED BY <1>4, <2>3
<1>6. ASSUME NEW n \in 0 .. L, n < L, n \in S PROVE n + 1 \in S
  <2>1. n + 1 \in 1 .. L /\ n + 1 - 1 = n /\ n + 1 \in 0 .. L /\ n \in Nat BY <1>6
  <2>2. c[n + 1] = client_n(c[n], said.clients[n + 1]) BY <1>4, <2>1
  <2>3. AfterClients(v, said, n, c[n]) BY <1>6
  <2>4. said.clients[n + 1] # "none" BY <1>1, <1>2, <2>1
  <2>5. AfterClients(v, said, n + 1, client_n(c[n], said.clients[n + 1]))
    BY <2>1, <2>3, <2>4, OneMoreClient
  <2> QED BY <2>1, <2>2, <2>5
<1> HIDE DEF S
<1>7. L \in S
  <2>1. \A n \in 0 .. L : n \in S BY <1>5, <1>6, UpTo
  <2> QED BY <2>1
<1>8. AfterClients(v, said, L, c[L]) BY <1>7 DEF S
<1> QED BY <1>2, <1>3, <1>8

(* An entry of the table has what an interface says of itself.              *)
Said(e, said) ==
    /\ e.type = said.type /\ e.conn = said.conn
    /\ e.cl_idx = LowerOf(Len(said.clients), CL_NUM_MCL)
    /\ \A k \in 1 .. e.cl_idx : e.clients[k] = said.clients[k]

(* The record, when an interface has been read behind n others: the table   *)
(* has one more entry unless it was full.                                   *)
AfterInterface(v, said, n, w) ==
    /\ IsRx(w) /\ w.ifs_idx = n + 1
    /\ n >= IFS_NUM_MCL => w.table = v.table
    /\ n < IFS_NUM_MCL =>
          w.ifs.cl_idx = 0 /\ \E e : Said(e, said) /\ w.table = Append(v.table, e)

(* So it is when the interface says what it is.                             *)
LEMMA InterfaceReads ==
    ASSUME NEW v, NEW w, NEW said, IsRx(v), v.ifs.cl_idx = 0, NEW n \in Nat, v.ifs_idx = n,
           Listed(said.clients), States(said), w = ReadInterface(v, said)
    PROVE  AfterInterface(v, said, n, w)
<1>1. /\ said.type # "none" /\ said.conn # "none"
      /\ \A k \in DOMAIN said.clients : said.clients[k] # "none"
  BY DEF States
<1>2. PICK u : AfterClients(v, said, Len(said.clients), u) /\ w = interface_n(u, said)
  BY <1>1, ClientsRead
<1>3. PICK L \in Nat : L = Len(said.clients) BY ListedIs
<1>4. /\ IsRx(u) /\ u.ifs_idx = n /\ u.table = v.table /\ u.ifs.cl_idx = L
      /\ \A k \in 1 .. LowerOf(L, CL_NUM_MCL) : u.ifs.clients[k] = said.clients[k]
  BY <1>2, <1>3 DEF AfterClients
<1>5. CL_NUM_MCL \in Nat /\ IFS_NUM_MCL \in Nat BY DiscoveryAssumption
<1>6. PICK e : e = [u.ifs EXCEPT !.type = said.type, !.conn = said.conn,
                                 !.cl_idx = LowerOf(L, CL_NUM_MCL)]
  OBVIOUS
<1>7. DOMAIN u = RxFields /\ DOMAIN u.ifs = IfsFields /\ Listed(u.ifs.clients) BY <1>4 DEF IsRx
<1>8. /\ DOMAIN e = IfsFields /\ e.type = said.type /\ e.conn = said.conn
      /\ e.cl_idx = LowerOf(L, CL_NUM_MCL) /\ e.clients = u.ifs.clients
  BY <1>6, <1>7 DEF IfsFields
<1>9. Said(e, said) BY <1>3, <1>4, <1>8 DEF Said
<1>10. Field(u.ifs.type, said.type) = said.type /\ Field(u.ifs.conn, said.conn) = said.conn
  BY <1>1 DEF Field
<1>11. LowerOf(L, CL_NUM_MCL) = IF u.ifs.cl_idx >= CL_NUM_MCL THEN CL_NUM_MCL ELSE u.ifs.cl_idx
  BY <1>4, <1>5 DEF LowerOf
<1>12. CASE n >= IFS_NUM_MCL
  <2>1. w = [u EXCEPT !.ifs_idx = n + 1] BY <1>2, <1>4, <1>5, <1>12 DEF interface_n
  <2>2. DOMAIN w = RxFields /\ w.ifs_idx = n + 1 /\ w.table = u.table /\ w.ifs = u.ifs
    BY <1>7, <2>1 DEF RxFields
  <2>3. IsRx(w) BY <1>7, <2>2 DEF IsRx
  <2> QED BY <1>4, <1>5, <1>12, <2>2, <2>3 DEF AfterInterface
<1>13. CASE n < IFS_NUM_MCL
  <2>1. w = [u EXCEPT !.ifs_idx = n + 1, !.table = Append(u.table, e), !.ifs = [e EXCEPT !.cl_idx = 0]]
    BY <1>2, <1>4, <1>5, <1>6, <1>10, <1>11, <1>13 DEF interface_n
  <2>2. PICK f : f = [e EXCEPT !.cl_idx = 0] OBVIOUS
  <2>3. DOMAIN f = IfsFields /\ f.cl_idx = 0 /\ f.clients = e.clients BY <1>8, <2>2 DEF IfsFields
  <2>4. DOMAIN w = RxFields /\ w.ifs_idx = n + 1 /\ w.table = Append(u.table, e) /\ w.ifs = f
    BY <1>7, <2>1, <2>2 DEF RxFields
  <2>5. IsRx(w) BY <1>7, <1>8, <2>3, <2>4 DEF IsRx
  <2> QED BY <1>4, <1>5, <1>9, <1>13, <2>3, <2>4, <2>5 DEF AfterInterface
<1> QED BY <1>5, <1>12, <1>13

(* The record, after n of the interfaces of an announcement.                *)
AfterIfs(a, n, v) ==
    /\ IsRx(v) /\ v.ifs_idx = n /\ (n <= IFS_NUM_MCL => v.ifs.cl_idx = 0)
    /\ Listed(v.table) /\ Len(v.table) = LowerOf(n, IFS_NUM_MCL)
    /\ \A k \in 1 .. LowerOf(n, IFS_NUM_MCL) : Said(v.table[k], a.ifs[k])

(* Each interface keeps the table as it was announced.                      *)
LEMMA OneMoreInterface ==
    ASSUME NEW a, NEW n \in Nat, NEW v, AfterIfs(a, n, v), n <= IFS_NUM_MCL,
           Listed(a.ifs[n + 1].clients), States(a.ifs[n + 1])
    PROVE  AfterIfs(a, n + 1, ReadInterface(v, a.ifs[n + 1]))
<1>1. PICK said, w : said = a.ifs[n + 1] /\ w = ReadInterface(v, said) OBVIOUS
<1>2. IsRx(v) /\ v.ifs_idx = n /\ v.ifs.cl_idx = 0 BY DEF AfterIfs
<1>3. /\ IsRx(w) /\ w.ifs_idx = n + 1
      /\ n >= IFS_NUM_MCL => w.table = v.table
      /\ n < IFS_NUM_MCL =>
            w.ifs.cl_idx = 0 /\ \E e : Said(e, said) /\ w.table = Append(v.table, e)
  <2>1. Listed(said.clients) /\ States(said) BY <1>1
  <2>2. AfterInterface(v, said, n, w) BY <1>1, <1>2, <2>1, InterfaceReads
  <2> QED BY <2>2 DEF AfterInterface
<1>4. PICK old, new : old = v.table /\ new = w.table OBVIOUS
<1>5. IFS_NUM_MCL \in Nat BY DiscoveryAssumption
<1>6. /\ Listed(old) /\ Len(old) = LowerOf(n, IFS_NUM_MCL)
      /\ \A k \in 1 .. LowerOf(n, IFS_NUM_MCL) : Said(old[k], a.ifs[k])
  BY <1>4 DEF AfterIfs
<1>7. /\ n + 1 <= IFS_NUM_MCL => w.ifs.cl_idx = 0
      /\ Listed(new) /\ Len(new) = LowerOf(n + 1, IFS_NUM_MCL)
      /\ \A k \in 1 .. LowerOf(n + 1, IFS_NUM_MCL) : Said(new[k], a.ifs[k])
  <2>1. CASE n >= IFS_NUM_MCL
    <3>1. LowerOf(n + 1, IFS_NUM_MCL) = LowerOf(n, IFS_NUM_MCL) BY <1>5, <2>1 DEF LowerOf
    <3>2. new = old /\ ~(n + 1 <= IFS_NUM_MCL) BY <1>3, <1>4, <1>5, <2>1
    <3> QED BY <1>6, <3>1, <3>2
  <2>2. CASE n < IFS_NUM_MCL
    <3>1. LowerOf(n + 1, IFS_NUM_MCL) = n + 1 /\ LowerOf(n, IFS_NUM_MCL) = n
      BY <1>5, <2>2 DEF LowerOf
    <3>2. PICK e : Said(e, said) /\ new = Append(old, e) BY <1>3, <1>4, <2>2
    <3>3. /\ Listed(new) /\ Len(new) = n + 1 /\ new[n + 1] = e
          /\ \A k \in 1 .. n : new[k] = old[k]
      BY <1>6, <3>1, <3>2, OneMore
    <3>4. Said(new[n + 1], a.ifs[n + 1]) BY <1>1, <3>2, <3>3
    <3>5. \A k \in 1 .. n : Said(new[k], a.ifs[k]) BY <1>6, <3>1, <3>3
    <3>6. \A k \in 1 .. n + 1 : k = n + 1 \/ k \in 1 .. n OBVIOUS
    <3>7. \A k \in 1 .. n + 1 : Said(new[k], a.ifs[k]) BY <3>4, <3>5, <3>6
    <3> QED BY <1>3, <2>2, <3>1, <3>3, <3>7
  <2> QED BY <1>5, <2>1, <2>2
<1>8. AfterIfs(a, n + 1, w) BY <1>3, <1>4, <1>7 DEF AfterIfs
<1> QED BY <1>1, <1>8

(* An announcement whose interfaces say what they are is in the table.      *)
LEMMA IsAnnounced ==
    ASSUME NEW a \in Announcements, \A n \in DOMAIN a.ifs : States(a.ifs[n])
    PROVE  AfterIfs(a, Len(a.ifs), ReadAnnouncement(a))
<1>1. /\ Listed(a.ifs) /\ Len(a.ifs) <= IFS_NUM_MCL + 1
      /\ \A n \in DOMAIN a.ifs : Listed(a.ifs[n].clients)
      /\ IFS_NUM_MCL \in Nat
  BY DiscoveryAssumption
<1>2. Len(a.ifs) \in Nat /\ DOMAIN a.ifs = 1 .. Len(a.ifs) BY <1>1, ListedIs
<1>3. PICK L \in Nat : L = Len(a.ifs) BY <1>2
<1>4. PICK c : IfsReading(a, c) /\ ReadAnnouncement(a) = c[Len(a.ifs)] BY <1>2, ReadAnnouncementIs
<1>5. /\ c[0] = Cleared(a)
      /\ \A n \in 1 .. L : c[n] = ReadInterface(c[n - 1], a.ifs[n])
  <2>1. \A n \in 0 .. L :
          c[n] = IF n = 0 THEN Cleared(a) ELSE ReadInterface(c[n - 1], a.ifs[n])
    BY <1>3, <1>4, Zenon DEF IfsReading
  <2> QED BY <2>1
<1> DEFINE S == {n \in 0 .. L : AfterIfs(a, n, c[n])}
<1>6. 0 \in S
  <2>1. PICK v : v = c[0] OBVIOUS
  <2>2. /\ DOMAIN v = RxFields /\ v.ifs = NoIfs /\ v.table = <<>> /\ v.ifs_idx = 0
    BY <1>5, <2>1 DEF Cleared, rx_cleared, RxFields
  <2>3. DOMAIN v.ifs = IfsFields /\ v.ifs.clients = <<>> /\ v.ifs.cl_idx = 0
    BY <2>2 DEF NoIfs, IfsFields
  <2>4. Listed(<<>>) BY DEF Listed
  <2>5. LowerOf(0, IFS_NUM_MCL) = 0 BY <1>1 DEF LowerOf
  <2>6. AfterIfs(a, 0, v) BY <2>2, <2>3, <2>4, <2>5 DEF AfterIfs, IsRx
  <2> QED BY <2>1, <2>6
<1>7. ASSUME NEW n \in 0 .. L, n < L, n \in S PROVE n + 1 \in S
  <2>1. n + 1 \in 1 .. L /\ n + 1 - 1 = n /\ n + 1 \in 0 .. L /\ n \in Nat BY <1>7
  <2>2. c[n + 1] = ReadInterface(c[n], a.ifs[n + 1]) BY <1>5, <2>1
  <2>3. AfterIfs(a, n, c[n]) BY <1>7
  <2>4. n <= IFS_NUM_MCL BY <1>1, <1>3, <1>7
  <2>5. n + 1 \in DOMAIN a.ifs BY <1>2, <1>3, <2>1
  <2>6. AfterIfs(a, n + 1, ReadInterface(c[n], a.ifs[n + 1]))
    BY <1>1, <2>1, <2>3, <2>4, <2>5, OneMoreInterface
  <2> QED BY <2>1, <2>2, <2>6
<1> HIDE DEF S
<1>8. L \in S
  <2>1. \A n \in 0 .. L : n \in S BY <1>6, <1>7, UpTo
  <2> QED BY <2>1
<1> QED BY <1>3, <1>4, <1>8 DEF S

----------------------------------------------------------------------------
(* The table has the interfaces that were announced                         *)

RecordInv ==
    /\ mc \in {"read", "answer"} => answer \in Announcements
    /\ mc = "answer" => rx = ReadAnnouncement(answer)

(* Nothing has been read at the start.                                      *)
LEMMA RecordInit == ClientInit => RecordInv
BY DEF ClientInit, DiscoveryInit, RecordInv

(* While the answer is looked at the record is what was read from it.       *)
LEMMA RecordStep == RecordInv /\ [ClientNext]_clientVars => RecordInv'
<1> SUFFICES ASSUME RecordInv, [ClientNext]_clientVars PROVE RecordInv' OBVIOUS
<1>1. CASE ReceiveAny BY <1>1 DEF ReceiveAny, Receive, mcast_cl_receive, RecordInv
<1>2. CASE Read
  <2>1. mc = "read" /\ mc' = "answer" /\ rx' = ReadAnnouncement(answer) /\ answer' = answer
    BY <1>2 DEF Read, mcast_cl_read
  <2>2. ReadAnnouncement(answer)' = ReadAnnouncement(answer')
    BY Zenon DEF ReadAnnouncement, ReadInterface, interface_n, client_n
  <2> QED BY <2>1, <2>2 DEF RecordInv
<1>3. CASE UNCHANGED <<mc, rx, answer>> BY <1>3 DEF RecordInv
<1>4. CASE mc' \in {"poll", "done", "off"} BY <1>4 DEF RecordInv
<1>5. ReceiveAny \/ Read \/ UNCHANGED <<mc, rx, answer>> \/ mc' \in {"poll", "done", "off"}
  <2>1. MainThread => UNCHANGED <<mc, rx, answer>> \/ mc' \in {"poll", "done", "off"}
    BY DEF MainThread, StartDiscovery, StartGiven, Discovered, Loop, LookAgain, LookedAgain,
           Finish, JpegStart, JpegEnd, mcastVars, discoVars, process_cl_mcast, mcast_cl_destroy
  <2>2. Answer \/ PassOver => mc' \in {"poll", "done"}
    BY DEF Answer, PassOver, config_abi_resp, OtherDevice, PollTimeout, NextTurn
  <2>3. CommandThread \/ Command \/ StopAsked \/ KernelStores \/ JpegFrame => UNCHANGED <<mc, rx, answer>>
    BY DEF CommandThread, process_cm_ifs, Command, StopAsked, KernelStores, JpegFrame, mcastVars, discoVars
  <2>4. UNCHANGED clientVars => UNCHANGED <<mc, rx, answer>> BY DEF clientVars, mcastVars, discoVars
  <2> QED BY <2>1, <2>2, <2>3, <2>4 DEF ClientNext, DiscoveryThread
<1> QED BY <1>1, <1>2, <1>3, <1>4, <1>5

(* The first n of a list.                                                   *)
LEMMA TakeIs ==
    ASSUME NEW s, Listed(s), NEW n \in Nat
    PROVE  /\ Len(Take(s, n)) = LowerOf(Len(s), n)
           /\ \A k \in 1 .. LowerOf(Len(s), n) : Take(s, n)[k] = s[k]
<1>1. PICK T : T = {s[k] : k \in DOMAIN s} OBVIOUS
<1>2. s \in Seq(T) BY <1>1 DEF Listed
<1>3. PICK m : m = LowerOf(Len(s), n) OBVIOUS
<1>4. Len(s) \in Nat /\ m \in 0 .. Len(s) BY <1>2, <1>3 DEF LowerOf
<1>5. Take(s, n) = SubSeq(s, 1, m) BY <1>3 DEF Take, LowerOf
<1> QED BY <1>2, <1>3, <1>4, <1>5

(* The table has the interfaces that were announced, each with its own      *)
(* type, address and clients (interface_n, client_n).                       *)
THEOREM TableAnnounced == ClientSpec => []TableIsAnnounced
<1>1. RecordInv => TableIsAnnounced
  <2> SUFFICES ASSUME RecordInv, mc = "answer", \A n \in DOMAIN answer.ifs : States(answer.ifs[n])
      PROVE  /\ Len(rx.table) = Len(Take(answer.ifs, IFS_NUM_MCL))
             /\ \A n \in DOMAIN rx.table :
                  LET e == rx.table[n]
                      said == answer.ifs[n]
                  IN  /\ e.type = said.type /\ e.conn = said.conn
                      /\ e.cl_idx = Len(Take(said.clients, CL_NUM_MCL))
                      /\ \A k \in 1 .. e.cl_idx : e.clients[k] = said.clients[k]
    BY DEF TableIsAnnounced
  <2>1. answer \in Announcements /\ rx = ReadAnnouncement(answer) BY DEF RecordInv
  <2>2. AfterIfs(answer, Len(answer.ifs), rx) BY <2>1, IsAnnounced
  <2>3. PICK t, m : t = rx.table /\ m = LowerOf(Len(answer.ifs), IFS_NUM_MCL) OBVIOUS
  <2>4. /\ Listed(t) /\ Len(t) = m
        /\ \A k \in 1 .. m : Said(t[k], answer.ifs[k])
    BY <2>2, <2>3 DEF AfterIfs
  <2>5. /\ Listed(answer.ifs) /\ IFS_NUM_MCL \in Nat /\ CL_NUM_MCL \in Nat
        /\ \A n \in DOMAIN answer.ifs : Listed(answer.ifs[n].clients)
    BY <2>1, DiscoveryAssumption
  <2>6. Len(Take(answer.ifs, IFS_NUM_MCL)) = m BY <2>3, <2>5, TakeIs
  <2>7. DOMAIN t = 1 .. m BY <2>4, ListedIs
  <2>8. ASSUME NEW n \in DOMAIN t
        PROVE  /\ t[n].type = answer.ifs[n].type /\ t[n].conn = answer.ifs[n].conn
               /\ t[n].cl_idx = Len(Take(answer.ifs[n].clients, CL_NUM_MCL))
               /\ \A k \in 1 .. t[n].cl_idx : t[n].clients[k] = answer.ifs[n].clients[k]
    <3>1. Said(t[n], answer.ifs[n]) BY <2>4, <2>7
    <3>2. n \in DOMAIN answer.ifs
      <4>1. Len(answer.ifs) \in Nat /\ DOMAIN answer.ifs = 1 .. Len(answer.ifs) BY <2>5, ListedIs
      <4> QED BY <2>3, <2>5, <2>7, <4>1 DEF LowerOf
    <3>3. Listed(answer.ifs[n].clients) BY <2>5, <3>2
    <3>4. Len(Take(answer.ifs[n].clients, CL_NUM_MCL)) = LowerOf(Len(answer.ifs[n].clients), CL_NUM_MCL)
      BY <2>5, <3>3, TakeIs
    <3> QED BY <3>1, <3>4, Zenon DEF Said
  <2> QED BY <2>3, <2>4, <2>6, <2>8, Zenon
<1> QED BY <1>1, RecordInit, RecordStep, PTL DEF ClientSpec

----------------------------------------------------------------------------
(* The command thread connects to the address announced                     *)

(* The announcement of a camera whose interfaces say what they are, and the *)
(* address in it for commands.                                              *)
Whole(a) ==
    /\ InterfaceOf(a, "P3_DEVICE_BOTH") # {}
    /\ \A n \in DOMAIN a.ifs : States(a.ifs[n])
CommandsAt(a) ==
    LET cm == InterfaceOf(a, "P3_CM") IN a.ifs[CHOOSE n \in cm : \A k \in cm : n <= k].conn

(* A set of numbers has a least one, and CHOOSE finds it.                   *)
LEMMA LeastIn ==
    ASSUME NEW S \in SUBSET Nat, S # {}
    PROVE  \E n \in S : \A k \in S : n <= k
<1>1. PICK n \in S : \A k \in S : ~(<<k, n>> \in OpToRel(<, Nat))
  BY WFMin, NatLessThanWellFounded, Zenon
<1>2. \A k \in S : ~(k < n) BY <1>1, Zenon DEF OpToRel
<1> QED BY <1>2

(* There is only one.                                                       *)
LEMMA LeastIs ==
    ASSUME NEW S \in SUBSET Nat, NEW n \in S, \A k \in S : n <= k
    PROVE  (CHOOSE m \in S : \A k \in S : m <= k) = n
<1>1. PICK m : m = CHOOSE l \in S : \A k \in S : l <= k OBVIOUS
<1>2. m \in S /\ \A k \in S : m <= k BY <1>1, Zenon
<1> QED BY <1>1, <1>2

(* interface[k] is the interface that was announced behind k others.        *)
LEMMA FirstOfIs ==
    ASSUME NEW a \in Announcements, \A n \in DOMAIN a.ifs : States(a.ifs[n]),
           rx = ReadAnnouncement(a), NEW type, type # "P3_MDM_DATA"
    PROVE  /\ InterfaceOf(a, type) # {} => FirstOf(type) # -1
           /\ FirstOf(type) # -1 =>
                 /\ FirstOf(type) # 0
                 /\ interface(FirstOf(type)).conn =
                       a.ifs[CHOOSE n \in InterfaceOf(a, type) : \A k \in InterfaceOf(a, type) : n <= k].conn
<1>1. AfterIfs(a, Len(a.ifs), rx) BY IsAnnounced
<1>2. Listed(a.ifs) /\ IFS_NUM_MCL \in Nat \ {0} BY DiscoveryAssumption
<1>3. PICK L \in Nat : L = Len(a.ifs) BY <1>2, ListedIs
<1>4. PICK t, m : t = rx.table /\ m = LowerOf(L, IFS_NUM_MCL) OBVIOUS
<1>5. /\ rx.ifs_idx = L /\ Len(t) = m /\ Listed(t)
      /\ \A k \in 1 .. m : Said(t[k], a.ifs[k])
  BY <1>1, <1>3, <1>4 DEF AfterIfs
<1>6. m \in Nat /\ m <= L BY <1>2, <1>4 DEF LowerOf
<1>7. PICK A : A = InterfaceOf(a, type) OBVIOUS
<1>8. A = {n \in 2 .. m : a.ifs[n].type = type}
  <2>1. Len(Take(a.ifs, IFS_NUM_MCL)) = m BY <1>2, <1>3, <1>4, TakeIs
  <2> QED BY <1>7, <2>1 DEF InterfaceOf
<1>9. PICK S : S = {k \in 1 .. L - 1 : interface(k).type = type} OBVIOUS
<1>10. \A k \in Nat : interface(k) = IF k < m THEN t[k + 1] ELSE NoIfs
  BY <1>4, <1>5 DEF interface
<1>11. \A k \in 1 .. m : t[k].type = a.ifs[k].type /\ t[k].conn = a.ifs[k].conn
  BY <1>5 DEF Said
<1>12. \A k \in S : k \in Nat /\ k + 1 \in A /\ interface(k).conn = a.ifs[k + 1].conn
  <2> SUFFICES ASSUME NEW k \in S PROVE k \in Nat /\ k + 1 \in A /\ interface(k).conn = a.ifs[k + 1].conn
    OBVIOUS
  <2>1. k \in 1 .. L - 1 /\ k \in Nat /\ interface(k).type = type BY <1>9
  <2>2. k < m
    <3>1. NoIfs.type = "P3_MDM_DATA" BY DEF NoIfs
    <3> QED BY <1>10, <2>1, <3>1
  <2>3. k + 1 \in 1 .. m /\ k + 1 \in 2 .. m BY <1>6, <2>1, <2>2
  <2>4. interface(k) = t[k + 1] BY <1>10, <2>1, <2>2
  <2> QED BY <1>8, <1>11, <2>1, <2>3, <2>4
<1>13. \A n \in A : n \in Nat /\ n - 1 \in S
  <2> SUFFICES ASSUME NEW n \in A PROVE n \in Nat /\ n - 1 \in S OBVIOUS
  <2>1. n \in 2 .. m /\ a.ifs[n].type = type BY <1>8
  <2>2. n \in 1 .. m /\ n - 1 \in Nat /\ n - 1 < m /\ n - 1 + 1 = n /\ n - 1 \in 1 .. L - 1
    BY <1>6, <2>1
  <2>3. interface(n - 1) = t[n] BY <1>10, <2>2
  <2>4. interface(n - 1).type = type BY <1>11, <2>1, <2>2, <2>3
  <2> QED BY <1>9, <2>2, <2>4
<1>14. FirstOf(type) = IF S = {} THEN -1 ELSE CHOOSE k \in S : \A j \in S : k <= j
  BY <1>5, <1>9 DEF FirstOf
<1>15. CASE S = {} BY <1>7, <1>13, <1>14, <1>15
<1>16. CASE S # {}
  <2>1. S \in SUBSET Nat /\ A \in SUBSET Nat BY <1>12, <1>13
  <2>2. PICK k \in S : \A j \in S : k <= j BY <1>16, <2>1, LeastIn
  <2>3. FirstOf(type) = k BY <1>14, <1>16, <2>1, <2>2, LeastIs
  <2>4. k + 1 \in A /\ interface(k).conn = a.ifs[k + 1].conn /\ k \in 1 .. L - 1
    BY <1>9, <1>12
  <2>5. \A n \in A : k + 1 <= n
    <3> SUFFICES ASSUME NEW n \in A PROVE k + 1 <= n OBVIOUS
    <3>1. n \in Nat /\ n - 1 \in S /\ k \in Nat BY <1>12, <1>13
    <3>2. k <= n - 1 BY <2>2, <3>1
    <3> QED BY <3>1, <3>2
  <2>6. PICK l : l = k + 1 OBVIOUS
  <2>7. (CHOOSE n \in A : \A j \in A : n <= j) = l BY <2>1, <2>4, <2>5, <2>6, LeastIs
  <2>8. FirstOf(type) # -1 /\ FirstOf(type) # 0 BY <1>3, <2>3, <2>4
  <2> QED BY <1>7, <2>3, <2>4, <2>6, <2>7, <2>8
<1> QED BY <1>15, <1>16

(* The one command thread, by its stage.                                    *)
ThreadFields == {"stage", "to", "by"}
ThreadOk(t) ==
    /\ DOMAIN t = ThreadFields
    /\ Whole(t.by) /\ t.stage = "fifo" =>
          /\ mc \in {"done", "off"} /\ ~asked /\ main # "start"
          /\ cm_ifs # 0 /\ interface(cm_ifs).conn = CommandsAt(t.by)
    /\ Whole(t.by) /\ t.stage # "fifo" => t.to = CommandsAt(t.by)
CommandInv ==
    program = "viewer" =>
        /\ main = "start" => mc = "off" /\ threads = <<>>
        /\ \/ threads = <<>> /\ ~asked
           \/ DOMAIN threads = {1} /\ ~first_time /\ ThreadOk(threads[1])

(* There is no thread at the start.                                         *)
LEMMA CommandInit == ClientInit => CommandInv
BY DEF ClientInit, RingInit, DiscoveryInit, CommandInv

(* A step that leaves the threads alone.                                    *)
LEMMA ThreadsKept ==
    ASSUME CommandInv, UNCHANGED <<program, threads, first_time, cm_ifs>>,
           program = "viewer" =>
              /\ mc \in {"done", "off"} /\ main # "start" /\ ~asked => mc' \in {"done", "off"} /\ rx' = rx
              /\ main' = "start" => main = "start" /\ mc' = mc
              /\ asked' => asked \/ \E n \in DOMAIN threads : threads[n].stage = "serving"
    PROVE  CommandInv'
<1> SUFFICES ASSUME program = "viewer" PROVE CommandInv' BY DEF CommandInv
<1>1. main' = "start" => mc' = "off" /\ threads' = <<>> BY DEF CommandInv
<1>2. CASE threads = <<>> /\ ~asked
  <2>1. DOMAIN threads = {} BY <1>2
  <2>2. threads' = <<>> /\ ~asked' BY <1>2, <2>1
  <2> QED BY <1>1, <2>2 DEF CommandInv
<1>3. CASE DOMAIN threads = {1} /\ ~first_time /\ ThreadOk(threads[1])
  <2>1. PICK t : t = threads[1] OBVIOUS
  <2>2. asked' => asked \/ t.stage = "serving" BY <1>3, <2>1
  <2>3. /\ DOMAIN t = ThreadFields
        /\ Whole(t.by) /\ t.stage = "fifo" =>
              /\ mc \in {"done", "off"} /\ ~asked /\ main # "start"
              /\ cm_ifs # 0 /\ interface(cm_ifs).conn = CommandsAt(t.by)
        /\ Whole(t.by) /\ t.stage # "fifo" => t.to = CommandsAt(t.by)
    BY <1>3, <2>1 DEF ThreadOk
  <2>4. Whole(t.by) /\ t.stage = "fifo" =>
              /\ mc' \in {"done", "off"} /\ ~asked' /\ main' # "start"
              /\ cm_ifs' # 0 /\ interface(cm_ifs)' = interface(cm_ifs)
    BY <2>2, <2>3 DEF interface
  <2>5. threads'[1] = t BY <2>1
  <2>6. ThreadOk(t)' <=>
          /\ DOMAIN t = ThreadFields
          /\ Whole(t.by) /\ t.stage = "fifo" =>
                /\ mc' \in {"done", "off"} /\ ~asked' /\ main' # "start"
                /\ cm_ifs' # 0 /\ interface(cm_ifs)'.conn = CommandsAt(t.by)
          /\ Whole(t.by) /\ t.stage # "fifo" => t.to = CommandsAt(t.by)
    BY Zenon DEF ThreadOk, Whole, CommandsAt, InterfaceOf, Take, States
  <2>7. ThreadOk(t)' BY <2>3, <2>4, <2>6
  <2>8. DOMAIN threads' = {1} /\ ~first_time' BY <1>3
  <2> QED BY <1>1, <2>5, <2>7, <2>8 DEF CommandInv
<1> QED BY <1>2, <1>3 DEF CommandInv

(* The answer starts the thread, and ends the discovery when it announces   *)
(* the camera as well.                                                      *)
LEMMA AnswerStarts ==
    ASSUME RecordInv, CommandInv, Answer
    PROVE  CommandInv'
<1> SUFFICES ASSUME program = "viewer" PROVE CommandInv'
  BY DEF CommandInv, Answer
<1>1. /\ mc = "answer" /\ rx' = rx /\ answer' = answer /\ UNCHANGED <<program, asked, main>>
      /\ StartCommandThread(FirstOf("P3_CM"))
      /\ local_exit' = (local_exit /\ FirstOf("P3_DEVICE_BOTH") = -1)
      /\ mc' = IF local_exit' /\ ~jpeg_exit' /\ no_sig_exit THEN "poll" ELSE "done"
  BY DEF Answer, config_abi_resp, viewer_find_ifs, jpeg_find_ifs, NextTurn, GoOn, ringVars
<1>2. main # "start" BY <1>1 DEF CommandInv
<1>3. CASE FirstOf("P3_CM") # -1 /\ first_time
  <2>1. threads = <<>> /\ ~asked BY <1>2, <1>3 DEF CommandInv
  <2>2. PICK t : t = [stage |-> "fifo", to |-> "none", by |-> answer] OBVIOUS
  <2>3. threads' = Append(<<>>, t) /\ ~first_time' /\ cm_ifs' = FirstOf("P3_CM")
    BY <1>1, <1>3, <2>1, <2>2 DEF StartCommandThread
  <2>4. DOMAIN threads' = {1} /\ threads'[1] = t BY <2>3
  <2>5. DOMAIN t = ThreadFields /\ t.stage = "fifo" /\ t.by = answer BY <2>2 DEF ThreadFields
  <2>6. ASSUME Whole(answer)
        PROVE  mc' \in {"done", "off"} /\ cm_ifs' # 0 /\ interface(cm_ifs').conn = CommandsAt(answer)
    <3>1. answer \in Announcements /\ rx = ReadAnnouncement(answer) BY <1>1 DEF RecordInv
    <3>2. FirstOf("P3_DEVICE_BOTH") # -1 BY <2>6, <3>1, FirstOfIs DEF Whole
    <3>3. ~local_exit' BY <1>1, <3>2
    <3>4. mc' = "done" BY <1>1, <3>3
    <3>5. FirstOf("P3_CM") # 0 /\ interface(FirstOf("P3_CM")).conn = CommandsAt(answer)
      BY <1>3, <2>6, <3>1, FirstOfIs DEF Whole, CommandsAt
    <3> QED BY <2>3, <3>4, <3>5
  <2>7. interface(cm_ifs)' = interface(cm_ifs') BY <1>1 DEF interface
  <2>8. ThreadOk(t)' <=>
          /\ DOMAIN t = ThreadFields
          /\ Whole(t.by) /\ t.stage = "fifo" =>
                /\ mc' \in {"done", "off"} /\ ~asked' /\ main' # "start"
                /\ cm_ifs' # 0 /\ interface(cm_ifs)'.conn = CommandsAt(t.by)
          /\ Whole(t.by) /\ t.stage # "fifo" => t.to = CommandsAt(t.by)
    BY Zenon DEF ThreadOk, Whole, CommandsAt, InterfaceOf, Take, States
  <2>9. ThreadOk(t)' BY <1>1, <1>2, <2>1, <2>5, <2>6, <2>7, <2>8
  <2> QED BY <1>1, <1>2, <2>3, <2>4, <2>9 DEF CommandInv
<1>4. CASE ~(FirstOf("P3_CM") # -1 /\ first_time)
  <2>1. UNCHANGED <<threads, first_time, cm_ifs>> BY <1>1, <1>4 DEF StartCommandThread, threadVars
  <2> QED BY <1>1, <1>2, <2>1, ThreadsKept
<1> QED BY <1>3, <1>4

(* The thread takes the address from the table, where it still is.          *)
LEMMA ThreadConnects ==
    ASSUME CommandInv, CommandThread
    PROVE  CommandInv'
<1> SUFFICES ASSUME program = "viewer" PROVE CommandInv'
  BY DEF CommandInv, CommandThread
<1>1. PICK n \in DOMAIN threads : process_cm_ifs(n) BY DEF CommandThread
<1>2. UNCHANGED <<program, mc, rx, asked, main, first_time, cm_ifs>>
  BY <1>1 DEF CommandThread, process_cm_ifs, ringVars
<1>3. main = "start" => mc = "off" /\ threads = <<>> BY DEF CommandInv
<1>4. threads # <<>> BY <1>1
<1>5. DOMAIN threads = {1} /\ ~first_time /\ ThreadOk(threads[1]) BY <1>4 DEF CommandInv
<1>6. n = 1 BY <1>1, <1>5
<1>7. PICK t, to : t = threads[1] /\ to = (IF cm_ifs = 0 THEN "given" ELSE interface(cm_ifs).conn)
  OBVIOUS
<1>8. PICK stage \in {"serving", "ended"} :
         threads' = [threads EXCEPT ![n].stage = stage, ![n].to = to]
  BY <1>1, <1>7, Zenon DEF process_cm_ifs
<1>9. threads[n].stage = "fifo" BY <1>1 DEF process_cm_ifs
<1>10. t.stage = "fifo" /\ threads' = [threads EXCEPT ![1].stage = stage, ![1].to = to]
  BY <1>6, <1>7, <1>8, <1>9
<1>11. PICK u : u = [t EXCEPT !.stage = stage, !.to = to] OBVIOUS
<1>12. DOMAIN threads' = {1} /\ threads'[1] = u BY <1>5, <1>7, <1>10, <1>11
<1>13. DOMAIN t = ThreadFields BY <1>5, <1>7 DEF ThreadOk
<1>14. DOMAIN u = ThreadFields /\ u.stage = stage /\ u.to = to /\ u.by = t.by
  BY <1>11, <1>13 DEF ThreadFields
<1>15. Whole(t.by) => to = CommandsAt(t.by) BY <1>5, <1>7, <1>10 DEF ThreadOk
<1>16. ThreadOk(u)' <=>
          /\ DOMAIN u = ThreadFields
          /\ Whole(u.by) /\ u.stage = "fifo" =>
                /\ mc' \in {"done", "off"} /\ ~asked' /\ main' # "start"
                /\ cm_ifs' # 0 /\ interface(cm_ifs)'.conn = CommandsAt(u.by)
          /\ Whole(u.by) /\ u.stage # "fifo" => u.to = CommandsAt(u.by)
  BY Zenon DEF ThreadOk, Whole, CommandsAt, InterfaceOf, Take, States
<1>17. u.stage # "fifo" BY <1>8, <1>14
<1>18. ThreadOk(u)' BY <1>14, <1>15, <1>16, <1>17
<1> QED BY <1>2, <1>3, <1>4, <1>5, <1>12, <1>18 DEF CommandInv

(* The steps keep the thread right.                                         *)
LEMMA CommandStep == RecordInv /\ CommandInv /\ [ClientNext]_clientVars => CommandInv'
<1> SUFFICES ASSUME RecordInv, CommandInv, [ClientNext]_clientVars PROVE CommandInv' OBVIOUS
<1>1. CASE Answer BY <1>1, AnswerStarts
<1>2. CASE CommandThread BY <1>2, ThreadConnects
<1>3. CASE StartGiven BY <1>3 DEF StartGiven, CommandInv
<1>4. CASE StartDiscovery
  BY <1>4, ThreadsKept DEF StartDiscovery, process_cl_mcast, threadVars, ringVars
<1>5. CASE Discovered \/ LookedAgain
  <2>1. /\ UNCHANGED <<program, threads, first_time, cm_ifs, rx, asked>>
        /\ mc' = "off" /\ main # "start" /\ main' # "start"
    BY <1>5 DEF Discovered, LookedAgain, mcast_cl_destroy, threadVars, ringVars, Reinit
  <2> QED BY <2>1, ThreadsKept
<1>6. CASE LookAgain
  <2>1. UNCHANGED <<program, threads, first_time, cm_ifs>> /\ asked /\ asked' = FALSE /\ main' # "start"
    BY <1>6 DEF LookAgain, BeginReinit, process_cl_mcast, threadVars
  <2> QED BY <2>1, ThreadsKept
<1>7. CASE Loop \/ KernelStores \/ StopAsked
  <2>1. UNCHANGED <<program, threads, first_time, cm_ifs, rx, mc, asked, main>>
    BY <1>7 DEF Loop, OpenRing, RingLoop, TakePacket, RingEmpty, PollReturns, NoReinit, KernelStores,
                Arrive, StopAsked, Stop, mcastVars, discoVars, threadVars
  <2> QED BY <2>1, ThreadsKept
<1>8. CASE Finish \/ JpegStart \/ JpegFrame \/ JpegEnd
  <2>1. UNCHANGED <<program, threads, first_time, cm_ifs, rx, mc, asked>> /\ main' # "start"
    BY <1>8 DEF Finish, JpegStart, JpegFrame, JpegEnd, mcastVars, discoVars, threadVars, ringVars
  <2> QED BY <2>1, ThreadsKept
<1>9. CASE Command
  <2>1. /\ UNCHANGED <<program, threads, first_time, cm_ifs, rx, mc, main>>
        /\ \E n \in DOMAIN threads : threads[n].stage = "serving"
    BY <1>9 DEF Command, mcastVars, discoVars, threadVars
  <2> QED BY <2>1, ThreadsKept
<1>10. CASE ReceiveAny \/ Read \/ PassOver
  <2>1. /\ UNCHANGED <<program, threads, first_time, cm_ifs, asked, main>>
        /\ mc \in {"poll", "read", "answer"}
    BY <1>10 DEF ReceiveAny, Receive, mcast_cl_receive, Read, mcast_cl_read, PassOver, OtherDevice,
                 PollTimeout, threadVars, ringVars
  <2>2. program = "viewer" => main # "start" BY <2>1 DEF CommandInv
  <2> QED BY <2>1, <2>2, ThreadsKept
<1>11. CASE UNCHANGED clientVars
  <2>1. UNCHANGED <<program, threads, first_time, cm_ifs, rx, mc, asked, main>>
    BY <1>11 DEF clientVars, mcastVars, discoVars, threadVars, ringVars
  <2> QED BY <2>1, ThreadsKept
<1> QED
  BY <1>1, <1>2, <1>3, <1>4, <1>5, <1>6, <1>7, <1>8, <1>9, <1>10, <1>11
  DEF ClientNext, MainThread, DiscoveryThread

(* The command thread of the viewer, whenever the fifo lets it go on,       *)
(* connects to the address for commands of the answer it was started by     *)
(* (process_cm_ifs, viewer_find_ifs).                                       *)
THEOREM CommandsAnnounced == ClientSpec => []CommandsToAnnounced
<1>1. CommandInv => CommandsToAnnounced
  <2> SUFFICES ASSUME CommandInv, program = "viewer", NEW n \in DOMAIN threads,
                      threads[n].stage # "fifo", Whole(threads[n].by)
               PROVE  threads[n].to = CommandsAt(threads[n].by)
    BY Zenon DEF CommandsToAnnounced, Whole, CommandsAt
  <2>1. threads # <<>> OBVIOUS
  <2>2. DOMAIN threads = {1} /\ ThreadOk(threads[1]) BY <2>1 DEF CommandInv
  <2> QED BY <2>2 DEF ThreadOk
<1> QED BY <1>1, RecordInit, RecordStep, CommandInit, CommandStep, PTL DEF ClientSpec

----------------------------------------------------------------------------
(* The receive ring is a queue                                              *)

(* The k-th slot from slot j on.                                            *)
At(j, k) == (j + k - 1) % R
RingTypes ==
    /\ arrived \in 0 .. Packets /\ slot \in [Slots -> 0 .. Packets]
    /\ head \in Slots /\ i \in Slots
    /\ restarts \in Nat
InARow(n) ==
    /\ head = At(i, n + 1)
    /\ \A k \in 1 .. R : slot[At(i, k)] # 0 <=> k <= n
NotAsked == ~asked /\ pc # "mcast" /\ \E n \in 0 .. R : InARow(n)
RingInv == RingTypes /\ (restarts = 0 => NotAsked)

(* The packets in n slots from slot j on.                                   *)
Row(packets, j, n) == [k \in 1 .. n |-> packets[At(j, k)]]
(* How many slots in a row are marked from slot j on.                       *)
RowLength(packets, j) == CHOOSE n \in 0 .. R :
    /\ \A k \in 1 .. n : packets[At(j, k)] # 0
    /\ n < R => packets[At(j, n + 1)] = 0
Queued(n) == Row(slot, i, n)

----------------------------------------------------------------------------
(* Slots                                                                    *)

(* Slots are counted from j on, round the end of the ring.                  *)
LEMMA Around ==
    ASSUME NEW j \in Slots, NEW k \in 1 .. R + 1
    PROVE  /\ At(j, k) = IF j + k - 1 < R THEN j + k - 1 ELSE j + k - 1 - R
           /\ At(j, k) \in Slots
<1>1. j \in Nat /\ j < R /\ R \in Nat \ {0} /\ k \in Nat
  BY RingAssumption DEF Slots
<1> DEFINE a == j + k - 1
<1>2. a \in Nat /\ a < 2 * R BY <1>1
<1>3. a % R = IF a < R THEN a ELSE a - R
  <2> HIDE DEF a
  <2> QED BY <1>1, <1>2
<1> QED BY <1>1, <1>2, <1>3 DEF At, Slots

(* Each slot is counted once, the one after the last is j again, and        *)
(* counting from the next slot on is one ahead.                             *)
LEMMA Counted ==
    ASSUME NEW j \in Slots
    PROVE  /\ At(j, 1) = j /\ At(j, R + 1) = j
           /\ \A k, m \in 1 .. R : At(j, k) = At(j, m) => k = m
           /\ Following(j) \in Slots
           /\ \A k \in 1 .. R : /\ At(j, k + 1) = Following(At(j, k))
                               /\ At(Following(j), k) = At(j, k + 1)
<1>1. j \in Nat /\ j < R /\ R \in Nat \ {0} /\ 1 \in 1 .. R + 1 /\ R + 1 \in 1 .. R + 1
  BY RingAssumption DEF Slots
<1>2. At(j, 1) = j /\ At(j, R + 1) = j BY <1>1, Around
<1>3. ASSUME NEW k \in 1 .. R, NEW m \in 1 .. R, At(j, k) = At(j, m) PROVE k = m
  BY <1>1, <1>3, Around
<1>4. Following(j) \in Slots BY <1>1 DEF Following, Slots
<1>5. ASSUME NEW k \in 1 .. R
      PROVE  /\ At(j, k + 1) = Following(At(j, k))
             /\ At(Following(j), k) = At(j, k + 1)
  <2>1. k + 1 \in 1 .. R + 1 /\ k \in 1 .. R + 1 BY <1>1
  <2> QED BY <1>1, <1>4, <2>1, Around DEF Following
<1> QED BY <1>2, <1>3, <1>4, <1>5

(* When the first n slots are the marked ones, n is how many are marked.    *)
LEMMA LengthIs ==
    ASSUME NEW packets, NEW j, NEW n \in 0 .. R,
           \A k \in 1 .. R : packets[At(j, k)] # 0 <=> k <= n
    PROVE  RowLength(packets, j) = n
<1> DEFINE P(m) == /\ \A k \in 1 .. m : packets[At(j, k)] # 0
                   /\ m < R => packets[At(j, m + 1)] = 0
<1>1. R \in Nat \ {0} BY RingAssumption
<1>2. P(n) BY <1>1
<1>3. \A m \in 0 .. R : P(m) => m = n BY <1>1
<1> QED BY <1>2, <1>3 DEF RowLength

(* What waits is what is in the marked slots.                               *)
LEMMA WaitingIs ==
    /\ Waiting = Row(slot, i, RowLength(slot, i))
    /\ Waiting' = Row(slot', i', RowLength(slot', i'))
BY DEF Waiting, Row, RowLength, At

(* It is a sequence of packets.                                             *)
LEMMA RowSeq ==
    ASSUME NEW packets \in [Slots -> 0 .. Packets], NEW j \in Slots, NEW n \in 0 .. R
    PROVE  /\ Row(packets, j, n) \in Seq(Nat) /\ Len(Row(packets, j, n)) = n
           /\ \A k \in 1 .. n : Row(packets, j, n)[k] = packets[At(j, k)]
<1>1. R \in Nat \ {0} BY RingAssumption
<1>2. \A k \in 1 .. n : k \in 1 .. R + 1 BY <1>1
<1>3. \A k \in 1 .. n : packets[At(j, k)] \in Nat BY <1>2, Around
<1> QED BY <1>3 DEF Row

----------------------------------------------------------------------------
(* The steps, as long as no restart was asked for                           *)

(* With fewer than R packets waiting the one that arrives is appended, and  *)
(* otherwise it is lost.                                                    *)
LEMMA ArriveAppends ==
    ASSUME RingTypes, Arrive, NEW n \in 0 .. R, InARow(n)
    PROVE  /\ arrived' \in 1 .. Packets /\ RingTypes'
           /\ n < R => InARow(n + 1)' /\ Queued(n + 1)' = Append(Queued(n), arrived')
           /\ n = R => InARow(n)' /\ Queued(n)' = Queued(n)
<1>1. /\ arrived' \in 1 .. Packets /\ arrived' # 0 /\ i' = i /\ UNCHANGED restarts
      /\ R \in Nat \ {0} /\ i \in Slots
  BY RingAssumption DEF Arrive, RingTypes
<1>2. CASE n < R
  <2>1. n + 1 \in 1 .. R /\ head = At(i, n + 1) /\ slot[head] = 0
    BY <1>1, <1>2 DEF InARow
  <2>2. slot' = [slot EXCEPT ![head] = arrived'] /\ head' = Following(head)
    BY <2>1 DEF Arrive
  <2>3. RingTypes'
    BY <1>1, <2>2, RingAssumption DEF RingTypes, Slots, Following
  <2>4. ASSUME NEW k \in 1 .. R
        PROVE  slot'[At(i, k)] = IF k = n + 1 THEN arrived' ELSE slot[At(i, k)]
    <3>1. At(i, k) \in Slots BY <1>1, Around
    <3>2. At(i, k) = head <=> k = n + 1 BY <1>1, <2>1, Counted
    <3> QED BY <2>2, <3>1, <3>2 DEF RingTypes
  <2>5. head' = At(i, n + 1 + 1) BY <1>1, <2>1, <2>2, Counted
  <2>6. InARow(n + 1)'
    BY <1>1, <1>2, <2>4, <2>5 DEF InARow
  <2>7. Queued(n + 1)' = Append(Queued(n), arrived')
    <3>1. /\ Queued(n) \in Seq(Nat) /\ Len(Queued(n)) = n
          /\ \A k \in 1 .. n : Queued(n)[k] = slot[At(i, k)]
      BY RowSeq DEF RingTypes, Queued
    <3>2. /\ Queued(n + 1)' \in Seq(Nat) /\ Len(Queued(n + 1)') = n + 1
          /\ \A k \in 1 .. n + 1 : Queued(n + 1)'[k] = slot'[At(i, k)]
      <4>1. slot' \in [Slots -> 0 .. Packets] /\ n + 1 \in 0 .. R BY <1>1, <2>1, <2>3 DEF RingTypes
      <4>2. Queued(n + 1)' = Row(slot', i, n + 1) BY <1>1 DEF Queued
      <4>3. PICK m \in 0 .. R : m = n + 1 BY <4>1
      <4>4. /\ Row(slot', i, m) \in Seq(Nat) /\ Len(Row(slot', i, m)) = m
            /\ \A k \in 1 .. m : Row(slot', i, m)[k] = slot'[At(i, k)]
        BY <1>1, <4>1, RowSeq
      <4> QED BY <4>2, <4>3, <4>4
    <3>3. /\ Append(Queued(n), arrived') \in Seq(Nat)
          /\ Len(Append(Queued(n), arrived')) = n + 1
          /\ \A k \in 1 .. n : Append(Queued(n), arrived')[k] = Queued(n)[k]
          /\ Append(Queued(n), arrived')[n + 1] = arrived'
      BY <1>1, <3>1, AppendProperties, RingAssumption
    <3>4. ASSUME NEW k \in 1 .. n + 1 PROVE Queued(n + 1)'[k] = Append(Queued(n), arrived')[k]
      <4>1. k \in 1 .. R /\ (k = n + 1 \/ k \in 1 .. n) BY <1>1, <1>2
      <4>2. slot'[At(i, k)] = IF k = n + 1 THEN arrived' ELSE slot[At(i, k)] BY <2>4, <4>1
      <4> QED BY <3>1, <3>2, <3>3, <4>1, <4>2
    <3> QED BY <3>2, <3>3, <3>4, SeqEqual
  <2> QED BY <1>1, <1>2, <2>3, <2>6, <2>7
<1>3. CASE n = R
  <2>1. head = i /\ slot[head] # 0
    <3>1. head = At(i, R + 1) /\ At(i, R + 1) = i /\ At(i, 1) = i
      BY <1>1, <1>3, Counted DEF InARow
    <3> QED BY <1>1, <1>3, <3>1 DEF InARow
  <2>2. UNCHANGED <<slot, head>> BY <2>1 DEF Arrive
  <2> QED BY <1>1, <1>3, <2>2 DEF RingTypes, InARow, Queued, Row
<1> QED BY <1>1, <1>2, <1>3

(* The loop takes the packet that has waited longest.                       *)
LEMMA TakeTakesHead ==
    ASSUME RingTypes, TakePacket, NEW n \in 0 .. R, InARow(n)
    PROVE  /\ n > 0 /\ RingTypes' /\ InARow(n - 1)'
           /\ Queued(n) # <<>> /\ last' = Head(Queued(n)) /\ Queued(n - 1)' = Tail(Queued(n))
<1>1. R \in Nat \ {0} /\ 1 \in 1 .. R /\ At(i, 1) = i /\ i \in Slots
  BY RingAssumption, Counted DEF RingTypes
<1>2. n \in 1 .. R /\ n - 1 \in 0 .. R /\ n - 1 + 1 = n
  BY <1>1 DEF TakePacket, InARow
<1>3. slot' = [slot EXCEPT ![i] = 0] /\ i' = Following(i) /\ head' = head /\ last' = slot[i]
  BY DEF TakePacket
<1>4. RingTypes' BY <1>1, <1>3, Counted, RingAssumption DEF RingTypes, TakePacket
<1>5. \A k \in 1 .. R : At(i', k) = At(i, k + 1)
  BY <1>1, <1>3, Counted
<1>6. ASSUME NEW k \in 1 .. R - 1
      PROVE  /\ k \in 1 .. R /\ k + 1 \in 1 .. R
             /\ slot'[At(i', k)] = slot[At(i, k + 1)]
  <2>1. k \in 1 .. R /\ k + 1 \in 1 .. R /\ k + 1 \in 1 .. R + 1 /\ k + 1 # 1 BY <1>1
  <2>2. At(i, k + 1) # i BY <1>1, <2>1, Counted
  <2>3. At(i, k + 1) \in Slots BY <1>1, <2>1, Around
  <2> QED BY <1>3, <1>5, <2>1, <2>2, <2>3 DEF RingTypes
<1>7. slot'[At(i', R)] = 0
  <2>1. R \in 1 .. R BY <1>1
  <2>2. At(i', R) = i BY <1>1, <1>5, <2>1, Counted
  <2> QED BY <1>1, <1>3, <2>2 DEF RingTypes
<1>8. InARow(n - 1)'
  <2>1. head' = At(i', n - 1 + 1) BY <1>2, <1>3, <1>5 DEF InARow
  <2>2. ASSUME NEW k \in 1 .. R PROVE slot'[At(i', k)] # 0 <=> k <= n - 1
    <3>1. CASE k = R BY <1>1, <1>2, <1>7, <3>1
    <3>2. CASE k # R
      <4>1. k \in 1 .. R - 1 BY <1>1, <3>2
      <4> QED BY <1>1, <1>2, <1>6, <4>1 DEF InARow
    <3> QED BY <3>1, <3>2
  <2> QED BY <2>1, <2>2 DEF InARow
<1>9. Queued(n) # <<>> /\ last' = Head(Queued(n)) /\ Queued(n - 1)' = Tail(Queued(n))
  <2>1. /\ Queued(n) \in Seq(Nat) /\ Len(Queued(n)) = n
        /\ \A k \in 1 .. n : Queued(n)[k] = slot[At(i, k)]
    BY RowSeq DEF RingTypes, Queued
  <2>2. /\ Queued(n - 1)' \in Seq(Nat) /\ Len(Queued(n - 1)') = n - 1
        /\ \A k \in 1 .. n - 1 : Queued(n - 1)'[k] = slot'[At(i', k)]
    BY <1>2, <1>4, RowSeq DEF RingTypes, Queued
  <2>3. Queued(n) # <<>> /\ Queued(n)[1] = slot[i] BY <1>1, <1>2, <2>1
  <2>4. /\ Tail(Queued(n)) \in Seq(Nat) /\ Len(Tail(Queued(n))) = n - 1
        /\ \A k \in 1 .. n - 1 : Tail(Queued(n))[k] = Queued(n)[k + 1]
    BY <2>1, <2>3, HeadTailProperties
  <2>5. ASSUME NEW k \in 1 .. n - 1 PROVE Queued(n - 1)'[k] = Tail(Queued(n))[k]
    <3>1. k + 1 \in 1 .. n /\ k \in 1 .. R - 1 BY <1>1, <1>2
    <3> QED BY <1>6, <2>1, <2>2, <2>4, <3>1
  <2>6. Queued(n - 1)' = Tail(Queued(n)) BY <2>2, <2>4, <2>5, SeqEqual
  <2> QED BY <1>3, <2>1, <2>3, <2>6
<1> QED BY <1>1, <1>2, <1>4, <1>8, <1>9

----------------------------------------------------------------------------
(* The refinement                                                           *)

(* The initial state maps to the empty queue.                               *)
LEMMA RingInitially == RingInit => RingInv /\ Queue!QueueInit
<1> SUFFICES ASSUME RingInit PROVE RingInv /\ Queue!QueueInit OBVIOUS
<1>1. R \in Nat \ {0} /\ 0 \in Slots /\ 0 \in 0 .. R BY RingAssumption DEF Slots
<1>2. RingTypes BY <1>1, RingAssumption DEF RingInit, RingTypes
<1>3. InARow(0)
  <2>1. head = At(i, 0 + 1) BY <1>1, Counted DEF RingInit
  <2>2. \A k \in 1 .. R : slot[At(i, k)] = 0 BY <1>1, Around DEF RingInit
  <2> QED BY <2>1, <2>2 DEF InARow
<1>4. RingInv BY <1>1, <1>2, <1>3 DEF RingInv, NotAsked, RingInit
<1>5. Waiting = <<>>
  <2>1. RowLength(slot, i) = 0 BY <1>1, <1>3, LengthIs DEF InARow
  <2>2. Row(slot, i, 0) \in Seq(Nat) /\ Len(Row(slot, i, 0)) = 0
    BY <1>1, <1>2, RowSeq DEF RingTypes
  <2> QED BY <2>1, <2>2, WaitingIs, EmptySeq
<1> QED BY <1>4, <1>5 DEF Queue!QueueInit, RingInit

(* A step that neither stores nor takes a packet.                           *)
LEMMA RingOtherStep ==
    ASSUME RingInv, restarts' \in Nat, UNCHANGED <<slot, head, arrived>>,
           restarts' = 0 => restarts = 0 /\ i' = i /\ ~asked' /\ pc' # "mcast",
           i' \in Slots
    PROVE  RingInv'
<1>1. RingTypes' BY DEF RingInv, RingTypes
<1>2. restarts' = 0 => NotAsked' BY DEF RingInv, NotAsked, InARow
<1> QED BY <1>1, <1>2 DEF RingInv

(* Every step keeps the invariant, and until a restart is asked for it maps *)
(* to a step of the queue or to a stutter.                                  *)
LEMMA RingStepMaps ==
    ASSUME RingInv, [RingNext]_ringVars
    PROVE  /\ RingInv'
           /\ restarts' = 0 => FullOrKept /\ [Queue!QueueNext]_<<Waiting, last>>
<1>1. CASE Arrive
  <2>1. RingTypes'
    <3>1. arrived' \in 1 .. Packets BY <1>1, RingAssumption DEF Arrive, RingInv, RingTypes
    <3>2. Following(head) \in Slots BY Counted DEF RingInv, RingTypes
    <3> QED BY <1>1, <3>1, <3>2 DEF Arrive, RingInv, RingTypes
  <2>2. CASE restarts # 0
    BY <1>1, <2>1, <2>2 DEF RingInv, Arrive
  <2>3. CASE restarts = 0
    <3>1. PICK n \in 0 .. R : InARow(n) BY <2>3 DEF RingInv, NotAsked
    <3>2. /\ arrived' \in 1 .. Packets /\ n \in Nat /\ R \in Nat
          /\ n < R => InARow(n + 1)' /\ Queued(n + 1)' = Append(Queued(n), arrived')
          /\ n = R => InARow(n)' /\ Queued(n)' = Queued(n)
      BY <1>1, <3>1, ArriveAppends, RingAssumption DEF RingInv
    <3>3. Waiting = Queued(n) /\ Queued(n) \in Seq(Nat) /\ Len(Queued(n)) = n
      <4>1. RowLength(slot, i) = n BY <3>1, LengthIs DEF InARow
      <4> QED BY <4>1, WaitingIs, RowSeq DEF RingInv, RingTypes, Queued
    <3>4. UNCHANGED <<restarts, asked, pc, last>> BY <1>1 DEF Arrive
    <3>5. CASE n < R
      <4>1. PICK m \in 0 .. R : m = n + 1 BY <3>2, <3>5
      <4>2. InARow(m)' /\ Queued(m)' = Append(Queued(n), arrived') BY <3>2, <3>5, <4>1
      <4>3. Waiting' = Queued(m)'
        <5>1. RowLength(slot', i') = m BY <4>2, LengthIs DEF InARow
        <5> QED BY <5>1, WaitingIs DEF Queued
      <4>4. Waiting' = Append(Waiting, arrived') BY <3>3, <4>2, <4>3
      <4>5. Len(Waiting') = Len(Waiting) + 1 /\ Len(Waiting) < R
        BY <3>2, <3>3, <3>5, <4>4
      <4>6. FullOrKept BY <4>5, <3>3, <3>2 DEF FullOrKept
      <4>7. Queue!Come BY <3>2, <3>4, <4>4, <4>5 DEF Queue!Come
      <4>8. RingInv' BY <2>1, <2>3, <3>4, <4>2 DEF RingInv, NotAsked
      <4> QED BY <4>6, <4>7, <4>8 DEF Queue!QueueNext
    <3>6. CASE n = R
      <4>1. InARow(n)' /\ Queued(n)' = Queued(n) BY <3>2, <3>6
      <4>2. Waiting' = Queued(n)'
        <5>1. RowLength(slot', i') = n BY <4>1, LengthIs DEF InARow
        <5> QED BY <5>1, WaitingIs DEF Queued
      <4>3. Waiting' = Waiting /\ ~(Len(Waiting) < R) BY <3>2, <3>3, <3>6, <4>1, <4>2
      <4>4. RingInv' BY <2>1, <2>3, <3>4, <4>1 DEF RingInv, NotAsked
      <4> QED BY <3>4, <4>3, <4>4 DEF FullOrKept
    <3> QED BY <3>2, <3>5, <3>6
  <2> QED BY <2>2, <2>3
<1>2. CASE TakePacket
  <2>1. CASE restarts # 0
    <3>1. RingTypes' BY <1>2, Counted, RingAssumption DEF TakePacket, RingInv, RingTypes
    <3> QED BY <1>2, <2>1, <3>1 DEF RingInv, TakePacket
  <2>2. CASE restarts = 0
    <3>1. PICK n \in 0 .. R : InARow(n) BY <2>2 DEF RingInv, NotAsked
    <3>2. /\ n > 0 /\ n \in Nat /\ R \in Nat /\ RingTypes' /\ InARow(n - 1)'
          /\ Queued(n) # <<>> /\ last' = Head(Queued(n)) /\ Queued(n - 1)' = Tail(Queued(n))
      BY <1>2, <3>1, TakeTakesHead, RingAssumption DEF RingInv
    <3>3. PICK m \in 0 .. R : m = n - 1 BY <3>2
    <3>4. InARow(m)' /\ Queued(m)' = Tail(Queued(n)) BY <3>2, <3>3
    <3>5. Waiting = Queued(n)
      <4>1. RowLength(slot, i) = n BY <3>1, LengthIs DEF InARow
      <4> QED BY <4>1, WaitingIs DEF Queued
    <3>6. Waiting' = Queued(m)'
      <4>1. RowLength(slot', i') = m BY <3>4, LengthIs DEF InARow
      <4> QED BY <4>1, WaitingIs DEF Queued
    <3>7. UNCHANGED <<restarts, asked, pc, arrived>> BY <1>2 DEF TakePacket
    <3>8. RingInv' BY <2>2, <3>2, <3>4, <3>7 DEF RingInv, NotAsked
    <3>9. Queue!Take BY <3>2, <3>4, <3>5, <3>6 DEF Queue!Take
    <3> QED BY <3>7, <3>8, <3>9 DEF Queue!QueueNext, FullOrKept
  <2> QED BY <2>1, <2>2
<1>3. CASE OpenRing \/ RingEmpty \/ PollReturns \/ NoReinit \/ Stop \/ BeginReinit
           \/ Reinit \/ AskReinit \/ UNCHANGED ringVars
  <2>1. UNCHANGED <<arrived, slot, head, last>>
    BY <1>3 DEF OpenRing, RingEmpty, PollReturns, NoReinit, Stop, BeginReinit, Reinit,
                AskReinit, ringVars
  <2>2. i' \in Slots /\ restarts' \in Nat
    <3>1. 0 \in Slots BY RingAssumption DEF Slots
    <3> QED BY <1>3, <3>1 DEF OpenRing, RingEmpty, PollReturns, NoReinit, Stop, BeginReinit,
                        Reinit, AskReinit, ringVars, RingInv, RingTypes
  <2>3. restarts' = 0 => restarts = 0 /\ i' = i /\ ~asked' /\ pc' # "mcast"
    BY <1>3 DEF OpenRing, RingEmpty, PollReturns, NoReinit, Stop, BeginReinit, Reinit,
                AskReinit, ringVars, RingInv, NotAsked, RingTypes, LoopTest
  <2>4. RingInv' BY <2>1, <2>2, <2>3, RingOtherStep
  <2>5. restarts' = 0 => Waiting' = Waiting BY <2>1, <2>3, WaitingIs
  <2> QED BY <2>1, <2>4, <2>5 DEF FullOrKept
<1> QED BY <1>1, <1>2, <1>3 DEF RingNext, RingLoop

(* Until the user asks for a restart the ring implements a queue of R       *)
(* packets, for every R: it loses a packet only when it is full, and keeps  *)
(* the order of the others.                                                 *)
THEOREM ImplementsQueue == RingSpec => IsAQueue
<1>1. RingInv /\ [RingNext]_ringVars => RingInv' BY RingStepMaps
<1>2. RingSpec => []RingInv BY <1>1, RingInitially, PTL DEF RingSpec
<1>3. RingInv /\ [RingNext]_ringVars =>
        [restarts' = 0 => FullOrKept /\ [Queue!QueueNext]_<<Waiting, last>>]_ringVars
  BY RingStepMaps
<1> QED BY <1>2, <1>3, RingInitially, PTL DEF RingSpec, IsAQueue

(* So it does in the client: the discovery, the command threads and the     *)
(* reader of frames touch the ring only as RingNext does.                   *)
THEOREM ClientQueue == ClientSpec => IsAQueue
<1>1. ClientInit => RingInit BY DEF ClientInit
<1>2. [ClientNext]_clientVars => [RingNext]_ringVars
  <2> SUFFICES ASSUME [ClientNext]_clientVars PROVE RingNext \/ UNCHANGED ringVars OBVIOUS
  <2>1. MainThread => RingNext \/ UNCHANGED ringVars
    BY DEF MainThread, StartDiscovery, StartGiven, Discovered, Loop, LookAgain, LookedAgain, Finish,
           JpegStart, JpegEnd, RingNext
  <2>2. DiscoveryThread \/ ReceiveAny \/ CommandThread \/ JpegFrame => UNCHANGED ringVars
    BY DEF DiscoveryThread, Read, Answer, PassOver, ReceiveAny, Receive, CommandThread, JpegFrame
  <2>3. Command \/ StopAsked \/ KernelStores => RingNext
    BY DEF Command, StopAsked, KernelStores, RingNext
  <2>4. UNCHANGED clientVars => UNCHANGED ringVars BY DEF clientVars
  <2> QED BY <2>1, <2>2, <2>3, <2>4 DEF ClientNext
<1>3. ClientSpec => RingSpec BY <1>1, <1>2, PTL DEF ClientSpec, RingSpec
<1> QED BY <1>3, ImplementsQueue
=============================================================================
