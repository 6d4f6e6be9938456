----------------------------- MODULE AbiStream -----------------------------
(***************************************************************************)
(* One connection between two controllers, byte by byte: the send buffer   *)
(* of abi_mem2fd_task_send, the kernel's bounded stream, and the framed    *)
(* receiver abi_ioc_recv.  A packet is a length header followed by a body; *)
(* its bytes are identified by their packet and place.                     *)
(*                                                                         *)
(* poll is level triggered: a peer acts when an event it waits for holds.  *)
(* While a peer's output is blocked it does not wait for input.            *)
(***************************************************************************)
EXTENDS Integers, FiniteSets, Sequences

CONSTANTS
    Peers, Other,   \* the two ends of the connection, and the opposite end
    Packets,        \* packets, each sent at most once
    From,           \* packet -> the peer that sends it
    Body,           \* packet -> bytes after the header
    Header,         \* bytes of the length header
    TxMax, RxMax,   \* ioc->buff_tx and ioc->buff_rx
    Wire,           \* bytes the kernel holds in each direction
    Commands        \* packets written with abi_writer_task_reset first

ASSUME PeersAssumption ==
    /\ \A e \in Peers : Other[e] \in Peers /\ Other[Other[e]] = e
    /\ \A e, f \in Peers : f \in {e, Other[e]}
ASSUME PacketAssumption ==
    /\ From \in [Packets -> Peers] /\ Body \in [Packets -> Nat]
    /\ Commands \subseteq Packets
ASSUME SizeAssumption ==
    /\ Header \in Nat \ {0} /\ TxMax \in Nat /\ RxMax \in Nat
    /\ Wire \in Nat \ {0}

VARIABLES
    todo,       \* peer -> bytes of its send buffer that are not written yet
    done,       \* peer -> bytes at the start of the buffer already written
    wire,       \* peer -> bytes the kernel carries from it
    events,     \* peer -> what its poll waits for
    head,       \* peer -> header bytes received so far
    body,       \* peer -> body bytes received so far
    rest,       \* peer -> body bytes to come, or Length while the header is read
    alive,      \* the connection is up
    taken,      \* peer -> packets its send buffer took
    got,        \* peer -> packets given to its rx_cb; Torn when not a packet
    cut,        \* peer -> a command overwrote a packet that was half written
    fresh       \* packets not sent yet

sendVars == <<todo, done, wire>>
recvVars == <<head, body, rest, got>>
vars == <<sendVars, recvVars, events, alive, taken, cut, fresh>>

Length == -1
Torn == "torn"
ASSUME TornAssumption == Torn \notin Packets

HeaderOf(p) == [i \in 1 .. Header |-> <<p, i>>]
BodyOf(p) == [i \in 1 .. Body[p] |-> <<p, Header + i>>]
BytesOf(p) == HeaderOf(p) \o BodyOf(p)

Least(a, b) == IF a < b THEN a ELSE b
Rest(s, n) == SubSeq(s, n + 1, Len(s))

StreamInit ==
    /\ todo = [e \in Peers |-> <<>>] /\ done = [e \in Peers |-> 0]
    /\ wire = [e \in Peers |-> <<>>]
    /\ events = [e \in Peers |-> {"IN"}]
    /\ head = [e \in Peers |-> <<>>] /\ body = [e \in Peers |-> <<>>]
    /\ rest = [e \in Peers |-> Length]
    /\ alive = TRUE
    /\ taken = [e \in Peers |-> <<>>] /\ got = [e \in Peers |-> <<>>]
    /\ cut = [e \in Peers |-> FALSE]
    /\ fresh = Packets

-----------------------------------------------------------------------------
(* Sending *)

Room(e) == Wire - Len(wire[e])

(* Fault: a short write leaves the events as they are.                      *)
WaitNoPollout(ev, left) == IF left > 0 THEN ev ELSE ev \cup {"IN"}

(* What poll waits for after a write: with bytes left, output only.         *)
WaitFor(ev, left) == IF left > 0 THEN {"OUT"} ELSE ev \cup {"IN"}

(* write() of bytes that start at offset o of peer e's buffer: EAGAIN, a    *)
(* short write, or all of them.  With nothing to write the wait for output  *)
(* ends.                                                                   *)
Write(e, bytes, o) ==
    \/ /\ bytes = <<>>
       /\ todo' = [todo EXCEPT ![e] = <<>>] /\ done' = [done EXCEPT ![e] = o]
       /\ events' = [events EXCEPT ![e] = {"IN"}]
       /\ UNCHANGED wire
    \/ /\ bytes # <<>>
       /\ \E n \in IF Room(e) = 0 THEN {0} ELSE 1 .. Least(Room(e), Len(bytes)) :
            /\ wire' = [wire EXCEPT ![e] = @ \o SubSeq(bytes, 1, n)]
            /\ todo' = [todo EXCEPT ![e] = Rest(bytes, n)]
            /\ done' = [done EXCEPT ![e] = IF n = Len(bytes) THEN 0 ELSE o + n]
            /\ events' = [events EXCEPT ![e] = WaitFor(@, Len(bytes) - n)]

(* Fault: a packet that does not fit is cut to the room that is left.       *)
AppendWhatFits(e, p) ==
    LET n == Least(TxMax - Len(todo[e]), Len(BytesOf(p)))
        bytes == todo[e] \o SubSeq(BytesOf(p), 1, n) IN
    /\ Write(e, bytes, IF Len(bytes) + done[e] > TxMax THEN 0 ELSE done[e])
    /\ taken' = [taken EXCEPT ![e] = Append(@, p)]

(* abi_mem2fd_task_send: the packet is appended whole, after moving the     *)
(* unwritten bytes to the front when there is no room behind them, or it is *)
(* dropped whole; then the buffer is written.                               *)
AppendPacket(e, p) ==
    IF Len(todo[e]) + Len(BytesOf(p)) <= TxMax
    THEN LET bytes == todo[e] \o BytesOf(p) IN
         /\ Write(e, bytes, IF Len(bytes) + done[e] > TxMax THEN 0 ELSE done[e])
         /\ taken' = [taken EXCEPT ![e] = Append(@, p)]
    ELSE Write(e, todo[e], done[e]) /\ UNCHANGED taken

Send(e, p) ==
    /\ alive /\ p \in fresh \ Commands /\ From[p] = e
    /\ fresh' = fresh \ {p}
    /\ AppendPacket(e, p)
    /\ UNCHANGED <<recvVars, alive, cut>>

(* The send buffer starts in the middle of a packet.                        *)
HalfWritten(e) == todo[e] # <<>> /\ todo[e][1][2] # 1

(* abi_writer_task_reset, abiw_write_task, abi_task_send: whatever is still *)
(* in the buffer is discarded for the command; a command that does not fit  *)
(* leaves the buffer empty (todo_fb is 0).                                  *)
Command(e, p) ==
    /\ alive /\ p \in fresh \cap Commands /\ From[p] = e
    /\ fresh' = fresh \ {p}
    /\ cut' = [cut EXCEPT ![e] = @ \/ HalfWritten(e)]
    /\ IF Len(BytesOf(p)) <= TxMax
       THEN Write(e, BytesOf(p), 0) /\ taken' = [taken EXCEPT ![e] = Append(@, p)]
       ELSE Write(e, <<>>, 0) /\ UNCHANGED taken
    /\ UNCHANGED <<recvVars, alive>>

CanFlush(e) == alive /\ "OUT" \in events[e] /\ Room(e) > 0

(* POLLOUT in abi_io_iterator: abi_task_send without data.                  *)
Flush(e) ==
    /\ CanFlush(e)
    /\ Write(e, todo[e], done[e])
    /\ UNCHANGED <<recvVars, alive, taken, cut, fresh>>

-----------------------------------------------------------------------------
(* Receiving *)

(* The body length a complete header announces.                             *)
Announced(h) == Body[h[1][1]]

(* What rx_cb is given: a packet when header and body are one packet's.     *)
Unframe(h, b) ==
    IF h = HeaderOf(h[1][1]) /\ b = BodyOf(h[1][1]) THEN h[1][1] ELSE Torn

CanReceive(e) == alive /\ "IN" \in events[e] /\ wire[Other[e]] # <<>>

(* m of the n body bytes to come, from w: with the last the packet is handed *)
(* to rx_cb and the next header is awaited.                                 *)
TakeBody(e, h, n, w, m) ==
    LET b == body[e] \o SubSeq(w, 1, m) IN
    /\ wire' = [wire EXCEPT ![Other[e]] = Rest(w, m)]
    /\ IF m < n
       THEN /\ head' = [head EXCEPT ![e] = h]
            /\ body' = [body EXCEPT ![e] = b]
            /\ rest' = [rest EXCEPT ![e] = n - m]
            /\ UNCHANGED got
       ELSE /\ head' = [head EXCEPT ![e] = <<>>]
            /\ body' = [body EXCEPT ![e] = <<>>]
            /\ rest' = [rest EXCEPT ![e] = Length]
            /\ got' = [got EXCEPT ![e] = Append(@, Unframe(h, b))]

(* The second half of abi_ioc_recv, with header h, n body bytes to come and *)
(* w on the wire: EAGAIN, or some of the body.  An empty body (n = 0) reads *)
(* as the peer's end of stream and closes the connection.                   *)
ReadBody(e, h, n, w) ==
    \/ /\ n = 0
       /\ alive' = FALSE /\ wire' = [wire EXCEPT ![Other[e]] = w]
       /\ UNCHANGED recvVars
    \/ /\ n > 0 /\ w = <<>>
       /\ wire' = [wire EXCEPT ![Other[e]] = w]
       /\ head' = [head EXCEPT ![e] = h] /\ rest' = [rest EXCEPT ![e] = n]
       /\ UNCHANGED <<body, got, alive>>
    \/ /\ \E m \in 1 .. Least(n, Len(w)) : TakeBody(e, h, n, w, m)
       /\ UNCHANGED alive

(* abi_ioc_recv_header: some header bytes; a complete header that announces *)
(* more than the buffer holds ends the connection, any other goes on to the *)
(* body at once.                                                            *)
ReadHeader(e) ==
    LET w == wire[Other[e]] IN
    \E n \in 1 .. Least(Header - Len(head[e]), Len(w)) :
        LET h == head[e] \o SubSeq(w, 1, n) IN
        \/ /\ Len(h) < Header
           /\ wire' = [wire EXCEPT ![Other[e]] = Rest(w, n)]
           /\ head' = [head EXCEPT ![e] = h]
           /\ UNCHANGED <<body, rest, got, alive>>
        \/ /\ Len(h) = Header /\ Announced(h) > RxMax
           /\ alive' = FALSE /\ wire' = [wire EXCEPT ![Other[e]] = Rest(w, n)]
           /\ UNCHANGED recvVars
        \/ /\ Len(h) = Header /\ Announced(h) <= RxMax
           /\ ReadBody(e, h, Announced(h), Rest(w, n))

Receive(e) ==
    /\ CanReceive(e)
    /\ IF rest[e] = Length THEN ReadHeader(e)
       ELSE ReadBody(e, head[e], rest[e], wire[Other[e]])
    /\ UNCHANGED <<todo, done, events, taken, cut, fresh>>

-----------------------------------------------------------------------------

StreamNext ==
    \E e \in Peers :
        \/ Flush(e) \/ Receive(e)
        \/ \E p \in Packets : Send(e, p) \/ Command(e, p)

StreamSpec == StreamInit /\ [][StreamNext]_vars
(* Both ends call abi_io_iterator for ever and poll reports what is ready.  *)
FairStreamSpec ==
    StreamSpec /\ \A e \in Peers : WF_vars(Flush(e)) /\ WF_vars(Receive(e))

-----------------------------------------------------------------------------
(* Properties *)

(* Framing is lost in one way only: a command that overwrites a packet of   *)
(* which a part is already written (abi_writer_task_reset).                 *)
TornNeedsCut ==
    \A e \in Peers : (\E i \in 1 .. Len(got[e]) : got[e][i] = Torn) => cut[Other[e]]

(* A connection comes to a standstill with bytes in flight only when both   *)
(* ends are blocked on output, and so have stopped reading.                 *)
StallIsMutual ==
    /\ alive
    /\ \E e \in Peers : todo[e] # <<>> \/ wire[e] # <<>>
    /\ \A e \in Peers : ~CanFlush(e) /\ ~CanReceive(e)
    => \A e \in Peers : todo[e] # <<>> /\ Room(e) = 0

NoCommand == Commands \subseteq fresh

(* Until the first command the connection is a channel of packets.          *)
Promise == INSTANCE PacketChannel
    WITH queue <- [e \in Peers |-> Rest(taken[e], Len(got[Other[e]]))],
         received <- got, closed <- ~alive
ImplementsChannel ==
    Promise!ChannelInit /\ [][NoCommand' => Promise!ChannelNext]_<<taken, got, alive>>

(* Where the answers of one end fit the kernel's buffer, so that it never   *)
(* stops reading, every packet a buffer took is received unless the         *)
(* connection is closed or a command discards it.                           *)
TakenArrives ==
    \A e \in Peers : \A n \in 1 .. Cardinality({p \in Packets : From[p] = e}) :
        Len(taken[e]) >= n ~> (Len(got[Other[e]]) >= n \/ ~alive \/ ~NoCommand)
=============================================================================
