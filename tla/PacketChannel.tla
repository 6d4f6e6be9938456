--------------------------- MODULE PacketChannel ---------------------------
(***************************************************************************)
(* What a connection of the I/O controller promises its two ends: a packet *)
(* that the sender's buffer took arrives whole, once, and in order, or the *)
(* connection is closed.  A packet that the buffer did not take leaves no  *)
(* trace.                                                                  *)
(***************************************************************************)
EXTENDS Sequences

CONSTANTS Peers, Other, Packets

VARIABLES
    queue,      \* peer -> packets it has sent that are still to arrive
    received,   \* peer -> packets that have arrived at it
    closed      \* the connection is gone

Put(e, p) ==
    /\ ~closed
    /\ queue' = [queue EXCEPT ![e] = Append(@, p)]
    /\ UNCHANGED <<received, closed>>

Get(e) ==
    /\ ~closed /\ queue[e] # <<>>
    /\ queue' = [queue EXCEPT ![e] = Tail(@)]
    /\ received' = [received EXCEPT ![Other[e]] = Append(@, Head(queue[e]))]
    /\ UNCHANGED closed

CloseChannel == closed' = TRUE /\ UNCHANGED <<queue, received>>

ChannelInit ==
    /\ queue = [e \in Peers |-> <<>>] /\ received = [e \in Peers |-> <<>>]
    /\ closed = FALSE
ChannelNext ==
    \/ \E e \in Peers : Get(e) \/ \E p \in Packets : Put(e, p)
    \/ CloseChannel
ChannelSpec == ChannelInit /\ [][ChannelNext]_<<queue, received, closed>>
=============================================================================
