---------------------------- MODULE PacketQueue ----------------------------
(***************************************************************************)
(* What the capture loop expects of the packet socket: a queue that may     *)
(* lose a packet when it is full, and keeps the order of the others.        *)
(***************************************************************************)
EXTENDS Naturals, Sequences

CONSTANTS Capacity, Packets

VARIABLES
    queue,      \* packets that wait
    last        \* the packet taken last

QueueInit == queue = <<>> /\ last = 0

Come == \E p \in Packets :
    /\ Len(queue) < Capacity /\ queue' = Append(queue, p)
    /\ UNCHANGED last

Take ==
    /\ queue # <<>>
    /\ last' = Head(queue) /\ queue' = Tail(queue)

QueueNext == Come \/ Take
QueueSpec == QueueInit /\ [][QueueNext]_<<queue, last>>
=============================================================================
