----------------------------- MODULE PacketRing -----------------------------
(***************************************************************************)
(* The receive ring of the packet socket: the kernel fills the slots in     *)
(* turn and marks them, the main loop of cam4_ps_main takes them in turn    *)
(* and gives them back.  A stream restart in that loop runs cam4_mcast,     *)
(* whose result is assigned to i, the index of the next slot.               *)
(***************************************************************************)
EXTENDS Integers, Sequences

CONSTANTS
    R,          \* tp_frame_nr, slots of the ring
    Packets,    \* bound: packets that arrive, or that have numbers of their own
    Endless,    \* whether the numbers start again and packets never end
    Reinits     \* bound: restarts the user asks for

ASSUME RingAssumption ==
    R \in Nat \ {0} /\ Packets \in Nat \ {0} /\ Endless \in BOOLEAN /\ Reinits \in Nat

VARIABLES
    arrived,    \* packets that have come in
    slot,       \* slot -> the packet in it, 0 when it is the kernel's (tp_status)
    head,       \* the kernel's next slot
    i,          \* the loop's next slot
    last,       \* the packet taken last
    pc,         \* "open", "drain", "poll", "check", "mcast" or "closed"
    asked,      \* mcast_reinit
    restarts,   \* restarts so far
    no_sig_exit \* FALSE when the program is to end

ringVars == <<arrived, slot, head, i, last, pc, asked, restarts, no_sig_exit>>
Slots == 0 .. R - 1
Following(k) == IF k = R - 1 THEN 0 ELSE k + 1

RingInit ==
    /\ arrived = 0 /\ last = 0 /\ restarts = 0
    /\ slot = [k \in Slots |-> 0]
    /\ head = 0 /\ i = 0
    /\ pc = "open" /\ asked = FALSE /\ no_sig_exit = TRUE

(* The condition of the outer loop.                                         *)
LoopTest == pc' = IF no_sig_exit THEN "drain" ELSE "closed"

(* The socket is bound, and the loop entered at the first slot.             *)
OpenRing ==
    /\ pc = "open" /\ LoopTest
    /\ UNCHANGED <<arrived, slot, head, i, last, asked, restarts, no_sig_exit>>

(* The kernel stores a packet, or drops it when its next slot is taken.     *)
Arrive ==
    /\ pc \notin {"open", "closed"}
    /\ Endless \/ arrived < Packets
    /\ arrived' = IF arrived = Packets THEN 1 ELSE arrived + 1
    /\ IF slot[head] = 0
       THEN slot' = [slot EXCEPT ![head] = arrived'] /\ head' = Following(head)
       ELSE UNCHANGED <<slot, head>>
    /\ UNCHANGED <<i, last, pc, asked, restarts, no_sig_exit>>

(* Fault: the slot is not given back.                                       *)
TakePacketKeep ==
    /\ pc = "drain" /\ slot[i] # 0
    /\ last' = slot[i]
    /\ i' = Following(i)
    /\ UNCHANGED <<arrived, slot, head, pc, asked, restarts, no_sig_exit>>

(* Fault: the index wraps to the second slot.                               *)
TakePacketLate ==
    /\ pc = "drain" /\ slot[i] # 0
    /\ last' = slot[i]
    /\ slot' = [slot EXCEPT ![i] = 0]
    /\ i' = IF i = R - 1 THEN 1 ELSE i + 1
    /\ UNCHANGED <<arrived, head, pc, asked, restarts, no_sig_exit>>

(* The while loop over the marked slots: the packet is processed, then the  *)
(* slot is given back.                                                      *)
TakePacket ==
    /\ pc = "drain" /\ slot[i] # 0
    /\ last' = slot[i]
    /\ slot' = [slot EXCEPT ![i] = 0]
    /\ i' = Following(i)
    /\ UNCHANGED <<arrived, head, pc, asked, restarts, no_sig_exit>>

RingEmpty ==
    /\ pc = "drain" /\ slot[i] = 0
    /\ pc' = "poll"
    /\ UNCHANGED <<arrived, slot, head, i, last, asked, restarts, no_sig_exit>>

(* poll returns with a packet, or after a second without one.               *)
PollReturns ==
    /\ pc = "poll"
    /\ pc' = "check"
    /\ UNCHANGED <<arrived, slot, head, i, last, asked, restarts, no_sig_exit>>

(* Fault: the loop goes on without looking at no_sig_exit.                  *)
NoReinitOn ==
    /\ pc = "check" /\ ~asked
    /\ pc' = "drain"
    /\ UNCHANGED <<arrived, slot, head, i, last, asked, restarts, no_sig_exit>>

NoReinit ==
    /\ pc = "check" /\ ~asked
    /\ LoopTest
    /\ UNCHANGED <<arrived, slot, head, i, last, asked, restarts, no_sig_exit>>

(* A restart is one call of cam4_mcast, which returns the result of the     *)
(* join, 0.                                                                 *)
BeginReinit ==
    /\ pc = "check" /\ asked
    /\ asked' = FALSE /\ pc' = "mcast"
    /\ UNCHANGED <<arrived, slot, head, i, last, restarts, no_sig_exit>>
Reinit ==
    /\ pc = "mcast"
    /\ i' = 0
    /\ LoopTest
    /\ UNCHANGED <<arrived, slot, head, last, asked, restarts, no_sig_exit>>

(* REINIT: from the command thread.                                         *)
AskReinit ==
    /\ restarts < Reinits
    /\ asked' = TRUE /\ restarts' = restarts + 1
    /\ UNCHANGED <<arrived, slot, head, i, last, pc, no_sig_exit>>

(* STOP from the command thread, or a signal.                               *)
Stop ==
    /\ no_sig_exit /\ no_sig_exit' = FALSE
    /\ UNCHANGED <<arrived, slot, head, i, last, pc, asked, restarts>>

RingLoop == TakePacket \/ RingEmpty \/ PollReturns \/ NoReinit
RingNext == OpenRing \/ Arrive \/ RingLoop \/ BeginReinit \/ Reinit \/ AskReinit \/ Stop
RingSpec == RingInit /\ [][RingNext]_ringVars
(* The main thread is never blocked for ever: poll has a timeout.  The      *)
(* camera keeps sending.                                                    *)
StreamRingSpec ==
    /\ RingSpec
    /\ WF_ringVars(OpenRing \/ RingLoop \/ BeginReinit \/ Reinit)
    /\ WF_ringVars(Arrive)

-----------------------------------------------------------------------------
(* Properties *)

(* The slots from i on that are marked, in the loop's order.                *)
Waiting ==
    LET At(k) == (i + k - 1) % R
        n == CHOOSE n \in 0 .. R :
                /\ \A k \in 1 .. n : slot[At(k)] # 0
                /\ n < R => slot[At(n + 1)] = 0
    IN  [k \in 1 .. n |-> slot[At(k)]]

(* Until the user asks for a restart the ring is a queue of R packets, that *)
(* wait from i on and nowhere else: it loses a packet only when it is full, *)
(* and keeps the order of the others.                                       *)
Queue == INSTANCE PacketQueue
    WITH Capacity <- R, Packets <- 1 .. Packets, queue <- Waiting
FullOrKept == arrived' # arrived /\ Len(Waiting) < R => Waiting' # Waiting
IsAQueue ==
    /\ Queue!QueueInit
    /\ [][restarts' = 0 => FullOrKept /\ [Queue!QueueNext]_<<Waiting, last>>]_ringVars

(* While packets keep arriving every packet in the ring is processed: after *)
(* one restart the loop waits at slot 0 until the kernel comes round to it. *)
(* After a second one the kernel can wait at a marked slot for the loop,    *)
(* and the loop at slot 0 for the kernel.                                   *)
AllTaken == \A k \in Slots : slot[k] # 0 ~> slot[k] = 0 \/ ~no_sig_exit
=============================================================================
