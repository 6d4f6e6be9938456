------------------------- MODULE FrameCaptureProofs -------------------------
(***************************************************************************)
(* Proofs about the double buffer for every number of frames, pieces and    *)
(* files, whatever the camera sends or loses: without clear_buff the thread *)
(* has its buffer for itself, and finds one whole frame in it.              *)
(*                                                                          *)
(* The inductive invariant ties the flag to the thread's place (at a frame  *)
(* it is not set, so the buffers do not change places), the buffer that is  *)
(* filled to the packet that comes next, and what was read to the buffer    *)
(* that it is read from.                                                    *)
(***************************************************************************)
EXTENDS FrameCapture, TLAPS

Places == {"none", "setup", "busy", "sleep", "nap", "open", "read", "ended", "failed"}
Parts == 1 .. Pieces

Types ==
    /\ next \in [frame : Nat \ {0}, piece : 0 .. Pieces]
    /\ buf \in [Bufs -> [Parts -> Nat]]
    /\ idx \in Bufs /\ done \in BOOLEAN /\ thread \in Places
    /\ out \in Seq(Nat) /\ taken \in Nat /\ files \in Nat /\ handed \in Nat
    /\ lost \in BOOLEAN

AtFrame == thread \in {"open", "read"}

(* The flag and the counts say where the thread is.                         *)
Flagged ==
    /\ AtFrame \/ thread \in {"none", "setup"} => ~done
    /\ taken + (IF AtFrame THEN 1 ELSE 0) <= handed

(* The pieces of one frame.                                                 *)
OneFrame(b) == \E f \in Nat \ {0} : \A p \in Parts : buf[b][p] = f

(* While nothing is lost the buffer that is filled has the pieces before    *)
(* the next one, and the thread's buffer a whole frame.                     *)
Filling ==
    IF next.piece = 0 THEN thread = "none" \/ OneFrame(idx)
    ELSE thread # "none" /\ \A p \in 1 .. next.piece - 1 : buf[idx][p] = next.frame
Handed == AtFrame => OneFrame(Other(idx))
Copied ==
    /\ out # <<>> => thread = "read"
    /\ Len(out) <= Pieces
    /\ \A p \in 1 .. Len(out) : out[p] = buf[Other(idx)][p]

IInv == Types /\ Flagged /\ Copied /\ (~lost => Filling /\ Handed)

-----------------------------------------------------------------------------
(* Buffers and packets                                                      *)

(* There are two buffers, and the other of the other is the same.           *)
LEMMA TwoBuffers == \A b \in Bufs : Other(b) \in Bufs /\ Other(b) # b /\ Other(Other(b)) = b
BY DEF Bufs, Other

(* The packet after a header or a piece before the last is the next piece   *)
(* of the frame; after the last one comes a header.                         *)
LEMMA AfterPacket ==
    ASSUME Types, Advance
    PROVE  /\ next' \in [frame : Nat \ {0}, piece : 0 .. Pieces]
           /\ next.piece < Pieces => next'.piece = next.piece + 1 /\ next'.frame = next.frame
           /\ next.piece = Pieces => next'.piece = 0
<1>1. next.piece \in 0 .. Pieces /\ next.frame \in Nat \ {0} /\ Pieces \in Nat \ {0}
  BY CaptureAssumption DEF Types
<1>2. CASE next.piece < Pieces
  <2>1. next' = [next EXCEPT !.piece = @ + 1] BY <1>2 DEF Advance
  <2>2. next'.piece = next.piece + 1 /\ next'.frame = next.frame BY <2>1 DEF Types
  <2>3. next'.piece \in 0 .. Pieces BY <1>1, <1>2, <2>2
  <2>4. next' \in [frame : Nat \ {0}, piece : 0 .. Pieces] BY <2>1, <2>2, <2>3 DEF Types
  <2> QED BY <1>1, <1>2, <2>2, <2>4
<1>3. CASE next.piece = Pieces
  <2>1. PICK f \in Nat \ {0} : next' = [frame |-> f, piece |-> 0]
    BY <1>1, <1>3, CaptureAssumption DEF Advance
  <2> QED BY <1>1, <1>3, <2>1
<1> QED BY <1>1, <1>2, <1>3

-----------------------------------------------------------------------------
(* The types, the flag and the counts, whatever clear_buff is               *)

Base == Types /\ Flagged

(* A packet keeps them.                                                     *)
LEMMA CaptureBase == ASSUME Base, Capture PROVE Base'
<1> USE DEF Base
<1>1. CASE FirstHeader
  <2>1. files' \in Nat BY <1>1 DEF FirstHeader, Types
  <2>2. idx' \in Bufs BY <1>1 DEF FirstHeader, Bufs
  <2>3. Types' BY <1>1, <2>1, <2>2, AfterPacket DEF FirstHeader, Types, Places
  <2>4. Flagged' BY <1>1 DEF FirstHeader, Flagged, AtFrame, Types
  <2> QED BY <2>3, <2>4
<1>2. CASE HandOver
  <2>1. thread \in Places \ {"none", "setup", "open", "read"}
    BY <1>2 DEF HandOver, Types, Flagged, AtFrame
  <2>2. thread' \in Places \ {"none", "setup"}
    BY <1>2, <2>1 DEF HandOver, Signal, Woken, Places
  <2>3. buf' \in [Bufs -> [Parts -> Nat]]
    BY <1>2, TwoBuffers DEF HandOver, Types, Cleared, Parts
  <2>4. next' \in [frame : Nat \ {0}, piece : 0 .. Pieces] /\ idx' \in Bufs /\ handed' \in Nat
    BY <1>2, AfterPacket, TwoBuffers DEF HandOver, Types
  <2>5. Types' BY <1>2, <2>2, <2>3, <2>4 DEF HandOver, Types
  <2>6. Flagged' BY <1>2, <2>1, <2>2 DEF HandOver, Flagged, AtFrame, Types
  <2> QED BY <2>5, <2>6
<1>3. CASE Lag
  <2>1. buf' \in [Bufs -> [Parts -> Nat]]
    BY <1>3, TwoBuffers DEF Lag, Types, Cleared, Parts
  <2>2. Types' BY <1>3, <2>1, AfterPacket DEF Lag, Types
  <2>3. Flagged' BY <1>3 DEF Lag, Flagged, AtFrame
  <2> QED BY <2>2, <2>3
<1>4. CASE Data
  <2>1. next.piece \in Parts /\ next.frame \in Nat
    BY <1>4, CaptureAssumption DEF Data, Types, Parts
  <2>2. buf' \in [Bufs -> [Parts -> Nat]]
    BY <1>4, <2>1 DEF Data, Types
  <2>3. Types' BY <1>4, <2>2, AfterPacket DEF Data, Types
  <2>4. Flagged' BY <1>4 DEF Data, Flagged, AtFrame
  <2> QED BY <2>3, <2>4
<1>5. CASE EarlyData
  <2>1. Types' BY <1>5, AfterPacket DEF EarlyData, Types
  <2>2. Flagged' BY <1>5 DEF EarlyData, Flagged, AtFrame
  <2> QED BY <2>1, <2>2
<1> QED BY <1>1, <1>2, <1>3, <1>4, <1>5 DEF Capture

(* So does a step of the thread.                                            *)
LEMMA ThreadBase == ASSUME Base, Thread PROVE Base'
<1> USE DEF Base
<1>1. CASE Setup \/ Sleep \/ Nap \/ SleepOver
  <2>1. Types' BY <1>1 DEF Setup, Sleep, Nap, SleepOver, Types, Places
  <2>2. Flagged' BY <1>1 DEF Setup, Sleep, Nap, SleepOver, Flagged, AtFrame, Types
  <2> QED BY <2>1, <2>2
<1>2. CASE OpenFile
  <2>1. Types' BY <1>2 DEF OpenFile, Types, Places
  <2>2. Flagged' BY <1>2 DEF OpenFile, Flagged, AtFrame, Types
  <2> QED BY <2>1, <2>2
<1>3. CASE ReadPiece
  <2>1. Len(out) + 1 \in Parts BY <1>3, CaptureAssumption DEF ReadPiece, Types, Parts
  <2>2. buf[Other(idx)][Len(out) + 1] \in Nat BY <2>1, TwoBuffers DEF Types
  <2>3. Types' BY <1>3, <2>2 DEF ReadPiece, Types
  <2>4. Flagged' BY <1>3 DEF ReadPiece, Flagged, AtFrame
  <2> QED BY <2>3, <2>4
<1>4. CASE FrameTaken
  <2>1. thread' \in {"ended", "busy"} /\ taken' = taken + 1 BY <1>4 DEF FrameTaken
  <2>2. Types' BY <1>4, <2>1 DEF FrameTaken, Types, Places
  <2>3. Flagged' BY <1>4, <2>1 DEF FrameTaken, Flagged, AtFrame, Types
  <2> QED BY <2>2, <2>3
<1> QED BY <1>1, <1>2, <1>3, <1>4 DEF Thread

(* Every step keeps the types, the flag and the counts.                     *)
LEMMA BaseKept == Base /\ [CaptureNext]_vars => Base'
<1> SUFFICES ASSUME Base, [CaptureNext]_vars PROVE Base' OBVIOUS
<1>1. CASE Lose
  BY <1>1, AfterPacket DEF Lose, Base, Types, Flagged, AtFrame
<1>2. CASE UNCHANGED vars
  BY <1>2 DEF vars, Base, Types, Flagged, AtFrame
<1> QED BY <1>1, <1>2, CaptureBase, ThreadBase DEF CaptureNext

(* They hold at the start.                                                  *)
LEMMA BaseInit == CaptureInit => Base
<1> SUFFICES ASSUME CaptureInit PROVE Base OBVIOUS
<1>1. 0 \in 0 .. Pieces BY CaptureAssumption
<1>2. Types
  <2>1. next \in [frame : Nat \ {0}, piece : 0 .. Pieces] BY <1>1 DEF CaptureInit
  <2>2. buf \in [Bufs -> [Parts -> Nat]] BY DEF CaptureInit, Cleared, Parts
  <2>3. idx \in Bufs /\ thread \in Places /\ out \in Seq(Nat)
    BY DEF CaptureInit, Bufs, Places
  <2> QED BY <2>1, <2>2, <2>3 DEF CaptureInit, Types
<1>3. Flagged BY DEF CaptureInit, Flagged, AtFrame
<1> QED BY <1>2, <1>3 DEF Base

(* The types hold, done is not set while the thread is at a frame, and no   *)
(* frame is taken twice for one hand-over.                                  *)
THEOREM BaseInvariant == CaptureSpec => []Base
BY BaseInit, BaseKept, PTL DEF CaptureSpec

-----------------------------------------------------------------------------
(* The thread's buffer                                                      *)

(* While the thread is at a frame the roles of the buffers stay, and        *)
(* without clear_buff the contents of its buffer.                           *)
LEMMA LeftAlone ==
    ASSUME Base, AtFrame, [CaptureNext]_vars
    PROVE  /\ idx' = idx
           /\ ~ClearBuff => buf'[Other(idx)] = buf[Other(idx)]
<1> USE DEF Base
<1>1. idx \in Bufs /\ thread # "none" /\ ~done BY DEF Types, Flagged, AtFrame
<1>2. CASE Data
  <2>1. buf' = [buf EXCEPT ![idx] = [@ EXCEPT ![next.piece] = next.frame]]
    BY <1>2 DEF Data
  <2> QED BY <1>1, <1>2, <2>1, TwoBuffers DEF Data, Types
<1>3. CASE Lag BY <1>3 DEF Lag
<1>4. CASE FirstHeader \/ HandOver \/ EarlyData
  BY <1>1, <1>4 DEF FirstHeader, HandOver, EarlyData
<1>5. CASE Thread \/ Lose \/ UNCHANGED vars
  BY <1>5 DEF Thread, Setup, Sleep, Nap, SleepOver, OpenFile, ReadPiece, FrameTaken, Lose, vars
<1> QED BY <1>2, <1>3, <1>4, <1>5 DEF CaptureNext, Capture

(* What was read is what the buffer holds.                                  *)
LEMMA CopiedKept ==
    ASSUME Base, Copied, ~ClearBuff, [CaptureNext]_vars
    PROVE  Copied'
<1> USE DEF Base
<1>1. CASE ReadPiece
  <2>1. /\ thread = "read" /\ thread' = "read" /\ idx' = idx /\ buf' = buf
        /\ Len(out) < Pieces
        /\ out' = Append(out, buf[Other(idx)][Len(out) + 1])
    BY <1>1 DEF ReadPiece
  <2>2. /\ Len(out') = Len(out) + 1 /\ out'[Len(out) + 1] = buf[Other(idx)][Len(out) + 1]
        /\ \A p \in 1 .. Len(out) : out'[p] = out[p]
    BY <2>1 DEF Types
  <2>3. Len(out) \in Nat /\ Len(out') <= Pieces
    BY <2>1, <2>2, CaptureAssumption DEF Types
  <2>4. \A p \in 1 .. Len(out') : out'[p] = buf[Other(idx)][p]
    BY <2>2, <2>3 DEF Copied
  <2> QED BY <2>1, <2>3, <2>4 DEF Copied
<1>2. CASE FrameTaken
  BY <1>2, CaptureAssumption DEF FrameTaken, Copied
<1>3. CASE out = <<>> /\ out' = out
  BY <1>3, CaptureAssumption DEF Copied
<1>4. CASE out # <<>> /\ out' = out /\ thread' = "read"
  <2>1. AtFrame BY <1>4 DEF Copied, AtFrame
  <2>2. idx' = idx /\ buf'[Other(idx)] = buf[Other(idx)] BY <2>1, LeftAlone
  <2> QED BY <1>4, <2>2 DEF Copied
<1>5. out' = out \/ ReadPiece \/ FrameTaken
  BY DEF CaptureNext, Capture, FirstHeader, HandOver, Lag, Data, EarlyData, Thread, Setup,
         Sleep, Nap, SleepOver, OpenFile, Lose, vars
<1>6. thread = "read" => thread' = "read" \/ ReadPiece \/ FrameTaken
  BY DEF CaptureNext, Capture, FirstHeader, HandOver, Lag, Data, EarlyData, Thread, Setup,
         Sleep, Nap, SleepOver, OpenFile, Lose, vars, Signal
<1> QED BY <1>1, <1>2, <1>3, <1>4, <1>5, <1>6 DEF Copied

-----------------------------------------------------------------------------
(* Whole frames                                                             *)

(* The pieces come in their order into the buffer that is filled.           *)
LEMMA FillingKept ==
    ASSUME Base, ~ClearBuff, Filling, [CaptureNext]_vars, ~lost'
    PROVE  Filling'
<1> USE DEF Base
<1>1. next.piece \in 0 .. Pieces /\ next.frame \in Nat \ {0} /\ Pieces \in Nat \ {0}
  BY CaptureAssumption DEF Types
<1>2. CASE FirstHeader \/ HandOver \/ Lag
  <2>1. next.piece = 0 /\ Advance BY <1>2 DEF FirstHeader, HandOver, Lag
  <2>2. next'.piece = 1 BY <1>1, <2>1, AfterPacket
  <2>3. thread' # "none" BY <1>2 DEF FirstHeader, HandOver, Lag, Signal, Woken
  <2> QED BY <2>2, <2>3 DEF Filling
<1>3. CASE Data
  <2>1. /\ next.piece \in Parts /\ Advance /\ idx' = idx /\ thread' = thread
        /\ buf' = [buf EXCEPT ![idx] = [@ EXCEPT ![next.piece] = next.frame]]
    BY <1>1, <1>3 DEF Data, Parts
  <2>2. \A p \in 1 .. next.piece : buf'[idx][p] = next.frame
    BY <1>1, <2>1 DEF Filling, Types, Parts
  <2>3. CASE next.piece < Pieces
    <3>1. next'.piece = next.piece + 1 /\ next'.frame = next.frame BY <2>1, <2>3, AfterPacket
    <3>2. thread' # "none" BY <1>3 DEF Data
    <3>3. next'.piece # 0 /\ next'.piece - 1 = next.piece BY <1>1, <3>1
    <3> QED BY <2>1, <2>2, <3>1, <3>2, <3>3 DEF Filling
  <2>4. CASE next.piece = Pieces
    <3>1. next'.piece = 0 BY <2>1, <2>4, AfterPacket
    <3>2. OneFrame(idx)' BY <1>1, <2>1, <2>2, <2>4 DEF OneFrame, Parts
    <3> QED BY <3>1, <3>2 DEF Filling
  <2> QED BY <1>1, <2>3, <2>4
<1>4. CASE EarlyData BY <1>1, <1>4 DEF EarlyData, Filling
<1>5. CASE Thread
  <2>1. UNCHANGED <<next, buf, idx>>
    BY <1>5 DEF Thread, Setup, Sleep, Nap, SleepOver, OpenFile, ReadPiece, FrameTaken
  <2>2. thread = "none" <=> thread' = "none"
    BY <1>5 DEF Thread, Setup, Sleep, Nap, SleepOver, OpenFile, ReadPiece, FrameTaken
  <2> QED BY <2>1, <2>2 DEF Filling, OneFrame
<1>6. CASE Lose BY <1>6 DEF Lose
<1>7. CASE UNCHANGED vars BY <1>7 DEF vars, Filling, OneFrame
<1> QED BY <1>2, <1>3, <1>4, <1>5, <1>6, <1>7 DEF CaptureNext, Capture

(* What is handed over is a whole frame, and stays one.                     *)
LEMMA HandedKept ==
    ASSUME Base, ~ClearBuff, Filling, Handed, [CaptureNext]_vars, ~lost'
    PROVE  Handed'
<1> USE DEF Base
<1>1. CASE AtFrame
  <2>1. idx' = idx /\ buf'[Other(idx)] = buf[Other(idx)] BY <1>1, LeftAlone
  <2> QED BY <1>1, <2>1 DEF Handed, OneFrame
<1>2. CASE ~AtFrame /\ HandOver
  <2>1. OneFrame(idx) BY <1>2 DEF HandOver, Filling
  <2>2. idx' = Other(idx) /\ buf' = buf BY <1>2 DEF HandOver
  <2>3. Other(idx') = idx BY <2>2, TwoBuffers DEF Types
  <2> QED BY <2>1, <2>2, <2>3 DEF Handed, OneFrame
<1>3. CASE ~AtFrame /\ ~HandOver
  <2>1. ~AtFrame'
    BY <1>3 DEF CaptureNext, Capture, FirstHeader, Lag, Data, EarlyData, Thread, Setup,
         Sleep, Nap, SleepOver, OpenFile, ReadPiece, FrameTaken, Lose, vars, AtFrame
  <2> QED BY <2>1 DEF Handed
<1> QED BY <1>1, <1>2, <1>3

(* The inductive invariant holds at the start ...                           *)
LEMMA CompleteInit == CaptureInit => IInv
<1> SUFFICES ASSUME CaptureInit PROVE IInv OBVIOUS
<1>1. Base BY BaseInit
<1>2. Copied BY CaptureAssumption DEF CaptureInit, Copied
<1>3. Filling /\ Handed BY DEF CaptureInit, Filling, Handed, AtFrame
<1> QED BY <1>1, <1>2, <1>3 DEF Base, IInv

(* ... and after every step.                                                *)
LEMMA IInvKept ==
    ASSUME ~ClearBuff
    PROVE  IInv /\ [CaptureNext]_vars => IInv'
<1> SUFFICES ASSUME IInv, [CaptureNext]_vars PROVE IInv' OBVIOUS
<1>1. Base /\ Base' BY BaseKept DEF IInv, Base
<1>2. Copied' BY <1>1, CopiedKept DEF IInv
<1>3. ~lost' => ~lost
  BY DEF CaptureNext, Capture, FirstHeader, HandOver, Lag, Data, EarlyData, Thread, Setup,
         Sleep, Nap, SleepOver, OpenFile, ReadPiece, FrameTaken, Lose, vars
<1>4. ~lost' => Filling' /\ Handed'
  BY <1>1, <1>3, FillingKept, HandedKept DEF IInv
<1> QED BY <1>1, <1>2, <1>4 DEF Base, IInv

-----------------------------------------------------------------------------
(* The theorems                                                             *)

(* Without clear_buff: as long as no packet is lost the thread finds the    *)
(* pieces of one frame, while the next ones come in.                        *)
THEOREM WholeFrames == ~ClearBuff => (CaptureSpec => []Whole)
<1> SUFFICES ASSUME ~ClearBuff PROVE CaptureSpec => []Whole OBVIOUS
<1>1. IInv => Whole
  <2> SUFFICES ASSUME IInv, ~lost, NEW p \in 1 .. Len(out) PROVE out[p] = out[1] /\ out[p] # 0
    BY DEF Whole
  <2>1. Len(out) \in Nat /\ Len(out) <= Pieces /\ p \in Parts /\ 1 \in Parts /\ 1 \in 1 .. Len(out)
    BY CaptureAssumption DEF IInv, Types, Copied, Parts
  <2>2. AtFrame BY <2>1 DEF IInv, Copied, AtFrame, Types
  <2>3. OneFrame(Other(idx)) BY <2>2 DEF IInv, Handed
  <2> QED BY <2>1, <2>3 DEF IInv, Copied, OneFrame
<1> QED BY <1>1, CompleteInit, IInvKept, PTL DEF CaptureSpec

(* Without clear_buff: while the thread is at a frame, the capture loop     *)
(* leaves its buffer and the roles of the buffers as they are, whatever is  *)
(* lost and however far the thread lags.                                    *)
THEOREM LeftUndisturbed == ~ClearBuff => (CaptureSpec => Undisturbed)
<1> SUFFICES ASSUME ~ClearBuff PROVE CaptureSpec => Undisturbed OBVIOUS
<1> DEFINE Left == thread = "open" \/ thread = "read" =>
               /\ idx' = idx
               /\ LET b == Other(idx) IN buf'[b] = buf[b]
<1>1. Base /\ [CaptureNext]_vars => [Left]_vars
  BY LeftAlone DEF AtFrame
<1> QED BY <1>1, BaseInvariant, PTL DEF CaptureSpec, Undisturbed

(* A step keeps flag and counts together: setting the flag takes the frame  *)
(* that is out, and only with the flag set another one is handed over.      *)
LEMMA OneIsOutKept == Base /\ OneIsOut /\ [CaptureNext]_vars => OneIsOut'
<1> SUFFICES ASSUME Base, OneIsOut, [CaptureNext]_vars PROVE OneIsOut' OBVIOUS
<1>1. handed \in Nat /\ taken \in Nat /\ done \in BOOLEAN BY DEF Base, Types
<1>2. CASE FirstHeader BY <1>1, <1>2 DEF FirstHeader, OneIsOut
<1>3. CASE HandOver
  <2>1. /\ thread \notin {"none", "setup"} /\ done /\ done' = FALSE
        /\ handed = taken /\ handed' = handed + 1 /\ taken' = taken
    BY <1>1, <1>3 DEF HandOver, OneIsOut
  <2>2. thread' \notin {"none", "setup"} BY <1>3, <2>1 DEF HandOver, Signal, Woken
  <2> QED BY <1>1, <2>1, <2>2 DEF OneIsOut
<1>4. CASE Lag \/ Data \/ EarlyData \/ Lose \/ UNCHANGED vars
  <2>1. UNCHANGED <<thread, done, handed, taken>>
    BY <1>4 DEF Lag, Data, EarlyData, Lose, vars
  <2> QED BY <2>1 DEF OneIsOut
<1>5. CASE Setup BY <1>1, <1>5 DEF Setup, OneIsOut
<1>6. CASE Sleep \/ Nap \/ SleepOver BY <1>1, <1>6 DEF Sleep, Nap, SleepOver, OneIsOut
<1>7. CASE OpenFile \/ ReadPiece BY <1>1, <1>7 DEF OpenFile, ReadPiece, OneIsOut
<1>8. CASE FrameTaken
  <2>1. /\ thread = "read" /\ ~done /\ handed = taken + 1 /\ handed' = handed
        /\ taken' = taken + 1 /\ done' = TRUE /\ thread' \in {"ended", "busy"}
    BY <1>1, <1>8 DEF FrameTaken, OneIsOut
  <2> QED BY <1>1, <2>1 DEF OneIsOut
<1> QED BY <1>2, <1>3, <1>4, <1>5, <1>6, <1>7, <1>8 DEF CaptureNext, Capture, Thread

(* With clear_buff or without, whatever is lost: the flag says whether a    *)
(* frame is out, there is at most one, and a thread that is at it is not    *)
(* handed another (frame_done_flag in cam4_rd_read_fh and the thread).      *)
THEOREM FlagIsRight == CaptureSpec => []OneIsOut
<1>1. CaptureInit => OneIsOut BY DEF CaptureInit, OneIsOut
<1> QED BY <1>1, OneIsOutKept, BaseInvariant, PTL DEF CaptureSpec

(* A frame that is handed over is recorded or shown at most once.           *)
THEOREM TakenOnce == CaptureSpec => [](taken <= handed)
<1>1. Base => taken <= handed BY DEF Base, Types, Flagged
<1> QED BY <1>1, BaseInvariant, PTL
=============================================================================
