---------------------------- MODULE FrameCapture ----------------------------
(***************************************************************************)
(* The double buffer between the capture loop (cam4_rd_read_fh and          *)
(* cam4_rd_read_fd) and the thread that takes the frames: cam4_rd_dump_buf, *)
(* which records a number of frames, or cam4_rd_process_real, which shows   *)
(* them.  The thread waits in sleep() and is woken by a signal; the done    *)
(* flag says that it has finished with the other buffer.                    *)
(* A frame is a header packet and Pieces data packets, all sent in order.   *)
(***************************************************************************)
EXTENDS Integers, Sequences

CONSTANTS
    Frames,     \* bound: frames sent, or frame numbers in use
    Pieces,     \* data packets of a frame
    Endless,    \* whether the camera goes on after Frames, with old numbers
    Wanted,     \* frame_num, 0 when the frames are shown
    MaxFiles,   \* files the process may have open, 0 when one file takes all
    ClearBuff,  \* clear_buff
    Lossy       \* whether packets get lost

ASSUME CaptureAssumption ==
    /\ Frames \in Nat \ {0} /\ Pieces \in Nat \ {0}
    /\ Wanted \in Nat /\ MaxFiles \in Nat
    /\ {Endless, ClearBuff, Lossy} \subseteq BOOLEAN

VARIABLES
    next,       \* the packet that comes next: frame and piece, 0 for the header
    buf,        \* buff_fd: buffer -> piece -> the frame it is of, 0 for none
    idx,        \* the buffer that is filled
    done,       \* frame_done_flag
    thread,     \* "none", "setup", "busy", "sleep", "nap" (less than a second
                \* of it left), "open", "read", "ended" or "failed"
    out,        \* pieces of the frame the thread has read so far
    taken,      \* frames the thread has written or shown
    files,      \* files open
    handed,     \* history: frames handed over
    lost        \* history: a packet was lost

vars == <<next, buf, idx, done, thread, out, taken, files, handed, lost>>
Bufs == {0, 1}
Other(b) == 1 - b
Show == Wanted = 0
Cleared == [p \in 1 .. Pieces |-> 0]

CaptureInit ==
    /\ next = [frame |-> 1, piece |-> 0]
    /\ buf = [b \in Bufs |-> Cleared]
    /\ idx = 0 /\ done = FALSE
    /\ thread = "none" /\ out = <<>> /\ taken = 0 /\ files = 0 /\ handed = 0
    /\ lost = FALSE

Coming == Endless \/ next.frame <= Frames

(* The packet after the next one.                                           *)
Advance ==
    next' = IF next.piece < Pieces THEN [next EXCEPT !.piece = @ + 1]
            ELSE [frame |-> IF Endless /\ next.frame = Frames THEN 1 ELSE next.frame + 1,
                  piece |-> 0]

Lose ==
    /\ Lossy /\ Coming
    /\ Advance /\ lost' = TRUE
    /\ UNCHANGED <<buf, idx, done, thread, out, taken, files, handed>>

(* cam4_rd_read_fh, first header: the buffers are allocated and the thread  *)
(* is created.                                                              *)
FirstHeader ==
    /\ Coming /\ next.piece = 0 /\ thread = "none"
    /\ Advance
    /\ idx' = 0 /\ thread' = "setup"
    /\ files' = IF Show \/ MaxFiles > 0 THEN files ELSE files + 1
    /\ UNCHANGED <<buf, done, out, taken, handed, lost>>

(* SIGRTMIN: sleep() returns the whole seconds that were left.  A thread    *)
(* that is not in it runs the handler and goes on.                          *)
Woken == IF ~Show /\ MaxFiles > 0 THEN "open" ELSE "read"
Signal ==
    \/ thread = "sleep" /\ thread' = Woken
    \/ thread = "nap" /\ thread' = "busy"
    \/ thread \notin {"sleep", "nap"} /\ UNCHANGED thread

(* A later header, with the thread done: the buffers change places.         *)
HandOver ==
    /\ Coming /\ next.piece = 0 /\ thread # "none" /\ done
    /\ Advance
    /\ buf' = IF ClearBuff THEN [buf EXCEPT ![Other(idx)] = Cleared] ELSE buf
    /\ done' = FALSE /\ idx' = Other(idx)
    /\ Signal
    /\ handed' = handed + 1
    /\ UNCHANGED <<out, taken, files, lost>>

(* Fault: the buffers change places without a look at the flag.             *)
LagAndSwap ==
    /\ Coming /\ next.piece = 0 /\ thread # "none" /\ ~done
    /\ Advance
    /\ buf' = IF ClearBuff THEN [buf EXCEPT ![Other(idx)] = Cleared] ELSE buf
    /\ idx' = Other(idx)
    /\ UNCHANGED <<done, thread, out, taken, files, handed, lost>>

(* A later header, with the thread still at work: the frame in the buffer   *)
(* is given up.                                                             *)
Lag ==
    /\ Coming /\ next.piece = 0 /\ thread # "none" /\ ~done
    /\ Advance
    /\ buf' = IF ClearBuff THEN [buf EXCEPT ![Other(idx)] = Cleared] ELSE buf
    /\ UNCHANGED <<idx, done, thread, out, taken, files, handed, lost>>

(* cam4_rd_read_fd.                                                         *)
Data ==
    /\ Coming /\ next.piece > 0 /\ thread # "none"
    /\ buf' = [buf EXCEPT ![idx][next.piece] = next.frame]
    /\ Advance
    /\ UNCHANGED <<idx, done, thread, out, taken, files, handed, lost>>

(* Data before the first header.                                            *)
EarlyData ==
    /\ Coming /\ next.piece > 0 /\ thread = "none"
    /\ Advance
    /\ UNCHANGED <<buf, idx, done, thread, out, taken, files, handed, lost>>

Capture == FirstHeader \/ HandOver \/ Lag \/ Data \/ EarlyData

(* The thread's first statements.                                           *)
Setup ==
    /\ thread = "setup"
    /\ done' = TRUE /\ thread' = "busy"
    /\ UNCHANGED <<next, buf, idx, out, taken, files, handed, lost>>

Sleep ==
    /\ thread = "busy"
    /\ thread' = "sleep"
    /\ UNCHANGED <<next, buf, idx, done, out, taken, files, handed, lost>>

(* Less than a second is left of the three.                                 *)
Nap ==
    /\ thread = "sleep"
    /\ thread' = "nap"
    /\ UNCHANGED <<next, buf, idx, done, out, taken, files, handed, lost>>

(* sleep() returns 0.                                                       *)
SleepOver ==
    /\ thread = "nap"
    /\ thread' = "busy"
    /\ UNCHANGED <<next, buf, idx, done, out, taken, files, handed, lost>>

(* write_separate opens a file for every frame, and nothing closes it.      *)
OpenFile ==
    /\ thread = "open"
    /\ IF files < MaxFiles THEN files' = files + 1 /\ thread' = "read"
       ELSE UNCHANGED files /\ thread' = "failed"
    /\ UNCHANGED <<next, buf, idx, done, out, taken, handed, lost>>

(* Fault: the buffer that is filled is read.                                *)
ReadPieceOfFill ==
    /\ thread = "read" /\ Len(out) < Pieces
    /\ out' = Append(out, buf[idx][Len(out) + 1])
    /\ UNCHANGED <<next, buf, idx, done, thread, taken, files, handed, lost>>

ReadPiece ==
    /\ thread = "read" /\ Len(out) < Pieces
    /\ out' = Append(out, buf[Other(idx)][Len(out) + 1])
    /\ UNCHANGED <<next, buf, idx, done, thread, taken, files, handed, lost>>

(* Fault: nobody says that the frame is done.                               *)
FrameTakenSilently ==
    /\ thread = "read" /\ Len(out) = Pieces
    /\ taken' = taken + 1
    /\ out' = <<>>
    /\ thread' = IF taken' = Wanted THEN "ended" ELSE "busy"
    /\ UNCHANGED <<next, buf, idx, done, files, handed, lost>>

(* The frame is written or shown.                                           *)
FrameTaken ==
    /\ thread = "read" /\ Len(out) = Pieces
    /\ taken' = taken + 1
    /\ out' = <<>> /\ done' = TRUE
    /\ thread' = IF taken' = Wanted THEN "ended" ELSE "busy"
    /\ UNCHANGED <<next, buf, idx, files, handed, lost>>

Thread == Setup \/ Sleep \/ Nap \/ SleepOver \/ OpenFile \/ ReadPiece \/ FrameTaken

CaptureNext == Capture \/ Thread \/ Lose
CaptureSpec == CaptureInit /\ [][CaptureNext]_vars
(* Packets keep coming, headers are not lost for ever, and the thread runs. *)
FairCaptureSpec ==
    /\ CaptureSpec /\ WF_vars(Capture) /\ WF_vars(Thread)
    /\ SF_vars(FirstHeader) /\ SF_vars(HandOver)

-----------------------------------------------------------------------------
(* Properties *)

(* As long as no packet is lost the thread finds the pieces of one frame,   *)
(* while the next ones come in.                                             *)
Whole == ~lost => \A p \in 1 .. Len(out) : out[p] = out[1] /\ out[p] # 0

(* While the thread is at a frame the capture loop leaves that buffer and   *)
(* the roles of the buffers as they are, whatever is lost.                  *)
Undisturbed ==
    [][(thread = "open" \/ thread = "read") =>
        /\ idx' = idx
        /\ LET b == Other(idx) IN buf'[b] = buf[b]]_vars

(* The done flag says whether a frame is out: with the flag set all frames  *)
(* handed over are taken, without it exactly one is not (the thread's start *)
(* aside), and never is one handed over to a thread that is at a frame.     *)
OneIsOut ==
    IF thread \in {"none", "setup"} THEN ~done /\ handed = taken
    ELSE /\ handed = taken + (IF done THEN 0 ELSE 1)
         /\ thread \in {"open", "read"} => ~done

(* The frame handed over is at nobody: its wake-up did not reach the thread.*)
Missed == handed > taken /\ thread \in {"busy", "sleep", "nap"}

(* Recording ends, unless a wake-up is missed: that is the only way the two *)
(* threads can stop each other.                                             *)
EndsOrMissed == <>(thread = "ended" \/ Missed)

(* The number of frames asked for is recorded while the camera sends.       *)
Recorded == <>(thread = "ended")
=============================================================================
