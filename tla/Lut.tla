--------------------------------- MODULE Lut ---------------------------------
(***************************************************************************)
(* cam4_rd_do_LUT: the frame of packed samples of 8, 10, 12 or 16 bits      *)
(* becomes one byte for a sample in the same buffer, and the whole samples  *)
(* are kept in raw16.  A step is one turn of the loop.                      *)
(* A word or a sample is a function from its bits to the bit of the stream  *)
(* they hold, counted from the first bit of the frame, or Zero.             *)
(***************************************************************************)
EXTENDS Integers, Sequences

CONSTANTS
    Frames      \* the frames: format (fsize >> 28) and size in bytes

(* The loops count the size down in steps of 20, 12 or 2 bytes.             *)
ASSUME LutAssumption == \A f \in Frames : f.format \in 0 .. 7 /\ f.size \in Nat

VARIABLES
    frame,      \* the frame that is converted
    size,       \* bytes left, -1 when the conversion is over
    img,        \* bytes of the buffer: the samples that were written over the
                \* stream, from the first byte on
    raw16       \* samples unpacked so far

lutVars == <<frame, size, img, raw16>>

Zero == -1
Gone == -2      \* a bit that was overwritten before it was read

LutInit == frame = [format |-> 0, size |-> 0] /\ size = -1 /\ img = <<>> /\ raw16 = <<>>

----------------------------------------------------------------------------
(* ntohl(s[w]), and the operators of C on a word.                           *)
StreamBit(n) == IF n \div 8 < Len(img) THEN Gone ELSE n
Word(w) == [k \in 0 .. 31 |-> StreamBit(32 * w + 31 - k)]
Shr(v, n) == [k \in 0 .. 31 |-> IF k + n <= 31 THEN v[k + n] ELSE Zero]
Shl(v, n) == [k \in 0 .. 31 |-> IF k >= n THEN v[k - n] ELSE Zero]
Masked(v, bits) == [k \in 0 .. 31 |-> IF k < bits THEN v[k] ELSE Zero]
Or(u, v) == [k \in 0 .. 31 |-> IF u[k] = Zero THEN v[k] ELSE u[k]]

(* The samples of a turn: in one word, or the end of one and the beginning  *)
(* of the next.                                                             *)
Within(w, n) == [w |-> w, left |-> -1, n |-> n]
Across(w, left, n) == [w |-> w, left |-> left, n |-> n]
(* Fault: the seventh sample is shifted as the fourth is.                   *)
LUT_10_to_8_Shifted ==
    << Within(0, 22), Within(0, 12), Within(0, 2), Across(0, 8, 24),
       Within(1, 14), Within(1, 4), Across(1, 6, 24), Within(2, 16),
       Within(2, 6), Across(2, 4, 28), Within(3, 18), Within(3, 8),
       Across(3, 2, 30), Within(4, 20), Within(4, 10), Within(4, 0) >>
LUT_10_to_8 ==
    << Within(0, 22), Within(0, 12), Within(0, 2), Across(0, 8, 24),
       Within(1, 14), Within(1, 4), Across(1, 6, 26), Within(2, 16),
       Within(2, 6), Across(2, 4, 28), Within(3, 18), Within(3, 8),
       Across(3, 2, 30), Within(4, 20), Within(4, 10), Within(4, 0) >>
LUT_12_to_8 ==
    << Within(0, 20), Within(0, 8), Across(0, 4, 28), Within(1, 16),
       Within(1, 4), Across(1, 8, 24), Within(2, 12), Within(2, 0) >>

Sample(base, s, bits) ==
    IF s.left < 0 THEN Masked(Shr(Word(base + s.w), s.n), bits)
    ELSE Or(Masked(Shl(Word(base + s.w), s.left), bits), Shr(Word(base + s.w + 1), s.n))

(* lut with one sector of the curve: slope * v >> 4, kept in 8 bits.  The   *)
(* slopes are powers of 2.                                                  *)
Slope == [f \in 1 .. 4 |-> IF f = 1 THEN 2 ELSE 0]
lut(v, format) == Masked(Shr(Shl(v, Slope[format]), 4), 8)

Turn(samples, bytes) ==
    /\ raw16' = raw16 \o samples
    /\ img' = img \o [i \in DOMAIN samples |-> lut(samples[i], frame.format)]
    /\ size' = size - bytes
    /\ UNCHANGED frame

(* Which turn of the loop it is.                                            *)
Done == frame.size - size

Unpack10 ==
    /\ frame.format = 1 /\ size >= 20
    /\ Turn([i \in 1 .. 16 |-> Sample(5 * (Done \div 20), LUT_10_to_8[i], 10)], 20)
Unpack12 ==
    /\ frame.format = 2 /\ size >= 12
    /\ Turn([i \in 1 .. 8 |-> Sample(3 * (Done \div 12), LUT_12_to_8[i], 12)], 12)
(* ntohs of half a word.                                                    *)
LUT_16_to_8 ==
    /\ frame.format = 4 /\ size > 0
    /\ LET n == Done \div 2
           half == [k \in 0 .. 31 |-> IF k < 16 THEN StreamBit(16 * n + 15 - k) ELSE Zero]
       IN  Turn(<<half>>, 2)

(* unpack_8 leaves the buffer as it is; the other formats are not converted.*)
unpack_8 ==
    /\ frame.format = 0 /\ size >= 0
    /\ raw16' = [n \in 1 .. size |-> [k \in 0 .. 31 |-> IF k < 8 THEN 8 * n - 1 - k ELSE Zero]]
    /\ size' = -1
    /\ UNCHANGED <<frame, img>>

UnpackEnds ==
    /\ size >= 0 /\ size < (CASE frame.format = 1 -> 20 [] frame.format = 2 -> 12
                              [] frame.format = 4 -> 1 [] frame.format = 0 -> 0
                              [] OTHER -> size + 1)
    /\ size' = -1
    /\ UNCHANGED <<frame, img, raw16>>

cam4_rd_do_LUT == Unpack10 \/ Unpack12 \/ LUT_16_to_8 \/ unpack_8 \/ UnpackEnds

----------------------------------------------------------------------------
(* Properties.                                                              *)

SampleBits(format) == [f \in 0 .. 7 |-> CASE f = 0 -> 8 [] f = 1 -> 10 [] f = 2 -> 12 [] OTHER -> 16][format]

(* The samples are those of the packed stream, whole and in their order:    *)
(* no bit is taken from a neighbour or read after the conversion in place   *)
(* has written over it, across the words of a turn and from one turn to the *)
(* next.                                                                    *)
SamplesWhole ==
    LET bits == SampleBits(frame.format) IN
    \A n \in DOMAIN raw16 : \A k \in 0 .. 31 :
        raw16[n][k] = IF k < bits THEN bits * n - 1 - k ELSE Zero
=============================================================================
