---------------------------- MODULE ViewerProofs ----------------------------
(***************************************************************************)
(* Proofs about what the client does with its frames, for every number of  *)
(* frames, commands and steps: the samples of a frame come whole out of    *)
(* the lookup loops, whatever its format and size, a sensor test that      *)
(* nobody disturbs dumps its pairs in order, and the pictures show every   *)
(* colour where the sensor saw it, whatever the window.                    *)
(***************************************************************************)
EXTENDS Viewer, SequenceTheorems, FiniteSetTheorems, WellFoundedInduction, TLAPS

----------------------------------------------------------------------------
(* Sequences                                                                *)

(* What is in two sequences, one behind the other.                          *)
LEMMA Joined ==
    ASSUME NEW S, NEW s \in Seq(S), NEW t \in Seq(S)
    PROVE  /\ s \o t \in Seq(S) /\ Len(s \o t) = Len(s) + Len(t)
           /\ \A n \in 1 .. Len(s \o t) :
                 (s \o t)[n] = IF n <= Len(s) THEN s[n] ELSE t[n - Len(s)]
BY ConcatProperties

----------------------------------------------------------------------------
(* The lookup loops                                                         *)

Bits32 == 0 .. 31
Words == [Bits32 -> Int]

(* What a sample is: its bits are those of the stream.                      *)
IsSample(v, n, bits) == \A k \in Bits32 : v[k] = IF k < bits THEN bits * n - 1 - k ELSE Zero

(* After t turns of a loop that makes `samples' samples of `bytes' bytes.   *)
Turned(t, bytes, samples) ==
    frame.size = size + bytes * t /\ Len(raw16) = samples * t /\ Len(img) = samples * t

InTurn == CASE frame.format = 1 -> \E t \in Nat : Turned(t, 20, 16)
            [] frame.format = 2 -> \E t \in Nat : Turned(t, 12, 8)
            [] frame.format = 4 -> \E t \in Nat : Turned(t, 2, 1)
            [] OTHER -> raw16 = <<>>

LutInv ==
    /\ frame.format \in 0 .. 7 /\ frame.size \in Nat /\ size \in Int
    /\ raw16 \in Seq(Words) /\ img \in Seq(Words)
    /\ SamplesWhole
    /\ size >= 0 => InTurn

(* Shifted, masked and joined words are words.                              *)
LEMMA WordTypes ==
    ASSUME NEW v \in Words, NEW u \in Words, NEW n \in Nat
    PROVE  /\ Shr(v, n) \in Words /\ Shl(v, n) \in Words
           /\ Masked(v, n) \in Words /\ Or(u, v) \in Words
BY DEF Words, Bits32, Shr, Shl, Masked, Or, Zero

(* A word that lies behind what was written over has the bits of the        *)
(* stream; any word is a word.                                              *)
LEMMA WordIs ==
    ASSUME NEW w \in Nat, img \in Seq(Words)
    PROVE  /\ Word(w) \in Words
           /\ Len(img) <= 4 * w => \A k \in Bits32 : Word(w)[k] = 32 * w + 31 - k
<1>1. PICK m \in Nat : m = Len(img) BY LenProperties
<1>2. ASSUME NEW k \in Bits32 PROVE StreamBit(32 * w + 31 - k) \in Int
  BY <1>1 DEF StreamBit, Gone, Bits32
<1>3. ASSUME NEW k \in Bits32, m <= 4 * w
      PROVE  StreamBit(32 * w + 31 - k) = 32 * w + 31 - k
  <2>1. (32 * w + 31 - k) \div 8 >= 4 * w BY DEF Bits32
  <2>2. ~((32 * w + 31 - k) \div 8 < m) BY <1>3, <2>1 DEF Bits32
  <2> QED BY <1>1, <2>2 DEF StreamBit
<1> QED BY <1>1, <1>2, <1>3 DEF Word, Words, Bits32

(* A sample within a word.                                                  *)
LEMMA SampleWithin ==
    ASSUME NEW b \in Nat, NEW w \in Nat, NEW n \in Nat, NEW bits \in Nat, n + bits <= 32,
           img \in Seq(Words), Len(img) <= 4 * (b + w)
    PROVE  /\ Sample(b, Within(w, n), bits) \in Words
           /\ \A k \in Bits32 : Sample(b, Within(w, n), bits)[k] =
                 IF k < bits THEN 32 * (b + w) + 31 - (k + n) ELSE Zero
<1>1. PICK v : v = Word(b + w) OBVIOUS
<1>2. b + w \in Nat OBVIOUS
<1>3. v \in Words /\ \A k \in Bits32 : v[k] = 32 * (b + w) + 31 - k
  BY <1>1, <1>2, WordIs
<1>4. Sample(b, Within(w, n), bits) = Masked(Shr(v, n), bits)
  BY <1>1 DEF Sample, Within
<1>5. Masked(Shr(v, n), bits) \in Words BY <1>3, WordTypes
<1>6. ASSUME NEW k \in Bits32
      PROVE  Masked(Shr(v, n), bits)[k] = IF k < bits THEN 32 * (b + w) + 31 - (k + n) ELSE Zero
  <2>1. Masked(Shr(v, n), bits)[k] = IF k < bits THEN Shr(v, n)[k] ELSE Zero
    BY DEF Masked, Bits32
  <2>2. Shr(v, n)[k] = IF k + n <= 31 THEN v[k + n] ELSE Zero BY DEF Shr, Bits32
  <2>3. CASE k < bits
    <3>1. k + n <= 31 /\ k + n \in Bits32 BY <2>3 DEF Bits32
    <3>2. v[k + n] = 32 * (b + w) + 31 - (k + n) BY <1>3, <3>1
    <3> QED BY <2>1, <2>2, <2>3, <3>1, <3>2
  <2>4. CASE ~(k < bits) BY <2>1, <2>4
  <2> QED BY <2>3, <2>4
<1> QED BY <1>4, <1>5, <1>6

(* The last `left' bits of the word `first' and what follows them, in `bits'  *)
(* bits of a word.                                                          *)
FromBit(v, first, left, bits) ==
    /\ v \in Words
    /\ \A k \in Bits32 : v[k] = IF k < bits THEN 32 * first + 31 + left - k ELSE Zero

(* A sample at the end of a word and the beginning of the next.             *)
LEMMA SampleAcross ==
    ASSUME NEW b \in Nat, NEW w \in Nat, NEW left \in Nat, NEW n \in Nat, NEW bits \in Nat,
           left + n = 32, left <= bits, bits <= 32,
           NEW first \in Nat, first = b + w,
           img \in Seq(Words), Len(img) <= 4 * first
    PROVE  FromBit(Sample(b, Across(w, left, n), bits), first, left, bits)
<1>1. PICK v, u : v = Word(first) /\ u = Word(first + 1) OBVIOUS
<1>2. first \in Nat /\ first + 1 \in Nat OBVIOUS
<1>3. Len(img) <= 4 * (first + 1)
  <2>1. Len(img) \in Nat BY LenProperties
  <2> QED BY <2>1
<1>4. v \in Words /\ \A k \in Bits32 : v[k] = 32 * first + 31 - k
  BY <1>1, <1>2, WordIs
<1>5. u \in Words /\ \A k \in Bits32 : u[k] = 32 * (first + 1) + 31 - k
  BY <1>1, <1>2, <1>3, WordIs
<1>6. Sample(b, Across(w, left, n), bits) = Or(Masked(Shl(v, left), bits), Shr(u, n))
  BY <1>1 DEF Sample, Across
<1>7. Or(Masked(Shl(v, left), bits), Shr(u, n)) \in Words
  <2>1. Masked(Shl(v, left), bits) \in Words BY <1>4, WordTypes
  <2>2. Shr(u, n) \in Words BY <1>5, WordTypes
  <2> QED BY <2>1, <2>2, WordTypes
<1>8. ASSUME NEW k \in Bits32
      PROVE  Or(Masked(Shl(v, left), bits), Shr(u, n))[k] =
                IF k < bits THEN 32 * first + 31 + left - k ELSE Zero
  <2>1. Masked(Shl(v, left), bits)[k] =
            IF k < bits /\ k >= left THEN 32 * first + 31 + left - k ELSE Zero
    <3>1. Masked(Shl(v, left), bits)[k] = IF k < bits THEN Shl(v, left)[k] ELSE Zero
      BY DEF Masked, Bits32
    <3>2. Shl(v, left)[k] = IF k >= left THEN v[k - left] ELSE Zero BY DEF Shl, Bits32
    <3>3. CASE k >= left
      <4>1. k - left \in Bits32 BY <3>3 DEF Bits32
      <4>2. v[k - left] = 32 * first + 31 - (k - left) BY <1>4, <4>1
      <4>3. 31 - (k - left) = 31 + left - k BY DEF Bits32
      <4> QED BY <3>1, <3>2, <3>3, <4>2, <4>3 DEF Bits32
    <3>4. CASE ~(k >= left) BY <3>1, <3>2, <3>4
    <3> QED BY <3>3, <3>4
  <2>2. Shr(u, n)[k] = IF k < left THEN 32 * (first + 1) + 31 - (k + n) ELSE Zero
    <3>1. Shr(u, n)[k] = IF k + n <= 31 THEN u[k + n] ELSE Zero BY DEF Shr, Bits32
    <3>2. k + n <= 31 <=> k < left BY DEF Bits32
    <3>3. CASE k < left
      <4>1. k + n \in Bits32 BY <3>3, <3>2 DEF Bits32
      <4> QED BY <1>5, <3>1, <3>2, <3>3, <4>1
    <3>4. CASE ~(k < left) BY <3>1, <3>2, <3>4
    <3> QED BY <3>3, <3>4
  <2>3. Or(Masked(Shl(v, left), bits), Shr(u, n))[k] =
            IF Masked(Shl(v, left), bits)[k] = Zero THEN Shr(u, n)[k]
            ELSE Masked(Shl(v, left), bits)[k]
    BY DEF Or, Bits32
  <2> QED BY <2>1, <2>2, <2>3 DEF Zero, Bits32
<1> QED BY <1>6, <1>7, <1>8 DEF FromBit

(* The samples of 10 bits a turn makes are the next 16 of the stream.       *)
LEMMA Samples10 ==
    ASSUME NEW t \in Nat, img \in Seq(Words), Len(img) = 16 * t, NEW i \in 1 .. 16
    PROVE  /\ Sample(5 * t, LUT_10_to_8[i], 10) \in Words
           /\ IsSample(Sample(5 * t, LUT_10_to_8[i], 10), 16 * t + i, 10)
<1>1. PICK b \in Nat : b = 5 * t /\ Len(img) <= 4 * b OBVIOUS
<1>2. ASSUME NEW w \in 0 .. 4, NEW n \in 0 .. 22, LUT_10_to_8[i] = Within(w, n),
             32 * w + 32 - n = 10 * i
      PROVE  /\ Sample(b, LUT_10_to_8[i], 10) \in Words
             /\ IsSample(Sample(b, LUT_10_to_8[i], 10), 16 * t + i, 10)
  <2>1. Len(img) <= 4 * (b + w) BY <1>1
  <2>2. w \in Nat /\ n \in Nat /\ 10 \in Nat /\ n + 10 <= 32
    BY <1>2
  <2>3. /\ Sample(b, Within(w, n), 10) \in Words
        /\ \A k \in Bits32 : Sample(b, Within(w, n), 10)[k] =
              IF k < 10 THEN 32 * (b + w) + 31 - (k + n) ELSE Zero
    BY <1>2, <2>1, <2>2, SampleWithin
  <2>4. ASSUME NEW k \in Bits32 PROVE 32 * (b + w) + 31 - (k + n) = 10 * (16 * t + i) - 1 - k
    BY <1>1, <1>2 DEF Bits32
  <2>5. IsSample(Sample(b, Within(w, n), 10), 16 * t + i, 10) BY <2>3, <2>4 DEF IsSample
  <2> QED BY <1>2, <2>3, <2>5
<1>3. ASSUME NEW w \in 0 .. 4, NEW left \in 0 .. 10, NEW n \in 0 .. 32, left + n = 32,
             LUT_10_to_8[i] = Across(w, left, n), 32 * w + 32 + left = 10 * i
      PROVE  /\ Sample(b, LUT_10_to_8[i], 10) \in Words
             /\ IsSample(Sample(b, LUT_10_to_8[i], 10), 16 * t + i, 10)
  <2>1. PICK first \in Nat : first = b + w /\ Len(img) <= 4 * first BY <1>1
  <2>2. /\ w \in Nat /\ n \in Nat /\ left \in Nat /\ 10 \in Nat /\ left <= 10 /\ 10 <= 32
        /\ left + n = 32
    BY <1>3
  <2>3. FromBit(Sample(b, Across(w, left, n), 10), first, left, 10)
    BY <2>1, <2>2, SampleAcross
  <2>4. ASSUME NEW k \in Bits32 PROVE 32 * first + 31 + left - k = 10 * (16 * t + i) - 1 - k
    BY <1>1, <1>3, <2>1 DEF Bits32
  <2>5. IsSample(Sample(b, Across(w, left, n), 10), 16 * t + i, 10)
    BY <2>3, <2>4 DEF IsSample, FromBit
  <2> QED BY <1>3, <2>3, <2>5 DEF FromBit
<1> DEFINE Good == /\ Sample(b, LUT_10_to_8[i], 10) \in Words
                   /\ IsSample(Sample(b, LUT_10_to_8[i], 10), 16 * t + i, 10)
<1> HIDE DEF Good
<1>4. ASSUME NEW w \in 0 .. 4, NEW n \in 0 .. 22, LUT_10_to_8[i] = Within(w, n),
             32 * w + 32 - n = 10 * i
      PROVE  Good
  BY <1>2, <1>4 DEF Good
<1>5. ASSUME NEW w \in 0 .. 4, NEW left \in 0 .. 10, NEW n \in 0 .. 32, left + n = 32,
             LUT_10_to_8[i] = Across(w, left, n), 32 * w + 32 + left = 10 * i
      PROVE  Good
  BY <1>3, <1>5 DEF Good
<1>6. Good
  <2>1. CASE i = 1 BY <2>1, <1>4, LUT_10_to_8[1] = Within(0, 22) DEF LUT_10_to_8
  <2>2. CASE i = 2 BY <2>2, <1>4, LUT_10_to_8[2] = Within(0, 12) DEF LUT_10_to_8
  <2>3. CASE i = 3 BY <2>3, <1>4, LUT_10_to_8[3] = Within(0, 2) DEF LUT_10_to_8
  <2>4. CASE i = 4 BY <2>4, <1>5, LUT_10_to_8[4] = Across(0, 8, 24) DEF LUT_10_to_8
  <2>5. CASE i = 5 BY <2>5, <1>4, LUT_10_to_8[5] = Within(1, 14) DEF LUT_10_to_8
  <2>6. CASE i = 6 BY <2>6, <1>4, LUT_10_to_8[6] = Within(1, 4) DEF LUT_10_to_8
  <2>7. CASE i = 7 BY <2>7, <1>5, LUT_10_to_8[7] = Across(1, 6, 26) DEF LUT_10_to_8
  <2>8. CASE i = 8 BY <2>8, <1>4, LUT_10_to_8[8] = Within(2, 16) DEF LUT_10_to_8
  <2>9. CASE i = 9 BY <2>9, <1>4, LUT_10_to_8[9] = Within(2, 6) DEF LUT_10_to_8
  <2>10. CASE i = 10 BY <2>10, <1>5, LUT_10_to_8[10] = Across(2, 4, 28) DEF LUT_10_to_8
  <2>11. CASE i = 11 BY <2>11, <1>4, LUT_10_to_8[11] = Within(3, 18) DEF LUT_10_to_8
  <2>12. CASE i = 12 BY <2>12, <1>4, LUT_10_to_8[12] = Within(3, 8) DEF LUT_10_to_8
  <2>13. CASE i = 13 BY <2>13, <1>5, LUT_10_to_8[13] = Across(3, 2, 30) DEF LUT_10_to_8
  <2>14. CASE i = 14 BY <2>14, <1>4, LUT_10_to_8[14] = Within(4, 20) DEF LUT_10_to_8
  <2>15. CASE i = 15 BY <2>15, <1>4, LUT_10_to_8[15] = Within(4, 10) DEF LUT_10_to_8
  <2>16. CASE i = 16 BY <2>16, <1>4, LUT_10_to_8[16] = Within(4, 0) DEF LUT_10_to_8
  <2> QED BY <2>1, <2>2, <2>3, <2>4, <2>5, <2>6, <2>7, <2>8, <2>9, <2>10, <2>11, <2>12,
           <2>13, <2>14, <2>15, <2>16
<1> QED BY <1>1, <1>6 DEF Good

(* The same for samples of 12 bits.                                         *)
LEMMA Samples12 ==
    ASSUME NEW t \in Nat, img \in Seq(Words), Len(img) = 8 * t, NEW i \in 1 .. 8
    PROVE  /\ Sample(3 * t, LUT_12_to_8[i], 12) \in Words
           /\ IsSample(Sample(3 * t, LUT_12_to_8[i], 12), 8 * t + i, 12)
<1>1. PICK b \in Nat : b = 3 * t /\ Len(img) <= 4 * b OBVIOUS
<1>2. ASSUME NEW w \in 0 .. 2, NEW n \in 0 .. 20, LUT_12_to_8[i] = Within(w, n),
             32 * w + 32 - n = 12 * i
      PROVE  /\ Sample(b, LUT_12_to_8[i], 12) \in Words
             /\ IsSample(Sample(b, LUT_12_to_8[i], 12), 8 * t + i, 12)
  <2>1. Len(img) <= 4 * (b + w) BY <1>1
  <2>2. w \in Nat /\ n \in Nat /\ 12 \in Nat /\ n + 12 <= 32
    BY <1>2
  <2>3. /\ Sample(b, Within(w, n), 12) \in Words
        /\ \A k \in Bits32 : Sample(b, Within(w, n), 12)[k] =
              IF k < 12 THEN 32 * (b + w) + 31 - (k + n) ELSE Zero
    BY <1>2, <2>1, <2>2, SampleWithin
  <2>4. ASSUME NEW k \in Bits32 PROVE 32 * (b + w) + 31 - (k + n) = 12 * (8 * t + i) - 1 - k
    BY <1>1, <1>2 DEF Bits32
  <2>5. IsSample(Sample(b, Within(w, n), 12), 8 * t + i, 12) BY <2>3, <2>4 DEF IsSample
  <2> QED BY <1>2, <2>3, <2>5
<1>3. ASSUME NEW w \in 0 .. 2, NEW left \in 0 .. 10, NEW n \in 0 .. 32, left + n = 32,
             LUT_12_to_8[i] = Across(w, left, n), 32 * w + 32 + left = 12 * i
      PROVE  /\ Sample(b, LUT_12_to_8[i], 12) \in Words
             /\ IsSample(Sample(b, LUT_12_to_8[i], 12), 8 * t + i, 12)
  <2>1. PICK first \in Nat : first = b + w /\ Len(img) <= 4 * first BY <1>1
  <2>2. /\ w \in Nat /\ n \in Nat /\ left \in Nat /\ 12 \in Nat /\ left <= 12 /\ 12 <= 32
        /\ left + n = 32
    BY <1>3
  <2>3. FromBit(Sample(b, Across(w, left, n), 12), first, left, 12)
    BY <2>1, <2>2, SampleAcross
  <2>4. ASSUME NEW k \in Bits32 PROVE 32 * first + 31 + left - k = 12 * (8 * t + i) - 1 - k
    BY <1>1, <1>3, <2>1 DEF Bits32
  <2>5. IsSample(Sample(b, Across(w, left, n), 12), 8 * t + i, 12)
    BY <2>3, <2>4 DEF IsSample, FromBit
  <2> QED BY <1>3, <2>3, <2>5 DEF FromBit
<1> DEFINE Good == /\ Sample(b, LUT_12_to_8[i], 12) \in Words
                   /\ IsSample(Sample(b, LUT_12_to_8[i], 12), 8 * t + i, 12)
<1> HIDE DEF Good
<1>4. ASSUME NEW w \in 0 .. 2, NEW n \in 0 .. 20, LUT_12_to_8[i] = Within(w, n),
             32 * w + 32 - n = 12 * i
      PROVE  Good
  BY <1>2, <1>4 DEF Good
<1>5. ASSUME NEW w \in 0 .. 2, NEW left \in 0 .. 10, NEW n \in 0 .. 32, left + n = 32,
             LUT_12_to_8[i] = Across(w, left, n), 32 * w + 32 + left = 12 * i
      PROVE  Good
  BY <1>3, <1>5 DEF Good
<1>6. Good
  <2>1. CASE i = 1 BY <2>1, <1>4, LUT_12_to_8[1] = Within(0, 20) DEF LUT_12_to_8
  <2>2. CASE i = 2 BY <2>2, <1>4, LUT_12_to_8[2] = Within(0, 8) DEF LUT_12_to_8
  <2>3. CASE i = 3 BY <2>3, <1>5, LUT_12_to_8[3] = Across(0, 4, 28) DEF LUT_12_to_8
  <2>4. CASE i = 4 BY <2>4, <1>4, LUT_12_to_8[4] = Within(1, 16) DEF LUT_12_to_8
  <2>5. CASE i = 5 BY <2>5, <1>4, LUT_12_to_8[5] = Within(1, 4) DEF LUT_12_to_8
  <2>6. CASE i = 6 BY <2>6, <1>5, LUT_12_to_8[6] = Across(1, 8, 24) DEF LUT_12_to_8
  <2>7. CASE i = 7 BY <2>7, <1>4, LUT_12_to_8[7] = Within(2, 12) DEF LUT_12_to_8
  <2>8. CASE i = 8 BY <2>8, <1>4, LUT_12_to_8[8] = Within(2, 0) DEF LUT_12_to_8
  <2> QED BY <2>1, <2>2, <2>3, <2>4, <2>5, <2>6, <2>7, <2>8
<1> QED BY <1>1, <1>6 DEF Good

(* The bits of a sample, by format.                                         *)
LEMMA BitsOfFormat ==
    ASSUME NEW f \in 0 .. 7
    PROVE  SampleBits(f) = IF f = 0 THEN 8 ELSE IF f = 1 THEN 10 ELSE IF f = 2 THEN 12 ELSE 16
BY DEF SampleBits

(* The samples of the stream, one by one.                                   *)
LEMMA WholeIs ==
    ASSUME raw16 \in Seq(Words)
    PROVE  SamplesWhole <=> \A n \in 1 .. Len(raw16) :
               IsSample(raw16[n], n, SampleBits(frame.format))
<1>1. DOMAIN raw16 = 1 .. Len(raw16) BY LenProperties
<1> QED BY <1>1, Zenon DEF SamplesWhole, IsSample, Bits32

(* A turn of a loop whose samples are the next ones of the stream.          *)
LEMMA TurnKeeps ==
    ASSUME LutInv, frame.format \in {1, 2, 4},
           NEW m \in Nat, NEW bytes \in Nat, NEW s \in Seq(Words), Len(s) = m,
           \A i \in 1 .. m : IsSample(s[i], Len(raw16) + i, SampleBits(frame.format)),
           Turn(s, bytes)
    PROVE  /\ frame' = frame /\ size' = size - bytes
           /\ raw16' \in Seq(Words) /\ img' \in Seq(Words)
           /\ Len(raw16') = Len(raw16) + m /\ Len(img') = Len(img) + m
           /\ SamplesWhole'
<1>1. /\ frame' = frame /\ size' = size - bytes /\ raw16' = raw16 \o s
      /\ img' = img \o [i \in DOMAIN s |-> lut(s[i], frame.format)]
  BY DEF Turn
<1>2. raw16 \in Seq(Words) /\ img \in Seq(Words) BY DEF LutInv
<1>3. DOMAIN s = 1 .. m /\ Len(raw16) \in Nat /\ Len(img) \in Nat BY <1>2, LenProperties
<1>4. PICK z : z = [i \in DOMAIN s |-> lut(s[i], frame.format)] OBVIOUS
<1>5. z \in Seq(Words) /\ Len(z) = m
  <2>1. ASSUME NEW i \in 1 .. m PROVE lut(s[i], frame.format) \in Words
    <3>1. s[i] \in Words BY ElementOfSeq
    <3>2. PICK n \in Nat : n = Slope[frame.format] BY DEF Slope
    <3>3. PICK v \in Words : v = Shl(s[i], n) BY <3>1, WordTypes
    <3>4. PICK u \in Words : u = Shr(v, 4) BY WordTypes
    <3>5. Masked(u, 8) \in Words BY WordTypes
    <3> QED BY <3>2, <3>3, <3>4, <3>5 DEF lut
  <2>2. z \in [1 .. m -> Words] BY <1>3, <1>4, <2>1
  <2>3. z \in Seq(Words) BY <2>2, SeqDef
  <2> QED BY <2>2, <2>3, LenProperties
<1>6. img' \in Seq(Words) /\ Len(img') = Len(img) + m
  <2>1. img \o z \in Seq(Words) /\ Len(img \o z) = Len(img) + Len(z) BY <1>2, <1>5, Joined
  <2> QED BY <1>1, <1>4, <1>5, <2>1
<1>7. /\ raw16 \o s \in Seq(Words) /\ Len(raw16 \o s) = Len(raw16) + Len(s)
      /\ \A n \in 1 .. Len(raw16 \o s) :
            (raw16 \o s)[n] = IF n <= Len(raw16) THEN raw16[n] ELSE s[n - Len(raw16)]
  BY <1>2, Joined
<1>8. PICK b : b = SampleBits(frame.format) OBVIOUS
<1>9. PICK l \in Nat : l = Len(raw16) BY <1>3
<1>10. \A n \in 1 .. l : IsSample(raw16[n], n, b)
  <2>1. SamplesWhole BY DEF LutInv
  <2> QED BY <1>2, <1>8, <1>9, <2>1, WholeIs
<1>11. ASSUME NEW n \in 1 .. l + m PROVE IsSample((raw16 \o s)[n], n, b)
  <2>1. CASE n <= l BY <1>7, <1>9, <1>10, <2>1
  <2>2. CASE ~(n <= l)
    <3>1. PICK i \in 1 .. m : i = n - l /\ l + i = n BY <2>2
    <3>2. (raw16 \o s)[n] = s[i] BY <1>7, <1>9, <2>2, <3>1
    <3>3. IsSample(s[i], l + i, b) BY <1>8, <1>9
    <3> QED BY <3>1, <3>2, <3>3
  <2> QED BY <2>1, <2>2
<1>12. raw16' \in Seq(Words) /\ Len(raw16') = Len(raw16) + m BY <1>1, <1>7
<1>13. SamplesWhole'
  <2>1. \A n \in 1 .. Len(raw16') : IsSample(raw16'[n], n, b) BY <1>1, <1>7, <1>9, <1>11
  <2>2. DOMAIN raw16' = 1 .. Len(raw16') BY <1>12, LenProperties
  <2>3. b = SampleBits(frame'.format) BY <1>1, <1>8
  <2> QED BY <2>1, <2>2, <2>3, Zenon DEF SamplesWhole, IsSample, Bits32
<1> QED BY <1>1, <1>6, <1>12, <1>13

(* A step of the conversion keeps what is made so far, and makes what comes *)
(* next.                                                                    *)
LEMMA LutKeeps ==
    ASSUME LutInv, cam4_rd_do_LUT
    PROVE  LutInv'
<1>1. /\ frame.format \in 0 .. 7 /\ frame.size \in Nat /\ size \in Int
      /\ raw16 \in Seq(Words) /\ img \in Seq(Words) /\ SamplesWhole
  BY DEF LutInv
<1>2. CASE Unpack10
  <2>1. frame.format = 1 /\ size >= 20 BY <1>2 DEF Unpack10
  <2>2. PICK t \in Nat : Turned(t, 20, 16) BY <2>1 DEF LutInv, InTurn
  <2>3. frame.size = size + 20 * t /\ Len(raw16) = 16 * t /\ Len(img) = 16 * t
    BY <2>2 DEF Turned
  <2>4. Done \div 20 = t BY <1>1, <2>3 DEF Done
  <2>5. PICK s : s = [i \in 1 .. 16 |-> Sample(5 * t, LUT_10_to_8[i], 10)] OBVIOUS
  <2>6. Turn(s, 20) BY <1>2, <2>4, <2>5 DEF Unpack10
  <2>7. \A i \in 1 .. 16 : s[i] \in Words /\ IsSample(s[i], 16 * t + i, 10)
    BY <1>1, <2>3, <2>5, Samples10
  <2>8. s \in Seq(Words) /\ Len(s) = 16
    <3>1. s \in [1 .. 16 -> Words] BY <2>5, <2>7
    <3>2. s \in Seq(Words) BY <3>1, SeqDef
    <3> QED BY <3>1, <3>2, LenProperties
  <2>9. \A i \in 1 .. 16 : IsSample(s[i], Len(raw16) + i, SampleBits(frame.format))
    <3>1. SampleBits(frame.format) = 10 BY <1>1, <2>1, BitsOfFormat
    <3> QED BY <2>3, <2>7, <3>1
  <2>10. /\ frame' = frame /\ size' = size - 20
         /\ raw16' \in Seq(Words) /\ img' \in Seq(Words)
         /\ Len(raw16') = Len(raw16) + 16 /\ Len(img') = Len(img) + 16
         /\ SamplesWhole'
    BY <2>1, <2>6, <2>8, <2>9, TurnKeeps
  <2>11. Turned(t + 1, 20, 16)' BY <1>1, <2>3, <2>10 DEF Turned
  <2>12. InTurn' BY <2>1, <2>10, <2>11 DEF InTurn
  <2> QED BY <1>1, <2>10, <2>12 DEF LutInv
<1>3. CASE Unpack12
  <2>1. frame.format = 2 /\ size >= 12 BY <1>3 DEF Unpack12
  <2>2. PICK t \in Nat : Turned(t, 12, 8) BY <2>1 DEF LutInv, InTurn
  <2>3. frame.size = size + 12 * t /\ Len(raw16) = 8 * t /\ Len(img) = 8 * t
    BY <2>2 DEF Turned
  <2>4. Done \div 12 = t BY <1>1, <2>3 DEF Done
  <2>5. PICK s : s = [i \in 1 .. 8 |-> Sample(3 * t, LUT_12_to_8[i], 12)] OBVIOUS
  <2>6. Turn(s, 12) BY <1>3, <2>4, <2>5 DEF Unpack12
  <2>7. \A i \in 1 .. 8 : s[i] \in Words /\ IsSample(s[i], 8 * t + i, 12)
    BY <1>1, <2>3, <2>5, Samples12
  <2>8. s \in Seq(Words) /\ Len(s) = 8
    <3>1. s \in [1 .. 8 -> Words] BY <2>5, <2>7
    <3>2. s \in Seq(Words) BY <3>1, SeqDef
    <3> QED BY <3>1, <3>2, LenProperties
  <2>9. \A i \in 1 .. 8 : IsSample(s[i], Len(raw16) + i, SampleBits(frame.format))
    <3>1. SampleBits(frame.format) = 12 BY <1>1, <2>1, BitsOfFormat
    <3> QED BY <2>3, <2>7, <3>1
  <2>10. /\ frame' = frame /\ size' = size - 12
         /\ raw16' \in Seq(Words) /\ img' \in Seq(Words)
         /\ Len(raw16') = Len(raw16) + 8 /\ Len(img') = Len(img) + 8
         /\ SamplesWhole'
    BY <2>1, <2>6, <2>8, <2>9, TurnKeeps
  <2>11. Turned(t + 1, 12, 8)' BY <1>1, <2>3, <2>10 DEF Turned
  <2>12. InTurn' BY <2>1, <2>10, <2>11 DEF InTurn
  <2> QED BY <1>1, <2>10, <2>12 DEF LutInv
<1>4. CASE LUT_16_to_8
  <2>1. frame.format = 4 /\ size > 0 BY <1>4 DEF LUT_16_to_8
  <2>2. PICK t \in Nat : Turned(t, 2, 1) BY <1>1, <2>1 DEF LutInv, InTurn
  <2>3. frame.size = size + 2 * t /\ Len(raw16) = t /\ Len(img) = t
    BY <2>2 DEF Turned
  <2>4. Done \div 2 = t BY <1>1, <2>3 DEF Done
  <2>5. PICK h : h = [k \in 0 .. 31 |-> IF k < 16 THEN StreamBit(16 * t + 15 - k) ELSE Zero]
    OBVIOUS
  <2>6. PICK s : s = <<h>> OBVIOUS
  <2>7. Turn(s, 2) BY <1>4, <2>4, <2>5, <2>6 DEF LUT_16_to_8
  <2>8. ASSUME NEW k \in Bits32 PROVE h[k] = IF k < 16 THEN 16 * (t + 1) - 1 - k ELSE Zero
    <3>1. CASE k < 16
      <4>1. (16 * t + 15 - k) \div 8 >= 2 * t BY <3>1 DEF Bits32
      <4>2. ~((16 * t + 15 - k) \div 8 < t) BY <3>1, <4>1 DEF Bits32
      <4>3. StreamBit(16 * t + 15 - k) = 16 * t + 15 - k BY <2>3, <4>2 DEF StreamBit
      <4> QED BY <2>5, <3>1, <4>3 DEF Bits32
    <3>2. CASE ~(k < 16) BY <2>5, <3>2 DEF Bits32
    <3> QED BY <3>1, <3>2
  <2>9. h \in Words
    <3>1. \A k \in Bits32 : h[k] \in Int BY <2>8 DEF Bits32, Zero
    <3> QED BY <2>5, <3>1 DEF Words, Bits32
  <2>10. s \in Seq(Words) /\ Len(s) = 1 /\ s[1] = h BY <2>6, <2>9
  <2>11. \A i \in 1 .. 1 : IsSample(s[i], Len(raw16) + i, SampleBits(frame.format))
    <3>1. IsSample(h, t + 1, 16) BY <2>8 DEF IsSample
    <3>2. SampleBits(frame.format) = 16 BY <1>1, <2>1, BitsOfFormat
    <3> QED BY <2>3, <2>10, <3>1, <3>2
  <2>12. /\ frame' = frame /\ size' = size - 2
         /\ raw16' \in Seq(Words) /\ img' \in Seq(Words)
         /\ Len(raw16') = Len(raw16) + 1 /\ Len(img') = Len(img) + 1
         /\ SamplesWhole'
    BY <2>1, <2>7, <2>10, <2>11, TurnKeeps
  <2>13. Turned(t + 1, 2, 1)' BY <1>1, <2>3, <2>12 DEF Turned
  <2>14. InTurn' BY <2>1, <2>12, <2>13 DEF InTurn
  <2> QED BY <1>1, <2>12, <2>14 DEF LutInv
<1>5. CASE unpack_8
  <2>1. /\ frame.format = 0 /\ size >= 0 /\ size' = -1 /\ frame' = frame /\ img' = img
        /\ raw16' = [n \in 1 .. size |-> [k \in 0 .. 31 |-> IF k < 8 THEN 8 * n - 1 - k ELSE Zero]]
    BY <1>5 DEF unpack_8
  <2>2. raw16' \in [1 .. size -> Words] BY <2>1 DEF Words, Bits32, Zero
  <2>3. raw16' \in Seq(Words)
    <3>1. size \in Nat BY <1>1, <2>1
    <3> QED BY <2>2, <3>1, SeqDef
  <2>4. SampleBits(frame'.format) = 8 BY <1>1, <2>1, BitsOfFormat
  <2>5. DOMAIN raw16' = 1 .. size BY <2>1
  <2>6. ASSUME NEW n \in 1 .. size, NEW k \in 0 .. 31
        PROVE  raw16'[n][k] = IF k < 8 THEN 8 * n - 1 - k ELSE Zero
    BY <2>1
  <2>7. SamplesWhole' BY <2>4, <2>5, <2>6, Zenon DEF SamplesWhole
  <2>8. ~(size' >= 0) BY <2>1
  <2> QED BY <1>1, <2>1, <2>3, <2>7, <2>8 DEF LutInv
<1>6. CASE UnpackEnds
  <2>1. size' = -1 /\ frame' = frame /\ img' = img /\ raw16' = raw16 BY <1>6 DEF UnpackEnds
  <2>2. SamplesWhole' BY <1>1, <2>1 DEF SamplesWhole
  <2>3. ~(size' >= 0) BY <2>1
  <2> QED BY <1>1, <2>1, <2>2, <2>3 DEF LutInv
<1> QED BY <1>2, <1>3, <1>4, <1>5, <1>6 DEF cam4_rd_do_LUT

(* The conversion in the viewer: it begins with nothing converted.          *)
Converting ==
    /\ LutInv /\ scenario \in Scenarios
    /\ pc \in {"script", "settings", "sending", "dump"} => raw16 = <<>> /\ img = <<>>

(* No other step of the viewer touches the frame.                           *)
LEMMA ConvertingKept ==
    ASSUME Converting, [ViewerNext]_viewerVars
    PROVE  Converting'
<1>1. /\ frame.format \in 0 .. 7 /\ frame.size \in Nat /\ size \in Int
      /\ raw16 \in Seq(Words) /\ img \in Seq(Words) /\ SamplesWhole /\ LutInv
      /\ scenario \in Scenarios
  BY DEF LutInv, Converting
<1>2. PICK z \in Seq(Words) : z = <<>> /\ Len(z) = 0 BY EmptySeq
<1>3. ASSUME UNCHANGED lutVars PROVE LutInv'
  <2>1. frame' = frame /\ size' = size /\ img' = img /\ raw16' = raw16 BY <1>3 DEF lutVars
  <2>2. SamplesWhole' BY <1>1, <2>1 DEF SamplesWhole
  <2>3. InTurn' = InTurn BY <2>1 DEF InTurn, Turned
  <2> QED BY <1>1, <2>1, <2>2, <2>3 DEF LutInv
<1>4. CASE Wake
  <2>1. PICK f : f \in scenario.formats /\ frame' = f BY <1>4 DEF Wake
  <2>2. f \in Frames BY <1>1, <2>1, ViewerAssumption
  <2>3. f.format \in 0 .. 7 /\ f.size \in Nat BY <2>2, LutAssumption
  <2>4. /\ size' = -1 /\ img' = <<>> /\ raw16' = <<>> /\ scenario' = scenario
    BY <1>4 DEF Wake
  <2>5. SamplesWhole'
    <3>1. DOMAIN raw16' = {} BY <2>4
    <3> QED BY <3>1, Zenon DEF SamplesWhole
  <2>6. ~(size' >= 0) BY <2>4
  <2> QED BY <1>1, <1>2, <2>1, <2>3, <2>4, <2>5, <2>6 DEF LutInv, Converting
<1>5. CASE cam4_dump_raw_frame
  <2>1. /\ size' = frame.size /\ frame' = frame /\ img' = img /\ raw16' = raw16
        /\ scenario' = scenario /\ pc' = "lut" /\ pc = "dump"
    BY <1>5 DEF cam4_dump_raw_frame
  <2>2. raw16 = <<>> /\ img = <<>> BY <2>1 DEF Converting
  <2>3. SamplesWhole' BY <1>1, <2>1 DEF SamplesWhole
  <2>4. \A bytes, samples \in Nat : Turned(0, bytes, samples)'
    BY <1>1, <1>2, <2>1, <2>2 DEF Turned
  <2>5. InTurn' BY <2>1, <2>2, <2>4 DEF InTurn
  <2> QED BY <1>1, <2>1, <2>3, <2>5 DEF LutInv, Converting
<1>6. CASE Unpack
  <2>1. scenario' = scenario /\ pc' \in {"raw", "lut"} /\ cam4_rd_do_LUT BY <1>6 DEF Unpack
  <2> QED BY <1>1, <2>1, LutKeeps DEF Converting
<1>7. CASE Exit
  <2>1. /\ size' = -1 /\ frame' = frame /\ img' = img /\ raw16' = raw16
        /\ scenario' = scenario /\ pc' = "gone"
    BY <1>7 DEF Exit
  <2>2. SamplesWhole' BY <1>1, <2>1 DEF SamplesWhole
  <2>3. ~(size' >= 0) BY <2>1
  <2> QED BY <1>1, <2>1, <2>2, <2>3 DEF LutInv, Converting
<1>8. CASE ScriptReads \/ ScriptMakes \/ ScriptSends \/ ScriptWrites
  <2>1. /\ UNCHANGED lutVars /\ scenario' = scenario
        /\ pc \in {"script", "settings", "sending", "dump"}
    BY <1>8 DEF ScriptReads, ScriptMakes, ScriptSends, ScriptWrites, dataVars
  <2> QED BY <1>1, <1>3, <2>1 DEF Converting, lutVars
<1>9. CASE write_raw_video \/ StartPicture \/ MakePicture \/ EndOfFrame
  <2>1. /\ UNCHANGED lutVars /\ scenario' = scenario
        /\ pc' \in {"debayer", "picture", "sleep"}
    BY <1>9 DEF write_raw_video, StartPicture, MakePicture, EndOfFrame, dataVars, DebayerLine
  <2> QED BY <1>1, <1>3, <2>1 DEF Converting
<1>10. CASE CommandThread \/ WriteCommand \/ MoveWindow \/ LaterParse \/ Library
            \/ UNCHANGED viewerVars
  <2>1. UNCHANGED lutVars /\ scenario' = scenario /\ pc' = pc
    BY <1>10 DEF CommandThread, TakeCommand, parse_command, CommandMakes, CommandSends,
                 CommandStores, WriteCommand, MoveWindow, LaterParse, Library, ViewOnly,
                 dataVars, viewerVars
  <2> QED BY <1>1, <1>3, <2>1 DEF Converting, lutVars
<1> QED BY <1>4, <1>5, <1>6, <1>7, <1>8, <1>9, <1>10 DEF ViewerNext, FrameThread

(* Every sample of a frame is taken whole from the packed stream, although  *)
(* the loops write into the buffer they read: for frames of every format    *)
(* and size (cam4_rd_do_LUT).                                               *)
THEOREM SamplesAreWhole == ViewerSpec => []SamplesWhole
<1>1. ViewerInit => Converting
  <2> SUFFICES ASSUME ViewerInit PROVE Converting
    OBVIOUS
  <2>1. /\ frame = [format |-> 0, size |-> 0] /\ size = -1 /\ img = <<>> /\ raw16 = <<>>
        /\ scenario \in Scenarios
    BY DEF ViewerInit, LutInit
  <2>2. frame.format = 0 /\ frame.size = 0 BY <2>1
  <2>3. \A z : z = <<>> => z \in Seq(Words) BY EmptySeq
  <2>4. SamplesWhole
    <3>1. DOMAIN raw16 = {} BY <2>1
    <3> QED BY <3>1, Zenon DEF SamplesWhole
  <2>5. ~(size >= 0) BY <2>1
  <2> QED BY <2>1, <2>2, <2>3, <2>4, <2>5 DEF Converting, LutInv
<1>2. Converting => SamplesWhole BY DEF Converting, LutInv
<1> QED BY <1>1, <1>2, ConvertingKept, PTL DEF ViewerSpec

----------------------------------------------------------------------------
(* The commands                                                             *)

AllCommands == UNION {s.commands : s \in Scenarios}

(* The commands that were written and not yet taken.                        *)
Way == buffered \o fifo

IsTest(s, i) == s[i].name = "TEST"
Called == \E i \in DOMAIN given : IsTest(given, i)
Disturbing == DOMAIN Packets \cup {"DUMPRAW", "IMGNUM"}

Typed ==
    /\ scenario \in Scenarios
    /\ given \in Seq(AllCommands) /\ buffered \in Seq(AllCommands) /\ fifo \in Seq(AllCommands)

(* The least of a set of numbers.                                           *)
LEMMA Least ==
    ASSUME NEW S \in SUBSET Nat, S # {}
    PROVE  \E n \in S : \A k \in S : n <= k
<1>1. PICK n \in S : \A k \in S : ~(<<k, n>> \in OpToRel(<, Nat))
  BY WFMin, NatLessThanWellFounded, Zenon
<1>2. \A k \in S : ~(k < n) BY <1>1, Zenon DEF OpToRel
<1>3. \A k \in S : n <= k BY <1>2
<1> QED BY <1>3

(* fgets takes something, and no more than there is.                        *)
LEMMA LineTaken ==
    ASSUME NEW S, NEW s \in Seq(S), s # <<>>
    PROVE  fgets(s) \in 1 .. Len(s)
<1>1. Len(s) \in Nat /\ Len(s) > 0 /\ DOMAIN s = 1 .. Len(s) BY LenProperties, EmptySeq
<1>2. CASE LineEnd(s) = {} BY <1>1, <1>2 DEF fgets
<1>3. CASE LineEnd(s) # {}
  <2>1. LineEnd(s) \in SUBSET Nat BY <1>1 DEF LineEnd
  <2>2. \E i \in LineEnd(s) : \A k \in LineEnd(s) : i <= k BY <1>3, <2>1, Least
  <2>3. PICK n : n = (CHOOSE i \in LineEnd(s) : \A k \in LineEnd(s) : i <= k) OBVIOUS
  <2>4. n \in LineEnd(s) BY <2>2, <2>3, Zenon
  <2>5. fgets(s) = n BY <1>3, <2>3, Zenon DEF fgets
  <2>6. n \in 1 .. Len(s) BY <1>1, <2>4 DEF LineEnd
  <2> QED BY <2>5, <2>6
<1> QED BY <1>2, <1>3

(* A command is taken from the front of what is on its way.                 *)
LEMMA TakenInFront ==
    ASSUME Typed, TakeCommand
    PROVE  /\ Typed'
           /\ Len(Way) \in Nat /\ Len(Way') \in Nat
           /\ \E n \in 1 .. Len(Way) :
                 /\ Len(Way') = Len(Way) - n
                 /\ \A i \in 1 .. Len(Way') : Way'[i] = Way[i + n]
           /\ 1 \in 1 .. Len(Way)
           /\ cmd'.name = Way[1].name /\ cmd'.step = "begin"
<1>1. /\ fifo \in Seq(AllCommands) /\ buffered \in Seq(AllCommands) /\ fifo # <<>>
      /\ scenario' = scenario /\ given' = given
  BY DEF Typed, TakeCommand
<1>2. Way \in Seq(AllCommands) BY <1>1 DEF Way
<1>3. PICK l : l = Len(Way) BY <1>2
<1>4. l \in Nat BY <1>2, <1>3
<1>5. CASE LineEnd(buffered) # {}
  <2>1. PICK n : n = fgets(buffered) OBVIOUS
  <2>2. /\ buffered' = SubSeq(buffered, n + 1, Len(buffered)) /\ fifo' = fifo
        /\ cmd' = [name |-> buffered[1].name, step |-> "begin"]
    BY <1>5, <2>1 DEF TakeCommand
  <2>3. buffered # <<>> BY <1>5 DEF LineEnd
  <2>4. n \in 1 .. Len(buffered) BY <1>1, <2>1, <2>3, LineTaken
  <2>5. PICK b : b = Len(buffered) OBVIOUS
  <2>6. b \in Nat BY <1>1, <2>5
  <2>7. /\ buffered' \in Seq(AllCommands) /\ Len(buffered') = b - n
        /\ \A i \in 1 .. b - n : buffered'[i] = buffered[i + n]
    <3>1. n + 1 \in 1 .. b + 1 BY <2>4, <2>5, <2>6
    <3>2. PICK t : t = SubSeq(buffered, n + 1, b) OBVIOUS
    <3>3. /\ t \in Seq(AllCommands) /\ Len(t) = b - n
          /\ \A i \in 1 .. b - n : t[i] = buffered[i + n]
      BY <1>1, <2>4, <2>5, <2>6, <3>1, <3>2
    <3> QED BY <2>2, <2>5, <3>2, <3>3
  <2>8. PICK f : f = Len(fifo) OBVIOUS
  <2>9. f \in Nat BY <1>1, <2>8
  <2>10. l = b + f /\ \A i \in 1 .. l : Way[i] = IF i <= b THEN buffered[i] ELSE fifo[i - b]
    BY <1>1, <1>3, <2>5, <2>8, Joined DEF Way
  <2>11. PICK bb : bb = buffered' OBVIOUS
  <2>12. /\ bb \o fifo \in Seq(AllCommands) /\ Len(bb \o fifo) = b - n + f
         /\ \A i \in 1 .. Len(bb \o fifo) :
               (bb \o fifo)[i] = IF i <= b - n THEN bb[i] ELSE fifo[i - (b - n)]
    <3>1. bb \in Seq(AllCommands) /\ Len(bb) = b - n BY <2>7, <2>11
    <3>2. /\ bb \o fifo \in Seq(AllCommands) /\ Len(bb \o fifo) = Len(bb) + Len(fifo)
          /\ \A i \in 1 .. Len(bb \o fifo) :
                (bb \o fifo)[i] = IF i <= Len(bb) THEN bb[i] ELSE fifo[i - Len(bb)]
      BY <1>1, <3>1, Joined, Zenon
    <3> QED BY <2>8, <3>1, <3>2
  <2>13. Way' = bb \o fifo BY <2>2, <2>11 DEF Way
  <2>14. Len(Way') = l - n BY <2>4, <2>5, <2>6, <2>9, <2>10, <2>12, <2>13
  <2>15. ASSUME NEW i \in 1 .. l - n PROVE Way'[i] = Way[i + n]
    <3>1. Way'[i] = IF i <= b - n THEN bb[i] ELSE fifo[i - (b - n)]
      BY <2>12, <2>13, <2>14, <2>15
    <3>2. Way[i + n] = IF i + n <= b THEN buffered[i + n] ELSE fifo[i + n - b]
      BY <1>4, <2>4, <2>5, <2>6, <2>10, <2>15
    <3>3. i \in Nat /\ n \in Nat BY <1>4, <2>4, <2>15
    <3>4. CASE i <= b - n
      <4>1. bb[i] = buffered[i + n] BY <2>6, <2>7, <2>11, <2>15, <3>3, <3>4
      <4> QED BY <2>6, <3>1, <3>2, <3>3, <3>4, <4>1
    <3>5. CASE ~(i <= b - n)
      <4>1. i - (b - n) = i + n - b BY <2>6, <3>3
      <4> QED BY <2>6, <3>1, <3>2, <3>3, <3>5, <4>1
    <3> QED BY <3>4, <3>5
  <2>16. n \in 1 .. l /\ 1 \in 1 .. l /\ l - n \in Nat
    BY <2>4, <2>5, <2>6, <2>9, <2>10
  <2>17. cmd'.name = buffered[1].name /\ cmd'.step = "begin" BY <2>2
  <2>18. Way[1] = buffered[1] BY <2>4, <2>5, <2>6, <2>10, <2>16
  <2>19. Typed' BY <1>1, <2>2, <2>7 DEF Typed
  <2> QED BY <1>3, <1>4, <2>14, <2>15, <2>16, <2>17, <2>18, <2>19
<1>6. CASE LineEnd(buffered) = {}
  <2>1. PICK n : n = fgets(Way) OBVIOUS
  <2>2. /\ buffered' = SubSeq(Way, n + 1, l) /\ fifo' = <<>>
        /\ cmd' = [name |-> Way[1].name, step |-> "begin"]
    BY <1>3, <1>6, <2>1 DEF TakeCommand, Way
  <2>3. Way # <<>>
    <3>1. Len(fifo) \in Nat /\ Len(fifo) > 0 BY <1>1, LenProperties, EmptySeq
    <3>2. Len(buffered) \in Nat BY <1>1
    <3>3. Len(Way) = Len(buffered) + Len(fifo) BY <1>1 DEF Way
    <3> QED BY <3>1, <3>2, <3>3, EmptySeq
  <2>4. n \in 1 .. l BY <1>2, <1>3, <2>1, <2>3, LineTaken
  <2>5. PICK t : t = SubSeq(Way, n + 1, l) OBVIOUS
  <2>6. /\ t \in Seq(AllCommands) /\ Len(t) = l - n
        /\ \A i \in 1 .. l - n : t[i] = Way[i + n]
    <3>1. n + 1 \in 1 .. l + 1 BY <2>4, <1>4
    <3> QED BY <1>2, <1>3, <1>4, <2>4, <2>5, <3>1
  <2>7. Way' = t
    <3>1. Way' = t \o <<>> BY <2>2, <2>5 DEF Way
    <3> QED BY <2>6, <3>1
  <2>8. n \in 1 .. l /\ 1 \in 1 .. l /\ l - n \in Nat BY <1>4, <2>4
  <2>9. cmd'.name = Way[1].name /\ cmd'.step = "begin" BY <2>2
  <2>10. Typed'
    <3>1. fifo' \in Seq(AllCommands) BY <2>2
    <3>2. buffered' \in Seq(AllCommands) BY <2>2, <2>5, <2>6
    <3> QED BY <1>1, <3>1, <3>2 DEF Typed
  <2> QED BY <1>3, <1>4, <2>6, <2>7, <2>8, <2>9, <2>10
<1> QED BY <1>5, <1>6

(* What the command thread knows when nothing disturbs a test: a test on    *)
(* its way was written, and there is only one.                              *)
Heard ==
    /\ cmd.step \in {"none", "begin"} /\ cmd.name \notin Disturbing
    /\ cmd.name = "TEST" => Called
    /\ \A i \in DOMAIN Way : \E j \in DOMAIN given : Way[i].name = given[j].name
    /\ \A i, j \in DOMAIN Way : IsTest(Way, i) /\ IsTest(Way, j) => i = j
    /\ cmd.name = "TEST" => \A i \in DOMAIN Way : ~IsTest(Way, i)

(* The test has not been started yet.                                       *)
ToCome == cmd.name = "TEST" \/ (\E i \in DOMAIN Way : IsTest(Way, i)) \/ ~Called

(* Taking a command brings no second test.                                  *)
LEMMA HeardTaken ==
    ASSUME Typed, TakeCommand, Heard, Undisturbed
    PROVE  Typed' /\ Heard' /\ (ToCome' => ToCome)
<1>1. PICK n \in 1 .. Len(Way) :
          /\ Len(Way') = Len(Way) - n
          /\ \A i \in 1 .. Len(Way') : Way'[i] = Way[i + n]
  BY TakenInFront
<1>2. /\ Typed' /\ Len(Way) \in Nat /\ Len(Way') \in Nat /\ 1 \in 1 .. Len(Way)
      /\ cmd'.name = Way[1].name /\ cmd'.step = "begin"
  BY TakenInFront
<1>3. given' = given BY DEF TakeCommand
<1>4. DOMAIN Way = 1 .. Len(Way) /\ DOMAIN Way' = 1 .. Len(Way')
  <2>1. Way \in Seq(AllCommands) BY DEF Typed, Way
  <2>2. Way' \in Seq(AllCommands) BY <1>2 DEF Typed, Way
  <2> QED BY <2>1, <2>2, LenProperties
<1>5. ASSUME NEW i \in DOMAIN Way'
      PROVE  i + n \in DOMAIN Way /\ Way'[i] = Way[i + n] /\ i + n # 1 /\ i \in Nat
  BY <1>1, <1>2, <1>4
<1>6. ASSUME NEW i \in DOMAIN Way' PROVE IsTest(Way', i) <=> IsTest(Way, i + n)
  BY <1>5 DEF IsTest
<1>7. \A i \in DOMAIN Way : \E j \in DOMAIN given : Way[i].name = given[j].name
  BY DEF Heard
<1>8. PICK j \in DOMAIN given : cmd'.name = given[j].name BY <1>2, <1>4, <1>7
<1>9. cmd'.name \notin Disturbing' BY <1>8 DEF Undisturbed, Disturbing
<1>10. cmd'.name = "TEST" => Called' BY <1>3, <1>8 DEF Called, IsTest
<1>11. \A i \in DOMAIN Way' : \E k \in DOMAIN given' : Way'[i].name = given'[k].name
  BY <1>3, <1>5, <1>7
<1>12. \A i, k \in DOMAIN Way : IsTest(Way, i) /\ IsTest(Way, k) => i = k BY DEF Heard
<1>13. ASSUME NEW i \in DOMAIN Way', NEW k \in DOMAIN Way', IsTest(Way', i), IsTest(Way', k)
       PROVE  i = k
  <2>1. IsTest(Way, i + n) /\ IsTest(Way, k + n) BY <1>6, <1>13
  <2>2. i + n = k + n BY <1>5, <1>12, <2>1
  <2> QED BY <1>5, <2>2
<1>14. ASSUME cmd'.name = "TEST", NEW i \in DOMAIN Way' PROVE ~IsTest(Way', i)
  <2>1. IsTest(Way, 1) /\ 1 \in DOMAIN Way BY <1>2, <1>4, <1>14 DEF IsTest
  <2> QED BY <1>5, <1>6, <1>12, <2>1
<1>15. Heard' BY <1>2, <1>9, <1>10, <1>11, <1>13, <1>14 DEF Heard
<1>16. ASSUME ToCome' PROVE ToCome
  <2>1. CASE cmd'.name = "TEST" BY <2>1, <1>2, <1>4 DEF ToCome, IsTest
  <2>2. CASE \E i \in DOMAIN Way' : IsTest(Way', i) BY <2>2, <1>5, <1>6 DEF ToCome
  <2>3. CASE ~Called' BY <2>3, <1>3 DEF ToCome, Called, IsTest
  <2> QED BY <1>16, <2>1, <2>2, <2>3 DEF ToCome
<1> QED BY <1>2, <1>15, <1>16

(* A command that is written: the first test, or none.                      *)
LEMMA HeardWritten ==
    ASSUME Typed, WriteCommand, Heard, Tests = 1
    PROVE  Typed' /\ Heard' /\ (ToCome' => ToCome) /\ (Undisturbed' => Undisturbed)
<1>1. PICK c \in scenario.commands :
          /\ c.name = "TEST" => Cardinality({i \in DOMAIN given : given[i].name = "TEST"}) < Tests
          /\ fifo' = Append(fifo, c) /\ given' = Append(given, c)
  BY DEF WriteCommand
<1>2. buffered' = buffered /\ cmd' = cmd /\ scenario' = scenario BY DEF WriteCommand
<1>3. c \in AllCommands BY DEF Typed, AllCommands
<1>4. /\ given \in Seq(AllCommands) /\ buffered \in Seq(AllCommands)
      /\ fifo \in Seq(AllCommands)
  BY DEF Typed
<1>5. PICK g : g = Len(given) OBVIOUS
<1>6. /\ g \in Nat /\ DOMAIN given = 1 .. g /\ given' \in Seq(AllCommands)
      /\ DOMAIN given' = 1 .. g + 1 /\ given'[g + 1] = c
      /\ \A i \in 1 .. g : given'[i] = given[i]
  BY <1>1, <1>3, <1>4, <1>5, AppendProperties
<1>7. PICK l : l = Len(Way) OBVIOUS
<1>8. Way \in Seq(AllCommands) /\ l \in Nat /\ DOMAIN Way = 1 .. l
  BY <1>4, <1>7, LenProperties DEF Way
<1>9. Way' = Append(Way, c)
  <2>1. buffered \o Append(fifo, c) = Append(buffered \o fifo, c) BY <1>3, <1>4
  <2> QED BY <1>1, <1>2, <2>1 DEF Way
<1>10. /\ DOMAIN Way' = 1 .. l + 1 /\ Way'[l + 1] = c
       /\ \A i \in 1 .. l : Way'[i] = Way[i]
  BY <1>3, <1>7, <1>8, <1>9, AppendProperties
<1>11. Typed'
  <2>1. fifo' \in Seq(AllCommands) BY <1>1, <1>3, <1>4, AppendProperties
  <2> QED BY <1>2, <1>4, <1>6, <2>1 DEF Typed
<1>12. Undisturbed' => Undisturbed
  <2>1. \A i \in DOMAIN given : i \in DOMAIN given' /\ given'[i] = given[i] BY <1>6
  <2> QED BY <2>1 DEF Undisturbed
<1>13. Called => Called' BY <1>6 DEF Called, IsTest
<1>14. c.name = "TEST" => Called' BY <1>6 DEF Called, IsTest
<1>15. ASSUME c.name = "TEST" PROVE ~Called
  <2>1. PICK G : G = {i \in DOMAIN given : given[i].name = "TEST"} OBVIOUS
  <2>2. Cardinality(G) < 1 BY <1>1, <1>15, <2>1
  <2>3. IsFiniteSet(G)
    <3>1. 1 \in Int /\ g \in Int BY <1>6
    <3>2. IsFiniteSet(1 .. g) BY <3>1, FS_Interval
    <3>3. G \in SUBSET (1 .. g) BY <1>6, <2>1
    <3> QED BY <3>2, <3>3, FS_Subset
  <2>4. Cardinality(G) \in Nat BY <2>3, FS_CardinalityType
  <2>5. Cardinality(G) = 0 BY <2>2, <2>4
  <2>6. G = {} BY <2>3, <2>5, FS_EmptySet
  <2> QED BY <2>1, <2>6 DEF Called, IsTest
<1>16. ASSUME NEW i \in DOMAIN Way PROVE ~(IsTest(Way, i) /\ ~Called)
  BY DEF Heard, IsTest, Called
<1>17. ASSUME NEW i \in 1 .. l + 1
       PROVE  i \in 1 .. l \/ i = l + 1
  BY <1>8
<1>18. ASSUME NEW i \in DOMAIN Way'
       PROVE  \E j \in DOMAIN given' : Way'[i].name = given'[j].name
  <2>1. CASE i \in 1 .. l
    <3>1. PICK j \in 1 .. g : Way[i].name = given[j].name BY <1>6, <1>8, <2>1 DEF Heard
    <3>2. j \in DOMAIN given' /\ given'[j] = given[j] BY <1>6
    <3> QED BY <1>10, <2>1, <3>1, <3>2
  <2>2. CASE i = l + 1
    <3>1. g + 1 \in DOMAIN given' BY <1>6
    <3> QED BY <1>6, <1>10, <2>2, <3>1
  <2> QED BY <1>10, <1>17, <2>1, <2>2
<1>19. ASSUME NEW i \in 1 .. l PROVE IsTest(Way', i) <=> IsTest(Way, i)
  BY <1>10 DEF IsTest
<1>20. IsTest(Way', l + 1) <=> c.name = "TEST" BY <1>10 DEF IsTest
<1>21. ASSUME NEW i \in DOMAIN Way', NEW j \in DOMAIN Way', IsTest(Way', i), IsTest(Way', j)
       PROVE  i = j
  <2>1. CASE i \in 1 .. l /\ j \in 1 .. l BY <1>8, <1>19, <1>21, <2>1 DEF Heard
  <2>2. CASE i \in 1 .. l /\ j = l + 1
    BY <1>8, <1>15, <1>16, <1>19, <1>20, <1>21, <2>2
  <2>3. CASE j \in 1 .. l /\ i = l + 1
    BY <1>8, <1>15, <1>16, <1>19, <1>20, <1>21, <2>3
  <2> QED BY <1>10, <1>17, <2>1, <2>2, <2>3
<1>22. ASSUME cmd.name = "TEST", NEW i \in DOMAIN Way' PROVE ~IsTest(Way', i)
  <2>1. Called BY <1>22 DEF Heard
  <2>2. CASE i \in 1 .. l BY <1>8, <1>19, <1>22, <2>2 DEF Heard
  <2>3. CASE i = l + 1 BY <1>15, <1>20, <2>1, <2>3
  <2> QED BY <1>10, <1>17, <2>2, <2>3
<1>23. Heard' BY <1>2, <1>13, <1>18, <1>21, <1>22 DEF Heard, Disturbing
<1>24. ASSUME ToCome', ~ToCome PROVE FALSE
  <2>1. cmd.name # "TEST" /\ Called /\ \A i \in DOMAIN Way : ~IsTest(Way, i)
    BY <1>24 DEF ToCome
  <2>2. c.name # "TEST" BY <1>15, <2>1
  <2>3. \A i \in DOMAIN Way' : ~IsTest(Way', i)
    BY <1>8, <1>10, <1>17, <1>19, <1>20, <2>1, <2>2
  <2> QED BY <1>2, <1>13, <1>24, <2>1, <2>3 DEF ToCome
<1> QED BY <1>11, <1>12, <1>23, <1>24

(* A command that only sets variables is over; a test has begun.            *)
LEMMA HeardParsed ==
    ASSUME Typed, parse_command, Heard
    PROVE  /\ Typed' /\ Heard' /\ (ToCome' => ToCome) /\ given' = given
           /\ cmd.name = "TEST" => ToCome /\ ~ToCome'
<1>1. /\ cmd' = Idle /\ buffered' = buffered /\ fifo' = fifo /\ given' = given
      /\ scenario' = scenario
  BY DEF parse_command
<1>2. cmd'.name = "none" /\ cmd'.step = "none" BY <1>1 DEF Idle
<1>3. Way' = Way BY <1>1 DEF Way
<1>4. "none" \notin Disturbing' /\ "none" # "TEST" BY DEF Disturbing, Packets
<1>5. Called' = Called BY <1>1 DEF Called, IsTest
<1>6. ASSUME NEW i \in DOMAIN Way PROVE IsTest(Way', i) <=> IsTest(Way, i)
  BY <1>3 DEF IsTest
<1>7. Heard' BY <1>1, <1>2, <1>3, <1>4, <1>6 DEF Heard
<1>8. Typed' BY <1>1 DEF Typed
<1>9. ToCome' => ToCome BY <1>2, <1>3, <1>4, <1>5, <1>6 DEF ToCome
<1>10. ASSUME cmd.name = "TEST" PROVE ToCome /\ ~ToCome'
  <2>1. Called /\ \A i \in DOMAIN Way : ~IsTest(Way, i) BY <1>10 DEF Heard
  <2> QED BY <1>2, <1>3, <1>4, <1>5, <1>6, <1>10, <2>1 DEF ToCome
<1> QED BY <1>1, <1>7, <1>8, <1>9, <1>10

(* A step that leaves the commands alone.                                   *)
LEMMA HeardAlone ==
    ASSUME Typed, Heard, UNCHANGED cmdVars, scenario' = scenario
    PROVE  Typed' /\ Heard' /\ ToCome' = ToCome /\ Undisturbed' = Undisturbed
<1>1. cmd' = cmd /\ buffered' = buffered /\ fifo' = fifo /\ given' = given BY DEF cmdVars
<1>2. Way' = Way BY <1>1 DEF Way
<1>3. Called' = Called BY <1>1 DEF Called, IsTest
<1>4. Disturbing' = Disturbing BY DEF Disturbing
<1>5. \A i : IsTest(Way', i) = IsTest(Way, i) BY <1>2 DEF IsTest
<1> QED BY <1>1, <1>2, <1>3, <1>4, <1>5 DEF Typed, Heard, ToCome, Undisturbed

----------------------------------------------------------------------------
(* The test                                                                 *)

Expected(k) == IF k = 0 THEN StartExpo ELSE StepExpo(k)
Shot(n, e, p, c) == [num |-> n, expo |-> e, pair |-> p, camera |-> c]
Shots == [num : Int, expo : Int, pair : {"A", "B"}, camera : Int]
(* The dump that has to be the i-th.                                        *)
Right(i) == Shot(i \div 2, Expected((i - 1) \div 2), IF i % 2 = 1 THEN "A" ELSE "B",
                 Expected((i - 1) \div 2))

(* The camera has the exposure of a step, and so has the script.            *)
SetFor(k) == expo = Expected(k) /\ camera = Expected(k)

(* Between two frames: how many dumps there are in each state of the test.  *)
Stage ==
    /\ state \in {"NOP", "START", "WAIT", "DUMP_A", "DUMP_B", "NEXT_STEP"}
    /\ state = "START" => dumps = <<>>
    /\ state \in {"WAIT", "DUMP_A"} => Len(dumps) = 2 * img_num /\ SetFor(img_num)
    /\ state = "DUMP_B" => Len(dumps) = 2 * img_num + 1 /\ SetFor(img_num)
    /\ state = "NEXT_STEP" => Len(dumps) = 2 * img_num /\ img_num > 0

(* The settings of a state, as far as they have not left.                   *)
Told ==
    /\ case \notin {"START", "NEXT_STEP"} => todo = <<>>
    /\ case = "START" =>
         \/ todo = <<cam4_set_period, cam4_set_expo(StartExpo)>>
         \/ todo = <<cam4_set_expo(StartExpo)>>
         \/ todo = <<>> /\ camera = StartExpo
    /\ case = "NEXT_STEP" =>
         \/ todo = <<cam4_set_expo(StepExpo(img_num))>>
         \/ todo = <<>> /\ camera = StepExpo(img_num)

(* The first and the second dump of a pair, about to be made.               *)
DueA == /\ case = "DUMP_A" /\ state = "DUMP_B" /\ pair = "A"
        /\ Len(dumps) = 2 * img_num /\ SetFor(img_num)
DueB == /\ case = "DUMP_B" /\ state \in {"NOP", "NEXT_STEP"} /\ pair = "B"
        /\ img_num > 0 /\ Len(dumps) = 2 * img_num - 1 /\ SetFor(img_num - 1)

Position ==
    /\ pc # "dump" => dumpraw = "none" /\ Stage
    /\ pc \notin {"settings", "sending"} => todo = <<>>
    /\ pc = "settings" => Told /\ (case = state \/ (case = "NOP" /\ state = "START"))
    /\ pc = "sending" => /\ Told /\ case = state /\ todo # <<>>
                         /\ writer.of = "frame" /\ writer.what = Head(todo)
    /\ pc = "dump" => \/ dumpraw = "none" /\ case \notin {"DUMP_A", "DUMP_B"} /\ Stage
                      \/ dumpraw = "due" /\ (DueA \/ DueB)

InSequence ==
    /\ ~mixed /\ img_num \in Nat /\ dumps \in Seq(Shots)
    /\ \A i \in DOMAIN dumps : dumps[i] = Right(i)
    /\ Position

Unstarted == state = "NOP" /\ case = "NOP" /\ todo = <<>> /\ dumps = <<>>

testVars == <<case, todo, state, img_num, expo, pair, dumpraw, dumps, mixed, camera>>

(* What the packets of the script tell the camera.                          *)
LEMMA PacketsTell ==
    /\ \A v : cam4_set_expo(v).val = "EXPOSITION" /\ cam4_set_expo(v).to = v
    /\ cam4_set_period.val = "TIME_PERIOD"
BY DEF cam4_set_expo, cam4_set_period, Update

(* A turn of the frame thread outside of the script changes nothing of it.  *)
LEMMA ElsewhereKeeps ==
    ASSUME InSequence, UNCHANGED testVars,
           \/ pc' = pc /\ writer' = writer
           \/ /\ pc \notin {"settings", "sending", "dump"}
              /\ pc' \notin {"settings", "sending", "dump"}
    PROVE  InSequence' /\ (Unstarted => Unstarted')
<1>1. /\ case' = case /\ todo' = todo /\ state' = state /\ img_num' = img_num /\ expo' = expo
      /\ pair' = pair /\ dumpraw' = dumpraw /\ dumps' = dumps /\ mixed' = mixed
      /\ camera' = camera
  BY DEF testVars
<1>2. Stage' = Stage BY <1>1 DEF Stage, SetFor, Expected, StartExpo, StepExpo
<1>3. Told' = Told BY <1>1 DEF Told
<1>4. DueA' = DueA /\ DueB' = DueB
  BY <1>1 DEF DueA, DueB, SetFor, Expected, StartExpo, StepExpo
<1>5. Position' BY <1>1, <1>2, <1>3, <1>4 DEF InSequence, Position
<1>6. \A i : Right(i)' = Right(i) OBVIOUS
<1> QED BY <1>1, <1>5, <1>6 DEF InSequence, Unstarted

(* The switch reads the state.                                              *)
LEMMA ReadsKeeps ==
    ASSUME InSequence, ScriptReads
    PROVE  InSequence' /\ (Unstarted => Unstarted')
<1>1. /\ pc = "script" /\ pc' = "settings" /\ case' = state
      /\ state' = state /\ img_num' = img_num /\ expo' = expo
      /\ pair' = pair /\ dumpraw' = dumpraw /\ dumps' = dumps /\ mixed' = mixed
      /\ camera' = camera
  BY DEF ScriptReads, dumpVars, sendVars
<1>2. todo' = CASE state = "START" -> <<cam4_set_period, cam4_set_expo(StartExpo)>>
                [] state = "NEXT_STEP" -> <<cam4_set_expo(StepExpo(img_num))>>
                [] OTHER -> <<>>
  BY DEF ScriptReads
<1>3. Stage /\ dumpraw = "none" BY <1>1 DEF InSequence, Position
<1>4. Stage' BY <1>1, <1>3 DEF Stage, SetFor, Expected, StartExpo, StepExpo
<1>5. Told' BY <1>1, <1>2 DEF Told
<1>6. Position' BY <1>1, <1>3, <1>4, <1>5 DEF Position
<1> QED BY <1>1, <1>2, <1>6 DEF InSequence, Unstarted

(* A setting is made, and is what the writer holds.                         *)
LEMMA MakesKeeps ==
    ASSUME InSequence, ScriptMakes
    PROVE  InSequence' /\ (Unstarted => Unstarted')
<1>1. /\ pc = "settings" /\ todo # <<>> /\ pc' = "sending"
      /\ case' = case /\ todo' = todo /\ state' = state /\ img_num' = img_num /\ expo' = expo
      /\ pair' = pair /\ dumpraw' = dumpraw /\ dumps' = dumps /\ mixed' = mixed
      /\ camera' = camera
      /\ writer' = [of |-> "frame", what |-> Head(todo)]
  BY DEF ScriptMakes, scriptVars, dumpVars, MakePacket
<1>2. writer'.of = "frame" /\ writer'.what = Head(todo) BY <1>1
<1>3. Stage /\ dumpraw = "none" /\ Told /\ (case = state \/ (case = "NOP" /\ state = "START"))
  BY <1>1 DEF InSequence, Position
<1>4. case = state BY <1>1, <1>3 DEF Told
<1>5. Stage' BY <1>1, <1>3 DEF Stage, SetFor, Expected, StartExpo, StepExpo
<1>6. Told' BY <1>1, <1>3 DEF Told
<1>7. Position' BY <1>1, <1>2, <1>3, <1>4, <1>5, <1>6 DEF Position
<1> QED BY <1>1, <1>7 DEF InSequence, Unstarted

(* A setting leaves; the last of a state sets the exposure.                 *)
LEMMA SendsKeeps ==
    ASSUME InSequence, ScriptSends
    PROVE  InSequence' /\ (Unstarted => Unstarted')
<1>1. /\ pc = "sending" /\ pc' = "settings"
      /\ case' = case /\ todo' = Tail(todo) /\ state' = state /\ img_num' = img_num
      /\ expo' = expo /\ pair' = pair /\ dumpraw' = dumpraw /\ dumps' = dumps
  BY DEF ScriptSends, dumpVars
<1>2. /\ mixed' = (mixed \/ writer.of # "frame")
      /\ camera' = IF writer.what.val = "EXPOSITION" THEN writer.what.to ELSE camera
  BY DEF ScriptSends, SendPacket
<1>3. /\ Stage /\ dumpraw = "none" /\ Told /\ case = state /\ todo # <<>>
      /\ writer.of = "frame" /\ writer.what = Head(todo)
  BY <1>1 DEF InSequence, Position
<1>4. ~mixed' BY <1>2, <1>3 DEF InSequence
<1>5. case \in {"START", "NEXT_STEP"} BY <1>3 DEF Told
<1>6. Stage' BY <1>1, <1>3, <1>5 DEF Stage
<1>7. Told'
  <2>1. CASE case = "START" /\ todo = <<cam4_set_period, cam4_set_expo(StartExpo)>>
    <3>1. todo' = <<cam4_set_expo(StartExpo)>> BY <1>1, <2>1
    <3> QED BY <1>1, <2>1, <3>1 DEF Told
  <2>2. CASE case = "START" /\ todo = <<cam4_set_expo(StartExpo)>>
    <3>1. todo' = <<>> /\ writer.what = cam4_set_expo(StartExpo) BY <1>1, <1>3, <2>2
    <3>2. camera' = StartExpo BY <1>2, <3>1, PacketsTell
    <3> QED BY <1>1, <2>2, <3>1, <3>2 DEF Told
  <2>3. CASE case = "NEXT_STEP" /\ todo = <<cam4_set_expo(StepExpo(img_num))>>
    <3>1. todo' = <<>> /\ writer.what = cam4_set_expo(StepExpo(img_num))
      BY <1>1, <1>3, <2>3
    <3>2. camera' = StepExpo(img_num) BY <1>2, <3>1, PacketsTell
    <3> QED BY <1>1, <2>3, <3>1, <3>2 DEF Told
  <2> QED BY <1>3, <1>5, <2>1, <2>2, <2>3 DEF Told
<1>8. Position' BY <1>1, <1>3, <1>6, <1>7 DEF Position
<1> QED BY <1>1, <1>3, <1>4, <1>8 DEF InSequence, Unstarted

(* The rest of the case.                                                    *)
LEMMA WritesKeeps ==
    ASSUME InSequence, ScriptWrites
    PROVE  InSequence' /\ (Unstarted => Unstarted')
<1>1. /\ pc = "settings" /\ todo = <<>> /\ pc' = "dump"
      /\ case' = case /\ todo' = todo /\ dumps' = dumps /\ mixed' = mixed /\ camera' = camera
  BY DEF ScriptWrites, sendVars
<1>2. Stage /\ dumpraw = "none" /\ Told /\ (case = state \/ (case = "NOP" /\ state = "START"))
      /\ img_num \in Nat /\ Len(dumps) \in Nat
  BY <1>1 DEF InSequence, Position
<1>3. ASSUME img_num' \in Nat,
             \/ dumpraw' = "none" /\ case \notin {"DUMP_A", "DUMP_B"} /\ Stage'
             \/ dumpraw' = "due" /\ (DueA' \/ DueB')
      PROVE  InSequence'
  <2>1. Position' BY <1>1, <1>3 DEF Position
  <2> QED BY <1>1, <1>3, <2>1 DEF InSequence
<1>4. CASE case = "START" /\ Script_START
  <2>1. state = "START" /\ camera = StartExpo
    <3>1. state = "START" BY <1>2, <1>4
    <3>2. <<cam4_set_period, cam4_set_expo(StartExpo)>> # <<>> OBVIOUS
    <3>3. <<cam4_set_expo(StartExpo)>> # <<>> OBVIOUS
    <3> QED BY <1>1, <1>2, <1>4, <3>1, <3>2, <3>3 DEF Told
  <2>2. dumps' = <<>> /\ Len(dumps') = 0 BY <1>1, <1>2, <2>1 DEF Stage
  <2>3. /\ expo' = StartExpo /\ img_num' = 0 /\ state' = "WAIT" /\ dumpraw' = "none"
        /\ camera' = StartExpo
    BY <1>1, <1>2, <1>4, <2>1 DEF Script_START
  <2>4. Stage' BY <2>2, <2>3 DEF Stage, SetFor, Expected
  <2>5. InSequence' BY <1>3, <1>4, <2>3, <2>4
  <2> QED BY <1>4, <2>5 DEF Unstarted
<1>5. CASE case = "WAIT" /\ Script_WAIT
  <2>1. state = "WAIT" BY <1>2, <1>5
  <2>2. /\ expo' = expo /\ img_num' = img_num /\ state' \in {"WAIT", "DUMP_A"}
        /\ dumpraw' = "none"
    BY <1>2, <1>5, <2>1 DEF Script_WAIT
  <2>3. Stage' BY <1>1, <1>2, <2>1, <2>2 DEF Stage, SetFor, Expected, StartExpo, StepExpo
  <2>4. InSequence' BY <1>2, <1>3, <1>5, <2>2, <2>3
  <2> QED BY <1>5, <2>4 DEF Unstarted
<1>6. CASE case = "DUMP_A" /\ Script_DUMP_A
  <2>1. state = "DUMP_A" BY <1>2, <1>6
  <2>2. /\ expo' = expo /\ img_num' = img_num /\ state' = "DUMP_B"
        /\ dumpraw' = "due" /\ pair' = "A"
    BY <1>6 DEF Script_DUMP_A
  <2>3. DueA' BY <1>1, <1>2, <1>6, <2>1, <2>2 DEF Stage, DueA, SetFor, Expected, StartExpo, StepExpo
  <2>4. InSequence' BY <1>2, <1>3, <1>6, <2>2, <2>3
  <2> QED BY <1>6, <2>4 DEF Unstarted
<1>7. CASE case = "DUMP_B" /\ Script_DUMP_B
  <2>1. state = "DUMP_B" BY <1>2, <1>7
  <2>2. /\ expo' = expo /\ img_num' = img_num + 1 /\ state' \in {"NOP", "NEXT_STEP"}
        /\ dumpraw' = "due" /\ pair' = "B"
    BY <1>7 DEF Script_DUMP_B
  <2>3. Len(dumps) = 2 * img_num + 1 /\ expo = Expected(img_num) /\ camera = Expected(img_num)
    BY <1>2, <2>1 DEF Stage, SetFor
  <2>4. img_num' > 0 /\ Len(dumps') = 2 * img_num' - 1 /\ img_num' - 1 = img_num
        /\ img_num' \in Nat
    BY <1>1, <1>2, <2>2, <2>3
  <2>5. DueB' BY <1>1, <1>7, <2>2, <2>3, <2>4 DEF DueB, SetFor, Expected, StartExpo, StepExpo
  <2>6. InSequence' BY <1>3, <1>7, <2>2, <2>4, <2>5
  <2> QED BY <1>7, <2>6 DEF Unstarted
<1>8. CASE case = "NEXT_STEP" /\ Script_NEXT_STEP
  <2>1. state = "NEXT_STEP" /\ camera = StepExpo(img_num)
    <3>1. state = "NEXT_STEP" BY <1>2, <1>8
    <3>2. <<cam4_set_expo(StepExpo(img_num))>> # <<>> OBVIOUS
    <3> QED BY <1>1, <1>2, <1>8, <3>1, <3>2 DEF Told
  <2>2. /\ expo' = StepExpo(img_num) /\ img_num' = img_num /\ state' = "WAIT"
        /\ dumpraw' = "none"
    BY <1>2, <1>8 DEF Script_NEXT_STEP
  <2>3. img_num > 0 /\ Len(dumps) = 2 * img_num BY <1>2, <2>1 DEF Stage
  <2>4. Stage' BY <1>1, <1>2, <2>1, <2>2, <2>3 DEF Stage, SetFor, Expected, StepExpo
  <2>5. InSequence' BY <1>2, <1>3, <1>8, <2>2, <2>4
  <2> QED BY <1>8, <2>5 DEF Unstarted
<1>9. CASE case = "NOP" /\ UNCHANGED <<state, skip, img_num, expo, pair, dumpraw>>
  <2>1. state' = state /\ img_num' = img_num /\ expo' = expo /\ dumpraw' = "none"
    BY <1>2, <1>9
  <2>2. Stage' BY <1>1, <1>2, <2>1 DEF Stage, SetFor, Expected, StartExpo, StepExpo
  <2>3. InSequence' BY <1>2, <1>3, <1>9, <2>1, <2>2
  <2> QED BY <1>1, <2>1, <2>3 DEF Unstarted
<1> QED BY <1>4, <1>5, <1>6, <1>7, <1>8, <1>9 DEF ScriptWrites

(* A dump that is due is the next one.                                      *)
LEMMA DumpKeeps ==
    ASSUME InSequence, cam4_dump_raw_frame
    PROVE  InSequence' /\ (Unstarted => Unstarted')
<1>1. /\ pc = "dump" /\ pc' = "lut"
      /\ case' = case /\ todo' = todo /\ state' = state /\ img_num' = img_num /\ expo' = expo
      /\ pair' = pair /\ mixed' = mixed /\ camera' = camera
  BY DEF cam4_dump_raw_frame, scriptVars, sendVars
<1>2. /\ todo = <<>> /\ img_num \in Nat /\ dumps \in Seq(Shots) /\ ~mixed
      /\ \A i \in DOMAIN dumps : dumps[i] = Right(i)
  BY <1>1 DEF InSequence, Position
<1>3. CASE dumpraw = "none" /\ Stage
  <2>1. dumps' = dumps /\ dumpraw' = dumpraw BY <1>3 DEF cam4_dump_raw_frame
  <2>2. Stage' BY <1>1, <1>3, <2>1 DEF Stage, SetFor, Expected, StartExpo, StepExpo
  <2>3. Position' BY <1>1, <1>2, <1>3, <2>1, <2>2 DEF Position
  <2> QED BY <1>1, <1>2, <2>1, <2>3 DEF InSequence, Unstarted
<1>4. CASE dumpraw = "due" /\ (DueA \/ DueB)
  <2>1. PICK n \in Nat : n = Len(dumps) BY <1>2
  <2>2. PICK s : s = Shot(img_num, expo, pair, camera) OBVIOUS
  <2>3. dumpraw' = "none" /\ dumps' = Append(dumps, s)
    BY <1>4, <2>2 DEF cam4_dump_raw_frame, Shot, DueA, DueB
  <2>4. s = Right(n + 1)
    <3>1. CASE DueA
      <4>1. pair = "A" /\ n = 2 * img_num /\ expo = Expected(img_num) /\ camera = Expected(img_num)
        BY <2>1, <3>1 DEF DueA, SetFor
      <4>2. (n + 1) \div 2 = img_num /\ (n + 1 - 1) \div 2 = img_num /\ (n + 1) % 2 = 1
        BY <1>2, <2>1, <4>1
      <4> QED BY <2>2, <4>1, <4>2 DEF Right
    <3>2. CASE DueB
      <4>1. /\ pair = "B" /\ n = 2 * img_num - 1 /\ expo = Expected(img_num - 1)
            /\ camera = Expected(img_num - 1)
        BY <2>1, <3>2 DEF DueB, SetFor
      <4>2. (n + 1) \div 2 = img_num /\ (n + 1 - 1) \div 2 = img_num - 1 /\ (n + 1) % 2 = 0
        BY <1>2, <2>1, <4>1
      <4> QED BY <2>2, <4>1, <4>2 DEF Right
    <3> QED BY <1>4, <3>1, <3>2
  <2>5. s \in Shots
    <3>1. expo \in Int /\ camera \in Int /\ pair \in {"A", "B"}
      BY <1>2, <1>4 DEF DueA, DueB, SetFor, Expected, StartExpo, StepExpo
    <3> QED BY <1>2, <2>2, <3>1 DEF Shot, Shots
  <2>6. /\ dumps' \in Seq(Shots) /\ DOMAIN dumps = 1 .. n /\ DOMAIN dumps' = 1 .. n + 1
        /\ Len(dumps') = n + 1 /\ dumps'[n + 1] = s /\ \A i \in 1 .. n : dumps'[i] = dumps[i]
    BY <1>2, <2>1, <2>3, <2>5, AppendProperties
  <2>7. ASSUME NEW i \in DOMAIN dumps' PROVE dumps'[i] = Right(i)
    <3>1. CASE i \in 1 .. n BY <1>2, <2>6, <3>1
    <3>2. CASE i = n + 1 BY <2>4, <2>6, <3>2
    <3> QED BY <2>1, <2>6, <3>1, <3>2
  <2>8. Stage'
    <3>1. CASE DueA
      <4>1. state = "DUMP_B" /\ n + 1 = 2 * img_num + 1 BY <2>1, <3>1 DEF DueA
      <4>2. SetFor(img_num)' BY <1>1, <3>1 DEF DueA, SetFor, Expected, StartExpo, StepExpo
      <4> QED BY <1>1, <2>6, <4>1, <4>2 DEF Stage
    <3>2. CASE DueB
      <4>1. state \in {"NOP", "NEXT_STEP"} /\ img_num > 0 /\ n + 1 = 2 * img_num
        BY <1>2, <2>1, <3>2 DEF DueB
      <4> QED BY <1>1, <2>6, <4>1 DEF Stage
    <3> QED BY <1>4, <3>1, <3>2
  <2>9. Position' BY <1>1, <1>2, <2>3, <2>8 DEF Position
  <2>10. ~Unstarted BY <1>4 DEF Unstarted, DueA, DueB
  <2> QED BY <1>1, <1>2, <2>6, <2>7, <2>9, <2>10 DEF InSequence
<1> QED BY <1>1, <1>3, <1>4 DEF InSequence, Position

(* A test that nobody disturbs: until it begins the script is at rest, and  *)
(* from then on it is in sequence.  A process that has ended shows nothing. *)
Quiet == Heard /\ InSequence /\ (ToCome => Unstarted)
PairsInv ==
    /\ Typed
    /\ pc = "gone" => dumps = <<>> /\ ~mixed
    /\ pc # "gone" /\ Tests = 1 /\ Undisturbed => Quiet

(* The frame thread.                                                        *)
LEMMA FrameThreadKeeps ==
    ASSUME PairsInv, FrameThread
    PROVE  PairsInv'
<1>1. UNCHANGED cmdVars /\ scenario' = scenario
  BY DEF FrameThread, Wake, ScriptReads, ScriptMakes, ScriptSends, ScriptWrites,
         cam4_dump_raw_frame, Unpack, write_raw_video, StartPicture, MakePicture, EndOfFrame
<1>2. pc # "gone" /\ pc' # "gone"
  BY DEF FrameThread, Wake, ScriptReads, ScriptMakes, ScriptSends, ScriptWrites,
         cam4_dump_raw_frame, Unpack, write_raw_video, StartPicture, MakePicture, EndOfFrame
<1>3. Typed' /\ Undisturbed' = Undisturbed
  BY <1>1 DEF PairsInv, Typed, Undisturbed, cmdVars
<1>4. ASSUME Tests = 1, Undisturbed PROVE Quiet'
  <2>1. Typed /\ Heard /\ InSequence /\ (ToCome => Unstarted)
    BY <1>2, <1>4 DEF PairsInv, Quiet
  <2>2. Heard' /\ ToCome' = ToCome BY <1>1, <2>1, HeardAlone
  <2>3. InSequence' /\ (Unstarted => Unstarted')
    <3>1. CASE ScriptReads BY <2>1, <3>1, ReadsKeeps
    <3>2. CASE ScriptMakes BY <2>1, <3>2, MakesKeeps
    <3>3. CASE ScriptSends BY <2>1, <3>3, SendsKeeps
    <3>4. CASE ScriptWrites BY <2>1, <3>4, WritesKeeps
    <3>5. CASE cam4_dump_raw_frame BY <2>1, <3>5, DumpKeeps
    <3>6. CASE Wake \/ Unpack \/ write_raw_video \/ StartPicture \/ MakePicture \/ EndOfFrame
      <4>1. pc \notin {"settings", "sending", "dump"} /\ pc' \notin {"settings", "sending", "dump"}
        BY <3>6 DEF Wake, Unpack, write_raw_video, StartPicture, MakePicture, EndOfFrame
      <4>2. dumpraw = "none" BY <2>1, <4>1 DEF InSequence, Position
      <4>3. UNCHANGED testVars
        BY <3>6, <4>2 DEF Wake, Unpack, write_raw_video, StartPicture, MakePicture, EndOfFrame,
                          testVars, scriptVars, dumpVars, sendVars
      <4> QED BY <2>1, <4>1, <4>3, ElsewhereKeeps
    <3> QED BY <3>1, <3>2, <3>3, <3>4, <3>5, <3>6 DEF FrameThread
  <2> QED BY <2>1, <2>2, <2>3 DEF Quiet
<1> QED BY <1>2, <1>3, <1>4 DEF PairsInv

(* A command that is parsed, and the test it may begin.                     *)
LEMMA ParseKeeps ==
    ASSUME PairsInv, parse_command
    PROVE  PairsInv'
<1>1. /\ pc' = pc /\ pc # "gone" /\ given' = given
      /\ buffered' = buffered /\ fifo' = fifo /\ scenario' = scenario
      /\ state' = IF cmd.name = "TEST" THEN "START" ELSE state
      /\ img_num' = IF cmd.name = "IMGNUM" THEN 0 ELSE img_num
      /\ dumpraw' = IF cmd.name = "DUMPRAW" THEN "later" ELSE dumpraw
      /\ case' = case /\ todo' = todo /\ expo' = expo /\ pair' = pair /\ dumps' = dumps
      /\ mixed' = mixed /\ camera' = camera /\ writer' = writer
  BY DEF parse_command, Alive, sendVars
<1>2. Typed' BY <1>1 DEF PairsInv, Typed
<1>3. Undisturbed' = Undisturbed BY <1>1 DEF Undisturbed
<1>4. ASSUME Tests = 1, Undisturbed PROVE Quiet'
  <2>1. Typed /\ Heard /\ InSequence /\ (ToCome => Unstarted)
    BY <1>1, <1>4 DEF PairsInv, Quiet
  <2>2. Heard' /\ (ToCome' => ToCome) /\ (cmd.name = "TEST" => ToCome /\ ~ToCome')
    BY <2>1, HeardParsed
  <2>3. img_num' = img_num /\ dumpraw' = dumpraw BY <1>1, <2>1 DEF Heard, Disturbing
  <2>4. CASE cmd.name # "TEST"
    <3>1. UNCHANGED testVars BY <1>1, <2>3, <2>4 DEF testVars
    <3>2. InSequence' /\ (Unstarted => Unstarted') BY <1>1, <2>1, <3>1, ElsewhereKeeps
    <3> QED BY <2>1, <2>2, <3>2 DEF Quiet
  <2>5. CASE cmd.name = "TEST"
    <3>1. state = "NOP" /\ case = "NOP" /\ todo = <<>> /\ dumps = <<>>
      BY <2>1, <2>2, <2>5 DEF Unstarted
    <3>2. state' = "START" BY <1>1, <2>5
    <3>3. Stage' BY <1>1, <3>1, <3>2 DEF Stage
    <3>4. dumpraw = "none" BY <2>1, <3>1 DEF InSequence, Position, DueA, DueB
    <3>5. Told' BY <1>1, <3>1 DEF Told
    <3>6. pc # "sending" BY <2>1, <3>1 DEF InSequence, Position
    <3>7. Position' BY <1>1, <2>3, <3>1, <3>2, <3>3, <3>4, <3>5, <3>6 DEF Position
    <3>8. InSequence' BY <1>1, <2>1, <2>3, <3>7 DEF InSequence
    <3> QED BY <2>2, <2>5, <3>8 DEF Quiet
  <2> QED BY <2>4, <2>5
<1> QED BY <1>1, <1>2, <1>3, <1>4 DEF PairsInv

(* The other steps.                                                         *)
LEMMA OthersKeep ==
    ASSUME PairsInv,
           TakeCommand \/ WriteCommand \/ CommandMakes \/ CommandSends \/ CommandStores
              \/ MoveWindow \/ Exit \/ LaterParse \/ Library \/ UNCHANGED viewerVars
    PROVE  PairsInv'
<1>1. CASE Exit
  <2>1. /\ pc' = "gone" /\ dumps' = <<>> /\ ~mixed' /\ scenario' = scenario
        /\ fifo' = <<>> /\ buffered' = <<>> /\ given' = <<>>
    BY <1>1 DEF Exit
  <2> QED BY <2>1 DEF PairsInv, Typed
<1>2. CASE CommandMakes \/ CommandSends \/ CommandStores
  <2>1. pc # "gone" /\ pc' = pc /\ UNCHANGED <<scenario, given, fifo, buffered>>
    BY <1>2 DEF CommandMakes, CommandSends, CommandStores, Alive
  <2>2. Typed' BY <2>1 DEF PairsInv, Typed
  <2>3. Undisturbed' = Undisturbed BY <2>1 DEF Undisturbed
  <2>4. ~(Tests = 1 /\ Undisturbed)
    <3>1. ASSUME Heard PROVE FALSE
      <4>1. cmd.step \notin {"send", "store"} /\ cmd.name \notin DOMAIN Packets
        BY <3>1 DEF Heard, Disturbing
      <4> QED BY <1>2, <4>1 DEF CommandMakes, CommandSends, CommandStores
    <3> QED BY <2>1, <3>1 DEF PairsInv, Quiet
  <2> QED BY <2>1, <2>2, <2>3, <2>4 DEF PairsInv
<1>3. CASE TakeCommand
  <2>1. /\ pc # "gone" /\ pc' = pc /\ writer' = writer /\ given' = given /\ UNCHANGED testVars
    BY <1>3 DEF TakeCommand, Alive, scriptVars, dumpVars, sendVars, testVars
  <2>2. Typed' BY <1>3, TakenInFront DEF PairsInv
  <2>3. Undisturbed' = Undisturbed BY <2>1 DEF Undisturbed
  <2>4. ASSUME Tests = 1, Undisturbed PROVE Quiet'
    <3>1. Typed /\ Heard /\ InSequence /\ (ToCome => Unstarted)
      BY <2>1, <2>4 DEF PairsInv, Quiet
    <3>2. Heard' /\ (ToCome' => ToCome) BY <1>3, <2>4, <3>1, HeardTaken
    <3>3. InSequence' /\ (Unstarted => Unstarted') BY <2>1, <3>1, ElsewhereKeeps
    <3> QED BY <3>1, <3>2, <3>3 DEF Quiet
  <2> QED BY <2>1, <2>2, <2>3, <2>4 DEF PairsInv
<1>4. CASE WriteCommand
  <2>1. /\ pc # "gone" /\ pc' = pc /\ writer' = writer /\ UNCHANGED testVars
    BY <1>4 DEF WriteCommand, Alive, scriptVars, dumpVars, sendVars, testVars
  <2>2. PICK c \in scenario.commands : fifo' = Append(fifo, c) /\ given' = Append(given, c)
    BY <1>4 DEF WriteCommand
  <2>3. scenario' = scenario /\ buffered' = buffered BY <1>4 DEF WriteCommand
  <2>4. c \in AllCommands BY DEF PairsInv, Typed, AllCommands
  <2>5. Typed' BY <2>2, <2>3, <2>4, AppendProperties DEF PairsInv, Typed
  <2>6. Undisturbed' => Undisturbed
    <3>1. \A i \in DOMAIN given : i \in DOMAIN given' /\ given'[i] = given[i]
      <4>1. given \in Seq(AllCommands) BY DEF PairsInv, Typed
      <4>2. DOMAIN given = 1 .. Len(given) /\ Len(given) \in Nat BY <4>1, LenProperties
      <4>3. DOMAIN given' = 1 .. Len(given) + 1 /\ \A i \in 1 .. Len(given) : given'[i] = given[i]
        BY <2>2, <2>4, <4>1, AppendProperties
      <4> QED BY <4>2, <4>3
    <3> QED BY <3>1 DEF Undisturbed
  <2>7. ASSUME Tests = 1, Undisturbed' PROVE Quiet'
    <3>1. Typed /\ Heard /\ InSequence /\ (ToCome => Unstarted)
      BY <2>1, <2>6, <2>7 DEF PairsInv, Quiet
    <3>2. Heard' /\ (ToCome' => ToCome) BY <1>4, <2>7, <3>1, HeardWritten
    <3>3. InSequence' /\ (Unstarted => Unstarted') BY <2>1, <3>1, ElsewhereKeeps
    <3> QED BY <3>1, <3>2, <3>3 DEF Quiet
  <2> QED BY <2>1, <2>5, <2>7 DEF PairsInv
<1>5. CASE MoveWindow \/ LaterParse \/ Library \/ UNCHANGED viewerVars
  <2>1. /\ pc' = pc /\ writer' = writer /\ UNCHANGED testVars /\ UNCHANGED cmdVars
        /\ scenario' = scenario
    BY <1>5 DEF MoveWindow, LaterParse, Library, ViewOnly, viewerVars, scriptVars, dumpVars,
                sendVars, cmdVars, testVars
  <2>2. Typed' /\ Undisturbed' = Undisturbed
    BY <2>1 DEF PairsInv, Typed, Undisturbed, cmdVars
  <2>3. ASSUME pc # "gone", Tests = 1, Undisturbed PROVE Quiet'
    <3>1. Typed /\ Heard /\ InSequence /\ (ToCome => Unstarted) BY <2>3 DEF PairsInv, Quiet
    <3>2. Heard' /\ ToCome' = ToCome BY <2>1, <3>1, HeardAlone
    <3>3. InSequence' /\ (Unstarted => Unstarted') BY <2>1, <3>1, ElsewhereKeeps
    <3> QED BY <3>1, <3>2, <3>3 DEF Quiet
  <2>4. pc = "gone" => dumps' = <<>> /\ ~mixed' BY <2>1 DEF PairsInv, testVars
  <2> QED BY <2>1, <2>2, <2>3, <2>4 DEF PairsInv
<1> QED BY <1>1, <1>2, <1>3, <1>4, <1>5

(* The invariant holds at the start.                                        *)
LEMMA PairsBegin == ViewerInit => PairsInv
<1> SUFFICES ASSUME ViewerInit PROVE PairsInv
  OBVIOUS
<1>1. /\ scenario \in Scenarios /\ given = <<>> /\ buffered = <<>> /\ fifo = <<>>
      /\ pc \in {"library", "sleep"} /\ case = "NOP" /\ todo = <<>> /\ state = "NOP"
      /\ img_num = 0 /\ dumpraw = "none" /\ dumps = <<>> /\ ~mixed /\ cmd = Idle
  BY DEF ViewerInit
<1>2. Typed BY <1>1 DEF Typed
<1>3. cmd.name = "none" /\ cmd.step = "none" BY <1>1 DEF Idle
<1>4. "none" \notin Disturbing BY DEF Disturbing, Packets
<1>5. DOMAIN Way = {}
  <2>1. Way = <<>>
    <3>1. Way = <<>> \o <<>> BY <1>1 DEF Way
    <3> QED BY <3>1
  <2> QED BY <2>1
<1>6. Heard BY <1>3, <1>4, <1>5 DEF Heard
<1>7. Stage BY <1>1 DEF Stage
<1>8. Position BY <1>1, <1>7 DEF Position
<1>9. dumps \in Seq(Shots) /\ DOMAIN dumps = {} BY <1>1
<1>10. InSequence BY <1>1, <1>8, <1>9 DEF InSequence
<1> QED BY <1>1, <1>2, <1>6, <1>10 DEF PairsInv, Quiet, Unstarted

(* The invariant says what the property does.                               *)
LEMMA PairsShow == PairsInv => PairsInOrder
<1> SUFFICES ASSUME PairsInv, Undisturbed, Tests = 1 PROVE PairsInOrder
  BY DEF PairsInOrder
<1>1. ~mixed BY DEF PairsInv, Quiet, InSequence
<1>2. ASSUME NEW i \in DOMAIN dumps PROVE dumps[i] = Right(i)
  <2>1. pc # "gone" BY DEF PairsInv
  <2> QED BY <2>1 DEF PairsInv, Quiet, InSequence
<1>3. ASSUME NEW i \in DOMAIN dumps
      PROVE  LET step == (i - 1) \div 2
                 expected == IF step = 0 THEN StartExpo ELSE StepExpo(step)
             IN  dumps[i] = [num |-> i \div 2, expo |-> expected, camera |-> expected,
                             pair |-> IF i % 2 = 1 THEN "A" ELSE "B"]
  BY <1>2, Zenon DEF Right, Shot, Expected
<1> QED BY <1>1, <1>3 DEF PairsInOrder

(* A sensor test that nobody disturbs dumps its pairs in order, with the    *)
(* exposure of their step in the script and in the camera, and never sends  *)
(* a packet the other thread has begun: for every number of steps, frames   *)
(* and commands, wherever the command thread is when a frame comes          *)
(* (cam4_script_processing, process_cm_ifs).                                *)
THEOREM PairsOrdered == ViewerSpec => []PairsInOrder
<1>1. PairsInv /\ [ViewerNext]_viewerVars => PairsInv'
  BY FrameThreadKeeps, ParseKeeps, OthersKeep DEF ViewerNext, CommandThread
<1> QED BY <1>1, PairsBegin, PairsShow, PTL DEF ViewerSpec

----------------------------------------------------------------------------
(* Quotients                                                                *)

(* Quotient and remainder of a number that is put together from them.       *)
LEMMA Quotient ==
    ASSUME NEW d \in Nat \ {0}, NEW q \in Nat, NEW r \in 0 .. d - 1
    PROVE  (d * q + r) \div d = q /\ (d * q + r) % d = r
<1>1. PICK x : x = d * q + r OBVIOUS
<1>2. x \in Nat /\ d * q \in Nat BY <1>1
<1>3. PICK p \in Nat : p = x \div d BY <1>2
<1>4. PICK s \in 0 .. d - 1 : s = x % d BY <1>2
<1>5. x = d * p + s BY <1>2, <1>3, <1>4
<1>6. \A m \in Nat : m < q => d * m + d <= d * q
  <2>1. TAKE m \in Nat
  <2>2. HAVE m < q
  <2>3. PICK z \in Nat : q = m + 1 + z
    <3>1. q - m - 1 \in Nat /\ q = m + 1 + (q - m - 1) BY <2>2
    <3> QED BY <3>1
  <2>4. d * q = d * m + d + d * z /\ d * z \in Nat BY <2>3
  <2>5. d * m \in Nat OBVIOUS
  <2> QED BY <2>4, <2>5
<1>7. \A m \in Nat : q < m => d * q + d <= d * m
  <2>1. TAKE m \in Nat
  <2>2. HAVE q < m
  <2>3. PICK z \in Nat : m = q + 1 + z
    <3>1. m - q - 1 \in Nat /\ m = q + 1 + (m - q - 1) BY <2>2
    <3> QED BY <3>1
  <2>4. d * m = d * q + d + d * z /\ d * z \in Nat BY <2>3
  <2>5. d * q \in Nat OBVIOUS
  <2> QED BY <2>4, <2>5
<1>8. p = q
  <2>1. d * p \in Nat OBVIOUS
  <2>2. ~(p < q) BY <1>1, <1>2, <1>5, <1>6, <2>1
  <2>3. ~(q < p) BY <1>1, <1>2, <1>5, <1>7, <2>1
  <2> QED BY <2>2, <2>3
<1>9. s = r BY <1>1, <1>2, <1>5, <1>8
<1> QED BY <1>1, <1>3, <1>4, <1>8, <1>9

----------------------------------------------------------------------------
(* The samples of a window                                                  *)

(* A call the functions can serve: a window of even size in its frame.      *)
JobOk(j) ==
    /\ j.mode \in Int /\ j.dim_x \in Nat
    /\ j.ww \in Nat /\ j.wh \in Nat /\ j.ww % 2 = 0 /\ j.wh % 2 = 0
    /\ j.ww >= 4 /\ j.wh >= 4
    /\ j.startx \in Nat /\ j.startx + j.ww <= j.dim_x /\ j.starty \in Nat

(* The address of the sample in row r and column c of the window.           *)
At(j, r, c) == j.dim_x * (j.starty + r) + (j.startx + c)

(* The row and the column at an address.                                    *)
Row(j, a) == (a \div j.dim_x) - j.starty
Col(j, a) == (a % j.dim_x) - j.startx

(* Row and column are got back from an address.                             *)
LEMMA Placed ==
    ASSUME NEW j, JobOk(j), NEW r \in Nat, NEW c \in 0 .. j.ww - 1
    PROVE  Row(j, At(j, r, c)) = r /\ Col(j, At(j, r, c)) = c
<1>1. PICK d, q, s : d = j.dim_x /\ q = j.starty + r /\ s = j.startx + c OBVIOUS
<1>2. d \in Nat \ {0} /\ q \in Nat /\ s \in 0 .. d - 1 BY <1>1 DEF JobOk
<1>3. (d * q + s) \div d = q /\ (d * q + s) % d = s BY <1>2, Quotient
<1>4. q - j.starty = r /\ s - j.startx = c BY <1>1 DEF JobOk
<1> QED BY <1>1, <1>3, <1>4, Zenon DEF Row, Col, At

(* Along a row.                                                             *)
LEMMA Beside ==
    ASSUME NEW j, JobOk(j), NEW r \in Nat
    PROVE  \A u \in Int, v \in Int : At(j, r, u) \in Int /\ At(j, r, u + v) = At(j, r, u) + v
<1>1. PICK d, q, s : d = j.dim_x * (j.starty + r) /\ s = j.startx OBVIOUS
<1>2. d \in Nat /\ s \in Nat BY <1>1 DEF JobOk
<1>3. \A u \in Int : At(j, r, u) = d + (s + u) BY <1>1 DEF At
<1>4. TAKE u \in Int, v \in Int
<1>5. u + v \in Int OBVIOUS
<1>6. At(j, r, u) = d + (s + u) /\ At(j, r, u + v) = d + (s + (u + v)) BY <1>3, <1>5
<1> QED BY <1>2, <1>6

(* From row to row.                                                         *)
LEMMA Below ==
    ASSUME NEW j, JobOk(j), NEW r \in Nat, NEW m \in Nat
    PROVE  \A c \in Int : At(j, r + m, c) = At(j, r, c) + m * j.dim_x
<1>1. PICK d \in Nat, q \in Nat, s \in Nat : d = j.dim_x /\ q = j.starty /\ s = j.startx BY Zenon DEF JobOk
<1>2. d * (q + (r + m)) = d * (q + r) + m * d /\ d * (q + r) \in Nat /\ m * d \in Nat OBVIOUS
<1>3. TAKE c \in Int
<1>4. At(j, r + m, c) = d * (q + (r + m)) + (s + c) /\ At(j, r, c) = d * (q + r) + (s + c)
  BY <1>1, Zenon DEF At
<1>5. PICK u \in Nat, v \in Nat : u = d * (q + r) /\ v = m * d BY <1>2
<1>6. At(j, r + m, c) = (u + v) + (s + c) /\ At(j, r, c) = u + (s + c) BY <1>2, <1>4, <1>5, Zenon
<1>7. (u + v) + (s + c) = u + (s + c) + v OBVIOUS
<1> QED BY <1>1, <1>5, <1>6, <1>7, Zenon

(* What is left and right.                                                  *)
LEMMA Sides ==
    ASSUME NEW j, JobOk(j)
    PROVE  \A r \in Nat, i \in Nat : /\ At(j, r, i) = At(j, r, i + 1) - 1
                                    /\ At(j, r, i + 2) = At(j, r, i + 1) + 1
<1>1. TAKE r \in Nat, i \in Nat
<1>2. /\ At(j, r, i) \in Int /\ At(j, r, i + 1) = At(j, r, i) + 1
      /\ At(j, r, i + 2) = At(j, r, i) + 2
  <2>1. i \in Int /\ 1 \in Int /\ 2 \in Int OBVIOUS
  <2> QED BY <2>1, Beside
<1> QED BY <1>2

(* The colour in row r and column c, and the inner pixel nearest to i.      *)
ColourIn(j, r, c) == Mosaic[1 + (j.mode % 32)][1 + ((r + 1) % 2)][1 + ((c + 1) % 2)]
NearestIn(j, i) == IF i = 0 THEN 1 ELSE IF i = j.ww - 1 THEN j.ww - 2 ELSE i

(* A sample of a colour, for pixel n of line k; anywhere or near it.        *)
Site(j, k, n, far, a, colour) ==
    \E r \in Nat, c \in 0 .. j.ww - 1 :
        /\ a = At(j, r, c) /\ ColourIn(j, r, c) = colour
        /\ ~far => /\ r \in k .. k + 2
                   /\ c \in (NearestIn(j, n - 1) - 1) .. (NearestIn(j, n - 1) + 1)

(* The luma and the chroma of a pixel are made from samples of the colours  *)
(* they are taken for.                                                      *)
Luma(j, k, n, far, px) ==
    /\ \A a \in px.r : Site(j, k, n, far, a, "r")
    /\ \A a \in px.g : Site(j, k, n, far, a, "g")
    /\ \A a \in px.b : Site(j, k, n, far, a, "b")
Chroma(j, k, n, far, c) ==
    /\ c.at # {}
    /\ \A a \in c.at : Site(j, k, n, far, a, IF c.kind = "Cr" THEN "r" ELSE "b")

(* What SamplesRight says of a line.                                        *)
LineRight(j, far, o) ==
    \A n \in DOMAIN o.px :
        LET px == o.px[n]
            IsColour(a, colour) == ColourIn(j, Row(j, a), Col(j, a)) = colour IN
        /\ \A a \in px.r : IsColour(a, "r")
        /\ \A a \in px.g : IsColour(a, "g")
        /\ \A a \in px.b : IsColour(a, "b")
        /\ px.c.at # {}
        /\ \A a \in px.c.at : IsColour(a, IF px.c.kind = "Cr" THEN "r" ELSE "b")
        /\ ~far => \A a \in px.r \cup px.g \cup px.b \cup px.c.at :
                      /\ Row(j, a) \in (o.at \div j.ww) .. (o.at \div j.ww) + 2
                      /\ Col(j, a) \in (NearestIn(j, n - 1) - 1) .. (NearestIn(j, n - 1) + 1)

(* A line of pixels made from such samples is right.                        *)
LEMMA LineIsRight ==
    ASSUME NEW j, JobOk(j), NEW k \in Nat, NEW far, NEW o, o.at = j.ww * k,
           \A n \in DOMAIN o.px : Luma(j, k, n, far, o.px[n]) /\ Chroma(j, k, n, far, o.px[n].c)
    PROVE  LineRight(j, far, o)
<1>1. o.at \div j.ww = k
  <2>1. PICK w : w = j.ww OBVIOUS
  <2>2. w \in Nat \ {0} /\ 0 \in 0 .. w - 1 BY <2>1 DEF JobOk
  <2>3. (w * k + 0) \div w = k BY <2>2, Quotient
  <2>4. w * k + 0 = w * k BY <2>2
  <2> QED BY <2>1, <2>3, <2>4
<1>2. ASSUME NEW n, NEW a, NEW colour, Site(j, k, n, far, a, colour)
      PROVE  /\ ColourIn(j, Row(j, a), Col(j, a)) = colour
             /\ ~far => /\ Row(j, a) \in k .. k + 2
                        /\ Col(j, a) \in (NearestIn(j, n - 1) - 1) .. (NearestIn(j, n - 1) + 1)
  <2>1. PICK r \in Nat, c \in 0 .. j.ww - 1 :
            /\ a = At(j, r, c) /\ ColourIn(j, r, c) = colour
            /\ ~far => /\ r \in k .. k + 2
                       /\ c \in (NearestIn(j, n - 1) - 1) .. (NearestIn(j, n - 1) + 1)
    BY <1>2 DEF Site
  <2>2. Row(j, a) = r /\ Col(j, a) = c BY <2>1, Placed
  <2> QED BY <2>1, <2>2, Zenon
<1>3. ASSUME NEW n \in DOMAIN o.px
      PROVE  LET px == o.px[n]
                 IsColour(a, colour) == ColourIn(j, Row(j, a), Col(j, a)) = colour IN
        /\ \A a \in px.r : IsColour(a, "r")
        /\ \A a \in px.g : IsColour(a, "g")
        /\ \A a \in px.b : IsColour(a, "b")
        /\ px.c.at # {}
        /\ \A a \in px.c.at : IsColour(a, IF px.c.kind = "Cr" THEN "r" ELSE "b")
        /\ ~far => \A a \in px.r \cup px.g \cup px.b \cup px.c.at :
                      /\ Row(j, a) \in (o.at \div j.ww) .. (o.at \div j.ww) + 2
                      /\ Col(j, a) \in (NearestIn(j, n - 1) - 1) .. (NearestIn(j, n - 1) + 1)
  <2>1. PICK px : px = o.px[n] OBVIOUS
  <2>2. Luma(j, k, n, far, px) /\ Chroma(j, k, n, far, px.c) BY <2>1
  <2>3. /\ \A a \in px.r : Site(j, k, n, far, a, "r")
        /\ \A a \in px.g : Site(j, k, n, far, a, "g")
        /\ \A a \in px.b : Site(j, k, n, far, a, "b")
        /\ px.c.at # {}
        /\ \A a \in px.c.at : Site(j, k, n, far, a, IF px.c.kind = "Cr" THEN "r" ELSE "b")
    BY <2>2, Zenon DEF Luma, Chroma
  <2> QED BY <1>1, <1>2, <2>1, <2>3, Zenon
<1> QED BY <1>3, Zenon DEF LineRight

(* What is around a sample of the mosaic of mode m, its row and column of   *)
(* parity p and q, is what a pixel of the kind takes it for.                *)
KindFits(m, p, q, kind) ==
    LET centre == Mosaic[1 + m][1 + p][1 + q]
        side == Mosaic[1 + m][1 + p][2 - q]
        end == Mosaic[1 + m][2 - p][1 + q]
        corner == Mosaic[1 + m][2 - p][2 - q] IN
    \/ kind = "G1" /\ centre = "g" /\ side = "r" /\ end = "b"
    \/ kind = "R" /\ centre = "r" /\ side = "g" /\ end = "g" /\ corner = "b"
    \/ kind = "B" /\ centre = "b" /\ side = "g" /\ end = "g" /\ corner = "r"
    \/ kind = "G2" /\ centre = "g" /\ side = "b" /\ end = "r"

(* The tables of the C functions fit the mosaics of their modes.            *)
LEMMA KindsFit ==
    ASSUME NEW p \in 0 .. 1, NEW q \in 0 .. 1
    PROVE  /\ \A m \in {0, 2, 3} : KindFits(m, p, q, FastKinds[m][1 + p][1 + q])
           /\ KindFits(1, p, q, ar_mode1[1 + p][1 + q])
<1>1. (p = 0 \/ p = 1) /\ (q = 0 \/ q = 1) OBVIOUS
<1>2. ASSUME NEW m \in {0, 2, 3} PROVE KindFits(m, p, q, FastKinds[m][1 + p][1 + q])
  <2>1. FastKinds[0] = fast_mode0 /\ FastKinds[2] = fast_mode2 /\ FastKinds[3] = fast_mode3 BY DEF FastKinds
  <2>2. CASE m = 0 BY <1>1, <2>1, <2>2 DEF KindFits, Mosaic, fast_mode0
  <2>3. CASE m = 2 BY <1>1, <2>1, <2>3 DEF KindFits, Mosaic, fast_mode2
  <2>4. CASE m = 3 BY <1>1, <2>1, <2>4 DEF KindFits, Mosaic, fast_mode3
  <2> QED BY <2>2, <2>3, <2>4
<1>3. KindFits(1, p, q, ar_mode1[1 + p][1 + q]) BY <1>1 DEF KindFits, Mosaic, ar_mode1
<1> QED BY <1>2, <1>3

----------------------------------------------------------------------------
(* The C functions                                                          *)

(* Where a pixel reads: rows ru, rc and rd, columns i to i + 2.             *)
PixelReads(j, kind, ru, rc, rd, i, c, d, k, n, far) ==
    /\ JobOk(j) /\ ru \in Nat /\ rc \in Nat /\ rd \in Nat /\ i \in 0 .. j.ww - 3
    /\ c \in Int /\ d \in Int
    /\ c = At(j, rc, i + 1) /\ c - d = At(j, ru, i + 1) /\ c + d = At(j, rd, i + 1)
    /\ (ru + 1) % 2 = 1 - ((rc + 1) % 2) /\ (rd + 1) % 2 = 1 - ((rc + 1) % 2)
    /\ KindFits(j.mode % 32, (rc + 1) % 2, i % 2, kind)
    /\ (~far => ru = k /\ rc = k + 1 /\ rd = k + 2 /\ k \in Nat /\ NearestIn(j, n - 1) = i + 1)
(* A pixel of a kind that fits takes its samples by their colours.          *)
LEMMA PixelRight ==
    ASSUME NEW j, NEW kind, NEW ru, NEW rc, NEW rd, NEW i, NEW c, NEW d, NEW k, NEW n, NEW far,
           PixelReads(j, kind, ru, rc, rd, i, c, d, k, n, far)
    PROVE  /\ Luma(j, k, n, far, Pixel(kind, c, d))
           /\ Pixel(kind, c, d).r # {} /\ Pixel(kind, c, d).b # {}
<1>a. /\ JobOk(j) /\ ru \in Nat /\ rc \in Nat /\ rd \in Nat /\ i \in 0 .. j.ww - 3
      /\ c \in Int /\ d \in Int
  BY Zenon DEF PixelReads
<1>b. c = At(j, rc, i + 1) /\ c - d = At(j, ru, i + 1) /\ c + d = At(j, rd, i + 1)
  BY Zenon DEF PixelReads
<1>c. (ru + 1) % 2 = 1 - ((rc + 1) % 2) /\ (rd + 1) % 2 = 1 - ((rc + 1) % 2) BY Zenon DEF PixelReads
<1>d. KindFits(j.mode % 32, (rc + 1) % 2, i % 2, kind) BY Zenon DEF PixelReads
<1>e. ~far => ru = k /\ rc = k + 1 /\ rd = k + 2 /\ k \in Nat /\ NearestIn(j, n - 1) = i + 1
  BY Zenon DEF PixelReads
<1>1. PICK W \in Nat : W = j.ww /\ W >= 4 BY <1>a DEF JobOk
<1>2. ASSUME NEW r \in Nat, NEW x \in Int, x = At(j, r, i + 1)
      PROVE  x - 1 = At(j, r, i) /\ x + 1 = At(j, r, i + 2)
  <2>1. i \in Nat BY <1>a, <1>1
  <2>2. At(j, r, i) = At(j, r, i + 1) - 1 /\ At(j, r, i + 2) = At(j, r, i + 1) + 1
    BY <1>a, <2>1, Sides, Zenon
  <2> QED BY <1>2, <2>2, Zenon
<1>3. /\ c - 1 = At(j, rc, i) /\ c + 1 = At(j, rc, i + 2)
      /\ c - d - 1 = At(j, ru, i) /\ c - d + 1 = At(j, ru, i + 2)
      /\ c + d - 1 = At(j, rd, i) /\ c + d + 1 = At(j, rd, i + 2)
  <2>1. c - d \in Int /\ c + d \in Int BY <1>a
  <2> QED BY <1>a, <1>b, <1>2, <2>1
<1>4. ASSUME NEW r \in {ru, rc, rd}, NEW col \in {i, i + 1, i + 2}, NEW colour, ColourIn(j, r, col) = colour
      PROVE  Site(j, k, n, far, At(j, r, col), colour)
  <2>1. r \in Nat /\ col \in 0 .. j.ww - 1 BY <1>a, <1>1
  <2>2. ~far => /\ r \in k .. k + 2
                /\ col \in (NearestIn(j, n - 1) - 1) .. (NearestIn(j, n - 1) + 1)
    BY <1>a, <1>1, <1>e
  <2> QED BY <1>4, <2>1, <2>2, Zenon DEF Site
<1>5. PICK m, p, q : m = j.mode % 32 /\ p = (rc + 1) % 2 /\ q = i % 2 OBVIOUS
<1>6. p \in 0 .. 1 /\ q \in 0 .. 1
  <2>1. i \in Nat /\ rc + 1 \in Nat BY <1>a, <1>1
  <2> QED BY <1>5, <2>1
<1>7. /\ (i + 1) % 2 = 1 - q /\ (i + 1 + 1) % 2 = q /\ (i + 2 + 1) % 2 = 1 - q
      /\ (ru + 1) % 2 = 1 - p /\ (rd + 1) % 2 = 1 - p
  <2>1. i \in Nat BY <1>a, <1>1
  <2>2. (i + 1) % 2 = 1 - q /\ (i + 1 + 1) % 2 = q /\ (i + 2 + 1) % 2 = 1 - q BY <1>5, <2>1
  <2> QED BY <1>5, <1>c, <2>2, Zenon
<1>8. 1 + (1 - q) = 2 - q /\ 1 + (1 - p) = 2 - p BY <1>6
<1>9. /\ ColourIn(j, rc, i + 1) = Mosaic[1 + m][1 + p][1 + q]
      /\ \A col \in {i, i + 2} : ColourIn(j, rc, col) = Mosaic[1 + m][1 + p][2 - q]
      /\ \A r \in {ru, rd} : ColourIn(j, r, i + 1) = Mosaic[1 + m][2 - p][1 + q]
      /\ \A r \in {ru, rd} : \A col \in {i, i + 2} : ColourIn(j, r, col) = Mosaic[1 + m][2 - p][2 - q]
  BY <1>5, <1>7, <1>8 DEF ColourIn
<1>10. PICK cs, ss, es, ks : /\ cs = {c} /\ ss = {c - 1, c + 1} /\ es = {c - d, c + d}
                             /\ ks = {c - d - 1, c - d + 1, c + d - 1, c + d + 1}
  OBVIOUS
<1>11. ASSUME NEW colour
       PROVE  /\ colour = Mosaic[1 + m][1 + p][1 + q] => \A a \in cs : Site(j, k, n, far, a, colour)
              /\ colour = Mosaic[1 + m][1 + p][2 - q] => \A a \in ss : Site(j, k, n, far, a, colour)
              /\ colour = Mosaic[1 + m][2 - p][1 + q] => \A a \in es : Site(j, k, n, far, a, colour)
              /\ colour = Mosaic[1 + m][2 - p][2 - q] => \A a \in ks : Site(j, k, n, far, a, colour)
  <2>1. colour = Mosaic[1 + m][1 + p][1 + q] => \A a \in cs : Site(j, k, n, far, a, colour)
    BY <1>b, <1>4, <1>9, <1>10, Zenon
  <2>2. colour = Mosaic[1 + m][1 + p][2 - q] => \A a \in ss : Site(j, k, n, far, a, colour)
    BY <1>3, <1>4, <1>9, <1>10, Zenon
  <2>3. colour = Mosaic[1 + m][2 - p][1 + q] => \A a \in es : Site(j, k, n, far, a, colour)
    BY <1>b, <1>4, <1>9, <1>10, Zenon
  <2>4. colour = Mosaic[1 + m][2 - p][2 - q] => \A a \in ks : Site(j, k, n, far, a, colour)
    BY <1>3, <1>4, <1>9, <1>10, Zenon
  <2> QED BY <2>1, <2>2, <2>3, <2>4, Zenon
<1>12. cs # {} /\ ss # {} /\ es # {} /\ ks # {} BY <1>10
<1>13. KindFits(m, p, q, kind) BY <1>d, <1>5
<1>14. /\ Pixel("G1", c, d) = [r |-> ss, g |-> cs, b |-> es]
       /\ Pixel("R", c, d) = [r |-> cs, g |-> ss \cup es, b |-> ks]
       /\ Pixel("B", c, d) = [r |-> ks, g |-> ss \cup es, b |-> cs]
       /\ Pixel("G2", c, d) = [r |-> es, g |-> cs, b |-> ss]
  BY <1>10 DEF Pixel
<1>15. ASSUME NEW rs, NEW gs, NEW bs, rs # {}, bs # {}, Pixel(kind, c, d) = [r |-> rs, g |-> gs, b |-> bs],
              \A a \in rs : Site(j, k, n, far, a, "r"), \A a \in gs : Site(j, k, n, far, a, "g"),
              \A a \in bs : Site(j, k, n, far, a, "b")
       PROVE  /\ Luma(j, k, n, far, Pixel(kind, c, d))
              /\ Pixel(kind, c, d).r # {} /\ Pixel(kind, c, d).b # {}
  <2>1. PICK px : px = Pixel(kind, c, d) OBVIOUS
  <2>2. px.r = rs /\ px.g = gs /\ px.b = bs BY <1>15, <2>1
  <2> QED BY <1>15, <2>1, <2>2, Zenon DEF Luma
<1>16. CASE kind = "G1"
  <2>1. /\ Mosaic[1 + m][1 + p][1 + q] = "g" /\ Mosaic[1 + m][1 + p][2 - q] = "r"
        /\ Mosaic[1 + m][2 - p][1 + q] = "b"
    BY <1>13, <1>16 DEF KindFits
  <2> QED BY <1>11, <1>12, <1>14, <1>15, <1>16, <2>1, Zenon
<1>17. CASE kind = "R"
  <2>1. /\ Mosaic[1 + m][1 + p][1 + q] = "r" /\ Mosaic[1 + m][1 + p][2 - q] = "g"
        /\ Mosaic[1 + m][2 - p][1 + q] = "g" /\ Mosaic[1 + m][2 - p][2 - q] = "b"
    BY <1>13, <1>17 DEF KindFits
  <2>2. \A a \in ss \cup es : Site(j, k, n, far, a, "g") BY <1>11, <2>1, Zenon
  <2> QED BY <1>11, <1>12, <1>14, <1>15, <1>17, <2>1, <2>2, Zenon
<1>18. CASE kind = "B"
  <2>1. /\ Mosaic[1 + m][1 + p][1 + q] = "b" /\ Mosaic[1 + m][1 + p][2 - q] = "g"
        /\ Mosaic[1 + m][2 - p][1 + q] = "g" /\ Mosaic[1 + m][2 - p][2 - q] = "r"
    BY <1>13, <1>18 DEF KindFits
  <2>2. \A a \in ss \cup es : Site(j, k, n, far, a, "g") BY <1>11, <2>1, Zenon
  <2> QED BY <1>11, <1>12, <1>14, <1>15, <1>18, <2>1, <2>2, Zenon
<1>19. CASE kind = "G2"
  <2>1. /\ Mosaic[1 + m][1 + p][1 + q] = "g" /\ Mosaic[1 + m][1 + p][2 - q] = "b"
        /\ Mosaic[1 + m][2 - p][1 + q] = "r"
    BY <1>13, <1>19 DEF KindFits
  <2> QED BY <1>11, <1>12, <1>14, <1>15, <1>19, <2>1, Zenon
<1> QED BY <1>13, <1>16, <1>17, <1>18, <1>19 DEF KindFits

(* The three rows a C function reads, with e rows between them.             *)
LEMMA ThreeRows ==
    ASSUME NEW j, JobOk(j), NEW k \in Nat, NEW e \in Nat, NEW i \in Nat
    PROVE  /\ At(j, k, 0) \in Int
           /\ At(j, k, i + 1) = At(j, k, 0) + (i + 1)
           /\ At(j, k + (e + 1), i + 1) = At(j, k, 0) + (e + 1) * j.dim_x + (i + 1)
           /\ At(j, k + (e + 1 + e + 1), i + 1) = At(j, k, 0) + 2 * ((e + 1) * j.dim_x) + (i + 1)
<1>1. /\ At(j, k, 0) \in Int /\ At(j, k, 0 + (i + 1)) = At(j, k, 0) + (i + 1)
  <2>1. 0 \in Int /\ i + 1 \in Int OBVIOUS
  <2> QED BY <2>1, Beside
<1>2. 0 + (i + 1) = i + 1 OBVIOUS
<1>3. \A m \in Nat : At(j, k + m, i + 1) = At(j, k, i + 1) + m * j.dim_x
  <2>1. TAKE m \in Nat
  <2>2. i + 1 \in Int OBVIOUS
  <2> QED BY <2>2, Below
<1>4. PICK x \in Nat : x = j.dim_x BY DEF JobOk
<1>5. (e + 1 + e + 1) * x = 2 * ((e + 1) * x) /\ (e + 1) * x \in Int OBVIOUS
<1>6. e + 1 \in Nat /\ e + 1 + e + 1 \in Nat OBVIOUS
<1>7. /\ At(j, k + (e + 1), i + 1) = At(j, k, i + 1) + (e + 1) * x
      /\ At(j, k + (e + 1 + e + 1), i + 1) = At(j, k, i + 1) + (e + 1 + e + 1) * x
  BY <1>3, <1>4, <1>6, Zenon
<1> QED BY <1>1, <1>2, <1>4, <1>5, <1>7

(* The kinds a line alternates between fit its row; where a pixel of the    *)
(* line is made: a is the address of the upper row, d from row to row.      *)
RowFits(j, k, kinds) == \A q \in 0 .. 1 : KindFits(j.mode % 32, k % 2, q, kinds[1 + q])
ReadsRows(j, k, e, far, kinds, a, d, n, i) ==
    /\ JobOk(j) /\ k \in Nat /\ e \in Nat /\ e % 2 = 0 /\ (~far => e = 0)
    /\ RowFits(j, k, kinds)
    /\ a \in Int /\ a = At(j, k, 0) /\ d \in Int /\ d = (e + 1) * j.dim_x
    /\ i \in 0 .. j.ww - 3 /\ (~far => NearestIn(j, n - 1) = i + 1)

(* The pixels a C function makes of a line: those of the interior from left *)
(* to right, with a copy at both edges.                                     *)
LEMMA RowRight ==
    ASSUME NEW j, NEW k, NEW e, NEW far, NEW kinds, NEW a, NEW d, NEW n, NEW i,
           ReadsRows(j, k, e, far, kinds, a, d, n, i),
           NEW px, px = Pixel(kinds[1 + (i % 2)], a + d + 1 + i, d)
    PROVE  Luma(j, k, n, far, px) /\ px.r # {} /\ px.b # {}
<1>0. /\ JobOk(j) /\ k \in Nat /\ e \in Nat /\ e % 2 = 0 /\ (~far => e = 0)
      /\ RowFits(j, k, kinds)
      /\ a \in Int /\ a = At(j, k, 0) /\ d \in Int /\ d = (e + 1) * j.dim_x
      /\ i \in 0 .. j.ww - 3 /\ (~far => NearestIn(j, n - 1) = i + 1)
  BY Zenon DEF ReadsRows
<1> USE <1>0
<1>1. i % 2 \in 0 .. 1 /\ i \in Nat
  <2>1. j.ww \in Nat BY DEF JobOk
  <2> QED BY <2>1
<1>2. PICK ru, rc, rd : ru = k /\ rc = k + e + 1 /\ rd = k + e + 1 + e + 1 OBVIOUS
<1>3. /\ ru \in Nat /\ rc \in Nat /\ rd \in Nat
      /\ (rc + 1) % 2 = k % 2 /\ (ru + 1) % 2 = 1 - (k % 2) /\ (rd + 1) % 2 = 1 - (k % 2)
  <2>1. PICK h \in Nat : e = 2 * h
    <3>1. e \div 2 \in Nat /\ e = 2 * (e \div 2) OBVIOUS
    <3> QED BY <3>1
  <2> QED BY <1>2, <2>1
<1>4. PICK c \in Int : c = a + d + 1 + i BY <1>1
<1>5. c = At(j, rc, i + 1) /\ c - d = At(j, ru, i + 1) /\ c + d = At(j, rd, i + 1)
  <2>1. /\ At(j, k, i + 1) = a + (i + 1) /\ At(j, k + (e + 1), i + 1) = a + d + (i + 1)
        /\ At(j, k + (e + 1 + e + 1), i + 1) = a + 2 * d + (i + 1)
    <3>1. /\ At(j, k, i + 1) = At(j, k, 0) + (i + 1)
          /\ At(j, k + (e + 1), i + 1) = At(j, k, 0) + (e + 1) * j.dim_x + (i + 1)
          /\ At(j, k + (e + 1 + e + 1), i + 1) = At(j, k, 0) + 2 * ((e + 1) * j.dim_x) + (i + 1)
      BY <1>1, ThreeRows, Zenon
    <3> QED BY <3>1, Zenon
  <2>2. k + (e + 1) = rc /\ k + (e + 1 + e + 1) = rd BY <1>2
  <2>3. /\ At(j, ru, i + 1) = a + (i + 1) /\ At(j, rc, i + 1) = a + d + (i + 1)
        /\ At(j, rd, i + 1) = a + 2 * d + (i + 1)
    BY <1>2, <2>1, <2>2, Zenon
  <2> QED BY <1>1, <1>4, <2>3
<1>6. KindFits(j.mode % 32, (rc + 1) % 2, i % 2, kinds[1 + (i % 2)]) BY <1>1, <1>3 DEF RowFits
<1>7. ~far => ru = k /\ rc = k + 1 /\ rd = k + 2 /\ k \in Nat /\ NearestIn(j, n - 1) = i + 1
  BY <1>2
<1>8. PixelReads(j, kinds[1 + (i % 2)], ru, rc, rd, i, c, d, k, n, far)
  BY <1>3, <1>4, <1>5, <1>6, <1>7, Zenon DEF PixelReads
<1>9. /\ Luma(j, k, n, far, Pixel(kinds[1 + (i % 2)], c, d))
      /\ Pixel(kinds[1 + (i % 2)], c, d).r # {} /\ Pixel(kinds[1 + (i % 2)], c, d).b # {}
  BY <1>8, PixelRight, Zenon
<1> QED BY <1>4, <1>9, Zenon

(* A pixel that is coloured by itself.                                      *)
LEMMA ColouredRight ==
    ASSUME NEW j, NEW k, NEW n, NEW far, NEW px, Luma(j, k, n, far, px), px.r # {}, px.b # {},
           NEW kind \in {"Cr", "Cb"}
    PROVE  Luma(j, k, n, far, Coloured(px, kind)) /\ Chroma(j, k, n, far, Coloured(px, kind).c)
<1>1. PICK x : x = Coloured(px, kind) OBVIOUS
<1>2. /\ x.r = px.r /\ x.g = px.g /\ x.b = px.b /\ x.c.kind = kind
      /\ x.c.at = IF kind = "Cr" THEN px.r ELSE px.b
  BY <1>1 DEF Coloured
<1>3. Luma(j, k, n, far, x) BY <1>2, Zenon DEF Luma
<1>4. Chroma(j, k, n, far, x.c)
  <2>1. CASE kind = "Cr" BY <1>2, <2>1, Zenon DEF Luma, Chroma
  <2>2. CASE kind = "Cb"
    <3>1. "Cb" # "Cr" OBVIOUS
    <3> QED BY <1>2, <2>2, <3>1, Zenon DEF Luma, Chroma
  <2> QED BY <2>1, <2>2
<1> QED BY <1>1, <1>3, <1>4

(* debayerRGB_fast_mode0, 2 and 3 make line k right.                        *)
LEMMA FastLineRight ==
    ASSUME JobOk(job), NEW k \in Nat, src = At(job, k, 0), dst = job.ww * k, Line = 1 + (k % 2),
           job.mode % 32 \in {0, 2, 3}, FastLine
    PROVE  LineRight(job, FALSE, out')
<1>1. PICK m, j, a : m = job.mode % 32 /\ j = job /\ a = src OBVIOUS
<1>2. PICK kinds : kinds = FastKinds[m][1 + (k % 2)] OBVIOUS
<1>3. PICK W \in Nat : W = j.ww /\ W % 2 = 0 /\ W >= 4 BY <1>1 DEF JobOk
<1>4. PICK px : /\ px = [n \in 1 .. W |->
                    IF n = 1 THEN Coloured(Pixel(kinds[1 + (0 % 2)], a + j.dim_x + 1 + 0, j.dim_x), "Cr")
                    ELSE IF n = W
                    THEN Coloured(Pixel(kinds[1 + ((W - 3) % 2)], a + j.dim_x + 1 + (W - 3), j.dim_x), "Cr")
                    ELSE Coloured(Pixel(kinds[1 + ((n - 2) % 2)], a + j.dim_x + 1 + (n - 2), j.dim_x),
                                  IF n % 2 = 0 THEN "Cr" ELSE "Cb")]
                /\ out' = [at |-> dst, px |-> px]
  BY <1>1, <1>2, <1>3, Zenon DEF FastLine, Written
<1>5. \A q \in 0 .. 1 : KindFits(m, k % 2, q, kinds[1 + q])
  <2>1. k % 2 \in 0 .. 1 OBVIOUS
  <2> QED BY <1>1, <1>2, <2>1, KindsFit
<1>6. a \in Int /\ j.dim_x \in Int
  <2>1. a = At(j, k, 0) BY <1>1
  <2>2. 0 \in Int /\ j.dim_x \in Int BY <1>1 DEF JobOk
  <2> QED BY <1>1, <2>1, <2>2, Beside
<1>7. ASSUME NEW n \in 1 .. W, NEW i \in 0 .. W - 3, NearestIn(j, n - 1) = i + 1, NEW kind \in {"Cr", "Cb"},
             NEW x, x = Coloured(Pixel(kinds[1 + (i % 2)], a + j.dim_x + 1 + i, j.dim_x), kind)
      PROVE  Luma(j, k, n, FALSE, x) /\ Chroma(j, k, n, FALSE, x.c)
  <2>1. JobOk(j) /\ a = At(j, k, 0) BY <1>1
  <2>2. PICK z : z = Pixel(kinds[1 + (i % 2)], a + j.dim_x + 1 + i, j.dim_x) OBVIOUS
  <2>3. RowFits(j, k, kinds) BY <1>1, <1>5 DEF RowFits
  <2>4. PICK d \in Int : d = j.dim_x BY <1>6
  <2>5. d = (0 + 1) * j.dim_x /\ 0 % 2 = 0 BY <2>4
  <2>6. ReadsRows(j, k, 0, FALSE, kinds, a, d, n, i) BY <1>3, <1>6, <1>7, <2>1, <2>3, <2>4, <2>5 DEF ReadsRows
  <2>7. z = Pixel(kinds[1 + (i % 2)], a + d + 1 + i, d) BY <2>2, <2>4, Zenon
  <2>8. Luma(j, k, n, FALSE, z) /\ z.r # {} /\ z.b # {} BY <2>6, <2>7, RowRight, Zenon
  <2> QED BY <1>7, <2>2, <2>8, ColouredRight
<1>8. ASSUME NEW n \in 1 .. W PROVE Luma(j, k, n, FALSE, px[n]) /\ Chroma(j, k, n, FALSE, px[n].c)
  <2>1. CASE n = 1
    <3>1. NearestIn(j, n - 1) = 0 + 1 /\ 0 \in 0 .. W - 3 BY <1>3, <2>1 DEF NearestIn
    <3> QED BY <1>4, <1>7, <2>1, <3>1, Zenon
  <2>2. CASE n # 1 /\ n = W
    <3>1. NearestIn(j, n - 1) = (W - 3) + 1 /\ W - 3 \in 0 .. W - 3 BY <1>3, <2>2 DEF NearestIn
    <3> QED BY <1>4, <1>7, <2>2, <3>1, Zenon
  <2>3. CASE n # 1 /\ n # W
    <3>1. NearestIn(j, n - 1) = (n - 2) + 1 /\ n - 2 \in 0 .. W - 3 BY <1>3, <2>3 DEF NearestIn
    <3>2. (IF n % 2 = 0 THEN "Cr" ELSE "Cb") \in {"Cr", "Cb"} OBVIOUS
    <3> QED BY <1>4, <1>7, <2>3, <3>1, <3>2, Zenon
  <2> QED BY <2>1, <2>2, <2>3
<1>9. PICK o : o = out' OBVIOUS
<1>10. DOMAIN o.px = 1 .. W /\ o.px = px /\ o.at = j.ww * k BY <1>1, <1>4, <1>9
<1>11. LineRight(j, FALSE, o) BY <1>1, <1>8, <1>10, LineIsRight
<1> QED BY <1>1, <1>9, <1>11

(* debayerRGB_ar_mode1 takes the colours of line k right, from far rows.    *)
LEMMA ArLineRight ==
    ASSUME JobOk(job), NEW k \in Nat, src = At(job, k, 0), dst = job.ww * k, Line = 1 + (k % 2),
           job.mode % 32 = 1, ArLine
    PROVE  LineRight(job, TRUE, out')
<1>1. PICK j, a, d, kinds : j = job /\ a = src /\ d = 3 * job.dim_x /\ kinds = ar_mode1[1 + (k % 2)] OBVIOUS
<1>2. PICK W \in Nat : W = j.ww /\ W % 2 = 0 /\ W >= 4 BY <1>1 DEF JobOk
<1>3. PICK tail : tail = IF second
                         THEN [Coloured(Pixel(kinds[1 + ((W - 3) % 2)], a + d + 1 + (W - 3), d), "Cr")
                                   EXCEPT !.c.at = Pixel(kinds[1 + ((W - 3 - 1) % 2)], a + d + 1 + (W - 3 - 1), d).r]
                         ELSE Coloured(Pixel(kinds[1 + ((W - 3) % 2)], a + d + 1 + (W - 3), d), "Cb")
  OBVIOUS
<1>4. PICK px : /\ px = [n \in 1 .. W |->
                    IF n = 1 THEN Coloured(Pixel(kinds[1 + (0 % 2)], a + d + 1 + 0, d), "Cr")
                    ELSE IF n = W THEN tail
                    ELSE Coloured(Pixel(kinds[1 + ((n - 2) % 2)], a + d + 1 + (n - 2), d),
                                  IF n % 2 = 0 THEN "Cr" ELSE "Cb")]
                /\ out' = [at |-> dst, px |-> px]
  BY <1>1, <1>2, <1>3, Zenon DEF ArLine, Written
<1>5. RowFits(j, k, kinds)
  <2>1. k % 2 \in 0 .. 1 OBVIOUS
  <2> QED BY <1>1, <2>1, KindsFit DEF RowFits
<1>6. a \in Int /\ d \in Int /\ d = (2 + 1) * j.dim_x /\ 2 % 2 = 0 /\ a = At(j, k, 0) /\ JobOk(j)
  <2>1. a = At(j, k, 0) /\ JobOk(j) BY <1>1
  <2>2. 0 \in Int /\ j.dim_x \in Nat BY <1>1 DEF JobOk
  <2>3. a \in Int BY <2>1, <2>2, Beside
  <2> QED BY <1>1, <2>1, <2>2, <2>3
<1>7. ASSUME NEW n \in 1 .. W, NEW i \in 0 .. W - 3, NEW z, z = Pixel(kinds[1 + (i % 2)], a + d + 1 + i, d)
      PROVE  Luma(j, k, n, TRUE, z) /\ z.r # {} /\ z.b # {}
  <2>1. ReadsRows(j, k, 2, TRUE, kinds, a, d, n, i) BY <1>2, <1>5, <1>6, <1>7 DEF ReadsRows
  <2> QED BY <1>7, <2>1, RowRight, Zenon
<1>8. ASSUME NEW n \in 1 .. W, NEW i \in 0 .. W - 3, NEW kind \in {"Cr", "Cb"},
             NEW x, x = Coloured(Pixel(kinds[1 + (i % 2)], a + d + 1 + i, d), kind)
      PROVE  Luma(j, k, n, TRUE, x) /\ Chroma(j, k, n, TRUE, x.c)
  <2>1. PICK z : z = Pixel(kinds[1 + (i % 2)], a + d + 1 + i, d) OBVIOUS
  <2>2. Luma(j, k, n, TRUE, z) /\ z.r # {} /\ z.b # {} BY <1>7, <2>1, Zenon
  <2> QED BY <1>8, <2>1, <2>2, ColouredRight
<1>9. W \in 1 .. W /\ W - 3 \in 0 .. W - 3 /\ W - 3 - 1 \in 0 .. W - 3 BY <1>2
<1>10. Luma(j, k, W, TRUE, tail) /\ Chroma(j, k, W, TRUE, tail.c)
  <2>1. CASE ~second BY <1>3, <1>8, <1>9, <2>1, Zenon
  <2>2. CASE second
    <3>1. PICK z, y1, x : /\ z = Pixel(kinds[1 + ((W - 3) % 2)], a + d + 1 + (W - 3), d)
                          /\ y1 = Pixel(kinds[1 + ((W - 3 - 1) % 2)], a + d + 1 + (W - 3 - 1), d)
                          /\ x = Coloured(z, "Cr")
      OBVIOUS
    <3>2. Luma(j, k, W, TRUE, z) /\ Luma(j, k, W, TRUE, y1) /\ y1.r # {}
      BY <1>7, <1>9, <3>1, Zenon
    <3>3. tail = [x EXCEPT !.c.at = y1.r] BY <1>3, <2>2, <3>1
    <3>4. tail.r = z.r /\ tail.g = z.g /\ tail.b = z.b /\ tail.c.kind = "Cr" /\ tail.c.at = y1.r
      BY <3>1, <3>3 DEF Coloured
    <3> QED BY <3>2, <3>4, Zenon DEF Luma, Chroma
  <2> QED BY <2>1, <2>2
<1>11. ASSUME NEW n \in 1 .. W PROVE Luma(j, k, n, TRUE, px[n]) /\ Chroma(j, k, n, TRUE, px[n].c)
  <2>1. CASE n = 1
    <3>1. 0 \in 0 .. W - 3 BY <1>2
    <3> QED BY <1>4, <1>8, <2>1, <3>1, Zenon
  <2>2. CASE n # 1 /\ n = W BY <1>4, <1>10, <2>2, Zenon
  <2>3. CASE n # 1 /\ n # W
    <3>1. n - 2 \in 0 .. W - 3 BY <1>2, <2>3
    <3>2. (IF n % 2 = 0 THEN "Cr" ELSE "Cb") \in {"Cr", "Cb"} OBVIOUS
    <3> QED BY <1>4, <1>8, <2>3, <3>1, <3>2, Zenon
  <2> QED BY <2>1, <2>2, <2>3
<1>12. PICK o : o = out' OBVIOUS
<1>13. DOMAIN o.px = 1 .. W /\ o.px = px /\ o.at = j.ww * k BY <1>1, <1>4, <1>12
<1>14. LineRight(j, TRUE, o) BY <1>1, <1>11, <1>13, LineIsRight
<1> QED BY <1>1, <1>12, <1>14

----------------------------------------------------------------------------
(* The SSE2 and MMX functions                                               *)

(* A loop over the line whose upper row has parity p, in mode m, knows      *)
(* where the red samples are.                                               *)
LoopFits(m, p, loop) ==
    LET rg == IF loop.lower THEN 2 - p ELSE 1 + p
        gb == IF loop.lower THEN 1 + p ELSE 2 - p IN
    /\ loop.lane \in {8, 16} /\ loop.lower \in BOOLEAN /\ loop.red \in 0 .. 1
    /\ Mosaic[1 + m][rg][2 - loop.red] = "r" /\ Mosaic[1 + m][rg][1 + loop.red] = "g"
    /\ Mosaic[1 + m][gb][2 - loop.red] = "g" /\ Mosaic[1 + m][gb][1 + loop.red] = "b"
    /\ loop.shift = 1 - loop.red /\ loop.last_r = loop.lane - 2 + loop.red
    /\ loop.down = IF loop.lower THEN 2 ELSE 1

(* What the mosaics have in common: in which row the red samples are, and   *)
(* in which columns.                                                        *)
RedLoop(m, p, lane) ==
    LET red == IF m = 0 \/ m = 2 THEN 0 ELSE 1
    IN  IF (m < 2 /\ p = 1) \/ (m >= 2 /\ p = 0)
        THEN Loop(lane, TRUE, red, 1 - red, lane - 2 + red, 2)
        ELSE Loop(lane, FALSE, red, 1 - red, lane - 2 + red, 1)
LEMMA RedRows ==
    ASSUME NEW m \in 0 .. 3, NEW p \in 0 .. 1, NEW lane \in {8, 16}
    PROVE  LoopFits(m, p, RedLoop(m, p, lane))
<1>1. (m = 0 \/ m = 1 \/ m = 2 \/ m = 3) /\ (p = 0 \/ p = 1) OBVIOUS
<1>2. PICK red \in 0 .. 1 : red = (IF m = 0 \/ m = 2 THEN 0 ELSE 1) OBVIOUS
<1>3. PICK loop : loop = RedLoop(m, p, lane) OBVIOUS
<1>4. /\ loop.lane = lane /\ loop.red = red /\ loop.shift = 1 - red /\ loop.last_r = lane - 2 + red
      /\ \/ loop.lower = TRUE /\ loop.down = 2 /\ ((m < 2 /\ p = 1) \/ (m >= 2 /\ p = 0))
         \/ loop.lower = FALSE /\ loop.down = 1 /\ ((m < 2 /\ p = 0) \/ (m >= 2 /\ p = 1))
  <2>1. CASE (m < 2 /\ p = 1) \/ (m >= 2 /\ p = 0)
    <3>1. loop = Loop(lane, TRUE, red, 1 - red, lane - 2 + red, 2) BY <1>2, <1>3, <2>1, Zenon DEF RedLoop
    <3> QED BY <2>1, <3>1 DEF Loop
  <2>2. CASE ~((m < 2 /\ p = 1) \/ (m >= 2 /\ p = 0))
    <3>1. loop = Loop(lane, FALSE, red, 1 - red, lane - 2 + red, 1) BY <1>2, <1>3, <2>2, Zenon DEF RedLoop
    <3>2. (m < 2 /\ p = 0) \/ (m >= 2 /\ p = 1) BY <2>2
    <3> QED BY <3>1, <3>2 DEF Loop
  <2> QED BY <2>1, <2>2
<1>5. PICK rg, gb : /\ rg = (IF loop.lower THEN 2 - p ELSE 1 + p)
                    /\ gb = (IF loop.lower THEN 1 + p ELSE 2 - p)
  OBVIOUS
<1>6. rg = (IF m < 2 THEN 1 ELSE 2) /\ gb = (IF m < 2 THEN 2 ELSE 1) BY <1>1, <1>4, <1>5
<1>7. /\ Mosaic[1 + m][rg][2 - red] = "r" /\ Mosaic[1 + m][rg][1 + red] = "g"
      /\ Mosaic[1 + m][gb][2 - red] = "g" /\ Mosaic[1 + m][gb][1 + red] = "b"
  <2>1. CASE m = 0
    <3>1. 1 + m = 1 /\ rg = 1 /\ gb = 2 /\ 2 - red = 2 /\ 1 + red = 1 BY <1>2, <1>6, <2>1
    <3> QED BY <3>1 DEF Mosaic
  <2>2. CASE m = 1
    <3>1. 1 + m = 2 /\ rg = 1 /\ gb = 2 /\ 2 - red = 1 /\ 1 + red = 2 BY <1>2, <1>6, <2>2
    <3> QED BY <3>1 DEF Mosaic
  <2>3. CASE m = 2
    <3>1. 1 + m = 3 /\ rg = 2 /\ gb = 1 /\ 2 - red = 2 /\ 1 + red = 1 BY <1>2, <1>6, <2>3
    <3> QED BY <3>1 DEF Mosaic
  <2>4. CASE m = 3
    <3>1. 1 + m = 4 /\ rg = 2 /\ gb = 1 /\ 2 - red = 1 /\ 1 + red = 2 BY <1>2, <1>6, <2>4
    <3> QED BY <3>1 DEF Mosaic
  <2> QED BY <1>1, <2>1, <2>2, <2>3, <2>4
<1>8. loop.lower \in BOOLEAN /\ loop.down = (IF loop.lower THEN 2 ELSE 1) BY <1>4
<1>9. LoopFits(m, p, loop) BY <1>4, <1>5, <1>7, <1>8, Zenon DEF LoopFits
<1> QED BY <1>3, <1>9, Zenon

(* The loops of the SSE2 and MMX functions know it.                         *)
LEMMA LoopsFit ==
    ASSUME NEW m \in 0 .. 3, NEW p \in 0 .. 1, NEW f \in {"sse", "mmx"}
    PROVE  LoopFits(m, p, Loops[f][1 + m][2 - p])
<1>1. PICK loop : loop = Loops[f][1 + m][2 - p] OBVIOUS
<1>2. (m = 0 \/ m = 1 \/ m = 2 \/ m = 3) /\ (p = 0 \/ p = 1) OBVIOUS
<1>3. PICK u, v : u = 1 + m /\ v = 2 - p OBVIOUS
<1>4. loop = Loops[f][u][v] BY <1>1, <1>3, Zenon
<1>5. ASSUME f = "sse" PROVE loop = RedLoop(m, p, 16)
  <2>1. Loops[f] = << <<mode0_sse2_first, mode0_sse2_second>>, <<mode1_sse2_first, mode1_sse2_second>>,
                     <<mode2_sse2_first, mode2_sse2_second>>, <<mode3_sse2_first, mode3_sse2_second>> >>
    BY <1>5 DEF Loops
  <2>2. CASE m = 0 /\ p = 1
    <3>1. u = 1 /\ v = 1 BY <1>3, <2>2
    <3>2. loop = mode0_sse2_first BY <1>4, <2>1, <3>1
    <3>3. RedLoop(m, p, 16) = Loop(16, TRUE, 0, 1, 14, 2) BY <2>2 DEF RedLoop
    <3> QED BY <3>2, <3>3, Zenon DEF mode0_sse2_first
  <2>3. CASE m = 0 /\ p = 0
    <3>1. u = 1 /\ v = 2 BY <1>3, <2>3
    <3>2. loop = mode0_sse2_second BY <1>4, <2>1, <3>1
    <3>3. RedLoop(m, p, 16) = Loop(16, FALSE, 0, 1, 14, 1) BY <2>3 DEF RedLoop
    <3> QED BY <3>2, <3>3, Zenon DEF mode0_sse2_second
  <2>4. CASE m = 1 /\ p = 1
    <3>1. u = 2 /\ v = 1 BY <1>3, <2>4
    <3>2. loop = mode1_sse2_first BY <1>4, <2>1, <3>1
    <3>3. RedLoop(m, p, 16) = Loop(16, TRUE, 1, 0, 15, 2) BY <2>4 DEF RedLoop
    <3> QED BY <3>2, <3>3, Zenon DEF mode1_sse2_first
  <2>5. CASE m = 1 /\ p = 0
    <3>1. u = 2 /\ v = 2 BY <1>3, <2>5
    <3>2. loop = mode1_sse2_second BY <1>4, <2>1, <3>1
    <3>3. RedLoop(m, p, 16) = Loop(16, FALSE, 1, 0, 15, 1) BY <2>5 DEF RedLoop
    <3> QED BY <3>2, <3>3, Zenon DEF mode1_sse2_second
  <2>6. CASE m = 2 /\ p = 1
    <3>1. u = 3 /\ v = 1 BY <1>3, <2>6
    <3>2. loop = mode2_sse2_first BY <1>4, <2>1, <3>1
    <3>3. RedLoop(m, p, 16) = Loop(16, FALSE, 0, 1, 14, 1) BY <2>6 DEF RedLoop
    <3> QED BY <3>2, <3>3, Zenon DEF mode2_sse2_first
  <2>7. CASE m = 2 /\ p = 0
    <3>1. u = 3 /\ v = 2 BY <1>3, <2>7
    <3>2. loop = mode2_sse2_second BY <1>4, <2>1, <3>1
    <3>3. RedLoop(m, p, 16) = Loop(16, TRUE, 0, 1, 14, 2) BY <2>7 DEF RedLoop
    <3> QED BY <3>2, <3>3, Zenon DEF mode2_sse2_second
  <2>8. CASE m = 3 /\ p = 1
    <3>1. u = 4 /\ v = 1 BY <1>3, <2>8
    <3>2. loop = mode3_sse2_first BY <1>4, <2>1, <3>1
    <3>3. RedLoop(m, p, 16) = Loop(16, FALSE, 1, 0, 15, 1) BY <2>8 DEF RedLoop
    <3> QED BY <3>2, <3>3, Zenon DEF mode3_sse2_first
  <2>9. CASE m = 3 /\ p = 0
    <3>1. u = 4 /\ v = 2 BY <1>3, <2>9
    <3>2. loop = mode3_sse2_second BY <1>4, <2>1, <3>1
    <3>3. RedLoop(m, p, 16) = Loop(16, TRUE, 1, 0, 15, 2) BY <2>9 DEF RedLoop
    <3> QED BY <3>2, <3>3, Zenon DEF mode3_sse2_second
  <2> QED BY <1>2, <2>2, <2>3, <2>4, <2>5, <2>6, <2>7, <2>8, <2>9
<1>6. ASSUME f = "mmx" PROVE loop = RedLoop(m, p, 8)
  <2>1. Loops[f] = << <<mode0_mmx_first, mode0_mmx_second>>, <<mode1_mmx_first, mode1_mmx_second>>,
                     <<mode2_mmx_first, mode2_mmx_second>>, <<mode3_mmx_first, mode3_mmx_second>> >>
    BY <1>6 DEF Loops
  <2>2. CASE m = 0 /\ p = 1
    <3>1. u = 1 /\ v = 1 BY <1>3, <2>2
    <3>2. loop = mode0_mmx_first BY <1>4, <2>1, <3>1
    <3>3. RedLoop(m, p, 8) = Loop(8, TRUE, 0, 1, 6, 2) BY <2>2 DEF RedLoop
    <3> QED BY <3>2, <3>3, Zenon DEF mode0_mmx_first
  <2>3. CASE m = 0 /\ p = 0
    <3>1. u = 1 /\ v = 2 BY <1>3, <2>3
    <3>2. loop = mode0_mmx_second BY <1>4, <2>1, <3>1
    <3>3. RedLoop(m, p, 8) = Loop(8, FALSE, 0, 1, 6, 1) BY <2>3 DEF RedLoop
    <3> QED BY <3>2, <3>3, Zenon DEF mode0_mmx_second
  <2>4. CASE m = 1 /\ p = 1
    <3>1. u = 2 /\ v = 1 BY <1>3, <2>4
    <3>2. loop = mode1_mmx_first BY <1>4, <2>1, <3>1
    <3>3. RedLoop(m, p, 8) = Loop(8, TRUE, 1, 0, 7, 2) BY <2>4 DEF RedLoop
    <3> QED BY <3>2, <3>3, Zenon DEF mode1_mmx_first
  <2>5. CASE m = 1 /\ p = 0
    <3>1. u = 2 /\ v = 2 BY <1>3, <2>5
    <3>2. loop = mode1_mmx_second BY <1>4, <2>1, <3>1
    <3>3. RedLoop(m, p, 8) = Loop(8, FALSE, 1, 0, 7, 1) BY <2>5 DEF RedLoop
    <3> QED BY <3>2, <3>3, Zenon DEF mode1_mmx_second
  <2>6. CASE m = 2 /\ p = 1
    <3>1. u = 3 /\ v = 1 BY <1>3, <2>6
    <3>2. loop = mode2_mmx_first BY <1>4, <2>1, <3>1
    <3>3. RedLoop(m, p, 8) = Loop(8, FALSE, 0, 1, 6, 1) BY <2>6 DEF RedLoop
    <3> QED BY <3>2, <3>3, Zenon DEF mode2_mmx_first
  <2>7. CASE m = 2 /\ p = 0
    <3>1. u = 3 /\ v = 2 BY <1>3, <2>7
    <3>2. loop = mode2_mmx_second BY <1>4, <2>1, <3>1
    <3>3. RedLoop(m, p, 8) = Loop(8, TRUE, 0, 1, 6, 2) BY <2>7 DEF RedLoop
    <3> QED BY <3>2, <3>3, Zenon DEF mode2_mmx_second
  <2>8. CASE m = 3 /\ p = 1
    <3>1. u = 4 /\ v = 1 BY <1>3, <2>8
    <3>2. loop = mode3_mmx_first BY <1>4, <2>1, <3>1
    <3>3. RedLoop(m, p, 8) = Loop(8, FALSE, 1, 0, 7, 1) BY <2>8 DEF RedLoop
    <3> QED BY <3>2, <3>3, Zenon DEF mode3_mmx_first
  <2>9. CASE m = 3 /\ p = 0
    <3>1. u = 4 /\ v = 2 BY <1>3, <2>9
    <3>2. loop = mode3_mmx_second BY <1>4, <2>1, <3>1
    <3>3. RedLoop(m, p, 8) = Loop(8, TRUE, 1, 0, 7, 2) BY <2>9 DEF RedLoop
    <3> QED BY <3>2, <3>3, Zenon DEF mode3_mmx_second
  <2> QED BY <1>2, <2>2, <2>3, <2>4, <2>5, <2>6, <2>7, <2>8, <2>9
<1>7. PICK lane \in {8, 16} : loop = RedLoop(m, p, lane) BY <1>5, <1>6
<1>8. LoopFits(m, p, RedLoop(m, p, lane)) BY RedRows, Zenon
<1> QED BY <1>1, <1>7, <1>8, Zenon

(* A pixel of a block is right, when nothing is missing to its right.       *)
LEMMA BlockRight ==
    ASSUME JobOk(job), NEW k \in Nat, src - job.ww = At(job, k + 1, 0), src \in Int, NEW loop,
           LoopFits(job.mode % 32, k % 2, loop),
           NEW i \in 1 .. job.ww - 2, NEW n, NearestIn(job, n - 1) = i
    PROVE  Luma(job, k, n, FALSE, Block(loop, i)) /\ Chroma(job, k, n, FALSE, Block(loop, i).c)
<1>1. PICK j, m, p, red : j = job /\ m = job.mode % 32 /\ p = k % 2 /\ red = loop.red OBVIOUS
<1>2. JobOk(j) BY <1>1
<1>3. PICK W \in Nat : W = j.ww /\ W >= 4 BY <1>2 DEF JobOk
<1>4. p \in 0 .. 1 /\ red \in 0 .. 1 /\ loop.lower \in BOOLEAN /\ loop.shift = 1 - red BY <1>1 DEF LoopFits
<1>5. PICK up \in Int, below \in Int : up = src - job.ww + i /\ below = up + job.dim_x
  <2>1. src - job.ww + i \in Int /\ src - job.ww + i + job.dim_x \in Int BY <1>1, <1>3, <1>2 DEF JobOk
  <2> QED BY <2>1
<1>6. up = At(j, k + 1, i) /\ below = At(j, k + 2, i)
  <2>1. k + 1 \in Nat /\ k + 1 + 1 = k + 2 /\ i \in Int /\ 0 \in Int /\ 0 + i = i BY <1>3, <1>1
  <2>2. At(j, k + 1, 0 + i) = At(j, k + 1, 0) + i BY <1>2, <2>1, Beside
  <2>3. At(j, k + 1 + 1, i) = At(j, k + 1, i) + 1 * j.dim_x BY <1>2, <2>1, Below
  <2>4. 1 * j.dim_x = j.dim_x BY <1>2 DEF JobOk
  <2>5. At(j, k + 1, 0) = src - job.ww BY <1>1
  <2>6. At(j, k + 1, i) = up BY <1>5, <2>1, <2>2, <2>5
  <2> QED BY <1>1, <1>5, <2>1, <2>3, <2>4, <2>6
<1>7. PICK rg, gb : /\ rg = IF loop.lower THEN k + 2 ELSE k + 1
                    /\ gb = IF loop.lower THEN k + 1 ELSE k + 2
  OBVIOUS
<1>8. PICK rgrow \in Int, gbrow \in Int : /\ rgrow = IF loop.lower THEN up + job.dim_x ELSE up
                          /\ gbrow = IF loop.lower THEN up ELSE up + job.dim_x
  BY <1>5
<1>9. rgrow = At(j, rg, i) /\ gbrow = At(j, gb, i) BY <1>5, <1>6, <1>7, <1>8
<1>10. rg \in {k + 1, k + 2} /\ gb \in {k + 1, k + 2} BY <1>7
<1>11. ASSUME NEW r \in {k + 1, k + 2}, NEW x \in 0 .. 1, NEW colour, ColourIn(j, r, i + x) = colour
       PROVE  Site(j, k, n, FALSE, At(j, r, i) + x, colour)
  <2>1. r \in Nat /\ r \in k .. k + 2 /\ i \in Int /\ x \in Int OBVIOUS
  <2>2. At(j, r, i + x) = At(j, r, i) + x BY <1>2, <2>1, Beside
  <2>3. i + x \in 0 .. j.ww - 1 /\ i + x \in (NearestIn(j, n - 1) - 1) .. (NearestIn(j, n - 1) + 1)
    BY <1>1, <1>3
  <2> QED BY <1>11, <2>1, <2>2, <2>3, Zenon DEF Site
<1>12. /\ 1 + ((rg + 1) % 2) = IF loop.lower THEN 2 - p ELSE 1 + p
       /\ 1 + ((gb + 1) % 2) = IF loop.lower THEN 1 + p ELSE 2 - p
  BY <1>1, <1>7
<1>13. ASSUME NEW x \in 0 .. 1
       PROVE  /\ (i + x) % 2 = red => 1 + ((i + x + 1) % 2) = 2 - red
              /\ (i + x) % 2 # red => 1 + ((i + x + 1) % 2) = 1 + red
  <2>1. PICK z \in Nat : z = i + x BY <1>3
  <2> QED BY <1>4, <2>1
<1>14. ASSUME NEW x \in 0 .. 1
       PROVE  /\ (i + x) % 2 = red => ColourIn(j, rg, i + x) = "r" /\ ColourIn(j, gb, i + x) = "g"
              /\ (i + x) % 2 # red => ColourIn(j, rg, i + x) = "g" /\ ColourIn(j, gb, i + x) = "b"
  BY <1>1, <1>12, <1>13, Zenon DEF ColourIn, LoopFits
<1>15. ASSUME NEW x \in 0 .. 1
       PROVE  /\ (i + x) % 2 = red => Site(j, k, n, FALSE, rgrow + x, "r") /\ Site(j, k, n, FALSE, gbrow + x, "g")
              /\ (i + x) % 2 # red => Site(j, k, n, FALSE, rgrow + x, "g") /\ Site(j, k, n, FALSE, gbrow + x, "b")
  BY <1>9, <1>10, <1>11, <1>14, Zenon
<1>16. PICK cols, Reds : /\ cols = IF i = job.ww - 1 THEN {0} ELSE {0, 1}
                         /\ Reds = {x \in cols : ((i % loop.lane) + x) % 2 = loop.red}
  OBVIOUS
<1>17. cols = {0, 1} BY <1>1, <1>3, <1>16
<1>18. \A x \in cols : x \in Reds <=> (i + x) % 2 = red
  <2>1. loop.lane = 8 \/ loop.lane = 16 BY DEF LoopFits
  <2>2. i \in Nat BY <1>1, <1>3
  <2>3. \A x \in 0 .. 1 : ((i % loop.lane) + x) % 2 = (i + x) % 2 BY <2>1, <2>2
  <2> QED BY <1>1, <1>16, <1>17, <2>3
<1>19. PICK px : px = Block(loop, i) OBVIOUS
<1>20. /\ px.r = {rgrow + x : x \in Reds}
       /\ px.g = {rgrow + x : x \in cols \ Reds} \cup {gbrow + x : x \in Reds}
       /\ px.b = {gbrow + x : x \in cols \ Reds}
       /\ px.c = [kind |-> IF i % 2 = 1 THEN "Cr" ELSE "Cb",
                  at |-> {(IF i % 2 = 1 THEN rgrow ELSE gbrow) + x : x \in {loop.shift} \cap cols}]
  BY <1>5, <1>8, <1>16, <1>19 DEF Block
<1>21. \A x \in cols : x \in 0 .. 1 BY <1>17
<1>22. Luma(j, k, n, FALSE, px)
  <2>1. \A x \in Reds : x \in cols BY <1>16
  <2> QED BY <1>15, <1>18, <1>20, <1>21, <2>1 DEF Luma
<1>23. Chroma(j, k, n, FALSE, px.c)
  <2>1. PICK row, x : row = (IF i % 2 = 1 THEN rgrow ELSE gbrow) /\ x = loop.shift OBVIOUS
  <2>2. x \in 0 .. 1 /\ {loop.shift} \cap cols = {x}
    <3>1. x = 1 - red BY <1>4, <2>1, Zenon
    <3>2. x = 0 \/ x = 1 BY <1>4, <3>1
    <3>3. x \in cols BY <1>17, <3>2, Zenon
    <3>4. {x} \cap cols = {x} BY <3>3, Zenon
    <3> QED BY <2>1, <3>2, <3>4
  <2>3. px.c.at = {row + x} /\ px.c.kind = IF i % 2 = 1 THEN "Cr" ELSE "Cb" BY <1>20, <2>1, <2>2
  <2>4. IF i % 2 = 1 THEN (i + x) % 2 = red ELSE (i + x) % 2 # red BY <1>3, <1>1, <1>4, <2>1
  <2>5. Site(j, k, n, FALSE, row + x, IF i % 2 = 1 THEN "r" ELSE "b") BY <1>15, <2>1, <2>2, <2>4
  <2>6. IF px.c.kind = "Cr" THEN i % 2 = 1 ELSE i % 2 # 1 BY <2>3
  <2> QED BY <2>3, <2>5, <2>6 DEF Chroma
<1> QED BY <1>1, <1>19, <1>22, <1>23, Zenon

(* Where the SSE2 and MMX functions read and go on, before line k.          *)
VecAt(j, k, s) == JobOk(j) /\ k \in Nat /\ s = At(j, k + 1, 0) + j.ww
LEMMA VecRows ==
    ASSUME NEW j, NEW k, NEW s, VecAt(j, k, s)
    PROVE  /\ s \in Int /\ s - j.ww = At(j, k + 1, 0)
           /\ s - j.ww - (j.dim_x - j.ww) = At(j, k, 0) + j.ww
           /\ \A dn \in 1 .. 2, c \in Int :
                 s - j.ww - (j.dim_x - j.ww) + c + dn * j.dim_x = At(j, k + dn, j.ww + c)
<1>0. JobOk(j) /\ k \in Nat /\ s = At(j, k + 1, 0) + j.ww BY Zenon DEF VecAt
<1> USE <1>0
<1>1. PICK W \in Nat, x \in Nat, a \in Int : W = j.ww /\ x = j.dim_x /\ a = At(j, k, 0)
  <2>1. 0 \in Int OBVIOUS
  <2>2. At(j, k, 0) \in Int BY <2>1, Beside
  <2>3. j.ww \in Nat /\ j.dim_x \in Nat BY DEF JobOk
  <2> QED BY <2>2, <2>3
<1>2. \A m \in Nat, c \in Int : At(j, k + m, c) = a + m * x + c
  <2>1. TAKE m \in Nat, c \in Int
  <2>2. 0 \in Int /\ 0 + c = c OBVIOUS
  <2>3. At(j, k, 0 + c) = At(j, k, 0) + c BY <2>2, Beside
  <2>4. At(j, k + m, c) = At(j, k, c) + m * j.dim_x BY Below
  <2>5. m * x \in Nat OBVIOUS
  <2>6. At(j, k + m, c) = (a + c) + m * x BY <1>1, <2>2, <2>3, <2>4, Zenon
  <2> QED BY <2>5, <2>6
<1>3. s = a + x + W
  <2>1. 1 \in Nat /\ 0 \in Int /\ a + 1 * x + 0 = a + x OBVIOUS
  <2>2. At(j, k + 1, 0) = a + x BY <1>2, <2>1
  <2> QED BY <1>1, <2>2
<1>4. s - W - (x - W) = a + W BY <1>3
<1>5. s - W = At(j, k + 1, 0)
  <2>1. 1 \in Nat /\ 0 \in Int /\ a + 1 * x + 0 = a + x OBVIOUS
  <2>2. At(j, k + 1, 0) = a + x BY <1>2, <2>1
  <2> QED BY <1>3, <2>2
<1>6. ASSUME NEW dn \in 1 .. 2, NEW c \in Int PROVE s - W - (x - W) + c + dn * x = At(j, k + dn, W + c)
  <2>1. dn \in Nat /\ W + c \in Int /\ dn * x \in Int OBVIOUS
  <2>2. At(j, k + dn, W + c) = a + dn * x + (W + c) BY <1>2, <2>1
  <2>3. s - W - (x - W) + c + dn * x = (a + W) + c + dn * x BY <1>4
  <2> QED BY <2>1, <2>2, <2>3
<1> QED BY <1>1, <1>3, <1>4, <1>5, <1>6

(* The number before an even one is odd.                                    *)
LEMMA OddEven == \A n \in Nat \ {0} : (n - 1) % 2 = 1 <=> n % 2 = 0
OBVIOUS

(* A pixel that is given another chroma.                                    *)
LEMMA NewChroma ==
    ASSUME NEW z, \E r, g, b, c : z = [r |-> r, g |-> g, b |-> b, c |-> c],
           NEW c, NEW e, e = [z EXCEPT !.c = c]
    PROVE  e.r = z.r /\ e.g = z.g /\ e.b = z.b /\ e.c = c
OBVIOUS

(* Cr and Cb alternate, from the second pixel on.                           *)
Alternates(o) ==
    \A n \in DOMAIN o.px : o.px[n].c.kind = IF n = 1 \/ n % 2 = 0 THEN "Cr" ELSE "Cb"

(* The SSE2 and MMX functions make line k right.                            *)
LEMMA VecLineRight ==
    ASSUME JobOk(job), NEW k \in Nat, src = At(job, k + 1, 0) + job.ww, dst = job.ww * k, Line = 2 - (k % 2),
           job.mode % 32 \in 0 .. 3, VecLine
    PROVE  /\ LineRight(job, FALSE, out') /\ Alternates(out')
           /\ src' = At(job, k, 0) + job.ww
<1>1. PICK j, m, p : j = job /\ m = job.mode % 32 /\ p = k % 2 OBVIOUS
<1>2. JobOk(j) /\ m \in 0 .. 3 /\ p \in 0 .. 1 BY <1>1
<1>3. PICK W \in Nat : W = j.ww /\ W % 2 = 0 /\ W >= 4 BY <1>2 DEF JobOk
<1>4. fn \in {"sse", "mmx"} BY DEF VecLine
<1>5. PICK loop : loop = Loops[fn][1 + m][2 - p] OBVIOUS
<1>6. LoopFits(m, p, loop) BY <1>2, <1>4, <1>5, LoopsFit
<1>7. PICK above : above = src - W - (j.dim_x - W) OBVIOUS
<1>8. PICK last_r : last_r = above - loop.lane + loop.last_r + loop.down * j.dim_x OBVIOUS
<1>9. PICK px : /\ px = [n \in 1 .. W |->
                    IF n = 1 THEN Block(loop, 1)
                    ELSE IF n = W
                         THEN [Block(loop, W - 2) EXCEPT !.c = [kind |-> "Cr", at |-> {last_r}]]
                    ELSE Block(loop, n - 1)]
                /\ out' = [at |-> dst, px |-> px] /\ src' = above
  BY <1>1, <1>3, <1>5, <1>7, <1>8, Zenon DEF VecLine, Written, Remain
<1>10. /\ src \in Int /\ src - W = At(j, k + 1, 0) /\ above = At(j, k, 0) + W
       /\ \A dn \in 1 .. 2, c \in Int : above + c + dn * j.dim_x = At(j, k + dn, W + c)
  <2>1. VecAt(j, k, src) BY <1>1, Zenon DEF VecAt
  <2>2. /\ src \in Int /\ src - j.ww = At(j, k + 1, 0)
        /\ src - j.ww - (j.dim_x - j.ww) = At(j, k, 0) + j.ww
        /\ \A dn \in 1 .. 2, c \in Int :
              src - j.ww - (j.dim_x - j.ww) + c + dn * j.dim_x = At(j, k + dn, j.ww + c)
    BY <2>1, VecRows, Zenon
  <2> QED BY <1>3, <1>7, <2>2, Zenon
<1>11. ASSUME NEW i \in 1 .. W - 2, NEW n, NearestIn(j, n - 1) = i
       PROVE  Luma(j, k, n, FALSE, Block(loop, i)) /\ Chroma(j, k, n, FALSE, Block(loop, i).c)
  <2>1. /\ JobOk(job) /\ src - job.ww = At(job, k + 1, 0) /\ src \in Int
        /\ LoopFits(job.mode % 32, k % 2, loop) /\ i \in 1 .. job.ww - 2 /\ NearestIn(job, n - 1) = i
    BY <1>1, <1>3, <1>6, <1>10, <1>11, Zenon
  <2>2. Luma(job, k, n, FALSE, Block(loop, i)) /\ Chroma(job, k, n, FALSE, Block(loop, i).c)
    BY <2>1, BlockRight, Zenon
  <2> QED BY <1>1, <2>2, Zenon
<1>12. ASSUME NEW i \in 1 .. W - 2 PROVE Block(loop, i).c.kind = IF i % 2 = 1 THEN "Cr" ELSE "Cb"
  BY DEF Block
<1>13. Site(j, k, W, FALSE, last_r, "r")
  <2>1. PICK c \in Int, dn \in 1 .. 2 : c = loop.red - 2 /\ dn = loop.down
    <3>1. loop.red \in 0 .. 1 /\ (loop.down = 1 \/ loop.down = 2) BY <1>6 DEF LoopFits
    <3>2. loop.down \in 1 .. 2 /\ loop.red - 2 \in Int BY <3>1
    <3> QED BY <3>2, Zenon
  <2> DEFINE r == k + dn
  <2>2. last_r = At(j, r, W + c)
    <3>1. PICK l \in Int, lr \in Int, dd \in Int : l = loop.lane /\ lr = loop.last_r /\ dd = dn * j.dim_x
      <4>1. loop.lane \in {8, 16} /\ loop.red \in 0 .. 1 /\ loop.last_r = loop.lane - 2 + loop.red
        BY <1>6, Zenon DEF LoopFits
      <4>2. loop.lane \in Int /\ loop.last_r \in Int BY <4>1
      <4>3. j.dim_x \in Nat BY <1>2, Zenon DEF JobOk
      <4>4. dn * j.dim_x \in Int BY <4>3
      <4> QED BY <4>2, <4>4, Zenon
    <3>2. lr = l + c
      <4>1. l \in {8, 16} /\ loop.red \in 0 .. 1 /\ lr = l - 2 + loop.red BY <1>6, <3>1 DEF LoopFits
      <4> QED BY <2>1, <4>1
    <3>3. above \in Int BY <1>2, <1>3, <1>7, <1>10 DEF JobOk
    <3>4. last_r = above - l + lr + dd BY <1>8, <2>1, <3>1
    <3>5. above + c + dd = At(j, k + dn, W + c) BY <1>10, <2>1, <3>1
    <3> QED BY <2>1, <3>2, <3>3, <3>4, <3>5
  <2>3. NearestIn(j, W - 1) = W - 2 BY <1>3 DEF NearestIn
  <2>4. loop.red \in 0 .. 1 BY <1>6 DEF LoopFits
  <2>5. W + c \in 0 .. W - 1 /\ W + c \in (NearestIn(j, W - 1) - 1) .. (NearestIn(j, W - 1) + 1)
    BY <1>3, <2>1, <2>3, <2>4
  <2>6. r \in Nat /\ r \in k .. k + 2 BY <2>1
  <2>7. ColourIn(j, r, W + c) = "r"
    <3>1. 1 + ((W + c + 1) % 2) = 2 - loop.red BY <1>3, <2>1, <2>4
    <3>2. 1 + ((r + 1) % 2) = IF loop.lower THEN 2 - p ELSE 1 + p
      <4>1. dn = IF loop.lower THEN 2 ELSE 1 BY <1>6, <2>1 DEF LoopFits
      <4> QED BY <1>1, <2>1, <4>1
    <3> QED BY <1>1, <1>6, <3>1, <3>2, Zenon DEF ColourIn, LoopFits
  <2> QED BY <1>3, <2>2, <2>5, <2>6, <2>7, Zenon DEF Site
<1>14. ASSUME NEW n \in 1 .. W
       PROVE  /\ Luma(j, k, n, FALSE, px[n]) /\ Chroma(j, k, n, FALSE, px[n].c)
              /\ px[n].c.kind = IF n = 1 \/ n % 2 = 0 THEN "Cr" ELSE "Cb"
  <2>1. CASE n = 1
    <3>1. NearestIn(j, n - 1) = 1 /\ 1 \in 1 .. W - 2 /\ 1 % 2 = 1 BY <1>3, <2>1 DEF NearestIn
    <3>2. px[n] = Block(loop, 1) BY <1>9, <2>1
    <3>3. Luma(j, k, n, FALSE, Block(loop, 1)) /\ Chroma(j, k, n, FALSE, Block(loop, 1).c)
      BY <1>11, <3>1
    <3>4. Block(loop, 1).c.kind = "Cr" BY <1>12, <3>1, Zenon
    <3> QED BY <2>1, <3>2, <3>3, <3>4, Zenon
  <2>2. CASE n # 1 /\ n = W
    <3>1. NearestIn(j, n - 1) = W - 2 /\ W - 2 \in 1 .. W - 2 BY <1>3, <2>2 DEF NearestIn
    <3>2. PICK z, c : z = Block(loop, W - 2) /\ c = [kind |-> "Cr", at |-> {last_r}] OBVIOUS
    <3>3. Luma(j, k, n, FALSE, z) BY <1>11, <3>1, <3>2
    <3>4. px[n] = [z EXCEPT !.c = c] BY <1>9, <2>2, <3>2
    <3>5. px[n].r = z.r /\ px[n].g = z.g /\ px[n].b = z.b /\ px[n].c = c
      <4>1. PICK e : e = [z EXCEPT !.c = c] OBVIOUS
      <4>2. \E r, g, bl, ch : z = [r |-> r, g |-> g, b |-> bl, c |-> ch] BY <3>2, Zenon DEF Block
      <4>3. e.r = z.r /\ e.g = z.g /\ e.b = z.b /\ e.c = c BY <4>1, <4>2, NewChroma, Zenon
      <4> QED BY <3>4, <4>1, <4>3
    <3>6. c.kind = "Cr" /\ c.at = {last_r} BY <3>2
    <3>7. Luma(j, k, n, FALSE, px[n]) BY <3>3, <3>5, Zenon DEF Luma
    <3>8. Chroma(j, k, n, FALSE, px[n].c) BY <1>13, <2>2, <3>5, <3>6 DEF Chroma
    <3> QED BY <1>3, <2>2, <3>5, <3>6, <3>7, <3>8
  <2>3. CASE n # 1 /\ n # W
    <3>1. NearestIn(j, n - 1) = n - 1 /\ n - 1 \in 1 .. W - 2 BY <1>3, <2>3 DEF NearestIn
    <3>2. px[n] = Block(loop, n - 1) BY <1>9, <2>3
    <3>3. Luma(j, k, n, FALSE, Block(loop, n - 1)) /\ Chroma(j, k, n, FALSE, Block(loop, n - 1).c)
      BY <1>11, <3>1
    <3>4. Block(loop, n - 1).c.kind = IF (n - 1) % 2 = 1 THEN "Cr" ELSE "Cb" BY <1>12, <3>1, Zenon
    <3>5. n \in Nat \ {0} BY <1>3
    <3>6. (n - 1) % 2 = 1 <=> n % 2 = 0 BY <3>5, OddEven, Zenon
    <3> QED BY <2>3, <3>2, <3>3, <3>4, <3>6, Zenon
  <2> QED BY <2>1, <2>2, <2>3
<1>15. PICK o : o = out' OBVIOUS
<1>16. DOMAIN o.px = 1 .. W /\ o.px = px /\ o.at = j.ww * k BY <1>1, <1>9, <1>15
<1>17. LineRight(j, FALSE, o) BY <1>2, <1>14, <1>16, LineIsRight
<1>18. Alternates(o) BY <1>14, <1>16, Zenon DEF Alternates
<1> QED BY <1>1, <1>3, <1>9, <1>10, <1>15, <1>17, <1>18

(* debayerRGB_fast_mode0, 2 and 3 alternate Cr and Cb.                      *)
LEMMA FastAlternates ==
    ASSUME JobOk(job), FastLine
    PROVE  Alternates(out')
<1>1. PICK W \in Nat : W = job.ww /\ W % 2 = 0 BY Zenon DEF JobOk
<1>2. PICK px, P, a, b : /\ out' = [at |-> dst, px |-> px]
                         /\ px = [n \in 1 .. W |->
                                    IF n = 1 THEN Coloured(a, "Cr") ELSE IF n = W THEN Coloured(b, "Cr")
                                    ELSE Coloured(P[n], IF n % 2 = 0 THEN "Cr" ELSE "Cb")]
  <2>1. PICK kinds, d, s : kinds = FastKinds[job.mode % 32][Line] /\ d = job.dim_x /\ s = src + job.dim_x OBVIOUS
  <2>2. PICK P : P = [n \in 1 .. W |-> Pixel(kinds[1 + ((n - 2) % 2)], s + 1 + (n - 2), d)] OBVIOUS
  <2>3. \A n \in 1 .. W : P[n] = Pixel(kinds[1 + ((n - 2) % 2)], s + 1 + (n - 2), d) BY <2>2
  <2>4. out' = [at |-> dst, px |-> [n \in 1 .. W |->
                     IF n = 1 THEN Coloured(Pixel(kinds[1 + (0 % 2)], s + 1 + 0, d), "Cr")
                     ELSE IF n = W THEN Coloured(Pixel(kinds[1 + ((W - 3) % 2)], s + 1 + (W - 3), d), "Cr")
                     ELSE Coloured(Pixel(kinds[1 + ((n - 2) % 2)], s + 1 + (n - 2), d), IF n % 2 = 0 THEN "Cr" ELSE "Cb")]]
    BY <1>1, <2>1, Zenon DEF FastLine, Written
  <2>5. [n \in 1 .. W |->
                     IF n = 1 THEN Coloured(Pixel(kinds[1 + (0 % 2)], s + 1 + 0, d), "Cr")
                     ELSE IF n = W THEN Coloured(Pixel(kinds[1 + ((W - 3) % 2)], s + 1 + (W - 3), d), "Cr")
                     ELSE Coloured(Pixel(kinds[1 + ((n - 2) % 2)], s + 1 + (n - 2), d), IF n % 2 = 0 THEN "Cr" ELSE "Cb")]
        = [n \in 1 .. W |->
                     IF n = 1 THEN Coloured(Pixel(kinds[1 + (0 % 2)], s + 1 + 0, d), "Cr")
                     ELSE IF n = W THEN Coloured(Pixel(kinds[1 + ((W - 3) % 2)], s + 1 + (W - 3), d), "Cr")
                     ELSE Coloured(P[n], IF n % 2 = 0 THEN "Cr" ELSE "Cb")]
    BY <2>3, Zenon
  <2> QED BY <2>4, <2>5, Zenon
<1>3. \A z, kind : Coloured(z, kind).c.kind = kind BY DEF Coloured
<1>4. ASSUME NEW n \in 1 .. W PROVE px[n].c.kind = IF n = 1 \/ n % 2 = 0 THEN "Cr" ELSE "Cb"
  <2>1. CASE n = 1 BY <1>2, <1>3, <2>1, Zenon
  <2>2. CASE n # 1 /\ n = W BY <1>1, <1>2, <1>3, <2>2, Zenon
  <2>3. CASE n # 1 /\ n # W BY <1>2, <1>3, <2>3, Zenon
  <2> QED BY <2>1, <2>2, <2>3
<1>5. PICK o : o = out' OBVIOUS
<1>6. o.px = px /\ DOMAIN px = 1 .. W BY <1>2, <1>5
<1>7. Alternates(o) BY <1>4, <1>6, Zenon DEF Alternates
<1> QED BY <1>5, <1>7

----------------------------------------------------------------------------
(* Line after line                                                          *)

(* The lines that are done.                                                 *)
LinesDone == IF fn = "bw" THEN job.wh - y ELSE (job.wh - 2 - y) + (IF second THEN 1 ELSE 0)
Beginnings(from, to) == {job.ww * k : k \in from .. to}

(* How far a function has come: from the top, from the end, or in black and *)
(* white.                                                                   *)
Paired == y \in Nat /\ y % 2 = 0 /\ y >= 2 /\ y <= job.wh - 2
Downwards ==
    /\ Paired /\ src = At(job, LinesDone, 0) /\ dst = job.ww * LinesDone
    /\ filled = Beginnings(0, LinesDone - 1)
Upwards ==
    /\ Paired /\ src = At(job, job.wh - 2 - LinesDone, 0) + job.ww /\ dst = job.ww * (job.wh - 3 - LinesDone)
    /\ filled = Beginnings(job.wh - 2 - LinesDone, job.wh - 3)
Everywhere ==
    /\ y \in 1 .. job.wh /\ dst = job.ww * LinesDone /\ filled = Beginnings(0, LinesDone - 1)

(* The inductive invariant of the pictures.                                 *)
DrawInv ==
    /\ JobOk(job) /\ second \in BOOLEAN
    /\ fn \in {"idle", "fast", "ar", "sse", "mmx", "bw", "exited"}
    /\ (job.mode % 32 < 4 => LineRight(job, ArMode, out))
    /\ (fn \in {"fast", "sse", "mmx"} => Alternates(out))
    /\ (fn = "fast" => api = "c" /\ job.mode % 32 \in {0, 2, 3} /\ Downwards)
    /\ (fn = "ar" => api = "c" /\ job.mode % 32 = 1 /\ Downwards)
    /\ (fn \in {"sse", "mmx"} => api = fn /\ job.mode % 32 \in 0 .. 3 /\ Upwards)
    /\ (fn = "bw" => job.mode % 32 = 4 /\ Everywhere)
    /\ (fn = "idle" => filled = {} \/ filled = Beginnings(0, Lines - 1))
    /\ (fn = "exited" => filled = {})

(* Counting in pairs.                                                       *)
LEMMA Counting ==
    ASSUME NEW h \in Nat, NEW l \in Nat, NEW sec \in BOOLEAN, h % 2 = 0, l % 2 = 0, l >= 2, l <= h - 2,
           NEW n, n = (h - 2 - l) + (IF sec THEN 1 ELSE 0),
           NEW l2, l2 = IF sec THEN l - 2 ELSE l
    PROVE  /\ n \in 0 .. h - 3 /\ (IF sec THEN n % 2 = 1 ELSE n % 2 = 0)
           /\ n + 1 = (h - 2 - l2) + (IF ~sec THEN 1 ELSE 0)
           /\ IF sec /\ l = 2 THEN n = h - 3 ELSE l2 \in Nat /\ l2 % 2 = 0 /\ l2 >= 2 /\ l2 <= h - 2
<1>1. CASE sec BY <1>1
<1>2. CASE ~sec BY <1>2
<1> QED BY <1>1, <1>2

(* One line more.                                                           *)
LEMMA OneMore ==
    ASSUME NEW w \in Nat, NEW n \in Nat
    PROVE  {w * k : k \in 0 .. n - 1} \cup {w * n} = {w * k : k \in 0 .. n}
<1>1. \A k : k \in 0 .. n <=> (k \in 0 .. n - 1 \/ k = n) OBVIOUS
<1> QED BY <1>1, Zenon
(* One line before.                                                         *)
LEMMA OneBefore ==
    ASSUME NEW w \in Nat, NEW n \in Nat, NEW m \in Nat, n <= m
    PROVE  {w * k : k \in n + 1 .. m} \cup {w * n} = {w * k : k \in n .. m}
<1>1. \A k : k \in n .. m <=> (k \in n + 1 .. m \/ k = n) OBVIOUS
<1> QED BY <1>1, Zenon

(* A C function goes on to the next line.                                   *)
LEMMA GoesDown ==
    ASSUME DrawInv, fn \in {"fast", "ar"},
           job' = job /\ api' = api /\ second' = ~second /\ filled' = filled \cup {dst},
           y' = IF second THEN y - 2 ELSE y, fn' = IF second /\ y = 2 THEN "idle" ELSE fn,
           src' = src + job.dim_x, dst' = dst + job.ww,
           LineRight(job, ArMode, out'), fn = "fast" => Alternates(out')
    PROVE  DrawInv'
<1>1. JobOk(job) /\ second \in BOOLEAN /\ Downwards /\ api = "c"
      /\ (fn = "fast" => job.mode % 32 \in {0, 2, 3}) /\ (fn = "ar" => job.mode % 32 = 1)
  BY Zenon DEF DrawInv
<1>2. PICK h \in Nat, w \in Nat : h = job.wh /\ w = job.ww /\ h % 2 = 0 BY <1>1, Zenon DEF JobOk
<1>3. PICK l \in Nat : l = y /\ l % 2 = 0 /\ l >= 2 /\ l <= h - 2 BY <1>1, <1>2, Zenon DEF Downwards, Paired
<1>4. PICK n : n = (h - 2 - l) + (IF second THEN 1 ELSE 0) OBVIOUS
<1>5. PICK l2 : l2 = IF second THEN l - 2 ELSE l OBVIOUS
<1>6. /\ n \in 0 .. h - 3 /\ n + 1 = (h - 2 - l2) + (IF ~second THEN 1 ELSE 0)
      /\ IF second /\ l = 2 THEN n = h - 3 ELSE l2 \in Nat /\ l2 % 2 = 0 /\ l2 >= 2 /\ l2 <= h - 2
  BY <1>1, <1>2, <1>3, <1>4, <1>5, Counting
<1>7. n \in Nat /\ (n + 1) - 1 = n BY <1>2, <1>6
<1>8. LinesDone = n
  <2>1. fn # "bw" OBVIOUS
  <2> QED BY <1>2, <1>3, <1>4, <2>1, Zenon DEF LinesDone
<1>9. src = At(job, n, 0) /\ dst = w * n /\ filled = {w * k : k \in 0 .. n - 1}
  BY <1>1, <1>2, <1>8, Zenon DEF Downwards, Beginnings
<1>10. src' = At(job, n + 1, 0) /\ dst' = w * (n + 1) /\ filled' = {w * k : k \in 0 .. n}
  <2>1. 0 \in Int /\ 1 \in Nat OBVIOUS
  <2>2. At(job, n + 1, 0) = At(job, n, 0) + 1 * job.dim_x BY <1>1, <1>7, <2>1, Below
  <2>3. 1 * job.dim_x = job.dim_x BY <1>1 DEF JobOk
  <2>4. w * (n + 1) = w * n + w BY <1>7
  <2>5. filled' = {w * k : k \in 0 .. n} BY <1>7, <1>9, OneMore
  <2> QED BY <1>2, <1>9, <2>2, <2>3, <2>4, <2>5, Zenon
<1>11. CASE second /\ l = 2
  <2>1. fn' = "idle" BY <1>3, <1>11
  <2>2. Lines' = h - 2
    <3>1. job.mode % 32 # 4 BY <1>1
    <3> QED BY <1>2, <3>1, Zenon DEF Lines
  <2>3. n = Lines' - 1 BY <1>2, <1>6, <1>11, <2>2
  <2>4. filled' = Beginnings(0, Lines - 1)' BY <1>2, <1>10, <2>3, Zenon DEF Beginnings
  <2>5. second' \in BOOLEAN OBVIOUS
  <2>6. LineRight(job, ArMode, out)' BY Zenon DEF ArMode
  <2> QED BY <1>1, <2>1, <2>4, <2>5, <2>6 DEF DrawInv
<1>12. CASE ~(second /\ l = 2)
  <2>1. fn' = fn BY <1>3, <1>12
  <2>2. Paired' BY <1>2, <1>3, <1>5, <1>6, <1>12 DEF Paired
  <2>3. LinesDone' = n + 1
    <3>1. fn' # "bw" /\ second' = ~second /\ y' = l2 /\ job'.wh = h BY <1>2, <1>3, <1>5, <2>1
    <3> QED BY <1>6, <3>1, Zenon DEF LinesDone
  <2>4. filled' = Beginnings(0, LinesDone - 1)' BY <1>2, <1>7, <1>10, <2>3, Zenon DEF Beginnings
  <2>5. src' = At(job', LinesDone', 0) /\ dst' = job'.ww * LinesDone' BY <1>2, <1>10, <2>3, Zenon
  <2>6. Downwards' BY <2>2, <2>4, <2>5, Zenon DEF Downwards
  <2>7. second' \in BOOLEAN OBVIOUS
  <2>8. LineRight(job, ArMode, out)' BY Zenon DEF ArMode
  <2> QED BY <1>1, <2>1, <2>6, <2>7, <2>8 DEF DrawInv
<1> QED BY <1>11, <1>12

(* Odd and even, from the other end.                                        *)
LEMMA FromTheEnd ==
    ASSUME NEW h \in Nat, h % 2 = 0, h >= 4
    PROVE  /\ h - 2 \in Nat /\ (h - 2) % 2 = 0
           /\ \A n \in 0 .. h - 3 : (h - 3 - n) % 2 = 1 - (n % 2)
OBVIOUS
(* Where the line before begins.                                            *)
LEMMA LineBefore == \A w \in Nat, z \in Int : w * (z - 1) = w * z - w
OBVIOUS

(* The C functions keep the invariant.                                      *)
LEMMA DownKeeps ==
    ASSUME DrawInv, FastLine \/ ArLine
    PROVE  DrawInv'
<1>1. fn \in {"fast", "ar"} BY DEF FastLine, ArLine
<1>2. /\ JobOk(job) /\ second \in BOOLEAN /\ Downwards /\ api = "c"
      /\ (fn = "fast" => job.mode % 32 \in {0, 2, 3}) /\ (fn = "ar" => job.mode % 32 = 1)
  BY <1>1, Zenon DEF DrawInv
<1>3. PICK h \in Nat, w \in Nat, x \in Nat : h = job.wh /\ w = job.ww /\ x = job.dim_x /\ h % 2 = 0
  BY <1>2, Zenon DEF JobOk
<1>4. PICK l \in Nat : l = y /\ l % 2 = 0 /\ l >= 2 /\ l <= h - 2 BY <1>2, <1>3, Zenon DEF Downwards, Paired
<1>5. PICK n : n = (h - 2 - l) + (IF second THEN 1 ELSE 0) OBVIOUS
<1>6. n \in 0 .. h - 3 /\ (IF second THEN n % 2 = 1 ELSE n % 2 = 0)
  BY <1>2, <1>3, <1>4, <1>5, Counting
<1>7. n \in Nat BY <1>3, <1>6
<1>8. LinesDone = n
  <2>1. fn # "bw" BY <1>1
  <2> QED BY <1>3, <1>4, <1>5, <2>1, Zenon DEF LinesDone
<1>9. src = At(job, n, 0) /\ dst = job.ww * n /\ Line = 1 + (n % 2)
  <2>1. src = At(job, n, 0) /\ dst = job.ww * n BY <1>2, <1>8, Zenon DEF Downwards
  <2>2. Line = 1 + (n % 2) BY <1>6 DEF Line
  <2> QED BY <2>1, <2>2
<1>10. src \in Int
  <2>1. 0 \in Int OBVIOUS
  <2>2. At(job, n, 0) \in Int BY <1>2, <1>7, <2>1, Beside
  <2> QED BY <1>9, <2>2
<1>11. /\ job' = job /\ api' = api /\ second' = ~second /\ filled' = filled \cup {dst}
       /\ y' = (IF second THEN y - 2 ELSE y) /\ fn' = IF second /\ y = 2 THEN "idle" ELSE fn
       /\ dst' = dst + job.ww
  BY Zenon DEF FastLine, ArLine, Written
<1>12. src' = src + job.dim_x
  <2>1. CASE ArLine BY <2>1, Zenon DEF ArLine
  <2>2. CASE FastLine
    <3>1. src' = src + (w - 2) + (2 + (x - w)) BY <1>3, <2>2, Zenon DEF FastLine, Remain
    <3> QED BY <1>3, <1>10, <3>1
  <2> QED BY <2>1, <2>2
<1>13. LineRight(job, ArMode, out')
  <2>1. CASE FastLine
    <3>1. fn = "fast" /\ job.mode % 32 \in {0, 2, 3} BY <1>2, <2>1 DEF FastLine
    <3>2. ArMode = FALSE BY <3>1 DEF ArMode
    <3>3. LineRight(job, FALSE, out') BY <1>2, <1>7, <1>9, <2>1, <3>1, FastLineRight
    <3> QED BY <3>2, <3>3
  <2>2. CASE ArLine
    <3>1. fn = "ar" /\ job.mode % 32 = 1 BY <1>2, <2>2 DEF ArLine
    <3>2. ArMode = TRUE BY <1>2, <3>1 DEF ArMode
    <3>3. LineRight(job, TRUE, out') BY <1>2, <1>7, <1>9, <2>2, <3>1, ArLineRight
    <3> QED BY <3>2, <3>3
  <2> QED BY <2>1, <2>2
<1>14. ASSUME fn = "fast" PROVE Alternates(out')
  <2>1. FastLine BY <1>14 DEF ArLine
  <2> QED BY <1>2, <2>1, FastAlternates
<1> QED BY <1>1, <1>11, <1>12, <1>13, <1>14, GoesDown

(* The SSE2 and MMX functions keep it.                                      *)
LEMMA UpKeeps ==
    ASSUME DrawInv, VecLine
    PROVE  DrawInv'
<1>1. fn \in {"sse", "mmx"} BY Zenon DEF VecLine
<1>2. /\ JobOk(job) /\ second \in BOOLEAN /\ Upwards /\ api = fn /\ job.mode % 32 \in 0 .. 3
  BY <1>1, Zenon DEF DrawInv
<1>3. PICK h \in Nat, w \in Nat : h = job.wh /\ w = job.ww /\ h % 2 = 0 BY <1>2, Zenon DEF JobOk
<1>4. PICK l \in Nat : l = y /\ l % 2 = 0 /\ l >= 2 /\ l <= h - 2 BY <1>2, <1>3, Zenon DEF Upwards, Paired
<1>5. PICK n : n = (h - 2 - l) + (IF second THEN 1 ELSE 0) OBVIOUS
<1>6. PICK l2 : l2 = IF second THEN l - 2 ELSE l OBVIOUS
<1>7. /\ n \in 0 .. h - 3 /\ (IF second THEN n % 2 = 1 ELSE n % 2 = 0)
      /\ n + 1 = (h - 2 - l2) + (IF ~second THEN 1 ELSE 0)
      /\ IF second /\ l = 2 THEN n = h - 3 ELSE l2 \in Nat /\ l2 % 2 = 0 /\ l2 >= 2 /\ l2 <= h - 2
  BY <1>2, <1>3, <1>4, <1>5, <1>6, Counting
<1>8. PICK k \in Nat : k = h - 3 - n BY <1>3, <1>7
<1>9. /\ k + 1 = h - 2 - n /\ k % 2 = 1 - (n % 2) /\ k <= h - 3 /\ h - 3 \in Nat /\ n \in Nat
      /\ h - 2 - (n + 1) = k /\ h - 3 - (n + 1) = k - 1 /\ k = (k - 1) + 1
  <2>1. k % 2 = 1 - (n % 2)
    <3>1. h >= 4 BY <1>4
    <3> QED BY <1>3, <1>7, <1>8, <3>1, FromTheEnd, Zenon
  <2>2. n \in 0 .. h - 3 BY <1>7
  <2>3. /\ k + 1 = h - 2 - n /\ k <= h - 3 /\ h - 3 \in Nat /\ n \in Nat
        /\ h - 2 - (n + 1) = k /\ h - 3 - (n + 1) = k - 1 /\ k = (k - 1) + 1
    <3>1. \A z \in Nat, m \in Nat : z = h - 3 - m =>
            /\ z + 1 = h - 2 - m /\ z <= h - 3 /\ h - 3 \in Nat
            /\ h - 2 - (m + 1) = z /\ h - 3 - (m + 1) = z - 1 /\ z = (z - 1) + 1
      OBVIOUS
    <3>2. n \in Nat BY <2>2
    <3> QED BY <1>8, <3>1, <3>2, Zenon
  <2> QED BY <2>1, <2>3, Zenon
<1>10. LinesDone = n
  <2>1. fn # "bw" BY <1>1
  <2> QED BY <1>3, <1>4, <1>5, <2>1, Zenon DEF LinesDone
<1>11. src = At(job, k + 1, 0) + job.ww /\ dst = job.ww * k /\ filled = {w * z : z \in k + 1 .. h - 3}
  BY <1>2, <1>3, <1>8, <1>9, <1>10, Zenon DEF Upwards, Beginnings
<1>12. Line = 2 - (k % 2) BY <1>7, <1>9 DEF Line
<1>13. /\ LineRight(job, FALSE, out') /\ Alternates(out')
       /\ src' = At(job, k, 0) + job.ww
  <2>1. /\ JobOk(job) /\ k \in Nat /\ src = At(job, k + 1, 0) + job.ww /\ dst = job.ww * k
        /\ Line = 2 - (k % 2) /\ job.mode % 32 \in 0 .. 3 /\ VecLine
    BY <1>2, <1>11, <1>12
  <2> QED BY <2>1, VecLineRight, Zenon
<1>14. /\ job' = job /\ api' = api /\ second' = ~second /\ filled' = filled \cup {dst}
       /\ y' = (IF second THEN y - 2 ELSE y) /\ fn' = IF second /\ y = 2 THEN "idle" ELSE fn
       /\ dst' = dst - job.ww
  BY Zenon DEF VecLine, Written
<1>15. dst' = w * (k - 1)
  <2>1. w * (k - 1) = w * k - w
    <3>1. k \in Int BY <1>8
    <3> QED BY <1>3, <3>1, LineBefore, Zenon
  <2> QED BY <1>3, <1>11, <1>14, <2>1
<1>16. filled' = {w * z : z \in k .. h - 3}
  <2>1. {w * z : z \in k + 1 .. h - 3} \cup {w * k} = {w * z : z \in k .. h - 3} BY <1>9, OneBefore
  <2> QED BY <1>3, <1>11, <1>14, <2>1, Zenon
<1>17. LineRight(job', ArMode', out')
  <2>1. ArMode' = FALSE BY <1>1, <1>2, <1>14 DEF ArMode
  <2> QED BY <1>13, <1>14, <2>1
<1>18. second' \in BOOLEAN BY <1>14
<1>19. CASE second /\ l = 2
  <2>1. fn' = "idle" BY <1>4, <1>14, <1>19
  <2>2. Lines' = h - 2
    <3>1. job'.mode % 32 # 4 BY <1>2, <1>14
    <3> QED BY <1>3, <1>14, <3>1, Zenon DEF Lines
  <2>3. h - 3 = Lines' - 1 /\ k = 0 BY <1>3, <1>7, <1>8, <1>19, <2>2
  <2>4. filled' = Beginnings(0, Lines - 1)' BY <1>3, <1>14, <1>16, <2>3, Zenon DEF Beginnings
  <2> QED BY <1>2, <1>14, <1>17, <1>18, <2>1, <2>4 DEF DrawInv
<1>20. CASE ~(second /\ l = 2)
  <2>1. fn' = fn BY <1>4, <1>14, <1>20
  <2>2. Paired' BY <1>3, <1>4, <1>6, <1>7, <1>14, <1>20 DEF Paired
  <2>3. LinesDone' = n + 1
    <3>1. fn' # "bw" /\ second' = ~second /\ y' = l2 /\ job'.wh = h BY <1>1, <1>3, <1>4, <1>6, <1>14, <2>1
    <3> QED BY <1>7, <3>1, Zenon DEF LinesDone
  <2>4. filled' = Beginnings(job.wh - 2 - LinesDone, job.wh - 3)'
    BY <1>3, <1>9, <1>14, <1>16, <2>3, Zenon DEF Beginnings
  <2>5. src' = At(job', job'.wh - 2 - LinesDone', 0) + job'.ww BY <1>3, <1>9, <1>13, <1>14, <2>3, Zenon
  <2>6. dst' = job'.ww * (job'.wh - 3 - LinesDone') BY <1>3, <1>9, <1>14, <1>15, <2>3, Zenon
  <2>7. Upwards' BY <2>2, <2>4, <2>5, <2>6, Zenon DEF Upwards
  <2> QED BY <1>1, <1>2, <1>13, <1>14, <1>17, <1>18, <2>1, <2>7 DEF DrawInv
<1> QED BY <1>19, <1>20

(* BWto422 keeps it.                                                        *)
LEMMA BwKeeps ==
    ASSUME DrawInv, BWto422
    PROVE  DrawInv'
<1>1. fn = "bw" BY DEF BWto422
<1>2. JobOk(job) /\ second \in BOOLEAN /\ Everywhere /\ job.mode % 32 = 4 BY <1>1 DEF DrawInv
<1>3. PICK h \in Nat, w \in Nat : h = job.wh /\ w = job.ww BY <1>2, Zenon DEF JobOk
<1>4. PICK l \in 1 .. h : l = y BY <1>2, <1>3, Zenon DEF Everywhere
<1>5. PICK n \in Nat : n = h - l BY <1>3
<1>6. LinesDone = n BY <1>1, <1>3, <1>4, <1>5, Zenon DEF LinesDone
<1>7. (n + 1) - 1 = n /\ h - (l - 1) = n + 1 BY <1>3, <1>5
<1>8. dst = w * n /\ filled = {w * k : k \in 0 .. n - 1} BY <1>2, <1>3, <1>6, Zenon DEF Everywhere, Beginnings
<1>9. /\ job' = job /\ second' = second /\ filled' = filled \cup {dst} /\ dst' = dst + job.ww
      /\ y' = y - 1 /\ fn' = IF y = 1 THEN "idle" ELSE fn
  BY Zenon DEF BWto422
<1>10. dst' = w * (n + 1) /\ filled' = {w * k : k \in 0 .. n}
  <2>1. w * (n + 1) = w * n + w BY <1>3, <1>5
  <2>2. {w * k : k \in 0 .. n - 1} \cup {w * n} = {w * k : k \in 0 .. n} BY OneMore
  <2> QED BY <1>3, <1>8, <1>9, <2>1, <2>2, Zenon
<1>11. ~(job'.mode % 32 < 4) BY <1>2, <1>9
<1>12. CASE l = 1
  <2>1. fn' = "idle" BY <1>4, <1>9, <1>12
  <2>2. Lines' = h BY <1>2, <1>3, <1>9, Zenon DEF Lines
  <2>3. Lines' - 1 = n BY <1>3, <1>5, <1>12, <2>2
  <2>4. filled' = Beginnings(0, Lines - 1)' BY <1>3, <1>9, <1>10, <2>3, Zenon DEF Beginnings
  <2> QED BY <1>2, <1>9, <1>11, <2>1, <2>4 DEF DrawInv
<1>13. CASE l # 1
  <2>1. fn' = "bw" BY <1>1, <1>4, <1>9, <1>13
  <2>2. l - 1 \in 1 .. h BY <1>13
  <2>3. LinesDone' = n + 1 BY <1>3, <1>4, <1>7, <1>9, <2>1, Zenon DEF LinesDone
  <2>4. filled' = Beginnings(0, LinesDone - 1)' BY <1>3, <1>7, <1>9, <1>10, <2>3, Zenon DEF Beginnings
  <2>5. Everywhere' BY <1>3, <1>4, <1>9, <1>10, <2>2, <2>3, <2>4, Zenon DEF Everywhere
  <2> QED BY <1>2, <1>9, <1>11, <2>1, <2>5 DEF DrawInv
<1> QED BY <1>12, <1>13

(* A line without pixels is right.                                          *)
LEMMA Blank ==
    ASSUME NEW j, NEW far, NEW o, o.px = <<>>
    PROVE  LineRight(j, far, o) /\ Alternates(o)
<1>1. DOMAIN o.px = {} OBVIOUS
<1> QED BY <1>1, Zenon DEF LineRight, Alternates

(* A call begins.                                                           *)
LEMMA StartKeeps ==
    ASSUME DrawInv, NEW j, JobOk(j), debayerRGB_fast(j)
    PROVE  DrawInv'
<1>1. job' = j /\ second' = FALSE /\ filled' = {} /\ out' = [at |-> 0, px |-> <<>>] BY Zenon DEF debayerRGB_fast
<1>2. api' \in {"c", "sse", "mmx"}
  <2>1. PICK probe : api' = TableOf(j, probe) BY DEF debayerRGB_fast
  <2> QED BY <2>1 DEF TableOf
<1>3. PICK o : o = out' OBVIOUS
<1>4. o.px = <<>> BY <1>1, <1>3
<1>5. LineRight(job', ArMode', o) /\ Alternates(o) BY <1>4, Blank
<1>6. LineRight(job', ArMode', out') /\ Alternates(out') BY <1>3, <1>5
<1>7. PICK h \in Nat, w \in Nat, x \in Nat : h = j.wh /\ w = j.ww /\ x = j.dim_x /\ h % 2 = 0 /\ h >= 4
  BY DEF JobOk
<1>8. j.mode % 32 \in 0 .. 31 BY DEF JobOk
<1>9. h - 2 \in Nat /\ (h - 2) % 2 = 0 /\ h - 2 >= 2 /\ h - 2 <= h - 2 /\ h - 2 - (h - 2) + 0 = 0
  <2>1. h - 2 \in Nat /\ (h - 2) % 2 = 0 BY <1>7, FromTheEnd, Zenon
  <2>2. h >= 4 BY <1>7
  <2>3. h - 2 >= 2 /\ h - 2 <= h - 2 /\ h - 2 - (h - 2) + 0 = 0 BY <2>2
  <2> QED BY <2>1, <2>3, Zenon
<1>10. second' \in BOOLEAN /\ JobOk(job') BY <1>1
<1>11. ASSUME fn' # "bw", y' = h - 2 PROVE Paired' /\ LinesDone' = 0
  <2>1. Paired' BY <1>1, <1>7, <1>9, <1>11, Zenon DEF Paired
  <2>2. LinesDone' = (h - 2 - (h - 2)) + 0 BY <1>1, <1>7, <1>11, Zenon DEF LinesDone
  <2> QED BY <1>9, <2>1, <2>2
<1>12. Beginnings(0, 0 - 1)' = {}
  <2>1. 0 .. 0 - 1 = {} OBVIOUS
  <2> QED BY <2>1, Zenon DEF Beginnings
<1>13. CASE /\ j.mode % 32 \in 0 .. 3 /\ api' = "c"
            /\ fn' = IF j.mode % 32 = 1 THEN "ar" ELSE "fast"
            /\ y' = j.wh - 2 /\ src' = TopLeft(j) /\ dst' = 0
  <2>1. fn' \in {"fast", "ar"} /\ fn' # "bw" BY <1>13
  <2>2. Paired' /\ LinesDone' = 0 BY <1>7, <1>11, <1>13, <2>1
  <2>3. src' = At(job', 0, 0)
    <3>1. At(j, 0, 0) = TopLeft(j) BY DEF At, TopLeft, JobOk
    <3> QED BY <1>1, <1>13, <3>1
  <2>4. dst' = job'.ww * 0 BY <1>1, <1>7, <1>13
  <2>5. Downwards' BY <1>1, <1>12, <2>2, <2>3, <2>4, Zenon DEF Downwards
  <2>6. (fn' = "fast" => j.mode % 32 \in {0, 2, 3}) /\ (fn' = "ar" => j.mode % 32 = 1) BY <1>13
  <2> QED BY <1>1, <1>6, <1>10, <1>13, <2>1, <2>5, <2>6 DEF DrawInv
<1>14. CASE /\ j.mode % 32 \in 0 .. 3 /\ api' # "c" /\ fn' = api'
            /\ y' = j.wh - 2 /\ src' = EndOfRows(j) /\ dst' = j.ww * (j.wh - 2) - j.ww
  <2>1. fn' \in {"sse", "mmx"} /\ fn' # "bw" BY <1>2, <1>14
  <2>2. Paired' /\ LinesDone' = 0 BY <1>7, <1>11, <1>14, <2>1
  <2>3. h - 2 - 0 = h - 2 /\ h - 3 - 0 = h - 3 /\ h - 2 .. h - 3 = {} BY <1>7
  <2>4. src' = At(job', h - 2, 0) + job'.ww
    <3>1. At(j, h - 2, 0) + j.ww = EndOfRows(j)
      <4>1. PICK q \in Nat, s \in Nat : q = j.starty /\ s = j.startx BY Zenon DEF JobOk
      <4>2. h + q - 2 = q + (h - 2) BY <1>7
      <4>3. x * (q + (h - 2)) \in Int BY <1>7
      <4>4. EndOfRows(j) = x * (q + (h - 2)) + s + w BY <1>7, <4>1, <4>2, Zenon DEF EndOfRows
      <4>5. At(j, h - 2, 0) = x * (q + (h - 2)) + (s + 0) BY <1>7, <4>1, Zenon DEF At
      <4> QED BY <1>7, <4>1, <4>3, <4>4, <4>5
    <3> QED BY <1>1, <1>14, <3>1
  <2>5. dst' = job'.ww * (h - 3)
    <3>0. h - 2 \in Int /\ (h - 2) - 1 = h - 3 BY <1>7
    <3>1. w * (h - 3) = w * (h - 2) - w BY <3>0, LineBefore
    <3> QED BY <1>1, <1>7, <1>14, <3>1
  <2>6. filled' = Beginnings(h - 2, h - 3)' BY <1>1, <2>3, Zenon DEF Beginnings
  <2>7. Upwards' BY <1>1, <1>7, <2>2, <2>3, <2>4, <2>5, <2>6, Zenon DEF Upwards
  <2> QED BY <1>1, <1>6, <1>10, <1>14, <2>1, <2>7 DEF DrawInv
<1>15. CASE j.mode % 32 = 4 /\ fn' = "bw" /\ y' = j.wh /\ src' = TopLeft(j) /\ dst' = 0
  <2>1. LinesDone' = h - h BY <1>1, <1>7, <1>15, Zenon DEF LinesDone
  <2>2. h - h = 0 /\ h \in 1 .. h /\ w * 0 = 0 BY <1>7
  <2>3. Everywhere' BY <1>1, <1>7, <1>12, <1>15, <2>1, <2>2, Zenon DEF Everywhere
  <2>4. ~(job'.mode % 32 < 4) BY <1>1, <1>15
  <2> QED BY <1>1, <1>10, <1>15, <2>3, <2>4 DEF DrawInv
<1>16. CASE j.mode % 32 > 4 /\ fn' = "exited"
  <2>0. ~(j.mode % 32 < 4) BY <1>8, <1>16
  <2>1. ~(job'.mode % 32 < 4) BY <1>1, <2>0
  <2> QED BY <1>1, <1>10, <1>16, <2>1 DEF DrawInv
<1> QED BY <1>13, <1>14, <1>15, <1>16, Zenon DEF debayerRGB_fast

----------------------------------------------------------------------------
(* The pictures                                                             *)

(* The window that is shown is one of the scenario's.                       *)
Drawing == scenario \in Scenarios /\ window \in scenario.jobs /\ DrawInv

(* The jobs of a scenario are calls the functions can serve.                *)
LEMMA JobsOk ==
    ASSUME NEW s \in Scenarios, NEW j \in s.jobs
    PROVE  JobOk(j)
<1>1. j \in Jobs BY ViewerAssumption
<1>2. /\ j.mode \in Int /\ j.dim_x \in Nat /\ j.dim_y \in Nat
      /\ j.ww \in Nat /\ j.wh \in Nat /\ j.ww % 2 = 0 /\ j.wh % 2 = 0
      /\ j.ww >= 4 /\ j.wh >= 4
      /\ j.startx \in 0 .. j.dim_x - j.ww /\ j.starty \in 0 .. j.dim_y - j.wh
  BY <1>1, DebayerAssumption, Zenon
<1>3. \A a, b, c \in Nat : a \in 0 .. b - c => a \in Nat /\ a + c <= b OBVIOUS
<1>4. j.startx \in Nat /\ j.startx + j.ww <= j.dim_x
  <2>1. PICK a, b, c : a = j.startx /\ b = j.dim_x /\ c = j.ww OBVIOUS
  <2>2. a \in 0 .. b - c /\ b \in Nat /\ c \in Nat BY <1>2, <2>1, Zenon
  <2>3. a \in Nat /\ a + c <= b BY <2>2
  <2> QED BY <2>1, <2>3, Zenon
<1>5. j.starty \in Nat
  <2>1. PICK a, b, c : a = j.starty /\ b = j.dim_y /\ c = j.wh OBVIOUS
  <2>2. a \in 0 .. b - c /\ b \in Nat /\ c \in Nat BY <1>2, <2>1, Zenon
  <2>3. a \in Nat BY <2>2
  <2> QED BY <2>1, <2>3, Zenon
<1> QED BY <1>2, <1>4, <1>5, Zenon DEF JobOk

(* Nothing is drawn at first.                                               *)
LEMMA DrawingBegins == ViewerInit => Drawing
<1> SUFFICES ASSUME ViewerInit PROVE Drawing
  OBVIOUS
<1>1. /\ job = [mode |-> 0, dim_x |-> 4, dim_y |-> 4, startx |-> 0, starty |-> 0, ww |-> 4, wh |-> 4]
      /\ fn = "idle" /\ second = FALSE /\ filled = {} /\ out = [at |-> 0, px |-> <<>>]
      /\ scenario \in Scenarios /\ window \in scenario.jobs
  BY Zenon DEF ViewerInit, DebayerInit
<1>2. JobOk(job)
  <2>1. /\ job.mode = 0 /\ job.dim_x = 4 /\ job.startx = 0 /\ job.starty = 0 /\ job.ww = 4 /\ job.wh = 4
    BY <1>1
  <2> QED BY <2>1 DEF JobOk
<1>3. out.px = <<>> BY <1>1
<1>4. LineRight(job, ArMode, out) BY <1>3, Blank
<1> QED BY <1>1, <1>2, <1>4 DEF Drawing, DrawInv

(* What is drawn stays right where nothing is drawn.                        *)
LEMMA DrawingStays ==
    ASSUME Drawing, UNCHANGED debayerVars, scenario' = scenario, window' \in scenario.jobs
    PROVE  Drawing'
BY DEF Drawing, debayerVars, DrawInv, Downwards, Upwards, Everywhere, Paired, LinesDone, Beginnings, Lines, ArMode

(* The end of the process forgets the picture.                              *)
LEMMA DrawingForgotten ==
    ASSUME Drawing, Exit
    PROVE  Drawing'
<1>1. /\ scenario' = scenario /\ fn' = "idle" /\ second' = FALSE /\ filled' = {}
      /\ out' = [at |-> 0, px |-> <<>>] /\ job' = window'
      /\ window' = CHOOSE j \in scenario.jobs : TRUE
  BY Zenon DEF Exit
<1>2. scenario \in Scenarios /\ window \in scenario.jobs BY Zenon DEF Drawing
<1>3. window' \in scenario.jobs BY <1>1, <1>2, Zenon
<1>4. JobOk(job') BY <1>1, <1>2, <1>3, JobsOk
<1>5. PICK o : o = out' OBVIOUS
<1>6. o.px = <<>> BY <1>1, <1>5
<1>7. LineRight(job', ArMode', o) BY <1>6, Blank
<1> QED BY <1>1, <1>2, <1>3, <1>4, <1>5, <1>7 DEF Drawing, DrawInv

(* Every step keeps the invariant.                                          *)
LEMMA DrawingKept == Drawing /\ [ViewerNext]_viewerVars => Drawing'
<1> SUFFICES ASSUME Drawing, [ViewerNext]_viewerVars PROVE Drawing'
  OBVIOUS
<1>1. scenario \in Scenarios /\ window \in scenario.jobs /\ DrawInv BY Zenon DEF Drawing
<1>2. CASE StartPicture
  <2>1. debayerRGB_fast(window) /\ scenario' = scenario /\ window' = window BY <1>2, Zenon DEF StartPicture
  <2>2. JobOk(window) BY <1>1, JobsOk
  <2>3. DrawInv' BY <1>1, <2>1, <2>2, StartKeeps
  <2> QED BY <1>1, <2>1, <2>3, Zenon DEF Drawing
<1>3. CASE MakePicture
  <2>1. DebayerLine /\ scenario' = scenario /\ window' = window BY <1>3, Zenon DEF MakePicture
  <2>2. DrawInv' BY <1>1, <2>1, DownKeeps, UpKeeps, BwKeeps DEF DebayerLine
  <2> QED BY <1>1, <2>1, <2>2, Zenon DEF Drawing
<1>4. CASE Exit BY <1>4, DrawingForgotten
<1>5. CASE MoveWindow
  <2>1. UNCHANGED debayerVars /\ scenario' = scenario /\ window' \in scenario.jobs
    BY <1>5, Zenon DEF MoveWindow, dataVars
  <2> QED BY <2>1, DrawingStays
<1>6. CASE \/ Wake \/ ScriptReads \/ ScriptMakes \/ ScriptSends \/ ScriptWrites
           \/ cam4_dump_raw_frame \/ Unpack \/ write_raw_video \/ EndOfFrame
  <2>1. UNCHANGED debayerVars /\ scenario' = scenario /\ window' = window
    BY <1>6 DEF Wake, ScriptReads, ScriptMakes, ScriptSends, ScriptWrites, cam4_dump_raw_frame,
                Unpack, write_raw_video, EndOfFrame, dataVars
  <2> QED BY <1>1, <2>1, DrawingStays
<1>7. CASE CommandThread \/ WriteCommand \/ LaterParse \/ Library \/ UNCHANGED viewerVars
  <2>1. UNCHANGED debayerVars /\ scenario' = scenario /\ window' = window
    BY <1>7 DEF CommandThread, TakeCommand, parse_command, CommandMakes, CommandSends,
                 CommandStores, WriteCommand, LaterParse, Library, ViewOnly, dataVars, viewerVars
  <2> QED BY <1>1, <2>1, DrawingStays
<1> QED BY <1>2, <1>3, <1>4, <1>5, <1>6, <1>7 DEF ViewerNext, FrameThread

(* The invariant says what the properties do.                               *)
LEMMA ColoursShow == DrawInv => SamplesRight
<1> SUFFICES ASSUME DrawInv, job.mode % 32 < 4 PROVE SamplesRight
  BY DEF SamplesRight
<1>1. LineRight(job, ArMode, out) BY Zenon DEF DrawInv
<1>2. \A a : Row(job, a) = RowOf(a) /\ Col(job, a) = ColOf(a) BY Zenon DEF Row, Col, RowOf, ColOf
<1>3. \A i : NearestIn(job, i) = Nearest(i) BY Zenon DEF NearestIn, Nearest
<1>4. ASSUME NEW n \in DOMAIN out.px
      PROVE  /\ Coloration(out.px[n])
             /\ ~ArMode => \A a \in SitesOf(out.px[n]) : Near(a, n)
  <2>1. PICK px : px = out.px[n] OBVIOUS
  <2>2. ASSUME NEW a
        PROVE  ColourAt(a) = ColourIn(job, Row(job, a), Col(job, a))
    BY <1>2, Zenon DEF ColourAt, ColourIn
  <2>3. Coloration(px)
    <3>1. /\ \A a \in px.r : ColourAt(a) = "r"
          /\ \A a \in px.g : ColourAt(a) = "g"
          /\ \A a \in px.b : ColourAt(a) = "b"
      BY <1>1, <2>1, <2>2, Zenon DEF LineRight
    <3>2. px.c.at # {} BY <1>1, <2>1, Zenon DEF LineRight
    <3>3. ASSUME NEW a \in px.c.at PROVE ColourAt(a) = IF px.c.kind = "Cr" THEN "r" ELSE "b"
      <4>1. ColourIn(job, Row(job, a), Col(job, a))
            = IF px.c.kind = "Cr" THEN "r" ELSE "b"
        BY <1>1, <2>1, <3>3, Zenon DEF LineRight
      <4> QED BY <2>2, <4>1, Zenon
    <3> QED BY <3>1, <3>2, <3>3, Zenon DEF Coloration
  <2>4. ASSUME ~ArMode, NEW a \in SitesOf(px) PROVE Near(a, n)
    <3>1. a \in px.r \cup px.g \cup px.b \cup px.c.at BY <2>4, Zenon DEF SitesOf
    <3>2. /\ Row(job, a) \in (out.at \div job.ww) .. (out.at \div job.ww) + 2
          /\ Col(job, a) \in (NearestIn(job, n - 1) - 1) .. (NearestIn(job, n - 1) + 1)
      BY <1>1, <2>1, <2>4, <3>1, Zenon DEF LineRight
    <3> QED BY <1>2, <1>3, <3>2, Zenon DEF Near, LineNo
  <2> QED BY <2>1, <2>3, <2>4, Zenon
<1> QED BY <1>4, Zenon DEF SamplesRight

(* And of the lines that are written.                                       *)
LEMMA PictureShows == DrawInv => PictureFilled
<1> SUFFICES ASSUME DrawInv PROVE PictureFilled
  OBVIOUS
<1>1. JobOk(job) /\ second \in BOOLEAN BY Zenon DEF DrawInv
<1>2. PICK h \in Nat, w \in Nat : h = job.wh /\ w = job.ww /\ h % 2 = 0 /\ h >= 4 BY <1>1 DEF JobOk
<1>3. ASSUME fn \in {"fast", "ar", "sse", "mmx"}, Paired
      PROVE  LinesDone \in 0 .. h - 3
  <2>1. PICK l \in Nat : l = y /\ l % 2 = 0 /\ l >= 2 /\ l <= h - 2 BY <1>2, <1>3, Zenon DEF Paired
  <2>2. PICK n, l2 : n = (h - 2 - l) + (IF second THEN 1 ELSE 0) /\ l2 = IF second THEN l - 2 ELSE l OBVIOUS
  <2>3. n \in 0 .. h - 3 BY <1>1, <1>2, <2>1, <2>2, Counting
  <2>4. fn # "bw" BY <1>3
  <2>5. LinesDone = n BY <1>2, <2>1, <2>2, <2>4, Zenon DEF LinesDone
  <2> QED BY <2>3, <2>5
<1>4. filled \subseteq Beginnings(0, Lines - 1)
  <2>1. CASE fn \in {"fast", "ar"}
    <3>1. Downwards /\ job.mode % 32 # 4 BY <2>1 DEF DrawInv
    <3>2. LinesDone \in 0 .. h - 3 BY <1>3, <2>1, <3>1, Zenon DEF Downwards
    <3>3. Lines = h - 2 BY <1>2, <3>1, Zenon DEF Lines
    <3>4. \A k : k \in 0 .. LinesDone - 1 => k \in 0 .. Lines - 1 BY <3>2, <3>3
    <3>5. Beginnings(0, LinesDone - 1) \subseteq Beginnings(0, Lines - 1) BY <3>4, Zenon DEF Beginnings
    <3> QED BY <3>1, <3>5, Zenon DEF Downwards
  <2>2. CASE fn \in {"sse", "mmx"}
    <3>1. Upwards /\ job.mode % 32 # 4 BY <2>2 DEF DrawInv
    <3>2. LinesDone \in 0 .. h - 3 BY <1>3, <2>2, <3>1, Zenon DEF Upwards
    <3>3. Lines = h - 2 BY <1>2, <3>1, Zenon DEF Lines
    <3>4. \A k : k \in h - 2 - LinesDone .. h - 3 => k \in 0 .. Lines - 1 BY <3>2, <3>3
    <3>5. Beginnings(h - 2 - LinesDone, h - 3) \subseteq Beginnings(0, Lines - 1) BY <3>4, Zenon DEF Beginnings
    <3> QED BY <1>2, <3>1, <3>5, Zenon DEF Upwards
  <2>3. CASE fn = "bw"
    <3>1. Everywhere /\ job.mode % 32 = 4 BY <2>3 DEF DrawInv
    <3>2. y \in 1 .. h BY <1>2, <3>1, Zenon DEF Everywhere
    <3>3. Lines = h /\ LinesDone = h - y BY <1>2, <2>3, <3>1, Zenon DEF Lines, LinesDone
    <3>4. \A k : k \in 0 .. LinesDone - 1 => k \in 0 .. Lines - 1 BY <3>2, <3>3
    <3>5. Beginnings(0, LinesDone - 1) \subseteq Beginnings(0, Lines - 1) BY <3>4, Zenon DEF Beginnings
    <3> QED BY <3>1, <3>5, Zenon DEF Everywhere
  <2>4. CASE fn \in {"idle", "exited"} BY <2>4, Zenon DEF DrawInv
  <2>5. fn \in {"idle", "fast", "ar", "sse", "mmx", "bw", "exited"} BY Zenon DEF DrawInv
  <2> QED BY <2>1, <2>2, <2>3, <2>4, <2>5
<1>5. fn = "idle" /\ filled # {} => filled = Beginnings(0, Lines - 1) BY Zenon DEF DrawInv
<1>6. fn \in {"fast", "sse", "mmx"} => Alternates(out) BY Zenon DEF DrawInv
<1> QED BY <1>4, <1>5, <1>6, Zenon DEF PictureFilled, Beginnings, Alternates

(* Every pixel is made from samples of the colour it takes them for, and,   *)
(* but for debayerRGB_ar_mode1, from samples of its own place; and a call   *)
(* that has ended has written every line of the picture and nothing else,   *)
(* upwards or downwards, Cr and Cb in turn: for windows of every size and   *)
(* position, in every mode, in C, SSE2 and MMX (debayerRGB_fast and the     *)
(* functions of its tables).                                                *)
THEOREM PicturesAreRight == ViewerSpec => []PictureRight
<1>1. Drawing => PictureRight BY ColoursShow, PictureShows DEF Drawing, PictureRight
<1> QED BY <1>1, DrawingBegins, DrawingKept, PTL DEF ViewerSpec
=============================================================================
