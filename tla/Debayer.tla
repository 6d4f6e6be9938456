------------------------------ MODULE Debayer ------------------------------
(***************************************************************************)
(* debayerRGB_fast: the samples of the sensor, one colour each, become      *)
(* pixels of a YCbCr 4:2:2 picture.  The function is taken from a table:    *)
(* the C functions of cam4_ps.c, or the SSE2 or MMX functions of            *)
(* debayer_sse.c when the sizes are multiples of 16.                        *)
(* A step makes one line of the picture.  A pixel is described by the       *)
(* addresses of the samples it is made from: r, g and b are those that are  *)
(* weighted as red, green and blue in its luma, c those whose colour makes  *)
(* its chroma.                                                              *)
(***************************************************************************)
EXTENDS Integers, Sequences

CONSTANTS
    Jobs        \* the calls: mode, dimensions and window

(* debayerRGB_fast returns at once when a size is 0; its do-while loops     *)
(* count even sizes down to 0.                                              *)
ASSUME DebayerAssumption ==
    \A j \in Jobs :
        /\ j.mode \in Int /\ j.dim_x \in Nat /\ j.dim_y \in Nat
        /\ j.ww \in Nat /\ j.wh \in Nat /\ j.ww % 2 = 0 /\ j.wh % 2 = 0
        /\ j.ww >= 4 /\ j.wh >= 4
        /\ j.startx \in 0 .. j.dim_x - j.ww /\ j.starty \in 0 .. j.dim_y - j.wh

VARIABLES
    job,        \* the call that is served
    fn,         \* the kind of function that serves it: "idle", "fast", "ar",
                \* "sse", "mmx", "bw", or "exited"
    second,     \* whether the second line of a pair is next
    y,          \* lines left
    src,        \* where the line reads: for the C functions the sample above and
                \* to the left of its first, for the others the end of its upper row
    dst,        \* pixel of the picture where the line begins
    early_probe,\* arch_probe_fast_debayer: -1 until it has asked the processor
    api,        \* the table d_api: "c", "sse" or "mmx"
    out,        \* the line written last: where it begins and its pixels
    filled      \* beginnings of the lines written in this call

debayerVars == <<job, fn, second, y, src, dst, early_probe, api, out, filled>>

DebayerInit ==
    /\ job = [mode |-> 0, dim_x |-> 4, dim_y |-> 4, startx |-> 0, starty |-> 0,
              ww |-> 4, wh |-> 4]
    /\ fn = "idle" /\ second = FALSE /\ y = 0 /\ src = 0 /\ dst = 0
    /\ early_probe = -1 /\ api = "c"
    /\ out = [at |-> 0, px |-> <<>>] /\ filled = {}

Remain == job.dim_x - job.ww

----------------------------------------------------------------------------
(* Choosing the function.                                                   *)

(* check_mmx_sse2: nothing, SSE2 or MMX.  arch_probe_fast_debayer keeps the *)
(* answer to the first aligned call, and refuses the others.                *)
Aligned(j) == j.dim_x % 16 = 0 /\ j.startx % 16 = 0 /\ j.ww % 16 = 0
check_mmx_sse2 == {0, 1, 2}
arch_probe(j) == IF Aligned(j) /\ early_probe = -1 THEN check_mmx_sse2 ELSE {early_probe}
TableOf(j, probe) ==
    IF ~Aligned(j) \/ probe = 0 THEN "c" ELSE IF probe = 1 THEN "sse" ELSE "mmx"

(* The functions start at the top of the window, or from its end and one    *)
(* row higher than the last: they need the row below.                       *)
TopLeft(j) == j.dim_x * j.starty + j.startx
EndOfRows(j) == j.dim_x * (j.wh + j.starty - 2) + j.startx + j.ww

debayerRGB_fast(j) ==
    /\ fn = "idle"
    /\ job' = j /\ second' = FALSE /\ filled' = {} /\ out' = [at |-> 0, px |-> <<>>]
    /\ \E probe \in arch_probe(j) : early_probe' = probe /\ api' = TableOf(j, probe)
    /\ LET mode == j.mode % 32 IN
       \/ /\ mode \in 0 .. 3 /\ api' = "c"
          /\ fn' = IF mode = 1 THEN "ar" ELSE "fast"
          /\ y' = j.wh - 2 /\ src' = TopLeft(j) /\ dst' = 0
       \/ /\ mode \in 0 .. 3 /\ api' # "c"
          /\ fn' = api'
          /\ y' = j.wh - 2 /\ src' = EndOfRows(j) /\ dst' = j.ww * (j.wh - 2) - j.ww
       \/ /\ mode = 4
          /\ fn' = "bw" /\ y' = j.wh /\ src' = TopLeft(j) /\ dst' = 0
       \/ /\ mode > 4
          /\ fn' = "exited" /\ UNCHANGED <<y, src, dst>>

(* The line is written; after the second of a pair two lines less are left. *)
Written(px) ==
    /\ out' = [at |-> dst, px |-> px]
    /\ filled' = filled \cup {dst}
    /\ second' = ~second
    /\ y' = IF second THEN y - 2 ELSE y
    /\ fn' = IF second /\ y = 2 THEN "idle" ELSE fn
    /\ UNCHANGED <<job, early_probe, api>>

----------------------------------------------------------------------------
(* The C functions.                                                         *)

(* The samples a pixel of each kind is made from, around the sample at c;   *)
(* the rows are d apart.                                                    *)
Pixel(kind, c, d) ==
    LET sides == {c - 1, c + 1}
        ends == {c - d, c + d}
        corners == {c - d - 1, c - d + 1, c + d - 1, c + d + 1}
    IN  [G1 |-> [r |-> sides, g |-> {c}, b |-> ends],
         R  |-> [r |-> {c}, g |-> sides \cup ends, b |-> corners],
         B  |-> [r |-> corners, g |-> sides \cup ends, b |-> {c}],
         G2 |-> [r |-> ends, g |-> {c}, b |-> sides]][kind]

Coloured(px, kind) ==
    [r |-> px.r, g |-> px.g, b |-> px.b,
     c |-> [kind |-> kind, at |-> IF kind = "Cr" THEN px.r ELSE px.b]]

(* What the pixels of the two lines of a pair are made as, alternately.     *)
fast_mode0 == << <<"G1", "R">>, <<"B", "G2">> >>
fast_mode2 == << <<"B", "G2">>, <<"G1", "R">> >>
fast_mode3 == << <<"G2", "B">>, <<"R", "G1">> >>
FastKinds == [m \in {0, 2, 3} |->
    CASE m = 0 -> fast_mode0 [] m = 2 -> fast_mode2 [] OTHER -> fast_mode3]
Line == IF second THEN 2 ELSE 1

(* The pixels of the interior, left to right, with a copy of the first and  *)
(* of the last at the edges.  Nine pointers move together along the line,   *)
(* two more samples at its end and over what is outside the window.         *)
FastLine ==
    /\ fn = "fast" /\ y > 0
    /\ LET kinds == FastKinds[job.mode % 32][Line]
           At(i) == Pixel(kinds[1 + (i % 2)], src + job.dim_x + 1 + i, job.dim_x)
           last == job.ww - 3
           px == [n \in 1 .. job.ww |->
                    IF n = 1 THEN Coloured(At(0), "Cr")
                    ELSE IF n = job.ww THEN Coloured(At(last), "Cr")
                    ELSE Coloured(At(n - 2), IF n % 2 = 0 THEN "Cr" ELSE "Cb")]
       IN  Written(px)
    /\ src' = src + (job.ww - 2) + (2 + Remain)
    /\ dst' = dst + job.ww

(* debayerRGB_ar_mode1: three bytes wide, the elements its pointers count   *)
(* in make the rows lie three rows of the frame apart.  The last pixel of a *)
(* line has the chroma that was computed last: its own Cb on the first line *)
(* of a pair, the Cr of its neighbour on the second.                        *)
ar_mode1 == << <<"R", "G1">>, <<"G2", "B">> >>
ArLine ==
    /\ fn = "ar" /\ y > 0
    /\ LET d == 3 * job.dim_x
           At(i) == Pixel(ar_mode1[Line][1 + (i % 2)], src + d + 1 + i, d)
           last == job.ww - 3
           tail == IF second THEN [Coloured(At(last), "Cr") EXCEPT !.c.at = At(last - 1).r]
                   ELSE Coloured(At(last), "Cb")
           px == [n \in 1 .. job.ww |->
                    IF n = 1 THEN Coloured(At(0), "Cr")
                    ELSE IF n = job.ww THEN tail
                    ELSE Coloured(At(n - 2), IF n % 2 = 0 THEN "Cr" ELSE "Cb")]
       IN  Written(px)
    /\ src' = src + job.dim_x
    /\ dst' = dst + job.ww

(* BWto422: a sample is a luma, the chroma is neutral.  All lines are       *)
(* written.                                                                 *)
BWto422 ==
    /\ fn = "bw" /\ y > 0
    /\ out' = [at |-> dst,
               px |-> [n \in 1 .. job.ww |->
                        [r |-> {}, g |-> {src + n - 1}, b |-> {}, c |-> [kind |-> "none", at |-> {}]]]]
    /\ filled' = filled \cup {dst}
    /\ src' = src + job.dim_x /\ dst' = dst + job.ww
    /\ y' = y - 1 /\ fn' = IF y = 1 THEN "idle" ELSE fn
    /\ UNCHANGED <<job, second, early_probe, api>>

----------------------------------------------------------------------------
(* The SSE2 and MMX functions.  The picture is made from its end, a line in *)
(* blocks of lane samples from right to left.                               *)

(* One of the two line loops of such a function: whether the row with the   *)
(* red samples is the lower one of the two it reads (v_src_sec), the parity *)
(* of the columns with red in that row (the multipliers), how many samples  *)
(* to the right of a pixel its chroma is taken (the shifts), and where      *)
(* last_r points: a byte of the last block, and rows below v_src.           *)
Loop(lane, lower, red, shift, last_r, down) ==
    [lane |-> lane, lower |-> lower, red |-> red, shift |-> shift,
     last_r |-> last_r, down |-> down]

(* Fault: the second loop takes red from the row the first took it from.    *)
mode1_mmx_again   == Loop(8,  TRUE,  1, 0, 7,  2)
mode0_sse2_first  == Loop(16, TRUE,  0, 1, 14, 2)
mode0_sse2_second == Loop(16, FALSE, 0, 1, 14, 1)
mode2_sse2_first  == Loop(16, FALSE, 0, 1, 14, 1)
mode2_sse2_second == Loop(16, TRUE,  0, 1, 14, 2)
mode1_sse2_first  == Loop(16, TRUE,  1, 0, 15, 2)
mode1_sse2_second == Loop(16, FALSE, 1, 0, 15, 1)
mode3_sse2_first  == Loop(16, FALSE, 1, 0, 15, 1)
mode3_sse2_second == Loop(16, TRUE,  1, 0, 15, 2)
mode0_mmx_first   == Loop(8,  TRUE,  0, 1, 6,  2)
mode0_mmx_second  == Loop(8,  FALSE, 0, 1, 6,  1)
mode2_mmx_first   == Loop(8,  FALSE, 0, 1, 6,  1)
mode2_mmx_second  == Loop(8,  TRUE,  0, 1, 6,  2)
mode1_mmx_first   == Loop(8,  TRUE,  1, 0, 7,  2)
mode1_mmx_second  == Loop(8,  FALSE, 1, 0, 7,  1)
mode3_mmx_first   == Loop(8,  FALSE, 1, 0, 7,  1)
mode3_mmx_second  == Loop(8,  TRUE,  1, 0, 7,  2)
Loops == [sse |-> << <<mode0_sse2_first, mode0_sse2_second>>, <<mode1_sse2_first, mode1_sse2_second>>,
                     <<mode2_sse2_first, mode2_sse2_second>>, <<mode3_sse2_first, mode3_sse2_second>> >>,
          mmx |-> << <<mode0_mmx_first, mode0_mmx_second>>, <<mode1_mmx_first, mode1_mmx_second>>,
                     <<mode2_mmx_first, mode2_mmx_second>>, <<mode3_mmx_first, mode3_mmx_second>> >>]

(* A pixel is made from its sample, the next one and the two below them;    *)
(* the last of a line has nothing to its right, the carry starts as zero.   *)
(* The blocks hand the carry on.                                            *)
Block(loop, i) ==
    LET up == src - job.ww + i
        rgrow == IF loop.lower THEN up + job.dim_x ELSE up
        gbrow == IF loop.lower THEN up ELSE up + job.dim_x
        cols == IF i = job.ww - 1 THEN {0} ELSE {0, 1}
        Reds == {k \in cols : ((i % loop.lane) + k) % 2 = loop.red}
        row == IF i % 2 = 1 THEN rgrow ELSE gbrow
    IN  [r |-> {rgrow + k : k \in Reds},
         g |-> {rgrow + k : k \in cols \ Reds} \cup {gbrow + k : k \in Reds},
         b |-> {gbrow + k : k \in cols \ Reds},
         c |-> [kind |-> IF i % 2 = 1 THEN "Cr" ELSE "Cb",
                at |-> {row + k : k \in {loop.shift} \cap cols}]]

(* After the line its first pixel is overwritten with the second and the    *)
(* last with the one before, whose Cr is computed again from last_r.        *)
VecLine ==
    /\ fn \in {"sse", "mmx"} /\ y > 0
    /\ LET loop == Loops[fn][1 + (job.mode % 32)][Line]
           above == src - job.ww - Remain
           last_r == above - loop.lane + loop.last_r + loop.down * job.dim_x
           px == [n \in 1 .. job.ww |->
                    IF n = 1 THEN Block(loop, 1)
                    ELSE IF n = job.ww
                         THEN [Block(loop, job.ww - 2) EXCEPT !.c = [kind |-> "Cr", at |-> {last_r}]]
                    ELSE Block(loop, n - 1)]
       IN  Written(px) /\ src' = above
    /\ dst' = dst - job.ww

----------------------------------------------------------------------------
DebayerLine == FastLine \/ ArLine \/ BWto422 \/ VecLine
DebayerNext == DebayerLine \/ \E j \in Jobs : debayerRGB_fast(j)
DebayerSpec == DebayerInit /\ [][DebayerNext]_debayerVars

----------------------------------------------------------------------------
(* Properties.                                                              *)

RowOf(a) == (a \div job.dim_x) - job.starty
ColOf(a) == (a % job.dim_x) - job.startx
Lines == IF job.mode % 32 = 4 THEN job.wh ELSE job.wh - 2
LineNo == out.at \div job.ww
SitesOf(px) == px.r \cup px.g \cup px.b \cup px.c.at
Nearest(i) == IF i = 0 THEN 1 ELSE IF i = job.ww - 1 THEN job.ww - 2 ELSE i

(* The colours of the sensor, from the sample inside the corner of the      *)
(* window, as the heads of the functions draw them.                         *)
Mosaic == << << <<"g", "r">>, <<"b", "g">> >>, << <<"r", "g">>, <<"g", "b">> >>,
             << <<"b", "g">>, <<"g", "r">> >>, << <<"g", "b">>, <<"r", "g">> >> >>
ColourAt(a) == Mosaic[1 + (job.mode % 32)][1 + ((RowOf(a) + 1) % 2)][1 + ((ColOf(a) + 1) % 2)]

(* The picture shows what the sensor saw at the same place, in its colours: *)
(* the pixel in column i of line k is made only from samples of rows k to   *)
(* k + 2 of the window, in its column or a neighbour, the pixels at the     *)
(* edge like the ones inside them, wherever the window lies in the frame;   *)
(* and what is weighted as red, green or blue, and what makes Cr and Cb,    *)
(* are samples of that colour, in every mode, table and block.  Only        *)
(* debayerRGB_ar_mode1 takes the right colours from other places.           *)
ArMode == api = "c" /\ job.mode % 32 = 1
Near(a, n) ==
    /\ RowOf(a) \in LineNo .. LineNo + 2
    /\ ColOf(a) \in (Nearest(n - 1) - 1) .. (Nearest(n - 1) + 1)
Coloration(px) ==
    /\ \A a \in px.r : ColourAt(a) = "r"
    /\ \A a \in px.g : ColourAt(a) = "g"
    /\ \A a \in px.b : ColourAt(a) = "b"
    /\ px.c.at # {}
    /\ \A a \in px.c.at : ColourAt(a) = IF px.c.kind = "Cr" THEN "r" ELSE "b"
SamplesRight ==
    job.mode % 32 < 4 =>
        \A n \in DOMAIN out.px :
            /\ Coloration(out.px[n])
            /\ ~ArMode => \A a \in SitesOf(out.px[n]) : Near(a, n)

(* A call that returns has written every line of the picture but the two    *)
(* that have no neighbours, and nothing outside it; Cr and Cb alternate     *)
(* from the second pixel on, whichever table the function came from.        *)
PictureFilled ==
    /\ filled \subseteq {job.ww * k : k \in 0 .. Lines - 1}
    /\ fn = "idle" /\ filled # {} => filled = {job.ww * k : k \in 0 .. Lines - 1}
    /\ fn \in {"fast", "sse", "mmx"} =>
           \A n \in DOMAIN out.px :
               out.px[n].c.kind = IF n = 1 \/ n % 2 = 0 THEN "Cr" ELSE "Cb"

(* A picture has all of its lines, and each pixel in them is made from the  *)
(* right samples of the window (debayerRGB_fast).                           *)
PictureRight == SamplesRight /\ PictureFilled
=============================================================================
