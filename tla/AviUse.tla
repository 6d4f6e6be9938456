------------------------------- MODULE AviUse -------------------------------
(***************************************************************************)
(* A program that writes a file with the library, in any order the usage    *)
(* case at the head of avi-file-writer.c allows, and closes it or ends      *)
(* before it has.  Then the file is parsed, and restored if it was left.    *)
(***************************************************************************)
EXTENDS AviParse

CONSTANTS
    Ops,        \* bound: calls of the library
    Lens,       \* lengths of data
    HeaderLen,  \* length of the headers of streams
    MaxFrames   \* max_frames: entries the index of the program has room for

ASSUME AviUseAssumption ==
    {Ops, HeaderLen, MaxFrames} \subseteq Nat /\ Lens \subseteq Nat

VARIABLES
    ops,        \* calls so far
    entries     \* avif_write_audio: where the entries of the index point, and
                \* whether no chunk was being written piece by piece

useVars == <<aviVars, ops, entries>>

UseInit == avi = avi_file_open /\ wrote = <<>> /\ ParseInit /\ ops = 0 /\ entries = <<>>

Wrote(name) == wrote' = Append(wrote, [level |-> avi.idx, name |-> name])

Call == phase = "write" /\ ops < Ops /\ ops' = ops + 1 /\ UNCHANGED parseVars
In(type) == Call /\ avi.idx > 0 /\ avi.l[avi.idx - 1].type = type
InMovi == In("movi") /\ UNCHANGED entries

OpenList(around, fcc, type) ==
    /\ In(around) \/ (around = "" /\ Call /\ wrote = <<>>)
    /\ type \notin {wrote[i].name : i \in DOMAIN wrote}
    /\ avi' = avi_file_list_open(avi, fcc, type)
    /\ IF avi.idx >= MaxIdx THEN UNCHANGED wrote ELSE Wrote(type)
    /\ UNCHANGED entries

CloseList ==
    /\ Call /\ avi.idx > 1
    /\ avi' = avi_file_list_close(avi)
    /\ UNCHANGED <<wrote, entries>>

StreamHeader(around, fcc) ==
    /\ In(around)
    /\ avi' = avi_file_chunk_append(avi, fcc, HeaderLen) /\ Wrote(fcc)
    /\ UNCHANGED entries

AppendChunk(n) == InMovi /\ avi' = avi_file_chunk_append(avi, "00db", n) /\ Wrote("00db")
Create == InMovi /\ avi' = avi_file_data_create(avi, "00dc") /\ Wrote("00dc")
AppendData(n) ==
    InMovi /\ avi.partial /\ avi' = avi_file_data_append(avi, n) /\ UNCHANGED wrote
AppendFake(n) == InMovi /\ avi' = avi_file_chunk_append_fake(avi, "00dc", n) /\ Wrote("00dc")
Write2Fields(n) ==
    InMovi /\ ~avi.partial /\ avi' = avif_odml_write_2fields(avi, n, n) /\ Wrote("00dc")
AlignNext(n) ==
    /\ InMovi
    /\ avi' = avi_file_chunk_align(avi, n)
    /\ IF avi'.size # avi_file_data_last(avi).size THEN Wrote("JUNK") ELSE UNCHANGED wrote

(* avif_write_audio: the offset of the entry is taken before a chunk that   *)
(* is being written is ended.                                               *)
avif_write_audio(n) ==
    /\ In("movi")
    /\ IF Len(entries) >= MaxFrames THEN UNCHANGED <<avi, wrote, entries>>
       ELSE /\ entries' = Append(entries, [off |-> avi.size - avi.movi_offs, whole |-> ~avi.partial])
            /\ avi' = avi_file_chunk_append(avi, "01wb", n) /\ Wrote("01wb")

Close ==
    /\ phase = "write" /\ wrote # <<>>
    /\ avi' = avi_file_close(avi) /\ phase' = "closed"
    /\ UNCHANGED <<wrote, stack, fdpos, errs, seen, req_lst_off, avi_size, restore, index,
                   ops, entries>>

(* The process ends; the last chunk may have been written in part.          *)
LastHeader == CHOOSE o \in DOMAIN avi.file.hdr : \A p \in DOMAIN avi.file.hdr : p <= o
CutAt(e) ==
    LET whole == {p \in DOMAIN avi.file.hdr : p + ChunkHead <= e}
    IN  [avi EXCEPT !.file = [end |-> e, hdr |-> [o \in whole |-> @.hdr[o]]]]
Crash ==
    /\ phase = "write" /\ wrote # <<>>
    /\ \/ avi' = avi
       \/ /\ ~avi.partial /\ HeaderAt(LastHeader).name \notin {Riff, List}
          /\ \E e \in {LastHeader + 4, file.end - 1} : avi' = CutAt(e)
    /\ phase' = "left"
    /\ UNCHANGED <<wrote, stack, fdpos, errs, seen, req_lst_off, avi_size, restore, index,
                   ops, entries>>

Parse ==
    /\ ParseNext \/ StartCheck("closed", "check") \/ StartCheck("left", "salvage")
    /\ UNCHANGED <<ops, entries>>

UseNext ==
    \/ OpenList("", Riff, "AVI ") \/ OpenList("AVI ", List, "hdrl")
    \/ OpenList("hdrl", List, "strl") \/ OpenList("AVI ", List, "movi")
    \/ StreamHeader("hdrl", "avih") \/ StreamHeader("strl", "strh")
    \/ CloseList \/ Create
    \/ \E n \in Lens : \/ AppendChunk(n) \/ AppendData(n) \/ AppendFake(n)
                       \/ Write2Fields(n) \/ avif_write_audio(n)
    \/ AlignNext(16)
    \/ Close \/ Crash \/ Parse
UseSpec == UseInit /\ [][UseNext]_useVars

----------------------------------------------------------------------------
(* Properties.                                                              *)

NoEmptyChunk == \A o \in DOMAIN file.hdr : file.hdr[o].type = "" => file.hdr[o].size > 0

(* A file that was closed reads back: avi_check finds every list and chunk  *)
(* at the depth and in the order it was written, whatever mixture of calls  *)
(* wrote it, piecewise chunks and odd lengths among them, and has no error  *)
(* to count.  avi_simple_check agrees exactly when the last chunk is padded.*)
(* Chunks of length 0 and an end more than a byte short are excepted.       *)
ReadsBack ==
    phase = "checked" /\ NoEmptyChunk /\ file.end + 1 >= avi.size =>
        seen = wrote /\ errs = 0 /\ (avi_simple_check <=> file.end = avi.size)

MoviOpen == avi.idx = 2 /\ avi.l[1].type = "movi"

(* A file whose program ended while the movi list was open, even in the     *)
(* middle of a chunk: if avi_idx_restore takes it, it is whole afterwards;  *)
(* it has the chunks that were finished, and the index behind them.  An     *)
(* index without an entry is an empty chunk.                                *)
Salvaged ==
    phase = "rechecked" /\ MoviOpen /\ NoEmptyChunk =>
        /\ errs = 0 /\ avi_simple_check
        /\ seen = Append(IF avi.partial THEN Front(wrote) ELSE wrote,
                         [level |-> 1, name |-> "idx1"])

(* The offsets of the index avif_write_audio keeps, counted from the type   *)
(* of the movi list in the file, lead to the chunks it has written, unless  *)
(* a chunk was being written piece by piece: then its end moves the next    *)
(* chunk away from the offset that was already taken.                       *)
MoviType ==
    LET lists == {p \in DOMAIN file.hdr : file.hdr[p].name = List /\ file.hdr[p].type = "movi"}
    IN  (CHOOSE p \in lists : TRUE) + ListHead - 4
IndexPoints ==
    phase \in {"write", "closed"} =>
        \A i \in DOMAIN entries : entries[i].whole =>
            LET o == MoviType + entries[i].off
            IN  o \in DOMAIN file.hdr /\ file.hdr[o].name = "01wb"
=============================================================================
