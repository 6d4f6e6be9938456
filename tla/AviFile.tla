------------------------------ MODULE AviFile ------------------------------
(***************************************************************************)
(* avi-file-writer.c: RIFF files of nested lists and chunks.  A list gets   *)
(* its size when it is closed, a chunk that is written piece by piece when  *)
(* the next element is begun (avi_file_data_last).                          *)
(* A file is its length and the headers at their offsets; the data between  *)
(* them only take room.  The functions of the library are operators on the  *)
(* handle.                                                                  *)
(***************************************************************************)
EXTENDS Integers, Sequences, SequencesExt

CONSTANTS
    MaxIdx      \* max_idx: lists open at a time, 9 in the code

ASSUME AviFileAssumption == MaxIdx \in Nat \ {0}

ListHead == 12
ChunkHead == 8

EmptyFile == [end |-> 0, hdr |-> << >>]

(* avi_file_open, avi_file_reopen: an empty file and a zeroed handle.       *)
avi_file_open ==
    [file |-> EmptyFile, pos |-> 0, size |-> 0, idx |-> 0,
     l |-> [i \in 0 .. MaxIdx |-> [name |-> "", type |-> "", offs |-> 0]],
     partial |-> FALSE, align |-> FALSE, movi_offs |-> 0]

lseek(a, p) == [a EXCEPT !.pos = p]
(* n bytes at the position of the descriptor, a header first or none.       *)
write(a, h, n) ==
    [a EXCEPT
        !.file = [end |-> IF a.pos + n > @.end THEN a.pos + n ELSE @.end,
                  hdr |-> IF h.name = "" THEN @.hdr
                          ELSE [o \in DOMAIN @.hdr \cup {a.pos} |-> IF o = a.pos THEN h ELSE @.hdr[o]]],
        !.pos = @ + n]
Data == [name |-> ""]
ListHeader(c, size) == [name |-> c.name, type |-> c.type, size |-> size]
ChunkHeader(name, size) == [name |-> name, type |-> "", size |-> size]

avi_ajust_size_and_seek(a, n) ==
    LET s == a.size + n
        even == s + (s % 2)
    IN  lseek([a EXCEPT !.size = even, !.align = FALSE], even)

(* Fault: the size is not rounded up.                                       *)
avi_ajust_by_odd_size(a, n) ==
    LET s == a.size + n + ChunkHead
    IN  [a EXCEPT !.align = s % 2 = 1, !.size = s]

avi_ajust_by_size(a, n) ==
    LET s == a.size + n + ChunkHead
    IN  [a EXCEPT !.align = s % 2 = 1, !.size = s + (s % 2)]

avi_align_pos(a) == IF a.align THEN lseek([a EXCEPT !.align = FALSE], a.size) ELSE a

(* The header of a chunk written piece by piece gets its size.  Its entry   *)
(* of the table is the one after those of the open lists.                   *)
avi_file_data_last(a) ==
    IF ~a.partial THEN a
    ELSE LET c == a.l[a.idx]
             head == ChunkHeader(c.name, a.size - c.offs - ChunkHead)
         IN  avi_ajust_size_and_seek(
                 write(lseek([a EXCEPT !.partial = FALSE], c.offs), head, ChunkHead), 0)

avi_file_data_append(a, n) ==
    IF ~a.partial THEN a
    ELSE [write(a, Data, n) EXCEPT !.size = @ + n]

avi_file_data_create(a, name) ==
    LET b == avi_file_data_last(a)
    IN  lseek([b EXCEPT !.partial = TRUE, !.size = @ + ChunkHead,
                        !.l[b.idx] = [name |-> name, type |-> "", offs |-> b.size]],
              b.size + ChunkHead)

(* Fault: the offset of movi is taken behind its type.                      *)
avi_file_list_open_behind(a, fcc, type) ==
    IF a.idx >= MaxIdx THEN a
    ELSE LET b == avi_file_data_last(a)
             c == [name |-> fcc, type |-> type, offs |-> b.size]
             w == write(avi_align_pos(b), ListHeader(c, 0), ListHead)
         IN  [w EXCEPT !.l[a.idx] = c, !.idx = @ + 1,
                       !.size = @ + ListHead, !.movi_offs = w.size + ListHead]

avi_file_list_open(a, fcc, type) ==
    IF a.idx >= MaxIdx THEN a
    ELSE LET b == avi_file_data_last(a)
             c == [name |-> fcc, type |-> type, offs |-> b.size]
             w == write(avi_align_pos(b), ListHeader(c, 0), ListHead)
         IN  [w EXCEPT !.l[a.idx] = c, !.idx = @ + 1,
                       !.size = @ + ListHead,
                       !.movi_offs = IF fcc = "LIST" /\ type = "movi" THEN w.size + ListHead - 4
                                     ELSE @]

(* A JUNK chunk up to the next multiple of n.                               *)
avi_file_chunk_align(a, n) ==
    LET b == avi_align_pos(avi_file_data_last(a))
        junk == n - ((b.size + ChunkHead) % n)
    IN  IF b.size % n = 0 THEN b
        ELSE avi_ajust_size_and_seek(write(b, ChunkHeader("JUNK", junk), ChunkHead),
                                     ChunkHead + junk)

Chunk(b, fcc, n) ==
    avi_ajust_by_size(write(write(avi_align_pos(b), ChunkHeader(fcc, n), ChunkHead), Data, n), n)

avi_file_chunk_append(a, fcc, n) == Chunk(avi_file_data_last(a), fcc, n)

(* The caller has put the chunk at the end of the file itself.              *)
avi_file_chunk_append_fake(a, fcc, n) ==
    LET b == avi_file_data_last(a)
        filled == write(write(lseek(b, b.size), ChunkHeader(fcc, n), ChunkHead), Data, n)
    IN  avi_ajust_size_and_seek(filled, n + ChunkHead)

avi_file_list_close(a) ==
    IF a.idx <= 0 THEN a
    ELSE LET b == avi_file_data_last(a)
             c == b.l[b.idx - 1]
             w == write(lseek(b, c.offs), ListHeader(c, b.size - c.offs - ChunkHead), ListHead)
         IN  lseek([w EXCEPT !.idx = @ - 1, !.align = FALSE], b.size)

(* avi_file_close, avi_file_pre_close: every list that is open is closed.   *)
avi_file_close(a) ==
    LET closed[n \in 0 .. a.idx] ==
            IF n = 0 THEN avi_file_data_last(a) ELSE avi_file_list_close(closed[n - 1])
    IN  closed[a.idx]

(* The two fields of a frame in one chunk; no piecewise chunk is ended.     *)
avif_odml_write_2fields(a, n0, n1) == Chunk(a, "00dc", n0 + n1)
=============================================================================
