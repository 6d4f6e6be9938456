------------------------------ MODULE AviParse ------------------------------
(***************************************************************************)
(* avi_parse.c on a file the writer has closed, or left behind when its     *)
(* process ended: avi_check walks the lists and chunks, avi_idx_restore     *)
(* closes the lists of a file that was left open and gives it an index.     *)
(* The calls of avi_process_list are kept on a stack; a step reads one      *)
(* element.                                                                 *)
(***************************************************************************)
EXTENDS AviFile

CONSTANTS
    IdxMax      \* IDX_MAX: entries collected before a part of the index is written

ASSUME AviParseAssumption == IdxMax \in Nat \ {0}

VARIABLES
    avi,        \* the handle of the writer, with the file
    wrote,      \* history: the elements written, with the number of lists around
    phase,      \* "write"; of a closed file "check", "checked"; of one left open
                \* "salvage", "salvaged", "restore", "restored" or "damaged",
                \* "recheck", "rechecked"; or "astray": data taken for a header
    stack,      \* avi_process_list: offset, position and size of the lists read
    fdpos,      \* position of the descriptor
    errs,       \* errors counted in the request of avi_check
    seen,       \* the elements read
    req_lst_off,\* where the movi list was found
    avi_size,   \* the size the check took the file to have
    restore,    \* avi_idx_restore: position, chunk_offs and entries of idx
    index       \* the entries written to the file

parseVars == <<phase, stack, fdpos, errs, seen, req_lst_off, avi_size, restore, index>>
aviVars == <<avi, wrote, parseVars>>

file == avi.file
Riff == "RIFF"
List == "LIST"

ParseInit ==
    /\ phase = "write" /\ stack = <<>> /\ fdpos = 0 /\ errs = 0 /\ seen = <<>>
    /\ req_lst_off = 0 /\ avi_size = 0
    /\ restore = [pos |-> 0, chunk_offs |-> 0, idx |-> <<>>] /\ index = <<>>

Known(o) == o \in DOMAIN file.hdr
HeaderAt(o) == file.hdr[o]
Left(o) == file.end - o

----------------------------------------------------------------------------
(* avi_check.                                                               *)

StartCheck(from, to) ==
    /\ phase = from /\ phase' = to
    /\ stack' = <<>> /\ fdpos' = 0 /\ errs' = 0 /\ seen' = <<>> /\ req_lst_off' = 0
    /\ avi_size' = file.end
    /\ UNCHANGED <<avi, wrote, restore, index>>

Ended == [check |-> "checked", salvage |-> "salvaged", recheck |-> "rechecked"]
Checking == phase \in DOMAIN Ended

(* The head of avi_process_list: a size of 0, or one that leads out of the  *)
(* file, is an error; the caller goes on behind the head.  The errors of a  *)
(* list are counted in the request its caller made for it, and only those   *)
(* of the outermost lists are in the one avi_check was called with.         *)
avi_process_list(o) ==
    IF Left(o) < ListHead
    THEN /\ stack' = <<>>
         /\ UNCHANGED <<phase, fdpos, errs, seen, req_lst_off>>
    ELSE LET h == HeaderAt(o)
             bad == h.size = 0 \/ o + h.size > avi_size
             depth == Len(stack)
         IN  /\ seen' = Append(seen, [level |-> depth, name |-> h.type])
             /\ req_lst_off' = IF h.name = List /\ h.type = "movi" THEN o ELSE req_lst_off
             /\ fdpos' = o + ListHead
             /\ stack' = IF ~bad
                         THEN Append(stack, [off |-> o, pos |-> ListHead, size |-> h.size])
                         ELSE IF stack = <<>> THEN stack
                         ELSE [stack EXCEPT ![depth].pos = @ + ListHead]
             /\ errs' = IF bad /\ stack = <<>> THEN errs + 1 ELSE errs
             /\ UNCHANGED phase

(* The loop of avi_check: what is neither a RIFF nor a LIST is skipped in   *)
(* pieces of the size of a list head.                                       *)
avi_check ==
    /\ Checking /\ stack = <<>>
    /\ \/ /\ Left(fdpos) < ListHead
          /\ phase' = Ended[phase]
          /\ errs' = IF Left(fdpos) > 0 THEN errs + 1 ELSE errs
          /\ UNCHANGED <<stack, fdpos, seen, req_lst_off>>
       \/ /\ Left(fdpos) >= ListHead
          /\ Known(fdpos) /\ HeaderAt(fdpos).name \in {Riff, List}
          /\ avi_process_list(fdpos)
       \/ /\ Left(fdpos) >= ListHead
          /\ ~(Known(fdpos) /\ HeaderAt(fdpos).name \in {Riff, List})
          /\ fdpos' = fdpos + ListHead
          /\ UNCHANGED <<phase, stack, errs, seen, req_lst_off>>
    /\ UNCHANGED <<avi, wrote, avi_size, restore, index>>

(* A list returns how far it came, an even number; its caller goes on there.*)
Return(pos) ==
    LET even == pos + (pos % 2)
        rest == SubSeq(stack, 1, Len(stack) - 1)
    IN  stack' = IF rest = <<>> THEN rest ELSE [rest EXCEPT ![Len(rest)].pos = @ + even]

InList == Checking /\ stack # <<>>
Top == Last(stack)

(* avi_process_chunk: headers of streams must be whole.                     *)
avi_process_chunk ==
    /\ InList /\ Top.pos < Top.size
    /\ Left(fdpos) >= 4
    /\ ~(Known(fdpos) /\ HeaderAt(fdpos).name = List)
    /\ LET o == Top.off + Top.pos
           cut == Left(o) < ChunkHead
           h == HeaderAt(o)
           len == ChunkHead + h.size
           even == len + (len % 2)
           short == h.name \in {"avih", "strh"} /\ Left(o) < len
       IN  \/ /\ ~cut /\ ~Known(o)
              /\ phase' = "astray"
              /\ UNCHANGED <<stack, fdpos, seen>>
           \/ /\ cut \/ (Known(o) /\ short)
              /\ Return(ListHead + Top.size)
              /\ fdpos' = Top.off + ListHead + Top.size
              /\ UNCHANGED <<phase, seen>>
           \/ /\ ~cut /\ Known(o) /\ ~short
              /\ stack' = [stack EXCEPT ![Len(stack)].pos = @ + even]
              /\ fdpos' = o + even
              /\ seen' = Append(seen, [level |-> Len(stack), name |-> h.name])
              /\ UNCHANGED phase
    /\ UNCHANGED <<avi, wrote, errs, req_lst_off, avi_size, restore, index>>

SubList ==
    /\ InList /\ Top.pos < Top.size
    /\ Left(fdpos) >= 4
    /\ Known(fdpos) /\ HeaderAt(fdpos).name = List
    /\ avi_process_list(Top.off + Top.pos)
    /\ UNCHANGED <<avi, wrote, avi_size, restore, index>>

(* The end of the list or of the file.  The size of a list does not count   *)
(* the first 8 bytes of its head, its position does.                        *)
ListEnds ==
    /\ InList
    /\ Top.pos >= Top.size \/ Left(fdpos) < 4
    /\ Return(Top.pos)
    /\ errs' = IF Top.pos < Top.size /\ Len(stack) = 1 THEN errs + 1 ELSE errs
    /\ UNCHANGED <<avi, wrote, phase, fdpos, seen, req_lst_off, avi_size, restore, index>>

(* avi_simple_check.                                                        *)
avi_simple_check ==
    /\ file.end >= ListHead
    /\ ~(HeaderAt(0).name # Riff /\ HeaderAt(0).type = "AVI ")
    /\ HeaderAt(0).size + ChunkHead = file.end

----------------------------------------------------------------------------
(* avi_idx_restore.                                                         *)

SetSize(f, o, n) == [f EXCEPT !.hdr[o].size = n]
Extend(f, o, h, n) ==
    [end |-> IF o + n > f.end THEN o + n ELSE f.end,
     hdr |-> [p \in DOMAIN f.hdr \cup {o} |-> IF p = o THEN h ELSE f.hdr[p]]]
EntrySize == 16
Even(n) == n + (n % 2)

(* Fault: the size does not count the type of the list.                     *)
RestoreBeginsEmpty ==
    /\ phase = "salvaged"
    /\ IF req_lst_off = 0
       THEN phase' = "damaged" /\ UNCHANGED <<avi, restore>>
       ELSE /\ phase' = "restore"
            /\ avi' = [avi EXCEPT !.file = SetSize(@, req_lst_off, 0)]
            /\ restore' = [pos |-> req_lst_off + ListHead, chunk_offs |-> 4, idx |-> <<>>]
    /\ UNCHANGED <<wrote, stack, fdpos, errs, seen, req_lst_off, avi_size, index>>

RestoreBegins ==
    /\ phase = "salvaged"
    /\ IF req_lst_off = 0
       THEN phase' = "damaged" /\ UNCHANGED <<avi, restore>>
       ELSE /\ phase' = "restore"
            /\ avi' = [avi EXCEPT !.file = SetSize(@, req_lst_off, 4)]
            /\ restore' = [pos |-> req_lst_off + ListHead, chunk_offs |-> 4, idx |-> <<>>]
    /\ UNCHANGED <<wrote, stack, fdpos, errs, seen, req_lst_off, avi_size, index>>

(* One chunk of the movi list.  The index of the chunks so far is written   *)
(* behind the end of the file when the table is full.                       *)
RestoreChunk ==
    /\ phase = "restore" /\ restore.pos < avi_size
    /\ LET o == restore.pos
           size == Even(HeaderAt(o).size)
           flush == Len(restore.idx) >= IdxMax
           entry == [name |-> HeaderAt(o).name, off |-> restore.chunk_offs]
           idx == IF flush THEN <<>> ELSE restore.idx
       IN  IF Left(o) >= ChunkHead /\ ~Known(o)
           THEN /\ phase' = "astray"
                /\ UNCHANGED <<avi, restore, index>>
           ELSE IF Left(o) < ChunkHead \/ o + ChunkHead + size > avi_size
           THEN /\ phase' = "damaged"
                /\ UNCHANGED <<avi, restore, index>>
           ELSE /\ restore' = [pos |-> o + ChunkHead + size,
                               chunk_offs |-> restore.chunk_offs + ChunkHead + size,
                               idx |-> IF HeaderAt(o).name = "JUNK" THEN idx ELSE Append(idx, entry)]
                /\ index' = IF flush THEN index \o restore.idx ELSE index
                /\ LET f == SetSize(file, req_lst_off, HeaderAt(req_lst_off).size + ChunkHead + size)
                   IN  avi' = [avi EXCEPT !.file =
                                [f EXCEPT !.end = IF flush
                                    THEN avi_size + ChunkHead + EntrySize * Len(index') ELSE @]]
                /\ UNCHANGED phase
    /\ UNCHANGED <<wrote, stack, fdpos, errs, seen, req_lst_off, avi_size>>

(* The rest of the index, less its last entry, the sizes and the head of    *)
(* the index.                                                               *)
RestoreEnds ==
    /\ phase = "restore" /\ restore.pos >= avi_size
    /\ LET rest == SubSeq(restore.idx, 1, Len(restore.idx) - 1)
           size == EntrySize * (Len(index) + Len(rest))
           f == SetSize(file, 0, req_lst_off + HeaderAt(req_lst_off).size + ChunkHead + size)
       IN  /\ index' = index \o rest
           /\ avi' = [avi EXCEPT !.file = Extend(f, avi_size, ChunkHeader("idx1", size),
                                                 ChunkHead + size)]
    /\ phase' = "restored"
    /\ UNCHANGED <<wrote, stack, fdpos, errs, seen, req_lst_off, avi_size, restore>>

ParseNext ==
    \/ avi_check \/ avi_process_chunk \/ SubList \/ ListEnds
    \/ RestoreBegins \/ RestoreChunk \/ RestoreEnds
    \/ StartCheck("restored", "recheck")
=============================================================================
