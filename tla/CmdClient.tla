------------------------------ MODULE CmdClient ------------------------------
(***************************************************************************)
(* The command client of the camera: one connection that is made by the     *)
(* first command and kept for the others, the two commands that are sent on *)
(* it, and the reader of the frames that come back, which the JPEG client   *)
(* writes to files.                                                         *)
(***************************************************************************)
EXTENDS Integers, Sequences

CONSTANT Clips      \* packets of the camera: sequences of fields [key, val]

Listed(s) == s \in Seq({s[n] : n \in DOMAIN s})
ASSUME ClipsAssumption == \A packet \in Clips : Listed(packet)

VARIABLES
    conn_ipv4,  \* the address to connect to
    task,       \* ioc.rx_task: "none", or the address connected to
    sent,       \* the command written last, and to where
    in,         \* what the reader has of the packets so far
    wmode,      \* whether frames are written to files
    files       \* the file written last: what of, how much, and from what

cmdVars == <<conn_ipv4, task, sent>>
frameVars == <<in, wmode, files>>

NoClip == [size |-> 0, data |-> "none", flow |-> "none"]
CmdInit ==
    /\ conn_ipv4 = "option" /\ task = "none" /\ sent = [packet |-> "none", to |-> "none"]
    /\ in = NoClip /\ wmode \in BOOLEAN
    /\ files = [size |-> 0, data |-> "none", from |-> <<>>]

cam4_init_abiw_start(flow, dst) == [cmd |-> "START_FLOW", id |-> flow, dst |-> dst]
cam4_init_abiw_stop(flow)       == [cmd |-> "STOP_FLOW", id |-> flow, dst |-> "none"]

(* The connection is made when there is none; what fails is not tried       *)
(* again before the next command.  Once made it stays: a camera that has    *)
(* closed it, or has moved, is still written to there.                      *)
cam4_cmd_cl_process(packet) ==
    \/ task' = (IF task = "none" THEN conn_ipv4' ELSE task) /\ sent' = [packet |-> packet, to |-> task']
    \/ task = "none" /\ UNCHANGED <<task, sent>>
cam4_cmd_start(packet, conn) == conn_ipv4' = conn /\ cam4_cmd_cl_process(packet)
cam4_cmd_again(packet)       == UNCHANGED conn_ipv4 /\ cam4_cmd_cl_process(packet)

----------------------------------------------------------------------------
(* The frames.  The receive buffer is used again for every packet: a        *)
(* pointer that an earlier packet has left shows what is there now.         *)

(* Fault: the size of the data is left to the field before it.              *)
cam4_read_data_only(c, val) == [c EXCEPT !.data = "this"]

cam4_read_meta(c, val) == [c EXCEPT !.size = val]
cam4_read_data(c, val) == [c EXCEPT !.data = "this", !.size = val]
cam4_read_id(c, val)   == [c EXCEPT !.flow = val]
Before(c) == [c EXCEPT !.data = IF c.data = "none" THEN "none" ELSE "old"]

(* Which field is read by what; the others are read over.                   *)
FrameField(c, field) ==
    CASE field.key = "DEVICE_ABI_REQUEST_T"    -> cam4_read_meta(c, field.val)
      [] field.key = "DEVICE_ABI_FRAME_DATA_T" -> cam4_read_data(c, field.val)
      [] field.key = "P3_ABI_ID_T"             -> cam4_read_id(c, field.val)
      [] OTHER                                 -> c
FrameFields(packet) ==
    LET c[n \in 0 .. Len(packet)] ==
            IF n = 0 THEN Before(in) ELSE FrameField(c[n - 1], packet[n])
    IN  c[Len(packet)]

cam4_dump_jpeg_file(c, packet) == files' = [size |-> c.size, data |-> c.data, from |-> packet]
cam4_dump_face_file(c, packet) ==
    IF c.size = 0 THEN UNCHANGED files
    ELSE files' = [size |-> c.size, data |-> c.data, from |-> packet]

(* The action of the root node, when the fields have been read.             *)
cam4_on_frame ==
    \E packet \in Clips :
        LET c == FrameFields(packet)
        IN  /\ in' = c
            /\ CASE wmode /\ c.flow = "JPEG"     -> cam4_dump_jpeg_file(c, packet)
                 [] wmode /\ c.flow = "FACE_DEV" -> cam4_dump_face_file(c, packet)
                 [] OTHER -> UNCHANGED files
            /\ UNCHANGED <<cmdVars, wmode>>

----------------------------------------------------------------------------
(* Properties.                                                              *)

DataAt(packet) == {i \in DOMAIN packet : packet[i].key = "DEVICE_ABI_FRAME_DATA_T"}
MetaAt(packet) == {i \in DOMAIN packet : packet[i].key = "DEVICE_ABI_REQUEST_T"}

(* A file holds the data of the packet it is written for, all of it and     *)
(* nothing else, whatever earlier packets have left in the reader, when the *)
(* packet has data and the size in its header, if any, comes before it.  Of *)
(* several data fields it is the last.                                      *)
DumpsItsOwn ==
    \A n \in DataAt(files.from) :
        (\A k \in DataAt(files.from) \cup MetaAt(files.from) : k <= n) =>
            files.data = "this" /\ files.size = files.from[n].val
=============================================================================
