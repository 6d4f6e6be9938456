------------------------------- MODULE Viewer -------------------------------
(***************************************************************************)
(* What the client does with the frames it shows.  cam4_rd_process_real,    *)
(* the frame thread, runs the sensor test (cam4_script_processing), dumps   *)
(* the frame, unpacks it (Lut) and records it, makes the picture of it      *)
(* (Debayer) and records that in an AVI file (write_video).  The command    *)
(* thread (process_cm_ifs) takes commands from a fifo and changes the same  *)
(* variables; both threads make and send the packets for the camera with    *)
(* the one writer task cam4_rd->ts.  The X client writes commands of its    *)
(* own and moves the window.  A file that was recorded is parsed at the end.*)
(***************************************************************************)
EXTENDS Debayer, Lut, AviUse

CONSTANTS
    Scenarios,      \* commands, jobs, formats, frames (-1: no end), library:
                    \* what is exercised
    Commands,       \* bound: commands written to the fifo
    Tests,          \* bound: TEST commands among them
    Steps,          \* sens_test.default_steps
    Skip            \* sens_test.default_skip_frames

ASSUME ViewerAssumption ==
    /\ Commands \in Nat /\ Tests \in Nat /\ Steps \in Nat /\ Skip \in Nat
    /\ MaxIdx >= 3      \* 9 in the code; write_video has three lists open
    /\ \A s \in Scenarios : s.formats \subseteq Frames /\ s.jobs \subseteq Jobs

VARIABLES
    scenario,
    pc,         \* the frame thread: "sleep", "script", "settings", "sending",
                \* "dump", "lut", "raw", "debayer", "picture"; "gone" when the
                \* process has ended; "library" when another program uses
                \* the library
    case,       \* the state of the test that the switch has read
    todo,       \* settings the frame thread has still to send
    state, skip,\* sens_test: state and default_skip_frames
    img_num, expo, pair,
    dumpraw, dumpyuv,   \* dump times: "none", "later" or "due"
    dumps,      \* history: the frames of the test that were dumped
    video, raw_video,   \* video_writing and raw_video_writing
    writer,     \* the packet in the writer task, and whose it is
    mixed,      \* history: one thread sent what the other had begun
    camera,     \* the exposure the camera was told last
    fifo,       \* commands in the pipe
    buffered,   \* commands in the buffer of the stream
    given,      \* history: commands written
    cmd,        \* what the command thread is at: a command and its next step
    window,     \* the part of the frame that is shown
    running,    \* no_sig_exit
    frames      \* frames so far, counted when the scenario has a bound

scriptVars == <<case, todo, state, skip, img_num, expo, pair>>
dumpVars == <<dumpraw, dumpyuv, dumps>>
videoVars == <<video, raw_video>>
sendVars == <<writer, mixed, camera>>
cmdVars == <<fifo, buffered, given, cmd>>
dataVars == <<debayerVars, lutVars, useVars>>
viewerVars == <<dataVars, scenario, pc, scriptVars, dumpVars, videoVars, sendVars, cmdVars,
                window, running, frames>>

Idle == [name |-> "none", step |-> "none"]
ViewerInit ==
    /\ DebayerInit /\ LutInit /\ UseInit
    /\ scenario \in Scenarios
    /\ pc = (IF scenario.library THEN "library" ELSE "sleep") /\ case = "NOP" /\ todo = <<>>
    /\ state = "NOP" /\ skip = Skip /\ img_num = 0 /\ expo = 0 /\ pair = ""
    /\ dumpraw = "none" /\ dumpyuv = "none" /\ dumps = <<>>
    /\ video = "NONE" /\ raw_video = "NONE"
    /\ writer = [of |-> "none", what |-> [val |-> "none"]] /\ mixed = FALSE /\ camera = 0
    /\ fifo = <<>> /\ buffered = <<>> /\ given = <<>> /\ cmd = Idle
    /\ window \in scenario.jobs
    /\ running = TRUE /\ frames = 0

----------------------------------------------------------------------------
(* The packets for the camera.                                              *)

Update(val, to) == [cmd |-> "UPDATE_VAL", key |-> "/sensor", val |-> val, to |-> to]
cam4_set_expo(v)  == Update("EXPOSITION", v)
cam4_set_period   == Update("TIME_PERIOD", 0)
cam4_set_gains    == Update("SENSOR_GAINS", 0)
cam4_get_params   == [cmd |-> "GET_VALS", key |-> "/sensor", val |-> "SENSOR", to |-> 0]
cam4_set_tunnel(start) ==
    [cmd |-> IF start THEN "TUNNEL_START" ELSE "TUNNEL_STOP", key |-> "/dev/uart/0", val |-> "", to |-> 0]
send_uart         == [cmd |-> "APPEND_VAL", key |-> "/dev/uart/1", val |-> "text", to |-> 0]

(* A packet is made in the writer task from its beginning (abiw_reopen) and *)
(* then sent; nothing keeps the other thread from making its own in between.*)
MakePacket(who, what) == writer' = [of |-> who, what |-> what] /\ UNCHANGED <<mixed, camera>>
SendPacket(who) ==
    /\ mixed' = (mixed \/ writer.of # who)
    /\ camera' = IF writer.what.val = "EXPOSITION" THEN writer.what.to ELSE camera
    /\ UNCHANGED writer

----------------------------------------------------------------------------
(* The frame thread.                                                        *)

Counted == scenario.frames >= 0
(* sleep is interrupted by the signal of the capture loop: a frame.         *)
Wake ==
    /\ pc = "sleep" /\ running
    /\ Counted => frames < scenario.frames
    /\ frames' = IF Counted THEN frames + 1 ELSE 0
    /\ \E f \in scenario.formats : frame' = f
    /\ size' = -1 /\ img' = <<>> /\ raw16' = <<>>
    /\ pc' = "script"
    /\ UNCHANGED <<debayerVars, useVars, scenario, scriptVars, dumpVars, videoVars, sendVars,
                   cmdVars, window, running>>

StartExpo == -1     \* default_expo, unlike every other exposure
StepExpo(n) == n    \* default_step * img_num

(* cam4_script_processing: the switch, and the settings of its case.        *)
ScriptReads ==
    /\ pc = "script" /\ pc' = "settings"
    /\ case' = state
    /\ todo' = CASE state = "START" -> <<cam4_set_period, cam4_set_expo(StartExpo)>>
                 [] state = "NEXT_STEP" -> <<cam4_set_expo(StepExpo(img_num))>>
                 [] OTHER -> <<>>
    /\ UNCHANGED <<dataVars, scenario, state, skip, img_num, expo, pair, dumpVars, videoVars,
                   sendVars, cmdVars, window, running, frames>>

ScriptMakes ==
    /\ pc = "settings" /\ todo # <<>> /\ pc' = "sending"
    /\ MakePacket("frame", Head(todo))
    /\ UNCHANGED <<dataVars, scenario, scriptVars, dumpVars, videoVars, cmdVars, window, running,
                   frames>>
ScriptSends ==
    /\ pc = "sending" /\ pc' = "settings"
    /\ SendPacket("frame") /\ todo' = Tail(todo)
    /\ UNCHANGED <<dataVars, scenario, case, state, skip, img_num, expo, pair, dumpVars, videoVars,
                   cmdVars, window, running, frames>>

(* The rest of the case.  A dump of the test is due at once: its time is    *)
(* set a second back.  The count of frames to skip goes on below zero, in   *)
(* the model to -1.                                                         *)
Script_START == expo' = StartExpo /\ img_num' = 0 /\ state' = "WAIT" /\ UNCHANGED <<skip, pair, dumpraw>>
Script_WAIT ==
    /\ skip' = IF skip < 0 THEN -1 ELSE skip - 1
    /\ state' = IF skip = 0 THEN "DUMP_A" ELSE state
    /\ UNCHANGED <<img_num, expo, pair, dumpraw>>
Script_DUMP_A ==
    /\ pair' = "A" /\ dumpraw' = "due" /\ state' = "DUMP_B"
    /\ UNCHANGED <<skip, img_num, expo>>
(* Fault: the picture is not counted.                                       *)
Script_DUMP_B_Uncounted ==
    /\ pair' = "B" /\ dumpraw' = "due"
    /\ state' = IF img_num >= Steps THEN "NOP" ELSE "NEXT_STEP"
    /\ UNCHANGED <<skip, img_num, expo>>
Script_DUMP_B ==
    /\ pair' = "B" /\ dumpraw' = "due"
    /\ img_num' = img_num + 1
    /\ state' = IF img_num >= Steps THEN "NOP" ELSE "NEXT_STEP"
    /\ UNCHANGED <<skip, expo>>
(* Fault: the frames to skip are not set again.                             *)
Script_NEXT_STEP_NoSkip ==
    /\ expo' = StepExpo(img_num) /\ state' = "WAIT"
    /\ UNCHANGED <<skip, img_num, pair, dumpraw>>
Script_NEXT_STEP ==
    /\ expo' = StepExpo(img_num) /\ skip' = 1 /\ state' = "WAIT"
    /\ UNCHANGED <<img_num, pair, dumpraw>>
ScriptWrites ==
    /\ pc = "settings" /\ todo = <<>> /\ pc' = "dump"
    /\ \/ case = "START" /\ Script_START
       \/ case = "WAIT" /\ Script_WAIT
       \/ case = "DUMP_A" /\ Script_DUMP_A
       \/ case = "DUMP_B" /\ Script_DUMP_B
       \/ case = "NEXT_STEP" /\ Script_NEXT_STEP
       \/ case = "NOP" /\ UNCHANGED <<state, skip, img_num, expo, pair, dumpraw>>
    /\ UNCHANGED <<dataVars, scenario, case, todo, dumpyuv, dumps, videoVars, sendVars,
                   cmdVars, window, running, frames>>

(* cam4_dump_raw_frame, when the time has come; its name is made from the   *)
(* number, the exposure and the letter.                                     *)
cam4_dump_raw_frame ==
    /\ pc = "dump" /\ pc' = "lut" /\ size' = frame.size
    /\ IF dumpraw = "due"
       THEN /\ dumpraw' = "none"
            /\ dumps' = IF case \in {"DUMP_A", "DUMP_B"}
                        THEN Append(dumps, [num |-> img_num, expo |-> expo, pair |-> pair, camera |-> camera])
                        ELSE dumps
       ELSE UNCHANGED <<dumpraw, dumps>>
    /\ UNCHANGED <<debayerVars, frame, img, raw16, useVars, scenario, scriptVars, dumpyuv,
                   videoVars, sendVars, cmdVars, window, running, frames>>

Unpack ==
    /\ pc = "lut" /\ size >= 0
    /\ cam4_rd_do_LUT
    /\ pc' = IF size' < 0 THEN "raw" ELSE pc
    /\ UNCHANGED <<debayerVars, useVars, scenario, scriptVars, dumpVars, videoVars, sendVars,
                   cmdVars, window, running, frames>>

(* write_raw_video: the frame at which it starts only opens the file; at    *)
(* PROCESS the buffer is written, in which the samples have been unpacked.  *)
write_raw_video ==
    /\ pc = "raw" /\ pc' = "debayer"
    /\ \/ raw_video = "START" /\ raw_video' = "PROCESS"
       \/ raw_video = "FINISH" /\ raw_video' = "NONE"
       \/ raw_video \in {"PROCESS", "NONE"} /\ UNCHANGED raw_video
    /\ UNCHANGED <<dataVars, scenario, scriptVars, dumpVars, video, sendVars, cmdVars, window,
                   running, frames>>

StartPicture ==
    /\ pc = "debayer" /\ pc' = "picture"
    /\ debayerRGB_fast(window)
    /\ UNCHANGED <<lutVars, useVars, scenario, scriptVars, dumpVars, videoVars, sendVars, cmdVars,
                   window, running, frames>>
MakePicture ==
    /\ pc = "picture" /\ DebayerLine
    /\ UNCHANGED <<lutVars, useVars, scenario, pc, scriptVars, dumpVars, videoVars, sendVars,
                   cmdVars, window, running, frames>>

(* write_video: what a new file begins with, a frame, and the end.  Each    *)
(* call takes the handle as the one before has left it.                     *)
VideoHead(handle) ==
    \E riff \in {avi_file_list_open(avi_file_open, Riff, "AVI ")} :
    \E hdrl \in {avi_file_list_open(riff, List, "hdrl")} :
    \E avih \in {avi_file_chunk_append(hdrl, "avih", HeaderLen)} :
    \E strl \in {avi_file_list_open(avih, List, "strl")} :
    \E strh \in {avi_file_chunk_append(strl, "strh", HeaderLen)} :
    \E strf \in {avi_file_chunk_append(strh, "strf", HeaderLen)} :
    \E noStrl \in {avi_file_list_close(strf)} : \E noHdrl \in {avi_file_list_close(noStrl)} :
        handle = avi_file_list_open(noHdrl, List, "movi")
HeadElements ==
    << [level |-> 0, name |-> "AVI "], [level |-> 1, name |-> "hdrl"], [level |-> 2, name |-> "avih"],
       [level |-> 2, name |-> "strl"], [level |-> 3, name |-> "strh"], [level |-> 3, name |-> "strf"],
       [level |-> 1, name |-> "movi"] >>
write_video ==
    \/ /\ video = "START"
       /\ video' = "PROCESS"
       /\ VideoHead(avi') /\ wrote' = HeadElements /\ phase' = "write"
    \/ /\ video = "FINISH"
       /\ video' = "NONE"
       /\ \E noMovi \in {avi_file_list_close(avi)} : \E noRiff \in {avi_file_list_close(noMovi)} :
            avi' = avi_file_close(noRiff)
       /\ phase' = "closed"
       /\ UNCHANGED wrote
    \/ /\ video = "PROCESS"
       /\ avi' = avi_file_chunk_append(avi, "00db", window.ww * window.wh * 2) /\ Wrote("00db")
       /\ UNCHANGED <<video, phase>>
    \/ video = "NONE" /\ UNCHANGED <<video, avi, wrote, phase>>

(* The end of a turn: the clock is read, so a dump may be due.              *)
EndOfFrame ==
    /\ pc = "picture" /\ fn = "idle" /\ pc' = "sleep"
    /\ dumpraw' \in IF dumpraw = "later" THEN {"later", "due"} ELSE {dumpraw}
    /\ dumpyuv' \in IF dumpyuv = "later" THEN {"later", "none"} ELSE {dumpyuv}
    /\ write_video
    /\ UNCHANGED <<debayerVars, lutVars, stack, fdpos, errs, seen, req_lst_off, avi_size, restore,
                   index, ops, entries, scenario, scriptVars, dumps, raw_video, sendVars,
                   cmdVars, window, running, frames>>

FrameThread ==
    \/ Wake \/ ScriptReads \/ ScriptMakes \/ ScriptSends \/ ScriptWrites \/ cam4_dump_raw_frame
    \/ Unpack \/ write_raw_video \/ StartPicture \/ MakePicture \/ EndOfFrame

----------------------------------------------------------------------------
(* The command thread.                                                      *)

Alive == pc \notin {"gone", "library"} /\ fn # "exited"

(* A user writes a line; send_command of the X client writes no newline.    *)
WriteCommand ==
    /\ Alive /\ Len(given) < Commands
    /\ \E c \in scenario.commands :
        /\ c.name = "TEST" => Cardinality({i \in DOMAIN given : given[i].name = "TEST"}) < Tests
        /\ fifo' = Append(fifo, c) /\ given' = Append(given, c)
    /\ UNCHANGED <<dataVars, scenario, pc, scriptVars, dumpVars, videoVars, sendVars, buffered,
                   cmd, window, running, frames>>

(* poll looks at the pipe and not at the buffer of the stream; fgets reads  *)
(* the pipe only when the buffer has no whole line, and then all of it.  A  *)
(* line is what it says at its beginning.                                   *)
LineEnd(s) == {i \in DOMAIN s : s[i].newline}
fgets(s) == IF LineEnd(s) = {} THEN Len(s) ELSE CHOOSE i \in LineEnd(s) : \A k \in LineEnd(s) : i <= k
TakeCommand ==
    /\ Alive /\ cmd = Idle /\ fifo # <<>>
    /\ LET whole == LineEnd(buffered) # {}
           text == IF whole THEN buffered ELSE buffered \o fifo
           n == fgets(text)
       IN  /\ buffered' = SubSeq(text, n + 1, Len(text))
           /\ fifo' = IF whole THEN fifo ELSE <<>>
           /\ cmd' = [name |-> text[1].name, step |-> "begin"]
    /\ UNCHANGED <<dataVars, scenario, pc, scriptVars, dumpVars, videoVars, sendVars, given,
                   window, running, frames>>

(* parse_command: the commands that only set variables.                     *)
Video(v, name) ==
    IF cmd.name = name \o ":START" /\ v = "NONE" THEN "START"
    ELSE IF cmd.name = name \o ":FINISH" /\ v = "PROCESS" THEN "FINISH" ELSE v
UserExpo == 7
Packets == [EXP |-> cam4_set_expo(UserExpo), PERIOD |-> cam4_set_period, GAINS |-> cam4_set_gains,
            GET |-> cam4_get_params, TUNNEL |-> cam4_set_tunnel(TRUE), UART |-> send_uart]
parse_command ==
    /\ Alive /\ cmd.step = "begin" /\ cmd.name \notin DOMAIN Packets
    /\ dumpraw' = IF cmd.name = "DUMPRAW" THEN "later" ELSE dumpraw
    /\ dumpyuv' = IF cmd.name = "DUMPYUV" THEN "later" ELSE dumpyuv
    /\ video' = Video(video, "VIDEO")
    /\ raw_video' = Video(raw_video, "RAWVIDEO")
    /\ state' = IF cmd.name = "TEST" THEN "START" ELSE state
    /\ img_num' = IF cmd.name = "IMGNUM" THEN 0 ELSE img_num
    /\ running' = (running /\ cmd.name # "STOP")
    /\ cmd' = Idle
    /\ UNCHANGED <<dataVars, scenario, pc, case, todo, skip, expo, pair, dumps,
                   sendVars, fifo, buffered, given, window, frames>>

(* The commands that send a packet, and the exposure that is kept after.    *)
CommandMakes ==
    /\ Alive /\ cmd.step = "begin" /\ cmd.name \in DOMAIN Packets
    /\ MakePacket("command", Packets[cmd.name])
    /\ cmd' = [cmd EXCEPT !.step = "send"]
    /\ UNCHANGED <<dataVars, scenario, pc, scriptVars, dumpVars, videoVars, fifo, buffered,
                   given, window, running, frames>>
CommandSends ==
    /\ Alive /\ cmd.step = "send"
    /\ SendPacket("command")
    /\ cmd' = IF cmd.name = "EXP" THEN [cmd EXCEPT !.step = "store"] ELSE Idle
    /\ UNCHANGED <<dataVars, scenario, pc, scriptVars, dumpVars, videoVars, fifo, buffered,
                   given, window, running, frames>>
CommandStores ==
    /\ Alive /\ cmd.step = "store"
    /\ expo' = UserExpo /\ cmd' = Idle
    /\ UNCHANGED <<dataVars, scenario, pc, case, todo, state, skip, img_num, pair, dumpVars,
                   videoVars, sendVars, fifo, buffered, given, window, running, frames>>

CommandThread == TakeCommand \/ parse_command \/ CommandMakes \/ CommandSends \/ CommandStores

(* The X client moves the window, or sets its size when it starts.          *)
MoveWindow ==
    /\ Alive /\ \E j \in scenario.jobs : j # window /\ window' = j
    /\ UNCHANGED <<dataVars, scenario, pc, scriptVars, dumpVars, videoVars, sendVars, cmdVars,
                   running, frames>>

FileOpen == video \in {"PROCESS", "FINISH"}
(* The main thread returns without waiting for the others: the process ends *)
(* wherever they are, and its memory with it.  An AVI file that is open     *)
(* stays as it is.                                                          *)
Exit ==
    /\ ~running /\ Alive /\ pc' = "gone"
    /\ phase' = IF FileOpen THEN "left" ELSE phase
    /\ video' = "NONE" /\ raw_video' = "NONE"
    /\ fifo' = <<>> /\ buffered' = <<>> /\ given' = <<>> /\ cmd' = Idle
    /\ fn' = "idle" /\ second' = FALSE /\ y' = 0 /\ src' = 0 /\ dst' = 0 /\ filled' = {}
    /\ out' = [at |-> 0, px |-> <<>>] /\ size' = -1 /\ frames' = 0
    /\ window' = (CHOOSE j \in scenario.jobs : TRUE) /\ job' = window'
    /\ dumps' = <<>> /\ mixed' = FALSE
    /\ UNCHANGED <<early_probe, api, frame, img, raw16, avi, wrote, stack, fdpos, errs, seen,
                   req_lst_off, avi_size, restore, index, ops, entries, scenario, scriptVars,
                   dumpraw, dumpyuv, writer, camera, running>>

ViewOnly == <<scenario, pc, scriptVars, dumpVars, videoVars, sendVars, cmdVars, window, running, frames>>
LaterParse == pc = "gone" /\ Parse /\ UNCHANGED <<debayerVars, lutVars, ViewOnly>>
Library == pc = "library" /\ UseNext /\ UNCHANGED <<debayerVars, lutVars, ViewOnly>>

ViewerNext ==
    FrameThread \/ WriteCommand \/ CommandThread \/ MoveWindow \/ Exit \/ LaterParse \/ Library

(* The camera goes on sending frames, and the threads are scheduled.        *)
ViewerSpec ==
    /\ ViewerInit /\ [][ViewerNext]_viewerVars
    /\ WF_viewerVars(FrameThread) /\ WF_viewerVars(CommandThread)

----------------------------------------------------------------------------
(* Properties.                                                              *)

(* A sensor test ends, whatever the command thread does to the variables it *)
(* shares with the script, and at whatever point of a frame: after the      *)
(* frames to skip, and a pair of dumps for every exposure.                  *)
TestEnds == state = "START" ~> state = "NOP"

(* The pairs of a test nobody disturbs come in order, A and B of the same   *)
(* exposure, and that exposure is the one the camera was told last: the     *)
(* settings have left before the frames of their step are dumped.  B is     *)
(* numbered after A.                                                        *)
Undisturbed == \A i \in DOMAIN given :
    given[i].name \notin DOMAIN Packets \cup {"DUMPRAW", "IMGNUM"}
PairsInOrder ==
    Undisturbed /\ Tests = 1 =>
        /\ ~mixed
        /\ \A i \in DOMAIN dumps :
            LET step == (i - 1) \div 2
                expected == IF step = 0 THEN StartExpo ELSE StepExpo(step)
            IN  dumps[i] = [num |-> i \div 2, expo |-> expected, camera |-> expected,
                            pair |-> IF i % 2 = 1 THEN "A" ELSE "B"]
=============================================================================
