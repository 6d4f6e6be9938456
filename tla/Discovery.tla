------------------------------ MODULE Discovery ------------------------------
(***************************************************************************)
(* How a client finds its camera.  process_cl_mcast, a thread, reads the    *)
(* announcements of devices into one record, rx_vars, and asks the client's *)
(* find_ifs whether it was the device it wants.  The viewer's find_ifs      *)
(* starts the command thread, process_cm_ifs, which reads the record later, *)
(* and has the camera start its stream.  The client's main thread waits for *)
(* the end of the discovery.                                                *)
(***************************************************************************)
EXTENDS CmdClient

CONSTANTS
    Announcements,  \* datagrams: [cpu, from, resp, ifs], ifs a sequence of
                    \* [type, conn, clients]; "none" where a field is absent
    Wanted,         \* [cpu, from], what the user looks for ("none": no value)
    IFS_NUM_MCL,    \* entries of the table of interfaces
    CL_NUM_MCL      \* entries of an interface's table of clients

ASSUME DiscoveryAssumption ==
    /\ IFS_NUM_MCL \in Nat \ {0} /\ CL_NUM_MCL \in Nat \ {0}
    /\ \A a \in Announcements :
          /\ Listed(a.ifs) /\ Len(a.ifs) <= IFS_NUM_MCL + 1
          /\ \A n \in DOMAIN a.ifs : Listed(a.ifs[n].clients)

VARIABLES
    program,    \* "viewer", "given" (the viewer with -M) or "jpeg"
    mc,         \* the discovery thread: "off", "poll", "read", "answer", "done"
    local_exit,
    rx,         \* rx_vars
    answer,     \* history: the datagram rx was read from
    jpeg_exit,  \* the jpeg client has turned the flag of the discovery
    first_time,
    cm_ifs,     \* the interface of the command threads: an index, 0 for the
                \* one the user has given, -1 for none
    threads,    \* the command threads: [stage, to], and by which answer
    ifs         \* the interface the jpeg client keeps

threadVars == <<first_time, cm_ifs, threads>>
discoVars == <<program, mc, local_exit, rx, answer, jpeg_exit, threadVars, ifs>>

NoIfs == [type |-> "P3_MDM_DATA", conn |-> "zero", clients |-> <<>>, cl_idx |-> 0]
NoAnswer == [cpu |-> "none", from |-> "none", resp |-> FALSE, ifs |-> <<>>]
rx_cleared == [cpu |-> "none", table |-> <<>>, ifs_idx |-> 0, ifs |-> NoIfs, cl_in |-> "zero"]
(* interface[k] counts from 0.  Behind the table lies priv, which is 0: as  *)
(* an interface it would be of the first type.                              *)
interface(k) == IF k < Len(rx.table) THEN rx.table[k + 1] ELSE NoIfs

DiscoveryInit ==
    /\ program \in {"viewer", "given", "jpeg"}
    /\ mc = "off" /\ local_exit = FALSE /\ rx = rx_cleared /\ answer = NoAnswer
    /\ jpeg_exit = FALSE
    /\ first_time = TRUE /\ cm_ifs = -1 /\ threads = <<>>
    /\ ifs = NoIfs

----------------------------------------------------------------------------
(* The reader of announcements.  A field that is absent leaves what was     *)
(* there: of the interface or the client before, in the same datagram.      *)

Field(old, new) == IF new = "none" THEN old ELSE new

client_n(v, conn) ==
    LET in_ == Field(v.cl_in, conn)
        full == v.ifs.cl_idx >= CL_NUM_MCL
    IN  [v EXCEPT !.cl_in = in_, !.ifs.cl_idx = @ + 1,
                  !.ifs.clients = IF full THEN @ ELSE SubSeq(@, 1, v.ifs.cl_idx) \o <<in_>>]

(* Fault: the clients are counted on from one interface to the next.        *)
interface_n_on(v, i) ==
    LET ifs_ == [v.ifs EXCEPT !.type = Field(@, i.type), !.conn = Field(@, i.conn)]
    IN  [v EXCEPT !.ifs = ifs_, !.ifs_idx = @ + 1, !.table = Append(@, ifs_)]

(* component_e, conn_ipv4_t_in and the clients have been read.  The table   *)
(* takes no more than it holds, but the index goes on.                      *)
interface_n(v, i) ==
    LET ifs_ == [v.ifs EXCEPT !.type = Field(@, i.type), !.conn = Field(@, i.conn),
                              !.cl_idx = IF @ >= CL_NUM_MCL THEN CL_NUM_MCL ELSE @]
    IN  IF v.ifs_idx >= IFS_NUM_MCL
        THEN [v EXCEPT !.ifs_idx = @ + 1]
        ELSE [v EXCEPT !.ifs_idx = @ + 1, !.table = Append(@, ifs_),
                       !.ifs = [ifs_ EXCEPT !.cl_idx = 0]]

ReadInterface(v, i) ==
    LET c[n \in 0 .. Len(i.clients)] == IF n = 0 THEN v ELSE client_n(c[n - 1], i.clients[n])
    IN  interface_n(c[Len(i.clients)], i)
ReadAnnouncement(a) ==
    LET v[n \in 0 .. Len(a.ifs)] ==
            IF n = 0 THEN [rx_cleared EXCEPT !.cpu = a.cpu] ELSE ReadInterface(v[n - 1], a.ifs[n])
    IN  v[Len(a.ifs)]

----------------------------------------------------------------------------
(* The discovery thread.                                                    *)

process_cl_mcast ==
    /\ mc' = "poll" /\ local_exit' = TRUE
    /\ UNCHANGED <<rx, answer, jpeg_exit, threadVars, ifs>>

(* The condition of the loop; running is the flag of the client.            *)
GoOn(running) == local_exit' /\ ~jpeg_exit' /\ running
NextTurn(running) == mc' = IF GoOn(running) THEN "poll" ELSE "done"

(* A timeout or a signal: the condition is looked at.                       *)
PollTimeout(running) ==
    /\ mc = "poll"
    /\ UNCHANGED <<local_exit, rx, answer, jpeg_exit, threadVars, ifs>>
    /\ NextTurn(running)

(* mcast_cl_read: the datagram is received and the record cleared, and then *)
(* the datagram is read into it, the root node last.                        *)
mcast_cl_receive(a) ==
    /\ mc = "poll" /\ mc' = "read"
    /\ rx' = rx_cleared /\ answer' = a
    /\ UNCHANGED <<local_exit, jpeg_exit, threadVars, ifs>>
mcast_cl_read ==
    /\ mc = "read" /\ mc' = "answer"
    /\ rx' = ReadAnnouncement(answer)
    /\ UNCHANGED <<local_exit, answer, jpeg_exit, threadVars, ifs>>

IsWanted == rx.cpu = Wanted.cpu \/ answer.from = Wanted.from
FirstOf(type) ==
    LET S == {k \in 1 .. rx.ifs_idx - 1 : interface(k).type = type}
    IN  IF S = {} THEN -1 ELSE CHOOSE k \in S : \A j \in S : k <= j

(* One thread for all discoveries.  With -M the first is started without    *)
(* the mark, and a restart adds another that reads the same fifo.           *)
StartCommandThread(k) ==
    IF k # -1 /\ first_time
    THEN /\ first_time' = FALSE /\ cm_ifs' = k
         /\ threads' = Append(threads, [stage |-> "fifo", to |-> "none", by |-> answer])
    ELSE UNCHANGED threadVars

raw_on(i)  == cam4_cmd_start(cam4_init_abiw_start("RAW", "client"), i.conn)
raw_off    == cam4_cmd_again(cam4_init_abiw_stop("RAW"))
jpeg_on(i) == cam4_cmd_start(cam4_init_abiw_start("JPEG", "none"), i.conn)

(* The viewer's find_ifs: whether the stream could be started is not asked. *)
viewer_find_ifs ==
    /\ program # "jpeg"
    /\ StartCommandThread(FirstOf("P3_CM"))
    /\ IF FirstOf("P3_DEVICE_BOTH") = -1
       THEN UNCHANGED cmdVars ELSE raw_on(interface(FirstOf("P3_DEVICE_BOTH")))
    /\ UNCHANGED <<ifs, jpeg_exit>>
jpeg_find_ifs ==
    /\ program = "jpeg"
    /\ IF FirstOf("P3_DEVICE_BOTH") = -1
       THEN UNCHANGED <<ifs, jpeg_exit>>
       ELSE ifs' = interface(FirstOf("P3_DEVICE_BOTH")) /\ jpeg_exit' = TRUE
    /\ UNCHANGED <<threadVars, cmdVars>>

(* Fault: the discovery goes on after the device was found.                 *)
config_abi_resp_on(running) ==
    /\ mc = "answer" /\ answer.resp /\ IsWanted
    /\ viewer_find_ifs \/ jpeg_find_ifs
    /\ UNCHANGED <<local_exit, rx, answer>>
    /\ NextTurn(running)

(* The action of the root node, and the end of the turn.                    *)
config_abi_resp(running) ==
    /\ mc = "answer" /\ answer.resp /\ IsWanted
    /\ viewer_find_ifs \/ jpeg_find_ifs
    /\ local_exit' = (local_exit /\ FirstOf("P3_DEVICE_BOTH") = -1)
    /\ UNCHANGED <<rx, answer>>
    /\ NextTurn(running)
OtherDevice(running) ==
    /\ mc = "answer" /\ ~(answer.resp /\ IsWanted)
    /\ UNCHANGED <<local_exit, rx, answer, jpeg_exit, threadVars, ifs>>
    /\ NextTurn(running)

(* The thread is joined, and its buffers are released.                      *)
mcast_cl_destroy ==
    /\ mc = "done" /\ mc' = "off"
    /\ answer' = NoAnswer
    /\ UNCHANGED <<local_exit, rx, jpeg_exit, threadVars, ifs>>

----------------------------------------------------------------------------
(* A command thread: it waits until somebody opens the fifo for writing,    *)
(* and only then takes the address from the interface and connects.         *)
process_cm_ifs(n) ==
    /\ threads[n].stage = "fifo"
    /\ LET to == IF cm_ifs = 0 THEN "given" ELSE interface(cm_ifs).conn
       IN  \E stage \in {"serving", "ended"} :
            threads' = [threads EXCEPT ![n].stage = stage, ![n].to = to]
    /\ UNCHANGED <<mc, local_exit, rx, answer, jpeg_exit, first_time, cm_ifs, ifs>>

----------------------------------------------------------------------------
(* Properties.                                                              *)

Take(s, n) == SubSeq(s, 1, IF Len(s) < n THEN Len(s) ELSE n)
States(i) == i.type # "none" /\ i.conn # "none" /\ \A n \in DOMAIN i.clients : i.clients[n] # "none"

(* The table has the interfaces that were announced, as far as it goes,     *)
(* each with its own type, address and clients, when every interface says   *)
(* what it is: nothing is left from an interface before or from an earlier  *)
(* datagram.                                                                *)
TableIsAnnounced ==
    mc = "answer" /\ (\A n \in DOMAIN answer.ifs : States(answer.ifs[n])) =>
        /\ Len(rx.table) = Len(Take(answer.ifs, IFS_NUM_MCL))
        /\ \A n \in DOMAIN rx.table :
            LET i == rx.table[n]
                said == answer.ifs[n]
            IN  /\ i.type = said.type /\ i.conn = said.conn
                /\ i.cl_idx = Len(Take(said.clients, CL_NUM_MCL))
                /\ \A k \in 1 .. i.cl_idx : i.clients[k] = said.clients[k]

(* The command thread looks at the interface long after it was found: the   *)
(* fifo may wait for a user.  It still connects to the address that was     *)
(* announced for commands, if the answer announced the camera as well: the  *)
(* discovery has ended then, and only a command can start another.          *)
InterfaceOf(a, type) == {n \in 2 .. Len(Take(a.ifs, IFS_NUM_MCL)) : a.ifs[n].type = type}
CommandsToAnnounced ==
    program = "viewer" =>
        \A t \in {threads[n] : n \in DOMAIN threads} :
            LET cm == InterfaceOf(t.by, "P3_CM")
            IN  t.stage # "fifo" /\ InterfaceOf(t.by, "P3_DEVICE_BOTH") # {}
                /\ (\A n \in DOMAIN t.by.ifs : States(t.by.ifs[n]))
                => t.to = t.by.ifs[CHOOSE n \in cm : \A k \in cm : n <= k].conn
=============================================================================
