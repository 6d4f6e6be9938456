-------------------------------- MODULE Client --------------------------------
(***************************************************************************)
(* The programs that receive from a camera.  cam4_ps looks for the camera,  *)
(* opens its receive ring and runs its loop, looks again for every REINIT   *)
(* of the command thread, and stops the stream at the end.  The JPEG client *)
(* looks once and reads the frames from the command connection.             *)
(***************************************************************************)
EXTENDS PacketRing, Discovery

VARIABLE main   \* "start", "mcast", "ring", "serve", "frames" or "end"

mcastVars == <<discoVars, cmdVars, frameVars>>
clientVars == <<ringVars, mcastVars, main>>

ClientInit ==
    /\ RingInit /\ DiscoveryInit /\ CmdInit /\ main = "start"
    /\ wmode => program = "jpeg"

(* The first discovery, or with -M the camera the user has given.           *)
StartDiscovery ==
    /\ main = "start" /\ program # "given" /\ main' = "mcast"
    /\ process_cl_mcast
    /\ UNCHANGED <<program, ringVars, cmdVars, frameVars>>
StartGiven ==
    /\ main = "start" /\ program = "given" /\ main' = "ring"
    /\ raw_on([conn |-> "given"])
    /\ cm_ifs' = 0
    /\ threads' = <<[stage |-> "fifo", to |-> "none", by |-> NoAnswer]>>
    /\ UNCHANGED <<program, ringVars, mc, local_exit, rx, answer, jpeg_exit, first_time, ifs, frameVars>>
Discovered ==
    /\ main = "mcast" /\ main' = IF program = "jpeg" THEN "serve" ELSE "ring"
    /\ mcast_cl_destroy
    /\ UNCHANGED <<program, ringVars, cmdVars, frameVars>>

(* cam4_ps_main: the loop, in which a restart is another discovery.         *)
Loop ==
    /\ main = "ring"
    /\ OpenRing \/ RingLoop
    /\ UNCHANGED <<mcastVars, main>>
LookAgain ==
    /\ main = "ring" /\ BeginReinit
    /\ process_cl_mcast
    /\ UNCHANGED <<program, cmdVars, frameVars, main>>
LookedAgain ==
    /\ main = "ring" /\ Reinit
    /\ mcast_cl_destroy
    /\ UNCHANGED <<program, cmdVars, frameVars, main>>
Finish ==
    /\ main = "ring" /\ pc = "closed" /\ main' = "end"
    /\ raw_off
    /\ UNCHANGED <<ringVars, discoVars, frameVars>>

(* The JPEG client: after the start it reads frames until the user stops it.*)
JpegStart ==
    /\ main = "serve"
    /\ IF ifs.type = "P3_DEVICE_BOTH"
       THEN jpeg_on(ifs) /\ main' = IF task' = "none" THEN "end" ELSE "frames"
       ELSE main' = "end" /\ UNCHANGED cmdVars
    /\ UNCHANGED <<ringVars, discoVars, frameVars>>
JpegFrame ==
    /\ main = "frames" /\ no_sig_exit
    /\ cam4_on_frame
    /\ UNCHANGED <<ringVars, discoVars, main>>
JpegEnd ==
    /\ main = "frames" /\ ~no_sig_exit /\ main' = "end"
    /\ UNCHANGED <<ringVars, mcastVars>>

MainThread ==
    \/ StartDiscovery \/ StartGiven \/ Discovered \/ Loop \/ LookAgain \/ LookedAgain \/ Finish
    \/ JpegStart \/ JpegEnd

Receive(a) == mcast_cl_receive(a) /\ UNCHANGED <<program, ringVars, cmdVars, frameVars, main>>
ReceiveAny == \E a \in Announcements : Receive(a)
Read == mcast_cl_read /\ UNCHANGED <<program, ringVars, cmdVars, frameVars, main>>
Answer ==
    /\ config_abi_resp(no_sig_exit)
    /\ UNCHANGED <<program, ringVars, frameVars, main>>
PassOver ==
    /\ OtherDevice(no_sig_exit) \/ PollTimeout(no_sig_exit)
    /\ UNCHANGED <<program, ringVars, cmdVars, frameVars, main>>
DiscoveryThread == Read \/ Answer \/ PassOver

(* The command threads end with the process.                                *)
CommandThread ==
    /\ main # "end"
    /\ \E n \in DOMAIN threads : process_cm_ifs(n)
    /\ UNCHANGED <<program, ringVars, cmdVars, frameVars, main>>
Command ==
    /\ main # "end" /\ \E n \in DOMAIN threads : threads[n].stage = "serving"
    /\ AskReinit
    /\ UNCHANGED <<mcastVars, main>>
StopAsked == Stop /\ UNCHANGED <<mcastVars, main>>
KernelStores == main = "ring" /\ Arrive /\ UNCHANGED <<mcastVars, main>>

ClientNext ==
    \/ MainThread \/ JpegFrame \/ ReceiveAny \/ DiscoveryThread \/ CommandThread
    \/ Command \/ StopAsked \/ KernelStores

(* The threads are scheduled; the stream goes on as long as it is wanted;   *)
(* and a wanted camera that announces itself whole answers again and again. *)
Answering ==
    {a \in Announcements : /\ a.resp /\ (a.cpu = Wanted.cpu \/ a.from = Wanted.from)
                           /\ InterfaceOf(a, "P3_DEVICE_BOTH") # {}}
ClientSpec ==
    /\ ClientInit /\ [][ClientNext]_clientVars
    /\ WF_clientVars(MainThread) /\ WF_clientVars(DiscoveryThread) /\ WF_clientVars(KernelStores /\ no_sig_exit)
    /\ SF_clientVars(\E a \in Answering : Receive(a))

----------------------------------------------------------------------------
(* Properties.                                                              *)

(* The program ends when it is told to, in the loop, in a discovery nobody  *)
(* answers or in one that a restart has begun: unless packets go on coming, *)
(* which can keep the inner loop from ever looking.                         *)
StopEnds ==
    (<>[][arrived' = arrived]_clientVars) => (~no_sig_exit ~> main = "end")
=============================================================================
