--------------------------- MODULE MCAuthSession ---------------------------
(* Two instances that share nothing: a connection with sessions, for which  *)
(* each side knows "ann", the camera "bob" as well, and any of the users    *)
(* comes with any of the passwords; and a server that requires no sessions  *)
(* and streams chunks to its clients.                                       *)
EXTENDS AuthSession, ChunkRing, TLC

Opposite == [s \in {"cam", "client"} |-> IF s = "cam" THEN "client" ELSE "cam"]
Accounts == [s \in {"cam", "client"} |->
    IF s = "cam" THEN "ann" :> "pwd" @@ "bob" :> "" ELSE "ann" :> "pwd"]

Streaming == sessions = {}
ServerInit ==
    /\ AuthInit /\ ChunkInit
    /\ Streaming => \A s \in Sides : login[s] = [user |-> "ann", secret |-> "pwd"]
Session(A) == ~Streaming /\ A /\ UNCHANGED chunkVars
Stream == Streaming /\ ChunkNext /\ UNCHANGED authVars
serverVars == <<authVars, chunkVars>>
ServerSpec ==
    /\ ServerInit /\ [][Session(AuthNext) \/ Stream]_serverVars
    /\ \A s \in Sides :
        /\ WF_serverVars(Session(Flush(s))) /\ WF_serverVars(Session(ReceiveGated(s)))
        /\ WF_serverVars(Session(ReceiveOpen(s)))
        /\ WF_serverVars(Session(HangUp(s))) /\ WF_serverVars(Session(Expire(s)))
=============================================================================
