---------------------------- MODULE MCAbiStream ----------------------------
(* The two ends of one connection.  The f packets and the empty one go to   *)
(* the client, the c packets to the camera.  f3 fills the send buffer and is *)
(* too long for the receiver; c3 is a command.                              *)
EXTENDS AbiStream, TLC

Opposite == [e \in {"cam", "client"} |-> IF e = "cam" THEN "client" ELSE "cam"]
SenderOf == [p \in Packets |-> IF p \in {"c1", "c3"} THEN "client" ELSE "cam"]
BodyLength ==
    [p \in Packets |-> CASE p = "empty" -> 0
                         [] p \in {"c1", "c3"} -> 1
                         [] p = "f1" -> 2
                         [] p = "f2" -> 3
                         [] p = "f3" -> 4]
=============================================================================
