----------------------------- MODULE MCIoServer -----------------------------
(* A server: one listening socket in slot 0, clients come and go.           *)
EXTENDS IoPass
ServerPreset == <<"listen">>
=============================================================================
