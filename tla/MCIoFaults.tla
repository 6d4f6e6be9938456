----------------------------- MODULE MCIoFaults -----------------------------
(* Every kind of task, registered in any order, and every failing call.     *)
EXTENDS IoController
NoPreset == <<>>
ServerPreset == <<"listen">>
=============================================================================
