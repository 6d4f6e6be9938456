------------------------------- MODULE IoPass -------------------------------
(***************************************************************************)
(* One pass of abi_io_iterator seen from its clients: beside the controller *)
(* are kept the tasks whose input poll has reported and whose handler has   *)
(* not run yet, so that what a pass owes them can be stated.                *)
(***************************************************************************)
EXTENDS IoController

VARIABLES
    owed,      \* tasks reported readable by the last poll, not yet served
    guests,    \* tasks of clients accepted in this pass
    spent      \* one of the guests was closed in the pass

passVars == <<owed, guests, spent>>

(* Tasks poll reports readable and that have a handler for input.          *)
Reported == {tidx[s] : s \in {r \in Used : "IN" \in revents'[r]
                                           /\ kind[tidx[r]] \in ReadKinds}}

PassInit == Init /\ owed = {} /\ guests = {} /\ spent = FALSE

(* poll charges the pass with the tasks it reports.                         *)
PassPoll == Poll /\ owed' = Reported /\ guests' = {} /\ spent' = FALSE

(* The step runs the handler of the current slot.                           *)
Served == Scanning("in") /\ Ready("IN", ReadKinds)

(* A handler's run or the task's end discharges the pass.                   *)
PassStep ==
    /\ Scan
    /\ owed' = {t \in owed : kind'[t] # "free" /\ ~(Served /\ t = Task)}
    /\ guests' = (guests \cup FreeTasks) \ {t \in Tasks : kind'[t] = "free"}
    /\ spent' = (spent \/ \E t \in guests : kind'[t] = "free")

BetweenPasses ==
    /\ Program \/ PollTimeout \/ \E t \in Tasks : DeadlinePasses(t)
    /\ owed' = {t \in owed : kind'[t] # "free"}
    /\ UNCHANGED <<guests, spent>>

PassNext == PassPoll \/ PassStep \/ BetweenPasses
PassSpec == PassInit /\ [][PassNext]_<<vars, passVars>>

(* When the iterator returns, every descriptor poll reported readable has   *)
(* had its handler called or was closed: closing slots in the middle of a   *)
(* scan and moving the last slot down skip nobody.  The rescans, bounded by *)
(* the slots there were at poll, run out only when a client that was        *)
(* accepted in this very pass was closed again.                             *)
NobodySkipped == pc = "idle" /\ ~spent => owed = {}
=============================================================================
