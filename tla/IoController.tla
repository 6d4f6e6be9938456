---------------------------- MODULE IoController ----------------------------
(***************************************************************************)
(* The I/O controller of lib/abi/abi-helpers.c and include/abi/io.h: one   *)
(* thread multiplexes descriptors through two arrays, the pollfd slots and *)
(* the tasks, that are tied together by two index maps.  A slot says which *)
(* task serves it (tasks[slot].tidx), a task says which slot it owns       *)
(* (task.fidx); closing a slot moves the last slot into the hole.          *)
(*                                                                         *)
(* The module keeps every change of the two arrays, of the descriptors'    *)
(* ownership and of the iterator's cursor.  What a handler reads or writes *)
(* on a descriptor is abstracted to the outcome the controller reacts to.  *)
(***************************************************************************)
EXTENDS Integers, FiniteSets, Sequences

CONSTANTS
    Max,          \* ioc->max: slots and tasks the controller was created with
    MaxFd,        \* descriptors are 0 .. MaxFd; 0 is the process's own stdin
    Kinds,        \* the kinds of task the program registers after start-up
    Preset,       \* kinds registered, in slot order, before the iterator runs
    Faults,       \* the failing calls of the environment that are considered
    Sessions,     \* ioc->auth_init and ioc->tm are set
    MaxLimit      \* bound on the data sends a limited task is allowed

Slots == 0 .. Max - 1
Tasks == 0 .. Max - 1
Descriptors == 0 .. MaxFd
AllKinds == {"reader", "socket", "listen", "writer"}
AllFaults == {"fcntl", "malloc", "connect", "send", "listenerr"}
Events == {"IN", "OUT", "ERR"}

ASSUME MaxAssumption == Max \in Nat \ {0}
ASSUME DescriptorAssumption == MaxFd \in Nat
ASSUME KindsAssumption == Kinds \subseteq AllKinds
ASSUME PresetAssumption ==
    /\ Preset \in Seq(AllKinds)
    /\ Len(Preset) <= Max
    /\ Len(Preset) <= MaxFd
ASSUME FaultsAssumption == Faults \subseteq AllFaults
ASSUME SessionsAssumption == Sessions \in BOOLEAN
ASSUME LimitAssumption == MaxLimit \in Nat

(* Kinds whose descriptor abi_close_socket closes: every one but listen.   *)
CloseKinds == {"reader", "socket", "writer"}
(* Kinds with a handler for input, and with a writer half (an opw).        *)
ReadKinds == {"reader", "socket", "listen"}
SendKinds == {"socket", "writer"}
Unlimited == -1

VARIABLES
    cnt,       \* slots in use
    fd,        \* slot -> descriptor
    events,    \* slot -> what poll waits for
    revents,   \* slot -> what poll reported, and abi_kill_task's mark
    tidx,      \* slot -> task
    fidx,      \* task -> slot
    past,      \* the events of a pollfd behind the array were written
    kind,      \* task -> its kind, "free" when the ACTIVE flag is clear
    pending,   \* task -> its writer buffer holds unsent bytes (todo > 0)
    dying,     \* task -> ABI_IO_DYING_TASK
    limit,     \* task -> data sends left (reader.dhash) of a LIMITED task
    expires,   \* task -> its session deadline: off, armed or already past
    unused,    \* task -> halves never initialised since calloc (mm_fd = 0)
    open,      \* descriptors open in the process
    pc,        \* where the iterator is
    cur,       \* slot the iterator looks at
    tries      \* rescans the iterator has left (max_try)

slotVars == <<cnt, fd, events, revents, tidx, fidx, past>>
taskVars == <<kind, pending, dying, limit, expires, unused>>
scanVars == <<pc, cur, tries>>
vars == <<slotVars, taskVars, open, scanVars>>

Used == {s \in Slots : s < cnt}
Active == {t \in Tasks : kind[t] # "free"}

-----------------------------------------------------------------------------
(* Registration *)

(* The halves of a task its registration initialises (mm_fd becomes -1).   *)
Halves(k) == CASE k = "socket" -> {"r", "w"}
               [] k = "reader" -> {"r"}
               [] k = "writer" -> {"w"}
               [] OTHER        -> {}

Init ==
    LET n == Len(Preset) IN
    /\ cnt = n
    /\ fd = [s \in Slots |-> IF s < n THEN s + 1 ELSE 0]
    /\ events = [s \in Slots |-> IF s < n THEN {"IN"} ELSE {}]
    /\ revents = [s \in Slots |-> {}]
    /\ tidx = [s \in Slots |-> IF s < n THEN s ELSE 0]
    /\ fidx = [t \in Tasks |-> IF t < n THEN t ELSE 0]
    /\ past = (n = Max /\ Preset[n] = "writer")
    /\ kind = [t \in Tasks |-> IF t < n THEN Preset[t + 1] ELSE "free"]
    /\ pending = [t \in Tasks |-> FALSE]
    /\ dying = [t \in Tasks |-> FALSE]
    /\ limit = [t \in Tasks |-> Unlimited]
    /\ expires = [t \in Tasks |->
                    IF t < n /\ Preset[t + 1] = "socket" /\ Sessions
                    THEN "armed" ELSE "off"]
    /\ unused = [t \in Tasks |->
                    {"r", "w"} \ (IF t < n THEN Halves(Preset[t + 1]) ELSE {})]
    /\ open = 0 .. n
    /\ pc = "idle" /\ cur = 0 /\ tries = 0

FreeTasks == {t \in Tasks : kind[t] = "free"}
IsFreeTask(t) == t \in FreeTasks /\ \A u \in FreeTasks : t <= u

(* Links, maps and pollfd that abi_ioc_add_fd writes before fcntl.          *)
Link(t, d) ==
    /\ fd' = [fd EXCEPT ![cnt] = d]
    /\ tidx' = [tidx EXCEPT ![cnt] = t]
    /\ fidx' = [fidx EXCEPT ![t] = cnt]

(* Fault: a short write that does not ask poll for POLLOUT.                 *)
AfterSendNoPollout(k, o, ev) ==
    IF o = "idle" /\ k # "writer" THEN (ev \ {"OUT"}) \cup {"IN"} ELSE ev

(* What poll waits for after a send on a task of kind k with outcome o.     *)
AfterSend(k, o, ev) ==
    CASE o = "blocked" -> (ev \ {"IN"}) \cup {"OUT"}
      [] o = "idle"    -> (ev \ {"OUT"}) \cup (IF k = "writer" THEN {} ELSE {"IN"})
      [] o = "done"    -> IF k = "writer" THEN ev \ {"OUT"} ELSE ev \cup {"IN"}
      [] o = "failed"  -> ev

SendResults == {"done", "blocked"} \cup (IF "send" \in Faults THEN {"failed"} ELSE {})

(* abi_ioc_add_fd up to its return value: the slot joins the used ones, a   *)
(* writer clears the events of the slot after its own, which for the last   *)
(* slot is behind the array, and a session sends its capabilities (outcome  *)
(* o) and arms its deadline.                                                *)
Join(k, t, d, o, clears) ==
    /\ Link(t, d)
    /\ cnt' = cnt + 1
    /\ events' = [s \in Slots |->
                    CASE s = cnt -> AfterSend(k, o, {"IN"})
                      [] s = cnt + 1 /\ clears -> {}
                      [] OTHER -> events[s]]
    /\ past' = (past \/ (clears /\ cnt + 1 = Max))
    /\ revents' = [revents EXCEPT ![cnt] = IF o = "failed" THEN {"ERR"} ELSE {}]
    /\ kind' = [kind EXCEPT ![t] = k]
    /\ pending' = [pending EXCEPT ![t] = o \in {"blocked", "failed"}]
    /\ dying' = [dying EXCEPT ![t] = o = "failed"]
    /\ limit' = [limit EXCEPT ![t] = Unlimited]

AddFd(k, t, d) ==
    /\ \E o \in IF k = "socket" /\ Sessions THEN SendResults ELSE {"done"} :
          Join(k, t, d, o, k = "writer")
    /\ unused' = [unused EXCEPT ![t] = @ \ Halves(k)]
    /\ expires' = IF k = "socket" /\ Sessions
                  THEN [expires EXCEPT ![t] = "armed"] ELSE expires

(* Fault: the task is marked active before fcntl, and stays so.             *)
AddFdNoFcntlActive(t, d) ==
    /\ "fcntl" \in Faults
    /\ Link(t, d)
    /\ events' = [events EXCEPT ![cnt] = {"IN"}]
    /\ revents' = [revents EXCEPT ![cnt] = {}]
    /\ kind' = [kind EXCEPT ![t] = "reader"]
    /\ UNCHANGED <<cnt, past, pending, dying, limit, expires, unused>>

(* fcntl fails: only the links are left behind.                            *)
AddFdNoFcntl(t, d) ==
    /\ "fcntl" \in Faults
    /\ Link(t, d)
    /\ events' = [events EXCEPT ![cnt] = {"IN"}]
    /\ revents' = [revents EXCEPT ![cnt] = {}]
    /\ UNCHANGED <<cnt, past, taskVars>>

(* malloc of the buffer of a half fails, for a socket with its reader half  *)
(* done or not: the error is returned, the slot stays.                      *)
AddFdNoBuffer(k, t, d) ==
    /\ "malloc" \in Faults
    /\ Join(k, t, d, "done", FALSE)
    /\ \E done \in {{}} \cup (IF k = "socket" THEN {{"r"}} ELSE {}) :
          unused' = [unused EXCEPT ![t] = @ \ done]
    /\ UNCHANGED expires

(* The kernel hands out the lowest free descriptor.                         *)
IsNewFd(d) == d \notin open /\ \A e \in Descriptors \ open : d <= e

(* One registration of descriptor d by abi_ioc_add_fd; ok is its success.   *)
Register(k, d, ok) ==
    \/ /\ cnt = Max /\ ~ok
       /\ UNCHANGED <<slotVars, taskVars>>
    \/ /\ cnt < Max
       /\ \E t \in Tasks :
            /\ IsFreeTask(t)
            /\ \/ ok /\ AddFd(k, t, d)
               \/ ~ok /\ AddFdNoFcntl(t, d)
               \/ ~ok /\ k # "listen" /\ AddFdNoBuffer(k, t, d)

(* abi_ioc_add_fd_reader: the descriptor is closed when it is refused.      *)
AddReader ==
    /\ pc = "idle" /\ "reader" \in Kinds
    /\ \E d \in Descriptors, ok \in BOOLEAN :
          /\ IsNewFd(d) /\ Register("reader", d, ok)
          /\ open' = IF ok THEN open \cup {d} ELSE open
    /\ UNCHANGED scanVars

(* abi_ioc_add_fd_writer and abi_ioc_set_listen_sock leave a refused        *)
(* descriptor to the caller.                                               *)
AddWriterOrListener ==
    /\ pc = "idle"
    /\ \E k \in Kinds \cap {"writer", "listen"} :
       \E d \in Descriptors, ok \in BOOLEAN :
          /\ IsNewFd(d) /\ Register(k, d, ok)
          /\ open' = open \cup {d}
    /\ UNCHANGED scanVars

(* abi_connect_inet_socket: neither a failed connect nor a refused          *)
(* registration closes the socket.                                         *)
ConnectSocket ==
    /\ pc = "idle" /\ "socket" \in Kinds
    /\ \E d \in Descriptors, ok \in BOOLEAN :
          /\ IsNewFd(d)
          /\ \/ Register("socket", d, ok)
             \/ "connect" \in Faults /\ ~ok /\ UNCHANGED <<slotVars, taskVars>>
          /\ open' = open \cup {d}
    /\ UNCHANGED scanVars

-----------------------------------------------------------------------------
(* Closing and sending *)

(* Faults: the hole keeps its closed descriptor, or its own poll results;   *)
(* the moved task is not told its new slot.                                 *)
MoveLastKeepsFd(s) ==
    LET last == cnt - 1 IN
    /\ fd' = [fd EXCEPT ![last] = 0]
    /\ events' = [events EXCEPT ![s] = events[last], ![last] = {}]
    /\ revents' = [revents EXCEPT ![s] = revents[last], ![last] = {}]

MoveLastClearsRevents(s) ==
    LET last == cnt - 1 IN
    /\ fd' = [fd EXCEPT ![s] = fd[last], ![last] = 0]
    /\ events' = [events EXCEPT ![s] = events[last], ![last] = {}]
    /\ revents' = [revents EXCEPT ![s] = {}, ![last] = {}]

RelinkSlotOnly(s) ==
    /\ tidx' = [tidx EXCEPT ![s] = tidx[cnt - 1]]
    /\ UNCHANGED fidx

(* The last slot's pollfd, and its two index links, move into slot s.       *)
MoveLast(s) ==
    LET last == cnt - 1 IN
    /\ fd' = [fd EXCEPT ![s] = fd[last], ![last] = 0]
    /\ events' = [events EXCEPT ![s] = events[last], ![last] = {}]
    /\ revents' = [revents EXCEPT ![s] = revents[last], ![last] = {}]

Relink(s) ==
    LET last == cnt - 1 IN
    /\ tidx' = [tidx EXCEPT ![s] = tidx[last]]
    /\ fidx' = [fidx EXCEPT ![tidx[last]] = s]

(* free_task_resources and the cleared flags; the deadline is left as it is. *)
FreeTask(t) ==
    /\ kind' = [kind EXCEPT ![t] = "free"]
    /\ pending' = [pending EXCEPT ![t] = FALSE]
    /\ dying' = [dying EXCEPT ![t] = FALSE]
    /\ limit' = [limit EXCEPT ![t] = Unlimited]
    /\ unused' = [unused EXCEPT ![t] = {}]
    /\ UNCHANGED expires

(* abi_close_socket: nothing for a listener; otherwise the descriptor and   *)
(* the halves are released and the last slot is moved into slot s.  An      *)
(* unused half still holds mm_fd = 0 and its release closes descriptor 0.   *)
Close(s) ==
    LET t == tidx[s] IN
    IF kind[t] \notin CloseKinds
    THEN UNCHANGED <<slotVars, taskVars, open>>
    ELSE /\ cnt' = cnt - 1
         /\ MoveLast(s) /\ Relink(s) /\ FreeTask(t) /\ UNCHANGED past
         /\ open' = open \ ({fd[s]} \cup IF unused[t] # {} THEN {0} ELSE {})

(* abi_task_send on every task of T with outcome out[t]; data says whether  *)
(* new bytes are appended.  A failed write marks the task with              *)
(* abi_kill_task, a LIMITED task spends one of its data sends.              *)
SendTo(T, out, data) ==
    /\ pending' = [t \in Tasks |-> IF t \in T THEN out[t] \in {"blocked", "failed"}
                                   ELSE pending[t]]
    /\ limit' = [t \in Tasks |-> IF t \in T /\ data /\ limit[t] > 0
                                 THEN limit[t] - 1 ELSE limit[t]]
    /\ dying' = [t \in Tasks |->
                   \/ dying[t]
                   \/ t \in T /\ (out[t] = "failed" \/ (data /\ limit[t] = 1))]
    /\ events' = [s \in Slots |->
                    IF \E t \in T : fidx[t] = s
                    THEN LET t == CHOOSE u \in T : fidx[u] = s
                         IN AfterSend(kind[t], out[t], events[s])
                    ELSE events[s]]
    /\ revents' = [s \in Slots |->
                    IF \E t \in T : fidx[t] = s /\ out[t] = "failed"
                    THEN revents[s] \cup {"ERR"} ELSE revents[s]]
    /\ UNCHANGED <<cnt, fd, tidx, fidx, past, kind, expires, unused>>

(* Tasks a data send reaches: a LIMITED task that spent its sends is skipped *)
Reachable == {t \in Active : kind[t] \in SendKinds /\ limit[t] # 0}

(* abi_ioc_append2all for the tasks the flags select.                      *)
AppendToAll ==
    \E T \in SUBSET Reachable \ {{}} : \E out \in [T -> SendResults] :
        SendTo(T, out, TRUE)

Broadcast ==
    /\ pc = "idle"
    /\ AppendToAll
    /\ UNCHANGED <<open, scanVars>>

(* The program gives a connection a quota of sends (ABI_IO_LIMITED_TASK).   *)
LimitTask(t) ==
    /\ pc = "idle" /\ MaxLimit > 0
    /\ kind[t] = "socket" /\ limit[t] = Unlimited
    /\ \E n \in 1 .. MaxLimit : limit' = [limit EXCEPT ![t] = n]
    /\ UNCHANGED <<slotVars, kind, pending, dying, expires, unused, open, scanVars>>

(* abi_ioc_release_task: closes the first slot with the task's descriptor.  *)
ReleaseTask(t) ==
    /\ pc = "idle" /\ kind[t] # "free"
    /\ LET same == {s \in Used : fd[s] = fd[fidx[t]]}
       IN \E s \in same : (\A r \in same : s <= r) /\ Close(s)
    /\ UNCHANGED scanVars

-----------------------------------------------------------------------------
(* abi_io_iterator *)

(* What poll may report for slot s; POLLNVAL, on a closed descriptor, is a  *)
(* report that the iterator does not look for.                             *)
Report(s) ==
    IF fd[s] \notin open THEN {}
    ELSE (events[s] \cap {"IN", "OUT"})
            \cup (IF kind[tidx[s]] # "listen" \/ "listenerr" \in Faults
                  THEN {"ERR"} ELSE {})

Poll ==
    /\ pc = "idle" /\ cnt > 0
    /\ \E r \in [Used -> SUBSET Events] :
          /\ \A s \in Used : r[s] \subseteq Report(s)
          /\ \E s \in Used : r[s] # {} \/ fd[s] \notin open
          /\ revents' = [s \in Slots |-> IF s \in Used THEN r[s] ELSE revents[s]]
    /\ pc' = "out" /\ cur' = 0 /\ tries' = cnt - 1
    /\ UNCHANGED <<cnt, fd, events, tidx, fidx, past, taskVars, open>>

(* poll times out: the slots' revents are cleared, deadlines are examined.  *)
PollTimeout ==
    /\ pc = "idle"
    /\ revents' = [s \in Slots |-> IF s \in Used THEN {} ELSE revents[s]]
    /\ pc' = IF Sessions THEN "expire" ELSE "idle"
    /\ UNCHANGED <<cnt, fd, events, tidx, fidx, past, taskVars, open, cur, tries>>

Goto(p) == pc' = p /\ UNCHANGED <<cur, tries>>
NextSlot == pc' = "out" /\ cur' = cur + 1 /\ UNCHANGED tries

(* Faults: the scan goes on behind the hole; the rescans are not counted;   *)
(* the counter is decremented before it is tested.                          *)
CloseAndGoOn == Close(cur) /\ NextSlot
CloseAndRescanFreely == Close(cur) /\ pc' = "out" /\ cur' = 0 /\ UNCHANGED tries
CloseThenCount ==
    /\ Close(cur)
    /\ pc' = (IF tries < 0 THEN "idle" ELSE "out") /\ cur' = 0 /\ tries' = tries - 1

(* abi_close_socket on the current slot, then goto rescan.                  *)
CloseAndRescan ==
    /\ Close(cur)
    /\ IF tries = 0
       THEN Goto("idle")
       ELSE pc' = "out" /\ cur' = 0 /\ tries' = tries - 1

Scanning(phase) == pc = phase /\ cur < cnt
Task == tidx[cur]
Ready(ev, kinds) == ev \in revents[cur] /\ kind[Task] \in kinds

(* POLLOUT: continue a send; an error or the end of a dying task closes it. *)
SendOut ==
    /\ Scanning("out") /\ Ready("OUT", SendKinds)
    /\ \E o \in IF pending[Task] THEN SendResults ELSE {"idle"} :
          IF o = "failed" \/ (o = "done" /\ dying[Task])
          THEN CloseAndRescan
          ELSE /\ SendTo({Task}, [t \in {Task} |-> o], FALSE)
               /\ Goto("in") /\ UNCHANGED open

SkipOut ==
    /\ Scanning("out") /\ ~Ready("OUT", SendKinds)
    /\ Goto("in")
    /\ UNCHANGED <<slotVars, taskVars, open>>

(* POLLIN on a reader or a socket whose handler returns an error.           *)
ReceiveFails ==
    /\ Scanning("in") /\ Ready("IN", {"reader", "socket"})
    /\ CloseAndRescan

(* POLLIN handled: the packet may be incomplete, or denied or granted by    *)
(* the authentication, or make the program send to tasks of its choice.     *)
ReceiveQuietly ==
    /\ Scanning("in") /\ Ready("IN", {"reader", "socket"})
    /\ Goto("err")
    /\ UNCHANGED <<slotVars, taskVars, open>>

ReceiveDenied ==
    /\ Scanning("in") /\ Ready("IN", {"socket"}) /\ expires[Task] # "off"
    /\ dying' = [dying EXCEPT ![Task] = TRUE]
    /\ revents' = [revents EXCEPT ![fidx[Task]] = @ \cup {"ERR"}]
    /\ Goto("err")
    /\ UNCHANGED <<cnt, fd, events, tidx, fidx, past, kind, pending, limit, expires,
                   unused, open>>

ReceiveGranted ==
    /\ Scanning("in") /\ Ready("IN", {"socket"})
    /\ expires' = [expires EXCEPT ![Task] = "off"]
    /\ Goto("err")
    /\ UNCHANGED <<slotVars, kind, pending, dying, limit, unused, open>>

ReceiveAndSend ==
    /\ Scanning("in") /\ Ready("IN", {"reader", "socket"})
    /\ AppendToAll
    /\ Goto("err") /\ UNCHANGED open

(* POLLIN on a listener: abi_ioc_accept_client closes a client it cannot    *)
(* register; when accept itself fails the slot's other events are skipped.  *)
AcceptClient ==
    /\ Scanning("in") /\ Ready("IN", {"listen"})
    /\ \E d \in Descriptors, ok \in BOOLEAN :
          /\ IsNewFd(d) /\ Register("socket", d, ok)
          /\ open' = IF ok THEN open \cup {d} ELSE open
    /\ Goto("err")

AcceptFails ==
    /\ Scanning("in") /\ Ready("IN", {"listen"})
    /\ NextSlot
    /\ UNCHANGED <<slotVars, taskVars, open>>

SkipIn ==
    /\ Scanning("in") /\ ~Ready("IN", ReadKinds)
    /\ Goto("err")
    /\ UNCHANGED <<slotVars, taskVars, open>>

HangUp ==
    /\ Scanning("err") /\ "ERR" \in revents[cur]
    /\ CloseAndRescan

SkipErr ==
    /\ Scanning("err") /\ "ERR" \notin revents[cur]
    /\ NextSlot
    /\ UNCHANGED <<slotVars, taskVars, open>>

ScanDone ==
    /\ pc = "out" /\ cur >= cnt
    /\ Goto("idle")
    /\ UNCHANGED <<slotVars, taskVars, open>>

(* abi_io_on_timeout: close the first late slot and start over.             *)
Late == {s \in Used : expires[tidx[s]] = "late"}

ExpireClose ==
    /\ pc = "expire"
    /\ \E s \in Late : (\A r \in Late : s <= r) /\ Close(s)
    /\ UNCHANGED scanVars

ExpireDone ==
    /\ pc = "expire" /\ Late = {}
    /\ Goto("idle")
    /\ UNCHANGED <<slotVars, taskVars, open>>

(* Time passes the deadline of a task.                                     *)
DeadlinePasses(t) ==
    /\ pc = "idle" /\ expires[t] = "armed"
    /\ expires' = [expires EXCEPT ![t] = "late"]
    /\ UNCHANGED <<slotVars, kind, pending, dying, limit, unused, open, scanVars>>

-----------------------------------------------------------------------------

Scan ==
    \/ SendOut \/ SkipOut
    \/ ReceiveFails \/ ReceiveQuietly \/ ReceiveDenied \/ ReceiveGranted
    \/ ReceiveAndSend \/ AcceptClient \/ AcceptFails \/ SkipIn
    \/ HangUp \/ SkipErr \/ ScanDone
    \/ ExpireClose \/ ExpireDone

Program ==
    \/ AddReader \/ AddWriterOrListener \/ ConnectSocket \/ Broadcast
    \/ \E t \in Tasks : LimitTask(t) \/ ReleaseTask(t)

Next ==
    \/ Program \/ Poll \/ PollTimeout \/ Scan
    \/ \E t \in Tasks : DeadlinePasses(t)

Spec == Init /\ [][Next]_vars
(* The controller's thread calls the iterator for ever (poll has a finite   *)
(* timeout), and a scan that has begun runs on.                            *)
FairSpec == Spec /\ WF_vars(Scan) /\ WF_vars(PollTimeout)

-----------------------------------------------------------------------------
(* Properties *)

(* The arrays, their index maps and the tasks.                             *)
TablesOK ==
    /\ cnt \in 0 .. Max
    /\ fd \in [Slots -> Descriptors]
    /\ events \in [Slots -> SUBSET Events]
    /\ revents \in [Slots -> SUBSET Events]
    /\ tidx \in [Slots -> Tasks]
    /\ fidx \in [Tasks -> Slots]
    /\ kind \in [Tasks -> AllKinds \cup {"free"}]
    /\ pending \in [Tasks -> BOOLEAN]
    /\ dying \in [Tasks -> BOOLEAN]
    /\ limit \in [Tasks -> Int]
    /\ expires \in [Tasks -> {"off", "armed", "late"}]
    /\ unused \in [Tasks -> SUBSET {"r", "w"}]

(* The iterator's cursor.                                                  *)
ScanOK ==
    /\ pc \in {"idle", "out", "in", "err", "expire"}
    /\ cur \in 0 .. Max
    /\ tries \in 0 .. Max

(* Without writers nothing is written behind the arrays; a writer in the    *)
(* last slot does that (abi-helpers.c:1183).                                *)
Writers == "writer" \in Kinds \cup {Preset[i] : i \in DOMAIN Preset}
PastOK == past \in BOOLEAN /\ (past => Writers)

(* The state stays within its types: slots, tasks and the links between     *)
(* them are within the arrays, only a writer writes behind them, and the    *)
(* count of rescans (an unsigned nfds_t) never wraps.                       *)
TypeOK == TablesOK /\ ScanOK /\ open \subseteq Descriptors /\ PastOK

(* The two index maps are inverse to each other on the slots in use and the *)
(* active tasks, whatever the order of registrations, swap-deletes, kills   *)
(* and failures (abi_ioc_add_fd and abi_close_socket).                      *)
IndexMaps ==
    /\ \A s \in Used : kind[tidx[s]] # "free" /\ fidx[tidx[s]] = s
    /\ \A t \in Active : fidx[t] < cnt /\ tidx[fidx[t]] = t

(* A registration that fails takes no task from the table: the "No free     *)
(* task, but should be!!!" branch of abi_ioc_add_fd is dead, while a slot   *)
(* is left, a task is left.                                                 *)
FreeTaskLeft == cnt < Max => FreeTasks # {}

(* Every slot polls a descriptor that is open and that no other slot polls: *)
(* abi_close_socket never leaves a closed descriptor in the array.          *)
DescriptorsOwned ==
    /\ \A s \in Used : fd[s] \in open
    /\ \A r, s \in Used : fd[r] = fd[s] => r = s

(* Unsent bytes are never forgotten: their slot waits for POLLOUT, wherever *)
(* swap-deletes moved it, unless the task is marked to die.                 *)
PendingPolled ==
    \A t \in Active : pending[t] => dying[t] \/ "OUT" \in events[fidx[t]]

(* Closing one slot leaves every other task with its own descriptor, and,   *)
(* while a pass runs, with the events poll reported and the kill marks set   *)
(* for it: the swap-delete of abi_close_socket loses nobody's state.         *)
SurvivorStep ==
    \A t \in Active : kind'[t] # "free" =>
        /\ fd'[fidx'[t]] = fd[fidx[t]]
        /\ pc # "idle" => revents[fidx[t]] \subseteq revents'[fidx'[t]]

SurvivorsKeepSlot == [][SurvivorStep]_vars

(* A pass of abi_io_iterator, its rescans and abi_io_on_timeout's included,  *)
(* comes to an end.                                                         *)
PassEnds == (pc # "idle") ~> (pc = "idle")
=============================================================================
