------------------------- MODULE IoControllerProofs -------------------------
(***************************************************************************)
(* Proofs about the I/O controller and its passes, for every size of its    *)
(* tables, every initial population and every choice of faults.            *)
(*                                                                          *)
(* First: its types, the inverse index maps, the wait for POLLOUT, and what *)
(* a step leaves to the tasks it does not close.  The inductive invariant   *)
(* is the conjunction of the types, IndexMaps and PendingPolled.  IndexMaps *)
(* needs the types for the array updates; the other two need IndexMaps,     *)
(* because events and fd are found through fidx.                            *)
(*                                                                          *)
(* Then, on top of that invariant, a server's promises: every slot in use   *)
(* has a descriptor of its own that is open, and a pass of abi_io_iterator  *)
(* skips no task whose input poll has reported.  The first holds of         *)
(* programs that register sockets and listeners only and whose allocations  *)
(* succeed (OnlySockets): any other task has a half that was never          *)
(* initialised, and releasing it closes descriptor 0.  The second holds     *)
(* while poll reports no error on a listener: abi_close_socket does nothing *)
(* for one, so the pass would use up its rescans on it.                     *)
(***************************************************************************)
EXTENDS IoPass, FiniteSetTheorems, TLAPS

Tables == TablesOK /\ IndexMaps /\ PendingPolled
Core == TablesOK /\ ScanOK /\ open \subseteq Descriptors
Inv == Core /\ IndexMaps /\ PendingPolled

-----------------------------------------------------------------------------
(* Slots and tasks are the same range of integers, below Max.              *)
LEMMA SlotRange == \A r \in Slots : r \in Int /\ 0 <= r /\ r < Max
BY MaxAssumption DEF Slots

(* Integers below Max are slots.                                            *)
LEMMA SlotIntro == \A r \in Int : 0 <= r /\ r < Max => r \in Slots
BY MaxAssumption DEF Slots

(* There are as many tasks as slots.                                        *)
LEMMA SlotsAreTasks == Slots = Tasks
BY MaxAssumption DEF Slots, Tasks

(* The count of slots in use is within the table.                           *)
LEMMA CountRange ==
    ASSUME TablesOK
    PROVE  cnt \in Int /\ Max \in Int /\ 0 <= cnt /\ cnt <= Max
BY MaxAssumption DEF TablesOK

(* A used slot, the last used slot and the tasks that serve them exist.     *)
LEMMA UsedSlot ==
    ASSUME TablesOK, NEW s \in Used
    PROVE  /\ s \in Slots /\ cnt - 1 \in Slots /\ s <= cnt - 1 /\ cnt - 1 \in Used
           /\ tidx[s] \in Tasks /\ tidx[cnt - 1] \in Tasks
<1>1. s \in Slots /\ cnt - 1 \in Slots /\ s <= cnt - 1
  BY SlotRange, SlotIntro, CountRange DEF Used
<1> QED BY <1>1, CountRange DEF Used, TablesOK

(* AfterSend yields a set of poll events, and one with OUT when it blocks.  *)
LEMMA AfterSendEvents ==
    ASSUME NEW k, NEW o \in {"done", "blocked", "idle", "failed"},
           NEW ev \in SUBSET Events
    PROVE  /\ AfterSend(k, o, ev) \in SUBSET Events
           /\ o = "blocked" => "OUT" \in AfterSend(k, o, ev)
BY DEF AfterSend, Events

-----------------------------------------------------------------------------
(* The swap-delete of abi_close_socket                                      *)

(* The parts of a close of slot s that is not a listener's.                 *)
SwapDelete(s) ==
    cnt' = cnt - 1 /\ MoveLast(s) /\ Relink(s) /\ FreeTask(tidx[s])

(* A swap-delete keeps the arrays within their types.                       *)
LEMMA SwapDeleteTypes ==
    ASSUME TablesOK, NEW s \in Used, SwapDelete(s)
    PROVE  TablesOK'
<1>1. cnt' \in 0 .. Max
  BY UsedSlot, CountRange, SlotRange DEF SwapDelete
<1>2. /\ fd' \in [Slots -> Descriptors]
      /\ events' \in [Slots -> SUBSET Events]
      /\ revents' \in [Slots -> SUBSET Events]
  <2>1. 0 \in Descriptors BY DescriptorAssumption DEF Descriptors
  <2> QED BY <2>1, UsedSlot DEF SwapDelete, TablesOK, MoveLast
<1>3. tidx' \in [Slots -> Tasks] /\ fidx' \in [Tasks -> Slots]
  BY UsedSlot DEF SwapDelete, TablesOK, Relink
<1>4. /\ kind' \in [Tasks -> AllKinds \cup {"free"}]
      /\ pending' \in [Tasks -> BOOLEAN]
      /\ dying' \in [Tasks -> BOOLEAN]
      /\ limit' \in [Tasks -> Int]
      /\ expires' \in [Tasks -> {"off", "armed", "late"}]
      /\ unused' \in [Tasks -> SUBSET {"r", "w"}]
  BY UsedSlot DEF SwapDelete, TablesOK, FreeTask, Unlimited
<1> QED BY <1>1, <1>2, <1>3, <1>4 DEF TablesOK

(* A surviving task keeps its slot, unless that was the last one: then it   *)
(* gets the hole.                                                           *)
LEMMA SurvivorSlot ==
    ASSUME TablesOK, IndexMaps, NEW s \in Used, SwapDelete(s),
           NEW u \in Active, kind'[u] # "free"
    PROVE  /\ u \in Tasks /\ u # tidx[s] /\ kind'[u] = kind[u]
           /\ fidx[u] \in Slots /\ fidx[u] < cnt /\ tidx[fidx[u]] = u
           /\ fidx[u] # s
           /\ \/ fidx[u] = cnt - 1 /\ fidx'[u] = s /\ s < cnt - 1
              \/ fidx[u] < cnt - 1 /\ fidx'[u] = fidx[u]
<1>1. /\ u \in Tasks /\ u # tidx[s] /\ kind'[u] = kind[u]
  BY UsedSlot DEF Active, SwapDelete, FreeTask, TablesOK
<1>2. fidx[u] \in Slots /\ fidx[u] < cnt /\ tidx[fidx[u]] = u
  BY <1>1 DEF IndexMaps, TablesOK
<1>3. fidx[u] # s BY <1>1, <1>2
<1>4. CASE fidx[u] = cnt - 1
  <2>1. u = tidx[cnt - 1] BY <1>2, <1>4
  <2>2. fidx'[u] = s BY <2>1, <1>1 DEF SwapDelete, Relink, TablesOK
  <2>3. s < cnt - 1 BY <1>3, <1>4, UsedSlot, SlotRange, CountRange
  <2> QED BY <1>1, <1>2, <1>3, <1>4, <2>2, <2>3
<1>5. CASE fidx[u] # cnt - 1
  <2>1. fidx[u] < cnt - 1 BY <1>2, <1>5, SlotRange, CountRange
  <2>2. fidx[tidx[cnt - 1]] = cnt - 1 BY UsedSlot DEF IndexMaps
  <2>3. u # tidx[cnt - 1] BY <1>5, <2>2
  <2>4. fidx'[u] = fidx[u] BY <2>3, <1>1 DEF SwapDelete, Relink, TablesOK
  <2> QED BY <1>1, <1>2, <1>3, <2>1, <2>4
<1> QED BY <1>4, <1>5

(* What the surviving task finds in its slot is what it had there.          *)
LEMMA SurvivorPollfd ==
    ASSUME TablesOK, IndexMaps, NEW s \in Used, SwapDelete(s),
           NEW u \in Active, kind'[u] # "free"
    PROVE  /\ tidx'[fidx'[u]] = u /\ fidx'[u] < cnt'
           /\ fd'[fidx'[u]] = fd[fidx[u]]
           /\ events'[fidx'[u]] = events[fidx[u]]
           /\ revents'[fidx'[u]] = revents[fidx[u]]
<1>1. /\ fidx[u] \in Slots /\ fidx[u] < cnt /\ tidx[fidx[u]] = u /\ fidx[u] # s
      /\ \/ fidx[u] = cnt - 1 /\ fidx'[u] = s /\ s < cnt - 1
         \/ fidx[u] < cnt - 1 /\ fidx'[u] = fidx[u]
  BY SurvivorSlot
<1>2. s \in Slots /\ cnt - 1 \in Slots BY UsedSlot
<1>3. CASE fidx[u] = cnt - 1 /\ fidx'[u] = s /\ s < cnt - 1
  <2>1. s # cnt - 1 BY <1>2, <1>3, SlotRange
  <2> QED BY <1>1, <1>2, <1>3, <2>1 DEF SwapDelete, MoveLast, Relink, TablesOK
<1>4. CASE fidx[u] < cnt - 1 /\ fidx'[u] = fidx[u]
  <2>1. fidx[u] # cnt - 1 BY <1>1, <1>2, <1>4, SlotRange
  <2> QED BY <1>1, <1>2, <1>4, <2>1 DEF SwapDelete, MoveLast, Relink, TablesOK
<1> QED BY <1>1, <1>3, <1>4

(* A swap-delete keeps the maps inverse.                                    *)
LEMMA SwapDeleteMaps ==
    ASSUME TablesOK, IndexMaps, NEW s \in Used, SwapDelete(s)
    PROVE  IndexMaps'
<1>1. ASSUME NEW r \in Slots, r < cnt'
      PROVE  kind'[tidx'[r]] # "free" /\ fidx'[tidx'[r]] = r
  <2>1. r < cnt - 1 /\ r \in Used
    BY <1>1, CountRange, SlotRange DEF SwapDelete, Used
  <2>2. s \in Slots /\ cnt - 1 \in Used /\ s <= cnt - 1 /\ tidx[s] \in Tasks
        /\ tidx[cnt - 1] \in Tasks
    BY UsedSlot
  <2>3. CASE r = s
    <3>1. tidx'[r] = tidx[cnt - 1] /\ fidx'[tidx[cnt - 1]] = s
      BY <2>2, <2>3 DEF SwapDelete, Relink, TablesOK
    <3>2. tidx[cnt - 1] # tidx[s]
      BY <2>1, <2>2, <2>3, SlotRange DEF IndexMaps
    <3>3. kind'[tidx[cnt - 1]] = kind[tidx[cnt - 1]]
      BY <2>2, <3>2 DEF SwapDelete, FreeTask, TablesOK
    <3> QED BY <2>2, <2>3, <3>1, <3>3 DEF IndexMaps
  <2>4. CASE r # s
    <3>1. tidx'[r] = tidx[r] /\ tidx[r] \in Tasks
      BY <1>1, <2>4 DEF SwapDelete, Relink, TablesOK
    <3>2. tidx[r] # tidx[s] /\ tidx[r] # tidx[cnt - 1]
      BY <2>1, <2>2, <2>4, SlotRange DEF IndexMaps
    <3>3. kind'[tidx[r]] = kind[tidx[r]] /\ fidx'[tidx[r]] = fidx[tidx[r]]
      BY <2>2, <3>1, <3>2 DEF SwapDelete, FreeTask, Relink, TablesOK
    <3> QED BY <2>1, <3>1, <3>3 DEF IndexMaps
  <2> QED BY <2>3, <2>4
<1>2. ASSUME NEW u \in Tasks, kind'[u] # "free"
      PROVE  fidx'[u] < cnt' /\ tidx'[fidx'[u]] = u
  <2>1. u \in Active
    BY <1>2, UsedSlot DEF Active, SwapDelete, FreeTask, TablesOK
  <2> QED BY <1>2, <2>1, SurvivorPollfd
<1> QED BY <1>1, <1>2 DEF IndexMaps, Used, Active

(* A swap-delete keeps the wait of every task with unsent bytes.            *)
LEMMA SwapDeletePending ==
    ASSUME TablesOK, IndexMaps, PendingPolled, NEW s \in Used, SwapDelete(s)
    PROVE  PendingPolled'
<1> SUFFICES ASSUME NEW u \in Tasks, kind'[u] # "free", pending'[u]
             PROVE  dying'[u] \/ "OUT" \in events'[fidx'[u]]
  BY DEF PendingPolled, Active
<1>1. u \in Active /\ u # tidx[s]
  BY UsedSlot DEF Active, SwapDelete, FreeTask, TablesOK
<1>2. pending[u] /\ dying'[u] = dying[u]
  BY <1>1, UsedSlot DEF SwapDelete, FreeTask, TablesOK
<1>3. events'[fidx'[u]] = events[fidx[u]]
  BY <1>1, SurvivorPollfd
<1> QED BY <1>1, <1>2, <1>3 DEF PendingPolled

(* What abi_close_socket keeps, for a listener (nothing changes) and others. *)
LEMMA CloseKeeps ==
    ASSUME Tables, NEW s \in Used, Close(s)
    PROVE  /\ Tables' /\ SurvivorStep
           /\ open \subseteq Descriptors => open' \subseteq Descriptors
<1>1. CASE kind[tidx[s]] \notin CloseKinds
  BY <1>1 DEF Tables, TablesOK, IndexMaps, PendingPolled, Close, SurvivorStep,
              slotVars, taskVars, Active, Used
<1>2. CASE kind[tidx[s]] \in CloseKinds
  <2>1. SwapDelete(s) BY <1>2 DEF Close, SwapDelete
  <2>2. Tables'
    BY <2>1, SwapDeleteTypes, SwapDeleteMaps, SwapDeletePending DEF Tables
  <2>3. SurvivorStep
    BY <2>1, SurvivorPollfd DEF SurvivorStep, Tables
  <2>4. open' \subseteq open BY <1>2 DEF Close
  <2> QED BY <2>2, <2>3, <2>4
<1> QED BY <1>1, <1>2

-----------------------------------------------------------------------------
(* Registration                                                             *)

(* The next slot exists, is not in use, and the task taken is not active.   *)
LEMMA NextSlotFree ==
    ASSUME TablesOK, cnt < Max
    PROVE  cnt \in Slots /\ cnt \notin Used /\ cnt + 1 \in 0 .. Max
<1>1. cnt \in Slots BY CountRange, SlotIntro
<1> QED BY <1>1, CountRange DEF Used

(* A link made for a free task disturbs no task that is active.             *)
LEMMA LinkKeeps ==
    ASSUME TablesOK, IndexMaps, cnt < Max, NEW t \in FreeTasks,
           NEW d \in Descriptors, Link(t, d)
    PROVE  /\ fd' \in [Slots -> Descriptors] /\ tidx' \in [Slots -> Tasks]
           /\ fidx' \in [Tasks -> Slots]
           /\ fidx'[t] = cnt /\ tidx'[cnt] = t
           /\ \A s \in Used : tidx'[s] = tidx[s] /\ fd'[s] = fd[s] /\ tidx[s] # t
                              /\ fidx'[tidx[s]] = s
           /\ \A u \in Active : u # t /\ fidx'[u] = fidx[u] /\ fidx[u] \in Used
                                /\ tidx'[fidx[u]] = u
<1>1. cnt \in Slots /\ cnt \notin Used /\ t \in Tasks /\ kind[t] = "free"
  BY NextSlotFree DEF FreeTasks
<1>2. /\ fd' \in [Slots -> Descriptors] /\ tidx' \in [Slots -> Tasks]
      /\ fidx' \in [Tasks -> Slots]
      /\ fidx'[t] = cnt /\ tidx'[cnt] = t
  BY <1>1 DEF Link, TablesOK
<1>3. ASSUME NEW s \in Used
      PROVE  tidx'[s] = tidx[s] /\ fd'[s] = fd[s] /\ tidx[s] # t
             /\ fidx'[tidx[s]] = s
  <2>1. s \in Slots /\ s # cnt /\ tidx[s] \in Tasks
    BY <1>1, UsedSlot
  <2>2. tidx[s] # t BY <1>1 DEF IndexMaps
  <2> QED BY <1>1, <2>1, <2>2 DEF Link, TablesOK, IndexMaps
<1>4. ASSUME NEW u \in Active
      PROVE  u # t /\ fidx'[u] = fidx[u] /\ fidx[u] \in Used /\ tidx'[fidx[u]] = u
  <2>1. u \in Tasks /\ u # t BY <1>1 DEF Active
  <2>2. fidx[u] \in Used /\ tidx[fidx[u]] = u
    BY <2>1 DEF IndexMaps, TablesOK, Used
  <2> QED BY <1>1, <1>3, <2>1, <2>2 DEF Link, TablesOK
<1> QED BY <1>2, <1>3, <1>4

(* A descriptor joins the tables with a task of its own.                    *)
LEMMA JoinKeeps ==
    ASSUME Tables, cnt < Max, NEW t \in FreeTasks, NEW d \in Descriptors,
           NEW k \in AllKinds, NEW o \in {"done", "blocked", "failed"},
           NEW clears \in BOOLEAN, Join(k, t, d, o, clears),
           expires' \in [Tasks -> {"off", "armed", "late"}],
           unused' \in [Tasks -> SUBSET {"r", "w"}]
    PROVE  Tables' /\ SurvivorStep
<1>1. TablesOK /\ IndexMaps /\ PendingPolled /\ Link(t, d) /\ t \in Tasks
      /\ cnt \in Slots /\ cnt \notin Used
  BY NextSlotFree DEF Tables, Join, FreeTasks
<1>2. /\ \A s \in Used : tidx'[s] = tidx[s] /\ fd'[s] = fd[s] /\ tidx[s] # t
                         /\ fidx'[tidx[s]] = s
      /\ \A u \in Active : u # t /\ fidx'[u] = fidx[u] /\ fidx[u] \in Used
                           /\ tidx'[fidx[u]] = u
      /\ fidx'[t] = cnt /\ tidx'[cnt] = t
  BY <1>1, LinkKeeps DEF Tables
<1>3. events' \in [Slots -> SUBSET Events]
      /\ (o = "blocked" => "OUT" \in events'[cnt])
      /\ \A s \in Used : events'[s] = events[s]
  <2>1. {"IN"} \in SUBSET Events BY DEF Events
  <2>2. AfterSend(k, o, {"IN"}) \in SUBSET Events
        /\ (o = "blocked" => "OUT" \in AfterSend(k, o, {"IN"}))
    BY <2>1, AfterSendEvents
  <2>3. \A s \in Used : s \in Slots /\ s # cnt /\ s # cnt + 1
    BY <1>1, CountRange, SlotRange DEF Used
  <2> QED BY <1>1, <2>2, <2>3 DEF Join, TablesOK
<1>4. TablesOK'
  <2>1. cnt' \in 0 .. Max BY <1>1, NextSlotFree DEF Join
  <2>2. revents' \in [Slots -> SUBSET Events]
    <3>1. {"ERR"} \in SUBSET Events BY DEF Events
    <3> QED BY <1>1, <3>1 DEF Join, TablesOK
  <2>3. /\ kind' \in [Tasks -> AllKinds \cup {"free"}]
        /\ pending' \in [Tasks -> BOOLEAN]
        /\ dying' \in [Tasks -> BOOLEAN]
        /\ limit' \in [Tasks -> Int]
    BY <1>1 DEF Join, TablesOK, Unlimited
  <2> QED BY <1>1, <1>3, <2>1, <2>2, <2>3, LinkKeeps DEF TablesOK
<1>5. /\ kind'[t] = k /\ k # "free" /\ pending'[t] = (o \in {"blocked", "failed"})
      /\ dying'[t] = (o = "failed")
      /\ \A u \in Tasks : u # t => kind'[u] = kind[u] /\ pending'[u] = pending[u]
                                   /\ dying'[u] = dying[u]
  BY <1>1 DEF Join, TablesOK, AllKinds
<1>6. cnt' = cnt + 1 /\ \A s \in Slots : s < cnt' => s \in Used \/ s = cnt
  BY <1>1, CountRange, SlotRange DEF Join, Used
<1>7. IndexMaps'
  <2>1. ASSUME NEW s \in Slots, s < cnt'
        PROVE  kind'[tidx'[s]] # "free" /\ fidx'[tidx'[s]] = s
    <3>1. CASE s = cnt BY <3>1, <1>2, <1>5
    <3>2. CASE s \in Used BY <3>2, <1>1, <1>2, <1>5, UsedSlot DEF IndexMaps
    <3> QED BY <2>1, <1>6, <3>1, <3>2
  <2>2. ASSUME NEW u \in Tasks, kind'[u] # "free"
        PROVE  fidx'[u] < cnt' /\ tidx'[fidx'[u]] = u
    <3>1. CASE u = t BY <3>1, <1>1, <1>2, <1>6, CountRange
    <3>2. CASE u # t
      <4>1. u \in Active BY <2>2, <3>2, <1>5 DEF Active
      <4> QED BY <4>1, <1>1, <1>2, <1>6, CountRange, SlotRange DEF Used
    <3> QED BY <3>1, <3>2
  <2> QED BY <2>1, <2>2 DEF IndexMaps, Used, Active
<1>8. PendingPolled'
  <2> SUFFICES ASSUME NEW u \in Tasks, kind'[u] # "free", pending'[u]
               PROVE  dying'[u] \/ "OUT" \in events'[fidx'[u]]
    BY DEF PendingPolled, Active
  <2>1. CASE u = t BY <2>1, <1>2, <1>3, <1>5
  <2>2. CASE u # t
    <3>1. u \in Active BY <2>2, <1>5 DEF Active
    <3> QED BY <3>1, <2>2, <1>1, <1>2, <1>3, <1>5 DEF PendingPolled
  <2> QED BY <2>1, <2>2
<1>9. SurvivorStep
  <2> SUFFICES ASSUME NEW u \in Active
               PROVE  /\ fd'[fidx'[u]] = fd[fidx[u]]
                      /\ revents[fidx[u]] \subseteq revents'[fidx'[u]]
    BY DEF SurvivorStep
  <2>1. fidx'[u] = fidx[u] /\ fidx[u] \in Used /\ fidx[u] # cnt /\ fidx[u] \in Slots
    BY <1>1, <1>2, UsedSlot
  <2>2. revents'[fidx[u]] = revents[fidx[u]]
    BY <1>1, <2>1 DEF Join, TablesOK
  <2> QED BY <1>2, <2>1, <2>2
<1> QED BY <1>4, <1>7, <1>8, <1>9 DEF Tables

(* So it does when fcntl has failed.                                        *)
LEMMA NoFcntlKeeps ==
    ASSUME Tables, cnt < Max, NEW t \in FreeTasks, NEW d \in Descriptors,
           AddFdNoFcntl(t, d)
    PROVE  Tables' /\ SurvivorStep
<1>1. TablesOK /\ IndexMaps /\ PendingPolled /\ Link(t, d)
      /\ cnt' = cnt /\ UNCHANGED <<kind, pending, dying, limit, expires, unused>>
      /\ cnt \in Slots /\ cnt \notin Used
  BY NextSlotFree DEF Tables, AddFdNoFcntl, taskVars
<1>2. /\ fd' \in [Slots -> Descriptors] /\ tidx' \in [Slots -> Tasks]
      /\ fidx' \in [Tasks -> Slots]
      /\ \A s \in Used : tidx'[s] = tidx[s] /\ fd'[s] = fd[s] /\ tidx[s] # t
                         /\ fidx'[tidx[s]] = s
      /\ \A u \in Active : u # t /\ fidx'[u] = fidx[u] /\ fidx[u] \in Used
                           /\ tidx'[fidx[u]] = u
  BY <1>1, LinkKeeps DEF Tables
<1>3. /\ events' \in [Slots -> SUBSET Events] /\ revents' \in [Slots -> SUBSET Events]
      /\ \A s \in Used : events'[s] = events[s] /\ revents'[s] = revents[s]
  <2>1. {"IN"} \in SUBSET Events /\ {} \in SUBSET Events BY DEF Events
  <2>2. \A s \in Used : s \in Slots /\ s # cnt BY <1>1, UsedSlot
  <2> QED BY <1>1, <2>1, <2>2 DEF AddFdNoFcntl, TablesOK
<1>4. Used' = Used /\ Active' = Active BY <1>1 DEF Used, Active
<1>5. TablesOK' BY <1>1, <1>2, <1>3 DEF TablesOK
<1>6. IndexMaps'
  <2>1. \A s \in Used : kind'[tidx'[s]] # "free" /\ fidx'[tidx'[s]] = s
    BY <1>1, <1>2 DEF IndexMaps
  <2>2. \A u \in Active : fidx'[u] < cnt' /\ tidx'[fidx'[u]] = u
    BY <1>1, <1>2 DEF Used
  <2> QED BY <1>4, <2>1, <2>2 DEF IndexMaps
<1>7. PendingPolled' BY <1>1, <1>2, <1>3, <1>4 DEF PendingPolled
<1>8. SurvivorStep BY <1>2, <1>3 DEF SurvivorStep
<1> QED BY <1>5, <1>6, <1>7, <1>8 DEF Tables

(* A registration keeps the tables, whether it succeeds or fails.           *)
LEMMA RegisterKeeps ==
    ASSUME Tables, NEW k \in AllKinds, NEW d \in Descriptors, NEW ok,
           Register(k, d, ok)
    PROVE  Tables' /\ SurvivorStep
<1>1. CASE cnt = Max /\ UNCHANGED <<slotVars, taskVars>>
  BY <1>1 DEF Tables, TablesOK, IndexMaps, PendingPolled, SurvivorStep, slotVars,
              taskVars, Used, Active
<1>2. CASE cnt < Max
  <2>1. PICK t \in FreeTasks :
             \/ AddFd(k, t, d)
             \/ AddFdNoFcntl(t, d)
             \/ AddFdNoBuffer(k, t, d)
    BY <1>2, CountRange DEF Register, IsFreeTask, Tables
  <2>2. TablesOK /\ t \in Tasks BY DEF Tables, FreeTasks
  <2>3. CASE AddFd(k, t, d)
    <3>1. PICK o \in {"done", "blocked", "failed"} : Join(k, t, d, o, k = "writer")
      BY <2>3 DEF AddFd, SendResults
    <3>2. expires' \in [Tasks -> {"off", "armed", "late"}]
          /\ unused' \in [Tasks -> SUBSET {"r", "w"}]
      BY <2>2, <2>3 DEF AddFd, TablesOK
    <3>3. PICK clears \in BOOLEAN : clears = (k = "writer") OBVIOUS
    <3>4. Join(k, t, d, o, clears) BY <3>1, <3>3
    <3> QED BY <1>2, <3>2, <3>4, JoinKeeps
  <2>4. CASE AddFdNoBuffer(k, t, d)
    <3>1. Join(k, t, d, "done", FALSE) BY <2>4 DEF AddFdNoBuffer
    <3>2. expires' \in [Tasks -> {"off", "armed", "late"}]
          /\ unused' \in [Tasks -> SUBSET {"r", "w"}]
      BY <2>2, <2>4 DEF AddFdNoBuffer, TablesOK
    <3> QED BY <1>2, <3>1, <3>2, JoinKeeps
  <2> QED BY <1>2, <2>1, <2>3, <2>4, NoFcntlKeeps
<1> QED BY <1>1, <1>2 DEF Register

-----------------------------------------------------------------------------
(* Sending                                                                  *)

(* A send keeps the tables: what it leaves unsent is waited for.            *)
LEMMA SendToKeeps ==
    ASSUME Tables, NEW T \in SUBSET Active,
           NEW out \in [T -> {"done", "blocked", "idle", "failed"}],
           NEW data, SendTo(T, out, data)
    PROVE  Tables' /\ SurvivorStep
<1>1. TablesOK /\ IndexMaps /\ PendingPolled
      /\ UNCHANGED <<cnt, fd, tidx, fidx, kind, expires, unused>>
      /\ T \subseteq Tasks
  BY DEF Tables, SendTo, Active
(* A slot is reached through one task only, so CHOOSE has no choice.        *)
<1>2. \A s \in Slots, u \in T, v \in T : fidx[u] = s /\ fidx[v] = s => u = v
  BY <1>1 DEF IndexMaps
<1>3. ASSUME NEW s \in Slots
      PROVE  events'[s] \in SUBSET Events
             /\ \A u \in T : fidx[u] = s /\ out[u] = "blocked" => "OUT" \in events'[s]
  <2>1. CASE \E t \in T : fidx[t] = s
    <3> DEFINE w == CHOOSE u \in T : fidx[u] = s
    <3>1. w \in T /\ fidx[w] = s BY <2>1
    <3>2. events'[s] = AfterSend(kind[w], out[w], events[s])
      BY <2>1 DEF SendTo
    <3>3. out[w] \in {"done", "blocked", "idle", "failed"} BY <3>1
    <3>4. events[s] \in SUBSET Events BY <1>1 DEF TablesOK
    <3>5. /\ AfterSend(kind[w], out[w], events[s]) \in SUBSET Events
          /\ out[w] = "blocked" => "OUT" \in AfterSend(kind[w], out[w], events[s])
      BY <3>3, <3>4, AfterSendEvents
    <3> QED BY <1>2, <3>1, <3>2, <3>5
  <2>2. CASE ~ \E t \in T : fidx[t] = s
    <3>1. events'[s] = events[s] BY <2>2 DEF SendTo
    <3> QED BY <1>1, <2>2, <3>1 DEF TablesOK
  <2> QED BY <2>1, <2>2
<1>4. TablesOK'
  <2>1. events' \in [Slots -> SUBSET Events]
    <3>1. events' = [s \in Slots |-> events'[s]] BY DEF SendTo
    <3> QED BY <1>3, <3>1
  <2>2. revents' \in [Slots -> SUBSET Events]
    <3>1. "ERR" \in Events BY DEF Events
    <3>2. revents' = [s \in Slots |->
                        IF \E t \in T : fidx[t] = s /\ out[t] = "failed"
                        THEN revents[s] \cup {"ERR"} ELSE revents[s]]
      BY DEF SendTo
    <3>3. \A s \in Slots : revents[s] \subseteq Events BY <1>1 DEF TablesOK
    <3>4. \A s \in Slots : revents'[s] \in SUBSET Events BY <3>1, <3>2, <3>3
    <3> QED BY <3>2, <3>4
  <2>3. pending' \in [Tasks -> BOOLEAN]
    <3>1. pending' = [t \in Tasks |-> IF t \in T THEN out[t] \in {"blocked", "failed"}
                                      ELSE pending[t]]
      BY DEF SendTo
    <3>2. \A t \in Tasks : pending[t] \in BOOLEAN BY <1>1 DEF TablesOK
    <3>3. ASSUME NEW t \in Tasks
          PROVE  (IF t \in T THEN out[t] \in {"blocked", "failed"}
                  ELSE pending[t]) \in BOOLEAN
      <4>1. (out[t] \in {"blocked", "failed"}) \in BOOLEAN OBVIOUS
      <4>2. pending[t] \in BOOLEAN BY <3>2
      <4>3. CASE t \in T BY <4>1, <4>3, Zenon
      <4>4. CASE t \notin T BY <4>2, <4>4, Zenon
      <4> QED BY <4>3, <4>4
    <3> QED BY <3>1, <3>3
  <2>4. dying' \in [Tasks -> BOOLEAN]
    BY <1>1 DEF SendTo, TablesOK
  <2>5. limit' \in [Tasks -> Int]
    <3>1. limit' = [t \in Tasks |-> IF t \in T /\ data /\ limit[t] > 0
                                    THEN limit[t] - 1 ELSE limit[t]]
      BY DEF SendTo
    <3>2. \A t \in Tasks : limit[t] \in Int BY <1>1 DEF TablesOK
    <3> QED BY <3>1, <3>2
  <2> QED BY <1>1, <2>1, <2>2, <2>3, <2>4, <2>5 DEF TablesOK
<1>5. IndexMaps' BY <1>1 DEF IndexMaps, Used, Active
<1>6. PendingPolled'
  <2> SUFFICES ASSUME NEW u \in Tasks, kind[u] # "free", pending'[u]
               PROVE  dying'[u] \/ "OUT" \in events'[fidx[u]]
    BY <1>1 DEF PendingPolled, Active
  <2>1. u \in Active /\ fidx[u] \in Slots BY <1>1 DEF Active, TablesOK
  <2>2. CASE u \in T
    <3>1. out[u] \in {"blocked", "failed"} BY <2>2 DEF SendTo
    <3>2. out[u] = "failed" => dying'[u] BY <2>2 DEF SendTo
    <3> QED BY <1>3, <2>1, <2>2, <3>1, <3>2
  <2>3. CASE u \notin T
    <3>1. pending[u] BY <2>3 DEF SendTo
    <3>2. ~ \E t \in T : fidx[t] = fidx[u] BY <1>1, <2>1, <2>3 DEF IndexMaps
    <3>3. events'[fidx[u]] = events[fidx[u]] BY <2>1, <3>2 DEF SendTo
    <3>4. dying[u] => dying'[u] BY DEF SendTo
    <3> QED BY <2>1, <3>1, <3>3, <3>4, <1>1 DEF PendingPolled
  <2> QED BY <2>2, <2>3
<1>7. SurvivorStep
  <2> SUFFICES ASSUME NEW u \in Active
               PROVE  revents[fidx[u]] \subseteq revents'[fidx[u]]
    BY <1>1 DEF SurvivorStep
  <2>1. fidx[u] \in Slots BY <1>1 DEF Active, TablesOK
  <2> QED BY <2>1 DEF SendTo
<1> QED BY <1>4, <1>5, <1>6, <1>7 DEF Tables

-----------------------------------------------------------------------------
(* The invariant                                                            *)

(* The preset tables satisfy the invariant.                                 *)
LEMMA InitInv == Init => Inv
<1> SUFFICES ASSUME Init PROVE Inv
  OBVIOUS
<1> DEFINE n == Len(Preset)
<1>1. n \in Nat /\ n <= Max /\ n <= MaxFd /\ \A i \in 1 .. n : Preset[i] \in AllKinds
  BY PresetAssumption
<1>2. \A s \in Slots : s < n => s + 1 \in Descriptors /\ Preset[s + 1] \in AllKinds
  BY <1>1, SlotRange, DescriptorAssumption DEF Descriptors
<1>3. 0 \in Descriptors /\ 0 \in Slots /\ 0 .. n \subseteq Descriptors
  BY <1>1, MaxAssumption, DescriptorAssumption, SlotIntro DEF Descriptors
<1>4. {"IN"} \in SUBSET Events /\ {} \in SUBSET Events BY DEF Events
<1>5. TablesOK
  <2>1. cnt \in 0 .. Max BY <1>1, MaxAssumption DEF Init
  <2>2. fd \in [Slots -> Descriptors] BY <1>2, <1>3 DEF Init
  <2>3. events \in [Slots -> SUBSET Events] /\ revents \in [Slots -> SUBSET Events]
    BY <1>4 DEF Init
  <2>4. tidx \in [Slots -> Tasks] /\ fidx \in [Tasks -> Slots]
    BY <1>3, SlotsAreTasks DEF Init
  <2>5. kind \in [Tasks -> AllKinds \cup {"free"}]
    BY <1>2, SlotsAreTasks DEF Init
  <2>6. /\ pending \in [Tasks -> BOOLEAN] /\ dying \in [Tasks -> BOOLEAN]
        /\ limit \in [Tasks -> Int]
    BY DEF Init, Unlimited
  <2>7. /\ expires \in [Tasks -> {"off", "armed", "late"}]
        /\ unused \in [Tasks -> SUBSET {"r", "w"}]
    BY DEF Init
  <2> QED BY <2>1, <2>2, <2>3, <2>4, <2>5, <2>6, <2>7 DEF TablesOK
<1>6. IndexMaps
  <2>1. \A s \in Slots : s < n => tidx[s] = s /\ fidx[s] = s /\ kind[s] # "free"
    BY <1>2, SlotsAreTasks DEF Init, AllKinds
  <2>2. \A t \in Tasks : kind[t] # "free" => t < n
    BY DEF Init
  <2>3. cnt = n BY DEF Init
  <2> QED BY <2>1, <2>2, <2>3, SlotsAreTasks DEF IndexMaps, Used, Active
<1>7. PendingPolled BY DEF Init, PendingPolled, Active
<1>8. ScanOK BY MaxAssumption DEF Init, ScanOK
<1>9. open \subseteq Descriptors BY <1>3 DEF Init
<1> QED BY <1>5, <1>6, <1>7, <1>8, <1>9 DEF Inv, Core

(* A step that leaves the arrays and the tasks alone.                       *)
LEMMA TablesUnchanged ==
    ASSUME Tables, UNCHANGED <<slotVars, taskVars>>
    PROVE  Tables' /\ SurvivorStep
BY DEF Tables, TablesOK, IndexMaps, PendingPolled, SurvivorStep, slotVars,
       taskVars, Used, Active

(* A step that changes poll results, marks, quotas or deadlines only.       *)
LEMMA MarksChange ==
    ASSUME Tables, UNCHANGED <<cnt, fd, events, tidx, fidx, kind, pending, unused>>,
           revents' \in [Slots -> SUBSET Events],
           dying' \in [Tasks -> BOOLEAN],
           \A t \in Tasks : dying[t] => dying'[t],
           limit' \in [Tasks -> Int],
           expires' \in [Tasks -> {"off", "armed", "late"}]
    PROVE  Tables' /\ ((pc # "idle" => \A s \in Slots : revents[s] \subseteq revents'[s])
                         => SurvivorStep)
<1>1. TablesOK' BY DEF Tables, TablesOK
<1>2. IndexMaps' BY DEF Tables, IndexMaps, Used, Active
<1>3. PendingPolled' BY DEF Tables, PendingPolled, Active
<1>4. ASSUME pc # "idle" => \A s \in Slots : revents[s] \subseteq revents'[s]
      PROVE  SurvivorStep
  BY <1>4 DEF Tables, TablesOK, SurvivorStep, Active
<1> QED BY <1>1, <1>2, <1>3, <1>4 DEF Tables

(* A close in the middle of a scan keeps the invariant.                     *)
LEMMA CloseAndRescanKeeps ==
    ASSUME Inv, cur < cnt, CloseAndRescan
    PROVE  Inv' /\ SurvivorStep
<1>1. Tables /\ ScanOK /\ open \subseteq Descriptors BY DEF Inv, Core, Tables
<1>2. cur \in Used BY <1>1, CountRange, SlotIntro DEF ScanOK, Used, Tables
<1>3. Tables' /\ SurvivorStep /\ open' \subseteq Descriptors
  BY <1>1, <1>2, CloseKeeps DEF CloseAndRescan
<1>4. ScanOK'
  <2>1. CASE tries = 0 BY <1>1, <2>1 DEF CloseAndRescan, Goto, ScanOK
  <2>2. CASE tries # 0
    BY <1>1, <2>2, MaxAssumption DEF CloseAndRescan, ScanOK
  <2> QED BY <2>1, <2>2
<1> QED BY <1>3, <1>4 DEF Inv, Core, Tables

(* The cursor moves to another test of the same slot, or to the next slot.  *)
LEMMA CursorKeeps ==
    ASSUME TablesOK, ScanOK,
           \/ \E p \in {"idle", "out", "in", "err", "expire"} : Goto(p)
           \/ cur < cnt /\ NextSlot
           \/ UNCHANGED scanVars
    PROVE  ScanOK'
<1>1. cur < cnt => cur + 1 \in 0 .. Max
  BY CountRange DEF ScanOK
<1> QED BY <1>1 DEF ScanOK, Goto, NextSlot, scanVars

(* abi_ioc_append2all keeps the tables.                                     *)
LEMMA ReachableSend ==
    ASSUME Tables, AppendToAll
    PROVE  Tables' /\ SurvivorStep
<1>0. PICK T \in SUBSET Reachable \ {{}} :
           \E out \in [T -> SendResults] : SendTo(T, out, TRUE)
  BY DEF AppendToAll
<1>1. PICK out \in [T -> SendResults] : SendTo(T, out, TRUE)
  BY <1>0
<1>2. T \in SUBSET Active BY DEF Reachable
<1>3. out \in [T -> {"done", "blocked", "idle", "failed"}]
  <2>1. SendResults \subseteq {"done", "blocked", "idle", "failed"} BY DEF SendResults
  <2> QED BY <2>1
<1> QED BY <1>1, <1>2, <1>3, SendToKeeps

-----------------------------------------------------------------------------
(* One step per action                                                      *)

(* The program's own calls keep the invariant.                              *)
LEMMA ProgramKeeps ==
    ASSUME Inv, Program
    PROVE  Inv' /\ SurvivorStep
<1>1. Tables /\ TablesOK /\ ScanOK /\ open \subseteq Descriptors
  BY DEF Inv, Core, Tables
<1>2. ASSUME UNCHANGED scanVars PROVE ScanOK' BY <1>1, <1>2, CursorKeeps
<1>3. CASE AddReader
  <2>1. PICK d \in Descriptors, ok \in BOOLEAN :
             Register("reader", d, ok) /\ open' = (IF ok THEN open \cup {d} ELSE open)
    BY <1>3 DEF AddReader
  <2>2. Tables' /\ SurvivorStep BY <1>1, <2>1, RegisterKeeps DEF AllKinds
  <2> QED BY <1>1, <1>2, <1>3, <2>1, <2>2 DEF AddReader, Inv, Core, Tables
<1>4. CASE AddWriterOrListener
  <2>1. PICK k \in Kinds \cap {"writer", "listen"}, d \in Descriptors, ok \in BOOLEAN :
             Register(k, d, ok) /\ open' = open \cup {d}
    BY <1>4 DEF AddWriterOrListener
  <2>2. Tables' /\ SurvivorStep BY <1>1, <2>1, RegisterKeeps DEF AllKinds
  <2> QED BY <1>1, <1>2, <1>4, <2>1, <2>2
          DEF AddWriterOrListener, Inv, Core, Tables
<1>5. CASE ConnectSocket
  <2>1. PICK d \in Descriptors, ok \in BOOLEAN :
             /\ Register("socket", d, ok) \/ UNCHANGED <<slotVars, taskVars>>
             /\ open' = open \cup {d}
    BY <1>5 DEF ConnectSocket
  <2>2. Tables' /\ SurvivorStep
    BY <1>1, <2>1, RegisterKeeps, TablesUnchanged DEF AllKinds
  <2> QED BY <1>1, <1>2, <1>5, <2>1, <2>2 DEF ConnectSocket, Inv, Core, Tables
<1>6. CASE Broadcast
  <2>1. Tables' /\ SurvivorStep BY <1>1, <1>6, ReachableSend DEF Broadcast
  <2> QED BY <1>1, <1>2, <1>6, <2>1 DEF Broadcast, Inv, Core, Tables
<1>7. ASSUME NEW t \in Tasks, LimitTask(t) PROVE Inv' /\ SurvivorStep
  <2>1. limit' \in [Tasks -> Int] BY <1>1, <1>7, LimitAssumption DEF LimitTask, TablesOK
  <2>2. UNCHANGED <<slotVars, kind, pending, dying, expires, unused, open, scanVars>>
    BY <1>7 DEF LimitTask
  <2>3. Tables' /\ SurvivorStep
    BY <1>1, <2>1, <2>2, MarksChange DEF TablesOK, slotVars
  <2> QED BY <1>1, <1>2, <2>2, <2>3 DEF Inv, Core, Tables
<1>8. ASSUME NEW t \in Tasks, ReleaseTask(t) PROVE Inv' /\ SurvivorStep
  <2>1. PICK s \in Used : Close(s) BY <1>8 DEF ReleaseTask
  <2>2. Tables' /\ SurvivorStep /\ open' \subseteq Descriptors
    BY <1>1, <2>1, CloseKeeps
  <2> QED BY <1>2, <1>8, <2>2 DEF ReleaseTask, Inv, Core, Tables
<1> QED BY <1>3, <1>4, <1>5, <1>6, <1>7, <1>8 DEF Program

(* poll keeps the invariant.                                                *)
LEMMA PollKeeps ==
    ASSUME Inv, Poll \/ PollTimeout
    PROVE  Inv' /\ SurvivorStep
<1>1. Tables /\ TablesOK /\ ScanOK /\ open \subseteq Descriptors /\ pc = "idle"
  BY DEF Inv, Core, Tables, Poll, PollTimeout
<1>2. UNCHANGED <<cnt, fd, events, tidx, fidx, taskVars, open>>
  BY DEF Poll, PollTimeout
<1>3. revents' \in [Slots -> SUBSET Events]
  <2>1. CASE Poll
    <3>1. PICK r \in [Used -> SUBSET Events] :
               revents' = [s \in Slots |-> IF s \in Used THEN r[s] ELSE revents[s]]
      BY <2>1 DEF Poll
    <3>2. \A s \in Slots : revents[s] \in SUBSET Events BY <1>1 DEF TablesOK
    <3> QED BY <3>1, <3>2
  <2>2. CASE PollTimeout
    <3>1. {} \in SUBSET Events OBVIOUS
    <3>2. \A s \in Slots : revents[s] \in SUBSET Events BY <1>1 DEF TablesOK
    <3> QED BY <2>2, <3>1, <3>2 DEF PollTimeout
  <2> QED BY <2>1, <2>2
<1>4. Tables' /\ SurvivorStep
  BY <1>1, <1>2, <1>3, MarksChange DEF TablesOK, taskVars
<1>5. ScanOK'
  <2>1. CASE Poll
    BY <1>1, <2>1, CountRange DEF Poll, ScanOK
  <2>2. CASE PollTimeout
    BY <1>1, <2>2 DEF PollTimeout, ScanOK
  <2> QED BY <2>1, <2>2
<1> QED BY <1>1, <1>2, <1>4, <1>5 DEF Inv, Core, Tables

(* Every step of a scan keeps the invariant.                                *)
LEMMA ScanKeeps ==
    ASSUME Inv, Scan
    PROVE  Inv' /\ SurvivorStep
<1> USE DEF Tables
<1>1. Tables /\ TablesOK /\ ScanOK /\ open \subseteq Descriptors
  BY DEF Inv, Core
<1>2. ASSUME cur < cnt
      PROVE  cur \in Used /\ Task \in Tasks /\ kind[Task] # "free" /\ fidx[Task] \in Slots
  <2>1. cur \in Used BY <1>1, <1>2, CountRange, SlotIntro DEF ScanOK, Used
  <2> QED BY <1>1, <2>1, UsedSlot DEF Task, IndexMaps, TablesOK
<1>3. ASSUME UNCHANGED <<slotVars, taskVars, open>>,
             \/ \E p \in {"idle", "err", "in"} : Goto(p)
             \/ cur < cnt /\ NextSlot
      PROVE  Inv' /\ SurvivorStep
  <2>1. ScanOK' BY <1>1, <1>3, CursorKeeps
  <2>2. Tables' /\ SurvivorStep BY <1>1, <1>3, TablesUnchanged
  <2> QED BY <1>1, <1>3, <2>1, <2>2 DEF Inv, Core
<1>4. ASSUME Goto("err") PROVE ScanOK' BY <1>1, <1>4, CursorKeeps
<1>5. CASE SendOut
  <2>1. PICK o \in {"done", "blocked", "idle", "failed"} :
             \/ CloseAndRescan
             \/ /\ SendTo({Task}, [t \in {Task} |-> o], FALSE)
                /\ Goto("in") /\ UNCHANGED open
    BY <1>5 DEF SendOut, SendResults
  <2>2. CASE CloseAndRescan
    BY <1>5, <2>2, CloseAndRescanKeeps DEF SendOut, Scanning
  <2>3. CASE /\ SendTo({Task}, [t \in {Task} |-> o], FALSE)
             /\ Goto("in") /\ UNCHANGED open
    <3>1. {Task} \in SUBSET Active BY <1>2, <1>5 DEF SendOut, Scanning, Active
    <3>2. [t \in {Task} |-> o] \in [{Task} -> {"done", "blocked", "idle", "failed"}]
      OBVIOUS
    <3>3. Tables' /\ SurvivorStep BY <1>1, <2>3, <3>1, <3>2, SendToKeeps
    <3>4. ScanOK' BY <1>1, <2>3, CursorKeeps
    <3> QED BY <1>1, <2>3, <3>3, <3>4 DEF Inv, Core
  <2> QED BY <2>1, <2>2, <2>3
<1>6. CASE SkipOut \/ SkipIn \/ SkipErr \/ ScanDone \/ AcceptFails \/ ReceiveQuietly
  BY <1>3, <1>6 DEF SkipOut, SkipIn, SkipErr, ScanDone, AcceptFails,
     ReceiveQuietly, Scanning
<1>7. CASE ReceiveFails \/ HangUp
  BY <1>7, CloseAndRescanKeeps DEF ReceiveFails, HangUp, Scanning
<1>8. CASE ReceiveDenied
  <2>1. /\ dying' = [dying EXCEPT ![Task] = TRUE]
        /\ revents' = [revents EXCEPT ![fidx[Task]] = @ \cup {"ERR"}]
        /\ UNCHANGED <<cnt, fd, events, tidx, fidx, kind, pending, limit,
                       expires, unused, open>>
        /\ Goto("err") /\ cur < cnt
    BY <1>8 DEF ReceiveDenied, Scanning
  <2>2. Task \in Tasks /\ fidx[Task] \in Slots BY <1>2, <2>1
  <2>3. revents' \in [Slots -> SUBSET Events]
        /\ \A s \in Slots : revents[s] \subseteq revents'[s]
    <3>1. "ERR" \in Events BY DEF Events
    <3> QED BY <1>1, <2>1, <2>2, <3>1 DEF TablesOK
  <2>4. dying' \in [Tasks -> BOOLEAN] /\ \A t \in Tasks : dying[t] => dying'[t]
    BY <1>1, <2>1, <2>2 DEF TablesOK
  <2>5. Tables' /\ SurvivorStep
    BY <1>1, <2>1, <2>3, <2>4, MarksChange DEF TablesOK
  <2> QED BY <1>1, <1>4, <2>1, <2>5 DEF Inv, Core
<1>9. CASE ReceiveGranted
  <2>1. /\ expires' = [expires EXCEPT ![Task] = "off"]
        /\ UNCHANGED <<slotVars, kind, pending, dying, limit, unused, open>>
        /\ Goto("err")
    BY <1>9 DEF ReceiveGranted
  <2>2. expires' \in [Tasks -> {"off", "armed", "late"}]
    BY <1>1, <2>1 DEF TablesOK
  <2>3. Tables' /\ SurvivorStep
    BY <1>1, <2>1, <2>2, MarksChange DEF TablesOK, slotVars
  <2> QED BY <1>1, <1>4, <2>1, <2>3 DEF Inv, Core
<1>10. CASE ReceiveAndSend
  <2>1. Tables' /\ SurvivorStep BY <1>1, <1>10, ReachableSend DEF ReceiveAndSend
  <2> QED BY <1>1, <1>4, <1>10, <2>1 DEF ReceiveAndSend, Inv, Core
<1>11. CASE AcceptClient
  <2>1. PICK d \in Descriptors, ok \in BOOLEAN :
             Register("socket", d, ok) /\ open' = (IF ok THEN open \cup {d} ELSE open)
    BY <1>11 DEF AcceptClient
  <2>2. Tables' /\ SurvivorStep BY <1>1, <2>1, RegisterKeeps DEF AllKinds
  <2>3. open' \subseteq Descriptors BY <1>1, <2>1
  <2>4. ScanOK' BY <1>4, <1>11 DEF AcceptClient
  <2> QED BY <2>2, <2>3, <2>4 DEF Inv, Core
<1>12. CASE ExpireClose
  <2>1. PICK s \in Used : Close(s) BY <1>12 DEF ExpireClose, Late
  <2>2. Tables' /\ SurvivorStep /\ open' \subseteq Descriptors
    BY <1>1, <2>1, CloseKeeps
  <2>3. ScanOK' BY <1>1, <1>12, CursorKeeps DEF ExpireClose
  <2> QED BY <2>2, <2>3 DEF Inv, Core
<1>13. CASE ExpireDone
  BY <1>3, <1>13 DEF ExpireDone
<1> QED BY <1>5, <1>6, <1>7, <1>8, <1>9, <1>10, <1>11, <1>12, <1>13 DEF Scan

(* Every step of the controller keeps the invariant.                        *)
LEMMA NextKeeps ==
    ASSUME Inv, [Next]_vars
    PROVE  Inv' /\ (Next => SurvivorStep)
<1>1. CASE Program BY <1>1, ProgramKeeps
<1>2. CASE Poll \/ PollTimeout BY <1>2, PollKeeps
<1>3. CASE Scan BY <1>3, ScanKeeps
<1>4. ASSUME NEW t \in Tasks, DeadlinePasses(t) PROVE Inv' /\ SurvivorStep
  <2>1. Tables /\ TablesOK /\ ScanOK /\ open \subseteq Descriptors
    BY DEF Inv, Core, Tables
  <2>2. expires' \in [Tasks -> {"off", "armed", "late"}]
    BY <1>4, <2>1 DEF DeadlinePasses, TablesOK
  <2>3. UNCHANGED <<slotVars, kind, pending, dying, limit, unused, open, scanVars>>
    BY <1>4 DEF DeadlinePasses
  <2>4. Tables' /\ SurvivorStep
    BY <2>1, <2>2, <2>3, MarksChange DEF TablesOK, slotVars
  <2>5. ScanOK' BY <2>1, <2>3, CursorKeeps
  <2> QED BY <2>1, <2>3, <2>4, <2>5 DEF Inv, Core, Tables
<1>5. CASE UNCHANGED vars
  <2>1. Tables' BY <1>5, TablesUnchanged DEF vars, Inv, Core, Tables
  <2>2. ScanOK' /\ open' = open BY <1>5 DEF vars, scanVars, Inv, Core, ScanOK
  <2>3. SurvivorStep BY <1>5, TablesUnchanged DEF vars, Inv, Core, Tables
  <2> QED BY <2>1, <2>2, <2>3 DEF Inv, Core, Tables
<1> QED BY <1>1, <1>2, <1>3, <1>4, <1>5 DEF Next

-----------------------------------------------------------------------------
(* Theorems                                                                 *)

(* The types, the index maps and the wait for POLLOUT hold in every state.  *)
THEOREM Invariant == Spec => []Inv
<1>1. Init => Inv BY InitInv
<1>2. Inv /\ [Next]_vars => Inv' BY NextKeeps
<1> QED BY <1>1, <1>2, PTL DEF Spec

(* Registering writes behind the arrays only for a writer.                  *)
LEMMA RegisterPast ==
    ASSUME PastOK, NEW k, NEW d, NEW ok, Register(k, d, ok), k = "writer" => Writers
    PROVE  PastOK'
<1>1. CASE UNCHANGED <<slotVars, taskVars>>
  BY <1>1 DEF slotVars, PastOK, Writers
<1>2. ASSUME NEW t, NEW o, NEW clears, Join(k, t, d, o, clears), clears => k = "writer"
      PROVE  PastOK'
  BY <1>2 DEF Join, PastOK, Writers
<1>3. ASSUME NEW t, AddFd(k, t, d) PROVE PastOK'
  <2>1. PICK o : Join(k, t, d, o, k = "writer") BY <1>3 DEF AddFd
  <2> QED BY <2>1, <1>2
<1>4. ASSUME NEW t, AddFdNoFcntl(t, d) PROVE PastOK'
  BY <1>4 DEF AddFdNoFcntl, PastOK, Writers
<1>5. ASSUME NEW t, AddFdNoBuffer(k, t, d) PROVE PastOK'
  <2>1. Join(k, t, d, "done", FALSE) BY <1>5 DEF AddFdNoBuffer
  <2> QED BY <2>1, <1>2
<1> QED BY <1>1, <1>3, <1>4, <1>5 DEF Register

(* No other step writes there.                                              *)
LEMMA NextPast ==
    ASSUME PastOK, [Next]_vars
    PROVE  PastOK'
<1>1. ASSUME past' = past PROVE PastOK' BY <1>1 DEF PastOK, Writers
<1>2. ASSUME NEW s, Close(s) PROVE past' = past BY <1>2 DEF Close, slotVars
<1>3. ASSUME CloseAndRescan PROVE past' = past BY <1>2, <1>3 DEF CloseAndRescan
<1>4. ASSUME NEW T, NEW out, NEW data, SendTo(T, out, data) PROVE past' = past
  BY <1>4 DEF SendTo
<1>5. ASSUME AppendToAll PROVE past' = past BY <1>4, <1>5 DEF AppendToAll
<1>6. CASE Program
  <2>1. CASE AddReader BY <2>1, RegisterPast DEF AddReader
  <2>2. CASE AddWriterOrListener
    BY <2>2, RegisterPast DEF AddWriterOrListener, Writers
  <2>3. CASE ConnectSocket
    <3>1. PICK d, ok : Register("socket", d, ok) \/ UNCHANGED <<slotVars, taskVars>>
      BY <2>3 DEF ConnectSocket
    <3>2. CASE UNCHANGED <<slotVars, taskVars>> BY <3>2, <1>1 DEF slotVars
    <3>3. CASE Register("socket", d, ok) BY <3>3, RegisterPast
    <3> QED BY <3>1, <3>2, <3>3
  <2>4. CASE Broadcast BY <2>4, <1>1, <1>5 DEF Broadcast
  <2>5. CASE \E t \in Tasks : LimitTask(t) \/ ReleaseTask(t)
    BY <2>5, <1>1, <1>2 DEF LimitTask, ReleaseTask, slotVars
  <2> QED BY <1>6, <2>1, <2>2, <2>3, <2>4, <2>5 DEF Program
<1>7. CASE Poll \/ PollTimeout BY <1>7, <1>1 DEF Poll, PollTimeout
<1>8. CASE Scan
  <2>1. CASE SendOut
    <3>1. CASE CloseAndRescan BY <3>1, <1>1, <1>3
    <3>2. CASE \E o : SendTo({Task}, [t \in {Task} |-> o], FALSE) BY <3>2, <1>1, <1>4
    <3> QED BY <2>1, <3>1, <3>2 DEF SendOut
  <2>2. CASE ReceiveFails \/ HangUp BY <2>2, <1>1, <1>3 DEF ReceiveFails, HangUp
  <2>3. CASE AcceptClient BY <2>3, RegisterPast DEF AcceptClient
  <2>4. CASE ReceiveAndSend BY <2>4, <1>1, <1>5 DEF ReceiveAndSend
  <2>5. CASE ExpireClose BY <2>5, <1>1, <1>2 DEF ExpireClose
  <2>6. CASE SkipOut \/ ReceiveQuietly \/ ReceiveDenied \/ ReceiveGranted
    BY <2>6, <1>1 DEF SkipOut, ReceiveQuietly, ReceiveDenied, ReceiveGranted, slotVars
  <2>7. CASE AcceptFails \/ SkipIn \/ SkipErr \/ ScanDone \/ ExpireDone
    BY <2>7, <1>1 DEF AcceptFails, SkipIn, SkipErr, ScanDone, ExpireDone, slotVars
  <2> QED BY <1>8, <2>1, <2>2, <2>3, <2>4, <2>5, <2>6, <2>7 DEF Scan
<1>9. CASE \E t \in Tasks : DeadlinePasses(t)
  BY <1>9, <1>1 DEF DeadlinePasses, slotVars
<1>10. CASE UNCHANGED vars BY <1>10, <1>1 DEF vars, slotVars
<1> QED BY <1>6, <1>7, <1>8, <1>9, <1>10 DEF Next

(* Slots, tasks and the links between them stay within the arrays and the   *)
(* count of rescans does not wrap, whatever is registered, closed or fails  *)
(* (abi_ioc_add_fd, abi_close_socket, abi_io_iterator).  What is written    *)
(* behind the arrays, by the events = 0 of abi_ioc_add_fd, is written for a *)
(* writer: a population without writers has none.                           *)
THEOREM TypeCorrect == Spec => []TypeOK
<1>1. Init => PastOK
  <2> SUFFICES ASSUME Init PROVE PastOK OBVIOUS
  <2>1. past = (Len(Preset) = Max /\ Preset[Len(Preset)] = "writer") BY DEF Init
  <2>2. Len(Preset) = Max => Len(Preset) \in DOMAIN Preset
    BY MaxAssumption, PresetAssumption
  <2> QED BY <2>1, <2>2 DEF PastOK, Writers
<1>2. PastOK /\ [Next]_vars => PastOK' BY NextPast
<1>3. Inv /\ PastOK => TypeOK BY DEF Inv, Core, TypeOK
<1> QED BY <1>1, <1>2, <1>3, Invariant, PTL DEF Spec

(* The maps between slots and tasks stay inverse to each other, whatever    *)
(* the size of the tables and the order of registrations, swap-deletes,     *)
(* kills and failures.                                                      *)
THEOREM MapsInverse == Spec => []IndexMaps
<1>1. Inv => IndexMaps BY DEF Inv
<1> QED BY <1>1, Invariant, PTL

(* A task with unsent bytes waits for POLLOUT or is marked to die.          *)
THEOREM PendingIsPolled == Spec => []PendingPolled
<1>1. Inv => PendingPolled BY DEF Inv
<1> QED BY <1>1, Invariant, PTL

(* No step takes another task's descriptor, or during a pass the events     *)
(* reported for it, away from a task that survives the step.                *)
THEOREM SurvivorsKeep == Spec => SurvivorsKeepSlot
<1>1. Inv /\ [Next]_vars => [SurvivorStep]_vars BY NextKeeps
<1> QED BY <1>1, Invariant, PTL DEF Spec, SurvivorsKeepSlot

(* With the maps inverse, as many tasks as slots are in use: while a slot   *)
(* is left abi_get_free_task finds a task.                                  *)
THEOREM FreeTaskIsLeft == Spec => []FreeTaskLeft
<1>1. Inv => FreeTaskLeft
  <2> SUFFICES ASSUME Inv, cnt < Max, FreeTasks = {} PROVE FALSE
    BY DEF FreeTaskLeft
  <2>1. TablesOK /\ IndexMaps BY DEF Inv, Core
  <2>2. Active = Tasks BY <2>1 DEF Active, FreeTasks
  <2>3. fidx \in [Tasks -> 0 .. cnt - 1]
    BY <2>1, <2>2, SlotRange, CountRange DEF IndexMaps, TablesOK
  <2>4. \A t, u \in Tasks : fidx[t] = fidx[u] => t = u
    BY <2>1, <2>2 DEF IndexMaps
  <2>5. /\ IsFiniteSet(Tasks) /\ Cardinality(Tasks) = Max
        /\ IsFiniteSet(0 .. cnt - 1) /\ Cardinality(0 .. cnt - 1) = cnt
    <3>1. Max \in Nat /\ cnt \in Nat /\ 0 \in Int /\ Max - 1 \in Int /\ cnt - 1 \in Int
          /\ 0 <= Max - 1 /\ (0 > cnt - 1 <=> cnt = 0)
      BY <2>1, CountRange, MaxAssumption
    <3> QED BY <3>1, FS_Interval DEF Tasks
  <2>6. \E t, u \in Tasks : t # u /\ fidx[t] = fidx[u]
    BY <2>3, <2>5, FS_PigeonHole
  <2> QED BY <2>4, <2>6
<1> QED BY <1>1, Invariant, PTL

-----------------------------------------------------------------------------
(* Descriptors and passes                                                   *)

OnlySockets ==
    /\ Kinds \subseteq {"socket", "listen"}
    /\ \A i \in 1 .. Len(Preset) : Preset[i] \in {"socket", "listen"}
    /\ "malloc" \notin Faults

(* A socket's halves are both initialised: its release closes no other      *)
(* descriptor.                                                              *)
HalvesUsed == \A t \in Active :
    kind[t] \in {"socket", "listen"} /\ (kind[t] = "socket" => unused[t] = {})

Owned == DescriptorsOwned /\ HalvesUsed

-----------------------------------------------------------------------------
(* What a step does to the slots                                            *)

(* A new descriptor d is registered for a task of kind k.                   *)
Registers(k, d, ok) ==
    /\ d \in Descriptors /\ IsNewFd(d) /\ Register(k, d, ok)
    /\ open \subseteq open' /\ (ok => d \in open')

Keeps == UNCHANGED <<cnt, fd, tidx, fidx, kind, unused>> /\ open \subseteq open'

(* Every step keeps the slots, closes one or registers one.                 *)
LEMMA StepIs ==
    ASSUME Inv, Next, OnlySockets
    PROVE  \/ Keeps
           \/ \E s \in Used : Close(s)
           \/ \E k \in {"socket", "listen"}, d \in Descriptors, ok \in BOOLEAN :
                  Registers(k, d, ok)
<1>1. TablesOK /\ ScanOK /\ IndexMaps BY DEF Inv, Core
<1>2. cur < cnt => cur \in Used BY <1>1, CountRange, SlotIntro DEF ScanOK, Used
<1>3. ASSUME AppendToAll PROVE UNCHANGED <<cnt, fd, tidx, fidx, kind, unused>>
  BY <1>3 DEF AppendToAll, SendTo
<1>4. ASSUME Program
      PROVE  \/ Keeps
             \/ \E s \in Used : Close(s)
             \/ \E k \in {"socket", "listen"}, d \in Descriptors, ok \in BOOLEAN :
                    Registers(k, d, ok)
  <2>1. ~AddReader BY DEF AddReader, OnlySockets
  <2>2. CASE AddWriterOrListener
    BY <2>2 DEF AddWriterOrListener, OnlySockets, Registers
  <2>3. CASE ConnectSocket
    <3>1. PICK d \in Descriptors, ok \in BOOLEAN :
              /\ IsNewFd(d) /\ open' = open \cup {d}
              /\ Register("socket", d, ok) \/ UNCHANGED <<slotVars, taskVars>>
      BY <2>3 DEF ConnectSocket
    <3>2. CASE Register("socket", d, ok) BY <3>1, <3>2 DEF Registers
    <3>3. CASE UNCHANGED <<slotVars, taskVars>>
      BY <3>1, <3>3 DEF Keeps, slotVars, taskVars
    <3> QED BY <3>1, <3>2, <3>3
  <2>4. CASE Broadcast BY <2>4, <1>3 DEF Broadcast, Keeps
  <2>5. ASSUME NEW t \in Tasks, LimitTask(t) PROVE Keeps
    BY <2>5 DEF LimitTask, Keeps, slotVars
  <2>6. ASSUME NEW t \in Tasks, ReleaseTask(t) PROVE \E s \in Used : Close(s)
    BY <2>6 DEF ReleaseTask
  <2> QED BY <1>4, <2>1, <2>2, <2>3, <2>4, <2>5, <2>6 DEF Program
<1>5. ASSUME Scan
      PROVE  \/ Keeps
             \/ \E s \in Used : Close(s)
             \/ \E k \in {"socket", "listen"}, d \in Descriptors, ok \in BOOLEAN :
                    Registers(k, d, ok)
  <2>1. CASE SendOut
    BY <2>1, <1>2 DEF SendOut, Scanning, CloseAndRescan, SendTo, Keeps
  <2>2. CASE ReceiveFails \/ HangUp
    BY <2>2, <1>2 DEF ReceiveFails, HangUp, Scanning, CloseAndRescan
  <2>3. CASE SkipOut \/ ReceiveQuietly \/ AcceptFails \/ SkipIn \/ SkipErr \/ ScanDone
             \/ ExpireDone
    BY <2>3 DEF SkipOut, ReceiveQuietly, AcceptFails, SkipIn, SkipErr, ScanDone,
                ExpireDone, Keeps, slotVars, taskVars
  <2>4. CASE ReceiveDenied \/ ReceiveGranted
    BY <2>4 DEF ReceiveDenied, ReceiveGranted, Keeps, slotVars
  <2>5. CASE ReceiveAndSend BY <2>5, <1>3 DEF ReceiveAndSend, Keeps
  <2>6. CASE AcceptClient BY <2>6 DEF AcceptClient, Registers
  <2>7. CASE ExpireClose BY <2>7 DEF ExpireClose, Late
  <2> QED BY <1>5, <2>1, <2>2, <2>3, <2>4, <2>5, <2>6, <2>7 DEF Scan
<1>6. CASE Poll \/ PollTimeout BY <1>6 DEF Poll, PollTimeout, Keeps, taskVars
<1>7. ASSUME NEW t \in Tasks, DeadlinePasses(t) PROVE Keeps
  BY <1>7 DEF DeadlinePasses, Keeps, slotVars
<1> QED BY <1>4, <1>5, <1>6, <1>7 DEF Next

-----------------------------------------------------------------------------
(* Descriptors                                                              *)

(* A close frees the slot's descriptor and no other slot's.                 *)
LEMMA CloseOwns ==
    ASSUME TablesOK, IndexMaps, Owned, NEW s \in Used, Close(s)
    PROVE  Owned'
<1>1. s \in Slots /\ cnt - 1 \in Slots /\ cnt - 1 \in Used /\ tidx[s] \in Tasks
      /\ tidx[s] \in Active
  BY UsedSlot DEF IndexMaps, Active
<1>2. CASE kind[tidx[s]] \notin CloseKinds
  BY <1>2 DEF Close, slotVars, taskVars, Owned, DescriptorsOwned, HalvesUsed, Used, Active
<1>3. CASE kind[tidx[s]] \in CloseKinds
  <2>1. SwapDelete(s) BY <1>3 DEF Close, SwapDelete
  <2>2. open' = open \ {fd[s]}
    <3>1. unused[tidx[s]] = {} BY <1>1, <1>3 DEF Owned, HalvesUsed, CloseKinds
    <3> QED BY <1>3, <3>1 DEF Close
  <2>3. ASSUME NEW r \in Used' PROVE \E q \in Used : q # s /\ fd'[r] = fd[q]
                                        /\ (IF r = s THEN q = cnt - 1 ELSE q = r)
    <3>1. r \in Slots /\ r < cnt - 1 /\ r \in Used
      BY <2>1, CountRange, SlotRange DEF Used, SwapDelete
    <3>2. r # cnt - 1 BY <3>1, SlotRange
    <3>3. CASE r = s
      <4>1. fd'[r] = fd[cnt - 1] /\ cnt - 1 # s
        BY <1>1, <2>1, <3>1, <3>2, <3>3 DEF SwapDelete, MoveLast, TablesOK
      <4> QED BY <1>1, <3>3, <4>1
    <3>4. CASE r # s
      <4>1. fd'[r] = fd[r]
        BY <1>1, <2>1, <3>1, <3>2, <3>4 DEF SwapDelete, MoveLast, TablesOK
      <4> QED BY <3>1, <3>4, <4>1
    <3> QED BY <3>3, <3>4
  <2>4. DescriptorsOwned'
    <3>1. ASSUME NEW r \in Used' PROVE fd'[r] \in open'
      BY <2>2, <2>3 DEF Owned, DescriptorsOwned
    <3>2. ASSUME NEW r \in Used', NEW q \in Used', fd'[r] = fd'[q] PROVE r = q
      <4>1. PICK r0 \in Used : fd'[r] = fd[r0] /\ (IF r = s THEN r0 = cnt - 1 ELSE r0 = r)
        BY <2>3
      <4>2. PICK q0 \in Used : fd'[q] = fd[q0] /\ (IF q = s THEN q0 = cnt - 1 ELSE q0 = q)
        BY <2>3
      <4>3. r0 = q0 BY <3>2, <4>1, <4>2 DEF Owned, DescriptorsOwned
      <4>4. r # cnt - 1 /\ q # cnt - 1
        BY <2>1, CountRange, SlotRange DEF Used, SwapDelete
      <4> QED BY <4>1, <4>2, <4>3, <4>4
    <3> QED BY <3>1, <3>2 DEF DescriptorsOwned
  <2>5. HalvesUsed'
    <3> SUFFICES ASSUME NEW u \in Active'
                 PROVE  /\ kind'[u] \in {"socket", "listen"}
                        /\ kind'[u] = "socket" => unused'[u] = {}
      BY DEF HalvesUsed
    <3>1. u \in Tasks /\ u # tidx[s] /\ kind'[u] = kind[u] /\ unused'[u] = unused[u]
      BY <1>1, <2>1 DEF Active, SwapDelete, FreeTask, TablesOK
    <3>2. u \in Active BY <3>1 DEF Active
    <3> QED BY <3>1, <3>2 DEF Owned, HalvesUsed
  <2> QED BY <2>4, <2>5 DEF Owned
<1> QED BY <1>2, <1>3

(* A registered descriptor is new, and it is closed again only when its     *)
(* slot was not taken.                                                      *)
LEMMA RegisterOwns ==
    ASSUME TablesOK, IndexMaps, Owned, OnlySockets, NEW k \in {"socket", "listen"},
           NEW d, NEW ok \in BOOLEAN, Registers(k, d, ok)
    PROVE  Owned'
<1>1. d \in Descriptors /\ d \notin open /\ open \subseteq open' /\ (ok => d \in open')
  BY DEF Registers, IsNewFd
<1>2. CASE UNCHANGED <<slotVars, taskVars>>
  BY <1>1, <1>2 DEF slotVars, taskVars, Owned, DescriptorsOwned, HalvesUsed, Used, Active
<1>3. CASE cnt < Max /\ \E t \in FreeTasks : ok /\ AddFd(k, t, d)
  <2>1. PICK t \in FreeTasks : ok /\ AddFd(k, t, d) BY <1>3
  <2>2. PICK o : Join(k, t, d, o, k = "writer") BY <2>1 DEF AddFd
  <2>3. Link(t, d) /\ cnt' = cnt + 1 /\ kind' = [kind EXCEPT ![t] = k]
        /\ unused' = [unused EXCEPT ![t] = @ \ Halves(k)]
    BY <2>1, <2>2 DEF Join, AddFd
  <2>4. t \in Tasks /\ cnt \in Slots /\ cnt \notin Used BY <1>3, NextSlotFree DEF FreeTasks
  <2>5. /\ fd'[cnt] = d /\ \A s \in Used : fd'[s] = fd[s]
        /\ Used' = Used \cup {cnt}
    <3>1. fd'[cnt] = d BY <2>3, <2>4 DEF Link, TablesOK
    <3>2. \A s \in Used : fd'[s] = fd[s] BY <1>1, <1>3, <2>1, <2>3, LinkKeeps
    <3>3. Used' = Used \cup {cnt} BY <2>3, <2>4, CountRange, SlotRange DEF Used
    <3> QED BY <3>1, <3>2, <3>3
  <2>6. DescriptorsOwned'
    BY <1>1, <2>1, <2>4, <2>5 DEF Owned, DescriptorsOwned
  <2>7. HalvesUsed'
    <3> SUFFICES ASSUME NEW u \in Active'
                 PROVE  /\ kind'[u] \in {"socket", "listen"}
                        /\ kind'[u] = "socket" => unused'[u] = {}
      BY DEF HalvesUsed
    <3>1. CASE u = t
      <4>1. kind'[t] = k BY <2>3, <2>4 DEF TablesOK
      <4>2. unused'[t] = unused[t] \ Halves(k) /\ unused[t] \subseteq {"r", "w"}
        BY <2>3, <2>4 DEF TablesOK
      <4>3. k = "socket" => unused'[t] = {} BY <4>2 DEF Halves
      <4> QED BY <3>1, <4>1, <4>3
    <3>2. CASE u # t
      <4>1. u \in Active /\ kind'[u] = kind[u] /\ unused'[u] = unused[u]
        BY <2>3, <3>2 DEF Active, TablesOK
      <4> QED BY <4>1 DEF Owned, HalvesUsed
    <3> QED BY <3>1, <3>2
  <2> QED BY <2>6, <2>7 DEF Owned
<1>4. CASE cnt < Max /\ \E t \in FreeTasks : AddFdNoFcntl(t, d)
  <2>1. PICK t \in FreeTasks : AddFdNoFcntl(t, d) BY <1>4
  <2>2. Link(t, d) /\ cnt' = cnt /\ kind' = kind /\ unused' = unused
    BY <2>1 DEF AddFdNoFcntl, taskVars
  <2>3. \A s \in Used : fd'[s] = fd[s] BY <1>1, <1>4, <2>1, <2>2, LinkKeeps
  <2>4. Used' = Used /\ Active' = Active BY <2>2 DEF Used, Active
  <2> QED BY <1>1, <2>2, <2>3, <2>4 DEF Owned, DescriptorsOwned, HalvesUsed
<1>5. \A t \in Tasks : ~AddFdNoBuffer(k, t, d) BY DEF OnlySockets, AddFdNoBuffer
<1>6. \/ UNCHANGED <<slotVars, taskVars>>
      \/ cnt < Max /\ \E t \in FreeTasks : ok /\ AddFd(k, t, d)
      \/ cnt < Max /\ \E t \in FreeTasks : AddFdNoFcntl(t, d)
  BY <1>5 DEF Registers, Register, IsFreeTask
<1> QED BY <1>2, <1>3, <1>4, <1>6

(* In a program of sockets and listeners every slot in use polls a          *)
(* descriptor that is open and that no other slot polls, whatever order of  *)
(* accepts, closes and failures (abi_ioc_add_fd, abi_close_socket).         *)
THEOREM DescriptorsAreOwned == OnlySockets => (Spec => []DescriptorsOwned)
<1> SUFFICES ASSUME OnlySockets PROVE Spec => []DescriptorsOwned
  OBVIOUS
<1>1. Init => Owned
  <2> SUFFICES ASSUME Init PROVE Owned
    OBVIOUS
  <2>1. Len(Preset) \in Nat BY PresetAssumption
  <2>2. \A s \in Used : s < Len(Preset) /\ fd[s] = s + 1 /\ s \in Int /\ s >= 0
    BY SlotRange DEF Init, Used
  <2>3. DescriptorsOwned
    <3>1. PICK n \in Nat : n = Len(Preset) BY <2>1
    <3>2. open = 0 .. n BY <3>1 DEF Init
    <3>3. ASSUME NEW s \in Used PROVE fd[s] \in open
      <4>1. s < n /\ fd[s] = s + 1 /\ s \in Int /\ s >= 0 BY <2>2, <3>1
      <4>2. s + 1 \in 0 .. n BY <4>1
      <4> QED BY <3>2, <4>1, <4>2
    <3>4. ASSUME NEW r \in Used, NEW s \in Used, fd[r] = fd[s] PROVE r = s
      <4>1. r \in Int /\ s \in Int /\ r + 1 = s + 1 BY <2>2, <3>4
      <4> QED BY <4>1
    <3> QED BY <3>3, <3>4 DEF DescriptorsOwned
  <2>4. \A t \in Active : t + 1 \in 1 .. Len(Preset) /\ kind[t] = Preset[t + 1]
                          /\ unused[t] = {"r", "w"} \ Halves(Preset[t + 1])
    <3>1. \A t \in Tasks : t \in Int /\ t >= 0 BY SlotRange, SlotsAreTasks
    <3> QED BY <2>1, <3>1 DEF Init, Active
  <2>5. HalvesUsed BY <2>4 DEF OnlySockets, HalvesUsed, Halves
  <2> QED BY <2>3, <2>5 DEF Owned
<1>2. Inv /\ Owned /\ [Next]_vars => Owned'
  <2> SUFFICES ASSUME Inv, Owned, [Next]_vars PROVE Owned'
    OBVIOUS
  <2>1. TablesOK /\ IndexMaps BY DEF Inv, Core
  <2>2. CASE UNCHANGED vars
    BY <2>2 DEF vars, slotVars, taskVars, Owned, DescriptorsOwned, HalvesUsed, Used, Active
  <2>3. CASE Keeps
    BY <2>3 DEF Keeps, Owned, DescriptorsOwned, HalvesUsed, Used, Active
  <2> QED BY <2>1, <2>2, <2>3, StepIs, CloseOwns, RegisterOwns
<1>3. Owned => DescriptorsOwned BY DEF Owned
<1> QED BY <1>1, <1>2, <1>3, Invariant, PTL DEF Spec

-----------------------------------------------------------------------------
(* Errors on a listener                                                     *)

NoListenerErr == \A t \in Active : kind[t] = "listen" => "ERR" \notin revents[fidx[t]]

(* A send marks sockets and writers only.                                   *)
LEMMA SendSparesListeners ==
    ASSUME Tables, NoListenerErr, NEW T \in SUBSET Active,
           \A t \in T : kind[t] \in SendKinds, NEW out, NEW data, SendTo(T, out, data)
    PROVE  NoListenerErr'
<1>1. TablesOK /\ IndexMaps /\ UNCHANGED <<cnt, fd, tidx, fidx, kind, expires, unused>>
  BY DEF Tables, SendTo
<1> SUFFICES ASSUME NEW u \in Active, kind[u] = "listen"
             PROVE  "ERR" \notin revents'[fidx[u]]
  BY <1>1 DEF NoListenerErr, Active
<1>2. u \in Tasks /\ fidx[u] \in Slots BY <1>1 DEF Active, TablesOK
<1>3. \A t \in T : t # u BY DEF SendKinds
<1>4. ~ \E t \in T : fidx[t] = fidx[u] BY <1>1, <1>3 DEF IndexMaps
<1>5. revents'[fidx[u]] = revents[fidx[u]] BY <1>2, <1>4 DEF SendTo
<1> QED BY <1>5 DEF NoListenerErr

(* A close moves poll results along with their slot.                        *)
LEMMA CloseSparesListeners ==
    ASSUME Tables, NoListenerErr, NEW s \in Used, Close(s)
    PROVE  NoListenerErr'
<1>1. TablesOK /\ IndexMaps BY DEF Tables
<1>2. CASE kind[tidx[s]] \notin CloseKinds
  BY <1>2 DEF Close, slotVars, taskVars, NoListenerErr, Active
<1>3. CASE kind[tidx[s]] \in CloseKinds
  <2>1. SwapDelete(s) BY <1>3 DEF Close, SwapDelete
  <2> SUFFICES ASSUME NEW u \in Active', kind'[u] = "listen"
               PROVE  "ERR" \notin revents'[fidx'[u]]
    BY DEF NoListenerErr
  <2>2. u \in Tasks /\ kind'[u] # "free" BY DEF Active
  <2>3. u \in Active
    BY <1>1, <2>1, <2>2, UsedSlot DEF Active, SwapDelete, FreeTask, TablesOK
  <2>4. kind'[u] = kind[u] BY <1>1, <2>1, <2>2, <2>3, SurvivorSlot
  <2>5. revents'[fidx'[u]] = revents[fidx[u]]
    BY <1>1, <2>1, <2>2, <2>3, SurvivorPollfd
  <2> QED BY <2>3, <2>4, <2>5 DEF NoListenerErr
<1> QED BY <1>2, <1>3

(* A task starts with no poll results, unless its first send failed: that   *)
(* is a socket's.                                                           *)
LEMMA RegisterSparesListeners ==
    ASSUME Tables, NoListenerErr, NEW k \in AllKinds, NEW d \in Descriptors,
           NEW ok \in BOOLEAN, Register(k, d, ok)
    PROVE  NoListenerErr'
<1>1. TablesOK /\ IndexMaps BY DEF Tables
<1>2. CASE UNCHANGED <<slotVars, taskVars>>
  BY <1>2 DEF slotVars, taskVars, NoListenerErr, Active
<1>3. ASSUME NEW t \in FreeTasks, cnt < Max, Link(t, d),
             NEW R \in SUBSET Events, revents' = [revents EXCEPT ![cnt] = R]
      PROVE  /\ revents'[cnt] = R /\ fidx'[t] = cnt
             /\ \A u \in Active : /\ u # t /\ fidx'[u] = fidx[u]
                                  /\ revents'[fidx'[u]] = revents[fidx[u]]
  <2>1. cnt \in Slots /\ cnt \notin Used BY <1>1, <1>3, NextSlotFree
  <2>2. fidx'[t] = cnt BY <1>1, <1>3, LinkKeeps
  <2>3. \A u \in Active : u # t /\ fidx'[u] = fidx[u] /\ fidx[u] \in Used
    BY <1>1, <1>3, LinkKeeps
  <2>4. \A s \in Used : s # cnt /\ s \in Slots BY <2>1 DEF Used
  <2>5. \A s \in Slots : revents'[s] = (IF s = cnt THEN R ELSE revents[s])
    BY <1>1, <1>3 DEF TablesOK
  <2> QED BY <2>1, <2>2, <2>3, <2>4, <2>5
<1>4. ASSUME NEW t \in FreeTasks, cnt < Max,
             NEW o \in {"done", "blocked", "failed"}, NEW clears,
             Join(k, t, d, o, clears),
             k = "listen" => o # "failed"
      PROVE  NoListenerErr'
  <2>1. Link(t, d) /\ t \in Tasks
        /\ revents' = [revents EXCEPT ![cnt] = IF o = "failed" THEN {"ERR"} ELSE {}]
    BY <1>4 DEF Join, FreeTasks
  <2>2. PICK R : R = (IF o = "failed" THEN {"ERR"} ELSE {}) OBVIOUS
  <2>3. R \in SUBSET Events /\ (o # "failed" => R = {}) BY <2>2 DEF Events
  <2>4. revents' = [revents EXCEPT ![cnt] = R] BY <2>1, <2>2
  <2>5. revents'[cnt] = R /\ fidx'[t] = cnt BY <1>3, <1>4, <2>1, <2>3, <2>4
  <2>6. \A u \in Active : fidx'[u] = fidx[u] /\ revents'[fidx'[u]] = revents[fidx[u]]
    BY <1>3, <1>4, <2>1, <2>3, <2>4
  <2>7. kind'[t] = k /\ \A u \in Tasks : u # t => kind'[u] = kind[u]
    BY <1>1, <1>4, <2>1 DEF Join, TablesOK
  <2> SUFFICES ASSUME NEW u \in Active', kind'[u] = "listen"
               PROVE  "ERR" \notin revents'[fidx'[u]]
    BY DEF NoListenerErr
  <2>8. CASE u = t BY <1>4, <2>3, <2>5, <2>7, <2>8
  <2>9. CASE u # t
    <3>1. u \in Active /\ kind[u] = "listen" BY <2>7, <2>9 DEF Active
    <3> QED BY <2>6, <3>1 DEF NoListenerErr
  <2> QED BY <2>8, <2>9
<1>5. ASSUME NEW t \in FreeTasks, cnt < Max, AddFd(k, t, d) PROVE NoListenerErr'
  <2>1. PICK o \in {"done", "blocked", "failed"} :
             Join(k, t, d, o, k = "writer") /\ (k = "listen" => o = "done")
    BY <1>5 DEF AddFd, SendResults
  <2> QED BY <1>4, <1>5, <2>1
<1>6. ASSUME NEW t \in FreeTasks, cnt < Max, AddFdNoFcntl(t, d) PROVE NoListenerErr'
  <2>0. PICK R \in SUBSET Events : R = {} OBVIOUS
  <2>1. Link(t, d) /\ revents' = [revents EXCEPT ![cnt] = R] /\ kind' = kind
    BY <1>6, <2>0 DEF AddFdNoFcntl, taskVars
  <2>2. \A u \in Active : fidx'[u] = fidx[u] /\ revents'[fidx'[u]] = revents[fidx[u]]
    BY <1>3, <1>6, <2>1
  <2> QED BY <2>1, <2>2 DEF NoListenerErr, Active
<1>7. ASSUME NEW t \in FreeTasks, cnt < Max, AddFdNoBuffer(k, t, d) PROVE NoListenerErr'
  <2>1. Join(k, t, d, "done", FALSE) BY <1>7 DEF AddFdNoBuffer
  <2> QED BY <1>4, <1>7, <2>1
<1>8. \/ UNCHANGED <<slotVars, taskVars>>
      \/ cnt < Max /\ \E t \in FreeTasks :
            AddFd(k, t, d) \/ AddFdNoFcntl(t, d) \/ AddFdNoBuffer(k, t, d)
  BY DEF Register, IsFreeTask
<1> QED BY <1>2, <1>5, <1>6, <1>7, <1>8

(* poll reports an error on a listener only as a fault.                     *)
LEMMA ListenersFine ==
    ASSUME "listenerr" \notin Faults, Inv, NoListenerErr, Next
    PROVE  NoListenerErr'
<1>1. Tables /\ TablesOK /\ IndexMaps /\ ScanOK BY DEF Inv, Core, Tables
<1>2. cur < cnt => /\ cur \in Used /\ Task \in Tasks /\ kind[Task] # "free"
                   /\ fidx[Task] = cur /\ cur \in Slots
  <2>1. cur < cnt => cur \in Used
    BY <1>1, CountRange, SlotIntro DEF ScanOK, Used
  <2> QED BY <1>1, <2>1, UsedSlot DEF Task, IndexMaps
<1>3. ASSUME UNCHANGED <<fidx, revents, kind>> PROVE NoListenerErr'
  BY <1>3 DEF NoListenerErr, Active
<1>4. ASSUME AppendToAll PROVE NoListenerErr'
  <2>1. PICK T \in SUBSET Reachable \ {{}} :
             \E out \in [T -> SendResults] : SendTo(T, out, TRUE)
    BY <1>4 DEF AppendToAll
  <2>2. PICK out \in [T -> SendResults] : SendTo(T, out, TRUE) BY <2>1
  <2>3. T \in SUBSET Active /\ \A t \in T : kind[t] \in SendKinds BY DEF Reachable
  <2> QED BY <1>1, <2>2, <2>3, SendSparesListeners
<1>5. CASE Program
  <2>1. CASE AddReader \/ AddWriterOrListener \/ ConnectSocket
    <3>1. \/ UNCHANGED <<slotVars, taskVars>>
          \/ \E k \in AllKinds, d \in Descriptors, ok \in BOOLEAN : Register(k, d, ok)
      BY <2>1 DEF AddReader, AddWriterOrListener, ConnectSocket, AllKinds
    <3> QED BY <1>1, <1>3, <3>1, RegisterSparesListeners DEF slotVars, taskVars
  <2>2. CASE Broadcast BY <1>4, <2>2 DEF Broadcast
  <2>3. ASSUME NEW t \in Tasks, LimitTask(t) PROVE NoListenerErr'
    BY <1>3, <2>3 DEF LimitTask, slotVars
  <2>4. ASSUME NEW t \in Tasks, ReleaseTask(t) PROVE NoListenerErr'
    BY <1>1, <2>4, CloseSparesListeners DEF ReleaseTask
  <2> QED BY <1>5, <2>1, <2>2, <2>3, <2>4 DEF Program
<1>6. CASE Poll
  <2>1. PICK r \in [Used -> SUBSET Events] :
             /\ \A s \in Used : r[s] \subseteq Report(s)
             /\ revents' = [s \in Slots |-> IF s \in Used THEN r[s] ELSE revents[s]]
             /\ UNCHANGED <<kind, fidx>>
    BY <1>6 DEF Poll, taskVars
  <2> SUFFICES ASSUME NEW u \in Active, kind[u] = "listen"
               PROVE  "ERR" \notin revents'[fidx[u]]
    BY <2>1 DEF NoListenerErr, Active
  <2>2. fidx[u] \in Used /\ fidx[u] \in Slots /\ tidx[fidx[u]] = u
    BY <1>1 DEF IndexMaps, Active, Used, TablesOK
  <2>3. "ERR" \notin Report(fidx[u]) BY <2>2 DEF Report
  <2> QED BY <2>1, <2>2, <2>3
<1>7. CASE PollTimeout
  <2>1. /\ revents' = [s \in Slots |-> IF s \in Used THEN {} ELSE revents[s]]
        /\ UNCHANGED <<kind, fidx>>
    BY <1>7 DEF PollTimeout, taskVars
  <2>2. \A u \in Active : fidx[u] \in Slots BY <1>1 DEF Active, TablesOK
  <2> QED BY <2>1, <2>2 DEF NoListenerErr, Active
<1>8. CASE Scan
  <2>1. ASSUME cur < cnt, CloseAndRescan PROVE NoListenerErr'
    BY <1>1, <1>2, <2>1, CloseSparesListeners DEF CloseAndRescan
  <2>2. CASE SendOut
    <3>1. CASE CloseAndRescan BY <2>1, <2>2, <3>1 DEF SendOut, Scanning
    <3>2. ASSUME NEW o, SendTo({Task}, [t \in {Task} |-> o], FALSE)
          PROVE  NoListenerErr'
      <4>1. {Task} \in SUBSET Active BY <1>2, <2>2 DEF SendOut, Scanning, Active
      <4>2. \A t \in {Task} : kind[t] \in SendKinds BY <2>2 DEF SendOut, Ready
      <4> QED BY <1>1, <3>2, <4>1, <4>2, SendSparesListeners
    <3> QED BY <2>2, <3>1, <3>2 DEF SendOut
  <2>3. CASE ReceiveFails \/ HangUp
    BY <2>1, <2>3 DEF ReceiveFails, HangUp, Scanning
  <2>4. CASE SkipOut \/ ReceiveQuietly \/ ReceiveGranted \/ AcceptFails \/ SkipIn
             \/ SkipErr \/ ScanDone \/ ExpireDone
    BY <1>3, <2>4 DEF SkipOut, ReceiveQuietly, ReceiveGranted, AcceptFails, SkipIn,
       SkipErr, ScanDone, ExpireDone, slotVars, taskVars
  <2>5. CASE ReceiveDenied
    <3>1. /\ cur < cnt /\ kind[Task] = "socket" /\ UNCHANGED <<fidx, kind>>
          /\ revents' = [revents EXCEPT ![fidx[Task]] = @ \cup {"ERR"}]
      BY <2>5 DEF ReceiveDenied, Scanning, Ready
    <3>2. Task \in Tasks /\ fidx[Task] = cur /\ cur \in Slots BY <1>2, <3>1
    <3> SUFFICES ASSUME NEW u \in Active, kind[u] = "listen"
                 PROVE  "ERR" \notin revents'[fidx[u]]
      BY <3>1 DEF NoListenerErr, Active
    <3>3. u \in Tasks /\ fidx[u] \in Slots BY <1>1 DEF Active, TablesOK
    <3>4. fidx[u] # fidx[Task]
      BY <1>1, <1>2, <3>1, <3>3 DEF IndexMaps, Active
    <3>5. revents'[fidx[u]] = revents[fidx[u]]
      BY <1>1, <3>1, <3>2, <3>3, <3>4 DEF TablesOK
    <3> QED BY <3>5 DEF NoListenerErr
  <2>6. CASE ReceiveAndSend BY <1>4, <2>6 DEF ReceiveAndSend
  <2>7. CASE AcceptClient
    BY <1>1, <2>7, RegisterSparesListeners DEF AcceptClient, AllKinds
  <2>8. CASE ExpireClose
    BY <1>1, <2>8, CloseSparesListeners DEF ExpireClose, Late
  <2> QED BY <1>8, <2>2, <2>3, <2>4, <2>5, <2>6, <2>7, <2>8 DEF Scan
<1>9. ASSUME NEW t \in Tasks, DeadlinePasses(t) PROVE NoListenerErr'
  BY <1>3, <1>9 DEF DeadlinePasses, slotVars
<1> QED BY <1>5, <1>6, <1>7, <1>8, <1>9 DEF Next

-----------------------------------------------------------------------------
(* What a step of the scan does                                             *)

Passing == pc \in {"out", "in", "err"}
Stays == \A u \in Active : kind'[u] = kind[u] /\ fidx'[u] = fidx[u]

(* It ends the pass, closes the current slot, which is not a listener's, or *)
(* moves the cursor on and leaves every task in its slot.                   *)
LEMMA ScanIs ==
    ASSUME Inv, NoListenerErr, Scan
    PROVE  \/ pc = "out" /\ cur >= cnt /\ pc' = "idle" /\ Stays
           \/ pc = "expire" /\ pc' \in {"idle", "expire"}
           \/ /\ Passing /\ cur < cnt /\ cur \in Used /\ SwapDelete(cur)
              /\ IF tries = 0 THEN pc' = "idle"
                 ELSE pc' = "out" /\ cur' = 0 /\ tries' = tries - 1
           \/ /\ Stays /\ tries' = tries
              /\ \/ pc = "out" /\ pc' = "in" /\ cur' = cur
                 \/ pc = "in" /\ cur < cnt /\ pc' = "err" /\ cur' = cur
                 \/ pc = "in" /\ cur < cnt /\ Served /\ pc' = "out" /\ cur' = cur + 1
                 \/ pc = "err" /\ cur < cnt /\ pc' = "out" /\ cur' = cur + 1
<1>1. Tables /\ TablesOK /\ IndexMaps /\ ScanOK BY DEF Inv, Core, Tables
<1>2. cur < cnt => /\ cur \in Used /\ Task \in Active /\ fidx[Task] = cur
  <2>1. cur < cnt => cur \in Used
    BY <1>1, CountRange, SlotIntro DEF ScanOK, Used
  <2> QED BY <1>1, <2>1, UsedSlot DEF Task, IndexMaps, Active
<1>3. ASSUME kind' = kind, fidx' = fidx PROVE Stays BY <1>3 DEF Stays
<1>4. ASSUME cur < cnt, kind[Task] \in CloseKinds, CloseAndRescan, Passing
      PROVE  /\ Passing /\ cur < cnt /\ cur \in Used /\ SwapDelete(cur)
             /\ IF tries = 0 THEN pc' = "idle"
                ELSE pc' = "out" /\ cur' = 0 /\ tries' = tries - 1
  BY <1>2, <1>4 DEF CloseAndRescan, Close, SwapDelete, Task, Goto
<1>5. ASSUME AppendToAll PROVE Stays BY <1>3, <1>5 DEF AppendToAll, SendTo
<1>6. CASE SendOut
  <2>1. cur < cnt /\ pc = "out" /\ kind[Task] \in CloseKinds
    BY <1>6 DEF SendOut, Scanning, Ready, SendKinds, CloseKinds
  <2>2. CASE CloseAndRescan BY <1>4, <2>1, <2>2 DEF Passing
  <2>3. ASSUME NEW o, SendTo({Task}, [t \in {Task} |-> o], FALSE), Goto("in")
        PROVE  Stays /\ tries' = tries /\ pc' = "in" /\ cur' = cur
    BY <1>3, <2>3 DEF SendTo, Goto
  <2> QED BY <1>6, <2>1, <2>2, <2>3 DEF SendOut
<1>7. CASE ReceiveFails
  BY <1>4, <1>7 DEF ReceiveFails, Scanning, Ready, CloseKinds, Passing
<1>8. CASE HangUp
  <2>1. cur < cnt /\ pc = "err" /\ "ERR" \in revents[cur] /\ CloseAndRescan
    BY <1>8 DEF HangUp, Scanning
  <2>2. Task \in Active /\ fidx[Task] = cur BY <1>2, <2>1
  <2>3. kind[Task] # "listen" BY <2>1, <2>2 DEF NoListenerErr
  <2>4. kind[Task] \in CloseKinds
    BY <1>1, <2>2, <2>3 DEF CloseKinds, Active, TablesOK, AllKinds
  <2> QED BY <1>4, <2>1, <2>4 DEF Passing
<1>9. CASE SkipOut \/ ReceiveQuietly \/ SkipIn \/ SkipErr
  BY <1>3, <1>9 DEF SkipOut, ReceiveQuietly, SkipIn, SkipErr, Scanning, Goto,
     NextSlot, slotVars, taskVars
<1>10. CASE AcceptFails
  BY <1>3, <1>10 DEF AcceptFails, Scanning, NextSlot, slotVars, taskVars, Served,
     Ready, ReadKinds
<1>11. CASE ReceiveDenied \/ ReceiveGranted
  BY <1>3, <1>11 DEF ReceiveDenied, ReceiveGranted, Scanning, Goto, slotVars
<1>12. CASE ReceiveAndSend
  BY <1>5, <1>12 DEF ReceiveAndSend, Scanning, Goto
<1>13. CASE AcceptClient
  <2>1. PICK d \in Descriptors, ok \in BOOLEAN : Register("socket", d, ok)
    BY <1>13 DEF AcceptClient
  <2>2. Stays
    <3>1. CASE UNCHANGED <<slotVars, taskVars>>
      BY <1>3, <3>1 DEF slotVars, taskVars
    <3>2. ASSUME cnt < Max, NEW t \in FreeTasks, Link(t, d),
                 kind' = kind \/ kind' = [kind EXCEPT ![t] = "socket"]
          PROVE  Stays
      <4>1. \A u \in Active : u # t /\ fidx'[u] = fidx[u]
        BY <1>1, <3>2, LinkKeeps
      <4>2. \A u \in Active : kind'[u] = kind[u]
        BY <1>1, <3>2, <4>1 DEF Active, TablesOK
      <4> QED BY <4>1, <4>2 DEF Stays
    <3>3. \/ UNCHANGED <<slotVars, taskVars>>
          \/ cnt < Max /\ \E t \in FreeTasks :
                Link(t, d) /\ (kind' = kind \/ kind' = [kind EXCEPT ![t] = "socket"])
      BY <2>1 DEF Register, IsFreeTask, AddFd, AddFdNoFcntl, AddFdNoBuffer, Join,
         taskVars
    <3> QED BY <3>1, <3>2, <3>3
  <2> QED BY <1>13, <2>2 DEF AcceptClient, Scanning, Goto
<1>14. CASE ScanDone
  BY <1>3, <1>14 DEF ScanDone, Goto, slotVars, taskVars
<1>15. CASE ExpireClose \/ ExpireDone
  BY <1>15 DEF ExpireClose, ExpireDone, scanVars, Goto
<1> QED BY <1>6, <1>7, <1>8, <1>9, <1>10, <1>11, <1>12, <1>13, <1>14, <1>15 DEF Scan

-----------------------------------------------------------------------------
(* A pass                                                                   *)

(* The tasks there were at poll and still are.                              *)
Residents == Active \ guests

OwedResidents == owed \subseteq Residents

(* Who is owed a handler's run is still ahead of the cursor.                *)
OwedAhead == Passing => \A t \in owed :
    /\ kind[t] \in ReadKinds /\ "IN" \in revents[fidx[t]]
    /\ cur <= fidx[t] /\ (pc = "err" => cur < fidx[t])

(* A rescan is left for every resident that may still be closed, but one:   *)
(* when that one goes nobody is left.                                       *)
TriesLeft == Passing /\ ~spent => Cardinality(Residents) <= tries + 1

AllServed == pc \in {"idle", "expire"} /\ ~spent => owed = {}

PassInv == Inv /\ NoListenerErr /\ OwedResidents /\ OwedAhead /\ TriesLeft /\ AllServed

(* There are finitely many tasks.                                           *)
LEMMA TasksFinite == IsFiniteSet(Tasks)
BY MaxAssumption, FS_Interval DEF Tasks

(* Fewer residents, and fewer still when one of them is closed.             *)
LEMMA ResidentsCount ==
    /\ Cardinality(Residents) \in Nat
    /\ Residents = {} <=> Cardinality(Residents) = 0
    /\ \A R \in SUBSET Residents : Cardinality(R) \in Nat /\ Cardinality(R) <= Cardinality(Residents)
    /\ \A t \in Residents : \A R \in SUBSET (Residents \ {t}) :
          Cardinality(R) \in Nat /\ Cardinality(R) <= Cardinality(Residents) - 1
<1>1. IsFiniteSet(Residents)
  <2>1. Residents \in SUBSET Tasks BY DEF Residents, Active
  <2> QED BY <2>1, TasksFinite, FS_Subset
<1>2. Cardinality(Residents) \in Nat BY <1>1, FS_CardinalityType
<1>3. Residents = {} <=> Cardinality(Residents) = 0 BY <1>1, FS_EmptySet
<1>4. ASSUME NEW R \in SUBSET Residents
      PROVE  Cardinality(R) \in Nat /\ Cardinality(R) <= Cardinality(Residents)
  BY <1>1, FS_Subset, FS_CardinalityType
<1>5. ASSUME NEW t \in Residents, NEW R \in SUBSET (Residents \ {t})
      PROVE  Cardinality(R) \in Nat /\ Cardinality(R) <= Cardinality(Residents) - 1
  <2>1. /\ IsFiniteSet(Residents \ {t})
        /\ Cardinality(Residents \ {t}) = Cardinality(Residents) - 1
    BY <1>1, FS_RemoveElement
  <2>2. IsFiniteSet(R) /\ Cardinality(R) <= Cardinality(Residents \ {t})
    BY <2>1, FS_Subset
  <2>3. Cardinality(R) \in Nat BY <2>2, FS_CardinalityType
  <2> QED BY <2>1, <2>2, <2>3
<1> QED BY <1>2, <1>3, <1>4, <1>5

(* As many tasks as slots: the map fidx is one to one.                      *)
LEMMA ActiveCount ==
    ASSUME Inv
    PROVE  Cardinality(Active) \in Nat /\ Cardinality(Active) <= cnt
<1>1. TablesOK /\ IndexMaps BY DEF Inv, Core
<1>2. IsFiniteSet(Active)
  <2>1. Active \in SUBSET Tasks BY DEF Active
  <2> QED BY <2>1, TasksFinite, FS_Subset
<1>3. Cardinality(Active) \in Nat BY <1>2, FS_CardinalityType
<1>4. IsFiniteSet(0 .. cnt - 1) /\ Cardinality(0 .. cnt - 1) = cnt
  <2>1. cnt \in Nat /\ 0 \in Int /\ cnt - 1 \in Int /\ (0 > cnt - 1 <=> cnt = 0)
    BY <1>1, CountRange
  <2> QED BY <2>1, FS_Interval
<1>5. ASSUME cnt < Cardinality(Active) PROVE FALSE
  <2>1. PICK f : f = [t \in Active |-> fidx[t]] OBVIOUS
  <2>2. \A t \in Active : fidx[t] \in 0 .. cnt - 1
    BY <1>1, SlotRange, CountRange DEF IndexMaps, Active, TablesOK
  <2>3. f \in [Active -> 0 .. cnt - 1] BY <2>1, <2>2
  <2>4. \E t, u \in Active : t # u /\ f[t] = f[u]
    BY <1>2, <1>4, <1>5, <2>3, FS_PigeonHole
  <2> QED BY <1>1, <2>1, <2>4 DEF IndexMaps
<1> QED BY <1>1, <1>3, <1>5, CountRange

(* What poll charges the pass with are residents that lie ahead of the scan.*)
LEMMA PollCharges ==
    ASSUME PassInv, PassPoll
    PROVE  OwedResidents' /\ OwedAhead' /\ TriesLeft' /\ AllServed'
<1>1. TablesOK /\ IndexMaps /\ Inv BY DEF PassInv, Inv, Core
<1>2. /\ UNCHANGED <<cnt, tidx, fidx, kind>> /\ cnt > 0
      /\ pc' = "out" /\ cur' = 0 /\ tries' = cnt - 1
      /\ owed' = Reported /\ guests' = {} /\ spent' = FALSE
  BY DEF PassPoll, Poll, taskVars
<1>3. Active' = Active /\ Residents' = Active BY <1>2 DEF Active, Residents
<1>4. ASSUME NEW t \in owed'
      PROVE  /\ t \in Active /\ kind[t] \in ReadKinds
             /\ "IN" \in revents'[fidx[t]] /\ 0 <= fidx[t]
  <2>1. PICK s \in Used : t = tidx[s] /\ "IN" \in revents'[s] /\ kind[t] \in ReadKinds
    BY <1>2 DEF Reported
  <2>2. fidx[t] = s /\ t \in Active
    BY <1>1, <2>1, UsedSlot DEF IndexMaps, Active
  <2> QED BY <2>1, <2>2, SlotRange DEF Used
<1>5. OwedResidents' BY <1>3, <1>4 DEF OwedResidents
<1>6. OwedAhead' BY <1>2, <1>4 DEF OwedAhead
<1>7. TriesLeft'
  <2>1. Cardinality(Active) <= cnt BY <1>1, ActiveCount
  <2> QED BY <1>1, <1>2, <1>3, <2>1, CountRange DEF TriesLeft
<1>8. AllServed' BY <1>2 DEF AllServed
<1> QED BY <1>5, <1>6, <1>7, <1>8

(* A step of the scan keeps those still owed ahead of it.                   *)
LEMMA StepDischarges ==
    ASSUME PassInv, PassStep, Inv', SurvivorStep
    PROVE  OwedResidents' /\ OwedAhead' /\ TriesLeft' /\ AllServed'
<1>1. TablesOK /\ IndexMaps /\ ScanOK /\ Inv /\ NoListenerErr /\ Scan
  BY DEF PassInv, Inv, Core, PassStep
<1>2. /\ owed' = {t \in owed : kind'[t] # "free" /\ ~(Served /\ t = Task)}
      /\ guests' = (guests \cup FreeTasks) \ {t \in Tasks : kind'[t] = "free"}
      /\ spent' = (spent \/ \E t \in guests : kind'[t] = "free")
  BY DEF PassStep
<1>3. OwedResidents /\ OwedAhead /\ TriesLeft /\ AllServed BY DEF PassInv
<1>4. ASSUME NEW t \in owed'
      PROVE  /\ t \in owed /\ t \in Active /\ kind'[t] # "free" /\ t \in Active'
             /\ t \notin guests' /\ ~(Served /\ t = Task) /\ fidx[t] \in Slots
             /\ fidx'[t] \in Slots
  <2>1. t \in owed /\ kind'[t] # "free" /\ ~(Served /\ t = Task) BY <1>2
  <2>2. t \in Active /\ t \notin guests /\ t \in Tasks
    BY <1>3, <2>1 DEF OwedResidents, Residents, Active
  <2>3. t \notin guests' BY <1>2, <2>2 DEF FreeTasks, Active
  <2>4. fidx[t] \in Slots BY <1>1, <2>2 DEF TablesOK
  <2>5. fidx'[t] \in Slots BY <2>2 DEF Inv, Core, TablesOK
  <2> QED BY <2>1, <2>2, <2>3, <2>4, <2>5 DEF Active
<1>5. OwedResidents' BY <1>4 DEF OwedResidents, Residents
<1>6. \A t \in Residents' : t \in Residents /\ kind'[t] # "free"
  BY <1>2 DEF Residents, Active, FreeTasks
<1>7. owed' \subseteq Residents' BY <1>5 DEF OwedResidents
<1>8. CASE pc = "out" /\ cur >= cnt /\ pc' = "idle" /\ Stays
  <2>1. owed = {}
    <3> SUFFICES ASSUME NEW t \in owed PROVE FALSE
      OBVIOUS
    <3>1. cur <= fidx[t] BY <1>3, <1>8 DEF OwedAhead, Passing
    <3>2. t \in Active /\ fidx[t] \in Slots
      BY <1>1, <1>3 DEF OwedResidents, Residents, Active, TablesOK
    <3>3. fidx[t] < cnt BY <1>1, <3>2 DEF IndexMaps
    <3> QED BY <1>1, <1>8, <3>1, <3>2, <3>3, CountRange, SlotRange DEF ScanOK
  <2>2. owed' = {} BY <1>2, <2>1
  <2> QED BY <1>5, <1>8, <2>2 DEF OwedAhead, TriesLeft, AllServed, Passing
<1>9. CASE pc = "expire" /\ pc' \in {"idle", "expire"}
  <2>1. ~spent' => owed' = {} BY <1>2, <1>3, <1>9 DEF AllServed
  <2> QED BY <1>5, <1>9, <2>1 DEF OwedAhead, TriesLeft, AllServed, Passing
<1>10. CASE /\ Passing /\ cur < cnt /\ cur \in Used /\ SwapDelete(cur)
            /\ IF tries = 0 THEN pc' = "idle"
               ELSE pc' = "out" /\ cur' = 0 /\ tries' = tries - 1
  <2>1. Task \in Active /\ kind'[Task] = "free"
    <3>1. Task \in Tasks /\ kind[Task] # "free"
      BY <1>1, <1>10, UsedSlot DEF Task, IndexMaps
    <3>2. kind'[Task] = "free"
      BY <1>1, <1>10, <3>1 DEF SwapDelete, FreeTask, Task, TablesOK
    <3> QED BY <3>1, <3>2 DEF Active
  (* Either a guest is closed, which is marked, or one resident less is left. *)
  <2>2. ~spent' => ~spent /\ Task \in Residents
    BY <1>2, <2>1 DEF Residents
  <2>3. Residents' \subseteq Residents \ {Task} BY <1>6, <2>1
  <2>4. ~spent' => /\ Cardinality(Residents') \in Nat
                   /\ Cardinality(Residents') <= Cardinality(Residents) - 1
                   /\ Cardinality(Residents) <= tries + 1
                   /\ Cardinality(Residents) \in Nat
    <3> SUFFICES ASSUME ~spent'
                 PROVE  /\ Cardinality(Residents') \in Nat
                        /\ Cardinality(Residents') <= Cardinality(Residents) - 1
                        /\ Cardinality(Residents) <= tries + 1
                        /\ Cardinality(Residents) \in Nat
      OBVIOUS
    <3>1. PICK R : R = Residents' OBVIOUS
    <3>2. Task \in Residents /\ R \in SUBSET (Residents \ {Task}) BY <2>2, <2>3, <3>1
    <3>3. Cardinality(R) \in Nat /\ Cardinality(R) <= Cardinality(Residents) - 1
          /\ Cardinality(Residents) \in Nat
      BY <3>2, ResidentsCount
    <3> QED BY <1>3, <1>10, <2>2, <3>1, <3>3 DEF TriesLeft
  <2>5. CASE tries = 0
    <3>1. pc' = "idle" BY <1>10, <2>5
    <3>2. ~spent' => owed' = {}
      <4> SUFFICES ASSUME ~spent' PROVE owed' = {}
        OBVIOUS
      <4>1. Cardinality(Residents') = 0 BY <2>4, <2>5
      <4>2. PICK R : R = Residents' OBVIOUS
      <4>3. R \in SUBSET Tasks BY <1>6, <4>2 DEF Residents, Active
      <4>4. IsFiniteSet(R) BY <4>3, TasksFinite, FS_Subset
      <4>5. R = {} BY <4>1, <4>2, <4>4, FS_EmptySet
      <4> QED BY <1>7, <4>2, <4>5
    <3> QED BY <1>5, <3>1, <3>2 DEF OwedAhead, TriesLeft, AllServed, Passing
  <2>6. CASE tries # 0
    <3>1. pc' = "out" /\ cur' = 0 /\ tries' = tries - 1 BY <1>10, <2>6
    <3>2. TriesLeft' BY <1>1, <2>4, <3>1 DEF TriesLeft, ScanOK
    <3>3. ASSUME NEW t \in owed'
          PROVE  /\ kind'[t] \in ReadKinds /\ "IN" \in revents'[fidx'[t]]
                 /\ 0 <= fidx'[t]
      <4>1. kind'[t] = kind[t] /\ revents'[fidx'[t]] = revents[fidx[t]]
        BY <1>1, <1>4, <1>10, SurvivorSlot, SurvivorPollfd
      <4>2. kind[t] \in ReadKinds /\ "IN" \in revents[fidx[t]]
        BY <1>3, <1>4, <1>10 DEF OwedAhead
      <4> QED BY <1>4, <4>1, <4>2, SlotRange
    <3>4. OwedAhead' BY <3>1, <3>3 DEF OwedAhead
    <3> QED BY <1>5, <3>1, <3>2, <3>4 DEF AllServed
  <2> QED BY <2>5, <2>6
<1>11. CASE /\ Stays /\ tries' = tries
            /\ \/ pc = "out" /\ pc' = "in" /\ cur' = cur
               \/ pc = "in" /\ cur < cnt /\ pc' = "err" /\ cur' = cur
               \/ pc = "in" /\ cur < cnt /\ Served /\ pc' = "out" /\ cur' = cur + 1
               \/ pc = "err" /\ cur < cnt /\ pc' = "out" /\ cur' = cur + 1
  <2>1. Passing /\ pc' \in {"out", "in", "err"} BY <1>11 DEF Passing
  <2>2. TriesLeft'
    <3> SUFFICES ASSUME ~spent' PROVE Cardinality(Residents') <= tries + 1
      BY <1>11 DEF TriesLeft
    <3>1. ~spent BY <1>2
    <3>2. PICK R : R = Residents' OBVIOUS
    <3>3. R \in SUBSET Residents BY <1>6, <3>2
    <3>4. /\ Cardinality(R) \in Nat /\ Cardinality(R) <= Cardinality(Residents)
          /\ Cardinality(Residents) \in Nat
      BY <3>3, ResidentsCount
    <3>5. Cardinality(Residents) <= tries + 1 BY <1>3, <2>1, <3>1 DEF TriesLeft
    <3> QED BY <1>1, <3>2, <3>4, <3>5 DEF ScanOK
  (* The task of the current slot is served, or it was not owed a run.      *)
  <2>3. ASSUME NEW t \in owed', pc = "in", cur < cnt PROVE fidx[t] # cur
    <3> SUFFICES ASSUME fidx[t] = cur PROVE FALSE
      OBVIOUS
    <3>1. t = Task BY <1>1, <1>4 DEF IndexMaps, Task
    <3>2. Served BY <1>3, <1>4, <2>1, <2>3, <3>1 DEF OwedAhead, Served, Scanning, Ready
    <3> QED BY <1>4, <3>1, <3>2
  <2>4. ASSUME NEW t \in owed'
        PROVE  /\ kind'[t] \in ReadKinds /\ "IN" \in revents'[fidx'[t]]
               /\ cur' <= fidx'[t] /\ (pc' = "err" => cur' < fidx'[t])
    <3>1. kind'[t] = kind[t] /\ fidx'[t] = fidx[t] BY <1>4, <1>11 DEF Stays
    <3>2. /\ kind[t] \in ReadKinds /\ "IN" \in revents[fidx[t]]
          /\ cur <= fidx[t] /\ (pc = "err" => cur < fidx[t])
      BY <1>3, <1>4, <2>1 DEF OwedAhead
    <3>3. revents[fidx[t]] \subseteq revents'[fidx'[t]]
      BY <1>4, <2>1 DEF SurvivorStep, Passing
    <3>4. cur' <= fidx[t] /\ (pc' = "err" => cur' < fidx[t])
      <4>1. cur \in Int /\ fidx[t] \in Int BY <1>1, <1>4, SlotRange DEF ScanOK
      <4> QED BY <1>11, <2>3, <3>2, <4>1
    <3> QED BY <3>1, <3>2, <3>3, <3>4
  <2>5. OwedAhead' BY <2>4 DEF OwedAhead
  <2> QED BY <1>5, <2>1, <2>2, <2>5 DEF AllServed
<1> QED BY <1>1, <1>8, <1>9, <1>10, <1>11, ScanIs

(* What happens between passes leaves the pass as it is.                    *)
LEMMA BetweenKeeps ==
    ASSUME PassInv, BetweenPasses
    PROVE  OwedResidents' /\ OwedAhead' /\ TriesLeft' /\ AllServed'
<1>1. /\ owed' = {t \in owed : kind'[t] # "free"}
      /\ UNCHANGED <<guests, spent>>
  BY DEF BetweenPasses
<1>2. pc = "idle" /\ pc' \in {"idle", "expire"}
  <2>1. CASE Program
    BY <2>1 DEF Program, AddReader, AddWriterOrListener, ConnectSocket, Broadcast,
       LimitTask, ReleaseTask, scanVars, PassInv, Inv, Passing
  <2>2. CASE PollTimeout BY <2>2 DEF PollTimeout
  <2>3. ASSUME NEW t \in Tasks, DeadlinePasses(t)
        PROVE  pc = "idle" /\ pc' \in {"idle", "expire"}
    BY <2>3 DEF DeadlinePasses, scanVars
  <2> QED BY <2>1, <2>2, <2>3 DEF BetweenPasses
<1>3. OwedResidents'
  BY <1>1 DEF PassInv, OwedResidents, Residents, Active
<1>4. ~spent' => owed' = {} BY <1>1, <1>2 DEF PassInv, AllServed
<1> QED BY <1>2, <1>3, <1>4 DEF OwedAhead, TriesLeft, AllServed, Passing

(* When poll reports no error on a listener, a pass of abi_io_iterator      *)
(* calls the handler of every descriptor whose input poll reported, or      *)
(* closes it, however many slots are closed and moved while it scans, and   *)
(* its bound on the rescans is enough; unless a client it had itself        *)
(* accepted was closed again.                                               *)
THEOREM NobodyIsSkipped ==
    "listenerr" \notin Faults => (PassSpec => []NobodySkipped)
<1> SUFFICES ASSUME "listenerr" \notin Faults PROVE PassSpec => []NobodySkipped
  OBVIOUS
<1>1. PassInit => PassInv
  <2> SUFFICES ASSUME PassInit PROVE PassInv
    OBVIOUS
  <2>1. Init /\ owed = {} /\ pc = "idle" BY DEF PassInit, Init
  <2>2. Inv BY <2>1, InitInv
  <2>3. NoListenerErr
    <3>1. \A t \in Active : fidx[t] \in Slots BY <2>2 DEF Inv, Core, TablesOK, Active
    <3> QED BY <2>1, <3>1 DEF Init, NoListenerErr
  <2> QED BY <2>1, <2>2, <2>3
          DEF PassInv, OwedResidents, OwedAhead, TriesLeft, AllServed, Passing
<1>2. PassInv /\ [PassNext]_<<vars, passVars>> => PassInv'
  <2> SUFFICES ASSUME PassInv, [PassNext]_<<vars, passVars>> PROVE PassInv'
    OBVIOUS
  <2>1. Inv /\ NoListenerErr BY DEF PassInv
  <2>2. CASE PassNext
    <3>1. Next BY <2>2 DEF PassNext, PassPoll, PassStep, BetweenPasses, Next
    <3>2. Inv' /\ SurvivorStep BY <2>1, <3>1, NextKeeps
    <3>3. NoListenerErr' BY <2>1, <3>1, ListenersFine
    <3>4. OwedResidents' /\ OwedAhead' /\ TriesLeft' /\ AllServed'
      BY <2>2, <3>2, PollCharges, StepDischarges, BetweenKeeps DEF PassNext
    <3> QED BY <3>2, <3>3, <3>4 DEF PassInv
  <2>3. CASE UNCHANGED <<vars, passVars>>
    <3>1. Inv' BY <2>1, <2>3, NextKeeps
    <3>2. NoListenerErr'
      BY <2>1, <2>3 DEF vars, slotVars, taskVars, NoListenerErr, Active
    <3>3. OwedResidents' /\ OwedAhead' /\ TriesLeft' /\ AllServed'
      BY <2>3 DEF PassInv, vars, slotVars, taskVars, scanVars, passVars, OwedResidents,
         OwedAhead, TriesLeft, AllServed, Residents, Active, Passing
    <3> QED BY <3>1, <3>2, <3>3 DEF PassInv
  <2> QED BY <2>2, <2>3
<1>3. PassInv => NobodySkipped BY DEF PassInv, AllServed, NobodySkipped
<1> QED BY <1>1, <1>2, <1>3, PTL DEF PassSpec
=============================================================================
