# Verification of netcam4-oem

TLA+ models of the network camera client in `src/`, the TLC runs that check
them, and proofs of what matters most in them, in eight modules. The program is C: a library for
talking to the camera (`src/lib/abi`), a discovery client (`src/lib/mcast`), a library for AVI files
(`src/lib/avi`), the capture program `cam4_ps` with its viewer, and small
command clients (`src/tools/platforms/cam4-client`).

1. [The system](#1-the-system)
2. [Modules](#2-modules)
3. [Runs](#3-runs)
4. [Proofs](#4-proofs)
5. [Where the code and its promises part](#5-where-the-code-and-its-promises-part)
6. [Not modelled](#6-not-modelled)
7. [Plan](#7-plan)

## 1. The system

A camera is found by multicast announcements. A client then opens two ways to
it: a TCP connection for commands and data, which carries framed packets that
are trees of key and value nodes, and a raw packet socket for the video, whose
kernel receive ring is mapped into the process.

```
 camera ──UDP announcements──▶ mcast-cl.c ──▶ find_ifs ──▶ raw_on, process_cm_ifs
    │                                                             │
    ├──TCP: framed node trees──▶ I/O controller ◀── command clients, FIFO commands
    │                             (abi-helpers.c)    viewer over HTTP chunk streams
    └──raw frames──▶ PACKET_RX_RING ──▶ capture loop ──▶ double buffer ──▶ dump /
                                        (cam4_ps_main)                    display thread
```

| component | state it keeps | operations | hard because | right when |
|---|---|---|---|---|
| I/O controller (`abi-helpers.c`, `io.h`) | two arrays, pollfd slots and tasks, tied by `tidx` and `fidx`; flags, deadlines | `abi_ioc_add_fd` and its wrappers, `abi_close_socket`, `abi_task_send`, `abi_ioc_append2all`, `abi_io_iterator`, `abi_io_on_timeout` | a slot is closed in the middle of the scan over the slots, and the last one moves into the hole; handlers send to any task; registrations fail half way | the maps stay inverse, nobody gets another's descriptor, nobody poll reported is skipped, unsent bytes are waited for, a pass ends |
| Send buffer and framed receiver | `data`, `done`, `todo`; a header and a body that arrive in pieces | `abi_mem2fd_task_send`, `abi_ioc_recv_header`, `abi_ioc_recv`, `abi_writer_task_reset` | short writes, a bounded kernel buffer, both ends blocked at once, commands that reset a half written buffer | a packet arrives whole, once and in order, or the connection ends |
| Session handshake (`abi-auth.c`) | verdict bits, two challenges, a gate, a deadline | announcement, request, response, status | both ends may ask at once over one stream and stop answering when their own gate opens | gates open only for a known login, and no mutual login stalls |
| Packet trees (`abi-writer.c`, `abi-reader.c`) | an array of nodes with `next` and `neig` links | insert, append, append into, write, read | size headers of one, two and four bytes measured in one place and written in another; unknown nodes are skipped at any depth | a reader gets exactly the nodes it knows |
| Key search (`abi-reader.c`) | a list threaded through the nodes | link the nodes of the right size, take off those that differ | the list of the last search is still there | the first node with the key is found |
| HTTP chunk writers | a ring of pointers per client, a count per buffer | add, write, skip, shut down | buffers are shared by clients of different speeds | the counts are exact, the newest chunk is next |
| Receive ring (`cam4_ps_main`) | slots marked by the kernel, the loop's index | take, poll, restart | kernel and loop keep an index each | they agree which slots are whose |
| Frame double buffer (`cam4_ps.c`) | two buffers, `idx`, `frame_done_flag`, a thread | header, data, dump, show | no lock; the thread waits in `sleep()` and is woken by a signal | a frame is handed over whole and at most once, recording ends |
| Discovery (`mcast-cl.c`, `find_ifs`) | one receive record, a table of eight interfaces | one handler per node of an announcement, `process_cl_mcast`, `find_ifs` | the record is reused for each datagram and read by a thread that waited meanwhile | the table is what was announced, the camera's own addresses are used, a stop is obeyed |
| Command client (`cam4-cmd-cl.c`) and JPEG client | the cached connection, the reader's fields | start, stop, one handler per field, the dump of a frame | what a packet leaves out was set by one before | a file holds the frame it was written for |
| Sensor test and FIFO commands (`cam4_ps.c`) | script state, exposure, counters, dump times, the stdio buffer of the fifo | `cam4_script_processing`, `process_cm_ifs`, `parse_command` | two threads make packets with one writer task and change the same variables | a test ends and its pairs are in order |
| Lookup loops (`cam4_ps-lut.c`) | the frame, unpacked in place | 8, 10, 12, 16 bits | samples lie across words, writing follows reading in one buffer | every sample is whole |
| Debayer (`cam4_ps.c`, `debayer_sse.c`) | pointers into frame and picture | five C functions, eight with vectors | thirteen copies of one loop that differ in constants | every pixel is made from the right samples |
| AVI writer (`avi-file-writer.c`) and parser (`avi_parse.c`) | the file, the stack of open lists, the piecewise chunk | open and close lists, append in five ways, align; check, restore | sizes are written later, padding moves the next element, a program ends in the middle | a file reads back as it was written, or is restored |
| Network player, test transmitter, Tcl interface, on-screen display | see section 6 | | | |

The interactions: the iterator calls handlers (`accept_cb`, `rx_cb`, the
actions of nodes), and a handler may send to, or kill, any task; the controller
feeds the framed receiver, which feeds the handshake while the gate is closed
and the tree reader after that; the reader uses the key search at each branch.
The capture loop, the dump or display thread and the command thread share
`cam4_rd_t`. A restart asked for by the command thread makes the capture loop run the
discovery again, while the kernel goes on filling the ring. Each frame the thread
takes goes through the sensor test, the dump, the lookup loops, the raw
video, the debayer and the AVI file, in this order.

`PROJECT.json` lists, under "hazards", each place where this is hard to test,
with the properties that cover it.

## 2. Modules

Every module keeps the control of the code it models and abstracts data to
what the properties tell apart. "Fault:" marks operators that are no part of a
model: each is the form a plausible bug would give to the definition that
follows it, and shows that a property notices that bug.

### IoController, IoPass

`IoController` has a variable for each field of the two arrays (`fd`, `events`,
`revents`, `tidx` of a slot; `fidx`, kind, flags, quota and deadline of a task),
the set of descriptors open in the process, and the iterator's position: `pc`
("out", "in", "err" for the three tests of one slot), `cur`, and `tries`,
the rescans left (`max_try`). One action stands for one test of one slot, or one
call of the program between passes. `Close` is `abi_close_socket` with the
swap-delete; `Register` is `abi_ioc_add_fd`, whose failures leave behind what
they leave in the code. What a handler does with the bytes is reduced to its
outcome: nothing, a failure, a verdict, or sends to tasks of its choice.

The descriptor of a new socket is the lowest free one, as the kernel has it.
Releasing a half that was never initialised closes descriptor 0, as in the code.
The deadline of a task survives its close, as in the code. `past` says that a write
went behind the arrays: registering a writer clears the events of the slot behind its own.

`IoPass` adds what a pass owes to those poll reported. A debt is paid when the handler of
the task was called (`Served`) or the task was closed.

### AbiStream, PacketChannel

`AbiStream` is one connection between two controllers, byte by byte: each byte
knows its packet and place. `Write` is `write()` with every short count,
`AppendPacket` is `abi_mem2fd_task_send` (append, move to the front, or drop),
`Command` is the reset of the buffer by the command client, `Receive` is
`abi_ioc_recv` with header and body in any pieces. poll is level triggered: an
action's guard is the event that the end waits for. `PacketChannel` is the
promise: a queue of packets per direction that delivers in order or closes.

### AuthSession

Both ends of the handshake, each with its own gate, challenges and login. A
message is whole; each handshake message replaces what is in the send buffer.
`Modes` says which ends require sessions. The hash is injective on
password, user and challenge: collisions are outside the model. The clock is
the action `Expire`, which the code reaches only when poll times out.

### AbiTree, PacketTree, AbiMatch

`AbiTree` is the array of nodes, the three ways to link one, the size
arithmetic, `Written` (`abiw_write_recursive`) and `ReadNode`
(`abir_process_node`) with a reader's own tree. The code is recursive along the links; the
definitions are recursive functions over the nodes of an array, and the reader's one over
its places in the packet (`ReadNodes`), whose place is `Lost` once it stops inside a piece. `PacketTree`
is the ordered tree that the links stand for. Which node a key matches is an operator in
`AbiTree`; `AbiMatch` is the search itself, action by action, beginning with
whatever links an earlier search left.

### ChunkRing

Per client the ring of an HTTP stream (`chain`, `chain_pidx`, `chain_gidx`,
`todo`), per buffer its count. The producer is not in the repository: the
model's takes any buffer whose count is zero, which is what the count is for.

### PacketRing, PacketQueue, CmdClient, Discovery, Client

The kernel fills the slots in turn (`head`); the loop of `cam4_ps_main` takes
them in turn (`i`), polls when the next one is empty, and then looks whether a
restart was asked for. The restart assigns the discovery's result to `i`.
`PacketQueue` is a queue of as many packets as the ring has slots.

`CmdClient` is the connection of the command client, made by the first command and
kept, and the reader of the frames that come back: a record `in` for the fields
and `cam4_on_frame` for the root node's action. `Discovery` extends it: `rx` is
`rx_vars` with the table of interfaces, filled by `ReadAnnouncement`, where a
field that is absent keeps what was read before; `config_abi_resp` is the answer of
the wanted device with the `find_ifs` of the program; `process_cm_ifs` is the
command thread, which takes its address out of `rx` when the fifo has been opened.
`Client` composes the two with the ring: `main` says where the main thread
is, a restart (`LookAgain`) is another discovery during which the kernel
stores packets, and each action of the ring or of the discovery is one of `Client`.
`program` is the viewer, the viewer with `-M`, or the JPEG client.

### Viewer, Lut, Debayer, AviFile, AviParse, AviUse

`Viewer` is the frame thread (`pc`, in the order of `cam4_rd_process_real`), the
command thread (`cmd`) and those who write to the fifo and move the
window. A turn of `cam4_script_processing` is cut where it can be interrupted: the
read of the state (`ScriptReads`), each packet made (`ScriptMakes`) and sent
(`ScriptSends`), the writes (`ScriptWrites`). `writer` is the one writer task
`cam4_rd->ts`, and who made the packet in it. `fgets` takes all of the pipe, since the
stream is buffered, and `TakeCommand` is guarded by the pipe, since that is what poll sees.

`Lut` follows each bit: a word or a sample is a function from its bits to the
bit of the packed stream they hold, a byte that was overwritten holds none.
`Debayer` follows each sample: a pixel is the addresses that are weighted as
red, green and blue in its luma and those that make its chroma. The vector
functions are one operator (`VecLine`) and for each of their loops a row of constants read
off its shifts, multipliers and pointers (`mode0_sse2_first` and the others).

A file of `AviFile` is its length and the headers at their offsets. The
functions of the library are operators on the handle, named as in the code.
`AviParse` walks such a file with a stack of the calls of `avi_process_list`,
one element per step, and closes and indexes one that was left open. `AviUse` makes
the calls in any order the usage case in `avi-file-writer.c` allows, and ends the
process at any point, a chunk written in part. In `Viewer` the same parser reads
what `write_video` recorded.

### FrameCapture

The capture loop handles a header (`FirstHeader`, `HandOver`, `Lag`) or a data
packet; the thread is in its first statements, between waits, in `sleep()` with
more or less than a second left, opening a file, or reading a frame piece by
piece while packets come in. `Signal` is `pthread_kill`: it wakes a thread in
`sleep()`, and only one with a whole second left makes it return something other than 0.

## 3. Runs

| run | module, configuration | properties | shows |
|---|---|---|---|
| io_server | MCIoServer | IndexMaps, DescriptorsOwned, PendingPolled, NobodySkipped, SurvivorsKeepSlot | a listener and up to two clients with sessions: tables, ownership and what a pass owes are kept through every close |
| io_faults | MCIoFaults | TypeOK, FreeTaskLeft, PassEnds | every kind of task, quota, expiry and failing call: a pass ends, and a registration that fails takes no task |
| io_spin | MCIoFaults, MCIoSpin.cfg | PassEnds fails | a deadline inherited by a listener (section 5) |
| abi_stream | MCAbiStream | TornNeedsCut, StallIsMutual, ImplementsChannel, TakenArrives | the connection is the promised channel until a command resets a buffer |
| auth | MCAuthSession | OpenIsKnown, QuietIsOpen, DataIsHeard, GateSettles; CountsAreSenders, StaysWhole, NoneLeft, NewestNext | one or both ends require sessions, every user, none and every password; a server without sessions streams chunks to two clients |
| abi_tree | MCAbiTree | SizesAreExact, ReadsWhatItKnows, GrowsATree; FirstMatch | every packet of up to four nodes against every reader's tree of up to three; the search in every branch of four nodes, with every function from nodes to links left by earlier searches |
| client | MCClient | TableIsAnnounced, CommandsToAnnounced, DumpsItsOwn, IsAQueue, AllTaken, StopEnds | the three programs from discovery to end: announcements with too many interfaces, missing fields and moved addresses, a restart beside the ring, a stop anywhere |
| ring_frozen | MCPacketRing, MCRingFrozen.cfg | AllTaken fails | two restarts (section 5) |
| capture | MCFrameCapture | Whole, Undisturbed, EndsOrMissed | four frames recorded from an endless, lossy stream |
| capture_missed | MCFrameCapture, MCCaptureMissed.cfg | Recorded fails | a wake-up that nobody remembers (section 5) |
| viewer | MCViewer | PairsInOrder, TestEnds; SamplesWhole; PictureRight; ReadsBack, Salvaged, IndexPoints | a sensor test beside a user's commands; every packing; every debayer function and window; files recorded, left and restored |
| test_again | MCViewer, MCTestAgain.cfg | TestEnds fails | a second test never dumps (section 5) |

Three runs hold instances that share nothing, chosen in the initial state: auth (sessions,
or none and a stream of chunks), abi_tree (a packet, or a search) and viewer
(six scenarios, `AllScenarios`).

Bounds, and why they are enough:

* io_server: three slots. A swap-delete needs a hole, a last slot that moves, and
  a slot that stays; `MaxFd` = 4 gives each client a descriptor and leaves one to
  spare. io_faults: two slots, one of them a listener that cannot be closed, which is
  what exhausts the rescans; two sends as a quota (`MaxLimit`), so that the last
  differs from another one. The proofs of section 4 cover every size.
* abi_stream: headers of two bytes, so that a read can stop inside one; bodies of 0
  to 4 bytes with a receive buffer of 3 and a send buffer of 6, so that there is an
  empty packet, one too long to receive, and packets that fit together or do not; a
  wire of three bytes, so that a packet never fits it with another. Each packet is
  sent at most once.
* auth: a wire of one message, so that answers wait; a side sends
  application data while fewer than `MaxData` = 3 messages are in flight from it, so that one can
  follow others that are still waiting. How many it sends in all has no bound.
* abi_tree: sizes of keys and values chosen so that nodes fall on 127, just above it, and
  above 16383 bytes, where headers grow.
  The search: four nodes: a kept one, two in a row that are taken off, and the match.
* client: a ring of two slots with packets numbered in a cycle of two, so that two packets
  in the ring never have the same number, and one restart; a table of three interfaces
  with room for one client each, and announcements with four interfaces and with two
  clients, so that both tables overflow; a camera that comes back at another address.
  ring_frozen: three slots and two restarts. client and capture have no bound on
  time: packets never end.
* capture: two data packets per frame, so that a frame can be torn; four frame
  numbers in a cycle; four frames are wanted.
* chunks: four chunks, one more than a ring holds, and two writes per chunk.
* viewer: three commands, so that one can come between two; tests of two steps (20 in the
  code) with one frame to skip, so that there is a first, a middle and a last pair; frames
  of two and more turns of each lookup loop and a rest that is not a whole turn;
  windows at the edges and inside, the full frame with a width of two blocks of 16, one
  block inside a wider frame, and sizes that are no multiple of 16; six calls of the AVI
  library with three nested lists and parts of the restored index of two entries, with
  even and odd lengths.

Deadlock is checked in io_server and io_faults, where the controller can always poll.
The other runs end or may stop: packets, commands, quotas or restarts run out, programs exit.

Fairness, and what in the code justifies it:

* io_faults: the iterator's scan runs on once begun, and poll has a finite timeout
  (`abi_io_iterator` is called in a loop with 10 ms).
* abi_stream, auth: both ends run their iterator for ever; what poll reports is served.
  `Expire` is fair since the clock goes on and poll times out when nothing is ready. While
  something is ready it does not, so GateSettles assumes in its hypothesis that the peer
  stops sending application data; without that it is false in the model as in the code.
* client: the main thread's poll has a timeout of a second, and so has the discovery's; the
  camera keeps sending while it is wanted; a wanted camera that announces itself with a
  data interface is received again and again (strong fairness: other datagrams may
  be received in between). StopEnds assumes in its hypothesis that packets stop, since the
  inner loop looks at nothing while the ring is not empty.
* viewer: frames keep coming and both threads are scheduled; commands are never owed.
* capture: packets keep coming and the thread is scheduled; headers are not lost for
  ever (strong fairness of the two actions that take a header), which is the least
  under which a recording over a lossy network could end.

What some properties leave open, because the code does:

* NobodySkipped excepts a pass in which a client was accepted and closed again: such
  a client uses up a rescan that was counted before it existed.
* ImplementsChannel and TakenArrives hold until a command; TornNeedsCut says that
  only a command that overwrites a half written packet tears one afterwards.
* StallIsMutual is the exact condition for the standstill of a connection. It does
  happen in the code when both ends' buffers are full.
* QuietIsOpen and DataIsHeard are about two ends that both require sessions. With one
  such end the other has no gate and does not answer; the deadline closes the connection.
* GateSettles is about a peer that at some time sends no more application data. One that goes on
  sending to a gate that skips its data keeps its connection: deadlines are looked at only when poll
  has nothing to report (abi-helpers.c:1484).
* OpenIsKnown is about peers whose messages have the fields that the protocol requires (section 4).
* GrowsATree is about the calls in the orders the program makes them.
* IsAQueue holds until the first restart; NoneLeft until a chunk is
  refused; Whole while no packet is lost.
* TableIsAnnounced is about announcements in which every interface states its type, address and
  clients; CommandsToAnnounced about those that announce the camera too; DumpsItsOwn
  about packets whose size, if any, comes before their data, the last of which counts. Section 5 says what
  happens otherwise.
* PairsInOrder is about a test during which the user sets nothing (no command that sends a packet, no
  DUMPRAW, no IMGNUM); TestEnds about the first test.
* PictureRight excepts the places, not the colours, of `debayerRGB_ar_mode1`, and
  leaves the two last lines out, which nothing writes.
* ReadsBack excepts chunks of length 0 and a file more than a byte shorter than its sizes say.
  Salvaged excepts empty chunks too, an index without entries among them, and is about a program that
  ended while the movi list was the innermost open one.
* IndexPoints excepts entries made while a chunk was being written piece by piece.

## 4. Proofs

Each module `XProofs` extends `X` and holds its theorems; `IoControllerProofs` extends
`IoPass` and so both modules of the controller, `AbiTreeProofs` extends both `AbiTree` and
`AbiMatch`. They hold for every value of the
constants that satisfies the assumptions `X` declares. TLC evaluates these
assumptions in the runs, and each inductive invariant was checked by TLC, in parts or as a
whole, before it was proved.

### IoControllerProofs

| theorem | states |
|---|---|
| TypeCorrect | `Spec => []TypeOK`: slots, tasks and the links between them stay within the arrays, the count of rescans, an unsigned number in the code, never wraps, and nothing is written behind the arrays unless writers are registered |
| MapsInverse | `Spec => []IndexMaps` |
| PendingIsPolled | `Spec => []PendingPolled` |
| SurvivorsKeep | `Spec => SurvivorsKeepSlot` |
| FreeTaskIsLeft | `Spec => []FreeTaskLeft`: the branch "No free task, but should be!!!" is dead |
| DescriptorsAreOwned | `OnlySockets => (Spec => []DescriptorsOwned)` |
| NobodyIsSkipped | `"listenerr" \notin Faults => (PassSpec => []NobodySkipped)` |

The inductive invariant is `Inv == Core /\ IndexMaps /\ PendingPolled`, where `Core` is TypeOK
without `past`, which follows from it (`NextPast`).
IndexMaps alone is not inductive, since the swap-delete needs the types to know that the
slots it reads exist; PendingPolled needs IndexMaps, since it follows a task to
the slot the swap-delete moved it to. The argument goes through lemmas per effect
and not per action: what a swap-delete does to the types, to the maps, to a
survivor's pollfd and to unsent bytes (`SwapDelete...`, `SurvivorPollfd`), what
joining the tables does (`JoinKeeps`, `NoFcntlKeeps`), what a send does
(`SendToKeeps`). Every action is one of these effects or changes marks and cursor
only. FreeTaskLeft follows from IndexMaps by counting: the maps
are a bijection of used slots and active tasks.

DescriptorsAreOwned has a hypothesis: only sockets and listeners are registered and
no `malloc` fails. It is needed. The release of a task that is only a reader or a
writer closes descriptor 0, which may be another task's (section 5), and a failed
`malloc` leaves a slot whose descriptor was closed. A server is such a program.

NobodyIsSkipped needs that no listener reports an error, since a listener is not closed
by `abi_close_socket` and each rescan for it takes one from the bound. Its invariant
`PassInv` says where a task that is owed its turn can be: at or behind the cursor, or
anywhere while a rescan is to come (`OwedAhead`), and that there are at least as
many rescans left as slots that can still be closed (`TriesLeft`).

### AbiStreamProofs

| theorem | states |
|---|---|
| FramingHolds | `StreamSpec => []TornNeedsCut` |
| ConnectionIsChannel | `StreamSpec => ImplementsChannel`: until the first command the byte stream implements PacketChannel |
| StallsTogether | `StreamSpec => []StallIsMutual` |

The invariant of the stream follows the bytes on their way: the header and the body read
so far, the wire, and what is unsent in the buffer are, one behind the other, whole
packets laid end to end (`Laid`), the first of which is the one being read. The packets
laid are those taken and not delivered, in order (`InOrder`), which is the refinement
mapping. A short write or read moves a border inside this sequence and changes
nothing else; the move to the front of the buffer changes where it is kept;
`AppendPacket` adds one packet at its end; a command cuts it, and then the lane is only
known to be cut. StallsTogether needs another invariant (`StallInv`): what each
`events` says about the buffer, and that a receiver that waits has not got all of its
packet. `PeersAssumption` says that a connection has two ends, and
`TornAssumption` that the mark for what is no packet is not one.

### ClientProofs

| theorem | states |
|---|---|
| FilesAreOwn | `ClientSpec => []DumpsItsOwn`, for packets of any fields |
| TableAnnounced | `ClientSpec => []TableIsAnnounced`, for every set of announcements and sizes of the tables |
| CommandsAnnounced | `ClientSpec => []CommandsToAnnounced` |
| ImplementsQueue | `RingSpec => IsAQueue`: until the first restart the ring implements PacketQueue, for every number of slots |
| ClientQueue | `ClientSpec => IsAQueue`, since every step of the client is one of the ring or leaves it alone |

The readers of a packet and of an announcement are recursive functions over its fields.
First it is shown that there is such a function (`FrameFieldsIs`, `ReadInterfaceIs`,
`ReadAnnouncementIs`), since a CHOOSE says nothing otherwise, and then what it has after n
fields: an interface's clients so far are as it says (`AfterClients`), the table so far is as announced
and the next interface's count of clients is 0 (`AfterIfs`). Announcements have at most one
interface more than the table holds (`DiscoveryAssumption`), since the model knows of one entry
behind it. `UpTo`, which follows from the least number principle, takes the place of an
induction theorem.

A file: after the last data field size and data stay (`FieldSets`), whatever was in the
reader before. The command thread: there is only one in the viewer; while it waits for the fifo,
having been started by an answer that announced the camera too, the discovery has ended, nobody has
asked for another, and the entry it will read is the one announced (`ThreadOk`). Only a command can
ask, and only a thread that has left the fifo takes commands.

The ring: the marked slots are n slots in a row from the loop's `i` on,
the kernel's `head` is the one behind them. The queue is the packets in this row. That
each is taken in turn needs that both indices wrap at the same slot, nothing more; the
restart, after which it is false, is the finding of section 5.

### ServerProofs (handshake and chunk writers)

| theorem | states |
|---|---|
| OpensForTheKnown | `AuthSpec => []OpenIsKnown`, for all tables of users and passwords: a gate is open only to a user it knows who has that user's password, or to a peer that names no user and has the empty one |
| NoStall | `AuthSpec => []QuietIsOpen` |
| NothingSkipped | `AuthSpec => []DataIsHeard` |

`Base` is about who wrote what: a response in flight names the user and the secret of its
sender, and answers a challenge. OpenIsKnown follows from it. A response may come without a user
name, which is optional (abi-auth.c:378); the password is then the empty one. Its other fields are
required (:377-381), and `auth_fill_response` always writes them; `Checked` and `Accepts` take
them to be there. `auth_abi_on_auth_response` does not check that they are: it
never reads the presence bits it sets. What it makes of a response without one of them
is outside the model, and the theorem says nothing of it. The other two need the
order of the whole handshake (`Lanes`): what is in flight towards a closed gate, the
send buffer behind the wire, continues the sequence of announcement, request,
response and verdict from the place that gate has reached in it. That a handshake
message replaces what is in the buffer is harmless because of this order: what it could
replace has been heard.

| theorem | states |
|---|---|
| CountsRight | `ChunkSpec => []CountsAreSenders` |
| ChunksStayWhole | `ChunkSpec => []StaysWhole` |
| NoneIsLeft | `ChunkSpec => []NoneLeft` |
| SkipsToNewest | `ChunkSpec => NewestNext` |

The chunk writers' invariant says of a ring where its chunks are (`Shape`): the one being
sent is in the get slot, the newest in the slot before the put index, and
nothing waits while the client sends nothing unless a chunk was refused. Since
counts are over clients, `Clients` is finite (`ChunkAssumption`).

### FrameCaptureProofs

| theorem | states |
|---|---|
| WholeFrames | `~ClearBuff => (CaptureSpec => []Whole)` |
| LeftUndisturbed | `~ClearBuff => (CaptureSpec => Undisturbed)` |
| FlagIsRight | `CaptureSpec => []OneIsOut`, with `-z` as well, which no run repeats: the flag says whether a frame is out, there is at most one, and none is handed over to a thread that is at one |
| TakenOnce | `CaptureSpec => [](taken <= handed)` |

The capture's invariant ties the flag to the thread's place (`Flagged`), the buffer that
is being filled to the packet that comes next (`Filling`), the other one to the
frame that was handed over (`Handed`), and what was read so far to the buffer it comes
from (`Copied`). `~ClearBuff` is needed: with `-z` the next header clears the buffer a slow
thread is at (section 5). It is off by default. FlagIsRight does not need it: flag and counts do
not depend on what is in the buffers.

### AbiTreeProofs

| theorem | states |
|---|---|
| TreeShaped | `TreeSpec => []TreeInv`, with any number of contexts of any capacity, keys and sizes |
| ExactSizes | `TreeSpec => []SizesAreExact` |
| KnownIsRead | `TreeSpec => []ReadsWhatItKnows` |
| BuildingGrows | `TreeSpec => GrowsATree`: building implements PacketTree |
| ShortKeysFirst | with keys of at most one part, `MatchSpec => []FirstMatch`, for branches of every length and every function from nodes to links left by earlier searches |

Nothing in the array says that its links are a tree. `TreeInv` says it by places: every node can be
given a first and a last place (`Ordered`), so that its subnodes lie between them and its
neighbours, with what is in them, come next. This is inductive: a node that is inserted moves the
places behind it by one (`Moves`), and only a caller that appends into a node that has subnodes, or behind
one that has neighbours, would not keep it. Places grow along each link; that makes a
recursion along the links well-founded (`Downward`), and functions defined by one exist
(`AlongLinks`), which is what a CHOOSE needs before it says anything.

ExactSizes compares, from the end of the packet, what is measured with what is written
(`SizeIs`, `WrittenIs`). KnownIsRead first shows that the reader's recursion ends on any packet,
since it moves on or is lost (`Stops`), then that a header is read as it was written (`HeaderRead`,
for sizes below 2^30), and then, node by node from the end, that a reader at the start of what is
written of a node hands out what it should and stops behind it (`RightAt`), or skips it,
in the bytes that were announced. `PacketAssumption` is that a packet's size fits a header
of 30 bits: the code does not check it, and its buffers are far smaller. BuildingGrows needs one fact more than
TreeInv: that a node is among the subnodes of one place only, once (`Together`).

The search: its invariant says what the list is at each stage. While it is built it runs through the
nodes of the right size passed so far, in order (`Linking`); while it is
scanned, either the head is the node looked at and no earlier node has the key, or the
head is the answer (`Scanning`). The stale links need no assumption, because every
link that is followed was written in this search. The assumption `Short` is what the
program's keys satisfy: a part is 32 bytes and the longest key has 23.

### ViewerProofs

| theorem | states |
|---|---|
| SamplesAreWhole | `ViewerSpec => []SamplesWhole`, for frames of every format and size |
| PicturesAreRight | `ViewerSpec => []PictureRight`: right samples in every pixel and every line filled, in windows of every size and position, for every mode, by C, SSE2 and MMX |
| PairsOrdered | `ViewerSpec => []PairsInOrder`, for every number of steps, frames and commands |

The samples: after t turns of a loop that takes 20, 12 or 2 bytes and makes 16, 8 or 1
samples, the samples written lie before the bytes that the next turn reads (`InTurn`), so no
bit is read that was written over (`WordIs`). Each of the 25 rows of shifts is then one
case of two lemmas, a sample within a word and one across two (`SampleWithin`,
`SampleAcross`).

The pictures: a debayer function walks over addresses, and the properties speak of rows and
columns. Both are got back from an address in a frame of any width (`Quotient`,
`Placed`), and with them the colour that the mosaic has there. The kind
tables of the C functions and the vector loops of SSE2 and MMX then fit the
mosaic by parity alone. Lines are done in pairs (`LinesDone`), from the bottom of the window
upwards in C and from its top downwards in SSE2 and MMX; the inductive invariant `DrawInv` says that
where the function reads and writes is a function of the lines done, that the lines written are
exactly those, and that the pixels of the last of them are right. `DebayerAssumption` is that windows lie in
their frames, as the callers see to.

The test: `PairsInv` is about a process in which the user sends at most one TEST and
nothing that disturbs it. Until the command thread has parsed the TEST the script is at rest
(`Unstarted`); that it is parsed once follows the commands on their way through the pipe and
the buffer of the stream (`Heard`), from the front of which `fgets` takes at least one and
at most all (`TakenInFront`). From then on `InSequence` says for each place of the frame
thread and each state how many dumps there are, and which exposure script and camera have
(`Stage`, `Told`, `DueA`, `DueB`). The TEST may be parsed while the frame thread is
anywhere: between its read of the state and its writes it has read "NOP", and
so writes nothing. `ViewerAssumption` says that the scenarios take their frames from `Frames`.

### AviProofs

| theorem | states |
|---|---|
| EntriesPoint | `ViewerSpec => []IndexPoints`, for every order of calls, any lengths and any depth of lists |
| ClosedReadsBack | `ViewerSpec => []ReadsBack`: the check of any file that was closed, by the program or by `write_video` |
| LeftIsSalvaged | `ViewerSpec => []Salvaged`: a file that was left in the movi list and restored reads as its finished chunks and an index |

The invariant is a layout: for the elements written so far there are places `at`, one behind the
other, at which their headers are (`Placed`); the elements are nested as a tree (`Nested`); a list
that is closed has the size of what is in it and one that is open has size 0 (`Sized`); the
bytes are there (`Present`); and the lists in the table of the handle are the elements around
the end (`IsOpen`). A chunk that is written piece by piece is not among the elements until it is
ended (`Begun`). Each function of the library keeps this (`...Ready`), and moves no header that
is there (`Kept`). From the first entry on, `movi_offs` is therefore the place of the type of the
only movi list, and an entry made between two chunks is the place of its chunk. `AviUseAssumption` says
that lengths are lengths; `ViewerAssumption` that `write_video`'s lists fit in the table.

ReadsBack rests on what this invariant leaves when `avi_close` is done: a file that is `Sound` for the
elements `W` the program wrote, the index included. The check is a walk over them (`Walk`): the `k`
elements read are the first `k` of `W`, the position of the descriptor is `at[k + 1]`, and each list
on the parser's stack is an element around it, with the place where that element ends. The positions
of the lists are chained, the start of one being where the one outside of it has come to. The step that
carries the proof is `TopEnds`: the innermost list has been read to its size exactly when the next
element is not inside of it. The parser's position counts the 8 bytes of a list's head and its size does not:
with an empty chunk still to come the two are equal, and the list is left too early. Every other element takes
10 bytes or more (`Gap`), which is why ReadsBack excepts empty chunks. With that,
`avi_process_list`, `avi_process_chunk`, the end of a list and the loop of `avi_check` each go to the
next element or to the end (`ListStep`, `ChunkStep`, `EndStep`, `CheckStep`), and the walk can end only behind
the last one. `avi_simple_check` compares the file's size with that of the RIFF list, which is rounded up: the
two agree exactly when the last chunk is padded.

LeftIsSalvaged follows one file through a crash, a check, the restoration and a second check
(`LeftPart`). The file that was left has the elements that were finished and perhaps a part of
one more (`Abandoned`), and its open lists have size 0. The first check need not end well, since those
sizes are missing; what is needed of it is that the only movi list it can come upon is at the place
of that element (`InSalvage`). The restoration then counts the chunks behind that place one by
one: the k-th element is the last one the new size of the list counts, while the index that is written
may have made the file longer (`InRestore`). When it has counted all (`AllCounted`), it ends the
lists there and puts the index behind them: the file is `Whole` for the finished elements and the index
(`EndRestored`). With no empty chunk it is then `Sound`, and the second check is the walk of ReadsBack.

### Model-checked only

Liveness (PassEnds, TakenArrives, GateSettles, AllTaken, StopEnds, EndsOrMissed, TestEnds):
the prover does not reason about fairness.

## 5. Where the code and its promises part

Four runs end in a counterexample:

* **io_spin.** `abi_close_socket` leaves `expires` set and `abi_ioc_add_fd` does not
  clear it. A listener registered in the entry of a closed session inherits the
  deadline; `abi_close_socket` does nothing for a listener, and the rescan of
  `abi_io_on_timeout` has no bound.
* **ring_frozen.** The stream restart sets the loop's index to the result of
  `cam4_mcast`, 0, wherever the kernel is. After one restart the kernel comes round.
  After a second the kernel can stand at a slot that is still full, and the loop at
  slot 0, which is empty: capture has stopped.
* **capture_missed.** The wake-up of the recording thread is a signal sent once. If it
  comes before the thread is in `sleep()`, or in the last second of it, when `sleep()`
  returns 0, the frame is not taken and no later header signals again.
* **test_again.** `EMVA_WAIT` counts `default_skip_frames` down past zero and `EMVA_START` does
  not set it again: a second test waits for a count of 0 that is behind it.

Other behaviour met while modelling, visible in the models, and not run:

* The release of a task that is only a reader closes descriptor 0: the other half's
  `mm_fd` is still the 0 of `calloc` (abi-helpers.c:560-565).
* A task that spends its quota of sends outside the POLLOUT branch is marked
  `ABI_IO_DYING_TASK` and stays (io.h:747): the mark is looked at only after a
  blocked send ends. The POLLERR mark of `abi_kill_task` is overwritten by the next poll.
* Registering a writer clears the events of the slot behind its own, after `cnt` was
  counted up (abi-helpers.c:1183). For a writer in the last slot that is behind the array. No code in
  the repository calls `abi_ioc_add_fd_writer`.
* A peer that keeps sending application data to a gate that skips it is never
  timed out, whatever its deadline (abi-helpers.c:1484).
* `abi_append_node` links the last node of the array, so after `abi_insert_node`
  the nodes behind the insertion are cut off (abi-writer.c:157); a second
  `abi_append_subnode` hangs the first subnode under the second (:204).
* With keys of two parts the search can find a node that differs in the first part:
  `prev` moves on with `idx` also when the node was taken off (abi-reader.c:133-160).
* After a restart the loop takes newer packets before older ones.
* A full chunk ring moves the put index to the chunk that is being sent; the chunks that
  wait are then neither sent nor dropped (abi-helpers.c:499).
* `write_separate` opens a file per frame and nothing closes it (cam4_ps.c:2043); with
  `-z` a header clears the buffer the thread is at (:2210); the thread reads the flags
  of a frame with the index of the other buffer (:1153).
* Discovery: an interface that announces no type or address has those of the one before
  it; more than eight interfaces move `ifs_idx` past the table, and `find_ifs` looks there;
  interface 0 is never considered. `find_ifs` ignores whether `raw_on` succeeded, and a
  connection that failed is not tried again. With `-M`, `first_time` stays set, so a
  restart starts a second command thread on the same fifo. When the camera has moved,
  the start of the stream goes to the old connection. The command thread reads the
  interface after it has waited for the fifo, out of a record that may be another device's.
* JPEG client: size, data and kind of the packet before are kept; a size that comes
  after the data replaces the data's own; files are opened without truncation.
* FIFO: the X client writes its commands without a newline, so two that are read
  together become one line and the second is lost; lines left in the stream's buffer wait
  until the next write, since poll watches the pipe.
* An EXP command during a test: both threads use one writer task, a packet begun by one can
  be sent by the other, and the exposure in the names of the dumps is not the camera's. A
  TEST that arrives while the script writes its state is lost.
* A test makes one pair more than `default_steps`; the B picture is numbered one higher than
  its A. The raw video is written after the samples were unpacked in place.
* `LUT_16_to_8` keeps bits 4 to 11 of a sample. `debayerRGB_ar_mode1` counts in elements three bytes
  wide: its rows are three rows apart, and it reads behind the frame.
* AVI: a last chunk of odd length leaves the file a byte shorter than its sizes; errors in
  nested lists are not counted in the caller's request; `avif_write_audio` takes its offset
  before a piecewise chunk is ended; `avi_idx_restore` drops the last entry of the index and
  gives up on a cut last chunk after it has changed sizes in the file. A recording that runs when the
  program ends is left open.

## 6. Not modelled

* Network player: one thread that replays a capture file at its recorded pace. Raw dummy
  transmitter: one loop that sends made up packets. Neither keeps state that
  a property could relate to anything else.
* X viewer: drawing and the event loop of X11; only the commands it writes to the fifo and
  the window it moves are in `Viewer`. Statistics and on-screen display: arithmetic on
  pixels that nothing reads.
* `avi.c` and the headers of streams by codec; failing writes of the AVI writer
  (`write_raw_video` repeats a failing write for ever, cam4_ps.c:268-272).
* The Tcl interface: a display with a codec of its own.
* Wrappers of system calls, constants, build files.

Inside the modelled parts: contents of values and frames, packets that end in the
middle of a node (abi-reader.c:290 reads a size of 0 there), the speed at which
packets come, deadlines that other connections postpone by keeping poll busy, messages
that lack a required field, the weights of the
debayer and the curves of the lookup loops beyond their first sector, and the commands that only set strings
or sizes of the display (PATH, MODE, XVIMAGE).

## 7. Plan

Done, in this order: the I/O controller, since everything else runs in it; the
stream, the handshake and the codec, which make a connection; the capture side; then
discovery and the command client, composed with the ring in `Client`; then what is done with
frames, composed in `Viewer`.
Between those compositions the parts meet by promise: AbiStream implements PacketChannel (proved),
which is what AuthSession assumes of its wire; AbiMatch's search finds the match that AbiTree
assumes (proved); PacketRing implements the queue that FrameCapture takes its packets from; and
Viewer is woken by the frames that FrameCapture hands over.

Next:

1. A composition of IoController with AbiStream's ends, in which quotas, kills and
   half written packets meet.
2. FrameCapture's hand-over in Viewer, with the formats of frames that the thread reads
   with the wrong index.
3. Failing writes of the AVI writer, and the 32-bit limits of its sizes.
