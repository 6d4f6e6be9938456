------------------------------ MODULE ChunkRing ------------------------------
(***************************************************************************)
(* The writers of HTTP streams: each client has a ring of chunks            *)
(* (abi_http_task_add_chunk) that are pointers into the producer's buffers, *)
(* shared by all clients; a buffer counts the clients that are sending it.  *)
(* A client that is slow skips to the newest chunk                          *)
(* (abi_mem2fd_http_ioc_send).                                              *)
(***************************************************************************)
EXTENDS Integers, FiniteSets

CONSTANTS
    Clients,    \* the clients' writers
    Bufs,       \* the producer's buffers
    C,          \* chunk_array_size, slots of a ring
    Units,      \* writes that send a whole chunk
    Chunks,     \* bound: chunks that are produced
    Reuse,      \* whether the producer fills buffers that wait in a ring
    None        \* no buffer in a slot

ASSUME ChunkAssumption ==
    /\ IsFiniteSet(Clients)
    /\ Reuse \in BOOLEAN /\ C \in Nat \ {0} /\ Units \in Nat \ {0} /\ Chunks \in Nat
    /\ None \notin Bufs

VARIABLES
    mem,        \* buffer -> the chunk in it, 0 for none
    count,      \* buffer -> its count of senders
    latest,     \* the buffer produced last
    ring,       \* client -> its writer: chain, put, get and todo, and whether it
                \* refused a chunk
    offered,    \* client -> the newest chunk it was given
    current     \* client -> the chunk it began to send last

chunkVars == <<mem, count, latest, ring, offered, current>>
Slots == 0 .. C - 1
Up(i) == IF i = C - 1 THEN 0 ELSE i + 1
Down(i) == IF i = 0 THEN C - 1 ELSE i - 1
Empty == [chain |-> [i \in Slots |-> None], put |-> 0, get |-> 0, todo |-> 0,
          refused |-> FALSE]
Produced == IF latest = None THEN 0 ELSE mem[latest]

ChunkInit ==
    /\ mem = [b \in Bufs |-> 0] /\ count = [b \in Bufs |-> 0]
    /\ latest = None
    /\ ring = [c \in Clients |-> Empty]
    /\ offered = [c \in Clients |-> 0] /\ current = [c \in Clients |-> 0]

InRing(b) == \E c \in Clients, i \in Slots : ring[c].chain[i] = b

(* The producer takes a buffer that nobody is sending.                      *)
Produce(b) ==
    /\ count[b] = 0 /\ Produced < Chunks
    /\ InRing(b) => Reuse
    /\ mem' = [mem EXCEPT ![b] = Produced + 1] /\ latest' = b
    /\ UNCHANGED <<count, ring, offered, current>>

(* abi_http_task_add_chunk: the next free slot; of a full ring the chunk is *)
(* refused and the put index goes to the one that is being sent.            *)
Slot(r) == IF r.chain[r.put] = None THEN r.put ELSE Up(r.put)
Added(r, b) == [r EXCEPT !.put = Slot(r), !.chain[Slot(r)] = b]
Begun(r) == [r EXCEPT !.get = r.put, !.todo = Units]

Add(c) ==
    LET r == ring[c] IN
    /\ offered[c] < Produced
    /\ r.chain[Slot(r)] = None
    /\ offered' = [offered EXCEPT ![c] = Produced]
    /\ IF r.todo = 0
       THEN /\ ring' = [ring EXCEPT ![c] = Begun(Added(r, latest))]
            /\ count' = [count EXCEPT ![latest] = @ + 1]
            /\ current' = [current EXCEPT ![c] = Produced]
       ELSE /\ ring' = [ring EXCEPT ![c] = Added(r, latest)]
            /\ UNCHANGED <<count, current>>
    /\ UNCHANGED <<mem, latest>>

Refuse(c) ==
    LET r == ring[c] IN
    /\ offered[c] < Produced
    /\ r.chain[Slot(r)] # None
    /\ offered' = [offered EXCEPT ![c] = Produced]
    /\ ring' = [ring EXCEPT ![c].put = r.get, ![c].refused = TRUE]
    /\ UNCHANGED <<mem, count, latest, current>>

(* A write that leaves something of the chunk.                              *)
WritePart(c) ==
    /\ ring[c].todo > 1
    /\ ring' = [ring EXCEPT ![c].todo = @ - 1]
    /\ UNCHANGED <<mem, count, latest, offered, current>>

(* After a chunk: its slot is free, and of the others only the newest stays.*)
Freed(r) == [r EXCEPT !.chain[r.get] = None]
Only(r, keep) == [r EXCEPT !.chain = [i \in Slots |-> IF i \in keep THEN @[i] ELSE None]]
Newest(r) ==
    IF r.chain[r.put] # None \/ r.chain[Down(r.put)] = None THEN r.put ELSE Down(r.put)
(* Fault: the next slot is the next chunk.                                  *)
AfterInTurn(r) ==
    LET f == Freed(r) IN IF r.get = r.put THEN f ELSE [f EXCEPT !.get = Up(r.get)]
(* Fault: the get index stays where it is.                                  *)
AfterStay(r) == Freed(r)
After(r) ==
    LET f == Freed(r) g == Newest(f) IN
    IF r.get = r.put THEN f ELSE [Only(f, {g, r.put}) EXCEPT !.get = g]
Restarted(r) == [r EXCEPT !.todo = IF r.chain[r.get] = None THEN 0 ELSE Units]

(* A write that ends the chunk.                                             *)
WriteLast(c) ==
    LET r == ring[c] s == Restarted(After(r)) b == s.chain[s.get] IN
    /\ r.todo = 1
    /\ ring' = [ring EXCEPT ![c] = s]
    /\ count' = [x \in Bufs |-> count[x] - (IF x = r.chain[r.get] THEN 1 ELSE 0)
                                         + (IF x = b THEN 1 ELSE 0)]
    /\ current' = IF b = None THEN current ELSE [current EXCEPT ![c] = mem[b]]
    /\ UNCHANGED <<mem, latest, offered>>

(* Fault: the count goes down whether the client was sending or not.        *)
ShutdownAlways(c) ==
    LET r == ring[c] IN
    /\ offered[c] > 0
    /\ count' = [b \in Bufs |-> IF b = r.chain[r.put] THEN count[b] - 1 ELSE count[b]]
    /\ ring' = [ring EXCEPT ![c] = Empty]
    /\ UNCHANGED <<mem, latest, offered, current>>

(* abi_http_task_shutdown, and a new client in its place                    *)
(* (abi_preinit_http_taskw).                                                *)
Shutdown(c) ==
    LET r == ring[c] IN
    /\ offered[c] > 0
    /\ count' = [b \in Bufs |->
                    IF r.todo # 0 /\ b = r.chain[r.get] THEN count[b] - 1 ELSE count[b]]
    /\ ring' = [ring EXCEPT ![c] = Empty]
    /\ UNCHANGED <<mem, latest, offered, current>>

ChunkNext ==
    \/ \E b \in Bufs : Produce(b)
    \/ \E c \in Clients : Add(c) \/ Refuse(c) \/ WritePart(c) \/ WriteLast(c) \/ Shutdown(c)
ChunkSpec == ChunkInit /\ [][ChunkNext]_chunkVars

-----------------------------------------------------------------------------
(* Properties *)

Sending(c) == ring[c].todo > 0

(* A buffer's count is the number of clients that are sending it, through   *)
(* skipped chunks, full rings and closed connections.                       *)
CountsAreSenders == \A b \in Bufs :
    count[b] = Cardinality({c \in Clients : Sending(c) /\ ring[c].chain[ring[c].get] = b})

(* The chunk a client began to send is in its buffer until it is sent.      *)
StaysWhole == \A c \in Clients : Sending(c) =>
    mem[ring[c].chain[ring[c].get]] = current[c]

(* The chunks waiting in a client's ring.                                   *)
Waiting(c) == {i \in Slots : ring[c].chain[i] # None /\ (Sending(c) => i # ring[c].get)}

(* A client that has sent a chunk goes on with the newest one it was given, *)
(* or with what the producer put in its place.                              *)
NewestNext == [][\A c \in Clients :
    ring[c].todo = 1 /\ current'[c] # current[c] => current'[c] >= offered[c]]_chunkVars

(* A client sends as long as it has a chunk: none is left in the ring,      *)
(* unless the ring was full once.                                           *)
NoneLeft == \A c \in Clients : ~Sending(c) => Waiting(c) = {} \/ ring[c].refused
=============================================================================
