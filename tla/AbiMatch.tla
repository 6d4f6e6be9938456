------------------------------ MODULE AbiMatch ------------------------------
(***************************************************************************)
(* The search of abir_process_node for the node a received key belongs to.  *)
(* The neighbours of one branch, 1 .. N in order, are first linked through  *)
(* their match fields when their key has the received size; then the key is *)
(* read in parts of at most 32 bytes and each part takes the nodes that do  *)
(* not have it off the list.  0 ends a list.                                *)
(***************************************************************************)
EXTENDS Integers, Sequences

CONSTANTS
    N,          \* nodes of the branch
    Parts,      \* parts of keys, at most 32 bytes each
    KeySet      \* keys, of nodes and received

ASSUME NAssumption == N \in Nat
(* The number of parts a key is read in depends on its size only.           *)
ASSUME PartsAssumption ==
    /\ \A k \in KeySet : k \in [size : Nat, parts : Seq(Parts)]
    /\ \A k, l \in KeySet : k.size = l.size => Len(k.parts) = Len(l.parts)

VARIABLES
    key,        \* node -> its key
    want,       \* the key that was received
    match,      \* node -> the next node on the list; what an earlier search left
    head,       \* abi->match, the first node on the list
    idx, prev,  \* the node a loop is at, and the one it was at before
    part,       \* the part of the key that is compared
    pc          \* "link", "scan", "next" or "found"

matchVars == <<key, want, match, head, idx, prev, part, pc>>
Nodes == 1 .. N
Links == 0 .. N

After(i) == IF i = N THEN 0 ELSE i + 1      \* node->neig

MatchInit ==
    /\ key \in [Nodes -> KeySet] /\ want \in KeySet
    /\ match \in [Nodes -> Links]
    /\ head = 0 /\ prev = 0
    /\ idx = IF N = 0 THEN 0 ELSE 1
    /\ part = 0 /\ pc = "link"

(* abir_link_match_size_branch: the node has a key of the received size.    *)
LinkNode ==
    /\ pc = "link" /\ idx # 0 /\ key[idx].size = want.size
    /\ IF prev # 0
       THEN match' = [match EXCEPT ![prev] = idx] /\ UNCHANGED head
       ELSE head' = idx /\ UNCHANGED match
    /\ prev' = idx /\ idx' = After(idx)
    /\ UNCHANGED <<key, want, part, pc>>

PassNode ==
    /\ pc = "link" /\ idx # 0 /\ key[idx].size # want.size
    /\ idx' = After(idx)
    /\ UNCHANGED <<key, want, match, head, prev, part, pc>>

LinkDone ==
    /\ pc = "link" /\ idx = 0
    /\ match' = IF head = 0 THEN match ELSE [match EXCEPT ![prev] = 0]
    /\ pc' = "next"
    /\ UNCHANGED <<key, want, head, idx, prev, part>>

(* The next part of the key is read while it is not all read and the list   *)
(* is not empty.                                                            *)
ReadPart ==
    /\ pc = "next" /\ part < Len(want.parts) /\ head # 0
    /\ part' = part + 1
    /\ idx' = head /\ prev' = head
    /\ pc' = "scan"
    /\ UNCHANGED <<key, want, match, head>>

(* abir_scan_key_part: a node with this part stays on the list.             *)
KeepNode ==
    /\ pc = "scan" /\ idx # 0 /\ key[idx].parts[part] = want.parts[part]
    /\ prev' = idx /\ idx' = match[idx]
    /\ UNCHANGED <<key, want, match, head, part, pc>>

(* Fault: the head of the list is not moved on.                             *)
DropNodeAsInner ==
    /\ pc = "scan" /\ idx # 0 /\ key[idx].parts[part] # want.parts[part]
    /\ match' = [match EXCEPT ![prev] = match[idx]]
    /\ idx' = match[idx] /\ prev' = match[idx]
    /\ UNCHANGED <<key, want, head, part, pc>>

(* A node without it is taken off, and prev moves on with idx: of two such  *)
(* nodes in a row behind a kept one only the first is taken off.            *)
DropNode ==
    /\ pc = "scan" /\ idx # 0 /\ key[idx].parts[part] # want.parts[part]
    /\ IF idx = head
       THEN head' = match[idx] /\ UNCHANGED match
       ELSE match' = [match EXCEPT ![prev] = match[idx]] /\ UNCHANGED head
    /\ idx' = match[idx] /\ prev' = match[idx]
    /\ UNCHANGED <<key, want, part, pc>>

PartDone ==
    /\ pc = "scan" /\ idx = 0
    /\ pc' = "next"
    /\ UNCHANGED <<key, want, match, head, idx, prev, part>>

(* head is the node that takes the value, or 0: the node is skipped.        *)
Found ==
    /\ pc = "next" /\ (part = Len(want.parts) \/ head = 0)
    /\ pc' = "found"
    /\ UNCHANGED <<key, want, match, head, idx, prev, part>>

MatchNext ==
    \/ LinkNode \/ PassNode \/ LinkDone \/ ReadPart
    \/ KeepNode \/ DropNode \/ PartDone \/ Found
MatchSpec == MatchInit /\ [][MatchNext]_matchVars

-----------------------------------------------------------------------------
(* Properties *)

TypeOK ==
    /\ key \in [Nodes -> KeySet] /\ want \in KeySet
    /\ match \in [Nodes -> Links]
    /\ head \in Links /\ idx \in Links /\ prev \in Links
    /\ part \in 0 .. Len(want.parts)
    /\ pc \in {"link", "scan", "next", "found"}

(* The search ends with the first node that has the received key, or with   *)
(* none when there is none, whatever links an earlier search left.          *)
FirstMatch ==
    pc = "found" =>
        /\ head # 0 => key[head] = want
        /\ \A n \in Nodes : key[n] = want => head # 0 /\ head <= n
=============================================================================
