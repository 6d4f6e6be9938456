---------------------------- MODULE AuthSession ----------------------------
(***************************************************************************)
(* The session handshake of abi-auth.c between the two ends of one          *)
(* connection.  An end that requires sessions announces itself (CAPS), asks *)
(* whoever announces itself (REQUEST), answers when asked (RESPONSE) and    *)
(* gives its verdict (STATUS).  Until its verdict is positive its gate is   *)
(* closed: all that arrives goes to the handshake's parser, which skips     *)
(* what it does not know, and none of it to the application.                *)
(*                                                                          *)
(* A message is written whole or stays in the send buffer; AbiStream has    *)
(* the bytes.  Every handshake message resets the buffer first              *)
(* (abiw_write_task).                                                       *)
(***************************************************************************)
EXTENDS Integers, Sequences

CONSTANTS
    Sides, Peer,    \* the ends of the connection, and the opposite end
    Modes,          \* which ends may require sessions (ioc_auth_init): sets of ends
    Users,          \* user names
    Nameless,       \* stands for the user of a response without P3_USERNAME_T
    Secrets,        \* passwords
    NoSecret,       \* the empty password
    Known,          \* side -> [the users it knows -> their passwords]
    Wire,           \* messages the kernel holds in each direction
    MaxData         \* bound: a side with this many messages in flight sends no data

ASSUME PeerAssumption == \A s \in Sides : Peer[s] \in Sides \ {s} /\ Peer[Peer[s]] = s
ASSUME SessionAssumption == Modes \subseteq SUBSET Sides
ASSUME NamelessAssumption == Nameless \notin Users
ASSUME SecretAssumption ==
    /\ NoSecret \in Secrets
    /\ \A s \in Sides : DOMAIN Known[s] \subseteq Users
    /\ \A s \in Sides : \A u \in DOMAIN Known[s] : Known[s][u] \in Secrets
ASSUME BoundAssumption == Wire \in Nat \ {0} /\ MaxData \in Nat

VARIABLES
    sessions,   \* the ends that require sessions
    login,      \* side -> the user and password it answers with
    gated,      \* side -> ABI_IO_AUTHA_REQUIRED
    state,      \* side -> the P3_AUTH_* bits of its auth context
    nonce,      \* side -> the challenge it sent last (A.chalenge), 0 before
    asked,      \* side -> the challenge it was sent last (B.chalenge)
    expires,    \* side -> the session has a deadline
    up,         \* side -> its end of the connection is open
    tx,         \* side -> messages in its send buffer
    wire,       \* side -> messages the kernel carries from it
    events,     \* side -> what its poll waits for
    skipped     \* side -> types of the messages its closed gate skipped

ends == <<sessions, login>>
link == <<tx, wire, events>>
authVars == <<ends, gated, state, nonce, asked, expires, up, link, skipped>>

AuthInit ==
    /\ sessions \in Modes
    /\ login \in [Sides -> [user : Users \cup {Nameless}, secret : Secrets]]
    /\ gated = [s \in Sides |-> s \in sessions]
    /\ state = [s \in Sides |-> {}]
    /\ nonce = [s \in Sides |-> 0] /\ asked = [s \in Sides |-> 0]
    /\ expires = [s \in Sides |-> s \in sessions]
    /\ up = [s \in Sides |-> TRUE]
    /\ tx = [s \in Sides |-> <<>>]
    /\ wire = [s \in Sides |-> IF s \in sessions THEN <<[type |-> "CAPS"]>> ELSE <<>>]
    /\ events = [s \in Sides |-> {"IN"}]
    /\ skipped = [s \in Sides |-> {}]

-----------------------------------------------------------------------------
(* Sending *)

(* Fault: a write that is held up goes on waiting for input.                *)
WaitBoth(ev, left) == IF left > 0 THEN ev \cup {"OUT"} ELSE {"IN"}

(* What poll waits for after a write (abi_mem2fd_task_send).                *)
WaitFor(ev, left) == IF left > 0 THEN {"OUT"} ELSE ev \cup {"IN"}

(* With nothing left to write the wait for output ends as well.             *)
EventsAfter(ev, q, left) == IF q = <<>> THEN {"IN"} ELSE WaitFor(ev, left)

(* write() of the messages q of side s, with from on the wire of its peer:  *)
(* as many as the kernel takes.  Data for a closed peer is lost.            *)
Write(s, q, from) ==
    LET room == IF up[Peer[s]] THEN Wire - Len(wire[s]) ELSE Len(q)
        n == IF room < Len(q) THEN room ELSE Len(q) IN
    /\ wire' = [wire EXCEPT ![s] = @ \o SubSeq(q, 1, n), ![Peer[s]] = from]
    /\ tx' = [tx EXCEPT ![s] = SubSeq(q, n + 1, Len(q))]
    /\ events' = [events EXCEPT ![s] = EventsAfter(@, q, Len(q) - n)]

(* abiw_write_task and abi_mem2fd_ioc_send: the message takes the place of  *)
(* whatever is still in the buffer.                                         *)
Answer(s, m, from) == Write(s, <<m>>, from)

CanFlush(s) == up[s] /\ "OUT" \in events[s] /\ (Len(wire[s]) < Wire \/ ~up[Peer[s]])
Flush(s) ==
    /\ CanFlush(s)
    /\ Write(s, tx[s], wire[Peer[s]])
    /\ UNCHANGED <<ends, gated, state, nonce, asked, expires, up, skipped>>

(* The application of an open side sends; the message is appended.          *)
SendData(s) ==
    /\ up[s] /\ ~gated[s] /\ Len(tx[s]) + Len(wire[s]) < MaxData
    /\ Write(s, Append(tx[s], [type |-> "DATA"]), wire[Peer[s]])
    /\ UNCHANGED <<ends, gated, state, nonce, asked, expires, up, skipped>>

-----------------------------------------------------------------------------
(* The handshake *)

(* abi_auth_info_hash of the shuffled info.                                 *)
Hash(secret, user, challenge) == <<secret, user, challenge>>

(* get_password: the empty password when the user is not known.  It is not  *)
(* asked when the response names no user, and the password is still empty.  *)
PasswordOf(s, user) == IF user \in DOMAIN Known[s] THEN Known[s][user] ELSE NoSecret

(* auth_fill_request: a new challenge.                                      *)
OnCaps(s, m, rest) ==
    /\ m.type = "CAPS"
    /\ nonce' = [nonce EXCEPT ![s] = @ + 1]
    /\ Answer(s, [type |-> "REQUEST", nonce |-> nonce[s] + 1], rest)
    /\ UNCHANGED <<gated, state, asked, expires, up, skipped>>

(* auth_fill_response: the challenge it was sent, its user and the hash.    *)
OnRequest(s, m, rest) ==
    /\ m.type = "REQUEST"
    /\ asked' = [asked EXCEPT ![s] = m.nonce]
    /\ Answer(s, [type |-> "RESPONSE", nonce |-> m.nonce, user |-> login[s].user,
                  hash |-> Hash(login[s].secret, login[s].user, m.nonce)], rest)
    /\ UNCHANGED <<gated, state, nonce, expires, up, skipped>>

(* Fault: the verdict bits are cleared after the checks instead of before.  *)
CheckedThenCleared(s, m) == (state[s] \cup {"INFO", "HASH"}) \ {"POSITIVE", "NEGATIVE"}

(* What the checks of the info in a response leave in state: a challenge or *)
(* a user that is not the expected one marks it negative.  Each check runs  *)
(* on the field it is about (abi_init_check_auth_info): a response without  *)
(* the optional user name is not checked for one.  The fields that the      *)
(* protocol requires are in every response (auth_fill_response).            *)
Checked(s, m) ==
    (state[s] \ {"POSITIVE", "NEGATIVE"}) \cup {"INFO", "HASH"} \cup
        (IF m.nonce = nonce[s] /\ m.user \in DOMAIN Known[s] \cup {Nameless}
         THEN {} ELSE {"NEGATIVE"})

Accepts(s, m) ==
    /\ "NEGATIVE" \notin Checked(s, m)
    /\ m.hash = Hash(PasswordOf(s, m.user), m.user, m.nonce)

(* auth_abi_on_auth_response, accepted: the gate opens, the verdict is sent *)
(* and ioc_auth_rx drops the deadline.                                      *)
OnResponseAccepted(s, m, rest) ==
    /\ m.type = "RESPONSE" /\ Accepts(s, m)
    /\ state' = [state EXCEPT ![s] = Checked(s, m) \cup {"POSITIVE"}]
    /\ gated' = [gated EXCEPT ![s] = FALSE]
    /\ expires' = [expires EXCEPT ![s] = FALSE]
    /\ Answer(s, [type |-> "STATUS", ok |-> TRUE], rest)
    /\ UNCHANGED <<nonce, asked, up, skipped>>

(* ... refused: the verdict is written, and the task marked for closing     *)
(* (abi_kill_task) is closed by the same pass of the iterator.              *)
OnResponseRefused(s, m, rest) ==
    /\ m.type = "RESPONSE" /\ ~Accepts(s, m)
    /\ state' = [state EXCEPT ![s] = Checked(s, m) \cup {"NEGATIVE"}]
    /\ Answer(s, [type |-> "STATUS", ok |-> FALSE], rest)
    /\ up' = [up EXCEPT ![s] = FALSE]
    /\ UNCHANGED <<gated, nonce, asked, expires, skipped>>

(* Fault: the deadline is dropped by any message, not by the verdict.       *)
OnOtherInTime(s, m, rest) ==
    /\ m.type \in {"STATUS", "DATA"}
    /\ skipped' = [skipped EXCEPT ![s] = @ \cup {m.type}]
    /\ expires' = [expires EXCEPT ![s] = FALSE]
    /\ Write(s, tx[s], rest)
    /\ UNCHANGED <<gated, state, nonce, asked, up>>

(* Any other message is skipped; ioc_auth_rx still flushes the buffer.      *)
OnOther(s, m, rest) ==
    /\ m.type \in {"STATUS", "DATA"}
    /\ skipped' = [skipped EXCEPT ![s] = @ \cup {m.type}]
    /\ Write(s, tx[s], rest)
    /\ UNCHANGED <<gated, state, nonce, asked, expires, up>>

CanReceive(s) == up[s] /\ "IN" \in events[s] /\ wire[Peer[s]] # <<>>

(* ioc_auth_rx: a closed gate gives the message to the handshake.           *)
ReceiveGated(s) ==
    /\ CanReceive(s) /\ gated[s]
    /\ LET m == Head(wire[Peer[s]])
           rest == Tail(wire[Peer[s]]) IN
       \/ OnCaps(s, m, rest) \/ OnRequest(s, m, rest)
       \/ OnResponseAccepted(s, m, rest) \/ OnResponseRefused(s, m, rest)
       \/ OnOther(s, m, rest)
    /\ UNCHANGED ends

(* An open gate gives it to the application.                                *)
ReceiveOpen(s) ==
    /\ CanReceive(s) /\ ~gated[s]
    /\ wire' = [wire EXCEPT ![Peer[s]] = Tail(@)]
    /\ UNCHANGED <<ends, gated, state, nonce, asked, expires, up, tx, events, skipped>>

-----------------------------------------------------------------------------
(* Closing *)

Close(s) ==
    /\ up' = [up EXCEPT ![s] = FALSE]
    /\ UNCHANGED <<ends, gated, state, nonce, asked, expires, link, skipped>>

(* The peer is gone: an end of stream, or POLLHUP before all is read.       *)
HangUp(s) == up[s] /\ ~up[Peer[s]] /\ Close(s)

(* abi_io_on_timeout, which runs only when poll has nothing to report: the  *)
(* deadline has passed.                                                     *)
Expire(s) ==
    /\ up[s] /\ up[Peer[s]] /\ expires[s]
    /\ ~CanReceive(s) /\ ~CanFlush(s)
    /\ Close(s)

AuthNext ==
    \E s \in Sides :
        \/ Flush(s) \/ SendData(s)
        \/ ReceiveGated(s) \/ ReceiveOpen(s)
        \/ HangUp(s) \/ Expire(s)

AuthSpec == AuthInit /\ [][AuthNext]_authVars
(* Each end runs its iterator for ever, with a finite poll timeout, and the *)
(* clock that *ioc->tm reads goes on.                                       *)
FairAuthSpec ==
    /\ AuthSpec
    /\ \A s \in Sides :
        /\ WF_authVars(Flush(s)) /\ WF_authVars(ReceiveGated(s)) /\ WF_authVars(ReceiveOpen(s))
        /\ WF_authVars(HangUp(s)) /\ WF_authVars(Expire(s))

-----------------------------------------------------------------------------
(* Properties *)

Mutual == sessions = Sides

(* A gate opens only for a peer whose user this side knows and whose        *)
(* password is that user's, an empty password and an unknown user included, *)
(* or for one that names no user and has the empty password                 *)
(* (auth_abi_on_auth_response).  The peer's responses have the fields that  *)
(* the protocol requires; abi-auth.c does not check that they are there.    *)
OpenIsKnown ==
    \A s \in sessions : ~gated[s] =>
        /\ login[Peer[s]].user \in DOMAIN Known[s] \cup {Nameless}
        /\ login[Peer[s]].secret = PasswordOf(s, login[Peer[s]].user)

(* Mutual authentication does not stall: a connection on which nothing is   *)
(* in flight is open at both ends or closed, although each end stops        *)
(* answering requests as soon as its own gate is open.                      *)
QuietIsOpen ==
    /\ Mutual /\ \A s \in Sides : up[s] /\ tx[s] = <<>> /\ wire[s] = <<>>
    => \A s \in Sides : ~gated[s]

(* What an application sends once its own gate is open is never skipped by  *)
(* a gate that is still closed at the other end.                            *)
DataIsHeard == Mutual => \A s \in Sides : "DATA" \notin skipped[s]

(* A closed gate opens, or its connection is closed, once the peer sends no *)
(* more application data: deadlines are looked at only when poll has        *)
(* nothing to report (abi_io_iterator), so a peer that goes on sending to a *)
(* gate that skips its data keeps the connection.                           *)
GateSettles ==
    \A s \in Sides :
        <>[][~SendData(Peer[s])]_authVars => (gated[s] ~> ~gated[s] \/ ~up[s])
=============================================================================
