-------------------------- MODULE HandshakeProtocol --------------------------
(***************************************************************************)
(* Initiators built from handshake.c, as its tests build them, and the     *)
(* daemon's handler of initiations (main.c), on a network that loses,      *)
(* duplicates, delays and corrupts datagrams.  Messages are exact terms.   *)
(*                                                                         *)
(* A datagram once sent stays in net: it may be received never, late, and  *)
(* any number of times.                                                    *)
(***************************************************************************)
EXTENDS Handshake, FiniteSets

CONSTANTS
    Initiators,         \* the parties that start handshakes
    Known,              \* those whose public key is in the peer table
    ClockLead,          \* initiator -> how many seconds its clock is ahead
    INDEX_MOD,          \* 2^32: indices are uint32_t
    MAX_TIME,           \* bound on the daemon's clock
    MAX_EPHEMERALS,     \* bound on the key pairs generated
    MAX_CORRUPTIONS     \* bound on the datagrams the network corrupts

ASSUME ProtocolAssumption ==
    /\ Known \subseteq Initiators
    /\ ClockLead \in [Initiators -> Int]
    /\ INDEX_MOD \in Nat \ {0, 1}
    /\ {MAX_TIME, MAX_EPHEMERALS, MAX_CORRUPTIONS} \subseteq Nat
    /\ MAX_TIME > 0

VARIABLES
    clock,              \* time(NULL) at the daemon
    ephemerals,         \* how many ephemeral key pairs exist
    net,                \* every datagram sent so far
    corruptions,        \* how many of them the network made up by corruption
    init_state,         \* initiator -> its handshake_init_state_t, or NoState
    established,        \* initiator -> the sessions it has derived
    next_local_index,   \* peer_table.next_local_index
    last_handshake_time,\* public key of a known peer -> its last_handshake_time
    sessions            \* history: the sessions the daemon has initialised

vars == <<clock, ephemerals, net, corruptions, init_state, established,
          next_local_index, last_handshake_time, sessions>>

NoState == [local_index |-> 0]

StaticKey(p) == <<"static", p>>
DaemonKey == StaticKey("daemon")
Ephemeral(n) == <<"ephemeral", n>>

Init ==
    /\ clock = 1
    /\ ephemerals = 0
    /\ net = {}
    /\ corruptions = 0
    /\ init_state = [i \in Initiators |-> NoState]
    /\ established = [i \in Initiators |-> {}]
    /\ next_local_index = 1
    /\ last_handshake_time = [k \in {public(StaticKey(p)) : p \in Known} |-> 0]
    /\ sessions = {}
-----------------------------------------------------------------------------
\* An initiator starts a handshake, or starts over: one state is kept.
CreateInitiation(i) ==
    LET created == handshake_create_initiation(StaticKey(i), public(DaemonKey),
                       ephemerals + 1, Ephemeral(ephemerals + 1), clock + ClockLead[i])
    IN  /\ ephemerals < MAX_EPHEMERALS
        /\ created.ok
        /\ ephemerals' = ephemerals + 1
        /\ net' = net \cup {created.packet}
        /\ init_state' = [init_state EXCEPT ![i] = created.state]
        /\ UNCHANGED <<clock, corruptions, established, next_local_index,
                       last_handshake_time, sessions>>

\* my_local_idx = peer_table.next_local_index++, which wraps.
TakeIndex_NotAdvanced == next_local_index' = next_local_index
TakeIndex == next_local_index' = (next_local_index + 1) % INDEX_MOD

\* The daemon accepts an initiation: it takes an index, makes a response,
\* initialises the session and sends the response, which the network may lose.
\* answer.ok is never false here: the points it depends on passed view.ok.
ReceiveInitiation(msg) ==
    LET view == handshake_consume_initiation(msg, DaemonKey, last_handshake_time)
        answer == handshake_create_response(msg.unencrypted_ephemeral, view.peer,
                      next_local_index, msg.sender_index,
                      view.chaining_key, view.hash, Ephemeral(ephemerals + 1))
    IN  /\ msg.type = "init"
        /\ ephemerals < MAX_EPHEMERALS
        /\ view.ok
        /\ answer.ok
        /\ ephemerals' = ephemerals + 1
        /\ TakeIndex
        /\ sessions' = sessions \cup
               {[peer |-> view.peer,
                 local_index |-> next_local_index,
                 peer_index |-> msg.sender_index,
                 send_key |-> answer.send_key,
                 recv_key |-> answer.recv_key,
                 initiation |-> msg]}
        /\ last_handshake_time' = [last_handshake_time EXCEPT ![view.peer] = clock]
        /\ net' = net \cup {answer.packet}
        /\ UNCHANGED <<clock, corruptions, init_state, established>>

\* The daemon turns an initiation down; nothing changes.
RejectInitiation(msg) ==
    /\ msg.type = "init"
    /\ ~handshake_consume_initiation(msg, DaemonKey, last_handshake_time).ok
    /\ UNCHANGED vars

\* An initiator reads a response, possibly one it has already read.
ReceiveResponse(i, msg) ==
    LET view == handshake_consume_response(msg, StaticKey(i), init_state[i])
    IN  /\ msg.type = "resp"
        /\ init_state[i] # NoState
        /\ view.ok
        /\ established' = [established EXCEPT ![i] = @ \cup
               {[local_index |-> init_state[i].local_index,
                 peer_index |-> view.peer_index,
                 send_key |-> view.send_key,
                 recv_key |-> view.recv_key]}]
        /\ UNCHANGED <<clock, ephemerals, net, corruptions, init_state,
                       next_local_index, last_handshake_time, sessions>>
-----------------------------------------------------------------------------
\* What corruption can make of one field; a ciphertext loses its tag.
Damaged(msg) ==
    LET cipher(f) == [msg EXCEPT ![f][1] = "corrupted"]
        common == {[msg EXCEPT !.sender_index = 0],
                   [msg EXCEPT !.unencrypted_ephemeral = <<"corrupted", "point">>],
                   [msg EXCEPT !.unencrypted_ephemeral = LowOrderPoint],
                   cipher("mac1")}
    IN  IF msg.type = "init"
        THEN common \cup {cipher("encrypted_static"), cipher("encrypted_timestamp")}
        ELSE common \cup {cipher("encrypted_nothing"), [msg EXCEPT !.receiver_index = 0]}

Corrupt(msg) ==
    /\ corruptions < MAX_CORRUPTIONS
    /\ corruptions' = corruptions + 1
    /\ \E damaged \in Damaged(msg) : net' = net \cup {damaged}
    /\ UNCHANGED <<clock, ephemerals, init_state, established, next_local_index,
                   last_handshake_time, sessions>>

Tick ==
    /\ clock < MAX_TIME
    /\ clock' = clock + 1
    /\ UNCHANGED <<ephemerals, net, corruptions, init_state, established,
                   next_local_index, last_handshake_time, sessions>>

Next ==
    \/ \E i \in Initiators : CreateInitiation(i)
    \/ \E msg \in net : ReceiveInitiation(msg) \/ RejectInitiation(msg)
    \/ \E i \in Initiators, msg \in net : ReceiveResponse(i, msg)
    \/ \E msg \in net : Corrupt(msg)
    \/ Tick

Spec == Init /\ [][Next]_vars
-----------------------------------------------------------------------------
\* The daemon's sessions took the indices in turn.
IndicesInTurn ==
    /\ IsFiniteSet(sessions)
    /\ next_local_index = (Cardinality(sessions) + 1) % INDEX_MOD
    /\ {s.local_index : s \in sessions} = {k % INDEX_MOD : k \in 1..Cardinality(sessions)}
    /\ Cardinality(sessions) <= INDEX_MOD =>
           \A s, t \in sessions : s.local_index = t.local_index => s = t

\* Types; the daemon's sessions took the indices in turn, each one of its own
\* until the counter has been around once, and last_handshake_time is never in
\* the daemon's future.
TypeOK ==
    /\ clock \in 1..MAX_TIME
    /\ ephemerals \in 0..MAX_EPHEMERALS
    /\ corruptions \in 0..MAX_CORRUPTIONS
    /\ IndicesInTurn
    /\ \A s \in sessions : s.peer \in DOMAIN last_handshake_time
    /\ \A k \in DOMAIN last_handshake_time : last_handshake_time[k] \in 0..clock

Mirrored(mine, theirs) ==
    mine.send_key = theirs.recv_key /\ mine.recv_key = theirs.send_key

\* Whenever consume_response returns 0 the daemon has a session with that very
\* initiator whose keys mirror the derived ones, whatever was corrupted or
\* repeated on the way; without corruption the indices agree as well.
KeyAgreement ==
    \A i \in Initiators : \A mine \in established[i] :
        \E s \in sessions :
            /\ s.peer = public(StaticKey(i))
            /\ Mirrored(mine, s)
            /\ corruptions = 0 => /\ mine.peer_index = s.local_index
                                  /\ mine.local_index = s.peer_index

\* No two sessions of the daemon share a key and no session uses one key for
\* both directions, even when one initiation is accepted twice: a counter that
\* starts at 0 again never meets an old key.
KeysFresh ==
    /\ \A s \in sessions : s.send_key # s.recv_key
    /\ \A s, t \in sessions :
           s # t => {s.send_key, s.recv_key} \cap {t.send_key, t.recv_key} = {}

\* No initiation of these peers has started two sessions.
AcceptedOnce(peers) ==
    \A s, t \in {u \in sessions : u.peer \in peers} :
        s.initiation.unencrypted_ephemeral = t.initiation.unencrypted_ephemeral => s = t

\* The daemon initialises at most one session for an initiation: its
\* "Replayed or stale handshake timestamp" test catches every repetition.
InitiationAcceptedOnce == AcceptedOnce(DOMAIN last_handshake_time)

\* The same of initiators whose clocks are not ahead of the daemon's: the time
\* it stores for the peer (last_handshake_time) is then not below the timestamp
\* of any initiation it has accepted.
PunctualInitiationAcceptedOnce ==
    AcceptedOnce({public(StaticKey(i)) : i \in {j \in Initiators : ClockLead[j] <= 0}})

(* What the proofs need besides. *)

\* The initiation that initiator i makes at its time sec with ephemeral key n,
\* and the response to initiation m that the daemon makes with key n.
Created(i, n, sec) ==
    handshake_create_initiation(StaticKey(i), public(DaemonKey), n, Ephemeral(n), sec)
Answered(m, n) ==
    LET view == handshake_consume_initiation(m, DaemonKey, <<>>)
    IN  handshake_create_response(m.unencrypted_ephemeral, view.peer, 0, m.sender_index,
                                  view.chaining_key, view.hash, Ephemeral(n))

Initiations == {m \in net : m.type = "init"}
Responses == {m \in net : m.type = "resp"}
Sec(m) == Plaintext(m.encrypted_timestamp)

\* The timestamp of m is the one i made with ephemeral key n.
StampedBy(m, i, n) ==
    m.encrypted_timestamp = Created(i, n, Sec(m)).packet.encrypted_timestamp

\* Every datagram has the fields of its wire structure, each ciphertext its parts.
Shapes ==
    /\ net = Initiations \cup Responses
    /\ \A m \in Initiations :
           /\ DOMAIN m = {"type", "sender_index", "unencrypted_ephemeral",
                          "encrypted_static", "encrypted_timestamp", "mac1"}
           /\ 1 \in DOMAIN m.encrypted_static
           /\ 1 \in DOMAIN m.encrypted_timestamp
    /\ \A m \in Responses :
           /\ DOMAIN m = {"type", "sender_index", "receiver_index", "unencrypted_ephemeral",
                          "encrypted_nothing", "mac1"}
           /\ 1 \in DOMAIN m.encrypted_nothing

\* A timestamp that is not corrupted was made by an initiator, in the past by
\* its own clock, and one key stamps one time.
Stamps ==
    /\ \A m \in Initiations :
           m.encrypted_timestamp[1] = "aead" =>
               \E i \in Initiators, n \in 1..ephemerals :
                   /\ StampedBy(m, i, n)
                   /\ Sec(m) \in Int /\ Sec(m) <= clock + ClockLead[i]
    /\ \A m, o \in Initiations : \A i, j \in Initiators, n \in 1..ephemerals :
           StampedBy(m, i, n) /\ StampedBy(o, j, n) => Sec(m) = Sec(o) /\ i = j

\* A session answers an initiation of its peer, with an ephemeral key of its own.
Answers ==
    \A s \in sessions :
        /\ s.initiation \in Initiations
        /\ s.peer = Plaintext(s.initiation.encrypted_static)
        /\ s.peer_index = s.initiation.sender_index
        /\ \E n \in 1..ephemerals :
               /\ s.send_key = Answered(s.initiation, n).send_key
               /\ s.recv_key = Answered(s.initiation, n).recv_key
        /\ \E i \in Initiators, n \in 1..ephemerals :
               /\ s.initiation.unencrypted_ephemeral = public(Ephemeral(n))
               /\ StampedBy(s.initiation, i, n)
               /\ s.peer = public(StaticKey(i))

\* What the daemon remembers of a punctual peer is not older than any of its
\* accepted initiations.
Remembered ==
    \A s \in sessions, i \in Initiators :
        s.peer = public(StaticKey(i)) /\ ClockLead[i] <= 0
            => Sec(s.initiation) <= last_handshake_time[s.peer] /\ last_handshake_time[s.peer] > 0

\* A response whose ciphertext is not corrupted is that of a session.
ResponsesOfSessions ==
    \A m \in Responses :
        m.encrypted_nothing[1] = "aead" =>
            \E s \in sessions, n \in 1..ephemerals :
                /\ m.encrypted_nothing = Answered(s.initiation, n).packet.encrypted_nothing
                /\ s.send_key = Answered(s.initiation, n).send_key
                /\ s.recv_key = Answered(s.initiation, n).recv_key
                /\ corruptions = 0 => /\ m.sender_index = s.local_index
                                      /\ m.receiver_index = s.peer_index

IInv ==
    /\ TypeOK
    /\ DOMAIN last_handshake_time = {public(StaticKey(p)) : p \in Known}
    /\ DOMAIN established = Initiators
    /\ Shapes /\ Stamps /\ Answers /\ Remembered /\ ResponsesOfSessions
    /\ KeysFresh /\ KeyAgreement /\ PunctualInitiationAcceptedOnce
-----------------------------------------------------------------------------
\* An initiation whose MAC1 is wrong starts no session.
Mac1Checked ==
    \A s \in sessions :
        s.initiation.mac1 = Mac1(public(DaemonKey),
                                 <<s.initiation.unencrypted_ephemeral,
                                   s.initiation.encrypted_static,
                                   s.initiation.encrypted_timestamp>>)
=============================================================================
