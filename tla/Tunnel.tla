------------------------------- MODULE Tunnel -------------------------------
(***************************************************************************)
(* The data plane of the daemon: the handlers of main.c's event loop for   *)
(* initiations, data and TUN packets, on the peer table, with remote       *)
(* clients that hand-shake, rekey, send and roam, over a network that      *)
(* loses, duplicates, delays and damages datagrams, and carries them from  *)
(* places their senders never were.                                        *)
(*                                                                         *)
(* The loop is single-threaded, so a handler is one step.  A handshake is  *)
(* known by its number: HandshakeProtocol shows that both ends derive the  *)
(* same two keys and that no two handshakes share one.                     *)
(***************************************************************************)
EXTENDS PeerTable, Packet, Handshake

CONSTANTS
    Config,             \* the peers, in order: records with public_key, texts
    Packets,            \* IP packets: records with src, dst, size
    Locations,          \* the addresses clients may be at
    Home,               \* the one they start from
    TICK,               \* how many seconds pass at a time
    MAX_TIME,           \* bound on the clock
    MAX_INITIATIONS,    \* bound on the initiations clients send
    MAX_SENDS,          \* bound on the packets clients send
    MAX_READS,          \* bound on the packets read from the TUN device
    MAX_MOVES,          \* bound on the moves of clients
    MAX_DAMAGES         \* bound on the datagrams the network damages or redirects

\* Every peer is configured once, with AllowedIPs that the parser took; there
\* are fewer packets to send than counters.
ASSUME TunnelAssumption ==
    /\ DOMAIN Config \subseteq 1..MAX_PEERS
    /\ \A i, j \in DOMAIN Config : Config[i].public_key = Config[j].public_key => i = j
    /\ \A i \in DOMAIN Config : \A j \in DOMAIN Config[i].texts :
           Config[i].texts[j] \in CidrTexts /\ ~CidrError(Config[i].texts[j])
    /\ \A p \in Packets : p.src \in Addresses /\ p.dst \in Addresses /\ p.size \in Nat
    /\ MAX_READS <= MAX_COUNTER
    /\ Home \in Locations
    /\ TICK \in Nat \ {0}
    /\ {MAX_TIME, MAX_INITIATIONS, MAX_SENDS, MAX_READS, MAX_MOVES,
        MAX_DAMAGES} \subseteq Nat

VARIABLES
    table,              \* the daemon's peer table
    tun_open,           \* tun.fd >= 0; FALSE is the socket-only mode
    clock,              \* time(NULL), for everyone
    net,                \* every datagram sent so far
    client,             \* public key -> the state of that client
    accepted,           \* history: the handshakes the daemon accepted, in order
    written,            \* history: what the daemon wrote to the TUN device
    emitted,            \* history: the data the daemon sent
    used                \* how much of each bound is used up

vars == <<table, tun_open, clock, net, client, accepted, written, emitted, used>>

Clients == {Config[i].public_key : i \in DOMAIN Config}
Stranger == "stranger"

\* peer_add and peer_add_allowed_ip for every configured peer, in order.
Configured ==
    [peer_table_init EXCEPT !.peers =
        [i \in DOMAIN Config |->
            LET added == peer_add(peer_table_init, Config[i].public_key, NoEndpoint).peers[1]
            IN  [added EXCEPT !.allowed_ips =
                    [j \in DOMAIN Config[i].texts |-> vpn_cidr_parse(Config[i].texts[j])]]]]

\* What both ends of handshake n know.
KeyToClient(n) == <<"to client", n>>
KeyToDaemon(n) == <<"to daemon", n>>
NoClientSession == [number |-> 0, peer_index |-> 0, counter |-> 0]

Init ==
    /\ table = Configured
    /\ tun_open \in BOOLEAN
    /\ clock = 1
    /\ net = {}
    /\ client = [c \in Clients |->
                    [location |-> Home, initiation |-> 0, session |-> NoClientSession]]
    /\ accepted = <<>>
    /\ written = <<>>
    /\ emitted = <<>>
    /\ used = [initiations |-> 0, sends |-> 0, reads |-> 0, moves |-> 0, damages |-> 0]

\* A step that a bound limits.
Use(what, bound) == used[what] < bound /\ used' = [used EXCEPT ![what] = @ + 1]

-----------------------------------------------------------------------------
(* The daemon: one UDP datagram m. *)

\* An initiation that handshake_consume_initiation takes.
AcceptInitiation(m) ==
    LET i == peer_find_by_pubkey(table, m.static)
        n == Len(accepted) + 1
        index == table.next_local_index
    IN  /\ packet_peek_type(m) = "HANDSHAKE_INIT"
        /\ packet_parse_handshake_init(m)
        /\ m.intact
        /\ i # NULL
        /\ ~Stale(m.sec, table.peers[i].last_handshake_time)
        /\ table' = [NextLocalIndex(table) EXCEPT
                        !.peers[i] = peer_update_endpoint(
                            peer_init_session(@, index, m.sender_index,
                                              KeyToClient(n), KeyToDaemon(n), clock),
                            m.from)]
        /\ accepted' = Append(accepted, [peer |-> i, sender_index |-> m.sender_index])
        /\ net' = net \cup {[type |-> "HANDSHAKE_RESP",
                             length |-> PACKET_HANDSHAKE_RESP_LEN,
                             sender_index |-> index,
                             receiver_index |-> m.sender_index,
                             initiation |-> m.id,
                             number |-> n]}
        /\ UNCHANGED <<tun_open, clock, client, written, emitted, used>>

\* A data datagram, up to the point where it is authenticated.
Session(found) == table.peers[found.peer][found.session]

Passes_NotAuthenticated(m, found) ==
    /\ packet_parse_data(m)
    /\ found.peer # NULL
    /\ replay_check(Session(found).replay_filter, m.counter)
Passes(m, found) ==
    /\ packet_peek_type(m) \in {"DATA", "KEEPALIVE"}
    /\ packet_parse_data(m)
    /\ found.peer # NULL
    /\ replay_check(Session(found).replay_filter, m.counter)
    /\ Authentic(m.cipher, <<>>, m.counter, Session(found).recv_key)

\* What the device takes: its mtu is the one tun_open was called with.
tun_write(packet) == tun_open /\ packet.size \in 1..VPN_DEFAULT_INNER_MTU

\* What is then written to the TUN device; the write itself may still fail.
Deliverable_AnySource(peer, packet) ==
    packet.size >= IPV4_HEADER_LEN /\ tun_write(packet)
Deliverable(peer, packet) ==
    /\ packet.size >= IPV4_HEADER_LEN
    /\ peer_allows_source_ip(peer, packet.src)
    /\ tun_write(packet)

ReceiveData(m) ==
    LET found == peer_find_by_index(table, m.receiver_index)
        packet == Plaintext(m.cipher)
        write == [peer |-> found.peer, key |-> Session(found).recv_key,
                  counter |-> m.counter, packet |-> packet,
                  age |-> clock - Session(found).established_time]
        peer == [table.peers[found.peer] EXCEPT
                    ![found.session].replay_filter = replay_update(@, m.counter)]
    IN  /\ Passes(m, found)
        /\ table' = [table EXCEPT !.peers[found.peer] = peer_update_endpoint(peer, m.from)]
        /\ \/ /\ Deliverable(table.peers[found.peer], packet)
              /\ written' = Append(written, write)
           \/ UNCHANGED written
        /\ UNCHANGED <<tun_open, clock, net, client, accepted, emitted, used>>

\* Everything else is dropped, and nothing changes.
DropDatagram(m) ==
    /\ CASE packet_peek_type(m) = "HANDSHAKE_INIT" ->
                LET i == peer_find_by_pubkey(table, m.static)
                IN  \/ ~m.intact
                    \/ i = NULL
                    \/ Stale(m.sec, table.peers[i].last_handshake_time)
         [] packet_peek_type(m) \in {"DATA", "KEEPALIVE"} ->
                ~Passes(m, peer_find_by_index(table, m.receiver_index))
         [] OTHER -> TRUE
    /\ UNCHANGED vars

(* The daemon: one packet read from the TUN device. *)

\* peer->current_session.sending_counter++, 64 bits wide.
NextCounter_Kept(counter) == counter
NextCounter(counter) == (counter + 1) % (MAX_COUNTER + 1)

Routed(packet) == peer_find_by_dest_ip(table, packet.dst)

Sendable(packet) ==
    /\ tun_open
    /\ packet.size >= IPV4_HEADER_LEN
    /\ Routed(packet) # NULL
    /\ Established(table.peers[Routed(packet)].current_session)

\* The counter is used up even when the packet does not fit the buffer.
ReadTun(packet) ==
    LET i == Routed(packet)
        session == table.peers[i].current_session
        cipher == vpn_crypto_aead_encrypt(packet, <<>>, session.sending_counter,
                                          session.send_key)
    IN  /\ Use("reads", MAX_READS)
        /\ Sendable(packet)
        /\ table' = [table EXCEPT
               !.peers[i].current_session.sending_counter = NextCounter(@)]
        /\ emitted' = IF FitsBuffer(packet.size)
                      THEN Append(emitted,
                               [to |-> table.peers[i].endpoint,
                                datagram |-> packet_serialize_data(session.peer_index,
                                    session.sending_counter, cipher, packet.size)])
                      ELSE emitted
        /\ UNCHANGED <<tun_open, clock, net, client, accepted, written>>

DropTun(packet) ==
    /\ tun_open
    /\ ~Sendable(packet)
    /\ UNCHANGED vars
-----------------------------------------------------------------------------
(* The clients, which are not part of the repository: they use handshake.c *)
(* as its tests do, and number their packets as the daemon does.           *)

StartHandshake(c) ==
    LET id == used.initiations + 1
    IN  /\ Use("initiations", MAX_INITIATIONS)
        /\ net' = net \cup {[type |-> "HANDSHAKE_INIT",
                             length |-> PACKET_HANDSHAKE_INIT_LEN,
                             from |-> client[c].location,
                             static |-> c, sender_index |-> id, id |-> id,
                             sec |-> clock, intact |-> TRUE]}
        /\ client' = [client EXCEPT ![c].initiation = id]
        /\ UNCHANGED <<table, tun_open, clock, accepted, written, emitted>>

FinishHandshake(c, m) ==
    /\ packet_parse_handshake_resp(m)
    /\ client[c].initiation # 0
    /\ m.receiver_index = client[c].initiation
    /\ m.initiation = client[c].initiation
    /\ client' = [client EXCEPT
           ![c].initiation = 0,
           ![c].session = [number |-> m.number, peer_index |-> m.sender_index, counter |-> 0]]
    /\ UNCHANGED <<table, tun_open, clock, net, accepted, written, emitted, used>>

\* A data datagram, as recvfrom reports it.
From(location, datagram) ==
    [type |-> datagram.type, length |-> datagram.length, from |-> location,
     receiver_index |-> datagram.receiver_index, counter |-> datagram.counter,
     cipher |-> datagram.cipher]

SendPacket(c, packet) ==
    LET session == client[c].session
        cipher == vpn_crypto_aead_encrypt(packet, <<>>, session.counter,
                                          KeyToDaemon(session.number))
        datagram == packet_serialize_data(session.peer_index, session.counter,
                                          cipher, packet.size)
    IN  /\ session.number # 0
        /\ session.counter < MAX_COUNTER
        /\ Use("sends", MAX_SENDS)
        /\ net' = net \cup {From(client[c].location, datagram)}
        /\ client' = [client EXCEPT ![c].session.counter = @ + 1]
        /\ UNCHANGED <<table, tun_open, clock, accepted, written, emitted>>

Move(c) ==
    /\ Use("moves", MAX_MOVES)
    /\ \E l \in Locations \ {client[c].location} :
           client' = [client EXCEPT ![c].location = l]
    /\ UNCHANGED <<table, tun_open, clock, net, accepted, written, emitted>>
-----------------------------------------------------------------------------
(* The network and the clock. *)

\* What becomes of a datagram on the way: it arrives whole from somewhere else
\* (no tag covers the source), a header field that nothing protects changes, or
\* content that the tags protect does.
Damaged(m) ==
    {[m EXCEPT !.from = Stranger]} \cup
    IF m.type = "HANDSHAKE_INIT"
    THEN {[m EXCEPT !.sender_index = 0], [m EXCEPT !.intact = FALSE, !.from = Stranger]}
    ELSE {[m EXCEPT !.type = "INVALID"],
          [m EXCEPT !.receiver_index = @ + 1, !.from = Stranger],
          [m EXCEPT !.counter = @ + 1, !.from = Stranger],
          [m EXCEPT !.cipher[1] = "damaged", !.from = Stranger]}

Damage(m) ==
    /\ m.type # "HANDSHAKE_RESP"
    /\ Use("damages", MAX_DAMAGES)
    /\ \E damaged \in Damaged(m) : net' = net \cup {damaged}
    /\ UNCHANGED <<table, tun_open, clock, client, accepted, written, emitted>>

Tick ==
    /\ clock + TICK <= MAX_TIME
    /\ clock' = clock + TICK
    /\ UNCHANGED <<table, tun_open, net, client, accepted, written, emitted, used>>

Next ==
    \/ \E m \in net : AcceptInitiation(m) \/ ReceiveData(m) \/ DropDatagram(m) \/ Damage(m)
    \/ \E packet \in Packets : ReadTun(packet) \/ DropTun(packet)
    \/ \E c \in Clients :
           \/ StartHandshake(c)
           \/ \E m \in net : FinishHandshake(c, m)
           \/ \E packet \in Packets : SendPacket(c, packet)
           \/ Move(c)
    \/ Tick

Spec == Init /\ [][Next]_vars
-----------------------------------------------------------------------------
\* A packet a client sent reaches the TUN device at most once, however often
\* and late its datagram arrives, also when a rekey has meanwhile moved its
\* session from current to previous.
WrittenOnce ==
    \A i, j \in DOMAIN written :
        i # j => <<written[i].key, written[i].counter>> # <<written[j].key, written[j].counter>>

\* What is written to the TUN device was authenticated with a key of a
\* handshake of one peer, and its source address is covered by the AllowedIPs
\* of that same peer; it is at least an IPv4 header and at most the MTU.
Allows(i, ip) == \E j \in DOMAIN Config[i].texts : Covers(Config[i].texts[j], ip)
FromOwner(w) ==
    /\ \E n \in DOMAIN accepted : w.key = KeyToDaemon(n) /\ accepted[n].peer = w.peer
    /\ Allows(w.peer, w.packet.src)
    /\ w.packet.size \in IPV4_HEADER_LEN..VPN_DEFAULT_INNER_MTU
WrittenFromOwner == \A i \in DOMAIN written : FromOwner(written[i])

\* The daemon encrypts no two packets with the same key and counter, over any
\* sequence of rekeys, oversized packets and failed sends, as long as no
\* counter wraps.
NonceUnique ==
    \A i, j \in DOMAIN emitted :
        LET nonce(k) == <<emitted[k].datagram.cipher[2], emitted[k].datagram.cipher[3]>>
        IN  i # j => nonce(i) # nonce(j)

\* Datagram m is sealed by peer i: with its static key, or with the key of a
\* handshake the daemon accepted from it.
Sealed(m, i) ==
    \/ m.type = "HANDSHAKE_INIT" /\ m.intact /\ m.static = Config[i].public_key
    \/ /\ m.type \in {"DATA", "KEEPALIVE"}
       /\ \E n \in DOMAIN accepted :
              accepted[n].peer = i /\ Authentic(m.cipher, <<>>, m.counter, KeyToDaemon(n))
HeardFrom(i) == {m.from : m \in {o \in net : Sealed(o, i)}}

\* A packet leaves encrypted for the first peer whose AllowedIPs cover its
\* destination: with a key of a handshake of that peer, marked with the index
\* given in it, and to where a datagram sealed by that peer has come from.
Owner(ip) == FirstOf({i \in DOMAIN Config : Allows(i, ip)})
ToOwner(datagram, to, owner) ==
    /\ \E n \in DOMAIN accepted :
           /\ accepted[n].peer = owner
           /\ datagram.cipher[2] = KeyToClient(n)
           /\ datagram.receiver_index = accepted[n].sender_index
    /\ to \in HeardFrom(owner)
EmittedToOwner ==
    \A k \in DOMAIN emitted :
        LET datagram == emitted[k].datagram
        IN  ToOwner(datagram, emitted[k].to, Owner(Plaintext(datagram.cipher).dst))

\* What the daemon knows of peer i, its sending counter aside, and whether datagram
\* m has been taken from it, or no session of it would take m.
SessionNames == {"current_session", "previous_session"}
Known(i) == [table.peers[i] EXCEPT !.current_session.sending_counter = 0]
Spent(m, i) ==
    IF m.type = "HANDSHAKE_INIT"
    THEN Stale(m.sec, table.peers[i].last_handshake_time)
    ELSE \A name \in SessionNames :
             LET session == table.peers[i][name]
             IN  Established(session) /\ Authentic(m.cipher, <<>>, m.counter, session.recv_key)
                     => ~replay_check(session.replay_filter, m.counter)

\* A peer's endpoint, sessions, replay filters and handshake time change only
\* with a datagram sealed by that peer that is spent with this very step, and the
\* endpoint becomes its source; what was spent stays so, through rekeys and moves.
\* A datagram that fails a test, or comes again from elsewhere, changes nothing.
TakesOnce(i) ==
    /\ \E m \in net :
           /\ Sealed(m, i) /\ ~Spent(m, i) /\ Spent(m, i)'
           /\ table'.peers[i].endpoint = m.from
    /\ \A m \in net : m.type # "HANDSHAKE_RESP" /\ Spent(m, i) => Spent(m, i)'
OnlyFreshSealMoves ==
    [][\A i \in DOMAIN Config : Known(i)' # Known(i) => TakesOnce(i)]_vars

\* A client whose latest response was lost keeps a working session: the one it
\* has established is found by its index, with its key, until the daemon has
\* accepted two newer handshakes of that client.
SurvivesLostResponse ==
    \A i \in DOMAIN Config :
        LET mine == client[Config[i].public_key].session
            newer == {n \in DOMAIN accepted : n > mine.number /\ accepted[n].peer = i}
            found == peer_find_by_index(table, mine.peer_index)
        IN  mine.number # 0 /\ (\A m, n \in newer : m = n)
                => found.peer = i /\ Session(found).recv_key = KeyToDaemon(mine.number)

(* What the proofs need besides. *)

\* The handshake whose keys a session has, and the index of handshake n.
Number(session) == session.recv_key[2]
Index(n) == n % INDEX_MOD

PublicKey(i) == Config[i].public_key

Keys == {ZeroKey} \cup ({"to client", "to daemon"} \X Nat)
Endpoints == Locations \cup {NoEndpoint, Stranger}
Ciphers(tags) == tags \X Keys \X Counters \X {<<>>} \X Packets
Sessions ==
    [state : {"NONE", "ESTABLISHED"}, local_index : Nat, peer_index : Nat,
     send_key : Keys, recv_key : Keys, sending_counter : Counters,
     replay_filter : Filters, established_time : Nat]
\* What peer i may be: its key and AllowedIPs are those of the configuration.
PeerStates(i) ==
    [public_key : {PublicKey(i)}, endpoint : Endpoints,
     allowed_ips : {[j \in DOMAIN Config[i].texts |-> vpn_cidr_parse(Config[i].texts[j])]},
     current_session : Sessions, previous_session : Sessions, last_handshake_time : Nat]
ClientStates ==
    [location : Locations, initiation : Nat,
     session : [number : Nat, peer_index : Nat, counter : Counters]]
Initiations ==
    [type : {"HANDSHAKE_INIT"}, length : Nat, from : Endpoints, static : Clients,
     sender_index : Nat, id : Nat, sec : Nat, intact : BOOLEAN]
Responses ==
    [type : {"HANDSHAKE_RESP"}, length : Nat, sender_index : Nat, receiver_index : Nat,
     initiation : Nat, number : Nat]
DataDatagrams ==
    [type : {"DATA", "KEEPALIVE", "INVALID"}, length : Nat, from : Endpoints,
     receiver_index : Nat, counter : Nat, cipher : Ciphers({"aead", "damaged"})]
SentDatagrams ==
    [type : {"DATA", "KEEPALIVE"}, length : Nat, receiver_index : Nat,
     counter : Counters, cipher : Ciphers({"aead"})]

TypeOK ==
    /\ DOMAIN table = {"peers", "next_local_index"}
    /\ DOMAIN table.peers = DOMAIN Config
    /\ \A i \in DOMAIN Config : table.peers[i] \in PeerStates(i)
    /\ table.next_local_index = Index(Len(accepted) + 1)
    /\ clock \in Nat \ {0}
    /\ net \subseteq Initiations \cup Responses \cup DataDatagrams
    /\ client \in [Clients -> ClientStates]
    /\ accepted \in Seq([peer : DOMAIN Config, sender_index : Nat])
    /\ written \in Seq([peer : DOMAIN Config, key : Keys, counter : Counters,
                        packet : Packets, age : Int])
    /\ emitted \in Seq([to : Endpoints, datagram : SentDatagrams])
    /\ used \in [initiations : Nat, sends : Nat, reads : 0..MAX_READS, moves : Nat,
                 damages : Nat]

\* Session s of peer i is that of a handshake the daemon accepted from i.
Live(i, s) ==
    Established(s) =>
        /\ Number(s) \in DOMAIN accepted /\ accepted[Number(s)].peer = i
        /\ s.recv_key = KeyToDaemon(Number(s)) /\ s.send_key = KeyToClient(Number(s))
        /\ s.local_index = Index(Number(s))
        /\ s.peer_index = accepted[Number(s)].sender_index

\* The two sessions of a peer are those of its two latest handshakes.
LatestTwo(current, previous, n) ==
    /\ Established(current) /\ n <= Number(current)
    /\ n # Number(current) => Established(previous) /\ n <= Number(previous)
PeerLive(i, current, previous) ==
    /\ Live(i, current) /\ Live(i, previous)
    /\ Established(previous) => Established(current) /\ Number(previous) < Number(current)
    /\ \A n \in DOMAIN accepted : accepted[n].peer = i => LatestTwo(current, previous, n)
SessionsLive ==
    \A i \in DOMAIN Config :
        PeerLive(i, table.peers[i].current_session, table.peers[i].previous_session)

\* The replay filter of a session has seen all that was written with its key.
Remembers(s) ==
    Established(s) =>
        \E seen \in SUBSET Counters :
            /\ RecentPast(s.replay_filter, seen)
            /\ \A k \in DOMAIN written :
                   written[k].key = s.recv_key => written[k].counter \in seen
FiltersRemember ==
    \A i \in DOMAIN Config :
        /\ Remembers(table.peers[i].current_session)
        /\ Remembers(table.peers[i].previous_session)

\* The counter of a session is above all that was sent with its key.
Ahead(s) ==
    /\ s.sending_counter <= used.reads
    /\ Established(s) =>
           \A k \in DOMAIN emitted :
               emitted[k].datagram.cipher[2] = s.send_key =>
                   emitted[k].datagram.cipher[3] < s.sending_counter
CountersAhead == \A i \in DOMAIN Config : Ahead(table.peers[i].current_session)

\* A peer with a session has been heard from.
PeersReached ==
    \A i \in DOMAIN Config :
        Established(table.peers[i].current_session) =>
            table.peers[i].endpoint \in HeardFrom(i)

\* An initiation was made in the past, and has a number of its own.
HonestInitiation(m) == m.id \in 1..used.initiations /\ m.sec <= clock
InitiationsHonest ==
    /\ \A m \in net \cap Initiations : HonestInitiation(m)
    /\ \A m, o \in net \cap Initiations : m.id = o.id => m.static = o.static

MadeBy(c, id) == \E o \in net \cap Initiations : o.id = id /\ o.static = c

\* A response is that of a handshake its initiator started.
HonestResponse(m) ==
    /\ m.number \in DOMAIN accepted
    /\ m.sender_index = Index(m.number)
    /\ MadeBy(PublicKey(accepted[m.number].peer), m.initiation)
ResponsesHonest == \A m \in net \cap Responses : HonestResponse(m)

\* Data that authenticates was encrypted by the client of some handshake.
HonestData(m) ==
    LET n == m.cipher[2][2]
    IN  m.cipher[1] = "aead" => m.cipher[2] = KeyToDaemon(n) /\ n \in DOMAIN accepted
DataHonest == \A m \in net \cap DataDatagrams : HonestData(m)

\* A client waits for an initiation of its own, and has the session of one of its
\* handshakes.
ClientsHonest ==
    \A c \in Clients :
        /\ client[c].initiation # 0 => MadeBy(c, client[c].initiation)
        /\ client[c].session.number # 0 =>
               LET n == client[c].session.number
               IN  /\ n \in DOMAIN accepted /\ PublicKey(accepted[n].peer) = c
                   /\ client[c].session.peer_index = Index(n)

IInv ==
    /\ TypeOK /\ SessionsLive /\ FiltersRemember /\ CountersAhead /\ PeersReached
    /\ InitiationsHonest /\ ResponsesHonest /\ DataHonest /\ ClientsHonest
    /\ WrittenOnce /\ WrittenFromOwner /\ NonceUnique /\ EmittedToOwner
-----------------------------------------------------------------------------
\* VPN_REJECT_AFTER_TIME_SEC: a session older than 180 seconds delivers nothing.
RejectedAfterTime == \A i \in DOMAIN written : written[i].age <= 180
=============================================================================
