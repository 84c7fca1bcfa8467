------------------------------ MODULE PeerTable ------------------------------
(***************************************************************************)
(* The operations of peer.c on the peer table, as functions from the table *)
(* (or the peer) to the new one.  The array of peers and the array of      *)
(* AllowedIPs of a peer are sequences; a peer pointer is a position, and   *)
(* NULL is 0.  Names, log lines and the two time stamps that nothing sets  *)
(* are left out.                                                           *)
(***************************************************************************)
EXTENDS Replay, Routing, Sequences

CONSTANTS
    MAX_PEERS,      \* VPN_MAX_PEERS (256)
    MAX_CIDRS,      \* VPN_MAX_CIDRS_PER_PEER (64)
    INDEX_MOD       \* local indices are counted modulo this (2^32)

ASSUME TableAssumption ==
    /\ MAX_PEERS \in Nat
    /\ MAX_CIDRS \in Nat
    /\ INDEX_MOD \in Nat \ {0, 1}

NULL == 0
Indices == 0..(INDEX_MOD - 1)
NoEndpoint == "none"
ZeroKey == <<"zero">>

\* What memset leaves of a session: SESSION_STATE_NONE is 0.
NoSession ==
    [state |-> "NONE", local_index |-> 0, peer_index |-> 0,
     send_key |-> ZeroKey, recv_key |-> ZeroKey,
     sending_counter |-> 0, replay_filter |-> replay_init, established_time |-> 0]

Established(session) == session.state = "ESTABLISHED"

peer_table_init == [peers |-> <<>>, next_local_index |-> 1]

\* The first position of a table's array for which a loop's test holds.
FirstOf(positions) ==
    LET first == {i \in positions : \A j \in positions : i <= j}
    IN  IF first = {} THEN NULL ELSE CHOOSE i \in first : TRUE
-----------------------------------------------------------------------------
(* Peers and their AllowedIPs. *)

peer_find_by_pubkey(table, public_key) ==
    FirstOf({i \in DOMAIN table.peers : table.peers[i].public_key = public_key})

CanAddPeer_NoDuplicateTest(table, public_key) == Len(table.peers) < MAX_PEERS
CanAddPeer(table, public_key) ==
    /\ Len(table.peers) < MAX_PEERS
    /\ peer_find_by_pubkey(table, public_key) = NULL

\* The table after peer_add, which is the same one when it returns NULL.
peer_add(table, public_key, endpoint) ==
    IF CanAddPeer(table, public_key)
    THEN [table EXCEPT !.peers = Append(@,
             [public_key |-> public_key, endpoint |-> endpoint, allowed_ips |-> <<>>,
              current_session |-> NoSession, previous_session |-> NoSession,
              last_handshake_time |-> 0])]
    ELSE table

CanAddAllowedIp(peer, text) ==
    Len(peer.allowed_ips) < MAX_CIDRS /\ ~CidrError(text)

peer_add_allowed_ip(peer, text) ==
    IF CanAddAllowedIp(peer, text)
    THEN [peer EXCEPT !.allowed_ips = Append(@, vpn_cidr_parse(text))]
    ELSE peer

peer_allows_source_ip(peer, src_ip) ==
    \E i \in DOMAIN peer.allowed_ips : vpn_cidr_match(peer.allowed_ips[i], src_ip)

\* First matching peer in definition order.
peer_find_by_dest_ip_LastMatch(table, dest_ip) ==
    LET matches == {i \in DOMAIN table.peers : peer_allows_source_ip(table.peers[i], dest_ip)}
    IN  IF matches = {} THEN NULL ELSE CHOOSE i \in matches : \A j \in matches : j <= i
peer_find_by_dest_ip(table, dest_ip) ==
    FirstOf({i \in DOMAIN table.peers : peer_allows_source_ip(table.peers[i], dest_ip)})
-----------------------------------------------------------------------------
(* Sessions. *)

Owns(session, index) == Established(session) /\ session.local_index = index

peer_find_by_index_CurrentOnly(table, receiver_index) ==
    LET i == FirstOf({j \in DOMAIN table.peers :
                        Owns(table.peers[j].current_session, receiver_index)})
    IN  IF i = NULL
        THEN [peer |-> NULL, session |-> "none"]
        ELSE [peer |-> i, session |-> "current_session"]

\* The position of the peer, and which of its sessions *out_session points at.
peer_find_by_index(table, receiver_index) ==
    LET i == FirstOf({j \in DOMAIN table.peers :
                        \/ Owns(table.peers[j].current_session, receiver_index)
                        \/ Owns(table.peers[j].previous_session, receiver_index)})
    IN  IF receiver_index = 0 \/ i = NULL
        THEN [peer |-> NULL, session |-> "none"]
        ELSE [peer |-> i,
              session |-> IF Owns(table.peers[i].current_session, receiver_index)
                          THEN "current_session"
                          ELSE "previous_session"]

peer_destroy_session_KeysLeft(session) == [session EXCEPT !.state = "NONE"]
peer_destroy_session(session) ==
    IF session.state # "NONE" THEN NoSession ELSE session

\* The session a rekey retires: the old current one, with its replay filter.
Retired_NotKept(peer) == NoSession
Retired_FilterReset(peer) ==
    IF Established(peer.current_session)
    THEN [peer.current_session EXCEPT !.replay_filter = replay_init]
    ELSE peer.previous_session
Retired(peer) ==
    IF Established(peer.current_session)
    THEN peer.current_session
    ELSE peer.previous_session

peer_init_session(peer, local_idx, peer_idx, send_key, recv_key, now) ==
    [peer EXCEPT
        !.previous_session = Retired(peer),
        !.current_session = [NoSession EXCEPT
            !.state = "ESTABLISHED",
            !.local_index = local_idx, !.peer_index = peer_idx,
            !.send_key = send_key, !.recv_key = recv_key, !.established_time = now],
        !.last_handshake_time = now]

peer_update_endpoint(peer, new_ep) == [peer EXCEPT !.endpoint = new_ep]

\* peer_table.next_local_index++ of the caller, on an unsigned integer.
NextLocalIndex_Stuck(table) == table
NextLocalIndex(table) ==
    [table EXCEPT !.next_local_index = (@ + 1) % INDEX_MOD]

\* The memset at the end leaves nothing, next_local_index = 0 included.
peer_table_destroy(table) == [peers |-> <<>>, next_local_index |-> 0]
=============================================================================
