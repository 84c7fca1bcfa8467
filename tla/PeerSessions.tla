---------------------------- MODULE PeerSessions ----------------------------
(***************************************************************************)
(* A program that uses the peer table: the calls of main.c (an index and a *)
(* session for every accepted handshake, endpoints that roam, the final    *)
(* destruction) and those the tests make to set a table up and to destroy  *)
(* a session, in any order.                                                *)
(***************************************************************************)
EXTENDS PeerTable

CONSTANTS
    PublicKeys,         \* the public keys the operator may add
    Texts,              \* the AllowedIPs texts of the configuration
    Endpoints,          \* the addresses datagrams come from
    MAX_HANDSHAKES      \* bound on the handshakes accepted

ASSUME UseAssumption ==
    /\ Texts \subseteq CidrTexts
    /\ MAX_HANDSHAKES \in Nat

VARIABLES
    table,              \* the vpn_peer_table_t
    granted,            \* history: the texts added, with the peer's position
    handshakes          \* how many handshakes have been accepted

vars == <<table, granted, handshakes>>

Positions == DOMAIN table.peers
SessionNames == {"current_session", "previous_session"}
InUse == table # peer_table_destroy(table)

Init == table = peer_table_init /\ granted = {} /\ handshakes = 0

AddPeer(key) ==
    /\ InUse
    /\ table' = peer_add(table, key, NoEndpoint)
    /\ UNCHANGED <<granted, handshakes>>

AddAllowedIp(i, text) ==
    /\ table' = [table EXCEPT !.peers[i] = peer_add_allowed_ip(@, text)]
    /\ granted' = IF CanAddAllowedIp(table.peers[i], text)
                  THEN granted \cup {[peer |-> i, text |-> text]}
                  ELSE granted
    /\ UNCHANGED handshakes

\* The handler of an accepted initiation; handshake n has keys of its own.
Establish(i, ep) ==
    LET n == handshakes + 1
        peer == peer_init_session(table.peers[i], table.next_local_index, n,
                                  <<"send", n>>, <<"recv", n>>, n)
    IN  /\ handshakes < MAX_HANDSHAKES
        /\ table' = [NextLocalIndex(table) EXCEPT
                        !.peers[i] = peer_update_endpoint(peer, ep)]
        /\ handshakes' = n
        /\ UNCHANGED granted

Roam(i, ep) ==
    /\ table' = [table EXCEPT !.peers[i] = peer_update_endpoint(@, ep)]
    /\ UNCHANGED <<granted, handshakes>>

DestroySession(i, which) ==
    /\ table' = [table EXCEPT !.peers[i][which] = peer_destroy_session(@)]
    /\ UNCHANGED <<granted, handshakes>>

DestroyTable ==
    /\ table' = peer_table_destroy(table)
    /\ granted' = {}
    /\ UNCHANGED handshakes

InitAgain ==
    /\ ~InUse
    /\ table' = peer_table_init
    /\ UNCHANGED <<granted, handshakes>>

Next ==
    \/ \E key \in PublicKeys : AddPeer(key)
    \/ \E i \in Positions :
           \/ \E text \in Texts : AddAllowedIp(i, text)
           \/ \E ep \in Endpoints : Establish(i, ep) \/ Roam(i, ep)
           \/ \E which \in SessionNames : DestroySession(i, which)
    \/ DestroyTable
    \/ InitAgain

Spec == Init /\ [][Next]_vars
-----------------------------------------------------------------------------
Sessions ==
    [state : {"NONE", "ESTABLISHED"}, local_index : Indices, peer_index : Nat,
     send_key : {ZeroKey} \cup ({"send"} \X Nat), recv_key : {ZeroKey} \cup ({"recv"} \X Nat),
     sending_counter : Counters, replay_filter : Filters, established_time : Nat]

Peers ==
    [public_key : PublicKeys, endpoint : Endpoints \cup {NoEndpoint},
     allowed_ips : Seq(Cidrs), current_session : Sessions, previous_session : Sessions,
     last_handshake_time : Nat]

\* The table keeps its types and its two capacities.
TypeOK ==
    /\ table \in [peers : Seq(Peers), next_local_index : Indices]
    /\ Len(table.peers) <= MAX_PEERS
    /\ \A i \in Positions : Len(table.peers[i].allowed_ips) <= MAX_CIDRS
    /\ \A g \in granted : g.peer \in Positions /\ g.text \in Texts
    /\ handshakes \in 0..MAX_HANDSHAKES

\* The places of the table that hold an established session.
Live == {p \in Positions \X SessionNames : Established(table.peers[p[1]][p[2]])}

\* While the index counter has not wrapped, peer_find_by_index answers every
\* live session's local_index with that very session: no live session is
\* unreachable or hidden by another one, after any sequence of rekeys.
IndexFindsItsSession ==
    \A p \in Live :
        peer_find_by_index(table, table.peers[p[1]][p[2]].local_index)
            = [peer |-> p[1], session |-> p[2]]

\* An index never comes to mean another peer: in every step peer_find_by_index
\* answers it as before or with NULL, and only the index that the counter is
\* about to hand out can turn from NULL into a peer.
IndexKeepsItsPeer ==
    [][\A index \in Indices :
           LET before == peer_find_by_index(table, index).peer
               after == peer_find_by_index(table, index)'.peer
           IN  \/ after \in {before, NULL}
               \/ before = NULL /\ index = table.next_local_index]_vars

\* A public key identifies one peer: peer_find_by_pubkey, which finds the
\* first, finds the only one.
PublicKeyFindsItsPeer ==
    \A i \in Positions : peer_find_by_pubkey(table, table.peers[i].public_key) = i

\* Outbound routing follows the configured texts: a destination goes to the
\* first peer one of whose prefixes covers it, bit by bit, and nowhere when
\* none does; the source check of a peer accepts exactly what its own texts
\* cover.
RoutesFollowTexts ==
    \A ip \in Addresses :
        LET owners == {g.peer : g \in {h \in granted : Covers(h.text, ip)}}
        IN  /\ peer_find_by_dest_ip(table, ip) = FirstOf(owners)
            /\ \A i \in Positions :
                   peer_allows_source_ip(table.peers[i], ip) <=> i \in owners

\* Key material lives only in established sessions, each key in one place: a
\* rekey moves a session, and its destruction leaves no key behind.
KeysOnlyInLiveSessions ==
    LET session(p) == table.peers[p[1]][p[2]]
        places == Positions \X SessionNames
    IN  /\ \A p \in places : p \notin Live => session(p) = NoSession
        /\ \A p, q \in Live :
               p # q => /\ session(p).send_key # session(q).send_key
                        /\ session(p).recv_key # session(q).recv_key

(* What the proofs need besides. *)

\* One above the largest index handed out, also when the counter has just wrapped.
Top == IF table.next_local_index = 0 THEN INDEX_MOD ELSE table.next_local_index

\* A session is empty, or numbered in the range so far and keyed by its number.
SessionOK(s, top, n) ==
    IF Established(s)
    THEN /\ s.local_index \in 1..(top - 1)
         /\ s.peer_index \in 1..n
         /\ s.send_key = <<"send", s.peer_index>>
         /\ s.recv_key = <<"recv", s.peer_index>>
    ELSE s = NoSession

Distinct(s, t) ==
    Established(s) /\ Established(t)
        => s.local_index # t.local_index /\ s.peer_index # t.peer_index

SessionsOK(peers, top, n) ==
    /\ \A i \in DOMAIN peers, v \in SessionNames : SessionOK(peers[i][v], top, n)
    /\ \A i, j \in DOMAIN peers, v, w \in SessionNames :
           <<i, v>> # <<j, w>> => Distinct(peers[i][v], peers[j][w])

\* The counter is 0 only in a destroyed table or after the last handshake.
CounterOK ==
    /\ table.next_local_index <= handshakes + 1
    /\ table.next_local_index = 0 => table.peers = <<>> \/ handshakes = MAX_HANDSHAKES

KeysDiffer ==
    \A i, j \in Positions : table.peers[i].public_key = table.peers[j].public_key => i = j

\* The AllowedIPs of a peer are those its texts cover.
GrantsKept ==
    \A i \in Positions, ip \in Addresses :
        peer_allows_source_ip(table.peers[i], ip)
            <=> \E g \in granted : g.peer = i /\ Covers(g.text, ip)

IInv ==
    /\ TypeOK
    /\ CounterOK
    /\ SessionsOK(table.peers, Top, handshakes)
    /\ KeysDiffer
    /\ GrantsKept
-----------------------------------------------------------------------------
\* "0 is reserved as invalid index": no live session has it.
ZeroIsReserved ==
    \A p \in Live : table.peers[p[1]][p[2]].local_index # 0
=============================================================================
