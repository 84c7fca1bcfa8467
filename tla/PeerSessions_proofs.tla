------------------------- MODULE PeerSessions_proofs -------------------------
(***************************************************************************)
(* Proofs about the peer table, for every capacity, address width, set of  *)
(* AllowedIPs texts and number of handshakes up to the one after which the *)
(* index counter would hand out 0.                                         *)
(*                                                                         *)
(* A step changes one peer at most.  ReplacePeer says what the new value   *)
(* must satisfy for the sessions of the table to stay distinct: each of    *)
(* its sessions is one the peer had, or carries the counter's value, which *)
(* is above every index in use.                                            *)
(***************************************************************************)
EXTENDS RoutesCompared, TableLemmas, WellFoundedInduction

\* The sessions of a peer, by name.
LEMMA SessionTypes ==
    ASSUME NEW peer \in Peers, NEW w \in SessionNames
    PROVE  peer[w] \in Sessions
  BY DEF Peers, SessionNames

\* What memset leaves is a session.
LEMMA NoSessionType == NoSession \in Sessions /\ ~Established(NoSession)
<1>1. replay_init \in Filters
  BY SizesAssumption DEF replay_init, Filters, ZeroBitmap, Counters
<1>2. 0 \in Indices /\ 0 \in Counters
  BY TableAssumption, SizesAssumption DEF Indices, Counters
<1>. QED
  BY <1>1, <1>2 DEF NoSession, Sessions, Established, ZeroKey

\* Table u is table t with v for peer i.
Updated(u, t, i, v) ==
    /\ u \in [peers : Seq(Peers), next_local_index : Indices]
    /\ u.next_local_index = t.next_local_index
    /\ Len(u.peers) = Len(t.peers)
    /\ DOMAIN u.peers = DOMAIN t.peers
    /\ u.peers[i] = v
    /\ \A j \in DOMAIN t.peers \ {i} : u.peers[j] = t.peers[j]

\* Replacing one peer of a table.
LEMMA UpdateTable ==
    ASSUME NEW t \in [peers : Seq(Peers), next_local_index : Indices],
           NEW i \in DOMAIN t.peers, NEW v \in Peers
    PROVE  Updated([t EXCEPT !.peers[i] = v], t, i, v)
  BY DEF Updated

\* Adding a peer to a table.
LEMMA AppendTable ==
    ASSUME NEW t \in [peers : Seq(Peers), next_local_index : Indices], NEW v \in Peers
    PROVE  LET u == [t EXCEPT !.peers = Append(t.peers, v)]
           IN  /\ u \in [peers : Seq(Peers), next_local_index : Indices]
               /\ u.next_local_index = t.next_local_index
               /\ u.peers = Append(t.peers, v)
<1>1. Append(t.peers, v) \in Seq(Peers)
  OBVIOUS
<1>. QED
  BY <1>1

\* A session in range stays in range as the counters grow.
LEMMA SessionOKGrows ==
    ASSUME NEW s \in Sessions, NEW top \in Nat, NEW n \in Nat, NEW top2 \in Nat, NEW n2 \in Nat,
           top <= top2, n <= n2, SessionOK(s, top, n)
    PROVE  SessionOK(s, top2, n2)
  BY DEF SessionOK, Sessions, Indices

\* Whether s is a session that the peer had, by index and number.
Kept(peer, s) ==
    \E w \in SessionNames :
        /\ Established(peer[w])
        /\ s.local_index = peer[w].local_index
        /\ s.peer_index = peer[w].peer_index

\* A step hands out no index except the counter's, and never 0: any other session
\* of the new table is one its peer had.
OnlyNewIndices ==
    \A j \in DOMAIN table'.peers, w \in SessionNames :
        Established(table'.peers[j][w])
            => \/ j \in Positions /\ Kept(table.peers[j], table'.peers[j][w])
               \/ /\ table.next_local_index # 0
                  /\ table'.peers[j][w].local_index = table.next_local_index

\* Only peer i changes, and its sessions are kept ones, or numbered above all
\* others.
Replaced(peers, after, i, top, n, top2, n2) ==
    /\ DOMAIN after = DOMAIN peers
    /\ \A j \in DOMAIN peers \ {i} : after[j] = peers[j]
    /\ top <= top2 /\ n <= n2
    /\ \A w \in SessionNames : SessionOK(after[i][w], top2, n2)
    /\ \A w, x \in SessionNames : w # x => Distinct(after[i][w], after[i][x])
    /\ \A w \in SessionNames :
           Established(after[i][w])
               => \/ Kept(peers[i], after[i][w])
                  \/ after[i][w].local_index >= top /\ after[i][w].peer_index > n

\* The sessions of the table then stay distinct and in range.
LEMMA ReplacePeer ==
    ASSUME NEW peers \in Seq(Peers), NEW after \in Seq(Peers), NEW i \in DOMAIN peers,
           NEW top \in Nat, NEW n \in Nat, NEW top2 \in Nat, NEW n2 \in Nat,
           SessionsOK(peers, top, n),
           Replaced(peers, after, i, top, n, top2, n2)
    PROVE  SessionsOK(after, top2, n2)
<1>1. PICK v \in Peers : v = after[i]
  BY DEF Replaced
<1>2. /\ DOMAIN after = DOMAIN peers
      /\ \A j \in DOMAIN peers \ {i} : after[j] = peers[j]
      /\ top <= top2 /\ n <= n2
  BY DEF Replaced
<1>3. /\ \A w \in SessionNames : SessionOK(v[w], top2, n2)
      /\ \A w, x \in SessionNames : w # x => Distinct(v[w], v[x])
      /\ \A w \in SessionNames :
             Established(v[w]) => \/ Kept(peers[i], v[w])
                                  \/ v[w].local_index >= top /\ v[w].peer_index > n
  BY <1>1 DEF Replaced
<1>4. ASSUME NEW j \in DOMAIN after, NEW w \in SessionNames
      PROVE  SessionOK(after[j][w], top2, n2)
  <2>1. CASE j = i
    BY <1>1, <1>3, <2>1
  <2>2. CASE j # i
    <3>1. SessionOK(peers[j][w], top, n) /\ after[j] = peers[j]
      BY <1>2, <2>2 DEF SessionsOK
    <3>2. peers[j][w] \in Sessions
      BY <1>2, SessionTypes
    <3>. QED
      BY <1>2, <3>1, <3>2, SessionOKGrows
  <2>. QED
    BY <2>1, <2>2
<1>5. ASSUME NEW j \in DOMAIN peers \ {i}, NEW w \in SessionNames, NEW x \in SessionNames
      PROVE  Distinct(v[w], peers[j][x]) /\ Distinct(peers[j][x], v[w])
  <2>1. SUFFICES ASSUME Established(v[w]), Established(peers[j][x])
                 PROVE  /\ v[w].local_index # peers[j][x].local_index
                        /\ v[w].peer_index # peers[j][x].peer_index
    BY DEF Distinct
  <2>2. CASE Kept(peers[i], v[w])
    <3>1. PICK y \in SessionNames : /\ Established(peers[i][y])
                                    /\ v[w].local_index = peers[i][y].local_index
                                    /\ v[w].peer_index = peers[i][y].peer_index
      BY <2>2 DEF Kept
    <3>2. Distinct(peers[i][y], peers[j][x])
      BY DEF SessionsOK
    <3>. QED
      BY <2>1, <3>1, <3>2 DEF Distinct
  <2>3. CASE v[w].local_index >= top /\ v[w].peer_index > n
    <3>1. SessionOK(peers[j][x], top, n)
      BY DEF SessionsOK
    <3>2. peers[j][x].local_index \in 1..(top - 1) /\ peers[j][x].peer_index \in 1..n
      BY <2>1, <3>1 DEF SessionOK
    <3>3. v[w] \in Sessions
      BY SessionTypes
    <3>4. v[w].local_index \in Int /\ v[w].peer_index \in Int
      BY <3>3 DEF Sessions, Indices
    <3>. QED
      BY <2>3, <3>2, <3>4
  <2>. QED
    BY <1>3, <2>1, <2>2, <2>3
<1>6. ASSUME NEW j \in DOMAIN after, NEW k \in DOMAIN after,
             NEW w \in SessionNames, NEW x \in SessionNames, <<j, w>> # <<k, x>>
      PROVE  Distinct(after[j][w], after[k][x])
  <2>1. CASE j = i /\ k = i
    BY <1>1, <1>3, <1>6, <2>1
  <2>2. CASE j = i /\ k # i
    BY <1>1, <1>2, <1>5, <2>2
  <2>3. CASE j # i /\ k = i
    BY <1>1, <1>2, <1>5, <2>3
  <2>4. CASE j # i /\ k # i
    BY <1>2, <1>6, <2>4 DEF SessionsOK
  <2>. QED
    BY <2>1, <2>2, <2>3, <2>4
<1>. QED
  BY <1>4, <1>6 DEF SessionsOK
-----------------------------------------------------------------------------
(* One lemma for every action. *)

\* The first of one position is that position.
LEMMA FirstOfOne ==
    ASSUME NEW i \in Nat
    PROVE  FirstOf({i}) = i
  BY DEF FirstOf

\* What a step that replaces peer i by v leaves true of types, keys and grants.
LEMMA ChangePeer ==
    ASSUME IInv, NEW i \in Positions, NEW v \in Peers,
           table' \in [peers : Seq(Peers), next_local_index : Indices],
           Len(table'.peers) = Len(table.peers),
           DOMAIN table'.peers = DOMAIN table.peers,
           table'.peers[i] = v,
           \A j \in DOMAIN table.peers \ {i} : table'.peers[j] = table.peers[j],
           v.public_key = table.peers[i].public_key,
           Len(v.allowed_ips) <= MAX_CIDRS,
           handshakes' \in 0..MAX_HANDSHAKES,
           \A g \in granted' : g.peer \in Positions /\ g.text \in Texts,
           \A g : g.peer # i => (g \in granted' <=> g \in granted),
           \A ip \in Addresses : peer_allows_source_ip(v, ip)
               <=> \E g \in granted' : g.peer = i /\ Covers(g.text, ip)
    PROVE  TypeOK' /\ KeysDiffer' /\ GrantsKept'
<1>1. TypeOK'
  <2>1. \A j \in Positions : Len(table'.peers[j].allowed_ips) <= MAX_CIDRS
    BY DEF IInv, TypeOK, Positions
  <2>. QED
    BY <2>1 DEF IInv, TypeOK, Positions
<1>2. KeysDiffer'
  <2>1. \A j \in Positions : table'.peers[j].public_key = table.peers[j].public_key
    BY DEF Positions
  <2>. QED
    BY <2>1 DEF IInv, KeysDiffer, Positions
<1>3. ASSUME NEW j \in Positions, NEW ip \in Addresses
      PROVE  peer_allows_source_ip(table'.peers[j], ip)
                 <=> \E g \in granted' : g.peer = j /\ Covers(g.text, ip)
  <2>1. CASE j = i
    BY <2>1
  <2>2. CASE j # i
    <3>1. peer_allows_source_ip(table.peers[j], ip)
              <=> \E g \in granted : g.peer = j /\ Covers(g.text, ip)
      BY DEF IInv, GrantsKept
    <3>2. table'.peers[j] = table.peers[j]
      BY <2>2 DEF Positions
    <3>. QED
      BY <2>2, <3>1, <3>2
  <2>. QED
    BY <2>1, <2>2
<1>. QED
  BY <1>1, <1>2, <1>3 DEF GrantsKept, Positions

\* The same for a step that leaves the counters alone and keeps or empties each
\* of the peer's sessions: it keeps the whole invariant.
LEMMA ChangePeerKeepsIInv ==
    ASSUME IInv, NEW i \in Positions, NEW v \in Peers,
           table' = [table EXCEPT !.peers[i] = v],
           v.public_key = table.peers[i].public_key,
           Len(v.allowed_ips) <= MAX_CIDRS,
           \A w \in SessionNames : v[w] = table.peers[i][w] \/ v[w] = NoSession,
           UNCHANGED handshakes,
           \A g \in granted' : g.peer \in Positions /\ g.text \in Texts,
           \A g : g.peer # i => (g \in granted' <=> g \in granted),
           \A ip \in Addresses : peer_allows_source_ip(v, ip)
               <=> \E g \in granted' : g.peer = i /\ Covers(g.text, ip)
    PROVE  IInv' /\ OnlyNewIndices
<1>1. /\ table \in [peers : Seq(Peers), next_local_index : Indices]
      /\ handshakes \in 0..MAX_HANDSHAKES /\ handshakes \in Nat
  BY UseAssumption DEF IInv, TypeOK
<1>2. /\ table' \in [peers : Seq(Peers), next_local_index : Indices]
      /\ table'.next_local_index = table.next_local_index
      /\ Len(table'.peers) = Len(table.peers)
      /\ DOMAIN table'.peers = DOMAIN table.peers
      /\ table'.peers[i] = v
      /\ \A j \in DOMAIN table.peers \ {i} : table'.peers[j] = table.peers[j]
  <2>1. Updated(table', table, i, v)
    BY <1>1, UpdateTable DEF Positions
  <2>. QED
    BY <2>1 DEF Updated
<1>3. TypeOK' /\ KeysDiffer' /\ GrantsKept'
  BY <1>1, <1>2, ChangePeer, Zenon
<1>4. CounterOK'
  <2>1. table.peers # <<>> /\ table'.next_local_index <= handshakes + 1
    BY <1>1, <1>2 DEF IInv, CounterOK, Positions
  <2>. QED
    BY <1>2, <2>1 DEF IInv, CounterOK
<1>5. SessionsOK(table'.peers, Top, handshakes)
  <2>1. Top \in Nat
    BY <1>1, TableAssumption DEF Top, Indices
  <2>2. SessionsOK(table.peers, Top, handshakes)
    BY DEF IInv
  <2>3. \A w \in SessionNames : SessionOK(v[w], Top, handshakes)
    BY <2>2, NoSessionType DEF SessionsOK, SessionOK, Positions
  <2>4. \A w, x \in SessionNames : w # x => Distinct(v[w], v[x])
    <3>1. \A w, x \in SessionNames :
              w # x => Distinct(table.peers[i][w], table.peers[i][x])
      BY <2>2 DEF SessionsOK, Positions
    <3>. QED
      BY <3>1, NoSessionType DEF Distinct
  <2>5. \A w \in SessionNames : Established(v[w]) => Kept(table.peers[i], v[w])
    BY NoSessionType DEF Kept
  <2>6. /\ table.peers \in Seq(Peers) /\ table'.peers \in Seq(Peers)
        /\ i \in DOMAIN table.peers
        /\ Top <= Top /\ handshakes <= handshakes
    BY <1>1, <1>2, <2>1 DEF Positions
  <2>7. Replaced(table.peers, table'.peers, i, Top, handshakes, Top, handshakes)
    BY <1>2, <2>3, <2>4, <2>5, <2>6 DEF Replaced
  <2>. QED
    BY <1>1, <2>1, <2>2, <2>6, <2>7, ReplacePeer
<1>6. Top' = Top
  BY <1>2 DEF Top
<1>7. OnlyNewIndices
  <2>1. \A w \in SessionNames : Established(v[w]) => Kept(table.peers[i], v[w])
    BY NoSessionType DEF Kept
  <2>2. \A j \in Positions, w \in SessionNames :
            Established(table.peers[j][w]) => Kept(table.peers[j], table.peers[j][w])
    BY DEF Kept
  <2>. QED
    BY <1>2, <2>1, <2>2 DEF OnlyNewIndices, Positions
<1>. QED
  BY <1>3, <1>4, <1>5, <1>6, <1>7 DEF IInv

\* A text that is taken adds what it covers to a peer's AllowedIPs.
LEMMA AddAllowedIpAllows ==
    ASSUME NEW peer \in Peers, NEW text \in CidrTexts, CanAddAllowedIp(peer, text)
    PROVE  LET v == peer_add_allowed_ip(peer, text)
           IN  /\ v \in Peers
               /\ Len(v.allowed_ips) = Len(peer.allowed_ips) + 1
               /\ v.public_key = peer.public_key
               /\ \A w \in SessionNames : v[w] = peer[w]
               /\ \A ip \in Addresses :
                      peer_allows_source_ip(v, ip)
                          <=> peer_allows_source_ip(peer, ip) \/ Covers(text, ip)
<1> DEFINE c == vpn_cidr_parse(text)
           v == [peer EXCEPT !.allowed_ips = Append(peer.allowed_ips, c)]
<1>1. c \in Cidrs /\ \A ip \in Addresses : vpn_cidr_match(c, ip) <=> Covers(text, ip)
  BY CidrType, MatchIsCover DEF CanAddAllowedIp
<1>2. peer_add_allowed_ip(peer, text) = v
  BY DEF peer_add_allowed_ip
<1> HIDE DEF c
<1>3. v \in Peers /\ v.allowed_ips = Append(peer.allowed_ips, c)
  <2>1. Append(peer.allowed_ips, c) \in Seq(Cidrs)
    BY <1>1 DEF Peers
  <2>. QED
    BY <2>1 DEF Peers
<1>4. /\ Len(v.allowed_ips) = Len(peer.allowed_ips) + 1
      /\ v.public_key = peer.public_key
      /\ \A w \in SessionNames : v[w] = peer[w]
  BY <1>1, <1>3 DEF Peers, SessionNames
<1>5. ASSUME NEW ip \in Addresses
      PROVE  peer_allows_source_ip(v, ip)
                 <=> peer_allows_source_ip(peer, ip) \/ Covers(text, ip)
  <2>1. peer.allowed_ips \in Seq(Cidrs)
    BY DEF Peers
  <2>2. /\ DOMAIN v.allowed_ips = DOMAIN peer.allowed_ips \cup {Len(peer.allowed_ips) + 1}
        /\ \A k \in DOMAIN peer.allowed_ips : v.allowed_ips[k] = peer.allowed_ips[k]
        /\ v.allowed_ips[Len(peer.allowed_ips) + 1] = c
    BY <1>1, <1>3, <2>1
  <2> HIDE DEF v
  <2>. QED
    BY <1>1, <2>2 DEF peer_allows_source_ip
<1>. QED
  BY <1>2, <1>3, <1>4, <1>5

\* What the invariant says of one peer.
LEMMA PeerFacts ==
    ASSUME IInv, NEW i \in Positions
    PROVE  /\ table.peers[i] \in Peers
           /\ Len(table.peers[i].allowed_ips) <= MAX_CIDRS
           /\ Len(table.peers[i].allowed_ips) \in Nat
           /\ \A g \in granted : g.peer \in Positions /\ g.text \in Texts
           /\ \A ip \in Addresses : peer_allows_source_ip(table.peers[i], ip)
                  <=> \E g \in granted : g.peer = i /\ Covers(g.text, ip)
<1>1. table.peers[i] \in Peers
  BY DEF IInv, TypeOK, Positions
<1>2. Len(table.peers[i].allowed_ips) \in Nat
  BY <1>1 DEF Peers
<1>3. Len(table.peers[i].allowed_ips) <= MAX_CIDRS
  BY DEF IInv, TypeOK
<1>4. \A g \in granted : g.peer \in Positions /\ g.text \in Texts
  BY DEF IInv, TypeOK
<1>5. \A ip \in Addresses : peer_allows_source_ip(table.peers[i], ip)
          <=> \E g \in granted : g.peer = i /\ Covers(g.text, ip)
  BY DEF IInv, GrantsKept
<1>. QED
  BY <1>1, <1>2, <1>3, <1>4, <1>5

\* peer_add_allowed_ip keeps the invariant, whether it takes the text or not.
LEMMA AddAllowedIpKeepsIInv ==
    ASSUME IInv, NEW i \in Positions, NEW text \in Texts, AddAllowedIp(i, text)
    PROVE  IInv' /\ OnlyNewIndices
<1> DEFINE peer == table.peers[i]
           v == peer_add_allowed_ip(peer, text)
<1>1. /\ peer \in Peers /\ text \in CidrTexts /\ Len(peer.allowed_ips) <= MAX_CIDRS
      /\ Len(peer.allowed_ips) \in Nat
      /\ \A g \in granted : g.peer \in Positions /\ g.text \in Texts
      /\ \A ip \in Addresses : peer_allows_source_ip(peer, ip)
             <=> \E g \in granted : g.peer = i /\ Covers(g.text, ip)
  BY PeerFacts, UseAssumption
<1>2. table' = [table EXCEPT !.peers[i] = v] /\ UNCHANGED handshakes
  BY DEF AddAllowedIp
<1>3. CASE CanAddAllowedIp(peer, text)
  <2>1. granted' = granted \cup {[peer |-> i, text |-> text]}
    BY <1>3 DEF AddAllowedIp
  <2>2. /\ v \in Peers
        /\ Len(v.allowed_ips) = Len(peer.allowed_ips) + 1
        /\ v.public_key = peer.public_key
        /\ \A w \in SessionNames : v[w] = peer[w]
        /\ \A ip \in Addresses :
               peer_allows_source_ip(v, ip)
                   <=> peer_allows_source_ip(peer, ip) \/ Covers(text, ip)
    BY <1>1, <1>3, AddAllowedIpAllows
  <2>3. Len(v.allowed_ips) <= MAX_CIDRS
    BY <1>1, <1>3, <2>2, TableAssumption DEF CanAddAllowedIp
  <2> HIDE DEF v
  <2>4. \A ip \in Addresses : peer_allows_source_ip(v, ip)
            <=> \E g \in granted' : g.peer = i /\ Covers(g.text, ip)
    <3>1. ASSUME NEW ip \in Addresses
          PROVE  (\E g \in granted' : g.peer = i /\ Covers(g.text, ip))
                     <=> (\E g \in granted : g.peer = i /\ Covers(g.text, ip)) \/ Covers(text, ip)
      <4> DEFINE g0 == [peer |-> i, text |-> text]
      <4>1. g0.peer = i /\ g0.text = text /\ granted' = granted \cup {g0}
        BY <2>1
      <4> HIDE DEF g0
      <4>2. \A g : g \in granted' <=> g \in granted \/ g = g0
        BY <4>1
      <4>3. ASSUME NEW g \in granted', g.peer = i, Covers(g.text, ip)
            PROVE  (\E h \in granted : h.peer = i /\ Covers(h.text, ip)) \/ Covers(text, ip)
        BY <4>1, <4>2, <4>3
      <4>4. Covers(text, ip) => Covers(g0.text, ip)
        BY <4>1
      <4>. QED
        BY <4>1, <4>2, <4>3, <4>4
    <3>2. ASSUME NEW ip \in Addresses
          PROVE  peer_allows_source_ip(v, ip)
                     <=> (\E g \in granted : g.peer = i /\ Covers(g.text, ip)) \/ Covers(text, ip)
      BY <1>1, <2>2
    <3>. QED
      BY <3>1, <3>2
  <2>5. /\ \A g \in granted' : g.peer \in Positions /\ g.text \in Texts
        /\ \A g : g.peer # i => (g \in granted' <=> g \in granted)
    BY <1>1, <2>1
  <2>. QED
    BY <1>2, <2>2, <2>3, <2>4, <2>5, ChangePeerKeepsIInv
<1>4. CASE ~CanAddAllowedIp(peer, text)
  <2>1. v = peer /\ granted' = granted
    BY <1>4 DEF AddAllowedIp, peer_add_allowed_ip
  <2> HIDE DEF v
  <2>. QED
    BY <1>1, <1>2, <2>1, ChangePeerKeepsIInv
<1>. QED
  BY <1>3, <1>4

\* A new endpoint touches nothing else of a peer.
LEMMA RoamKeepsIInv ==
    ASSUME IInv, NEW i \in Positions, NEW ep \in Endpoints, Roam(i, ep)
    PROVE  IInv' /\ OnlyNewIndices
<1> DEFINE peer == table.peers[i]
           v == [peer EXCEPT !.endpoint = ep]
<1>1. peer \in Peers
  BY PeerFacts
<1>2. /\ table' = [table EXCEPT !.peers[i] = v]
      /\ UNCHANGED <<granted, handshakes>>
  BY DEF Roam, peer_update_endpoint
<1>3. /\ v \in Peers
      /\ v.public_key = peer.public_key
      /\ v.allowed_ips = peer.allowed_ips
      /\ \A w \in SessionNames : v[w] = peer[w]
  BY <1>1 DEF Peers, SessionNames
<1> HIDE DEF v
<1>4. \A ip \in Addresses : peer_allows_source_ip(v, ip) <=> peer_allows_source_ip(peer, ip)
  BY <1>3 DEF peer_allows_source_ip
<1>. QED
  BY <1>2, <1>3, <1>4, PeerFacts, ChangePeerKeepsIInv

\* Destroying a session leaves it empty, or as empty as it was.
LEMMA DestroySessionKeepsIInv ==
    ASSUME IInv, NEW i \in Positions, NEW which \in SessionNames, DestroySession(i, which)
    PROVE  IInv' /\ OnlyNewIndices
<1> DEFINE peer == table.peers[i]
           s == peer_destroy_session(peer[which])
           v == [peer EXCEPT ![which] = s]
<1>1. peer \in Peers /\ peer[which] \in Sessions
  BY PeerFacts, SessionTypes
<1>2. s = NoSession \/ s = peer[which]
  BY DEF peer_destroy_session
<1>3. s \in Sessions
  BY <1>1, <1>2, NoSessionType
<1>4. /\ table' = [table EXCEPT !.peers[i] = v]
      /\ UNCHANGED <<granted, handshakes>>
  BY DEF DestroySession, IInv, TypeOK, Positions
<1> HIDE DEF s
<1>5. /\ v \in Peers
      /\ v.public_key = peer.public_key
      /\ v.allowed_ips = peer.allowed_ips
      /\ v[which] = s
      /\ \A w \in SessionNames \ {which} : v[w] = peer[w]
  BY <1>1, <1>3 DEF Peers, SessionNames
<1> HIDE DEF v
<1>6. \A ip \in Addresses : peer_allows_source_ip(v, ip) <=> peer_allows_source_ip(peer, ip)
  BY <1>5 DEF peer_allows_source_ip
<1>7. \A w \in SessionNames : v[w] = peer[w] \/ v[w] = NoSession
  BY <1>2, <1>5
<1>. QED
  BY <1>4, <1>5, <1>6, <1>7, PeerFacts, ChangePeerKeepsIInv

\* The unsigned increment, below the modulus and at it.
LEMMA Increment ==
    ASSUME NEW m \in Nat \ {0, 1}, NEW k \in Nat
    PROVE  /\ k + 1 < m => (k + 1) % m = k + 1
           /\ k + 1 = m => (k + 1) % m = 0
  OBVIOUS

\* The peer after handshake n.
AfterHandshake(peer, idx, n, ep) ==
    peer_update_endpoint(
        peer_init_session(peer, idx, n, <<"send", n>>, <<"recv", n>>, n), ep)

\* The session a handshake starts, field by field.
LEMMA NewSession ==
    ASSUME NEW peer \in Peers, NEW idx \in Indices, NEW n \in Nat, NEW ep \in Endpoints
    PROVE  LET v == AfterHandshake(peer, idx, n, ep)
           IN  /\ v \in Peers
               /\ v.public_key = peer.public_key
               /\ v.allowed_ips = peer.allowed_ips
               /\ v.previous_session = Retired(peer)
               /\ Established(v.current_session)
               /\ v.current_session.local_index = idx
               /\ v.current_session.peer_index = n
               /\ v.current_session.send_key = <<"send", n>>
               /\ v.current_session.recv_key = <<"recv", n>>
<1> DEFINE new == [NoSession EXCEPT !.state = "ESTABLISHED", !.local_index = idx,
                      !.peer_index = n, !.send_key = <<"send", n>>,
                      !.recv_key = <<"recv", n>>, !.established_time = n]
           v == [[peer EXCEPT !.previous_session = Retired(peer),
                              !.current_session = new,
                              !.last_handshake_time = n]
                    EXCEPT !.endpoint = ep]
<1>1. /\ new \in Sessions
      /\ Established(new)
      /\ new.local_index = idx /\ new.peer_index = n
      /\ new.send_key = <<"send", n>> /\ new.recv_key = <<"recv", n>>
  BY NoSessionType, Zenon DEF Sessions, Established
<1>2. AfterHandshake(peer, idx, n, ep) = v
  BY DEF AfterHandshake, peer_update_endpoint, peer_init_session
<1> HIDE DEF new
<1>3. Retired(peer) \in Sessions
  BY DEF Retired, Peers
<1>4. /\ v \in Peers
      /\ v.public_key = peer.public_key
      /\ v.allowed_ips = peer.allowed_ips
      /\ v.previous_session = Retired(peer)
      /\ v.current_session = new
  BY <1>1, <1>3 DEF Peers
<1>. QED
  BY <1>1, <1>2, <1>4

\* An accepted handshake keeps the invariant: its index is above all in use, as
\* long as the counter has not wrapped.
LEMMA EstablishKeepsIInv ==
    ASSUME MAX_HANDSHAKES < INDEX_MOD, IInv,
           NEW i \in Positions, NEW ep \in Endpoints, Establish(i, ep)
    PROVE  IInv' /\ OnlyNewIndices
<1> DEFINE peer == table.peers[i]
           idx == table.next_local_index
           n == handshakes + 1
           v == AfterHandshake(peer, idx, n, ep)
           next == NextLocalIndex(table)
<1>1. /\ table \in [peers : Seq(Peers), next_local_index : Indices]
      /\ idx \in Indices /\ idx \in Nat /\ handshakes \in Nat /\ n \in Nat
      /\ handshakes < MAX_HANDSHAKES /\ MAX_HANDSHAKES \in Nat /\ INDEX_MOD \in Nat \ {0, 1}
      /\ peer \in Peers /\ i \in DOMAIN table.peers
  BY UseAssumption, TableAssumption, PeerFacts
     DEF IInv, TypeOK, Indices, Establish, Positions
<1>2. idx # 0 /\ idx <= handshakes + 1
  <2>1. table.peers # <<>> /\ handshakes # MAX_HANDSHAKES
    BY <1>1
  <2>. QED
    BY <2>1 DEF IInv, CounterOK
<1>3. idx + 1 <= INDEX_MOD
  BY <1>1, <1>2
<1>4. /\ next \in [peers : Seq(Peers), next_local_index : Indices]
      /\ next.peers = table.peers
      /\ next.next_local_index = (idx + 1) % INDEX_MOD
  BY <1>1 DEF NextLocalIndex, Indices
<1>5. table' = [next EXCEPT !.peers[i] = v] /\ handshakes' = n /\ granted' = granted
  <2>1. next.peers[i] = table.peers[i]
    BY <1>4
  <2>. QED
    BY DEF Establish, AfterHandshake
<1>6. /\ v \in Peers
      /\ v.public_key = peer.public_key
      /\ v.allowed_ips = peer.allowed_ips
      /\ v.previous_session = Retired(peer)
      /\ Established(v.current_session)
      /\ v.current_session.local_index = idx
      /\ v.current_session.peer_index = n
      /\ v.current_session.send_key = <<"send", n>>
      /\ v.current_session.recv_key = <<"recv", n>>
  BY <1>1, NewSession
<1> HIDE DEF v, next
<1>7. /\ table' \in [peers : Seq(Peers), next_local_index : Indices]
      /\ table'.next_local_index = (idx + 1) % INDEX_MOD
      /\ Len(table'.peers) = Len(table.peers)
      /\ DOMAIN table'.peers = DOMAIN table.peers
      /\ table'.peers[i] = v
      /\ \A j \in DOMAIN table.peers \ {i} : table'.peers[j] = table.peers[j]
  <2>1. i \in DOMAIN next.peers
    BY <1>1, <1>4
  <2>2. /\ table' \in [peers : Seq(Peers), next_local_index : Indices]
        /\ table'.next_local_index = next.next_local_index
        /\ Len(table'.peers) = Len(next.peers)
        /\ DOMAIN table'.peers = DOMAIN next.peers
        /\ table'.peers[i] = v
        /\ \A j \in DOMAIN next.peers \ {i} : table'.peers[j] = next.peers[j]
    <3>1. Updated(table', next, i, v)
      BY <1>4, <1>5, <1>6, <2>1, UpdateTable
    <3>. QED
      BY <3>1 DEF Updated
  <2>. QED
    BY <1>4, <2>2
<1>8. TypeOK' /\ KeysDiffer' /\ GrantsKept'
  <2>1. \A ip \in Addresses : peer_allows_source_ip(v, ip) <=> peer_allows_source_ip(peer, ip)
    BY <1>6 DEF peer_allows_source_ip
  <2>2. handshakes' \in 0..MAX_HANDSHAKES
    BY <1>1, <1>5
  <2>. QED
    <3>1. /\ Len(v.allowed_ips) <= MAX_CIDRS
          /\ \A g \in granted' : g.peer \in Positions /\ g.text \in Texts
          /\ \A ip \in Addresses : peer_allows_source_ip(v, ip)
                 <=> \E g \in granted' : g.peer = i /\ Covers(g.text, ip)
      BY <1>5, <1>6, <2>1, PeerFacts
    <3>2. \A g : g.peer # i => (g \in granted' <=> g \in granted)
      BY <1>5
    <3>. QED
      BY <1>6, <1>7, <2>2, <3>1, <3>2, ChangePeer, Zenon
<1>9. Top = idx /\ Top' = idx + 1 /\ CounterOK'
  <2>1. CASE idx + 1 = INDEX_MOD
    <3>1. table'.next_local_index = 0
      BY <1>1, <1>7, <2>1, Increment
    <3>2. n = MAX_HANDSHAKES
      BY <1>1, <1>2, <2>1
    <3>. QED
      BY <1>1, <1>2, <1>5, <2>1, <3>1, <3>2 DEF Top, CounterOK
  <2>2. CASE idx + 1 < INDEX_MOD
    <3>1. table'.next_local_index = idx + 1
      BY <1>1, <1>7, <2>2, Increment
    <3>. QED
      BY <1>1, <1>2, <1>5, <2>2, <3>1 DEF Top, CounterOK
  <2>. QED
    BY <1>1, <1>3, <2>1, <2>2
<1>10. \A w \in SessionNames : Established(v[w])
           => \/ Kept(peer, v[w])
              \/ v[w].local_index = idx /\ v[w].peer_index = n
  <2>1. Established(v.previous_session) => Kept(peer, v.previous_session)
    <3>1. \E w \in SessionNames : v.previous_session = peer[w]
      BY <1>6 DEF Retired, SessionNames
    <3>. QED
      BY <3>1 DEF Kept
  <2>. QED
    BY <1>6, <2>1 DEF SessionNames
<1>11. SessionsOK(table'.peers, idx + 1, n)
  <2>1. SessionsOK(table.peers, idx, handshakes)
    BY <1>9 DEF IInv
  <2>2. \A w \in SessionNames : SessionOK(peer[w], idx, handshakes) /\ peer[w] \in Sessions
    BY <1>1, <2>1, SessionTypes DEF SessionsOK
  <2>3. \A w \in SessionNames : SessionOK(peer[w], idx + 1, n)
    BY <1>1, <2>2, SessionOKGrows
  <2>4. SessionOK(v.current_session, idx + 1, n)
    BY <1>1, <1>2, <1>6 DEF SessionOK
  <2>5. SessionOK(v.previous_session, idx + 1, n)
    BY <1>6, <2>3 DEF Retired, SessionNames
  <2>6. Established(v.previous_session)
            => /\ v.previous_session.local_index < idx
               /\ v.previous_session.peer_index < n
    <3>1. SessionOK(v.previous_session, idx, handshakes)
      BY <1>6, <2>2 DEF Retired, SessionNames
    <3>. QED
      BY <1>1, <3>1 DEF SessionOK
  <2>7. Distinct(v.current_session, v.previous_session)
        /\ Distinct(v.previous_session, v.current_session)
    BY <1>1, <1>6, <2>6 DEF Distinct
  <2>8. \A w, x \in SessionNames : w # x => Distinct(v[w], v[x])
    BY <2>7 DEF SessionNames
  <2>9. \A w \in SessionNames : SessionOK(v[w], idx + 1, n)
    BY <2>4, <2>5 DEF SessionNames
  <2>10. \A w \in SessionNames : Established(v[w])
             => \/ Kept(peer, v[w])
                \/ v[w].local_index >= idx /\ v[w].peer_index > handshakes
    <3>1. idx >= idx /\ n > handshakes
      BY <1>1
    <3>. QED
      BY <1>10, <3>1
  <2>11. idx <= idx + 1 /\ handshakes <= n /\ idx + 1 \in Nat
    BY <1>1
  <2>12. Replaced(table.peers, table'.peers, i, idx, handshakes, idx + 1, n)
    BY <1>7, <2>8, <2>9, <2>10, <2>11 DEF Replaced
  <2>13. table.peers \in Seq(Peers) /\ table'.peers \in Seq(Peers)
    BY <1>1, <1>7
  <2>. QED
    BY <1>1, <2>1, <2>11, <2>12, <2>13, ReplacePeer
<1>12. IInv'
  BY <1>5, <1>8, <1>9, <1>11 DEF IInv
<1>13. OnlyNewIndices
  <2>1. \A j \in Positions, w \in SessionNames :
            Established(table.peers[j][w]) => Kept(table.peers[j], table.peers[j][w])
    BY DEF Kept
  <2>. QED
    BY <1>2, <1>7, <1>10, <2>1 DEF OnlyNewIndices, Positions
<1>. QED
  BY <1>12, <1>13

\* peer_add keeps the invariant: the key it appends is not in the table.
LEMMA AddPeerKeepsIInv ==
    ASSUME IInv, NEW key \in PublicKeys, AddPeer(key)
    PROVE  IInv' /\ OnlyNewIndices
<1> DEFINE keeps == \A j \in Positions, w \in SessionNames :
                        Established(table.peers[j][w]) => Kept(table.peers[j], table.peers[j][w])
<1>0. keeps
  BY DEF Kept
<1> HIDE DEF keeps
<1>1. CASE ~CanAddPeer(table, key)
  <2>1. UNCHANGED vars
    BY <1>1 DEF AddPeer, peer_add, vars
  <2>2. IInv'
    BY <2>1 DEF vars, IInv, TypeOK, CounterOK, KeysDiffer, GrantsKept, Positions, Top
  <2>. QED
    BY <1>0, <2>1, <2>2 DEF keeps, vars, OnlyNewIndices, Positions
<1>2. CASE CanAddPeer(table, key)
  <2> DEFINE v == [public_key |-> key, endpoint |-> NoEndpoint, allowed_ips |-> <<>>,
                   current_session |-> NoSession, previous_session |-> NoSession,
                   last_handshake_time |-> 0]
             last == Len(table.peers) + 1
  <2>1. table \in [peers : Seq(Peers), next_local_index : Indices]
    BY DEF IInv, TypeOK
  <2>2. /\ v \in Peers
        /\ v.public_key = key /\ v.allowed_ips = <<>>
        /\ \A w \in SessionNames : v[w] = NoSession
    BY NoSessionType DEF Peers, SessionNames
  <2>3. /\ table' = [table EXCEPT !.peers = Append(table.peers, v)]
        /\ granted' = granted /\ handshakes' = handshakes
    BY <1>2 DEF AddPeer, peer_add
  <2> HIDE DEF v
  <2>4. /\ table' \in [peers : Seq(Peers), next_local_index : Indices]
        /\ table'.next_local_index = table.next_local_index
        /\ table'.peers = Append(table.peers, v)
    BY <2>1, <2>2, <2>3, AppendTable
  <2>5. /\ Len(table'.peers) = last
        /\ DOMAIN table'.peers = Positions \cup {last}
        /\ last \notin Positions
        /\ \A j \in Positions : table'.peers[j] = table.peers[j]
        /\ table'.peers[last] = v
    BY <2>1, <2>2, <2>4 DEF Positions
  <2> HIDE DEF last
  <2>6. TypeOK'
    <3>1. Len(table'.peers) <= MAX_PEERS
      BY <1>2, <2>1, <2>5, TableAssumption DEF CanAddPeer, last
    <3>2. Len(<<>>) <= MAX_CIDRS
      BY TableAssumption
    <3>3. \A j \in Positions' : Len(table'.peers[j].allowed_ips) <= MAX_CIDRS
      BY <2>2, <2>5, <3>2 DEF IInv, TypeOK, Positions
    <3>4. \A g \in granted : g.peer \in Positions' /\ g.text \in Texts
      BY <2>5 DEF IInv, TypeOK, Positions
    <3>. QED
      BY <2>3, <2>4, <3>1, <3>3, <3>4 DEF IInv, TypeOK
  <2>7. CounterOK'
    <3>1. table.next_local_index = 0 => table.peers # <<>>
      BY <2>1 DEF AddPeer, InUse, peer_table_destroy
    <3>. QED
      BY <2>3, <2>4, <3>1 DEF IInv, CounterOK
  <2>8. SessionsOK(table'.peers, Top, handshakes)
    <3>1. \A w \in SessionNames : SessionOK(v[w], Top, handshakes) /\ ~Established(v[w])
      BY <2>2, NoSessionType DEF SessionOK
    <3>2. SessionsOK(table.peers, Top, handshakes)
      BY DEF IInv
    <3>3. \A j \in DOMAIN table'.peers, w \in SessionNames :
              SessionOK(table'.peers[j][w], Top, handshakes)
      BY <2>5, <3>1, <3>2 DEF SessionsOK, Positions
    <3>4. ASSUME NEW j \in DOMAIN table'.peers, NEW k \in DOMAIN table'.peers,
                 NEW w \in SessionNames, NEW x \in SessionNames, <<j, w>> # <<k, x>>
          PROVE  Distinct(table'.peers[j][w], table'.peers[k][x])
      <4>1. CASE j = last \/ k = last
        BY <2>5, <3>1, <4>1 DEF Distinct
      <4>2. CASE j # last /\ k # last
        BY <2>5, <3>2, <3>4, <4>2 DEF SessionsOK, Positions
      <4>. QED
        BY <4>1, <4>2
    <3>. QED
      BY <3>3, <3>4 DEF SessionsOK
  <2>9. KeysDiffer'
    <3> DEFINE same == {j \in Positions : table.peers[j].public_key = key}
    <3>1. \A j \in Positions : table.peers[j].public_key # key
      <4>1. SUFFICES ASSUME NEW j \in Positions, table.peers[j].public_key = key
                     PROVE  FALSE
        OBVIOUS
      <4>2. same = {j}
        BY <4>1 DEF IInv, KeysDiffer
      <4>3. j \in Nat /\ j # 0
        BY <2>1 DEF Positions
      <4>4. FirstOf(same) = j
        BY <4>2, <4>3, FirstOfOne
      <4>5. FirstOf(same) = 0
        BY <1>2 DEF CanAddPeer, peer_find_by_pubkey, Positions, NULL
      <4>. QED
        BY <4>3, <4>4, <4>5
    <3>. QED
      BY <2>2, <2>5, <3>1 DEF IInv, KeysDiffer, Positions
  <2>10. GrantsKept'
    <3>1. ASSUME NEW ip \in Addresses
          PROVE  peer_allows_source_ip(v, ip)
                     <=> \E g \in granted : g.peer = last /\ Covers(g.text, ip)
      <4>1. ~peer_allows_source_ip(v, ip)
        BY <2>2 DEF peer_allows_source_ip
      <4>2. \A g \in granted : g.peer # last
        BY <2>5 DEF IInv, TypeOK
      <4>. QED
        BY <4>1, <4>2
    <3>. QED
      BY <2>3, <2>5, <3>1 DEF IInv, GrantsKept, Positions
  <2>11. Top' = Top
    BY <2>4 DEF Top
  <2>12. IInv'
    BY <2>3, <2>6, <2>7, <2>8, <2>9, <2>10, <2>11 DEF IInv
  <2>. QED
    BY <1>0, <2>2, <2>5, <2>12, NoSessionType DEF keeps, OnlyNewIndices, Positions
<1>. QED
  BY <1>1, <1>2

\* An empty table satisfies the invariant.
LEMMA InitIInv == Init => IInv
<1> SUFFICES ASSUME Init PROVE IInv
  OBVIOUS
<1>1. /\ table.peers = <<>> /\ table.next_local_index = 1
      /\ table \in [peers : Seq(Peers), next_local_index : Indices]
  BY TableAssumption DEF Init, peer_table_init, Indices
<1>2. Positions = {} /\ granted = {} /\ handshakes = 0
  BY <1>1 DEF Init, Positions
<1>3. TypeOK
  BY <1>1, <1>2, TableAssumption, UseAssumption DEF TypeOK
<1>4. CounterOK
  BY <1>1, <1>2 DEF CounterOK
<1>. QED
  BY <1>1, <1>2, <1>3, <1>4 DEF IInv, SessionsOK, KeysDiffer, GrantsKept, Positions

\* So does the table that memset leaves, and the one initialised after it.
LEMMA EmptyTableKeepsIInv ==
    ASSUME IInv, DestroyTable \/ InitAgain
    PROVE  IInv' /\ OnlyNewIndices
<1>1. handshakes' = handshakes /\ handshakes \in Nat /\ handshakes \in 0..MAX_HANDSHAKES
  BY UseAssumption DEF DestroyTable, InitAgain, IInv, TypeOK
<1>2. /\ table'.peers = <<>> /\ table'.next_local_index \in {0, 1}
      /\ table' \in [peers : Seq(Peers), next_local_index : Indices]
  <2>1. PICK k \in {0, 1} : table' = [peers |-> <<>>, next_local_index |-> k]
    BY DEF DestroyTable, InitAgain, peer_table_init, peer_table_destroy
  <2>2. k \in Indices
    BY TableAssumption DEF Indices
  <2>. QED
    BY <2>1, <2>2
<1>3. DOMAIN table'.peers = {} /\ Positions' = {} /\ Len(table'.peers) = 0
  BY <1>2 DEF Positions
<1>4. granted' = {}
  <2>1. CASE InitAgain
    <3>1. Positions = {}
      BY <2>1 DEF InitAgain, InUse, peer_table_destroy, Positions
    <3>. QED
      BY <2>1, <3>1 DEF InitAgain, IInv, TypeOK
  <2>. QED
    BY <2>1 DEF DestroyTable
<1>5. TypeOK'
  BY <1>1, <1>2, <1>3, <1>4, TableAssumption DEF TypeOK
<1>6. CounterOK'
  BY <1>1, <1>2 DEF CounterOK
<1>7. SessionsOK(table'.peers, Top', handshakes') /\ OnlyNewIndices
  BY <1>3 DEF SessionsOK, OnlyNewIndices
<1>8. KeysDiffer' /\ GrantsKept'
  BY <1>3 DEF KeysDiffer, GrantsKept
<1>. QED
  BY <1>5, <1>6, <1>7, <1>8 DEF IInv

\* Every step keeps the invariant and hands out no index but the counter's.
LEMMA NextKeepsIInv ==
    ASSUME MAX_HANDSHAKES < INDEX_MOD, IInv, [Next]_vars
    PROVE  IInv' /\ OnlyNewIndices
<1>1. CASE \E key \in PublicKeys : AddPeer(key)
  BY <1>1, AddPeerKeepsIInv
<1>2. ASSUME NEW i \in Positions, NEW text \in Texts, AddAllowedIp(i, text)
      PROVE  IInv' /\ OnlyNewIndices
  BY <1>2, AddAllowedIpKeepsIInv
<1>3. ASSUME NEW i \in Positions, NEW ep \in Endpoints, Establish(i, ep)
      PROVE  IInv' /\ OnlyNewIndices
  BY <1>3, EstablishKeepsIInv
<1>4. ASSUME NEW i \in Positions, NEW ep \in Endpoints, Roam(i, ep)
      PROVE  IInv' /\ OnlyNewIndices
  BY <1>4, RoamKeepsIInv
<1>5. ASSUME NEW i \in Positions, NEW which \in SessionNames, DestroySession(i, which)
      PROVE  IInv' /\ OnlyNewIndices
  BY <1>5, DestroySessionKeepsIInv
<1>6. CASE DestroyTable \/ InitAgain
  BY <1>6, EmptyTableKeepsIInv
<1>7. CASE UNCHANGED vars
  <2>1. IInv'
    BY <1>7 DEF vars, IInv, TypeOK, CounterOK, KeysDiffer, GrantsKept, Positions, Top
  <2>2. \A j \in Positions, w \in SessionNames :
            Established(table.peers[j][w]) => Kept(table.peers[j], table.peers[j][w])
    BY DEF Kept
  <2>. QED
    BY <1>7, <2>1, <2>2 DEF vars, OnlyNewIndices, Positions
<1>. QED
  BY <1>1, <1>2, <1>3, <1>4, <1>5, <1>6, <1>7 DEF Next

\* The invariant holds in every reachable state.
LEMMA InductiveInvariant ==
    ASSUME MAX_HANDSHAKES < INDEX_MOD
    PROVE  Spec => []IInv
<1>1. IInv /\ [Next]_vars => IInv'
  BY NextKeepsIInv
<1>. QED
  BY <1>1, InitIInv, PTL DEF Spec
-----------------------------------------------------------------------------
(* What peer_find_by_index finds. *)

\* The peers with a live session of that index.
OwnersOf(t, index) ==
    {j \in DOMAIN t.peers : \E w \in SessionNames : Owns(t.peers[j][w], index)}

\* The lookup returns the owner when there is at most one.
LEMMA FindByIndex ==
    ASSUME NEW t, DOMAIN t.peers \subseteq Nat \ {0}, NEW index
    PROVE  /\ OwnersOf(t, index) = {} => peer_find_by_index(t, index).peer = NULL
           /\ index = 0 => peer_find_by_index(t, index).peer = NULL
           /\ \A i : OwnersOf(t, index) = {i} /\ index # 0
                  => peer_find_by_index(t, index)
                         = [peer |-> i,
                            session |-> IF Owns(t.peers[i].current_session, index)
                                        THEN "current_session"
                                        ELSE "previous_session"]
<1>1. {j \in DOMAIN t.peers : \/ Owns(t.peers[j].current_session, index)
                              \/ Owns(t.peers[j].previous_session, index)}
          = OwnersOf(t, index)
  BY DEF OwnersOf, SessionNames
<1>2. OwnersOf(t, index) \subseteq Nat \ {0}
  BY DEF OwnersOf
<1>3. OwnersOf(t, index) = {} => FirstOf(OwnersOf(t, index)) = NULL
  BY DEF FirstOf
<1>4. \A i : OwnersOf(t, index) = {i} => FirstOf(OwnersOf(t, index)) = i /\ i # NULL
  <2>1. ASSUME NEW i, OwnersOf(t, index) = {i}
        PROVE  FirstOf(OwnersOf(t, index)) = i /\ i # NULL
    <3>1. i \in Nat /\ i # 0
      BY <1>2, <2>1
    <3>. QED
      BY <2>1, <3>1, FirstOfOne DEF NULL
  <2>. QED
    BY <2>1
<1> DEFINE found == FirstOf(OwnersOf(t, index))
<1>5. peer_find_by_index(t, index)
          = IF index = 0 \/ found = NULL
            THEN [peer |-> NULL, session |-> "none"]
            ELSE [peer |-> found,
                  session |-> IF Owns(t.peers[found].current_session, index)
                              THEN "current_session"
                              ELSE "previous_session"]
  BY <1>1 DEF peer_find_by_index
<1>. QED
  BY <1>3, <1>4, <1>5

\* Distinct sessions: an index has one owner at most.
LEMMA OneOwner ==
    ASSUME NEW t, NEW top, NEW n, SessionsOK(t.peers, top, n),
           NEW index, NEW i \in OwnersOf(t, index)
    PROVE  OwnersOf(t, index) = {i}
<1>1. ASSUME NEW j \in OwnersOf(t, index), j # i
      PROVE  FALSE
  <2>1. PICK w \in SessionNames : Owns(t.peers[i][w], index)
    BY DEF OwnersOf
  <2>2. PICK x \in SessionNames : Owns(t.peers[j][x], index)
    BY DEF OwnersOf
  <2>3. Distinct(t.peers[i][w], t.peers[j][x])
    BY <1>1 DEF SessionsOK, OwnersOf
  <2>. QED
    BY <2>1, <2>2, <2>3 DEF Distinct, Owns
<1>. QED
  BY <1>1

\* The positions of the peers are positive.
LEMMA PositionsPositive ==
    ASSUME NEW t \in [peers : Seq(Peers), next_local_index : Indices]
    PROVE  DOMAIN t.peers \subseteq Nat \ {0}
  OBVIOUS

\* A session that holds the counter's value would have an index not handed out.
LEMMA CounterUnowned ==
    ASSUME IInv, table.next_local_index # 0
    PROVE  OwnersOf(table, table.next_local_index) = {}
<1>1. SUFFICES ASSUME NEW j \in DOMAIN table.peers, NEW w \in SessionNames,
                      Owns(table.peers[j][w], table.next_local_index)
               PROVE  FALSE
  BY DEF OwnersOf
<1>2. SessionOK(table.peers[j][w], table.next_local_index, handshakes)
  BY DEF IInv, SessionsOK, Top
<1>3. table.next_local_index \in Nat
  BY TableAssumption DEF IInv, TypeOK, Indices
<1>. QED
  BY <1>1, <1>2, <1>3 DEF SessionOK, Owns
-----------------------------------------------------------------------------
(* The theorems, for fewer handshakes than there are indices. *)

\* The peer table keeps its types and its two capacities.
THEOREM TypeCorrect ==
    ASSUME MAX_HANDSHAKES < INDEX_MOD
    PROVE  Spec => []TypeOK
<1>1. IInv => TypeOK
  BY DEF IInv
<1>. QED
  BY <1>1, InductiveInvariant, PTL

\* peer_find_by_index answers the local_index of every live session with that
\* session, through any sequence of rekeys and destructions.
THEOREM IndexLookupExact ==
    ASSUME MAX_HANDSHAKES < INDEX_MOD
    PROVE  Spec => []IndexFindsItsSession
<1>1. ASSUME IInv, NEW p \in Live
      PROVE  peer_find_by_index(table, table.peers[p[1]][p[2]].local_index)
                 = [peer |-> p[1], session |-> p[2]]
  <2>1. PICK i \in Positions, w \in SessionNames : p = <<i, w>>
    BY DEF Live
  <2> DEFINE s == table.peers[i][w]
             index == s.local_index
  <2>2. Established(s)
    BY <2>1 DEF Live
  <2>3. SessionsOK(table.peers, Top, handshakes)
    BY <1>1 DEF IInv
  <2>4. index # 0
    BY <2>2, <2>3 DEF SessionsOK, SessionOK, Positions
  <2>5. i \in OwnersOf(table, index) /\ Owns(s, index)
    BY <2>2 DEF OwnersOf, Owns, Positions
  <2>6. OwnersOf(table, index) = {i}
    BY <2>3, <2>5, OneOwner
  <2>7. DOMAIN table.peers \subseteq Nat \ {0}
    BY <1>1, PositionsPositive DEF IInv, TypeOK
  <2>8. w = "previous_session" => ~Owns(table.peers[i].current_session, index)
    <3>1. w = "previous_session" => Distinct(s, table.peers[i]["current_session"])
      BY <2>3 DEF SessionsOK, Positions, SessionNames
    <3>. QED
      BY <2>2, <3>1 DEF Distinct, Owns
  <2>9. w = (IF Owns(table.peers[i].current_session, index)
             THEN "current_session" ELSE "previous_session")
    BY <2>5, <2>8 DEF SessionNames
  <2> HIDE DEF s
  <2>10. peer_find_by_index(table, index)
             = [peer |-> i,
                session |-> IF Owns(table.peers[i].current_session, index)
                            THEN "current_session" ELSE "previous_session"]
    BY <2>4, <2>6, <2>7, FindByIndex
  <2>. QED
    BY <2>1, <2>9, <2>10 DEF s
<1>2. IInv => IndexFindsItsSession
  BY <1>1 DEF IndexFindsItsSession
<1>. QED
  BY <1>2, InductiveInvariant, PTL

\* No step makes an index mean another peer, and only the counter's next index
\* can come to mean one at all.
THEOREM IndicesNotReused ==
    ASSUME MAX_HANDSHAKES < INDEX_MOD
    PROVE  Spec => IndexKeepsItsPeer
<1>1. ASSUME IInv, IInv', OnlyNewIndices, NEW index \in Indices
      PROVE  LET before == peer_find_by_index(table, index).peer
                 after == peer_find_by_index(table', index).peer
             IN  \/ after \in {before, NULL}
                 \/ before = NULL /\ index = table.next_local_index
  <2> DEFINE before == peer_find_by_index(table, index).peer
             after == peer_find_by_index(table', index).peer
  <2>1. DOMAIN table.peers \subseteq Nat \ {0} /\ DOMAIN table'.peers \subseteq Nat \ {0}
    BY <1>1, PositionsPositive DEF IInv, TypeOK
  <2>2. /\ OwnersOf(table, index) = {} => before = NULL
        /\ \A i : OwnersOf(table, index) = {i} /\ index # 0 => before = i
    BY <2>1, FindByIndex
  <2>3. /\ OwnersOf(table', index) = {} \/ index = 0 => after = NULL
        /\ \A i : OwnersOf(table', index) = {i} /\ index # 0 => after = i
    BY <2>1, FindByIndex
  <2> HIDE DEF before, after
  <2>4. ASSUME NEW q \in OwnersOf(table', index), index # 0
        PROVE  after = before \/ (before = NULL /\ index = table.next_local_index)
    <3>1. SessionsOK(table.peers, Top, handshakes) /\ SessionsOK(table'.peers, Top', handshakes')
      BY <1>1 DEF IInv
    <3>2. after = q
      BY <2>3, <2>4, <3>1, OneOwner
    <3>3. PICK w \in SessionNames : Owns(table'.peers[q][w], index) /\ q \in DOMAIN table'.peers
      BY <2>4 DEF OwnersOf
    <3>4. CASE q \in Positions /\ Kept(table.peers[q], table'.peers[q][w])
      <4>1. q \in OwnersOf(table, index)
        BY <3>3, <3>4 DEF Kept, OwnersOf, Owns, Positions
      <4>. QED
        BY <2>2, <2>4, <3>1, <3>2, <4>1, OneOwner
    <3>5. CASE /\ table.next_local_index # 0
               /\ table'.peers[q][w].local_index = table.next_local_index
      <4>1. index = table.next_local_index
        BY <3>3, <3>5 DEF Owns
      <4>. QED
        BY <1>1, <2>2, <3>5, <4>1, CounterUnowned
    <3>. QED
      BY <1>1, <3>3, <3>4, <3>5 DEF OnlyNewIndices, Owns
  <2>. QED
    BY <2>3, <2>4 DEF before, after
<1> DEFINE Keeps == \A index \in Indices :
               LET before == peer_find_by_index(table, index).peer
                   after == peer_find_by_index(table, index)'.peer
               IN  \/ after \in {before, NULL}
                   \/ before = NULL /\ index = table.next_local_index
<1>2. IInv /\ IInv' /\ [Next]_vars => [Keeps]_vars
  BY <1>1, NextKeepsIInv
<1>. QED
  BY <1>2, InductiveInvariant, PTL DEF Spec, IndexKeepsItsPeer

\* peer_find_by_pubkey, which returns the first match, returns the only one.
THEOREM PublicKeyLookupExact ==
    ASSUME MAX_HANDSHAKES < INDEX_MOD
    PROVE  Spec => []PublicKeyFindsItsPeer
<1>1. ASSUME IInv, NEW i \in Positions
      PROVE  peer_find_by_pubkey(table, table.peers[i].public_key) = i
  <2>1. {j \in DOMAIN table.peers : table.peers[j].public_key = table.peers[i].public_key} = {i}
    BY <1>1 DEF IInv, KeysDiffer, Positions
  <2>2. i \in Nat
    BY <1>1, PositionsPositive DEF IInv, TypeOK, Positions
  <2>. QED
    BY <2>1, <2>2, FirstOfOne DEF peer_find_by_pubkey
<1>2. IInv => PublicKeyFindsItsPeer
  BY <1>1 DEF PublicKeyFindsItsPeer
<1>. QED
  BY <1>2, InductiveInvariant, PTL

\* Routing and the source check follow the texts of the configuration, bit by
\* bit, for every address width and every prefix length, 0 and the full width
\* included.
THEOREM RoutingFollowsTexts ==
    ASSUME MAX_HANDSHAKES < INDEX_MOD
    PROVE  Spec => []RoutesFollowTexts
<1>1. ASSUME IInv, NEW ip \in Addresses
      PROVE  LET owners == {g.peer : g \in {h \in granted : Covers(h.text, ip)}}
             IN  /\ peer_find_by_dest_ip(table, ip) = FirstOf(owners)
                 /\ \A i \in Positions :
                        peer_allows_source_ip(table.peers[i], ip) <=> i \in owners
  <2> DEFINE owners == {g.peer : g \in {h \in granted : Covers(h.text, ip)}}
             allowing == {i \in DOMAIN table.peers : peer_allows_source_ip(table.peers[i], ip)}
  <2>1. \A i : i \in owners <=> \E g \in granted : g.peer = i /\ Covers(g.text, ip)
    OBVIOUS
  <2>2. \A i \in Positions : peer_allows_source_ip(table.peers[i], ip) <=> i \in owners
    BY <1>1, <2>1 DEF IInv, GrantsKept
  <2>3. owners \subseteq Positions
    BY <1>1 DEF IInv, TypeOK
  <2>4. allowing = owners
    BY <2>2, <2>3 DEF Positions
  <2>. QED
    BY <2>2, <2>4 DEF peer_find_by_dest_ip
<1>2. IInv => RoutesFollowTexts
  BY <1>1 DEF RoutesFollowTexts
<1>. QED
  BY <1>2, InductiveInvariant, PTL

\* A place without an established session holds no key, and no two sessions
\* share one, through rekeys and destructions.
THEOREM NoKeyLeftBehind ==
    ASSUME MAX_HANDSHAKES < INDEX_MOD
    PROVE  Spec => []KeysOnlyInLiveSessions
<1>1. ASSUME IInv, NEW i \in Positions, NEW w \in SessionNames
      PROVE  SessionOK(table.peers[i][w], Top, handshakes)
  BY <1>1 DEF IInv, SessionsOK, Positions
<1>2. ASSUME IInv, NEW i \in Positions, NEW w \in SessionNames,
             NEW j \in Positions, NEW x \in SessionNames, <<i, w>> # <<j, x>>,
             Established(table.peers[i][w]), Established(table.peers[j][x])
      PROVE  /\ table.peers[i][w].send_key # table.peers[j][x].send_key
             /\ table.peers[i][w].recv_key # table.peers[j][x].recv_key
  <2>1. Distinct(table.peers[i][w], table.peers[j][x])
    BY <1>2 DEF IInv, SessionsOK, Positions
  <2>2. table.peers[i][w].peer_index # table.peers[j][x].peer_index
    BY <1>2, <2>1 DEF Distinct
  <2>3. /\ SessionOK(table.peers[i][w], Top, handshakes)
        /\ SessionOK(table.peers[j][x], Top, handshakes)
    BY <1>1, <1>2, Zenon
  <2>4. PICK s, t : s = table.peers[i][w] /\ t = table.peers[j][x]
    BY Zenon
  <2>5. /\ s.send_key = <<"send", s.peer_index>> /\ s.recv_key = <<"recv", s.peer_index>>
        /\ t.send_key = <<"send", t.peer_index>> /\ t.recv_key = <<"recv", t.peer_index>>
    BY <1>2, <2>3, <2>4, Zenon DEF SessionOK
  <2>6. s.send_key # t.send_key /\ s.recv_key # t.recv_key
    BY <2>2, <2>4, <2>5
  <2>. QED
    BY <2>4, <2>6, Zenon
<1>3. ASSUME IInv, NEW p \in Positions \X SessionNames, p \notin Live
      PROVE  table.peers[p[1]][p[2]] = NoSession
  BY <1>1, <1>3 DEF Live, SessionOK
<1>4. ASSUME IInv, NEW p \in Live, NEW q \in Live, p # q
      PROVE  /\ table.peers[p[1]][p[2]].send_key # table.peers[q[1]][q[2]].send_key
             /\ table.peers[p[1]][p[2]].recv_key # table.peers[q[1]][q[2]].recv_key
  <2>1. PICK i \in Positions, w \in SessionNames : p = <<i, w>>
    BY DEF Live
  <2>2. PICK j \in Positions, x \in SessionNames : q = <<j, x>>
    BY DEF Live
  <2>3. p[1] = i /\ p[2] = w /\ q[1] = j /\ q[2] = x
    BY <2>1, <2>2
  <2>4. Established(table.peers[p[1]][p[2]]) /\ Established(table.peers[q[1]][q[2]])
    BY Zenon DEF Live
  <2>5. <<i, w>> # <<j, x>>
    BY <1>4, <2>1, <2>2, Zenon
  <2>6. Established(table.peers[i][w]) /\ Established(table.peers[j][x])
    BY <2>3, <2>4, Zenon
  <2>7. /\ table.peers[i][w].send_key # table.peers[j][x].send_key
        /\ table.peers[i][w].recv_key # table.peers[j][x].recv_key
    BY <1>2, <1>4, <2>5, <2>6, Zenon
  <2>. QED
    BY <2>3, <2>7, Zenon
<1>5. IInv => KeysOnlyInLiveSessions
  BY <1>3, <1>4 DEF KeysOnlyInLiveSessions
<1>. QED
  BY <1>5, InductiveInvariant, PTL
-----------------------------------------------------------------------------
(* The exercises. *)

\* A set of numbers has a smallest one.
LEMMA Smallest ==
    ASSUME NEW S, S \in SUBSET Nat, S # {}
    PROVE  \E x \in S : \A y \in S : x <= y
<1>1. PICK x \in S : \A y \in S : <<y, x>> \notin OpToRel(<, Nat)
  BY NatLessThanWellFounded, WFMin, Zenon
<1>2. ASSUME NEW y \in S PROVE x <= y
  <2>1. ~(y < x)
    BY <1>1, Zenon DEF OpToRel
  <2>. QED
    BY <2>1
<1>. QED
  BY <1>2, Zenon

\* The first of some positions is the same to the daemon and to the exercises.
LEMMA FirstIsSmallest ==
    ASSUME NEW S, S \in SUBSET Nat, S # {}
    PROVE  /\ First(S) \in S /\ \A y \in S : First(S) <= y
           /\ FirstOf(S) = First(S)
<1>1. PICK x \in S : \A y \in S : x <= y
  BY Smallest, Zenon
<1>2. First(S) \in S /\ \A y \in S : First(S) <= y
  <2>1. First(S) = CHOOSE i \in S : \A j \in S : i <= j
    BY Zenon DEF First
  <2>. QED
    BY <1>1, <2>1, Zenon
<1>3. PICK first : first = {i \in S : \A j \in S : i <= j}
  BY Zenon
<1>4. first = {First(S)}
  <2>1. PICK least : least = First(S)
    BY Zenon
  <2>2. least \in first
    BY <1>2, <1>3, <2>1, Zenon
  <2>3. ASSUME NEW i \in first PROVE i = least
    <3>1. i \in S /\ least \in S /\ i <= least /\ least <= i
      BY <1>2, <1>3, <2>1, <2>3, Zenon
    <3>2. i \in Nat /\ least \in Nat
      BY <3>1
    <3>. QED
      BY <3>1, <3>2
  <2>. QED
    BY <2>1, <2>2, <2>3, Zenon
<1>5. FirstOf(S) = CHOOSE i \in first : TRUE
  BY <1>3, <1>4, Zenon DEF FirstOf
<1>6. (CHOOSE i \in first : TRUE) = First(S)
  BY <1>4, Zenon
<1>. QED
  BY <1>2, <1>5, <1>6, Zenon

\* Comparing under the bits of a prefix decides what its text means.
LEMMA BitsAreCover ==
    ASSUME NEW text, text \in CidrTexts, NEW ip, ip \in Addresses,
           NEW mask, \A b : b \in mask <=> b \in AddressBits /\ b >= ADDRESS_BITS - text.prefix
    PROVE  ip \cap mask = vpn_ip_parse(text) \cap mask <=> Covers(text, ip)
<1>1. PICK net : net = vpn_ip_parse(text)
  BY Zenon
<1>2. ip \cap mask = net \cap mask <=> \A b \in mask : b \in ip <=> b \in net
  OBVIOUS
<1>. QED
  BY <1>1, <1>2, Zenon DEF Covers

\* So do the masks of crypto_routing.c, whatever the prefix, if its parse_ip reads
\* the address that vpn_ip_parse reads.
LEMMA ExerciseMatches ==
    ASSUME NEW text, text \in CidrTexts, text.numbers => text.small, NEW ip, ip \in Addresses
    PROVE  matches_cidr(ip, parse_cidr(text)) <=> Covers(text, ip)
<1>1. PICK mask : mask = {b \in AddressBits : b >= ADDRESS_BITS - text.prefix}
  BY Zenon
<1>2. ClampedMask(text.prefix) = mask
  BY <1>1, AddressAssumption DEF ClampedMask, AddressBits, CidrTexts
<1>3. parse_ip(text) = vpn_ip_parse(text)
  BY Zenon DEF parse_ip, vpn_ip_parse, IsAddress
<1>4. matches_cidr(ip, parse_cidr(text)) <=> ip \cap mask = vpn_ip_parse(text) \cap mask
  BY <1>2, <1>3 DEF matches_cidr, parse_cidr
<1>5. \A b : b \in mask <=> b \in AddressBits /\ b >= ADDRESS_BITS - text.prefix
  BY <1>1, Zenon
<1>6. ip \cap mask = vpn_ip_parse(text) \cap mask <=> Covers(text, ip)
  <2>1. text \in CidrTexts
    BY <1>1, Zenon
  <2>. QED
    BY <1>5, <2>1, BitsAreCover
<1>. QED
  BY <1>1, <1>4, <1>6, Zenon

\* And those of exercises/routing.c, for addresses.
LEMMA RouteMatchesCover ==
    ASSUME NEW route, route.text \in CidrTexts, IsAddress(route.text), NEW ip, ip \in Addresses
    PROVE  RouteMatches(route, ip) <=> Covers(route.text, ip)
<1>1. PICK text, mask :
          text = route.text /\ mask = {b \in AddressBits : b >= ADDRESS_BITS - text.prefix}
  BY Zenon
<1>2. (IF text.prefix = 0 THEN {} ELSE mask) = mask
  BY <1>1, AddressAssumption DEF AddressBits, CidrTexts
<1>3. vpn_ip_parse(text) = text.ip
  BY <1>1, Zenon DEF vpn_ip_parse
<1>4. RouteMatches(route, ip) <=> ip \cap mask = vpn_ip_parse(text) \cap mask
  BY <1>1, <1>2, <1>3, Zenon DEF RouteMatches
<1>5. \A b : b \in mask <=> b \in AddressBits /\ b >= ADDRESS_BITS - text.prefix
  BY <1>1, Zenon
<1>6. ip \cap mask = vpn_ip_parse(text) \cap mask <=> Covers(text, ip)
  <2>1. text \in CidrTexts
    BY <1>1, Zenon
  <2>. QED
    BY <1>5, <2>1, BitsAreCover
<1>. QED
  BY <1>1, <1>4, <1>6, Zenon

\* The peers the daemon may route an address to, and the first of them.
LEMMA OwnersFound ==
    ASSUME IInv, NEW ip, ip \in Addresses,
           NEW owners, \A i : i \in owners <=> \E g \in granted : g.peer = i /\ Covers(g.text, ip)
    PROVE  /\ owners \in SUBSET (Nat \ {0})
           /\ peer_find_by_dest_ip(table, ip) = FirstOf(owners)
           /\ \A i \in Positions : peer_allows_source_ip(table.peers[i], ip) <=> i \in owners
<1>1. PICK allowing :
          allowing = {i \in DOMAIN table.peers : peer_allows_source_ip(table.peers[i], ip)}
  BY Zenon
<1>3. \A i \in Positions : peer_allows_source_ip(table.peers[i], ip) <=> i \in owners
  BY Zenon DEF IInv, GrantsKept
<1>4. owners \subseteq Positions
  BY Zenon DEF IInv, TypeOK
<1>5. allowing = owners
  BY <1>1, <1>3, <1>4, Zenon DEF Positions
<1>6. Positions \subseteq Nat \ {0}
  <2>1. table.peers \in Seq(Peers)
    BY DEF IInv, TypeOK
  <2>. QED
    BY <2>1 DEF Positions
<1>. QED
  BY <1>1, <1>3, <1>4, <1>5, <1>6, Zenon DEF peer_find_by_dest_ip

\* The texts that were granted are configured ones, and without error.
LEMMA GrantedTexts == Spec => [](\A g \in granted : g.text \in CidrTexts /\ ~CidrError(g.text))
<1>. DEFINE Valid == \A g \in granted : g.text \in CidrTexts /\ ~CidrError(g.text)
<1>1. Init => Valid
  BY DEF Init
<1>2. Valid /\ [Next]_vars => Valid'
  <2>. SUFFICES ASSUME Valid, [Next]_vars PROVE Valid'
    OBVIOUS
  <2>1. CASE granted' \in {granted, {}}
    BY <2>1
  <2>2. ASSUME NEW i \in Positions, NEW t \in Texts, AddAllowedIp(i, t) PROVE Valid'
    <3>1. granted' = granted
          \/ (granted' = granted \cup {[peer |-> i, text |-> t]} /\ ~CidrError(t))
      BY <2>2, Zenon DEF AddAllowedIp, CanAddAllowedIp
    <3>2. t \in CidrTexts
      BY UseAssumption
    <3>. QED
      BY <3>1, <3>2
  <2>. QED
    BY <2>1, <2>2 DEF Next, vars, AddPeer, Establish, Roam, DestroySession, DestroyTable, InitAgain
<1>. QED
  BY <1>1, <1>2, PTL DEF Spec

\* peer_find_by_dest_ip and peer_allows_source_ip answer as crypto_routing.c does,
\* for every address width and whatever was granted, numbers above 255 aside.
THEOREM ExerciseRoutesAlike ==
    ASSUME MAX_HANDSHAKES < INDEX_MOD
    PROVE  Spec => []ExerciseAgrees
<1>1. ASSUME IInv, \A g \in granted : g.text.numbers => g.text.small, NEW ip \in Addresses
      PROVE  /\ peer_find_by_dest_ip(table, ip) = OUT(granted, ip)
             /\ \A i \in Positions :
                    peer_allows_source_ip(table.peers[i], ip) <=> IN_OK(granted, i, ip)
  <2>1. PICK owners : owners = {g.peer : g \in {h \in granted : Covers(h.text, ip)}}
    BY Zenon
  <2>2. /\ owners \in SUBSET (Nat \ {0})
        /\ peer_find_by_dest_ip(table, ip) = FirstOf(owners)
        /\ \A i \in Positions : peer_allows_source_ip(table.peers[i], ip) <=> i \in owners
    <3>1. \A i : i \in owners <=> \E g \in granted : g.peer = i /\ Covers(g.text, ip)
      BY <2>1, Zenon
    <3>. QED
      BY <1>1, <3>1, OwnersFound, Zenon
  <2>3. \A g \in granted : matches_cidr(ip, parse_cidr(g.text)) <=> Covers(g.text, ip)
    <3>1. \A g \in granted : g.text \in CidrTexts
      BY <1>1, UseAssumption, Zenon DEF IInv, TypeOK
    <3>. QED
      BY <1>1, <3>1, ExerciseMatches, Zenon
  <2>4. \A i : peer_allows_ip(granted, i, ip) <=> i \in owners
    BY <2>1, <2>3, Zenon DEF peer_allows_ip
  <2>5. {r.peer : r \in {q \in granted : peer_allows_ip(granted, q.peer, ip)}} = owners
    BY <2>1, <2>4, Zenon
  <2>6. OUT(granted, ip) = First(owners)
    BY <2>5, Zenon DEF OUT
  <2>7. FirstOf(owners) = First(owners)
    <3>1. CASE owners = {}
      BY <3>1 DEF FirstOf, First, NULL, DROP
    <3>2. CASE owners # {}
      <4>1. owners \in SUBSET Nat
        BY <2>2
      <4>. QED
        BY <3>2, <4>1, FirstIsSmallest, Zenon
    <3>. QED
      BY <3>1, <3>2, Zenon
  <2>. QED
    BY <2>2, <2>4, <2>6, <2>7, Zenon DEF IN_OK
<1>2. IInv => ExerciseAgrees
  BY <1>1, Zenon DEF ExerciseAgrees
<1>. QED
  BY <1>2, InductiveInvariant, PTL

\* peer_find_by_dest_ip takes the longest prefix, as exercises/routing.c does, unless
\* an earlier peer has a shorter one.
THEOREM LongestTaken ==
    ASSUME MAX_HANDSHAKES < INDEX_MOD
    PROVE  Spec => []LongestUnlessShadowed
<1>. DEFINE Valid == \A g \in granted : g.text \in CidrTexts /\ ~CidrError(g.text)
<1>. DEFINE prefixes(i, ip) ==
               {g.text.prefix : g \in {h \in granted : h.peer = i /\ Covers(h.text, ip)}}
<1>1. ASSUME IInv, Valid, \A g \in granted : IsAddress(g.text), NEW ip \in Addresses,
             NEW taken, taken = peer_find_by_dest_ip(table, ip),
             NEW longest, longest = ROUTE(granted, ip), taken # longest
      PROVE  /\ taken < longest
             /\ \E q \in prefixes(longest, ip) : \A p \in prefixes(taken, ip) : p < q
  <2>1. PICK matching, owners :
            /\ matching = {h \in granted : Covers(h.text, ip)}
            /\ owners = {g.peer : g \in {h \in granted : Covers(h.text, ip)}}
    BY Zenon
  <2>2. owners \in SUBSET (Nat \ {0}) /\ taken = FirstOf(owners)
    <3>1. \A i : i \in owners <=> \E g \in granted : g.peer = i /\ Covers(g.text, ip)
      BY <2>1, Zenon
    <3>. QED
      BY <1>1, <3>1, OwnersFound, Zenon
  <2>3. {q \in granted : RouteMatches(q, ip)} = matching
    <3>1. \A g \in granted : RouteMatches(g, ip) <=> Covers(g.text, ip)
      BY <1>1, RouteMatchesCover, Zenon
    <3>. QED
      BY <2>1, <3>1, Zenon
  <2>4. PICK best, peers : best = Best(matching) /\ peers = {r.peer : r \in best}
    BY Zenon
  <2>5. longest = First(peers)
    BY <1>1, <2>3, <2>4, Zenon DEF ROUTE
  <2>6. matching # {}
    <3>1. ASSUME matching = {} PROVE FALSE
      <4>1. owners = {} /\ peers = {}
        BY <2>1, <2>4, <3>1, Zenon DEF Best
      <4>2. taken = 0 /\ longest = 0
        BY <2>2, <2>5, <4>1 DEF First, FirstOf, NULL, DROP
      <4>. QED
        BY <1>1, <4>2
    <3>. QED
      BY <3>1, Zenon
  <2>7. \A g \in matching : g.text.prefix \in 0..ADDRESS_BITS /\ g.peer \in owners
    BY <1>1, <2>1, Zenon DEF CidrError
  <2>8. best # {} /\ best \subseteq matching
        /\ \A r \in best, q \in matching : q.text.prefix <= r.text.prefix
    <3>1. PICK S : S = {ADDRESS_BITS - g.text.prefix : g \in matching}
      BY Zenon
    <3>2. S \in SUBSET Nat /\ S # {}
      BY <2>6, <2>7, <3>1, AddressAssumption
    <3>3. PICK x \in S : \A y \in S : x <= y
      BY <3>2, Smallest, Zenon
    <3>4. PICK r \in matching : x = ADDRESS_BITS - r.text.prefix
      BY <3>1, <3>3, Zenon
    <3>5. ASSUME NEW q \in matching PROVE q.text.prefix <= r.text.prefix
      <4>1. x <= ADDRESS_BITS - q.text.prefix
        BY <3>1, <3>3, <3>5, Zenon
      <4>. QED
        BY <2>7, <3>4, <4>1, AddressAssumption
    <3>6. r \in best
      BY <2>4, <3>5, Zenon DEF Best
    <3>7. best \subseteq matching /\ \A o \in best, q \in matching : q.text.prefix <= o.text.prefix
      BY <2>4, Zenon DEF Best
    <3>. QED
      BY <3>6, <3>7, Zenon
  <2>9. peers # {} /\ peers \in SUBSET owners /\ owners # {} /\ owners \in SUBSET Nat
    BY <2>2, <2>4, <2>7, <2>8
  <2>10. peers \in SUBSET Nat
    BY <2>9
  <2>11. longest \in peers /\ \A y \in peers : longest <= y
    BY <2>5, <2>9, <2>10, FirstIsSmallest, Zenon
  <2>12. taken \in owners /\ \A y \in owners : taken <= y
    <3>1. /\ First(owners) \in owners /\ \A y \in owners : First(owners) <= y
          /\ FirstOf(owners) = First(owners)
      BY <2>9, FirstIsSmallest, Zenon
    <3>2. taken = First(owners)
      BY <2>2, <3>1, Zenon
    <3>. QED
      BY <3>1, <3>2, Zenon
  <2>13. taken < longest
    BY <1>1, <2>9, <2>11, <2>12
  <2>14. PICK r \in best : r.peer = longest
    BY <2>4, <2>11, Zenon
  <2>15. ASSUME NEW g \in granted, g.peer = taken, Covers(g.text, ip)
         PROVE  g.text.prefix < r.text.prefix
    <3>1. g \in matching
      BY <2>1, <2>15, Zenon
    <3>2. g.text.prefix <= r.text.prefix
      BY <2>8, <3>1, Zenon
    <3>3. g.text.prefix # r.text.prefix
      <4>1. ASSUME g.text.prefix = r.text.prefix PROVE FALSE
        <5>1. g \in best
          BY <2>4, <2>8, <3>1, <4>1, Zenon DEF Best
        <5>2. longest <= taken
          BY <2>4, <2>11, <2>15, <5>1, Zenon
        <5>. QED
          BY <2>9, <2>11, <2>12, <2>13, <5>2
      <4>. QED
        BY <4>1, Zenon
    <3>4. g.text.prefix \in 0..ADDRESS_BITS /\ r.text.prefix \in 0..ADDRESS_BITS
      BY <2>7, <2>8, <3>1, Zenon
    <3>. QED
      BY <3>2, <3>3, <3>4, AddressAssumption
  <2>16. r \in granted /\ Covers(r.text, ip)
    BY <2>1, <2>8, Zenon
  <2>. QED
    BY <2>13, <2>14, <2>15, <2>16, Zenon
<1>2. ASSUME IInv, Valid PROVE LongestUnlessShadowed
  <2>1. ASSUME \A g \in granted : IsAddress(g.text), NEW ip \in Addresses
        PROVE  LET taken == peer_find_by_dest_ip(table, ip)
                   longest == ROUTE(granted, ip)
               IN  \/ taken = longest
                   \/ /\ taken < longest
                      /\ \E q \in prefixes(longest, ip) : \A p \in prefixes(taken, ip) : p < q
    <3>1. PICK taken, longest :
              taken = peer_find_by_dest_ip(table, ip) /\ longest = ROUTE(granted, ip)
      BY Zenon
    <3>2. ASSUME taken # longest
          PROVE  /\ taken < longest
                 /\ \E q \in prefixes(longest, ip) : \A p \in prefixes(taken, ip) : p < q
      <4>. HIDE DEF prefixes, Valid
      <4>1. /\ IInv /\ Valid /\ ip \in Addresses /\ taken # longest
            /\ taken = peer_find_by_dest_ip(table, ip) /\ longest = ROUTE(granted, ip)
        BY <1>2, <2>1, <3>1, <3>2, Zenon
      <4>. QED
        BY <1>1, <2>1, <4>1
    <3>. HIDE DEF prefixes
    <3>. QED
      BY <3>1, <3>2, Zenon
  <2>. QED
    BY <2>1, Zenon DEF LongestUnlessShadowed
<1>. QED
  BY <1>2, InductiveInvariant, GrantedTexts, PTL
=============================================================================
