---------------------------- MODULE Tunnel_proofs ----------------------------
(***************************************************************************)
(* Proofs about the data plane, for any configuration, any packets and any *)
(* number of clients' moves, losses, repetitions and damages.              *)
(*                                                                         *)
(* IInv ties three things together: what the daemon keeps (its sessions    *)
(* are those of the two latest handshakes of a peer, their filters have    *)
(* seen what was written, their counters are above what was sent), what    *)
(* is on the network (who made it and when), and what clients know.        *)
(* Most steps change little of it, which the lemmas on what stays say      *)
(* once.                                                                   *)
(***************************************************************************)
EXTENDS Tunnel, TableLemmas

(* The first of some positions. *)

\* A search that finds a position finds one that passes its test.
LEMMA FirstOfIsIn ==
    ASSUME NEW S
    PROVE  FirstOf(S) # NULL => FirstOf(S) \in S
<1>1. PICK first : first = {i \in S : \A j \in S : i <= j}
  BY Zenon
<1>2. first # {} => (CHOOSE i \in first : TRUE) \in first
  BY Zenon
<1>. QED
  BY <1>1, <1>2, Zenon DEF FirstOf

\* A search that only one position passes finds that one.
LEMMA FirstOfOnly ==
    ASSUME NEW S, NEW i \in Nat, S = {i}
    PROVE  FirstOf(S) = i
  BY DEF FirstOf
-----------------------------------------------------------------------------
(* Constants and types. *)

\* Positions are not NULL, and belong to one client each.
LEMMA Positions ==
    /\ DOMAIN Config \subseteq Nat \ {0}
    /\ \A i \in DOMAIN Config : PublicKey(i) \in Clients
    /\ \A i, j \in DOMAIN Config : PublicKey(i) = PublicKey(j) => i = j
    /\ \A c \in Clients : \E i \in DOMAIN Config : c = PublicKey(i)
<1>1. DOMAIN Config \subseteq Nat \ {0}
  BY TunnelAssumption
<1>. QED
  BY <1>1, TunnelAssumption, Zenon DEF PublicKey, Clients

\* Counting modulo a number and one step at a time comes to the same.
LEMMA ModStep ==
    ASSUME NEW k \in Nat \ {0}, NEW n \in Nat
    PROVE  ((n % k) + 1) % k = (n + 1) % k
<1>. DEFINE q == n \div k
            r == n % k
<1>1. q \in Nat /\ r \in 0..(k - 1) /\ n = k * q + r
  BY DivMod, Zenon
<1>. HIDE DEF q, r
<1>2. CASE r + 1 < k
  <2>1. r + 1 \in 0..(k - 1) /\ 0 \in Nat
    BY <1>1, <1>2
  <2>2. (k * q + (r + 1)) % k = r + 1 /\ (k * 0 + (r + 1)) % k = r + 1
    BY <1>1, <2>1, DivModUnique, Zenon
  <2>3. k * q + (r + 1) = n + 1 /\ k * 0 + (r + 1) = r + 1
    BY <1>1
  <2>. QED
    BY <2>2, <2>3, Zenon DEF r
<1>3. CASE r + 1 = k
  <2>1. 0 \in 0..(k - 1) /\ q + 1 \in Nat /\ 1 \in Nat
    BY <1>1
  <2>2. (k * (q + 1) + 0) % k = 0 /\ (k * 1 + 0) % k = 0
    BY <2>1, DivModUnique, Zenon
  <2>3. k * (q + 1) + 0 = n + 1 /\ k * 1 + 0 = r + 1
    BY <1>1, <1>3
  <2>. QED
    BY <2>2, <2>3, Zenon DEF r
<1>. QED
  BY <1>1, <1>2, <1>3

\* Indices are numbers, and tell handshakes apart until they wrap.
LEMMA IndexFacts ==
    /\ \A n \in Nat : Index(n) \in Nat
    /\ \A n \in 0..(INDEX_MOD - 1) : Index(n) = n
    /\ \A n \in Nat : (Index(n) + 1) % INDEX_MOD = Index(n + 1)
<1>1. INDEX_MOD \in Nat \ {0, 1}
  BY TableAssumption, Zenon
<1>2. \A n \in Nat : Index(n) \in Nat
  BY <1>1 DEF Index
<1>3. \A n \in 0..(INDEX_MOD - 1) : Index(n) = n
  BY <1>1 DEF Index
<1>4. \A n \in Nat : (Index(n) + 1) % INDEX_MOD = Index(n + 1)
  BY <1>1, ModStep, Zenon DEF Index
<1>. QED
  BY <1>2, <1>3, <1>4, Zenon

\* The elements of a sequence.
LEMMA SeqFields ==
    ASSUME NEW S, NEW seq \in Seq(S)
    PROVE  /\ Len(seq) \in Nat
           /\ DOMAIN seq = 1..Len(seq)
           /\ \A n \in DOMAIN seq : seq[n] \in S
  OBVIOUS

\* What appending does.
LEMMA Appended ==
    ASSUME NEW S, NEW seq \in Seq(S), NEW e \in S
    PROVE  /\ Append(seq, e) \in Seq(S)
           /\ Len(Append(seq, e)) = Len(seq) + 1
           /\ DOMAIN Append(seq, e) = DOMAIN seq \cup {Len(seq) + 1}
           /\ \A n \in DOMAIN seq : Append(seq, e)[n] = seq[n]
           /\ Append(seq, e)[Len(seq) + 1] = e
           /\ Len(seq) + 1 \notin DOMAIN seq
  OBVIOUS

\* The fields of what is in the table.
LEMMA PeerFields ==
    ASSUME TypeOK, NEW i \in DOMAIN Config
    PROVE  /\ table.peers[i] \in PeerStates(i)
           /\ table.peers[i].public_key = PublicKey(i)
           /\ table.peers[i].endpoint \in Endpoints
           /\ table.peers[i].current_session \in Sessions
           /\ table.peers[i].previous_session \in Sessions
           /\ table.peers[i].last_handshake_time \in Nat
  BY Zenon DEF TypeOK, PeerStates

\* The handshakes the daemon accepted are those of configured peers.
LEMMA AcceptedFields ==
    ASSUME TypeOK
    PROVE  /\ accepted \in Seq([peer : DOMAIN Config, sender_index : Nat])
           /\ Len(accepted) \in Nat
           /\ DOMAIN accepted = 1..Len(accepted)
           /\ \A n \in DOMAIN accepted : /\ accepted[n].peer \in DOMAIN Config
                                         /\ accepted[n].sender_index \in Nat
                                         /\ PublicKey(accepted[n].peer) \in Clients
<1>1. accepted \in Seq([peer : DOMAIN Config, sender_index : Nat])
  BY Zenon DEF TypeOK
<1>2. /\ Len(accepted) \in Nat
      /\ DOMAIN accepted = 1..Len(accepted)
      /\ \A n \in DOMAIN accepted : accepted[n] \in [peer : DOMAIN Config, sender_index : Nat]
  BY <1>1, SeqFields, Zenon
<1>3. \A n \in DOMAIN accepted : accepted[n].peer \in DOMAIN Config /\ accepted[n].sender_index \in Nat
  BY <1>2, Zenon
<1>. QED
  BY <1>1, <1>2, <1>3, Positions, Zenon

\* The state of a client.
LEMMA ClientFields ==
    ASSUME TypeOK, NEW c \in Clients
    PROVE  /\ client[c] \in ClientStates
           /\ client[c].location \in Locations
           /\ client[c].initiation \in Nat
           /\ client[c].session \in [number : Nat, peer_index : Nat, counter : Counters]
           /\ client[c].session.number \in Nat
           /\ client[c].session.peer_index \in Nat
           /\ client[c].session.counter \in Counters
<1>1. client \in [Clients -> ClientStates]
  BY Zenon DEF TypeOK
<1>2. client[c] \in ClientStates
  BY <1>1, Zenon
<1>3. client[c].session \in [number : Nat, peer_index : Nat, counter : Counters]
  BY <1>2, Zenon DEF ClientStates
<1>4. /\ client[c].location \in Locations
      /\ client[c].initiation \in Nat
  BY <1>2, Zenon DEF ClientStates
<1>. QED
  BY <1>1, <1>2, <1>3, <1>4, Zenon

\* The values of used.
Uses == [initiations : Nat, sends : Nat, reads : 0..MAX_READS, moves : Nat, damages : Nat]

\* How much is used up.
LEMMA UsedFields ==
    ASSUME TypeOK
    PROVE  /\ used \in Uses
           /\ used.initiations \in Nat
           /\ used.reads \in 0..MAX_READS
           /\ MAX_READS \in Nat
<1>1. used \in Uses
  BY Zenon DEF TypeOK, Uses
<1>2. MAX_READS \in Nat
  BY TunnelAssumption, Zenon
<1>. QED
  BY <1>1, <1>2, Zenon DEF Uses

\* The kinds of datagrams are told apart by their type byte.
LEMMA Kinds ==
    ASSUME TypeOK, NEW m \in net
    PROVE  /\ m \in Initiations \cup Responses \cup DataDatagrams
           /\ m.type = "HANDSHAKE_INIT" <=> m \in Initiations
           /\ m.type = "HANDSHAKE_RESP" <=> m \in Responses
           /\ m.type \in {"DATA", "KEEPALIVE", "INVALID"} <=> m \in DataDatagrams
<1>1. m \in Initiations \cup Responses \cup DataDatagrams
  BY Zenon DEF TypeOK
<1>2. m \in Initiations => m.type = "HANDSHAKE_INIT"
  BY Zenon DEF Initiations
<1>3. m \in Responses => m.type = "HANDSHAKE_RESP"
  BY Zenon DEF Responses
<1>4. m \in DataDatagrams => m.type \in {"DATA", "KEEPALIVE", "INVALID"}
  BY Zenon DEF DataDatagrams
<1>. QED
  BY <1>1, <1>2, <1>3, <1>4, Zenon
-----------------------------------------------------------------------------
(* What a step leaves alone. *)

\* Handshakes and datagrams are only ever added, and time goes on.
AcceptedGrows == \A n \in DOMAIN accepted : n \in DOMAIN accepted' /\ accepted'[n] = accepted[n]
TimeGoesOn == clock' \in Nat \ {0} /\ clock <= clock'

\* A clock that stands still is one that goes on.
LEMMA TimeStands ==
    ASSUME TypeOK, clock' = clock
    PROVE  TimeGoesOn
<1>1. clock \in Nat \ {0}
  BY Zenon DEF TypeOK
<1>. QED
  BY <1>1 DEF TimeGoesOn

\* What a peer has sealed stays so after more handshakes and datagrams.
LEMMA SealedStays ==
    ASSUME AcceptedGrows, net \subseteq net', NEW i
    PROVE  /\ \A m : Sealed(m, i) => Sealed(m, i)'
           /\ HeardFrom(i) \subseteq HeardFrom(i)'
<1>1. ASSUME NEW m, Sealed(m, i) PROVE Sealed(m, i)'
  <2>1. CASE m.type = "HANDSHAKE_INIT" /\ m.intact /\ m.static = Config[i].public_key
    BY <2>1, Zenon DEF Sealed
  <2>2. CASE /\ m.type \in {"DATA", "KEEPALIVE"}
             /\ \E n \in DOMAIN accepted :
                    accepted[n].peer = i /\ Authentic(m.cipher, <<>>, m.counter, KeyToDaemon(n))
    BY <2>2, Zenon DEF Sealed, AcceptedGrows
  <2>. QED
    BY <1>1, <2>1, <2>2, Zenon DEF Sealed
<1>2. ASSUME NEW place \in HeardFrom(i) PROVE place \in HeardFrom(i)'
  <2>1. PICK m \in net : Sealed(m, i) /\ place = m.from
    BY Zenon DEF HeardFrom
  <2>2. m \in net' /\ Sealed(m, i)'
    BY <1>1, <2>1, Zenon
  <2>. QED
    BY <2>1, <2>2, Zenon DEF HeardFrom
<1>. QED
  BY <1>1, <1>2, Zenon

\* What was written still comes from its owner after more handshakes.
LEMMA WrittenStays ==
    ASSUME AcceptedGrows, written' = written,
           WrittenOnce, WrittenFromOwner
    PROVE  WrittenOnce' /\ WrittenFromOwner'
<1>1. WrittenOnce'
  BY Zenon DEF WrittenOnce
<1>2. WrittenFromOwner'
  <2>1. ASSUME NEW w, FromOwner(w) PROVE FromOwner(w)'
    BY <2>1, Zenon DEF FromOwner, AcceptedGrows
  <2>. QED
    BY <2>1, Zenon DEF WrittenFromOwner
<1>. QED
  BY <1>1, <1>2, Zenon

\* What was sent still went to its owner after more handshakes and datagrams.
LEMMA EmittedStays ==
    ASSUME TypeOK, AcceptedGrows, net \subseteq net', emitted' = emitted,
           NonceUnique, EmittedToOwner
    PROVE  NonceUnique' /\ EmittedToOwner'
<1>1. NonceUnique'
  BY Zenon DEF NonceUnique
<1>2. ASSUME NEW datagram, NEW to, NEW owner, ToOwner(datagram, to, owner)
      PROVE  ToOwner(datagram, to, owner)'
  <2>1. PICK n \in DOMAIN accepted :
            /\ accepted[n].peer = owner
            /\ datagram.cipher[2] = KeyToClient(n)
            /\ datagram.receiver_index = accepted[n].sender_index
    BY <1>2, Zenon DEF ToOwner
  <2>2. to \in HeardFrom(owner)'
    BY <1>2, SealedStays, Zenon DEF ToOwner
  <2>. QED
    BY <2>1, <2>2, Zenon DEF AcceptedGrows, ToOwner
<1>3. EmittedToOwner'
  BY <1>2, Zenon DEF EmittedToOwner
<1>. QED
  BY <1>1, <1>3, Zenon

\* The daemon's own state means the same after a step of someone else.
LEMMA DaemonStays ==
    ASSUME TypeOK, UNCHANGED <<table, accepted, written, emitted>>, net \subseteq net',
           used.reads \in Nat, used'.reads = used.reads,
           SessionsLive, FiltersRemember, CountersAhead, PeersReached
    PROVE  SessionsLive' /\ FiltersRemember' /\ CountersAhead' /\ PeersReached'
<1>1. SessionsLive'
  BY ZenonT(30) DEF SessionsLive, PeerLive, Live, LatestTwo, Number
<1>2. FiltersRemember'
  BY Zenon DEF FiltersRemember, Remembers
<1>3. CountersAhead'
  BY Zenon DEF CountersAhead, Ahead
<1>4. PeersReached'
  <2>1. AcceptedGrows
    BY Zenon DEF AcceptedGrows
  <2>. QED
    BY <2>1, SealedStays, Zenon DEF PeersReached
<1>. QED
  BY <1>1, <1>2, <1>3, <1>4, Zenon

\* Datagrams mean the same after more handshakes and datagrams.
LEMMA DatagramsStay ==
    ASSUME TypeOK, net \subseteq net', AcceptedGrows, TimeGoesOn,
           NEW more \in Nat, used'.initiations = used.initiations + more,
           InitiationsHonest, ResponsesHonest, DataHonest
    PROVE  /\ \A m \in net \cap Initiations : HonestInitiation(m)'
           /\ \A m \in net \cap Responses : HonestResponse(m)'
           /\ \A m \in net \cap DataDatagrams : HonestData(m)'
<1>1. ASSUME NEW m \in net \cap Initiations PROVE HonestInitiation(m)'
  <2>1. m.sec \in Nat /\ clock \in Nat /\ clock' \in Nat /\ clock <= clock'
    BY Zenon DEF Initiations, TypeOK, TimeGoesOn
  <2>2. m.id \in 1..used.initiations /\ m.sec <= clock
    BY Zenon DEF InitiationsHonest, HonestInitiation
  <2>3. m.id \in 1..used'.initiations
    <3>1. used.initiations \in Nat
      BY UsedFields, Zenon
    <3>. QED
      BY <3>1, <2>2
  <2>4. m.sec <= clock'
    BY <2>1, <2>2
  <2>. QED
    BY <2>3, <2>4, Zenon DEF HonestInitiation
<1>2. ASSUME NEW c, NEW id, MadeBy(c, id) PROVE MadeBy(c, id)'
  BY <1>2, Zenon DEF MadeBy
<1>3. ASSUME NEW m \in net \cap Responses PROVE HonestResponse(m)'
  BY <1>2, Zenon DEF ResponsesHonest, HonestResponse, AcceptedGrows
<1>4. ASSUME NEW m \in net \cap DataDatagrams PROVE HonestData(m)'
  BY Zenon DEF DataHonest, HonestData, AcceptedGrows
<1>. QED
  BY <1>1, <1>3, <1>4, Zenon

\* So a step that sends nothing leaves the network as it should be.
LEMMA NetStays ==
    ASSUME TypeOK, net' = net, AcceptedGrows, TimeGoesOn,
           used'.initiations = used.initiations,
           InitiationsHonest, ResponsesHonest, DataHonest
    PROVE  InitiationsHonest' /\ ResponsesHonest' /\ DataHonest'
<1>1. used'.initiations = used.initiations + 0 /\ 0 \in Nat
  BY UsedFields
<1>2. /\ \A m \in net \cap Initiations : HonestInitiation(m)'
      /\ \A m \in net \cap Responses : HonestResponse(m)'
      /\ \A m \in net \cap DataDatagrams : HonestData(m)'
  BY <1>1, DatagramsStay, Zenon
<1>. QED
  BY <1>2, Zenon DEF InitiationsHonest, ResponsesHonest, DataHonest

\* Clients that know nothing new were right before.
LEMMA ClientsStay ==
    ASSUME AcceptedGrows, net \subseteq net', ClientsHonest,
           \A c \in Clients : /\ client'[c].initiation = client[c].initiation
                              /\ client'[c].session.number = client[c].session.number
                              /\ client'[c].session.peer_index = client[c].session.peer_index
    PROVE  ClientsHonest'
<1>1. ASSUME NEW c \in Clients, client'[c].initiation # 0
      PROVE  \E o \in net' \cap Initiations : o.id = client'[c].initiation /\ o.static = c
  <2>1. PICK o \in net \cap Initiations : o.id = client[c].initiation /\ o.static = c
    BY <1>1, Zenon DEF ClientsHonest, MadeBy
  <2>. QED
    BY <2>1, Zenon
<1>2. ASSUME NEW c \in Clients, client'[c].session.number # 0
      PROVE  LET n == client'[c].session.number
             IN  /\ n \in DOMAIN accepted' /\ PublicKey(accepted'[n].peer) = c
                 /\ client'[c].session.peer_index = Index(n)
  BY <1>2, Zenon DEF ClientsHonest, AcceptedGrows
<1>. QED
  BY <1>1, <1>2, Zenon DEF ClientsHonest, MadeBy
-----------------------------------------------------------------------------
(* The steps of the clients, the network and the clock. *)

\* What a bounded step of someone else than the daemon uses up.
LEMMA UseCounts ==
    ASSUME TypeOK, NEW what \in {"initiations", "sends", "moves", "damages"},
           NEW bound, Use(what, bound)
    PROVE  /\ used' \in Uses
           /\ used'.reads = used.reads
           /\ used'.initiations = used.initiations + (IF what = "initiations" THEN 1 ELSE 0)
<1>1. used \in Uses
  BY UsedFields, Zenon
<1>2. used' = [used EXCEPT ![what] = @ + 1]
  BY Zenon DEF Use
<1>. QED
  BY <1>1, <1>2 DEF Uses

\* Such a step keeps the invariant if it keeps what is on the network and what
\* the clients know.
LEMMA OthersKeep ==
    ASSUME IInv, UNCHANGED <<table, accepted, written, emitted>>, TimeGoesOn,
           used' \in Uses, used'.reads = used.reads,
           net \subseteq net', net' \subseteq Initiations \cup Responses \cup DataDatagrams,
           client' \in [Clients -> ClientStates],
           InitiationsHonest', ResponsesHonest', DataHonest', ClientsHonest'
    PROVE  IInv'
<1>1. /\ TypeOK /\ SessionsLive /\ FiltersRemember /\ CountersAhead /\ PeersReached
      /\ WrittenOnce /\ WrittenFromOwner /\ NonceUnique /\ EmittedToOwner
  BY Zenon DEF IInv
<1>2. AcceptedGrows
  BY Zenon DEF AcceptedGrows
<1>3. TypeOK'
  BY <1>1, Zenon DEF TypeOK, Uses, TimeGoesOn
<1>4. /\ SessionsLive' /\ FiltersRemember' /\ CountersAhead' /\ PeersReached'
  BY <1>1, UsedFields, DaemonStays
<1>5. WrittenOnce' /\ WrittenFromOwner' /\ NonceUnique' /\ EmittedToOwner'
  BY <1>1, <1>2, WrittenStays, EmittedStays, Zenon
<1>. QED
  BY <1>3, <1>4, <1>5, Zenon DEF IInv

\* The parts of the invariant those steps start from.
LEMMA OthersStart ==
    ASSUME IInv
    PROVE  /\ TypeOK /\ InitiationsHonest /\ ResponsesHonest /\ DataHonest
           /\ ClientsHonest /\ clock \in Nat \ {0}
           /\ net \subseteq Initiations \cup Responses \cup DataDatagrams
           /\ client \in [Clients -> ClientStates]
<1>1. TypeOK /\ InitiationsHonest /\ ResponsesHonest /\ DataHonest /\ ClientsHonest
  BY Zenon DEF IInv
<1>. QED
  BY <1>1, Zenon DEF TypeOK

\* Time passes.
LEMMA TickKeeps ==
    ASSUME IInv, Tick
    PROVE  IInv'
<1>1. /\ UNCHANGED <<table, net, client, accepted, written, emitted, used>>
      /\ clock' = clock + TICK
  BY Zenon DEF Tick
<1>2. TimeGoesOn
  BY <1>1, OthersStart, TunnelAssumption DEF TimeGoesOn
<1>3. AcceptedGrows /\ used \in Uses
  BY <1>1, OthersStart, UsedFields, Zenon DEF AcceptedGrows
<1>4. InitiationsHonest' /\ ResponsesHonest' /\ DataHonest'
  BY <1>1, <1>2, <1>3, OthersStart, NetStays, Zenon
<1>5. ClientsHonest'
  BY <1>1, <1>3, OthersStart, ClientsStay, Zenon
<1>. QED
  BY <1>1, <1>2, <1>3, <1>4, <1>5, OthersStart, OthersKeep, Zenon

\* A client moves, which nobody else knows of yet.
LEMMA MoveKeeps ==
    ASSUME IInv, NEW c \in Clients, Move(c)
    PROVE  IInv'
<1>1. PICK l \in Locations :
          /\ UNCHANGED <<table, clock, net, accepted, written, emitted>>
          /\ Use("moves", MAX_MOVES)
          /\ client' = [client EXCEPT ![c].location = l]
  BY Zenon DEF Move
<1>2. used' \in Uses /\ used'.reads = used.reads /\ used'.initiations = used.initiations
  BY <1>1, OthersStart, UsedFields, UseCounts
<1>3. ASSUME NEW d \in Clients
      PROVE  /\ client'[d] \in ClientStates
             /\ client'[d].initiation = client[d].initiation
             /\ client'[d].session = client[d].session
  <2>1. client[d] \in ClientStates
    BY OthersStart, ClientFields, Zenon
  <2>2. CASE d = c
    <3>. DEFINE k == client[c]
                moved == client'[c]
    <3>1. k \in ClientStates
      BY <2>1, <2>2, Zenon
    <3>2. moved = [k EXCEPT !.location = l]
      BY <1>1, OthersStart, Zenon
    <3>. HIDE DEF k, moved
    <3>3. /\ moved.initiation = k.initiation /\ moved.session = k.session
          /\ moved \in ClientStates
      BY <3>1, <3>2, Zenon DEF ClientStates
    <3>. QED
      BY <2>2, <3>1, <3>3, Zenon DEF k, moved
  <2>3. CASE d # c
    <3>1. client'[d] = client[d]
      BY <1>1, <2>3, OthersStart, Zenon
    <3>. QED
      BY <2>1, <3>1, Zenon
  <2>. QED
    BY <2>2, <2>3, Zenon
<1>4. client' \in [Clients -> ClientStates]
  <2>1. client' = [d \in Clients |-> client'[d]]
    BY <1>1, OthersStart, Zenon
  <2>. QED
    BY <1>3, <2>1, Zenon
<1>5. AcceptedGrows /\ TimeGoesOn
  BY <1>1, OthersStart, TimeStands, Zenon DEF AcceptedGrows
<1>6. InitiationsHonest' /\ ResponsesHonest' /\ DataHonest'
  BY <1>1, <1>2, <1>5, OthersStart, NetStays, Zenon
<1>7. ClientsHonest'
  BY <1>1, <1>3, <1>5, OthersStart, ClientsStay, Zenon
<1>8. net' \subseteq Initiations \cup Responses \cup DataDatagrams /\ net \subseteq net'
  BY <1>1, OthersStart, Zenon
<1>. QED
  BY <1>1, <1>2, <1>3, <1>4, <1>5, <1>6, <1>7, <1>8, OthersKeep, Zenon

\* A client sends an initiation, with a number of its own.
LEMMA StartKeeps ==
    ASSUME IInv, NEW c \in Clients, StartHandshake(c)
    PROVE  IInv'
<1>0. PICK id, m0 :
          /\ id = used.initiations + 1
          /\ m0 = [type |-> "HANDSHAKE_INIT", length |-> PACKET_HANDSHAKE_INIT_LEN,
                   from |-> client[c].location, static |-> c, sender_index |-> id,
                   id |-> id, sec |-> clock, intact |-> TRUE]
  BY Zenon
<1>1. /\ UNCHANGED <<table, clock, accepted, written, emitted>>
      /\ Use("initiations", MAX_INITIATIONS)
      /\ net' = net \cup {m0}
      /\ client' = [client EXCEPT ![c].initiation = id]
  BY <1>0, Zenon DEF StartHandshake
<1>2. used' \in Uses /\ used'.reads = used.reads /\ used'.initiations = id
      /\ used.initiations \in Nat
  BY <1>0, <1>1, OthersStart, UsedFields, UseCounts, Zenon
<1>3. m0 \in Initiations
  <2>1. client[c].location \in Endpoints
    BY OthersStart, ClientFields, Zenon DEF Endpoints
  <2>2. clock \in Nat /\ id \in Nat /\ PACKET_HANDSHAKE_INIT_LEN \in Nat
    BY <1>0, <1>2, OthersStart DEF PACKET_HANDSHAKE_INIT_LEN
  <2>. QED
    BY <1>0, <2>1, <2>2, Zenon DEF Initiations
<1>4. m0.id = id /\ m0.static = c /\ m0.from = client[c].location
      /\ m0.type = "HANDSHAKE_INIT" /\ m0.sec = clock
  BY <1>0, Zenon
<1>5. ASSUME NEW d \in Clients
      PROVE  /\ client'[d] \in ClientStates
             /\ client'[d].initiation = IF d = c THEN id ELSE client[d].initiation
             /\ client'[d].session = client[d].session
  <2>1. client[d] \in ClientStates
    BY OthersStart, ClientFields, Zenon
  <2>2. CASE d = c
    <3>. DEFINE k == client[c]
                waiting == client'[c]
    <3>1. k \in ClientStates /\ waiting = [k EXCEPT !.initiation = id] /\ id \in Nat
      BY <1>0, <1>1, <1>2, <2>1, <2>2, OthersStart
    <3>. HIDE DEF k, waiting
    <3>2. /\ waiting.initiation = id /\ waiting.session = k.session
          /\ waiting \in ClientStates
      BY <3>1, Zenon DEF ClientStates
    <3>. QED
      BY <2>1, <2>2, <3>2, Zenon DEF k, waiting
  <2>3. CASE d # c
    <3>1. client'[d] = client[d]
      BY <1>1, <2>3, OthersStart, Zenon
    <3>. QED
      BY <2>1, <2>3, <3>1, Zenon
  <2>. QED
    BY <2>2, <2>3, Zenon
<1>6. client' \in [Clients -> ClientStates]
  <2>1. client' = [d \in Clients |-> client'[d]]
    BY <1>1, OthersStart, Zenon
  <2>. QED
    BY <1>5, <2>1, Zenon
<1>7. AcceptedGrows /\ TimeGoesOn /\ net \subseteq net'
  BY <1>1, OthersStart, TimeStands, Zenon DEF AcceptedGrows
<1>8. /\ \A m \in net \cap Initiations : HonestInitiation(m)'
      /\ \A m \in net \cap Responses : HonestResponse(m)'
      /\ \A m \in net \cap DataDatagrams : HonestData(m)'
  <2>1. 1 \in Nat /\ used'.initiations = used.initiations + 1
    BY <1>0, <1>2, Zenon
  <2>. QED
    BY <1>7, <2>1, OthersStart, DatagramsStay, Zenon
<1>9. m0 \notin Responses /\ m0 \notin DataDatagrams
  BY <1>4, Zenon DEF Responses, DataDatagrams
<1>10. ResponsesHonest' /\ DataHonest'
  BY <1>1, <1>8, <1>9, Zenon DEF ResponsesHonest, DataHonest
<1>11. InitiationsHonest'
  <2>1. HonestInitiation(m0)'
    <3>1. m0.id \in 1..used'.initiations
      BY <1>0, <1>2, <1>4
    <3>2. m0.sec <= clock'
      BY <1>1, <1>4, OthersStart
    <3>. QED
      BY <3>1, <3>2, Zenon DEF HonestInitiation
  <2>2. \A m \in net \cap Initiations : m.id # id
    <3>1. \A m \in net \cap Initiations : m.id \in 1..used.initiations
      BY OthersStart, Zenon DEF InitiationsHonest, HonestInitiation
    <3>. QED
      BY <1>0, <1>2, <3>1
  <2>3. \A m, o \in net \cap Initiations : m.id = o.id => m.static = o.static
    BY OthersStart, Zenon DEF InitiationsHonest
  <2>4. \A m \in net' \cap Initiations : m \in net \cap Initiations \/ m = m0
    BY <1>1, Zenon
  <2>5. \A m \in net' \cap Initiations : HonestInitiation(m)'
    BY <1>8, <2>1, <2>4, Zenon
  <2>6. \A m, o \in net' \cap Initiations : m.id = o.id => m.static = o.static
    BY <1>4, <2>2, <2>3, <2>4, Zenon
  <2>. QED
    BY <2>5, <2>6, Zenon DEF InitiationsHonest
<1>12. ClientsHonest'
  <2>1. ASSUME NEW d \in Clients, client'[d].initiation # 0
        PROVE  \E o \in net' \cap Initiations : o.id = client'[d].initiation /\ o.static = d
    <3>1. CASE d = c
      BY <1>1, <1>3, <1>4, <1>5, <3>1, Zenon
    <3>2. CASE d # c
      <4>1. client[d].initiation = client'[d].initiation
        BY <1>5, <3>2, Zenon
      <4>2. PICK o \in net \cap Initiations : o.id = client[d].initiation /\ o.static = d
        BY <2>1, <4>1, OthersStart, Zenon DEF ClientsHonest, MadeBy
      <4>. QED
        BY <1>1, <4>1, <4>2, Zenon
    <3>. QED
      BY <3>1, <3>2, Zenon
  <2>2. ASSUME NEW d \in Clients, client'[d].session.number # 0
        PROVE  LET n == client'[d].session.number
               IN  /\ n \in DOMAIN accepted' /\ PublicKey(accepted'[n].peer) = d
                   /\ client'[d].session.peer_index = Index(n)
    <3>1. client'[d].session = client[d].session /\ accepted' = accepted
      BY <1>1, <1>5, Zenon
    <3>. QED
      BY <2>2, <3>1, OthersStart, Zenon DEF ClientsHonest
  <2>. QED
    BY <2>1, <2>2, Zenon DEF ClientsHonest, MadeBy
<1>13. net' \subseteq Initiations \cup Responses \cup DataDatagrams
  BY <1>1, <1>3, OthersStart, Zenon
<1>. QED
  BY <1>1, <1>2, <1>5, <1>6, <1>7, <1>10, <1>11, <1>12, <1>13, OthersKeep, Zenon

\* A client finishes a handshake with the response to its own initiation: the
\* number of the initiation tells whose it is.
LEMMA FinishKeeps ==
    ASSUME IInv, NEW c \in Clients, NEW m \in net, FinishHandshake(c, m)
    PROVE  IInv'
<1>. DEFINE session == [number |-> m.number, peer_index |-> m.sender_index, counter |-> 0]
<1>1. /\ UNCHANGED <<table, clock, net, accepted, written, emitted, used>>
      /\ m.type = "HANDSHAKE_RESP"
      /\ client[c].initiation # 0
      /\ m.initiation = client[c].initiation
      /\ client' = [client EXCEPT ![c].initiation = 0, ![c].session = session]
  BY Zenon DEF FinishHandshake, packet_parse_handshake_resp
<1>2. m \in Responses
  BY <1>1, OthersStart, Kinds, Zenon
<1>3. session \in [number : Nat, peer_index : Nat, counter : Counters]
  BY <1>2, SizesAssumption DEF Responses, Counters
<1>4. session.number = m.number /\ session.peer_index = m.sender_index
  BY Zenon
<1>. HIDE DEF session
<1>5. ASSUME NEW d \in Clients
      PROVE  /\ client'[d] \in ClientStates
             /\ client'[d].initiation = IF d = c THEN 0 ELSE client[d].initiation
             /\ client'[d].session = IF d = c THEN session ELSE client[d].session
  <2>1. client[d] \in ClientStates
    BY OthersStart, ClientFields, Zenon
  <2>2. CASE d = c
    <3>. DEFINE k == client[c]
                done == client'[c]
    <3>1. k \in ClientStates /\ done = [k EXCEPT !.initiation = 0, !.session = session]
      BY <1>1, <2>1, <2>2, OthersStart, Zenon
    <3>. HIDE DEF k, done
    <3>2. /\ done.initiation = 0 /\ done.session = session
          /\ done \in ClientStates
      BY <1>3, <3>1, Zenon DEF ClientStates
    <3>. QED
      BY <2>1, <2>2, <3>2, Zenon DEF k, done
  <2>3. CASE d # c
    <3>1. client'[d] = client[d]
      BY <1>1, <2>3, OthersStart, Zenon
    <3>. QED
      BY <2>1, <2>3, <3>1, Zenon
  <2>. QED
    BY <2>2, <2>3, Zenon
<1>6. client' \in [Clients -> ClientStates]
  <2>1. client' = [d \in Clients |-> client'[d]]
    BY <1>1, OthersStart, Zenon
  <2>. QED
    BY <1>5, <2>1, Zenon
<1>7. AcceptedGrows /\ TimeGoesOn
  BY <1>1, OthersStart, TimeStands, Zenon DEF AcceptedGrows
<1>8. InitiationsHonest' /\ ResponsesHonest' /\ DataHonest'
  BY <1>1, <1>7, OthersStart, NetStays, Zenon
<1>9. /\ m.number \in DOMAIN accepted
      /\ m.sender_index = Index(m.number)
      /\ PublicKey(accepted[m.number].peer) = c
  <2>1. HonestResponse(m)
    BY <1>2, OthersStart, Zenon DEF ResponsesHonest
  <2>2. PICK o \in net \cap Initiations :
            o.id = m.initiation /\ o.static = PublicKey(accepted[m.number].peer)
    BY <2>1, Zenon DEF HonestResponse, MadeBy
  <2>3. PICK p \in net \cap Initiations : p.id = m.initiation /\ p.static = c
    <3>1. MadeBy(c, m.initiation)
      BY <1>1, OthersStart, Zenon DEF ClientsHonest
    <3>. QED
      BY <3>1, Zenon DEF MadeBy
  <2>4. o.static = p.static
    BY <2>2, <2>3, OthersStart, Zenon DEF InitiationsHonest
  <2>. QED
    BY <2>1, <2>2, <2>3, <2>4, Zenon DEF HonestResponse
<1>10. ClientsHonest'
  <2>1. ASSUME NEW d \in Clients, client'[d].initiation # 0
        PROVE  \E o \in net' \cap Initiations : o.id = client'[d].initiation /\ o.static = d
    <3>1. client'[d].initiation = client[d].initiation
      BY <1>5, <2>1, Zenon
    <3>2. MadeBy(d, client[d].initiation)
      BY <2>1, <3>1, OthersStart, Zenon DEF ClientsHonest
    <3>. QED
      BY <1>1, <3>1, <3>2, Zenon DEF MadeBy
  <2>2. ASSUME NEW d \in Clients, client'[d].session.number # 0
        PROVE  LET n == client'[d].session.number
               IN  /\ n \in DOMAIN accepted' /\ PublicKey(accepted'[n].peer) = d
                   /\ client'[d].session.peer_index = Index(n)
    <3>1. CASE d = c
      <4>1. client'[c].session = session /\ accepted' = accepted
        BY <1>1, <1>5, <3>1, Zenon
      <4>. QED
        BY <1>4, <1>9, <3>1, <4>1, Zenon
    <3>2. CASE d # c
      <4>1. client'[d].session = client[d].session /\ accepted' = accepted
        BY <1>1, <1>5, <3>2, Zenon
      <4>. QED
        BY <2>2, <4>1, OthersStart, Zenon DEF ClientsHonest
    <3>. QED
      BY <3>1, <3>2, Zenon
  <2>. QED
    BY <2>1, <2>2, Zenon DEF ClientsHonest, MadeBy
<1>11. /\ net \subseteq net' /\ used' \in Uses /\ used'.reads = used.reads
       /\ net' \subseteq Initiations \cup Responses \cup DataDatagrams
  BY <1>1, OthersStart, UsedFields, Zenon
<1>. QED
  BY <1>1, <1>5, <1>6, <1>7, <1>8, <1>10, <1>11, OthersKeep, Zenon

\* A client sends a packet in its session, from where it is.
LEMMA SendKeeps ==
    ASSUME IInv, NEW c \in Clients, NEW packet \in Packets, SendPacket(c, packet)
    PROVE  IInv'
<1>0. PICK n, counter, key, cipher, m0 :
          /\ n = client[c].session.number
          /\ counter = client[c].session.counter
          /\ key = KeyToDaemon(n)
          /\ cipher = <<"aead", key, counter, <<>>, packet>>
          /\ m0 = [type |-> IF packet.size = 0 THEN "KEEPALIVE" ELSE "DATA",
                   length |-> DataLength(packet.size), from |-> client[c].location,
                   receiver_index |-> client[c].session.peer_index,
                   counter |-> counter, cipher |-> cipher]
  BY Zenon
<1>1. /\ UNCHANGED <<table, clock, accepted, written, emitted>>
      /\ n # 0
      /\ counter < MAX_COUNTER
      /\ Use("sends", MAX_SENDS)
      /\ client' = [client EXCEPT ![c].session.counter = @ + 1]
      /\ net' = net \cup {m0}
  <2>1. From(client[c].location,
             packet_serialize_data(client[c].session.peer_index, counter, cipher, packet.size))
          = m0
    BY <1>0, Zenon DEF From, packet_serialize_data
  <2>. QED
    BY <1>0, <2>1, Zenon DEF SendPacket, vpn_crypto_aead_encrypt
<1>2. used' \in Uses /\ used'.reads = used.reads /\ used'.initiations = used.initiations
      /\ used.initiations \in Nat
  BY <1>1, OthersStart, UsedFields, UseCounts
<1>3. n \in Nat /\ counter \in Counters /\ counter + 1 \in Counters
  BY <1>0, <1>1, OthersStart, ClientFields, SizesAssumption DEF Counters
<1>4. cipher \in Ciphers({"aead", "damaged"})
  <2>1. key \in Keys
    BY <1>0, <1>3, Zenon DEF Keys, KeyToDaemon
  <2>. QED
    BY <1>0, <1>3, <2>1, Zenon DEF Ciphers
<1>5. m0 \in DataDatagrams
  <2>1. client[c].location \in Endpoints /\ client[c].session.peer_index \in Nat
    BY OthersStart, ClientFields, Zenon DEF Endpoints
  <2>2. DataLength(packet.size) \in Nat /\ counter \in Nat
    BY <1>3, TunnelAssumption DEF DataLength, PACKET_DATA_HEADER_LEN, VPN_AUTH_TAG_LEN, Counters
  <2>. QED
    BY <1>0, <1>4, <2>1, <2>2, Zenon DEF DataDatagrams
<1>6. /\ m0.type \in {"KEEPALIVE", "DATA"}
      /\ m0.from = client[c].location
      /\ m0.receiver_index = client[c].session.peer_index
      /\ m0.counter = counter /\ m0.cipher = cipher
  BY <1>0, Zenon
<1>7. cipher[1] = "aead" /\ cipher[2] = key /\ cipher[3] = counter /\ key[2] = n
  BY <1>0, Zenon DEF KeyToDaemon
<1>8. /\ n \in DOMAIN accepted
      /\ PublicKey(accepted[n].peer) = c
      /\ client[c].session.peer_index = Index(n)
      /\ Index(n) \in Nat
  BY <1>0, <1>1, <1>3, OthersStart, IndexFacts, Zenon DEF ClientsHonest
<1>9. ASSUME NEW d \in Clients
      PROVE  /\ client'[d] \in ClientStates
             /\ client'[d].initiation = client[d].initiation
             /\ client'[d].session.number = client[d].session.number
             /\ client'[d].session.peer_index = client[d].session.peer_index
  <2>1. client[d] \in ClientStates
    BY OthersStart, ClientFields, Zenon
  <2>2. CASE d = c
    <3>. DEFINE k == client[c]
                old == client[c].session
                session == [client[c].session EXCEPT !.counter = counter + 1]
                sent == client'[c]
    <3>1. k \in ClientStates /\ sent = [k EXCEPT !.session = session]
      BY <1>0, <1>1, <2>1, <2>2, OthersStart, Zenon
    <3>2. /\ session \in [number : Nat, peer_index : Nat, counter : Counters]
          /\ session.number = old.number /\ session.peer_index = old.peer_index
      <4>1. old \in [number : Nat, peer_index : Nat, counter : Counters]
        BY OthersStart, ClientFields, Zenon
      <4>2. session = [old EXCEPT !.counter = counter + 1]
        BY Zenon
      <4>. HIDE DEF session, old
      <4>. QED
        BY <1>3, <4>1, <4>2, Zenon
    <3>. HIDE DEF k, session, sent
    <3>3. /\ sent.initiation = k.initiation /\ sent.session = session
          /\ sent \in ClientStates
      BY <3>1, <3>2, Zenon DEF ClientStates
    <3>. QED
      BY <2>1, <2>2, <3>2, <3>3, Zenon DEF k, sent
  <2>3. CASE d # c
    <3>1. client'[d] = client[d]
      BY <1>1, <2>3, OthersStart, Zenon
    <3>. QED
      BY <2>1, <2>3, <3>1, Zenon
  <2>. QED
    BY <2>2, <2>3, Zenon
<1>10. client' \in [Clients -> ClientStates]
  <2>1. client' = [d \in Clients |-> client'[d]]
    BY <1>1, OthersStart, Zenon
  <2>. QED
    BY <1>9, <2>1, Zenon
<1>11. AcceptedGrows /\ TimeGoesOn /\ net \subseteq net'
  BY <1>1, OthersStart, TimeStands, Zenon DEF AcceptedGrows
<1>12. /\ \A m \in net \cap Initiations : HonestInitiation(m)'
       /\ \A m \in net \cap Responses : HonestResponse(m)'
       /\ \A m \in net \cap DataDatagrams : HonestData(m)'
  <2>1. 0 \in Nat /\ used'.initiations = used.initiations + 0
    BY <1>2
  <2>. QED
    BY <1>11, <2>1, OthersStart, DatagramsStay, Zenon
<1>13. m0 \notin Responses /\ m0 \notin Initiations
  BY <1>6, Zenon DEF Responses, Initiations
<1>14. ResponsesHonest' /\ InitiationsHonest'
  <2>1. net' \cap Responses = net \cap Responses /\ net' \cap Initiations = net \cap Initiations
    BY <1>1, <1>13, Zenon
  <2>. QED
    BY <1>12, <2>1, OthersStart, Zenon DEF ResponsesHonest, InitiationsHonest
<1>15. DataHonest'
  <2>1. HonestData(m0)'
    BY <1>0, <1>1, <1>6, <1>7, <1>8, Zenon DEF HonestData
  <2>. QED
    BY <1>1, <1>12, <2>1, Zenon DEF DataHonest
<1>16. ClientsHonest'
  BY <1>9, <1>11, OthersStart, ClientsStay, Zenon
<1>17. net' \subseteq Initiations \cup Responses \cup DataDatagrams
  BY <1>1, <1>5, OthersStart, Zenon
<1>. QED
  BY <1>1, <1>2, <1>9, <1>10, <1>11, <1>14, <1>15, <1>16, <1>17, OthersKeep, Zenon

\* Damage to an initiation leaves its maker and its time alone.
LEMMA DamagedInitiation ==
    ASSUME NEW m \in Initiations, NEW damaged \in Damaged(m)
    PROVE  /\ damaged \in Initiations
           /\ damaged.id = m.id /\ damaged.static = m.static /\ damaged.sec = m.sec
<1>1. m.type = "HANDSHAKE_INIT" /\ Stranger \in Endpoints
  BY Zenon DEF Initiations, Endpoints
<1>2. \/ damaged = [m EXCEPT !.from = Stranger]
      \/ damaged = [m EXCEPT !.sender_index = 0]
      \/ damaged = [m EXCEPT !.intact = FALSE, !.from = Stranger]
  BY <1>1, Zenon DEF Damaged
<1>3. CASE damaged = [m EXCEPT !.from = Stranger]
  BY <1>1, <1>3, Zenon DEF Initiations
<1>4. CASE damaged = [m EXCEPT !.sender_index = 0]
  BY <1>4, Zenon DEF Initiations
<1>5. CASE damaged = [m EXCEPT !.intact = FALSE, !.from = Stranger]
  BY <1>1, <1>5, Zenon DEF Initiations
<1>. QED
  BY <1>2, <1>3, <1>4, <1>5, Zenon

\* Damage to data shows in its tag, or leaves what was encrypted alone.
LEMMA DamagedData ==
    ASSUME NEW m \in DataDatagrams, NEW damaged \in Damaged(m)
    PROVE  /\ damaged \in DataDatagrams
           /\ damaged.cipher[1] = "aead" => damaged.cipher = m.cipher
<1>1. m.type # "HANDSHAKE_INIT" /\ Stranger \in Endpoints
  BY Zenon DEF DataDatagrams, Endpoints
<1>. DEFINE cipher == [m.cipher EXCEPT ![1] = "damaged"]
<1>2. \/ damaged = [m EXCEPT !.from = Stranger]
      \/ damaged = [m EXCEPT !.type = "INVALID"]
      \/ damaged = [m EXCEPT !.receiver_index = m.receiver_index + 1, !.from = Stranger]
      \/ damaged = [m EXCEPT !.counter = m.counter + 1, !.from = Stranger]
      \/ damaged = [m EXCEPT !.cipher = cipher, !.from = Stranger]
  BY <1>1, Zenon DEF Damaged
<1>3. cipher \in Ciphers({"aead", "damaged"}) /\ cipher[1] = "damaged"
  <2>. DEFINE old == m.cipher
  <2>1. old \in Ciphers({"aead", "damaged"})
    BY Zenon DEF DataDatagrams
  <2>2. cipher = [old EXCEPT ![1] = "damaged"]
    BY Zenon
  <2>. HIDE DEF old, cipher
  <2>. QED
    BY <2>1, <2>2 DEF Ciphers
<1>. HIDE DEF cipher
<1>4. CASE damaged = [m EXCEPT !.from = Stranger]
  BY <1>1, <1>4, Zenon DEF DataDatagrams
<1>5. CASE damaged = [m EXCEPT !.type = "INVALID"]
  BY <1>5, Zenon DEF DataDatagrams
<1>6. CASE damaged = [m EXCEPT !.receiver_index = m.receiver_index + 1, !.from = Stranger]
  <2>1. m.receiver_index + 1 \in Nat
    BY DEF DataDatagrams
  <2>. QED
    BY <1>1, <1>6, <2>1, Zenon DEF DataDatagrams
<1>7. CASE damaged = [m EXCEPT !.counter = m.counter + 1, !.from = Stranger]
  <2>1. m.counter + 1 \in Nat
    BY DEF DataDatagrams
  <2>. QED
    BY <1>1, <1>7, <2>1, Zenon DEF DataDatagrams
<1>8. CASE damaged = [m EXCEPT !.cipher = cipher, !.from = Stranger]
  <2>1. damaged \in DataDatagrams /\ damaged.cipher = cipher
    BY <1>1, <1>3, <1>8, Zenon DEF DataDatagrams
  <2>. QED
    BY <1>3, <2>1, Zenon
<1>. QED
  BY <1>2, <1>4, <1>5, <1>6, <1>7, <1>8, Zenon

\* The network damages a datagram.
LEMMA DamageKeeps ==
    ASSUME IInv, NEW m \in net, Damage(m)
    PROVE  IInv'
<1>1. PICK damaged \in Damaged(m) :
          /\ UNCHANGED <<table, clock, client, accepted, written, emitted>>
          /\ m.type # "HANDSHAKE_RESP"
          /\ Use("damages", MAX_DAMAGES)
          /\ net' = net \cup {damaged}
  BY Zenon DEF Damage
<1>2. used' \in Uses /\ used'.reads = used.reads /\ used'.initiations = used.initiations
      /\ used.initiations \in Nat
  BY <1>1, OthersStart, UsedFields, UseCounts
<1>3. AcceptedGrows /\ TimeGoesOn /\ net \subseteq net'
  BY <1>1, OthersStart, TimeStands, Zenon DEF AcceptedGrows
<1>4. /\ \A o \in net \cap Initiations : HonestInitiation(o)'
      /\ \A o \in net \cap Responses : HonestResponse(o)'
      /\ \A o \in net \cap DataDatagrams : HonestData(o)'
  <2>1. 0 \in Nat /\ used'.initiations = used.initiations + 0
    BY <1>2
  <2>. QED
    BY <1>3, <2>1, OthersStart, DatagramsStay, Zenon
<1>5. \A o, p \in net \cap Initiations : o.id = p.id => o.static = p.static
  BY OthersStart, Zenon DEF InitiationsHonest
<1>6. /\ damaged \in Initiations \cup DataDatagrams
      /\ InitiationsHonest' /\ ResponsesHonest' /\ DataHonest'
  <2>1. CASE m \in Initiations
    <3>1. /\ damaged \in Initiations
          /\ damaged.id = m.id /\ damaged.static = m.static /\ damaged.sec = m.sec
      BY <2>1, DamagedInitiation, Zenon
    <3>2. damaged \notin Responses /\ damaged \notin DataDatagrams
      BY <3>1, Zenon DEF Initiations, Responses, DataDatagrams
    <3>3. HonestInitiation(damaged)'
      <4>1. HonestInitiation(m)'
        BY <1>4, <2>1, Zenon
      <4>. QED
        BY <3>1, <4>1, Zenon DEF HonestInitiation
    <3>4. \A o \in net' \cap Initiations : o \in net \cap Initiations \/ o = damaged
      BY <1>1, Zenon
    <3>5. \A o, p \in net' \cap Initiations : o.id = p.id => o.static = p.static
      BY <1>5, <2>1, <3>1, <3>4, Zenon
    <3>6. InitiationsHonest'
      BY <1>4, <3>3, <3>4, <3>5, Zenon DEF InitiationsHonest
    <3>7. net' \cap Responses = net \cap Responses /\ net' \cap DataDatagrams = net \cap DataDatagrams
      BY <1>1, <3>2, Zenon
    <3>. QED
      BY <1>4, <3>1, <3>6, <3>7, Zenon DEF ResponsesHonest, DataHonest
  <2>2. CASE m \in DataDatagrams
    <3>1. damaged \in DataDatagrams
      BY <2>2, DamagedData, Zenon
    <3>2. damaged \notin Responses /\ damaged \notin Initiations
      BY <3>1, Zenon DEF Initiations, Responses, DataDatagrams
    <3>3. HonestData(damaged)'
      <4>1. damaged.cipher[1] = "aead" => damaged.cipher = m.cipher
        BY <2>2, DamagedData, Zenon
      <4>2. HonestData(m)'
        BY <1>4, <2>2, Zenon
      <4>. QED
        BY <4>1, <4>2, Zenon DEF HonestData
    <3>4. DataHonest'
      BY <1>1, <1>4, <3>3, Zenon DEF DataHonest
    <3>5. net' \cap Responses = net \cap Responses /\ net' \cap Initiations = net \cap Initiations
      BY <1>1, <3>2, Zenon
    <3>. QED
      BY <1>4, <1>5, <3>1, <3>4, <3>5, Zenon DEF ResponsesHonest, InitiationsHonest
  <2>. QED
    BY <1>1, <2>1, <2>2, OthersStart, Kinds, Zenon
<1>7. ClientsHonest'
  BY <1>1, <1>3, OthersStart, ClientsStay, Zenon
<1>8. net' \subseteq Initiations \cup Responses \cup DataDatagrams
  BY <1>1, <1>6, OthersStart, Zenon
<1>9. client' \in [Clients -> ClientStates]
  BY <1>1, OthersStart, Zenon
<1>. QED
  BY <1>1, <1>2, <1>3, <1>6, <1>7, <1>8, <1>9, OthersKeep, Zenon
-----------------------------------------------------------------------------
(* The daemon accepts an initiation. *)

\* The peer with a client's key is the one configured with it.
LEMMA PeerOfClient ==
    ASSUME TypeOK, NEW c \in Clients, NEW i, i = peer_find_by_pubkey(table, c)
    PROVE  i \in DOMAIN Config /\ PublicKey(i) = c
<1>. DEFINE S == {j \in DOMAIN table.peers : table.peers[j].public_key = c}
<1>1. DOMAIN table.peers = DOMAIN Config
  BY Zenon DEF TypeOK
<1>2. \A j \in DOMAIN Config : table.peers[j].public_key = PublicKey(j)
  BY PeerFields, Zenon
<1>3. PICK j \in DOMAIN Config : PublicKey(j) = c
  BY Positions, Zenon
<1>4. S = {j} /\ j \in Nat
  BY <1>1, <1>2, <1>3, Positions
<1>5. i = FirstOf(S)
  BY Zenon DEF peer_find_by_pubkey
<1>6. i = j
  BY <1>4, <1>5, FirstOfOnly, Zenon
<1>. QED
  BY <1>3, <1>6, Zenon

\* The session handshake n makes.
NewSession(s, n, peer_index) ==
    /\ s \in Sessions /\ Established(s)
    /\ s.local_index = Index(n) /\ s.peer_index = peer_index
    /\ s.send_key = KeyToClient(n) /\ s.recv_key = KeyToDaemon(n)
    /\ s.sending_counter = 0 /\ s.replay_filter = replay_init

\* The zeroed session is a session.
LEMMA NoSessionType == NoSession \in Sessions
<1>1. replay_init \in Filters /\ 0 \in Counters /\ ZeroKey \in Keys
  BY InitRecords, SizesAssumption DEF Counters, Keys
<1>. QED
  BY <1>1, Zenon DEF NoSession, Sessions

\* What peer_init_session and peer_update_endpoint make of a peer.
LEMMA PeerAccepts ==
    ASSUME NEW i \in DOMAIN Config, NEW old \in PeerStates(i), NEW n, n \in Nat,
           NEW peer_index, peer_index \in Nat, NEW now, now \in Nat, NEW from \in Endpoints,
           NEW new, new = peer_update_endpoint(
                peer_init_session(old, Index(n), peer_index, KeyToClient(n), KeyToDaemon(n), now),
                from)
    PROVE  /\ new \in PeerStates(i)
           /\ new.endpoint = from
           /\ NewSession(new.current_session, n, peer_index)
           /\ new.previous_session = Retired(old)
           /\ new.last_handshake_time = now
<1>. DEFINE s == [NoSession EXCEPT
                    !.state = "ESTABLISHED", !.local_index = Index(n), !.peer_index = peer_index,
                    !.send_key = KeyToClient(n), !.recv_key = KeyToDaemon(n),
                    !.established_time = now]
            r == Retired(old)
<1>1. NewSession(s, n, peer_index)
  <2>1. PICK none : none = NoSession
    BY Zenon
  <2>2. none \in Sessions /\ none.sending_counter = 0 /\ none.replay_filter = replay_init
    BY <2>1, NoSessionType, Zenon DEF NoSession
  <2>3. Index(n) \in Nat /\ KeyToClient(n) \in Keys /\ KeyToDaemon(n) \in Keys
    BY IndexFacts, Zenon DEF Keys, KeyToClient, KeyToDaemon
  <2>4. s = [none EXCEPT
               !.state = "ESTABLISHED", !.local_index = Index(n), !.peer_index = peer_index,
               !.send_key = KeyToClient(n), !.recv_key = KeyToDaemon(n),
               !.established_time = now]
    BY <2>1, Zenon
  <2>. HIDE DEF s
  <2>. QED
    BY <2>2, <2>3, <2>4, Zenon DEF NewSession, Sessions, Established
<1>2. s \in Sessions
  BY <1>1, Zenon DEF NewSession
<1>3. r \in Sessions
  BY Zenon DEF Retired, PeerStates
<1>4. new = [[old EXCEPT !.previous_session = r, !.current_session = s,
                         !.last_handshake_time = now] EXCEPT !.endpoint = from]
  BY Zenon DEF peer_update_endpoint, peer_init_session
<1>. HIDE DEF s, r
<1>5. /\ new \in PeerStates(i) /\ new.endpoint = from
      /\ new.current_session = s /\ new.previous_session = r
      /\ new.last_handshake_time = now
  BY <1>2, <1>3, <1>4, Zenon DEF PeerStates
<1>. QED
  BY <1>1, <1>5, Zenon DEF r

\* The table after one peer was replaced.
PeerReplaced(i, new) ==
    /\ DOMAIN table' = {"peers", "next_local_index"}
    /\ DOMAIN table'.peers = DOMAIN Config
    /\ table'.peers[i] = new
    /\ \A j \in DOMAIN Config \ {i} : table'.peers[j] = table.peers[j]

\* What accepting an initiation changes.
LEMMA AcceptShape ==
    ASSUME TypeOK, NEW m \in net, AcceptInitiation(m),
           NEW n, n = Len(accepted) + 1
    PROVE  /\ m \in Initiations /\ m.intact
           /\ \E i \in DOMAIN Config : \E new \in PeerStates(i) :
                /\ PublicKey(i) = m.static
                /\ PeerReplaced(i, new)
                /\ new.endpoint = m.from
                /\ NewSession(new.current_session, n, m.sender_index)
                /\ new.previous_session = Retired(table.peers[i])
                /\ new.last_handshake_time = clock
                /\ ~Stale(m.sec, table.peers[i].last_handshake_time)
                /\ accepted' = Append(accepted, [peer |-> i, sender_index |-> m.sender_index])
           /\ table'.next_local_index = Index(n + 1)
           /\ net' = net \cup {[type |-> "HANDSHAKE_RESP",
                                length |-> PACKET_HANDSHAKE_RESP_LEN,
                                sender_index |-> Index(n),
                                receiver_index |-> m.sender_index,
                                initiation |-> m.id,
                                number |-> n]}
           /\ UNCHANGED <<clock, client, written, emitted, used>>
<1>1. m.type = "HANDSHAKE_INIT" /\ m.intact
  BY Zenon DEF AcceptInitiation, packet_parse_handshake_init
<1>2. m \in Initiations
  BY <1>1, Kinds, Zenon
<1>3. /\ m.static \in Clients /\ m.sender_index \in Nat /\ m.from \in Endpoints
  BY <1>2, Zenon DEF Initiations
<1>4. PICK i : i = peer_find_by_pubkey(table, m.static)
  BY Zenon
<1>5. i \in DOMAIN Config /\ PublicKey(i) = m.static
  BY <1>3, <1>4, PeerOfClient, Zenon
<1>6. /\ DOMAIN table = {"peers", "next_local_index"}
      /\ DOMAIN table.peers = DOMAIN Config
      /\ table.next_local_index = Index(n)
      /\ clock \in Nat \ {0}
  BY Zenon DEF TypeOK
<1>7. n \in Nat
  BY AcceptedFields
<1>8. PICK old, new :
          /\ old = NextLocalIndex(table).peers[i]
          /\ new = peer_update_endpoint(
                peer_init_session(old, Index(n), m.sender_index, KeyToClient(n), KeyToDaemon(n), clock),
                m.from)
  BY Zenon
<1>9. table' = [NextLocalIndex(table) EXCEPT !.peers[i] = new]
  BY <1>4, <1>6, <1>8, Zenon DEF AcceptInitiation
<1>10. PeerReplaced(i, new) /\ table'.next_local_index = (Index(n) + 1) % INDEX_MOD
  BY <1>5, <1>6, <1>9, Zenon DEF NextLocalIndex, PeerReplaced
<1>11. /\ new \in PeerStates(i)
       /\ new.endpoint = m.from
       /\ NewSession(new.current_session, n, m.sender_index)
       /\ new.previous_session = Retired(table.peers[i])
       /\ new.last_handshake_time = clock
  <2>1. old = table.peers[i]
    BY <1>6, <1>8, Zenon DEF NextLocalIndex
  <2>2. old \in PeerStates(i) /\ clock \in Nat
    BY <1>5, <1>6, <2>1, PeerFields, Zenon
  <2>. QED
    BY <1>3, <1>5, <1>7, <1>8, <2>1, <2>2, PeerAccepts
<1>12. table'.next_local_index = Index(n + 1)
  BY <1>7, <1>10, IndexFacts, Zenon
<1>13. /\ accepted' = Append(accepted, [peer |-> i, sender_index |-> m.sender_index])
       /\ ~Stale(m.sec, table.peers[i].last_handshake_time)
       /\ net' = net \cup {[type |-> "HANDSHAKE_RESP",
                                length |-> PACKET_HANDSHAKE_RESP_LEN,
                                sender_index |-> Index(n),
                                receiver_index |-> m.sender_index,
                                initiation |-> m.id,
                                number |-> n]}
       /\ UNCHANGED <<clock, client, written, emitted, used>>
  BY <1>4, <1>6, Zenon DEF AcceptInitiation
<1>. QED
  BY <1>1, <1>2, <1>5, <1>10, <1>11, <1>12, <1>13, Zenon

\* The number of a session that has the keys of handshake n.
LEMMA NumberOf ==
    ASSUME NEW s, NEW n, s.recv_key = KeyToDaemon(n)
    PROVE  Number(s) = n
<1>1. <<"to daemon", n>>[2] = n
  BY Zenon
<1>. QED
  BY <1>1, Zenon DEF Number, KeyToDaemon

\* A session that is live stays so when handshakes are added.
LEMMA LiveStays ==
    ASSUME AcceptedGrows, NEW i, NEW s, Live(i, s)
    PROVE  Live(i, s)'
  BY Zenon DEF Live, AcceptedGrows

\* What the next handshake adds.
LEMMA NextHandshake ==
    ASSUME TypeOK, NEW e, e \in [peer : DOMAIN Config, sender_index : Nat],
           accepted' = Append(accepted, e),
           NEW n, n = Len(accepted) + 1
    PROVE  /\ AcceptedGrows
           /\ accepted' \in Seq([peer : DOMAIN Config, sender_index : Nat])
           /\ Len(accepted') = n
           /\ n \in Nat \ {0}
           /\ DOMAIN accepted' = DOMAIN accepted \cup {n}
           /\ accepted'[n] = e
           /\ \A k \in DOMAIN accepted : k \in Nat /\ k < n
<1>1. PICK S : S = [peer : DOMAIN Config, sender_index : Nat]
  BY Zenon
<1>2. e \in S /\ accepted \in Seq(S)
  BY <1>1, AcceptedFields, Zenon
<1>3. /\ accepted' \in Seq(S)
      /\ Len(accepted') = n
      /\ DOMAIN accepted' = DOMAIN accepted \cup {n}
      /\ \A k \in DOMAIN accepted : accepted'[k] = accepted[k]
      /\ accepted'[n] = e
  BY <1>2, Appended
<1>4. n \in Nat \ {0} /\ \A k \in DOMAIN accepted : k \in Nat /\ k < n
  BY AcceptedFields
<1>. QED
  BY <1>1, <1>3, <1>4, Zenon DEF AcceptedGrows

\* Accepting handshake n makes its session the current one of its peer, and the
\* one of its last handshake the previous one.
LEMMA AcceptLives ==
    ASSUME TypeOK, NEW i, i \in DOMAIN Config, NEW old, NEW new,
           NEW n, n = Len(accepted) + 1, NEW sender_index, sender_index \in Nat,
           accepted' = Append(accepted, [peer |-> i, sender_index |-> sender_index]),
           PeerLive(i, old.current_session, old.previous_session),
           NewSession(new.current_session, n, sender_index),
           new.previous_session = Retired(old)
    PROVE  PeerLive(i, new.current_session, new.previous_session)'
<1>1. PICK c, p, s :
          c = old.current_session /\ p = old.previous_session /\ s = new.current_session
  BY Zenon
<1>2. /\ AcceptedGrows
      /\ n \in Nat \ {0}
      /\ DOMAIN accepted' = DOMAIN accepted \cup {n}
      /\ accepted'[n].peer = i /\ accepted'[n].sender_index = sender_index
      /\ \A k \in DOMAIN accepted : k \in Nat /\ k < n
  <2>1. PICK e : e = [peer |-> i, sender_index |-> sender_index]
    BY Zenon
  <2>2. e \in [peer : DOMAIN Config, sender_index : Nat] /\ accepted' = Append(accepted, e)
        /\ e.peer = i /\ e.sender_index = sender_index
    BY <2>1, Zenon
  <2>. QED
    BY <2>2, NextHandshake, Zenon
<1>3. NewSession(s, n, sender_index) /\ PeerLive(i, c, p)
  BY <1>1, Zenon
<1>4. Established(s) /\ Number(s) = n
  BY <1>3, NumberOf, Zenon DEF NewSession
<1>5. Live(i, s)'
  BY <1>2, <1>3, <1>4, Zenon DEF Live, NewSession
<1>6. /\ Live(i, c)' /\ Live(i, p)'
      /\ Established(c) => Number(c) \in DOMAIN accepted
  <2>1. Live(i, c) /\ Live(i, p)
    BY <1>3, Zenon DEF PeerLive
  <2>2. Live(i, c)' /\ Live(i, p)'
    BY <1>2, <2>1, LiveStays, Zenon
  <2>. QED
    BY <2>1, <2>2, Zenon DEF Live
<1>7. CASE Established(c)
  <2>1. new.previous_session = c
    BY <1>1, <1>7, Zenon DEF Retired
  <2>2. Number(c) < Number(s)
    BY <1>2, <1>4, <1>6, <1>7, Zenon
  <2>3. ASSUME NEW k \in DOMAIN accepted', accepted'[k].peer = i
        PROVE  LatestTwo(s, c, k)
    <3>1. CASE k = n
      BY <1>2, <1>4, <3>1 DEF LatestTwo
    <3>2. CASE k \in DOMAIN accepted
      <4>1. accepted[k].peer = i
        BY <1>2, <2>3, <3>2, Zenon DEF AcceptedGrows
      <4>2. k <= Number(c)
        BY <1>3, <3>2, <4>1, Zenon DEF PeerLive, LatestTwo
      <4>3. k <= Number(s)
        BY <1>2, <1>4, <3>2
      <4>. QED
        BY <1>4, <1>7, <4>2, <4>3, Zenon DEF LatestTwo
    <3>. QED
      BY <1>2, <2>3, <3>1, <3>2, Zenon
  <2>. QED
    BY <1>1, <1>4, <1>5, <1>6, <1>7, <2>1, <2>2, <2>3, Zenon DEF PeerLive
<1>8. CASE ~Established(c)
  <2>1. new.previous_session = p /\ ~Established(p)
    BY <1>1, <1>3, <1>8, Zenon DEF Retired, PeerLive
  <2>2. ASSUME NEW k \in DOMAIN accepted', accepted'[k].peer = i
        PROVE  LatestTwo(s, p, k)
    <3>1. CASE k = n
      BY <1>2, <1>4, <3>1 DEF LatestTwo
    <3>2. CASE k \in DOMAIN accepted
      BY <1>2, <1>3, <1>8, <2>2, <3>2, Zenon DEF PeerLive, LatestTwo, AcceptedGrows
    <3>. QED
      BY <1>2, <2>2, <3>1, <3>2, Zenon
  <2>. QED
    BY <1>1, <1>4, <1>5, <1>6, <2>1, <2>2, Zenon DEF PeerLive
<1>. QED
  BY <1>7, <1>8, Zenon

\* No packet was written or sent with the keys of a handshake still to come.
LEMMA KeysUnused ==
    ASSUME TypeOK, WrittenFromOwner, EmittedToOwner, NEW n, n = Len(accepted) + 1
    PROVE  /\ \A k \in DOMAIN written : written[k].key # KeyToDaemon(n)
           /\ \A k \in DOMAIN emitted : emitted[k].datagram.cipher[2] # KeyToClient(n)
<1>1. n \notin DOMAIN accepted
  BY AcceptedFields
<1>2. \A o : (KeyToDaemon(n) = KeyToDaemon(o) => n = o) /\ (KeyToClient(n) = KeyToClient(o) => n = o)
  BY Zenon DEF KeyToDaemon, KeyToClient
<1>3. ASSUME NEW k \in DOMAIN written PROVE written[k].key # KeyToDaemon(n)
  <2>1. PICK o \in DOMAIN accepted : written[k].key = KeyToDaemon(o)
    BY Zenon DEF WrittenFromOwner, FromOwner
  <2>. QED
    BY <1>1, <1>2, <2>1, Zenon
<1>4. ASSUME NEW k \in DOMAIN emitted PROVE emitted[k].datagram.cipher[2] # KeyToClient(n)
  <2>1. PICK o \in DOMAIN accepted : emitted[k].datagram.cipher[2] = KeyToClient(o)
    BY Zenon DEF EmittedToOwner, ToOwner
  <2>. QED
    BY <1>1, <1>2, <2>1, Zenon
<1>. QED
  BY <1>3, <1>4, Zenon

\* The daemon accepts an initiation.
LEMMA AcceptKeeps ==
    ASSUME IInv, NEW m \in net, AcceptInitiation(m)
    PROVE  IInv'
<1>1. /\ TypeOK /\ SessionsLive /\ FiltersRemember /\ CountersAhead /\ PeersReached
      /\ InitiationsHonest /\ ResponsesHonest /\ DataHonest /\ ClientsHonest
      /\ WrittenOnce /\ WrittenFromOwner /\ NonceUnique /\ EmittedToOwner
  BY Zenon DEF IInv
<1>2. PICK n : n = Len(accepted) + 1
  BY Zenon
<1>3. PICK r : r = [type |-> "HANDSHAKE_RESP", length |-> PACKET_HANDSHAKE_RESP_LEN,
                    sender_index |-> Index(n), receiver_index |-> m.sender_index,
                    initiation |-> m.id, number |-> n]
  BY Zenon
<1>4. /\ m \in Initiations /\ m.intact
      /\ table'.next_local_index = Index(n + 1)
      /\ net' = net \cup {r}
      /\ UNCHANGED <<clock, client, written, emitted, used>>
  BY <1>1, <1>2, <1>3, AcceptShape, Zenon
<1>5. PICK i \in DOMAIN Config : \E new \in PeerStates(i) :
          /\ PublicKey(i) = m.static
          /\ PeerReplaced(i, new)
          /\ new.endpoint = m.from
          /\ NewSession(new.current_session, n, m.sender_index)
          /\ new.previous_session = Retired(table.peers[i])
          /\ accepted' = Append(accepted, [peer |-> i, sender_index |-> m.sender_index])
  BY <1>1, <1>2, AcceptShape, Zenon
<1>6. PICK new \in PeerStates(i) :
          /\ PublicKey(i) = m.static
          /\ PeerReplaced(i, new)
          /\ new.endpoint = m.from
          /\ NewSession(new.current_session, n, m.sender_index)
          /\ new.previous_session = Retired(table.peers[i])
          /\ accepted' = Append(accepted, [peer |-> i, sender_index |-> m.sender_index])
  BY <1>5, Zenon
<1>7. m.sender_index \in Nat /\ m.id \in Nat
  BY <1>4, Zenon DEF Initiations
<1>8. /\ AcceptedGrows
      /\ accepted' \in Seq([peer : DOMAIN Config, sender_index : Nat])
      /\ Len(accepted') = n
      /\ n \in Nat \ {0}
      /\ DOMAIN accepted' = DOMAIN accepted \cup {n}
      /\ accepted'[n].peer = i /\ accepted'[n].sender_index = m.sender_index
      /\ \A k \in DOMAIN accepted : k \in Nat /\ k < n
  <2>1. PICK e : e = [peer |-> i, sender_index |-> m.sender_index]
    BY Zenon
  <2>2. e \in [peer : DOMAIN Config, sender_index : Nat] /\ accepted' = Append(accepted, e)
        /\ e.peer = i /\ e.sender_index = m.sender_index
    BY <1>6, <1>7, <2>1, Zenon
  <2>. QED
    BY <1>1, <1>2, <2>2, NextHandshake, Zenon
<1>9. TimeGoesOn /\ net \subseteq net'
  BY <1>1, <1>4, TimeStands, Zenon
<1>10. /\ table'.peers[i] = new
       /\ \A j \in DOMAIN Config : j # i => table'.peers[j] = table.peers[j]
       /\ DOMAIN table' = {"peers", "next_local_index"}
       /\ DOMAIN table'.peers = DOMAIN Config
  BY <1>6, Zenon DEF PeerReplaced
<1>11. r \in Responses
  <2>1. Index(n) \in Nat /\ n \in Nat /\ PACKET_HANDSHAKE_RESP_LEN \in Nat
    BY <1>8, IndexFacts, Zenon DEF PACKET_HANDSHAKE_RESP_LEN
  <2>. QED
    BY <1>3, <1>7, <2>1, Zenon DEF Responses
<1>12. TypeOK'
  <2>1. \A j \in DOMAIN Config : table.peers[j] \in PeerStates(j)
    BY <1>1, PeerFields, Zenon
  <2>2. \A j \in DOMAIN Config : table'.peers[j] \in PeerStates(j)
    BY <1>10, <2>1, Zenon
  <2>3. table'.next_local_index = Index(Len(accepted') + 1)
    BY <1>4, <1>8, Zenon
  <2>4. net' \subseteq Initiations \cup Responses \cup DataDatagrams
    <3>1. net \subseteq Initiations \cup Responses \cup DataDatagrams
      BY <1>1, Zenon DEF TypeOK
    <3>. QED
      BY <1>4, <1>11, <3>1, Zenon
  <2>. QED
    BY <1>1, <1>4, <1>8, <1>10, <2>2, <2>3, <2>4, Zenon DEF TypeOK
<1>13. SessionsLive'
  <2>1. PeerLive(i, new.current_session, new.previous_session)'
    <3>1. PeerLive(i, table.peers[i].current_session, table.peers[i].previous_session)
      BY <1>1, Zenon DEF SessionsLive
    <3>2. PICK old : old = table.peers[i]
      BY Zenon
    <3>. QED
      BY <1>1, <1>2, <1>6, <1>7, <3>1, <3>2, AcceptLives, Zenon
  <2>2. ASSUME NEW j \in DOMAIN Config, j # i, NEW c, NEW p, PeerLive(j, c, p)
        PROVE  PeerLive(j, c, p)'
    <3>1. Live(j, c)' /\ Live(j, p)'
      <4>1. Live(j, c) /\ Live(j, p)
        BY <2>2, Zenon DEF PeerLive
      <4>. QED
        BY <1>8, <4>1, LiveStays, Zenon
    <3>2. ASSUME NEW k \in DOMAIN accepted', accepted'[k].peer = j
          PROVE  k \in DOMAIN accepted /\ accepted[k].peer = j
      BY <1>8, <2>2, <3>2, Zenon DEF AcceptedGrows
    <3>. QED
      BY <2>2, <3>1, <3>2, Zenon DEF PeerLive
  <2>3. ASSUME NEW j \in DOMAIN Config
        PROVE  PeerLive(j, table.peers[j].current_session, table.peers[j].previous_session)'
    <3>1. CASE j = i
      <4>1. PICK c, p : c = new.current_session /\ p = new.previous_session
        BY Zenon
      <4>2. PeerLive(i, c, p)'
        BY <2>1, <4>1, Zenon
      <4>3. table'.peers[j].current_session = c /\ table'.peers[j].previous_session = p
        BY <1>10, <3>1, <4>1, Zenon
      <4>. QED
        BY <3>1, <4>2, <4>3, Zenon
    <3>2. CASE j # i
      <4>1. PICK c, p : c = table.peers[j].current_session /\ p = table.peers[j].previous_session
        BY Zenon
      <4>2. PeerLive(j, c, p)'
        BY <1>1, <2>2, <3>2, <4>1, Zenon DEF SessionsLive
      <4>3. table'.peers[j].current_session = c /\ table'.peers[j].previous_session = p
        BY <1>10, <3>2, <4>1, Zenon
      <4>. QED
        BY <3>2, <4>2, <4>3, Zenon
    <3>. QED
      BY <3>1, <3>2, Zenon
  <2>. QED
    BY <2>3, Zenon DEF SessionsLive
<1>14. FiltersRemember'
  <2>1. Remembers(new.current_session)
    <3>1. {} \in SUBSET Counters /\ RecentPast(replay_init, {})
      BY InitRecords, Zenon
    <3>. QED
      BY <1>1, <1>2, <1>6, <3>1, KeysUnused, Zenon DEF Remembers, NewSession
  <2>2. /\ Remembers(new.previous_session)
        /\ \A j \in DOMAIN Config : Remembers(table.peers[j].current_session)
                                    /\ Remembers(table.peers[j].previous_session)
    BY <1>1, <1>6, Zenon DEF FiltersRemember, Retired
  <2>3. \A j \in DOMAIN Config : Remembers(table'.peers[j].current_session)
                                 /\ Remembers(table'.peers[j].previous_session)
    BY <1>10, <2>1, <2>2, Zenon
  <2>. QED
    BY <1>4, <2>3, Zenon DEF FiltersRemember, Remembers
<1>15. CountersAhead'
  <2>1. Ahead(new.current_session)
    <3>1. new.current_session.sending_counter <= used.reads
      BY <1>1, <1>6, UsedFields DEF NewSession
    <3>. QED
      BY <1>1, <1>2, <1>6, <3>1, KeysUnused, Zenon DEF Ahead, NewSession
  <2>2. \A j \in DOMAIN Config : Ahead(table'.peers[j].current_session)
    BY <1>1, <1>10, <2>1, Zenon DEF CountersAhead
  <2>. QED
    BY <1>4, <2>2, Zenon DEF CountersAhead, Ahead
<1>16. new.endpoint \in HeardFrom(i)
  <2>1. m.type = "HANDSHAKE_INIT"
    BY <1>4, Zenon DEF Initiations
  <2>2. Sealed(m, i)
    BY <1>4, <1>6, <2>1, Zenon DEF Sealed, PublicKey
  <2>. QED
    BY <1>6, <2>2, Zenon DEF HeardFrom
<1>17. PeersReached'
  <2>1. \A j \in DOMAIN Config :
            Established(table'.peers[j].current_session) =>
                table'.peers[j].endpoint \in HeardFrom(j)
    BY <1>1, <1>10, <1>16, Zenon DEF PeersReached
  <2>. QED
    BY <1>8, <1>9, <2>1, SealedStays, Zenon DEF PeersReached
<1>18. InitiationsHonest' /\ ResponsesHonest' /\ DataHonest'
  <2>1. net \subseteq net' /\ 0 \in Nat /\ used'.initiations = used.initiations + 0
    BY <1>1, <1>4, UsedFields
  <2>2. /\ \A o \in net \cap Initiations : HonestInitiation(o)'
        /\ \A o \in net \cap Responses : HonestResponse(o)'
        /\ \A o \in net \cap DataDatagrams : HonestData(o)'
    BY <1>1, <1>8, <1>9, <2>1, DatagramsStay, Zenon
  <2>3. r \notin Initiations /\ r \notin DataDatagrams
    BY <1>11, Zenon DEF Initiations, Responses, DataDatagrams
  <2>4. /\ net' \cap Initiations = net \cap Initiations
        /\ net' \cap DataDatagrams = net \cap DataDatagrams
    BY <1>4, <2>3, Zenon
  <2>5. HonestResponse(r)'
    <3>1. r.number = n /\ r.sender_index = Index(n) /\ r.initiation = m.id
      BY <1>3, Zenon
    <3>2. \E o \in net' \cap Initiations : o.id = m.id /\ o.static = PublicKey(i)
      BY <1>4, <1>6, <2>4, Zenon
    <3>3. n \in DOMAIN accepted' /\ accepted'[n].peer = i
      BY <1>8, Zenon
    <3>. QED
      BY <3>1, <3>2, <3>3, Zenon DEF HonestResponse, MadeBy
  <2>6. ResponsesHonest'
    BY <1>4, <2>2, <2>5, Zenon DEF ResponsesHonest
  <2>7. InitiationsHonest' /\ DataHonest'
    BY <1>1, <2>2, <2>4, Zenon DEF InitiationsHonest, DataHonest
  <2>. QED
    BY <2>6, <2>7, Zenon
<1>19. ClientsHonest'
  <2>1. net \subseteq net'
    BY <1>4, Zenon
  <2>. QED
    BY <1>1, <1>4, <1>8, <2>1, ClientsStay, Zenon
<1>20. WrittenOnce' /\ WrittenFromOwner' /\ NonceUnique' /\ EmittedToOwner'
  BY <1>1, <1>4, <1>8, <1>9, WrittenStays, EmittedStays, Zenon
<1>. QED
  BY <1>12, <1>13, <1>14, <1>15, <1>17, <1>18, <1>19, <1>20, Zenon DEF IInv
-----------------------------------------------------------------------------
(* The daemon receives data. *)

\* A search by index finds an established session with that index.
LEMMA FoundSession ==
    ASSUME TypeOK, NEW index, NEW found, found = peer_find_by_index(table, index),
           found.peer # NULL
    PROVE  /\ found.peer \in DOMAIN Config
           /\ found.session \in SessionNames
           /\ Session(found) \in Sessions
           /\ Established(Session(found))
           /\ Session(found).local_index = index
<1>. DEFINE S == {j \in DOMAIN table.peers :
                        \/ Owns(table.peers[j].current_session, index)
                        \/ Owns(table.peers[j].previous_session, index)}
            i == FirstOf(S)
<1>1. DOMAIN table.peers = DOMAIN Config
  BY Zenon DEF TypeOK
<1>2. S \in SUBSET (Nat \ {0})
  BY <1>1, Positions, Zenon
<1>3. found = IF index = 0 \/ i = NULL
              THEN [peer |-> NULL, session |-> "none"]
              ELSE [peer |-> i,
                    session |-> IF Owns(table.peers[i].current_session, index)
                                THEN "current_session"
                                ELSE "previous_session"]
  BY Zenon DEF peer_find_by_index
<1>4. i # NULL => i \in S
  BY <1>2, FirstOfIsIn, Zenon
<1>. HIDE DEF i
<1>5. i # NULL
  BY <1>3
<1>6. i \in DOMAIN Config /\ (\/ Owns(table.peers[i].current_session, index)
                              \/ Owns(table.peers[i].previous_session, index))
  BY <1>1, <1>4, <1>5, Zenon
<1>7. table.peers[i].current_session \in Sessions /\ table.peers[i].previous_session \in Sessions
  BY <1>6, PeerFields, Zenon
<1>8. /\ found.peer = i
      /\ found.session = IF Owns(table.peers[i].current_session, index)
                         THEN "current_session" ELSE "previous_session"
  BY <1>3
<1>9. CASE Owns(table.peers[i].current_session, index)
  <2>1. found.session = "current_session" /\ Session(found) = table.peers[i].current_session
    BY <1>8, <1>9, Zenon DEF Session
  <2>. QED
    BY <1>6, <1>7, <1>8, <1>9, <2>1, Zenon DEF Owns, SessionNames
<1>10. CASE ~Owns(table.peers[i].current_session, index)
  <2>1. found.session = "previous_session" /\ Session(found) = table.peers[i].previous_session
    BY <1>8, <1>10, Zenon DEF Session
  <2>. QED
    BY <1>6, <1>7, <1>8, <1>10, <2>1, Zenon DEF Owns, SessionNames
<1>. QED
  BY <1>9, <1>10, Zenon

\* Sessions of the same handshake in the same state.
SameKeys(s, t) ==
    /\ t.state = s.state /\ t.local_index = s.local_index /\ t.peer_index = s.peer_index
    /\ t.send_key = s.send_key /\ t.recv_key = s.recv_key

\* They are live alike.
LEMMA SameLives ==
    ASSUME NEW i, NEW c, NEW p, NEW d, NEW q, PeerLive(i, c, p), SameKeys(c, d), SameKeys(p, q)
    PROVE  PeerLive(i, d, q)
<1>1. /\ Established(d) <=> Established(c)
      /\ Established(q) <=> Established(p)
      /\ Number(d) = Number(c) /\ Number(q) = Number(p)
  BY Zenon DEF SameKeys, Established, Number
<1>2. Live(i, d) /\ Live(i, q)
  <2>1. Live(i, c) /\ Live(i, p)
    BY Zenon DEF PeerLive
  <2>. QED
    BY <1>1, <2>1, Zenon DEF Live, SameKeys
<1>3. \A n \in DOMAIN accepted : accepted[n].peer = i => LatestTwo(d, q, n)
  BY <1>1, Zenon DEF PeerLive, LatestTwo
<1>. QED
  BY <1>1, <1>2, <1>3, Zenon DEF PeerLive

\* The values of written's elements.
Writes ==
    [peer : DOMAIN Config, key : Keys, counter : Counters, packet : Packets, age : Int]

\* What receiving datagram m in session s changes, s being in the slot of peer i:
\* the filter has seen a counter, the endpoint is where m came from, and the packet
\* may be written.
Received(m, i, slot, s, new, write) ==
    /\ m \in DataDatagrams /\ m.type \in {"DATA", "KEEPALIVE"} /\ m.counter \in Counters
    /\ s = table.peers[i][slot] /\ Established(s) /\ s.local_index = m.receiver_index
    /\ replay_check(s.replay_filter, m.counter)
    /\ Authentic(m.cipher, <<>>, m.counter, s.recv_key)
    /\ PeerReplaced(i, new)
    /\ table'.next_local_index = table.next_local_index
    /\ new.endpoint = m.from
    /\ new.last_handshake_time = table.peers[i].last_handshake_time
    /\ \A other \in SessionNames \ {slot} : new[other] = table.peers[i][other]
    /\ new[slot].replay_filter = replay_update(s.replay_filter, m.counter)
    /\ new[slot].sending_counter = s.sending_counter
    /\ SameKeys(s, new[slot])
    /\ write.peer = i /\ write.key = s.recv_key /\ write.counter = m.counter
    /\ \/ Deliverable(table.peers[i], write.packet) /\ written' = Append(written, write)
       \/ written' = written
    /\ UNCHANGED <<clock, net, client, accepted, emitted, used>>

\* A filter that took a counter is a filter, and did not know the counter before.
LEMMA FilterTakes ==
    ASSUME NEW f, f \in Filters, NEW seen, seen \in SUBSET Counters, RecentPast(f, seen),
           NEW c, c \in Counters, replay_check(f, c),
           NEW both, both = seen \cup {c}
    PROVE  /\ replay_update(f, c) \in Filters
           /\ RecentPast(replay_update(f, c), both)
           /\ c \notin seen
<1>1. c \notin seen
  BY CheckIsExact, Zenon
<1>2. replay_update(f, c) \in Filters /\ RecentPast(replay_update(f, c), seen \cup {c})
  BY UpdateRecords, Zenon
<1>. QED
  BY <1>1, <1>2, Zenon

\* Receiving data changes that.
LEMMA ReceiveShape ==
    ASSUME TypeOK, FiltersRemember, NEW m \in net, ReceiveData(m)
    PROVE  \E i \in DOMAIN Config : \E slot \in SessionNames : \E s \in Sessions :
           \E new \in PeerStates(i) : \E write \in Writes :
               Received(m, i, slot, s, new, write)
<1>1. PICK found : found = peer_find_by_index(table, m.receiver_index)
  BY Zenon
<1>2. PICK i, slot : i = found.peer /\ slot = found.session
  BY Zenon
<1>3. PICK old, s, filter :
          /\ old = table.peers[i] /\ s = old[slot]
          /\ filter = replay_update(s.replay_filter, m.counter)
  BY Zenon
<1>4. PICK write : write = [peer |-> i, key |-> s.recv_key, counter |-> m.counter,
                            packet |-> m.cipher[5], age |-> clock - s.established_time]
  BY Zenon
<1>5. PICK t : t = [s EXCEPT !.replay_filter = filter]
  BY Zenon
<1>6. PICK new : new = [[old EXCEPT ![slot] = t] EXCEPT !.endpoint = m.from]
  BY Zenon
<1>7. Passes(m, found)
  BY <1>1, Zenon DEF ReceiveData
<1>8. /\ m.type \in {"DATA", "KEEPALIVE"}
      /\ i # NULL
      /\ Session(found) = s
      /\ replay_check(s.replay_filter, m.counter)
      /\ Authentic(m.cipher, <<>>, m.counter, s.recv_key)
  BY <1>2, <1>3, <1>7, Zenon DEF Passes, packet_parse_data, Session
<1>9. m \in DataDatagrams
  BY <1>8, Kinds, Zenon
<1>10. m.counter \in Counters /\ m.cipher[5] \in Packets /\ m.from \in Endpoints
  <2>1. /\ m.cipher \in Ciphers({"aead", "damaged"}) /\ m.cipher[3] = m.counter
        /\ m.from \in Endpoints
    BY <1>8, <1>9, Zenon DEF DataDatagrams, Authentic
  <2>. QED
    BY <2>1, Zenon DEF Ciphers
<1>11. /\ i \in DOMAIN Config /\ slot \in SessionNames
       /\ s \in Sessions /\ Established(s) /\ s.local_index = m.receiver_index
  <2>1. PICK index : index = m.receiver_index
    BY Zenon
  <2>2. found = peer_find_by_index(table, index) /\ found.peer # NULL
    BY <1>1, <1>2, <1>8, <2>1, Zenon
  <2>3. /\ found.peer \in DOMAIN Config
        /\ found.session \in SessionNames
        /\ Session(found) \in Sessions
        /\ Established(Session(found))
        /\ Session(found).local_index = index
    BY <2>2, FoundSession, Zenon
  <2>. QED
    BY <1>2, <1>8, <2>1, <2>3, Zenon
<1>12. filter \in Filters
  <2>1. Remembers(s)
    <3>1. \/ s = table.peers[i].current_session
          \/ s = table.peers[i].previous_session
      BY <1>3, <1>11, Zenon DEF SessionNames
    <3>. QED
      BY <1>11, <3>1, Zenon DEF FiltersRemember
  <2>2. PICK seen \in SUBSET Counters : RecentPast(s.replay_filter, seen)
    BY <1>11, <2>1, Zenon DEF Remembers
  <2>3. s.replay_filter \in Filters
    BY <1>11, Zenon DEF Sessions
  <2>. QED
    BY <1>3, <1>8, <1>10, <2>2, <2>3, FilterTakes, Zenon
<1>13. /\ t \in Sessions /\ t.replay_filter = filter /\ t.sending_counter = s.sending_counter
       /\ SameKeys(s, t)
  BY <1>5, <1>11, <1>12, Zenon DEF Sessions, SameKeys
<1>14. old \in PeerStates(i)
  BY <1>3, <1>11, PeerFields, Zenon
<1>15. /\ new \in PeerStates(i) /\ new.endpoint = m.from /\ new[slot] = t
       /\ new.last_handshake_time = old.last_handshake_time
       /\ \A other \in SessionNames \ {slot} : new[other] = old[other]
  <2>1. CASE slot = "current_session"
    <3>1. /\ new \in PeerStates(i) /\ new.endpoint = m.from
          /\ new.previous_session = old.previous_session /\ new.current_session = t
          /\ new.last_handshake_time = old.last_handshake_time
      BY <1>6, <1>10, <1>13, <1>14, <2>1, Zenon DEF PeerStates
    <3>. QED
      BY <2>1, <3>1, Zenon DEF SessionNames
  <2>2. CASE slot = "previous_session"
    <3>1. /\ new \in PeerStates(i) /\ new.endpoint = m.from
          /\ new.current_session = old.current_session /\ new.previous_session = t
          /\ new.last_handshake_time = old.last_handshake_time
      BY <1>6, <1>10, <1>13, <1>14, <2>2, Zenon DEF PeerStates
    <3>. QED
      BY <2>2, <3>1, Zenon DEF SessionNames
  <2>. QED
    BY <1>11, <2>1, <2>2, Zenon DEF SessionNames
<1>16. table' = [table EXCEPT !.peers[i] = new]
  <2>1. [old EXCEPT ![slot].replay_filter = replay_update(@, m.counter)] = [old EXCEPT ![slot] = t]
    BY <1>3, <1>5, Zenon
  <2>. QED
    BY <1>1, <1>2, <1>3, <1>6, <2>1, Zenon DEF ReceiveData, peer_update_endpoint
<1>17. DOMAIN table = {"peers", "next_local_index"} /\ DOMAIN table.peers = DOMAIN Config
  BY Zenon DEF TypeOK
<1>18. PeerReplaced(i, new) /\ table'.next_local_index = table.next_local_index
  BY <1>11, <1>16, <1>17, Zenon DEF PeerReplaced
<1>19. /\ \/ /\ Deliverable(old, m.cipher[5])
             /\ written' = Append(written, write)
          \/ written' = written
       /\ UNCHANGED <<clock, net, client, accepted, emitted, used>>
  BY <1>1, <1>2, <1>3, <1>4, <1>8, Zenon DEF ReceiveData, Plaintext
<1>20. /\ write \in Writes
       /\ write.peer = i /\ write.key = s.recv_key /\ write.counter = m.counter
       /\ write.packet = m.cipher[5]
  <2>1. s.recv_key \in Keys /\ s.established_time \in Nat
    BY <1>11, Zenon DEF Sessions
  <2>2. clock \in Nat \ {0}
    BY Zenon DEF TypeOK
  <2>3. clock - s.established_time \in Int
    BY <2>1, <2>2
  <2>. QED
    BY <1>4, <1>10, <1>11, <2>1, <2>3, Zenon DEF Writes
<1>21. Received(m, i, slot, s, new, write)
  BY <1>3, <1>8, <1>9, <1>10, <1>11, <1>13, <1>15, <1>18, <1>19, <1>20, Zenon DEF Received
<1>. QED
  BY <1>11, <1>15, <1>20, <1>21, Zenon

\* No two sessions of the table have the same keys.
LEMMA KeysTellSessions ==
    ASSUME TypeOK, SessionsLive,
           NEW i \in DOMAIN Config, NEW j \in DOMAIN Config,
           NEW a \in SessionNames, NEW b \in SessionNames,
           NEW s, s = table.peers[i][a], NEW t, t = table.peers[j][b],
           Established(s), Established(t), s.recv_key = t.recv_key
    PROVE  i = j /\ a = b
<1>1. ASSUME NEW k \in DOMAIN Config, NEW c \in SessionNames, NEW u, u = table.peers[k][c],
             Established(u)
      PROVE  Number(u) \in DOMAIN accepted /\ accepted[Number(u)].peer = k
  <2>1. \/ u = table.peers[k].current_session
        \/ u = table.peers[k].previous_session
    BY <1>1, Zenon DEF SessionNames
  <2>2. Live(k, table.peers[k].current_session) /\ Live(k, table.peers[k].previous_session)
    BY Zenon DEF SessionsLive, PeerLive
  <2>. QED
    BY <1>1, <2>1, <2>2, Zenon DEF Live
<1>2. Number(s) = Number(t)
  BY Zenon DEF Number
<1>3. i = j /\ Number(s) \in Nat
  BY <1>1, <1>2, AcceptedFields
<1>4. PICK c, p : c = table.peers[i].current_session /\ p = table.peers[i].previous_session
  BY Zenon
<1>5. Established(p) => Number(p) < Number(c)
  BY <1>4, Zenon DEF SessionsLive, PeerLive
<1>6. a # b => \/ s = c /\ t = p
               \/ s = p /\ t = c
  BY <1>3, <1>4, Zenon DEF SessionNames
<1>7. a = b
  BY <1>2, <1>3, <1>5, <1>6
<1>. QED
  BY <1>3, <1>7, Zenon

\* Data that the key of a peer's session authenticates is sealed by that peer.
LEMMA SessionSeals ==
    ASSUME SessionsLive, NEW m, m.type \in {"DATA", "KEEPALIVE"},
           NEW i \in DOMAIN Config, NEW slot \in SessionNames,
           NEW s, s = table.peers[i][slot], Established(s),
           Authentic(m.cipher, <<>>, m.counter, s.recv_key)
    PROVE  /\ Sealed(m, i)
           /\ Number(s) \in DOMAIN accepted /\ accepted[Number(s)].peer = i
           /\ s.recv_key = KeyToDaemon(Number(s))
<1>1. Live(i, s)
  <2>1. \/ s = table.peers[i].current_session
        \/ s = table.peers[i].previous_session
    BY Zenon DEF SessionNames
  <2>. QED
    BY <2>1, Zenon DEF SessionsLive, PeerLive
<1>2. PICK n : n = Number(s)
  BY Zenon
<1>3. n \in DOMAIN accepted /\ accepted[n].peer = i /\ s.recv_key = KeyToDaemon(n)
  BY <1>1, <1>2, Zenon DEF Live
<1>4. Sealed(m, i)
  BY <1>3, Zenon DEF Sealed
<1>. QED
  BY <1>2, <1>3, <1>4, Zenon

\* What a peer may send, by its AllowedIPs: what their texts say.
LEMMA AllowsIsCover ==
    ASSUME NEW i \in DOMAIN Config, NEW peer \in PeerStates(i), NEW ip \in Addresses
    PROVE  peer_allows_source_ip(peer, ip) <=> Allows(i, ip)
<1>1. PICK texts : texts = Config[i].texts
  BY Zenon
<1>2. peer.allowed_ips = [j \in DOMAIN texts |-> vpn_cidr_parse(texts[j])]
  BY <1>1, Zenon DEF PeerStates
<1>3. \A j \in DOMAIN texts : texts[j] \in CidrTexts /\ ~CidrError(texts[j])
  BY <1>1, TunnelAssumption, Zenon
<1>4. \A j \in DOMAIN texts : vpn_cidr_match(vpn_cidr_parse(texts[j]), ip) <=> Covers(texts[j], ip)
  BY <1>3, MatchIsCover, Zenon
<1>5. peer_allows_source_ip(peer, ip) <=>
          \E j \in DOMAIN texts : vpn_cidr_match(vpn_cidr_parse(texts[j]), ip)
  BY <1>2, Zenon DEF peer_allows_source_ip
<1>. QED
  BY <1>1, <1>4, <1>5, Zenon DEF Allows

\* The parts of the invariant that concern the daemon.
LEMMA DaemonStart ==
    ASSUME IInv
    PROVE  /\ TypeOK /\ SessionsLive /\ FiltersRemember /\ CountersAhead /\ PeersReached
           /\ InitiationsHonest /\ ResponsesHonest /\ DataHonest /\ ClientsHonest
           /\ WrittenOnce /\ WrittenFromOwner /\ NonceUnique /\ EmittedToOwner
  BY Zenon DEF IInv

\* A peer replaced by one with the same sessions leaves them live.
LEMMA ReplacedLives ==
    ASSUME SessionsLive, accepted' = accepted,
           NEW i \in DOMAIN Config, NEW new, PeerReplaced(i, new),
           SameKeys(table.peers[i].current_session, new.current_session),
           SameKeys(table.peers[i].previous_session, new.previous_session)
    PROVE  SessionsLive'
<1>1. ASSUME NEW j \in DOMAIN Config
      PROVE  PeerLive(j, table'.peers[j].current_session, table'.peers[j].previous_session)
  <2>1. PeerLive(j, table.peers[j].current_session, table.peers[j].previous_session)
    BY Zenon DEF SessionsLive
  <2>2. CASE j = i
    <3>1. table'.peers[j] = new
      BY <2>2, Zenon DEF PeerReplaced
    <3>2. PICK c, p, d, q : /\ c = table.peers[i].current_session
                            /\ p = table.peers[i].previous_session
                            /\ d = new.current_session /\ q = new.previous_session
      BY Zenon
    <3>3. PeerLive(j, c, p) /\ SameKeys(c, d) /\ SameKeys(p, q)
      BY <2>1, <2>2, <3>2, Zenon
    <3>4. PeerLive(j, d, q)
      BY <3>3, SameLives, Zenon
    <3>. QED
      BY <3>1, <3>2, <3>4, Zenon
  <2>3. CASE j # i
    <3>1. table'.peers[j] = table.peers[j]
      BY <2>3, Zenon DEF PeerReplaced
    <3>. QED
      BY <2>1, <3>1, Zenon
  <2>. QED
    BY <2>2, <2>3, Zenon
<1>. QED
  BY <1>1, Zenon DEF SessionsLive, PeerLive, Live, LatestTwo, Number

\* The daemon receives data: the counter was not written before, since the filter
\* has seen all that were, and the filter has now seen this one, too.
LEMMA ReceiveKeeps ==
    ASSUME IInv, NEW m \in net, ReceiveData(m)
    PROVE  IInv'
<1>1. PICK i \in DOMAIN Config, slot \in SessionNames, s \in Sessions :
          \E new \in PeerStates(i) : \E write \in Writes : Received(m, i, slot, s, new, write)
  BY DaemonStart, ReceiveShape, Zenon
<1>2. PICK new \in PeerStates(i), write \in Writes : Received(m, i, slot, s, new, write)
  BY <1>1, Zenon
<1>3. /\ m \in net \cap DataDatagrams /\ m.counter \in Counters
      /\ m.type \in {"DATA", "KEEPALIVE"}
      /\ s = table.peers[i][slot] /\ Established(s) /\ s.local_index = m.receiver_index
      /\ replay_check(s.replay_filter, m.counter)
      /\ Authentic(m.cipher, <<>>, m.counter, s.recv_key)
      /\ UNCHANGED <<clock, net, client, accepted, emitted, used>>
  BY <1>2, Zenon DEF Received
<1>4. /\ table'.peers[i] = new
      /\ \A j \in DOMAIN Config : j # i => table'.peers[j] = table.peers[j]
      /\ DOMAIN table' = {"peers", "next_local_index"}
      /\ DOMAIN table'.peers = DOMAIN Config
      /\ table'.next_local_index = table.next_local_index
  BY <1>2, Zenon DEF Received, PeerReplaced
<1>5. /\ new.endpoint = m.from
      /\ \A other \in SessionNames \ {slot} : new[other] = table.peers[i][other]
      /\ new[slot].replay_filter = replay_update(s.replay_filter, m.counter)
      /\ new[slot].sending_counter = s.sending_counter
      /\ SameKeys(s, new[slot])
  BY <1>2, Zenon DEF Received
<1>6. /\ write.peer = i /\ write.key = s.recv_key /\ write.counter = m.counter
      /\ \/ Deliverable(table.peers[i], write.packet) /\ written' = Append(written, write)
         \/ written' = written
  BY <1>2, Zenon DEF Received
<1>7. Remembers(s)
  <2>1. \/ s = table.peers[i].current_session
        \/ s = table.peers[i].previous_session
    BY <1>3, Zenon DEF SessionNames
  <2>. QED
    BY <2>1, DaemonStart, Zenon DEF FiltersRemember
<1>8. PICK seen \in SUBSET Counters :
          /\ RecentPast(s.replay_filter, seen)
          /\ \A k \in DOMAIN written : written[k].key = s.recv_key => written[k].counter \in seen
  BY <1>3, <1>7, Zenon DEF Remembers
<1>9. PICK both : both = seen \cup {m.counter}
  BY Zenon
<1>10. RecentPast(new[slot].replay_filter, both) /\ m.counter \notin seen
  <2>1. s.replay_filter \in Filters
    BY Zenon DEF Sessions
  <2>2. PICK f, c : f = s.replay_filter /\ c = m.counter
    BY Zenon
  <2>3. /\ f \in Filters /\ c \in Counters /\ replay_check(f, c)
        /\ RecentPast(f, seen) /\ both = seen \cup {c}
    BY <1>3, <1>8, <1>9, <2>1, <2>2, Zenon
  <2>4. RecentPast(replay_update(f, c), both) /\ c \notin seen
    BY <2>3, FilterTakes, Zenon
  <2>. QED
    BY <1>5, <2>2, <2>4, Zenon
<1>11. /\ Sealed(m, i)
       /\ Number(s) \in DOMAIN accepted /\ accepted[Number(s)].peer = i
       /\ s.recv_key = KeyToDaemon(Number(s))
  <2>1. SessionsLive
    BY DaemonStart, Zenon
  <2>. QED
    BY <1>3, <2>1, SessionSeals
<1>12. AcceptedGrows /\ TimeGoesOn /\ net \subseteq net'
  BY <1>3, DaemonStart, TimeStands, Zenon DEF AcceptedGrows
<1>13. \A k \in DOMAIN written' :
          \/ k \in DOMAIN written /\ written'[k] = written[k]
          \/ /\ k \notin DOMAIN written /\ written'[k] = write
             /\ DOMAIN written' = DOMAIN written \cup {k}
             /\ Deliverable(table.peers[i], write.packet)
  <2>1. CASE written' = written
    BY <2>1, Zenon
  <2>2. CASE /\ Deliverable(table.peers[i], write.packet)
             /\ written' = Append(written, write)
    <3>1. written \in Seq(Writes)
      BY DaemonStart, Zenon DEF TypeOK, Writes
    <3>2. PICK k : k = Len(written) + 1
      BY Zenon
    <3>3. /\ DOMAIN written' = DOMAIN written \cup {k}
          /\ \A n \in DOMAIN written : written'[n] = written[n]
          /\ written'[k] = write
          /\ k \notin DOMAIN written
      BY <2>2, <3>1, <3>2, Appended
    <3>. QED
      BY <2>2, <3>3, Zenon
  <2>. QED
    BY <1>6, <2>1, <2>2, Zenon
<1>14. written' \in Seq(Writes)
  <2>1. written \in Seq(Writes)
    BY DaemonStart, Zenon DEF TypeOK, Writes
  <2>. QED
    BY <1>6, <2>1, Appended
<1>15. TypeOK'
  <2>1. \A j \in DOMAIN Config : table'.peers[j] \in PeerStates(j)
    BY <1>4, DaemonStart, PeerFields, Zenon
  <2>. QED
    BY <1>3, <1>4, <1>14, <2>1, DaemonStart, Zenon DEF TypeOK, Writes
<1>16. /\ SameKeys(table.peers[i].current_session, new.current_session)
       /\ SameKeys(table.peers[i].previous_session, new.previous_session)
       /\ new.current_session.sending_counter = table.peers[i].current_session.sending_counter
  <2>1. CASE slot = "current_session"
    <3>1. /\ new.previous_session = table.peers[i].previous_session
          /\ SameKeys(table.peers[i].current_session, new.current_session)
          /\ new.current_session.sending_counter = table.peers[i].current_session.sending_counter
      BY <1>3, <1>5, <2>1, Zenon DEF SessionNames
    <3>. QED
      BY <3>1, Zenon DEF SameKeys
  <2>2. CASE slot = "previous_session"
    <3>1. /\ new.current_session = table.peers[i].current_session
          /\ SameKeys(table.peers[i].previous_session, new.previous_session)
      BY <1>3, <1>5, <2>2, Zenon DEF SessionNames
    <3>. QED
      BY <3>1, Zenon DEF SameKeys
  <2>. QED
    BY <2>1, <2>2, Zenon DEF SessionNames
<1>17. SessionsLive'
  <2>1. PeerReplaced(i, new)
    BY <1>2, Zenon DEF Received
  <2>. QED
    BY <1>3, <1>16, <2>1, DaemonStart, ReplacedLives, Zenon
<1>18. FiltersRemember'
  <2>1. ASSUME NEW j \in DOMAIN Config, NEW b \in SessionNames, NEW t, t = table'.peers[j][b],
               Established(t)
        PROVE  \E known \in SUBSET Counters :
                   /\ RecentPast(t.replay_filter, known)
                   /\ \A k \in DOMAIN written' :
                          written'[k].key = t.recv_key => written'[k].counter \in known
    <3>1. CASE j = i /\ b = slot
      <4>1. /\ t.recv_key = s.recv_key /\ t.replay_filter = new[slot].replay_filter
        BY <1>4, <1>5, <2>1, <3>1, Zenon DEF SameKeys
      <4>2. both \in SUBSET Counters /\ m.counter \in both /\ seen \subseteq both
        BY <1>3, <1>9, Zenon
      <4>3. \A k \in DOMAIN written' :
                written'[k].key = t.recv_key => written'[k].counter \in both
        BY <1>6, <1>8, <1>13, <4>1, <4>2, Zenon
      <4>. QED
        BY <1>10, <4>1, <4>2, <4>3, Zenon
    <3>2. CASE ~(j = i /\ b = slot)
      <4>1. t = table.peers[j][b]
        BY <1>4, <1>5, <2>1, <3>2, Zenon
      <4>2. t.recv_key # s.recv_key
        BY <1>3, <2>1, <3>2, <4>1, DaemonStart, KeysTellSessions
      <4>3. Remembers(t)
        <5>1. \/ t = table.peers[j].current_session
              \/ t = table.peers[j].previous_session
          BY <4>1, Zenon DEF SessionNames
        <5>. QED
          BY <5>1, DaemonStart, Zenon DEF FiltersRemember
      <4>4. PICK known \in SUBSET Counters :
                /\ RecentPast(t.replay_filter, known)
                /\ \A k \in DOMAIN written :
                       written[k].key = t.recv_key => written[k].counter \in known
        BY <2>1, <4>3, Zenon DEF Remembers
      <4>5. \A k \in DOMAIN written' :
                written'[k].key = t.recv_key => written'[k].counter \in known
        BY <1>6, <1>13, <4>2, <4>4, Zenon
      <4>. QED
        BY <4>4, <4>5, Zenon
    <3>. QED
      BY <3>1, <3>2, Zenon
  <2>2. ASSUME NEW j \in DOMAIN Config, NEW b \in SessionNames, NEW t, t = table'.peers[j][b]
        PROVE  Remembers(t)'
    BY <2>1, <2>2, ZenonT(30) DEF Remembers
  <2>3. ASSUME NEW j \in DOMAIN Config
        PROVE  Remembers(table.peers[j].current_session)'
               /\ Remembers(table.peers[j].previous_session)'
    <3>1. PICK t, u : t = table'.peers[j].current_session /\ u = table'.peers[j].previous_session
      BY Zenon
    <3>2. Remembers(t)' /\ Remembers(u)'
      BY <2>2, <3>1, Zenon DEF SessionNames
    <3>. QED
      BY <3>1, <3>2, Zenon
  <2>. QED
    BY <2>3, Zenon DEF FiltersRemember
<1>19. CountersAhead'
  <2>1. Ahead(new.current_session)
    <3>1. Ahead(table.peers[i].current_session)
      BY DaemonStart, Zenon DEF CountersAhead
    <3>. QED
      BY <1>16, <3>1, Zenon DEF Ahead, SameKeys, Established
  <2>2. \A j \in DOMAIN Config : Ahead(table'.peers[j].current_session)
    BY <1>4, <2>1, DaemonStart, Zenon DEF CountersAhead
  <2>. QED
    BY <1>3, <2>2, Zenon DEF CountersAhead, Ahead
<1>20. PeersReached'
  <2>1. m.from \in HeardFrom(i)
    BY <1>11, Zenon DEF HeardFrom
  <2>2. \A j \in DOMAIN Config :
            Established(table'.peers[j].current_session) =>
                table'.peers[j].endpoint \in HeardFrom(j)
    BY <1>4, <1>5, <2>1, DaemonStart, Zenon DEF PeersReached
  <2>. QED
    BY <1>12, <2>2, SealedStays, Zenon DEF PeersReached
<1>21. InitiationsHonest' /\ ResponsesHonest' /\ DataHonest' /\ ClientsHonest'
  <2>1. used'.initiations = used.initiations /\ net \subseteq net'
    BY <1>3, Zenon
  <2>2. InitiationsHonest' /\ ResponsesHonest' /\ DataHonest'
    BY <1>3, <1>12, <2>1, DaemonStart, NetStays, Zenon
  <2>3. ClientsHonest'
    BY <1>3, <1>12, <2>1, DaemonStart, ClientsStay, Zenon
  <2>. QED
    BY <2>2, <2>3, Zenon
<1>22. NonceUnique' /\ EmittedToOwner'
  BY <1>3, <1>12, DaemonStart, EmittedStays, Zenon
<1>23. WrittenOnce'
  <2>1. \A k \in DOMAIN written :
            ~(written[k].key = write.key /\ written[k].counter = write.counter)
    BY <1>6, <1>8, <1>10, Zenon
  <2>2. ASSUME NEW k \in DOMAIN written', NEW l \in DOMAIN written', k # l
        PROVE  <<written'[k].key, written'[k].counter>> # <<written'[l].key, written'[l].counter>>
    <3>1. CASE k \in DOMAIN written /\ l \in DOMAIN written
      <4>1. written'[k] = written[k] /\ written'[l] = written[l]
        BY <1>13, <3>1, Zenon
      <4>. QED
        BY <2>2, <3>1, <4>1, DaemonStart, Zenon DEF WrittenOnce
    <3>2. CASE k \notin DOMAIN written
      <4>1. written'[k] = write /\ l \in DOMAIN written /\ written'[l] = written[l]
        BY <1>13, <2>2, <3>2, Zenon
      <4>. QED
        BY <2>1, <4>1, Zenon
    <3>3. CASE l \notin DOMAIN written
      <4>1. written'[l] = write /\ k \in DOMAIN written /\ written'[k] = written[k]
        BY <1>13, <2>2, <3>3, Zenon
      <4>. QED
        BY <2>1, <4>1, Zenon
    <3>. QED
      BY <3>1, <3>2, <3>3, Zenon
  <2>. QED
    BY <2>2, Zenon DEF WrittenOnce
<1>24. WrittenFromOwner'
  <2>1. Deliverable(table.peers[i], write.packet) => FromOwner(write)
    <3>. SUFFICES ASSUME Deliverable(table.peers[i], write.packet) PROVE FromOwner(write)
      BY Zenon
    <3>1. write.packet \in Packets
      BY Zenon DEF Writes
    <3>2. write.packet.size \in Nat /\ write.packet.src \in Addresses
      BY <3>1, TunnelAssumption, Zenon
    <3>3. /\ write.packet.size >= IPV4_HEADER_LEN
          /\ peer_allows_source_ip(table.peers[i], write.packet.src)
          /\ write.packet.size \in 1..VPN_DEFAULT_INNER_MTU
      BY Zenon DEF Deliverable, tun_write
    <3>4. Allows(i, write.packet.src)
      BY <3>2, <3>3, DaemonStart, PeerFields, AllowsIsCover, Zenon
    <3>5. write.packet.size \in IPV4_HEADER_LEN..VPN_DEFAULT_INNER_MTU
      BY <3>2, <3>3, PacketAssumption DEF IPV4_HEADER_LEN
    <3>. QED
      BY <1>6, <1>11, <3>4, <3>5, Zenon DEF FromOwner
  <2>2. \A k \in DOMAIN written' : FromOwner(written'[k])
    BY <1>13, <2>1, DaemonStart, Zenon DEF WrittenFromOwner
  <2>. QED
    BY <1>3, <2>2, Zenon DEF WrittenFromOwner, FromOwner
<1>. QED
  BY <1>15, <1>17, <1>18, <1>19, <1>20, <1>21, <1>22, <1>23, <1>24, Zenon DEF IInv
-----------------------------------------------------------------------------
(* The daemon sends a packet it read from the TUN device. *)

\* A packet is routed to the first peer whose AllowedIPs cover its destination.
LEMMA RoutedToOwner ==
    ASSUME TypeOK, NEW packet \in Packets
    PROVE  /\ Routed(packet) = Owner(packet.dst)
           /\ Routed(packet) # NULL => Routed(packet) \in DOMAIN Config
<1>1. packet.dst \in Addresses
  BY TunnelAssumption, Zenon
<1>2. DOMAIN table.peers = DOMAIN Config
  BY Zenon DEF TypeOK
<1>3. ASSUME NEW i \in DOMAIN Config
      PROVE  peer_allows_source_ip(table.peers[i], packet.dst) <=> Allows(i, packet.dst)
  <2>1. PICK peer, ip : peer = table.peers[i] /\ ip = packet.dst
    BY Zenon
  <2>2. peer \in PeerStates(i) /\ ip \in Addresses
    BY <1>1, <2>1, PeerFields, Zenon
  <2>3. peer_allows_source_ip(peer, ip) <=> Allows(i, ip)
    BY <2>2, AllowsIsCover, Zenon
  <2>. QED
    BY <2>1, <2>3, Zenon
<1>4. {i \in DOMAIN table.peers : peer_allows_source_ip(table.peers[i], packet.dst)}
        = {i \in DOMAIN Config : Allows(i, packet.dst)}
  BY <1>2, <1>3, Zenon
<1>5. Routed(packet) = Owner(packet.dst)
  BY <1>4, Zenon DEF Routed, peer_find_by_dest_ip, Owner
<1>6. Owner(packet.dst) # NULL => Owner(packet.dst) \in DOMAIN Config
  <2>1. PICK S : S = {i \in DOMAIN Config : Allows(i, packet.dst)}
    BY Zenon
  <2>2. S \in SUBSET (Nat \ {0}) /\ S \subseteq DOMAIN Config
    BY <2>1, Positions, Zenon
  <2>3. FirstOf(S) # NULL => FirstOf(S) \in S
    BY <2>2, FirstOfIsIn, Zenon
  <2>. QED
    BY <2>1, <2>2, <2>3, Zenon DEF Owner
<1>. QED
  BY <1>5, <1>6, Zenon

\* The values of emitted's elements.
Emissions == [to : Endpoints, datagram : SentDatagrams]

\* A peer, its sending counter aside.
Uncounted(peer) == [peer EXCEPT !.current_session.sending_counter = 0]

\* What reading a packet for peer i changes: its current session has used up a
\* counter, with which the packet may have left.
Sent(packet, i, new, e) ==
    LET s == table.peers[i].current_session
        cipher == e.datagram.cipher
    IN  /\ i = Owner(packet.dst) /\ Established(s)
        /\ PeerReplaced(i, new)
        /\ table'.next_local_index = table.next_local_index
        /\ new.endpoint = table.peers[i].endpoint
        /\ new.previous_session = table.peers[i].previous_session
        /\ Uncounted(new) = Uncounted(table.peers[i])
        /\ SameKeys(s, new.current_session)
        /\ new.current_session.replay_filter = s.replay_filter
        /\ new.current_session.sending_counter = s.sending_counter + 1
        /\ e.to = table.peers[i].endpoint
        /\ e.datagram.receiver_index = s.peer_index
        /\ cipher[2] = s.send_key /\ cipher[3] = s.sending_counter /\ cipher[5] = packet
        /\ emitted' \in {emitted, Append(emitted, e)}
        /\ used' \in Uses /\ used'.reads = used.reads + 1
        /\ used'.initiations = used.initiations
        /\ UNCHANGED <<clock, net, client, accepted, written>>

\* Reading a packet changes that: no counter wraps.
LEMMA ReadShape ==
    ASSUME TypeOK, CountersAhead, NEW packet \in Packets, ReadTun(packet)
    PROVE  \E i \in DOMAIN Config : \E new \in PeerStates(i) : \E e \in Emissions :
               Sent(packet, i, new, e)
<1>1. PICK i, old, s :
          i = Routed(packet) /\ old = table.peers[i] /\ s = old.current_session
  BY Zenon
<1>2. /\ Use("reads", MAX_READS)
      /\ Sendable(packet)
      /\ UNCHANGED <<clock, net, client, accepted, written>>
  BY Zenon DEF ReadTun
<1>3. i # NULL /\ Established(s) /\ packet.size >= IPV4_HEADER_LEN
  BY <1>1, <1>2, Zenon DEF Sendable
<1>4. i \in DOMAIN Config /\ i = Owner(packet.dst)
  BY <1>1, <1>3, RoutedToOwner, Zenon
<1>5. old \in PeerStates(i) /\ s \in Sessions /\ old.endpoint \in Endpoints
  BY <1>1, <1>4, PeerFields, Zenon
<1>6. /\ used' \in Uses /\ used'.reads = used.reads + 1
      /\ used'.initiations = used.initiations
      /\ used.reads < MAX_READS
  <2>1. used \in Uses /\ used.reads < MAX_READS /\ used' = [used EXCEPT !.reads = @ + 1]
    BY <1>2, UsedFields, Zenon DEF Use
  <2>2. used.reads \in Nat /\ used.reads + 1 \in 0..MAX_READS
    BY <2>1, UsedFields
  <2>. QED
    BY <2>1, <2>2, Zenon DEF Uses
<1>7. PICK c : c = s.sending_counter
  BY Zenon
<1>8. c \in Counters /\ c + 1 \in Counters /\ NextCounter(c) = c + 1
  <2>1. c <= used.reads /\ c \in Counters
    BY <1>1, <1>4, <1>5, <1>7, Zenon DEF CountersAhead, Ahead, Sessions
  <2>2. c \in Nat /\ c + 1 <= MAX_COUNTER /\ MAX_COUNTER \in Nat
    BY <1>6, <2>1, UsedFields, TunnelAssumption, SizesAssumption DEF Counters
  <2>3. (c + 1) % (MAX_COUNTER + 1) = c + 1
    BY <2>2
  <2>. QED
    BY <2>1, <2>2, <2>3 DEF NextCounter, Counters
<1>9. PICK t : t = [s EXCEPT !.sending_counter = c + 1]
  BY Zenon
<1>10. /\ t \in Sessions /\ t.sending_counter = c + 1 /\ t.replay_filter = s.replay_filter
       /\ SameKeys(s, t)
  BY <1>5, <1>8, <1>9, Zenon DEF Sessions, SameKeys
<1>11. PICK new : new = [old EXCEPT !.current_session = t]
  BY Zenon
<1>12. /\ new \in PeerStates(i) /\ new.endpoint = old.endpoint
       /\ new.previous_session = old.previous_session /\ new.current_session = t
       /\ Uncounted(new) = Uncounted(old)
  <2>1. /\ new \in PeerStates(i) /\ new.endpoint = old.endpoint
        /\ new.previous_session = old.previous_session /\ new.current_session = t
    BY <1>5, <1>10, <1>11, Zenon DEF PeerStates
  <2>2. PICK u : u = [s EXCEPT !.sending_counter = 0]
    BY Zenon
  <2>3. [t EXCEPT !.sending_counter = 0] = u
    BY <1>9, <2>2
  <2>4. Uncounted(old) = [old EXCEPT !.current_session = u]
    BY <1>1, <2>2 DEF Uncounted
  <2>5. Uncounted(new) = [new EXCEPT !.current_session = u]
    BY <2>1, <2>3 DEF Uncounted
  <2>6. [new EXCEPT !.current_session = u] = [old EXCEPT !.current_session = u]
    BY <1>11
  <2>. QED
    BY <2>1, <2>4, <2>5, <2>6, Zenon
<1>13. DOMAIN table = {"peers", "next_local_index"} /\ DOMAIN table.peers = DOMAIN Config
  BY Zenon DEF TypeOK
<1>14. table' = [table EXCEPT !.peers[i].current_session.sending_counter = c + 1]
  BY <1>1, <1>7, <1>8, Zenon DEF ReadTun
<1>15. PeerReplaced(i, new) /\ table'.next_local_index = table.next_local_index
  <2>1. table' = [table EXCEPT !.peers[i] = new]
    BY <1>1, <1>9, <1>11, <1>14, Zenon
  <2>. QED
    BY <1>4, <1>13, <2>1, Zenon DEF PeerReplaced
<1>16. PICK cipher, datagram, e :
           /\ cipher = <<"aead", s.send_key, c, <<>>, packet>>
           /\ datagram = packet_serialize_data(s.peer_index, c, cipher, packet.size)
           /\ e = [to |-> old.endpoint, datagram |-> datagram]
  BY Zenon
<1>17. /\ cipher \in Ciphers({"aead"})
       /\ cipher[2] = s.send_key /\ cipher[3] = c /\ cipher[5] = packet
  <2>1. s.send_key \in Keys
    BY <1>5, Zenon DEF Sessions
  <2>. QED
    BY <1>8, <1>16, <2>1, Zenon DEF Ciphers
<1>18. /\ datagram \in SentDatagrams
       /\ datagram.receiver_index = s.peer_index /\ datagram.cipher = cipher
  <2>1. s.peer_index \in Nat
    BY <1>5, Zenon DEF Sessions
  <2>2. DataLength(packet.size) \in Nat
    BY TunnelAssumption DEF DataLength, PACKET_DATA_HEADER_LEN, VPN_AUTH_TAG_LEN
  <2>. QED
    BY <1>8, <1>16, <1>17, <2>1, <2>2, Zenon DEF SentDatagrams, packet_serialize_data
<1>19. e \in Emissions /\ e.to = old.endpoint /\ e.datagram = datagram
  BY <1>5, <1>16, <1>18, Zenon DEF Emissions
<1>20. emitted' \in {emitted, Append(emitted, e)}
  <2>1. emitted' = emitted \/ emitted' = Append(emitted, e)
    BY <1>1, <1>7, <1>16, Zenon DEF ReadTun, vpn_crypto_aead_encrypt
  <2>. QED
    BY <2>1, Zenon
<1>21. Sent(packet, i, new, e)
  BY <1>1, <1>2, <1>3, <1>4, <1>6, <1>7, <1>10, <1>12, <1>15, <1>17, <1>18, <1>19, <1>20, Zenon
     DEF Sent
<1>. QED
  BY <1>4, <1>12, <1>19, <1>21, Zenon

\* The daemon sends a packet: the counter is above all that were used with the key,
\* and the next one is above this one, too.
LEMMA ReadKeeps ==
    ASSUME IInv, NEW packet \in Packets, ReadTun(packet)
    PROVE  IInv'
<1>1. PICK i \in DOMAIN Config :
          \E new \in PeerStates(i) : \E e \in Emissions : Sent(packet, i, new, e)
  BY DaemonStart, ReadShape, Zenon
<1>2. PICK new \in PeerStates(i), e \in Emissions : Sent(packet, i, new, e)
  BY <1>1, Zenon
<1>3. PICK s, t : s = table.peers[i].current_session /\ t = new.current_session
  BY Zenon
<1>4. /\ i = Owner(packet.dst) /\ Established(s)
      /\ e.to = table.peers[i].endpoint
      /\ e.datagram.receiver_index = s.peer_index
      /\ e.datagram.cipher[2] = s.send_key
      /\ e.datagram.cipher[3] = s.sending_counter
      /\ e.datagram.cipher[5] = packet
      /\ emitted' \in {emitted, Append(emitted, e)}
  BY <1>2, <1>3, Zenon DEF Sent
<1>5. /\ table'.peers[i] = new
      /\ \A j \in DOMAIN Config : j # i => table'.peers[j] = table.peers[j]
      /\ DOMAIN table' = {"peers", "next_local_index"}
      /\ DOMAIN table'.peers = DOMAIN Config
      /\ table'.next_local_index = table.next_local_index
      /\ PeerReplaced(i, new)
  BY <1>2, Zenon DEF Sent, PeerReplaced
<1>6. /\ new.endpoint = table.peers[i].endpoint
      /\ new.previous_session = table.peers[i].previous_session
      /\ SameKeys(s, t)
      /\ t.replay_filter = s.replay_filter
      /\ t.sending_counter = s.sending_counter + 1
  BY <1>2, <1>3, Zenon DEF Sent
<1>7. /\ used' \in Uses /\ used'.reads = used.reads + 1
      /\ used'.initiations = used.initiations
      /\ UNCHANGED <<clock, net, client, accepted, written>>
  BY <1>2, Zenon DEF Sent
<1>8. /\ s.sending_counter \in Nat /\ used.reads \in Nat
      /\ s.sending_counter <= used.reads
      /\ \A k \in DOMAIN emitted : emitted[k].datagram.cipher[2] = s.send_key =>
             emitted[k].datagram.cipher[3] < s.sending_counter
  <2>1. s \in Sessions
    BY <1>3, DaemonStart, PeerFields, Zenon
  <2>2. s.sending_counter \in Nat /\ used.reads \in Nat
    BY <2>1, DaemonStart, UsedFields DEF Sessions, Counters
  <2>3. Ahead(s)
    BY <1>3, DaemonStart, Zenon DEF CountersAhead
  <2>. QED
    BY <1>4, <2>2, <2>3, Zenon DEF Ahead
<1>9. PICK n : n = Number(s)
  BY Zenon
<1>10. /\ n \in DOMAIN accepted /\ accepted[n].peer = i
       /\ s.send_key = KeyToClient(n) /\ s.peer_index = accepted[n].sender_index
  <2>1. Live(i, s)
    BY <1>3, DaemonStart, Zenon DEF SessionsLive, PeerLive
  <2>. QED
    BY <1>4, <1>9, <2>1, Zenon DEF Live
<1>11. AcceptedGrows /\ TimeGoesOn
  BY <1>7, DaemonStart, TimeStands, Zenon DEF AcceptedGrows
<1>12. emitted \in Seq(Emissions)
  BY DaemonStart, Zenon DEF TypeOK, Emissions
<1>13. /\ emitted' \in Seq(Emissions)
       /\ \A k \in DOMAIN emitted' :
            \/ k \in DOMAIN emitted /\ emitted'[k] = emitted[k]
            \/ /\ k \notin DOMAIN emitted /\ emitted'[k] = e
               /\ DOMAIN emitted' = DOMAIN emitted \cup {k}
  <2>1. CASE emitted' = emitted
    BY <1>12, <2>1, Zenon
  <2>2. CASE emitted' = Append(emitted, e)
    <3>1. PICK k : k = Len(emitted) + 1
      BY Zenon
    <3>2. /\ emitted' \in Seq(Emissions)
          /\ DOMAIN emitted' = DOMAIN emitted \cup {k}
          /\ \A l \in DOMAIN emitted : emitted'[l] = emitted[l]
          /\ emitted'[k] = e
          /\ k \notin DOMAIN emitted
      BY <1>12, <2>2, <3>1, Appended
    <3>. QED
      BY <3>2, Zenon
  <2>. QED
    BY <1>4, <2>1, <2>2, Zenon
<1>14. TypeOK'
  <2>1. \A j \in DOMAIN Config : table'.peers[j] \in PeerStates(j)
    BY <1>5, DaemonStart, PeerFields, Zenon
  <2>. QED
    BY <1>5, <1>7, <1>13, <2>1, DaemonStart, Zenon DEF TypeOK, Emissions, Uses
<1>15. SessionsLive'
  <2>1. SameKeys(table.peers[i].previous_session, new.previous_session)
    BY <1>6, Zenon DEF SameKeys
  <2>. QED
    BY <1>3, <1>5, <1>6, <1>7, <2>1, DaemonStart, ReplacedLives, Zenon
<1>16. FiltersRemember'
  <2>1. Remembers(t) /\ Remembers(new.previous_session)
    <3>1. Remembers(s) /\ Remembers(table.peers[i].previous_session)
      BY <1>3, DaemonStart, Zenon DEF FiltersRemember
    <3>. QED
      BY <1>4, <1>6, <3>1, Zenon DEF Remembers, SameKeys
  <2>2. \A j \in DOMAIN Config : Remembers(table'.peers[j].current_session)
                                 /\ Remembers(table'.peers[j].previous_session)
    BY <1>3, <1>5, <2>1, DaemonStart, Zenon DEF FiltersRemember
  <2>. QED
    BY <1>7, <2>2, Zenon DEF FiltersRemember, Remembers
<1>17. CountersAhead'
  <2>1. ASSUME NEW j \in DOMAIN Config, NEW u, u = table'.peers[j].current_session
        PROVE  Ahead(u)'
    <3>1. CASE j = i
      <4>1. u = t
        BY <1>3, <1>5, <2>1, <3>1, Zenon
      <4>2. t.sending_counter <= used'.reads
        <5>1. /\ t.sending_counter = s.sending_counter + 1
              /\ used'.reads = used.reads + 1
              /\ s.sending_counter \in Nat /\ used.reads \in Nat
              /\ s.sending_counter <= used.reads
          BY <1>6, <1>7, <1>8, Zenon
        <5>. QED
          BY <5>1
      <4>3. ASSUME NEW k \in DOMAIN emitted', emitted'[k].datagram.cipher[2] = t.send_key
            PROVE  emitted'[k].datagram.cipher[3] < t.sending_counter
        <5>1. t.send_key = s.send_key
          BY <1>6, Zenon DEF SameKeys
        <5>2. CASE k \in DOMAIN emitted /\ emitted'[k] = emitted[k]
          <6>1. PICK l : l = emitted[k].datagram.cipher[3]
            BY Zenon
          <6>2. l < s.sending_counter /\ l \in Nat
            <7>1. emitted[k].datagram \in SentDatagrams
              <8>1. emitted[k] \in Emissions
                BY <1>12, <5>2, SeqFields, Zenon
              <8>. QED
                BY <8>1, Zenon DEF Emissions
            <7>2. emitted[k].datagram.cipher \in Ciphers({"aead"})
              BY <7>1, Zenon DEF SentDatagrams
            <7>3. l \in Counters
              BY <6>1, <7>2, Zenon DEF Ciphers
            <7>. QED
              BY <1>8, <4>3, <5>1, <5>2, <6>1, <7>3 DEF Counters
          <6>. QED
            BY <1>6, <1>8, <5>2, <6>1, <6>2
        <5>3. CASE emitted'[k] = e
          BY <1>4, <1>6, <1>8, <5>3
        <5>. QED
          BY <1>13, <5>2, <5>3, Zenon
      <4>. QED
        BY <4>1, <4>2, <4>3, Zenon DEF Ahead
    <3>2. CASE j # i
      <4>1. u = table.peers[j].current_session
        BY <1>5, <2>1, <3>2, Zenon
      <4>2. Ahead(u) /\ Live(j, u)
        BY <4>1, DaemonStart, Zenon DEF CountersAhead, SessionsLive, PeerLive
      <4>3. u.sending_counter <= used'.reads
        <5>1. u \in Sessions
          BY <4>1, DaemonStart, PeerFields, Zenon
        <5>2. u.sending_counter \in Nat
          BY <5>1 DEF Sessions, Counters
        <5>3. u.sending_counter <= used.reads
          BY <4>2, Zenon DEF Ahead
        <5>. QED
          BY <1>7, <1>8, <5>2, <5>3
      <4>4. Established(u) => u.send_key # s.send_key
        <5>. SUFFICES ASSUME Established(u), u.send_key = s.send_key PROVE FALSE
          BY Zenon
        <5>1. u.send_key = KeyToClient(Number(u)) /\ accepted[Number(u)].peer = j
          BY <4>2, Zenon DEF Live
        <5>2. Number(u) = n
          <6>1. \A x, y : KeyToClient(x) = KeyToClient(y) => x = y
            BY Zenon DEF KeyToClient
          <6>. QED
            BY <1>10, <5>1, <6>1, Zenon
        <5>. QED
          BY <1>10, <3>2, <5>1, <5>2, Zenon
      <4>5. ASSUME Established(u), NEW k \in DOMAIN emitted', emitted'[k].datagram.cipher[2] = u.send_key
            PROVE  emitted'[k].datagram.cipher[3] < u.sending_counter
        <5>1. emitted'[k] # e
          BY <1>4, <4>4, <4>5, Zenon
        <5>2. k \in DOMAIN emitted /\ emitted'[k] = emitted[k]
          BY <1>13, <5>1, Zenon
        <5>. QED
          BY <4>2, <4>5, <5>2, Zenon DEF Ahead
      <4>. QED
        BY <4>3, <4>5, Zenon DEF Ahead
    <3>. QED
      BY <3>1, <3>2, Zenon
  <2>2. ASSUME NEW j \in DOMAIN Config PROVE Ahead(table.peers[j].current_session)'
    <3>1. PICK u : u = table'.peers[j].current_session
      BY Zenon
    <3>2. Ahead(u)'
      BY <2>1, <3>1, Zenon
    <3>. QED
      BY <3>1, <3>2, Zenon
  <2>. QED
    BY <2>2, Zenon DEF CountersAhead
<1>18. PeersReached'
  <2>1. Established(t) <=> Established(s)
    BY <1>6, Zenon DEF SameKeys, Established
  <2>2. \A j \in DOMAIN Config :
            Established(table'.peers[j].current_session) =>
                table'.peers[j].endpoint \in HeardFrom(j)
    BY <1>3, <1>5, <1>6, <2>1, DaemonStart, Zenon DEF PeersReached
  <2>3. net \subseteq net'
    BY <1>7, Zenon
  <2>. QED
    BY <1>11, <2>2, <2>3, SealedStays, Zenon DEF PeersReached
<1>19. InitiationsHonest' /\ ResponsesHonest' /\ DataHonest' /\ ClientsHonest'
  <2>1. net \subseteq net'
    BY <1>7, Zenon
  <2>2. InitiationsHonest' /\ ResponsesHonest' /\ DataHonest'
    BY <1>7, <1>11, DaemonStart, NetStays, Zenon
  <2>3. ClientsHonest'
    BY <1>7, <1>11, <2>1, DaemonStart, ClientsStay, Zenon
  <2>. QED
    BY <2>2, <2>3, Zenon
<1>20. WrittenOnce' /\ WrittenFromOwner'
  BY <1>7, <1>11, DaemonStart, WrittenStays, Zenon
<1>21. NonceUnique'
  <2>1. ASSUME NEW k \in DOMAIN emitted
        PROVE  ~(/\ emitted[k].datagram.cipher[2] = e.datagram.cipher[2]
                 /\ emitted[k].datagram.cipher[3] = e.datagram.cipher[3])
    BY <1>4, <1>8
  <2>2. ASSUME NEW k \in DOMAIN emitted', NEW l \in DOMAIN emitted', k # l
        PROVE  <<emitted'[k].datagram.cipher[2], emitted'[k].datagram.cipher[3]>>
                 # <<emitted'[l].datagram.cipher[2], emitted'[l].datagram.cipher[3]>>
    <3>1. CASE k \in DOMAIN emitted /\ l \in DOMAIN emitted
      <4>1. emitted'[k] = emitted[k] /\ emitted'[l] = emitted[l]
        BY <1>13, <3>1, Zenon
      <4>. QED
        BY <2>2, <3>1, <4>1, DaemonStart, Zenon DEF NonceUnique
    <3>2. CASE k \notin DOMAIN emitted
      <4>1. emitted'[k] = e /\ l \in DOMAIN emitted /\ emitted'[l] = emitted[l]
        BY <1>13, <2>2, <3>2, Zenon
      <4>. QED
        BY <2>1, <4>1, Zenon
    <3>3. CASE l \notin DOMAIN emitted
      <4>1. emitted'[l] = e /\ k \in DOMAIN emitted /\ emitted'[k] = emitted[k]
        BY <1>13, <2>2, <3>3, Zenon
      <4>. QED
        BY <2>1, <4>1, Zenon
    <3>. QED
      BY <3>1, <3>2, <3>3, Zenon
  <2>. QED
    BY <2>2, Zenon DEF NonceUnique
<1>22. EmittedToOwner'
  <2>1. ToOwner(e.datagram, e.to, i)
    <3>1. e.to \in HeardFrom(i)
      BY <1>3, <1>4, DaemonStart, Zenon DEF PeersReached
    <3>. QED
      BY <1>4, <1>10, <3>1, Zenon DEF ToOwner
  <2>2. Owner(Plaintext(e.datagram.cipher).dst) = i
    BY <1>4, Zenon DEF Plaintext
  <2>3. \A k \in DOMAIN emitted' :
            ToOwner(emitted'[k].datagram, emitted'[k].to,
                    Owner(Plaintext(emitted'[k].datagram.cipher).dst))
    BY <1>13, <2>1, <2>2, DaemonStart, Zenon DEF EmittedToOwner
  <2>. QED
    BY <1>7, <2>3, Zenon DEF EmittedToOwner, ToOwner, HeardFrom, Sealed
<1>. QED
  BY <1>14, <1>15, <1>16, <1>17, <1>18, <1>19, <1>20, <1>21, <1>22, Zenon DEF IInv
-----------------------------------------------------------------------------
(* The start, the induction and what follows. *)

\* A configured peer, before anything is heard from it.
LEMMA ConfiguredPeer ==
    ASSUME NEW i \in DOMAIN Config
    PROVE  /\ Configured.peers[i] \in PeerStates(i)
           /\ Configured.peers[i].current_session = NoSession
           /\ Configured.peers[i].previous_session = NoSession
           /\ Configured.peers[i].endpoint = NoEndpoint
<1>1. PICK pk, texts, cidrs :
          /\ pk = PublicKey(i) /\ texts = Config[i].texts
          /\ cidrs = [j \in DOMAIN texts |-> vpn_cidr_parse(texts[j])]
  BY Zenon
<1>2. PICK fresh, added, new :
          /\ fresh = [public_key |-> pk, endpoint |-> NoEndpoint, allowed_ips |-> <<>>,
                      current_session |-> NoSession, previous_session |-> NoSession,
                      last_handshake_time |-> 0]
          /\ added = peer_add(peer_table_init, pk, NoEndpoint).peers[1]
          /\ new = [added EXCEPT !.allowed_ips = cidrs]
  BY Zenon
<1>3. Configured.peers[i] = new
  BY <1>1, <1>2, Zenon DEF Configured, peer_table_init, PublicKey
<1>4. added = fresh
  <2>1. CanAddPeer(peer_table_init, pk)
    <3>1. MAX_PEERS > 0
      BY TunnelAssumption, TableAssumption
    <3>2. peer_table_init.peers = <<>>
      BY Zenon DEF peer_table_init
    <3>3. peer_find_by_pubkey(peer_table_init, pk) = NULL
      BY <3>2 DEF peer_find_by_pubkey, FirstOf
    <3>. QED
      BY <3>1, <3>2, <3>3, Zenon DEF CanAddPeer
  <2>2. peer_add(peer_table_init, pk, NoEndpoint)
          = [peer_table_init EXCEPT !.peers = Append(@, fresh)]
    BY <1>2, <2>1, Zenon DEF peer_add
  <2>3. Append(<<>>, fresh)[1] = fresh
    OBVIOUS
  <2>. QED
    BY <1>2, <2>2, <2>3, Zenon DEF peer_table_init
<1>5. NoSession \in Sessions /\ NoEndpoint \in Endpoints
  BY NoSessionType, Zenon DEF Endpoints
<1>6. PICK none : none = NoSession
  BY Zenon
<1>7. /\ new.public_key = pk /\ new.endpoint = NoEndpoint /\ new.allowed_ips = cidrs
      /\ new.current_session = none /\ new.previous_session = none
      /\ new.last_handshake_time = 0
      /\ new \in [public_key : {pk}, endpoint : Endpoints, allowed_ips : {cidrs},
                  current_session : Sessions, previous_session : Sessions,
                  last_handshake_time : Nat]
  BY <1>2, <1>4, <1>5, <1>6
<1>8. new \in PeerStates(i)
  BY <1>1, <1>7, Zenon DEF PeerStates
<1>. QED
  BY <1>3, <1>6, <1>7, <1>8, Zenon

\* The invariant holds at the start.
LEMMA InitKeeps ==
    ASSUME Init
    PROVE  IInv
<1>1. /\ table = Configured /\ clock = 1 /\ net = {}
      /\ accepted = <<>> /\ written = <<>> /\ emitted = <<>>
      /\ client = [c \in Clients |->
                     [location |-> Home, initiation |-> 0, session |-> NoClientSession]]
      /\ used = [initiations |-> 0, sends |-> 0, reads |-> 0, moves |-> 0, damages |-> 0]
  BY Zenon DEF Init
<1>2. /\ DOMAIN table = {"peers", "next_local_index"}
      /\ DOMAIN table.peers = DOMAIN Config
      /\ table.next_local_index = 1
  BY <1>1, Zenon DEF Configured, peer_table_init
<1>3. ASSUME NEW i \in DOMAIN Config
      PROVE  /\ table.peers[i] \in PeerStates(i)
             /\ table.peers[i].current_session = NoSession
             /\ table.peers[i].previous_session = NoSession
             /\ table.peers[i].endpoint = NoEndpoint
  BY <1>1, ConfiguredPeer, Zenon
<1>4. ~Established(NoSession) /\ NoSession.sending_counter = 0
  BY Zenon DEF NoSession, Established
<1>5. DOMAIN accepted = {} /\ DOMAIN written = {} /\ DOMAIN emitted = {} /\ Len(accepted) = 0
  BY <1>1
<1>6. ASSUME NEW c \in Clients
      PROVE  /\ client[c] \in ClientStates
             /\ client[c].initiation = 0 /\ client[c].session.number = 0
  <2>1. PICK none, k :
            /\ none = NoClientSession
            /\ k = [location |-> Home, initiation |-> 0, session |-> none]
    BY Zenon
  <2>2. none \in [number : Nat, peer_index : Nat, counter : Counters] /\ none.number = 0
    BY <2>1, SizesAssumption DEF NoClientSession, Counters
  <2>3. Home \in Locations
    BY TunnelAssumption, Zenon
  <2>4. /\ k \in ClientStates /\ k.initiation = 0
        /\ k.session = none
    BY <2>1, <2>2, <2>3, Zenon DEF ClientStates
  <2>5. client[c] = k
    BY <1>1, <2>1, Zenon
  <2>. QED
    BY <2>2, <2>4, <2>5, Zenon
<1>7. TypeOK
  <2>1. client \in [Clients -> ClientStates]
    BY <1>1, <1>6, Zenon
  <2>2. used \in Uses
    <3>1. MAX_READS \in Nat
      BY TunnelAssumption, Zenon
    <3>. QED
      BY <1>1, <3>1 DEF Uses
  <2>3. /\ accepted \in Seq([peer : DOMAIN Config, sender_index : Nat])
        /\ written \in Seq(Writes) /\ emitted \in Seq(Emissions)
    BY <1>1
  <2>4. table.next_local_index = Index(Len(accepted) + 1)
    BY <1>2, <1>5, TableAssumption DEF Index
  <2>5. clock \in Nat \ {0} /\ net \subseteq Initiations \cup Responses \cup DataDatagrams
    BY <1>1
  <2>. QED
    BY <1>2, <1>3, <1>6, <2>1, <2>2, <2>3, <2>4, <2>5, Zenon DEF TypeOK, Uses, Writes, Emissions
<1>8. SessionsLive
  BY <1>3, <1>4, <1>5, Zenon DEF SessionsLive, PeerLive, Live
<1>9. FiltersRemember
  BY <1>3, <1>4, Zenon DEF FiltersRemember, Remembers
<1>10. CountersAhead
  <2>1. used.reads = 0 /\ 0 <= 0
    BY <1>1
  <2>. QED
    BY <1>3, <1>4, <2>1, Zenon DEF CountersAhead, Ahead
<1>11. PeersReached
  BY <1>3, <1>4, Zenon DEF PeersReached
<1>12. InitiationsHonest /\ ResponsesHonest /\ DataHonest
  BY <1>1, Zenon DEF InitiationsHonest, ResponsesHonest, DataHonest
<1>13. ClientsHonest
  BY <1>6, Zenon DEF ClientsHonest
<1>14. WrittenOnce /\ WrittenFromOwner /\ NonceUnique /\ EmittedToOwner
  BY <1>5, Zenon DEF WrittenOnce, WrittenFromOwner, NonceUnique, EmittedToOwner
<1>. QED
  BY <1>7, <1>8, <1>9, <1>10, <1>11, <1>12, <1>13, <1>14, Zenon DEF IInv

\* A step that changes nothing keeps the invariant.
LEMMA StutterKeeps ==
    ASSUME IInv, UNCHANGED vars
    PROVE  IInv'
<1>1. UNCHANGED <<table, clock, net, client, accepted, written, emitted, used>>
  BY Zenon DEF vars
<1>2. AcceptedGrows /\ TimeGoesOn /\ net \subseteq net'
  BY <1>1, OthersStart, TimeStands, Zenon DEF AcceptedGrows
<1>3. InitiationsHonest' /\ ResponsesHonest' /\ DataHonest'
  BY <1>1, <1>2, OthersStart, NetStays, Zenon
<1>4. ClientsHonest'
  BY <1>1, <1>2, OthersStart, ClientsStay, Zenon
<1>5. used \in Uses
  BY OthersStart, UsedFields, Zenon
<1>. QED
  BY <1>1, <1>2, <1>3, <1>4, <1>5, OthersStart, OthersKeep, Zenon

\* IInv is an invariant of the data plane.
THEOREM TunnelInvariant == Spec => []IInv
<1>1. Init => IInv
  BY InitKeeps, Zenon
<1>2. IInv /\ [Next]_vars => IInv'
  <2>. SUFFICES ASSUME IInv, [Next]_vars PROVE IInv'
    BY Zenon
  <2>1. ASSUME NEW m \in net, AcceptInitiation(m) PROVE IInv'
    BY <2>1, AcceptKeeps, Zenon
  <2>2. ASSUME NEW m \in net, ReceiveData(m) PROVE IInv'
    BY <2>2, ReceiveKeeps, Zenon
  <2>3. ASSUME NEW m \in net, DropDatagram(m) PROVE IInv'
    <3>1. UNCHANGED vars
      BY <2>3, Zenon DEF DropDatagram
    <3>. QED
      BY <3>1, StutterKeeps, Zenon
  <2>4. ASSUME NEW m \in net, Damage(m) PROVE IInv'
    BY <2>4, DamageKeeps, Zenon
  <2>5. ASSUME NEW packet \in Packets, ReadTun(packet) PROVE IInv'
    BY <2>5, ReadKeeps, Zenon
  <2>6. ASSUME NEW packet \in Packets, DropTun(packet) PROVE IInv'
    <3>1. UNCHANGED vars
      BY <2>6, Zenon DEF DropTun
    <3>. QED
      BY <3>1, StutterKeeps, Zenon
  <2>7. ASSUME NEW c \in Clients, StartHandshake(c) PROVE IInv'
    BY <2>7, StartKeeps, Zenon
  <2>8. ASSUME NEW c \in Clients, NEW m \in net, FinishHandshake(c, m) PROVE IInv'
    BY <2>8, FinishKeeps, Zenon
  <2>9. ASSUME NEW c \in Clients, NEW packet \in Packets, SendPacket(c, packet) PROVE IInv'
    BY <2>9, SendKeeps, Zenon
  <2>10. ASSUME NEW c \in Clients, Move(c) PROVE IInv'
    BY <2>10, MoveKeeps, Zenon
  <2>11. CASE Tick
    BY <2>11, TickKeeps, Zenon
  <2>12. CASE UNCHANGED vars
    BY <2>12, StutterKeeps, Zenon
  <2>. QED
    BY <2>1, <2>2, <2>3, <2>4, <2>5, <2>6, <2>7, <2>8, <2>9, <2>10, <2>11, <2>12, Zenon DEF Next
<1>. QED
  BY <1>1, <1>2, PTL DEF Spec

\* A session holds the handshake whose index it answers to, while the indices have
\* not wrapped.
LEMMA IndexTells ==
    ASSUME TypeOK, SessionsLive, Len(accepted) < INDEX_MOD,
           NEW n \in DOMAIN accepted, NEW j \in DOMAIN Config,
           NEW s, \/ s = table.peers[j].current_session
                  \/ s = table.peers[j].previous_session,
           Established(s)
    PROVE  /\ s.local_index = Index(n) <=> Number(s) = n
           /\ Number(s) \in DOMAIN accepted /\ accepted[Number(s)].peer = j
           /\ s.recv_key = KeyToDaemon(Number(s))
<1>1. Live(j, s)
  BY Zenon DEF SessionsLive, PeerLive
<1>2. /\ Number(s) \in DOMAIN accepted /\ accepted[Number(s)].peer = j
      /\ s.recv_key = KeyToDaemon(Number(s)) /\ s.local_index = Index(Number(s))
  BY <1>1, Zenon DEF Live
<1>3. \A m \in DOMAIN accepted : m \in 0..(INDEX_MOD - 1)
  BY AcceptedFields, TableAssumption
<1>4. \A m \in DOMAIN accepted : Index(m) = m
  BY <1>3, IndexFacts, Zenon
<1>. QED
  BY <1>2, <1>4, Zenon

\* While the indices have not wrapped, a client whose last response was lost still
\* finds its session.
LEMMA LostResponseLeavesSession ==
    ASSUME IInv, Len(accepted) < INDEX_MOD
    PROVE  SurvivesLostResponse
<1>1. TypeOK /\ SessionsLive /\ ClientsHonest
  BY DaemonStart, Zenon
<1>2. ASSUME NEW i \in DOMAIN Config, NEW mine, mine = client[PublicKey(i)].session,
             mine.number # 0,
             \A k, l \in DOMAIN accepted :
                 /\ k > mine.number /\ accepted[k].peer = i
                 /\ l > mine.number /\ accepted[l].peer = i
                 => k = l,
             NEW found, found = peer_find_by_index(table, mine.peer_index)
      PROVE  found.peer = i /\ Session(found).recv_key = KeyToDaemon(mine.number)
  <2>1. PICK n, index, c, p :
            /\ n = mine.number /\ index = mine.peer_index
            /\ c = table.peers[i].current_session /\ p = table.peers[i].previous_session
    BY Zenon
  <2>2. n \in DOMAIN accepted /\ accepted[n].peer = i /\ index = Index(n)
    <3>1. PublicKey(i) \in Clients
      BY Positions, Zenon
    <3>2. n \in DOMAIN accepted /\ PublicKey(accepted[n].peer) = PublicKey(i) /\ index = Index(n)
      BY <1>1, <1>2, <2>1, <3>1, Zenon DEF ClientsHonest
    <3>3. accepted[n].peer \in DOMAIN Config
      BY <1>1, <3>2, AcceptedFields, Zenon
    <3>. QED
      BY <3>2, <3>3, Positions, Zenon
  <2>3. n \in Nat /\ index # 0
    <3>1. n \in 1..(INDEX_MOD - 1)
      BY <1>1, <2>2, AcceptedFields, TableAssumption
    <3>2. Index(n) = n
      BY <3>1, IndexFacts
    <3>. QED
      BY <2>2, <3>1, <3>2
  <2>4. PeerLive(i, c, p)
    BY <1>1, <2>1, Zenon DEF SessionsLive
  <2>5. /\ Established(c) /\ n <= Number(c)
        /\ n # Number(c) => Established(p) /\ n <= Number(p)
        /\ Established(p) => Number(p) < Number(c)
    BY <2>2, <2>4, Zenon DEF PeerLive, LatestTwo
  <2>6. /\ Number(c) \in DOMAIN accepted /\ accepted[Number(c)].peer = i
        /\ Established(p) => Number(p) \in DOMAIN accepted /\ accepted[Number(p)].peer = i
    BY <2>4, <2>5, Zenon DEF PeerLive, Live
  <2>7. \/ Established(c) /\ Number(c) = n
        \/ Established(p) /\ Number(p) = n
    <3>1. PICK k, l : k = Number(c) /\ l = Number(p)
      BY Zenon
    <3>2. k \in Nat /\ (Established(p) => l \in Nat)
      BY <1>1, <2>6, <3>1, AcceptedFields
    <3>3. n # k /\ n # l => k > n /\ l > n /\ k # l /\ Established(p)
      BY <2>3, <2>5, <3>1, <3>2
    <3>4. k > n /\ l > n /\ Established(p) => k = l
      BY <1>2, <2>1, <2>6, <3>1, Zenon
    <3>. QED
      BY <2>5, <3>1, <3>3, <3>4, Zenon
  <2>8. PICK S : S = {j \in DOMAIN table.peers :
                        \/ Owns(table.peers[j].current_session, index)
                        \/ Owns(table.peers[j].previous_session, index)}
    BY Zenon
  <2>9. \A j \in DOMAIN Config :
            /\ Owns(table.peers[j].current_session, index) =>
                   Number(table.peers[j].current_session) = n /\ j = i
            /\ Owns(table.peers[j].previous_session, index) =>
                   Number(table.peers[j].previous_session) = n /\ j = i
    <3>1. ASSUME NEW j \in DOMAIN Config, NEW s, Owns(s, index),
                 \/ s = table.peers[j].current_session
                 \/ s = table.peers[j].previous_session
          PROVE  Number(s) = n /\ j = i
      <4>1. Established(s) /\ s.local_index = Index(n)
        BY <2>2, <3>1, Zenon DEF Owns
      <4>2. Number(s) = n /\ accepted[Number(s)].peer = j
        BY <1>1, <2>2, <3>1, <4>1, IndexTells, Zenon
      <4>. QED
        BY <2>2, <4>2, Zenon
    <3>. QED
      BY <3>1, Zenon
  <2>10. Owns(c, index) \/ Owns(p, index)
    <3>1. ASSUME NEW s, s = c \/ s = p, Established(s), Number(s) = n
          PROVE  Owns(s, index)
      <4>1. s.local_index = Index(n)
        BY <1>1, <2>1, <2>2, <3>1, IndexTells
      <4>. QED
        BY <2>2, <3>1, <4>1, Zenon DEF Owns
    <3>. QED
      BY <2>7, <3>1, Zenon
  <2>11. S = {i}
    <3>1. DOMAIN table.peers = DOMAIN Config
      BY <1>1, Zenon DEF TypeOK
    <3>. QED
      BY <2>1, <2>8, <2>9, <2>10, <3>1, Zenon
  <2>12. FirstOf(S) = i /\ i # NULL
    <3>1. i \in Nat /\ i # NULL
      BY Positions DEF NULL
    <3>. QED
      BY <2>11, <3>1, FirstOfOnly, Zenon
  <2>13. found.peer = i
    <3>1. \E b : found = [peer |-> i, session |-> b]
      BY <1>2, <2>1, <2>3, <2>8, <2>12, Zenon DEF peer_find_by_index
    <3>. QED
      BY <3>1
  <2>14. PICK s : s = Session(found)
    BY Zenon
  <2>15. found.session \in SessionNames /\ Established(s) /\ s.local_index = index
    BY <1>1, <1>2, <2>1, <2>12, <2>13, <2>14, FoundSession, Zenon
  <2>16. \/ s = table.peers[i].current_session
         \/ s = table.peers[i].previous_session
    BY <2>13, <2>14, <2>15, Zenon DEF Session, SessionNames
  <2>17. Number(s) = n /\ s.recv_key = KeyToDaemon(Number(s))
    BY <1>1, <2>2, <2>15, <2>16, IndexTells
  <2>. QED
    BY <2>1, <2>13, <2>14, <2>17, Zenon
<1>. QED
  <2>1. ASSUME NEW i \in DOMAIN Config,
               client[Config[i].public_key].session.number # 0,
               \A m, n \in {n \in DOMAIN accepted :
                              /\ n > client[Config[i].public_key].session.number
                              /\ accepted[n].peer = i} : m = n
        PROVE  LET found == peer_find_by_index(table, client[Config[i].public_key].session.peer_index)
               IN  /\ found.peer = i
                   /\ Session(found).recv_key = KeyToDaemon(client[Config[i].public_key].session.number)
    <3>1. PICK mine, found : /\ mine = client[Config[i].public_key].session
                             /\ found = peer_find_by_index(table, mine.peer_index)
      BY Zenon
    <3>2. mine = client[PublicKey(i)].session /\ mine.number # 0
      BY <2>1, <3>1, Zenon DEF PublicKey
    <3>3. ASSUME NEW k \in DOMAIN accepted, NEW l \in DOMAIN accepted,
                 k > mine.number, accepted[k].peer = i,
                 l > mine.number, accepted[l].peer = i
          PROVE  k = l
      BY <2>1, <3>1, <3>3, Zenon
    <3>4. found.peer = i /\ Session(found).recv_key = KeyToDaemon(mine.number)
      BY <1>2, <3>1, <3>2, <3>3
    <3>. QED
      BY <3>1, <3>4, Zenon
  <2>. QED
    BY <2>1, Zenon DEF SurvivesLostResponse

-----------------------------------------------------------------------------
(* What the daemon knows of a peer changes with what that peer has sealed. *)

\* A filter that takes a counter turns it down from then on, with all that it
\* turned down before.
LEMMA TakenStays ==
    ASSUME NEW f, f \in Filters, NEW seen, seen \in SUBSET Counters, RecentPast(f, seen),
           NEW c, c \in Counters, replay_check(f, c), NEW d, d \in Counters,
           d = c \/ ~replay_check(f, d)
    PROVE  ~replay_check(replay_update(f, c), d)
<1>1. PICK both, g : both = seen \cup {c} /\ g = replay_update(f, c)
  BY Zenon
<1>2. g \in Filters /\ RecentPast(g, both) /\ both \in SUBSET Counters
  BY <1>1, FilterTakes, Zenon
<1>3. replay_check(f, d) <=> d \notin seen /\ \A a \in seen : a < d + WINDOW_SIZE
  BY CheckIsExact, Zenon
<1>4. replay_check(g, d) <=> d \notin both /\ \A a \in both : a < d + WINDOW_SIZE
  BY <1>2, CheckIsExact, Zenon
<1>5. ~replay_check(g, d)
  BY <1>1, <1>3, <1>4, Zenon
<1>. QED
  BY <1>1, <1>5, Zenon

\* A datagram the session in the slot would take, or would not.
WouldTake(m, peer, slot) ==
    /\ Established(peer[slot])
    /\ Authentic(m.cipher, <<>>, m.counter, peer[slot].recv_key)
    /\ replay_check(peer[slot].replay_filter, m.counter)

\* That is what it is for data to be spent.
LEMMA DataSpent ==
    ASSUME NEW m, m.type # "HANDSHAKE_INIT", NEW i
    PROVE  /\ Spent(m, i) <=> \A slot \in SessionNames : ~WouldTake(m, table.peers[i], slot)
           /\ Spent(m, i)' <=> \A slot \in SessionNames : ~WouldTake(m, table'.peers[i], slot)
  BY Zenon DEF Spent, WouldTake

\* Accepting an initiation spends it, and leaves spent what was.
LEMMA AcceptTakes ==
    ASSUME IInv, NEW m \in net, AcceptInitiation(m), NEW i \in DOMAIN Config,
           Known(i)' # Known(i)
    PROVE  TakesOnce(i)
<1>1. PICK n : n = Len(accepted) + 1
  BY Zenon
<1>2. m \in Initiations /\ m.intact
  BY <1>1, DaemonStart, AcceptShape, Zenon
<1>3. PICK j \in DOMAIN Config : \E new \in PeerStates(j) :
          /\ PublicKey(j) = m.static
          /\ PeerReplaced(j, new)
          /\ new.endpoint = m.from
          /\ NewSession(new.current_session, n, m.sender_index)
          /\ new.previous_session = Retired(table.peers[j])
          /\ new.last_handshake_time = clock
          /\ ~Stale(m.sec, table.peers[j].last_handshake_time)
  BY <1>1, DaemonStart, AcceptShape, Zenon
<1>4. PICK new \in PeerStates(j) :
          /\ PublicKey(j) = m.static
          /\ PeerReplaced(j, new)
          /\ new.endpoint = m.from
          /\ NewSession(new.current_session, n, m.sender_index)
          /\ new.previous_session = Retired(table.peers[j])
          /\ new.last_handshake_time = clock
          /\ ~Stale(m.sec, table.peers[j].last_handshake_time)
  BY <1>3, Zenon
<1>5. j = i
  BY <1>4, Zenon DEF PeerReplaced, Known
<1>6. table'.peers[i] = new
  BY <1>4, <1>5, Zenon DEF PeerReplaced
<1>7. ASSUME NEW o \in net \cap Initiations PROVE Stale(o.sec, clock)
  <2>1. o.sec <= clock
    BY DaemonStart, Zenon DEF InitiationsHonest, HonestInitiation
  <2>2. clock # 0
    BY DaemonStart, Zenon DEF TypeOK
  <2>. QED
    BY <2>1, <2>2, Zenon DEF Stale
<1>8. /\ Sealed(m, i) /\ ~Spent(m, i) /\ Spent(m, i)'
      /\ table'.peers[i].endpoint = m.from
  <2>1. m.type = "HANDSHAKE_INIT"
    BY <1>2, Zenon DEF Initiations
  <2>2. Sealed(m, i)
    BY <1>2, <1>4, <1>5, <2>1, Zenon DEF Sealed, PublicKey
  <2>3. ~Spent(m, i)
    BY <1>4, <1>5, <2>1, Zenon DEF Spent
  <2>4. Spent(m, i)'
    BY <1>2, <1>4, <1>6, <1>7, <2>1, Zenon DEF Spent
  <2>. QED
    BY <1>4, <1>6, <2>2, <2>3, <2>4, Zenon
<1>9. ASSUME NEW o \in net, o.type # "HANDSHAKE_RESP", Spent(o, i) PROVE Spent(o, i)'
  <2>1. CASE o \in Initiations
    <3>1. o.type = "HANDSHAKE_INIT"
      BY <2>1, Zenon DEF Initiations
    <3>. QED
      BY <1>4, <1>6, <1>7, <2>1, <3>1, Zenon DEF Spent
  <2>2. CASE o \in DataDatagrams
    <3>1. o.type # "HANDSHAKE_INIT"
      BY <2>2, Zenon DEF DataDatagrams
    <3>2. ~WouldTake(o, new, "current_session")
      <4>. SUFFICES ASSUME WouldTake(o, new, "current_session") PROVE FALSE
        BY Zenon
      <4>1. o.cipher[1] = "aead" /\ o.cipher[2] = KeyToDaemon(n)
        BY <1>4, Zenon DEF WouldTake, Authentic, NewSession
      <4>2. KeyToDaemon(n)[2] = n
        BY Zenon DEF KeyToDaemon
      <4>3. n \in DOMAIN accepted
        BY <2>2, <4>1, <4>2, DaemonStart, Zenon DEF DataHonest, HonestData
      <4>. QED
        BY <1>1, <4>3, DaemonStart, AcceptedFields
    <3>3. ~WouldTake(o, new, "previous_session")
      <4>1. \A slot \in SessionNames : ~WouldTake(o, table.peers[i], slot)
        BY <1>9, <3>1, DataSpent, Zenon
      <4>2. \/ new.previous_session = table.peers[i].current_session
            \/ new.previous_session = table.peers[i].previous_session
        BY <1>4, <1>5, Zenon DEF Retired
      <4>. QED
        BY <4>1, <4>2, Zenon DEF WouldTake, SessionNames
    <3>4. \A slot \in SessionNames : ~WouldTake(o, table'.peers[i], slot)
      BY <1>6, <3>2, <3>3, Zenon DEF SessionNames
    <3>. QED
      BY <3>1, <3>4, DataSpent, Zenon
  <2>. QED
    BY <1>9, <2>1, <2>2, DaemonStart, Kinds, Zenon
<1>. QED
  BY <1>8, <1>9, Zenon DEF TakesOnce

\* Receiving data spends it, and leaves spent what was.
LEMMA ReceiveTakes ==
    ASSUME IInv, NEW m \in net, ReceiveData(m), NEW i \in DOMAIN Config,
           Known(i)' # Known(i)
    PROVE  TakesOnce(i)
<1>1. PICK j \in DOMAIN Config, slot \in SessionNames, s \in Sessions :
          \E new \in PeerStates(j) : \E write \in Writes : Received(m, j, slot, s, new, write)
  BY DaemonStart, ReceiveShape, Zenon
<1>2. PICK new \in PeerStates(j), write \in Writes : Received(m, j, slot, s, new, write)
  BY <1>1, Zenon
<1>3. /\ m \in net \cap DataDatagrams /\ m.counter \in Counters
      /\ m.type \in {"DATA", "KEEPALIVE"}
      /\ s = table.peers[j][slot] /\ Established(s)
      /\ replay_check(s.replay_filter, m.counter)
      /\ Authentic(m.cipher, <<>>, m.counter, s.recv_key)
      /\ PeerReplaced(j, new)
      /\ new.endpoint = m.from
      /\ new.last_handshake_time = table.peers[j].last_handshake_time
      /\ \A other \in SessionNames \ {slot} : new[other] = table.peers[j][other]
      /\ new[slot].replay_filter = replay_update(s.replay_filter, m.counter)
      /\ SameKeys(s, new[slot])
  BY <1>2, Zenon DEF Received
<1>4. j = i
  BY <1>3, Zenon DEF PeerReplaced, Known
<1>5. table'.peers[i] = new
  BY <1>3, <1>4, Zenon DEF PeerReplaced
<1>6. PICK f, t : f = s.replay_filter /\ t = new[slot]
  BY Zenon
<1>7. PICK seen \in SUBSET Counters : RecentPast(f, seen)
  <2>1. \/ s = table.peers[i].current_session
        \/ s = table.peers[i].previous_session
    BY <1>3, <1>4, Zenon DEF SessionNames
  <2>2. Remembers(s)
    BY <2>1, DaemonStart, Zenon DEF FiltersRemember
  <2>. QED
    BY <1>3, <1>6, <2>2, Zenon DEF Remembers
<1>8. ASSUME NEW d, d \in Counters, d = m.counter \/ ~replay_check(f, d)
      PROVE  ~replay_check(t.replay_filter, d)
  <2>1. f \in Filters
    BY <1>6, Zenon DEF Sessions
  <2>2. PICK c : c = m.counter
    BY Zenon
  <2>3. ~replay_check(replay_update(f, c), d)
    BY <1>3, <1>6, <1>7, <1>8, <2>1, <2>2, TakenStays, Zenon
  <2>. QED
    BY <1>3, <1>6, <2>2, <2>3, Zenon
<1>9. m.type # "HANDSHAKE_INIT"
  BY <1>3, Zenon
<1>10. /\ Sealed(m, i) /\ ~Spent(m, i) /\ Spent(m, i)'
       /\ table'.peers[i].endpoint = m.from
  <2>1. Sealed(m, i)
    <3>1. SessionsLive /\ s = table.peers[i][slot]
      BY <1>3, <1>4, DaemonStart, Zenon
    <3>. QED
      BY <1>3, <3>1, SessionSeals
  <2>2. WouldTake(m, table.peers[i], slot)
    BY <1>3, <1>4, Zenon DEF WouldTake
  <2>3. ~Spent(m, i)
    BY <1>9, <2>2, DataSpent, Zenon
  <2>4. ~WouldTake(m, new, slot)
    BY <1>3, <1>6, <1>8, Zenon DEF WouldTake
  <2>5. ASSUME NEW other \in SessionNames, other # slot, WouldTake(m, new, other) PROVE FALSE
    <3>1. PICK u : u = table.peers[i][other]
      BY Zenon
    <3>2. Established(u) /\ u.recv_key = s.recv_key
      BY <1>3, <1>4, <2>5, <3>1, Zenon DEF WouldTake, Authentic
    <3>3. TypeOK /\ SessionsLive /\ s = table.peers[i][slot] /\ Established(s)
      BY <1>3, <1>4, DaemonStart, Zenon
    <3>. QED
      BY <2>5, <3>1, <3>2, <3>3, KeysTellSessions
  <2>6. \A b \in SessionNames : ~WouldTake(m, table'.peers[i], b)
    BY <1>5, <2>4, <2>5, Zenon
  <2>7. Spent(m, i)'
    BY <1>9, <2>6, DataSpent, Zenon
  <2>. QED
    BY <1>3, <1>5, <2>1, <2>3, <2>7, Zenon
<1>11. ASSUME NEW o \in net, o.type # "HANDSHAKE_RESP", Spent(o, i) PROVE Spent(o, i)'
  <2>1. CASE o \in Initiations
    <3>1. o.type = "HANDSHAKE_INIT"
      BY <2>1, Zenon DEF Initiations
    <3>. QED
      BY <1>3, <1>4, <1>5, <1>11, <3>1, Zenon DEF Spent
  <2>2. CASE o \in DataDatagrams
    <3>1. o.type # "HANDSHAKE_INIT"
      BY <2>2, Zenon DEF DataDatagrams
    <3>2. \A b \in SessionNames : ~WouldTake(o, table.peers[i], b)
      BY <1>11, <3>1, DataSpent, Zenon
    <3>3. ASSUME NEW b \in SessionNames, WouldTake(o, new, b) PROVE FALSE
      <4>1. CASE b # slot
        <5>1. new[b] = table.peers[i][b]
          BY <1>3, <1>4, <4>1, Zenon
        <5>. QED
          BY <3>2, <3>3, <5>1, Zenon DEF WouldTake
      <4>2. CASE b = slot
        <5>1. /\ Established(s) /\ Authentic(o.cipher, <<>>, o.counter, s.recv_key)
              /\ replay_check(t.replay_filter, o.counter)
          BY <1>3, <1>6, <3>3, <4>2, Zenon DEF WouldTake, SameKeys, Established
        <5>2. ~replay_check(f, o.counter)
          BY <1>3, <1>4, <1>6, <3>2, <5>1, Zenon DEF WouldTake
        <5>3. o.counter \in Counters
          <6>1. o.cipher \in Ciphers({"aead", "damaged"}) /\ o.cipher[3] = o.counter
            BY <2>2, <5>1, Zenon DEF DataDatagrams, Authentic
          <6>. QED
            BY <6>1, Zenon DEF Ciphers
        <5>. QED
          BY <1>8, <5>1, <5>2, <5>3, Zenon
      <4>. QED
        BY <4>1, <4>2, Zenon
    <3>4. \A b \in SessionNames : ~WouldTake(o, table'.peers[i], b)
      BY <1>5, <3>3, Zenon
    <3>. QED
      BY <3>1, <3>4, DataSpent, Zenon
  <2>. QED
    BY <1>11, <2>1, <2>2, DaemonStart, Kinds, Zenon
<1>. QED
  BY <1>10, <1>11, Zenon DEF TakesOnce

\* Sending a packet changes nothing but a sending counter.
LEMMA ReadKnowsNoMore ==
    ASSUME IInv, NEW packet \in Packets, ReadTun(packet), NEW i \in DOMAIN Config
    PROVE  Known(i)' = Known(i)
<1>1. PICK j \in DOMAIN Config :
          \E new \in PeerStates(j) : \E e \in Emissions : Sent(packet, j, new, e)
  BY DaemonStart, ReadShape, Zenon
<1>2. PICK new \in PeerStates(j), e \in Emissions : Sent(packet, j, new, e)
  BY <1>1, Zenon
<1>3. PeerReplaced(j, new) /\ Uncounted(new) = Uncounted(table.peers[j])
  BY <1>2, Zenon DEF Sent
<1>4. Uncounted(table'.peers[i]) = Uncounted(table.peers[i])
  BY <1>3, Zenon DEF PeerReplaced
<1>. QED
  BY <1>4, Zenon DEF Known, Uncounted

\* handle_handshake_init, handle_data_packet: what the daemon knows of a peer, its
\* endpoint included, changes only with a datagram sealed by that peer which was not
\* taken before, and no datagram does so twice.
THEOREM MovedByFreshSeals == Spec => OnlyFreshSealMoves
<1>. DEFINE Moves == \A i \in DOMAIN Config : Known(i)' # Known(i) => TakesOnce(i)
<1>1. IInv /\ [Next]_vars => [Moves]_vars
  <2>. SUFFICES ASSUME IInv, Next, NEW i \in DOMAIN Config, Known(i)' # Known(i)
                PROVE  TakesOnce(i)
    BY Zenon
  <2>1. table' # table
    BY Zenon DEF Known
  <2>2. ASSUME NEW m \in net, AcceptInitiation(m) PROVE TakesOnce(i)
    BY <2>2, AcceptTakes, Zenon
  <2>3. ASSUME NEW m \in net, ReceiveData(m) PROVE TakesOnce(i)
    BY <2>3, ReceiveTakes, Zenon
  <2>4. ASSUME NEW packet \in Packets, ReadTun(packet) PROVE FALSE
    BY <2>4, ReadKnowsNoMore, Zenon
  <2>5. \/ \E m \in net : AcceptInitiation(m) \/ ReceiveData(m)
        \/ \E packet \in Packets : ReadTun(packet)
    BY <2>1, Zenon DEF Next, DropDatagram, DropTun, Damage, StartHandshake, FinishHandshake,
                       SendPacket, Move, Tick, vars
  <2>. QED
    BY <2>2, <2>3, <2>4, <2>5, Zenon
<1>. QED
  BY <1>1, TunnelInvariant, PTL DEF Spec, OnlyFreshSealMoves
-----------------------------------------------------------------------------
(* What the invariant means. *)

\* handle_data_packet: no counter of a session is written twice to the TUN.
THEOREM NothingWrittenTwice == Spec => []WrittenOnce
<1>1. IInv => WrittenOnce
  BY Zenon DEF IInv
<1>. QED
  BY <1>1, TunnelInvariant, PTL

\* handle_data_packet: what is written to the TUN came in a session with the peer
\* whose AllowedIPs cover its source.
THEOREM WrittenIsFromOwner == Spec => []WrittenFromOwner
<1>1. IInv => WrittenFromOwner
  BY Zenon DEF IInv
<1>. QED
  BY <1>1, TunnelInvariant, PTL

\* vpn_send_packet: no two datagrams are encrypted under one key and counter.
THEOREM NoNonceTwice == Spec => []NonceUnique
<1>1. IInv => NonceUnique
  BY Zenon DEF IInv
<1>. QED
  BY <1>1, TunnelInvariant, PTL

\* vpn_send_packet: a packet read from the TUN goes out under a key of the peer
\* that owns its destination, to where a datagram sealed by that peer came from.
THEOREM EmittedIsToOwner == Spec => []EmittedToOwner
<1>1. IInv => EmittedToOwner
  BY Zenon DEF IInv
<1>. QED
  BY <1>1, TunnelInvariant, PTL

\* handle_handshake_init: as long as the session indices have not wrapped around, a
\* client that missed the response to its latest handshake still has a session.
THEOREM LostResponseSurvived ==
    Spec /\ [](Len(accepted) < INDEX_MOD) => []SurvivesLostResponse
<1>1. IInv /\ Len(accepted) < INDEX_MOD => SurvivesLostResponse
  BY LostResponseLeavesSession
<1>. QED
  BY <1>1, TunnelInvariant, PTL
=============================================================================
