-------------------------- MODULE Handshake_proofs --------------------------
(***************************************************************************)
(* Proofs about the handshake, for any number of initiators, any clocks,   *)
(* and any number of handshakes, corruptions, losses and repetitions.      *)
(*                                                                         *)
(* Every argument is about what a key is made of.  A term determines what  *)
(* it was computed from, so a ciphertext that authenticates under a key    *)
(* names the two ephemeral keys and the static key that went into it       *)
(* (CreatedStamp, ConsumedStamp, AnsweredTerms, ConsumedResponse), and     *)
(* IInv says who can have made such a ciphertext.                          *)
(***************************************************************************)
EXTENDS HandshakeProtocol, FiniteSetTheorems, TLAPS

(* Terms. *)

\* What an expansion was computed from.
LEMMA ExpandInjective ==
    ASSUME NEW n, NEW k, NEW x, NEW m, NEW l, NEW y, Expand(n, k, x) = Expand(m, l, y)
    PROVE  n = m /\ k = l /\ x = y
  BY DEF Expand

\* Key pairs are told apart by their public halves, and no public half is the
\* point of low order.
LEMMA PublicInjective ==
    /\ \A a, b : public(a) = public(b) => a = b
    /\ \A a : public(a) # LowOrderPoint
    /\ \A i, j : StaticKey(i) = StaticKey(j) => i = j
    /\ \A n, m : Ephemeral(n) = Ephemeral(m) => n = m
  BY DEF public, LowOrderPoint, StaticKey, Ephemeral

\* A shared secret is made of the two public halves, and exists for any point
\* that vpn_crypto_dh does not refuse.
LEMMA DhTerm ==
    ASSUME NEW p, NEW k
    PROVE  /\ p # LowOrderPoint => vpn_crypto_dh(p, k) = <<"dh", {p, public(k)}>>
           /\ vpn_crypto_dh(p, k) # DhError => p # LowOrderPoint
  BY DEF vpn_crypto_dh, DhError

\* The key a timestamp is encrypted with.
StampKey(E, dh1, dh2) == Expand(2, Expand(1, Expand(1, InitialC, E), dh1), dh2)

\* What handshake_create_initiation encrypts the timestamp with.
LEMMA CreatedStamp ==
    ASSUME NEW i, NEW n, NEW sec
    PROVE  LET stamp == Created(i, n, sec).packet.encrypted_timestamp
           IN  /\ stamp[1] = "aead" /\ 1 \in DOMAIN stamp
               /\ stamp[2] = StampKey(public(Ephemeral(n)),
                                 <<"dh", {public(DaemonKey), public(Ephemeral(n))}>>,
                                 <<"dh", {public(DaemonKey), public(StaticKey(i))}>>)
               /\ Plaintext(stamp) = sec
<1> DEFINE stamp == Created(i, n, sec).packet.encrypted_timestamp
           dh1 == vpn_crypto_dh(public(DaemonKey), Ephemeral(n))
           dh2 == vpn_crypto_dh(public(DaemonKey), StaticKey(i))
<1>1. \E ad : stamp = <<"aead", StampKey(public(Ephemeral(n)), dh1, dh2), 0, ad, sec>>
  BY Zenon DEF Created, handshake_create_initiation, vpn_kdf2, vpn_kdf1,
      vpn_crypto_aead_encrypt, StampKey
<1>2. /\ dh1 = <<"dh", {public(DaemonKey), public(Ephemeral(n))}>>
      /\ dh2 = <<"dh", {public(DaemonKey), public(StaticKey(i))}>>
  BY DhTerm, PublicInjective
<1> HIDE DEF stamp, dh1, dh2
<1>. QED
  BY <1>1, <1>2 DEF Plaintext, stamp

\* The message that handshake_create_initiation builds.
LEMMA CreatedShape ==
    ASSUME NEW i, NEW n, NEW sec
    PROVE  LET p == Created(i, n, sec).packet
           IN  /\ p.type = "init"
               /\ DOMAIN p = {"type", "sender_index", "unencrypted_ephemeral",
                              "encrypted_static", "encrypted_timestamp", "mac1"}
               /\ 1 \in DOMAIN p.encrypted_static
<1> DEFINE p == Created(i, n, sec).packet
<1>1. /\ p.type = "init"
      /\ DOMAIN p = {"type", "sender_index", "unencrypted_ephemeral",
                     "encrypted_static", "encrypted_timestamp", "mac1"}
  BY Zenon DEF Created, handshake_create_initiation
<1>2. \E k, ad, t : p.encrypted_static = <<"aead", k, 0, ad, t>>
  BY DEF Created, handshake_create_initiation, vpn_crypto_aead_encrypt
<1> HIDE DEF p
<1>3. 1 \in DOMAIN p.encrypted_static
  BY <1>2
<1>. QED
  BY <1>1, <1>3 DEF p

\* What handshake_consume_initiation has established when it returns 0.
LEMMA ConsumedStamp ==
    ASSUME NEW m, NEW last, handshake_consume_initiation(m, DaemonKey, last).ok
    PROVE  LET peer == handshake_consume_initiation(m, DaemonKey, last).peer
           IN  /\ m.encrypted_timestamp[1] = "aead"
               /\ m.encrypted_timestamp[2] =
                      StampKey(m.unencrypted_ephemeral,
                               <<"dh", {m.unencrypted_ephemeral, public(DaemonKey)}>>,
                               <<"dh", {peer, public(DaemonKey)}>>)
               /\ peer = Plaintext(m.encrypted_static)
               /\ peer \in DOMAIN last
               /\ ~Stale(Sec(m), last[peer])
<1> DEFINE E == m.unencrypted_ephemeral
           their_static == Plaintext(m.encrypted_static)
           dh1 == vpn_crypto_dh(E, DaemonKey)
           dh2 == vpn_crypto_dh(their_static, DaemonKey)
<1>1. /\ handshake_consume_initiation(m, DaemonKey, last).peer = their_static
      /\ dh1 # DhError /\ dh2 # DhError
      /\ m.encrypted_timestamp[1] = "aead"
      /\ m.encrypted_timestamp[2] = StampKey(E, dh1, dh2)
      /\ their_static \in DOMAIN last
      /\ ~Stale(Sec(m), last[their_static])
  BY DEF handshake_consume_initiation, Authentic, vpn_kdf2, vpn_kdf1, StampKey, Sec
<1>2. dh1 = <<"dh", {E, public(DaemonKey)}>>
  BY <1>1, DhTerm
<1>3. dh2 = <<"dh", {their_static, public(DaemonKey)}>>
  BY <1>1, DhTerm
<1>. QED
  BY <1>1, <1>2, <1>3, Zenon

\* A timestamp key names the ephemeral key and the secret it is made of.
LEMMA StampKeyDetermines ==
    ASSUME NEW E, NEW d, NEW x, NEW F, NEW e, NEW y, StampKey(E, d, x) = StampKey(F, e, y)
    PROVE  E = F /\ x = y
<1>1. x = y /\ Expand(1, Expand(1, InitialC, E), d) = Expand(1, Expand(1, InitialC, F), e)
  BY ExpandInjective DEF StampKey
<1>2. Expand(1, InitialC, E) = Expand(1, InitialC, F)
  BY <1>1, ExpandInjective
<1>. QED
  BY <1>1, <1>2, ExpandInjective

\* A secret shared with the daemon names the other static key.
LEMMA SecretDetermines ==
    ASSUME NEW p, NEW q, NEW D,
           <<"dh", {p, D}>> = <<"dh", {D, q}>> \/ <<"dh", {D, p}>> = <<"dh", {D, q}>>
    PROVE  p = q
<1>1. {p, D} = {D, q} \/ {D, p} = {D, q}
  OBVIOUS
<1>. QED
  BY <1>1

\* The key that handshake_create_response encrypts nothing with, and the two
\* keys of the session.
NothingKey(c, E, dh1, dh2) == Expand(2, Expand(1, Expand(1, c, E), dh1), dh2)
TransportKey(k, c, E, dh1, dh2) ==
    Expand(k, Expand(1, Expand(1, Expand(1, c, E), dh1), dh2), <<>>)

\* What is derived for a session from the initiation and an ephemeral key.
LEMMA AnsweredTerms ==
    ASSUME NEW m, NEW n
    PROVE  \E c, dh1 :
               LET E == public(Ephemeral(n))
                   dh2 == vpn_crypto_dh(Plaintext(m.encrypted_static), Ephemeral(n))
                   nothing == Answered(m, n).packet.encrypted_nothing
               IN  /\ nothing[1] = "aead" /\ 1 \in DOMAIN nothing
                   /\ nothing[2] = NothingKey(c, E, dh1, dh2)
                   /\ Answered(m, n).send_key = TransportKey(1, c, E, dh1, dh2)
                   /\ Answered(m, n).recv_key = TransportKey(2, c, E, dh1, dh2)
<1> DEFINE view == handshake_consume_initiation(m, DaemonKey, <<>>)
           c == view.chaining_key
           E == public(Ephemeral(n))
           dh1 == vpn_crypto_dh(m.unencrypted_ephemeral, Ephemeral(n))
           dh2 == vpn_crypto_dh(view.peer, Ephemeral(n))
<1>1. view.peer = Plaintext(m.encrypted_static)
  BY Zenon DEF handshake_consume_initiation
<1> HIDE DEF view
<1>2. /\ \E ad : Answered(m, n).packet.encrypted_nothing
                   = <<"aead", NothingKey(c, E, dh1, dh2), 0, ad, <<>>>>
      /\ Answered(m, n).send_key = TransportKey(1, c, E, dh1, dh2)
      /\ Answered(m, n).recv_key = TransportKey(2, c, E, dh1, dh2)
  <2>1. Answered(m, n) = handshake_create_response(m.unencrypted_ephemeral, view.peer, 0,
                             m.sender_index, view.chaining_key, view.hash, Ephemeral(n))
    BY DEF Answered, view
  <2>. QED
    BY <2>1 DEF handshake_create_response, vpn_kdf2, vpn_kdf1, vpn_crypto_aead_encrypt,
        NothingKey, TransportKey
<1> HIDE DEF c, E, dh1, dh2
<1>3. /\ Answered(m, n).packet.encrypted_nothing[1] = "aead"
      /\ 1 \in DOMAIN Answered(m, n).packet.encrypted_nothing
      /\ Answered(m, n).packet.encrypted_nothing[2] = NothingKey(c, E, dh1, dh2)
  BY <1>2
<1>. QED
  BY <1>1, <1>2, <1>3 DEF E, dh2

\* The index that the daemon gives is in the header of its response only.
LEMMA IndexInHeader ==
    ASSUME NEW E, NEW q, NEW a, NEW b, NEW t, NEW c, NEW h, NEW e, NEW x, NEW y,
           x = handshake_create_response(E, q, a, t, c, h, e),
           y = handshake_create_response(E, q, b, t, c, h, e)
    PROVE  /\ x.send_key = y.send_key /\ x.recv_key = y.recv_key
           /\ x.packet.encrypted_nothing = y.packet.encrypted_nothing
  BY Zenon DEF handshake_create_response

\* The response the daemon sends, and the keys it keeps, do not depend on the
\* index it gives nor on what it remembers of its peers.
LEMMA AnsweredIsAnswer ==
    ASSUME NEW m, NEW last, NEW index, NEW n, NEW view, NEW answer,
           view = handshake_consume_initiation(m, DaemonKey, last),
           answer = handshake_create_response(m.unencrypted_ephemeral, view.peer, index,
                        m.sender_index, view.chaining_key, view.hash, Ephemeral(n))
    PROVE  /\ answer.send_key = Answered(m, n).send_key
           /\ answer.recv_key = Answered(m, n).recv_key
           /\ answer.packet.encrypted_nothing = Answered(m, n).packet.encrypted_nothing
<1> DEFINE zero == handshake_consume_initiation(m, DaemonKey, <<>>)
<1>1. view.peer = zero.peer /\ view.chaining_key = zero.chaining_key /\ view.hash = zero.hash
  BY Zenon DEF handshake_consume_initiation
<1>2. Answered(m, n) = handshake_create_response(m.unencrypted_ephemeral, zero.peer, 0,
                           m.sender_index, zero.chaining_key, zero.hash, Ephemeral(n))
  BY Zenon DEF Answered
<1> HIDE DEF zero
<1>3. Answered(m, n) = handshake_create_response(m.unencrypted_ephemeral, view.peer, 0,
                           m.sender_index, view.chaining_key, view.hash, Ephemeral(n))
  BY <1>1, <1>2, Zenon
<1>. QED
  BY <1>3, IndexInHeader

\* What handshake_consume_response has established when it returns 0.
LEMMA ConsumedResponse ==
    ASSUME NEW i, NEW m, NEW state,
           handshake_consume_response(m, StaticKey(i), state).ok
    PROVE  \E dh1 :
               LET view == handshake_consume_response(m, StaticKey(i), state)
                   E == m.unencrypted_ephemeral
                   dh2 == <<"dh", {E, public(StaticKey(i))}>>
               IN  /\ m.receiver_index = state.local_index
                   /\ m.encrypted_nothing[1] = "aead"
                   /\ m.encrypted_nothing[2] = NothingKey(state.chaining_key, E, dh1, dh2)
                   /\ view.peer_index = m.sender_index
                   /\ view.send_key = TransportKey(2, state.chaining_key, E, dh1, dh2)
                   /\ view.recv_key = TransportKey(1, state.chaining_key, E, dh1, dh2)
<1> DEFINE view == handshake_consume_response(m, StaticKey(i), state)
           c == state.chaining_key
           E == m.unencrypted_ephemeral
           dh1 == vpn_crypto_dh(E, state.ephemeral_private)
           dh2 == vpn_crypto_dh(E, StaticKey(i))
<1>1. /\ dh2 # DhError
      /\ m.receiver_index = state.local_index
      /\ m.encrypted_nothing[1] = "aead"
      /\ m.encrypted_nothing[2] = NothingKey(c, E, dh1, dh2)
      /\ view.peer_index = m.sender_index
      /\ view.send_key = TransportKey(2, c, E, dh1, dh2)
      /\ view.recv_key = TransportKey(1, c, E, dh1, dh2)
  BY Zenon DEF handshake_consume_response, Authentic, vpn_kdf2, vpn_kdf1, InitiatorKeys,
      NothingKey, TransportKey
<1>2. dh2 = <<"dh", {E, public(StaticKey(i))}>>
  BY <1>1, DhTerm
<1> HIDE DEF view, dh1, dh2
<1>. QED
  BY <1>1, <1>2 DEF view

\* A key that encrypts nothing names all it is made of.
LEMMA NothingKeyDetermines ==
    ASSUME NEW c, NEW E, NEW d, NEW x, NEW b, NEW F, NEW e, NEW y,
           NothingKey(c, E, d, x) = NothingKey(b, F, e, y)
    PROVE  c = b /\ E = F /\ d = e /\ x = y
<1>1. x = y /\ Expand(1, Expand(1, c, E), d) = Expand(1, Expand(1, b, F), e)
  BY ExpandInjective DEF NothingKey
<1>2. d = e /\ Expand(1, c, E) = Expand(1, b, F)
  BY <1>1, ExpandInjective
<1>3. c = b /\ E = F
  BY <1>2, ExpandInjective
<1>. QED
  BY <1>1, <1>2, <1>3

\* A transport key names its direction and the ephemeral key of the response.
LEMMA TransportKeyDetermines ==
    ASSUME NEW k, NEW c, NEW n, NEW d, NEW f, NEW l, NEW b, NEW m, NEW e, NEW g,
           TransportKey(k, c, public(Ephemeral(n)), d, f)
               = TransportKey(l, b, public(Ephemeral(m)), e, g)
    PROVE  k = l /\ n = m
<1> DEFINE E == public(Ephemeral(n))
           F == public(Ephemeral(m))
<1> HIDE DEF E, F
<1>1. /\ k = l
      /\ Expand(1, Expand(1, Expand(1, c, E), d), f)
           = Expand(1, Expand(1, Expand(1, b, F), e), g)
  BY ExpandInjective DEF TransportKey, E, F
<1>2. Expand(1, Expand(1, c, E), d) = Expand(1, Expand(1, b, F), e)
  BY <1>1, ExpandInjective
<1>3. Expand(1, c, E) = Expand(1, b, F)
  BY <1>2, ExpandInjective
<1>4. E = F
  BY <1>3, ExpandInjective
<1>. QED
  BY <1>1, <1>4, PublicInjective DEF E, F

\* A timestamp that somebody made is not corrupted.
LEMMA StampAuthentic ==
    ASSUME NEW m, NEW i, NEW n, StampedBy(m, i, n) PROVE m.encrypted_timestamp[1] = "aead"
<1> DEFINE sec == Sec(m)
<1>1. m.encrypted_timestamp = Created(i, n, sec).packet.encrypted_timestamp
  BY DEF StampedBy
<1> HIDE DEF sec
<1>2. Created(i, n, sec).packet.encrypted_timestamp[1] = "aead"
  BY CreatedStamp, Zenon
<1>. QED
  BY <1>1, <1>2

\* One timestamp was made by one initiator with one ephemeral key.
LEMMA StampUnique ==
    ASSUME NEW m, NEW i, NEW n, NEW j, NEW k, StampedBy(m, i, n), StampedBy(m, j, k)
    PROVE  i = j /\ n = k
<1> DEFINE D == public(DaemonKey)
           key(a, b) == StampKey(public(Ephemeral(b)), <<"dh", {D, public(Ephemeral(b))}>>,
                                 <<"dh", {D, public(StaticKey(a))}>>)
<1>1. m.encrypted_timestamp[2] = key(i, n) /\ m.encrypted_timestamp[2] = key(j, k)
  BY CreatedStamp DEF StampedBy
<1>2. /\ public(Ephemeral(n)) = public(Ephemeral(k))
      /\ <<"dh", {D, public(StaticKey(i))}>> = <<"dh", {D, public(StaticKey(j))}>>
  BY <1>1, StampKeyDetermines
<1>3. public(StaticKey(i)) = public(StaticKey(j))
  BY <1>2, SecretDetermines
<1>. QED
  BY <1>2, <1>3, PublicInjective

\* The daemon takes an initiation only as what its timestamp was made for.
LEMMA AcceptedAsMade ==
    ASSUME NEW m, NEW last, NEW i, NEW n, StampedBy(m, i, n),
           handshake_consume_initiation(m, DaemonKey, last).ok
    PROVE  /\ m.unencrypted_ephemeral = public(Ephemeral(n))
           /\ handshake_consume_initiation(m, DaemonKey, last).peer = public(StaticKey(i))
<1> DEFINE D == public(DaemonKey)
           E == m.unencrypted_ephemeral
           peer == handshake_consume_initiation(m, DaemonKey, last).peer
<1>1. m.encrypted_timestamp[2] = StampKey(E, <<"dh", {E, D}>>, <<"dh", {peer, D}>>)
  BY ConsumedStamp
<1>2. m.encrypted_timestamp[2] =
        StampKey(public(Ephemeral(n)), <<"dh", {D, public(Ephemeral(n))}>>,
                 <<"dh", {D, public(StaticKey(i))}>>)
  BY CreatedStamp DEF StampedBy
<1> HIDE DEF peer, E
<1>3. /\ E = public(Ephemeral(n))
      /\ <<"dh", {peer, D}>> = <<"dh", {D, public(StaticKey(i))}>>
  BY <1>1, <1>2, StampKeyDetermines
<1>4. peer = public(StaticKey(i))
  BY <1>3, SecretDetermines
<1>. QED
  BY <1>3, <1>4 DEF peer, E
-----------------------------------------------------------------------------
(* The steps. *)

\* The types that the arguments below rest on.
LEMMA Types ==
    ASSUME IInv
    PROVE  /\ clock \in Nat \ {0} /\ ephemerals \in Nat /\ corruptions \in Nat
           /\ ClockLead \in [Initiators -> Int]
           /\ MAX_TIME \in Nat /\ MAX_EPHEMERALS \in Nat /\ MAX_CORRUPTIONS \in Nat
           /\ \A k \in DOMAIN last_handshake_time : last_handshake_time[k] \in 0..clock
           /\ \A i \in Initiators : ClockLead[i] \in Int
  BY ProtocolAssumption DEF IInv, TypeOK

\* Indices stay as they are when no session is added.
LEMMA IndicesKept ==
    ASSUME IndicesInTurn, UNCHANGED <<sessions, next_local_index>> PROVE IndicesInTurn'
  BY Zenon DEF IndicesInTurn

\* Quotient and remainder, and what determines them.
LEMMA DivMod ==
    ASSUME NEW a \in Nat, NEW b \in Nat \ {0}
    PROVE  a \div b \in Nat /\ a % b \in 0..(b - 1) /\ a = b * (a \div b) + (a % b)
  OBVIOUS

LEMMA Remainder ==
    ASSUME NEW b \in Nat \ {0}, NEW q \in Nat, NEW r \in 0..(b - 1)
    PROVE  (b * q + r) % b = r
  OBVIOUS

\* A counter that wraps at every step counts modulo its range.
LEMMA CountsModulo ==
    ASSUME NEW k \in Nat \ {0}, NEW n \in Nat
    PROVE  ((n % k) + 1) % k = (n + 1) % k
<1>1. PICK q, r : q = n \div k /\ r = n % k
  BY Zenon
<1>2. q \in Nat /\ r \in 0..(k - 1) /\ n = k * q + r
  BY <1>1, DivMod, Zenon
<1>3. CASE r + 1 < k
  <2>1. r + 1 \in 0..(k - 1) /\ 0 \in Nat
    BY <1>2, <1>3
  <2>2. (k * q + (r + 1)) % k = r + 1 /\ (k * 0 + (r + 1)) % k = r + 1
    BY <1>2, <2>1, Remainder, Zenon
  <2>3. k * q + (r + 1) = n + 1 /\ k * 0 + (r + 1) = r + 1
    BY <1>2
  <2>. QED
    BY <1>1, <2>2, <2>3, Zenon
<1>4. CASE r + 1 = k
  <2>1. 0 \in 0..(k - 1) /\ q + 1 \in Nat /\ 1 \in Nat
    BY <1>2
  <2>2. (k * (q + 1) + 0) % k = 0 /\ (k * 1 + 0) % k = 0
    BY <2>1, Remainder, Zenon
  <2>3. k * (q + 1) + 0 = n + 1 /\ k * 1 + 0 = r + 1
    BY <1>2, <1>4
  <2>. QED
    BY <1>1, <2>2, <2>3, Zenon
<1>. QED
  BY <1>2, <1>3, <1>4

\* A new session takes the next index, and shares it with none unless the counter
\* has been around.
LEMMA IndexAdded ==
    ASSUME IndicesInTurn, NEW s0, s0 \notin sessions, s0.local_index = next_local_index,
           sessions' = sessions \cup {s0}, TakeIndex
    PROVE  IndicesInTurn'
<1>1. PICK c, m : c = Cardinality(sessions) /\ m = INDEX_MOD
  BY Zenon
<1>2. c \in Nat /\ m \in Nat \ {0, 1} /\ IsFiniteSet(sessions)
  BY <1>1, ProtocolAssumption, FS_CardinalityType DEF IndicesInTurn
<1>3. IsFiniteSet(sessions') /\ Cardinality(sessions') = c + 1
  BY <1>1, <1>2, FS_AddElement
<1>4. next_local_index = (c + 1) % m
  BY <1>1, Zenon DEF IndicesInTurn
<1>5. next_local_index' = (c + 1 + 1) % m
  <2>1. next_local_index' = (((c + 1) % m) + 1) % m
    BY <1>1, <1>4, Zenon DEF TakeIndex
  <2>2. m \in Nat \ {0} /\ c + 1 \in Nat
    BY <1>2
  <2>. QED
    BY <2>1, <2>2, CountsModulo, Zenon
<1>6. {s.local_index : s \in sessions} = {k % m : k \in 1..c}
  BY <1>1, Zenon DEF IndicesInTurn
<1>7. {s.local_index : s \in sessions'} = {k % m : k \in 1..(c + 1)}
  <2>1. {s.local_index : s \in sessions'} = {s.local_index : s \in sessions} \cup {(c + 1) % m}
    BY <1>4, Zenon
  <2>2. 1..(c + 1) = 1..c \cup {c + 1}
    BY <1>2
  <2>3. {k % m : k \in 1..(c + 1)} = {k % m : k \in 1..c} \cup {(c + 1) % m}
    BY <2>2, Zenon
  <2>. QED
    BY <1>6, <2>1, <2>3, Zenon
<1>8. ASSUME c + 1 <= m PROVE \A s \in sessions : s.local_index # s0.local_index
  <2>1. \A k \in 1..c : k % m = k
    BY <1>2, <1>8
  <2>2. ASSUME NEW s \in sessions PROVE s.local_index \in 1..c
    <3>1. s.local_index \in {k % m : k \in 1..c}
      BY <1>6, Zenon
    <3>2. PICK k \in 1..c : s.local_index = k % m
      BY <3>1, Zenon
    <3>. QED
      BY <2>1, <3>2
  <2>3. (c + 1) % m = c + 1 \/ (c + 1) % m = 0
    <3>1. CASE c + 1 < m
      BY <1>2, <3>1
    <3>2. CASE c + 1 = m
      BY <1>2, <3>2
    <3>. QED
      BY <1>2, <1>8, <3>1, <3>2
  <2>4. (c + 1) % m \notin 1..c
    BY <1>2, <2>3
  <2>. QED
    BY <1>4, <2>2, <2>4, Zenon
<1>9. c + 1 <= m => \A s, t \in sessions' : s.local_index = t.local_index => s = t
  <2>1. c + 1 <= m => c <= m
    BY <1>2
  <2>. QED
    BY <1>1, <1>8, <2>1, Zenon DEF IndicesInTurn
<1>. QED
  BY <1>1, <1>3, <1>5, <1>7, <1>9, ZenonT(60) DEF IndicesInTurn

\* Starting a handshake keeps the invariant: the new timestamp is made with a
\* key that has stamped nothing.
LEMMA CreateKeeps ==
    ASSUME IInv, NEW i0 \in Initiators, CreateInitiation(i0) PROVE IInv'
<1> DEFINE n0 == ephemerals + 1
           sec0 == clock + ClockLead[i0]
           p == Created(i0, n0, sec0).packet
<1>1. /\ net' = net \cup {p} /\ ephemerals' = n0 /\ ephemerals < MAX_EPHEMERALS
      /\ UNCHANGED <<clock, corruptions, established, next_local_index,
                     last_handshake_time, sessions>>
  BY DEF CreateInitiation, Created
<1>2. /\ p.type = "init"
      /\ DOMAIN p = {"type", "sender_index", "unencrypted_ephemeral",
                     "encrypted_static", "encrypted_timestamp", "mac1"}
      /\ 1 \in DOMAIN p.encrypted_static
  BY CreatedShape
<1>3. /\ StampedBy(p, i0, n0) /\ Sec(p) = sec0 /\ 1 \in DOMAIN p.encrypted_timestamp
  BY CreatedStamp, Zenon DEF StampedBy, Sec
<1>4. n0 \in Nat /\ n0 \notin 1..ephemerals /\ 1..n0 = 1..ephemerals \cup {n0} /\ sec0 \in Int
  BY Types
<1> HIDE DEF p, n0, sec0
<1>5. Initiations' = Initiations \cup {p} /\ Responses' = Responses
  BY <1>1, <1>2 DEF Initiations, Responses
<1>6. TypeOK'
  <2>1. IndicesInTurn'
    BY <1>1, IndicesKept, Zenon DEF IInv, TypeOK
  <2>. QED
    BY <1>1, <2>1, Types DEF IInv, TypeOK, n0
<1>7. Shapes'
  BY <1>1, <1>2, <1>3, <1>5 DEF IInv, Shapes
<1>8. ASSUME NEW m \in Initiations, NEW j \in Initiators, StampedBy(m, j, n0) PROVE FALSE
  <2>1. m.encrypted_timestamp[1] = "aead"
    BY <1>8, StampAuthentic
  <2>2. PICK i \in Initiators, n \in 1..ephemerals : StampedBy(m, i, n)
    BY <2>1 DEF IInv, Stamps
  <2>. QED
    BY <1>4, <1>8, <2>2, StampUnique
<1>9. Stamps'
  <2>1. ASSUME NEW m \in Initiations', m.encrypted_timestamp[1] = "aead"
        PROVE  \E i \in Initiators, n \in 1..ephemerals' :
                   StampedBy(m, i, n) /\ Sec(m) \in Int /\ Sec(m) <= clock' + ClockLead[i]
    <3>1. CASE m = p
      BY <1>1, <1>3, <1>4, <3>1, Types DEF sec0
    <3>2. CASE m \in Initiations
      BY <1>1, <1>4, <2>1, <3>2 DEF IInv, Stamps
    <3>. QED
      BY <1>5, <3>1, <3>2
  <2>2. ASSUME NEW m \in Initiations', NEW o \in Initiations', NEW i \in Initiators,
               NEW j \in Initiators, NEW n \in 1..ephemerals',
               StampedBy(m, i, n), StampedBy(o, j, n)
        PROVE  Sec(m) = Sec(o) /\ i = j
    <3>1. CASE n = n0
      <4>1. m = p /\ o = p
        BY <1>5, <1>8, <2>2, <3>1
      <4>. QED
        BY <2>2, <4>1, StampUnique
    <3>2. CASE n \in 1..ephemerals
      <4>1. m # p /\ o # p
        BY <1>3, <1>4, <2>2, <3>2, StampUnique
      <4>. QED
        BY <1>5, <2>2, <3>2, <4>1 DEF IInv, Stamps
    <3>. QED
      BY <1>1, <1>4, <3>1, <3>2
  <2>. QED
    BY <2>1, <2>2 DEF Stamps
<1>10. Answers'
  BY <1>1, <1>4, <1>5, Zenon DEF IInv, Answers
<1>11. ResponsesOfSessions'
  BY <1>1, <1>4, <1>5, Zenon DEF IInv, ResponsesOfSessions
<1>12. Remembered' /\ KeyAgreement'
  BY <1>1 DEF IInv, Remembered, KeyAgreement
<1>13. KeysFresh' /\ PunctualInitiationAcceptedOnce'
  BY <1>1 DEF IInv, KeysFresh, PunctualInitiationAcceptedOnce, AcceptedOnce
<1>. QED
  BY <1>1, <1>6, <1>7, <1>9, <1>10, <1>11, <1>12, <1>13 DEF IInv

\* Reading a response keeps the invariant: it authenticates only under a key
\* that the daemon derived with this initiator.
LEMMA ResponseKeeps ==
    ASSUME IInv, NEW i \in Initiators, NEW msg \in net, ReceiveResponse(i, msg) PROVE IInv'
<1> DEFINE view == handshake_consume_response(msg, StaticKey(i), init_state[i])
           mine == [local_index |-> init_state[i].local_index, peer_index |-> view.peer_index,
                    send_key |-> view.send_key, recv_key |-> view.recv_key]
           c == init_state[i].chaining_key
           E == msg.unencrypted_ephemeral
           P == public(StaticKey(i))
<1>1. /\ msg.type = "resp" /\ view.ok
      /\ established' = [established EXCEPT ![i] = @ \cup {mine}]
      /\ UNCHANGED <<clock, ephemerals, net, corruptions, next_local_index,
                     last_handshake_time, sessions>>
  BY Zenon DEF ReceiveResponse
<1>2. PICK d : /\ msg.receiver_index = init_state[i].local_index
               /\ msg.encrypted_nothing[1] = "aead"
               /\ msg.encrypted_nothing[2] = NothingKey(c, E, d, <<"dh", {E, P}>>)
               /\ view.peer_index = msg.sender_index
               /\ view.send_key = TransportKey(2, c, E, d, <<"dh", {E, P}>>)
               /\ view.recv_key = TransportKey(1, c, E, d, <<"dh", {E, P}>>)
  BY <1>1, ConsumedResponse, Zenon
<1>3. /\ mine.local_index = msg.receiver_index /\ mine.peer_index = msg.sender_index
      /\ mine.send_key = TransportKey(2, c, E, d, <<"dh", {E, P}>>)
      /\ mine.recv_key = TransportKey(1, c, E, d, <<"dh", {E, P}>>)
  BY <1>2, Zenon
<1> HIDE DEF view, mine, c, E, P
<1>4. PICK s \in sessions, n \in 1..ephemerals :
          /\ msg.encrypted_nothing = Answered(s.initiation, n).packet.encrypted_nothing
          /\ s.send_key = Answered(s.initiation, n).send_key
          /\ s.recv_key = Answered(s.initiation, n).recv_key
          /\ corruptions = 0 => /\ msg.sender_index = s.local_index
                                /\ msg.receiver_index = s.peer_index
  <2>1. msg \in Responses
    BY <1>1 DEF Responses
  <2>. QED
    BY <1>2, <2>1 DEF IInv, ResponsesOfSessions
<1> DEFINE q == Plaintext(s.initiation.encrypted_static)
           g == vpn_crypto_dh(q, Ephemeral(n))
           F == public(Ephemeral(n))
<1>5. PICK b, e : /\ msg.encrypted_nothing[2] = NothingKey(b, F, e, g)
                  /\ s.send_key = TransportKey(1, b, F, e, g)
                  /\ s.recv_key = TransportKey(2, b, F, e, g)
  BY <1>4, AnsweredTerms
<1>6. s.peer = q /\ q # LowOrderPoint
  BY PublicInjective DEF IInv, Answers
<1>7. P = q /\ \A k : TransportKey(k, c, E, d, <<"dh", {E, P}>>) = TransportKey(k, b, F, e, g)
  <2> DEFINE x == <<"dh", {E, P}>>
  <2>1. NothingKey(c, E, d, x) = NothingKey(b, F, e, g)
    BY <1>2, <1>5
  <2>2. g = <<"dh", {q, F}>>
    BY <1>6, DhTerm
  <2> HIDE DEF x, q, g, F
  <2>3. c = b /\ E = F /\ d = e /\ x = g
    BY <2>1, NothingKeyDetermines
  <2>4. {E, P} = {q, E}
    BY <2>2, <2>3 DEF x
  <2>5. P = q
    BY <2>4
  <2>. QED
    BY <2>3, <2>5, Zenon DEF x
<1> HIDE DEF q, g, F
<1>8. /\ s.peer = public(StaticKey(i)) /\ Mirrored(mine, s)
      /\ corruptions = 0 => /\ mine.peer_index = s.local_index
                            /\ mine.local_index = s.peer_index
  BY <1>3, <1>4, <1>5, <1>6, <1>7, Zenon DEF Mirrored, P
<1>9. KeyAgreement'
  <2> SUFFICES ASSUME NEW j \in Initiators, NEW x \in established'[j]
               PROVE  \E t \in sessions :
                          /\ t.peer = public(StaticKey(j)) /\ Mirrored(x, t)
                          /\ corruptions = 0 => /\ x.peer_index = t.local_index
                                                /\ x.local_index = t.peer_index
    BY <1>1 DEF KeyAgreement
  <2>1. x \in established[j] \/ (j = i /\ x = mine)
    BY <1>1 DEF IInv
  <2>. QED
    BY <1>8, <2>1 DEF IInv, KeyAgreement
<1>10. Initiations' = Initiations /\ Responses' = Responses
  BY <1>1, Zenon DEF Initiations, Responses
<1>11. TypeOK' /\ Shapes'
  BY <1>1, <1>10, IndicesKept, Zenon DEF IInv, TypeOK, Shapes
<1>12. Stamps'
  BY <1>1, <1>10 DEF IInv, Stamps
<1>13. Answers' /\ Remembered'
  BY <1>1, <1>10, Zenon DEF IInv, Answers, Remembered
<1>14. ResponsesOfSessions'
  BY <1>1, <1>10 DEF IInv, ResponsesOfSessions
<1>15. KeysFresh' /\ PunctualInitiationAcceptedOnce'
  BY <1>1 DEF IInv, KeysFresh, PunctualInitiationAcceptedOnce, AcceptedOnce
<1>. QED
  BY <1>1, <1>9, <1>11, <1>12, <1>13, <1>14, <1>15 DEF IInv

\* What the network corrupts cannot be taken for something else: an index and
\* an ephemeral key are not what IInv is about, a ciphertext loses its tag.
LEMMA DamagedShape ==
    ASSUME Shapes, NEW msg \in net, NEW m \in Damaged(msg)
    PROVE  /\ m.type = msg.type /\ DOMAIN m = DOMAIN msg
           /\ msg.type = "init" =>
                  /\ 1 \in DOMAIN m.encrypted_static
                  /\ 1 \in DOMAIN m.encrypted_timestamp
                  /\ \/ m.encrypted_timestamp = msg.encrypted_timestamp
                     \/ m.encrypted_timestamp[1] = "corrupted"
           /\ msg.type = "resp" =>
                  /\ 1 \in DOMAIN m.encrypted_nothing
                  /\ \/ m.encrypted_nothing = msg.encrypted_nothing
                     \/ m.encrypted_nothing[1] = "corrupted"
<1>1. CASE msg.type = "init"
  <2>1. /\ DOMAIN msg = {"type", "sender_index", "unencrypted_ephemeral",
                         "encrypted_static", "encrypted_timestamp", "mac1"}
        /\ 1 \in DOMAIN msg.encrypted_static /\ 1 \in DOMAIN msg.encrypted_timestamp
    BY <1>1 DEF Shapes, Initiations
  <2>2. \/ m = [msg EXCEPT !.sender_index = 0]
        \/ m = [msg EXCEPT !.unencrypted_ephemeral = <<"corrupted", "point">>]
        \/ m = [msg EXCEPT !.unencrypted_ephemeral = LowOrderPoint]
        \/ m = [msg EXCEPT !["mac1"][1] = "corrupted"]
        \/ m = [msg EXCEPT !["encrypted_static"][1] = "corrupted"]
        \/ m = [msg EXCEPT !["encrypted_timestamp"][1] = "corrupted"]
    BY <1>1 DEF Damaged
  <2>. QED
    BY <1>1, <2>1, <2>2
<1>2. CASE msg.type = "resp"
  <2>1. /\ DOMAIN msg = {"type", "sender_index", "receiver_index",
                         "unencrypted_ephemeral", "encrypted_nothing", "mac1"}
        /\ 1 \in DOMAIN msg.encrypted_nothing
    BY <1>2 DEF Shapes, Responses
  <2>2. \/ m = [msg EXCEPT !.sender_index = 0]
        \/ m = [msg EXCEPT !.unencrypted_ephemeral = <<"corrupted", "point">>]
        \/ m = [msg EXCEPT !.unencrypted_ephemeral = LowOrderPoint]
        \/ m = [msg EXCEPT !["mac1"][1] = "corrupted"]
        \/ m = [msg EXCEPT !["encrypted_nothing"][1] = "corrupted"]
        \/ m = [msg EXCEPT !.receiver_index = 0]
    BY <1>2 DEF Damaged
  <2>. QED
    BY <1>2, <2>1, <2>2
<1>. QED
  BY <1>1, <1>2 DEF Shapes, Initiations, Responses

\* Corruption keeps the invariant.
LEMMA CorruptKeeps ==
    ASSUME IInv, NEW msg \in net, Corrupt(msg) PROVE IInv'
<1>1. PICK m \in Damaged(msg) : net' = net \cup {m}
  BY DEF Corrupt
<1>2. /\ corruptions' = corruptions + 1 /\ corruptions < MAX_CORRUPTIONS
      /\ UNCHANGED <<clock, ephemerals, init_state, established, next_local_index,
                     last_handshake_time, sessions>>
  BY DEF Corrupt
<1>3. corruptions' \in 1..MAX_CORRUPTIONS
  BY <1>2, Types
<1>4. /\ m.type = msg.type /\ DOMAIN m = DOMAIN msg
      /\ msg.type = "init" =>
             /\ 1 \in DOMAIN m.encrypted_static
             /\ 1 \in DOMAIN m.encrypted_timestamp
             /\ \/ m.encrypted_timestamp = msg.encrypted_timestamp
                \/ m.encrypted_timestamp[1] = "corrupted"
      /\ msg.type = "resp" =>
             /\ 1 \in DOMAIN m.encrypted_nothing
             /\ \/ m.encrypted_nothing = msg.encrypted_nothing
                \/ m.encrypted_nothing[1] = "corrupted"
  BY DamagedShape DEF IInv
<1>5. /\ Initiations \subseteq Initiations' /\ Responses \subseteq Responses'
      /\ \A o \in Initiations' : o \in Initiations \/ (o = m /\ msg \in Initiations)
      /\ \A o \in Responses' : o \in Responses \/ (o = m /\ msg \in Responses)
  BY <1>1, <1>4 DEF Initiations, Responses
<1>6. TypeOK'
  <2>1. IndicesInTurn'
    BY <1>2, IndicesKept, Zenon DEF IInv, TypeOK
  <2>. QED
    BY <1>2, <1>3, <2>1 DEF IInv, TypeOK
<1>7. Shapes'
  <2>1. net' = Initiations' \cup Responses'
    BY <1>1, <1>4 DEF IInv, Shapes, Initiations, Responses
  <2>2. msg \in Initiations => m.type = "init" /\ msg.type = "init"
    BY <1>4 DEF Initiations
  <2>3. msg \in Responses => m.type = "resp" /\ msg.type = "resp"
    BY <1>4 DEF Responses
  <2>. QED
    BY <1>4, <1>5, <2>1, <2>2, <2>3, Zenon DEF IInv, Shapes
<1>8. \A o \in Initiations' :
          \/ o.encrypted_timestamp[1] = "corrupted"
          \/ \E l \in Initiations : o.encrypted_timestamp = l.encrypted_timestamp
  BY <1>4, <1>5, Zenon DEF Initiations
<1>9. Stamps'
  <2>1. ASSUME NEW o \in Initiations', o.encrypted_timestamp[1] = "aead"
        PROVE  \E i \in Initiators, n \in 1..ephemerals :
                   StampedBy(o, i, n) /\ Sec(o) \in Int /\ Sec(o) <= clock + ClockLead[i]
    BY <1>8, <2>1 DEF IInv, Stamps, StampedBy, Sec
  <2>2. ASSUME NEW o \in Initiations', NEW i, NEW n, StampedBy(o, i, n)
        PROVE  \E l \in Initiations : StampedBy(l, i, n) /\ Sec(l) = Sec(o)
    <3>1. PICK l \in Initiations : o.encrypted_timestamp = l.encrypted_timestamp
      BY <1>8, <2>2, StampAuthentic, Zenon
    <3>. QED
      BY <2>2, <3>1, Zenon DEF StampedBy, Sec
  <2>3. ASSUME NEW a \in Initiations', NEW o \in Initiations', NEW i \in Initiators,
               NEW j \in Initiators, NEW n \in 1..ephemerals,
               StampedBy(a, i, n), StampedBy(o, j, n)
        PROVE  Sec(a) = Sec(o) /\ i = j
    <3>1. PICK k \in Initiations : StampedBy(k, i, n) /\ Sec(k) = Sec(a)
      BY <2>2, <2>3
    <3>2. PICK l \in Initiations : StampedBy(l, j, n) /\ Sec(l) = Sec(o)
      BY <2>2, <2>3, Zenon
    <3>. QED
      BY <3>1, <3>2 DEF IInv, Stamps
  <2>. QED
    BY <1>2, <2>1, <2>3, Zenon DEF Stamps
<1>10. Answers'
  BY <1>2, <1>5, Zenon DEF IInv, Answers
<1>11. ResponsesOfSessions'
  <2> SUFFICES ASSUME NEW o \in Responses', o.encrypted_nothing[1] = "aead"
               PROVE  \E s \in sessions, n \in 1..ephemerals :
                   /\ o.encrypted_nothing = Answered(s.initiation, n).packet.encrypted_nothing
                   /\ s.send_key = Answered(s.initiation, n).send_key
                   /\ s.recv_key = Answered(s.initiation, n).recv_key
    BY <1>2, <1>3 DEF ResponsesOfSessions
  <2>1. \E l \in Responses : o.encrypted_nothing = l.encrypted_nothing
    BY <1>4, <1>5, Zenon DEF Responses
  <2>. QED
    BY <2>1, Zenon DEF IInv, ResponsesOfSessions
<1>12. KeyAgreement'
  BY <1>2, <1>3 DEF IInv, KeyAgreement
<1>13. Remembered' /\ KeysFresh' /\ PunctualInitiationAcceptedOnce'
  BY <1>2 DEF IInv, Remembered, KeysFresh, PunctualInitiationAcceptedOnce, AcceptedOnce
<1>. QED
  BY <1>2, <1>6, <1>7, <1>9, <1>10, <1>11, <1>12, <1>13 DEF IInv

\* Time passes: what was stamped in the past stays in the past.
LEMMA TickKeeps ==
    ASSUME IInv, Tick PROVE IInv'
<1>1. /\ clock < MAX_TIME /\ clock' = clock + 1
      /\ UNCHANGED <<ephemerals, net, corruptions, init_state, established,
                     next_local_index, last_handshake_time, sessions>>
  BY DEF Tick
<1>2. Initiations' = Initiations /\ Responses' = Responses
  BY <1>1, Zenon DEF Initiations, Responses
<1>3. TypeOK'
  <2>1. IndicesInTurn'
    BY <1>1, IndicesKept, Zenon DEF IInv, TypeOK
  <2>. QED
    BY <1>1, <2>1, Types DEF IInv, TypeOK
<1>4. Stamps'
  <2>1. \A m \in Initiations, i \in Initiators :
            Sec(m) \in Int /\ Sec(m) <= clock + ClockLead[i] => Sec(m) <= clock' + ClockLead[i]
    BY <1>1, Types, SMTT(40)
  <2>. QED
    BY <1>1, <1>2, <2>1 DEF IInv, Stamps
<1>5. Shapes' /\ Answers' /\ Remembered' /\ ResponsesOfSessions'
  BY <1>1, <1>2 DEF IInv, Shapes, Answers, Remembered, ResponsesOfSessions
<1>6. KeysFresh' /\ PunctualInitiationAcceptedOnce' /\ KeyAgreement'
  BY <1>1 DEF IInv, KeysFresh, PunctualInitiationAcceptedOnce, AcceptedOnce, KeyAgreement
<1>. QED
  BY <1>1, <1>3, <1>4, <1>5, <1>6 DEF IInv

\* The message that handshake_create_response builds.
LEMMA ResponseShape ==
    ASSUME NEW E, NEW q, NEW mine, NEW theirs, NEW c, NEW h, NEW e
    PROVE  LET p == handshake_create_response(E, q, mine, theirs, c, h, e).packet
           IN  /\ p.type = "resp" /\ p.sender_index = mine /\ p.receiver_index = theirs
               /\ DOMAIN p = {"type", "sender_index", "receiver_index",
                              "unencrypted_ephemeral", "encrypted_nothing", "mac1"}
  BY Zenon DEF handshake_create_response

\* The keys that the daemon derives with an ephemeral key are derived with that
\* one only, and differ.
LEMMA AnsweredKeysDiffer ==
    ASSUME NEW m, NEW n, NEW o, NEW k,
           \/ Answered(m, n).send_key = Answered(o, k).recv_key
           \/ n # k /\ Answered(m, n).send_key = Answered(o, k).send_key
           \/ n # k /\ Answered(m, n).recv_key = Answered(o, k).recv_key
    PROVE  FALSE
<1> DEFINE f == vpn_crypto_dh(Plaintext(m.encrypted_static), Ephemeral(n))
           g == vpn_crypto_dh(Plaintext(o.encrypted_static), Ephemeral(k))
           E == public(Ephemeral(n))
           F == public(Ephemeral(k))
<1>1. PICK c, d : /\ Answered(m, n).send_key = TransportKey(1, c, E, d, f)
                  /\ Answered(m, n).recv_key = TransportKey(2, c, E, d, f)
  BY AnsweredTerms, Zenon
<1>2. PICK b, e : /\ Answered(o, k).send_key = TransportKey(1, b, F, e, g)
                  /\ Answered(o, k).recv_key = TransportKey(2, b, F, e, g)
  BY AnsweredTerms, Zenon
<1> HIDE DEF f, g
<1>. QED
  BY <1>1, <1>2, TransportKeyDetermines

\* Accepting an initiation keeps the invariant.  The keys are fresh because the
\* ephemeral key is; a punctual initiation is accepted once because an earlier
\* session of the same initiation would have left behind its time.
LEMMA AcceptKeeps ==
    ASSUME IInv, NEW msg \in net, ReceiveInitiation(msg) PROVE IInv'
<1> DEFINE view == handshake_consume_initiation(msg, DaemonKey, last_handshake_time)
           n0 == ephemerals + 1
           answer == handshake_create_response(msg.unencrypted_ephemeral, view.peer,
                         next_local_index, msg.sender_index,
                         view.chaining_key, view.hash, Ephemeral(n0))
           peer == view.peer
           p == answer.packet
           s0 == [peer |-> peer,
                  local_index |-> next_local_index,
                  peer_index |-> msg.sender_index,
                  send_key |-> answer.send_key,
                  recv_key |-> answer.recv_key,
                  initiation |-> msg]
<1>1. /\ msg.type = "init" /\ ephemerals < MAX_EPHEMERALS /\ view.ok
      /\ ephemerals' = n0 /\ TakeIndex
      /\ sessions' = sessions \cup {s0}
      /\ last_handshake_time' = [last_handshake_time EXCEPT ![peer] = clock]
      /\ net' = net \cup {p}
      /\ UNCHANGED <<clock, corruptions, init_state, established>>
  BY Zenon DEF ReceiveInitiation
<1>2. /\ answer.send_key = Answered(msg, n0).send_key
      /\ answer.recv_key = Answered(msg, n0).recv_key
      /\ p.encrypted_nothing = Answered(msg, n0).packet.encrypted_nothing
  <2>1. /\ view = handshake_consume_initiation(msg, DaemonKey, last_handshake_time)
        /\ answer = handshake_create_response(msg.unencrypted_ephemeral, view.peer,
                        next_local_index, msg.sender_index,
                        view.chaining_key, view.hash, Ephemeral(n0))
        /\ p = answer.packet
    OBVIOUS
  <2> HIDE DEF view, answer, p, n0
  <2>. QED
    BY <2>1, AnsweredIsAnswer
<1>3. /\ p.type = "resp" /\ p.sender_index = next_local_index
      /\ p.receiver_index = msg.sender_index
      /\ DOMAIN p = {"type", "sender_index", "receiver_index",
                     "unencrypted_ephemeral", "encrypted_nothing", "mac1"}
  <2>1. \E E, c, h, e : p = handshake_create_response(E, peer, next_local_index,
                                 msg.sender_index, c, h, e).packet
    BY Zenon
  <2> HIDE DEF p, peer
  <2>. QED
    BY <2>1, ResponseShape
<1>4. /\ msg.encrypted_timestamp[1] = "aead"
      /\ peer = Plaintext(msg.encrypted_static)
      /\ peer \in DOMAIN last_handshake_time
      /\ ~Stale(Sec(msg), last_handshake_time[peer])
  BY <1>1, ConsumedStamp, Zenon
<1>5. msg \in Initiations
  BY <1>1, Zenon DEF Initiations
<1>6. PICK i0 \in Initiators, k0 \in 1..ephemerals :
          StampedBy(msg, i0, k0) /\ Sec(msg) \in Int /\ Sec(msg) <= clock + ClockLead[i0]
  BY <1>4, <1>5, Zenon DEF IInv, Stamps
<1>7. /\ msg.unencrypted_ephemeral = public(Ephemeral(k0))
      /\ peer = public(StaticKey(i0))
  BY <1>1, <1>6, AcceptedAsMade, ZenonT(30)
<1>8. /\ s0.peer = peer /\ s0.local_index = next_local_index
      /\ s0.peer_index = msg.sender_index /\ s0.initiation = msg
      /\ s0.send_key = Answered(msg, n0).send_key
      /\ s0.recv_key = Answered(msg, n0).recv_key
  BY <1>2, Zenon
<1> HIDE DEF view, answer, peer, p, s0
<1>9. /\ n0 \in Nat /\ 1..n0 = 1..ephemerals \cup {n0} /\ n0 \notin 1..ephemerals
      /\ clock > 0
  BY Types
<1> HIDE DEF n0
<1>10. Initiations' = Initiations /\ Responses' = Responses \cup {p}
  BY <1>1, <1>3 DEF Initiations, Responses
<1>11. last_handshake_time'[peer] = clock
       /\ \A k \in DOMAIN last_handshake_time :
              k # peer => last_handshake_time'[k] = last_handshake_time[k]
       /\ DOMAIN last_handshake_time' = DOMAIN last_handshake_time
  BY <1>1, <1>4
<1>12. \A s \in sessions : {s.send_key, s.recv_key} \cap {s0.send_key, s0.recv_key} = {}
  <2>1. SUFFICES ASSUME NEW s \in sessions
                 PROVE  {s.send_key, s.recv_key} \cap {s0.send_key, s0.recv_key} = {}
    OBVIOUS
  <2>2. PICK n \in 1..ephemerals : /\ s.send_key = Answered(s.initiation, n).send_key
                                   /\ s.recv_key = Answered(s.initiation, n).recv_key
    BY DEF IInv, Answers
  <2>3. n # n0
    BY <1>9, Zenon
  <2> DEFINE m == s.initiation
  <2> HIDE DEF m
  <2>4. s.send_key # s0.send_key /\ s.send_key # s0.recv_key
    BY <1>8, <2>2, <2>3, AnsweredKeysDiffer DEF m
  <2>5. s.recv_key # s0.send_key /\ s.recv_key # s0.recv_key
    BY <1>8, <2>2, <2>3, AnsweredKeysDiffer DEF m
  <2>. QED
    BY <2>4, <2>5, Zenon
<1>13. TypeOK'
  <2>1. ephemerals' \in 0..MAX_EPHEMERALS
    BY <1>1, Types DEF n0
  <2>2. \A k \in DOMAIN last_handshake_time' : last_handshake_time'[k] \in 0..clock'
    BY <1>1, <1>11, Types
  <2>3. \A s \in sessions' : s.peer \in DOMAIN last_handshake_time'
    BY <1>1, <1>4, <1>8, <1>11 DEF IInv, TypeOK
  <2>4. s0 \notin sessions
    BY <1>12, Zenon
  <2>5. IndicesInTurn'
    BY <1>1, <1>8, <2>4, IndexAdded, Zenon DEF IInv, TypeOK, TakeIndex
  <2>. QED
    BY <1>1, <2>1, <2>2, <2>3, <2>5, Zenon DEF IInv, TypeOK
<1>14. Shapes'
  <2>1. 1 \in DOMAIN p.encrypted_nothing
    BY <1>2, AnsweredTerms, Zenon DEF p
  <2>. QED
    BY <1>1, <1>3, <1>10, <2>1, Zenon DEF IInv, Shapes
<1>15. Stamps'
  <2>1. \A m \in Initiations : \A i \in Initiators :
            StampedBy(m, i, n0) => FALSE
    <3> SUFFICES ASSUME NEW m \in Initiations, NEW j \in Initiators, StampedBy(m, j, n0)
                 PROVE  FALSE
      OBVIOUS
    <3>1. PICK i \in Initiators, n \in 1..ephemerals : StampedBy(m, i, n)
      BY StampAuthentic, SMTT(40) DEF IInv, Stamps
    <3>. QED
      BY <1>9, <3>1, StampUnique
  <2>. QED
    BY <1>1, <1>9, <1>10, <2>1 DEF IInv, Stamps
<1>16. Answers'
  <2>1. ASSUME NEW s \in sessions
        PROVE  /\ s.initiation \in Initiations
               /\ s.peer = Plaintext(s.initiation.encrypted_static)
               /\ s.peer_index = s.initiation.sender_index
               /\ \E n \in 1..n0 :
                      /\ s.send_key = Answered(s.initiation, n).send_key
                      /\ s.recv_key = Answered(s.initiation, n).recv_key
               /\ \E i \in Initiators, n \in 1..n0 :
                      /\ s.initiation.unencrypted_ephemeral = public(Ephemeral(n))
                      /\ StampedBy(s.initiation, i, n)
                      /\ s.peer = public(StaticKey(i))
    BY <1>9 DEF IInv, Answers
  <2>2. /\ \E n \in 1..n0 : /\ s0.send_key = Answered(msg, n).send_key
                            /\ s0.recv_key = Answered(msg, n).recv_key
        /\ \E i \in Initiators, n \in 1..n0 :
               /\ msg.unencrypted_ephemeral = public(Ephemeral(n))
               /\ StampedBy(msg, i, n)
               /\ s0.peer = public(StaticKey(i))
    BY <1>6, <1>7, <1>8, <1>9, Zenon
  <2> SUFFICES ASSUME NEW s \in sessions'
               PROVE  /\ s.initiation \in Initiations
                      /\ s.peer = Plaintext(s.initiation.encrypted_static)
                      /\ s.peer_index = s.initiation.sender_index
                      /\ \E n \in 1..n0 :
                             /\ s.send_key = Answered(s.initiation, n).send_key
                             /\ s.recv_key = Answered(s.initiation, n).recv_key
                      /\ \E i \in Initiators, n \in 1..n0 :
                             /\ s.initiation.unencrypted_ephemeral = public(Ephemeral(n))
                             /\ StampedBy(s.initiation, i, n)
                             /\ s.peer = public(StaticKey(i))
    BY <1>1, <1>10, Zenon DEF Answers
  <2>3. CASE s = s0
    BY <1>4, <1>5, <1>8, <2>2, <2>3, Zenon
  <2>4. CASE s \in sessions
    BY <2>1, <2>4
  <2>. QED
    BY <1>1, <2>3, <2>4
<1>17. Remembered'
  <2> SUFFICES ASSUME NEW s \in sessions', NEW i \in Initiators,
                      s.peer = public(StaticKey(i)), ClockLead[i] <= 0
               PROVE  /\ Sec(s.initiation) <= last_handshake_time'[s.peer]
                      /\ last_handshake_time'[s.peer] > 0
    BY DEF Remembered
  <2>1. CASE s = s0
    <3>1. i = i0
      BY <1>7, <1>8, <2>1, PublicInjective, Zenon
    <3>. QED
      BY <1>6, <1>8, <1>9, <1>11, <2>1, <3>1, Types
  <2>2. CASE s \in sessions
    <3>1. PICK j \in Initiators, n \in 1..ephemerals :
              StampedBy(s.initiation, j, n) /\ s.initiation \in Initiations
      BY <2>2, Zenon DEF IInv, Answers
    <3>2. Sec(s.initiation) \in Int
      BY <3>1, StampAuthentic, Zenon DEF IInv, Stamps
    <3>3. /\ s.peer \in DOMAIN last_handshake_time
          /\ Sec(s.initiation) <= last_handshake_time[s.peer]
          /\ last_handshake_time[s.peer] > 0
      BY <2>2, Zenon DEF IInv, Remembered, TypeOK
    <3>. QED
      BY <1>9, <1>11, <3>2, <3>3, Types
  <2>. QED
    BY <1>1, <2>1, <2>2
<1>18. ResponsesOfSessions'
  <2>1. ASSUME NEW m \in Responses, m.encrypted_nothing[1] = "aead"
        PROVE  \E s \in sessions', n \in 1..n0 :
                   /\ m.encrypted_nothing = Answered(s.initiation, n).packet.encrypted_nothing
                   /\ s.send_key = Answered(s.initiation, n).send_key
                   /\ s.recv_key = Answered(s.initiation, n).recv_key
                   /\ corruptions = 0 => /\ m.sender_index = s.local_index
                                         /\ m.receiver_index = s.peer_index
    BY <1>1, <1>9, <2>1, Zenon DEF IInv, ResponsesOfSessions
  <2>2. \E s \in sessions', n \in 1..n0 :
            /\ p.encrypted_nothing = Answered(s.initiation, n).packet.encrypted_nothing
            /\ s.send_key = Answered(s.initiation, n).send_key
            /\ s.recv_key = Answered(s.initiation, n).recv_key
            /\ corruptions = 0 => /\ p.sender_index = s.local_index
                                  /\ p.receiver_index = s.peer_index
    BY <1>1, <1>2, <1>3, <1>8, <1>9, Zenon
  <2>. QED
    BY <1>1, <1>10, <2>1, <2>2 DEF ResponsesOfSessions
<1>19. KeysFresh'
  <2>1. s0.send_key # s0.recv_key
    BY <1>8, AnsweredKeysDiffer, SMTT(40)
  <2>. QED
    BY <1>1, <1>12, <2>1, Zenon DEF IInv, KeysFresh
<1>20. KeyAgreement'
  <2>1. sessions \subseteq sessions' /\ established' = established /\ corruptions' = corruptions
    BY <1>1, Zenon
  <2>. QED
    BY <2>1 DEF IInv, KeyAgreement
<1>21. PunctualInitiationAcceptedOnce'
  <2>1. ASSUME NEW s \in sessions, NEW i \in Initiators, ClockLead[i] <= 0,
               s.peer = public(StaticKey(i)),
               s.initiation.unencrypted_ephemeral = msg.unencrypted_ephemeral
        PROVE  FALSE
    <3>1. PICK j \in Initiators, n \in 1..ephemerals :
              /\ s.initiation \in Initiations
              /\ s.initiation.unencrypted_ephemeral = public(Ephemeral(n))
              /\ StampedBy(s.initiation, j, n)
              /\ s.peer = public(StaticKey(j))
      BY DEF IInv, Answers
    <3>2. n = k0
      BY <1>7, <2>1, <3>1, PublicInjective, Zenon
    <3>3. Sec(s.initiation) = Sec(msg) /\ j = i0
      BY <1>5, <1>6, <3>1, <3>2 DEF IInv, Stamps
    <3>4. s.peer = peer
      BY <1>7, <3>1, <3>3, Zenon
    <3>5. Sec(msg) <= last_handshake_time[peer] /\ last_handshake_time[peer] > 0
      BY <2>1, <3>3, <3>4 DEF IInv, Remembered
    <3>. QED
      BY <1>4, <1>6, <3>5, Types DEF Stale
  <2> SUFFICES ASSUME NEW s \in sessions', NEW t \in sessions',
                      NEW i \in Initiators, ClockLead[i] <= 0, s.peer = public(StaticKey(i)),
                      NEW j \in Initiators, ClockLead[j] <= 0, t.peer = public(StaticKey(j)),
                      s.initiation.unencrypted_ephemeral = t.initiation.unencrypted_ephemeral
               PROVE  s = t
    BY DEF PunctualInitiationAcceptedOnce, AcceptedOnce
  <2>2. CASE s \in sessions /\ t \in sessions
    BY <2>2 DEF IInv, PunctualInitiationAcceptedOnce, AcceptedOnce
  <2>. QED
    BY <1>1, <1>8, <2>1, <2>2
<1>. QED
  BY <1>1, <1>11, <1>13, <1>14, <1>15, <1>16, <1>17, <1>18, <1>19, <1>20, <1>21, Zenon DEF IInv

\* The invariant holds at the start.
LEMMA InitKeeps ==
    ASSUME Init PROVE IInv
<1>1. sessions = {} /\ clock = 1 /\ ephemerals = 0 /\ corruptions = 0 /\ next_local_index = 1
  BY DEF Init
<1>2. Initiations = {} /\ Responses = {}
  BY DEF Init, Initiations, Responses
<1>3. TypeOK
  <2>1. \A k \in DOMAIN last_handshake_time : last_handshake_time[k] = 0
    BY DEF Init
  <2>2. IndicesInTurn
    <3>1. IsFiniteSet(sessions) /\ Cardinality(sessions) = 0
      BY <1>1, FS_EmptySet
    <3>2. (0 + 1) % INDEX_MOD = 1 /\ 1..0 = {}
      BY ProtocolAssumption
    <3>. QED
      BY <1>1, <3>1, <3>2 DEF IndicesInTurn
  <2>3. /\ clock \in 1..MAX_TIME /\ ephemerals \in 0..MAX_EPHEMERALS
        /\ corruptions \in 0..MAX_CORRUPTIONS
    BY <1>1, ProtocolAssumption
  <2>. QED
    BY <1>1, <2>1, <2>2, <2>3 DEF TypeOK
<1>4. Shapes /\ Stamps /\ Answers /\ Remembered /\ ResponsesOfSessions
  BY <1>2, Zenon DEF Init, Shapes, Stamps, Answers, Remembered, ResponsesOfSessions
<1>5. KeysFresh /\ KeyAgreement /\ PunctualInitiationAcceptedOnce
  BY DEF Init, KeysFresh, KeyAgreement, PunctualInitiationAcceptedOnce, AcceptedOnce
<1>. QED
  BY <1>3, <1>4, <1>5 DEF Init, IInv

\* A stuttering step keeps the invariant.
LEMMA StutterKeeps ==
    ASSUME IInv, UNCHANGED vars PROVE IInv'
<1>1. Initiations' = Initiations /\ Responses' = Responses
  BY Zenon DEF vars, Initiations, Responses
<1>2. TypeOK' /\ Shapes' /\ Answers' /\ Remembered'
  BY <1>1, IndicesKept, Zenon DEF vars, IInv, TypeOK, Shapes, Answers, Remembered
<1>3. Stamps'
  BY <1>1 DEF vars, IInv, Stamps
<1>5. ResponsesOfSessions'
  BY <1>1 DEF vars, IInv, ResponsesOfSessions
<1>4. KeysFresh' /\ KeyAgreement' /\ PunctualInitiationAcceptedOnce'
  BY DEF vars, IInv, KeysFresh, KeyAgreement, PunctualInitiationAcceptedOnce, AcceptedOnce
<1>. QED
  BY <1>2, <1>3, <1>4, <1>5 DEF vars, IInv

\* IInv is an inductive invariant of the protocol.
THEOREM ProtocolInvariant == Spec => []IInv
<1>1. ASSUME IInv, [Next]_vars PROVE IInv'
  <2>1. CASE \E i \in Initiators : CreateInitiation(i)
    BY <1>1, <2>1, CreateKeeps
  <2>2. CASE \E msg \in net : ReceiveInitiation(msg)
    BY <1>1, <2>2, AcceptKeeps
  <2>3. CASE \E i \in Initiators, msg \in net : ReceiveResponse(i, msg)
    BY <1>1, <2>3, ResponseKeeps
  <2>4. CASE \E msg \in net : Corrupt(msg)
    BY <1>1, <2>4, CorruptKeeps
  <2>5. CASE Tick
    BY <1>1, <2>5, TickKeeps
  <2>6. CASE UNCHANGED vars
    BY <1>1, <2>6, StutterKeeps
  <2>. QED
    BY <1>1, <2>1, <2>2, <2>3, <2>4, <2>5, <2>6 DEF Next, RejectInitiation
<1>. QED
  BY <1>1, InitKeeps, PTL DEF Spec

\* Sessions take the uint32_t indices in turn, each one of its own until the counter
\* has been around, and last_handshake_time is never in the daemon's future.
THEOREM ProtocolTypes == Spec => []TypeOK
  BY ProtocolInvariant, PTL DEF IInv

\* An initiator whose handshake_consume_response returns 0 shares mirrored keys
\* with a session that the daemon holds for it.
THEOREM KeysAgree == Spec => []KeyAgreement
  BY ProtocolInvariant, PTL DEF IInv

\* No key of a session is used in both directions or by another session.
THEOREM KeysNeverShared == Spec => []KeysFresh
  BY ProtocolInvariant, PTL DEF IInv

\* An initiation of a peer whose clock is not ahead starts one session at most,
\* however often it arrives.
THEOREM PunctualAcceptedOnce == Spec => []PunctualInitiationAcceptedOnce
  BY ProtocolInvariant, PTL DEF IInv
=============================================================================
