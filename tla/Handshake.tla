----------------------------- MODULE Handshake -----------------------------
(***************************************************************************)
(* The Noise IK handshake of handshake.c: the four functions that build    *)
(* and read its two messages, over the terms of Crypto.                    *)
(*                                                                         *)
(* In every function c is the chaining key and h the transcript            *)
(* hash; a message is its parsed wire structure.  A record with a field ok *)
(* is what a function returns, ok being the return value 0.                *)
(***************************************************************************)
EXTENDS Crypto, Integers

InitialC == vpn_crypto_hash(<<"PROTOCOL_IDENTIFIER">>)
InitialH == vpn_crypto_hash(<<"PROTOCOL_LABEL">>)

mix_hash(h, data) == vpn_crypto_hash(<<h, data>>)

\* Both messages carry a MAC keyed by the public key of their recipient.
Mac1(recipient, fields) == vpn_crypto_mac16(vpn_crypto_hash(recipient), fields)
-----------------------------------------------------------------------------
(* handshake_create_initiation, with a fresh ephemeral key e and the time sec. *)

handshake_create_initiation(my_priv, their_pub, local_index, e, sec) ==
    LET E  == public(e)
        h1 == mix_hash(mix_hash(InitialH, their_pub), E)
        c1 == vpn_kdf1(InitialC, E)
        dh1 == vpn_crypto_dh(their_pub, e)
        k1 == vpn_kdf2(c1, dh1)
        static == vpn_crypto_aead_encrypt(public(my_priv), h1, 0, k1.out2)
        h2 == mix_hash(h1, static)
        dh2 == vpn_crypto_dh(their_pub, my_priv)
        k2 == vpn_kdf2(k1.out1, dh2)
        timestamp == vpn_crypto_aead_encrypt(sec, h2, 0, k2.out2)
    IN  [ok |-> dh1 # DhError /\ dh2 # DhError,
         packet |-> [type |-> "init",
                     sender_index |-> local_index,
                     unencrypted_ephemeral |-> E,
                     encrypted_static |-> static,
                     encrypted_timestamp |-> timestamp,
                     mac1 |-> Mac1(their_pub, <<E, static, timestamp>>)],
         state |-> [ephemeral_private |-> e,
                    chaining_key |-> k2.out1,
                    hash |-> mix_hash(h2, timestamp),
                    local_index |-> local_index,
                    timestamp |-> sec]]
-----------------------------------------------------------------------------
(* handshake_consume_initiation.  last_handshake_time maps the public keys *)
(* of the peer table to the last_handshake_time of their peers.            *)

\* The test on the decrypted timestamp: seconds against seconds.
Stale_SameSecondPasses(sec, last) == last # 0 /\ sec < last
Stale(sec, last) == last # 0 /\ sec <= last

handshake_consume_initiation(msg, my_priv, last_handshake_time) ==
    LET E  == msg.unencrypted_ephemeral
        h1 == mix_hash(mix_hash(InitialH, public(my_priv)), E)
        c1 == vpn_kdf1(InitialC, E)
        dh1 == vpn_crypto_dh(E, my_priv)
        k1 == vpn_kdf2(c1, dh1)
        their_static == Plaintext(msg.encrypted_static)
        h2 == mix_hash(h1, msg.encrypted_static)
        dh2 == vpn_crypto_dh(their_static, my_priv)
        k2 == vpn_kdf2(k1.out1, dh2)
    IN  [ok |-> /\ dh1 # DhError
                /\ Authentic(msg.encrypted_static, h1, 0, k1.out2)
                /\ their_static \in DOMAIN last_handshake_time
                /\ dh2 # DhError
                /\ Authentic(msg.encrypted_timestamp, h2, 0, k2.out2)
                /\ ~Stale(Plaintext(msg.encrypted_timestamp),
                          last_handshake_time[their_static]),
         peer |-> their_static,
         chaining_key |-> k2.out1,
         hash |-> mix_hash(h2, msg.encrypted_timestamp)]
-----------------------------------------------------------------------------
(* handshake_create_response, with a fresh ephemeral key e.  The responder  *)
(* sends with the first derived key and receives with the second.           *)

handshake_create_response(their_ephemeral, their_static, my_index, their_index, c, h, e) ==
    LET E  == public(e)
        h1 == mix_hash(h, E)
        dh1 == vpn_crypto_dh(their_ephemeral, e)
        c1 == vpn_kdf1(vpn_kdf1(c, E), dh1)
        dh2 == vpn_crypto_dh(their_static, e)
        k == vpn_kdf2(c1, dh2)
        nothing == vpn_crypto_aead_encrypt(<<>>, h1, 0, k.out2)
        keys == vpn_kdf2(k.out1, <<>>)
    IN  [ok |-> dh1 # DhError /\ dh2 # DhError,
         packet |-> [type |-> "resp",
                     sender_index |-> my_index,
                     receiver_index |-> their_index,
                     unencrypted_ephemeral |-> E,
                     encrypted_nothing |-> nothing,
                     mac1 |-> Mac1(their_static, <<E, nothing>>)],
         send_key |-> keys.out1,
         recv_key |-> keys.out2]
-----------------------------------------------------------------------------
(* handshake_consume_response, with the state its initiation left behind. *)

\* The initiator uses the two derived keys the other way round.
InitiatorKeys_NotSwapped(keys) == [send_key |-> keys.out1, recv_key |-> keys.out2]
InitiatorKeys(keys) == [send_key |-> keys.out2, recv_key |-> keys.out1]

handshake_consume_response(msg, my_priv, init_state) ==
    LET E  == msg.unencrypted_ephemeral
        h1 == mix_hash(init_state.hash, E)
        dh1 == vpn_crypto_dh(E, init_state.ephemeral_private)
        c1 == vpn_kdf1(vpn_kdf1(init_state.chaining_key, E), dh1)
        dh2 == vpn_crypto_dh(E, my_priv)
        k == vpn_kdf2(c1, dh2)
        keys == InitiatorKeys(vpn_kdf2(k.out1, <<>>))
    IN  [ok |-> /\ msg.receiver_index = init_state.local_index
                /\ dh1 # DhError
                /\ dh2 # DhError
                /\ Authentic(msg.encrypted_nothing, h1, 0, k.out2),
         peer_index |-> msg.sender_index,
         send_key |-> keys.send_key,
         recv_key |-> keys.recv_key]
=============================================================================
