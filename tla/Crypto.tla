------------------------------- MODULE Crypto -------------------------------
(***************************************************************************)
(* The primitives of crypto.c and kdf.c as terms of a free algebra: two    *)
(* results are equal exactly when they were computed from equal inputs,    *)
(* which is what the callers rely on.  A private key is any value; every   *)
(* term is a tuple that starts with the name of its constructor.           *)
(***************************************************************************)

\* The public half of a key pair (vpn_crypto_generate_keypair).
public(priv) == <<"public", priv>>

\* A point of low order: vpn_crypto_dh refuses the all-zero result it gives.
LowOrderPoint == <<"low order", "point">>
DhError == <<"dh error", {}>>

\* X25519: both sides compute the same value from their halves.
vpn_crypto_dh(their_pub, my_priv) ==
    IF their_pub = LowOrderPoint
    THEN DhError
    ELSE <<"dh", {their_pub, public(my_priv)}>>

vpn_crypto_hash(input) == <<"hash", input>>
vpn_crypto_mac16(key, input) == <<"mac16", key, input>>

\* kdf.c: the pseudorandom key, then its expansions; out1 is the same in both.
Expand_NoCounter(n, key, input) == <<"expand", <<"extract", key, input>>>>
Expand(n, key, input) == <<"expand", n, <<"extract", key, input>>>>
vpn_kdf1(key, input) == Expand(1, key, input)
vpn_kdf2(key, input) == [out1 |-> Expand(1, key, input), out2 |-> Expand(2, key, input)]

\* ChaCha20-Poly1305 with the nonce made from a packet counter.
vpn_crypto_aead_encrypt(plain, ad, counter, key) == <<"aead", key, counter, ad, plain>>

\* Whether decryption returns 0: same key, same nonce, same associated data.
Authentic(cipher, ad, counter, key) ==
    /\ cipher[1] = "aead"
    /\ cipher[2] = key
    /\ cipher[3] = counter
    /\ cipher[4] = ad
Plaintext(cipher) == cipher[5]
=============================================================================
