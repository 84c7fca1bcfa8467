-------------------------------- MODULE Wire --------------------------------
(***************************************************************************)
(* The bytes of datagrams (packet.h, packet.c): offsets, byte order and    *)
(* the parsers that read what the serialisers wrote; and the AEAD nonce,   *)
(* which is built with the same helpers (crypto.c).                        *)
(*                                                                         *)
(* A byte is a triple <<owner, field, value>>: the number of the packet it *)
(* was written for, the field it belongs to, and its value, or its place   *)
(* in the field where only that matters.  A buffer is a function from      *)
(* offsets to bytes; a write outside it would show as a larger domain.     *)
(***************************************************************************)
EXTENDS Integers

CONSTANTS
    BYTE,                       \* how many values a byte has (256)
    VPN_DEFAULT_INNER_MTU,
    VPN_MAX_PACKET_SIZE

ASSUME ByteAssumption == BYTE \in Nat /\ BYTE >= 2

P == INSTANCE Packet

ASSUME WireAssumption ==
    /\ VPN_DEFAULT_INNER_MTU \in Nat /\ VPN_MAX_PACKET_SIZE \in Nat
    /\ P!PACKET_HANDSHAKE_INIT_LEN < VPN_MAX_PACKET_SIZE
    /\ P!PACKET_DATA_MAX_LEN < VPN_MAX_PACKET_SIZE

Owner(byte) == byte[1]
Value(byte) == byte[3]

\* An opaque field of length bytes, written for packet o.
Field(o, name, length) == [k \in 0..(length - 1) |-> <<o, name, k>>]

memcpy(buf, offset, src) ==
    [i \in DOMAIN buf \cup {offset + k : k \in DOMAIN src} |->
        IF i - offset \in DOMAIN src THEN src[i - offset] ELSE buf[i]]
memset(buf, o, length) == memcpy(buf, 0, [k \in 0..(length - 1) |-> <<o, "zero", 0>>])

\* What a pointer into buf and a length stand for.
At(buf, offset, length) == [k \in 0..(length - 1) |-> buf[offset + k]]
-----------------------------------------------------------------------------
(* Little-endian integers. *)

Word32 == BYTE * BYTE * BYTE * BYTE
Word64 == Word32 * Word32

\* v >> 8, one byte further on.
Shr(v) == v \div BYTE
Digit(v) == v % BYTE

\* The four low bytes of v, and the four of v >> 32.
Low4_BigEndian(v) == <<Digit(Shr(Shr(Shr(v)))), Digit(Shr(Shr(v))), Digit(Shr(v)), Digit(v)>>
Low4(v) == <<Digit(v), Digit(Shr(v)), Digit(Shr(Shr(v))), Digit(Shr(Shr(Shr(v))))>>
High4(v) == Low4(Shr(Shr(Shr(Shr(v)))))

le32_write(o, v) == [k \in 0..3 |-> <<o, "number", Low4(v)[k + 1]>>]
le64_write(o, v) ==
    [k \in 0..7 |-> <<o, "number", IF k < 4 THEN Low4(v)[k + 1] ELSE High4(v)[k - 3]>>]

Number4(a, b, c, d) == a + BYTE * (b + BYTE * (c + BYTE * d))
le32_read(p) == Number4(Value(p[0]), Value(p[1]), Value(p[2]), Value(p[3]))
le64_read(p) == le32_read(p) + Word32 * le32_read(At(p, 4, 4))

\* Four zero bytes, then the counter; whose they are does not matter.
ZeroNonce == [k \in 0..11 |-> <<0, "number", 0>>]
format_nonce_HalfCounter(counter) == memcpy(ZeroNonce, 4, le32_write(0, counter))
vpn_crypto_format_nonce(counter) == memcpy(ZeroNonce, 4, le64_write(0, counter))
-----------------------------------------------------------------------------
(* Types. *)

TypeByte ==
    [INVALID |-> 0, HANDSHAKE_INIT |-> 1, HANDSHAKE_RESP |-> 2, DATA |-> 3, KEEPALIVE |-> 4]
TypeNames == DOMAIN TypeByte
PutType(buf, o, type) == memcpy(buf, 0, [k \in {0} |-> <<o, "number", TypeByte[type]>>])

packet_peek_type(buf, len) ==
    IF len >= 1 /\ \E t \in TypeNames \ {"INVALID"} : Value(buf[0]) = TypeByte[t]
    THEN CHOOSE t \in TypeNames : Value(buf[0]) = TypeByte[t]
    ELSE "INVALID"

IsType(buf, type) == Value(buf[0]) = TypeByte[type]
-----------------------------------------------------------------------------
(* Handshake messages.  A parser returns ok |-> FALSE, or the fields. *)

Refused == [ok |-> FALSE]

packet_serialize_handshake_init(buf, o, msg) ==
    LET b0 == PutType(memset(buf, o, P!PACKET_HANDSHAKE_INIT_LEN), o, "HANDSHAKE_INIT")
        b1 == memcpy(b0, 4, le32_write(o, msg.sender_index))
        b2 == memcpy(b1, 8, msg.unencrypted_ephemeral)
        b3 == memcpy(b2, 40, msg.encrypted_static)
        b4 == memcpy(b3, 88, msg.encrypted_timestamp)
        b5 == memcpy(b4, 116, msg.mac1)
    IN  memcpy(b5, 132, msg.mac2)

packet_parse_handshake_init(buf, len) ==
    IF len = P!PACKET_HANDSHAKE_INIT_LEN /\ IsType(buf, "HANDSHAKE_INIT")
    THEN [ok |-> TRUE,
          sender_index |-> le32_read(At(buf, 4, 4)),
          unencrypted_ephemeral |-> At(buf, 8, 32),
          encrypted_static |-> At(buf, 40, 48),
          encrypted_timestamp |-> At(buf, 88, 28),
          mac1 |-> At(buf, 116, 16),
          mac2 |-> At(buf, 132, 16)]
    ELSE Refused

packet_serialize_handshake_resp(buf, o, msg) ==
    LET b0 == PutType(memset(buf, o, P!PACKET_HANDSHAKE_RESP_LEN), o, "HANDSHAKE_RESP")
        b1 == memcpy(b0, 4, le32_write(o, msg.sender_index))
        b2 == memcpy(b1, 8, le32_write(o, msg.receiver_index))
        b3 == memcpy(b2, 12, msg.unencrypted_ephemeral)
        b4 == memcpy(b3, 44, msg.encrypted_nothing)
        b5 == memcpy(b4, 60, msg.mac1)
    IN  memcpy(b5, 76, msg.mac2)

packet_parse_handshake_resp(buf, len) ==
    IF len = P!PACKET_HANDSHAKE_RESP_LEN /\ IsType(buf, "HANDSHAKE_RESP")
    THEN [ok |-> TRUE,
          sender_index |-> le32_read(At(buf, 4, 4)),
          receiver_index |-> le32_read(At(buf, 8, 4)),
          unencrypted_ephemeral |-> At(buf, 12, 32),
          encrypted_nothing |-> At(buf, 44, 16),
          mac1 |-> At(buf, 60, 16),
          mac2 |-> At(buf, 76, 16)]
    ELSE Refused
-----------------------------------------------------------------------------
(* Data and keepalive. *)

\* What is written, where total_len fits the buffer.
packet_serialize_data(buf, o, receiver_index, counter, ciphertext, ciphertext_len, auth_tag) ==
    LET b0 == memset(buf, o, P!PACKET_DATA_HEADER_LEN)
        b1 == PutType(b0, o, IF ciphertext_len = 0 THEN "KEEPALIVE" ELSE "DATA")
        b2 == memcpy(b1, 4, le32_write(o, receiver_index))
        b3 == memcpy(b2, 8, le64_write(o, counter))
        b4 == memcpy(b3, P!PACKET_DATA_HEADER_LEN, At(ciphertext, 0, ciphertext_len))
    IN  memcpy(b4, P!PACKET_DATA_HEADER_LEN + ciphertext_len, auth_tag)

DataFits(len) == len \in P!PACKET_DATA_MIN_LEN..P!PACKET_DATA_MAX_LEN

packet_parse_data(buf, len) ==
    LET ciphertext_len == len - P!PACKET_DATA_MIN_LEN
    IN  IF DataFits(len) /\ (IsType(buf, "DATA") \/ IsType(buf, "KEEPALIVE"))
        THEN [ok |-> TRUE,
              receiver_index |-> le32_read(At(buf, 4, 4)),
              counter |-> le64_read(At(buf, 8, 8)),
              ciphertext |-> At(buf, P!PACKET_DATA_HEADER_LEN, ciphertext_len),
              ciphertext_len |-> ciphertext_len,
              auth_tag |-> At(buf, P!PACKET_DATA_HEADER_LEN + ciphertext_len,
                              P!VPN_AUTH_TAG_LEN)]
        ELSE Refused
=============================================================================
