------------------------------ MODULE DataPath ------------------------------
(***************************************************************************)
(* The four packet buffers of main, which every round of the event loop    *)
(* uses again without clearing them, and the bytes that pass through them: *)
(* from a datagram to the TUN device and from the TUN device to a          *)
(* datagram.  Whether a packet belongs to a session, is authentic and is   *)
(* routed is Tunnel's subject and a free choice here.                      *)
(***************************************************************************)
EXTENDS Wire

CONSTANTS
    Numbers,            \* pairs <<index, counter>> that packets may carry
    DataSizes,          \* sizes of the ciphertexts remote ends send
    TunSizes,           \* sizes of the packets the kernel routes to the device
    MAX_PACKETS         \* bound on the packets handled

ASSUME DataPathAssumption ==
    /\ Numbers \subseteq (0..(Word32 - 1)) \X (0..(Word64 - 1))
    /\ DataSizes \subseteq Nat
    /\ TunSizes \subseteq 1..VPN_MAX_PACKET_SIZE
    /\ MAX_PACKETS \in Nat

VARIABLES
    n,                  \* the number of the packet handled last
    net_buf, tun_buf, plain_buf, cipher_buf,    \* main's buffers
    input,              \* what the packet handled last was, before it was bytes
    view,               \* what a parser returned for it
    looked,             \* the bytes main took for an address
    output,             \* where the bytes went, and which ones
    nonces              \* history: the counters sent with, and their nonces

buffers == <<net_buf, tun_buf, plain_buf, cipher_buf>>
vars == <<n, buffers, input, view, looked, output, nonces>>

Offsets == 0..(VPN_MAX_PACKET_SIZE - 1)
Nothing == [to |-> "nowhere", length |-> 0]
Out(to, buf, length) == [to |-> to, length |-> length, bytes |-> At(buf, 0, length)]
NoBytes == [k \in {} |-> <<>>]

\* The buffers are on main's stack, with what was there before.
Init ==
    /\ n = 0
    /\ net_buf = [i \in Offsets |-> <<0, "stack", 0>>]
    /\ tun_buf = net_buf /\ plain_buf = net_buf /\ cipher_buf = net_buf
    /\ input = [kind |-> "none", length |-> 0]
    /\ view = Refused
    /\ looked = NoBytes
    /\ output = Nothing
    /\ nonces = {}
-----------------------------------------------------------------------------
(* Remote ends: what they put into a datagram, with the serialisers of     *)
(* packet.c, and what becomes of it on the way.                            *)

InitMessage(o, index) ==
    [ok |-> TRUE, sender_index |-> index,
     unencrypted_ephemeral |-> Field(o, "ephemeral", 32),
     encrypted_static |-> Field(o, "static", 48),
     encrypted_timestamp |-> Field(o, "timestamp", 28),
     mac1 |-> Field(o, "mac1", 16), mac2 |-> Field(o, "mac2", 16)]
RespMessage(o, index, receiver_index) ==
    [ok |-> TRUE, sender_index |-> index, receiver_index |-> receiver_index,
     unencrypted_ephemeral |-> Field(o, "ephemeral", 32),
     encrypted_nothing |-> Field(o, "nothing", 16),
     mac1 |-> Field(o, "mac1", 16), mac2 |-> Field(o, "mac2", 16)]
DataMessage(o, index, counter, size) ==
    [ok |-> TRUE, receiver_index |-> index, counter |-> counter,
     ciphertext |-> Field(o, "cipher", size), ciphertext_len |-> size,
     auth_tag |-> Field(o, "tag", P!VPN_AUTH_TAG_LEN)]

Datagram(kind, msg, bytes, length) ==
    [kind |-> kind, msg |-> msg, bytes |-> bytes, length |-> length]
InitDatagram(o, index) ==
    LET msg == InitMessage(o, index)
    IN  Datagram("init", msg, packet_serialize_handshake_init(NoBytes, o, msg),
                 P!PACKET_HANDSHAKE_INIT_LEN)
RespDatagram(o, index) ==
    LET msg == RespMessage(o, index, index)
    IN  Datagram("resp", msg, packet_serialize_handshake_resp(NoBytes, o, msg),
                 P!PACKET_HANDSHAKE_RESP_LEN)
DataDatagram(o, number, size) ==
    LET msg == DataMessage(o, number[1], number[2], size)
    IN  Datagram("data", msg,
                 packet_serialize_data(NoBytes, o, msg.receiver_index, msg.counter,
                                       msg.ciphertext, size, msg.auth_tag),
                 P!DataLength(size))

\* Short by a byte, a byte too long, or with the first byte of another type.
Cut(d) == [d EXCEPT !.kind = "damaged", !.length = @ - 1, !.bytes = At(@, 0, d.length - 1)]
Padded(d, o) ==
    [d EXCEPT !.kind = "damaged", !.length = @ + 1,
              !.bytes = memcpy(@, d.length, Field(o, "padding", 1))]
Retyped(d, o, type) ==
    [d EXCEPT !.kind = "damaged", !.bytes = PutType(@, o, type)]
-----------------------------------------------------------------------------
(* A datagram in main.  transport_recv cuts off what does not fit net_buf. *)

Received(d) == IF d.length < VPN_MAX_PACKET_SIZE THEN d.length ELSE VPN_MAX_PACKET_SIZE
NetBuf(d) == memcpy(net_buf, 0, At(d.bytes, 0, Received(d)))

Arrives(d) ==
    /\ n < MAX_PACKETS
    /\ n' = n + 1
    /\ net_buf' = NetBuf(d)
    /\ input' = [kind |-> d.kind, msg |-> d.msg, length |-> Received(d)]
    /\ UNCHANGED <<tun_buf, cipher_buf, nonces>>

\* handshake_consume_initiation may refuse what the parser takes.  The
\* response is written into a buffer of its own.
ReceiveInit(d, index) ==
    LET parsed == packet_parse_handshake_init(NetBuf(d), Received(d))
        resp_packet == [i \in 0..(P!PACKET_HANDSHAKE_RESP_LEN - 1) |-> <<0, "stack", 0>>]
        resp == RespMessage(n + 1, index, parsed.sender_index)
    IN  /\ packet_peek_type(NetBuf(d), Received(d)) = "HANDSHAKE_INIT"
        /\ Arrives(d)
        /\ view' = parsed
        /\ looked' = NoBytes
        /\ \/ output' = Nothing
           \/ /\ parsed.ok
              /\ output' = Out("udp", packet_serialize_handshake_resp(resp_packet, n + 1, resp),
                               P!PACKET_HANDSHAKE_RESP_LEN)
        /\ UNCHANGED plain_buf

\* What the AEAD demands: the sender's nonce, ciphertext and tag.
Opens(parsed, msg) ==
    /\ "counter" \in DOMAIN msg
    /\ vpn_crypto_format_nonce(parsed.counter) = vpn_crypto_format_nonce(msg.counter)
    /\ parsed.ciphertext = msg.ciphertext
    /\ parsed.auth_tag = msg.auth_tag
Decrypted(ciphertext) == [k \in DOMAIN ciphertext |-> <<Owner(ciphertext[k]), "plain", k>>]
Encrypted(plaintext) == [k \in DOMAIN plaintext |-> <<Owner(plaintext[k]), "cipher", k>>]

HasAddress_Keepalive(size) == TRUE
HasAddress(size) == size >= P!IPV4_HEADER_LEN

\* Main takes bytes 12 to 15 for the source address; tun_write takes what its
\* mtu allows.
Delivered(plain, size, allowed) ==
    /\ looked' = IF HasAddress(size) THEN At(plain, 12, 4) ELSE NoBytes
    /\ output' = IF HasAddress(size) /\ allowed /\ size <= VPN_DEFAULT_INNER_MTU
                 THEN Out("tun", plain, size) ELSE Nothing

\* No session, a replay or a wrong key drop what the parser takes; a failed
\* decryption leaves plain_buf as it was, or cleared.
ReceiveData(d, allowed) ==
    LET parsed == packet_parse_data(NetBuf(d), Received(d))
        plain == memcpy(plain_buf, 0, Decrypted(parsed.ciphertext))
    IN  /\ packet_peek_type(NetBuf(d), Received(d)) \in {"DATA", "KEEPALIVE"}
        /\ Arrives(d)
        /\ view' = parsed
        /\ \/ looked' = NoBytes /\ output' = Nothing /\ UNCHANGED plain_buf
           \/ /\ parsed.ok
              /\ looked' = NoBytes /\ output' = Nothing
              /\ plain_buf' = memset(plain_buf, n + 1, parsed.ciphertext_len)
           \/ /\ parsed.ok
              /\ Opens(parsed, d.msg)
              /\ plain_buf' = plain
              /\ Delivered(plain, parsed.ciphertext_len, allowed)

\* Nothing else is looked at: a response, an unknown type, an empty datagram.
ReceiveOther(d) ==
    /\ packet_peek_type(NetBuf(d), Received(d)) \in {"HANDSHAKE_RESP", "INVALID"}
    /\ Arrives(d)
    /\ view' = Refused /\ looked' = NoBytes /\ output' = Nothing
    /\ UNCHANGED plain_buf

Receive(d) ==
    \/ \E number \in Numbers : ReceiveInit(d, number[1])
    \/ \E allowed \in BOOLEAN : ReceiveData(d, allowed)
    \/ ReceiveOther(d)

\* The path hands a datagram over as it was sent, or damages it.
Delivers(d) ==
    \/ Receive(d)
    \/ Receive(Cut(d))
    \/ Receive(Padded(d, n + 1))
    \/ \E type \in TypeNames : Receive(Retyped(d, n + 1, type))
-----------------------------------------------------------------------------
(* A packet from the TUN device. *)

FitsNetBuf_Unchecked(size) == TRUE
FitsNetBuf(size) == P!FitsBuffer(size)

ReadTun(size, number, routed) ==
    LET o == n + 1
        buf == memcpy(tun_buf, 0, Field(o, "plain", size))
        cipher == memcpy(cipher_buf, 0, Encrypted(At(buf, 0, size)))
        tag == Field(o, "tag", P!VPN_AUTH_TAG_LEN)
        net == packet_serialize_data(net_buf, o, number[1], number[2], cipher, size, tag)
        sends == HasAddress(size) /\ routed
    IN  /\ n < MAX_PACKETS
        /\ n' = o
        /\ tun_buf' = buf
        /\ looked' = IF HasAddress(size) THEN At(buf, 16, 4) ELSE NoBytes
        /\ input' = [kind |-> "tun", msg |-> DataMessage(o, number[1], number[2], size),
                     length |-> size]
        /\ view' = Refused
        /\ cipher_buf' = IF sends THEN cipher ELSE cipher_buf
        /\ nonces' = IF sends
                     THEN nonces \cup {<<number[2], vpn_crypto_format_nonce(number[2])>>}
                     ELSE nonces
        /\ net_buf' = IF sends /\ FitsNetBuf(size) THEN net ELSE net_buf
        /\ output' = IF sends /\ FitsNetBuf(size)
                     THEN Out("udp", net, P!DataLength(size)) ELSE Nothing
        /\ UNCHANGED plain_buf

Next ==
    \/ \E number \in Numbers :
           \/ Delivers(InitDatagram(n + 1, number[1]))
           \/ Delivers(RespDatagram(n + 1, number[1]))
           \/ \E size \in DataSizes : Delivers(DataDatagram(n + 1, number, size))
    \/ \E size \in TunSizes, number \in Numbers, routed \in BOOLEAN :
           ReadTun(size, number, routed)

Spec == Init /\ [][Next]_vars
-----------------------------------------------------------------------------
\* No write leaves its buffer: the lengths that transport_recv, tun_read,
\* packet_parse_data and packet_serialize_data let through fit net_buf,
\* tun_buf, plain_buf and cipher_buf.
WritesInside ==
    /\ DOMAIN net_buf = Offsets /\ DOMAIN tun_buf = Offsets
    /\ DOMAIN plain_buf = Offsets /\ DOMAIN cipher_buf = Offsets

\* Every byte that leaves the program, on the socket or the TUN device, and
\* every byte main takes for an address was written for the packet at hand:
\* none is a leftover of an earlier packet or of the stack.
NothingStale ==
    /\ \A k \in DOMAIN looked : Owner(looked[k]) = n
    /\ output.to # "nowhere" => \A k \in DOMAIN output.bytes : Owner(output.bytes[k]) = n

\* A datagram that arrives whole is parsed into what its sender serialised, and
\* what this end serialises is what the parser of the other end would return,
\* up to the size that parser allows.
FieldsSurvive ==
    /\ input.kind = "init" => view = input.msg
    /\ input.kind = "data" /\ input.msg.ciphertext_len <= VPN_DEFAULT_INNER_MTU
           => view = input.msg
    /\ input.kind = "init" /\ output.to = "udp" =>
           packet_parse_handshake_resp(output.bytes, output.length)
               \in {RespMessage(n, number[1], input.msg.sender_index) : number \in Numbers}
    /\ input.kind = "tun" /\ output.to = "udp" =>
           packet_parse_data(output.bytes, output.length)
               = IF input.length <= VPN_DEFAULT_INNER_MTU THEN input.msg ELSE Refused

\* Two packets sent with different counters have different nonces.
NoncesDiffer == \A p, q \in nonces : p[2] = q[2] => p[1] = q[1]
=============================================================================
