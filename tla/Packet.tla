------------------------------- MODULE Packet -------------------------------
(***************************************************************************)
(* The framing of datagrams (packet.c), by length and type byte.  A        *)
(* datagram is a record with the fields of its wire structure, its type    *)
(* and its length; a plaintext is a record with a field size.              *)
(***************************************************************************)
EXTENDS Integers

CONSTANTS
    VPN_DEFAULT_INNER_MTU,      \* 1440
    VPN_MAX_PACKET_SIZE         \* 2048

VPN_AUTH_TAG_LEN == 16
PACKET_HANDSHAKE_INIT_LEN == 148
PACKET_HANDSHAKE_RESP_LEN == 92
PACKET_DATA_HEADER_LEN == 16
PACKET_DATA_MIN_LEN == PACKET_DATA_HEADER_LEN + VPN_AUTH_TAG_LEN
PACKET_DATA_MAX_LEN == PACKET_DATA_MIN_LEN + VPN_DEFAULT_INNER_MTU
IPV4_HEADER_LEN == 20

ASSUME PacketAssumption ==
    /\ VPN_DEFAULT_INNER_MTU \in Nat /\ VPN_MAX_PACKET_SIZE \in Nat
    /\ PACKET_HANDSHAKE_INIT_LEN < VPN_MAX_PACKET_SIZE
    /\ PACKET_DATA_MAX_LEN < VPN_MAX_PACKET_SIZE

\* packet_peek_type: any other first byte is PACKET_TYPE_INVALID.
PacketTypes == {"HANDSHAKE_INIT", "HANDSHAKE_RESP", "DATA", "KEEPALIVE"}
packet_peek_type(m) == IF m.type \in PacketTypes THEN m.type ELSE "INVALID"

\* The parsers, as whether they return 0.
packet_parse_handshake_init(m) ==
    m.type = "HANDSHAKE_INIT" /\ m.length = PACKET_HANDSHAKE_INIT_LEN
packet_parse_handshake_resp(m) ==
    m.type = "HANDSHAKE_RESP" /\ m.length = PACKET_HANDSHAKE_RESP_LEN
packet_parse_data(m) ==
    /\ m.type \in {"DATA", "KEEPALIVE"}
    /\ m.length \in PACKET_DATA_MIN_LEN..PACKET_DATA_MAX_LEN

DataLength(size) == PACKET_DATA_HEADER_LEN + size + VPN_AUTH_TAG_LEN

\* packet_serialize_data into a buffer of VPN_MAX_PACKET_SIZE bytes, if it fits.
FitsBuffer(size) == DataLength(size) <= VPN_MAX_PACKET_SIZE
packet_serialize_data(receiver_index, counter, cipher, size) ==
    [type |-> IF size = 0 THEN "KEEPALIVE" ELSE "DATA",
     length |-> DataLength(size),
     receiver_index |-> receiver_index,
     counter |-> counter,
     cipher |-> cipher]
=============================================================================
