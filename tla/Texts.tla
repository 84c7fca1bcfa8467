-------------------------------- MODULE Texts --------------------------------
(***************************************************************************)
(* The texts the program reads and writes: endpoints (transport.c), keys   *)
(* in hexadecimal (config.c) and IPv4 addresses (routing.c).  The parsers  *)
(* are pure; the machine at the end writes every text up to a bound, a     *)
(* token or a character at a time.                                         *)
(***************************************************************************)
EXTENDS Wire, Sequences, FiniteSets

CONSTANTS
    Tokens,             \* what endpoint texts are made of, [ ] and : among them
    Width,              \* the number of characters of a token
    Atoi,               \* what atoi reads from a text with this first token
    Decimal,            \* the token that a port is printed as
    Ip4, Ip6,           \* inet_pton: the address a sequence of tokens stands for
    Shown,              \* inet_ntop: the tokens an address is printed as
    INET_ADDRSTRLEN,    \* 16
    INET6_ADDRSTRLEN,   \* 46
    HEX,                \* 16
    KEY_LEN,            \* 32
    MAX_TOKENS,         \* bound on the length of an endpoint text
    MAX_CHARACTERS      \* bound on the length of a key text

ASSUME TextsAssumption ==
    /\ HEX \in Nat /\ BYTE = HEX * HEX
    /\ KEY_LEN \in Nat /\ INET_ADDRSTRLEN \in 1..46 /\ INET6_ADDRSTRLEN \in 1..46
    /\ MAX_TOKENS \in Nat /\ MAX_CHARACTERS \in Nat

VARIABLES kind, text

Least(S) == CHOOSE i \in S : \A j \in S : i <= j
Greatest(S) == CHOOSE i \in S : \A j \in S : j <= i
Where(c, str) == {i \in DOMAIN str : str[i] = c}
From(str, i) == SubSeq(str, i, Len(str))
Before(str, i) == SubSeq(str, 1, i - 1)

\* A character is a place in a token of the text.
Places(str) == UNION {{i} \X (1..Width[str[i]]) : i \in DOMAIN str}
Characters(str) == Cardinality(Places(str))
atoi(str) == IF str # <<>> /\ Head(str) \in DOMAIN Atoi THEN Atoi[Head(str)] ELSE 0
-----------------------------------------------------------------------------
(* Endpoints. *)

Ports == 1..65535
Marks == {"[", "]", ":"}
Words == Tokens \ Marks

\* What inet_pton and inet_ntop are relied on for: an address text is shorter
\* than its buffer and of these tokens, and the text printed for an address
\* stands for it.
Addresses(table, tokens, size) ==
    \A ip \in DOMAIN table :
        /\ ip \in Seq(tokens) /\ ip # <<>> /\ Characters(ip) < size
        /\ Shown[table[ip]] \in DOMAIN table
        /\ table[Shown[table[ip]]] = table[ip]

\* The same of atoi and of the %u that prints a port.
ASSUME LibraryAssumption ==
    /\ Tokens \subseteq DOMAIN Width
    /\ \A t \in DOMAIN Width : Width[t] \in Nat
    /\ \A t \in Marks : t \in DOMAIN Width /\ Width[t] = 1 /\ t \notin DOMAIN Atoi
    /\ \A t \in DOMAIN Atoi : Atoi[t] \in Ports => Atoi[t] \in DOMAIN Decimal
    /\ \A port \in DOMAIN Decimal :
           /\ Decimal[port] \in DOMAIN Atoi /\ Atoi[Decimal[port]] = port
           /\ Decimal[port] \in DOMAIN Width /\ Width[Decimal[port]] <= 5
    /\ Addresses(Ip4, DOMAIN Width \ Marks, INET_ADDRSTRLEN)
    /\ Addresses(Ip6, DOMAIN Width \ {"[", "]"}, INET6_ADDRSTRLEN)

SockaddrLen == [AF_INET |-> 16, AF_INET6 |-> 28]
ZeroEndpoint == [family |-> "AF_UNSPEC", port |-> 0, ip |-> "zero", addr_len |-> 0]

\* The memset that endpoint_parse starts with.
Cleared_NotAtAll(endpoint) == endpoint
Cleared(endpoint) == ZeroEndpoint

\* With room for the terminating zero that inet_pton relies on.
FitsIpBuf(ip_len, size) == ip_len < size

Rejected(endpoint) == [ok |-> FALSE, endpoint |-> endpoint]

\* From the copy into ip_buf to the end: the port is stored before the address
\* is looked at, the length after.
EndpointOf(endpoint, family, table, size, ip, rest) ==
    LET half == [endpoint EXCEPT !.family = family, !.port = atoi(rest)]
    IN  IF ~FitsIpBuf(Characters(ip), size) \/ atoi(rest) \notin Ports THEN Rejected(endpoint)
        ELSE IF ip \notin DOMAIN table THEN Rejected(half)
        ELSE [ok |-> TRUE,
              endpoint |-> [half EXCEPT !.ip = table[ip], !.addr_len = SockaddrLen[family]]]

\* "[2001:db8::1]:51820": up to the first closing bracket.
Bracketed(str, endpoint) ==
    LET closing == Least(Where("]", str))
    IN  IF Where("]", str) = {} \/ closing + 1 \notin Where(":", str)
        THEN Rejected(endpoint)
        ELSE EndpointOf(endpoint, "AF_INET6", Ip6, INET6_ADDRSTRLEN,
                        Tail(Before(str, closing)), From(str, closing + 2))

\* "192.168.1.1:51820": up to the last colon.
LastColon(str) == Greatest(Where(":", str))
Dotted(str, endpoint) ==
    IF Where(":", str) \subseteq {1} THEN Rejected(endpoint)
    ELSE EndpointOf(endpoint, "AF_INET", Ip4, INET_ADDRSTRLEN,
                    Before(str, LastColon(str)), From(str, LastColon(str) + 1))

endpoint_parse(str, endpoint) ==
    IF 1 \in Where("[", str) THEN Bracketed(str, Cleared(endpoint))
    ELSE Dotted(str, Cleared(endpoint))

Brackets(shown) == <<"[">> \o shown \o <<"]">>

\* A result of no token is an error.
endpoint_to_string(endpoint, buf_len) ==
    LET port == <<":", Decimal[endpoint.port]>>
        printed == CASE endpoint.family = "AF_INET" -> Shown[endpoint.ip] \o port
                     [] endpoint.family = "AF_INET6" -> Brackets(Shown[endpoint.ip]) \o port
                     [] OTHER -> <<>>
    IN  IF Characters(printed) >= buf_len THEN <<>> ELSE printed

endpoint_equal_PortForgotten(a, b) ==
    a.family = b.family /\ a.family # "AF_UNSPEC" /\ a.ip = b.ip
endpoint_equal(a, b) ==
    /\ a.family = b.family
    /\ a.family # "AF_UNSPEC"
    /\ a.port = b.port
    /\ a.ip = b.ip
-----------------------------------------------------------------------------
(* Keys.  A character is the value of a hexadecimal digit, or one of       *)
(* these.  (An x after a 0 is not among them.)                             *)

SPACE == HEX
SIGN == HEX + 1
LETTER == HEX + 2
IsDigit(str, i) == i \in DOMAIN str /\ str[i] < HEX

\* sscanf(str, "%02x"): blanks are skipped, then two characters are taken at
\* most, a sign among them; a negative value is cut to a byte.
Conversion(str) ==
    LET start == {i \in DOMAIN str : str[i] # SPACE}
        two == IF start = {} THEN <<>> ELSE From(str, Least(start))
    IN  IF IsDigit(two, 1)
        THEN [ok |-> TRUE,
              value |-> IF IsDigit(two, 2) THEN two[1] * HEX + two[2] ELSE two[1]]
        ELSE IF 1 \in Where(SIGN, two) /\ IsDigit(two, 2)
        THEN [ok |-> TRUE, value |-> (BYTE - two[2]) % BYTE]
        ELSE [ok |-> FALSE, value |-> 0]

\* The bytes before the first that cannot be read are written.
Pair_OneOn(i) == i
Pair(i) == 2 * i - 1
config_parse_key_hex(hex_str, key) ==
    LET byte(i) == Conversion(From(hex_str, Pair(i)))
        read == {i \in 1..KEY_LEN : \A j \in 1..i : byte(j).ok}
    IN  IF Len(hex_str) # 2 * KEY_LEN THEN [ok |-> FALSE, key |-> key]
        ELSE [ok |-> read = 1..KEY_LEN,
              key |-> [i \in 1..KEY_LEN |-> IF i \in read THEN byte(i).value ELSE key[i]]]

config_key_to_hex(key) ==
    [c \in 1..(2 * KEY_LEN) |->
        IF c % 2 = 1 THEN key[(c + 1) \div 2] \div HEX ELSE key[c \div 2] % HEX]
-----------------------------------------------------------------------------
(* IPv4 addresses.  A text is the numbers with dots between that it starts *)
(* with, four at most.                                                     *)

\* Four bytes, the most significant first: as main takes an address from a
\* packet, and as vpn_ip_parse puts it together.
AddressOf_LittleEndian(a, b, c, d) == Number4(a, b, c, d)
AddressOf(a, b, c, d) == Number4(d, c, b, a)
PacketAddress(p) == Number4(p[4], p[3], p[2], p[1])

vpn_ip_parse(str) ==
    IF Len(str) = 4 /\ \A i \in 1..4 : str[i] < BYTE
    THEN AddressOf(str[1], str[2], str[3], str[4])
    ELSE 0
vpn_ip_to_string(ip) ==
    <<Digit(Shr(Shr(Shr(ip)))), Digit(Shr(Shr(ip))), Digit(Shr(ip)), Digit(ip)>>
-----------------------------------------------------------------------------
(* All texts.  Two words side by side would be one other word. *)

TextInit == kind = "none" /\ text = <<>>

Writes(what, c, bound) ==
    /\ kind \in {"none", what}
    /\ Len(text) < bound
    /\ kind' = what
    /\ text' = Append(text, c)

TextNext ==
    \/ \E c \in Tokens :
          /\ Writes("endpoint", c, MAX_TOKENS)
          /\ c \in Words /\ text # <<>> => text[Len(text)] \notin Words
    \/ \E c \in 0..LETTER : Writes("key", c, MAX_CHARACTERS)
    \/ \E c \in {0, 1, BYTE - 1, BYTE} : Writes("address", c, 4)

TextSpec == TextInit /\ [][TextNext]_<<kind, text>>
-----------------------------------------------------------------------------
(* What the conversions promise. *)

EndpointsOf(family, table) ==
    [family : {family}, port : DOMAIN Decimal, ip : {table[ip] : ip \in DOMAIN table},
     addr_len : {SockaddrLen[family]}]
Endpoints == {ZeroEndpoint} \cup EndpointsOf("AF_INET", Ip4) \cup EndpointsOf("AF_INET6", Ip6)
Parsed == endpoint_parse(text, ZeroEndpoint)

\* The size of the buffers peer_update_endpoint prints into.
LOG_BUF == 64

StartsWith(str, prefix) == Len(prefix) <= Len(str) /\ SubSeq(str, 1, Len(prefix)) = prefix
Says(family, host, port) ==
    /\ Atoi[port] \in Ports
    /\ StartsWith(text, host \o <<":", port>>)
    /\ family = "AF_INET" => Where(":", text) = {Len(host) + 1}

\* endpoint_parse accepts the texts that start with an address, a colon and a
\* port from 1 to 65535, the IPv6 address in brackets and the IPv4 address with
\* no further colon, and returns that address and port.  For any other text
\* nothing can be sent to the result, whatever endpoint the structure held: the
\* address length is 0.
EndpointTextsExact ==
    kind = "endpoint" =>
        /\ \A old \in Endpoints :
               Parsed.ok \/ endpoint_parse(text, old).endpoint.addr_len = 0
        /\ Parsed.ok = (\E port \in DOMAIN Atoi :
            \/ \E ip \in DOMAIN Ip4 :
                  /\ Says("AF_INET", ip, port)
                  /\ Parsed.endpoint = [family |-> "AF_INET", port |-> Atoi[port],
                                        ip |-> Ip4[ip], addr_len |-> 16]
            \/ \E ip \in DOMAIN Ip6 :
                  /\ Says("AF_INET6", <<"[">> \o ip \o <<"]">>, port)
                  /\ Parsed.endpoint = [family |-> "AF_INET6", port |-> Atoi[port],
                                        ip |-> Ip6[ip], addr_len |-> 28])

\* What endpoint_to_string prints for an accepted endpoint fits the buffers of
\* peer_update_endpoint, endpoint_parse reads the same endpoint from it, and
\* endpoint_equal tells two endpoints apart exactly when these texts do.
EndpointsPrintBack ==
    kind = "endpoint" /\ Parsed.ok =>
        LET printed == endpoint_to_string(Parsed.endpoint, LOG_BUF)
        IN  /\ printed # <<>>
            /\ endpoint_parse(printed, ZeroEndpoint).endpoint = Parsed.endpoint
            /\ \A other \in Endpoints :
                   endpoint_equal(Parsed.endpoint, other)
                       <=> printed = endpoint_to_string(other, LOG_BUF)

\* config_key_to_hex undoes config_parse_key_hex on a text of the right number
\* of hexadecimal digits, and config_parse_key_hex undoes config_key_to_hex on
\* every key it returned, whatever the text was.
KeysPrintBack ==
    kind = "key" =>
        LET zero == [i \in 1..KEY_LEN |-> 0]
            parsed == config_parse_key_hex(text, zero)
        IN  /\ Len(text) = 2 * KEY_LEN /\ (\A i \in DOMAIN text : IsDigit(text, i))
                   => parsed.ok /\ config_key_to_hex(parsed.key) = text
            /\ parsed.ok =>
                   config_parse_key_hex(config_key_to_hex(parsed.key), zero) = parsed

\* An address written a.b.c.d is to vpn_ip_parse the number that main takes from
\* a packet with the bytes a, b, c, d, and vpn_ip_to_string gives a.b.c.d back.
AddressesAgree ==
    kind = "address" /\ Len(text) = 4 /\ (\A i \in 1..4 : text[i] < BYTE) =>
        /\ vpn_ip_parse(text) = PacketAddress(text)
        /\ vpn_ip_to_string(vpn_ip_parse(text)) = text
=============================================================================
