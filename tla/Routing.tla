------------------------------- MODULE Routing -------------------------------
(***************************************************************************)
(* IPv4 prefixes (routing.c).  An address or a mask is the set of its bits *)
(* that are 1, bit 0 being the least significant, so that & is \cap.       *)
(***************************************************************************)
EXTENDS Integers

CONSTANT ADDRESS_BITS       \* 32

ASSUME AddressAssumption == ADDRESS_BITS \in Nat \ {0}

AddressBits == 0..(ADDRESS_BITS - 1)
Addresses == SUBSET AddressBits
Cidrs == [network : Addresses, mask : Addresses, prefix_len : 0..ADDRESS_BITS]

\* What an AllowedIPs text says to the parser: whether there is something, of
\* at most 31 characters, before the slash; whether it starts with four numbers,
\* whether all of them are at most 255, and what they are when shifted to their
\* places; what atoi makes of the rest (no slash is /32).
CidrTexts ==
    [fits : BOOLEAN, numbers : BOOLEAN, small : BOOLEAN, ip : Addresses, prefix : Int]

\* Anything that is not an address is read as 0.0.0.0, and is no error.
IsAddress(text) == text.numbers /\ text.small
vpn_ip_parse(text) == IF IsAddress(text) THEN text.ip ELSE {}

\* 0xFFFFFFFF << (32 - prefix).  A shift by the full width is undefined in C
\* (the processor shifts by 0), hence the code's case of its own for prefix 0.
Mask_NoZeroCase(prefix) ==
    {b \in AddressBits : b >= (ADDRESS_BITS - prefix) % ADDRESS_BITS}
Mask(prefix) ==
    IF prefix = 0 THEN {} ELSE {b \in AddressBits : b >= ADDRESS_BITS - prefix}

CidrError(text) == ~text.fits \/ text.prefix \notin 0..ADDRESS_BITS

\* The result of a parse without error.
vpn_cidr_parse(text) ==
    [network |-> vpn_ip_parse(text) \cap Mask(text.prefix),
     mask |-> Mask(text.prefix),
     prefix_len |-> text.prefix]

vpn_cidr_match(cidr, ip) == ip \cap cidr.mask = cidr.network

\* What a prefix means: the first prefix bits of the address are the text's.
Covers(text, ip) ==
    \A b \in AddressBits :
        b >= ADDRESS_BITS - text.prefix => (b \in ip <=> b \in vpn_ip_parse(text))
=============================================================================
