-------------------------- MODULE RoutingExercises --------------------------
(***************************************************************************)
(* The two programs the cryptographic routing of the daemon grew out of:   *)
(* exercises/crypto_routing.c (the first peer that allows an address) and  *)
(* exercises/routing.c (the longest prefix).  What was registered is a set *)
(* of records [peer, text], the peers numbered in the order of the PEER    *)
(* lines; an answer is a peer, or DROP.                                    *)
(***************************************************************************)
EXTENDS Routing

DROP == 0

First(S) == IF S = {} THEN DROP ELSE CHOOSE i \in S : \A j \in S : i <= j

\* crypto_routing.c: fewer than four numbers are 0.0.0.0, as in the daemon, but
\* numbers above 255 are shifted to their places like others.
parse_ip(text) == IF text.numbers THEN text.ip ELSE {}

\* A prefix out of range is the nearest in range.
ClampedMask_ZeroIsHost(prefix) ==
    IF prefix <= 0 \/ prefix >= ADDRESS_BITS THEN AddressBits
    ELSE {b \in AddressBits : b >= ADDRESS_BITS - prefix}
ClampedMask(prefix) ==
    IF prefix <= 0 THEN {}
    ELSE IF prefix >= ADDRESS_BITS THEN AddressBits
    ELSE {b \in AddressBits : b >= ADDRESS_BITS - prefix}

parse_cidr(text) ==
    [network |-> parse_ip(text) \cap ClampedMask(text.prefix), mask |-> ClampedMask(text.prefix)]
matches_cidr(ip, cidr) == ip \cap cidr.mask = cidr.network
peer_allows_ip(registered, i, ip) ==
    \E r \in registered : r.peer = i /\ matches_cidr(ip, parse_cidr(r.text))

OUT(registered, ip) ==
    First({r.peer : r \in {q \in registered : peer_allows_ip(registered, q.peer, ip)}})
IN_OK(registered, i, ip) == peer_allows_ip(registered, i, ip)

\* routing.c: among the routes that match, a later one only if its prefix is
\* longer.  It tests neither the numbers, which it shifts as crypto_routing.c does,
\* nor the prefix.  A text without four numbers leaves its variables unset, and a
\* prefix out of range shifts by more than the width: neither is asked.
RouteMatches(route, ip) ==
    LET mask == IF route.text.prefix = 0 THEN {}
                ELSE {b \in AddressBits : b >= ADDRESS_BITS - route.text.prefix}
    IN  ip \cap mask = route.text.ip \cap mask

Best_Shortest(routes) == {r \in routes : \A q \in routes : r.text.prefix <= q.text.prefix}
Best(routes) == {r \in routes : \A q \in routes : q.text.prefix <= r.text.prefix}

ROUTE(registered, ip) ==
    First({r.peer : r \in Best({q \in registered : RouteMatches(q, ip)})})
=============================================================================
