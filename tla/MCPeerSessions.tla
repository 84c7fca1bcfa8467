--------------------------- MODULE MCPeerSessions ---------------------------
(* Texts: every prefix length from one below to one above the valid ones,   *)
(* host bits set or not, fewer than four numbers, a number above 255, and    *)
(* too long an address.                                                     *)
EXTENDS RoutesCompared

Text(ip, prefix) ==
    [fits |-> TRUE, numbers |-> TRUE, small |-> TRUE, ip |-> ip, prefix |-> prefix]

MCTexts ==
    {Text(ip, prefix) : ip \in {{}, {0, 1}, {1}}, prefix \in -1..(ADDRESS_BITS + 1)}
        \cup {[Text({0}, ADDRESS_BITS) EXCEPT !.numbers = FALSE],
              [Text({0}, ADDRESS_BITS) EXCEPT !.small = FALSE],
              [Text({0}, ADDRESS_BITS) EXCEPT !.fits = FALSE]}

\* Texts are added to two peers before the first datagram arrives.
TextsFirst ==
    granted # {} =>
        /\ handshakes = 0
        /\ \A i \in Positions :
               table.peers[i].endpoint = NoEndpoint /\ table.peers[i].public_key # "k3"
=============================================================================
