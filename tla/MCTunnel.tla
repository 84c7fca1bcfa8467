------------------------------ MODULE MCTunnel ------------------------------
(* Addresses have two bits.  Alice owns 11, Bob everything else as well as *)
(* 11, so that the order of the peers matters.                             *)
EXTENDS Tunnel

Text(ip, prefix) ==
    [fits |-> TRUE, numbers |-> TRUE, small |-> TRUE, ip |-> ip, prefix |-> prefix]

MCConfig ==
    <<[public_key |-> "alice", texts |-> <<Text({0, 1}, 2)>>],
      [public_key |-> "bob", texts |-> <<Text({}, 0)>>]>>

IpPacket(src, dst, size) == [src |-> src, dst |-> dst, size |-> size]

\* Inbound: an honest source, one that only Bob may use, a runt, and the
\* longest packet that a peer's parser takes, and one byte more.
MCInbound ==
    {IpPacket({0, 1}, {}, 20), IpPacket({0}, {}, 1440), IpPacket({0, 1}, {}, 0),
     IpPacket({0, 1}, {}, 1441)}

\* Long conversations with a TUN device and an honest network, one packet else;
\* a move or a damage in the place of a rekey.
TalksOrMoves == used.sends <= 1 \/ (tun_open /\ used.moves + used.damages = 0)
RekeysOrMoves == used.initiations + used.moves + used.damages <= 3

\* Outbound: to either peer, a runt, and too long for the send buffer by one.
MCOutbound ==
    {IpPacket({}, {0, 1}, 20), IpPacket({}, {0}, 1440), IpPacket({}, {0, 1}, 19),
     IpPacket({}, {0, 1}, 2017)}
=============================================================================
