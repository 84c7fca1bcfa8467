--------------------------- MODULE ReplayWindow ---------------------------
(***************************************************************************)
(* What the anti-replay filter of one session promises, without a bitmap:  *)
(* every counter is accepted at most once, and a counter may be accepted   *)
(* as long as it is less than WINDOW_SIZE behind every accepted one.       *)
(***************************************************************************)
EXTENDS Naturals

CONSTANTS
    WINDOW_SIZE,    \* VPN_REPLAY_WINDOW_SIZE
    Counters        \* the packet counters that can occur

VARIABLES
    accepted,       \* the counters accepted so far
    deliveries      \* how many datagrams were accepted

vars == <<accepted, deliveries>>

\* c is new, and not older than the window that ends at the highest accepted.
Fresh(c) ==
    /\ c \notin accepted
    /\ \A a \in accepted : a < c + WINDOW_SIZE

Init ==
    /\ accepted = {}
    /\ deliveries = 0

Accept(c) ==
    /\ Fresh(c)
    /\ accepted' = accepted \cup {c}
    /\ deliveries' = deliveries + 1

Next == \E c \in Counters : Accept(c)

Spec == Init /\ [][Next]_vars
=============================================================================
