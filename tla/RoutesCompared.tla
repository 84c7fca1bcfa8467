--------------------------- MODULE RoutesCompared ---------------------------
(***************************************************************************)
(* The routing of the daemon beside that of the two exercises it grew out  *)
(* of, all three with the AllowedIPs texts that peer_add_allowed_ip took.  *)
(***************************************************************************)
EXTENDS PeerSessions, RoutingExercises

\* The daemon answers as exercises/crypto_routing.c does for what it was
\* configured with, for packets out and in, if no text it took has a number above
\* 255 (the daemon reads 300.1.2.3/32 as 0.0.0.0/32, the exercise as 44.1.2.3/32).
ExerciseAgrees ==
    (\A g \in granted : g.text.numbers => g.text.small) =>
    \A ip \in Addresses :
        /\ peer_find_by_dest_ip(table, ip) = OUT(granted, ip)
        /\ \A i \in Positions :
               peer_allows_source_ip(table.peers[i], ip) <=> IN_OK(granted, i, ip)

\* The peer that peer_find_by_dest_ip takes is the one with the longest prefix,
\* as in exercises/routing.c, unless one listed earlier has a shorter prefix that
\* matches too: only then does the order of the peers decide.  (Texts that are
\* no addresses aside, which that exercise does not expect.)
LongestUnlessShadowed ==
    (\A g \in granted : IsAddress(g.text)) =>
    \A ip \in Addresses :
        LET taken == peer_find_by_dest_ip(table, ip)
            longest == ROUTE(granted, ip)
            prefixes(i) == {g.text.prefix : g \in {h \in granted : h.peer = i /\ Covers(h.text, ip)}}
        IN  \/ taken = longest
            \/ /\ taken < longest
               /\ \E q \in prefixes(longest) : \A p \in prefixes(taken) : p < q
=============================================================================
