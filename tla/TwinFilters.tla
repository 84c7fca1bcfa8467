---------------------------- MODULE TwinFilters ----------------------------
(***************************************************************************)
(* The two anti-replay filters of the repository side by side: the ring of *)
(* exercises/Replaywindow.c is given the counter of every datagram that    *)
(* reaches the bitmap of replay.c undamaged.                               *)
(***************************************************************************)
EXTENDS ReplayFilter

VARIABLES
    seen, highest,      \* the ring of Replaywindow.c
    printed_ok, oks     \* history: what it has printed OK for, and how often

ring == <<seen, highest, printed_ok, oks>>

Ring == INSTANCE RingFilter WITH accepted <- printed_ok, deliveries <- oks

TwinInit == Init /\ Ring!Init

\* Each goes its own way with the counter.
TwinNext ==
    \E counter \in Counters :
        \/ /\ ReceiveAuthentic(counter) \/ RejectCounter(counter)
           /\ Ring!Advances(counter) \/ Ring!FillsIn(counter) \/ Ring!Replayed(counter)
        \/ FailDecryption(counter) /\ UNCHANGED ring

TwinSpec == TwinInit /\ [][TwinNext]_<<vars, ring>>
-----------------------------------------------------------------------------
\* The two filters of the repository never disagree: after the same datagrams,
\* replay_check and the RECV line of Replaywindow.c give every counter the
\* same answer.
SameVerdict == \A c \in Counters : replay_check(filter, c) <=> Ring!Accepts(c)
=============================================================================
