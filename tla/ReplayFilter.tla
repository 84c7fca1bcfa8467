---------------------------- MODULE ReplayFilter ----------------------------
(***************************************************************************)
(* The anti-replay filter of one session as the receive path of main.c     *)
(* uses it: check the counter of a datagram, authenticate the datagram,    *)
(* and only then update.  Datagrams come in any order and any number of    *)
(* times, or not at all.                                                   *)
(***************************************************************************)
EXTENDS Replay

VARIABLES
    filter,     \* session->replay_filter
    accepted,   \* history: the counters whose datagrams were accepted
    deliveries  \* history: how many datagrams were accepted

vars == <<filter, accepted, deliveries>>

Init ==
    /\ filter = replay_init
    /\ accepted = {}
    /\ deliveries = 0

\* A datagram that the session key authenticates arrives: in order, late,
\* again, or after any number of lost ones.
ReceiveAuthentic(counter) ==
    /\ replay_check(filter, counter)
    /\ filter' = replay_update(filter, counter)
    /\ accepted' = accepted \cup {counter}
    /\ deliveries' = deliveries + 1

\* A datagram the check turns down is dropped before decryption.
RejectCounter(counter) ==
    /\ ~replay_check(filter, counter)
    /\ UNCHANGED vars

\* The check passes, decryption fails: the filter must not learn the counter.
FailDecryption(counter) ==
    /\ replay_check(filter, counter)
    /\ UNCHANGED vars

Next ==
    \E counter \in Counters :
        \/ ReceiveAuthentic(counter)
        \/ RejectCounter(counter)
        \/ FailDecryption(counter)

Spec == Init /\ [][Next]_vars
-----------------------------------------------------------------------------
\* Types; no shift of replay_update leaves bits outside a word.
TypeOK ==
    /\ filter \in Filters
    /\ accepted \in SUBSET Counters
    /\ deliveries \in Nat

\* The bitmap holds the recent past and nothing else: bit d is 1 exactly when
\* the counter d below last_counter was accepted, and no accepted counter is
\* above last_counter.  Before the first packet the filter is all zeros
\* (replay_init, and every branch of replay_update).
BitmapIsRecentPast == RecentPast(filter, accepted)

\* The inductive invariant of the proofs.
IInv == TypeOK /\ BitmapIsRecentPast

\* Once replay_update has marked a counter, replay_check turns it down on
\* every later call, however far the window has moved since.
NoReplay == \A c \in accepted : ~replay_check(filter, c)

Window == INSTANCE ReplayWindow
              WITH WINDOW_SIZE <- WINDOW_SIZE, Counters <- Counters,
                   accepted <- accepted, deliveries <- deliveries

\* replay_check passes exactly the counters that are new and inside the window:
\* after any slide or jump no replay gets through, and no late packet is
\* mistaken for one.
VerdictExact == \A c \in Counters : replay_check(filter, c) <=> Window!Fresh(c)

\* A counter that replay_check once turned down, as seen or as too old, never
\* becomes acceptable again: the window of replay_update only moves up.
RejectionIsFinal ==
    [][\A c \in Counters : ~replay_check(filter, c) => ~replay_check(filter', c)]_vars

\* Every accepted datagram is one that the bitmap-free window accepts.
RefinesWindow == Window!Spec
=============================================================================
