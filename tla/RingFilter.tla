----------------------------- MODULE RingFilter -----------------------------
(***************************************************************************)
(* The second replay filter of the repository (exercises/Replaywindow.c):  *)
(* a ring with one mark per counter of the window, counter modulo window,  *)
(* where replay.c keeps a bitmap that slides.                              *)
(***************************************************************************)
EXTENDS Replay

VARIABLES
    seen,       \* the ring: window_size marks
    highest,    \* the highest counter accepted, -1 before the first
    accepted,   \* history: the counters answered with OK
    deliveries  \* history: how many were

vars == <<seen, highest, accepted, deliveries>>

Slots == 0..(WINDOW_SIZE - 1)
Slot(counter) == counter % WINDOW_SIZE

\* After the line WINDOW, which comes first: the marks are allocated, all zero.
Init ==
    /\ seen = [s \in Slots |-> 0]
    /\ highest = -1
    /\ accepted = {}
    /\ deliveries = 0

Ok(counter) ==
    /\ accepted' = accepted \cup {counter}
    /\ deliveries' = deliveries + 1

\* The slots of the counters skipped since highest lose their old marks.
Cleared_OnlyNewest(counter) == {Slot(counter)}
Cleared(counter) == {Slot(i) : i \in (highest + 1)..counter}

Advances(counter) ==
    /\ counter > highest
    /\ seen' = [s \in Slots |-> IF s = Slot(counter) THEN 1
                                ELSE IF s \in Cleared(counter) THEN 0 ELSE seen[s]]
    /\ highest' = counter
    /\ Ok(counter)

InWindow(counter) == counter > highest - WINDOW_SIZE

FillsIn(counter) ==
    /\ counter <= highest
    /\ InWindow(counter)
    /\ seen[Slot(counter)] = 0
    /\ seen' = [seen EXCEPT ![Slot(counter)] = 1]
    /\ UNCHANGED highest
    /\ Ok(counter)

\* RECV answers REPLAY: a mark, or a counter below the window.
Replayed(counter) ==
    /\ counter <= highest
    /\ InWindow(counter) => seen[Slot(counter)] # 0
    /\ UNCHANGED vars

Next == \E counter \in Counters : Advances(counter) \/ FillsIn(counter) \/ Replayed(counter)

Spec == Init /\ [][Next]_vars
-----------------------------------------------------------------------------
Accepts(counter) ==
    counter > highest \/ (InWindow(counter) /\ seen[Slot(counter)] = 0)

\* Types; the ring is written only inside its allocation.
TypeOK ==
    /\ seen \in [Slots -> {0, 1}]
    /\ highest \in Counters \cup {-1}
    /\ accepted \in SUBSET Counters
    /\ deliveries \in Nat

\* A slot is marked exactly when the one counter of the window that it stands
\* for has been accepted: no mark survives the passage of the window.
RingIsRecentPast ==
    /\ \A a \in accepted : a <= highest
    /\ highest = -1 \/ highest \in accepted
    /\ \A c \in Counters :
           c <= highest /\ InWindow(c) => (seen[Slot(c)] = 1 <=> c \in accepted)

\* The inductive invariant of the proofs.
IInv == TypeOK /\ RingIsRecentPast

Window == INSTANCE ReplayWindow
              WITH WINDOW_SIZE <- WINDOW_SIZE, Counters <- Counters,
                   accepted <- accepted, deliveries <- deliveries

\* The ring accepts only what the window without a ring accepts.
RefinesWindow == Window!Spec
=============================================================================
