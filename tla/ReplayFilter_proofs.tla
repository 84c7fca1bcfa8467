----------------------- MODULE ReplayFilter_proofs -----------------------
(***************************************************************************)
(* Proofs about the two anti-replay filters of the repository, for every   *)
(* size of window and every range of counters.                             *)
(*                                                                         *)
(* The bitmap of replay.c: the invariant is that it records exactly the    *)
(* accepted counters that lie in the window (TableLemmas says why every    *)
(* branch of replay_update keeps it so).                                   *)
(*                                                                         *)
(* The ring of exercises/Replaywindow.c: less than a window apart, two     *)
(* counters share a slot only when they are equal, so a mark has one       *)
(* meaning at a time.                                                      *)
(*                                                                         *)
(* Side by side: each is exact about what it has accepted itself, so they  *)
(* accept the same, and therefore agree on the next counter too.           *)
(***************************************************************************)
EXTENDS TwinFilters, TableLemmas

(* The bitmap. *)

\* replay_check decides exactly what the window of ReplayWindow does.
LEMMA VerdictIsFresh ==
    ASSUME IInv, NEW c \in Counters
    PROVE  replay_check(filter, c) <=> Window!Fresh(c)
  BY CheckIsExact DEF IInv, TypeOK, BitmapIsRecentPast, Window!Fresh

\* A zeroed filter records that nothing has been accepted.
LEMMA InitIInv == Init => IInv
  BY InitRecords DEF Init, IInv, TypeOK, BitmapIsRecentPast

\* Accepting a datagram keeps the bitmap a record of the recent past.
LEMMA ReceiveKeepsIInv ==
    ASSUME IInv, NEW c \in Counters, ReceiveAuthentic(c)
    PROVE  IInv'
  BY UpdateRecords DEF IInv, TypeOK, BitmapIsRecentPast, ReceiveAuthentic

\* Every step of the receive path keeps the invariant.
LEMMA NextKeepsIInv == IInv /\ [Next]_vars => IInv'
<1> SUFFICES ASSUME IInv, [Next]_vars PROVE IInv'
  OBVIOUS
<1>1. CASE UNCHANGED vars
  BY <1>1 DEF vars, IInv, TypeOK, BitmapIsRecentPast
<1>2. CASE Next
  <2>1. PICK c \in Counters :
            ReceiveAuthentic(c) \/ RejectCounter(c) \/ FailDecryption(c)
    BY <1>2 DEF Next
  <2>2. CASE ReceiveAuthentic(c)
    BY <2>2, ReceiveKeepsIInv
  <2>3. CASE RejectCounter(c) \/ FailDecryption(c)
    BY <1>1, <2>3 DEF RejectCounter, FailDecryption
  <2>. QED
    BY <2>1, <2>2, <2>3
<1>. QED
  BY <1>1, <1>2

\* The inductive invariant: types, and the bitmap as an exact record.
LEMMA InductiveInvariant == Spec => []IInv
  BY InitIInv, NextKeepsIInv, PTL DEF Spec

\* The bitmap of replay.c is, at every moment and for every size of window and
\* range of counters, an exact record of the recently accepted counters.
THEOREM BitmapExact == Spec => []BitmapIsRecentPast
<1>1. IInv => BitmapIsRecentPast
  BY DEF IInv
<1>. QED
  BY <1>1, InductiveInvariant, PTL

\* No counter passes replay_check after replay_update has marked it, for every
\* window size: a datagram is delivered at most once per session.
THEOREM ReplaySafety == Spec => []NoReplay
<1>1. IInv => NoReplay
  <2> SUFFICES ASSUME IInv, NEW c \in accepted PROVE ~replay_check(filter, c)
    BY DEF NoReplay
  <2>1. c \in Counters
    BY DEF IInv, TypeOK
  <2>. QED
    BY <2>1, VerdictIsFresh DEF Window!Fresh
<1>. QED
  BY <1>1, InductiveInvariant, PTL

\* replay_check passes the new counters inside the window and no others, for
\* every window size: no datagram gets through twice, and no late one is lost.
THEOREM VerdictsExact == Spec => []VerdictExact
<1>1. IInv => VerdictExact
  BY VerdictIsFresh DEF VerdictExact
<1>. QED
  BY <1>1, InductiveInvariant, PTL

\* The window of replay_update only moves up, for every window size: what
\* replay_check has turned down it turns down for ever.
THEOREM RejectionPermanent == Spec => RejectionIsFinal
<1> DEFINE Exact == \A c \in Counters : replay_check(filter, c) <=> Window!Fresh(c)
           Final == \A c \in Counters :
                        ~replay_check(filter, c) => ~replay_check(filter', c)
<1>1. IInv => Exact
  BY VerdictIsFresh
<1>2. Exact /\ Exact' /\ [Next]_vars => [Final]_vars
  <2> SUFFICES ASSUME Exact, Exact', Next,
                      NEW c \in Counters, replay_check(filter', c)
               PROVE  replay_check(filter, c)
    OBVIOUS
  <2>1. accepted \subseteq accepted'
    BY DEF Next, ReceiveAuthentic, RejectCounter, FailDecryption, vars
  <2>2. Window!Fresh(c)'
    BY DEF replay_check, FirstPacket, BitSet
  <2>. QED
    BY <2>1, <2>2 DEF Window!Fresh
<1>. QED
  BY <1>1, <1>2, InductiveInvariant, PTL DEF Spec, RejectionIsFinal

\* replay.c implements the window of ReplayWindow for every window size: each
\* accepted datagram is one the abstract window accepts, and is counted once.
THEOREM FilterImplementsWindow == Spec => RefinesWindow
<1>1. Init => Window!Init
  BY DEF Init, Window!Init
<1>2. IInv /\ [Next]_vars => [Window!Next]_(Window!vars)
  <2> SUFFICES ASSUME IInv, [Next]_vars PROVE [Window!Next]_(Window!vars)
    OBVIOUS
  <2>1. ASSUME NEW c \in Counters, ReceiveAuthentic(c) PROVE Window!Next
    BY <2>1, VerdictIsFresh DEF ReceiveAuthentic, Window!Next, Window!Accept
  <2>2. CASE UNCHANGED vars
    BY <2>2 DEF vars, Window!vars
  <2>. QED
    BY <2>1, <2>2 DEF Next, RejectCounter, FailDecryption
<1>. QED
  BY <1>1, <1>2, InductiveInvariant, PTL DEF Spec, RefinesWindow, Window!Spec
-----------------------------------------------------------------------------
(* The ring. *)

\* The ring has at least one slot, and every counter has one.
LEMMA RingSize ==
    /\ Ring!WINDOW_SIZE \in Nat \ {0}
    /\ \A c \in Ring!Counters : c \in Nat /\ Ring!Slot(c) \in Ring!Slots
<1>1. Ring!WINDOW_SIZE \in Nat \ {0}
  BY SizesAssumption DEF Ring!WINDOW_SIZE
<1>. QED
  BY <1>1, SizesAssumption DEF Ring!Counters, Ring!Slot, Ring!Slots

\* Two numbers with one remainder are equal or at least a window apart.
LEMMA ModInjective ==
    ASSUME NEW w \in Nat \ {0}, NEW a \in Nat, NEW b \in Nat,
           a % w = b % w, a <= b, b < a + w
    PROVE  a = b
<1> DEFINE p == a \div w
           q == b \div w
<1>1. /\ p \in Nat /\ q \in Nat
      /\ a % w \in 0..(w - 1)
      /\ a = w * p + (a % w)
      /\ b = w * q + (b % w)
  OBVIOUS
<1> HIDE DEF p, q
<1>2. w * (q - p) >= 0 /\ w * (q - p) < w
  <2>1. w * (q - p) = b - a
    BY <1>1
  <2>. QED
    BY <2>1
<1>3. q - p = 0
  BY <1>1, <1>2
<1>. QED
  BY <1>1, <1>3

\* Counters that share a slot and are less than a window apart are equal.
LEMMA SlotsInjective ==
    ASSUME NEW c \in Ring!Counters, NEW d \in Ring!Counters,
           Ring!Slot(c) = Ring!Slot(d), c < d + Ring!WINDOW_SIZE, d < c + Ring!WINDOW_SIZE
    PROVE  c = d
<1>1. c \in Nat /\ d \in Nat /\ Ring!WINDOW_SIZE \in Nat \ {0}
  BY RingSize
<1>2. CASE c <= d
  BY <1>1, <1>2, ModInjective DEF Ring!Slot
<1>3. CASE d <= c
  BY <1>1, <1>3, ModInjective DEF Ring!Slot
<1>. QED
  BY <1>1, <1>2, <1>3

\* A counter is accepted exactly when the window without a ring accepts it.
LEMMA AcceptsIsExact ==
    ASSUME Ring!IInv, NEW c \in Ring!Counters
    PROVE  Ring!Accepts(c) <=> Ring!Window!Fresh(c)
<1>1. /\ c \in Nat /\ Ring!WINDOW_SIZE \in Nat \ {0} /\ highest \in Int
      /\ printed_ok \subseteq Ring!Counters /\ \A a \in printed_ok : a \in Nat /\ a <= highest
  BY RingSize DEF Ring!IInv, Ring!TypeOK, Ring!RingIsRecentPast
<1>2. CASE c > highest
  BY <1>1, <1>2 DEF Ring!Accepts, Ring!Window!Fresh
<1>3. CASE c <= highest
  <2>1. highest \in printed_ok
    BY <1>1, <1>3 DEF Ring!IInv, Ring!RingIsRecentPast
  <2>2. (\A a \in printed_ok : a < c + Ring!WINDOW_SIZE) <=> Ring!InWindow(c)
    BY <1>1, <2>1 DEF Ring!InWindow
  <2>3. Ring!InWindow(c) => (seen[Ring!Slot(c)] = 0 <=> c \notin printed_ok)
    BY <1>3, RingSize DEF Ring!IInv, Ring!TypeOK, Ring!RingIsRecentPast
  <2>. QED
    BY <1>1, <1>3, <2>2, <2>3 DEF Ring!Accepts, Ring!Window!Fresh
<1>. QED
  BY <1>1, <1>2, <1>3

\* A new highest counter clears the slots of the counters it skips and no
\* slot of a counter that stays in the window.
LEMMA AdvanceKeepsRing ==
    ASSUME Ring!IInv, NEW counter \in Ring!Counters, Ring!Advances(counter)
    PROVE  Ring!IInv'
<1>1. /\ counter \in Nat /\ Ring!WINDOW_SIZE \in Nat \ {0} /\ highest \in Int
      /\ Ring!Slot(counter) \in Ring!Slots /\ highest < counter
      /\ printed_ok \subseteq Ring!Counters /\ \A a \in printed_ok : a \in Nat /\ a <= highest
  BY RingSize DEF Ring!IInv, Ring!TypeOK, Ring!RingIsRecentPast, Ring!Advances
<1>2. Ring!TypeOK'
  BY <1>1 DEF Ring!IInv, Ring!TypeOK, Ring!Advances, Ring!Ok
<1>3. ASSUME NEW c \in Ring!Counters, c <= counter, c > counter - Ring!WINDOW_SIZE
      PROVE  seen'[Ring!Slot(c)] = 1 <=> c \in printed_ok'
  <2>1. c \in Nat /\ Ring!Slot(c) \in Ring!Slots
    BY RingSize
  <2>2. CASE c = counter
    BY <1>1, <2>2 DEF Ring!Advances, Ring!Ok
  <2>3. CASE c < counter
    <3>1. Ring!Slot(c) # Ring!Slot(counter)
      BY <1>1, <1>3, <2>1, <2>3, SlotsInjective
    <3>2. c \in printed_ok' <=> c \in printed_ok
      BY <2>1, <1>1, <2>3 DEF Ring!Advances, Ring!Ok
    <3>3. CASE c > highest
      <4>1. Ring!Slot(c) \in Ring!Cleared(counter)
        BY <1>1, <2>1, <2>3, <3>3 DEF Ring!Cleared
      <4>. QED
        BY <1>1, <2>1, <3>1, <3>2, <3>3, <4>1 DEF Ring!Advances
    <3>4. CASE c <= highest
      <4>1. ASSUME NEW i \in (highest + 1)..counter PROVE Ring!Slot(i) # Ring!Slot(c)
        <5>1. i \in Int /\ i > c /\ i <= counter
          BY <1>1, <2>1, <3>4
        <5>2. i \in Ring!Counters
          BY <5>1, <2>1, SizesAssumption DEF Ring!Counters
        <5>3. i < c + Ring!WINDOW_SIZE /\ c < i + Ring!WINDOW_SIZE /\ i # c
          BY <1>1, <1>3, <2>1, <5>1
        <5>. QED
          BY <5>2, <5>3, SlotsInjective
      <4>2. seen'[Ring!Slot(c)] = seen[Ring!Slot(c)]
        BY <2>1, <3>1, <4>1 DEF Ring!Advances, Ring!Cleared
      <4>3. Ring!InWindow(c)
        BY <1>1, <1>3, <2>1 DEF Ring!InWindow
      <4>. QED
        BY <3>2, <3>4, <4>2, <4>3 DEF Ring!IInv, Ring!RingIsRecentPast
    <3>. QED
      BY <1>1, <2>1, <3>3, <3>4
  <2>. QED
    BY <1>1, <1>3, <2>1, <2>2, <2>3
<1>4. Ring!RingIsRecentPast'
  BY <1>1, <1>3 DEF Ring!RingIsRecentPast, Ring!InWindow, Ring!Advances, Ring!Ok
<1>. QED
  BY <1>2, <1>4 DEF Ring!IInv

\* A late counter marks its own slot and no other one of the window.
LEMMA FillKeepsRing ==
    ASSUME Ring!IInv, NEW counter \in Ring!Counters, Ring!FillsIn(counter)
    PROVE  Ring!IInv'
<1>1. /\ counter \in Nat /\ Ring!WINDOW_SIZE \in Nat \ {0} /\ highest \in Nat
      /\ Ring!Slot(counter) \in Ring!Slots /\ highest' = highest
      /\ counter <= highest /\ counter > highest - Ring!WINDOW_SIZE
      /\ seen \in [Ring!Slots -> {0, 1}] /\ seen' = [seen EXCEPT ![Ring!Slot(counter)] = 1]
      /\ printed_ok' = printed_ok \cup {counter}
  BY RingSize DEF Ring!IInv, Ring!TypeOK, Ring!FillsIn, Ring!Ok, Ring!InWindow
<1>2. Ring!TypeOK'
  BY <1>1 DEF Ring!IInv, Ring!TypeOK, Ring!FillsIn, Ring!Ok
<1>3. ASSUME NEW c \in Ring!Counters, c <= highest, c > highest - Ring!WINDOW_SIZE
      PROVE  seen'[Ring!Slot(c)] = 1 <=> c \in printed_ok'
  <2>1. c \in Nat /\ Ring!Slot(c) \in Ring!Slots
    BY RingSize
  <2>2. CASE c = counter
    BY <1>1, <2>2
  <2>3. CASE c # counter
    <3>1. c < counter + Ring!WINDOW_SIZE /\ counter < c + Ring!WINDOW_SIZE
      BY <1>1, <1>3, <2>1
    <3>2. Ring!Slot(c) # Ring!Slot(counter)
      BY <2>3, <3>1, SlotsInjective
    <3>3. seen[Ring!Slot(c)] = 1 <=> c \in printed_ok
      BY <1>3, <1>1, <2>1 DEF Ring!IInv, Ring!RingIsRecentPast, Ring!InWindow
    <3>. QED
      BY <1>1, <2>1, <2>3, <3>2, <3>3
  <2>. QED
    BY <2>2, <2>3
<1>4. Ring!RingIsRecentPast'
  BY <1>1, <1>3 DEF Ring!IInv, Ring!RingIsRecentPast, Ring!InWindow
<1>. QED
  BY <1>2, <1>4 DEF Ring!IInv

\* The invariant speaks of the ring and its history only.
LEMMA RingKeptUnchanged ==
    ASSUME Ring!IInv, UNCHANGED Ring!vars PROVE Ring!IInv'
  BY DEF Ring!vars, Ring!IInv, Ring!TypeOK, Ring!RingIsRecentPast, Ring!InWindow

\* Each of the three answers to a counter keeps it.
LEMMA RingStep ==
    ASSUME Ring!IInv, NEW c \in Ring!Counters,
           Ring!Advances(c) \/ Ring!FillsIn(c) \/ Ring!Replayed(c)
    PROVE  Ring!IInv'
  BY AdvanceKeepsRing, FillKeepsRing, RingKeptUnchanged DEF Ring!Replayed

\* The invariant of the ring holds of every reachable state.
LEMMA RingInvariant == Ring!Spec => []Ring!IInv
<1>1. Ring!Init => Ring!IInv
  BY RingSize DEF Ring!Init, Ring!IInv, Ring!TypeOK, Ring!RingIsRecentPast
<1>2. Ring!IInv /\ [Ring!Next]_(Ring!vars) => Ring!IInv'
  BY RingKeptUnchanged, RingStep DEF Ring!Next
<1>. QED
  BY <1>1, <1>2, PTL DEF Ring!Spec

\* Replaywindow.c, for every window size: a slot is marked exactly when the one
\* counter of the window that it stands for has been accepted.
THEOREM RingExact == Ring!Spec => []Ring!RingIsRecentPast
<1>1. Ring!IInv => Ring!RingIsRecentPast
  BY DEF Ring!IInv
<1>. QED
  BY <1>1, RingInvariant, PTL

\* Replaywindow.c implements the window that replay.c implements, for every
\* window size: a counter answered with OK is new and inside the window.
THEOREM RingImplementsWindow == Ring!Spec => Ring!RefinesWindow
<1>1. Ring!Init => Ring!Window!Init
  BY DEF Ring!Init, Ring!Window!Init
<1>2. Ring!IInv /\ [Ring!Next]_(Ring!vars) => [Ring!Window!Next]_(Ring!Window!vars)
  <2>1. ASSUME Ring!IInv, NEW c \in Ring!Counters, Ring!Advances(c) \/ Ring!FillsIn(c)
        PROVE  Ring!Window!Next
    <3>1. Ring!Accepts(c)
      BY <2>1 DEF Ring!Advances, Ring!FillsIn, Ring!Accepts
    <3>. QED
      BY <2>1, <3>1, AcceptsIsExact DEF Ring!Advances, Ring!FillsIn, Ring!Ok,
          Ring!Window!Next, Ring!Window!Accept
  <2>2. ASSUME UNCHANGED Ring!vars PROVE UNCHANGED Ring!Window!vars
    BY <2>2 DEF Ring!vars, Ring!Window!vars
  <2>. QED
    BY <2>1, <2>2 DEF Ring!Next, Ring!Replayed
<1>. QED
  BY <1>1, <1>2, RingInvariant, PTL DEF Ring!Spec, Ring!RefinesWindow, Ring!Window!Spec
-----------------------------------------------------------------------------
(* Side by side. *)

\* Both filters are exact, and they have accepted the same counters.
TwinInv == IInv /\ Ring!IInv /\ accepted = printed_ok

\* Exact filters that have accepted the same give every counter one verdict.
LEMMA TwinVerdict ==
    ASSUME TwinInv, NEW c \in Counters
    PROVE  replay_check(filter, c) <=> Ring!Accepts(c)
<1>1. Ring!Counters = Counters /\ Ring!WINDOW_SIZE = WINDOW_SIZE
  BY DEF Ring!Counters, Counters, Ring!WINDOW_SIZE, WINDOW_SIZE
<1>2. Window!Fresh(c) <=> Ring!Window!Fresh(c)
  BY <1>1 DEF TwinInv, Window!Fresh, Ring!Window!Fresh
<1>. QED
  BY <1>1, <1>2, VerdictIsFresh, AcceptsIsExact DEF TwinInv

\* One verdict is one change to what has been accepted.
LEMMA TwinStep == TwinInv /\ [TwinNext]_<<vars, ring>> => TwinInv'
<1> SUFFICES ASSUME TwinInv, [TwinNext]_<<vars, ring>> PROVE TwinInv'
  OBVIOUS
<1>1. CASE UNCHANGED <<vars, ring>>
  <2>1. UNCHANGED vars /\ UNCHANGED Ring!vars /\ UNCHANGED <<accepted, printed_ok>>
    BY <1>1 DEF vars, ring, Ring!vars
  <2>. QED
    BY <2>1, NextKeepsIInv, RingKeptUnchanged DEF TwinInv
<1>2. ASSUME NEW c \in Counters,
             ReceiveAuthentic(c) \/ RejectCounter(c),
             Ring!Advances(c) \/ Ring!FillsIn(c) \/ Ring!Replayed(c)
      PROVE  TwinInv'
  <2>1. IInv'
    BY <1>2, NextKeepsIInv DEF TwinInv, Next
  <2>2. Ring!IInv'
    BY <1>2, RingStep DEF TwinInv, Ring!Counters, Counters
  <2>3. accepted' = IF replay_check(filter, c) THEN accepted \cup {c} ELSE accepted
    BY <1>2 DEF ReceiveAuthentic, RejectCounter, vars
  <2>4. highest \in Int /\ c \in Int
    BY SizesAssumption DEF TwinInv, Ring!IInv, Ring!TypeOK, Ring!Counters, Counters
  <2>5. printed_ok' = IF Ring!Accepts(c) THEN printed_ok \cup {c} ELSE printed_ok
    BY <1>2, <2>4 DEF Ring!Advances, Ring!FillsIn, Ring!Replayed, Ring!Ok, Ring!vars,
        Ring!Accepts
  <2>. QED
    BY <2>1, <2>2, <2>3, <2>5, TwinVerdict DEF TwinInv
<1>3. ASSUME NEW c \in Counters, FailDecryption(c), UNCHANGED ring PROVE TwinInv'
  BY <1>1, <1>3 DEF FailDecryption
<1>. QED
  BY <1>1, <1>2, <1>3 DEF TwinNext

\* The bitmap of replay.c and the ring of Replaywindow.c, given the same
\* datagrams, never disagree about a counter, for every window size.
THEOREM FiltersAgree == TwinSpec => []SameVerdict
<1>1. TwinInit => TwinInv
  <2>1. ASSUME Ring!Init PROVE Ring!IInv /\ printed_ok = {}
    BY <2>1, RingSize DEF Ring!Init, Ring!IInv, Ring!TypeOK, Ring!RingIsRecentPast
  <2>2. ASSUME Init PROVE IInv /\ accepted = {}
    BY <2>2, InitIInv DEF Init
  <2>. QED
    BY <2>1, <2>2 DEF TwinInit, TwinInv
<1>2. TwinInv => SameVerdict
  BY TwinVerdict DEF SameVerdict
<1>. QED
  BY <1>1, <1>2, TwinStep, PTL DEF TwinSpec
=============================================================================
