--------------------------- MODULE Process_proofs ---------------------------
(***************************************************************************)
(* What surrounds the data plane.  Safety of the daemon's life for every   *)
(* size of the kernel's queues: the inductive invariant IInv, one step for *)
(* every action, and what follows.  The texts of endpoints, of any length, *)
(* for every inet_pton, inet_ntop and atoi that agree with each other.     *)
(***************************************************************************)
EXTENDS EventLoop, Texts, FiniteSetTheorems, TLAPS

(* The event loop. *)

\* Before startup nothing is held, nothing reported and nothing handled.
LEMMA InitIInv == Init => IInv
<1> SUFFICES ASSUME Init
             PROVE  IInv
  OBVIOUS
<1> USE DEF Init
<1>1. waiting \in [Descriptors -> 0..QUEUE] /\ handled \in [Descriptors -> Nat]
  BY QueueAssumption
<1>2. revents \in [Descriptors -> BOOLEAN]
  BY DEF None
<1>3. TypeOK
  BY <1>1, <1>2 DEF TypeOK
<1>4. ReportedIsThere /\ ExitIsClean /\ HeldAt
  BY DEF ReportedIsThere, ExitIsClean, HeldAt
<1>5. StopsWithinARound /\ HandledAt
  BY DEF StopsWithinARound, HandledAt, Descriptors
<1>. QED
  BY <1>3, <1>4, <1>5 DEF IInv

\* A queue's length, or a count, one up or one down.
LEMMA UpdateCount ==
    ASSUME NEW S, NEW f \in [Descriptors -> S], NEW d \in Descriptors, NEW v \in S
    PROVE  /\ [f EXCEPT ![d] = v] \in [Descriptors -> S]
           /\ [f EXCEPT ![d] = v][d] = v
           /\ \A e \in Descriptors \ {d} : [f EXCEPT ![d] = v][e] = f[e]
  OBVIOUS

\* Reading a packet that poll has reported: one packet less in that queue, and
\* one more on the account if the signal has come.
LEMMA HandleTakesOne ==
    ASSUME TypeOK, NEW d \in Descriptors, waiting[d] > 0, Handle(d)
    PROVE  /\ waiting' \in [Descriptors -> 0..QUEUE]
           /\ handled' \in [Descriptors -> Nat]
           /\ g_running => handled' = handled
           /\ handled[d] = 0 => handled'[d] <= 1
           /\ \A e \in Descriptors \ {d} :
                  waiting'[e] = waiting[e] /\ handled'[e] = handled[e]
<1>1. waiting[d] \in 0..QUEUE /\ waiting \in [Descriptors -> 0..QUEUE]
      /\ handled[d] \in Nat /\ handled \in [Descriptors -> Nat]
  BY DEF TypeOK
<1>2. waiting[d] - 1 \in 0..QUEUE /\ handled[d] + 1 \in Nat
  BY <1>1, QueueAssumption
<1>3. waiting' = [waiting EXCEPT ![d] = waiting[d] - 1]
  BY DEF Handle
<1>4. handled' = handled \/ handled' = [handled EXCEPT ![d] = handled[d] + 1]
  BY DEF Handle
<1>5. /\ waiting' \in [Descriptors -> 0..QUEUE]
      /\ \A e \in Descriptors \ {d} : waiting'[e] = waiting[e]
  BY <1>1, <1>2, <1>3, UpdateCount
<1>6. /\ handled' \in [Descriptors -> Nat]
      /\ handled[d] = 0 => handled'[d] <= 1
      /\ \A e \in Descriptors \ {d} : handled'[e] = handled[e]
  BY <1>1, <1>2, <1>4, UpdateCount
<1>7. g_running => handled' = handled
  BY DEF Handle
<1>. QED
  BY <1>5, <1>6, <1>7

\* An arrival adds a packet to a queue that is not full, and takes none away.
LEMMA ArriveAddsOne ==
    ASSUME TypeOK, NEW d \in Descriptors, Arrive(d)
    PROVE  /\ waiting' \in [Descriptors -> 0..QUEUE]
           /\ \A e \in Descriptors : waiting[e] > 0 => waiting'[e] > 0
<1>1. waiting[d] \in 0..QUEUE /\ waiting \in [Descriptors -> 0..QUEUE]
  BY DEF TypeOK
<1>2. waiting[d] < QUEUE /\ waiting' = [waiting EXCEPT ![d] = waiting[d] + 1]
  BY DEF Arrive
<1>3. waiting[d] + 1 \in 0..QUEUE /\ waiting[d] + 1 > 0
  BY <1>1, <1>2, QueueAssumption
<1>4. /\ waiting' \in [Descriptors -> 0..QUEUE]
      /\ waiting'[d] = waiting[d] + 1
      /\ \A e \in Descriptors \ {d} : waiting'[e] = waiting[e]
  BY <1>1, <1>2, <1>3, UpdateCount
<1>. QED
  BY <1>3, <1>4

\* Every step of the daemon and of its environment keeps the invariant.
LEMMA NextKeepsIInv == IInv /\ [Next]_vars => IInv'
<1> SUFFICES ASSUME IInv, [Next]_vars
             PROVE  IInv'
  OBVIOUS
<1> USE DEF IInv, TypeOK, ReportedIsThere, ExitIsClean, StopsWithinARound, HeldAt, HandledAt,
            Descriptors, None
<1>1. CASE Start
  BY <1>1 DEF Start
<1>2. CASE OpenSocket
  <2>1. WipedOnFailure = {}
    BY <1>2 DEF OpenSocket, WipedOnFailure
  <2>2. CASE pc' = "exited"
    <3>1. secrets' = {} /\ UNCHANGED <<g_running, sock, tun, waiting, revents, handled>>
      BY <1>2, <2>1, <2>2 DEF OpenSocket
    <3>2. ~sock /\ ~tun
      BY <1>2 DEF OpenSocket
    <3>3. TypeOK' /\ ExitIsClean'
      BY <2>2, <3>1, <3>2
    <3>. QED
      BY <2>2, <3>1, <3>3
  <2>3. CASE pc' = "tun device"
    BY <1>2, <2>3 DEF OpenSocket
  <2>. QED
    BY <1>2, <2>2, <2>3 DEF OpenSocket
<1>3. CASE OpenTun
  BY <1>3 DEF OpenTun
<1>4. CASE Test
  BY <1>4 DEF Test, TestRunning
<1>5. CASE CallPoll
  BY <1>5 DEF CallPoll
<1>6. CASE PollReturns
  BY <1>6 DEF PollReturns, Readable
<1>7. CASE PollFails
  BY <1>7 DEF PollFails
<1>8. CASE HandleUdp
  <2>1. CASE revents["udp"]
    <3>1. /\ waiting' \in [Descriptors -> 0..QUEUE]
          /\ handled' \in [Descriptors -> Nat]
          /\ g_running => handled' = handled
          /\ handled["udp"] = 0 => handled'["udp"] <= 1
          /\ waiting'["tun"] = waiting["tun"] /\ handled'["tun"] = handled["tun"]
      BY <1>8, <2>1, HandleTakesOne DEF HandleUdp
    <3>2. pc' = "tun" /\ UNCHANGED <<g_running, sock, tun, revents>>
          /\ secrets' \subseteq {"static_priv", "session keys", "chaining_key"}
      BY <1>8, <2>1 DEF HandleUdp, Overwritten
    <3>3. handled["udp"] = 0 /\ handled["tun"] = 0
      BY <1>8 DEF HandleUdp
    <3>4. handled'["udp"] <= 1 /\ handled'["tun"] = 0
      BY <3>1, <3>3
    <3>5. TypeOK'
      BY <3>1, <3>2
    <3>6. ReportedIsThere'
      <4>1. revents["tun"] => tun /\ waiting["tun"] > 0
        BY <1>8 DEF HandleUdp
      <4>. QED
        BY <3>1, <3>2, <4>1
    <3>7. StopsWithinARound' /\ HandledAt'
      BY <3>1, <3>2, <3>4
    <3>. QED
      BY <3>2, <3>5, <3>7, <3>6
  <2>2. CASE ~revents["udp"]
    BY <1>8, <2>2 DEF HandleUdp
  <2>. QED
    BY <2>1, <2>2
<1>9. CASE HandleTun
  <2>1. CASE revents["tun"]
    <3>1. /\ waiting' \in [Descriptors -> 0..QUEUE]
          /\ handled' \in [Descriptors -> Nat]
          /\ g_running => handled' = handled
          /\ handled["tun"] = 0 => handled'["tun"] <= 1
          /\ handled'["udp"] = handled["udp"]
      BY <1>9, <2>1, HandleTakesOne DEF HandleTun, TunIsDue
    <3>2. pc' = "test" /\ UNCHANGED <<g_running, sock, tun, revents>>
          /\ secrets' \subseteq {"static_priv", "session keys", "chaining_key"}
      BY <1>9, <2>1 DEF HandleTun, TunIsDue, Overwritten
    <3>3. handled["udp"] <= 1 /\ handled["tun"] = 0
      BY <1>9 DEF HandleTun
    <3>4. handled'["udp"] <= 1 /\ handled'["tun"] <= 1
      BY <3>1, <3>3
    <3>5. TypeOK' /\ ReportedIsThere'
      BY <3>1, <3>2
    <3>6. StopsWithinARound' /\ HandledAt'
      BY <3>1, <3>2, <3>4
    <3>. QED
      BY <3>2, <3>5, <3>6
  <2>2. CASE ~revents["tun"]
    BY <1>9, <2>2 DEF HandleTun, TunIsDue
  <2>. QED
    BY <2>1, <2>2
<1>10. CASE Shutdown
  BY <1>10 DEF Shutdown
<1>11. CASE Signal
  BY <1>11 DEF Signal, AfterInterrupt
<1>12. ASSUME NEW d \in Descriptors, Arrive(d)
       PROVE  IInv'
  BY <1>12, ArriveAddsOne, ZenonT(60) DEF Arrive
<1>13. CASE UNCHANGED vars
  BY <1>13, ZenonT(60) DEF vars
<1>. QED
  BY <1>1, <1>2, <1>3, <1>4, <1>5, <1>6, <1>7, <1>8, <1>9, <1>10, <1>11, <1>12, <1>13
     DEF Next, Main, Exited

\* The inductive invariant.
LEMMA InductiveInvariant == Spec => []IInv
  BY InitIInv, NextKeepsIInv, PTL DEF Spec

\* Every variable keeps its type; no handler reads from an empty queue.
THEOREM TypeCorrect == Spec => []TypeOK
  BY InductiveInvariant, PTL DEF IInv

\* Every exit of main, from a failed startup or after the loop, leaves neither the
\* static private key nor session keys in memory, and no descriptor open; the
\* chaining key of the last initiation is all that may stay.
THEOREM CleanExit == Spec => []ExitIsClean
  BY InductiveInvariant, PTL DEF IInv

\* After SIGINT or SIGTERM main handles at most one datagram and one TUN packet.
THEOREM PromptStop == Spec => []StopsWithinARound
  BY InductiveInvariant, PTL DEF IInv

\* No handler of the loop acts on a readiness that poll reported in an earlier
\* round, interrupted or not.
THEOREM NoStaleReadiness == Spec => []ReportedIsThere
  BY InductiveInvariant, PTL DEF IInv
-----------------------------------------------------------------------------
(* Endpoints. *)

\* A text and its places.
LEMMA Indexed ==
    ASSUME NEW S, NEW str \in Seq(S)
    PROVE  /\ Len(str) \in Nat /\ DOMAIN str = 1..Len(str)
           /\ \A i \in 1..Len(str) : str[i] \in S
OBVIOUS

\* Texts that agree place by place are the same.
LEMMA SameText ==
    ASSUME NEW S, NEW s \in Seq(S), NEW t \in Seq(S), Len(s) = Len(t),
           \A i \in 1..Len(s) : s[i] = t[i]
    PROVE  s = t
OBVIOUS

\* A text put after another.
LEMMA Joined ==
    ASSUME NEW S, NEW s \in Seq(S), NEW t \in Seq(S)
    PROVE  /\ s \o t \in Seq(S) /\ Len(s \o t) = Len(s) + Len(t)
           /\ \A i \in 1..Len(s) : (s \o t)[i] = s[i]
           /\ \A i \in 1..Len(t) : (s \o t)[Len(s) + i] = t[i]
OBVIOUS

\* The same of a text that is known to be two others.
LEMMA JoinedAs ==
    ASSUME NEW S, NEW s \in Seq(S), NEW t \in Seq(S), NEW r, r = s \o t
    PROVE  /\ r \in Seq(S) /\ Len(r) = Len(s) + Len(t)
           /\ \A i \in 1..Len(s) : r[i] = s[i]
           /\ \A i \in 1..Len(t) : r[Len(s) + i] = t[i]
<1>1. /\ s \o t \in Seq(S) /\ Len(s \o t) = Len(s) + Len(t)
      /\ \A i \in 1..Len(s) : (s \o t)[i] = s[i]
      /\ \A i \in 1..Len(t) : (s \o t)[Len(s) + i] = t[i]
  BY Joined
<1>. QED
  BY <1>1, Zenon

\* Part of a text.
LEMMA PartOf ==
    ASSUME NEW S, NEW str \in Seq(S), NEW i \in 1..(Len(str) + 1), NEW j \in 0..Len(str),
           i <= j + 1
    PROVE  /\ SubSeq(str, i, j) \in Seq(S) /\ Len(SubSeq(str, i, j)) = j - i + 1
           /\ \A k \in 1..(j - i + 1) : SubSeq(str, i, j)[k] = str[i + k - 1]
OBVIOUS

\* A text with one more.
LEMMA OneMore ==
    ASSUME NEW S, NEW str \in Seq(S), NEW c \in S
    PROVE  Append(str, c) \in Seq(S) /\ Append(str, c) # <<>>
<1>1. Append(str, c) \in Seq(S) /\ Len(Append(str, c)) = Len(str) + 1 /\ Len(str) \in Nat
  OBVIOUS
<1>2. Len(<<>>) = 0
  OBVIOUS
<1>3. Len(Append(str, c)) # Len(<<>>)
  BY <1>1, <1>2
<1>. QED
  BY <1>1, <1>3, Zenon

\* A set of numbers has a least one.
LEMMA LeastOf ==
    ASSUME NEW S, S \in SUBSET Nat, S # {}
    PROVE  Least(S) \in S /\ \A j \in S : Least(S) <= j
<1>1. PICK x \in S : \A y \in S : <<y, x>> \notin OpToRel(<, Nat)
  BY NatLessThanWellFounded, WFMin, Zenon
<1>2. ASSUME NEW y \in S PROVE x <= y
  <2>1. ~(y < x)
    BY <1>1, Zenon DEF OpToRel
  <2>. QED
    BY <2>1
<1>. QED
  BY <1>2, Zenon DEF Least

\* The rest of a text from one of its places.
LEMMA FromPlace ==
    ASSUME NEW S, NEW str \in Seq(S), NEW i \in 1..Len(str)
    PROVE  /\ From(str, i) \in Seq(S)
           /\ Len(From(str, i)) = Len(str) - i + 1
           /\ \A j \in 1..(Len(str) - i + 1) : From(str, i)[j] = str[i + j - 1]
<1>1. Len(str) \in Nat /\ i \in Int
  BY Indexed
<1>2. /\ SubSeq(str, i, Len(str)) \in Seq(S)
      /\ Len(SubSeq(str, i, Len(str))) = Len(str) - i + 1
      /\ \A j \in 1..(Len(str) - i + 1) : SubSeq(str, i, Len(str))[j] = str[i + j - 1]
  <2>1. i \in 1..(Len(str) + 1) /\ Len(str) \in 0..Len(str) /\ i <= Len(str) + 1
    BY <1>1
  <2>. QED
    BY <2>1, PartOf, Zenon
<1>. QED
  BY <1>2, Zenon DEF From

\* What the texts of endpoints are made of.
TokensTyped ==
    /\ kind = "none" => text = <<>>
    /\ kind = "endpoint" => text \in Seq(Tokens) /\ text # <<>>

\* A text gets one more of what it is made of.
LEMMA Grows ==
    ASSUME NEW what, NEW S, NEW c \in S, NEW bound, Writes(what, c, bound),
           kind = "none" => text = <<>>, kind = what => text \in Seq(S)
    PROVE  kind' = what /\ text' \in Seq(S) /\ text' # <<>>
<1>1. kind \in {"none", what} /\ kind' = what /\ text' = Append(text, c)
  BY Zenon DEF Writes
<1>2. text \in Seq(S)
  <2>1. <<>> \in Seq(S)
    OBVIOUS
  <2>. QED
    BY <1>1, <2>1, Zenon
<1>. QED
  BY <1>1, <1>2, OneMore, Zenon

\* endpoint_parse is handed texts of tokens.
LEMMA TokensKept == TextSpec => []TokensTyped
<1>1. TextInit => TokensTyped
  <2>1. SUFFICES ASSUME kind = "none", text = <<>> PROVE TokensTyped
    BY Zenon DEF TextInit
  <2>2. kind # "endpoint"
    BY <2>1
  <2>. QED
    BY <2>1, <2>2, Zenon DEF TokensTyped
<1>2. TokensTyped /\ [TextNext]_<<kind, text>> => TokensTyped'
  <2>1. SUFFICES ASSUME TokensTyped, [TextNext]_<<kind, text>> PROVE TokensTyped'
    BY Zenon
  <2>2. /\ kind = "none" => text = <<>>
        /\ kind = "endpoint" => text \in Seq(Tokens)
    BY <2>1, Zenon DEF TokensTyped
  <2>3. CASE UNCHANGED <<kind, text>>
    <3>1. kind' = kind /\ text' = text
      BY <2>3
    <3>. QED
      BY <2>1, <3>1, Zenon DEF TokensTyped
  <2>4. ASSUME NEW c \in Tokens, Writes("endpoint", c, MAX_TOKENS) PROVE TokensTyped'
    <3>1. kind' = "endpoint" /\ text' \in Seq(Tokens) /\ text' # <<>>
      BY <2>2, <2>4, Grows, Zenon
    <3>. QED
      BY <3>1 DEF TokensTyped
  <2>5. ASSUME NEW what \in {"key", "address"}, NEW c, NEW bound, Writes(what, c, bound)
        PROVE  TokensTyped'
    <3>1. kind' = what
      BY <2>5, Zenon DEF Writes
    <3>. QED
      BY <2>5, <3>1 DEF TokensTyped
  <2>. QED
    BY <2>1, <2>3, <2>4, <2>5, Zenon DEF TextNext
<1>. QED
  BY <1>1, <1>2, PTL DEF TextSpec

\* The tokens of a text have finitely many characters.
LEMMA PlacesFinite ==
    ASSUME NEW str \in Seq(DOMAIN Width)
    PROVE  IsFiniteSet(Places(str)) /\ Characters(str) \in Nat
<1>1. DOMAIN str = 1..Len(str) /\ Len(str) \in Nat
  BY Indexed, Zenon
<1>2. IsFiniteSet(DOMAIN str)
  BY <1>1, FS_Interval
<1>3. PICK blocks : blocks = {{i} \X (1..Width[str[i]]) : i \in DOMAIN str}
  BY Zenon
<1>4. PICK f : f = [i \in DOMAIN str |-> {i} \X (1..Width[str[i]])]
  BY Zenon
<1>5. f \in Surjection(DOMAIN str, blocks)
  BY <1>3, <1>4, Zenon DEF Surjection
<1>6. IsFiniteSet(blocks)
  BY <1>2, <1>5, FS_Surjection, Zenon
<1>7. ASSUME NEW i \in DOMAIN str PROVE IsFiniteSet({i} \X (1..Width[str[i]]))
  <2>1. str[i] \in DOMAIN Width
    BY <1>1, Indexed, Zenon
  <2>2. Width[str[i]] \in Nat
    BY <2>1, LibraryAssumption, Zenon
  <2>3. IsFiniteSet(1..Width[str[i]])
    BY <2>2, FS_Interval
  <2>. QED
    BY <2>3, FS_Singleton, FS_Product, Zenon
<1>8. IsFiniteSet(UNION blocks)
  BY <1>3, <1>6, <1>7, FS_UNION, Zenon
<1>9. IsFiniteSet(Places(str))
  BY <1>3, <1>8, Zenon DEF Places
<1>. QED
  BY <1>9, FS_CardinalityType, Zenon DEF Characters

\* The places of a text, one by one.
LEMMA PlaceOf ==
    ASSUME NEW str, NEW p
    PROVE  p \in Places(str) <=>
             \E i, k : i \in DOMAIN str /\ k \in 1..Width[str[i]] /\ p = <<i, k>>
<1>1. ASSUME NEW i, NEW T PROVE p \in {i} \X T <=> \E k \in T : p = <<i, k>>
  OBVIOUS
<1>2. p \in Places(str) <=> \E i \in DOMAIN str : p \in {i} \X (1..Width[str[i]])
  BY Zenon DEF Places
<1>3. ASSUME NEW i
      PROVE  p \in {i} \X (1..Width[str[i]]) <=> \E k \in 1..Width[str[i]] : p = <<i, k>>
  BY <1>1, Zenon
<1>. QED
  BY <1>2, <1>3, SMT

\* The characters of two texts are as many together.
LEMMA CharactersJoined ==
    ASSUME NEW a \in Seq(DOMAIN Width), NEW b \in Seq(DOMAIN Width)
    PROVE  Characters(a \o b) = Characters(a) + Characters(b)
<1>1. /\ Len(a) \in Nat /\ DOMAIN a = 1..Len(a)
      /\ Len(b) \in Nat /\ DOMAIN b = 1..Len(b)
  BY Indexed, Zenon
<1>2. PICK c : c = a \o b
  BY Zenon
<1>3. /\ c \in Seq(DOMAIN Width) /\ Len(c) = Len(a) + Len(b)
      /\ \A i \in 1..Len(a) : c[i] = a[i]
      /\ \A i \in 1..Len(b) : c[Len(a) + i] = b[i]
  BY <1>2, JoinedAs, SMT
<1>4. DOMAIN c = 1..(Len(a) + Len(b))
  BY <1>3, Indexed, Zenon
<1>5. PICK moved : moved = {<<p[1] + Len(a), p[2]>> : p \in Places(b)}
  BY Zenon
<1>6. ASSUME NEW i \in DOMAIN b PROVE i + Len(a) \in DOMAIN c /\ c[i + Len(a)] = b[i]
  <2>1. i + Len(a) \in 1..(Len(a) + Len(b)) /\ i + Len(a) = Len(a) + i
    BY <1>1
  <2>. QED
    BY <2>1, <1>1, <1>3, <1>4, Zenon
<1>7. ASSUME NEW i \in DOMAIN a PROVE i \in DOMAIN c /\ c[i] = a[i]
  <2>1. i \in 1..(Len(a) + Len(b))
    BY <1>1
  <2>. QED
    BY <2>1, <1>1, <1>3, <1>4, Zenon
<1>8. ASSUME NEW i \in DOMAIN c
      PROVE  i \in DOMAIN a \/ \E j \in DOMAIN b : i = j + Len(a)
  <2>1. i \in 1..Len(a) \/ (i - Len(a) \in 1..Len(b) /\ i = (i - Len(a)) + Len(a))
    BY <1>1, <1>4
  <2>. QED
    BY <2>1, <1>1, Zenon
<1>9. ASSUME NEW p
      PROVE  p \in moved <=>
               \E i, k : i \in DOMAIN b /\ k \in 1..Width[b[i]] /\ p = <<i + Len(a), k>>
  <2>1. ASSUME NEW i, NEW k PROVE <<i, k>>[1] = i /\ <<i, k>>[2] = k
    OBVIOUS
  <2>2. ASSUME NEW q \in Places(b), p = <<q[1] + Len(a), q[2]>>
        PROVE  \E i, k : i \in DOMAIN b /\ k \in 1..Width[b[i]] /\ p = <<i + Len(a), k>>
    <3>1. PICK i, k : i \in DOMAIN b /\ k \in 1..Width[b[i]] /\ q = <<i, k>>
      BY PlaceOf, SMT
    <3>. QED
      BY <2>1, <2>2, <3>1, Zenon
  <2>3. ASSUME NEW i \in DOMAIN b, NEW k \in 1..Width[b[i]], p = <<i + Len(a), k>>
        PROVE  p \in moved
    <3>1. PICK q : q = <<i, k>>
      BY Zenon
    <3>2. q \in Places(b) /\ p = <<q[1] + Len(a), q[2]>>
      BY <2>1, <2>3, <3>1, PlaceOf, Zenon
    <3>. QED
      BY <3>2, <1>5, Zenon
  <2>. QED
    BY <2>2, <2>3, <1>5, Zenon
<1>10. Places(c) = Places(a) \cup moved
  <2>1. ASSUME NEW p \in Places(c) PROVE p \in Places(a) \cup moved
    <3>1. PICK i, k : i \in DOMAIN c /\ k \in 1..Width[c[i]] /\ p = <<i, k>>
      BY PlaceOf, SMT
    <3>2. CASE i \in DOMAIN a
      <4>1. p \in Places(a)
        BY <3>1, <3>2, <1>7, PlaceOf, Zenon
      <4>. QED
        BY <4>1, Zenon
    <3>3. CASE \E j \in DOMAIN b : i = j + Len(a)
      <4>1. PICK j \in DOMAIN b : i = j + Len(a)
        BY <3>3, Zenon
      <4>2. k \in 1..Width[b[j]] /\ p = <<j + Len(a), k>>
        BY <3>1, <4>1, <1>6, Zenon
      <4>3. p \in moved
        BY <4>1, <4>2, <1>9, Zenon
      <4>. QED
        BY <4>3, Zenon
    <3>4. i \in DOMAIN c
      BY <3>1, Zenon
    <3>. QED
      BY <3>2, <3>3, <3>4, <1>8, Zenon
  <2>2. ASSUME NEW p \in Places(a) PROVE p \in Places(c)
    <3>1. PICK i, k : i \in DOMAIN a /\ k \in 1..Width[a[i]] /\ p = <<i, k>>
      BY PlaceOf, SMT
    <3>. QED
      BY <3>1, <1>7, PlaceOf, Zenon
  <2>3. ASSUME NEW p \in moved PROVE p \in Places(c)
    <3>1. PICK j, k : j \in DOMAIN b /\ k \in 1..Width[b[j]] /\ p = <<j + Len(a), k>>
      BY <1>9, Zenon
    <3>2. PICK i : i = j + Len(a)
      BY Zenon
    <3>3. i \in DOMAIN c /\ k \in 1..Width[c[i]] /\ p = <<i, k>>
      BY <3>1, <3>2, <1>6, Zenon
    <3>. QED
      BY <3>3, PlaceOf, Zenon
  <2>. QED
    BY <2>1, <2>2, <2>3, Zenon
<1>11. Places(a) \cap moved = {}
  <2>1. ASSUME NEW p \in Places(a), p \in moved PROVE FALSE
    <3>1. PICK i, k : i \in DOMAIN a /\ k \in 1..Width[a[i]] /\ p = <<i, k>>
      BY PlaceOf, SMT
    <3>2. PICK j, l : j \in DOMAIN b /\ l \in 1..Width[b[j]] /\ p = <<j + Len(a), l>>
      BY <2>1, <1>9, Zenon
    <3>3. i = j + Len(a)
      BY <3>1, <3>2
    <3>. QED
      BY <3>1, <3>2, <3>3, <1>1
  <2>. QED
    BY <2>1, Zenon
<1>12. IsFiniteSet(Places(a)) /\ IsFiniteSet(Places(b))
  BY PlacesFinite, Zenon
<1>13. PICK f : f = [p \in Places(b) |-> <<p[1] + Len(a), p[2]>>]
  BY Zenon
<1>14. f \in Surjection(Places(b), moved)
  BY <1>5, <1>13, Zenon DEF Surjection
<1>15. f \in Injection(Places(b), moved)
  <2>1. ASSUME NEW p \in Places(b), NEW q \in Places(b), f[p] = f[q] PROVE p = q
    <3>1. PICK i, k : i \in DOMAIN b /\ k \in 1..Width[b[i]] /\ p = <<i, k>>
      BY PlaceOf, SMT
    <3>2. PICK j, l : j \in DOMAIN b /\ l \in 1..Width[b[j]] /\ q = <<j, l>>
      BY PlaceOf, SMT
    <3>3. p[1] = i /\ p[2] = k /\ q[1] = j /\ q[2] = l
      BY <3>1, <3>2
    <3>4. f[p] = <<p[1] + Len(a), p[2]>> /\ f[q] = <<q[1] + Len(a), q[2]>>
      BY <1>13, Zenon
    <3>5. i + Len(a) = j + Len(a) /\ k = l
      <4>1. <<i + Len(a), k>> = <<j + Len(a), l>>
        BY <2>1, <3>3, <3>4, Zenon
      <4>. QED
        BY <4>1
    <3>6. i = j
      BY <3>1, <3>2, <3>5, <1>1
    <3>. QED
      BY <3>1, <3>2, <3>5, <3>6, Zenon
  <2>2. f \in [Places(b) -> moved]
    BY <1>5, <1>13, Zenon
  <2>. QED
    BY <2>1, <2>2, Zenon DEF Injection, IsInjective
<1>16. IsFiniteSet(moved) /\ Cardinality(moved) = Cardinality(Places(b))
  BY <1>12, <1>14, <1>15, FS_Surjection, Zenon
<1>17. Cardinality(Places(c)) =
         Cardinality(Places(a)) + Cardinality(moved) - Cardinality(Places(a) \cap moved)
  BY <1>10, <1>12, <1>16, FS_Union, Zenon
<1>18. Cardinality(Places(a) \cap moved) = 0
  BY <1>11, FS_EmptySet, Zenon
<1>19. Characters(c) = Characters(a) + Characters(b) - 0
  BY <1>16, <1>17, <1>18, Zenon DEF Characters
<1>20. Characters(a) \in Nat /\ Characters(b) \in Nat
  BY PlacesFinite, Zenon
<1>. QED
  BY <1>2, <1>19, <1>20

\* A token has its width.
LEMMA CharactersOne ==
    ASSUME NEW t \in DOMAIN Width
    PROVE  Characters(<<t>>) = Width[t]
<1>1. PICK str : str = <<t>>
  BY Zenon
<1>2. DOMAIN str = {1} /\ str[1] = t
  BY <1>1
<1>3. Places(str) = {1} \X (1..Width[t])
  <2>1. {{i} \X (1..Width[str[i]]) : i \in DOMAIN str} = {{1} \X (1..Width[t])}
    BY <1>2, Zenon
  <2>2. UNION {{1} \X (1..Width[t])} = {1} \X (1..Width[t])
    BY Zenon
  <2>. QED
    BY <2>1, <2>2, Zenon DEF Places
<1>4. Width[t] \in Nat
  BY LibraryAssumption, Zenon
<1>5. IsFiniteSet(1..Width[t]) /\ Cardinality(1..Width[t]) = Width[t]
  BY <1>4, FS_Interval
<1>6. Cardinality({1} \X (1..Width[t])) = Cardinality({1}) * Cardinality(1..Width[t])
  BY <1>5, FS_Singleton, FS_Product, Zenon
<1>7. Cardinality({1}) = 1
  BY FS_Singleton, Zenon
<1>8. Cardinality(Places(str)) = 1 * Width[t]
  BY <1>3, <1>5, <1>6, <1>7, Zenon
<1>9. Cardinality(Places(str)) = Width[t]
  BY <1>4, <1>8
<1>. QED
  BY <1>1, <1>9, Zenon DEF Characters

\* A set of places has a greatest one.
LEMMA GreatestOf ==
    ASSUME NEW n \in Nat, NEW S, S \in SUBSET (1..n), S # {}
    PROVE  Greatest(S) \in S /\ \A j \in S : j <= Greatest(S)
<1>1. PICK T : T = {k \in Nat : n - k \in S}
  BY Zenon
<1>2. T \in SUBSET Nat
  BY <1>1, Zenon
<1>3. ASSUME NEW j \in S PROVE n - j \in T /\ j \in Nat
  <2>1. j \in 1..n
    BY Zenon
  <2>2. n - j \in Nat /\ n - (n - j) = j /\ j \in Nat
    BY <2>1
  <2>. QED
    BY <1>1, <2>2, Zenon
<1>4. T # {}
  BY <1>3, Zenon
<1>5. PICK k \in T : \A l \in T : k <= l
  BY <1>2, <1>4, LeastOf, Zenon
<1>6. n - k \in S /\ k \in Nat
  BY <1>1, <1>5, Zenon
<1>7. ASSUME NEW j \in S PROVE j <= n - k
  <2>1. n - j \in T /\ j \in Nat
    BY <1>3, Zenon
  <2>2. k <= n - j
    BY <2>1, <1>5, Zenon
  <2>. QED
    BY <2>1, <2>2, <1>6
<1>. QED
  BY <1>6, <1>7, Zenon DEF Greatest

\* A text of no places is empty.
LEMMA EmptyText ==
    ASSUME NEW S, NEW str \in Seq(S)
    PROVE  Len(str) = 0 <=> str = <<>>
OBVIOUS

\* atoi looks at the first token of what is left.
LEMMA AtoiHead ==
    ASSUME NEW S, NEW str \in Seq(S), NEW i \in 1..(Len(str) + 1)
    PROVE  atoi(From(str, i)) =
             IF i <= Len(str) /\ str[i] \in DOMAIN Atoi THEN Atoi[str[i]] ELSE 0
<1>1. Len(str) \in Nat
  BY Indexed, Zenon
<1>2. CASE i <= Len(str)
  <2>1. PICK f : f = From(str, i)
    BY Zenon
  <2>2. i \in 1..Len(str)
    BY <1>1, <1>2
  <2>3. /\ f \in Seq(S) /\ Len(f) = Len(str) - i + 1
        /\ \A j \in 1..(Len(str) - i + 1) : f[j] = str[i + j - 1]
    BY <2>1, <2>2, FromPlace, Zenon
  <2>4. Len(f) # 0 /\ 1 \in 1..(Len(str) - i + 1) /\ i + 1 - 1 = i
    BY <1>1, <1>2, <2>3
  <2>5. f # <<>>
    BY <2>3, <2>4, EmptyText, Zenon
  <2>6. f[1] = str[i]
    BY <2>3, <2>4, Zenon
  <2>7. Head(f) = f[1]
    BY <2>3, <2>5
  <2>. QED
    BY <1>2, <2>1, <2>5, <2>6, <2>7, Zenon DEF atoi
<1>3. CASE ~(i <= Len(str))
  <2>1. i = Len(str) + 1
    BY <1>1, <1>3
  <2>2. SubSeq(str, Len(str) + 1, Len(str)) = <<>>
    BY <1>1
  <2>3. From(str, i) = <<>>
    BY <2>1, <2>2, Zenon DEF From
  <2>. QED
    BY <1>3, <2>3, Zenon DEF atoi
<1>. QED
  BY <1>2, <1>3, Zenon

\* What the end of endpoint_parse does, in a cleared structure.
LEMMA EndpointEnds ==
    ASSUME NEW family, NEW table, NEW size, NEW ip, NEW rest,
           NEW r, r = EndpointOf(ZeroEndpoint, family, table, size, ip, rest)
    PROVE  /\ r.ok \in BOOLEAN
           /\ r.ok <=> Characters(ip) < size /\ atoi(rest) \in Ports /\ ip \in DOMAIN table
           /\ r.ok => r = [ok |-> TRUE,
                           endpoint |-> [family |-> family, port |-> atoi(rest),
                                         ip |-> table[ip], addr_len |-> SockaddrLen[family]]]
           /\ ~r.ok => r.endpoint.addr_len = 0
<1>1. PICK half : half = [ZeroEndpoint EXCEPT !.family = family, !.port = atoi(rest)]
  BY Zenon
<1>2. half = [family |-> family, port |-> atoi(rest), ip |-> "zero", addr_len |-> 0]
  BY <1>1, Zenon DEF ZeroEndpoint
<1>3. CASE ~(Characters(ip) < size)
  <2>1. r = [ok |-> FALSE, endpoint |-> ZeroEndpoint]
    BY <1>3, Zenon DEF EndpointOf, Rejected, FitsIpBuf
  <2>2. r.ok = FALSE /\ r.endpoint = ZeroEndpoint /\ ZeroEndpoint.addr_len = 0
    BY <2>1 DEF ZeroEndpoint
  <2>. QED
    BY <1>3, <2>2, Zenon
<1>4. CASE Characters(ip) < size /\ atoi(rest) \notin Ports
  <2>1. r = [ok |-> FALSE, endpoint |-> ZeroEndpoint]
    BY <1>4, Zenon DEF EndpointOf, Rejected, FitsIpBuf
  <2>2. r.ok = FALSE /\ r.endpoint = ZeroEndpoint /\ ZeroEndpoint.addr_len = 0
    BY <2>1 DEF ZeroEndpoint
  <2>. QED
    BY <1>4, <2>2, Zenon
<1>5. CASE Characters(ip) < size /\ atoi(rest) \in Ports /\ ip \notin DOMAIN table
  <2>1. r = [ok |-> FALSE, endpoint |-> half]
    BY <1>1, <1>5, Zenon DEF EndpointOf, Rejected, FitsIpBuf
  <2>2. r.ok = FALSE /\ r.endpoint = half /\ half.addr_len = 0
    BY <1>2, <2>1
  <2>. QED
    BY <1>5, <2>2, Zenon
<1>6. CASE Characters(ip) < size /\ atoi(rest) \in Ports /\ ip \in DOMAIN table
  <2>1. PICK e : e = [half EXCEPT !.ip = table[ip], !.addr_len = SockaddrLen[family]]
    BY Zenon
  <2>2. r = [ok |-> TRUE, endpoint |-> e]
    BY <1>1, <1>6, <2>1, Zenon DEF EndpointOf, FitsIpBuf
  <2>3. e = [family |-> family, port |-> atoi(rest),
             ip |-> table[ip], addr_len |-> SockaddrLen[family]]
    BY <1>2, <2>1, Zenon
  <2>4. r.ok = TRUE
    BY <2>2
  <2>. QED
    BY <1>6, <2>2, <2>3, <2>4, Zenon
<1>. QED
  BY <1>3, <1>4, <1>5, <1>6, Zenon

\* When the end of endpoint_parse accepts.
LEMMA EndpointAccepts ==
    ASSUME NEW family, NEW table, NEW size, NEW ip, NEW rest,
           NEW r, r = EndpointOf(ZeroEndpoint, family, table, size, ip, rest)
    PROVE  r.ok <=> Characters(ip) < size /\ atoi(rest) \in Ports /\ ip \in DOMAIN table
BY EndpointEnds

\* What is accepted is the address and the port that were read.
LEMMA EndpointResult ==
    ASSUME NEW family, NEW table, NEW size, NEW ip, NEW rest,
           NEW r, r = EndpointOf(ZeroEndpoint, family, table, size, ip, rest), r.ok
    PROVE  r = [ok |-> TRUE,
                endpoint |-> [family |-> family, port |-> atoi(rest),
                              ip |-> table[ip], addr_len |-> SockaddrLen[family]]]
BY EndpointEnds

\* What is refused has no length.
LEMMA EndpointRefused ==
    ASSUME NEW family, NEW table, NEW size, NEW ip, NEW rest,
           NEW r, r = EndpointOf(ZeroEndpoint, family, table, size, ip, rest)
    PROVE  r.ok \in BOOLEAN /\ (~r.ok => r.endpoint.addr_len = 0)
BY EndpointEnds

\* A place of a text that holds a token.
LEMMA IsWhere ==
    ASSUME NEW S, NEW str \in Seq(S), NEW c
    PROVE  /\ Where(c, str) \in SUBSET (1..Len(str))
           /\ \A i \in 1..Len(str) : i \in Where(c, str) <=> str[i] = c
BY Indexed, Zenon DEF Where

\* The start of a text, up to one of its places.
LEMMA BeforePlace ==
    ASSUME NEW S, NEW str \in Seq(S), NEW k \in 1..Len(str)
    PROVE  /\ Before(str, k) \in Seq(S) /\ Len(Before(str, k)) = k - 1
           /\ \A j \in 1..(k - 1) : Before(str, k)[j] = str[j]
BY DEF Before

\* endpoint_parse reads an IPv4 address that is followed by the only colon.
LEMMA ReadsDotted ==
    ASSUME NEW S, NEW str \in Seq(S), NEW ip \in DOMAIN Ip4, ip \in Seq(S),
           Len(ip) + 2 <= Len(str), \A i \in 1..Len(ip) : str[i] = ip[i],
           Where(":", str) = {Len(ip) + 1},
           str[Len(ip) + 2] \in DOMAIN Atoi, Atoi[str[Len(ip) + 2]] \in Ports, NEW old
    PROVE  endpoint_parse(str, old) =
             [ok |-> TRUE,
              endpoint |-> [family |-> "AF_INET", port |-> Atoi[str[Len(ip) + 2]],
                            ip |-> Ip4[ip], addr_len |-> SockaddrLen["AF_INET"]]]
<1>1. /\ Characters(ip) < INET_ADDRSTRLEN
      /\ ip \in Seq(DOMAIN Width \ Marks) /\ ip # <<>>
  BY LibraryAssumption, Zenon DEF Addresses
<1>2. Len(ip) \in Nat /\ Len(str) \in Nat /\ Len(ip) # 0
  BY <1>1, Indexed, EmptyText, Zenon
<1>3. PICK k \in 2..Len(str) : k = Len(ip) + 1
  BY <1>2
<1>4. k + 1 \in 1..Len(str) /\ k + 1 = Len(ip) + 2 /\ 1 \in 1..Len(ip) /\ k # 1
  BY <1>2, <1>3
<1>5. ~(1 \in Where("[", str))
  <2>1. str[1] = ip[1]
    BY <1>4, Zenon
  <2>2. ip[1] \in DOMAIN Width \ Marks
    BY <1>1, <1>4, Indexed, Zenon
  <2>3. "[" \in Marks
    BY DEF Marks
  <2>. QED
    BY <2>1, <2>2, <2>3, Zenon DEF Where
<1>6. LastColon(str) = k
  <2>1. Where(":", str) \in SUBSET (1..Len(str)) /\ Where(":", str) # {}
    BY IsWhere, Zenon
  <2>2. Greatest(Where(":", str)) \in Where(":", str)
    BY <1>2, <2>1, GreatestOf, Zenon
  <2>. QED
    BY <1>3, <2>2, Zenon DEF LastColon
<1>7. Before(str, k) = ip
  <2>1. k \in 1..Len(str) /\ k - 1 = Len(ip)
    BY <1>2, <1>3
  <2>2. PICK b : b = Before(str, k)
    BY Zenon
  <2>3. b \in Seq(S) /\ Len(b) = Len(ip) /\ \A j \in 1..Len(ip) : b[j] = str[j]
    BY <2>1, <2>2, BeforePlace, Zenon
  <2>4. \A j \in 1..Len(b) : b[j] = ip[j]
    BY <2>3, Zenon
  <2>. QED
    BY <2>2, <2>3, <2>4, SameText, Zenon
<1>8. atoi(From(str, k + 1)) = Atoi[str[Len(ip) + 2]]
  <2>1. k + 1 \in 1..(Len(str) + 1) /\ k + 1 <= Len(str)
    BY <1>2, <1>4
  <2>. QED
    BY <1>4, <2>1, AtoiHead, Zenon
<1>9. ~(Where(":", str) \subseteq {1})
  BY <1>3, <1>4, Zenon
<1>10. PICK rest : rest = From(str, k + 1)
  BY Zenon
<1>11. endpoint_parse(str, old) =
         EndpointOf(ZeroEndpoint, "AF_INET", Ip4, INET_ADDRSTRLEN, ip, rest)
  BY <1>5, <1>6, <1>7, <1>9, <1>10, Zenon DEF endpoint_parse, Dotted, Cleared
<1>12. PICK r : r = EndpointOf(ZeroEndpoint, "AF_INET", Ip4, INET_ADDRSTRLEN, ip, rest)
  BY Zenon
<1>13. r.ok
  <2>1. atoi(rest) \in Ports
    BY <1>8, <1>10, Zenon
  <2>2. r.ok <=> Characters(ip) < INET_ADDRSTRLEN /\ atoi(rest) \in Ports /\ ip \in DOMAIN Ip4
    BY <1>12, EndpointAccepts, Zenon
  <2>. QED
    BY <1>1, <2>1, <2>2, Zenon
<1>14. r = [ok |-> TRUE,
            endpoint |-> [family |-> "AF_INET", port |-> atoi(rest),
                          ip |-> Ip4[ip], addr_len |-> SockaddrLen["AF_INET"]]]
  BY <1>12, <1>13, EndpointResult, Zenon
<1>. QED
  BY <1>8, <1>10, <1>11, <1>12, <1>14, Zenon

\* What stands between the opening bracket and another place.
LEMMA TailBefore ==
    ASSUME NEW S, NEW str \in Seq(S), NEW c \in 2..Len(str)
    PROVE  /\ Tail(Before(str, c)) \in Seq(S) /\ Len(Tail(Before(str, c))) = c - 2
           /\ \A j \in 1..(c - 2) : Tail(Before(str, c))[j] = str[j + 1]
<1>1. Len(str) \in Nat
  BY Indexed, Zenon
<1>2. PICK b : b = Before(str, c)
  BY Zenon
<1>3. c \in 1..Len(str)
  BY <1>1
<1>4. b \in Seq(S) /\ Len(b) = c - 1 /\ \A k \in 1..(c - 1) : b[k] = str[k]
  BY <1>2, <1>3, BeforePlace, Zenon
<1>5. Len(b) # 0
  BY <1>1, <1>4
<1>6. b # <<>>
  BY <1>4, <1>5, EmptyText, Zenon
<1>7. /\ Tail(b) \in Seq(S) /\ Len(Tail(b)) = Len(b) - 1
      /\ \A j \in 1..(Len(b) - 1) : Tail(b)[j] = b[j + 1]
  BY <1>4, <1>6
<1>8. Len(b) - 1 = c - 2
  BY <1>1, <1>4
<1>9. ASSUME NEW j \in 1..(c - 2) PROVE Tail(b)[j] = str[j + 1]
  <2>1. j + 1 \in 1..(c - 1)
    BY <1>1
  <2>2. b[j + 1] = str[j + 1]
    BY <1>4, <2>1, Zenon
  <2>. QED
    BY <1>7, <1>8, <2>2, Zenon
<1>. QED
  BY <1>2, <1>7, <1>8, <1>9, Zenon

\* endpoint_parse reads an IPv6 address in brackets that a colon follows.
LEMMA ReadsBracketed ==
    ASSUME NEW S, NEW str \in Seq(S), NEW ip \in DOMAIN Ip6, ip \in Seq(S),
           Len(ip) + 4 <= Len(str), str[1] = "[",
           \A i \in 1..Len(ip) : str[i + 1] = ip[i],
           str[Len(ip) + 2] = "]", str[Len(ip) + 3] = ":",
           str[Len(ip) + 4] \in DOMAIN Atoi, Atoi[str[Len(ip) + 4]] \in Ports, NEW old
    PROVE  endpoint_parse(str, old) =
             [ok |-> TRUE,
              endpoint |-> [family |-> "AF_INET6", port |-> Atoi[str[Len(ip) + 4]],
                            ip |-> Ip6[ip], addr_len |-> SockaddrLen["AF_INET6"]]]
<1>1. Characters(ip) < INET6_ADDRSTRLEN /\ ip \in Seq(DOMAIN Width \ {"[", "]"})
  BY LibraryAssumption, Zenon DEF Addresses
<1>2. Len(ip) \in Nat /\ Len(str) \in Nat
  BY Indexed, Zenon
<1>3. PICK c \in 2..Len(str) : c = Len(ip) + 2
  BY <1>2
<1>4. /\ c + 1 \in 1..Len(str) /\ c + 1 = Len(ip) + 3
      /\ c + 2 \in 1..Len(str) /\ c + 2 = Len(ip) + 4 /\ c + 2 <= Len(str)
      /\ c + 2 \in 1..(Len(str) + 1) /\ 1 \in 1..Len(str) /\ c \in 1..Len(str)
      /\ c - 2 = Len(ip)
  BY <1>2, <1>3
<1>5. 1 \in Where("[", str) /\ c \in Where("]", str) /\ c + 1 \in Where(":", str)
  BY <1>3, <1>4, IsWhere, Zenon
<1>6. ASSUME NEW j \in Where("]", str) PROVE c <= j
  <2>1. j \in 1..Len(str) /\ str[j] = "]"
    BY Indexed, Zenon DEF Where
  <2>2. j # 1
    BY <2>1
  <2>3. SUFFICES ASSUME ~(c <= j) PROVE FALSE
    BY Zenon
  <2>4. j - 1 \in 1..Len(ip) /\ j - 1 + 1 = j
    BY <1>2, <1>3, <2>1, <2>2, <2>3
  <2>5. ip[j - 1] = "]"
    BY <2>1, <2>4, Zenon
  <2>6. ip[j - 1] \in DOMAIN Width \ {"[", "]"}
    BY <1>1, <2>4, Indexed, Zenon
  <2>. QED
    BY <2>5, <2>6
<1>7. Least(Where("]", str)) = c
  <2>1. Where("]", str) \in SUBSET Nat
    <3>1. Where("]", str) \in SUBSET (1..Len(str))
      BY IsWhere, Zenon
    <3>. QED
      BY <1>2, <3>1
  <2>2. /\ Least(Where("]", str)) \in Where("]", str)
        /\ \A j \in Where("]", str) : Least(Where("]", str)) <= j
    BY <1>5, <2>1, LeastOf, Zenon
  <2>3. /\ Least(Where("]", str)) <= c /\ c <= Least(Where("]", str))
        /\ Least(Where("]", str)) \in Nat
    BY <1>5, <1>6, <2>1, <2>2, Zenon
  <2>. QED
    BY <2>3, <1>2, <1>3
<1>8. Tail(Before(str, c)) = ip
  <2>1. PICK t : t = Tail(Before(str, c))
    BY Zenon
  <2>2. t \in Seq(S) /\ Len(t) = c - 2 /\ \A j \in 1..(c - 2) : t[j] = str[j + 1]
    BY <2>1, TailBefore, Zenon
  <2>3. Len(t) = Len(ip) /\ \A j \in 1..Len(t) : t[j] = ip[j]
    BY <1>4, <2>2, Zenon
  <2>. QED
    BY <2>1, <2>2, <2>3, SameText, Zenon
<1>9. PICK rest : rest = From(str, c + 2)
  BY Zenon
<1>10. atoi(rest) = Atoi[str[Len(ip) + 4]]
  BY <1>4, <1>9, AtoiHead, Zenon
<1>11. Where("]", str) # {}
  BY <1>5, Zenon
<1>12. Bracketed(str, ZeroEndpoint) =
         EndpointOf(ZeroEndpoint, "AF_INET6", Ip6, INET6_ADDRSTRLEN, ip, rest)
  BY <1>5, <1>7, <1>8, <1>9, <1>11, Zenon DEF Bracketed
<1>13. endpoint_parse(str, old) = Bracketed(str, ZeroEndpoint)
  BY <1>5, Zenon DEF endpoint_parse, Cleared
<1>14. PICK r : r = EndpointOf(ZeroEndpoint, "AF_INET6", Ip6, INET6_ADDRSTRLEN, ip, rest)
  BY Zenon
<1>15. r.ok
  <2>1. atoi(rest) \in Ports
    BY <1>10, Zenon
  <2>2. r.ok <=> Characters(ip) < INET6_ADDRSTRLEN /\ atoi(rest) \in Ports /\ ip \in DOMAIN Ip6
    BY <1>14, EndpointAccepts, Zenon
  <2>. QED
    BY <1>1, <2>1, <2>2, Zenon
<1>16. r = [ok |-> TRUE,
            endpoint |-> [family |-> "AF_INET6", port |-> atoi(rest),
                          ip |-> Ip6[ip], addr_len |-> SockaddrLen["AF_INET6"]]]
  BY <1>14, <1>15, EndpointResult
<1>. QED
  BY <1>10, <1>12, <1>13, <1>14, <1>16, Zenon

\* The texts that endpoint_parse is to accept, place by place.
DottedText(str, ip) ==
    /\ Len(ip) + 2 <= Len(str)
    /\ \A i \in 1..Len(ip) : str[i] = ip[i]
    /\ Where(":", str) = {Len(ip) + 1}
    /\ str[Len(ip) + 2] \in DOMAIN Atoi /\ Atoi[str[Len(ip) + 2]] \in Ports
BracketedText(str, ip) ==
    /\ Len(ip) + 4 <= Len(str)
    /\ str[1] = "["
    /\ \A i \in 1..Len(ip) : str[i + 1] = ip[i]
    /\ str[Len(ip) + 2] = "]" /\ str[Len(ip) + 3] = ":"
    /\ str[Len(ip) + 4] \in DOMAIN Atoi /\ Atoi[str[Len(ip) + 4]] \in Ports

\* 0, which atoi gives when it reads no number, is no port.
LEMMA ZeroIsNoPort == 0 \notin Ports
BY DEF Ports

\* A port that is accepted stands in the text.
LEMMA PortStands ==
    ASSUME NEW S, NEW str \in Seq(S), NEW i \in 1..(Len(str) + 1),
           atoi(From(str, i)) \in Ports
    PROVE  i <= Len(str) /\ str[i] \in DOMAIN Atoi /\ Atoi[str[i]] \in Ports
<1>1. PICK a : a = atoi(From(str, i))
  BY Zenon
<1>2. a = IF i <= Len(str) /\ str[i] \in DOMAIN Atoi THEN Atoi[str[i]] ELSE 0
  BY <1>1, AtoiHead, SMT
<1>3. (i <= Len(str) /\ str[i] \in DOMAIN Atoi) \/ a = 0
  BY <1>2, Zenon
<1>. QED
  BY <1>1, <1>2, <1>3, ZeroIsNoPort, Zenon

\* An accepted text without an opening bracket.
LEMMA AcceptedDotted ==
    ASSUME NEW S, NEW str \in Seq(S), ~(1 \in Where("[", str)),
           NEW old, endpoint_parse(str, old).ok
    PROVE  \E ip \in DOMAIN Ip4 : ip \in Seq(S) /\ DottedText(str, ip)
<1>1. PICK r : r = endpoint_parse(str, old)
  BY Zenon
<1>2. r = Dotted(str, ZeroEndpoint) /\ r.ok
  BY <1>1, Zenon DEF endpoint_parse, Cleared
<1>3. ~(Where(":", str) \subseteq {1})
  <2>1. Rejected(ZeroEndpoint).ok = FALSE
    BY DEF Rejected
  <2>. QED
    BY <1>2, <2>1, Zenon DEF Dotted
<1>4. PICK k : k = LastColon(str)
  BY Zenon
<1>5. Len(str) \in Nat
  BY Indexed, Zenon
<1>6. k \in Where(":", str) /\ \A j \in Where(":", str) : j <= k
  <2>1. Where(":", str) \in SUBSET (1..Len(str)) /\ Where(":", str) # {}
    BY <1>3, IsWhere, Zenon
  <2>. QED
    BY <1>4, <1>5, <2>1, GreatestOf, Zenon DEF LastColon
<1>7. k \in 1..Len(str)
  BY <1>6, IsWhere, Zenon
<1>8. PICK ip : ip = Before(str, k)
  BY Zenon
<1>9. PICK rest : rest = From(str, k + 1)
  BY Zenon
<1>10. r = EndpointOf(ZeroEndpoint, "AF_INET", Ip4, INET_ADDRSTRLEN, ip, rest)
  BY <1>2, <1>3, <1>4, <1>8, <1>9, Zenon DEF Dotted
<1>11. atoi(rest) \in Ports /\ ip \in DOMAIN Ip4
  <2>1. r.ok <=> Characters(ip) < INET_ADDRSTRLEN /\ atoi(rest) \in Ports /\ ip \in DOMAIN Ip4
    BY <1>10, EndpointAccepts, Zenon
  <2>. QED
    BY <1>2, <2>1, Zenon
<1>12. k + 1 <= Len(str) /\ str[k + 1] \in DOMAIN Atoi /\ Atoi[str[k + 1]] \in Ports
  <2>1. k + 1 \in 1..(Len(str) + 1)
    BY <1>5, <1>7
  <2>. QED
    BY <1>9, <1>11, <2>1, PortStands, Zenon
<1>13. ip \in Seq(S) /\ Len(ip) = k - 1 /\ \A j \in 1..(k - 1) : ip[j] = str[j]
  BY <1>7, <1>8, BeforePlace, Zenon
<1>14. k = Len(ip) + 1 /\ k + 1 = Len(ip) + 2 /\ k - 1 = Len(ip)
  BY <1>5, <1>7, <1>13
<1>15. ASSUME NEW j \in Where(":", str) PROVE j = k
  <2>1. j \in 1..Len(str) /\ str[j] = ":"
    BY Indexed, Zenon DEF Where
  <2>2. j <= k
    BY <1>6, Zenon
  <2>3. SUFFICES ASSUME j # k PROVE FALSE
    BY Zenon
  <2>4. j \in 1..(k - 1)
    BY <1>5, <1>7, <2>1, <2>2, <2>3
  <2>5. ip[j] = ":"
    BY <1>13, <2>1, <2>4, Zenon
  <2>6. ip \in Seq(DOMAIN Width \ Marks)
    BY <1>11, LibraryAssumption, Zenon DEF Addresses
  <2>7. ip[j] \in DOMAIN Width \ Marks
    BY <1>14, <2>4, <2>6, Indexed, Zenon
  <2>. QED
    BY <2>5, <2>7 DEF Marks
<1>16. Where(":", str) = {Len(ip) + 1}
  BY <1>6, <1>14, <1>15, Zenon
<1>17. \A j \in 1..Len(ip) : str[j] = ip[j]
  BY <1>13, <1>14, Zenon
<1>18. DottedText(str, ip)
  BY <1>12, <1>14, <1>16, <1>17, Zenon DEF DottedText
<1>. QED
  BY <1>11, <1>13, <1>18, Zenon

\* An accepted text with an opening bracket.
LEMMA AcceptedBracketed ==
    ASSUME NEW S, NEW str \in Seq(S), 1 \in Where("[", str),
           NEW old, endpoint_parse(str, old).ok
    PROVE  \E ip \in DOMAIN Ip6 : ip \in Seq(S) /\ BracketedText(str, ip)
<1>1. PICK r : r = endpoint_parse(str, old)
  BY Zenon
<1>2. r = Bracketed(str, ZeroEndpoint) /\ r.ok
  BY <1>1, Zenon DEF endpoint_parse, Cleared
<1>3. PICK c : c = Least(Where("]", str))
  BY Zenon
<1>4. Where("]", str) # {} /\ c + 1 \in Where(":", str)
  <2>1. Rejected(ZeroEndpoint).ok = FALSE
    BY DEF Rejected
  <2>. QED
    BY <1>2, <1>3, <2>1, Zenon DEF Bracketed
<1>5. Len(str) \in Nat
  BY Indexed, Zenon
<1>6. c \in Where("]", str)
  <2>1. Where("]", str) \in SUBSET (1..Len(str))
    BY IsWhere, Zenon
  <2>2. Where("]", str) \in SUBSET Nat
    BY <1>5, <2>1
  <2>. QED
    BY <1>3, <1>4, <2>2, LeastOf, Zenon
<1>7. /\ c \in 1..Len(str) /\ str[c] = "]"
      /\ c + 1 \in 1..Len(str) /\ str[c + 1] = ":" /\ str[1] = "["
  BY <1>4, <1>6, Indexed, Zenon DEF Where
<1>8. c # 1
  BY <1>7
<1>9. c \in 2..Len(str) /\ c + 2 \in 1..(Len(str) + 1)
  BY <1>5, <1>7, <1>8
<1>10. PICK ip : ip = Tail(Before(str, c))
  BY Zenon
<1>11. PICK rest : rest = From(str, c + 2)
  BY Zenon
<1>12. r = EndpointOf(ZeroEndpoint, "AF_INET6", Ip6, INET6_ADDRSTRLEN, ip, rest)
  BY <1>2, <1>3, <1>4, <1>10, <1>11, Zenon DEF Bracketed
<1>13. atoi(rest) \in Ports /\ ip \in DOMAIN Ip6
  <2>1. r.ok <=> Characters(ip) < INET6_ADDRSTRLEN /\ atoi(rest) \in Ports /\ ip \in DOMAIN Ip6
    BY <1>12, EndpointAccepts, Zenon
  <2>. QED
    BY <1>2, <2>1, Zenon
<1>14. c + 2 <= Len(str) /\ str[c + 2] \in DOMAIN Atoi /\ Atoi[str[c + 2]] \in Ports
  BY <1>9, <1>11, <1>13, PortStands, Zenon
<1>15. ip \in Seq(S) /\ Len(ip) = c - 2 /\ \A j \in 1..(c - 2) : ip[j] = str[j + 1]
  BY <1>9, <1>10, TailBefore, Zenon
<1>16. /\ c = Len(ip) + 2 /\ c + 1 = Len(ip) + 3 /\ c + 2 = Len(ip) + 4 /\ c - 2 = Len(ip)
  BY <1>7, <1>9, <1>15
<1>17. \A j \in 1..Len(ip) : str[j + 1] = ip[j]
  BY <1>15, <1>16, Zenon
<1>18. BracketedText(str, ip)
  BY <1>7, <1>14, <1>16, <1>17, Zenon DEF BracketedText
<1>. QED
  BY <1>13, <1>15, <1>18, Zenon

\* A text that is not accepted leaves no length, whatever the structure held.
LEMMA NotAccepted ==
    ASSUME NEW str, NEW old
    PROVE  /\ endpoint_parse(str, old).ok \in BOOLEAN
           /\ ~endpoint_parse(str, old).ok => endpoint_parse(str, old).endpoint.addr_len = 0
<1>1. PICK r : r = endpoint_parse(str, old)
  BY Zenon
<1>2. PICK no : no = Rejected(ZeroEndpoint)
  BY Zenon
<1>3. no.ok = FALSE /\ no.endpoint.addr_len = 0
  BY <1>2 DEF Rejected, ZeroEndpoint
<1>4. \/ r = no
      \/ \E family, table, size, ip, rest :
             r = EndpointOf(ZeroEndpoint, family, table, size, ip, rest)
  BY <1>1, <1>2, Zenon DEF endpoint_parse, Cleared, Bracketed, Dotted
<1>5. CASE r = no
  BY <1>1, <1>3, <1>5, Zenon
<1>6. ASSUME NEW family, NEW table, NEW size, NEW ip, NEW rest,
             r = EndpointOf(ZeroEndpoint, family, table, size, ip, rest)
      PROVE  r.ok \in BOOLEAN /\ (~r.ok => r.endpoint.addr_len = 0)
  BY <1>6, EndpointRefused, Zenon
<1>. QED
  BY <1>1, <1>4, <1>5, <1>6, Zenon

\* endpoint_parse does not look at what the structure held.
LEMMA WhateverHeld ==
    ASSUME NEW str, NEW old
    PROVE  endpoint_parse(str, old) = endpoint_parse(str, ZeroEndpoint)
BY Zenon DEF endpoint_parse, Cleared

\* The start of a text, place by place.
LEMMA Prefixed ==
    ASSUME NEW S, NEW str \in Seq(S), NEW p \in Seq(S)
    PROVE  StartsWith(str, p) <=>
             Len(p) <= Len(str) /\ \A i \in 1..Len(p) : str[i] = p[i]
<1>1. SUFFICES ASSUME Len(p) <= Len(str)
               PROVE  SubSeq(str, 1, Len(p)) = p <=> \A i \in 1..Len(p) : str[i] = p[i]
  BY Zenon DEF StartsWith
<1>2. PICK b : b = SubSeq(str, 1, Len(p))
  BY Zenon
<1>3. b \in Seq(S) /\ Len(b) = Len(p) /\ \A i \in 1..Len(p) : b[i] = str[i]
  BY <1>1, <1>2
<1>4. ASSUME b = p PROVE \A i \in 1..Len(p) : str[i] = p[i]
  BY <1>3, <1>4, Zenon
<1>5. ASSUME \A i \in 1..Len(p) : str[i] = p[i] PROVE b = p
  <2>1. \A i \in 1..Len(b) : b[i] = p[i]
    BY <1>3, <1>5, Zenon
  <2>. QED
    BY <1>3, <2>1, SameText, Zenon
<1>. QED
  BY <1>2, <1>4, <1>5, Zenon

\* An address with its port behind it.
LEMMA WithPort ==
    ASSUME NEW S, NEW host \in Seq(S), NEW c \in S, NEW port \in S
    PROVE  /\ host \o <<c, port>> \in Seq(S)
           /\ Len(host \o <<c, port>>) = Len(host) + 2
           /\ \A i \in 1..Len(host) : (host \o <<c, port>>)[i] = host[i]
           /\ (host \o <<c, port>>)[Len(host) + 1] = c
           /\ (host \o <<c, port>>)[Len(host) + 2] = port
<1>1. PICK t : t = <<c, port>>
  BY Zenon
<1>2. t \in Seq(S) /\ Len(t) = 2 /\ t[1] = c /\ t[2] = port
  BY <1>1
<1>3. 1 \in 1..Len(t) /\ 2 \in 1..Len(t)
  BY <1>2
<1>4. PICK r : r = host \o t
  BY Zenon
<1>5. /\ r \in Seq(S) /\ Len(r) = Len(host) + Len(t)
      /\ \A i \in 1..Len(host) : r[i] = host[i]
      /\ \A i \in 1..Len(t) : r[Len(host) + i] = t[i]
  <2>1. t \in Seq(S)
    BY <1>2, Zenon
  <2>. QED
    BY <1>4, <2>1, JoinedAs, SMT
<1>. QED
  BY <1>1, <1>2, <1>3, <1>4, <1>5, Zenon

\* An address in brackets.
LEMMA InBrackets ==
    ASSUME NEW S, NEW ip \in Seq(S), "[" \in S, "]" \in S
    PROVE  /\ Brackets(ip) \in Seq(S) /\ Len(Brackets(ip)) = Len(ip) + 2
           /\ Brackets(ip)[1] = "[" /\ Brackets(ip)[Len(ip) + 2] = "]"
           /\ \A i \in 1..Len(ip) : Brackets(ip)[i + 1] = ip[i]
<1>1. PICK open : open = <<"[">>
  BY Zenon
<1>2. PICK close : close = <<"]">>
  BY Zenon
<1>3. /\ open \in Seq(S) /\ Len(open) = 1 /\ open[1] = "["
      /\ close \in Seq(S) /\ Len(close) = 1 /\ close[1] = "]"
  BY <1>1, <1>2
<1>4. Len(ip) \in Nat /\ 1 \in 1..Len(open) /\ 1 \in 1..Len(close)
  BY <1>3
<1>5. PICK h : h = open \o ip
  BY Zenon
<1>6. /\ h \in Seq(S) /\ Len(h) = Len(open) + Len(ip)
      /\ \A i \in 1..Len(open) : h[i] = open[i]
      /\ \A i \in 1..Len(ip) : h[Len(open) + i] = ip[i]
  <2>1. open \in Seq(S)
    BY <1>3, Zenon
  <2>. QED
    BY <1>5, <2>1, JoinedAs, SMT
<1>7. PICK b : b = h \o close
  BY Zenon
<1>8. /\ b \in Seq(S) /\ Len(b) = Len(h) + Len(close)
      /\ \A i \in 1..Len(h) : b[i] = h[i]
      /\ \A i \in 1..Len(close) : b[Len(h) + i] = close[i]
  <2>1. h \in Seq(S) /\ close \in Seq(S)
    BY <1>3, <1>6, Zenon
  <2>. QED
    BY <1>7, <2>1, JoinedAs, SMT
<1>9. /\ Len(b) = Len(ip) + 2 /\ Len(h) + 1 = Len(ip) + 2 /\ 1 \in 1..Len(h)
      /\ \A i \in 1..Len(ip) : i + 1 \in 1..Len(h) /\ Len(open) + i = i + 1
  BY <1>3, <1>4, <1>6, <1>8
<1>10. b[1] = "[" /\ b[Len(ip) + 2] = "]" /\ \A i \in 1..Len(ip) : b[i + 1] = ip[i]
  <2>1. h[1] = "[" /\ b[Len(h) + 1] = "]"
    BY <1>3, <1>4, <1>6, <1>8, Zenon
  <2>. QED
    BY <1>6, <1>8, <1>9, <2>1, SMT
<1>11. Brackets(ip) = b
  BY <1>1, <1>2, <1>5, <1>7, Zenon DEF Brackets
<1>. QED
  BY <1>8, <1>9, <1>10, <1>11, Zenon

\* A text that starts with an address, a colon and a port, place by place; and
\* one with the address in brackets.
SpellsHost(str, host, port) ==
    /\ Len(host) + 2 <= Len(str)
    /\ \A i \in 1..Len(host) : str[i] = host[i]
    /\ str[Len(host) + 1] = ":" /\ str[Len(host) + 2] = port
SpellsBrackets(str, ip, port) ==
    /\ Len(ip) + 4 <= Len(str)
    /\ str[1] = "[" /\ \A i \in 1..Len(ip) : str[i + 1] = ip[i]
    /\ str[Len(ip) + 2] = "]" /\ str[Len(ip) + 3] = ":" /\ str[Len(ip) + 4] = port

\* That is what it is to start with them.
LEMMA Spelled ==
    ASSUME NEW S, NEW str \in Seq(S), NEW host \in Seq(S), ":" \in S, NEW port \in S
    PROVE  StartsWith(str, host \o <<":", port>>) <=> SpellsHost(str, host, port)
<1>1. PICK p : p = host \o <<":", port>>
  BY Zenon
<1>2. /\ p \in Seq(S) /\ Len(p) = Len(host) + 2
      /\ \A i \in 1..Len(host) : p[i] = host[i]
      /\ p[Len(host) + 1] = ":" /\ p[Len(host) + 2] = port
  BY <1>1, WithPort, SMT
<1>3. StartsWith(str, p) <=> Len(p) <= Len(str) /\ \A i \in 1..Len(p) : str[i] = p[i]
  BY <1>2, Prefixed, SMT
<1>4. Len(host) \in Nat
  BY Indexed, Zenon
<1>5. /\ \A i \in 1..Len(host) : i \in 1..Len(p)
      /\ Len(host) + 1 \in 1..Len(p) /\ Len(host) + 2 \in 1..Len(p)
      /\ \A i \in 1..Len(p) : i \in 1..Len(host) \/ i = Len(host) + 1 \/ i = Len(host) + 2
  BY <1>2, <1>4
<1>6. (\A i \in 1..Len(p) : str[i] = p[i]) <=>
        /\ \A i \in 1..Len(host) : str[i] = host[i]
        /\ str[Len(host) + 1] = ":" /\ str[Len(host) + 2] = port
  BY <1>2, <1>5, Zenon
<1>. QED
  BY <1>1, <1>2, <1>3, <1>6, Zenon DEF SpellsHost

\* The same with the address in brackets.
LEMMA SpelledBracketed ==
    ASSUME NEW S, NEW str \in Seq(S), NEW ip \in Seq(S),
           "[" \in S, "]" \in S, ":" \in S, NEW port \in S
    PROVE  StartsWith(str, Brackets(ip) \o <<":", port>>) <=> SpellsBrackets(str, ip, port)
<1>1. PICK b : b = Brackets(ip)
  BY Zenon
<1>2. /\ b \in Seq(S) /\ Len(b) = Len(ip) + 2
      /\ b[1] = "[" /\ b[Len(ip) + 2] = "]"
      /\ \A i \in 1..Len(ip) : b[i + 1] = ip[i]
  BY <1>1, InBrackets, Zenon
<1>3. StartsWith(str, b \o <<":", port>>) <=> SpellsHost(str, b, port)
  BY <1>2, Spelled, Zenon
<1>4. Len(ip) \in Nat
  BY Indexed, Zenon
<1>5. /\ Len(b) + 1 = Len(ip) + 3 /\ Len(b) + 2 = Len(ip) + 4
      /\ 1 \in 1..Len(b) /\ Len(ip) + 2 \in 1..Len(b)
      /\ \A i \in 1..Len(ip) : i + 1 \in 1..Len(b)
      /\ \A i \in 1..Len(b) :
             \/ i = 1 \/ i = Len(ip) + 2
             \/ i - 1 \in 1..Len(ip) /\ (i - 1) + 1 = i
  BY <1>2, <1>4
<1>6. ASSUME \A i \in 1..Len(b) : str[i] = b[i]
      PROVE  /\ str[1] = "[" /\ str[Len(ip) + 2] = "]"
             /\ \A i \in 1..Len(ip) : str[i + 1] = ip[i]
  BY <1>2, <1>5, <1>6, Zenon
<1>7. ASSUME str[1] = "[", str[Len(ip) + 2] = "]", \A i \in 1..Len(ip) : str[i + 1] = ip[i],
             NEW i \in 1..Len(b)
      PROVE  str[i] = b[i]
  <2>1. CASE i = 1 \/ i = Len(ip) + 2
    BY <1>2, <1>7, <2>1, Zenon
  <2>2. CASE i - 1 \in 1..Len(ip) /\ (i - 1) + 1 = i
    <3>1. str[(i - 1) + 1] = ip[i - 1] /\ b[(i - 1) + 1] = ip[i - 1]
      BY <1>2, <1>7, <2>2, Zenon
    <3>. QED
      BY <2>2, <3>1, Zenon
  <2>. QED
    BY <1>5, <2>1, <2>2, Zenon
<1>. QED
  BY <1>1, <1>3, <1>5, <1>6, <1>7, Zenon DEF SpellsHost, SpellsBrackets

\* Every token of a text that is read or printed.
AllTokens == DOMAIN Width \cup DOMAIN Atoi

\* A text of some tokens is one of more tokens.
LEMMA OfMore ==
    ASSUME NEW S, NEW T, S \subseteq T, NEW str \in Seq(S)
    PROVE  str \in Seq(T)
OBVIOUS

\* What texts are made of.
LEMMA MadeOf ==
    /\ "[" \in AllTokens /\ "]" \in AllTokens /\ ":" \in AllTokens
    /\ \A str \in Seq(DOMAIN Width) : str \in Seq(AllTokens)
    /\ \A str \in Seq(Tokens) : str \in Seq(AllTokens)
    /\ \A ip \in DOMAIN Ip4 : ip \in Seq(DOMAIN Width)
    /\ \A ip \in DOMAIN Ip6 : ip \in Seq(DOMAIN Width)
<1>1. "[" \in Marks /\ "]" \in Marks /\ ":" \in Marks
  BY DEF Marks
<1>2. "[" \in AllTokens /\ "]" \in AllTokens /\ ":" \in AllTokens
  BY <1>1, LibraryAssumption, Zenon DEF AllTokens
<1>3. DOMAIN Width \subseteq AllTokens /\ Tokens \subseteq AllTokens
  BY LibraryAssumption, Zenon DEF AllTokens
<1>4. \A str \in Seq(DOMAIN Width) : str \in Seq(AllTokens)
  BY <1>3, OfMore, Zenon
<1>5. \A str \in Seq(Tokens) : str \in Seq(AllTokens)
  BY <1>3, OfMore, Zenon
<1>6. DOMAIN Width \ Marks \subseteq DOMAIN Width /\ DOMAIN Width \ {"[", "]"} \subseteq DOMAIN Width
  BY Zenon
<1>7. ASSUME NEW ip \in DOMAIN Ip4 PROVE ip \in Seq(DOMAIN Width)
  <2>1. ip \in Seq(DOMAIN Width \ Marks)
    BY LibraryAssumption, Zenon DEF Addresses
  <2>. QED
    BY <1>6, <2>1, OfMore, Zenon
<1>8. ASSUME NEW ip \in DOMAIN Ip6 PROVE ip \in Seq(DOMAIN Width)
  <2>1. ip \in Seq(DOMAIN Width \ {"[", "]"})
    BY LibraryAssumption, Zenon DEF Addresses
  <2>. QED
    BY <1>6, <2>1, OfMore, Zenon
<1>. QED
  BY <1>2, <1>4, <1>5, <1>7, <1>8, Zenon

\* The lemmas on reading, of the texts as they were named.
LEMMA DottedIsRead ==
    ASSUME NEW str \in Seq(AllTokens), NEW ip \in DOMAIN Ip4, DottedText(str, ip), NEW old
    PROVE  /\ endpoint_parse(str, old).ok = TRUE
           /\ endpoint_parse(str, old).endpoint =
                [family |-> "AF_INET", port |-> Atoi[str[Len(ip) + 2]],
                 ip |-> Ip4[ip], addr_len |-> 16]
<1>1. ip \in Seq(AllTokens)
  BY MadeOf, Zenon
<1>2. PICK r : r = endpoint_parse(str, old)
  BY Zenon
<1>3. r = [ok |-> TRUE,
           endpoint |-> [family |-> "AF_INET", port |-> Atoi[str[Len(ip) + 2]],
                         ip |-> Ip4[ip], addr_len |-> SockaddrLen["AF_INET"]]]
  BY <1>1, <1>2, ReadsDotted, Zenon DEF DottedText
<1>4. SockaddrLen["AF_INET"] = 16
  BY DEF SockaddrLen
<1>5. r.ok = TRUE /\ r.endpoint = [family |-> "AF_INET", port |-> Atoi[str[Len(ip) + 2]],
                                   ip |-> Ip4[ip], addr_len |-> 16]
  BY <1>3, <1>4
<1>. QED
  BY <1>2, <1>5, Zenon

\* The same of an address in brackets.
LEMMA BracketedIsRead ==
    ASSUME NEW str \in Seq(AllTokens), NEW ip \in DOMAIN Ip6, BracketedText(str, ip), NEW old
    PROVE  /\ endpoint_parse(str, old).ok = TRUE
           /\ endpoint_parse(str, old).endpoint =
                [family |-> "AF_INET6", port |-> Atoi[str[Len(ip) + 4]],
                 ip |-> Ip6[ip], addr_len |-> 28]
<1>1. ip \in Seq(AllTokens)
  BY MadeOf, Zenon
<1>2. PICK r : r = endpoint_parse(str, old)
  BY Zenon
<1>3. r = [ok |-> TRUE,
           endpoint |-> [family |-> "AF_INET6", port |-> Atoi[str[Len(ip) + 4]],
                         ip |-> Ip6[ip], addr_len |-> SockaddrLen["AF_INET6"]]]
  BY <1>1, <1>2, ReadsBracketed, Zenon DEF BracketedText
<1>4. SockaddrLen["AF_INET6"] = 28
  BY DEF SockaddrLen
<1>5. r.ok = TRUE /\ r.endpoint = [family |-> "AF_INET6", port |-> Atoi[str[Len(ip) + 4]],
                                   ip |-> Ip6[ip], addr_len |-> 28]
  BY <1>3, <1>4
<1>. QED
  BY <1>2, <1>5, Zenon

\* An accepted text is one of the two.
LEMMA AcceptedIs ==
    ASSUME NEW str \in Seq(AllTokens), NEW old, endpoint_parse(str, old).ok
    PROVE  \/ \E ip \in DOMAIN Ip4 : DottedText(str, ip)
           \/ \E ip \in DOMAIN Ip6 : BracketedText(str, ip)
BY AcceptedDotted, AcceptedBracketed, Zenon

\* What a text that starts with an address and a port says, place by place.
LEMMA SaysDotted ==
    ASSUME text \in Seq(AllTokens), NEW ip \in DOMAIN Ip4, NEW port \in DOMAIN Atoi
    PROVE  Says("AF_INET", ip, port) <=> DottedText(text, ip) /\ text[Len(ip) + 2] = port
<1>1. ip \in Seq(AllTokens) /\ port \in AllTokens /\ ":" \in AllTokens
  BY MadeOf, Zenon DEF AllTokens
<1>2. StartsWith(text, ip \o <<":", port>>) <=> SpellsHost(text, ip, port)
  BY <1>1, Spelled, Zenon
<1>3. Where(":", text) = {Len(ip) + 1} => text[Len(ip) + 1] = ":"
  BY Zenon DEF Where
<1>. QED
  BY <1>2, <1>3, Zenon DEF Says, DottedText, SpellsHost

\* The same of an address in brackets.
LEMMA SaysBracketed ==
    ASSUME text \in Seq(AllTokens), NEW ip \in DOMAIN Ip6, NEW port \in DOMAIN Atoi
    PROVE  Says("AF_INET6", <<"[">> \o ip \o <<"]">>, port) <=>
             BracketedText(text, ip) /\ text[Len(ip) + 4] = port
<1>1. /\ ip \in Seq(AllTokens) /\ port \in AllTokens
      /\ "[" \in AllTokens /\ "]" \in AllTokens /\ ":" \in AllTokens
  BY MadeOf, Zenon DEF AllTokens
<1>2. StartsWith(text, Brackets(ip) \o <<":", port>>) <=> SpellsBrackets(text, ip, port)
  BY <1>1, SpelledBracketed, Zenon
<1>3. Says("AF_INET6", Brackets(ip), port) <=>
        Atoi[port] \in Ports /\ StartsWith(text, Brackets(ip) \o <<":", port>>)
  BY Zenon DEF Says
<1>4. Says("AF_INET6", Brackets(ip), port) <=>
        BracketedText(text, ip) /\ text[Len(ip) + 4] = port
  BY <1>2, <1>3, Zenon DEF BracketedText, SpellsBrackets
<1>. QED
  BY <1>4, Zenon DEF Brackets

\* endpoint_parse accepts the endpoint texts, and no others, for every text, every
\* table of addresses and every atoi: what it accepts it returns, and what it
\* refuses leaves an address length of 0, whatever the structure held before.
THEOREM EndpointTextsAccepted == TextSpec => []EndpointTextsExact
<1>1. TokensTyped => EndpointTextsExact
  <2>1. SUFFICES ASSUME TokensTyped, kind = "endpoint" PROVE EndpointTextsExact
    BY Zenon DEF EndpointTextsExact
  <2>2. text \in Seq(AllTokens)
    BY <2>1, MadeOf, Zenon DEF TokensTyped
  <2>3. \A old \in Endpoints : Parsed.ok \/ endpoint_parse(text, old).endpoint.addr_len = 0
    BY NotAccepted, WhateverHeld, Zenon DEF Parsed
  <2>4. Parsed.ok \in BOOLEAN
    BY NotAccepted, Zenon DEF Parsed
  <2>5. PICK four : four = {ip \in DOMAIN Ip4 : \E port \in DOMAIN Atoi :
            /\ Says("AF_INET", ip, port)
            /\ Parsed.endpoint = [family |-> "AF_INET", port |-> Atoi[port],
                                  ip |-> Ip4[ip], addr_len |-> 16]}
    OBVIOUS
  <2>6. PICK six : six = {ip \in DOMAIN Ip6 : \E port \in DOMAIN Atoi :
            /\ Says("AF_INET6", <<"[">> \o ip \o <<"]">>, port)
            /\ Parsed.endpoint = [family |-> "AF_INET6", port |-> Atoi[port],
                                  ip |-> Ip6[ip], addr_len |-> 28]}
    OBVIOUS
  <2>7. ASSUME NEW ip \in DOMAIN Ip4, DottedText(text, ip) PROVE ip \in four
    <3>1. text[Len(ip) + 2] \in DOMAIN Atoi
      BY <2>7, Zenon DEF DottedText
    <3>2. Says("AF_INET", ip, text[Len(ip) + 2])
      BY <2>2, <2>7, <3>1, SaysDotted, Zenon
    <3>3. Parsed.endpoint = [family |-> "AF_INET", port |-> Atoi[text[Len(ip) + 2]],
                             ip |-> Ip4[ip], addr_len |-> 16]
      BY <2>2, <2>7, DottedIsRead, Zenon DEF Parsed
    <3>. QED
      BY <2>5, <3>1, <3>2, <3>3, Zenon
  <2>8. ASSUME NEW ip \in DOMAIN Ip6, BracketedText(text, ip) PROVE ip \in six
    <3>1. text[Len(ip) + 4] \in DOMAIN Atoi
      BY <2>8, Zenon DEF BracketedText
    <3>2. Says("AF_INET6", <<"[">> \o ip \o <<"]">>, text[Len(ip) + 4])
      BY <2>2, <2>8, <3>1, SaysBracketed, Zenon
    <3>3. Parsed.endpoint = [family |-> "AF_INET6", port |-> Atoi[text[Len(ip) + 4]],
                             ip |-> Ip6[ip], addr_len |-> 28]
      BY <2>2, <2>8, BracketedIsRead, Zenon DEF Parsed
    <3>. QED
      BY <2>6, <3>1, <3>2, <3>3, Zenon
  <2>9. ASSUME NEW ip \in four PROVE Parsed.ok = TRUE
    <3>1. ip \in DOMAIN Ip4 /\ DottedText(text, ip)
      BY <2>2, <2>5, SaysDotted, Zenon
    <3>. QED
      BY <2>2, <3>1, DottedIsRead, Zenon DEF Parsed
  <2>10. ASSUME NEW ip \in six PROVE Parsed.ok = TRUE
    <3>1. ip \in DOMAIN Ip6 /\ BracketedText(text, ip)
      BY <2>2, <2>6, SaysBracketed, Zenon
    <3>. QED
      BY <2>2, <3>1, BracketedIsRead, Zenon DEF Parsed
  <2>11. Parsed.ok => four # {} \/ six # {}
    BY <2>2, <2>7, <2>8, AcceptedIs, Zenon DEF Parsed
  <2>12. Parsed.ok = (four # {} \/ six # {})
    BY <2>4, <2>9, <2>10, <2>11, Zenon
  <2>. QED
    BY <2>3, <2>5, <2>6, <2>12, Zenon DEF EndpointTextsExact
<1>. QED
  BY <1>1, TokensKept, PTL

\* A text of two tokens is one of each.
LEMMA OneAndOne ==
    ASSUME NEW x, NEW y
    PROVE  <<x>> \o <<y>> = <<x, y>>
<1>1. PICK S : S = {x, y}
  BY Zenon
<1>2. x \in S /\ y \in S
  BY <1>1, Zenon
<1>3. PICK a : a = <<x>>
  BY Zenon
<1>4. PICK b : b = <<y>>
  BY Zenon
<1>5. a \in Seq(S) /\ Len(a) = 1 /\ a[1] = x /\ b \in Seq(S) /\ Len(b) = 1 /\ b[1] = y
  BY <1>2, <1>3, <1>4
<1>6. PICK r : r = a \o b
  BY Zenon
<1>7. a \in Seq(S) /\ b \in Seq(S)
  BY <1>5, Zenon
<1>8. /\ r \in Seq(S) /\ Len(r) = Len(a) + Len(b)
      /\ \A i \in 1..Len(a) : r[i] = a[i]
      /\ \A i \in 1..Len(b) : r[Len(a) + i] = b[i]
  BY <1>6, <1>7, JoinedAs, SMT
<1>9. Len(r) = 2 /\ r[1] = x /\ r[2] = y
  BY <1>5, <1>8
<1>10. PICK p : p = <<x, y>>
  BY Zenon
<1>11. p \in Seq(S) /\ Len(p) = 2 /\ p[1] = x /\ p[2] = y
  BY <1>2, <1>10
<1>12. r = p
  <2>1. \A i \in 1..2 : i = 1 \/ i = 2
    OBVIOUS
  <2>2. Len(r) = Len(p) /\ \A i \in 1..Len(r) : r[i] = p[i]
    BY <1>9, <1>11, <2>1, Zenon
  <2>. QED
    BY <1>8, <1>11, <2>2, SameText, Zenon
<1>. QED
  BY <1>3, <1>4, <1>6, <1>10, <1>12, Zenon

\* A port with the colon before it.
LEMMA PortWidth ==
    ASSUME NEW port \in DOMAIN Decimal
    PROVE  /\ <<":", Decimal[port]>> \in Seq(DOMAIN Width)
           /\ Characters(<<":", Decimal[port]>>) \in 0..6
<1>1. PICK d : d = Decimal[port]
  BY Zenon
<1>2. d \in DOMAIN Width /\ Width[d] <= 5
  BY <1>1, LibraryAssumption, Zenon
<1>3. ":" \in Marks
  BY DEF Marks
<1>4. ":" \in DOMAIN Width /\ Width[":"] = 1 /\ Width[d] \in Nat
  BY <1>2, <1>3, LibraryAssumption, Zenon
<1>5. PICK S : S = DOMAIN Width
  BY Zenon
<1>6. d \in S /\ ":" \in S
  BY <1>2, <1>4, <1>5, Zenon
<1>7. <<":">> \in Seq(S) /\ <<d>> \in Seq(S) /\ <<":", d>> \in Seq(S)
  BY <1>6
<1>8. <<":">> \o <<d>> = <<":", d>>
  BY OneAndOne, Zenon
<1>9. Characters(<<":">> \o <<d>>) = Characters(<<":">>) + Characters(<<d>>)
  BY <1>5, <1>7, CharactersJoined, Zenon
<1>10. Characters(<<":">>) = Width[":"] /\ Characters(<<d>>) = Width[d]
  BY <1>2, <1>4, CharactersOne, Zenon
<1>11. PICK w : w = Characters(<<":", d>>)
  BY Zenon
<1>12. w = Width[":"] + Width[d]
  BY <1>8, <1>9, <1>10, <1>11, Zenon
<1>13. w \in 0..6
  BY <1>2, <1>4, <1>12
<1>. QED
  BY <1>1, <1>5, <1>7, <1>11, <1>13, Zenon

\* An address with its port fits the buffers it is printed into.
LEMMA PrintedFits ==
    ASSUME NEW host \in Seq(DOMAIN Width), Characters(host) \in 0..47,
           NEW port \in DOMAIN Decimal
    PROVE  ~(Characters(host \o <<":", Decimal[port]>>) >= LOG_BUF)
<1>1. PICK p : p = <<":", Decimal[port]>>
  BY Zenon
<1>2. p \in Seq(DOMAIN Width) /\ Characters(p) \in 0..6
  BY <1>1, PortWidth, Zenon
<1>3. Characters(host \o p) = Characters(host) + Characters(p)
  BY <1>2, CharactersJoined, Zenon
<1>4. PICK w : w = Characters(host \o p)
  BY Zenon
<1>5. w \in Nat /\ w < 64
  <2>1. PICK m \in 0..47 : m = Characters(host)
    BY Zenon
  <2>2. PICK n \in 0..6 : n = Characters(p)
    BY <1>2, Zenon
  <2>3. w = m + n
    BY <1>3, <1>4, <2>1, <2>2, Zenon
  <2>. QED
    BY <2>3
<1>6. ~(w >= LOG_BUF)
  BY <1>5 DEF LOG_BUF
<1>. QED
  BY <1>1, <1>4, <1>6, Zenon

\* The brackets are two characters.
LEMMA BracketsFit ==
    ASSUME NEW host \in Seq(DOMAIN Width), Characters(host) \in 0..45
    PROVE  Brackets(host) \in Seq(DOMAIN Width) /\ Characters(Brackets(host)) \in 0..47
<1>1. "[" \in Marks /\ "]" \in Marks
  BY DEF Marks
<1>2. /\ "[" \in DOMAIN Width /\ Width["["] = 1
      /\ "]" \in DOMAIN Width /\ Width["]"] = 1
  BY <1>1, LibraryAssumption, Zenon
<1>3. PICK S : S = DOMAIN Width
  BY Zenon
<1>4. "[" \in S /\ "]" \in S
  BY <1>2, <1>3, Zenon
<1>5. <<"[">> \in Seq(S) /\ <<"]">> \in Seq(S)
  BY <1>4
<1>6. Characters(<<"[">>) = 1 /\ Characters(<<"]">>) = 1
  BY <1>2, CharactersOne, Zenon
<1>7. PICK open \in Seq(DOMAIN Width) : open = <<"[">>
  BY <1>3, <1>5, Zenon
<1>8. PICK close \in Seq(DOMAIN Width) : close = <<"]">>
  BY <1>3, <1>5, Zenon
<1>9. PICK h : h = open \o host
  BY Zenon
<1>10. h \in Seq(DOMAIN Width)
  BY <1>9, JoinedAs, SMT
<1>11. Characters(h) = Characters(open) + Characters(host)
  BY <1>9, CharactersJoined, Zenon
<1>12. PICK b : b = h \o close
  BY Zenon
<1>13. b \in Seq(DOMAIN Width)
  BY <1>10, <1>12, JoinedAs, SMT
<1>14. Characters(b) = Characters(h) + Characters(close)
  BY <1>10, <1>12, CharactersJoined, Zenon
<1>15. Characters(open) = 1 /\ Characters(close) = 1
  BY <1>6, <1>7, <1>8, Zenon
<1>16. Characters(b) \in 0..47
  <2>1. PICK n \in 0..45 : n = Characters(host)
    BY Zenon
  <2>2. Characters(b) = (1 + n) + 1
    BY <1>11, <1>14, <1>15, <2>1, Zenon
  <2>3. \A m \in 0..45 : (1 + m) + 1 \in 0..47
    OBVIOUS
  <2>. QED
    BY <2>1, <2>2, <2>3, Zenon
<1>17. Brackets(host) = b
  BY <1>7, <1>8, <1>9, <1>12, Zenon DEF Brackets
<1>. QED
  BY <1>13, <1>16, <1>17, Zenon

\* Texts in brackets are the same when what is in them is.
LEMMA BracketsApart ==
    ASSUME NEW S, NEW a \in Seq(S), NEW b \in Seq(S), "[" \in S, "]" \in S,
           Brackets(a) = Brackets(b)
    PROVE  a = b
<1>1. PICK p : p = Brackets(a)
  BY Zenon
<1>2. Len(p) = Len(a) + 2 /\ \A i \in 1..Len(a) : p[i + 1] = a[i]
  BY <1>1, InBrackets, Zenon
<1>3. Len(p) = Len(b) + 2 /\ \A i \in 1..Len(b) : p[i + 1] = b[i]
  <2>1. p = Brackets(b)
    BY <1>1, Zenon
  <2>2. PICK q : q = Brackets(b)
    BY Zenon
  <2>3. Len(q) = Len(b) + 2 /\ \A i \in 1..Len(b) : q[i + 1] = b[i]
    BY <2>2, InBrackets, SMT
  <2>. QED
    BY <2>1, <2>2, <2>3, Zenon
<1>4. Len(a) \in Nat /\ Len(b) \in Nat
  BY Indexed, Zenon
<1>5. Len(a) = Len(b)
  BY <1>2, <1>3, <1>4
<1>6. \A i \in 1..Len(a) : a[i] = b[i]
  BY <1>2, <1>3, <1>5, Zenon
<1>. QED
  BY <1>5, <1>6, SameText, Zenon

\* A text that fits either address buffer is short.
LEMMA ShortOf ==
    ASSUME NEW n \in Nat, NEW size \in 1..46, n < size
    PROVE  n \in 0..45 /\ n \in 0..47
OBVIOUS

\* What endpoint_to_string prints for an IPv4 endpoint.
LEMMA PrintsDotted ==
    ASSUME NEW e \in EndpointsOf("AF_INET", Ip4)
    PROVE  /\ e.family = "AF_INET" /\ e.port \in DOMAIN Decimal
           /\ Shown[e.ip] \in DOMAIN Ip4 /\ Ip4[Shown[e.ip]] = e.ip
           /\ endpoint_to_string(e, LOG_BUF) = Shown[e.ip] \o <<":", Decimal[e.port]>>
<1>1. e.family = "AF_INET" /\ e.port \in DOMAIN Decimal
  BY DEF EndpointsOf
<1>2. \E ip \in DOMAIN Ip4 : e.ip = Ip4[ip]
  BY DEF EndpointsOf
<1>3. PICK host : host = Shown[e.ip]
  BY Zenon
<1>4. host \in DOMAIN Ip4 /\ Ip4[host] = e.ip
  BY <1>2, <1>3, LibraryAssumption, Zenon DEF Addresses
<1>5. host \in Seq(DOMAIN Width) /\ Characters(host) \in 0..47
  <2>1. host \in Seq(DOMAIN Width) /\ Characters(host) < INET_ADDRSTRLEN
    BY <1>4, MadeOf, LibraryAssumption, Zenon DEF Addresses
  <2>2. Characters(host) \in Nat
    BY <2>1, PlacesFinite, Zenon
  <2>. QED
    BY <2>1, <2>2, ShortOf, TextsAssumption, Zenon
<1>6. PICK p : p = host \o <<":", Decimal[e.port]>>
  BY Zenon
<1>7. ~(Characters(p) >= LOG_BUF)
  BY <1>1, <1>5, <1>6, PrintedFits, Zenon
<1>8. endpoint_to_string(e, LOG_BUF) = p
  BY <1>1, <1>3, <1>6, <1>7, Zenon DEF endpoint_to_string
<1>. QED
  BY <1>1, <1>3, <1>4, <1>6, <1>8, Zenon

\* The same for an IPv6 endpoint.
LEMMA PrintsBracketed ==
    ASSUME NEW e \in EndpointsOf("AF_INET6", Ip6)
    PROVE  /\ e.family = "AF_INET6" /\ e.port \in DOMAIN Decimal
           /\ Shown[e.ip] \in DOMAIN Ip6 /\ Ip6[Shown[e.ip]] = e.ip
           /\ endpoint_to_string(e, LOG_BUF) =
                Brackets(Shown[e.ip]) \o <<":", Decimal[e.port]>>
<1>1. e.family = "AF_INET6" /\ e.port \in DOMAIN Decimal
  BY DEF EndpointsOf
<1>2. \E ip \in DOMAIN Ip6 : e.ip = Ip6[ip]
  BY DEF EndpointsOf
<1>3. PICK host : host = Shown[e.ip]
  BY Zenon
<1>4. host \in DOMAIN Ip6 /\ Ip6[host] = e.ip
  BY <1>2, <1>3, LibraryAssumption, Zenon DEF Addresses
<1>5. host \in Seq(DOMAIN Width) /\ Characters(host) \in 0..45
  <2>1. host \in Seq(DOMAIN Width) /\ Characters(host) < INET6_ADDRSTRLEN
    BY <1>4, MadeOf, LibraryAssumption, Zenon DEF Addresses
  <2>2. Characters(host) \in Nat
    BY <2>1, PlacesFinite, Zenon
  <2>. QED
    BY <2>1, <2>2, ShortOf, TextsAssumption, Zenon
<1>6. PICK b : b = Brackets(host)
  BY Zenon
<1>7. b \in Seq(DOMAIN Width) /\ Characters(b) \in 0..47
  BY <1>5, <1>6, BracketsFit, Zenon
<1>8. PICK p : p = b \o <<":", Decimal[e.port]>>
  BY Zenon
<1>9. ~(Characters(p) >= LOG_BUF)
  BY <1>1, <1>7, <1>8, PrintedFits, Zenon
<1>10. "AF_INET6" # "AF_INET"
  OBVIOUS
<1>11. endpoint_to_string(e, LOG_BUF) = p
  BY <1>1, <1>3, <1>6, <1>8, <1>9, <1>10, Zenon DEF endpoint_to_string
<1>. QED
  BY <1>1, <1>3, <1>4, <1>6, <1>8, <1>11, Zenon

\* A cleared structure prints as nothing.
LEMMA PrintsNothing == endpoint_to_string(ZeroEndpoint, LOG_BUF) = <<>>
<1>1. PICK e : e = ZeroEndpoint
  BY Zenon
<1>2. e.family # "AF_INET" /\ e.family # "AF_INET6"
  BY <1>1 DEF ZeroEndpoint
<1>. QED
  BY <1>1, <1>2 DEF endpoint_to_string

\* An address and a port, printed.
Ends(host, port) == host \o <<":", Decimal[port]>>

\* The printed text of an IPv4 endpoint, place by place.
LEMMA DottedIsPrinted ==
    ASSUME NEW ip \in DOMAIN Ip4, NEW port \in DOMAIN Decimal, port \in Ports,
           NEW p, p = Ends(ip, port)
    PROVE  /\ p \in Seq(AllTokens) /\ p # <<>> /\ p[1] # "["
           /\ DottedText(p, ip) /\ Atoi[p[Len(ip) + 2]] = port
<1>1. PICK d : d = Decimal[port]
  BY Zenon
<1>2. d \in DOMAIN Atoi /\ Atoi[d] = port
  BY <1>1, LibraryAssumption, Zenon
<1>3. /\ ip \in Seq(AllTokens) /\ d \in AllTokens /\ ":" \in AllTokens
  BY <1>2, MadeOf, Zenon DEF AllTokens
<1>4. /\ p \in Seq(AllTokens) /\ Len(p) = Len(ip) + 2
      /\ \A i \in 1..Len(ip) : p[i] = ip[i]
      /\ p[Len(ip) + 1] = ":" /\ p[Len(ip) + 2] = d
  <2>1. p = ip \o <<":", d>>
    BY <1>1, Zenon DEF Ends
  <2>. QED
    BY <1>3, <2>1, WithPort, SMT
<1>5. ip \in Seq(DOMAIN Width \ Marks) /\ ip # <<>>
  BY LibraryAssumption, Zenon DEF Addresses
<1>6. Len(ip) \in Nat /\ Len(ip) # 0 /\ \A i \in 1..Len(ip) : ip[i] \in DOMAIN Width \ Marks
  <2>1. Len(ip) \in Nat /\ \A i \in 1..Len(ip) : ip[i] \in DOMAIN Width \ Marks
    BY <1>5, Indexed, Zenon
  <2>2. Len(ip) # 0
    BY <1>5, EmptyText, Zenon
  <2>. QED
    BY <2>1, <2>2, Zenon
<1>7. "[" \in Marks /\ ":" \in Marks
  BY DEF Marks
<1>8. 1 \in 1..Len(ip)
  BY <1>6
<1>9. p[1] # "["
  BY <1>4, <1>6, <1>7, <1>8, Zenon
<1>10. d # ":"
  <2>1. ":" \notin DOMAIN Atoi
    BY <1>7, LibraryAssumption, Zenon
  <2>. QED
    BY <1>2, <2>1, Zenon
<1>11. /\ \A i \in 1..Len(p) : i \in 1..Len(ip) \/ i = Len(ip) + 1 \/ i = Len(ip) + 2
       /\ Len(ip) + 1 \in 1..Len(p) /\ Len(p) # 0 /\ Len(ip) + 2 <= Len(p)
  BY <1>4, <1>6
<1>12. \A i \in 1..Len(p) : p[i] = ":" <=> i = Len(ip) + 1
  BY <1>4, <1>6, <1>7, <1>10, <1>11, Zenon
<1>13. DOMAIN p = 1..Len(p) /\ p # <<>>
  BY <1>4, <1>11, Indexed, EmptyText, Zenon
<1>14. Where(":", p) = {Len(ip) + 1}
  BY <1>11, <1>12, <1>13, Zenon DEF Where
<1>15. DottedText(p, ip)
  BY <1>2, <1>4, <1>11, <1>14, Zenon DEF DottedText
<1>. QED
  BY <1>2, <1>4, <1>9, <1>13, <1>15, Zenon

\* A text that starts with an address in brackets and a port.
LEMMA BracketedStarts ==
    ASSUME NEW str \in Seq(AllTokens), NEW ip \in Seq(AllTokens),
           NEW d \in DOMAIN Atoi, Atoi[d] \in Ports,
           StartsWith(str, Brackets(ip) \o <<":", d>>)
    PROVE  BracketedText(str, ip) /\ str[1] = "[" /\ str[Len(ip) + 4] = d
<1>1. d \in AllTokens /\ ":" \in AllTokens /\ "[" \in AllTokens /\ "]" \in AllTokens
  BY MadeOf, Zenon DEF AllTokens
<1>2. SpellsBrackets(str, ip, d)
  BY <1>1, SpelledBracketed, Zenon
<1>. QED
  BY <1>2, Zenon DEF BracketedText, SpellsBrackets

\* The same of an IPv6 endpoint.
LEMMA BracketedIsPrinted ==
    ASSUME NEW ip \in DOMAIN Ip6, NEW port \in DOMAIN Decimal, port \in Ports,
           NEW p, p = Ends(Brackets(ip), port)
    PROVE  /\ p \in Seq(AllTokens) /\ p # <<>> /\ p[1] = "["
           /\ BracketedText(p, ip) /\ Atoi[p[Len(ip) + 4]] = port
<1>1. PICK d : d = Decimal[port]
  BY Zenon
<1>2. d \in DOMAIN Atoi /\ Atoi[d] = port
  BY <1>1, LibraryAssumption, Zenon
<1>3. /\ ip \in Seq(AllTokens) /\ d \in AllTokens
      /\ ":" \in AllTokens /\ "[" \in AllTokens /\ "]" \in AllTokens
  BY <1>2, MadeOf, Zenon DEF AllTokens
<1>4. PICK b : b = Brackets(ip)
  BY Zenon
<1>5. b \in Seq(AllTokens)
  BY <1>3, <1>4, InBrackets, Zenon
<1>6. p = b \o <<":", d>>
  BY <1>1, <1>4, Zenon DEF Ends
<1>7. p \in Seq(AllTokens)
  <2>1. d \in AllTokens /\ ":" \in AllTokens
    BY <1>3, Zenon
  <2>2. b \o <<":", d>> \in Seq(AllTokens)
    BY <1>5, <2>1, WithPort, Zenon
  <2>. QED
    BY <1>6, <2>2, Zenon
<1>8. StartsWith(p, b \o <<":", d>>)
  <2>1. Len(p) <= Len(p) /\ \A i \in 1..Len(p) : p[i] = p[i]
    BY <1>7
  <2>. QED
    BY <1>6, <1>7, <2>1, Prefixed, Zenon
<1>9. StartsWith(p, Brackets(ip) \o <<":", d>>)
  BY <1>4, <1>8, Zenon
<1>10. BracketedText(p, ip) /\ p[1] = "[" /\ p[Len(ip) + 4] = d
  BY <1>2, <1>3, <1>7, <1>9, BracketedStarts, Zenon
<1>11. p # <<>>
  <2>1. Len(ip) \in Nat /\ Len(p) \in Nat
    BY <1>3, <1>7, Indexed, Zenon
  <2>2. Len(ip) + 4 <= Len(p)
    BY <1>10, Zenon DEF BracketedText
  <2>3. Len(p) # 0
    BY <2>1, <2>2
  <2>. QED
    BY <1>7, <2>3, EmptyText, Zenon
<1>. QED
  BY <1>2, <1>7, <1>10, <1>11, Zenon

\* The printed text of an IPv4 endpoint does not start with a bracket.
LEMMA FirstDotted ==
    ASSUME NEW ip \in DOMAIN Ip4, NEW d \in AllTokens
    PROVE  (ip \o <<":", d>>)[1] # "["
<1>1. ip \in Seq(AllTokens) /\ ":" \in AllTokens
  BY MadeOf, Zenon
<1>2. PICK p : p = ip \o <<":", d>>
  BY Zenon
<1>3. \A i \in 1..Len(ip) : p[i] = ip[i]
  BY <1>1, <1>2, WithPort, SMT
<1>4. ip \in Seq(DOMAIN Width \ Marks) /\ ip # <<>>
  BY LibraryAssumption, Zenon DEF Addresses
<1>5. Len(ip) \in Nat /\ \A i \in 1..Len(ip) : ip[i] \in DOMAIN Width \ Marks
  BY <1>4, Indexed, Zenon
<1>6. Len(ip) # 0
  BY <1>4, EmptyText, Zenon
<1>7. 1 \in 1..Len(ip) /\ "[" \in Marks
  BY <1>5, <1>6 DEF Marks
<1>. QED
  BY <1>2, <1>3, <1>5, <1>7, Zenon

\* That of an IPv6 endpoint does.
LEMMA FirstBracketed ==
    ASSUME NEW ip \in DOMAIN Ip6, NEW d \in AllTokens
    PROVE  (Brackets(ip) \o <<":", d>>)[1] = "["
<1>1. /\ ip \in Seq(AllTokens)
      /\ "[" \in AllTokens /\ "]" \in AllTokens /\ ":" \in AllTokens
  BY MadeOf, Zenon
<1>2. PICK b : b = Brackets(ip)
  BY Zenon
<1>3. b \in Seq(AllTokens) /\ Len(b) = Len(ip) + 2 /\ b[1] = "["
  BY <1>1, <1>2, InBrackets, Zenon
<1>4. Len(ip) \in Nat
  BY <1>1, Indexed, Zenon
<1>5. 1 \in 1..Len(b)
  BY <1>3, <1>4
<1>6. b \in Seq(AllTokens) /\ ":" \in AllTokens
  BY <1>1, <1>3, Zenon
<1>7. \A i \in 1..Len(b) : (b \o <<":", d>>)[i] = b[i]
  BY <1>6, WithPort, SMT
<1>. QED
  BY <1>2, <1>3, <1>5, <1>7, Zenon

\* A port is told by what it is printed as.
LEMMA PortsPrinted ==
    ASSUME NEW port \in DOMAIN Decimal
    PROVE  Decimal[port] \in AllTokens /\ Atoi[Decimal[port]] = port
BY LibraryAssumption, Zenon DEF AllTokens

\* The places of this text.
LEMMA EndsPlaces ==
    ASSUME NEW a \in Seq(AllTokens), NEW p \in DOMAIN Decimal
    PROVE  /\ Len(Ends(a, p)) = Len(a) + 2 /\ Ends(a, p)[Len(a) + 2] = Decimal[p]
           /\ \A i \in 1..Len(a) : Ends(a, p)[i] = a[i]
<1>1. PICK x \in AllTokens : x = Decimal[p]
  BY PortsPrinted, Zenon
<1>2. PICK c \in AllTokens : c = ":"
  BY MadeOf, Zenon
<1>3. /\ Len(a \o <<c, x>>) = Len(a) + 2 /\ (a \o <<c, x>>)[Len(a) + 2] = x
      /\ \A i \in 1..Len(a) : (a \o <<c, x>>)[i] = a[i]
  BY <1>1, <1>2, WithPort, SMT
<1>4. Ends(a, p) = a \o <<c, x>>
  BY <1>1, <1>2, Zenon DEF Ends
<1>. QED
  BY <1>1, <1>3, <1>4, Zenon

\* Two such texts are the same when the addresses and the ports are.
LEMMA EndsApart ==
    ASSUME NEW a \in Seq(AllTokens), NEW b \in Seq(AllTokens),
           NEW p \in DOMAIN Decimal, NEW q \in DOMAIN Decimal, Ends(a, p) = Ends(b, q)
    PROVE  a = b /\ p = q
<1>1. /\ Len(Ends(a, p)) = Len(a) + 2 /\ Ends(a, p)[Len(a) + 2] = Decimal[p]
      /\ \A i \in 1..Len(a) : Ends(a, p)[i] = a[i]
  BY EndsPlaces, Zenon
<1>2. /\ Len(Ends(b, q)) = Len(b) + 2 /\ Ends(b, q)[Len(b) + 2] = Decimal[q]
      /\ \A i \in 1..Len(b) : Ends(b, q)[i] = b[i]
  BY EndsPlaces, Zenon
<1>3. Len(a) \in Nat /\ Len(b) \in Nat
  BY Indexed, Zenon
<1>4. Len(a) = Len(b)
  BY <1>1, <1>2, <1>3
<1>5. \A i \in 1..Len(a) : a[i] = b[i]
  BY <1>1, <1>2, <1>4, Zenon
<1>6. a = b
  BY <1>4, <1>5, SameText, Zenon
<1>7. Decimal[p] = Decimal[q]
  BY <1>1, <1>2, <1>4, Zenon
<1>. QED
  BY <1>6, <1>7, PortsPrinted, Zenon

\* IPv4 endpoints are equal when their texts are.
LEMMA DottedApart ==
    ASSUME NEW e \in EndpointsOf("AF_INET", Ip4), NEW o \in EndpointsOf("AF_INET", Ip4)
    PROVE  endpoint_equal(e, o) <=>
             endpoint_to_string(e, LOG_BUF) = endpoint_to_string(o, LOG_BUF)
<1>1. /\ e.family = "AF_INET" /\ e.port \in DOMAIN Decimal
      /\ Shown[e.ip] \in DOMAIN Ip4 /\ Ip4[Shown[e.ip]] = e.ip
      /\ endpoint_to_string(e, LOG_BUF) = Shown[e.ip] \o <<":", Decimal[e.port]>>
  BY PrintsDotted, Zenon
<1>2. /\ o.family = "AF_INET" /\ o.port \in DOMAIN Decimal
      /\ Shown[o.ip] \in DOMAIN Ip4 /\ Ip4[Shown[o.ip]] = o.ip
      /\ endpoint_to_string(o, LOG_BUF) = Shown[o.ip] \o <<":", Decimal[o.port]>>
  BY PrintsDotted, Zenon
<1>3. "AF_INET" # "AF_UNSPEC"
  OBVIOUS
<1>4. ASSUME Ends(Shown[e.ip], e.port) = Ends(Shown[o.ip], o.port)
      PROVE  e.ip = o.ip /\ e.port = o.port
  <2>1. Shown[e.ip] \in Seq(AllTokens) /\ Shown[o.ip] \in Seq(AllTokens)
    BY <1>1, <1>2, MadeOf, Zenon
  <2>2. e.port \in DOMAIN Decimal /\ o.port \in DOMAIN Decimal
    BY <1>1, <1>2, Zenon
  <2>3. Shown[e.ip] = Shown[o.ip] /\ e.port = o.port
    BY <1>4, <2>1, <2>2, EndsApart, SMT
  <2>. QED
    BY <1>1, <1>2, <2>3, Zenon
<1>5. endpoint_equal(e, o) <=> e.port = o.port /\ e.ip = o.ip
  BY <1>1, <1>2, <1>3, Zenon DEF endpoint_equal
<1>. QED
  BY <1>1, <1>2, <1>4, <1>5, Zenon DEF Ends

\* IPv6 endpoints are equal when their texts are.
LEMMA BracketedApart ==
    ASSUME NEW e \in EndpointsOf("AF_INET6", Ip6), NEW o \in EndpointsOf("AF_INET6", Ip6)
    PROVE  endpoint_equal(e, o) <=>
             endpoint_to_string(e, LOG_BUF) = endpoint_to_string(o, LOG_BUF)
<1>1. /\ e.family = "AF_INET6" /\ e.port \in DOMAIN Decimal
      /\ Shown[e.ip] \in DOMAIN Ip6 /\ Ip6[Shown[e.ip]] = e.ip
      /\ endpoint_to_string(e, LOG_BUF) = Brackets(Shown[e.ip]) \o <<":", Decimal[e.port]>>
  BY PrintsBracketed, Zenon
<1>2. /\ o.family = "AF_INET6" /\ o.port \in DOMAIN Decimal
      /\ Shown[o.ip] \in DOMAIN Ip6 /\ Ip6[Shown[o.ip]] = o.ip
      /\ endpoint_to_string(o, LOG_BUF) = Brackets(Shown[o.ip]) \o <<":", Decimal[o.port]>>
  BY PrintsBracketed, Zenon
<1>3. "AF_INET6" # "AF_UNSPEC"
  OBVIOUS
<1>4. ASSUME Ends(Brackets(Shown[e.ip]), e.port) = Ends(Brackets(Shown[o.ip]), o.port)
      PROVE  e.ip = o.ip /\ e.port = o.port
  <2>1. /\ Shown[e.ip] \in Seq(AllTokens) /\ Shown[o.ip] \in Seq(AllTokens)
        /\ "[" \in AllTokens /\ "]" \in AllTokens
    BY <1>1, <1>2, MadeOf, Zenon
  <2>2. Brackets(Shown[e.ip]) \in Seq(AllTokens) /\ Brackets(Shown[o.ip]) \in Seq(AllTokens)
    BY <2>1, InBrackets, Zenon
  <2>3. e.port \in DOMAIN Decimal /\ o.port \in DOMAIN Decimal
    BY <1>1, <1>2, Zenon
  <2>4. Brackets(Shown[e.ip]) = Brackets(Shown[o.ip]) /\ e.port = o.port
    BY <1>4, <2>2, <2>3, EndsApart, SMT
  <2>5. Shown[e.ip] = Shown[o.ip]
    BY <2>1, <2>4, BracketsApart, Zenon
  <2>. QED
    BY <1>1, <1>2, <2>4, <2>5, Zenon
<1>5. endpoint_equal(e, o) <=> e.port = o.port /\ e.ip = o.ip
  BY <1>1, <1>2, <1>3, Zenon DEF endpoint_equal
<1>. QED
  BY <1>1, <1>2, <1>4, <1>5, Zenon DEF Ends

\* An IPv4 and an IPv6 endpoint differ, and so do their texts.
LEMMA FamiliesApart ==
    ASSUME NEW e \in EndpointsOf("AF_INET", Ip4), NEW o \in EndpointsOf("AF_INET6", Ip6)
    PROVE  /\ ~endpoint_equal(e, o) /\ ~endpoint_equal(o, e)
           /\ endpoint_to_string(e, LOG_BUF) # endpoint_to_string(o, LOG_BUF)
<1>1. /\ e.family = "AF_INET" /\ e.port \in DOMAIN Decimal /\ Shown[e.ip] \in DOMAIN Ip4
      /\ endpoint_to_string(e, LOG_BUF) = Shown[e.ip] \o <<":", Decimal[e.port]>>
  BY PrintsDotted, Zenon
<1>2. /\ o.family = "AF_INET6" /\ o.port \in DOMAIN Decimal /\ Shown[o.ip] \in DOMAIN Ip6
      /\ endpoint_to_string(o, LOG_BUF) = Brackets(Shown[o.ip]) \o <<":", Decimal[o.port]>>
  BY PrintsBracketed, Zenon
<1>3. Decimal[e.port] \in AllTokens /\ Decimal[o.port] \in AllTokens
  BY <1>1, <1>2, PortsPrinted, Zenon
<1>4. endpoint_to_string(e, LOG_BUF)[1] # "["
  BY <1>1, <1>3, FirstDotted, Zenon
<1>5. endpoint_to_string(o, LOG_BUF)[1] = "["
  BY <1>2, <1>3, FirstBracketed, Zenon
<1>6. "AF_INET" # "AF_INET6"
  OBVIOUS
<1>. QED
  BY <1>1, <1>2, <1>4, <1>5, <1>6, Zenon DEF endpoint_equal

\* An accepted IPv4 endpoint is printed, read back and told from all others.
LEMMA DottedBack ==
    ASSUME NEW str \in Seq(AllTokens), NEW ip \in DOMAIN Ip4, DottedText(str, ip), NEW old
    PROVE  LET e == endpoint_parse(str, old).endpoint
           IN  /\ e \in EndpointsOf("AF_INET", Ip4)
               /\ endpoint_to_string(e, LOG_BUF) # <<>>
               /\ endpoint_parse(endpoint_to_string(e, LOG_BUF), ZeroEndpoint).endpoint = e
<1>1. PICK e : e = endpoint_parse(str, old).endpoint
  BY Zenon
<1>2. PICK port : port = Atoi[str[Len(ip) + 2]]
  BY Zenon
<1>3. port \in Ports /\ port \in DOMAIN Decimal
  BY <1>2, LibraryAssumption, Zenon DEF DottedText
<1>4. e = [family |-> "AF_INET", port |-> port, ip |-> Ip4[ip], addr_len |-> 16]
  BY <1>1, <1>2, DottedIsRead, Zenon
<1>5. SockaddrLen["AF_INET"] = 16
  BY DEF SockaddrLen
<1>6. e \in EndpointsOf("AF_INET", Ip4)
  BY <1>3, <1>4, <1>5 DEF EndpointsOf
<1>7. e.port = port
  BY <1>4
<1>8. PICK host : host = Shown[e.ip]
  BY Zenon
<1>9. PICK p : p = endpoint_to_string(e, LOG_BUF)
  BY Zenon
<1>10. host \in DOMAIN Ip4 /\ Ip4[host] = e.ip /\ p = Ends(host, port)
  BY <1>6, <1>7, <1>8, <1>9, PrintsDotted, Zenon DEF Ends
<1>11. /\ p \in Seq(AllTokens) /\ p # <<>>
       /\ DottedText(p, host) /\ Atoi[p[Len(host) + 2]] = port
  BY <1>3, <1>10, DottedIsPrinted, SMT
<1>12. endpoint_parse(p, ZeroEndpoint).endpoint =
         [family |-> "AF_INET", port |-> Atoi[p[Len(host) + 2]],
          ip |-> Ip4[host], addr_len |-> 16]
  BY <1>10, <1>11, DottedIsRead, ZenonT(60)
<1>13. e.ip = Ip4[ip]
  BY <1>4
<1>14. endpoint_parse(p, ZeroEndpoint).endpoint = e
  BY <1>4, <1>10, <1>11, <1>12, <1>13, Zenon
<1>. QED
  BY <1>1, <1>6, <1>9, <1>11, <1>14, Zenon

\* The same of an IPv6 endpoint.
LEMMA BracketedBack ==
    ASSUME NEW str \in Seq(AllTokens), NEW ip \in DOMAIN Ip6, BracketedText(str, ip), NEW old
    PROVE  LET e == endpoint_parse(str, old).endpoint
           IN  /\ e \in EndpointsOf("AF_INET6", Ip6)
               /\ endpoint_to_string(e, LOG_BUF) # <<>>
               /\ endpoint_parse(endpoint_to_string(e, LOG_BUF), ZeroEndpoint).endpoint = e
<1>1. PICK e : e = endpoint_parse(str, old).endpoint
  BY Zenon
<1>2. PICK port : port = Atoi[str[Len(ip) + 4]]
  BY Zenon
<1>3. port \in Ports /\ port \in DOMAIN Decimal
  BY <1>2, LibraryAssumption, Zenon DEF BracketedText
<1>4. e = [family |-> "AF_INET6", port |-> port, ip |-> Ip6[ip], addr_len |-> 28]
  BY <1>1, <1>2, BracketedIsRead, Zenon
<1>5. SockaddrLen["AF_INET6"] = 28
  BY DEF SockaddrLen
<1>6. e \in EndpointsOf("AF_INET6", Ip6)
  BY <1>3, <1>4, <1>5 DEF EndpointsOf
<1>7. e.port = port
  BY <1>4
<1>8. PICK host : host = Shown[e.ip]
  BY Zenon
<1>9. PICK p : p = endpoint_to_string(e, LOG_BUF)
  BY Zenon
<1>10. host \in DOMAIN Ip6 /\ Ip6[host] = e.ip /\ p = Ends(Brackets(host), port)
  BY <1>6, <1>7, <1>8, <1>9, PrintsBracketed, Zenon DEF Ends
<1>11. /\ p \in Seq(AllTokens) /\ p # <<>>
       /\ BracketedText(p, host) /\ Atoi[p[Len(host) + 4]] = port
  BY <1>3, <1>10, BracketedIsPrinted, SMT
<1>12. endpoint_parse(p, ZeroEndpoint).endpoint =
         [family |-> "AF_INET6", port |-> Atoi[p[Len(host) + 4]],
          ip |-> Ip6[host], addr_len |-> 28]
  BY <1>10, <1>11, BracketedIsRead, ZenonT(60)
<1>13. e.ip = Ip6[ip]
  BY <1>4
<1>14. endpoint_parse(p, ZeroEndpoint).endpoint = e
  BY <1>4, <1>10, <1>11, <1>12, <1>13, Zenon
<1>. QED
  BY <1>1, <1>6, <1>9, <1>11, <1>14, Zenon

\* Every accepted endpoint survives being printed and read, its text fits, and
\* no other endpoint is printed the same.
THEOREM EndpointsRoundTrip == TextSpec => []EndpointsPrintBack
<1>1. TokensTyped => EndpointsPrintBack
  <2>1. SUFFICES ASSUME TokensTyped, kind = "endpoint", Parsed.ok PROVE EndpointsPrintBack
    BY Zenon DEF EndpointsPrintBack
  <2>2. text \in Seq(AllTokens)
    BY <2>1, MadeOf, Zenon DEF TokensTyped
  <2>3. PICK e : e = Parsed.endpoint
    BY Zenon
  <2>4. PICK p : p = endpoint_to_string(e, LOG_BUF)
    BY Zenon
  <2>5. /\ e \in EndpointsOf("AF_INET", Ip4) \/ e \in EndpointsOf("AF_INET6", Ip6)
        /\ p # <<>> /\ endpoint_parse(p, ZeroEndpoint).endpoint = e
    <3>1. ASSUME NEW ip \in DOMAIN Ip4, DottedText(text, ip)
          PROVE  /\ e \in EndpointsOf("AF_INET", Ip4)
                 /\ p # <<>> /\ endpoint_parse(p, ZeroEndpoint).endpoint = e
      BY <2>2, <2>3, <2>4, <3>1, DottedBack, Zenon DEF Parsed
    <3>2. ASSUME NEW ip \in DOMAIN Ip6, BracketedText(text, ip)
          PROVE  /\ e \in EndpointsOf("AF_INET6", Ip6)
                 /\ p # <<>> /\ endpoint_parse(p, ZeroEndpoint).endpoint = e
      BY <2>2, <2>3, <2>4, <3>2, BracketedBack, Zenon DEF Parsed
    <3>3. \/ \E ip \in DOMAIN Ip4 : DottedText(text, ip)
          \/ \E ip \in DOMAIN Ip6 : BracketedText(text, ip)
      BY <2>1, <2>2, AcceptedIs, Zenon DEF Parsed
    <3>. QED
      BY <3>1, <3>2, <3>3, Zenon
  <2>6. ASSUME NEW o \in Endpoints
        PROVE  endpoint_equal(e, o) <=> p = endpoint_to_string(o, LOG_BUF)
    <3>1. CASE o = ZeroEndpoint
      <4>1. e.family \in {"AF_INET", "AF_INET6"}
        BY <2>5, PrintsDotted, PrintsBracketed, Zenon
      <4>2. o.family = "AF_UNSPEC"
        BY <3>1 DEF ZeroEndpoint
      <4>3. ~endpoint_equal(e, o)
        BY <4>1, <4>2 DEF endpoint_equal
      <4>4. p # endpoint_to_string(o, LOG_BUF)
        BY <2>5, <3>1, PrintsNothing, Zenon
      <4>. QED
        BY <4>3, <4>4, Zenon
    <3>2. CASE o \in EndpointsOf("AF_INET", Ip4)
      BY <2>4, <2>5, <3>2, DottedApart, FamiliesApart, Zenon
    <3>3. CASE o \in EndpointsOf("AF_INET6", Ip6)
      BY <2>4, <2>5, <3>3, BracketedApart, FamiliesApart, Zenon
    <3>. QED
      BY <3>1, <3>2, <3>3, Zenon DEF Endpoints
  <2>. QED
    BY <2>3, <2>4, <2>5, <2>6, Zenon DEF EndpointsPrintBack
<1>. QED
  BY <1>1, TokensKept, PTL
=============================================================================
