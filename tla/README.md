# A TLA+ model of vpn-tunnel

This directory models the VPN daemon in `src/src`: its replay filter, its Noise
IK handshake, its peer table and routing, the data plane that joins them, the
bytes and texts they exchange, and the process around it, down to its system
calls. Two of the programs in `src/exercises` that the daemon grew out of are
modelled too and compared with it. TLC checks the models on small instances; TLAPS proves
the facts listed under *Proofs* for every value of the constants.

## 1. The system

The daemon is one process with one thread. `main.c` opens a UDP socket and a
TUN device, polls both, and handles at most one datagram and one TUN packet a
round. State lives in one peer table.

| Part | Source | What it decides |
|---|---|---|
| Anti-replay filter | `replay.c` | whether a counter was seen, in a 2048-bit sliding bitmap |
| Handshake | `handshake.c` | builds and reads the two Noise IK messages; derives two keys |
| Key derivation, primitives | `kdf.c`, `crypto.c` | wrap libsodium |
| Peer table | `peer.c` | peers, AllowedIPs, a current and a previous session for each |
| Routing | `routing.c` | parses and matches IPv4 prefixes |
| Wire format | `packet.c` | lengths, types and byte layout of datagrams |
| Data plane | `main.c` 151-264 | initiation, data and TUN handlers |
| Process life | `main.c` 53-147, 267-277 | startup, poll loop, signals, shutdown |
| UDP transport, TUN device | `transport.c`, `tun.c` | system calls, endpoint texts |
| Key texts, logging | `config.c`, `logging.c` | conversions and output |
| Exercises | `src/exercises/Replaywindow.c`, `crypto_routing.c`, `routing.c` | earlier, stand-alone forms of the filter and of routing |

How they interact: an initiation that `handshake_consume_initiation` accepts
takes a local index from the table, produces a response, and starts a session
(`peer_init_session`), which retires the running one to `previous_session`. A
data datagram finds its session by that index, passes the replay filter, is
decrypted, updates filter and endpoint, and is written to the TUN device if the
peer owns its source address. A TUN packet goes to the first peer that owns its
destination, encrypted under that peer's current session.

`main.c` neither fills the peer table nor reads responses; the tests do both.
The models take the peer setup and the initiator from that use and mark them
external.

## 2. Modules

Component modules hold operators that carry the names of the C functions;
behaviour modules hold the state machines that call them.

| Module | Models | Used by |
|---|---|---|
| `ReplayWindow` | abstract promise of the filter: no bitmap, a set of accepted counters | `ReplayFilter` (refinement) |
| `Replay` | `replay.c`, to the words of the bitmap and the carries between them | `ReplayFilter`, `PeerTable` |
| `ReplayFilter` | one session's filter under arbitrary arrival | `TwinFilters`, `ReplayFilter_proofs` |
| `Crypto` | `crypto.c`, `kdf.c` as free terms | `Handshake` |
| `Handshake` | the four functions of `handshake.c` | `HandshakeProtocol`, `Tunnel` |
| `HandshakeProtocol` | initiators, the daemon's initiation handler, an unreliable network | `MCHandshake`, `Handshake_proofs` |
| `Routing` | `routing.c`; an address is the set of its one bits | `PeerTable` |
| `PeerTable` | `peer.c` | `PeerSessions`, `Tunnel` |
| `PeerSessions` | a program calling `peer.c` in any order | `RoutesCompared` |
| `Packet` | `packet.c`: types, lengths, what the parsers accept | `Tunnel` |
| `Tunnel` | the handlers of `main.c` composed with all of the above, clients, network, clock | `MCTunnel`, `Tunnel_proofs` |
| `EventLoop` | startup in three steps, `poll`, signals, shutdown | `Process_proofs`, `Startup` (refinement) |
| `Startup` | startup and shutdown as system calls: `transport_open`, `tun_open`, `tun_set_ip`, `tun_set_up`, the two `close` functions; the loop is `EventLoop`'s | `Startup_proofs` |
| `RingFilter` | `exercises/Replaywindow.c` | `TwinFilters` |
| `TwinFilters` | the bitmap of `replay.c` and the ring of the exercise, fed the same datagrams | run `replay_filter`, `ReplayFilter_proofs` |
| `RoutingExercises` | `exercises/crypto_routing.c`, `exercises/routing.c` | `RoutesCompared` |
| `RoutesCompared` | the peer table's routing beside that of the two exercises | `MCPeerSessions`, `PeerSessions_proofs` |
| `Wire` | the serialisers and parsers of `packet.c`, byte by byte; `le32_*`, `le64_*`; the nonce | `DataPath`, `Texts` |
| `DataPath` | the four buffers of `main.c` and what the handlers copy through them | `MCConversions`, `Conversions_proofs` |
| `Texts` | `endpoint_parse`, `endpoint_to_string`, `endpoint_equal`; key texts; address texts | `MCConversions`, `Conversions_proofs` (keys, addresses), `Process_proofs` (endpoints) |

Each `X_proofs` module holds the theorems about `X` (`Handshake_proofs` those
about `HandshakeProtocol`; `Conversions_proofs` those about `Wire`, `DataPath`
and the keys and addresses of `Texts`; `Process_proofs` those about `EventLoop`
and the endpoints of `Texts`), `TableLemmas` what they share about the operators
of `Replay` and `Routing`.

Correspondence of state: `filter` is `session->replay_filter`; `table` is
`peer_table`, its arrays being sequences and a peer pointer a position (0 is
NULL); `g_running`, `revents` and the descriptors are main's own; `pc` in
`EventLoop` names the statement main is at. Variables marked *history* are not
in the program; properties speak about the past through them. In `Tunnel` a
handler is one step, since no other thread sees its intermediate states. In
`EventLoop` a round is several steps, since a signal can come between them.

In `Wire` and `DataPath` a byte is a triple: the number of the packet it was
written for, the field it belongs to, and its value or its place in the field.
Numbers have values; keys, tags and ciphertexts only have places, since no code
looks into them. So a property can say whose byte sits where. A `memcpy` past
the end of a buffer makes the buffer longer, which `WritesInside` notices. In
`Texts` a text is a sequence of tokens with a width each: brackets and colons,
addresses, ports. What libc's `inet_pton`, `atoi` and `sscanf` make of them is a
table, or follows from the C standard (`%02x` skips blanks and takes a sign).
What the tables must satisfy is `LibraryAssumption`; TLC evaluates it for the
tables of the run.

An AllowedIPs text is a record: whether four numbers could be read, whether all
are at most 255, what they are when shifted to their places, and the prefix. No
program refuses a text with a number above 255. The daemon takes `300.1.2.3/32`
as `0.0.0.0/32`; the exercises shift the number and get `44.1.2.3/32`. That is
the case the preconditions of `ExerciseAgrees` and `LongestUnlessShadowed` exclude.

In `Tunnel` the network loses, repeats, delays and damages datagrams, and delivers
whole ones with another source address, which no tag covers (`transport.c` 15-18).
So no property can say that an endpoint is a place where the client has been.
What the code ensures is that a datagram sealed by the peer came from there,
and that each such datagram moves the endpoint at most once
(`OnlyFreshSealMoves`). Clients and daemon share one clock here; clocks
that differ are the subject of `HandshakeProtocol`.

In `Startup` the kernel is a table of descriptors, each free or of some kind,
and a system call that opens one may hand out any that is free, so that a
number closed too early comes back as something else. `tun.fd` starts as
garbage, as the uninitialised structure in `main` does.

A definition `X_Defect` next to `X` is `X` with a plausible slip. For each
property `PROJECT.json` names one that breaks it.

## 3. Runs

| Run | Properties | What it shows |
|---|---|---|
| `replay_filter` | `BitmapIsRecentPast`, `VerdictExact`, `SameVerdict`, `RejectionIsFinal`, `RefinesWindow` | the bitmap is an exact record of the recent past; a counter passes exactly when it is new and recent; nothing refused becomes acceptable; the filter implements `ReplayWindow`; the exercise's ring, fed the same datagrams, always gives the same answers |
| `handshake_keys` | `TypeOK`, `KeyAgreement`, `KeysFresh`, `PunctualInitiationAcceptedOnce` | both ends hold mirrored keys whatever the network did; no key recurs; with a clock that is not ahead, a repeated initiation is refused |
| `peer_sessions` | `IndexFindsItsSession`, `IndexKeepsItsPeer`, `PublicKeyFindsItsPeer`, `KeysOnlyInLiveSessions`, `RoutesFollowTexts`, `ExerciseAgrees`, `LongestUnlessShadowed` | indices and public keys identify what they should through rekeys and destructions; masks and matching agree with the bitwise meaning of the prefixes and, for texts without a number above 255, with `crypto_routing.c`; routing differs from the longest-prefix match of `exercises/routing.c` only where an earlier peer has a shorter prefix |
| `tunnel_inbound` | `WrittenOnce`, `WrittenFromOwner`, `OnlyFreshSealMoves` | no packet is delivered twice, also across a rekey, or with another peer's address; what the daemon knows of a peer changes only with a datagram that peer has sealed, each of which is taken once |
| `tunnel_outbound` | `NonceUnique`, `EmittedToOwner`, `SurvivesLostResponse` | no key and counter twice; packets go to their owner; one lost response costs no inbound traffic |
| `event_loop` | `ReportedIsThere`, `ExitIsClean`, `StopsWithinARound`, `SignalStops`, `NoStarvation` | signals at any moment, every exit path (keys wiped, descriptors closed), fairness between the descriptors |
| `startup` | `NoLeakNoDangle`, `LoopIsEquipped`, `RefinesEventLoop` | any system call of startup may fail: no descriptor leaks or dangles, the loop polls exactly the non-blocking descriptors main owns, and the daemon implements `EventLoop` with its fairness |
| `conversions` | `WritesInside`, `NothingStale`, `FieldsSurvive`, `NoncesDiffer`, `EndpointTextsExact`, `EndpointsPrintBack`, `KeysPrintBack`, `AddressesAgree` | what one function writes another reads back, inside its buffer and without a byte of an earlier packet; texts of endpoints, keys and addresses mean what they are read as |

The types of `ReplayFilter`, `PeerSessions`, `Tunnel`, `EventLoop` and `Startup`
are part of the inductive invariants proved below and not repeated in the runs.
TLC finds no violation of those invariants (`IInv`), or of that of
`HandshakeProtocol`, under the configurations of the passing runs either.

Four runs end in a counterexample, each where a document or a comment says more
than the code does:

* `handshake_clock_ahead`: an initiation from a clock that is ahead is accepted
  twice, because the daemon remembers its own time and not the timestamp.
* `handshake_mac1`: MAC1 is computed and sent but never verified.
* `peer_index_wraps`: index 0, "reserved as invalid", is handed out when the
  32-bit counter wraps.
* `tunnel_expiry`: `VPN_REJECT_AFTER_TIME_SEC` is defined and used nowhere.

One more disagreement shows in `EventLoop` without a run of its own. An
initiation, accepted or refused, leaves its chaining key on main's stack
(`main.c` 161), and nothing wipes it, while `docs/security-findings.md` 61 says
that all shared secrets are wiped immediately after use. `ExitIsClean` therefore
lets this one secret, and no other, outlive main.

### Bounds

* Replay: three words of three bits and counters 0 to 13. A slide can stay in a
  word, cross one or two words with and without a carry, clear all but one bit,
  or jump the window (9) by up to four.
* Handshake: four ephemeral keys (two complete handshakes, or one initiation
  accepted up to three times), one corrupted field, two seconds of clock, two
  known initiators (one a second ahead) and an unknown one. The index counter
  is taken modulo `INDEX_MOD` and wraps within the run.
* Peer table: two places for three keys; four handshakes with indices modulo 5,
  the last count before a wrap. Routing: two-bit addresses, prefixes -1 to 3,
  two texts for each of two peers. The constraint `TextsFirst` keeps the two
  apart: a table with AllowedIPs has no sessions yet. No function of `peer.c`
  reads both, and `PeerSessions_proofs` covers their mixture.
* Tunnel: two peers whose AllowedIPs overlap, a window of two, up to three
  handshakes, three packets of the sizes around each limit (0, 19, 20, 1440,
  1441, 2017). `tunnel_inbound` spends its bounds on rekeys with repeated data,
  or on a datagram damaged or redirected around one packet, or on a daemon
  without a TUN device (`TalksOrMoves`). A redirected datagram is to the daemon
  what a client that has moved sends; clients do move in `tunnel_outbound`, where
  a move or a damage takes the place of one of three handshakes
  (`RekeysOrMoves`). `Tunnel_proofs` covers all mixtures.
* Event loop: two packets queued per descriptor, so that a queue can refill
  while it is read. The state space is complete for this size.
* Startup: three descriptors, all the program ever holds at once (socket,
  device, control socket); one packet per queue.
* Conversions: bytes count to 9, so that 64-bit numbers, which have eight of
  them, stay within TLC's integers; counters are chosen at the ends of both
  halves. The MTU is 40 and a buffer 160 bytes instead of 1440 and 2048, the
  framing being its real 32 bytes; packet sizes lie on both sides of every
  limit. Two packets pass, the second only after one that was handed on
  (`SecondAfterFull`), which leaves the most behind. Endpoint texts have up to
  seven tokens, long enough for a bracketed address with a port and something
  after it; an IPv6 buffer holds 16 characters rather than 46, so that such
  texts can fill it. Keys have two bytes in base 3.

Deadlock is checked everywhere but in the handshake runs, where using up the
ephemeral keys ends a behaviour that has nothing left to reject, and in
`conversions`, where a behaviour ends with its last packet or token.

### Fairness

`EventLoop` and `Startup` assume weak fairness of the daemon's own next step. The
process is scheduled, no call of startup waits for anything, its handlers do not
block (both descriptors are non-blocking, which `LoopIsEquipped` checks) and `poll` returns after at most a second, so main's step is
always enabled until it exits. Nothing is assumed of signals, arrivals, or
failures of `poll`.

## 4. Proofs

Constants are arbitrary; what is assumed of them stands in the named `ASSUME`s
of the modules that declare them (sizes are naturals, a modulus is at least 2).
`TableLemmas` holds the facts about operators that several proofs use. Three
matter most: `CheckIsExact` (a filter that records the recent past answers
exactly), `UpdateRecords` (it still does so after `replay_update`) and
`MatchIsCover` (masking and comparing is agreement on the prefix's bits).

### The replay filter (`ReplayFilter_proofs`)

`BitmapExact`, `VerdictsExact`, `RejectionPermanent` and
`FilterImplementsWindow` prove the properties of `replay_filter` for every
number and width of words and every counter limit; `ReplaySafety` draws the
conclusion that no accepted counter passes again. The invariant is
`BitmapIsRecentPast` itself, with the types: bit *k* is set exactly when the
counter *k* below the newest was accepted. `NoReplay` alone is not inductive,
since a stray zero bit would let a counter in again. The core is
`SlideMovesBits`, about the loop over words in `replay_update`: moving words,
shifting and carrying is one shift of the whole bitmap. For the refinement the
window's state is the filter's history, and every filter step is a window step.

`RingExact` and `RingImplementsWindow` say the same of the exercise's ring, for
every window size. The arithmetic is in two lemmas: two counters with one
remainder are equal or a window apart, and clearing from the old highest counter
to the new one reaches exactly the slots that leave the window. `FiltersAgree`
proves `SameVerdict`: the invariant joins those of the two filters with the fact
that both have accepted the same counters, and each verdict is then the
window's.

### The handshake (`Handshake_proofs`)

`KeysAgree`, `KeysNeverShared`, `PunctualAcceptedOnce` and `ProtocolTypes` prove
the properties of `handshake_keys` for any set of initiators, any clocks, and
any number of ephemeral keys and corruptions, from `ProtocolAssumption` and the
free algebra of `Crypto`. None of them is inductive: what a session was derived from
lies in messages that were sent earlier and may arrive later. `IInv` therefore
speaks of the network as well:

* `Shapes`: a datagram has the fields of its wire structure.
* `Stamps`: a timestamp with a valid tag was made by an initiator, in its past,
  and one ephemeral key stamps one time.
* `Answers`: a session answers an initiation of its peer, with keys derived from
  it and an ephemeral key of the daemon's.
* `Remembered`: what the daemon remembers of a punctual peer is no older than
  any initiation of it that was accepted. This is what refuses a repetition, and
  what a clock that is ahead breaks (`handshake_clock_ahead`).
* `ResponsesOfSessions`: a response with a valid tag is that of a session.

The lemmas about `handshake.c` say what a return value of 0 has established
(`ConsumedStamp`, `ConsumedResponse`) and that derived keys name all they were
derived from (`StampKeyDetermines`, `NothingKeyDetermines`,
`TransportKeyDetermines`).

### The peer table (`PeerSessions_proofs`)

`TypeCorrect`, `IndexLookupExact`, `IndicesNotReused`, `PublicKeyLookupExact`,
`RoutingFollowsTexts` and `NoKeyLeftBehind` hold for every capacity, address
width, set of texts and number of handshakes below `INDEX_MOD`. That assumption
is a hypothesis of each theorem; without it `peer_index_wraps` is a
counterexample. `IInv` says

* `SessionsOK`: a place is empty, or its index is below the counter and its keys
  are those of its handshake, and no two live sessions share either. Without
  "below the counter" a new index could equal an old one.
* `CounterOK`: the counter is 0 only in a destroyed table or after the last
  handshake, so no session starts with index 0.
* `KeysDiffer`, `GrantsKept`: the facts behind the public key lookup and
  routing.

A step changes one peer at most: `ReplacePeer` proves once that the table stays
distinct, and each action supplies its premises. `OnlyNewIndices` is what the
action property needs of a step.

`ExerciseRoutesAlike` and `LongestTaken` prove `ExerciseAgrees` and
`LongestUnlessShadowed` for every address width and whatever was granted: the
masks of all three programs compare the same bits (`ExerciseMatches`,
`RouteMatchesCover`), so the peers that match are the same set, and what is left
is which of them is taken. That a set of numbers has a smallest one (`Smallest`)
comes from the library's well-foundedness of the naturals.

### The data plane (`Tunnel_proofs`)

`NothingWrittenTwice`, `WrittenIsFromOwner`, `MovedByFreshSeals`, `NoNonceTwice`,
`EmittedIsToOwner` and `LostResponseSurvived` prove all properties of
`tunnel_inbound` and `tunnel_outbound` for any configuration of peers with
distinct keys and valid texts, any packets, window, clock and number of
handshakes, losses, repetitions, moves and damages. Two limits are explicit:

* `MAX_READS <= MAX_COUNTER` in `TunnelAssumption`: no sending counter wraps.
  The code does not test for it, and the counter has 64 bits.
* `LostResponseSurvived` holds while fewer handshakes than `INDEX_MOD` were
  accepted. After that an index can mean two sessions, and the first is found.
  The other theorems do not need this: data for the wrong session does not
  authenticate.

`IInv` adds to four of the invariants

* `SessionsLive`: a session in the table has the index and the keys of one
  accepted handshake of its peer, and the two sessions of a peer are those of its two
  latest. The latter is what keeps a client that missed a response connected.
* `FiltersRemember`: a session's filter has seen every counter that was written
  under its key. `WrittenOnce` is not inductive without it, nor is it enough
  across a rekey without keys that differ from handshake to handshake.
* `CountersAhead`: a session's counter is above all it was used with.
* `PeersReached`, `InitiationsHonest`, `ResponsesHonest`, `DataHonest`,
  `ClientsHonest`: what may be on the network and what clients know. A peer's
  endpoint is the source of a datagram that the peer has sealed, and an
  initiation is no newer than the clock.

One lemma per action shows that it keeps `IInv`. The steps of clients, network
and clock share `OthersKeep`. For the daemon's three handlers a lemma first
says what the handler changes (`AcceptShape`, `ReceiveShape`, `ReadShape`). The
filter enters through `CheckIsExact` and `UpdateRecords`, routing through
`MatchIsCover`.

`MovedByFreshSeals` proves the action property `OnlyFreshSealMoves` from `IInv`.
`AcceptTakes` and `ReceiveTakes` show that a handler that changes a peer has a
datagram sealed by it (`SessionSeals`) that is *spent* by this step: an initiation because the
time stored is no earlier than its timestamp, data because the filter has now
seen its counter. They also show that nothing spent comes back: the time stored
only grows, a filter goes on refusing what it refused (`TakenStays`), and a new
session has a key that nothing on the network was sealed with.

### The process (`Process_proofs`)

`TypeCorrect`, `CleanExit`, `PromptStop` and `NoStaleReadiness` hold for every
queue size. `IInv` adds which descriptors and secrets are held at each
statement of main (`HeldAt`) and how many packets a stopped loop can still have
handled there (`HandledAt`).

### The system calls (`Startup_proofs`)

`DescriptorsExact`, `LoopEquipped`, `NothingLeftBehind` and `TypeCorrect` hold
for any set of descriptors, finite or not; the types and `NothingLeft` (no
descriptor and no interface survives the program) are only proved. `NoLeakNoDangle` is not inductive: to
close the right descriptor on a failing path one must know which variable holds
one there. `HeldAt` says so for each statement, with which descriptors are
non-blocking and what the interface can be. `FreeIsUnheld` (a free descriptor is
in no variable) is the lemma every opening call rests on.

`ImplementsEventLoop` is the safety part of the refinement. `CoarsePc`
maps the statements of `transport_open` to EventLoop's `"socket"` and those of
the three functions of `tun.c` to `"tun device"`; the TUN device counts as open
once they have returned. So `CleanExit`, `PromptStop` and `NoStaleReadiness`
hold of the daemon with its startup taken apart.

### Bytes (`Conversions_proofs`)

`Le32RoundTrip`, `Le64RoundTrip` and `NonceInjective` hold for every number of
values of a byte. `BuffersHold`, `BytesFresh` and `NoncesApart` prove
`WritesInside`, `NothingStale` and `NoncesDiffer` for every MTU and buffer size
that satisfy `WireAssumption` (a buffer holds a full data packet and an
initiation, as `config.h`'s values do), hence for 1440 and 2048, and for any
number of packets. The invariant is the three properties with the types of the
buffers: what makes the output fresh is that each step overwrites the prefix of
a buffer that it later reads, whatever lies behind it.

`SentIsParsed` proves `FieldsSurvive` for every index, counter, size and earlier
content of the buffers. `ReadBack` is its core: since the serialisers write
their fields in the order of their offsets, each field is still there when the
last is written, and what a parser finds at its offset is that field. The
numbers then come back by the round trips, and the type byte leads the datagram
to the right handler (`Peeked`).

### Texts (`Conversions_proofs`, `Process_proofs`)

All four properties of `Texts` are proved for texts of any length, of any
tokens. The invariants only say what a text of each kind is made of
(`NumbersTyped`, `TokensTyped`); the rest is about the conversions, as functions.

`LibraryAssumption` says what the program relies on libc for, and no more:

* an address that `inet_pton` accepts is not empty, is shorter than its buffer,
  and has no bracket in it, an IPv4 address no colon either;
* what `inet_ntop` prints for an address, `inet_pton` reads as that address;
* a port prints as at most five characters, which `atoi` reads as that port;
* `atoi` reads no number at a bracket or a colon.

`EndpointTextsAccepted` proves `EndpointTextsExact` in two directions.
`ReadsDotted` and `ReadsBracketed` follow `endpoint_parse` through a text that
starts with an address, a colon and a port: the last colon, or the first closing
bracket, is the one meant, because the address holds none. `AcceptedDotted` and
`AcceptedBracketed` go back from a return value of 0 to the places of the text.
`NotAccepted` covers every early return: the length is still the 0 of the
`memset`. `Spelled` turns "starts with" into places.

`EndpointsRoundTrip` proves `EndpointsPrintBack`. The width of a text is the
number of its characters, which are the places in its tokens, so that
`CharactersJoined` (two texts have as many characters together) is a fact about
finite sets. By it the text of an endpoint has at most 53 characters (45 of an
address, two brackets, a colon and five digits) and fits the 64 bytes of
`peer_update_endpoint`. The two lemmas on reading then apply to what was
printed, and `EndsApart`, `BracketsApart` and `FamiliesApart` show that
different endpoints print differently.

`KeysRoundTrip` proves `KeysPrintBack` for every base and key length: a pair of
digits is one byte (`ByteDigits`), and what was printed consists of digits, so
that the blanks and signs `%02x` accepts play no part in reading it back.
`AddressesInOneOrder` proves `AddressesAgree` for every number of values of a
byte.

### Only model-checked

`SignalStops`, `NoStarvation` and the fairness part of `RefinesEventLoop` are
liveness, which the prover does not reach. Every other property of the passing
runs is proved.

## 5. Not modelled

* Cryptography is symbolic: a forged or damaged field never verifies, and
  distinct inputs give distinct outputs. `vpn_kdf3` has no caller; random bytes
  and constant-time comparison wrap libsodium.
* Checks for NULL pointers, which no caller passes, and for output buffers that
  are too small, where callers pass arrays of the exact size.
* `logging.c`: output only.
* The kernel dropping a datagram that `poll` has announced, on which
  `transport_recv` returns 0 at once. `ReportedIsThere` is about stale readiness: no
  handler acts on what an earlier round reported.
* `fcntl` in the fallback of `transport_open` is taken to succeed, as it does on
  an open descriptor; `SO_REUSEADDR` and close-on-exec have no effect on what is
  modelled. The build for systems other than Linux has no TUN device: that is
  the failure of `tun_open` in `Startup`.
* In the exercises: reading command lines; for `exercises/routing.c`, texts that
  leave its variables unset or shift by more than the width. The other exercises (`endpoint_update.c`, `stale_peer.c`,
  `counter_nonce.c`, `mtu_calc.c`, `DH_shared_key.c`, `hkdf_two_keys.c`) turn one
  line into another by a comparison, a subtraction or a hash; a model would
  restate the line.
* `tests`, `fuzz`, `attacks`: programs that call the same functions.

## 6. Plan

1. Model: `EventLoop` composed with `Tunnel`, so that a signal falls between two
   handlers that really change the table.
2. Check: the progress of a client that retries a lost handshake, under fairness
   of the network. The repository has no such client yet.
3. Prove: nothing is left but liveness, which needs another prover.
