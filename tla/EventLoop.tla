------------------------------ MODULE EventLoop ------------------------------
(***************************************************************************)
(* The life of the daemon (main.c): startup with its failures, the poll    *)
(* loop over the UDP socket and the TUN device, signals at any moment, and *)
(* the shutdown.  What a handler does with a packet is Tunnel's subject;   *)
(* here it leaves session keys behind, and the chaining key of a           *)
(* handshake, a local array of main that nothing wipes.                    *)
(***************************************************************************)
EXTENDS Integers

CONSTANT QUEUE      \* how many packets the kernel keeps for each descriptor

ASSUME QueueAssumption == QUEUE \in Nat \ {0}

VARIABLES
    pc,             \* where main is; "enter" is between the test of g_running
                    \* and the moment poll starts to wait
    g_running,      \* the flag that handle_signal clears
    sock, tun,      \* whether the descriptors are open
    secrets,        \* which secrets the memory of the process holds
    waiting,        \* packets that wait in the kernel, for each descriptor
    revents,        \* which descriptors poll reported readable
    handled         \* history: packets handled since the signal

vars == <<pc, g_running, sock, tun, secrets, waiting, revents, handled>>

Descriptors == {"udp", "tun"}
None == [d \in Descriptors |-> FALSE]

Init ==
    /\ pc = "crypto"
    /\ g_running = TRUE
    /\ sock = FALSE
    /\ tun = FALSE
    /\ secrets = {}
    /\ waiting = [d \in Descriptors |-> 0]
    /\ revents = None
    /\ handled = [d \in Descriptors |-> 0]
-----------------------------------------------------------------------------
(* Startup. *)

\* vpn_crypto_init, the signal handlers, the static key pair, the peer table.
Start ==
    /\ pc = "crypto"
    /\ \/ pc' = "exited" /\ UNCHANGED secrets
       \/ pc' = "socket" /\ secrets' = {"static_priv"}
    /\ UNCHANGED <<g_running, sock, tun, waiting, revents, handled>>

WipedOnFailure_Forgotten == secrets
WipedOnFailure == secrets \ {"static_priv"}

OpenSocket ==
    /\ pc = "socket"
    /\ \/ pc' = "exited" /\ secrets' = WipedOnFailure /\ UNCHANGED sock
       \/ pc' = "tun device" /\ sock' = TRUE /\ UNCHANGED secrets
    /\ UNCHANGED <<g_running, tun, waiting, revents, handled>>

\* Without a TUN device the daemon runs in socket-only mode.
OpenTun ==
    /\ pc = "tun device"
    /\ tun' \in BOOLEAN
    /\ pc' = "test"
    /\ UNCHANGED <<g_running, sock, secrets, waiting, revents, handled>>
-----------------------------------------------------------------------------
(* The loop. *)

TestRunning_Ignored == pc' = "enter"
TestRunning == pc' = IF g_running THEN "enter" ELSE "shutdown"

Test ==
    /\ pc = "test"
    /\ TestRunning
    /\ UNCHANGED <<g_running, sock, tun, secrets, waiting, revents, handled>>

CallPoll ==
    /\ pc = "enter"
    /\ pc' = "poll"
    /\ UNCHANGED <<g_running, sock, tun, secrets, waiting, revents, handled>>

Readable == [d \in Descriptors |-> waiting[d] > 0 /\ (d = "tun" => tun)]

\* poll returns because a descriptor is readable, or after one second.
MayReturn_NoTimeout == Readable # None
MayReturn == TRUE

PollReturns ==
    /\ pc = "poll"
    /\ MayReturn
    /\ revents' = Readable
    /\ pc' = "udp"
    /\ UNCHANGED <<g_running, sock, tun, secrets, waiting, handled>>

PollFails ==
    /\ pc = "poll"
    /\ pc' = "shutdown"
    /\ UNCHANGED <<g_running, sock, tun, secrets, waiting, revents, handled>>

\* One packet is read from descriptor d, whatever becomes of it.
Handle(d) ==
    /\ waiting' = [waiting EXCEPT ![d] = @ - 1]
    /\ handled' = IF g_running THEN handled ELSE [handled EXCEPT ![d] = @ + 1]

\* The locals of another block may share the place of chaining_key on the stack.
Overwritten == secrets \ {"chaining_key"}

\* An initiation leaves its chaining key on the stack, accepted or not, and an
\* accepted one leaves session keys in the peer table.
HandleUdp ==
    /\ pc = "udp"
    /\ IF revents["udp"]
       THEN /\ Handle("udp")
            /\ secrets' \in {secrets, Overwritten, secrets \cup {"chaining_key"},
                            secrets \cup {"chaining_key", "session keys"}}
       ELSE UNCHANGED <<waiting, handled, secrets>>
    /\ pc' = "tun"
    /\ UNCHANGED <<g_running, sock, tun, revents>>

TunIsDue_OnlyWithoutUdp == revents["tun"] /\ ~revents["udp"]
TunIsDue == revents["tun"]

HandleTun ==
    /\ pc = "tun"
    /\ IF TunIsDue
       THEN Handle("tun") /\ secrets' \in {secrets, Overwritten}
       ELSE UNCHANGED <<waiting, handled, secrets>>
    /\ pc' = "test"
    /\ UNCHANGED <<g_running, sock, tun, revents>>

\* peer_table_destroy, transport_close, tun_close, the static key.
Shutdown ==
    /\ pc = "shutdown"
    /\ secrets' = secrets \ {"session keys", "static_priv"}
    /\ sock' = FALSE
    /\ tun' = FALSE
    /\ pc' = "exited"
    /\ UNCHANGED <<g_running, waiting, revents, handled>>
-----------------------------------------------------------------------------
(* The environment. *)

\* EINTR means continue: revents is not looked at.
AfterInterrupt_FallsThrough == "udp"
AfterInterrupt == "test"

\* SIGINT or SIGTERM, once the handler is installed; poll returns with EINTR
\* if it waits, and only then.
Signal ==
    /\ pc \notin {"crypto", "exited"}
    /\ g_running' = FALSE
    /\ pc' = IF pc = "poll" THEN AfterInterrupt ELSE pc
    /\ UNCHANGED <<sock, tun, secrets, waiting, revents, handled>>

Arrive(d) ==
    /\ IF d = "udp" THEN sock ELSE tun
    /\ waiting[d] < QUEUE
    /\ waiting' = [waiting EXCEPT ![d] = @ + 1]
    /\ UNCHANGED <<pc, g_running, sock, tun, secrets, revents, handled>>

Exited == pc = "exited" /\ UNCHANGED vars

Main == Start \/ OpenSocket \/ OpenTun \/ Test \/ CallPoll \/ PollReturns
            \/ HandleUdp \/ HandleTun \/ Shutdown

Next == Main \/ PollFails \/ Signal \/ (\E d \in Descriptors : Arrive(d)) \/ Exited

\* The process is scheduled, and poll waits for at most a second.
Spec == Init /\ [][Next]_vars /\ WF_vars(Main)
-----------------------------------------------------------------------------
\* Types; no queue is read below empty or filled above QUEUE.
TypeOK ==
    /\ pc \in {"crypto", "socket", "tun device", "test", "enter", "poll", "udp", "tun",
               "shutdown", "exited"}
    /\ g_running \in BOOLEAN /\ sock \in BOOLEAN /\ tun \in BOOLEAN
    /\ secrets \subseteq {"static_priv", "session keys", "chaining_key"}
    /\ waiting \in [Descriptors -> 0..QUEUE]
    /\ revents \in [Descriptors -> BOOLEAN]
    /\ handled \in [Descriptors -> Nat]

\* What poll reported is still there when the handler reads: a handler never
\* acts on a stale revents, whatever signals and time-outs came in between.
ReportedIsThere ==
    /\ pc = "udp" => (revents["udp"] => waiting["udp"] > 0)
    /\ pc \in {"udp", "tun"} => (revents["tun"] => tun /\ waiting["tun"] > 0)

\* Every way out of main, early or late, wipes the static private key and the
\* keys of all sessions and closes both descriptors.  Of the secrets it may leave
\* only the chaining key of the last initiation.
ExitIsClean ==
    pc = "exited" => secrets \subseteq {"chaining_key"} /\ ~sock /\ ~tun

\* After a signal the loop finishes its round at most: no more than one
\* datagram and one TUN packet are handled.
StopsWithinARound ==
    \A d \in Descriptors : handled[d] <= 1

\* What the proofs add to these: which secrets and descriptors startup has
\* got to at each of its points, and how far into a round packets have been
\* handled since the signal.
HeldAt ==
    /\ pc \in {"crypto", "socket", "tun device"} => ~tun
    /\ pc \in {"crypto", "socket"} => ~sock
    /\ pc = "crypto" => secrets = {}
    /\ pc \in {"socket", "tun device"} => secrets = {"static_priv"}
HandledAt ==
    /\ g_running => \A d \in Descriptors : handled[d] = 0
    /\ pc \in {"crypto", "socket", "tun device", "enter", "poll", "udp"}
           => \A d \in Descriptors : handled[d] = 0
    /\ pc = "tun" => handled["tun"] = 0
IInv ==
    TypeOK /\ ReportedIsThere /\ ExitIsClean /\ StopsWithinARound /\ HeldAt /\ HandledAt

\* A signal ends the program, also when it comes just before poll waits.
SignalStops == ~g_running ~> pc = "exited"

\* A full queue is read from, unless the daemon stops.
Served(d) ==
    waiting[d] = QUEUE ~> (waiting[d] < QUEUE \/ pc = "exited")

\* Neither descriptor starves the other, however fast packets arrive on the
\* other one: each round of the loop reads from both.
NoStarvation == \A d \in Descriptors : Served(d)
=============================================================================
