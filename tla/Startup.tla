------------------------------- MODULE Startup -------------------------------
(***************************************************************************)
(* The daemon of EventLoop with its startup and shutdown taken apart into  *)
(* the system calls of transport_open, tun_open, tun_set_ip, tun_set_up,   *)
(* transport_close and tun_close.  Every call may fail; the descriptors    *)
(* are those of the process, and a closed one may be handed out again.     *)
(***************************************************************************)
EXTENDS Integers

CONSTANTS
    Fds,            \* the descriptors the kernel may hand out
    NoFd,           \* -1
    Garbage,        \* what an uninitialised descriptor variable holds
    QUEUE           \* EventLoop's

ASSUME FdsAssumption ==
    /\ NoFd \notin Fds
    /\ Garbage \notin Fds \cup {NoFd}
ASSUME QueuesAssumption == QUEUE \in Nat \ {0}

VARIABLES
    pc,             \* main's next step; from "test" on, as in EventLoop
    open,           \* the kernel: what each descriptor is, "free" if nothing
    nonblocking,    \* the kernel: the descriptors with O_NONBLOCK
    link,           \* the kernel: how far the TUN interface is configured
    fd,             \* the local variable fd of transport_open and tun_open
    control,        \* the local variable sock of the functions of tun.c
    sock_fd, tun_fd,\* main's sock_fd and tun.fd
    polled,         \* the descriptors in main's pollfd array
    g_running, secrets, waiting, revents, handled   \* EventLoop's

kernel == <<open, nonblocking, link>>
locals == <<fd, control>>
handles == <<sock_fd, tun_fd, polled>>
loop == <<g_running, secrets, waiting, revents, handled>>
vars == <<pc, kernel, locals, handles, loop>>

Loop == INSTANCE EventLoop WITH sock <- sock_fd # NoFd, tun <- tun_fd # NoFd

Init ==
    /\ pc = "crypto"
    /\ open = [f \in Fds |-> "free"]
    /\ nonblocking = {}
    /\ link = {}
    /\ fd = NoFd /\ control = NoFd
    /\ sock_fd = NoFd /\ tun_fd = Garbage /\ polled = {}
    /\ g_running = TRUE
    /\ secrets = {}
    /\ waiting = [d \in Loop!Descriptors |-> 0]
    /\ revents = Loop!None
    /\ handled = [d \in Loop!Descriptors |-> 0]
-----------------------------------------------------------------------------
(* System calls.  socket and open hand out a descriptor that is free. *)

Opens(f, kind) == open[f] = "free" /\ open' = [open EXCEPT ![f] = kind]
Closes(f) ==
    /\ open' = [open EXCEPT ![f] = "free"]
    /\ nonblocking' = nonblocking \ {f}

\* vpn_crypto_init, the signal handlers, the static key pair, the peer table.
Start ==
    /\ pc = "crypto"
    /\ \/ pc' = "exited" /\ UNCHANGED secrets
       \/ pc' = "socket" /\ secrets' = {"static_priv"}
    /\ UNCHANGED <<kernel, locals, handles, g_running, waiting, revents, handled>>
-----------------------------------------------------------------------------
(* transport_open, and main's reaction to its failure. *)

CreateSocket ==
    /\ pc = "socket"
    /\ \/ \E f \in Fds : /\ Opens(f, "udp")
                         /\ nonblocking' = nonblocking \cup {f}
                         /\ fd' = f
                         /\ pc' = "bind"
       \/ pc' = "plain socket" /\ UNCHANGED <<open, nonblocking, fd>>
    /\ UNCHANGED <<link, control, handles, loop>>

GiveUp_KeyKept ==
    /\ pc' = "exited"
    /\ UNCHANGED secrets
GiveUp ==
    /\ pc' = "exited"
    /\ secrets' = Loop!WipedOnFailure

\* The fallback for kernels without SOCK_NONBLOCK.
CreatePlainSocket ==
    /\ pc = "plain socket"
    /\ \/ \E f \in Fds : Opens(f, "udp") /\ fd' = f /\ pc' = "fcntl" /\ UNCHANGED secrets
       \/ GiveUp /\ UNCHANGED <<open, fd>>
    /\ UNCHANGED <<nonblocking, link, control, handles, g_running, waiting, revents, handled>>

\* fcntl does not fail for these flags on a descriptor that is open.
Fcntl_Skipped == nonblocking
Fcntl == nonblocking \cup {fd}

SetNonBlocking ==
    /\ pc = "fcntl"
    /\ nonblocking' = Fcntl
    /\ pc' = "bind"
    /\ UNCHANGED <<open, link, locals, handles, loop>>

Bind ==
    /\ pc = "bind"
    /\ fd' = NoFd
    /\ \/ sock_fd' = fd /\ pc' = "open device" /\ UNCHANGED <<open, nonblocking, secrets>>
       \/ Closes(fd) /\ GiveUp /\ UNCHANGED sock_fd
    /\ UNCHANGED <<link, control, tun_fd, polled, g_running, waiting, revents, handled>>
-----------------------------------------------------------------------------
(* tun_open: main goes on without a TUN device when it fails. *)

OpenDevice ==
    /\ pc = "open device"
    /\ tun_fd' = NoFd
    /\ \/ \E f \in Fds : /\ Opens(f, "tun")
                         /\ nonblocking' = nonblocking \cup {f}
                         /\ fd' = f
                         /\ pc' = "attach"
       \/ pc' = "pollfds" /\ UNCHANGED <<open, nonblocking, fd>>
    /\ UNCHANGED <<link, control, sock_fd, polled, loop>>

\* A refused TUNSETIFF: the descriptor is closed and not handed to the caller.
AttachDevice ==
    /\ pc = "attach"
    /\ fd' = NoFd
    /\ \/ /\ link' = {"exists"}
          /\ tun_fd' = fd
          /\ pc' = "mtu socket"
          /\ UNCHANGED <<open, nonblocking>>
       \/ /\ Closes(fd)
          /\ pc' = "pollfds"
          /\ UNCHANGED <<link, tun_fd>>
    /\ UNCHANGED <<control, sock_fd, polled, loop>>

\* The functions of tun.c use a control socket of their own, and close it on
\* every way out.
ControlSocket(here, then, otherwise) ==
    /\ pc = here
    /\ \/ \E f \in Fds : Opens(f, "control") /\ control' = f /\ pc' = then
       \/ pc' = otherwise /\ UNCHANGED <<open, control>>
    /\ UNCHANGED <<nonblocking, link, fd, handles, loop>>

Ioctl(here, outcome) ==
    /\ pc = here
    /\ link' \in {link, link \cup outcome}
    /\ UNCHANGED <<fd, handles, loop>>

KeepsControl == UNCHANGED <<open, nonblocking, control>>
ReleasesControl == Closes(control) /\ control' = NoFd

\* A failure is reported and forgotten: the interface keeps the kernel's MTU.
MtuSocket == ControlSocket("mtu socket", "mtu", "address socket")
SetMtu ==
    /\ Ioctl("mtu", {"mtu"})
    /\ ReleasesControl
    /\ pc' = "address socket"
-----------------------------------------------------------------------------
(* tun_set_ip and tun_set_up; main looks at the result of neither. *)

\* What happens to the control socket when the first of two ioctls fails.
AfterRefusal_Leaks == control' = NoFd /\ UNCHANGED <<open, nonblocking>>
AfterRefusal == ReleasesControl

FirstIoctl(here, outcome, then, otherwise) ==
    /\ pc = here
    /\ \/ link' = link \cup outcome /\ pc' = then /\ KeepsControl
       \/ UNCHANGED link /\ pc' = otherwise /\ AfterRefusal
    /\ UNCHANGED <<fd, handles, loop>>

AddressSocket == ControlSocket("address socket", "address", "flags socket")
SetAddress == FirstIoctl("address", {"address"}, "netmask", "flags socket")
SetNetmask ==
    /\ Ioctl("netmask", {"netmask"})
    /\ ReleasesControl
    /\ pc' = "flags socket"

FlagsSocket == ControlSocket("flags socket", "get flags", "pollfds")
GetFlags == FirstIoctl("get flags", {}, "set flags", "pollfds")
SetFlags ==
    /\ Ioctl("set flags", {"up"})
    /\ ReleasesControl
    /\ pc' = "pollfds"

PolledDescriptors == {sock_fd} \cup (IF tun_fd # NoFd THEN {tun_fd} ELSE {})

SetUpPoll ==
    /\ pc = "pollfds"
    /\ polled' = PolledDescriptors
    /\ pc' = "test"
    /\ UNCHANGED <<kernel, locals, sock_fd, tun_fd, loop>>
-----------------------------------------------------------------------------
(* The loop is EventLoop's. *)

LoopStep ==
    /\ UNCHANGED <<kernel, locals, handles>>
    /\ Loop!Test \/ Loop!CallPoll \/ Loop!PollReturns \/ Loop!HandleUdp \/ Loop!HandleTun

PollFails == UNCHANGED <<kernel, locals, handles>> /\ Loop!PollFails
Signal == UNCHANGED <<kernel, locals, handles>> /\ Loop!Signal

\* The kernel queues packets on a bound socket, and on an interface that is up.
Arrive(d) ==
    /\ d = "tun" => "up" \in link
    /\ UNCHANGED <<kernel, locals, handles>>
    /\ Loop!Arrive(d)

\* peer_table_destroy, transport_close, tun_close, the static key: a handle
\* that is not -1 is closed, and an interface goes with its descriptor.
Closed == {sock_fd, tun_fd} \ {NoFd}

Shutdown ==
    /\ pc = "shutdown"
    /\ open' = [f \in Fds |-> IF f \in Closed THEN "free" ELSE open[f]]
    /\ nonblocking' = nonblocking \ Closed
    /\ link' = IF tun_fd \in Closed THEN {} ELSE link
    /\ sock_fd' = NoFd
    /\ tun_fd' = NoFd
    /\ secrets' = secrets \ {"session keys", "static_priv"}
    /\ pc' = "exited"
    /\ UNCHANGED <<locals, polled, g_running, waiting, revents, handled>>

Exited == pc = "exited" /\ UNCHANGED vars

Main ==
    \/ Start
    \/ CreateSocket \/ CreatePlainSocket \/ SetNonBlocking \/ Bind
    \/ OpenDevice \/ AttachDevice \/ MtuSocket \/ SetMtu
    \/ AddressSocket \/ SetAddress \/ SetNetmask
    \/ FlagsSocket \/ GetFlags \/ SetFlags
    \/ SetUpPoll \/ LoopStep \/ Shutdown

Next == Main \/ PollFails \/ Signal \/ (\E d \in Loop!Descriptors : Arrive(d)) \/ Exited

\* No system call of startup blocks, and EventLoop's reason for the rest.
Spec == Init /\ [][Next]_vars /\ WF_vars(Main)
-----------------------------------------------------------------------------
SocketSteps == {"socket", "plain socket", "fcntl", "bind"}
DeviceSteps == {"open device", "attach", "mtu socket", "mtu", "address socket", "address",
                "netmask", "flags socket", "get flags", "set flags"}
LoopSteps == {"test", "enter", "poll", "udp", "tun", "shutdown"}

\* Types; a variable of main holds a descriptor, -1, or nothing yet.
TypeOK ==
    /\ pc \in {"crypto", "pollfds", "exited"} \cup SocketSteps \cup DeviceSteps \cup LoopSteps
    /\ open \in [Fds -> {"free", "udp", "tun", "control"}]
    /\ nonblocking \subseteq Fds
    /\ link \subseteq {"exists", "mtu", "address", "netmask", "up"}
    /\ fd \in Fds \cup {NoFd} /\ control \in Fds \cup {NoFd}
    /\ sock_fd \in Fds \cup {NoFd} /\ tun_fd \in Fds \cup {NoFd, Garbage}
    /\ polled \subseteq Fds
    /\ g_running \in BOOLEAN
    /\ secrets \subseteq {"static_priv", "session keys", "chaining_key"}
    /\ waiting \in [Loop!Descriptors -> 0..QUEUE]
    /\ revents \in [Loop!Descriptors -> BOOLEAN]
    /\ handled \in [Loop!Descriptors -> Nat]

\* The open descriptors are exactly those some variable of the program holds,
\* each of the kind the variable is for: no failing path of transport_open,
\* tun_open, tun_set_ip or tun_set_up leaks a descriptor, and none leaves a
\* variable with a closed one that the kernel may hand out again.
NoLeakNoDangle ==
    \A f \in Fds :
        /\ open[f] = "udp" <=> f = sock_fd \/ (f = fd /\ pc # "attach")
        /\ open[f] = "tun" <=> f = tun_fd \/ (f = fd /\ pc = "attach")
        /\ open[f] = "control" <=> f = control

\* Whatever failed before, the loop runs with descriptors that never block it
\* (both ways of transport_open, and tun_open), with no garbage in tun.fd, and
\* polls exactly those it owns: an interface that is up is one the loop reads.
LoopIsEquipped ==
    pc \in LoopSteps =>
        /\ sock_fd \in polled
        /\ polled \subseteq nonblocking
        /\ tun_fd # Garbage
        /\ polled = {f \in Fds : open[f] # "free"}
        /\ "up" \in link => tun_fd \in polled

\* However the program ends, nothing it opened or configured is left.
NothingLeft == pc = "exited" => link = {} /\ \A f \in Fds : open[f] = "free"

\* What the proofs add to these: which variable holds a descriptor when, and
\* that a descriptor on its way to main is non-blocking; the other two
\* invariants follow from these.
ControlSteps == {"mtu", "address", "netmask", "get flags", "set flags"}
HeldAt ==
    /\ fd \in Fds <=> pc \in {"fcntl", "bind", "attach"}
    /\ control \in Fds <=> pc \in ControlSteps
    /\ sock_fd \in Fds <=> pc \in DeviceSteps \cup {"pollfds"} \cup LoopSteps
    /\ pc \in {"crypto", "open device"} \cup SocketSteps => tun_fd = Garbage
    /\ pc = "attach" => tun_fd = NoFd
    /\ pc \in DeviceSteps \ {"open device", "attach"} => tun_fd \in Fds
    /\ pc \in {"pollfds"} \cup LoopSteps => tun_fd # Garbage
    /\ pc = "exited" => tun_fd \notin Fds
    /\ pc \in {"bind", "attach"} => fd \in nonblocking
    /\ sock_fd \in Fds => sock_fd \in nonblocking
    /\ tun_fd \in Fds => tun_fd \in nonblocking
    /\ link # {} => tun_fd \in Fds
    /\ pc \in LoopSteps => polled = {f \in Fds : f = sock_fd \/ f = tun_fd}
    /\ pc = "crypto" => secrets = {}
    /\ pc \in SocketSteps \cup DeviceSteps => secrets = {"static_priv"}
    /\ "up" \in link => pc \notin DeviceSteps
IInv == TypeOK /\ NoLeakNoDangle /\ HeldAt /\ Loop!ReportedIsThere

\* EventLoop sees the startup in three steps.
CoarsePc ==
    IF pc \in SocketSteps THEN "socket"
    ELSE IF pc \in DeviceSteps THEN "tun device"
    ELSE IF pc = "pollfds" THEN "test"
    ELSE pc

CoarseSock == sock_fd # NoFd
CoarseTun == pc \in LoopSteps \cup {"pollfds"} /\ tun_fd # NoFd

EL == INSTANCE EventLoop WITH pc <- CoarsePc, sock <- CoarseSock, tun <- CoarseTun

\* The daemon taken apart behaves as EventLoop says, the fairness of EventLoop
\* included: what is checked and proved of EventLoop holds of the system calls.
RefinesEventLoop == EL!Spec

\* Its safety part.
RefinesSafely == EL!Init /\ [][EL!Next]_(EL!vars)
=============================================================================
