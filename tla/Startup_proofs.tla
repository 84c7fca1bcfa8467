--------------------------- MODULE Startup_proofs ---------------------------
(***************************************************************************)
(* The descriptors of the daemon, for every number of descriptors and      *)
(* every length of the kernel's queues: none leaks, none dangles, and the  *)
(* system calls implement the steps of EventLoop.                          *)
(***************************************************************************)
EXTENDS Startup, TLAPS

\* A descriptor that is free is held by no variable of the program.
LEMMA FreeIsUnheld ==
    ASSUME IInv, NEW f \in Fds, open[f] = "free"
    PROVE  f # sock_fd /\ f # tun_fd /\ f # fd /\ f # control
  BY DEF IInv, NoLeakNoDangle

\* The table of descriptors after one has been handed out, or taken back.
LEMMA OpenChanges ==
    ASSUME IInv, NEW f \in Fds, NEW kind \in {"udp", "tun", "control"}, Opens(f, kind)
    PROVE  /\ open' \in [Fds -> {"free", "udp", "tun", "control"}]
           /\ open'[f] = kind
           /\ \A g \in Fds : g # f => open'[g] = open[g]
           /\ f # sock_fd /\ f # tun_fd /\ f # fd /\ f # control
  BY FreeIsUnheld DEF IInv, TypeOK, Opens

\* Closing a descriptor frees it and no other.
LEMMA CloseChanges ==
    ASSUME IInv, NEW f \in Fds, Closes(f)
    PROVE  /\ open' \in [Fds -> {"free", "udp", "tun", "control"}]
           /\ open'[f] = "free"
           /\ \A g \in Fds : g # f => open'[g] = open[g]
           /\ nonblocking' = nonblocking \ {f}
  BY DEF IInv, TypeOK, Closes

USE DEF SocketSteps, DeviceSteps, LoopSteps, ControlSteps

\* Startup up to the bound socket keeps the invariant.
LEMMA SocketStepsKeep ==
    ASSUME IInv, Start \/ CreateSocket \/ CreatePlainSocket \/ SetNonBlocking \/ Bind
    PROVE  IInv'
<1> USE FdsAssumption
<1>1. CASE Start
  <2>1. TypeOK' /\ NoLeakNoDangle'
    BY <1>1 DEF IInv, TypeOK, NoLeakNoDangle, HeldAt, Start, kernel, locals, handles
  <2>2. HeldAt' /\ Loop!ReportedIsThere'
    BY <1>1 DEF IInv, HeldAt, Start, kernel, locals, handles, Loop!ReportedIsThere
  <2>. QED
    BY <2>1, <2>2 DEF IInv
<1>2. CASE CreateSocket
  <2>1. TypeOK'
    BY <1>2, OpenChanges DEF IInv, TypeOK, CreateSocket, handles, loop
  <2>2. NoLeakNoDangle'
    <3>1. pc = "socket" /\ pc' # "attach" /\ fd \notin Fds /\ UNCHANGED <<control, handles>>
      BY <1>2 DEF IInv, HeldAt, CreateSocket
    <3>2. ASSUME NEW f \in Fds, Opens(f, "udp"), fd' = f
          PROVE  NoLeakNoDangle'
      <4>1. /\ open'[f] = "udp" /\ \A g \in Fds : g # f => open'[g] = open[g]
            /\ f # sock_fd /\ f # tun_fd /\ f # fd /\ f # control
        BY <3>2, OpenChanges
      <4>. QED
        BY <3>1, <3>2, <4>1 DEF IInv, NoLeakNoDangle, handles
    <3>3. ASSUME UNCHANGED <<open, fd>>
          PROVE  NoLeakNoDangle'
      BY <3>1, <3>3 DEF IInv, NoLeakNoDangle, handles
    <3>. QED
      BY <1>2, <3>2, <3>3 DEF CreateSocket
  <2>3. Loop!ReportedIsThere'
    BY <1>2 DEF CreateSocket, Loop!ReportedIsThere
  <2>4. ASSUME NEW f \in Fds, fd' = f, nonblocking' = nonblocking \cup {f}, pc' = "bind"
        PROVE  HeldAt'
    BY <1>2, <2>4 DEF IInv, TypeOK, HeldAt, CreateSocket, handles, loop
  <2>5. ASSUME pc' = "plain socket", UNCHANGED <<nonblocking, fd>>
        PROVE  HeldAt'
    BY <1>2, <2>5 DEF IInv, TypeOK, HeldAt, CreateSocket, handles, loop
  <2>. QED
    BY <1>2, <2>1, <2>2, <2>3, <2>4, <2>5 DEF IInv, CreateSocket
<1>3. CASE CreatePlainSocket
  <2>1. TypeOK'
    BY <1>3, OpenChanges
       DEF IInv, TypeOK, CreatePlainSocket, handles, GiveUp, Loop!WipedOnFailure
  <2>2. NoLeakNoDangle'
    <3>1. /\ pc = "plain socket" /\ pc' # "attach" /\ fd \notin Fds
          /\ UNCHANGED <<control, handles>>
      BY <1>3 DEF IInv, HeldAt, CreatePlainSocket, GiveUp
    <3>2. ASSUME NEW f \in Fds, Opens(f, "udp"), fd' = f
          PROVE  NoLeakNoDangle'
      <4>1. /\ open'[f] = "udp" /\ \A g \in Fds : g # f => open'[g] = open[g]
            /\ f # sock_fd /\ f # tun_fd /\ f # fd /\ f # control
        BY <3>2, OpenChanges
      <4>. QED
        BY <3>1, <3>2, <4>1 DEF IInv, NoLeakNoDangle, handles
    <3>3. ASSUME UNCHANGED <<open, fd>>
          PROVE  NoLeakNoDangle'
      BY <3>1, <3>3 DEF IInv, NoLeakNoDangle, handles
    <3>. QED
      BY <1>3, <3>2, <3>3 DEF CreatePlainSocket
  <2>3. Loop!ReportedIsThere'
    BY <1>3 DEF CreatePlainSocket, GiveUp, Loop!ReportedIsThere
  <2>4. ASSUME NEW f \in Fds, fd' = f, pc' = "fcntl", UNCHANGED secrets
        PROVE  HeldAt'
    BY <1>3, <2>4 DEF IInv, TypeOK, HeldAt, CreatePlainSocket, handles
  <2>5. ASSUME pc' = "exited", UNCHANGED fd
        PROVE  HeldAt'
    BY <1>3, <2>5 DEF IInv, TypeOK, HeldAt, CreatePlainSocket, handles
  <2>. QED
    BY <1>3, <2>1, <2>2, <2>3, <2>4, <2>5 DEF IInv, CreatePlainSocket, GiveUp
<1>4. CASE SetNonBlocking
  <2>1. TypeOK' /\ NoLeakNoDangle'
    BY <1>4 DEF IInv, TypeOK, NoLeakNoDangle, HeldAt, SetNonBlocking, Fcntl, locals, handles, loop
  <2>2. HeldAt' /\ Loop!ReportedIsThere'
    BY <1>4 DEF IInv, TypeOK, HeldAt, SetNonBlocking, Fcntl, locals, handles, loop,
                Loop!ReportedIsThere
  <2>. QED
    BY <2>1, <2>2 DEF IInv
<1>5. CASE Bind
  <2>0. fd \in Fds /\ pc = "bind" /\ fd \in nonblocking /\ sock_fd \notin Fds
    BY <1>5 DEF IInv, HeldAt, Bind
  <2>1. TypeOK'
    BY <1>5, <2>0, CloseChanges DEF IInv, TypeOK, Bind, GiveUp, Loop!WipedOnFailure
  <2>2. Loop!ReportedIsThere'
    BY <1>5 DEF Bind, GiveUp, Loop!ReportedIsThere
  <2>3. ASSUME sock_fd' = fd, pc' = "open device", UNCHANGED <<open, nonblocking, secrets>>
        PROVE  NoLeakNoDangle' /\ HeldAt'
    <3>1. NoLeakNoDangle'
      BY <1>5, <2>0, <2>3 DEF IInv, TypeOK, NoLeakNoDangle, Bind
    <3>2. HeldAt'
      BY <1>5, <2>0, <2>3 DEF IInv, TypeOK, HeldAt, Bind
    <3>. QED
      BY <3>1, <3>2
  <2>4. ASSUME Closes(fd), pc' = "exited", UNCHANGED sock_fd
        PROVE  NoLeakNoDangle' /\ HeldAt'
    <3>1. NoLeakNoDangle'
      <4>1. UNCHANGED <<sock_fd, tun_fd, control>> /\ fd' = NoFd
        BY <1>5, <2>4 DEF Bind
      <4>2. \A g \in Fds : g # fd => open'[g] = open[g]
        BY <2>0, <2>4, CloseChanges
      <4>3. open'[fd] = "free" /\ open[fd] = "udp"
        BY <2>0, <2>4, CloseChanges DEF IInv, NoLeakNoDangle
      <4>. QED
        BY <2>0, <2>4, <4>1, <4>2, <4>3 DEF IInv, NoLeakNoDangle
    <3>2. HeldAt'
      BY <1>5, <2>0, <2>4 DEF IInv, TypeOK, HeldAt, Bind
    <3>. QED
      BY <3>1, <3>2
  <2>. QED
    BY <1>5, <2>1, <2>2, <2>3, <2>4 DEF IInv, Bind, GiveUp
<1>. QED
  BY <1>1, <1>2, <1>3, <1>4, <1>5

\* Opening the clone device keeps the invariant.
LEMMA OpenDeviceKeeps ==
    ASSUME IInv, OpenDevice PROVE IInv'
<1> USE FdsAssumption
<1>0. /\ pc = "open device" /\ fd \notin Fds /\ control \notin Fds /\ sock_fd \in Fds
      /\ tun_fd = Garbage /\ tun_fd' = NoFd /\ UNCHANGED <<control, sock_fd, polled, loop>>
      /\ UNCHANGED link /\ link = {} /\ secrets = {"static_priv"}
      /\ sock_fd \in nonblocking
  BY DEF IInv, HeldAt, OpenDevice
<1>1. TypeOK'
  BY <1>0, OpenChanges DEF IInv, TypeOK, OpenDevice, loop
<1>2. Loop!ReportedIsThere'
  BY DEF OpenDevice, Loop!ReportedIsThere
<1>3. ASSUME NEW f \in Fds, Opens(f, "tun"), fd' = f, pc' = "attach",
             nonblocking' = nonblocking \cup {f}
      PROVE  NoLeakNoDangle' /\ HeldAt'
  <2>1. /\ open'[f] = "tun" /\ \A g \in Fds : g # f => open'[g] = open[g]
        /\ f # sock_fd /\ f # tun_fd /\ f # fd /\ f # control
    BY <1>3, OpenChanges
  <2>2. NoLeakNoDangle'
    BY <1>0, <1>3, <2>1 DEF IInv, NoLeakNoDangle
  <2>3. HeldAt'
    BY <1>0, <1>3 DEF HeldAt, loop
  <2>. QED
    BY <2>2, <2>3
<1>4. ASSUME pc' = "pollfds", UNCHANGED <<open, nonblocking, fd>>
      PROVE  NoLeakNoDangle' /\ HeldAt'
  <2>1. NoLeakNoDangle'
    BY <1>0, <1>4 DEF IInv, NoLeakNoDangle
  <2>2. HeldAt'
    BY <1>0, <1>4 DEF HeldAt, loop
  <2>. QED
    BY <2>1, <2>2
<1>. QED
  BY <1>1, <1>2, <1>3, <1>4 DEF IInv, OpenDevice

\* TUNSETIFF keeps the invariant, granted or refused.
LEMMA AttachDeviceKeeps ==
    ASSUME IInv, AttachDevice PROVE IInv'
<1> USE FdsAssumption
<1>0. /\ pc = "attach" /\ fd \in Fds /\ control \notin Fds /\ sock_fd \in Fds
      /\ tun_fd = NoFd /\ fd' = NoFd /\ UNCHANGED <<control, sock_fd, polled, loop>>
      /\ link = {} /\ secrets = {"static_priv"} /\ {sock_fd, fd} \subseteq nonblocking
      /\ open[fd] = "tun" /\ open[sock_fd] = "udp"
  BY DEF IInv, HeldAt, AttachDevice, NoLeakNoDangle
<1>1. TypeOK'
  BY <1>0, CloseChanges, ZenonT(60) DEF IInv, TypeOK, AttachDevice, loop
<1>2. Loop!ReportedIsThere'
  BY DEF AttachDevice, Loop!ReportedIsThere
<1>3. ASSUME link' = {"exists"}, tun_fd' = fd, pc' = "mtu socket",
             UNCHANGED <<open, nonblocking>>
      PROVE  NoLeakNoDangle' /\ HeldAt'
  <2>1. NoLeakNoDangle'
    BY <1>0, <1>3 DEF IInv, NoLeakNoDangle
  <2>2. HeldAt'
    BY <1>0, <1>3 DEF HeldAt, loop
  <2>. QED
    BY <2>1, <2>2
<1>4. ASSUME Closes(fd), pc' = "pollfds", UNCHANGED <<link, tun_fd>>
      PROVE  NoLeakNoDangle' /\ HeldAt'
  <2>1. /\ open'[fd] = "free" /\ \A g \in Fds : g # fd => open'[g] = open[g]
        /\ nonblocking' = nonblocking \ {fd}
    BY <1>0, <1>4, CloseChanges
  <2>2. NoLeakNoDangle'
    BY <1>0, <1>4, <2>1 DEF IInv, NoLeakNoDangle
  <2>3. HeldAt'
    BY <1>0, <1>4, <2>1 DEF HeldAt, loop
  <2>. QED
    BY <2>2, <2>3
<1>. QED
  BY <1>1, <1>2, <1>3, <1>4 DEF IInv, AttachDevice

\* The points of main after which a function of tun.c opens a control socket,
\* or main goes on.
Between == {"mtu socket", "address socket", "flags socket", "pollfds"}

\* Opening a control socket keeps the invariant, also when it fails.
LEMMA ControlSocketKeeps ==
    ASSUME IInv,
           NEW here \in Between \ {"pollfds"}, NEW then \in ControlSteps,
           NEW otherwise \in Between, ControlSocket(here, then, otherwise)
    PROVE  IInv'
<1> USE FdsAssumption
<1>0. /\ pc \in Between \ {"pollfds"} /\ fd \notin Fds /\ control \notin Fds
      /\ sock_fd \in Fds /\ tun_fd \in Fds /\ secrets = {"static_priv"}
      /\ {sock_fd, tun_fd} \subseteq nonblocking /\ "up" \notin link /\ open[sock_fd] = "udp"
      /\ UNCHANGED <<nonblocking, link, fd, sock_fd, tun_fd, polled, loop>>
  BY DEF IInv, HeldAt, ControlSocket, NoLeakNoDangle, handles, Between
<1>1. TypeOK'
  BY <1>0, OpenChanges, ZenonT(60) DEF IInv, TypeOK, ControlSocket, loop, Between
<1>2. Loop!ReportedIsThere'
  BY DEF ControlSocket, Loop!ReportedIsThere, Between
<1>3. ASSUME NEW f \in Fds, Opens(f, "control"), control' = f, pc' = then
      PROVE  NoLeakNoDangle' /\ HeldAt'
  <2>1. /\ open'[f] = "control" /\ \A g \in Fds : g # f => open'[g] = open[g]
        /\ f # sock_fd /\ f # tun_fd /\ f # fd /\ f # control
    BY <1>3, OpenChanges
  <2>2. pc' # "attach" /\ pc # "attach"
    BY <1>0, <1>3 DEF Between
  <2>3. NoLeakNoDangle'
    BY <1>0, <1>3, <2>1, <2>2 DEF IInv, NoLeakNoDangle
  <2>4. HeldAt'
    BY <1>0, <1>3 DEF HeldAt, loop
  <2>. QED
    BY <2>3, <2>4
<1>4. ASSUME pc' = otherwise, UNCHANGED <<open, control>>
      PROVE  NoLeakNoDangle' /\ HeldAt'
  <2>1. NoLeakNoDangle'
    BY <1>0, <1>4 DEF IInv, NoLeakNoDangle, Between
  <2>2. HeldAt'
    BY <1>0, <1>4 DEF HeldAt, loop, Between
  <2>. QED
    BY <2>1, <2>2
<1>. QED
  BY <1>1, <1>2, <1>3, <1>4 DEF IInv, ControlSocket

\* So does closing it, whatever the ioctl before has done to the interface.
LEMMA ReleasesControlKeeps ==
    ASSUME IInv, pc \in ControlSteps, ReleasesControl,
           UNCHANGED <<fd, handles, loop>>, pc' \in Between \ {"mtu socket"},
           link' \subseteq {"exists", "mtu", "address", "netmask", "up"},
           "up" \in link' => pc' = "pollfds"
    PROVE  IInv'
<1> USE FdsAssumption
<1>0. /\ fd \notin Fds /\ control \in Fds /\ control' = NoFd
      /\ sock_fd \in Fds /\ tun_fd \in Fds /\ secrets = {"static_priv"}
      /\ {sock_fd, tun_fd} \subseteq nonblocking
      /\ open[sock_fd] = "udp" /\ open[control] = "control" /\ open[tun_fd] = "tun"
      /\ UNCHANGED <<fd, sock_fd, tun_fd, polled, loop>>
  BY DEF IInv, HeldAt, NoLeakNoDangle, handles, ReleasesControl
<1>1. /\ open' \in [Fds -> {"free", "udp", "tun", "control"}]
      /\ open'[control] = "free" /\ \A g \in Fds : g # control => open'[g] = open[g]
      /\ nonblocking' = nonblocking \ {control}
  BY <1>0, CloseChanges DEF ReleasesControl
<1>2. TypeOK'
  BY <1>0, <1>1 DEF IInv, TypeOK, loop, Between
<1>3. Loop!ReportedIsThere'
  BY DEF Loop!ReportedIsThere, Between
<1>4. NoLeakNoDangle'
  BY <1>0, <1>1 DEF IInv, NoLeakNoDangle, Between
<1>5. HeldAt'
  BY <1>0, <1>1 DEF HeldAt, loop, Between
<1>. QED
  BY <1>2, <1>3, <1>4, <1>5 DEF IInv

\* tun_open, tun_set_ip and tun_set_up keep the invariant on every way out.
LEMMA DeviceStepsKeep ==
    ASSUME IInv,
           \/ MtuSocket \/ SetMtu \/ AddressSocket \/ SetAddress \/ SetNetmask
           \/ FlagsSocket \/ GetFlags \/ SetFlags
    PROVE  IInv'
<1>1. CASE MtuSocket \/ AddressSocket \/ FlagsSocket
  BY <1>1, ControlSocketKeeps DEF MtuSocket, AddressSocket, FlagsSocket, Between
<1>0. "up" \in link => pc \notin DeviceSteps
  BY DEF IInv, HeldAt
<1>2. CASE SetMtu \/ SetNetmask \/ SetFlags
  <2>1. link' \subseteq {"exists", "mtu", "address", "netmask", "up"}
    BY <1>2 DEF IInv, TypeOK, SetMtu, SetNetmask, SetFlags, Ioctl
  <2>2. /\ pc \in ControlSteps /\ ReleasesControl /\ UNCHANGED <<fd, handles, loop>>
        /\ pc' \in Between \ {"mtu socket"}
        /\ "up" \in link' => pc' = "pollfds"
    BY <1>0, <1>2 DEF SetMtu, SetNetmask, SetFlags, Ioctl, Between
  <2>. QED
    BY <2>1, <2>2, ReleasesControlKeeps
<1>3. CASE SetAddress \/ GetFlags
  <2>1. UNCHANGED <<fd, handles, loop>> /\ pc \in {"address", "get flags"}
    BY <1>3 DEF SetAddress, GetFlags, FirstIoctl
  <2>2. ASSUME ReleasesControl, UNCHANGED link, pc' \in Between \ {"mtu socket"}
        PROVE  IInv'
    BY <1>0, <2>1, <2>2, ReleasesControlKeeps DEF IInv, TypeOK
  <2>3. ASSUME KeepsControl, pc' \in {"netmask", "set flags"},
               link' \in {link, link \cup {"address"}}
        PROVE  IInv'
    <3>1. /\ UNCHANGED <<open, nonblocking, control>>
          /\ UNCHANGED <<fd, sock_fd, tun_fd, polled, loop>>
      BY <2>1, <2>3 DEF KeepsControl, handles
    <3>2. TypeOK' /\ Loop!ReportedIsThere'
      BY <2>1, <2>3, <3>1 DEF IInv, TypeOK, loop, Loop!ReportedIsThere
    <3>3. NoLeakNoDangle'
      BY <2>1, <2>3, <3>1 DEF IInv, NoLeakNoDangle
    <3>4. HeldAt'
      BY <2>1, <2>3, <3>1 DEF IInv, HeldAt, loop
    <3>. QED
      BY <3>2, <3>3, <3>4 DEF IInv
  <2>. QED
    BY <1>3, <2>2, <2>3 DEF SetAddress, GetFlags, FirstIoctl, AfterRefusal, Between
<1>. QED
  BY <1>1, <1>2, <1>3

\* So does filling in main's pollfd array.
LEMMA SetUpPollKeeps ==
    ASSUME IInv, SetUpPoll PROVE IInv'
<1> USE FdsAssumption
<1>1. /\ pc = "pollfds" /\ pc' = "test" /\ UNCHANGED <<open, nonblocking, link, fd, control>>
      /\ UNCHANGED <<sock_fd, tun_fd, loop>> /\ sock_fd \in Fds /\ tun_fd \in Fds \cup {NoFd}
  BY DEF IInv, TypeOK, HeldAt, SetUpPoll, kernel, locals
<1>2. polled' = {f \in Fds : f = sock_fd \/ f = tun_fd}
  <2>1. CASE tun_fd = NoFd
    BY <1>1, <2>1 DEF SetUpPoll, PolledDescriptors
  <2>2. CASE tun_fd \in Fds
    BY <1>1, <2>2 DEF SetUpPoll, PolledDescriptors
  <2>. QED
    BY <1>1, <2>1, <2>2
<1>3. TypeOK'
  BY <1>1, <1>2 DEF IInv, TypeOK, loop
<1>4. NoLeakNoDangle' /\ Loop!ReportedIsThere'
  BY <1>1 DEF IInv, NoLeakNoDangle, Loop!ReportedIsThere
<1>5. HeldAt'
  BY <1>1, <1>2 DEF IInv, HeldAt, loop
<1>. QED
  BY <1>3, <1>4, <1>5 DEF IInv

\* A step that touches no descriptor keeps what the invariant says of them.
LEMMA DescriptorsKept ==
    ASSUME IInv, UNCHANGED <<kernel, locals, handles>>,
           \/ pc' = pc /\ UNCHANGED secrets
           \/ pc \in LoopSteps /\ pc' \in LoopSteps
    PROVE  NoLeakNoDangle' /\ HeldAt'
<1>1. UNCHANGED <<open, nonblocking, link, fd, control, sock_fd, tun_fd, polled>>
  BY DEF kernel, locals, handles
<1>2. NoLeakNoDangle'
  BY <1>1 DEF IInv, NoLeakNoDangle
<1>3. HeldAt'
  <2>1. CASE pc' = pc /\ UNCHANGED secrets
    BY <1>1, <2>1 DEF IInv, HeldAt
  <2>2. CASE pc \in LoopSteps /\ pc' \in LoopSteps
    BY <1>1, <2>2 DEF IInv, HeldAt
  <2>. QED
    BY <2>1, <2>2
<1>. QED
  BY <1>2, <1>3

\* A handler takes one packet that is there, an arrival adds one there is room
\* for: the queues keep their type.
LEMMA QueuesKeepType ==
    ASSUME waiting \in [Loop!Descriptors -> 0..QUEUE], handled \in [Loop!Descriptors -> Nat],
           NEW d \in Loop!Descriptors
    PROVE  /\ waiting[d] > 0 /\ Loop!Handle(d) =>
                 /\ waiting' \in [Loop!Descriptors -> 0..QUEUE]
                 /\ handled' \in [Loop!Descriptors -> Nat]
           /\ Loop!Arrive(d) =>
                 /\ waiting' \in [Loop!Descriptors -> 0..QUEUE]
                 /\ \A e \in Loop!Descriptors : waiting[e] > 0 => waiting'[e] > 0
<1> USE QueuesAssumption
<1>1. waiting[d] \in 0..QUEUE /\ handled[d] \in Nat
  OBVIOUS
<1>2. ASSUME waiting[d] > 0, Loop!Handle(d)
      PROVE  /\ waiting' \in [Loop!Descriptors -> 0..QUEUE]
             /\ handled' \in [Loop!Descriptors -> Nat]
  <2>1. waiting[d] - 1 \in 0..QUEUE /\ handled[d] + 1 \in Nat
    BY <1>1, <1>2
  <2>. QED
    BY <1>2, <2>1 DEF Loop!Handle
<1>3. ASSUME Loop!Arrive(d)
      PROVE  /\ waiting' \in [Loop!Descriptors -> 0..QUEUE]
             /\ \A e \in Loop!Descriptors : waiting[e] > 0 => waiting'[e] > 0
  <2>1. waiting[d] + 1 \in 0..QUEUE /\ waiting[d] + 1 > 0
    BY <1>1, <1>3 DEF Loop!Arrive
  <2>2. waiting' = [waiting EXCEPT ![d] = waiting[d] + 1]
    BY <1>3 DEF Loop!Arrive
  <2>. QED
    BY <2>1, <2>2
<1>. QED
  BY <1>2, <1>3

\* The loop of EventLoop, the signals and the arrivals keep the invariant.
LEMMA LoopStepsKeep ==
    ASSUME IInv, NEW d \in Loop!Descriptors,
           LoopStep \/ PollFails \/ Signal \/ Arrive(d)
    PROVE  IInv'
<1>0. UNCHANGED <<kernel, locals, handles>>
  BY DEF LoopStep, PollFails, Signal, Arrive
<1>1. UNCHANGED <<open, nonblocking, link, fd, control, sock_fd, tun_fd, polled>>
  BY <1>0 DEF kernel, locals, handles
<1>2. CASE Loop!Test \/ Loop!CallPoll \/ Loop!PollFails \/ Loop!PollReturns
  <2>1. /\ pc \in LoopSteps /\ pc' \in LoopSteps /\ UNCHANGED <<g_running, secrets, waiting, handled>>
        /\ revents' \in [Loop!Descriptors -> BOOLEAN]
    BY <1>2 DEF IInv, TypeOK, Loop!Test, Loop!TestRunning, Loop!CallPoll, Loop!PollFails,
                Loop!PollReturns, Loop!Readable
  <2>2. TypeOK'
    BY <1>1, <2>1 DEF IInv, TypeOK
  <2>3. Loop!ReportedIsThere'
    BY <1>1, <1>2, <2>1 DEF Loop!ReportedIsThere, Loop!Test, Loop!TestRunning, Loop!CallPoll,
        Loop!PollFails, Loop!PollReturns, Loop!Readable, Loop!Descriptors
  <2>. QED
    BY <1>0, <2>1, <2>2, <2>3, DescriptorsKept DEF IInv
<1>3. CASE Loop!HandleUdp \/ Loop!HandleTun
  <2>1. /\ pc \in LoopSteps /\ pc' \in LoopSteps /\ UNCHANGED <<g_running, revents>>
    BY <1>3 DEF Loop!HandleUdp, Loop!HandleTun
  <2>2. /\ waiting' \in [Loop!Descriptors -> 0..QUEUE]
        /\ handled' \in [Loop!Descriptors -> Nat]
        /\ secrets' \subseteq {"static_priv", "session keys", "chaining_key"}
    <3>1. /\ waiting \in [Loop!Descriptors -> 0..QUEUE]
          /\ handled \in [Loop!Descriptors -> Nat]
          /\ secrets \subseteq {"static_priv", "session keys", "chaining_key"}
          /\ "udp" \in Loop!Descriptors /\ "tun" \in Loop!Descriptors
      BY DEF IInv, TypeOK, Loop!Descriptors
    <3>2. CASE Loop!HandleUdp
      BY <3>1, <3>2, QueuesKeepType
         DEF IInv, Loop!HandleUdp, Loop!Overwritten, Loop!ReportedIsThere
    <3>3. CASE Loop!HandleTun
      BY <3>1, <3>3, QueuesKeepType
         DEF IInv, Loop!HandleTun, Loop!TunIsDue, Loop!Overwritten, Loop!ReportedIsThere
    <3>. QED
      BY <1>3, <3>2, <3>3
  <2>3. TypeOK'
    BY <1>1, <2>1, <2>2 DEF IInv, TypeOK
  <2>4. Loop!ReportedIsThere'
    BY <1>1, <1>3 DEF IInv, TypeOK, Loop!ReportedIsThere, Loop!HandleUdp, Loop!HandleTun,
        Loop!Handle, Loop!Descriptors
  <2>. QED
    BY <1>0, <2>1, <2>3, <2>4, DescriptorsKept DEF IInv
<1>4. CASE Loop!Signal
  <2>1. /\ pc' = pc \/ (pc \in LoopSteps /\ pc' = "test")
        /\ UNCHANGED <<secrets, waiting, revents, handled>> /\ g_running' = FALSE
    BY <1>4 DEF Loop!Signal, Loop!AfterInterrupt
  <2>2. TypeOK'
    BY <1>1, <2>1, ZenonT(60) DEF IInv, TypeOK
  <2>3. Loop!ReportedIsThere'
    BY <1>1, <2>1 DEF IInv, Loop!ReportedIsThere
  <2>. QED
    BY <1>0, <2>1, <2>2, <2>3, DescriptorsKept DEF IInv
<1>5. CASE Loop!Arrive(d)
  <2>1. UNCHANGED <<pc, g_running, secrets, revents, handled>>
    BY <1>5 DEF Loop!Arrive
  <2>2. /\ waiting' \in [Loop!Descriptors -> 0..QUEUE]
        /\ \A e \in Loop!Descriptors : waiting[e] > 0 => waiting'[e] > 0
    BY <1>5, QueuesKeepType DEF IInv, TypeOK
  <2>3. TypeOK'
    BY <1>1, <2>1, <2>2 DEF IInv, TypeOK
  <2>4. Loop!ReportedIsThere'
    BY <1>1, <2>1, <2>2 DEF IInv, Loop!ReportedIsThere, Loop!Descriptors
  <2>. QED
    BY <1>0, <2>1, <2>3, <2>4, DescriptorsKept DEF IInv
<1>. QED
  BY <1>2, <1>3, <1>4, <1>5 DEF LoopStep, PollFails, Signal, Arrive

\* transport_close and tun_close take back what main holds, which is all there is.
LEMMA ShutdownKeeps ==
    ASSUME IInv, Shutdown PROVE IInv'
<1> USE FdsAssumption
<1>1. /\ pc = "shutdown" /\ pc' = "exited" /\ UNCHANGED <<fd, control, polled>>
      /\ sock_fd' = NoFd /\ tun_fd' = NoFd /\ fd \notin Fds /\ control \notin Fds
      /\ tun_fd \in Fds \cup {NoFd} /\ sock_fd \in Fds
      /\ UNCHANGED <<g_running, waiting, revents, handled>>
  BY DEF IInv, TypeOK, HeldAt, Shutdown, locals
<1>2. open' = [f \in Fds |-> "free"]
  <2>1. ASSUME NEW f \in Fds, f \notin Closed PROVE open[f] = "free"
    <3>1. f # sock_fd /\ f # tun_fd /\ f # fd /\ f # control
      BY <1>1, <2>1 DEF Closed
    <3>2. open[f] # "udp" /\ open[f] # "tun" /\ open[f] # "control"
      BY <3>1 DEF IInv, NoLeakNoDangle
    <3>3. open[f] \in {"free", "udp", "tun", "control"}
      BY DEF IInv, TypeOK
    <3>. QED
      BY <3>2, <3>3
  <2>2. open' = [f \in Fds |-> IF f \in Closed THEN "free" ELSE open[f]]
    BY DEF Shutdown
  <2>. QED
    BY <2>1, <2>2
<1>3. link' = {}
  BY <1>1 DEF IInv, HeldAt, Shutdown, Closed
<1>4. TypeOK'
  <2>1. open' \in [Fds -> {"free", "udp", "tun", "control"}]
    BY <1>2
  <2>2. secrets' \subseteq {"static_priv", "session keys", "chaining_key"} /\ nonblocking' \subseteq Fds
    BY DEF IInv, TypeOK, Shutdown
  <2>. QED
    BY <1>1, <1>3, <2>1, <2>2 DEF IInv, TypeOK
<1>5. NoLeakNoDangle' /\ Loop!ReportedIsThere'
  BY <1>1, <1>2 DEF NoLeakNoDangle, Loop!ReportedIsThere
<1>6. HeldAt'
  BY <1>1, <1>3 DEF HeldAt
<1>. QED
  BY <1>4, <1>5, <1>6 DEF IInv

\* IInv holds of every reachable state.
LEMMA InductiveInvariant == Spec => []IInv
<1>1. Init => IInv
  <2> SUFFICES ASSUME Init PROVE IInv
    OBVIOUS
  <2>1. TypeOK
    BY QueuesAssumption DEF Init, TypeOK, Loop!None
  <2>2. NoLeakNoDangle /\ Loop!ReportedIsThere
    BY FdsAssumption DEF Init, NoLeakNoDangle, Loop!ReportedIsThere
  <2>3. HeldAt
    BY FdsAssumption DEF Init, HeldAt
  <2>. QED
    BY <2>1, <2>2, <2>3 DEF IInv
<1>2. IInv /\ [Next]_vars => IInv'
  <2> SUFFICES ASSUME IInv, [Next]_vars PROVE IInv'
    OBVIOUS
  <2>1. CASE UNCHANGED vars
    <3>1. /\ UNCHANGED <<pc, open, nonblocking, link, fd, control, sock_fd, tun_fd, polled>>
          /\ UNCHANGED <<g_running, secrets, waiting, revents, handled>>
      BY <2>1 DEF vars, kernel, locals, handles, loop
    <3>2. TypeOK'
      BY <3>1 DEF IInv, TypeOK
    <3>3. NoLeakNoDangle' /\ HeldAt'
      BY <2>1, <3>1, DescriptorsKept DEF vars
    <3>4. Loop!ReportedIsThere'
      BY <3>1 DEF IInv, Loop!ReportedIsThere
    <3>. QED
      BY <3>2, <3>3, <3>4 DEF IInv
  <2>2. CASE Main
    <3>1. "udp" \in Loop!Descriptors
      BY DEF Loop!Descriptors
    <3>2. ASSUME LoopStep PROVE IInv'
      BY <3>1, <3>2, LoopStepsKeep
    <3>. QED
      BY <2>2, <3>2, SocketStepsKeep, OpenDeviceKeeps, AttachDeviceKeeps, DeviceStepsKeep,
         SetUpPollKeeps, ShutdownKeeps, Zenon DEF Main
  <2>3. CASE PollFails \/ Signal \/ (\E d \in Loop!Descriptors : Arrive(d))
    <3>1. "udp" \in Loop!Descriptors
      BY DEF Loop!Descriptors
    <3>. QED
      BY <2>3, <3>1, LoopStepsKeep
  <2>. QED
    BY <2>1, <2>2, <2>3 DEF Next, Exited
<1>. QED
  BY <1>1, <1>2, PTL DEF Spec

\* No path through transport_open, tun_open, tun_set_ip and tun_set_up leaks a
\* descriptor or leaves a dangling one, however many there are.
THEOREM DescriptorsExact == Spec => []NoLeakNoDangle
<1>1. IInv => NoLeakNoDangle
  BY DEF IInv
<1>. QED
  BY <1>1, InductiveInvariant, PTL

\* Whatever failed before it, the loop polls exactly the descriptors main
\* owns, all of them non-blocking.
THEOREM LoopEquipped == Spec => []LoopIsEquipped
<1>1. IInv => LoopIsEquipped
  <2> SUFFICES ASSUME IInv, pc \in LoopSteps PROVE LoopIsEquipped
    BY DEF LoopIsEquipped
  <2>1. /\ fd \notin Fds /\ control \notin Fds /\ sock_fd \in Fds /\ tun_fd # Garbage
        /\ sock_fd \in nonblocking /\ (tun_fd \in Fds => tun_fd \in nonblocking)
        /\ polled = {f \in Fds : f = sock_fd \/ f = tun_fd}
        /\ "up" \in link => tun_fd \in Fds
    BY DEF IInv, HeldAt
  <2>2. \A f \in Fds : open[f] # "free" <=> f = sock_fd \/ f = tun_fd
    BY <2>1 DEF IInv, TypeOK, NoLeakNoDangle
  <2>. QED
    BY <2>1, <2>2 DEF LoopIsEquipped
<1>. QED
  BY <1>1, InductiveInvariant, PTL

\* However the program ends, every descriptor is closed and the interface gone.
THEOREM NothingLeftBehind == Spec => []NothingLeft
<1>1. IInv => NothingLeft
  <2> SUFFICES ASSUME IInv, pc = "exited" PROVE NothingLeft
    BY DEF NothingLeft
  <2>1. /\ fd \notin Fds /\ control \notin Fds /\ sock_fd \notin Fds /\ tun_fd \notin Fds
        /\ link = {}
    BY DEF IInv, HeldAt
  <2>2. \A f \in Fds : open[f] = "free"
    BY <2>1 DEF IInv, TypeOK, NoLeakNoDangle
  <2>. QED
    BY <2>1, <2>2 DEF NothingLeft
<1>. QED
  BY <1>1, InductiveInvariant, PTL

\* Types, for every number of descriptors.
THEOREM TypeCorrect == Spec => []TypeOK
<1>1. IInv => TypeOK
  BY DEF IInv
<1>. QED
  BY <1>1, InductiveInvariant, PTL
-----------------------------------------------------------------------------
(* The refinement.  A leaf either works out what a step does to the three  *)
(* expressions that EventLoop's variables stand for, or uses only that.    *)

\* vpn_crypto_init and transport_open are EventLoop's Start and OpenSocket.
LEMMA SocketStepsRefine ==
    ASSUME IInv, Start \/ CreateSocket \/ CreatePlainSocket \/ SetNonBlocking \/ Bind
    PROVE  EL!Next \/ UNCHANGED EL!vars
<1> USE FdsAssumption
<1>1. CASE Start
  <2>1. /\ CoarsePc = "crypto" /\ CoarsePc' \in {"exited", "socket"}
        /\ CoarsePc' = pc' /\ CoarseTun = FALSE /\ CoarseTun' = FALSE
    BY <1>1 DEF Start, CoarsePc, CoarseTun
  <2>2. CoarseSock' = CoarseSock
    BY <1>1 DEF Start, CoarseSock, handles
  <2>3. EL!Start
    BY <1>1, <2>1, <2>2 DEF Start, EL!Start
  <2>. QED
    BY <2>3 DEF EL!Next, EL!Main
<1>2. CASE \/ CreateSocket \/ SetNonBlocking
           \/ (CreatePlainSocket /\ pc' = "fcntl" /\ UNCHANGED secrets)
  <2>1. pc \in SocketSteps /\ pc' \in SocketSteps /\ UNCHANGED <<sock_fd, loop>>
    BY <1>2 DEF CreateSocket, SetNonBlocking, CreatePlainSocket, handles, loop
  <2>2. CoarsePc' = CoarsePc /\ CoarseTun' = CoarseTun /\ CoarseSock' = CoarseSock
    BY <2>1 DEF CoarsePc, CoarseTun, CoarseSock
  <2>. QED
    BY <2>1, <2>2 DEF EL!vars, loop
<1>3. CASE CreatePlainSocket /\ GiveUp
  <2>1. /\ pc = "plain socket" /\ pc' = "exited" /\ UNCHANGED sock_fd
        /\ secrets' = Loop!WipedOnFailure /\ UNCHANGED <<g_running, waiting, revents, handled>>
    BY <1>3 DEF CreatePlainSocket, GiveUp, handles
  <2>2. /\ CoarsePc = "socket" /\ CoarsePc' = "exited"
        /\ CoarseTun' = CoarseTun /\ CoarseSock' = CoarseSock
    BY <2>1 DEF CoarsePc, CoarseTun, CoarseSock
  <2>3. EL!OpenSocket
    BY <2>1, <2>2 DEF EL!OpenSocket, EL!WipedOnFailure, Loop!WipedOnFailure
  <2>. QED
    BY <2>3 DEF EL!Next, EL!Main
<1>4. CASE Bind
  <2>1. /\ pc = "bind" /\ fd \in Fds /\ UNCHANGED <<g_running, waiting, revents, handled>>
        /\ CoarsePc = "socket" /\ CoarseTun = FALSE /\ CoarseTun' = FALSE
    BY <1>4 DEF IInv, HeldAt, Bind, GiveUp, CoarsePc, CoarseTun
  <2>2. ASSUME sock_fd' = fd, pc' = "open device", UNCHANGED secrets
        PROVE  EL!OpenSocket
    <3>1. CoarsePc' = "tun device" /\ CoarseSock' = TRUE
      BY <2>1, <2>2 DEF CoarsePc, CoarseSock
    <3>. QED
      BY <2>1, <2>2, <3>1 DEF EL!OpenSocket
  <2>3. ASSUME GiveUp, UNCHANGED sock_fd
        PROVE  EL!OpenSocket
    <3>1. CoarsePc' = "exited" /\ CoarseSock' = CoarseSock
      BY <2>1, <2>3 DEF CoarsePc, CoarseSock, GiveUp
    <3>. QED
      BY <2>1, <2>3, <3>1 DEF EL!OpenSocket, EL!WipedOnFailure, Loop!WipedOnFailure, GiveUp
  <2>. QED
    BY <1>4, <2>2, <2>3 DEF Bind, EL!Next, EL!Main
<1>. QED
  BY <1>1, <1>2, <1>3, <1>4 DEF CreatePlainSocket

\* The functions of tun.c are EventLoop's OpenTun: the last of them takes it.
LEMMA DeviceStepRefines ==
    ASSUME IInv, pc \in DeviceSteps, pc' \in DeviceSteps \cup {"pollfds"},
           UNCHANGED <<sock_fd, loop>>
    PROVE  EL!Next \/ UNCHANGED EL!vars
<1>1. CoarsePc = "tun device" /\ CoarseTun = FALSE /\ CoarseSock' = CoarseSock
  BY DEF CoarsePc, CoarseTun, CoarseSock
<1>2. CASE pc' \in DeviceSteps
  <2>1. CoarsePc' = "tun device" /\ CoarseTun' = FALSE
    BY <1>2 DEF CoarsePc, CoarseTun
  <2>. QED
    BY <1>1, <2>1 DEF EL!vars, loop
<1>3. CASE pc' = "pollfds"
  <2>1. CoarsePc' = "test" /\ CoarseTun' \in BOOLEAN
    BY <1>3 DEF CoarsePc, CoarseTun
  <2>2. EL!OpenTun
    BY <1>1, <2>1 DEF EL!OpenTun, loop
  <2>. QED
    BY <2>2 DEF EL!Next, EL!Main
<1>. QED
  BY <1>2, <1>3

\* In the loop EventLoop sees main's own variables.
LEMMA LoopStepsRefine ==
    ASSUME IInv, LoopStep \/ PollFails
    PROVE  EL!Next
<1>1. pc \in LoopSteps /\ pc' \in LoopSteps /\ UNCHANGED <<sock_fd, tun_fd>>
  BY DEF LoopStep, PollFails, handles, Loop!Test, Loop!TestRunning, Loop!CallPoll,
         Loop!PollReturns, Loop!PollFails, Loop!HandleUdp, Loop!HandleTun
<1>2. /\ CoarsePc = pc /\ CoarsePc' = pc' /\ CoarseSock' = CoarseSock /\ CoarseTun' = CoarseTun
      /\ CoarseTun = (tun_fd # NoFd)
  BY <1>1 DEF CoarsePc, CoarseTun, CoarseSock
<1>3. CASE Loop!Test \/ Loop!CallPoll \/ Loop!PollFails
  BY <1>2, <1>3 DEF EL!Next, EL!Main, EL!Test, EL!TestRunning, EL!CallPoll, EL!PollFails,
                    Loop!Test, Loop!TestRunning, Loop!CallPoll, Loop!PollFails
<1>4. CASE Loop!PollReturns
  <2>1. Loop!Readable = EL!Readable
    BY <1>2 DEF Loop!Readable, EL!Readable, Loop!Descriptors, EL!Descriptors
  <2>2. EL!PollReturns
    BY <1>2, <1>4, <2>1 DEF EL!PollReturns, Loop!PollReturns, EL!MayReturn
  <2>. QED
    BY <2>2 DEF EL!Next, EL!Main
<1>5. CASE Loop!HandleUdp
  <2>1. EL!HandleUdp
    BY <1>2, <1>5 DEF EL!HandleUdp, Loop!HandleUdp, EL!Handle, Loop!Handle,
                      EL!Overwritten, Loop!Overwritten
  <2>. QED
    BY <2>1 DEF EL!Next, EL!Main
<1>6. CASE Loop!HandleTun
  <2>1. EL!HandleTun
    BY <1>2, <1>6 DEF EL!HandleTun, Loop!HandleTun, EL!Handle, Loop!Handle,
                      EL!TunIsDue, Loop!TunIsDue, EL!Overwritten, Loop!Overwritten
  <2>. QED
    BY <2>1 DEF EL!Next, EL!Main
<1>. QED
  BY <1>3, <1>4, <1>5, <1>6 DEF LoopStep, PollFails

\* A signal finds main at the same point for EventLoop, and poll interrupted.
LEMMA SignalRefines ==
    ASSUME IInv, Signal PROVE EL!Next
<1>1. UNCHANGED <<sock_fd, tun_fd>> /\ pc \notin {"crypto", "exited"}
      /\ pc' = IF pc = "poll" THEN "test" ELSE pc
  BY DEF Signal, handles, Loop!Signal, Loop!AfterInterrupt
<1>2. /\ CoarsePc \notin {"crypto", "exited"}
      /\ CoarsePc' = IF CoarsePc = "poll" THEN "test" ELSE CoarsePc
  BY <1>1 DEF CoarsePc
<1>3. CoarseSock' = CoarseSock /\ CoarseTun' = CoarseTun
  BY <1>1 DEF CoarseSock, CoarseTun
<1>4. EL!Signal
  BY <1>2, <1>3 DEF EL!Signal, EL!AfterInterrupt, Signal, Loop!Signal
<1>. QED
  BY <1>4 DEF EL!Next

\* Packets arrive only where EventLoop has an open descriptor: an interface is
\* up only once main is past tun_set_up.
LEMMA ArriveRefines ==
    ASSUME IInv, NEW d \in Loop!Descriptors, Arrive(d) PROVE EL!Next
<1>1. UNCHANGED <<pc, sock_fd, tun_fd>>
  BY DEF Arrive, handles, Loop!Arrive
<1>2. CoarsePc' = CoarsePc /\ CoarseSock' = CoarseSock /\ CoarseTun' = CoarseTun
  BY <1>1 DEF CoarsePc, CoarseSock, CoarseTun
<1>3. d # "udp" => CoarseTun = TRUE
  <2> SUFFICES ASSUME d = "tun" PROVE CoarseTun = TRUE
    BY DEF Loop!Descriptors
  <2>1. "up" \in link /\ tun_fd \in Fds /\ pc \notin DeviceSteps
    BY DEF Arrive, IInv, HeldAt
  <2>2. pc \in LoopSteps \cup {"pollfds"}
    BY <2>1, FdsAssumption DEF IInv, TypeOK, HeldAt
  <2>. QED
    BY <2>1, <2>2, FdsAssumption DEF CoarseTun
<1>4. d = "udp" => CoarseSock
  BY DEF Arrive, Loop!Arrive, CoarseSock
<1>5. EL!Arrive(d)
  BY <1>2, <1>3, <1>4 DEF EL!Arrive, Arrive, Loop!Arrive
<1>. QED
  BY <1>5 DEF EL!Next, EL!Descriptors, Loop!Descriptors

\* transport_close and tun_close are part of EventLoop's Shutdown.
LEMMA ShutdownRefines ==
    ASSUME IInv, Shutdown PROVE EL!Next
<1>1. /\ CoarsePc = "shutdown" /\ CoarsePc' = "exited"
      /\ CoarseSock' = FALSE /\ CoarseTun' = FALSE
  BY DEF Shutdown, CoarsePc, CoarseSock, CoarseTun
<1>2. EL!Shutdown
  BY <1>1 DEF EL!Shutdown, Shutdown
<1>. QED
  BY <1>2 DEF EL!Next, EL!Main

\* Every step of the daemon at the level of system calls is a step of EventLoop
\* or none, for every number of descriptors: the safety proved of EventLoop
\* holds of the code that opens and closes them.
THEOREM ImplementsEventLoop == Spec => RefinesSafely
<1>1. Init => EL!Init
  <2> SUFFICES ASSUME Init PROVE EL!Init
    OBVIOUS
  <2>1. CoarsePc = "crypto" /\ CoarseSock = FALSE /\ CoarseTun = FALSE
    BY DEF Init, CoarsePc, CoarseSock, CoarseTun
  <2>. QED
    BY <2>1 DEF Init, EL!Init, EL!Descriptors, Loop!Descriptors, EL!None, Loop!None
<1>2. IInv /\ [Next]_vars => [EL!Next]_(EL!vars)
  <2> SUFFICES ASSUME IInv, [Next]_vars PROVE EL!Next \/ UNCHANGED EL!vars
    OBVIOUS
  <2>1. CASE UNCHANGED vars
    <3>1. UNCHANGED <<pc, sock_fd, tun_fd>> /\ UNCHANGED loop
      BY <2>1 DEF vars, handles
    <3>2. CoarsePc' = CoarsePc /\ CoarseSock' = CoarseSock /\ CoarseTun' = CoarseTun
      BY <3>1 DEF CoarsePc, CoarseSock, CoarseTun
    <3>. QED
      BY <3>1, <3>2 DEF EL!vars, loop
  <2>2. CASE \/ OpenDevice \/ AttachDevice \/ MtuSocket \/ SetMtu \/ AddressSocket
             \/ SetAddress \/ SetNetmask \/ FlagsSocket \/ GetFlags \/ SetFlags
    <3>1. pc \in DeviceSteps /\ pc' \in DeviceSteps \cup {"pollfds"}
      BY <2>2 DEF OpenDevice, AttachDevice, MtuSocket, SetMtu, AddressSocket, SetAddress,
                  SetNetmask, FlagsSocket, GetFlags, SetFlags, ControlSocket, FirstIoctl, Ioctl
    <3>2. UNCHANGED <<sock_fd, loop>>
      BY <2>2 DEF OpenDevice, AttachDevice, MtuSocket, SetMtu, AddressSocket, SetAddress,
                  SetNetmask, FlagsSocket, GetFlags, SetFlags, ControlSocket, FirstIoctl, Ioctl,
                  handles
    <3>. QED
      BY <3>1, <3>2, DeviceStepRefines
  <2>3. CASE SetUpPoll
    <3>1. UNCHANGED <<sock_fd, tun_fd, loop>> /\ pc = "pollfds" /\ pc' = "test"
      BY <2>3 DEF SetUpPoll
    <3>2. CoarsePc' = CoarsePc /\ CoarseSock' = CoarseSock /\ CoarseTun' = CoarseTun
      BY <3>1 DEF CoarsePc, CoarseSock, CoarseTun
    <3>. QED
      BY <3>1, <3>2 DEF EL!vars, loop
  <2>. QED
    BY <2>1, <2>2, <2>3, SocketStepsRefine, LoopStepsRefine, SignalRefines, ArriveRefines,
       ShutdownRefines, Zenon DEF Next, Main, Exited
<1>. QED
  BY <1>1, <1>2, InductiveInvariant, PTL DEF Spec, RefinesSafely
=============================================================================
