-------------------------- MODULE ServerLoopProofs --------------------------
(***************************************************************************)
(* Safety of the process around the refactored stack, whatever the size of *)
(* the FIFO, however many packets arrive and viewers come and go, and      *)
(* whichever call of the start-up fails.                                   *)
(***************************************************************************)
EXTENDS ServerLoop, TLAPS

(* What the process owns at every point of tun_init: nothing before open   *)
(* and after a failure, the descriptor from open on, the structure from    *)
(* malloc on, and a Netlink socket only around a send.                     *)
Owned ==
  /\ tpc \in {"open", "null", "destroyed"} => held = {}
  /\ tpc \in {"ioctl", "malloc"} => held = {"fd"}
  /\ tpc \in {"add", "wake", "check", "ready"} => {"fd", "tun"} \subseteq held /\ "sock" \notin held
  /\ tpc \in {"add_send", "wake_send"} => {"fd", "tun", "sock"} \subseteq held
  /\ botched = FALSE

(* What is known of the two requests: an error was returned for the one    *)
(* that was not sent.                                                      *)
Asked ==
  /\ tpc \in {"wake", "wake_send", "check"} => ip_add # "none" \/ "addr" \in requested
  /\ tpc = "check" => ip_wake \in {"TUN_DSOCK_ERROR", "TUN_SEND_ERROR"} \/ "up" \in requested
  /\ tpc = "ready" => requested = {"addr", "up"}
  /\ ip_wake # "TUN_INET_ERROR"

DeviceInv == TunTypeOK /\ Owned /\ Asked

(* Giving back what is owned is never botched.                             *)
LEMMA FreesOwned ==
  ASSUME botched = FALSE, NEW S, S \subseteq held, Frees(S)
  PROVE  botched' = FALSE /\ held' = held \ S
  BY Zenon DEF Frees

(* tun_destroy gives back everything of a device that has no socket open.  *)
LEMMA DestroyStep ==
  ASSUME DeviceInv, {"fd", "tun"} \subseteq held, "sock" \notin held,
         NEW next \in {"null", "destroyed"}, tun_destroy(next)
  PROVE  DeviceInv' /\ held' = {}
<1> DEFINE S == {"fd", "tun"} \cup (held \cap {"name", "ip"})
<1>1. held \subseteq {"fd", "tun", "name", "ip", "sock"} /\ botched = FALSE
  BY DEF DeviceInv, TunTypeOK, Owned
<1>2. S \subseteq held /\ held \ S = {}
  BY <1>1
<1>3. Frees(S) /\ tpc' = next /\ UNCHANGED <<requested, ip_add, ip_wake>>
  BY Zenon DEF tun_destroy
<1>4. botched' = FALSE /\ held' = {}
  BY <1>1, <1>2, <1>3, FreesOwned
<1> HIDE DEF S
<1>5. tpc' \in {"null", "destroyed"}
  BY <1>3
<1> QED BY <1>3, <1>4, <1>5 DEF DeviceInv, TunTypeOK, TunPc, TunErr, Owned, Asked

(* Every call of tun_init, whether it succeeds or fails.                   *)
LEMMA InitStep ==
  ASSUME DeviceInv, tun_init
  PROVE  DeviceInv'
<1> USE DEF DeviceInv, TunTypeOK, TunPc, TunErr, Owned, Asked
<1>1. CASE OpenClone
  BY <1>1 DEF OpenClone
<1>2. CASE TUNSETIFF
  <2>1. CASE tpc' = "malloc" /\ UNCHANGED <<held, botched>>
    BY <1>2, <2>1 DEF TUNSETIFF
  <2>2. CASE tpc' = "null" /\ Frees({"fd"})
    <3>1. held = {"fd"}
      BY <1>2 DEF TUNSETIFF
    <3>2. botched' = FALSE /\ held' = {}
      BY <2>2, <3>1, FreesOwned
    <3> QED BY <1>2, <2>2, <3>2 DEF TUNSETIFF
  <2> QED BY <1>2, <2>1, <2>2 DEF TUNSETIFF
<1>3. CASE AllocTun
  <2>0. held = {"fd"} /\ UNCHANGED <<requested, ip_add, ip_wake>> /\ tpc = "malloc"
    BY <1>3 DEF AllocTun
  <2>1. CASE tpc' = "null" /\ Frees({"fd"})
    <3>1. botched' = FALSE /\ held' = {}
      BY <2>0, <2>1, FreesOwned
    <3> QED BY <2>0, <2>1, <3>1
  <2>2. ASSUME tpc' = "add", UNCHANGED botched,
               NEW strings \in SUBSET {"name", "ip"}, held' = held \cup {"tun"} \cup strings
        PROVE  DeviceInv'
    BY <2>0, <2>2
  <2> QED BY <1>3, <2>1, <2>2 DEF AllocTun
<1>4. CASE AddSocket
  BY <1>4 DEF AddSocket
<1>5. CASE AddSend
  <2>1. {"sock"} \subseteq held /\ Frees({"sock"}) /\ tpc' = "wake"
    BY <1>5, Zenon DEF AddSend
  <2>2. botched' = FALSE /\ held' = held \ {"sock"}
    BY <2>1, FreesOwned
  <2> QED BY <1>5, <2>1, <2>2 DEF AddSend
<1>6. CASE WakeSocket
  BY <1>6 DEF WakeSocket
<1>7. CASE WakeSend
  <2>1. {"sock"} \subseteq held /\ Frees({"sock"}) /\ tpc' = "check"
    BY <1>7, Zenon DEF WakeSend
  <2>2. botched' = FALSE /\ held' = held \ {"sock"}
    BY <2>1, FreesOwned
  <2> QED BY <1>7, <2>1, <2>2 DEF WakeSend
<1>8. CASE CheckConfigured
  <2>1. CASE tun_destroy("null")
    <3>1. {"fd", "tun"} \subseteq held /\ "sock" \notin held
      BY <1>8 DEF CheckConfigured
    <3> QED BY <2>1, <3>1, DestroyStep
  <2>2. CASE ~tun_destroy("null")
    BY <1>8, <2>2 DEF CheckConfigured
  <2> QED BY <2>1, <2>2
<1> QED BY <1>1, <1>2, <1>3, <1>4, <1>5, <1>6, <1>7, <1>8 DEF tun_init

LEMMA DeviceStutter == ASSUME DeviceInv, UNCHANGED tunVars PROVE DeviceInv'
  BY DEF DeviceInv, TunTypeOK, Owned, Asked, tunVars

-----------------------------------------------------------------------------
(* Where the process can be, relative to the device: it serves only with a *)
(* device that tun_init returned, and every exit leaves nothing behind.    *)
Early  == {"main", "boot", "start", "opening"}
InLoop == {"test", "read", "demux", "write", "close"} \cup LogPc

Placed ==
  /\ pc = "main" => tpc = "open"
  /\ pc \in {"start", "opening"} \cup InLoop => tpc = "ready"
  /\ pc \in {"done", "failed"} => held = {}
  /\ pc \in Early \cup {"failed", "killed"} => g_log_fd = FALSE

(* What log_init opened: nothing before it, its FILE from fopen on, and    *)
(* the write end as long as the loop runs with a log, remembered or        *)
(* forgotten.                                                              *)
Opened ==
  /\ pc \in {"main", "boot", "start", "killed"} => logOpen = {}
  /\ pc = "opening" => logOpen = {"fifo_end"}
  /\ pc = "failed" => logOpen \subseteq {"fifo_end"}
  /\ pc \in InLoop => logOpen = {"fifo_end", "fifo"} \/ (logOpen = {} /\ g_log_fd = FALSE)
  /\ pc = "done" => ("fifo" \in logOpen <=> "fifo_end" \in logOpen /\ g_log_fd = FALSE)

(* The counters, and how the three of them are tied to the place in the    *)
(* loop: a packet is read after the signal only from a read that was       *)
(* already under way, and a reply is logged on the way to its write.       *)
Counters == [late : Nat, written : Nat, logged : Nat]
Counted ==
  /\ counts \in Counters
  /\ pc \in Early => counts.late = 0 /\ counts.logged = counts.written
  /\ counts.late # 0 => counts.late = 1 /\ g_shutdown = TRUE /\ pc # "read"
  /\ g_log_fd = TRUE /\ pc = "write" => counts.logged = counts.written + 1
  /\ g_log_fd = TRUE /\ pc # "write" => counts.logged = counts.written

(* The event of the shutdown is written once, on the way to "close", and   *)
(* is the last of the FIFO from then on.                                   *)
Told ==
  /\ fifo \in Seq(LogPc)
  /\ pc \notin {"close", "done"} => \A i \in 1 .. Len(fifo) : fifo[i] # "log_shutdown"
  /\ \A i \in 1 .. Len(fifo) : fifo[i] = "log_shutdown" => i = Len(fifo)
  /\ pc = "close" /\ g_log_fd = TRUE /\ fifo # <<>> => fifo[Len(fifo)] = "log_shutdown"

IInv == TypeOK /\ DeviceInv /\ Placed /\ Opened /\ Counted /\ Told

LEMMA InitInv == Init => IInv
<1> SUFFICES ASSUME Init PROVE IInv
  OBVIOUS
<1>1. DeviceInv
  BY DEF Init, TunInit, DeviceInv, TunTypeOK, TunPc, TunErr, Owned, Asked
<1>2. fifo = <<>> /\ fifo \in Seq(LogPc) /\ Len(fifo) = 0
  BY DEF Init
<1>3. TypeOK
  <2>1. Len(fifo) <= PipeCap
    BY <1>2, LoopAssumption
  <2>2. TunTypeOK /\ fifo \in Seq(LogPc)
    BY <1>1, <1>2 DEF DeviceInv
  <2> QED BY <2>1, <2>2 DEF Init, TypeOK
<1>4. Placed /\ Opened
  BY DEF Init, TunInit, Placed, Opened, InLoop, LogPc
<1>5. Counted
  BY DEF Init, Counted, Counters, Early
<1>6. Told
  BY <1>2 DEF Init, Told
<1> QED BY <1>1, <1>3, <1>4, <1>5, <1>6 DEF IInv

(* An event joins the FIFO at its end.                                     *)
LEMMA FifoAppend ==
  ASSUME NEW q \in Seq(LogPc), NEW e \in LogPc
  PROVE  /\ Append(q, e) \in Seq(LogPc) /\ Len(Append(q, e)) = Len(q) + 1 /\ Len(q) \in Nat
         /\ Append(q, e)[Len(q) + 1] = e
         /\ \A i \in 1 .. Len(q) : Append(q, e)[i] = q[i]
  OBVIOUS

(* What is left when the viewer has read the oldest event.                 *)
LEMMA FifoTail ==
  ASSUME NEW q \in Seq(LogPc), q # <<>>
  PROVE  /\ Tail(q) \in Seq(LogPc) /\ Len(Tail(q)) = Len(q) - 1
         /\ Len(q) \in Nat \ {0} /\ Head(q) = q[1]
         /\ \A i \in 1 .. Len(q) - 1 : Tail(q)[i] = q[i + 1]
         /\ Tail(q) # <<>> => Len(Tail(q)) > 0
  OBVIOUS

-----------------------------------------------------------------------------
(* Start-up and exit: the device changes, the FIFO does not.               *)
LEMMA MainStep ==
  ASSUME IInv, Main
  PROVE  IInv'
<1> USE DEF IInv, loopVars, environment
<1>1. fifo' = fifo /\ counts' = counts /\ g_shutdown' = g_shutdown /\ viewer' = viewer
      /\ script' = script /\ tun' = tun /\ viewers' = viewers /\ arrived' = arrived
      /\ g_log_fd' = g_log_fd /\ path' \in {path, "none", "ours"}
  BY DEF Main, Arguments, BootDevice, InstallHandler, StartQuiet, StartVerbose, LogInitFails,
         log_init_fails, Exit
<1>2. DeviceInv' /\ Placed' /\ pc' \in Early \cup InLoop \cup Dead
  <2>1. CASE Arguments
    BY <2>1, DeviceStutter DEF Arguments, Placed, DeviceInv, Owned, InLoop, LogPc, Dead, Early, tunVars
  <2>2. CASE BootDevice
    BY <2>2, InitStep DEF BootDevice, Placed, InLoop, LogPc, Dead, Early
  <2>3. CASE InstallHandler
    BY <2>3, DeviceStutter DEF InstallHandler, Placed, DeviceInv, Owned, InLoop, LogPc, Dead, Early, tunVars
  <2>4. CASE StartQuiet \/ StartVerbose
    BY <2>4, DeviceStutter DEF StartQuiet, StartVerbose, Placed, InLoop, LogPc, Dead, Early, tunVars
  <2>5. CASE LogInitFails
    <3>1. {"fd", "tun"} \subseteq held /\ "sock" \notin held /\ tun_destroy("destroyed")
      BY <2>5 DEF LogInitFails, Placed, DeviceInv, Owned
    <3>2. DeviceInv' /\ held' = {}
      BY <3>1, DestroyStep
    <3> QED BY <2>5, <3>2 DEF LogInitFails, Placed, InLoop, LogPc, Dead, Early
  <2>6. CASE Exit
    <3>1. {"fd", "tun"} \subseteq held /\ "sock" \notin held /\ tun_destroy("destroyed")
      BY <2>6 DEF Exit, Placed, InLoop, DeviceInv, Owned
    <3>2. DeviceInv' /\ held' = {}
      BY <3>1, DestroyStep
    <3> QED BY <2>6, <3>2 DEF Exit, Placed, InLoop, LogPc, Dead, Early
  <2> QED BY <2>1, <2>2, <2>3, <2>4, <2>5, <2>6 DEF Main
<1>3. Opened' /\ logOpen' \subseteq {"fifo_end", "fifo"}
  <2>0. logOpen \subseteq {"fifo_end", "fifo"} /\ g_log_fd \in BOOLEAN
    BY DEF TypeOK
  <2>1. CASE Arguments \/ BootDevice \/ InstallHandler \/ StartQuiet
    <3>1. /\ logOpen' = logOpen /\ pc \in {"main", "boot", "start"}
          /\ pc' \in {"boot", "start", "failed", "test"}
      BY <2>1 DEF Arguments, BootDevice, InstallHandler, StartQuiet
    <3>2. logOpen' = {} /\ g_log_fd' = FALSE
      BY <1>1, <3>1 DEF Opened, Placed, Early
    <3> QED BY <3>1, <3>2 DEF Opened, InLoop, LogPc
  <2>2. CASE StartVerbose \/ LogInitFails
    <3>1. /\ pc = "start" /\ pc' \in {"opening", "failed"} /\ logOpen' \in {logOpen, {"fifo_end"}}
          /\ pc' = "opening" => logOpen' = {"fifo_end"}
      BY <2>2 DEF StartVerbose, LogInitFails, log_init_fails
    <3> QED BY <3>1 DEF Opened, InLoop, LogPc
  <2>3. CASE Exit
    <3>1. pc = "close" /\ pc' = "done" /\ logOpen' = IF g_log_fd THEN logOpen \ {"fifo"} ELSE logOpen
      BY <2>3 DEF Exit
    <3>2. logOpen = {"fifo_end", "fifo"} \/ (logOpen = {} /\ g_log_fd = FALSE)
      BY <3>1 DEF Opened, InLoop
    <3>3. CASE g_log_fd = TRUE
      BY <1>1, <3>1, <3>2, <3>3 DEF Opened, InLoop, LogPc
    <3>4. CASE g_log_fd = FALSE
      BY <1>1, <3>1, <3>2, <3>4 DEF Opened, InLoop, LogPc
    <3> QED BY <2>0, <3>3, <3>4
  <2> QED BY <2>1, <2>2, <2>3 DEF Main
<1>4. TypeOK'
  BY <1>1, <1>2, <1>3 DEF TypeOK, DeviceInv, Early, InLoop, LogPc
<1>5. Counted'
  <2>1. pc' # "read" /\ (pc' \in Early => pc \in Early) /\ pc # "write" /\ pc' # "write"
    BY DEF Main, Arguments, BootDevice, InstallHandler, StartQuiet, StartVerbose, LogInitFails,
           Exit, Early
  <2> QED BY <1>1, <2>1 DEF Counted
<1>6. Told'
  <2>1. pc' # "close" /\ (pc' # "done" => pc \notin {"close", "done"})
    BY DEF Main, Arguments, BootDevice, InstallHandler, StartQuiet, StartVerbose, LogInitFails, Exit
  <2> QED BY <1>1, <2>1 DEF Told
<1> QED BY <1>2, <1>3, <1>4, <1>5, <1>6

(* The loop of server_run: the device stays as it is, the log may be       *)
(* written to or given up.                                                 *)
LEMMA LoopStep ==
  ASSUME IInv, Loop, UNCHANGED tunVars
  PROVE  IInv'
<1> USE DEF IInv, environment
<1>0. DeviceInv' /\ TunTypeOK' /\ tpc' = tpc /\ held' = held
  BY DeviceStutter DEF tunVars, DeviceInv
<1>1. /\ g_shutdown' = g_shutdown /\ path' = path /\ viewer' = viewer /\ script' = script
      /\ viewers' = viewers /\ arrived' = arrived /\ logOpen' = logOpen
  BY DEF Loop, TestShutdown, tun_read, LOG_EVENT, net_demux, tun_write
<1>2. CASE LOG_EVENT
  <2>1. /\ pc \in LogPc /\ tun' = tun
        /\ pc = "log_read" => pc' = "demux"
        /\ pc = "log_write" => pc' = "write"
        /\ pc = "log_shutdown" => pc' = "close"
    BY <1>2 DEF LOG_EVENT, After, LogPc
  <2>2. Placed' /\ Opened' /\ pc' \in InLoop /\ pc' \in {"demux", "write", "close"}
    <3>1. g_log_fd' = g_log_fd \/ g_log_fd' = FALSE
      BY <1>2 DEF LOG_EVENT
    <3> QED BY <1>0, <1>1, <2>1, <3>1 DEF Placed, Opened, Early, InLoop, LogPc
  <2>3. counts'.late = counts.late /\ counts'.written = counts.written /\ counts' \in Counters
    <3>1. counts' = counts \/ counts' = [counts EXCEPT !.logged = @ + 1]
      BY <1>2, Zenon DEF LOG_EVENT, Logged
    <3> QED BY <3>1 DEF Counted, Counters
  <2>4. Counted'
    <3>1. CASE g_log_fd = TRUE /\ g_log_fd' = TRUE
      <4>1. counts' = IF pc = "log_write" THEN [counts EXCEPT !.logged = @ + 1] ELSE counts
        BY <1>2, <3>1 DEF LOG_EVENT, Logged
      <4>2. counts.logged = counts.written /\ counts \in Counters
        <5>1. pc # "write" /\ Counted
          BY <2>1 DEF LogPc
        <5>2. counts.logged = counts.written /\ counts \in Counters
          BY <3>1, <5>1, Zenon DEF Counted
        <5> QED BY <5>2 DEF Counters
      <4> QED BY <1>1, <2>1, <2>2, <2>3, <3>1, <4>1, <4>2 DEF Counted, Counters, LogPc, Early
    <3>2. CASE g_log_fd' # TRUE
      BY <1>1, <2>1, <2>2, <2>3, <3>2 DEF Counted, LogPc, Early
    <3> QED BY <1>2, <3>1, <3>2 DEF LOG_EVENT
  <2>5. /\ fifo' \in Seq(LogPc) /\ Len(fifo') <= PipeCap /\ Told'
    <3>0. /\ fifo \in Seq(LogPc) /\ Len(fifo) <= PipeCap
          /\ \A i \in 1 .. Len(fifo) : fifo[i] # "log_shutdown"
      BY <2>1 DEF TypeOK, Told, LogPc
    <3>1. CASE fifo' = fifo /\ g_log_fd' # TRUE
      BY <3>0, <3>1 DEF Told
    <3>2. CASE fifo' = Append(fifo, pc) /\ Len(fifo) < PipeCap
      <4>1. /\ fifo' \in Seq(LogPc) /\ Len(fifo') = Len(fifo) + 1 /\ Len(fifo) \in Nat
            /\ fifo'[Len(fifo) + 1] = pc
            /\ \A i \in 1 .. Len(fifo) : fifo'[i] = fifo[i]
        BY <2>1, <3>0, <3>2, FifoAppend
      <4>2. \A i \in 1 .. Len(fifo') : fifo'[i] = "log_shutdown" => i = Len(fifo') /\ pc = "log_shutdown"
        <5> TAKE i \in 1 .. Len(fifo')
        <5>1. i \in 1 .. Len(fifo) \/ i = Len(fifo')
          BY <4>1
        <5> QED BY <3>0, <4>1, <5>1
      <4>3. fifo'[Len(fifo')] = pc
        BY <4>1
      <4>4. Len(fifo') <= PipeCap
        BY <3>2, <4>1, LoopAssumption
      <4> QED BY <2>1, <4>1, <4>2, <4>3, <4>4 DEF Told, LogPc
    <3>3. \/ fifo' = fifo /\ g_log_fd' # TRUE
          \/ fifo' = Append(fifo, pc) /\ Len(fifo) < PipeCap
      BY <1>2 DEF LOG_EVENT, TypeOK
    <3> QED BY <3>1, <3>2, <3>3
  <2> QED BY <1>0, <1>1, <1>2, <2>1, <2>2, <2>4, <2>5 DEF TypeOK, InLoop, LOG_EVENT
<1>3. CASE TestShutdown \/ tun_read \/ net_demux \/ tun_write
  <2>1. fifo' = fifo /\ g_log_fd' = g_log_fd /\ pc \in InLoop \ {"close"} /\ pc' \in InLoop \ {"close"}
    BY <1>3 DEF TestShutdown, tun_read, net_demux, tun_write, InLoop, LogPc
  <2>2. Placed' /\ Opened'
    BY <1>0, <1>1, <2>1 DEF Placed, Opened, Early, InLoop, LogPc
  <2>3. Told'
    BY <2>1 DEF Told, InLoop, LogPc
  <2>4. Counted' /\ tun' \in Nat
    <3>0. tun \in Nat /\ g_shutdown \in BOOLEAN /\ Counted
      BY DEF TypeOK
    <3> USE <3>0 DEF Counted, Counters, Early
    <3>1. CASE TestShutdown
      BY <1>1, <3>1 DEF TestShutdown
    <3>2. CASE tun_read
      <4>1. counts.late = 0 /\ counts \in Counters
        BY <3>2 DEF tun_read
      <4>2. CASE g_shutdown = TRUE
        <5>1. counts' = [counts EXCEPT !.late = counts.late + 1]
          BY <3>2, <4>2, Zenon DEF tun_read
        <5>2. counts' \in Counters /\ counts'.late = 1 /\ counts'.logged = counts.logged
              /\ counts'.written = counts.written
          BY <4>1, <5>1
        <5>3. pc = "read" /\ pc' = "log_read" /\ tun' = tun - 1 /\ tun > 0 /\ g_log_fd' = g_log_fd
          BY <3>2, Zenon DEF tun_read
        <5>4. tun' \in Nat
          BY <5>3
        <5> QED BY <1>1, <4>1, <4>2, <5>2, <5>3, <5>4
      <4>3. CASE g_shutdown = FALSE
        <5>1. counts' = [counts EXCEPT !.late = counts.late]
          BY <3>2, <4>3, Zenon DEF tun_read
        <5>2. counts' = counts
          BY <4>1, <5>1
        <5>3. pc = "read" /\ pc' = "log_read" /\ tun' = tun - 1 /\ tun > 0 /\ g_log_fd' = g_log_fd
          BY <3>2, Zenon DEF tun_read
        <5>4. tun' \in Nat
          BY <5>3
        <5> QED BY <1>1, <4>1, <4>3, <5>2, <5>3, <5>4
      <4> QED BY <4>2, <4>3
    <3>3. CASE net_demux
      BY <1>1, <3>3 DEF net_demux
    <3>4. CASE tun_write
      BY <1>1, <3>4 DEF tun_write, Count
    <3> QED BY <1>3, <3>1, <3>2, <3>3, <3>4
  <2> QED BY <1>0, <1>1, <2>1, <2>2, <2>3, <2>4 DEF TypeOK, InLoop
<1> QED BY <1>2, <1>3 DEF Loop

(* Viewer, script, network and a read that fails.                          *)
LEMMA OthersStep ==
  ASSUME IInv, Others, UNCHANGED tunVars
  PROVE  IInv'
<1> USE DEF IInv
<1>0. DeviceInv' /\ TunTypeOK' /\ tpc' = tpc /\ held' = held
  BY DeviceStutter DEF tunVars, DeviceInv
<1>1. CASE ViewerReads
  <2>1. fifo \in Seq(LogPc) /\ fifo # <<>> /\ fifo' = Tail(fifo)
    BY <1>1 DEF ViewerReads, Told
  <2>2. /\ fifo' \in Seq(LogPc) /\ Len(fifo') = Len(fifo) - 1 /\ Len(fifo) \in Nat \ {0}
        /\ \A i \in 1 .. Len(fifo) - 1 : fifo'[i] = fifo[i + 1]
        /\ fifo' # <<>> => Len(fifo') > 0
    BY <2>1, FifoTail
  <2>3. Told'
    <3>1. \A i \in 1 .. Len(fifo') : fifo'[i] = fifo[i + 1] /\ i + 1 \in 1 .. Len(fifo)
      BY <2>2
    <3>2. pc' = pc /\ g_log_fd' = g_log_fd
      BY <1>1 DEF ViewerReads
    <3>3. \A i \in 1 .. Len(fifo') : fifo'[i] = "log_shutdown" => i = Len(fifo')
      <4> TAKE i \in 1 .. Len(fifo')
      <4>0. i + 1 \in 1 .. Len(fifo) /\ fifo'[i] = fifo[i + 1]
        BY <3>1
      <4>1. fifo'[i] = "log_shutdown" => i + 1 = Len(fifo)
        BY <4>0, Zenon DEF Told
      <4>2. Len(fifo') = Len(fifo) - 1 /\ Len(fifo) \in Nat /\ i \in Nat
        BY <2>2
      <4> QED BY <4>1, <4>2
    <3>4. pc' \notin {"close", "done"} => \A i \in 1 .. Len(fifo') : fifo'[i] # "log_shutdown"
      BY <3>1, <3>2 DEF Told
    <3>5. pc' = "close" /\ g_log_fd' = TRUE /\ fifo' # <<>> => fifo'[Len(fifo')] = "log_shutdown"
      <4>1. ASSUME fifo' # <<>>
            PROVE  fifo'[Len(fifo')] = fifo[Len(fifo)]
        <5>1. Len(fifo') \in 1 .. Len(fifo) - 1
          BY <2>2, <4>1
        <5> QED BY <2>2, <5>1
      <4> QED BY <2>1, <3>2, <4>1 DEF Told
    <3> QED BY <2>2, <3>3, <3>4, <3>5 DEF Told
  <2>4. Len(fifo') <= PipeCap
    BY <2>2, LoopAssumption DEF TypeOK
  <2>5. /\ UNCHANGED <<pc, g_shutdown, g_log_fd, logOpen, path, script, tun, counts>>
        /\ viewer' \in {"off", "reading"}
    BY <1>1 DEF ViewerReads
  <2>6. TypeOK'
    BY <1>0, <2>2, <2>4, <2>5 DEF TypeOK
  <2>7. Placed' /\ Opened' /\ Counted'
    BY <1>0, <2>5 DEF Placed, Opened, Counted
  <2> QED BY <1>0, <2>3, <2>6, <2>7
<1>2. CASE ~ViewerReads
  <2>1. /\ fifo' = fifo /\ counts' = counts
        /\ (g_shutdown' = g_shutdown \/ g_shutdown' = TRUE)
    BY <1>2 DEF Others, Viewer, ReadFails, ViewerAtEnd, ViewerStarts, ViewerInterrupted,
                ScriptKills, ScriptPings, PacketArrives, server_shutdown
  <2>2. \/ pc' = pc /\ g_log_fd' = g_log_fd /\ logOpen' = logOpen
        \/ pc = "read" /\ pc' = "test" /\ g_log_fd' = g_log_fd /\ logOpen' = logOpen
        \/ /\ pc = "opening" /\ pc' = "test" /\ g_log_fd' = TRUE
           /\ logOpen' = logOpen \cup {"fifo"}
        \/ pc \in {"main", "boot"} /\ pc' = "killed" /\ g_log_fd' = g_log_fd /\ logOpen' = logOpen
    BY <1>2 DEF Others, Viewer, ReadFails, ViewerAtEnd, ViewerStarts, ViewerInterrupted,
                ScriptKills, ScriptPings, PacketArrives, server_shutdown
  <2>3. TypeOK'
    <3>1. /\ path' = path /\ viewer' \in {"off", "opening", "reading"}
          /\ script' \in {"idle", "killed", "done"} /\ tun' \in Nat
      BY <1>2 DEF Others, Viewer, ReadFails, ViewerAtEnd, ViewerStarts, ViewerInterrupted,
                  ScriptKills, ScriptPings, PacketArrives, server_shutdown, environment, TypeOK
    <3> QED BY <1>0, <2>1, <2>2, <3>1 DEF TypeOK, Dead
  <2>4. Placed' /\ Opened'
    BY <1>0, <2>2 DEF Placed, Opened, Early, InLoop, LogPc
  <2>5. Counted'
    BY <2>1, <2>2 DEF Counted, Counters, Early
  <2>6. Told'
    BY <2>1, <2>2 DEF Told
  <2> QED BY <1>0, <2>3, <2>4, <2>5, <2>6
<1> QED BY <1>1, <1>2

LEMMA StutterInv == ASSUME IInv, UNCHANGED vars PROVE IInv'
<1>1. DeviceInv'
  BY DeviceStutter DEF IInv, vars
<1>2. /\ UNCHANGED <<pc, g_shutdown, g_log_fd, logOpen, path, fifo, viewer, script, tun, counts>>
      /\ UNCHANGED <<tpc, held>>
  BY DEF vars, tunVars
<1>3. TypeOK' /\ Placed' /\ Opened'
  BY <1>1, <1>2 DEF IInv, TypeOK, Placed, Opened, DeviceInv
<1>4. Counted' /\ Told'
  BY <1>2 DEF IInv, Counted, Told
<1> QED BY <1>1, <1>3, <1>4 DEF IInv

LEMMA StepInv == IInv /\ [Next]_vars => IInv'
  BY MainStep, LoopStep, OthersStep, StutterInv DEF Next, Server

LEMMA Invariance == Safe => []IInv
  BY InitInv, StepInv, PTL DEF Safe

-----------------------------------------------------------------------------
(* Every variable of the process keeps its type, and the FIFO its bound.   *)
THEOREM TypeCorrect == Safe => []TypeOK
<1>1. IInv => TypeOK
  BY DEF IInv
<1> QED BY <1>1, Invariance, PTL

(* After SIGUSR1 was handled server_run reads at most one more packet,     *)
(* however many are waiting in the device.                                 *)
THEOREM ReadsOnceMore == Safe => []OneMoreRead
<1>1. IInv => OneMoreRead
  BY DEF IInv, Counted, Counters, OneMoreRead
<1> QED BY <1>1, Invariance, PTL

(* While the log is attached, server_run has logged every reply it writes  *)
(* and is at most one reply ahead.                                         *)
THEOREM LogsFirst == Safe => []LoggedBeforeWritten
<1>1. IInv => LoggedBeforeWritten
  <2> SUFFICES ASSUME IInv, g_log_fd
               PROVE  counts.logged - counts.written = IF pc = "write" THEN 1 ELSE 0
    BY DEF LoggedBeforeWritten
  <2>1. counts \in Counters /\ g_log_fd = TRUE
    BY DEF IInv, Counted, TypeOK
  <2>2. CASE pc = "write"
    BY <2>1, <2>2 DEF IInv, Counted, Counters
  <2>3. CASE pc # "write"
    BY <2>1, <2>3 DEF IInv, Counted, Counters
  <2> QED BY <2>2, <2>3
<1> QED BY <1>1, Invariance, PTL

(* The event of the shutdown is the last one in the FIFO, and a server on  *)
(* its way out with the log attached has put it there.                     *)
THEOREM ShutdownEndsLog == Safe => []ShutdownIsLast
<1>1. IInv => ShutdownIsLast
  BY DEF IInv, TypeOK, Told, ShutdownIsLast
<1> QED BY <1>1, Invariance, PTL

(* main, tun_init and tun_destroy release the device, its socket and its   *)
(* memory once on every path, whichever system call fails; the log's       *)
(* descriptor is open whenever main remembers it, and after the exit of a  *)
(* logging server exactly when log_event had forgotten it.                 *)
THEOREM ExitAccounted == Safe => []ExitAccounts
<1>1. IInv => ExitAccounts
  <2> SUFFICES ASSUME IInv PROVE ExitAccounts
    OBVIOUS
  <2>1. DeviceReleased /\ (pc \in {"done", "failed"} => held = {})
    BY DEF IInv, DeviceInv, Owned, Placed, DeviceReleased
  <2>2. g_log_fd \in BOOLEAN /\ pc \in Early \cup InLoop \cup Dead
    BY DEF IInv, TypeOK, Early, InLoop, LogPc, Dead
  <2>3. g_log_fd = TRUE /\ pc # "done" => "fifo" \in logOpen
    BY <2>2 DEF IInv, Placed, Opened, Dead
  <2>4. pc = "failed" => "fifo" \notin logOpen
    BY DEF IInv, Opened
  <2>5. pc = "done" => ("fifo" \in logOpen <=> "fifo_end" \in logOpen /\ g_log_fd = FALSE)
    BY Zenon DEF IInv, Opened
  <2> QED BY <2>1, <2>2, <2>3, <2>4, <2>5 DEF ExitAccounts
<1> QED BY <1>1, Invariance, PTL

(* server_run is entered only with a device whose address and link were    *)
(* both requested, and its descriptor is open as long as the loop runs.    *)
THEOREM OnlyConfigured == Safe => []ServesConfigured
<1>1. IInv => ServesConfigured
  BY DEF IInv, DeviceInv, Owned, Asked, Placed, InLoop, LogPc, ServesConfigured
<1> QED BY <1>1, Invariance, PTL
=============================================================================
