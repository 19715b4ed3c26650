----------------------------- MODULE ServerLoop -----------------------------
(***************************************************************************)
(* The process around the refactored stack: main and server_run (main.c)   *)
(* over the device of TunDevice, the SIGUSR1 handler, the logger's FIFO    *)
(* (log.c) with its viewer (log.py) at the other end, and shutdown.sh.     *)
(* Server, viewer, script and network run concurrently; a step of the      *)
(* server lies between two system calls that may block, and a signal       *)
(* arrives between any two steps.                                          *)
(***************************************************************************)
EXTENDS TunDevice, Sequences

CONSTANTS
  PipeCap,       \* events the FIFO holds before a write blocks
  MaxPackets,    \* bound: packets the network sends
  MaxViewers     \* bound: times the viewer is started

ASSUME LoopAssumption == /\ PipeCap \in Nat \ {0}
                         /\ MaxPackets \in Nat /\ MaxViewers \in Nat

VARIABLES
  pc,           \* where the server is
  g_shutdown,   \* set by the handler
  g_log_fd,     \* main remembers a descriptor of the FIFO, VERBOSE(g_log_fd)
  logOpen,      \* what log_init opened and nobody closed: the FILE of the
                \* path's name, the write end of the FIFO
  path,         \* the FIFO the path names: none, one of an earlier run, ours
  fifo,         \* events written and not yet read
  viewer,       \* off, waiting in open, or reading
  script,       \* shutdown.sh
  tun,          \* packets waiting in the device
  arrived,      \* packets sent by the network so far
  viewers,      \* viewers started so far
  counts        \* packets read since the shutdown, replies written, replies logged

vars == <<pc, g_shutdown, g_log_fd, logOpen, path, fifo, viewer, script, tun, arrived, viewers,
          counts, tunVars>>
environment == <<viewer, script, arrived, viewers>>

Dead == {"done", "failed", "killed"}
LogPc == {"log_read", "log_write", "log_shutdown"}

Count(f) == counts' = [counts EXCEPT ![f] = @ + 1]

-----------------------------------------------------------------------------
loopVars == <<g_shutdown, g_log_fd, fifo, tun, counts, environment>>

(* main: the arguments, the device, the signal handler.                    *)
Arguments ==
  /\ pc = "main"
  /\ pc' \in {"boot", "failed"}
  /\ UNCHANGED <<path, logOpen, loopVars, tunVars>>

BootDevice == pc = "boot" /\ tun_init /\ UNCHANGED <<pc, path, logOpen, loopVars>>

InstallHandler ==
  /\ pc = "boot" /\ tpc \in {"ready", "null"}
  /\ pc' = IF tpc = "ready" THEN "start" ELSE "failed"
  /\ UNCHANGED <<path, logOpen, loopVars, tunVars>>

(* Without and with "vb": log_init reads the FIFO's name from a file it    *)
(* never closes and replaces the FIFO, then open waits for a reader of the *)
(* new one.                                                                *)
StartQuiet == pc = "start" /\ pc' = "test" /\ UNCHANGED <<path, logOpen, loopVars, tunVars>>

StartVerbose ==
  /\ pc = "start"
  /\ pc' = "opening" /\ path' = "ours" /\ logOpen' = {"fifo_end"}
  /\ UNCHANGED <<loopVars, tunVars>>

(* The early returns of log_init: fopen fails; mkfifo fails, unlink having *)
(* worked or not; open fails.                                              *)
log_init_fails ==
  \/ UNCHANGED <<path, logOpen>>
  \/ path' \in {path, "none"} /\ logOpen' = {"fifo_end"}
  \/ path' = "ours" /\ logOpen' = {"fifo_end"}

KeepsDevice ==                          \* mutant: the failure of log_init skips tun_destroy
  /\ pc = "start"
  /\ pc' = "failed" /\ log_init_fails
  /\ UNCHANGED <<loopVars, tunVars>>

LogInitFails ==
  /\ pc = "start"
  /\ pc' = "failed" /\ log_init_fails
  /\ tun_destroy("destroyed")
  /\ UNCHANGED loopVars

(***************************************************************************)
(* server_run.  log_event blocks on a full FIFO; when nobody reads it      *)
(* (SIGPIPE is ignored) it forgets the descriptor and leaves it open.      *)
(***************************************************************************)
TestsLogOnly ==                         \* mutant: the flag is looked at while logging only
  /\ pc = "test"
  /\ pc' = IF g_shutdown /\ g_log_fd THEN "log_shutdown" ELSE "read"
  /\ UNCHANGED <<g_shutdown, g_log_fd, logOpen, path, fifo, tun, counts, environment>>

LeavesUnlogged ==                       \* mutant: server_run returns without its event
  /\ pc = "test"
  /\ pc' = IF g_shutdown THEN "close" ELSE "read"
  /\ UNCHANGED <<g_shutdown, g_log_fd, logOpen, path, fifo, tun, counts, environment>>

TestShutdown ==
  /\ pc = "test"
  /\ pc' = IF g_shutdown THEN "log_shutdown" ELSE "read"
  /\ UNCHANGED <<g_shutdown, g_log_fd, logOpen, path, fifo, tun, counts, environment>>

tun_read ==
  /\ pc = "read" /\ tun > 0
  /\ tun' = tun - 1 /\ pc' = "log_read"
  /\ counts' = [counts EXCEPT !.late = IF g_shutdown THEN @ + 1 ELSE @]
  /\ UNCHANGED <<g_shutdown, g_log_fd, logOpen, path, fifo, environment>>

ReadFails ==
  /\ pc = "read"
  /\ pc' = "test"
  /\ UNCHANGED <<g_shutdown, g_log_fd, logOpen, path, fifo, tun, counts, environment>>

After(p) == CASE p = "log_read" -> "demux"
              [] p = "log_write" -> "write"
              [] p = "log_shutdown" -> "close"
Logged(p) == counts' = IF p = "log_write" THEN [counts EXCEPT !.logged = @ + 1] ELSE counts

LOG_EVENT ==
  /\ pc \in LogPc
  /\ pc' = After(pc)
  /\ \/ ~g_log_fd /\ UNCHANGED <<g_log_fd, fifo, counts>>
     \/ /\ g_log_fd /\ viewer = "reading" /\ Len(fifo) < PipeCap
        /\ fifo' = Append(fifo, pc) /\ Logged(pc) /\ UNCHANGED g_log_fd
     \/ /\ g_log_fd /\ viewer # "reading"
        /\ g_log_fd' = FALSE /\ UNCHANGED <<fifo, counts>>
  /\ UNCHANGED <<g_shutdown, logOpen, path, tun, environment>>

RepliesUnlogged ==                      \* mutant: the reply is not logged
  /\ pc = "demux"
  /\ pc' \in {"write", "test"}
  /\ UNCHANGED <<g_shutdown, g_log_fd, logOpen, path, fifo, tun, counts, environment>>

net_demux ==
  /\ pc = "demux"
  /\ pc' \in {"log_write", "test"}
  /\ UNCHANGED <<g_shutdown, g_log_fd, logOpen, path, fifo, tun, counts, environment>>

tun_write ==
  /\ pc = "write"
  /\ pc' = "test" /\ Count("written")
  /\ UNCHANGED <<g_shutdown, g_log_fd, logOpen, path, fifo, tun, environment>>

Exit ==
  /\ pc = "close"
  /\ pc' = "done"
  /\ logOpen' = IF g_log_fd THEN logOpen \ {"fifo"} ELSE logOpen
  /\ tun_destroy("destroyed")
  /\ UNCHANGED <<path, loopVars>>

Main   == \/ Arguments \/ BootDevice \/ InstallHandler
          \/ StartQuiet \/ StartVerbose \/ LogInitFails \/ Exit
Loop   == TestShutdown \/ tun_read \/ LOG_EVENT \/ net_demux \/ tun_write
Server == Main \/ (Loop /\ UNCHANGED tunVars)

-----------------------------------------------------------------------------
(* log.py.  Opening a FIFO waits for a writer and lets a waiting writer    *)
(* go; a read returns nothing once there is no writer.  The kernel closes  *)
(* what an exiting server left open.                                       *)
HasWriter == "fifo" \in logOpen /\ pc \notin Dead

ViewerStarts ==
  /\ viewer = "off" /\ path # "none" /\ viewers < MaxViewers
  /\ viewers' = viewers + 1
  /\ IF path = "ours" /\ pc = "opening"
     THEN /\ viewer' = "reading"
          /\ pc' = "test" /\ g_log_fd' = TRUE /\ logOpen' = logOpen \cup {"fifo"}
     ELSE /\ viewer' = IF path = "ours" /\ HasWriter THEN "reading" ELSE "opening"
          /\ UNCHANGED <<pc, g_log_fd, logOpen>>
  /\ UNCHANGED <<g_shutdown, path, fifo, script, tun, arrived, counts>>

ViewerReads ==
  /\ viewer = "reading" /\ fifo # <<>>
  /\ fifo' = Tail(fifo)
  /\ viewer' = IF Head(fifo) = "log_shutdown" THEN "off" ELSE "reading"
  /\ UNCHANGED <<pc, g_shutdown, g_log_fd, logOpen, path, script, tun, arrived, viewers, counts>>

ViewerAtEnd ==
  /\ viewer = "reading" /\ fifo = <<>> /\ ~HasWriter
  /\ viewer' = "off"
  /\ UNCHANGED <<pc, g_shutdown, g_log_fd, logOpen, path, fifo, script, tun, arrived, viewers, counts>>

ViewerInterrupted ==
  /\ viewer # "off"
  /\ viewer' = "off"
  /\ UNCHANGED <<pc, g_shutdown, g_log_fd, logOpen, path, fifo, script, tun, arrived, viewers, counts>>

(* The kernel routes packets to the device while it is open and up.        *)
DeviceUp == "fd" \in held /\ "up" \in requested

(* shutdown.sh: kill -USR1, then one ping.  The handler runs before the    *)
(* server's next step; before sigaction the signal kills the process.      *)
server_shutdown ==
  IF pc \in {"main", "boot"} THEN pc' = "killed" /\ UNCHANGED g_shutdown
  ELSE g_shutdown' = TRUE /\ UNCHANGED pc

ScriptKills ==
  /\ script = "idle" /\ pc \notin Dead
  /\ script' = "killed"
  /\ server_shutdown
  /\ UNCHANGED <<g_log_fd, logOpen, path, fifo, viewer, tun, arrived, viewers, counts>>

SkipsPing ==                            \* mutant: the script sends no packet
  /\ script = "killed"
  /\ script' = "done" /\ UNCHANGED tun
  /\ UNCHANGED <<pc, g_shutdown, g_log_fd, logOpen, path, fifo, viewer, arrived, viewers, counts>>

ScriptPings ==
  /\ script = "killed"
  /\ script' = "done" /\ tun' = IF DeviceUp THEN tun + 1 ELSE tun
  /\ UNCHANGED <<pc, g_shutdown, g_log_fd, logOpen, path, fifo, viewer, arrived, viewers, counts>>

PacketArrives ==
  /\ arrived < MaxPackets /\ DeviceUp
  /\ arrived' = arrived + 1 /\ tun' = tun + 1
  /\ UNCHANGED <<pc, g_shutdown, g_log_fd, logOpen, path, fifo, viewer, script, viewers, counts>>

Viewer == ViewerReads \/ ViewerAtEnd

Init ==
  /\ TunInit
  /\ pc = "main" /\ g_shutdown = FALSE /\ g_log_fd = FALSE /\ logOpen = {}
  /\ path \in {"none", "old"} /\ fifo = <<>> /\ viewer = "off"
  /\ script = "idle" /\ tun = 0 /\ arrived = 0 /\ viewers = 0
  /\ counts = [late |-> 0, written |-> 0, logged |-> 0]

Others == \/ ReadFails \/ Viewer \/ ViewerStarts \/ ViewerInterrupted
          \/ ScriptKills \/ ScriptPings \/ PacketArrives

Next == Server \/ (Others /\ UNCHANGED tunVars)

(***************************************************************************)
(* The server and the viewer run whenever no system call blocks them, and  *)
(* the script goes on to its ping.  Nothing makes a read fail, the user    *)
(* start or stop a viewer, or the network send.                            *)
(***************************************************************************)
Fairness == /\ WF_vars(Server)
            /\ WF_vars(Viewer /\ UNCHANGED tunVars)
            /\ WF_vars(ScriptPings /\ UNCHANGED tunVars)
Safe == Init /\ [][Next]_vars
Spec == Safe /\ Fairness

-----------------------------------------------------------------------------
(* Type invariant of the process and its surroundings.                     *)
TypeOK ==
  /\ TunTypeOK
  /\ pc \in {"main", "boot", "start", "opening", "test", "read", "demux", "write", "close"} \cup LogPc \cup Dead
  /\ g_shutdown \in BOOLEAN /\ g_log_fd \in BOOLEAN /\ logOpen \subseteq {"fifo_end", "fifo"}
  /\ path \in {"none", "old", "ours"} /\ fifo \in Seq(LogPc) /\ Len(fifo) <= PipeCap
  /\ viewer \in {"off", "opening", "reading"}
  /\ script \in {"idle", "killed", "done"} /\ tun \in Nat

(* Once SIGUSR1 was handled the server reads at most one more packet, the  *)
(* one that takes it out of the restarted read.                            *)
OneMoreRead == counts.late <= 1

(* While the log is attached every reply is in the FIFO before it is on    *)
(* the wire, and at most one reply is logged and not yet written.          *)
LoggedBeforeWritten ==
  g_log_fd => counts.logged - counts.written = IF pc = "write" THEN 1 ELSE 0

(* An attached viewer is always told of the shutdown, as the last event:   *)
(* nothing follows it in the FIFO, and the server does not pass it on the  *)
(* way out while the log is attached.                                      *)
ShutdownIsLast ==
  /\ \A i \in 1 .. Len(fifo) : fifo[i] = "log_shutdown" => i = Len(fifo)
  /\ (pc = "close" /\ g_log_fd /\ viewer = "reading" /\ fifo # <<>>)
       => fifo[Len(fifo)] = "log_shutdown"

(* What every way out of main gives back, and what it leaves to the        *)
(* kernel.  Bad arguments, a device that cannot be made or configured,     *)
(* whichever call of tun_init fails, a log that cannot be opened, the      *)
(* shutdown: the device, its socket and its memory are released, once.     *)
(* The log is written to only through an open descriptor, and a failing    *)
(* log_init leaves none; after a shutdown the FIFO is closed unless a      *)
(* failed write had made log_event forget it.  The FILE of log_init stays. *)
ExitAccounts ==
  /\ DeviceReleased
  /\ pc \in {"done", "failed"} => held = {}
  /\ g_log_fd /\ pc # "done" => "fifo" \in logOpen
  /\ pc = "failed" => "fifo" \notin logOpen
  /\ pc = "done" => ("fifo" \in logOpen <=> "fifo_end" \in logOpen /\ ~g_log_fd)

(* No packet is read from a device whose address and link were not both    *)
(* requested, whichever combination of the two Netlink requests failed,    *)
(* and the descriptor is open as long as the server may read or write.     *)
ServesConfigured ==
  pc \in {"test", "read", "demux", "write"} \cup LogPc =>
    requested = {"addr", "up"} /\ "fd" \in held

(* shutdown.sh stops a server that is past log_init: the signal and the    *)
(* ping together take it out of any read, any full FIFO and any reply.     *)
(* Viewers are sent home with it, for good, also one that attached after   *)
(* log_event had forgotten the descriptor and so is never told of the      *)
(* shutdown: its read ends when the server exits.                          *)
ShutdownCompletes ==
  (script = "done" /\ pc \notin {"main", "boot", "start", "opening"})
    ~> [](pc \in Dead /\ viewer # "reading")

(* What log.h says of log_init, "Python debug viewer must be running and   *)
(* reading from FIFO before calling": a viewer that was running first is   *)
(* the one log_init attaches to, and never waits beside a waiting server.  *)
ViewerMayStartFirst == ~(pc = "opening" /\ viewer = "opening")
=============================================================================
