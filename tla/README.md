# Lazy TCP: TLA+ specifications

Specifications, model-checking runs and proofs for Lazy TCP, a TCP stack in user
space that reads and writes packets through a Linux TUN device. The repository
holds two generations of it:

* the **legacy stack** (`main.c`, `network/`, `v_device/`, `debug/`,
  `thread_pool/`, `packet_cooking/client.py`), which accepts connections, answers
  HTTP requests and keeps its connections in a linked list;
* the **refactored stack** (`refactor/`), which has a hash table of connections,
  a packet log with a Python viewer and a signal-driven shutdown, and stops at the
  handshake (data is not handled yet).

`PROJECT.json` lists components, runs, mutants, the map from definitions to
source lines, findings, hazards and theorems.

## 1. Inventory

### Refactored stack

| component | state | operations | interacts with |
|---|---|---|---|
| process (`main.c`, `shutdown.sh`) | `g_shutdown`, the packet buffer | `main`, `server_run`, `server_shutdown` (SIGUSR1) | TUN device, logger, `net_demux` |
| logger (`log/log.c`, `log.h`) and viewer (`log/log.py`) | `g_log_fd`, the FIFO, what `log_init` opened | `log_init`, `log_event`, the `close` in `main`; viewer: open, read, exit | FIFO shared by two processes |
| demultiplexer, IP, ICMP (`network/`) | none; all rewrite the one packet buffer | `net_demux`, `checksum`, `ip_validate`, `ip_swap_dst`, `ip_checksum`, `icmp_*` | called once per packet; TCP |
| TCP dispatch (`tcp/tcp.c`) | none of its own | `tcp_dispatch`, `tcp_parse_edge`, `tcp_checksum` | table, TCB, segment builder |
| TCB (`tcp/tcb.c`, `tcb.h`) | one control block per connection | `tcb_init`, `tcb_state_update`, `tcb_id_match` | table (a reset deletes) |
| segment builder (`tcp/segment.c`) | none | `tcp_syn_ack`, `tcp_rst` | table (`tcp_rst` deletes) |
| connection table (`tcp/hash.c`, `tcp/vector.c`) | `g_con_table`, `g_tbl_init`, growing vectors | `hash_find`, `hash_insert`, `hash_delete`, `hash_destroy`, `vec_*` | heap |
| TUN device (`tun/`) | descriptors, the `Tun` structure | `tun_alloc`, `tun_ip_add`, `tun_ip_wake`, `tun_init`, `tun_read`, `tun_write`, `tun_destroy` | kernel, by `ioctl` and Netlink |
| scapy client (`tests/catch.py`) | `my_seq`, `their_seq`, `state` | `handshake`, `send_data`, `close`, menu | the server, over the network |

### Legacy stack

| component | state | operations | interacts with |
|---|---|---|---|
| TCP server (`network/tcp/tcp.c`) | `TCP_Server_Instance`: linked list and size | `tcp_dispatch` and what it calls | `parse_packet` in `main.c` writes the reply |
| HTTP responder (`network/http/http.c`) | none | `http_handle_request`, `http_serve_file` | called per data segment |
| scapy client (`packet_cooking/client.py`) | `my_seq`, `their_seq`, `state` | `handshake`, `send_data`, `close`, menu | the server, over the network |
| thread pool (`thread_pool/`) | job array, mutex, condition variable, `shutdown` | `job_enqueue`, `thread_pool_start`, `thread_pool_init`, `thread_pool_destroy` | no caller in the repository yet |
| process (`main.c`), packet layer (`network/`), device (`v_device/`) | descriptor, names, packet buffer | `main`, `parse_packet`, `packet_deserialize`, `icmp_dispatch`, `tun_alloc`, `tun_init`, `virtual_device_destroy` | kernel; TCP server |
| debug printing (`debug/`) | none | printing | |

### What is hard, and what correctness means

* *Table and memory.* Connections come and go inside a single call: a segment to a
  port nobody listens on creates a block and deletes it again. Deletion frees a block and moves
  another slot; allocation may fail at three places. Correct means: slots and
  blocks correspond one to one, one block per four-tuple, lookup is exact, arrays
  are never overrun, the counter never wraps.
* *Handshake arithmetic.* Numbers wrap at 2^32; a window test is made with signed
  differences. Correct means: the numbers in a block follow the handshake, and the
  server does to its peers only what an abstract listener would do.
* *Unreliable delivery.* Segments of the same or an earlier client process come
  late, twice or in another order, and `sr1` gives up while the answer is under
  way. Correct means: both ends agree on the initial numbers, no two response
  bytes share a number, peers do not disturb each other, and once the network
  behaves a new handshake heals whatever state the two were left in.
* *Replies built in place.* A reply is written over the packet it answers, in a
  buffer that still holds earlier packets; lengths come from the packet or from the
  read, and checksums are taken while fields change. Correct means: bounds hold, an
  ICMP error quotes what was received, nothing of another packet goes out,
  checksums fit, and no ICMP reply provokes another.
* *Set-up.* Each of a dozen calls may fail with others already made. Correct means:
  what was taken for the device is given back once, and no half-configured device is served.
* *Processes around the server.* A signal that does not interrupt `read`, a FIFO
  that blocks at both ends, a viewer that comes and goes. Correct means: the
  server stops when `shutdown.sh` has run, and the viewer is told or at least let go.
* *Threads.* Signals outside the mutex, spurious wakeups, shutdown during
  enqueue. Correct means: no job lost, repeated or reordered, no wakeup lost, no
  join that waits for ever.

The full list, with the line where each hazard bites, is `hazards` in
`PROJECT.json`.

## 2. Modules

```
SeqSpace ── TcpProtocol ── ConnTable ── TcpServer
   │             └─ TcpListener   (abstract; TcpServer implements it)
   ├── LegacyServer ── LegacyMain
   └── ScapyClient
TcpServer + ScapyClient ── TcpSession
LegacyServer + ScapyClient ── LegacySession
TunDevice ── ServerLoop
PacketLayer        Checksum        ThreadPool

proofs:  TcpServerProofs (ConnTable and TcpServer) ── TcpSessionProofs
         ServerLoopProofs  PacketLayerProofs  ChecksumProofs  LegacyMainProofs
         LegacySessionProofs  ThreadPoolProofs
```

* **`SeqSpace`**: 32-bit sequence numbers as `0 .. W16*W16-1`, addition and subtraction
  modulo that, and the `SEQ_` macros of `tcb.h` with their signed comparison.
* **`TcpProtocol`**: `Segment`, `TCB`, `tcb_init`, `parse_edge` (the classification in
  `tcp_parse_edge`), the cases of `tcb_state_update` (`update_syn`, `AckAccepted`,
  `update_ack`, `RstAccepted`) and the replies of `segment.c`. `tcp_rst` is a *set*
  of replies, because it reads variables that only one branch assigns: the constants
  `Garbage` and `GarbageFlags` are what the stack may hold.
* **`ConnTable`**: the hash table, its vectors with their capacities, and the heap,
  in one record `store`; a pointer is an element of `Ptr`, alive when it is in
  `DOMAIN store.heap`. `InsertFailures` are the stores after a failing `tcb_init`,
  `hash_init` (after any number of buckets) or `realloc`. `TableSpec` lets clients
  make any sequence of the calls `tcp.c` makes.
* **`TcpServer`**: `tcp_dispatch`, one step per segment, since the server is single-threaded:
  look up or create (`Known`, `New`, `NoMemory`), then one action per edge
  (`OnSyn`, `OnAck`, `OnRst`, `OnSendRst`, `OnOther`). `rcvd` is the segment read,
  `out` the packet `server_run` writes.
* **`TcpListener`**: the promise to the peers: a session per four-tuple, with no
  table and no memory. `TcpServer!ImplementsListener` is the refinement; the mapping sends
  a block to a session and a `CON_CLOSED` block to no session. `rcvd` is shared, so
  that the listener must justify a step by the very segment that caused it.
* **`LegacyServer`**: the first `tcp_dispatch`, one action per path. The linked list
  is a sequence. `ByteSwap` models the missing `ntohl` in `tcp_got_rst`. A NULL
  dereference ends the process (`alive`).
* **`LegacyMain`**: the process around it: the start-up calls of `main.c` and
  `v_device.c`, each with its failure and what `main` gives back then (`owned`, `botched`),
  the read loop, and `parse_packet` with its TCP, ICMP and other packets.
* **`ScapyClient`**: the `TCPClient` of `client.py` and `catch.py` (the same class) and
  the network. A method sends one segment and waits in `sr1`. On an unreliable network
  a segment stays under way for ever, so it can be lost (never read), repeated, delayed
  and overtaken, and clients time out, restart from the same port and number, and have
  kernels that reset connections they do not know. On a `calm` one every segment arrives
  once and `sr1` gives up only when nothing is under way.
* **`LegacySession`**: client and legacy server; the network is unreliable, or calm from
  the start.
* **`TcpSession`**: client and refactored server; the network is unreliable and may
  become calm at any moment the client is in its menu (`Calms`), which loses what was in
  flight and leaves both ends as they are.
* **`PacketLayer`**: the packet path of the refactored stack. The buffer is an array of
  cells, one per header field or piece of payload, with lengths in cells; a checksum is
  the bag of cells it covers. Handlers are operators that yield the buffer and the length
  they leave; `tcp_dispatch` is any of its three outcomes, since which one is
  `TcpServer`'s affair.
* **`Checksum`**: `checksum` with one step per iteration and byte, and its uses: filled in, summed
  with its field and compared with zero (IP, ICMP), summed without and compared with the
  field (TCP). `packet_checksum` of the legacy stack is the same code.
* **`TunDevice`**: `tun_init` and `tun_destroy` as a life cycle of descriptors and blocks
  (`held`), any call of which may fail; `requested` is what the kernel was sent.
* **`ServerLoop`**: the process over that device: `main` with its arguments, handler
  and exits, `server_run`, signal, FIFO, viewer and script. A server step lies between
  two system calls that may block. `g_log_fd` is what the program remembers, `logOpen` what
  is really open: the `FILE *` of `log.c:38` and the write end of the FIFO. The two part
  when `log_event` forgets the descriptor (`log.c:33`).
* **`ThreadPool`**: workers, callers and the owner, one step between two points of
  interference. POSIX objects are external: a mutex with one holder, a condition
  variable whose signal wakes any one sleeper, spurious wakeups (bounded by
  `MaxSpurious`).

Each `MC` module instantiates the module it is named after. Operators marked
`\* mutant` are plausible bugs of the definition that follows them; no specification uses them.

## 3. Runs

| run | instance | shows |
|---|---|---|
| `conn_table` | 4 connections, 3 in one bucket, arrays of 1 | table soundness for any sequence of calls |
| `tcp_server` | 2 listening connections in one bucket, 1 to another port, numbers around the wrap of 16, window 3 | soundness under `tcp_dispatch`; handshake numbers across the wrap; refinement of `TcpListener` |
| `tcp_session` | 1 client, 4 calls, 4 deliveries before the calm, numbers 0..255 | established only with a SYN-ACK the client heard; two calm handshakes never fail in a row; a calm handshake links both ends |
| `legacy_main` | 3 peers, of which 2 send every combination of flags, 2 kinds of ICMP messages, every start-up failure | list, isolation of peers; what every exit gives back |
| `legacy_session` | 1 client, 4 calls, 5 deliveries or a calm network, numbers 0..1295 | agreement on initial numbers; responses do not overlap; both ends count the same bytes |
| `server_loop` | FIFO of 2 events, 3 packets, 3 viewers, every set-up failure | what every exit releases and leaves open; log order; shutdown within one more read; `shutdown.sh` stops the server and releases its viewers |
| `packet` | 2 packets in a row out of 92, IP headers with and without options, buffer of 25 cells | bounds, quotation of what was received and of nothing older, validity and finality of ICMP replies, SYN-ACK checksums |
| `checksum` | every buffer of 4 to 10 bytes of two values, every change of one byte | exact sum, own packets accepted, damage of a byte rejected when as many bytes are summed, both tests agree, folding ends |
| `pool_safety` | 3 workers, 2 callers, 3 jobs, 3 slots | mutex, job order, wakeups, draining |
| `pool_live` | 2 workers, 2 callers, 2 jobs | destroy returns, accepted jobs are handled |
| `v_reset_is_reset` | 1 connection, modulus 16 | violated: see divergence 1 |
| `v_viewer_first` | as `server_loop` | violated: see divergence 2 |

**Bounds, and why they are enough.** `W16` is 2 to 36 instead of 2^16 (and `W8` 2 to 6
instead of 2^8): all arithmetic is modulo `W16*W16` and only compares, adds small
numbers or takes halves and bytes, so a small modulus keeps the wrap and the
turn-over of the signed difference and makes both happen in every behaviour.
`DEF_CAP = 1` makes a vector grow at the second connection instead of the
seventeenth; three connections in a bucket let a deletion hit first, middle and last slot.
`Ptr` has one address per connection, so an address is reused after a free.
`LOAD_BOUND = 3` leaves two usable slots for three jobs: the queue is refused, full and
empty in turn; three workers allow one to sleep, one to wake late and one to run.
`PipeCap = 2` lets the FIFO fill while a packet is handled. Four calls and five
deliveries admit a handshake with a repeated SYN and a late ACK, a restart in the
middle, and a request that is delivered twice. `legacy_main` and `legacy_session` let
`tcp_get_ticks` return two or three values; in the sessions it returns no value twice.

A byte of two values (`W8 = 2`) gives 16-bit words of four values and a 32-bit accumulator
of sixteen, which five words can just not overflow, as 750 words cannot in the code
(`ChecksumAssumption`); single and double carries, a zero sum, all ones and odd
lengths all occur. In `packet` the IP header has 7 or 9 cells, ICMP 3, TCP 4 or 5, and
an error quotes 3 cells: datagrams shorter than, equal to and longer than the quotation and
a maximal header come up, and two packets suffice for stale cells, since only the
last content of the buffer matters. In `tcp_session` four deliveries before the calm leave every combination
of block (none, left-over `CON_CLOSED`, half open, established with this or an earlier process) and
client state; the calls that remain are the two handshakes of `RetrySucceeds` or a
handshake followed by data or a close.

`tcp_server` declares heap addresses symmetric: nothing depends on which one `malloc` returns,
and the abstract listener does not see them.

**Deadlock** is checked in the table, TCP and thread pool runs. It is off where the
system may stop: a legacy server that dereferenced NULL, the sessions and the packet
path at their bound, a server that exited, a packet that was judged.

**Fairness.** `ThreadPool`: weak fairness of every worker, of a caller inside
`job_enqueue` and of the owner inside `init` and `destroy`: an ordinary scheduler.
Nobody must start a call. Weak fairness of a lock attempt suffices because jobs
and spurious wakeups are finite, so a mutex is not contended for ever.
`Checksum`: weak fairness of the one sequential program (`Judged`).
`ServerLoop`: weak fairness of the server, of a viewer that is reading, and of
the script's second command. Nothing makes a read fail, a packet arrive or a user
start or stop a viewer; in particular `ShutdownCompletes` rests on the script's own ping.
It is stated for a server past `log_init`: one that waits for a viewer there stays
until one comes, as the Quirks section of `refactor/README.md` says. The same fairness
lets it promise that no viewer stays: one that attached to a forgotten descriptor gets no
event, but its read ends when the kernel closes the exited server's descriptors.

## 4. Proofs

TLAPS checks every step; no theorem is assumed. The assumptions are the named `ASSUME`s
of the modules, which TLC evaluates in the runs.

* **`TcpServerProofs`, the table**: for any number of buckets, capacity, hash function, addresses
  and connections, `TableSpec` keeps `TableOwnsBlocks`, `TableUnique`, `TableLookup`,
  `TableCapacity` and `TableSize`. None is inductive alone: that swap-and-pop
  leaves no dangling slot needs that a block is filed once and that an ID has one
  block; that the counter is exact needs that what is freed was alive. The
  invariant `TableInv` is their conjunction with the type, `StoreOK`, plus that an
  uninitialised table is empty. One lemma per table operation (`InsertSound`,
  `FailuresSound`, `DeleteSound`, `DestroySound`) says it preserves `StoreOK` and what it
  does to the blocks; `FindSpec` says what `hash_find` returns.
* **`TcpServerProofs`, the dispatch**: for any width, window, segments and garbage, `Spec` keeps
  `TypeOK`, `TableSound`, `HandshakeNumbers` and `OnlyListeningBlocks`. `ServerInv` joins
  the table invariant, the agreement of numbers in every block, and the reply's
  type. `HandleSound` treats the edges one by one on a store in which the block just
  created may still be foreign (not listening); such a block always gets `EVT_SEND_RST`, whose
  deletion restores the invariant. The table lemmas are reused.
  `ImplementsTheListener` proves the refinement. `SessionsOf` is the refinement mapping as
  a function of any store, so that the table lemmas say what inserting, writing and
  deleting a block do to the sessions; a block made and dropped for one segment is
  never seen. `WindowExact` shows that the signed `SEQ_` comparisons accept exactly the
  numbers of the window wherever it wraps, for a window of at most half the space
  (`WindowAssumption`). `Responds` keeps which function built the reply.
* **`TcpSessionProofs`**: for any number of calls, restarts, deliveries and repetitions,
  `SessionSpec` keeps `EstablishedWasHeard`, `RetrySucceeds` and `LinkAgrees`. `SessionInv` says
  of every segment on its way to the server that it acknowledges only what the client was told (`ToldBy`), of every reply that
  it is a SYN-ACK with a drawn number or a reset with a number that is not drawn, and that a
  drawn number stands for one pair of initial numbers among sessions, replies and what the
  client heard (`DrawnOnce`). A confirming ACK therefore proves that the client heard that
  number, and heard it with the session's `irs`. The server's part is the
  refinement: each delivery is a listener's step.
  Over a calm network `RetrySucceeds` and `LinkAgrees` hold whatever the confusion before it
  left. `CalmInv` says that one segment is under way at a time, and what it is: during a
  handshake the SYN (`Asking`), its refusal, after which the server holds nothing of this
  peer (`Refused`), or the SYN-ACK of a server that held nothing before (`Invited`); at other
  times nothing, a segment that acknowledges, or a refusal (`Settled`). A first handshake
  that fails therefore removes the block, nothing the client sends in between makes one,
  and `StrangerAnswered` shows that the second SYN is answered. A successful one leaves its
  last ACK on the way to a half-open session with the client's own numbers, or an open
  session that neither data nor a close changes (`LinkHolds`).
* **`ServerLoopProofs`**: for every FIFO capacity and any number of packets, viewers and
  failures, `Safe` keeps `TypeOK`, `OneMoreRead`, `LoggedBeforeWritten`, `ShutdownIsLast`, `ExitAccounts`
  and `ServesConfigured`. `IInv` gives, for every place in `main`, `tun_init` and
  `server_run`, what is held and requested there (`DeviceInv`, `Placed`), what of the log is
  open, remembered or not (`Opened`), how far logging is
  ahead of writing and how many reads followed the signal (`Counted`), and where
  the shutdown event can be (`Told`).
* **`PacketLayerProofs`**: for every buffer, header, quotation and packet length, `Spec`
  keeps `InBounds`, `QuoteIsOriginal`, `ReplyIsFinal` and `SynAckValid`. `PacketInv` says that the buffer
  begins with the packet read and, before a write, holds a correct reply to it; one
  lemma per handler follows the buffer through its assignments.
* **`ChecksumProofs`**: for every width of a byte, packet and place of the checksum, `Spec` keeps
  `SumExact`, `VerdictsRight` and `TestsAgree`. The reference sum is a recursive function; that it
  satisfies its recursion, and that changing one byte moves it by that byte's weight, are
  inductions over the buffer. `SetInduction` does them with a set of numbers, from the library's
  facts that `<` is well founded and that a non-empty set has a minimal element (`WFMin`), since
  the induction theorems themselves take an operator. `ChecksumInv`: while adding, the
  accumulator is that sum and at most 2^16 - 1 per word; while folding, congruent to it;
  the stack's packets are correct, a damaged one was a byte ago; the verdicts are what they
  mean (`Correct`, `Passes`). `Reduced(s, t)` is what folding makes of a sum: unique, and a
  change of one byte shifts the sum by less than 2^16 - 1, so it cannot stay a multiple.
* **`LegacyMainProofs`**: for any peers, segments, bodies and window, `MainSpec` keeps `TypeOK`,
  `ListSound` and `MainReleases` and satisfies the action property `Isolation`. `LegacyInv`
  joins a sound list with what `main` owns at every place (`Holds`); `OnlyTouches`
  says that a segment changes the block of its own four-tuple only.
* **`LegacySessionProofs`**: for any number of calls, restarts, deliveries, requests and
  response lengths, `SessionSpec` keeps `HandshakeAgrees`, `ResponsesDisjoint` and `InStep`. This
  server sends data, so an acknowledgement need not be that of a SYN-ACK, and the argument is about
  distance. `SessionInv` says that every number either end sends lies at most `Limit(Count)`
  from 0 or from a number the client heard (`InPlay`), where `Count` is the methods that
  ended plus the segments the server read; that a drawn number stands for one pair
  (`DrawnOnce`); and that the responses of the present connection lie behind its next
  number (`Behind`). Initial numbers are further apart than `Limit` can grow (`OneBase`,
  `AckedBase`), so an ACK that confirms a block counts from the block's own number,
  which the client therefore heard. Over a calm network reads are not bounded by
  `MaxDeliveries` but by the two segments a method can send (`Served`).
  `InStep` needs the phases of the block over a calm network (`Phase`): invited, its SYN-ACK
  alone under way; half open, with the numbers the client took, or renumbered by a SYN
  that overtook the ACK, so that no acknowledgement will ever match (`Forgotten`); in
  use, in step or ahead of the client by the one request read and the response under way
  (`Ahead`).
* **`ThreadPoolProofs`**: for any number of workers, callers, jobs and slots, `Safe`
  keeps `TypeOK`, `LockDiscipline`, `NoLostWakeup`, `JobsInOrder` and `DrainedBeforeExit`.
  The type invariant is strengthened by "a caller inside `job_enqueue` has a job" and "workers
  not yet created have not started". `NoLostWakeup` is inductive with it: an enqueue adds a
  job and a pending caller; a signal turns a pending caller into an awake worker or finds
  nobody asleep; a worker that goes to sleep saw an empty queue. `OrderInv` adds that the
  job a worker holds was taken and not handled, and that no job is accepted twice;
  `Stopping` says what workers may do once `shutdown` is set, and that a worker
  only leaves when what was queued at the shutdown has been taken.

**Assumptions on constants** beyond types: `HeaderAssumption` (a header length is a four-bit
field, so at most 60 bytes, and of a TCP packet the fixed header was read: section 6);
`ChecksumAssumption` (the checksum lies at an even offset, as in all three headers, and a buffer
of `MTU_SIZE` and a pseudo header, at most 760 words, cannot overflow 32 bits);
`ClientAssumption` (request lengths leave room for the two flags in a segment's length);
`IssAssumption` (the initial numbers drawn are none that `tcp_rst` sends, which are 16-bit or
uninitialised). The last one is needed: a client that closes acknowledges whatever number
the answer carries, so a reset that happens to carry the next initial number would make it
confirm a SYN-ACK it never heard. The code cannot exclude that; a 32-bit number drawn at random makes it
unlikely, as it does for repeated numbers.
`BoundAssumption` and `SpacingAssumption` of `LegacySession` say that the bytes counted in a run,
`Reach`, fit into the space, and that the initial numbers drawn in it are further than that
from each other and from 0. This is the same kind of luck, and as necessary: an earlier
connection's late acknowledgement of a response confirms a half-open block whose number
happens to lie just behind that response. `tcp_get_ticks` (`tcp.c:3`) compares with nothing; it
adds `rand()` to the microseconds, which spreads the numbers over the whole space.

**Only model-checked**: liveness (`ShutdownCompletes`, `DestroyReturns`,
`AcceptedAreHandled`, `Judged`), which is outside the prover's reach. Every invariant and every
other action property of the passing runs is proved; the inductive invariants were checked by
TLC on the runs' instances before.

## 5. Divergences

Found while modelling. The first two are runs whose property TLC violates.

1. `refactor/network/tcp/segment.c:83`: the reply to a refused segment without ACK has
   uninitialised flags, so it need not be a RST (`segment.h:28`). Its sequence number
   is uninitialised too, and with ACK its acknowledgement number is. Flags that
   happen to read SYN and ACK make a client believe in a connection; `LinkAgrees`
   excludes that case by asking that the number was drawn.
2. `refactor/log/log.c:45`: `log_init` unlinks the FIFO a viewer started before it is
   waiting on; both wait, on different FIFOs (`log.h:68`).
3. `refactor/log/log.c:38`: `log_init` opens a `FILE *` for the FIFO's name and closes it on
   no path, success, failing `mkfifo` or failing `open`; `log.c:33` forgets the FIFO's
   descriptor after a failed write, and `main.c:100` then skips its `close`. A server that
   was shut down thus has one or both open, where `main.c:18` says "Shutdown the server and
   cleanup resources". The kernel closes them with the process. `ExitAccounts` says
   exactly what is left.
4. `network/tcp/tcp.c:348`: a repeated SYN gives the half-open connection a new initial
   number, but `TCP_SILENT` keeps the SYN-ACK from being written (`tcp.c:58`).
5. `segment.c:80`: `tcp_rst` leaves the checksum of the received segment in place
   (`tcp.h:28`), and reads the 32-bit acknowledgement number with `htons`.
6. `segment.c:41`: the SYN-ACK is summed over the received length, so a SYN with
   payload gets a wrong checksum (`tcp.h:69`).
7. `refactor/network/tcp/tcp.c:131`: a retransmitted SYN resets and deletes a half-open
   connection that does match (`tcb.h:36`: "No matching connection, send reset").
8. `tcb.c:48`: a RST for an unknown four-tuple leaves a `CON_CLOSED` block in the
   table of "active TCP connections" (`hash.h:8`); `refactor/README.md` lists
   "Timeouts on idle closed state blocks" as to do.
9. `network/tcp/tcp.c:320`: the block is used before it is compared with NULL at 323.
10. `network/tcp/tcp.c:339`: the resets that were accepted are reported as invalid, and
   those refused are not; `tcp.c:222` reads the number without `ntohl`.
11. `network/tcp/tcp.c:387`: in `TCP_CLOSE_WAIT` no FIN was sent, contrary to the comment,
    and only a reset leaves the state.
12. `log.c:24` and `log.c:51`: writes and open block, where `log.h:14`, `log.h:67` and
    `log.h:70` say they do not.
13. `refactor/network/ip.c:10`: the total length field is never looked at, where `ip.h:10`
    lists "length consistency" among the checks; an echo reply repeats the length its
    request stated.
14. `refactor/tun/tun_device.c:38` and `:89`: the kernel's answer to a Netlink request is
    never read, so "0 on success" (`tun_device.h:58`, `:69`) means the request was sent.
15. `tun_device.c:175`: closing the descriptor of a device that was not made persistent
    removes the interface, where `tun_device.h:93` says it does not; `tun_device.h:13`
    calls `tun_init` with three arguments.
16. `v_device/v_device.c:38`: only `system` itself failing counts, not the command it ran; failure is
    1, where `v_device.h:38` says -1.
17. `main.c:40`: an ICMP message that is no echo request is written back as it came.
18. `refactor/main.c:105`: control blocks are never freed (`hash_destroy` has no caller).

## 6. Assumptions and abstractions

* Of a TCP segment at least the fixed header was read; `tcp_dispatch` does not test it. In
  `PacketLayer` a segment may be shorter than the header it claims, and the reply is then as long as the
  claim (`segment.c:27`, `:43`) and ends with what the buffer held: `InBounds` covers
  that, no other property does. In `TcpServer` a segment has the header it claims, and the IP total
  length is what was read.
* `Checksum` sums a fixed number of bytes. For ICMP and TCP that is what was read;
  `ip_validate` takes it from the IHL (`ip.c:8`, `:14`), so `VerdictsRight` does not speak of
  an IP header whose first byte was damaged.
* The arrays behind the vectors are capacities, not heap objects: `hash_init` that fails and
  is tried again leaks those it had made (`hash.c:26`, `vector.c:5`), which no property sees.
* The job array of the pool is a sequence, and the shift of `thread_pool.c:69` is its tail: an
  index error in that loop would not be seen. `pthread_join` does not fail (each worker is joined once, by its
  creator), so the early return of `thread_pool.c:116` is left out.
* The clients add modulo 2^32 where Python's integers do not wrap (`client.py:67`,
  `:114`, `:140`; `catch.py:66`, `:112`, `:139`). No run reaches a sum that wraps.
* A calm network delivers everything once, has a filter that keeps the client's kernel quiet, memory
  that suffices, and a user slower than the segments. `RetrySucceeds` and `LinkAgrees` are
  about such times, `EstablishedWasHeard` about all.
* Signed overflow wraps, as in the repository's unoptimised build; the machine is little-endian.
* `hash_id` is an arbitrary function into the buckets. A block's content is complete
  except for fields nothing reads.
* `tcp_gen_iss` may return any value of `IssValues`; in the sessions it and
  `tcp_get_ticks` (microseconds plus a random number) return no value twice,
  without which no implementation could tell two handshakes apart.
* `sr1` takes any segment of the server for the answer, a SYN-ACK only for a SYN: more than
  scapy's matching admits.
* The owner destroys the pool's mutex only when no `job_enqueue` is under way
  (`MFree`); nothing in the code enforces it and nothing calls the pool yet.
* Text, printing and the content of HTTP responses are left out; a response is its
  status and length.

Not modelled: `debug/`, which prints headers and blocks and changes no state;
`dump_packet` and what `display_event` prints; the arithmetic of `hash_id`; `vec_pop` and `tun_print`,
which have no caller or no body; what stdio does when the signal handler's `printf` interrupts
another.

## 7. Plan

Every invariant, the action property and the refinement of the passing runs are proved.
What is left is liveness, which needs a prover for fairness, and the hazards of
`PROJECT.json` with a note: a failure inside `pthread_create`, memory that runs out in
the legacy dispatcher, the condition variable of a destroyed pool, a client that closed
and never resets, and stdio in the signal handler. A retransmission timer
in the code would be the first thing to add to the sessions.
