# A TLA+ model of tns

tns is a user-space TCP/IP stack in C++20: hosts and routers are processes,
links are UDP sockets, routers run RIP, and hosts run a TCP with flow control,
retransmission, zero-window probing and connection teardown. This directory
models the parts of it that carry state shared between threads or nodes, checks
them with TLC and proves the safety results with TLAPS.

## 1. Inventory

| Component | State | Operations | Interacts by | What makes it correct |
|---|---|---|---|---|
| Ring buffer (`tcp/buffers.hpp`) | array of N cells | `write`, `read` with absolute positions | base of both buffers | every copied byte lands at, and comes from, its position modulo N |
| Send path (`buffers.hpp`, `sockets.hpp`) | `una_ nxt_ nbw_ wnd_`, `stopped_`, prober state | `write`, `sendReadyData`, `onAck`, prober, `sendFin_`, `shutdown`, retransmission | one mutex for the pointers, one for the queue, three condition variables, four threads and the pool workers | pointers in order, bytes sent are the bytes written, everything in flight is queued, window respected, nobody sleeps through work |
| Retransmission queue (`retransmission_queue.hpp`) | deque of entries, the probe entry | `enqueue`, `enqueueZwp`, `onAck`, `getExpiredEntries` | called by the sender, closer, workers and the retransmission thread | in order, an entry leaves only when acknowledged |
| Receive path (`buffers.hpp`, handlers in `tcp_stack.cpp`) | `nbr_ nxt_`, early arrivals, `stopped_`, the socket state | `onRecv`, `onCtrl`, `readAtMostNBytes`, `shutdown` | pool workers write, the reader waits on a condition variable | implements a byte stream; the window fits; FIN is not data |
| Interval set (`intervals.hpp`) | ordered set of intervals | `emplaceMerge`, `mergeRemove` | used under the receive buffer's lock | exactly the numbers inserted; first missing number |
| TCP stack (`tcp_stack.hpp/.cpp`, `sockets.hpp/.cpp`, `states.hpp`) | socket table, session table, free ids, socket states, pending list, accept queue | `vListen vConnect vAccept vClose vAbort`, packet handlers, reaper | a shared mutex for the tables, none for the states; raw references between objects | tables agree, ids do not leak, no connection is lost, no wake-up is lost |
| RIP (`routing_table.*`, `router_node.cpp`, `rip_message.*`) | table of each router, interface flags, datagrams in flight | periodic update, request, response, cleaner, enable and disable an interface | UDP datagrams, pool workers | no route looks better than it is, gateways are on a link, convergence |
| Routing table (`routing_table.hpp/.cpp`) | vector of entries | query, update from a RIP message, expiry, clean-up | its own mutex; `query_` returns a pointer after the unlock | behaves as a map from subnets to routes; longest prefix wins |
| Forwarding (`network_node.cpp`, `host_node.cpp`, `router_node.cpp`, `network_interface.cpp`, `datagram.cpp`) | none beyond tables and interface flags | `sendIp_`, `sendDatagram`, `recvDatagram`, `datagramHandler_` | UDP between nodes, pool workers | a datagram survives its path, every hop brings it nearer |
| Thread pool, periodic thread (`util/`) | task queue, stop flags | enqueue, worker loop, stop, destruction | run the handlers, the reaper and the RIP threads | no task waits while workers sleep; `stop()` is heard |
| Node (`network_node.*`, `host_node.*`, `router_node.*`) | members destroyed in reverse order | construction, receiving threads, destruction | threads that hold references into it | nothing that is still used is destroyed; destruction ends |
| Host commands (`host_node.hpp`, `vhost.cpp`) | position in `tcpSendFile`, `tcpRecvFile` | send and receive a file, `s r cl ab` | calls of the TCP stack | what is read is what was written |
| Header checksum (`ip/util.cpp`) | none | `ipv4Checksum` | each hop checks and renews it | the sum in ones' complement |
| Byte layouts, addresses, lnx parser, command parsing, vendored code | none, or text | | | not modelled, see section 8 |

What is hard here: eight pool workers handle packets concurrently and in any
order; every socket adds a sender, a prober and a retransmission thread; the
handlers visit a socket's state and write it later without a lock; references to
sockets outlive the critical sections that found them; packets are lost,
repeated and reordered; and sequence numbers are 32-bit and wrap. `PROJECT.json`
lists the hazards line by line with the properties that cover them.

## 2. Modules

| Module | Models |
|---|---|
| `Seq32` | unsigned arithmetic modulo M (2^32 in the program) |
| `RingBuffer` | `RingBuffer::write` and `read` as functions on the cells |
| `RetransmissionQueue` | queue entries, `onAck`, eligibility, retry counting |
| `SendBuffer` | the send path with its threads; extends the three above |
| `IntervalSet` | the set of early arrivals |
| `ByteStream` | abstract specification: sent, acknowledged and taken offsets |
| `RecvBuffer` | the receive path with workers, reader and FIN handlers; instantiates `ByteStream` |
| `Rip` | the routers of a network |
| `TcpStack` | socket table, listener, open, close, accept and reaper of one host |
| `Connection` | both ends of one TCP connection, every event handler of `tcp_stack.cpp`, and the users' commands |
| `RoutingTable` | `ip::RoutingTable` as the vector it is |
| `Forwarding` | a datagram between hosts over the routers of `Rip`, which it extends |
| `Checksum` | `ipv4Checksum` |
| `ThreadPool`, `PeriodicThread` | `util/thread_pool` and `util/periodic_thread` |
| `NetworkNode` | a node from its constructor to the end of its destructor; extends the two above |
| `Containers` | the ring buffer, the interval set, the routing table and the checksum as state machines beside their references; extends the four |
| `X_proofs` | theorems about module X; `Forwarding_proofs` has those about `Rip` too |
| `ContainerOps_proofs` | theorems about the operators of `RingBuffer` and `IntervalSet`, which the proofs of the two buffers and of `Containers` use |
| the other `MC...` | constants, reference definitions for TLC, and the statements the code refutes |

State and actions keep the names of the source where TLA+ allows. In `SendBuffer`
a critical section is one action: `WriterWrite` is one turn of the loop in
`write()`, `SenderTake`/`SenderEnqueue` are `sendReadyData` and `sendPacket_`,
`OnAck`/`AckQueue` are the two locked parts of `onAck`, `CloseGetNxt`,
`CloseWriteOne`, `CloseEnqueue` the three of `sendFin_`, `RtxRead`/`RtxScan` the
two of the retransmission thread. Nothing in the code keeps a socket to one FIN:
two `vClose()` that both find it established send two, and so does one that finds
CLOSE_WAIT because a FIN handler has overwritten FIN_WAIT_1. So any number of
threads (`Closers`) close, up to `MaxFins` FINs are sent in all, and a write that
goes on meanwhile meets a free size computed from them (`WriterAsserts`). A byte
is its position in the stream, so a misplaced byte is visible. In `RecvBuffer`
the peer is external: it sends any segment of a stream, again and in any order,
inside the window (`Fitting`: the window that is really free; otherwise the one
advertised). The free size is -1 when a FIN was counted on top of a full buffer,
and its cast to 16 bits is what is advertised; `read()` asserts that it is asked
for no more than a ring (`ReaderAsserts`). In `Rip` a subnet is
a link, an interface is a pair of router and link, and messages are a set from
which any may be handled, lost or discarded. In `TcpStack` every thread has one
record `op` that says what it is in the middle of; socket objects are named by
their allocation and never reused. An access to a destroyed object or a failed
assertion sets `failed` and stops the model; where the access is a write to a
dead stack frame (`~SynSent`) the process may or may not survive it.

`Connection` looks at what the two ends say to each other and leaves the inside
of a buffer to `SendBuffer` and `RecvBuffer`, tables and the reaper to
`TcpStack`. `net` is the set of all packets ever sent, each of which may be
delivered at any time, again, or never. Numbers count from each side's initial
number and a segment carries one byte. A thread's dispatch on the state, its
checks and its work on the buffers are one step; what it does after that is
listed in `todo` and taken one step at a time, with every other thread's steps in
between: each shutdown of a buffer, a FIN, an assertion, the call that moves a
socket from the pending list to the accept queue, and each assignment of a state.
A state written there replaces whatever another thread has written since the
check, as in the code. The three critical sections of `sendFin_` are in
`SendBuffer`. A user's `pause` names the threads that may be overtaken in this
way; it bounds TLC's runs, and the theorems hold for any. `result` is what
`vConnect` returned. The model stops once an assertion has failed (`sane`) or a
late SYN-ACK handler has moved the receive pointers back (`reset`), after which
numbers mean nothing.

`Forwarding` follows one datagram at a time: handling one changes no table, so
any number of them would see no more. `check` is the ttl for which the checksum
was computed, which is enough because `ChecksumExact` shows that headers that
differ in the ttl differ in it. In `RoutingTable` each operator is one critical
section; an entry holds an interface's address, not its network's, as the lnx
parser and RIP give it. In `NetworkNode`, `main` is the stage of construction or destruction;
each protocol handler is one step, and outside of "running", where it meets
members that are not there yet or no longer, the process may or may not survive
it (`failed`). `ThreadPool` and `PeriodicThread` destroy their mutex, condition
variable, queue and flag before they join the threads that use them, so locking
is such a case too, even in a node where nothing happens (`failed = "locks"`).

## 3. Runs that pass

| Run | Instance | Shows |
|---|---|---|
| `send_close` | M = 11, N = 2, initial number 7, one worker's ACKs in two halves, windows 0 and 2, writes of 3, up to two FINs, a FIN of the peer and an abort; 2.7 million states | types, `PointerOrder`, `InFlightCovered`, `PayloadIntact`, `WindowRespected`, `NoLostWriterWakeup` |
| `send_open` | M = 10, N = 2, initial number 7, windows 0 and 3 (whose edge wraps), fair; 31 thousand states | `OpenResolvedBelowWrap`: a SYN or SYN-ACK is answered or the socket given up, as long as the window's right edge does not wrap |
| `containers` | a ring of 3 cells, every range and length; intervals below 8; tables of 3-bit addresses; headers of nine 4-bit words | copies agree with a cell-by-cell reference; the interval set is exact and answers the first missing number; the routing table's vector is a map and its lookup the longest match; the checksum is the sum in ones' complement |
| `recv_flow` | N = 4, seven bytes, peer within the free space, reads of 1, 3 and 5; 223 thousand states | the buffer implements `ByteStream`; `FailsOnlyBeyondFin`: the one assertion that fails is that of `read()`, asked for more than a buffer when a FIN was counted on top of a full one; readers are woken |
| `connection` | six plans of the users (a file of one or two bytes, words the other way, closes and aborts at either end), two workers and the users' threads at each end, of which those the plan names may be overtaken between steps; 1.25 million states | `ReadInOrder`, `AcknowledgedCounted`, `HalfClosed` |
| `stack_passive` | one peer, two workers, two sockets, a pending list of one (which overflows) | `TableConsistent`, `NoOrphan`, `NoLostAccept` |
| `stack_active` | `vConnect` with one socket id for it and the listener (which runs out), fair reaper | `TableConsistent`, `ClosedReaped` |
| `forwarding` | three routers in a row with a host at either end, one router's and one host's interface switched, two flows; 1 million states | `MetricsReal`, `GatewayOnLink` of the tables; `AliveAtRouters` and `NearerEachHop` of the datagrams |
| `rip_row_live` | the row with losses, expiry and one interface switched, fair | `Converges` |
| `node_life` | a router with two interfaces, two workers, two datagrams, fair; 118 thousand states | `WorkConserving`, `AddressAlive`, `QuietExit`; `Handled` and `Exits` |

Bounds. Buffers of two to four cells and segments of one to three bytes make a
segment straddle the ring's end, partly fit, and overlap another. M is small; in
`send_close` it leaves remainder 1 modulo N, as 2^32 does modulo
65535, and the initial number is close enough to M that numbers wrap within a run, but far enough that the ring
is filled more than once before (`PayloadIntact` and `WindowRespected` speak of
the time before the wrap). There it has one closing thread, which sends one FIN
after another: with two at once and a ring that is reused the states are too many
for TLC, and the theorems take any set of them. INFINITY is 3 or 4 instead of 16:
poisoning, counting up and the cut at infinity all happen within the diameter of
the topologies; the ttl of 3 in `forwarding` is used up by the longest path the
routers still call reachable. `Cap` bounds datagrams between two interfaces to one, which still
allows reordering between different senders and loss of any. Two socket objects
allow a session to be reopened while references to its first socket exist.
In `connection` two bytes make a gap and a later byte, and a FIN before, between
and after them; each plan lets those threads be overtaken whose order it is about. In `node_life` two tasks and two workers are what a stolen task
and a notification to nobody need; a host differs from a router only in when its
periodic thread starts and in having no detached request, so the run is of a
router. The subnets of `containers` lie one inside
another, and routes to them are told with different addresses of one subnet;
`MCContainers` has TLC check the hypotheses of the table's theorems on them.
`CHECK_DEADLOCK FALSE` stands where the program may stop: an assertion aborts it,
a socket is closed and every thread has ended, or the process has exited.

Symmetry is used in `stack_passive` and `connection` (workers are
interchangeable; no liveness is checked there).

## 4. Fairness

`SendBuffer!Fairness`: each thread of a socket that can take its next step does
(they are OS threads blocked on nothing else), and the retransmission thread,
which is periodic, scans infinitely often with the timers expired (strong
fairness, since its scan alternates with other holders of the lock). Nothing is
assumed of the peer or the network. `Rip!Fairness`: each router's periodic
thread runs again and again, and workers handle the messages between two
interfaces; convergence is claimed only once `calm` holds, that is, no message
is lost, no interface switched and no route expires any more. `TcpStack!FairSpec`:
the reaper, a periodic thread, keeps running. `NetworkNode!FairSpec`: every
thread that can take a step does and handlers return; nothing is assumed of the
network or of the user, who may never type `exit`.

## 5. Statements of the repository that the code does not keep

Two runs check one statement each, of a comment or an assertion, and find the
code doing otherwise; `PROJECT.json` quotes the lines.

* `send_syn`: "BLOCKS until the connection is established or an error occurs"
  (`tcp_stack.hpp:314`). With the initial window 2^32 - 1 of an active open the
  right edge una + wnd wraps, a lost SYN is never eligible for retransmission and
  `vConnect` waits for ever. It needs no large window: with an initial number near
  2^32 the edge of a small one wraps too, and `OpenResolved` is refuted on
  `SendOpen` as well. What holds there is `OpenResolvedBelowWrap`.
* `recv_assert`: "Cannot write more than the buffer size" (`buffers.hpp:41`). The
  window over-advertises (`AdvertisedFits`), the overrun moves `nxt_` back
  (`NxtForward`), and a later segment fails the ring's assertion. This may be
  behind the first known bug of the repository's README (large transfers over lossy
  links).

The `MC` modules state further ones. TLC refutes each within two minutes when it
replaces the property of the named configuration (with the changes given):

| Statement | Configuration | What happens |
|---|---|---|
| `LinearPointers` | `SendClose` | the pointers wrap and are compared as plain integers |
| `SenderAwake` | `SendClose` | an ACK that frees space in a shrunken window notifies nobody |
| `EnqueuedInOrder` | `SendClose`, WriteSizes = {1} | a FIN is queued between a segment's number and its queueing |
| `FinQueued` | `SendClose` | an ACK of the data before a FIN removes the FIN |
| `ProbeQueuedOnce` | `SendClose` | a probe is queued before the acknowledged one is removed |
| `WriteFits` | `SendClose` | after two FINs the free size is negative, and as a `size_t` it lets a write through that fails the ring's assertion (`buffers.hpp:41`) |
| `InFlightResolved` | `SendSyn`, InitWnds = {3}, WriteSizes = {2} | lost data beyond the shrunken window is never sent again |
| `AdvertisedFits`, `NxtForward` | `RecvAssert` | see `recv_assert` |
| `OnlyDataRead`, `NothingUnread` | `RecvFlow`, StreamLen = 2 | the FIN is read as a byte; data before the FIN is refused |
| `NeverFails` | `RecvFlow` | a FIN is counted on top of a full buffer, and a `vRecv` of more than N bytes fails the assertion of `buffers.hpp:94` |
| `NeverFails` | `RecvFlow`, IRS = 15, ReadSizes = {1, 3} | a search key just below 2^32 wraps and its constructor throws |
| `DisabledIsInfinite` | `Forwarding` (module `MCForwarding`) | a disabled route keeps its metric |
| `PendingFound` | `StackPassive` without SYMMETRY | "FATAL: Normal socket not found in pending list" (`tcp_stack.cpp:82`): a handler races the closing of the listener or a second ACK |
| `SessionUnique`, `CreatorHoldsLive`, `QueueEstablished`, and `CloseWaitFromEstablished` as a PROPERTY | `StackPassive` without SYMMETRY | two workers enter one session; the reaper takes a new socket; an aborted socket stays queued; a FIN handler overwrites FIN_WAIT_1 |
| `StillSynSent` | `StackActive` with `Spec` | a close between the SYN-ACK and the wake-up of `vConnect` |
| `ExactEntry` | `Containers`, MCSubnets = {<<0, 1>>, <<0, 2>>, <<3, 3>>}, without `HypothesesHold` | "Find an iterator to the exact entry" (`routing_table.hpp:87`): two subnets with one network address and different masks are the same to `findEntryNoLock_`. `TableIsMap` and `LookupLongest` fail there too, so the run keeps network addresses apart, as the repository's configurations do; `EntriesExact` proves it for those |
| `PeriodicRuns` as a PROPERTY | `NodeLife`, CtorFirst = FALSE | "at a constant rate" (`router_node.hpp:44`): the thread starts before its mutex and flag are initialised |
| `QuietExitIsClean` | `NodeLife` | an idle node's workers and periodic threads lock a mutex, and read a queue or a flag, that are destroyed before the threads are joined (`thread_pool.hpp:24-28`, `periodic_thread.hpp:50-53`) |
| `TransferComplete` | `Connection` | both ends report "[SUCCESS]" (`vhost.cpp:392`, `host_node.hpp:94`) though the receiver stopped before the end of the file |
| `PointersSetOnce` | `Connection` | a second SYN-ACK's handler wakes up late and resets the receive pointers (`tcp_stack.cpp:34`) |
| `SaneAtStart` | `Connection` | `vSend` in SYN_RECEIVED makes the assertion of `tcp_stack.cpp:75` fail, or `cl` takes the pending socket away between the checks and `tcp_stack.cpp:82` |
| `FinAcknowledged` | `Connection` | a handler finds all acknowledged (`tcp_stack.cpp:244`), another thread sends a second FIN, and FIN_WAIT_2 is entered (258) with that FIN unacknowledged |

Seen while reading, without a property: `RIP_CLEANER_INTERVAL` is not used, the
cleaner runs every `RIP_INTERVAL`; `queryFirstMatch_` is not called; a FIN with
an ACK is handled but none is ever sent; `NetworkNode::enableInterface` and
`disableInterface` dereference `end()` for an unknown name
(`network_node.cpp:54`, `:69`); `tcpRecvFile` loops on an empty span after 10 MB;
`~SynSent` writes to the stack frame of a `vConnect` that may have returned;
`generateRipEntries_` takes `metric.value()` of every entry, which only the fact
that routers have no static routes makes safe; INIT_TTL equals INFINITY, so a
host behind a path of metric 15 drops what its router delivers; and the
detached threads of `sf` and `rf` capture locals by reference.

## 6. What is proved

For every value of the constants that satisfies the named assumptions. Every
theorem has the same shape: an inductive invariant, first checked by TLC on the
run's instance, then a lemma that it holds initially, one lemma (or case) per
action that a step keeps it, and the property as a consequence.

* `ContainerOps_proofs`. `WriteIsRingWrite` and `ReadIsRingRead`: the two-range
  copies of `RingBuffer` are the cell-by-cell ones for every N > 1, every data
  and every range the code's assertion admits (`last - at < N`); the buffers'
  models use the latter. `MergeRemoveExact` and `EmplaceMergeExact`: on any set
  of intervals that do not touch, `mergeRemove` returns the first missing number
  and takes out what lies before it, `emplaceMerge` loses no number, invents none
  and leaves no two that touch. Hypothesis `FarFromWrap`: no end is within two of
  M, since the code's search keys (`end + 1`) are plain `uint32_t`. The largest
  element of a finite chain is taken from well-foundedness, not by induction.
* `Containers_proofs` (`ContainersAssumption`, `TableAssumption`,
  `ChecksumAssumption`). The first two theorems carry the results above through
  any sequence of operations: `CopiesAlwaysAgree`, and `IntervalsAlwaysExact`,
  whose `RunEnd` and `Run` name the first missing number and the run around one
  without mention of intervals. `TableIsAMap`, `EntriesExact` and
  `LookupsLongest` share the invariant `Mirrors`: each entry of the vector is the
  route of its own subnet, each route has an entry, and no two entries are of one
  subnet. The hypotheses are needed: where two subnets share a network address
  (`NetworksApart`) `findEntry` confuses them, see section 5, and a gateway that a
  told route holds (`GatewaysLocal`) sends the second lookup of
  `queryRoutingTable_` to a route without an interface. The two loops, the search
  for the longest prefix and the cleaner's removal in place, are recursive
  functions over the turns. `LoopExists` shows that such a function exists and
  `LoopInduction` that what a turn keeps holds at the end, both by a smallest
  counterexample, since the library's induction cannot be instantiated here.
  `CleanTurn` is the cleaner's loop invariant: before the iterator nothing is
  stale, and no entry that is not stale was lost or doubled by the move of the
  last one into the gap. `ChecksumsExact` rests on `SumInv`: the wide sum and the
  ones' complement sum leave the same remainder modulo Base - 1, and fewer words
  than Base make the second carry the last. The assumption is met with room to
  spare by 29 words of 16 bits. The proofs corrected the model, in which entries
  held network addresses and the route was told with these only: `findEntry` masks
  what it is given, which says something only for other addresses of the subnet.
* `SendBuffer_proofs` (`SendAssumption`: N + MaxFins + 1 < M and types), for any
  set of closing threads. `TypeCorrect`; `PointersOrdered`: una, nxt, nbw are in
  order around the circle of M numbers and at most N, and one for every FIN sent,
  apart; the lemmas `AckOrdered`,
  `WriteOrdered`, `SendOrdered` and `FinOrdered` say once what each kind of step
  does to three points on a circle. `WriterWakeupNotLost`: free space can only
  appear through an ACK, and that ACK's second part, which notifies, is pending
  until it has run. `NothingInFlightForgotten`, `PayloadsIntact` and
  `WindowIsRespected` share the invariant `Flight`. It unrolls the circle (`Lin`)
  for the time before a byte past the wrap is written, and adds what the three
  properties rest on: una is past the SYN (`UnaFrom`); a worker between the
  halves of `onAck` carries a number already taken (`AcksTaken`), so it drops
  only packets that end at or before una; the ring holds every unacknowledged
  byte in the cell of its number (`RingHolds`), which a write keeps because cells
  less than N apart differ; and nxt is past the offered edge by no more than a probe, the one that
  `zwp_.seq` names, and one number for every FIN sent (`WindowInv`). `NoWayBack` shows that
  nbw, once wrapped, stays behind una: there is no second round to reason about.
  The proof corrected the model: `NoWrap` used to read `nbw >= ISN`, under which
  `PayloadIntact` fails for an initial number below N (TLC confirms it at M = 6,
  ISN = 1); it now reads `nbw >= una`, which is what the code's comparisons need.
* `RecvBuffer_proofs` (`RecvAssumption`). For every peer, also one that oversteps
  the buffer, and across the wrap: `RecvTypeCorrect`, `ReaderWakeupNotLost`.
  Under the hypothesis `Unwrapped` (the peer stays within the free space and no
  number or search key of the stream reaches M, as in `recv_flow`; without
  it `NeverFails` is false, see section 5): `RecvFailsOnlyBeyondFin`; with the further
  hypothesis that no read asks for more than N bytes, `RecvNeverFails`;
  `EarlyArrivalsSound`, `ReadableBytesIntact`, and `ImplementsStream`, that
  `Spec` implements `ByteStream`. The invariant `StreamInv` says that the early
  intervals are separated from one another and from nxt, that they and the bytes
  up to nxt were sent, are in the ring and fit it, and that no end of either cuts
  a segment in two (the code checks only a segment's first number).
* `TcpStack_proofs` (`StackAssumption`). `StackTypeCorrect`, `TablesConsistent`,
  `NoConnectionOrphaned`, `NoAcceptLost`, for any number of workers, peers, ids
  and socket objects. `StackInv` adds what every thread in the middle of an
  operation holds: the object it works on, the session it inserted, the id it
  took, and which part of the listener's closing has been done.
* `Connection_proofs` (`ConnectionAssumption`). `TypeCorrect`, `AcksCounted`,
  `ClosesPromised`, `BytesInOrder`, for any plans of the users, any workers and any
  threads overtaken between their steps. Each step still in `todo` rests on checks
  made earlier, so the invariant says what holds by the time it is taken
  (`Ready`): a thread that is to assign FIN_WAIT_2 or TIME_WAIT has seen a FIN of
  its socket counted, which never becomes false, however many are sent after it.
  It also ties each packet ever sent to its sender's
  socket (`Told`), and each end's pointers, FIN numbers and bytes to the other
  end's (`Pairs`); it is claimed until a late SYN-ACK handler moves the pointers
  back (`reset`), where the properties stop as well.
* `Forwarding_proofs`, of `Rip` (`RipAssumption` and `DistAssumption`: `Dist` is no
  longer than any path). `TypeCorrect`, `NoMetricTooSmall`, `GatewaysOnLink`. The
  statements are not inductive by themselves: a message in flight could undo
  them. The invariant `RipInv` adds `MsgsReal`, that every advertised cost is at
  least its sender's distance and that sender and receiver share a link, and
  `TablesSound`, which ties type, metric and gateway of each entry together.
  Of the datagrams (adds `ForwardingAssumption`): `HeadersSound`, on every
  network: a datagram's checksum is that of its ttl. `NearerOnTrees` (hypothesis
  `Acyclic`) and `LastsOnTrees` (`Acyclic` and `Lasting`). A gateway is always
  nearer on a network without cycles because a route that points away could only
  come from a message that poisoned reverse does not send (`TablesToward`,
  `MsgsOutward`). The hypotheses are needed: on a cycle RIP may route in circles
  while it counts up; where three routers share a link, poisoned reverse, which
  goes by the gateway's address, lets the third hear of a route that leads back;
  and with INIT_TTL = INFINITY = 16 a host's datagram to the far address of a
  router 15 hops away is one ttl short. `LastingInProgram` shows `Lasting` for
  everything else. `MCForwarding` has TLC check both hypotheses of its row.
* `NetworkNode_proofs` (`NodeAssumption`, `PoolAssumption`). `NodeTypeCorrect`,
  `WorkIsConserved`, `AddressStaysAlive`, `QuietExitIsSafe`, for any number of
  interfaces and workers. What `QuietExitIsSafe` allows is the mutex and the queue inside a
  `ThreadPool` or `PeriodicThread` that is being destroyed, and nothing else (with
  them, see `QuietExitIsClean` in section 5). The invariant orders the stages of
  destruction (`Ordered`) and says that nothing is on its way once a quiet exit has begun
  (`Silent`). `WorkIsConserved` counts: no more tasks wait than there are
  threads about to take one or to notify.

Only model-checked: liveness (`OpenResolvedBelowWrap`, `Converges`, `ClosedReaped`,
`Handled`, `Exits`), which needs fairness and ENABLED. Every invariant and action
property that a passing run checks is stated by a theorem, and so is the
refinement of `ByteStream`.

## 7. Plan

Every component with state of its own is modelled, and its safety properties are
proved. What could follow: the stream properties of `RecvBuffer` across the wrap
of sequence numbers, for the code with search keys that do not wrap (as it stands
`NeverFails` is false there).

## 8. Not modelled

The byte layout of datagrams, RIP messages and TCP packets with their length
checks, the checksum over TCP's pseudo header, address and session-tuple value
types, the lnx parser, the parsing and printing of the command lines, and
vendored libraries (`tl::expected`): text and value types without a state that
interleaves with anything. The RTO estimator is a timer that may fire at any
time. Data races on `state_` itself (a `std::variant` written while it is
visited) are modelled as reading the old or the new state. That a simultaneous
open or close comes to an end, and that the queue is empty before a FIN, is not
claimed: the repository's README lists both as known bugs (2 and 3).
