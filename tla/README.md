# A verification of tour: the tour, the ARP daemon, its cache and its clients

`tour` is a set of three cooperating programs for one Ethernet: the *tour*
application, which sends a packet along a list of hosts and lets every host ping
its predecessor; an *ARP daemon* that resolves IP addresses for it with a
protocol of its own; and `areq`, the library call by which tour asks the daemon.
This directory holds TLA+ specifications of the parts below, TLC models of them
and TLAPS proofs. Every definition is translated from the C source; the
table `map` in `PROJECT.json` gives the lines.

## 1. Inventory

| Component | State | Operations | Talks to |
|---|---|---|---|
| **Cache** (`cache.c`) | doubly linked list of entries (key: interface, hardware address, IP), list head | `addToCache`, `updateCache`, `removeFromCache`, searches by key, socket, address, IP | called by the daemon |
| **ARP daemon, loop** (`arp.c`) | the cache; device list; the sockets (listening, packet, one per client); the cursor `current` and `rset` of the loop | `run_arp` (select, walk over the cache, accept, one frame), `handle_areq`, `handle_req`, `handle_reply` | clients by Unix domain sockets, other hosts' daemons by Ethernet frames |
| **ARP daemon, start and end** (`arp.c`) | the well-known path and the file at it, shared by all daemons of a host | `main`, `create_unix_domain`, `create_pf_socket`, `set_sig_cleanup`, `cleanup` | other daemons by the path; signals |
| **areq** (`api.c`) | one connection per call | connect, send, select for 2 seconds, recv | the daemon; called from ping threads |
| **Tour** (`tour.c`) | raw and UDP sockets, whether it has joined the multicast group, list of ping threads | `start_tour`, `run_tour`, `forward_tour`, `end_tour` | other hosts' tours by raw IP and multicast; starts and cancels ping threads |
| **Ping** (`ping.c`) | the threads, their sockets and sequence numbers | `create_pingt`, `destroy_pingt`, `run_ping_send`, `run_ping_recv`, `in_cksum` | `areq`; hosts by ICMP |
| **Device list** (`get_hw_addrs.c`) | list of the addresses of eth0 | `get_hw_addrs`, `free_hwa_info`, `hwa_searchbyindex` | read by the daemon at its start |
| Device printer (`prhwaddrs.c`), logging (`debug.h`), unit tests (`minunit_cache.c`) | none | output | |

What is hard here:

* **One thread, many parties.** The daemon serves all clients and the network from
  one `select` loop. Clients connect, send, give up and die between any two
  of its steps; what `select` reported is used later in the round.
* **Removal by key.** The walk removes the entry it is at through
  `removeFromCache`, which removes the *first entry with an equal key*, and all
  connections have the same, all-zero key.
* **Descriptors are reused.** A closed number is handed out by the next `accept`
  while other entries hold old numbers.
* **Two ways to learn an address** (a reply, or another host's request) race with the
  clients that ask for it; frames are lost, late and repeated.
* **Failures**: a client's timeout racing the answer, a send that fails on the second
  device, no descriptor left, a frame from an unknown interface, signals.
* **The end of a tour**: one multicast without acknowledgement, 5 seconds of silence
  that every message starts anew, several tours with one group each through the same
  hosts, ping threads that end by themselves or are cancelled.
* **One path for all daemons.** A daemon unlinks, binds, changes the mode and listens in calls of their own, may be
  killed between any two, and finds what others left or still use.
* **Interfaces change while they are read**: the kernel cuts its answer to the buffer without a word, and the data of one item
  come from three calls.
* **A buffer that is used again**: each echo request is made in the packet of the one before; the checksum's carries matter
  for few inputs, and messages of other programs have odd lengths and IP options.

What makes each component correct:

* Cache: the operations do what the sequence view says; no entry is lost, none is
  used after free; removal removes what was asked for.
* Daemon and areq: the walk stays on the list; descriptors belong to one entry;
  nothing blocks the thread; a client hears the true address, at most once; what was
  resolved stays; every round ends, every connection is accepted and every
  dead one closed; every call returns.
* Start and end: whatever was at the path, a daemon that nobody disturbs comes to be reachable, and no file stays behind
  but that of a process that was killed, or left by one of the two exits that skip the end of `main`.
* Tour: hosts are visited in order, each pinged by its successor; when the
  last is reached all members stop. Ping: one thread per target, all
  joined at the end; the checksum is the Internet checksum, and exactly the answers that arrive unchanged, and fit the buffer, are shown. Device list: complete
  when the loop ends, and of one device.

## 2. Modules

| Module | What it is |
|---|---|
| `CacheList` | the cache as a sequence: constants, structures, searches, the effect of `addToCache` and `removeFromCache`. No `Init` or `Next`: the operators `Arp` and `CacheApi` are made of |
| `CacheApi` | abstract specification: what `cache.c` promises to any caller, on `CacheList` |
| `CacheHeap` | `cache.c` itself: head, next and prev pointers, allocated memory. Refines `CacheApi` |
| `Resolver` | abstract specification: what `areq` promises its callers |
| `Arp` | the daemon, its clients (`areq`) and its network, on `CacheList`. Refines `Resolver` |
| `HwAddrs` | `get_hw_addrs.c` in any number of processes, and the kernel's interfaces. No `Init` or `Next` of its own |
| `ArpMain` | `main` of `arp.c` in any number of daemons of one host, on `HwAddrs` |
| `Ping` | the packets of the ping threads: `run_ping_send`, `run_ping_recv`, `in_cksum` |
| `TourAbs` | abstract specification: what a tour promises its users |
| `Tour` | `tour.c` on every host, the ping threads of `ping.c`, the packets and the multicast groups. Refines `TourAbs` |
| `MCCacheHeap`, `MCArp`, `MCArpMain`, `MCPing`, `MCTour` | instances for TLC, and the statements of comments, messages and tests that fail |
| `ArpProofs`, `ArpDataProofs`, `ArpResolverProofs`, `ArpMainProofs`, `CacheHeapProofs`, `PingProofs`, `PingPacketProofs`, `TourProofs` | TLAPS proofs about `Arp`, `ArpMain`, `CacheHeap`, `Ping` and `Tour` |

### The cache

`CacheHeap` has the pointers. Freed memory keeps its contents until it is allocated
again; a write through a pointer to freed memory sets `fault` to `"uaf"`, an entry
linked twice sets it to `"cycle"`, and the behaviour ends there, since C says
nothing about what follows. Its refinement mapping `Api` takes the entries along
`next` as the sequence and *head's prev is not null* as `dangling`. That one bit is all that is
ever observable of the prev pointers (`BackLinks` is why), so `Arp` can use the short sequence view and still has
the fault. `getFromCache` and `getCacheByHWAddr` have no action: they change nothing and only the
unit test calls them.

`isSameCache` compares hardware addresses over the *second* entry's length, so not
at all for an entry without an address.

### The daemon

Each round of `run_arp` is a sequence of steps: `Select`; one step per entry of the walk (`SkipEntry`,
`AreqInvalid`, `AreqCached`, `AreqMiss`, `IncompleteReadable`); `EntriesDone`; `Accept` or `NoAccept`;
and `NoFrame`, `IgnoreFrame`, `NullMac`, `handle_req` or `handle_reply`. Each is the whole
handler: closing the descriptor, moving the cursor and removing the entry are one step
(`DropEntry`), as nothing outside the daemon can observe them separately. `cur` and `rset` are
the locals `current` and `rset`.

A call `c` of `areq` goes through `cst[c]`: `connecting` once it has a socket (`Ask`), `connected`, `waiting` in `select`, `late` when `select` found nothing for 2 seconds or a
call failed and the socket is not closed yet, and `ok` or `failed` behind `close`. The timeout and the close are two steps (`TimeOut`, `Close`), since the daemon may write the answer in between; the call then fails
all the same. A thread that `destroy_pingt` cancels inside `areq` is `cancelled`: its socket stays open until the process ends (`Kill`). A call whose process ended counts as `failed`. `want` is the call's argument, `req` what is in the
daemon's receive buffer, `ans` what the daemon wrote. A connection is in `backlog` or in `fdtab`; `connect` waits while the backlog is full.
Failures of system calls are choices: `AreqMiss` sends on any subset of the devices and
drops the entry if it is not all (the C code stops at the first failure); `handle_req` ignores a failed reply. `send` to a closed connection
raises SIGPIPE, which nobody handles: `Die`. `handle_reply` answers in list order up to the first such client
(`Reached`). `accept` without a free descriptor returns -1 and the code goes on with it. `calloc` may fail at any time: `Accept` then writes
through a null pointer (`AcceptNoMemory`), while `handle_req` checks and exits (`handle_reqNoMemory`).

`Resolver` is the caller's view: a call asks for an address, may be told once, by what is true of that address, and returns with success
only after it was told; what it was told does not change. It may fail although it was told, as the code may. The mapping takes a call's own state and the address of its answer, and
forgets the daemon, the cache and the network.

The network (`PeerRequest`, `PeerReply`, `Junk`) is external: other hosts run the same daemon, so their frames
are those `build_arp` makes of true addresses, but they come at any time, any
number of times or never, and for `OtherIf` on an interface that `get_hw_addrs` skipped.

Abstractions:

* An IP address is a whole `sockaddr`; `areq`'s caller (ping.c:68-70) zeroes port and padding, so addresses are equal when the
  C comparison of 16 bytes says so. A client may pass another family (`NonInet`).
* The hardware type, length and address of the answer are kept in `Hwaddr`, with the byte order that `htons` gives;
  the length of addresses in frames is 6 and 4, which `valid` stands for. `valid_arp` (arp.c:569-576) would let lengths up to 8 and 16 pass, and `recv_frame` (arp.c:387) copies
  what it has read into a structure of 58 bytes; frames with the daemon's own Ethernet type come from daemons that build them with `build_arp`, so others of that type are not generated, but for `Junk`.
* The `exit` of `handle_areq` for an entry that is no connection (arp.c:233-236) has no action: its caller has looked at the state before (arp.c:124), and nothing comes in between.
* `FD_SET(-1)` and `FD_ISSET(-1)` use bit 63 of the set (the build does not fortify them); select clears it as
  long as fewer than 63 descriptors are open, which is assumed.
* A request is written and read whole (20 bytes on a local stream). Logging is left out.
* A process that ends empties the state the kernel holds for it. A new daemon is not started here: it would begin with an empty cache, and how it gets the path is `ArpMain`.

### The daemon's start and end

`ArpMain` has a process `d` per daemon; a restart is another `d`. `pc[d]` is where it is in `main`: reading the devices, at each call of
`create_unix_domain` (`unlink`, `bind`, `chmod`, `listen`), at the packet socket and at `sigaction`, in `run_arp`, on one of the two ways to the final
`unlink` (`failed`, `closing`), or gone. `handle_req` without memory exits from inside `run_arp` (`handle_reqExits`, arp.c:621-624) and skips that `unlink`. `file` is the daemon whose socket the path leads to and `writable` its mode. Every call that touches the path is a step of its own, so
that another daemon, a failure (`Fault`) or a kill may come between any two. `chmod` and `unlink` go by the path and not by the socket, as in the code: they hit whatever is there.

`aborted` (killed, or ended by the exit of `handle_req` or of a failing `sigaction`), `hurt` and `quiet` are histories. `quiet` are the daemons that no other one's start or end overlapped; a daemon that is taken over by a second one is not quiet any more.
The code promises nothing to two daemons at a time: the one that ends removes the file of the other (arp.c:81, 350), and no property here says otherwise.

`HwAddrs` is what each process does in `get_hw_addrs`, a step per system call, on a table of addresses that changes in between. Buffers are counted in items and not in
bytes. `SIOCGIFCONF` copies the part of the table that fits. The loop stops at an answer as long as the last one: since the buffer was made larger in between there was room for more, hence the
answer is whole. An address goes before its device does, as in the kernel. If the device is gone when its hardware address or index is asked for, the code goes on with what is in the union (`NoDev`).
The test for names with a colon (get_hw_addrs.c:60) is never true here, since only the exact name eth0 passes line 47. On errors the code leaks the socket or the list, which is left out.

### Ping packets

`Ping` has bytes with `Base` values instead of 256, so that a word has `Base^2` and the accumulator `Base^4`. A packet is a sequence of bytes: an IP header with its length
in units of 4 bytes, its checksum and options (of the other fields one byte stands for all), and an ICMP message with its real layout of 8 bytes and data. The host stores the low byte of a word first, `htons` and the other
hosts the high one; `in_cksum` works on the host's words and stores its result without `htons`, which is right only because the checksum does not depend on the order.
`packet` and `seq` are the locals of `run_ping_send`, used again by every iteration; `send_frame` has the test of the size and may fail. `Read` is what `recvfrom` leaves of a packet in a buffer of `ETH_FRAME_LEN` bytes: one that is longer is cut, and
the rest of it judged. `Judge` has the tests of `run_ping_recv` in their order. A cut packet may be refused although it was unchanged, and may even pass the test of the checksum by chance, so `ShowsEveryAnswer` and `ShowsOnlyIntact` speak of packets that fit.
The target, other programs that ping and the network are external: they use the checksum's definition (`OnesSum`), packets are lost, delivered twice, or changed in one byte.
Left out: the addresses in the ethernet header of `send_frame`, and the name that is printed.

### The tour

`Tour` has one process per host. `pc` is where its main thread is: in `run_tour`'s loop (`select`, about to read the
UDP socket (`group`) or the raw one (`tour`), the `sleep` of the last host), behind it (`stop`, `cleanup`), in
`end_tour` (`identify`, `ending`), or gone. A tour is named by the host that started it; `route` is a history of where it has been,
`packet` its packet and `at` whether that is in the network or in a raw socket. Handling a packet (`HandleTour`) is one step: joining the
group, the ping thread, forwarding. Nothing another process does falls in between that could be told apart, since
the three touch only this process and its own packet; the `sleep(5)` of the last host is a place of its own.
`pings` is the list that `create_pingt` searches, a sequence of nodes with their target and whether their thread runs, which it does not any more
once `areq` has failed. A host that has joined a group has its port in `port` (`binded` in the code is `port # NoPort`).

The refinement mapping to `TourAbs` takes `trip` and `route` as they are and `pc` as one of touring, left or failed.

What goes wrong is counted in `faults`: a packet or message lost, a system call that fails on any of the error paths, a
thread that ends by itself, a process killed by a signal (`SIGPIPE` from a ping thread's `areq` included, which nothing in tour.c handles).
`pthread_cancel` of a thread that has ended fails on some systems and not on others: `Stop` allows both.

Abstractions:

* Hosts are their addresses; host names and their resolution are left out. `TOUR_MAXIPS` (16,376, which fits the `short` that holds the length) bounds
  the list in the code and nothing depends on it.
* Messages of a group are printed and never looked at, so only their number is kept; they may be delivered in any order.
* Several packets in one raw socket are read in any order.
* Packets with another id, or too short, change nothing and are not generated; IP does not duplicate packets on this Ethernet. Each host runs the program once.
* A port of a tour is chosen from `Port`, and two tours may get the same one, as `bind(2)` on two hosts may.

## 3. Runs

| Run | Instance | Checks | Result |
|---|---|---|---|
| `cache_heap` | 3 entries of memory, 5 contents (blank; equal keys with different types; different address or IP) | `TypeOK`, `BackLinks`, `NoEntryLost`, `HeapInv`, `ImplementsApi`, `UpdateKeepsKey` | holds, 7,777 states |
| `arp` | 2 calls, 2 descriptors, 1 other host on 2 interfaces, 2 entries, 1 frame queued | `TypeOK`, `CursorLinked`, `FdOwnership`, `NoMixedStates`, `NeverBlocks`, `AnsweredClosed`, `ArpInv`, `AnswerCorrect`, `CompleteStable`, `ImplementsResolver` | holds, 1,105,209 states |
| `arp_live` | 2 calls, 1 descriptor, room for 1 connection in the backlog, 2 entries, no frames | `RoundEnds`, `BacklogDrains`, `HangupReaped`, `AreqReturns` under fairness | holds, 66,964 states |
| `arp_start` | 2 daemons, 1 fault, 3 addresses (2 of eth0), 2 devices, 2 changes, a first buffer for 1 item | `TypeOK`, `StaleOnlyAfterAbort`, `UndisturbedServes`, `DevicesTrue`, `MainInv`, `StartServes` under fairness | holds, 462,773 states |
| `ping` | bytes of 3 values, 19 messages of other programs, packets with and without options, shorter and longer than the receive buffer, 1 packet on the way | `TypeOK`, `CksumIsOnesComplement`, `RequestsValid`, `ShowsOnlyIntact`, `ShowsEveryAnswer` | holds, 104,126 states |
| `cache_removed` | as `cache_heap` | `RemovedIsGone` (minunit_cache.c:148-149) | **violated** |
| `arp_removes` | 2 calls | `RemovesTheEntry` (arp.c:222) | **violated** |
| `arp_connected` | 2 calls | `ConnectedAnswered` (arp.c:652-653) | **violated** |
| `arp_twice` | 2 calls, 1 descriptor | `NotAddedTwice` (arp.c:158) | **violated** |
| `tour` | 3 hosts, list `h2 h3 h2 h1` started on `h1`, on `h3` or on both, 2 ports, 1 fault | `TypeOK`, `PingsPredecessors`, `TourInv`, `ImplementsTour` | holds, 687,058 states |
| `tour_live` | list `h2 h3 h2` started on `h3`, 1 port, 3 faults | `TourEnds`, `GroupEnds` under fairness | holds, 27,035 states |
| `tour_pings` | list `h2 h3 h2 h1` started on `h3`, 1 fault | `AlreadyPinging` (ping.c:241) | **violated** |

What the violated ones show, in the code's terms:

1. **Removing the head twice** (`cache.c:65-66`). The new head's prev still points at the freed entry; the next removal of the
   head writes through it and leaves the list head at the entry it frees. The unit test removes only once.
2. **Removing another client's entry** (`arp.c:136`). With two connections, when the older client hangs up the walk frees the newer
   one's entry. The newer client's descriptor stays open for ever and is never watched: it times out.
3. **A client that gave up takes the daemon down** (`arp.c:680`). Its 2 seconds end just before the reply is handled;
   `send` raises SIGPIPE.
4. **An entry is linked twice** (`arp.c:157-168`). Without descriptors, `accept` returns -1, an entry with socket -1 (in the run one that an earlier failed `accept` made) is found and added
   again; the list is a cycle and the next walk never ends.
5. **"A thread is already pinging"** (`ping.c:241`) is printed when the thread has ended: after one failed `areq` its entry stays in
   the list, and no later packet from that host starts another.

Seen on the way and not checked by a run: `handle_reply` never sets `sll_ifhatype` (`arp.c:666` sets `sll_hatype` a second time), which `Arp`
keeps in `ReplyHw`.

What the tour's properties say. `ImplementsTour`: the packet holds the list in reverse and every host cuts its end, and yet hosts are
visited in the order of the command line; *any* message on the group's port ends a host's `run_tour`, and yet none leaves before *some* tour is through. (Not:
before *its* tour is through. With two tours through a host, or two tours that were given the same port, the first to end stops the hosts of the other; that is what the code does and
`TourAbs` says no more.) `PingsPredecessors`: the list has one node per host that precedes on any tour, and none twice. `TourEnds`: without failures a single tour reaches its end and all its members
shut down. `GroupEnds`: with failures, one message is enough to make a host end, and the silence of `end_tour` comes although every host that hears the
end sends a message and starts the 5 seconds of the others anew.

### Bounds

Two clients are what it takes for equal keys, descriptors that are exchanged, and an answer racing another
client's failure; three would repeat pairs. Addresses can be mixed up with this host's own; that more hosts change nothing is what the
theorems say. `Node` is the memory: `calloc` fails at any time, and always when both entries are linked. `Backlog` is the 5 of `listen`; it is 0 here, for which Linux keeps one connection waiting, so that with two
calls the second `connect` finds it full and blocks. `RcvQueue` bounds the packet socket's queue: 1 is enough for every frame against every state. The liveness run has no frames (0), which would
take it beyond what TLC can do with two calls and two entries: every frame is handled in one step that ends its round, and what the daemon waits for are clients and descriptors. After `fault` is set only clients move. `CHECK_DEADLOCK FALSE` is
right because a daemon with nothing to do waits in `select`, and calls are finite.
The list `h2 h3 h2 h1` returns to a host and is not its own reverse: started on `h1` it reaches `h2` from different hosts and ends where it began, started on `h3` it
reaches `h2` twice from the same host and passes through the starting one. Two starters make tours overlap; with two ports their groups are the same or different. One fault at a time is enough to break each step; the liveness run
has three, so that the end message to a host and the messages that might save it can be lost together. A host stops when it is done, hence `CHECK_DEADLOCK FALSE`.
Two daemons are what one disturbs another with: one that was killed and one after it, or two at once. A first buffer for one item and an increment of one make every table of two or three addresses exceed the
buffer, which the 100 items of the code would hide; two changes are enough to shorten and lengthen the table between two answers, or to exchange the device between two calls. A daemon that is done stops, hence `CHECK_DEADLOCK FALSE`.
With frames of 18 bytes some messages of other programs and some answers to them are longer than the receive buffer and most are not. With bytes of 3 values the sums of messages of 8 to 11 bytes pass one and two carries, and `seq` wraps after 9 requests. The two threads keep nothing from one packet to the next but `packet` and `seq`, so one packet on the way is enough.
Symmetry: entries' addresses and ports are interchangeable (nothing compares them but for equality) and so are calls; the runs with liveness use none.

### Fairness

`FairSpec` has weak fairness of the daemon (a process with something to do runs; every step of it that does not wait is
enabled until it is taken) and of each call's own steps in `areq` (`connect` returns once there is room, connected calls send, waiting ones receive or time out, which `select`'s timeout guarantees, and late ones close).
For `ArpMain`, `FairSpec` has weak fairness of each process that was started; interfaces need not settle for ever, only stop to change (`MaxChanges`).
For `Tour`, `FairSpec` has weak fairness of each main thread (its sleeps and selects return), and of the delivery of each packet and of the messages of each group to each host: what the network does not
lose arrives. Losing is never forced, nor are the starts of programs: `TourEnds` begins when all run.
Nothing is assumed of new calls, of cancelled threads and killed clients, of the network or of failures. `HangupReaped` is checked with one descriptor: with two open connections it is false, by the second
violated run above.

## 4. Proofs

Every invariant, action property and refinement that a passing run checks is also a theorem, for all values of the constants; liveness is model-checked only (below).

The theorems about the daemon are for every number of clients, descriptors, hosts, entries and frames, under
`CacheAssumption` and `ArpAssumption`: special values are distinct from real ones, descriptors are
positive (0 is standard input), this host has an address and one eth0 with a positive index.

`ArpProofs`:

* `TypeCorrect`: `TypeOK`.
* `CursorSafe`: `CursorLinked`. `DropEntry` frees the first entry with the key of the current one, so at or
  *before* the cursor, hence never the saved next entry. Needs `ListInv`: no entry is linked twice.
* `DescriptorsSafe`: `FdOwnership`. Needs `EntryInv`: complete entries hold no descriptor, the others an open one of their own or -1.
* `AnswerCloses`: `AnsweredClosed`. Needs `CallInv`: a call has one connection in one place, and none before it connects.

`ArpDataProofs`:

* `Invariant`: `ArpInv`, the conjunction of the above with `DataInv` (frames and complete entries tell the truth; an
  incomplete entry has the address its client wants), `ReadyInv` (what `select` reported), `AnswerCorrect` and `NoMixedStates`.
* `AnswersTrue`: `AnswerCorrect`. `StatesNotMixed`: `NoMixedStates`; the argument needs that a failed
  search for a complete entry means there is none (`MissIsMiss`), although only the first entry with the address is looked at,
  and this is `NoMixedStates` itself: the two carry each other.
* `CompleteStays`: `CompleteStable`. Connections are keyed with interface 0 and complete entries with eth0's index, so
  removal by key can hit another connection (run `arp_removes`) but never a resolved address.

* `DaemonNeverBlocks`: `NeverBlocks`, from `ReadyInv`. `NeverBlocks` speaks of the entry at the cursor only and is not inductive; `ReadyInv` says it of *all* linked connections with a
  reported descriptor. It survives the walk because a client's buffer is emptied only by the step that also drops the entry or makes it incomplete,
  because within a round no descriptor is handed out before the walk is over (`accept` comes after it), and because a client that goes away makes its descriptor readable and not the contrary.

`ArpResolverProofs`:

* `Resolves`: `ImplementsResolver`, from `ArpInv`. A step of the daemon tells only calls that still wait (an entry that waits holds an open connection, `CallInv` and `EntryInv`), each of them
  once (with the answer the connection is closed, `AnsweredClosed`), and the truth (`AnswerCorrect`); a step of a client is one of `Ask`, `Return` or a stutter. A call that is late or cancelled still waits in this sense.

None of these properties is inductive alone. `TypeOK` does not say where the cursor
is; `CursorLinked` needs that lists have no repetition; `AnswerCorrect` needs everything. `NextCases` reduces the steps of `Next` to seven shapes
of change to list, entries and descriptors, and every invariant but those on clients is proved once per shape.

`TourProofs`, for all hosts, lists, starters, ports and numbers of faults, under `TourAssumption` (lists are not empty, a missing port is no port):

* `TypeCorrect`: `TypeOK`.
* `TourInvariant`: `TourInv`. Its parts: `PacketInv`, where a packet is on its list and that it holds the rest of it in reverse; `RouteInv`, that a route is no longer than its
  list; `GroupInv`, that there is no message of any group, and no host that has read one, before some tour is through; `MemberInv`, that who hears a group has joined it and
  was visited. `ImplementsTour` is an invariant's consequence only with all four: that the next host visited is the next of the list is `PacketInv`, that a host which leaves may
  do so is `GroupInv` and `MemberInv`.
* `PingsCorrect`: `PingsPredecessors`, from `PacketInv` (a packet's sender is the host before on the route) and what putting a node in front of a list does (`PrependThread`).
* `Refinement`: `ImplementsTour`. `PhaseGoto` reduces the mapping of a step to where its `pc` goes; every step is then a step of `TourAbs` or a stutter.

`ArpMainProofs`, for all daemons, devices, tables, sizes of the first buffer and increments, under `HwAssumption` and `MainAssumption`:

* `StartInvariant`: `MainInv`, inductive with `TypeOK` (`StartTypes`). `ListInv` says that the buffer is larger than the last answer, and that the list has exactly the
  addresses of eth0 among the items that were passed; `OneDevice` that its items have the data of the device that is there, as long as none has gone. `PathInv` says whose the path is.
* `DeviceLists`: `DevicesTrue`, from `ListInv` and `OneDevice` at the end of the items. It grants the data of one device only while the device is not replaced, which the code does not look for.
* `StaleFiles`: `StaleOnlyAfterAbort`, and `Undisturbed`: `UndisturbedServes`, from `PathInv`: from its `bind` on an undisturbed daemon has the path, because
  nobody else is in a place where it would touch it.

`CacheHeapProofs`, for any amount of memory and any contents, under `HeapAssumption` (memory is finite, the null pointer is no entry, callers fill in fields with their types):

* `HeapInvariant`: `HeapInv`, inductive with `TypeOK` (`HeapTypeCorrect`). Until a fault: a traversal ends; it visits exactly the allocated entries, each once; the prev pointers behind the head lead
  back along it; and a stale prev of the head points to memory that is *not* allocated. Each part is needed. A removal writes through the prev pointer, and only if that leads to the entry before
  is the rest of the list untouched. Were an entry visited twice, cutting it out at one place would not remove it. And only because a stale prev is never live does the
  model's choice between `"none"` and `"uaf"` agree with the one bit `dangling` of `CacheApi`: an address that `calloc` hands out again is put in front, where the old head gets a new prev.
* `PointersImplementApi`: `ImplementsApi`, step by step: `addToCache` of a new entry puts it in front of the sequence (`AddShape`), adding a linked one again makes every traversal endless, which is `CacheApi`'s `AddAgain`;
  the traversal of `removeFromCache` finds what `CacheList` searches for (`FoundFirst`, `FoundNone`), and cutting at the head or behind it (`CutHead`, `CutBehind`) is `Unlink` of
  that position, or the fault. `CacheList`, and with it the model of the daemon, therefore loses nothing of `cache.c`.
* `BackLinksHold`: `BackLinks`; `NothingIsLost`: `NoEntryLost`; `KeysAreKept`: `UpdateKeepsKey`, from the same invariant.

The path of a traversal is defined by choice (`Path`), so the proofs first show that two sequences a traversal visits are the same (`NotShorter`, `OneList`), then transfer lists between the state before and after
a step through `IsList`, which takes head and next pointers as arguments.

`PingProofs` and `PingPacketProofs`, for every `Base`, all messages of other programs and all options, under `PingAssumption`. Of its bounds, the one on messages (`2 * Word` bytes, 131,072 in the code) is what the 32 bit
accumulator of `in_cksum` holds; the 16 bits of `ip_len` let no longer packet exist. The one on options is the width of `ip_hl`.

* `LateCarries`: one word more, with the carries added back late (`Carry`) or at once (`OnesAdd`), gives the same. Both sides are the sum modulo `Word - 1`, and zero for zero only (`CarryFacts`, `OneWord`).
* `ChangedByteShows`: sums that differ by less than `Word - 1` do not both pass the test of `run_ping_recv`.
* `CksumAlwaysOnesComplement`: `CksumIsOnesComplement`. The sum in the host's order is `Base` times that in the network's order modulo `Word - 1` (`HostTotal`, `OnesTotal`), since exchanging the bytes of a word multiplies it by `Base`
  modulo `Word - 1`; an odd byte at the end is a word with one byte zero, the low one for the host and the high one for the network. Hence the complements are each other's exchange (`Swapped`, `CksumOf`).
* `PingInvariant`: `PingInv`, inductive with `TypeOK` (`PingTypeCorrect`); it holds the properties below and is no property of a run. What is on the way was sent with its header in front and a valid message behind (`Formed`) and differs from that in one byte of the message at most (`OneByteOff`): without the
  first nothing is known of a target's answer, without the second nothing of what a valid checksum means.
* `RequestsAlwaysValid`: `RequestsValid`, since `Echo` blanks the field before it sums. `EveryAnswerIsShown`: `ShowsEveryAnswer`, since `in_cksum` of a valid message is 0.
  `NothingCorruptIsShown`: `ShowsOnlyIntact`, since one changed byte changes the sum by less than `Word - 1` (`ChangedByte`).

The induction theorems of the library have an operator parameter, which the installed provers cannot instantiate. Where `PingProofs` and `CacheHeapProofs` need induction over the length of a message or a list, they use a least counterexample
instead: `LeastExists` gets the least element of a set of numbers from the well-foundedness of `<`, `Induct` is induction for the numbers of a *set*, and `RecExists` shows that a recursive function over `0..n`
exists, by induction over the set of the lengths up to which it does. `SumOfIs` and `OnesSumIs` then unfold the sums of `Ping`.

Only model-checked: liveness (`RoundEnds`, `BacklogDrains`, `HangupReaped`, `AreqReturns`, `StartServes`, `TourEnds`, `GroupEnds`), which is out of the prover's reach, and the violated runs.

## 5. Plan

Done in this order: `CacheList`, `CacheHeap` with `CacheApi`, `Arp`, its proofs, `Tour` with `TourAbs` and its proofs, `Resolver` with its refinement, memory that runs out in `Arp`, `HwAddrs` and `ArpMain` with their proofs, `Ping` with its proofs,
`NeverBlocks` and the types of `Tour` as theorems, the invariant of `Ping`, the refinement of `CacheApi` by `CacheHeap`. Next:

1. Safety facts that the liveness arguments rest on, as theorems: that the walk's distance to the end of the list decreases with each of its steps, that a buffer which is grown is compared with a larger one.
2. What the abstract specifications imply for a caller (`CacheApi`, `Resolver`, `TourAbs`), as theorems about those.

Where a theorem has made a run less interesting, the run was replaced: the instances of `Arp` with two other hosts and with frames queued behind each other went when `AnswersTrue` and
`CompleteStays` were proved for all of them.

## 6. Not modelled

* `prhwaddrs.c`: prints the device list and exits. It alone calls `free_hwa_info` outside of error paths; nobody calls `hwa_searchbyindex`.
* Logging, `print_mac` and other printing; the static buffer of `gethostbyaddr` that two threads of tour share (ping.c:185, tour.c:196), on which only printed names depend.
* The build, the deployment script, and the unit test itself, which is used as a statement of what `cache.c` promises.
* Four hazards of `PROJECT.json` have no property because the code does what they describe and no line of the repository says otherwise: the null pointer for a frame from an unknown interface, the data of two devices in one list,
  a host that ends before the slowest member was heard, a host that stays in the group of the first tour. All four are behaviours of the models.
* The takeover of the path by a second daemon has no property of its own: it is in the model, and the code makes no promise about it.
