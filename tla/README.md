# Kad in TLA+

A model of the Kademlia node in `src/` and of the transport it carries, udt4: TLA+ modules checked
with TLC and, where it says so, proved with TLAPS. `PROJECT.json` maps every definition to the lines
it stands for and lists runs, mutants, hazards, findings and theorems. Paths of the transport are
below `src/udt4/src/` when they are given by file name only.

## 1. The system

The node (`src/src/`, programs in `src/*.cpp`):

| component | state it keeps | operations |
|---|---|---|
| Node ids, `KadNodeId.h` | an array of bytes | order, XOR, `Closer`, bit and byte arithmetic |
| Contacts, `KadContact.h` | id, address, `mFailQty` | `IsStale` (shared by everybody who holds the pointer) |
| Routing table, `KadRtNode.h` | tree of buckets, each with contacts and a replacement cache | `AddNode` (with `Split`), `RemoveNode`, `FindClosest`, `CountContacts` |
| Request tracking, `KadOpMgr.h` `ReqTracker` | `mOps`, trackers on the heap, one-shot timers | `SendRequest`, `HandleResponse`, `HandleTimeout` |
| Node lookup, `KadOpMgr.h` `KadIterativeFindOp` | `mList`, `mBlock`, `mPendingQty` per lookup | constructor and `Start`, `OnResponce`, `Send`, `Insert`, `Complete` |
| Join and refresh, `KadOpMgr.h` | the back-off of `Join`, the periodic timer | `Join`, `JoinFindComplete`, `RefreshAllBuckets` |
| Message dispatch, `KadOpMgr.h` `RecieveCbk` | statistics | adds and revives the sender, answers PING and FIND_REQ, hands responses over |
| Session, `kad_node.cpp`, `KadRSA.h` | `key.priv`, `key.pub`, `bsp.cfg` on disk | load or make the keys, load or ask for bootstrap nodes, save them after `Leave` |
| Threads of the network, `KadOverIP.h` | sockets, a list of connections, an epoll | `Listener` and `ConnectionMgr`: constructor, `Run`, `Connect`, destructor |
| Message formats, `KadMsg.h` | none | msgpack conversions |

The transport (`src/udt4/`), reliable connections over UDP:

| component | state it keeps | operations |
|---|---|---|
| Sockets, `api.cpp` | sockets and closed sockets by id, multiplexers (one for each UDP port), the collector | `socket`, `bind`, `listen`, `accept`, `connect`, `close`, `newConnection`, `checkBrokenSockets`, `cleanup` |
| Connection, `core.cpp` | numbers sent, acknowledged, received; loss lists, buffers, timers | handshake, `send`, `recv`, `sendmsg`, `recvmsg`, `sendfile`, `recvfile`, `packData`, `processData`, `processCtrl`, `checkTimers`, options |
| Threads of a port, `queue.cpp` | a heap of sockets by time, a list and a hash of sockets, units of memory | `CSndQueue::worker`, `CRcvQueue::worker` and their lists |
| Buffers, loss lists, windows, cache | rings and arrays | `buffer.cpp`, `list.cpp`, `window.cpp`, `cache.h` |
| Congestion control, `ccc.cpp` | window, period | `onACK`, `onLoss`, `onTimeout` |
| Packets, `packet.cpp`, `channel.cpp` | the packet | `pack`, `sendto`, `recvfrom`, `CHandShake` |
| Timer, polling: `common.cpp`, `epoll.cpp` | a time to sleep to, sets of sockets | `sleepto`, `interrupt`, `waitForEvent`, `CEPoll` |

How they interact. Three kinds of threads meet in one `KadOpMgr`: those that call
it (`main` in `Join`, `Find`, `Leave`), the thread of the listener (`RecieveCbk`) and the
threads of two timer contexts (`HandleTimeout` on the global one,
`RefreshAllBuckets` on the manager's own). Nearly everything happens under the
recursive mutex `mLock`, so handlers are atomic towards each other; between them
anything may come in any order. All lookups and the table share the
`KadContact` objects, and with them the failure counters.

In udt4 four kinds of threads meet: the application's, a sending and a receiving one for each UDP
port, and the collector of the process. There are many small locks, and events are signalled by
condition variables and to epolls in steps of their own; the collector deletes a socket a
second after it was closed, when the receiving thread has taken it off its list, and no lock protects a thread
that still has a pointer to it.

What is hard: lookups that run at once over shared counters; answers, timeouts and completions
that race; timers in the air while their tracker is deleted and its address used again; splits
that chain and move caches; a process killed while it writes its files; packets lost, doubled and
reordered while numbers wrap; wake-ups that get lost; sockets deleted while they are used; rings
at their limits. `PROJECT.json` lists these as hazards, each with its line and the properties that
would catch it, or with the reason why none does.

## 2. Modules

| module | models | built on |
|---|---|---|
| `KadLookup` | the lookups of one node: `Find`, `Timeout`, `Respond`, `Return` | – |
| `KadRequest` | abstract: a request ends at most once | – |
| `KadReqTracker` | the tracking, down to heap addresses and timers | implements `KadRequest` |
| `KadNodeId`, `KadNodeIdArith` | ids as bit vectors; the byte-wise methods of ids | – |
| `KadRtNode` | the routing table, exact | `KadNodeId` |
| `KadJoin` | `Join` and refresh over the exact table | `KadRtNode` |
| `KadSession` | the files of a node over runs and kills | – |
| `KadListener`, `KadConnectionMgr` | the threads of `KadOverIP.h` and their end | – |
| `UdtSockets` | sockets, multiplexers, accept, connect, close, collector | – |
| `UdtTransfer` | one direction of a connection over a lossy network | `UdtSeqNo`, `UdtRcvBuffer`; implements `UdtChannel` |
| `UdtChannel` | abstract: whole messages, none twice, ordered ones in order | – |
| `UdtLossList` | the two loss lists in their arrays | `UdtSeqNo`; implements `UdtLossSet` |
| `UdtSndBuffer` | the ring of blocks under three threads | implements `UdtSendQueue` |
| `UdtUnitQueue` | the units that packets are read into | – |
| `UdtWindow` | the rings of `window.cpp` | implements `UdtAckHistory` |
| `UdtSndQueue`, `UdtRcvQueue`, `UdtTimer` | the two threads of a port, and the sleep of one | – |
| `UdtEpoll` | blocking calls, select and epolls beside the worker | – |
| `UdtHandshake` | connect and listen under loss, doubling and retries | – |
| `UdtFile` | `sendfile`, `recvfile` | `UdtRcvBuffer` |
| `UdtCC`, `UdtCache`, `UdtOptions`, `UdtPacket` | congestion control, path cache, options, packets on the wire | – |
| `*Proofs` | theorems about the module of that name; `KadTableProofs` about `KadRtNode` and `KadJoin` in `MCKadTable`, `KadNodeProofs` about `KadSession`, `KadConnectionMgr` and `KadReqTracker`, `UdtCallsProofs` about `UdtEpoll` and `UdtHandshake`, `UdtPartsProofs` about `UdtCC`, `UdtOptions`, `UdtCache`, `UdtWindow`, `UdtFile` and `UdtSndBuffer`, `UdtWorkersProofs` about `UdtSndQueue` and `UdtRcvQueue` | TLAPS |
| `MCKadLookup`, `MCKadTable`, `MCUdtTransfer` | instances for TLC | the above |
| `MCKadParts`, `MCUdtWorkers`, `MCUdtParts` | several modules side by side | the above |

Definitions marked "mutant of X" are plausible bugs of X. For each property some
mutant in place of X makes TLC refute it, so that no property holds by the
shape of the model.

**Side by side.** `MCKadParts`, `MCUdtWorkers` and `MCUdtParts` hold several modules that share nothing. A variable
`part`, chosen at first and never changed, says which one moves; the others stay in their
initial states. Every behaviour is one of one module with its own constants and fairness, so
that a run of the sum is as good as a run of each, and a property speaks of the behaviours of its part.

### The node

*KadLookup.* A lookup is `KadIterativeFindOp`. `mList` is a set: it is always sorted by
`Closer`, so the order is not state (`Lowest`). `Contact` are objects and
`IdOf` their ids, because the code compares pointers in some places
(`mBlock.FindAfter`) and ids in others (`FindById`). `mOps` has `<<lookup,
contact>>` for every request out. What `FindClosest` and `FindAddContact` return is chosen
freely among what the table may return, so that what holds here holds with every table and
network. The price: *which* nodes a lookup finds cannot be said in this module.

*KadReqTracker.* `KadLookup` takes it for granted that a request ends once; this shows
how the code gets there. `mOps` holds addresses, `HandleTimeout` recognises a tracker by
its address and `HandleResponse` by a random message id. A timer may be `firing`,
out of its queue and waiting for `mLock`, while its tracker is answered, deleted and its
address given to another.

*KadRtNode, KadJoin.* The tree is the function from its leaves' paths to buckets. `Grown` is the recursion of
`AddNode` and `Split` in closed form. `RtSpec` uses the table as a class, with `RemoveNode`; `NodeSpec`
as `KadOpMgr` uses it, which never calls `RemoveNode` but counts failures; `KadJoin` adds the steps of
`Join` between which it holds no lock, with the listener and the answers beside it. Nothing fails before the first
lookup, because pings of `Join` have no tracker: `SelfLookupAsksSomeone` rests on that.

*KadNodeIdArith.* Bytes of `BYTE_BITS` bits, intermediates of twice as many with the casts the code
has; each method named there is compared with the number it stands for, `Shl` for shifts within a byte
only. `DistanceTo` and `Mul` are not there.

*KadSession.* `main` of `kad_node` from start to start. A file being written is first cut
(`"torn"`), then whole; `Kill` may come between any two steps. The identity is a pair of halves
because the code reads them from two files and never compares them.

*KadListener, KadConnectionMgr.* One step between any two of: the flag that stops a thread, the call it waits in, and what it
does with the result. Run of `ConnectionMgr` may wait for ever in `accept` or `recvmsg` when udt4 reported
what is not there any more; `MgrEnds` says so.

### The transport

*UdtSockets.* One action for what a thread does under one lock. Time is one flag for each timestamp, and seconds
pass only while no thread is between two steps: that is what the code relies on when it deletes a closed
socket after a second, and all that it relies on. The collector keeps `m_ControlLock` while it joins a worker, which
may want that lock: `Stuck`, which `ClosedIsRemoved` excepts; likewise `Terminated`, the exception out of a function
that throws nothing. `WorkerListen` reads `m_pListener` as `CRcvQueue::worker` does, without `m_LSLock`; until
`newConnection` has located the listener (`WorkerLocate`) nothing keeps it, and `NobodyUsesRemoved` speaks of a worker's
listener from then on only (`InHand`).

*UdtTransfer.* `packData` takes a lost number from the list and looks the packet up under another lock later: two
actions. The receiver's ring is `UdtRcvBuffer`, with holes, notch and reads out of order; the sending buffer and the loss lists are the
sequence and the sets that `UdtSndBuffer` and `UdtLossList` are shown to implement. Sequence numbers start
two before the wrap. The network loses, doubles (a datagram stays when it is delivered) and reorders.
`ImplementsChannel` is the refinement to `UdtChannel`: a message is accepted when `sendmsg` takes it and
delivered when `recvmsg` returns it.

*UdtLossList.* The window of the sender is `m_iSndLastDataAck`, `m_iSndLastAck`, `m_iSndCurrSeqNo` and the flow window apart: a
lite ACK moves the second and not the list, an older full one the first only. What holds is therefore that the list names nothing
whose data is freed, not that it names nothing that is acknowledged. `UdtLossSet` says what `list.h` does; the one step
of the code that is no step of it (`MaxSeqNoStays`) is finding 3.

*UdtLossList, UdtSndBuffer, UdtWindow.* The arrays and pointers as in the code, under drivers that do what the callers
may do. Each implements what it stands for: two sets of numbers, a queue of packets, a history of
acknowledgements. (`INSTANCE ... WITH`, the abstract specification as a property.)

*UdtUnitQueue.* `m_iCount` is changed by two threads without a lock: an update may get lost (`drift`). A search in vain
starts anew and the count is corrected when it grows.

*UdtSndQueue, UdtRcvQueue, UdtTimer.* The heap with its sifting; the receiving thread's list, hash, new entries and
requests; the sleep. `remove_` puts the last node of the heap into the hole and sifts it down but never
up; the heap is therefore no heap in general (`FirstIsDueFirst` is false), but nobody is forgotten.

*UdtEpoll.* Every call step by step between its locks, with timeouts and without blocking, the worker's signals, `close` and
the epolls, which are told of a change after the change. Two changes are told to nobody: a message that may be read out of order and is whole
behind a hole (`addData`; `early` counts those since the last signal), and a connection that a senseless acknowledgement or loss report
breaks (`BreakSilently`; that the collector closes it later stands as a `CloseBegin`).

*UdtHandshake.* Tries are told apart by their initial numbers; the cookie is the minute. The cookie of the last minute, which the
code computes too, never matches: its string is appended to the one before.

*UdtFile.* A byte is its position in the file. Blocks end inside packets; the disk may be full in any call and the caller
goes on from its offset.

*UdtCC, UdtCache, UdtOptions, UdtPacket.* Whole numbers for rates; places of the list and pointers of the hash table apart, so that a
pointer to nothing is seen, and may be taken for one to anything; options as setOpt, open, connect and accept treat them; words and bytes in the order
of two hosts.

## 3. Runs

Twelve runs; each ends within five minutes.

| run | instance | shows |
|---|---|---|
| `kad_lookup` | 2 lookups, 4 objects of 3 ids, ALPHA = BUCKET_SIZE = STALE = 2 | no limbo and no "Wrong pending", one contact per id, one completion, nobody asked twice, contacts leave a list only for closer ones or staleness, silence only when exhausted; every lookup comes to rest |
| `lookup_silent` (violation) | 2 lookups, 3 contacts | a lookup may end without its handler |
| `kad_parts` | table: 6 ids of 4 bits, buckets of 2, caches of 1; join: 3 ids; 4 requests, 3 addresses, ids 0 and 1; 3 keys, 2 peers; 4 bytes of 2 bits; 2 datagrams; 2 sockets | the tree partitions the space, contacts are where `AddNode` looks, once, and those that are not stale are kept; `FindClosest` errs within one bucket only; Join ends and its lookup asks somebody; trackers, timers and `mOps` agree, every request ends, once; identity and bootstrap list survive kills; ids are numbers; messages reach their connections; destructors return |
| `req_early` (violation) | 3 requests, 2 addresses | a fresh request may be timed out by an old timer |
| `join_buckets` (violation) | 4 ids | buckets that no refresh can search in |
| `udt_transfer` | messages of 2, 1, 1 packets, one ordered; 16 numbers, first 14; ring of 4, window 3; 2 faults | numbers and buffer stay in step, nothing is forgotten, the channel is implemented, everything arrives |
| `udt_sockets` | 2 threads, one socket of the application's and one accepted, 2 tries | no call, list, port, or worker with a listener it has located keeps a deleted socket, accept is woken, a closed socket is deleted in the end |
| `udt_workers` | 2 sockets with 2 packets each; one bucket of the hash; 4 units of time | whatever is to be sent is sent, lists and hash agree, timers run, sleeps are cut |
| `udt_parts` | see below | wake-ups, handshake, loss lists, buffers, rings, cache, options, congestion control, files, packets |
| `drop_wrap` (violation) | the loss lists of `udt_parts` | a range that is given up and wraps around leaves the largest number in the list |
| `udt_epoll` (violation) | the calls of `udt_parts` | an epoll forgets a message that can be read |
| `udt_connect` (violation) | the handshake of `udt_parts` | connect returns without error and is not connected |

Bounds, and why they are enough. Two lookups are needed for shared counters; the third and fourth
object are a second object of one id (evicted and made anew) and a contact beyond the size of the
list. `STALE` 2 lets a contact fail, be asked again and go stale; `ALPHA` 2 allows a request in
flight beside the one that is handled. The theorems lift these bounds. The tracker needs three addresses for a handler that
sends while a timer is in the air; ids 0 and 1 make every collision. Four ids of the table share a bucket that may not
split and overflows its cache of one, two split off, and the split chains. Bytes of two bits have the carries, borrows
and overflows of eight. Three keys are a first identity, a second one after a torn file, and a
temporary one.

In `udt_transfer` a message of two packets has a hole, the ordered one must wait, four packets wrap
the numbers and fill the ring; two faults lose a packet and its report, or an acknowledgement and its answer.
In `udt_parts`: two threads call, one may wait while the other closes; a client tries twice while the backlog is one; nine sequence numbers,
a window of three and lists of four and six places wrap in every place of the lists; the ring of blocks grows twice; two
blocks of units; five paths that share indices of the hash, in a list of two with four updates, so that the oldest
is dropped, for one of its own index and for one of another; three places for
acknowledgements, so that the ring is full with two; sizes of options that are refused, the least that is allowed and more than there is room for; a file of five bytes in packets of two and blocks of two and three.
The two threads that call are symmetric, so `udt_parts` looks at them in one order (`SYMMETRY`; no property of it is a
liveness property). In `udt_workers` two sockets give every order of two places in heap and list; four units of time let an entry be
inserted before, at and after the one that is slept for.

`CHECK_DEADLOCK FALSE` is set where the system may stop: all lookups done, all requests
used up, all messages sent, threads ended.

Fairness. `KadLookup` and `KadReqTracker` assume that an armed timer runs out and that
the timer thread gets `mLock`; never that an answer comes. `KadJoin` assumes that `Join`'s thread and the timer
thread run; not that messages come or that a lookup completes. The threads of `KadOverIP.h` run; nobody sends. In udt4:
threads go on, a mutex is given to a thread that keeps asking for it (strong fairness, of steps that others
disable now and then), the workers' timers come round, and time passes. `UdtTransfer` assumes that a datagram sent again and
again is delivered at last: faults are bounded. `UdtSockets` also assumes that threads are not for ever
between two steps, so that a closed socket's second passes.

## 4. Findings

Each is a violation run; `PROJECT.json` has the lines.

1. `lookup_silent`: `OnResponce` that inserts only stale contacts sends nothing and
   completes nothing. With `Join` this means that the periodic refresh never starts.
   `SilentOnlyWhenExhausted` (proved) says that this needs every contact left to be
   blocked or stale.
2. `req_early`: the test of `HandleTimeout` "if the handler still exists" is by address, and
   an address can be used again. The damage is bounded: `TrackersAgree` holds.
3. `drop_wrap`: `remove` of a range from the receiver's list, for a message the sender gives up, ends its first loop one short
   when the range wraps around (`list.cpp:640`), so that number 0x7FFFFFFF stays and holds back every acknowledgement from then on.
   With it, a list is the set it stands for in every other step (`LossListsAreSets`).
4. `join_buckets`: the refresh targets are one per bit, the buckets more.
5. `udt_epoll`: `recvmsg` looks at the buffer and then tells the epolls that nothing can be read; a message that
   arrives between is not reported until the next one.
6. `udt_connect`: a packet that is no handshake makes `connect(response)` return -1, and the caller's loop takes every
   result that is not positive for the end.

Seen while modelling, without a run. In the node: `Start` over a table without live contacts sends nothing and
never completes (possible for `Find`, excluded for `Join`); no contact is ever removed for being
stale, against `KadConfig.h.in:79` (`NodesAreKept` promises nothing of stale ones), and live ones stay in the cache behind dead ones;
`FindClosest` at a bucket replaces the first contact that is farther, not the farthest (`FindAnswers` shows that the
closest one is never lost); the comment of `DistanceTo` (`KadNodeId.h:279`) says n
where the code returns n + 1; `Shl` is right for shifts within a byte only; an empty `bsp.cfg`, left by a kill, is never repaired
while the node finds nobody; a torn `key.pub` stops every later start; messages on accepted connections are read and dropped
(`KadOverIP.h:186`).

In the transport, formulas one would expect, stated in the modules and false:
`UdtTimer.NeverSleepsTooLong` (an interrupt between `getNextProcTime` and `sleepto` is overruled, up to the next
one), `UdtSndQueue.FirstIsDueFirst`, `UdtCache.StoredIsFound` (an update that drops the oldest item writes the chain of that item over its own, `cache.h:180-200`: if the two
have different indices, a pointer to the dropped item stays, and what was just stored has no pointer), `UdtHandshake.WindowFitsBuffer` (a repeated answer carries the flight flag size, `api.cpp:344`),
`UdtOptions.RcvBufFitsFlight` (the two options may be set in the other order). Also: the error packet of a peer whose disk is full sets a
flag and signals nobody (`core.cpp:2242`), so that a `sendfile` that waits does not end; a short file leaves `m_iCount` of the sending buffer
too high (`buffer.cpp:207`); `remove_` interrupts the sleep when one entry is left, not when none is (`queue.cpp:440`); `removeEPoll` clears the events of all epolls
but the one removed (`core.cpp:2670`); `recvmsg` may take a message and then throw (`core.cpp:1395`); with a timeout it waits before
it looks (`core.cpp:1374`). A message that is readable out of order (`core.cpp:2409`, `buffer.cpp:601-641`) and a connection broken by a senseless
acknowledgement or loss report (`core.cpp:1991`, `2156`) are signalled to nobody, against the comment at the signal of an acknowledgement, `core.cpp:1766`, "signal a
waiting "recv" call if there is any data available": a call may wait beside a message, until the next acknowledgement, or on a connection that is broken, until it is closed.
`CRcvQueue::worker` reads `m_pListener` twice and without `m_LSLock` (`queue.cpp:1022`), and `removeSocket` takes the listener from the port and
deletes it in one go (`api.cpp:1290`): close a listener, let the collector find it three seconds later and, after one more, begin to remove it, let the
worker read `m_pListener`, let the collector delete it: `CUDT::listen` runs on a deleted object. In the model the worker then gives up.

## 5. Proofs

For any values of the constants that satisfy the named assumptions.

*KadLookupProofs* (finitely many contacts and lookups, an injective distance per lookup, positive
limits). The inductive invariant `IInv` is `TypeOK` and, per lookup, `LookupInv`: what was asked is
blocked, what is blocked and listed is asked or answered, ids are not
repeated, `mPendingQty` is the number of requests, a completed lookup has none. `TypeOK` alone
does not say that `mPendingQty - 1` stays a natural number, and `CompletesOnce` needs the exact count.
One lemma per action shows that it keeps the invariant of its lookup, and `Untouched` that it leaves
the other lookups alone. The facts about `Lowest` rest on `RankGrows`: the rank by which it cuts grows
along a strict total order; with it the chosen set has the size asked for and nobody
left out precedes anybody chosen. `FailBound` is inductive by itself, given the types: a request
is sent only to a contact below `STALE`, and each lookup has at most one to it in flight.
Proved: `TypeOK`, `PendingMatchesRequests`, `BlockedIsAccounted`, `OneContactPerId`, `CompletesOnce`,
`FailBound`, `NoSecondQuestion`, `OnlyDisplacedOrStale`, `SilentOnlyWhenExhausted`.

*KadTableProofs* (any local id, ids, depths and sizes; for the join, finitely many ids and a first delay not above the last). A tree is
a set of paths such that every distance agrees with exactly one (`Divides`); `Tree` adds that there is one inner node fewer than
leaves. `AddNode` splits down to a depth in one step, so `GrownTree` is about all of it at once: the halves left
behind on the way (`Halves`) have the distances of the bucket they replace, each one of them, and bring as many inner nodes
as they are, less one. `StopIs` says that the way ends above the last bit. The invariant of a bucket (`Good`) has the sizes of its lists, no id
twice in one list, every id under the path, and that a bucket that may be split has no cache: only because of this does `Split` never
meet a cached node, and lose it. Unless nodes are removed, `Behind` adds that a cache stands behind full contacts
and names nobody they name; `RemoveNode` breaks both, since it does not fill the place from the cache, and a node may
then be in both lists. `Comes` relates a bucket to the one its entries were in: nothing new in it but the node added, and
no two others in another order (`KeepsTo`). As an id is under one path only, `OrderIs` follows for any pair of buckets, before and after.
Theorems for the table by itself, in `KadOpMgr` and under Join (`RtCorrect`, `NodeCorrect`, `JoinCorrect`), and for the three together
as they are run (`TableIsSoundAlways`, `NodesAreKept`).

*KadNodeProofs*, on `KadReqTracker` (`None` is no request, message ids are naturals and may collide).
`TypeOK`, `TrackersAgree` and `OutstandingIsTimed` are inductive together: that `CancelTimer` by address
takes only the timer of the answered tracker needs `TrackersAgree`, and that the only timer in
the air leaves the others armed needs that there is one timer thread. The refinement to
`KadRequest` maps `outcome` to itself.

*KadNodeProofs*, on `KadSession` (a key is none of the marks used for files). The invariant adds that `key.pub`
is not begun before `key.priv` is whole; without it the halves of two keys could
meet. `BootstrapIsKept` needs only `WorthSaving`, the test in `main`.

The same module, on `KadConnectionMgr` (the listening socket is none of the connected ones). `MessagesAreHandedOver`
counts: sent is handed plus unread plus the one in the hands of `Run`. It could fail only in `Find`,
when the socket is not in `mConnections`. So the invariant says what `Run` may meet: a socket is
in the epoll, in `readfds` or in `Run`'s hands only when it is in the list, was accepted, or is the listening
one (`ReportedAreKnown`); for this, `Connect` must put it into the list before it adds it to the epoll
(`ConnectInOrder`), and a socket not yet used must be nowhere (`UnusedAreFresh`). Proved for any number of
sockets and messages, and whatever udt4 reports late.

*UdtSocketsProofs* (finitely many threads, 0 is no peer, the application's sockets are some of all).
`WaitersAreWoken` is proved first, in two parts. `Core` says what may be a listener: it is open and not connected
(`Kinds`), who holds the lock of a socket does not hold a listener (`Held`), the queue, the workers and the
collector's list hold only accepted sockets and ones done with (`Queue`, `Work`, `Todo`), and a number not given
yet is of no socket (`Fresh`). Without it a step could close a listener under those who wait for it, or
change its status. The second part counts, for each listener: connections in the queue are at most the threads about
to look into it and the signals to come. One lemma (`AllStillWoken`) serves every step that leaves the balance as
it is or better; `accept`, the enqueueing and the signal, which move it, have one each. The length of the
queue, and with it `m_uiBackLog`, does not matter.

`NobodyUsesRemoved` is the third and the fourth part of the module. Nothing in the code says that a socket is unused when
`removeSocket` deletes it; a second has passed since it was closed, and that is all. So the invariant `Parts` follows every
reference to a socket, as long as the process does not clean up (`gc.stop`). A new socket is in one place from
`newConnection` to `accept`, and the application does not know it before (`Handed`). A closed socket that is a second old is in no call and in no
worker's hands (`Released` in `Callers`): the step of time waits for the calls that do not wait themselves, and a call
that waits keeps its socket open or was woken by its end. A thread that holds the lock of a socket keeps it open, and the flags of a socket
that nobody has locked go with its status (`Locks`, `Statuses`); without them `close` could leave a request to connect
behind, and a worker that answers it would put the socket back into its list. The requests are counted for
sockets that tried once (`Requests`: at most one, in the list of the port; `Listed`: what is done with has none, or is not connecting), since
`close` takes back only the first. The listener of a port uses that port (`Listeners`), ports in use have the number of a
bound socket, so that one bound later gets a port that nobody uses (`BoundPorts`), and `m_iRefCount` is the number of its sockets
(`Counted`), so that the collector takes the port with the last of them and never before. The proof has one lemma
per action and one step per part; `removeSocket` is where all parts are needed. The fourth part (`Carried`) follows what a worker has
in hand: a listener that it has located is open, and stays closed for less than a second while the worker is busy (`Lasts`), as does a socket
it has connected, which was not closed before, since what is closed asks no more (`Listed`). Of the listener between the reading of
`m_pListener` and its being located nothing is proved, as nothing holds.

*UdtCallsProofs*, on `UdtEpoll` (the sizes of the buffers are natural numbers). It and the next are about the calls and the handshake as they
stand in `PartsSpec`, whatever the other parts are. `CallersAreWoken` has a part for those who wait for data
(`DataWoken`) and one for those who wait for room (`RoomWoken`). The worker signals only when the socket blocks, so a
waiter must be in a call of a blocking socket (`OnlyBlocking`); and nothing but a message that told nobody (`early`) is there while it waits,
unless the signal is on its way or the connection was broken in silence (`BrokenSilently`). A call that tests `m_bClosing` before it
waits must not meet a `close` that has given its signals already, so whoever is in `close` has set
the flag (`ClosersClose`), which nobody resets. Proved for any number of threads and epolls, with and without timeouts.

*UdtCallsProofs*, on `UdtHandshake` (the sizes are natural numbers). The packets under way are what the invariant is about: all requests of a client
ask for the same (`Requests`), and who is told to be connected has a peer with the MSS agreed on, however late it is told
(`Answers`); this stays true because `newConnection` on a broken connection makes one with the same values again
(`ServerAt`). A blocking `connect` compares the number of the answer with its own, so the peer is of this try (`ConnectedAt`). For
`BacklogIsKept`, the queue is measured without the socket that is replaced.

*UdtTransferProofs* (all messages together have fewer packets than two numbers may be apart to be compared, 2^30 - 2
in the program; beyond it an acknowledgement that the network holds back for a whole turn of the
numbers would be misread). `Pos` puts the circular numbers on a line, where the operators of `CSeqNo` are plain arithmetic
(`Line`, `Inc`, `Dec`, `RangeIsBetween`). The invariant has a part for each end and for what is under way. The sender's
(`SenderAt`) is `NumbersMatchBuffer` with the number that was picked from the loss list; to be kept it needs that reports are true (`ReportsTrue`): no
acknowledgement overtakes the first number the receiver misses, no loss report names a number not received or passed
over. This holds for old reports as well, since that first number never goes back (`DataIsNoStepBack`), and
because the receiver hears only of numbers that were sent (`DataSent`).

The second half of the module proves what is in the packets. `Pos` counts packets from the first of the connection,
so `IsPacket(First, p, x)` says that `p` is the one at position `x` of the stream. The invariant `RInv` says that each packet in the sending buffer
and under way is the one its number stands for (`BufHolds`, `NetCarries`), and, of the receiver (`RingAt`), that place `k` after
`m_iStartPos` holds the packet of position `StartPos + k` if it has come and is not lost, and nothing otherwise (`PlaceHolds`); that a packet
there is marked as read exactly if its message was returned; and that a message was returned only after all of it had come, and all that have
left the ring were (`WellRead`). The last is why nothing is read twice: a message read out of order stays in the ring, marked,
until everything before it is read. `FirstMsgIs` says what `scanMsg` finds: the first whole message, provided it is
acknowledged or needs no order; `ReadKeeps`, that reading it keeps `RingAt`. `RingOrLoss` follows, and with `AckedIsReceived` the property
`NothingForgotten`; and every step is one of `UdtChannel` or none, `sendmsg` an `Accept`, a `recvmsg` that returns
a message a `Deliver` (`TransferIsChannel`).

*UdtWorkersProofs*, on `UdtSndQueue` and `UdtRcvQueue` (ids are positive numbers, the hash has a bucket at least). Of the sending thread, the invariant
adds to `NobodyIsForgotten` only that the nodes know their places (`PlacesKnown`): `insert_` and `remove_` believe `m_iHeapLoc`, and
what one of them leaves wrong the next would make worse. Each exchange of two entries keeps the places and the sockets (`SwapKeeps`), so
every turn of the two loops does, and with `EveryTurn` and `CourseExists` the loops, however many turns they take; the order of the times is not used, as it is not kept. Of
the receiving thread, `Together` says of each socket that it is in the list and its bucket, or handed over, or neither, as `m_bOnList` tells; it stays true because
only a socket that connects is handed over (one that has `m_bOnList` is connected or closed), because neither the list nor a bucket
has anybody twice, so that `remove` takes all there is, and because of a new socket there is no request, no packet kept and none about to be.

*UdtPartsProofs*, six parts of `PartsSpec`, each with an invariant of its own that the steps of the others leave alone.

The congestion control (fewer packets are sent than two numbers may be apart to be compared). `CCInv` says that the
sequence numbers of the code are those of packets counted from the first (`Num`), on which `seqcmp`, `seqoff` and `seqlen` are plain arithmetic,
and that the window and the period are within their limits. A loss that is reported twice is then one of before the last decrease (`CCLimits`).

The options (the size of a packet has room for a header and something else, the defaults fit each other). `OptionsInv` is `Fit`, of the
options set and of those that `accept` has copied: a division cuts the receiving buffer to what UDP can hold, and `Quotient` says that what is left has room for
the window that is asked for at least.

The cache (any keys, a capacity of two at least, any number of updates). Until the oldest item is dropped for one of another index (`astray`), `Kept` relates the list and the
hash table by the places of the list: each item has one pointer, in the chain of its index, and no pointer leads to nothing; the items are in the order in which they were
stored, and of each address the one in the list is the last stored. An update that finds its address, one that has room, and one that drops an item of its own index
keep this. So `lookup` returns what was stored last, or nothing of an address that was dropped as the oldest. After one drop across indices nothing is left to prove: a pointer
to nothing stays in the old chain, and `StoredIsFound` is false.

The ring of acknowledgements (a place at least; any sequence numbers). Places are counted from the tail (`Slot`, `AgeOf`), where the two loops of `acknowledge`,
one for a ring in one piece and one for a ring around its end, are one search (`CountOf`, `HeldOf`). `History` is then the sequence from the tail to the head (`HistoryIs`),
a `store` appends to it and drops the oldest one of a full ring, an `acknowledge` takes what is up to its number: each step is one of
`UdtAckHistory` or none, with the same answer (`AckWindowCorrect`).

Files (a full packet carries a byte at least, the ring has more than one place, the sizes are natural numbers). `FileInv` says that the packets cut so far follow each other without a gap
(`Follow`) and end where `sendfile` stands; that place `d` after the first of the ring is empty or holds the packet that comes `d` after those read,
that one place stays empty and those acknowledged are held (`RingHolds`); that the offset of `recvfile` is the end of the packets read and the notch; and that what is written is the bytes up to there.
`CutIs` is about the packets of a block, the last one shorter. `ReadIs` is about `readBuffer`, whose count of packets, sum of lengths and
concatenation are recursive functions: it reads the next bytes of the file, one after the other, and leaves a ring of the same kind, whatever length it is asked for; so a block may end inside a packet,
and a full disk between two. `FileCorrect` follows: what is written and what is acknowledged and not read are the first bytes of what was sent.

The sending buffer (a first block at least; any limit on its packets and any length of messages). `SendInv` names the order in which the blocks are linked (`InTurn`, which
says at the same time that they form one ring) and says that the oldest packet is in the first block of that order, `c` of the `l` packets were read, and that `m_iCount`
lacks just those that `addBuffer` has shown and not counted. `Division` and `NewBlock` find the place of each block that `increase` puts behind the last packet: the last
increase comes first, in its own order, then the one before, then the rest of the old ring (`GrownInTurn`), and the packets in use keep their places (`GrownAt`).
`Suffices` shows that the loop of `addBuffer` ends, and that one block stays free. `SndBufferCorrect` then has a case per call: each is one step of `UdtSendQueue`,
but for the counting, which changes nothing that is read.

One convention of the modules serves the proofs. A record of a function that changes in several fields is written
`![u] = [@ EXCEPT !.a = 1, !.b = 2]`, and `![u] = [f[u] EXCEPT !.a = @ + 1, !.b = 2]` where a new value depends on the
old one: version 1.4.5 of the prover loses all updates but the first of `![u].a = 1, ![u].b = 2`, and takes the inner `@` of
nested updates for the outer one, so that it could prove what is false. Its rules for `Len` and `\o` in turn take every function for a sequence, which contradicts one whose domain
starts at 0: such functions are hidden behind a name in the leaves that speak of sequences. Leaves of these proofs were therefore also tried with a goal that
does not follow (`FALSE`, or their own goal and an unknown formula): all of `KadNodeProofs`, `KadLookupProofs` and an earlier state of `UdtCallsProofs`, where only those
went through that are meant to end in a contradiction.

Only model-checked: liveness, which the prover cannot do, and with it `LookupComesToRest`,
`EveryRequestEnds`, `JoinEnds`, `MgrEnds`, `ClosedIsRemoved` and that everything sent arrives; of the modules above
whatever is not named as proved; the loss lists in their arrays with their refinement, the units and the bytes of packets; what `FindClosest`
returns (`FindAnswers`, `SelfLookupAsksSomeone`: it sorts and folds, which takes induction over lists); the arithmetic, where recursive functions compute on every
input, out of their reach.

## 6. Not modelled

Message formats, hashes, text conversions and cryptography (pure conversions around libraries); the simulator and
`signtool` (no state of their own); the statistics of both programs; the deletion of keys that fail `ValidateKeys`. The classes `X*` (lists,
threads, timers, sockets) are in a submodule that is not in the repository: they are modelled from
their use. `mContactCache` and `CheckInCache` are dead code, because `AddNode` always returns a contact.
Reads without `mLock` (`Leave`, `GetContacts`, `GetStats`) and of `mConnections` without a lock are data races on those lists; what they could
return is not known. Lookups are not composed with the exact table: the choice of `FindClosest` in `KadLookup` is free instead.

Of udt4: the rendezvous mode, which the program never turns on; the time to live of messages and the request to drop them, which no
caller uses; system sockets in an epoll; `perfmon` and the trace counters; opening and setting up the UDP socket; MD5; the
options that are stored and read only; the branches for Windows. The applications in `src/udt4/app` are examples.

## 7. What is left

A composition of lookups with the exact table and of several nodes over a network (what a lookup *finds*); the time to live of messages;
a proof of the sequence of `FindClosest`. Within the prover's
reach and not yet proved: that the loss lists are sets (`LossListsAreSets`).
