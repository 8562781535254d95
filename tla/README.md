# Verification of cpp-lockfree-core

TLA+ models, TLC runs and TLAPS proofs for the IOCP game server library under
`src/CppLockFreeCore`: its lock-free containers and the protocol by which
accept, worker and application threads share a session.

## 1. Inventory

| component | state | operations | what is hard | what makes it correct |
|---|---|---|---|---|
| `LockFreeStack.h` | `m_head` (pointer, tag), the nodes' own `next` | `push`, `pop`, `isEmpty` | the head is copied in two loads, nodes are recycled (ABA), a node's `next` is read while others change it | linearizable LIFO, no node lost or handed out twice, lock-free |
| `LockFreeQueue.h` | `m_enqueuePos`, `m_dequeuePos`, per cell `sequence` and `data` | `push`, `pop` | claims of positions race; positions wrap around the cells; a failed CAS | bounded FIFO, one thread per cell, values in order and once |
| `MemoryPool.h` | free list (a `LockFreeStack`), two counters | `alloc`, `free` | a miss races a free; counters apart from the list | one owner per block, none lost, few blocks |
| sessions (`CLockFreeCore.*`) | `Session` slots, free list, session map, completion port | `acceptThread`, `workerThread`, `recvPost`, `sendPost`, `sendPacket`, `removeSession`, `disconnect` | no lock but around the map; check-then-act on four fields; slots are recycled | exact IO count, closed once and not under an IO, in-order sends, packets freed once, every gone peer closed |
| server start/stop | pool, handles, threads | `start`, `stop` | `stop` frees what threads use | threads gone before memory |
| `CRingBuff` | buffer, `front`, `rear` | `enqueue`, `dequeue`, `peek`, direct-access sizes, `moveFrontPos`, `moveRearPos` | wrap-around, a byte kept free, one writer and one reader without a lock | a bounded byte FIFO |
| `CPacket` | buffer, cursor, sizes, header | `<<`, `>>`, `setHeader`, `setCur` | growth, reading past the end | what was written is read back |
| framing (`workerThread` 56-95, BotClient) | receive ring, 2-byte header | the recv loop | headers and bodies split over receives, bad headers | the packets framed are the packets sent, however cut |
| `Map.h` | red-black tree with a sentinel | `insert`, `find`, `erase` | rebalancing | a map; red-black shape |
| `HashTable.h` | chained buckets | `insert`, `find`, `erase` | collisions | a map |
| `CTextParser` | text buffer | key lookup | text scanning | formatting, no concurrency |
| Pathfinding (`AStar`, `JPS`, `Grid`) | grid, open and closed lists | `findPath` | pruning rules of JPS | both find a shortest path, of the same cost |
| Benchmark | test drivers | `testLockFreeStack`, `testLockFreeQueue`, `testMap`, ... | termination of consumers | every value once, the test ends |
| EchoServer, BotClient | sample programs | `onRecv` echoes; load generator | - | - |

**Interaction.** The accept thread pops a slot from the free list (a
`LockFreeStack` of `Session*`), fills it in, enters its id into the session map
under the critical section and posts the first receive. Workers take
completions from the port, frame packets, call `onRecv` (which calls
`sendPacket`), post the next receive, and answer each completion with
`removeSession`: marking the session when the completion carried 0 bytes,
polling otherwise. Whoever finds a marked session with a count of 0 wins a CAS
and tears it down: drain the send ring, close the socket, leave the map, push
the slot back. Application threads call `sendPacket` and `disconnect` at any
time. All of this goes through fields of the slot that no lock protects.

## 2. Plan

Done, the most important behaviour first:

1. `AtomicStack` and `LockFreeStack` (abstract and detailed), checked and proved.
2. `SessionService` and `SessionLifecycle`, the core of the server, checked; its
   types, the count, the single teardown, the places of the slots, the
   refinement, the order and the keeping of what is sent, why a session is closed
   and that a closing one is polled again proved, all but the types for behaviours
   that reuse no slot in use.
3. `WeakQueue` and `LockFreeQueue`, checked and proved; `MemoryPool` over
   `AtomicStack`, checked, its block ownership and its counters proved.
4. `RingBuffer` and `Framing`, the receive side byte by byte, checked; its types,
   the room for every receive, that packets come out as they were sent and why it
   closes proved. `Packet` and `EchoServer` on top; the echo of one field proved.
5. `SendRing`: the send ring load by load, its sender and its workers unlocked,
   checked; that its pointers are kept and sent in order and that only a full ring
   refuses one proved.
6. `RedBlackTree` and `HashTable`, with `MapTest`, `StackTest`, `QueueTest` and
   `Benchmark` as their users, checked; that the tests with threads see every item
   once and that the hash table is a map proved. `PathSearch`, checked; that A* finds
   a shortest path on any grid, and that what JPS returns is a path, proved.

Next:

7. Proofs: the red-black tree as a map; that the pruning of JPS loses no shortest path.
8. The send protocol with store buffers in place of sequentially consistent
   memory.

## 3. Modules

| module | models | extends / instantiates |
|---|---|---|
| `AtomicStack` | what the stack promises: each call takes effect in one step | |
| `LockFreeStack` | `LockFreeStack.h` | implements `AtomicStack` |
| `LockFreeStackProofs` | theorems about it | `LockFreeStack`, TLAPS |
| `WeakQueue` | what the queue promises: FIFO, may give up while an opposite call is half done | |
| `LockFreeQueue` | `LockFreeQueue.h` | implements `WeakQueue` |
| `LockFreeQueueProofs` | theorems about it | `LockFreeQueue`, TLAPS |
| `MemoryPool` | `MemoryPool.h` | `AtomicStack` as its free list |
| `MemoryPoolProofs` | theorems about it | `MemoryPool`, TLAPS |
| `SessionService` | what the server promises about an id | |
| `SessionLifecycle` | `CLockFreeCore.cpp` | implements `SessionService` |
| `SessionProofs` | theorems: types and where each thread's pointers may lead; the count, the sockets, the teardown, the slots, the ids; servers that reuse no slot in use; the refinement | `SessionLifecycle`, TLAPS |
| `SessionSendProofs` | theorems: the order and the keeping of what is sent, why a session is closed, that a closing one is polled | `SessionProofs` |
| `RingBuffer` | `CRingBuff.cpp`, the operators both sides share | |
| `Framing` | `workerThread` 43-95 and `recvPost` on bytes, and the peer | `RingBuffer` |
| `Packet` | `CPacket.cpp` | |
| `EchoServer` | `onRecv` and `sendPacket` on the bytes of a packet | `Framing`, `Packet` |
| `FramingProofs` | theorems about `Framing` and `EchoServer` | `EchoServer`, TLAPS |
| `SendRing` | `enqueue`, `sendPacket`, `sendPost` and the send completions on the ring | `RingBuffer` |
| `SendRingProofs` | theorems about `SendRing` | `SendRing`, TLAPS |
| `AbstractMap` | what a map promises | |
| `RedBlackTree`, `HashTable` | `Map.h`, `HashTable.h` | |
| `MapTest` | `testMap`, `testHashTable` and a caller of either map | both maps, `AbstractMap` |
| `StackTest`, `QueueTest` | `testLockFreeStack`, `testLockFreeQueue` | `AtomicStack`, `WeakQueue` |
| `Benchmark` | `runLockFreeStructureTests` | the three tests |
| `BenchmarkProofs` | theorems about the programs beside the server: the tests with threads, the hash table, the path search | `Benchmark`, `PathSearch`, TLAPS |
| `PathSearch` | `AStar.cpp`, `JPS.cpp`, `Grid.cpp` | |
| `MC...` | symmetry sets and values for the runs | |

### LockFreeStack

`headPtr` and `headTag` are the halves of `m_head`, `next` the field of each
node. A thread copies the halves in either order (`LoadPtr`, `LoadTag`), then
`Link` writes `node->next` or `Follow` reads `oldHead.ptr->next`, then the CAS
succeeds (`PushCas`, `PopCas`) or the loop starts over. `owned` and `content`
record who holds a node and what the stack should contain. A caller pushes only
a node it owns, as `removeSession` and `MemoryPool::free` do. The tag is a
natural number: its wrap after 2^63 operations is not modelled.

### LockFreeQueue

`enqueuePos`, `dequeuePos`, `sequence` and `data` are the fields. Each load, CAS
and store is an action. A failed CAS goes back to the load of the *sequence*
(`PushCasFails`), since the code does not reload `pos` there. `log` records the
values in the order of their positions. `pos & m_mask` is `pos % Capacity`, for
the powers of two the constructor asks for. Positions do not wrap at 2^63. A call may be overtaken for ever; `OnlyOvertaken`
says that nothing else keeps it from returning, when every thread runs.

### MemoryPool

The free list is the abstract stack, step by step: invocation, effect, return.
What the detailed container refines is therefore what its user is checked
against. The pool starts with no block; `new` returns any address not returned
before.

### SessionLifecycle

A slot is a record of the fields of `Session` the protocol uses. Actions are
grouped by function and named after the source lines they stand for:
`RecvPostCheck`, `RecvPostInc`, `RecvPostRecheck` ... are the unlocked accesses
of `recvPost` in order, `RemoveFind` ... `RemovePush` those of `removeSession`.
A thread's `frame` is its locals and where the call in progress returns to.
`io` is what the port holds: `Post` adds to it, `Get...` takes from it. The
peer may close at any time (`PeerClose`); after that receives complete with 0
bytes and socket calls may fail.

Abstractions:
- a recv is a number of whole packets (up to `MaxPerRecv`) and possibly a bad
  header; a packet is its addressee and a serial number; ring operations are
  one step;
- `AcceptInit` is one step: nobody else uses the slot between the pop and the
  insertion into the map, except a thread with a stale pointer, for which the
  one step already exhibits the problem (see findings);
- memory is sequentially consistent;
- `GetQueuedCompletionStatus` returning a null `OVERLAPPED` (34-41) needs the
  port to be closed or a time limit, and the call has none; the branch is not
  modelled. `m_isSessionOn` is written and never read;
- a WSASend of no buffers completes with 0 bytes.

`SessionService` keeps, per id, a stage and the number of operations in flight;
`Refinement` maps the closed sockets, the session map and `io` to it.

### RingBuffer and Framing

A ring is a record of the fields of `CRingBuff`; a method is an operator from a
ring to its answer or to the ring it leaves. `Framing` is one session's receive
side. `RecvDone` is a completion of any number of bytes up to the length posted:
the bytes land where `getUseWriteBuffer` pointed and `moveRearPos` takes them
in. `Deliver`, `Reject` and `recvPost` are the outcomes of one round of the
loop. `wire` is the byte stream between the peer and the server. One receive is
outstanding at a time, so no other thread touches this ring (`SessionLifecycle`
shows the count of one receive). A header is decoded from two bytes, with the
sign of a `short`. The peer closes in order, after its bytes; a reset, and what
other threads do to the session, are `SessionLifecycle`'s.

The bound `Window` is an assumption about the peer: it leaves fewer bytes unread
than the buffer has, as BotClient does, which waits for each echo. Section 6
says what a peer without it reaches.

### Packet and EchoServer

A packet is its size, its cursor and its bytes; a byte nobody wrote is
`Unknown`. `<<` and `>>` are the same in the code for every type but for its
size, so they are one operator each, on any number of bytes. `EchoServer` adds
to `Framing` what `onRecv` makes of each packet: it reads the fields with `>>`,
writes them with `<<` to a packet of 10 bytes, and `sendPacket` sets the header.
`EchoesBack` compares the bytes that leave with the bytes that came, as
`testEcho` and the bot client do. It needs no state of its own: the reply is a
function of the packet. The instance has one field, as the echo server does.

### SendRing

The other modules take a ring operation as a step. Here every load of an index
that another thread may write is a step (`Load`), and `View(t)[k]` is the ring
as the k-th load showed it; an operation is computed from its loads
(`UseSize`, `DirectWriteSize`, `EnqueueSize`, `DirectReadSize`, `PeekedSize`),
which follow the branches of `CRingBuff.cpp`. `Loaded` says how many loads the
branch taken makes. The sender runs `sendPacket` and, if it finds no send
pending, `sendPost`; workers complete sends and post the rest. A pointer is
`PointerSize` bytes, each its own value, so that a torn or doubled pointer is
seen. The free size is compared as a `size_t` (`LessAsSize`).

- One sender, as an echo server gives a session, whose packets are handled one
  receive at a time. The writes of `m_rear` assume it (hazard at
  `CLockFreeCore.cpp:462`).
- The session stays open; how it closes is `SessionLifecycle`'s. A send of no
  buffers completes with 0 bytes and ends the behaviour (`over = "closed"`); a
  copy of a negative number of bytes too (`"crashed"`).
- `enqueue`'s split over the end of the buffer is modelled and not taken: 30000
  is a multiple of 8, and positions stay multiples of a pointer.
- `isFull`'s two comparisons share a load, which makes no difference while
  pointers are whole. The size check at 104-107 only reports and is left out.
- Each field is read anew, as the source says and a debug build does. A build
  that keeps `m_rear` in a register has fewer behaviours.

### RedBlackTree, HashTable and MapTest

A node of the tree is named by its key; `Nil` is the sentinel, whose `parent` is
written and read by `erase` as in the code. The halves of the fixups that mirror
each other are one definition with a side. `insert` and `erase` link or unlink
the node in a step; then each turn of a fixup loop is a step. Other threads do
not see the tree in between, since callers lock, but `TreeSound` says at each
turn what the loop has to keep. A table is its chains; the hash is any function
of the key. `MapTest` runs both under the same programs, the two tests and a
caller that inserts and erases in any order, and keeps beside them the map its
user has in mind, by `AbstractMap`.

### StackTest, QueueTest and Benchmark

The tests' producers, consumers and main thread over the abstract stack and
queue. The four tests run one after the other and share nothing, so a behaviour
of `Benchmark` is one test's; that is one run instead of four. `seen` and
`poppedCount`, which are read only after the joins, are counted in one step.

### PathSearch

The grid is chosen in the initial state: any walls, the corners free, as
`runComparison` makes it, which also frees the corners the search starts and ends
at: the early return for a wall there is left out, no caller reaches it. A behaviour
first works out the true distances from the start (`Survey`, a history variable, by
relaxing every cell until nothing changes), then one search runs, a turn of its loop
a step. The costs of a step are two whole numbers, constants of the module, and sums
of them exact; where floats of equal paths could differ in their last bit, the model
lets either come first. `paths` takes thousandths, 1000 and 1414, which on its grids
order the paths as 1 and the square root of 2 do. `Path` is what the search returns:
the links, followed back from the goal (`wayTo`), with the cells of each jump filled
in (`Between`). `Spec` and its parts are named `Search...` here, since one proof
module extends this module together with `Benchmark`. `jump` is one operator: the
shortest run in a direction that ends at the goal, at a forced neighbour or, on a
diagonal, where a straight run does.

## 4. Runs

| run | instance | shows |
|---|---|---|
| `stack` | 2 threads, 3 nodes, tag to 5 | the chain is the stack, nodes are partitioned, the tag identifies the head, refinement of `AtomicStack`, lock-freedom |
| `queue` | 2 threads, 2 cells, 5 pushes of 2 values | one thread per cell, values in order, refinement of `WeakQueue`, a call that never returns is overtaken by calls of its kind for ever |
| `benchmark` | 2 producers of 2 nodes or values, 2 consumers, 2 places; 12 keys, a caller of 8, 2 of 3 buckets used | the benchmark's tests end and see every value once; both maps are maps under any sequence of calls; the tree is red-black at every turn of its loops |
| `pool` | 3 threads, 2 blocks in use, 5 addresses | block ownership, counters, bound on the blocks made |
| `session_workers` | 2 workers, 1 connection, 3 packets, ring of 2, 1 buffer a send | the closing protocol among workers: safety; a session whose peer is gone is closed and its slot given back, an accepted packet is sent unless its session closes |
| `session_recycle` | 1 worker, 2 slots, 3 connections | slots are reused and no thread still points to one that is (`ReusedUnheld`); none is lost; only a gone peer or a bad header closes; refinement of `SessionService` |
| `session_app` | 2 workers, 1 application thread, 1 connection | refinement of `SessionService` with calls from outside |
| `framing` | ring of 7, payloads of 0 to 3 bytes, 4 packets, 3 bad headers | every cutting of the stream, at every position of the ring: packets come out as sent, all of them, and go back byte for byte; a receive has room; only a bad header or the peer closes |
| `send_ring` | sender and 2 workers, ring of 2 pointers at any position, 3 packets, 2 buffers a send | every interleaving of the loads: sent once and in order, freed after, refused only when full, nothing left behind |
| `paths` | every grid of 5 by 3, both searches | a path whenever there is one, none shorter, closed cells are settled |

`find_old_id` and `find_torn_size` each exhibit a behaviour that a comment of
the source rules out (section 6).

**Bounds.** ABA needs one thread stalled in a call and another that pops two
nodes and pushes one back: two threads and three nodes do it, and five
operations on the head are more than the scenario needs. In the queue two cells
and five pushes make every cell serve three laps, so a stale claim meets the
same cell again; each thread can be a producer or a consumer at every call. In
the pool the bound on blocks is reached, with one address to spare. For a
session, two workers are what the two completions that can be pending (one
receive, one send) need; a ring of two packets and sends of one buffer make the
ring full and a send partial; three connections on two slots make a slot serve
twice while the other is in use. The
ring of 7 is larger than the largest packet, 5 bytes, as 30000 is larger than
4002, and prime to the packets' sizes, so that header and body are cut and
wrapped at every byte; 4 packets of 2 to 5 bytes go around the ring up
to twice and more. Bytes of two bits make a `short` of four, from -8 to 7: negative and too
large sizes are both there. In `send_ring` two pointers make the ring wrap
every other packet and full at the second; three packets, started at every
position, put each of the loads of `getUseSize` on both sides of the wrap.
Eight keys are enough for a tree of black height two and three, in which every
case of both fixups occurs, on both sides, the sibling's red child inside and
outside too (each is an action or a branch the run reaches); the tests
themselves run up to twelve keys in the test's own order. Two buckets hold chains of up to
six, so an erase finds its node in the middle. On a grid of 5 by 3 a diagonal, a
detour around either end of a wall and a corner cut fit; all 2^13 settings of
the walls are checked. `MaxSessions`, `MaxPackets`, `MaxCalls`,
`MaxTag` and `MaxPos` only stop the environment from starting more; none of them
decides a liveness property. In the queue a thread may lose its CAS for ever to
others that push and pop between its load and its CAS, a behaviour `MaxPos` cuts
off and `OnlyOvertaken` allows. What it forbids is a call that stays in its loop
while the position of its kind stands; a position that stands below `MaxPos` has
no bound on the calls that fail, nor on those of the other kind until the queue is
full or empty.

**Fairness.** `LockFreeStack!FairSpec` assumes that *some* thread inside a call
runs: the property is lock-freedom, which must hold when the scheduler neglects
any particular thread. `LockFreeQueue!FairSpec`, `Benchmark!FairSpec`,
`SendRing!FairSpec` and `SessionLifecycle!FairSpec` assume that each running thread goes on, as an
operating system guarantees; the code has no priorities. `SessionLifecycle`
also assumes strong fairness of a completion being dequeued: the completion
port is a FIFO, so a completion is not passed over for ever though the workers
are sometimes all busy. A receive completes only if its peer closes: nothing is
assumed about peers or the application. `Framing!FairSpec` assumes that the
worker goes on and that what is on the wire arrives: TCP delivers.
`AllReceived`, `AllSent` and `Terminates` are the promises that rest on it; the
searches and the maps are sequential and have no liveness run: a turn of a search
closes a cell or drops an entry, and `paths` has no state without a successor.

## 5. Proofs

`LockFreeStackProofs`, for any sets of threads and nodes and any `MaxTag`:
`TypeCorrect`, `ChainIsStack`, `NodesArePartitioned`, `TagGrows`, and
`Linearizable`, that `LockFreeStack` implements `AtomicStack`. The assumptions
are those of the module: null is no node, the bound is a number.

The invariants are not inductive: that the chain in memory is the stack after a
CAS depends on what the thread read before it. `IndInv` adds `CopyOK`, what each
thread's copy still says: the tag it copied is at most the head's; a push about
to CAS has linked its private node to the pointer it copied; a pop about to CAS
knows the node below the head *if the head is still what it copied*. A CAS moves
the tag, so every other thread's condition becomes false (`StaleCopies`): this
is where the tag is used. There is one lemma per action; steps that touch
neither the chain nor ownership share `QuietStep`. The refinement maps a pop to
its effect at the load that found null, or at its CAS.

`LockFreeQueueProofs`, for any threads, any values and any capacity above one:
`Inductive`, `ClaimsExclude`, `FIFO`, and `Linearizable`, that `LockFreeQueue`
implements `WeakQueue`. A capacity of one is excluded because the sequence of a
published cell, `p + 1`, is then also the one that lets the next push in
(section 6).

What a sequence means depends on where the positions are, so `IndInv` says it
for the one lap of positions from `dequeuePos` on, which names each cell once
(`SequenceOK`): pushed and published, being written, free, or still being read
by a pop of the lap before. `ThreadOK` adds what a thread about to CAS knows if
the position has not moved. The cell of a position is used only through
`CellInj` (positions less than a lap apart have different cells), `CellLap` (a
lap later it is the same cell) and `NextLap` (an old position has the cell of
one in the current lap). `NextLap` shows that a position read long ago never
finds a sequence below it, hence that `push` and `pop` give up only for the
reasons `WeakQueue` allows. The refinement maps a call to its effect at the CAS.

`MemoryPoolProofs`, for any finite set of threads, any blocks and any bound on
the blocks in use: `BlockHasOneHolder`, `CountersAreExact` and `FewBlocksMade`.
`OneHolder` alone is not inductive: a push appends the block its call was invoked
with, and a pop takes one occurrence of the top. `PoolInv` adds that the list
repeats no block (`StackedOnce`) and that a pushing call has its own thread's
block as argument (`CallMatches`). `TakeTop` and `AddTop` say what the two do to
the set of free blocks; steps that move no block share `QuietStep`. The free list
in it is `AtomicStack`, which `LockFreeStackProofs` proves `LockFreeStack` to
implement. For the counters, `Counts` says how each differs from what it counts
while calls are between their steps, and bounds the calls that found the list
empty (`Missed`): a block that is free keeps such a call from having been the
last, so at most one block per thread but one is made beyond those in use.
`MoveOne` is the counting lemma: a step of one thread changes the number of
threads at a set of labels by that thread.

`FramingProofs`, for any ring larger than the largest packet, any payloads, bad
headers and cutting: `Types` and `HasRoom`. A ring that is full holds `Size - 1`
bytes (`UseSize`), which is at least a header and the largest body, so the loop
would have gone on (`RoomStep`); a ring that is not full offers room without
going around its end (`DirectWrite`). The window is not used: the room is there
whatever the peer does.

Its `PacketsReassembled` and `ClosedOnlyForCause` are what `framing` checks of the
content, for a peer that leaves fewer bytes unread than the buffer has
(`Window < Size`; section 6 says what happens with `Window = Size`). `Reassembles`
alone says how many bytes there are, not which. The invariant is `Whole`:

- `RestComes`: the bytes in use in the ring, followed by those on the wire, are
  the bytes of the packets sent and not yet given to `onRecv`, and behind them
  nothing, or a header no packet has and whatever follows it (`Following`);
- `FirstOnes`: what `onRecv` got are the first packets sent;
- `Posted`: a receive is posted for what `getDirectWriteSize` said, with less than
  a packet left in the ring. Nothing moves the ring while the kernel writes to it;
- `Fits`, the window, and with it that a completion never takes the byte that tells a
  full ring from an empty one.

The ring is used through what its methods do to the bytes in use: `WriteSome` (the
bytes a receive puts where `getUseWriteBuffer` pointed are appended, on either side of
the wrap), `ReadSome` (`dequeue` takes the first ones away), `FrontIs` (`peek` reads
them). `HeaderIs` is the round trip of a size through two bytes and a signed `short`.
The bytes of a sequence of packets are `FlattenSeq`, a recursive function; `FlatType`,
`FlatAppend` and `FlatHead` are proved by induction on the length, as the least length
that fails (`Least`, from the library's `WFMin`), because the library's induction
theorems themselves cannot be applied.

`Echoed` is `EchoesBack` for an `onRecv` that reads and writes one field that fits
the reply's buffer, as the echo server's one double does: the cursor, both sizes and
the header agree on what is and is not counted. With a second field it is false
(section 6).

### The send ring

`SendRingProofs`, for any ring of whole pointers, any number of workers and of
packets, with every load of an index a step of its own: `AllSentInOrder`, that
`SentInOrder` holds, and `NoneRefused`, that `RefusedOnlyWhenFull` does.
`SentInOrder` alone says nothing of what the threads have read. `RingInv` does:

- `SeenBySender`: what the sender's loads show in use falls from one to the next
  and is never below what is in use now, because only it moves `m_rear`. From the
  test of the free size on, its loads leave room for two pointers: the one it
  writes, and one by which `m_rear` keeps behind `m_front`;
- `SeenByHolder`: what the loads of a thread between the exchange of
  `m_isSendPending` and its store show in use rises, and is never above what is in
  use now nor below what it has to read. `Exclusive` is that there is one such
  thread, and none while a send is in flight;
- `RoomKept`, `Counted`: the packet written but not stored in `m_rear` lies in
  the free part; the packets counted, posted and to be freed are in the ring;
- `Kept`: what was freed followed by what is in the ring is what was accepted, and
  what was sent is the beginning of it, as far as packets are still to be freed.

Sizes computed from several loads are then bounded, not exact. For the holder
`HolderUse` says that `getUseSize` is never above what is in use, and is right
where the second part of a read needs it; it may be below zero, which
`find_torn_size` shows. For the sender `SenderUse` says that it is right, or not below the
size of the buffer, and then `m_front` has just gone around the end and there is
room: the subtraction from `Size - 1` is below zero, and compared as a `size_t` it
does not refuse the packet (`RoomIs`). Both rest on positions being multiples of
the size of a pointer (`WholeSteps`): in a ring of whole pointers `isFull` never
holds. `DirectRoom` and `ReadIs` then say that a pointer is written and read whole,
and `WriteBytes` that it is written beside what is in use.

### The benchmark's tests and the hash table

`BenchmarkProofs`, for any numbers of producers, consumers, items, keys and buckets
and any hash. `NothingLostNorTwice` is that `EverySeenOnce` holds. A consumer ends on
two looks between which others push and pop, so the invariant follows the items and
not the looks: an item that was pushed is in the container, with one consumer, or
seen, and never in two of these (`QueuePlaces`, `StackPlaces`); `QueueEnds` and
`StackEnds` are what the two looks are for: the last one comes after every producer
was joined, and what is empty then stays so. The containers are the abstract ones,
which `LockFreeStackProofs` and `LockFreeQueueProofs` show the real ones to implement.

`HashTableAgrees` is that `Agrees` holds of the hash table, after any calls and
in the test. `TableIs` says what the chains have to be for it: each key has at most one
node, in the bucket of its hash, and the nodes are the pairs of the map its user has in
mind; the count is that map's size. `ChainReplace`, `ChainPush` and `ChainRemove` are
the three ways a chain changes. `UserInv` follows the test through its four loops:
which keys are in, and that the count after erasing every other key is the one
the test expects.

### The path search

Also in `BenchmarkProofs`, for any grid, any walls, any costs of a step of which the
diagonal one is between one and two straight ones, and any order of ties.
`AStarSettles` is that `ClosedIsSettled` holds of A*, and `AStarFindsShortest` that
`FindsShortest` does. Neither is inductive: that a cell is right to be closed depends
on what else waits. `StarInv` has three parts:

- `SurveyInv`, of the distances: each cell that has one has a cell before it from
  which it is no further; after the survey no step leads to less than a distance;
- `CostInv`: a cost is that of a way, so no less than the distance; a closed cell
  has its distance, and its cells around cost no more than through it;
- `OpenInv`: a cell with a cost that is not closed waits in the queue with that cost
  and its estimate; what waits besides is older and worse.

`Frontier` is the argument: a cell that can be reached is closed, or a cell waits with
its true distance whose estimate is no worse. Of the cells that are neither, the
nearest one would have a cell before it that is one of the two. It needs
`Consistent`: a step changes the estimate by at most its cost, so the octile distance
never promises too much. `BestIsSettled` follows (the best that waits has its true
distance), and `DryMeansNone` (an empty queue means that the goal cannot be reached).

For the path, `LinkInv` says of both searches that a link leads back to a cell of lower
cost over a run of steps the grid allows (`RunsTo`), one step for A* and a jump for
JPS, and that the costs differ by the run's. Links therefore end: a cell has as many
of them at most as there are cells of lower cost (`Lower`), and over that many
`wayTo` is a way of the grid from the start (`WaysLegal`). `PathsAreLegal` is what follows
for both: what is returned is a path from the start to the goal over steps the grid
allows, of the cost the search has for it. That the ways exist, which are a recursive
function of the number of links, is `WaysAre`, by induction as for `FlattenSeq`.

### The sessions

`SessionProofs`, for any numbers of workers, application threads, slots,
connections and packets, in every behaviour: `TypeCorrect`. What it takes is where
a thread may have which pointer: `CtlOf` and `PtrOf` tie the label of a thread to
the locals that are meaningful there, so that a null `Session*` is never followed.

Its `CountIsExact`, `SocketsAreQuiet`, `TornDownOnce`,
`SlotsInOnePlace` and `IdsAreExact` come from one invariant, `SessionInv`. None of the
properties is inductive: `m_ioCount` is decremented by a thread that read no more
than a completion, and a slot is torn down by a thread that read a mark and a
count of 0 some steps before. `SessionInv` adds

- `Tokens`: who may post. The right to post the receive, and the right to post a
  send, are with one thread or with the operation in flight; the second is what
  `m_isSendPending` stands for;
- `Records`: an operation in flight is of the session its slot now has, and there
  is one of a kind;
- `Teardown`: a session that is marked, has nothing in flight and nobody at work
  on its socket stays so (`Dead`); past the count of 0 the session is `Dead`, and
  the CAS lets one thread through;
- `IdsOnce` and `Places`: an id names one slot, a slot is in one place, and the
  slot the accept thread fills in has nobody else;
- `IoAccounting` itself: the count is the operations in flight and the calls
  that will lower it.

There is a lemma per action; a step that changes one slot's fields and one
thread's locals is `Quiet` and shares the proof that nothing else is disturbed.

**The condition.** These theorems are of `Spec /\ ReusedUnheld`, and the condition
is not decoration: `find_old_id` shows a server of two workers, with a slot reused
under one of them, that breaks `OldIdTouchesNoOther`, and section 6 what follows
for the count and the sockets. `ReusedUnheld` is what the comment on session ids
(`CLockFreeCore.cpp:176-177`) wants of the program: a slot gets its next session
only when no other thread still has a pointer to it. The theorems say that this is *all* that
can go wrong: whatever the threads, the interleaving and the peers, as long as no
slot is reused under a thread, the count is exact and the teardown single.
The condition holds of itself

- with one worker and no application thread (`OneWorkerReuse`), any slots and
  connections, from the invariant `Alone`: what a thread points to is not free,
  and the worker and the accept thread point to different slots;
- with any threads up to the second connection (`FirstSessionReuse`).

`ClosingIsSafe` is the safety of those two kinds of server with no condition on
the behaviour: the instance of `session_recycle` is of the first kind, those of
`session_workers` and `session_app` of the second.

Its `ImplementsService`: that `SessionLifecycle` implements
`SessionService` under the same condition; `ServesSafely`: that the two kinds
of server do with none. `Opened` is what the refinement needs besides
`SessionInv`: an id that was given out is in the map, or about to be, or its
socket is closed; who is past `closesocket` has a closed id. `RoomLeft` counts the
slots: the accept thread has one, so fewer sessions than slots are open, which is
the room `SessionService` asks for. Each action is a step of the service or a
stutter: insertion opens, the first mark dooms, `closesocket` closes, posting and
completing count, the rest is not seen.

`SessionSendProofs`: `OrderIsKept`, that `SendOrder` holds under the same condition,
and `SendsInOrder`, of the two kinds of server with none. `SendOrder` alone says
nothing of the ring. `OrderInv` says what was accepted for an open session is what
its peer has followed by what waits in the ring, without the packets of a send that
has completed but not been dequeued; and that those packets, like the buffers of a
send in flight and the pointers `sendPost` has gathered, are the first
`m_sendPacketCount` pointers of the ring. That nobody else moves the ring or the
counter meanwhile is the right to post a send of `Tokens`. A session that is torn
down keeps what it has: no send of it is in flight.

Its `PacketsAreKept`: that `PacketsAccounted` holds under the same condition when
no application thread calls the library, and `NoPacketIsLost`, of the two kinds of
server with no condition on the behaviour. `PacketInv` says where each packet is:

- what was accepted for a session in use is in its ring, once, or deleted, and
  nothing in a ring is deleted. A packet names the id it was made for, so that
  rings of different sessions have none in common;
- the ring of a closed id is empty, and the session in a free slot is closed: the
  slot goes back with nothing in it. What was accepted for an id that has lost its
  slot is all deleted;
- the packet a thread is about to give `sendPacket` is new: nobody else gives it,
  no ring has it;
- a worker sends to the session whose completion it is handling. That completion
  is still counted, so nobody can tear the session down between the lookup and
  the enqueue, nor while `sendPost` gathers what it peeked.

The last is what `Apps = {}` is for: an application thread holds no completion,
and section 6 shows the packets it loses. The order does not need it.

Its `MarkedForCause`: that `ClosedForCause` holds under the same condition as long
as no send without buffers is posted (`FullSends`), application threads included.
`CauseInv` follows the decision to mark from where it is made to where the
mark is set: the thread that carries it has the session, or the id, of a connection
with a cause on record. The hypothesis is not idle: section 6 shows a late `sendPost`
that posts such a send, and the theorem says that this is the *only* way a session
is closed in health. `OneWorkerClosesForCause` discharges it for one worker and no
application thread: from the enqueue, or the look at the ring, to the call the
ring is not empty (`FillInv`), because nobody else sends.

Its `NobodyForgetsToClose`: that `ClosingIsPolled` holds under the same condition
when no application thread calls the library, and `EveryClosingIsPolled`, of the two
kinds of server with no condition on the behaviour. The property is nearly inductive;
what `PollInv` adds is that whoever posts on a session has a completion of it
(`Own`), so that a count it raises for a moment is followed by its own look at
the session, and that nobody knows of the session the accept thread is opening
(`Untold`), whose first post nobody would follow. An application thread's undo has
nobody to follow it: that is why they are excluded (section 6).

### Assumptions

They are the modules' own, and TLC evaluates them: null is no node and no slot, bounds
are numbers, the accept thread is no worker, a ring is larger than the largest packet,
the send ring holds whole pointers (30000 is a multiple of 8), a packet's size and a
bad header fit into a `short` (4000 is less than 32768), a queue's capacity is above
one, sets of threads are finite (and the pool's is not empty), the keys are the first
numbers, the tests have a consumer, a grid has a cell and a diagonal step costs
between one and two straight ones (1.414 and 1). Conditions that belong to one theorem
are in its statement: `ReusedUnheld`, `FullSends`, `OneWorker`, `Apps = {}`, `Window < Size`,
one field.

### Only model-checked

- All liveness: reasoning under fairness is outside the prover.
- `SendRing` beyond its two safety properties: that what was accepted is sent in
  the end (`AllSent`). `NoMismatch` is false (section 6).
- The red-black tree (`Agrees` of it, and `TreeSound`): what `find` computes is a
  path, by recursion over a structure that every turn of a fixup changes.
- That the path of JPS is a shortest one, found whenever there is one, and its closed
  cells settled: the reason is about all paths of a grid at once, which of them survive
  the pruning, and not about the steps of the search.
- What the theorems exclude: two fields, application threads with `PacketsAccounted`
  and `ClosingIsPolled`, a slot reused under a thread. There the properties are
  false, and TLC shows it (section 6).

## 6. Where the code and its comments disagree

| run | comment | behaviour |
|---|---|---|
| `find_old_id` | `CLockFreeCore.cpp:176-177` | a `removeSession` that found the old session tears down the one in the recycled slot |
| `find_torn_size` | `CLockFreeCore.cpp:352-353` | `getUseSize` compares the indices and reads `m_rear` again for the difference; the sender wraps it in between, the size is below zero, the mismatch is reported, and `peek` copies a negative number of bytes |

Seen while modelling, each by TLC on a variant of an instance, without a run of
its own:

- `CLockFreeCore.cpp:334`: a `sendPost` that comes late finds the ring empty and
  sends no buffers; its completion of 0 bytes closes a session in health.
  `ClosedForCause` fails with two workers and an echoing server (`session_workers`
  with that invariant). The comment at `:43` takes 0 bytes for the peer's close;
- `CRingBuff.cpp:238`: a receive that fills the whole buffer from position 0
  makes the ring read as empty and its bytes are lost; `Reassembles` fails with
  `Window = 7` in `framing`, which `PacketsReassembled` excludes;
- `CPacket.cpp:113`: `>>` moves the rest up from `m_buffer[sizeof(value)]`, which
  lies a header's length before the rest, so that a second `>>` does not return
  what was written (the comment at `:95-97` says it does); `EchoesBack` fails
  in `framing` with `Fields = <<1, 2>>`. No handler of the repository reads twice;
- with an application thread, `ClosingIsPolled` fails: `recvPost` or `sendPost`
  raises the count for a moment (`CLockFreeCore.cpp:310-316`, `:365-373`), a
  `removeSession` leaves because of it, and the poster lowers it without calling
  `removeSession`, which `:414-415` says it would;
- with an application thread, which the theorems on it exclude,
  `PacketsAccounted` fails: packets are read for a
  send (`:362`) before the count protects the session, so its teardown may have
  deleted them, the race `CLockFreeCore.h:52` names;
- a count of 0 read before the slot was reused closes a socket under its pending
  receive (`CLockFreeCore.h:44`): the mechanism of `find_old_id`;
- `LockFreeQueue.h:12` calls the queue lock-free: a thread whose CAS failed keeps
  its position and spins until the winner stores the sequence (`:54`), so a
  stalled winner stops it (the property `LockFreedom` of `LockFreeStack` fails of
  the queue when only some thread is sure to run). With every thread running, one
  call may still starve, overtaken by others for ever: the run `queue` shows that
  nothing else can stop it;
- a queue of capacity 1 overwrites its value (`LockFreeQueue.h:24`, `:40`), the
  reason for the proofs' assumption;
- `pop` fails on a queue that holds a completed push behind one half done
  (`:91`), and `push` on a queue with room while a pop is half done (`:59`):
  `GiveUpPop` and `GiveUpPush` of `WeakQueue` say when;
- `testOversizedHeaderRejected` takes a `recv` that timed out for a closed
  connection (`EchoServer.cpp:131`), so a server that ignored the header would
  pass it as well.

`AcceptedIsSent` allows a packet to be dropped by a session that closes, whatever
closes it, the late `sendPost` included; such a session stays closing until its
peer sends or leaves.

The passing session runs are the instances in which these do not arise: no two
threads that can hold a pointer across a reuse of the slot (`session_workers`,
`session_app`, `session_recycle`), and a property the application thread does
not disturb (`session_app`).

## 7. Not modelled

- `start` and `stop`: `start` runs before any other thread exists; `stop` frees
  what the threads still use and joins none of them, so after it there is no
  defined state to check.
- `CTextParser`: scans a text character by character, once, alone.
- The timing loops of the benchmark, the console output of every program, the
  ramp-up and the counters of BotClient, `ServerInfo.txt`, project files, socket
  options and the connection filter of the accept thread.
- Methods without a caller: `CPacket::clear`, `setData`, `getData`;
  `CRingBuff::lock`, `clearBuffer`, `getBuffer`.
- Store buffers: every module assumes sequentially consistent memory, which the
  plain fields of the send protocol (`CLockFreeCore.cpp:112-113`, `:473`) do not
  ask for.
