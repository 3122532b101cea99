# The login server, in TLA+

The program is the login (session) server of a game: a Windows service in C++ that
keeps a fixed set of connection objects, receives requests over an I/O completion port,
answers them from MySQL, and copies what game servers will need into a Redis cluster.
This directory holds TLA+ modules of its concurrent core, the TLC configurations that
check them, and TLAPS proofs of what matters most. Line numbers refer to the files in
`src/`.

## 1. Inventory

| part | state | operations | what makes it correct |
|---|---|---|---|
| `LoginServer` (`LoginServer.cpp`) | `AcceptQueue`, completion port, threads, run flags | `init`, `StartWork`, `ServerEnd`, `CenterServerConnect`, `WorkThread`, `AccepterThread` | a slot is always offered, connected, or about to be reset; a completion acts on the connection it came from; slot 0 is the centre server's |
| `ConnUser` (`ConnUser.h`) | socket, `acceptOvlap`, `sendQueue`, `sendQueueSize`, `circularBuffer`, `readData`, `userPk` | `PostAccept`, `ConnUserRecv`, `PushSendMsg`, `SendComplete`, `ProcSend`, `ReadRecvData`, `WriteRecvData`, `Reset`, `SetPk` | replies leave in the order they were pushed, each once and all of them; nothing of a client survives it |
| `OverLappedManager` | `ovLapPool`: 10 `OverlappedEx` | `getOvLap`, `returnOvLap` | an object has one owner; none is lost |
| `ConnUsersManager` | table of the 13 slots | `InsertUser`, `FindUser` | the table is filled before it is used |
| `CircularBuffer` | array, two positions, size | `Write`, `Read` | a bounded byte FIFO |
| `RedisManager` pipeline | `procSktQueue` | `PushRedisPacket`, `RedisThread` | every handler runs on the bytes of one request; requests are answered once, in order |
| `RedisManager` handlers | Redis keys, `userPk` of the slot | `GetUserInfo`, `GetEquipment`, `GetConsumables`, `GetMaterials`, `GetPassRewordInfos`, `GameStart`, `ImLoginResponse` | one reply on every path; the data of the user who logged in; the session changes only when a login succeeded |
| `MySQLManager` | connection, shared `Result` and `Row` | `init`, `GetEventPassId`, `SetRankingInRedis`, `GetUserInfoById`, `GetUser*ByPk`, `GetPassDataByPk` | rows are decoded and packed within their bounds |
| `UserProcessor.h`, `ServerProcessor.h`, `User.h` | - | - | an earlier design: in no project file, included nowhere, not compilable |

How they interact. The accepter thread pops a slot and posts `AcceptEx`. The worker takes
packets from the completion port: for an accepted client it posts a receive; for received
bytes it calls `PushRedisPacket` (ring and queue) and posts the next receive; for a
finished send it calls `SendComplete`; for a failed or empty packet it resets the slot and
puts it back into `AcceptQueue`. The redis thread takes `(size, slot)` pairs, reads the
ring of the slot, runs the handler and calls `PushSendMsg`. The lock-free queues are shared
without further locking; `CircularBuffer` alone has a mutex. `main.cpp` starts one worker,
one accepter and one redis thread.

Hard behaviour: the two-step counter protocol between `PushSendMsg` and `SendComplete`;
completions, queued packets and replies that outlive their connection, because everything
names a slot and nothing names a connection; the pool running empty; MySQL or Redis failing
half-way; requests that TCP cuts or joins, that a full ring refuses, or that name no handler; rows that change while they are
copied; start-up and shutdown order. `PROJECT.json` lists each hazard at its line with the
properties that watch it.

## 2. Modules

| module | models | composed with |
|---|---|---|
| `ByteFifo` | what a receive ring promises: a bounded FIFO of bytes | - |
| `CircularBuffer` | `CircularBuffer.cpp`, byte by byte | refines `ByteFifo` (`ImplementsFifo`) |
| `SendQueue` | `PushSendMsg`, `SendComplete`, `ProcSend` of one connection, one action per access to shared memory | - |
| `ConnSlots` (+ `MCConnSlots`) | worker, accepter, redis thread, slots, completion port, pool, replies and their counter | contains the reply path of every slot, access by access, without the identity of replies that `SendQueue` has |
| `RequestService` | what the server promises about packets of requests, as long as no request arrives damaged: taken in order and in the end, the first request of each answered once if its handler replies, the others dropped; halted by a request without a handler | - |
| `Requests` | TCP, ring, `procSktQueue`, handlers, `userPk`, over connections | refines `RequestService` (`ImplementsService`); contains the ring at the grain of a whole `Write` or `Read` |
| `UserData` | `MySQLManager`'s rows, the handlers that pack, upload and send them, game servers that change them | details of `Requests`' `GetUserData` |
| `Lifecycle` | `main`, `init`, `StartWork`, `RedisManager::init`, `ServerEnd`, `~RedisManager`, with all threads | what comes before and after `ConnSlots` and `Requests` |
| `CircularBuffer_proofs`, `SendQueue_proofs`, `Lifecycle_proofs`, `ConnSlots_proofs`, `Requests_proofs`, `UserData_proofs` | theorems | extend their modules |

Correspondence to the code:

* **CircularBuffer.** Variables have the names of the members; `readData` is the caller's
  array and `ret` the returned flag. `Write`/`WriteRefused` and `Read`/`ReadRefused` are the
  two outcomes of each call, atomic because `bufferMutex` is held throughout. The array
  starts with arbitrary contents, as `new char[]` leaves it.
* **SendQueue.** A pusher goes `Enqueue`, `FetchAdd`, `Check`, and if it read 1, `Pop`, `WSASend`; a
  worker goes `TakeCompletion`, `FetchSub`, `Check`, and likewise. The counter is taken modulo
  `SizeMod` (2^16), because a completion can be counted down before the push was counted up.
  `SendDone` is Windows.
* **ConnSlots.** `WorkDisconnect`, `WorkAccept`/`WorkAcceptFailed`, `WorkRecv` and `WorkSent` are the branches of
  `WorkThread`; `OfferSlot` and `RefusedSlot` the passes of `AccepterThread`; `HandleRequest` is a pass of the redis
  thread that makes one reply (or none, `ImLoginResponse`). What two threads can do at the same time on one slot
  is split as in `SendQueue`: the redis thread takes an object from the pool (`HandleRequest`), `Push`es it, `FetchAdd`s, `Check`s the
  counter and if it read 1 goes on to `Pop` and `WSASend`; the worker gives the object back (`WorkSent`), `FetchSub`s, and
  goes on likewise; after `WorkRecv` it posts the next receive (`RecvAgain`) and gives the filled object back
  (`ReturnReceived`). `pc`, `on` and `hand` are where a thread is, for which slot, and the object in its local
  variable. The counter is taken modulo `SizeMod`, for here too a completion can be counted down before its push was
  counted up. `uncounted` is a history variable: replies that ended without a `SendComplete`, because `WSASend` failed or
  because their completion did. The remaining steps are single: between them nothing that they read or write is shared. A socket is `fresh`, `accepting`, `up`, or `down`
  (peer gone, not yet reset). `live` of an operation tells whether its socket still exists;
  only the kernel and the properties look at it. The initial states are those
  `StartWork` leaves, with the centre server connected or not.
* **Requests.** A request is a header cell, and a body cell if it carries a name or is packet 802. Its kind says what
  `packetIDTable` has for its packetId: a handler that replies (`Replying`), `ImLoginResponse`, which does not, or, for
  `OTHER`, nothing (811 and 851 are declared in `Packet.h` and have no handler). `Send` puts its
  cells on the way; `PushRedisPacket(s, n)` is a receive that completes with the first n of them, so
  that requests can be joined or cut, and the call of that name, which writes them to the ring or, if
  it is too full, not, and queues their number either way. A pass of the redis thread is one step:
  `Taken` with one of the handlers, or `TakenUndefined`, where `ReadRecvData` has nothing to return,
  finds no header, or finds a packetId without a handler, and the thread uses what is undefined. `Taken` takes all the
  bytes of the packet; requests behind the first are not looked at, and `dropped` remembers them. One step is enough because only this
  thread reads rings and `userPk`s: writers append behind what it will read, and a reset or a new
  client between two of its accesses has the effect it has before the pass. (A new client between the
  first access and the push gets the reply; so it does when it comes first.) For the same reason a
  receive is in the ring when it completes: waiting in the completion port is waiting in
  `procSktQueue`. `GetUserInfo` has four outcomes: MySQL fails, the pipeline fails with or without
  effect, all succeeds. A body that was cut off is read from what `readData` still holds, so any
  name can come out (`NamesRead`). `userPk` starts uninitialised in the code, so it starts with any of
  `FirstPks`. `torn` remembers slots where a request was cut or refused. `Inbox` maps `procSktQueue` and the rings to the
  packets of `RequestService`, each with its first request, how the table treats it, and the requests behind.
* **UserData.** A handler makes its query (`Query`: the rows as they are now go to the shared `Result`),
  fetches row by row (`Fetch`, `Throw`), packs the records into its buffer (`Pack`), uploads and
  replies (`ReplyInventory`, `UploadFails`, `ReplyPasses`). A record is three cells, an item buffer
  `InvenLen` of them, so that the record at the buffer's end may not fit whole. `Cast` is the cast
  to `uint16_t` with `Word` numbers. `Change` is a game server, at any time. Each change has a number,
  which the code does not have: with it a property can say that a value is older than another. Rows come in the order of
  their positions; the SELECTs have no ORDER BY, so this is an assumption about tables that are not in `src/`.
* **Lifecycle.** The main thread goes through `main`, `StartWork`, `RedisManager::init` and `ServerEnd`
  statement by statement; threads run from the moment they are made. Every result that the code
  does not look at has its failing case. A null, unset or deleted pointer that is used, or an
  exception nobody catches, makes the server `crashed`. A worker looks at `WorkRun` and takes a packet
  in two steps, since it can wait for ever in between; a redis thread's handler is a step of its own, since
  `ServerEnd` can come in between. `blame` collects the failures and early clients that
  happened, so that the properties can say which are to blame for a crash.

## 3. Runs

| run | question | result |
|---|---|---|
| `send_shipped` | one pusher, one worker, window 4, 6 replies: types, order on the wire, at most two sends outstanding | holds |
| `send_lockstep` | two pushers, two workers, a client that waits for each reply: the counter accounts for every reply; every reply is sent | holds |
| `send_burst` | a client with two requests under way: is every reply sent? | violated: two replies left, `SendComplete` reads 2, nobody sends |
| `ring` | ring of 4 bytes, calls of 0 to 5 bytes, every array content: bounds, occupancy, refinement of `ByteFifo` | holds |
| `slots_safety` | the centre's slot and a client slot, 3+1 objects, 2 arrivals, 2 packets: rotation, counters, ownership, losses | holds |
| `slots_rotation` | 3 slots, 2 arrivals, 1 packet: does a slot leave the rotation, and is a reset slot offered again? | holds |
| `slots_pool_empty` | does a connection that is up always have a receive, or a packet that leads to one? | violated with the pool empty |
| `slots_stale` | is a live connection reset only by its own loss? | violated by an aborted operation of the previous socket |
| `requests` | a slot with two successive clients and three requests of every kind, cut, joined, refused: framing, what stops the redis thread, order, data of the last login, refinement of `RequestService` with liveness | holds |
| `requests_own_data` | does a client get data only of the account it logged in with? | violated by a slot that changes hands, without any damage |
| `lifecycle` | 2 workers, 1 accepter, 2 redis threads, 2 slots, 2 clients, every failure: what can crash the server, when do handlers run, does `ServerEnd` return? | holds |
| `userdata` | 3 positions, 4 codes (one cast to 0, one to another, one unreadable), 4 passes, 2 changes: replies, overrun, hash | holds |

What the passing properties say beyond the shape of the code:

* `SizeAccounting` relates counter, queue, kernel and program counters of all threads;
  `WireInPushOrder` and `AtMostTwoOutstanding` hold only because there is one pusher and one worker
  (with two workers TLC finds both violated, with two pushers the order; raising `maxThreadCount` in
  `main.cpp` is therefore a change of behaviour, not of speed).
* `SlotReachable` and `FreshSlotReoffered` say that slots survive double resets and refused offers.
  `SendCounterAccounts` is an equation for the counter of each slot, over all its connections: modulo its width it is the
  replies that wait, are in a thread's hand or are with the kernel or in the port, plus a completion not yet counted
  down, minus a push not yet counted up, plus `uncounted`. So `Reset`, which leaves counter and queue alone, and failed
  sends make a counter too high by exactly the replies that ended without a `SendComplete`, and nothing else makes
  it wrong, in either direction. It does not say that one send at a time is under way: a worker that finds 1 can pop and send a
  reply that is pushed and not yet counted, and then two are (`AtMostTwoOutstanding` bounds them for one connection, in
  `SendQueue`). `LostOnlyWithAPeer` confines the loss of pool objects to steps that meet a failed completion or a socket
  without a peer; that they are lost there is what the code does.
* `Framing` ties the ring to the sizes in `procSktQueue` across connections. It holds *because* `Reset`
  leaves both alone: the mutant that clears only the ring breaks it. `HandlersDefined`
  says what stops the redis thread: a packet on a slot where a request was cut by TCP or refused by a full ring, or a whole
  request whose own packetId has no handler (`RedisManager.cpp:104`), and nothing else. `ServedAsLastLogin` is about the order of upload, `SetPk` and the error returns of
  `GetUserInfo`. `ImplementsService` says that packets of undamaged requests are taken in order over all slots, although slots change
  hands under them, and in the end; that the first request of each gets one reply, or none if it is packet 802; that
  the requests joined behind it are dropped, which is what the code does, and no others; and that a request without a
  handler halts the server for all that wait behind it.
* `DefinedOnceStarted` says which of the many unchecked results matter, and when. While the server starts, any of
  them, or a client that is early, may crash it. A server that got through `StartWork` without a failure
  of `init` or of a thread uses nothing unset or deleted from then on, through the whole of `ServerEnd`; MySQL and
  Redis failing at the start cannot crash it later. `HandlersAfterMySQL` is why starting redis threads
  before `mySQLManager` exists does no harm: `SetManager` comes last, and no request passes a worker before
  it. `ServerEndReturns`: the wake-up packets counted for accepters too are enough, in every order.
* `ReplyIsOneSnapshot` compares what a client can decode with the table at the moment of the query. It needs
  the single redis thread of `main.cpp` (assumption `OneRedisThread`): without that assumption, and with two threads,
  TLC finds them fetching each other's rows through `Result`. `IsInventory` says what the client must get without
  saying how it is computed: as many items as positions hold one, each at its position and in order, with its code cast. No property speaks of the contents of a reply with passes (section 5). `OverrunOnlyByTooMany` bounds the overrun of `tempC` to users with more items
  than fit. `HashNotBehindReply` and `HashNeverGoesBack` relate replies and the hash game servers read, over
  repeated and partly failed uploads of a changing table.

Each property of a passing run has a mutant of the code in `PROJECT.json` that TLC refutes.

Bounds. `MaxMsgs` 6 over a window of 4 lets the send queue fill, drain and stall. In the ring, 4
bytes with calls up to 5 reach every position, both ends, full, empty and refusal. In
`ConnSlots` two arrivals on two client slots (and on slot 0, once the centre server has left) reach
a second client on a slot with operations of the first still pending; three pooled
objects and one heap object reach the empty pool, and the two packets with the centre's message let the counter go below zero and two sends
be under way; `AcceptCalls` bounds the pending `AcceptEx`
calls, and `OfferSlot` waits when none is free, which only `slots_rotation` could notice: it has enough for every
slot and every client. `slots_rotation` has one packet, because replies play no part in
rotation but for their failed completions. In `Requests` a window of 2 lets two requests be on the way at once, a ring of 3 cells refuses
some writes, three requests allow a login, a failed login and a request for data, on the slot of one client or of two, each joined with or followed
by a request of any other kind.
It has one slot: slots share only `procSktQueue`, and each handler touches one slot; a second slot with as many
requests is beyond TLC's five minutes. `FirstPks` holds an account, so that a `userPk` no login has set does harm. In `Lifecycle` slot 0
and one client slot are enough for the table to be half filled; two clients and one packet with data
allow a slot's second client and a request under way when the server ends. `MaxThreadCnt` 2 gives the
wake-up packets two takers. In `UserData` two items and two passes fit their buffers and a third does not; two changes
let a row change between two uploads and between query and upload. TLC's symmetry is used in safety runs only.

Deadlock is not checked where a behaviour ends because a bound is used up and every client is
served or gone, because the server has ended or crashed (`Lifecycle`), or because undefined behaviour has set in (`Requests`,
`UserData`).

Fairness. The loops of the worker, the accepter and the redis thread never block for ever on
another thread (they poll, or wait on the completion port), so their steps are weakly fair; so are those of the
main thread in `Lifecycle`, whose calls to MySQL, Redis (10 s time-out) and the centre server return. Its wait for the word
`login` is not: nobody has to end the server.
Windows aborts what is pending on a closed socket, hence fairness of `Abort`; a send to a peer
that reads completes, hence fairness of `SendDone` in `SendQueue`. No client has to connect, ask,
read or leave.

## 4. Proofs

`tlapm` checks every obligation. Constants are arbitrary within the named assumptions.

* `SendQueue_proofs`. `TypeCorrect` and `SizeAccountingCorrect` hold for every set of pushers and
  workers. `TypeOK` alone is not inductive: that `held[t]` is a reply when `t` calls `WSASend` and
  that a popped reply is in no other hand are needed (`HoldsWhileSending`, `QueueOrdered`, `PoppedOlder`, `OneHand`; together
  `IInv`). Counting then goes action by action (`StepCounts`) with `Counted` as the invariant,
  and the remainders are handled by `ModAdd`. `ShippedOrder` and `ShippedOutstanding` assume one pusher, one
  worker and `Window + 2 <= SizeMod`, so that the counter never wraps into 1 by accident. The
  invariant `PairInv` says which combinations of the two program counters are possible: only one of
  the two can be on its way to send (`Careful`), and the replies sent, held and queued are
  consecutive numbers (`Consecutive`).
* `CircularBuffer_proofs`. `TypeCorrect`, `OccupancyCorrect`, and `RingImplementsFifo`, the refinement: initial
  states map to initial states, and every step of the ring is a step of `ByteFifo` or stutters. `WriteAppends` and
  `ReadTakes` are the two facts about the array: a write appends to `Contents` whether or not it
  wraps, a read returns a prefix. They rest on `Advance` being additive and injective.

* `Lifecycle_proofs`. `TypeCorrect`, `DefinedCorrect` and `HandlersCorrect` hold for every number of threads, slots,
  clients and packets. Neither `TypeOK` nor `DefinedOnceStarted` is inductive. `IInv` adds where the main
  thread has to be for things to be so: which slots are in the table while `StartWork` fills it
  (`StartOrder`), that `SetManager` comes after the last use of MySQL by the main thread (`MySQLOrder`), that a server that left
  `StartWork` at its end has everything until `ServerEnd` deletes it (`Started`), that no worker is in its loop
  once `redisManager` goes and no redis thread once the slots go (`Joined`), and that whatever is in the
  port or in `procSktQueue` meanwhile came from an early client (`EarlyOnly`) or through `SetManager`
  (`RequestsAfterSetManager`). A crash is then the use of an object by a thread that `Joined` places before its
  deletion, and `Started` says that it is there (`WorkerCrashes`, `RedisCrashes`).

* `ConnSlots_proofs`. `TypeCorrect`, `OneOwnerCorrect`, `SendCounterAccountsCorrect` and `SlotReachableCorrect` from one
  invariant, `IInv`, and from it the action property `LostCorrect`; for every number of slots, any pool and heap,
  any counter width, any bounds. The four depend on each other: counting the replies of
  a slot needs each to have an object of its own (`OneOwner`) and their set to be finite; that a
  completed `AcceptEx` is not taken for another operation needs their names to be apart (`AcceptIds`); and that the objects in the
  threads' hands are owned needs to know at which labels a thread has one (`TypeOK`). The proof does not go action by action over all four.
  It follows the moves of an object (taken from the pool into a hand, from a hand into a queue, from a queue into a hand, posted,
  completed, given back, orphaned by a reset), shows for each what it does to the holders (`OwnedOnce`)
  and to the account of a slot (`Account`: what is on its way, the two program counters that are between, `uncounted`; `AccountAdded`,
  `AccountSubtracted`, `AccountLess` and `AccountMore` are its four ways to change, modulo the width), and composes them per action.
  `SlotReachable` is an argument of its own: a
  step can end the offer of its slot only by making it connected or by queueing it again.
* `Requests_proofs`. `FramingCorrect`, `HandlersDefinedCorrect`, `AnsweredInOrderCorrect` and
  `ServedAsLastLoginCorrect` for any number of slots, accounts, connections and requests and any ring, from
  `TypeOK /\ Parts`. Two arguments carry them. `Ahead` is the set of cells that are queued for a slot ahead of a packet, so that sums
  over `procSktQueue` are cardinalities: a push leaves what was ahead (`AheadPush`), a pop takes the first size off
  (`AheadPop`), hence `Framed` survives both. And request numbers grow from the replies over the ring to the
  stream (`Lines`, `Answered`), hence replies are in order; that a ring is neither emptied nor cut by `Reset` is used in both.
  `ServedAsLastLogin` speaks of the past, so it needs `Session`: the slot's `userPk` is that of the latest successful
  login, and is uploaded. `ServiceCorrect` is the refinement of `RequestService`: while nothing is torn, a push appends a packet to the
  inbox (`PushArrives`), a handler takes its first element, answering it or not and dropping what is joined behind (`TakenLeavesInbox`,
  `HandlerAnswers`), a packetId without a handler halts (`FrontIs` says that the front of the inbox is what the thread reads), and every
  other step leaves it alone.
* `UserData_proofs`. All properties of its run, for any number of users, positions, passes and changes, any cast width
  and any buffers; one redis thread is assumed (`OneRedisThread`). `Progress` follows the handler through the loop over the rows: the
  vector lists the items of the rows fetched so far, the result holds the others. From its end follow what is packed, what a client decodes
  (`ReplyDecodes`, with `div` and `mod` by the record length), and what overruns. `Versioned` orders the copies of a row: the hash is never
  newer than the rows of a handler at work, nor these than the table, and copies of equal version are equal; so an upload, complete
  or not, only moves fields forward (`UploadIs`).

Model-checked only: liveness (`EveryReplySent`, `FreshSlotReoffered`, `ServerEndReturns`, and the fairness of
`ImplementsService`), which the prover cannot do. Every other property of a passing run is proved for all values of the
constants. What the `violation` runs show are counterexamples and need no proof.

## 5. Not modelled

* The reuse of `acceptOvlap` while an earlier `AcceptEx` may be pending; failures of `WSASocket` and
  `CreateIoCompletionPort` in `ConnUser`, which the code only logs.
* What should arrive of a user's passes. The comment at `RedisManager.cpp:381` says that the user is sent, for each pass,
  whether its items were acquired, and `PassRewords` is as long as the buffer the loop below fills. Line 396 copies
  `MAX_PASS_ID_LEN + 1` bytes of it, one `passId`: not its reward bits and type, and nothing of further passes, while
  `passCount` tells their full number. `UserData` does what the code does (`Copied`). A property that every
  pass arrives is false of it as soon as a user has one; none is stated that the truncation would satisfy.
* What a lost centre server should lead to: `LoginServer.cpp:211` speaks of a shutdown, the code resets
  slot 0 and offers it to clients. `ConnSlots` does what the code does; no property demands the comment.
* Expiry of Redis keys, the token's content, the ranking's values, and `passIdVector`, which nothing reads.
* Pipelining of `Requests` with two redis threads, where two requests of a slot could overtake each other, and the
  window in which the ring is written but its size not yet queued, which matters only then.
* Packet and record types beyond what `Requests` (which requests have a body) and `UserData` (records in
  buffers) use: replies are all sent with 1024 bytes.
* `UserProcessor.h`, `ServerProcessor.h` and `User.h`, the earlier design: 829 of 2809 lines, in no project file,
  included by nothing, using types that no file declares.

## 6. Plan

1. An abstract specification of the reply path (a queue of replies and a wire) that `SendQueue` implements for one
   pusher and one worker, proved from `Consecutive`.
2. One identity per `acceptOvlap` in `ConnSlots`, and what follows for `OneOwner`.
3. `Requests` with the step between writing the ring and queueing the size, and more than one redis thread.
