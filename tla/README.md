# Verification of the RFQ relayer

TLA+ models of the relayer, the TLC runs that check small instances of them, and
theorems checked by TLAPS for every value of the constants. `PROJECT.json` lists
the components, runs, mutants, findings, hazards and theorems, and maps each
definition to the source lines it models.

## 1. The system

A relayer node takes a *request for quotes* (RFQ) over HTTP, announces it to
market makers over WebSockets, collects their quotes until the requested duration
has passed, stores the result, and records what happened in a chain of blocks.

| part | state | operations | source |
|---|---|---|---|
| HTTP API | none of its own | POST `/tx`, `/rfqs`, `/quotes`; reads | `api/server.go` |
| WebSocket hub | `clients` | connect, disconnect, `BroadcastTx` | `api/server.go` |
| main loop | `memPool`, `peerMap` | receive peer, transaction, message | `network/server.go` |
| transaction pool | `all`, `pending` | `Add`, `Pending`, `ClearPending` | `network/txpool.go` |
| event listener | none | open an RFQ, announce quotes and closings | `network/server.go` |
| auction manager | `auctionQueue` | pop, close, store, announce | `core/blockchain.go` |
| chain | `headers`, block store, `lock` | `VerifyBlock`, `GetBlock`, ... | `core/blockchain.go`, `core/block_validator.go` |
| RFQ records | `openRFQS`, `openRFQsMap`, six tables | `WriteRFQTxs`, `UpdateActiveRFQ` | `core/blockchain.go` |
| validator loop | none | `CreateNewBlock` | `network/server.go` |
| synchronisation | none | status, get-blocks, blocks messages | `network/server.go`, `network/rpc.go` |
| TCP transport | `activePeers`, connections | accept, read, reconnect, close | `network/tcp_transport.go` |
| key-value store | the database | get, put, delete, batch, iterate | `rfqdb/`, `core/rawdb/` |
| codecs, hashes, keys | none | RLP, JSON, Merkle root, sign, verify | `core/types/`, `crypto/` |

How they interact. An HTTP handler writes its record under `Blockchain.lock`, then
sends the transaction on `txChan`. The main loop receives it, adds it to the pool
and, for requests and quotes, sends an event on `EventChan`. The listener receives
the event; for a request it builds an `OpenRFQ`, announces it, stores it, and
sends it on `txChan` in turn. The manager wakes once a second, pops the auctions
whose end time has passed, stores them as closed and sends an event. The validator
puts the pending transactions into a block every five seconds. `txChan` and
`EventChan` are unbuffered. The database directory is deleted when a node starts,
so nothing survives a restart.

What makes this hard: five kinds of goroutine on shared objects, some of them
without the lock; two unbuffered channels used in both directions; values checked
before a blocking send and used after it; pointers into the chain and into stored
RFQs; a pool that forgets; mixed units and widths of time.

## 2. Modules

| module | models |
|---|---|
| `TxPool` | the pool, as operators on sequences |
| `PoolSlice` | the slice behind the pool, word by word |
| `RFQAuction` | the life of an RFQ on a validator |
| `RFQLife`, `RFQRefinement` | abstract: what the relayer promises of one RFQ; how `RFQAuction` implements it |
| `RFQAuctionProofs`, `RFQAuctionQuotes`, `RFQLifeProofs` | theorems about `RFQAuction` and the refinement |
| `AuctionHeap` | the auction queue as a slice, element by element |
| `BlockProduction` | blocks, the chain's lock, and reading blocks back |
| `ChainProofs` | theorems about `BlockProduction`, `PebbleMeter` and `ByteKeys` |
| `BlockCodec` | a block as an object: Merkle root, signature, codec |
| `BlockSync`, `BlockSyncProofs` | how a follower gets the blocks of a validator |
| `Peers` | connections, read loops, reconnection, `Server.mu` |
| `NetworkProofs` | theorems about `Peers` and `PoolSlice` |
| `Gossip` | transactions between nodes |
| `WebSocketHub` | the clients map under connects, disconnects and broadcasts |
| `Lookups` | how a client finds what the node holds, by hash, address or height |
| `RLPCodec` | the RLP encoders and decoders of the records, as operators |
| `Records` | the stored records, as they are written and read back |
| `TxSigning` | the ways to sign a transaction and to check it |
| `ByteKeys` | keys, their order and the ends of key ranges, as operators |
| `KVStore` | abstract: what the interfaces of `rfqdb` promise |
| `MemoryDB`, `TableDB` | the in-memory store and the tables over it |
| `PebbleDB`, `PebbleMeter` | the wrapper around the Pebble engine; its counters of compactions and write stalls |
| `DataProofs` | theorems about `AuctionHeap` and `TxSigning` |
| `Startup` | start, crash and restart of a node; the key file |
| `Nodes` | `Startup` and `Gossip` of whole nodes |
| `NodesProofs` | theorems about `Nodes` and `WebSocketHub` |
| `MCRFQAuction`, `MCBlockProduction`, `MCBlockSync`, `MCPeers`, `MCWebSocketHub`, `MCNodes` | instances of one module for TLC |
| `MCStores` | instances of `PebbleDB` and `TableDB` |
| `MCData` | one run of `Records`, `TxSigning`, `BlockCodec`, `Lookups`, `AuctionHeap` and `PoolSlice` |

The modules meet at named borders. A step that one module takes as a whole is taken
apart in another: `RFQAuction` pops the queue in one step and `AuctionHeap` shows what that
rests on; `BlockProduction` reads the pool at once and `PoolSlice` word by word;
`RFQAuction` stores a record and `Records` encodes it; `BlockSync` trusts its
connection and `Peers` breaks it.

### RFQAuction

Each goroutine has a position variable (`pc[h]` for a handler, `mainPc`,
`listenerPc`, `managerPc`) and the transaction it holds. A section under
`Blockchain.lock` is one action. A send on an unbuffered channel is one joint step
of sender and receiver (`SubmitTx`, `SubmitOpenRFQ`, `EmitTxEvent`,
`EmitClosedRFQ`). `handlePostQuote` is therefore four actions: `PostQuote` (all
checks), `StoreQuote`, `SubmitTx`, `UpdateActiveRFQ`; `handleRFQRequest` is three;
one round of `processAuctionQueue` is `PopAuction`, `StoreClosedRFQ`,
`EmitClosedRFQ`.

`RFQData` objects are shared by pointer between the list, the map and the queue.
They live in the sequence `rfqData` and a pointer is an index. `NewTx` deep-copies,
so the manager holds a snapshot (`managerTx`) that later quotes do not reach.

The heap is the set `auctionQueue`; its root is any element with the least end
time (`QueueHeads`), since the heap breaks ties by its layout. The clock is in
milliseconds. `ToInt64` is Go's conversion, with `Int64Sup` for 2^63.

Left out: the list `closedRFQS`, which the code appends to and never reads;
logging; failures of the database. All three kinds of transaction that reach the
pool carry a signature that the sender has just made or verified, so the second
`Verify` in `processTransaction` does not fail. `POST /tx` can only carry a request:
`Transaction.UnmarshalJSON` refuses every other type.

### BlockProduction

`CreateNewBlock` is four actions, split where it waits for or releases
`Blockchain.lock`: build (`CreateNewBlock`), `VerifyBlock`, `AddBlock`, `ClearPool`.
`GetBlock` is three, because it takes a read lock for the height and another for
the block. `Blockchain.lock` is Go's `RWMutex`: `readLocks` counts the read locks,
and a goroutine waiting to write keeps new readers out (`CanRLock`, `CanLock`).

A header is a pointer. `BuildOn` writes through the header of the chain's head, as
`NewBlock` does. `HeaderHash` keeps the two components that can tell readings of
headers apart: the height, which is produced once, and `txHash`.

The main loop is always ready here; that it may block is the subject of
`RFQAuction`. Requested heights are `0..MaxHeight`.

### RFQLife

The promise made of an RFQ: requested, opened once, closed once, with a result made of
recorded quotes. `RFQRefinement` maps the phase to the tables that hold the RFQ and the result to
the stored snapshot, and `auction_life` checks that every step of `RFQAuction` is
a step of `RFQLife` or changes nothing there. It holds while the pool does not
prune (`PoolHasRoom`); otherwise an RFQ is opened again (`OpenedAtMostOnce` in section 5).
`RFQLifeProofs` proves it for every value of the constants.

### AuctionHeap and PoolSlice

A slice is a pointer to an array and a length, loaded and stored one at a time. In
`AuctionHeap`, `Push` runs under the chain's lock and `Pop` without it, each call
of `Less`, `Swap`, `Push` and `Pop` loading the slice anew. In `PoolSlice`,
`Pending` loads the two words without the lock under which `Add` and
`ClearPending` store them. `overlapped` and `torn` are history variables that
separate what is right in sequence from what a race adds.

### BlockSync, Peers and Gossip

`BlockSync` has the two main loops, the status loop, any number of request loops
and the bytes between them. Messages have no framing: one `Read` returns what has
arrived, up to 4096 bytes, and only the first message in it is decoded, so
messages are lost by being joined. The read loops of one connection compete.

`Peers` numbers the connections of a peer, 0 being nil. A connection is open, at its end
or broken. The two read loops of an accepted peer, `reconnect`, the two `errors`
channels and their closing are actions; a panic of any goroutine stops the node.

`Gossip` has the main loop of each node, their listener or the lack of one, and
the broadcasts, whose payload is empty in the code.

### WebSocketHub

A handler polls the map while a second goroutine reads from its connection. An access to the
map begins and ends; when a write overlaps another access, the Go runtime may
stop the process or not, and the model takes either branch.

### Lookups

Each HTTP handler is one step from a text to an answer. Texts are sequences of
digits, and the conversions of `common/bytes.go` and `common/types.go` (odd
lengths, `0x`, cropping on the left, padding) are translated as they are.

### RLPCodec, Records, TxSigning and BlockCodec

An RLP item is a value with a length, or a list of items. Lengths are scaled down
with `Base`; leading zeroes, empty strings, nil pointers and overlong fields are
kept apart, since the two families of decoders differ in just these. `Records`
stores what the encoders return and reads it with the decoders each caller
uses. It keeps the sharing of one `RFQData` between the store, the map and the pool.
In `TxSigning` a signature is V, R, S and the hash it was made for. In
`BlockCodec` hashes are terms, so that two blocks have the same root only if the
tree makes them so.

### The key-value store

`KVStore` is a map with atomic batches, frozen snapshots and sorted iterators.
`TableDB` extends `MemoryDB`, and its refinement mapping shows what the clients of
one table (`Watched`) see of the shared store. `PebbleDB` models what the wrapper adds: the upper bound of a
prefix, the iterator's first position, `Close`, and the counters of overlapping
compactions and write stalls, which are in `PebbleMeter`. The engine itself is external.

### Startup

Each system call of `main` and `NewServer` is a step, and a crash may come between
any two. Writing a file is truncating and then filling it. Disk variables survive
a crash; memory does not.

## 3. Runs

| run | result | shows |
|---|---|---|
| `auction_safety` | holds | records appear in the order request, open, quotes and closed; snapshots hold recorded quotes only; nothing closes early; announcements are in order; no auction is orphaned; a circular wait is permanent |
| `auction_life` | holds | without pruning the auction implements `RFQLife`; requests are opened and expired auctions closed, unless there is a circular wait |
| `block` | holds | the chain stays linked, nothing is committed twice, a block is readable unless an empty one follows it; requests are answered and transactions leave the pool unless a read lock leaks, which stops every writer for good |
| `sync` | holds | the follower's chain is a prefix of the validator's unless requests overlap; it decodes what it reads unless a buffer overflows; it catches up |
| `peers` | holds | the end of one connection is survived and noticed; a transaction is sent to all peers unless a block was broadcast |
| `hub` | holds | a broadcast reaches every client that stays; accesses under the mutex exclude each other; handlers end |
| `nodes` | holds | a node never runs under a second key or an unsaved one, whatever the crashes, and runs again; nothing but gossip stops it, and it answers |
| `stores` | holds | `PebbleDB`, `MemoryDB` and tables over it implement `KVStore`; compaction ranges cover a table; meters count overlapping events once |
| `data` | holds | what is stored, encoded, signed and looked up is read back as it was; neither slice loses or changes an element unless a race interferes |
| `auction_late_quote` | violated | a quote after the end time is accepted (seconds against milliseconds) |
| `auction_lost_quote` | violated | a quote answered with 201 is missing from the snapshot |
| `block_lost_tx` | violated | a transaction admitted while a block is built may be in no block |

Each violated property states what the Readme or a comment of the
repository says; `findings` quotes the line. Section 5 lists the other properties of
this kind.

Several properties have the form "*P* unless *race*". The race is a history variable
(`overlapped`, `torn`, `overfull`, `ended`) or a state (`CircularWait`, `Leaked`)
that names one interleaving the code does not prevent. Such a property says that
nothing else breaks *P*; section 5 shows that the race does.

### Sums of instances

`MCData`, `MCStores`, `MCNodes`, `MCPeers` and `MCBlockSync` put several instances into one run.
A variable (`part`, `node`, `ample`) is chosen in the initial state and never changes, and
a behaviour takes the steps of the chosen instance only. The variables of the others
keep their initial values, so a property of one instance is checked on the
reachable states of that instance, and only the sums' state counts are added.
Fairness is that of the chosen instance: the actions of the others are
guarded by the choice, or not enabled in the initial state.

### Bounds

- `auction_safety`: two RFQs with different durations, a request with duration zero,
  two quotes for one RFQ, four requests, three clock values, and a pool of two. Four requests allow one
  RFQ to be submitted twice around two quotes; a pool of two prunes. Three clock
  values cover before, at and after an end. `MsPerSecond` is 2.
- `auction_life`: the pool is larger than the number of transactions; one of two quotes has a bad
  signature. Three handlers are enough for the circular wait.
- `block`: two transactions, two handlers and two readers, of which the
  second handler and the second reader are not both busy, and heights up to 4, so that empty and
  full blocks alternate.
- `sync`: a chain of four blocks, so that two lengths are announced and two
  request loops run; two messages to the follower and two outstanding requests, so
  that answers overlap and messages are joined. `BufferBlocks` is 9 (more than can be under way) or 3
  (less than the first answer, which has four blocks).
- `peers`: one accepted peer that can be connected to anew, or one accepted and
  one dialled peer; both read loops; one transaction to broadcast; one block.
- `hub`: two clients and two broadcasts, so that a broadcast ranges over a map that
  the other goroutines change twice.
- `nodes`: three crashes, two keys, two passphrases; three requests, of which one is unsigned, and
  two handlers.
- `stores`: bytes are 0 to 2, and 2 plays 0xff; keys have up to two bytes. This has
  prefixes that end in 0xff, consist of it, and are empty. Two writes per batch
  reach two writes of one key.
- `data`: five auctions (three levels of the heap, ties included), three transactions and two
  clearings of the pool, lists of up to five transactions (odd and even levels of the
  Merkle tree), numbers with and without leading zeroes, every text of up to
  three characters. `Heap` stops at an overlap, after which its two properties
  promise nothing.
- Handlers are interchangeable in `RFQAuction`, so their permutations are a sound symmetry
  of `auction_safety`. Runs with liveness use no symmetry.
- Bounds that are not in the code: the sets of clients, handlers, readers, keys and values, `MaxTime`,
  `MaxHeight`, `MaxConn`, `MaxInFlight`, `MaxOutstanding`, `MaxBroadcasts`,
  `MaxCrashes`, `MaxWrites`, `MaxClears`, `MaxOps`, `MaxTrips`, and `MaxLength` in `BlockSync`.

### Deadlock

`stores` checks deadlock: some operation is always possible. The other configurations say
`CHECK_DEADLOCK FALSE`, because their clients, clocks and chains are bounded and end, and
because a node may stop for good (a circular wait, a leaked lock, a
panic), which is what the properties are about.

### Fairness

Nothing obliges a client to send, a peer to connect, or a node to crash.

- `RFQAuction`: every goroutine that can run is scheduled (weak fairness). A sender
  blocked on a Go channel is queued first come first served, so sends are
  strongly fair: a sender is not passed over for ever while its receiver keeps
  coming back.
- `BlockProduction`: weak fairness of every goroutine. Go's `RWMutex` admits a waiting writer once the
  readers have left, and readers after it; the guards model this.
- `BlockSync`: weak fairness of reading, processing and answering: bytes that were
  written arrive. Request loops send seconds apart, so the requests of a loop are not joined to
  the one before every time (strong fairness of receiving such a pair one by
  one). Sending is strongly fair because the bound on outstanding requests is not
  the code's.
- `Peers`, `WebSocketHub`: weak fairness of read loops, handlers, the main loop and
  broadcasts.
- `Startup`: a node that is down is started again, and `main` goes on.
- `Gossip`: strong fairness of the sends on channels, weak fairness of the listener, the
  broadcasts and the read loops.

## 4. Proofs

All theorems hold for every value of the constants that meets the named `ASSUME`s of
the modules: a pool of at least one, finite readers, natural numbers for
durations, times and heights, `None` outside the sets it is added to, a nil slice that
is not a byte string, and signatures whose V is 0 or 1 and whose R and S are not 0, as
`crypto.Sign` returns them. TLC evaluates them on every run.

| module | theorem | statement | argument |
|---|---|---|---|
| `RFQAuctionProofs` | `TypeCorrect` | `Spec => []TypeOK` | `TypeOK` is cut into one part per goroutine and group of objects; a step is checked against the parts it writes |
| | `CircularWaitForever` | `Spec => CircularWaitIsPermanent` | every action that moves the main loop or the listener is disabled |
| | `LifeCycle` | `Spec => []RecordsFollowLifeCycle` | by `FlowInv` |
| | `AuctionsStayOpen` | `BoundedDurations => (Spec => []OpenForItsDuration)` | by `TimeInv` |
| `RFQAuctionQuotes` | `SnapshotsAreRecorded` | `Spec => []SnapshotQuotesAreRecorded` | by `QuoteInv` |
| | `OpeningsComeFirst` | `Spec => []AnnouncedInOrder` | by `AnnounceInv` |
| | `OpenAuctionsAreQueued` | `Spec => []EveryOpenRFQWillClose` | by `CountInv` |
| `RFQLifeProofs` | `OpenedOnce` | `Spec /\ []PoolHasRoom => []OpenedAtMostOnce` | by `OnceInv` |
| | `AuctionIsLife` | `Spec /\ []PoolHasRoom => AuctionImplementsLife` | one lemma per action, from `FlowInv`, `QuoteInv` and `OnceInv` |
| `ChainProofs` | `TypeCorrect` | `Spec => []TypeOK` | one step per action |
| | `ChainStaysLinked` | `Spec => []ChainLinked` | by `ChainInv` |
| | `BlocksStayReadable` | `Spec => []ReadableUnlessEmptyFollows` | by `ChainInv` and `ReadInv` |
| | `TransactionsAreCommittedOnce` | `Spec /\ []PoolHasRoom => []CommittedOnce` | by `CommitInv` |
| | `LeakNeverEnds` | `Spec => LeakIsForever` | a reader gives back its own read lock only |
| | `MetersAreExact` | `MeterSpec => []MeteredTimeIsBusyTime` | by `MeterInv` |
| | `IteratorRangeIsExact` | `InRange(k, p \o s, upperBound(p)) <=> HasPrefix(k, p) /\ ~ Before(k, p \o s)` | the first byte at which `k` and `p` differ |
| | `CompactRangeCovers` | `HasPrefix(k, p) => InRange(k, p, compactLimit(p))`, `p # <<>>` | the last byte that can be bumped |
| `BlockSyncProofs` | `ChainIsLinked` | `Spec => []LinkedUnlessOverlapped` | by `LinkInv` |
| | `MessagesAreWhole` | `Spec => []DecodesUnlessOverfull` | by `DecodeInv` |
| `NetworkProofs` | `SurvivesOneEnd` | `Spec => []OneEndIsSurvived` | by `CalmInv` |
| | `PendingIsStable` | `PoolSpec => []StableUnlessTorn` | by `PoolInv` |
| `NodesProofs` | `OneKey`, `KeyIsSaved` | `S!Spec => []OneKeyForEver`, `S!Spec => []RunningKeyIsSaved` | by `KeyInv` |
| | `GossipStops` | `G!Spec => []StoppedByGossipOnly` | by `GossipInv` |
| | `UpdatesAreExclusive` | `Spec => []UpdatesExclude` | by `MutexInv` |
| | `BroadcastsReachAll` | `Spec => []BroadcastReachesAll` | by `CastInv` |
| `DataProofs` | `QueueIsExact` | `HeapSpec => []ExactUnlessOverlapped` | by `HeapInv` |
| | `EarliestIsPopped` | `HeapSpec => PopsEarliestUnlessOverlapped` | by `HeapInv` |
| | `QueueStaysInBounds` | `HeapSpec => [](~ overlapped => ~ panicked)` | by `HeapInv` |
| | `SignaturesVerify` | `Spec => []SignedVerifies` | by `SigningInv` |

`HeapSpec`, `PoolSpec` and `MeterSpec` are the specifications of `AuctionHeap`, `PoolSlice`
and `PebbleMeter`; the other modules leave their variables alone or take one of their
steps, as `Access` and `Event` of `PebbleDB` do.

`PoolHasRoom` says that the pool stays below its limit (1000 in the code). It is a
hypothesis and not an invariant: a pool that is full prunes, and a transaction that was
pruned is admitted again when it is posted again. TLC shows both theorems that have it false without
it: `OpenedAtMostOnce` is in section 5, and `CommittedOnce` fails with a pool of
one and three requests.

The invariants need strengthening because what is stored depends on what a goroutine
carries.

- `FlowInv` adds that every request held by a handler, the main loop or the
  listener is stored, that a quote past its checks answers an RFQ that was
  opened, and that every allocated object has been stored as open.
- `QuoteInv` adds that a quote is in the table before it is in an object, and that
  the manager's snapshot is covered too.
- `AnnounceInv` adds that whatever leads to an announcement comes from an RFQ that was
  announced: the open RFQs, the allocated objects, and what handlers, main loop, listener and
  manager carry.
- `CountInv` is the property over two sets of objects per RFQ, the listed and the queued.
  It is inductive with the types; the work is in the lemmas on lists: appending adds one
  place, and cutting one index out of a list shifts the others by a bijection. So
  `RemoveFirst` always finds an entry to remove and removes one.
- `TimeInv` adds that each object's end is its start plus its duration, that the
  manager's clock reading is not in the future, and that what the manager has popped was
  due. `BoundedDurations` says that end times do not wrap; section 5 shows that the
  theorem fails without it.
- `ChainInv` adds that heights follow positions and that the block under
  construction names the hash the head has now, from the time it is built until
  it is added. `CreateNewBlock` is the only writer of a header and runs only when no
  block is under construction.
- `ReadInv` adds that the block under construction carries the root of its own
  transactions, and that a block that was just added is stored under the hash of the
  head. With `ChainInv` it follows that the validator's own block always passes
  validation, so that none is lost between building and storing.
- `OnceInv` says where the request of an RFQ is once it was admitted: in the pool for ever,
  and in one of three places, with the main loop, with the listener, or stored as open
  (`RequestInv`, `PlaceInv`). A pool with room refuses a second one, so an RFQ has one object; the
  map keeps it until that object is closed (`AuctionInv`). This is what makes opening and
  closing single steps of `RFQLife`: without it a second opening would move the phase back.
- `CommitInv` says that what is pending or in a block is in `all`, that what is in a block is pending
  only between `AddBlock` and `ClearPool`, and that the block under construction is a beginning
  of what is pending: transactions that arrive meanwhile are appended.
- `LinkInv` says that without overlapping requests the follower, the connection, the read
  loops and the validator are in step: at most one request or answer is under way, and the
  blocks of an answer continue the follower's chain wherever they are, in the validator's hands, in
  transit, held by a read loop or partly applied.
- `DecodeInv` adds that as long as no more blocks than fit a `Read` were under way, every
  message that is held or in transit is whole.
- `GossipInv` follows a message from the broadcast that sends it over the connection to the read
  loop that takes it: wherever it is, its sender has admitted a transaction.
- `PoolInv` says what the writer has stored and the validator loaded so far. The array behind
  a slice that was handed out is appended to past its length or left behind, never written
  below it.
- `HeapInv` says that, while no push and pop have overlapped, one goroutine at a time is
  in the queue, that the slice holds the open auctions once each (with the exception of
  the one being appended), and that the heap is in order except for the element that moves up
  (`UpOrder`) or down (`DownOrder`). That the root of a heap is its least element is proved by
  taking the least index that contradicts it and looking at its parent.
- `KeyInv` adds that a key in use is the one in the file, and that the file is only
  truncated and written before any key was used.
- `MutexInv` adds that who updates the map, a handler that inserts and a reader that
  removes hold the mutex. `CastInv` adds that a client that is not yet written to is still
  to be visited by the range.
- `SigningInv` adds that a transaction is unsigned until it is signed, and what values a signature
  has; so every encoding of it can be read, and gives the same values.
- `MeterInv` adds the types of the counters and that `activeComp` is the number of
  compactions that run.
- `CalmInv` says that before a second end, a redial or a stop no goroutine has panicked,
  each peer has one connection from the time it is accepted or dialled, and has ended if that
  one has (`ConnInv`), a read loop is started once and the server's first (`StartInv`), a loop
  that returns has seen the end of its connection and a channel is closed only by one that has
  returned (`LoopInv`), and broadcasts and requests are about peers of `peerMap` (`MapInv`).

Checked by TLC only:

- liveness, which the prover does not handle: `ProgressUnlessCircularWait`,
  `ProgressUnlessLeaked`, `CatchesUp`, `EndIsNoticed`, `BroadcastsEnd`,
  `HandlerEnds`, `RunsAgain`, `PostsAreAnswered`;
- the refinements `TableIsStore` and `PebbleIsStore`: a batch is a fold over its operations
  and an iterator a sorted sequence, so both need induction over data. What they rest on
  besides, the ranges of keys, is proved;
- `CompactCoversTable` as a property of `TableDB`; `CompactRangeCovers` proves what it
  says of the limit;
- `VerifiedIsAsBuilt` and `SignedStaysVerified`: the Merkle root is a recursive operator;
- `RecordsReadBack`, `ClientTxsInBlocksVerify` and `TextsAreReadExactly`: stored records are filtered
  and sorted sequences, and the values of texts are folds and powers.

## 5. Properties the code does not have

Besides the three violated runs, the modules define properties that a document, a
comment or a test states and that TLC refutes. They stand at the end of their
modules and are in no run. To see a counterexample, make the property the only one of
the run's configuration; where the module is an instance in `MCData`, `MCNodes` or `MCStores`, define
a name for it there (`X == R!ClosedRFQsReadable`). The last column names the property
that the runs check instead, where there is one.

| property | run | what the repository says | what the code does | checked instead |
|---|---|---|---|---|
| `OpenedAtMostOnce` | `auction_safety` | core/blockchain.go:327 "there is a one to one relationship" | a full pool forgets its oldest transaction, which is then processed again (txpool.go:28) | `EveryOpenRFQWillClose`, `AuctionImplementsLife` |
| `OpenForItsDuration` with `big` in `RFQ` | `auction_late_quote` | Readme.md:14 "open [...] for the specified RFQ duration" | `int64` of a duration of 2^63 or more is negative (network/server.go:321) | the same without `big` |
| `RequestIsOpened` | `auction_life` | Readme.md:14 "the RFQ will be broadcast" | main loop and listener wait for each other (network/server.go:345) | `ProgressUnlessCircularWait` |
| `EveryBlockReadable` | `block` | core/blockchain_test.go:79 reads block 1 by its hash | `NewBlock` writes through the header of the chain's head (block.go:151) | `ReadableUnlessEmptyFollows` |
| `HeadersLinked` | `sync` | core/blockchain_test.go:82 asserts the link | a follower appends every answer unchecked (network/server.go:473) | `LinkedUnlessOverlapped` |
| `RequestsAreAnswered` | `sync` | network/server.go:419 "all blocks up to our current height" | the range includes a length, the block after the head (line 421) | `CatchesUp` |
| `FollowerHasTransactions` | `sync` | core/blockchain.go:575 "includes all transactions" | gob leaves out unexported fields (block.go:130) | |
| `ReceivedPeerIsActive` | `peers` | network/tcp_transport_test.go:83 "Peer was not added to transport" | the peer is sent before it is entered (tcp_transport.go:92) | |
| `FailedDialIsRepeated` | `peers` | network/tcp_transport.go:56 "try to reconnect 3 times" | the second attempt uses the nil connection of the first (line 57) | `OneEndIsSurvived` |
| `HandlerWaitsForClose` | `hub` | api/server.go:479 "Wait for the connection to close." | a message that is not a JSON string ends the reader (line 469) | `HandlerEnds` |
| `ExistingKeyIsLoaded` with one passphrase | `nodes` | main.go:45 "If the keystore exists, load the key" | a crash between truncating and writing leaves a torn file (keystore.go:73) | `OneKeyForEver`, `RunsAgain` |
| `RecordsArePersisted` | `nodes` | Readme.md:144 "for persisting the RFQ data" | every start deletes the database (network/server.go:96) | |
| `G!OpeningReachesNetwork` | `nodes` | network/server.go:315 "broadcast it to the network" | the payload is empty, and the receiver panics (line 652) | `StoppedByGossipOnly` |
| `NoWriteAfterClose` | `stores` | pebble.go:210 "flushes any pending data to disk and closes" | `quitChan` is never made, and `Close` returns before it closes (line 217) | `PebbleIsStore` |
| `Root!ClosedGivesNoSnapshot` | `stores`, part `root` | memorydb.go:51 "ensures any consecutive data access op" fails | a nil map is copied (line 327) | `TableIsStore` |
| `Root!SnapshotIsOfTable`, prefix `<<1>>` | `stores`, part `root` | table.go:23 "prefixes each key access" | the snapshot is of the whole store (line 130) | |
| `Root!CompactCoversTable` | `stores`, part `root` | table.go:84 compacts everything if both ends are nil | with an empty prefix the limit is empty, not nil (line 97) | the same for part `scans` |
| `R!QuotesReadBack`, a quote without `BaseToken` | `data` | Readme.md:18 "Received Quotes will be validated" | `Validate` accepts everything (tx_quote.go:465) | the same for complete quotes |
| `R!ClosedRFQsReadable` | `data` | core/blockchain.go:325 "For fast access to RFQ data" | the decoder wants 8 fields of the 9 written (tx_quote.go:193) | `RecordsReadBack` |
| `R!SnapshotsAreSigned` | `data` | core/blockchain.go:337 "signed by" the validator | the record keeps the signature of the opening (line 308) | `ClientTxsInBlocksVerify` |
| `R!OpeningsInBlocksKept` | `data` | network/server.go:344 "a decentralized record" | the pooled transaction shares its data with the open RFQ (blockchain.go:567) | `ClientTxsInBlocksVerify` |
| `SignTxVerifies` | `data` | transaction_signing.go:94 "the transaction hash that is signed" | two hashes, one of which covers the sender (line 33) | `SignedVerifies` |
| `SignNewTxSigns` | `data` | transaction_signing.go:41 "creates a transaction and signs it" | R and S are joined without padding (line 50) | `SignedVerifies` |
| `SenderReturns` | `data` | transaction_signing.go:57 "and an error if it failed deriving" | 27 is taken from a V of 0 or 1 (line 167) | |
| `L!PrintedHashIsFound` | `data` | Readme.md:131 "GET /openRFQs/:rfqTxHash" | the printed `0x` is refused (api/server.go:240) | `TextsAreReadExactly` |
| `L!CommittedTxIsFound` | `data` | Readme.md:126 "GET /tx/:hash" | nothing writes `txStore` (blockchain.go:187) | |
| `L!BlockIsFoundByHash` | `data` | Readme.md:124 "GET /block/:hashorid" | `GetBlockByHash` returns an empty block (blockchain.go:180) | |
| `L!HeightIsChecked` | `data` | core/blockchain.go:216 "is less than requested height" | the test admits the length itself (line 215) | |
| `AuctionsAreKept`, without the guard of `Heap` | `data` | core/blockchain.go:294 "use your lock to prevent data races" | `heap.Pop` runs without the lock (line 306) | `ExactUnlessOverlapped` |
| `PendingIsPooled` | `data` | network/txpool.go:43 "transactions that are in the pending pool" | two words of a slice are read without the lock (line 45) | `StableUnlessTorn` |

Part `root` alone is `part = "root" /\ Root!Init /\ NoPebble /\ [][MCNext]_allVars`.

## 6. Not modelled

- Matching and settlement: the code declares the states and the tables and has no
  operation that reaches them.
- The arithmetic of ECDSA and the hash functions: a signature is a relation between key,
  hash, V, R and S, and a hash stands for its contents. Key generation is a choice.
- `rfq_ext.go`, `core/encoding.go`, the trie hasher of `core/types/hashing.go` and
  `HookedBatch`, which nothing that runs calls, and the meter loop of
  `pebble.go`, which nothing starts.
- JSON syntax, signs in numbers, the mixed case of printed addresses, logging and the
  wording of errors.
- Failures of the disk other than a crash, and failures of the key-value store inside a handler.
- The command-line clients and utilities, the mocks, the generated code and the
  test suite.
