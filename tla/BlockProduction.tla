--------------------------- MODULE BlockProduction ---------------------------
(***************************************************************************)
(* How a validator turns pooled transactions into blocks, and how API      *)
(* clients read them back.  Three kinds of goroutine share the pool, the   *)
(* in-memory headers, the key-value store and Blockchain.lock:             *)
(*                                                                         *)
(*   handlers   a POST takes the write lock for its table, then hands its  *)
(*              transaction to the main loop, which adds it to the pool    *)
(*   readers    GET /block/:height                                         *)
(*   validator  validatorLoop: CreateNewBlock on every tick                *)
(*                                                                         *)
(* Blockchain.lock is Go's RWMutex: a goroutine waiting in Lock keeps new  *)
(* readers out, and gets the lock when no read lock is held.  A section    *)
(* under Lock is one action, so the lock's state is the number of read     *)
(* locks held.  That the main loop and the listener may block each other   *)
(* is the subject of RFQAuction; here the main loop is always ready.       *)
(*                                                                         *)
(* A header in Blockchain.headers is a pointer CreateNewBlock writes       *)
(* through: NewBlock overwrites the TxHash of the header it is given when  *)
(* there is nothing to put in the block.                                   *)
(***************************************************************************)
EXTENDS Integers, Sequences, FiniteSets, TxPool

CONSTANTS
  Tx,           \* transactions, named by their hash
  Handler,      \* POST requests (bounds the model)
  Reader,       \* GET /block requests
  MaxHeight,    \* bound on the chain's height
  None          \* no value

ASSUME MaxHeightAssumption == MaxHeight \in Nat

ASSUME ReaderAssumption == IsFiniteSet(Reader)

VARIABLES
  pc, body,             \* handlers
  readerPc, wanted,     \* readers: position and requested height
  readLocks,            \* read locks of Blockchain.lock that are held
  memPool,              \* [all, pending]
  headers,              \* Blockchain.headers; headers[i] has height i - 1
  db,                   \* header hash -> stored block
  validatorPc, block    \* the validator: position and the block it builds

handlerVars   == <<pc, body>>
readerVars    == <<readerPc, wanted>>
chainVars     == <<headers, db>>
validatorVars == <<validatorPc, block>>
vars == <<handlerVars, readerVars, readLocks, memPool, chainVars, validatorVars>>

----------------------------------------------------------------------------
(* Blocks *)

\* The Merkle root stands for the transactions it is computed from; the root of
\* no transactions is EmptyTxsHash.
MerkleRoot(txs) == txs

\* rlpHash of a header.  Each height is produced once, with a timestamp and a
\* signature of its own, so of all the hashed fields only TxHash can differ
\* between two readings of one header.
HeaderHash(h) == <<h.height, h.txHash>>

GenesisHeader == [height |-> 0, txHash |-> MerkleRoot(<<>>), parent |-> None]

Height == Len(headers) - 1

HasBlock(height) == height <= Height

\* NewBlockFromPrevHeader, given headers[i] as NewBlock leaves it.
NewBlockFromPrevHeader(prev, txs) ==
  [header |-> [height |-> prev.height + 1, txHash |-> MerkleRoot(txs),
               parent |-> HeaderHash(prev)],
   txs    |-> txs]

\* Mutant of ValidateBlock: off by one, it expects a height that is taken.
ValidateBlockOffByOne(b) ==
  /\ b.header.height = Height
  /\ HeaderHash(headers[Len(headers)]) = b.header.parent
  /\ MerkleRoot(b.txs) = b.header.txHash

\* The signature is the validator's own and always verifies.
ValidateBlock(b) ==
  /\ ~ HasBlock(b.header.height)
  /\ b.header.height = Height + 1
  /\ HeaderHash(headers[b.header.height]) = b.header.parent
  /\ MerkleRoot(b.txs) = b.header.txHash

\* WriteBody and WriteHeader under the header's hash.
WriteBlock(b) ==
  LET k == HeaderHash(b.header) IN
  db' = [x \in DOMAIN db \cup {k} |-> IF x = k THEN b ELSE db[x]]

Init ==
  /\ pc = [h \in Handler |-> "idle"] /\ body = [h \in Handler |-> None]
  /\ readerPc = [r \in Reader |-> "idle"] /\ wanted = [r \in Reader |-> 0]
  /\ readLocks = 0
  /\ memPool = NewTxPool
  /\ headers = <<GenesisHeader>>
  /\ db = [k \in {HeaderHash(GenesisHeader)} |-> [header |-> GenesisHeader,
                                                  txs |-> <<>>]]
  /\ validatorPc = "wait" /\ block = None

----------------------------------------------------------------------------
(* Blockchain.lock *)

WriterWaits == validatorPc = "lock" \/ \E h \in Handler : pc[h] = "lock"

CanRLock == ~ WriterWaits

\* Mutant of CanLock: the writer does not wait for the readers.
CanLockAnyway == TRUE

CanLock == readLocks = 0

----------------------------------------------------------------------------
(* HTTP handlers and the main loop *)

\* A valid POST reaches WriteRFQTxs and asks for the lock.
PostTx(h, tx) ==
  /\ pc[h] = "idle"
  /\ pc' = [pc EXCEPT ![h] = "lock"] /\ body' = [body EXCEPT ![h] = tx]
  /\ UNCHANGED <<readerVars, readLocks, memPool, chainVars, validatorVars>>

\* WriteRFQTxs: the tables are modelled in RFQAuction.
WriteRFQTxs(h) ==
  /\ pc[h] = "lock" /\ CanLock
  /\ pc' = [pc EXCEPT ![h] = "submit"]
  /\ UNCHANGED <<body, readerVars, readLocks, memPool, chainVars, validatorVars>>

\* txChan <- tx, then processTransaction in the main loop.
ProcessTransaction(h) ==
  /\ pc[h] = "submit"
  /\ \/ Contains(memPool.all, body[h]) /\ UNCHANGED memPool
     \/ ~ Contains(memPool.all, body[h]) /\ memPool' = AddTx(memPool, body[h])
  /\ pc' = [pc EXCEPT ![h] = "accepted"]
  /\ UNCHANGED <<body, readerVars, readLocks, chainVars, validatorVars>>

----------------------------------------------------------------------------
(* GET /block/:height *)

\* GetBlock compares the height under a read lock of its own.
GetBlock(r, height) ==
  /\ readerPc[r] = "idle" /\ CanRLock
  /\ wanted' = [wanted EXCEPT ![r] = height]
  /\ readerPc' = [readerPc EXCEPT ![r] = IF height > Height THEN "rejected" ELSE "rlock"]
  /\ UNCHANGED <<handlerVars, readLocks, memPool, chainVars, validatorVars>>

RLock(r) ==
  /\ readerPc[r] = "rlock" /\ CanRLock
  /\ readLocks' = readLocks + 1
  /\ readerPc' = [readerPc EXCEPT ![r] = "read"]
  /\ UNCHANGED <<handlerVars, wanted, memPool, chainVars, validatorVars>>

\* The header's hash is the key of the stored block.  The early return for a
\* missing block comes before RUnlock.
ReadBlock(r) ==
  /\ readerPc[r] = "read"
  /\ \/ /\ HeaderHash(headers[wanted[r] + 1]) \in DOMAIN db
        /\ readLocks' = readLocks - 1
        /\ readerPc' = [readerPc EXCEPT ![r] = "served"]
     \/ /\ HeaderHash(headers[wanted[r] + 1]) \notin DOMAIN db
        /\ readerPc' = [readerPc EXCEPT ![r] = "notFound"]
        /\ UNCHANGED readLocks
  /\ UNCHANGED <<handlerVars, wanted, memPool, chainVars, validatorVars>>

----------------------------------------------------------------------------
(* The validator *)

\* Mutant of BuildOn: the header is overwritten whatever the block holds.
BuildOnBlank(i) ==
  LET prev == [headers[i] EXCEPT !.txHash = MerkleRoot(<<>>)]
  IN  /\ headers' = [headers EXCEPT ![i] = prev]
      /\ block' = NewBlockFromPrevHeader(prev, memPool.pending)

\* CreateNewBlock up to and including NewBlockFromPrevHeader and Sign.  Height
\* takes a read lock, Pending and the write through the header take none.
\* NewBlock is given the live header of the chain's head.
BuildOn(i) ==
  LET txx  == memPool.pending
      prev == IF txx = <<>> THEN [headers[i] EXCEPT !.txHash = MerkleRoot(<<>>)]
                            ELSE headers[i]
  IN  /\ headers' = [headers EXCEPT ![i] = prev]
      /\ block' = NewBlockFromPrevHeader(prev, txx)

\* Mutant of CreateNewBlock: the head was read before the last block was added.
CreateNewBlockOnStaleHead ==
  /\ validatorPc = "wait" /\ CanRLock /\ Height < MaxHeight
  /\ \E i \in {Len(headers) - 1, Len(headers)} \ {0} : BuildOn(i)
  /\ validatorPc' = "verify"
  /\ UNCHANGED <<handlerVars, readerVars, readLocks, memPool, db>>

CreateNewBlock ==
  /\ validatorPc = "wait" /\ CanRLock /\ Height < MaxHeight
  /\ BuildOn(Len(headers))
  /\ validatorPc' = "verify"
  /\ UNCHANGED <<handlerVars, readerVars, readLocks, memPool, db>>

\* VerifyBlock up to the lock of addBlockWithoutValidation.  An invalid block is
\* dropped and its transactions stay pending.
VerifyBlock ==
  /\ validatorPc = "verify" /\ CanRLock
  /\ validatorPc' = IF ValidateBlock(block) THEN "lock" ELSE "wait"
  /\ UNCHANGED <<handlerVars, readerVars, readLocks, memPool, chainVars, block>>

AddBlock ==
  /\ validatorPc = "lock" /\ CanLock
  /\ headers' = Append(headers, block.header)
  /\ WriteBlock(block)
  /\ validatorPc' = "clear"
  /\ UNCHANGED <<handlerVars, readerVars, readLocks, memPool, block>>

\* Mutant of ClearPool: the pending transactions stay.
ClearPoolForgotten ==
  /\ validatorPc = "clear"
  /\ validatorPc' = "wait"
  /\ UNCHANGED <<handlerVars, readerVars, readLocks, memPool, chainVars, block>>

\* memPool.ClearPending, after the block is in the chain.
ClearPool ==
  /\ validatorPc = "clear"
  /\ memPool' = ClearPending(memPool)
  /\ validatorPc' = "wait" /\ block' = None
  /\ UNCHANGED <<handlerVars, readerVars, readLocks, chainVars>>

----------------------------------------------------------------------------

Handle(h) ==
  (\E tx \in Tx : PostTx(h, tx)) \/ WriteRFQTxs(h) \/ ProcessTransaction(h)

Read(r) == (\E n \in 0..MaxHeight : GetBlock(r, n)) \/ RLock(r) \/ ReadBlock(r)

Validate == CreateNewBlock \/ VerifyBlock \/ AddBlock \/ ClearPool

Next ==
  \/ \E h \in Handler : Handle(h)
  \/ \E r \in Reader : Read(r)
  \/ Validate

Spec == Init /\ [][Next]_vars

\* Every goroutine that can take its next step is scheduled, the ticker keeps
\* ticking and the RWMutex admits those who wait; clients owe nothing.
Fairness ==
  /\ \A h \in Handler : WF_vars(WriteRFQTxs(h) \/ ProcessTransaction(h))
  /\ \A r \in Reader : WF_vars(RLock(r) \/ ReadBlock(r))
  /\ WF_vars(Validate)

FairSpec == Spec /\ Fairness

----------------------------------------------------------------------------
(* Properties *)

HashType   == (0..MaxHeight) \X Seq(Tx)
HeaderType == [height : 0..MaxHeight, txHash : Seq(Tx), parent : HashType \cup {None}]
BlockType  == [header : HeaderType, txs : Seq(Tx)]

\* Every variable keeps its type; a reader that reads asked for a height the
\* chain has.
TypeOK ==
  /\ pc \in [Handler -> {"idle", "lock", "submit", "accepted"}]
  /\ body \in [Handler -> Tx \cup {None}]
  /\ \A h \in Handler : pc[h] # "idle" => body[h] \in Tx
  /\ readerPc \in [Reader -> {"idle", "rejected", "rlock", "read", "served", "notFound"}]
  /\ wanted \in [Reader -> 0..MaxHeight]
  /\ \A r \in Reader : readerPc[r] \in {"rlock", "read"} => wanted[r] < Len(headers)
  /\ readLocks \in Int
  /\ memPool.all \in Seq(Tx) /\ memPool.pending \in Seq(Tx)
  /\ DOMAIN memPool = {"all", "pending"}
  /\ headers \in Seq(HeaderType) /\ Len(headers) \in 1..(MaxHeight + 1)
  /\ DOMAIN db \subseteq HashType /\ db \in [DOMAIN db -> BlockType]
  /\ validatorPc \in {"wait", "verify", "lock", "clear"}
  /\ validatorPc # "wait" => block \in BlockType
  /\ validatorPc \in {"verify", "lock"} => Len(headers) <= MaxHeight

\* Each header names the hash its predecessor has NOW, although CreateNewBlock
\* writes through a header that is already in the chain: it only ever writes the
\* head, before anything is linked to it.
ChainLinked ==
  \A i \in 2..Len(headers) : headers[i].parent = HeaderHash(headers[i - 1])

\* No transaction is in two blocks, or twice in one, whatever arrives while the
\* block is built: the pool's `all' outlives ClearPending.  This is so until a
\* full pool forgets its oldest transaction.
CommittedOnce ==
  \A k1, k2 \in DOMAIN db :
    \A i \in 1..Len(db[k1].txs), j \in 1..Len(db[k2].txs) :
      db[k1].txs[i] = db[k2].txs[j] => k1 = k2 /\ i = j

\* A read lock that no reader is going to release.
Leaked == readLocks > Cardinality({r \in Reader : readerPc[r] = "read"})

\* A leaked read lock is never given back, and from then on no block and no
\* POST gets past Blockchain.lock.
LeakIsForever ==
  [][Leaked => /\ Leaked'
               /\ UNCHANGED db
               /\ \A h \in Handler : pc[h] = "lock" => pc'[h] = "lock"]_vars

\* Unless a read lock leaks, every pending transaction leaves the pending pool,
\* and every POST and GET is answered (until the height bound stops the model).
ProgressUnlessLeaked ==
  []~Leaked =>
    /\ \A tx \in Tx : Contains(memPool.pending, tx)
                        ~> (~Contains(memPool.pending, tx) \/ Height = MaxHeight)
    /\ \A h \in Handler : (pc[h] = "lock") ~> (pc[h] = "accepted")
    /\ \A r \in Reader : (readerPc[r] = "rlock") ~> (readerPc[r] = "served")

\* A block can be read by its height, at every moment and while the validator
\* works on the next, unless the next one has no transactions: only then was the
\* hash under which it is stored taken from its header.
ReadableUnlessEmptyFollows ==
  \A i \in 1..Len(headers) :
    \/ HeaderHash(headers[i]) \in DOMAIN db
    \/ IF i < Len(headers) THEN headers[i + 1].txHash = MerkleRoot(<<>>)
                           ELSE validatorPc # "wait" /\ block.txs = <<>>

----------------------------------------------------------------------------
(* What the documents say and the code does not do: TLC refutes these. *)

\* "second := rawdb.ReadBlock(bc.db, bc.headers[1].Hash(), ...)", "NotNil"
\* (core/blockchain_test.go): every header of the chain leads to a stored block.
EveryBlockReadable ==
  \A i \in 1..Len(headers) : HeaderHash(headers[i]) \in DOMAIN db

\* "we submit it to the blockchain to provide a decentralized record"
\* (network/server.go): what the pool has admitted is pending or in a block.
AdmittedIsRecorded ==
  \A i \in 1..Len(memPool.all) :
    \/ Contains(memPool.pending, memPool.all[i])
    \/ \E k \in DOMAIN db : Contains(db[k].txs, memPool.all[i])
=============================================================================
