---------------------------- MODULE ChainProofs ----------------------------
(***************************************************************************)
(* Theorems about the chain and the store it is kept in.                   *)
(*                                                                         *)
(* BlockProduction, for every set of transactions, handlers and readers,   *)
(* every pool size and every height.  PebbleMeter, for any number of       *)
(* overlapping compactions and any length of time.  ByteKeys, for keys and *)
(* prefixes of any length: the ranges of keys handed to the engine.        *)
(***************************************************************************)
EXTENDS BlockProduction, PebbleMeter, ByteKeys, SequenceTheorems, FiniteSetTheorems, TLAPS

----------------------------------------------------------------------------
(* BlockProduction *)

\* The pool's two lists stay sequences of transactions.
LEMMA AddTxType ==
  ASSUME NEW p, p.all \in Seq(Tx), p.pending \in Seq(Tx), NEW tx \in Tx
  PROVE  /\ AddTx(p, tx).all \in Seq(Tx) /\ AddTx(p, tx).pending \in Seq(Tx)
         /\ DOMAIN AddTx(p, tx) = {"all", "pending"}
<1>1. PruneOldest(p.all) \in Seq(Tx)
  <2>1. CASE Len(p.all) = MaxLength
    <3>1. p.all # <<>>
      BY <2>1, MaxLengthAssumption
    <3> QED
      BY <2>1, <3>1, HeadTailProperties DEF PruneOldest
  <2>2. CASE Len(p.all) # MaxLength
    BY <2>2 DEF PruneOldest
  <2> QED
    BY <2>1, <2>2
<1>2. \A s \in Seq(Tx) : SortedMapAdd(s, tx) \in Seq(Tx)
  BY DEF SortedMapAdd
<1> QED
  BY <1>1, <1>2 DEF AddTx, AddToAll

\* The hash of a header is a key of the store.
LEMMA HeaderHashType ==
  ASSUME NEW h \in HeaderType
  PROVE  HeaderHash(h) \in HashType
BY DEF HeaderHash, HeaderType, HashType

\* What CreateNewBlock does to the header it builds on, and the block it makes.
LEMMA BuildEffect ==
  ASSUME TypeOK, NEW i \in 1..Len(headers), BuildOn(i)
  PROVE  /\ Len(headers') = Len(headers)
         /\ \A j \in 1..Len(headers) :
              /\ headers'[j].height = headers[j].height
              /\ headers'[j].parent = headers[j].parent
              /\ j # i => headers'[j] = headers[j]
         /\ headers' \in Seq(HeaderType)
         /\ block'.header.parent = HeaderHash(headers'[i])
         /\ block'.header.height = headers[i].height + 1
         /\ block'.header.txHash = memPool.pending
         /\ block'.txs = memPool.pending
         /\ DOMAIN block' = {"header", "txs"}
         /\ DOMAIN block'.header = {"height", "txHash", "parent"}
<1> DEFINE prev == IF memPool.pending = <<>>
                   THEN [headers[i] EXCEPT !.txHash = MerkleRoot(<<>>)] ELSE headers[i]
<1>1. headers \in Seq(HeaderType) /\ Len(headers) \in Nat
  BY LenProperties DEF TypeOK
<1>2. headers[i] \in HeaderType
  BY <1>1, ElementOfSeq
<1>3. <<>> \in Seq(Tx)
  BY EmptySeq
<1>4. /\ prev \in HeaderType /\ prev.height = headers[i].height
      /\ prev.parent = headers[i].parent
  BY <1>2, <1>3 DEF HeaderType, MerkleRoot
<1>5. /\ headers' = [headers EXCEPT ![i] = prev]
      /\ block' = NewBlockFromPrevHeader(prev, memPool.pending)
  BY DEF BuildOn
<1> HIDE DEF prev
<1>6. /\ Len(headers') = Len(headers) /\ headers' \in Seq(HeaderType)
      /\ \A j \in 1..Len(headers) : headers'[j] = IF j = i THEN prev ELSE headers[j]
  BY <1>1, <1>4, <1>5
<1>7. /\ block'.header.parent = HeaderHash(prev)
      /\ block'.header.height = prev.height + 1
      /\ block'.header.txHash = memPool.pending /\ block'.txs = memPool.pending
      /\ DOMAIN block' = {"header", "txs"}
      /\ DOMAIN block'.header = {"height", "txHash", "parent"}
  BY <1>5 DEF NewBlockFromPrevHeader, MerkleRoot
<1> QED
  BY <1>4, <1>6, <1>7

----------------------------------------------------------------------------
(* The chain in memory is linked *)

\* headers[i] has height i - 1, headers are linked, and the block on its way to
\* the chain is linked to the chain's head.
ChainInv ==
  /\ \A i \in 1..Len(headers) : headers[i].height = i - 1
  /\ ChainLinked
  /\ validatorPc \in {"verify", "lock"} =>
       /\ block.header.height = Len(headers)
       /\ block.header.parent = HeaderHash(headers[Len(headers)])

\* A node that has just written its genesis block is well typed.
LEMMA InitInv == Init => TypeOK /\ ChainInv
<1> SUFFICES ASSUME Init PROVE TypeOK /\ ChainInv
  OBVIOUS
<1>1. GenesisHeader \in HeaderType /\ GenesisHeader.height = 0
  BY MaxHeightAssumption, EmptySeq DEF GenesisHeader, HeaderType, MerkleRoot
<1>2. /\ headers = <<GenesisHeader>> /\ headers \in Seq(HeaderType)
      /\ Len(headers) = 1 /\ headers[1] = GenesisHeader
  BY <1>1 DEF Init
<1>3. DOMAIN db \subseteq HashType /\ db \in [DOMAIN db -> BlockType]
  BY <1>1, HeaderHashType, EmptySeq DEF Init, BlockType
<1>4. /\ memPool.all \in Seq(Tx) /\ memPool.pending \in Seq(Tx)
      /\ DOMAIN memPool = {"all", "pending"}
  BY EmptySeq DEF Init, NewTxPool
<1>5. TypeOK
  BY <1>2, <1>3, <1>4, MaxHeightAssumption DEF Init, TypeOK
<1>6. ChainInv
  BY <1>1, <1>2 DEF Init, ChainInv, ChainLinked
<1> QED
  BY <1>5, <1>6

\* A step of a handler or a reader leaves the chain and the validator alone.
LEMMA ClientsLeaveChain ==
  ASSUME \/ \E h \in Handler : Handle(h)
         \/ \E r \in Reader : Read(r)
  PROVE  UNCHANGED <<headers, db, validatorPc, block>>
BY DEF Handle, PostTx, WriteRFQTxs, ProcessTransaction, Read, GetBlock, RLock,
       ReadBlock, chainVars, validatorVars

\* Every step of every goroutine keeps the types.
LEMMA NextTypeOK == TypeOK /\ ChainInv /\ [Next]_vars => TypeOK'
<1> SUFFICES ASSUME TypeOK, ChainInv, [Next]_vars
             PROVE  TypeOK'
  OBVIOUS
<1>1. ASSUME NEW h \in Handler, Handle(h)
      PROVE  TypeOK'
  <2>1. UNCHANGED <<headers, db, validatorPc, block, readerPc, wanted, readLocks>>
    BY <1>1 DEF Handle, PostTx, WriteRFQTxs, ProcessTransaction, chainVars,
                validatorVars, readerVars
  <2>2. /\ pc' \in [Handler -> {"idle", "lock", "submit", "accepted"}]
        /\ body' \in [Handler -> Tx \cup {None}]
        /\ \A g \in Handler : pc'[g] # "idle" => body'[g] \in Tx
    <3>1. /\ pc \in [Handler -> {"idle", "lock", "submit", "accepted"}]
          /\ body \in [Handler -> Tx \cup {None}]
          /\ \A g \in Handler : pc[g] # "idle" => body[g] \in Tx
      BY DEF TypeOK
    <3>2. CASE \E tx \in Tx : PostTx(h, tx)
      <4>1. PICK tx \in Tx : pc' = [pc EXCEPT ![h] = "lock"]
                             /\ body' = [body EXCEPT ![h] = tx]
        BY <3>2 DEF PostTx
      <4> QED
        BY <3>1, <4>1
    <3>3. CASE WriteRFQTxs(h)
      <4>1. pc[h] = "lock" /\ pc' = [pc EXCEPT ![h] = "submit"] /\ body' = body
        BY <3>3 DEF WriteRFQTxs
      <4> QED
        BY <3>1, <4>1
    <3>4. CASE ProcessTransaction(h)
      <4>1. pc[h] = "submit" /\ pc' = [pc EXCEPT ![h] = "accepted"] /\ body' = body
        BY <3>4 DEF ProcessTransaction
      <4> QED
        BY <3>1, <4>1
    <3> QED
      BY <1>1, <3>2, <3>3, <3>4 DEF Handle
  <2>3. /\ memPool'.all \in Seq(Tx) /\ memPool'.pending \in Seq(Tx)
        /\ DOMAIN memPool' = {"all", "pending"}
    <3>1. CASE UNCHANGED memPool
      BY <3>1 DEF TypeOK
    <3>2. CASE ~ UNCHANGED memPool
      <4>1. memPool' = AddTx(memPool, body[h]) /\ pc[h] = "submit"
        BY <1>1, <3>2 DEF Handle, PostTx, WriteRFQTxs, ProcessTransaction
      <4> QED
        BY <4>1, AddTxType DEF TypeOK
    <3> QED
      BY <3>1, <3>2
  <2> QED
    BY <2>1, <2>2, <2>3 DEF TypeOK
<1>2. ASSUME NEW r \in Reader, Read(r)
      PROVE  TypeOK'
  <2>1. UNCHANGED <<headers, db, validatorPc, block, pc, body, memPool>>
    BY <1>2 DEF Read, GetBlock, RLock, ReadBlock, chainVars, validatorVars, handlerVars
  <2>2. Len(headers) \in Nat
    BY LenProperties DEF TypeOK
  <2> DEFINE ReaderOK ==
        /\ readerPc' \in [Reader -> {"idle", "rejected", "rlock", "read", "served", "notFound"}]
        /\ wanted' \in [Reader -> 0..MaxHeight]
        /\ \A s \in Reader : readerPc'[s] \in {"rlock", "read"} => wanted'[s] < Len(headers)
        /\ readLocks' \in Int
  <2>3. ReaderOK
    <3>1. ASSUME NEW n \in 0..MaxHeight, GetBlock(r, n)
          PROVE  ReaderOK
      <4>1. /\ wanted' = [wanted EXCEPT ![r] = n]
            /\ readLocks' = readLocks
            /\ \/ /\ n < Len(headers)
                  /\ readerPc' = [readerPc EXCEPT ![r] = "rlock"]
               \/ readerPc' = [readerPc EXCEPT ![r] = "rejected"]
        <5>1. CASE n > Height
          BY <3>1, <5>1 DEF GetBlock
        <5>2. CASE ~ (n > Height)
          <6>1. n < Len(headers)
            BY <2>2, <5>2, MaxHeightAssumption DEF Height
          <6> QED
            BY <3>1, <5>2, <6>1 DEF GetBlock
        <5> QED
          BY <5>1, <5>2
      <4> QED
        BY <4>1 DEF TypeOK
    <3>2. CASE RLock(r)
      BY <3>2 DEF RLock, TypeOK
    <3>3. CASE ReadBlock(r)
      <4>1. /\ readLocks' \in {readLocks, readLocks - 1} /\ wanted' = wanted
            /\ \/ readerPc' = [readerPc EXCEPT ![r] = "served"]
               \/ readerPc' = [readerPc EXCEPT ![r] = "notFound"]
        BY <3>3 DEF ReadBlock
      <4>2. readLocks' \in Int
        BY <4>1 DEF TypeOK
      <4>3. CASE readerPc' = [readerPc EXCEPT ![r] = "served"]
        BY <4>1, <4>2, <4>3 DEF TypeOK
      <4>4. CASE readerPc' = [readerPc EXCEPT ![r] = "notFound"]
        BY <4>1, <4>2, <4>4 DEF TypeOK
      <4> QED
        BY <4>1, <4>3, <4>4
    <3> QED
      BY <1>2, <3>1, <3>2, <3>3 DEF Read
  <2> QED
    BY <2>1, <2>3 DEF TypeOK
<1>3. CASE CreateNewBlock
  <2>1. /\ BuildOn(Len(headers)) /\ validatorPc' = "verify" /\ Len(headers) <= MaxHeight
        /\ Len(headers) \in 1..Len(headers) /\ Len(headers) \in Nat
        /\ UNCHANGED <<pc, body, readerPc, wanted, readLocks, memPool, db>>
    BY <1>3, LenProperties, MaxHeightAssumption
       DEF CreateNewBlock, Height, TypeOK, handlerVars, readerVars
  <2>2. headers' \in Seq(HeaderType) /\ Len(headers') = Len(headers)
    BY <2>1, BuildEffect
  <2>3. HeaderHash(headers'[Len(headers)]) \in HashType
    BY <2>1, <2>2, ElementOfSeq, HeaderHashType
  <2>4. headers[Len(headers)].height + 1 \in 0..MaxHeight
    BY <2>1 DEF ChainInv
  <2>5. block' \in BlockType
    <3>1. /\ block'.header.parent \in HashType /\ block'.header.height \in 0..MaxHeight
          /\ block'.header.txHash \in Seq(Tx) /\ block'.txs \in Seq(Tx)
      BY <2>1, <2>3, <2>4, BuildEffect DEF TypeOK
    <3>2. block' = [header |-> [height |-> block'.header.height,
                                txHash |-> block'.header.txHash,
                                parent |-> block'.header.parent],
                    txs |-> block'.txs]
      BY <2>1 DEF BuildOn, NewBlockFromPrevHeader
    <3> QED
      BY <3>1, <3>2 DEF BlockType, HeaderType
  <2> QED
    BY <2>1, <2>2, <2>5 DEF TypeOK
<1>4. CASE VerifyBlock
  BY <1>4 DEF TypeOK, VerifyBlock, handlerVars, readerVars, chainVars
<1>5. CASE AddBlock
  <2>1. /\ block \in BlockType /\ Len(headers) <= MaxHeight
        /\ headers' = Append(headers, block.header) /\ WriteBlock(block)
        /\ validatorPc' = "clear"
        /\ UNCHANGED <<pc, body, readerPc, wanted, readLocks, memPool, block>>
    BY <1>5 DEF TypeOK, AddBlock, handlerVars, readerVars
  <2>2. block.header \in HeaderType
    BY <2>1 DEF BlockType
  <2>3. headers' \in Seq(HeaderType) /\ Len(headers') = Len(headers) + 1 /\ Len(headers) \in Nat
    BY <2>1, <2>2, LenProperties, AppendProperties DEF TypeOK
  <2>4. DOMAIN db' \subseteq HashType /\ db' \in [DOMAIN db' -> BlockType]
    BY <2>1, <2>2, HeaderHashType DEF TypeOK, WriteBlock
  <2>5. Len(headers') \in 1..(MaxHeight + 1)
    BY <2>1, <2>3, MaxHeightAssumption
  <2>6. \A r \in Reader : readerPc[r] \in {"rlock", "read"} => wanted[r] < Len(headers')
    BY <2>3, MaxHeightAssumption DEF TypeOK
  <2> QED
    BY <2>1, <2>3, <2>4, <2>5, <2>6 DEF TypeOK
<1>6. CASE ClearPool
  <2>1. /\ memPool'.all \in Seq(Tx) /\ memPool'.pending \in Seq(Tx)
        /\ DOMAIN memPool' = {"all", "pending"}
    BY <1>6, EmptySeq DEF TypeOK, ClearPool, ClearPending
  <2> QED
    BY <1>6, <2>1 DEF TypeOK, ClearPool, handlerVars, readerVars, chainVars
<1>7. CASE UNCHANGED vars
  BY <1>7 DEF TypeOK, vars, handlerVars, readerVars, chainVars, validatorVars
<1> QED
  BY <1>1, <1>2, <1>3, <1>4, <1>5, <1>6, <1>7 DEF Next, Validate

\* Every step keeps the chain linked.
LEMMA NextChainInv == TypeOK /\ ChainInv /\ [Next]_vars => ChainInv'
<1> SUFFICES ASSUME TypeOK, ChainInv, [Next]_vars
             PROVE  ChainInv'
  OBVIOUS
<1>0. /\ headers \in Seq(HeaderType) /\ Len(headers) \in Nat
      /\ Len(headers) \in 1..Len(headers)
  BY LenProperties DEF TypeOK
<1>1. CASE UNCHANGED <<headers, validatorPc, block>>
  BY <1>1 DEF ChainInv, ChainLinked
<1>2. CASE CreateNewBlock
  <2>1. BuildOn(Len(headers)) /\ validatorPc' = "verify"
    BY <1>2 DEF CreateNewBlock
  <2>2. \A i \in 1..Len(headers') : headers'[i].height = i - 1
    BY <1>0, <2>1, BuildEffect DEF ChainInv
  <2>3. ASSUME NEW i \in 2..Len(headers')
        PROVE  headers'[i].parent = HeaderHash(headers'[i - 1])
    <3>1. /\ i \in 1..Len(headers) /\ i - 1 \in 1..Len(headers)
          /\ i - 1 # Len(headers) /\ i \in 2..Len(headers)
      BY <1>0, <2>1, BuildEffect
    <3>2. headers'[i].parent = headers[i].parent /\ headers'[i - 1] = headers[i - 1]
      BY <1>0, <2>1, <3>1, BuildEffect
    <3> QED
      BY <3>1, <3>2 DEF ChainInv, ChainLinked
  <2>4. /\ block'.header.height = Len(headers')
        /\ block'.header.parent = HeaderHash(headers'[Len(headers')])
    BY <1>0, <2>1, BuildEffect DEF ChainInv
  <2> QED
    BY <2>2, <2>3, <2>4 DEF ChainInv, ChainLinked
<1>3. CASE VerifyBlock
  BY <1>3 DEF VerifyBlock, ChainInv, ChainLinked, chainVars
<1>4. CASE AddBlock
  <2>1. /\ headers' = Append(headers, block.header) /\ validatorPc' = "clear"
        /\ block.header \in HeaderType
        /\ block.header.height = Len(headers)
        /\ block.header.parent = HeaderHash(headers[Len(headers)])
    BY <1>4 DEF AddBlock, ChainInv, TypeOK, BlockType
  <2>2. /\ Len(headers') = Len(headers) + 1 /\ headers'[Len(headers) + 1] = block.header
        /\ \A i \in 1..Len(headers) : headers'[i] = headers[i]
    BY <1>0, <2>1
  <2>3. \A i \in 1..Len(headers') : headers'[i].height = i - 1
    BY <1>0, <2>1, <2>2 DEF ChainInv
  <2>4. \A i \in 2..Len(headers') : headers'[i].parent = HeaderHash(headers'[i - 1])
    BY <1>0, <2>1, <2>2 DEF ChainInv, ChainLinked
  <2> QED
    BY <2>1, <2>3, <2>4 DEF ChainInv, ChainLinked
<1>5. CASE ClearPool
  BY <1>5 DEF ClearPool, ChainInv, ChainLinked, chainVars
<1> QED
  BY <1>1, <1>2, <1>3, <1>4, <1>5, ClientsLeaveChain
     DEF Next, Validate, vars, chainVars, validatorVars

\* Types, with the heights they depend on.
THEOREM TypeCorrect == Spec => []TypeOK
<1>1. Spec => [](TypeOK /\ ChainInv)
  BY InitInv, NextTypeOK, NextChainInv, PTL DEF Spec
<1> QED
  BY <1>1, PTL

\* However handlers, readers and the validator interleave, each header in
\* memory names its predecessor's present hash.
THEOREM ChainStaysLinked == Spec => []ChainLinked
<1>1. Spec => [](TypeOK /\ ChainInv)
  BY InitInv, NextTypeOK, NextChainInv, PTL DEF Spec
<1>2. ChainInv => ChainLinked
  BY DEF ChainInv
<1> QED
  BY <1>1, <1>2, PTL

----------------------------------------------------------------------------
(* A block stays readable unless an empty one follows *)

\* The block under construction carries the root of its own transactions, and a
\* block that was just added is stored under the hash of the chain's head.
ReadInv ==
  /\ ReadableUnlessEmptyFollows
  /\ validatorPc \in {"verify", "lock"} => block.header.txHash = block.txs
  /\ validatorPc = "clear" => HeaderHash(headers[Len(headers)]) \in DOMAIN db

LEMMA InitReadInv == Init => ReadInv
<1> SUFFICES ASSUME Init PROVE ReadInv
  OBVIOUS
<1>1. Len(headers) = 1 /\ headers[1] = GenesisHeader /\ HeaderHash(GenesisHeader) \in DOMAIN db
  BY DEF Init
<1>2. ReadableUnlessEmptyFollows
  BY <1>1 DEF ReadableUnlessEmptyFollows
<1> QED
  BY <1>2 DEF Init, ReadInv

\* The validator's own block always passes ValidateBlock.
LEMMA OwnBlockIsValid ==
  ASSUME TypeOK, ChainInv, ReadInv, validatorPc = "verify"
  PROVE  ValidateBlock(block)
<1>1. Len(headers) \in Nat
  BY LenProperties DEF TypeOK
<1> QED
  BY <1>1 DEF ValidateBlock, HasBlock, Height, ChainInv, ReadInv, MerkleRoot

\* Every step keeps what can be read readable, but for the parent of an empty
\* block.
LEMMA NextReadInv == TypeOK /\ ChainInv /\ ReadInv /\ [Next]_vars => ReadInv'
<1> SUFFICES ASSUME TypeOK, ChainInv, ReadInv, [Next]_vars
             PROVE  ReadInv'
  OBVIOUS
<1>0. /\ headers \in Seq(HeaderType) /\ Len(headers) \in Nat
      /\ Len(headers) \in 1..Len(headers)
  BY LenProperties DEF TypeOK
<1>1. CASE UNCHANGED <<headers, db, validatorPc, block>>
  BY <1>1 DEF ReadInv, ReadableUnlessEmptyFollows
<1>2. CASE CreateNewBlock
  <2>1. /\ validatorPc = "wait" /\ validatorPc' = "verify" /\ db' = db
        /\ BuildOn(Len(headers))
    BY <1>2 DEF CreateNewBlock
  <2>2. block'.txs = memPool.pending /\ block'.header.txHash = memPool.pending
    BY <1>0, <2>1, BuildEffect
  <2>3. /\ Len(headers') = Len(headers)
        /\ \A i \in 1..Len(headers) : i # Len(headers) => headers'[i] = headers[i]
    BY <1>0, <2>1, BuildEffect
  <2>4. CASE memPool.pending # <<>>
    <3>1. headers' = headers
      BY <1>0, <2>1, <2>4 DEF BuildOn
    <3> QED
      BY <2>1, <2>2, <3>1 DEF ReadInv, ReadableUnlessEmptyFollows
  <2>5. CASE memPool.pending = <<>>
    <3>1. headers'[Len(headers)].txHash = MerkleRoot(<<>>)
      <4>1. headers' = [headers EXCEPT ![Len(headers)] =
                          [headers[Len(headers)] EXCEPT !.txHash = MerkleRoot(<<>>)]]
        BY <2>1, <2>5 DEF BuildOn
      <4>2. headers[Len(headers)] \in HeaderType
        BY <1>0, ElementOfSeq
      <4> QED
        BY <1>0, <4>1, <4>2 DEF HeaderType
    <3>2. ASSUME NEW i \in 1..Len(headers')
          PROVE  \/ HeaderHash(headers'[i]) \in DOMAIN db'
                 \/ IF i < Len(headers') THEN headers'[i + 1].txHash = MerkleRoot(<<>>)
                    ELSE validatorPc' # "wait" /\ block'.txs = <<>>
      <4>1. CASE i = Len(headers)
        BY <1>0, <2>1, <2>2, <2>3, <2>5, <4>1
      <4>2. CASE i # Len(headers)
        <5>1. i < Len(headers) /\ i + 1 \in 1..Len(headers) /\ headers'[i] = headers[i]
          BY <1>0, <2>3, <4>2
        <5>2. HeaderHash(headers[i]) \in DOMAIN db \/ headers[i + 1].txHash = MerkleRoot(<<>>)
          BY <1>0, <5>1 DEF ReadInv, ReadableUnlessEmptyFollows
        <5>3. headers'[i + 1].txHash \in {headers[i + 1].txHash, MerkleRoot(<<>>)}
          BY <2>3, <3>1, <5>1
        <5> QED
          BY <2>1, <2>3, <5>1, <5>2, <5>3
      <4> QED
        BY <4>1, <4>2
    <3> QED
      BY <2>1, <2>2, <3>2 DEF ReadInv, ReadableUnlessEmptyFollows
  <2> QED
    BY <2>4, <2>5
<1>3. CASE VerifyBlock
  <2>1. validatorPc = "verify" /\ validatorPc' = "lock" /\ UNCHANGED <<headers, db, block>>
    BY <1>3, OwnBlockIsValid DEF VerifyBlock, chainVars
  <2> QED
    BY <2>1 DEF ReadInv, ReadableUnlessEmptyFollows
<1>4. CASE AddBlock
  <2>1. /\ headers' = Append(headers, block.header) /\ validatorPc' = "clear"
        /\ block.header \in HeaderType /\ block.header.txHash = block.txs
        /\ DOMAIN db' = DOMAIN db \cup {HeaderHash(block.header)}
    BY <1>4 DEF AddBlock, WriteBlock, ReadInv, TypeOK, BlockType
  <2>2. /\ Len(headers') = Len(headers) + 1 /\ headers'[Len(headers) + 1] = block.header
        /\ \A i \in 1..Len(headers) : headers'[i] = headers[i]
    BY <1>0, <2>1
  <2>3. ASSUME NEW i \in 1..Len(headers')
        PROVE  \/ HeaderHash(headers'[i]) \in DOMAIN db'
               \/ i < Len(headers') /\ headers'[i + 1].txHash = MerkleRoot(<<>>)
    <3>1. CASE i = Len(headers) + 1
      BY <2>1, <2>2, <3>1
    <3>2. CASE i = Len(headers)
      BY <1>0, <2>1, <2>2, <3>2 DEF ReadInv, ReadableUnlessEmptyFollows, MerkleRoot
    <3>3. CASE i \notin {Len(headers), Len(headers) + 1}
      <4>1. i \in 1..Len(headers) /\ i < Len(headers) /\ i + 1 \in 1..Len(headers)
        BY <1>0, <2>2, <3>3
      <4>2. HeaderHash(headers[i]) \in DOMAIN db \/ headers[i + 1].txHash = MerkleRoot(<<>>)
        BY <4>1 DEF ReadInv, ReadableUnlessEmptyFollows
      <4> QED
        BY <1>0, <2>1, <2>2, <4>1, <4>2
    <3> QED
      BY <3>1, <3>2, <3>3
  <2>4. ReadableUnlessEmptyFollows'
    BY <2>3 DEF ReadableUnlessEmptyFollows
  <2> QED
    BY <1>0, <2>1, <2>2, <2>4 DEF ReadInv
<1>5. CASE ClearPool
  <2>1. validatorPc = "clear" /\ validatorPc' = "wait" /\ UNCHANGED <<headers, db>>
    BY <1>5 DEF ClearPool, chainVars
  <2>2. ReadableUnlessEmptyFollows'
    BY <1>0, <2>1 DEF ReadInv, ReadableUnlessEmptyFollows
  <2> QED
    BY <2>1, <2>2 DEF ReadInv
<1> QED
  BY <1>1, <1>2, <1>3, <1>4, <1>5, ClientsLeaveChain
     DEF Next, Validate, vars, chainVars, validatorVars

\* Writing through the chain's head makes a block unreadable only when the next
\* block is empty, for any number of clients and blocks.
THEOREM BlocksStayReadable == Spec => []ReadableUnlessEmptyFollows
<1>1. Spec => [](TypeOK /\ ChainInv /\ ReadInv)
  BY InitInv, InitReadInv, NextTypeOK, NextChainInv, NextReadInv, PTL DEF Spec
<1>2. ReadInv => ReadableUnlessEmptyFollows
  BY DEF ReadInv
<1> QED
  BY <1>1, <1>2, PTL

----------------------------------------------------------------------------
(* A leaked read lock is never given back *)

Reading == {r \in Reader : readerPc[r] = "read"}

\* The readers that read are finitely many.
LEMMA ReadingFinite == IsFiniteSet(Reading) /\ Cardinality(Reading) \in Nat
<1>1. Reading \subseteq Reader
  BY DEF Reading
<1> QED
  BY <1>1, ReaderAssumption, FS_Subset, FS_CardinalityType

\* A step that starts from a leaked lock ends with one.
LEMMA LeakStep ==
  ASSUME TypeOK, [Next]_vars, Leaked
  PROVE  /\ Leaked' /\ UNCHANGED db
         /\ \A h \in Handler : pc[h] = "lock" => pc'[h] = "lock"
<1>1. readLocks > Cardinality(Reading) /\ readLocks \in Int
  BY DEF Leaked, Reading, TypeOK
<1>2. ~ CanLock
  BY <1>1, ReadingFinite DEF CanLock
<1>3. /\ UNCHANGED db
      /\ \A h \in Handler : pc[h] = "lock" => pc'[h] = "lock"
  BY <1>2 DEF TypeOK, Next, Handle, PostTx, WriteRFQTxs, ProcessTransaction, Read,
              GetBlock, RLock, ReadBlock, Validate, CreateNewBlock, VerifyBlock,
              AddBlock, ClearPool, handlerVars, chainVars, vars
<1>4. readLocks' > Cardinality(Reading')
  <2>1. CASE UNCHANGED <<readerPc, readLocks>>
    BY <1>1, <2>1 DEF Reading
  <2>2. ASSUME NEW r \in Reader, NEW n, GetBlock(r, n)
        PROVE  readLocks' > Cardinality(Reading')
    <3>1. Reading' = Reading /\ readLocks' = readLocks
      BY <2>2 DEF GetBlock, Reading, TypeOK
    <3> QED
      BY <1>1, <3>1
  <2>3. ASSUME NEW r \in Reader, RLock(r)
        PROVE  readLocks' > Cardinality(Reading')
    <3>1. Reading' = Reading \cup {r} /\ r \notin Reading /\ readLocks' = readLocks + 1
      BY <2>3 DEF RLock, Reading, TypeOK
    <3>2. Cardinality(Reading \cup {r}) = Cardinality(Reading) + 1
      BY <3>1, ReadingFinite, FS_AddElement
    <3> QED
      BY <1>1, <3>1, <3>2, ReadingFinite
  <2>4. ASSUME NEW r \in Reader, ReadBlock(r)
        PROVE  readLocks' > Cardinality(Reading')
    <3>1. /\ Reading' = Reading \ {r} /\ r \in Reading
          /\ readLocks' \in {readLocks, readLocks - 1}
      BY <2>4 DEF ReadBlock, Reading, TypeOK
    <3>2. Cardinality(Reading \ {r}) = Cardinality(Reading) - 1
      BY <3>1, ReadingFinite, FS_RemoveElement
    <3> QED
      BY <1>1, <3>1, <3>2, ReadingFinite
  <2>5. \/ UNCHANGED <<readerPc, readLocks>>
        \/ \E r \in Reader : Read(r)
    BY DEF Next, Handle, PostTx, WriteRFQTxs, ProcessTransaction, Validate,
           CreateNewBlock, VerifyBlock, AddBlock, ClearPool, readerVars, vars
  <2> QED
    BY <2>1, <2>2, <2>3, <2>4, <2>5 DEF Read
<1> QED
  BY <1>3, <1>4 DEF Leaked, Reading

\* Once GetBlock has returned early with its read lock, the validator and every
\* POST wait for Blockchain.lock for ever.
THEOREM LeakNeverEnds == Spec => LeakIsForever
<1>1. TypeOK /\ [Next]_vars =>
        [Leaked => /\ Leaked'
                   /\ UNCHANGED db
                   /\ \A h \in Handler : pc[h] = "lock" => pc'[h] = "lock"]_vars
  BY LeakStep
<1> QED
  BY <1>1, TypeCorrect, PTL DEF Spec, LeakIsForever

----------------------------------------------------------------------------
(* A transaction is committed once *)

\* The pool has never been full, so that it has never forgotten a transaction.
PoolHasRoom == Len(memPool.all) < MaxLength

\* What is pending or in a block is remembered; what is in a block is pending
\* only until the pool is cleared; and the block that is built is a beginning of
\* what is pending.
CommitInv ==
  /\ \A i, j \in 1..Len(memPool.pending) : memPool.pending[i] = memPool.pending[j] => i = j
  /\ \A i \in 1..Len(memPool.pending) : Contains(memPool.all, memPool.pending[i])
  /\ \A k \in DOMAIN db : \A i \in 1..Len(db[k].txs) :
       /\ Contains(memPool.all, db[k].txs[i])
       /\ validatorPc # "clear" => ~ Contains(memPool.pending, db[k].txs[i])
  /\ validatorPc \in {"verify", "lock"} =>
       /\ Len(block.txs) <= Len(memPool.pending)
       /\ \A i \in 1..Len(block.txs) : block.txs[i] = memPool.pending[i]
  /\ CommittedOnce

LEMMA InitCommitInv == Init => CommitInv
<1> SUFFICES ASSUME Init PROVE CommitInv
  OBVIOUS
<1>1. memPool.pending = <<>> /\ validatorPc = "wait" /\ \A k \in DOMAIN db : db[k].txs = <<>>
  BY DEF Init, NewTxPool
<1>2. Len(memPool.pending) = 0 /\ \A k \in DOMAIN db : Len(db[k].txs) = 0
  BY <1>1
<1>3. QED
  BY <1>1, <1>2 DEF CommitInv, CommittedOnce

\* TxPool.Add to a pool with room.
LEMMA RoomEffect ==
  ASSUME NEW p, p.all \in Seq(Tx), p.pending \in Seq(Tx), Len(p.all) < MaxLength,
         NEW tx \in Tx, ~ Contains(p.all, tx),
         \A i \in 1..Len(p.pending) : Contains(p.all, p.pending[i])
  PROVE  AddTx(p, tx).all = Append(p.all, tx) /\ AddTx(p, tx).pending = Append(p.pending, tx)
<1>1. PruneOldest(p.all) = p.all
  BY DEF PruneOldest
<1>2. ~ Contains(p.pending, tx)
  BY DEF Contains
<1>3. QED
  BY <1>1, <1>2, Zenon DEF AddTx, AddToAll, SortedMapAdd

LEMMA AppendContains ==
  ASSUME NEW s \in Seq(Tx), NEW tx \in Tx
  PROVE  /\ \A x : Contains(Append(s, tx), x) <=> Contains(s, x) \/ x = tx
         /\ Len(Append(s, tx)) = Len(s) + 1 /\ Append(s, tx)[Len(s) + 1] = tx
         /\ \A i \in 1..Len(s) : Append(s, tx)[i] = s[i]
<1>1. /\ Len(Append(s, tx)) = Len(s) + 1 /\ Append(s, tx)[Len(s) + 1] = tx
      /\ \A i \in 1..Len(s) : Append(s, tx)[i] = s[i]
  BY AppendProperties
<1>2. Len(s) \in Nat
  BY LenProperties
<1>3. QED
  BY <1>1, <1>2 DEF Contains

\* A transaction that was never admitted is added at the end of both lists.
LEMMA AdmitCommitInv ==
  ASSUME TypeOK, PoolHasRoom, CommitInv, NEW tx \in Tx, ~ Contains(memPool.all, tx),
         memPool' = AddTx(memPool, tx), UNCHANGED <<db, validatorPc, block>>
  PROVE  CommitInv'
<1>1. PICK a \in Seq(Tx), p \in Seq(Tx) : a = memPool.all /\ p = memPool.pending
  BY DEF TypeOK
<1>2. memPool'.all = Append(a, tx) /\ memPool'.pending = Append(p, tx)
  BY <1>1, RoomEffect DEF PoolHasRoom, CommitInv
<1>3. Len(p) \in Nat /\ \A i \in 1..Len(p) : Contains(a, p[i])
  BY <1>1, LenProperties DEF CommitInv
<1>4. PICK a2, p2 : a2 = Append(a, tx) /\ p2 = Append(p, tx)
  BY Zenon
<1>5. /\ \A x : Contains(a2, x) <=> Contains(a, x) \/ x = tx
      /\ \A x : Contains(p2, x) <=> Contains(p, x) \/ x = tx
      /\ Len(p2) = Len(p) + 1 /\ p2[Len(p) + 1] = tx /\ \A i \in 1..Len(p) : p2[i] = p[i]
  BY <1>4, AppendContains
<1>6. ~ Contains(a, tx)
  BY <1>1
<1>7. \A i, j \in 1..Len(p2) : p2[i] = p2[j] => i = j
  BY <1>1, <1>3, <1>5, <1>6 DEF CommitInv
<1>8. \A i \in 1..Len(p2) : Contains(a2, p2[i])
  BY <1>3, <1>5
<1>9. \A k \in DOMAIN db : \A i \in 1..Len(db[k].txs) :
        /\ Contains(a2, db[k].txs[i])
        /\ validatorPc # "clear" => ~ Contains(p2, db[k].txs[i])
  BY <1>1, <1>5, <1>6 DEF CommitInv
<1>10. validatorPc \in {"verify", "lock"} =>
         Len(block.txs) <= Len(p2) /\ \A i \in 1..Len(block.txs) : block.txs[i] = p2[i]
  <2>1. SUFFICES ASSUME validatorPc \in {"verify", "lock"}
                 PROVE  Len(block.txs) <= Len(p2) /\ \A i \in 1..Len(block.txs) : block.txs[i] = p2[i]
    OBVIOUS
  <2>2. /\ Len(block.txs) \in Nat /\ Len(block.txs) <= Len(p)
        /\ \A i \in 1..Len(block.txs) : block.txs[i] = p[i]
    BY <1>1, <2>1, LenProperties DEF CommitInv, TypeOK, BlockType
  <2>3. QED
    BY <1>3, <1>5, <2>2
<1>11. memPool'.all = a2 /\ memPool'.pending = p2
  BY <1>2, <1>4
<1>12. CommittedOnce'
  BY DEF CommitInv, CommittedOnce
<1>13. QED
  BY <1>7, <1>8, <1>9, <1>10, <1>11, <1>12 DEF CommitInv

\* The transactions of the new block are pending, and those of the others not.
LEMMA AddBlockCommitInv ==
  ASSUME TypeOK, CommitInv, AddBlock PROVE CommitInv'
<1>0. validatorPc = "lock" /\ block \in BlockType
  BY DEF AddBlock, TypeOK
<1>1. PICK b, key : b = block /\ key = HeaderHash(block.header) /\ b \in BlockType
                    /\ validatorPc = "lock"
  BY <1>0, Zenon
<1>2. /\ DOMAIN db' = DOMAIN db \cup {key} /\ db'[key] = b
      /\ \A k \in DOMAIN db : k # key => db'[k] = db[k]
      /\ validatorPc' = "clear" /\ UNCHANGED <<memPool, block>>
  BY <1>1 DEF AddBlock, WriteBlock
<1>3. PICK p \in Seq(Tx) : p = memPool.pending
  BY DEF TypeOK
<1>4. /\ Len(p) \in Nat /\ Len(b.txs) \in Nat /\ Len(b.txs) <= Len(p)
      /\ \A i \in 1..Len(b.txs) : b.txs[i] = p[i]
      /\ \A i, j \in 1..Len(p) : p[i] = p[j] => i = j
      /\ \A i \in 1..Len(p) : Contains(memPool.all, p[i])
  BY <1>1, <1>3, LenProperties DEF CommitInv, BlockType
<1>5. /\ \A i, j \in 1..Len(b.txs) : b.txs[i] = b.txs[j] => i = j
      /\ \A i \in 1..Len(b.txs) : Contains(memPool.all, b.txs[i]) /\ Contains(p, b.txs[i])
  <2>1. 1..Len(b.txs) \subseteq 1..Len(p)
    BY <1>4
  <2>2. \A i, j \in 1..Len(b.txs) : b.txs[i] = b.txs[j] => i = j
    BY <1>4, <2>1
  <2>3. ASSUME NEW i \in 1..Len(b.txs)
        PROVE  Contains(memPool.all, b.txs[i]) /\ Contains(p, b.txs[i])
    <3>1. b.txs[i] = p[i] /\ i \in 1..Len(p)
      BY <1>4, <2>1
    <3>2. QED
      BY <1>4, <3>1 DEF Contains
  <2>4. QED
    BY <2>2, <2>3
<1>6. \A k \in DOMAIN db : \A i \in 1..Len(db[k].txs) :
        Contains(memPool.all, db[k].txs[i]) /\ ~ Contains(p, db[k].txs[i])
  BY <1>1, <1>3 DEF CommitInv
<1>7. CommittedOnce'
  <2>1. ASSUME NEW k1 \in DOMAIN db', NEW k2 \in DOMAIN db',
               NEW i \in 1..Len(db'[k1].txs), NEW j \in 1..Len(db'[k2].txs),
               db'[k1].txs[i] = db'[k2].txs[j]
        PROVE  k1 = k2 /\ i = j
    <3>1. CASE k1 = key /\ k2 = key
      BY <1>2, <1>5, <2>1, <3>1
    <3>2. CASE k1 = key /\ k2 # key
      BY <1>2, <1>5, <1>6, <2>1, <3>2
    <3>3. CASE k1 # key /\ k2 = key
      BY <1>2, <1>5, <1>6, <2>1, <3>3
    <3>4. CASE k1 # key /\ k2 # key
      BY <1>2, <2>1, <3>4 DEF CommitInv, CommittedOnce
    <3>5. QED
      BY <3>1, <3>2, <3>3, <3>4
  <2>2. QED
    BY <2>1, Zenon DEF CommittedOnce
<1>8. \A k \in DOMAIN db' : \A i \in 1..Len(db'[k].txs) : Contains(memPool.all, db'[k].txs[i])
  BY <1>2, <1>5, <1>6
<1>9. QED
  BY <1>2, <1>3, <1>4, <1>7, <1>8 DEF CommitInv

LEMMA NextCommitInv ==
  TypeOK /\ PoolHasRoom /\ CommitInv /\ [Next]_vars => CommitInv'
<1> SUFFICES ASSUME TypeOK, PoolHasRoom, CommitInv, [Next]_vars PROVE CommitInv'
  OBVIOUS
<1>0. ASSUME db' = db PROVE CommittedOnce'
  <2>1. CommittedOnce
    BY DEF CommitInv
  <2>2. QED
    BY <1>0, <2>1 DEF CommittedOnce
<1>1. CASE UNCHANGED <<memPool, db, validatorPc, block>>
  BY <1>0, <1>1 DEF CommitInv
<1>2. ASSUME NEW h \in Handler, Handle(h) PROVE CommitInv'
  <2>1. UNCHANGED <<db, validatorPc, block>>
    BY <1>2, ClientsLeaveChain
  <2>2. CASE memPool' = memPool
    BY <1>1, <2>1, <2>2
  <2>3. CASE memPool' # memPool
    <3>1. /\ ~ Contains(memPool.all, body[h]) /\ memPool' = AddTx(memPool, body[h])
          /\ pc[h] = "submit"
      BY <1>2, <2>3 DEF Handle, PostTx, WriteRFQTxs, ProcessTransaction
    <3>2. body[h] \in Tx
      BY <3>1 DEF TypeOK
    <3>3. QED
      BY <2>1, <3>1, <3>2, AdmitCommitInv
  <2>4. QED
    BY <2>2, <2>3
<1>3. ASSUME NEW r \in Reader, Read(r) PROVE CommitInv'
  BY <1>1, <1>3, ClientsLeaveChain DEF Read, GetBlock, RLock, ReadBlock
<1>4. CASE CreateNewBlock
  <2>1. /\ block'.txs = memPool.pending /\ validatorPc = "wait" /\ validatorPc' = "verify"
        /\ UNCHANGED <<memPool, db>>
    BY <1>4 DEF CreateNewBlock, BuildOn, NewBlockFromPrevHeader
  <2>2. Len(memPool.pending) \in Nat
    BY LenProperties DEF TypeOK
  <2>3. CommittedOnce'
    BY <1>0, <2>1
  <2>4. /\ Len(block'.txs) <= Len(memPool'.pending)
        /\ \A i \in 1..Len(block'.txs) : block'.txs[i] = memPool'.pending[i]
    BY <2>1, <2>2
  <2>5. QED
    BY <2>1, <2>3, <2>4 DEF CommitInv
<1>5. CASE VerifyBlock
  <2>1. /\ UNCHANGED <<memPool, db, block>> /\ validatorPc = "verify" /\ validatorPc' \in {"lock", "wait"}
    BY <1>5 DEF VerifyBlock, chainVars
  <2>2. CommittedOnce'
    BY <1>0, <2>1
  <2>3. QED
    BY <2>1, <2>2 DEF CommitInv
<1>6. CASE ClearPool
  <2>1. /\ memPool'.all = memPool.all /\ memPool'.pending = <<>> /\ validatorPc' = "wait" /\ db' = db
    BY <1>6 DEF ClearPool, ClearPending, chainVars, TypeOK
  <2>2. Len(memPool'.pending) = 0 /\ \A x : ~ Contains(memPool'.pending, x)
    BY <2>1 DEF Contains
  <2>3. QED
    BY <1>0, <2>1, <2>2 DEF CommitInv
<1>7. CASE UNCHANGED vars
  BY <1>1, <1>7 DEF vars, chainVars, validatorVars
<1>8. QED
  BY <1>2, <1>3, <1>4, <1>5, <1>6, <1>7, AddBlockCommitInv DEF Next, Validate

\* As long as the pool has room, no transaction is in two blocks or twice in one,
\* whatever arrives while a block is built: CreateNewBlock takes a beginning of
\* what is pending, and the pool's `all' outlives ClearPending.
THEOREM TransactionsAreCommittedOnce == Spec /\ []PoolHasRoom => []CommittedOnce
<1>1. CommitInv => CommittedOnce
  BY DEF CommitInv
<1>2. QED
  BY <1>1, InitCommitInv, NextCommitInv, TypeCorrect, PTL DEF Spec

----------------------------------------------------------------------------
(* PebbleMeter *)

\* The property needs that activeComp is the number of compactions that run.
MeterInv ==
  /\ now \in Nat /\ running \in Nat
  /\ compStartTime \in Nat /\ compTime \in Int /\ busy \in Nat
  /\ writeDelayStartTime \in Nat /\ writeDelayTime \in Int /\ slow \in Nat
  /\ activeComp = running
  /\ MeteredTimeIsBusyTime

LEMMA InitMeterInv == MeterInit => MeterInv
<1> SUFFICES ASSUME MeterInit PROVE MeterInv
  OBVIOUS
<1>1. /\ now = 0 /\ running = 0 /\ activeComp = 0 /\ compStartTime = 0 /\ compTime = 0
      /\ busy = 0 /\ writeDelayStartTime = 0 /\ writeDelayTime = 0 /\ slow = 0
  BY Zenon DEF MeterInit
<1>2. stalled = FALSE
  BY Zenon DEF MeterInit
<1>3. QED
  BY <1>1, <1>2 DEF MeterInv, MeteredTimeIsBusyTime

LEMMA NextMeterInv == MeterInv /\ [MeterNext]_meterVars => MeterInv'
<1> SUFFICES ASSUME MeterInv, [MeterNext]_meterVars PROVE MeterInv'
  OBVIOUS
<1> USE DEF MeterInv, MeteredTimeIsBusyTime, compVars, stallVars
<1>2. CASE onCompactionBegin /\ UNCHANGED <<now, stallVars>>
  BY <1>2 DEF onCompactionBegin
<1>3. CASE onCompactionEnd /\ UNCHANGED <<now, stallVars>>
  BY <1>3 DEF onCompactionEnd
<1>4. CASE onWriteStallBegin /\ UNCHANGED <<now, compVars>>
  <2>1. stalled' = TRUE /\ ~ stalled
    BY <1>4, Zenon DEF onWriteStallBegin
  <2>2. /\ writeDelayStartTime' = now
        /\ UNCHANGED <<writeDelayTime, slow, now, running, activeComp, compStartTime, compTime, busy>>
    BY <1>4 DEF onWriteStallBegin
  <2>3. QED
    BY <2>1, <2>2
<1>5. CASE onWriteStallEnd /\ UNCHANGED <<now, compVars>>
  BY <1>5 DEF onWriteStallEnd
<1>6. CASE Tick
  BY <1>6 DEF Tick
<1>7. CASE UNCHANGED meterVars
  BY <1>7 DEF meterVars
<1>8. QED
  BY <1>2, <1>3, <1>4, <1>5, <1>6, <1>7 DEF MeterNext

\* Overlapping compactions are counted once, and no busy moment is missed: the
\* first compaction to begin starts the clock and the last to end stops it.
THEOREM MetersAreExact == MeterSpec => []MeteredTimeIsBusyTime
<1>1. MeterInv => MeteredTimeIsBusyTime
  BY DEF MeterInv
<1>2. QED
  BY InitMeterInv, NextMeterInv, <1>1, PTL DEF MeterSpec

----------------------------------------------------------------------------
(* ByteKeys: the ranges of keys handed to the engine *)

\* The order of keys, byte by byte.
LEMMA BeforeAt ==
  ASSUME NEW a \in Seq(Byte), NEW b \in Seq(Byte)
  PROVE  Before(a, b) <=>
           \E n \in 0..Len(a) : /\ n < Len(b)
                                /\ \A i \in 1..n : a[i] = b[i]
                                /\ n = Len(a) \/ a[n + 1] < b[n + 1]
<1>1. Len(a) \in Nat /\ Len(b) \in Nat
  OBVIOUS
<1>2. ASSUME NEW n \in 0..Len(a), n < Len(b)
      PROVE  (SubSeq(a, 1, n) = SubSeq(b, 1, n)) <=> \A i \in 1..n : a[i] = b[i]
  <2>1. /\ SubSeq(a, 1, n) \in Seq(Byte) /\ SubSeq(b, 1, n) \in Seq(Byte)
        /\ Len(SubSeq(a, 1, n)) = n /\ Len(SubSeq(b, 1, n)) = n
        /\ \A i \in 1..n : SubSeq(a, 1, n)[i] = a[i] /\ SubSeq(b, 1, n)[i] = b[i]
    BY <1>1, <1>2
  <2>2. QED
    BY <2>1
<1> DEFINE Same(n) == SubSeq(a, 1, n) = SubSeq(b, 1, n)
           Lower(n) == n = Len(a) \/ a[n + 1] < b[n + 1]
<1>3. Before(a, b) <=> \E n \in 0..Len(a) : n <= Len(b) /\ Same(n) /\ n < Len(b) /\ Lower(n)
  BY Zenon DEF Before
<1>4. \A n \in 0..Len(a) : n < Len(b) => n <= Len(b)
  BY <1>1
<1>5. \A n \in 0..Len(a) : n < Len(b) => (Same(n) <=> \A i \in 1..n : a[i] = b[i])
  BY <1>2
<1> HIDE DEF Same, Lower
<1>6. Before(a, b) <=> \E n \in 0..Len(a) : n < Len(b) /\ (\A i \in 1..n : a[i] = b[i]) /\ Lower(n)
  BY <1>3, <1>4, <1>5, Zenon
<1>7. QED
  BY <1>6, Zenon DEF Lower

\* The prefix relation, byte by byte.
LEMMA PrefixAt ==
  ASSUME NEW k \in Seq(Byte), NEW p \in Seq(Byte)
  PROVE  HasPrefix(k, p) <=> Len(p) <= Len(k) /\ \A i \in 1..Len(p) : k[i] = p[i]
<1>1. Len(k) \in Nat /\ Len(p) \in Nat
  OBVIOUS
<1>2. ASSUME Len(p) <= Len(k)
      PROVE  (SubSeq(k, 1, Len(p)) = p) <=> \A i \in 1..Len(p) : k[i] = p[i]
  <2>1. /\ SubSeq(k, 1, Len(p)) \in Seq(Byte) /\ Len(SubSeq(k, 1, Len(p))) = Len(p)
        /\ \A i \in 1..Len(p) : SubSeq(k, 1, Len(p))[i] = k[i]
    BY <1>1, <1>2
  <2>2. QED
    BY <2>1
<1>3. QED
  BY <1>2 DEF HasPrefix

\* A non-empty set of indices has a first one ...
LEMMA LeastIndex ==
  ASSUME NEW I, I \subseteq Nat, I # {}
  PROVE  \E m \in I : \A j \in I : m <= j
<1>1. PICK m \in I : \A j \in I : ~ (<<j, m>> \in OpToRel(<, Nat))
  BY WFMin, NatLessThanWellFounded, Zenon
<1>2. \A j \in I : ~ (j < m)
  BY <1>1, Zenon DEF OpToRel
<1>3. QED
  BY <1>2

\* ... and a bounded one a last, which is what Max chooses.
LEMMA LastIndex ==
  ASSUME NEW n \in Nat, NEW I, I \subseteq 1..n, I # {}
  PROVE  Max(I) \in I /\ \A j \in I : j <= Max(I)
<1> DEFINE U == {m \in Nat : \A j \in I : j <= m}
<1>0. PICK first \in I : first \in 1..n
  BY Zenon
<1>1. n \in U /\ U \subseteq Nat
  OBVIOUS
<1>2. PICK m \in U : \A u \in U : m <= u
  <2> HIDE DEF U
  <2>1. QED
    BY <1>1, LeastIndex, Zenon
<1>3. m \in I
  <2>1. SUFFICES ASSUME m \notin I PROVE FALSE
    OBVIOUS
  <2>2. m \in Nat /\ m > 0 /\ \A j \in I : j <= m /\ j # m
    BY <1>0, <1>2, <2>1
  <2>3. m - 1 \in U
    BY <2>2
  <2>4. QED
    BY <1>2, <2>2, <2>3
<1>4. \A j \in I : m >= j
  BY <1>2
<1>5. QED
  BY <1>3, <1>4, Zenon DEF Max

\* The last byte other than 0xff, plus one: what upperBound and the limit of
\* table.Compact have in common.
Bumped(u, p, last) ==
  /\ u \in Seq(Byte)
  /\ last \in 1..Len(p) /\ last <= Len(u) /\ p[last] # MaxByte
  /\ \A i \in 1..(last - 1) : u[i] = p[i]
  /\ u[last] = p[last] + 1

\* upperBound bumps the last byte that can be bumped and ends there.
LEMMA UpperBoundBumps ==
  ASSUME NEW p \in Seq(Byte)
  PROVE  \/ upperBound(p) = Nil /\ \A i \in 1..Len(p) : p[i] = MaxByte
         \/ \E last \in 1..Len(p) : /\ Bumped(upperBound(p), p, last)
                                    /\ Len(upperBound(p)) = last
                                    /\ \A i \in 1..Len(p) : p[i] # MaxByte => i <= last
<1> DEFINE bumpable == {i \in 1..Len(p) : p[i] # MaxByte}
<1>1. CASE bumpable = {}
  BY <1>1 DEF upperBound
<1>2. CASE bumpable # {}
  <2>1. PICK last : last = Max(bumpable)
    BY Zenon
  <2>2. Len(p) \in Nat /\ bumpable \subseteq 1..Len(p)
    OBVIOUS
  <2>3. last \in bumpable /\ \A j \in bumpable : j <= last
    BY <1>2, <2>1, <2>2, LastIndex, Zenon
  <2>4. upperBound(p) = [SubSeq(p, 1, last) EXCEPT ![last] = p[last] + 1]
    BY <1>2, <2>1 DEF upperBound
  <2>5. last \in 1..Len(p) /\ p[last] # MaxByte /\ \A i \in 1..Len(p) : p[i] # MaxByte => i <= last
    BY <2>3
  <2>6. p[last] + 1 \in Byte
    BY <2>5, MaxByteAssumption DEF Byte
  <2>7. /\ SubSeq(p, 1, last) \in Seq(Byte) /\ Len(SubSeq(p, 1, last)) = last
        /\ \A i \in 1..last : SubSeq(p, 1, last)[i] = p[i]
    BY <2>2, <2>5
  <2> HIDE DEF bumpable
  <2>8. /\ upperBound(p) \in Seq(Byte) /\ Len(upperBound(p)) = last
        /\ \A i \in 1..(last - 1) : upperBound(p)[i] = p[i]
        /\ upperBound(p)[last] = p[last] + 1
    <3>1. PICK v, byte : v = SubSeq(p, 1, last) /\ byte = p[last] + 1
      BY Zenon
    <3>2. /\ v \in Seq(Byte) /\ Len(v) = last /\ byte \in Byte /\ last \in 1..Len(v) /\ last \in Nat
          /\ \A i \in 1..last : v[i] = p[i]
      BY <2>2, <2>5, <2>6, <2>7, <3>1
    <3>3. PICK w : w = [v EXCEPT ![last] = byte]
      BY Zenon
    <3>4. /\ w \in Seq(Byte) /\ Len(w) = last /\ w[last] = byte
          /\ \A i \in 1..last : i # last => w[i] = v[i]
      BY <3>2, <3>3
    <3>5. \A i \in 1..(last - 1) : i \in 1..last /\ i # last
      BY <3>2
    <3>6. upperBound(p) = w
      BY <2>4, <3>1, <3>3
    <3>7. QED
      BY <3>1, <3>2, <3>4, <3>5, <3>6
  <2>9. QED
    BY <2>2, <2>5, <2>8 DEF Bumped
<1>3. QED
  BY <1>1, <1>2

\* The limit of table.Compact bumps a byte and keeps zeroes after it.
LEMMA CompactLimitBumps ==
  ASSUME NEW p \in Seq(Byte), p # <<>>
  PROVE  compactLimit(p) = Nil \/ \E last \in 1..Len(p) : Bumped(compactLimit(p), p, last)
<1> DEFINE bumpable == {i \in 1..Len(p) : p[i] # MaxByte}
<1>1. CASE bumpable = {}
  BY <1>1 DEF compactLimit
<1>2. CASE bumpable # {}
  <2>1. PICK last : last = Max(bumpable)
    BY Zenon
  <2>2. Len(p) \in Nat /\ bumpable \subseteq 1..Len(p)
    OBVIOUS
  <2>3. last \in bumpable
    BY <1>2, <2>1, <2>2, LastIndex, Zenon
  <2>4. compactLimit(p) = [i \in 1..Len(p) |-> IF i < last THEN p[i]
                                               ELSE IF i = last THEN p[i] + 1 ELSE 0]
    BY <1>2, <2>1 DEF compactLimit
  <2>5. last \in 1..Len(p) /\ p[last] # MaxByte
    BY <2>3
  <2>6. p[last] + 1 \in Byte /\ 0 \in Byte /\ \A i \in 1..Len(p) : p[i] \in Byte
    BY <2>5, MaxByteAssumption DEF Byte
  <2> HIDE DEF bumpable
  <2>7. compactLimit(p) \in Seq(Byte) /\ Len(compactLimit(p)) = Len(p)
    BY <2>2, <2>4, <2>5, <2>6
  <2>8. /\ \A i \in 1..(last - 1) : compactLimit(p)[i] = p[i]
        /\ compactLimit(p)[last] = p[last] + 1
    BY <2>2, <2>4, <2>5
  <2>9. QED
    BY <2>2, <2>5, <2>7, <2>8 DEF Bumped
<1>3. QED
  BY <1>1, <1>2

\* A key with the prefix comes before a bumped prefix.
LEMMA BelowBumped ==
  ASSUME NEW p \in Seq(Byte), NEW k \in Seq(Byte), HasPrefix(k, p),
         NEW u, NEW last \in 1..Len(p), Bumped(u, p, last)
  PROVE  Before(k, u)
<1>1. Len(p) \in Nat /\ Len(k) \in Nat /\ u \in Seq(Byte) /\ Len(u) \in Nat
  BY DEF Bumped
<1>2. Len(p) <= Len(k) /\ \A i \in 1..Len(p) : k[i] = p[i]
  BY PrefixAt
<1>3. last - 1 \in 0..Len(k) /\ last - 1 < Len(u) /\ (last - 1) + 1 = last /\ p[last] \in Byte
  BY <1>1, <1>2 DEF Bumped
<1>4. \A i \in 1..(last - 1) : k[i] = u[i]
  BY <1>1, <1>2 DEF Bumped
<1>5. k[last] < u[last]
  <2>1. k[last] = p[last] /\ u[last] = p[last] + 1
    BY <1>2 DEF Bumped
  <2>2. p[last] \in Nat
    BY <1>3, MaxByteAssumption DEF Byte
  <2>3. QED
    BY <2>1, <2>2
<1>6. QED
  BY <1>1, <1>3, <1>4, <1>5, BeforeAt

\* A key with the prefix does not come before it.
LEMMA NotBelowPrefix ==
  ASSUME NEW p \in Seq(Byte), NEW k \in Seq(Byte), HasPrefix(k, p)
  PROVE  ~ Before(k, p)
<1>1. Len(p) <= Len(k) /\ \A i \in 1..Len(p) : k[i] = p[i]
  BY PrefixAt
<1>2. Len(p) \in Nat /\ Len(k) \in Nat /\ \A i \in 1..Len(p) : p[i] \in Byte
  OBVIOUS
<1>3. ASSUME NEW n \in 0..Len(k), n < Len(p), n = Len(k) \/ k[n + 1] < p[n + 1] PROVE FALSE
  <2>1. n + 1 \in 1..Len(p) /\ n # Len(k)
    BY <1>1, <1>2, <1>3
  <2>2. k[n + 1] = p[n + 1] /\ p[n + 1] \in Byte
    BY <1>1, <1>2, <2>1
  <2>3. QED
    BY <1>3, <2>1, <2>2, MaxByteAssumption DEF Byte
<1>4. QED
  BY <1>3, BeforeAt

\* table.Compact without a start and a limit compacts every key of its table: no
\* key with the prefix is outside the range it hands to the store, also when the
\* prefix ends in 0xff and the carry runs through it.
THEOREM CompactRangeCovers ==
  ASSUME NEW p \in Seq(Byte), p # <<>>, NEW k \in Seq(Byte), HasPrefix(k, p)
  PROVE  InRange(k, p, compactLimit(p))
BY NotBelowPrefix, CompactLimitBumps, BelowBumped DEF InRange

\* The range of Pebble's iterators holds the keys with the prefix, from the
\* starting key on, and no others: upperBound excludes every key past them.
THEOREM IteratorRangeIsExact ==
  ASSUME NEW p \in Seq(Byte), NEW s \in Seq(Byte), NEW k \in Seq(Byte)
  PROVE  InRange(k, p \o s, upperBound(p)) <=> HasPrefix(k, p) /\ ~ Before(k, p \o s)
<1>1. ASSUME HasPrefix(k, p) PROVE upperBound(p) = Nil \/ Before(k, upperBound(p))
  BY <1>1, UpperBoundBumps, BelowBumped
<1>2. ASSUME ~ HasPrefix(k, p), ~ Before(k, p \o s) PROVE upperBound(p) # Nil /\ ~ Before(k, upperBound(p))
  <2>1. Len(p) \in Nat /\ Len(k) \in Nat
    OBVIOUS
  <2>2. PICK q : q = p \o s
    BY Zenon
  <2>3. q \in Seq(Byte) /\ Len(q) >= Len(p) /\ Len(q) \in Nat /\ \A i \in 1..Len(p) : q[i] = p[i]
    BY <2>2
  <2> DEFINE D == {i \in 1..Len(p) : i > Len(k) \/ k[i] # p[i]}
  <2>4. D # {}
    <3>1. SUFFICES ASSUME D = {} PROVE FALSE
      OBVIOUS
    <3>2. \A i \in 1..Len(p) : i <= Len(k) /\ k[i] = p[i]
      BY <2>1, <3>1
    <3>3. Len(p) <= Len(k)
      BY <2>1, <3>2
    <3>4. QED
      BY <1>2, <3>2, <3>3, PrefixAt
  <2>5. PICK d \in D : \A i \in D : d <= i
    <3>1. D \subseteq Nat
      OBVIOUS
    <3> HIDE DEF D
    <3>2. QED
      BY <2>4, <3>1, LeastIndex, Zenon
  <2>6. d \in 1..Len(p) /\ (d > Len(k) \/ k[d] # p[d])
    BY <2>5
  <2>7. \A i \in 1..(d - 1) : i <= Len(k) /\ k[i] = p[i]
    BY <2>1, <2>5, <2>6
  <2> HIDE DEF D
  <2>8. d - 1 \in 0..Len(k) /\ d - 1 < Len(q) /\ (d - 1) + 1 = d
    BY <2>1, <2>3, <2>6, <2>7
  <2>9. d - 1 # Len(k) /\ ~ (k[d] < p[d])
    <3>1. ~ Before(k, q) /\ \A i \in 1..(d - 1) : k[i] = q[i]
      BY <1>2, <2>1, <2>2, <2>3, <2>6, <2>7
    <3>2. d - 1 # Len(k) /\ ~ (k[d] < q[d])
      BY <2>3, <2>8, <3>1, BeforeAt
    <3>3. QED
      BY <2>3, <2>6, <3>2
  <2>10. d <= Len(k) /\ k[d] \in Byte /\ p[d] \in Byte
    BY <2>1, <2>6, <2>8, <2>9
  <2>11. k[d] > p[d] /\ p[d] # MaxByte /\ p[d] \in Nat /\ k[d] \in Nat
    BY <2>6, <2>9, <2>10, MaxByteAssumption DEF Byte
  <2>12. PICK last \in 1..Len(p) : /\ Bumped(upperBound(p), p, last)
                                   /\ Len(upperBound(p)) = last /\ d <= last
    BY <2>6, <2>11, UpperBoundBumps
  <2>13. PICK u : u = upperBound(p)
    BY Zenon
  <2>14. /\ u \in Seq(Byte) /\ Len(u) = last /\ \A i \in 1..(last - 1) : u[i] = p[i]
         /\ u[last] = p[last] + 1
    BY <2>12, <2>13 DEF Bumped
  <2>15. ASSUME NEW n \in 0..Len(k), n < last, \A i \in 1..n : k[i] = u[i],
                n = Len(k) \/ k[n + 1] < u[n + 1]
         PROVE  FALSE
    <3>1. CASE n < d - 1
      <4>1. n + 1 \in 1..(d - 1) /\ n + 1 \in 1..(last - 1) /\ n + 1 \in 1..Len(p)
        BY <2>1, <2>6, <2>12, <3>1
      <4>2. n + 1 <= Len(k) /\ k[n + 1] = p[n + 1] /\ u[n + 1] = p[n + 1] /\ p[n + 1] \in Byte
        BY <2>7, <2>14, <4>1
      <4>3. QED
        BY <2>1, <2>15, <4>2, MaxByteAssumption DEF Byte
    <3>2. CASE n = d - 1
      <4>1. k[d] < u[d]
        BY <2>1, <2>6, <2>10, <2>15, <3>2
      <4>2. u[d] = p[d] \/ u[d] = p[d] + 1
        BY <2>6, <2>12, <2>14
      <4>3. QED
        BY <2>11, <4>1, <4>2
    <3>3. CASE n >= d
      <4>1. d \in 1..n /\ d \in 1..(last - 1)
        BY <2>6, <2>15, <3>3
      <4>2. k[d] = u[d] /\ u[d] = p[d]
        BY <2>14, <2>15, <4>1
      <4>3. QED
        BY <2>11, <4>2
    <3>4. QED
      BY <2>6, <3>1, <3>2, <3>3
  <2>16. ~ Before(k, u)
    BY <2>14, <2>15, BeforeAt, Zenon
  <2>17. QED
    BY <2>13, <2>14, <2>16, NilAssumption
<1>3. QED
  BY <1>1, <1>2 DEF InRange
=============================================================================
