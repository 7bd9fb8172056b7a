----------------------------- MODULE BlockCodec -----------------------------
(***************************************************************************)
(* A block as an object (core/types/block.go): built from its parent's     *)
(* header, signed, encoded, stored as a header and a body and read again.  *)
(* Verify decides whether a block is what its validator signed.  Hashes    *)
(* are terms: a transaction's is <<t>>, a pair's <<left, right>>, and the  *)
(* root of no transactions is <<>>.                                        *)
(***************************************************************************)
EXTENDS Naturals, Sequences, SequencesExt, FiniteSets

CONSTANTS
  Tx,          \* hashes of transactions
  Key,         \* validators' keys
  Nil,         \* a nil signature, a nil key, an empty cache
  MaxTxs,      \* bound on the transactions of a block
  MaxOps       \* bound on the operations on one block

VARIABLES
  header,      \* TxHash, ParentHash, Height and BlockSignature
  transactions,
  Validator,   \* the key stored with the block
  hash,        \* Block.hash, the cache, or Nil
  built,       \* history: the transactions it was built with
  ops          \* operations so far

vars == <<header, transactions, Validator, hash, built, ops>>

EmptyTxsHash == <<>>

\* Mutant of Pairs: the last hash of an odd level is dropped.
PairsDropped(h) == [i \in 1 .. Len(h) \div 2 |-> <<h[2 * i - 1], h[2 * i]>>]

\* One level of the tree; the last hash of an odd level is paired with itself.
Pairs(h) ==
  [i \in 1 .. (Len(h) + 1) \div 2 |->
     <<h[2 * i - 1], IF 2 * i <= Len(h) THEN h[2 * i] ELSE h[2 * i - 1]>>]

RECURSIVE TopHash(_)
TopHash(h) == IF Len(h) <= 1 THEN h ELSE TopHash(Pairs(h))

MerkleRoot(txs) ==
  IF txs = <<>> THEN EmptyTxsHash ELSE TopHash([i \in DOMAIN txs |-> <<txs[i]>>])[1]

\* Mutant of HashedFields: the signature is covered too.
HashedFieldsAll(h) == h

\* What Block.Hash covers: everything but the signature.
HashedFields(h) == [h EXCEPT !.BlockSignature = Nil]

\* Block.Hash returns the cached value if there is one.
Hash == IF hash # Nil THEN hash ELSE HashedFields(header)

NewBlockFromPrevHeader(parent, txs) ==
  /\ header = [TxHash |-> MerkleRoot(txs), ParentHash |-> parent, Height |-> parent + 1,
               BlockSignature |-> Nil]
  /\ transactions = txs
  /\ Validator = Nil /\ hash = Nil /\ ops = 0
  /\ built = txs

Distinct(txs) == Cardinality(ToSet(txs)) = Len(txs)

\* The pool keeps no transaction twice.  Parents are named by their heights.
Init == \E txs \in {s \in BoundedSeq(Tx, MaxTxs) : Distinct(s)}, parent \in {0, 1} :
          NewBlockFromPrevHeader(parent, txs)

\* The signature is put into the header after it was made.
Sign(key) ==
  /\ Validator' = key
  /\ header' = [header EXCEPT !.BlockSignature = <<Hash, key>>]
  /\ hash' = Hash
  /\ UNCHANGED <<transactions, built>>

AddTransaction(t) ==
  /\ Len(transactions) < MaxTxs
  /\ transactions' = Append(transactions, t)
  /\ UNCHANGED <<header, Validator, hash, built>>

\* Verify: the signature is the Validator's, of the hash; the root fits.
Verify ==
  /\ header.BlockSignature # Nil
  /\ header.BlockSignature = <<Hash, Validator>>
  /\ MerkleRoot(transactions) = header.TxHash

\* EncodeRLP and DecodeRLP: a new object, without a cache.
RLPTrip ==
  /\ hash' = Nil
  /\ UNCHANGED <<header, transactions, Validator, built>>

\* WriteBlock and ReadBlock: NewBlockWithHeader, and WithBody when the body
\* can be read; otherwise the block has no transactions and no key.
StoreTrip(readable) ==
  /\ hash' = Nil
  /\ transactions' = IF readable THEN transactions ELSE <<>>
  /\ Validator' = IF readable THEN Validator ELSE Nil
  /\ UNCHANGED <<header, built>>

Next ==
  /\ ops < MaxOps /\ ops' = ops + 1
  /\ \/ \E key \in Key : Sign(key)
     \/ \E t \in Tx : AddTransaction(t)
     \/ RLPTrip
     \/ \E readable \in BOOLEAN : StoreTrip(readable)

Spec == Init /\ [][Next]_vars

----------------------------------------------------------------------------
(* Properties *)

\* A block that verifies has the transactions it was built with, in their
\* order, whatever happened to it since, as long as none occurs twice in it.
VerifiedIsAsBuilt ==
  Verify /\ Distinct(transactions) => transactions = built

\* A block whose root fits verifies once it is signed, and neither encoding it
\* nor storing and reading it changes that, unless its body cannot be read.
SignedStaysVerified ==
  [][/\ MerkleRoot(transactions) = header.TxHash
     /\ Verify \/ header' # header
     /\ transactions' = transactions /\ Validator' # Nil
     => Verify']_vars
=============================================================================
