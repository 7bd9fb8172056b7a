------------------------------ MODULE Records ------------------------------
(***************************************************************************)
(* The records a validator stores for an auction, as the bytes that are    *)
(* written and read back: the four tables of WriteRFQTxs and the bodies of *)
(* blocks.  A handler is one step here; how the handlers' steps interleave *)
(* is the subject of RFQAuction and BlockProduction.                       *)
(*                                                                         *)
(* The OpenRFQ that the listener stores, the entry of openRFQsMap and the  *)
(* transaction in the pool share one RFQData: Sign returns a transaction   *)
(* with the same inner record, and WriteRFQTxs takes the pointer that      *)
(* EmbeddedData returns.  Quotes and Close change it in place.             *)
(***************************************************************************)
EXTENDS RLPCodec, SequencesExt, FiniteSetsExt, TLC

CONSTANTS
  SignableData,   \* the data of the requests clients post
  QuoteData,      \* the data of quotes, without the hash of the RFQ
  Signature,      \* outcomes of signing: V, R and S
  Validator, Quoter,
  StartTime,      \* the time at which auctions start
  MaxRequests,    \* bound on requests
  MaxQuotes,      \* bound on quotes per RFQ
  MaxBlocks       \* bound on blocks

VARIABLES
  rfqRequests, openRFQs, closedRFQs, quotes,   \* tables: hash -> item
  toOpen,       \* requests whose event the listener has not handled
  active,       \* openRFQsMap: hashes of open RFQs
  rfqs,         \* hash -> the OpenRFQ record in memory
  pending,      \* transactions of the pool: type, cached hash, record or reference
  blocks,       \* stored bodies: sequences of encoded transactions
  signed        \* history: hash, signature, key of every signature made

tables == <<rfqRequests, openRFQs, closedRFQs, quotes>>
vars == <<tables, toOpen, active, rfqs, pending, blocks, signed>>

Init ==
  /\ rfqRequests = <<>> /\ openRFQs = <<>> /\ closedRFQs = <<>> /\ quotes = <<>>
  /\ toOpen = {} /\ active = {} /\ rfqs = <<>>
  /\ pending = <<>> /\ blocks = <<>>
  /\ signed = {}

----------------------------------------------------------------------------
(* Signing and verifying *)

\* A key signs a hash; any signature of the set can come out.
Sign(hash, sig, key) == signed' = signed \cup {<<hash, sig.V, sig.R, sig.S, key>>}

\* Recovering the key from the hash and the signature gives the sender.
Verify(hash, x) ==
  /\ x.V \in {0, 1} /\ x.R > 0 /\ x.S > 0
  /\ <<hash, x.V, x.R, x.S, x.From>> \in signed

WithSignature(from, data, sig) ==
  [From |-> from, Data |-> data, V |-> sig.V, R |-> sig.R, S |-> sig.S]

\* NewQuote and NewTx's copy of it: the signature is nil, then 0.
Unsigned(from, data) ==
  [From |-> from, Data |-> data, V |-> NilInt, R |-> NilInt, S |-> NilInt]

----------------------------------------------------------------------------
(* The pool *)

\* A request or a quote is kept by value, an OpenRFQ by reference.
Pooled(type, hash, x) == [type |-> type, hash |-> hash, record |-> x]

Live(t) == IF t.type = OpenRFQTxType THEN rfqs[t.record] ELSE t.record

----------------------------------------------------------------------------
(* Handlers *)

\* Validate asks for every field, so that requests are complete.
Validate(d) ==
  /\ d.BaseTokenAmount # NilInt /\ d.BaseToken # NilToken /\ d.QuoteToken # NilToken
  /\ d.RFQDurationMs # 0

PostRFQRequest(d, sig) ==
  LET hash == TxHash(RFQRequestTxType, d)
      x == WithSignature(Validator, d, sig)
  IN  /\ Validate(d)
      /\ hash \notin DOMAIN rfqRequests /\ Cardinality(DOMAIN rfqRequests) < MaxRequests
      /\ Sign(hash, sig, Validator)
      /\ rfqRequests' = (hash :> EncodeRFQRequest(x)) @@ rfqRequests
      /\ pending' = Append(pending, Pooled(RFQRequestTxType, hash, x))
      /\ toOpen' = toOpen \cup {[hash |-> hash, data |-> d]}
      /\ UNCHANGED <<openRFQs, closedRFQs, quotes, active, rfqs, blocks>>

NewRFQData(r) ==
  [RFQTxHash |-> r.hash, RFQRequest |-> r.data, RFQStartTime |-> StartTime,
   RFQEndTime |-> StartTime + r.data.RFQDurationMs, Quotes |-> <<>>,
   SettlementContract |-> Validator, MatchingContract |-> Validator, Status |-> "OPEN"]

HandleRFQRequest(r, sig) ==
  LET data == NewRFQData(r)
      hash == TxHash(OpenRFQTxType, data)
      x == WithSignature(Validator, data, sig)
  IN  /\ Sign(hash, sig, Validator)
      /\ openRFQs' = (r.hash :> EncodeOpenRFQ(x)) @@ openRFQs
      /\ rfqs' = (r.hash :> x) @@ rfqs
      /\ active' = active \cup {r.hash}
      /\ toOpen' = toOpen \ {r}
      /\ pending' = Append(pending, Pooled(OpenRFQTxType, hash, r.hash))
      /\ UNCHANGED <<rfqRequests, closedRFQs, quotes, blocks>>

\* The quotes stored so far are decoded and written again with the new one; if
\* one of them cannot be decoded nothing is written.
WriteQuote(h, x) ==
  LET stored == IF h \in DOMAIN quotes THEN quotes[h].items ELSE <<>>
      existing == [j \in DOMAIN stored |-> DecodeQuote(stored[j])]
      all == Append(existing, x)
  IN  IF \E j \in DOMAIN existing : existing[j] = Fail THEN UNCHANGED quotes
      ELSE quotes' = (h :> Lst([j \in DOMAIN all |-> EncodeQuote(all[j])])) @@ quotes

\* handlePostQuote: QuoteData.Validate accepts everything.  The record that
\* UpdateActiveRFQ appends is the one from before WithSignature.
PostQuote(h, q, sig) ==
  LET data == [q EXCEPT !.RFQTxHash = h]
      hash == TxHash(QuoteTxType, data)
      x == WithSignature(Quoter, data, sig)
  IN  /\ Len(rfqs[h].Data.Quotes) < MaxQuotes
      /\ \A t \in signed : t[1] # hash
      /\ Sign(hash, sig, Quoter)
      /\ WriteQuote(h, x)
      /\ pending' = Append(pending, Pooled(QuoteTxType, hash, x))
      /\ rfqs' = [rfqs EXCEPT ![h].Data.Quotes = Append(@, Unsigned(Quoter, data))]
      /\ UNCHANGED <<rfqRequests, openRFQs, closedRFQs, toOpen, active, blocks>>

\* processAuctionQueue: Close writes to the shared RFQData; NewTx copies it.
CloseRFQ(h) ==
  /\ rfqs' = [rfqs EXCEPT ![h].Data.Status = "CLOSED"]
  /\ closedRFQs' = (h :> EncodeOpenRFQ(rfqs'[h])) @@ closedRFQs
  /\ active' = active \ {h}
  /\ UNCHANGED <<rfqRequests, openRFQs, quotes, toOpen, pending, blocks, signed>>

\* WriteBody encodes what the transactions are then; their hashes are cached.
CommitBlock ==
  /\ pending # <<>> /\ Len(blocks) < MaxBlocks
  /\ blocks' = Append(blocks,
       [j \in DOMAIN pending |->
          [hash |-> pending[j].hash,
           bytes |-> EncodeTyped(pending[j].type, Live(pending[j]))]])
  /\ pending' = <<>>
  /\ UNCHANGED <<tables, toOpen, active, rfqs, signed>>

Next ==
  \/ \E d \in SignableData, sig \in Signature : PostRFQRequest(d, sig)
  \/ \E r \in toOpen, sig \in Signature : HandleRFQRequest(r, sig)
  \/ \E h \in active : \/ \E q \in QuoteData, sig \in Signature : PostQuote(h, q, sig)
                       \/ CloseRFQ(h)
  \/ CommitBlock

Spec == Init /\ [][Next]_vars

----------------------------------------------------------------------------
(* What the GET handlers read: a listing fails at the first item that cannot *)
(* be decoded.                                                               *)

Listing(found) ==
  IF Fail \in found THEN [ok |-> FALSE, records |-> {}] ELSE [ok |-> TRUE, records |-> found]

GetRFQRequests == Listing({DecodeRFQRequest(rfqRequests[h]) : h \in DOMAIN rfqRequests})

GetOpenRFQRequests == Listing({DecodeOpenRFQ(openRFQs[h]) : h \in DOMAIN openRFQs})

GetClosedRFQRequests == Listing({DecodeOpenRFQ(closedRFQs[h]) : h \in DOMAIN closedRFQs})

\* The quotes of all RFQs are decoded, then those of one are picked.
GetAuctionQuotes(h) ==
  LET all == Listing(UNION {{DecodeQuote(i) : i \in ToSet(quotes[k].items)} : k \in DOMAIN quotes})
  IN  [all EXCEPT !.records = {q \in @ : q.Data.RFQTxHash = h}]

----------------------------------------------------------------------------
(* Properties *)

\* x is a record that was read, and its signature is its sender's.
Authentic(type, x) == x # Fail /\ Verify(TxHash(type, x.Data), x)

\* What GetRFQRequests reads is what was signed: every request decodes, has
\* the hash it is stored under, and verifies, also when R or S starts with a
\* zero byte or an amount is 0.
RequestsReadBack ==
  LET read == GetRFQRequests IN
  /\ read.ok
  /\ \A r \in read.records : Authentic(RFQRequestTxType, r)
  /\ {TxHash(RFQRequestTxType, r.Data) : r \in read.records} = DOMAIN rfqRequests

\* What GetOpenRFQRequests reads verifies, although it is written for one
\* decoder and read by another, and it carries the request it was opened for.
OpenRFQsReadBack ==
  LET read == GetOpenRFQRequests IN
  /\ read.ok
  /\ \A r \in read.records : Authentic(OpenRFQTxType, r)
  /\ {TxHash(RFQRequestTxType, r.Data.RFQRequest) : r \in read.records} = DOMAIN openRFQs

QuoteTxs(s) == {t \in ToSet(s) : t.type = QuoteTxType}

\* Every quote that was answered with 201 and waits in the pool is stored
\* under its RFQ with the others, and what GetAuctionQuotes reads verifies.
QuotesReadBack ==
  /\ \A h \in DOMAIN quotes : LET read == GetAuctionQuotes(h) IN
       read.ok /\ \A q \in read.records : Authentic(QuoteTxType, q)
  /\ \A t \in QuoteTxs(pending) :
       \E q \in GetAuctionQuotes(t.record.Data.RFQTxHash).records :
         TxHash(QuoteTxType, q.Data) = t.hash

\* The listings of requests, open RFQs and quotes return what was signed: see
\* the three parts.
RecordsReadBack == RequestsReadBack /\ OpenRFQsReadBack /\ QuotesReadBack

InBlocks == UNION {ToSet(blocks[n]) : n \in DOMAIN blocks}

\* The requests and quotes of stored blocks verify when they are read, and
\* have the hashes the blocks were built from.
ClientTxsInBlocksVerify ==
  \A t \in InBlocks : t.bytes.type # OpenRFQTxType =>
    LET x == DecodeTyped(t.bytes) IN
    Authentic(t.bytes.type, x) /\ TxHash(t.bytes.type, x.Data) = t.hash

----------------------------------------------------------------------------
(* What the documents say and the code does not do: TLC refutes these. *)

\* GET /closedRFQs reads every snapshot: the tables are written "so they can
\* be accessed quickly" (blockchain.go).
ClosedRFQsReadable == GetClosedRFQRequests.ok

\* A snapshot that can be read carries the validator's signature of it: the
\* types other than requests and quotes "are generated by a validator node and
\* signed by the validator node" (blockchain.go).
SnapshotsAreSigned ==
  \A h \in DOMAIN closedRFQs :
    LET r == DecodeOpenRFQ(closedRFQs[h]) IN r # Fail => Authentic(OpenRFQTxType, r)

\* A block keeps the record of an opening: the transaction read from it has
\* the hash the block was built from ("a decentralized record of the RFQ
\* Opening for bids", network/server.go).
OpeningsInBlocksKept ==
  \A t \in InBlocks : t.bytes.type = OpenRFQTxType =>
    LET x == DecodeTyped(t.bytes) IN x # Fail /\ TxHash(OpenRFQTxType, x.Data) = t.hash
=============================================================================
