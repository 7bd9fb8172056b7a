------------------------------- MODULE MCData -------------------------------
(***************************************************************************)
(* What the node stores, encodes, looks up and keeps in slices.  The parts *)
(* share nothing: a behaviour is one of one part, and the others rest in   *)
(* an initial state.                                                       *)
(***************************************************************************)
EXTENDS Integers, Sequences, SequencesExt, TxSigning, AuctionHeap, PoolSlice

CONSTANTS Nil, k1, k2

VARIABLES
  part,
  rfqRequests, openRFQs, closedRFQs, quotes, toOpen, active, rfqs, pending, blocks,
  signed,                                                           \* Records
  header, transactions, Validator, hash, built, ops,                \* BlockCodec
  headers, memPool, txStore, committed, requested, openRFQsMap, quotesTable,
  answer                                                            \* Lookups

recordsVars == <<rfqRequests, openRFQs, closedRFQs, quotes, toOpen, active, rfqs, pending,
                 blocks, signed>>
codecVars == <<header, transactions, Validator, hash, built, ops>>
lookupsVars == <<headers, memPool, txStore, committed, requested, openRFQsMap, quotesTable,
                 answer>>

----------------------------------------------------------------------------
(* Records and TxSigning: bytes are bits, hashes have two and addresses three. *)

Token1 == [Address |-> 1, Symbol |-> "MKR", Decimals |-> 2]
Token2 == [Address |-> 2, Symbol |-> "USDC", Decimals |-> 0]

Request(id, amount, duration) ==
  [RequestorId |-> id, BaseTokenAmount |-> amount, BaseToken |-> Token1,
   QuoteToken |-> Token2, RFQDurationMs |-> duration]

QuoteFor(id, amount, bid) ==
  [QuoterId |-> id, RFQTxHash |-> "none", QuoteExpiryTime |-> 1, BaseToken |-> Token1,
   QuoteToken |-> Token2, BaseTokenAmount |-> amount, BidPrice |-> bid, AskPrice |-> 3]

\* An amount of 0 and one without leading zeroes; a price left out of the JSON
\* text is nil.  V is 0 or 1; R and S fill their 32 bytes (2, 3) or not (1).
R == INSTANCE Records WITH
  SignableData <- {Request("r1", 0, 1), Request("r2", 5, 3)},
  QuoteData <- {QuoteFor("q1", 0, NilInt), QuoteFor("q2", 3, 2)},
  Signature <- {[V |-> 0, R |-> 2, S |-> 1], [V |-> 1, R |-> 1, S |-> 3]},
  Validator <- 5, Quoter <- 6, StartTime <- 1,
  MaxRequests <- 1, MaxQuotes <- 2, MaxBlocks <- 2

MCType == {RFQRequestTxType, OpenRFQTxType, QuoteTxType}

MCSignature == [V : {0, 1}, R : 1..3, S : 1..3]

----------------------------------------------------------------------------
(* BlockCodec *)

B == INSTANCE BlockCodec WITH Tx <- 1..4, Key <- {k1, k2}, MaxTxs <- 5, MaxOps <- 4

----------------------------------------------------------------------------
(* Lookups: a byte is two of three digits, two of them decimal; 3 is x.     *)

\* Every text of up to three characters, what the API prints for the RFQs, and
\* texts that are too long.
MCText ==
  BoundedSeq(0..3, 3) \cup {<<0, 3, 1, 2>>, <<0, 3, 2, 2>>, <<0, 0, 1, 2>>, <<1, 2, 3, 3>>}

\* 00 spells a hash and a height, 12 and 22 only a hash.  Addresses are shorter
\* than they should be, with and without 0x, longer, and have a letter.
L == INSTANCE Lookups WITH
  Base <- 3, Decimal <- 2, HashLength <- 1, AddressLength <- 2, MaxInt <- 1,
  RFQ <- {<<5>>, <<8>>}, BlockHash <- <<<<7>>>>, Genesis <- <<0>>, Texts <- MCText,
  From <- {<<2>>, <<0, 3, 1, 2, 0, 1>>, <<2, 1, 1, 0, 1, 2>>, <<1, 3>>}, MaxQuotes <- 1

ASSUME LookupsAssumption == L!LookupsAssumption

----------------------------------------------------------------------------
(* AuctionHeap *)

\* Later RFQs end earlier, so that every push moves up; two end together.
MCRFQ == 1..5

MCRFQEndTime == [x \in MCRFQ |-> IF x = 5 THEN 1 ELSE 5 - x]

----------------------------------------------------------------------------

\* Blocks of every kind are built, and transactions of every type signed, only
\* where they are looked at.
MCInit ==
  /\ part \in {"records", "signing", "codec", "lookups", "heap", "pool"}
  /\ R!Init /\ L!Init /\ HeapInit /\ PoolInit
  /\ Init /\ (part # "signing" => type = RFQRequestTxType)
  /\ B!Init /\ (part # "codec" => built = <<>> /\ header.ParentHash = 0)

Records == R!Next /\ UNCHANGED <<vars, codecVars, lookupsVars, heapVars, poolVars>>
Signing == Next /\ UNCHANGED <<recordsVars, codecVars, lookupsVars, heapVars, poolVars>>
Codec == B!Next /\ UNCHANGED <<recordsVars, vars, lookupsVars, heapVars, poolVars>>
Lookups == L!Next /\ UNCHANGED <<recordsVars, vars, codecVars, heapVars, poolVars>>

\* Nothing is asked of the queue after a push and a pop have overlapped.
Heap ==
  /\ ~ overlapped
  /\ HeapNext /\ UNCHANGED <<recordsVars, vars, codecVars, lookupsVars, poolVars>>

Pool == PoolNext /\ UNCHANGED <<recordsVars, vars, codecVars, lookupsVars, heapVars>>

MCNext ==
  /\ UNCHANGED part
  /\ \/ part = "records" /\ Records
     \/ part = "signing" /\ Signing
     \/ part = "codec" /\ Codec
     \/ part = "lookups" /\ Lookups
     \/ part = "heap" /\ Heap
     \/ part = "pool" /\ Pool

allVars == <<part, recordsVars, vars, codecVars, lookupsVars, heapVars, poolVars>>

MCSpec == MCInit /\ [][MCNext]_allVars

----------------------------------------------------------------------------
(* The properties of the parts, where they are explained *)

\* The API's listings return what was signed (Records).
RecordsReadBack == R!RecordsReadBack

\* Requests and quotes of stored blocks verify when they are read (Records).
ClientTxsInBlocksVerify == R!ClientTxsInBlocksVerify

\* A block that verifies has the transactions it was built with (BlockCodec).
VerifiedIsAsBuilt == B!VerifiedIsAsBuilt

\* Encoding or storing a signed block does not spoil it (BlockCodec).
SignedStaysVerified == B!SignedStaysVerified

\* A path finds only the RFQ whose hash it spells, and a quote has the sender
\* that was spelled (Lookups).
TextsAreReadExactly == L!TextsAreReadExactly
=============================================================================
