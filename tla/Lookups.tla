------------------------------ MODULE Lookups ------------------------------
(***************************************************************************)
(* How a client finds what the relayer holds: the hashes and addresses     *)
(* that the HTTP API prints, the texts it reads back from paths and        *)
(* bodies, and what each handler answers.  A handler is one step here;     *)
(* GET /block/:height, which takes several, is in BlockProduction, and     *)
(* what the tables hold byte for byte is in Records.                       *)
(*                                                                         *)
(* A text is a sequence of characters.  0 .. Base - 1 are the hexadecimal  *)
(* digits, whatever their case, the first Decimal of them also decimal     *)
(* ones; X is the letter of "0x" and stands for any other letter too.      *)
(***************************************************************************)
EXTENDS Naturals, Sequences, FiniteSets, SequencesExt

CONSTANTS
  Base, Decimal,  \* number of hexadecimal and of decimal digits
  HashLength, AddressLength,   \* in bytes
  MaxInt,         \* largest int
  RFQ,            \* hashes of the requests that clients post
  BlockHash,      \* hashes of the blocks after genesis, oldest first
  Genesis,        \* hash of the genesis block
  Texts,          \* texts clients send as hashes and heights
  From,           \* texts clients send as addresses
  MaxQuotes       \* bound on quotes

LookupsAssumption ==
  /\ Base \in Nat \ {0} /\ Decimal \in 1 .. Base
  /\ HashLength \in Nat \ {0} /\ AddressLength \in Nat \ {0}
  /\ IsFiniteSet(RFQ) /\ BlockHash \in Seq(Seq(Nat))

VARIABLES
  headers,      \* Blockchain.headers: the hashes of the chain
  memPool,      \* requests that no block holds yet
  txStore,      \* Blockchain.txStore: hashes of transactions
  committed,    \* history: the requests that blocks hold
  requested,    \* requests whose event the listener has not handled
  openRFQsMap,  \* hashes of open RFQs
  quotesTable,  \* stored quotes: the RFQ and the sender
  answer        \* the answer that the client has not read

chain == <<headers, memPool, txStore, committed>>
vars == <<chain, requested, openRFQsMap, quotesTable, answer>>

X == Base
Digit == 0 .. Base - 1
Fail == <<X>>    \* no bytes: not a hash

----------------------------------------------------------------------------
(* Conversions *)

\* encoding/hex: two digits a byte.
EncodeToString(b) ==
  [j \in 1 .. 2 * Len(b) |->
     LET byte == b[(j + 1) \div 2] IN IF j % 2 = 1 THEN byte \div Base ELSE byte % Base]

\* encoding/hex: the bytes before the first pair that is no byte, and whether
\* that was the whole text.
DecodeString(t) ==
  LET pairs == Len(t) \div 2
      good(j) == t[2 * j - 1] \in Digit /\ t[2 * j] \in Digit
      n == CHOOSE k \in 0 .. pairs : /\ \A j \in 1 .. k : good(j)
                                     /\ k < pairs => ~good(k + 1)
  IN  [bytes |-> [j \in 1 .. n |-> Base * t[2 * j - 1] + t[2 * j]], ok |-> 2 * n = Len(t)]

has0xPrefix(t) == Len(t) >= 2 /\ t[1] = 0 /\ t[2] = X

Without0x(t) == IF has0xPrefix(t) THEN SubSeq(t, 3, Len(t)) ELSE t

\* Hash.Hex, and Address.Hex but for the case of its letters.
Hex(b) == <<0, X>> \o EncodeToString(b)

\* FromHex drops the error of the decoder.
FromHex(t) ==
  LET s == Without0x(t) IN DecodeString(IF Len(s) % 2 = 1 THEN <<0>> \o s ELSE s).bytes

\* SetBytes crops from the left and pads on the left.
SetBytes(b, length) ==
  IF Len(b) > length THEN SubSeq(b, Len(b) - length + 1, Len(b))
  ELSE [j \in 1 .. length - Len(b) |-> 0] \o b

HexToAddress(t) == SetBytes(FromHex(t), AddressLength)

\* UnmarshalFixedJSON: the prefix is required, and every byte.
UnmarshalJSON(t) ==
  LET d == DecodeString(Without0x(t)) IN
  IF has0xPrefix(t) /\ d.ok /\ Len(d.bytes) = HashLength THEN d.bytes ELSE Fail

\* strconv.Atoi of a text without a sign.
Value(t) == FoldLeft(LAMBDA v, c : Decimal * v + c, 0, t)
IsInt(t) == t # <<>> /\ (\A j \in DOMAIN t : t[j] < Decimal) /\ Value(t) <= MaxInt

----------------------------------------------------------------------------
(* State *)

OK == 200
Created == 201
Accepted == 202
BadRequest == 400
Aborted == 0     \* the handler panics and net/http drops the connection

NoAnswer == [path |-> "none", text |-> <<>>, status |-> OK, found |-> {}]

Answer(path, t, status, found) ==
  answer' = [path |-> path, text |-> t, status |-> status, found |-> found]

Init ==
  /\ headers = <<Genesis>>
  /\ memPool = {} /\ txStore = {} /\ committed = {}
  /\ requested = {} /\ openRFQsMap = {} /\ quotesTable = {}
  /\ answer = NoAnswer

----------------------------------------------------------------------------
(* The node *)

\* POST /rfqs: the answer is the transaction, with its hash.
PostRFQRequest(h) ==
  /\ h \notin memPool \cup committed
  /\ memPool' = memPool \cup {h}
  /\ requested' = requested \cup {h}
  /\ Answer("POST /rfqs", <<>>, Accepted, {h})
  /\ UNCHANGED <<headers, txStore, committed, openRFQsMap, quotesTable>>

\* The listener opens the auction of a request.
OpenRFQ(h) ==
  /\ requested' = requested \ {h}
  /\ openRFQsMap' = openRFQsMap \cup {h}
  /\ UNCHANGED <<chain, quotesTable, answer>>

\* The manager closes it.
CloseRFQ(h) ==
  /\ openRFQsMap' = openRFQsMap \ {h}
  /\ UNCHANGED <<chain, requested, quotesTable, answer>>

\* addBlockWithoutValidation: txStore is not written.
AddBlock ==
  /\ Len(headers) <= Len(BlockHash)
  /\ headers' = Append(headers, BlockHash[Len(headers)])
  /\ committed' = committed \cup memPool
  /\ memPool' = {}
  /\ UNCHANGED <<txStore, requested, openRFQsMap, quotesTable, answer>>

----------------------------------------------------------------------------
(* The handlers of the API *)

Reads(path, t, status, found) ==
  /\ Answer(path, t, status, found)
  /\ UNCHANGED <<chain, requested, openRFQsMap, quotesTable>>

\* Mutant of ReadHash: the text is read the way HexToHash reads it.
ReadHashLeniently(t) == [status |-> OK, hash |-> SetBytes(FromHex(t), HashLength)]

\* The hash in a path: hex.DecodeString refuses a text, HashFromBytes panics at
\* another length.
ReadHash(t) ==
  LET d == DecodeString(t) IN
  IF ~d.ok THEN [status |-> BadRequest, hash |-> Fail]
  ELSE IF Len(d.bytes) # HashLength THEN [status |-> Aborted, hash |-> Fail]
  ELSE [status |-> OK, hash |-> d.bytes]

\* A lookup by the hash in the path: what it finds among the known, and the
\* status of a hash that is not among them.
ByHash(path, t, known, missing) ==
  LET r == ReadHash(t) IN
  IF r.status = OK
  THEN Reads(path, t, IF r.hash \in known THEN OK ELSE missing, known \cap {r.hash})
  ELSE Reads(path, t, r.status, {})

HandleGetTx(t) == ByHash("GET /tx", t, txStore, BadRequest)

HandleGetOpenRFQRequest(t) == ByHash("GET /openRFQs", t, openRFQsMap, BadRequest)

\* GetAuctionQuotes: an RFQ without quotes has the empty list.
HandleGetAuctionQuotes(t) ==
  ByHash("GET /quotes", t, {q.rfq : q \in quotesTable}, OK)

\* A number is a height.  GetBlockByHash returns a block without a header for
\* every hash, and intoJSONBlock panics on it.
HandleGetBlock(t) == ~IsInt(t) /\ ByHash("GET /block", t, {}, Aborted)

\* GetBlockHeader refuses heights above the length; the length itself is out
\* of the slice's range.
HandleGetHeaders(t) ==
  IF ~IsInt(t) \/ Value(t) > Len(headers) THEN Reads("GET /headers", t, BadRequest, {})
  ELSE IF Value(t) = Len(headers) THEN Reads("GET /headers", t, Aborted, {})
  ELSE Reads("GET /headers", t, OK, {headers[Value(t) + 1]})

\* POST /quotes: the hash is read by the JSON decoder, the sender by
\* HexToAddress; an RFQ that is not open is refused.
HandlePostQuote(t, from) ==
  LET h == UnmarshalJSON(t) IN
  IF h \notin openRFQsMap THEN Reads("POST /quotes", t, BadRequest, {})
  ELSE /\ Cardinality(quotesTable) < MaxQuotes
       /\ quotesTable' = quotesTable \cup {[rfq |-> h, from |-> HexToAddress(from), text |-> from]}
       /\ Answer("POST /quotes", t, Created, {h})
       /\ UNCHANGED <<chain, requested, openRFQsMap>>

\* The client reads the answer and may send its next request.
Receive ==
  /\ answer # NoAnswer
  /\ answer' = NoAnswer
  /\ UNCHANGED <<chain, requested, openRFQsMap, quotesTable>>

\* A connection serves one request at a time.
Request ==
  /\ answer = NoAnswer
  /\ \/ \E h \in RFQ : PostRFQRequest(h)
     \/ \E t \in Texts : \/ HandleGetTx(t)
                         \/ HandleGetOpenRFQRequest(t)
                         \/ HandleGetAuctionQuotes(t)
                         \/ HandleGetBlock(t)
                         \/ HandleGetHeaders(t)
                         \/ \E from \in From : HandlePostQuote(t, from)

Next ==
  \/ \E h \in requested : OpenRFQ(h)
  \/ \E h \in openRFQsMap : CloseRFQ(h)
  \/ AddBlock
  \/ Request
  \/ Receive

Spec == Init /\ [][Next]_vars

----------------------------------------------------------------------------
(* Properties *)

\* A path finds only what it spells, digit by digit: no text that is too
\* short, too long or partly unreadable is cropped or padded into the hash of
\* another RFQ (handleGetOpenRFQRequest, handleGetAuctionQuotes, handleGetTx).
LookupIsExact ==
  answer.path \in {"GET /tx", "GET /openRFQs", "GET /quotes"} =>
    \A h \in answer.found : answer.text = EncodeToString(h)

Number(t) == FoldLeft(LAMBDA v, c : Base * v + c, 0, t)

\* The sender of a stored quote is the number its text spells, cut to the
\* width of an address, with or without 0x and whatever the number of digits
\* (HexToAddress in handlePostQuote).
SendersAreKept ==
  \A q \in quotesTable :
    LET s == Without0x(q.text) IN
    (\A j \in DOMAIN s : s[j] \in Digit) =>
      Number(EncodeToString(q.from)) = Number(s) % Base ^ (2 * AddressLength)

\* Texts of clients are read exactly: neither a lookup nor a sender is another
\* than the one that was spelled.
TextsAreReadExactly == LookupIsExact /\ SendersAreKept

----------------------------------------------------------------------------
(* What the documents say and the code does not do: TLC refutes these. *)

\* The step is an answer to GET on path with text t.
Asked(path, t) == answer = NoAnswer /\ answer'.path = path /\ answer'.text = t

\* An open RFQ is found under the hash that the API shows for it, as in "GET
\* /openRFQs/:rfqTxHash" (Readme.md), where a rfqTxHash starts with 0x.
PrintedHashIsFound ==
  [][\A h \in openRFQsMap : Asked("GET /openRFQs", Hex(h)) => answer'.status = OK]_vars

\* A transaction that a block holds is found by its hash: "GET /tx/:hash"
\* (Readme.md).
CommittedTxIsFound ==
  [][\A h \in committed : Asked("GET /tx", EncodeToString(h)) => answer'.status = OK]_vars

\* A block of the chain is found by its hash: "GET /block/:hashorid"
\* (Readme.md).
BlockIsFoundByHash ==
  [][\A h \in ToSet(headers) : Asked("GET /block", EncodeToString(h)) => answer'.status = OK]_vars

\* A height the chain has not reached is answered with an error: "blockchain
\* height [%d] is less than requested height [%d]" (blockchain.go).
HeightIsChecked == answer.path = "GET /headers" => answer.status # Aborted
=============================================================================
