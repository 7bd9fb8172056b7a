------------------------------ MODULE RLPCodec ------------------------------
(***************************************************************************)
(* The RLP encoding of the records of core/types, and its decoders.  An    *)
(* RLP item is a string of bytes, kept as its value and its length, or a   *)
(* list of items.  There are two families of decoders: DecodeRLP reads     *)
(* from a stream into a Go struct, FromInterfaces takes apart a decoded    *)
(* []interface{}.  A transaction of type OpenRFQ is read by the second     *)
(* family, the records inside it are written for the first.                *)
(*                                                                         *)
(* Bytes are digits of Base, and the lengths of an address, a hash and an  *)
(* unsigned integer are scaled down with it: what matters is whether a     *)
(* number fills its field or has leading zeroes.                           *)
(***************************************************************************)
EXTENDS Integers, Sequences

CONSTANTS
  Base,           \* values of a byte
  AddressLength,  \* 20 bytes
  HashLength,     \* 32 bytes, also of the R and S of a signature
  UintLength      \* 8 bytes of a uint64

NilInt == -1                 \* a nil *big.Int
NilToken == [nil |-> TRUE]   \* a nil *Token
Fail == [fail |-> TRUE]      \* a decoder returned an error or panicked

RFQRequestTxType == 0
OpenRFQTxType == 1
QuoteTxType == 5

----------------------------------------------------------------------------
(* Items.  The rlp library is external. *)

Str(v, n) == [val |-> v, len |-> n]

Lst(s) == [items |-> s]

IsStr(i) == "val" \in DOMAIN i

IsLst(i, n) == "items" \in DOMAIN i /\ Len(i.items) = n

ByteLen(n) == CHOOSE k \in 0 .. n : /\ n < Base ^ k
                                    /\ k = 0 \/ n >= Base ^ (k - 1)

\* Integers are written without leading zeroes, so 0 is the empty string.
Uint(n) == Str(n, ByteLen(n))

\* A nil *big.Int is written as the empty string, and read back as 0.
Big(n) == IF n = NilInt THEN Uint(0) ELSE Uint(n)

Address(a) == Str(a, AddressLength)

Hash(h) == Str(h, HashLength)

\* Names, symbols, states and public keys; nobody looks at their length.
Text(s) == Str(s, 1)

IsFixed(i, n) == IsStr(i) /\ i.len = n

\* What a uint64 field of a struct accepts, and what a *big.Int accepts.
IsUint(i) == IsStr(i) /\ i.len <= UintLength /\ i.len = ByteLen(i.val)
IsBig(i) == IsStr(i) /\ i.len = ByteLen(i.val)

\* Mutant of IsPadded: only a number that fills its eight bytes is taken.
IsPaddedNever(i) == IsFixed(i, UintLength)

\* FromInterfaces pads up to eight bytes on the left.
IsPadded(i) == IsStr(i) /\ i.len <= UintLength

----------------------------------------------------------------------------
(* Token and SignableData *)

\* A nil *Token is written as an empty list.
EncodeToken(t) ==
  IF t = NilToken THEN Lst(<<>>)
  ELSE Lst(<<Address(t.Address), Text(t.Symbol), Uint(t.Decimals)>>)

TokenOf(i) ==
  [Address |-> i.items[1].val, Symbol |-> i.items[2].val, Decimals |-> i.items[3].val]

DecodeToken(i) ==
  IF /\ IsLst(i, 3) /\ IsFixed(i.items[1], AddressLength)
     /\ IsStr(i.items[2]) /\ IsUint(i.items[3])
  THEN TokenOf(i) ELSE Fail

TokenFromInterfaces(i) ==
  IF IsLst(i, 3) /\ IsStr(i.items[1]) /\ IsStr(i.items[2]) /\ IsPadded(i.items[3])
  THEN TokenOf(i) ELSE Fail

EncodeSignableData(d) ==
  Lst(<<Text(d.RequestorId), Big(d.BaseTokenAmount), EncodeToken(d.BaseToken),
        EncodeToken(d.QuoteToken), Uint(d.RFQDurationMs)>>)

SignableDataOf(i, base, quote) ==
  IF Fail \in {base, quote} THEN Fail
  ELSE [RequestorId |-> i.items[1].val, BaseTokenAmount |-> i.items[2].val,
        BaseToken |-> base, QuoteToken |-> quote, RFQDurationMs |-> i.items[5].val]

DecodeSignableData(i) ==
  IF IsLst(i, 5) /\ IsStr(i.items[1]) /\ IsBig(i.items[2]) /\ IsUint(i.items[5])
  THEN SignableDataOf(i, DecodeToken(i.items[3]), DecodeToken(i.items[4]))
  ELSE Fail

SignableDataFromInterfaces(i) ==
  IF IsLst(i, 5) /\ IsStr(i.items[1]) /\ IsStr(i.items[2]) /\ IsPadded(i.items[5])
  THEN SignableDataOf(i, TokenFromInterfaces(i.items[3]), TokenFromInterfaces(i.items[4]))
  ELSE Fail

----------------------------------------------------------------------------
(* QuoteData *)

EncodeQuoteData(q) ==
  Lst(<<Text(q.QuoterId), Hash(q.RFQTxHash), Uint(q.QuoteExpiryTime),
        EncodeToken(q.BaseToken), EncodeToken(q.QuoteToken), Big(q.BaseTokenAmount),
        Big(q.BidPrice), Big(q.AskPrice), Lst(<<>>)>>)

QuoteDataOf(i, base, quote) ==
  IF Fail \in {base, quote} THEN Fail
  ELSE [QuoterId |-> i.items[1].val, RFQTxHash |-> i.items[2].val,
        QuoteExpiryTime |-> i.items[3].val, BaseToken |-> base, QuoteToken |-> quote,
        BaseTokenAmount |-> i.items[6].val, BidPrice |-> i.items[7].val,
        AskPrice |-> i.items[8].val]

\* Mutant of DecodeQuoteData: a field is forgotten.
DecodeQuoteDataForgets(i) ==
  IF IsLst(i, 9)
  THEN [QuoteDataOf(i, DecodeToken(i.items[4]), DecodeToken(i.items[5])) EXCEPT
          !.QuoteExpiryTime = 0]
  ELSE Fail

\* The ninth field, the public keys, is empty in this model.
DecodeQuoteData(i) ==
  IF /\ IsLst(i, 9) /\ IsStr(i.items[1]) /\ IsFixed(i.items[2], HashLength)
     /\ IsUint(i.items[3])
     /\ IsBig(i.items[6]) /\ IsBig(i.items[7]) /\ IsBig(i.items[8])
  THEN QuoteDataOf(i, DecodeToken(i.items[4]), DecodeToken(i.items[5]))
  ELSE Fail

\* It asks for eight fields and then reads a ninth, which panics.
QuoteDataFromInterfaces(i) ==
  IF /\ IsLst(i, 8) /\ 9 \in DOMAIN i.items
     /\ IsStr(i.items[1]) /\ IsFixed(i.items[2], HashLength) /\ IsPadded(i.items[3])
     /\ IsStr(i.items[6]) /\ IsStr(i.items[7]) /\ IsStr(i.items[8])
  THEN QuoteDataOf(i, TokenFromInterfaces(i.items[4]), TokenFromInterfaces(i.items[5]))
  ELSE Fail

----------------------------------------------------------------------------
(* Signed records: the sender, the data and the signature *)

SignedItem(x, data) == Lst(<<Address(x.From), data, Big(x.V), Big(x.R), Big(x.S)>>)

Signed(i, data) ==
  [From |-> i.items[1].val, Data |-> data, V |-> i.items[3].val,
   R |-> i.items[4].val, S |-> i.items[5].val]

\* The stream decoders of RFQRequest and Quote.
DecodeSigned(i, data) ==
  IF /\ IsLst(i, 5) /\ IsFixed(i.items[1], AddressLength) /\ data # Fail
     /\ IsBig(i.items[3]) /\ IsBig(i.items[4]) /\ IsBig(i.items[5])
  THEN Signed(i, data) ELSE Fail

EncodeRFQRequest(r) == SignedItem(r, EncodeSignableData(r.Data))

DecodeRFQRequest(i) == DecodeSigned(i, DecodeSignableData(i.items[2]))

EncodeQuote(q) == SignedItem(q, EncodeQuoteData(q.Data))

DecodeQuote(i) == DecodeSigned(i, DecodeQuoteData(i.items[2]))

\* V must fill one byte, R and S thirty-two.
QuoteFromInterfaces(i) ==
  LET data == QuoteDataFromInterfaces(i.items[2]) IN
  IF /\ IsLst(i, 5) /\ IsFixed(i.items[1], AddressLength) /\ data # Fail
     /\ IsFixed(i.items[3], 1)
     /\ IsFixed(i.items[4], HashLength) /\ IsFixed(i.items[5], HashLength)
  THEN Signed(i, data) ELSE Fail

----------------------------------------------------------------------------
(* OpenRFQ *)

\* The times are written as eight bytes, whatever their value.
EncodeRFQData(d) ==
  Lst(<<Hash(d.RFQTxHash), EncodeSignableData(d.RFQRequest),
        Str(d.RFQStartTime, UintLength), Str(d.RFQEndTime, UintLength),
        Lst([j \in DOMAIN d.Quotes |-> EncodeQuote(d.Quotes[j])]),
        Address(d.SettlementContract), Address(d.MatchingContract), Text(d.Status)>>)

RFQDataFromInterfaces(i) ==
  LET request == SignableDataFromInterfaces(i.items[2])
      quotes == [j \in DOMAIN i.items[5].items |-> QuoteFromInterfaces(i.items[5].items[j])]
  IN  IF /\ IsLst(i, 8) /\ IsFixed(i.items[1], HashLength) /\ request # Fail
         /\ IsPadded(i.items[3]) /\ IsPadded(i.items[4])
         /\ \A j \in DOMAIN quotes : quotes[j] # Fail
      THEN [RFQTxHash |-> i.items[1].val, RFQRequest |-> request,
            RFQStartTime |-> i.items[3].val, RFQEndTime |-> i.items[4].val,
            Quotes |-> quotes, SettlementContract |-> i.items[6].val,
            MatchingContract |-> i.items[7].val, Status |-> i.items[8].val]
      ELSE Fail

EncodeOpenRFQ(r) == SignedItem(r, EncodeRFQData(r.Data))

\* Through []interface{}; V, R and S may have any length.
DecodeOpenRFQ(i) ==
  LET data == RFQDataFromInterfaces(i.items[2]) IN
  IF /\ IsLst(i, 5) /\ IsFixed(i.items[1], AddressLength) /\ data # Fail
     /\ IsStr(i.items[3]) /\ IsStr(i.items[4]) /\ IsStr(i.items[5])
  THEN Signed(i, data) ELSE Fail

----------------------------------------------------------------------------
(* Transactions: a type byte and the record it stands for *)

\* TxData.data of the record in a transaction, the bytes that are hashed.
TxDataBytes(type, data) ==
  CASE type = RFQRequestTxType -> EncodeSignableData(data)
    [] type = OpenRFQTxType    -> EncodeRFQData(data)
    [] type = QuoteTxType      -> EncodeQuoteData(data)

\* Neither the sender nor the signature is part of the hash.  The hash function
\* is taken to be injective.
TxHash(type, data) == <<type, TxDataBytes(type, data)>>

EncodeTyped(type, x) ==
  [type |-> type,
   item |-> CASE type = RFQRequestTxType -> EncodeRFQRequest(x)
              [] type = OpenRFQTxType    -> EncodeOpenRFQ(x)
              [] type = QuoteTxType      -> EncodeQuote(x)]

DecodeTyped(b) ==
  CASE b.type = RFQRequestTxType -> DecodeRFQRequest(b.item)
    [] b.type = OpenRFQTxType    -> DecodeOpenRFQ(b.item)
    [] b.type = QuoteTxType      -> DecodeQuote(b.item)
    [] OTHER                     -> Fail
=============================================================================
