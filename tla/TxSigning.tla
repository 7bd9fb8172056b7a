----------------------------- MODULE TxSigning -----------------------------
(***************************************************************************)
(* The ways a transaction gets its signature, the encodings it passes      *)
(* through afterwards, and the two ways to check it: Verify, which the     *)
(* node uses, and Sender of transaction_signing.go.  The data of the       *)
(* transaction never changes here, so it has two hashes only: tx.Hash and  *)
(* the hash of a Signer, which covers the sender too.  A signature is made *)
(* of V, R and S and remembers which of the two it was made for.           *)
(***************************************************************************)
EXTENDS RLPCodec

CONSTANTS
  Type,       \* transaction types
  Signature,  \* outcomes of signing: V, R and S
  MaxTrips    \* bound on the encodings a transaction passes through

\* What crypto.Sign returns.
ASSUME SigningAssumption ==
  /\ HashLength \in Nat
  /\ Signature \subseteq [V : {0, 1}, R : Nat \ {0}, S : Nat \ {0}]

Unsigned == [V |-> 0, R |-> 0, S |-> 0]

VARIABLES
  type,       \* the transaction's type
  sig,        \* its V, R and S
  over,       \* the hash they sign: "none", "tx" or "signer"
  origin,     \* how it was signed
  outcome,    \* "ok", or the error or panic that ended it
  trips       \* encodings so far

vars == <<type, sig, over, origin, outcome, trips>>

\* NewTx copies the record it is given: a nil signature becomes 0.
Init ==
  /\ type \in Type
  /\ sig = Unsigned /\ over = "none" /\ origin = "none"
  /\ outcome = "ok" /\ trips = 0

----------------------------------------------------------------------------
(* Signatures as bytes *)

SignatureLength == 2 * HashLength + 1

\* Signature.ToBytes pads R and S to 32 bytes, and V is one byte.
ToBytes(s) == [r |-> Str(s.R, HashLength), s |-> Str(s.S, HashLength), v |-> Str(s.V, 1)]

LengthOf(b) == b.r.len + b.s.len + b.v.len

\* SignatureValues, and DeserializeSig in the same way.
SignatureValues(b) ==
  IF LengthOf(b) # SignatureLength THEN Fail
  ELSE [V |-> b.v.val, R |-> b.r.val, S |-> b.s.val]

\* v is a byte; the curve's order bounds r and s in the code.
ValidateSignatureValues(v, s) == v \in {0, 1} /\ s.R > 0 /\ s.S > 0

----------------------------------------------------------------------------
(* Signing *)

\* WithSignature puts a signature, given as bytes, on a copy of the transaction.
WithSignature(b, hash, how) ==
  LET values == SignatureValues(b) IN
  /\ origin = "none" /\ origin' = how
  /\ IF values = Fail
     THEN outcome' = "ErrInvalidSig" /\ UNCHANGED <<sig, over>>
     ELSE sig' = values /\ over' = hash /\ UNCHANGED outcome
  /\ UNCHANGED <<type, trips>>

\* Transaction.Sign, used by the API and the listener.
Sign(s) ==
  /\ origin = "none" /\ origin' = "Sign"
  /\ sig' = s /\ over' = "tx"
  /\ UNCHANGED <<type, outcome, trips>>

\* A client signs the hash and sends the signature as text; handlePostQuote
\* reads it, writes it as bytes again, and puts it on the transaction.
ClientSignature(s) ==
  LET received == SignatureValues(ToBytes(s)) IN
  /\ received # Fail
  /\ WithSignature(ToBytes(received), "tx", "client")

\* SignTx signs the Signer's hash.
SignTx(s) == WithSignature(ToBytes(s), "signer", "SignTx")

\* SignNewTx joins R and S as they are.
SignNewTx(s) ==
  WithSignature([r |-> Uint(s.R), s |-> Uint(s.S), v |-> Str(s.V, 1)], "tx", "SignNewTx")

----------------------------------------------------------------------------
(* Encodings *)

\* Mutant of RLPTrip: V, R and S are kept in fields of a fixed length.
RLPTripFixed ==
  LET v == Uint(sig.V) r == Uint(sig.R) s == Uint(sig.S) IN
  /\ IF v.len <= 1 /\ r.len = HashLength /\ s.len = HashLength
     THEN UNCHANGED <<sig, outcome>>
     ELSE outcome' = "error" /\ UNCHANGED sig
  /\ UNCHANGED <<type, over, origin>>

\* EncodeRLP and DecodeRLP, MarshalBinary and UnmarshalBinary.
RLPTrip ==
  LET v == Big(sig.V) r == Big(sig.R) s == Big(sig.S) IN
  /\ IF IsBig(v) /\ IsBig(r) /\ IsBig(s)
     THEN sig' = [V |-> v.val, R |-> r.val, S |-> s.val] /\ UNCHANGED outcome
     ELSE outcome' = "error" /\ UNCHANGED sig
  /\ UNCHANGED <<type, over, origin>>

\* The signature is written for requests only, as is the input.
MarshalJSON == IF type = RFQRequestTxType THEN sig ELSE Fail

\* V is not looked at.
sanityCheckSignature(s) == ValidateSignatureValues(0, s)

\* MarshalJSON and UnmarshalJSON, which reads requests only and checks a
\* signature other than 0.
JSONTrip ==
  LET dec == MarshalJSON IN
  /\ outcome' = IF type # RFQRequestTxType THEN "ErrTxTypeNotSupported"
                ELSE IF dec # Unsigned /\ ~ sanityCheckSignature(dec)
                     THEN "ErrInvalidSig" ELSE outcome
  /\ sig' = IF outcome' = "ok" THEN dec ELSE sig
  /\ UNCHANGED <<type, over, origin>>

Trip ==
  /\ outcome = "ok" /\ trips < MaxTrips /\ trips' = trips + 1
  /\ RLPTrip \/ JSONTrip

----------------------------------------------------------------------------
(* Checking *)

\* Transaction.Verify: the key recovered for tx.Hash is the sender's.
Verify == ValidateSignatureValues(sig.V, sig) /\ over = "tx"

\* Sender never finds its cache: Equal compares a pointer with a value.
\* recoverPlain takes 27 from V, as a byte, and panics if what is left is not
\* 0 or 1; otherwise it recovers the key for the Signer's hash.
Sender ==
  /\ outcome = "ok"
  /\ outcome' = IF ~ ValidateSignatureValues((sig.V - 27) % 256, sig) THEN "panic"
                ELSE IF over = "signer" THEN "ok" ELSE "another address"
  /\ UNCHANGED <<type, sig, over, origin, trips>>

Next ==
  \/ \E s \in Signature : Sign(s) \/ ClientSignature(s) \/ SignTx(s) \/ SignNewTx(s)
  \/ Trip
  \/ Sender

Spec == Init /\ [][Next]_vars

----------------------------------------------------------------------------
(* Properties *)

\* A transaction signed by Transaction.Sign, or by a client, verifies, and
\* still does after every encoding it passes without an error; only the type
\* makes an encoding fail, and only in JSON.
SignedVerifies ==
  origin \in {"Sign", "client"} =>
    /\ Verify
    /\ outcome \in {"ok", "ErrTxTypeNotSupported", "panic"}
    /\ type = RFQRequestTxType => outcome # "ErrTxTypeNotSupported"

----------------------------------------------------------------------------
(* What the documents say and the code does not do: TLC refutes these. *)

\* The hash that SignTx signs is the one that Verify checks: Signer.Hash is
\* documented as "the transaction hash that is signed by the private key".
SignTxVerifies == origin = "SignTx" => Verify

\* SignNewTx "creates a transaction and signs it", whatever R and S are.
SignNewTxSigns == origin = "SignNewTx" => outcome # "ErrInvalidSig"

\* For a transaction that was signed Sender returns an address, "and an error
\* if it failed deriving".
SenderReturns == origin # "none" => outcome # "panic"
=============================================================================
