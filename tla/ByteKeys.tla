------------------------------ MODULE ByteKeys ------------------------------
(***************************************************************************)
(* Keys of the key-value stores: byte strings, their order, and the two    *)
(* computations of the end of a range of keys.  A byte is a number up to   *)
(* MaxByte (0xff in the code), a key a sequence of bytes, and a nil slice  *)
(* is Nil.                                                                 *)
(***************************************************************************)
EXTENDS Naturals, Sequences, FiniteSetsExt

CONSTANTS
  MaxByte,      \* the byte 0xff
  Nil           \* a nil slice: as a limit, a key after all keys

ASSUME MaxByteAssumption == MaxByte \in Nat \ {0}

Byte == 0..MaxByte

ASSUME NilAssumption == Nil \notin Seq(Byte)

HasPrefix(key, prefix) ==
  /\ Len(prefix) <= Len(key)
  /\ SubSeq(key, 1, Len(prefix)) = prefix

\* bytes.Compare(a, b) < 0: the first difference decides, a prefix comes first.
Before(a, b) ==
  \E n \in 0 .. Len(a) :
    /\ n <= Len(b)
    /\ SubSeq(a, 1, n) = SubSeq(b, 1, n)
    /\ n < Len(b)
    /\ n = Len(a) \/ a[n + 1] < b[n + 1]

InRange(key, start, limit) ==
  /\ ~ Before(key, start)
  /\ limit = Nil \/ Before(key, limit)

\* Mutant of upperBound: a prefix that ends in 0xff gets no upper bound.
upperBoundUnbounded(prefix) ==
  IF prefix = <<>> \/ prefix[Len(prefix)] = MaxByte THEN Nil
  ELSE [prefix EXCEPT ![Len(prefix)] = @ + 1]

\* The prefix up to its last byte other than 0xff, that byte plus one.
upperBound(prefix) ==
  LET bumpable == {i \in 1..Len(prefix) : prefix[i] # MaxByte} IN
  IF bumpable = {} THEN Nil
  ELSE LET i == Max(bumpable) IN
       [SubSeq(prefix, 1, i) EXCEPT ![i] = prefix[i] + 1]

\* Mutant of compactLimit: the carry is lost.
compactLimitNoCarry(prefix) ==
  [i \in 1..Len(prefix) |->
     IF i = Len(prefix) THEN (prefix[i] + 1) % (MaxByte + 1) ELSE prefix[i]]

\* table.Compact with a nil limit: the prefix plus one, as a number of its own
\* length; overflown bytes stay in the limit as zeroes.  The loop does not run
\* for an empty prefix, which stays the empty string.
compactLimit(prefix) ==
  LET bumpable == {i \in 1..Len(prefix) : prefix[i] # MaxByte} IN
  IF bumpable = {} THEN IF prefix = <<>> THEN <<>> ELSE Nil
  ELSE LET last == Max(bumpable) IN
       [i \in 1..Len(prefix) |-> IF i < last THEN prefix[i]
                                 ELSE IF i = last THEN prefix[i] + 1 ELSE 0]
=============================================================================
