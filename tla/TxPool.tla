------------------------------- MODULE TxPool -------------------------------
(***************************************************************************)
(* The memory pool of network/txpool.go as operators on sequences.         *)
(*                                                                         *)
(* A TxSortedMap (a Go map and a List that always hold the same            *)
(* transactions, both changed under the map's own lock) is the sequence of *)
(* its transactions, oldest first.  A transaction is named by its hash.    *)
(* A pool is a record [all, pending]: `all' remembers what was admitted    *)
(* until it is pruned, `pending' is what the next block takes.             *)
(***************************************************************************)
EXTENDS Naturals, Sequences

CONSTANT MaxLength      \* TxPool.maxLength, 1000 in NewServer

\* Pruning an empty pool would make List.Get(0) panic.
ASSUME MaxLengthAssumption == MaxLength \in Nat \ {0}

NewTxPool == [all |-> <<>>, pending |-> <<>>]

Contains(txx, tx) == \E i \in 1..Len(txx) : txx[i] = tx

SortedMapAdd(txx, tx) == IF Contains(txx, tx) THEN txx ELSE Append(txx, tx)

\* Drops the first, that is the oldest, transaction of a full `all'.
PruneOldest(all) == IF Len(all) = MaxLength THEN Tail(all) ELSE all

\* What TxPool.Add does to `all'.
AddToAll(all, tx) == SortedMapAdd(PruneOldest(all), tx)

\* TxPool.Add: the pruning comes first, and prunes `all' only.
AddTx(pool, tx) ==
  [all     |-> AddToAll(pool.all, tx),
   pending |-> IF Contains(PruneOldest(pool.all), tx)
               THEN pool.pending
               ELSE SortedMapAdd(pool.pending, tx)]

ClearPending(pool) == [pool EXCEPT !.pending = <<>>]
=============================================================================
