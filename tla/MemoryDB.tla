------------------------------ MODULE MemoryDB ------------------------------
(***************************************************************************)
(* rfqdb/memorydb: a Go map behind a lock.  Every operation is one section *)
(* under Database.lock, hence one action.  A batch is used by one          *)
(* goroutine at a time, but its Replay calls the target once per           *)
(* operation, and other goroutines may run in between: it is a step per    *)
(* operation.  Left out: the size a batch keeps for ValueSize.             *)
(***************************************************************************)
EXTENDS ByteKeys, SequencesExt, TLC

CONSTANTS Batch, Snap, Iter, Absent

VARIABLES
  db,           \* the map from keys to values; Nil once closed
  writes,       \* batch.writes: key, value; a deletion has the value Absent
  snap,         \* snapshot.db, or Nil
  iter          \* index (0 before the first pair) and pairs, in key order

memVars == <<db, writes, snap, iter>>

closed == db = Nil

\* Stands for `nil' as well, which NewIterator and newSnapshot can range over.
Entries == IF closed THEN <<>> ELSE db

released == [index |-> 0, pairs |-> <<>>]

MemInit ==
  /\ db = <<>>
  /\ writes = [b \in Batch |-> <<>>]
  /\ snap = [s \in Snap |-> Nil]
  /\ iter = [i \in Iter |-> released]

\* One write, of Database.Put, of Database.Delete or of a batch.
Apply(map, w) ==
  IF w.value = Absent THEN Restrict(map, DOMAIN map \ {w.key})
  ELSE (w.key :> w.value) @@ map

Get(key) == IF key \in DOMAIN Entries THEN Entries[key] ELSE Absent

\* Put and Delete return an error once the store is closed.
Put(key, value) ==
  /\ ~ closed
  /\ db' = Apply(db, [key |-> key, value |-> value])
  /\ UNCHANGED <<writes, snap, iter>>

batchPut(b, key, value) ==
  /\ writes' = [writes EXCEPT ![b] = Append(@, [key |-> key, value |-> value])]
  /\ UNCHANGED <<db, snap, iter>>

\* All writes in order, under the lock; the batch keeps them.
batchWrite(b) ==
  /\ ~ closed
  /\ db' = FoldLeft(Apply, db, writes[b])
  /\ UNCHANGED <<writes, snap, iter>>

batchReset(b) ==
  /\ writes' = [writes EXCEPT ![b] = <<>>]
  /\ UNCHANGED <<db, snap, iter>>

\* A copy of the map; of an empty one when the store is closed.
NewSnapshot(s) ==
  /\ snap' = [snap EXCEPT ![s] = Entries]
  /\ UNCHANGED <<db, writes, iter>>

snapshotGet(s, key) == IF key \in DOMAIN snap[s] THEN snap[s][key] ELSE Absent

\* The pairs from prefix + start on that have the prefix, sorted by key.
NewIterator(i, prefix, start) ==
  LET keys == {k \in DOMAIN Entries : /\ HasPrefix(k, prefix)
                                      /\ ~ Before(k, prefix \o start)}
      sorted == SetToSortSeq(keys, Before)
  IN  /\ iter' = [iter EXCEPT ![i] =
           [index |-> 0,
            pairs |-> [j \in DOMAIN sorted |-> <<sorted[j], Entries[sorted[j]]>>]]]
      /\ UNCHANGED <<db, writes, snap>>

\* Past the last pair the iterator stays exhausted.
IteratorNext(i) ==
  /\ iter[i].index <= Len(iter[i].pairs)
  /\ iter' = [iter EXCEPT ![i].index = @ + 1]
  /\ UNCHANGED <<db, writes, snap>>

\* iterator.Release and snapshot.Release.
ReleaseIterator(i) ==
  /\ iter' = [iter EXCEPT ![i] = released]
  /\ UNCHANGED <<db, writes, snap>>

ReleaseSnapshot(s) ==
  /\ snap' = [snap EXCEPT ![s] = Nil]
  /\ UNCHANGED <<db, writes, iter>>

Close ==
  /\ db' = Nil
  /\ UNCHANGED <<writes, snap, iter>>
=============================================================================
