------------------------------ MODULE PebbleDB ------------------------------
(***************************************************************************)
(* rfqdb/pebble: the wrapper around the Pebble engine in which a node      *)
(* keeps its blocks and tables.  The engine itself is external: a map with *)
(* atomic batches, snapshots, and iterators over a range of keys of one    *)
(* version of the map.  What is modelled is what the wrapper adds: the     *)
(* bounds it gives to iterators, the position it keeps, Close, and the     *)
(* counters of PebbleMeter.  The metrics loop (meter) is never started:    *)
(* New leaves quitChan nil.                                                *)
(***************************************************************************)
EXTENDS ByteKeys, PebbleMeter, SequencesExt, TLC

CONSTANTS
  Key, Value, Seek, Batch, Snap, Iter, Absent,
  MaxWrites     \* bound on the operations of one batch

VARIABLES
  db,           \* the engine's map: key -> value or Absent
  batch,        \* handle -> [ops, applied]
  snap,         \* handle -> a version of the map, or Nil
  iter,         \* handle -> [pairs in range, position, moved]
  closeCalled   \* Close has returned

storeVars == <<db, batch, snap, iter, closeCalled>>
vars == <<storeVars, meterVars>>

noBatch == [ops |-> <<>>, applied |-> FALSE]
noIter  == [pairs |-> <<>>, position |-> 1, moved |-> FALSE]

Init ==
  /\ db = [k \in Key |-> Absent]
  /\ batch = [b \in Batch |-> noBatch]
  /\ snap = [s \in Snap |-> Nil] /\ iter = [i \in Iter |-> noIter]
  /\ closeCalled = FALSE
  /\ MeterInit

----------------------------------------------------------------------------
(* Reads and writes *)

\* Put, or Delete when v is Absent.
Put(k, v) ==
  /\ db' = [db EXCEPT ![k] = v]
  /\ UNCHANGED <<batch, snap, iter, closeCalled>>

batchPut(b, k, v) ==
  /\ ~ batch[b].applied /\ Len(batch[b].ops) < MaxWrites
  /\ batch' = [batch EXCEPT ![b].ops = Append(@, [key |-> k, value |-> v])]
  /\ UNCHANGED <<db, snap, iter, closeCalled>>

ApplyOp(map, op) == [map EXCEPT ![op.key] = op.value]

\* Commit.  The engine takes a batch once; it must be reset before its next use.
batchWrite(b) ==
  /\ ~ batch[b].applied
  /\ db' = FoldLeft(ApplyOp, db, batch[b].ops)
  /\ batch' = [batch EXCEPT ![b].applied = TRUE]
  /\ UNCHANGED <<snap, iter, closeCalled>>

batchReset(b) ==
  /\ batch' = [batch EXCEPT ![b] = noBatch]
  /\ UNCHANGED <<db, snap, iter, closeCalled>>

NewSnapshot(s) ==
  /\ snap' = [snap EXCEPT ![s] = db]
  /\ UNCHANGED <<db, batch, iter, closeCalled>>

SnapshotRelease(s) ==
  /\ snap' = [snap EXCEPT ![s] = Nil]
  /\ UNCHANGED <<db, batch, iter, closeCalled>>

\* The engine's iterator over [lower, upper), placed on its first pair.
EngineIter(lower, upper) ==
  LET keys == {k \in Key : db[k] # Absent /\ InRange(k, lower, upper)}
      sorted == SetToSortSeq(keys, Before)
  IN  [j \in DOMAIN sorted |-> <<sorted[j], db[sorted[j]]>>]

NewIterator(i, prefix, start) ==
  /\ iter' = [iter EXCEPT ![i] =
       [pairs    |-> EngineIter(prefix \o start, upperBound(prefix)),
        position |-> 1,
        moved    |-> TRUE]]
  /\ UNCHANGED <<db, batch, snap, closeCalled>>

\* The first Next only accepts where First has placed the engine's iterator.
IterNext(i) ==
  /\ iter[i].moved \/ iter[i].position <= Len(iter[i].pairs)
  /\ iter' = [iter EXCEPT ![i].moved = FALSE,
                          ![i].position = IF iter[i].moved THEN @ ELSE @ + 1]
  /\ UNCHANGED <<db, batch, snap, closeCalled>>

IterRelease(i) ==
  /\ iter' = [iter EXCEPT ![i] = noIter]
  /\ UNCHANGED <<db, batch, snap, closeCalled>>

\* quitChan is nil, so Close takes its early return and leaves the engine open.
Close ==
  /\ closeCalled' = TRUE
  /\ UNCHANGED <<db, batch, snap, iter>>

----------------------------------------------------------------------------

Access ==
  /\ \/ \E k \in Key, v \in Value \cup {Absent} :
          Put(k, v) \/ \E b \in Batch : batchPut(b, k, v)
     \/ \E b \in Batch : batchWrite(b) \/ batchReset(b)
     \/ \E s \in Snap : NewSnapshot(s) \/ SnapshotRelease(s)
     \/ \E i \in Iter : \/ \E prefix, start \in Seek : NewIterator(i, prefix, start)
                        \/ IterNext(i)
                        \/ IterRelease(i)
     \/ Close
  /\ UNCHANGED meterVars

\* An event of the engine.
Event == MeterNext /\ UNCHANGED storeVars

Next == Access \/ Event

Spec == Init /\ [][Next]_vars

----------------------------------------------------------------------------
(* Properties *)

Store == INSTANCE KVStore WITH
  content <- db,
  batch   <- [b \in Batch |-> batch[b].ops],
  iter    <- [i \in Iter |->
                LET first == IF iter[i].moved THEN iter[i].position
                             ELSE iter[i].position + 1
                IN  [todo    |-> {iter[i].pairs[j] : j \in first .. Len(iter[i].pairs)},
                     current |-> IF ~ iter[i].moved
                                    /\ iter[i].position \in DOMAIN iter[i].pairs
                                 THEN iter[i].pairs[iter[i].position] ELSE Nil]]

\* Each operation is the interface's operation of that name and arguments.
DoesAsNamed ==
  /\ \A k \in Key, v \in Value \cup {Absent} :
       /\ Put(k, v) => Store!Set(k, v)
       /\ \A b \in Batch : batchPut(b, k, v) => Store!Collect(b, k, v)
  /\ \A b \in Batch : /\ batchWrite(b) => Store!Write(b)
                      /\ batchReset(b) => Store!Reset(b)
  /\ \A s \in Snap : NewSnapshot(s) => Store!NewSnapshot(s)
  /\ \A i \in Iter : /\ IterNext(i) => Store!IterNext(i)
                     /\ \A prefix, start \in Seek :
                          NewIterator(i, prefix, start) => Store!NewIterator(i, prefix, start)

\* A step as the store's clients see it.
StoreStep == (Store!Next \/ UNCHANGED Store!vars) /\ DoesAsNamed

\* The wrapper implements the interfaces of rfqdb: in particular the bounds it
\* computes make an iterator yield exactly the keys with the given prefix, also
\* for prefixes that end in or consist of 0xff, and none of them is lost
\* between First, which places the engine's iterator, and the first Next.
PebbleImplementsStore == Store!Init /\ [][StoreStep]_vars

----------------------------------------------------------------------------
(* What the documents say and the code does not do: TLC refutes these. *)

\* No write succeeds once Close has returned; its comment says that it "closes
\* all io accesses to the underlying key-value store".
NoWriteAfterClose == [][closeCalled => db' = db]_vars
=============================================================================
