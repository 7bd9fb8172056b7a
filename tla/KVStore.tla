------------------------------ MODULE KVStore ------------------------------
(***************************************************************************)
(* What the interfaces of rfqdb promise of a key-value store, whatever     *)
(* implements it: a map from keys to values; batches that take effect all  *)
(* at once, a later write of a key overriding an earlier one; snapshots    *)
(* that later changes do not reach; and iterators that yield the pairs     *)
(* that were there when the iterator was made, in ascending order, each    *)
(* once.  MemoryDB, TableDB and PebbleDB implement this specification.     *)
(***************************************************************************)
EXTENDS ByteKeys

CONSTANTS
  Key, Value,
  Seek,                 \* prefixes and starting keys of iterators
  Batch, Snap, Iter,    \* handles of batches, snapshots and iterators
  Absent                \* the value of a key that is not in the store

VARIABLES
  content,      \* key -> value or Absent
  batch,        \* handle -> the operations it has collected
  snap,         \* handle -> frozen content, or Nil
  iter          \* handle -> [todo, current]: pairs to come, pair shown (or Nil)

vars == <<content, batch, snap, iter>>

Empty == [k \in Key |-> Absent]

Done == [todo |-> {}, current |-> Nil]

Init ==
  /\ content = Empty
  /\ batch = [b \in Batch |-> <<>>]
  /\ snap = [s \in Snap |-> Nil]
  /\ iter = [i \in Iter |-> Done]

\* Put, or Delete when v is Absent.
Set(k, v) ==
  /\ content' = [content EXCEPT ![k] = v]
  /\ UNCHANGED <<batch, snap, iter>>

Collect(b, k, v) ==
  /\ batch' = [batch EXCEPT ![b] = Append(@, [key |-> k, value |-> v])]
  /\ UNCHANGED <<content, snap, iter>>

\* The last operation of the batch on a key decides.
Write(b) ==
  LET on(k) == {i \in DOMAIN batch[b] : batch[b][i].key = k} IN
  /\ content' = [k \in Key |-> IF on(k) = {} THEN content[k]
                               ELSE batch[b][Max(on(k))].value]
  /\ UNCHANGED <<batch, snap, iter>>

Reset(b) ==
  /\ batch' = [batch EXCEPT ![b] = <<>>]
  /\ UNCHANGED <<content, snap, iter>>

NewSnapshot(s) ==
  /\ snap' = [snap EXCEPT ![s] = content]
  /\ UNCHANGED <<content, batch, iter>>

NewIterator(i, prefix, start) ==
  /\ iter' = [iter EXCEPT ![i] =
       [todo |-> {<<k, content[k]>> : k \in {k \in Key : /\ content[k] # Absent
                                                         /\ HasPrefix(k, prefix)
                                                         /\ ~ Before(k, prefix \o start)}},
        current |-> Nil]]
  /\ UNCHANGED <<content, batch, snap>>

\* The least pair to come is shown; at the end, none.
IterNext(i) ==
  /\ iter' = [iter EXCEPT ![i] =
       IF @.todo = {} THEN Done
       ELSE LET p == CHOOSE p \in @.todo : \A q \in @.todo : ~ Before(q[1], p[1])
            IN  [todo |-> @.todo \ {p}, current |-> p]]
  /\ UNCHANGED <<content, batch, snap>>

Release ==
  /\ \/ \E s \in Snap : snap' = [snap EXCEPT ![s] = Nil] /\ UNCHANGED iter
     \/ \E i \in Iter : iter' = [iter EXCEPT ![i] = Done] /\ UNCHANGED snap
  /\ UNCHANGED <<content, batch>>

\* The content of a closed store is no longer there.
Close ==
  /\ content' = Empty
  /\ UNCHANGED <<batch, snap, iter>>

Next ==
  \/ \E k \in Key, v \in Value \cup {Absent} :
       Set(k, v) \/ \E b \in Batch : Collect(b, k, v)
  \/ \E b \in Batch : Write(b) \/ Reset(b)
  \/ \E s \in Snap : NewSnapshot(s)
  \/ \E i \in Iter : IterNext(i) \/ \E prefix, start \in Seek : NewIterator(i, prefix, start)
  \/ Release
  \/ Close

Spec == Init /\ [][Next]_vars
=============================================================================
