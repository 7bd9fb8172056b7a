------------------------------ MODULE TableDB ------------------------------
(***************************************************************************)
(* core/rawdb/table.go: several tables share one store, each under a       *)
(* prefix of its own.  NewBlockchain keeps six tables and the blocks in    *)
(* one store.  Here the store is MemoryDB, as in the repository's tests of *)
(* tables.                                                                 *)
(***************************************************************************)
EXTENDS MemoryDB

CONSTANTS
  Table,        \* the tables
  prefix,       \* table -> the prefix NewTable was given
  Owner,        \* handle -> the table that made it
  Key, Value,   \* keys and values clients of a table use
  Seek,         \* prefixes and starting keys of iterators
  MaxWrites,    \* bound on the operations of one batch
  Watched       \* a table, any one, whose clients' view is looked at

WatchedAssumption == Watched \in Table

\* No prefix continues another: the tables of NewBlockchain are "rfqRequests",
\* "openRFQs", "closeRFQs", "matchedRFQs", "settledRFQs" and "quotes".
PrefixAssumption ==
  \A t, u \in Table : t # u =>
    \E i \in 1..Len(prefix[t]) : i <= Len(prefix[u]) /\ prefix[t][i] # prefix[u][i]

VARIABLES
  replay,       \* batch -> [to, next]: where Replay writes and how far it is
  compacted     \* the last range handed to the store's Compact

vars == <<memVars, replay, compacted>>

tableVars == <<replay, compacted>>

idle == [to |-> Nil, next |-> 1]

Init ==
  /\ MemInit
  /\ replay = [b \in Batch |-> idle]
  /\ compacted = [table |-> Nil, start |-> Nil, limit |-> Nil]

\* Mutant of Prefixed: keys are stored as they are given.
PrefixedNot(t, key) == key

Prefixed(t, key) == prefix[t] \o key

Trimmed(t, key) == SubSeq(key, Len(prefix[t]) + 1, Len(key))

TableGet(t, key) == Get(Prefixed(t, key))

TablePut(t, key, value) ==
  /\ Put(Prefixed(t, key), value)
  /\ UNCHANGED tableVars

tableBatchPut(b, key, value) ==
  /\ replay[b] = idle
  /\ Len(writes[b]) < MaxWrites
  /\ batchPut(b, Prefixed(Owner[b], key), value)
  /\ UNCHANGED tableVars

tableBatchWrite(b) ==
  /\ replay[b] = idle
  /\ batchWrite(b)
  /\ UNCHANGED tableVars

tableBatchReset(b) ==
  /\ replay[b] = idle
  /\ batchReset(b)
  /\ UNCHANGED tableVars

\* Replay through a tableReplayer, into a table or into another batch.
tableBatchReplay(b, to) ==
  /\ replay[b] = idle /\ to # b
  /\ replay' = [replay EXCEPT ![b].to = to]
  /\ UNCHANGED <<memVars, compacted>>

\* The next operation; an error of the writer ends the replay.
replayStep(b) ==
  LET w == writes[b][replay[b].next]
      key == Trimmed(Owner[b], w.key)
      to == replay[b].to
  IN  /\ to # Nil
      /\ replay[b].next <= Len(writes[b])
      /\ to \in Batch => Len(writes[to]) < MaxWrites
      /\ IF to \in Table /\ closed
         THEN replay' = [replay EXCEPT ![b] = idle] /\ UNCHANGED memVars
         ELSE /\ IF to \in Table THEN Put(Prefixed(to, key), w.value)
                 ELSE batchPut(to, Prefixed(Owner[to], key), w.value)
              /\ replay' = [replay EXCEPT ![b].next = @ + 1]
      /\ UNCHANGED compacted

replayDone(b) ==
  /\ replay[b].to # Nil /\ replay[b].next > Len(writes[b])
  /\ replay' = [replay EXCEPT ![b] = idle]
  /\ UNCHANGED <<memVars, compacted>>

TableIterator(i, p, start) ==
  /\ NewIterator(i, Prefixed(Owner[i], p), start)
  /\ UNCHANGED tableVars

\* The snapshot of the store itself: its reads do not get the prefix.
TableSnapshot(s) ==
  /\ NewSnapshot(s)
  /\ UNCHANGED tableVars

\* Compact with a nil start and a nil limit.
TableCompact(t) ==
  /\ compacted' = [table |-> t, start |-> prefix[t], limit |-> compactLimit(prefix[t])]
  /\ UNCHANGED <<memVars, replay>>

\* The store is closed by its owner; a table's own Close does nothing.
CloseStore ==
  /\ Close
  /\ UNCHANGED tableVars

ReleaseView ==
  /\ \/ \E i \in Iter : ReleaseIterator(i)
     \/ \E s \in Snap : ReleaseSnapshot(s)
  /\ UNCHANGED tableVars

AdvanceIterator(i) ==
  /\ IteratorNext(i)
  /\ UNCHANGED tableVars

Next ==
  \/ \E t \in Table, key \in Key, value \in Value \cup {Absent} : TablePut(t, key, value)
  \/ \E b \in Batch, key \in Key, value \in Value \cup {Absent} :
       tableBatchPut(b, key, value)
  \/ \E b \in Batch : \/ tableBatchWrite(b)
                      \/ tableBatchReset(b)
                      \/ \E to \in Table \cup Batch : tableBatchReplay(b, to)
                      \/ replayStep(b)
                      \/ replayDone(b)
  \/ \E i \in Iter : \/ \E p, start \in Seek : TableIterator(i, p, start)
                     \/ AdvanceIterator(i)
  \/ \E s \in Snap : TableSnapshot(s)
  \/ ReleaseView
  \/ \E t \in Table : TableCompact(t)
  \/ CloseStore

Spec == Init /\ [][Next]_vars

----------------------------------------------------------------------------
(* Properties *)

Handles(S) == {h \in S : Owner[h] = Watched}

\* A pair of the watched table's iterator as its client sees it.
Shown(p) == <<Trimmed(Watched, p[1]), p[2]>>

\* The watched table as its clients see it.
Store == INSTANCE KVStore WITH
  Batch   <- Handles(Batch),
  Snap    <- Handles(Snap),
  Iter    <- Handles(Iter),
  content <- [k \in Key |-> TableGet(Watched, k)],
  batch   <- [b \in Handles(Batch) |->
                [j \in DOMAIN writes[b] |->
                   [writes[b][j] EXCEPT !.key = Trimmed(Watched, @)]]],
  snap    <- [s \in Handles(Snap) |->
                IF snap[s] = Nil THEN Nil ELSE [k \in Key |-> snapshotGet(s, k)]],
  iter    <- [i \in Handles(Iter) |->
                [todo    |-> {Shown(iter[i].pairs[j]) :
                                j \in iter[i].index + 1 .. Len(iter[i].pairs)},
                 current |-> IF iter[i].index \in DOMAIN iter[i].pairs
                             THEN Shown(iter[i].pairs[iter[i].index]) ELSE Nil]]

\* Each operation of the watched table is the interface's operation of that
\* name and arguments; those of other tables are none.
DoesAsNamed ==
  /\ \A k \in Key, v \in Value \cup {Absent} :
       /\ TablePut(Watched, k, v) => Store!Set(k, v)
       /\ \A t \in Table \ {Watched} : TablePut(t, k, v) => UNCHANGED Store!vars
       /\ \A b \in Handles(Batch) : tableBatchPut(b, k, v) => Store!Collect(b, k, v)
  /\ \A b \in Handles(Batch) : /\ tableBatchWrite(b) => Store!Write(b)
                               /\ tableBatchReset(b) => Store!Reset(b)
  /\ \A b \in Batch \ Handles(Batch) : tableBatchWrite(b) => UNCHANGED Store!vars
  /\ \A s \in Handles(Snap) : TableSnapshot(s) => Store!NewSnapshot(s)
  /\ \A i \in Handles(Iter) : /\ AdvanceIterator(i) => Store!IterNext(i)
                              /\ \A p, start \in Seek :
                                   TableIterator(i, p, start) => Store!NewIterator(i, p, start)

\* A step as the watched table's clients see it.
StoreStep == (Store!Next \/ UNCHANGED Store!vars) /\ DoesAsNamed

\* A table of a shared store behaves as a store of its own: whatever the
\* clients of the other tables do, through Put, Delete, batches or replayed
\* batches, it holds what its own clients wrote, its batches take effect at
\* once, and its iterators yield its own pairs, once each and in order.
TableImplementsStore == Store!Init /\ [][StoreStep]_vars

\* The range that table.Compact hands to the store when it is given no start
\* and no limit contains every key of the table, also when the prefix ends in
\* 0xff and the carry moves to the byte before.
CompactCoversTable ==
  compacted.table # Nil =>
    \A key \in Key : InRange(Prefixed(compacted.table, key), compacted.start, compacted.limit)

----------------------------------------------------------------------------
(* What the documents say and the code does not do: TLC refutes these. *)

\* A snapshot made through a table shows the table as it is then: table.go says
\* that a table "prefixes each key access".
SnapshotIsOfTable ==
  [][\A s \in Snap : snap[s] = Nil /\ snap'[s] # Nil =>
       \A k \in Key : snapshotGet(s, k)' = TableGet(Owner[s], k)]_vars

\* Once the store is closed no operation that reads it succeeds; memorydb.go
\* says that Close "ensures any consecutive data access op fails with an error".
ClosedGivesNoSnapshot ==
  [][closed => \A s \in Snap : snap[s] = Nil => snap'[s] = Nil]_vars
=============================================================================
