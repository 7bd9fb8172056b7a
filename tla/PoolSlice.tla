------------------------------ MODULE PoolSlice ------------------------------
(***************************************************************************)
(* The slice behind the pending pool.  The main loop appends to it and the *)
(* validator clears it, both under the lock of TxSortedMap.  Pending hands *)
(* it to CreateNewBlock without that lock: a slice is two words here, the  *)
(* array and the length, which are loaded and stored one at a time, and    *)
(* the block is built from the array while the main loop goes on.          *)
(***************************************************************************)
EXTENDS Naturals, Sequences

CONSTANTS
  Tx,
  MaxClears,   \* bound on blocks
  Blank          \* an array element that was not written

Word == {"arr", "len"}

VARIABLES
  arrays,      \* arrays; array 0 has no elements
  data,        \* List.Data
  writer,      \* what is being stored: new value, words left, pool afterwards
  validator,   \* place of CreateNewBlock, words loaded, words left
  pooled,      \* history: the pool, as the lock protects it
  snapshot,    \* history: the pool when Pending returned
  torn,        \* history: the words Pending loaded belong to different slices
  clears

poolVars == <<arrays, data, writer, validator, pooled, snapshot, torn, clears>>

Slice(a, n) == [arr |-> a, len |-> n]

Rest == [target |-> Slice(0, 0), left |-> {}, pool |-> <<>>]

PoolInit ==
  /\ arrays = <<>> /\ data = Slice(0, 0)
  /\ writer = Rest
  /\ validator = [at |-> "wait", slice |-> Slice(0, 0), left |-> {}]
  /\ pooled = <<>> /\ snapshot = <<>>
  /\ torn = FALSE /\ clears = 0

Cap(a) == IF a = 0 THEN 0 ELSE Len(arrays[a])

\* TxSortedMap.lock is free.
Unlocked == writer.left = {}

----------------------------------------------------------------------------
(* The main loop *)

\* append copies to an array of twice the size when there is no room.
Grown ==
  LET c == IF Cap(data.arr) = 0 THEN 1 ELSE 2 * Cap(data.arr) IN
  [i \in 1..c |-> IF i <= data.len THEN arrays[data.arr][i] ELSE Blank]

\* TxSortedMap.Add, up to the assignment to Data.
InsertTx(tx) ==
  /\ Unlocked /\ tx \notin {pooled[i] : i \in DOMAIN pooled}
  /\ LET room == data.len < Cap(data.arr)
         space == IF room THEN arrays ELSE Append(arrays, Grown)
         a == IF room THEN data.arr ELSE Len(space)
     IN  /\ arrays' = [space EXCEPT ![a][data.len + 1] = tx]
         /\ writer' = [target |-> Slice(a, data.len + 1), left |-> Word, pool |-> Append(pooled, tx)]
  /\ UNCHANGED <<data, validator, pooled, snapshot, torn, clears>>

\* One word of Data is stored; with the last one the lock is given back.
StoreWord(w) ==
  /\ w \in writer.left
  /\ data' = [data EXCEPT ![w] = writer.target[w]]
  /\ writer' = IF writer.left = {w} THEN Rest ELSE [writer EXCEPT !.left = @ \ {w}]
  /\ pooled' = IF writer.left = {w} THEN writer.pool ELSE pooled
  /\ validator' = IF writer.left = {w} /\ validator.at = "clearing"
                  THEN [validator EXCEPT !.at = "wait"] ELSE validator
  /\ UNCHANGED <<arrays, snapshot, torn, clears>>

----------------------------------------------------------------------------
(* CreateNewBlock *)

Pending ==
  /\ validator.at = "wait"
  /\ validator' = [at |-> "load", slice |-> Slice(0, 0), left |-> Word]
  /\ UNCHANGED <<arrays, data, writer, pooled, snapshot, torn, clears>>

\* A word of Data is loaded, without the lock.
LoadWord(w) ==
  /\ validator.at = "load" /\ w \in validator.left
  /\ validator' = [validator EXCEPT !.slice[w] = data[w], !.left = @ \ {w},
                                    !.at = IF validator.left = {w} THEN "build" ELSE "load"]
  /\ snapshot' = pooled
  /\ torn' = (validator.left = {w} /\ (validator'.slice # data \/ writer.left \notin {{}, Word}))
  /\ UNCHANGED <<arrays, data, writer, pooled, clears>>

\* The block is not valid: the pool stays.
Dropped ==
  /\ validator.at = "build"
  /\ validator' = [validator EXCEPT !.at = "wait"]
  /\ UNCHANGED <<arrays, data, writer, pooled, snapshot, torn, clears>>

\* Mutant of ClearPending: the pool is emptied but keeps its array.
ClearPendingInPlace ==
  /\ validator.at = "build" /\ Unlocked /\ clears < MaxClears
  /\ validator' = [validator EXCEPT !.at = "clearing"]
  /\ writer' = [target |-> Slice(data.arr, 0), left |-> Word, pool |-> <<>>]
  /\ clears' = clears + 1
  /\ UNCHANGED <<arrays, data, pooled, snapshot, torn>>

\* ClearPending: Data = []T{}.
ClearPending ==
  /\ validator.at = "build" /\ Unlocked /\ clears < MaxClears
  /\ validator' = [validator EXCEPT !.at = "clearing"]
  /\ writer' = [target |-> Slice(0, 0), left |-> Word, pool |-> <<>>]
  /\ clears' = clears + 1
  /\ UNCHANGED <<arrays, data, pooled, snapshot, torn>>

----------------------------------------------------------------------------

PoolNext ==
  \/ \E tx \in Tx : InsertTx(tx)
  \/ \E w \in Word : StoreWord(w) \/ LoadWord(w)
  \/ Pending \/ Dropped \/ ClearPending

PoolSpec == PoolInit /\ [][PoolNext]_poolVars

----------------------------------------------------------------------------
(* Properties *)

\* What the block is built from: the block keeps the slice when it is in the
\* chain, too.
Built == [i \in 1..validator.slice.len |->
            IF i <= Cap(validator.slice.arr) THEN arrays[validator.slice.arr][i] ELSE Blank]

\* A slice whose words belong together stays what it was, although the main
\* loop appends to the same array and moves the pool to another, and although
\* the pool is cleared while the chain still refers to the block.
StableUnlessTorn ==
  validator.left = {} /\ ~ torn => Built = snapshot

----------------------------------------------------------------------------
(* What the documents say and the code does not do: TLC refutes these. *)

\* "Pending returns a slice of transactions that are in the pending pool":
\* every element is a transaction.
PendingIsPooled ==
  validator.at = "build" => \A i \in DOMAIN Built : Built[i] # Blank
=============================================================================
