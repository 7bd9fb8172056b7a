------------------------------ MODULE MCStores ------------------------------
(***************************************************************************)
(* The key-value stores: PebbleDB and TableDB over MemoryDB.  A behaviour  *)
(* is one of one part; parts share variables and differ in constants.      *)
(*                                                                         *)
(*   events     compactions and write stalls of Pebble                     *)
(*   iterators  Pebble's iterators, with prefixes that end in 0xff         *)
(*   batches    Pebble's batches and snapshots                             *)
(*   scans      two tables, one of which ends in 0xff, and an iterator     *)
(*   replays    two tables with a batch each                               *)
(*   root       one table with the empty prefix, a batch and a snapshot    *)
(*                                                                         *)
(* Bytes are 0 to 2, of which 2 plays 0xff.                                *)
(***************************************************************************)
EXTENDS PebbleDB

CONSTANTS b1, b2, s1, i1, t1, t2

VARIABLES
  part,
  writes, replay, compacted    \* of TableDB

tableVars == <<writes, replay, compacted>>
pebbleVars == <<batch, closeCalled, meterVars>>

PebbleKeys == {<<1>>, <<1, 2>>, <<2>>, <<2, 2>>}
PebbleSeeks == {<<>>, <<1>>, <<1, 2>>, <<2>>}
TwoKeys == {<<0>>, <<2>>}

Batches == INSTANCE PebbleDB WITH
  Key <- TwoKeys, Value <- {1, 2}, Batch <- {b1}, Snap <- {s1}, Iter <- {}

TwoPrefixes == (t1 :> <<0>>) @@ (t2 :> <<1, 2>>)
TwoOwners == (b1 :> t1) @@ (b2 :> t2) @@ (i1 :> t2)
TableKeys == {<<0>>, <<2, 1>>}
TableSeeks == {<<>>, <<2>>}

Scans == INSTANCE TableDB WITH
  Table <- {t1, t2}, prefix <- TwoPrefixes, Owner <- TwoOwners, Watched <- t2,
  Key <- TableKeys, Value <- {1, 2}, Seek <- TableSeeks,
  Batch <- {}, Snap <- {}, Iter <- {i1}

Replays == INSTANCE TableDB WITH
  Table <- {t1, t2}, prefix <- TwoPrefixes, Owner <- TwoOwners, Watched <- t2,
  Key <- {<<0>>}, Value <- {1}, Seek <- {},
  Batch <- {b1, b2}, Snap <- {}, Iter <- {}

Root == INSTANCE TableDB WITH
  Table <- {t1}, prefix <- (t1 :> <<>>), Owner <- (b1 :> t1) @@ (s1 :> t1), Watched <- t1,
  Key <- TableKeys, Value <- {1}, Seek <- {},
  Batch <- {b1}, Snap <- {s1}, Iter <- {}

ASSUME TableAssumptions ==
  /\ Scans!WatchedAssumption /\ Scans!PrefixAssumption
  /\ Replays!WatchedAssumption /\ Replays!PrefixAssumption
  /\ Root!WatchedAssumption /\ Root!PrefixAssumption

NoTables == writes = <<>> /\ replay = <<>> /\ compacted = [table |-> Nil, start |-> Nil, limit |-> Nil]

NoPebble == batch = <<>> /\ closeCalled = FALSE /\ MeterInit

MCInit ==
  \/ part \in {"events", "iterators"} /\ Init /\ NoTables
  \/ part = "batches" /\ Batches!Init /\ NoTables
  \/ part = "scans" /\ Scans!Init /\ NoPebble
  \/ part = "replays" /\ Replays!Init /\ NoPebble
  \/ part = "root" /\ Root!Init /\ NoPebble

MCNext ==
  /\ UNCHANGED part
  /\ \/ /\ \/ part = "events" /\ Event
           \/ part = "iterators" /\ Access
           \/ part = "batches" /\ Batches!Access
        /\ UNCHANGED tableVars
     \/ /\ \/ part = "scans" /\ Scans!Next
           \/ part = "replays" /\ Replays!Next
           \/ part = "root" /\ Root!Next
        /\ UNCHANGED pebbleVars

allVars == <<vars, tableVars, part>>

MCSpec == MCInit /\ [][MCNext]_allVars

----------------------------------------------------------------------------

\* Pebble's wrapper implements the interfaces of rfqdb (PebbleImplementsStore
\* of PebbleDB).
PebbleIsStore ==
  /\ CASE part = "iterators" -> Store!Init
       [] part = "batches"   -> Batches!Store!Init
       [] OTHER              -> TRUE
  /\ [][CASE part = "iterators" -> StoreStep
          [] part = "batches"   -> Batches!StoreStep
          [] OTHER              -> TRUE]_allVars

\* A table of a shared store is a store of its own, and the memory database is
\* one (TableImplementsStore of TableDB).
TableIsStore ==
  /\ CASE part = "scans"   -> Scans!Store!Init
       [] part = "replays" -> Replays!Store!Init
       [] part = "root"    -> Root!Store!Init
       [] OTHER            -> TRUE
  /\ [][CASE part = "scans"   -> Scans!StoreStep
          [] part = "replays" -> Replays!StoreStep
          [] part = "root"    -> Root!StoreStep
          [] OTHER            -> TRUE]_allVars

\* The range a table compacts contains its keys, also when its prefix ends in
\* 0xff (CompactCoversTable of TableDB).
CompactCoversTable == part = "scans" => Scans!CompactCoversTable
=============================================================================
