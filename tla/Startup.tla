------------------------------ MODULE Startup ------------------------------
(***************************************************************************)
(* Starts, crashes and restarts of the relayer: main makes the directory   *)
(* of the key store, generates a key and saves it, or loads the one that   *)
(* is there, and NewServer removes the database before it opens it.        *)
(*                                                                         *)
(* The disk survives a crash, memory does not.  WriteFile truncates the    *)
(* file and then writes it.  The passphrase comes from the environment and *)
(* can differ from one start to the next.                                  *)
(***************************************************************************)
EXTENDS Naturals, FiniteSets

CONSTANTS
  Key, Passphrase, Record,
  MaxCrashes,    \* bound on crashes and failed starts
  None

VARIABLES
  dir,           \* the directory .keystore exists
  file,          \* keystore.json
  db,            \* records in the database directory
  main,          \* where main is
  passphrase,    \* of this start
  key,           \* private key in memory
  crashes,
  ran,           \* history: keys with which the node has run
  acked,         \* history: records that were stored and acknowledged
  loading        \* history: how the last load ended

vars == <<dir, file, db, main, passphrase, key, crashes, ran, acked, loading>>
history == <<ran, acked>>

\* keystore.json: nothing, less than was written, or a key sealed with a passphrase.
KeyFile(s, k, p) == [state |-> s, key |-> k, passphrase |-> p]

NoFile == KeyFile("absent", None, None)
TornFile == KeyFile("torn", None, None)
Sealed == {KeyFile("sealed", k, p) : k \in Key, p \in Passphrase}

Init ==
  /\ dir = FALSE /\ file = NoFile /\ db = {}
  /\ main = "down" /\ passphrase = None /\ key = None
  /\ crashes = 0 /\ ran = {} /\ acked = {} /\ loading = "none"

----------------------------------------------------------------------------

Start(p) ==
  /\ main = "down"
  /\ main' = "mkdir" /\ passphrase' = p
  /\ UNCHANGED <<dir, file, db, key, crashes, history, loading>>

\* Mutant of MakeDir: the directory is taken for granted.
MakeDirNot ==
  /\ main = "mkdir"
  /\ main' = "stat"
  /\ UNCHANGED <<dir, file, db, passphrase, key, crashes, history, loading>>

MakeDir ==
  /\ main = "mkdir"
  /\ dir' = TRUE /\ main' = "stat"
  /\ UNCHANGED <<file, db, passphrase, key, crashes, history, loading>>

\* The process ends; what is in memory is lost.
Exit == main' = "down" /\ passphrase' = None /\ key' = None

\* Mutant of StatKeyFile: a key is generated on every start.
StatKeyFileAlways ==
  /\ main = "stat"
  /\ \E k \in Key \ ran : main' = "truncate" /\ key' = k
  /\ UNCHANGED <<dir, file, db, passphrase, crashes, history, loading>>

\* Mutant of StatKeyFile: a generated key is used without being saved.
StatKeyFileUnsaved ==
  /\ main = "stat"
  /\ IF file = NoFile THEN \E k \in Key \ ran : main' = "open" /\ key' = k
     ELSE main' = "load" /\ UNCHANGED key
  /\ UNCHANGED <<dir, file, db, passphrase, crashes, history, loading>>

\* A key is generated if there is no file, and loaded otherwise.
StatKeyFile ==
  /\ main = "stat"
  /\ IF file = NoFile THEN \E k \in Key \ ran : main' = "truncate" /\ key' = k
     ELSE main' = "load" /\ UNCHANGED key
  /\ UNCHANGED <<dir, file, db, passphrase, crashes, history, loading>>

\* SaveKeyToFile; without a directory WriteFile fails and main gives up.
TruncateKeyFile ==
  /\ main = "truncate"
  /\ IF dir THEN file' = TornFile /\ main' = "write" /\ UNCHANGED <<passphrase, key, crashes>>
     ELSE crashes < MaxCrashes /\ crashes' = crashes + 1 /\ Exit /\ UNCHANGED file
  /\ UNCHANGED <<dir, db, history, loading>>

WriteKeyFile ==
  /\ main = "write"
  /\ file' = KeyFile("sealed", key, passphrase)
  /\ main' = "open"
  /\ UNCHANGED <<dir, db, passphrase, key, crashes, history, loading>>

\* What LoadKeyFromFile finds: nothing in a torn file, and nothing without the
\* passphrase that sealed it.
LoadedKey(p) == IF file \in Sealed /\ file.passphrase = p THEN file.key ELSE None

LoadKeyFile ==
  /\ main = "load"
  /\ IF LoadedKey(passphrase) = None
     THEN /\ crashes < MaxCrashes /\ crashes' = crashes + 1
          /\ Exit /\ loading' = "failed"
     ELSE /\ key' = LoadedKey(passphrase) /\ main' = "open" /\ loading' = "ok"
          /\ UNCHANGED <<passphrase, crashes>>
  /\ UNCHANGED <<dir, file, db, history>>

\* NewServer removes the database directory and opens a new database.
OpenDatabase ==
  /\ main = "open"
  /\ db' = {} /\ main' = "run" /\ ran' = ran \cup {key}
  /\ UNCHANGED <<dir, file, passphrase, key, crashes, acked, loading>>

\* The node stores a record and answers its client.
Store(r) ==
  /\ main = "run" /\ r \notin acked
  /\ db' = db \cup {r} /\ acked' = acked \cup {r}
  /\ UNCHANGED <<dir, file, main, passphrase, key, crashes, ran, loading>>

Crash ==
  /\ main # "down" /\ crashes < MaxCrashes
  /\ crashes' = crashes + 1 /\ Exit
  /\ UNCHANGED <<dir, file, db, history, loading>>

Main ==
  MakeDir \/ StatKeyFile \/ TruncateKeyFile \/ WriteKeyFile \/ LoadKeyFile \/ OpenDatabase

Next ==
  \/ \E p \in Passphrase : Start(p)
  \/ Main
  \/ \E r \in Record : Store(r)
  \/ Crash

Spec == Init /\ [][Next]_vars

\* main is started again after a crash and goes on while it runs.
FairSpec == Spec /\ WF_vars(\E p \in Passphrase : Start(p)) /\ WF_vars(Main)

----------------------------------------------------------------------------
(* Properties *)

\* The node never runs under a second key, whatever crashes come between
\* generating, saving and loading it and whatever passphrase is given: blocks
\* and openings of one chain are signed by one validator.
OneKeyForEver == \A k, l \in ran : k = l

\* A node that runs has its key on the disk: the key that signed a block can
\* be loaded by the next start with the same passphrase.
RunningKeyIsSaved == main = "run" => LoadedKey(passphrase) = key

\* After the last crash the node runs again, unless a crash has torn the key
\* file or the passphrase is not the one that sealed it.
RunsAgain ==
  crashes = MaxCrashes ~> main = "run" \/ file = TornFile \/ (main = "load" /\ LoadedKey(passphrase) = None)

----------------------------------------------------------------------------
(* What the documents say and the code does not do: TLC refutes these. *)

\* main says "If the keystore exists, load the key": a start with the passphrase
\* of the first start does not fail to load it.
ExistingKeyIsLoaded == Cardinality(Passphrase) = 1 => loading # "failed"

\* The RFQ data is persisted, as the Readme says ("for persisting the RFQ data -
\* with data stored in pebbleDB"): a running node has what it acknowledged.
RecordsArePersisted == main = "run" => acked \subseteq db
=============================================================================
