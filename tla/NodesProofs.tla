----------------------------- MODULE NodesProofs -----------------------------
(***************************************************************************)
(* Proofs about the parts of a node that do not touch the chain.           *)
(*                                                                         *)
(* Startup, for every number of crashes, keys and passphrases: the node    *)
(* never runs under a second key, nor under one that is not on the disk.   *)
(* Gossip, for every network: only a node that has admitted a transaction  *)
(* stops its peers.  WebSocketHub, for every set of connections and number *)
(* of broadcasts: the mutex keeps updates of the map clients apart, and a  *)
(* broadcast reaches every client that stays.                              *)
(***************************************************************************)
EXTENDS Nodes, WebSocketHub, FiniteSetTheorems, TLAPS

----------------------------------------------------------------------------
(* Startup *)

\* The part of the type that the argument needs.
KeyTypes ==
  /\ passphrase \in Passphrase \cup {None}
  /\ main \notin {"down"} => passphrase \in Passphrase
  /\ main \in {"truncate", "write", "open", "run"} => key \in Key
  /\ file \in {S!NoFile, S!TornFile} \cup S!Sealed

\* A key that is used is the one in the file, and a file is only written before
\* any key was used.
KeyInv ==
  /\ KeyTypes
  /\ main \in {"open", "run"} => file = S!KeyFile("sealed", key, passphrase)
  /\ main \in {"truncate", "write"} => ran = {}
  /\ ran # {} => file \in S!Sealed /\ ran = {file.key}

LEMMA FileKinds ==
  ASSUME NEW k \in Key, NEW p \in Passphrase
  PROVE  /\ S!KeyFile("sealed", k, p) \in S!Sealed
         /\ S!KeyFile("sealed", k, p) \notin {S!NoFile, S!TornFile}
         /\ S!KeyFile("sealed", k, p).key = k
         /\ S!KeyFile("sealed", k, p).passphrase = p
  BY DEF S!KeyFile, S!Sealed, S!NoFile, S!TornFile

LEMMA SealedIsNotAbsent == \A f \in S!Sealed : f # S!NoFile /\ f # S!TornFile
  BY DEF S!KeyFile, S!Sealed, S!NoFile, S!TornFile

LEMMA SealedIsRebuilt ==
  ASSUME NEW f \in S!Sealed
  PROVE  /\ f = S!KeyFile("sealed", f.key, f.passphrase)
         /\ f.key \in Key /\ f.passphrase \in Passphrase
  BY DEF S!KeyFile, S!Sealed

\* The initial state satisfies the invariant.
LEMMA InitKeyInv == S!Init => KeyInv
  BY DEF S!Init, KeyInv, KeyTypes, S!NoFile

\* Every step of main, of the node and every crash preserves it.
LEMMA NextKeyInv == KeyInv /\ [S!Next]_S!vars => KeyInv'
<1> SUFFICES ASSUME KeyInv, [S!Next]_S!vars PROVE KeyInv'
  OBVIOUS
<1> USE DEF KeyInv, KeyTypes, S!history
<1>1. ASSUME NEW p \in Passphrase, S!Start(p) PROVE KeyInv'
  BY <1>1 DEF S!Start
<1>2. CASE S!MakeDir
  BY <1>2 DEF S!MakeDir
<1>3. CASE S!StatKeyFile
  <2>1. CASE file = S!NoFile
    <3>1. ran = {}
      BY <2>1, SealedIsNotAbsent
    <3>2. QED
      BY <1>3, <2>1, <3>1 DEF S!StatKeyFile
  <2>2. CASE file # S!NoFile
    BY <1>3, <2>2 DEF S!StatKeyFile
  <2>3. QED
    BY <2>1, <2>2
<1>4. CASE S!TruncateKeyFile
  BY <1>4 DEF S!TruncateKeyFile, S!Exit
<1>5. CASE S!WriteKeyFile
  BY <1>5, FileKinds DEF S!WriteKeyFile
<1>6. CASE S!LoadKeyFile
  <2>1. CASE S!LoadedKey(passphrase) = None
    BY <1>6, <2>1 DEF S!LoadKeyFile, S!Exit
  <2>2. CASE S!LoadedKey(passphrase) # None
    <3>1. file \in S!Sealed /\ file.passphrase = passphrase /\ key' = file.key
      BY <1>6, <2>2 DEF S!LoadKeyFile, S!LoadedKey
    <3>2. file = S!KeyFile("sealed", key', passphrase) /\ key' \in Key
      BY <3>1, SealedIsRebuilt
    <3>3. QED
      BY <1>6, <2>2, <3>1, <3>2 DEF S!LoadKeyFile
  <2>3. QED
    BY <2>1, <2>2
<1>7. CASE S!OpenDatabase
  <2>1. file \in S!Sealed /\ file.key = key
    BY <1>7, FileKinds DEF S!OpenDatabase
  <2>2. ran' = {file.key}
    BY <1>7, <2>1 DEF S!OpenDatabase
  <2>3. QED
    BY <1>7, <2>1, <2>2 DEF S!OpenDatabase
<1>8. ASSUME NEW r \in Record, S!Store(r) PROVE KeyInv'
  BY <1>8 DEF S!Store
<1>9. CASE S!Crash
  BY <1>9 DEF S!Crash, S!Exit
<1>10. CASE UNCHANGED S!vars
  BY <1>10 DEF S!vars
<1>11. QED
  BY <1>1, <1>2, <1>3, <1>4, <1>5, <1>6, <1>7, <1>8, <1>9, <1>10 DEF S!Next, S!Main

LEMMA KeyInvImplies == KeyInv => OneKeyForEver /\ RunningKeyIsSaved
<1>1. KeyInv => OneKeyForEver
  BY DEF KeyInv, OneKeyForEver, S!OneKeyForEver
<1>2. KeyInv => RunningKeyIsSaved
  BY FileKinds DEF RunningKeyIsSaved, S!RunningKeyIsSaved, KeyInv, KeyTypes, S!LoadedKey
<1> QED
  BY <1>1, <1>2

\* The node never runs under a second key: StatKeyFile generates one only if
\* no file is there, and a key is used only after SaveKeyToFile has returned.
THEOREM OneKey == S!Spec => []OneKeyForEver
<1>1. QED
  BY InitKeyInv, NextKeyInv, KeyInvImplies, PTL DEF S!Spec

\* The key of a running node can be loaded from keystore.json by the next start.
THEOREM KeyIsSaved == S!Spec => []RunningKeyIsSaved
<1>1. QED
  BY InitKeyInv, NextKeyInv, KeyInvImplies, PTL DEF S!Spec

----------------------------------------------------------------------------
(* Gossip *)

\* Some node that has p as a peer has admitted a transaction.
Gossiped(p) == \E m \in Node : <<m, p>> \in Link /\ pool[m] # {}

\* A broadcast by a node to some of its peers.
Cast == [from : Node, tx : G!Tx, to : SUBSET Node, locked : BOOLEAN]

\* Wherever a message is, on its way or taken by a read loop, its sender has
\* admitted a transaction; and so has a peer of every process that has ended.
GossipInv ==
  /\ sending \in [Node -> {None} \cup G!Tx] /\ listener \in [Node -> {None} \cup G!Tx]
  /\ pool \in [Node -> SUBSET G!Tx] /\ cast \subseteq Cast
  /\ wire \in [Link -> Nat] /\ rpcCh \in [Node -> Nat]
  /\ \A h \in Poster : poster[h].at = "submit" => poster[h].node \in Node /\ poster[h].rfq \in Request
  /\ \A c \in cast : c.to \subseteq G!Peers(c.from) /\ pool[c.from] # {}
  /\ \A l \in Link : wire[l] > 0 => pool[l[1]] # {}
  /\ \A n \in Node : rpcCh[n] > 0 => Gossiped(n)
  /\ \A n \in down : \E p \in Node : Process[p] = Process[n] /\ Gossiped(p)

\* Pools only grow, and with them what has been gossiped.
LEMMA PoolsGrow ==
  ASSUME \A m \in Node : pool[m] # {} => pool'[m] # {}
  PROVE  \A p : Gossiped(p) => Gossiped(p)'
BY DEF Gossiped

\* Admitting a transaction adds to the pool before it starts a broadcast.
LEMMA AdmitKeeps ==
  ASSUME GossipInv, NEW n \in Node, NEW tx \in G!Tx, G!Admit(n, tx)
  PROVE  /\ sending' \in [Node -> {None} \cup G!Tx]
         /\ pool' \in [Node -> SUBSET G!Tx] /\ cast' \subseteq Cast
         /\ \A m \in Node : pool[m] # {} => pool'[m] # {}
         /\ \A c \in cast' : c.to \subseteq G!Peers(c.from) /\ pool'[c.from] # {}
<1>1. CASE tx \in pool[n] \/ tx.rfq \notin Signed
  <2>1. UNCHANGED <<pool, cast, sending>>
    BY <1>1 DEF G!Admit
  <2> QED
    BY <2>1 DEF GossipInv
<1>2. CASE ~ (tx \in pool[n] \/ tx.rfq \notin Signed)
  <2> DEFINE new == [from |-> n, tx |-> tx, to |-> G!Peers(n), locked |-> FALSE]
  <2>1. /\ pool' = [pool EXCEPT ![n] = @ \cup {tx}] /\ cast' = cast \cup {new}
        /\ sending' = IF tx.kind = "request" THEN [sending EXCEPT ![n] = tx] ELSE sending
    BY <1>2 DEF G!Admit
  <2>2. new \in Cast /\ new.from = n /\ new.to = G!Peers(n)
    BY DEF Cast, G!Peers
  <2> HIDE DEF new
  <2>3. pool' \in [Node -> SUBSET G!Tx] /\ (\A m \in Node : pool[m] \subseteq pool'[m]) /\ pool'[n] # {}
    BY <2>1 DEF GossipInv
  <2>4. sending' \in [Node -> {None} \cup G!Tx]
    BY <2>1 DEF GossipInv
  <2>5. \A c \in cast : c.from \in Node
    BY DEF GossipInv, Cast
  <2> QED
    BY <2>1, <2>2, <2>3, <2>4, <2>5 DEF GossipInv
<1> QED
  BY <1>1, <1>2

\* Every step of a handler, a main loop, a listener, a broadcast and a read
\* loop preserves it.
LEMMA NextGossipInv == GossipInv /\ [G!Next]_G!vars => GossipInv'
<1> SUFFICES ASSUME GossipInv, [G!Next]_G!vars PROVE GossipInv'
  OBVIOUS
<1>1. \A l \in Link : l[1] \in Node /\ l[2] \in Node /\ l = <<l[1], l[2]>>
  BY GossipAssumption DEF G!GossipAssumption
<1>2. ASSUME UNCHANGED pool PROVE \A p : Gossiped(p) => Gossiped(p)'
  BY <1>2, PoolsGrow
<1>3. ASSUME NEW h \in Poster, G!Submit(h) PROVE GossipInv'
  <2>1. PICK n \in Node, tx \in G!Tx : n = poster[h].node /\ G!Admit(n, tx)
    BY <1>3 DEF GossipInv, G!Submit, G!RequestTx, G!Tx
  <2>2. UNCHANGED <<listener, wire, rpcCh, down>> /\ poster' = [poster EXCEPT ![h].at = "answered"]
    BY <1>3 DEF G!Submit
  <2>3. \A m \in Node : pool[m] # {} => pool'[m] # {}
    BY <2>1, AdmitKeeps
  <2>4. \A p : Gossiped(p) => Gossiped(p)'
    BY <2>3, PoolsGrow
  <2>5. \A q \in Poster : poster'[q].at = "submit" => poster'[q].node \in Node /\ poster'[q].rfq \in Request
    BY <2>2 DEF GossipInv
  <2> QED
    BY <1>1, <2>1, <2>2, <2>3, <2>4, <2>5, AdmitKeeps, Zenon DEF GossipInv
<1>4. ASSUME NEW h \in Poster, NEW n \in Node, NEW r \in Request, G!Post(h, n, r) PROVE GossipInv'
  <2>1. UNCHANGED <<sending, listener, pool, cast, wedged, wire, rpcCh, down>>
    BY <1>4 DEF G!Post
  <2>2. \A q \in Poster : poster'[q].at = "submit" => poster'[q].node \in Node /\ poster'[q].rfq \in Request
    BY <1>4 DEF GossipInv, G!Post
  <2> QED
    BY <1>2, <2>1, <2>2 DEF GossipInv
<1>5. ASSUME NEW n \in Node, G!Listen(n) PROVE GossipInv'
  <2>1. UNCHANGED <<pool, poster, cast, wedged, wire, rpcCh, down>>
    BY <1>5 DEF G!Listen
  <2>2. G!OpeningTx(sending[n].rfq) \in G!Tx
    BY <1>5 DEF GossipInv, G!Listen, G!OpeningTx, G!Tx
  <2>3. sending' \in [Node -> {None} \cup G!Tx] /\ listener' \in [Node -> {None} \cup G!Tx]
    BY <1>5, <2>2 DEF GossipInv, G!Listen
  <2> QED
    BY <1>2, <2>1, <2>3 DEF GossipInv
<1>6. ASSUME NEW n \in Node, G!SubmitOpenRFQ(n) PROVE GossipInv'
  <2>1. PICK tx \in G!Tx : G!Admit(n, tx)
    BY <1>6 DEF GossipInv, G!SubmitOpenRFQ
  <2>2. UNCHANGED <<poster, wire, rpcCh, down>> /\ listener' = [listener EXCEPT ![n] = None]
    BY <1>6 DEF G!SubmitOpenRFQ
  <2>3. \A m \in Node : pool[m] # {} => pool'[m] # {}
    BY <2>1, AdmitKeeps
  <2>4. \A p : Gossiped(p) => Gossiped(p)'
    BY <2>3, PoolsGrow
  <2>5. listener' \in [Node -> {None} \cup G!Tx]
    BY <2>2 DEF GossipInv
  <2> QED
    BY <1>1, <2>1, <2>2, <2>3, <2>4, <2>5, AdmitKeeps DEF GossipInv
<1>7. ASSUME NEW n \in Node, G!ProcessMessage(n) PROVE GossipInv'
  <2>1. /\ UNCHANGED <<sending, listener, pool, poster, cast, wedged, wire>> /\ rpcCh[n] > 0
        /\ rpcCh' = [rpcCh EXCEPT ![n] = @ - 1]
        /\ down' = down \cup {m \in Node : Process[m] = Process[n]}
    BY <1>7 DEF G!ProcessMessage
  <2>2. rpcCh' \in [Node -> Nat] /\ \A m \in Node : rpcCh'[m] > 0 => rpcCh[m] > 0
    BY <2>1 DEF GossipInv
  <2>3. Gossiped(n)
    BY <2>1 DEF GossipInv
  <2>4. \A m \in down' : \E p \in Node : Process[p] = Process[m] /\ Gossiped(p)
    BY <2>1, <2>3, Zenon DEF GossipInv
  <2> QED
    BY <1>2, <2>1, <2>2, <2>4 DEF GossipInv
<1>8. ASSUME NEW n \in Node, G!BroadcastBlock(n) PROVE GossipInv'
  BY <1>2, <1>8 DEF GossipInv, G!BroadcastBlock
<1>9. ASSUME NEW c \in cast, G!RLock(c) PROVE GossipInv'
  <2>1. /\ UNCHANGED <<sending, listener, pool, poster, wedged, wire, rpcCh, down>>
        /\ cast' = (cast \ {c}) \cup {[c EXCEPT !.locked = TRUE]}
    BY <1>9 DEF G!RLock
  <2>2. LET d == [c EXCEPT !.locked = TRUE] IN d \in Cast /\ d.from = c.from /\ d.to = c.to
    BY Zenon DEF GossipInv, Cast
  <2>3. cast' \subseteq Cast /\ \A d \in cast' : d.to \subseteq G!Peers(d.from) /\ pool[d.from] # {}
    BY <2>1, <2>2, Zenon DEF GossipInv
  <2> QED
    BY <1>2, <2>1, <2>3 DEF GossipInv
<1>10. ASSUME NEW c \in cast, NEW m \in c.to, G!SendBytesPayload(c, m) PROVE GossipInv'
  <2>1. /\ UNCHANGED <<sending, listener, pool, poster, wedged, rpcCh, down>>
        /\ cast' = (cast \ {c}) \cup {[c EXCEPT !.to = @ \ {m}]}
        /\ wire' = [wire EXCEPT ![<<c.from, m>>] = @ + 1]
    BY <1>10 DEF G!SendBytesPayload
  <2>2. LET d == [c EXCEPT !.to = @ \ {m}] IN d \in Cast /\ d.from = c.from /\ d.to \subseteq c.to
    BY DEF GossipInv, Cast
  <2>3. cast' \subseteq Cast /\ \A d \in cast' : d.to \subseteq G!Peers(d.from) /\ pool[d.from] # {}
    BY <2>1, <2>2, Zenon DEF GossipInv
  <2>4. PICK e : e = <<c.from, m>>
    BY Zenon
  <2>5. wire' = [wire EXCEPT ![e] = @ + 1] /\ e[1] = c.from
    BY <2>1, <2>4
  <2>6. wire' \in [Link -> Nat] /\ \A l \in Link : wire'[l] > 0 => wire[l] > 0 \/ l = e
    <3>1. wire \in [Link -> Nat]
      BY DEF GossipInv
    <3>2. CASE e \in Link
      <4>1. wire[e] + 1 \in Nat
        BY <3>1, <3>2
      <4> QED
        BY <2>5, <3>1, <3>2, <4>1, Zenon
    <3>3. CASE e \notin Link
      <4>1. wire' = wire
        BY <2>5, <3>1, <3>3
      <4> QED
        BY <3>1, <4>1, Zenon
    <3> QED
      BY <3>2, <3>3
  <2>7. \A l \in Link : wire'[l] > 0 => pool[l[1]] # {}
    BY <2>5, <2>6, Zenon DEF GossipInv
  <2> QED
    BY <1>2, <2>1, <2>3, <2>6, <2>7 DEF GossipInv
<1>11. ASSUME NEW l \in Link, NEW k \in 1..wire[l], G!ReadLoop(l, k) PROVE GossipInv'
  <2>1. /\ UNCHANGED <<sending, listener, pool, poster, cast, wedged, down>>
        /\ wire' = [wire EXCEPT ![l] = @ - k] /\ rpcCh' = [rpcCh EXCEPT ![l[2]] = @ + 1]
    BY <1>11 DEF G!ReadLoop
  <2>2. wire[l] \in Nat /\ wire[l] > 0 /\ wire[l] - k \in Nat
    BY <1>11 DEF GossipInv
  <2>3. wire' \in [Link -> Nat] /\ \A d \in Link : wire'[d] > 0 => wire[d] > 0
    BY <2>1, <2>2 DEF GossipInv
  <2>4. Gossiped(l[2])
    <3>1. <<l[1], l[2]>> \in Link /\ l[1] \in Node /\ pool[l[1]] # {}
      BY <1>1, <2>2 DEF GossipInv
    <3> QED
      BY <3>1, Zenon DEF Gossiped
  <2>5. rpcCh' \in [Node -> Nat] /\ \A n \in Node : rpcCh'[n] > 0 => rpcCh[n] > 0 \/ n = l[2]
    BY <1>1, <2>1 DEF GossipInv
  <2> QED
    BY <1>2, <2>1, <2>3, <2>4, <2>5 DEF GossipInv
<1>12. CASE UNCHANGED G!vars
  BY <1>2, <1>12 DEF GossipInv, G!vars
<1> QED
  BY <1>3, <1>4, <1>5, <1>6, <1>7, <1>8, <1>9, <1>10, <1>11, <1>12
     DEF G!Next, G!MainStep, G!CastStep

\* In the beginning there is no message.
LEMMA InitGossipInv == G!Init => GossipInv
<1> SUFFICES ASSUME G!Init PROVE GossipInv
  OBVIOUS
<1>1. \A h \in Poster : poster[h].at # "submit"
  BY DEF G!Init
<1>2. sending \in [Node -> {None} \cup G!Tx] /\ listener \in [Node -> {None} \cup G!Tx]
      /\ pool \in [Node -> SUBSET G!Tx]
  BY DEF G!Init
<1> QED
  BY <1>1, <1>2 DEF G!Init, GossipInv

\* No process stops unless a node that has one of its nodes as a peer has
\* admitted a transaction, for any network of nodes and any number of clients:
\* a message exists only after processTransaction has added to a pool, and
\* nothing else ends a process.
THEOREM GossipStops == G!Spec => []StoppedByGossipOnly
<1>1. GossipInv => StoppedByGossipOnly
  BY Zenon DEF GossipInv, Gossiped, StoppedByGossipOnly, G!StoppedByGossipOnly
<1> QED
  BY <1>1, InitGossipInv, NextGossipInv, PTL DEF G!Spec

----------------------------------------------------------------------------
(* WebSocketHub *)

LEMMA Goroutines ==
  /\ \A c \in Conn : Handler(c) \in Goroutine /\ Reader(c) \in Goroutine
  /\ Caster \in Goroutine
  /\ \A c, d \in Conn : /\ Handler(c) = Handler(d) => c = d
                        /\ Reader(c) = Reader(d) => c = d
                        /\ Handler(c) # Reader(d)
  /\ \A c \in Conn : Handler(c) # Caster /\ Reader(c) # Caster
  /\ Nobody \notin Goroutine
  BY NobodyAssumption DEF Goroutine, Handler, Reader, Caster

----------------------------------------------------------------------------
(* Updates *)

\* Who updates the map holds the mutex, and so does a handler that inserts and
\* a reader that removes.
MutexInv ==
  /\ handler \in [Conn -> {"none", "lock", "insert", "poll", "look", "sleep", "return", "ended"}]
  /\ reader \in [Conn -> {"none", "read", "lock", "delete", "ended"}]
  /\ access \in [Goroutine -> {"none", "read", "write", "update"}]
  /\ \A g \in Goroutine : access[g] = "update" => mutex = g
  /\ \A c \in Conn : handler[c] = "insert" => mutex = Handler(c)
  /\ \A c \in Conn : reader[c] = "delete" => mutex = Reader(c)

LEMMA InitMutexInv == Init => MutexInv
  BY DEF Init, MutexInv

LEMMA NextMutexInv == MutexInv /\ [Next]_vars => MutexInv'
<1> SUFFICES ASSUME MutexInv, [Next]_vars PROVE MutexInv'
  OBVIOUS
<1> USE Goroutines DEF MutexInv, NoAccess
<1>1. ASSUME NEW c \in Conn, Upgrade(c) PROVE MutexInv'
  BY <1>1 DEF Upgrade
<1>2. ASSUME NEW c \in Conn, LockInsert(c) PROVE MutexInv'
  BY <1>2 DEF LockInsert, Begin
<1>3. ASSUME NEW c \in Conn, Insert(c) PROVE MutexInv'
  BY <1>3 DEF Insert, End
<1>4. ASSUME NEW c \in Conn, Poll(c) PROVE MutexInv'
  BY <1>4 DEF Poll, Begin
<1>5. ASSUME NEW c \in Conn, Look(c) PROVE MutexInv'
  BY <1>5 DEF Look, End
<1>6. ASSUME NEW c \in Conn, Return(c) PROVE MutexInv'
  BY <1>6 DEF Return
<1>7. ASSUME NEW c \in Conn, ReadFails(c) PROVE MutexInv'
  BY <1>7 DEF ReadFails
<1>8. ASSUME NEW c \in Conn, LockDelete(c) PROVE MutexInv'
  BY <1>8 DEF LockDelete, Begin
<1>9. ASSUME NEW c \in Conn, Delete(c) PROVE MutexInv'
  BY <1>9 DEF Delete, End
<1>10. ASSUME NEW c \in Conn, Disconnect(c) PROVE MutexInv'
  BY <1>10 DEF Disconnect
<1>11. CASE Broadcast
  BY <1>11 DEF Broadcast, Begin
<1>12. CASE NextClient
  <2>1. /\ UNCHANGED <<mutex, handler, reader>>
        /\ access' \in {access, [access EXCEPT ![Caster] = "none"]}
    BY <1>12, Zenon DEF NextClient, End
  <2>2. QED
    BY <2>1
<1>13. CASE WriteMessage
  BY <1>13 DEF WriteMessage
<1>14. CASE CloseClient
  BY <1>14 DEF CloseClient, Begin
<1>15. CASE DeleteClient
  BY <1>15 DEF DeleteClient
<1>16. CASE UNCHANGED vars
  BY <1>16 DEF vars
<1>17. QED
  BY <1>1, <1>2, <1>3, <1>4, <1>5, <1>6, <1>7, <1>8, <1>9, <1>10, <1>11, <1>12, <1>13, <1>14,
     <1>15, <1>16 DEF Next, HandlerStep, ReaderStep, BroadcastStep

\* Insertions by handlers and removals by readers never overlap: each holds the
\* mutex from the beginning of its access to its end.
THEOREM UpdatesAreExclusive == Spec => []UpdatesExclude
<1>1. MutexInv => UpdatesExclude
  BY DEF MutexInv, UpdatesExclude
<1>2. QED
  BY InitMutexInv, NextMutexInv, <1>1, PTL DEF Spec

----------------------------------------------------------------------------
(* Broadcasts *)

\* Clients a broadcast is concerned with have been entered, and are not entered
\* again.
Entered(c) == handler[c] \notin {"none", "lock", "insert"}

\* Those still to be served.
Waiting == due \cap connected \cap open \cap clients

CastInv ==
  /\ handler \in [Conn -> {"none", "lock", "insert", "poll", "look", "sleep", "return", "ended"}]
  /\ caster \in [at : {"idle", "next", "write", "failed", "delete"}, msg : 0..MaxBroadcasts,
                 left : SUBSET Conn, to : Conn \cup {Nobody}]
  /\ clients \subseteq Conn /\ due \subseteq Conn
  /\ \A c \in clients \cup due \cup caster.left : Entered(c)
  /\ caster.at \in {"write", "failed", "delete"} => caster.to \in Conn /\ Entered(caster.to)
  /\ caster.at = "idle" => Waiting \subseteq got
  /\ caster.at = "next" => Waiting \subseteq got \cup caster.left
  /\ caster.at = "write" => Waiting \subseteq got \cup caster.left \cup {caster.to}
  /\ caster.at = "failed" => Waiting \subseteq got \cup caster.left /\ Closed(caster.to)
  /\ caster.at = "delete" => Waiting \subseteq got \cup caster.left

LEMMA InitCastInv == Init => CastInv
  BY MaxBroadcastsAssumption DEF Init, CastInv, Waiting

LEMMA NextCastInv == CastInv /\ [Next]_vars => CastInv'
<1> SUFFICES ASSUME CastInv, [Next]_vars PROVE CastInv'
  OBVIOUS
<1> USE DEF CastInv, Waiting, Closed, Entered
<1>1. ASSUME NEW c \in Conn, Upgrade(c) PROVE CastInv'
  BY <1>1 DEF Upgrade
<1>2. ASSUME NEW c \in Conn, LockInsert(c) PROVE CastInv'
  BY <1>2 DEF LockInsert
<1>3. ASSUME NEW c \in Conn, Insert(c) PROVE CastInv'
  BY <1>3 DEF Insert
<1>4. ASSUME NEW c \in Conn, Poll(c) \/ Look(c) \/ Return(c) PROVE CastInv'
  <2>1. /\ handler' \in {[handler EXCEPT ![c] = s] : s \in {"poll", "look", "return", "ended"}}
        /\ open' \subseteq open
        /\ UNCHANGED <<connected, clients, caster, due, got>>
    BY <1>4 DEF Poll, Look, Return
  <2>2. QED
    BY <2>1
<1>5. ASSUME NEW c \in Conn, ReadFails(c) \/ LockDelete(c) \/ Delete(c) \/ Disconnect(c)
      PROVE CastInv'
  <2>1. /\ connected' \subseteq connected /\ clients' \subseteq clients
        /\ UNCHANGED <<handler, open, caster, due, got>>
    BY <1>5 DEF ReadFails, LockDelete, Delete, Disconnect
  <2>2. QED
    BY <2>1
<1>6. CASE Broadcast
  <2>1. caster.msg \in 0..MaxBroadcasts /\ caster.msg < MaxBroadcasts
    BY <1>6 DEF Broadcast
  <2>2. caster.msg + 1 \in 0..MaxBroadcasts
    BY <2>1, MaxBroadcastsAssumption
  <2>3. caster' = [at |-> "next", msg |-> caster.msg + 1, left |-> clients, to |-> Nobody]
    BY <1>6 DEF Broadcast
  <2>4. UNCHANGED <<connected, open, clients, handler>> /\ due' \subseteq clients /\ got' = {}
    BY <1>6 DEF Broadcast
  <2>5. QED
    BY <2>2, <2>3, <2>4
<1>7. CASE NextClient
  <2>1. CASE caster.left \cap clients = {}
    <3>1. caster' = [caster EXCEPT !.at = "idle", !.left = {}]
      BY <1>7, <2>1 DEF NextClient
    <3>2. DEFINE none == {}
    <3>3. none \subseteq Conn
      OBVIOUS
    <3>4. HIDE DEF none
    <3>5. caster' = [caster EXCEPT !.at = "idle", !.left = none]
      BY <3>1 DEF none
    <3>6. /\ caster' \in [at : {"idle", "next", "write", "failed", "delete"}, msg : 0..MaxBroadcasts,
                          left : SUBSET Conn, to : Conn \cup {Nobody}]
          /\ caster'.at = "idle" /\ caster'.left = none
      BY <3>3, <3>5, Zenon
    <3>7. UNCHANGED <<connected, open, clients, handler, due, got>> /\ caster.at = "next"
      BY <1>7, Zenon DEF NextClient
    <3>8. QED
      BY <2>1, <3>6, <3>7 DEF none
  <2>2. CASE caster.left \cap clients # {}
    <3>1. PICK c \in caster.left \cap clients :
            caster' = [caster EXCEPT !.at = "write", !.to = c, !.left = (caster.left \cap clients) \ {c}]
      BY <1>7, <2>2, Zenon DEF NextClient
    <3>2. UNCHANGED <<connected, open, clients, handler, due, got>>
      BY <1>7, Zenon DEF NextClient
    <3>3. QED
      BY <1>7, <3>1, <3>2, Zenon DEF NextClient
  <2>3. QED
    BY <2>1, <2>2
<1>8. CASE WriteMessage
  BY <1>8 DEF WriteMessage
<1>9. CASE CloseClient
  BY <1>9 DEF CloseClient
<1>10. CASE DeleteClient
  BY <1>10 DEF DeleteClient
<1>11. CASE UNCHANGED vars
  BY <1>11 DEF vars
<1>12. QED
  BY <1>1, <1>2, <1>3, <1>4, <1>5, <1>6, <1>7, <1>8, <1>9, <1>10, <1>11, Zenon
     DEF Next, HandlerStep, ReaderStep, BroadcastStep

\* A finished broadcast has reached every client that was there at its beginning
\* and is still served: an error of one connection, and a client that leaves
\* while the map is ranged over, cost no other client the message.
THEOREM BroadcastsReachAll == Spec => []BroadcastReachesAll
<1>1. CastInv => BroadcastReachesAll
  BY DEF CastInv, BroadcastReachesAll, Waiting
<1>2. QED
  BY InitCastInv, NextCastInv, <1>1, PTL DEF Spec
=============================================================================
