------------------------------- MODULE Gossip -------------------------------
(***************************************************************************)
(* Transactions between nodes.  The main loop of a node takes transactions *)
(* from its API and its listener and messages from its peers.  A new one   *)
(* is added to the pool, sent to every peer by a goroutine of its own, and *)
(* announced on EventChan if it is a request.  Only a validator has a      *)
(* listener.  broadcastTx sends an empty payload, out of which the         *)
(* receiver makes a transaction without contents.                          *)
(*                                                                         *)
(* A panic ends every node of the process; main runs two nodes in one, the *)
(* second of which has dialled itself.  Blocks are the subject of          *)
(* BlockSync, connections of Peers, the listener's work of RFQAuction.     *)
(***************************************************************************)
EXTENDS Naturals, Sequences, FiniteSets

CONSTANTS
  Node, Validator,
  Link,          \* <<n, m>>: m is in the peerMap of n
  Process,       \* node -> the process it runs in
  Request,       \* RFQ requests that clients send
  Signed,        \* those whose signature verifies
  Handler,       \* POST requests
  RpcCapacity,   \* buffer of rpcCh
  None

GossipAssumption ==
  Validator \subseteq Node /\ Link \subseteq Node \X Node /\ Signed \subseteq Request

VARIABLES
  sending,       \* node -> the request its main loop is sending on EventChan, or None
  listener,      \* node -> the opening it is sending on txChan
  pool,          \* node -> transactions
  handler,       \* POST -> place, node, request
  cast,          \* broadcasts under way: node, transaction, peers left, locked
  wedged,        \* nodes whose Server.mu is held by broadcastBlock
  wire,          \* link -> messages in the connection
  rpcCh,         \* node -> messages
  down           \* nodes whose process has ended

vars == <<sending, listener, pool, handler, cast, wedged, wire, rpcCh, down>>

Tx == [kind : {"request", "opening"}, rfq : Request]

RequestTx(r) == [kind |-> "request", rfq |-> r]
OpeningTx(r) == [kind |-> "opening", rfq |-> r]

Init ==
  /\ sending = [n \in Node |-> None] /\ listener = [n \in Node |-> None]
  /\ pool = [n \in Node |-> {}]
  /\ handler = [h \in Handler |-> [at |-> "idle", node |-> None, rfq |-> None]]
  /\ cast = {} /\ wedged = {} /\ down = {}
  /\ wire = [l \in Link |-> 0]
  /\ rpcCh = [n \in Node |-> 0]

Up(n) == n \notin down

\* The main loop is in its select.
Selecting(n) == Up(n) /\ sending[n] = None

Peers(n) == {m \in Node : <<n, m>> \in Link}

----------------------------------------------------------------------------
(* processTransaction *)

Admit(n, tx) ==
  IF tx \in pool[n] \/ tx.rfq \notin Signed THEN UNCHANGED <<pool, cast, sending>>
  ELSE /\ pool' = [pool EXCEPT ![n] = @ \cup {tx}]
       /\ cast' = cast \cup {[from |-> n, tx |-> tx, to |-> Peers(n), locked |-> FALSE]}
       /\ sending' = IF tx.kind = "request" THEN [sending EXCEPT ![n] = tx] ELSE sending

\* POST /tx at node n.
Post(h, n, r) ==
  /\ handler[h].at = "idle" /\ Up(n)
  /\ handler' = [handler EXCEPT ![h] = [at |-> "submit", node |-> n, rfq |-> r]]
  /\ UNCHANGED <<sending, listener, pool, cast, wedged, wire, rpcCh, down>>

\* Mutant of Submit: an error of processTransaction is fatal.
SubmitFatal(h) ==
  LET n == handler[h].node IN
  /\ handler[h].at = "submit" /\ Selecting(n)
  /\ Admit(n, RequestTx(handler[h].rfq))
  /\ handler' = [handler EXCEPT ![h].at = "answered"]
  /\ down' = IF handler[h].rfq \in Signed THEN down ELSE down \cup {n}
  /\ UNCHANGED <<listener, wedged, wire, rpcCh>>

\* txChan <- tx.
Submit(h) ==
  LET n == handler[h].node IN
  /\ handler[h].at = "submit" /\ Selecting(n)
  /\ Admit(n, RequestTx(handler[h].rfq))
  /\ handler' = [handler EXCEPT ![h].at = "answered"]
  /\ UNCHANGED <<listener, wedged, wire, rpcCh, down>>

\* Mutant of Listen: no callback is registered, and so no listener started.
ListenNever(n) ==
  /\ Up(n) /\ n \in Validator /\ sending[n] # None /\ listener[n] # None
  /\ UNCHANGED vars

\* The listener of a validator receives the event and makes an opening.
Listen(n) ==
  /\ Up(n) /\ n \in Validator /\ sending[n] # None /\ listener[n] = None
  /\ listener' = [listener EXCEPT ![n] = OpeningTx(sending[n].rfq)]
  /\ sending' = [sending EXCEPT ![n] = None]
  /\ UNCHANGED <<pool, handler, cast, wedged, wire, rpcCh, down>>

SubmitOpenRFQ(n) ==
  /\ Selecting(n) /\ listener[n] # None
  /\ Admit(n, listener[n])
  /\ listener' = [listener EXCEPT ![n] = None]
  /\ UNCHANGED <<handler, wedged, wire, rpcCh, down>>

----------------------------------------------------------------------------
(* broadcastTx and the receiving side *)

\* broadcast: RLock, then one message to every peer.
RLock(c) ==
  /\ c \in cast /\ ~ c.locked /\ Up(c.from) /\ c.from \notin wedged
  /\ cast' = (cast \ {c}) \cup {[c EXCEPT !.locked = TRUE]}
  /\ UNCHANGED <<sending, listener, pool, handler, wedged, wire, rpcCh, down>>

SendBytesPayload(c, m) ==
  /\ c \in cast /\ c.locked /\ m \in c.to /\ Up(c.from)
  /\ cast' = (cast \ {c}) \cup {[c EXCEPT !.to = @ \ {m}]}
  /\ wire' = [wire EXCEPT ![<<c.from, m>>] = @ + 1]
  /\ UNCHANGED <<sending, listener, pool, handler, wedged, rpcCh, down>>

\* After a block broadcastBlock takes Server.mu and waits for itself.
BroadcastBlock(n) ==
  /\ Up(n) /\ n \in Validator \ wedged
  /\ wedged' = wedged \cup {n}
  /\ UNCHANGED <<sending, listener, pool, handler, cast, wire, rpcCh, down>>

\* A read loop hands over the first of the k messages one Read returns.
ReadLoop(l, k) ==
  LET m == l[2] IN
  /\ Up(m) /\ k \in 1..wire[l] /\ rpcCh[m] < RpcCapacity
  /\ wire' = [wire EXCEPT ![l] = @ - k]
  /\ rpcCh' = [rpcCh EXCEPT ![m] = @ + 1]
  /\ UNCHANGED <<sending, listener, pool, handler, cast, wedged, down>>

\* The main loop takes a message: processTransaction asks a transaction that
\* has no contents for its hash.
ProcessMessage(n) ==
  /\ Selecting(n) /\ rpcCh[n] > 0
  /\ rpcCh' = [rpcCh EXCEPT ![n] = @ - 1]
  /\ down' = down \cup {m \in Node : Process[m] = Process[n]}
  /\ UNCHANGED <<sending, listener, pool, handler, cast, wedged, wire>>

----------------------------------------------------------------------------

MainStep(n) == SubmitOpenRFQ(n) \/ ProcessMessage(n)

CastStep(c) == RLock(c) \/ \E m \in c.to : SendBytesPayload(c, m)

Next ==
  \/ \E h \in Handler : Submit(h) \/ \E n \in Node, r \in Request : Post(h, n, r)
  \/ \E n \in Node : Listen(n) \/ MainStep(n) \/ BroadcastBlock(n)
  \/ \E c \in cast : CastStep(c)
  \/ \E l \in Link : \E k \in 1..wire[l] : ReadLoop(l, k)

Spec == Init /\ [][Next]_vars

\* Goroutines that can run do, and select does not overlook a ready case for
\* ever; what is written to a connection arrives.
Fairness ==
  /\ \A h \in Handler : SF_vars(Submit(h))
  /\ \A n \in Node : WF_vars(Listen(n)) /\ SF_vars(SubmitOpenRFQ(n)) /\ SF_vars(ProcessMessage(n))
  /\ WF_vars(\E c \in cast : CastStep(c))
  /\ \A l \in Link : WF_vars(\E k \in 1..wire[l] : ReadLoop(l, k))

FairSpec == Spec /\ Fairness

----------------------------------------------------------------------------
(* Properties *)

\* The main loop and the listener of a validator wait for each other.
CircularWait(n) == n \in Validator /\ sending[n] # None /\ listener[n] # None

\* The main loop of a node without a listener waits at its first request.
Unheard(n) == n \notin Validator /\ sending[n] # None

\* Every POST is answered unless the node's main loop waits for a listener or
\* the node has stopped.
PostsAreAnswered ==
  \A h \in Handler :
    handler[h].at = "submit"
      ~> \/ handler[h].at = "answered"
         \/ \E n \in Node : n = handler[h].node /\ (~ Up(n) \/ Unheard(n) \/ CircularWait(n))

\* A process stops only if a node has admitted a transaction and one of that
\* process is a peer of it: clients of a node that nobody has as a peer cannot
\* stop another, and a rejected transaction stops none.
StoppedByGossipOnly ==
  \A n \in down : \E m \in Node, p \in Node :
    Process[p] = Process[n] /\ <<m, p>> \in Link /\ pool[m] # {}

----------------------------------------------------------------------------
(* What the documents say and the code does not do: TLC refutes these. *)

\* An opening reaches the network: handleRFQRequest says "Create an OpenRFQ
\* transaction and broadcast it to the network".
OpeningReachesNetwork ==
  \A l \in Link, r \in Request :
    OpeningTx(r) \in pool[l[1]] ~> OpeningTx(r) \in pool[l[2]]
=============================================================================
