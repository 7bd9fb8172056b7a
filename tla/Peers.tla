------------------------------- MODULE Peers -------------------------------
(***************************************************************************)
(* The connections of one node.  TCPTransport's acceptLoop takes incoming  *)
(* connections, bootstrapNetwork dials the seeds; both hand a TCPPeer to   *)
(* the main loop of the server, which enters it into peerMap under the     *)
(* address of its connection and starts a read loop.  acceptLoop starts a  *)
(* second read loop for the same peer.                                     *)
(*                                                                         *)
(* All read loops of the server share one errors channel, which            *)
(* handleErrors empties; those of the transport share another, which       *)
(* nobody empties.  A read loop closes its channel when it returns.  A     *)
(* read or a write that fails calls reconnect, which replaces the peer's   *)
(* connection, and with it the address under which its messages arrive.    *)
(*                                                                         *)
(* Connections of a peer are numbered; 0 is nil, the result of a Dial that *)
(* fails.  A panic of any goroutine stops the node.                        *)
(***************************************************************************)
EXTENDS Naturals, FiniteSets

CONSTANTS
  Accepted, Dialled,   \* peers, by the side that opened the connection
  TxBroadcast,         \* goroutines of broadcastTx
  MaxConn,             \* bound on connections of one peer
  IsValidator,         \* the node builds blocks; else it asks for them
  None

ASSUME PeersAssumption ==
  /\ IsFiniteSet(Accepted) /\ IsFiniteSet(Dialled) /\ Accepted \cap Dialled = {}
  /\ MaxConn \in Nat \ {0}

Peer == Accepted \cup Dialled
Channel == {"server", "transport"}
Conn == 1..MaxConn

ASSUME NoneAssumption == None \notin Conn

VARIABLES
  conn,        \* peer -> its current connection
  state,       \* peer -> connection -> open, eof, broken, closed
  peerMap,     \* peer -> connection whose address is its key, or None
  activePeers,
  acceptLoop,  \* its place, and the peer it is busy with
  dialling,    \* seeds whose connection is up and offered to the main loop
  readLoop,    \* peer -> channel -> place, connection it reads, attempts
  closed,      \* channels that are closed
  stopped,     \* the transport's context is cancelled
  panicked,
  mu,          \* writer of Server.mu: none, waiting or holding
  broadcast,   \* goroutine of broadcastTx -> place, peers still to be sent to
  requests,    \* requestBlocksLoops: peer and connection of their address
  received,    \* history: peers whose owner has seen them come out of peerCh
  ended,       \* history: peers whose connection was ended by the other side
  redialled    \* history: some connection was replaced

vars == <<conn, state, peerMap, activePeers, acceptLoop, dialling, readLoop, closed,
          stopped, panicked, mu, broadcast, requests, received, ended, redialled>>

connVars == <<conn, state, redialled>>
loopVars == <<peerMap, activePeers, acceptLoop, dialling>>
muVars == <<mu, broadcast, requests>>

Init ==
  /\ conn = [p \in Peer |-> 0]
  /\ state = [p \in Peer |-> [c \in Conn |-> "none"]]
  /\ peerMap = [p \in Peer |-> None]
  /\ activePeers = {} /\ dialling = {} /\ closed = {} /\ requests = {}
  /\ acceptLoop = [at |-> "accept", peer |-> None]
  /\ readLoop = [p \in Peer |-> [k \in Channel |-> [at |-> "none", on |-> 0, try |-> 1]]]
  /\ stopped = FALSE /\ panicked = FALSE /\ mu = "none"
  /\ broadcast = [b \in TxBroadcast |-> [at |-> "none", to |-> {}]]
  /\ received = {} /\ ended = {} /\ redialled = FALSE

----------------------------------------------------------------------------
(* Connections *)

Open(p, c) ==
  /\ conn' = [conn EXCEPT ![p] = c]
  /\ state' = [state EXCEPT ![p][c] = "open"]

\* The other side ends the connection, or the network fails it.
Fail(p) ==
  /\ conn[p] # 0 /\ state[p][conn[p]] = "open"
  /\ \E how \in {"eof", "broken"} :
       /\ state' = [state EXCEPT ![p][conn[p]] = how]
       /\ ended' = IF how = "eof" THEN ended \cup {p} ELSE ended
  /\ UNCHANGED <<conn, redialled, loopVars, readLoop, closed, stopped, panicked, muVars, received>>

\* One attempt of reconnect: the address comes from the present connection,
\* which the result of Dial replaces.
Redial(p) ==
  /\ conn[p] # 0
  /\ redialled' = TRUE
  /\ \/ conn[p] < MaxConn /\ Open(p, conn[p] + 1)
     \/ conn' = [conn EXCEPT ![p] = 0] /\ UNCHANGED state

----------------------------------------------------------------------------
(* New peers *)

Started(p, k) == [readLoop EXCEPT ![p][k].at = "check"]

\* acceptLoop: Accept, peerCh <- peer, activePeers, and its read loop.
Accept(p) ==
  /\ ~ panicked /\ ~ stopped
  /\ acceptLoop.at = "accept" /\ conn[p] = 0 /\ p \notin received
  /\ Open(p, 1)
  /\ acceptLoop' = [at |-> "offer", peer |-> p]
  /\ UNCHANGED <<redialled, peerMap, activePeers, dialling, readLoop, closed, stopped,
                 panicked, muVars, received, ended>>

\* The main loop takes a peer from peerCh, enters it and starts its read loop.
NewPeer(p) ==
  /\ ~ panicked
  /\ p \in dialling \/ acceptLoop = [at |-> "offer", peer |-> p]
  /\ peerMap' = [peerMap EXCEPT ![p] = conn[p]]
  /\ readLoop' = Started(p, "server")
  /\ received' = received \cup {p}
  /\ dialling' = dialling \ {p}
  /\ acceptLoop' = IF p \in Accepted THEN [acceptLoop EXCEPT !.at = "insert"] ELSE acceptLoop
  /\ UNCHANGED <<connVars, activePeers, closed, stopped, panicked, muVars, ended>>

\* activePeers is written after the peer has been handed over.
InsertPeer ==
  LET p == acceptLoop.peer IN
  /\ ~ panicked /\ acceptLoop.at = "insert"
  /\ activePeers' = activePeers \cup {p}
  /\ readLoop' = Started(p, "transport")
  /\ acceptLoop' = [at |-> IF stopped THEN "ended" ELSE "accept", peer |-> None]
  /\ UNCHANGED <<connVars, peerMap, dialling, closed, stopped, panicked, muVars, received, ended>>

\* Accept fails after Stop; the error is sent to a channel without a receiver.
AcceptFails ==
  /\ ~ panicked /\ stopped /\ acceptLoop.at \in {"accept", "failed"}
  /\ acceptLoop' = [acceptLoop EXCEPT !.at = "failed"]
  /\ panicked' = ("transport" \in closed)
  /\ UNCHANGED <<connVars, peerMap, activePeers, dialling, readLoop, closed, stopped,
                 muVars, received, ended>>

\* bootstrapNetwork reaches a seed.
Dial(p) ==
  /\ ~ panicked /\ conn[p] = 0 /\ p \notin received \cup dialling
  /\ Open(p, 1)
  /\ dialling' = dialling \cup {p}
  /\ UNCHANGED <<redialled, peerMap, activePeers, acceptLoop, readLoop, closed, stopped,
                 panicked, muVars, received, ended>>

Stop ==
  /\ ~ panicked /\ ~ stopped
  /\ stopped' = TRUE
  /\ UNCHANGED <<connVars, loopVars, readLoop, closed, panicked, muVars, received, ended>>

----------------------------------------------------------------------------
(* The read loop of peer p that reports to channel k *)

At(p, k, place) == ~ panicked /\ readLoop[p][k].at = place

GoTo(p, k, place) == readLoop' = [readLoop EXCEPT ![p][k].at = place]

\* The context of a dialled peer is nobody's child.
Check(p, k) ==
  /\ At(p, k, "check")
  /\ readLoop' = [readLoop EXCEPT ![p][k] =
       [at |-> IF stopped /\ p \in Accepted THEN "close" ELSE "read", on |-> conn[p], try |-> 1]]
  /\ UNCHANGED <<connVars, loopVars, closed, stopped, panicked, muVars, received, ended>>

\* Read on the connection that the peer had when it was called.
Read(p, k) ==
  LET c == readLoop[p][k].on IN
  /\ At(p, k, "read")
  /\ IF c = 0 THEN panicked' = TRUE /\ UNCHANGED readLoop
     ELSE /\ GoTo(p, k, CASE state[p][c] = "open" -> "deliver"
                          [] state[p][c] = "eof" -> "send"
                          [] OTHER -> "redial")
          /\ UNCHANGED panicked
  /\ UNCHANGED <<connVars, loopVars, closed, stopped, muVars, received, ended>>

\* The main loop takes a message; its From is the address of the connection
\* that the peer has now.  A status starts a requestBlocksLoop on a follower.
Deliver(p, k) ==
  /\ At(p, k, "deliver")
  /\ IF conn[p] = 0 THEN panicked' = TRUE /\ UNCHANGED <<readLoop, requests>>
     ELSE /\ GoTo(p, k, "check")
          /\ \/ UNCHANGED requests
             \/ ~ IsValidator /\ requests' = requests \cup {<<p, conn[p]>>}
          /\ UNCHANGED panicked
  /\ UNCHANGED <<connVars, loopVars, closed, stopped, mu, broadcast, received, ended>>

Reconnect(p, k) ==
  /\ At(p, k, "redial")
  /\ IF conn[p] = 0
     THEN panicked' = TRUE /\ UNCHANGED <<connVars, readLoop>>
     ELSE /\ Redial(p)
          /\ IF conn'[p] # 0 THEN GoTo(p, k, "check")
             ELSE IF readLoop[p][k].try = 3 THEN GoTo(p, k, "send")
             ELSE readLoop' = [readLoop EXCEPT ![p][k].try = @ + 1]
          /\ UNCHANGED panicked
  /\ UNCHANGED <<loopVars, closed, stopped, muVars, received, ended>>

\* Mutant of SendError: the channel is closed before the error is sent.
SendErrorLate(p, k) ==
  /\ At(p, k, "send")
  /\ k \in closed \/ k = "server"
  /\ panicked' = TRUE
  /\ GoTo(p, k, "close")
  /\ UNCHANGED <<connVars, loopVars, closed, stopped, muVars, received, ended>>

\* Mutant of SendError: nobody receives.
SendErrorUnheard(p, k) ==
  /\ At(p, k, "send") /\ k \in closed
  /\ panicked' = TRUE
  /\ UNCHANGED <<connVars, loopVars, readLoop, closed, stopped, muVars, received, ended>>

\* errors <- err: handleErrors receives from the server's channel only.
SendError(p, k) ==
  /\ At(p, k, "send")
  /\ k \in closed \/ k = "server"
  /\ panicked' = (k \in closed)
  /\ GoTo(p, k, "close")
  /\ UNCHANGED <<connVars, loopVars, closed, stopped, muVars, received, ended>>

\* The deferred close of the channel.
CloseErrors(p, k) ==
  /\ At(p, k, "close")
  /\ panicked' = (k \in closed)
  /\ closed' = closed \cup {k}
  /\ GoTo(p, k, IF k = "transport" THEN "closePeer" ELSE "ended")
  /\ UNCHANGED <<connVars, loopVars, stopped, muVars, received, ended>>

ClosePeer(p) ==
  /\ At(p, "transport", "closePeer")
  /\ IF conn[p] = 0 THEN panicked' = TRUE /\ UNCHANGED <<state, activePeers>>
     ELSE /\ state' = [state EXCEPT ![p][conn[p]] = "closed"]
          /\ activePeers' = activePeers \ {p}
          /\ UNCHANGED panicked
  /\ GoTo(p, "transport", "ended")
  /\ UNCHANGED <<conn, redialled, peerMap, acceptLoop, dialling, closed, stopped, muVars,
                 received, ended>>

----------------------------------------------------------------------------
(* Server.mu: broadcasts and requests *)

InPeerMap == {p \in Peer : peerMap[p] # None}

\* broadcast takes the read lock and goes through peerMap.
RLock(b) ==
  /\ ~ panicked /\ broadcast[b].at = "rlock" /\ mu = "none"
  /\ broadcast' = [broadcast EXCEPT ![b] = [at |-> "send", to |-> InPeerMap]]
  /\ UNCHANGED <<connVars, loopVars, readLoop, closed, stopped, panicked, mu,
                 requests, received, ended>>

\* processTransaction starts broadcastTx.
BroadcastTx(b) ==
  /\ ~ panicked /\ broadcast[b].at = "none"
  /\ broadcast' = [broadcast EXCEPT ![b].at = "rlock"]
  /\ UNCHANGED <<connVars, loopVars, readLoop, closed, stopped, panicked, mu,
                 requests, received, ended>>

\* Mutant of SendTo: it waits for a connection that works.
SendToOpen(b, p) ==
  /\ ~ panicked /\ broadcast[b].at = "send" /\ p \in broadcast[b].to
  /\ conn[p] # 0 /\ state[p][conn[p]] = "open"
  /\ broadcast' = [broadcast EXCEPT ![b].to = @ \ {p}]
  /\ UNCHANGED <<connVars, loopVars, readLoop, closed, stopped, panicked, mu, requests, received, ended>>

\* SendBytesPayload to one peer: a write that fails reconnects.
SendTo(b, p) ==
  /\ ~ panicked /\ broadcast[b].at = "send" /\ p \in broadcast[b].to
  /\ LET sent == broadcast' = [broadcast EXCEPT ![b].to = @ \ {p}] IN
     IF conn[p] = 0 THEN panicked' = TRUE /\ UNCHANGED <<connVars, broadcast>>
     ELSE /\ \/ state[p][conn[p]] \in {"open", "eof"} /\ sent /\ UNCHANGED connVars
             \/ /\ state[p][conn[p]] # "open" /\ Redial(p)
                /\ IF conn'[p] = 0 THEN UNCHANGED broadcast ELSE sent
          /\ UNCHANGED panicked
  /\ UNCHANGED <<loopVars, readLoop, closed, stopped, mu, requests, received, ended>>

RUnlock(b) ==
  /\ ~ panicked /\ broadcast[b].at = "send" /\ broadcast[b].to = {}
  /\ broadcast' = [broadcast EXCEPT ![b].at = "ended"]
  /\ UNCHANGED <<connVars, loopVars, readLoop, closed, stopped, panicked, mu,
                 requests, received, ended>>

\* broadcastBlock takes the lock and then waits for its read lock for ever.
BroadcastBlock ==
  /\ ~ panicked /\ IsValidator
  /\ \/ mu = "none" /\ mu' = "waiting"
     \/ /\ mu = "waiting" /\ \A b \in TxBroadcast : broadcast[b].at # "send"
        /\ mu' = "holding"
  /\ UNCHANGED <<connVars, loopVars, readLoop, closed, stopped, panicked, broadcast,
                 requests, received, ended>>

\* A round of requestBlocksLoop looks its address up in peerMap, and looks into
\* the peer to report that it is not there.  The read lock is given back when
\* the loop ends; a follower has no writer.
RequestBlocks ==
  /\ ~ panicked
  /\ \E r \in requests : peerMap[r[1]] # r[2]
  /\ panicked' = TRUE
  /\ UNCHANGED <<connVars, loopVars, readLoop, closed, stopped, muVars, received, ended>>

----------------------------------------------------------------------------

ReadLoopStep(p, k) ==
  Check(p, k) \/ Read(p, k) \/ Deliver(p, k) \/ Reconnect(p, k) \/ SendError(p, k) \/ CloseErrors(p, k)

BroadcastStep(b) == RLock(b) \/ (\E p \in Peer : SendTo(b, p)) \/ RUnlock(b)

Next ==
  \/ \E p \in Peer : Fail(p) \/ NewPeer(p) \/ ClosePeer(p) \/ (\E k \in Channel : ReadLoopStep(p, k))
  \/ \E p \in Accepted : Accept(p)
  \/ \E p \in Dialled : Dial(p)
  \/ InsertPeer \/ AcceptFails \/ Stop
  \/ \E b \in TxBroadcast : BroadcastTx(b) \/ BroadcastStep(b)
  \/ BroadcastBlock \/ RequestBlocks

Spec == Init /\ [][Next]_vars

\* Goroutines that can take a step do so; nothing is assumed of connections.
Fairness ==
  /\ \A p \in Peer, k \in Channel : WF_vars(ReadLoopStep(p, k))
  /\ \A p \in Peer : WF_vars(NewPeer(p))
  /\ \A b \in TxBroadcast : WF_vars(BroadcastStep(b))

FairSpec == Spec /\ Fairness

----------------------------------------------------------------------------
(* Properties *)

\* One connection that the other side ends does not stop the node, although
\* two read loops see the end of it and each closes a channel that others
\* use.  A second such end, Stop, or a replaced connection may.
OneEndIsSurvived ==
  panicked => stopped \/ redialled \/ Cardinality(ended) > 1

\* The server's read loop learns of a connection that the other side has ended
\* and returns; no error is kept waiting for handleErrors.
EndIsNoticed ==
  \A p \in Peer :
    p \in ended /\ p \in received ~> readLoop[p]["server"].at = "ended" \/ panicked \/ redialled

\* A transaction is sent to every peer of peerMap, whatever else is broadcast,
\* requested or read meanwhile, until the first block is broadcast: that
\* goroutine waits for itself and nothing is ever sent again.
BroadcastsEnd ==
  \A b \in TxBroadcast :
    broadcast[b].at = "rlock" ~> broadcast[b].at = "ended" \/ panicked \/ mu # "none"

----------------------------------------------------------------------------
(* What the documents say and the code does not do: TLC refutes these. *)

\* Who gets a peer from peerCh finds it among the active peers.  The transport's
\* test receives a peer and reports "Peer was not added to transport" if not.
ReceivedPeerIsActive == received \cap Accepted \subseteq activePeers

\* reconnect says that it will "try to reconnect 3 times": a Dial that fails is
\* followed by another.
FailedDialIsRepeated ==
  [][\A p \in Peer, k \in Channel :
       At(p, k, "redial") /\ readLoop[p][k].try > 1 /\ Reconnect(p, k) => ~ panicked']_vars
=============================================================================
