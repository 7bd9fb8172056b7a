--------------------------- MODULE NetworkProofs ---------------------------
(***************************************************************************)
(* Proofs about two parts of the network package.                          *)
(*                                                                         *)
(* Peers, for any number of peers: a connection that the other side ends   *)
(* does not stop the node, as long as it is the only one and nothing is    *)
(* redialled.  PoolSlice, for every set of transactions and number of      *)
(* clearings: the slice that Pending returns keeps its contents while the  *)
(* pool goes on being filled and cleared.                                  *)
(***************************************************************************)
EXTENDS Peers, PoolSlice, FiniteSetTheorems, SequenceTheorems, TLAPS

----------------------------------------------------------------------------
(* Peers *)

Places == {"none", "check", "read", "deliver", "redial", "send", "close", "closePeer", "ended"}

LoopType == [Peer -> [Channel -> [at : Places, on : {0} \cup Conn, try : 1..3]]]

\* Nothing has happened that may cost the node its life.
Calm == ~ stopped /\ ~ redialled /\ \A p, q \in ended : p = q

Returned == {"send", "close", "closePeer", "ended"}

Offered(p) == acceptLoop.at = "offer" /\ acceptLoop.peer = p

\* Connections: each peer has one, from the time it is accepted or dialled.
ConnInv ==
  /\ conn \in [Peer -> {0, 1}]
  /\ state \in [Peer -> [Conn -> {"none", "open", "eof", "broken", "closed"}]]
  /\ \A p \in Peer : state[p][1] = "eof" => p \in ended
  /\ \A p \in Peer : conn[p] = 0 => /\ peerMap[p] = None
                                    /\ p \notin dialling
                                    /\ \A k \in Channel : readLoop[p][k].at = "none"
  /\ acceptLoop.at # "accept" => conn[acceptLoop.peer] = 1

\* New peers: a read loop is started once, the server's one first.
StartInv ==
  /\ readLoop \in LoopType
  /\ dialling \subseteq Dialled
  /\ acceptLoop \in [at : {"accept", "offer", "insert"}, peer : Accepted \cup {None}]
  /\ acceptLoop.at # "accept" => /\ acceptLoop.peer \in Accepted
                                 /\ readLoop[acceptLoop.peer]["transport"].at = "none"
  /\ \A p \in Peer : Offered(p) \/ p \in dialling => readLoop[p]["server"].at = "none"
  /\ \A p \in Peer, k \in Channel : readLoop[p][k].at # "none" => peerMap[p] = 1
  /\ acceptLoop.at = "insert" => peerMap[acceptLoop.peer] = 1

\* Read loops: one that returns has seen the end of its connection, and a
\* channel is closed by one that has returned.
LoopInv ==
  /\ closed \subseteq Channel
  /\ \A p \in Peer, k \in Channel : readLoop[p][k].at \notin {"none", "check"} => readLoop[p][k].on = 1
  /\ \A p \in Peer, k \in Channel : readLoop[p][k].at \in Returned => p \in ended
  /\ \A k \in closed : \E p \in Peer : readLoop[p][k].at \in {"closePeer", "ended"}

\* Broadcasts and requests are about peers of peerMap.
MapInv ==
  /\ peerMap \in [Peer -> {1, None}]
  /\ \A r \in requests : r[1] \in Peer /\ r[2] = 1 /\ peerMap[r[1]] = 1
  /\ broadcast \in [TxBroadcast -> [at : {"none", "rlock", "send", "ended"}, to : SUBSET InPeerMap]]

CalmInv == Calm => ~ panicked /\ ConnInv /\ StartInv /\ LoopInv /\ MapInv

Parts == ~ panicked /\ ConnInv /\ StartInv /\ LoopInv /\ MapInv

LEMMA OneIsConn == 1 \in Conn /\ Conn \subseteq Nat
  BY PeersAssumption DEF Conn

LEMMA CalmBefore == [Next]_vars /\ Calm' => Calm
<1> SUFFICES ASSUME [Next]_vars, Calm' PROVE Calm
  OBVIOUS
<1>1. (stopped => stopped') /\ (redialled => redialled') /\ ended \subseteq ended'
  <2> USE DEF connVars, loopVars, muVars
  <2>1. ASSUME NEW p \in Peer, Fail(p) \/ NewPeer(p) \/ ClosePeer(p) PROVE <1>1
    BY <2>1 DEF Fail, NewPeer, ClosePeer
  <2>2. ASSUME NEW p \in Peer, NEW k \in Channel, ReadLoopStep(p, k) PROVE <1>1
    BY <2>2 DEF ReadLoopStep, Check, Read, Deliver, Reconnect, Redial, SendError, CloseErrors
  <2>3. ASSUME NEW p \in Peer, Accept(p) \/ Dial(p) PROVE <1>1
    BY <2>3 DEF Accept, Dial
  <2>4. CASE InsertPeer \/ AcceptFails \/ Stop \/ BroadcastBlock \/ RequestBlocks
    BY <2>4 DEF InsertPeer, AcceptFails, Stop, BroadcastBlock, RequestBlocks
  <2>5. ASSUME NEW b \in TxBroadcast, BroadcastTx(b) \/ RLock(b) \/ RUnlock(b) PROVE <1>1
    BY <2>5 DEF BroadcastTx, RLock, RUnlock
  <2>6. ASSUME NEW b \in TxBroadcast, NEW p \in Peer, SendTo(b, p) PROVE <1>1
    BY <2>6 DEF SendTo, Redial
  <2>7. CASE UNCHANGED vars
    BY <2>7 DEF vars
  <2>8. QED
    BY <2>1, <2>2, <2>3, <2>4, <2>5, <2>6, <2>7 DEF Next, BroadcastStep, Peer
<1>2. QED
  BY <1>1 DEF Calm

\* What an assignment to one read loop does.
Moved(p, k, place) ==
  /\ readLoop' \in LoopType
  /\ readLoop'[p][k].at = place
  /\ \A q \in Peer, j \in Channel : q # p \/ j # k => readLoop'[q][j] = readLoop[q][j]

LEMMA AssignMoves ==
  ASSUME readLoop \in LoopType, NEW p \in Peer, NEW k \in Channel, NEW place \in Places,
         readLoop' = [readLoop EXCEPT ![p][k].at = place]
  PROVE  Moved(p, k, place) /\ readLoop'[p][k].on = readLoop[p][k].on
<1> DEFINE Loop == [at : Places, on : {0} \cup Conn, try : 1..3]
           loop == [readLoop[p][k] EXCEPT !.at = place]
           loops == [readLoop[p] EXCEPT ![k] = loop]
<1>1. readLoop[p][k] \in Loop /\ readLoop[p] \in [Channel -> Loop]
  BY DEF LoopType
<1>2. loop \in Loop /\ loop.at = place /\ loop.on = readLoop[p][k].on
  BY <1>1
<1>3. readLoop' = [readLoop EXCEPT ![p] = loops]
  OBVIOUS
<1> HIDE DEF loop
<1>4. loops \in [Channel -> Loop] /\ loops[k] = loop /\ \A j \in Channel \ {k} : loops[j] = readLoop[p][j]
  BY <1>1, <1>2
<1> HIDE DEF loops, Loop
<1>5. /\ readLoop' \in [Peer -> [Channel -> Loop]]
      /\ readLoop'[p] = loops /\ \A q \in Peer \ {p} : readLoop'[q] = readLoop[q]
  BY <1>3, <1>4, Zenon DEF LoopType, Loop
<1>6. QED
  BY <1>2, <1>4, <1>5 DEF Moved, LoopType, Loop

\* The parts survive a move of a running read loop to a place that suits them.
LEMMA LoopStep ==
  ASSUME Parts, NEW p \in Peer, NEW k \in Channel, NEW place \in Places \ {"none"},
         readLoop[p][k].at # "none",
         Moved(p, k, place), place = "check" \/ readLoop'[p][k].on = 1,
         place \in Returned => p \in ended,
         readLoop[p][k].at = "closePeer" => place = "ended",
         readLoop[p][k].at # "ended",
         closed' = closed \/ (closed' = closed \cup {k} /\ place \in {"closePeer", "ended"}),
         UNCHANGED <<conn, peerMap, acceptLoop, dialling, ended>>
  PROVE  /\ StartInv' /\ LoopInv'
         /\ \A q \in Peer : conn'[q] = 0 => \A j \in Channel : readLoop'[q][j].at = "none"
<1>1. StartInv'
  BY DEF Parts, StartInv, Moved, Offered, Peer, Channel
<1>2. LoopInv'
  <2>1. \A q \in Peer, j \in Channel :
          /\ readLoop'[q][j].at \notin {"none", "check"} => readLoop'[q][j].on = 1
          /\ readLoop'[q][j].at \in Returned => q \in ended'
    BY DEF Parts, LoopInv, Moved
  <2>2. \A j \in closed' : \E q \in Peer : readLoop'[q][j].at \in {"closePeer", "ended"}
    BY DEF Parts, LoopInv, Moved
  <2>3. closed' \subseteq Channel
    BY DEF Parts, LoopInv
  <2>4. QED
    BY <2>1, <2>2, <2>3 DEF LoopInv
<1>3. QED
  BY <1>1, <1>2 DEF Parts, ConnInv, Moved

----------------------------------------------------------------------------
(* Steps, by what they change *)

\* A new connection of an idle peer.
LEMMA NewConnection ==
  ASSUME Parts, NEW p \in Peer, conn[p] = 0, Open(p, 1), UNCHANGED ended
  PROVE  /\ conn' \in [Peer -> {0, 1}] /\ conn'[p] = 1 /\ \A q \in Peer \ {p} : conn'[q] = conn[q]
         /\ state' \in [Peer -> [Conn -> {"none", "open", "eof", "broken", "closed"}]]
         /\ \A q \in Peer : state'[q][1] = "eof" => q \in ended'
  BY OneIsConn DEF Parts, ConnInv, Open

LEMMA AcceptStep ==
  ASSUME Parts, NEW p \in Accepted, Accept(p)
  PROVE  Parts'
<1> USE DEF Parts, loopVars, muVars
<1>1. p \in Peer /\ Open(p, 1) /\ conn[p] = 0 /\ acceptLoop' = [at |-> "offer", peer |-> p]
  BY DEF Accept, Peer
<1>2. UNCHANGED <<peerMap, activePeers, dialling, readLoop, closed, panicked, mu, broadcast, requests, ended>>
  BY DEF Accept
<1>3. ConnInv'
  BY <1>1, <1>2, NewConnection DEF ConnInv
<1>4. StartInv'
  BY <1>1, <1>2, PeersAssumption DEF StartInv, ConnInv, Offered, Channel
<1>5. LoopInv' /\ MapInv'
  BY <1>2 DEF LoopInv, MapInv, InPeerMap
<1>6. QED
  BY <1>2, <1>3, <1>4, <1>5

LEMMA DialStep ==
  ASSUME Parts, NEW p \in Dialled, Dial(p)
  PROVE  Parts'
<1> USE DEF Parts, loopVars, muVars
<1>1. p \in Peer /\ Open(p, 1) /\ conn[p] = 0 /\ dialling' = dialling \cup {p}
  BY DEF Dial, Peer
<1>2. UNCHANGED <<peerMap, activePeers, acceptLoop, readLoop, closed, panicked, mu, broadcast, requests, ended>>
  BY DEF Dial
<1>3. ConnInv'
  BY <1>1, <1>2, NewConnection DEF ConnInv, StartInv, Peer
<1>4. StartInv'
  BY <1>1, <1>2 DEF StartInv, ConnInv, Offered, Channel
<1>5. LoopInv' /\ MapInv'
  BY <1>2 DEF LoopInv, MapInv, InPeerMap
<1>6. QED
  BY <1>2, <1>3, <1>4, <1>5

LEMMA NewPeerStep ==
  ASSUME Parts, NEW p \in Peer, NewPeer(p)
  PROVE  Parts'
<1> USE DEF Parts, connVars, muVars
<1>1. conn[p] = 1 /\ readLoop[p]["server"].at = "none"
  BY DEF NewPeer, ConnInv, StartInv, Offered
<1>2. Moved(p, "server", "check")
  BY AssignMoves, Zenon DEF NewPeer, Started, StartInv, Places, Channel
<1>3. /\ peerMap' = [peerMap EXCEPT ![p] = 1] /\ dialling' = dialling \ {p}
      /\ UNCHANGED <<conn, state, closed, panicked, requests, broadcast, ended>>
  BY <1>1 DEF NewPeer
<1>4. /\ acceptLoop' = acceptLoop \/ (Offered(p) /\ acceptLoop' = [acceptLoop EXCEPT !.at = "insert"])
      /\ Offered(p) => acceptLoop' = [acceptLoop EXCEPT !.at = "insert"]
  BY PeersAssumption DEF NewPeer, Offered, StartInv
<1>5. /\ acceptLoop'.at = "accept" <=> acceptLoop.at = "accept"
      /\ acceptLoop.at # "accept" => acceptLoop'.peer = acceptLoop.peer
      /\ acceptLoop' \in [at : {"accept", "offer", "insert"}, peer : Accepted \cup {None}]
      /\ acceptLoop'.at = "insert" => acceptLoop.at = "insert" \/ Offered(p)
      /\ ~ (acceptLoop'.at = "offer" /\ acceptLoop'.peer = p)
  BY <1>4 DEF Offered, StartInv
<1>6. ConnInv'
  BY <1>1, <1>2, <1>3, <1>5 DEF ConnInv, Moved
<1>7. StartInv'
  <2>1. readLoop' \in LoopType /\ dialling' \subseteq Dialled
    BY <1>2, <1>3 DEF StartInv, Moved
  <2>2. ASSUME acceptLoop'.at # "accept"
        PROVE  acceptLoop'.peer \in Accepted /\ readLoop'[acceptLoop'.peer]["transport"].at = "none"
    BY <1>2, <1>5, <2>2 DEF StartInv, Moved, Channel, Peer
  <2>3. ASSUME NEW q \in Peer, Offered(q)' \/ q \in dialling'
        PROVE  readLoop'[q]["server"].at = "none"
    <3>1. q # p /\ (Offered(q) \/ q \in dialling)
      BY <1>3, <1>4, <2>3 DEF Offered, StartInv
    <3>2. QED
      BY <1>2, <3>1 DEF StartInv, Moved, Channel
  <2>4. ASSUME NEW q \in Peer, NEW k \in Channel, readLoop'[q][k].at # "none"
        PROVE  peerMap'[q] = 1
    BY <1>2, <1>3, <2>4 DEF StartInv, Moved, MapInv
  <2>5. acceptLoop'.at = "insert" => peerMap'[acceptLoop'.peer] = 1
    BY <1>3, <1>5 DEF StartInv, Offered, MapInv, Peer
  <2>6. QED
    BY <1>5, <2>1, <2>2, <2>3, <2>4, <2>5 DEF StartInv
<1>8. LoopInv'
  <2>1. \A q \in Peer, j \in Channel :
          /\ readLoop'[q][j].at \notin {"none", "check"} => readLoop'[q][j].on = 1
          /\ readLoop'[q][j].at \in Returned => q \in ended'
    BY <1>2, <1>3 DEF LoopInv, Moved, Returned
  <2>2. \A j \in closed' : \E q \in Peer : readLoop'[q][j].at \in {"closePeer", "ended"}
    BY <1>1, <1>2, <1>3 DEF LoopInv, Moved
  <2>3. QED
    BY <1>3, <2>1, <2>2 DEF LoopInv
<1>9. MapInv'
  <2>1. InPeerMap \subseteq InPeerMap'
    BY <1>3, OneIsConn, NoneAssumption DEF MapInv, InPeerMap
  <2>2. QED
    BY <1>1, <1>3, <2>1 DEF MapInv
<1>10. QED
  BY <1>3, <1>6, <1>7, <1>8, <1>9

LEMMA InsertPeerStep ==
  ASSUME Parts, InsertPeer, Calm
  PROVE  Parts'
<1> USE DEF Parts, connVars, muVars
<1> DEFINE p == acceptLoop.peer
<1>1. p \in Peer /\ readLoop[p]["transport"].at = "none" /\ peerMap[p] = 1 /\ conn[p] = 1
  BY DEF InsertPeer, StartInv, ConnInv, Peer
<1>2. Moved(p, "transport", "check")
  BY <1>1, AssignMoves, Zenon DEF InsertPeer, Started, StartInv, Places, Channel
<1>3. /\ acceptLoop' = [at |-> "accept", peer |-> None]
      /\ UNCHANGED <<conn, state, peerMap, dialling, closed, panicked, requests, broadcast, ended>>
  BY DEF InsertPeer, Calm
<1> HIDE DEF p
<1>4. ConnInv'
  BY <1>1, <1>2, <1>3 DEF ConnInv, Moved
<1>5. StartInv'
  BY <1>1, <1>2, <1>3 DEF StartInv, Moved, Offered, Channel
<1>6. LoopInv'
  <2>1. \A q \in Peer, j \in Channel :
          /\ readLoop'[q][j].at \notin {"none", "check"} => readLoop'[q][j].on = 1
          /\ readLoop'[q][j].at \in Returned => q \in ended'
    BY <1>2, <1>3 DEF LoopInv, Moved, Returned
  <2>2. \A j \in closed' : \E q \in Peer : readLoop'[q][j].at \in {"closePeer", "ended"}
    BY <1>1, <1>2, <1>3 DEF LoopInv, Moved
  <2>3. QED
    BY <1>3, <2>1, <2>2 DEF LoopInv
<1>7. MapInv'
  BY <1>3 DEF MapInv, InPeerMap
<1>8. QED
  BY <1>3, <1>4, <1>5, <1>6, <1>7

LEMMA FailStep ==
  ASSUME Parts, NEW p \in Peer, Fail(p)
  PROVE  Parts'
<1> USE DEF Parts, loopVars, muVars
<1>1. PICK how \in {"eof", "broken"} :
        /\ state' = [state EXCEPT ![p][conn[p]] = how]
        /\ ended' = IF how = "eof" THEN ended \cup {p} ELSE ended
  BY Zenon DEF Fail
<1>2. conn[p] = 1
  BY DEF Fail, ConnInv
<1>3. UNCHANGED <<conn, peerMap, acceptLoop, dialling, readLoop, closed, panicked, requests, broadcast>>
  BY DEF Fail
<1>4. ConnInv'
  BY <1>1, <1>2, <1>3, OneIsConn DEF ConnInv
<1>5. StartInv' /\ MapInv'
  BY <1>3 DEF StartInv, MapInv, Offered, InPeerMap
<1>6. LoopInv'
  BY <1>1, <1>3 DEF LoopInv
<1>7. QED
  BY <1>3, <1>4, <1>5, <1>6

\* The steps of a read loop.
LEMMA CheckStep ==
  ASSUME Parts, Calm, NEW p \in Peer, NEW k \in Channel, Check(p, k)
  PROVE  Parts'
<1> USE DEF Parts, connVars, loopVars, muVars
<1>1. readLoop[p][k].at = "check" /\ conn[p] = 1
  BY DEF Check, At, ConnInv
<1>2. readLoop' = [readLoop EXCEPT ![p][k] = [at |-> "read", on |-> 1, try |-> 1]]
  BY <1>1 DEF Check, Calm
<1>3. Moved(p, k, "read") /\ readLoop'[p][k].on = 1
  BY <1>2, OneIsConn DEF StartInv, LoopType, Moved, Places
<1>4. UNCHANGED <<conn, state, peerMap, acceptLoop, dialling, closed, panicked, requests, broadcast, ended>>
  BY DEF Check
<1>5. /\ StartInv' /\ LoopInv'
      /\ \A q \in Peer : conn'[q] = 0 => \A j \in Channel : readLoop'[q][j].at = "none"
  BY <1>1, <1>3, <1>4, LoopStep DEF Returned, Places
<1>6. ConnInv' /\ MapInv'
  BY <1>4, <1>5 DEF ConnInv, MapInv, InPeerMap
<1>7. QED
  BY <1>4, <1>5, <1>6

LEMMA ReadStep ==
  ASSUME Parts, NEW p \in Peer, NEW k \in Channel, Read(p, k)
  PROVE  Parts'
<1> USE DEF Parts, connVars, loopVars, muVars
<1>1. readLoop[p][k].at = "read" /\ readLoop[p][k].on = 1
  BY DEF Read, At, LoopInv
<1>2. PICK place \in {"deliver", "send", "redial"} :
        /\ readLoop' = [readLoop EXCEPT ![p][k].at = place]
        /\ place = "send" => state[p][1] = "eof"
  BY <1>1 DEF Read, GoTo
<1>3. Moved(p, k, place) /\ readLoop'[p][k].on = 1
  BY <1>1, <1>2, AssignMoves, Zenon DEF StartInv, Places
<1>4. place \in Returned => p \in ended
  BY <1>2 DEF ConnInv, Returned
<1>5. UNCHANGED <<conn, state, peerMap, acceptLoop, dialling, closed, panicked, requests, broadcast, ended>>
  BY <1>1 DEF Read
<1>6. /\ StartInv' /\ LoopInv'
      /\ \A q \in Peer : conn'[q] = 0 => \A j \in Channel : readLoop'[q][j].at = "none"
  BY <1>1, <1>3, <1>4, <1>5, LoopStep DEF Places
<1>7. ConnInv' /\ MapInv'
  BY <1>5, <1>6 DEF ConnInv, MapInv, InPeerMap
<1>8. QED
  BY <1>5, <1>6, <1>7

LEMMA DeliverStep ==
  ASSUME Parts, NEW p \in Peer, NEW k \in Channel, Deliver(p, k)
  PROVE  Parts'
<1> USE DEF Parts, connVars, loopVars
<1>1. readLoop[p][k].at = "deliver" /\ conn[p] = 1 /\ peerMap[p] = 1
  BY DEF Deliver, At, ConnInv, StartInv
<1>2. Moved(p, k, "check")
  BY <1>1, AssignMoves DEF Deliver, GoTo, StartInv, Places
<1>3. /\ UNCHANGED <<conn, state, peerMap, acceptLoop, dialling, closed, panicked, broadcast, ended>>
      /\ requests' \subseteq requests \cup {<<p, 1>>}
  BY <1>1 DEF Deliver
<1>4. /\ StartInv' /\ LoopInv'
      /\ \A q \in Peer : conn'[q] = 0 => \A j \in Channel : readLoop'[q][j].at = "none"
  BY <1>1, <1>2, <1>3, LoopStep DEF Returned, Places
<1>5. ConnInv'
  BY <1>3, <1>4 DEF ConnInv
<1>6. MapInv'
  BY <1>1, <1>3 DEF MapInv, InPeerMap
<1>7. QED
  BY <1>3, <1>4, <1>5, <1>6

\* The one peer whose connection has ended finds the channel open: who closed it
\* would be another peer whose connection has ended, or the loop itself.
LEMMA ChannelIsOpen ==
  ASSUME Parts, Calm, NEW p \in Peer, NEW k \in Channel, readLoop[p][k].at \in {"send", "close"}
  PROVE  k \notin closed
  BY DEF Parts, Calm, LoopInv, Returned

LEMMA SendErrorStep ==
  ASSUME Parts, Calm, NEW p \in Peer, NEW k \in Channel, SendError(p, k) \/ CloseErrors(p, k)
  PROVE  Parts'
<1> USE DEF Parts, connVars, loopVars, muVars
<1>1. readLoop[p][k].at \in {"send", "close"} /\ k \notin closed
  BY ChannelIsOpen DEF SendError, CloseErrors, At
<1>2. p \in ended /\ readLoop[p][k].on = 1
  BY <1>1 DEF LoopInv, Returned
<1>3. PICK place \in {"close", "closePeer", "ended"} :
        /\ readLoop' = [readLoop EXCEPT ![p][k].at = place]
        /\ closed' = closed \/ (closed' = closed \cup {k} /\ place \in {"closePeer", "ended"})
  BY DEF SendError, CloseErrors, GoTo
<1>4. Moved(p, k, place) /\ readLoop'[p][k].on = 1
  BY <1>2, <1>3, AssignMoves, Zenon DEF StartInv, Places
<1>5. /\ UNCHANGED <<conn, state, peerMap, acceptLoop, dialling, requests, broadcast, ended>>
      /\ ~ panicked'
  BY <1>1, Zenon DEF SendError, CloseErrors
<1>6. /\ StartInv' /\ LoopInv'
      /\ \A q \in Peer : conn'[q] = 0 => \A j \in Channel : readLoop'[q][j].at = "none"
  BY <1>1, <1>2, <1>3, <1>4, <1>5, LoopStep DEF Places
<1>7. ConnInv' /\ MapInv'
  BY <1>5, <1>6 DEF ConnInv, MapInv, InPeerMap
<1>8. QED
  BY <1>5, <1>6, <1>7

LEMMA ClosePeerStep ==
  ASSUME Parts, NEW p \in Peer, ClosePeer(p)
  PROVE  Parts'
<1> USE DEF Parts, muVars
<1>1. /\ readLoop[p]["transport"].at = "closePeer" /\ readLoop[p]["transport"].on = 1
      /\ conn[p] = 1 /\ p \in ended
  BY DEF ClosePeer, At, ConnInv, LoopInv, Channel, Returned
<1>2. Moved(p, "transport", "ended") /\ readLoop'[p]["transport"].on = 1
  BY <1>1, AssignMoves, Zenon DEF ClosePeer, GoTo, StartInv, Places, Channel
<1>3. /\ UNCHANGED <<conn, peerMap, acceptLoop, dialling, closed, panicked, requests, broadcast, ended>>
      /\ state' = [state EXCEPT ![p][1] = "closed"]
  BY <1>1 DEF ClosePeer
<1>4. /\ StartInv' /\ LoopInv'
      /\ \A q \in Peer : conn'[q] = 0 => \A j \in Channel : readLoop'[q][j].at = "none"
  BY <1>1, <1>2, <1>3, LoopStep DEF Places, Channel
<1>5. ConnInv'
  BY <1>3, <1>4, OneIsConn DEF ConnInv
<1>6. MapInv'
  BY <1>3 DEF MapInv, InPeerMap
<1>7. QED
  BY <1>3, <1>4, <1>5, <1>6

\* A write that fails is redialled, after which the node is no longer calm.
LEMMA BroadcastTxStep ==
  ASSUME Parts, Calm', NEW b \in TxBroadcast,
         BroadcastTx(b) \/ RLock(b) \/ RUnlock(b) \/ \E p \in Peer : SendTo(b, p)
  PROVE  Parts'
<1> USE DEF Parts, connVars, loopVars
<1>1. /\ UNCHANGED <<conn, state, peerMap, acceptLoop, dialling, readLoop, closed, panicked, requests, ended>>
      /\ \/ \E place \in {"rlock", "ended"} : broadcast' = [broadcast EXCEPT ![b].at = place]
         \/ broadcast' = [broadcast EXCEPT ![b] = [at |-> "send", to |-> InPeerMap]]
         \/ \E p \in Peer : broadcast' = [broadcast EXCEPT ![b].to = @ \ {p}]
  <2>1. CASE BroadcastTx(b) \/ RUnlock(b)
    BY <2>1 DEF BroadcastTx, RUnlock
  <2>2. CASE RLock(b)
    BY <2>2 DEF RLock
  <2>3. ASSUME NEW p \in Peer, SendTo(b, p) PROVE <1>1
    <3>1. p \in InPeerMap /\ conn[p] = 1
      BY <2>3 DEF SendTo, MapInv, ConnInv, InPeerMap
    <3>2. QED
      BY <2>3, <3>1 DEF SendTo, Redial, Calm
  <2>4. QED
    BY <2>1, <2>2, <2>3
<1>2. broadcast' \in [TxBroadcast -> [at : {"none", "rlock", "send", "ended"}, to : SUBSET InPeerMap]]
  BY <1>1 DEF MapInv
<1>3. MapInv'
  BY <1>1, <1>2 DEF MapInv, InPeerMap
<1>4. ConnInv' /\ StartInv' /\ LoopInv'
  BY <1>1 DEF ConnInv, StartInv, LoopInv, Offered
<1>5. QED
  BY <1>1, <1>3, <1>4

----------------------------------------------------------------------------

LEMMA InitCalmInv == Init => CalmInv
<1> SUFFICES ASSUME Init PROVE Parts
  BY DEF CalmInv, Parts
<1>1. readLoop \in LoopType
  BY DEF Init, LoopType, Places
<1>2. ConnInv
  <2>1. conn \in [Peer -> {0, 1}] /\ dialling = {} /\ acceptLoop.at = "accept"
    BY DEF Init
  <2>2. /\ state \in [Peer -> [Conn -> {"none", "open", "eof", "broken", "closed"}]]
        /\ \A p \in Peer : state[p][1] = "none"
    BY OneIsConn DEF Init
  <2>3. \A p \in Peer : peerMap[p] = None /\ \A k \in Channel : readLoop[p][k].at = "none"
    BY DEF Init
  <2>4. QED
    BY <2>1, <2>2, <2>3 DEF ConnInv
<1>3. StartInv
  BY <1>1 DEF Init, StartInv, Offered
<1>4. LoopInv
  BY DEF Init, LoopInv, Returned
<1>5. MapInv
  BY DEF Init, MapInv
<1>6. QED
  BY <1>2, <1>3, <1>4, <1>5 DEF Init, Parts

LEMMA NextCalmInv == CalmInv /\ [Next]_vars => CalmInv'
<1> SUFFICES ASSUME CalmInv, [Next]_vars, Calm' PROVE Parts'
  BY DEF CalmInv, Parts
<1>1. Calm /\ Parts
  BY CalmBefore DEF CalmInv, Parts
<1>2. ASSUME NEW p \in Peer, Fail(p) \/ NewPeer(p) \/ ClosePeer(p) PROVE Parts'
  BY <1>1, <1>2, FailStep, NewPeerStep, ClosePeerStep
<1>3. ASSUME NEW p \in Peer, NEW k \in Channel, ReadLoopStep(p, k) PROVE Parts'
  <2>1. CASE Reconnect(p, k)
    <3>1. conn[p] = 1
      BY <1>1, <2>1 DEF Reconnect, At, Parts, ConnInv
    <3>2. QED
      BY <2>1, <3>1 DEF Reconnect, Redial, Calm
  <2>2. QED
    BY <1>1, <1>3, <2>1, CheckStep, ReadStep, DeliverStep, SendErrorStep DEF ReadLoopStep
<1>4. ASSUME NEW p \in Accepted, Accept(p) PROVE Parts'
  BY <1>1, <1>4, AcceptStep
<1>5. ASSUME NEW p \in Dialled, Dial(p) PROVE Parts'
  BY <1>1, <1>5, DialStep
<1>6. CASE InsertPeer
  BY <1>1, <1>6, InsertPeerStep
<1>7. CASE AcceptFails \/ Stop
  BY <1>1, <1>7 DEF AcceptFails, Stop, Calm
<1>8. ASSUME NEW b \in TxBroadcast, BroadcastTx(b) \/ BroadcastStep(b) PROVE Parts'
  BY <1>1, <1>8, BroadcastTxStep DEF BroadcastStep
<1>9. CASE BroadcastBlock
  BY <1>1, <1>9 DEF BroadcastBlock, connVars, loopVars, Parts, ConnInv, StartInv, LoopInv, MapInv, Offered, InPeerMap
<1>10. CASE RequestBlocks
  BY <1>1, <1>10 DEF RequestBlocks, Parts, MapInv
<1>11. CASE UNCHANGED vars
  BY <1>1, <1>11 DEF vars, Parts, ConnInv, StartInv, LoopInv, MapInv, Offered, InPeerMap
<1>12. QED
  BY <1>2, <1>3, <1>4, <1>5, <1>6, <1>7, <1>8, <1>9, <1>10, <1>11 DEF Next

LEMMA OneEnded ==
  ASSUME ended \subseteq Peer, Cardinality(ended) <= 1
  PROVE  \A p, q \in ended : p = q
<1> SUFFICES ASSUME NEW p \in ended, NEW q \in ended, p # q PROVE FALSE
  OBVIOUS
<1>1. IsFiniteSet(ended)
  BY PeersAssumption, FS_Union, FS_Subset, Zenon DEF Peer
<1>2. IsFiniteSet({p}) /\ Cardinality({p}) = 1 /\ q \notin {p}
  BY FS_Singleton, Zenon
<1>3. Cardinality({p} \cup {q}) = 2
  <2>1. Cardinality({p} \cup {q}) = Cardinality({p}) + 1
    BY <1>2, FS_AddElement, Zenon
  <2>2. QED
    BY <1>2, <2>1
<1>4. Cardinality({p} \cup {q}) <= Cardinality(ended) /\ Cardinality(ended) \in Nat
  BY <1>1, FS_Subset, FS_CardinalityType
<1>5. QED
  BY <1>3, <1>4

LEMMA EndedType == Spec => [](ended \subseteq Peer)
<1>1. Init => ended \subseteq Peer
  BY DEF Init
<1>2. ended \subseteq Peer /\ [Next]_vars => (ended \subseteq Peer)'
  <2> SUFFICES ASSUME ended \subseteq Peer, [Next]_vars PROVE ended' \subseteq Peer
    OBVIOUS
  <2>1. ended' = ended \/ \E p \in Peer : ended' = ended \cup {p}
    <3>1. ASSUME NEW p \in Peer, Fail(p) PROVE <2>1
      BY <3>1 DEF Fail
    <3>2. ASSUME NEW p \in Peer, NewPeer(p) \/ ClosePeer(p) PROVE ended' = ended
      BY <3>2 DEF NewPeer, ClosePeer
    <3>3. ASSUME NEW p \in Peer, NEW k \in Channel, ReadLoopStep(p, k) PROVE ended' = ended
      BY <3>3 DEF ReadLoopStep, Check, Read, Deliver, Reconnect, SendError, CloseErrors
    <3>4. ASSUME NEW p \in Peer, Accept(p) \/ Dial(p) PROVE ended' = ended
      BY <3>4 DEF Accept, Dial
    <3>5. CASE InsertPeer \/ AcceptFails \/ Stop \/ BroadcastBlock \/ RequestBlocks
      BY <3>5 DEF InsertPeer, AcceptFails, Stop, BroadcastBlock, RequestBlocks
    <3>6. ASSUME NEW b \in TxBroadcast, BroadcastTx(b) \/ RLock(b) \/ RUnlock(b) PROVE ended' = ended
      BY <3>6 DEF BroadcastTx, RLock, RUnlock
    <3>7. ASSUME NEW b \in TxBroadcast, NEW p \in Peer, SendTo(b, p) PROVE ended' = ended
      BY <3>7 DEF SendTo
    <3>8. CASE UNCHANGED vars
      BY <3>8 DEF vars
    <3>9. QED
      BY <3>1, <3>2, <3>3, <3>4, <3>5, <3>6, <3>7, <3>8 DEF Next, BroadcastStep, Peer
  <2>2. QED
    BY <2>1
<1>3. QED
  BY <1>1, <1>2, PTL DEF Spec

\* Without Stop, a reconnect or a second ended connection the node does not
\* panic: the two read loops of the peer use different channels, and no loop of
\* another peer has returned and closed one of them.
THEOREM SurvivesOneEnd == Spec => []OneEndIsSurvived
<1>1. CalmInv /\ ended \subseteq Peer => OneEndIsSurvived
  <2> SUFFICES ASSUME CalmInv, ended \subseteq Peer, panicked, ~ stopped, ~ redialled,
                      ~ (Cardinality(ended) > 1)
               PROVE  FALSE
    BY DEF OneEndIsSurvived
  <2>1. Cardinality(ended) <= 1
    <3>1. IsFiniteSet(ended)
      BY PeersAssumption, FS_Union, FS_Subset, Zenon DEF Peer
    <3>2. Cardinality(ended) \in Nat
      BY <3>1, FS_CardinalityType
    <3>3. QED
      BY <3>2
  <2>2. Calm
    BY <2>1, OneEnded DEF Calm
  <2>3. QED
    BY <2>2 DEF CalmInv
<1>2. QED
  BY <1>1, InitCalmInv, NextCalmInv, EndedType, PTL DEF Spec

----------------------------------------------------------------------------
(* PoolSlice: the slices that are in use *)

Slices == [arr : Nat, len : Nat]

CapIn(A, a) == IF a = 0 THEN 0 ELSE Len(A[a])

\* In the arrays A, the slice s holds the pool p.
HoldsIn(A, s, p) ==
  /\ s.arr <= Len(A) /\ s.len = Len(p) /\ s.len <= CapIn(A, s.arr)
  /\ \A i \in 1..s.len : A[s.arr][i] = p[i]

\* If t is in the array of s, it is not shorter: append to t leaves s alone.
Extends(t, s) == s.arr = t.arr => s.len <= t.len

PoolTypes ==
  /\ arrays \in Seq(Seq(Tx \cup {Blank}))
  /\ data \in Slices /\ pooled \in Seq(Tx) /\ snapshot \in Seq(Tx)
  /\ writer \in [target : Slices, left : SUBSET Word, pool : Seq(Tx)]
  /\ validator \in [at : {"wait", "load", "build", "clearing"}, slice : Slices, left : SUBSET Word]

\* The slice that the pool has, or will have when it is stored.
Current == IF Unlocked THEN data ELSE writer.target

PoolInv ==
  /\ PoolTypes
  /\ writer.left \in {{}, Word} => HoldsIn(arrays, data, pooled)
  /\ writer.left # {} => HoldsIn(arrays, writer.target, writer.pool)
  /\ writer.left = Word => Extends(writer.target, data)
  /\ \A w \in Word \ writer.left : ~ Unlocked => data[w] = writer.target[w]
  /\ validator.left = {} /\ ~ torn =>
       HoldsIn(arrays, validator.slice, snapshot) /\ Extends(Current, validator.slice)

LEMMA InitPoolInv == PoolInit => PoolInv
<1> SUFFICES ASSUME PoolInit PROVE PoolInv
  OBVIOUS
<1>1. arrays = << >> /\ data = Slice(0, 0) /\ writer = Rest /\ pooled = << >> /\ snapshot = << >>
  BY DEF PoolInit
<1>2. validator = [at |-> "wait", slice |-> Slice(0, 0), left |-> {}]
  BY DEF PoolInit
<1>3. Slice(0, 0) \in Slices /\ Slice(0, 0).arr = 0 /\ Slice(0, 0).len = 0
  BY DEF Slice, Slices
<1>4. writer.left = {} /\ validator.slice = data /\ data.arr = 0 /\ data.len = 0 /\ Word # {}
  BY <1>1, <1>2, <1>3 DEF Rest, Word
<1>5. PoolTypes
  <2>1. writer \in [target : Slices, left : SUBSET Word, pool : Seq(Tx)]
    BY <1>1, <1>3 DEF Rest
  <2>2. validator \in [at : {"wait", "load", "build", "clearing"}, slice : Slices, left : SUBSET Word]
    BY <1>2, <1>3
  <2>3. arrays \in Seq(Seq(Tx \cup {Blank}))
    BY <1>1
  <2>4. QED
    BY <1>1, <1>3, <2>1, <2>2, <2>3 DEF PoolTypes
<1>6. HoldsIn(arrays, data, << >>) /\ Current = data
  BY <1>1, <1>4 DEF HoldsIn, CapIn, Current, Unlocked
<1>7. QED
  BY <1>1, <1>4, <1>5, <1>6 DEF PoolInv, Extends, Unlocked

LEMMA ReplacedCell ==
  ASSUME NEW S, NEW s \in Seq(S), NEW i \in 1..Len(s), NEW x \in S, NEW r, r = [s EXCEPT ![i] = x]
  PROVE  /\ r \in Seq(S) /\ Len(r) = Len(s) /\ r[i] = x
         /\ \A k \in 1..Len(s) : k # i => r[k] = s[k]
OBVIOUS

LEMMA AppendedCell ==
  ASSUME NEW S, NEW s \in Seq(S), NEW x \in S, NEW r, r = Append(s, x)
  PROVE  /\ r \in Seq(S) /\ Len(r) = Len(s) + 1 /\ r[Len(s) + 1] = x
         /\ \A k \in 1..Len(s) : r[k] = s[k]
OBVIOUS

\* Writing the cell k of the array a.
Written(A, B, a, k, x) ==
  /\ Len(B) = Len(A) /\ Len(B[a]) = Len(A[a]) /\ B[a][k] = x
  /\ \A i \in 1..Len(A[a]) : i # k => B[a][i] = A[a][i]
  /\ \A b \in 1..Len(A) : b # a => B[b] = A[b]

LEMMA WrittenCell ==
  ASSUME NEW C, NEW A \in Seq(Seq(C)), NEW a \in 1..Len(A), NEW k \in 1..Len(A[a]), NEW x \in C
  PROVE  /\ [A EXCEPT ![a][k] = x] \in Seq(Seq(C))
         /\ Written(A, [A EXCEPT ![a][k] = x], a, k, x)
<1>1. PICK q : q = [A[a] EXCEPT ![k] = x]
  BY Zenon
<1>2. A[a] \in Seq(C)
  OBVIOUS
<1>3. /\ q \in Seq(C) /\ Len(q) = Len(A[a]) /\ q[k] = x
      /\ \A i \in 1..Len(A[a]) : i # k => q[i] = A[a][i]
  BY <1>1, <1>2, ReplacedCell
<1>4. PICK r : r = [A EXCEPT ![a] = q]
  BY Zenon
<1>5. /\ r \in Seq(Seq(C)) /\ Len(r) = Len(A) /\ r[a] = q
      /\ \A b \in 1..Len(A) : b # a => r[b] = A[b]
  BY <1>3, <1>4, ReplacedCell
<1>6. r = [A EXCEPT ![a][k] = x]
  BY <1>1, <1>4, Zenon
<1>7. Written(A, r, a, k, x)
  BY <1>3, <1>5 DEF Written
<1>8. QED
  BY <1>5, <1>6, <1>7, Zenon

LEMMA SameBelow ==
  ASSUME NEW k \in Nat, NEW m \in Nat, NEW n \in Nat, k <= m, k <= n,
         NEW f, NEW g, \A i \in 1..m : i <= n => f[i] = g[i]
  PROVE  \A i \in 1..k : f[i] = g[i]
OBVIOUS

\* A slice of A survives a write behind the slice d, in its array or in a new one.
LEMMA SliceSurvives ==
  ASSUME NEW C, NEW A \in Seq(Seq(C)), NEW B \in Seq(Seq(C)), NEW d \in Slices, NEW t \in Slices,
         NEW l \in 1..Len(B), t.arr = l, t.len = d.len + 1,
         Len(A) <= Len(B), l = d.arr \/ l > Len(A),
         \A b \in 1..Len(A) : b # l => B[b] = A[b],
         l <= Len(A) => /\ Len(B[l]) = Len(A[l])
                        /\ \A i \in 1..d.len : i <= Len(A[l]) => B[l][i] = A[l][i],
         NEW s \in Slices, NEW p \in Seq(Tx), HoldsIn(A, s, p), Extends(d, s)
  PROVE  HoldsIn(B, s, p) /\ Extends(t, s)
<1>1. s.arr \in Nat /\ s.len \in Nat /\ t.arr \in Nat /\ d.len \in Nat /\ d.arr \in Nat
  BY DEF Slices
<1>2. s.arr <= Len(A) /\ s.len = Len(p) /\ s.len <= CapIn(A, s.arr)
  BY DEF HoldsIn
<1>3. CASE s.arr = t.arr
  <2>1. s.arr = d.arr /\ s.len <= d.len /\ s.arr # 0 /\ s.arr \in 1..Len(A)
    BY <1>1, <1>2, <1>3 DEF Extends
  <2>2. s.len <= Len(A[s.arr]) /\ Len(A[s.arr]) \in Nat
    BY <1>2, <2>1 DEF CapIn
  <2>3. \A i \in 1..s.len : B[s.arr][i] = A[s.arr][i]
    <3>1. \A i \in 1..d.len : i <= Len(A[s.arr]) => B[s.arr][i] = A[s.arr][i]
      BY <1>3, <2>1
    <3>2. PICK k \in Nat, m \in Nat, n \in Nat : k = s.len /\ m = d.len /\ n = Len(A[s.arr])
      BY <1>1, <2>2, Zenon
    <3>3. PICK f, g : f = B[s.arr] /\ g = A[s.arr]
      BY Zenon
    <3>4. k <= m /\ k <= n /\ \A i \in 1..m : i <= n => f[i] = g[i]
      BY <2>1, <2>2, <3>1, <3>2, <3>3, Zenon
    <3>5. \A i \in 1..k : f[i] = g[i]
      BY <3>4, SameBelow
    <3>6. QED
      BY <3>2, <3>3, <3>5, Zenon
  <2>4. s.len <= CapIn(B, s.arr)
    BY <1>2, <1>3, <2>1, <2>2, Zenon DEF CapIn
  <2>5. HoldsIn(B, s, p)
    BY <1>1, <1>2, <2>3, <2>4 DEF HoldsIn
  <2>6. QED
    BY <1>1, <2>1, <2>5 DEF Extends
<1>4. CASE s.arr # t.arr /\ s.arr # 0
  <2>1. s.arr \in 1..Len(A) /\ B[s.arr] = A[s.arr]
    <3>1. s.arr \in 1..Len(A)
      BY <1>1, <1>2, <1>4
    <3>2. QED
      BY <1>4, <3>1, Zenon
  <2>2. s.len <= CapIn(B, s.arr) /\ s.arr <= Len(B)
    BY <1>1, <1>2, <2>1 DEF CapIn
  <2>3. \A i \in 1..s.len : B[s.arr][i] = p[i]
    BY <2>1, Zenon DEF HoldsIn
  <2>4. QED
    BY <1>2, <1>4, <2>2, <2>3 DEF HoldsIn, Extends
<1>5. CASE s.arr # t.arr /\ s.arr = 0
  <2>1. s.len = 0
    BY <1>1, <1>2, <1>5 DEF CapIn
  <2>2. QED
    BY <1>1, <1>2, <1>5, <2>1 DEF HoldsIn, CapIn, Extends
<1>6. QED
  BY <1>3, <1>4, <1>5

\* The slice that append returns: the pool and the new transaction.
LEMMA NewSlice ==
  ASSUME NEW B, NEW t \in Slices, NEW pool \in Seq(Tx), NEW tx \in Tx,
         t.arr <= Len(B), t.arr # 0, t.len = Len(pool) + 1, t.len <= Len(B[t.arr]),
         B[t.arr][t.len] = tx, \A i \in 1..Len(pool) : B[t.arr][i] = pool[i]
  PROVE  HoldsIn(B, t, Append(pool, tx))
<1>1. PICK more : more = Append(pool, tx)
  BY Zenon
<1>2. /\ Len(pool) \in Nat /\ Len(more) = Len(pool) + 1 /\ more[Len(pool) + 1] = tx
      /\ \A i \in 1..Len(pool) : more[i] = pool[i]
  BY <1>1, AppendedCell
<1>3. \A i \in 1..t.len : i \in 1..Len(pool) \/ i = t.len
  BY <1>2
<1>4. \A i \in 1..t.len : B[t.arr][i] = more[i]
  BY <1>2, <1>3, Zenon
<1>5. HoldsIn(B, t, more)
  BY <1>2, <1>4 DEF HoldsIn, CapIn
<1>6. QED
  BY <1>1, <1>5, Zenon

\* TxSortedMap.Add leaves every slice of the old pool as it was.
LEMMA InsertCells ==
  ASSUME PoolInv, NEW tx \in Tx, InsertTx(tx)
  PROVE  /\ arrays' \in Seq(Seq(Tx \cup {Blank})) /\ writer'.target \in Slices
         /\ HoldsIn(arrays', writer'.target, Append(pooled, tx))
         /\ \A s \in Slices, p \in Seq(Tx) :
              HoldsIn(arrays, s, p) /\ Extends(data, s) =>
                HoldsIn(arrays', s, p) /\ Extends(writer'.target, s)
<1>1. PICK C : C = Tx \cup {Blank}
  BY Zenon
<1>2. PICK A \in Seq(Seq(C)), d \in Slices, pool \in Seq(Tx) : A = arrays /\ d = data /\ pool = pooled
  BY <1>1, Zenon DEF PoolInv, PoolTypes
<1>3. HoldsIn(A, d, pool)
  BY <1>2 DEF PoolInv, InsertTx, Unlocked
<1>4. PICK a \in Nat, n \in Nat : a = d.arr /\ n = d.len
  BY DEF Slices
<1>5. /\ n = Len(pool) /\ a <= Len(A) /\ n <= CapIn(A, a) /\ CapIn(A, a) \in Nat
      /\ \A i \in 1..n : A[a][i] = pool[i]
  BY <1>3, <1>4 DEF HoldsIn, CapIn
<1>6. Cap(data.arr) = CapIn(A, a) /\ tx \in C /\ Blank \in C
  BY <1>1, <1>2, <1>4 DEF Cap, CapIn
<1>7. CASE n < CapIn(A, a)
  <2>1. PICK B : B = [A EXCEPT ![a][n + 1] = tx]
    BY Zenon
  <2>2. PICK t : t = Slice(a, n + 1)
    BY Zenon
  <2>3. arrays' = B /\ writer'.target = t
    BY <1>2, <1>4, <1>6, <1>7, <2>1, <2>2 DEF InsertTx
  <2>4. a \in 1..Len(A) /\ n + 1 \in 1..Len(A[a])
    BY <1>5, <1>7 DEF CapIn
  <2>5. B \in Seq(Seq(C)) /\ Written(A, B, a, n + 1, tx)
    BY <1>6, <2>1, <2>4, WrittenCell, Zenon
  <2>6. t \in Slices /\ t.arr = a /\ t.len = n + 1
    BY <2>2 DEF Slice, Slices
  <2>7. HoldsIn(B, t, Append(pool, tx))
    <3>1. \A i \in 1..n : B[a][i] = pool[i]
      <4>1. \A i \in 1..n : i \in 1..Len(A[a]) /\ i # n + 1
        BY <2>4
      <4>2. QED
        BY <1>5, <2>5, <4>1, Zenon DEF Written
    <3>2. a <= Len(B) /\ a # 0 /\ n + 1 <= Len(B[a]) /\ B[a][n + 1] = tx
      BY <2>4, <2>5 DEF Written
    <3>3. QED
      BY <1>5, <2>6, <3>1, <3>2, NewSlice, Zenon
  <2>8. ASSUME NEW s \in Slices, NEW p \in Seq(Tx), HoldsIn(A, s, p), Extends(d, s)
        PROVE  HoldsIn(B, s, p) /\ Extends(t, s)
    <3>1. Len(A) = Len(B) /\ Len(A) \in Nat /\ a \in 1..Len(B) /\ Len(B[a]) = Len(A[a])
      BY <2>4, <2>5 DEF Written
    <3>2. \A b \in 1..Len(A) : b # a => B[b] = A[b]
      BY <2>5, Zenon DEF Written
    <3>3. \A i \in 1..n : i <= Len(A[a]) => B[a][i] = A[a][i]
      <4>1. \A i \in 1..n : i \in 1..Len(A[a]) /\ i # n + 1
        BY <2>4
      <4>2. QED
        BY <2>5, <4>1, Zenon DEF Written
    <3>4. B \in Seq(Seq(C)) /\ t.len = d.len + 1 /\ a = d.arr /\ Len(A) <= Len(B)
      BY <1>4, <2>5, <2>6, <3>1
    <3>5. QED
      BY <1>4, <2>6, <2>8, <3>1, <3>2, <3>3, <3>4, SliceSurvives, Zenon
  <2>9. QED
    BY <1>1, <1>2, <2>3, <2>5, <2>6, <2>7, <2>8, Zenon
<1>8. CASE ~ (n < CapIn(A, a))
  <2>1. PICK g : g = Grown
    BY Zenon
  <2>2. /\ g \in Seq(C) /\ n + 1 \in 1..Len(g) /\ \A i \in 1..n : g[i] = pool[i]
    <3>1. PICK c \in Nat : c = (IF CapIn(A, a) = 0 THEN 1 ELSE 2 * CapIn(A, a)) /\ n + 1 <= c
      <4>1. PICK k \in Nat : k = CapIn(A, a) /\ n = k
        BY <1>5, <1>8
      <4>2. QED
        BY <4>1
    <3>2. g = [i \in 1..c |-> IF i <= n THEN A[a][i] ELSE Blank]
      BY <1>2, <1>4, <1>6, <2>1, <3>1 DEF Grown
    <3>3. \A i \in 1..c : i <= n => i \in 1..n /\ pool[i] \in C
      BY <1>1, <1>5
    <3>4. \A i \in 1..c : g[i] \in C /\ (i <= n => g[i] = pool[i])
      BY <1>5, <1>6, <3>2, <3>3
    <3>5. g \in Seq(C) /\ Len(g) = c
      BY <3>2, <3>4
    <3>6. QED
      BY <3>1, <3>4, <3>5
  <2>3. PICK A2 : A2 = Append(A, g)
    BY Zenon
  <2>4. PICK l \in Nat : l = Len(A) + 1
    OBVIOUS
  <2>5. PICK B : B = [A2 EXCEPT ![l][n + 1] = tx]
    BY Zenon
  <2>6. PICK t : t = Slice(l, n + 1)
    BY Zenon
  <2>7. A2 \in Seq(Seq(C)) /\ Len(A2) = l /\ A2[l] = g /\ \A b \in 1..Len(A) : A2[b] = A[b]
    BY <2>2, <2>3, <2>4, AppendedCell
  <2>8. arrays' = B /\ writer'.target = t
    BY <1>2, <1>4, <1>6, <1>8, <2>1, <2>3, <2>4, <2>5, <2>6, <2>7, Zenon DEF InsertTx
  <2>9. l \in 1..Len(A2) /\ n + 1 \in 1..Len(A2[l])
    BY <2>2, <2>4, <2>7
  <2>10. B \in Seq(Seq(C)) /\ Written(A2, B, l, n + 1, tx)
    BY <1>6, <2>5, <2>7, <2>9, WrittenCell, Zenon
  <2>11. t \in Slices /\ t.arr = l /\ t.len = n + 1
    BY <2>6 DEF Slice, Slices
  <2>12. HoldsIn(B, t, Append(pool, tx))
    <3>1. \A i \in 1..n : B[l][i] = pool[i]
      BY <2>2, <2>7, <2>10 DEF Written
    <3>2. l <= Len(B) /\ l # 0 /\ n + 1 <= Len(B[l]) /\ B[l][n + 1] = tx
      BY <2>4, <2>9, <2>10 DEF Written
    <3>3. QED
      BY <1>5, <2>11, <3>1, <3>2, NewSlice, Zenon
  <2>13. ASSUME NEW s \in Slices, NEW p \in Seq(Tx), HoldsIn(A, s, p), Extends(d, s)
        PROVE  HoldsIn(B, s, p) /\ Extends(t, s)
    <3>1. Len(A) <= Len(B) /\ Len(A) \in Nat /\ l \in 1..Len(B) /\ l > Len(A)
      BY <2>4, <2>7, <2>9, <2>10 DEF Written
    <3>2. \A b \in 1..Len(A) : b \in 1..Len(A2) /\ b # l
      BY <2>4, <2>7
    <3>3. \A b \in 1..Len(A) : B[b] = A[b]
      BY <2>7, <2>10, <3>2, Zenon DEF Written
    <3>4. QED
      <4>1. B \in Seq(Seq(C)) /\ t.len = d.len + 1 /\ ~ (l <= Len(A))
        BY <1>4, <2>10, <2>11, <3>1
      <4>2. QED
        BY <2>11, <2>13, <3>1, <3>3, <4>1, SliceSurvives, Zenon
  <2>14. QED
    BY <1>1, <1>2, <2>8, <2>10, <2>11, <2>12, <2>13, Zenon
<1>9. QED
  BY <1>7, <1>8

LEMMA InsertStep == ASSUME PoolInv, NEW tx \in Tx, InsertTx(tx) PROVE PoolInv'
<1>1. /\ writer.left = {} /\ data' = data /\ validator' = validator /\ pooled' = pooled
      /\ snapshot' = snapshot /\ Word # {}
  BY DEF InsertTx, Unlocked, Word
<1>2. torn' = torn
  BY DEF InsertTx
<1>3. /\ data \in Slices /\ pooled \in Seq(Tx) /\ snapshot \in Seq(Tx) /\ validator.slice \in Slices
      /\ HoldsIn(arrays, data, pooled)
  BY <1>1 DEF PoolInv, PoolTypes
<1>4. writer'.left = Word /\ writer'.pool = Append(pooled, tx)
  BY DEF InsertTx
<1>5. writer' \in [target : Slices, left : SUBSET Word, pool : Seq(Tx)]
  <2>1. PICK a, n : writer' = [target |-> Slice(a, n), left |-> Word, pool |-> Append(pooled, tx)]
    BY Zenon DEF InsertTx
  <2>2. writer'.target = Slice(a, n) /\ Append(pooled, tx) \in Seq(Tx)
    BY <1>3, <2>1
  <2>3. Slice(a, n) \in Slices
    BY <2>2, InsertCells
  <2>4. QED
    BY <2>1, <2>2, <2>3, Zenon
<1>6. PoolTypes'
  BY <1>1, <1>3, <1>5, InsertCells DEF PoolInv, PoolTypes
<1>7. HoldsIn(arrays', data, pooled) /\ Extends(writer'.target, data)
  <2>1. Extends(data, data)
    BY <1>3 DEF Extends, Slices
  <2>2. QED
    BY <1>3, <2>1, InsertCells, Zenon
<1>8. validator.left = {} /\ ~ torn =>
        HoldsIn(arrays', validator.slice, snapshot) /\ Extends(writer'.target, validator.slice)
  <2>1. Current = data
    BY <1>1 DEF Current, Unlocked
  <2>2. QED
    BY <1>3, <2>1, InsertCells, Zenon DEF PoolInv
<1>9. Current' = writer'.target
  BY <1>1, <1>4 DEF Current, Unlocked
<1>10. HoldsIn(arrays', writer'.target, writer'.pool)
  BY <1>4, InsertCells
<1>11. QED
  BY <1>1, <1>2, <1>4, <1>6, <1>7, <1>8, <1>9, <1>10, Zenon DEF PoolInv

\* The rest of the steps leave the arrays alone.
LEMMA StoreWordStep == ASSUME PoolInv, NEW w \in Word, StoreWord(w) PROVE PoolInv'
<1>1. /\ w \in writer.left /\ data' = [data EXCEPT ![w] = writer.target[w]]
      /\ arrays' = arrays /\ snapshot' = snapshot
  BY DEF StoreWord
<1>2. torn' = torn
  BY DEF StoreWord
<1>3. /\ data \in Slices /\ writer.target \in Slices /\ writer.pool \in Seq(Tx) /\ pooled \in Seq(Tx)
      /\ writer.left \in SUBSET Word /\ HoldsIn(arrays, writer.target, writer.pool)
      /\ \A v \in Word \ writer.left : data[v] = writer.target[v]
  BY <1>1 DEF PoolInv, PoolTypes, Unlocked
<1>4. data' \in Slices /\ data'[w] = writer.target[w] /\ \A v \in Word \ {w} : data'[v] = data[v]
  <2>1. CASE w = "arr"
    BY <1>1, <1>3, <2>1 DEF Slices, Word
  <2>2. CASE w = "len"
    BY <1>1, <1>3, <2>2 DEF Slices, Word
  <2>3. QED
    BY <2>1, <2>2 DEF Word
<1>5. /\ validator'.left = validator.left /\ validator'.slice = validator.slice
      /\ validator' \in [at : {"wait", "load", "build", "clearing"}, slice : Slices, left : SUBSET Word]
  <2>1. validator \in [at : {"wait", "load", "build", "clearing"}, slice : Slices, left : SUBSET Word]
    BY DEF PoolInv, PoolTypes
  <2>2. validator' = validator \/ validator' = [validator EXCEPT !.at = "wait"]
    BY Zenon DEF StoreWord
  <2>3. QED
    BY <2>1, <2>2
<1>6. validator.left = {} /\ ~ torn =>
        HoldsIn(arrays, validator.slice, snapshot) /\ Extends(writer.target, validator.slice)
  <2>1. Current = writer.target
    BY <1>1 DEF Current, Unlocked
  <2>2. QED
    BY <2>1, Zenon DEF PoolInv
<1>7. CASE writer.left = {w}
  <2>1. writer' = Rest /\ pooled' = writer.pool
    BY <1>7 DEF StoreWord
  <2>2. writer'.left = {} /\ writer' \in [target : Slices, left : SUBSET Word, pool : Seq(Tx)]
    <3>1. Slice(0, 0) \in Slices /\ << >> \in Seq(Tx)
      BY DEF Slice, Slices
    <3>2. QED
      BY <2>1, <3>1 DEF Rest
  <2>3. data' = writer.target
    <3>1. \A v \in Word : data'[v] = writer.target[v]
      BY <1>3, <1>4, <1>7
    <3>2. data'.arr = writer.target.arr /\ data'.len = writer.target.len
      BY <3>1 DEF Word
    <3>3. QED
      BY <1>3, <1>4, <3>2 DEF Slices
  <2>4. PoolTypes'
    BY <1>1, <1>3, <1>4, <1>5, <2>1, <2>2 DEF PoolInv, PoolTypes
  <2>5. Current' = data' /\ Unlocked'
    BY <2>2 DEF Current, Unlocked
  <2>6. Word # {}
    OBVIOUS
  <2>7. QED
    BY <1>1, <1>2, <1>3, <1>5, <1>6, <2>1, <2>2, <2>3, <2>4, <2>5, <2>6, Zenon DEF PoolInv
<1>8. CASE writer.left # {w}
  <2>1. writer' = [writer EXCEPT !.left = @ \ {w}] /\ pooled' = pooled
    BY <1>8 DEF StoreWord
  <2>2. writer \in [target : Slices, left : SUBSET Word, pool : Seq(Tx)]
    BY DEF PoolInv, PoolTypes
  <2>3. /\ writer'.target = writer.target /\ writer'.pool = writer.pool /\ writer'.left = writer.left \ {w}
        /\ writer' \in [target : Slices, left : SUBSET Word, pool : Seq(Tx)]
    BY <2>1, <2>2
  <2>4. writer'.left # {} /\ writer'.left # Word
    BY <1>1, <1>8, <2>3, Zenon
  <2>5. \A v \in Word \ writer'.left : data'[v] = writer.target[v]
    BY <1>3, <1>4, <2>3, Zenon
  <2>6. PoolTypes'
    BY <1>1, <1>3, <1>4, <1>5, <2>1, <2>3 DEF PoolInv, PoolTypes
  <2>7. Current' = writer.target
    BY <2>3, <2>4, Zenon DEF Current, Unlocked
  <2>8. QED
    BY <1>1, <1>2, <1>3, <1>5, <1>6, <2>3, <2>4, <2>5, <2>6, <2>7, Zenon DEF PoolInv
<1>9. QED
  BY <1>7, <1>8

LEMMA LoadWordStep == ASSUME PoolInv, NEW w \in Word, LoadWord(w) PROVE PoolInv'
<1>1. /\ arrays' = arrays /\ data' = data /\ writer' = writer /\ pooled' = pooled /\ snapshot' = pooled
      /\ w \in validator.left
  BY DEF LoadWord
<1>2. torn' = (validator.left = {w} /\ (validator'.slice # data \/ writer.left \notin {{}, Word}))
  BY DEF LoadWord
<1>3. /\ validator \in [at : {"wait", "load", "build", "clearing"}, slice : Slices, left : SUBSET Word]
      /\ data \in Slices
  BY DEF PoolInv, PoolTypes
<1>4. /\ validator'.left = validator.left \ {w}
      /\ validator' \in [at : {"wait", "load", "build", "clearing"}, slice : Slices, left : SUBSET Word]
  <2>1. PICK at \in {"wait", "load", "build", "clearing"} : at = IF validator.left = {w} THEN "build" ELSE "load"
    BY Zenon
  <2>2. PICK s : s = [validator.slice EXCEPT ![w] = data[w]]
    BY Zenon
  <2>3. s \in Slices
    <3>1. validator.slice \in Slices
      BY <1>3
    <3>2. CASE w = "arr"
      BY <1>3, <2>2, <3>1, <3>2 DEF Slices
    <3>3. CASE w = "len"
      BY <1>3, <2>2, <3>1, <3>3 DEF Slices
    <3>4. QED
      BY <3>2, <3>3 DEF Word
  <2>4. validator' = [validator EXCEPT !.slice = s, !.left = @ \ {w}, !.at = at]
    BY <2>1, <2>2, Zenon DEF LoadWord
  <2>5. QED
    BY <1>3, <2>3, <2>4, Zenon
<1>5. PoolTypes'
  BY <1>1, <1>4 DEF PoolInv, PoolTypes
<1>6. Current' = Current /\ Unlocked' = Unlocked
  BY <1>1, Zenon DEF Current, Unlocked
<1>7. ASSUME validator'.left = {}, ~ torn'
      PROVE  HoldsIn(arrays, validator'.slice, pooled) /\ Extends(Current, validator'.slice)
  <2>1. validator.left = {w}
    BY <1>1, <1>4, <1>7, Zenon
  <2>2. validator'.slice = data /\ writer.left \in {{}, Word}
    BY <1>2, <1>7, <2>1, Zenon
  <2>3. HoldsIn(arrays, data, pooled)
    BY <2>2, Zenon DEF PoolInv
  <2>4. Extends(Current, data)
    <3>1. CASE writer.left = {}
      BY <1>3, <3>1 DEF Current, Unlocked, Extends, Slices
    <3>2. CASE writer.left # {}
      BY <2>2, <3>2 DEF Current, Unlocked, PoolInv
    <3>3. QED
      BY <3>1, <3>2
  <2>5. QED
    BY <2>2, <2>3, <2>4
<1>8. QED
  BY <1>1, <1>5, <1>6, <1>7, Zenon DEF PoolInv

LEMMA ValidatorStep == ASSUME PoolInv, Pending \/ Dropped PROVE PoolInv'
<1>1. /\ arrays' = arrays /\ data' = data /\ writer' = writer /\ pooled' = pooled /\ snapshot' = snapshot
      /\ torn' = torn
  BY DEF Pending, Dropped
<1>2. validator \in [at : {"wait", "load", "build", "clearing"}, slice : Slices, left : SUBSET Word]
  BY DEF PoolInv, PoolTypes
<1>3. /\ validator' \in [at : {"wait", "load", "build", "clearing"}, slice : Slices, left : SUBSET Word]
      /\ validator'.left = {} => validator'.left = validator.left /\ validator'.slice = validator.slice
  <2>1. CASE Pending
    <3>1. Slice(0, 0) \in Slices
      BY DEF Slice, Slices
    <3>2. validator' = [at |-> "load", slice |-> Slice(0, 0), left |-> Word]
      BY <2>1 DEF Pending
    <3>3. Word # {}
      BY DEF Word
    <3>4. QED
      BY <3>1, <3>2, <3>3
  <2>2. CASE Dropped
    BY <1>2, <2>2 DEF Dropped
  <2>3. QED
    BY <2>1, <2>2
<1>4. PoolTypes'
  BY <1>1, <1>3 DEF PoolInv, PoolTypes
<1>5. Current' = Current /\ Unlocked' = Unlocked
  BY <1>1, Zenon DEF Current, Unlocked
<1>6. QED
  BY <1>1, <1>3, <1>4, <1>5, Zenon DEF PoolInv

LEMMA ClearPendingStep == ASSUME PoolInv, ClearPending PROVE PoolInv'
<1>1. /\ arrays' = arrays /\ data' = data /\ pooled' = pooled /\ snapshot' = snapshot /\ torn' = torn
      /\ writer.left = {} /\ writer' = [target |-> Slice(0, 0), left |-> Word, pool |-> << >>]
      /\ validator' = [validator EXCEPT !.at = "clearing"]
  BY DEF ClearPending, Unlocked
<1>2. Slice(0, 0) \in Slices /\ Slice(0, 0).arr = 0 /\ Slice(0, 0).len = 0
  BY DEF Slice, Slices
<1>3. /\ writer'.target = Slice(0, 0) /\ writer'.left = Word /\ writer'.pool = << >>
      /\ writer' \in [target : Slices, left : SUBSET Word, pool : Seq(Tx)]
  BY <1>1, <1>2
<1>4. /\ validator'.left = validator.left /\ validator'.slice = validator.slice
      /\ validator' \in [at : {"wait", "load", "build", "clearing"}, slice : Slices, left : SUBSET Word]
  BY <1>1, Zenon DEF PoolInv, PoolTypes
<1>5. PoolTypes'
  BY <1>1, <1>3, <1>4, Zenon DEF PoolInv, PoolTypes
<1>6. HoldsIn(arrays, Slice(0, 0), << >>)
  <2>1. arrays \in Seq(Seq(Tx \cup {Blank}))
    BY DEF PoolInv, PoolTypes
  <2>2. QED
    BY <1>2, <2>1 DEF HoldsIn, CapIn
<1>7. \A s \in Slices, p \in Seq(Tx) : HoldsIn(arrays, s, p) => Extends(Slice(0, 0), s)
  BY <1>2 DEF HoldsIn, CapIn, Extends, Slices
<1>8. data \in Slices /\ pooled \in Seq(Tx) /\ validator.slice \in Slices /\ snapshot \in Seq(Tx)
      /\ HoldsIn(arrays, data, pooled)
  BY <1>1 DEF PoolInv, PoolTypes
<1>9. Word # {} /\ Current' = Slice(0, 0)
  BY <1>3 DEF Current, Unlocked, Word
<1>10. validator.left = {} /\ ~ torn =>
         HoldsIn(arrays, validator.slice, snapshot) /\ Extends(Slice(0, 0), validator.slice)
  BY <1>7, <1>8, Zenon DEF PoolInv
<1>11. QED
  BY <1>1, <1>3, <1>4, <1>5, <1>6, <1>7, <1>8, <1>9, <1>10, Zenon DEF PoolInv

LEMMA NextPoolInv == PoolInv /\ [PoolNext]_poolVars => PoolInv'
<1> SUFFICES ASSUME PoolInv, [PoolNext]_poolVars PROVE PoolInv'
  OBVIOUS
<1>1. ASSUME NEW tx \in Tx, InsertTx(tx) PROVE PoolInv'
  BY <1>1, InsertStep
<1>2. ASSUME NEW w \in Word, StoreWord(w) \/ LoadWord(w) PROVE PoolInv'
  BY <1>2, StoreWordStep, LoadWordStep
<1>3. CASE Pending \/ Dropped \/ ClearPending
  BY <1>3, ValidatorStep, ClearPendingStep
<1>4. CASE UNCHANGED poolVars
  <2>1. /\ arrays' = arrays /\ data' = data /\ writer' = writer /\ validator' = validator
        /\ pooled' = pooled /\ snapshot' = snapshot /\ torn' = torn
    BY <1>4 DEF poolVars
  <2>2. PoolTypes' /\ Current' = Current /\ Unlocked' = Unlocked
    BY <2>1, Zenon DEF PoolInv, PoolTypes, Current, Unlocked
  <2>3. QED
    BY <2>1, <2>2, Zenon DEF PoolInv
<1>5. QED
  BY <1>1, <1>2, <1>3, <1>4 DEF PoolNext

\* The transactions of a block do not change after Pending returned them
\* although the main loop appends to the array they are in, for any number of
\* transactions and blocks, unless Pending loaded halves of two slices.
THEOREM PendingIsStable == PoolSpec => []StableUnlessTorn
<1>1. PoolInv => StableUnlessTorn
  <2> SUFFICES ASSUME PoolInv, validator.left = {} /\ ~ torn PROVE Built = snapshot
    BY DEF StableUnlessTorn
  <2>1. /\ HoldsIn(arrays, validator.slice, snapshot) /\ snapshot \in Seq(Tx)
        /\ validator.slice \in Slices
    BY DEF PoolInv, PoolTypes
  <2>2. PICK s \in Slices : s = validator.slice
    BY <2>1, Zenon
  <2>3. /\ s.len \in Nat /\ s.len = Len(snapshot) /\ s.len <= Cap(s.arr)
        /\ \A i \in 1..s.len : arrays[s.arr][i] = snapshot[i]
    BY <2>1, <2>2 DEF HoldsIn, Cap, CapIn, Slices
  <2>4. Built = [i \in 1..s.len |-> IF i <= Cap(s.arr) THEN arrays[s.arr][i] ELSE Blank]
    BY <2>2, Zenon DEF Built
  <2>5. Cap(s.arr) \in Nat
    <3>1. arrays \in Seq(Seq(Tx \cup {Blank})) /\ s.arr \in Nat /\ s.arr <= Len(arrays)
      BY <2>1, <2>2 DEF PoolInv, PoolTypes, HoldsIn, Slices
    <3>2. QED
      BY <3>1 DEF Cap
  <2>6. \A i \in 1..s.len : i <= Cap(s.arr)
    BY <2>3, <2>5
  <2>7. Built = [i \in 1..s.len |-> snapshot[i]]
    BY <2>3, <2>4, <2>6
  <2>8. snapshot = [i \in 1..Len(snapshot) |-> snapshot[i]]
    BY <2>1
  <2>9. QED
    BY <2>3, <2>7, <2>8, Zenon
<1>2. QED
  BY <1>1, InitPoolInv, NextPoolInv, PTL DEF PoolSpec
=============================================================================
