------------------------------- MODULE MCPeers -------------------------------
(***************************************************************************)
(* Three nodes.  A validator and a follower have one peer, which connected *)
(* to them and can be connected to anew; their seeds are not reached.  The *)
(* third node has a seed as well; no transaction comes to it, and nobody   *)
(* answers when it connects again.                                         *)
(***************************************************************************)
EXTENDS Peers

CONSTANTS a1, d1, b1

VARIABLE node      \* which node it is

V == INSTANCE Peers WITH IsValidator <- TRUE
F == INSTANCE Peers WITH IsValidator <- FALSE
S == INSTANCE Peers WITH IsValidator <- FALSE, MaxConn <- 1

MCInit ==
  /\ node \in {"validator", "follower", "seeded"}
  /\ IF node = "seeded" THEN S!Init ELSE Init

MCNext ==
  /\ UNCHANGED node
  /\ CASE node = "validator" -> V!Next /\ dialling' = {}
       [] node = "follower"  -> F!Next /\ dialling' = {}
       [] node = "seeded"    -> S!Next /\ UNCHANGED broadcast

Loop(p, k) ==
  CASE node = "validator" -> V!ReadLoopStep(p, k)
    [] node = "follower"  -> F!ReadLoopStep(p, k)
    [] node = "seeded"    -> S!ReadLoopStep(p, k)

\* Fairness of Peers.
MCFairness ==
  /\ \A p \in Peer, k \in Channel : WF_vars(Loop(p, k))
  /\ \A p \in Peer : WF_vars(NewPeer(p))
  /\ \A b \in TxBroadcast : WF_vars(BroadcastStep(b))

MCSpec == MCInit /\ [][MCNext]_<<vars, node>> /\ MCFairness
=============================================================================
