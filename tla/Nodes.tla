------------------------------- MODULE Nodes -------------------------------
(***************************************************************************)
(* Whole nodes: the starts and crashes of one (Startup), or the gossip     *)
(* between nodes that run (Gossip).  The two share nothing; a behaviour is *)
(* one of the one or of the other.                                         *)
(***************************************************************************)

CONSTANTS
  Key, Passphrase, Record, MaxCrashes,                      \* of Startup
  Node, Validator, Link, Process, Request, Signed,          \* of Gossip
  Poster, RpcCapacity, None

VARIABLES
  part,        \* what this behaviour is about
  dir, file, db, main, passphrase, key, crashes, ran, acked, loading,
  sending, listener, pool, poster, cast, wedged, wire, rpcCh, down

startVars == <<dir, file, db, main, passphrase, key, crashes, ran, acked, loading>>
gossipVars == <<sending, listener, pool, poster, cast, wedged, wire, rpcCh, down>>

S == INSTANCE Startup

G == INSTANCE Gossip WITH Handler <- Poster, handler <- poster

ASSUME GossipAssumption == G!GossipAssumption

NodeInit == part \in {"startup", "gossip"} /\ S!Init /\ G!Init

NodeNext ==
  /\ UNCHANGED part
  /\ \/ part = "startup" /\ S!Next /\ UNCHANGED gossipVars
     \/ part = "gossip" /\ G!Next /\ UNCHANGED startVars

\* Fairness of the part: before its first step nothing of Gossip is enabled.
NodeFairness ==
  /\ WF_startVars(part = "startup" /\ \E p \in Passphrase : S!Start(p))
  /\ WF_startVars(part = "startup" /\ S!Main)
  /\ G!Fairness

NodeSpec == NodeInit /\ [][NodeNext]_<<part, startVars, gossipVars>> /\ NodeFairness

----------------------------------------------------------------------------

\* The node never runs under a second key (Startup).
OneKeyForEver == S!OneKeyForEver

\* The key of a running node is in keystore.json (Startup).
RunningKeyIsSaved == S!RunningKeyIsSaved

\* A node that is started with the passphrase of its file runs again (Startup).
RunsAgain == S!RunsAgain

\* Only gossip of an admitted transaction stops a node (Gossip).
StoppedByGossipOnly == G!StoppedByGossipOnly

\* A POST is answered unless its node has stopped or its main loop waits for a
\* listener (Gossip).
PostsAreAnswered == G!PostsAreAnswered
=============================================================================
