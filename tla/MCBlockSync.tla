----------------------------- MODULE MCBlockSync -----------------------------
(***************************************************************************)
(* BlockSync with two sizes of a Read: one that holds every answer that    *)
(* can be under way, and one that does not hold the longest answer.  Every *)
(* block of the first instance has transactions; in the second a block may *)
(* be empty, which makes its parent unreadable.                            *)
(***************************************************************************)
EXTENDS BlockSync

CONSTANTS r1, r2, AmpleBuffer

VARIABLE ample      \* which instance it is

Ample == INSTANCE BlockSync WITH BufferBlocks <- AmpleBuffer, Pending <- {TRUE}

MCInit == Init /\ ample \in BOOLEAN

MCNext == UNCHANGED ample /\ IF ample THEN Ample!Next ELSE Next

ReceiveRequest(n) == IF ample THEN Ample!ReceiveGetBlocks(n) ELSE ReceiveGetBlocks(n)

Answer == IF ample THEN Ample!SendBlocks ELSE SendBlocks

ReadStream(r, n) == IF ample THEN Ample!Read(r, n) ELSE Read(r, n)

\* Fairness of BlockSync.
MCFairness ==
  /\ WF_vars(\E n \in 1..Len(toValidator) : ReceiveRequest(n))
  /\ \A l \in Length : SF_vars(FollowedBy(l) /\ ReceiveRequest(1))
  /\ WF_vars(ReadOneBlock)
  /\ WF_vars(Answer)
  /\ \A r \in ReadLoop : /\ WF_vars(\E n \in 1..Len(toFollower) : ReadStream(r, n))
                         /\ WF_vars(ProcessMessage(r))
  /\ WF_vars(AddBlock)
  /\ \A l \in Length : WF_vars(ReadLength(l)) /\ SF_vars(SendGetBlocks(l))

MCSpec == MCInit /\ [][MCNext]_<<vars, ample>> /\ MCFairness
=============================================================================
