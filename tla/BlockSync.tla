----------------------------- MODULE BlockSync -----------------------------
(***************************************************************************)
(* How a follower (a node without a key) gets the blocks of a validator    *)
(* over one TCP connection.  The validator's statusLoop announces the      *)
(* length of its chain; the follower starts a requestBlocksLoop for every  *)
(* announcement that exceeds its own length; each round of the loop asks   *)
(* for the blocks from its length up to and including the announced one;   *)
(* the validator's main loop answers; the follower appends what it gets.   *)
(*                                                                         *)
(* Messages are gob values without framing: a Read returns what has        *)
(* arrived, at most one buffer, and the first message in it is decoded.    *)
(* An answer has the size of its blocks, the other messages are small.  A  *)
(* follower accepted the connection, so two read loops serve it; rpcCh is  *)
(* taken together with the main loop that empties it.                      *)
(*                                                                         *)
(* A node stops when a goroutine panics.  What keeps a connection up or    *)
(* breaks it is the subject of Peers, and the steps of the validator's     *)
(* block production that of BlockProduction.                               *)
(***************************************************************************)
EXTENDS Naturals, Sequences, FiniteSets

CONSTANTS
  ReadLoop,      \* the follower's two read loops
  BufferBlocks,  \* blocks that fit into one Read of 4096 bytes
  Pending,       \* whether transactions may be pending when a block is built
  MaxLength,     \* bound on the length of the validator's chain
  MaxInFlight,   \* bound on messages to the follower
  MaxOutstanding,   \* bound on requests that have not been met
  None

ASSUME SyncAssumption ==
  /\ IsFiniteSet(ReadLoop)
  /\ BufferBlocks \in Nat
  /\ Pending \subseteq BOOLEAN
  /\ MaxLength \in Nat

\* Lengths that are announced: statusLoop starts with two blocks at the least.
Length == 3..MaxLength

VARIABLES
  chain,         \* validator's headers: whether the block has transactions
  leaked,        \* a read lock of the chain was not given back
  waiting,       \* the validator loop waits for the chain's lock
  lastBroadcastHeight,  \* of statusLoop: a length, or 0 before it starts
  serving,       \* processGetBlocksMessage: its state, or None
  headers,       \* follower's headers: height and transactions of each
  applying,      \* blocks that processBlocksMessage has still to verify
  held,          \* read loop -> message it hands to the main loop, or None
  loop,          \* announced length -> state of its requestBlocksLoop
  toFollower, toValidator,   \* the two directions of the connection
  up,            \* nodes that run
  overlapped,    \* history: a request was sent while another was being met
  overfull       \* history: more blocks than fit a buffer were under way

validatorVars == <<chain, leaked, waiting, lastBroadcastHeight, serving>>
followerVars == <<headers, applying, held, loop>>
vars == <<validatorVars, followerVars, toFollower, toValidator, up, overlapped, overfull>>

----------------------------------------------------------------------------
(* Messages and the connection *)

StatusMessage(length) == [kind |-> "status", length |-> length]

GetBlocksMessage(from, to) == [kind |-> "getBlocks", from |-> from, to |-> to]

BlocksMessage(blocks) == [kind |-> "blocks", blocks |-> blocks]

\* The rest of a message of which a Read returned the beginning.
Fragment == [kind |-> "fragment"]

\* gob leaves out the unexported fields of a Block, its transactions.
GobBlock(b) == [height |-> b.height, txs |-> FALSE]

\* The answers in a stream, by their places.
Answers(stream) == {i \in DOMAIN stream : stream[i].kind = "blocks"}

\* The size of a stream is the number of blocks in it.
Sizes(stream) == Cardinality(UNION {{i} \X DOMAIN stream[i].blocks : i \in Answers(stream)})

\* How many of the first n messages fit into a buffer.
Fitting(stream, n) ==
  CHOOSE k \in 0..n : /\ Sizes(SubSeq(stream, 1, k)) <= BufferBlocks
                      /\ k = n \/ Sizes(SubSeq(stream, 1, k + 1)) > BufferBlocks

\* What DefaultRPCDecodeFunc makes of a Read when n messages have arrived:
\* the first message, or an error when it is cut off.
Decoded(stream, n) == IF Fitting(stream, n) = 0 THEN Fragment ELSE stream[1]

\* What is left in the connection.
Remainder(stream, n) ==
  LET k == Fitting(stream, n) IN
  IF k = n THEN SubSeq(stream, n + 1, Len(stream))
  ELSE <<Fragment>> \o SubSeq(stream, k + 2, Len(stream))

----------------------------------------------------------------------------

Init ==
  /\ chain = <<FALSE>>                       \* the genesis block
  /\ leaked = FALSE /\ waiting = FALSE
  /\ lastBroadcastHeight = 0 /\ serving = None
  /\ headers = <<>> /\ applying = <<>>
  /\ held = [r \in ReadLoop |-> None]
  /\ loop = [l \in Length |-> [pc |-> "none", to |-> 0]]
  /\ toFollower = <<>> /\ toValidator = <<>>
  /\ up = {"validator", "follower"}
  /\ overlapped = FALSE /\ overfull = FALSE

----------------------------------------------------------------------------
(* The validator *)

\* Building an empty block changes the hash of its parent's header, under
\* which the parent was stored; see BlockProduction.
Unreadable(height) ==
  chain[height + 1] /\ height + 2 <= Len(chain) /\ ~ chain[height + 2]

\* CreateNewBlock; it waits for ever when a read lock was leaked.
CreateNewBlock(txs) ==
  /\ "validator" \in up /\ ~ waiting
  /\ Len(chain) < MaxLength
  /\ IF leaked THEN waiting' = TRUE /\ UNCHANGED chain
     ELSE chain' = Append(chain, txs) /\ UNCHANGED waiting
  /\ UNCHANGED <<leaked, lastBroadcastHeight, serving, followerVars, toFollower,
                 toValidator, up, overlapped, overfull>>

\* statusLoop reads the current block once before its loop; there is none
\* until the first block after the genesis block, and the node panics.
StartStatusLoop ==
  /\ "validator" \in up /\ lastBroadcastHeight = 0
  /\ IF Len(chain) = 1 THEN up' = up \ {"validator"} /\ UNCHANGED lastBroadcastHeight
     ELSE lastBroadcastHeight' = Len(chain) /\ UNCHANGED up
  /\ UNCHANGED <<chain, leaked, waiting, serving, followerVars, toFollower, toValidator,
                 overlapped, overfull>>

\* A tick of statusLoop after the current block has changed.
SendStatus ==
  /\ "validator" \in up
  /\ lastBroadcastHeight \notin {0, Len(chain)}
  /\ Len(toFollower) < MaxInFlight
  /\ toFollower' = Append(toFollower, StatusMessage(Len(chain)))
  /\ lastBroadcastHeight' = Len(chain)
  /\ UNCHANGED <<chain, leaked, waiting, serving, followerVars, toValidator, up, overlapped,
                 overfull>>

\* Mutant of ReceiveGetBlocks: the range starts behind To.
ReceiveGetBlocksSkipping(n) ==
  LET msg == Decoded(toValidator, n) IN
  /\ "validator" \in up /\ serving = None
  /\ toValidator' = Remainder(toValidator, n)
  /\ serving' = IF msg.from <= Len(chain) /\ msg.to <= Len(chain)
                THEN [next |-> msg.to + 1, from |-> msg.from, blocks |-> <<>>]
                ELSE [next |-> 1, from |-> 0, blocks |-> <<>>]
  /\ UNCHANGED <<chain, leaked, waiting, lastBroadcastHeight, followerVars, toFollower, up,
                 overlapped, overfull>>

\* The read loop and the beginning of processGetBlocksMessage.  The loop over
\* the blocks runs from To to From.
ReceiveGetBlocks(n) ==
  LET msg == Decoded(toValidator, n) IN
  /\ "validator" \in up /\ serving = None
  /\ toValidator' = Remainder(toValidator, n)
  /\ serving' = IF msg.from <= Len(chain) /\ msg.to <= Len(chain)
                THEN [next |-> msg.to, from |-> msg.from, blocks |-> <<>>]
                ELSE [next |-> 1, from |-> 0, blocks |-> <<>>]
  /\ UNCHANGED <<chain, leaked, waiting, lastBroadcastHeight, followerVars, toFollower, up,
                 overlapped, overfull>>

\* One round of the loop: GetBlock, under the chain's lock.  An error ends the
\* handler without an answer.
ReadOneBlock ==
  /\ "validator" \in up /\ serving # None /\ ~ waiting
  /\ serving.next <= serving.from
  /\ LET height == serving.next
         block == [height |-> height, txs |-> chain[height + 1]]
     IN  IF height >= Len(chain) THEN serving' = None /\ UNCHANGED leaked
         ELSE IF Unreadable(height) THEN serving' = None /\ leaked' = TRUE
         ELSE /\ serving' = [serving EXCEPT !.next = @ + 1,
                                            !.blocks = Append(@, GobBlock(block))]
              /\ UNCHANGED leaked
  /\ UNCHANGED <<chain, waiting, lastBroadcastHeight, followerVars, toFollower,
                 toValidator, up, overlapped, overfull>>

SendBlocks ==
  /\ "validator" \in up /\ serving # None /\ serving.next > serving.from
  /\ Len(toFollower) < MaxInFlight
  /\ toFollower' = Append(toFollower, BlocksMessage(serving.blocks))
  /\ serving' = None
  /\ overfull' = (overfull \/ Sizes(toFollower') > BufferBlocks)
  /\ UNCHANGED <<chain, leaked, waiting, lastBroadcastHeight, followerVars, toValidator, up,
                 overlapped>>

----------------------------------------------------------------------------
(* The follower *)

\* Mutant of Read: bytes behind the first message make decoding fail.
ReadStrictly(r, n) ==
  /\ "follower" \in up /\ held[r] = None
  /\ held' = [held EXCEPT ![r] = IF n > 1 THEN Fragment ELSE Decoded(toFollower, n)]
  /\ toFollower' = Remainder(toFollower, n)
  /\ UNCHANGED <<validatorVars, headers, applying, loop, toValidator, up, overlapped, overfull>>

\* A read loop takes what has arrived.
Read(r, n) ==
  /\ "follower" \in up /\ held[r] = None
  /\ held' = [held EXCEPT ![r] = Decoded(toFollower, n)]
  /\ toFollower' = Remainder(toFollower, n)
  /\ UNCHANGED <<validatorVars, headers, applying, loop, toValidator, up, overlapped, overfull>>

\* The main loop takes the message of a read loop.  When decoding has failed it
\* looks into the message before it looks at the error, and panics.
\* processStatusMessage starts a loop if the validator is ahead.
ProcessMessage(r) ==
  LET msg == held[r] IN
  /\ "follower" \in up /\ msg # None /\ applying = <<>>
  /\ held' = [held EXCEPT ![r] = None]
  /\ up' = IF msg = Fragment THEN up \ {"follower"} ELSE up
  /\ applying' = IF msg.kind = "blocks" THEN msg.blocks ELSE applying
  /\ loop' = IF msg.kind = "status" /\ Len(headers) < msg.length
             THEN [loop EXCEPT ![msg.length] = [pc |-> "read", to |-> 0]]
             ELSE loop
  /\ UNCHANGED <<validatorVars, headers, toFollower, toValidator, overlapped, overfull>>

\* VerifyBlock of the next block of an answer: a follower has no validator, so
\* that nothing but the transactions, of which there are none, is checked.
AddBlock ==
  /\ "follower" \in up /\ applying # <<>>
  /\ headers' = Append(headers, Head(applying))
  /\ applying' = Tail(applying)
  /\ UNCHANGED <<validatorVars, held, loop, toFollower, toValidator, up, overlapped, overfull>>

\* A round of requestBlocksLoop: it reads the length of the chain ...
ReadLength(l) ==
  /\ "follower" \in up /\ loop[l].pc = "read"
  /\ loop' = [loop EXCEPT ![l] = IF Len(headers) > l THEN [pc |-> "done", to |-> 0]
                                 ELSE [pc |-> "send", to |-> Len(headers)]]
  /\ UNCHANGED <<validatorVars, headers, applying, held, toFollower, toValidator, up,
                 overlapped, overfull>>

\* The read loops that hold an answer.
HeldAnswers == {r \in ReadLoop : held[r] # None /\ held[r].kind = "blocks"}

\* Requests that are under way or whose answers are.
Outstanding ==
  Len(toValidator)
  + Cardinality(Answers(toFollower))
  + Cardinality(HeldAnswers)
  + Cardinality({v \in {serving} : v # None})
  + Cardinality({v \in {applying} : v # <<>>})

\* Mutant of SendGetBlocks: it asks once.
SendGetBlocksOnce(l) ==
  /\ "follower" \in up /\ loop[l].pc = "send"
  /\ Outstanding < MaxOutstanding
  /\ toValidator' = Append(toValidator, GetBlocksMessage(l, loop[l].to))
  /\ loop' = [loop EXCEPT ![l].pc = "done"]
  /\ overlapped' = (overlapped \/ Outstanding > 0 \/ loop[l].to # Len(headers))
  /\ UNCHANGED <<validatorVars, headers, applying, held, toFollower, up, overfull>>

\* ... and sends the request; after the ticker it starts again.
SendGetBlocks(l) ==
  /\ "follower" \in up /\ loop[l].pc = "send"
  /\ Outstanding < MaxOutstanding
  /\ toValidator' = Append(toValidator, GetBlocksMessage(l, loop[l].to))
  /\ loop' = [loop EXCEPT ![l].pc = "read"]
  /\ overlapped' = (overlapped \/ Outstanding > 0 \/ loop[l].to # Len(headers))
  /\ UNCHANGED <<validatorVars, headers, applying, held, toFollower, up, overfull>>

----------------------------------------------------------------------------

Next ==
  \/ \E txs \in Pending : CreateNewBlock(txs)
  \/ StartStatusLoop
  \/ SendStatus
  \/ \E n \in 1..Len(toValidator) : ReceiveGetBlocks(n)
  \/ ReadOneBlock
  \/ SendBlocks
  \/ \E r \in ReadLoop : \/ \E n \in 1..Len(toFollower) : Read(r, n)
                         \/ ProcessMessage(r)
  \/ AddBlock
  \/ \E l \in Length : ReadLength(l) \/ SendGetBlocks(l)

Spec == Init /\ [][Next]_vars

\* The first request in the connection is followed by one of loop l.
FollowedBy(l) == Len(toValidator) > 1 /\ toValidator[2].from = l

\* Goroutines that can run do so eventually, tickers fire, and what was
\* written to the connection arrives.  Loops send seconds apart: the requests
\* of a loop are not joined to the one before every time.  Sending is strongly
\* fair because the bound on outstanding requests is not the code's.
Fairness ==
  /\ WF_vars(\E n \in 1..Len(toValidator) : ReceiveGetBlocks(n))
  /\ \A l \in Length : SF_vars(FollowedBy(l) /\ ReceiveGetBlocks(1))
  /\ WF_vars(ReadOneBlock)
  /\ WF_vars(SendBlocks)
  /\ \A r \in ReadLoop : /\ WF_vars(\E n \in 1..Len(toFollower) : Read(r, n))
                         /\ WF_vars(ProcessMessage(r))
  /\ WF_vars(AddBlock)
  /\ \A l \in Length : WF_vars(ReadLength(l)) /\ SF_vars(SendGetBlocks(l))

FairSpec == Spec /\ Fairness

----------------------------------------------------------------------------
(* Properties *)

\* The follower's headers are linked: each is the successor of the one before.
\* core/blockchain_test.go asserts this of headers 0 and 1.
HeadersLinked ==
  \A i \in DOMAIN headers : headers[i].height = i - 1

\* The follower's chain is a prefix of the validator's unless a request was
\* sent while an earlier one, of this loop or of another, was still being
\* answered.  The follower checks nothing, so this rests on the ranges that are
\* asked for and on the order of steps.
LinkedUnlessOverlapped == ~ overlapped => HeadersLinked

\* A node fails to decode a message, and stops, only after more blocks were
\* under way than fit into one Read; messages joined by the connection may be
\* lost, but do no harm.
DecodesUnlessOverfull ==
  ~ overfull => "follower" \in up

\* A loop gets what it was started for once the validator is one block ahead
\* of what it announced, although requests that come earlier are not answered
\* and any message can be lost by being joined to another; unless a node has
\* stopped or the validator's chain is locked for good.
CatchesUp ==
  \A l \in Length :
    loop[l].pc # "none" /\ Len(chain) > l
      ~> Len(headers) > l \/ up # {"validator", "follower"} \/ leaked

----------------------------------------------------------------------------
(* What the documents say and the code does not do: TLC refutes these. *)

\* A request that lies within the validator's chain is answered: a comment of
\* processGetBlocksMessage says "provide all blocks up to our current height".
RequestsAreAnswered ==
  [][serving # None /\ serving'= None => toFollower' # toFollower]_vars

\* Blocks arrive with their transactions: addBlockWithoutValidation says that
\* it writes "the block which includes all transactions".
FollowerHasTransactions ==
  \A i \in DOMAIN headers : headers[i].txs = chain[headers[i].height + 1]
=============================================================================
