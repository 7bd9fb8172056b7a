-------------------------- MODULE BlockSyncProofs --------------------------
(***************************************************************************)
(* Proofs about BlockSync, for any number of read loops, any size of a     *)
(* Read and any bounds: the follower's chain is linked as long as requests *)
(* do not overlap, and a node fails to decode a message only after more    *)
(* blocks were under way than fit into a Read.                             *)
(***************************************************************************)
EXTENDS BlockSync, SequenceTheorems, FiniteSetTheorems, TLAPS

Block == [height : Nat, txs : {FALSE}]

\* What the connection carries.
Request == [kind : {"getBlocks"}, from : Nat, to : Nat]

Message == Request \cup {Fragment} \cup [kind : {"status"}, length : Nat]
             \cup [kind : {"blocks"}, blocks : Seq(Block)]

----------------------------------------------------------------------------
(* Streams *)

\* A non-empty set of indices has a first one.
LEMMA FirstIndex ==
  ASSUME NEW I, I \subseteq Nat, I # {}
  PROVE  LET i == CHOOSE i \in I : \A j \in I : i <= j
         IN  i \in I /\ \A j \in I : i <= j
<1>1. PICK m \in I : \A j \in I : ~ (<<j, m>> \in OpToRel(<, Nat))
  BY WFMin, NatLessThanWellFounded, Zenon
<1>2. \A j \in I : m <= j
  <2>1. \A j \in I : ~ (j < m)
    BY <1>1, Zenon DEF OpToRel
  <2> QED
    BY <2>1
<1> QED
  BY <1>2, Zenon

\* The blocks in a stream.
Cells(stream) == UNION {{i} \X DOMAIN stream[i].blocks : i \in Answers(stream)}

\* A stream carries finitely many blocks.
LEMMA CellsFinite ==
  ASSUME NEW s \in Seq(Message)
  PROVE  IsFiniteSet(Cells(s)) /\ IsFiniteSet(Answers(s))
<1> DEFINE row(i) == {i} \X DOMAIN s[i].blocks
           f == [i \in Answers(s) |-> row(i)]
           rows == {row(i) : i \in Answers(s)}
<1>1. IsFiniteSet(Answers(s))
  <2>1. Len(s) \in Nat /\ DOMAIN s = 1..Len(s)
    BY LenProperties
  <2>2. Answers(s) \in SUBSET (1..Len(s))
    BY <2>1 DEF Answers
  <2>3. IsFiniteSet(1..Len(s))
    BY <2>1, FS_Interval
  <2> QED
    BY <2>2, <2>3, FS_Subset
<1>2. IsFiniteSet(rows)
  <2>1. f \in Surjection(Answers(s), rows)
    BY Zenon DEF Surjection
  <2> QED
    BY <1>1, <2>1, FS_Surjection
<1>3. ASSUME NEW i \in Answers(s) PROVE IsFiniteSet(row(i))
  <2>1. s[i] \in Message /\ s[i].kind = "blocks"
    BY DEF Answers
  <2>2. s[i].blocks \in Seq(Block)
    BY <2>1 DEF Message, Request, Fragment
  <2>3. DOMAIN s[i].blocks = 1..Len(s[i].blocks) /\ Len(s[i].blocks) \in Nat
    BY <2>2, LenProperties
  <2>4. IsFiniteSet(DOMAIN s[i].blocks)
    BY <2>3, FS_Interval
  <2>5. IsFiniteSet({i})
    BY FS_Singleton, Zenon
  <2> QED
    BY <2>4, <2>5, FS_Product, Zenon
<1>4. IsFiniteSet(UNION rows)
  <2>1. \A T \in rows : IsFiniteSet(T)
    BY <1>3, Zenon
  <2> HIDE DEF rows
  <2> QED
    BY <1>2, <2>1, FS_UNION, Zenon
<1> QED
  BY <1>1, <1>4 DEF Cells

\* A stream whose answers all are, at some distance, in another one, is no
\* larger than that one.
LEMMA SizesMonotone ==
  ASSUME NEW s \in Seq(Message), NEW t \in Seq(Message), NEW d \in Nat,
         \A i \in Answers(t) : i + d \in Answers(s) /\ s[i + d] = t[i]
  PROVE  Sizes(t) <= Sizes(s)
<1> DEFINE f == [c \in Cells(t) |-> <<c[1] + d, c[2]>>]
<1>1. ASSUME NEW c \in Cells(t)
      PROVE  /\ c[1] \in Nat /\ c = <<c[1], c[2]>>
             /\ <<c[1] + d, c[2]>> \in Cells(s)
  <2>1. PICK i \in Answers(t) : c \in {i} \X DOMAIN t[i].blocks
    BY DEF Cells
  <2>2. c[1] = i /\ c = <<c[1], c[2]>> /\ c[2] \in DOMAIN t[i].blocks
    BY <2>1
  <2>3. i \in Nat
    BY LenProperties DEF Answers
  <2>4. i + d \in Answers(s) /\ c[2] \in DOMAIN s[i + d].blocks
    BY <2>2
  <2>5. <<i + d, c[2]>> \in {i + d} \X DOMAIN s[i + d].blocks
    BY <2>4
  <2> QED
    BY <2>2, <2>3, <2>4, <2>5 DEF Cells
<1>2. f \in Injection(Cells(t), Cells(s))
  <2>1. f \in [Cells(t) -> Cells(s)]
    BY <1>1
  <2>2. ASSUME NEW b \in Cells(t), NEW c \in Cells(t), f[b] = f[c] PROVE b = c
    <3>1. <<b[1] + d, b[2]>> = <<c[1] + d, c[2]>>
      BY <2>2
    <3>2. b[1] \in Nat /\ c[1] \in Nat /\ b = <<b[1], b[2]>> /\ c = <<c[1], c[2]>>
      BY <1>1, Zenon
    <3>3. b[1] = c[1] /\ b[2] = c[2]
      BY <3>1, <3>2
    <3> QED
      BY <3>2, <3>3
  <2> HIDE DEF f
  <2> QED
    BY <2>1, <2>2 DEF Injection, IsInjective
<1>3. Cardinality(Cells(t)) <= Cardinality(Cells(s))
  BY <1>2, CellsFinite, FS_Injection
<1> QED
  BY <1>3 DEF Sizes, Cells

\* The size of a stream is a number.
LEMMA SizesType == ASSUME NEW s \in Seq(Message) PROVE Sizes(s) \in Nat
BY CellsFinite, FS_CardinalityType DEF Sizes, Cells

\* A part of a stream holds messages of the stream, shifted.
LEMMA PartOfStream ==
  ASSUME NEW S, NEW s \in Seq(S), NEW m \in Nat, NEW n \in Nat, n <= Len(s)
  PROVE  LET t == SubSeq(s, m + 1, n) IN
         /\ t \in Seq(S)
         /\ \A i \in DOMAIN t : i + m \in DOMAIN s /\ s[i + m] = t[i]
<1>1. Len(s) \in Nat /\ DOMAIN s = 1..Len(s) /\ \A i \in 1..Len(s) : s[i] \in S
  BY LenProperties
<1>2. \A i \in (m + 1)..n : i \in 1..Len(s) /\ s[i] \in S
  BY <1>1
<1> QED
  BY <1>1, <1>2, SubSeqProperties

\* A part of a stream is no larger than the stream.
LEMMA PartSizes ==
  ASSUME NEW s \in Seq(Message), NEW m \in Nat, NEW n \in Nat, n <= Len(s)
  PROVE  Sizes(SubSeq(s, m + 1, n)) <= Sizes(s)
<1> DEFINE t == SubSeq(s, m + 1, n)
<1>1. t \in Seq(Message) /\ \A i \in DOMAIN t : i + m \in DOMAIN s /\ s[i + m] = t[i]
  BY PartOfStream
<1> HIDE DEF t
<1>2. \A i \in Answers(t) : i + m \in Answers(s) /\ s[i + m] = t[i]
  BY <1>1 DEF Answers
<1>3. Sizes(t) <= Sizes(s)
  BY <1>1, <1>2, SizesMonotone
<1> QED
  BY <1>3 DEF t

\* The same for the beginning of a stream.
LEMMA PrefixOfStream ==
  ASSUME NEW s \in Seq(Message), NEW n \in Nat, n <= Len(s)
  PROVE  SubSeq(s, 1, n) \in Seq(Message) /\ Sizes(SubSeq(s, 1, n)) <= Sizes(s)
<1>1. SubSeq(s, 0 + 1, n) \in Seq(Message) /\ Sizes(SubSeq(s, 0 + 1, n)) <= Sizes(s)
  BY PartOfStream, PartSizes
<1>2. 0 + 1 = 1
  OBVIOUS
<1> QED
  BY <1>1, <1>2, Zenon

\* Some number of messages fits into a buffer.
LEMMA FittingType ==
  ASSUME NEW s \in Seq(Message), NEW n \in 1..Len(s)
  PROVE  Fitting(s, n) \in 0..n
<1> DEFINE size(k) == Sizes(SubSeq(s, 1, k))
           ends == {k \in 0..n : k = n \/ size(k + 1) > BufferBlocks}
           k == CHOOSE i \in ends : \A j \in ends : i <= j
<1>0. Len(s) \in Nat
  BY LenProperties
<1>1. k \in ends /\ \A j \in ends : k <= j
  <2>1. ends \subseteq Nat /\ n \in ends
    BY <1>0
  <2> QED
    BY <2>1, FirstIndex, Zenon
<1>2. \A i \in 0..n : size(i) \in Nat
  <2>1. ASSUME NEW i \in 0..n PROVE SubSeq(s, 1, i) \in Seq(Message)
    BY <1>0, PrefixOfStream
  <2> QED
    BY <2>1, SizesType, Zenon
<1>3. size(0) = 0
  <2>1. SubSeq(s, 1, 0) = << >>
    BY SubSeqEmpty
  <2>2. Answers(<< >>) = {}
    BY DEF Answers
  <2>3. Sizes(<< >>) = 0
    BY <2>2, FS_EmptySet DEF Sizes
  <2> QED
    BY <2>1, <2>3, Zenon
<1> HIDE DEF k
<1>4. size(k) <= BufferBlocks
  <2>1. CASE k = 0
    BY <1>3, <2>1, SyncAssumption
  <2>2. CASE k # 0
    <3>1. k \in 1..n /\ k - 1 \in 0..n /\ k - 1 # n /\ (k - 1) + 1 = k /\ ~ (k <= k - 1)
      BY <1>0, <1>1, <2>2
    <3>2. k - 1 \notin ends
      BY <1>1, <3>1, Zenon
    <3>3. ~ (size(k) > BufferBlocks)
      BY <3>1, <3>2
    <3>4. size(k) \in Nat
      BY <1>2, <3>1
    <3> QED
      BY <3>3, <3>4, SyncAssumption
  <2> QED
    BY <2>1, <2>2
<1>5. k \in 0..n /\ size(k) <= BufferBlocks /\ (k = n \/ size(k + 1) > BufferBlocks)
  BY <1>1, <1>4
<1> QED
  BY <1>5 DEF Fitting

\* All of what has arrived fits when all of the stream does.
LEMMA AllFits ==
  ASSUME NEW s \in Seq(Message), NEW n \in 1..Len(s), Sizes(s) <= BufferBlocks
  PROVE  Fitting(s, n) = n
<1> DEFINE size(k) == Sizes(SubSeq(s, 1, k))
           good(k) == size(k) <= BufferBlocks /\ (k = n \/ size(k + 1) > BufferBlocks)
<1>0. Len(s) \in Nat
  BY LenProperties
<1>1. \A k \in 0..Len(s) : size(k) \in Nat /\ size(k) <= Sizes(s)
  <2>1. ASSUME NEW k \in 0..Len(s)
        PROVE  SubSeq(s, 1, k) \in Seq(Message) /\ Sizes(SubSeq(s, 1, k)) <= Sizes(s)
    BY <1>0, PrefixOfStream
  <2> QED
    BY <2>1, SizesType, Zenon
<1>2. Sizes(s) \in Nat /\ BufferBlocks \in Nat
  BY SizesType, SyncAssumption
<1> HIDE DEF size
<1>3. \A k \in 0..Len(s) : size(k) <= BufferBlocks /\ ~ (size(k) > BufferBlocks)
  BY <1>1, <1>2
<1>4. good(n)
  BY <1>0, <1>3
<1>5. ASSUME NEW k \in 0..n, good(k) PROVE k = n
  <2>1. k + 1 \in 0..Len(s) \/ k = n
    BY <1>0
  <2> QED
    BY <1>3, <1>5, <2>1
<1>6. n \in 0..n
  BY <1>0
<1>7. Fitting(s, n) = CHOOSE k \in 0..n : good(k)
  BY DEF Fitting, size
<1> HIDE DEF good
<1> QED
  BY <1>4, <1>5, <1>6, <1>7

\* What a Read decodes and leaves: the message that is decoded was the first,
\* and the answers that are left were behind it.
LEMMA ReadResult ==
  ASSUME NEW s \in Seq(Message), NEW n \in 1..Len(s)
  PROVE  /\ Decoded(s, n) \in Message /\ Remainder(s, n) \in Seq(Message)
         /\ Decoded(s, n).kind = "blocks" => 1 \in Answers(s) /\ Decoded(s, n) = s[1]
         /\ \E d \in Nat : \A i \in Answers(Remainder(s, n)) :
              i + d \in Answers(s) \ {1} /\ s[i + d] = Remainder(s, n)[i]
<1>0. Len(s) \in Nat /\ DOMAIN s = 1..Len(s) /\ \A i \in 1..Len(s) : s[i] \in Message
  BY LenProperties
<1>1. Fragment \in Message /\ Fragment.kind # "blocks"
  BY DEF Message, Fragment
<1>2. Decoded(s, n) \in {Fragment, s[1]} /\ 1 \in 1..Len(s)
  BY <1>0 DEF Decoded
<1>3. Decoded(s, n).kind = "blocks" => 1 \in Answers(s) /\ Decoded(s, n) = s[1]
  BY <1>0, <1>1, <1>2 DEF Answers
<1>4. PICK k \in 0..n : k = Fitting(s, n)
  BY FittingType
<1>5. CASE k = n
  <2> DEFINE t == SubSeq(s, n + 1, Len(s))
  <2>1. t \in Seq(Message) /\ \A i \in DOMAIN t : i + n \in DOMAIN s /\ s[i + n] = t[i]
    BY <1>0, PartOfStream
  <2>2. DOMAIN t = 1..Len(t) /\ Len(t) \in Nat
    BY <2>1, LenProperties
  <2>3. Remainder(s, n) = t
    BY <1>4, <1>5 DEF Remainder
  <2> HIDE DEF t
  <2>4. \A i \in Answers(t) : i + n \in Answers(s) \ {1} /\ s[i + n] = t[i]
    BY <2>1, <2>2 DEF Answers
  <2>5. n \in Nat
    BY <1>0
  <2> QED
    BY <1>0, <1>1, <1>2, <1>3, <2>1, <2>3, <2>4, <2>5
<1>6. CASE k # n
  <2> DEFINE t == SubSeq(s, (k + 1) + 1, Len(s))
             u == <<Fragment>> \o t
  <2>0. k \in Nat /\ k + 1 \in Nat /\ k + 2 = (k + 1) + 1
    BY <1>0
  <2>1. t \in Seq(Message)
        /\ \A i \in DOMAIN t : i + (k + 1) \in DOMAIN s /\ s[i + (k + 1)] = t[i]
    BY <1>0, <2>0, PartOfStream
  <2>2. DOMAIN t = 1..Len(t) /\ Len(t) \in Nat
    BY <2>1, LenProperties
  <2>3. Remainder(s, n) = u
    BY <1>4, <1>6, <2>0 DEF Remainder
  <2> HIDE DEF t
  <2>4. /\ u \in Seq(Message) /\ DOMAIN u = 1..(1 + Len(t))
        /\ u[1] = Fragment /\ \A i \in 2..(1 + Len(t)) : u[i] = t[i - 1]
    <3>1. <<Fragment>> \in Seq(Message) /\ Len(<<Fragment>>) = 1 /\ <<Fragment>>[1] = Fragment
      BY <1>1
    <3> QED
      BY <2>1, <2>2, <3>1, ConcatProperties, LenProperties
  <2> HIDE DEF u
  <2>5. ASSUME NEW i \in Answers(u)
        PROVE  i + k \in Answers(s) \ {1} /\ s[i + k] = u[i]
    <3>1. i \in 1..(1 + Len(t)) /\ u[i].kind = "blocks"
      BY <2>4 DEF Answers
    <3>2. i # 1
      BY <1>1, <2>4, <3>1
    <3>3. i - 1 \in DOMAIN t /\ (i - 1) + (k + 1) = i + k /\ i + k # 1 /\ u[i] = t[i - 1]
      BY <2>0, <2>2, <2>4, <3>1, <3>2
    <3>4. i + k \in DOMAIN s /\ s[i + k] = u[i]
      BY <2>1, <3>3
    <3> QED
      BY <3>1, <3>3, <3>4 DEF Answers
  <2> QED
    BY <1>0, <1>1, <1>2, <1>3, <2>0, <2>3, <2>4, <2>5
<1> QED
  BY <1>5, <1>6

\* What the validator's read loop makes of requests, which always fit.
LEMMA RequestResult ==
  ASSUME NEW s \in Seq(Request), NEW n \in 1..Len(s)
  PROVE  /\ Decoded(s, n) = s[1] /\ s[1] \in Request
         /\ Remainder(s, n) = SubSeq(s, n + 1, Len(s))
         /\ Remainder(s, n) \in Seq(Request)
<1>0. Len(s) \in Nat /\ DOMAIN s = 1..Len(s) /\ \A i \in 1..Len(s) : s[i] \in Request
  BY LenProperties
<1>1. s \in Seq(Message)
  BY SeqMonotonic, Zenon DEF Message
<1>2. Answers(s) = {}
  BY <1>0 DEF Answers, Request
<1>3. Sizes(s) = 0
  <2>1. UNION {{i} \X DOMAIN s[i].blocks : i \in Answers(s)} = {}
    BY <1>2, Zenon
  <2> QED
    BY <2>1, FS_EmptySet, Zenon DEF Sizes
<1>4. Fitting(s, n) = n
  BY <1>1, <1>3, AllFits, SyncAssumption
<1>5. SubSeq(s, n + 1, Len(s)) \in Seq(Request)
  BY <1>0, PartOfStream
<1>6. s[1] \in Request /\ n # 0
  BY <1>0
<1> QED
  BY <1>4, <1>5, <1>6 DEF Decoded, Remainder

----------------------------------------------------------------------------
(* Type correctness *)

Service == [next : Nat, from : Nat, blocks : Seq(Block)]

LoopState == [pc : {"none", "read", "send", "done"}, to : Nat]

TypeInv ==
  /\ chain \in Seq(BOOLEAN)
  /\ serving = None \/ serving \in Service
  /\ headers \in Seq(Block) /\ applying \in Seq(Block)
  /\ held \in [ReadLoop -> {None} \cup Message]
  /\ loop \in [Length -> LoopState]
  /\ toFollower \in Seq(Message) /\ toValidator \in Seq(Request)
  /\ overlapped \in BOOLEAN /\ overfull \in BOOLEAN

\* The states of a loop.
LEMMA LoopStateType ==
  /\ [pc |-> "read", to |-> 0] \in LoopState /\ [pc |-> "done", to |-> 0] \in LoopState
  /\ \A n \in Nat : [pc |-> "send", to |-> n] \in LoopState
  /\ \A st \in LoopState : st.to \in Nat /\ [st EXCEPT !.pc = "read"] \in LoopState
BY DEF LoopState

\* What gob leaves of a block.
LEMMA GobBlockType ==
  ASSUME NEW n \in Nat, NEW txs
  PROVE  LET b == GobBlock([height |-> n, txs |-> txs]) IN b \in Block /\ b.height = n
BY DEF GobBlock, Block

\* An answer that is made longer by a block.
LEMMA ServiceType ==
  ASSUME NEW v \in Service, NEW b \in Block
  PROVE  LET w == [v EXCEPT !.next = @ + 1, !.blocks = Append(@, b)]
         IN  /\ w \in Service /\ w.next = v.next + 1 /\ w.from = v.from
             /\ w.blocks = Append(v.blocks, b)
<1>1. Append(v.blocks, b) \in Seq(Block) /\ v.next + 1 \in Nat
  BY AppendProperties DEF Service
<1>2. PICK u : u = [v EXCEPT !.next = @ + 1]
  BY Zenon
<1>3. /\ u \in Service /\ u.next = v.next + 1 /\ u.from = v.from /\ u.blocks = v.blocks
  BY <1>1, <1>2 DEF Service
<1>4. PICK c \in Seq(Block) : c = Append(v.blocks, b)
  BY <1>1, Zenon
<1>5. LET w == [u EXCEPT !.blocks = c] IN
      w \in Service /\ w.next = u.next /\ w.from = u.from /\ w.blocks = c
  BY <1>3 DEF Service
<1>6. [v EXCEPT !.next = @ + 1, !.blocks = Append(@, b)] = [u EXCEPT !.blocks = c]
  BY <1>2, <1>3, <1>4, Zenon
<1> QED
  BY <1>3, <1>4, <1>5, <1>6, Zenon

\* The values that every step keeps in their sets.
LEMMA TypeStep == TypeInv /\ [Next]_vars => TypeInv'
<1> SUFFICES ASSUME TypeInv, [Next]_vars PROVE TypeInv'
  OBVIOUS
<1> USE DEF TypeInv
<1>1. ASSUME NEW txs \in Pending, CreateNewBlock(txs) PROVE TypeInv'
  <2>1. Append(chain, txs) \in Seq(BOOLEAN)
    BY SyncAssumption, AppendProperties
  <2>2. chain' \in Seq(BOOLEAN)
    BY <1>1, <2>1, Zenon DEF CreateNewBlock
  <2> QED
    BY <1>1, <2>2 DEF CreateNewBlock, followerVars
<1>2. CASE StartStatusLoop
  BY <1>2 DEF StartStatusLoop, followerVars
<1>3. CASE SendStatus
  <2>1. StatusMessage(Len(chain)) \in Message
    BY LenProperties DEF StatusMessage, Message
  <2>2. toFollower' \in Seq(Message)
    BY <1>3, <2>1, AppendProperties DEF SendStatus
  <2> QED
    BY <1>3, <2>2 DEF SendStatus, followerVars
<1>4. ASSUME NEW n \in 1..Len(toValidator), ReceiveGetBlocks(n) PROVE TypeInv'
  <2>1. Decoded(toValidator, n) \in Request /\ Remainder(toValidator, n) \in Seq(Request)
    BY RequestResult
  <2>2. Decoded(toValidator, n).to \in Nat /\ Decoded(toValidator, n).from \in Nat
    BY <2>1 DEF Request
  <2>3. serving' \in Service
    <3>1. << >> \in Seq(Block)
      BY EmptySeq
    <3> QED
      BY <1>4, <2>2, <3>1 DEF ReceiveGetBlocks, Service
  <2> QED
    BY <1>4, <2>1, <2>3 DEF ReceiveGetBlocks, followerVars
<1>5. CASE ReadOneBlock
  <2>1. serving \in Service
    BY <1>5 DEF ReadOneBlock
  <2>2. CASE serving' = None
    BY <1>5, <2>2 DEF ReadOneBlock, followerVars
  <2>3. CASE serving' # None
    <3>1. PICK b : b = GobBlock([height |-> serving.next, txs |-> chain[serving.next + 1]])
      BY Zenon
    <3>2. b \in Block
      <4>1. serving.next \in Nat
        BY <2>1 DEF Service
      <4> QED
        BY <3>1, <4>1, GobBlockType, Zenon
    <3>3. serving' = [serving EXCEPT !.next = @ + 1, !.blocks = Append(@, b)]
      BY <1>5, <2>3, <3>1, Zenon DEF ReadOneBlock
    <3>4. serving' \in Service
      BY <2>1, <3>2, <3>3, ServiceType, Zenon
    <3> QED
      BY <1>5, <3>4 DEF ReadOneBlock, followerVars
  <2> QED
    BY <2>2, <2>3
<1>6. CASE SendBlocks
  <2>1. BlocksMessage(serving.blocks) \in Message
    BY <1>6 DEF SendBlocks, BlocksMessage, Message, Service
  <2>2. toFollower' \in Seq(Message)
    BY <1>6, <2>1, AppendProperties DEF SendBlocks
  <2> QED
    BY <1>6, <2>2 DEF SendBlocks, followerVars
<1>7. ASSUME NEW r \in ReadLoop, NEW n \in 1..Len(toFollower), Read(r, n) PROVE TypeInv'
  <2>1. Decoded(toFollower, n) \in Message /\ Remainder(toFollower, n) \in Seq(Message)
    BY ReadResult
  <2> QED
    BY <1>7, <2>1 DEF Read, validatorVars
<1>8. ASSUME NEW r \in ReadLoop, ProcessMessage(r) PROVE TypeInv'
  <2>1. held[r] \in Message
    BY <1>8 DEF ProcessMessage
  <2>2. held[r].kind = "blocks" => held[r].blocks \in Seq(Block)
    BY <2>1 DEF Message, Request, Fragment
  <2>3. applying' \in Seq(Block)
    BY <1>8, <2>2 DEF ProcessMessage
  <2>4. [pc |-> "read", to |-> 0] \in LoopState
    BY LoopStateType, Zenon
  <2>5. loop' \in [Length -> LoopState]
    BY <1>8, <2>4, Zenon DEF ProcessMessage
  <2> QED
    BY <1>8, <2>3, <2>5 DEF ProcessMessage, validatorVars
<1>9. CASE AddBlock
  <2>1. Head(applying) \in Block /\ Tail(applying) \in Seq(Block)
    BY <1>9, HeadTailProperties DEF AddBlock
  <2>2. Append(headers, Head(applying)) \in Seq(Block)
    BY <2>1, AppendProperties
  <2> QED
    BY <1>9, <2>1, <2>2 DEF AddBlock, validatorVars
<1>10. ASSUME NEW l \in Length, ReadLength(l) PROVE TypeInv'
  <2>1. [pc |-> "done", to |-> 0] \in LoopState /\ [pc |-> "send", to |-> Len(headers)] \in LoopState
    <3>1. Len(headers) \in Nat
      BY LenProperties
    <3> QED
      BY <3>1, LoopStateType, Zenon
  <2>2. loop' \in [Length -> LoopState]
    BY <1>10, <2>1, Zenon DEF ReadLength
  <2> QED
    BY <1>10, <2>2 DEF ReadLength, validatorVars
<1>11. ASSUME NEW l \in Length, SendGetBlocks(l) PROVE TypeInv'
  <2>1. l \in Nat /\ loop[l].to \in Nat
    <3>1. l \in Nat
      BY SyncAssumption DEF Length
    <3> QED
      BY <3>1, LoopStateType, Zenon
  <2>2. GetBlocksMessage(l, loop[l].to) \in Request
    BY <2>1 DEF GetBlocksMessage, Request
  <2>3. toValidator' \in Seq(Request)
    BY <1>11, <2>2, AppendProperties DEF SendGetBlocks
  <2>4. loop' \in [Length -> LoopState]
    <3>1. loop[l] \in LoopState /\ [loop[l] EXCEPT !.pc = "read"] \in LoopState
      BY LoopStateType
    <3>2. loop' = [loop EXCEPT ![l] = [loop[l] EXCEPT !.pc = "read"]]
      BY <1>11 DEF SendGetBlocks
    <3> QED
      BY <3>1, <3>2, Zenon
  <2> QED
    BY <1>11, <2>3, <2>4 DEF SendGetBlocks, validatorVars
<1>12. CASE UNCHANGED vars
  BY <1>12 DEF vars, validatorVars, followerVars
<1> QED
  BY <1>1, <1>2, <1>3, <1>4, <1>5, <1>6, <1>7, <1>8, <1>9, <1>10, <1>11, <1>12 DEF Next

----------------------------------------------------------------------------
(* The follower's chain *)

\* blocks are the ones that come next in the follower's chain.
Continues(blocks) == \A j \in DOMAIN blocks : blocks[j].height = Len(headers) + j - 1

\* At most one request is under way or being answered.
OneAtATime ==
  /\ \A i, j \in DOMAIN toValidator : i = j
  /\ \A i, j \in Answers(toFollower) : i = j
  /\ \A r, q \in HeldAnswers : r = q
  /\ toValidator # <<>> => serving = None
  /\ toValidator # <<>> \/ serving # None => Answers(toFollower) = {}
  /\ toValidator # <<>> \/ serving # None \/ Answers(toFollower) # {} => HeldAnswers = {}
  /\ toValidator # <<>> \/ serving # None \/ Answers(toFollower) # {} \/ HeldAnswers # {}
       => applying = <<>>

\* The request that is under way asks for what comes next, and what answers it
\* comes next, wherever it is.
InStep ==
  /\ HeadersLinked
  /\ OneAtATime
  /\ \A i \in DOMAIN toValidator : toValidator[i].to = Len(headers)
  /\ serving # None => /\ Continues(serving.blocks)
                       /\ serving.next <= serving.from
                            => serving.next = Len(headers) + Len(serving.blocks)
  /\ \A i \in Answers(toFollower) : Continues(toFollower[i].blocks)
  /\ \A r \in HeldAnswers : Continues(held[r].blocks)
  /\ Continues(applying)

LinkInv == ~ overlapped => InStep

\* Without more blocks than fit a Read, no message is cut off.
DecodeInv ==
  ~ overfull =>
    /\ "follower" \in up
    /\ Sizes(toFollower) <= BufferBlocks
    /\ \A i \in DOMAIN toFollower : toFollower[i] # Fragment
    /\ \A r \in ReadLoop : held[r] = None \/ held[r] # Fragment

\* Appending a message to a stream.
LEMMA AppendMessage ==
  ASSUME NEW s \in Seq(Message), NEW m \in Message
  PROVE  LET t == Append(s, m) IN
         /\ t \in Seq(Message) /\ DOMAIN t = DOMAIN s \cup {Len(s) + 1}
         /\ Len(s) + 1 \notin DOMAIN s /\ t[Len(s) + 1] = m
         /\ \A i \in DOMAIN s : t[i] = s[i]
         /\ m.kind # "blocks" => Answers(t) = Answers(s)
         /\ m.kind = "blocks" => Answers(t) = Answers(s) \cup {Len(s) + 1}
<1> DEFINE t == Append(s, m)
<1>1. /\ t \in Seq(Message) /\ DOMAIN t = DOMAIN s \cup {Len(s) + 1}
      /\ Len(s) + 1 \notin DOMAIN s /\ t[Len(s) + 1] = m
      /\ \A i \in DOMAIN s : t[i] = s[i]
  BY AppendProperties, LenProperties
<1> HIDE DEF t
<1>2. m.kind # "blocks" => Answers(t) = Answers(s)
  BY <1>1, Zenon DEF Answers
<1>3. m.kind = "blocks" => Answers(t) = Answers(s) \cup {Len(s) + 1}
  BY <1>1, Zenon DEF Answers
<1> QED
  BY <1>1, <1>2, <1>3 DEF t

----------------------------------------------------------------------------
(* Decoding *)

\* A step keeps the messages whole as long as they fit.
LEMMA DecodeStep == TypeInv /\ DecodeInv /\ [Next]_vars => DecodeInv'
<1> SUFFICES ASSUME TypeInv, DecodeInv, [Next]_vars, ~ overfull' PROVE DecodeInv'
  BY DEF DecodeInv
<1>0. toFollower \in Seq(Message) /\ (serving = None \/ serving \in Service)
      /\ held \in [ReadLoop -> {None} \cup Message] /\ overfull \in BOOLEAN
  BY DEF TypeInv
<1> DEFINE whole == /\ "follower" \in up
                    /\ Sizes(toFollower) <= BufferBlocks
                    /\ \A i \in DOMAIN toFollower : toFollower[i] # Fragment
                    /\ \A r \in ReadLoop : held[r] = None \/ held[r] # Fragment
<1>1. CASE UNCHANGED <<toFollower, held, overfull>> /\ ("follower" \in up => "follower" \in up')
  BY <1>1 DEF DecodeInv, Sizes, Answers
<1>2. CASE SendStatus
  <2>1. whole /\ UNCHANGED <<held, up>>
    BY <1>2 DEF DecodeInv, SendStatus, followerVars
  <2>2. PICK m : m = StatusMessage(Len(chain))
    BY Zenon
  <2>3. m \in Message /\ m.kind # "blocks" /\ m # Fragment
    BY <2>2, LenProperties DEF StatusMessage, Message, TypeInv, Fragment
  <2>4. PICK t : t = Append(toFollower, m) /\ toFollower' = t
    BY <1>2, <2>2, Zenon DEF SendStatus
  <2>5. /\ t \in Seq(Message) /\ DOMAIN t = DOMAIN toFollower \cup {Len(toFollower) + 1}
        /\ t[Len(toFollower) + 1] = m /\ (\A i \in DOMAIN toFollower : t[i] = toFollower[i])
        /\ Answers(t) = Answers(toFollower)
    <3>1. t = Append(toFollower, m)
      BY <2>4
    <3> QED
      BY <1>0, <2>3, <3>1, AppendMessage
  <2>6. \A i \in Answers(t) : i + 0 \in Answers(toFollower) /\ toFollower[i + 0] = t[i]
    <3>1. \A i \in Answers(t) : i \in DOMAIN toFollower /\ i \in Nat
      BY <1>0, <2>5, LenProperties DEF Answers
    <3> QED
      BY <2>5, <3>1
  <2>7. Sizes(t) <= Sizes(toFollower)
    BY <1>0, <2>5, <2>6, SizesMonotone, Zenon
  <2>8. Sizes(t) <= BufferBlocks
    <3>1. Sizes(t) \in Nat /\ Sizes(toFollower) \in Nat
      BY <1>0, <2>5, SizesType
    <3> QED
      BY <2>1, <2>7, <3>1, SyncAssumption
  <2>9. \A i \in DOMAIN t : t[i] # Fragment
    BY <2>1, <2>3, <2>5, Zenon
  <2>10. Sizes(toFollower') <= BufferBlocks /\ \A i \in DOMAIN toFollower' : toFollower'[i] # Fragment
    BY <2>4, <2>8, <2>9, Zenon
  <2> QED
    BY <2>1, <2>10 DEF DecodeInv, Sizes, Answers
<1>3. CASE SendBlocks
  <2>1. overfull' = (overfull \/ Sizes(toFollower') > BufferBlocks)
    BY <1>3 DEF SendBlocks
  <2>2. ~ overfull /\ ~ (Sizes(toFollower') > BufferBlocks)
    BY <2>1, Zenon
  <2>3. whole /\ UNCHANGED <<held, up>>
    BY <1>3, <2>2 DEF DecodeInv, SendBlocks, followerVars
  <2>4. PICK m : m = BlocksMessage(serving.blocks)
    BY Zenon
  <2>5. m \in Message /\ m # Fragment
    BY <1>0, <1>3, <2>4 DEF SendBlocks, BlocksMessage, Message, Service, Fragment
  <2>6. PICK t : t = Append(toFollower, m) /\ toFollower' = t
    BY <1>3, <2>4, Zenon DEF SendBlocks
  <2>7. /\ t \in Seq(Message) /\ DOMAIN t = DOMAIN toFollower \cup {Len(toFollower) + 1}
        /\ t[Len(toFollower) + 1] = m /\ (\A i \in DOMAIN toFollower : t[i] = toFollower[i])
    <3>1. t = Append(toFollower, m)
      BY <2>6
    <3> QED
      BY <1>0, <2>5, <3>1, AppendMessage
  <2>8. \A i \in DOMAIN t : t[i] # Fragment
    BY <2>3, <2>5, <2>7, Zenon
  <2>9. ~ (Sizes(t) > BufferBlocks)
    BY <2>2, <2>6, Zenon
  <2>10. Sizes(t) <= BufferBlocks
    BY <2>7, <2>9, SizesType, SyncAssumption
  <2>11. Sizes(toFollower') <= BufferBlocks /\ \A i \in DOMAIN toFollower' : toFollower'[i] # Fragment
    BY <2>6, <2>8, <2>10, Zenon
  <2> QED
    BY <2>3, <2>11 DEF DecodeInv, Sizes, Answers
<1>4. ASSUME NEW r \in ReadLoop, NEW n \in 1..Len(toFollower), Read(r, n) PROVE DecodeInv'
  <2>1. whole /\ UNCHANGED up
    BY <1>4 DEF DecodeInv, Read
  <2>2. PICK s : s = toFollower
    BY Zenon
  <2>3. s \in Seq(Message) /\ Sizes(s) <= BufferBlocks /\ n \in 1..Len(s)
        /\ \A i \in DOMAIN s : s[i] # Fragment
    BY <1>0, <2>1, <2>2
  <2>4. Fitting(s, n) = n
    BY <2>3, AllFits
  <2>5. Len(s) \in Nat /\ DOMAIN s = 1..Len(s) /\ n \in Nat
    BY <2>3, LenProperties
  <2>6. Decoded(s, n) # Fragment
    BY <2>3, <2>4, <2>5 DEF Decoded
  <2>7. PICK t : t = SubSeq(s, n + 1, Len(s))
    BY Zenon
  <2>8. Remainder(s, n) = t
    BY <2>4, <2>7, Zenon DEF Remainder
  <2>9. t \in Seq(Message) /\ (\A i \in DOMAIN t : i + n \in DOMAIN s /\ s[i + n] = t[i])
        /\ Sizes(t) <= Sizes(s)
    BY <2>3, <2>5, <2>7, PartOfStream, PartSizes
  <2>10. Sizes(t) <= BufferBlocks /\ \A i \in DOMAIN t : t[i] # Fragment
    BY <2>3, <2>9, SizesType, SyncAssumption
  <2>11. toFollower' = t /\ held' = [held EXCEPT ![r] = Decoded(s, n)]
    BY <1>4, <2>2, <2>8 DEF Read
  <2>12. \A q \in ReadLoop : held'[q] = None \/ held'[q] # Fragment
    BY <1>0, <2>1, <2>6, <2>11, Zenon
  <2>13. Sizes(toFollower') <= BufferBlocks /\ \A i \in DOMAIN toFollower' : toFollower'[i] # Fragment
    BY <2>10, <2>11, Zenon
  <2> QED
    BY <2>1, <2>12, <2>13 DEF DecodeInv, Sizes, Answers
<1>5. ASSUME NEW r \in ReadLoop, ProcessMessage(r) PROVE DecodeInv'
  <2>1. whole /\ UNCHANGED toFollower
    BY <1>5 DEF DecodeInv, ProcessMessage
  <2>2. held[r] # Fragment /\ held[r] # None
    BY <1>5, <2>1 DEF ProcessMessage
  <2>3. up' = up
    BY <1>5, <2>2 DEF ProcessMessage
  <2>4. \A q \in ReadLoop : held'[q] = None \/ held'[q] # Fragment
    BY <1>0, <1>5, <2>1, Zenon DEF ProcessMessage
  <2> QED
    BY <2>1, <2>3, <2>4 DEF DecodeInv, Sizes, Answers
<1>6. ASSUME NEW txs \in Pending, CreateNewBlock(txs) PROVE DecodeInv'
  BY <1>1, <1>6 DEF CreateNewBlock, followerVars
<1>7. CASE StartStatusLoop
  BY <1>1, <1>7 DEF StartStatusLoop, followerVars
<1>8. ASSUME NEW n \in 1..Len(toValidator), ReceiveGetBlocks(n) PROVE DecodeInv'
  BY <1>1, <1>8 DEF ReceiveGetBlocks, followerVars
<1>9. CASE ReadOneBlock
  BY <1>1, <1>9 DEF ReadOneBlock, followerVars
<1>10. CASE AddBlock
  BY <1>1, <1>10 DEF AddBlock
<1>11. ASSUME NEW l \in Length, ReadLength(l) \/ SendGetBlocks(l) PROVE DecodeInv'
  BY <1>1, <1>11 DEF ReadLength, SendGetBlocks
<1>12. CASE UNCHANGED vars
  BY <1>1, <1>12 DEF vars, followerVars
<1> QED
  BY <1>2, <1>3, <1>4, <1>5, <1>6, <1>7, <1>8, <1>9, <1>10, <1>11, <1>12 DEF Next

----------------------------------------------------------------------------
(* The order of blocks *)

\* Nothing is outstanding only if no request and no answer is anywhere.
LEMMA NoneOutstanding ==
  ASSUME TypeInv, ~ (Outstanding > 0)
  PROVE  /\ toValidator = << >> /\ serving = None /\ applying = << >>
         /\ Answers(toFollower) = {} /\ HeldAnswers = {}
<1> DEFINE A == Answers(toFollower)
           H == HeldAnswers
           V == {v \in {serving} : v # None}
           P == {v \in {applying} : v # << >>}
<1>1. Len(toValidator) \in Nat
  BY LenProperties DEF TypeInv
<1>2. IsFiniteSet(A)
  BY CellsFinite DEF TypeInv
<1>3. IsFiniteSet(H)
  BY SyncAssumption, FS_Subset DEF HeldAnswers
<1>4. IsFiniteSet(V) /\ IsFiniteSet(P)
  <2>1. IsFiniteSet({serving}) /\ IsFiniteSet({applying})
    BY FS_Singleton, Zenon
  <2>2. V \in SUBSET {serving} /\ P \in SUBSET {applying}
    BY Zenon
  <2> QED
    BY <2>1, <2>2, FS_Subset, Zenon
<1>5. /\ Cardinality(A) \in Nat /\ Cardinality(H) \in Nat
      /\ Cardinality(V) \in Nat /\ Cardinality(P) \in Nat
  <2> HIDE DEF A, H, V, P
  <2> QED
    BY <1>2, <1>3, <1>4, FS_CardinalityType, Zenon
<1>6. Outstanding = Len(toValidator) + Cardinality(A) + Cardinality(H) + Cardinality(V) + Cardinality(P)
  BY Zenon DEF Outstanding
<1> HIDE DEF A, H, V, P
<1>7. /\ Len(toValidator) = 0 /\ Cardinality(A) = 0 /\ Cardinality(H) = 0
      /\ Cardinality(V) = 0 /\ Cardinality(P) = 0
  BY <1>1, <1>5, <1>6
<1>8. A = {} /\ H = {} /\ V = {} /\ P = {}
  BY <1>2, <1>3, <1>4, <1>7, FS_EmptySet, Zenon
<1>9. serving = None /\ applying = << >>
  BY <1>8, Zenon DEF V, P
<1>10. toValidator = << >>
  BY <1>7, EmptySeq DEF TypeInv
<1> QED
  BY <1>8, <1>9, <1>10 DEF A, H

\* A request that is sent when nothing is outstanding asks for what comes next.
LEMMA SendInStep ==
  ASSUME TypeInv, ~ overlapped', NEW l \in Length, SendGetBlocks(l), LinkInv
  PROVE  InStep'
<1>1. overlapped' = (overlapped \/ Outstanding > 0 \/ loop[l].to # Len(headers))
  BY DEF SendGetBlocks
<1>2. ~ overlapped /\ ~ (Outstanding > 0) /\ loop[l].to = Len(headers)
  BY <1>1, Zenon
<1>3. /\ toValidator = << >> /\ serving = None /\ applying = << >>
      /\ Answers(toFollower) = {} /\ HeldAnswers = {} /\ InStep
  BY <1>2, NoneOutstanding DEF LinkInv
<1>4. UNCHANGED <<headers, applying, held, serving, toFollower>>
  BY DEF SendGetBlocks, validatorVars
<1>5. toValidator' = <<GetBlocksMessage(l, loop[l].to)>>
  BY <1>3 DEF SendGetBlocks
<1>6. DOMAIN toValidator' = {1} /\ toValidator'[1].to = Len(headers)
  BY <1>2, <1>5 DEF GetBlocksMessage
<1> QED
  BY <1>3, <1>4, <1>6, Zenon DEF InStep, OneAtATime, HeadersLinked, Continues, Answers, HeldAnswers

\* The validator starts to answer at the height that is asked for.
LEMMA ReceiveInStep ==
  ASSUME TypeInv, InStep, NEW n \in 1..Len(toValidator), ReceiveGetBlocks(n)
  PROVE  InStep'
<1>0. toValidator \in Seq(Request) /\ Len(toValidator) \in Nat
      /\ DOMAIN toValidator = 1..Len(toValidator)
  BY LenProperties DEF TypeInv
<1>1. Len(toValidator) = 1 /\ n = 1 /\ toValidator # << >>
  <2>1. n \in DOMAIN toValidator /\ 1 \in DOMAIN toValidator /\ Len(toValidator) \in DOMAIN toValidator
    BY <1>0
  <2>2. n = 1 /\ Len(toValidator) = 1
    BY <2>1 DEF InStep, OneAtATime
  <2> QED
    BY <2>2
<1>2. Decoded(toValidator, n) = toValidator[1] /\ Remainder(toValidator, n) = << >>
  <2>1. SubSeq(toValidator, n + 1, Len(toValidator)) = << >>
    BY <1>0, <1>1, SubSeqEmpty
  <2> QED
    BY <1>0, <2>1, RequestResult
<1>3. toValidator' = << >> /\ UNCHANGED <<headers, applying, held, toFollower>>
  BY <1>2 DEF ReceiveGetBlocks, followerVars
<1>4. PICK msg : msg = toValidator[1]
  BY Zenon
<1>5. msg.to = Len(headers) /\ msg.to \in Nat
  BY <1>0, <1>1, <1>4, LenProperties DEF InStep, TypeInv
<1>6. \/ serving' = [next |-> msg.to, from |-> msg.from, blocks |-> << >>]
      \/ serving' = [next |-> 1, from |-> 0, blocks |-> << >>]
  BY <1>2, <1>4, Zenon DEF ReceiveGetBlocks
<1>7. serving'.blocks = << >> /\ (serving'.next <= serving'.from => serving'.next = Len(headers) + 0)
  BY <1>5, <1>6
<1>8. /\ Answers(toFollower) = {} /\ HeldAnswers = {} /\ applying = << >>
  BY <1>1, Zenon DEF InStep, OneAtATime
<1>9. Len(<< >>) = 0 /\ DOMAIN << >> = {}
  BY EmptySeq
<1>10. OneAtATime'
  BY <1>3, <1>8, <1>9, Zenon DEF OneAtATime, Answers, HeldAnswers
<1>11. /\ Continues(serving.blocks)'
       /\ (serving.next <= serving.from => serving.next = Len(headers) + Len(serving.blocks))'
  BY <1>3, <1>7, <1>9, Zenon DEF Continues
<1> QED
  BY <1>3, <1>8, <1>9, <1>10, <1>11, Zenon DEF InStep, HeadersLinked, Continues, Answers, HeldAnswers

\* Every block that the validator reads has the height that comes next.
LEMMA ReadOneInStep ==
  ASSUME TypeInv, InStep, ReadOneBlock
  PROVE  InStep'
<1>1. UNCHANGED <<headers, applying, held, toFollower, toValidator>> /\ serving # None
      /\ serving \in Service /\ serving.next <= serving.from
  BY DEF ReadOneBlock, followerVars, TypeInv
<1>2. OneAtATime'
  BY <1>1, Zenon DEF OneAtATime, InStep, Answers, HeldAnswers
<1>3. CASE serving' = None
  BY <1>1, <1>2, <1>3, Zenon DEF InStep, HeadersLinked, Continues, Answers, HeldAnswers
<1>4. CASE serving' # None
  <2>1. PICK b : b = GobBlock([height |-> serving.next, txs |-> chain[serving.next + 1]])
    BY Zenon
  <2>2. serving' = [serving EXCEPT !.next = @ + 1, !.blocks = Append(@, b)]
    BY <1>4, <2>1, Zenon DEF ReadOneBlock
  <2>3. serving.next \in Nat /\ serving.blocks \in Seq(Block) /\ Len(headers) \in Nat
    BY <1>1, LenProperties DEF Service, TypeInv
  <2>4. b \in Block /\ b.height = serving.next
    BY <2>1, <2>3, GobBlockType, Zenon
  <2>5. /\ serving'.next = serving.next + 1 /\ serving'.blocks = Append(serving.blocks, b)
        /\ serving'.from = serving.from
    BY <1>1, <2>2, <2>4, ServiceType, Zenon
  <2>6. serving.next = Len(headers) + Len(serving.blocks) /\ Continues(serving.blocks)
    BY <1>1, Zenon DEF InStep
  <2>7. /\ Len(Append(serving.blocks, b)) = Len(serving.blocks) + 1 /\ Len(serving.blocks) \in Nat
        /\ DOMAIN Append(serving.blocks, b) = 1..(Len(serving.blocks) + 1)
        /\ DOMAIN serving.blocks = 1..Len(serving.blocks)
        /\ Append(serving.blocks, b)[Len(serving.blocks) + 1] = b
        /\ \A j \in 1..Len(serving.blocks) : Append(serving.blocks, b)[j] = serving.blocks[j]
    BY <2>3, <2>4, AppendProperties, LenProperties
  <2>8. Continues(Append(serving.blocks, b))
    BY <2>3, <2>4, <2>6, <2>7 DEF Continues
  <2>9. Continues(serving.blocks)'
    BY <1>1, <2>5, <2>8, Zenon DEF Continues
  <2>10. serving'.next = Len(headers) + Len(serving'.blocks)
    BY <2>3, <2>5, <2>6, <2>7
  <2> QED
    BY <1>1, <1>2, <2>9, <2>10, Zenon DEF InStep, HeadersLinked, Continues, Answers, HeldAnswers
<1> QED
  BY <1>3, <1>4

\* An answer takes the place of the request that it answers.
LEMMA SendBlocksInStep ==
  ASSUME TypeInv, InStep, SendBlocks
  PROVE  InStep'
<1>1. /\ UNCHANGED <<headers, applying, held, toValidator>> /\ serving # None
      /\ serving' = None /\ serving \in Service
  BY DEF SendBlocks, followerVars, TypeInv
<1>2. PICK m : m = BlocksMessage(serving.blocks)
  BY Zenon
<1>3. m \in Message /\ m.kind = "blocks" /\ m.blocks = serving.blocks
  BY <1>1, <1>2 DEF BlocksMessage, Message, Service
<1>4. PICK s \in Seq(Message) : s = toFollower
  BY DEF TypeInv
<1>5. PICK t : t = Append(s, m)
  BY Zenon
<1>6. toFollower' = t
  BY <1>2, <1>4, <1>5, Zenon DEF SendBlocks
<1>7. Answers(s) = {} /\ HeldAnswers = {} /\ applying = << >> /\ toValidator = << >>
  BY <1>1, <1>4, Zenon DEF InStep, OneAtATime
<1>8. Answers(t) = {Len(s) + 1} /\ t[Len(s) + 1] = m
  BY <1>3, <1>5, <1>7, AppendMessage
<1>9. Answers(toFollower)' = {Len(s) + 1} /\ toFollower'[Len(s) + 1] = m
  BY <1>6, <1>8, Zenon DEF Answers
<1>10. HeldAnswers' = {}
  BY <1>1, <1>7, Zenon DEF HeldAnswers
<1>11. OneAtATime'
  <2>1. DOMAIN toValidator' = {} /\ toValidator' = << >> /\ applying' = << >>
    BY <1>1, <1>7
  <2> QED
    BY <1>1, <2>1, <1>9, <1>10, Zenon DEF OneAtATime
<1>12. Continues(m.blocks)
  BY <1>1, <1>3, Zenon DEF InStep
<1> QED
  BY <1>1, <1>7, <1>9, <1>10, <1>11, <1>12, Zenon DEF InStep, HeadersLinked, Continues

\* An announcement changes nothing of this.
LEMMA SendStatusInStep ==
  ASSUME TypeInv, InStep, SendStatus
  PROVE  InStep'
<1>1. UNCHANGED <<headers, applying, held, toValidator, serving>>
  BY DEF SendStatus, followerVars
<1>2. PICK m : m = StatusMessage(Len(chain))
  BY Zenon
<1>3. m \in Message /\ m.kind # "blocks"
  BY <1>2, LenProperties DEF StatusMessage, Message, TypeInv
<1>4. PICK s \in Seq(Message) : s = toFollower
  BY DEF TypeInv
<1>5. PICK t : t = Append(s, m)
  BY Zenon
<1>6. toFollower' = t
  BY <1>2, <1>4, <1>5, Zenon DEF SendStatus
<1>7. Answers(t) = Answers(s) /\ \A i \in Answers(s) : t[i] = s[i]
  BY <1>3, <1>5, AppendMessage DEF Answers
<1>8. Answers(toFollower)' = Answers(toFollower)
      /\ \A i \in Answers(toFollower) : toFollower'[i] = toFollower[i]
  BY <1>4, <1>6, <1>7, Zenon DEF Answers
<1>9. HeldAnswers' = HeldAnswers
  BY <1>1 DEF HeldAnswers
<1>10. OneAtATime'
  BY <1>1, <1>8, <1>9, Zenon DEF OneAtATime, InStep
<1>11. \A i \in Answers(toFollower)' : Continues(toFollower'[i].blocks)
  BY <1>8, Zenon DEF InStep
<1>12. \A i \in HeldAnswers' : Continues(held'[i].blocks)
  BY <1>1, <1>9, Zenon DEF InStep
<1> QED
  BY <1>1, <1>10, <1>11, <1>12, Zenon DEF InStep, HeadersLinked, Continues

\* An answer is read by one loop, or lost.
LEMMA ReadInStep ==
  ASSUME TypeInv, InStep, NEW r \in ReadLoop, NEW n \in 1..Len(toFollower), Read(r, n)
  PROVE  InStep'
<1>1. UNCHANGED <<headers, applying, toValidator, serving>> /\ held \in [ReadLoop -> {None} \cup Message]
  BY DEF Read, validatorVars, TypeInv
<1>2. PICK s \in Seq(Message) : s = toFollower
  BY DEF TypeInv
<1>3. PICK m, t : m = Decoded(s, n) /\ t = Remainder(s, n)
  BY Zenon
<1>4. toFollower' = t /\ held' = [held EXCEPT ![r] = m]
  BY <1>2, <1>3, Zenon DEF Read
<1>5. PICK d \in Nat : \A i \in Answers(t) : i + d \in Answers(s) \ {1} /\ s[i + d] = t[i]
  BY <1>2, <1>3, ReadResult
<1>6. m.kind = "blocks" => 1 \in Answers(s) /\ m = s[1]
  BY <1>2, <1>3, ReadResult
<1>7. \A i, j \in Answers(s) : i = j
  BY <1>2, Zenon DEF InStep, OneAtATime
<1>8. \A i, j \in Answers(t) : i = j
  <2>1. ASSUME NEW i \in Answers(t), NEW j \in Answers(t) PROVE i = j
    <3>1. i + d = j + d
      BY <1>5, <1>7
    <3>2. t \in Seq(Message)
      BY <1>2, <1>3, ReadResult
    <3>3. i \in Nat /\ j \in Nat
      BY <3>2, LenProperties DEF Answers
    <3> QED
      BY <3>1, <3>3
  <2> QED
    BY <2>1
<1>9. Answers(t) # {} => Answers(s) # {} /\ m.kind # "blocks"
  BY <1>5, <1>6, <1>7
<1>10. \A i \in Answers(t) : Continues(t[i].blocks)
  BY <1>2, <1>5 DEF InStep
<1>11. m.kind = "blocks" => Answers(s) # {} /\ Continues(m.blocks)
  BY <1>2, <1>6 DEF InStep
<1>12. Answers(toFollower)' = Answers(t)
  BY <1>4, Zenon DEF Answers
<1>13. /\ \A q \in HeldAnswers' : (q = r /\ m.kind = "blocks") \/ q \in HeldAnswers
       /\ \A q \in HeldAnswers' : q # r => held'[q] = held[q]
       /\ held'[r] = m
  BY <1>1, <1>4, Zenon DEF HeldAnswers
<1>14. Answers(s) # {} => HeldAnswers = {} /\ applying = << >> /\ serving = None /\ toValidator = << >>
  BY <1>2, Zenon DEF InStep, OneAtATime
<1>15. held[r] = None
  BY DEF Read
<1>16. r \notin HeldAnswers
  BY <1>15 DEF HeldAnswers
<1>17. OneAtATime'
  <2>1. CASE Answers(s) # {}
    BY <1>1, <1>8, <1>9, <1>12, <1>13, <1>14, <2>1, Zenon DEF OneAtATime, InStep
  <2>2. CASE Answers(s) = {}
    <3>1. Answers(t) = {} /\ m.kind # "blocks"
      BY <1>9, <1>11, <2>2, Zenon
    <3>2. \A q \in HeldAnswers' : q \in HeldAnswers
      BY <1>13, <3>1, Zenon
    <3> QED
      BY <1>1, <1>12, <3>1, <3>2, Zenon DEF OneAtATime, InStep
  <2> QED
    BY <2>1, <2>2
<1>18. \A q \in HeldAnswers' : Continues(held'[q].blocks)
  BY <1>11, <1>13, <1>16, Zenon DEF InStep
<1>19. \A i \in Answers(toFollower)' : Continues(toFollower'[i].blocks)
  BY <1>4, <1>10, <1>12, Zenon
<1> QED
  BY <1>1, <1>17, <1>18, <1>19, Zenon DEF InStep, HeadersLinked, Continues

\* The main loop takes over the blocks of an answer.
LEMMA ProcessInStep ==
  ASSUME TypeInv, InStep, NEW r \in ReadLoop, ProcessMessage(r)
  PROVE  InStep'
<1>1. /\ UNCHANGED <<headers, toFollower, toValidator, serving>>
      /\ held' = [held EXCEPT ![r] = None] /\ held \in [ReadLoop -> {None} \cup Message]
      /\ held[r] # None /\ applying = << >>
  BY DEF ProcessMessage, validatorVars, TypeInv
<1>2. /\ HeldAnswers' = HeldAnswers \ {r}
      /\ \A q \in HeldAnswers' : held'[q] = held[q]
  BY <1>1, Zenon DEF HeldAnswers
<1>3. Answers(toFollower)' = Answers(toFollower)
  BY <1>1 DEF Answers
<1>4. (\A q \in HeldAnswers : Continues(held[q].blocks))'
  <2>1. \A q \in HeldAnswers' : Continues(held'[q].blocks)
    BY <1>2, Zenon DEF InStep
  <2>2. Len(headers') = Len(headers)
    BY <1>1
  <2> QED
    BY <2>1, <2>2, Zenon DEF Continues
<1>5. (\A i \in Answers(toFollower) : Continues(toFollower[i].blocks))'
  BY <1>1, <1>3, Zenon DEF InStep, Continues
<1>6. /\ HeadersLinked' /\ (\A i \in DOMAIN toValidator : toValidator[i].to = Len(headers))'
      /\ (serving # None => /\ Continues(serving.blocks)
                            /\ serving.next <= serving.from
                                 => serving.next = Len(headers) + Len(serving.blocks))'
  BY <1>1, Zenon DEF InStep, HeadersLinked, Continues
<1>7. CASE held[r].kind = "blocks"
  <2>1. r \in HeldAnswers /\ applying' = held[r].blocks
    BY <1>1, <1>7 DEF HeldAnswers, ProcessMessage
  <2>2. Continues(applying)'
    BY <1>1, <2>1, Zenon DEF InStep, Continues
  <2>3. HeldAnswers' = {}
    BY <1>2, <2>1, Zenon DEF InStep, OneAtATime
  <2>4. toValidator = << >> /\ serving = None /\ Answers(toFollower) = {}
    BY <2>1, Zenon DEF InStep, OneAtATime
  <2>5. OneAtATime'
    BY <1>1, <1>3, <2>3, <2>4, Zenon DEF InStep, OneAtATime
  <2> QED
    BY <1>1, <1>4, <1>5, <1>6, <2>2, <2>5, Zenon DEF InStep
<1>8. CASE held[r].kind # "blocks"
  <2>1. r \notin HeldAnswers /\ applying' = applying
    BY <1>8 DEF HeldAnswers, ProcessMessage
  <2>2. OneAtATime'
    BY <1>1, <1>2, <1>3, <2>1, Zenon DEF InStep, OneAtATime
  <2>3. Continues(applying)'
    BY <1>1, <2>1, Zenon DEF InStep, Continues
  <2> QED
    BY <1>1, <1>4, <1>5, <1>6, <2>2, <2>3, Zenon DEF InStep
<1> QED
  BY <1>7, <1>8

\* The follower appends the block that comes next, and the rest comes next then.
LEMMA AddInStep ==
  ASSUME TypeInv, InStep, AddBlock
  PROVE  InStep'
<1>1. /\ UNCHANGED <<held, toFollower, toValidator, serving>> /\ applying # << >>
      /\ headers' = Append(headers, Head(applying)) /\ applying' = Tail(applying)
      /\ headers \in Seq(Block) /\ applying \in Seq(Block)
  BY DEF AddBlock, validatorVars, TypeInv
<1>2. toValidator = << >> /\ serving = None /\ Answers(toFollower) = {} /\ HeldAnswers = {}
  BY <1>1, Zenon DEF InStep, OneAtATime
<1>3. /\ DOMAIN toValidator' = {} /\ toValidator' = << >> /\ serving' = None
      /\ Answers(toFollower)' = {} /\ HeldAnswers' = {}
  BY <1>1, <1>2 DEF Answers, HeldAnswers
<1>4. OneAtATime'
  BY <1>3, Zenon DEF OneAtATime
<1>5. PICK h, a : h = headers /\ a = applying
  BY Zenon
<1>6. h \in Seq(Block) /\ a \in Seq(Block) /\ a # << >>
  BY <1>1, <1>5
<1>7. /\ Len(h) \in Nat /\ Len(a) \in Nat /\ Len(a) > 0 /\ DOMAIN h = 1..Len(h) /\ DOMAIN a = 1..Len(a)
  BY <1>6, LenProperties, EmptySeq
<1>8. /\ Head(a) = a[1] /\ Head(a) \in Block /\ DOMAIN Tail(a) = 1..(Len(a) - 1)
      /\ \A j \in 1..(Len(a) - 1) : Tail(a)[j] = a[j + 1]
  BY <1>6, <1>7, HeadTailProperties, LenProperties
<1>9. a[1].height = Len(h) + 1 - 1 /\ \A j \in DOMAIN a : a[j].height = Len(h) + j - 1
  BY <1>5, <1>7 DEF InStep, Continues
<1>10. PICK g : g = Append(h, Head(a))
  BY Zenon
<1>11. /\ DOMAIN g = 1..(Len(h) + 1) /\ Len(g) = Len(h) + 1 /\ g[Len(h) + 1] = a[1]
       /\ \A i \in 1..Len(h) : g[i] = h[i]
  BY <1>6, <1>7, <1>8, <1>10, AppendProperties, LenProperties
<1>12. \A i \in DOMAIN h : h[i].height = i - 1
  BY <1>5, Zenon DEF InStep, HeadersLinked
<1>13. \A i \in DOMAIN g : g[i].height = i - 1
  <2>1. \A i \in 1..Len(h) : g[i].height = i - 1
    BY <1>7, <1>11, <1>12, Zenon
  <2>2. g[Len(h) + 1].height = (Len(h) + 1) - 1
    BY <1>9, <1>11
  <2>3. \A i \in DOMAIN g : i \in 1..Len(h) \/ i = Len(h) + 1
    BY <1>7, <1>11
  <2> QED
    BY <2>1, <2>2, <2>3, Zenon
<1>14. \A j \in DOMAIN Tail(a) : Tail(a)[j].height = Len(g) + j - 1
  <2>1. ASSUME NEW j \in 1..(Len(a) - 1) PROVE Tail(a)[j].height = Len(g) + j - 1
    <3>1. j + 1 \in DOMAIN a /\ Len(h) + (j + 1) - 1 = (Len(h) + 1) + j - 1
      BY <1>7
    <3>2. Tail(a)[j] = a[j + 1] /\ a[j + 1].height = Len(h) + (j + 1) - 1
      BY <1>8, <1>9, <3>1, Zenon
    <3> QED
      BY <1>11, <3>1, <3>2
  <2> QED
    BY <1>8, <2>1, Zenon
<1>15. headers' = g /\ applying' = Tail(a)
  BY <1>1, <1>5, <1>10
<1>16. HeadersLinked' /\ Continues(applying)'
  BY <1>13, <1>14, <1>15, Zenon DEF HeadersLinked, Continues
<1> QED
  BY <1>3, <1>4, <1>16, Zenon DEF InStep

\* A step that leaves requests, answers and headers alone.
LEMMA IdleInStep ==
  ASSUME InStep, UNCHANGED <<headers, applying, held, toFollower, toValidator, serving>>
  PROVE  InStep'
BY DEF InStep, OneAtATime, HeadersLinked, Continues, Answers, HeldAnswers

\* A step keeps the follower in step unless it makes requests overlap.
LEMMA LinkStep == TypeInv /\ LinkInv /\ [Next]_vars => LinkInv'
<1> SUFFICES ASSUME TypeInv, LinkInv, [Next]_vars, ~ overlapped' PROVE InStep'
  BY DEF LinkInv
<1>1. CASE \E l \in Length : SendGetBlocks(l)
  BY <1>1, SendInStep
<1>2. CASE ~ (\E l \in Length : SendGetBlocks(l))
  <2>1. overlapped' = overlapped
    BY <1>2 DEF Next, vars, CreateNewBlock, StartStatusLoop, SendStatus, ReceiveGetBlocks, ReadOneBlock,
                SendBlocks, Read, ProcessMessage, AddBlock, ReadLength
  <2>2. InStep
    BY <2>1 DEF LinkInv
  <2>3. CASE (\E txs \in Pending : CreateNewBlock(txs)) \/ StartStatusLoop
             \/ (\E l \in Length : ReadLength(l)) \/ UNCHANGED vars
    <3>1. UNCHANGED <<headers, applying, held, toFollower, toValidator, serving>>
      BY <2>3 DEF CreateNewBlock, StartStatusLoop, ReadLength, vars, validatorVars, followerVars
    <3> QED
      BY <2>2, <3>1, IdleInStep
  <2> QED
    BY <1>2, <2>2, <2>3, SendStatusInStep, ReceiveInStep, ReadOneInStep, SendBlocksInStep, ReadInStep,
       ProcessInStep, AddInStep DEF Next
<1> QED
  BY <1>1, <1>2

----------------------------------------------------------------------------
(* The theorems *)

\* The first state is typed, in step and without messages.
LEMMA InitInv == Init => TypeInv /\ LinkInv /\ DecodeInv
<1> SUFFICES ASSUME Init PROVE TypeInv /\ LinkInv /\ DecodeInv
  OBVIOUS
<1>0. DOMAIN << >> = {} /\ Answers(<< >>) = {}
  BY DEF Answers
<1>1. Sizes(toFollower) <= BufferBlocks
  <2>1. UNION {{i} \X DOMAIN toFollower[i].blocks : i \in Answers(toFollower)} = {}
    BY <1>0, Zenon DEF Init
  <2>2. Sizes(toFollower) = 0
    BY <2>1, FS_EmptySet, Zenon DEF Sizes
  <2> QED
    BY <2>2, SyncAssumption
<1>2. TypeInv
  <2>1. chain \in Seq(BOOLEAN)
    BY DEF Init
  <2>2. loop \in [Length -> LoopState]
    BY DEF Init, LoopState
  <2>3. held \in [ReadLoop -> {None} \cup Message]
    BY DEF Init
  <2>4. \A S : << >> \in Seq(S)
    BY EmptySeq
  <2> QED
    BY <2>1, <2>2, <2>3, <2>4, Zenon DEF Init, TypeInv
<1>3. \A r \in ReadLoop : held[r] = None
  BY DEF Init
<1>4. HeldAnswers = {}
  BY <1>3, Zenon DEF HeldAnswers
<1>5. LinkInv
  BY <1>0, <1>4, Zenon DEF Init, LinkInv, InStep, OneAtATime, HeadersLinked, Continues
<1>6. DecodeInv
  BY <1>0, <1>1, <1>3, Zenon DEF Init, DecodeInv
<1> QED
  BY <1>2, <1>5, <1>6

\* The follower's chain is linked unless requests overlapped, for any number
\* of read loops, of loops that ask and of blocks: requestBlocksLoop asks from
\* the follower's length, processGetBlocksMessage counts up from there, and
\* processBlocksMessage appends in order.
THEOREM ChainIsLinked == Spec => []LinkedUnlessOverlapped
<1>1. TypeInv /\ LinkInv /\ [Next]_vars => (TypeInv /\ LinkInv)'
  BY TypeStep, LinkStep
<1>2. LinkInv => LinkedUnlessOverlapped
  BY DEF LinkInv, InStep, LinkedUnlessOverlapped
<1> QED
  BY <1>1, <1>2, InitInv, PTL DEF Spec

\* A follower stops for a message that it cannot decode only after more blocks
\* were under way than fit into one Read: messages that readLoop joins are
\* lost, and none is cut off.
THEOREM MessagesAreWhole == Spec => []DecodesUnlessOverfull
<1>1. TypeInv /\ DecodeInv /\ [Next]_vars => (TypeInv /\ DecodeInv)'
  BY TypeStep, DecodeStep
<1>2. DecodeInv => DecodesUnlessOverfull
  BY DEF DecodeInv, DecodesUnlessOverfull
<1> QED
  BY <1>1, <1>2, InitInv, PTL DEF Spec
============================================================================
