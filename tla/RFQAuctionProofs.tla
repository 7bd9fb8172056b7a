-------------------------- MODULE RFQAuctionProofs --------------------------
(***************************************************************************)
(* Type correctness of RFQAuction, its circular wait, the order in which   *)
(* its tables are filled and how long an auction stays open, for every set *)
(* of RFQs, quotes and handlers, every duration and every pool size.       *)
(***************************************************************************)
EXTENDS RFQAuction, SequenceTheorems, NaturalsInduction, WellFoundedInduction, TLAPS

(* Types of the operators the model is built from *)

\* Writing a key of a table or map keeps its type.
LEMMA PutType ==
  ASSUME NEW V, NEW t, IsTable(t, V), NEW k \in RFQ, NEW v \in V
  PROVE  IsTable(Put(t, k, v), V)
BY DEF IsTable, Put

\* Deleting a key keeps the type.
LEMMA DeleteType ==
  ASSUME NEW V, NEW t, IsTable(t, V), NEW k
  PROVE  IsTable(Delete(t, k), V)
BY DEF IsTable, Delete

\* The pool stays a sequence of transactions of at most MaxLength.
LEMMA AddToAllType ==
  ASSUME NEW S, NEW all \in Seq(S), Len(all) <= MaxLength, NEW tx \in S
  PROVE  /\ AddToAll(all, tx) \in Seq(S)
         /\ Len(AddToAll(all, tx)) <= MaxLength
<1>1. /\ PruneOldest(all) \in Seq(S)
      /\ Len(PruneOldest(all)) < MaxLength
  <2>1. CASE Len(all) = MaxLength
    <3>1. all # <<>>
      BY <2>1, MaxLengthAssumption
    <3>2. Tail(all) \in Seq(S) /\ Len(Tail(all)) = Len(all) - 1
      BY <3>1, HeadTailProperties
    <3> QED
      BY <2>1, <3>2, MaxLengthAssumption DEF PruneOldest
  <2>2. CASE Len(all) # MaxLength
    BY <2>2, MaxLengthAssumption DEF PruneOldest
  <2> QED
    BY <2>1, <2>2
<1>2. QED
  BY <1>1, MaxLengthAssumption DEF AddToAll, SortedMapAdd

\* The int64 conversion yields an integer, wrapped or not.
LEMMA ToInt64Type ==
  ASSUME NEW n \in Int
  PROVE  ToInt64(n) \in Int
BY RFQAssumption DEF ToInt64

\* What handleRFQRequest builds is an RFQData object.
LEMMA NewRFQDataType ==
  ASSUME NEW r \in RFQ, NEW t \in Int
  PROVE  NewRFQData(r, t) \in RFQData
<1>1. RFQDurationMs[r] \in Int
  BY RFQAssumption
<1>2. RFQEndTime(r, t) \in Int
  BY <1>1, ToInt64Type DEF RFQEndTime
<1> QED
  BY <1>2, EmptySeq DEF NewRFQData, RFQData

\* AppendQuote changes the quotes of an auction object and nothing else.
LEMMA AppendQuoteFields ==
  ASSUME NEW d \in RFQData, NEW q \in Quote
  PROVE  /\ AppendQuote(d, q) \in RFQData
         /\ AppendQuote(d, q).ref = d.ref /\ AppendQuote(d, q).start = d.start
         /\ AppendQuote(d, q).end = d.end
         /\ AppendQuote(d, q).quotes = Append(d.quotes, q)
<1>1. d.quotes \in Seq(Quote)
  BY DEF RFQData
<1>2. Append(d.quotes, q) \in Seq(Quote)
  BY <1>1, AppendProperties
<1> QED
  BY <1>2 DEF RFQData, AppendQuote

\* A non-empty set of indices has a first one.
LEMMA FirstIndex ==
  ASSUME NEW I, I \subseteq Nat, I # {}
  PROVE  LET i == CHOOSE i \in I : \A j \in I : i <= j
         IN  i \in I /\ \A j \in I : i <= j
<1>1. PICK m \in I : \A j \in I : ~ (<<j, m>> \in OpToRel(<, Nat))
  BY WFMin, NatLessThanWellFounded, Zenon
<1>2. \A j \in I : ~ (j < m)
  BY <1>1, Zenon DEF OpToRel
<1>3. \A j \in I : m <= j
  BY <1>2
<1> QED
  BY <1>3

\* Cutting one index out of a sequence leaves a sequence over the same set.
LEMMA WithoutIndexType ==
  ASSUME NEW S, NEW list \in Seq(S), NEW k \in 1..Len(list)
  PROVE  SubSeq(list, 1, k - 1) \o SubSeq(list, k + 1, Len(list)) \in Seq(S)
<1>1. Len(list) \in Nat /\ \A i \in 1..Len(list) : list[i] \in S
  BY LenProperties
<1>2. SubSeq(list, 1, k - 1) \in Seq(S)
  <2>1. \A i \in 1..(k - 1) : list[i] \in S
    BY <1>1
  <2> QED
    BY <1>1, <2>1, SubSeqProperties
<1>3. SubSeq(list, k + 1, Len(list)) \in Seq(S)
  <2>1. \A i \in (k + 1)..Len(list) : list[i] \in S
    BY <1>1
  <2> QED
    BY <1>1, <2>1, SubSeqProperties
<1> QED
  BY <1>2, <1>3, ConcatProperties

\* The removal loop of a CLOSED record leaves a list of pointers.
LEMMA RemoveFirstType ==
  ASSUME NEW S, NEW list \in Seq(S), NEW r
  PROVE  RemoveFirst(list, r) \in Seq(S)
<1> DEFINE hits == {i \in 1..Len(list) : rfqData[list[i]].ref = r}
           k == CHOOSE i \in hits : \A j \in hits : i <= j
<1>1. CASE hits = {}
  BY <1>1 DEF RemoveFirst
<1>2. CASE hits # {}
  <2>1. k \in 1..Len(list)
    <3>1. hits \subseteq Nat
      BY LenProperties
    <3> QED
      BY <1>2, <3>1, FirstIndex
  <2> QED
    BY <1>2, <2>1, WithoutIndexType, Zenon DEF RemoveFirst
<1> QED
  BY <1>1, <1>2

----------------------------------------------------------------------------
(* Type correctness *)

\* A table without keys is a table of anything.
LEMMA EmptyTable == \A V : IsTable(<<>>, V)
BY EmptySeq DEF IsTable

\* A node that has just started is well typed.
LEMMA InitTypeOK == Init => TypeOK
<1> SUFFICES ASSUME Init PROVE TypeOK
  OBVIOUS
<1>1. /\ memPool \in Seq(Tx) /\ Len(memPool) <= MaxLength
      /\ rfqData \in Seq(RFQData)
      /\ openRFQS \in Seq(1..Len(rfqData))
      /\ broadcasts \in Seq([kind : {"open", "close"}, id : RFQ]
                             \cup [kind : {"quote"}, id : Quote])
  BY MaxLengthAssumption, EmptySeq DEF Init
<1>2. /\ IsTable(openRFQsMap, 1..Len(rfqData))
      /\ IsTable(openRFQSTable, RFQData)
      /\ IsTable(closedRFQSTable, RFQData)
      /\ IsTable(quotesTable, Seq(Quote))
  BY EmptyTable DEF Init
<1>3. /\ pc \in [Handler -> PcType]
      /\ body \in [Handler -> Tx \cup {None}]
      /\ \A h \in Handler : pc[h] = "idle"
  BY DEF Init, PcType
<1>4. now \in StartTime..MaxTime /\ managerNow \in Nat
  BY RFQAssumption DEF Init
<1> QED
  BY <1>1, <1>2, <1>3, <1>4 DEF Init, TypeOK

\* TypeOK, one part for each goroutine and each group of shared objects: a step is
\* checked against the parts it writes only.
HandlerOK ==
  /\ pc \in [Handler -> PcType]
  /\ body \in [Handler -> Tx \cup {None}]
  /\ \A h \in Handler : /\ pc[h] # "idle" => body[h] \in Tx
                        /\ pc[h] \in {"store", "update", "created"}
                             => body[h].type = "Quote"

MainOK == mainPc \in {"select", "process", "emit"} /\ (mainPc # "select" => mainTx \in Tx)

ListenerOK ==
  /\ listenerPc \in {"select", "handle", "store", "submit"}
  /\ listenerPc # "select" => listenerTx \in Tx
  /\ listenerPc \in {"store", "submit"} => listenerTx.type = "OpenRFQ"

ManagerOK ==
  /\ managerPc \in {"wait", "loop", "store", "emit"}
  /\ managerNow \in Nat
  /\ managerPc \in {"store", "emit"} => managerTx \in RFQData

PoolOK == memPool \in Seq(Tx) /\ Len(memPool) <= MaxLength

MemoryOK ==
  /\ rfqData \in Seq(RFQData)
  /\ openRFQS \in Seq(1..Len(rfqData))
  /\ IsTable(openRFQsMap, 1..Len(rfqData))
  /\ auctionQueue \subseteq 1..Len(rfqData)

TablesOK ==
  /\ rfqRequestsTable \subseteq RFQ
  /\ IsTable(openRFQSTable, RFQData)
  /\ IsTable(closedRFQSTable, RFQData)
  /\ IsTable(quotesTable, Seq(Quote))

Broadcast == [kind : {"open", "close"}, id : RFQ] \cup [kind : {"quote"}, id : Quote]

\* The parts make up TypeOK, before and after a step.
LEMMA TypeParts ==
  TypeOK <=> /\ now \in StartTime..MaxTime
             /\ HandlerOK /\ MainOK /\ ListenerOK /\ ManagerOK /\ PoolOK
             /\ MemoryOK /\ TablesOK /\ broadcasts \in Seq(Broadcast)
BY DEF TypeOK, HandlerOK, MainOK, ListenerOK, ManagerOK, PoolOK, MemoryOK, TablesOK,
       Broadcast

\* The same of the state after a step.
LEMMA TypePartsPrime ==
  TypeOK' <=> /\ now' \in StartTime..MaxTime
              /\ HandlerOK' /\ MainOK' /\ ListenerOK' /\ ManagerOK' /\ PoolOK'
              /\ MemoryOK' /\ TablesOK' /\ broadcasts' \in Seq(Broadcast)
BY DEF TypeOK, HandlerOK, MainOK, ListenerOK, ManagerOK, PoolOK, MemoryOK, TablesOK,
       Broadcast

\* A step keeps the parts whose variables it leaves alone.
LEMMA PartsFrame ==
  /\ UNCHANGED handlerVars /\ HandlerOK => HandlerOK'
  /\ UNCHANGED mainVars /\ MainOK => MainOK'
  /\ UNCHANGED listenerVars /\ ListenerOK => ListenerOK'
  /\ UNCHANGED managerVars /\ ManagerOK => ManagerOK'
  /\ UNCHANGED memPool /\ PoolOK => PoolOK'
  /\ UNCHANGED memoryVars /\ MemoryOK => MemoryOK'
  /\ UNCHANGED tableVars /\ TablesOK => TablesOK'
<1>1. UNCHANGED handlerVars /\ HandlerOK => HandlerOK'
  BY DEF handlerVars, HandlerOK
<1>2. UNCHANGED mainVars /\ MainOK => MainOK'
  BY DEF mainVars, MainOK
<1>3. UNCHANGED listenerVars /\ ListenerOK => ListenerOK'
  BY DEF listenerVars, ListenerOK
<1>4. UNCHANGED managerVars /\ ManagerOK => ManagerOK'
  BY DEF managerVars, ManagerOK
<1>5. UNCHANGED memPool /\ PoolOK => PoolOK'
  BY DEF PoolOK
<1>6. UNCHANGED memoryVars /\ MemoryOK => MemoryOK'
  BY DEF memoryVars, MemoryOK, IsTable
<1>7. UNCHANGED tableVars /\ TablesOK => TablesOK'
  BY DEF tableVars, TablesOK, IsTable
<1> QED
  BY <1>1, <1>2, <1>3, <1>4, <1>5, <1>6, <1>7

\* A handler that moves on with a transaction of its own leaves the others alone.
LEMMA HandlerMoves ==
  ASSUME HandlerOK, NEW h \in Handler, NEW s \in PcType, NEW tx \in Tx,
         s \in {"store", "update", "created"} => tx.type = "Quote",
         pc' = [pc EXCEPT ![h] = s], body' = [body EXCEPT ![h] = tx]
  PROVE  HandlerOK'
<1>1. pc' \in [Handler -> PcType] /\ body' \in [Handler -> Tx \cup {None}]
  BY DEF HandlerOK
<1>2. ASSUME NEW k \in Handler
      PROVE  /\ pc'[k] # "idle" => body'[k] \in Tx
             /\ pc'[k] \in {"store", "update", "created"} => body'[k].type = "Quote"
  <2>1. CASE k = h
    <3>1. pc'[k] = s /\ body'[k] = tx
      BY <2>1 DEF HandlerOK
    <3> QED
      BY <3>1
  <2>2. CASE k # h
    <3>1. pc'[k] = pc[k] /\ body'[k] = body[k]
      BY <2>2 DEF HandlerOK
    <3> QED
      BY <3>1 DEF HandlerOK
  <2> QED
    BY <2>1, <2>2
<1> QED
  BY <1>1, <1>2 DEF HandlerOK

\* The same for a handler that keeps the transaction it carries.
LEMMA HandlerGoesOn ==
  ASSUME HandlerOK, NEW h \in Handler, NEW s \in PcType, pc[h] # "idle",
         s \in {"store", "update", "created"} => body[h].type = "Quote",
         pc' = [pc EXCEPT ![h] = s], body' = body
  PROVE  HandlerOK'
<1>1. body[h] \in Tx
  BY DEF HandlerOK
<1>2. body' = [body EXCEPT ![h] = body[h]]
  BY DEF HandlerOK
<1> QED
  BY <1>1, <1>2, HandlerMoves

\* Every step of every goroutine keeps the types.
LEMMA NextTypeOK == TypeOK /\ [Next]_vars => TypeOK'
<1> SUFFICES ASSUME TypeOK, [Next]_vars
             PROVE  TypeOK'
  OBVIOUS
<1>0. /\ now \in StartTime..MaxTime
      /\ HandlerOK /\ MainOK /\ ListenerOK /\ ManagerOK /\ PoolOK
      /\ MemoryOK /\ TablesOK /\ broadcasts \in Seq(Broadcast)
  BY TypeParts
<1>1. CASE Tick
  <2>1. now' \in StartTime..MaxTime
    BY <1>0, <1>1, RFQAssumption DEF Tick
  <2> QED
    BY <1>0, <1>1, <2>1, PartsFrame, TypePartsPrime DEF Tick
<1>2. ASSUME NEW h \in Handler, NEW r \in RFQ, PostRFQRequest(h, r)
      PROVE  TypeOK'
  <2>1. RFQRequestTx(r) \in Tx
    BY DEF RFQRequestTx, Tx
  <2>2. PICK s \in {"submit", "rejected"} : pc' = [pc EXCEPT ![h] = s]
    BY <1>2 DEF PostRFQRequest
  <2>3. HandlerOK'
    <3>1. s \in PcType /\ s \notin {"store", "update", "created"}
      BY DEF PcType
    <3> QED
      BY <1>0, <1>2, <2>1, <2>2, <3>1, HandlerMoves DEF PostRFQRequest
  <2>4. rfqRequestsTable' \subseteq RFQ
    BY <1>0, <1>2 DEF PostRFQRequest, WriteRFQRequest, TablesOK
  <2>5. TablesOK'
    BY <1>0, <1>2, <2>4 DEF PostRFQRequest, TablesOK, IsTable
  <2> QED
    BY <1>0, <1>2, <2>3, <2>5, PartsFrame, TypePartsPrime DEF PostRFQRequest
<1>3. ASSUME NEW h \in Handler, NEW q \in Quote, PostQuote(h, q)
      PROVE  TypeOK'
  <2>1. QuoteTx(q) \in Tx /\ QuoteTx(q).type = "Quote"
    BY DEF QuoteTx, Tx
  <2>2. PICK s \in {"store", "rejected"} : pc' = [pc EXCEPT ![h] = s]
    BY <1>3, Zenon DEF PostQuote
  <2>3. HandlerOK'
    <3>1. s \in PcType
      BY DEF PcType
    <3> QED
      BY <1>0, <1>3, <2>1, <2>2, <3>1, HandlerMoves DEF PostQuote
  <2> QED
    BY <1>0, <1>3, <2>3, PartsFrame, TypePartsPrime DEF PostQuote
<1>4. ASSUME NEW h \in Handler, StoreQuote(h)
      PROVE  TypeOK'
  <2>1. pc[h] = "store" /\ body[h] \in Tx /\ body[h].type = "Quote"
    BY <1>0, <1>4 DEF StoreQuote, HandlerOK
  <2>2. body[h].id \in Quote
    BY <2>1 DEF Tx
  <2>3. RFQTxHash[body[h].id] \in RFQ
    BY <2>2, RFQAssumption
  <2>4. Append(StoredQuotes(RFQTxHash[body[h].id]), body[h].id) \in Seq(Quote)
    BY <1>0, <2>2, EmptySeq, AppendProperties DEF TablesOK, IsTable, StoredQuotes
  <2>5. IsTable(quotesTable', Seq(Quote))
    BY <1>0, <1>4, <2>3, <2>4, PutType, Zenon DEF StoreQuote, WriteQuote, TablesOK
  <2>6. TablesOK'
    BY <1>0, <1>4, <2>5 DEF StoreQuote, TablesOK, IsTable
  <2>7. HandlerOK'
    <3>1. "submit" \in PcType
      BY DEF PcType
    <3> QED
      BY <1>0, <1>4, <2>1, <3>1, HandlerGoesOn DEF StoreQuote
  <2> QED
    BY <1>0, <1>4, <2>6, <2>7, PartsFrame, TypePartsPrime DEF StoreQuote
<1>5. ASSUME NEW h \in Handler, SubmitTx(h)
      PROVE  TypeOK'
  <2>1. pc[h] = "submit" /\ body[h] \in Tx
    BY <1>0, <1>5 DEF SubmitTx, HandlerOK
  <2>2. PICK s \in {"update", "accepted"} :
          pc' = [pc EXCEPT ![h] = s] /\ (s = "update" => body[h].type = "Quote")
    BY <1>5, Zenon DEF SubmitTx
  <2>3. HandlerOK'
    <3>1. s \in PcType /\ (s \in {"store", "update", "created"} => s = "update")
      BY DEF PcType
    <3> QED
      BY <1>0, <1>5, <2>1, <2>2, <3>1, HandlerGoesOn, Zenon DEF SubmitTx
  <2>4. MainOK'
    BY <1>5, <2>1 DEF SubmitTx, MainOK
  <2> QED
    BY <1>0, <1>5, <2>3, <2>4, PartsFrame, TypePartsPrime DEF SubmitTx
<1>6. ASSUME NEW h \in Handler, UpdateActiveRFQ(h)
      PROVE  TypeOK'
  <2>1. pc[h] = "update" /\ body[h] \in Tx /\ body[h].type = "Quote"
    BY <1>0, <1>6 DEF UpdateActiveRFQ, HandlerOK
  <2>2. body[h].id \in Quote
    BY <2>1 DEF Tx
  <2>3. rfqData' \in Seq(RFQData) /\ Len(rfqData') = Len(rfqData)
    <3> DEFINE r == RFQTxHash[body[h].id]
               p == openRFQsMap[r]
               new == AppendQuote(rfqData[p], body[h].id)
    <3>1. CASE r \in DOMAIN openRFQsMap
      <4>1. p \in 1..Len(rfqData)
        BY <1>0, <3>1 DEF MemoryOK, IsTable
      <4>2. rfqData[p] \in RFQData
        BY <1>0, <4>1, ElementOfSeq DEF MemoryOK
      <4>3. new \in RFQData
        BY <2>2, <4>2, AppendQuoteFields
      <4>4. rfqData' = [rfqData EXCEPT ![p] = new]
        BY <1>6, <3>1 DEF UpdateActiveRFQ
      <4> HIDE DEF p, new
      <4> QED
        BY <1>0, <4>1, <4>3, <4>4, ExceptSeq DEF MemoryOK
    <3>2. CASE r \notin DOMAIN openRFQsMap
      BY <1>0, <1>6, <3>2, Zenon DEF UpdateActiveRFQ, MemoryOK
    <3> QED
      BY <3>1, <3>2
  <2>4. MemoryOK'
    BY <1>0, <1>6, <2>3, Zenon DEF UpdateActiveRFQ, MemoryOK, IsTable
  <2>5. HandlerOK'
    <3>1. "created" \in PcType
      BY DEF PcType
    <3> QED
      BY <1>0, <1>6, <2>1, <3>1, HandlerGoesOn, Zenon DEF UpdateActiveRFQ
  <2>6. UNCHANGED <<now, mainVars, listenerVars, managerVars, memPool, tableVars,
                    broadcasts>>
    BY <1>6, Zenon DEF UpdateActiveRFQ
  <2> QED
    BY <1>0, <2>4, <2>5, <2>6, PartsFrame, TypePartsPrime
<1>7. CASE ProcessTransaction
  <2>1. mainPc = "process" /\ mainTx \in Tx
    BY <1>0, <1>7 DEF ProcessTransaction, MainOK
  <2>2. PoolOK'
    BY <1>0, <1>7, <2>1, AddToAllType DEF ProcessTransaction, PoolOK
  <2>3. MainOK'
    BY <1>7, <2>1 DEF ProcessTransaction, MainOK
  <2> QED
    BY <1>0, <1>7, <2>2, <2>3, PartsFrame, TypePartsPrime DEF ProcessTransaction
<1>8. CASE EmitTxEvent
  <2>1. MainOK' /\ ListenerOK'
    BY <1>0, <1>8 DEF EmitTxEvent, MainOK, ListenerOK
  <2> QED
    BY <1>0, <1>8, <2>1, PartsFrame, TypePartsPrime DEF EmitTxEvent
<1>9. CASE HandleRFQRequest
  <2>1. listenerTx \in Tx /\ listenerTx.type = "RFQRequest"
    BY <1>0, <1>9 DEF HandleRFQRequest, ListenerOK
  <2>2. listenerTx.id \in RFQ /\ now \in Int
    BY <1>0, <2>1, RFQAssumption DEF Tx
  <2>3. [kind |-> "open", id |-> listenerTx.id] \in Broadcast
    BY <2>2 DEF Broadcast
  <2>4. broadcasts' \in Seq(Broadcast)
    BY <1>0, <1>9, <2>3, AppendProperties DEF HandleRFQRequest
  <2>5. OpenRFQTx(listenerTx.id, now) \in Tx
        /\ OpenRFQTx(listenerTx.id, now).type = "OpenRFQ"
    BY <2>2 DEF OpenRFQTx, Tx
  <2>6. ListenerOK'
    BY <1>9, <2>5 DEF HandleRFQRequest, ListenerOK
  <2> QED
    BY <1>0, <1>9, <2>4, <2>6, PartsFrame, TypePartsPrime DEF HandleRFQRequest
<1>10. CASE StoreOpenRFQ
  <2> DEFINE obj == NewRFQData(listenerTx.id, listenerTx.at)
             ptr == Len(rfqData) + 1
  <2>1. listenerTx \in Tx /\ listenerTx.type = "OpenRFQ"
    BY <1>0, <1>10 DEF StoreOpenRFQ, ListenerOK
  <2>2. listenerTx.id \in RFQ /\ listenerTx.at \in Int
    BY <2>1 DEF Tx
  <2>3. obj \in RFQData /\ obj.ref \in RFQ
    BY <2>2, NewRFQDataType DEF RFQData
  <2>4. /\ rfqData' = Append(rfqData, obj) /\ openRFQS' = Append(openRFQS, ptr)
        /\ openRFQsMap' = Put(openRFQsMap, obj.ref, ptr)
        /\ auctionQueue' = auctionQueue \cup {ptr}
        /\ openRFQSTable' = Put(openRFQSTable, obj.ref, obj)
    BY <1>10 DEF StoreOpenRFQ, WriteOpenRFQ
  <2> HIDE DEF obj
  <2>5. rfqData' \in Seq(RFQData) /\ Len(rfqData') = Len(rfqData) + 1
    BY <1>0, <2>3, <2>4, AppendProperties DEF MemoryOK
  <2>6. 1..Len(rfqData) \subseteq 1..Len(rfqData') /\ ptr \in 1..Len(rfqData')
    <3>1. Len(rfqData) \in Nat
      BY <1>0, LenProperties DEF MemoryOK
    <3> QED
      BY <2>5, <3>1
  <2> HIDE DEF ptr
  <2>7. openRFQS' \in Seq(1..Len(rfqData'))
    <3>1. openRFQS \in Seq(1..Len(rfqData'))
      BY <1>0, <2>6, SeqMonotonic, Zenon DEF MemoryOK
    <3> QED
      BY <2>4, <2>6, <3>1, AppendProperties
  <2>8. IsTable(openRFQsMap', 1..Len(rfqData'))
    <3>1. IsTable(openRFQsMap, 1..Len(rfqData'))
      BY <1>0, <2>6 DEF MemoryOK, IsTable
    <3> QED
      BY <2>3, <2>4, <2>6, <3>1, PutType
  <2>9. auctionQueue' \subseteq 1..Len(rfqData')
    BY <1>0, <2>4, <2>6 DEF MemoryOK
  <2>10. MemoryOK'
    BY <2>5, <2>7, <2>8, <2>9 DEF MemoryOK, IsTable
  <2>11. IsTable(openRFQSTable', RFQData)
    BY <1>0, <2>3, <2>4, PutType DEF TablesOK
  <2>12. TablesOK'
    BY <1>0, <1>10, <2>11 DEF StoreOpenRFQ, TablesOK, IsTable
  <2>13. ListenerOK'
    BY <1>10, <2>1 DEF StoreOpenRFQ, ListenerOK
  <2> QED
    BY <1>0, <1>10, <2>10, <2>12, <2>13, PartsFrame, TypePartsPrime DEF StoreOpenRFQ
<1>11. CASE SubmitOpenRFQ
  <2>1. MainOK' /\ ListenerOK'
    BY <1>0, <1>11 DEF SubmitOpenRFQ, MainOK, ListenerOK
  <2> QED
    BY <1>0, <1>11, <2>1, PartsFrame, TypePartsPrime DEF SubmitOpenRFQ
<1>12. CASE HandleQuoteOrClose
  <2> DEFINE msg == [kind |-> IF listenerTx.type = "Quote" THEN "quote" ELSE "close",
                     id |-> listenerTx.id]
  <2>1. listenerTx \in Tx /\ listenerTx.type \in {"Quote", "OpenRFQ"}
    BY <1>0, <1>12 DEF HandleQuoteOrClose, ListenerOK
  <2>2. msg \in Broadcast
    BY <2>1 DEF Tx, Broadcast
  <2>3. broadcasts' = Append(broadcasts, msg)
    BY <1>12 DEF HandleQuoteOrClose
  <2> HIDE DEF msg
  <2>4. broadcasts' \in Seq(Broadcast)
    BY <1>0, <2>2, <2>3, AppendProperties
  <2>5. ListenerOK'
    BY <1>12 DEF HandleQuoteOrClose, ListenerOK
  <2> QED
    BY <1>0, <1>12, <2>4, <2>5, PartsFrame, TypePartsPrime DEF HandleQuoteOrClose
<1>13. CASE ManagerTick
  <2>1. ManagerOK'
    BY <1>0, <1>13, RFQAssumption DEF ManagerTick, ManagerOK
  <2> QED
    BY <1>0, <1>13, <2>1, PartsFrame, TypePartsPrime DEF ManagerTick
<1>14. CASE PopAuction
  <2>1. PICK p \in auctionQueue :
          /\ auctionQueue' = auctionQueue \ {p}
          /\ rfqData' = [rfqData EXCEPT ![p] = Close(rfqData[p])]
          /\ managerTx' = Close(rfqData[p])
    BY <1>14, Zenon DEF PopAuction, QueueHeads
  <2>2. p \in 1..Len(rfqData) /\ rfqData[p] \in RFQData
    BY <1>0, ElementOfSeq DEF MemoryOK
  <2>3. Close(rfqData[p]) \in RFQData
    BY <2>2 DEF RFQData, Close
  <2>4. rfqData' \in Seq(RFQData) /\ Len(rfqData') = Len(rfqData)
    BY <1>0, <2>1, <2>2, <2>3, ExceptSeq DEF MemoryOK
  <2>5. MemoryOK'
    BY <1>0, <1>14, <2>1, <2>4 DEF PopAuction, MemoryOK, IsTable
  <2>6. ManagerOK'
    BY <1>0, <1>14, <2>1, <2>3 DEF PopAuction, ManagerOK
  <2> QED
    BY <1>0, <1>14, <2>5, <2>6, PartsFrame, TypePartsPrime DEF PopAuction
<1>15. CASE NothingDue
  <2>1. ManagerOK'
    BY <1>15 DEF NothingDue, ManagerOK
  <2> QED
    BY <1>0, <1>15, <2>1, PartsFrame, TypePartsPrime DEF NothingDue
<1>16. CASE StoreClosedRFQ
  <2>1. managerTx \in RFQData
    BY <1>0, <1>16 DEF StoreClosedRFQ, ManagerOK
  <2>2. managerTx.ref \in RFQ
    BY <2>1 DEF RFQData
  <2>3. /\ closedRFQSTable' = Put(closedRFQSTable, managerTx.ref, managerTx)
        /\ openRFQS' = RemoveFirst(openRFQS, managerTx.ref)
        /\ openRFQsMap' = Delete(openRFQsMap, managerTx.ref)
    BY <1>16 DEF StoreClosedRFQ, WriteClosedRFQ
  <2>4. openRFQS' \in Seq(1..Len(rfqData))
    BY <1>0, <2>3, RemoveFirstType DEF MemoryOK
  <2>5. IsTable(openRFQsMap', 1..Len(rfqData))
    BY <1>0, <2>3, DeleteType DEF MemoryOK
  <2>6. MemoryOK'
    BY <1>0, <1>16, <2>4, <2>5 DEF StoreClosedRFQ, MemoryOK, IsTable
  <2>7. IsTable(closedRFQSTable', RFQData)
    BY <1>0, <2>1, <2>2, <2>3, PutType DEF TablesOK
  <2>8. TablesOK'
    BY <1>0, <1>16, <2>7 DEF StoreClosedRFQ, TablesOK, IsTable
  <2>9. ManagerOK'
    BY <1>0, <1>16, <2>1 DEF StoreClosedRFQ, ManagerOK
  <2> QED
    BY <1>0, <1>16, <2>6, <2>8, <2>9, PartsFrame, TypePartsPrime DEF StoreClosedRFQ
<1>17. CASE EmitClosedRFQ
  <2>1. managerTx \in RFQData
    BY <1>0, <1>17 DEF EmitClosedRFQ, ManagerOK
  <2>2. OpenRFQTx(managerTx.ref, managerTx.start) \in Tx
    BY <2>1 DEF OpenRFQTx, RFQData, Tx
  <2>3. ListenerOK' /\ ManagerOK'
    BY <1>0, <1>17, <2>2 DEF EmitClosedRFQ, ListenerOK, ManagerOK
  <2> QED
    BY <1>0, <1>17, <2>3, PartsFrame, TypePartsPrime DEF EmitClosedRFQ
<1>18. CASE UNCHANGED vars
  BY <1>0, <1>18, PartsFrame, TypePartsPrime DEF vars
<1> QED
  BY <1>1, <1>2, <1>3, <1>4, <1>5, <1>6, <1>7, <1>8, <1>9, <1>10, <1>11, <1>12,
     <1>13, <1>14, <1>15, <1>16, <1>17, <1>18
     DEF Next, Handle, Listen, Manage

\* TypeOK is an invariant: the goroutines carry well-formed transactions, the
\* pointers in list, map and queue point at allocated objects, and TxPool.Add
\* keeps the pool within maxLength.
THEOREM TypeCorrect == Spec => []TypeOK
BY InitTypeOK, NextTypeOK, PTL DEF Spec

----------------------------------------------------------------------------
(* What the two steps that change an existing RFQData object do to it *)

\* The parts of TypeOK that the other invariants rest on.
LEMMA ObjectTypes ==
  ASSUME TypeOK
  PROVE  /\ rfqData \in Seq(RFQData)
         /\ Len(rfqData) \in Nat /\ DOMAIN rfqData = 1..Len(rfqData)
         /\ \A p \in 1..Len(rfqData) : rfqData[p] \in RFQData
         /\ \A r \in DOMAIN openRFQsMap : openRFQsMap[r] \in 1..Len(rfqData)
         /\ auctionQueue \subseteq 1..Len(rfqData)
<1>1. /\ rfqData \in Seq(RFQData)
      /\ IsTable(openRFQsMap, 1..Len(rfqData))
      /\ auctionQueue \subseteq 1..Len(rfqData)
  BY DEF TypeOK
<1> QED
  BY <1>1, LenProperties, ElementOfSeq DEF IsTable

\* A handler that stores or appends carries a quote.
LEMMA HandlerTypes ==
  ASSUME TypeOK, NEW h \in Handler
  PROVE  /\ pc \in [Handler -> PcType]
         /\ body \in [Handler -> Tx \cup {None}]
         /\ pc[h] \in {"store", "update"}
              => body[h].type = "Quote" /\ body[h].id \in Quote
<1>1. /\ pc \in [Handler -> PcType]
      /\ body \in [Handler -> Tx \cup {None}]
      /\ pc[h] # "idle" => body[h] \in Tx
      /\ pc[h] \in {"store", "update"} => body[h].type = "Quote"
  BY DEF TypeOK
<1> QED
  BY <1>1 DEF Tx

\* UpdateActiveRFQ appends the handler's quote to the object its RFQ is mapped to.
LEMMA UpdateEffect ==
  ASSUME TypeOK, NEW h \in Handler, UpdateActiveRFQ(h)
  PROVE  /\ Len(rfqData') = Len(rfqData)
         /\ \A p \in 1..Len(rfqData) :
              /\ rfqData'[p].ref = rfqData[p].ref
              /\ rfqData'[p].start = rfqData[p].start
              /\ rfqData'[p].end = rfqData[p].end
              /\ \/ rfqData'[p].quotes = rfqData[p].quotes
                 \/ /\ RFQTxHash[body[h].id] \in DOMAIN openRFQsMap
                    /\ openRFQsMap[RFQTxHash[body[h].id]] = p
                    /\ rfqData'[p].quotes = Append(rfqData[p].quotes, body[h].id)
<1>0. /\ rfqData \in Seq(RFQData)
      /\ Len(rfqData) \in Nat /\ DOMAIN rfqData = 1..Len(rfqData)
      /\ \A p \in 1..Len(rfqData) : rfqData[p] \in RFQData
      /\ \A s \in DOMAIN openRFQsMap : openRFQsMap[s] \in 1..Len(rfqData)
  BY ObjectTypes
<1>1. body[h].id \in Quote
  <2>1. pc[h] = "update"
    BY DEF UpdateActiveRFQ
  <2> QED
    BY <2>1, HandlerTypes
<1> DEFINE r == RFQTxHash[body[h].id]
           q == body[h].id
<1>2. CASE r \in DOMAIN openRFQsMap
  <2>1. PICK m \in 1..Len(rfqData) : m = openRFQsMap[r]
    BY <1>0, <1>2
  <2>2. PICK new : new = AppendQuote(rfqData[m], q)
    BY Zenon
  <2>3. rfqData' = [rfqData EXCEPT ![m] = new]
    BY <1>2, <2>1, <2>2 DEF UpdateActiveRFQ
  <2> HIDE DEF r, q
  <2>4. /\ new.ref = rfqData[m].ref /\ new.start = rfqData[m].start
        /\ new.end = rfqData[m].end /\ new.quotes = Append(rfqData[m].quotes, q)
    <3>1. rfqData[m] \in RFQData /\ q \in Quote
      BY <1>0, <1>1 DEF q
    <3> QED
      BY <2>2, <3>1, AppendQuoteFields
  <2>5. /\ Len(rfqData') = Len(rfqData)
        /\ \A p \in 1..Len(rfqData) : rfqData'[p] = IF p = m THEN new ELSE rfqData[p]
    BY <1>0, <2>3
  <2>6. ASSUME NEW p \in 1..Len(rfqData)
        PROVE  /\ rfqData'[p].ref = rfqData[p].ref
               /\ rfqData'[p].start = rfqData[p].start
               /\ rfqData'[p].end = rfqData[p].end
               /\ \/ rfqData'[p].quotes = rfqData[p].quotes
                  \/ p = m /\ rfqData'[p].quotes = Append(rfqData[p].quotes, q)
    BY <2>4, <2>5
  <2> QED
    BY <1>2, <2>1, <2>5, <2>6, Zenon DEF r, q
<1>3. CASE r \notin DOMAIN openRFQsMap
  <2>1. rfqData' = rfqData
    BY <1>3 DEF UpdateActiveRFQ
  <2> QED
    BY <2>1
<1> QED
  BY <1>2, <1>3

\* Closing takes a due auction and copies it; the shared object keeps everything
\* but its status.
LEMMA PopEffect ==
  ASSUME TypeOK, PopAuction
  PROVE  /\ Len(rfqData') = Len(rfqData)
         /\ \A p \in 1..Len(rfqData) :
              /\ rfqData'[p].ref = rfqData[p].ref
              /\ rfqData'[p].start = rfqData[p].start
              /\ rfqData'[p].end = rfqData[p].end
              /\ rfqData'[p].quotes = rfqData[p].quotes
         /\ \E p \in 1..Len(rfqData) :
              /\ rfqData[p].end <= managerNow
              /\ managerTx'.ref = rfqData[p].ref
              /\ managerTx'.start = rfqData[p].start
              /\ managerTx'.end = rfqData[p].end
              /\ managerTx'.quotes = rfqData[p].quotes
<1>0. /\ rfqData \in Seq(RFQData)
      /\ Len(rfqData) \in Nat /\ DOMAIN rfqData = 1..Len(rfqData)
      /\ \A p \in 1..Len(rfqData) : rfqData[p] \in RFQData
      /\ \A s \in DOMAIN openRFQsMap : openRFQsMap[s] \in 1..Len(rfqData)
      /\ auctionQueue \subseteq 1..Len(rfqData)
  BY ObjectTypes
<1>1. PICK m \in auctionQueue :
        /\ rfqData[m].end <= managerNow
        /\ rfqData' = [rfqData EXCEPT ![m] = Close(rfqData[m])]
        /\ managerTx' = Close(rfqData[m])
  BY DEF PopAuction, QueueHeads, Due
<1> DEFINE new == Close(rfqData[m])
<1>2. m \in 1..Len(rfqData)
  BY <1>0
<1>3. /\ new.ref = rfqData[m].ref /\ new.start = rfqData[m].start
      /\ new.end = rfqData[m].end /\ new.quotes = rfqData[m].quotes
  BY <1>0, <1>2 DEF RFQData, Close
<1>4. rfqData' = [rfqData EXCEPT ![m] = new] /\ managerTx' = new
  BY <1>1
<1> HIDE DEF new
<1>5. /\ Len(rfqData') = Len(rfqData)
      /\ \A p \in 1..Len(rfqData) : rfqData'[p] = IF p = m THEN new ELSE rfqData[p]
  BY <1>0, <1>2, <1>4
<1> QED
  BY <1>1, <1>2, <1>3, <1>4, <1>5

\* Opening allocates one object and maps its RFQ to it.
LEMMA OpenEffect ==
  ASSUME TypeOK, StoreOpenRFQ
  PROVE  LET obj == NewRFQData(listenerTx.id, listenerTx.at)
             ptr == Len(rfqData) + 1
         IN  /\ Len(rfqData') = ptr /\ rfqData'[ptr] = obj
             /\ \A p \in 1..Len(rfqData) : rfqData'[p] = rfqData[p]
             /\ \A p \in 1..Len(rfqData') : p \in 1..Len(rfqData) \/ p = ptr
             /\ obj.ref = listenerTx.id /\ obj.quotes = <<>>
             /\ openRFQsMap' = Put(openRFQsMap, listenerTx.id, ptr)
             /\ openRFQSTable' = Put(openRFQSTable, listenerTx.id, obj)
<1> DEFINE obj == NewRFQData(listenerTx.id, listenerTx.at)
<1>1. obj.ref = listenerTx.id /\ obj.quotes = <<>>
  BY DEF NewRFQData
<1> HIDE DEF obj
<1>2. /\ rfqData' = Append(rfqData, obj)
      /\ openRFQsMap' = Put(openRFQsMap, listenerTx.id, Len(rfqData) + 1)
      /\ openRFQSTable' = Put(openRFQSTable, listenerTx.id, obj)
  BY <1>1 DEF StoreOpenRFQ, WriteOpenRFQ, obj
<1>3. rfqData \in Seq(RFQData) /\ Len(rfqData) \in Nat
  BY ObjectTypes
<1>4. /\ Len(rfqData') = Len(rfqData) + 1 /\ rfqData'[Len(rfqData) + 1] = obj
      /\ \A p \in 1..Len(rfqData) : rfqData'[p] = rfqData[p]
      /\ \A p \in 1..Len(rfqData') : p \in 1..Len(rfqData) \/ p = Len(rfqData) + 1
  BY <1>2, <1>3
<1> QED
  BY <1>1, <1>2, <1>4 DEF obj

----------------------------------------------------------------------------
(* A circular wait never ends *)

\* Main loop in EventChan <-, listener in txChan <-: every step that would move
\* one of the two needs the other to be in its select.
THEOREM CircularWaitForever == Spec => CircularWaitIsPermanent
<1>1. [Next]_vars => [CircularWait => CircularWait']_vars
  <2> SUFFICES ASSUME Next, CircularWait PROVE CircularWait'
    OBVIOUS
  <2> USE DEF CircularWait, mainVars, listenerVars
  <2>1. CASE Tick
    BY <2>1 DEF Tick
  <2>2. ASSUME NEW h \in Handler, Handle(h) PROVE CircularWait'
    BY <2>2 DEF Handle, PostRFQRequest, PostQuote, StoreQuote, SubmitTx, MainReady,
                UpdateActiveRFQ
  <2>3. CASE ProcessTransaction \/ EmitTxEvent
    BY <2>3 DEF ProcessTransaction, EmitTxEvent
  <2>4. CASE Listen
    BY <2>4 DEF Listen, HandleRFQRequest, StoreOpenRFQ, SubmitOpenRFQ, MainReady,
                HandleQuoteOrClose
  <2>5. CASE Manage
    BY <2>5 DEF Manage, ManagerTick, PopAuction, NothingDue, StoreClosedRFQ,
                EmitClosedRFQ
  <2> QED
    BY <2>1, <2>2, <2>3, <2>4, <2>5 DEF Next
<1> QED
  BY <1>1, PTL DEF Spec, CircularWaitIsPermanent

----------------------------------------------------------------------------
(* The stored records follow the life cycle *)

\* What the goroutines hold in their hands between two steps has already been
\* stored by the step before: a request on its way to the listener is in the
\* requests table, and every auction object is in the open table.
FlowInv ==
  /\ \A h \in Handler :
       /\ pc[h] = "submit" /\ body[h].type = "RFQRequest"
            => body[h].id \in rfqRequestsTable
       /\ pc[h] = "store" => RFQTxHash[body[h].id] \in DOMAIN openRFQSTable
       /\ pc[h] = "submit" => body[h].type # "OpenRFQ"
  /\ mainPc # "select" /\ mainTx.type = "RFQRequest"
       => mainTx.id \in rfqRequestsTable
  /\ listenerPc = "handle" /\ listenerTx.type = "RFQRequest"
       => listenerTx.id \in rfqRequestsTable
  /\ listenerPc = "store" => listenerTx.id \in rfqRequestsTable
  /\ \A p \in 1..Len(rfqData) : rfqData[p].ref \in DOMAIN openRFQSTable
  /\ managerPc = "store" => managerTx.ref \in DOMAIN openRFQSTable
  /\ RecordsFollowLifeCycle

\* A step that leaves what FlowInv reads alone keeps it.
LEMMA FlowFrame ==
  ASSUME FlowInv,
         UNCHANGED <<pc, body, mainPc, mainTx, listenerPc, listenerTx, managerPc,
                     managerTx, rfqData, openRFQsMap, tableVars>>
  PROVE  FlowInv'
BY DEF FlowInv, RecordsFollowLifeCycle, tableVars

\* Every step keeps the stages in order.
LEMMA NextFlowInv == TypeOK /\ FlowInv /\ [Next]_vars => FlowInv'
<1> SUFFICES ASSUME TypeOK, FlowInv, [Next]_vars
             PROVE  FlowInv'
  OBVIOUS
<1>1. CASE Tick
  BY <1>1, FlowFrame DEF Tick, handlerVars, mainVars, listenerVars, managerVars,
                         memoryVars
<1>2. ASSUME NEW h \in Handler, NEW r \in RFQ, PostRFQRequest(h, r)
      PROVE  FlowInv'
  BY <1>2, HandlerTypes
     DEF PostRFQRequest, WriteRFQRequest, RFQRequestTx, FlowInv,
         RecordsFollowLifeCycle, mainVars, listenerVars, managerVars, memoryVars
<1>3. ASSUME NEW h \in Handler, NEW q \in Quote, PostQuote(h, q)
      PROVE  FlowInv'
  BY <1>3, HandlerTypes
     DEF PostQuote, StillOpen, QuoteTx, FlowInv, RecordsFollowLifeCycle, mainVars,
         listenerVars, managerVars, memoryVars, tableVars
<1>4. ASSUME NEW h \in Handler, StoreQuote(h)
      PROVE  FlowInv'
  <2>1. body[h].type = "Quote"
    BY <1>4, HandlerTypes DEF StoreQuote
  <2>2. DOMAIN quotesTable' = DOMAIN quotesTable \cup {RFQTxHash[body[h].id]}
    BY <1>4 DEF StoreQuote, WriteQuote, Put
  <2> QED
    BY <1>4, <2>1, <2>2, HandlerTypes
       DEF StoreQuote, FlowInv, RecordsFollowLifeCycle, mainVars, listenerVars,
           managerVars, memoryVars
<1>5. ASSUME NEW h \in Handler, SubmitTx(h)
      PROVE  FlowInv'
  BY <1>5, HandlerTypes
     DEF SubmitTx, FlowInv, RecordsFollowLifeCycle, listenerVars, managerVars,
         memoryVars, tableVars
<1>6. ASSUME NEW h \in Handler, UpdateActiveRFQ(h)
      PROVE  FlowInv'
  <2>1. /\ \A g \in Handler : pc'[g] # "created" => pc'[g] = pc[g]
        /\ UNCHANGED <<body, mainVars, listenerVars, managerVars, tableVars,
                       openRFQsMap>>
    BY <1>6, HandlerTypes DEF UpdateActiveRFQ
  <2>2. \A p \in 1..Len(rfqData') : rfqData'[p].ref \in DOMAIN openRFQSTable
    BY <1>6, UpdateEffect DEF FlowInv
  <2> QED
    BY <2>1, <2>2 DEF FlowInv, RecordsFollowLifeCycle, mainVars, listenerVars,
                      managerVars, tableVars
<1>7. CASE ProcessTransaction
  BY <1>7 DEF ProcessTransaction, FlowInv, RecordsFollowLifeCycle, handlerVars,
              listenerVars, managerVars, memoryVars, tableVars
<1>8. CASE EmitTxEvent
  BY <1>8 DEF EmitTxEvent, FlowInv, RecordsFollowLifeCycle, handlerVars,
              managerVars, memoryVars, tableVars
<1>9. CASE HandleRFQRequest
  BY <1>9 DEF HandleRFQRequest, OpenRFQTx, FlowInv, RecordsFollowLifeCycle,
              handlerVars, mainVars, managerVars, memoryVars, tableVars
<1>10. CASE SubmitOpenRFQ
  <2>1. listenerTx.type = "OpenRFQ"
    BY <1>10 DEF SubmitOpenRFQ, TypeOK
  <2> QED
    BY <1>10, <2>1 DEF SubmitOpenRFQ, FlowInv, RecordsFollowLifeCycle, handlerVars,
                       managerVars, memoryVars, tableVars
<1>11. CASE HandleQuoteOrClose
  BY <1>11 DEF HandleQuoteOrClose, FlowInv, RecordsFollowLifeCycle, handlerVars,
               mainVars, managerVars, memoryVars, tableVars
<1>12. CASE StoreOpenRFQ
  <2>1. /\ DOMAIN openRFQSTable' = DOMAIN openRFQSTable \cup {listenerTx.id}
        /\ DOMAIN openRFQsMap' = DOMAIN openRFQsMap \cup {listenerTx.id}
    BY <1>12, OpenEffect DEF Put
  <2>2. \A p \in 1..Len(rfqData') : rfqData'[p].ref \in DOMAIN openRFQSTable'
    BY <1>12, <2>1, OpenEffect DEF FlowInv
  <2> QED
    BY <1>12, <2>1, <2>2
       DEF StoreOpenRFQ, FlowInv, RecordsFollowLifeCycle, handlerVars, mainVars,
           managerVars
<1>13. CASE ManagerTick
  BY <1>13 DEF ManagerTick, FlowInv, RecordsFollowLifeCycle, handlerVars, mainVars,
               listenerVars, memoryVars, tableVars
<1>14. CASE PopAuction
  <2>1. \A p \in 1..Len(rfqData') : rfqData'[p].ref \in DOMAIN openRFQSTable
    BY <1>14, PopEffect DEF FlowInv
  <2>2. managerTx'.ref \in DOMAIN openRFQSTable
    BY <1>14, PopEffect DEF FlowInv
  <2>3. UNCHANGED <<handlerVars, mainVars, listenerVars, openRFQsMap, tableVars>>
    BY <1>14 DEF PopAuction
  <2> QED
    BY <2>1, <2>2, <2>3 DEF FlowInv, RecordsFollowLifeCycle, handlerVars, mainVars,
                            listenerVars, tableVars
<1>15. CASE NothingDue
  BY <1>15 DEF NothingDue, FlowInv, RecordsFollowLifeCycle, handlerVars, mainVars,
               listenerVars, memoryVars, tableVars
<1>16. CASE StoreClosedRFQ
  <2>1. /\ DOMAIN closedRFQSTable' = DOMAIN closedRFQSTable \cup {managerTx.ref}
        /\ DOMAIN openRFQsMap' \subseteq DOMAIN openRFQsMap
    BY <1>16 DEF StoreClosedRFQ, WriteClosedRFQ, Put, Delete
  <2> QED
    BY <1>16, <2>1 DEF StoreClosedRFQ, FlowInv, RecordsFollowLifeCycle, handlerVars,
                       mainVars, listenerVars
<1>17. CASE EmitClosedRFQ
  BY <1>17 DEF EmitClosedRFQ, OpenRFQTx, FlowInv, RecordsFollowLifeCycle,
               handlerVars, mainVars, memoryVars, tableVars
<1>18. CASE UNCHANGED vars
  BY <1>18, FlowFrame DEF vars, handlerVars, mainVars, listenerVars, managerVars,
                          memoryVars
<1> QED
  BY <1>1, <1>2, <1>3, <1>4, <1>5, <1>6, <1>7, <1>8, <1>9, <1>10, <1>11, <1>12,
     <1>13, <1>14, <1>15, <1>16, <1>17, <1>18 DEF Next, Handle, Listen, Manage

LEMMA FlowIsKept == Spec => []FlowInv
<1>1. Init => FlowInv
  BY DEF Init, FlowInv, RecordsFollowLifeCycle
<1>2. QED
  BY <1>1, TypeCorrect, NextFlowInv, PTL DEF Spec

\* The tables never hold an RFQ at a later stage without its earlier stages,
\* for any number of concurrent handlers and any pool size.
THEOREM LifeCycle == Spec => []RecordsFollowLifeCycle
<1>1. FlowInv => RecordsFollowLifeCycle
  BY DEF FlowInv
<1>2. QED
  BY <1>1, FlowIsKept, PTL

----------------------------------------------------------------------------
(* An auction stays open for its duration *)

\* The durations for which no int64 wraps before the clock's bound.
BoundedDurations == \A r \in RFQ : RFQDurationMs[r] + MaxTime < Int64Sup

\* Below 2^63 the conversion to int64 changes nothing.
LEMMA ToInt64Exact ==
  ASSUME NEW n \in Nat, n < Int64Sup
  PROVE  ToInt64(n) = n
<1>1. Int64Sup \in Nat /\ n + Int64Sup \in 0..(2 * Int64Sup - 1)
  BY RFQAssumption
<1>2. (n + Int64Sup) % (2 * Int64Sup) = n + Int64Sup
  BY <1>1, SMT
<1> QED
  BY <1>1, <1>2 DEF ToInt64

\* With bounded durations createOpenRFQData's end time does not wrap.
LEMMA EndTimeExact ==
  ASSUME BoundedDurations, NEW r \in RFQ, NEW t \in 0..MaxTime
  PROVE  RFQEndTime(r, t) = t + RFQDurationMs[r]
<1>1. RFQDurationMs[r] \in Nat /\ MaxTime \in Nat /\ Int64Sup \in Nat
  BY RFQAssumption
<1>2. ToInt64(RFQDurationMs[r]) = RFQDurationMs[r]
  BY <1>1, ToInt64Exact DEF BoundedDurations
<1>3. ToInt64(t + RFQDurationMs[r]) = t + RFQDurationMs[r]
  BY <1>1, ToInt64Exact DEF BoundedDurations
<1> QED
  BY <1>2, <1>3 DEF RFQEndTime

EndsOnTime(d) == d.end = d.start + RFQDurationMs[d.ref]

\* The manager's reading of the clock is never ahead of it, and every object,
\* copy and stored snapshot carries the end time its start and duration give.
TimeInv ==
  /\ managerNow <= now
  /\ listenerPc = "store" => listenerTx.at \in 0..MaxTime
  /\ \A p \in 1..Len(rfqData) : EndsOnTime(rfqData[p])
  /\ managerPc = "store" => EndsOnTime(managerTx) /\ managerTx.end <= now
  /\ OpenForItsDuration

\* The times the invariant compares are integers.
LEMMA TimeTypes ==
  ASSUME TypeOK
  PROVE  /\ now \in 0..MaxTime /\ now \in Int /\ managerNow \in Int
         /\ \A p \in 1..Len(rfqData) : rfqData[p].end \in Int
         /\ managerPc = "store" => managerTx.end \in Int
         /\ \A r \in DOMAIN closedRFQSTable :
              closedRFQSTable[r].start \in Int /\ RFQDurationMs[r] \in Int
<1>1. /\ now \in StartTime..MaxTime /\ managerNow \in Nat
      /\ managerPc = "store" => managerTx \in RFQData
      /\ IsTable(closedRFQSTable, RFQData)
  BY DEF TypeOK
<1> QED
  BY <1>1, ObjectTypes, RFQAssumption DEF RFQData, IsTable

\* A step that may only read or advance the clock keeps TimeInv.
LEMMA TimeFrame ==
  ASSUME TimeInv, TypeOK,
         now' \in {now, now + 1},
         UNCHANGED <<rfqData, closedRFQSTable>>,
         managerNow' \in {0, managerNow, now},
         listenerPc' = "store"
           => UNCHANGED <<listenerPc, listenerTx>> \/ listenerTx'.at \in 0..MaxTime,
         managerPc' = "store" => UNCHANGED <<managerPc, managerTx>>
  PROVE  TimeInv'
BY TimeTypes DEF TimeInv, OpenForItsDuration, EndsOnTime

\* Every step keeps the end times exact and the closing late enough.
LEMMA NextTimeInv == BoundedDurations /\ TypeOK /\ TimeInv /\ [Next]_vars => TimeInv'
<1> SUFFICES ASSUME BoundedDurations, TypeOK, TimeInv, [Next]_vars
             PROVE  TimeInv'
  OBVIOUS
<1>1. CASE Tick
  BY <1>1, TimeFrame DEF Tick, listenerVars, managerVars, memoryVars, tableVars
<1>2. ASSUME NEW h \in Handler, Handle(h)
      PROVE  TimeInv'
  <2>1. UNCHANGED <<now, listenerVars, managerVars, closedRFQSTable>>
    BY <1>2, Zenon DEF Handle, PostRFQRequest, PostQuote, StoreQuote, SubmitTx,
                UpdateActiveRFQ, tableVars
  <2>2. CASE UpdateActiveRFQ(h)
    <3>1. \A p \in 1..Len(rfqData') : EndsOnTime(rfqData'[p])
      BY <2>2, UpdateEffect DEF TimeInv, EndsOnTime
    <3> QED
      BY <2>1, <3>1, Zenon DEF listenerVars, managerVars, TimeInv, OpenForItsDuration,
                        EndsOnTime
  <2>3. CASE ~UpdateActiveRFQ(h)
    <3>1. UNCHANGED rfqData
      BY <1>2, <2>3 DEF Handle, PostRFQRequest, PostQuote, StoreQuote, SubmitTx,
                        memoryVars
    <3> QED
      BY <2>1, <3>1, TimeFrame DEF listenerVars, managerVars
  <2> QED
    BY <2>2, <2>3
<1>3. CASE ProcessTransaction \/ EmitTxEvent \/ SubmitOpenRFQ \/ HandleQuoteOrClose
  BY <1>3, TimeFrame DEF ProcessTransaction, EmitTxEvent, SubmitOpenRFQ,
                         HandleQuoteOrClose, listenerVars, managerVars, memoryVars,
                         tableVars
<1>4. CASE HandleRFQRequest
  BY <1>4, TimeTypes, TimeFrame DEF HandleRFQRequest, OpenRFQTx, managerVars,
                                    memoryVars, tableVars
<1>5. CASE StoreOpenRFQ
  <2>1. listenerTx.id \in RFQ /\ listenerTx.at \in 0..MaxTime
    <3>1. listenerTx \in Tx /\ listenerTx.type = "OpenRFQ"
      BY <1>5 DEF StoreOpenRFQ, TypeOK
    <3> QED
      BY <1>5, <3>1 DEF StoreOpenRFQ, TimeInv, Tx
  <2>2. EndsOnTime(NewRFQData(listenerTx.id, listenerTx.at))
    BY <2>1, EndTimeExact DEF NewRFQData, EndsOnTime
  <2>3. \A p \in 1..Len(rfqData') : EndsOnTime(rfqData'[p])
    BY <1>5, <2>2, OpenEffect DEF TimeInv
  <2>4. /\ UNCHANGED <<now, managerPc, managerNow, managerTx, closedRFQSTable>>
        /\ listenerPc' # "store"
    BY <1>5 DEF StoreOpenRFQ, managerVars
  <2> QED
    BY <2>3, <2>4 DEF TimeInv, OpenForItsDuration, EndsOnTime
<1>6. CASE ManagerTick
  BY <1>6, TimeFrame DEF ManagerTick, listenerVars, memoryVars, tableVars
<1>7. CASE NothingDue
  BY <1>7, TimeFrame DEF NothingDue, listenerVars, memoryVars, tableVars
<1>8. CASE EmitClosedRFQ
  BY <1>8, TimeFrame DEF EmitClosedRFQ, listenerVars, memoryVars, tableVars
<1>9. CASE PopAuction
  <2>1. EndsOnTime(managerTx') /\ managerTx'.end <= now
    BY <1>9, TimeTypes, PopEffect DEF TimeInv, EndsOnTime
  <2>2. \A p \in 1..Len(rfqData') : EndsOnTime(rfqData'[p])
    BY <1>9, PopEffect DEF TimeInv, EndsOnTime
  <2>3. UNCHANGED <<now, managerNow, listenerPc, listenerTx, closedRFQSTable>>
    BY <1>9 DEF PopAuction, listenerVars, tableVars
  <2> QED
    BY <2>1, <2>2, <2>3 DEF TimeInv, OpenForItsDuration, EndsOnTime
<1>10. CASE StoreClosedRFQ
  <2>1. managerTx.start + RFQDurationMs[managerTx.ref] <= now
    BY <1>10 DEF StoreClosedRFQ, TimeInv, EndsOnTime
  <2>2. \A r \in DOMAIN closedRFQSTable' :
          closedRFQSTable'[r].start + RFQDurationMs[r] <= now
    BY <1>10, <2>1 DEF StoreClosedRFQ, WriteClosedRFQ, Put, TimeInv,
                       OpenForItsDuration
  <2>3. /\ UNCHANGED <<now, managerNow, listenerPc, listenerTx, rfqData>>
        /\ managerPc' # "store"
    BY <1>10 DEF StoreClosedRFQ, listenerVars
  <2> QED
    BY <2>2, <2>3 DEF TimeInv, OpenForItsDuration, EndsOnTime
<1>11. CASE UNCHANGED vars
  BY <1>11, TimeFrame DEF vars, listenerVars, managerVars, memoryVars, tableVars
<1> QED
  BY <1>1, <1>2, <1>3, <1>4, <1>5, <1>6, <1>7, <1>8, <1>9, <1>10, <1>11
     DEF Next, Listen, Manage

\* Unless a duration is so long that the end time wraps, no auction is closed
\* before its duration has passed.
THEOREM AuctionsStayOpen == BoundedDurations => (Spec => []OpenForItsDuration)
<1> SUFFICES ASSUME BoundedDurations PROVE Spec => []OpenForItsDuration
  OBVIOUS
<1>1. Init => TimeInv
  BY RFQAssumption, EmptySeq DEF Init, TimeInv, OpenForItsDuration
<1>2. TimeInv => OpenForItsDuration
  BY DEF TimeInv
<1>3. TypeOK /\ TimeInv /\ [Next]_vars => TimeInv'
  BY NextTimeInv
<1> QED
  BY <1>1, <1>2, <1>3, TypeCorrect, PTL DEF Spec

=============================================================================
