--------------------------- MODULE RFQLifeProofs ---------------------------
(***************************************************************************)
(* RFQAuction implements RFQLife for as long as the pool has room, for     *)
(* every set of RFQs, quotes and handlers, and every duration.             *)
(***************************************************************************)
EXTENDS RFQRefinement, RFQAuctionQuotes

----------------------------------------------------------------------------
(* Every RFQ is opened once *)

\* The pool remembers the request of r.
Remembered(r) == Contains(memPool, RFQRequestTx(r))

\* The request of r has been admitted, and the listener does not have it yet.
WithMain(r) == mainPc = "emit" /\ mainTx = RFQRequestTx(r)

\* The listener has the request of r and has not opened it yet.
WithListener(r) ==
  \/ listenerPc = "handle" /\ listenerTx = RFQRequestTx(r)
  \/ listenerPc = "store" /\ listenerTx.id = r

\* The transaction of a request is known by the RFQ alone.
RequestInv ==
  /\ \A h \in Handler :
       pc[h] = "submit" /\ body[h].type = "RFQRequest" => body[h] = RFQRequestTx(body[h].id)
  /\ mainPc # "select" /\ mainTx.type = "RFQRequest" => mainTx = RFQRequestTx(mainTx.id)
  /\ listenerPc = "handle" /\ listenerTx.type = "RFQRequest"
       => listenerTx = RFQRequestTx(listenerTx.id)

\* The request of an RFQ is in one place, and a pool that does not forget
\* admits no other.
PlaceInv ==
  \A r \in RFQ :
    /\ WithMain(r) \/ WithListener(r) \/ r \in DOMAIN openRFQSTable => Remembered(r)
    /\ ~ (WithMain(r) /\ WithListener(r))
    /\ r \in DOMAIN openRFQSTable => ~ WithMain(r) /\ ~ WithListener(r)

\* An RFQ that was opened is in the map until its only auction is closed.
AuctionInv ==
  /\ OpenedAtMostOnce
  /\ \A p \in auctionQueue : rfqData[p].ref \in DOMAIN openRFQsMap
  /\ managerPc = "store" => /\ managerTx.ref \in DOMAIN openRFQsMap
                            /\ \A p \in auctionQueue : rfqData[p].ref # managerTx.ref
  /\ DOMAIN openRFQSTable \subseteq DOMAIN openRFQsMap \cup DOMAIN closedRFQSTable

OnceInv == RequestInv /\ PlaceInv /\ AuctionInv

LEMMA RequestFields ==
  \A r : /\ RFQRequestTx(r).type = "RFQRequest" /\ RFQRequestTx(r).id = r
         /\ \A s : RFQRequestTx(r) = RFQRequestTx(s) => r = s
BY DEF RFQRequestTx

\* A pool with room remembers what it had and what is added.
LEMMA RoomRemembers ==
  ASSUME NEW S, NEW all \in Seq(S), Len(all) < MaxLength, NEW tx \in S
  PROVE  /\ Contains(AddToAll(all, tx), tx)
         /\ \A x : Contains(all, x) => Contains(AddToAll(all, tx), x)
<1>1. PruneOldest(all) = all
  BY DEF PruneOldest
<1>2. CASE Contains(all, tx)
  BY <1>1, <1>2 DEF AddToAll, SortedMapAdd
<1>3. CASE ~ Contains(all, tx)
  <2>1. AddToAll(all, tx) = Append(all, tx)
    BY <1>1, <1>3 DEF AddToAll, SortedMapAdd
  <2>2. /\ Len(Append(all, tx)) = Len(all) + 1 /\ Append(all, tx)[Len(all) + 1] = tx
        /\ \A i \in 1..Len(all) : Append(all, tx)[i] = all[i]
    BY AppendProperties
  <2>3. QED
    BY <2>1, <2>2 DEF Contains
<1>4. QED
  BY <1>2, <1>3

LEMMA InitOnceInv == Init => OnceInv
<1> SUFFICES ASSUME Init PROVE OnceInv
  OBVIOUS
<1>1. /\ pc = [h \in Handler |-> "idle"] /\ mainPc = "select" /\ listenerPc = "select"
      /\ managerPc = "wait" /\ rfqData = <<>> /\ auctionQueue = {} /\ openRFQSTable = <<>>
  BY DEF Init
<1>2. DOMAIN openRFQSTable = {} /\ DOMAIN rfqData = {}
  BY <1>1
<1>3. QED
  BY <1>1, <1>2 DEF OnceInv, RequestInv, PlaceInv, AuctionInv, WithMain, WithListener, OpenedAtMostOnce

\* Only handlers make requests, and channels hand them on as they are.
LEMMA NextRequestInv == TypeOK /\ RequestInv /\ [Next]_vars => RequestInv'
<1> SUFFICES ASSUME TypeOK, RequestInv, [Next]_vars PROVE RequestInv'
  OBVIOUS
<1> USE DEF RequestInv
<1>1. ASSUME NEW h \in Handler, NEW r \in RFQ, PostRFQRequest(h, r) PROVE RequestInv'
  BY <1>1, HandlerTypes, RequestFields DEF PostRFQRequest, mainVars, listenerVars
<1>2. ASSUME NEW h \in Handler, NEW q \in Quote, PostQuote(h, q) PROVE RequestInv'
  BY <1>2, HandlerTypes DEF PostQuote, QuoteTx, mainVars, listenerVars
<1>3. ASSUME NEW h \in Handler, StoreQuote(h) PROVE RequestInv'
  BY <1>3, HandlerTypes DEF StoreQuote, mainVars, listenerVars
<1>4. ASSUME NEW h \in Handler, SubmitTx(h) PROVE RequestInv'
  BY <1>4, HandlerTypes DEF SubmitTx, listenerVars
<1>5. ASSUME NEW h \in Handler, UpdateActiveRFQ(h) PROVE RequestInv'
  <2>1. /\ \A g \in Handler : pc'[g] # "created" => pc'[g] = pc[g]
        /\ UNCHANGED <<body, mainPc, mainTx, listenerPc, listenerTx>>
    BY <1>5, HandlerTypes DEF UpdateActiveRFQ, mainVars, listenerVars
  <2>2. QED
    BY <2>1
<1>6. CASE ProcessTransaction
  BY <1>6 DEF ProcessTransaction, handlerVars, listenerVars
<1>7. CASE EmitTxEvent
  BY <1>7 DEF EmitTxEvent, handlerVars
<1>8. CASE Listen
  <2>1. listenerPc = "submit" => listenerTx.type = "OpenRFQ"
    BY DEF TypeOK
  <2>2. QED
    BY <1>8, <2>1 DEF Listen, HandleRFQRequest, StoreOpenRFQ, SubmitOpenRFQ, HandleQuoteOrClose,
                      handlerVars, mainVars
<1>9. CASE EmitClosedRFQ
  BY <1>9 DEF EmitClosedRFQ, OpenRFQTx, handlerVars, mainVars
<1>10. CASE Tick \/ ManagerTick \/ PopAuction \/ NothingDue \/ StoreClosedRFQ \/ UNCHANGED vars
  BY <1>10 DEF Tick, ManagerTick, PopAuction, NothingDue, StoreClosedRFQ, vars, handlerVars,
               mainVars, listenerVars
<1>11. QED
  BY <1>1, <1>2, <1>3, <1>4, <1>5, <1>6, <1>7, <1>8, <1>9, <1>10 DEF Next, Handle, Manage

\* A step that moves no request and leaves the open table and the pool alone.
LEMMA PlaceFrame ==
  ASSUME PlaceInv,
         \A r \in RFQ : (WithMain(r)' => WithMain(r)) /\ (WithListener(r)' => WithListener(r)),
         \A r \in RFQ : Remembered(r) => Remembered(r)',
         openRFQSTable' = openRFQSTable
  PROVE  PlaceInv'
BY DEF PlaceInv

LEMMA ProcessPlace ==
  ASSUME TypeOK, PoolHasRoom, RequestInv, PlaceInv, ProcessTransaction PROVE PlaceInv'
<1>1. /\ mainPc = "process" /\ mainTx \in Tx /\ memPool \in Seq(Tx)
      /\ UNCHANGED <<listenerPc, listenerTx, openRFQSTable>>
  BY DEF ProcessTransaction, TypeOK, listenerVars, tableVars
<1>2. \A r \in RFQ : WithListener(r)' = WithListener(r) /\ ~ WithMain(r)
  BY <1>1 DEF WithListener, WithMain
<1>3. CASE Contains(memPool, mainTx)
  <2>1. mainPc' = "select" /\ memPool' = memPool
    BY <1>3 DEF ProcessTransaction
  <2>2. QED
    BY <1>1, <1>2, <2>1, PlaceFrame DEF WithMain, Remembered
<1>4. CASE ~ Contains(memPool, mainTx)
  <2>1. /\ memPool' = AddToAll(memPool, mainTx)
        /\ mainPc' = "emit" => mainTx' = mainTx
    BY <1>4 DEF ProcessTransaction
  <2>2. Contains(memPool', mainTx) /\ \A x : Contains(memPool, x) => Contains(memPool', x)
    BY <1>1, <2>1, RoomRemembers DEF PoolHasRoom
  <2>3. ASSUME NEW r \in RFQ, WithMain(r)'
        PROVE  Remembered(r)' /\ ~ Remembered(r)
    BY <1>4, <2>1, <2>2, <2>3 DEF WithMain, Remembered
  <2>4. \A r \in RFQ : Remembered(r) => Remembered(r)'
    BY <2>2 DEF Remembered
  <2>5. QED
    BY <1>1, <1>2, <2>3, <2>4 DEF PlaceInv
<1>5. QED
  BY <1>3, <1>4

LEMMA EmitPlace ==
  ASSUME PlaceInv, EmitTxEvent PROVE PlaceInv'
<1>1. /\ mainPc = "emit" /\ mainPc' = "select" /\ listenerPc = "select" /\ listenerPc' = "handle"
      /\ listenerTx' = mainTx /\ UNCHANGED <<memPool, openRFQSTable>>
  BY DEF EmitTxEvent, tableVars
<1>2. \A r \in RFQ : ~ WithMain(r)' /\ (WithListener(r)' => WithMain(r)) /\ Remembered(r)' = Remembered(r)
  BY <1>1 DEF WithMain, WithListener, Remembered
<1>3. QED
  BY <1>1, <1>2 DEF PlaceInv

LEMMA ListenPlace ==
  ASSUME TypeOK, RequestInv, PlaceInv, Listen PROVE PlaceInv'
<1>1. memPool' = memPool /\ \A r : Remembered(r)' = Remembered(r)
  BY DEF Listen, HandleRFQRequest, StoreOpenRFQ, SubmitOpenRFQ, HandleQuoteOrClose, Remembered
<1>2. CASE HandleRFQRequest
  <2>1. /\ listenerPc = "handle" /\ listenerPc' = "store" /\ listenerTx = RFQRequestTx(listenerTx.id)
        /\ listenerTx'.id = listenerTx.id /\ UNCHANGED <<mainPc, mainTx, openRFQSTable>>
    BY <1>2 DEF HandleRFQRequest, RequestInv, OpenRFQTx, mainVars, tableVars
  <2>2. \A r \in RFQ : WithMain(r)' = WithMain(r) /\ (WithListener(r)' => WithListener(r))
    BY <2>1, RequestFields DEF WithMain, WithListener
  <2>3. QED
    BY <1>1, <2>1, <2>2, PlaceFrame
<1>3. CASE StoreOpenRFQ
  <2>1. /\ listenerPc = "store" /\ listenerPc' = "submit" /\ UNCHANGED <<mainPc, mainTx>>
        /\ DOMAIN openRFQSTable' = DOMAIN openRFQSTable \cup {listenerTx.id}
    BY <1>3, OpenEffect DEF StoreOpenRFQ, Put, mainVars
  <2>2. \A r \in RFQ : WithMain(r)' = WithMain(r) /\ ~ WithListener(r)'
    BY <2>1 DEF WithMain, WithListener
  <2>3. WithListener(listenerTx.id)
    BY <2>1 DEF WithListener
  <2>4. QED
    BY <1>1, <2>1, <2>2, <2>3 DEF PlaceInv
<1>4. CASE SubmitOpenRFQ
  <2>1. /\ mainPc' = "process" /\ listenerPc' = "select" /\ openRFQSTable' = openRFQSTable
    BY <1>4 DEF SubmitOpenRFQ, tableVars
  <2>2. QED
    BY <1>1, <2>1, PlaceFrame DEF WithMain, WithListener
<1>5. CASE HandleQuoteOrClose
  <2>1. /\ UNCHANGED <<mainPc, mainTx, openRFQSTable>> /\ listenerPc' = "select"
    BY <1>5 DEF HandleQuoteOrClose, mainVars, tableVars
  <2>2. QED
    BY <1>1, <2>1, PlaceFrame DEF WithMain, WithListener
<1>6. QED
  BY <1>2, <1>3, <1>4, <1>5 DEF Listen

LEMMA NextPlaceInv ==
  TypeOK /\ PoolHasRoom /\ RequestInv /\ PlaceInv /\ [Next]_vars => PlaceInv'
<1> SUFFICES ASSUME TypeOK, PoolHasRoom, RequestInv, PlaceInv, [Next]_vars PROVE PlaceInv'
  OBVIOUS
<1>1. CASE UNCHANGED <<memPool, openRFQSTable, listenerPc, listenerTx>> /\ (UNCHANGED <<mainPc, mainTx>> \/ mainPc' = "process")
  BY <1>1, PlaceFrame DEF WithMain, WithListener, Remembered
<1>2. ASSUME NEW h \in Handler, Handle(h) PROVE PlaceInv'
  BY <1>1, <1>2 DEF Handle, PostRFQRequest, PostQuote, StoreQuote, SubmitTx, UpdateActiveRFQ,
                    mainVars, listenerVars, tableVars
<1>3. CASE EmitClosedRFQ
  <2>1. /\ listenerPc' = "handle" /\ listenerTx'.type = "OpenRFQ"
        /\ UNCHANGED <<mainPc, mainTx, memPool, openRFQSTable>>
    BY <1>3 DEF EmitClosedRFQ, OpenRFQTx, mainVars, tableVars
  <2>2. \A r \in RFQ : WithMain(r)' = WithMain(r) /\ ~ WithListener(r)' /\ Remembered(r)' = Remembered(r)
    BY <2>1, RequestFields DEF WithMain, WithListener, Remembered
  <2>3. QED
    BY <2>1, <2>2, PlaceFrame
<1>4. CASE Tick \/ ManagerTick \/ PopAuction \/ NothingDue \/ StoreClosedRFQ \/ UNCHANGED vars
  BY <1>1, <1>4 DEF Tick, ManagerTick, PopAuction, NothingDue, StoreClosedRFQ, vars, mainVars,
                    listenerVars, tableVars
<1>5. QED
  BY <1>2, <1>3, <1>4, ProcessPlace, EmitPlace, ListenPlace DEF Next, Manage

\* A step that leaves the RFQs of the objects, the queue, the map and the tables
\* alone.
LEMMA AuctionFrame ==
  ASSUME TypeOK, AuctionInv,
         DOMAIN rfqData' = DOMAIN rfqData,
         \A p \in DOMAIN rfqData : rfqData'[p].ref = rfqData[p].ref,
         managerPc' = "store" => managerPc = "store" /\ managerTx' = managerTx,
         UNCHANGED <<auctionQueue, openRFQsMap, openRFQSTable, closedRFQSTable>>
  PROVE  AuctionInv'
<1>1. auctionQueue \subseteq DOMAIN rfqData
  BY ObjectTypes
<1>2. QED
  BY <1>1 DEF AuctionInv, OpenedAtMostOnce

LEMMA OpenAuction ==
  ASSUME TypeOK, FlowInv, PlaceInv, AuctionInv, StoreOpenRFQ PROVE AuctionInv'
<1>1. PICK r, n : r = listenerTx.id /\ n = Len(rfqData)
  BY Zenon
<1>2. /\ n \in Nat /\ DOMAIN rfqData = 1..n /\ auctionQueue \subseteq 1..n
      /\ \A p \in 1..n : rfqData[p].ref \in DOMAIN openRFQSTable
  BY <1>1, ObjectTypes DEF FlowInv
<1>3. r \notin DOMAIN openRFQSTable
  <2>1. listenerPc = "store" /\ r \in RFQ
    BY <1>1 DEF StoreOpenRFQ, TypeOK, Tx
  <2>2. WithListener(r)
    BY <1>1, <2>1 DEF WithListener
  <2>3. QED
    BY <2>1, <2>2 DEF PlaceInv
<1>4. /\ Len(rfqData') = n + 1 /\ rfqData'[n + 1].ref = r
      /\ \A p \in 1..n : rfqData'[p] = rfqData[p]
  BY <1>1, OpenEffect
<1>5. /\ DOMAIN openRFQsMap' = DOMAIN openRFQsMap \cup {r}
      /\ DOMAIN openRFQSTable' = DOMAIN openRFQSTable \cup {r}
  BY <1>1, OpenEffect DEF Put
<1>6. /\ auctionQueue' = auctionQueue \cup {n + 1}
      /\ UNCHANGED <<managerPc, managerTx, closedRFQSTable>>
  BY <1>1 DEF StoreOpenRFQ, WriteOpenRFQ, managerVars
<1>7. DOMAIN rfqData' = 1..(n + 1)
  <2>1. rfqData' \in Seq(RFQData)
    BY NextTypeOK DEF Next, Listen, TypeOK
  <2>2. QED
    BY <1>4, <2>1, LenProperties
<1>8. managerPc = "store" => managerTx.ref \in DOMAIN openRFQSTable
  BY DEF FlowInv
<1>9. OpenedAtMostOnce'
  <2>1. \A p1, p2 \in 1..n : rfqData[p1].ref = rfqData[p2].ref => p1 = p2
    BY <1>2 DEF AuctionInv, OpenedAtMostOnce
  <2>2. \A p1, p2 \in 1..(n + 1) : rfqData'[p1].ref = rfqData'[p2].ref => p1 = p2
    BY <1>2, <1>3, <1>4, <2>1
  <2>3. QED
    BY <1>7, <2>2 DEF OpenedAtMostOnce
<1>10. \A p \in auctionQueue : p \in 1..n /\ rfqData'[p] = rfqData[p]
  BY <1>2, <1>4
<1>11. QED
  BY <1>2, <1>3, <1>4, <1>5, <1>6, <1>8, <1>9, <1>10 DEF AuctionInv

LEMMA PopInv ==
  ASSUME TypeOK, AuctionInv, PopAuction PROVE AuctionInv'
<1>1. PICK m \in auctionQueue : /\ auctionQueue' = auctionQueue \ {m}
                                /\ managerTx' = Close(rfqData[m])
  BY DEF PopAuction, QueueHeads
<1>2. /\ auctionQueue \subseteq 1..Len(rfqData) /\ DOMAIN rfqData = 1..Len(rfqData)
      /\ rfqData[m] \in RFQData
  BY ObjectTypes
<1>3. managerTx'.ref = rfqData[m].ref
  BY <1>1, <1>2 DEF Close, RFQData
<1>4. \A p \in 1..Len(rfqData) : rfqData'[p].ref = rfqData[p].ref
  BY PopEffect
<1>5. DOMAIN rfqData' = 1..Len(rfqData)
  <2>1. rfqData' \in Seq(RFQData)
    BY NextTypeOK DEF Next, Manage, TypeOK
  <2>2. QED
    BY <2>1, PopEffect, LenProperties
<1>6. UNCHANGED <<openRFQsMap, openRFQSTable, closedRFQSTable>>
  BY DEF PopAuction, tableVars
<1>7. QED
  BY <1>1, <1>2, <1>3, <1>4, <1>5, <1>6 DEF AuctionInv, OpenedAtMostOnce

LEMMA CloseInv ==
  ASSUME AuctionInv, StoreClosedRFQ PROVE AuctionInv'
<1>1. /\ DOMAIN closedRFQSTable' = DOMAIN closedRFQSTable \cup {managerTx.ref}
      /\ DOMAIN openRFQsMap' = DOMAIN openRFQsMap \ {managerTx.ref}
      /\ managerPc = "store" /\ managerPc' = "emit"
      /\ UNCHANGED <<rfqData, auctionQueue, openRFQSTable>>
  BY DEF StoreClosedRFQ, WriteClosedRFQ, Put, Delete
<1>2. QED
  BY <1>1 DEF AuctionInv, OpenedAtMostOnce

LEMMA NextAuctionInv ==
  TypeOK /\ FlowInv /\ PlaceInv /\ AuctionInv /\ [Next]_vars => AuctionInv'
<1> SUFFICES ASSUME TypeOK, FlowInv, PlaceInv, AuctionInv, [Next]_vars PROVE AuctionInv'
  OBVIOUS
<1>1. CASE /\ UNCHANGED <<rfqData, auctionQueue, openRFQsMap, openRFQSTable, closedRFQSTable>>
           /\ UNCHANGED <<managerPc, managerTx>> \/ managerPc' # "store"
  BY <1>1, AuctionFrame
<1>2. ASSUME NEW h \in Handler, UpdateActiveRFQ(h) PROVE AuctionInv'
  <2>1. rfqData' \in Seq(RFQData)
    BY <1>2, NextTypeOK DEF Next, Handle, TypeOK
  <2>2. /\ DOMAIN rfqData' = DOMAIN rfqData
        /\ \A p \in DOMAIN rfqData : rfqData'[p].ref = rfqData[p].ref
    BY <1>2, <2>1, UpdateEffect, ObjectTypes, LenProperties
  <2>3. UNCHANGED <<managerPc, managerTx, auctionQueue, openRFQsMap, openRFQSTable, closedRFQSTable>>
    BY <1>2 DEF UpdateActiveRFQ, managerVars, tableVars
  <2>4. QED
    BY <2>2, <2>3, AuctionFrame
<1>3. ASSUME NEW h \in Handler, Handle(h) PROVE AuctionInv'
  <2>1. CASE UpdateActiveRFQ(h)
    BY <1>2, <2>1
  <2>2. CASE StoreQuote(h) \/ SubmitTx(h)
    BY <1>1, <2>2 DEF StoreQuote, SubmitTx, managerVars, memoryVars, tableVars
  <2>3. ASSUME NEW r \in RFQ, PostRFQRequest(h, r) PROVE AuctionInv'
    BY <1>1, <2>3 DEF PostRFQRequest, managerVars, memoryVars
  <2>4. ASSUME NEW q \in Quote, PostQuote(h, q) PROVE AuctionInv'
    BY <1>1, <2>4 DEF PostQuote, managerVars, memoryVars, tableVars
  <2>5. QED
    BY <1>3, <2>1, <2>2, <2>3, <2>4 DEF Handle
<1>4. CASE Tick \/ ProcessTransaction \/ EmitTxEvent \/ UNCHANGED vars
  BY <1>1, <1>4 DEF Tick, ProcessTransaction, EmitTxEvent, vars, managerVars, memoryVars, tableVars
<1>5. CASE HandleRFQRequest \/ SubmitOpenRFQ \/ HandleQuoteOrClose
  BY <1>1, <1>5 DEF HandleRFQRequest, SubmitOpenRFQ, HandleQuoteOrClose, managerVars, memoryVars, tableVars
<1>6. CASE ManagerTick \/ NothingDue \/ EmitClosedRFQ
  BY <1>1, <1>6 DEF ManagerTick, NothingDue, EmitClosedRFQ, memoryVars, tableVars
<1>7. QED
  BY <1>3, <1>4, <1>5, <1>6, OpenAuction, PopInv, CloseInv DEF Next, Listen, Manage

----------------------------------------------------------------------------
(* The steps of an RFQ's life *)

LEMMA LifeFrame ==
  ASSUME UNCHANGED <<openRFQsMap, rfqRequestsTable, closedRFQSTable, quotesTable>>
  PROVE  UNCHANGED Life!vars
BY DEF Life!vars, Phase, Result, StoredQuotes

LEMMA RequestStep ==
  ASSUME FlowInv, NEW h \in Handler, NEW r \in RFQ, PostRFQRequest(h, r), r \notin rfqRequestsTable,
         rfqRequestsTable' = rfqRequestsTable \cup {r}
  PROVE  Life!Request(r)
<1>1. UNCHANGED <<openRFQsMap, closedRFQSTable, quotesTable>>
  BY DEF PostRFQRequest, memoryVars
<1>2. r \notin DOMAIN openRFQsMap /\ r \notin DOMAIN closedRFQSTable
  BY DEF FlowInv, RecordsFollowLifeCycle
<1>3. Phase(r) = "none" /\ Phase(r)' = "requested" /\ \A s \in RFQ \ {r} : Phase(s)' = Phase(s)
  BY <1>1, <1>2 DEF Phase
<1>4. \A s : Result(s)' = Result(s) /\ StoredQuotes(s)' = StoredQuotes(s)
  BY <1>1 DEF Result, StoredQuotes
<1>5. QED
  BY <1>3, <1>4, Zenon DEF Life!Request, Life!Moves

LEMMA RecordStep ==
  ASSUME TypeOK, FlowInv, AuctionInv, NEW h \in Handler, StoreQuote(h)
  PROVE  Life!Record(RFQTxHash[body[h].id], body[h].id) /\ body[h].id \in Quote
<1>1. UNCHANGED <<openRFQsMap, rfqRequestsTable, closedRFQSTable>> /\ pc[h] = "store"
  BY DEF StoreQuote, memoryVars
<1>2. PICK q \in Quote : q = body[h].id
  BY <1>1, HandlerTypes
<1>3. PICK r \in RFQ : r = RFQTxHash[q] /\ r \in DOMAIN openRFQSTable
  BY <1>1, <1>2, RFQAssumption DEF FlowInv
<1>4. r \in DOMAIN openRFQsMap \cup DOMAIN closedRFQSTable
  BY <1>3 DEF AuctionInv
<1>5. Phase(r) \in {"open", "closed"} /\ \A s : Phase(s)' = Phase(s) /\ Result(s)' = Result(s)
  BY <1>1, <1>4 DEF Phase, Result
<1>6. /\ StoredQuotes(r)' = Append(StoredQuotes(r), q)
      /\ \A s : s # r => StoredQuotes(s)' = StoredQuotes(s)
  BY <1>2, <1>3 DEF StoreQuote, WriteQuote, Put, StoredQuotes
<1>7. Life!Record(r, q)
  BY <1>5, <1>6, Zenon DEF Life!Record
<1>8. QED
  BY <1>2, <1>3, <1>7

LEMMA OpenStep ==
  ASSUME TypeOK, FlowInv, PlaceInv, StoreOpenRFQ
  PROVE  \E r \in RFQ : Life!Open(r)
<1>1. PICK r \in RFQ : r = listenerTx.id /\ listenerPc = "store"
  BY DEF StoreOpenRFQ, TypeOK, Tx
<1>2. /\ DOMAIN openRFQsMap' = DOMAIN openRFQsMap \cup {r}
      /\ UNCHANGED <<rfqRequestsTable, closedRFQSTable, quotesTable>>
  BY <1>1, OpenEffect DEF StoreOpenRFQ, Put
<1>3. r \in rfqRequestsTable /\ r \notin DOMAIN openRFQSTable
  <2>1. WithListener(r)
    BY <1>1 DEF WithListener
  <2>2. QED
    BY <1>1, <2>1 DEF PlaceInv, FlowInv
<1>4. r \notin DOMAIN openRFQsMap /\ r \notin DOMAIN closedRFQSTable
  BY <1>3 DEF FlowInv, RecordsFollowLifeCycle
<1>5. Phase(r) = "requested" /\ Phase(r)' = "open" /\ \A s \in RFQ \ {r} : Phase(s)' = Phase(s)
  BY <1>2, <1>3, <1>4 DEF Phase
<1>6. \A s : Result(s)' = Result(s) /\ StoredQuotes(s)' = StoredQuotes(s)
  BY <1>2 DEF Result, StoredQuotes
<1>7. Life!Open(r)
  BY <1>5, <1>6, Zenon DEF Life!Open, Life!Moves
<1>8. QED
  BY <1>7

LEMMA CloseStep ==
  ASSUME TypeOK, QuoteInv, AuctionInv, StoreClosedRFQ
  PROVE  \E r \in RFQ : Life!Close(r)
<1>1. PICK r \in RFQ, rec \in RFQData : rec = managerTx /\ r = rec.ref /\ managerPc = "store"
  BY DEF StoreClosedRFQ, TypeOK, RFQData
<1>2. /\ closedRFQSTable' = Put(closedRFQSTable, r, rec)
      /\ DOMAIN openRFQsMap' = DOMAIN openRFQsMap \ {r}
      /\ UNCHANGED <<rfqRequestsTable, quotesTable>>
  BY <1>1 DEF StoreClosedRFQ, WriteClosedRFQ, Delete
<1>3. /\ DOMAIN closedRFQSTable' = DOMAIN closedRFQSTable \cup {r} /\ closedRFQSTable'[r] = rec
      /\ \A s \in DOMAIN closedRFQSTable : s # r => closedRFQSTable'[s] = closedRFQSTable[s]
  BY <1>2 DEF Put
<1>4. r \in DOMAIN openRFQsMap
  BY <1>1 DEF AuctionInv
<1>5. Phase(r) = "open" /\ Phase(r)' = "closed" /\ \A s \in RFQ \ {r} : Phase(s)' = Phase(s)
  BY <1>2, <1>3, <1>4 DEF Phase
<1>6. PICK S : S = {rec.quotes[i] : i \in DOMAIN rec.quotes}
  BY Zenon
<1>7. Result(r)' = S /\ \A s \in RFQ \ {r} : Result(s)' = Result(s)
  BY <1>3, <1>6, Zenon DEF Result
<1>8. S \subseteq {StoredQuotes(r)[i] : i \in DOMAIN StoredQuotes(r)}
  <2>1. QuotesRecorded(r, rec.quotes)
    BY <1>1 DEF QuoteInv
  <2>2. DOMAIN rec.quotes = 1..Len(rec.quotes) /\ DOMAIN StoredQuotes(r) = 1..Len(StoredQuotes(r))
    BY <1>1, EmptySeq, LenProperties DEF RFQData, StoredQuotes, TypeOK, IsTable
  <2>3. ASSUME NEW x \in S PROVE x \in {StoredQuotes(r)[i] : i \in DOMAIN StoredQuotes(r)}
    <3>1. PICK i \in DOMAIN rec.quotes : x = rec.quotes[i]
      BY <1>6, Zenon
    <3>2. PICK k \in 1..Len(StoredQuotes(r)) : StoredQuotes(r)[k] = rec.quotes[i]
      BY <2>1, <2>2 DEF QuotesRecorded, Contains
    <3>3. QED
      BY <2>2, <3>1, <3>2, Zenon
  <2>4. QED
    BY <2>3, Zenon
<1>9. \A s : StoredQuotes(s)' = StoredQuotes(s)
  BY <1>2 DEF StoredQuotes
<1>10. Life!Close(r)
  <2>1. Life!Moves(r, "open", "closed")
    BY <1>5, Zenon DEF Life!Moves
  <2>2. [s \in RFQ |-> Result(s)]' = [[s \in RFQ |-> Result(s)] EXCEPT ![r] = S]
    BY <1>7, Zenon
  <2>3. S \in SUBSET Life!Range([s \in RFQ |-> StoredQuotes(s)][r])
    <3>1. [s \in RFQ |-> StoredQuotes(s)][r] = StoredQuotes(r)
      BY Zenon
    <3>2. QED
      BY <1>8, <3>1, Zenon DEF Life!Range
  <2>4. [s \in RFQ |-> StoredQuotes(s)]' = [s \in RFQ |-> StoredQuotes(s)]
    BY <1>9, Zenon
  <2>5. QED
    BY <2>1, <2>2, <2>3, <2>4, Zenon DEF Life!Close
<1>11. QED
  BY <1>10

LEMMA NextIsLife ==
  ASSUME TypeOK, FlowInv, QuoteInv, PlaceInv, AuctionInv, [Next]_vars
  PROVE  [Life!Next]_Life!vars
<1>1. CASE UNCHANGED <<openRFQsMap, rfqRequestsTable, closedRFQSTable, quotesTable>>
  BY <1>1, LifeFrame
<1>2. ASSUME NEW h \in Handler, Handle(h) PROVE [Life!Next]_Life!vars
  <2>1. ASSUME NEW r \in RFQ, PostRFQRequest(h, r) PROVE [Life!Next]_Life!vars
    <3>1. UNCHANGED <<openRFQsMap, closedRFQSTable, quotesTable>>
      BY <2>1 DEF PostRFQRequest, memoryVars
    <3>2. rfqRequestsTable' \in {rfqRequestsTable, rfqRequestsTable \cup {r}}
      BY <2>1 DEF PostRFQRequest, WriteRFQRequest
    <3>3. CASE rfqRequestsTable' = rfqRequestsTable
      BY <1>1, <3>1, <3>3
    <3>4. CASE rfqRequestsTable' # rfqRequestsTable
      <4>1. rfqRequestsTable' = rfqRequestsTable \cup {r} /\ r \notin rfqRequestsTable
        BY <3>2, <3>4
      <4>2. QED
        BY <2>1, <4>1, RequestStep DEF Life!Next
    <3>5. QED
      BY <3>3, <3>4
  <2>2. CASE StoreQuote(h)
    <3>1. body[h].id \in Quote /\ Life!Record(RFQTxHash[body[h].id], body[h].id)
      BY <2>2, RecordStep
    <3>2. RFQTxHash[body[h].id] \in RFQ
      BY <3>1, RFQAssumption
    <3>3. QED
      BY <3>1, <3>2 DEF Life!Next
  <2>3. CASE SubmitTx(h) \/ UpdateActiveRFQ(h) \/ \E q \in Quote : PostQuote(h, q)
    BY <1>1, <2>3 DEF SubmitTx, UpdateActiveRFQ, PostQuote, memoryVars, tableVars
  <2>4. QED
    BY <1>2, <2>1, <2>2, <2>3 DEF Handle
<1>3. CASE StoreOpenRFQ
  BY <1>3, OpenStep DEF Life!Next
<1>4. CASE StoreClosedRFQ
  BY <1>4, CloseStep DEF Life!Next
<1>5. CASE Tick \/ ProcessTransaction \/ EmitTxEvent \/ UNCHANGED vars
  BY <1>1, <1>5 DEF Tick, ProcessTransaction, EmitTxEvent, vars, memoryVars, tableVars
<1>6. CASE HandleRFQRequest \/ SubmitOpenRFQ \/ HandleQuoteOrClose
  BY <1>1, <1>6 DEF HandleRFQRequest, SubmitOpenRFQ, HandleQuoteOrClose, memoryVars, tableVars
<1>7. CASE ManagerTick \/ PopAuction \/ NothingDue \/ EmitClosedRFQ
  BY <1>1, <1>7 DEF ManagerTick, PopAuction, NothingDue, EmitClosedRFQ, memoryVars, tableVars
<1>8. QED
  BY <1>2, <1>3, <1>4, <1>5, <1>6, <1>7 DEF Next, Listen, Manage

LEMMA InitIsLife == Init => Life!Init
<1> SUFFICES ASSUME Init PROVE Life!Init
  OBVIOUS
<1>1. openRFQsMap = <<>> /\ closedRFQSTable = <<>> /\ quotesTable = <<>> /\ rfqRequestsTable = {}
  BY DEF Init
<1>2. \A r : Phase(r) = "none" /\ StoredQuotes(r) = <<>> /\ Result(r) = {}
  BY <1>1 DEF Phase, StoredQuotes, Result
<1>3. QED
  BY <1>2 DEF Life!Init

LEMMA OnceIsKept == Spec /\ []PoolHasRoom => []OnceInv
<1>1. OnceInv /\ TypeOK /\ FlowInv /\ PoolHasRoom /\ [Next]_vars => OnceInv'
  BY NextRequestInv, NextPlaceInv, NextAuctionInv DEF OnceInv
<1>2. QED
  BY <1>1, InitOnceInv, TypeCorrect, FlowIsKept, PTL DEF Spec

\* As long as the pool has room, no RFQ is opened twice, however many handlers
\* post it at the same time: processTransaction admits its request once.
THEOREM OpenedOnce == Spec /\ []PoolHasRoom => []OpenedAtMostOnce
<1>1. OnceInv => OpenedAtMostOnce
  BY DEF OnceInv, AuctionInv
<1>2. QED
  BY <1>1, OnceIsKept, PTL

\* As long as the pool has room, what the tables and the map show of each RFQ is
\* one pass through its life: requested, opened once, closed once, with a result
\* made of recorded quotes and then fixed (WriteRFQTxs, processAuctionQueue).
THEOREM AuctionIsLife == Spec /\ []PoolHasRoom => AuctionImplementsLife
<1>1. TypeOK /\ FlowInv /\ QuoteInv /\ OnceInv /\ [Next]_vars => [Life!Next]_Life!vars
  BY NextIsLife DEF OnceInv
<1>2. QED
  BY <1>1, OnceIsKept, TypeCorrect, FlowIsKept, QuotesAreKept, InitIsLife, PTL
     DEF Spec, AuctionImplementsLife, Life!Spec
=============================================================================
