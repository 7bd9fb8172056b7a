----------------------------- MODULE RFQAuction -----------------------------
(***************************************************************************)
(* The life of an RFQ inside one validator node.  Five kinds of goroutine  *)
(* share the Blockchain object and two unbuffered channels:                *)
(*                                                                         *)
(*   handlers      api/server.go, one goroutine per HTTP request           *)
(*   main loop     Server.Start, the only receiver of txChan               *)
(*   listener      listenToTxEvents, the only receiver of EventChan; it    *)
(*                 opens auctions and also SENDS on txChan                 *)
(*   manager       startAuctionQueueManager, closes expired auctions       *)
(*   the clock     milliseconds, advancing on its own                      *)
(*                                                                         *)
(* A section of code run under Blockchain.lock is one action.  A send on   *)
(* an unbuffered channel is one joint step of sender and receiver.         *)
(*                                                                         *)
(* Go pointers matter here: an RFQData object is shared by the in-memory   *)
(* list, the map, the queue and the pooled transaction.  Objects live in   *)
(* rfqData and a pointer is an index into it.                              *)
(***************************************************************************)
EXTENDS Integers, Sequences, FiniteSets, TxPool

CONSTANTS
  RFQ,             \* RFQRequest transactions, named by their hash
  Quote,           \* quote transactions, named by their hash
  Handler,         \* HTTP requests the node ever receives (bounds the model)
  RFQTxHash,       \* RFQTxHash[q]: the RFQ that quote q answers
  RFQDurationMs,   \* RFQDurationMs[r]: an unsigned 64-bit number
  ValidSignature,  \* the quotes whose signature verifies
  Int64Sup,        \* 2^63
  MsPerSecond,     \* 1000
  StartTime,       \* the clock when the node starts
  MaxTime,         \* bound on the clock
  None             \* no value

ASSUME RFQAssumption ==
  /\ RFQTxHash \in [Quote -> RFQ]
  /\ RFQDurationMs \in [RFQ -> Nat]
  /\ ValidSignature \subseteq Quote
  /\ Int64Sup \in Nat \ {0}
  /\ MsPerSecond \in Nat \ {0}
  /\ StartTime \in Nat /\ MaxTime \in Nat /\ StartTime <= MaxTime

VARIABLES
  now,              \* wall clock, milliseconds
  pc, body,         \* each handler's position and the transaction it carries
  mainPc, mainTx,   \* main loop
  listenerPc, listenerTx,
  managerPc, managerNow, managerTx,
  memPool,          \* TxPool.all (pending is the subject of BlockProduction)
  rfqData,          \* the RFQData objects allocated so far
  openRFQS,         \* sequence of pointers
  openRFQsMap,      \* RFQ hash -> pointer
  auctionQueue,     \* the heap: a set of pointers
  rfqRequestsTable, \* keys present
  openRFQSTable, closedRFQSTable, quotesTable,
  broadcasts        \* what was sent to the WebSocket clients, in order

handlerVars  == <<pc, body>>
mainVars     == <<mainPc, mainTx>>
listenerVars == <<listenerPc, listenerTx>>
managerVars  == <<managerPc, managerNow, managerTx>>
memoryVars   == <<rfqData, openRFQS, openRFQsMap, auctionQueue>>
tableVars    == <<rfqRequestsTable, openRFQSTable, closedRFQSTable, quotesTable>>
vars == <<now, handlerVars, mainVars, listenerVars, managerVars, memPool,
          memoryVars, tableVars, broadcasts>>

----------------------------------------------------------------------------
(* Data *)

\* id is the RFQ or the quote; at is the start time of an OpenRFQ, which is
\* what tells the hashes of two openings of one RFQ apart.
Tx == [type : {"RFQRequest", "OpenRFQ"}, id : RFQ, at : Int]
        \cup [type : {"Quote"}, id : Quote, at : Int]

RFQRequestTx(r) == [type |-> "RFQRequest", id |-> r, at |-> 0]
QuoteTx(q)      == [type |-> "Quote", id |-> q, at |-> 0]
OpenRFQTx(r, t) == [type |-> "OpenRFQ", id |-> r, at |-> t]

RFQData == [ref : RFQ, start : Int, end : Int, quotes : Seq(Quote),
            status : {"OPEN", "CLOSED"}]

\* Go's conversion to int64, and int64 addition: both wrap.
ToInt64(n) == ((n + Int64Sup) % (2 * Int64Sup)) - Int64Sup

RFQEndTime(r, start) == ToInt64(start + ToInt64(RFQDurationMs[r]))

\* A key-value table or a Go map: Put overwrites, Delete of a missing key is
\* a no-op.
Put(t, k, v) == [x \in (DOMAIN t) \cup {k} |-> IF x = k THEN v ELSE t[x]]
Delete(t, k) == [x \in (DOMAIN t) \ {k} |-> t[x]]

Init ==
  /\ now = StartTime
  /\ pc = [h \in Handler |-> "idle"]
  /\ body = [h \in Handler |-> None]
  /\ mainPc = "select" /\ mainTx = None
  /\ listenerPc = "select" /\ listenerTx = None
  /\ managerPc = "wait" /\ managerNow = 0 /\ managerTx = None
  /\ memPool = <<>>
  /\ rfqData = <<>> /\ openRFQS = <<>> /\ openRFQsMap = <<>>
  /\ auctionQueue = {}
  /\ rfqRequestsTable = {} /\ openRFQSTable = <<>>
  /\ closedRFQSTable = <<>> /\ quotesTable = <<>>
  /\ broadcasts = <<>>

Tick ==
  /\ now < MaxTime
  /\ now' = now + 1
  /\ UNCHANGED <<handlerVars, mainVars, listenerVars, managerVars, memPool,
                 memoryVars, tableVars, broadcasts>>

----------------------------------------------------------------------------
(* HTTP handlers *)

\* WriteRFQTxs of an RFQRequest.
WriteRFQRequest(r) == rfqRequestsTable' = rfqRequestsTable \cup {r}

\* handlePostTx and handlePostRFQRequest up to the send on txChan: validation,
\* then WriteRFQTxs.
PostRFQRequest(h, r) ==
  /\ pc[h] = "idle"
  /\ body' = [body EXCEPT ![h] = RFQRequestTx(r)]
  /\ \/ /\ RFQDurationMs[r] # 0
        /\ WriteRFQRequest(r)
        /\ pc' = [pc EXCEPT ![h] = "submit"]
     \/ /\ RFQDurationMs[r] = 0
        /\ pc' = [pc EXCEPT ![h] = "rejected"]
        /\ UNCHANGED rfqRequestsTable
  /\ UNCHANGED <<now, mainVars, listenerVars, managerVars, memPool, memoryVars,
                 openRFQSTable, closedRFQSTable, quotesTable, broadcasts>>

\* Mutant of StillOpen: the RFQ is not looked up.
StillOpenUnchecked(r) == TRUE

\* The two tests handlePostQuote makes on the RFQ itself.  The clock is read in
\* seconds and compared with an end time in milliseconds.
StillOpen(r) ==
  /\ r \in DOMAIN openRFQsMap
  /\ ~ (now \div MsPerSecond > rfqData[openRFQsMap[r]].end)

\* handlePostQuote up to and including signedTx.Verify.
PostQuote(h, q) ==
  /\ pc[h] = "idle"
  /\ body' = [body EXCEPT ![h] = QuoteTx(q)]
  /\ pc' = [pc EXCEPT ![h] =
              IF StillOpen(RFQTxHash[q]) /\ q \in ValidSignature
              THEN "store" ELSE "rejected"]
  /\ UNCHANGED <<now, mainVars, listenerVars, managerVars, memPool, memoryVars,
                 tableVars, broadcasts>>

\* Mutant of StoredQuotes: the existing quotes are not read back.
StoredQuotesForgotten(r) == <<>>

\* quotes of RFQ r in the table; a missing key reads as no quotes.
StoredQuotes(r) == IF r \in DOMAIN quotesTable THEN quotesTable[r] ELSE <<>>

\* WriteRFQTxs of a quote: read, append, write back.
WriteQuote(q) ==
  quotesTable' = Put(quotesTable, RFQTxHash[q],
                     Append(StoredQuotes(RFQTxHash[q]), q))

StoreQuote(h) ==
  /\ pc[h] = "store"
  /\ WriteQuote(body[h].id)
  /\ pc' = [pc EXCEPT ![h] = "submit"]
  /\ UNCHANGED <<now, body, mainVars, listenerVars, managerVars, memPool,
                 memoryVars, rfqRequestsTable, openRFQSTable, closedRFQSTable,
                 broadcasts>>

\* Mutant of MainReady: the main loop also receives while it waits to send.
MainReadyWhileSending == mainPc \in {"select", "emit"}

\* The main loop is in its select and can receive from txChan.
MainReady == mainPc = "select"

\* txChan <- signedTx, received by the main loop's select.
SubmitTx(h) ==
  /\ pc[h] = "submit" /\ MainReady
  /\ mainPc' = "process" /\ mainTx' = body[h]
  /\ pc' = [pc EXCEPT ![h] =
              IF body[h].type = "Quote" THEN "update" ELSE "accepted"]
  /\ UNCHANGED <<now, body, listenerVars, managerVars, memPool, memoryVars,
                 tableVars, broadcasts>>

AppendQuote(d, q) == [d EXCEPT !.quotes = Append(@, q)]

\* UpdateActiveRFQ and the 201 answer: the "does not exist or has already
\* expired" error is dropped by the caller.
UpdateActiveRFQ(h) ==
  /\ pc[h] = "update"
  /\ LET r == RFQTxHash[body[h].id] IN
       \/ /\ r \in DOMAIN openRFQsMap
          /\ rfqData' = [rfqData EXCEPT ![openRFQsMap[r]] =
                                           AppendQuote(@, body[h].id)]
       \/ r \notin DOMAIN openRFQsMap /\ UNCHANGED rfqData
  /\ pc' = [pc EXCEPT ![h] = "created"]
  /\ UNCHANGED <<now, body, mainVars, listenerVars, managerVars, memPool,
                 openRFQS, openRFQsMap, auctionQueue, tableVars, broadcasts>>

----------------------------------------------------------------------------
(* The main loop *)

\* processTransaction up to the send on EventChan.  Every transaction that
\* reaches txChan carries a signature its sender has just made or verified.
ProcessTransaction ==
  /\ mainPc = "process"
  /\ \/ /\ Contains(memPool, mainTx)
        /\ mainPc' = "select" /\ mainTx' = None
        /\ UNCHANGED memPool
     \/ /\ ~ Contains(memPool, mainTx)
        /\ memPool' = AddToAll(memPool, mainTx)
        /\ IF mainTx.type \in {"RFQRequest", "Quote"}
           THEN mainPc' = "emit" /\ UNCHANGED mainTx
           ELSE mainPc' = "select" /\ mainTx' = None
  /\ UNCHANGED <<now, handlerVars, listenerVars, managerVars, memoryVars,
                 tableVars, broadcasts>>

\* EventChan <- TxEvent by the main loop, received by the listener.
EmitTxEvent ==
  /\ mainPc = "emit" /\ listenerPc = "select"
  /\ listenerPc' = "handle" /\ listenerTx' = mainTx
  /\ mainPc' = "select" /\ mainTx' = None
  /\ UNCHANGED <<now, handlerVars, managerVars, memPool, memoryVars, tableVars,
                 broadcasts>>

----------------------------------------------------------------------------
(* The event listener *)

\* handleRFQRequest: the clock is read and the opening is announced ...
HandleRFQRequest ==
  /\ listenerPc = "handle" /\ listenerTx.type = "RFQRequest"
  /\ broadcasts' = Append(broadcasts, [kind |-> "open", id |-> listenerTx.id])
  /\ listenerTx' = OpenRFQTx(listenerTx.id, now)
  /\ listenerPc' = "store"
  /\ UNCHANGED <<now, handlerVars, mainVars, managerVars, memPool, memoryVars,
                 tableVars>>

NewRFQData(r, t) ==
  [ref |-> r, start |-> t, end |-> RFQEndTime(r, t), quotes |-> <<>>,
   status |-> "OPEN"]

\* Mutant of WriteOpenRFQ: the record stays in memory only.
WriteOpenRFQUnsaved(obj) ==
  LET ptr == Len(rfqData) + 1 IN
  /\ rfqData' = Append(rfqData, obj)
  /\ openRFQS' = Append(openRFQS, ptr)
  /\ openRFQsMap' = Put(openRFQsMap, obj.ref, ptr)
  /\ auctionQueue' = auctionQueue \cup {ptr}
  /\ UNCHANGED openRFQSTable

\* WriteRFQTxs of an OPEN record: list, map, queue and table.
WriteOpenRFQ(obj) ==
  LET ptr == Len(rfqData) + 1 IN
  /\ rfqData' = Append(rfqData, obj)
  /\ openRFQS' = Append(openRFQS, ptr)
  /\ openRFQsMap' = Put(openRFQsMap, obj.ref, ptr)
  /\ auctionQueue' = auctionQueue \cup {ptr}
  /\ openRFQSTable' = Put(openRFQSTable, obj.ref, obj)

\* ... then the OPEN record is stored ...
StoreOpenRFQ ==
  /\ listenerPc = "store"
  /\ WriteOpenRFQ(NewRFQData(listenerTx.id, listenerTx.at))
  /\ listenerPc' = "submit"
  /\ UNCHANGED <<now, handlerVars, mainVars, listenerTx, managerVars, memPool,
                 rfqRequestsTable, closedRFQSTable, quotesTable, broadcasts>>

\* ... and the transaction is sent to the main loop.
SubmitOpenRFQ ==
  /\ listenerPc = "submit" /\ MainReady
  /\ mainPc' = "process" /\ mainTx' = listenerTx
  /\ listenerPc' = "select" /\ listenerTx' = None
  /\ UNCHANGED <<now, handlerVars, managerVars, memPool, memoryVars, tableVars,
                 broadcasts>>

\* handleQuoteEvent and handleCloseRFQ only call the WebSocket callbacks.
HandleQuoteOrClose ==
  /\ listenerPc = "handle" /\ listenerTx.type \in {"Quote", "OpenRFQ"}
  /\ broadcasts' = Append(broadcasts,
       [kind |-> IF listenerTx.type = "Quote" THEN "quote" ELSE "close",
        id |-> listenerTx.id])
  /\ listenerPc' = "select" /\ listenerTx' = None
  /\ UNCHANGED <<now, handlerVars, mainVars, managerVars, memPool, memoryVars,
                 tableVars>>

----------------------------------------------------------------------------
(* The auction manager *)

\* processAuctionQueue starts: one reading of the clock serves the whole loop.
ManagerTick ==
  /\ managerPc = "wait"
  /\ managerPc' = "loop" /\ managerNow' = now
  /\ UNCHANGED <<now, handlerVars, mainVars, listenerVars, managerTx, memPool,
                 memoryVars, tableVars, broadcasts>>

\* auctionQueue[0]: an auction that ends no later than any other.
QueueHeads ==
  {p \in auctionQueue :
     \A p2 \in auctionQueue : rfqData[p].end <= rfqData[p2].end}

\* Mutants of Due: the wrong field; a strict comparison.
DueAtStart(p) == rfqData[p].start <= managerNow
DueStrictly(p) == rfqData[p].end < managerNow

Due(p) == rfqData[p].end <= managerNow

Close(d) == [d EXCEPT !.status = "CLOSED"]

\* heap.Pop, Close() on the shared object, and NewTx, which deep-copies it.
\* None of the three holds the lock.
PopAuction ==
  /\ managerPc = "loop"
  /\ \E p \in QueueHeads :
       /\ Due(p)
       /\ auctionQueue' = auctionQueue \ {p}
       /\ rfqData' = [rfqData EXCEPT ![p] = Close(@)]
       /\ managerTx' = Close(rfqData[p])
  /\ managerPc' = "store"
  /\ UNCHANGED <<now, handlerVars, mainVars, listenerVars, managerNow, memPool,
                 openRFQS, openRFQsMap, tableVars, broadcasts>>

NothingDue ==
  /\ managerPc = "loop"
  /\ \A p \in QueueHeads : ~ Due(p)
  /\ managerPc' = "wait" /\ managerNow' = 0
  /\ UNCHANGED <<now, handlerVars, mainVars, listenerVars, managerTx, memPool,
                 memoryVars, tableVars, broadcasts>>

\* Mutant of RemoveFirst: off by one, the entry is copied back.
RemoveNone(list, r) ==
  LET hits == {i \in 1..Len(list) : rfqData[list[i]].ref = r} IN
  IF hits = {} THEN list
  ELSE LET i == CHOOSE i \in hits : \A j \in hits : i <= j
       IN SubSeq(list, 1, i - 1) \o SubSeq(list, i, Len(list))

\* The first entry of openRFQS for RFQ r goes; the others keep their order.
RemoveFirst(list, r) ==
  LET hits == {i \in 1..Len(list) : rfqData[list[i]].ref = r} IN
  IF hits = {} THEN list
  ELSE LET i == CHOOSE i \in hits : \A j \in hits : i <= j
       IN SubSeq(list, 1, i - 1) \o SubSeq(list, i + 1, Len(list))

\* Mutant of WriteClosedRFQ: the snapshot is not stored.
WriteClosedRFQKept(rec) ==
  /\ closedRFQSTable' = closedRFQSTable
  /\ openRFQS' = RemoveFirst(openRFQS, rec.ref)
  /\ openRFQsMap' = Delete(openRFQsMap, rec.ref)

\* WriteRFQTxs of a CLOSED record.
WriteClosedRFQ(rec) ==
  /\ closedRFQSTable' = Put(closedRFQSTable, rec.ref, rec)
  /\ openRFQS' = RemoveFirst(openRFQS, rec.ref)
  /\ openRFQsMap' = Delete(openRFQsMap, rec.ref)

StoreClosedRFQ ==
  /\ managerPc = "store"
  /\ WriteClosedRFQ(managerTx)
  /\ managerPc' = "emit"
  /\ UNCHANGED <<now, handlerVars, mainVars, listenerVars, managerNow,
                 managerTx, memPool, rfqData, auctionQueue, rfqRequestsTable,
                 openRFQSTable, quotesTable, broadcasts>>

\* EventChan <- TxEvent by the manager; then the loop tests the queue again.
EmitClosedRFQ ==
  /\ managerPc = "emit" /\ listenerPc = "select"
  /\ listenerPc' = "handle"
  /\ listenerTx' = OpenRFQTx(managerTx.ref, managerTx.start)
  /\ managerPc' = "loop" /\ managerTx' = None
  /\ UNCHANGED <<now, handlerVars, mainVars, managerNow, memPool, memoryVars,
                 tableVars, broadcasts>>

----------------------------------------------------------------------------

Handle(h) ==
  \/ \E r \in RFQ : PostRFQRequest(h, r)
  \/ \E q \in Quote : PostQuote(h, q)
  \/ StoreQuote(h)
  \/ SubmitTx(h)
  \/ UpdateActiveRFQ(h)

Listen == HandleRFQRequest \/ StoreOpenRFQ \/ SubmitOpenRFQ \/ HandleQuoteOrClose

Manage ==
  ManagerTick \/ PopAuction \/ NothingDue \/ StoreClosedRFQ \/ EmitClosedRFQ

Next ==
  \/ Tick
  \/ \E h \in Handler : Handle(h)
  \/ ProcessTransaction
  \/ EmitTxEvent
  \/ Listen
  \/ Manage

Spec == Init /\ [][Next]_vars

\* Goroutines are scheduled, mutexes and tickers are fair, and senders blocked
\* on a Go channel are served first come first served: a sender waits at most
\* for the senders before it, hence strong fairness on the channel steps.
\* Nothing obliges a client to send a request.
Fairness ==
  /\ WF_vars(Tick)
  /\ \A h \in Handler : /\ WF_vars(StoreQuote(h) \/ UpdateActiveRFQ(h))
                        /\ SF_vars(SubmitTx(h))
  /\ WF_vars(ProcessTransaction)
  /\ SF_vars(EmitTxEvent)
  /\ WF_vars(HandleRFQRequest \/ StoreOpenRFQ \/ HandleQuoteOrClose)
  /\ SF_vars(SubmitOpenRFQ)
  /\ WF_vars(ManagerTick \/ PopAuction \/ NothingDue \/ StoreClosedRFQ)
  /\ SF_vars(EmitClosedRFQ)

FairSpec == Spec /\ Fairness

----------------------------------------------------------------------------
(* Properties *)

PcType == {"idle", "store", "submit", "update", "accepted", "created", "rejected"}
IsTable(t, V) == DOMAIN t \subseteq RFQ /\ t \in [DOMAIN t -> V]

\* Every variable keeps its type, and TxPool.Add never lets the pool grow past
\* maxLength.
TypeOK ==
  /\ now \in StartTime..MaxTime
  /\ pc \in [Handler -> PcType]
  /\ body \in [Handler -> Tx \cup {None}]
  /\ \A h \in Handler : /\ pc[h] # "idle" => body[h] \in Tx
                        /\ pc[h] \in {"store", "update", "created"}
                             => body[h].type = "Quote"
  /\ mainPc \in {"select", "process", "emit"}
  /\ mainPc # "select" => mainTx \in Tx
  /\ listenerPc \in {"select", "handle", "store", "submit"}
  /\ listenerPc # "select" => listenerTx \in Tx
  /\ listenerPc \in {"store", "submit"} => listenerTx.type = "OpenRFQ"
  /\ managerPc \in {"wait", "loop", "store", "emit"}
  /\ managerNow \in Nat
  /\ managerPc \in {"store", "emit"} => managerTx \in RFQData
  /\ memPool \in Seq(Tx) /\ Len(memPool) <= MaxLength
  /\ rfqData \in Seq(RFQData)
  /\ openRFQS \in Seq(1..Len(rfqData))
  /\ IsTable(openRFQsMap, 1..Len(rfqData))
  /\ auctionQueue \subseteq 1..Len(rfqData)
  /\ rfqRequestsTable \subseteq RFQ
  /\ IsTable(openRFQSTable, RFQData)
  /\ IsTable(closedRFQSTable, RFQData)
  /\ IsTable(quotesTable, Seq(Quote))
  /\ broadcasts \in Seq([kind : {"open", "close"}, id : RFQ]
                         \cup [kind : {"quote"}, id : Quote])

\* The state flow RFQRequest -> OpenRFQ -> Quotes -> ClosedRFQ holds of what is
\* stored, whatever the four writers' interleaving: an RFQ is in the open table
\* only if its request is stored, and in the map, in the closed table or in the
\* quotes table only if it is in the open table.
RecordsFollowLifeCycle ==
  /\ DOMAIN openRFQSTable \subseteq rfqRequestsTable
  /\ DOMAIN openRFQsMap \subseteq DOMAIN openRFQSTable
  /\ DOMAIN closedRFQSTable \subseteq DOMAIN openRFQSTable
  /\ DOMAIN quotesTable \subseteq DOMAIN openRFQSTable

QuotesRecorded(r, quotes) ==
  \A i \in 1..Len(quotes) :
    RFQTxHash[quotes[i]] = r /\ Contains(StoredQuotes(r), quotes[i])

\* Every quote of a stored snapshot answers that RFQ and is in the quotes table:
\* handlePostQuote writes the table before it appends to the in-memory RFQ, and
\* the table's read-append-write never loses an earlier quote.
SnapshotQuotesAreRecorded ==
  \A r \in DOMAIN closedRFQSTable : QuotesRecorded(r, closedRFQSTable[r].quotes)

\* "the relayer will be open ... for the specified RFQ duration" (Readme.md): no
\* snapshot is stored before the requested duration has passed since the start.
OpenForItsDuration ==
  \A r \in DOMAIN closedRFQSTable :
    closedRFQSTable[r].start + RFQDurationMs[r] <= now

RFQOfBroadcast(b) == IF b.kind = "quote" THEN RFQTxHash[b.id] ELSE b.id

\* WebSocket clients hear of an RFQ's opening before they hear of any quote on
\* it or of its closing, although three goroutines cause the three messages.
AnnouncedInOrder ==
  \A i \in 1..Len(broadcasts) :
    broadcasts[i].kind # "open" =>
      \E j \in 1..(i - 1) :
        /\ broadcasts[j].kind = "open"
        /\ broadcasts[j].id = RFQOfBroadcast(broadcasts[i])

\* No auction is orphaned and none is closed twice: the entries of openRFQS for
\* an RFQ are as many as its auctions that wait in the queue or are being
\* closed, even when pool pruning lets one RFQ be opened several times.
EveryOpenRFQWillClose ==
  \A r \in RFQ :
    Cardinality({i \in 1..Len(openRFQS) : rfqData[openRFQS[i]].ref = r})
      = Cardinality({p \in auctionQueue : rfqData[p].ref = r})
        + (IF managerPc = "store" /\ managerTx.ref = r THEN 1 ELSE 0)

\* The main loop waits for the listener and the listener for the main loop.
CircularWait == mainPc = "emit" /\ listenerPc = "submit"

\* Nothing any goroutine does ends a circular wait: the node has to be restarted.
CircularWaitIsPermanent == [][CircularWait => CircularWait']_vars

\* Every stored request is opened.
RequestIsOpened ==
  \A r \in RFQ : (r \in rfqRequestsTable) ~> (r \in DOMAIN openRFQSTable)

\* Every auction whose end time has passed is popped and its snapshot stored.
ExpiredIsClosed ==
  \A p \in 1..Cardinality(Handler) :
    (p \in auctionQueue /\ rfqData[p].end <= now)
      ~> (/\ p \in DOMAIN rfqData \ auctionQueue
          /\ rfqData[p].ref \in DOMAIN closedRFQSTable)

\* The circular wait of main loop and listener is the only thing that can keep
\* the node from opening what was requested and closing what has expired.
ProgressUnlessCircularWait ==
  []~CircularWait => (RequestIsOpened /\ ExpiredIsClosed)

----------------------------------------------------------------------------
(* What the documents say and the code does not do: TLC refutes these. *)

\* "there is a one to one relationship between rfQRequests types"
\* (core/blockchain.go): an RFQ request is opened at most once.
OpenedAtMostOnce ==
  \A p1, p2 \in DOMAIN rfqData : rfqData[p1].ref = rfqData[p2].ref => p1 = p2

\* "Quotes received after the designated rfq duration will be rejected by the
\* relayer." (Readme.md)
LateQuotesAreRejected ==
  [][\A h \in Handler :
       pc[h] = "idle" /\ pc'[h] = "store"
         => now <= rfqData[openRFQsMap[RFQTxHash[body'[h].id]]].end]_vars

\* "the quote is appended to the quotes array in the OpenRFQTxType record"
\* (core/blockchain.go): a quote answered with 201 is in its RFQ's snapshot once
\* that is stored.
CreatedQuotesAreInSnapshot ==
  \A h \in Handler :
    pc[h] = "created" /\ RFQTxHash[body[h].id] \in DOMAIN closedRFQSTable
      => Contains(closedRFQSTable[RFQTxHash[body[h].id]].quotes, body[h].id)
=============================================================================
