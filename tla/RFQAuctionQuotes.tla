-------------------------- MODULE RFQAuctionQuotes --------------------------
(***************************************************************************)
(* The quotes that RFQAuction copies and records, the order of what it     *)
(* announces, and the agreement of openRFQS with the auction queue, for    *)
(* every set of RFQs, quotes and handlers, every duration and pool size.   *)
(***************************************************************************)
EXTENDS RFQAuctionProofs, FiniteSetTheorems

(* The quotes of a snapshot are in the quotes table *)

\* A quote is in the table before it can be appended to an auction object; the
\* object an RFQ is mapped to is one of that RFQ; and copies keep the quotes.
QuoteInv ==
  /\ \A h \in Handler :
       pc[h] \in {"submit", "update"} /\ body[h].type = "Quote"
         => Contains(StoredQuotes(RFQTxHash[body[h].id]), body[h].id)
  /\ \A r \in DOMAIN openRFQsMap : rfqData[openRFQsMap[r]].ref = r
  /\ \A p \in 1..Len(rfqData) : QuotesRecorded(rfqData[p].ref, rfqData[p].quotes)
  /\ managerPc = "store" => QuotesRecorded(managerTx.ref, managerTx.quotes)
  /\ SnapshotQuotesAreRecorded

\* WriteRFQTxs of a quote adds it and loses none.
LEMMA WriteQuoteEffect ==
  ASSUME TypeOK, NEW q \in Quote, WriteQuote(q)
  PROVE  /\ Contains(StoredQuotes(RFQTxHash[q])', q)
         /\ \A r, q2 : Contains(StoredQuotes(r), q2) => Contains(StoredQuotes(r)', q2)
<1> DEFINE k == RFQTxHash[q]
<1>1. StoredQuotes(k) \in Seq(Quote)
  BY EmptySeq DEF StoredQuotes, TypeOK, IsTable
<1>2. StoredQuotes(k)' = Append(StoredQuotes(k), q)
  BY DEF WriteQuote, Put, StoredQuotes
<1>3. \A r : r # k => StoredQuotes(r)' = StoredQuotes(r)
  BY DEF WriteQuote, Put, StoredQuotes
<1>4. /\ Contains(StoredQuotes(k)', q)
      /\ \A q2 : Contains(StoredQuotes(k), q2) => Contains(StoredQuotes(k)', q2)
  BY <1>1, <1>2, AppendProperties, LenProperties DEF Contains
<1> QED
  BY <1>3, <1>4

\* A step that stores nothing and moves no quote towards an object or a
\* snapshot keeps QuoteInv.
LEMMA QuoteFrame ==
  ASSUME QuoteInv,
         \A h \in Handler : pc'[h] \in {"submit", "update"}
            => (pc[h] \in {"submit", "update"} \/ body'[h].type # "Quote")
               /\ (body'[h] = body[h] \/ body'[h].type # "Quote"),
         UNCHANGED <<rfqData, openRFQsMap, closedRFQSTable, quotesTable>>,
         managerPc' = "store" => UNCHANGED <<managerPc, managerTx>>
  PROVE  QuoteInv'
<1>1. \A r, quotes : QuotesRecorded(r, quotes)' <=> QuotesRecorded(r, quotes)
  BY DEF QuotesRecorded, StoredQuotes
<1>2. \A r : StoredQuotes(r)' = StoredQuotes(r)
  BY DEF StoredQuotes
<1> QED
  BY <1>1, <1>2 DEF QuoteInv, SnapshotQuotesAreRecorded

\* Every step keeps each quote's record ahead of its copies.
LEMMA NextQuoteInv == TypeOK /\ QuoteInv /\ [Next]_vars => QuoteInv'
<1> SUFFICES ASSUME TypeOK, QuoteInv, [Next]_vars
             PROVE  QuoteInv'
  OBVIOUS
<1>1. CASE Tick
  BY <1>1, QuoteFrame DEF Tick, handlerVars, managerVars, memoryVars, tableVars
<1>2. ASSUME NEW h \in Handler, NEW r \in RFQ, PostRFQRequest(h, r)
      PROVE  QuoteInv'
  BY <1>2, HandlerTypes, QuoteFrame DEF PostRFQRequest, RFQRequestTx, managerVars,
                                        memoryVars
<1>3. ASSUME NEW h \in Handler, NEW q \in Quote, PostQuote(h, q)
      PROVE  QuoteInv'
  BY <1>3, HandlerTypes, QuoteFrame DEF PostQuote, managerVars, memoryVars, tableVars
<1>4. ASSUME NEW h \in Handler, StoreQuote(h)
      PROVE  QuoteInv'
  <2>1. /\ Contains(StoredQuotes(RFQTxHash[body[h].id])', body[h].id)
        /\ \A r, q : Contains(StoredQuotes(r), q) => Contains(StoredQuotes(r)', q)
    BY <1>4, HandlerTypes, WriteQuoteEffect DEF StoreQuote
  <2>2. \A r, quotes : QuotesRecorded(r, quotes) => QuotesRecorded(r, quotes)'
    BY <2>1, Zenon DEF QuotesRecorded
  <2>3. /\ \A g \in Handler : g # h => pc'[g] = pc[g]
        /\ UNCHANGED <<body, managerPc, managerTx, rfqData, openRFQsMap,
                       closedRFQSTable>>
    BY <1>4, HandlerTypes DEF StoreQuote, managerVars, memoryVars
  <2>4. \A g \in Handler :
          pc'[g] \in {"submit", "update"} /\ body[g].type = "Quote"
            => Contains(StoredQuotes(RFQTxHash[body[g].id])', body[g].id)
    BY <2>1, <2>3, Zenon DEF QuoteInv
  <2>5. (\A g \in Handler :
          pc[g] \in {"submit", "update"} /\ body[g].type = "Quote"
            => Contains(StoredQuotes(RFQTxHash[body[g].id]), body[g].id))'
    BY <2>3, <2>4
  <2> QED
    BY <2>2, <2>3, <2>5, Zenon DEF QuoteInv, SnapshotQuotesAreRecorded
<1>5. ASSUME NEW h \in Handler, SubmitTx(h)
      PROVE  QuoteInv'
  BY <1>5, HandlerTypes, QuoteFrame DEF SubmitTx, managerVars, memoryVars, tableVars
<1>6. ASSUME NEW h \in Handler, UpdateActiveRFQ(h)
      PROVE  QuoteInv'
  <2> DEFINE q == body[h].id
  <2>1. q \in Quote /\ Contains(StoredQuotes(RFQTxHash[q]), q)
    BY <1>6, HandlerTypes DEF UpdateActiveRFQ, QuoteInv
  <2> HIDE DEF q
  <2>2. /\ \A g \in Handler : pc'[g] # "created" => pc'[g] = pc[g]
        /\ UNCHANGED <<body, managerPc, managerTx, openRFQsMap, closedRFQSTable,
                       quotesTable>>
    BY <1>6, HandlerTypes, Zenon DEF UpdateActiveRFQ, managerVars, tableVars
  <2>3. \A r : StoredQuotes(r)' = StoredQuotes(r)
    BY <2>2 DEF StoredQuotes
  <2>4. \A r, quotes : QuotesRecorded(r, quotes)' <=> QuotesRecorded(r, quotes)
    BY <2>3 DEF QuotesRecorded
  <2>5. ASSUME NEW p \in 1..Len(rfqData)
        PROVE  QuotesRecorded(rfqData'[p].ref, rfqData'[p].quotes)
    <3>1. rfqData[p].quotes \in Seq(Quote)
      BY ObjectTypes DEF RFQData
    <3>2. /\ rfqData'[p].ref = rfqData[p].ref
          /\ \/ rfqData'[p].quotes = rfqData[p].quotes
             \/ /\ RFQTxHash[q] \in DOMAIN openRFQsMap
                /\ openRFQsMap[RFQTxHash[q]] = p
                /\ rfqData'[p].quotes = Append(rfqData[p].quotes, q)
      BY <1>6, UpdateEffect DEF q
    <3>3. QuotesRecorded(rfqData[p].ref, rfqData[p].quotes)
      BY DEF QuoteInv
    <3>4. CASE rfqData'[p].quotes = rfqData[p].quotes
      BY <3>2, <3>3, <3>4
    <3>5. CASE rfqData'[p].quotes # rfqData[p].quotes
      <4>1. /\ rfqData'[p].quotes = Append(rfqData[p].quotes, q)
            /\ RFQTxHash[q] = rfqData[p].ref
        BY <3>2, <3>5 DEF QuoteInv
      <4> QED
        BY <2>1, <3>1, <3>2, <3>3, <4>1, AppendProperties, LenProperties
           DEF QuotesRecorded
    <3> QED
      BY <3>4, <3>5
  <2>6. Len(rfqData') = Len(rfqData)
    BY <1>6, UpdateEffect
  <2>7. \A r \in DOMAIN openRFQsMap : rfqData'[openRFQsMap[r]].ref = r
    BY <1>6, UpdateEffect, ObjectTypes DEF QuoteInv
  <2> QED
    BY <2>2, <2>3, <2>4, <2>5, <2>6, <2>7 DEF QuoteInv, SnapshotQuotesAreRecorded
<1>7. CASE ProcessTransaction \/ EmitTxEvent
  BY <1>7, QuoteFrame DEF ProcessTransaction, EmitTxEvent, handlerVars, managerVars,
                          memoryVars, tableVars
<1>8. CASE HandleRFQRequest \/ SubmitOpenRFQ \/ HandleQuoteOrClose
  BY <1>8, QuoteFrame DEF HandleRFQRequest, SubmitOpenRFQ, HandleQuoteOrClose,
                          handlerVars, managerVars, memoryVars, tableVars
<1>9. CASE StoreOpenRFQ
  <2>1. UNCHANGED <<pc, body, managerPc, managerTx, closedRFQSTable, quotesTable>>
    BY <1>9 DEF StoreOpenRFQ, handlerVars, managerVars
  <2>2. \A r : StoredQuotes(r)' = StoredQuotes(r)
    BY <2>1 DEF StoredQuotes
  <2>3. \A r, quotes : QuotesRecorded(r, quotes)' <=> QuotesRecorded(r, quotes)
    BY <2>2 DEF QuotesRecorded
  <2>4. \A r : QuotesRecorded(r, <<>>)
    BY EmptySeq DEF QuotesRecorded
  <2>5. \A p \in 1..Len(rfqData') : QuotesRecorded(rfqData'[p].ref, rfqData'[p].quotes)
    BY <1>9, <2>4, OpenEffect DEF QuoteInv
  <2>6. \A r \in DOMAIN openRFQsMap' : rfqData'[openRFQsMap'[r]].ref = r
    BY <1>9, OpenEffect, ObjectTypes DEF Put, QuoteInv
  <2> QED
    BY <2>1, <2>2, <2>3, <2>5, <2>6 DEF QuoteInv, SnapshotQuotesAreRecorded
<1>10. CASE ManagerTick \/ NothingDue \/ EmitClosedRFQ
  BY <1>10, QuoteFrame DEF ManagerTick, NothingDue, EmitClosedRFQ, handlerVars,
                           memoryVars, tableVars
<1>11. CASE PopAuction
  <2>1. UNCHANGED <<pc, body, openRFQsMap, closedRFQSTable, quotesTable>>
    BY <1>11 DEF PopAuction, handlerVars, tableVars
  <2>2. \A r : StoredQuotes(r)' = StoredQuotes(r)
    BY <2>1 DEF StoredQuotes
  <2>3. \A r, quotes : QuotesRecorded(r, quotes)' <=> QuotesRecorded(r, quotes)
    BY <2>2 DEF QuotesRecorded
  <2>4. /\ \A p \in 1..Len(rfqData') :
             QuotesRecorded(rfqData'[p].ref, rfqData'[p].quotes)
        /\ QuotesRecorded(managerTx'.ref, managerTx'.quotes)
    BY <1>11, PopEffect DEF QuoteInv
  <2>5. \A r \in DOMAIN openRFQsMap : rfqData'[openRFQsMap[r]].ref = r
    BY <1>11, PopEffect, ObjectTypes DEF QuoteInv
  <2> QED
    BY <2>1, <2>2, <2>3, <2>4, <2>5 DEF QuoteInv, SnapshotQuotesAreRecorded
<1>12. CASE StoreClosedRFQ
  <2>1. /\ UNCHANGED <<pc, body, rfqData, quotesTable>> /\ managerPc' = "emit"
        /\ closedRFQSTable' = Put(closedRFQSTable, managerTx.ref, managerTx)
        /\ openRFQsMap' = Delete(openRFQsMap, managerTx.ref)
    BY <1>12 DEF StoreClosedRFQ, WriteClosedRFQ, handlerVars
  <2>2. \A r : StoredQuotes(r)' = StoredQuotes(r)
    BY <2>1 DEF StoredQuotes
  <2>3. \A r, quotes : QuotesRecorded(r, quotes)' <=> QuotesRecorded(r, quotes)
    BY <2>2 DEF QuotesRecorded
  <2>4. \A r \in DOMAIN closedRFQSTable' :
          QuotesRecorded(r, closedRFQSTable'[r].quotes)
    BY <1>12, <2>1, Zenon DEF StoreClosedRFQ, Put, QuoteInv, SnapshotQuotesAreRecorded
  <2>5. \A r \in DOMAIN openRFQsMap' : rfqData[openRFQsMap'[r]].ref = r
    BY <2>1 DEF Delete, QuoteInv
  <2> QED
    BY <2>1, <2>2, <2>3, <2>4, <2>5 DEF QuoteInv, SnapshotQuotesAreRecorded
<1>13. CASE UNCHANGED vars
  BY <1>13, QuoteFrame DEF vars, handlerVars, managerVars, memoryVars, tableVars
<1> QED
  BY <1>1, <1>2, <1>3, <1>4, <1>5, <1>6, <1>7, <1>8, <1>9, <1>10, <1>11, <1>12,
     <1>13 DEF Next, Handle, Listen, Manage

LEMMA QuotesAreKept == Spec => []QuoteInv
<1>1. Init => QuoteInv
  <2> SUFFICES ASSUME Init PROVE QuoteInv
    OBVIOUS
  <2>1. /\ \A h \in Handler : pc[h] = "idle"
        /\ Len(rfqData) = 0 /\ DOMAIN openRFQsMap = {} /\ managerPc = "wait"
        /\ DOMAIN closedRFQSTable = {}
    BY EmptySeq DEF Init
  <2> QED
    BY <2>1 DEF QuoteInv, SnapshotQuotesAreRecorded
<1>2. QED
  BY <1>1, TypeCorrect, NextQuoteInv, PTL DEF Spec

\* Nothing enters a snapshot that was not persisted as a quote of that RFQ, for
\* any number of handlers racing with the auction manager.
THEOREM SnapshotsAreRecorded == Spec => []SnapshotQuotesAreRecorded
<1>1. QuoteInv => SnapshotQuotesAreRecorded
  BY DEF QuoteInv
<1>2. QED
  BY <1>1, QuotesAreKept, PTL

----------------------------------------------------------------------------
(* Openings are announced first *)

Announced(r) ==
  \E j \in 1..Len(broadcasts) : broadcasts[j].kind = "open" /\ broadcasts[j].id = r

\* Whatever leads to the announcement of a quote or of a closing comes from an
\* RFQ that was announced: the open RFQs, and the transactions that handlers,
\* main loop, listener and manager carry.
AnnounceInv ==
  /\ \A h \in Handler : pc[h] \in {"store", "submit"} /\ body[h].type = "Quote"
       => Announced(RFQTxHash[body[h].id])
  /\ mainPc # "select" /\ mainTx.type = "Quote" => Announced(RFQTxHash[mainTx.id])
  /\ mainPc = "emit" => mainTx.type # "OpenRFQ"
  /\ listenerPc = "handle" /\ listenerTx.type = "Quote"
       => Announced(RFQTxHash[listenerTx.id])
  /\ listenerPc = "handle" /\ listenerTx.type = "OpenRFQ" => Announced(listenerTx.id)
  /\ listenerPc = "store" => Announced(listenerTx.id)
  /\ \A p \in 1..Len(rfqData) : Announced(rfqData[p].ref)
  /\ \A r \in DOMAIN openRFQsMap : Announced(r)
  /\ managerPc \in {"store", "emit"} => Announced(managerTx.ref)
  /\ AnnouncedInOrder

\* A message is added behind the others; it may follow an opening of its RFQ.
LEMMA BroadcastEffect ==
  ASSUME TypeOK, AnnouncedInOrder, NEW b,
         broadcasts' = Append(broadcasts, b),
         b.kind # "open" => Announced(RFQOfBroadcast(b))
  PROVE  /\ \A r : Announced(r) => Announced(r)'
         /\ b.kind = "open" => Announced(b.id)'
         /\ AnnouncedInOrder'
<1>1. Len(broadcasts) \in Nat
  BY LenProperties DEF TypeOK
<1>2. PICK n \in Nat : n = Len(broadcasts)
  BY <1>1
<1>3. /\ Len(broadcasts') = n + 1 /\ broadcasts'[n + 1] = b
      /\ \A i \in 1..n : broadcasts'[i] = broadcasts[i]
  BY <1>2, AppendProperties DEF TypeOK
<1>4. \A r : Announced(r) => Announced(r)'
  BY <1>2, <1>3 DEF Announced
<1>5. b.kind = "open" => Announced(b.id)'
  BY <1>2, <1>3 DEF Announced
<1>6. ASSUME NEW i \in 1..Len(broadcasts'), broadcasts'[i].kind # "open"
      PROVE  \E j \in 1..(i - 1) :
               /\ broadcasts'[j].kind = "open"
               /\ broadcasts'[j].id = RFQOfBroadcast(broadcasts'[i])
  <2>1. CASE i \in 1..n
    <3>1. broadcasts'[i] = broadcasts[i] /\ \A j \in 1..(i - 1) : broadcasts'[j] = broadcasts[j]
      BY <1>2, <1>3, <2>1
    <3> QED
      BY <1>2, <1>6, <2>1, <3>1 DEF AnnouncedInOrder
  <2>2. CASE i = n + 1
    BY <1>2, <1>3, <1>6, <2>2 DEF Announced
  <2> QED
    BY <1>2, <1>3, <2>1, <2>2
<1>7. AnnouncedInOrder'
  BY <1>6 DEF AnnouncedInOrder, RFQOfBroadcast
<1> QED
  BY <1>4, <1>5, <1>7

\* A step that announces nothing.
LEMMA SilentStep ==
  ASSUME broadcasts' = broadcasts
  PROVE  /\ \A r : Announced(r)' <=> Announced(r)
         /\ AnnouncedInOrder => AnnouncedInOrder'
BY DEF Announced, AnnouncedInOrder

\* Every step hands on only what was announced.
LEMMA NextAnnounceInv == TypeOK /\ AnnounceInv /\ [Next]_vars => AnnounceInv'
<1> SUFFICES ASSUME TypeOK, AnnounceInv, [Next]_vars
             PROVE  AnnounceInv'
  OBVIOUS
<1>1. CASE Tick \/ ManagerTick \/ NothingDue \/ UNCHANGED vars
  <2>1. UNCHANGED <<pc, body, mainPc, mainTx, listenerPc, listenerTx, managerTx, rfqData,
                    openRFQsMap, broadcasts>>
        /\ (managerPc' \in {"store", "emit"} => managerPc' = managerPc)
    BY <1>1 DEF Tick, ManagerTick, NothingDue, vars, handlerVars, mainVars, listenerVars,
                managerVars, memoryVars
  <2> QED
    BY <2>1, SilentStep DEF AnnounceInv
<1>2. ASSUME NEW h \in Handler, NEW r \in RFQ, PostRFQRequest(h, r)
      PROVE  AnnounceInv'
  BY <1>2, HandlerTypes, SilentStep
     DEF PostRFQRequest, RFQRequestTx, AnnounceInv, mainVars, listenerVars, managerVars,
         memoryVars
<1>3. ASSUME NEW h \in Handler, NEW q \in Quote, PostQuote(h, q)
      PROVE  AnnounceInv'
  BY <1>3, HandlerTypes, SilentStep
     DEF PostQuote, StillOpen, QuoteTx, AnnounceInv, mainVars, listenerVars, managerVars,
         memoryVars
<1>4. ASSUME NEW h \in Handler, StoreQuote(h)
      PROVE  AnnounceInv'
  BY <1>4, HandlerTypes, SilentStep
     DEF StoreQuote, AnnounceInv, mainVars, listenerVars, managerVars, memoryVars
<1>5. ASSUME NEW h \in Handler, SubmitTx(h)
      PROVE  AnnounceInv'
  BY <1>5, HandlerTypes, SilentStep
     DEF SubmitTx, AnnounceInv, listenerVars, managerVars, memoryVars
<1>6. ASSUME NEW h \in Handler, UpdateActiveRFQ(h)
      PROVE  AnnounceInv'
  <2>1. /\ \A g \in Handler : pc'[g] # "created" => pc'[g] = pc[g]
        /\ UNCHANGED <<body, mainPc, mainTx, listenerPc, listenerTx, managerPc, managerTx,
                       openRFQsMap, broadcasts>>
    BY <1>6, HandlerTypes DEF UpdateActiveRFQ, mainVars, listenerVars, managerVars
  <2>2. \A p \in 1..Len(rfqData') : Announced(rfqData'[p].ref)
    BY <1>6, UpdateEffect DEF AnnounceInv
  <2> QED
    BY <2>1, <2>2, SilentStep DEF AnnounceInv
<1>7. CASE ProcessTransaction
  BY <1>7, SilentStep
     DEF ProcessTransaction, AnnounceInv, handlerVars, listenerVars, managerVars, memoryVars
<1>8. CASE EmitTxEvent
  BY <1>8, SilentStep DEF EmitTxEvent, AnnounceInv, handlerVars, managerVars, memoryVars
<1>9. CASE HandleRFQRequest
  <2>1. PICK b : b = [kind |-> "open", id |-> listenerTx.id]
    BY Zenon
  <2>2. /\ broadcasts' = Append(broadcasts, b) /\ b.kind = "open" /\ b.id = listenerTx.id
        /\ listenerPc' = "store" /\ listenerTx'.id = b.id
    BY <1>9, <2>1 DEF HandleRFQRequest, OpenRFQTx
  <2>3. /\ \A r : Announced(r) => Announced(r)'
        /\ Announced(b.id)' /\ AnnouncedInOrder'
    BY <2>2, BroadcastEffect DEF AnnounceInv
  <2>4. Announced(listenerTx.id)'
    BY <2>2, <2>3 DEF Announced
  <2> QED
    BY <1>9, <2>2, <2>3, <2>4 DEF HandleRFQRequest, AnnounceInv, handlerVars, mainVars,
                                  managerVars, memoryVars
<1>10. CASE StoreOpenRFQ
  <2>1. UNCHANGED <<pc, body, mainPc, mainTx, managerPc, managerTx, broadcasts>>
        /\ listenerPc = "store" /\ listenerPc' = "submit"
    BY <1>10 DEF StoreOpenRFQ, handlerVars, mainVars, managerVars
  <2>2. /\ \A p \in 1..Len(rfqData') : Announced(rfqData'[p].ref)
        /\ \A r \in DOMAIN openRFQsMap' : Announced(r)
    BY <1>10, <2>1, OpenEffect DEF AnnounceInv, Put
  <2> QED
    BY <2>1, <2>2, SilentStep DEF AnnounceInv
<1>11. CASE SubmitOpenRFQ
  <2>1. listenerTx.type = "OpenRFQ"
    BY <1>11 DEF SubmitOpenRFQ, TypeOK
  <2> QED
    BY <1>11, <2>1, SilentStep
       DEF SubmitOpenRFQ, AnnounceInv, handlerVars, managerVars, memoryVars
<1>12. CASE HandleQuoteOrClose
  <2>1. PICK b : b = [kind |-> IF listenerTx.type = "Quote" THEN "quote" ELSE "close",
                      id |-> listenerTx.id]
    BY Zenon
  <2>2. /\ broadcasts' = Append(broadcasts, b) /\ listenerPc' = "select"
        /\ Announced(RFQOfBroadcast(b))
    BY <1>12, <2>1 DEF HandleQuoteOrClose, RFQOfBroadcast, AnnounceInv
  <2>3. (\A r : Announced(r) => Announced(r)') /\ AnnouncedInOrder'
    BY <2>2, BroadcastEffect DEF AnnounceInv
  <2> QED
    BY <1>12, <2>2, <2>3 DEF HandleQuoteOrClose, AnnounceInv, handlerVars, mainVars,
                             managerVars, memoryVars
<1>13. CASE PopAuction
  <2>1. UNCHANGED <<pc, body, mainPc, mainTx, listenerPc, listenerTx, openRFQsMap, broadcasts>>
    BY <1>13 DEF PopAuction, handlerVars, mainVars, listenerVars
  <2>2. /\ \A p \in 1..Len(rfqData') : Announced(rfqData'[p].ref)
        /\ Announced(managerTx'.ref)
    BY <1>13, PopEffect DEF AnnounceInv
  <2> QED
    BY <2>1, <2>2, SilentStep DEF AnnounceInv
<1>14. CASE StoreClosedRFQ
  <2>1. /\ UNCHANGED <<pc, body, mainPc, mainTx, listenerPc, listenerTx, managerTx, rfqData,
                       broadcasts>>
        /\ managerPc = "store" /\ DOMAIN openRFQsMap' \subseteq DOMAIN openRFQsMap
    BY <1>14 DEF StoreClosedRFQ, WriteClosedRFQ, Delete, handlerVars, mainVars, listenerVars
  <2> QED
    BY <2>1, SilentStep DEF AnnounceInv
<1>15. CASE EmitClosedRFQ
  BY <1>15, SilentStep
     DEF EmitClosedRFQ, OpenRFQTx, AnnounceInv, handlerVars, mainVars, memoryVars
<1> QED
  BY <1>1, <1>2, <1>3, <1>4, <1>5, <1>6, <1>7, <1>8, <1>9, <1>10, <1>11, <1>12, <1>13,
     <1>14, <1>15 DEF Next, Handle, Listen, Manage

\* Clients hear of the opening of an RFQ before its quotes and its closing,
\* whatever the goroutines that cause the three do in between, and however often
\* the RFQ is opened.
THEOREM OpeningsComeFirst == Spec => []AnnouncedInOrder
<1>1. Init => AnnounceInv
  <2> SUFFICES ASSUME Init PROVE AnnounceInv
    OBVIOUS
  <2>1. /\ \A h \in Handler : pc[h] = "idle"
        /\ mainPc = "select" /\ listenerPc = "select" /\ managerPc = "wait"
        /\ Len(rfqData) = 0 /\ DOMAIN openRFQsMap = {} /\ Len(broadcasts) = 0
    BY EmptySeq DEF Init
  <2> QED
    BY <2>1 DEF AnnounceInv, AnnouncedInOrder
<1>2. AnnounceInv => AnnouncedInOrder
  BY DEF AnnounceInv
<1> QED
  BY <1>1, <1>2, TypeCorrect, NextAnnounceInv, PTL DEF Spec

----------------------------------------------------------------------------
(* No auction is orphaned *)

\* The places of a list that hold a member of G.
PlacesOf(list, G) == {i \in 1..Len(list) : list[i] \in G}

LEMMA PlacesFinite ==
  ASSUME NEW S, NEW list \in Seq(S), NEW G
  PROVE  IsFiniteSet(PlacesOf(list, G)) /\ Cardinality(PlacesOf(list, G)) \in Nat
<1>1. Len(list) \in Nat
  BY LenProperties
<1>2. IsFiniteSet(1..Len(list))
  BY <1>1, FS_Interval
<1> QED
  BY <1>2, FS_Subset, FS_CardinalityType DEF PlacesOf

\* Appending adds a place exactly when the new element is in G.
LEMMA AppendPlaces ==
  ASSUME NEW S, NEW list \in Seq(S), NEW e, NEW G
  PROVE  Cardinality(PlacesOf(Append(list, e), G))
           = Cardinality(PlacesOf(list, G)) + (IF e \in G THEN 1 ELSE 0)
<1>1. PICK n \in Nat : n = Len(list)
  BY LenProperties
<1>2. /\ Len(Append(list, e)) = n + 1 /\ Append(list, e)[n + 1] = e
      /\ \A i \in 1..n : Append(list, e)[i] = list[i]
  BY <1>1
<1>3. PlacesOf(Append(list, e), G)
        = PlacesOf(list, G) \cup (IF e \in G THEN {n + 1} ELSE {})
  BY <1>1, <1>2 DEF PlacesOf
<1>4. n + 1 \notin PlacesOf(list, G)
  BY <1>1 DEF PlacesOf
<1>5. IsFiniteSet(PlacesOf(list, G)) /\ Cardinality(PlacesOf(list, G)) \in Nat
  BY PlacesFinite
<1>6. CASE e \in G
  <2>1. PlacesOf(Append(list, e), G) = PlacesOf(list, G) \cup {n + 1}
    BY <1>3, <1>6
  <2>2. Cardinality(PlacesOf(list, G) \cup {n + 1}) = Cardinality(PlacesOf(list, G)) + 1
    BY <1>4, <1>5, FS_AddElement, Zenon
  <2> QED
    BY <1>6, <2>1, <2>2
<1>7. CASE e \notin G
  BY <1>3, <1>5, <1>7
<1> QED
  BY <1>6, <1>7

\* Cutting out index k shifts the places behind it.
LEMMA WithoutIndexPlaces ==
  ASSUME NEW S, NEW list \in Seq(S), NEW k \in 1..Len(list), NEW G
  PROVE  LET new == SubSeq(list, 1, k - 1) \o SubSeq(list, k + 1, Len(list))
         IN  Cardinality(PlacesOf(new, G))
               = Cardinality(PlacesOf(list, G)) - (IF list[k] \in G THEN 1 ELSE 0)
<1> DEFINE new == SubSeq(list, 1, k - 1) \o SubSeq(list, k + 1, Len(list))
<1>1. PICK n \in Nat : n = Len(list)
  BY LenProperties
<1>2. /\ Len(new) = n - 1
      /\ \A i \in 1..(n - 1) : new[i] = IF i < k THEN list[i] ELSE list[i + 1]
  <2> DEFINE front == SubSeq(list, 1, k - 1)
             back  == SubSeq(list, k + 1, Len(list))
  <2>1. k \in 1..n
    BY <1>1
  <2>2. /\ front \in Seq(S) /\ Len(front) = k - 1
        /\ \A i \in 1..(k - 1) : front[i] = list[i]
    BY <1>1, <2>1
  <2>3. /\ back \in Seq(S) /\ Len(back) = n - k
        /\ \A i \in 1..(n - k) : back[i] = list[i + k]
    BY <1>1, <2>1
  <2>4. new = front \o back
    OBVIOUS
  <2> HIDE DEF front, back, new
  <2>5. /\ Len(new) = n - 1
        /\ \A i \in 1..(n - 1) : new[i] = IF i <= k - 1 THEN front[i] ELSE back[i - (k - 1)]
    BY <1>1, <2>1, <2>2, <2>3, <2>4, ConcatProperties
  <2>6. ASSUME NEW i \in 1..(n - 1)
        PROVE  new[i] = IF i < k THEN list[i] ELSE list[i + 1]
    <3>1. CASE i < k
      BY <1>1, <2>1, <2>2, <2>5, <3>1
    <3>2. CASE ~(i < k)
      <4>1. i - (k - 1) \in 1..(n - k) /\ (i - (k - 1)) + k = i + 1
        BY <1>1, <2>1, <3>2
      <4>2. new[i] = back[i - (k - 1)]
        BY <1>1, <2>1, <2>5, <3>2
      <4> QED
        BY <2>3, <3>2, <4>1, <4>2
    <3> QED
      BY <3>1, <3>2
  <2> QED
    BY <2>5, <2>6
<1> HIDE DEF new
<1> DEFINE A == PlacesOf(new, G)
           B == PlacesOf(list, G) \ {k}
           f == [i \in A |-> IF i < k THEN i ELSE i + 1]
<1>3. f \in [A -> B]
  BY <1>1, <1>2 DEF PlacesOf
<1>4. f \in Injection(A, B)
  BY <1>1, <1>2, <1>3 DEF Injection, IsInjective, PlacesOf
<1>5. f \in Surjection(A, B)
  <2>1. ASSUME NEW j \in B PROVE \E i \in A : f[i] = j
    <3>1. j \in 1..n /\ j # k /\ list[j] \in G
      BY <1>1 DEF PlacesOf
    <3>2. CASE j < k
      BY <1>1, <1>2, <3>1, <3>2 DEF PlacesOf
    <3>3. CASE j > k
      <4>1. j - 1 \in A /\ f[j - 1] = j
        BY <1>1, <1>2, <3>1, <3>3 DEF PlacesOf
      <4> QED
        BY <4>1
    <3> QED
      BY <1>1, <3>1, <3>2, <3>3
  <2> QED
    BY <1>3, <2>1 DEF Surjection
<1>6. ExistsBijection(A, B)
  <2> HIDE DEF f, A, B
  <2> QED
    BY <1>4, <1>5, Zenon DEF ExistsBijection, Bijection
<1>7. IsFiniteSet(A)
  <2>1. new \in Seq(S)
    BY WithoutIndexType DEF new
  <2> QED
    BY <2>1, PlacesFinite
<1>8. Cardinality(B) = Cardinality(A)
  BY <1>6, <1>7, FS_Bijection
<1>9. Cardinality(B) = Cardinality(PlacesOf(list, G)) - (IF list[k] \in G THEN 1 ELSE 0)
  <2>1. k \in PlacesOf(list, G) <=> list[k] \in G
    BY DEF PlacesOf
  <2>2. IsFiniteSet(PlacesOf(list, G)) /\ Cardinality(PlacesOf(list, G)) \in Nat
    BY PlacesFinite
  <2>3. Cardinality(PlacesOf(list, G) \ {k})
          = IF k \in PlacesOf(list, G) THEN Cardinality(PlacesOf(list, G)) - 1
                                       ELSE Cardinality(PlacesOf(list, G))
    BY <2>2, FS_RemoveElement, Zenon
  <2> QED
    BY <2>1, <2>2, <2>3
<1> QED
  BY <1>8, <1>9 DEF new

\* The objects of r, those that openRFQS lists, those that wait in the queue, and
\* the one the manager is about to remove from openRFQS.
ObjectsOf(r) == {p \in 1..Len(rfqData) : rfqData[p].ref = r}
Listed(r) == PlacesOf(openRFQS, ObjectsOf(r))
Queued(r) == auctionQueue \cap ObjectsOf(r)
Closing(r) == IF managerPc = "store" /\ managerTx.ref = r THEN 1 ELSE 0

CountInv == \A r \in RFQ : Cardinality(Listed(r)) = Cardinality(Queued(r)) + Closing(r)

LEMMA CountTypes ==
  ASSUME TypeOK, NEW r
  PROVE  /\ openRFQS \in Seq(1..Len(rfqData))
         /\ IsFiniteSet(Listed(r)) /\ Cardinality(Listed(r)) \in Nat
         /\ IsFiniteSet(Queued(r)) /\ Cardinality(Queued(r)) \in Nat
         /\ Listed(r) = {i \in 1..Len(openRFQS) : rfqData[openRFQS[i]].ref = r}
         /\ Queued(r) = {p \in auctionQueue : rfqData[p].ref = r}
<1>1. openRFQS \in Seq(1..Len(rfqData)) /\ auctionQueue \subseteq 1..Len(rfqData)
  BY DEF TypeOK
<1>2. IsFiniteSet(Listed(r)) /\ Cardinality(Listed(r)) \in Nat
  BY <1>1, PlacesFinite DEF Listed
<1>3. IsFiniteSet(Queued(r)) /\ Cardinality(Queued(r)) \in Nat
  <2>1. IsFiniteSet(1..Len(rfqData)) /\ Queued(r) \in SUBSET (1..Len(rfqData))
    BY ObjectTypes, FS_Interval DEF Queued, ObjectsOf
  <2> QED
    BY <2>1, FS_Subset, FS_CardinalityType
<1>4. \A i \in 1..Len(openRFQS) : openRFQS[i] \in 1..Len(rfqData)
  BY <1>1, ElementOfSeq
<1>5. Listed(r) = {i \in 1..Len(openRFQS) : rfqData[openRFQS[i]].ref = r}
  BY <1>4 DEF Listed, PlacesOf, ObjectsOf
<1>6. Queued(r) = {p \in auctionQueue : rfqData[p].ref = r}
  <2>1. \A p \in auctionQueue : p \in ObjectsOf(r) <=> rfqData[p].ref = r
    BY <1>1 DEF ObjectsOf
  <2> QED
    BY <2>1, Zenon DEF Queued
<1> QED
  BY <1>1, <1>2, <1>3, <1>5, <1>6

\* A step that leaves list, queue, the references and the manager's record alone.
LEMMA CountFrame ==
  ASSUME CountInv, UNCHANGED <<openRFQS, auctionQueue>>,
         Len(rfqData') = Len(rfqData),
         \A p \in 1..Len(rfqData) : rfqData'[p].ref = rfqData[p].ref,
         (managerPc' = "store") = (managerPc = "store"),
         managerPc = "store" => managerTx' = managerTx
  PROVE  CountInv'
<1>1. ASSUME NEW r \in RFQ
      PROVE  ObjectsOf(r)' = ObjectsOf(r) /\ Closing(r)' = Closing(r)
  BY DEF ObjectsOf, Closing
<1> QED
  BY <1>1 DEF CountInv, Listed, Queued, PlacesOf

LEMMA OpenCount ==
  ASSUME TypeOK, CountInv, StoreOpenRFQ
  PROVE  CountInv'
<1> SUFFICES ASSUME NEW r \in RFQ
             PROVE  Cardinality(Listed(r)') = Cardinality(Queued(r)') + Closing(r)'
  BY DEF CountInv
<1>1. PICK ptr : ptr = Len(rfqData) + 1
  BY Zenon
<1>2. PICK G : G = ObjectsOf(r)'
  BY Zenon
<1>3. /\ openRFQS' = Append(openRFQS, ptr) /\ auctionQueue' = auctionQueue \cup {ptr}
      /\ Closing(r)' = Closing(r)
  BY <1>1 DEF StoreOpenRFQ, WriteOpenRFQ, managerVars, Closing
<1>4. ptr \notin 1..Len(rfqData) /\ auctionQueue \subseteq 1..Len(rfqData)
  BY <1>1, ObjectTypes
<1>5. G = ObjectsOf(r) \cup (IF listenerTx.id = r THEN {ptr} ELSE {})
  <2>1. /\ 1..Len(rfqData') = (1..Len(rfqData)) \cup {ptr} /\ rfqData'[ptr].ref = listenerTx.id
        /\ \A p \in 1..Len(rfqData) : rfqData'[p] = rfqData[p]
    BY <1>1, ObjectTypes, OpenEffect
  <2> QED
    BY <1>2, <1>4, <2>1 DEF ObjectsOf
<1>6. /\ ptr \in G <=> listenerTx.id = r
      /\ \A p \in 1..Len(rfqData) : p \in G <=> p \in ObjectsOf(r)
  BY <1>4, <1>5 DEF ObjectsOf
<1>7. /\ openRFQS \in Seq(1..Len(rfqData))
      /\ Cardinality(Listed(r)) \in Nat
      /\ IsFiniteSet(Queued(r)) /\ Cardinality(Queued(r)) \in Nat
  BY CountTypes
<1>8. Cardinality(Listed(r)') = Cardinality(Listed(r)) + (IF listenerTx.id = r THEN 1 ELSE 0)
  <2>1. PlacesOf(openRFQS, G) = Listed(r)
    <3>1. \A i \in 1..Len(openRFQS) : openRFQS[i] \in 1..Len(rfqData)
      BY <1>7, ElementOfSeq
    <3> QED
      BY <1>6, <3>1 DEF PlacesOf, Listed
  <2>2. Listed(r)' = PlacesOf(Append(openRFQS, ptr), G)
    BY <1>2, <1>3 DEF Listed, PlacesOf
  <2> QED
    BY <1>6, <1>7, <2>1, <2>2, AppendPlaces
<1>9. Cardinality(Queued(r)') = Cardinality(Queued(r)) + (IF listenerTx.id = r THEN 1 ELSE 0)
  <2>1. Queued(r)' = IF listenerTx.id = r THEN Queued(r) \cup {ptr} ELSE Queued(r)
    <3>1. Queued(r)' = (auctionQueue \cup {ptr}) \cap G
      BY <1>2, <1>3 DEF Queued
    <3>2. \A p \in auctionQueue : p \in G <=> p \in ObjectsOf(r)
      BY <1>4, <1>6, Zenon
    <3>3. CASE listenerTx.id = r
      <4>1. ptr \in G
        BY <1>6, <3>3, Zenon
      <4>2. Queued(r)' = Queued(r) \cup {ptr}
        BY <3>1, <3>2, <4>1, Zenon DEF Queued
      <4> QED
        BY <3>3, <4>2
    <3>4. CASE listenerTx.id # r
      <4>1. ptr \notin G
        BY <1>6, <3>4, Zenon
      <4>2. Queued(r)' = Queued(r)
        BY <3>1, <3>2, <4>1, Zenon DEF Queued
      <4> QED
        BY <3>4, <4>2
    <3> QED
      BY <3>3, <3>4
  <2>2. ptr \notin Queued(r)
    BY <1>4, Zenon DEF Queued
  <2>3. Cardinality(Queued(r) \cup {ptr}) = Cardinality(Queued(r)) + 1
    BY <1>7, <2>2, FS_AddElement, Zenon
  <2> QED
    BY <1>7, <2>1, <2>3
<1>10. Closing(r) \in {0, 1}
  BY DEF Closing
<1> QED
  BY <1>3, <1>7, <1>8, <1>9, <1>10 DEF CountInv

LEMMA PopCount ==
  ASSUME TypeOK, CountInv, PopAuction
  PROVE  CountInv'
<1> SUFFICES ASSUME NEW r \in RFQ
             PROVE  Cardinality(Listed(r)') = Cardinality(Queued(r)') + Closing(r)'
  BY DEF CountInv
<1>1. PICK m \in auctionQueue :
        auctionQueue' = auctionQueue \ {m} /\ managerTx' = Close(rfqData[m])
  BY DEF PopAuction, QueueHeads
<1>2. m \in 1..Len(rfqData) /\ rfqData[m] \in RFQData
  BY <1>1, ObjectTypes
<1>3. managerTx'.ref = rfqData[m].ref
  BY <1>1, <1>2 DEF Close, RFQData
<1>4. /\ Closing(r) = 0 /\ Closing(r)' = (IF rfqData[m].ref = r THEN 1 ELSE 0)
      /\ openRFQS' = openRFQS
  BY <1>3 DEF PopAuction, Closing
<1>5. ObjectsOf(r)' = ObjectsOf(r)
  <2>1. /\ Len(rfqData') = Len(rfqData)
        /\ \A p \in 1..Len(rfqData) : rfqData'[p].ref = rfqData[p].ref
    BY PopEffect
  <2> QED
    BY <2>1 DEF ObjectsOf
<1>6. /\ Cardinality(Listed(r)) \in Nat
      /\ IsFiniteSet(Queued(r)) /\ Cardinality(Queued(r)) \in Nat
  BY CountTypes
<1>7. Listed(r)' = Listed(r)
  BY <1>4, <1>5 DEF Listed, PlacesOf
<1>8. Queued(r)' = Queued(r) \ {m}
  BY <1>1, <1>5, Zenon DEF Queued
<1>9. m \in Queued(r) <=> rfqData[m].ref = r
  BY <1>1, <1>2 DEF Queued, ObjectsOf
<1>10. Cardinality(Queued(r) \ {m})
         = IF m \in Queued(r) THEN Cardinality(Queued(r)) - 1 ELSE Cardinality(Queued(r))
  BY <1>6, FS_RemoveElement, Zenon
<1> QED
  BY <1>4, <1>6, <1>7, <1>8, <1>9, <1>10 DEF CountInv

\* RemoveFirst finds an object: the record to close is still counted in the list.
LEMMA CloseCount ==
  ASSUME TypeOK, CountInv, StoreClosedRFQ
  PROVE  CountInv'
<1> DEFINE c == managerTx.ref
           hits == {i \in 1..Len(openRFQS) : rfqData[openRFQS[i]].ref = c}
           k == CHOOSE i \in hits : \A j \in hits : i <= j
<1>1. /\ managerPc = "store" /\ managerPc' = "emit" /\ c \in RFQ
      /\ openRFQS' = RemoveFirst(openRFQS, c)
      /\ UNCHANGED <<rfqData, auctionQueue>>
  BY DEF StoreClosedRFQ, WriteClosedRFQ, TypeOK, RFQData
<1>2. /\ openRFQS \in Seq(1..Len(rfqData))
      /\ IsFiniteSet(Listed(c)) /\ Cardinality(Queued(c)) \in Nat
      /\ Listed(c) = hits
  BY CountTypes
<1>3. hits # {}
  <2>1. Cardinality(Listed(c)) = Cardinality(Queued(c)) + 1
    BY <1>1 DEF CountInv, Closing
  <2>2. Listed(c) # {}
    BY <1>2, <2>1, FS_EmptySet
  <2> QED
    BY <1>2, <2>2, Zenon
<1>4. hits \subseteq Nat
  BY <1>2, LenProperties
<1>5. k \in hits
  <2> HIDE DEF hits
  <2> QED
    BY <1>3, <1>4, FirstIndex, Zenon
<1>6. openRFQS' = SubSeq(openRFQS, 1, k - 1) \o SubSeq(openRFQS, k + 1, Len(openRFQS))
  BY <1>1, <1>3, Zenon DEF RemoveFirst
<1> HIDE DEF k
<1>7. k \in 1..Len(openRFQS) /\ rfqData[openRFQS[k]].ref = c
  BY <1>5
<1> HIDE DEF hits, c
<1>8. ASSUME NEW r \in RFQ
      PROVE  Cardinality(Listed(r)') = Cardinality(Queued(r)') + Closing(r)'
  <2>1. /\ ObjectsOf(r)' = ObjectsOf(r) /\ Queued(r)' = Queued(r) /\ Closing(r)' = 0
    BY <1>1 DEF ObjectsOf, Queued, Closing
  <2>2. Cardinality(Listed(r)) \in Nat /\ Cardinality(Queued(r)) \in Nat
    BY CountTypes
  <2>3. openRFQS[k] \in ObjectsOf(r) <=> r = c
    <3>1. openRFQS[k] \in 1..Len(rfqData)
      BY <1>2, <1>7, ElementOfSeq
    <3> QED
      BY <1>7, <3>1 DEF ObjectsOf
  <2>4. Closing(r) = IF r = c THEN 1 ELSE 0
    BY <1>1 DEF Closing, c
  <2>5. Listed(r)'
          = PlacesOf(SubSeq(openRFQS, 1, k - 1) \o SubSeq(openRFQS, k + 1, Len(openRFQS)),
                     ObjectsOf(r))
    BY <1>6, <2>1, Zenon DEF Listed, PlacesOf
  <2>6. Cardinality(Listed(r)')
          = Cardinality(Listed(r)) - (IF openRFQS[k] \in ObjectsOf(r) THEN 1 ELSE 0)
    BY <1>2, <1>7, <2>5, WithoutIndexPlaces DEF Listed
  <2> QED
    BY <2>1, <2>2, <2>3, <2>4, <2>6 DEF CountInv
<1> QED
  BY <1>8 DEF CountInv

LEMMA NextCountInv == TypeOK /\ CountInv /\ [Next]_vars => CountInv'
<1> SUFFICES ASSUME TypeOK, CountInv, [Next]_vars
             PROVE  CountInv'
  OBVIOUS
<1>1. CASE StoreOpenRFQ
  BY <1>1, OpenCount
<1>2. CASE PopAuction
  BY <1>2, PopCount
<1>3. CASE StoreClosedRFQ
  BY <1>3, CloseCount
<1>4. ASSUME NEW h \in Handler, UpdateActiveRFQ(h)
      PROVE  CountInv'
  <2>1. UNCHANGED <<openRFQS, auctionQueue, managerPc, managerTx>>
    BY <1>4 DEF UpdateActiveRFQ, managerVars
  <2>2. /\ Len(rfqData') = Len(rfqData)
        /\ \A p \in 1..Len(rfqData) : rfqData'[p].ref = rfqData[p].ref
    BY <1>4, UpdateEffect
  <2> QED
    BY <2>1, <2>2, CountFrame
<1>5. ASSUME NEW h \in Handler, Handle(h), ~ UpdateActiveRFQ(h)
      PROVE  CountInv'
  BY <1>5, CountFrame
     DEF Handle, PostRFQRequest, PostQuote, StoreQuote, SubmitTx, managerVars, memoryVars
<1>6. CASE Tick \/ ProcessTransaction \/ EmitTxEvent \/ HandleRFQRequest \/ SubmitOpenRFQ
             \/ HandleQuoteOrClose \/ UNCHANGED vars
  BY <1>6, CountFrame
     DEF Tick, ProcessTransaction, EmitTxEvent, HandleRFQRequest, SubmitOpenRFQ,
         HandleQuoteOrClose, vars, managerVars, memoryVars
<1>7. CASE ManagerTick \/ NothingDue \/ EmitClosedRFQ
  BY <1>7, CountFrame DEF ManagerTick, NothingDue, EmitClosedRFQ, memoryVars
<1> QED
  BY <1>1, <1>2, <1>3, <1>4, <1>5, <1>6, <1>7 DEF Next, Listen, Manage

\* No auction is orphaned and none is closed twice, for any number of handlers
\* and RFQs and however often an RFQ is opened: openRFQS and the queue of the
\* auction manager agree but for the one auction that is being closed.
THEOREM OpenAuctionsAreQueued == Spec => []EveryOpenRFQWillClose
<1>1. Init => CountInv
  <2> SUFFICES ASSUME Init, NEW r \in RFQ
               PROVE  Cardinality(Listed(r)) = Cardinality(Queued(r)) + Closing(r)
    BY DEF CountInv
  <2>1. Len(openRFQS) = 0 /\ auctionQueue = {} /\ managerPc = "wait"
    BY EmptySeq DEF Init
  <2>2. Listed(r) = {} /\ Queued(r) = {} /\ Closing(r) = 0
    BY <2>1 DEF Listed, PlacesOf, Queued, Closing
  <2> QED
    BY <2>2, FS_EmptySet
<1>2. TypeOK /\ CountInv => EveryOpenRFQWillClose
  <2> SUFFICES ASSUME TypeOK, CountInv, NEW r \in RFQ
               PROVE  Cardinality({i \in 1..Len(openRFQS) : rfqData[openRFQS[i]].ref = r})
                        = Cardinality({p \in auctionQueue : rfqData[p].ref = r}) + Closing(r)
    BY Zenon DEF EveryOpenRFQWillClose, Closing
  <2>1. Cardinality(Listed(r)) = Cardinality(Queued(r)) + Closing(r)
    BY DEF CountInv
  <2> QED
    BY <2>1, CountTypes, Zenon
<1> QED
  BY <1>1, <1>2, TypeCorrect, NextCountInv, PTL DEF Spec
=============================================================================
