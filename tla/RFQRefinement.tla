---------------------------- MODULE RFQRefinement ----------------------------
(***************************************************************************)
(* The auctions of a node as RFQLife: what the tables and the map of open  *)
(* RFQs show of each RFQ.                                                  *)
(***************************************************************************)
EXTENDS RFQAuction

Phase(r) ==
  CASE r \in DOMAIN openRFQsMap -> "open"
    [] r \notin DOMAIN openRFQsMap /\ r \in DOMAIN closedRFQSTable -> "closed"
    [] OTHER -> IF r \in rfqRequestsTable THEN "requested" ELSE "none"

Result(r) ==
  IF r \in DOMAIN closedRFQSTable THEN {closedRFQSTable[r].quotes[i] : i \in DOMAIN closedRFQSTable[r].quotes}
  ELSE {}

Life == INSTANCE RFQLife WITH
  phase  <- [r \in RFQ |-> Phase(r)],
  quotes <- [r \in RFQ |-> StoredQuotes(r)],
  result <- [r \in RFQ |-> Result(r)]

\* What the tables and the map of open RFQs show of an RFQ, while handlers, main
\* loop, listener and manager interleave, is one pass through its life: opened
\* once, closed once, with a result made of recorded quotes and then fixed
\* (WriteRFQTxs, processAuctionQueue).
AuctionImplementsLife == Life!Spec

\* The pool has never been full, so that it has never forgotten a transaction.
PoolHasRoom == Len(memPool) < MaxLength
=============================================================================
