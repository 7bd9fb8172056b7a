------------------------------- MODULE RFQLife -------------------------------
(***************************************************************************)
(* What the relayer promises of an RFQ, without goroutines, channels, the  *)
(* pool or the clock: it is requested, opened once and closed once; quotes *)
(* are recorded once it has been opened; its result is fixed when it is    *)
(* closed and consists of recorded quotes.  RFQAuction implements this     *)
(* specification while its pool does not forget.                           *)
(***************************************************************************)
EXTENDS Sequences, Functions

CONSTANTS RFQ, Quote

VARIABLES
  phase,    \* of each RFQ
  quotes,   \* the quotes recorded for it
  result    \* the set of quotes it was closed with

vars == <<phase, quotes, result>>

Init ==
  /\ phase = [r \in RFQ |-> "none"]
  /\ quotes = [r \in RFQ |-> <<>>]
  /\ result = [r \in RFQ |-> {}]

Moves(r, from, to) == phase[r] = from /\ phase' = [phase EXCEPT ![r] = to]

Request(r) == Moves(r, "none", "requested") /\ UNCHANGED <<quotes, result>>

Open(r) == Moves(r, "requested", "open") /\ UNCHANGED <<quotes, result>>

\* A quote that was checked before the closing can be recorded after it.
Record(r, q) ==
  /\ phase[r] \in {"open", "closed"}
  /\ quotes' = [quotes EXCEPT ![r] = Append(@, q)]
  /\ UNCHANGED <<phase, result>>

Close(r) ==
  /\ Moves(r, "open", "closed")
  /\ \E s \in SUBSET Range(quotes[r]) : result' = [result EXCEPT ![r] = s]
  /\ UNCHANGED quotes

Next ==
  \E r \in RFQ : \/ Request(r) \/ Open(r) \/ Close(r)
                 \/ \E q \in Quote : Record(r, q)

Spec == Init /\ [][Next]_vars
=============================================================================
