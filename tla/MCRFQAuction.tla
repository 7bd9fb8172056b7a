---------------------------- MODULE MCRFQAuction ----------------------------
(***************************************************************************)
(* Instances of RFQAuction for TLC.  Both quotes answer r1; r1 lasts one   *)
(* clock unit, r2 two, r0 asks for no time at all and must be refused, and *)
(* the duration of big does not fit an int64.                              *)
(***************************************************************************)
EXTENDS RFQRefinement, TLC

CONSTANTS r1, r2, r0, big, q1, q2, h1, h2, h3, h4

MCRFQTxHash == [q \in Quote |-> r1]

MCDuration ==
  [r \in RFQ |-> CASE r = r1 -> 1 [] r = r2 -> 2 [] r = r0 -> 0
                   [] r = big -> 2 * Int64Sup - 1]

\* Handlers differ only in what they were sent.
HandlerSymmetry == Permutations(Handler)
=============================================================================
