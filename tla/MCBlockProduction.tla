------------------------- MODULE MCBlockProduction -------------------------
(* BlockProduction with two handlers and a reader, or one and two readers. *)
EXTENDS BlockProduction

CONSTANTS t1, t2, h1, h2, g1, g2

\* Bound: the second handler and the second reader are not both busy.
MCNext == Next /\ (pc'[h2] = "idle" \/ readerPc'[g2] = "idle")

MCSpec == Init /\ [][MCNext]_vars /\ Fairness
=============================================================================
