------------------------------ MODULE MCNodes ------------------------------
(* A small instance of Nodes: two nodes and a POST each. *)
EXTENDS Nodes

CONSTANTS k1, k2, p1, p2, a, b,
          v, f, r1, r2, r3, h1, h2

\* main: the validator dials the follower, which dials itself.
MCLink == {<<v, f>>, <<f, v>>, <<f, f>>}

MCProcess == [n \in Node |-> n]
=============================================================================
