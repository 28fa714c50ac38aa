--------------------------- MODULE MCNodeObserver ---------------------------
(* Instances of NodeObserver for TLC: a genesis transaction, two more that  *)
(* name the blocks, and a client.                                          *)
EXTENDS NodeObserver

CONSTANTS g, a, b, q1

OneOrTwo == {<<g>>, <<g, a>>}
EmptyOrLong == {<<>>, <<g, a, b>>}
=============================================================================
