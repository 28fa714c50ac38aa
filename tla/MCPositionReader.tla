-------------------------- MODULE MCPositionReader --------------------------
(* An instance of PositionReader for TLC: two threads that read, a genesis  *)
(* transaction and two more that name the blocks.                          *)
EXTENDS PositionReader, TLC

CONSTANTS r1, r2, g, x, y

Interchangeable == Permutations(Readers) \cup Permutations(Txs \ {GenesisTx})
=============================================================================
