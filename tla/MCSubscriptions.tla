--------------------------- MODULE MCSubscriptions ---------------------------
(* Instances of Subscriptions for TLC.                                     *)
EXTENDS Subscriptions

CONSTANTS a, b, t, u, all, script

OneAddress == [s \in Sessions |-> "loopback"]
OneTouches == [x \in Txs |-> IF x = t THEN {script} ELSE {}]

\* Two channels lagging behind; all slots taken; one channel, on which a
\* transaction is confirmed again after its block was disconnected.
ThreeBudgets == {<<2, 2, 2>>, <<0, 4, 2>>, <<3, 1, 1>>}
=============================================================================
