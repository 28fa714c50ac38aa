------------------------------- MODULE Blocks -------------------------------
(***************************************************************************)
(* Blocks and the active chain, as the observer's code tells them apart.   *)
(* A block carries one transaction, and its hash commits to its ancestors: *)
(* a block is the sequence of the transactions confirmed from genesis up   *)
(* to it, and two blocks with different ancestors differ.  A chain is      *)
(* named by the hash of its tip, NoBlock when it is empty.                 *)
(***************************************************************************)
EXTENDS Integers, Sequences, Functions

CONSTANTS Txs,          \* transactions a block may carry
          GenesisTx,    \* the one the genesis block carries
          Tokens        \* the transactions that define a token

ASSUME BlocksAssumption ==
  /\ GenesisTx \in Txs
  /\ Tokens \subseteq Txs

\* As in SequencesExt, which brings in Bags: the prover takes several times as
\* long over every step of a module that reaches it.
Front(s) == SubSeq(s, 1, Len(s) - 1)
Last(s) == s[Len(s)]
IsPrefix(s, t) == Len(s) <= Len(t) /\ s = SubSeq(t, 1, Len(s))

NoBlock == <<>>

PrevHash(b) == Front(b)
Height(b) == Len(b) - 1
TxOf(b) == Last(b)

\* ChainActive()[height]
BlockAt(tip, height) == SubSeq(tip, 1, height + 1)

\* ChainActive().Contains(block)
ActiveContains(tip, b) == b # NoBlock /\ IsPrefix(b, tip)

\* The blocks from genesis to the tip, in order of height.
ChainOf(tip) == [n \in 1 .. Len(tip) |-> BlockAt(tip, n - 1)]

\* The blocks that can extend a chain: a transaction is confirmed once.
Children(tip) ==
  {Append(tip, tx) : tx \in IF tip = NoBlock THEN {GenesisTx}
                            ELSE Txs \ Range(tip)}

(***************************************************************************)
(* A change of the active chain, as the validation interface reports it.   *)
(***************************************************************************)
BlockConnected(b) == [kind |-> "connected", block |-> b]
BlockDisconnected(b) == [kind |-> "disconnected", block |-> b]

From(e) == IF e.kind = "connected" THEN PrevHash(e.block) ELSE e.block
To(e) == IF e.kind = "connected" THEN e.block ELSE PrevHash(e.block)

\* The changes lead from one tip to the other, without a gap.
Leads(from, changes, to) ==
  IF changes = <<>> THEN from = to
  ELSE /\ From(Head(changes)) = from
       /\ To(Last(changes)) = to
       /\ \A i \in 1 .. Len(changes) - 1 : To(changes[i]) = From(changes[i + 1])
=============================================================================
