--------------------------- MODULE MempoolOverlay ---------------------------
(***************************************************************************)
(* The index's view of the pool (chronik-db/src/mem): the transactions it  *)
(* holds and which of their outputs it lists as unspent.  spent_by is not  *)
(* kept apart: it marks exactly the inputs of the transactions held.       *)
(* Each operation comes with the condition under which it returns Err.     *)
(***************************************************************************)
EXTENDS Transactions

\* DuplicateUtxo, UtxoDoesntExist, DuplicateSpentByEntry.
InsertError(o, t) ==
  \/ t \in o.utxos
  \/ ~(Inputs[t] \cap o.txs \subseteq o.utxos)
  \/ Inputs[t] \cap SpentBy(o.txs) # {}

\* MempoolTokens::probe: every input is looked up, pool first, then database.
InputTxNotFound(o, confirmed, t) ==
  ~(Inputs[t] \subseteq o.txs \cup confirmed \cup Coins)

OverlayInsert(o, t) ==
  [txs |-> o.txs \cup {t},
   utxos |-> (o.utxos \cup {t}) \ (Inputs[t] \cap o.txs)]

\* UtxoAlreadyUnspent, UtxoDoesntExistForRemoval.
RemoveError(o, t) ==
  \/ Inputs[t] \cap o.txs \cap o.utxos # {}
  \/ t \notin o.utxos

OverlayRemove(o, t) ==
  [txs |-> o.txs \ {t},
   utxos |-> (o.utxos \cup (Inputs[t] \cap o.txs)) \ {t}]

\* A mined transaction may leave children behind; the error is discarded.
OverlayRemoveMined(o, mined) ==
  [txs |-> o.txs \ mined, utxos |-> o.utxos \ (mined \cap o.txs)]

\* Nothing that stays depends on what is removed.
NoneLeftBehind(txs, removed) ==
  \A t \in txs \ removed : Inputs[t] \cap removed = {}

\* Remove a set, children first; ok when no removal returned Err.
RemoveLeavesFirst(o, txs) ==
  FoldLeft(LAMBDA acc, t :
             IF ~acc.ok \/ RemoveError(acc.overlay, t)
             THEN [acc EXCEPT !.ok = FALSE]
             ELSE [acc EXCEPT !.overlay = OverlayRemove(acc.overlay, t)],
           [ok |-> TRUE, overlay |-> o],
           Reverse(Topological(txs)))

\* The overlay the node's pool would give if it were read afresh.
OverlayOf(pool) == [txs |-> pool, utxos |-> pool \ SpentBy(pool)]
=============================================================================
