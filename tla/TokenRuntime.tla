---------------------------- MODULE TokenRuntime ----------------------------
(***************************************************************************)
(* The persistent index of chronik-runtime/src/lib.rs.  The database is    *)
(* the sequence of the indexed blocks by height; a block, its transactions *)
(* and its token data are written or removed by one atomic batch.          *)
(***************************************************************************)
EXTENDS Blocks

\* The tip is absent (NoBlock) from an empty database.
RuntimeTip(db) == IF db = <<>> THEN NoBlock ELSE Last(db)

\* connect_block and disconnect_block reject a block out of order.  The node
\* reports a disconnection without a height: the tip's is used instead.
Fits(db, e) ==
  IF e.kind = "connected"
    THEN /\ Height(e.block) = Len(db)
         /\ PrevHash(e.block) = RuntimeTip(db)
    ELSE /\ db # <<>>
         /\ e.block = RuntimeTip(db)

Mutated(db, e) ==
  IF e.kind = "connected" THEN Append(db, e.block) ELSE Front(db)

\* confirmed_tx_location: the indexed block that carries the transaction.
TxLocation(db, tx) ==
  IF \E n \in DOMAIN db : TxOf(db[n]) = tx
    THEN db[CHOOSE n \in DOMAIN db : TxOf(db[n]) = tx]
    ELSE NoBlock

\* token_info: absent too when the transaction defines no token.
TokenInfo(db, tx) == IF tx \in Tokens THEN TxLocation(db, tx) ELSE NoBlock
=============================================================================
