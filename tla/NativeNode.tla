----------------------------- MODULE NativeNode -----------------------------
(***************************************************************************)
(* The native source of the archival index: the active chain and the pool  *)
(* of src/validation.cpp and src/txmempool.cpp, with the events they give  *)
(* to the attached journal.                                                *)
(*                                                                         *)
(* All of a change runs under cs_main.  Its effect on chain and pool is    *)
(* one step, since whoever reads them holds cs_main too; its events are    *)
(* then recorded one by one, since the journal is read without cs_main.    *)
(* While events are left to record, cs_main is held.                       *)
(*                                                                         *)
(* Left out: lock times, coinbase maturity and script flags, hence         *)
(* removeForReorg and the pool import of a rule change.                    *)
(***************************************************************************)
EXTENDS Transactions

CONSTANTS
  Expirable,    \* transactions expiry or the size limit may pick
  InitChain,    \* the chain at the start
  MaxChanges    \* bound on the changes of the source

\* The chain at the start is one of the block tree.
ASSUME InitChainAssumption ==
  /\ InitChain \in Seq(Blocks)
  /\ \A i \in 1 .. Len(InitChain) :
       Prev[InitChain[i]] = IF i = 1 THEN Root ELSE InitChain[i - 1]

VARIABLES
  chain, pool,
  chain_generation, mempool_revision,
  invalid,      \* blocks that were invalidated
  emitting      \* events of the change under way, still to be recorded

source == <<chain, pool, chain_generation, mempool_revision, invalid>>

AddedEvent(t) == [kind |-> "Added", tx |-> t]
RemovedEvent(t) == [kind |-> "Removed", tx |-> t]
ConnectedEvent(b, conflicts) ==
  [kind |-> "Connected", block |-> b, conflicts |-> conflicts]
DisconnectedEvent(b) == [kind |-> "Disconnected", block |-> b]

NodeInit ==
  /\ chain = InitChain
  /\ pool = {}
  /\ chain_generation = 1 /\ mempool_revision = 1
  /\ invalid = {}
  /\ emitting = <<>>

\* cs_main is free.
SourceFree == emitting = <<>>

\* What names a state of the source to those who read it without a lock.
BindingWithoutPool == <<TipOf(chain), Len(chain), chain_generation>> \* mutant
Binding == <<TipOf(chain), Len(chain), chain_generation, mempool_revision>>

-----------------------------------------------------------------------------
(* A change under way: the pool so far and the events it has given.        *)
Change(p, events) == [pool |-> p, events |-> events]

\* Mutant: a removal that gives no event.
RemoveStagedSilent(change, stage) ==
  Change(change.pool \ stage, change.events)

\* RemoveStaged: a package leaves in the order of a std::set, by id.
RemoveStaged(change, stage) ==
  Change(change.pool \ stage,
         change.events \o [i \in 1 .. Cardinality(stage) |->
                             RemovedEvent(InIdOrder(stage)[i])])

\* LimitSize: what expired leaves as one package, then what is trimmed.
LimitSize(change, expired, trimmed) ==
  LET rest == RemoveStaged(change, Descendants(change.pool, expired \cap change.pool))
  IN  RemoveStaged(rest, Descendants(rest.pool, trimmed \cap rest.pool))

\* AcceptToMemoryPool of a transaction from outside: trimming comes before
\* the acceptance is recorded, and a transaction trimmed at once is not.
Accept(t, expired, trimmed) ==
  /\ t \notin pool \cup Confirmed(chain)
  /\ Inputs[t] \subseteq Available(chain, pool)
  /\ LET limited == LimitSize(Change(pool \cup {t}, <<>>), expired, trimmed)
     IN  /\ pool' = limited.pool
         /\ emitting' = IF t \in limited.pool
                        THEN Append(limited.events, AddedEvent(t))
                        ELSE limited.events
  /\ mempool_revision' = mempool_revision + 1
  /\ UNCHANGED <<chain, chain_generation, invalid>>

\* A change of the pool's metadata gives no event (PrioritiseTransaction).
Prioritise ==
  /\ mempool_revision' = mempool_revision + 1
  /\ UNCHANGED <<chain, pool, chain_generation, invalid, emitting>>

\* updateMempoolForReorg: disconnected transactions come back, parents
\* first; one that is not accepted takes its dependents with it.
Resurrect(newchain, change, disconnected, refused) ==
  FoldLeft(LAMBDA c, t :
             IF t \notin refused /\ t \notin c.pool
                /\ Inputs[t] \subseteq Available(newchain, c.pool)
             THEN Change(c.pool \cup {t}, Append(c.events, AddedEvent(t)))
             ELSE RemoveStaged(c, Descendants(c.pool, {t})),
           change, Topological(disconnected))

\* removeForBlock: the mined leave without an event, conflicts are kept for
\* the event of their block.
Conflicts(p, b) ==
  LET left == p \ BlockTxs[b]
  IN  Descendants(left, {t \in left : Inputs[t] \cap SpentBy(BlockTxs[b]) # {}})

ConnectTip(state, b) ==
  [pool |-> state.pool \ (BlockTxs[b] \cup Conflicts(state.pool, b)),
   connected |-> Append(state.connected,
                        ConnectedEvent(b, Conflicts(state.pool, b)))]

ConnectTips(state, blocks) == FoldLeft(ConnectTip, state, blocks)

\* A block's transactions can be confirmed on top of a chain.
ValidOn(c, b) ==
  /\ Prev[b] = TipOf(c)
  /\ b \notin invalid
  /\ BlockTxs[b] \cap Confirmed(c) = {}
  /\ \A t \in BlockTxs[b] :
       /\ Inputs[t] \subseteq Available(c, {}) \cup BlockTxs[b]
       /\ \A u \in BlockTxs[b] \ {t} : Inputs[t] \cap Inputs[u] = {}

\* ActivateBestChainStep: back to the fork, then the new blocks up to the
\* first one with more work; the pool is brought up to date for the new
\* chain, and only then are the connected blocks announced.
Activate(keep, blocks, refused, expired) ==
  LET fork == SubSeq(chain, 1, keep)
      dropped == Reverse(SubSeq(chain, keep + 1, Len(chain)))
      step == ConnectTips([pool |-> pool, connected |-> <<>>], blocks)
      mined == UNION {BlockTxs[blocks[i]] : i \in 1 .. Len(blocks)}
      back == (Confirmed(chain) \ Confirmed(fork)) \ mined
      updated == IF dropped = <<>> THEN Change(step.pool, <<>>)
                 ELSE LimitSize(Resurrect(fork \o blocks, Change(step.pool, <<>>),
                                          back, refused), expired, {})
  IN  /\ Len(blocks) = Len(dropped) + 1
      /\ keep < Len(chain) => blocks[1] # chain[keep + 1]
      /\ \A i \in 1 .. Len(blocks) :
           ValidOn(fork \o SubSeq(blocks, 1, i - 1), blocks[i])
      /\ chain' = fork \o blocks
      /\ pool' = updated.pool
      /\ emitting' = [i \in 1 .. Len(dropped) |-> DisconnectedEvent(dropped[i])]
                     \o updated.events \o step.connected
      /\ chain_generation' = chain_generation + 1
      /\ mempool_revision' = mempool_revision + 1
      /\ UNCHANGED invalid

\* UnwindBlock: the tip is disconnected and may not come back.
Unwind(refused, expired) ==
  LET fork == Front(chain)
      back == BlockTxs[Last(chain)]
      updated == LimitSize(Resurrect(fork, Change(pool, <<>>), back, refused),
                           expired, {})
  IN  /\ chain # <<>>
      /\ chain' = fork
      /\ pool' = updated.pool
      /\ emitting' = <<DisconnectedEvent(Last(chain))>> \o updated.events
      /\ chain_generation' = chain_generation + 1
      /\ mempool_revision' = mempool_revision + 1
      /\ invalid' = invalid \cup {Last(chain)}

\* Every change holds cs_main.
SourceStep ==
  /\ SourceFree /\ mempool_revision < MaxChanges
  /\ \E expired \in SUBSET Expirable :
       \/ \E t \in TxIds : \E trimmed \in SUBSET Expirable :
            Accept(t, expired, trimmed)
       \/ Prioritise
       \/ \E refused \in SUBSET Confirmed(chain) :
            \/ Unwind(refused, expired)
            \/ \E keep \in 0 .. Len(chain) :
                 \E blocks \in [1 .. Len(chain) - keep + 1 -> Blocks] :
                   Activate(keep, blocks, refused, expired)
=============================================================================
