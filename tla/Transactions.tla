---------------------------- MODULE Transactions ----------------------------
(***************************************************************************)
(* Transactions, blocks and the order of a pool, for the modules that      *)
(* model the native source and the index that follows it.                  *)
(*                                                                         *)
(* A transaction is its id, a number, because the node's std::set of pool  *)
(* entries is ordered by id (src/txmempool.h, CompareIteratorById).  It    *)
(* has one output, named by its id, and spends a set of outputs.           *)
(***************************************************************************)
EXTENDS Integers, Sequences, FiniteSets, Folds

CONSTANTS
  TxIds,      \* a finite set of numbers
  Coins,      \* outputs confirmed before the model starts, numbers too
  Inputs,     \* Inputs[t]: the outputs transaction t spends
  Blocks,
  Prev,       \* Prev[b]: the block b builds on
  BlockTxs,   \* BlockTxs[b]: its transactions, the coinbase left out
  Root        \* the block all chains of the model start from

ASSUME TransactionsAssumption ==
  /\ TxIds \subseteq Nat /\ IsFiniteSet(TxIds)
  /\ Coins \subseteq Nat \ TxIds
  /\ Inputs \in [TxIds -> SUBSET (TxIds \cup Coins)]
  /\ BlockTxs \in [Blocks -> SUBSET TxIds]
  /\ Prev \in [Blocks -> Blocks \cup {Root}]

\* As in SequencesExt, which brings in Bags: the prover takes several times as
\* long over every step of a module that reaches it.
Front(s) == SubSeq(s, 1, Len(s) - 1)
Last(s) == s[Len(s)]
Reverse(s) == [i \in DOMAIN s |-> s[Len(s) - i + 1]]
FoldLeft(op(_, _), base, s) ==
  MapThenFoldSet(LAMBDA i, acc : op(acc, s[i]), base, LAMBDA i : i,
                 LAMBDA is : CHOOSE i \in is : \A j \in is : j <= i, DOMAIN s)

Parents(t) == Inputs[t] \cap TxIds

SpentBy(txs) == UNION {Inputs[t] : t \in txs}

Confirmed(chain) == UNION {BlockTxs[chain[i]] : i \in 1 .. Len(chain)}

TipOf(chain) == IF chain = <<>> THEN Root ELSE Last(chain)

\* Outputs a transaction may spend on top of a chain and a pool.
Available(chain, pool) ==
  (Coins \cup Confirmed(chain) \cup pool)
    \ (SpentBy(Confirmed(chain)) \cup SpentBy(pool))

DescendantClosed(txs, all) ==
  \A t \in all : Parents(t) \cap txs # {} => t \in txs

\* CalculateDescendants and removeRecursive: the members of the pool among
\* txs, and everything in the pool that depends on one of txs.
Descendants(pool, txs) ==
  {t \in pool : \A d \in SUBSET (pool \cup txs) :
                   txs \subseteq d /\ DescendantClosed(d, pool) => t \in d}

Orders(txs) ==
  {s \in [1 .. Cardinality(txs) -> txs] :
     \A i, j \in DOMAIN s : s[i] = s[j] => i = j}

\* A set in the order of std::set, smallest id first.
InIdOrder(txs) ==
  CHOOSE s \in Orders(txs) : \A i, j \in DOMAIN s : i < j => s[i] < s[j]

\* Some order of txs in which parents come before children.
Topological(txs) ==
  CHOOSE s \in Orders(txs) :
    \A i, j \in DOMAIN s : s[i] \in Parents(s[j]) => i < j
=============================================================================
