---------------------------- MODULE TokenLedger ----------------------------
(***************************************************************************)
(* Token transactions applied one after the other to the unspent outputs   *)
(* that hold tokens, as the indexer does with those of its mempool         *)
(* (chronik-db/src/mem/tokens.rs).  Transactions 1 .. Known are in blocks. *)
(***************************************************************************)
EXTENDS TokenRules, Functions

CONSTANTS
  Starts,          \* ledgers to start from: tokens that transactions 1 .. Known hold
  Known,
  Offers,          \* OP_RETURNs: sequences of sections; id 0 in a GENESIS
  Sizes,           \* numbers of outputs
  MaxInputs,       \* of a transaction and the one before it
  MaxTxs

ASSUME LedgerAssumption ==
  /\ Known \in Nat /\ MaxInputs \in Nat /\ MaxTxs \in Nat
  /\ Sizes \subseteq Nat \ {0} /\ MaxTxInputs \in Nat

VARIABLES
  coins,           \* unspent outputs with a token: <<transaction, output>> -> token
  count,           \* transactions so far
  tx               \* the transaction applied last

vars == <<coins, count, tx>>

NoTx == [spent |-> <<>>, colored |-> Uncolored(1), entries |-> <<>>,
         outputs |-> <<None>>]

Init == coins \in Starts /\ count = Known /\ tx = NoTx

\* Inputs: outputs with a token, or without (<<>>).
InputLists ==
  {list \in SeqOf(DOMAIN coins \cup {None}, MaxInputs - Len(tx.spent)) :
     /\ list # <<>>
     /\ \A i, j \in DOMAIN list : i # j /\ list[i] # None => list[i] # list[j]}

\* fetch_tx_spent_tokens.
SpentTokens(list) ==
  [i \in DOMAIN list |-> IF list[i] = None THEN None ELSE Some(coins[list[i]])]

\* A GENESIS names its token after its own transaction.
Parsed(offer) ==
  [i \in DOMAIN offer |->
     IF offer[i].op = "GENESIS"
     THEN [offer[i] EXCEPT !.meta = <<@[1], count + 1>>] ELSE offer[i]]

\* MINT of a MintVault token: its GENESIS must be in a block; an input may
\* then come from the vault's script.
VaultKnown(colored) ==
  /\ colored.sections # <<>> /\ colored.sections[1].op = "MINT"
  /\ colored.sections[1].meta[1] = "MintVault"
  /\ colored.sections[1].meta[2] \in 1 .. Known

\* probe: what the transaction does with its inputs' tokens.
Probed(colored, spent, hasVault) ==
  LET entries == Entries(colored, spent, hasVault)
  IN  [spent |-> spent, colored |-> colored, entries |-> entries,
       outputs |-> TokenOutputs(colored, entries)]

\* insert; the transaction's token inputs are gone.
ApplyTx(list, colored, hasVault) ==
  /\ tx' = Probed(colored, SpentTokens(list), hasVault)
  /\ LET kept == DOMAIN coins \ Range(list)
         made == {i \in DOMAIN tx'.outputs : tx'.outputs[i] # None}
     IN  coins' = [c \in kept \cup {<<count + 1, i>> : i \in made} |->
                     IF c \in kept THEN coins[c] ELSE The(tx'.outputs[c[2]])]
  /\ count' = count + 1

Apply ==
  /\ count < MaxTxs
  /\ \E list \in InputLists, offer \in Offers, size \in Sizes :
       LET colored == ColorTx(Parsed(offer), size)
       IN  \E hasVault \in {FALSE, VaultKnown(colored)} :
             ApplyTx(list, colored, hasVault)

Next == Apply

Spec == Init /\ [][Next]_vars

-----------------------------------------------------------------------------
(* Properties.                                                             *)

Received(meta) ==
  MapThenSumSet(LAMBDA i : The(tx.outputs[i]).variant.atoms,
    {i \in DOMAIN tx.outputs :
       tx.outputs[i] # None /\ The(tx.outputs[i]).meta = meta})

Reported(meta) ==
  MapThenSumSet(LAMBDA i : tx.entries[i].burned,
    {i \in DOMAIN tx.entries : tx.entries[i].meta = meta})

Announced(meta) ==
  MapThenSumSet(LAMBDA i : tx.colored.burns[i].atoms[1],
    {i \in DOMAIN tx.colored.burns : tx.colored.burns[i].meta = meta})

Issues(meta) ==
  \E i \in DOMAIN tx.colored.sections :
    /\ tx.colored.sections[i].meta = meta
    /\ tx.colored.sections[i].op \in {"GENESIS", "MINT"}

\* Atoms a CHILD GENESIS takes from its GROUP.
TakenFromGroup(meta) ==
  IF /\ tx.entries # <<>> /\ IsChildGenesis(tx.entries[1])
     /\ ~tx.entries[1].invalid /\ The(tx.spent[1]).meta = meta
  THEN The(tx.spent[1]).variant.atoms ELSE 0

Touched ==
  {tx.entries[i].meta : i \in DOMAIN tx.entries}
    \cup {The(tx.spent[i]).meta : i \in {j \in DOMAIN tx.spent : tx.spent[j] # None}}

\* Every atom is accounted for: of a token that the transaction does not issue,
\* what is spent is received again, reported as burned, or taken from a GROUP by
\* its CHILD; of one it issues, all that is spent is reported as burned.  This
\* covers several sections, amounts for outputs that do not exist, refused
\* colourings and tokens no section names (verify.rs verify, verify_section,
\* calc_bare_burns).  And a transaction all of whose entries are normal loses
\* what it announces and nothing else, mint batons included (burn_summary.rs
\* is_normal, on which broadcast.rs do_token_checks relies).
AtomsAreAccounted ==
  \A meta \in Touched :
    LET kept == TakenFromGroup(meta)
                  + (IF Issues(meta) THEN 0 ELSE Received(meta))
    IN  /\ InputSum(tx.spent, meta) = Reported(meta) + kept
        /\ (\A i \in DOMAIN tx.entries : IsNormal(tx.entries[i])) =>
             /\ InputSum(tx.spent, meta) = Announced(meta) + kept
             /\ HasMintBaton(tx.spent, meta) => Issues(meta)

Supply(meta) ==
  MapThenSumSet(LAMBDA c : coins[c].variant.atoms,
                {c \in DOMAIN coins : coins[c].meta = meta})
Batons(meta) == {c \in DOMAIN coins : coins[c].meta = meta
                                        /\ coins[c].variant = MintBaton}

\* Once a token has no mint baton, it never grows and never gets one again,
\* whatever sections, failed colourings and other tokens' batons come along; a
\* MintVault token has a vault instead (verify.rs verify_section, MINT).
NoGrowthWithoutBaton ==
  [][\A meta \in {coins'[c].meta : c \in DOMAIN coins'} :
       meta[2] \in 1 .. count /\ meta[1] # "MintVault" /\ Batons(meta) = {}
       => Supply(meta)' <= Supply(meta) /\ Batons(meta)' = {}]_vars

=============================================================================
