----------------------------- MODULE TokenRules -----------------------------
(***************************************************************************)
(* The SLP and ALP token rules of bitcoinsuite-slp/src: a transaction's    *)
(* OP_RETURN, already parsed into sections, colours its outputs (color.rs) *)
(* and is verified against the tokens it spends (verify.rs), which yields  *)
(* one entry per token and the outputs that keep theirs; burn_summary.rs   *)
(* judges the entries.                                                     *)
(*                                                                         *)
(* A token is named by its meta <<type, id>>, the id being the number of   *)
(* its GENESIS transaction.  Output 0 of the source, the OP_RETURN, is     *)
(* element 1 here.  An optional value is <<>> or <<value>>.                *)
(*                                                                         *)
(* Left out: the bytes of both protocols with the pushes that do not parse *)
(* (they add nothing but a message), genesis infos, u64 amounts (the sums  *)
(* are u128 and cannot overflow).                                          *)
(***************************************************************************)
EXTENDS Integers, Sequences, FiniteSets, FiniteSetsExt, SequencesExt

CONSTANT MaxTxInputs          \* MAX_TX_INPUTS of ALP

None == <<>>
Some(x) == <<x>>
The(option) == option[1]

\* TokenType.  Only ALP has several sections, so only its types are ordered.
IsAlp(meta) == meta[1] \in {"Alp", "AlpUnknown"}
TypeNumber(meta) == IF meta[1] = "AlpUnknown" THEN 1 ELSE 0
UnknownOf(type) == <<type, 0>>

\* TokenVariant.
Atoms(n) == [kind |-> "atoms", atoms |-> n]
MintBaton == [kind |-> "baton", atoms |-> 0]
UnknownVariant == [kind |-> "unknown", atoms |-> 0]

\* ParsedData: what a section says of the token `meta'.
Section(meta, op, atoms, batons) ==
  [meta |-> meta, op |-> op, atoms |-> atoms, batons |-> batons]

-----------------------------------------------------------------------------
(* Colouring.                                                              *)

\* ColoredTx before the first section, for a transaction with n outputs.
Uncolored(n) ==
  [sections |-> <<>>, burns |-> <<>>, failed |-> <<>>, maxType |-> 0,
   outputs |-> [i \in 1 .. n |-> None]]

\* The outputs a section asks for: one per amount that is not zero, then one
\* per mint baton (atoms_vec_range, batons_range).
Wants(p) ==
  LET len == Len(p.atoms)
  IN  [i \in {j \in 2 .. len + 1 : p.atoms[j - 1] # 0}
             \cup (len + 2 .. len + 1 + p.batons) |->
         IF i <= len + 1 THEN Atoms(p.atoms[i - 1]) ELSE MintBaton]

Overlaps(c, p) ==
  \E i \in DOMAIN Wants(p) \cap DOMAIN c.outputs : c.outputs[i] # None

OutOfRange(c, p) == ~(DOMAIN Wants(p) \subseteq DOMAIN c.outputs)

Descends(c, p) == c.maxType > TypeNumber(p.meta)

Duplicate(c, p) ==
  p.op \in {"MINT", "SEND"} /\ \E i \in DOMAIN c.sections :
                                 c.sections[i].meta[2] = p.meta[2]

\* color_genesis, color_mint, color_send, color_burn: the section is refused.
Uncolorable(c, p, index) ==
  \/ Descends(c, p) \/ Duplicate(c, p)
  \/ p.op = "GENESIS" /\ index # 1
  \/ p.op \in {"GENESIS", "MINT", "SEND"}
       /\ (Overlaps(c, p) \/ (IsAlp(p.meta) /\ OutOfRange(c, p)))
  \/ p.op = "BURN" /\ \E i \in DOMAIN c.burns : c.burns[i].meta[2] = p.meta[2]

\* The colouring of one output by a section that is accepted.
Color(c, p, i) ==
  LET index == Len(c.sections) + 1
  IN  CASE p.op = "UNKNOWN" ->
             IF i > 1 /\ c.outputs[i] = None
             THEN Some([section |-> index, variant |-> UnknownVariant])
             ELSE c.outputs[i]
        [] p.op \in {"GENESIS", "MINT", "SEND"} /\ i \in DOMAIN Wants(p) ->
             Some([section |-> index, variant |-> Wants(p)[i]])
        [] OTHER -> c.outputs[i]

\* color_section.
ColorSection(c, p, index) ==
  LET ordered == [c EXCEPT !.maxType = IF Descends(c, p) THEN @
                                       ELSE TypeNumber(p.meta)]
  IN  IF Uncolorable(c, p, index)
      THEN [ordered EXCEPT !.failed = Append(@, p)]
      ELSE IF p.op = "BURN" THEN [ordered EXCEPT !.burns = Append(@, p)]
      ELSE [ordered EXCEPT !.sections = Append(@, p),
                           !.outputs = [i \in DOMAIN @ |-> Color(c, p, i)]]

\* color_tx: the sections in the order of the pushes.
ColorTx(parsed, n) ==
  LET step[i \in 0 .. Len(parsed)] ==
        IF i = 0 THEN Uncolored(n) ELSE ColorSection(step[i - 1], parsed[i], i)
  IN  step[Len(parsed)]

-----------------------------------------------------------------------------
(* Verification.  `spent' is the sequence of the inputs' tokens.           *)

SpentOf(spent, meta) ==
  {i \in DOMAIN spent : spent[i] # None /\ The(spent[i]).meta = meta}

InputSum(spent, meta) ==
  MapThenSumSet(LAMBDA i : The(spent[i]).variant.atoms, SpentOf(spent, meta))

HasMintBatonOfAny(spent, meta) == \* mutant: any token's baton will do
  \E i \in DOMAIN spent :
    spent[i] # None /\ The(spent[i]).variant = MintBaton

HasMintBaton(spent, meta) ==
  \E i \in SpentOf(spent, meta) : The(spent[i]).variant = MintBaton

OutputSum(c, meta) ==
  MapThenSumSet(LAMBDA i : The(c.outputs[i]).variant.atoms,
    {i \in DOMAIN c.outputs :
       c.outputs[i] # None /\ c.sections[The(c.outputs[i]).section].meta = meta})

\* required_input_sum: amounts sent to outputs that do not exist count.
RequiredInputSum(p) ==
  MapThenSumSet(LAMBDA j : p.atoms[j], DOMAIN p.atoms)

\* inherited_group_token_meta, from the first input of the token.
InheritedGroup(spent, meta) ==
  LET own == SpentOf(spent, meta)
  IN  IF own = {} THEN None ELSE The(spent[Min(own)]).group

IntendedBurn(c, meta) ==
  LET own == {i \in DOMAIN c.burns : c.burns[i].meta = meta}
  IN  IF own = {} THEN None ELSE Some(c.burns[Min(own)].atoms[1])

Entry(meta, op) ==
  [meta |-> meta, op |-> op, group |-> None, invalid |-> FALSE,
   intended |-> None, burned |-> 0, burnsBatons |-> FALSE, error |-> FALSE,
   failed |-> FALSE]

\* NFT1 CHILD GENESIS: the first input must hold atoms of a GROUP token.
HasGroup(spent) ==
  /\ spent # <<>> /\ spent[1] # None
  /\ The(spent[1]).meta[1] = "Group" /\ The(spent[1]).variant.atoms > 0

IsChildGenesis(p) == p.op = "GENESIS" /\ p.meta[1] = "Child"

SumCovers(spent, p) == InputSum(spent, p.meta) >= RequiredInputSum(p)

\* verify_section.
VerifySection(c, spent, hasVault, p) ==
  LET sum == InputSum(spent, p.meta)
      baton == HasMintBaton(spent, p.meta)
      entry == [Entry(p.meta, p.op) EXCEPT
                  !.group = InheritedGroup(spent, p.meta),
                  !.intended = IntendedBurn(c, p.meta)]
      Refused(burned, batons) ==
        [entry EXCEPT !.invalid = TRUE, !.error = TRUE, !.burned = burned,
                      !.burnsBatons = batons]
  IN  CASE IsAlp(p.meta) /\ Len(spent) > MaxTxInputs -> Refused(sum, baton)
        [] IsChildGenesis(p) ->
             IF HasGroup(spent)
             THEN [entry EXCEPT !.group = Some(The(spent[1]).meta)]
             ELSE Refused(0, FALSE)
        [] p.op = "MINT" ->
             IF IF p.meta[1] = "MintVault" THEN hasVault ELSE baton
             THEN [entry EXCEPT !.burned = sum]
             ELSE Refused(sum, FALSE)
        [] p.op = "SEND" ->
             IF SumCovers(spent, p)
             THEN [entry EXCEPT !.burned = sum - OutputSum(c, p.meta),
                                !.burnsBatons = baton]
             ELSE Refused(sum, baton)
        [] OTHER -> entry

\* Standalone intentional burns: of tokens that no section names.
StandaloneBurns(c) ==
  LET Standalone(b) == \A i \in DOMAIN c.sections :
                         c.sections[i].meta[2] # b.meta[2]
      burns == SelectSeq(c.burns, Standalone)
  IN  [i \in DOMAIN burns |->
         [Entry(burns[i].meta, "BURN") EXCEPT
            !.intended = Some(burns[i].atoms[1])]]

\* Failed colourings join the entry of their token, or make one.
WithFailed(entries, p) ==
  LET own == {i \in DOMAIN entries : entries[i].meta = p.meta}
  IN  IF own # {} THEN [entries EXCEPT ![Min(own)].failed = TRUE]
      ELSE Append(entries, [Entry(p.meta, p.op) EXCEPT
                              !.invalid = TRUE, !.failed = TRUE])

\* calc_bare_burns: the inputs of a token that no section names.  The GROUP
\* token a CHILD GENESIS uses up is not counted as burned.
BareMetas(c, spent) ==
  {The(spent[i]).meta : i \in {j \in DOMAIN spent : spent[j] # None}}
    \ {c.sections[i].meta : i \in DOMAIN c.sections}

BareInputsAll(entries, spent, meta) == \* mutant: the GROUP token counts
  SpentOf(spent, meta)
BareInputs(entries, spent, meta) ==
  LET usesGroup == entries # <<>> /\ entries[1].op = "GENESIS"
                     /\ entries[1].meta[1] = "Child" /\ ~entries[1].invalid
  IN  SpentOf(spent, meta) \ (IF usesGroup THEN {1} ELSE {})

WithBareBurn(entries, inputs, spent, meta) ==
  LET own == {i \in DOMAIN entries : entries[i].meta = meta}
      batons == \E i \in inputs : The(spent[i]).variant = MintBaton
      burned == MapThenSumSet(LAMBDA i : The(spent[i]).variant.atoms, inputs)
      Burnt(entry) == [entry EXCEPT !.burned = burned, !.burnsBatons = batons,
                                    !.group = InheritedGroup(spent, meta)]
  IN  IF own # {}
      THEN [entries EXCEPT ![Min(own)] =
              [Burnt(@) EXCEPT !.invalid = @ \/ batons]]
      ELSE Append(entries, [Burnt(Entry(meta, "NONE")) EXCEPT
                              !.invalid = inputs # {}])

\* verify: the entries, those of the sections first.  The order of the bare
\* burns, a BTreeMap's in the source, is left open.
Entries(c, spent, hasVault) ==
  LET announced == [i \in DOMAIN c.sections |->
                      VerifySection(c, spent, hasVault, c.sections[i])]
                   \o StandaloneBurns(c)
      colored == FoldLeft(WithFailed, announced, c.failed)
      Bare(entries, meta) ==
        WithBareBurn(entries, BareInputs(announced, spent, meta), spent, meta)
  IN  FoldLeft(Bare, colored, SetToSeq(BareMetas(c, spent)))

\* ... and the outputs that keep their token, as what a later input spends.
TokenOutputs(c, entries) ==
  [i \in DOMAIN c.outputs |->
     IF c.outputs[i] = None \/ entries[The(c.outputs[i]).section].invalid
     THEN None
     ELSE LET entry == entries[The(c.outputs[i]).section]
          IN  Some([meta |-> entry.meta, group |-> entry.group,
                    variant |-> The(c.outputs[i]).variant])]

-----------------------------------------------------------------------------
(* burn_summary.rs.                                                        *)

HasUnintentionalBurn(e) ==
  \/ e.burnsBatons
  \/ IF e.intended # None THEN The(e.intended) # e.burned ELSE e.burned > 0

IsNormal(e) ==
  ~e.invalid /\ ~HasUnintentionalBurn(e) /\ ~e.failed /\ ~e.error
=============================================================================
