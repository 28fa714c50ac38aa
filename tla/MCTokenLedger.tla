---------------------------- MODULE MCTokenLedger ----------------------------
(* Instances of TokenLedger for TLC: tokens that already exist, and the     *)
(* OP_RETURNs that transactions may carry.                                  *)
EXTENDS TokenLedger

Held(meta, variant) == [meta |-> meta, group |-> None, variant |-> variant]

(* SLP: one section.  Tokens 1 (fungible), 2 (group) and 3 (mint vault).    *)
Fungible == <<"Fungible", 1>>
Group == <<"Group", 2>>
Vault == <<"MintVault", 3>>
Child == <<"Child", 4>>

SlpStart ==
  (<<1, 2>> :> Held(Fungible, Atoms(2))) @@ (<<1, 3>> :> Held(Fungible, MintBaton))
    @@ (<<2, 2>> :> Held(Group, Atoms(1))) @@ (<<2, 3>> :> Held(Group, Atoms(1)))

SlpOffers ==
  {<<>>} \cup {<<p>> : p \in
    {Section(<<"Child", 0>>, "GENESIS", <<1>>, 0),
     Section(<<"Fungible", 0>>, "GENESIS", <<1>>, 1),
     Section(Fungible, "MINT", <<1>>, 0), Section(Fungible, "MINT", <<0>>, 1),
     Section(Fungible, "SEND", <<1, 1>>, 0), Section(Fungible, "SEND", <<1, 0, 1>>, 0),
     Section(Fungible, "BURN", <<2>>, 0),
     Section(Vault, "MINT", <<1>>, 0), Section(Group, "SEND", <<1>>, 0),
     Section(Child, "SEND", <<1>>, 0),
     Section(UnknownOf("SlpUnknown"), "UNKNOWN", <<>>, 0)}}

(* ALP: several sections.  Tokens 1 and 2.                                  *)
One == <<"Alp", 1>>
Two == <<"Alp", 2>>

AlpStart ==
  (<<1, 2>> :> Held(One, Atoms(2))) @@ (<<1, 3>> :> Held(One, MintBaton))
    @@ (<<2, 2>> :> Held(Two, Atoms(1)))

AlpOffers ==
  LET genesis == Section(<<"Alp", 0>>, "GENESIS", <<1>>, 1)
      mint == Section(One, "MINT", <<1>>, 1)
      send == Section(One, "SEND", <<0, 2>>, 0)
      again == Section(One, "SEND", <<1>>, 0)
      far == Section(One, "SEND", <<0, 0, 2>>, 0)
      other == Section(Two, "SEND", <<1>>, 0)
      burn == Section(One, "BURN", <<1>>, 0)
      unknown == Section(UnknownOf("AlpUnknown"), "UNKNOWN", <<>>, 0)
  IN  {<<genesis>>, <<genesis, mint>>, <<mint>>, <<mint, send>>, <<far>>,
       <<send, again>>, <<send, other>>, <<other, again>>, <<again, burn>>,
       <<burn, burn>>, <<burn, other>>, <<unknown, send>>, <<send, unknown>>}

BothStarts == {SlpStart, AlpStart}
BothOffers == SlpOffers \cup AlpOffers
=============================================================================
