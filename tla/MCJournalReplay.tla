-------------------------- MODULE MCJournalReplay --------------------------
(***************************************************************************)
(* Instances of JournalReplay.                                             *)
(***************************************************************************)
EXTENDS JournalReplay, TLC

StartA1 == <<"a1">>

\* Transaction 2 spends 1; 1 and 3 spend the same coin.
FamilyInputs == (1 :> {11}) @@ (2 :> {1}) @@ (3 :> {11})

\* a1 confirms 1; the branch b1, b2 confirms 3 in its place.
RivalPrev == ("a1" :> "root") @@ ("b1" :> "root") @@ ("b2" :> "b1")
RivalTxs == ("a1" :> {1}) @@ ("b1" :> {3}) @@ ("b2" :> {})
=============================================================================
