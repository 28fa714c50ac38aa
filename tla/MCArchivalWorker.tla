-------------------------- MODULE MCArchivalWorker --------------------------
(***************************************************************************)
(* Instances of ArchivalWorker.                                            *)
(***************************************************************************)
EXTENDS ArchivalWorker, TLC

StartA1 == <<"a1">>

\* Transaction 2 spends 1.  Both branches confirm 1, b in its second block.
ChildInputs == (1 :> {11}) @@ (2 :> {1})
RivalPrev == ("a1" :> "root") @@ ("b1" :> "root") @@ ("b2" :> "b1")
ChildTxs == ("a1" :> {1}) @@ ("b1" :> {}) @@ ("b2" :> {1})
=============================================================================
