------------------------ MODULE MCClientSubmissions ------------------------
(***************************************************************************)
(* An instance of ClientSubmissions: two batches that share a transaction, *)
(* the second of which burns tokens.                                       *)
(***************************************************************************)
EXTENDS ClientSubmissions, TLC

BurningBatch == ("x" :> <<1, 2>>) @@ ("z" :> <<1, 3>>)
=============================================================================
