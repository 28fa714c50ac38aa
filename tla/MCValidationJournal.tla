------------------------ MODULE MCValidationJournal ------------------------
(* The instance of ValidationJournal for TLC: its constants are numbers.   *)
EXTENDS ValidationJournal
=============================================================================
