---------------------------- MODULE EventStream ----------------------------
(***************************************************************************)
(* What a bounded one-way envelope of events promises its two ends         *)
(* (chronik/event-envelope.h): events go in in any order, come out as      *)
(* 1, 2, 3, ..., and once the stream has failed or closed nothing goes in. *)
(* A failed stream hands over at most one more event.                      *)
(***************************************************************************)
EXTENDS Integers, Sequences

CONSTANT MaxIndex

VARIABLES published, delivered, late, failed, closed

vars == <<published, delivered, late, failed, closed>>

Init ==
  /\ published = <<>> /\ delivered = <<>> /\ late = 0
  /\ failed = FALSE /\ closed = FALSE

Publish ==
  /\ ~failed /\ ~closed
  /\ \E s \in 1 .. MaxIndex : published' = Append(published, s)
  /\ UNCHANGED <<delivered, late, failed, closed>>

Deliver ==
  LET n == Len(delivered) + 1 IN
    /\ n <= Len(published) /\ published[n] = n
    /\ delivered' = Append(delivered, n)
    /\ failed => late = 0
    /\ late' = IF failed THEN 1 ELSE 0
    /\ UNCHANGED <<published, failed, closed>>

Fail ==
  /\ failed' = TRUE
  /\ UNCHANGED <<published, delivered, late, closed>>

Close ==
  /\ closed' = TRUE
  /\ UNCHANGED <<published, delivered, late, failed>>

\* An envelope whose worker never came up fails and closes at once.
Abandon ==
  /\ failed' = TRUE /\ closed' = TRUE
  /\ UNCHANGED <<published, delivered, late>>

Next == Publish \/ Deliver \/ Fail \/ Close \/ Abandon

Spec == Init /\ [][Next]_vars
=============================================================================
