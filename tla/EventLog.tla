------------------------------ MODULE EventLog ------------------------------
(***************************************************************************)
(* The bounded native event journal as its users see it                    *)
(* (src/validation_event_journal.h): a record with                         *)
(*   accepted  the number of events ever recorded,                         *)
(*   queue     the recorded events nobody has taken,                       *)
(*   charged   the events whose budget is still held, queued or leased,    *)
(*   failure   the first failure, NoFailure before,                        *)
(*   closed    set by the owner when it stops.                             *)
(* An event recorded as number n is the n-th one; events carry no number   *)
(* of their own here because the queue holds exactly the last              *)
(* Len(queue) numbers.                                                     *)
(***************************************************************************)
EXTENDS Integers, Sequences

NoFailure == "None"
ProducerFailures == {"Bytes", "MissingCoin", "InvalidPayload", "Allocation"}
Failures == ProducerFailures \cup {"Capacity", "Sequence"}

EmptyLog == [accepted |-> 0, queue |-> <<>>, charged |-> 0,
             failure |-> NoFailure, closed |-> FALSE]

LogOpen(log) == ~log.closed /\ log.failure = NoFailure

Failing(log, why) == [log EXCEPT !.failure = IF @ = NoFailure THEN why ELSE @]

\* Reserve and Commit: the budget counts leases, not only the queue.
Recording(log, event, max_events) ==
  IF log.charged >= max_events
  THEN Failing(log, "Capacity")
  ELSE [log EXCEPT !.accepted = @ + 1, !.charged = @ + 1,
                   !.queue = Append(@, event)]

CanTake(log) == LogOpen(log) /\ log.queue # <<>>

Taking(log) == [log EXCEPT !.queue = Tail(@)]

\* The last reference to a leased event is dropped.
Releasing(log) == [log EXCEPT !.charged = @ - 1]

Closing(log) == [log EXCEPT !.closed = TRUE]

\* The number of the event at the front of the queue.
FrontNumber(log) == log.accepted - Len(log.queue) + 1
=============================================================================
