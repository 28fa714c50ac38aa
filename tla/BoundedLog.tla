----------------------------- MODULE BoundedLog -----------------------------
(***************************************************************************)
(* What the native event journal promises: events are numbered 1, 2, 3,    *)
(* ... as they are recorded and handed out in that order, each once; the   *)
(* budget covers queued and leased events together; the first event that   *)
(* cannot be recorded stops the journal in both directions for good.       *)
(***************************************************************************)
EXTENDS EventLog

CONSTANT MaxEvents

VARIABLES log,      \* see EventLog; an event is its number
          taken     \* how many events have been handed out

vars == <<log, taken>>

Init == log = EmptyLog /\ taken = 0

Record ==
  /\ LogOpen(log)
  /\ log.charged < MaxEvents
  /\ log' = Recording(log, log.accepted + 1, MaxEvents)
  /\ UNCHANGED taken

Fail ==
  /\ LogOpen(log)
  /\ \E why \in Failures : log' = Failing(log, why)
  /\ UNCHANGED taken

Take ==
  /\ CanTake(log)
  /\ Head(log.queue) = taken + 1
  /\ log' = Taking(log)
  /\ taken' = taken + 1

Release ==
  /\ log.charged > Len(log.queue)
  /\ log' = Releasing(log)
  /\ UNCHANGED taken

Close == log' = Closing(log) /\ UNCHANGED taken

Next == Record \/ Fail \/ Take \/ Release \/ Close

Spec == Init /\ [][Next]_vars
=============================================================================
