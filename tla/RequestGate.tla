----------------------------- MODULE RequestGate -----------------------------
(***************************************************************************)
(* The request gate of chronik-lib/src/ergon_service.rs: the record        *)
(* [epoch, mode, binding] behind its mutex, one operator per method.  The  *)
(* binding names the state of the native source a published view shows.    *)
(***************************************************************************)
EXTENDS Integers

CONSTANT MaxEpoch    \* u64::MAX

Busy == "Busy"
Ready == "Ready"
Failed == "Failed"
Closed == "Closed"
NoBinding == <<>>

GateNew == [epoch |-> 0, mode |-> Busy, binding |-> NoBinding]

GateTerminal(g) == g.mode \in {Failed, Closed}

\* begin, and invalidate: a new epoch, in which nothing is published yet.
GateBegin(g) ==
  IF GateTerminal(g) THEN g
  ELSE IF g.epoch < MaxEpoch
  THEN [epoch |-> g.epoch + 1, mode |-> Busy, binding |-> NoBinding]
  ELSE [g EXCEPT !.mode = Failed, !.binding = NoBinding]

\* publish: only for the epoch that was begun, and not over a failure.
GatePublishes(g, epoch) == g.mode = Busy /\ g.epoch = epoch

GatePublish(g, epoch, binding) ==
  IF GatePublishes(g, epoch)
  THEN [g EXCEPT !.mode = Ready, !.binding = binding]
  ELSE g

\* What publish returns: a closed gate lets running work finish.
GatePublished(g, epoch) == g.mode = Closed \/ GatePublishes(g, epoch)

GateClose(g) == [g EXCEPT !.mode = Closed, !.binding = NoBinding]

GateFail(g) ==
  [g EXCEPT !.mode = IF @ = Closed THEN Closed ELSE Failed,
            !.binding = NoBinding]

\* permit: what an admitted request holds on to.
NoPermit == <<>>
GatePermit(g) ==
  IF g.mode = Ready THEN <<g.epoch, g.binding>>
  ELSE NoPermit

\* A request may go on as long as its permit is the gate's.
GateAdmits(g, permit) == GatePermit(g) = permit
=============================================================================
