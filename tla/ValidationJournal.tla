------------------------- MODULE ValidationJournal -------------------------
(***************************************************************************)
(* The ring of src/validation_event_journal.h.  Every method runs under    *)
(* the journal's mutex and is one step; an event's charge is given back    *)
(* by whoever drops the last reference, outside the mutex and in two       *)
(* atomic decrements (bytes, then events), each a step of its own.         *)
(*                                                                         *)
(* An event is its number and its charge; payloads are copied through.     *)
(***************************************************************************)
EXTENDS Integers, Sequences, FiniteSets, Functions

CONSTANTS max_events,   \* number of slots, and of events charged at once
          max_bytes,
          Charges,      \* what an event may weigh
          MaxSequence   \* UINT64_MAX

ASSUME JournalAssumption ==
  /\ max_events \in Nat \ {0}
  /\ max_bytes \in Nat
  /\ Charges \subseteq Nat
  /\ MaxSequence \in Nat

VARIABLES
  slots, head, queued, accepted, failure, closed,
  budget_events, budget_bytes,
  leases,      \* events handed out and still referenced
  releasing,   \* leases whose bytes are given back and whose event is not
  \* history
  charge,      \* charge[n] is what event n weighs
  taken        \* the numbers handed out, in order

ring == <<slots, head, queued, accepted>>
budget == <<budget_events, budget_bytes>>
vars == <<ring, failure, closed, budget, leases, releasing, charge, taken>>

NoEvent == 0
NoFailure == "None"

SlotOf(i) == i % max_events

Init ==
  /\ slots = [i \in 0 .. max_events - 1 |-> NoEvent]
  /\ head = 0 /\ queued = 0 /\ accepted = 0
  /\ failure = NoFailure /\ closed = FALSE
  /\ budget_events = 0 /\ budget_bytes = 0
  /\ leases = {} /\ releasing = {}
  /\ charge = <<>> /\ taken = <<>>

OpenUnlessClosed == ~closed \* mutant: a failed journal goes on
Open == ~closed /\ failure = NoFailure

Fail(why) ==
  /\ failure' = IF failure = NoFailure THEN why ELSE failure
  /\ UNCHANGED <<ring, closed, budget, leases, releasing, charge, taken>>

\* Mutant: the event's own bytes are not counted.
RefusalWithoutOwn(bytes) ==
  CASE accepted = MaxSequence -> "Sequence"
    [] accepted # MaxSequence /\ budget_events >= max_events -> "Capacity"
    [] accepted # MaxSequence /\ budget_events < max_events
       /\ budget_bytes > max_bytes -> "Bytes"
    [] OTHER -> NoFailure

\* Reserve: the first test that fails names the failure.
Refusal(bytes) ==
  CASE accepted = MaxSequence -> "Sequence"
    [] accepted # MaxSequence /\ budget_events >= max_events -> "Capacity"
    [] accepted # MaxSequence /\ budget_events < max_events
       /\ budget_bytes > max_bytes - bytes -> "Bytes"
    [] OTHER -> NoFailure

\* Charge and Commit.
Commit(bytes) ==
  /\ budget_events' = budget_events + 1
  /\ budget_bytes' = budget_bytes + bytes
  /\ accepted' = accepted + 1
  /\ slots' = [slots EXCEPT ![SlotOf(head + queued)] = accepted + 1]
  /\ queued' = queued + 1
  /\ charge' = Append(charge, bytes)
  /\ UNCHANGED <<head, failure, closed, leases, releasing, taken>>

Reserve(bytes) ==
  \/ Refusal(bytes) # NoFailure /\ Fail(Refusal(bytes))
  \/ Refusal(bytes) = NoFailure /\ Commit(bytes)

\* The charge of an event a failed allocation abandons is given back at once.
Added ==
  /\ Open
  /\ \/ \E bytes \in Charges : Reserve(bytes)
     \/ \E why \in {"InvalidPayload", "MissingCoin", "Bytes", "Allocation"} :
          Fail(why)

Removed ==
  /\ Open
  /\ \/ \E bytes \in Charges : Reserve(bytes)
     \/ \E why \in {"InvalidPayload", "Allocation"} : Fail(why)

Block ==
  /\ Open
  /\ \/ \E bytes \in Charges : Reserve(bytes)
     \/ \E why \in {"InvalidPayload", "Allocation"} : Fail(why)

Take ==
  /\ queued > 0 /\ Open
  /\ leases' = leases \cup {slots[head]}
  /\ taken' = Append(taken, slots[head])
  /\ slots' = [slots EXCEPT ![head] = NoEvent]
  /\ head' = SlotOf(head + 1)
  /\ queued' = queued - 1
  /\ UNCHANGED <<accepted, failure, closed, budget, releasing, charge>>

\* ~Charge, first decrement ...
ReleaseBytes(n) ==
  /\ n \in leases
  /\ budget_bytes' = budget_bytes - charge[n]
  /\ leases' = leases \ {n}
  /\ releasing' = releasing \cup {n}
  /\ UNCHANGED <<ring, failure, closed, budget_events, charge, taken>>

\* ... and second.
ReleaseEvent(n) ==
  /\ n \in releasing
  /\ budget_events' = budget_events - 1
  /\ releasing' = releasing \ {n}
  /\ UNCHANGED <<ring, failure, closed, budget_bytes, leases, charge, taken>>

Close ==
  /\ closed' = TRUE
  /\ UNCHANGED <<ring, failure, budget, leases, releasing, charge, taken>>

Next ==
  \/ Added \/ Removed \/ Block \/ Take \/ Close
  \/ \E n \in leases : ReleaseBytes(n)
  \/ \E n \in releasing : ReleaseEvent(n)

Spec == Init /\ [][Next]_vars

-----------------------------------------------------------------------------
Queued == accepted - queued + 1 .. accepted

(* The ring holds the newest events in order from head on and nothing      *)
(* else: Commit never writes over an event nobody has taken, even though   *)
(* it tests the budget and not the ring (Reserve, Commit, Take).           *)
RingHoldsNewest ==
  \A i \in 0 .. max_events - 1 :
    slots[SlotOf(head + i)] = IF i < queued THEN accepted - queued + 1 + i
                              ELSE NoEvent

(* Events come out as 1, 2, 3, ..., each once, and what has not come out   *)
(* is still in the ring (Take).                                            *)
TakenInOrder ==
  /\ Len(taken) = accepted - queued
  /\ \A i \in 1 .. Len(taken) : taken[i] = i

(* The event budget is what is queued, leased or being given back, and     *)
(* never more than the ring has slots: a consumer that holds on to its     *)
(* leases makes the journal fail, not grow (Reserve, Charge).              *)
BudgetCountsLeases ==
  /\ budget_events = queued + Cardinality(leases) + Cardinality(releasing)
  /\ budget_events <= max_events

(* The byte budget is the weight of the same events, and is kept too:      *)
(* Reserve tests the event's own bytes before they are charged.            *)
BytesWithinBudget ==
  /\ budget_bytes = SumFunctionOnSet(charge, Queued \cup leases)
  /\ budget_bytes <= max_bytes

(* After the first failure, or after Close, nothing is recorded, nothing   *)
(* is handed out, and the failure keeps its first cause (Fail, Take).      *)
StopsForGood ==
  [][closed \/ failure # NoFailure =>
       /\ ring' = ring /\ taken' = taken
       /\ failure # NoFailure => failure' = failure]_vars

(* The ring implements the journal its users rely on.                      *)
Log == INSTANCE BoundedLog WITH
  MaxEvents <- max_events,
  log <- [accepted |-> accepted,
          queue |-> [i \in 1 .. queued |-> slots[SlotOf(head + i - 1)]],
          charged |-> budget_events,
          failure |-> failure,
          closed |-> closed],
  taken <- Len(taken)
LogSpec == Log!Spec
=============================================================================
