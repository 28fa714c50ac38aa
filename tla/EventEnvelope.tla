--------------------------- MODULE EventEnvelope ---------------------------
(***************************************************************************)
(* The bounded one-way event envelope of chronik/event-envelope.cpp: a     *)
(* ring of owned events filled by Submit and emptied by one worker thread. *)
(* Every atomic load or store another thread can observe is a step of its  *)
(* own; a section under wait_mutex whose effects are read only under that  *)
(* mutex is one step.                                                      *)
(*                                                                         *)
(* An event is its sequence number: kind, hash, height and payload are     *)
(* copied through the ring unchanged.                                      *)
(***************************************************************************)
EXTENDS Integers, Sequences

CONSTANTS Producers,    \* threads that may call Submit
          Capacity,     \* number of slots of the ring
          MaxIndex      \* UINT64_MAX

ASSUME EnvelopeAssumption ==
  /\ Capacity \in Nat \ {0}
  /\ MaxIndex \in Nat \ {0}

VARIABLES
  \* SharedState
  slots,            \* slots[i] = 0 when empty, else the event in the slot
  read_index, write_index,
  producer_busy,
  wait_mutex,       \* NoOwner, or the producer that holds it between two steps
  accepted, processed,
  last_enqueued_sequence, last_processed_sequence,
  failed,           \* failure_flags = ENVELOPE_FAILED
  stopping, worker_ready, worker_done,
  \* threads
  pc,               \* pc[p]: where producer p is in Submit
  sequence,         \* sequence[p]: the argument of p's Submit
  wpc,              \* where the worker is in RunWorker
  expected_sequence,
  event,            \* the event the worker moved out of its slot
  handle,           \* the owner's view: Create, use, Shutdown
  \* history
  published,        \* the events made visible by write_index, in order
  delivered,        \* the events the consumer accepted, in order
  late              \* how many of them it accepted on a failed envelope

ring == <<slots, read_index, write_index, producer_busy, wait_mutex>>
counters == <<accepted, processed, last_enqueued_sequence,
              last_processed_sequence>>
flags == <<failed, stopping, worker_ready, worker_done>>
producer == <<pc, sequence>>
worker == <<wpc, expected_sequence, event>>
history == <<published, delivered, late>>
vars == <<ring, counters, flags, producer, worker, handle, history>>

NoEvent == 0
NoOwner == "none"
Sequences64 == 0 .. MaxIndex
SlotOf(i) == i % Capacity

Init ==
  /\ slots = [i \in 0 .. Capacity - 1 |-> NoEvent]
  /\ read_index = 0 /\ write_index = 0
  /\ producer_busy = FALSE
  /\ wait_mutex = NoOwner
  /\ accepted = 0 /\ processed = 0
  /\ last_enqueued_sequence = 0 /\ last_processed_sequence = 0
  /\ failed = FALSE /\ stopping = FALSE
  /\ worker_ready = FALSE /\ worker_done = FALSE
  /\ pc = [p \in Producers |-> "idle"]
  /\ sequence = [p \in Producers |-> 0]
  /\ wpc = "start"
  /\ expected_sequence = 1
  /\ event = NoEvent
  /\ handle = "creating"
  /\ published = <<>> /\ delivered = <<>> /\ late = 0

-----------------------------------------------------------------------------
(* The condition variable: a notification moves a waiting worker back to   *)
(* the evaluation of can_run, which needs the mutex again.                 *)
Notified == IF wpc = "waiting" THEN "wait" ELSE wpc

MutexFree == wait_mutex = NoOwner

\* Submit is reached through the object Create returned.
Reachable == handle \notin {"creating", "null"}

Goto(p, l) == pc' = [pc EXCEPT ![p] = l]

(***************************************************************************)
(* Submit                                                                  *)
(***************************************************************************)
\* The first test of Submit. A zero sequence degrades, whatever the flags.
SubmitEnter(p) ==
  /\ pc[p] = "idle" /\ Reachable
  /\ \E s \in Sequences64 :
       /\ s = 0 \/ (~failed /\ ~stopping)
       /\ sequence' = [sequence EXCEPT ![p] = s]
       /\ Goto(p, IF s = 0 THEN "degrade" ELSE "acquire")
  /\ UNCHANGED <<ring, counters, flags, worker, handle, history>>

\* Mutant: a second producer drops its event without degrading.
AcquireProducerSilently(p) ==
  /\ pc[p] = "acquire"
  /\ producer_busy' = TRUE
  /\ Goto(p, IF producer_busy THEN "idle" ELSE "recheck")
  /\ UNCHANGED <<slots, read_index, write_index, wait_mutex, counters, flags,
                 sequence, worker, handle, history>>

\* producer_busy.test_and_set: a second producer degrades the envelope.
AcquireProducer(p) ==
  /\ pc[p] = "acquire"
  /\ producer_busy' = TRUE
  /\ Goto(p, IF producer_busy THEN "degrade" ELSE "recheck")
  /\ UNCHANGED <<slots, read_index, write_index, wait_mutex, counters, flags,
                 sequence, worker, handle, history>>

RecheckFlags(p) ==
  /\ pc[p] = "recheck"
  /\ IF failed \/ stopping
       THEN producer_busy' = FALSE /\ Goto(p, "idle")
       ELSE producer_busy' = producer_busy /\ Goto(p, "capacity")
  /\ UNCHANGED <<slots, read_index, write_index, wait_mutex, counters, flags,
                 sequence, worker, handle, history>>

RingFullByOne == write_index = MaxIndex \/ write_index - read_index > Capacity
RingFull == write_index = MaxIndex \/ write_index - read_index >= Capacity

CheckCapacity(p) ==
  /\ pc[p] = "capacity"
  /\ IF RingFull
       THEN producer_busy' = FALSE /\ Goto(p, "degrade")
       ELSE producer_busy' = producer_busy /\ Goto(p, "fill")
  /\ UNCHANGED <<slots, read_index, write_index, wait_mutex, counters, flags,
                 sequence, worker, handle, history>>

FillSlot(p) ==
  /\ pc[p] = "fill"
  /\ LET i == SlotOf(write_index) IN
       IF slots[i] # NoEvent
         THEN /\ producer_busy' = FALSE /\ Goto(p, "degrade")
              /\ slots' = slots
         ELSE /\ producer_busy' = producer_busy /\ Goto(p, "publish")
              /\ slots' = [slots EXCEPT ![i] = sequence[p]]
  /\ UNCHANGED <<read_index, write_index, wait_mutex, counters, flags,
                 sequence, worker, handle, history>>

\* The flags as re-tested under wait_mutex, and the slot given back then.
PublishRefused == failed \/ stopping
RefusedSlot == SlotOf(write_index)

\* Under wait_mutex: give the slot back, or make the event visible. The
\* mutex stays held until the counters are written.
PublishIndex(p) ==
  /\ pc[p] = "publish" /\ MutexFree
  /\ IF PublishRefused
       THEN /\ slots' = [slots EXCEPT ![RefusedSlot] = NoEvent]
            /\ producer_busy' = FALSE
            /\ Goto(p, "idle")
            /\ UNCHANGED <<write_index, wait_mutex, published>>
       ELSE /\ write_index' = write_index + 1
            /\ published' = Append(published, sequence[p])
            /\ wait_mutex' = p
            /\ Goto(p, "count")
            /\ UNCHANGED <<slots, producer_busy>>
  /\ UNCHANGED <<read_index, counters, flags, sequence, worker, handle,
                 delivered, late>>

\* The counters, the release of the mutex and of producer_busy, notify_one.
PublishCount(p) ==
  /\ pc[p] = "count"
  /\ last_enqueued_sequence' = sequence[p]
  /\ accepted' = accepted + 1
  /\ wait_mutex' = NoOwner
  /\ producer_busy' = FALSE
  /\ wpc' = Notified
  /\ Goto(p, "idle")
  /\ UNCHANGED <<slots, read_index, write_index, processed,
                 last_processed_sequence, flags, sequence, expected_sequence,
                 event, handle, history>>

\* The catch block: the slot keeps the unpublished event.
SubmitException(p) ==
  /\ pc[p] = "publish"
  /\ producer_busy' = FALSE
  /\ Goto(p, "degrade")
  /\ UNCHANGED <<slots, read_index, write_index, wait_mutex, counters, flags,
                 sequence, worker, handle, history>>

\* The public MarkDegraded, called instead of Submit.
MarkDegraded(p) ==
  /\ pc[p] = "idle" /\ Reachable
  /\ Goto(p, "degrade")
  /\ UNCHANGED <<ring, counters, flags, sequence, worker, handle, history>>

\* MarkStateDegraded on a producer's thread.
MarkStateDegraded(p) ==
  /\ pc[p] = "degrade" /\ MutexFree
  /\ failed' = TRUE
  /\ wpc' = Notified
  /\ Goto(p, "idle")
  /\ UNCHANGED <<ring, counters, stopping, worker_ready, worker_done,
                 sequence, expected_sequence, event, handle, history>>

Submit(p) ==
  \/ SubmitEnter(p) \/ AcquireProducer(p) \/ RecheckFlags(p)
  \/ CheckCapacity(p) \/ FillSlot(p) \/ PublishIndex(p) \/ PublishCount(p)
  \/ SubmitException(p) \/ MarkDegraded(p) \/ MarkStateDegraded(p)

(***************************************************************************)
(* RunWorker                                                               *)
(***************************************************************************)
WorkerGoto(l) ==
  /\ wpc' = l
  /\ UNCHANGED <<expected_sequence, event>>

WorkerReady ==
  /\ wpc = "start"
  /\ worker_ready' = TRUE
  /\ WorkerGoto("loop")
  /\ UNCHANGED <<ring, counters, failed, stopping, worker_done, producer,
                 handle, history>>

\* Mutant: the loop reads on after a failure.
LoopUnchecked ==
  /\ wpc = "loop"
  /\ WorkerGoto("load")
  /\ UNCHANGED <<ring, counters, flags, producer, handle, history>>

\* Top of the loop: a degraded envelope is never read again.
LoopCheck ==
  /\ wpc = "loop"
  /\ WorkerGoto(IF failed THEN "exit" ELSE "load")
  /\ UNCHANGED <<ring, counters, flags, producer, handle, history>>

LoadIndexes ==
  /\ wpc = "load"
  /\ WorkerGoto(IF read_index = write_index THEN "empty" ELSE "take")
  /\ UNCHANGED <<ring, counters, flags, producer, handle, history>>

\* The stopping test made after the indexes were loaded.
EmptyCheck ==
  /\ wpc = "empty"
  /\ WorkerGoto(IF stopping THEN "exit" ELSE "wait")
  /\ UNCHANGED <<ring, counters, flags, producer, handle, history>>

CanRunWhenFlagged == failed \/ stopping
CanRun == failed \/ stopping \/ read_index # write_index

\* can_run is evaluated, and condition.wait entered, under wait_mutex.
WaitForWork ==
  /\ wpc = "wait" /\ MutexFree
  /\ WorkerGoto(IF CanRun THEN "loop" ELSE "waiting")
  /\ UNCHANGED <<ring, counters, flags, producer, handle, history>>

SpuriousWakeup ==
  /\ wpc = "waiting"
  /\ WorkerGoto("wait")
  /\ UNCHANGED <<ring, counters, flags, producer, handle, history>>

\* The outer catch block: taking or waiting on the mutex threw.
WorkerException ==
  /\ wpc = "wait"
  /\ WorkerGoto("degrade")
  /\ UNCHANGED <<ring, counters, flags, producer, handle, history>>

\* An empty slot below write_index degrades; otherwise the event is moved
\* out and the slot reset.
TakeSlot ==
  /\ wpc = "take"
  /\ LET i == SlotOf(read_index) IN
       IF slots[i] = NoEvent
         THEN WorkerGoto("degrade") /\ slots' = slots
         ELSE /\ event' = slots[i]
              /\ slots' = [slots EXCEPT ![i] = NoEvent]
              /\ wpc' = "advance"
              /\ UNCHANGED expected_sequence
  /\ UNCHANGED <<read_index, write_index, producer_busy, wait_mutex, counters,
                 flags, producer, handle, history>>

InSequenceAllowsGap == event >= expected_sequence
InSequence == event = expected_sequence

AdvanceRead ==
  /\ wpc = "advance"
  /\ read_index' = read_index + 1
  /\ WorkerGoto(IF InSequence THEN "consume" ELSE "degrade")
  /\ UNCHANGED <<slots, write_index, producer_busy, wait_mutex, counters,
                 flags, producer, handle, history>>

\* The consumer's verdict; an exception is a refusal.
Consume ==
  /\ wpc = "consume"
  /\ \/ /\ WorkerGoto("record")
        /\ delivered' = Append(delivered, event)
        /\ late' = IF failed THEN late + 1 ELSE late
     \/ WorkerGoto("degrade") /\ UNCHANGED <<delivered, late>>
  /\ UNCHANGED <<ring, counters, flags, producer, handle, published>>

SequenceExhausted == expected_sequence = MaxIndex

RecordProcessed ==
  /\ wpc = "record"
  /\ last_processed_sequence' = event
  /\ processed' = processed + 1
  /\ event' = NoEvent
  /\ IF SequenceExhausted
       THEN wpc' = "degrade" /\ UNCHANGED expected_sequence
       ELSE wpc' = "loop" /\ expected_sequence' = expected_sequence + 1
  /\ UNCHANGED <<ring, accepted, last_enqueued_sequence, flags, producer,
                 handle, history>>

WorkerDegrade ==
  /\ wpc = "degrade" /\ MutexFree
  /\ failed' = TRUE
  /\ WorkerGoto("exit")
  /\ UNCHANGED <<ring, counters, stopping, worker_ready, worker_done,
                 producer, handle, history>>

WorkerExit ==
  /\ wpc = "exit"
  /\ worker_done' = TRUE
  /\ WorkerGoto("done")
  /\ UNCHANGED <<ring, counters, failed, stopping, worker_ready, producer,
                 handle, history>>

RunWorker ==
  \/ WorkerReady \/ LoopCheck \/ LoadIndexes \/ EmptyCheck \/ WaitForWork
  \/ SpuriousWakeup \/ WorkerException \/ TakeSlot \/ AdvanceRead \/ Consume
  \/ RecordProcessed \/ WorkerDegrade \/ WorkerExit

(***************************************************************************)
(* Create and Shutdown: the owner's thread                                 *)
(***************************************************************************)
CreateReady ==
  /\ handle = "creating" /\ worker_ready
  /\ handle' = "live"
  /\ UNCHANGED <<ring, counters, flags, producer, worker, history>>

\* The two-second wait ran out, or an exception after the thread started:
\* the worker is told to stop, detached, and no object is returned.
CreateFails ==
  /\ handle = "creating" /\ MutexFree
  /\ stopping' = TRUE /\ failed' = TRUE
  /\ wpc' = Notified
  /\ handle' = "null"
  /\ UNCHANGED <<ring, counters, worker_ready, worker_done, producer,
                 expected_sequence, event, history>>

ShutdownBegin ==
  /\ handle = "live" /\ MutexFree
  /\ stopping' = TRUE
  /\ wpc' = Notified
  /\ handle' = "draining"
  /\ UNCHANGED <<ring, counters, failed, worker_ready, worker_done, producer,
                 expected_sequence, event, history>>

\* worker_done seen within the deadline and the thread joined.
ShutdownJoin ==
  /\ handle = "draining" /\ worker_done
  /\ handle' = "joined"
  /\ UNCHANGED <<ring, counters, flags, producer, worker, history>>

\* The deadline passed without worker_done, or the join threw.
ShutdownGivesUp ==
  /\ handle = "draining"
  /\ handle' = "containing"
  /\ UNCHANGED <<ring, counters, flags, producer, worker, history>>

ContainThread ==
  /\ handle = "containing" /\ MutexFree
  /\ failed' = TRUE
  /\ wpc' = Notified
  /\ handle' = "detached"
  /\ UNCHANGED <<ring, counters, stopping, worker_ready, worker_done,
                 producer, expected_sequence, event, history>>

Owner ==
  \/ CreateReady \/ CreateFails \/ ShutdownBegin \/ ShutdownJoin
  \/ ShutdownGivesUp \/ ContainThread

Next ==
  \/ \E p \in Producers : Submit(p)
  \/ RunWorker
  \/ Owner

Spec == Init /\ [][Next]_vars

(***************************************************************************)
(* Threads run: the worker, a producer inside Submit and an owner inside   *)
(* Create or Shutdown keep taking steps, and the consumer returns. Nobody  *)
(* has to call Submit, MarkDegraded or Shutdown, and no wakeup has to be   *)
(* spurious.                                                               *)
(***************************************************************************)
WorkerStep ==
  \/ WorkerReady \/ LoopCheck \/ LoadIndexes \/ EmptyCheck \/ WaitForWork
  \/ TakeSlot \/ AdvanceRead \/ Consume \/ RecordProcessed \/ WorkerDegrade
  \/ WorkerExit

InsideSubmit(p) ==
  \/ AcquireProducer(p) \/ RecheckFlags(p) \/ CheckCapacity(p)
  \/ FillSlot(p) \/ PublishIndex(p) \/ PublishCount(p)
  \/ MarkStateDegraded(p)

InsideOwner == CreateReady \/ ShutdownJoin \/ ContainThread

Fairness ==
  /\ WF_vars(WorkerStep)
  /\ \A p \in Producers : WF_vars(InsideSubmit(p))
  /\ WF_vars(InsideOwner)

FairSpec == Spec /\ Fairness

-----------------------------------------------------------------------------
ProducerLabels == {"idle", "acquire", "recheck", "capacity", "fill",
                   "publish", "count", "degrade"}
WorkerLabels == {"start", "loop", "load", "empty", "wait", "waiting", "take",
                 "advance", "consume", "record", "degrade", "exit", "done"}
HandleLabels == {"creating", "live", "null", "draining", "joined",
                 "containing", "detached"}

\* The values SharedState, the two kinds of threads and the owner can hold.
TypeOK ==
  /\ slots \in [0 .. Capacity - 1 -> Sequences64]
  /\ read_index \in Sequences64 /\ write_index \in Sequences64
  /\ producer_busy \in BOOLEAN
  /\ wait_mutex \in Producers \cup {NoOwner}
  /\ accepted \in Nat /\ processed \in Nat
  /\ last_enqueued_sequence \in Sequences64
  /\ last_processed_sequence \in Sequences64
  /\ failed \in BOOLEAN /\ stopping \in BOOLEAN
  /\ worker_ready \in BOOLEAN /\ worker_done \in BOOLEAN
  /\ pc \in [Producers -> ProducerLabels]
  /\ sequence \in [Producers -> Sequences64]
  /\ wpc \in WorkerLabels
  /\ expected_sequence \in Sequences64
  /\ event \in Sequences64
  /\ handle \in HandleLabels
  /\ published \in Seq(Sequences64) /\ delivered \in Seq(Sequences64)
  /\ late \in Nat

\* Submit emplaces into, or resets, a slot the capacity test cleared, and the
\* worker moves out of the slot at read_index, without a common lock: the two
\* are never on one slot at the same time, and no two producers are.
SlotOwner == {p \in Producers : pc[p] \in {"fill", "publish"}}
NoSlotRace ==
  /\ \A p, q \in SlotOwner : p = q
  /\ (SlotOwner # {} /\ wpc = "take") =>
       SlotOf(write_index) # SlotOf(read_index)

\* RunWorker's test `if (!slot)` is a corrupted-ring guard: below write_index
\* every slot the worker still has to read holds the event published there.
RingHoldsPublished ==
  \A i \in read_index .. write_index - 1 :
    \/ wpc = "advance" /\ i = read_index
    \/ slots[SlotOf(i)] = published[i + 1]

\* The consumer sees the events 1, 2, 3, ... and nothing else: the sequence
\* test in RunWorker stops at the first gap, repetition or reordering, and
\* what it sees is what Submit published at that place.
DeliveredInOrder ==
  /\ Len(delivered) <= Len(published)
  /\ \A i \in 1 .. Len(delivered) :
       delivered[i] = i /\ published[i] = i

\* A failed envelope hands over at most the event already taken.
AtMostOneLateDelivery == late <= 1

\* Failure is for good, and nothing is published on a failed or stopping
\* envelope: Submit re-tests both flags under wait_mutex.
FailClosed ==
  [][/\ failed => failed'
     /\ stopping => stopping'
     /\ failed \/ stopping => published' = published]_vars

\* A Submit that gives up leaves a failed or stopping envelope: no event of a
\* live, healthy envelope is dropped silently.
NoSilentDrop ==
  [][\A p \in Producers :
       pc[p] \notin {"idle", "count"} /\ pc'[p] = "idle"
         => failed' \/ stopping']_vars

\* The wakeup protocol loses nothing: while the envelope is in service each
\* published event reaches the consumer, unless the envelope fails.
PublishedIsDelivered ==
  \A n \in 1 .. MaxIndex :
    Len(published) >= n ~> Len(delivered) >= n \/ failed \/ stopping

(***************************************************************************)
(* The invariant the safety properties rest on. It relates the two indexes *)
(* to the histories at each place of the worker, says which producer owns  *)
(* the slot at write_index, and bounds the distance of the indexes.        *)
(***************************************************************************)
HoldsBusy == {"recheck", "capacity", "fill", "publish", "count"}

ProducersAgree ==
  /\ \A p, q \in Producers : pc[p] \in HoldsBusy /\ pc[q] \in HoldsBusy => p = q
  /\ \A p \in Producers :
       /\ pc[p] \in HoldsBusy => producer_busy
       /\ pc[p] \in HoldsBusy \cup {"acquire"} => sequence[p] # 0
       /\ pc[p] \in {"fill", "publish"} =>
            write_index < MaxIndex /\ write_index - read_index < Capacity
       /\ pc[p] = "publish" => slots[SlotOf(write_index)] = sequence[p]

IndexesAgree ==
  /\ Len(published) = write_index
  /\ read_index <= write_index
  /\ write_index - read_index <= Capacity
  /\ wpc \in {"take", "advance"} => read_index < write_index

WorkerAgrees ==
  /\ wpc \notin {"consume", "record", "degrade", "exit", "done"} =>
       read_index = Len(delivered) /\ expected_sequence = Len(delivered) + 1
  /\ wpc = "advance" => event = published[read_index + 1]
  /\ wpc = "consume" =>
       /\ read_index = Len(delivered) + 1 /\ expected_sequence = read_index
       /\ event = expected_sequence /\ event = published[read_index]
  /\ wpc = "record" =>
       /\ read_index = Len(delivered) /\ expected_sequence = read_index
       /\ event = expected_sequence
  /\ late = 1 => failed /\ wpc \in {"record", "loop", "degrade", "exit", "done"}

NonzeroPublished == \A i \in 1 .. Len(published) : published[i] # 0

\* Every step preserves this relation between the ring, its two threads and
\* the histories; the properties above follow from it.
Inductive ==
  /\ TypeOK
  /\ ProducersAgree
  /\ IndexesAgree
  /\ WorkerAgrees
  /\ RingHoldsPublished
  /\ DeliveredInOrder
  /\ AtMostOneLateDelivery
  /\ NonzeroPublished

(***************************************************************************)
(* What the envelope promises, whatever its threads do.                    *)
(***************************************************************************)
Stream == INSTANCE EventStream WITH closed <- stopping
StreamSpec == Stream!Spec
=============================================================================
