---------------------------- MODULE JournalReplay ----------------------------
(***************************************************************************)
(* The archival index in journal mode: the native source records its       *)
(* events, the worker of chronik-cpp/ergon_archival_worker.cpp applies     *)
(* them to the index and publishes the result through the request gate     *)
(* (chronik-cpp/ergon_journal_replay.cpp), its owner                       *)
(* (chronik-cpp/ergon_regtest_service.cpp) opens a listener once the       *)
(* worker is ready and stops the worker, and HTTP requests read the index  *)
(* through the gate.                                                       *)
(*                                                                         *)
(* The model starts just after the journal was anchored: index and source  *)
(* agree, nothing is recorded, nothing is published.  A step is a section  *)
(* between two points where another thread can come in.  Block files do    *)
(* not move (CheckStorage; pruning is refused), payloads are well formed.  *)
(***************************************************************************)
EXTENDS NativeNode, MempoolOverlay, EventLog, RequestGate

CONSTANTS
  MaxEvents,      \* events the journal's budget covers
  AllocFaults,    \* TRUE: a recording may fail for want of memory
  MayStop,        \* TRUE: the owner may stop the service
  MayShutDown,    \* TRUE: the node may be asked to shut down
  MayRequest      \* TRUE: there are requests

ASSUME ReplayAssumption == MaxEvents \in Nat /\ MaxEpoch \in Nat

VARIABLES
  journal, attached,
  index,              \* what the index holds: chain, overlay, journal_sequence
  reconciling, applied_capture, bound,   \* ArchivalProbe
  gate, index_failed, shutdown,
  rpc,                \* where the worker is in Run, Drain or Publish
  target,             \* Drain: the number to drain to
  lease,              \* Drain: the event taken and not yet applied
  captured,           \* Publish: binding and pool read under the locks
  retry,              \* Run: the last round did not publish
  tickets,            \* Push: a wakeup is not yet acknowledged
  callbacks,          \* wakeups in the validation queue
  ready,              \* the last round published and nothing came since
  snapshot,           \* the blocks of the anchoring capture are retained
  listener,           \* the owner's: none, listening, refused
  stop,               \* where the worker's Stop is
  request             \* one HTTP request

probe == <<index, reconciling, applied_capture, bound, snapshot>>
worker == <<rpc, target, lease, captured, retry>>
owner == <<listener, stop>>
vars == <<source, emitting, journal, attached, probe, gate, index_failed,
          shutdown, worker, tickets, callbacks, ready, owner, request>>

IdleRequest == [pc |-> "idle", permit |-> NoPermit, view |-> <<>>,
                agreed |-> FALSE]

Init ==
  /\ NodeInit
  /\ journal = EmptyLog /\ attached = TRUE
  /\ index = [chain |-> chain, overlay |-> OverlayOf(pool), sequence |-> 0]
  /\ reconciling = TRUE /\ applied_capture = <<>> /\ bound = Binding
  /\ gate = [GateNew EXCEPT !.epoch = 1]
  /\ index_failed = FALSE /\ shutdown = FALSE
  /\ rpc = "loop" /\ target = 0 /\ lease = <<>> /\ captured = <<>>
  /\ retry = TRUE /\ tickets = FALSE /\ callbacks = 0
  /\ ready = FALSE /\ snapshot = TRUE
  /\ listener = "none" /\ stop = "running"
  /\ request = IdleRequest

-----------------------------------------------------------------------------
(* The native source.                                                      *)

ChangeSource ==
  /\ SourceStep
  /\ UNCHANGED <<journal, attached, probe, gate, index_failed, shutdown,
                 worker, tickets, callbacks, ready, owner, request>>

\* An event reaches the journal and, queued, the worker's subscription.
RecordEvent ==
  /\ emitting # <<>>
  /\ emitting' = Tail(emitting)
  /\ callbacks' = callbacks + 1
  /\ \/ /\ attached /\ LogOpen(journal)
        /\ journal' = Recording(journal, Head(emitting), MaxEvents)
     \/ /\ attached /\ LogOpen(journal) /\ AllocFaults
        /\ journal' = Failing(journal, "Allocation")
     \/ ~(attached /\ LogOpen(journal)) /\ UNCHANGED journal
  /\ UNCHANGED <<source, attached, probe, gate, index_failed, shutdown,
                 worker, tickets, ready, owner, request>>

\* ArchivalWorker::Push, run by the validation queue's thread.
Push ==
  /\ callbacks > 0
  /\ callbacks' = callbacks - 1
  /\ gate' = GateBegin(gate)
  /\ tickets' = (tickets \/ (stop = "running" /\ rpc # "exit"))
  /\ ready' = FALSE
  /\ UNCHANGED <<source, emitting, journal, attached, probe, index_failed,
                 shutdown, worker, owner, request>>

ShutDown ==
  /\ MayShutDown /\ ~shutdown
  /\ shutdown' = TRUE
  /\ UNCHANGED <<source, emitting, journal, attached, probe, gate,
                 index_failed, worker, tickets, callbacks, ready, owner,
                 request>>

-----------------------------------------------------------------------------
(* The worker's loop.                                                      *)

Unhealthy ==
  ~LogOpen(journal) \/ index_failed

\* Healthy returns; throws JournalReplayCancelled; throws.
Healthy == ~Unhealthy /\ ~shutdown
Cancelled == ~Unhealthy /\ shutdown

DropLeaseCharged == lease' = <<>> /\ UNCHANGED journal \* mutant: a leak

\* Unwinding drops the leased event.
DropLease ==
  /\ lease' = <<>>
  /\ journal' = IF lease = <<>> THEN journal ELSE Releasing(journal)

Rest == UNCHANGED <<source, emitting, attached, shutdown, tickets, callbacks,
                    owner, request>>
WorkerOnly == Rest /\ UNCHANGED ready

Cancel ==
  /\ gate' = GateClose(gate)
  /\ rpc' = "exit" /\ ready' = FALSE
  /\ DropLease
  /\ UNCHANGED <<probe, index_failed, target, captured, retry>>
  /\ Rest

Fail ==
  /\ gate' = GateFail(gate)
  /\ index_failed' = TRUE
  /\ reconciling' = TRUE
  /\ rpc' = "exit" /\ ready' = FALSE
  /\ DropLease
  /\ UNCHANGED <<index, applied_capture, bound, snapshot, target, captured,
                 retry>>
  /\ Rest

\* matches_source, which also fails while another thread holds cs_main.
MatchesSource(binding) ==
  SourceFree /\ binding = Binding /\ ~shutdown /\ ~index_failed

SourceCurrent == ~reconciling /\ MatchesSource(bound)

LoopEnds == shutdown \/ stop # "running"

LoopEnd ==
  /\ rpc = "loop"
  /\ LoopEnds
  /\ gate' = IF shutdown THEN GateClose(gate) ELSE gate
  /\ rpc' = "exit" /\ ready' = FALSE
  /\ UNCHANGED <<journal, probe, index_failed, target, lease, captured, retry>>
  /\ Rest

PollFindsWork ==
  retry \/ ~SourceCurrent \/ ~LogOpen(journal) \/ journal.queue # <<>>

\* A ticket starts a round; so does a poll that finds work, or a retry.
LoopRound ==
  /\ rpc = "loop" /\ ~LoopEnds
  /\ \/ tickets /\ UNCHANGED <<gate, ready>>
     \/ /\ ~tickets /\ SourceFree /\ PollFindsWork
        /\ gate' = GateBegin(gate)
        /\ ready' = FALSE
  /\ tickets' = FALSE
  /\ rpc' = "start"
  /\ UNCHANGED <<source, emitting, journal, attached, probe, index_failed,
                 shutdown, target, lease, captured, retry, callbacks, owner,
                 request>>

\* The round's ticket is acknowledged; a later one keeps the view unready.
LoopAcknowledge ==
  /\ rpc = "ack"
  /\ ready' = (~retry /\ ~tickets /\ stop = "running")
  /\ rpc' = "loop"
  /\ UNCHANGED <<journal, probe, gate, index_failed, target, lease, captured,
                 retry>>
  /\ Rest

-----------------------------------------------------------------------------
(* Drain.                                                                  *)

\* The replay's mutex is held from here to the end of Drain.
DrainBegin ==
  /\ rpc = "start" /\ Healthy
  /\ target' = journal.accepted
  /\ rpc' = "drain"
  /\ UNCHANGED <<journal, probe, gate, index_failed, lease, captured, retry>>
  /\ WorkerOnly

\* The journal stays charged for the event until it has been applied.
DrainTake ==
  /\ rpc = "drain" /\ index.sequence < target
  /\ Healthy /\ CanTake(journal)
  /\ lease' = <<[number |-> FrontNumber(journal), event |-> Head(journal.queue)]>>
  /\ journal' = Taking(journal)
  /\ rpc' = IF Head(journal.queue).kind \in {"Added", "Removed"}
            THEN "guard" ELSE "load"
  /\ UNCHANGED <<probe, gate, index_failed, target, captured, retry>>
  /\ WorkerOnly

\* A block is read from disk between two looks at the source; the second
\* one, under the locks, is the last point before the index is touched.
ApplyLoad ==
  /\ rpc = "load" /\ SourceFree /\ Healthy
  /\ rpc' = "guard"
  /\ UNCHANGED <<journal, probe, gate, index_failed, target, lease, captured,
                 retry>>
  /\ WorkerOnly

\* journal_guard: nobody may be admitted before the index changes, and the
\* blocks of the anchoring capture are let go.
ApplyGuard ==
  /\ rpc = "guard" /\ ~index_failed
  /\ lease[1].number = index.sequence + 1
  /\ reconciling' = TRUE /\ applied_capture' = <<>>
  /\ gate' = GateBegin(gate)
  /\ snapshot' = FALSE
  /\ rpc' = "apply"
  /\ UNCHANGED <<journal, index, bound, index_failed, target, lease, captured,
                 retry>>
  /\ WorkerOnly

\* apply_journal_add, apply_journal_remove, apply_journal_block: the index
\* after the event, and whether the writer returned Ok.
Applied(ix, e) ==
  CASE e.kind = "Added" ->
         [ok |-> /\ e.tx \notin ix.overlay.txs
                 /\ ~InsertError(ix.overlay, e.tx)
                 /\ ~InputTxNotFound(ix.overlay, Confirmed(ix.chain), e.tx),
          chain |-> ix.chain, overlay |-> OverlayInsert(ix.overlay, e.tx)]
    [] e.kind = "Removed" ->
         IF e.tx \in ix.overlay.txs
         THEN [ok |-> ~RemoveError(ix.overlay, e.tx),
               chain |-> ix.chain, overlay |-> OverlayRemove(ix.overlay, e.tx)]
         ELSE [ok |-> TRUE, chain |-> ix.chain, overlay |-> ix.overlay]
    [] e.kind = "Connected" ->
         LET removed == RemoveLeavesFirst(ix.overlay,
                                          e.conflicts \cap ix.overlay.txs)
         IN  [ok |-> /\ Prev[e.block] = TipOf(ix.chain)
                     /\ e.conflicts \cap BlockTxs[e.block] = {}
                     /\ NoneLeftBehind(ix.overlay.txs, e.conflicts)
                     /\ removed.ok,
              chain |-> Append(ix.chain, e.block),
              overlay |-> OverlayRemoveMined(removed.overlay, BlockTxs[e.block])]
    [] OTHER -> \* Disconnected
         [ok |-> ix.chain # <<>> /\ Last(ix.chain) = e.block,
          chain |-> Front(ix.chain), overlay |-> ix.overlay]

ApplyEvent ==
  LET result == Applied(index, lease[1].event) IN
    /\ rpc = "apply" /\ result.ok
    /\ index' = [chain |-> result.chain, overlay |-> result.overlay,
                 sequence |-> lease[1].number]
    /\ DropLease
    /\ rpc' = "drain"
    /\ UNCHANGED <<reconciling, applied_capture, bound, snapshot, gate,
                   index_failed, target, captured, retry>>
    /\ WorkerOnly

DrainEnd ==
  /\ rpc = "drain" /\ index.sequence >= target /\ Healthy
  /\ rpc' = "drained"
  /\ UNCHANGED <<journal, probe, gate, index_failed, target, lease, captured,
                 retry>>
  /\ WorkerOnly

\* The points where Drain throws.
DrainFails ==
  CASE rpc = "start" -> Unhealthy
    [] rpc = "drain" -> \/ Unhealthy
                        \/ /\ index.sequence < target /\ ~shutdown
                           /\ journal.queue = <<>>
    [] rpc = "load" -> SourceFree /\ Unhealthy
    [] rpc = "guard" -> index_failed \/ lease[1].number # index.sequence + 1
    [] rpc = "apply" -> ~Applied(index, lease[1].event).ok
    [] OTHER -> FALSE

DrainCancels ==
  /\ rpc \in {"start", "drain", "load"} /\ Cancelled
  /\ rpc = "load" => SourceFree

DrainThrow == (DrainFails /\ Fail) \/ (DrainCancels /\ Cancel)

-----------------------------------------------------------------------------
(* Publish: read the source under the locks, compare without them, look    *)
(* again under the locks.                                                  *)

Again ==
  /\ retry' = TRUE /\ rpc' = "ack"
  /\ UNCHANGED <<probe, gate>>

Drained == journal.accepted = index.sequence

PublishCapture ==
  /\ rpc = "drained" /\ SourceFree /\ Healthy
  /\ \/ ~Drained /\ Again /\ UNCHANGED captured
     \/ /\ Drained
        /\ captured' = [binding |-> Binding, pool |-> pool]
        /\ rpc' = "prepare"
        /\ UNCHANGED <<probe, gate, retry>>
  /\ UNCHANGED <<journal, index_failed, target, lease>>
  /\ WorkerOnly

\* The index shows what was captured.
MatchesCapture ==
  /\ index.overlay.txs = captured.pool
  /\ TipOf(index.chain) = captured.binding[1]
  /\ Len(index.chain) = captured.binding[2]

PublishPrepare ==
  /\ rpc = "prepare" /\ ~index_failed /\ MatchesCapture
  /\ gate' = GateBegin(gate)
  /\ applied_capture' = <<captured.binding, gate'.epoch>>
  /\ reconciling' = TRUE
  /\ rpc' = "commit"
  /\ UNCHANGED <<journal, index, bound, snapshot, index_failed, target, lease,
                 captured, retry>>
  /\ WorkerOnly

PublishCommit ==
  LET binding == applied_capture[1]
      epoch == applied_capture[2]
      unchanged == Drained /\ Binding = binding
  IN
    /\ rpc = "commit" /\ SourceFree /\ Healthy
    /\ \/ ~(unchanged /\ GatePublished(gate, epoch)) /\ Again
       \/ /\ unchanged /\ GatePublished(gate, epoch)
          /\ gate' = GatePublish(gate, epoch, binding)
          /\ bound' = binding /\ reconciling' = FALSE /\ applied_capture' = <<>>
          /\ retry' = FALSE /\ rpc' = "ack"
          /\ UNCHANGED <<index, snapshot>>
    /\ captured' = <<>>
    /\ UNCHANGED <<journal, index_failed, target, lease>>
    /\ WorkerOnly

PublishFails ==
  CASE rpc \in {"drained", "commit"} -> SourceFree /\ Unhealthy
    [] rpc = "prepare" -> index_failed \/ ~MatchesCapture
    [] OTHER -> FALSE

PublishThrow ==
  \/ PublishFails /\ Fail
  \/ rpc \in {"drained", "commit"} /\ SourceFree /\ Cancelled /\ Cancel

-----------------------------------------------------------------------------
(* The owner: a listener once the worker is ready; Stop, which closes      *)
(* admission without a lock.  The worker detaches the journal at its end.  *)

StartListener ==
  /\ listener = "none" /\ stop = "running" /\ ~shutdown
  /\ \/ rpc = "exit" /\ listener' = "refused"
     \/ /\ rpc = "loop" /\ ready
        /\ listener' = IF snapshot THEN "listening" ELSE "refused"
  /\ UNCHANGED <<source, emitting, journal, attached, probe, gate,
                 index_failed, shutdown, worker, tickets, callbacks, ready,
                 stop, request>>

StopClose ==
  /\ stop = "running"
  /\ MayStop \/ shutdown \/ listener = "refused" \/ index_failed
  /\ gate' = GateClose(gate)
  /\ ready' = FALSE
  /\ stop' = "closing"
  /\ UNCHANGED <<source, emitting, journal, attached, probe, index_failed,
                 shutdown, worker, tickets, callbacks, listener, request>>

\* The end of Run: JournalReplay::Stop, after which the index is gone.
Detach ==
  /\ rpc = "exit" /\ attached /\ SourceFree
  /\ gate' = GateClose(gate)
  /\ attached' = FALSE
  /\ journal' = Closing(journal)
  /\ UNCHANGED <<source, emitting, probe, index_failed, shutdown, worker,
                 tickets, callbacks, ready, owner, request>>

\* Stop returns once the validation queue has no callback of this
\* subscriber and the worker's thread has ended.
StopJoin ==
  /\ stop = "closing" /\ callbacks = 0 /\ rpc = "exit" /\ ~attached
  /\ stop' = "stopped"
  /\ UNCHANGED <<source, emitting, journal, attached, probe, gate,
                 index_failed, shutdown, worker, tickets, callbacks, ready,
                 listener, request>>

-----------------------------------------------------------------------------
(* A request: admitted by permit and current, answered if the permit is    *)
(* still current once the handler has read the index.                      *)

RequestOnly == UNCHANGED <<source, emitting, journal, attached, probe, gate,
                           index_failed, shutdown, worker, tickets, callbacks,
                           ready, owner>>

Goto(pc) == request' = [request EXCEPT !.pc = pc]

RequestPermit ==
  /\ MayRequest /\ listener = "listening"
  /\ request.pc = "idle" /\ gate.mode = Ready
  /\ request' = [request EXCEPT !.pc = "check", !.permit = GatePermit(gate)]
  /\ RequestOnly

StillPermitted == GateAdmits(gate, request.permit) \* mutant: source not looked at
StillCurrent ==
  GateAdmits(gate, request.permit) /\ MatchesSource(request.permit[2])

\* current: the permit stands and the source is where it says ...
RequestCheck ==
  /\ request.pc \in {"check", "recheck"}
  /\ IF StillCurrent
     THEN request' = [request EXCEPT
            !.pc = IF @ = "check" THEN "confirm" ELSE "reconfirm",
            !.agreed = request.pc = "recheck"
                       /\ request.view = <<chain, pool>>]
     ELSE request' = IdleRequest
  /\ RequestOnly

\* ... and the permit still stands after the source was looked at.
RequestConfirm ==
  /\ request.pc \in {"confirm", "reconfirm"}
  /\ IF GateAdmits(gate, request.permit)
     THEN Goto(IF request.pc = "confirm" THEN "dispatched" ELSE "answered")
     ELSE request' = IdleRequest
  /\ RequestOnly

RequestRead ==
  /\ request.pc = "dispatched"
  /\ request' = [request EXCEPT !.pc = "recheck",
                                !.view = <<index.chain, index.overlay.txs>>]
  /\ RequestOnly

RequestDone ==
  /\ request.pc = "answered"
  /\ request' = IdleRequest
  /\ RequestOnly

-----------------------------------------------------------------------------
WorkerStep ==
  \/ LoopEnd \/ LoopRound \/ LoopAcknowledge
  \/ DrainBegin \/ DrainTake \/ ApplyLoad \/ ApplyGuard \/ ApplyEvent
  \/ DrainEnd \/ DrainThrow
  \/ PublishCapture \/ PublishPrepare \/ PublishCommit \/ PublishThrow
  \/ Detach

RequestStep ==
  RequestPermit \/ RequestCheck \/ RequestConfirm \/ RequestRead \/ RequestDone

Next ==
  \/ ChangeSource \/ RecordEvent \/ Push \/ ShutDown
  \/ WorkerStep
  \/ StartListener \/ StopClose \/ StopJoin
  \/ RequestStep

Spec == Init /\ [][Next]_vars

-----------------------------------------------------------------------------
\* What an event does to the chain and to the set of pool transactions.
Effect(view, e) ==
  CASE e.kind = "Added" -> <<view[1], view[2] \cup {e.tx}>>
    [] e.kind = "Removed" -> <<view[1], view[2] \ {e.tx}>>
    [] e.kind = "Connected" ->
         <<Append(view[1], e.block),
           view[2] \ (e.conflicts \cup BlockTxs[e.block])>>
    [] e.kind = "Disconnected" -> <<Front(view[1]), view[2]>>

Outstanding ==
  [i \in 1 .. Len(lease) |-> lease[i].event] \o journal.queue \o emitting

(* While no event was lost and the worker runs, the index is               *)
(* behind the source by exactly the events leased, queued or still to be   *)
(* recorded, in that order: replaying them leads from what the index shows *)
(* to what the source is, across acceptance, trimming, reorganisation and  *)
(* invalidation.                                                           *)
IndexLagsByItsEvents ==
  LogOpen(journal) /\ rpc # "exit" =>
    FoldLeft(Effect, <<index.chain, index.overlay.txs>>, Outstanding)
      = <<chain, pool>>

(* Every recorded event is applied, leased or queued, and the budget       *)
(* counts the leased one (Drain: "Lease remains charged throughout DB      *)
(* work").                                                                 *)
EveryEventAccountedFor ==
  rpc # "exit" =>
    /\ journal.accepted = index.sequence + Len(lease) + Len(journal.queue)
    /\ journal.charged = Len(lease) + Len(journal.queue)
    /\ journal.charged <= MaxEvents

(* A view that is published and whose binding is the source's is the       *)
(* source: what the gate lets requests read is exact, not merely recent.   *)
PublishedViewIsExact ==
  gate.mode = Ready /\ gate.binding = Binding /\ SourceFree =>
    <<index.chain, index.overlay.txs>> = <<chain, pool>>

(* A request that is answered read exactly the source's chain and pool as  *)
(* they were when it was checked the last time, whatever the source, the   *)
(* replay, Push and Stop did while it ran.                                 *)
AnswersAreCurrent == request.pc = "answered" => request.agreed

(* Once Stop has begun no view can be published again, although Drain and  *)
(* Publish may still run to their end or fail.                             *)
StopClosesAdmission == stop # "running" => gate.mode = Closed

(* A request not yet dispatched when Stop begins is never answered.        *)
NoDispatchAfterStop ==
  [][stop # "running" /\ request.pc \in {"idle", "check", "confirm"} =>
       request'.pc # "dispatched"]_vars
=============================================================================
