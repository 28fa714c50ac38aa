--------------------------- MODULE ArchivalWorker ---------------------------
(***************************************************************************)
(* The callback reactor of chronik-cpp/ergon_archival_worker.cpp in the    *)
(* profiles without a journal: validation callbacks leave tickets, the     *)
(* worker captures the node's chain and pool, brings the index there and   *)
(* publishes it if the node has not moved (reconcile_captured of           *)
(* ergon_archival_probe.cpp, apply_capture of ergon_archival.rs).          *)
(*                                                                         *)
(* Threads: whoever validates, the validation queue, the worker, and the   *)
(* owner that calls Stop.  A step is a section under one lock.  A strict   *)
(* worker queues its tickets, a service keeps only their number.           *)
(*                                                                         *)
(* Left out: arrival times, byte budgets, the 288-block window (the root   *)
(* of the model's chains is its retained anchor), moved block files.       *)
(***************************************************************************)
EXTENDS NativeNode, MempoolOverlay, RequestGate

CONSTANTS
  Capacity,       \* of a strict worker's tickets
  MaxAccepted,    \* UINT64_MAX
  Attempts,       \* captures a round tries
  Faults,         \* TRUE: hook, allocation and disk reads may fail
  MayStop, MayShutDown

ASSUME WorkerAssumption ==
  /\ Faults \in BOOLEAN
  /\ Capacity \in Nat \ {0} /\ MaxAccepted \in Nat /\ Attempts \in Nat \ {0}

VARIABLES
  service_mode,   \* the constructor's flag
  queue,          \* the validation queue: callbacks and fences
  pushing,        \* Push has closed the gate and not yet taken mu
  registered, fenced,
  tickets, pending, accepted, completed, discarded, rejected,
  failure, failure_pending, ready, closed, stopping, joined,
  index, reconciling, applied_capture, bound, gate, index_failed, shutdown,
  pc, ticket, retry, attempt, captured, published,   \* the worker's thread
  stop_pc,
  seen            \* history: the newest source revision a ticket stands for

callbacks == <<queue, pushing, registered, fenced>>
frontier == <<tickets, pending, accepted, completed, discarded, rejected, seen>>
status == <<failure, failure_pending, ready, closed, stopping, joined>>
probe == <<index, reconciling, applied_capture, bound>>
thread == <<pc, ticket, retry, attempt, captured, published>>
modes == <<service_mode, shutdown>>
vars == <<source, emitting, callbacks, frontier, status, probe, gate,
          index_failed, modes, thread, stop_pc>>

failed == failure # "None"

\* The constructor has published one capture and registered.  A service
\* starts also when the source moved under every capture: the index is then
\* where the startup left it.
Started(current) ==
  /\ ready = current
  /\ bound = IF current THEN Binding ELSE [Binding EXCEPT ![4] = 0]
  /\ index = [chain |-> chain, overlay |-> OverlayOf(pool),
              generation |-> IF current THEN chain_generation ELSE 0]
  /\ gate = [epoch |-> 1, mode |-> IF current THEN Ready ELSE Busy,
             binding |-> IF current THEN Binding ELSE NoBinding]

Init ==
  /\ NodeInit
  /\ service_mode \in BOOLEAN
  /\ queue = <<>> /\ pushing = <<>> /\ registered = TRUE /\ fenced = {}
  /\ tickets = <<>> /\ pending = 0 /\ accepted = 0 /\ completed = 0
  /\ discarded = 0 /\ rejected = 0 /\ seen = 0
  /\ failure = "None" /\ failure_pending = 0
  /\ closed = FALSE /\ stopping = FALSE /\ joined = FALSE
  /\ \E current \in {TRUE, ~service_mode} : Started(current)
  /\ reconciling = FALSE /\ applied_capture = <<>>
  /\ index_failed = FALSE /\ shutdown = FALSE
  /\ pc = "loop" /\ ticket = 0 /\ retry = service_mode /\ attempt = 0
  /\ captured = <<>> /\ published = FALSE
  /\ stop_pc = "running"

-----------------------------------------------------------------------------
(* The node and the validation queue.                                      *)

ChangeSource ==
  /\ SourceStep
  /\ UNCHANGED <<callbacks, frontier, status, probe, gate, index_failed,
                 modes, thread, stop_pc>>

Callback(revision) == [kind |-> "callback", revision |-> revision]
Fence(who) == [kind |-> "fence", who |-> who]

\* Each signal of a change is queued while cs_main is held.
Notify ==
  /\ emitting # <<>>
  /\ emitting' = Tail(emitting)
  /\ queue' = Append(queue, Callback(mempool_revision))
  /\ UNCHANGED <<source, pushing, registered, fenced, frontier, status, probe,
                 gate, index_failed, modes, thread, stop_pc>>

\* The queue's thread; a callback whose subscriber has gone does nothing.
Deliver ==
  /\ pushing = <<>> /\ queue # <<>>
  /\ queue' = Tail(queue)
  /\ LET e == Head(queue) IN
       \/ /\ e.kind = "fence" /\ fenced' = fenced \cup {e.who}
          /\ UNCHANGED <<pushing, gate>>
       \/ /\ e.kind = "callback" /\ registered
          /\ gate' = GateBegin(gate) /\ pushing' = <<e.revision>>
          /\ UNCHANGED fenced
       \/ /\ e.kind = "callback" /\ ~registered
          /\ UNCHANGED <<pushing, gate, fenced>>
  /\ UNCHANGED <<source, emitting, registered, frontier, status, probe,
                 index_failed, modes, thread, stop_pc>>

\* Fail, under mu: the first cause and the occupancy it met are kept.
Fail(why) ==
  /\ failure' = IF failed THEN failure ELSE why
  /\ failure_pending' = IF failed THEN failure_pending ELSE pending
  /\ ready' = FALSE
  /\ gate' = GateFail(gate) /\ index_failed' = TRUE

Refuses == closed \/ failed

\* Why a ticket cannot be given out.
TicketFailure ==
  CASE ~service_mode /\ pending = Capacity -> "CallbackCapacity"
    [] (service_mode \/ pending # Capacity) /\ accepted = MaxAccepted ->
         "SequenceExhausted"
    [] OTHER -> "None"

\* Push under mu.  The hook runs before it and is not asked whether the
\* worker is still open.
PushTicket ==
  /\ pushing # <<>>
  /\ pushing' = <<>>
  /\ \/ /\ Refuses /\ rejected' = rejected + 1
        /\ UNCHANGED <<tickets, pending, accepted, seen, failure,
                       failure_pending, ready, gate, index_failed>>
     \/ /\ ~Refuses /\ TicketFailure # "None" /\ Fail(TicketFailure)
        /\ UNCHANGED <<tickets, pending, accepted, seen, rejected>>
     \/ /\ ~Refuses /\ TicketFailure = "None"
        /\ accepted' = accepted + 1 /\ pending' = pending + 1
        /\ tickets' = IF service_mode THEN tickets
                      ELSE Append(tickets, accepted + 1)
        /\ seen' = pushing[1]
        /\ ready' = FALSE
        /\ UNCHANGED <<rejected, failure, failure_pending, gate, index_failed>>
     \/ /\ Faults
        /\ \/ Fail("NotificationHook")
           \/ ~Refuses /\ TicketFailure = "None" /\ Fail("TicketAllocation")
        /\ UNCHANGED <<tickets, pending, accepted, seen, rejected>>
  /\ UNCHANGED <<source, emitting, queue, registered, fenced, completed,
                 discarded, closed, stopping, joined, probe, modes, thread,
                 stop_pc>>

ShutDown ==
  /\ MayShutDown /\ ~shutdown
  /\ shutdown' = TRUE
  /\ UNCHANGED <<service_mode, source, emitting, callbacks, frontier, status, probe, gate,
                 index_failed, thread, stop_pc>>

-----------------------------------------------------------------------------
(* The worker's loop.                                                      *)

HasTicket == IF service_mode THEN accepted # completed ELSE tickets # <<>>

TakeNewest == \* mutant: a strict worker takes the newest ticket
  IF service_mode
  THEN ticket' = accepted /\ UNCHANGED tickets
  ELSE ticket' = Last(tickets) /\ tickets' = Front(tickets)

\* A strict worker takes the oldest ticket, a service all of them at once.
TakeTicket ==
  IF service_mode
  THEN ticket' = accepted /\ UNCHANGED tickets
  ELSE ticket' = Head(tickets) /\ tickets' = Tail(tickets)

LeavesFailed == failed \* mutant: only a failure ends the loop
Leaves == stopping \/ closed \/ failed

SourceCurrentUnbound == \* mutant: the binding is not compared
  ~reconciling /\ ~shutdown /\ ~index_failed

SourceCurrent ==
  ~reconciling /\ bound = Binding /\ ~shutdown /\ ~index_failed

Elsewhere == UNCHANGED <<source, emitting, pushing, registered, fenced,
                         accepted, rejected, seen, stopping, joined, modes,
                         stop_pc>>

LoopLeave ==
  /\ pc = "loop" /\ (shutdown \/ Leaves)
  /\ IF shutdown THEN gate' = GateClose(gate) /\ closed' = TRUE
     ELSE UNCHANGED <<gate, closed>>
  /\ ready' = IF shutdown THEN FALSE ELSE ready
  /\ pc' = "teardown"
  /\ UNCHANGED <<queue, tickets, pending, completed, discarded, failure,
                 failure_pending, probe, index_failed, ticket, retry, attempt,
                 captured, published>>
  /\ Elsewhere

LoopTake ==
  /\ pc = "loop" /\ ~shutdown /\ ~Leaves /\ HasTicket
  /\ TakeTicket
  /\ pc' = "capture" /\ attempt' = 0
  /\ UNCHANGED <<queue, pending, completed, discarded, failure,
                 failure_pending, ready, closed, probe, gate, index_failed,
                 retry, captured, published>>
  /\ Elsewhere

\* A poll that finds the view out of date lets the queued callbacks pass.
LoopPoll ==
  /\ pc = "loop" /\ ~shutdown /\ ~Leaves /\ ~HasTicket
  /\ SourceFree /\ (retry \/ ~SourceCurrent)
  /\ queue' = Append(queue, Fence("worker"))
  /\ pc' = "fence"
  /\ UNCHANGED <<tickets, pending, completed, discarded, failure,
                 failure_pending, ready, closed, probe, gate, index_failed,
                 ticket, retry, attempt, captured, published>>
  /\ Elsewhere

LoopFenced ==
  /\ pc = "fence" /\ "worker" \in fenced
  /\ fenced' = fenced \ {"worker"}
  /\ \/ /\ Leaves /\ pc' = "teardown"
        /\ UNCHANGED <<tickets, ready, gate, ticket, attempt>>
     \/ /\ ~Leaves /\ pc' = "capture" /\ attempt' = 0
        /\ IF HasTicket THEN TakeTicket ELSE ticket' = 0 /\ UNCHANGED tickets
        /\ ready' = FALSE
        /\ gate' = GateBegin(gate)
  /\ UNCHANGED <<source, emitting, queue, pushing, registered, pending,
                 accepted, completed, discarded, rejected, seen, failure,
                 failure_pending, closed, stopping, joined, probe,
                 index_failed, modes, retry, captured, published, stop_pc>>

-----------------------------------------------------------------------------
(* A round: reconcile_captured.                                            *)

Round == UNCHANGED <<queue, tickets, pending, completed, discarded, failure,
                     failure_pending, ready, closed, index_failed, ticket,
                     retry>>

OrderGap ==
  ticket # 0 /\ IF service_mode THEN ticket <= completed
                ELSE ticket # completed + 1

Capture ==
  /\ pc = "capture" /\ ~OrderGap
  /\ \/ /\ (attempt = Attempts \/ shutdown)
        /\ published' = FALSE /\ pc' = "ack"
        /\ UNCHANGED <<captured, attempt>>
     \/ /\ attempt < Attempts /\ ~shutdown /\ SourceFree /\ ~index_failed
        /\ captured' = [binding |-> Binding, chain |-> chain, pool |-> pool]
        /\ attempt' = attempt + 1
        /\ pc' = "disk"
        /\ UNCHANGED published
  /\ UNCHANGED <<probe, gate>>
  /\ Round /\ Elsewhere

Current == captured.binding = Binding /\ ~shutdown

\* Coins and blocks have been read outside the locks.
ReadDisk ==
  /\ pc = "disk" /\ SourceFree
  /\ pc' = IF Current THEN "apply" ELSE "capture"
  /\ UNCHANGED <<probe, gate, attempt, captured, published>>
  /\ Round /\ Elsewhere

\* Mutant: a moved chain keeps the pool entries that are still wanted.
OutdatedPoolOnly(ix, c) == ix.overlay.txs \ c.pool

\* Pool entries to take out: all of them when the chain has moved.
Outdated(ix, c) ==
  IF ix.chain = c.chain /\ ix.generation = c.binding[3]
  THEN ix.overlay.txs \ c.pool ELSE ix.overlay.txs

ArrivalsChildrenFirst(o, c) == \* mutant
  Reverse(Topological(c.pool \ o.txs))
Arrivals(o, c) == Topological(c.pool \ o.txs)

\* apply_capture: entries go, children first, and with them whatever the new
\* blocks confirm; then entries come, parents first.
Kept(ix, c) ==
  LET removed == RemoveLeavesFirst(ix.overlay,
                                   Descendants(ix.overlay.txs, Outdated(ix, c)))
  IN  IF c.chain = ix.chain THEN removed
      ELSE [removed EXCEPT !.overlay = OverlayRemoveMined(@, Confirmed(c.chain))]

Added(ix, c) ==
  LET kept == Kept(ix, c)
  IN  FoldLeft(LAMBDA acc, t :
                 [ok |-> /\ acc.ok /\ ~InsertError(acc.overlay, t)
                         /\ ~InputTxNotFound(acc.overlay, Confirmed(c.chain), t),
                  overlay |-> OverlayInsert(acc.overlay, t)],
               kept, Arrivals(kept.overlay, c))

\* ok is FALSE where a writer returns Err.
Reconciled(ix, c) ==
  LET added == Added(ix, c)
  IN  [ok |-> added.ok /\ added.overlay.txs = c.pool,
       index |-> [chain |-> c.chain, overlay |-> added.overlay,
                  generation |-> c.binding[3]]]

Apply ==
  LET result == Reconciled(index, captured) IN
    /\ pc = "apply" /\ ~index_failed /\ result.ok
    /\ gate' = GateBegin(gate)
    /\ index' = result.index
    /\ applied_capture' = <<captured.binding, gate'.epoch>>
    /\ reconciling' = TRUE
    /\ pc' = "publish"
    /\ UNCHANGED <<bound, attempt, captured, published>>
    /\ Round /\ Elsewhere

\* publish_capture under the locks, if nothing has moved since the capture.
Publish ==
  /\ pc = "publish" /\ SourceFree /\ ~index_failed
  /\ IF Current /\ GatePublished(gate, applied_capture[2])
     THEN /\ gate' = GatePublish(gate, applied_capture[2], applied_capture[1])
          /\ bound' = applied_capture[1]
          /\ reconciling' = FALSE /\ applied_capture' = <<>>
          /\ published' = TRUE
          /\ pc' = "ack"
     ELSE /\ pc' = "capture"
          /\ UNCHANGED <<gate, bound, reconciling, applied_capture, published>>
  /\ UNCHANGED <<index, attempt, captured>>
  /\ Round /\ Elsewhere

AccountingGap ==
  ticket # 0 /\ ~(ticket - completed \in 1 .. pending)

ReadyAfterRound(left) == published /\ ~closed /\ ~failed \* mutant: pending ignored
ReadyAfter(left) == published /\ ~closed /\ ~failed /\ left = 0

Left(done) == pending - (done - completed)

\* The ticket is acknowledged whether or not the round published.
Acknowledge ==
  LET done == IF ticket = 0 THEN completed ELSE ticket
      left == Left(done)
  IN
    /\ pc = "ack" /\ ~AccountingGap
    /\ completed' = done /\ pending' = left
    /\ ready' = ReadyAfter(left)
    /\ retry' = ~published
    /\ pc' = "loop" /\ captured' = <<>> /\ ticket' = 0
    /\ UNCHANGED <<queue, tickets, discarded, failure, failure_pending, closed,
                   probe, gate, index_failed, attempt, published>>
    /\ Elsewhere

\* The points where the round throws.
Throws ==
  CASE pc = "capture" -> OrderGap \/ (attempt < Attempts /\ ~shutdown /\ index_failed)
    [] pc = "disk" -> index_failed \/ (Faults /\ SourceFree /\ Current)
    [] pc = "apply" -> index_failed \/ ~Reconciled(index, captured).ok
    [] pc = "publish" -> SourceFree /\ index_failed
    [] pc = "ack" -> AccountingGap
    [] OTHER -> FALSE

Throw ==
  /\ Throws /\ Fail("Reconcile")
  /\ reconciling' = TRUE
  /\ pc' = "teardown"
  /\ UNCHANGED <<queue, tickets, pending, completed, discarded, closed, index,
                 applied_capture, bound, ticket, retry, attempt, captured,
                 published>>
  /\ Elsewhere

\* The worker destroys what it owns.
Teardown ==
  /\ pc = "teardown"
  /\ ready' = FALSE
  /\ discarded' = accepted - completed /\ pending' = 0 /\ tickets' = <<>>
  /\ IF failed THEN gate' = GateFail(gate) /\ reconciling' = TRUE
     ELSE UNCHANGED <<gate, reconciling>>
  /\ pc' = "ended"
  /\ UNCHANGED <<queue, completed, failure, failure_pending, closed, index,
                 applied_capture, bound, index_failed, ticket, retry, attempt,
                 captured, published>>
  /\ Elsewhere

-----------------------------------------------------------------------------
(* Stop.                                                                   *)

StopClose ==
  /\ stop_pc = "running" /\ MayStop
  /\ gate' = GateClose(gate)
  /\ closed' = TRUE /\ ready' = FALSE
  /\ stop_pc' = "closed"
  /\ UNCHANGED <<source, emitting, callbacks, frontier, failure,
                 failure_pending, stopping, joined, probe, index_failed,
                 modes, thread>>

StopUnregister ==
  /\ stop_pc = "closed"
  /\ registered' = FALSE
  /\ queue' = Append(queue, Fence("stop"))
  /\ stop_pc' = "fence"
  /\ UNCHANGED <<source, emitting, pushing, fenced, frontier, status, probe,
                 gate, index_failed, modes, thread>>

StopPastFenceEarly == stop_pc = "fence" \* mutant: the queue is not waited for
StopPastFence == stop_pc = "fence" /\ "stop" \in fenced

StopSignal ==
  /\ StopPastFence
  /\ stopping' = TRUE
  /\ stop_pc' = "join"
  /\ UNCHANGED <<source, emitting, callbacks, frontier, failure,
                 failure_pending, ready, closed, joined, probe, gate,
                 index_failed, modes, thread>>

StopJoin ==
  /\ stop_pc = "join" /\ pc = "ended"
  /\ joined' = TRUE
  /\ stop_pc' = "done"
  /\ UNCHANGED <<source, emitting, callbacks, frontier, failure,
                 failure_pending, ready, closed, stopping, probe, gate,
                 index_failed, modes, thread>>

-----------------------------------------------------------------------------
WorkerStep ==
  \/ LoopLeave \/ LoopTake \/ LoopPoll \/ LoopFenced
  \/ Capture \/ ReadDisk \/ Apply \/ Publish \/ Acknowledge \/ Throw
  \/ Teardown

QueueStep == Deliver \/ PushTicket

StopStep == StopUnregister \/ StopSignal \/ StopJoin

Next ==
  \/ ChangeSource \/ Notify \/ QueueStep \/ ShutDown
  \/ WorkerStep
  \/ StopClose \/ StopStep

Spec == Init /\ [][Next]_vars

\* Threads run: whoever validates finishes its change, the queue's thread
\* and the worker (a 100 ms poll) go on, and a Stop that began continues.
Fairness ==
  /\ WF_vars(Notify) /\ WF_vars(QueueStep)
  /\ WF_vars(WorkerStep) /\ WF_vars(StopStep)

LiveSpec == Spec /\ Fairness

-----------------------------------------------------------------------------
(* Until the worker tears down, the tickets given out and not acknowledged *)
(* are exactly the pending ones, and a strict worker's deque holds them in *)
(* order behind the one in flight: the two consistency checks of Run       *)
(* ("Callback ticket order gap", "Callback frontier accounting gap") can   *)
(* never fire, whatever Push does between taking a ticket and              *)
(* acknowledging it.                                                       *)
FrontierIsExact ==
  /\ pc \notin {"ended"} => pending = accepted - completed
  /\ ~service_mode /\ pc \notin {"ended"} =>
       tickets = [i \in 1 .. Len(tickets) |-> accepted - Len(tickets) + i]
  /\ pc = "capture" => ~OrderGap
  /\ pc = "ack" => ~AccountingGap

(* A ready view has seen every change whose callback was accepted:         *)
(* WaitThrough and the queries, which ask for ready, never speak of a      *)
(* change the index has not applied, although a ticket is acknowledged     *)
(* even when its round did not publish.                                    *)
ReadyCoversAccepted == ready => pending = 0 /\ bound[4] >= seen

(* A published view whose binding is the source's is the source: chain,    *)
(* pool and the outputs the pool leaves unspent (apply_capture).           *)
PublishedViewIsExact ==
  gate.mode = Ready /\ gate.binding = Binding /\ SourceFree =>
    index.chain = chain /\ index.overlay = OverlayOf(pool)

(* Bringing the index from one capture to the next never makes an upstream *)
(* writer return an error, across reorganisations, conflicts and packages  *)
(* (apply_capture: removal of leaves first, insertion of parents first).   *)
ReconcileNeverFails == pc = "apply" => Reconciled(index, captured).ok

(* The first failure is the one reported, with the occupancy it met, even  *)
(* when Push and the worker fail one after the other (Fail).               *)
FirstFailureIsKept ==
  [][failed => UNCHANGED <<failure, failure_pending>>]_vars

(* When Stop has returned no callback is being run or will be, and every   *)
(* accepted ticket was either completed or counted as discarded.           *)
StopIsABarrier ==
  joined => /\ pushing = <<>> /\ ~registered /\ pc = "ended"
            /\ accepted = completed + discarded

(* With the node at rest the view becomes ready and current for good,      *)
(* unless the worker failed or was closed: a silent change (one without a  *)
(* callback) is found by the poll, an unpublished round is retried.        *)
Recovers ==
  <>[](closed \/ failed \/ (ready /\ bound = Binding /\ gate.mode = Ready))

(* Stop returns, also when it meets the worker waiting for its own fence   *)
(* in the validation queue.                                                *)
StopReturns == stop_pc = "closed" ~> joined
=============================================================================
