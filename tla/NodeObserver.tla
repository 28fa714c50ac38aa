---------------------------- MODULE NodeObserver ----------------------------
(***************************************************************************)
(* The node observer of chronik/node-observer.cpp: a node whose chain      *)
(* changes are reported by the validation interface, the envelope that     *)
(* carries them to a worker thread, the projection and the persistent      *)
(* index the worker keeps, and the loopback queries the index answers.     *)
(* The process starts, stops, crashes and starts again.                    *)
(*                                                                         *)
(* Threads: validation (the chain), the scheduler (callbacks), the worker, *)
(* one per query, and the main thread (start and stop).  The envelope      *)
(* appears as the stream it implements: see EventEnvelope, EventStream.    *)
(***************************************************************************)
EXTENDS ObserverProjection, TokenRuntime, FiniteSets

CONSTANTS Queries,        \* clients of the query service
          Capacity,       \* slots of the envelope
          Stored,         \* chains a node may have when it first observes
          MaxChanges,     \* bound: changes of the active chain
          MaxStarts       \* bound: starts of the process

ASSUME NodeAssumption ==
  /\ "free" \notin Queries /\ "worker" \notin Queries
  /\ Capacity \in Nat \ {0} /\ Stored \subseteq Seq(Txs)
  /\ MaxChanges \in Nat /\ MaxStarts \in Nat

VARIABLES
  tip,              \* ChainActive().Tip()
  flushed,          \* the tip of the chain state on disk
  signals,          \* chain changes queued for the scheduler thread
  node,             \* where the main thread is
  cpc,              \* where the scheduler thread is in a callback
  next_sequence,    \* m_next_sequence
  queue, failed, stopping,              \* the envelope
  wpc, event, observation,              \* the worker in RunWorker, consumer
  observer,         \* the projection
  db,               \* the index on disk
  runtime,          \* the Rust object behind m_runtime; "open" when non-null
  runtime_active, closing,              \* m_runtime_active, m_closing
  closed, gate,     \* m_admission: m_closed and the holder of m_mutex
  service,          \* the query service is running
  tx_busy, qpc, query,                  \* its permit, its request threads
  changes, starts   \* counters for the bounds

chain == <<tip, flushed, signals, changes>>
callback == <<cpc, next_sequence>>
envelope == <<queue, failed, stopping>>
worker == <<wpc, event, observation>>
admission == <<closed, gate>>
index == <<db, runtime, runtime_active, closing>>
requests == <<service, tx_busy, qpc, query>>
main == <<node, starts>>
vars == <<chain, callback, envelope, worker, observer, admission, index,
          requests, main>>

Free == "free"
NoEvent == [kind |-> "none", block |-> NoBlock, sequence |-> 0]
NoQuery == [route |-> "none", tx |-> GenesisTx, tip |-> NoBlock,
            block |-> NoBlock]
Kinds == {"connected", "disconnected"}
Stamped(change, s) ==
  [kind |-> change.kind, block |-> change.block, sequence |-> s]

Running == node \in {"up", "plain"}
\* The observer is registered with the validation interface.
Registered == node \in {"up", "flush"}
\* Labels of a query inside the gate.
Host == {"tip", "lookup", "read", "reread", "copy", "final"}

\* On disk: a chain state and an empty index.  Not in memory: nothing.
Init ==
  /\ tip = NoBlock /\ flushed \in Stored /\ db = <<>>
  /\ node = "down" /\ starts = 0 /\ changes = 0
  /\ signals = <<>> /\ cpc = "idle" /\ next_sequence = 0
  /\ queue = <<>> /\ failed = FALSE /\ stopping = FALSE
  /\ wpc = "none" /\ event = NoEvent /\ observation = 0
  /\ observer = NewObserver
  /\ runtime = "none" /\ runtime_active = FALSE /\ closing = FALSE
  /\ closed = FALSE /\ gate = Free
  /\ service = FALSE /\ tx_busy = FALSE
  /\ qpc = [q \in Queries |-> "idle"]
  /\ query = [q \in Queries |-> NoQuery]

-----------------------------------------------------------------------------
(***************************************************************************)
(* The active chain.  A change and its signal happen under cs_main; a      *)
(* change nobody is registered for is not reported to anybody.             *)
(***************************************************************************)
Signal(change) ==
  signals' = IF node = "up" THEN Append(signals, change) ELSE signals

ConnectTip ==
  /\ Running /\ changes < MaxChanges
  /\ changes' = changes + 1
  /\ \E b \in Children(tip) : tip' = b /\ Signal(BlockConnected(b))
  /\ UNCHANGED <<flushed, callback, envelope, worker, observer, admission,
                 index, requests, main>>

\* The genesis block is never disconnected.
DisconnectTip ==
  /\ Running /\ changes < MaxChanges
  /\ Len(tip) > 1
  /\ changes' = changes + 1
  /\ tip' = PrevHash(tip) /\ Signal(BlockDisconnected(tip))
  /\ UNCHANGED <<flushed, callback, envelope, worker, observer, admission,
                 index, requests, main>>

\* FlushStateToDisk, periodic.
Flush ==
  /\ Running /\ flushed # tip
  /\ flushed' = tip
  /\ UNCHANGED <<tip, signals, changes, callback, envelope, worker, observer,
                 admission, index, requests, main>>

(***************************************************************************)
(* BlockConnected and BlockDisconnected, run by the scheduler thread, and  *)
(* by the main thread when it empties the queue during shutdown.           *)
(***************************************************************************)
\* NextSequence: fetch_add wraps around, and the number it wraps to is not used.
NextSequence == IF next_sequence = MaxSequence THEN 0 ELSE next_sequence + 1

Overflow == Len(queue) >= Capacity

Open == ~failed /\ ~stopping

\* Mutant: an event that does not fit is dropped as if it were refused.
RefusesAlsoFull == ~Open \/ Overflow

\* Failure and stopping are tested first, and the event is left unpublished.
Refuses == ~Open

\* Submit, as the stream the envelope implements: the event is refused, or
\* published, or it finds no room or throws and the envelope degrades.
Submits(change) ==
  LET s == NextSequence IN
    /\ \/ s # 0 /\ Refuses /\ UNCHANGED <<queue, failed>>
       \/ /\ s # 0 /\ Open /\ ~Overflow
          /\ queue' = Append(queue, Stamped(change, s)) /\ failed' = failed
       \/ /\ s = 0 \/ Open
          /\ failed' = TRUE /\ queue' = queue
    /\ stopping' = stopping

Callback ==
  /\ Registered /\ cpc = "idle" /\ signals # <<>>
  /\ signals' = Tail(signals)
  /\ next_sequence' = NextSequence
  /\ Submits(Head(signals))
  /\ cpc' = "snapshot"
  /\ UNCHANGED <<tip, flushed, changes, worker, observer, admission, index,
                 requests, main>>

\* Snapshot().degraded closes the queries.
CallbackSnapshot ==
  /\ cpc = "snapshot"
  /\ cpc' = "idle"
  /\ closed' = (closed \/ (failed /\ runtime # "none"))
  /\ UNCHANGED <<chain, next_sequence, envelope, worker, observer, gate, index,
                 requests, main>>

\* Serializing or copying the block throws: queries close, then it degrades.
CallbackThrows ==
  /\ Registered /\ cpc = "idle" /\ signals # <<>>
  /\ signals' = Tail(signals)
  /\ closed' = (closed \/ runtime # "none")
  /\ cpc' = "mark"
  /\ UNCHANGED <<tip, flushed, changes, next_sequence, envelope, worker,
                 observer, gate, index, requests, main>>

CallbackMarks ==
  /\ cpc = "mark"
  /\ failed' = TRUE
  /\ cpc' = "idle"
  /\ UNCHANGED <<chain, next_sequence, queue, stopping, worker, observer,
                 admission, index, requests, main>>

(***************************************************************************)
(* RunWorker: the loop around the consumer.                                *)
(***************************************************************************)
WorkerLoops ==
  /\ wpc = "loop"
  /\ wpc' = IF failed THEN "done" ELSE "poll"
  /\ UNCHANGED <<chain, callback, envelope, event, observation, observer,
                 admission, index, requests, main>>

WorkerTakesEvent ==
  /\ wpc = "poll" /\ queue # <<>>
  /\ event' = Head(queue) /\ queue' = Tail(queue)
  /\ wpc' = "observe"
  /\ UNCHANGED <<chain, callback, failed, stopping, observation, observer,
                 admission, index, requests, main>>

WorkerSeesEmpty ==
  /\ wpc = "poll" /\ queue = <<>>
  /\ wpc' = "empty"
  /\ UNCHANGED <<chain, callback, envelope, event, observation, observer,
                 admission, index, requests, main>>

\* stopping is tested after the indexes were read.
WorkerStopsOrWaits ==
  /\ wpc = "empty"
  /\ wpc' = IF stopping THEN "done" ELSE "wait"
  /\ UNCHANGED <<chain, callback, envelope, event, observation, observer,
                 admission, index, requests, main>>

\* Mutant: a published event does not wake the worker.
WorkerWakesWhenFlagged ==
  /\ wpc = "wait" /\ (failed \/ stopping)
  /\ wpc' = "loop"
  /\ UNCHANGED <<chain, callback, envelope, event, observation, observer,
                 admission, index, requests, main>>

WorkerWakes ==
  /\ wpc = "wait" /\ (failed \/ stopping \/ queue # <<>>)
  /\ wpc' = "loop"
  /\ UNCHANGED <<chain, callback, envelope, event, observation, observer,
                 admission, index, requests, main>>

(***************************************************************************)
(* The consumer: the projection first, the index second, then the verdict. *)
(***************************************************************************)
\* The projection takes the event, or rejects it (out of order, or for want of
\* memory), or panics before or after it has taken it.
ConsumerObserves ==
  /\ wpc = "observe"
  /\ \/ /\ Observes(observer, event)
        /\ observer' = Observed(observer, event)
        /\ observation' = observer'.sequence
     \/ observer' = observer /\ observation' = 0
     \/ observer' = FailClosedAfterPanic(observer) /\ observation' = 0
     \/ /\ Observes(observer, event)
        /\ observer' = FailClosedAfterPanic(Observed(observer, event))
        /\ observation' = 0
  /\ wpc' = IF runtime_active THEN "lock" ELSE "verdict"
  /\ UNCHANGED <<chain, callback, envelope, event, admission, index, requests,
                 main>>

\* Mutate waits for the gate and rejects a runtime that is being destroyed.
ConsumerLocks ==
  /\ wpc = "lock" /\ gate = Free
  /\ IF closing \/ runtime # "open"
       THEN wpc' = "disable" /\ gate' = gate
       ELSE wpc' = "mutate" /\ gate' = "worker"
  /\ UNCHANGED <<chain, callback, envelope, event, observation, observer,
                 closed, index, requests, main>>

\* chronik_runtime_connect, chronik_runtime_disconnect: the batch is written,
\* or the block is out of order or the database fails and nothing is.
ConsumerMutates ==
  /\ wpc = "mutate"
  /\ gate' = Free
  /\ \/ Fits(db, event) /\ db' = Mutated(db, event) /\ wpc' = "verdict"
     \/ db' = db /\ wpc' = "disable"
  /\ UNCHANGED <<chain, callback, envelope, event, observation, observer,
                 closed, runtime, runtime_active, closing, requests, main>>

\* A rejected mutation disables the index: runtime_active, then Destroy.
ConsumerDisables ==
  /\ wpc = "disable"
  /\ runtime_active' = FALSE
  /\ closed' = TRUE /\ closing' = TRUE
  /\ wpc' = "take"
  /\ UNCHANGED <<chain, callback, envelope, event, observation, observer,
                 gate, db, runtime, requests, main>>

\* Mutant: the runtime is taken away without waiting for the gate.
TakesRuntimeUngated == runtime' = IF runtime = "open" THEN "stopping" ELSE runtime

\* Destroy exchanges the pointer under the gate: one caller gets it.
TakesRuntime ==
  /\ gate = Free
  /\ runtime' = IF runtime = "open" THEN "stopping" ELSE runtime

ConsumerTakes ==
  /\ wpc = "take"
  /\ TakesRuntime
  /\ wpc' = IF runtime = "open" THEN "join" ELSE "verdict"
  /\ UNCHANGED <<chain, callback, envelope, event, observation, observer,
                 admission, db, runtime_active, closing, requests, main>>

ConsumerJoined ==
  /\ wpc = "join" /\ runtime = "closed"
  /\ wpc' = "verdict"
  /\ UNCHANGED <<chain, callback, envelope, event, observation, observer,
                 admission, index, requests, main>>

\* A rejected or misnumbered observation, or a lost anchor, closes the queries
\* and degrades the envelope.
ConsumerVerdict ==
  LET rejected == \/ observation = 0 \/ observation # event.sequence
                  \/ observer.needs_rebuild
  IN /\ wpc = "verdict"
     /\ closed' = (closed \/ (rejected /\ runtime # "none"))
     /\ wpc' = IF rejected \/ event.sequence = MaxSequence THEN "degrade"
               ELSE "loop"
     /\ event' = NoEvent /\ observation' = 0
     /\ UNCHANGED <<chain, callback, envelope, observer, gate, index, requests,
                    main>>

\* An exception out of the consumer degrades, and closes nothing.
ConsumerThrows ==
  /\ wpc = "verdict"
  /\ wpc' = "degrade"
  /\ event' = NoEvent /\ observation' = 0
  /\ UNCHANGED <<chain, callback, envelope, observer, admission, index,
                 requests, main>>

WorkerDegrades ==
  /\ wpc = "degrade"
  /\ failed' = TRUE
  /\ wpc' = "done"
  /\ UNCHANGED <<chain, callback, queue, stopping, event, observation,
                 observer, admission, index, requests, main>>

(***************************************************************************)
(* chronik_runtime_destroy, by whoever took the runtime: the service stops *)
(* accepting, its requests end, the database closes.                       *)
(***************************************************************************)
ServiceStops ==
  /\ runtime = "stopping"
  /\ runtime' = "joining"
  /\ UNCHANGED <<chain, callback, envelope, worker, observer, admission, db,
                 runtime_active, closing, requests, main>>

ServiceJoined ==
  /\ runtime = "joining"
  /\ \A q \in Queries : qpc[q] = "idle"
  /\ runtime' = "closed" /\ service' = FALSE
  /\ UNCHANGED <<chain, callback, envelope, worker, observer, admission, db,
                 runtime_active, closing, tx_busy, qpc, query, main>>

-----------------------------------------------------------------------------
(***************************************************************************)
(* The query service: /tx/:txid and /token/:txid share one permit, and a   *)
(* query holds the gate from its admission to its answer.                  *)
(***************************************************************************)
Goto(q, l) == qpc' = [qpc EXCEPT ![q] = l]

\* A request without the permit is answered 503 and changes nothing.
Request(q) ==
  /\ service /\ runtime \in {"open", "stopping"}
  /\ qpc[q] = "idle" /\ ~tx_busy
  /\ tx_busy' = TRUE
  /\ \E route \in {"tx", "token"}, tx \in Txs :
       query' = [query EXCEPT ![q] = [route |-> route, tx |-> tx, tip |-> NoBlock,
                                      block |-> NoBlock]]
  /\ Goto(q, "admit")
  /\ UNCHANGED <<chain, callback, envelope, worker, observer, admission,
                 index, service, main>>

\* Mutant: a 503 leaves the gate locked.
UnavailableKeepsGate(q) ==
  /\ Goto(q, "idle") /\ query' = [query EXCEPT ![q] = NoQuery]
  /\ tx_busy' = FALSE /\ gate' = gate

\* 503: the lock and the permit are released.
Unavailable(q) ==
  /\ Goto(q, "idle") /\ query' = [query EXCEPT ![q] = NoQuery]
  /\ tx_busy' = FALSE
  /\ gate' = IF gate = q THEN Free ELSE gate

Proceed(q, l) == Goto(q, l) /\ UNCHANGED <<query, tx_busy, gate>>

QueryFrame ==
  UNCHANGED <<chain, callback, envelope, worker, observer, closed, index,
              service, main>>

\* TryQuery, then m_runtime, under the lock it returned.
Admitted == gate = Free /\ ~closed /\ runtime = "open"

QueryAdmit(q) ==
  /\ qpc[q] = "admit"
  /\ IF Admitted
       THEN Goto(q, "tip") /\ gate' = q /\ UNCHANGED <<query, tx_busy>>
       ELSE Unavailable(q)
  /\ QueryFrame

\* TipIsCurrent, under cs_main.
TipIsCurrent(indexed) == ~closed /\ indexed # NoBlock /\ indexed = tip

QueryTip(q) ==
  LET indexed == RuntimeTip(db) IN
    /\ qpc[q] = "tip"
    /\ IF TipIsCurrent(indexed)
         THEN /\ query' = [query EXCEPT ![q].tip = indexed]
              /\ Goto(q, "lookup") /\ UNCHANGED <<tx_busy, gate>>
         ELSE Unavailable(q)
    /\ QueryFrame

Located(q) ==
  IF query[q].route = "tx" THEN TxLocation(db, query[q].tx)
  ELSE TokenInfo(db, query[q].tx)

QueryLookup(q) ==
  /\ qpc[q] = "lookup"
  /\ query' = [query EXCEPT ![q].block = Located(q)]
  /\ Goto(q, IF Located(q) = NoBlock THEN "final"
             ELSE IF query[q].route = "tx" THEN "read" ELSE "copy")
  /\ UNCHANGED <<tx_busy, gate>> /\ QueryFrame

\* ReadConfirmedTx: on the active chain before and after the read.
QueryRead(q) ==
  /\ qpc[q] \in {"read", "reread"}
  /\ IF ActiveContains(tip, query[q].block)
       THEN Proceed(q, IF qpc[q] = "read" THEN "reread" ELSE "copy")
       ELSE Unavailable(q)
  /\ QueryFrame

\* The payload is made from the index once more and must agree with the lookup.
Payload(q, route) ==
  /\ qpc[q] = "copy" /\ query[q].route = route
  /\ IF Located(q) = query[q].block THEN Proceed(q, "final") ELSE Unavailable(q)
  /\ QueryFrame

QueryEncode(q) == Payload(q, "tx")
QueryCopy(q) == Payload(q, "token")

\* Mutant: the answer is not compared with the chain as it is by then.
OpenAtAnswer(q) == ~closed

\* The linearization boundary of Query and QueryToken.
CurrentAtAnswer(q) == TipIsCurrent(query[q].tip)

\* A found body keeps the permit until it is dropped; a 404 returns it.
PermitHeld(q) == query[q].block # NoBlock

QueryAnswer(q) ==
  /\ qpc[q] = "final"
  /\ IF CurrentAtAnswer(q)
       THEN /\ gate' = Free /\ query' = query
            /\ Goto(q, IF query[q].block # NoBlock THEN "body" ELSE "missing")
            /\ tx_busy' = PermitHeld(q)
       ELSE Unavailable(q)
  /\ QueryFrame

\* A database, disk, encoding or allocation error inside the gate.
QueryFails(q) ==
  /\ qpc[q] \in Host
  /\ Unavailable(q)
  /\ QueryFrame

\* The client has read the response or gone away.
ResponseDropped(q) ==
  /\ qpc[q] \in {"body", "missing"}
  /\ Goto(q, "idle") /\ query' = [query EXCEPT ![q] = NoQuery]
  /\ tx_busy' = (tx_busy /\ qpc[q] = "missing")
  /\ UNCHANGED gate /\ QueryFrame

Query(q) ==
  \/ Request(q) \/ QueryAdmit(q) \/ QueryTip(q) \/ QueryLookup(q)
  \/ QueryRead(q) \/ QueryEncode(q) \/ QueryCopy(q) \/ QueryAnswer(q)
  \/ QueryFails(q) \/ ResponseDropped(q)

-----------------------------------------------------------------------------
(***************************************************************************)
(* Start: AppInitMain and StartNodeObserverWithFailurePoint.               *)
(***************************************************************************)
\* The chain state is loaded, or emptied by a reindex; the constructor opens
\* the index, or empties it and opens it, or fails and goes on without.
Start(reset) ==
  /\ node = "down" /\ starts < MaxStarts
  /\ starts' = starts + 1
  /\ tip' = (IF reset THEN NoBlock ELSE flushed) /\ flushed' = tip'
  /\ \/ /\ runtime' = "open" /\ runtime_active' = TRUE
        /\ db' = IF reset THEN <<>> ELSE db
     \/ /\ runtime' = "none" /\ runtime_active' = FALSE
        /\ db' \in {db} \cup (IF reset THEN {<<>>} ELSE {})
  /\ node' = "bootstrap"
  /\ UNCHANGED <<signals, changes, callback, envelope, worker, observer,
                 admission, closing, requests>>

StartFrame ==
  UNCHANGED <<chain, callback, envelope, worker, observer, gate, requests,
              starts>>

\* Destroy, while no service and no worker exist: nothing to wait for.
DestroyIdleRuntime ==
  /\ runtime_active' = FALSE
  /\ closed' = (runtime # "none") /\ closing' = (runtime # "none")
  /\ runtime' = IF runtime = "open" THEN "closed" ELSE runtime

\* Mutant: an index at the height of the chain is resumed.
ResumableByHeight == Len(db) = Len(tip)

\* BootstrapRuntime resumes an index whose tip is the active tip.
Resumable == RuntimeTip(db) = tip

\* A runtime that is neither resumable nor empty, or cannot tell its tip, is
\* disabled until a reindex; without a runtime there is nothing to do.
BootstrapRuntime ==
  /\ node = "bootstrap"
  /\ \/ /\ runtime_active /\ db # <<>> /\ Resumable
        /\ node' = "project" /\ UNCHANGED <<index, closed>>
     \/ /\ runtime_active /\ db = <<>>
        /\ node' = "rebuild" /\ UNCHANGED <<index, closed>>
     \/ /\ runtime_active
        /\ node' = "project" /\ DestroyIdleRuntime /\ db' = db
     \/ /\ ~runtime_active
        /\ node' = "project" /\ UNCHANGED <<index, closed>>
  /\ StartFrame

\* One block of the active chain is read and indexed, or a failure disables.
RebuildBlock ==
  LET e == BlockConnected(BlockAt(tip, Len(db))) IN
    /\ node = "rebuild" /\ Len(db) < Len(tip)
    /\ \/ /\ Fits(db, e)
          /\ db' = Mutated(db, e)
          /\ UNCHANGED <<node, runtime, runtime_active, closing, closed>>
       \/ node' = "project" /\ DestroyIdleRuntime /\ db' = db
    /\ StartFrame

Rebuilds ==
  /\ node = "rebuild" /\ Len(db) = Len(tip)
  /\ node' = "project"
  /\ UNCHANGED <<index, closed>> /\ StartFrame

\* The service is optional and may fail to start.
StartTokenService == service' \in {FALSE, runtime_active}

\* The rest of Bootstrap, StartEnvelope, StartTokenService and registration.
Register ==
  LET rebuilt == Rebuilt(tip) IN
    /\ node = "project"
    /\ tip # NoBlock => Adoptable(rebuilt)
    /\ observer' = IF tip = NoBlock THEN observer
                   ELSE AdoptProjection(observer, rebuilt)
    /\ wpc' = "loop"
    /\ StartTokenService
    /\ node' = "up"
    /\ UNCHANGED <<chain, callback, envelope, event, observation, admission,
                   index, tx_busy, qpc, query, starts>>

\* A projection or envelope that cannot be made: the node goes on without.
StartFails ==
  /\ node = "project"
  /\ DestroyIdleRuntime /\ db' = db
  /\ node' = "plain"
  /\ StartFrame

(***************************************************************************)
(* Shutdown and StopNodeObserver.                                          *)
(***************************************************************************)
\* Networking, RPC and the threads are stopped and the chain state flushed.
Shutdown ==
  /\ Running /\ cpc = "idle"
  /\ flushed' = tip
  /\ node' = IF node = "up" THEN "flush" ELSE "exit"
  /\ UNCHANGED <<tip, signals, changes, callback, envelope, worker, observer,
                 admission, index, requests, starts>>

\* The queued callbacks have run: unregister, close the queries and ask the
\* envelope to stop.
StopNodeObserver ==
  /\ node = "flush" /\ signals = <<>> /\ cpc = "idle"
  /\ closed' = (closed \/ runtime # "none")
  /\ stopping' = TRUE
  /\ node' = "drain"
  /\ UNCHANGED <<chain, callback, queue, failed, worker, observer, gate, index,
                 requests, starts>>

\* The worker is joined, or the deadline passes and it is detached.
Drained == \/ wpc = "done" /\ failed' = failed
           \/ wpc # "done" /\ failed' = TRUE

\* Destroy starts: later mutations are to be rejected.
EndDrain ==
  /\ node = "drain"
  /\ Drained
  /\ closing' = (closing \/ runtime # "none")
  /\ node' = "take"
  /\ UNCHANGED <<chain, callback, queue, stopping, worker, observer, admission,
                 db, runtime, runtime_active, requests, starts>>

OwnerTakes ==
  /\ node = "take"
  /\ TakesRuntime
  /\ node' = IF runtime = "open" THEN "join" ELSE "exit"
  /\ UNCHANGED <<chain, callback, envelope, worker, observer, admission, db,
                 runtime_active, closing, requests, starts>>

OwnerJoined ==
  /\ node = "join" /\ runtime = "closed"
  /\ node' = "exit"
  /\ UNCHANGED <<chain, callback, envelope, worker, observer, admission, index,
                 requests, starts>>

\* The process is gone, after its shutdown or in the middle of anything: what
\* is on disk stays.
ProcessEnds ==
  /\ node # "down"
  /\ node' = "down"
  /\ tip' = flushed
  /\ signals' = <<>> /\ cpc' = "idle" /\ next_sequence' = 0
  /\ queue' = <<>> /\ failed' = FALSE /\ stopping' = FALSE
  /\ wpc' = "none" /\ event' = NoEvent /\ observation' = 0
  /\ observer' = NewObserver
  /\ runtime' = "none" /\ runtime_active' = FALSE /\ closing' = FALSE
  /\ closed' = FALSE /\ gate' = Free
  /\ service' = FALSE /\ tx_busy' = FALSE
  /\ qpc' = [q \in Queries |-> "idle"]
  /\ query' = [q \in Queries |-> NoQuery]
  /\ UNCHANGED <<flushed, changes, db, starts>>

-----------------------------------------------------------------------------
Scheduler == Callback \/ CallbackSnapshot \/ CallbackThrows \/ CallbackMarks

Worker ==
  \/ WorkerLoops \/ WorkerTakesEvent \/ WorkerSeesEmpty \/ WorkerStopsOrWaits
  \/ WorkerWakes \/ ConsumerObserves \/ ConsumerLocks \/ ConsumerMutates
  \/ ConsumerDisables \/ ConsumerTakes \/ ConsumerJoined \/ ConsumerVerdict
  \/ ConsumerThrows \/ WorkerDegrades

Service == ServiceStops \/ ServiceJoined

Starting ==
  \/ \E reset \in BOOLEAN : Start(reset)
  \/ BootstrapRuntime \/ RebuildBlock \/ Rebuilds \/ Register \/ StartFails

Stopping == StopNodeObserver \/ EndDrain \/ OwnerTakes \/ OwnerJoined

Next ==
  \/ ConnectTip \/ DisconnectTip \/ Flush
  \/ Scheduler \/ Worker \/ Service
  \/ \E q \in Queries : Query(q)
  \/ Starting \/ Shutdown \/ Stopping \/ ProcessEnds

Spec == Init /\ [][Next]_vars

(***************************************************************************)
(* Fairness: the threads run, requests in progress end and their clients   *)
(* read or leave, and a thread that waits for the gate gets it if it is    *)
(* released again and again.  Nothing makes the chain change, a request    *)
(* arrive, or the process start or stop.                                   *)
(***************************************************************************)
Fairness ==
  /\ WF_vars(Scheduler) /\ WF_vars(Worker) /\ SF_vars(ConsumerLocks)
  /\ WF_vars(Service) /\ WF_vars(Stopping)
  /\ \A q \in Queries : WF_vars(Query(q) /\ qpc[q] # "idle")

FairSpec == Spec /\ Fairness

-----------------------------------------------------------------------------
(***************************************************************************)
(* Properties                                                              *)
(***************************************************************************)
Changes == [kind : Kinds, block : Seq(Txs)]
Labels == {"idle", "admit", "body", "missing"} \cup Host
Readings == [route : {"none", "tx", "token"}, tx : Txs, tip : Seq(Txs), block : Seq(Txs)]

\* An answer is true of the chain the node has when it is given: a found
\* transaction or token is confirmed by the block named, and a missing one is
\* confirmed by no block, whatever the chain and the worker do while the query
\* runs (RustRuntimeHandle::Query, QueryToken).
AnswerIsCurrent ==
  [][\A q \in Queries :
       qpc[q] = "final" =>
         /\ qpc'[q] = "body" =>
              ActiveContains(tip, query[q].block) /\ TxOf(query[q].block) = query[q].tx
         /\ qpc'[q] = "missing" =>
              \/ query[q].tx \notin Range(tip)
              \/ query[q].route = "token" /\ query[q].tx \notin Tokens]_vars

\* The index holds one chain from genesis to its tip, in every state a crash
\* can leave behind (connect_block, disconnect_block).
IndexIsChain == db = ChainOf(RuntimeTip(db))

\* An index that bootstrap leaves active is the index of the active chain,
\* after a clean stop, a crash, a run without the observer, or a rebuild cut
\* short (BootstrapRuntime).
ResumesOnlyCurrent == node = "project" /\ runtime_active => db = ChainOf(tip)

Observing == node \in {"up", "flush", "drain"} /\ ~failed /\ cpc # "mark"
             /\ wpc # "degrade"

\* Between the projection's answer and the verdict on it.
Judging == wpc \in {"lock", "mutate", "disable", "take", "join", "verdict"}

InFlight(labels) == (IF wpc \in labels THEN <<event>> ELSE <<>>) \o queue \o signals

\* As long as nothing has failed, the changes in the worker's hand, in the
\* envelope and in the scheduler's queue lead from the indexed tip to the
\* active one: none is lost, repeated or reordered on the way (BlockConnected,
\* BlockDisconnected, Submit, the consumer).
IndexTracksChain ==
  Observing /\ runtime_active /\ wpc # "disable" =>
    Leads(RuntimeTip(db), InFlight({"observe", "lock", "mutate"}), tip)

\* The same holds of the projection, which outlives a disabled index, until it
\* rejects an event; its blocks are the end of the chain, all of it unless they
\* are marked as truncated (connect_block, disconnect_block, adopt_projection).
ProjectionTracksChain ==
  Observing /\ ~observer.needs_rebuild /\ (Judging => observation # 0) =>
    LET last == ObserverTip(observer) IN
      /\ Leads(last, InFlight({"observe"}), tip)
      /\ observer.blocks = SubSeq(ChainOf(last),
                                  Len(last) - Len(observer.blocks) + 1, Len(last))
      /\ observer.is_truncated <=> Len(observer.blocks) < Len(last)

\* Nobody is inside the Rust runtime once it has been taken to be destroyed
\* (RustRuntimeHandle::Mutate, Query, Destroy).
NoUseAfterDestroy ==
  /\ wpc = "mutate" => runtime = "open"
  /\ \A q \in Queries : qpc[q] \in Host => runtime = "open"

\* When the observer is gone and the node tears its globals down, no query
\* reads them and no mutation is under way, a detached worker's included
\* (~ChronikNodeObserver).
QuietAtExit ==
  node = "exit" => wpc # "mutate" /\ \A q \in Queries : qpc[q] \notin Host

\* One response body at a time, from the query to the last byte read
\* (TxPermit, LeasedTxBytes).
OneBodyAtATime ==
  Cardinality({q \in Queries : qpc[q] \notin {"idle", "missing"}}) <= 1

(***************************************************************************)
(* The inductive invariant the safety properties follow from: what a label *)
(* of one thread says of the others and of the index.                      *)
(***************************************************************************)
Numbered == [kind : Kinds, block : Seq(Txs), sequence : Nat]
Typed ==
  /\ tip \in Seq(Txs) /\ flushed \in Seq(Txs)
  /\ signals \in Seq(Changes)
  /\ queue \in Seq(Numbered)
  /\ event.block \in Seq(Txs)
  /\ next_sequence \in Nat
  /\ db \in Seq(Seq(Txs))
  /\ qpc \in [Queries -> Labels]
  /\ query \in [Queries -> Readings]

\* Until the observer is registered there are no other threads.
Alone ==
  node \in {"down", "bootstrap", "rebuild", "project", "plain"} =>
    /\ wpc = "none" /\ gate = Free /\ ~service /\ ~tx_busy
    /\ \A q \in Queries : qpc[q] = "idle"

\* The gate has one holder, and the holder an open runtime.
Gated ==
  /\ gate = "worker" <=> wpc = "mutate"
  /\ \A q \in Queries : gate = q <=> qpc[q] \in Host
  /\ gate # Free => runtime = "open"

\* An owner that has gone past the runtime has seen it taken.
Taken == node \in {"plain", "join", "exit"} => runtime # "open"

\* The permit has one holder.
Leased ==
  \A q \in Queries :
    qpc[q] \notin {"idle", "missing"} =>
      /\ tx_busy
      /\ \A r \in Queries : qpc[r] \notin {"idle", "missing"} => r = q

\* What a query has read holds of the index as long as it has the gate.
Consistent ==
  \A q \in Queries :
    /\ qpc[q] # "idle" => query[q].route \in {"tx", "token"}
    /\ qpc[q] \in Host \ {"tip"} => query[q].tip = RuntimeTip(db)
    /\ qpc[q] \in {"read", "reread", "copy", "final"} => query[q].block = Located(q)

\* A rebuild has indexed the chain from genesis up to where it is.
Rebuilding ==
  node = "rebuild" =>
    Len(db) <= Len(tip) /\ \A n \in 1 .. Len(db) : db[n] = BlockAt(tip, n - 1)

\* The conjunction, as the proofs of NodeObserverProofs use it.
Inductive ==
  /\ Typed /\ Alone /\ Gated /\ Taken /\ Leased /\ Consistent /\ Rebuilding
  /\ IndexIsChain /\ ResumesOnlyCurrent

\* The index catches up with the chain again and again, unless it is disabled,
\* the envelope fails or the process stops.
CatchesUp ==
  []<>(RuntimeTip(db) = tip \/ ~runtime_active \/ failed \/ node # "up")

\* Stopping the observer ends: nobody waits for the gate, the worker or the
\* service forever (~ChronikNodeObserver, RustRuntimeHandle::Destroy).
StopEnds == node = "drain" ~> node \in {"exit", "down"}
=============================================================================
