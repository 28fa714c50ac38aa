# Verification of the Ergon node observer and archival service

TLA+ models of the indexers that watch this node, the TLC runs that check them
and the theorems TLAPS proves about them. `PROJECT.json` maps every definition
to the lines it translates and lists the components, the runs, a mutant for each
property (a plausible bug of the code that TLC then finds), the theorems and the
hazards, each at the line where it bites.

## The system

The repository is a Bitcoin-derived full node (`src/`) with an indexer beside it
(`chronik/`). The node's consensus, network, wallet and RPC code is inherited,
and most of the indexer is upstream Chronik. What is written for Ergon are two
ways of letting an indexer watch the node without disturbing it: the *node
observer*, fed by the validation interface, and the *archival service*, fed by a
journal inside the native locks or by callbacks. Both are concurrent, bounded
and meant to fail closed.

| part | where | modules |
|---|---|---|
| event envelope | `chronik/event-envelope.cpp` | `EventEnvelope`, `EventStream` |
| bounded projection | `chronik/chronik-observer/src/lib.rs` | `ObserverProjection` |
| persistent runtime | `chronik/chronik-runtime`, `chronik-observer/src/persistent.rs` | `TokenRuntime` |
| node observer, its queries, start and stop | `chronik/node-observer.cpp`, `query-admission.h`, `confirmed-tx-*.cpp`, `src/init.cpp` | `NodeObserver` |
| chain, pool and their signals | `src/validation.cpp`, `src/txmempool.cpp` | `Blocks`, `Transactions`, `NativeNode` |
| native event journal | `src/validation_event_journal.h` | `ValidationJournal`, `EventLog`, `BoundedLog` |
| the index's view of the pool | `chronik-db/src/mem` | `MempoolOverlay` |
| request gate | `chronik-lib/src/ergon_service.rs` | `RequestGate` |
| replay, publication, requests (journal mode) | `chronik-cpp/ergon_journal_replay.cpp`, `ergon_archival_worker.cpp` | `JournalReplay` |
| callback worker (other modes) | `chronik-cpp/ergon_archival_worker.cpp`, `ergon_archival_probe.cpp`, `ergon_archival.rs` | `ArchivalWorker` |
| owner of the service | `chronik-cpp/ergon_regtest_service.cpp` | `OwnedService` |
| position reader | `chronik-cpp/ergon_position_reader.cpp` | `PositionReader` |
| submissions | `ergon_submission.rs`, `chronik-http`, `query/broadcast.rs` | `ClientSubmissions` |
| WebSocket sessions | `chronik-http/src/ws.rs`, `subscription_limits.rs`, `chronik-indexer/src/subs*.rs` | `Subscriptions` |
| SLP and ALP token rules | `bitcoinsuite-slp/src`, `chronik-db/src/mem/tokens.rs` | `TokenRules`, `TokenLedger` |

*Observer.* Validation changes the active chain under `cs_main` and queues a
callback. The scheduler thread numbers the change and submits it to the envelope;
the envelope's worker hands it to the consumer, which applies it to the
projection and then, under the admission gate, to the index. HTTP threads hold
the gate while they answer. The worker (after a rejected mutation) and the main
thread (at shutdown) may both destroy the runtime, and a detached worker may
outlive the observer. A crash keeps the index and the flushed chain state, which
are written at different times.

*Archival service.* In journal mode the node records every change of chain and
pool while it holds its locks; the worker drains the journal into the index,
captures the node under its locks, compares, and publishes the view through the
request gate. In the other modes callbacks leave tickets, and the worker brings
the index to a capture of the node. Requests, submissions, WebSocket sessions
and position reads go on meanwhile; a view is named by its *binding* (tip,
height, chain generation, pool revision), and whoever reads without a lock
compares bindings before and after.

## The modules

`EventEnvelope`: `SharedState`, `Submit`, `RunWorker`, `Create`, `Shutdown`.
Every atomic access that another thread can observe is a step; a section under
`wait_mutex` whose effects are read only under it is one. An event is its
sequence number. `published`, `delivered`, `late` are history.

`EventStream`: what the envelope promises: out as 1, 2, 3, ..., nothing in after
a failure or a stop, at most one event out after a failure. `StreamSpec` is the
refinement (`closed` is `stopping`).

`Blocks`: a block is the sequence of the transactions confirmed from genesis up
to it, as its hash commits to its ancestors; a chain is named by its tip.

`ObserverProjection`, `TokenRuntime`: the two Rust state machines as operators:
the tests of `connect_block` and `disconnect_block`, what they write, eviction,
truncation, adoption, lookups.

`NodeObserver` composes them with the chain, the scheduler, the worker, the
owner, the query service and the process. The envelope appears as the stream it
implements. One action per lock region or shared access.

| variable | code |
|---|---|
| `tip`, `flushed` | `ChainActive().Tip()`; the tip of the chain state on disk |
| `signals`, `cpc` | callbacks queued for the scheduler thread; where it is in one |
| `next_sequence` | `m_next_sequence` |
| `queue`, `failed`, `stopping` | the envelope, as a stream |
| `wpc`, `event`, `observation` | `RunWorker` and the consumer's locals |
| `observer`, `db` | the projection; the database |
| `runtime` | `none`, `open` while `m_runtime` is not null, then the stages of `chronik_runtime_destroy` |
| `runtime_active`, `closing`, `closed`, `gate` | `m_runtime_active`, `m_closing`, the admission's `m_closed` and its mutex |
| `service`, `tx_busy`, `qpc`, `query` | the HTTP service, its permit and its requests |
| `node` | the main thread: `down`, `bootstrap`, `rebuild`, `project`, `up`, `plain` (no observer), `flush`, `drain`, `take`, `join`, `exit` |

Choices worth knowing: a reorganisation is a series of `DisconnectTip` and
`ConnectTip`; a RocksDB batch is atomic and survives a crash of the process;
`ConsumerObserves` may take an event, reject it for want of memory, or panic
before or after taking it, and after a panic `needs_rebuild` rejects everything;
bootstrap is cut into steps because the process can crash in between;
`ProcessEnds` is enabled everywhere, so it is both the end of `Shutdown` and a
crash. A request without the permit or with a malformed id changes no state.

`Transactions`: transactions are numbers, ordered as the node's `std::set`;
inputs, descendants, topological order.

`NativeNode`: acceptance, expiry, trimming, connection, disconnection,
reorganisation and invalidation, each one step on chain and pool followed by its
events one by one; `cs_main` is held while events are left (`emitting`).

`ValidationJournal`: the ring with its slots, two budgets, leases and terminal
failures. A method under the mutex is one step; a charge is given back outside
it, by two atomic decrements, each a step. `EventLog` is the journal as a record
for its users, `BoundedLog` the abstract specification the ring implements
(`LogSpec`).

`MempoolOverlay`: insertion, removal and mining in the index's view of the pool,
each with the condition under which the code returns an error. `RequestGate`:
the gate's record and one operator per method.

`JournalReplay`: `NativeNode`, the journal, the worker's `Run`, `Drain` and
`Publish`, the gate, callbacks that wake the worker, the owner's listener, Stop,
node shutdown and one HTTP request with its two checks. `rpc` is where the worker
is; `lease` the event it holds; `captured` what it read under the locks.

`ArchivalWorker`: the callback reactor. `Push` takes a ticket, the worker
captures, reads from disk, applies, publishes if the binding is still the node's,
and acknowledges; a strict worker queues its tickets, a service counts them.
`seen` is history: the newest revision a ticket speaks of.

`OwnedService`: the owner's thread from the node's import to teardown, and
threads that call Stop; the worker is abstracted to none, running or failed, and
its constructor, `TryStart` and `Stop` return (`ArchivalWorker!StopReturns`
checks the last).

`PositionReader`: the catalogue of active blocks, brought up to date in batches
by the reader that finds it old, the layout cache, and the checks before and
after a read. `begun` is history.

`ClientSubmissions`: admission, token checks, the broadcast one transaction at a
time, the wait for the validation queue and for the index, and the receipt. The
indexer's lock is readers and a writer that goes before later readers.

`Subscriptions`: sessions from admission to cleanup, the limiter's caps, senders
and bounded receivers that lose their oldest message. The worker writes one event
per hold of the index lock, also where `apply_capture` writes several, and
publishes after any number of them. A transaction moves between nowhere, the pool
and a block; when its block is disconnected no transaction channel says so, and it
may be added or confirmed again (`Disconnect`). Block messages have a channel of
their own, which is left out. `due`, `shown` and `dropped` are history.

`TokenRules`, `TokenLedger`: colouring, verification and burn summaries as
operators, applied to one transaction after the other over the unspent token
outputs.

The `MC*` modules give the constants their values; the `*Proofs` modules hold the
theorems. Definitions marked as mutants stand before the definition they alter
and are used by no specification.

## What is checked

| run | instance | properties |
|---|---|---|
| `envelope` | 2 producers, 1 slot, indexes end at 2 | `NoSlotRace`, `Inductive`, `NoSilentDrop`, `StreamSpec`, `PublishedIsDelivered` |
| `node_live` | 1 client, a stored chain of 1 or 2 blocks, 1 block retained, 2 chain changes, 1 start, 1 slot | `NoUseAfterDestroy`, `QuietAtExit`, `AnswerIsCurrent`, `CatchesUp`, `StopEnds` |
| `node_crash` | no client, a stored chain of no or 3 blocks, 3 starts, 4 changes, 2 blocks retained, sequences end at 3 | `IndexTracksChain`, `ResumesOnlyCurrent`, `ProjectionTracksChain` |
| `journal_ring` | 3 events, 4 bytes, charges 1 and 2, sequences end at 6 | `BytesWithinBudget`, `LogSpec` |
| `journal_replay` | 3 transactions, 2 branches, 2 source changes, 3 events charged, epochs end at 5 | `IndexLagsByItsEvents`, `PublishedViewIsExact`, `AnswersAreCurrent`, `EveryEventAccountedFor` |
| `worker_live` | 1 source change, 2 tickets, tickets end at 3, faults, Stop | `FrontierIsExact`, `ReadyCoversAccepted`, `StopIsABarrier`, `Recovers`, `StopReturns` |
| `worker_reorg` | 3 source changes, no faults, no Stop | `PublishedViewIsExact`, `ReconcileNeverFails` |
| `submit` | 2 clients, 3 transactions, 1 submission at a time, 3 revisions | `AcceptedBatchIsNotRejected`, `ReadyReceiptIsTrue`, `SubmissionsAreAnswered` |
| `subs` | 2 sessions of 1 address, 2 channels, caps 2, receivers hold 1 message, up to 3 events, 4 requests | `SendersHaveReceivers`, `SlotsAreSubscriptions`, `DrainedSessionIsUpToDate`, `SessionsEnd` |
| `tokens` | SLP and ALP ledgers, 2 transactions on top of 3, 4 inputs between them of which ALP reads 2, 3 outputs | `AtomsAreAccounted`, `NoGrowthWithoutBaton` |
| `positions` | 2 readers, 3 transactions, 2 blocks per file, batch 1, 1 layout cached, generations end at 4 | `CatalogueIsExact`, `UndisturbedReadsAnswer`, `AnswersAreActive` |
| `owned_service` | 2 callers of Stop | `StoppedIsOver`, `StopReturns` |

`PROJECT.json` says of each run what it shows.

Bounds. Two producers make every collision in `Submit`: a third finds
`producer_busy` as the second does. One slot is full and empty by turns, and
indexes that end at 2 reach `UINT64_MAX` after the ring has wrapped. Four chain
changes over three transactions give growth, a fork of equal height and a return
to a block that was left; three starts are a run, a crash and recovery, and a run
that finds what recovery left. A node that has three blocks when it first observes
projects the last two, so that two disconnections lose the projection's anchor;
one that has two blocks has its tip disconnected and connected under a query. A
source change of `NativeNode` may be a whole reorganisation with its conflicts,
resurrected transactions, expiry and trimming, hence several events or callbacks:
one fits into a journal of three events or exceeds it, and fills two tickets. The
revision starts at 1 and stays at most `MaxChanges`, so `MaxChanges = 3` is two
changes. Three changes in `worker_reorg` bring a package
out of the pool, into a rival branch and back. Five epochs are enough
to publish twice, to replay a reorganisation in one step, or to unwind a block,
replay its rival and publish that, and to exhaust the gate's counter. `subs` starts with one of three budgets of events, requests and connections: two of each, where channels lag
and sessions overlap; four requests and no event, where a subscription is refused
at the caps, a slot given back and taken; three events for one subscription, where
a transaction is confirmed, its block disconnected, and it comes again. In `submit`
a batch of two takes both changes that three revisions allow, so that the node
never evicts between the read of the index and the last check of the view; and one
submission at a time, where the code allows two, makes the second client meet the
limit. The theorems of `ClientSubmissionsProofs` have neither bound;
`SubmissionsAreAnswered`, which is not proved, is checked for one at a time only.
An ALP section with three inputs is over `MaxTxInputs`, 32767 in the code.
Generations that end at 4 allow three moves of the chain and its exhaustion while
a refresh of one block at a time is under way. `MaxChanges`, `MaxStarts`,
`MaxRevision`, `Budgets`, `MaxInputs` and `MaxTxs` bound the environment, `Stored`
is where it starts; the other constants are the code's parameters.
Symmetry is used in `positions` only, for the two readers and the two
transactions besides genesis, which no action tells apart.

Deadlock is checked where the system never stops by itself (`journal_ring`,
`positions`). The others may stop: an envelope that is joined, a node without
starts left, a source at its bound with nothing to apply, a stopped service.

Fairness. Weak fairness stands for threads that the operating system runs: the
envelope's worker, a producer inside `Submit`, an owner inside `Create` or
`Shutdown`; the observer's scheduler, worker, service and stopping owner; the
archival worker (a 100 ms poll), the validation queue, whoever is inside a
change, a Stop that began; a submission inside its handler, whose waits are
bounded by timers (`Pending`); the sender and the session tasks; the owner's
thread. Strong fairness stands for locks: `ConsumerLocks` waits in
`std::mutex::lock` while queries use `try_lock`, so it gets a mutex that is
released again and again; the indexer's lock serves its waiters in order
(`UnderLock`). A request of the observer in progress goes on and its client
reads or drops the body: `chronik/README.md` says that a stalled read or a slow
client can delay a graceful shutdown, and one that never ended would delay it for
ever, which `StopEnds` leaves out. Nothing makes the chain change, a request
arrive, or a process start or stop. No liveness is checked in journal mode: the
state space with fairness is out of reach at bounds where it would say
something.

## What is proved

The theorems hold for every value of the constants under the modules' `ASSUME`s
(positive capacities and widths, genesis carries a known transaction, no client
is named as the worker, inputs and blocks refer to known ones, the start chain is
one of the block tree). Each component has an invariant `Inductive`, shown to hold
initially and to be preserved by every action; the safety properties follow from
it, the action properties from it and the step.

**Envelope** (`EventEnvelopeProofs`). `NoSlotRace`, `RingHoldsPublished`,
`DeliveredInOrder`, `AtMostOneLateDelivery`, `FailClosed`, `NoSilentDrop`, and
the refinement `StreamSpec`. None of these is inductive alone: `NoSlotRace` needs
that a producer past the capacity test still has room when it publishes, which
needs that `producer_busy` has one holder and that only the worker moves
`read_index` (`ProducersAgree`, `IndexesAgree`); order needs the place of the
worker against the histories (`WorkerAgrees`). Two indexes less than a capacity
apart use different slots (`SlotsDiffer`). For the refinement each action maps to
a publication, a delivery, a failure, a close, an abandonment or a stutter.

**Observer** (`NodeObserverProofs`). `IndexIsChain`, `ResumesOnlyCurrent`,
`NoUseAfterDestroy`, `QuietAtExit`, `OneBodyAtATime`, `AnswerIsCurrent` and
`IndexTracksChain`:

1. *Chains.* A chain with a child of its tip, and a chain without its last block,
   are chains, so every batch that the tests of `connect_block` and
   `disconnect_block` let through leaves one.
2. *Bootstrap.* A chain is determined by its tip: an index whose tip is the
   active one is the active chain's. A rebuild is a prefix of it (`Rebuilding`).
3. *Control.* The gate has one holder, who finds an open runtime (`Gated`); taking
   the runtime needs a free gate; an owner past it has seen it taken (`Taken`);
   before registration there are no other threads (`Alone`); the permit has one
   holder (`Leased`).
4. *Queries.* The index changes only under the gate, so what a query has read
   agrees with it until the answer (`Consistent`); at the answer its tip is the
   active tip, and 1 makes the answer true.
5. *The way of a change.* `Route` cuts what is in flight into the worker's hand,
   the envelope and the scheduler's queue, with a tip between each two. Only six
   actions move a change: a new one goes behind the others (`RouteGrows`), a
   callback moves the first signal to the end of the queue unless it fails the
   envelope (`RouteCallback`), the worker takes the first event (`RouteTakes`), a
   write leads the index to where the next change begins (`RouteMutates`, by 1),
   and registration starts with nothing in flight and an index that is the
   chain's (`RouteRegister`, by 2 and `Unstarted`); every other step leaves the
   way alone (`RouteFrame`). The lemmas `LeadsAppend`, `LeadsTail` and
   `LeadsJoin` say what the ends of a path of changes do.

**Journal** (`ValidationJournalProofs`). `RingHoldsNewest`, `TakenInOrder`,
`BudgetCountsLeases`, `StopsForGood`, and the refinement `LogSpec`. `Reserve`
tests the budget and not the ring: the ring is safe because the budget covers the
queue, which holds because each lease is counted once (`LeasesApart`).
`BytesWithinBudget` follows the sum of the charges through Commit, Take and the
release of a lease.

**Journal replay** (`JournalReplayProofs`). `EveryEventAccountedFor`,
`PublishedViewIsExact`, `AnswersAreCurrent`, `StopClosesAdmission`,
`NoDispatchAfterStop`. Exactness does not follow the events: `Publish` compares
pool, tip and height of the index with a capture, a chain of the block tree is
determined by its tip and height, and a binding stands for one state of the node,
because every change raises the pool revision (`Views`). For answers: a permit of
the gate's epoch was given while the gate was open, and what was read under it is
what the index still shows (`Requests`).

**Archival worker** (`ArchivalWorkerProofs`). `FrontierIsExact`,
`ReadyCoversAccepted`, `StopIsABarrier`, `FirstFailureIsKept`, and `ViewIsCurrent`:
a view published under the node's binding has its chain and its pool. Tickets in
flight, waiting and acknowledged add up (`Frontier`); no callback speaks of a
later revision than the node's (`Revisions`), so that a round which captured after
the ticket covers it (`Covered`); Stop's fence is behind every callback that may
still run (`Fenced`).

**Sessions and owner** (`ServiceProofs`). `SendersHaveReceivers`,
`SlotsAreSubscriptions` and `DrainedSessionIsUpToDate`, for any number of sessions,
keys, channels, transactions and any queue length. A session is described by the
values of its own variables (`SessionOK`), so that a step of one is a step of its
values and a frame for the others. Its channels carry only what concerns them,
and the last message of a channel about a transaction is the newest one sent to
the session (`Fresh`); what its client was not shown is still to be read, under
way or on the wire (`UpToDate`). The second is why dropping a repeat is
harmless: what is dropped equals what was shown last. For the owner:
`StoppedIsOver`, and that a port is announced only with a worker behind it, for
any number of callers of Stop.

**Position reader** (`PositionReaderProofs`). `CatalogueIsExact`,
`AnswersAreActive`, `UndisturbedReadsAnswer`. A catalogue lists the chain of its
own `last_tip`, whatever the node does, because stored blocks do not move; a
generation names at most one chain; a refresh handed back has seen its generation
unchanged at every batch. For the last property (`Served`): a read that ends in
the generation it began in ran while the chain stood still, so a refresh it made
was not given up (`Told`), it resolved to the active block of its position if
there is one (`Reached`), and if it failed there is none (`Absent`). That blocks
lie apart, header before transaction, makes the greatest header below a position
the right one (`PositionsApart`).

**Submissions** (`ClientSubmissionsProofs`). `ReadyReceiptIsTrue`, and
`AcceptedBatchIsNotRejected` for batches in which no transaction occurs twice
(`NoRepeats`): a batch that repeats one could be refused at the repetition, with
all of its transactions accepted. The lock a request holds keeps the index as it
read it (`Held`); a refusal leaves something unsent (`Ordered`).

## What is only model-checked

* Liveness (`PublishedIsDelivered`, `CatchesUp`, `StopEnds`, `Recovers`, both
  `StopReturns`, `SubmissionsAreAnswered`, `SessionsEnd`): fairness and `ENABLED`
  are beyond the prover.
* What a fold over blocks, events or transactions computes:
  `ProjectionTracksChain` (the projection is rebuilt by a fold over the chain),
  `IndexLagsByItsEvents` (events are replayed by one), `AtomsAreAccounted` (token
  amounts along a graph of transactions), `ReconcileNeverFails` and the unspent
  outputs in the worker's `PublishedViewIsExact` (a fold over the captured
  transactions; its chain and pool are proved, `ViewIsCurrent`). Induction over
  data is possible where the predicate can be written as a set (`WFMin`): the
  sums of `SlotsAreSubscriptions` and `BytesWithinBudget` are proved that way.
* `NoGrowthWithoutBaton`: no proof has been attempted.

## Where comments and code differ

Met while modelling. The models follow the code, and the properties above are
stated so that they hold of it.

* `chronik/event-envelope.h:81` says that `Shutdown` drains within the deadline.
  The worker reads the indexes before it tests `stopping`
  (`event-envelope.cpp:83`), so an event published in between stays behind in a
  worker that is joined. In the observer a clean stop may leave the index a block
  behind; the next start then does not resume it (`ResumesOnlyCurrent`).
* The comment at `chronik/node-observer.cpp:479` says that `Destroy` closes the
  service before the node's teardown goes on. When the deadline passes and the
  worker takes `m_runtime` first (line 298), the owner returns while the service
  is still running. No query is inside the node by then (`QuietAtExit`).
* `ergon_service.rs:428`: "Do not turn native acceptance into a rejection." A batch
  refused at a later transaction is answered as rejected although its earlier
  ones stay in the node's pool (`query/broadcast.rs:113`).
  `AcceptedBatchIsNotRejected` speaks of batches accepted as a whole.
* `group_utxos.rs:113` assumes that a removed transaction has no dependents in the
  pool. `RemoveStaged` (`src/txmempool.cpp:1052`) goes through a package by id, so
  a parent may be announced before its child; the removal is then an error and
  the index fails closed (`RemoveError`).
* `docs/engineering/chronik/upstream-continuous-service.md:43` speaks of events
  captured at their synchronous native boundary, and `ergon_archival_worker.h:53`
  of a consumer that applies each of them. In a reorganisation the pool is updated
  (`src/validation.cpp:2869`) before `BlockConnected` is announced (line 2993): a
  transaction that spends from a new block comes before the block, its input is
  not found and the index fails closed (`InputTxNotFound`).
* `group_utxos.rs:16` keeps the unspent outputs of the pool. A parent that returns
  to the pool under a child that is already there is inserted with its output
  unspent (line 69), and a view with it is published. `PublishedViewIsExact` of
  `JournalReplay` therefore speaks of the chain and the transactions of the pool.
* `ergon_archival_worker.h:51` has the owner anchor the journal before a listener
  is exposed. The first event applied after that lets go of the captured chain
  (`ergon_archival.rs:957`), which starting the listener asks for (`:1218`): an
  owner whose node moves in between is refused and stops.
* `notification_gap` (the continuity watch of WebSocket sessions) has no caller.
* A WebSocket client that gives up a channel with unread messages while it keeps
  an overlapping one may be left with an older last message; this is the
  exception in `DrainedSessionIsUpToDate`. Cleanup gives back a session's slots
  before its receivers, so the caps may be exceeded by receivers that nobody
  reads (`SlotsAreSubscriptions` says where).

## Not modelled

Consensus and the choice of the best chain, block files, peer-to-peer, wallet,
RPC and GUI are inherited and enter only as the environment that changes chain
and pool; lock times, coinbase maturity and script flags are left out. Of the
upstream Chronik indexer only what its mempool writers accept and leave, the
token rules, subscriptions and broadcasts are modelled; column families and
encodings are storage and formatting. Left out of the archival service: byte
budgets of payloads, arrival times, the 288-block window, block files that move,
Electrum sessions, single-block reads of the worker. Token rows are part of a
block's batch. Plugins are pure functions; documentation, cockpit data and build
scripts have no run-time state.
