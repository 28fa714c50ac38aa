------------------------- MODULE ClientSubmissions -------------------------
(***************************************************************************)
(* Transactions submitted by clients of the archival service: admission    *)
(* (admit of chronik-lib/src/ergon_service.rs), the upstream broadcast     *)
(* handler (chronik-http/src/server.rs, chronik-indexer query/broadcast),  *)
(* the node's BroadcastTransaction, and the wait for the index             *)
(* (ergon_submission.rs).                                                  *)
(*                                                                         *)
(* Threads: clients' requests, the validation queue, the worker and the    *)
(* rest of the node.  They share the request gate, the indexer's lock      *)
(* (readers, and a writer that goes before later readers) and the queue.   *)
(* The worker is taken from ArchivalWorker as: capture, write, publish.    *)
(*                                                                         *)
(* Left out: decoding, sizes, origins, the 5 s and 2 s budgets (any wait   *)
(* may time out), relay to peers.                                          *)
(***************************************************************************)
EXTENDS RequestGate, Sequences, FiniteSets

CONSTANTS
  Clients, Txs,
  Batch,          \* the transactions each client submits, in order
  Burning,        \* transactions that fail the token checks
  Limit,          \* concurrent submissions
  MaxRevision     \* bound on the changes of the node

ASSUME SubmissionAssumption ==
  /\ Batch \in [Clients -> Seq(Txs)] /\ Burning \subseteq Txs
  /\ Limit \in Nat \ {0} /\ MaxRevision \in Nat

VARIABLES
  pool, mined, revision,      \* the node
  queue,                      \* the validation queue
  gate, index, bound,         \* what the worker has written and published
  readers,                    \* holders of the indexer's lock
  wpc, captured, epoch,       \* the worker
  pc, sending, refusal, view, answer,   \* the requests
  sent                        \* history: what each request made the node accept

node == <<pool, mined, revision>>
worker == <<wpc, captured, epoch>>
request == <<pc, sending, refusal, view, answer, sent>>
vars == <<node, queue, gate, index, bound, readers, worker, request>>

Known == pool \cup mined
Items(c) == {Batch[c][i] : i \in 1 .. Len(Batch[c])}

Init ==
  /\ pool = {} /\ mined = {} /\ revision = 1
  /\ queue = <<>>
  /\ gate = [epoch |-> 1, mode |-> Ready, binding |-> <<1>>]
  /\ index = {} /\ bound = 1
  /\ readers = {}
  /\ wpc = "idle" /\ captured = <<>> /\ epoch = 0
  /\ pc = [c \in Clients |-> "new"]
  /\ sending = [c \in Clients |-> 1]
  /\ refusal = [c \in Clients |-> FALSE]
  /\ view = [c \in Clients |-> NoPermit]
  /\ answer = [c \in Clients |-> "none"]
  /\ sent = [c \in Clients |-> {}]

\* What the validation queue holds.
Callback == <<>>
Promise(c) == <<c>>

Go(c, where) == pc' = [pc EXCEPT ![c] = where]
Answer(c, what) == Go(c, "done") /\ answer' = [answer EXCEPT ![c] = what]

\* The view a permit names is the gate's and the node's.  The gate is asked
\* before and after the node; its epochs do not repeat, so one step is enough.
Current(permit) ==
  /\ permit # NoPermit /\ GateAdmits(gate, permit)
  /\ permit[2] = <<revision>>

-----------------------------------------------------------------------------
(* The rest of the node, and the validation queue.                         *)

Native ==
  /\ revision < MaxRevision
  /\ \/ \E t \in Txs \ Known : pool' = pool \cup {t} /\ UNCHANGED mined
     \/ \E t \in pool : pool' = pool \ {t} /\ UNCHANGED mined
     \/ pool # {} /\ mined' = Known /\ pool' = {}
  /\ revision' = revision + 1
  /\ queue' = Append(queue, Callback)
  /\ UNCHANGED <<gate, index, bound, readers, worker, request>>

CallbackRunsIndexing == readers = {} \* mutant: the callback writes the index
CallbackRuns == TRUE                 \* Push takes no lock that anyone waits with

QueueCallback ==
  /\ queue # <<>> /\ Head(queue) = Callback /\ CallbackRuns
  /\ queue' = Tail(queue)
  /\ gate' = GateBegin(gate)
  /\ UNCHANGED <<node, index, bound, readers, worker, request>>

\* A promise kept: the request that waits for it goes on.
QueuePromise ==
  /\ queue # <<>>
  /\ \E c \in Clients :
       /\ Head(queue) = Promise(c)
       /\ Go(c, CASE pc[c] = "promised" -> "send" [] pc[c] = "syncing" -> "synced")
  /\ queue' = Tail(queue)
  /\ UNCHANGED <<node, gate, index, bound, readers, worker, sending, refusal,
                 view, answer, sent>>

-----------------------------------------------------------------------------
(* The worker.                                                             *)

WorkerCapture ==
  /\ wpc = "idle" /\ ~GateTerminal(gate)
  /\ gate.mode # Ready \/ bound # revision
  /\ captured' = <<Known, revision>>
  /\ wpc' = "write"
  /\ UNCHANGED <<node, queue, gate, index, bound, readers, epoch, request>>

WorkerWrite ==
  /\ wpc = "write" /\ readers = {}
  /\ gate' = GateBegin(gate)
  /\ epoch' = gate'.epoch
  /\ index' = captured[1]
  /\ wpc' = "publish"
  /\ UNCHANGED <<node, queue, bound, readers, captured, request>>

WorkerPublish ==
  /\ wpc = "publish"
  /\ IF captured[2] = revision /\ GatePublished(gate, epoch)
     THEN gate' = GatePublish(gate, epoch, <<revision>>) /\ bound' = revision
     ELSE UNCHANGED <<gate, bound>>
  /\ wpc' = "idle" /\ captured' = <<>>
  /\ UNCHANGED <<node, queue, index, readers, epoch, request>>

\* Stop or a failure: nothing is admitted any more.
Terminate ==
  /\ ~GateTerminal(gate)
  /\ gate' = GateClose(gate) \/ gate' = GateFail(gate)
  /\ UNCHANGED <<node, queue, index, bound, readers, worker, request>>

-----------------------------------------------------------------------------
(* A request.                                                              *)

Submitting == {c \in Clients : pc[c] \notin {"new", "done"}}

\* A permit of the semaphore, or none.
Arrive(c) ==
  /\ pc[c] = "new"
  /\ IF Cardinality(Submitting) < Limit
     THEN Go(c, "body") /\ UNCHANGED answer
     ELSE Answer(c, "busy")
  /\ UNCHANGED <<node, queue, gate, index, bound, readers, worker, sending,
                 refusal, view, sent>>

\* The body has been read, or not; then the gate is asked.
Admit(c) ==
  /\ pc[c] = "body"
  /\ \/ Answer(c, "refused")
     \/ /\ Batch[c] # <<>>
        /\ IF Current(GatePermit(gate)) THEN Go(c, "lock") /\ UNCHANGED answer
           ELSE Answer(c, "unavailable")
  /\ UNCHANGED <<node, queue, gate, index, bound, readers, worker, sending,
                 refusal, view, sent>>

\* A reader waits behind a writer that waits.
CanRead == wpc # "write"

Lock(c) ==
  /\ pc[c] = "lock" /\ CanRead
  /\ readers' = readers \cup {c}
  /\ Go(c, "tokens")
  /\ UNCHANGED <<node, queue, gate, index, bound, worker, sending, refusal,
                 view, answer, sent>>

Burns(c) == Items(c) \cap Burning # {}

\* The whole batch is checked before any of it is sent.
TokenChecks(c) ==
  /\ pc[c] = "tokens"
  /\ refusal' = [refusal EXCEPT ![c] = Burns(c)]
  /\ Go(c, IF Burns(c) THEN "sync" ELSE "send")
  /\ UNCHANGED <<node, queue, gate, index, bound, readers, worker, sending,
                 view, answer, sent>>

\* broadcast_tx of the next transaction: refused (by the rules, by the chain
\* that has it, or by a node that shuts down), in the pool already, or
\* accepted; then the request waits, with the lock, for the queue.
Send(c) ==
  /\ pc[c] = "send" /\ sending[c] <= Len(Batch[c])
  /\ LET t == Batch[c][sending[c]] IN
       \/ /\ refusal' = [refusal EXCEPT ![c] = TRUE]
          /\ Go(c, "sync")
          /\ UNCHANGED <<node, queue, sending, sent>>
       \/ /\ t \in pool
          /\ sending' = [sending EXCEPT ![c] = @ + 1]
          /\ UNCHANGED <<node, queue, pc, refusal, sent>>
       \/ /\ t \notin Known /\ revision < MaxRevision
          /\ pool' = pool \cup {t} /\ revision' = revision + 1
          /\ queue' = queue \o <<Callback, Promise(c)>>
          /\ sent' = [sent EXCEPT ![c] = @ \cup {t}]
          /\ sending' = [sending EXCEPT ![c] = @ + 1]
          /\ Go(c, "promised")
          /\ UNCHANGED <<mined, refusal>>
  /\ UNCHANGED <<gate, index, bound, readers, worker, view, answer>>

SendDone(c) ==
  /\ pc[c] = "send" /\ sending[c] > Len(Batch[c])
  /\ Go(c, "sync")
  /\ UNCHANGED <<node, queue, gate, index, bound, readers, worker, sending,
                 refusal, view, answer, sent>>

Unlocked(c) == readers \ {c}

\* The lock is dropped, then the queue is waited for once more.
Sync(c) ==
  /\ pc[c] = "sync"
  /\ readers' = Unlocked(c)
  /\ queue' = Append(queue, Promise(c))
  /\ Go(c, "syncing")
  /\ UNCHANGED <<node, gate, index, bound, worker, sending, refusal, view,
                 answer, sent>>

RejectsUnlessReady(c) == refusal[c] \/ gate.mode # Ready \* mutant
Rejects(c) == refusal[c]

Handled(c) ==
  /\ pc[c] = "synced"
  /\ IF Rejects(c) THEN Answer(c, "rejected")
     ELSE Go(c, "check") /\ UNCHANGED answer
  /\ UNCHANGED <<node, queue, gate, index, bound, readers, worker, sending,
                 refusal, view, sent>>

\* wait_ready: one round takes a view, then the indexer's lock, ...
CheckView(c) ==
  /\ pc[c] = "check" /\ Current(GatePermit(gate))
  /\ view' = [view EXCEPT ![c] = GatePermit(gate)]
  /\ Go(c, "read")
  /\ UNCHANGED <<node, queue, gate, index, bound, readers, worker, sending,
                 refusal, answer, sent>>

CheckRead(c) ==
  /\ pc[c] = "read" /\ CanRead
  /\ Go(c, IF Items(c) \subseteq index THEN "confirm" ELSE "check")
  /\ readers' = IF Items(c) \subseteq index THEN readers \cup {c} ELSE readers
  /\ UNCHANGED <<node, queue, gate, index, bound, worker, sending, refusal,
                 view, answer, sent>>

ConfirmsAlways(permit) == TRUE \* mutant: the view is not asked for again
Confirms(permit) == Current(permit)

\* ... and asks again whether the view is current.
CheckConfirm(c) ==
  /\ pc[c] = "confirm"
  /\ readers' = readers \ {c}
  /\ IF Confirms(view[c]) THEN Answer(c, "ready")
     ELSE Go(c, "check") /\ UNCHANGED answer
  /\ UNCHANGED <<node, queue, gate, index, bound, worker, sending, refusal,
                 view, sent>>

\* The budget runs out or the gate is terminal: accepted, not yet indexed.
Pending(c) ==
  /\ pc[c] \in {"check", "read"}
  /\ Answer(c, "pending")
  /\ UNCHANGED <<node, queue, gate, index, bound, readers, worker, sending,
                 refusal, view, sent>>

RequestStep(c) ==
  \/ Admit(c) \/ Lock(c) \/ TokenChecks(c) \/ Send(c) \/ SendDone(c) \/ Sync(c)
  \/ Handled(c) \/ CheckView(c) \/ CheckRead(c) \/ CheckConfirm(c) \/ Pending(c)

QueueStep == QueueCallback \/ QueuePromise
WorkerStep == WorkerCapture \/ WorkerWrite \/ WorkerPublish

Next ==
  \/ Native \/ QueueStep \/ WorkerStep \/ Terminate
  \/ \E c \in Clients : Arrive(c) \/ RequestStep(c)

Spec == Init /\ [][Next]_vars

\* Threads run.  A request's own waits are bounded by timers, hence Pending.
Fairness ==
  /\ WF_vars(QueueStep) /\ WF_vars(WorkerStep)
  /\ \A c \in Clients : WF_vars(RequestStep(c)) /\ WF_vars(Pending(c))

LiveSpec == Spec /\ Fairness

-----------------------------------------------------------------------------
(* A ready receipt is true when it is given: the gate is open, the index   *)
(* lists every transaction of the batch, and the node itself still has     *)
(* them (the source-fenced query of admit).                                *)
ReadyReceiptIsTrue ==
  [][\A c \in Clients :
       answer[c] # "ready" /\ answer'[c] = "ready" =>
         gate.mode = Ready /\ Items(c) \subseteq index /\ Items(c) \subseteq Known
    ]_vars

(* What the node accepted as a whole is never answered with a rejection,   *)
(* whatever becomes of the index afterwards.                               *)
AcceptedBatchIsNotRejected ==
  \A c \in Clients :
    sent[c] = Items(c) /\ sent[c] # {} => answer[c] # "rejected"

(* Every submission is answered, although a request waits for the          *)
(* validation queue with the indexer's lock while the worker waits for     *)
(* that lock.                                                              *)
SubmissionsAreAnswered ==
  \A c \in Clients : pc[c] = "body" ~> pc[c] = "done"
=============================================================================
