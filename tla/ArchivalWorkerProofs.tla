----------------------- MODULE ArchivalWorkerProofs -----------------------
(***************************************************************************)
(* Proofs about ArchivalWorker, for any transactions and blocks, any       *)
(* length of the chain, any capacity and any number of callbacks: the      *)
(* ticket frontier is exact, ready covers every accepted callback, Stop is *)
(* a barrier, the first failure is kept, and a published view has the      *)
(* chain and the pool of the node.                                         *)
(***************************************************************************)
EXTENDS ArchivalWorker, TLAPS

Running == pc # "ended"

\* The ticket that a round acknowledges.
Done == IF ticket = 0 THEN completed ELSE ticket

Entries == [kind : {"callback"}, revision : Nat]
             \cup [kind : {"fence"}, who : {"worker", "stop"}]

Typed ==
  /\ service_mode \in BOOLEAN /\ mempool_revision \in Nat
  /\ queue \in Seq(Entries) /\ pushing \in Seq(Nat)
  /\ tickets \in Seq(Nat)
  /\ accepted \in Nat /\ completed \in Nat /\ ticket \in Nat
  /\ pending \in Int /\ discarded \in Int /\ seen \in Nat

\* Tickets: what is in flight, what waits, what was acknowledged.
Frontier ==
  /\ completed <= accepted
  /\ Running => pending = accepted - completed
  /\ ticket # 0 => completed < ticket /\ ticket <= accepted
  /\ ticket # 0 /\ ~service_mode => ticket = completed + 1
  /\ pc \in {"loop", "fence"} => ticket = 0
  /\ Running /\ ~service_mode =>
       /\ Len(tickets) = accepted - completed - (IF ticket = 0 THEN 0 ELSE 1)
       /\ \A i \in 1 .. Len(tickets) : tickets[i] = accepted - Len(tickets) + i

\* No callback speaks of a later revision than the node's.
Revisions ==
  /\ seen \in 0 .. mempool_revision
  /\ \A i \in 1 .. Len(pushing) : pushing[i] \in 0 .. mempool_revision
  /\ \A i \in 1 .. Len(queue) :
       queue[i].kind = "callback" => queue[i].revision \in 0 .. mempool_revision

\* A view that was just published covers what was seen, or the ticket that
\* announced more is not the one being acknowledged.
Covered ==
  /\ ready => pending = 0 /\ seen <= bound[4]
  /\ pc = "ack" /\ published => seen <= bound[4] \/ Done < accepted

\* The fence of Stop is behind every callback the queue may still deliver.
Fenced ==
  /\ registered <=> stop_pc \in {"running", "closed"}
  /\ \A i \in 1 .. Len(queue) :
       queue[i].kind = "fence" /\ queue[i].who = "stop" => ~registered
  /\ "stop" \in fenced => ~registered /\ pushing = <<>>
  /\ stop_pc \in {"join", "done"} => "stop" \in fenced

\* How far Stop and the worker's end have come.
Stopping ==
  /\ stop_pc # "running" => closed
  /\ stopping => closed
  /\ joined => stop_pc = "done"
  /\ stop_pc = "done" => pc = "ended"
  /\ pc \in {"teardown", "ended"} => closed \/ failed
  /\ pc = "ended" => accepted = completed + discarded

\* A binding is of the past, or of the chain and the pool it stands for.
Shows(binding, c, p) ==
  /\ binding[4] \in Nat /\ binding[4] <= mempool_revision
  /\ binding = Binding => c = chain /\ p = pool

IsGate(g) == g = [epoch |-> g.epoch, mode |-> g.mode, binding |-> g.binding]

Views ==
  /\ IsGate(gate)
  /\ gate.mode = Ready => Shows(gate.binding, index.chain, index.overlay.txs)
  /\ pc \in {"disk", "apply", "publish"} =>
       Shows(captured.binding, captured.chain, captured.pool)
  /\ pc = "publish" =>
       /\ applied_capture[1] = captured.binding
       /\ index.chain = captured.chain /\ index.overlay.txs = captured.pool

\* Every step of the node, the queue, the worker and Stop preserves this.
Inductive ==
  Typed /\ Frontier /\ Revisions /\ Covered /\ Fenced /\ Stopping /\ Views

-----------------------------------------------------------------------------
(* What leaves a part of the invariant alone.                              *)

\* Steps that do not touch the tickets.
LEMMA FrontierFrame ==
  ASSUME Frontier,
         UNCHANGED <<completed, accepted, pending, ticket, service_mode, tickets>>,
         pc' # "ended" => pc # "ended",
         pc' \in {"loop", "fence"} => pc \in {"loop", "fence"} \/ ticket = 0
  PROVE  Frontier'
BY ZenonT(60) DEF Frontier, Running

\* Steps that neither announce a view nor reach the acknowledgement.
LEMMA CoveredFrame ==
  ASSUME Covered,
         ready' => ready /\ UNCHANGED <<pending, seen, bound>>,
         pc' = "ack" /\ published' =>
           /\ pc = "ack" /\ published
           /\ UNCHANGED <<seen, bound, ticket, completed, accepted>>
  PROVE  Covered'
BY ZenonT(60) DEF Covered, Done

\* Steps of no one but the worker, before its end.
LEMMA StoppingFrame ==
  ASSUME Stopping,
         UNCHANGED <<stop_pc, stopping, joined>>,
         closed => closed', failed => failed',
         pc = "ended" => pc' = "ended",
         pc' = "ended" => pc = "ended" /\ UNCHANGED <<accepted, completed, discarded>>,
         pc' = "teardown" => pc = "teardown" \/ closed' \/ failed'
  PROVE  Stopping'
BY ZenonT(60) DEF Stopping

\* Steps that publish nothing and leave the source alone.
LEMMA ViewsFrame ==
  ASSUME Views,
         UNCHANGED <<mempool_revision, chain, pool, chain_generation>>,
         IsGate(gate) => IsGate(gate'),
         gate'.mode = Ready => UNCHANGED <<gate, index>>,
         pc' \in {"disk", "apply", "publish"} =>
           pc \in {"disk", "apply", "publish"} /\ UNCHANGED captured,
         pc' = "publish" => pc = "publish" /\ UNCHANGED <<applied_capture, index>>
  PROVE  Views'
BY ZenonT(60) DEF Views, Shows, Binding

\* begin, fail and close leave a gate that admits nobody (ergon_service.rs).
LEMMA GateShuts ==
  ASSUME NEW g, IsGate(g)
  PROVE  /\ IsGate(GateBegin(g)) /\ GateBegin(g).mode # Ready
         /\ IsGate(GateFail(g)) /\ GateFail(g).mode # Ready
         /\ IsGate(GateClose(g)) /\ GateClose(g).mode # Ready
<1> USE DEF Ready, Busy, Failed, Closed
<1> DEFINE e == g.epoch
           m == g.mode
           b == g.binding
<1>1. g = [epoch |-> e, mode |-> m, binding |-> b]
  BY ZenonT(60) DEF IsGate
<1> HIDE DEF e, m, b
<1>2. IsGate(GateBegin(g)) /\ GateBegin(g).mode # Ready
  BY <1>1, ZenonT(60) DEF GateBegin, GateTerminal, IsGate
<1>3. ASSUME NEW x, NEW y
      PROVE  [g EXCEPT !.mode = x, !.binding = y]
               = [epoch |-> e, mode |-> x, binding |-> y]
  <2>1. PICK h : h = [g EXCEPT !.mode = x]
    BY ZenonT(60)
  <2>2. h = [epoch |-> e, mode |-> x, binding |-> b]
    BY <1>1, <2>1, ZenonT(60)
  <2>3. [h EXCEPT !.binding = y] = [epoch |-> e, mode |-> x, binding |-> y]
    BY <2>2, SMTT(60)
  <2> QED BY <2>1, <2>3, ZenonT(60)
<1>4. IsGate(GateFail(g)) /\ GateFail(g).mode # Ready
  <2>1. GateFail(g) = [g EXCEPT !.mode = IF m = Closed THEN Closed ELSE Failed,
                                !.binding = NoBinding]
    BY ZenonT(60) DEF GateFail, m
  <2> QED BY <1>3, <2>1, ZenonT(60) DEF IsGate
<1>5. IsGate(GateClose(g)) /\ GateClose(g).mode # Ready
  BY <1>3, ZenonT(60) DEF GateClose, IsGate
<1> QED BY <1>2, <1>4, <1>5, ZenonT(60)

\* publish opens the gate for the binding it is given, or leaves it alone.
LEMMA GateOpens ==
  ASSUME NEW g, IsGate(g), NEW epoch, NEW binding
  PROVE  /\ IsGate(GatePublish(g, epoch, binding))
         /\ GatePublish(g, epoch, binding).mode = Ready =>
              \/ GatePublish(g, epoch, binding) = g
              \/ GatePublish(g, epoch, binding).binding = binding
<1> DEFINE e == g.epoch
           m == g.mode
           b == g.binding
<1>1. g = [epoch |-> e, mode |-> m, binding |-> b]
  BY ZenonT(60) DEF IsGate
<1> HIDE DEF e, m, b
<1> QED BY <1>1, ZenonT(60) DEF GatePublish, IsGate

\* Every change of the source has a revision of its own (CTxMemPool's and
\* the chain's counters).
LEMMA SourceCounts == SourceStep => mempool_revision' = mempool_revision + 1
<1> DEFINE Counted == mempool_revision' = mempool_revision + 1
<1>1. \A t, expired, trimmed : Accept(t, expired, trimmed) => Counted
  BY ZenonT(60) DEF Accept
<1>2. Prioritise => Counted
  BY ZenonT(60) DEF Prioritise
<1>3. \A refused, expired : Unwind(refused, expired) => Counted
  BY ZenonT(60) DEF Unwind
<1>4. ASSUME NEW keep, NEW blocks, NEW refused, NEW expired,
             Activate(keep, blocks, refused, expired)
      PROVE  Counted
  BY <1>4, ZenonT(60) DEF Activate
<1> HIDE DEF Counted
<1>5. SourceStep => Counted
  BY <1>1, <1>2, <1>3, <1>4, ZenonT(60) DEF SourceStep
<1> QED BY <1>5, ZenonT(60) DEF Counted

\* An event at the end of the validation queue.
LEMMA QueueAppends ==
  ASSUME NEW q \in Seq(Entries), NEW e \in Entries
  PROVE  /\ Append(q, e) \in Seq(Entries)
         /\ Len(Append(q, e)) = Len(q) + 1
         /\ \A i \in 1 .. Len(q) : Append(q, e)[i] = q[i]
         /\ Append(q, e)[Len(q) + 1] = e
BY SMTT(60)

\* No event at the end of the queue speaks of a revision to come.
LEMMA RevisionsAppend ==
  ASSUME Typed, Revisions, NEW e \in Entries,
         e.kind = "callback" => e.revision \in 0 .. mempool_revision,
         queue' = Append(queue, e),
         UNCHANGED <<seen, pushing, mempool_revision>>
  PROVE  Revisions'
<1>1. queue \in Seq(Entries) /\ Len(queue) \in Nat
  BY SMTT(60) DEF Typed
<1>2. /\ Len(queue') = Len(queue) + 1
      /\ \A i \in 1 .. Len(queue) : queue'[i] = queue[i]
      /\ queue'[Len(queue) + 1] = e
  BY <1>1, QueueAppends, ZenonT(60)
<1>3. ASSUME NEW i \in 1 .. Len(queue'), queue'[i].kind = "callback"
      PROVE  queue'[i].revision \in 0 .. mempool_revision
  <2>1. i \in 1 .. Len(queue) \/ i = Len(queue) + 1
    BY <1>1, <1>2, SMTT(60)
  <2> QED BY <1>2, <1>3, <2>1, ZenonT(60) DEF Revisions
<1> QED BY <1>3, ZenonT(60) DEF Revisions

\* Only Stop's own fence is behind its unregistering.
LEMMA FencedAppend ==
  ASSUME Typed, Fenced, NEW e \in Entries,
         ~(e.kind = "fence" /\ e.who = "stop"),
         queue' = Append(queue, e),
         UNCHANGED <<registered, stop_pc, fenced, pushing>>
  PROVE  Fenced'
<1>1. queue \in Seq(Entries) /\ Len(queue) \in Nat
  BY SMTT(60) DEF Typed
<1>2. /\ Len(queue') = Len(queue) + 1
      /\ \A i \in 1 .. Len(queue) : queue'[i] = queue[i]
      /\ queue'[Len(queue) + 1] = e
  BY <1>1, QueueAppends, ZenonT(60)
<1>3. ASSUME NEW i \in 1 .. Len(queue'),
             queue'[i].kind = "fence", queue'[i].who = "stop"
      PROVE  ~registered
  <2>1. i \in 1 .. Len(queue) \/ i = Len(queue) + 1
    BY <1>1, <1>2, SMTT(60)
  <2> QED BY <1>2, <1>3, <2>1, ZenonT(60) DEF Fenced
<1> QED BY <1>3, ZenonT(60) DEF Fenced

\* The rest of a queue.
LEMMA QueuePops ==
  ASSUME NEW S, NEW q \in Seq(S), q # <<>>
  PROVE  /\ Head(q) \in S /\ Head(q) = q[1] /\ Len(q) >= 1
         /\ Tail(q) \in Seq(S) /\ Len(Tail(q)) = Len(q) - 1
         /\ \A i \in 1 .. Len(Tail(q)) : Tail(q)[i] = q[i + 1] /\ i + 1 \in 1 .. Len(q)
BY SMTT(60)

\* A ticket is taken: the oldest one, or all at once (TakeTicket).
LEMMA TakeAdvances ==
  ASSUME Typed, Frontier, pc \in {"loop", "fence"}, HasTicket, TakeTicket,
         pc' = "capture",
         UNCHANGED <<completed, accepted, pending, service_mode>>
  PROVE  tickets' \in Seq(Nat) /\ ticket' \in Nat /\ Frontier'
<1>0. ticket = 0
  BY ZenonT(60) DEF Frontier
<1>1. CASE service_mode
  BY <1>0, <1>1, SMTT(60) DEF Typed, Frontier, Running, HasTicket, TakeTicket
<1>2. CASE ~service_mode
  <2>1. tickets # <<>> /\ ticket' = Head(tickets) /\ tickets' = Tail(tickets)
    BY <1>2, ZenonT(60) DEF HasTicket, TakeTicket
  <2>2. /\ Head(tickets) \in Nat /\ Head(tickets) = tickets[1] /\ Len(tickets) >= 1
        /\ Tail(tickets) \in Seq(Nat) /\ Len(Tail(tickets)) = Len(tickets) - 1
        /\ \A i \in 1 .. Len(Tail(tickets)) :
             Tail(tickets)[i] = tickets[i + 1] /\ i + 1 \in 1 .. Len(tickets)
    BY <2>1, QueuePops, ZenonT(60) DEF Typed
  <2>3. /\ Len(tickets) = accepted - completed
        /\ \A i \in 1 .. Len(tickets) : tickets[i] = accepted - Len(tickets) + i
    BY <1>0, <1>2, SMTT(60) DEF Typed, Frontier, Running
  <2>4. Len(tickets) \in Nat /\ accepted \in Nat /\ completed \in Nat
    BY SMTT(60) DEF Typed
  <2>5. ticket' = completed + 1
    BY <2>1, <2>2, <2>3, <2>4, SMTT(60)
  <2>6. \A i \in 1 .. Len(tickets') : tickets'[i] = accepted - Len(tickets') + i
    <3> TAKE i \in 1 .. Len(tickets')
    <3>1. tickets'[i] = tickets[i + 1] /\ i + 1 \in 1 .. Len(tickets)
      BY <2>1, <2>2, ZenonT(60)
    <3>2. tickets[i + 1] = accepted - Len(tickets) + (i + 1)
      BY <2>3, <3>1, ZenonT(60)
    <3> QED BY <2>1, <2>2, <2>4, <3>1, <3>2, SMTT(60)
  <2>7. /\ Len(tickets') = accepted - completed - 1
        /\ ticket' # 0 /\ completed < ticket' /\ ticket' <= accepted
    BY <2>1, <2>2, <2>3, <2>4, <2>5, SMTT(60)
  <2>8. completed <= accepted /\ pending = accepted - completed
    BY ZenonT(60) DEF Frontier, Running
  <2> QED BY <1>2, <2>1, <2>2, <2>5, <2>6, <2>7, <2>8, ZenonT(60) DEF Frontier, Running
<1> QED BY <1>1, <1>2, ZenonT(60)

-----------------------------------------------------------------------------
(* The steps.                                                              *)

\* The node changes: every binding becomes one of the past.
LEMMA ChangeSourcePreserves ==
  ASSUME Inductive, ChangeSource
  PROVE  Inductive'
<1> USE DEF source, callbacks, frontier, status, probe, thread, modes,
            Elsewhere, Round
<1>0. Typed /\ Frontier /\ Revisions /\ Covered /\ Fenced /\ Stopping /\ Views
  BY ZenonT(60) DEF Inductive
<1>e. /\ mempool_revision' = mempool_revision + 1
      /\ UNCHANGED <<service_mode, queue, pushing, tickets, accepted, completed, ticket, pending, discarded, seen>>
      /\ UNCHANGED <<registered, fenced, stop_pc, stopping, joined, closed, failure>>
      /\ UNCHANGED <<gate, index, captured, applied_capture, bound, pc, published, ready>>
      /\ failed' = failed
  BY ChangeSource, SourceCounts, ZenonT(60) DEF ChangeSource, failed
<1>1. Typed'
  BY <1>0, <1>e, SMTT(60) DEF Typed
<1>2. Frontier'
  BY <1>0, <1>e, FrontierFrame, ZenonT(60)
<1>3. Revisions'
  BY <1>0, <1>e, SMTT(60) DEF Typed, Revisions
<1>4. Covered'
  BY <1>0, <1>e, CoveredFrame, ZenonT(60)
<1>5. Fenced'
  BY <1>0, <1>e, ZenonT(60) DEF Fenced
<1>6. Stopping'
  BY <1>0, <1>e, StoppingFrame, ZenonT(60)
<1>7. Views'
  <2>1. ASSUME NEW b, b[4] \in Nat, b[4] <= mempool_revision
        PROVE  /\ b[4] <= mempool_revision'
               /\ b # <<TipOf(chain'), Len(chain'), chain_generation',
                        mempool_revision'>>
    BY <1>0, <1>e, <2>1, SMTT(60) DEF Typed
  <2>2. gate.mode' = Ready => Shows(gate.binding, index.chain, index.overlay.txs)'
    BY <1>0, <1>e, <2>1, ZenonT(60) DEF Views, Shows, Binding
  <2>3. pc' \in {"disk", "apply", "publish"} =>
          Shows(captured.binding, captured.chain, captured.pool)'
    BY <1>0, <1>e, <2>1, ZenonT(60) DEF Views, Shows, Binding
  <2> QED BY <1>0, <1>e, <2>2, <2>3, ZenonT(60) DEF Views, IsGate
<1> QED BY <1>1, <1>2, <1>3, <1>4, <1>5, <1>6, <1>7, ZenonT(60) DEF Inductive

\* A callback is queued with the revision of its moment.
LEMMA NotifyPreserves ==
  ASSUME Inductive, Notify
  PROVE  Inductive'
<1> USE DEF source, callbacks, frontier, status, probe, thread, modes,
            Elsewhere, Round
<1>0. Typed /\ Frontier /\ Revisions /\ Covered /\ Fenced /\ Stopping /\ Views
  BY ZenonT(60) DEF Inductive
<1>e. /\ queue' = Append(queue, Callback(mempool_revision))
      /\ UNCHANGED <<chain, pool, chain_generation, mempool_revision, service_mode, pushing, tickets, accepted, completed, ticket, pending, discarded, seen>>
      /\ UNCHANGED <<registered, fenced, stop_pc, stopping, joined, closed, failure>>
      /\ UNCHANGED <<gate, index, captured, applied_capture, bound, pc, published, ready>>
      /\ failed' = failed
  BY Notify, ZenonT(60) DEF Notify, failed
<1>q. Callback(mempool_revision) \in Entries
  BY <1>0, ZenonT(60) DEF Typed, Callback, Entries
<1>1. Typed'
  BY <1>0, <1>e, <1>q, QueueAppends, ZenonT(60) DEF Typed
<1>2. Frontier'
  BY <1>0, <1>e, FrontierFrame, ZenonT(60)
<1>3. Revisions'
  BY <1>0, <1>e, <1>q, QueueAppends, SMTT(60) DEF Typed, Revisions, Callback
<1>4. Covered'
  BY <1>0, <1>e, CoveredFrame, ZenonT(60)
<1>5. Fenced'
  BY <1>0, <1>e, <1>q, QueueAppends, SMTT(60) DEF Typed, Fenced, Callback
<1>6. Stopping'
  BY <1>0, <1>e, StoppingFrame, ZenonT(60)
<1>7. Views'
  BY <1>0, <1>e, ViewsFrame, ZenonT(60)
<1> QED BY <1>1, <1>2, <1>3, <1>4, <1>5, <1>6, <1>7, ZenonT(60) DEF Inductive

\* A fence is passed, or a callback begins and shuts the gate.
LEMMA DeliverPreserves ==
  ASSUME Inductive, Deliver
  PROVE  Inductive'
<1> USE DEF source, callbacks, frontier, status, probe, thread, modes,
            Elsewhere, Round
<1>0. Typed /\ Frontier /\ Revisions /\ Covered /\ Fenced /\ Stopping /\ Views
  BY ZenonT(60) DEF Inductive
<1>e. /\ pushing = <<>> /\ queue # <<>> /\ queue' = Tail(queue)
      /\ \/ Head(queue).kind = "fence" /\ fenced' = fenced \cup {Head(queue).who}
            /\ UNCHANGED <<pushing, gate>>
         \/ Head(queue).kind = "callback" /\ registered /\ gate' = GateBegin(gate)
            /\ pushing' = <<Head(queue).revision>> /\ UNCHANGED fenced
         \/ UNCHANGED <<pushing, gate, fenced>>
      /\ UNCHANGED <<chain, pool, chain_generation, mempool_revision, service_mode, tickets, accepted, completed, ticket, pending, discarded, seen>>
      /\ UNCHANGED <<registered, stop_pc, stopping, joined, closed, failure>>
      /\ UNCHANGED <<index, captured, applied_capture, bound, pc, published, ready>>
      /\ failed' = failed
  BY Deliver, ZenonT(60) DEF Deliver, failed
<1>g. IsGate(gate)
  BY <1>0, ZenonT(60) DEF Views
<1>q. /\ Head(queue) \in Entries /\ Head(queue) = queue[1] /\ Len(queue) >= 1
      /\ Tail(queue) \in Seq(Entries)
      /\ \A i \in 1 .. Len(Tail(queue)) :
           Tail(queue)[i] = queue[i + 1] /\ i + 1 \in 1 .. Len(queue)
  BY <1>0, <1>e, QueuePops, ZenonT(60) DEF Typed
<1>1. Typed'
  <2>0. Head(queue).kind = "callback" => Head(queue).revision \in Nat
    BY <1>q, ZenonT(60) DEF Entries
  <2>1. \A r \in Nat : <<r>> \in Seq(Nat)
    BY SMTT(60)
  <2>2. pushing' \in Seq(Nat)
    BY <1>0, <1>e, <2>0, <2>1, ZenonT(60) DEF Typed
  <2> QED BY <1>0, <1>e, <1>q, <2>2, ZenonT(60) DEF Typed
<1>2. Frontier'
  BY <1>0, <1>e, FrontierFrame, ZenonT(60)
<1>3. Revisions'
  <2>1. \A i \in 1 .. Len(pushing') : pushing'[i] \in 0 .. mempool_revision
    BY <1>0, <1>e, <1>q, SMTT(60) DEF Typed, Revisions
  <2>2. \A i \in 1 .. Len(queue') :
          queue'[i].kind = "callback" => queue'[i].revision \in 0 .. mempool_revision
    BY <1>0, <1>e, <1>q, ZenonT(60) DEF Revisions
  <2> QED BY <1>0, <1>e, <2>1, <2>2, ZenonT(60) DEF Revisions
<1>4. Covered'
  BY <1>0, <1>e, CoveredFrame, ZenonT(60)
<1>5. Fenced'
  <2>1. \A i \in 1 .. Len(queue') :
          queue'[i].kind = "fence" /\ queue'[i].who = "stop" => ~registered
    BY <1>0, <1>e, <1>q, ZenonT(60) DEF Fenced
  <2>2. "stop" \in fenced' => ~registered /\ pushing' = <<>>
    BY <1>0, <1>e, <1>q, SMTT(60) DEF Fenced
  <2>3. fenced \subseteq fenced'
    BY <1>e, ZenonT(60)
  <2> QED BY <1>0, <1>e, <2>1, <2>2, <2>3, ZenonT(60) DEF Fenced
<1>6. Stopping'
  BY <1>0, <1>e, StoppingFrame, ZenonT(60)
<1>7. Views'
  BY <1>0, <1>e, <1>g, GateShuts, ViewsFrame, ZenonT(60)
<1> QED BY <1>1, <1>2, <1>3, <1>4, <1>5, <1>6, <1>7, ZenonT(60) DEF Inductive

\* A shutdown of the node is asked for.
LEMMA ShutDownPreserves ==
  ASSUME Inductive, ShutDown
  PROVE  Inductive'
<1> USE DEF source, callbacks, frontier, status, probe, thread, modes,
            Elsewhere, Round
<1>0. Typed /\ Frontier /\ Revisions /\ Covered /\ Fenced /\ Stopping /\ Views
  BY ZenonT(60) DEF Inductive
<1>e. /\ UNCHANGED <<chain, pool, chain_generation, mempool_revision, service_mode, queue, pushing, tickets, accepted, completed, ticket, pending, discarded, seen>>
      /\ UNCHANGED <<registered, fenced, stop_pc, stopping, joined, closed, failure>>
      /\ UNCHANGED <<gate, index, captured, applied_capture, bound, pc, published, ready>>
      /\ failed' = failed
  BY ShutDown, ZenonT(60) DEF ShutDown, failed
<1>1. Typed'
  BY <1>0, <1>e, ZenonT(60) DEF Typed
<1>2. Frontier'
  BY <1>0, <1>e, FrontierFrame, ZenonT(60)
<1>3. Revisions'
  BY <1>0, <1>e, ZenonT(60) DEF Revisions
<1>4. Covered'
  BY <1>0, <1>e, CoveredFrame, ZenonT(60)
<1>5. Fenced'
  BY <1>0, <1>e, ZenonT(60) DEF Fenced
<1>6. Stopping'
  BY <1>0, <1>e, StoppingFrame, ZenonT(60)
<1>7. Views'
  BY <1>0, <1>e, ViewsFrame, ZenonT(60) DEF Views
<1> QED BY <1>1, <1>2, <1>3, <1>4, <1>5, <1>6, <1>7, ZenonT(60) DEF Inductive

\* A callback gets a ticket, is rejected, or fails the worker.
LEMMA PushTicketPreserves ==
  ASSUME Inductive, PushTicket
  PROVE  Inductive'
<1> USE DEF source, callbacks, frontier, status, probe, thread, modes,
            Elsewhere, Round
<1>0. Typed /\ Frontier /\ Revisions /\ Covered /\ Fenced /\ Stopping /\ Views
  BY ZenonT(60) DEF Inductive
<1>e. /\ pushing # <<>> /\ pushing' = <<>>
      /\ UNCHANGED <<chain, pool, chain_generation, mempool_revision, service_mode, completed, discarded, queue, ticket, registered, fenced,
                     stop_pc, stopping, joined, closed, index, captured,
                     applied_capture, bound, pc, published>>
  BY PushTicket, ZenonT(60) DEF PushTicket
<1>g. IsGate(gate)
  BY <1>0, ZenonT(60) DEF Views
<1>c. \/ /\ UNCHANGED <<tickets, pending, accepted, seen>> /\ (ready' => ready)
         /\ failed => failed'
         /\ gate' = gate \/ gate' = GateFail(gate)
      \/ /\ ~closed /\ ~failed /\ failed' = failed /\ gate' = gate
         /\ accepted' = accepted + 1 /\ pending' = pending + 1
         /\ tickets' = IF service_mode THEN tickets
                       ELSE Append(tickets, accepted + 1)
         /\ seen' = pushing[1] /\ ready' = FALSE
  <2>1. ASSUME NEW why, Fail(why)
        PROVE  (failed => failed') /\ (ready' => ready) /\ gate' = GateFail(gate)
    BY <2>1, ZenonT(60) DEF Fail, failed
  <2> QED BY PushTicket, <2>1, ZenonT(60) DEF PushTicket, Refuses, failed
<1>1. Typed'
  <2>1. pushing[1] \in Nat /\ <<>> \in Seq(Nat)
    BY <1>0, <1>e, QueuePops, SMTT(60) DEF Typed
  <2>2. tickets' \in Seq(Nat)
    <3>1. tickets \in Seq(Nat) /\ accepted + 1 \in Nat
      BY <1>0, SMTT(60) DEF Typed
    <3>2. Append(tickets, accepted + 1) \in Seq(Nat)
      BY <3>1, SMTT(60)
    <3> QED BY <1>c, <3>1, <3>2, ZenonT(60)
  <2>3. accepted' \in Nat /\ pending' \in Int /\ seen' \in Nat
    BY <1>0, <1>c, <2>1, SMTT(60) DEF Typed
  <2> QED BY <1>0, <1>e, <2>1, <2>2, <2>3, ZenonT(60) DEF Typed
<1>2. Frontier'
  <2>1. CASE UNCHANGED <<tickets, pending, accepted, seen>>
    BY <1>0, <1>e, <2>1, FrontierFrame, ZenonT(60)
  <2>2. CASE accepted' = accepted + 1
    <3>1. /\ accepted \in Nat /\ completed \in Nat /\ ticket \in Nat
          /\ pending \in Int /\ tickets \in Seq(Nat)
      BY <1>0, ZenonT(60) DEF Typed
    <3>2. CASE service_mode
      BY <1>0, <1>e, <1>c, <2>2, <3>1, <3>2, SMTT(60) DEF Frontier, Running
    <3>3. CASE ~service_mode
      <4>1. /\ Len(tickets') = Len(tickets) + 1
            /\ \A i \in 1 .. Len(tickets) : tickets'[i] = tickets[i]
            /\ tickets'[Len(tickets) + 1] = accepted + 1
        BY <1>c, <2>2, <3>1, <3>3, SMTT(60)
      <4>2. Running => \A i \in 1 .. Len(tickets') :
                         tickets'[i] = accepted' - Len(tickets') + i
        BY <1>0, <2>2, <3>1, <3>3, <4>1, SMTT(60) DEF Frontier
      <4>3. Running => Len(tickets') = accepted' - completed'
                                         - (IF ticket' = 0 THEN 0 ELSE 1)
        BY <1>0, <1>e, <2>2, <3>1, <3>3, <4>1, SMTT(60) DEF Frontier
      <4>4. /\ completed' <= accepted'
            /\ Running => pending' = accepted' - completed'
            /\ ticket' # 0 => completed' < ticket' /\ ticket' <= accepted'
            /\ ticket' # 0 => ticket' = completed' + 1
            /\ pc \in {"loop", "fence"} => ticket' = 0
        BY <1>0, <1>e, <1>c, <2>2, <3>1, <3>3, SMTT(60) DEF Frontier
      <4> QED BY <1>e, <3>3, <4>2, <4>3, <4>4, ZenonT(60) DEF Frontier, Running
    <3> QED BY <3>2, <3>3, ZenonT(60)
  <2> QED BY <1>c, <2>1, <2>2, ZenonT(60)
<1>3. Revisions'
  <2>1. pushing[1] \in 0 .. mempool_revision
    <3>1. pushing \in Seq(Nat) /\ pushing # <<>>
      BY <1>0, <1>e, ZenonT(60) DEF Typed
    <3>2. 1 \in 1 .. Len(pushing)
      BY <3>1, SMTT(60)
    <3> QED BY <1>0, <3>2, ZenonT(60) DEF Revisions
  <2> QED BY <1>0, <1>e, <1>c, <2>1, SMTT(60) DEF Revisions
<1>4. Covered'
  <2>1. Done <= accepted /\ Done \in Nat
    BY <1>0, ZenonT(60) DEF Typed, Frontier, Done
  <2>2. Done' = Done
    BY <1>e, ZenonT(60) DEF Done
  <2>3. CASE accepted' = accepted + 1 /\ ready' = FALSE
    <3>1. Done' < accepted'
      BY <1>0, <2>1, <2>2, <2>3, SMTT(60) DEF Typed
    <3> QED BY <2>3, <3>1, ZenonT(60) DEF Covered
  <2>4. CASE UNCHANGED <<tickets, pending, accepted, seen>> /\ (ready' => ready)
    BY <1>0, <1>e, <2>4, CoveredFrame, ZenonT(60)
  <2> QED BY <1>c, <2>3, <2>4, ZenonT(60)
<1>5. Fenced'
  BY <1>0, <1>e, ZenonT(60) DEF Fenced
<1>6. Stopping'
  <2>1. pc = "ended" => closed \/ failed
    BY <1>0, ZenonT(60) DEF Stopping
  <2> QED BY <1>0, <1>e, <1>c, <2>1, StoppingFrame, ZenonT(60)
<1>7. Views'
  BY <1>0, <1>e, <1>c, <1>g, GateShuts, ViewsFrame, ZenonT(60)
<1> QED BY <1>1, <1>2, <1>3, <1>4, <1>5, <1>6, <1>7, ZenonT(60) DEF Inductive

\* The loop ends.
LEMMA LoopLeavePreserves ==
  ASSUME Inductive, LoopLeave
  PROVE  Inductive'
<1> USE DEF source, callbacks, frontier, status, probe, thread, modes,
            Elsewhere, Round
<1>0. Typed /\ Frontier /\ Revisions /\ Covered /\ Fenced /\ Stopping /\ Views
  BY ZenonT(60) DEF Inductive
<1>e. /\ pc = "loop" /\ pc' = "teardown"
      /\ closed' \/ stopping \/ failed
      /\ gate' = gate \/ gate' = GateClose(gate)
      /\ closed => closed'
      /\ failed' = failed /\ (ready' => ready)
      /\ UNCHANGED <<chain, pool, chain_generation, mempool_revision, service_mode, queue, pushing, tickets, accepted, completed, ticket, pending, discarded, seen>>
      /\ UNCHANGED <<registered, fenced, stop_pc, stopping, joined>>
      /\ UNCHANGED <<index, captured, applied_capture, bound, published>>
  BY LoopLeave, ZenonT(60) DEF LoopLeave, Leaves, failed
<1>g. IsGate(gate)
  BY <1>0, ZenonT(60) DEF Views
<1>1. Typed'
  BY <1>0, <1>e, ZenonT(60) DEF Typed
<1>2. Frontier'
  BY <1>0, <1>e, FrontierFrame, ZenonT(60)
<1>3. Revisions'
  BY <1>0, <1>e, ZenonT(60) DEF Revisions
<1>4. Covered'
  BY <1>0, <1>e, CoveredFrame, ZenonT(60)
<1>5. Fenced'
  BY <1>0, <1>e, ZenonT(60) DEF Fenced
<1>6. Stopping'
  <2>1. closed' \/ failed'
    BY <1>0, <1>e, ZenonT(60) DEF Stopping
  <2> QED BY <1>0, <1>e, <2>1, StoppingFrame, ZenonT(60)
<1>7. Views'
  BY <1>0, <1>e, <1>g, GateShuts, ViewsFrame, ZenonT(60)
<1> QED BY <1>1, <1>2, <1>3, <1>4, <1>5, <1>6, <1>7, ZenonT(60) DEF Inductive

\* A ticket begins a round.
LEMMA LoopTakePreserves ==
  ASSUME Inductive, LoopTake
  PROVE  Inductive'
<1> USE DEF source, callbacks, frontier, status, probe, thread, modes,
            Elsewhere, Round
<1>0. Typed /\ Frontier /\ Revisions /\ Covered /\ Fenced /\ Stopping /\ Views
  BY ZenonT(60) DEF Inductive
<1>e. /\ pc = "loop" /\ pc' = "capture" /\ HasTicket /\ TakeTicket
      /\ UNCHANGED <<chain, pool, chain_generation, mempool_revision, service_mode, queue, pushing, accepted, completed, pending, discarded, seen>>
      /\ UNCHANGED <<registered, fenced, stop_pc, stopping, joined, closed, failure>>
      /\ UNCHANGED <<gate, index, captured, applied_capture, bound, published, ready>>
      /\ failed' = failed
  BY LoopTake, ZenonT(60) DEF LoopTake, failed
<1>t. tickets' \in Seq(Nat) /\ ticket' \in Nat /\ Frontier'
  BY <1>0, <1>e, TakeAdvances, ZenonT(60)
<1>1. Typed'
  BY <1>0, <1>e, <1>t, ZenonT(60) DEF Typed
<1>2. Frontier'
  BY <1>t, ZenonT(60)
<1>3. Revisions'
  BY <1>0, <1>e, ZenonT(60) DEF Revisions
<1>4. Covered'
  BY <1>0, <1>e, CoveredFrame, ZenonT(60)
<1>5. Fenced'
  BY <1>0, <1>e, ZenonT(60) DEF Fenced
<1>6. Stopping'
  BY <1>0, <1>e, StoppingFrame, ZenonT(60)
<1>7. Views'
  BY <1>0, <1>e, ViewsFrame, ZenonT(60)
<1> QED BY <1>1, <1>2, <1>3, <1>4, <1>5, <1>6, <1>7, ZenonT(60) DEF Inductive

\* A poll puts a fence of the worker into the queue.
LEMMA LoopPollPreserves ==
  ASSUME Inductive, LoopPoll
  PROVE  Inductive'
<1> USE DEF source, callbacks, frontier, status, probe, thread, modes,
            Elsewhere, Round
<1>0. Typed /\ Frontier /\ Revisions /\ Covered /\ Fenced /\ Stopping /\ Views
  BY ZenonT(60) DEF Inductive
<1>e. /\ pc = "loop" /\ pc' = "fence"
      /\ queue' = Append(queue, Fence("worker"))
      /\ UNCHANGED <<chain, pool, chain_generation, mempool_revision, service_mode, pushing, tickets, accepted, completed, ticket, pending, discarded, seen>>
      /\ UNCHANGED <<registered, fenced, stop_pc, stopping, joined, closed, failure>>
      /\ UNCHANGED <<gate, index, captured, applied_capture, bound, published, ready>>
      /\ failed' = failed
  BY LoopPoll, ZenonT(60) DEF LoopPoll, failed
<1>q. Fence("worker") \in Entries
  BY ZenonT(60) DEF Fence, Entries
<1>1. Typed'
  BY <1>0, <1>e, <1>q, QueueAppends, ZenonT(60) DEF Typed
<1>2. Frontier'
  BY <1>0, <1>e, FrontierFrame, ZenonT(60)
<1>3. Revisions'
  <2>1. Fence("worker").kind # "callback"
    BY ZenonT(60) DEF Fence
  <2> QED BY <1>0, <1>e, <1>q, <2>1, RevisionsAppend, ZenonT(60)
<1>4. Covered'
  BY <1>0, <1>e, CoveredFrame, ZenonT(60)
<1>5. Fenced'
  <2>1. Fence("worker").who # "stop"
    BY ZenonT(60) DEF Fence
  <2> QED BY <1>0, <1>e, <1>q, <2>1, FencedAppend, ZenonT(60)
<1>6. Stopping'
  BY <1>0, <1>e, StoppingFrame, ZenonT(60)
<1>7. Views'
  BY <1>0, <1>e, ViewsFrame, ZenonT(60)
<1> QED BY <1>1, <1>2, <1>3, <1>4, <1>5, <1>6, <1>7, ZenonT(60) DEF Inductive

\* The worker's fence is passed; a round begins, or the loop ends.
LEMMA LoopFencedPreserves ==
  ASSUME Inductive, LoopFenced
  PROVE  Inductive'
<1> USE DEF source, callbacks, frontier, status, probe, thread, modes,
            Elsewhere, Round
<1>0. Typed /\ Frontier /\ Revisions /\ Covered /\ Fenced /\ Stopping /\ Views
  BY ZenonT(60) DEF Inductive
<1>e. /\ pc = "fence" /\ fenced' = fenced \ {"worker"}
      /\ \/ pc' = "teardown" /\ (stopping \/ closed \/ failed)
            /\ UNCHANGED <<tickets, ticket, gate>> /\ ready' = ready
         \/ /\ pc' = "capture" /\ ready' = FALSE /\ gate' = GateBegin(gate)
            /\ \/ HasTicket /\ TakeTicket
               \/ ticket' = 0 /\ UNCHANGED tickets
      /\ UNCHANGED <<chain, pool, chain_generation, mempool_revision, service_mode, queue, pushing, accepted, completed, pending, discarded, seen>>
      /\ UNCHANGED <<registered, stop_pc, stopping, joined, closed, failure>>
      /\ UNCHANGED <<index, captured, applied_capture, bound, published>>
      /\ failed' = failed
  BY LoopFenced, ZenonT(60) DEF LoopFenced, Leaves, failed
<1>g. IsGate(gate)
  BY <1>0, ZenonT(60) DEF Views
<1>t. tickets' \in Seq(Nat) /\ ticket' \in Nat /\ Frontier'
  <2>1. CASE HasTicket /\ TakeTicket /\ pc' = "capture"
    BY <1>0, <1>e, <2>1, TakeAdvances, ZenonT(60)
  <2>2. CASE UNCHANGED <<tickets, ticket>>
    BY <1>0, <1>e, <2>2, FrontierFrame, ZenonT(60) DEF Typed
  <2>3. ticket = 0
    BY <1>0, <1>e, ZenonT(60) DEF Frontier
  <2> QED BY <1>e, <2>1, <2>2, <2>3, ZenonT(60)
<1>1. Typed'
  BY <1>0, <1>e, <1>t, ZenonT(60) DEF Typed
<1>2. Frontier'
  BY <1>t, ZenonT(60)
<1>3. Revisions'
  BY <1>0, <1>e, ZenonT(60) DEF Revisions
<1>4. Covered'
  BY <1>0, <1>e, CoveredFrame, SMTT(60)
<1>5. Fenced'
  BY <1>0, <1>e, ZenonT(60) DEF Fenced
<1>6. Stopping'
  <2>1. pc' = "teardown" => closed' \/ failed'
    BY <1>0, <1>e, ZenonT(60) DEF Stopping
  <2> QED BY <1>0, <1>e, <2>1, StoppingFrame, ZenonT(60)
<1>7. Views'
  BY <1>0, <1>e, <1>g, GateShuts, ViewsFrame, ZenonT(60)
<1> QED BY <1>1, <1>2, <1>3, <1>4, <1>5, <1>6, <1>7, ZenonT(60) DEF Inductive

\* The source is captured, or the round gives up.
LEMMA CapturePreserves ==
  ASSUME Inductive, Capture
  PROVE  Inductive'
<1> USE DEF source, callbacks, frontier, status, probe, thread, modes,
            Elsewhere, Round
<1>0. Typed /\ Frontier /\ Revisions /\ Covered /\ Fenced /\ Stopping /\ Views
  BY ZenonT(60) DEF Inductive
<1>e. /\ pc = "capture"
      /\ \/ published' = FALSE /\ pc' = "ack" /\ UNCHANGED captured
         \/ /\ pc' = "disk" /\ published' = published
            /\ captured' = [binding |-> Binding, chain |-> chain, pool |-> pool]
      /\ UNCHANGED <<chain, pool, chain_generation, mempool_revision, service_mode, queue, pushing, tickets, accepted, completed, ticket, pending, discarded, seen>>
      /\ UNCHANGED <<registered, fenced, stop_pc, stopping, joined, closed, failure>>
      /\ UNCHANGED <<gate, index, applied_capture, bound, ready>>
      /\ failed' = failed
  BY Capture, ZenonT(60) DEF Capture, failed
<1>1. Typed'
  BY <1>0, <1>e, ZenonT(60) DEF Typed
<1>2. Frontier'
  BY <1>0, <1>e, FrontierFrame, ZenonT(60)
<1>3. Revisions'
  BY <1>0, <1>e, ZenonT(60) DEF Revisions
<1>4. Covered'
  BY <1>0, <1>e, CoveredFrame, ZenonT(60)
<1>5. Fenced'
  BY <1>0, <1>e, ZenonT(60) DEF Fenced
<1>6. Stopping'
  BY <1>0, <1>e, StoppingFrame, ZenonT(60)
<1>7. Views'
  <2>1. CASE pc' = "ack"
    BY <1>0, <1>e, <2>1, ViewsFrame, ZenonT(60)
  <2>2. CASE pc' = "disk"
    <3>1. /\ captured'.binding = Binding
          /\ captured'.chain = chain /\ captured'.pool = pool
      BY <1>e, <2>2, SMTT(60)
    <3>2. Binding[4] = mempool_revision
      BY ZenonT(60) DEF Binding
    <3>3. Shows(captured.binding, captured.chain, captured.pool)'
      BY <1>0, <1>e, <3>1, <3>2, SMTT(60) DEF Typed, Shows, Binding
    <3>4. gate'.mode = Ready => Shows(gate.binding, index.chain, index.overlay.txs)'
      BY <1>0, <1>e, ZenonT(60) DEF Views, Shows, Binding
    <3> QED BY <1>0, <1>e, <2>2, <3>3, <3>4, ZenonT(60) DEF Views, IsGate
  <2> QED BY <1>e, <2>1, <2>2, ZenonT(60)
<1> QED BY <1>1, <1>2, <1>3, <1>4, <1>5, <1>6, <1>7, ZenonT(60) DEF Inductive

\* Coins and blocks are read; the capture still stands, or not.
LEMMA ReadDiskPreserves ==
  ASSUME Inductive, ReadDisk
  PROVE  Inductive'
<1> USE DEF source, callbacks, frontier, status, probe, thread, modes,
            Elsewhere, Round
<1>0. Typed /\ Frontier /\ Revisions /\ Covered /\ Fenced /\ Stopping /\ Views
  BY ZenonT(60) DEF Inductive
<1>e. /\ pc = "disk" /\ pc' \in {"apply", "capture"}
      /\ UNCHANGED <<chain, pool, chain_generation, mempool_revision, service_mode, queue, pushing, tickets, accepted, completed, ticket, pending, discarded, seen>>
      /\ UNCHANGED <<registered, fenced, stop_pc, stopping, joined, closed, failure>>
      /\ UNCHANGED <<gate, index, captured, applied_capture, bound, published, ready>>
      /\ failed' = failed
  BY ReadDisk, ZenonT(60) DEF ReadDisk, failed
<1>1. Typed'
  BY <1>0, <1>e, ZenonT(60) DEF Typed
<1>2. Frontier'
  BY <1>0, <1>e, FrontierFrame, ZenonT(60)
<1>3. Revisions'
  BY <1>0, <1>e, ZenonT(60) DEF Revisions
<1>4. Covered'
  BY <1>0, <1>e, CoveredFrame, ZenonT(60)
<1>5. Fenced'
  BY <1>0, <1>e, ZenonT(60) DEF Fenced
<1>6. Stopping'
  BY <1>0, <1>e, StoppingFrame, ZenonT(60)
<1>7. Views'
  BY <1>0, <1>e, ViewsFrame, ZenonT(60)
<1> QED BY <1>1, <1>2, <1>3, <1>4, <1>5, <1>6, <1>7, ZenonT(60) DEF Inductive

\* The index is brought to the capture, behind a shut gate.
LEMMA ApplyPreserves ==
  ASSUME Inductive, Apply
  PROVE  Inductive'
<1> USE DEF source, callbacks, frontier, status, probe, thread, modes,
            Elsewhere, Round
<1>0. Typed /\ Frontier /\ Revisions /\ Covered /\ Fenced /\ Stopping /\ Views
  BY ZenonT(60) DEF Inductive
<1>e. /\ pc = "apply" /\ pc' = "publish"
      /\ gate' = GateBegin(gate)
      /\ index'.chain = captured.chain /\ index'.overlay.txs = captured.pool
      /\ applied_capture'[1] = captured.binding
      /\ UNCHANGED <<chain, pool, chain_generation, mempool_revision, service_mode, queue, pushing, tickets, accepted, completed, ticket, pending, discarded, seen>>
      /\ UNCHANGED <<registered, fenced, stop_pc, stopping, joined, closed, failure>>
      /\ UNCHANGED <<captured, bound, published, ready>>
      /\ failed' = failed
  <2>1. PICK added : added = Added(index, captured)
    BY ZenonT(60)
  <2>2. /\ added.overlay.txs = captured.pool
        /\ index' = [chain |-> captured.chain, overlay |-> added.overlay,
                     generation |-> captured.binding[3]]
    BY Apply, <2>1, ZenonT(60) DEF Apply, Reconciled
  <2>3. index'.chain = captured.chain /\ index'.overlay.txs = captured.pool
    BY <2>2, ZenonT(60)
  <2>4. applied_capture'[1] = captured.binding
    BY Apply, SMTT(60) DEF Apply
  <2> QED BY Apply, <2>3, <2>4, ZenonT(60) DEF Apply, failed
<1>g. IsGate(gate)
  BY <1>0, ZenonT(60) DEF Views
<1>1. Typed'
  BY <1>0, <1>e, ZenonT(60) DEF Typed
<1>2. Frontier'
  BY <1>0, <1>e, FrontierFrame, ZenonT(60)
<1>3. Revisions'
  BY <1>0, <1>e, ZenonT(60) DEF Revisions
<1>4. Covered'
  <2>1. pc' # "ack"
    BY <1>e, ZenonT(60)
  <2> QED BY <1>0, <1>e, <2>1, CoveredFrame, ZenonT(60)
<1>5. Fenced'
  BY <1>0, <1>e, ZenonT(60) DEF Fenced
<1>6. Stopping'
  BY <1>0, <1>e, StoppingFrame, ZenonT(60)
<1>7. Views'
  <2>1. IsGate(gate') /\ gate'.mode # Ready
    BY <1>e, <1>g, GateShuts, ZenonT(60)
  <2>2. Shows(captured.binding, captured.chain, captured.pool)'
    BY <1>0, <1>e, ZenonT(60) DEF Views, Shows, Binding
  <2> QED BY <1>e, <2>1, <2>2, ZenonT(60) DEF Views
<1> QED BY <1>1, <1>2, <1>3, <1>4, <1>5, <1>6, <1>7, ZenonT(60) DEF Inductive

\* The capture is published if the source has not moved.
LEMMA PublishPreserves ==
  ASSUME Inductive, Publish
  PROVE  Inductive'
<1> USE DEF source, callbacks, frontier, status, probe, thread, modes,
            Elsewhere, Round
<1>0. Typed /\ Frontier /\ Revisions /\ Covered /\ Fenced /\ Stopping /\ Views
  BY ZenonT(60) DEF Inductive
<1>e. /\ pc = "publish"
      /\ \/ /\ pc' = "ack" /\ captured.binding = Binding
            /\ gate' = GatePublish(gate, applied_capture[2], applied_capture[1])
            /\ bound' = applied_capture[1]
         \/ pc' = "capture" /\ UNCHANGED <<gate, bound>>
      /\ UNCHANGED <<chain, pool, chain_generation, mempool_revision, service_mode, queue, pushing, tickets, accepted, completed, ticket, pending, discarded, seen>>
      /\ UNCHANGED <<registered, fenced, stop_pc, stopping, joined, closed, failure>>
      /\ UNCHANGED <<index, captured, ready>>
      /\ failed' = failed
  BY Publish, ZenonT(60) DEF Publish, Current, failed
<1>g. IsGate(gate)
  BY <1>0, ZenonT(60) DEF Views
<1>1. Typed'
  BY <1>0, <1>e, ZenonT(60) DEF Typed
<1>2. Frontier'
  BY <1>0, <1>e, FrontierFrame, ZenonT(60)
<1>3. Revisions'
  BY <1>0, <1>e, ZenonT(60) DEF Revisions
<1>4. Covered'
  <2>1. CASE pc' = "capture"
    BY <1>0, <1>e, <2>1, CoveredFrame, ZenonT(60)
  <2>2. CASE pc' = "ack"
    <3>1. bound' = Binding
      BY <1>0, <1>e, <2>2, ZenonT(60) DEF Views
    <3>2. bound'[4] = mempool_revision
      BY <3>1, ZenonT(60) DEF Binding
    <3>3. seen' <= bound'[4]
      BY <1>0, <1>e, <3>2, SMTT(60) DEF Typed, Revisions
    <3> QED BY <1>0, <1>e, <3>3, ZenonT(60) DEF Covered
  <2> QED BY <1>e, <2>1, <2>2, ZenonT(60)
<1>5. Fenced'
  BY <1>0, <1>e, ZenonT(60) DEF Fenced
<1>6. Stopping'
  BY <1>0, <1>e, StoppingFrame, ZenonT(60)
<1>7. Views'
  <2>1. CASE pc' = "capture"
    BY <1>0, <1>e, <2>1, ViewsFrame, ZenonT(60)
  <2>2. CASE pc' = "ack"
    <3>1. /\ applied_capture[1] = captured.binding
          /\ index.chain = captured.chain /\ index.overlay.txs = captured.pool
          /\ Shows(captured.binding, captured.chain, captured.pool)
      BY <1>0, <1>e, ZenonT(60) DEF Views
    <3>2. /\ IsGate(gate')
          /\ gate'.mode = Ready => gate' = gate \/ gate'.binding = captured.binding
      BY <1>e, <1>g, <2>2, <3>1, GateOpens, SMTT(60)
    <3>3. gate'.mode = Ready => Shows(gate.binding, index.chain, index.overlay.txs)'
      BY <1>0, <1>e, <3>1, <3>2, ZenonT(60) DEF Views, Shows, Binding
    <3> QED BY <2>2, <3>2, <3>3, ZenonT(60) DEF Views
  <2> QED BY <1>e, <2>1, <2>2, ZenonT(60)
<1> QED BY <1>1, <1>2, <1>3, <1>4, <1>5, <1>6, <1>7, ZenonT(60) DEF Inductive

\* The round's ticket is acknowledged.
LEMMA AcknowledgePreserves ==
  ASSUME Inductive, Acknowledge
  PROVE  Inductive'
<1> USE DEF source, callbacks, frontier, status, probe, thread, modes,
            Elsewhere, Round
<1>0. Typed /\ Frontier /\ Revisions /\ Covered /\ Fenced /\ Stopping /\ Views
  BY ZenonT(60) DEF Inductive
<1>e. /\ pc = "ack" /\ pc' = "loop" /\ ticket' = 0
      /\ completed' = Done /\ pending' = pending - (Done - completed)
      /\ ready' => published /\ pending' = 0
      /\ UNCHANGED <<chain, pool, chain_generation, mempool_revision, service_mode, queue, pushing, tickets, accepted,
                     discarded, seen>>
      /\ UNCHANGED <<registered, fenced, stop_pc, stopping, joined, closed, failure>>
      /\ UNCHANGED <<gate, index, applied_capture, bound>>
      /\ failed' = failed
  BY Acknowledge, ZenonT(60) DEF Acknowledge, Done, Left, ReadyAfter, failed
<1>d. Done \in Nat /\ Done <= accepted
  BY <1>0, ZenonT(60) DEF Typed, Frontier, Done
<1>1. Typed'
  BY <1>0, <1>e, <1>d, SMTT(60) DEF Typed
<1>2. Frontier'
  <2>1. /\ accepted \in Nat /\ completed \in Nat /\ ticket \in Nat
        /\ pending \in Int /\ accepted - Done \in Int
    BY <1>0, <1>d, SMTT(60) DEF Typed
  <2>2. /\ pending = accepted - completed
        /\ ~service_mode =>
             /\ Len(tickets) = accepted - completed - (IF ticket = 0 THEN 0 ELSE 1)
             /\ ticket # 0 => ticket = completed + 1
             /\ \A i \in 1 .. Len(tickets) : tickets[i] = accepted - Len(tickets) + i
    BY <1>0, <1>e, ZenonT(60) DEF Frontier, Running
  <2>3. pending' = accepted' - completed'
    BY <1>d, <1>e, <2>1, <2>2, SMTT(60)
  <2>4. ~service_mode => Len(tickets) = accepted - Done
    BY <1>d, <2>1, <2>2, SMTT(60) DEF Done
  <2>5. accepted - Done - 0 = accepted - Done
    BY <2>1, SMTT(60)
  <2>6. ~service_mode' => Len(tickets') = accepted' - completed'
                                             - (IF ticket' = 0 THEN 0 ELSE 1)
    BY <1>e, <2>4, <2>5, ZenonT(60)
  <2> QED BY <1>d, <1>e, <2>2, <2>3, <2>6, ZenonT(60) DEF Frontier
<1>3. Revisions'
  BY <1>0, <1>e, ZenonT(60) DEF Revisions
<1>4. Covered'
  <2>1. ready' => Done = accepted
    BY <1>0, <1>e, <1>d, SMTT(60) DEF Typed, Frontier, Running
  <2>2. ready' => seen <= bound[4]
    BY <1>0, <1>e, <1>d, <2>1, SMTT(60) DEF Typed, Covered
  <2> QED BY <1>e, <2>2, ZenonT(60) DEF Covered
<1>5. Fenced'
  BY <1>0, <1>e, ZenonT(60) DEF Fenced
<1>6. Stopping'
  BY <1>0, <1>e, StoppingFrame, ZenonT(60)
<1>7. Views'
  BY <1>0, <1>e, ViewsFrame, ZenonT(60)
<1> QED BY <1>1, <1>2, <1>3, <1>4, <1>5, <1>6, <1>7, ZenonT(60) DEF Inductive

\* A round that throws fails the worker.
LEMMA ThrowPreserves ==
  ASSUME Inductive, Throw
  PROVE  Inductive'
<1> USE DEF source, callbacks, frontier, status, probe, thread, modes,
            Elsewhere, Round
<1>0. Typed /\ Frontier /\ Revisions /\ Covered /\ Fenced /\ Stopping /\ Views
  BY ZenonT(60) DEF Inductive
<1>e. /\ pc # "ended" /\ pc' = "teardown" /\ failed' /\ (ready' => ready)
      /\ gate' = GateFail(gate)
      /\ UNCHANGED <<chain, pool, chain_generation, mempool_revision, service_mode, queue, pushing, tickets, accepted, completed, ticket, pending, discarded, seen>>
      /\ UNCHANGED <<registered, fenced, stop_pc, stopping, joined, closed>>
      /\ UNCHANGED <<index, captured, applied_capture, bound, published>>
  BY Throw, ZenonT(60) DEF Throw, Throws, Fail, failed
<1>g. IsGate(gate)
  BY <1>0, ZenonT(60) DEF Views
<1>1. Typed'
  BY <1>0, <1>e, ZenonT(60) DEF Typed
<1>2. Frontier'
  BY <1>0, <1>e, FrontierFrame, ZenonT(60)
<1>3. Revisions'
  BY <1>0, <1>e, ZenonT(60) DEF Revisions
<1>4. Covered'
  BY <1>0, <1>e, CoveredFrame, ZenonT(60)
<1>5. Fenced'
  BY <1>0, <1>e, ZenonT(60) DEF Fenced
<1>6. Stopping'
  BY <1>0, <1>e, StoppingFrame, ZenonT(60)
<1>7. Views'
  BY <1>0, <1>e, <1>g, GateShuts, ViewsFrame, ZenonT(60)
<1> QED BY <1>1, <1>2, <1>3, <1>4, <1>5, <1>6, <1>7, ZenonT(60) DEF Inductive

\* The worker ends: what was accepted and not completed is discarded.
LEMMA TeardownPreserves ==
  ASSUME Inductive, Teardown
  PROVE  Inductive'
<1> USE DEF source, callbacks, frontier, status, probe, thread, modes,
            Elsewhere, Round
<1>0. Typed /\ Frontier /\ Revisions /\ Covered /\ Fenced /\ Stopping /\ Views
  BY ZenonT(60) DEF Inductive
<1>e. /\ pc = "teardown" /\ pc' = "ended" /\ ready' = FALSE
      /\ discarded' = accepted - completed /\ pending' = 0 /\ tickets' = <<>>
      /\ gate' = gate \/ gate' = GateFail(gate)
      /\ UNCHANGED <<chain, pool, chain_generation, mempool_revision, service_mode, queue, pushing, accepted,
                     completed, ticket, seen>>
      /\ UNCHANGED <<registered, fenced, stop_pc, stopping, joined, closed, failure>>
      /\ UNCHANGED <<index, captured, applied_capture, bound, published>>
      /\ failed' = failed
  BY Teardown, ZenonT(60) DEF Teardown, failed
<1>g. IsGate(gate)
  BY <1>0, ZenonT(60) DEF Views
<1>1. Typed'
  BY <1>0, <1>e, SMTT(60) DEF Typed
<1>2. Frontier'
  BY <1>0, <1>e, ZenonT(60) DEF Frontier, Running
<1>3. Revisions'
  BY <1>0, <1>e, ZenonT(60) DEF Revisions
<1>4. Covered'
  BY <1>0, <1>e, CoveredFrame, ZenonT(60)
<1>5. Fenced'
  BY <1>0, <1>e, ZenonT(60) DEF Fenced
<1>6. Stopping'
  BY <1>0, <1>e, SMTT(60) DEF Typed, Stopping
<1>7. Views'
  BY <1>0, <1>e, <1>g, GateShuts, ViewsFrame, ZenonT(60)
<1> QED BY <1>1, <1>2, <1>3, <1>4, <1>5, <1>6, <1>7, ZenonT(60) DEF Inductive

\* Stop closes the gate and the worker.
LEMMA StopClosePreserves ==
  ASSUME Inductive, StopClose
  PROVE  Inductive'
<1> USE DEF source, callbacks, frontier, status, probe, thread, modes,
            Elsewhere, Round
<1>0. Typed /\ Frontier /\ Revisions /\ Covered /\ Fenced /\ Stopping /\ Views
  BY ZenonT(60) DEF Inductive
<1>e. /\ stop_pc = "running" /\ stop_pc' = "closed" /\ closed' /\ ready' = FALSE
      /\ gate' = GateClose(gate)
      /\ UNCHANGED <<chain, pool, chain_generation, mempool_revision, service_mode, queue, pushing, tickets, accepted, completed, ticket, pending, discarded, seen>>
      /\ UNCHANGED <<registered, fenced, stopping, joined, pc, published>>
      /\ UNCHANGED <<index, captured, applied_capture, bound>>
      /\ failed' = failed
  BY StopClose, ZenonT(60) DEF StopClose, failed
<1>g. IsGate(gate)
  BY <1>0, ZenonT(60) DEF Views
<1>1. Typed'
  BY <1>0, <1>e, ZenonT(60) DEF Typed
<1>2. Frontier'
  BY <1>0, <1>e, FrontierFrame, ZenonT(60)
<1>3. Revisions'
  BY <1>0, <1>e, ZenonT(60) DEF Revisions
<1>4. Covered'
  BY <1>0, <1>e, CoveredFrame, ZenonT(60)
<1>5. Fenced'
  BY <1>0, <1>e, ZenonT(60) DEF Fenced
<1>6. Stopping'
  BY <1>0, <1>e, ZenonT(60) DEF Stopping
<1>7. Views'
  BY <1>0, <1>e, <1>g, GateShuts, ViewsFrame, ZenonT(60)
<1> QED BY <1>1, <1>2, <1>3, <1>4, <1>5, <1>6, <1>7, ZenonT(60) DEF Inductive

\* The subscriber goes, and a fence of Stop into the queue.
LEMMA StopUnregisterPreserves ==
  ASSUME Inductive, StopUnregister
  PROVE  Inductive'
<1> USE DEF source, callbacks, frontier, status, probe, thread, modes,
            Elsewhere, Round
<1>0. Typed /\ Frontier /\ Revisions /\ Covered /\ Fenced /\ Stopping /\ Views
  BY ZenonT(60) DEF Inductive
<1>e. /\ stop_pc = "closed" /\ stop_pc' = "fence" /\ registered' = FALSE
      /\ queue' = Append(queue, Fence("stop"))
      /\ UNCHANGED <<chain, pool, chain_generation, mempool_revision, service_mode, pushing, tickets, accepted, completed, ticket, pending, discarded, seen>>
      /\ UNCHANGED <<fenced, closed, stopping, joined, pc, published, ready>>
      /\ UNCHANGED <<gate, index, captured, applied_capture, bound>>
      /\ failed' = failed
  BY StopUnregister, ZenonT(60) DEF StopUnregister, failed
<1>q. Fence("stop") \in Entries
  BY ZenonT(60) DEF Fence, Entries
<1>1. Typed'
  BY <1>0, <1>e, <1>q, QueueAppends, ZenonT(60) DEF Typed
<1>2. Frontier'
  BY <1>0, <1>e, FrontierFrame, ZenonT(60)
<1>3. Revisions'
  <2>1. Fence("stop").kind # "callback"
    BY ZenonT(60) DEF Fence
  <2> QED BY <1>0, <1>e, <1>q, <2>1, RevisionsAppend, ZenonT(60)
<1>4. Covered'
  BY <1>0, <1>e, CoveredFrame, ZenonT(60)
<1>5. Fenced'
  BY <1>0, <1>e, ZenonT(60) DEF Fenced
<1>6. Stopping'
  BY <1>0, <1>e, ZenonT(60) DEF Stopping
<1>7. Views'
  BY <1>0, <1>e, ViewsFrame, ZenonT(60)
<1> QED BY <1>1, <1>2, <1>3, <1>4, <1>5, <1>6, <1>7, ZenonT(60) DEF Inductive

\* Past its fence, Stop tells the worker.
LEMMA StopSignalPreserves ==
  ASSUME Inductive, StopSignal
  PROVE  Inductive'
<1> USE DEF source, callbacks, frontier, status, probe, thread, modes,
            Elsewhere, Round
<1>0. Typed /\ Frontier /\ Revisions /\ Covered /\ Fenced /\ Stopping /\ Views
  BY ZenonT(60) DEF Inductive
<1>e. /\ stop_pc = "fence" /\ stop_pc' = "join" /\ "stop" \in fenced
      /\ UNCHANGED <<chain, pool, chain_generation, mempool_revision, service_mode, queue, pushing, tickets, accepted, completed, ticket, pending, discarded, seen>>
      /\ UNCHANGED <<registered, fenced, closed, joined, pc, published, ready>>
      /\ UNCHANGED <<gate, index, captured, applied_capture, bound>>
      /\ failed' = failed
  BY StopSignal, ZenonT(60) DEF StopSignal, StopPastFence, failed
<1>1. Typed'
  BY <1>0, <1>e, ZenonT(60) DEF Typed
<1>2. Frontier'
  BY <1>0, <1>e, FrontierFrame, ZenonT(60)
<1>3. Revisions'
  BY <1>0, <1>e, ZenonT(60) DEF Revisions
<1>4. Covered'
  BY <1>0, <1>e, CoveredFrame, ZenonT(60)
<1>5. Fenced'
  BY <1>0, <1>e, ZenonT(60) DEF Fenced
<1>6. Stopping'
  BY <1>0, <1>e, ZenonT(60) DEF Stopping
<1>7. Views'
  BY <1>0, <1>e, ViewsFrame, ZenonT(60)
<1> QED BY <1>1, <1>2, <1>3, <1>4, <1>5, <1>6, <1>7, ZenonT(60) DEF Inductive

\* The worker's thread is joined.
LEMMA StopJoinPreserves ==
  ASSUME Inductive, StopJoin
  PROVE  Inductive'
<1> USE DEF source, callbacks, frontier, status, probe, thread, modes,
            Elsewhere, Round
<1>0. Typed /\ Frontier /\ Revisions /\ Covered /\ Fenced /\ Stopping /\ Views
  BY ZenonT(60) DEF Inductive
<1>e. /\ stop_pc = "join" /\ stop_pc' = "done" /\ pc = "ended"
      /\ UNCHANGED <<chain, pool, chain_generation, mempool_revision, service_mode, queue, pushing, tickets, accepted, completed, ticket, pending, discarded, seen>>
      /\ UNCHANGED <<registered, fenced, closed, stopping, pc, published, ready>>
      /\ UNCHANGED <<gate, index, captured, applied_capture, bound>>
      /\ failed' = failed
  BY StopJoin, ZenonT(60) DEF StopJoin, failed
<1>1. Typed'
  BY <1>0, <1>e, ZenonT(60) DEF Typed
<1>2. Frontier'
  BY <1>0, <1>e, FrontierFrame, ZenonT(60)
<1>3. Revisions'
  BY <1>0, <1>e, ZenonT(60) DEF Revisions
<1>4. Covered'
  BY <1>0, <1>e, CoveredFrame, ZenonT(60)
<1>5. Fenced'
  BY <1>0, <1>e, ZenonT(60) DEF Fenced
<1>6. Stopping'
  BY <1>0, <1>e, ZenonT(60) DEF Stopping
<1>7. Views'
  BY <1>0, <1>e, ViewsFrame, ZenonT(60)
<1> QED BY <1>1, <1>2, <1>3, <1>4, <1>5, <1>6, <1>7, ZenonT(60) DEF Inductive

-----------------------------------------------------------------------------
(* The invariant holds.                                                    *)

\* The constructor establishes it, with its first capture or without.
LEMMA InitInductive ==
  ASSUME Init
  PROVE  Inductive
<1>1. PICK current \in {TRUE, ~service_mode} : Started(current)
  BY ZenonT(60) DEF Init
<1>2. Typed /\ Frontier /\ Revisions /\ Fenced /\ Stopping
  <2>1. Typed
    BY SMTT(60) DEF Init, NodeInit, Typed
  <2>2. Frontier
    BY SMTT(60) DEF Init, Frontier
  <2>3. Revisions
    BY SMTT(60) DEF Init, NodeInit, Revisions
  <2>4. Fenced /\ Stopping
    BY SMTT(60) DEF Init, Fenced, Stopping
  <2> QED BY <2>1, <2>2, <2>3, <2>4, ZenonT(60)
<1>3. Binding[4] = 1 /\ mempool_revision = 1
  BY ZenonT(60) DEF Init, NodeInit, Binding
<1>4. Covered
  BY <1>1, <1>3, SMTT(60) DEF Init, Started, Covered
<1>5. Views
  <2>1. IsGate(gate)
    BY <1>1, ZenonT(60) DEF Started, IsGate
  <2>2. gate.mode = Ready => gate.binding = Binding
    BY <1>1, ZenonT(60) DEF Started, Ready, Busy
  <2>3. index.chain = chain /\ index.overlay.txs = pool
    BY <1>1, ZenonT(60) DEF Started, OverlayOf
  <2>4. Shows(Binding, index.chain, index.overlay.txs)
    BY <1>3, <2>3, SMTT(60) DEF Shows
  <2>5. pc = "loop"
    BY ZenonT(60) DEF Init
  <2> QED BY <2>1, <2>2, <2>4, <2>5, ZenonT(60) DEF Views
<1> QED BY <1>2, <1>4, <1>5, ZenonT(60) DEF Inductive

\* A step of anyone, or of no one.
LEMMA StepPreserves ==
  ASSUME Inductive, [Next]_vars
  PROVE  Inductive'
<1>1. CASE ChangeSource BY <1>1, ChangeSourcePreserves, ZenonT(60)
<1>2. CASE Notify BY <1>2, NotifyPreserves, ZenonT(60)
<1>3. CASE QueueStep BY <1>3, DeliverPreserves, PushTicketPreserves, ZenonT(60) DEF QueueStep
<1>4. CASE ShutDown BY <1>4, ShutDownPreserves, ZenonT(60)
<1>5. CASE WorkerStep
  BY <1>5, LoopLeavePreserves, LoopTakePreserves, LoopPollPreserves,
     LoopFencedPreserves, CapturePreserves, ReadDiskPreserves, ApplyPreserves,
     PublishPreserves, AcknowledgePreserves, ThrowPreserves, TeardownPreserves, ZenonT(60)
  DEF WorkerStep
<1>6. CASE StopClose BY <1>6, StopClosePreserves, ZenonT(60)
<1>7. CASE StopStep
  BY <1>7, StopUnregisterPreserves, StopSignalPreserves, StopJoinPreserves, ZenonT(60)
  DEF StopStep
<1>8. CASE UNCHANGED vars
  <2> USE <1>8 DEF vars, source, callbacks, frontier, status, probe, thread,
                   modes, failed
  <2>0. Typed /\ Frontier /\ Revisions /\ Covered /\ Fenced /\ Stopping /\ Views
    BY ZenonT(60) DEF Inductive
  <2>1. Typed'
    BY <2>0, ZenonT(60) DEF Typed
  <2>2. Frontier'
    BY <2>0, FrontierFrame, ZenonT(60)
  <2>3. Revisions'
    BY <2>0, ZenonT(60) DEF Revisions
  <2>4. Covered'
    BY <2>0, CoveredFrame, ZenonT(60)
  <2>5. Fenced'
    BY <2>0, ZenonT(60) DEF Fenced
  <2>6. Stopping'
    BY <2>0, StoppingFrame, ZenonT(60)
  <2>7. Views'
    BY <2>0, ViewsFrame, ZenonT(60)
  <2> QED BY <2>1, <2>2, <2>3, <2>4, <2>5, <2>6, <2>7, ZenonT(60) DEF Inductive
<1> QED BY <1>1, <1>2, <1>3, <1>4, <1>5, <1>6, <1>7, <1>8, ZenonT(60) DEF Next

\* The strengthening that the theorems below are read off from.
LEMMA InductiveHolds == Spec => []Inductive
BY InitInductive, StepPreserves, PTL DEF Spec

(* The ticket frontier is exact whatever the capacity and the number of    *)
(* callbacks: what Push gave out and the worker did not acknowledge is     *)
(* pending, a strict worker's deque holds it in order, and neither of the  *)
(* two consistency checks of Run can fire.                                 *)
THEOREM FrontierExact == Spec => []FrontierIsExact
<1>1. ASSUME Inductive PROVE FrontierIsExact
  <2>1. Typed /\ Frontier
    BY <1>1, ZenonT(60) DEF Inductive
  <2>2. pc # "ended" => pending = accepted - completed
    BY <2>1, ZenonT(60) DEF Frontier, Running
  <2>3. ~service_mode /\ pc # "ended" =>
          tickets = [i \in 1 .. Len(tickets) |-> accepted - Len(tickets) + i]
    BY <2>1, SMTT(60) DEF Typed, Frontier, Running
  <2>4. ~OrderGap
    BY <2>1, SMTT(60) DEF Typed, Frontier, OrderGap
  <2>5. pc = "ack" => ~AccountingGap
    BY <2>1, <2>2, SMTT(60) DEF Typed, Frontier, AccountingGap
  <2> QED BY <2>2, <2>3, <2>4, <2>5, ZenonT(60) DEF FrontierIsExact
<1> QED BY <1>1, InductiveHolds, PTL

(* A ready worker has no accepted callback outstanding, and the view it    *)
(* announces was captured at or after the newest change that a callback    *)
(* spoke of.                                                               *)
THEOREM ReadyIsCovered == Spec => []ReadyCoversAccepted
<1>1. ASSUME Inductive PROVE ReadyCoversAccepted
  <2>1. Covered /\ Typed
    BY <1>1, ZenonT(60) DEF Inductive
  <2> QED BY <2>1, ZenonT(60) DEF Covered, ReadyCoversAccepted
<1> QED BY <1>1, InductiveHolds, PTL

(* When Stop has returned no callback runs or will run, the thread has     *)
(* ended, and each accepted ticket was completed or counted as discarded.  *)
THEOREM StopBarrier == Spec => []StopIsABarrier
<1>1. ASSUME Inductive PROVE StopIsABarrier
  <2>1. Fenced /\ Stopping
    BY <1>1, ZenonT(60) DEF Inductive
  <2> QED BY <2>1, ZenonT(60) DEF Fenced, Stopping, StopIsABarrier
<1> QED BY <1>1, InductiveHolds, PTL

(* The first failure and the occupancy it met are never overwritten,       *)
(* whichever of Push and the worker fails next (Fail).                     *)
THEOREM FirstFailureKept == Spec => FirstFailureIsKept
<1>1. ASSUME [Next]_vars
      PROVE  [failed => UNCHANGED <<failure, failure_pending>>]_vars
  <2> USE DEF status, Elsewhere, Round
  <2>1. ASSUME NEW why, Fail(why), failed
        PROVE  UNCHANGED <<failure, failure_pending>>
    BY <2>1, ZenonT(60) DEF Fail
  <2>2. CASE ChangeSource BY <2>2, ZenonT(60) DEF ChangeSource
  <2>3. CASE Notify BY <2>3, ZenonT(60) DEF Notify
  <2>4. CASE Deliver BY <2>4, ZenonT(60) DEF Deliver
  <2>5. CASE PushTicket BY <2>1, <2>5, ZenonT(60) DEF PushTicket
  <2>6. CASE ShutDown BY <2>6, ZenonT(60) DEF ShutDown
  <2>7. CASE LoopLeave BY <2>7, ZenonT(60) DEF LoopLeave
  <2>8. CASE LoopTake BY <2>8, ZenonT(60) DEF LoopTake
  <2>9. CASE LoopPoll BY <2>9, ZenonT(60) DEF LoopPoll
  <2>10. CASE LoopFenced BY <2>10, ZenonT(60) DEF LoopFenced
  <2>11. CASE Capture BY <2>11, ZenonT(60) DEF Capture
  <2>12. CASE ReadDisk BY <2>12, ZenonT(60) DEF ReadDisk
  <2>13. CASE Apply BY <2>13, ZenonT(60) DEF Apply
  <2>14. CASE Publish BY <2>14, ZenonT(60) DEF Publish
  <2>15. CASE Acknowledge BY <2>15, ZenonT(60) DEF Acknowledge
  <2>16. CASE Throw BY <2>1, <2>16, ZenonT(60) DEF Throw
  <2>17. CASE Teardown BY <2>17, ZenonT(60) DEF Teardown
  <2>18. CASE StopClose BY <2>18, ZenonT(60) DEF StopClose
  <2>19. CASE StopStep BY <2>19, ZenonT(60) DEF StopStep, StopUnregister, StopSignal, StopJoin
  <2> QED
    BY <1>1, <2>2, <2>3, <2>4, <2>5, <2>6, <2>7, <2>8, <2>9, <2>10, <2>11,
       <2>12, <2>13, <2>14, <2>15, <2>16, <2>17, <2>18, <2>19, ZenonT(60)
    DEF Next, QueueStep, WorkerStep
<1> QED BY <1>1, PTL DEF Spec, FirstFailureIsKept

\* A published view that carries the node's binding has its chain and pool.
PublishedViewIsCurrent ==
  gate.mode = Ready /\ gate.binding = Binding =>
    index.chain = chain /\ index.overlay.txs = pool

(* Whatever moves between the capture, the disk reads, the application and *)
(* the publication, a view published under the node's present binding is   *)
(* of the node's present chain and pool (apply_capture, publish_capture).  *)
THEOREM ViewIsCurrent == Spec => []PublishedViewIsCurrent
<1>1. ASSUME Inductive PROVE PublishedViewIsCurrent
  BY <1>1, ZenonT(60) DEF Inductive, Views, Shows, PublishedViewIsCurrent
<1> QED BY <1>1, InductiveHolds, PTL
=============================================================================
