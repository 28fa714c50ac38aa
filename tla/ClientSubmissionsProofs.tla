----------------------- MODULE ClientSubmissionsProofs -----------------------
(***************************************************************************)
(* Proofs about ClientSubmissions, for any clients, batches, limit and     *)
(* number of changes of the node: a ready receipt is true when it is       *)
(* given, and what the node accepted as a whole is not rejected.           *)
(***************************************************************************)
EXTENDS ClientSubmissions, SequenceTheorems, TLAPS

Places == {"new", "body", "lock", "tokens", "send", "promised", "sync",
           "syncing", "synced", "check", "read", "confirm", "done"}

IsGate(g) ==
  /\ g = [epoch |-> g.epoch, mode |-> g.mode, binding |-> g.binding]
  /\ g.epoch \in Nat

Entries == {Callback} \cup {Promise(c) : c \in Clients}

Typed ==
  /\ revision \in Nat /\ IsGate(gate) /\ queue \in Seq(Entries)
  /\ pc \in [Clients -> Places] /\ sending \in [Clients -> Nat \ {0}]
  /\ refusal \in [Clients -> BOOLEAN] /\ sent \in [Clients -> SUBSET Txs]
  /\ DOMAIN answer = Clients /\ answer = [c \in Clients |-> answer[c]]

\* A promise in the queue is the only one of a request that waits for it.
Waits ==
  \A c \in Clients : \A i \in 1 .. Len(queue) :
    queue[i] = Promise(c) =>
      /\ pc[c] \in {"promised", "syncing"}
      /\ \A j \in 1 .. Len(queue) : queue[j] = Promise(c) => j = i

\* A revision is of the past, or the transactions are those the node has.
Shows(r, txs) == r \in Nat /\ r <= revision /\ (r = revision => txs = Known)

Fresh ==
  /\ gate.mode = Ready =>
       gate.binding = <<gate.binding[1]>> /\ Shows(gate.binding[1], index)
  /\ wpc \in {"write", "publish"} => Shows(captured[2], captured[1])
  /\ wpc = "publish" => gate.mode # Ready /\ index = captured[1]

\* The lock a request holds keeps the index as it read it.
Held ==
  \A c \in Clients : pc[c] = "confirm" => c \in readers /\ Items(c) \subseteq index

\* No transaction is twice in a batch.
NoRepeats ==
  \A c \in Clients : \A i, j \in 1 .. Len(Batch[c]) :
    Batch[c][i] = Batch[c][j] => i = j

\* What was sent comes before what is to be sent; a refusal ends it.
Ordered ==
  \A c \in Clients :
    /\ pc[c] \in {"new", "body", "lock", "tokens"} => sending[c] = 1
    /\ \A t \in sent[c] : \E i \in 1 .. Len(Batch[c]) :
         i < sending[c] /\ t = Batch[c][i]
    /\ refusal[c] => /\ pc[c] \in {"sync", "syncing", "synced", "done"}
                     /\ NoRepeats => sent[c] = {} \/ sent[c] # Items(c)
    /\ answer[c] = "rejected" => refusal[c]

\* Every step of the node, the queue, the worker and a request preserves this.
Inductive == Typed /\ Waits /\ Fresh /\ Held /\ Ordered

-----------------------------------------------------------------------------
(* The gate and the queue.                                                 *)

\* begin, fail and close leave a gate that is not open; publish opens one
\* that is busy, for the binding it is given (ergon_service.rs).
LEMMA GateMoves ==
  ASSUME NEW g, IsGate(g)
  PROVE  /\ \A h \in {GateBegin(g), GateFail(g), GateClose(g)} :
              IsGate(h) /\ h.mode # Ready
         /\ \A e, b, h : h = GatePublish(g, e, b) =>
              IsGate(h) /\ (h = g \/ (h.mode = Ready /\ h.binding = b))
<1> USE DEF Ready, Busy, Failed, Closed
<1>0. PICK e, m, b : e \in Nat /\ g = [epoch |-> e, mode |-> m, binding |-> b]
  BY ZenonT(60) DEF IsGate
<1>1. ASSUME NEW x, NEW y
      PROVE  [g EXCEPT !.mode = x, !.binding = y]
               = [epoch |-> e, mode |-> x, binding |-> y]
  <2>1. PICK k : k = [g EXCEPT !.mode = x]
    BY ZenonT(60)
  <2>2. k = [epoch |-> e, mode |-> x, binding |-> b]
    BY <1>0, <2>1, ZenonT(60)
  <2>3. [k EXCEPT !.binding = y] = [epoch |-> e, mode |-> x, binding |-> y]
    BY <2>2, SMTT(60)
  <2> QED BY <2>1, <2>3, ZenonT(60)
<1>2. g.epoch = e /\ g.mode = m
  BY <1>0, ZenonT(60)
<1>3. ASSUME NEW n \in Nat, NEW x, NEW y
      PROVE  LET r == [epoch |-> n, mode |-> x, binding |-> y]
             IN  IsGate(r) /\ r.mode = x /\ r.binding = y
  BY ZenonT(60) DEF IsGate
<1>4. IsGate(GateBegin(g)) /\ GateBegin(g).mode # Ready
  <2>1. \/ GateBegin(g) = g /\ m \in {Failed, Closed}
        \/ GateBegin(g) = [epoch |-> e + 1, mode |-> Busy, binding |-> NoBinding]
        \/ GateBegin(g) = [epoch |-> e, mode |-> Failed, binding |-> NoBinding]
    BY <1>1, <1>2, ZenonT(60) DEF GateBegin, GateTerminal
  <2>2. e + 1 \in Nat
    BY <1>0, SMTT(60)
  <2> QED BY <1>0, <1>2, <1>3, <2>1, <2>2, SMTT(60)
<1>5. IsGate(GateFail(g)) /\ GateFail(g).mode # Ready
  <2>1. PICK x : x # Ready /\ x = IF m = Closed THEN Closed ELSE Failed
    BY SMTT(60)
  <2>2. GateFail(g) = [g EXCEPT !.mode = x, !.binding = NoBinding]
    BY <1>2, <2>1, ZenonT(60) DEF GateFail
  <2>3. GateFail(g) = [epoch |-> e, mode |-> x, binding |-> NoBinding]
    BY <1>1, <2>2, ZenonT(60)
  <2> QED BY <1>0, <1>3, <2>1, <2>3, SMTT(60)
<1>6. IsGate(GateClose(g)) /\ GateClose(g).mode # Ready
  <2>1. GateClose(g) = [epoch |-> e, mode |-> Closed, binding |-> NoBinding]
    BY <1>1, ZenonT(60) DEF GateClose
  <2> QED BY <1>0, <1>3, <2>1, SMTT(60)
<1>7. ASSUME NEW epo, NEW bind, NEW h, h = GatePublish(g, epo, bind)
      PROVE  IsGate(h) /\ (h = g \/ (h.mode = Ready /\ h.binding = bind))
  <2>1. h = g \/ h = [epoch |-> e, mode |-> Ready, binding |-> bind]
    BY <1>1, <1>7, ZenonT(60) DEF GatePublish
  <2> QED BY <1>0, <1>3, <2>1, SMTT(60)
<1> QED BY <1>4, <1>5, <1>6, <1>7, ZenonT(60)

\* A promise is not a callback, and is of one request.
LEMMA Promises ==
  \A c, d : Promise(c) # Callback /\ (Promise(c) = Promise(d) => c = d)
BY ZenonT(60) DEF Promise, Callback

\* A callback or a promise at the end of the queue.
LEMMA QueueGrows ==
  ASSUME NEW q \in Seq(Entries), NEW e \in Entries
  PROVE  /\ Append(q, e) \in Seq(Entries) /\ Len(q) \in Nat
         /\ Len(Append(q, e)) = Len(q) + 1 /\ Append(q, e)[Len(q) + 1] = e
         /\ \A i \in 1 .. Len(q) : Append(q, e)[i] = q[i]
BY AppendProperties, LenProperties, SMTT(60)

LEMMA QueueShrinks ==
  ASSUME NEW q \in Seq(Entries), q # <<>>
  PROVE  /\ Tail(q) \in Seq(Entries) /\ Len(q) \in Nat \ {0}
         /\ Len(Tail(q)) = Len(q) - 1 /\ Head(q) = q[1]
         /\ \A i \in 1 .. Len(q) - 1 : Tail(q)[i] = q[i + 1]
BY HeadTailProperties, EmptySeq, LenProperties, SMTT(60)

\* Two entries at once are one after the other.
LEMMA QueueTwice ==
  ASSUME NEW q \in Seq(Entries), NEW d \in Entries, NEW e \in Entries
  PROVE  q \o <<d, e>> = Append(Append(q, d), e)
BY SMTT(60)

-----------------------------------------------------------------------------
(* What is left alone.                                                     *)

Waiting == {"promised", "syncing"}
Early == {"new", "body", "lock", "tokens"}
Late == {"sync", "syncing", "synced", "done"}

LEMMA WaitsFrame ==
  ASSUME Waits, UNCHANGED queue,
         \A c \in Clients : pc[c] \in Waiting => pc'[c] \in Waiting
  PROVE  Waits'
BY ZenonT(60) DEF Waits, Waiting

LEMMA FreshFrame ==
  ASSUME Fresh, UNCHANGED <<pool, mined, revision, index, wpc, captured>>,
         gate' = gate \/ gate'.mode # Ready
  PROVE  Fresh'
BY ZenonT(60) DEF Fresh, Shows, Known

\* The node changes: what is published or captured is of the past.
LEMMA FreshAges ==
  ASSUME Fresh, revision \in Nat, revision' = revision + 1,
         UNCHANGED <<gate, index, wpc, captured>>
  PROVE  Fresh'
<1>1. \A r, txs : Shows(r, txs) => r \in Nat /\ r <= revision' /\ r # revision'
  BY SMTT(60) DEF Shows
<1> QED BY <1>1, ZenonT(60) DEF Fresh, Shows

LEMMA HeldFrame ==
  ASSUME Held, UNCHANGED index,
         \A c \in Clients : pc'[c] = "confirm" =>
           pc[c] = "confirm" /\ (c \in readers => c \in readers')
  PROVE  Held'
BY ZenonT(60) DEF Held, Items

LEMMA OrderedFrame ==
  ASSUME Ordered, UNCHANGED <<sending, sent, refusal>>,
         \A c \in Clients :
           /\ pc'[c] \in Early => pc[c] \in Early
           /\ refusal[c] /\ pc[c] \in Late => pc'[c] \in Late
           /\ answer'[c] = "rejected" => answer[c] = "rejected" \/ refusal[c]
  PROVE  Ordered'
BY ZenonT(60) DEF Ordered, Early, Late, NoRepeats, Items

\* A request moves, and no other does.
LEMMA Moves ==
  ASSUME Typed, NEW c \in Clients, NEW w \in Places, Go(c, w)
  PROVE  /\ pc' \in [Clients -> Places] /\ pc'[c] = w
         /\ \A d \in Clients : d # c => pc'[d] = pc[d]
BY ZenonT(60) DEF Typed, Go

Reply(c, a) == answer' = [answer EXCEPT ![c] = a]

LEMMA Answers ==
  ASSUME Typed, NEW c \in Clients, NEW w, Reply(c, w)
  PROVE  /\ DOMAIN answer' = Clients /\ answer' = [d \in Clients |-> answer'[d]]
         /\ answer'[c] = w
         /\ \A d \in Clients : d # c => answer'[d] = answer[d]
BY ZenonT(60) DEF Typed, Reply

-----------------------------------------------------------------------------
(* The node, the queue and the worker.                                     *)

LEMMA NativePreserves ==
  ASSUME Inductive, Native
  PROVE  Inductive'
<1>0. Typed /\ Waits /\ Fresh /\ Held /\ Ordered
  BY ZenonT(60) DEF Inductive
<1>1. /\ revision' = revision + 1 /\ queue' = Append(queue, Callback)
      /\ UNCHANGED <<gate, index, readers, wpc, captured, pc, sending, refusal,
                     answer, sent>>
  BY ZenonT(60) DEF Native, worker, request
<1>2. /\ queue \in Seq(Entries) /\ Callback \in Entries /\ revision \in Nat
  BY <1>0, ZenonT(60) DEF Typed, Entries
<1>3. /\ queue' \in Seq(Entries) /\ Len(queue) \in Nat
      /\ Len(queue') = Len(queue) + 1 /\ queue'[Len(queue) + 1] = Callback
      /\ \A i \in 1 .. Len(queue) : queue'[i] = queue[i]
  BY <1>1, <1>2, QueueGrows, ZenonT(60)
<1>4. Typed'
  BY <1>0, <1>1, <1>2, <1>3, SMTT(60) DEF Typed
<1>5. Waits'
  <2> SUFFICES ASSUME NEW c \in Clients, NEW i \in 1 .. Len(queue'),
                      queue'[i] = Promise(c)
               PROVE  /\ pc[c] \in {"promised", "syncing"}
                      /\ \A j \in 1 .. Len(queue') : queue'[j] = Promise(c) => j = i
    BY <1>1, ZenonT(60) DEF Waits
  <2>1. \A j \in 1 .. Len(queue') : queue'[j] = Promise(c) =>
          j \in 1 .. Len(queue) /\ queue[j] = Promise(c)
    BY <1>3, Promises, SMTT(60)
  <2> QED BY <1>0, <2>1, ZenonT(60) DEF Waits
<1>6. Fresh'
  BY <1>0, <1>1, <1>2, FreshAges, ZenonT(60)
<1>7. Held' /\ Ordered'
  BY <1>0, <1>1, HeldFrame, OrderedFrame, ZenonT(60)
<1> QED BY <1>4, <1>5, <1>6, <1>7, ZenonT(60) DEF Inductive

\* The front of the queue is done with.
LEMMA QueueTakes ==
  ASSUME Typed, Waits, queue # <<>>, queue' = Tail(queue), pc' \in [Clients -> Places],
         \A c \in Clients : pc'[c] = pc[c] \/ Head(queue) = Promise(c)
  PROVE  Waits' /\ queue' \in Seq(Entries)
<1>1. queue \in Seq(Entries)
  BY ZenonT(60) DEF Typed
<1>2. /\ queue' \in Seq(Entries) /\ Len(queue) \in Nat \ {0}
      /\ Len(queue') = Len(queue) - 1 /\ Head(queue) = queue[1]
      /\ \A i \in 1 .. Len(queue) - 1 : queue'[i] = queue[i + 1]
  BY <1>1, QueueShrinks, ZenonT(60)
<1>3. ASSUME NEW c \in Clients, NEW i \in 1 .. Len(queue'), queue'[i] = Promise(c)
      PROVE  /\ pc'[c] \in {"promised", "syncing"}
             /\ \A j \in 1 .. Len(queue') : queue'[j] = Promise(c) => j = i
  <2>1. \A j \in 1 .. Len(queue') : j + 1 \in 1 .. Len(queue) /\ queue'[j] = queue[j + 1]
    BY <1>2, SMTT(60)
  <2>2. queue[i + 1] = Promise(c) /\ i + 1 \in 1 .. Len(queue) /\ i + 1 # 1
    BY <1>3, <2>1, SMTT(60)
  <2>3. /\ pc[c] \in {"promised", "syncing"}
        /\ \A j \in 1 .. Len(queue) : queue[j] = Promise(c) => j = i + 1
    BY <2>2, ZenonT(60) DEF Waits
  <2>4. Head(queue) # Promise(c)
    BY <1>2, <2>2, <2>3, SMTT(60)
  <2>5. \A j \in 1 .. Len(queue') : queue'[j] = Promise(c) => j + 1 = i + 1
    BY <2>1, <2>3, ZenonT(60)
  <2>6. \A j \in 1 .. Len(queue') : j + 1 = i + 1 => j = i
    BY SMTT(60)
  <2> QED BY <2>3, <2>4, <2>5, <2>6, ZenonT(60)
<1> QED BY <1>2, <1>3, ZenonT(60) DEF Waits

LEMMA QueueStepPreserves ==
  ASSUME Inductive, QueueStep
  PROVE  Inductive'
<1>0. Typed /\ Waits /\ Fresh /\ Held /\ Ordered
  BY ZenonT(60) DEF Inductive
<1>1. CASE QueueCallback
  <2>1. /\ queue # <<>> /\ queue' = Tail(queue) /\ gate' = GateBegin(gate)
        /\ UNCHANGED <<pool, mined, revision, index, readers, wpc, captured, pc,
                       sending, refusal, answer, sent>>
    BY <1>1, ZenonT(60) DEF QueueCallback, node, worker, request
  <2>2. Waits' /\ queue' \in Seq(Entries)
    BY <1>0, <2>1, QueueTakes, ZenonT(60) DEF Typed
  <2>3. IsGate(gate') /\ gate'.mode # Ready
    BY <1>0, <2>1, GateMoves, ZenonT(60) DEF Typed
  <2>4. Typed'
    BY <1>0, <2>1, <2>2, <2>3, ZenonT(60) DEF Typed
  <2>5. Fresh' /\ Held' /\ Ordered'
    BY <1>0, <2>1, <2>3, FreshFrame, HeldFrame, OrderedFrame, ZenonT(60)
  <2> QED BY <2>2, <2>4, <2>5, ZenonT(60) DEF Inductive
<1>2. CASE QueuePromise
  <2>1. /\ queue # <<>> /\ queue' = Tail(queue)
        /\ UNCHANGED <<pool, mined, revision, gate, index, readers, wpc, captured,
                       sending, refusal, answer, sent>>
    BY <1>2, ZenonT(60) DEF QueuePromise, node, worker
  <2>2. PICK c \in Clients :
          /\ Head(queue) = Promise(c)
          /\ Go(c, CASE pc[c] = "promised" -> "send" [] pc[c] = "syncing" -> "synced")
    BY <1>2, ZenonT(60) DEF QueuePromise
  <2>3. pc[c] \in {"promised", "syncing"}
    <3>1. 1 \in 1 .. Len(queue) /\ queue[1] = Promise(c)
      BY <1>0, <2>1, <2>2, QueueShrinks, SMTT(60) DEF Typed
    <3> QED BY <1>0, <3>1, ZenonT(60) DEF Waits
  <2>4. PICK w : /\ w \in {"send", "synced"} /\ Go(c, w)
                 /\ (pc[c] = "syncing" => w = "synced")
    BY <2>2, <2>3, ZenonT(60)
  <2>5. /\ pc' \in [Clients -> Places] /\ pc'[c] = w
        /\ \A d \in Clients : d # c => pc'[d] = pc[d]
    BY <1>0, <2>4, Moves, ZenonT(60) DEF Places
  <2>6. Waits' /\ queue' \in Seq(Entries)
    BY <1>0, <2>1, <2>2, <2>5, QueueTakes, ZenonT(60)
  <2>7. Typed'
    BY <1>0, <2>1, <2>5, <2>6, ZenonT(60) DEF Typed
  <2>8. Fresh'
    BY <1>0, <2>1, FreshFrame, ZenonT(60)
  <2>9. Held'
    BY <1>0, <2>1, <2>4, <2>5, HeldFrame, ZenonT(60)
  <2>10. Ordered'
    BY <1>0, <2>1, <2>3, <2>4, <2>5, OrderedFrame, ZenonT(60) DEF Early, Late
  <2> QED BY <2>6, <2>7, <2>8, <2>9, <2>10, ZenonT(60) DEF Inductive
<1> QED BY <1>1, <1>2, ZenonT(60) DEF QueueStep

\* The worker captures, writes under the lock, and publishes what it wrote
\* if the node has not changed; Stop and a failure shut the gate.
LEMMA WorkerPreserves ==
  ASSUME Inductive, WorkerStep \/ Terminate
  PROVE  Inductive'
<1>0. Typed /\ Waits /\ Fresh /\ Held /\ Ordered
  BY ZenonT(60) DEF Inductive
<1>1. UNCHANGED <<pool, mined, revision, queue, readers, pc, sending, refusal,
                  answer, sent>>
  BY ZenonT(60) DEF WorkerStep, WorkerCapture, WorkerWrite, WorkerPublish, Terminate, node,
         worker, request
<1>2. Waits' /\ Ordered'
  BY <1>0, <1>1, WaitsFrame, OrderedFrame, ZenonT(60)
<1>3. CASE WorkerCapture
  <2>1. /\ UNCHANGED <<gate, index>> /\ wpc' = "write"
        /\ captured' = <<Known, revision>>
    BY <1>3, ZenonT(60) DEF WorkerCapture
  <2>2. Typed' /\ Held'
    BY <1>0, <1>1, <2>1, HeldFrame, ZenonT(60) DEF Typed
  <2>3. Fresh'
    BY <1>0, <1>1, <2>1, SMTT(60) DEF Fresh, Shows, Known, Typed
  <2> QED BY <1>2, <2>2, <2>3, ZenonT(60) DEF Inductive
<1>4. CASE WorkerWrite
  <2>1. /\ gate' = GateBegin(gate) /\ index' = captured[1] /\ readers = {}
        /\ wpc = "write" /\ wpc' = "publish" /\ UNCHANGED captured
    BY <1>4, ZenonT(60) DEF WorkerWrite
  <2>2. IsGate(gate') /\ gate'.mode # Ready
    BY <1>0, <2>1, GateMoves, ZenonT(60) DEF Typed
  <2>3. Typed'
    BY <1>0, <1>1, <2>2, ZenonT(60) DEF Typed
  <2>4. Held'
    BY <1>0, <1>1, <2>1, ZenonT(60) DEF Held
  <2>5. Fresh'
    BY <1>0, <1>1, <2>1, <2>2, ZenonT(60) DEF Fresh, Shows, Known
  <2> QED BY <1>2, <2>3, <2>4, <2>5, ZenonT(60) DEF Inductive
<1>5. CASE WorkerPublish
  <2>1. /\ UNCHANGED index /\ wpc = "publish" /\ wpc' = "idle"
        /\ \/ UNCHANGED gate
           \/ /\ captured[2] = revision
              /\ gate' = GatePublish(gate, epoch, <<revision>>)
    BY <1>5, ZenonT(60) DEF WorkerPublish
  <2>2. /\ IsGate(gate')
        /\ \/ UNCHANGED gate
           \/ /\ captured[2] = revision
              /\ gate'.mode = Ready /\ gate'.binding = <<revision>>
    <3>1. IsGate(gate)
      BY <1>0, ZenonT(60) DEF Typed
    <3>2. CASE UNCHANGED gate
      BY <3>1, <3>2, ZenonT(60)
    <3>3. CASE /\ captured[2] = revision
               /\ gate' = GatePublish(gate, epoch, <<revision>>)
      <4>1. PICK h : h = gate'
        BY ZenonT(60)
      <4>2. IsGate(h) /\ (h = gate \/ (h.mode = Ready /\ h.binding = <<revision>>))
        BY <3>1, <3>3, <4>1, GateMoves, SMTT(60)
      <4> QED BY <3>3, <4>1, <4>2, ZenonT(60)
    <3> QED BY <2>1, <3>2, <3>3, ZenonT(60)
  <2>3. Typed' /\ Held'
    BY <1>0, <1>1, <2>1, <2>2, HeldFrame, ZenonT(60) DEF Typed
  <2>4. index = captured[1] /\ Shows(captured[2], captured[1]) /\ gate.mode # Ready
    BY <1>0, <2>1, ZenonT(60) DEF Fresh
  <2>5. Fresh'
    BY <1>0, <1>1, <2>1, <2>2, <2>4, SMTT(60) DEF Fresh, Shows, Known
  <2> QED BY <1>2, <2>3, <2>5, ZenonT(60) DEF Inductive
<1>6. CASE Terminate
  <2>1. /\ UNCHANGED <<index, wpc, captured>>
        /\ gate' \in {GateClose(gate), GateFail(gate)}
    BY <1>6, ZenonT(60) DEF Terminate, worker
  <2>2. IsGate(gate') /\ gate'.mode # Ready
    BY <1>0, <2>1, GateMoves, SMTT(60) DEF Typed
  <2>3. Typed' /\ Held' /\ Fresh'
    BY <1>0, <1>1, <2>1, <2>2, HeldFrame, FreshFrame, ZenonT(60) DEF Typed
  <2> QED BY <1>2, <2>3, ZenonT(60) DEF Inductive
<1> QED BY <1>3, <1>4, <1>5, <1>6, ZenonT(60) DEF WorkerStep

-----------------------------------------------------------------------------
(* A request.                                                              *)

\* Steps of a request that send nothing, refuse nothing and wait for nothing.
LEMMA QuietPreserves ==
  ASSUME Inductive, NEW c \in Clients, NEW w \in Places, Go(c, w),
         UNCHANGED <<pool, mined, revision, queue, gate, index, wpc, captured,
                     sending, refusal, sent>>,
         \A d \in Clients \ {c} : d \in readers => d \in readers',
         pc[c] \notin Waiting,
         w = "confirm" => c \in readers' /\ Items(c) \subseteq index,
         w \in Early => pc[c] \in Early,
         refusal[c] => w \in Late,
         NEW a, UNCHANGED answer \/ Reply(c, a), a = "rejected" => refusal[c]
  PROVE  Inductive'
<1>0. Typed /\ Waits /\ Fresh /\ Held /\ Ordered
  BY ZenonT(60) DEF Inductive
<1>1. /\ pc' \in [Clients -> Places] /\ pc'[c] = w
      /\ \A d \in Clients : d # c => pc'[d] = pc[d]
  BY <1>0, Moves, ZenonT(60)
<1>2. /\ DOMAIN answer' = Clients /\ answer' = [d \in Clients |-> answer'[d]]
      /\ \A d \in Clients : answer'[d] = "rejected" =>
           answer[d] = "rejected" \/ refusal[d]
  <2>1. CASE UNCHANGED answer
    BY <1>0, <2>1, ZenonT(60) DEF Typed
  <2>2. CASE Reply(c, a)
    BY <1>0, <2>2, Answers, ZenonT(60)
  <2> QED BY <2>1, <2>2, ZenonT(60)
<1>3. Typed'
  BY <1>0, <1>1, <1>2, ZenonT(60) DEF Typed
<1>4. Waits'
  BY <1>0, <1>1, WaitsFrame, ZenonT(60)
<1>5. Fresh'
  BY <1>0, FreshFrame, ZenonT(60)
<1>6. Held'
  BY <1>0, <1>1, ZenonT(60) DEF Held, Items
<1>7. Ordered'
  BY <1>0, <1>1, <1>2, OrderedFrame, ZenonT(60)
<1> QED BY <1>3, <1>4, <1>5, <1>6, <1>7, ZenonT(60) DEF Inductive

\* Admission, the locks, the answers and the wait for the index.
LEMMA QuietSteps ==
  ASSUME Inductive, NEW c \in Clients,
         \/ Arrive(c) \/ Admit(c) \/ Lock(c) \/ SendDone(c) \/ Handled(c)
         \/ CheckView(c) \/ CheckRead(c) \/ CheckConfirm(c) \/ Pending(c)
  PROVE  Inductive'
<1>0. Typed /\ Waits /\ Fresh /\ Held /\ Ordered
  BY ZenonT(60) DEF Inductive
<1>1. refusal[c] => pc[c] \in Late
  BY <1>0, ZenonT(60) DEF Ordered, Late
<1> USE DEF Places, Waiting, Early, Late
<1>3. CASE Arrive(c)
  <2>1. /\ pc[c] = "new"
        /\ UNCHANGED <<pool, mined, revision, queue, gate, index, readers, wpc,
                       captured, sending, refusal, sent>>
        /\ \/ Go(c, "body") /\ UNCHANGED answer
           \/ Go(c, "done") /\ Reply(c, "busy")
    BY <1>3, ZenonT(60) DEF Arrive, Answer, Reply, node, worker
  <2>2. CASE Go(c, "body") /\ UNCHANGED answer
    BY <1>1, <2>1, <2>2, QuietPreserves, ZenonT(60)
  <2>3. CASE Go(c, "done") /\ Reply(c, "busy")
    BY <1>1, <2>1, <2>3, QuietPreserves, ZenonT(60)
  <2> QED BY <2>1, <2>2, <2>3, ZenonT(60)
<1>4. CASE Admit(c)
  <2>1. /\ pc[c] = "body"
        /\ UNCHANGED <<pool, mined, revision, queue, gate, index, readers, wpc,
                       captured, sending, refusal, sent>>
        /\ \/ Go(c, "lock") /\ UNCHANGED answer
           \/ Go(c, "done") /\ Reply(c, "refused")
           \/ Go(c, "done") /\ Reply(c, "unavailable")
    BY <1>4, ZenonT(60) DEF Admit, Answer, Reply, node, worker
  <2>2. CASE Go(c, "lock") /\ UNCHANGED answer
    BY <1>1, <2>1, <2>2, QuietPreserves, ZenonT(60)
  <2>3. CASE \E a \in {"refused", "unavailable"} :
               Go(c, "done") /\ Reply(c, a)
    <3>1. PICK a : /\ a # "rejected" /\ Go(c, "done")
                   /\ Reply(c, a)
      BY <2>3, ZenonT(60)
    <3> QED BY <1>1, <2>1, <3>1, QuietPreserves, ZenonT(60)
  <2> QED BY <2>1, <2>2, <2>3, ZenonT(60)
<1>5. CASE Lock(c)
  <2>1. /\ pc[c] = "lock" /\ Go(c, "tokens") /\ readers' = readers \cup {c}
        /\ UNCHANGED <<pool, mined, revision, queue, gate, index, wpc,
                       captured, sending, refusal, answer, sent>>
    BY <1>5, ZenonT(60) DEF Lock, node, worker
  <2> QED BY <1>1, <2>1, QuietPreserves, ZenonT(60)
<1>6. CASE SendDone(c)
  <2>1. /\ pc[c] = "send" /\ Go(c, "sync")
        /\ UNCHANGED <<pool, mined, revision, queue, gate, index, readers, wpc,
                       captured, sending, refusal, answer, sent>>
    BY <1>6, ZenonT(60) DEF SendDone, node, worker
  <2> QED BY <1>1, <2>1, QuietPreserves, ZenonT(60)
<1>7. CASE Handled(c)
  <2>1. /\ pc[c] = "synced"
        /\ UNCHANGED <<pool, mined, revision, queue, gate, index, readers, wpc,
                       captured, sending, refusal, sent>>
        /\ \/ /\ refusal[c] /\ Go(c, "done")
              /\ Reply(c, "rejected")
           \/ ~refusal[c] /\ Go(c, "check") /\ UNCHANGED answer
    BY <1>7, ZenonT(60) DEF Handled, Rejects, Answer, Reply, node, worker
  <2>2. CASE /\ refusal[c] /\ Go(c, "done")
             /\ Reply(c, "rejected")
    BY <2>1, <2>2, QuietPreserves, ZenonT(60)
  <2>3. CASE ~refusal[c] /\ Go(c, "check") /\ UNCHANGED answer
    BY <2>1, <2>3, QuietPreserves, ZenonT(60)
  <2> QED BY <2>1, <2>2, <2>3, ZenonT(60)
<1>8. CASE CheckView(c)
  <2>1. /\ pc[c] = "check" /\ Go(c, "read")
        /\ UNCHANGED <<pool, mined, revision, queue, gate, index, readers, wpc,
                       captured, sending, refusal, answer, sent>>
    BY <1>8, ZenonT(60) DEF CheckView, node, worker
  <2> QED BY <1>1, <2>1, QuietPreserves, ZenonT(60)
<1>9. CASE CheckRead(c)
  <2>1. /\ pc[c] = "read"
        /\ UNCHANGED <<pool, mined, revision, queue, gate, index, wpc,
                       captured, sending, refusal, answer, sent>>
        /\ \/ /\ Items(c) \subseteq index /\ Go(c, "confirm")
              /\ readers' = readers \cup {c}
           \/ Go(c, "check") /\ UNCHANGED readers
    BY <1>9, ZenonT(60) DEF CheckRead, node, worker
  <2>2. CASE /\ Items(c) \subseteq index /\ Go(c, "confirm")
             /\ readers' = readers \cup {c}
    BY <1>1, <2>1, <2>2, QuietPreserves, ZenonT(60)
  <2>3. CASE Go(c, "check") /\ UNCHANGED readers
    BY <1>1, <2>1, <2>3, QuietPreserves, ZenonT(60)
  <2> QED BY <2>1, <2>2, <2>3, ZenonT(60)
<1>10. CASE CheckConfirm(c)
  <2>1. /\ pc[c] = "confirm" /\ readers' = readers \ {c}
        /\ UNCHANGED <<pool, mined, revision, queue, gate, index, wpc,
                       captured, sending, refusal, sent>>
        /\ \/ Go(c, "done") /\ Reply(c, "ready")
           \/ Go(c, "check") /\ UNCHANGED answer
    BY <1>10, ZenonT(60) DEF CheckConfirm, Answer, Reply, node, worker
  <2>2. CASE Go(c, "done") /\ Reply(c, "ready")
    BY <1>1, <2>1, <2>2, QuietPreserves, ZenonT(60)
  <2>3. CASE Go(c, "check") /\ UNCHANGED answer
    BY <1>1, <2>1, <2>3, QuietPreserves, ZenonT(60)
  <2> QED BY <2>1, <2>2, <2>3, ZenonT(60)
<1>11. CASE Pending(c)
  <2>1. /\ pc[c] \in {"check", "read"}
        /\ UNCHANGED <<pool, mined, revision, queue, gate, index, readers, wpc,
                       captured, sending, refusal, sent>>
        /\ Go(c, "done") /\ Reply(c, "pending")
    BY <1>11, ZenonT(60) DEF Pending, Answer, Reply, node, worker
  <2>2. pc[c] \notin Waiting /\ ~refusal[c]
    BY <1>1, <2>1, ZenonT(60)
  <2> QED BY <2>1, <2>2, QuietPreserves, ZenonT(60)
<1> QED
  BY <1>3, <1>4, <1>5, <1>6, <1>7, <1>8, <1>9, <1>10, <1>11, ZenonT(60)

\* The checks come before anything is sent.
LEMMA TokenChecksPreserves ==
  ASSUME Inductive, NEW c \in Clients, TokenChecks(c)
  PROVE  Inductive'
<1>0. Typed /\ Waits /\ Fresh /\ Held /\ Ordered
  BY ZenonT(60) DEF Inductive
<1>1. /\ pc[c] = "tokens" /\ refusal' = [refusal EXCEPT ![c] = Burns(c)]
      /\ Go(c, IF Burns(c) THEN "sync" ELSE "send")
      /\ UNCHANGED <<pool, mined, revision, queue, gate, index, readers, wpc,
                     captured, sending, answer, sent>>
  BY ZenonT(60) DEF TokenChecks, node, worker
<1>2. PICK w \in Places : /\ w \in {"sync", "send"} /\ Go(c, w)
                          /\ (Burns(c) => w = "sync")
  BY <1>1, ZenonT(60) DEF Places
<1>3. /\ pc' \in [Clients -> Places] /\ pc'[c] = w
      /\ \A d \in Clients : d # c => pc'[d] = pc[d]
  BY <1>0, <1>2, Moves, ZenonT(60)
<1>4. /\ refusal' \in [Clients -> BOOLEAN] /\ refusal'[c] = Burns(c)
      /\ \A d \in Clients : d # c => refusal'[d] = refusal[d]
  BY <1>0, <1>1, ZenonT(60) DEF Typed, Burns
<1>5. Typed'
  BY <1>0, <1>1, <1>3, <1>4, ZenonT(60) DEF Typed
<1>6. Waits' /\ Fresh' /\ Held'
  <2>1. Waits'
    BY <1>0, <1>1, <1>3, WaitsFrame, ZenonT(60) DEF Waiting
  <2>2. Fresh'
    BY <1>0, <1>1, FreshFrame, ZenonT(60)
  <2>3. Held'
    BY <1>0, <1>1, <1>2, <1>3, HeldFrame, ZenonT(60)
  <2> QED BY <2>1, <2>2, <2>3, ZenonT(60)
<1>7. sending[c] = 1 /\ sent[c] = {} /\ ~refusal[c] /\ answer[c] # "rejected"
  BY <1>0, <1>1, SMTT(60) DEF Ordered
<1>8. Ordered'
  <2> SUFFICES ASSUME NEW d \in Clients
               PROVE  /\ pc'[d] \in Early => sending[d] = 1
                      /\ \A t \in sent[d] : \E i \in 1 .. Len(Batch[d]) :
                           i < sending[d] /\ t = Batch[d][i]
                      /\ refusal'[d] =>
                           /\ pc'[d] \in Late
                           /\ NoRepeats => sent[d] = {} \/ sent[d] # Items(d)
                      /\ answer[d] = "rejected" => refusal'[d]
    BY <1>1, SMTT(60) DEF Ordered, Early, Late
  <2>1. CASE d = c
    BY <1>2, <1>3, <1>4, <1>7, <2>1, ZenonT(60) DEF Early, Late
  <2>2. CASE d # c
    BY <1>0, <1>3, <1>4, <2>2, ZenonT(60) DEF Ordered, Early, Late
  <2> QED BY <2>1, <2>2, ZenonT(60)
<1> QED BY <1>5, <1>6, <1>8, ZenonT(60) DEF Inductive

\* A promise of a request that has none joins the queue.
LEMMA PromiseJoins ==
  ASSUME NEW q \in Seq(Entries), NEW c \in Clients,
         \A i \in 1 .. Len(queue) : queue[i] # Promise(c),
         Typed, Waits, pc' \in [Clients -> Places], pc'[c] \in Waiting,
         \A d \in Clients : d # c => pc'[d] = pc[d],
         Len(q) \in {Len(queue), Len(queue) + 1},
         \A i \in 1 .. Len(queue) : q[i] = queue[i],
         \A i \in 1 .. Len(q) : i \in 1 .. Len(queue) \/ q[i] = Callback,
         queue' = Append(q, Promise(c))
  PROVE  Waits' /\ queue' \in Seq(Entries)
<1>1. Promise(c) \in Entries
  BY ZenonT(60) DEF Entries
<1>2. /\ queue' \in Seq(Entries) /\ Len(q) \in Nat
      /\ Len(queue') = Len(q) + 1 /\ queue'[Len(q) + 1] = Promise(c)
      /\ \A i \in 1 .. Len(q) : queue'[i] = q[i]
  BY <1>1, QueueGrows, ZenonT(60)
<1>3. \A d \in Clients : \A i \in 1 .. Len(queue') : queue'[i] = Promise(d) =>
        \/ d = c /\ i = Len(q) + 1
        \/ d # c /\ i \in 1 .. Len(queue) /\ queue[i] = Promise(d)
  BY <1>2, Promises, SMTT(60)
<1>4. ASSUME NEW d \in Clients, NEW i \in 1 .. Len(queue'), queue'[i] = Promise(d)
      PROVE  /\ pc'[d] \in {"promised", "syncing"}
             /\ \A j \in 1 .. Len(queue') : queue'[j] = Promise(d) => j = i
  <2>1. CASE d = c
    BY <1>3, <1>4, <2>1, ZenonT(60) DEF Waiting
  <2>2. CASE d # c
    BY <1>3, <1>4, <2>2, ZenonT(60) DEF Waits
  <2> QED BY <2>1, <2>2, ZenonT(60)
<1> QED BY <1>2, <1>4, ZenonT(60) DEF Waits

\* The lock is dropped and the queue is waited for.
LEMMA SyncPreserves ==
  ASSUME Inductive, NEW c \in Clients, Sync(c)
  PROVE  Inductive'
<1>0. Typed /\ Waits /\ Fresh /\ Held /\ Ordered
  BY ZenonT(60) DEF Inductive
<1>1. /\ pc[c] = "sync" /\ readers' = readers \ {c} /\ Go(c, "syncing")
      /\ queue' = Append(queue, Promise(c))
      /\ UNCHANGED <<pool, mined, revision, gate, index, wpc, captured, sending,
                     refusal, answer, sent>>
  BY ZenonT(60) DEF Sync, Unlocked, node, worker
<1>2. /\ pc' \in [Clients -> Places] /\ pc'[c] = "syncing"
      /\ \A d \in Clients : d # c => pc'[d] = pc[d]
  BY <1>0, <1>1, Moves, ZenonT(60) DEF Places
<1>3. \A i \in 1 .. Len(queue) : queue[i] # Promise(c)
  BY <1>0, <1>1, ZenonT(60) DEF Waits
<1>4. Waits' /\ queue' \in Seq(Entries)
  <2>1. queue \in Seq(Entries) /\ pc'[c] \in Waiting
    BY <1>0, <1>2, ZenonT(60) DEF Typed, Waiting
  <2> QED BY <1>0, <1>1, <1>2, <1>3, <2>1, PromiseJoins, ZenonT(60)
<1>5. Typed'
  BY <1>0, <1>1, <1>2, <1>4, ZenonT(60) DEF Typed
<1>6. Fresh'
  BY <1>0, <1>1, FreshFrame, ZenonT(60)
<1>7. Held'
  BY <1>0, <1>1, <1>2, HeldFrame, ZenonT(60)
<1>8. Ordered'
  BY <1>0, <1>1, <1>2, OrderedFrame, ZenonT(60) DEF Early, Late
<1> QED BY <1>4, <1>5, <1>6, <1>7, <1>8, ZenonT(60) DEF Inductive

\* The next transaction is refused, is in the pool already, or is accepted.
LEMMA SendPreserves ==
  ASSUME Inductive, NEW c \in Clients, Send(c)
  PROVE  Inductive'
<1>0. Typed /\ Waits /\ Fresh /\ Held /\ Ordered
  BY ZenonT(60) DEF Inductive
<1> DEFINE n == sending[c]
           t == Batch[c][n]
<1>1. /\ pc[c] = "send" /\ n <= Len(Batch[c])
      /\ UNCHANGED <<gate, index, readers, wpc, captured, answer>>
  BY ZenonT(60) DEF Send, worker
<1>2. n \in 1 .. Len(Batch[c]) /\ Len(Batch[c]) \in Nat
  <2>1. Batch[c] \in Seq(Txs)
    BY SubmissionAssumption, ZenonT(60)
  <2> QED BY <1>0, <1>1, <2>1, LenProperties, SMTT(60) DEF Typed
<1>3. t \in Txs /\ t \in Items(c)
  <2>1. Batch[c] \in Seq(Txs)
    BY SubmissionAssumption, ZenonT(60)
  <2>2. t \in Txs
    BY <1>2, <2>1, ElementOfSeq, ZenonT(60)
  <2> QED BY <1>2, <2>2, ZenonT(60) DEF Items
<1>4. ~refusal[c] /\ answer[c] # "rejected"
  BY <1>0, <1>1, ZenonT(60) DEF Ordered
<1>5. NoRepeats => sent[c] # Items(c)
  <2> SUFFICES ASSUME NoRepeats, t \in sent[c] PROVE FALSE
    BY <1>3, ZenonT(60)
  <2>1. PICK i \in 1 .. Len(Batch[c]) : i < n /\ t = Batch[c][i]
    BY <1>0, ZenonT(60) DEF Ordered
  <2>2. i = n
    BY <1>2, <2>1, ZenonT(60) DEF NoRepeats
  <2> QED BY <1>2, <2>1, <2>2, SMTT(60)
<1>6. sending \in [Clients -> Nat \ {0}]
  BY <1>0, ZenonT(60) DEF Typed
<1> HIDE DEF t
<1>7. CASE /\ refusal' = [refusal EXCEPT ![c] = TRUE]
           /\ Go(c, "sync")
           /\ UNCHANGED <<pool, mined, revision, queue, sending, sent>>
  <2>1. /\ pc' \in [Clients -> Places] /\ pc'[c] = "sync"
        /\ \A d \in Clients : d # c => pc'[d] = pc[d]
    BY <1>0, <1>7, Moves, ZenonT(60) DEF Places
  <2>2. /\ refusal' \in [Clients -> BOOLEAN]
        /\ \A d \in Clients : d # c => refusal'[d] = refusal[d]
    BY <1>0, <1>7, ZenonT(60) DEF Typed
  <2>3. Typed'
    BY <1>0, <1>1, <1>7, <2>1, <2>2, ZenonT(60) DEF Typed
  <2>4. Waits'
    BY <1>0, <1>1, <1>7, <2>1, WaitsFrame, ZenonT(60) DEF Waiting
  <2>5. Fresh'
    BY <1>0, <1>1, <1>7, FreshFrame, ZenonT(60)
  <2>6. Held'
    BY <1>0, <1>1, <2>1, HeldFrame, ZenonT(60)
  <2>7. Ordered'
    <3> SUFFICES ASSUME NEW d \in Clients
                 PROVE  /\ pc'[d] \in Early => sending[d] = 1
                        /\ \A u \in sent[d] : \E i \in 1 .. Len(Batch[d]) :
                             i < sending[d] /\ u = Batch[d][i]
                        /\ refusal'[d] =>
                             /\ pc'[d] \in Late
                             /\ NoRepeats => sent[d] = {} \/ sent[d] # Items(d)
                        /\ answer[d] = "rejected" => refusal'[d]
      BY <1>1, <1>7, SMTT(60) DEF Ordered, Early, Late
    <3>1. CASE d = c
      BY <1>0, <1>4, <1>5, <2>1, <3>1, ZenonT(60) DEF Ordered, Early, Late
    <3>2. CASE d # c
      BY <1>0, <2>1, <2>2, <3>2, ZenonT(60) DEF Ordered, Early, Late
    <3> QED BY <3>1, <3>2, ZenonT(60)
  <2> QED BY <2>3, <2>4, <2>5, <2>6, <2>7, ZenonT(60) DEF Inductive
<1>8. CASE /\ sending' = [sending EXCEPT ![c] = @ + 1]
           /\ UNCHANGED <<pool, mined, revision, queue, pc, refusal, sent>>
  <2>1. /\ sending' \in [Clients -> Nat \ {0}] /\ sending'[c] = n + 1
        /\ \A d \in Clients : d # c => sending'[d] = sending[d]
    BY <1>6, <1>8, SMTT(60)
  <2>2. Typed'
    BY <1>0, <1>1, <1>8, <2>1, ZenonT(60) DEF Typed
  <2>3. Waits' /\ Fresh' /\ Held'
    BY <1>0, <1>1, <1>8, WaitsFrame, FreshFrame, HeldFrame, ZenonT(60)
  <2>4. Ordered'
    <3> SUFFICES ASSUME NEW d \in Clients
                 PROVE  /\ pc[d] \in Early => sending'[d] = 1
                        /\ \A u \in sent[d] : \E i \in 1 .. Len(Batch[d]) :
                             i < sending'[d] /\ u = Batch[d][i]
                        /\ refusal[d] =>
                             /\ pc[d] \in Late
                             /\ NoRepeats => sent[d] = {} \/ sent[d] # Items(d)
                        /\ answer[d] = "rejected" => refusal[d]
      BY <1>1, <1>8, ZenonT(60) DEF Ordered, Early, Late
    <3>1. CASE d = c
      <4>1. \A i \in 1 .. Len(Batch[c]) : i < n => i < sending'[c]
        BY <1>2, <2>1, SMTT(60)
      <4> QED BY <1>0, <1>1, <1>4, <3>1, <4>1, ZenonT(60) DEF Ordered, Early
    <3>2. CASE d # c
      BY <1>0, <2>1, <3>2, ZenonT(60) DEF Ordered, Early, Late
    <3> QED BY <3>1, <3>2, ZenonT(60)
  <2> QED BY <2>2, <2>3, <2>4, ZenonT(60) DEF Inductive
<1>9. CASE /\ revision' = revision + 1
           /\ queue' = queue \o <<Callback, Promise(c)>>
           /\ sent' = [sent EXCEPT ![c] = @ \cup {t}]
           /\ sending' = [sending EXCEPT ![c] = @ + 1]
           /\ Go(c, "promised") /\ UNCHANGED refusal
  <2>1. /\ sending' \in [Clients -> Nat \ {0}] /\ sending'[c] = n + 1
        /\ \A d \in Clients : d # c => sending'[d] = sending[d]
    BY <1>6, <1>9, SMTT(60)
  <2>2. /\ pc' \in [Clients -> Places] /\ pc'[c] = "promised"
        /\ \A d \in Clients : d # c => pc'[d] = pc[d]
    BY <1>0, <1>9, Moves, ZenonT(60) DEF Places
  <2>3. /\ sent' \in [Clients -> SUBSET Txs] /\ sent'[c] = sent[c] \cup {t}
        /\ \A d \in Clients : d # c => sent'[d] = sent[d]
    BY <1>0, <1>3, <1>9, ZenonT(60) DEF Typed
  <2>4. Waits' /\ queue' \in Seq(Entries)
    <3>1. queue \in Seq(Entries) /\ Callback \in Entries /\ Promise(c) \in Entries
      BY <1>0, ZenonT(60) DEF Typed, Entries
    <3> DEFINE q == Append(queue, Callback)
    <3>2. /\ q \in Seq(Entries) /\ Len(queue) \in Nat
          /\ Len(q) = Len(queue) + 1 /\ q[Len(queue) + 1] = Callback
          /\ \A i \in 1 .. Len(queue) : q[i] = queue[i]
      BY <3>1, QueueGrows, ZenonT(60)
    <3>3. queue' = Append(q, Promise(c))
      BY <1>9, <3>1, QueueTwice, ZenonT(60)
    <3> HIDE DEF q
    <3>4. \A i \in 1 .. Len(q) : i \in 1 .. Len(queue) \/ q[i] = Callback
      BY <3>2, SMTT(60)
    <3>5. \A i \in 1 .. Len(queue) : queue[i] # Promise(c)
      BY <1>0, <1>1, ZenonT(60) DEF Waits
    <3>6. pc'[c] \in Waiting
      BY <2>2, ZenonT(60) DEF Waiting
    <3> QED BY <1>0, <2>2, <3>2, <3>3, <3>4, <3>5, <3>6, PromiseJoins, ZenonT(60)
  <2>5. revision \in Nat /\ revision' \in Nat
    BY <1>0, <1>9, SMTT(60) DEF Typed
  <2>6. Typed'
    BY <1>0, <1>1, <1>9, <2>1, <2>2, <2>3, <2>4, <2>5, ZenonT(60) DEF Typed
  <2>7. Fresh'
    BY <1>0, <1>1, <1>9, <2>5, FreshAges, ZenonT(60)
  <2>8. Held'
    BY <1>0, <1>1, <2>2, HeldFrame, ZenonT(60)
  <2>9. Ordered'
    <3> SUFFICES ASSUME NEW d \in Clients
                 PROVE  /\ pc'[d] \in Early => sending'[d] = 1
                        /\ \A u \in sent'[d] : \E i \in 1 .. Len(Batch[d]) :
                             i < sending'[d] /\ u = Batch[d][i]
                        /\ refusal[d] =>
                             /\ pc'[d] \in Late
                             /\ NoRepeats => sent'[d] = {} \/ sent'[d] # Items(d)
                        /\ answer[d] = "rejected" => refusal[d]
      BY <1>1, <1>9, ZenonT(60) DEF Ordered, Early, Late
    <3>1. CASE d = c
      <4>1. \A i \in 1 .. Len(Batch[c]) : i < n => i < sending'[c]
        BY <1>2, <2>1, SMTT(60)
      <4>2. n < sending'[c] /\ n \in 1 .. Len(Batch[c]) /\ t = Batch[c][n]
        BY <1>2, <2>1, SMTT(60) DEF t
      <4>3. \A u \in sent'[c] : \E i \in 1 .. Len(Batch[c]) :
              i < sending'[c] /\ u = Batch[c][i]
        BY <1>0, <2>3, <4>1, <4>2, SMTT(60) DEF Ordered
      <4> QED BY <1>4, <2>2, <3>1, <4>3, ZenonT(60) DEF Early
    <3>2. CASE d # c
      BY <1>0, <2>1, <2>2, <2>3, <3>2, SMTT(60) DEF Ordered, Early, Late
    <3> QED BY <3>1, <3>2, ZenonT(60)
  <2> QED BY <2>4, <2>6, <2>7, <2>8, <2>9, ZenonT(60) DEF Inductive
<1> QED BY <1>7, <1>8, <1>9, ZenonT(60) DEF Send, node, t

-----------------------------------------------------------------------------
(* The theorems.                                                           *)

LEMMA InitInductive == Init => Inductive
<1> SUFFICES ASSUME Init PROVE Inductive
  BY ZenonT(60)
<1>1. Typed
  <2>1. IsGate(gate) /\ queue \in Seq(Entries)
    BY SMTT(60) DEF Init, IsGate
  <2> QED BY <2>1, SMTT(60) DEF Init, Typed, Places
<1>2. Waits
  BY SMTT(60) DEF Init, Waits
<1>3. Fresh
  BY SMTT(60) DEF Init, Fresh, Shows, Known, Ready
<1>4. Held /\ Ordered
  BY ZenonT(60) DEF Init, Held, Ordered
<1> QED BY <1>1, <1>2, <1>3, <1>4, ZenonT(60) DEF Inductive

LEMMA StepPreserves == Inductive /\ [Next]_vars => Inductive'
<1> SUFFICES ASSUME Inductive, [Next]_vars PROVE Inductive'
  BY ZenonT(60)
<1>1. CASE UNCHANGED vars
  <2>0. Typed /\ Waits /\ Fresh /\ Held /\ Ordered
    BY ZenonT(60) DEF Inductive
  <2>1. UNCHANGED <<pool, mined, revision, queue, gate, index, readers, wpc,
                    captured, pc, sending, refusal, answer, sent>>
    BY <1>1, ZenonT(60) DEF vars, node, worker, request
  <2>2. Typed'
    BY <2>0, <2>1, ZenonT(60) DEF Typed
  <2>3. Waits' /\ Fresh' /\ Held' /\ Ordered'
    BY <2>0, <2>1, WaitsFrame, FreshFrame, HeldFrame, OrderedFrame, ZenonT(60)
  <2> QED BY <2>2, <2>3, ZenonT(60) DEF Inductive
<1>2. CASE Native BY <1>2, NativePreserves, ZenonT(60)
<1>3. CASE QueueStep BY <1>3, QueueStepPreserves, ZenonT(60)
<1>4. CASE WorkerStep \/ Terminate BY <1>4, WorkerPreserves, ZenonT(60)
<1>5. CASE \E c \in Clients : Arrive(c) \/ RequestStep(c)
  <2>1. PICK c \in Clients : Arrive(c) \/ RequestStep(c)
    BY <1>5, ZenonT(60)
  <2>2. CASE TokenChecks(c) BY <2>2, TokenChecksPreserves, ZenonT(60)
  <2>3. CASE Send(c) BY <2>3, SendPreserves, ZenonT(60)
  <2>4. CASE Sync(c) BY <2>4, SyncPreserves, ZenonT(60)
  <2>5. CASE \/ Arrive(c) \/ Admit(c) \/ Lock(c) \/ SendDone(c) \/ Handled(c)
             \/ CheckView(c) \/ CheckRead(c) \/ CheckConfirm(c) \/ Pending(c)
    BY <2>5, QuietSteps, ZenonT(60)
  <2> QED BY <2>1, <2>2, <2>3, <2>4, <2>5, ZenonT(60) DEF RequestStep
<1> QED BY <1>1, <1>2, <1>3, <1>4, <1>5, ZenonT(60) DEF Next

LEMMA AlwaysInductive == Spec => []Inductive
BY InitInductive, StepPreserves, PTL DEF Spec

(* A batch without repeats that the node accepted as a whole is never      *)
(* answered with a rejection: the transactions are sent in order, the      *)
(* first refusal ends the sending (broadcast_txs), and only a refusal is   *)
(* answered with one (handle_broadcast_txs).                               *)
THEOREM AcceptedIsKept ==
  ASSUME NoRepeats
  PROVE  Spec => []AcceptedBatchIsNotRejected
<1>1. Inductive => AcceptedBatchIsNotRejected
  BY ZenonT(60) DEF Inductive, Ordered, AcceptedBatchIsNotRejected
<1> QED BY <1>1, AlwaysInductive, PTL

\* A receipt is given under the lock, for a view that is the node's.
LEMMA ReceiptIsTrue ==
  ASSUME Inductive, NEW c \in Clients, CheckConfirm(c), Confirms(view[c])
  PROVE  gate.mode = Ready /\ Items(c) \subseteq index /\ Items(c) \subseteq Known
<1>1. Fresh /\ Held /\ revision \in Nat
  BY ZenonT(60) DEF Inductive, Typed
<1>2. /\ view[c] # NoPermit /\ GatePermit(gate) = view[c]
      /\ view[c][2] = <<revision>>
  BY ZenonT(60) DEF Confirms, Current, GateAdmits
<1>3. gate.mode = Ready /\ gate.binding = <<revision>>
  BY <1>2, SMTT(60) DEF GatePermit, NoPermit
<1>4. gate.binding[1] = revision
  BY <1>3, SMTT(60)
<1>5. index = Known
  BY <1>1, <1>3, <1>4, ZenonT(60) DEF Fresh, Shows
<1>6. Items(c) \subseteq index
  BY <1>1, ZenonT(60) DEF CheckConfirm, Held
<1> QED BY <1>3, <1>5, <1>6, ZenonT(60)

(* A ready receipt is true when it is given: the gate is open, and the     *)
(* index and the node both have every transaction of the batch.  The       *)
(* receipt is given with the indexer's lock held since the index was read, *)
(* and the view is asked for again under it (admit).                       *)
THEOREM ReceiptsAreTrue == Spec => ReadyReceiptIsTrue
<1> DEFINE Gives(c) == answer[c] # "ready" /\ answer'[c] = "ready"
           True(c) ==
             gate.mode = Ready /\ Items(c) \subseteq index /\ Items(c) \subseteq Known
<1>1. Inductive /\ [Next]_vars => [\A c \in Clients : Gives(c) => True(c)]_vars
  <2> SUFFICES ASSUME Inductive, Next, NEW c \in Clients, Gives(c)
               PROVE  True(c)
    BY ZenonT(60)
  <2>0. Typed
    BY ZenonT(60) DEF Inductive
  <2>1. ~UNCHANGED answer
    BY ZenonT(60)
  <2>2. PICK d \in Clients : Arrive(d) \/ RequestStep(d)
    BY <2>1, ZenonT(60) DEF Next, Native, QueueStep, QueueCallback, QueuePromise, WorkerStep,
                WorkerCapture, WorkerWrite, WorkerPublish, Terminate, request
  <2>3. \A a : Reply(d, a) => a = "ready" /\ d = c
    BY <2>0, Answers, SMTT(60)
  <2>4. CASE CheckConfirm(d)
    <3>1. Confirms(view[d]) /\ d = c
      BY <2>1, <2>3, <2>4, ZenonT(60) DEF CheckConfirm, Answer, Reply
    <3> QED BY <2>4, <3>1, ReceiptIsTrue, ZenonT(60)
  <2>5. ASSUME ~CheckConfirm(d) PROVE FALSE
    BY <2>1, <2>2, <2>3, <2>5, ZenonT(60)
       DEF Arrive, RequestStep, Admit, Lock, TokenChecks, Send, SendDone, Sync,
           Handled, CheckView, CheckRead, Pending, Answer, Reply
  <2> QED BY <2>4, <2>5, ZenonT(60)
<1> QED BY <1>1, AlwaysInductive, PTL DEF Spec, ReadyReceiptIsTrue
=============================================================================
