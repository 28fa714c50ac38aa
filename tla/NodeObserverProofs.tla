------------------------- MODULE NodeObserverProofs -------------------------
(***************************************************************************)
(* Theorems about NodeObserver, for every set of clients, every chain and  *)
(* every bound.  Inductive is shown to be inductive conjunct by conjunct;  *)
(* the safety properties follow from it.                                   *)
(***************************************************************************)
EXTENDS NodeObserver, SequenceTheorems, FiniteSetTheorems, TLAPS

(***************************************************************************)
(* Chains, the index that holds one, and what is looked up in it.          *)
(***************************************************************************)

\* A prefix is a sequence, of the given length, with the same elements.
LEMMA PrefixOf ==
  ASSUME NEW S, NEW t \in Seq(S), NEW n \in 0 .. Len(t)
  PROVE  /\ SubSeq(t, 1, n) \in Seq(S)
         /\ Len(SubSeq(t, 1, n)) = n
         /\ \A i \in 1 .. n : SubSeq(t, 1, n)[i] = t[i]
  <1>1. \A i \in 1 .. n : t[i] \in S
    BY LenProperties, ElementOfSeq, SMTT(60)
  <1>2. n \in Int /\ 1 \in Int /\ n - 1 + 1 = n /\ (1 <= n \/ n = 0)
    BY LenProperties, SMTT(60)
  <1>3. /\ SubSeq(t, 1, n) \in Seq(S)
        /\ Len(SubSeq(t, 1, n)) = IF 1 <= n THEN n - 1 + 1 ELSE 0
        /\ \A i \in 1 .. n - 1 + 1 : SubSeq(t, 1, n)[i] = t[1 + i - 1]
    BY <1>1, <1>2, SubSeqProperties, SMTT(60)
  <1> QED BY <1>2, <1>3, SMTT(60)

\* A prefix of a prefix is a prefix.
LEMMA PrefixOfPrefix ==
  ASSUME NEW S, NEW t \in Seq(S), NEW n \in 0 .. Len(t), NEW m \in 0 .. n
  PROVE  SubSeq(SubSeq(t, 1, n), 1, m) = SubSeq(t, 1, m)
  <1> DEFINE u == SubSeq(t, 1, n)
  <1>1. u \in Seq(S) /\ Len(u) = n /\ \A i \in 1 .. n : u[i] = t[i]
    BY PrefixOf, ZenonT(60)
  <1>2. m \in 0 .. Len(t) /\ m \in 0 .. Len(u)
    BY <1>1, LenProperties, SMTT(60)
  <1> HIDE DEF u
  <1>3. /\ SubSeq(u, 1, m) \in Seq(S) /\ Len(SubSeq(u, 1, m)) = m
        /\ \A i \in 1 .. m : SubSeq(u, 1, m)[i] = u[i]
    BY <1>1, <1>2, PrefixOf, ZenonT(60)
  <1>4. /\ SubSeq(t, 1, m) \in Seq(S) /\ Len(SubSeq(t, 1, m)) = m
        /\ \A i \in 1 .. m : SubSeq(t, 1, m)[i] = t[i]
    BY <1>2, PrefixOf, ZenonT(60)
  <1>5. \A i \in 1 .. m : i \in 1 .. n
    BY SMTT(60)
  <1>6. \A i \in 1 .. Len(SubSeq(u, 1, m)) : SubSeq(u, 1, m)[i] = SubSeq(t, 1, m)[i]
    BY <1>1, <1>3, <1>4, <1>5, ZenonT(60)
  <1>7. SubSeq(u, 1, m) = SubSeq(t, 1, m)
    BY <1>3, <1>4, <1>6, SeqEqual, ZenonT(60)
  <1> QED BY <1>7, ZenonT(60) DEF u

\* The front and the last element of a non-empty sequence.
LEMMA FrontOf ==
  ASSUME NEW S, NEW s \in Seq(S), s # <<>>
  PROVE  /\ Len(s) \in Nat \ {0}
         /\ Front(s) = SubSeq(s, 1, Len(s) - 1)
         /\ Front(s) \in Seq(S) /\ Len(Front(s)) = Len(s) - 1
         /\ \A i \in 1 .. Len(s) - 1 : Front(s)[i] = s[i]
         /\ Last(s) \in S /\ Last(s) = s[Len(s)]
  <1>1. Len(s) \in Nat \ {0} /\ Len(s) - 1 \in 0 .. Len(s) /\ Len(s) \in 1 .. Len(s)
    BY EmptySeq, SMTT(60)
  <1>2. s[Len(s)] \in S
    BY <1>1, ElementOfSeq, ZenonT(60)
  <1> QED BY <1>1, <1>2, PrefixOf, ZenonT(60) DEF Front, Last

\* The chain of a tip, by its elements.
LEMMA ChainIff ==
  ASSUME NEW S, NEW d \in Seq(Seq(S)), NEW t \in Seq(S)
  PROVE  d = ChainOf(t) <=>
           Len(d) = Len(t) /\ \A n \in 1 .. Len(d) : d[n] = SubSeq(t, 1, n)
  <1>1. Len(t) \in Nat /\ Len(d) \in Nat /\ DOMAIN d = 1 .. Len(d)
        /\ d = [n \in 1 .. Len(d) |-> d[n]]
    BY LenProperties, ZenonT(60)
  <1>2. ChainOf(t) = [n \in 1 .. Len(t) |-> SubSeq(t, 1, n)]
    BY <1>1, SMTT(60) DEF ChainOf, BlockAt
  <1>3. ASSUME d = ChainOf(t)
        PROVE  Len(d) = Len(t) /\ \A n \in 1 .. Len(d) : d[n] = SubSeq(t, 1, n)
    <2>1. 1 .. Len(d) = 1 .. Len(t)
      BY <1>1, <1>2, <1>3, ZenonT(60)
    <2>2. Len(d) = Len(t)
      BY <1>1, <2>1, SMTT(60)
    <2> QED BY <1>2, <1>3, <2>2, ZenonT(60)
  <1>4. ASSUME Len(d) = Len(t), \A n \in 1 .. Len(d) : d[n] = SubSeq(t, 1, n)
        PROVE  d = ChainOf(t)
    BY <1>1, <1>2, <1>4, ZenonT(60)
  <1> QED BY <1>3, <1>4, ZenonT(60)

\* The tip of an index is its last block.
LEMMA TipOf ==
  ASSUME NEW d \in Seq(Seq(Txs))
  PROVE  /\ RuntimeTip(d) \in Seq(Txs)
         /\ d = <<>> => RuntimeTip(d) = NoBlock
         /\ d # <<>> => RuntimeTip(d) = d[Len(d)] /\ Len(d) \in Nat \ {0}
  <1>1. CASE d = <<>>
    BY <1>1, EmptySeq, ZenonT(60) DEF RuntimeTip, NoBlock
  <1>2. CASE d # <<>>
    BY <1>2, FrontOf, ZenonT(60) DEF RuntimeTip
  <1> QED BY <1>1, <1>2, ZenonT(60)

\* A lookup finds an indexed block that carries the transaction, if there is one.
LEMMA LocationOf ==
  ASSUME NEW d \in Seq(Seq(Txs)), NEW tx
  PROVE  /\ TxLocation(d, tx) \in Seq(Txs)
         /\ TxLocation(d, tx) # NoBlock =>
              \E n \in 1 .. Len(d) : TxLocation(d, tx) = d[n] /\ TxOf(d[n]) = tx
         /\ \A n \in 1 .. Len(d) :
              TxOf(d[n]) = tx => \E k \in 1 .. Len(d) : TxLocation(d, tx) = d[k]
  <1>1. DOMAIN d = 1 .. Len(d)
    BY LenProperties, ZenonT(60)
  <1>2. CASE \E n \in 1 .. Len(d) : TxOf(d[n]) = tx
    <2> DEFINE k == CHOOSE n \in DOMAIN d : TxOf(d[n]) = tx
    <2>1. k \in 1 .. Len(d) /\ TxOf(d[k]) = tx
      BY <1>1, <1>2, ZenonT(60)
    <2>2. TxLocation(d, tx) = d[k]
      BY <1>1, <1>2, ZenonT(60) DEF TxLocation
    <2>3. d[k] \in Seq(Txs)
      BY <2>1, ElementOfSeq, ZenonT(60)
    <2> HIDE DEF k
    <2> QED BY <2>1, <2>2, <2>3, ZenonT(60)
  <1>3. CASE ~\E n \in 1 .. Len(d) : TxOf(d[n]) = tx
    <2>1. TxLocation(d, tx) = NoBlock
      BY <1>1, <1>3, ZenonT(60) DEF TxLocation
    <2> QED BY <1>3, <2>1, EmptySeq, ZenonT(60) DEF NoBlock
  <1> QED BY <1>2, <1>3, ZenonT(60)

\* The empty index is the empty chain.
LEMMA ChainEmpty == <<>> = ChainOf(RuntimeTip(<<>>))
  <1>1. <<>> \in Seq(Seq(Txs)) /\ NoBlock \in Seq(Txs) /\ Len(<<>>) = 0 /\ Len(NoBlock) = 0
    BY EmptySeq, ZenonT(60) DEF NoBlock
  <1>2. RuntimeTip(<<>>) = NoBlock
    BY ZenonT(60) DEF RuntimeTip
  <1>3. \A n \in 1 .. 0 : <<>>[n] = SubSeq(NoBlock, 1, n)
    BY SMTT(60)
  <1>4. <<>> = ChainOf(NoBlock)
    BY <1>1, <1>3, ChainIff, ZenonT(60)
  <1> QED BY <1>2, <1>4, ZenonT(60)

\* A chain followed by a child of its tip is the chain of the child.
LEMMA ChainAppend ==
  ASSUME NEW d \in Seq(Seq(Txs)), NEW b \in Seq(Txs),
         d = ChainOf(RuntimeTip(d)), Height(b) = Len(d), PrevHash(b) = RuntimeTip(d)
  PROVE  Append(d, b) = ChainOf(b) /\ RuntimeTip(Append(d, b)) = b
  <1> DEFINE t == RuntimeTip(d)
             a == Append(d, b)
  <1>1. t \in Seq(Txs) /\ Len(d) \in Nat /\ Len(b) \in Nat
    BY TipOf, LenProperties, ZenonT(60)
  <1>2. Len(b) = Len(d) + 1 /\ b # <<>>
    BY <1>1, EmptySeq, SMTT(60) DEF Height
  <1>3. t = SubSeq(b, 1, Len(d))
    <2>1. Front(b) = SubSeq(b, 1, Len(b) - 1)
      BY <1>2, FrontOf, ZenonT(60)
    <2>2. Len(b) - 1 = Len(d)
      BY <1>1, <1>2, SMTT(60)
    <2> QED BY <2>1, <2>2, ZenonT(60) DEF PrevHash
  <1>4. \A n \in 1 .. Len(d) : d[n] = SubSeq(t, 1, n)
    BY <1>1, ChainIff, ZenonT(60)
  <1>5. /\ a \in Seq(Seq(Txs)) /\ Len(a) = Len(d) + 1
        /\ \A n \in 1 .. Len(d) : a[n] = d[n]
        /\ a[Len(d) + 1] = b /\ a # <<>>
    BY AppendProperties, EmptySeq, <1>1, SMTT(60)
  <1> HIDE DEF a, t
  <1>6. \A n \in 1 .. Len(a) : a[n] = SubSeq(b, 1, n)
    <2> TAKE n \in 1 .. Len(a)
    <2>1. CASE n \in 1 .. Len(d)
      <3>1. SubSeq(SubSeq(b, 1, Len(d)), 1, n) = SubSeq(b, 1, n)
        BY <1>1, <1>2, <2>1, PrefixOfPrefix, SMTT(60)
      <3> QED BY <1>3, <1>4, <1>5, <2>1, <3>1, ZenonT(60)
    <2>2. CASE n = Len(d) + 1
      <3>1. SubSeq(b, 1, Len(b)) = b
        BY SubSeqFull, ZenonT(60)
      <3> QED BY <1>2, <1>5, <2>2, <3>1, ZenonT(60)
    <2> QED BY <1>1, <1>5, <2>1, <2>2, SMTT(60)
  <1>7. a = ChainOf(b)
    BY <1>2, <1>5, <1>6, ChainIff, SMTT(60)
  <1>8. RuntimeTip(a) = b
    BY <1>5, TipOf, ZenonT(60)
  <1> QED BY <1>7, <1>8, ZenonT(60) DEF a

\* A chain without its last block is a chain.
LEMMA ChainFront ==
  ASSUME NEW d \in Seq(Seq(Txs)), d # <<>>, d = ChainOf(RuntimeTip(d))
  PROVE  Front(d) = ChainOf(RuntimeTip(Front(d)))
  <1> DEFINE t == RuntimeTip(d)
             f == Front(d)
             k == Len(d) - 1
  <1>1. t \in Seq(Txs) /\ Len(d) \in Nat \ {0} /\ k \in Nat
    BY TipOf, SMTT(60)
  <1>2. Len(t) = Len(d) /\ \A n \in 1 .. Len(d) : d[n] = SubSeq(t, 1, n)
    BY <1>1, ChainIff, SMTT(60)
  <1>3. f \in Seq(Seq(Txs)) /\ Len(f) = k /\ \A n \in 1 .. k : f[n] = d[n]
    BY FrontOf, ZenonT(60)
  <1> HIDE DEF t, f
  <1>4. CASE f = <<>>
    BY <1>4, ChainEmpty, ZenonT(60) DEF f
  <1>5. CASE f # <<>>
    <2>1. k \in 1 .. k /\ k \in 0 .. Len(t)
      BY <1>1, <1>2, <1>3, <1>5, EmptySeq, SMTT(60)
    <2>2. RuntimeTip(f) = SubSeq(t, 1, k)
      <3>1. RuntimeTip(f) = f[Len(f)]
        BY <1>3, <1>5, TipOf, ZenonT(60)
      <3>2. f[Len(f)] = d[k]
        BY <1>3, <2>1, ZenonT(60)
      <3>3. k \in 1 .. Len(d)
        BY <1>1, <2>1, SMTT(60)
      <3> QED BY <1>2, <3>1, <3>2, <3>3, ZenonT(60)
    <2>3. SubSeq(t, 1, k) \in Seq(Txs) /\ Len(SubSeq(t, 1, k)) = k
      BY <1>1, <2>1, PrefixOf, ZenonT(60)
    <2>4. \A n \in 1 .. Len(f) : f[n] = SubSeq(SubSeq(t, 1, k), 1, n)
      <3> TAKE n \in 1 .. Len(f)
      <3>1. SubSeq(SubSeq(t, 1, k), 1, n) = SubSeq(t, 1, n)
        BY <1>1, <1>3, <2>1, PrefixOfPrefix, SMTT(60)
      <3>2. n \in 1 .. k /\ n \in 1 .. Len(d)
        BY <1>1, <1>3, SMTT(60)
      <3>3. f[n] = d[n]
        BY <1>3, <3>2, ZenonT(60)
      <3>4. d[n] = SubSeq(t, 1, n)
        BY <1>2, <3>2, ZenonT(60)
      <3> QED BY <3>1, <3>3, <3>4, ZenonT(60)
    <2> DEFINE u == SubSeq(t, 1, k)
    <2>5. f = ChainOf(u)
      <3>1. u \in Seq(Txs) /\ Len(f) = Len(u) /\ \A n \in 1 .. Len(f) : f[n] = SubSeq(u, 1, n)
        BY <1>3, <2>3, <2>4, ZenonT(60)
      <3> HIDE DEF u
      <3> QED BY <1>3, <3>1, ChainIff, ZenonT(60)
    <2> QED BY <2>2, <2>5, ZenonT(60) DEF f
  <1> QED BY <1>4, <1>5, ZenonT(60)

(***************************************************************************)
(* The gate, the permit and the owner.  Who changes what.                  *)
(***************************************************************************)
\* Only the worker's mutation, the rebuild and a reindex write the index.
LEMMA IndexFrame ==
  ASSUME Next
  PROVE  \/ db' = db
         \/ ConsumerMutates \/ RebuildBlock \/ \E reset \in BOOLEAN : Start(reset)
  <1> USE DEF index
  <1>1. ASSUME ConnectTip \/ DisconnectTip \/ Flush \/ Scheduler \/ Service
        PROVE  db' = db
    BY <1>1, ZenonT(60) DEF ConnectTip, DisconnectTip, Flush, Scheduler, Callback, CallbackSnapshot,
       CallbackThrows, CallbackMarks, Service, ServiceStops, ServiceJoined
  <1>2. ASSUME Worker, ~ConsumerMutates
        PROVE  db' = db
    BY <1>2, ZenonT(60) DEF Worker, WorkerLoops, WorkerTakesEvent, WorkerSeesEmpty, WorkerStopsOrWaits,
       WorkerWakes, ConsumerObserves, ConsumerLocks, ConsumerDisables, ConsumerTakes,
       ConsumerJoined, ConsumerVerdict, ConsumerThrows, WorkerDegrades
  <1>3. ASSUME NEW q \in Queries, Query(q)
        PROVE  db' = db
    BY <1>3, ZenonT(60) DEF Query, Request, QueryAdmit, QueryTip, QueryLookup, QueryRead, QueryEncode,
       QueryCopy, Payload, QueryAnswer, QueryFails, ResponseDropped, QueryFrame
  <1>4. ASSUME BootstrapRuntime \/ Rebuilds \/ Register \/ StartFails \/ Shutdown
               \/ Stopping \/ ProcessEnds
        PROVE  db' = db
    BY <1>4, ZenonT(60) DEF BootstrapRuntime, Rebuilds, Register, StartFails, Shutdown, Stopping,
       StopNodeObserver, EndDrain, OwnerTakes, OwnerJoined, ProcessEnds
  <1> QED BY <1>1, <1>2, <1>3, <1>4, ZenonT(60) DEF Next, Starting

\* Only a query moves, until the process ends.
LEMMA QueriesFrame ==
  ASSUME Next
  PROVE  UNCHANGED <<qpc, query>> \/ (\E q \in Queries : Query(q)) \/ ProcessEnds
  <1> USE DEF requests
  <1>1. ASSUME ConnectTip \/ DisconnectTip \/ Flush \/ Scheduler \/ Service
        PROVE  UNCHANGED <<qpc, query>>
    BY <1>1, ZenonT(60) DEF ConnectTip, DisconnectTip, Flush, Scheduler, Callback, CallbackSnapshot,
       CallbackThrows, CallbackMarks, Service, ServiceStops, ServiceJoined
  <1>2. ASSUME Worker
        PROVE  UNCHANGED <<qpc, query>>
    BY <1>2, ZenonT(60) DEF Worker, WorkerLoops, WorkerTakesEvent, WorkerSeesEmpty, WorkerStopsOrWaits,
       WorkerWakes, ConsumerObserves, ConsumerLocks, ConsumerMutates, ConsumerDisables,
       ConsumerTakes, ConsumerJoined, ConsumerVerdict, ConsumerThrows, WorkerDegrades
  <1>3. ASSUME Starting \/ Shutdown \/ Stopping
        PROVE  UNCHANGED <<qpc, query>>
    BY <1>3, ZenonT(60) DEF Starting, Start, BootstrapRuntime, RebuildBlock, Rebuilds, Register,
       StartFails, StartFrame, Shutdown, Stopping, StopNodeObserver, EndDrain, OwnerTakes,
       OwnerJoined
  <1> QED BY <1>1, <1>2, <1>3, ZenonT(60) DEF Next

\* The steps of a query, by what they do to the gate and the permit.
QuerySteps(q) ==
  \/ /\ qpc[q] = "idle" /\ ~tx_busy /\ service /\ runtime \in {"open", "stopping"}
     /\ Goto(q, "admit") /\ tx_busy' /\ gate' = gate
  \/ /\ qpc[q] = "admit" /\ gate = Free /\ runtime = "open"
     /\ Goto(q, "tip") /\ gate' = q /\ tx_busy' = tx_busy
  \/ /\ qpc[q] \in Host
     /\ (\E l \in Host \ {"tip"} : Goto(q, l)) /\ UNCHANGED <<gate, tx_busy>>
  \/ qpc[q] \in Host \cup {"admit"} /\ Unavailable(q)
  \/ /\ qpc[q] = "final" /\ gate' = Free
     /\ \/ Goto(q, "body") /\ tx_busy'
        \/ Goto(q, "missing") /\ ~tx_busy'
  \/ /\ qpc[q] = "missing" /\ Goto(q, "idle") /\ gate' = gate
     /\ (tx_busy => tx_busy')
  \/ /\ qpc[q] = "body" /\ Goto(q, "idle") /\ gate' = gate /\ ~tx_busy'

\* Every step of a query is one of these, and leaves the other threads alone.
LEMMA QueryDoes ==
  ASSUME NEW q \in Queries, Query(q)
  PROVE  QuerySteps(q) /\ UNCHANGED <<node, wpc, service, runtime>>
  <1> USE DEF QuerySteps, QueryFrame, worker, index, main, Host, Proceed, admission
  <1>1. CASE Request(q)
    BY <1>1, ZenonT(60) DEF Request
  <1>2. CASE QueryAdmit(q)
    BY <1>2, ZenonT(60) DEF QueryAdmit, Admitted
  <1>3. CASE QueryTip(q)
    BY <1>3, ZenonT(60) DEF QueryTip
  <1>4. CASE QueryLookup(q)
    BY <1>4, ZenonT(60) DEF QueryLookup
  <1>5. CASE QueryRead(q)
    BY <1>5, ZenonT(60) DEF QueryRead
  <1>6. CASE QueryEncode(q) \/ QueryCopy(q)
    BY <1>6, ZenonT(60) DEF QueryEncode, QueryCopy, Payload
  <1>7. CASE QueryAnswer(q)
    BY <1>7, ZenonT(60) DEF QueryAnswer, PermitHeld
  <1>8. CASE QueryFails(q)
    BY <1>8, ZenonT(60) DEF QueryFails
  <1>9. CASE ResponseDropped(q)
    <2>1. CASE qpc[q] = "missing"
      <3>1. tx_busy' = (tx_busy /\ TRUE)
        BY <1>9, <2>1, ZenonT(60) DEF ResponseDropped
      <3>2. tx_busy => tx_busy'
        BY <3>1, ZenonT(60)
      <3> QED BY <1>9, <2>1, <3>2, ZenonT(60) DEF ResponseDropped
    <2>2. CASE qpc[q] = "body"
      <3>1. tx_busy' = (tx_busy /\ FALSE)
        BY <1>9, <2>2, ZenonT(60) DEF ResponseDropped
      <3>2. ~tx_busy'
        BY <3>1, ZenonT(60)
      <3> QED BY <1>9, <2>2, <3>2, ZenonT(60) DEF ResponseDropped
    <2> QED BY <1>9, <2>1, <2>2, ZenonT(60) DEF ResponseDropped
  <1> QED BY <1>1, <1>2, <1>3, <1>4, <1>5, <1>6, <1>7, <1>8, <1>9, ZenonT(60) DEF Query

(***************************************************************************)
(* The gate, the permit and the owner.                                     *)
(***************************************************************************)
Control == Alone /\ Gated /\ Taken /\ Leased
control == <<node, wpc, gate, service, tx_busy, qpc, runtime>>

\* A query takes and returns the gate and the permit as it should.
LEMMA ControlQuery ==
  ASSUME Typed, Control, NEW q \in Queries, Query(q)
  PROVE  Control'
  <1> USE DEF Control
  <1>1. QuerySteps(q) /\ UNCHANGED <<node, wpc, service, runtime>>
    BY QueryDoes, ZenonT(60)
  <1>2. q # Free /\ q # "worker"
    BY NodeAssumption, ZenonT(60) DEF Free
  <1>3. qpc \in [Queries -> Labels]
    BY ZenonT(60) DEF Typed
  <1> DEFINE quiet == {"idle", "missing"}
  <1>4. \/ /\ qpc[q] = "idle" /\ ~tx_busy /\ service /\ runtime \in {"open", "stopping"}
           /\ Goto(q, "admit") /\ tx_busy' /\ gate' = gate
        \/ /\ qpc[q] = "admit" /\ gate = Free /\ runtime = "open"
           /\ Goto(q, "tip") /\ gate' = q /\ tx_busy' = tx_busy
        \/ /\ qpc[q] \in Host
           /\ (\E l \in Host \ {"tip"} : Goto(q, l)) /\ UNCHANGED <<gate, tx_busy>>
        \/ /\ qpc[q] \in Host \cup {"admit"} /\ Goto(q, "idle") /\ ~tx_busy'
           /\ gate' = IF gate = q THEN Free ELSE gate
        \/ /\ qpc[q] = "final" /\ gate' = Free
           /\ \/ Goto(q, "body") /\ tx_busy'
              \/ Goto(q, "missing") /\ ~tx_busy'
        \/ /\ qpc[q] = "missing" /\ Goto(q, "idle") /\ gate' = gate
           /\ (tx_busy => tx_busy')
        \/ /\ qpc[q] = "body" /\ Goto(q, "idle") /\ gate' = gate /\ ~tx_busy'
    BY <1>1, ZenonT(60) DEF QuerySteps, Unavailable
  <1>5. Alone'
    <2>1. ~(node \in {"down", "bootstrap", "rebuild", "project", "plain"})
      BY <1>4, ZenonT(60) DEF Alone, Host
    <2> QED BY <1>1, <2>1, ZenonT(60) DEF Alone
  <1>6. Taken'
    BY <1>1, ZenonT(60) DEF Taken
  <1>7. Gated'
    BY <1>1, <1>2, <1>3, <1>4, NodeAssumption, ZenonT(60) DEF Gated, Goto, Host, Free
  <1>8. Leased'
    BY <1>3, <1>4, SMTT(60) DEF Leased, Goto, Host
  <1> QED BY <1>5, <1>6, <1>7, <1>8, ZenonT(60)

\* So do the worker, the service and the main thread.
LEMMA ControlStep ==
  ASSUME Typed, Control, Next
  PROVE  Control'
  <1> USE DEF Control
  <1>1. CASE ConnectTip \/ DisconnectTip \/ Flush \/ Scheduler
    <2>1. UNCHANGED control
      BY <1>1, ZenonT(60) DEF ConnectTip, DisconnectTip, Flush, Scheduler, Callback, CallbackSnapshot,
         CallbackThrows, CallbackMarks, control, worker, admission, index, requests, main
    <2> QED BY <2>1, ZenonT(60) DEF control, Alone, Gated, Taken, Leased
  <1>2. CASE Worker
    <2>1. /\ UNCHANGED <<node, service, tx_busy, qpc>>
          /\ wpc # "none"
          /\ \/ wpc' # "mutate" /\ wpc # "mutate" /\ gate' = gate /\ runtime' = runtime
             \/ /\ gate = Free /\ runtime = "open"
                /\ wpc' = "mutate" /\ gate' = "worker" /\ runtime' = runtime
             \/ wpc = "mutate" /\ wpc' # "mutate" /\ gate' = Free /\ runtime' = runtime
             \/ /\ wpc # "mutate" /\ wpc' # "mutate" /\ gate = Free /\ gate' = Free
                /\ runtime' = (IF runtime = "open" THEN "stopping" ELSE runtime)
      BY <1>2, ZenonT(60) DEF Worker, WorkerLoops, WorkerTakesEvent, WorkerSeesEmpty,
         WorkerStopsOrWaits, WorkerWakes, ConsumerObserves, ConsumerLocks, ConsumerMutates,
         ConsumerDisables, ConsumerTakes, TakesRuntime, ConsumerJoined, ConsumerVerdict,
         ConsumerThrows, WorkerDegrades, admission, index, requests, main
    <2>2. Alone' /\ Taken' /\ Leased'
      BY <2>1, ZenonT(60) DEF Alone, Taken, Leased
    <2>3. Gated'
      BY <2>1, NodeAssumption, ZenonT(60) DEF Gated, Free
    <2> QED BY <2>2, <2>3, ZenonT(60)
  <1>3. CASE Service
    <2>1. /\ UNCHANGED <<node, wpc, gate, tx_busy, qpc>>
          /\ service' = service \/ ~service'
          /\ runtime # "open" /\ runtime' # "open"
      BY <1>3, ZenonT(60) DEF Service, ServiceStops, ServiceJoined, admission, worker, requests, main
    <2> QED BY <2>1, SMTT(60) DEF Alone, Gated, Taken, Leased
  <1>4. CASE Starting
    <2>1. /\ UNCHANGED <<gate, tx_busy, qpc>>
          /\ node \in {"down", "bootstrap", "rebuild", "project"}
          /\ \/ /\ wpc' = wpc /\ service' = service
                /\ node' \in {"bootstrap", "rebuild", "project"}
             \/ /\ wpc' = wpc /\ service' = service
                /\ node' = "plain" /\ runtime' # "open"
             \/ wpc' = "loop" /\ node' = "up"
      BY <1>4, ZenonT(60) DEF Starting, Start, BootstrapRuntime, RebuildBlock, Rebuilds, Register,
         StartFails, StartFrame, DestroyIdleRuntime, admission, worker, requests
    <2> QED BY <2>1, SMTT(60) DEF Alone, Gated, Taken, Leased
  <1>5. CASE Shutdown \/ Stopping
    <2>1. /\ UNCHANGED <<gate, tx_busy, qpc, wpc, service>>
          /\ node' \in {"flush", "exit", "drain", "take", "join"}
          /\ \/ runtime' = runtime /\ node' \in {"flush", "drain", "take"}
             \/ runtime' = runtime /\ node = "plain" /\ node' = "exit"
             \/ gate = Free /\ runtime' # "open"
             \/ runtime' = runtime /\ node = "join"
      BY <1>5, ZenonT(60) DEF Shutdown, Running, Stopping, StopNodeObserver, EndDrain, OwnerTakes, OwnerJoined,
         TakesRuntime, admission, worker, requests, index
    <2> QED BY <2>1, ZenonT(60) DEF Alone, Gated, Taken, Leased
  <1>6. CASE ProcessEnds
    BY <1>6, NodeAssumption, ZenonT(60) DEF ProcessEnds, Alone, Gated, Taken, Leased, Host, Free
  <1>7. ASSUME NEW q \in Queries, Query(q)
        PROVE  Control'
    BY <1>7, ControlQuery, ZenonT(60)
  <1> QED BY <1>1, <1>2, <1>3, <1>4, <1>5, <1>6, <1>7, ZenonT(60) DEF Next

-----------------------------------------------------------------------------
(***************************************************************************)
(* Types.                                                                  *)
(***************************************************************************)
\* The chain and the changes reported of it.
LEMMA TypedChain ==
  ASSUME Typed, Next
  PROVE  tip' \in Seq(Txs) /\ flushed' \in Seq(Txs) /\ signals' \in Seq(Changes)
  <1> USE DEF Typed
  <1>1. CASE ConnectTip
    <2>1. PICK b \in Children(tip) : tip' = b /\ Signal(BlockConnected(b)) /\ flushed' = flushed
      BY <1>1, ZenonT(60) DEF ConnectTip
    <2>2. PICK tx \in Txs : b = Append(tip, tx)
      BY BlocksAssumption, ZenonT(60) DEF Children
    <2>3. b \in Seq(Txs)
      BY <2>2, AppendProperties, ZenonT(60)
    <2>4. BlockConnected(b) \in Changes
      BY <2>3, ZenonT(60) DEF BlockConnected, Changes, Kinds
    <2> QED BY <2>1, <2>3, <2>4, AppendProperties, ZenonT(60) DEF Signal
  <1>2. CASE DisconnectTip
    <2>1. tip # <<>> /\ tip' = Front(tip) /\ Signal(BlockDisconnected(tip)) /\ flushed' = flushed
      BY <1>2, EmptySeq, SMTT(60) DEF DisconnectTip, PrevHash
    <2>2. Front(tip) \in Seq(Txs)
      BY <2>1, FrontOf, ZenonT(60)
    <2>3. BlockDisconnected(tip) \in Changes
      BY ZenonT(60) DEF BlockDisconnected, Changes, Kinds
    <2> QED BY <2>1, <2>2, <2>3, AppendProperties, ZenonT(60) DEF Signal
  <1>3. CASE Flush \/ Shutdown \/ \E reset \in BOOLEAN : Start(reset)
    BY <1>3, EmptySeq, ZenonT(60) DEF Flush, Shutdown, Start, NoBlock
  <1>4. CASE Scheduler
    <2>1. UNCHANGED <<tip, flushed>> /\ (signals' = signals \/ (signals # <<>> /\ signals' = Tail(signals)))
      BY <1>4, ZenonT(60) DEF Scheduler, Callback, CallbackSnapshot, CallbackThrows, CallbackMarks, chain
    <2>2. signals # <<>> => Tail(signals) \in Seq(Changes)
      BY HeadTailProperties, ZenonT(60)
    <2> QED BY <2>1, <2>2, ZenonT(60)
  <1>5. CASE ProcessEnds
    BY <1>5, EmptySeq, ZenonT(60) DEF ProcessEnds
  <1>6. ASSUME \/ Worker \/ Service \/ BootstrapRuntime \/ RebuildBlock \/ Rebuilds
               \/ Register \/ StartFails \/ Stopping
        PROVE  UNCHANGED <<tip, flushed, signals>>
    BY <1>6, ZenonT(60) DEF Worker, WorkerLoops, WorkerTakesEvent, WorkerSeesEmpty,
       WorkerStopsOrWaits, WorkerWakes, ConsumerObserves, ConsumerLocks, ConsumerMutates,
       ConsumerDisables, ConsumerTakes, ConsumerJoined, ConsumerVerdict, ConsumerThrows,
       WorkerDegrades, Service, ServiceStops, ServiceJoined, BootstrapRuntime, RebuildBlock,
       Rebuilds, Register, StartFails, StartFrame, Stopping, StopNodeObserver, EndDrain,
       OwnerTakes, OwnerJoined, chain
  <1>7. ASSUME NEW q \in Queries, Query(q)
        PROVE  UNCHANGED <<tip, flushed, signals>>
    BY <1>7, ZenonT(60) DEF Query, Request, QueryAdmit, QueryTip, QueryLookup, QueryRead, QueryEncode,
       QueryCopy, Payload, QueryAnswer, QueryFails, ResponseDropped, QueryFrame, chain
  <1> QED BY <1>1, <1>2, <1>3, <1>4, <1>5, <1>6, <1>7, ZenonT(60) DEF Next, Starting

\* The events on their way to the worker and in its hand.
LEMMA TypedEvents ==
  ASSUME Typed, Next
  PROVE  /\ queue' \in Seq(Numbered)
         /\ event'.block \in Seq(Txs)
         /\ next_sequence' \in Nat
  <1> USE DEF Typed
  <1>1. CASE Callback
    <2>1. Head(signals) \in Changes /\ signals # <<>>
      BY <1>1, HeadTailProperties, ZenonT(60) DEF Callback
    <2>2. NextSequence \in Nat
      BY ProjectionAssumption, SMTT(60) DEF NextSequence
    <2>3. Stamped(Head(signals), NextSequence) \in Numbered
      BY <2>1, <2>2, ZenonT(60) DEF Stamped, Numbered, Changes
    <2>4. \/ queue' = queue
          \/ queue' = Append(queue, Stamped(Head(signals), NextSequence))
      BY <1>1, ZenonT(60) DEF Callback, Submits
    <2>5. Append(queue, Stamped(Head(signals), NextSequence)) \in Seq(Numbered)
      BY <2>3, AppendProperties, ZenonT(60)
    <2>6. next_sequence' = NextSequence /\ event' = event
      BY <1>1, ZenonT(60) DEF Callback, worker
    <2> QED BY <2>2, <2>4, <2>5, <2>6, ZenonT(60)
  <1>2. CASE WorkerTakesEvent
    <2>1. /\ queue # <<>> /\ event' = Head(queue) /\ queue' = Tail(queue)
          /\ next_sequence' = next_sequence
      BY <1>2, ZenonT(60) DEF WorkerTakesEvent, callback
    <2>2. Head(queue) \in Numbered /\ Tail(queue) \in Seq(Numbered)
      BY <2>1, HeadTailProperties, ZenonT(60)
    <2> QED BY <2>1, <2>2, ZenonT(60) DEF Numbered
  <1>3. CASE ConsumerVerdict \/ ConsumerThrows
    <2>1. event' = NoEvent /\ UNCHANGED <<queue, next_sequence>>
      BY <1>3, ZenonT(60) DEF ConsumerVerdict, ConsumerThrows, callback, envelope
    <2> QED BY <2>1, EmptySeq, ZenonT(60) DEF NoEvent, NoBlock
  <1>4. CASE ProcessEnds
    <2>1. event' = NoEvent /\ queue' = <<>> /\ next_sequence' = 0
      BY <1>4, ZenonT(60) DEF ProcessEnds
    <2> QED BY <2>1, EmptySeq, ZenonT(60) DEF NoEvent, NoBlock
  <1>5. ASSUME \/ ConnectTip \/ DisconnectTip \/ Flush \/ CallbackSnapshot
               \/ CallbackThrows \/ CallbackMarks \/ Service \/ Starting
               \/ Shutdown \/ Stopping
        PROVE  UNCHANGED <<queue, event, next_sequence>>
    BY <1>5, ZenonT(60) DEF ConnectTip, DisconnectTip, Flush, CallbackSnapshot, CallbackThrows,
       CallbackMarks, Service, ServiceStops, ServiceJoined, Starting, Start, BootstrapRuntime,
       RebuildBlock, Rebuilds, Register, StartFails, StartFrame, Shutdown, Stopping,
       StopNodeObserver, EndDrain, OwnerTakes, OwnerJoined, callback, envelope, worker
  <1>6. ASSUME \/ WorkerLoops \/ WorkerSeesEmpty \/ WorkerStopsOrWaits \/ WorkerWakes
               \/ ConsumerObserves \/ ConsumerLocks \/ ConsumerMutates \/ ConsumerDisables
               \/ ConsumerTakes \/ ConsumerJoined \/ WorkerDegrades
        PROVE  UNCHANGED <<queue, event, next_sequence>>
    BY <1>6, ZenonT(60) DEF WorkerLoops, WorkerSeesEmpty, WorkerStopsOrWaits, WorkerWakes,
       ConsumerObserves, ConsumerLocks, ConsumerMutates, ConsumerDisables, ConsumerTakes,
       ConsumerJoined, WorkerDegrades, callback, envelope
  <1>7. ASSUME NEW q \in Queries, Query(q)
        PROVE  UNCHANGED <<queue, event, next_sequence>>
    BY <1>7, ZenonT(60) DEF Query, Request, QueryAdmit, QueryTip, QueryLookup, QueryRead, QueryEncode,
       QueryCopy, Payload, QueryAnswer, QueryFails, ResponseDropped, QueryFrame, callback,
       envelope, worker
  <1> QED
    BY <1>1, <1>2, <1>3, <1>4, <1>5, <1>6, <1>7, ZenonT(60) DEF Next, Scheduler, Worker

\* The index is a sequence of blocks.
LEMMA TypedIndex ==
  ASSUME Typed, Next
  PROVE  db' \in Seq(Seq(Txs))
  <1> USE DEF Typed
  <1>1. CASE ConsumerMutates
    <2>1. CASE Fits(db, event) /\ db' = Mutated(db, event)
      <3>1. CASE event.kind = "connected"
        BY <2>1, <3>1, AppendProperties, ZenonT(60) DEF Mutated
      <3>2. CASE event.kind # "connected"
        BY <2>1, <3>2, FrontOf, ZenonT(60) DEF Mutated, Fits
      <3> QED BY <3>1, <3>2, ZenonT(60)
    <2> QED BY <1>1, <2>1, ZenonT(60) DEF ConsumerMutates
  <1>2. CASE RebuildBlock
    <2> DEFINE e == BlockConnected(BlockAt(tip, Len(db)))
    <2>1. (node = "rebuild" /\ Len(db) < Len(tip)) /\ (db' = db \/ db' = Mutated(db, e))
      BY <1>2, ZenonT(60) DEF RebuildBlock
    <2>2. Len(db) + 1 \in 0 .. Len(tip)
      BY <2>1, LenProperties, SMTT(60)
    <2>3. BlockAt(tip, Len(db)) \in Seq(Txs)
      BY <2>2, PrefixOf, ZenonT(60) DEF BlockAt
    <2>4. Mutated(db, e) = Append(db, BlockAt(tip, Len(db)))
      BY ZenonT(60) DEF Mutated, BlockConnected
    <2>5. Append(db, BlockAt(tip, Len(db))) \in Seq(Seq(Txs))
      BY <2>3, AppendProperties, ZenonT(60)
    <2> QED BY <2>1, <2>4, <2>5, ZenonT(60)
  <1>3. CASE \E reset \in BOOLEAN : Start(reset)
    BY <1>3, EmptySeq, ZenonT(60) DEF Start
  <1> QED BY <1>1, <1>2, <1>3, IndexFrame, ZenonT(60)

\* The queries and what they have read.
LEMMA TypedQueries ==
  ASSUME Typed, Next
  PROVE  qpc' \in [Queries -> Labels] /\ query' \in [Queries -> Readings]
  <1> USE DEF Typed
  <1>1. ASSUME NEW q \in Queries, Query(q)
        PROVE  qpc' \in [Queries -> Labels]
    <2>1. \E l \in Labels : Goto(q, l)
      BY <1>1, QueryDoes, ZenonT(60) DEF QuerySteps, Unavailable, Labels, Host
    <2> QED BY <2>1, ZenonT(60) DEF Goto
  <1>2. NoQuery \in Readings
    BY BlocksAssumption, EmptySeq, ZenonT(60) DEF NoQuery, Readings, NoBlock
  <1>3. ASSUME NEW q \in Queries, Query(q)
        PROVE  query' \in [Queries -> Readings]
    <2>1. query[q] \in Readings
      BY ZenonT(60)
    <2>2. RuntimeTip(db) \in Seq(Txs)
      BY TipOf, ZenonT(60)
    <2>3. Located(q) \in Seq(Txs)
      BY LocationOf, EmptySeq, ZenonT(60) DEF Located, TokenInfo, NoBlock
    <2>4. CASE Unavailable(q)
      BY <1>2, <2>4, ZenonT(60) DEF Unavailable
    <2>5. CASE Request(q)
      <3>1. PICK route \in {"tx", "token"}, tx \in Txs :
              query' = [query EXCEPT ![q] = [route |-> route, tx |-> tx, tip |-> NoBlock,
                                             block |-> NoBlock]]
        BY <2>5, ZenonT(60) DEF Request
      <3>2. [route |-> route, tx |-> tx, tip |-> NoBlock, block |-> NoBlock] \in Readings
        BY EmptySeq, ZenonT(60) DEF Readings, NoBlock
      <3> QED BY <3>1, <3>2, ZenonT(60)
    <2>6. CASE QueryTip(q) /\ ~Unavailable(q)
      <3>1. query' = [query EXCEPT ![q].tip = RuntimeTip(db)]
        BY <2>6, ZenonT(60) DEF QueryTip
      <3> QED BY <2>1, <2>2, <3>1, ZenonT(60) DEF Readings
    <2>7. CASE QueryLookup(q)
      <3>1. query' = [query EXCEPT ![q].block = Located(q)]
        BY <2>7, ZenonT(60) DEF QueryLookup
      <3> QED BY <2>1, <2>3, <3>1, ZenonT(60) DEF Readings
    <2>8. CASE ResponseDropped(q)
      BY <1>2, <2>8, ZenonT(60) DEF ResponseDropped
    <2>9. CASE /\ ~Unavailable(q)
               /\ \/ QueryAdmit(q) \/ QueryRead(q) \/ QueryEncode(q) \/ QueryCopy(q)
                  \/ QueryAnswer(q) \/ QueryFails(q)
      <3>1. query' = query
        BY <2>9, ZenonT(60) DEF QueryAdmit, QueryRead, QueryEncode, QueryCopy, Payload, QueryAnswer,
           QueryFails, Proceed
      <3> QED BY <3>1, ZenonT(60)
    <2> QED BY <1>3, <2>4, <2>5, <2>6, <2>7, <2>8, <2>9, ZenonT(60) DEF Query
  <1>4. CASE ProcessEnds
    <2>1. /\ qpc' = [q \in Queries |-> "idle"]
          /\ query' = [q \in Queries |-> NoQuery]
      BY <1>4, ZenonT(60) DEF ProcessEnds
    <2> QED BY <1>2, <2>1, ZenonT(60) DEF Labels
  <1> QED BY <1>1, <1>3, <1>4, QueriesFrame, ZenonT(60)

(***************************************************************************)
(* The index is a chain.                                                   *)
(***************************************************************************)
\* Every batch written to the index leaves a chain.
LEMMA IndexStep ==
  ASSUME Typed, IndexIsChain, Next
  PROVE  IndexIsChain'
  <1> USE DEF IndexIsChain, Typed
  <1>1. ASSUME NEW e, e.block \in Seq(Txs), Fits(db, e), db' = Mutated(db, e)
        PROVE  db' = ChainOf(RuntimeTip(db'))
    <2>1. CASE e.kind = "connected"
      BY <1>1, <2>1, ChainAppend, ZenonT(60) DEF Fits, Mutated
    <2>2. CASE e.kind # "connected"
      BY <1>1, <2>2, ChainFront, ZenonT(60) DEF Fits, Mutated
    <2> QED BY <2>1, <2>2, ZenonT(60)
  <1>2. CASE ConsumerMutates
    BY <1>1, <1>2, ZenonT(60) DEF ConsumerMutates
  <1>3. CASE RebuildBlock
    <2> DEFINE e == BlockConnected(BlockAt(tip, Len(db)))
    <2>1. Len(db) < Len(tip) /\ (db' = db \/ (Fits(db, e) /\ db' = Mutated(db, e)))
      BY <1>3, ZenonT(60) DEF RebuildBlock
    <2>2. Len(db) + 1 \in 0 .. Len(tip)
      BY <2>1, LenProperties, SMTT(60)
    <2>3. e.block \in Seq(Txs)
      BY <2>2, PrefixOf, ZenonT(60) DEF BlockAt, BlockConnected
    <2> QED BY <1>1, <2>1, <2>3, ZenonT(60)
  <1>4. CASE \E reset \in BOOLEAN : Start(reset)
    <2>1. db' = db \/ db' = <<>>
      BY <1>4, ZenonT(60) DEF Start
    <2> QED BY <2>1, ChainEmpty, ZenonT(60)
  <1> QED BY <1>2, <1>3, <1>4, IndexFrame, ZenonT(60)

(***************************************************************************)
(* Bootstrap.                                                              *)
(***************************************************************************)
\* The index that bootstrap leaves active is the chain's.
LEMMA BootstrapStep ==
  ASSUME Typed, Alone, IndexIsChain, Rebuilding, ResumesOnlyCurrent, Next
  PROVE  Rebuilding' /\ ResumesOnlyCurrent'
  <1> USE DEF Typed
  <1>1. CASE node' \notin {"rebuild", "project"}
    BY <1>1, ZenonT(60) DEF Rebuilding, ResumesOnlyCurrent
  <1>2. CASE BootstrapRuntime
    <2>1. db' = db /\ tip' = tip /\ node' \in {"rebuild", "project"}
      BY <1>2, ZenonT(60) DEF BootstrapRuntime, StartFrame, chain, index
    <2>2. node' = "rebuild" => db = <<>>
      BY <1>2, ZenonT(60) DEF BootstrapRuntime
    <2>3. Rebuilding'
      <3>1. db = <<>> => Len(db) = 0 /\ Len(db) <= Len(tip)
        BY EmptySeq, LenProperties, SMTT(60)
      <3> QED BY <2>1, <2>2, <3>1, SMTT(60) DEF Rebuilding
    <2>4. node' = "project" /\ runtime_active' => RuntimeTip(db) = tip
      BY <1>2, ZenonT(60) DEF BootstrapRuntime, DestroyIdleRuntime, Resumable, index
    <2>5. ResumesOnlyCurrent'
      BY <2>1, <2>4, ZenonT(60) DEF ResumesOnlyCurrent, IndexIsChain
    <2> QED BY <2>3, <2>5, ZenonT(60)
  <1>3. CASE RebuildBlock
    <2> DEFINE e == BlockConnected(BlockAt(tip, Len(db)))
    <2>1. /\ node = "rebuild" /\ Len(db) < Len(tip) /\ tip' = tip
          /\ \/ Fits(db, e) /\ db' = Mutated(db, e) /\ node' = node
             \/ node' = "project" /\ ~runtime_active'
      BY <1>3, ZenonT(60) DEF RebuildBlock, StartFrame, chain, DestroyIdleRuntime
    <2>2. CASE db' = Mutated(db, e) /\ node' = node
      <3>1. db' = Append(db, BlockAt(tip, Len(db)))
        BY <2>2, ZenonT(60) DEF Mutated, BlockConnected
      <3>2. Len(db) + 1 \in 0 .. Len(tip)
        BY <2>1, LenProperties, SMTT(60)
      <3>3. BlockAt(tip, Len(db)) \in Seq(Txs)
        BY <3>2, PrefixOf, ZenonT(60) DEF BlockAt
      <3>4. /\ Len(db') = Len(db) + 1
            /\ \A n \in 1 .. Len(db) : db'[n] = db[n]
            /\ db'[Len(db) + 1] = BlockAt(tip, Len(db))
        BY <3>1, <3>3, AppendProperties, SMTT(60)
      <3>5. Len(db') <= Len(tip)
        BY <3>2, <3>4, SMTT(60)
      <3>6. \A n \in 1 .. Len(db') : db'[n] = BlockAt(tip, n - 1)
        <4> TAKE n \in 1 .. Len(db')
        <4>1. CASE n \in 1 .. Len(db)
          BY <2>1, <3>4, <4>1, ZenonT(60) DEF Rebuilding
        <4>2. CASE n = Len(db) + 1
          <5>1. n - 1 = Len(db)
            BY <4>2, LenProperties, SMTT(60)
          <5> QED BY <3>4, <4>2, <5>1, ZenonT(60)
        <4> QED BY <3>4, <4>1, <4>2, LenProperties, SMTT(60)
      <3> QED BY <2>1, <2>2, <3>5, <3>6, ZenonT(60) DEF Rebuilding, ResumesOnlyCurrent
    <2>3. CASE node' = "project" /\ ~runtime_active'
      BY <2>3, ZenonT(60) DEF Rebuilding, ResumesOnlyCurrent
    <2> QED BY <2>1, <2>2, <2>3, ZenonT(60)
  <1>4. CASE Rebuilds
    <2>1. /\ node = "rebuild" /\ Len(db) = Len(tip) /\ tip' = tip /\ db' = db
          /\ node' = "project"
      BY <1>4, ZenonT(60) DEF Rebuilds, StartFrame, chain, index
    <2>2. \A n \in 1 .. Len(db) : db[n] = SubSeq(tip, 1, n)
      <3> TAKE n \in 1 .. Len(db)
      <3>1. n - 1 + 1 = n
        BY LenProperties, SMTT(60)
      <3> QED BY <2>1, <3>1, ZenonT(60) DEF Rebuilding, BlockAt
    <2>3. db = ChainOf(tip)
      BY <2>1, <2>2, ChainIff, ZenonT(60)
    <2> QED BY <2>1, <2>3, ZenonT(60) DEF Rebuilding, ResumesOnlyCurrent
  <1>5. CASE node' \in {"rebuild", "project"} /\ ~(BootstrapRuntime \/ RebuildBlock \/ Rebuilds)
    <2>1. node' = node /\ UNCHANGED <<tip, db, runtime_active>>
      <3>1. node \in {"rebuild", "project"} => wpc = "none"
        BY ZenonT(60) DEF Alone
      <3>2. ~(Starting \/ Shutdown \/ Stopping \/ ProcessEnds \/ ConnectTip \/ DisconnectTip)
            \/ node' \notin {"rebuild", "project"}
        BY <1>5, ZenonT(60) DEF Starting, Start, Register, StartFails, Shutdown, Stopping,
           StopNodeObserver, EndDrain, OwnerTakes, OwnerJoined, ProcessEnds, ConnectTip,
           DisconnectTip, Running, main
      <3>3. CASE Flush \/ Scheduler \/ Service
        BY <3>3, ZenonT(60) DEF Flush, Scheduler, Callback, CallbackSnapshot, CallbackThrows,
           CallbackMarks, Service, ServiceStops, ServiceJoined, chain, index, main
      <3>4. ASSUME Worker
            PROVE  node' \notin {"rebuild", "project"}
        <4>1. node' = node /\ wpc # "none"
          BY <3>4, ZenonT(60) DEF Worker, WorkerLoops, WorkerTakesEvent, WorkerSeesEmpty,
             WorkerStopsOrWaits, WorkerWakes, ConsumerObserves, ConsumerLocks,
             ConsumerMutates, ConsumerDisables, ConsumerTakes, ConsumerJoined,
             ConsumerVerdict, ConsumerThrows, WorkerDegrades, main
        <4> QED BY <3>1, <4>1, ZenonT(60)
      <3>5. ASSUME NEW q \in Queries, Query(q)
            PROVE  node' = node /\ UNCHANGED <<tip, db, runtime_active>>
        BY <3>5, ZenonT(60) DEF Query, Request, QueryAdmit, QueryTip, QueryLookup, QueryRead, QueryEncode,
           QueryCopy, Payload, QueryAnswer, QueryFails, ResponseDropped, QueryFrame, chain,
           index, main
      <3> QED BY <1>5, <3>2, <3>3, <3>4, <3>5, ZenonT(60) DEF Next
    <2> QED BY <2>1, ZenonT(60) DEF Rebuilding, ResumesOnlyCurrent
  <1> QED BY <1>1, <1>2, <1>3, <1>4, <1>5, ZenonT(60)

(***************************************************************************)
(* What a query has read.                                                  *)
(***************************************************************************)
\* Consistent, for one query.
Fresh(q) ==
  /\ qpc[q] # "idle" => query[q].route \in {"tx", "token"}
  /\ qpc[q] \in Host \ {"tip"} => query[q].tip = RuntimeTip(db)
  /\ qpc[q] \in {"read", "reread", "copy", "final"} => query[q].block = Located(q)

\* A query that moves keeps to the index it holds the gate of.
LEMMA FreshMoves ==
  ASSUME Typed, NEW q \in Queries, Fresh(q), Query(q)
  PROVE  Fresh(q)'
  <1> USE DEF Typed
  <1>1. db' = db
    BY ZenonT(60) DEF Query, Request, QueryAdmit, QueryTip, QueryLookup, QueryRead, QueryEncode,
       QueryCopy, Payload, QueryAnswer, QueryFails, ResponseDropped, QueryFrame, index
  <1>2. CASE qpc'[q] = "idle"
    BY <1>2, ZenonT(60) DEF Fresh, Host
  <1>3. CASE Request(q)
    <2>1. PICK route \in {"tx", "token"}, tx \in Txs :
            query' = [query EXCEPT ![q] = [route |-> route, tx |-> tx, tip |-> NoBlock,
                                           block |-> NoBlock]]
      BY <1>3, ZenonT(60) DEF Request
    <2>2. qpc'[q] = "admit"
      BY <1>3, ZenonT(60) DEF Request, Goto
    <2>3. query'[q].route = route
      BY <2>1, ZenonT(60)
    <2> QED BY <2>2, <2>3, ZenonT(60) DEF Fresh, Host
  <1>4. CASE qpc'[q] # "idle" /\ QueryAdmit(q)
    <2>1. qpc[q] = "admit" /\ qpc'[q] = "tip" /\ query' = query
      BY <1>4, ZenonT(60) DEF QueryAdmit, Unavailable, Goto
    <2> QED BY <2>1, ZenonT(60) DEF Fresh, Host
  <1>5. CASE qpc'[q] # "idle" /\ QueryTip(q)
    <2>1. /\ qpc[q] = "tip" /\ qpc'[q] = "lookup"
          /\ query' = [query EXCEPT ![q].tip = RuntimeTip(db)]
      BY <1>5, ZenonT(60) DEF QueryTip, Unavailable, Goto
    <2>2. query[q] \in Readings
      BY ZenonT(60)
    <2>3. query'[q].route = query[q].route /\ query'[q].tip = RuntimeTip(db)
      BY <2>1, <2>2, ZenonT(60) DEF Readings
    <2> QED BY <1>1, <2>1, <2>3, ZenonT(60) DEF Fresh, Host
  <1>6. CASE QueryLookup(q)
    <2>1. /\ qpc[q] = "lookup"
          /\ query' = [query EXCEPT ![q].block = Located(q)]
      BY <1>6, ZenonT(60) DEF QueryLookup
    <2>2. query[q] \in Readings
      BY ZenonT(60)
    <2>3. /\ query'[q].route = query[q].route /\ query'[q].tip = query[q].tip
          /\ query'[q].tx = query[q].tx /\ query'[q].block = Located(q)
      BY <2>1, <2>2, ZenonT(60) DEF Readings
    <2>4. Located(q)' = Located(q)
      BY <1>1, <2>3, ZenonT(60) DEF Located
    <2> QED BY <1>1, <2>1, <2>3, <2>4, ZenonT(60) DEF Fresh, Host
  <1>7. CASE /\ qpc'[q] # "idle"
             /\ QueryRead(q) \/ QueryEncode(q) \/ QueryCopy(q) \/ QueryAnswer(q)
    <2>1. qpc[q] \in {"read", "reread", "copy", "final"} /\ query' = query
      BY <1>7, ZenonT(60) DEF QueryRead, QueryEncode, QueryCopy, Payload, QueryAnswer, Proceed,
         Unavailable, Goto
    <2>2. Located(q)' = Located(q)
      BY <1>1, <2>1, ZenonT(60) DEF Located
    <2> QED BY <1>1, <2>1, <2>2, ZenonT(60) DEF Fresh, Host
  <1>8. CASE QueryFails(q) \/ ResponseDropped(q)
    <2>1. qpc'[q] = "idle"
      BY <1>8, ZenonT(60) DEF QueryFails, ResponseDropped, Unavailable, Goto
    <2> QED BY <1>2, <2>1, ZenonT(60)
  <1> QED BY <1>2, <1>3, <1>4, <1>5, <1>6, <1>7, <1>8, ZenonT(60) DEF Query

\* What a query has read stays true of the index while it has the gate.
LEMMA ConsistentStep ==
  ASSUME Typed, Alone, Gated, Consistent, Next
  PROVE  Consistent'
  <1> USE DEF Typed
  <1>1. \A q \in Queries : Fresh(q)
    BY ZenonT(60) DEF Consistent, Fresh
  <1>2. SUFFICES ASSUME NEW r \in Queries
                 PROVE  Fresh(r)'
    BY ZenonT(60) DEF Consistent, Fresh
  <1>3. CASE ProcessEnds
    <2>1. qpc'[r] = "idle"
      BY <1>3, ZenonT(60) DEF ProcessEnds
    <2> QED BY <2>1, ZenonT(60) DEF Fresh, Host
  <1>4. ASSUME NEW q \in Queries, Query(q)
        PROVE  Fresh(r)'
    <2>1. CASE q = r
      BY <1>1, <1>4, <2>1, FreshMoves, ZenonT(60)
    <2>2. CASE q # r
      <3>1. qpc'[r] = qpc[r]
        <4>1. \E l : Goto(q, l)
          BY <1>4, QueryDoes, ZenonT(60) DEF QuerySteps, Unavailable
        <4> QED BY <2>2, <4>1, ZenonT(60) DEF Goto
      <3>2. query'[r] = query[r] /\ db' = db
        BY <1>4, <2>2, ZenonT(60) DEF Query, Request, QueryAdmit, QueryTip, QueryLookup, QueryRead,
           QueryEncode, QueryCopy, Payload, Proceed, QueryAnswer, QueryFails,
           ResponseDropped, Unavailable, QueryFrame, index
      <3>3. Located(r)' = Located(r)
        BY <3>2, ZenonT(60) DEF Located
      <3> QED BY <1>1, <3>1, <3>2, <3>3, ZenonT(60) DEF Fresh
    <2> QED BY <2>1, <2>2, ZenonT(60)
  <1>5. CASE UNCHANGED <<qpc, query>> /\ db' = db
    <2>1. Located(r)' = Located(r)
      BY <1>5, ZenonT(60) DEF Located
    <2> QED BY <1>1, <1>5, <2>1, ZenonT(60) DEF Fresh
  <1>6. CASE UNCHANGED <<qpc, query>> /\ ConsumerMutates
    <2>1. gate = "worker" /\ r # "worker"
      BY <1>6, NodeAssumption, ZenonT(60) DEF ConsumerMutates, Gated
    <2>2. qpc[r] \notin Host
      BY <2>1, ZenonT(60) DEF Gated
    <2> QED BY <1>1, <1>6, <2>2, ZenonT(60) DEF Fresh, Host
  <1>7. CASE /\ UNCHANGED <<qpc, query>>
             /\ RebuildBlock \/ \E reset \in BOOLEAN : Start(reset)
    <2>1. qpc[r] = "idle"
      BY <1>7, ZenonT(60) DEF RebuildBlock, Start, Alone
    <2> QED BY <1>7, <2>1, ZenonT(60) DEF Fresh, Host
  <1> QED BY <1>3, <1>4, <1>5, <1>6, <1>7, IndexFrame, QueriesFrame, ZenonT(60)

(***************************************************************************)
(* The theorems.                                                           *)
(***************************************************************************)
\* The inductive invariant holds of a fresh node.
LEMMA InductiveInit == Init => Inductive
  <1> SUFFICES ASSUME Init PROVE Inductive
    BY ZenonT(60)
  <1> USE DEF Init
  <1>1. Typed
    <2>1. /\ tip \in Seq(Txs) /\ flushed \in Seq(Txs) /\ signals \in Seq(Changes)
          /\ queue \in Seq(Numbered) /\ db \in Seq(Seq(Txs)) /\ next_sequence \in Nat
      BY EmptySeq, NodeAssumption, ZenonT(60) DEF NoBlock
    <2>2. event.block \in Seq(Txs)
      BY EmptySeq, ZenonT(60) DEF NoEvent, NoBlock
    <2>3. qpc \in [Queries -> Labels]
      BY ZenonT(60) DEF Labels
    <2>4. query \in [Queries -> Readings]
      BY BlocksAssumption, EmptySeq, ZenonT(60) DEF NoQuery, Readings, NoBlock
    <2> QED BY <2>1, <2>2, <2>3, <2>4, ZenonT(60) DEF Typed
  <1>2. Alone /\ Taken /\ Leased /\ Rebuilding /\ ResumesOnlyCurrent
    BY ZenonT(60) DEF Alone, Taken, Leased, Rebuilding, ResumesOnlyCurrent
  <1>3. Gated
    BY NodeAssumption, ZenonT(60) DEF Gated, Free, Host
  <1>4. Consistent
    BY ZenonT(60) DEF Consistent, Host
  <1>5. IndexIsChain
    BY ChainEmpty, ZenonT(60) DEF IndexIsChain
  <1> QED BY <1>1, <1>2, <1>3, <1>4, <1>5, ZenonT(60) DEF Inductive

\* Every step keeps it.
LEMMA InductiveStep == Inductive /\ [Next]_vars => Inductive'
  <1> SUFFICES ASSUME Inductive, [Next]_vars PROVE Inductive'
    BY ZenonT(60)
  <1>1. CASE Next
    <2>1. Typed'
      BY <1>1, TypedChain, TypedEvents, TypedIndex, TypedQueries, ZenonT(60) DEF Inductive, Typed
    <2>2. Alone' /\ Gated' /\ Taken' /\ Leased'
      BY <1>1, ControlStep, ZenonT(60) DEF Inductive, Control
    <2>3. Consistent'
      BY <1>1, ConsistentStep, ZenonT(60) DEF Inductive
    <2>4. IndexIsChain'
      BY <1>1, IndexStep, ZenonT(60) DEF Inductive
    <2>5. Rebuilding' /\ ResumesOnlyCurrent'
      BY <1>1, BootstrapStep, ZenonT(60) DEF Inductive
    <2> QED BY <2>1, <2>2, <2>3, <2>4, <2>5, ZenonT(60) DEF Inductive
  <1>2. CASE UNCHANGED vars
    <2> USE <1>2 DEF vars, chain, callback, envelope, worker, admission, index, requests, main
    <2>1. Typed' /\ Alone' /\ Gated' /\ Taken' /\ Leased'
      <3>1. Typed' BY ZenonT(60) DEF Inductive, Typed
      <3>2. Alone' BY ZenonT(60) DEF Inductive, Alone
      <3>3. Gated' BY ZenonT(60) DEF Inductive, Gated
      <3>4. Taken' BY ZenonT(60) DEF Inductive, Taken
      <3>5. Leased' BY ZenonT(60) DEF Inductive, Leased
      <3> QED BY <3>1, <3>2, <3>3, <3>4, <3>5, ZenonT(60)
    <2>2. Consistent'
      BY ZenonT(60) DEF Inductive, Consistent, Located
    <2>3. Rebuilding' /\ IndexIsChain' /\ ResumesOnlyCurrent'
      BY ZenonT(60) DEF Inductive, Rebuilding, IndexIsChain, ResumesOnlyCurrent
    <2> QED BY <2>1, <2>2, <2>3, ZenonT(60) DEF Inductive
  <1> QED BY <1>1, <1>2, ZenonT(60)

\* The inductive invariant holds in every reachable state: one holder of the
\* gate and one of the permit, an index that is a chain, queries that agree
\* with the index they hold (RustRuntimeHandle, BootstrapRuntime, TxPermit).
THEOREM InductiveHolds == Spec => []Inductive
  <1>1. Init => Inductive
    BY InductiveInit, ZenonT(60)
  <1>2. Inductive /\ [Next]_vars => Inductive'
    BY InductiveStep, ZenonT(60)
  <1> QED BY <1>1, <1>2, PTL DEF Spec

\* Whatever crash, restart, reindex or disabled run came before, the index on
\* disk is one chain from genesis to its tip (connect_block, disconnect_block).
THEOREM IndexAlwaysChain == Spec => []IndexIsChain
  <1>1. Inductive => IndexIsChain
    BY ZenonT(60) DEF Inductive
  <1> QED BY <1>1, InductiveHolds, PTL

\* Bootstrap goes on only with an index of the active chain (BootstrapRuntime).
THEOREM BootstrapResumesCurrent == Spec => []ResumesOnlyCurrent
  <1>1. Inductive => ResumesOnlyCurrent
    BY ZenonT(60) DEF Inductive
  <1> QED BY <1>1, InductiveHolds, PTL

\* No thread is inside the Rust runtime once it has been taken
\* (RustRuntimeHandle::Destroy against Mutate and Query).
THEOREM RuntimeOutlivesItsUsers == Spec => []NoUseAfterDestroy
  <1>1. Inductive => NoUseAfterDestroy
    <2> SUFFICES ASSUME Inductive PROVE NoUseAfterDestroy
      BY ZenonT(60)
    <2>1. wpc = "mutate" => runtime = "open"
      BY ZenonT(60) DEF Inductive, Gated, Free
    <2>2. \A q \in Queries : qpc[q] \in Host => runtime = "open"
      BY NodeAssumption, ZenonT(60) DEF Inductive, Gated, Free
    <2> QED BY <2>1, <2>2, ZenonT(60) DEF NoUseAfterDestroy
  <1> QED BY <1>1, InductiveHolds, PTL

\* After the observer is gone nobody reads the node's globals through it
\* (~ChronikNodeObserver).
THEOREM ExitIsQuiet == Spec => []QuietAtExit
  <1>1. Inductive => QuietAtExit
    <2> SUFFICES ASSUME Inductive, node = "exit"
                 PROVE  wpc # "mutate" /\ \A q \in Queries : qpc[q] \notin Host
      BY ZenonT(60) DEF QuietAtExit
    <2>1. gate = Free
      BY ZenonT(60) DEF Inductive, Gated, Taken
    <2> QED BY <2>1, NodeAssumption, ZenonT(60) DEF Inductive, Gated, Free
  <1> QED BY <1>1, InductiveHolds, PTL

\* One response body at a time (TxPermit, LeasedTxBytes).
THEOREM OneBody == Spec => []OneBodyAtATime
  <1>1. Inductive => OneBodyAtATime
    <2> SUFFICES ASSUME Inductive PROVE OneBodyAtATime
      BY ZenonT(60)
    <2> DEFINE busy == {q \in Queries : qpc[q] \notin {"idle", "missing"}}
    <2>1. CASE busy = {}
      BY <2>1, FS_EmptySet, SMTT(60) DEF OneBodyAtATime
    <2>2. CASE busy # {}
      <3>1. PICK q \in busy : TRUE
        BY <2>2, ZenonT(60)
      <3>2. busy = {q}
        BY <3>1, ZenonT(60) DEF Inductive, Leased
      <3>3. Cardinality({q}) = 1
        BY FS_Singleton, ZenonT(60)
      <3> QED BY <3>2, <3>3, SMTT(60) DEF OneBodyAtATime
    <2> QED BY <2>1, <2>2, ZenonT(60)
  <1> QED BY <1>1, InductiveHolds, PTL

\* An answer is true of the chain at the moment it is given, whatever the
\* chain and the worker did while the query ran (Query, QueryToken).
THEOREM AnswersAreCurrent == Spec => AnswerIsCurrent
  <1>1. ASSUME Inductive, Next, NEW q \in Queries, qpc[q] = "final"
        PROVE  /\ qpc'[q] = "body" =>
                    /\ ActiveContains(tip, query[q].block)
                    /\ TxOf(query[q].block) = query[q].tx
               /\ qpc'[q] = "missing" =>
                    \/ query[q].tx \notin Range(tip)
                    \/ query[q].route = "token" /\ query[q].tx \notin Tokens
    <2> DEFINE block == query[q].block
               tx == query[q].tx
    <2>1. CASE qpc'[q] \notin {"body", "missing"}
      BY <2>1, ZenonT(60)
    <2>2. CASE qpc'[q] \in {"body", "missing"}
      <3>1. Typed /\ IndexIsChain /\ Consistent
        BY <1>1, ZenonT(60) DEF Inductive
      <3>2. /\ query[q].tip = tip
            /\ qpc'[q] = "body" <=> block # NoBlock
        <4>1. PICK r \in Queries : Query(r)
          <5>1. ~ProcessEnds
            BY <2>2, ZenonT(60) DEF ProcessEnds
          <5>2. ~UNCHANGED <<qpc, query>>
            BY <1>1, <2>2, ZenonT(60)
          <5> QED BY <1>1, <5>1, <5>2, QueriesFrame, ZenonT(60)
        <4>2. r = q
          <5>1. \E l : Goto(r, l)
            BY <4>1, QueryDoes, ZenonT(60) DEF QuerySteps, Unavailable
          <5> QED BY <1>1, <2>2, <3>1, <5>1, ZenonT(60) DEF Goto, Typed
        <4>3. ~Goto(q, "idle")
          BY <2>2, <3>1, ZenonT(60) DEF Goto, Typed
        <4>4. QueryAnswer(q)
          BY <1>1, <4>1, <4>2, <4>3, ZenonT(60) DEF Query, Request, QueryAdmit, QueryTip, QueryLookup,
             QueryRead, QueryEncode, QueryCopy, Payload, QueryFails, ResponseDropped,
             Unavailable
        <4>5. /\ CurrentAtAnswer(q)
              /\ Goto(q, IF block # NoBlock THEN "body" ELSE "missing")
          BY <4>3, <4>4, ZenonT(60) DEF QueryAnswer, Unavailable
        <4> QED BY <3>1, <4>5, ZenonT(60) DEF CurrentAtAnswer, TipIsCurrent, Goto, Typed
      <3>3. db = ChainOf(tip) /\ block = Located(q) /\ query[q].route \in {"tx", "token"}
        BY <1>1, <3>1, <3>2, ZenonT(60) DEF IndexIsChain, Consistent, Host
      <3>4. /\ tip \in Seq(Txs) /\ db \in Seq(Seq(Txs)) /\ Len(tip) \in Nat
            /\ Len(db) = Len(tip) /\ \A n \in 1 .. Len(tip) : db[n] = SubSeq(tip, 1, n)
        <4>1. tip \in Seq(Txs) /\ db \in Seq(Seq(Txs))
          BY <3>1, ZenonT(60) DEF Typed
        <4>2. Len(tip) \in Nat
          BY <4>1, LenProperties, ZenonT(60)
        <4>3. Len(db) = Len(tip) /\ \A n \in 1 .. Len(db) : db[n] = SubSeq(tip, 1, n)
          <5> DEFINE t == tip
                     e == db
          <5>1. t \in Seq(Txs) /\ e \in Seq(Seq(Txs)) /\ e = ChainOf(t)
            BY <3>3, <4>1, ZenonT(60)
          <5> HIDE DEF t, e
          <5>2. Len(e) = Len(t) /\ \A n \in 1 .. Len(e) : e[n] = SubSeq(t, 1, n)
            BY <5>1, ChainIff, SMTT(60)
          <5> QED BY <5>2, ZenonT(60) DEF t, e
        <4> QED BY <4>1, <4>2, <4>3, ZenonT(60)
      <3>5. \A n \in 1 .. Len(tip) :
              /\ db[n] \in Seq(Txs) /\ Len(db[n]) = n /\ db[n] # NoBlock
              /\ TxOf(db[n]) = tip[n]
        <4> TAKE n \in 1 .. Len(tip)
        <4>1. n \in 0 .. Len(tip) /\ n \in 1 .. n
          BY <3>4, SMTT(60)
        <4>2. /\ db[n] \in Seq(Txs) /\ Len(db[n]) = n
              /\ \A i \in 1 .. n : db[n][i] = tip[i]
          BY <3>4, <4>1, PrefixOf, SMTT(60)
        <4>3. db[n] # NoBlock
          BY <3>4, <4>2, EmptySeq, SMTT(60) DEF NoBlock
        <4> QED BY <4>1, <4>2, <4>3, ZenonT(60) DEF TxOf, Last
      <3>6. CASE qpc'[q] = "body"
        <4>1. block = TxLocation(db, tx) /\ block # NoBlock
          BY <3>2, <3>3, <3>6, ZenonT(60) DEF Located, TokenInfo
        <4>2. PICK n \in 1 .. Len(tip) : block = db[n] /\ TxOf(db[n]) = tx
          <5>1. TxLocation(db, tx) # NoBlock =>
                  \E n \in 1 .. Len(db) :
                    TxLocation(db, tx) = db[n] /\ TxOf(db[n]) = tx
            BY <3>4, LocationOf, ZenonT(60)
          <5> QED BY <3>4, <4>1, <5>1, ZenonT(60)
        <4>3. block \in Seq(Txs) /\ Len(block) = n /\ block = SubSeq(tip, 1, n)
          BY <3>4, <3>5, <4>2, ZenonT(60)
        <4>4. IsPrefix(block, tip)
          BY <3>4, <4>3, SMTT(60) DEF IsPrefix
        <4> QED BY <3>6, <4>1, <4>2, <4>4, ZenonT(60) DEF ActiveContains
      <3>7. CASE qpc'[q] = "missing"
        <4>1. CASE query[q].route = "token" /\ tx \notin Tokens
          BY <3>7, <4>1, ZenonT(60)
        <4>2. CASE ~(query[q].route = "token" /\ tx \notin Tokens)
          <5>1. TxLocation(db, tx) = NoBlock
            BY <3>2, <3>3, <3>7, <4>2, ZenonT(60) DEF Located, TokenInfo
          <5>2. \A n \in 1 .. Len(tip) : TxOf(db[n]) # tx
            <6>1. \A n \in 1 .. Len(db) :
                    TxOf(db[n]) = tx => \E k \in 1 .. Len(db) : TxLocation(db, tx) = db[k]
              BY <3>4, LocationOf, ZenonT(60)
            <6> QED BY <3>4, <3>5, <5>1, <6>1, ZenonT(60)
          <5>3. tx \notin Range(tip)
            <6>1. DOMAIN tip = 1 .. Len(tip)
              BY <3>4, LenProperties, ZenonT(60)
            <6>2. \A n \in 1 .. Len(tip) : tip[n] # tx
              BY <3>5, <5>2, ZenonT(60)
            <6> QED BY <6>1, <6>2, ZenonT(60) DEF Range
          <5> QED BY <3>7, <5>3, ZenonT(60)
        <4> QED BY <4>1, <4>2, ZenonT(60)
      <3> QED BY <2>2, <3>6, <3>7, ZenonT(60)
    <2> QED BY <2>1, <2>2, ZenonT(60)
  <1> DEFINE Answers ==
        \A q \in Queries :
          qpc[q] = "final" =>
            /\ qpc'[q] = "body" =>
                 ActiveContains(tip, query[q].block) /\ TxOf(query[q].block) = query[q].tx
            /\ qpc'[q] = "missing" =>
                 \/ query[q].tx \notin Range(tip)
                 \/ query[q].route = "token" /\ query[q].tx \notin Tokens
  <1>2. Inductive /\ [Next]_vars => [Answers]_vars
    BY <1>1, ZenonT(60)
  <1> QED BY <1>2, InductiveHolds, PTL DEF Spec, AnswerIsCurrent

-----------------------------------------------------------------------------
(***************************************************************************)
(* The way of a change from the chain to the index: signalled, queued in   *)
(* the envelope, in the worker's hand.  Each part leads from one tip to    *)
(* another, and together from the indexed tip to the active one.           *)
(***************************************************************************)
\* One change leads from the tip before it to the tip after it.
LEMMA LeadsOne ==
  ASSUME NEW e, NEW from, NEW to
  PROVE  Leads(from, <<e>>, to) <=> From(e) = from /\ To(e) = to
<1>1. <<e>> # <<>> /\ Head(<<e>>) = e /\ Last(<<e>>) = e /\ Len(<<e>>) = 1
  BY SMTT(60) DEF Last
<1> QED BY <1>1, SMTT(60) DEF Leads

\* A change reported last goes on from the tip the others lead to.
LEMMA LeadsAppend ==
  ASSUME NEW S, NEW s \in Seq(S), NEW e \in S, NEW from, Leads(from, s, From(e))
  PROVE  Leads(from, Append(s, e), To(e))
<1> DEFINE a == Append(s, e)
<1>1. /\ a \in Seq(S) /\ Len(a) = Len(s) + 1 /\ a # <<>> /\ Len(s) \in Nat
      /\ \A i \in 1 .. Len(s) : a[i] = s[i]
      /\ a[Len(s) + 1] = e
  BY AppendProperties, EmptySeq, LenProperties, SMTT(60)
<1> HIDE DEF a
<1>2. Last(a) = e BY <1>1, ZenonT(60) DEF Last
<1>3. Head(a) = a[1] BY <1>1, HeadTailProperties, SMTT(60)
<1>4. CASE s = <<>>
  <2>1. Len(s) = 0 /\ from = From(e) BY <1>4, EmptySeq, ZenonT(60) DEF Leads
  <2>2. a[1] = e /\ Len(a) = 1 BY <1>1, <2>1, SMTT(60)
  <2> QED BY <1>1, <1>2, <1>3, <2>1, <2>2, SMTT(60) DEF Leads, a
<1>5. CASE s # <<>>
  <2>1. /\ Len(s) # 0 /\ Head(s) = s[1] /\ Last(s) = s[Len(s)]
    BY <1>5, EmptySeq, HeadTailProperties, SMTT(60) DEF Last
  <2>2. /\ From(s[1]) = from /\ To(s[Len(s)]) = From(e)
        /\ \A i \in 1 .. Len(s) - 1 : To(s[i]) = From(s[i + 1])
    BY <1>5, <2>1, ZenonT(60) DEF Leads
  <2>3. a[1] = s[1] BY <1>1, <2>1, SMTT(60)
  <2>4. ASSUME NEW i \in 1 .. Len(a) - 1 PROVE To(a[i]) = From(a[i + 1])
    <3>1. CASE i = Len(s) BY <1>1, <2>2, <3>1, SMTT(60)
    <3>2. CASE i # Len(s)
      <4>1. i \in 1 .. Len(s) - 1 /\ i \in 1 .. Len(s) /\ i + 1 \in 1 .. Len(s)
        BY <1>1, <3>2, SMTT(60)
      <4> QED BY <1>1, <2>2, <4>1, ZenonT(60)
    <3> QED BY <3>1, <3>2, ZenonT(60)
  <2> QED BY <1>1, <1>2, <1>3, <2>2, <2>3, <2>4, ZenonT(60) DEF Leads, a
<1> QED BY <1>4, <1>5, ZenonT(60)

\* Without the first change, the others go on from where it led.
LEMMA LeadsTail ==
  ASSUME NEW S, NEW s \in Seq(S), s # <<>>, NEW from, NEW to, Leads(from, s, to)
  PROVE  From(Head(s)) = from /\ Leads(To(Head(s)), Tail(s), to)
<1> DEFINE t == Tail(s)
<1>1. /\ t \in Seq(S) /\ Len(s) \in Nat \ {0} /\ Len(t) = Len(s) - 1 /\ Head(s) = s[1]
      /\ \A i \in 1 .. Len(t) : t[i] = s[i + 1]
  BY HeadTailProperties, EmptySeq, LenProperties, SMTT(60)
<1>2. /\ From(s[1]) = from /\ To(s[Len(s)]) = to
      /\ \A i \in 1 .. Len(s) - 1 : To(s[i]) = From(s[i + 1])
  BY <1>1, ZenonT(60) DEF Leads, Last
<1> HIDE DEF t
<1>3. CASE t = <<>>
  <2>1. Len(s) = 1 BY <1>1, <1>3, EmptySeq, SMTT(60)
  <2> QED BY <1>1, <1>2, <1>3, <2>1, ZenonT(60) DEF Leads, t
<1>4. CASE t # <<>>
  <2>1. /\ Len(t) # 0 /\ Head(t) = t[1]
    BY <1>1, <1>4, EmptySeq, HeadTailProperties, SMTT(60)
  <2>2. From(t[1]) = To(s[1])
    BY <1>1, <1>2, <2>1, SMTT(60)
  <2>3. t[Len(t)] = s[Len(s)]
    BY <1>1, <2>1, SMTT(60)
  <2>4. ASSUME NEW i \in 1 .. Len(t) - 1 PROVE To(t[i]) = From(t[i + 1])
    <3>1. /\ i \in 1 .. Len(t) /\ i + 1 \in 1 .. Len(t) /\ i + 1 \in 1 .. Len(s) - 1
      BY <1>1, SMTT(60)
    <3> QED BY <1>1, <1>2, <3>1, ZenonT(60)
  <2> QED BY <1>1, <1>2, <1>4, <2>1, <2>2, <2>3, <2>4, ZenonT(60) DEF Leads, Last, t
<1> QED BY <1>3, <1>4, ZenonT(60)

\* Two parts of the way, one after the other.
LEMMA LeadsJoin ==
  ASSUME NEW S, NEW s \in Seq(S), NEW t \in Seq(S), NEW from, NEW via, NEW to,
         Leads(from, s, via), Leads(via, t, to)
  PROVE  Leads(from, s \o t, to)
<1>1. CASE s = <<>>
  <2>1. s \o t = t BY <1>1, ConcatEmptySeq, ZenonT(60)
  <2> QED BY <1>1, <2>1, ZenonT(60) DEF Leads
<1>2. CASE t = <<>>
  <2>1. s \o t = s BY <1>2, ConcatEmptySeq, ZenonT(60)
  <2> QED BY <1>2, <2>1, ZenonT(60) DEF Leads
<1>3. CASE s # <<>> /\ t # <<>>
  <2> DEFINE c == s \o t
  <2>1. /\ c \in Seq(S) /\ Len(c) = Len(s) + Len(t)
        /\ \A i \in 1 .. Len(c) : c[i] = IF i <= Len(s) THEN s[i] ELSE t[i - Len(s)]
        /\ Len(s) \in Nat \ {0} /\ Len(t) \in Nat \ {0}
    BY <1>3, ConcatProperties, EmptySeq, LenProperties, ZenonT(60)
  <2> HIDE DEF c
  <2>2. /\ Head(s) = s[1] /\ Head(t) = t[1] /\ c # <<>> /\ Head(c) = c[1]
    BY <1>3, <2>1, HeadTailProperties, EmptySeq, SMTT(60)
  <2>3. /\ From(s[1]) = from /\ To(s[Len(s)]) = via
        /\ \A i \in 1 .. Len(s) - 1 : To(s[i]) = From(s[i + 1])
    BY <1>3, <2>2, ZenonT(60) DEF Leads, Last
  <2>4. /\ From(t[1]) = via /\ To(t[Len(t)]) = to
        /\ \A i \in 1 .. Len(t) - 1 : To(t[i]) = From(t[i + 1])
    BY <1>3, <2>2, ZenonT(60) DEF Leads, Last
  <2>5. c[1] = s[1] /\ c[Len(c)] = t[Len(t)]
    <3>1. /\ 1 \in 1 .. Len(c) /\ 1 <= Len(s)
          /\ Len(c) \in 1 .. Len(c) /\ ~(Len(c) <= Len(s)) /\ Len(c) - Len(s) = Len(t)
      <4> DEFINE m == Len(s)
                 k == Len(t)
      <4>1. m \in Nat \ {0} /\ k \in Nat \ {0} /\ Len(c) = m + k
        BY <2>1, ZenonT(60)
      <4> HIDE DEF m, k
      <4>2. /\ 1 \in 1 .. m + k /\ 1 <= m
            /\ m + k \in 1 .. m + k /\ ~(m + k <= m) /\ m + k - m = k
        BY <4>1, SMTT(60)
      <4>3. /\ 1 \in 1 .. Len(c) /\ 1 <= m
            /\ Len(c) \in 1 .. Len(c) /\ ~(Len(c) <= m) /\ Len(c) - m = k
        BY <4>1, <4>2, SMTT(60)
      <4> QED BY <4>3, ZenonT(60) DEF m, k
    <3> QED BY <2>1, <3>1, ZenonT(60)
  <2>6. ASSUME NEW i \in 1 .. Len(c) - 1 PROVE To(c[i]) = From(c[i + 1])
    <3>1. CASE i < Len(s)
      <4>1. i \in 1 .. Len(s) - 1 /\ i \in 1 .. Len(c) /\ i + 1 \in 1 .. Len(c)
            /\ i <= Len(s) /\ i + 1 <= Len(s)
        BY <2>1, <3>1, SMTT(60)
      <4> QED BY <2>1, <2>3, <4>1, ZenonT(60)
    <3>2. CASE i = Len(s)
      <4>1. i \in 1 .. Len(c) /\ i + 1 \in 1 .. Len(c) /\ i <= Len(s)
            /\ ~(i + 1 <= Len(s)) /\ i + 1 - Len(s) = 1
        BY <2>1, <3>2, SMTT(60)
      <4>2. c[i] = s[Len(s)] /\ c[i + 1] = t[1]
        BY <2>1, <3>2, <4>1, SMTT(60)
      <4> QED BY <2>3, <2>4, <4>2, ZenonT(60)
    <3>3. CASE i > Len(s)
      <4>1. PICK j \in 1 .. Len(t) - 1 : i = Len(s) + j
        <5>1. i - Len(s) \in 1 .. Len(t) - 1 /\ i = Len(s) + (i - Len(s))
          BY <2>1, <3>3, SMTT(60)
        <5> QED BY <5>1, ZenonT(60)
      <4>2. /\ i \in 1 .. Len(c) /\ i + 1 \in 1 .. Len(c) /\ ~(i <= Len(s))
            /\ ~(i + 1 <= Len(s)) /\ i - Len(s) = j /\ i + 1 - Len(s) = j + 1
        BY <2>1, <3>3, <4>1, SMTT(60)
      <4>3. c[i] = t[j] /\ c[i + 1] = t[j + 1]
        BY <2>1, <4>2, SMTT(60)
      <4> QED BY <2>4, <4>3, ZenonT(60)
    <3> QED BY <2>1, <3>1, <3>2, <3>3, SMTT(60)
  <2> QED BY <2>1, <2>2, <2>3, <2>4, <2>5, <2>6, ZenonT(60) DEF Leads, Last, c
<1> QED BY <1>1, <1>2, <1>3, ZenonT(60)

\* A sequence is what is left of it when something was appended and removed.
LEMMA FrontAppend ==
  ASSUME NEW S, NEW s \in Seq(S), NEW e \in S
  PROVE  Front(Append(s, e)) = s
<1> DEFINE a == Append(s, e)
<1>1. /\ a \in Seq(S) /\ Len(a) = Len(s) + 1 /\ a # <<>> /\ Len(s) \in Nat
      /\ \A i \in 1 .. Len(s) : a[i] = s[i]
  BY AppendProperties, EmptySeq, LenProperties, SMTT(60)
<1> HIDE DEF a
<1>2. /\ Front(a) \in Seq(S) /\ Len(Front(a)) = Len(s)
      /\ \A i \in 1 .. Len(s) : Front(a)[i] = a[i]
  <2>1. /\ Front(a) \in Seq(S) /\ Len(Front(a)) = Len(a) - 1
        /\ \A i \in 1 .. Len(a) - 1 : Front(a)[i] = a[i]
    BY <1>1, FrontOf, ZenonT(60)
  <2>2. Len(a) - 1 = Len(s) BY <1>1, SMTT(60)
  <2> QED BY <2>1, <2>2, ZenonT(60)
<1>3. Front(a) = s BY <1>1, <1>2, SeqEqual, ZenonT(60)
<1> QED BY <1>3, ZenonT(60) DEF a

\* The tip of a chain.
LEMMA TipOfChain ==
  ASSUME NEW d \in Seq(Seq(Txs)), NEW t \in Seq(Txs), d = ChainOf(t)
  PROVE  RuntimeTip(d) = t
<1>1. Len(d) = Len(t) /\ \A n \in 1 .. Len(d) : d[n] = SubSeq(t, 1, n)
  BY ChainIff, SMTT(60)
<1>2. CASE d = <<>>
  BY <1>1, <1>2, TipOf, EmptySeq, ZenonT(60) DEF NoBlock
<1>3. CASE d # <<>>
  <2>1. RuntimeTip(d) = d[Len(d)] /\ Len(d) \in Nat \ {0} BY <1>3, TipOf, ZenonT(60)
  <2>2. SubSeq(t, 1, Len(t)) = t BY SubSeqFull, ZenonT(60)
  <2> QED BY <1>1, <2>1, <2>2, SMTT(60)
<1> QED BY <1>2, <1>3, ZenonT(60)

\* The tip of a chain without its last block is the parent of its tip.
LEMMA TipOfFront ==
  ASSUME NEW d \in Seq(Seq(Txs)), d # <<>>, d = ChainOf(RuntimeTip(d))
  PROVE  RuntimeTip(Front(d)) = Front(RuntimeTip(d))
<1> DEFINE t == RuntimeTip(d)
           f == Front(d)
           k == Len(d) - 1
<1>1. t \in Seq(Txs) /\ Len(d) \in Nat \ {0} /\ k \in Nat
  BY TipOf, SMTT(60)
<1>2. Len(t) = Len(d) /\ \A n \in 1 .. Len(d) : d[n] = SubSeq(t, 1, n)
  BY <1>1, ChainIff, SMTT(60)
<1>3. f \in Seq(Seq(Txs)) /\ Len(f) = k /\ \A n \in 1 .. k : f[n] = d[n]
  BY FrontOf, ZenonT(60)
<1>4. Front(t) = SubSeq(t, 1, k)
  BY <1>2, ZenonT(60) DEF Front
<1> HIDE DEF t, f, k
<1>5. CASE f = <<>>
  <2>1. k = 0 /\ 0 \in 0 .. Len(t) BY <1>1, <1>2, <1>3, <1>5, EmptySeq, SMTT(60)
  <2>2. SubSeq(t, 1, 0) \in Seq(Txs) /\ Len(SubSeq(t, 1, 0)) = 0
    BY <1>1, <2>1, PrefixOf, ZenonT(60)
  <2>3. SubSeq(t, 1, 0) = <<>> BY <2>2, EmptySeq, ZenonT(60)
  <2>4. RuntimeTip(f) = NoBlock BY <1>3, <1>5, TipOf, ZenonT(60)
  <2> QED BY <1>4, <2>1, <2>3, <2>4, ZenonT(60) DEF NoBlock, t, f
<1>6. CASE f # <<>>
  <2>1. RuntimeTip(f) = f[k] /\ k \in 1 .. k /\ k \in 1 .. Len(d)
    <3>1. RuntimeTip(f) = f[Len(f)] /\ Len(f) \in Nat \ {0} BY <1>3, <1>6, TipOf, ZenonT(60)
    <3>2. Len(d) = k + 1 BY <1>1, SMTT(60) DEF k
    <3> QED BY <1>3, <3>1, <3>2, SMTT(60)
  <2>2. f[k] = SubSeq(t, 1, k) BY <1>2, <1>3, <2>1, ZenonT(60)
  <2> QED BY <1>4, <2>1, <2>2, ZenonT(60) DEF t, f
<1> QED BY <1>5, <1>6, ZenonT(60)

\* Where the worker holds a change that is not in the index.
Carrying == {"observe", "lock", "mutate"}
Hand == IF wpc \in Carrying THEN <<event>> ELSE <<>>

\* The three parts of the way.
Route ==
  \E m, n : /\ Leads(RuntimeTip(db), Hand, m)
            /\ Leads(m, queue, n)
            /\ Leads(n, signals, tip)

Tracking == Observing /\ runtime_active /\ wpc # "disable"

\* Nothing is on its way before registration, and nothing is refused before
\* the observer is unregistered.
Before == {"down", "bootstrap", "rebuild", "project"}
Unstarted ==
  /\ node \in Before => signals = <<>> /\ queue = <<>>
  /\ node \in Before \cup {"plain", "up", "flush"} => ~stopping

LEMMA UnstartedStep ==
  ASSUME Unstarted, Next
  PROVE  Unstarted'
<1> USE DEF Unstarted, Before
<1>1. CASE ConnectTip \/ DisconnectTip
  BY <1>1, SMTT(60) DEF ConnectTip, DisconnectTip, Running, envelope, main
<1>2. CASE Flush \/ Service
  BY <1>2, SMTT(60) DEF Flush, Service, ServiceStops, ServiceJoined, chain, envelope, main
<1>3. CASE Callback \/ CallbackThrows
  BY <1>3, SMTT(60) DEF Callback, CallbackThrows, Registered, Submits, envelope, main
<1>4. CASE CallbackSnapshot \/ CallbackMarks
  BY <1>4, SMTT(60) DEF CallbackSnapshot, CallbackMarks, chain, envelope, main
<1>5. CASE Worker
  <2>1. /\ UNCHANGED <<node, signals, stopping>>
        /\ queue' = queue \/ queue # <<>>
    BY <1>5, ZenonT(60) DEF Worker, WorkerLoops, WorkerTakesEvent, WorkerSeesEmpty,
       WorkerStopsOrWaits, WorkerWakes, ConsumerObserves, ConsumerLocks, ConsumerMutates,
       ConsumerDisables, ConsumerTakes, ConsumerJoined, ConsumerVerdict, ConsumerThrows,
       WorkerDegrades, chain, envelope, main
  <2> QED BY <2>1, ZenonT(60)
<1>6. ASSUME NEW q \in Queries, Query(q) PROVE Unstarted'
  <2>1. UNCHANGED <<node, signals, queue, stopping>>
    BY <1>6, ZenonT(60) DEF Query, Request, QueryAdmit, QueryTip, QueryLookup, QueryRead,
       QueryEncode, QueryCopy, Payload, QueryAnswer, QueryFails, ResponseDropped,
       QueryFrame, chain, envelope, main
  <2> QED BY <2>1, ZenonT(60)
<1>7. CASE Starting
  <2>1. UNCHANGED <<signals, queue, stopping>> /\ node \in Before
    BY <1>7, ZenonT(60) DEF Starting, Start, BootstrapRuntime, RebuildBlock, Rebuilds, Register,
       StartFails, StartFrame, chain, envelope
  <2> QED BY <2>1, ZenonT(60)
<1>8. CASE Shutdown \/ Stopping
  <2>1. /\ node' \in {"flush", "exit", "drain", "take", "join"}
        /\ node' = "flush" => stopping' = stopping /\ node = "up"
    BY <1>8, ZenonT(60) DEF Shutdown, Running, Stopping, StopNodeObserver, EndDrain, OwnerTakes,
       OwnerJoined, envelope
  <2> QED BY <2>1, SMTT(60)
<1>9. CASE ProcessEnds
  BY <1>9, ZenonT(60) DEF ProcessEnds
<1> QED BY <1>1, <1>2, <1>3, <1>4, <1>5, <1>6, <1>7, <1>8, <1>9, ZenonT(60) DEF Next, Scheduler

\* The steps that move no change along and leave the index alone.
LEMMA RouteFrame ==
  ASSUME Next, Tracking',
         ~ConnectTip, ~DisconnectTip, ~Callback, ~WorkerTakesEvent, ~ConsumerMutates,
         ~Register
  PROVE  Tracking /\ UNCHANGED <<tip, signals, queue, db>> /\ Hand' = Hand
<1> DEFINE Still == UNCHANGED <<tip, signals, queue, db, failed, runtime_active>>
<1>0. /\ node' \in {"up", "flush", "drain"} /\ ~failed' /\ cpc' # "mark"
      /\ wpc' \notin {"degrade", "disable"} /\ runtime_active'
  BY ZenonT(60) DEF Tracking, Observing
<1>1. CASE Flush \/ Service
  <2>1. Still /\ UNCHANGED <<node, cpc, wpc, event>>
    BY <1>1, ZenonT(60) DEF Flush, Service, ServiceStops, ServiceJoined, chain, callback, envelope,
       worker, index, main
  <2> QED BY <1>0, <2>1, ZenonT(60) DEF Hand, Tracking, Observing
<1>2. CASE CallbackSnapshot \/ CallbackThrows \/ CallbackMarks
  <2>1. Still /\ UNCHANGED <<node, wpc, event>> /\ cpc = "snapshot"
    BY <1>0, <1>2, ZenonT(60) DEF CallbackSnapshot, CallbackThrows, CallbackMarks, chain, envelope,
       worker, index, main
  <2> QED BY <1>0, <2>1, ZenonT(60) DEF Hand, Tracking, Observing
<1>3. CASE Worker
  <2>1. CASE WorkerLoops \/ WorkerSeesEmpty \/ WorkerStopsOrWaits \/ WorkerWakes
    <3>1. /\ Still /\ UNCHANGED <<node, cpc>>
          /\ wpc \in {"loop", "poll", "empty", "wait"} /\ wpc' \notin Carrying
      BY <2>1, ZenonT(60) DEF WorkerLoops, WorkerSeesEmpty, WorkerStopsOrWaits, WorkerWakes, Carrying,
         chain, callback, envelope, index, main
    <3> QED BY <1>0, <3>1, ZenonT(60) DEF Hand, Tracking, Observing, Carrying
  <2>2. CASE ConsumerObserves \/ ConsumerLocks
    <3>1. /\ Still /\ UNCHANGED <<node, cpc, event>>
          /\ wpc \in Carrying /\ wpc' \in {"lock", "mutate"}
      BY <1>0, <2>2, ZenonT(60) DEF ConsumerObserves, ConsumerLocks, Carrying, chain, callback,
         envelope, index, main
    <3> QED BY <1>0, <3>1, ZenonT(60) DEF Hand, Tracking, Observing, Carrying
  <2>3. CASE ConsumerDisables \/ ConsumerThrows \/ WorkerDegrades
    BY <1>0, <2>3, ZenonT(60) DEF ConsumerDisables, ConsumerThrows, WorkerDegrades
  <2>4. CASE ConsumerTakes \/ ConsumerJoined \/ ConsumerVerdict
    <3>1. /\ Still /\ UNCHANGED <<node, cpc>>
          /\ wpc \in {"take", "join", "verdict"} /\ wpc' \in {"join", "verdict", "loop"}
      BY <1>0, <2>4, ZenonT(60) DEF ConsumerTakes, ConsumerJoined, ConsumerVerdict, chain, callback,
         envelope, index, main
    <3> QED BY <1>0, <3>1, ZenonT(60) DEF Hand, Tracking, Observing, Carrying
  <2> QED BY <1>3, <2>1, <2>2, <2>3, <2>4, ZenonT(60) DEF Worker
<1>4. ASSUME NEW q \in Queries, Query(q)
      PROVE  Tracking /\ UNCHANGED <<tip, signals, queue, db>> /\ Hand' = Hand
  <2>1. Still /\ UNCHANGED <<node, cpc, wpc, event>>
    BY <1>4, ZenonT(60) DEF Query, Request, QueryAdmit, QueryTip, QueryLookup, QueryRead,
       QueryEncode, QueryCopy, Payload, QueryAnswer, QueryFails, ResponseDropped,
       QueryFrame, chain, callback, envelope, worker, index, main
  <2> QED BY <1>0, <2>1, ZenonT(60) DEF Hand, Tracking, Observing
<1>5. ~Starting
  BY <1>0, ZenonT(60) DEF Starting, Start, BootstrapRuntime, RebuildBlock, Rebuilds, StartFails,
     StartFrame
<1>6. CASE Shutdown \/ Stopping
  <2>1. /\ Still /\ UNCHANGED <<cpc, wpc, event>> /\ node \in {"up", "flush"}
    BY <1>0, <1>6, ZenonT(60) DEF Shutdown, Running, Stopping, StopNodeObserver, EndDrain, OwnerTakes,
       OwnerJoined, chain, callback, envelope, worker, index
  <2> QED BY <1>0, <2>1, ZenonT(60) DEF Hand, Tracking, Observing
<1>7. ~ProcessEnds
  BY <1>0, ZenonT(60) DEF ProcessEnds
<1> QED BY <1>1, <1>2, <1>3, <1>4, <1>5, <1>6, <1>7, ZenonT(60) DEF Next, Scheduler

\* A change of the chain is signalled with its place behind the others.
LEMMA RouteGrows ==
  ASSUME Typed, Tracking => Route, Tracking', ConnectTip \/ DisconnectTip
  PROVE  Route'
<1>0. /\ UNCHANGED <<queue, db, wpc, event, cpc, failed, runtime_active, node>>
      /\ node \in {"up", "plain"}
  BY ZenonT(60) DEF ConnectTip, DisconnectTip, Running, callback, envelope, worker, index, main
<1>1. /\ UNCHANGED <<queue, db, wpc, event>> /\ Tracking /\ node = "up"
  BY <1>0, ZenonT(60) DEF Tracking, Observing
<1>2. PICK c \in Changes : signals' = Append(signals, c) /\ From(c) = tip /\ To(c) = tip'
  <2>1. CASE ConnectTip
    <3>1. PICK b \in Children(tip) : tip' = b /\ signals' = Append(signals, BlockConnected(b))
      BY <1>1, <2>1, ZenonT(60) DEF ConnectTip, Signal
    <3>2. PICK tx \in Txs : b = Append(tip, tx)
      BY BlocksAssumption, ZenonT(60) DEF Children
    <3>3. b \in Seq(Txs) /\ Front(b) = tip
      BY <3>2, AppendProperties, FrontAppend, ZenonT(60) DEF Typed
    <3>4. BlockConnected(b) \in Changes
      BY <3>3, ZenonT(60) DEF BlockConnected, Changes, Kinds
    <3>5. From(BlockConnected(b)) = tip /\ To(BlockConnected(b)) = b
      BY <3>3, ZenonT(60) DEF From, To, BlockConnected, PrevHash
    <3> QED BY <3>1, <3>4, <3>5, ZenonT(60)
  <2>2. CASE DisconnectTip
    <3>1. tip' = Front(tip) /\ signals' = Append(signals, BlockDisconnected(tip))
      BY <1>1, <2>2, ZenonT(60) DEF DisconnectTip, Signal, PrevHash
    <3>2. BlockDisconnected(tip) \in Changes
      BY ZenonT(60) DEF BlockDisconnected, Changes, Kinds, Typed
    <3>3. From(BlockDisconnected(tip)) = tip /\ To(BlockDisconnected(tip)) = Front(tip)
      BY ZenonT(60) DEF From, To, BlockDisconnected, PrevHash
    <3> QED BY <3>1, <3>2, <3>3, ZenonT(60)
  <2> QED BY <2>1, <2>2, ZenonT(60)
<1>3. PICK m, n : /\ Leads(RuntimeTip(db), Hand, m) /\ Leads(m, queue, n)
                  /\ Leads(n, signals, tip)
  BY <1>1, ZenonT(60) DEF Route
<1>4. Leads(n, signals', tip')
  BY <1>2, <1>3, LeadsAppend, ZenonT(60) DEF Typed
<1>5. Hand' = Hand BY <1>1, ZenonT(60) DEF Hand
<1> QED BY <1>1, <1>3, <1>4, <1>5, ZenonT(60) DEF Route

\* A callback that does not fail the envelope publishes the change it took.
LEMMA RouteCallback ==
  ASSUME Typed, Unstarted, Tracking => Route, Tracking', Callback
  PROVE  Route'
<1>1. /\ UNCHANGED <<tip, db, wpc, event>> /\ Registered /\ signals # <<>>
      /\ signals' = Tail(signals) /\ Submits(Head(signals))
      /\ node' = node /\ runtime_active' = runtime_active /\ cpc = "idle"
  BY ZenonT(60) DEF Callback, worker, index, main
<1>2. ~failed' /\ ~stopping
  BY <1>1, ZenonT(60) DEF Tracking, Observing, Unstarted, Before, Registered
<1>3. Tracking
  BY <1>1, <1>2, SMTT(60) DEF Tracking, Observing, Submits
<1> DEFINE h == Head(signals)
           e == Stamped(h, NextSequence)
<1>4. queue' = Append(queue, e)
  BY <1>1, <1>2, SMTT(60) DEF Submits, Refuses, Open
<1>5. h \in Changes /\ NextSequence \in Nat
  BY <1>1, HeadTailProperties, ProjectionAssumption, SMTT(60) DEF Typed, NextSequence
<1>6. e \in Numbered /\ e.kind = h.kind /\ e.block = h.block
  BY <1>5, ZenonT(60) DEF Stamped, Numbered, Changes
<1>7. From(e) = From(h) /\ To(e) = To(h)
  BY <1>6, ZenonT(60) DEF From, To
<1>8. PICK m, n : /\ Leads(RuntimeTip(db), Hand, m) /\ Leads(m, queue, n)
                  /\ Leads(n, signals, tip)
  BY <1>3, ZenonT(60) DEF Route
<1> HIDE DEF h, e
<1>9. From(h) = n /\ Leads(To(h), signals', tip)
  BY <1>1, <1>8, LeadsTail, ZenonT(60) DEF Typed, h
<1>10. Leads(m, queue', To(e))
  BY <1>4, <1>6, <1>7, <1>8, <1>9, LeadsAppend, ZenonT(60) DEF Typed
<1>11. Hand' = Hand BY <1>1, ZenonT(60) DEF Hand
<1> QED BY <1>1, <1>7, <1>8, <1>9, <1>10, <1>11, ZenonT(60) DEF Route

\* The worker takes the first event of the envelope into its hand.
LEMMA RouteTakes ==
  ASSUME Typed, Tracking => Route, Tracking', WorkerTakesEvent
  PROVE  Route'
<1>1. /\ UNCHANGED <<tip, db, signals>> /\ wpc = "poll" /\ wpc' = "observe"
      /\ queue # <<>> /\ event' = Head(queue) /\ queue' = Tail(queue) /\ Tracking
  BY ZenonT(60) DEF WorkerTakesEvent, chain, callback, index, main, Tracking, Observing
<1>2. Hand = <<>> /\ Hand' = <<Head(queue)>>
  BY <1>1, ZenonT(60) DEF Hand, Carrying
<1>3. PICK m, n : /\ Leads(RuntimeTip(db), Hand, m) /\ Leads(m, queue, n)
                  /\ Leads(n, signals, tip)
  BY <1>1, ZenonT(60) DEF Route
<1>4. m = RuntimeTip(db) BY <1>2, <1>3, ZenonT(60) DEF Leads
<1>5. From(Head(queue)) = m /\ Leads(To(Head(queue)), Tail(queue), n)
  BY <1>1, <1>3, LeadsTail, ZenonT(60) DEF Typed
<1>6. Leads(RuntimeTip(db), Hand', To(Head(queue)))
  BY <1>2, <1>4, <1>5, LeadsOne, ZenonT(60)
<1> QED BY <1>1, <1>3, <1>5, <1>6, ZenonT(60) DEF Route

\* A change that is written leads the index to where the next one begins.
LEMMA RouteMutates ==
  ASSUME Typed, IndexIsChain, Tracking => Route, Tracking', ConsumerMutates
  PROVE  Route'
<1>1. /\ UNCHANGED <<tip, queue, signals, event>> /\ wpc = "mutate" /\ Tracking
      /\ wpc' = "verdict" /\ Fits(db, event) /\ db' = Mutated(db, event)
  BY ZenonT(60) DEF ConsumerMutates, chain, callback, envelope, main, Tracking, Observing
<1>2. Hand = <<event>> /\ Hand' = <<>>
  BY <1>1, ZenonT(60) DEF Hand, Carrying
<1>3. PICK m, n : /\ Leads(RuntimeTip(db), Hand, m) /\ Leads(m, queue, n)
                  /\ Leads(n, signals, tip)
  BY <1>1, ZenonT(60) DEF Route
<1>4. From(event) = RuntimeTip(db) /\ To(event) = m
  BY <1>2, <1>3, LeadsOne, ZenonT(60)
<1>5. RuntimeTip(db') = m
  <2>1. CASE event.kind = "connected"
    <3>1. /\ Height(event.block) = Len(db) /\ PrevHash(event.block) = RuntimeTip(db)
          /\ db' = Append(db, event.block)
      BY <1>1, <2>1, ZenonT(60) DEF Fits, Mutated
    <3>2. RuntimeTip(Append(db, event.block)) = event.block
      BY <3>1, ChainAppend, ZenonT(60) DEF Typed, IndexIsChain
    <3> QED BY <1>4, <2>1, <3>1, <3>2, ZenonT(60) DEF To
  <2>2. CASE event.kind # "connected"
    <3>1. db # <<>> /\ event.block = RuntimeTip(db) /\ db' = Front(db)
      BY <1>1, <2>2, ZenonT(60) DEF Fits, Mutated
    <3>2. RuntimeTip(Front(db)) = Front(RuntimeTip(db))
      BY <3>1, TipOfFront, ZenonT(60) DEF Typed, IndexIsChain
    <3> QED BY <1>4, <2>2, <3>1, <3>2, ZenonT(60) DEF To, PrevHash
  <2> QED BY <2>1, <2>2, ZenonT(60)
<1>6. Leads(RuntimeTip(db'), Hand', m) BY <1>2, <1>5, ZenonT(60) DEF Leads
<1> QED BY <1>1, <1>3, <1>6, ZenonT(60) DEF Route

\* At registration the index is the active chain's and nothing is on its way.
LEMMA RouteRegister ==
  ASSUME Typed, IndexIsChain, ResumesOnlyCurrent, Unstarted, Tracking', Register
  PROVE  Route'
<1>1. /\ UNCHANGED <<tip, queue, signals, db, runtime_active>> /\ node = "project"
      /\ wpc' = "loop" /\ runtime_active
  BY ZenonT(60) DEF Register, chain, envelope, index, Tracking
<1>2. queue = <<>> /\ signals = <<>> /\ db = ChainOf(tip)
  BY <1>1, ZenonT(60) DEF Unstarted, Before, ResumesOnlyCurrent
<1>3. RuntimeTip(db) = tip
  BY <1>2, TipOfChain, ZenonT(60) DEF Typed
<1>4. Hand' = <<>> BY <1>1, ZenonT(60) DEF Hand, Carrying
<1>5. Leads(tip, <<>>, tip) BY ZenonT(60) DEF Leads
<1>6. /\ Leads(RuntimeTip(db'), Hand', tip) /\ Leads(tip, queue', tip)
      /\ Leads(tip, signals', tip')
  BY <1>1, <1>2, <1>3, <1>4, <1>5, ZenonT(60)
<1> QED BY <1>6, ZenonT(60) DEF Route

\* Every step keeps the way whole.
LEMMA RouteStep ==
  ASSUME Inductive, Unstarted, Tracking => Route, [Next]_vars, Tracking'
  PROVE  Route'
<1>0. Typed /\ IndexIsChain /\ ResumesOnlyCurrent
  BY ZenonT(60) DEF Inductive
<1>1. CASE UNCHANGED vars
  <2>1. UNCHANGED <<tip, signals, queue, db, wpc, event, node, cpc, failed, runtime_active>>
    BY <1>1, ZenonT(60) DEF vars, chain, callback, envelope, worker, index, main
  <2>2. Tracking BY <2>1, ZenonT(60) DEF Tracking, Observing
  <2> QED BY <2>1, <2>2, ZenonT(60) DEF Route, Hand
<1>2. CASE ConnectTip \/ DisconnectTip BY <1>0, <1>2, RouteGrows, ZenonT(60)
<1>3. CASE Callback BY <1>0, <1>3, RouteCallback, ZenonT(60)
<1>4. CASE WorkerTakesEvent BY <1>0, <1>4, RouteTakes, ZenonT(60)
<1>5. CASE ConsumerMutates BY <1>0, <1>5, RouteMutates, ZenonT(60)
<1>6. CASE Register BY <1>0, <1>6, RouteRegister, ZenonT(60)
<1>7. CASE /\ Next /\ ~ConnectTip /\ ~DisconnectTip /\ ~Callback /\ ~WorkerTakesEvent
           /\ ~ConsumerMutates /\ ~Register
  <2>1. Tracking /\ UNCHANGED <<tip, signals, queue, db>> /\ Hand' = Hand
    BY <1>7, RouteFrame, ZenonT(60)
  <2> QED BY <2>1, ZenonT(60) DEF Route
<1> QED BY <1>1, <1>2, <1>3, <1>4, <1>5, <1>6, <1>7, ZenonT(60)

\* The three parts make up what is in flight.
LEMMA RouteInFlight ==
  ASSUME Typed, Tracking => Route
  PROVE  IndexTracksChain
<1> SUFFICES ASSUME Tracking
             PROVE  Leads(RuntimeTip(db), InFlight({"observe", "lock", "mutate"}), tip)
  BY ZenonT(60) DEF IndexTracksChain, Tracking
<1>1. PICK m, n : /\ Leads(RuntimeTip(db), Hand, m) /\ Leads(m, queue, n)
                  /\ Leads(n, signals, tip)
  BY ZenonT(60) DEF Route
<1> DEFINE S == Numbered \cup Changes \cup {event}
<1>2. queue \in Seq(S) /\ signals \in Seq(S)
  BY SeqMonotonic, ZenonT(60) DEF Typed
<1>3. Hand \in Seq(S)
  <2>1. event \in S BY ZenonT(60)
  <2> HIDE DEF S
  <2>2. <<event>> \in Seq(S) /\ <<>> \in Seq(S) BY <2>1, SMTT(60)
  <2> QED BY <2>2, ZenonT(60) DEF Hand
<1> HIDE DEF S
<1>4. Leads(RuntimeTip(db), Hand \o queue, n)
  BY <1>1, <1>2, <1>3, LeadsJoin, ZenonT(60)
<1>5. Hand \o queue \in Seq(S)
  BY <1>2, <1>3, ConcatProperties, ZenonT(60)
<1>6. Leads(RuntimeTip(db), (Hand \o queue) \o signals, tip)
  BY <1>1, <1>2, <1>4, <1>5, LeadsJoin, ZenonT(60)
<1> QED BY <1>6, ZenonT(60) DEF InFlight, Hand, Carrying

\* As long as nothing has failed, the changes in the worker's hand, in the
\* envelope and in the scheduler's queue lead from the indexed tip to the
\* active one, through every reorganisation and restart: BlockConnected and
\* BlockDisconnected lose none, Submit and the worker keep their order, the
\* consumer writes each of them once.
THEOREM IndexFollowsChain == Spec => []IndexTracksChain
<1>1. Init => Unstarted /\ (Tracking => Route)
  <2>1. Init => node = "down" /\ signals = <<>> /\ queue = <<>> /\ stopping = FALSE
    BY ZenonT(60) DEF Init
  <2> QED BY <2>1, ZenonT(60) DEF Unstarted, Tracking, Observing
<1>2. Inductive /\ Unstarted /\ (Tracking => Route) /\ [Next]_vars
        => (Unstarted /\ (Tracking => Route))'
  <2>1. Unstarted /\ [Next]_vars => Unstarted'
    <3>1. Unstarted /\ UNCHANGED vars => Unstarted'
      BY SMTT(60) DEF Unstarted, vars, chain, envelope, main
    <3> QED BY <3>1, UnstartedStep, ZenonT(60)
  <2> QED BY <2>1, RouteStep, ZenonT(60)
<1>3. Inductive /\ (Tracking => Route) => IndexTracksChain
  BY RouteInFlight, ZenonT(60) DEF Inductive
<1> QED BY <1>1, <1>2, <1>3, InductiveHolds, PTL DEF Spec
=============================================================================
