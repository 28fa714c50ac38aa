------------------------- MODULE JournalReplayProofs -------------------------
(***************************************************************************)
(* Proofs about JournalReplay, for any transactions and blocks, any length *)
(* of the chain, any budget of the journal and any number of epochs: every *)
(* recorded event is applied, leased or queued; what is published is the   *)
(* node's chain and pool; what is answered was the node's when it was      *)
(* checked; Stop closes admission for good.                                *)
(*                                                                         *)
(* The argument for exactness does not follow the events: Publish compares *)
(* the pool, the tip and the height of the index with a capture of the     *)
(* node, a chain of the block tree is determined by its tip and height,    *)
(* and a binding stands for one state of the node.                         *)
(***************************************************************************)
EXTENDS JournalReplay, SequenceTheorems, WellFoundedInduction, TLAPS

IsLog(j) ==
  /\ j = [accepted |-> j.accepted, queue |-> j.queue, charged |-> j.charged,
          failure |-> j.failure, closed |-> j.closed]
  /\ j.accepted \in Nat /\ j.charged \in Int
  /\ \E S : j.queue \in Seq(S)

IsGate(g) ==
  /\ g = [epoch |-> g.epoch, mode |-> g.mode, binding |-> g.binding]
  /\ g.epoch \in Nat

IsRequest(r) ==
  r = [pc |-> r.pc, permit |-> r.permit, view |-> r.view, agreed |-> r.agreed]

\* A chain of the block tree, from its root.
IsChain(c) ==
  /\ \E S : c \in Seq(S)
  /\ \A i \in 1 .. Len(c) : Prev[c[i]] = IF i = 1 THEN Root ELSE c[i - 1]

\* The places where Drain holds the lease of an event.
Leasing == {"load", "guard", "apply"}

Typed ==
  /\ mempool_revision \in Nat
  /\ IsLog(journal) /\ IsGate(gate) /\ IsRequest(request)
  /\ IsChain(chain) /\ IsChain(index.chain) /\ index.sequence \in Nat
  /\ IF rpc \in Leasing THEN lease = <<lease[1]>> ELSE lease = <<>>

\* Where the events are; Fail and Cancel end the worker and the count.
Accounted ==
  rpc # "exit" =>
    /\ journal.accepted = index.sequence + Len(lease) + Len(journal.queue)
    /\ journal.charged = Len(lease) + Len(journal.queue)
    /\ journal.charged <= MaxEvents
    /\ rpc \in Leasing => lease[1].number = index.sequence + 1

\* A binding is of the past, or of the chain and the pool it stands for.
Shows(binding, c, p) ==
  /\ binding[4] \in Nat /\ binding[4] <= mempool_revision
  /\ binding = Binding => c = chain /\ p = pool

\* A capture has the pool of its binding.
Captured ==
  /\ captured.binding[4] \in Nat /\ captured.binding[4] <= mempool_revision
  /\ captured.binding = Binding => captured.pool = pool

Views ==
  /\ gate.mode = Ready => Shows(gate.binding, index.chain, index.overlay.txs)
  /\ rpc = "apply" => gate.mode # Ready
  /\ rpc \in {"prepare", "commit"} => Captured
  /\ rpc = "commit" => applied_capture[1] = captured.binding /\ MatchesCapture

View == <<index.chain, index.overlay.txs>>

\* A permit of the gate's epoch was given while the gate was open, and what
\* was read under it is what the index still shows.
Requests ==
  /\ request.pc # "idle" =>
       /\ request.permit = <<request.permit[1], request.permit[2]>>
       /\ request.permit[1] \in 0 .. gate.epoch
       /\ request.permit[1] = gate.epoch => gate.mode # Busy
  /\ request.pc \in {"recheck", "reconfirm"} /\ GateAdmits(gate, request.permit)
       => request.view = View
  /\ request.pc \in {"reconfirm", "answered"} => request.agreed

\* Every step of the node, the journal, the worker, the owner and a request
\* preserves this.
Inductive == Typed /\ Accounted /\ Views /\ Requests /\ StopClosesAdmission

-----------------------------------------------------------------------------
(* The gate.                                                               *)

\* begin, fail and close leave a gate that admits nobody; a busy gate is in
\* a new epoch, and closed is for good (ergon_service.rs).
LEMMA GateShuts ==
  ASSUME NEW g, IsGate(g), NEW h \in {GateBegin(g), GateFail(g), GateClose(g)}
  PROVE  /\ IsGate(h) /\ h.mode # Ready /\ h.epoch >= g.epoch
         /\ h.mode = Busy => h.epoch > g.epoch
         /\ g.mode = Closed \/ h = GateClose(g) => h.mode = Closed
<1> USE DEF Ready, Busy, Failed, Closed
<1>0. PICK e, m, b : e \in Nat /\ g = [epoch |-> e, mode |-> m, binding |-> b]
  BY ZenonT(60) DEF IsGate
<1>1. ASSUME NEW x, NEW y
      PROVE  [g EXCEPT !.mode = x, !.binding = y]
               = [epoch |-> e, mode |-> x, binding |-> y]
  <2>1. PICK k : k = [g EXCEPT !.mode = x]
    BY ZenonT(60)
  <2>2. k = [epoch |-> e, mode |-> x, binding |-> b]
    BY <1>0, <2>1, ZenonT(60)
  <2>3. [k EXCEPT !.binding = y] = [epoch |-> e, mode |-> x, binding |-> y]
    BY <2>2, SMTT(60)
  <2> QED BY <2>1, <2>3, ZenonT(60)
<1>2. g.epoch = e /\ g.mode = m
  BY <1>0, ZenonT(60)
<1>3. \/ h = g /\ m \in {Failed, Closed}
      \/ h = [epoch |-> e + 1, mode |-> Busy, binding |-> NoBinding]
         /\ m \notin {Failed, Closed}
      \/ \E x \in {Failed, Closed} :
           /\ h = [epoch |-> e, mode |-> x, binding |-> NoBinding]
           /\ m = Closed \/ h = GateClose(g) => x = Closed
  <2>1. CASE h = GateBegin(g)
    <3>1. GateTerminal(g) <=> m \in {Failed, Closed}
      BY <1>2, ZenonT(60) DEF GateTerminal
    <3>2. CASE GateTerminal(g)
      BY <2>1, <3>1, <3>2, ZenonT(60) DEF GateBegin
    <3>3. CASE ~GateTerminal(g) /\ g.epoch < MaxEpoch
      BY <1>2, <2>1, <3>1, <3>3, ZenonT(60) DEF GateBegin
    <3>4. CASE ~GateTerminal(g) /\ ~(g.epoch < MaxEpoch)
      <4>1. h = [epoch |-> e, mode |-> Failed, binding |-> NoBinding]
        BY <1>1, <2>1, <3>4, ZenonT(60) DEF GateBegin
      <4>2. GateClose(g).mode = Closed
        BY <1>1, ZenonT(60) DEF GateClose
      <4> QED BY <3>1, <3>4, <4>1, <4>2, ZenonT(60)
    <3> QED BY <3>2, <3>3, <3>4, ZenonT(60)
  <2>2. CASE h = GateFail(g)
    <3>1. h = [g EXCEPT !.mode = IF m = Closed THEN Closed ELSE Failed,
                        !.binding = NoBinding]
      BY <1>2, <2>2, ZenonT(60) DEF GateFail
    <3>2. h = [epoch |-> e, mode |-> IF m = Closed THEN Closed ELSE Failed,
               binding |-> NoBinding]
      BY <1>1, <3>1, ZenonT(60)
    <3>3. GateClose(g).mode = Closed
      BY <1>1, ZenonT(60) DEF GateClose
    <3> QED BY <3>2, <3>3, ZenonT(60)
  <2>3. CASE h = GateClose(g)
    BY <1>1, <2>3, ZenonT(60) DEF GateClose
  <2> QED BY <2>1, <2>2, <2>3, ZenonT(60)
<1>4. GateClose(g) = [epoch |-> e, mode |-> Closed, binding |-> NoBinding]
  BY <1>1, ZenonT(60) DEF GateClose
<1> QED BY <1>0, <1>2, <1>3, <1>4, SMTT(60) DEF IsGate

\* publish opens a busy gate for its epoch and binding, or leaves it alone.
LEMMA GateOpens ==
  ASSUME NEW g, IsGate(g), NEW epoch, NEW binding,
         NEW h, h = GatePublish(g, epoch, binding)
  PROVE  /\ IsGate(h) /\ h.epoch = g.epoch
         /\ \/ h = g
            \/ g.mode = Busy /\ h.mode = Ready /\ h.binding = binding
<1>0. PICK e, m, b : e \in Nat /\ g = [epoch |-> e, mode |-> m, binding |-> b]
  BY ZenonT(60) DEF IsGate
<1>1. PICK k : k = [g EXCEPT !.mode = Ready]
  BY ZenonT(60)
<1>2. k = [epoch |-> e, mode |-> Ready, binding |-> b]
  BY <1>0, <1>1, ZenonT(60)
<1>3. [k EXCEPT !.binding = binding]
        = [epoch |-> e, mode |-> Ready, binding |-> binding]
  BY <1>2, SMTT(60)
<1> QED BY <1>0, <1>1, <1>3, ZenonT(60) DEF GatePublish, GatePublishes, IsGate

-----------------------------------------------------------------------------
(* Chains of the block tree.                                               *)

\* A block on top of a chain (ConnectTip, apply_journal_block).
LEMMA ChainGrows ==
  ASSUME NEW c, IsChain(c), NEW b, Prev[b] = TipOf(c)
  PROVE  IsChain(Append(c, b))
<1>1. PICK S : c \in Seq(S)
  BY ZenonT(60) DEF IsChain
<1> DEFINE T == S \cup {b}
<1>2. c \in Seq(T) /\ b \in T
  BY <1>1, SMTT(60)
<1> HIDE DEF T
<1>3. /\ Append(c, b) \in Seq(T) /\ Len(Append(c, b)) = Len(c) + 1
      /\ \A i \in 1 .. Len(c) : Append(c, b)[i] = c[i]
      /\ Append(c, b)[Len(c) + 1] = b /\ Len(c) \in Nat
  BY <1>2, SMTT(60)
<1>4. Prev[b] = IF Len(c) + 1 = 1 THEN Root ELSE c[Len(c)]
  BY <1>2, <1>3, SMTT(60) DEF TipOf, Last
<1> QED BY <1>3, <1>4, SMTT(60) DEF IsChain

\* A chain without the blocks above a height.
LEMMA ChainShrinks ==
  ASSUME NEW c, IsChain(c), NEW n \in 0 .. Len(c)
  PROVE  /\ IsChain(SubSeq(c, 1, n)) /\ Len(SubSeq(c, 1, n)) = n
         /\ \A i \in 1 .. n : SubSeq(c, 1, n)[i] = c[i]
<1>1. PICK S : c \in Seq(S)
  BY ZenonT(60) DEF IsChain
<1>2. /\ SubSeq(c, 1, n) \in Seq(S) /\ Len(SubSeq(c, 1, n)) = n
      /\ \A i \in 1 .. n : SubSeq(c, 1, n)[i] = c[i]
  BY <1>1, SMTT(60)
<1> DEFINE d == SubSeq(c, 1, n)
<1> HIDE DEF d
<1>3. ASSUME NEW i \in 1 .. n
      PROVE  Prev[d[i]] = IF i = 1 THEN Root ELSE d[i - 1]
  <2>1. d[i] = c[i] /\ (i # 1 => d[i - 1] = c[i - 1]) /\ i \in 1 .. Len(c)
    BY <1>1, <1>2, SMTT(60) DEF d
  <2> QED BY <2>1, ZenonT(60) DEF IsChain
<1>4. IsChain(d)
  BY <1>2, <1>3, ZenonT(60) DEF IsChain, d
<1> QED BY <1>2, <1>4, ZenonT(60) DEF d

\* The empty sequence is the one without elements.
LEMMA NoElements ==
  ASSUME NEW S, NEW s \in Seq(S)
  PROVE  s = <<>> <=> Len(s) = 0
BY SMTT(60)

\* Two sequences in a row.
LEMMA ConcatOf ==
  ASSUME NEW S, NEW s \in Seq(S), NEW t \in Seq(S)
  PROVE  /\ s \o t \in Seq(S) /\ Len(s \o t) = Len(s) + Len(t)
         /\ \A i \in 1 .. Len(s) : (s \o t)[i] = s[i]
         /\ \A i \in 1 .. Len(t) : (s \o t)[Len(s) + i] = t[i]
         /\ Len(s) \in Nat /\ Len(t) \in Nat
BY ConcatProperties, SMTT(60)

\* Blocks that build one on the other, on top of a chain.
LEMMA ChainExtends ==
  ASSUME NEW c, IsChain(c), NEW n \in Nat, NEW blocks \in [1 .. n -> Blocks],
         \A i \in 1 .. n : Prev[blocks[i]] = TipOf(c \o SubSeq(blocks, 1, i - 1))
  PROVE  IsChain(c \o blocks)
<1>1. PICK S : c \in Seq(S)
  BY ZenonT(60) DEF IsChain
<1> DEFINE T == S \cup Blocks
<1>2. c \in Seq(T) /\ blocks \in Seq(T) /\ Len(blocks) = n
  BY <1>1, SMTT(60)
<1> HIDE DEF T
<1>3. /\ c \o blocks \in Seq(T) /\ Len(c \o blocks) = Len(c) + n
      /\ \A i \in 1 .. Len(c) : (c \o blocks)[i] = c[i]
      /\ \A i \in 1 .. n : (c \o blocks)[Len(c) + i] = blocks[i]
      /\ Len(c) \in Nat
  <2>1. c \o blocks \in Seq(T) /\ Len(c \o blocks) = Len(c) + Len(blocks)
    BY <1>2, ConcatOf, ZenonT(60)
  <2>2. \A i \in 1 .. Len(c) : (c \o blocks)[i] = c[i]
    BY <1>2, ConcatOf, ZenonT(60)
  <2>3. \A i \in 1 .. Len(blocks) : (c \o blocks)[Len(c) + i] = blocks[i]
    BY <1>2, ConcatOf, SMTT(60)
  <2>4. Len(c) \in Nat
    BY <1>2, SMTT(60)
  <2> QED BY <1>2, <2>1, <2>2, <2>3, <2>4, ZenonT(60)
<1>4. ASSUME NEW i \in 1 .. n
      PROVE  TipOf(c \o SubSeq(blocks, 1, i - 1))
               = IF Len(c) + i = 1 THEN Root ELSE (c \o blocks)[Len(c) + i - 1]
  <2> DEFINE d == SubSeq(blocks, 1, i - 1)
  <2>1. d \in Seq(T) /\ Len(d) = i - 1 /\ \A k \in 1 .. i - 1 : d[k] = blocks[k]
    BY <1>2, SMTT(60)
  <2> HIDE DEF d
  <2>2. /\ c \o d \in Seq(T) /\ Len(c \o d) = Len(c) + (i - 1)
        /\ \A k \in 1 .. Len(c) : (c \o d)[k] = c[k]
        /\ \A k \in 1 .. i - 1 : (c \o d)[Len(c) + k] = d[k]
    <3>0. c \in Seq(T) /\ d \in Seq(T)
      BY <1>2, <2>1, ZenonT(60)
    <3>1. c \o d \in Seq(T) /\ Len(c \o d) = Len(c) + Len(d)
      BY <3>0, ConcatOf, ZenonT(60)
    <3>2. \A k \in 1 .. Len(c) : (c \o d)[k] = c[k]
      BY <3>0, ConcatOf, ZenonT(60)
    <3>3. \A k \in 1 .. Len(d) : (c \o d)[Len(c) + k] = d[k]
      BY <3>0, ConcatOf, SMTT(60)
    <3> QED BY <2>1, <3>1, <3>2, <3>3, ZenonT(60)
  <2>3. c \o d = <<>> <=> Len(c \o d) = 0
    BY <2>2, NoElements, ZenonT(60)
  <2>4. CASE Len(c) + i = 1
    <3>1. c \o d = <<>>
      BY <1>3, <2>2, <2>3, <2>4, SMTT(60)
    <3> QED BY <2>4, <3>1, ZenonT(60) DEF TipOf, d
  <2>5. CASE Len(c) + i # 1
    <3>1. Len(c \o d) # 0 /\ Len(c) + i - 1 \in 1 .. Len(c) + (i - 1)
      BY <1>3, <2>2, <2>5, SMTT(60)
    <3>2. TipOf(c \o d) = (c \o d)[Len(c) + i - 1]
      BY <1>3, <2>2, <2>3, <3>1, ZenonT(60) DEF TipOf, Last
    <3>3. (c \o d)[Len(c) + i - 1] = (c \o blocks)[Len(c) + i - 1]
      <4>1. CASE i = 1
        <5>1. Len(c) + i - 1 \in 1 .. Len(c)
          BY <1>3, <3>1, <4>1, SMTT(60)
        <5> QED BY <1>3, <2>2, <5>1, ZenonT(60)
      <4>2. CASE i # 1
        <5>1. i - 1 \in 1 .. i - 1 /\ i - 1 \in 1 .. n
              /\ Len(c) + i - 1 = Len(c) + (i - 1)
          BY <1>3, <4>2, SMTT(60)
        <5>2. (c \o d)[Len(c) + (i - 1)] = d[i - 1]
          BY <2>2, <5>1, ZenonT(60)
        <5>3. (c \o blocks)[Len(c) + (i - 1)] = blocks[i - 1]
          BY <1>3, <5>1, ZenonT(60)
        <5> QED BY <2>1, <5>1, <5>2, <5>3, ZenonT(60)
      <4> QED BY <4>1, <4>2, ZenonT(60)
    <3> QED BY <2>5, <3>2, <3>3, ZenonT(60) DEF d
  <2> QED BY <2>4, <2>5, ZenonT(60)
<1>5. ASSUME NEW k \in 1 .. Len(c) + n
      PROVE  Prev[(c \o blocks)[k]] = IF k = 1 THEN Root ELSE (c \o blocks)[k - 1]
  <2>1. CASE k <= Len(c)
    BY <1>3, <2>1, SMTT(60) DEF IsChain
  <2>2. CASE k > Len(c)
    <3> DEFINE i == k - Len(c)
    <3>1. i \in 1 .. n /\ k = Len(c) + i
      BY <1>3, <2>2, SMTT(60)
    <3> HIDE DEF i
    <3>2. (c \o blocks)[k] = blocks[i]
      BY <1>3, <3>1, ZenonT(60)
    <3> QED BY <1>4, <3>1, <3>2, SMTT(60)
  <2> QED BY <1>3, <2>1, <2>2, SMTT(60)
<1> QED BY <1>3, <1>5, ZenonT(60) DEF IsChain

\* A chain is determined by its tip and its height.
LEMMA SameTip ==
  ASSUME NEW c, IsChain(c), NEW d, IsChain(d),
         TipOf(c) = TipOf(d), Len(c) = Len(d)
  PROVE  c = d
<1> DEFINE n == Len(c)
           R == OpToRel(<, Nat)
           U == {k \in 0 .. n - 1 : c[n - k] # d[n - k]}
<1>1. /\ n \in Nat /\ n = Len(d)
      /\ \E S : c \in Seq(S)
      /\ \E S : d \in Seq(S)
  BY SMTT(60) DEF IsChain
<1>2. ASSUME U # {} PROVE FALSE
  <2>0. IsWellFoundedOn(R, Nat)
    BY NatLessThanWellFounded, ZenonT(60)
  <2> HIDE DEF R
  <2>1. U \subseteq Nat
    BY <1>1, SMTT(60)
  <2> HIDE DEF U
  <2>2. PICK k \in U : \A j \in U : ~(<<j, k>> \in R)
    BY <1>2, <2>0, <2>1, WFMin, ZenonT(60)
  <2>3. k \in 0 .. n - 1 /\ c[n - k] # d[n - k]
    BY <2>2, ZenonT(60) DEF U
  <2>4. k # 0
    <3>1. c # <<>> /\ d # <<>> /\ n > 0
      BY <1>1, <2>3, SMTT(60)
    <3> QED BY <1>1, <2>3, <3>1, SMTT(60) DEF TipOf, Last
  <2>5. k - 1 \in Nat /\ <<k - 1, k>> \in R
    BY <1>1, <2>3, <2>4, SMTT(60) DEF R, OpToRel
  <2>6. c[n - (k - 1)] = d[n - (k - 1)]
    BY <1>1, <2>2, <2>3, <2>5, SMTT(60) DEF U
  <2>7. n - (k - 1) \in 2 .. n /\ n - (k - 1) - 1 = n - k
    BY <1>1, <2>3, <2>4, SMTT(60)
  <2>8. /\ Prev[c[n - (k - 1)]] = c[n - (k - 1) - 1]
        /\ Prev[d[n - (k - 1)]] = d[n - (k - 1) - 1]
    BY <1>1, <2>7, SMTT(60) DEF IsChain
  <2> QED BY <2>3, <2>6, <2>7, <2>8, ZenonT(60)
<1>3. \A i \in 1 .. n : c[i] = d[i]
  <2> TAKE i \in 1 .. n
  <2>1. n - i \in 0 .. n - 1 /\ n - (n - i) = i
    BY <1>1, SMTT(60)
  <2> QED BY <1>2, <2>1, ZenonT(60)
<1> QED BY <1>1, <1>3, SMTT(60)

\* Every change of the source has a revision of its own, and leaves a chain.
LEMMA SourceMoves ==
  ASSUME IsChain(chain), SourceStep
  PROVE  mempool_revision' = mempool_revision + 1 /\ IsChain(chain')
<1> DEFINE Counted == mempool_revision' = mempool_revision + 1
           Linked == IsChain(chain')
<1>0. Len(chain) \in Nat
  BY SMTT(60) DEF IsChain
<1>1. \A t, expired, trimmed :
        Accept(t, expired, trimmed) => Counted /\ chain' = chain
  BY ZenonT(60) DEF Accept
<1>2. Prioritise => Counted /\ chain' = chain
  BY ZenonT(60) DEF Prioritise
<1>3. ASSUME NEW refused, NEW expired, Unwind(refused, expired)
      PROVE  Counted /\ Linked
  <2>1. chain # <<>> /\ chain' = SubSeq(chain, 1, Len(chain) - 1) /\ Counted
    BY <1>3, ZenonT(60) DEF Unwind, Front
  <2>2. Len(chain) - 1 \in 0 .. Len(chain)
    BY <1>0, <2>1, SMTT(60) DEF IsChain
  <2> QED BY <2>1, <2>2, ChainShrinks, ZenonT(60)
<1>4. ASSUME NEW keep \in 0 .. Len(chain),
             NEW blocks \in [1 .. Len(chain) - keep + 1 -> Blocks],
             NEW refused, NEW expired, Activate(keep, blocks, refused, expired)
      PROVE  Counted /\ Linked
  <2> DEFINE fork == SubSeq(chain, 1, keep)
             n == Len(chain) - keep + 1
  <2>1. /\ Counted /\ chain' = fork \o blocks
        /\ \A i \in 1 .. Len(blocks) :
             ValidOn(fork \o SubSeq(blocks, 1, i - 1), blocks[i])
    BY <1>4, ZenonT(60) DEF Activate
  <2>2. IsChain(fork)
    BY ChainShrinks, ZenonT(60)
  <2>3. n \in Nat /\ Len(blocks) = n
    BY <1>0, SMTT(60)
  <2> HIDE DEF fork, n
  <2>4. blocks \in [1 .. n -> Blocks]
    BY ZenonT(60) DEF n
  <2>5. \A i \in 1 .. n : Prev[blocks[i]] = TipOf(fork \o SubSeq(blocks, 1, i - 1))
    BY <2>1, <2>3, ZenonT(60) DEF ValidOn
  <2>6. IsChain(fork \o blocks)
    BY <2>2, <2>3, <2>4, <2>5, ChainExtends, ZenonT(60)
  <2> QED BY <2>1, <2>6, ZenonT(60)
<1> HIDE DEF Counted
<1>5. Counted /\ Linked
  BY <1>1, <1>2, <1>3, <1>4, ZenonT(60) DEF SourceStep
<1> QED BY <1>5, ZenonT(60) DEF Counted

-----------------------------------------------------------------------------
(* The journal.                                                            *)

\* What the operations do to the three counts (validation_event_journal.h).
LEMMA LogMoves ==
  ASSUME NEW j, IsLog(j)
  PROVE  /\ Len(j.queue) \in Nat
         /\ \A e, h : h = Recording(j, e, MaxEvents) \/ h = Failing(j, "Allocation") =>
              /\ IsLog(h)
              /\ \/ /\ h.accepted = j.accepted /\ h.charged = j.charged
                    /\ h.queue = j.queue
                 \/ /\ h.accepted = j.accepted + 1 /\ h.charged = j.charged + 1
                    /\ Len(h.queue) = Len(j.queue) + 1 /\ j.charged < MaxEvents
         /\ j.queue # <<>> =>
              /\ IsLog(Taking(j)) /\ Len(Taking(j).queue) = Len(j.queue) - 1
              /\ Taking(j).accepted = j.accepted /\ Taking(j).charged = j.charged
         /\ IsLog(Releasing(j)) /\ Releasing(j).queue = j.queue
         /\ Releasing(j).accepted = j.accepted
         /\ Releasing(j).charged = j.charged - 1
         /\ IsLog(Closing(j))
<1>1. PICK a, q, c, f, d :
        /\ j = [accepted |-> a, queue |-> q, charged |-> c, failure |-> f,
                closed |-> d]
        /\ a \in Nat /\ c \in Int /\ \E S : q \in Seq(S)
  BY ZenonT(60) DEF IsLog
<1>2. j.accepted = a /\ j.queue = q /\ j.charged = c
  BY <1>1, ZenonT(60)
<1>3. ASSUME NEW a2 \in Nat, NEW q2, NEW c2 \in Int, NEW f2, NEW d2, NEW S,
             q2 \in Seq(S)
      PROVE  IsLog([accepted |-> a2, queue |-> q2, charged |-> c2,
                    failure |-> f2, closed |-> d2])
  BY <1>3, ZenonT(60) DEF IsLog
<1>4. ASSUME NEW why
      PROVE  Failing(j, why) = [accepted |-> a, queue |-> q, charged |-> c,
                                failure |-> IF f = NoFailure THEN why ELSE f,
                                closed |-> d]
  BY <1>1, SMTT(60) DEF Failing
<1>5. ASSUME NEW e
      PROVE  [j EXCEPT !.accepted = @ + 1, !.charged = @ + 1,
                       !.queue = Append(@, e)]
               = [accepted |-> a + 1, queue |-> Append(q, e), charged |-> c + 1,
                  failure |-> f, closed |-> d]
  <2>1. PICK k : k = [j EXCEPT !.accepted = a + 1]
    BY ZenonT(60)
  <2>2. k = [accepted |-> a + 1, queue |-> q, charged |-> c, failure |-> f,
             closed |-> d]
    BY <1>1, <2>1, ZenonT(60)
  <2>3. PICK l : l = [k EXCEPT !.charged = c + 1]
    BY ZenonT(60)
  <2>4. l = [accepted |-> a + 1, queue |-> q, charged |-> c + 1, failure |-> f,
             closed |-> d]
    BY <2>2, <2>3, ZenonT(60)
  <2>5. [l EXCEPT !.queue = Append(q, e)]
          = [accepted |-> a + 1, queue |-> Append(q, e), charged |-> c + 1,
             failure |-> f, closed |-> d]
    <3>1. PICK r : r = Append(q, e)
      BY ZenonT(60)
    <3>2. [l EXCEPT !.queue = r]
            = [accepted |-> a + 1, queue |-> r, charged |-> c + 1, failure |-> f,
               closed |-> d]
      BY <2>4, SMTT(60)
    <3> QED BY <3>1, <3>2, ZenonT(60)
  <2> QED BY <1>2, <2>1, <2>3, <2>5, ZenonT(60)
<1>6. PICK S : q \in Seq(S)
  BY <1>1, ZenonT(60)
<1>7. ASSUME NEW e
      PROVE  /\ Append(q, e) \in Seq(S \cup {e})
             /\ Len(Append(q, e)) = Len(q) + 1
  <2> DEFINE T == S \cup {e}
  <2>1. q \in Seq(T) /\ e \in T
    BY <1>6, SMTT(60)
  <2> HIDE DEF T
  <2>2. Append(q, e) \in Seq(T) /\ Len(Append(q, e)) = Len(q) + 1
    BY <2>1, SMTT(60)
  <2> QED BY <2>2, ZenonT(60) DEF T
<1>8. Len(q) \in Nat /\ (q # <<>> => Tail(q) \in Seq(S) /\ Len(Tail(q)) = Len(q) - 1)
  BY <1>6, SMTT(60)
<1>9. ASSUME NEW e, NEW h,
             h = Recording(j, e, MaxEvents) \/ h = Failing(j, "Allocation")
      PROVE  /\ IsLog(h)
             /\ \/ /\ h.accepted = j.accepted /\ h.charged = j.charged
                   /\ h.queue = j.queue
                \/ /\ h.accepted = j.accepted + 1 /\ h.charged = j.charged + 1
                   /\ Len(h.queue) = Len(j.queue) + 1 /\ j.charged < MaxEvents
  <2>1. CASE \E why : h = Failing(j, why)
    <3>1. PICK g : h = [accepted |-> a, queue |-> q, charged |-> c,
                        failure |-> g, closed |-> d]
      BY <1>4, <2>1, ZenonT(60)
    <3>2. IsLog(h)
      BY <1>1, <1>3, <1>6, <3>1, ZenonT(60)
    <3> QED BY <1>2, <3>1, <3>2, ZenonT(60)
  <2>2. CASE h = Recording(j, e, MaxEvents) /\ ~(j.charged >= MaxEvents)
    <3>1. h = [accepted |-> a + 1, queue |-> Append(q, e), charged |-> c + 1,
               failure |-> f, closed |-> d]
      BY <1>5, <2>2, ZenonT(60) DEF Recording
    <3>0. a + 1 \in Nat /\ c + 1 \in Int
      BY <1>1, SMTT(60)
    <3>2. IsLog(h)
      BY <1>3, <1>7, <3>0, <3>1, ZenonT(60)
    <3>3. c < MaxEvents
      BY <1>1, <1>2, <2>2, ReplayAssumption, SMTT(60)
    <3> QED BY <1>2, <1>7, <3>1, <3>2, <3>3, ZenonT(60)
  <2> QED BY <1>9, <2>1, <2>2, ZenonT(60) DEF Recording
<1>10. ASSUME NEW x
       PROVE  /\ [j EXCEPT !.queue = x]
                   = [accepted |-> a, queue |-> x, charged |-> c,
                      failure |-> f, closed |-> d]
              /\ [j EXCEPT !.charged = x]
                   = [accepted |-> a, queue |-> q, charged |-> x,
                      failure |-> f, closed |-> d]
              /\ [j EXCEPT !.closed = x]
                   = [accepted |-> a, queue |-> q, charged |-> c,
                      failure |-> f, closed |-> x]
  BY <1>1, SMTT(60)
<1>11. Taking(j) = [accepted |-> a, queue |-> Tail(q), charged |-> c,
                    failure |-> f, closed |-> d]
  BY <1>2, <1>10, ZenonT(60) DEF Taking
<1>12. Releasing(j) = [accepted |-> a, queue |-> q, charged |-> c - 1,
                       failure |-> f, closed |-> d]
  BY <1>2, <1>10, ZenonT(60) DEF Releasing
<1>13. Closing(j) = [accepted |-> a, queue |-> q, charged |-> c,
                     failure |-> f, closed |-> TRUE]
  BY <1>10, ZenonT(60) DEF Closing
<1>14. j.queue # <<>> =>
         /\ IsLog(Taking(j)) /\ Len(Taking(j).queue) = Len(j.queue) - 1
         /\ Taking(j).accepted = j.accepted /\ Taking(j).charged = j.charged
  <2>1. q # <<>> => IsLog(Taking(j))
    BY <1>1, <1>3, <1>8, <1>11, ZenonT(60)
  <2>2. /\ Taking(j).queue = Tail(q) /\ Taking(j).accepted = a
        /\ Taking(j).charged = c
    BY <1>11, SMTT(60)
  <2> QED BY <1>2, <1>8, <2>1, <2>2, ZenonT(60)
<1>15. /\ IsLog(Releasing(j)) /\ Releasing(j).queue = j.queue
       /\ Releasing(j).accepted = j.accepted
       /\ Releasing(j).charged = j.charged - 1
  <2>1. c - 1 \in Int
    BY <1>1, SMTT(60)
  <2>2. IsLog(Releasing(j))
    BY <1>1, <1>3, <1>6, <1>12, <2>1, ZenonT(60)
  <2> QED BY <1>2, <1>12, <2>2, SMTT(60)
<1>16. IsLog(Closing(j))
  BY <1>1, <1>3, <1>6, <1>13, ZenonT(60)
<1> QED BY <1>2, <1>8, <1>9, <1>14, <1>15, <1>16, ZenonT(60)

-----------------------------------------------------------------------------
(* What leaves a part of the invariant alone.                              *)

\* Steps that move no event.
LEMMA AccountedFrame ==
  ASSUME Accounted, UNCHANGED <<journal, index, lease>>,
         rpc' \in Leasing => rpc \in Leasing, rpc = "exit" => rpc' = "exit"
  PROVE  Accounted'
BY ZenonT(60) DEF Accounted, Leasing

\* Steps that neither open the gate nor touch the index or a capture.
LEMMA ViewsFrame ==
  ASSUME Views, UNCHANGED <<chain, pool, chain_generation, mempool_revision, index>>,
         gate' = gate \/ gate'.mode # Ready,
         rpc' = "apply" => rpc = "apply" \/ gate'.mode # Ready,
         rpc' \in {"prepare", "commit"} =>
           rpc' = rpc /\ UNCHANGED <<captured, applied_capture>>
  PROVE  Views'
BY ZenonT(60) DEF Views, Shows, Captured, Binding, MatchesCapture

\* A gate that is shut admits no permit.
LEMMA ShutAdmitsNone ==
  ASSUME NEW g, g.mode # Ready, NEW p, p = <<p[1], p[2]>>
  PROVE  ~GateAdmits(g, p)
BY SMTT(60) DEF GateAdmits, GatePermit, NoPermit

\* Steps that are not of the request, and leave the gate as it is or shut.
LEMMA RequestsFrame ==
  ASSUME Requests, UNCHANGED request, IsGate(gate), IsGate(gate'),
         \/ gate' = gate /\ UNCHANGED index
         \/ /\ gate'.mode # Ready /\ gate'.epoch >= gate.epoch
            /\ gate'.mode = Busy => gate'.epoch > gate.epoch \/ gate' = gate
  PROVE  Requests'
<1>1. CASE gate' = gate /\ UNCHANGED index
  BY <1>1, ZenonT(60) DEF Requests, View
<1>2. CASE gate'.mode # Ready /\ gate'.epoch >= gate.epoch
           /\ (gate'.mode = Busy => gate'.epoch > gate.epoch \/ gate' = gate)
  <2>1. ASSUME request.pc # "idle"
        PROVE  ~GateAdmits(gate', request.permit)
    BY <1>2, <2>1, ShutAdmitsNone, ZenonT(60) DEF Requests
  <2> QED BY <1>2, <2>1, SMTT(60) DEF Requests, IsGate
<1> QED BY <1>1, <1>2, ZenonT(60)

-----------------------------------------------------------------------------
(* The steps.                                                              *)

Shut == {GateBegin(gate), GateFail(gate), GateClose(gate)}

\* A step that moves no event, reads no source and publishes nothing.
Quiet ==
  /\ UNCHANGED <<chain, pool, chain_generation, mempool_revision, journal,
                 index, lease, request>>
  /\ gate' \in {gate} \cup Shut
  /\ stop' # "running" => stop # "running" \/ gate' = GateClose(gate)
  /\ rpc' \in Leasing <=> rpc \in Leasing
  /\ rpc = "exit" => rpc' = "exit"
  /\ rpc' = "apply" => rpc = "apply" \/ gate' \in Shut
  /\ rpc' \in {"prepare", "commit"} =>
       rpc' = rpc /\ UNCHANGED <<captured, applied_capture>>

\* What a step does to the gate and to the word of Stop.
LEMMA GateSteps ==
  ASSUME IsGate(gate), StopClosesAdmission, gate' \in {gate} \cup Shut,
         stop' # "running" => stop # "running" \/ gate' = GateClose(gate)
  PROVE  /\ IsGate(gate') /\ StopClosesAdmission'
         /\ gate' = gate \/ gate'.mode # Ready
         /\ gate' \in Shut => gate'.mode # Ready
         /\ gate'.epoch >= gate.epoch
         /\ gate'.mode = Busy => gate'.epoch > gate.epoch \/ gate' = gate
<1>1. CASE gate' = gate
  <2>1. gate \in Shut => gate.mode # Ready
    BY GateShuts, ZenonT(60) DEF Shut
  <2>2. GateClose(gate).mode = Closed
    BY GateShuts, ZenonT(60)
  <2> QED BY <1>1, <2>1, <2>2, SMTT(60) DEF IsGate, StopClosesAdmission
<1>2. CASE gate' \in Shut
  <2>1. /\ IsGate(gate') /\ gate'.mode # Ready /\ gate'.epoch >= gate.epoch
        /\ gate'.mode = Busy => gate'.epoch > gate.epoch
        /\ gate.mode = Closed \/ gate' = GateClose(gate) => gate'.mode = Closed
    BY <1>2, GateShuts, ZenonT(60) DEF Shut
  <2> QED BY <2>1, ZenonT(60) DEF StopClosesAdmission
<1> QED BY <1>1, <1>2, ZenonT(60)

LEMMA QuietPreserves ==
  ASSUME Inductive, Quiet
  PROVE  Inductive'
<1>0. Typed /\ Accounted /\ Views /\ Requests /\ StopClosesAdmission
  BY ZenonT(60) DEF Inductive
<1>1. /\ IsGate(gate) /\ IsGate(gate') /\ StopClosesAdmission'
      /\ gate' = gate \/ gate'.mode # Ready
      /\ gate' \in Shut => gate'.mode # Ready
      /\ gate'.epoch >= gate.epoch
      /\ gate'.mode = Busy => gate'.epoch > gate.epoch \/ gate' = gate
  BY <1>0, GateSteps, ZenonT(60) DEF Quiet, Typed
<1>2. Typed'
  BY <1>0, <1>1, ZenonT(60) DEF Typed, Quiet
<1>3. Accounted'
  BY <1>0, AccountedFrame, ZenonT(60) DEF Quiet
<1>4. Views'
  BY <1>0, <1>1, ViewsFrame, ZenonT(60) DEF Quiet
<1>5. Requests'
  BY <1>0, <1>1, RequestsFrame, ZenonT(60) DEF Quiet
<1> QED BY <1>1, <1>2, <1>3, <1>4, <1>5, ZenonT(60) DEF Inductive

\* The owner, the queue and the worker between its reads and writes.
LEMMA QuietSteps ==
  ASSUME \/ Push \/ ShutDown \/ LoopEnd \/ LoopRound \/ LoopAcknowledge
         \/ DrainBegin \/ ApplyLoad \/ ApplyGuard \/ DrainEnd
         \/ StartListener \/ StopClose \/ StopJoin,
         Typed
  PROVE  Quiet
<1> USE DEF Quiet, Shut, Leasing, source, probe, worker, owner, Rest, WorkerOnly
<1>1. CASE Push BY <1>1, ZenonT(60) DEF Push
<1>2. CASE ShutDown BY <1>2, ZenonT(60) DEF ShutDown
<1>3. CASE LoopEnd BY <1>3, ZenonT(60) DEF LoopEnd
<1>4. CASE LoopRound BY <1>4, ZenonT(60) DEF LoopRound
<1>5. CASE LoopAcknowledge BY <1>5, ZenonT(60) DEF LoopAcknowledge
<1>6. CASE DrainBegin BY <1>6, ZenonT(60) DEF DrainBegin
<1>7. CASE ApplyLoad BY <1>7, ZenonT(60) DEF ApplyLoad
<1>8. CASE ApplyGuard BY <1>8, ZenonT(60) DEF ApplyGuard
<1>9. CASE DrainEnd BY <1>9, ZenonT(60) DEF DrainEnd
<1>10. CASE StartListener BY <1>10, ZenonT(60) DEF StartListener
<1>11. CASE StopClose BY <1>11, ZenonT(60) DEF StopClose
<1>12. CASE StopJoin BY <1>12, ZenonT(60) DEF StopJoin
<1> QED
  BY <1>1, <1>2, <1>3, <1>4, <1>5, <1>6, <1>7, <1>8, <1>9, <1>10, <1>11, <1>12, ZenonT(60)

\* The node changes: every binding becomes one of the past.
LEMMA ChangeSourcePreserves ==
  ASSUME Inductive, ChangeSource
  PROVE  Inductive'
<1>0. Typed /\ Accounted /\ Views /\ Requests /\ StopClosesAdmission
  BY ZenonT(60) DEF Inductive
<1>1. /\ mempool_revision' = mempool_revision + 1 /\ IsChain(chain')
      /\ UNCHANGED <<journal, index, gate, rpc, lease, captured,
                     applied_capture, stop, request>>
  BY <1>0, SourceMoves, ZenonT(60) DEF ChangeSource, Typed, probe, worker, owner
<1>2. Typed'
  BY <1>0, <1>1, SMTT(60) DEF Typed
<1>3. Accounted'
  BY <1>0, <1>1, AccountedFrame, ZenonT(60)
<1>4. \A b : b[4] \in Nat /\ b[4] <= mempool_revision =>
               b # Binding' /\ b[4] <= mempool_revision'
  BY <1>0, <1>1, SMTT(60) DEF Typed, Binding
<1>5. gate.mode = Ready => Shows(gate.binding, index.chain, index.overlay.txs)'
  BY <1>0, <1>1, <1>4, ZenonT(60) DEF Views, Shows
<1>6. rpc \in {"prepare", "commit"} => Captured'
  BY <1>0, <1>1, <1>4, ZenonT(60) DEF Views, Captured
<1>7. Views'
  BY <1>0, <1>1, <1>5, <1>6, ZenonT(60) DEF Views, MatchesCapture
<1>8. Requests' /\ StopClosesAdmission'
  BY <1>0, <1>1, ZenonT(60) DEF Requests, View, StopClosesAdmission
<1> QED BY <1>2, <1>3, <1>7, <1>8, ZenonT(60) DEF Inductive

\* What recording does to the journal.
LEMMA LogRecords ==
  ASSUME NEW j, IsLog(j), NEW e, NEW h,
         h = Recording(j, e, MaxEvents) \/ h = Failing(j, "Allocation")
  PROVE  /\ IsLog(h)
         /\ \/ /\ h.accepted = j.accepted /\ h.charged = j.charged
               /\ h.queue = j.queue
            \/ /\ h.accepted = j.accepted + 1 /\ h.charged = j.charged + 1
               /\ Len(h.queue) = Len(j.queue) + 1 /\ j.charged < MaxEvents
<1>1. \A e2, h2 :
        h2 = Recording(j, e2, MaxEvents) \/ h2 = Failing(j, "Allocation") =>
          /\ IsLog(h2)
          /\ \/ /\ h2.accepted = j.accepted /\ h2.charged = j.charged
                /\ h2.queue = j.queue
             \/ /\ h2.accepted = j.accepted + 1 /\ h2.charged = j.charged + 1
                /\ Len(h2.queue) = Len(j.queue) + 1 /\ j.charged < MaxEvents
  BY LogMoves, ZenonT(60)
<1>2. h = Recording(j, e, MaxEvents) \/ h = Failing(j, "Allocation") =>
          /\ IsLog(h)
          /\ \/ /\ h.accepted = j.accepted /\ h.charged = j.charged
                /\ h.queue = j.queue
             \/ /\ h.accepted = j.accepted + 1 /\ h.charged = j.charged + 1
                /\ Len(h.queue) = Len(j.queue) + 1 /\ j.charged < MaxEvents
  BY <1>1, SMTT(60)
<1> QED BY <1>2, ZenonT(60)

\* An event is recorded, or the journal fails, or it is not attached.
LEMMA RecordEventPreserves ==
  ASSUME Inductive, RecordEvent
  PROVE  Inductive'
<1>0. Typed /\ Accounted /\ Views /\ Requests /\ StopClosesAdmission
  BY ZenonT(60) DEF Inductive
<1>1. /\ UNCHANGED <<chain, pool, chain_generation, mempool_revision, index,
                     gate, rpc, lease, captured, applied_capture, stop, request>>
      /\ \/ journal' = journal
         \/ journal' = Recording(journal, Head(emitting), MaxEvents)
         \/ journal' = Failing(journal, "Allocation")
  BY ZenonT(60) DEF RecordEvent, source, probe, worker, owner
<1>2. /\ IsLog(journal) /\ Len(journal.queue) \in Nat
      /\ IsLog(journal')
      /\ \/ /\ journal'.accepted = journal.accepted
            /\ journal'.charged = journal.charged /\ journal'.queue = journal.queue
         \/ /\ journal'.accepted = journal.accepted + 1
            /\ journal'.charged = journal.charged + 1
            /\ Len(journal'.queue) = Len(journal.queue) + 1
            /\ journal.charged < MaxEvents
  <2>0. IsLog(journal)
    BY <1>0, ZenonT(60) DEF Typed
  <2>1. CASE journal' = journal
    <3>1. Len(journal.queue) \in Nat
      BY <2>0, LogMoves, ZenonT(60)
    <3> QED BY <2>0, <2>1, <3>1, ZenonT(60) DEF IsLog
  <2>2. CASE \/ journal' = Recording(journal, Head(emitting), MaxEvents)
             \/ journal' = Failing(journal, "Allocation")
    <3>1. PICK e, h : /\ h = journal'
                      /\ \/ h = Recording(journal, e, MaxEvents)
                         \/ h = Failing(journal, "Allocation")
      BY <2>2, ZenonT(60)
    <3>0. /\ IsLog(h)
          /\ \/ /\ h.accepted = journal.accepted
                /\ h.charged = journal.charged
                /\ h.queue = journal.queue
             \/ /\ h.accepted = journal.accepted + 1
                /\ h.charged = journal.charged + 1
                /\ Len(h.queue) = Len(journal.queue) + 1
                /\ journal.charged < MaxEvents
      BY <2>0, <3>1, LogRecords, SMTT(60)
    <3>2. /\ IsLog(journal')
          /\ \/ /\ journal'.accepted = journal.accepted
                /\ journal'.charged = journal.charged
                /\ journal'.queue = journal.queue
             \/ /\ journal'.accepted = journal.accepted + 1
                /\ journal'.charged = journal.charged + 1
                /\ Len(journal'.queue) = Len(journal.queue) + 1
                /\ journal.charged < MaxEvents
      BY <3>0, <3>1, ZenonT(60)
    <3>3. Len(journal.queue) \in Nat
      BY <2>0, LogMoves, ZenonT(60)
    <3> QED BY <2>0, <3>2, <3>3, ZenonT(60)
  <2> QED BY <1>1, <2>1, <2>2, ZenonT(60)
<1>3. Typed'
  BY <1>0, <1>1, <1>2, ZenonT(60) DEF Typed
<1>4. /\ Len(lease) \in Nat /\ index.sequence \in Nat /\ MaxEvents \in Nat
      /\ journal.accepted \in Nat /\ journal.charged \in Int
  BY <1>0, ReplayAssumption, SMTT(60) DEF Typed, IsLog
<1>5. Accounted'
  <2>1. CASE /\ journal'.accepted = journal.accepted
             /\ journal'.charged = journal.charged
             /\ journal'.queue = journal.queue
    BY <1>0, <1>1, <2>1, ZenonT(60) DEF Accounted
  <2>2. CASE /\ journal'.accepted = journal.accepted + 1
             /\ journal'.charged = journal.charged + 1
             /\ Len(journal'.queue) = Len(journal.queue) + 1
             /\ journal.charged < MaxEvents
    <3>1. PICK q, n, l : /\ q \in Nat /\ q = Len(journal.queue)
                         /\ n \in Nat /\ n = index.sequence
                         /\ l \in Nat /\ l = Len(lease)
      BY <1>2, <1>4, ZenonT(60)
    <3>2. ASSUME rpc # "exit"
          PROVE  /\ journal'.accepted = (n + l + q) + 1
                 /\ journal'.charged = (l + q) + 1
                 /\ l + q < MaxEvents /\ Len(journal'.queue) = q + 1
                 /\ rpc \in Leasing => lease[1].number = n + 1
      BY <1>0, <2>2, <3>1, <3>2, ZenonT(60) DEF Accounted
    <3>3. /\ (n + l + q) + 1 = n + l + (q + 1) /\ (l + q) + 1 = l + (q + 1)
          /\ l + q < MaxEvents => l + (q + 1) <= MaxEvents
      <4>1. n \in Nat /\ l \in Nat /\ q \in Nat /\ MaxEvents \in Nat
        BY <3>1, ReplayAssumption, ZenonT(60)
      <4> QED BY <4>1, SMTT(60)
    <3> QED BY <1>1, <3>1, <3>2, <3>3, ZenonT(60) DEF Accounted
  <2> QED BY <1>2, <2>1, <2>2, ZenonT(60)
<1>6. Views'
  BY <1>0, <1>1, ViewsFrame, ZenonT(60)
<1>7. Requests' /\ StopClosesAdmission'
  BY <1>0, <1>1, ZenonT(60) DEF Requests, View, StopClosesAdmission
<1> QED BY <1>3, <1>5, <1>6, <1>7, ZenonT(60) DEF Inductive

\* The next event is leased.
LEMMA DrainTakePreserves ==
  ASSUME Inductive, DrainTake
  PROVE  Inductive'
<1>0. Typed /\ Accounted /\ Views /\ Requests /\ StopClosesAdmission
  BY ZenonT(60) DEF Inductive
<1>1. /\ UNCHANGED <<chain, pool, chain_generation, mempool_revision, index,
                     gate, captured, applied_capture, stop, request>>
      /\ rpc = "drain" /\ rpc' \in {"guard", "load"}
      /\ journal.queue # <<>> /\ journal' = Taking(journal)
      /\ lease' = <<[number |-> FrontNumber(journal),
                     event |-> Head(journal.queue)]>>
  BY ZenonT(60) DEF DrainTake, CanTake, source, probe, worker, owner, WorkerOnly, Rest
<1>2. /\ IsLog(journal) /\ Len(journal.queue) \in Nat
      /\ IsLog(journal') /\ Len(journal'.queue) = Len(journal.queue) - 1
      /\ journal'.accepted = journal.accepted
      /\ journal'.charged = journal.charged
  BY <1>0, <1>1, LogMoves, ZenonT(60) DEF Typed
<1>3. lease = <<>> /\ Len(lease) = 0
  BY <1>0, <1>1, SMTT(60) DEF Typed, Leasing
<1>4. /\ lease' = <<lease'[1]>> /\ Len(lease') = 1
      /\ lease'[1].number = FrontNumber(journal)
  BY <1>1, ZenonT(60)
<1>5. Typed'
  BY <1>0, <1>1, <1>2, <1>4, ZenonT(60) DEF Typed, Leasing
<1>6. Accounted'
  <2>1. /\ journal.accepted = index.sequence + Len(journal.queue)
        /\ journal.charged = Len(journal.queue) /\ journal.charged <= MaxEvents
        /\ index.sequence \in Nat /\ Len(journal.queue) \in Nat
    BY <1>0, <1>1, <1>2, <1>3, SMTT(60) DEF Accounted, Typed
  <2>2. FrontNumber(journal) = index.sequence + 1
    BY <2>1, SMTT(60) DEF FrontNumber
  <2>3. /\ journal'.accepted = index'.sequence + Len(lease') + Len(journal'.queue)
        /\ journal'.charged = Len(lease') + Len(journal'.queue)
        /\ journal'.charged <= MaxEvents
    <3>1. PICK q, n : /\ q \in Nat /\ q = Len(journal.queue)
                      /\ n \in Nat /\ n = index.sequence
      BY <2>1, ZenonT(60)
    <3>2. /\ journal'.accepted = n + q /\ journal'.charged = q /\ q <= MaxEvents
          /\ Len(journal'.queue) = q - 1
      BY <1>2, <2>1, <3>1, ZenonT(60)
    <3>3. n + q = n + 1 + (q - 1) /\ q = 1 + (q - 1)
      BY <3>1, SMTT(60)
    <3> QED BY <1>1, <1>4, <3>1, <3>2, <3>3, ZenonT(60)
  <2> QED BY <1>1, <1>4, <2>2, <2>3, ZenonT(60) DEF Accounted
<1>7. Views'
  BY <1>0, <1>1, ViewsFrame, ZenonT(60)
<1>8. Requests' /\ StopClosesAdmission'
  BY <1>0, <1>1, ZenonT(60) DEF Requests, View, StopClosesAdmission
<1> QED BY <1>5, <1>6, <1>7, <1>8, ZenonT(60) DEF Inductive

\* A chain without its last block.
LEMMA ChainDrops ==
  ASSUME NEW c, IsChain(c), c # <<>>
  PROVE  IsChain(Front(c))
<1>1. Len(c) \in Nat /\ Len(c) # 0
  BY NoElements, SMTT(60) DEF IsChain
<1>2. Len(c) - 1 \in 0 .. Len(c)
  BY <1>1, SMTT(60)
<1>3. IsChain(SubSeq(c, 1, Len(c) - 1))
  BY <1>2, ChainShrinks, ZenonT(60)
<1> QED BY <1>3, ZenonT(60) DEF Front

\* What the writer makes of the index's chain, when it returns Ok.
LEMMA AppliedChain ==
  ASSUME NEW ix, IsChain(ix.chain), NEW e, Applied(ix, e).ok
  PROVE  IsChain(Applied(ix, e).chain)
<1>1. CASE e.kind = "Added"
  BY <1>1, ZenonT(60) DEF Applied
<1>2. CASE e.kind = "Removed"
  BY <1>2, ZenonT(60) DEF Applied
<1>3. CASE e.kind = "Connected"
  <2>1. /\ Prev[e.block] = TipOf(ix.chain)
        /\ Applied(ix, e).chain = Append(ix.chain, e.block)
    BY <1>3, ZenonT(60) DEF Applied
  <2> QED BY <2>1, ChainGrows, ZenonT(60)
<1>4. CASE e.kind \notin {"Added", "Removed", "Connected"}
  <2>1. ix.chain # <<>> /\ Applied(ix, e).chain = Front(ix.chain)
    BY <1>4, ZenonT(60) DEF Applied
  <2> QED BY <2>1, ChainDrops, ZenonT(60)
<1> QED BY <1>1, <1>2, <1>3, <1>4, ZenonT(60)

\* The leased event is applied, with nobody admitted, and given back.
LEMMA ApplyEventPreserves ==
  ASSUME Inductive, ApplyEvent
  PROVE  Inductive'
<1>0. Typed /\ Accounted /\ Views /\ Requests /\ StopClosesAdmission
  BY ZenonT(60) DEF Inductive
<1>1. /\ UNCHANGED <<chain, pool, chain_generation, mempool_revision,
                     gate, captured, applied_capture, stop, request>>
      /\ rpc = "apply" /\ rpc' = "drain" /\ lease' = <<>>
      /\ Applied(index, lease[1].event).ok
      /\ index'.chain = Applied(index, lease[1].event).chain
      /\ index'.sequence = lease[1].number
      /\ journal' = IF lease = <<>> THEN journal ELSE Releasing(journal)
  BY ZenonT(60) DEF ApplyEvent, DropLease, source, owner, WorkerOnly, Rest
<1>2. lease = <<lease[1]>> /\ Len(lease) = 1 /\ lease # <<>>
  <2>1. PICK x : x = lease[1]
    BY ZenonT(60)
  <2>2. lease = <<x>>
    BY <1>0, <1>1, <2>1, ZenonT(60) DEF Typed, Leasing
  <2> QED BY <2>1, <2>2, SMTT(60)
<1>3. IsLog(journal) /\ journal' = Releasing(journal)
  BY <1>0, <1>1, <1>2, ZenonT(60) DEF Typed
<1>4. /\ Len(journal.queue) \in Nat
      /\ IsLog(journal') /\ journal'.queue = journal.queue
      /\ journal'.accepted = journal.accepted
      /\ journal'.charged = journal.charged - 1
  BY <1>3, LogMoves, ZenonT(60)
<1>5. IsChain(index'.chain)
  BY <1>0, <1>1, AppliedChain, ZenonT(60) DEF Typed
<1>6. PICK q, n : /\ q \in Nat /\ q = Len(journal.queue)
                  /\ n \in Nat /\ n = index.sequence
  BY <1>0, <1>4, ZenonT(60) DEF Typed
<1>7. /\ index'.sequence = n + 1 /\ journal.charged = 1 + q
      /\ 1 + q <= MaxEvents /\ journal.accepted = n + 1 + q
  BY <1>0, <1>1, <1>2, <1>6, ZenonT(60) DEF Accounted, Leasing
<1>8. Typed'
  BY <1>0, <1>1, <1>4, <1>5, <1>6, <1>7, SMTT(60) DEF Typed, Leasing
<1>9. Accounted'
  <2>1. /\ n + 1 + q = (n + 1) + 0 + q /\ (1 + q) - 1 = 0 + q /\ n + 1 \in Nat
        /\ q <= MaxEvents
    BY <1>6, <1>7, ReplayAssumption, SMTT(60)
  <2>2. Len(lease') = 0
    BY <1>1, ZenonT(60)
  <2> QED BY <1>1, <1>4, <1>6, <1>7, <2>1, <2>2, SMTT(60) DEF Accounted, Leasing
<1>10. Views'
  BY <1>0, <1>1, ZenonT(60) DEF Views
<1>11. Requests'
  <2>1. gate.mode # Ready /\ IsGate(gate)
    BY <1>0, <1>1, ZenonT(60) DEF Views, Typed
  <2>2. gate'.epoch >= gate.epoch
    BY <1>1, <2>1, SMTT(60) DEF IsGate
  <2> QED BY <1>0, <1>1, <2>1, <2>2, RequestsFrame, ZenonT(60)
<1>12. StopClosesAdmission'
  BY <1>0, <1>1, ZenonT(60) DEF StopClosesAdmission
<1> QED BY <1>8, <1>9, <1>10, <1>11, <1>12, ZenonT(60) DEF Inductive

\* A round that throws, and the end of Run: the gate is shut, the lease is
\* dropped, the journal is given back or closed.
LEMMA EndPreserves ==
  ASSUME Inductive, Fail \/ Cancel \/ Detach
  PROVE  Inductive'
<1>0. Typed /\ Accounted /\ Views /\ Requests /\ StopClosesAdmission
  BY ZenonT(60) DEF Inductive
<1>1. /\ UNCHANGED <<chain, pool, chain_generation, mempool_revision, index,
                     stop, request>>
      /\ gate' \in Shut /\ rpc' = "exit"
      /\ lease' = <<>>
      /\ journal' \in {journal, Releasing(journal), Closing(journal)}
  BY <1>0, ZenonT(60) DEF Fail, Cancel, Detach, DropLease, Rest, source, probe, worker, owner,
              Shut, Typed, Leasing
<1>2. /\ IsGate(gate) /\ IsGate(gate') /\ StopClosesAdmission'
      /\ gate' \in {gate} \cup Shut
      /\ gate'.mode # Ready /\ gate'.epoch >= gate.epoch
      /\ gate'.mode = Busy => gate'.epoch > gate.epoch \/ gate' = gate
  BY <1>0, <1>1, GateSteps, ZenonT(60) DEF Typed
<1>3. IsLog(journal')
  <2>1. IsLog(journal)
    BY <1>0, ZenonT(60) DEF Typed
  <2>2. IsLog(Releasing(journal)) /\ IsLog(Closing(journal))
    BY <2>1, LogMoves, ZenonT(60)
  <2> QED BY <1>1, <2>1, <2>2, ZenonT(60)
<1>4. Typed'
  BY <1>0, <1>1, <1>2, <1>3, ZenonT(60) DEF Typed, Leasing
<1>5. Accounted'
  BY <1>1, ZenonT(60) DEF Accounted
<1>6. Views'
  BY <1>1, <1>2, ZenonT(60) DEF Views
<1>7. Requests'
  BY <1>0, <1>1, <1>2, RequestsFrame, ZenonT(60)
<1> QED BY <1>2, <1>4, <1>5, <1>6, <1>7, ZenonT(60) DEF Inductive

\* The source is read under the locks, or the round is to be repeated.
LEMMA PublishCapturePreserves ==
  ASSUME Inductive, PublishCapture
  PROVE  Inductive'
<1>0. Typed /\ Accounted /\ Views /\ Requests /\ StopClosesAdmission
  BY ZenonT(60) DEF Inductive
<1>1. CASE Again /\ UNCHANGED captured
  <2>1. Quiet
    BY <1>1, ZenonT(60) DEF Quiet, Again, PublishCapture, WorkerOnly, Rest, Leasing, source, probe,
                owner
  <2> QED BY <2>1, QuietPreserves, ZenonT(60)
<1>2. CASE /\ captured' = [binding |-> Binding, pool |-> pool]
           /\ rpc' = "prepare" /\ UNCHANGED <<probe, gate>>
  <2>1. /\ UNCHANGED <<chain, pool, chain_generation, mempool_revision, journal,
                       index, gate, lease, stop, request>>
        /\ rpc = "drained"
    BY <1>2, ZenonT(60) DEF PublishCapture, WorkerOnly, Rest, source, probe, owner
  <2>2. Typed'
    BY <1>0, <1>2, <2>1, ZenonT(60) DEF Typed, Leasing
  <2>3. Accounted'
    BY <1>0, <1>2, <2>1, AccountedFrame, ZenonT(60) DEF Leasing
  <2>4. Captured'
    BY <1>0, <1>2, <2>1, SMTT(60) DEF Captured, Binding, Typed
  <2>5. gate.mode = Ready => Shows(gate.binding, index.chain, index.overlay.txs)'
    BY <1>0, <2>1, ZenonT(60) DEF Views, Shows, Binding
  <2>6. Views'
    BY <1>2, <2>1, <2>4, <2>5, ZenonT(60) DEF Views
  <2>7. Requests' /\ StopClosesAdmission'
    BY <1>0, <2>1, ZenonT(60) DEF Requests, View, StopClosesAdmission
  <2> QED BY <2>2, <2>3, <2>6, <2>7, ZenonT(60) DEF Inductive
<1> QED BY <1>1, <1>2, ZenonT(60) DEF PublishCapture

\* The index shows what was captured: an epoch is begun for it.
LEMMA PublishPreparePreserves ==
  ASSUME Inductive, PublishPrepare
  PROVE  Inductive'
<1>0. Typed /\ Accounted /\ Views /\ Requests /\ StopClosesAdmission
  BY ZenonT(60) DEF Inductive
<1>1. /\ UNCHANGED <<chain, pool, chain_generation, mempool_revision, journal,
                     index, lease, captured, stop, request>>
      /\ rpc = "prepare" /\ rpc' = "commit" /\ gate' = GateBegin(gate)
      /\ MatchesCapture
      /\ applied_capture'[1] = captured.binding
  BY ZenonT(60) DEF PublishPrepare, WorkerOnly, Rest, source, owner
<1>2. /\ IsGate(gate) /\ IsGate(gate') /\ StopClosesAdmission'
      /\ gate' \in {gate} \cup Shut
      /\ gate'.mode # Ready /\ gate'.epoch >= gate.epoch
      /\ gate'.mode = Busy => gate'.epoch > gate.epoch \/ gate' = gate
  BY <1>0, <1>1, GateSteps, ZenonT(60) DEF Typed, Shut
<1>3. Typed'
  BY <1>0, <1>1, <1>2, ZenonT(60) DEF Typed, Leasing
<1>4. Accounted'
  BY <1>0, <1>1, AccountedFrame, ZenonT(60) DEF Leasing
<1>5. Captured' /\ MatchesCapture'
  BY <1>0, <1>1, ZenonT(60) DEF Views, Captured, Binding, MatchesCapture
<1>6. Views'
  BY <1>1, <1>2, <1>5, ZenonT(60) DEF Views
<1>7. Requests'
  BY <1>0, <1>1, <1>2, RequestsFrame, ZenonT(60)
<1> QED BY <1>2, <1>3, <1>4, <1>6, <1>7, ZenonT(60) DEF Inductive

\* The source has not moved since the capture: what the index shows is the
\* node's chain and pool, and the gate opens for it.
LEMMA PublishCommitPreserves ==
  ASSUME Inductive, PublishCommit
  PROVE  Inductive'
<1>0. Typed /\ Accounted /\ Views /\ Requests /\ StopClosesAdmission
  BY ZenonT(60) DEF Inductive
<1>1. CASE Again
  <2>1. Quiet
    BY <1>1, ZenonT(60) DEF Quiet, Again, PublishCommit, WorkerOnly, Rest, Leasing, source, probe,
                owner
  <2> QED BY <2>1, QuietPreserves, ZenonT(60)
<1>2. CASE ~Again
  <2>1. /\ UNCHANGED <<chain, pool, chain_generation, mempool_revision, journal,
                       index, lease, stop, request>>
        /\ rpc = "commit" /\ rpc' = "ack"
        /\ Binding = applied_capture[1]
        /\ gate' = GatePublish(gate, applied_capture[2], applied_capture[1])
    BY <1>2, ZenonT(60) DEF PublishCommit, WorkerOnly, Rest, source, owner
  <2>2. /\ IsGate(gate) /\ IsGate(gate') /\ gate'.epoch = gate.epoch
        /\ \/ gate' = gate
           \/ gate.mode = Busy /\ gate'.mode = Ready /\ gate'.binding = Binding
    BY <1>0, <2>1, GateOpens, SMTT(60) DEF Typed
  <2>3. Typed'
    BY <1>0, <2>1, <2>2, ZenonT(60) DEF Typed, Leasing
  <2>4. Accounted'
    BY <1>0, <2>1, AccountedFrame, ZenonT(60) DEF Leasing
  <2>5. /\ IsChain(chain) /\ IsChain(index.chain) /\ TipOf(index.chain) = TipOf(chain)
        /\ Len(index.chain) = Len(chain) /\ index.overlay.txs = pool
    BY <1>0, <2>1, SMTT(60) DEF Typed, Views, Captured, MatchesCapture, Binding
  <2>6. index.chain = chain
    BY <2>5, SameTip, ZenonT(60)
  <2>7. Shows(Binding, index.chain, index.overlay.txs)
    BY <1>0, <2>5, <2>6, SMTT(60) DEF Shows, Binding, Typed
  <2>8. gate'.mode = Ready => Shows(gate'.binding, index.chain, index.overlay.txs)
    BY <1>0, <2>2, <2>7, ZenonT(60) DEF Views
  <2>9. Views'
    BY <2>1, <2>8, ZenonT(60) DEF Views, Shows, Binding
  <2>10. Requests'
    <3>1. CASE gate' = gate
      BY <1>0, <2>1, <3>1, ZenonT(60) DEF Requests, View
    <3>2. CASE gate.mode = Busy /\ gate'.mode = Ready
      <4>1. request.pc # "idle" => ~GateAdmits(gate', request.permit)
        BY <1>0, <2>2, <3>2, SMTT(60) DEF Requests, GateAdmits, GatePermit, Busy, Ready
      <4> QED BY <1>0, <2>1, <2>2, <3>2, <4>1, ZenonT(60) DEF Requests, Busy, Ready
    <3> QED BY <2>2, <3>1, <3>2, ZenonT(60)
  <2>11. StopClosesAdmission'
    BY <1>0, <2>1, <2>2, ZenonT(60) DEF StopClosesAdmission, Busy, Closed
  <2> QED BY <2>3, <2>4, <2>9, <2>10, <2>11, ZenonT(60) DEF Inductive
<1> QED BY <1>1, <1>2, ZenonT(60)

-----------------------------------------------------------------------------
(* The request.                                                            *)

\* An admitted permit is the gate's, and the gate is open.
LEMMA AdmittedIsOpen ==
  ASSUME NEW g, NEW p, p = <<p[1], p[2]>>, GateAdmits(g, p)
  PROVE  g.mode = Ready /\ p[1] = g.epoch /\ p[2] = g.binding
BY ZenonT(60) DEF GateAdmits, GatePermit, NoPermit

\* What a request may become, one case per outcome of its steps.
LEMMA RequestMoves ==
  ASSUME Inductive, RequestStep
  PROVE  \/ request' = IdleRequest
         \/ /\ request.pc = "idle" /\ gate.mode = Ready
            /\ request' = [pc |-> "check", permit |-> <<gate.epoch, gate.binding>>,
                           view |-> request.view, agreed |-> request.agreed]
         \/ /\ request.pc = "check"
            /\ request' = [pc |-> "confirm", permit |-> request.permit,
                           view |-> request.view, agreed |-> FALSE]
         \/ /\ request.pc = "recheck" /\ StillCurrent
            /\ request' = [pc |-> "reconfirm", permit |-> request.permit,
                           view |-> request.view,
                           agreed |-> request.view = <<chain, pool>>]
         \/ /\ request.pc \in {"confirm", "reconfirm"}
            /\ GateAdmits(gate, request.permit)
            /\ request' = [pc |-> IF request.pc = "confirm" THEN "dispatched"
                                  ELSE "answered",
                           permit |-> request.permit,
                           view |-> request.view, agreed |-> request.agreed]
         \/ /\ request.pc = "dispatched"
            /\ request' = [pc |-> "recheck", permit |-> request.permit,
                           view |-> View, agreed |-> request.agreed]
<1>1. PICK c, p, v, a :
        /\ request = [pc |-> c, permit |-> p, view |-> v, agreed |-> a]
        /\ request.pc = c /\ request.permit = p /\ request.view = v
        /\ request.agreed = a
  BY ZenonT(60) DEF Inductive, Typed, IsRequest
<1>2. CASE RequestPermit
  <2>1. PICK k : k = [request EXCEPT !.pc = "check"]
    BY ZenonT(60)
  <2>2. k = [pc |-> "check", permit |-> p, view |-> v, agreed |-> a]
    BY <1>1, <2>1, ZenonT(60)
  <2>3. [k EXCEPT !.permit = GatePermit(gate)]
          = [pc |-> "check", permit |-> GatePermit(gate), view |-> v, agreed |-> a]
    BY <2>2, SMTT(60)
  <2> QED BY <1>1, <1>2, <2>1, <2>3, ZenonT(60) DEF RequestPermit, GatePermit
<1>3. CASE RequestCheck
  <2>1. ASSUME NEW x, NEW y
        PROVE  [request EXCEPT !.pc = x, !.agreed = y]
                 = [pc |-> x, permit |-> p, view |-> v, agreed |-> y]
    <3>1. PICK k : k = [request EXCEPT !.pc = x]
      BY ZenonT(60)
    <3>2. k = [pc |-> x, permit |-> p, view |-> v, agreed |-> a]
      BY <1>1, <3>1, ZenonT(60)
    <3>3. [k EXCEPT !.agreed = y]
            = [pc |-> x, permit |-> p, view |-> v, agreed |-> y]
      BY <3>2, SMTT(60)
    <3> QED BY <3>1, <3>3, ZenonT(60)
  <2>2. CASE ~StillCurrent
    BY <1>3, <2>2, ZenonT(60) DEF RequestCheck
  <2>3. CASE StillCurrent /\ c = "check"
    <3>1. request' = [request EXCEPT !.pc = "confirm", !.agreed = FALSE]
      BY <1>1, <1>3, <2>3, ZenonT(60) DEF RequestCheck
    <3> QED BY <1>1, <2>1, <2>3, <3>1, ZenonT(60)
  <2>4. CASE StillCurrent /\ c = "recheck"
    <3>1. request' = [request EXCEPT !.pc = "reconfirm",
                                     !.agreed = (v = <<chain, pool>>)]
      BY <1>1, <1>3, <2>4, ZenonT(60) DEF RequestCheck
    <3> QED BY <1>1, <2>1, <2>4, <3>1, ZenonT(60)
  <2> QED BY <1>1, <1>3, <2>2, <2>3, <2>4, ZenonT(60) DEF RequestCheck
<1>4. CASE RequestConfirm
  <2>1. ASSUME NEW x
        PROVE  [request EXCEPT !.pc = x]
                 = [pc |-> x, permit |-> p, view |-> v, agreed |-> a]
    BY <1>1, SMTT(60)
  <2>2. CASE GateAdmits(gate, request.permit)
    <3>1. request' = [request EXCEPT !.pc = IF c = "confirm" THEN "dispatched"
                                            ELSE "answered"]
      BY <1>1, <1>4, <2>2, ZenonT(60) DEF RequestConfirm, Goto
    <3> QED BY <1>1, <1>4, <2>1, <2>2, <3>1, ZenonT(60) DEF RequestConfirm
  <2>3. CASE ~GateAdmits(gate, request.permit)
    BY <1>4, <2>3, ZenonT(60) DEF RequestConfirm
  <2> QED BY <2>2, <2>3, ZenonT(60)
<1>5. CASE RequestRead
  <2>1. PICK k : k = [request EXCEPT !.pc = "recheck"]
    BY ZenonT(60)
  <2>2. k = [pc |-> "recheck", permit |-> p, view |-> v, agreed |-> a]
    BY <1>1, <2>1, ZenonT(60)
  <2>3. [k EXCEPT !.view = View]
          = [pc |-> "recheck", permit |-> p, view |-> View, agreed |-> a]
    BY <2>2, SMTT(60)
  <2> QED BY <1>1, <1>5, <2>1, <2>3, ZenonT(60) DEF RequestRead, View
<1>6. CASE RequestDone
  BY <1>6, ZenonT(60) DEF RequestDone
<1> QED BY <1>2, <1>3, <1>4, <1>5, <1>6, ZenonT(60) DEF RequestStep

\* A step of the request keeps what it holds on to true of the gate.
LEMMA RequestStepPreserves ==
  ASSUME Inductive, RequestStep
  PROVE  Inductive'
<1>0. Typed /\ Accounted /\ Views /\ Requests /\ StopClosesAdmission
  BY ZenonT(60) DEF Inductive
<1>1. UNCHANGED <<chain, pool, chain_generation, mempool_revision, journal,
                  index, gate, rpc, lease, captured, applied_capture, stop>>
  BY ZenonT(60) DEF RequestStep, RequestPermit, RequestCheck, RequestConfirm, RequestRead,
         RequestDone, RequestOnly, source, probe, worker, owner
<1>2. IsRequest(request')
  BY RequestMoves, ZenonT(60) DEF IsRequest, IdleRequest
<1>3. Typed' /\ Accounted' /\ Views' /\ StopClosesAdmission'
  <2>1. Typed'
    BY <1>0, <1>1, <1>2, ZenonT(60) DEF Typed
  <2>2. Accounted' /\ Views'
    BY <1>0, <1>1, AccountedFrame, ViewsFrame, ZenonT(60)
  <2> QED BY <1>0, <1>1, <2>1, <2>2, ZenonT(60) DEF StopClosesAdmission
<1>4. ASSUME request.pc = "recheck", StillCurrent
      PROVE  request.view = View /\ View = <<chain, pool>>
  <2>1. /\ GateAdmits(gate, request.permit) /\ request.permit[2] = Binding
        /\ request.permit = <<request.permit[1], request.permit[2]>>
    BY <1>0, <1>4, ZenonT(60) DEF StillCurrent, MatchesSource, Requests
  <2>2. gate.mode = Ready /\ gate.binding = Binding
    BY <2>1, AdmittedIsOpen, ZenonT(60)
  <2> QED BY <1>0, <1>4, <2>1, <2>2, ZenonT(60) DEF Requests, Views, Shows, View
<1>5. gate.epoch \in Nat
  BY <1>0, ZenonT(60) DEF Typed, IsGate
<1>6. Requests'
  <2>1. CASE request' = IdleRequest
    BY <2>1, ZenonT(60) DEF Requests, IdleRequest
  <2>2. CASE /\ request.pc = "idle" /\ gate.mode = Ready
             /\ request' = [pc |-> "check", permit |-> <<gate.epoch, gate.binding>>,
                            view |-> request.view, agreed |-> request.agreed]
    BY <1>1, <1>5, <2>2, SMTT(60) DEF Requests, Ready, Busy
  <2>3. CASE /\ request.pc = "check"
             /\ request' = [pc |-> "confirm", permit |-> request.permit,
                            view |-> request.view, agreed |-> FALSE]
    BY <1>0, <1>1, <2>3, ZenonT(60) DEF Requests
  <2>4. CASE /\ request.pc = "recheck" /\ StillCurrent
             /\ request' = [pc |-> "reconfirm", permit |-> request.permit,
                            view |-> request.view,
                            agreed |-> request.view = <<chain, pool>>]
    BY <1>0, <1>1, <1>4, <2>4, ZenonT(60) DEF Requests, View
  <2>5. CASE /\ request.pc \in {"confirm", "reconfirm"}
             /\ request' = [pc |-> IF request.pc = "confirm" THEN "dispatched"
                                   ELSE "answered",
                            permit |-> request.permit,
                            view |-> request.view, agreed |-> request.agreed]
    BY <1>0, <1>1, <2>5, ZenonT(60) DEF Requests
  <2>6. CASE /\ request.pc = "dispatched"
             /\ request' = [pc |-> "recheck", permit |-> request.permit,
                            view |-> View, agreed |-> request.agreed]
    BY <1>0, <1>1, <2>6, ZenonT(60) DEF Requests, View
  <2> QED BY RequestMoves, <2>1, <2>2, <2>3, <2>4, <2>5, <2>6, ZenonT(60)
<1> QED BY <1>3, <1>6, ZenonT(60) DEF Inductive

-----------------------------------------------------------------------------
(* The theorems.                                                           *)

LEMMA InitInductive == Init => Inductive
<1> SUFFICES ASSUME Init PROVE Inductive
  BY ZenonT(60)
<1>1. IsLog(EmptyLog) /\ EmptyLog.accepted = 0 /\ EmptyLog.charged = 0
      /\ EmptyLog.queue = <<>>
  BY SMTT(60) DEF IsLog, EmptyLog
<1>2. gate = [epoch |-> 1, mode |-> Busy, binding |-> NoBinding]
  BY ZenonT(60) DEF Init, GateNew
<1>3. IsChain(chain) /\ mempool_revision \in Nat
  BY InitChainAssumption, ZenonT(60) DEF Init, NodeInit, IsChain
<1>4. Typed
  <2>1. IsGate(gate)
    BY <1>2, ZenonT(60) DEF IsGate
  <2>2. IsRequest(request)
    BY ZenonT(60) DEF Init, IsRequest, IdleRequest
  <2>3. index.chain = chain /\ index.sequence = 0
    BY ZenonT(60) DEF Init
  <2>4. journal = EmptyLog /\ rpc = "loop" /\ lease = <<>>
    BY ZenonT(60) DEF Init
  <2> QED BY <1>1, <1>3, <2>1, <2>2, <2>3, <2>4, SMTT(60) DEF Typed, Leasing
<1>5. Accounted
  BY <1>1, ReplayAssumption, SMTT(60) DEF Accounted, Init, Leasing
<1>6. Views /\ Requests /\ StopClosesAdmission
  BY <1>2, SMTT(60) DEF Views, Requests, StopClosesAdmission, Init, IdleRequest, Busy, Ready
<1> QED BY <1>4, <1>5, <1>6, ZenonT(60) DEF Inductive

LEMMA StepPreserves == Inductive /\ [Next]_vars => Inductive'
<1> SUFFICES ASSUME Inductive, [Next]_vars PROVE Inductive'
  BY ZenonT(60)
<1>1. CASE UNCHANGED vars
  <2>1. Quiet
    BY <1>1, ZenonT(60) DEF Quiet, vars, source, probe, worker, owner
  <2> QED BY <2>1, QuietPreserves, ZenonT(60)
<1>2. CASE \/ Push \/ ShutDown \/ LoopEnd \/ LoopRound \/ LoopAcknowledge
           \/ DrainBegin \/ ApplyLoad \/ ApplyGuard \/ DrainEnd
           \/ StartListener \/ StopClose \/ StopJoin
  <2>1. Typed
    BY ZenonT(60) DEF Inductive
  <2>2. Quiet
    BY <1>2, <2>1, QuietSteps, ZenonT(60)
  <2> QED BY <2>2, QuietPreserves, ZenonT(60)
<1>3. CASE ChangeSource BY <1>3, ChangeSourcePreserves, ZenonT(60)
<1>4. CASE RecordEvent BY <1>4, RecordEventPreserves, ZenonT(60)
<1>5. CASE DrainTake BY <1>5, DrainTakePreserves, ZenonT(60)
<1>6. CASE ApplyEvent BY <1>6, ApplyEventPreserves, ZenonT(60)
<1>7. CASE DrainThrow \/ PublishThrow \/ Detach
  BY <1>7, EndPreserves, ZenonT(60) DEF DrainThrow, PublishThrow
<1>8. CASE PublishCapture BY <1>8, PublishCapturePreserves, ZenonT(60)
<1>9. CASE PublishPrepare BY <1>9, PublishPreparePreserves, ZenonT(60)
<1>10. CASE PublishCommit BY <1>10, PublishCommitPreserves, ZenonT(60)
<1>11. CASE RequestStep BY <1>11, RequestStepPreserves, ZenonT(60)
<1> QED
  BY <1>1, <1>2, <1>3, <1>4, <1>5, <1>6, <1>7, <1>8, <1>9, <1>10, <1>11, ZenonT(60)
     DEF Next, WorkerStep

LEMMA AlwaysInductive == Spec => []Inductive
BY InitInductive, StepPreserves, PTL DEF Spec

(* Every event the journal has numbered is in the index, leased to Drain   *)
(* or queued, and each that is not in the index is charged once, however   *)
(* recording, draining and throwing interleave (JournalReplay::Drain,      *)
(* ValidationEventJournal::Commit), for every budget.                      *)
THEOREM EventsAccounted == Spec => []EveryEventAccountedFor
<1>1. Inductive => EveryEventAccountedFor
  BY ZenonT(60) DEF Inductive, Accounted, EveryEventAccountedFor
<1> QED BY <1>1, AlwaysInductive, PTL

(* What the gate lets requests read under the node's own binding is the    *)
(* node's chain and pool (JournalReplay::Publish), for every block tree,   *)
(* every pool and every interleaving of source, queue and worker.          *)
THEOREM ViewExact == Spec => []PublishedViewIsExact
<1>1. Inductive => PublishedViewIsExact
  BY ZenonT(60) DEF Inductive, Views, Shows, PublishedViewIsExact
<1> QED BY <1>1, AlwaysInductive, PTL

(* An answered request read the node's chain and pool as they were at its  *)
(* last check (RequestGate::permit and current around the handler).        *)
THEOREM AnswersCurrent == Spec => []AnswersAreCurrent
<1>1. Inductive => AnswersAreCurrent
  BY ZenonT(60) DEF Inductive, Requests, AnswersAreCurrent
<1> QED BY <1>1, AlwaysInductive, PTL

(* Once ArchivalWorker::Stop has begun the gate stays closed, although the *)
(* worker may still begin, fail or publish an epoch before it ends.        *)
THEOREM StopCloses == Spec => []StopClosesAdmission
<1>1. Inductive => StopClosesAdmission
  BY ZenonT(60) DEF Inductive
<1> QED BY <1>1, AlwaysInductive, PTL

(* A request that has not reached its handler when Stop begins never does  *)
(* (the permit is looked at after the source).                             *)
THEOREM NoLateDispatch == Spec => NoDispatchAfterStop
<1> DEFINE Held ==
      stop # "running" /\ request.pc \in {"idle", "check", "confirm"} =>
        request'.pc # "dispatched"
<1>1. Inductive /\ [Next]_vars => [Held]_vars
  <2> SUFFICES ASSUME Inductive, Next, stop # "running",
                      request.pc \in {"idle", "check", "confirm"}
               PROVE  request'.pc # "dispatched"
    BY ZenonT(60)
  <2>1. CASE request' = request
    BY <2>1, ZenonT(60)
  <2>2. CASE RequestStep
    <3>1. gate.mode # Ready
      BY ZenonT(60) DEF Inductive, StopClosesAdmission, Closed, Ready
    <3>2. request.pc # "idle" => ~GateAdmits(gate, request.permit)
      BY <3>1, AdmittedIsOpen, ZenonT(60) DEF Inductive, Requests
    <3> QED BY <2>2, <3>1, <3>2, RequestMoves, SMTT(60) DEF IdleRequest
  <2>3. request' = request \/ RequestStep
    BY ZenonT(60) DEF Next, ChangeSource, RecordEvent, Push, ShutDown, WorkerStep, LoopEnd,
           LoopRound, LoopAcknowledge, DrainBegin, DrainTake, ApplyLoad, ApplyGuard,
           ApplyEvent, DrainEnd, DrainThrow, Fail, Cancel, PublishCapture,
           PublishPrepare, PublishCommit, PublishThrow, Detach, StartListener,
           StopClose, StopJoin, Rest, WorkerOnly
  <2> QED BY <2>1, <2>2, <2>3, ZenonT(60)
<1> QED BY <1>1, AlwaysInductive, PTL DEF Spec, NoDispatchAfterStop
=============================================================================
