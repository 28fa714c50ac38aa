--------------------------- MODULE ServiceProofs ---------------------------
(***************************************************************************)
(* The archival service towards its clients and towards its owner, for any *)
(* number of sessions, channels, transactions and threads in Stop.         *)
(*                                                                         *)
(* Sessions: the invariant says of every queue that its last message about *)
(* a transaction is the newest one sent to the session, unless the write   *)
(* under way still has to reach that channel.  A transaction about which   *)
(* nothing is left to read or to send is therefore one whose newest event  *)
(* the session read last, and the client was shown it, or has it on the    *)
(* wire.  The limiter's counts are sums over the sessions: a step of one   *)
(* session changes one summand, which SumChange carries over.              *)
(***************************************************************************)
EXTENDS Subscriptions, FiniteSetTheorems, WellFoundedInduction, TLAPS

-----------------------------------------------------------------------------
(* Types.                                                                  *)

Messages == Txs \X {"added", "removed", "confirmed"}
Fifo == Seq(Messages \cup {Gap})
Table == UNION {[D -> Fifo] : D \in SUBSET Channels}
News == [Txs -> Messages \cup {Nothing}]
Requests == {Nothing} \cup ({"sub", "unsub"} \X Channels)
Steps == {"idle", "admit", "clean", "unsub"} \cup Serving

\* The channels that carry events of t.
Carrying(t) == Fixed \cup Touches[t]

Types ==
  /\ writing = Idle \/ \E m \in Messages : \E c \in SUBSET Carrying(m[1]) :
                         writing = <<m, c>>
  /\ pc \in [Sessions -> Steps]
  /\ request \in [Sessions -> Requests]
  /\ rx \in [Sessions -> Table]
  /\ guards \in [Sessions -> Int]
  /\ last \in [Sessions -> Messages \cup {Nothing}]
  /\ due \in [Sessions -> News] /\ shown \in [Sessions -> News]
  /\ dropped \in [Sessions -> BOOLEAN]
  /\ count \in [Keys -> Int] /\ total \in Int

-----------------------------------------------------------------------------
(* One session, in the values of its variables: p its step, q its request, *)
(* r its receivers, g its slots, l the message it sent last, d and h what  *)
(* was sent to it and what its client was shown, x whether it gave up      *)
(* unread messages, w the write under way.                                 *)

\* A message taken from a channel and not yet on the wire.
OnTheWire(p, q) == p = "send" /\ q = Nothing

Control(p, q, r, g, l, d, h) ==
  /\ p = "serve" => q = Nothing
  /\ p = "lock" => q # Nothing
  /\ OnTheWire(p, q) => l # Nothing
  /\ p \in {"idle", "admit"} =>
       r = NoReceivers /\ q = Nothing /\ l = Nothing /\ d = NoNews /\ h = NoNews
  /\ p \in Serving /\ l # Nothing /\ ~OnTheWire(p, q) => h[l[1]] = l
  /\ g = IF p = "unsub" THEN 0 ELSE Cardinality(DOMAIN r)

\* What is still to be sent about t on channel k.
Awaited(w, t, k) == w # Idle /\ w[1][1] = t /\ k \in w[2]

\* The message at i is the last one of the queue about its transaction.
NewestAt(f, i) ==
  /\ f[i] # Gap
  /\ \A j \in 1 .. Len(f) : j > i /\ f[j] # Gap => f[j][1] # f[i][1]

\* A channel carries what concerns it, and its last message about a
\* transaction is the newest one sent to the session.
Fresh(f, k, d, w) ==
  \A i \in 1 .. Len(f) : f[i] # Gap =>
    /\ k \in Carrying(f[i][1])
    /\ NewestAt(f, i) /\ ~Awaited(w, f[i][1], k) => f[i] = d[f[i][1]]

Queues(r, d, w) == \A k \in DOMAIN r : Fresh(r[k], k, d, w)

\* The event being sent is due at a session one of whose channels had it.
Reached(r, d, w) ==
  w # Idle => \A k \in DOMAIN r :
    k \in Carrying(w[1][1]) /\ k \notin w[2] => d[w[1][1]] = w[1]

\* Something about t, or a gap, is still to be read.
Unread(f, t) == \E i \in 1 .. Len(f) : f[i] = Gap \/ f[i][1] = t
Pending(r, w, t) == \E k \in DOMAIN r : Unread(r[k], t) \/ Awaited(w, t, k)

\* What its client was shown of t, the message under way included, is the
\* newest event sent to it.
Current(p, q, l, d, h, t) ==
  IF OnTheWire(p, q) /\ l[1] = t THEN l = d[t] ELSE h[t] = d[t]

UpToDate(p, q, r, l, d, h, w) ==
  p \in Serving => \A t \in Txs : Pending(r, w, t) \/ Current(p, q, l, d, h, t)

SessionOK(p, q, r, g, l, d, h, x, w) ==
  /\ Control(p, q, r, g, l, d, h)
  /\ Queues(r, d, w) /\ Reached(r, d, w)
  /\ x \/ UpToDate(p, q, r, l, d, h, w)

Session(s) ==
  SessionOK(pc[s], request[s], rx[s], guards[s], last[s], due[s], shown[s],
            dropped[s], writing)

\* The limiter counts the guards.
Counted ==
  /\ \A a \in Keys :
       count[a] = SumFunctionOnSet(guards, {s \in Sessions : KeyOf[s] = a})
  /\ total = SumFunctionOnSet(count, Keys)

Inductive ==
  /\ Types
  /\ SendersHaveReceivers
  /\ \A s \in Sessions : Session(s)
  /\ Counted

\* Induction over the subsets of a finite set, with the predicate as a set.
LEMMA SubsetInduction ==
  ASSUME NEW S, IsFiniteSet(S), NEW G,
         \A T \in SUBSET S : (\A U \in SUBSET T : U # T => U \in G) => T \in G
  PROVE  \A T \in SUBSET S : T \in G
<1> SUFFICES ASSUME (SUBSET S) \ G # {} PROVE FALSE
  BY ZenonT(60)
<1> DEFINE R == StrictSubsetOrdering(S)
           Bad == (SUBSET S) \ G
<1>1. IsWellFoundedOn(R, SUBSET S)
  <2>1. IsWellFoundedOn(R, FiniteSubsetsOf(S))
    BY FS_StrictSubsetOrderingWellFounded, ZenonT(60)
  <2>2. FiniteSubsetsOf(S) = SUBSET S
    BY FS_FiniteSubsetsOfFinite, ZenonT(60)
  <2> QED BY <2>1, <2>2, ZenonT(60)
<1>2. Bad \subseteq SUBSET S /\ Bad # {}
  BY ZenonT(60)
<1>3. PICK T \in Bad : \A U \in Bad : ~(<<U, T>> \in R)
  <2> HIDE DEF R, Bad
  <2> QED BY <1>1, <1>2, WFMin, SMTT(60)
<1>4. \A U \in SUBSET T : U # T => U \in G
  BY <1>3, ZenonT(60) DEF StrictSubsetOrdering
<1> QED BY <1>3, <1>4, ZenonT(60)

-----------------------------------------------------------------------------
Pick(S) == CHOOSE x \in S : TRUE

\* g is the function by which FoldFunctionOnSet adds up f on the subsets of S.
Adds(g, f, S) ==
  g = [T \in SUBSET S |-> IF T = {} THEN 0 ELSE f[Pick(T)] + g[T \ {Pick(T)}]]

\* The sum is the value at the whole set of a function defined by recursion.
LEMMA SumIs ==
  ASSUME NEW f, NEW S
  PROVE  SumFunctionOnSet(f, S) = (CHOOSE g : Adds(g, f, S))[S]
BY ZenonT(60) DEF SumFunctionOnSet, FoldFunctionOnSet, MapThenFoldSet, Adds, Pick

\* Such a function adds one element to the rest.
LEMMA AddsAt ==
  ASSUME NEW f, NEW S, NEW g, Adds(g, f, S), NEW T \in SUBSET S
  PROVE  g[T] = IF T = {} THEN 0 ELSE f[Pick(T)] + g[T \ {Pick(T)}]
BY ZenonT(60) DEF Adds

\* The element added first is one of the set.
LEMMA PickIn == ASSUME NEW S, S # {} PROVE Pick(S) \in S
BY ZenonT(60) DEF Pick

\* Two such functions agree where both are defined.
LEMMA AddsUnique ==
  ASSUME NEW f, NEW A, NEW B, IsFiniteSet(A), NEW g, NEW h,
         Adds(g, f, A), Adds(h, f, B)
  PROVE  \A T \in SUBSET (A \cap B) : g[T] = h[T]
<1> DEFINE C == A \cap B
           G == {T \in SUBSET C : g[T] = h[T]}
<1>1. IsFiniteSet(C)
  BY FS_Intersection, ZenonT(60)
<1>2. ASSUME NEW T \in SUBSET C, \A U \in SUBSET T : U # T => U \in G
      PROVE  T \in G
  <2>0. T \in SUBSET A /\ T \in SUBSET B
    BY ZenonT(60)
  <2>1. g[T] = IF T = {} THEN 0 ELSE f[Pick(T)] + g[T \ {Pick(T)}]
    BY <2>0, AddsAt, SMTT(60)
  <2>2. h[T] = IF T = {} THEN 0 ELSE f[Pick(T)] + h[T \ {Pick(T)}]
    BY <2>0, AddsAt, SMTT(60)
  <2>3. T # {} => g[T \ {Pick(T)}] = h[T \ {Pick(T)}]
    BY <1>2, PickIn, ZenonT(60)
  <2> QED BY <2>1, <2>2, <2>3, ZenonT(60)
<1>3. \A T \in SUBSET C : T \in G
  <2> HIDE DEF C, G
  <2> QED BY <1>1, <1>2, SubsetInduction, ZenonT(60)
<1> QED BY <1>3, ZenonT(60)

\* Such a function exists for every finite set.
LEMMA AddsExists ==
  ASSUME NEW f, NEW S, IsFiniteSet(S)
  PROVE  \E g : Adds(g, f, S)
<1> DEFINE G == {T \in SUBSET S : \E g : Adds(g, f, T)}
<1>1. ASSUME NEW T \in SUBSET S, \A U \in SUBSET T : U # T => U \in G
      PROVE  T \in G
  <2> DEFINE Sol(U) == CHOOSE g : Adds(g, f, U)
             Val(U) == Sol(U)[U]
             h == [U \in SUBSET T |-> IF U = {} THEN 0
                                      ELSE f[Pick(U)] + Val(U \ {Pick(U)})]
  <2>1. \A U \in SUBSET T : U # T => Adds(Sol(U), f, U)
    BY <1>1, ZenonT(60)
  <2>2. ASSUME NEW U \in SUBSET T, U # T PROVE h[U] = Val(U)
    <3> DEFINE V == U \ {Pick(U)}
    <3>1. Adds(Sol(U), f, U)
      BY <2>1, <2>2, ZenonT(60)
    <3> HIDE DEF Sol
    <3>2. Sol(U)[U] = IF U = {} THEN 0 ELSE f[Pick(U)] + Sol(U)[V]
      BY <3>1, AddsAt, SMTT(60)
    <3>3. CASE U = {}
      BY <3>2, <3>3, ZenonT(60)
    <3>4. CASE U # {}
      <4>1. V \in SUBSET T /\ V # T /\ V \in SUBSET (U \cap V)
        BY <3>4, PickIn, ZenonT(60)
      <4>2. Adds(Sol(V), f, V)
        BY <2>1, <4>1, ZenonT(60)
      <4>3. IsFiniteSet(U)
        BY FS_Subset, ZenonT(60)
      <4>4. \A W \in SUBSET (U \cap V) : Sol(U)[W] = Sol(V)[W]
        <5> HIDE DEF V
        <5> QED BY <3>1, <4>2, <4>3, AddsUnique, SMTT(60)
      <4>5. Sol(U)[V] = Sol(V)[V]
        BY <4>1, <4>4, ZenonT(60)
      <4> QED BY <3>2, <3>4, <4>5, ZenonT(60)
    <3> QED BY <3>3, <3>4, ZenonT(60)
  <2>3. Adds(h, f, T)
    <3>1. \A U \in SUBSET T : U # {} =>
             h[U \ {Pick(U)}] = Val(U \ {Pick(U)})
      BY <2>2, PickIn, ZenonT(60)
    <3> HIDE DEF Val
    <3>2. h = [U \in SUBSET T |-> IF U = {} THEN 0
                                  ELSE f[Pick(U)] + h[U \ {Pick(U)}]]
      BY <3>1, ZenonT(60)
    <3> QED BY <3>2, ZenonT(60) DEF Adds
  <2> HIDE DEF h
  <2> QED BY <2>3, ZenonT(60)
<1>2. \A T \in SUBSET S : T \in G
  <2> HIDE DEF G
  <2> QED BY <1>1, SubsetInduction, ZenonT(60)
<1> QED BY <1>2, ZenonT(60)

\* What a sum over a finite set is: nothing for no element, else one element
\* and the sum of the others.
LEMMA SumEmpty == ASSUME NEW f PROVE SumFunctionOnSet(f, {}) = 0
<1> DEFINE g == CHOOSE g : Adds(g, f, {})
<1>1. Adds(g, f, {})
  BY FS_EmptySet, AddsExists, ZenonT(60)
<1> HIDE DEF g
<1>2. g[{}] = 0
  BY <1>1, AddsAt, ZenonT(60)
<1> QED BY <1>2, SumIs, ZenonT(60) DEF g

\* A sum is the first element and the sum of the rest.
LEMMA SumPick ==
  ASSUME NEW f, NEW S, IsFiniteSet(S), S # {}
  PROVE  SumFunctionOnSet(f, S) =
           f[Pick(S)] + SumFunctionOnSet(f, S \ {Pick(S)})
<1> DEFINE Sol(U) == CHOOSE g : Adds(g, f, U)
           T == S \ {Pick(S)}
<1>1. IsFiniteSet(T) /\ T \in SUBSET (S \cap T)
  BY FS_RemoveElement, ZenonT(60)
<1>2. Adds(Sol(S), f, S) /\ Adds(Sol(T), f, T)
  <2> HIDE DEF T
  <2> QED BY <1>1, AddsExists, ZenonT(60)
<1>3. SumFunctionOnSet(f, S) = Sol(S)[S] /\ SumFunctionOnSet(f, T) = Sol(T)[T]
  BY SumIs, ZenonT(60)
<1> HIDE DEF Sol
<1>4. Sol(S)[S] = f[Pick(S)] + Sol(S)[T]
  BY <1>2, AddsAt, SMTT(60)
<1>5. Sol(S)[T] = Sol(T)[T]
  BY <1>1, <1>2, AddsUnique, SMTT(60)
<1> QED BY <1>3, <1>4, <1>5, ZenonT(60)

\* A finite sum of integers is an integer.
LEMMA SumInt ==
  ASSUME NEW f, NEW S, IsFiniteSet(S), \A x \in S : f[x] \in Int
  PROVE  SumFunctionOnSet(f, S) \in Int
<1> DEFINE G == {T \in SUBSET S : SumFunctionOnSet(f, T) \in Int}
<1>1. ASSUME NEW T \in SUBSET S, \A U \in SUBSET T : U # T => U \in G
      PROVE  T \in G
  <2>1. CASE T = {}
    BY <2>1, SumEmpty, SMTT(60)
  <2>2. CASE T # {}
    <3>1. SumFunctionOnSet(f, T) = f[Pick(T)] + SumFunctionOnSet(f, T \ {Pick(T)})
      BY <2>2, FS_Subset, SumPick, ZenonT(60)
    <3>2. Pick(T) \in T /\ T \ {Pick(T)} \in G
      BY <1>1, <2>2, PickIn, ZenonT(60)
    <3> QED BY <3>1, <3>2, SMTT(60)
  <2> QED BY <2>1, <2>2, ZenonT(60)
<1>2. \A T \in SUBSET S : T \in G
  <2> HIDE DEF G
  <2> QED BY <1>1, SubsetInduction, ZenonT(60)
<1> QED BY <1>2, ZenonT(60)

\* A sum of zeros.
LEMMA SumZero ==
  ASSUME NEW f, NEW S, IsFiniteSet(S), \A x \in S : f[x] = 0
  PROVE  SumFunctionOnSet(f, S) = 0
<1> DEFINE G == {T \in SUBSET S : SumFunctionOnSet(f, T) = 0}
<1>1. ASSUME NEW T \in SUBSET S, \A U \in SUBSET T : U # T => U \in G
      PROVE  T \in G
  <2>1. CASE T = {}
    BY <2>1, SumEmpty, ZenonT(60)
  <2>2. CASE T # {}
    <3>1. Pick(T) \in T /\ IsFiniteSet(T)
      BY <2>2, PickIn, FS_Subset, ZenonT(60)
    <3>2. T \ {Pick(T)} \in G
      BY <1>1, <3>1, ZenonT(60)
    <3>3. SumFunctionOnSet(f, T) = f[Pick(T)] + SumFunctionOnSet(f, T \ {Pick(T)})
      BY <2>2, <3>1, SumPick, ZenonT(60)
    <3> QED BY <3>1, <3>2, <3>3, SMTT(60)
  <2> QED BY <2>1, <2>2, ZenonT(60)
<1> HIDE DEF G
<1>2. \A T \in SUBSET S : T \in G
  BY <1>1, SubsetInduction, ZenonT(60)
<1> QED BY <1>2, ZenonT(60) DEF G

\* The sum depends on what is added up and on nothing else.
LEMMA SumFrame ==
  ASSUME NEW f, NEW g, NEW S, IsFiniteSet(S), \A x \in S : f[x] = g[x]
  PROVE  SumFunctionOnSet(f, S) = SumFunctionOnSet(g, S)
<1> DEFINE G == {T \in SUBSET S :
                   SumFunctionOnSet(f, T) = SumFunctionOnSet(g, T)}
<1>1. ASSUME NEW T \in SUBSET S, \A U \in SUBSET T : U # T => U \in G
      PROVE  T \in G
  <2>1. CASE T = {}
    BY <2>1, SumEmpty, ZenonT(60)
  <2>2. CASE T # {}
    <3>1. /\ SumFunctionOnSet(f, T) = f[Pick(T)] + SumFunctionOnSet(f, T \ {Pick(T)})
          /\ SumFunctionOnSet(g, T) = g[Pick(T)] + SumFunctionOnSet(g, T \ {Pick(T)})
      BY <2>2, FS_Subset, SumPick, ZenonT(60)
    <3>2. Pick(T) \in T /\ T \ {Pick(T)} \in G
      BY <1>1, <2>2, PickIn, ZenonT(60)
    <3> QED BY <3>1, <3>2, ZenonT(60)
  <2> QED BY <2>1, <2>2, ZenonT(60)
<1>2. \A T \in SUBSET S : T \in G
  <2> HIDE DEF G
  <2> QED BY <1>1, SubsetInduction, ZenonT(60)
<1> QED BY <1>2, ZenonT(60)

\* Any element can be taken out, not only the one the fold picks.
LEMMA SumRemove ==
  ASSUME NEW f, NEW S, IsFiniteSet(S), \A x \in S : f[x] \in Int, NEW x \in S
  PROVE  SumFunctionOnSet(f, S) = f[x] + SumFunctionOnSet(f, S \ {x})
<1> DEFINE Splits(T, y) ==
             SumFunctionOnSet(f, T) = f[y] + SumFunctionOnSet(f, T \ {y})
           G == {T \in SUBSET S : \A y \in T : Splits(T, y)}
<1>1. ASSUME NEW T \in SUBSET S, \A U \in SUBSET T : U # T => U \in G
      PROVE  T \in G
  <2> SUFFICES ASSUME NEW y \in T PROVE Splits(T, y)
    BY ZenonT(60)
  <2> DEFINE p == Pick(T)
  <2>1. IsFiniteSet(T) /\ p \in T /\ Splits(T, p)
    BY FS_Subset, PickIn, SumPick, ZenonT(60)
  <2> HIDE DEF p
  <2>2. CASE y # p
    <3>1. Splits(T \ {p}, y) /\ Splits(T \ {y}, p)
      <4>1. T \ {p} \in G /\ T \ {y} \in G
        BY <1>1, <2>1, ZenonT(60)
      <4> QED BY <4>1, <2>1, <2>2, ZenonT(60)
    <3> DEFINE rest == SumFunctionOnSet(f, (T \ {p}) \ {y})
    <3>2. rest \in Int /\ f[y] \in Int /\ f[p] \in Int
      BY <2>1, FS_Subset, SumInt, ZenonT(60)
    <3>3. (T \ {y}) \ {p} = (T \ {p}) \ {y}
      BY ZenonT(60)
    <3>4. SumFunctionOnSet(f, T \ {y}) = f[p] + rest
      BY <3>1, <3>3, ZenonT(60)
    <3>5. SumFunctionOnSet(f, T) = f[p] + (f[y] + rest)
      BY <2>1, <3>1, ZenonT(60)
    <3> HIDE DEF rest
    <3> QED BY <3>2, <3>4, <3>5, SMTT(60)
  <2> QED BY <2>1, <2>2, ZenonT(60)
<1>2. \A T \in SUBSET S : T \in G
  <2> HIDE DEF G
  <2> QED BY <1>1, SubsetInduction, ZenonT(60)
<1> QED BY <1>2, ZenonT(60)

-----------------------------------------------------------------------------
(* Messages, queues and tables.                                            *)

\* A message and a request are not the empty sequence that marks their absence.
LEMMA Pairs ==
  /\ \A m \in Messages : m # <<>> /\ m[1] \in Txs
  /\ \A q \in {"sub", "unsub"} \X Channels : q # <<>> /\ q[2] \in Channels
  /\ \A m, c : <<m, c>> # <<>> /\ <<m, c>>[1] = m /\ <<m, c>>[2] = c
BY SMTT(60) DEF Messages

\* What a queue holds.
LEMMA QueueIs ==
  ASSUME NEW f \in Fifo
  PROVE  /\ Len(f) \in Nat
         /\ \A i \in 1 .. Len(f) : f[i] \in Messages \cup {Gap}
         /\ f # <<>> <=> Len(f) # 0
BY SMTT(60) DEF Fifo

\* The empty queue is one.
LEMMA EmptyIs == <<>> \in Fifo /\ Len(<<>>) = 0
BY SMTT(60) DEF Fifo

\* The queue after its first message.
LEMMA TailIs ==
  ASSUME NEW f \in Fifo, f # <<>>
  PROVE  /\ Tail(f) \in Fifo /\ Len(Tail(f)) = Len(f) - 1
         /\ \A i \in 1 .. Len(f) - 1 : Tail(f)[i] = f[i + 1]
         /\ Head(f) = f[1] /\ 1 \in 1 .. Len(f)
BY SMTT(60) DEF Fifo

\* The queue with a message at its end.
LEMMA AppendIs ==
  ASSUME NEW f \in Fifo, NEW m \in Messages
  PROVE  /\ Append(f, m) \in Fifo /\ Len(Append(f, m)) = Len(f) + 1
         /\ \A i \in 1 .. Len(f) : Append(f, m)[i] = f[i]
         /\ Append(f, m)[Len(f) + 1] = m
BY SMTT(60) DEF Fifo

\* Concatenation, position by position.
LEMMA ConcatProperties ==
  ASSUME NEW S, NEW e \in Seq(S), NEW f \in Seq(S)
  PROVE  /\ e \o f \in Seq(S) /\ Len(e \o f) = Len(e) + Len(f)
         /\ \A i \in 1 .. Len(e) + Len(f) :
              (e \o f)[i] = IF i <= Len(e) THEN e[i] ELSE f[i - Len(e)]
BY SMTT(60)

\* Two queues make a queue.
LEMMA ConcatIs ==
  ASSUME NEW e \in Fifo, NEW f \in Fifo, Len(e) = 1
  PROVE  /\ e \o f \in Fifo /\ Len(e \o f) = Len(f) + 1
         /\ (e \o f)[1] = e[1]
         /\ \A i \in 1 .. Len(f) : (e \o f)[i + 1] = f[i]
<1>1. /\ e \o f \in Fifo /\ Len(e \o f) = Len(e) + Len(f)
      /\ \A i \in 1 .. Len(e) + Len(f) :
           (e \o f)[i] = IF i <= Len(e) THEN e[i] ELSE f[i - Len(e)]
  BY ConcatProperties, ZenonT(60) DEF Fifo
<1>2. Len(f) \in Nat
  BY QueueIs, ZenonT(60)
<1>3. ASSUME NEW i \in 1 .. Len(f) PROVE (e \o f)[i + 1] = f[i]
  <2>1. i + 1 \in 1 .. Len(e) + Len(f) /\ ~(i + 1 <= Len(e)) /\ (i + 1) - Len(e) = i
    BY <1>2, SMTT(60)
  <2> QED BY <1>1, <2>1, ZenonT(60)
<1> QED BY <1>1, <1>2, <1>3, SMTT(60)

\* The queue behind a gap.
LEMMA GapIs ==
  ASSUME NEW f \in Fifo
  PROVE  /\ <<Gap>> \o f \in Fifo /\ Len(<<Gap>> \o f) = Len(f) + 1
         /\ (<<Gap>> \o f)[1] = Gap
         /\ \A i \in 1 .. Len(f) : (<<Gap>> \o f)[i + 1] = f[i]
<1>1. <<Gap>> \in Fifo /\ Len(<<Gap>>) = 1 /\ <<Gap>>[1] = Gap
  BY SMTT(60) DEF Fifo
<1> QED BY <1>1, ConcatIs, ZenonT(60)

\* What send does to one queue: the message comes last; what precedes it was
\* there in the same order, but for a gap in front when something was lost.
LEMMA PushIs ==
  ASSUME NEW f \in Fifo, NEW m \in Messages
  PROVE  /\ Push(f, m) \in Fifo /\ Len(Push(f, m)) \in Nat \ {0}
         /\ Push(f, m)[Len(Push(f, m))] = m
         /\ \E c \in {0, 1} :
              /\ Len(Push(f, m)) = Len(f) + 1 - c
              /\ \A i \in 1 .. Len(Push(f, m)) - 1 :
                   (i = 1 /\ Push(f, m)[i] = Gap) \/ Push(f, m)[i] = f[i + c]
         /\ \/ Push(f, m)[1] = Gap
            \/ /\ Len(Push(f, m)) = Len(f) + 1
               /\ \A i \in 1 .. Len(f) : Push(f, m)[i] = f[i]
<1> DEFINE kept == IF f # <<>> /\ Head(f) = Gap THEN Tail(f) ELSE f
<1>1. PICK c \in {0, 1} : /\ kept \in Fifo /\ Len(kept) = Len(f) - c
                          /\ \A i \in 1 .. Len(kept) : kept[i] = f[i + c]
  <2>1. CASE f # <<>> /\ Head(f) = Gap
    <3>1. /\ kept \in Fifo /\ Len(kept) = Len(f) - 1
          /\ \A i \in 1 .. Len(kept) : kept[i] = f[i + 1]
      BY <2>1, TailIs, ZenonT(60)
    <3> HIDE DEF kept
    <3> QED BY <3>1, ZenonT(60)
  <2>2. CASE ~(f # <<>> /\ Head(f) = Gap)
    <3>1. kept = f
      BY <2>2, ZenonT(60)
    <3> HIDE DEF kept
    <3> QED BY <3>1, QueueIs, SMTT(60)
  <2> QED BY <2>1, <2>2, ZenonT(60)
<1>2. Len(f) \in Nat /\ Len(kept) \in Nat /\ Capacity \in Nat \ {0}
  BY <1>1, QueueIs, SubscriptionsAssumption, ZenonT(60)
<1>3. CASE Len(kept) < Capacity
  <2>1. Push(f, m) = Append(f, m)
    BY <1>3, ZenonT(60) DEF Push
  <2> DEFINE g == Append(f, m)
  <2>2. /\ g \in Fifo /\ Len(g) = Len(f) + 1 /\ g[Len(f) + 1] = m
        /\ \A i \in 1 .. Len(f) : g[i] = f[i]
    BY AppendIs, ZenonT(60)
  <2> HIDE DEF g
  <2>3. /\ Len(g) = Len(f) + 1 - 0
        /\ \A i \in 1 .. Len(g) - 1 : g[i] = f[i + 0]
    BY <1>2, <2>2, SMTT(60)
  <2> QED BY <1>2, <2>1, <2>2, <2>3, SMTT(60) DEF g
<1>4. CASE ~(Len(kept) < Capacity)
  <2> DEFINE rest == Tail(kept)
             g == <<Gap>> \o Append(rest, m)
  <2>1. Push(f, m) = g
    BY <1>4, ZenonT(60) DEF Push
  <2>2. kept # <<>>
    <3> HIDE DEF kept
    <3> QED BY <1>1, <1>2, <1>4, EmptyIs, SMTT(60)
  <2>3. /\ rest \in Fifo /\ Len(rest) = Len(kept) - 1
        /\ \A i \in 1 .. Len(kept) - 1 : rest[i] = kept[i + 1]
    <3> HIDE DEF kept
    <3> QED BY <1>1, <2>2, TailIs, ZenonT(60)
  <2> HIDE DEF kept, rest
  <2>4. /\ Append(rest, m) \in Fifo /\ Len(Append(rest, m)) = Len(kept)
        /\ \A i \in 1 .. Len(kept) - 1 : Append(rest, m)[i] = kept[i + 1]
        /\ Append(rest, m)[Len(kept)] = m
    <3>1. Len(rest) + 1 = Len(kept) BY <1>2, <2>3, SMTT(60)
    <3> QED BY <2>3, <3>1, AppendIs, SMTT(60)
  <2>5. /\ g \in Fifo /\ Len(g) = Len(kept) + 1 /\ g[1] = Gap
        /\ \A i \in 1 .. Len(kept) : g[i + 1] = Append(rest, m)[i]
    BY <2>4, GapIs, ZenonT(60)
  <2> HIDE DEF g
  <2>6. g[Len(g)] = m
    <3>1. Len(kept) \in 1 .. Len(kept) BY <1>2, <1>4, SMTT(60)
    <3> QED BY <2>4, <2>5, <3>1, ZenonT(60)
  <2>7. ASSUME NEW i \in 1 .. Len(g) - 1
        PROVE  (i = 1 /\ g[i] = Gap) \/ g[i] = f[i + c]
    <3>1. CASE i = 1
      BY <2>5, <3>1, ZenonT(60)
    <3>2. CASE i # 1
      <4>1. /\ i - 1 \in 1 .. Len(kept) /\ i - 1 \in 1 .. Len(kept) - 1
            /\ i \in 1 .. Len(kept) /\ (i - 1) + 1 = i
        BY <1>2, <2>5, <3>2, SMTT(60)
      <4>2. g[(i - 1) + 1] = Append(rest, m)[i - 1] BY <2>5, <4>1, ZenonT(60)
      <4>3. Append(rest, m)[i - 1] = kept[(i - 1) + 1] BY <2>4, <4>1, ZenonT(60)
      <4>4. kept[i] = f[i + c] BY <1>1, <4>1, ZenonT(60)
      <4> QED BY <4>1, <4>2, <4>3, <4>4, ZenonT(60)
    <3> QED BY <3>1, <3>2, ZenonT(60)
  <2>8. Len(g) = Len(f) + 1 - c /\ Len(g) \in Nat \ {0}
    BY <1>1, <1>2, <2>5, SMTT(60)
  <2> QED BY <2>1, <2>5, <2>6, <2>7, <2>8, ZenonT(60)
<1> QED BY <1>3, <1>4, ZenonT(60)

\* The receivers of a session are queues of channels.
LEMMA TableIs ==
  ASSUME NEW r \in Table
  PROVE  /\ DOMAIN r \subseteq Channels
         /\ \A k \in DOMAIN r : r[k] \in Fifo
         /\ r \in [DOMAIN r -> Fifo]
BY ZenonT(60) DEF Table

\* And queues of channels are receivers of a session.
LEMMA IsTable ==
  ASSUME NEW D \in SUBSET Channels, NEW r \in [D -> Fifo]
  PROVE  r \in Table /\ DOMAIN r = D
BY ZenonT(60) DEF Table

\* A session starts without receivers.
LEMMA NoReceiversIs == NoReceivers \in Table /\ DOMAIN NoReceivers = {}
BY ZenonT(60) DEF NoReceivers, Table

-----------------------------------------------------------------------------
(* Reading from a queue and sending to it.                                 *)

\* Reading leaves a queue as fresh as it was.
LEMMA FreshTail ==
  ASSUME NEW f \in Fifo, f # <<>>, NEW k, NEW d, NEW w, Fresh(f, k, d, w)
  PROVE  Fresh(Tail(f), k, d, w)
<1> DEFINE g == Tail(f)
<1>1. /\ Len(g) = Len(f) - 1 /\ Len(f) \in Nat
      /\ \A i \in 1 .. Len(f) - 1 : g[i] = f[i + 1]
  BY TailIs, QueueIs, ZenonT(60)
<1> HIDE DEF g
<1> SUFFICES ASSUME NEW i \in 1 .. Len(g), g[i] # Gap
             PROVE  /\ k \in Carrying(g[i][1])
                    /\ NewestAt(g, i) /\ ~Awaited(w, g[i][1], k) => g[i] = d[g[i][1]]
  BY ZenonT(60) DEF Fresh, g
<1>2. i + 1 \in 1 .. Len(f) /\ g[i] = f[i + 1]
  BY <1>1, SMTT(60)
<1>3. NewestAt(g, i) => NewestAt(f, i + 1)
  <2> SUFFICES ASSUME NewestAt(g, i), NEW j \in 1 .. Len(f), j > i + 1, f[j] # Gap
               PROVE  f[j][1] # f[i + 1][1]
    BY <1>2, ZenonT(60) DEF NewestAt
  <2>1. j - 1 \in 1 .. Len(g) /\ j - 1 > i /\ (j - 1) + 1 = j /\ j - 1 \in 1 .. Len(f) - 1
    BY <1>1, SMTT(60)
  <2>2. g[j - 1] = f[(j - 1) + 1]
    BY <1>1, <2>1, ZenonT(60)
  <2> QED BY <1>2, <2>1, <2>2, ZenonT(60) DEF NewestAt
<1> QED BY <1>2, <1>3, ZenonT(60) DEF Fresh

\* What is unread before a message is read and not after it.
LEMMA UnreadTail ==
  ASSUME NEW f \in Fifo, f # <<>>, NEW t, Unread(f, t), ~Unread(Tail(f), t)
  PROVE  Head(f) = Gap \/ Head(f)[1] = t
<1>1. PICK i \in 1 .. Len(f) : f[i] = Gap \/ f[i][1] = t
  BY ZenonT(60) DEF Unread
<1>2. CASE i = 1
  BY <1>1, <1>2, TailIs, ZenonT(60)
<1>3. CASE i # 1
  <2>1. i - 1 \in 1 .. Len(f) - 1 /\ (i - 1) + 1 = i
    BY <1>3, QueueIs, SMTT(60)
  <2>2. Tail(f)[i - 1] = f[(i - 1) + 1] /\ i - 1 \in 1 .. Len(Tail(f))
    BY <2>1, TailIs, ZenonT(60)
  <2> QED BY <1>1, <2>1, <2>2, ZenonT(60) DEF Unread
<1> QED BY <1>2, <1>3, ZenonT(60)

\* The message read was the last about its transaction, if none is left.
LEMMA HeadIsNewest ==
  ASSUME NEW f \in Fifo, f # <<>>, NEW k, NEW d, NEW w, Fresh(f, k, d, w),
         Head(f) # Gap, ~Unread(Tail(f), Head(f)[1]),
         ~Awaited(w, Head(f)[1], k)
  PROVE  Head(f) = d[Head(f)[1]]
<1>1. Head(f) = f[1] /\ 1 \in 1 .. Len(f) /\ Len(f) \in Nat
  BY TailIs, QueueIs, ZenonT(60)
<1>2. NewestAt(f, 1)
  <2> SUFFICES ASSUME NEW j \in 1 .. Len(f), j > 1
               PROVE  f[j][1] # f[1][1]
    BY <1>1, ZenonT(60) DEF NewestAt
  <2>1. j - 1 \in 1 .. Len(f) - 1 /\ (j - 1) + 1 = j
    BY <1>1, SMTT(60)
  <2>2. Tail(f)[j - 1] = f[(j - 1) + 1] /\ j - 1 \in 1 .. Len(Tail(f))
    BY <2>1, TailIs, ZenonT(60)
  <2> QED BY <1>1, <2>1, <2>2, ZenonT(60) DEF Unread
<1> QED BY <1>1, <1>2, ZenonT(60) DEF Fresh

\* Sending leaves what was unread unread, and adds the message.
LEMMA UnreadPush ==
  ASSUME NEW f \in Fifo, NEW m \in Messages
  PROVE  /\ Unread(Push(f, m), m[1])
         /\ \A t : Unread(f, t) => Unread(Push(f, m), t)
<1> DEFINE g == Push(f, m)
<1>1. /\ Len(g) \in Nat \ {0} /\ g[Len(g)] = m
      /\ \/ g[1] = Gap
         \/ Len(g) = Len(f) + 1 /\ \A i \in 1 .. Len(f) : g[i] = f[i]
  BY PushIs, ZenonT(60)
<1>2. Len(g) \in 1 .. Len(g) /\ 1 \in 1 .. Len(g) /\ Len(f) \in Nat
  BY <1>1, QueueIs, SMTT(60)
<1> HIDE DEF g
<1>3. Unread(g, m[1])
  BY <1>1, <1>2, ZenonT(60) DEF Unread
<1>4. ASSUME NEW t, Unread(f, t) PROVE Unread(g, t)
  <2>1. CASE g[1] = Gap
    BY <1>2, <2>1, ZenonT(60) DEF Unread
  <2>2. CASE g[1] # Gap
    <3>1. PICK i \in 1 .. Len(f) : f[i] = Gap \/ f[i][1] = t
      BY <1>4, ZenonT(60) DEF Unread
    <3>2. i \in 1 .. Len(g) /\ g[i] = f[i]
      BY <1>1, <1>2, <2>2, SMTT(60)
    <3> QED BY <3>1, <3>2, ZenonT(60) DEF Unread
  <2> QED BY <2>1, <2>2, ZenonT(60)
<1> QED BY <1>3, <1>4, ZenonT(60) DEF g

\* The channel sent to carries the newest event last.
LEMMA FreshPush ==
  ASSUME NEW f \in Fifo, NEW m \in Messages, NEW k \in Carrying(m[1]),
         NEW c, NEW d, Fresh(f, k, d, <<m, c>>),
         NEW e, e[m[1]] = m, \A t \in Txs : t # m[1] => e[t] = d[t]
  PROVE  Fresh(Push(f, m), k, e, <<m, c \ {k}>>)
<1> DEFINE g == Push(f, m)
<1>1. g \in Fifo /\ Len(g) \in Nat \ {0} /\ g[Len(g)] = m
  BY PushIs, ZenonT(60)
<1>2. PICK b \in {0, 1} :
         /\ Len(g) = Len(f) + 1 - b
         /\ \A i \in 1 .. Len(g) - 1 : (i = 1 /\ g[i] = Gap) \/ g[i] = f[i + b]
  BY PushIs, ZenonT(60)
<1>3. /\ Len(f) \in Nat /\ m # Gap /\ m[1] \in Txs
      /\ e[m[1]] = m /\ \A t \in Txs : t # m[1] => e[t] = d[t]
  <2>1. Len(f) \in Nat /\ m # Gap /\ m[1] \in Txs
    BY QueueIs, Pairs, ZenonT(60) DEF Gap
  <2> QED BY <2>1, ZenonT(60)
<1> HIDE DEF g
<1> SUFFICES ASSUME NEW i \in 1 .. Len(g), g[i] # Gap
             PROVE  /\ k \in Carrying(g[i][1])
                    /\ NewestAt(g, i) => g[i] = e[g[i][1]]
  BY ZenonT(60) DEF Fresh, g
<1>4. CASE i = Len(g)
  BY <1>1, <1>3, <1>4, ZenonT(60)
<1>5. CASE i # Len(g)
  <2>1. /\ i \in 1 .. Len(g) - 1 /\ i + b \in 1 .. Len(f)
        /\ Len(g) \in 1 .. Len(g) /\ Len(g) > i
    BY <1>1, <1>2, <1>3, <1>5, SMTT(60)
  <2>2. g[i] = f[i + b]
    BY <1>2, <2>1, ZenonT(60)
  <2>3. k \in Carrying(g[i][1])
    BY <2>1, <2>2, ZenonT(60) DEF Fresh
  <2>4. ASSUME NewestAt(g, i) PROVE g[i] = e[g[i][1]]
    <3>1. g[i][1] # m[1]
      BY <1>1, <1>3, <2>1, <2>4, ZenonT(60) DEF NewestAt
    <3>2. NewestAt(f, i + b)
      <4> SUFFICES ASSUME NEW j \in 1 .. Len(f), j > i + b, f[j] # Gap
                   PROVE  f[j][1] # f[i + b][1]
        BY <2>2, ZenonT(60) DEF NewestAt
      <4>1. /\ j - b \in 1 .. Len(g) /\ j - b \in 1 .. Len(g) - 1
            /\ j - b > i /\ j - b # 1 /\ (j - b) + b = j
        BY <1>2, <1>3, SMTT(60)
      <4>2. g[j - b] = f[(j - b) + b]
        BY <1>2, <4>1, ZenonT(60)
      <4> QED BY <2>2, <2>4, <4>1, <4>2, ZenonT(60) DEF NewestAt
    <3>3. ~Awaited(<<m, c>>, g[i][1], k)
      BY <3>1, ZenonT(60) DEF Awaited
    <3>4. f[i + b] = d[f[i + b][1]]
      BY <2>1, <2>2, <3>2, <3>3, ZenonT(60) DEF Fresh
    <3>5. g[i][1] \in Txs
      BY <1>1, QueueIs, Pairs, ZenonT(60)
    <3> QED BY <1>3, <2>2, <3>1, <3>4, <3>5, ZenonT(60)
  <2> QED BY <2>3, <2>4, ZenonT(60)
<1> QED BY <1>4, <1>5, ZenonT(60)

-----------------------------------------------------------------------------
(* What a step makes of one session.                                       *)

\* Every channel stays fresh when a message is read from one of them.
LEMMA ReadQueues ==
  ASSUME NEW r \in Table, NEW k \in DOMAIN r, r[k] # <<>>, NEW d, NEW w,
         Queues(r, d, w)
  PROVE  /\ [r EXCEPT ![k] = Tail(@)] \in Table
         /\ DOMAIN [r EXCEPT ![k] = Tail(@)] = DOMAIN r
         /\ Queues([r EXCEPT ![k] = Tail(@)], d, w)
<1> DEFINE v == [r EXCEPT ![k] = Tail(@)]
<1>1. r \in [DOMAIN r -> Fifo] /\ DOMAIN r \in SUBSET Channels /\ r[k] \in Fifo
  BY TableIs, ZenonT(60)
<1>2. Tail(r[k]) \in Fifo
  BY <1>1, TailIs, ZenonT(60)
<1>3. /\ v \in [DOMAIN r -> Fifo] /\ v[k] = Tail(r[k])
      /\ \A c \in DOMAIN r : c # k => v[c] = r[c]
  BY <1>1, <1>2, ZenonT(60)
<1> HIDE DEF v
<1>4. v \in Table /\ DOMAIN v = DOMAIN r
  BY <1>1, <1>3, IsTable, ZenonT(60)
<1>5. ASSUME NEW c \in DOMAIN r PROVE Fresh(v[c], c, d, w)
  <2>1. Fresh(r[c], c, d, w)
    BY ZenonT(60) DEF Queues
  <2>2. CASE c = k
    BY <1>1, <1>3, <2>1, <2>2, FreshTail, ZenonT(60)
  <2>3. CASE c # k
    BY <1>3, <2>1, <2>3, ZenonT(60)
  <2> QED BY <2>2, <2>3, ZenonT(60)
<1> QED BY <1>4, <1>5, ZenonT(60) DEF Queues, v

\* What is no longer pending after a read was the head's transaction, and the
\* head the newest event about it.
LEMMA ReadOne ==
  ASSUME NEW r \in Table, NEW k \in DOMAIN r, r[k] # <<>>, NEW d, NEW w,
         NEW v, v = [r EXCEPT ![k] = Tail(@)], Queues(r, d, w), Head(r[k]) # Gap
  PROVE  \A t \in Txs : ~Pending(v, w, t) =>
           /\ Pending(r, w, t) => Head(r[k])[1] = t
           /\ Head(r[k])[1] = t => Head(r[k]) = d[t]
<1> SUFFICES ASSUME NEW t \in Txs, ~Pending(v, w, t)
             PROVE  /\ Pending(r, w, t) => Head(r[k])[1] = t
                    /\ Head(r[k])[1] = t => Head(r[k]) = d[t]
  BY ZenonT(60)
<1>1. Fresh(r[k], k, d, w) /\ r[k] \in Fifo
  BY TableIs, ZenonT(60) DEF Queues
<1>2. /\ DOMAIN v = DOMAIN r /\ v[k] = Tail(r[k])
      /\ \A c \in DOMAIN r : c # k => v[c] = r[c]
  BY ZenonT(60)
<1>3. \A c \in DOMAIN r : ~Unread(v[c], t) /\ ~Awaited(w, t, c)
  BY <1>2, ZenonT(60) DEF Pending
<1>4. ASSUME Pending(r, w, t) PROVE Head(r[k])[1] = t
  <2>1. PICK c \in DOMAIN r : Unread(r[c], t)
    BY <1>3, <1>4, ZenonT(60) DEF Pending
  <2>2. c = k
    BY <1>2, <1>3, <2>1, ZenonT(60)
  <2> QED BY <1>1, <1>2, <1>3, <2>1, <2>2, UnreadTail, ZenonT(60)
<1>5. ASSUME Head(r[k])[1] = t PROVE Head(r[k]) = d[t]
  BY <1>1, <1>2, <1>3, <1>5, HeadIsNewest, ZenonT(60)
<1> QED BY <1>4, <1>5, ZenonT(60)

\* Receive: the session skips the head, or takes it to send it.
LEMMA ReceiveOK ==
  ASSUME NEW q \in Requests, NEW r \in Table, NEW g, NEW l \in Messages \cup {Nothing},
         NEW d \in News, NEW h \in News, NEW x \in BOOLEAN, NEW w,
         SessionOK("serve", q, r, g, l, d, h, x, w),
         NEW k \in DOMAIN r, r[k] # <<>>, NEW v, v = [r EXCEPT ![k] = Tail(@)],
         NEW p, NEW b, \/ p = "clean" /\ b = l
                       \/ p = "serve" /\ b = l /\ Head(r[k]) = l /\ l # Gap
                       \/ p = "send" /\ b = Head(r[k]) /\ b # Gap
  PROVE  SessionOK(p, q, v, g, b, d, h, x, w)
<1> DEFINE m == Head(r[k])
<1>1. /\ Control("serve", q, r, g, l, d, h) /\ Queues(r, d, w) /\ Reached(r, d, w)
      /\ q = Nothing /\ ~OnTheWire("serve", q) /\ OnTheWire("send", q)
      /\ g = Cardinality(DOMAIN r)
  BY ZenonT(60) DEF SessionOK, Control, OnTheWire
<1>2. v \in Table /\ DOMAIN v = DOMAIN r /\ Queues(v, d, w)
  BY <1>1, ReadQueues, ZenonT(60)
<1>3. Reached(v, d, w)
  BY <1>1, <1>2, ZenonT(60) DEF Reached
<1>4. \A t \in Txs : x \/ Pending(r, w, t) \/ h[t] = d[t]
  BY <1>1, ZenonT(60) DEF SessionOK, UpToDate, Current, Serving
<1>5. m # Gap => \A t \in Txs : ~Pending(v, w, t) =>
                    (Pending(r, w, t) => m[1] = t) /\ (m[1] = t => m = d[t])
  BY <1>1, ReadOne, ZenonT(60)
<1> HIDE DEF m
<1>6. SessionOK("clean", q, v, g, l, d, h, x, w)
  BY <1>1, <1>2, <1>3, ZenonT(60) DEF SessionOK, Control, UpToDate, Serving, OnTheWire
<1>7. ASSUME m = l, l # Gap PROVE SessionOK("serve", q, v, g, l, d, h, x, w)
  <2>1. Control("serve", q, v, g, l, d, h)
    BY <1>1, <1>2, ZenonT(60) DEF Control
  <2>2. h[l[1]] = l
    BY <1>1, <1>7, ZenonT(60) DEF Control, Serving, Gap, Nothing
  <2>3. x \/ UpToDate("serve", q, v, l, d, h, w)
    <3> SUFFICES ASSUME ~x, NEW t \in Txs, ~Pending(v, w, t)
                 PROVE  h[t] = d[t]
      BY <1>1, ZenonT(60) DEF UpToDate, Current
    <3> QED BY <1>4, <1>5, <1>7, <2>2, ZenonT(60)
  <2> QED BY <1>2, <1>3, <2>1, <2>3, ZenonT(60) DEF SessionOK
<1>8. ASSUME m # Gap PROVE SessionOK("send", q, v, g, m, d, h, x, w)
  <2>1. Control("send", q, v, g, m, d, h)
    BY <1>1, <1>2, <1>8, ZenonT(60) DEF Control, Gap, Nothing
  <2>3. x \/ UpToDate("send", q, v, m, d, h, w)
    <3> SUFFICES ASSUME ~x, NEW t \in Txs, ~Pending(v, w, t)
                 PROVE  IF m[1] = t THEN m = d[t] ELSE h[t] = d[t]
      BY <1>1, ZenonT(60) DEF UpToDate, Current
    <3> QED BY <1>4, <1>5, <1>8, ZenonT(60)
  <2> QED BY <1>2, <1>3, <2>1, <2>3, ZenonT(60) DEF SessionOK
<1> QED BY <1>6, <1>7, <1>8, ZenonT(60) DEF m

\* Channel k, of those left in c, gets m: the session with receivers r then has
\* v to read, what is due to it was d and is e, and the write moves from w to u.
Delivers(m, c, k, r, v, d, e, w, u) ==
  /\ w = <<m, c>> /\ u = <<m, c \ {k}>>
  /\ m \in Messages /\ k \in c /\ k \in Carrying(m[1])
  /\ r \in Table /\ k \in DOMAIN r /\ DOMAIN v = DOMAIN r
  /\ v[k] = Push(r[k], m) /\ \A b \in DOMAIN r : b # k => v[b] = r[b]
  /\ e[m[1]] = m /\ \A t \in Txs : t # m[1] => e[t] = d[t]

\* Send, to a session with a receiver of the channel.
LEMMA SendOK ==
  ASSUME NEW p, NEW q, NEW r, NEW g, NEW l, NEW d, NEW h, NEW x, NEW w,
         SessionOK(p, q, r, g, l, d, h, x, w),
         NEW m, NEW c, NEW k, NEW v, NEW e, NEW u, Delivers(m, c, k, r, v, d, e, w, u)
  PROVE  SessionOK(p, q, v, g, l, e, h, x, u)
<1> USE DEF Delivers
<1>1. r \in [DOMAIN r -> Fifo] /\ DOMAIN r \in SUBSET Channels /\ r[k] \in Fifo
  BY TableIs, ZenonT(60)
<1>3. v[k] = Push(r[k], m) /\ \A b \in DOMAIN r : b # k => v[b] = r[b]
  BY ZenonT(60)
<1>4. DOMAIN v = DOMAIN r
  BY ZenonT(60)
<1>5. m[1] \in Txs /\ e[m[1]] = m /\ \A t \in Txs : t # m[1] => e[t] = d[t]
  BY Pairs, ZenonT(60)
<1>6. /\ \A t, b : Awaited(w, t, b) <=> t = m[1] /\ b \in c
      /\ \A t, b : Awaited(u, t, b) <=> t = m[1] /\ b \in c /\ b # k
  BY Pairs, ZenonT(60) DEF Awaited, Idle
<1>7. Control(p, q, r, g, l, d, h) /\ Queues(r, d, w) /\ Reached(r, d, w)
  BY ZenonT(60) DEF SessionOK
<1>8. Control(p, q, v, g, l, e, h)
  <2>1. p \notin {"idle", "admit"}
    BY <1>7, NoReceiversIs, ZenonT(60) DEF Control
  <2> QED BY <1>4, <1>7, <2>1, ZenonT(60) DEF Control
<1>9. ASSUME NEW b \in DOMAIN r PROVE Fresh(v[b], b, e, u)
  <2>1. Fresh(r[b], b, d, w) /\ r[b] \in Fifo
    BY <1>1, <1>7, ZenonT(60) DEF Queues
  <2>2. CASE b = k
    BY <1>3, <1>5, <2>1, <2>2, FreshPush, SMTT(60)
  <2>3. CASE b # k
    <3> SUFFICES ASSUME NEW i \in 1 .. Len(r[b]), r[b][i] # Gap
                 PROVE  /\ b \in Carrying(r[b][i][1])
                        /\ NewestAt(r[b], i) /\ ~Awaited(u, r[b][i][1], b)
                             => r[b][i] = e[r[b][i][1]]
      BY <1>3, <2>3, ZenonT(60) DEF Fresh
    <3>1. b \in Carrying(r[b][i][1])
      BY <2>1, ZenonT(60) DEF Fresh
    <3>2. r[b][i][1] \in Txs
      BY <2>1, QueueIs, Pairs, ZenonT(60)
    <3>3. ASSUME NewestAt(r[b], i), ~Awaited(u, r[b][i][1], b)
          PROVE  r[b][i] = e[r[b][i][1]]
      <4>1. ~Awaited(w, r[b][i][1], b)
        BY <1>6, <2>3, <3>3, ZenonT(60)
      <4>2. r[b][i] = d[r[b][i][1]]
        BY <2>1, <3>3, <4>1, ZenonT(60) DEF Fresh
      <4>3. CASE r[b][i][1] = m[1]
        <5>1. b \notin c
          BY <1>6, <4>1, <4>3, ZenonT(60)
        <5>2. d[m[1]] = m
          BY <1>7, <3>1, <4>3, <5>1, Pairs, ZenonT(60) DEF Reached, Idle
        <5> QED BY <1>5, <4>2, <4>3, <5>2, ZenonT(60)
      <4>4. CASE r[b][i][1] # m[1]
        BY <1>5, <3>2, <4>2, <4>4, ZenonT(60)
      <4> QED BY <4>3, <4>4, ZenonT(60)
    <3> QED BY <3>1, <3>3, ZenonT(60)
  <2> QED BY <2>2, <2>3, ZenonT(60)
<1>10. Reached(v, e, u)
  BY <1>5, Pairs, ZenonT(60) DEF Reached
<1>11. ASSUME NEW t \in Txs, Pending(r, w, t) PROVE Pending(v, u, t)
  <2>1. CASE t = m[1]
    <3>1. Unread(v[k], t)
      BY <1>1, <1>3, <2>1, UnreadPush, ZenonT(60)
    <3> QED BY <1>4, <3>1, ZenonT(60) DEF Pending
  <2>2. CASE t # m[1]
    <3>1. PICK b \in DOMAIN r : Unread(r[b], t)
      BY <1>6, <1>11, <2>2, ZenonT(60) DEF Pending
    <3>2. Unread(v[b], t)
      BY <1>1, <1>3, <3>1, UnreadPush, ZenonT(60)
    <3> QED BY <1>4, <3>2, ZenonT(60) DEF Pending
  <2> QED BY <2>1, <2>2, ZenonT(60)
<1>12. Pending(v, u, m[1])
  <2>1. Unread(v[k], m[1])
    BY <1>1, <1>3, UnreadPush, ZenonT(60)
  <2> QED BY <1>4, <2>1, ZenonT(60) DEF Pending
<1>13. UpToDate(p, q, r, l, d, h, w) => UpToDate(p, q, v, l, e, h, u)
  <2> SUFFICES ASSUME UpToDate(p, q, r, l, d, h, w), p \in Serving,
                      NEW t \in Txs, ~Pending(v, u, t)
               PROVE  Current(p, q, l, e, h, t)
    BY ZenonT(60) DEF UpToDate
  <2>1. t # m[1] /\ Current(p, q, l, d, h, t)
    BY <1>11, <1>12, ZenonT(60) DEF UpToDate
  <2>2. e[t] = d[t]
    BY <1>5, <2>1, ZenonT(60)
  <2> QED BY <2>1, <2>2, ZenonT(60) DEF Current
<1>14. x \/ UpToDate(p, q, v, l, e, h, u)
  <2>1. x \/ UpToDate(p, q, r, l, d, h, w)
    BY ZenonT(60) DEF SessionOK
  <2> QED BY <1>13, <2>1, ZenonT(60)
<1>15. Queues(v, e, u)
  BY <1>4, <1>9, ZenonT(60) DEF Queues
<1> QED BY <1>8, <1>10, <1>14, <1>15, ZenonT(60) DEF SessionOK

\* A session that receives nothing from a step of the writer, while what it
\* awaited it still awaits.
LEMMA WriteMovesOn ==
  ASSUME NEW p, NEW q, NEW r \in Table, NEW g, NEW l, NEW d, NEW h, NEW x,
         NEW w, NEW u, SessionOK(p, q, r, g, l, d, h, x, w), Reached(r, d, u),
         \A t \in Txs : \A k \in DOMAIN r : Awaited(w, t, k) => Awaited(u, t, k)
  PROVE  SessionOK(p, q, r, g, l, d, h, x, u)
<1>1. \A k \in DOMAIN r : r[k] \in Fifo
  BY TableIs, ZenonT(60)
<1>2. ASSUME NEW k \in DOMAIN r PROVE Fresh(r[k], k, d, u)
  <2>1. Fresh(r[k], k, d, w)
    BY ZenonT(60) DEF SessionOK, Queues
  <2>2. \A i \in 1 .. Len(r[k]) : r[k][i] # Gap => r[k][i][1] \in Txs
    BY <1>1, QueueIs, Pairs, ZenonT(60)
  <2> QED BY <2>1, <2>2, ZenonT(60) DEF Fresh
<1>3. \A t \in Txs : Pending(r, w, t) => Pending(r, u, t)
  BY ZenonT(60) DEF Pending
<1>4. UpToDate(p, q, r, l, d, h, w) => UpToDate(p, q, r, l, d, h, u)
  BY <1>3, ZenonT(60) DEF UpToDate
<1> QED BY <1>2, <1>4, ZenonT(60) DEF SessionOK, Queues

\* Send, to a channel the session has no receiver of.
LEMMA SendOther ==
  ASSUME NEW p, NEW q, NEW r \in Table, NEW g, NEW l, NEW d, NEW h, NEW x,
         NEW m, NEW c, NEW k,
         SessionOK(p, q, r, g, l, d, h, x, <<m, c>>), k \notin DOMAIN r
  PROVE  SessionOK(p, q, r, g, l, d, h, x, <<m, c \ {k}>>)
<1> DEFINE w == <<m, c>>
           u == <<m, c \ {k}>>
<1>1. Reached(r, d, w)
  BY ZenonT(60) DEF SessionOK
<1>2. Reached(r, d, u)
  BY <1>1, Pairs, ZenonT(60) DEF Reached, Idle
<1>3. \A t \in Txs : \A b \in DOMAIN r : Awaited(w, t, b) => Awaited(u, t, b)
  BY Pairs, ZenonT(60) DEF Awaited, Idle
<1> HIDE DEF w, u
<1>4. SessionOK(p, q, r, g, l, d, h, x, w)
  BY ZenonT(60) DEF w
<1>5. SessionOK(p, q, r, g, l, d, h, x, u)
  BY <1>2, <1>3, <1>4, WriteMovesOn, ZenonT(60)
<1> QED BY <1>5, ZenonT(60) DEF u

\* Write begins with every channel of the transaction still to be sent to ...
LEMMA WriteOK ==
  ASSUME NEW p, NEW q, NEW r \in Table, NEW g, NEW l, NEW d, NEW h, NEW x, NEW m,
         SessionOK(p, q, r, g, l, d, h, x, Idle)
  PROVE  SessionOK(p, q, r, g, l, d, h, x, <<m, Carrying(m[1])>>)
<1> DEFINE u == <<m, Carrying(m[1])>>
<1>1. Reached(r, d, u)
  BY Pairs, ZenonT(60) DEF Reached
<1>2. \A t \in Txs : \A b \in DOMAIN r : Awaited(Idle, t, b) => Awaited(u, t, b)
  BY ZenonT(60) DEF Awaited
<1> HIDE DEF u
<1>3. SessionOK(p, q, r, g, l, d, h, x, u)
  BY <1>1, <1>2, WriteMovesOn, ZenonT(60)
<1> QED BY <1>3, ZenonT(60) DEF u

\* ... and ends with none.
LEMMA UnlockOK ==
  ASSUME NEW p, NEW q, NEW r \in Table, NEW g, NEW l, NEW d, NEW h, NEW x, NEW m,
         SessionOK(p, q, r, g, l, d, h, x, <<m, {}>>)
  PROVE  SessionOK(p, q, r, g, l, d, h, x, Idle)
<1> DEFINE w == <<m, {}>>
<1>1. Reached(r, d, Idle)
  BY ZenonT(60) DEF Reached
<1>2. \A t \in Txs : \A b \in DOMAIN r : Awaited(w, t, b) => Awaited(Idle, t, b)
  BY Pairs, ZenonT(60) DEF Awaited
<1>3. SessionOK(p, q, r, g, l, d, h, x, w)
  BY ZenonT(60)
<1> HIDE DEF w
<1> QED BY <1>1, <1>2, <1>3, WriteMovesOn, ZenonT(60)

\* Sent: the client has been shown the message ...
LEMMA SentOK ==
  ASSUME NEW r, NEW g, NEW l \in Messages \cup {Nothing}, NEW d, NEW h \in News,
         NEW x, NEW w, SessionOK("send", Nothing, r, g, l, d, h, x, w),
         NEW e, e = [h EXCEPT ![l[1]] = l]
  PROVE  l \in Messages /\ e \in News /\ SessionOK("serve", Nothing, r, g, l, d, e, x, w)
<1>1. Control("send", Nothing, r, g, l, d, h) /\ Queues(r, d, w) /\ Reached(r, d, w)
      /\ (x \/ UpToDate("send", Nothing, r, l, d, h, w))
  BY ZenonT(60) DEF SessionOK
<1>2. OnTheWire("send", Nothing) /\ ~OnTheWire("serve", Nothing)
  BY ZenonT(60) DEF OnTheWire
<1>3. l \in Messages /\ l[1] \in Txs
  BY <1>1, <1>2, Pairs, ZenonT(60) DEF Control
<1>4. e \in News /\ e[l[1]] = l /\ \A t \in Txs : t # l[1] => e[t] = h[t]
  BY <1>3, ZenonT(60) DEF News
<1>5. Control("serve", Nothing, r, g, l, d, e)
  BY <1>1, <1>2, <1>4, ZenonT(60) DEF Control
<1>6. UpToDate("send", Nothing, r, l, d, h, w) => UpToDate("serve", Nothing, r, l, d, e, w)
  <2> SUFFICES ASSUME UpToDate("send", Nothing, r, l, d, h, w), NEW t \in Txs,
                      ~Pending(r, w, t)
               PROVE  e[t] = d[t]
    BY <1>2, ZenonT(60) DEF UpToDate, Current
  <2>1. IF l[1] = t THEN l = d[t] ELSE h[t] = d[t]
    BY <1>2, ZenonT(60) DEF UpToDate, Current, Serving
  <2> QED BY <1>4, <2>1, ZenonT(60)
<1> QED BY <1>1, <1>3, <1>4, <1>5, <1>6, ZenonT(60) DEF SessionOK

\* ... or an error, which says nothing of a transaction.
LEMMA ErrorSentOK ==
  ASSUME NEW q, q # Nothing, NEW r, NEW g, NEW l, NEW d, NEW h, NEW x, NEW w,
         SessionOK("send", q, r, g, l, d, h, x, w)
  PROVE  SessionOK("serve", Nothing, r, g, l, d, h, x, w)
<1>1. ~OnTheWire("send", q) /\ ~OnTheWire("serve", Nothing)
  BY ZenonT(60) DEF OnTheWire
<1>2. Control("serve", Nothing, r, g, l, d, h)
  BY <1>1, ZenonT(60) DEF SessionOK, Control, Serving
<1>3. UpToDate("send", q, r, l, d, h, w) => UpToDate("serve", Nothing, r, l, d, h, w)
  BY <1>1, ZenonT(60) DEF UpToDate, Current, Serving
<1> QED BY <1>2, <1>3, ZenonT(60) DEF SessionOK

\* A session that ends is no longer held to what its client sees.
LEMMA CleanOK ==
  ASSUME NEW p \in Serving, NEW q, NEW r, NEW g, NEW l, NEW d, NEW h, NEW x, NEW w,
         SessionOK(p, q, r, g, l, d, h, x, w)
  PROVE  SessionOK("clean", q, r, g, l, d, h, x, w)
<1>1. Control("clean", q, r, g, l, d, h)
  BY ZenonT(60) DEF SessionOK, Control, OnTheWire, Serving
<1>2. UpToDate("clean", q, r, l, d, h, w)
  BY ZenonT(60) DEF UpToDate, Serving
<1> QED BY <1>1, <1>2, ZenonT(60) DEF SessionOK

\* Requests do not disturb what the client has been shown: the session waits
\* for the index, and goes on or reports a refusal.
LEMMA RequestOK ==
  ASSUME NEW q, NEW r, NEW g, NEW l, NEW d, NEW h, NEW x, NEW w
  PROVE  /\ SessionOK("serve", q, r, g, l, d, h, x, w) =>
              \A v : v # Nothing => SessionOK("lock", v, r, g, l, d, h, x, w)
         /\ SessionOK("lock", q, r, g, l, d, h, x, w) =>
              /\ SessionOK("serve", Nothing, r, g, l, d, h, x, w)
              /\ SessionOK("send", q, r, g, l, d, h, x, w)
BY ZenonT(60) DEF SessionOK, Control, UpToDate, Current, OnTheWire, Serving

\* A session with nothing behind it: before and after a connection.
LEMMA FreshSession ==
  ASSUME NEW p \in {"idle", "admit", "serve"}, NEW w
  PROVE  SessionOK(p, Nothing, NoReceivers, 0, Nothing, NoNews, NoNews, FALSE, w)
<1>1. DOMAIN NoReceivers = {} /\ Cardinality({}) = 0
  BY NoReceiversIs, FS_EmptySet, ZenonT(60)
<1>2. Control(p, Nothing, NoReceivers, 0, Nothing, NoNews, NoNews)
  BY <1>1, ZenonT(60) DEF Control, OnTheWire
<1>3. UpToDate(p, Nothing, NoReceivers, Nothing, NoNews, NoNews, w)
  BY ZenonT(60) DEF UpToDate, Current, OnTheWire
<1>4. Queues(NoReceivers, NoNews, w) /\ Reached(NoReceivers, NoNews, w)
  BY <1>1, ZenonT(60) DEF Queues, Reached
<1> QED BY <1>2, <1>3, <1>4, ZenonT(60) DEF SessionOK

\* Connecting and being admitted or refused, with nothing behind it either.
LEMMA AdmitOK ==
  ASSUME NEW p \in {"idle", "admit"}, NEW v \in {"idle", "admit", "serve"},
         NEW q, NEW r, NEW g, NEW l, NEW d, NEW h, NEW x, NEW w,
         SessionOK(p, q, r, g, l, d, h, x, w)
  PROVE  SessionOK(v, q, r, g, l, d, h, x, w)
<1>1. /\ r = NoReceivers /\ q = Nothing /\ l = Nothing /\ d = NoNews /\ h = NoNews
      /\ g = Cardinality(DOMAIN r)
  BY ZenonT(60) DEF SessionOK, Control
<1>2. DOMAIN NoReceivers = {} /\ Cardinality({}) = 0
  BY NoReceiversIs, FS_EmptySet, ZenonT(60)
<1>3. g = 0
  BY <1>1, <1>2, ZenonT(60)
<1>4. SessionOK(v, Nothing, NoReceivers, 0, Nothing, NoNews, NoNews, FALSE, w)
  BY FreshSession, ZenonT(60)
<1>5. Control(v, q, r, g, l, d, h) /\ Queues(r, d, w) /\ Reached(r, d, w)
  BY <1>1, <1>3, <1>4, ZenonT(60) DEF SessionOK
<1>6. UpToDate(v, q, r, l, d, h, w)
  BY <1>1, <1>3, <1>4, ZenonT(60) DEF SessionOK
<1> QED BY <1>5, <1>6, ZenonT(60) DEF SessionOK

\* handle_sub adds a receiver with nothing to read, between two writes ...
LEMMA SubscribeOK ==
  ASSUME NEW q, NEW r \in Table, NEW g, NEW l, NEW d, NEW h, NEW x,
         SessionOK("serve", q, r, g, l, d, h, x, Idle),
         NEW v, NEW k \in DOMAIN v, k \notin DOMAIN r, v[k] = <<>>,
         DOMAIN v = DOMAIN r \cup {k}, \A c \in DOMAIN r : v[c] = r[c],
         NEW b, b = g + 1
  PROVE  SessionOK("serve", q, v, b, l, d, h, x, Idle)
<1>1. DOMAIN r \in SUBSET Channels
  BY TableIs, ZenonT(60)
<1>2. /\ v[k] = <<>> /\ \A c \in DOMAIN r : v[c] = r[c]
  BY ZenonT(60)
<1>3. DOMAIN v = DOMAIN r \cup {k}
  BY ZenonT(60)
<1>4. Cardinality(DOMAIN r \cup {k}) = Cardinality(DOMAIN r) + 1
  BY <1>1, FS_Subset, FS_AddElement, SubscriptionsAssumption, ZenonT(60)
<1>5. Control("serve", q, v, b, l, d, h)
  BY <1>3, <1>4, ZenonT(60) DEF SessionOK, Control
<1>6. Queues(v, d, Idle)
  <2>1. \A c \in DOMAIN r : Fresh(v[c], c, d, Idle)
    BY <1>2, ZenonT(60) DEF SessionOK, Queues
  <2>2. Fresh(v[k], k, d, Idle)
    BY <1>2, EmptyIs, SMTT(60) DEF Fresh
  <2> QED BY <1>3, <2>1, <2>2, ZenonT(60) DEF Queues
<1>7. \A t \in Txs : Pending(r, Idle, t) => Pending(v, Idle, t)
  BY <1>2, <1>3, ZenonT(60) DEF Pending
<1>8. UpToDate("serve", q, r, l, d, h, Idle) => UpToDate("serve", q, v, l, d, h, Idle)
  BY <1>7, ZenonT(60) DEF UpToDate
<1>9. Reached(v, d, Idle)
  BY ZenonT(60) DEF Reached
<1> QED BY <1>5, <1>6, <1>8, <1>9, ZenonT(60) DEF SessionOK

\* Dropping a channel gives up what was left to read on it.
GivesUp(x, r, k) == x \/ (k \in DOMAIN r /\ r[k] # <<>>)

\* ... and drops one, which is noted when something was left to read.
LEMMA UnsubscribeOK ==
  ASSUME NEW q, NEW r \in Table, NEW g, NEW l, NEW d, NEW h, NEW x,
         SessionOK("serve", q, r, g, l, d, h, x, Idle),
         NEW v, NEW k, DOMAIN v = DOMAIN r \ {k}, \A c \in DOMAIN r \ {k} : v[c] = r[c],
         NEW b, b = (IF k \in DOMAIN r THEN g - 1 ELSE g)
  PROVE  SessionOK("serve", q, v, b, l, d, h, GivesUp(x, r, k), Idle)
<1>1. DOMAIN r \in SUBSET Channels
  BY TableIs, ZenonT(60)
<1>3. \A c \in DOMAIN r \ {k} : v[c] = r[c]
  BY ZenonT(60)
<1>4. DOMAIN v = DOMAIN r \ {k}
  BY ZenonT(60)
<1>5. b = Cardinality(DOMAIN v)
  <2>1. g = Cardinality(DOMAIN r)
    BY ZenonT(60) DEF SessionOK, Control
  <2>2. CASE k \in DOMAIN r
    BY <1>1, <1>4, <2>1, <2>2, FS_Subset, FS_RemoveElement, SubscriptionsAssumption, SMTT(60)
  <2>3. CASE k \notin DOMAIN r
    <3>1. DOMAIN r \ {k} = DOMAIN r
      BY <2>3, ZenonT(60)
    <3> QED BY <1>4, <2>1, <2>3, <3>1, ZenonT(60)
  <2> QED BY <2>2, <2>3, ZenonT(60)
<1>6. Control("serve", q, v, b, l, d, h)
  BY <1>5, ZenonT(60) DEF SessionOK, Control
<1>7. Queues(v, d, Idle)
  BY <1>3, <1>4, ZenonT(60) DEF SessionOK, Queues
<1>8. ASSUME NEW t \in Txs, ~(k \in DOMAIN r /\ r[k] # <<>>), Pending(r, Idle, t)
      PROVE  Pending(v, Idle, t)
  <2>1. PICK c \in DOMAIN r : Unread(r[c], t)
    BY <1>8, ZenonT(60) DEF Pending, Awaited
  <2>2. c # k
    BY <1>8, <2>1, EmptyIs, SMTT(60) DEF Unread
  <2>3. c \in DOMAIN v /\ v[c] = r[c]
    BY <1>3, <1>4, <2>2, ZenonT(60)
  <2> QED BY <2>1, <2>3, ZenonT(60) DEF Pending
<1>9. GivesUp(x, r, k) \/ UpToDate("serve", q, v, l, d, h, Idle)
  <2> SUFFICES ASSUME ~x, ~(k \in DOMAIN r /\ r[k] # <<>>)
               PROVE  UpToDate("serve", q, v, l, d, h, Idle)
    BY ZenonT(60) DEF GivesUp
  <2>1. UpToDate("serve", q, r, l, d, h, Idle)
    BY ZenonT(60) DEF SessionOK
  <2> QED BY <1>8, <2>1, ZenonT(60) DEF UpToDate
<1>10. Reached(v, d, Idle)
  BY ZenonT(60) DEF Reached
<1> QED BY <1>4, <1>6, <1>7, <1>9, <1>10, ZenonT(60) DEF SessionOK

\* Changing one summand changes the sum as much.
LEMMA SumChange ==
  ASSUME NEW f, NEW e, NEW S, IsFiniteSet(S), \A y \in S : f[y] \in Int,
         NEW x \in S, NEW b \in Int, e[x] = f[x] + b,
         \A y \in S : y # x => e[y] = f[y]
  PROVE  SumFunctionOnSet(e, S) = SumFunctionOnSet(f, S) + b
<1> DEFINE T == S \ {x}
<1>1. IsFiniteSet(T)
  BY FS_RemoveElement, ZenonT(60)
<1>2. \A y \in S : e[y] \in Int
  BY SMTT(60)
<1>3. SumFunctionOnSet(f, S) = f[x] + SumFunctionOnSet(f, T)
  BY SumRemove, SMTT(60)
<1>4. SumFunctionOnSet(e, S) = e[x] + SumFunctionOnSet(e, T)
  BY <1>2, SumRemove, SMTT(60)
<1>5. SumFunctionOnSet(e, T) = SumFunctionOnSet(f, T)
  BY <1>1, SumFrame, SMTT(60)
<1>6. SumFunctionOnSet(f, T) \in Int /\ f[x] \in Int
  BY <1>1, SumInt, ZenonT(60)
<1> HIDE DEF T
<1> QED BY <1>3, <1>4, <1>5, <1>6, SMTT(60)

-----------------------------------------------------------------------------
(* A step of one session.                                                  *)

\* The session's variables take these values.
Moves(s, p, q, r, g, l, d, h, x) ==
  /\ pc' = [pc EXCEPT ![s] = p] /\ request' = [request EXCEPT ![s] = q]
  /\ rx' = [rx EXCEPT ![s] = r] /\ guards' = [guards EXCEPT ![s] = g]
  /\ last' = [last EXCEPT ![s] = l] /\ due' = [due EXCEPT ![s] = d]
  /\ shown' = [shown EXCEPT ![s] = h] /\ dropped' = [dropped EXCEPT ![s] = x]

\* The members that need a sender when the receivers of s are those of D.
Wanted(s, D) ==
  {k \in Members : k \in D \/ \E o \in Sessions \ {s} : k \in Subs(o)}

\* The limiter is told that s holds g slots.
Charged(s, g) ==
  /\ count' = [count EXCEPT ![KeyOf[s]] = @ + (g - guards[s])]
  /\ total' = total + (g - guards[s])

\* A function is not changed by the value it already has.
LEMMA Same ==
  ASSUME NEW S, NEW T, NEW f \in [S -> T], NEW s \in S
  PROVE  f = [f EXCEPT ![s] = f[s]]
BY ZenonT(60)

\* What the invariant says of one session.
LEMMA SessionIs ==
  ASSUME Inductive, NEW s \in Sessions
  PROVE  /\ pc[s] \in Steps /\ request[s] \in Requests /\ rx[s] \in Table
         /\ guards[s] \in Int /\ last[s] \in Messages \cup {Nothing}
         /\ due[s] \in News /\ shown[s] \in News /\ dropped[s] \in BOOLEAN
         /\ Session(s) /\ senders = Wanted(s, Subs(s))
<1>1. /\ pc[s] \in Steps /\ request[s] \in Requests /\ rx[s] \in Table
      /\ guards[s] \in Int /\ last[s] \in Messages \cup {Nothing}
      /\ due[s] \in News /\ shown[s] \in News /\ dropped[s] \in BOOLEAN
  BY ZenonT(60) DEF Inductive, Types
<1>2. Session(s)
  BY ZenonT(60) DEF Inductive
<1>3. senders = Wanted(s, Subs(s))
  BY ZenonT(60) DEF Inductive, SendersHaveReceivers, Receivers, Wanted
<1> QED BY <1>1, <1>2, <1>3, ZenonT(60)

\* The limiter still counts the slots when one session is charged for them.
LEMMA CountedMoves ==
  ASSUME Inductive, NEW s \in Sessions, NEW g \in Int,
         guards' = [guards EXCEPT ![s] = g], Charged(s, g)
  PROVE  Counted' /\ count' \in [Keys -> Int] /\ total' \in Int
<1> DEFINE b == g - guards[s]
           At(a) == {o \in Sessions : KeyOf[o] = a}
<1>1. /\ guards \in [Sessions -> Int] /\ count \in [Keys -> Int] /\ total \in Int
      /\ b \in Int /\ KeyOf[s] \in Keys
  <2>1. guards \in [Sessions -> Int] /\ count \in [Keys -> Int] /\ total \in Int
    BY ZenonT(60) DEF Inductive, Types
  <2>2. KeyOf[s] \in Keys
    BY SubscriptionsAssumption, ZenonT(60)
  <2> QED BY <2>1, <2>2, SMTT(60)
<1>2. /\ IsFiniteSet(Keys) /\ \A a \in Keys : IsFiniteSet(At(a))
  BY SubscriptionsAssumption, FS_Subset, ZenonT(60)
<1>3. guards'[s] = guards[s] + b /\ \A o \in Sessions : o # s => guards'[o] = guards[o]
  BY <1>1, SMTT(60)
<1>4. /\ count' \in [Keys -> Int] /\ count'[KeyOf[s]] = count[KeyOf[s]] + b
      /\ \A a \in Keys : a # KeyOf[s] => count'[a] = count[a]
  BY <1>1, SMTT(60) DEF Charged
<1>5. total' = total + b
  BY ZenonT(60) DEF Charged
<1> HIDE DEF b
<1>6. ASSUME NEW a \in Keys PROVE count'[a] = SumFunctionOnSet(guards', At(a))
  <2> DEFINE A == At(a)
             f == guards
             e == guards'
  <2>1. count[a] = SumFunctionOnSet(f, A)
    BY ZenonT(60) DEF Inductive, Counted
  <2>2. IsFiniteSet(A) /\ \A o \in A : f[o] \in Int
    BY <1>1, <1>2, ZenonT(60)
  <2>3. CASE a = KeyOf[s]
    <3>1. s \in A /\ e[s] = f[s] + b /\ \A o \in A : o # s => e[o] = f[o]
      BY <1>3, <2>3, ZenonT(60)
    <3>2. b \in Int
      BY <1>1, ZenonT(60)
    <3> HIDE DEF A, f, e
    <3>3. SumFunctionOnSet(e, A) = SumFunctionOnSet(f, A) + b
      BY <2>2, <3>1, <3>2, SumChange, SMTT(60)
    <3> QED BY <1>4, <2>1, <2>3, <3>3, ZenonT(60) DEF A, e
  <2>4. CASE a # KeyOf[s]
    <3>1. \A o \in A : f[o] = e[o]
      BY <1>3, <2>4, ZenonT(60)
    <3> HIDE DEF A, f, e
    <3>2. SumFunctionOnSet(f, A) = SumFunctionOnSet(e, A)
      BY <2>2, <3>1, SumFrame, ZenonT(60)
    <3> QED BY <1>4, <2>1, <2>4, <3>2, ZenonT(60) DEF A, e
  <2> QED BY <2>3, <2>4, ZenonT(60)
<1>7. total' = SumFunctionOnSet(count', Keys)
  <2>1. total = SumFunctionOnSet(count, Keys)
    BY ZenonT(60) DEF Inductive, Counted
  <2>2. SumFunctionOnSet(count', Keys) = SumFunctionOnSet(count, Keys) + b
    BY <1>1, <1>2, <1>4, SumChange, SMTT(60)
  <2> QED BY <1>5, <2>1, <2>2, ZenonT(60)
<1>8. total' \in Int
  BY <1>1, <1>5, SMTT(60)
<1> QED BY <1>4, <1>6, <1>7, <1>8, ZenonT(60) DEF Counted

\* A step of one session, in the values its variables take.
LEMMA StepOf ==
  ASSUME Inductive, NEW s \in Sessions,
         NEW p \in Steps, NEW q \in Requests, NEW r \in Table, NEW g \in Int,
         NEW l \in Messages \cup {Nothing}, NEW d \in News, NEW h \in News,
         NEW x \in BOOLEAN, Moves(s, p, q, r, g, l, d, h, x), writing' = writing,
         SessionOK(p, q, r, g, l, d, h, x, writing),
         senders' = Wanted(s, DOMAIN r), Charged(s, g)
  PROVE  Inductive'
<1>1. Counted' /\ count' \in [Keys -> Int] /\ total' \in Int
  BY CountedMoves, ZenonT(60) DEF Moves
<1>2. /\ pc \in [Sessions -> Steps] /\ request \in [Sessions -> Requests]
      /\ rx \in [Sessions -> Table] /\ guards \in [Sessions -> Int]
      /\ last \in [Sessions -> Messages \cup {Nothing}]
      /\ due \in [Sessions -> News] /\ shown \in [Sessions -> News]
      /\ dropped \in [Sessions -> BOOLEAN]
  BY ZenonT(60) DEF Inductive, Types
<1>3. /\ pc' \in [Sessions -> Steps] /\ request' \in [Sessions -> Requests]
      /\ rx' \in [Sessions -> Table] /\ guards' \in [Sessions -> Int]
      /\ last' \in [Sessions -> Messages \cup {Nothing}]
      /\ due' \in [Sessions -> News] /\ shown' \in [Sessions -> News]
      /\ dropped' \in [Sessions -> BOOLEAN]
  BY <1>2, ZenonT(60) DEF Moves
<1>4. Types'
  <2>1. (writing = Idle \/ \E m \in Messages : \E c \in SUBSET Carrying(m[1]) :
                             writing = <<m, c>>)'
    BY ZenonT(60) DEF Inductive, Types
  <2> QED BY <1>1, <1>3, <2>1, ZenonT(60) DEF Types
<1>5. /\ pc'[s] = p /\ request'[s] = q /\ rx'[s] = r /\ guards'[s] = g
      /\ last'[s] = l /\ due'[s] = d /\ shown'[s] = h /\ dropped'[s] = x
  BY <1>2, ZenonT(60) DEF Moves
<1>6. \A o \in Sessions : o # s =>
        /\ pc'[o] = pc[o] /\ request'[o] = request[o] /\ rx'[o] = rx[o]
        /\ guards'[o] = guards[o] /\ last'[o] = last[o] /\ due'[o] = due[o]
        /\ shown'[o] = shown[o] /\ dropped'[o] = dropped[o]
  BY <1>2, ZenonT(60) DEF Moves
<1>7. ASSUME NEW o \in Sessions PROVE Session(o)'
  <2>1. CASE o = s
    BY <1>5, <2>1, ZenonT(60) DEF Session
  <2>2. CASE o # s
    <3>1. Session(o)
      BY ZenonT(60) DEF Inductive
    <3> QED BY <1>6, <2>2, <3>1, ZenonT(60) DEF Session
  <2> QED BY <2>1, <2>2, ZenonT(60)
<1>8. SendersHaveReceivers'
  <2>1. \A k \in Members : (Receivers(k) # {})' <=>
           k \in DOMAIN r \/ \E o \in Sessions \ {s} : k \in Subs(o)
    BY <1>5, <1>6, ZenonT(60) DEF Receivers, Subs
  <2> QED BY <2>1, ZenonT(60) DEF SendersHaveReceivers, Wanted
<1> QED BY <1>1, <1>4, <1>7, <1>8, ZenonT(60) DEF Inductive

\* What a step of a session leaves alone keeps its value.
LEMMA Stays ==
  ASSUME Inductive, NEW s \in Sessions
  PROVE  /\ pc = [pc EXCEPT ![s] = pc[s]]
         /\ request = [request EXCEPT ![s] = request[s]]
         /\ rx = [rx EXCEPT ![s] = rx[s]]
         /\ guards = [guards EXCEPT ![s] = guards[s]]
         /\ last = [last EXCEPT ![s] = last[s]]
         /\ due = [due EXCEPT ![s] = due[s]]
         /\ shown = [shown EXCEPT ![s] = shown[s]]
         /\ dropped = [dropped EXCEPT ![s] = dropped[s]]
<1>1. /\ pc \in [Sessions -> Steps] /\ request \in [Sessions -> Requests]
      /\ rx \in [Sessions -> Table] /\ guards \in [Sessions -> Int]
      /\ last \in [Sessions -> Messages \cup {Nothing}]
      /\ due \in [Sessions -> News] /\ shown \in [Sessions -> News]
      /\ dropped \in [Sessions -> BOOLEAN]
  BY ZenonT(60) DEF Inductive, Types
<1> QED BY <1>1, Same, ZenonT(60)

\* A step that subscribes to nothing and gives up nothing.
LEMMA PassesOn ==
  ASSUME Inductive, NEW s \in Sessions,
         NEW p \in Steps, NEW q \in Requests, NEW r \in Table,
         NEW l \in Messages \cup {Nothing}, NEW h \in News,
         Moves(s, p, q, r, guards[s], l, due[s], h, dropped[s]),
         UNCHANGED <<writing, senders, count, total>>, DOMAIN r = Subs(s),
         SessionOK(p, q, r, guards[s], l, due[s], h, dropped[s], writing)
  PROVE  Inductive'
<1>1. /\ guards[s] \in Int /\ due[s] \in News /\ dropped[s] \in BOOLEAN
      /\ senders = Wanted(s, Subs(s))
  BY SessionIs, ZenonT(60)
<1>2. Charged(s, guards[s])
  <2>1. count \in [Keys -> Int] /\ total \in Int
    BY ZenonT(60) DEF Inductive, Types
  <2>2. KeyOf[s] \in Keys
    BY SubscriptionsAssumption, ZenonT(60)
  <2> QED BY <1>1, <2>1, <2>2, SMTT(60) DEF Charged
<1>3. senders' = Wanted(s, DOMAIN r) /\ writing' = writing
  BY <1>1, ZenonT(60)
<1> QED BY <1>1, <1>2, <1>3, StepOf, ZenonT(60)

\* Where a session is says which of the lemmas above apply to it.
LEMMA SessionAt ==
  ASSUME Inductive, NEW s \in Sessions, NEW p, pc[s] = p
  PROVE  SessionOK(p, request[s], rx[s], guards[s], last[s], due[s], shown[s],
                   dropped[s], writing)
BY SessionIs, ZenonT(60) DEF Session

\* websocket, Leave and the lifecycle future: only the step changes.
LEMMA WalkPreserves ==
  ASSUME Inductive, NEW s \in Sessions,
         Connect(s) \/ Admit(s) \/ Refuse(s) \/ Leave(s) \/ Lifecycle(s)
  PROVE  Inductive'
<1>1. UNCHANGED <<writing, senders, count, total, request, rx, guards, last, due,
                  shown, dropped>>
  BY ZenonT(60) DEF Connect, Admit, Refuse, Leave, Lifecycle, limiter, history
<1>2. PICK p \in Steps :
         /\ pc' = [pc EXCEPT ![s] = p]
         /\ \/ pc[s] \in {"idle", "admit"} /\ p \in {"idle", "admit", "serve"}
            \/ pc[s] \in Serving /\ p = "clean"
  BY ZenonT(60) DEF Connect, Admit, Refuse, Leave, Lifecycle, LifecycleWins, Go, Steps, Serving
<1>3. SessionOK(p, request[s], rx[s], guards[s], last[s], due[s], shown[s],
                dropped[s], writing)
  <2>1. SessionOK(pc[s], request[s], rx[s], guards[s], last[s], due[s], shown[s],
                  dropped[s], writing)
    BY SessionAt, ZenonT(60)
  <2>2. CASE pc[s] \in {"idle", "admit"} /\ p \in {"idle", "admit", "serve"}
    BY <2>1, <2>2, AdmitOK, ZenonT(60)
  <2>3. CASE pc[s] \in Serving /\ p = "clean"
    BY <2>1, <2>3, CleanOK, ZenonT(60)
  <2> QED BY <1>2, <2>2, <2>3, ZenonT(60)
<1>4. Moves(s, p, request[s], rx[s], guards[s], last[s], due[s], shown[s], dropped[s])
  BY <1>1, <1>2, Stays, ZenonT(60) DEF Moves
<1> QED BY <1>1, <1>3, <1>4, SessionIs, PassesOn, ZenonT(60) DEF Subs

\* Request: the loop read a message of the client.
LEMMA RequestPreserves ==
  ASSUME Inductive, NEW s \in Sessions, Request(s)
  PROVE  Inductive'
<1>1. UNCHANGED <<writing, senders, count, total, rx, guards, last, due, shown, dropped>>
  BY ZenonT(60) DEF Request, limiter, history
<1>2. PICK q \in {"sub", "unsub"} \X Channels :
         pc' = [pc EXCEPT ![s] = "lock"] /\ request' = [request EXCEPT ![s] = q]
  BY ZenonT(60) DEF Request, Go
<1>3. q \in Requests /\ q # Nothing /\ "lock" \in Steps
  BY <1>2, Pairs, ZenonT(60) DEF Requests, Nothing, Steps, Serving
<1>4. SessionOK("serve", request[s], rx[s], guards[s], last[s], due[s], shown[s],
                dropped[s], writing)
  BY SessionAt, ZenonT(60) DEF Request
<1>5. SessionOK("lock", q, rx[s], guards[s], last[s], due[s], shown[s],
                dropped[s], writing)
  BY <1>3, <1>4, RequestOK, ZenonT(60)
<1>6. Moves(s, "lock", q, rx[s], guards[s], last[s], due[s], shown[s], dropped[s])
  BY <1>1, <1>2, Stays, ZenonT(60) DEF Moves
<1> QED BY <1>1, <1>3, <1>5, <1>6, SessionIs, PassesOn, ZenonT(60) DEF Subs

\* recv_action and what the loop does with the message.
LEMMA ReceivePreserves ==
  ASSUME Inductive, NEW s \in Sessions, Receive(s)
  PROVE  Inductive'
<1>1. UNCHANGED <<writing, senders, count, total, request, guards, due, shown, dropped>>
  BY ZenonT(60) DEF Receive, limiter, history
<1>2. PICK k \in Readable(s) :
         /\ rx' = [rx EXCEPT ![s][k] = Tail(@)]
         /\ \/ Go(s, "clean") /\ UNCHANGED last
            \/ Head(rx[s][k]) = last[s] /\ last[s] # Gap /\ UNCHANGED <<pc, last>>
            \/ /\ Head(rx[s][k]) # Gap /\ Go(s, "send")
               /\ last' = [last EXCEPT ![s] = Head(rx[s][k])]
  BY ZenonT(60) DEF Receive, ChannelDiscontinuity, Repeats
<1>3. k \in Subs(s) /\ rx[s][k] # <<>> /\ rx[s] \in Table /\ pc[s] = "serve"
  BY SessionIs, ZenonT(60) DEF Readable, Receive
<1> DEFINE v == [rx[s] EXCEPT ![k] = Tail(@)]
<1>4. rx' = [rx EXCEPT ![s] = v]
  BY <1>2, ZenonT(60)
<1>5. Head(rx[s][k]) # Gap => Head(rx[s][k]) \in Messages
  <2>1. rx[s][k] \in Fifo
    BY <1>3, TableIs, ZenonT(60) DEF Subs
  <2>2. Head(rx[s][k]) = rx[s][k][1] /\ 1 \in 1 .. Len(rx[s][k])
    BY <1>3, <2>1, TailIs, ZenonT(60)
  <2> QED BY <2>1, <2>2, QueueIs, ZenonT(60)
<1>6. SessionOK("serve", request[s], rx[s], guards[s], last[s], due[s], shown[s],
                dropped[s], writing)
  BY <1>3, SessionAt, ZenonT(60)
<1>7. v \in Table /\ DOMAIN v = Subs(s) /\ v = [rx[s] EXCEPT ![k] = Tail(@)]
  <2>1. Queues(rx[s], due[s], writing)
    BY <1>6, ZenonT(60) DEF SessionOK
  <2> QED BY <1>3, <2>1, ReadQueues, ZenonT(60) DEF Subs
<1> HIDE DEF v
<1>8. PICK p \in Steps, l \in Messages \cup {Nothing} :
         /\ pc' = [pc EXCEPT ![s] = p] /\ last' = [last EXCEPT ![s] = l]
         /\ \/ p = "clean" /\ l = last[s]
            \/ p = "serve" /\ l = last[s] /\ Head(rx[s][k]) = last[s] /\ last[s] # Gap
            \/ p = "send" /\ l = Head(rx[s][k]) /\ l # Gap
  <2>1. {"clean", "serve", "send"} \subseteq Steps /\ last[s] \in Messages \cup {Nothing}
    BY SessionIs, ZenonT(60) DEF Steps, Serving
  <2>2. CASE Go(s, "clean") /\ UNCHANGED last
    BY <2>1, <2>2, Stays, ZenonT(60) DEF Go
  <2>3. CASE Head(rx[s][k]) = last[s] /\ last[s] # Gap /\ UNCHANGED <<pc, last>>
    BY <1>3, <2>1, <2>3, Stays, ZenonT(60)
  <2>4. CASE /\ Head(rx[s][k]) # Gap /\ Go(s, "send")
             /\ last' = [last EXCEPT ![s] = Head(rx[s][k])]
    <3> DEFINE y == Head(rx[s][k])
    <3>1. /\ y \in Messages \cup {Nothing} /\ y # Gap
          /\ pc' = [pc EXCEPT ![s] = "send"] /\ last' = [last EXCEPT ![s] = y]
      BY <1>5, <2>4, ZenonT(60) DEF Go
    <3>2. y = Head(rx[s][k])
      BY ZenonT(60)
    <3> HIDE DEF y
    <3> QED BY <2>1, <3>1, <3>2, ZenonT(60)
  <2> QED BY <1>2, <2>2, <2>3, <2>4, ZenonT(60)
<1>9. SessionOK(p, request[s], v, guards[s], l, due[s], shown[s], dropped[s], writing)
  <2>1. /\ request[s] \in Requests /\ last[s] \in Messages \cup {Nothing}
        /\ due[s] \in News /\ shown[s] \in News /\ dropped[s] \in BOOLEAN
    BY SessionIs, ZenonT(60)
  <2> QED BY <1>3, <1>6, <1>7, <1>8, <2>1, ReceiveOK, SMTT(60) DEF Subs
<1>10. Moves(s, p, request[s], v, guards[s], l, due[s], shown[s], dropped[s])
  BY <1>1, <1>4, <1>8, Stays, ZenonT(60) DEF Moves
<1> QED BY <1>1, <1>7, <1>8, <1>9, <1>10, SessionIs, PassesOn, ZenonT(60)

\* socket.send has returned.
LEMMA SentPreserves ==
  ASSUME Inductive, NEW s \in Sessions, Sent(s)
  PROVE  Inductive'
<1>1. /\ UNCHANGED <<writing, senders, count, total, rx, guards, last, due, dropped>>
      /\ pc' = [pc EXCEPT ![s] = "serve"] /\ request' = [request EXCEPT ![s] = Nothing]
      /\ pc[s] = "send"
  BY ZenonT(60) DEF Sent, limiter, Go
<1>2. SessionOK("send", request[s], rx[s], guards[s], last[s], due[s], shown[s],
                dropped[s], writing)
  BY <1>1, SessionAt, ZenonT(60)
<1>3. PICK h \in News :
         /\ shown' = [shown EXCEPT ![s] = h]
         /\ SessionOK("serve", Nothing, rx[s], guards[s], last[s], due[s], h,
                      dropped[s], writing)
  <2>0. last[s] \in Messages \cup {Nothing} /\ shown[s] \in News
    BY SessionIs, ZenonT(60)
  <2>1. CASE request[s] = Nothing
    <3> DEFINE h == [shown[s] EXCEPT ![last[s][1]] = last[s]]
    <3>1. /\ last[s] \in Messages /\ h \in News
          /\ SessionOK("serve", Nothing, rx[s], guards[s], last[s], due[s], h,
                       dropped[s], writing)
      BY <1>2, <2>0, <2>1, SentOK, ZenonT(60)
    <3>2. last[s] # Gap
      BY <3>1, Pairs, ZenonT(60) DEF Gap
    <3>3. shown' = [shown EXCEPT ![s] = h]
      <4>1. shown' = [shown EXCEPT ![s][last[s][1]] = last[s]]
        BY <2>1, <3>2, ZenonT(60) DEF Sent
      <4> QED BY <4>1, ZenonT(60)
    <3> HIDE DEF h
    <3> QED BY <3>1, <3>3, ZenonT(60)
  <2>2. CASE request[s] # Nothing
    <3>1. SessionOK("serve", Nothing, rx[s], guards[s], last[s], due[s], shown[s],
                    dropped[s], writing)
      BY <1>2, <2>2, ErrorSentOK, ZenonT(60)
    <3>2. shown' = shown
      BY <2>2, ZenonT(60) DEF Sent
    <3> QED BY <2>0, <3>1, <3>2, Stays, ZenonT(60)
  <2> QED BY <2>1, <2>2, ZenonT(60)
<1>4. Moves(s, "serve", Nothing, rx[s], guards[s], last[s], due[s], h, dropped[s])
  BY <1>1, <1>3, Stays, ZenonT(60) DEF Moves
<1>5. "serve" \in Steps /\ Nothing \in Requests
  BY ZenonT(60) DEF Steps, Serving, Requests
<1> QED BY <1>1, <1>3, <1>4, <1>5, SessionIs, PassesOn, ZenonT(60) DEF Subs

\* handle_sub, subscribing.
LEMMA SubPreserves ==
  ASSUME Inductive, NEW s \in Sessions, HandleSub(s)
  PROVE  Inductive'
<1> DEFINE k == request[s][2]
<1>1. /\ UNCHANGED <<writing, last, due, shown, dropped>>
      /\ pc[s] = "lock" /\ writing = Idle /\ request[s][1] = "sub"
  BY ZenonT(60) DEF HandleSub, history
<1>2. SessionOK("lock", request[s], rx[s], guards[s], last[s], due[s], shown[s],
                dropped[s], writing)
  BY <1>1, SessionAt, ZenonT(60)
<1>3. request[s] \in {"sub", "unsub"} \X Channels /\ k \in Channels
  <2>1. request[s] # Nothing
    BY <1>2, ZenonT(60) DEF SessionOK, Control
  <2>2. request[s] \in {"sub", "unsub"} \X Channels
    BY <2>1, SessionIs, ZenonT(60) DEF Requests
  <2> QED BY <2>2, Pairs, ZenonT(60)
<1>4. /\ SessionOK("serve", Nothing, rx[s], guards[s], last[s], due[s], shown[s],
                   dropped[s], writing)
      /\ SessionOK("send", request[s], rx[s], guards[s], last[s], due[s], shown[s],
                   dropped[s], writing)
  BY <1>2, RequestOK, ZenonT(60)
<1>5. "serve" \in Steps /\ "send" \in Steps /\ Nothing \in Requests
  BY ZenonT(60) DEF Steps, Serving, Requests
<1>6. CASE /\ pc' = [pc EXCEPT ![s] = "serve"]
           /\ request' = [request EXCEPT ![s] = Nothing]
           /\ UNCHANGED <<senders, limiter, rx, guards>>
  <2>1. Moves(s, "serve", Nothing, rx[s], guards[s], last[s], due[s], shown[s],
              dropped[s])
    BY <1>1, <1>6, Stays, ZenonT(60) DEF Moves
  <2>2. UNCHANGED <<writing, senders, count, total>>
    BY <1>1, <1>6, ZenonT(60) DEF limiter
  <2> QED BY <1>4, <1>5, <2>1, <2>2, SessionIs, PassesOn, ZenonT(60) DEF Subs
<1>7. CASE /\ pc' = [pc EXCEPT ![s] = "send"]
           /\ UNCHANGED <<senders, limiter, request, rx, guards>>
  <2>1. Moves(s, "send", request[s], rx[s], guards[s], last[s], due[s], shown[s],
              dropped[s])
    BY <1>1, <1>7, Stays, ZenonT(60) DEF Moves
  <2>2. UNCHANGED <<writing, senders, count, total>>
    BY <1>1, <1>7, ZenonT(60) DEF limiter
  <2> QED BY <1>4, <1>5, <2>1, <2>2, SessionIs, PassesOn, ZenonT(60) DEF Subs
<1>8. CASE /\ k \notin Subs(s) /\ pc' = [pc EXCEPT ![s] = "serve"]
           /\ request' = [request EXCEPT ![s] = Nothing]
           /\ count' = [count EXCEPT ![KeyOf[s]] = @ + 1] /\ total' = total + 1
           /\ guards' = [guards EXCEPT ![s] = @ + 1]
           /\ rx' = [rx EXCEPT ![s] = [c \in Subs(s) \cup {k} |->
                                         IF c = k THEN <<>> ELSE @[c]]]
           /\ senders' = senders \cup ({k} \cap Members)
  <2> DEFINE v == [c \in Subs(s) \cup {k} |-> IF c = k THEN <<>> ELSE rx[s][c]]
             g == guards[s] + 1
  <2>1. /\ rx[s] \in Table /\ guards[s] \in Int /\ due[s] \in News /\ shown[s] \in News
        /\ last[s] \in Messages \cup {Nothing} /\ dropped[s] \in BOOLEAN
        /\ senders = Wanted(s, Subs(s))
    BY SessionIs, ZenonT(60)
  <2>2. rx' = [rx EXCEPT ![s] = v] /\ guards' = [guards EXCEPT ![s] = g]
    <3>1. rx \in [Sessions -> Table] /\ guards \in [Sessions -> Int]
      BY ZenonT(60) DEF Inductive, Types
    <3> QED BY <1>8, <3>1, ZenonT(60)
  <2>3. /\ v \in Table /\ DOMAIN v = Subs(s) \cup {k}
        /\ SessionOK("serve", Nothing, v, g, last[s], due[s], shown[s], dropped[s],
                     writing)
    <3>1. rx[s] \in [Subs(s) -> Fifo] /\ Subs(s) \in SUBSET Channels
      BY <2>1, TableIs, ZenonT(60) DEF Subs
    <3>2. /\ v \in [Subs(s) \cup {k} -> Fifo] /\ v[k] = <<>>
          /\ \A c \in Subs(s) : v[c] = rx[s][c]
      BY <1>8, <3>1, EmptyIs, ZenonT(60)
    <3>3. v \in Table /\ DOMAIN v = Subs(s) \cup {k}
      BY <1>3, <3>1, <3>2, IsTable, SMTT(60)
    <3>4. SessionOK("serve", Nothing, rx[s], guards[s], last[s], due[s], shown[s],
                    dropped[s], Idle)
      BY <1>1, <1>4, ZenonT(60)
    <3>5. /\ k \in DOMAIN v /\ k \notin DOMAIN rx[s] /\ v[k] = <<>>
          /\ DOMAIN v = DOMAIN rx[s] \cup {k} /\ \A c \in DOMAIN rx[s] : v[c] = rx[s][c]
          /\ g = guards[s] + 1
      BY <1>8, <3>2, <3>3, ZenonT(60) DEF Subs
    <3> HIDE DEF v, k, g
    <3>6. SessionOK("serve", Nothing, v, g, last[s], due[s], shown[s], dropped[s], Idle)
      BY <2>1, <3>4, <3>5, SubscribeOK, ZenonT(60)
    <3> QED BY <1>1, <3>3, <3>6, ZenonT(60)
  <2> HIDE DEF v
  <2>4. Charged(s, g)
    <3>1. g - guards[s] = 1
      BY <2>1, SMTT(60)
    <3> HIDE DEF g
    <3> QED BY <1>8, <3>1, ZenonT(60) DEF Charged
  <2>5. g \in Int
    BY <2>1, SMTT(60)
  <2> HIDE DEF g, k
  <2>6. Moves(s, "serve", Nothing, v, g, last[s], due[s], shown[s], dropped[s])
    BY <1>1, <1>8, <2>2, Stays, ZenonT(60) DEF Moves
  <2>7. senders' = Wanted(s, DOMAIN v)
    BY <1>8, <2>1, <2>3, ZenonT(60) DEF Wanted
  <2> QED BY <1>1, <1>5, <2>1, <2>3, <2>4, <2>5, <2>6, <2>7, StepOf, ZenonT(60)
<1> QED BY <1>6, <1>7, <1>8, ZenonT(60) DEF HandleSub, Go

\* handle_sub, unsubscribing.
LEMMA UnsubPreserves ==
  ASSUME Inductive, NEW s \in Sessions, HandleUnsub(s)
  PROVE  Inductive'
<1> DEFINE k == request[s][2]
           v == Without(rx[s], k)
           g == IF k \in Subs(s) THEN guards[s] - 1 ELSE guards[s]
           x == GivesUp(dropped[s], rx[s], k)
<1>1. /\ UNCHANGED <<writing, last, due, shown>>
      /\ pc[s] = "lock" /\ writing = Idle
      /\ pc' = [pc EXCEPT ![s] = "serve"] /\ request' = [request EXCEPT ![s] = Nothing]
      /\ senders' = IF Receivers(k) \ {s} = {} THEN senders \ {k} ELSE senders
  BY ZenonT(60) DEF HandleUnsub, Go, Unsubscribes
<1>2. /\ rx[s] \in Table /\ guards[s] \in Int /\ due[s] \in News /\ shown[s] \in News
      /\ last[s] \in Messages \cup {Nothing} /\ dropped[s] \in BOOLEAN
      /\ senders = Wanted(s, Subs(s))
  BY SessionIs, ZenonT(60)
<1>3. SessionOK("serve", Nothing, rx[s], guards[s], last[s], due[s], shown[s],
                dropped[s], writing)
  <2>1. SessionOK("lock", request[s], rx[s], guards[s], last[s], due[s], shown[s],
                  dropped[s], writing)
    BY <1>1, SessionAt, ZenonT(60)
  <2> QED BY <2>1, RequestOK, ZenonT(60)
<1>4. /\ rx' = [rx EXCEPT ![s] = v] /\ dropped' = [dropped EXCEPT ![s] = x]
  <2>1. rx \in [Sessions -> Table] /\ dropped \in [Sessions -> BOOLEAN]
    BY ZenonT(60) DEF Inductive, Types
  <2>2. /\ rx' = [rx EXCEPT ![s] = Without(@, k)]
        /\ dropped' = [dropped EXCEPT ![s] = @ \/ (k \in Subs(s) /\ rx[s][k] # <<>>)]
    BY ZenonT(60) DEF HandleUnsub
  <2>3. rx' = [rx EXCEPT ![s] = v]
    BY <2>1, <2>2, ZenonT(60)
  <2>4. dropped' = [dropped EXCEPT ![s] = x]
    BY <2>1, <2>2, ZenonT(60) DEF GivesUp, Subs
  <2> QED BY <2>3, <2>4, ZenonT(60)
<1>5. guards' = [guards EXCEPT ![s] = g] /\ g \in Int /\ Charged(s, g)
  <2>1. /\ guards \in [Sessions -> Int] /\ count \in [Keys -> Int] /\ total \in Int
        /\ KeyOf[s] \in Keys
    <3>1. guards \in [Sessions -> Int] /\ count \in [Keys -> Int] /\ total \in Int
      BY ZenonT(60) DEF Inductive, Types
    <3> QED BY <3>1, SubscriptionsAssumption, ZenonT(60)
  <2>2. CASE k \in Subs(s)
    <3>1. /\ guards' = [guards EXCEPT ![s] = @ - 1]
          /\ count' = [count EXCEPT ![KeyOf[s]] = @ - 1] /\ total' = total - 1
      BY <2>2, ZenonT(60) DEF HandleUnsub, Release
    <3>2. g = guards[s] - 1 /\ g - guards[s] = -1
      BY <2>1, <2>2, SMTT(60)
    <3> HIDE DEF g, k
    <3>3. guards' = [guards EXCEPT ![s] = g] /\ g \in Int
      BY <2>1, <3>1, <3>2, SMTT(60)
    <3>4. /\ count' = [count EXCEPT ![KeyOf[s]] = @ + (g - guards[s])]
          /\ total' = total + (g - guards[s])
      BY <2>1, <3>1, <3>2, ZenonT(60)
    <3> QED BY <3>3, <3>4, ZenonT(60) DEF Charged
  <2>3. CASE k \notin Subs(s)
    <3>1. UNCHANGED <<guards, count, total>>
      BY <2>3, ZenonT(60) DEF HandleUnsub, limiter
    <3>2. g = guards[s] /\ g - guards[s] = 0
      BY <2>1, <2>3, SMTT(60)
    <3> HIDE DEF g, k
    <3>3. guards' = [guards EXCEPT ![s] = g] /\ g \in Int
      BY <2>1, <3>1, <3>2, ZenonT(60)
    <3>4. /\ count' = [count EXCEPT ![KeyOf[s]] = @ + (g - guards[s])]
          /\ total' = total + (g - guards[s])
      BY <2>1, <3>1, <3>2, SMTT(60)
    <3> QED BY <3>3, <3>4, ZenonT(60) DEF Charged
  <2> QED BY <2>2, <2>3, ZenonT(60)
<1>6. /\ v \in Table /\ DOMAIN v = Subs(s) \ {k}
      /\ SessionOK("serve", Nothing, v, g, last[s], due[s], shown[s], x, writing)
  <2>0. v = [c \in DOMAIN rx[s] \ {k} |-> rx[s][c]]
    BY ZenonT(60) DEF Without, Restrict
  <2>4. rx[s] \in [DOMAIN rx[s] -> Fifo] /\ DOMAIN rx[s] \in SUBSET Channels
    BY <1>2, TableIs, ZenonT(60)
  <2>5. v \in [DOMAIN rx[s] \ {k} -> Fifo] /\ \A c \in DOMAIN rx[s] \ {k} : v[c] = rx[s][c]
    BY <2>0, <2>4, ZenonT(60)
  <2>6. v \in Table /\ DOMAIN v = DOMAIN rx[s] \ {k}
    BY <2>4, <2>5, IsTable, ZenonT(60)
  <2>1. /\ g = IF k \in DOMAIN rx[s] THEN guards[s] - 1 ELSE guards[s]
    BY ZenonT(60) DEF Subs
  <2>2. SessionOK("serve", Nothing, rx[s], guards[s], last[s], due[s], shown[s],
                  dropped[s], Idle)
    BY <1>1, <1>3, ZenonT(60)
  <2> HIDE DEF k, v, g, x
  <2>3. SessionOK("serve", Nothing, v, g, last[s], due[s], shown[s],
                  GivesUp(dropped[s], rx[s], k), Idle)
    BY <1>2, <2>1, <2>2, <2>5, <2>6, UnsubscribeOK, ZenonT(60)
  <2> QED BY <1>1, <2>3, <2>6, ZenonT(60) DEF Subs, x
<1>7. x \in BOOLEAN
  BY <1>2, ZenonT(60) DEF GivesUp
<1> HIDE DEF v, g, x, k
<1>8. senders' = Wanted(s, DOMAIN v)
  BY <1>1, <1>2, <1>6, ZenonT(60) DEF Wanted, Receivers
<1>9. Moves(s, "serve", Nothing, v, g, last[s], due[s], shown[s], x)
  BY <1>1, <1>4, <1>5, Stays, ZenonT(60) DEF Moves
<1>10. "serve" \in Steps /\ Nothing \in Requests
  BY ZenonT(60) DEF Steps, Serving, Requests
<1>11. writing' = writing /\ Charged(s, g) /\ g \in Int /\ v \in Table
  BY <1>1, <1>5, <1>6, ZenonT(60)
<1> QED BY <1>2, <1>6, <1>7, <1>8, <1>9, <1>10, <1>11, StepOf, ZenonT(60)

-----------------------------------------------------------------------------
(* The end of a session.                                                   *)

\* The slots are given back, and the receivers of members are kept.
LEMMA UnsubOK ==
  ASSUME NEW q, NEW r, NEW g, NEW l, NEW d, NEW h, NEW x, NEW w,
         SessionOK("clean", q, r, g, l, d, h, x, w)
  PROVE  SessionOK("unsub", q, r, 0, l, d, h, x, w)
<1>1. Control("unsub", q, r, 0, l, d, h)
  BY ZenonT(60) DEF Control, OnTheWire, Serving
<1>2. UpToDate("unsub", q, r, l, d, h, w)
  BY ZenonT(60) DEF UpToDate, Serving
<1> QED BY <1>1, <1>2, ZenonT(60) DEF SessionOK

\* Forget: the session's task is gone, and the next one starts from nothing.
LEMMA ForgetPreserves ==
  ASSUME Inductive, NEW s \in Sessions, Forget(s),
         guards' = [guards EXCEPT ![s] = 0], Charged(s, 0), writing' = writing,
         senders' = Wanted(s, {})
  PROVE  Inductive'
<1>1. Moves(s, "idle", Nothing, NoReceivers, 0, Nothing, NoNews, NoNews, FALSE)
  BY ZenonT(60) DEF Forget, Go, Moves
<1>2. SessionOK("idle", Nothing, NoReceivers, 0, Nothing, NoNews, NoNews, FALSE, writing)
  BY FreshSession, ZenonT(60)
<1>3. /\ "idle" \in Steps /\ Nothing \in Requests /\ NoReceivers \in Table
      /\ DOMAIN NoReceivers = {} /\ Nothing \in Messages \cup {Nothing} /\ 0 \in Int
  BY NoReceiversIs, SMTT(60) DEF Steps, Requests
<1>4. NoNews \in News
  BY ZenonT(60) DEF NoNews, News
<1>5. senders' = Wanted(s, DOMAIN NoReceivers)
  BY <1>3, ZenonT(60)
<1>6. FALSE \in BOOLEAN
  BY ZenonT(60)
<1> QED BY <1>1, <1>2, <1>3, <1>4, <1>5, <1>6, StepOf, ZenonT(60)

\* cleanup, up to the locks.
LEMMA CleanupPreserves ==
  ASSUME Inductive, NEW s \in Sessions, Cleanup(s)
  PROVE  Inductive'
<1>1. /\ pc[s] = "clean" /\ UNCHANGED <<writing, senders>>
      /\ guards' = [guards EXCEPT ![s] = 0]
      /\ count' = [count EXCEPT ![KeyOf[s]] = @ - guards[s]] /\ total' = total - guards[s]
  BY ZenonT(60) DEF Cleanup, Release
<1>2. /\ rx[s] \in Table /\ guards[s] \in Int /\ due[s] \in News /\ shown[s] \in News
      /\ last[s] \in Messages \cup {Nothing} /\ dropped[s] \in BOOLEAN
      /\ request[s] \in Requests /\ senders = Wanted(s, Subs(s))
  BY SessionIs, ZenonT(60)
<1>3. Charged(s, 0)
  <2>1. count \in [Keys -> Int] /\ total \in Int /\ KeyOf[s] \in Keys
    <3>1. count \in [Keys -> Int] /\ total \in Int
      BY ZenonT(60) DEF Inductive, Types
    <3> QED BY <3>1, SubscriptionsAssumption, ZenonT(60)
  <2> DEFINE g == guards[s]
  <2>2. g \in Int /\ count' = [count EXCEPT ![KeyOf[s]] = @ - g] /\ total' = total - g
    BY <1>1, <1>2, ZenonT(60)
  <2> HIDE DEF g
  <2>3. count' = [count EXCEPT ![KeyOf[s]] = @ + (0 - g)] /\ total' = total + (0 - g)
    <3>1. count[KeyOf[s]] - g = count[KeyOf[s]] + (0 - g) /\ total - g = total + (0 - g)
      BY <2>1, <2>2, SMTT(60)
    <3> QED BY <2>2, <3>1, ZenonT(60)
  <2> QED BY <2>3, ZenonT(60) DEF Charged, g
<1>4. CASE Subs(s) \subseteq Fixed
  <2>1. senders' = Wanted(s, {})
    BY <1>1, <1>2, <1>4, SubscriptionsAssumption, ZenonT(60) DEF Wanted
  <2>2. Forget(s)
    BY <1>4, ZenonT(60) DEF Cleanup
  <2> QED BY <1>1, <1>3, <2>1, <2>2, ForgetPreserves, ZenonT(60)
<1>5. CASE ~(Subs(s) \subseteq Fixed)
  <2>1. /\ UNCHANGED <<request, last, rx, due, shown, dropped>>
        /\ pc' = [pc EXCEPT ![s] = "unsub"]
    BY <1>5, ZenonT(60) DEF Cleanup, Go
  <2>2. Moves(s, "unsub", request[s], rx[s], 0, last[s], due[s], shown[s], dropped[s])
    BY <1>1, <2>1, Stays, ZenonT(60) DEF Moves
  <2>3. SessionOK("clean", request[s], rx[s], guards[s], last[s], due[s], shown[s],
                  dropped[s], writing)
    BY <1>1, SessionAt, ZenonT(60)
  <2>4. SessionOK("unsub", request[s], rx[s], 0, last[s], due[s], shown[s],
                  dropped[s], writing)
    BY <2>3, UnsubOK, ZenonT(60)
  <2>5. /\ senders' = Wanted(s, DOMAIN rx[s]) /\ writing' = writing
        /\ "unsub" \in Steps /\ 0 \in Int
    BY <1>1, <1>2, SMTT(60) DEF Subs, Steps
  <2> QED BY <1>2, <1>3, <2>2, <2>4, <2>5, StepOf, ZenonT(60)
<1> QED BY <1>4, <1>5, ZenonT(60)

\* cleanup, under the locks.
LEMMA CleanupMembersPreserves ==
  ASSUME Inductive, NEW s \in Sessions, CleanupMembers(s)
  PROVE  Inductive'
<1>1. /\ pc[s] = "unsub" /\ UNCHANGED <<writing, count, total, guards>>
      /\ senders' = senders \ Unsubscribed(s) /\ Forget(s)
  BY ZenonT(60) DEF CleanupMembers, limiter
<1>2. senders = Wanted(s, Subs(s))
  BY SessionIs, ZenonT(60)
<1>3. guards[s] = 0
  <2>1. SessionOK("unsub", request[s], rx[s], guards[s], last[s], due[s], shown[s],
                  dropped[s], writing)
    BY <1>1, SessionAt, ZenonT(60)
  <2> QED BY <2>1, ZenonT(60) DEF SessionOK, Control
<1>4. guards' = [guards EXCEPT ![s] = 0] /\ Charged(s, 0)
  <2>1. /\ guards \in [Sessions -> Int] /\ count \in [Keys -> Int] /\ total \in Int
        /\ KeyOf[s] \in Keys
    <3>1. guards \in [Sessions -> Int] /\ count \in [Keys -> Int] /\ total \in Int
      BY ZenonT(60) DEF Inductive, Types
    <3> QED BY <3>1, SubscriptionsAssumption, ZenonT(60)
  <2> QED BY <1>1, <1>3, <2>1, SMTT(60) DEF Charged
<1>5. senders' = Wanted(s, {})
  BY <1>1, <1>2, ZenonT(60) DEF Wanted, Unsubscribed, Receivers
<1> QED BY <1>1, <1>4, <1>5, ForgetPreserves, ZenonT(60)

-----------------------------------------------------------------------------
(* A step of the worker.                                                   *)

\* The worker leaves the sessions' steps, their slots and the senders alone.
LEMMA WorkerStep ==
  ASSUME Inductive,
         writing' = Idle \/ \E m \in Messages : \E c \in SUBSET Carrying(m[1]) :
                              writing' = <<m, c>>,
         UNCHANGED <<pc, request, guards, last, shown, dropped, count, total, senders>>,
         rx' \in [Sessions -> Table], due' \in [Sessions -> News],
         \A s \in Sessions : DOMAIN rx'[s] = Subs(s),
         \A s \in Sessions :
           SessionOK(pc[s], request[s], rx'[s], guards[s], last[s], due'[s], shown[s],
                     dropped[s], writing')
  PROVE  Inductive'
<1>1. Types'
  BY ZenonT(60) DEF Inductive, Types
<1>2. SendersHaveReceivers'
  <2>1. \A k \in Members : Receivers(k)' = Receivers(k)
    BY ZenonT(60) DEF Receivers, Subs
  <2> QED BY <2>1, ZenonT(60) DEF Inductive, SendersHaveReceivers
<1>3. ASSUME NEW s \in Sessions PROVE Session(s)'
  BY ZenonT(60) DEF Session
<1>4. Counted'
  BY ZenonT(60) DEF Inductive, Counted
<1> QED BY <1>1, <1>2, <1>3, <1>4, ZenonT(60) DEF Inductive

\* The worker takes the write lock for an event.
LEMMA WritePreserves ==
  ASSUME Inductive, Write
  PROVE  Inductive'
<1>1. /\ writing = Idle
      /\ UNCHANGED <<pc, request, guards, last, shown, dropped, count, total, senders,
                     rx, due>>
  BY ZenonT(60) DEF Write, session, limiter, history
<1>7. PICK t \in Txs, c \in TxChanges :
         writing' = <<<<t, c[2]>>, Fixed \cup Touches[t]>>
  BY ZenonT(60) DEF Write
<1>8. c[2] \in {"added", "removed", "confirmed"}
  BY SMTT(60) DEF TxChanges
<1>2. PICK what \in {"added", "removed", "confirmed"} :
         writing' = <<<<t, what>>, Fixed \cup Touches[t]>>
  BY <1>7, <1>8, ZenonT(60)
<1> DEFINE m == <<t, what>>
<1>3. m \in Messages /\ m[1] = t /\ Carrying(t) = Fixed \cup Touches[t]
  BY ZenonT(60) DEF Messages, Carrying
<1>4. writing' = <<m, Carrying(m[1])>> /\ Carrying(m[1]) \in SUBSET Carrying(m[1])
  BY <1>2, <1>3, ZenonT(60)
<1> HIDE DEF m
<1>5. ASSUME NEW s \in Sessions
      PROVE  SessionOK(pc[s], request[s], rx[s], guards[s], last[s], due[s], shown[s],
                       dropped[s], writing')
  <2>1. SessionOK(pc[s], request[s], rx[s], guards[s], last[s], due[s], shown[s],
                  dropped[s], Idle)
    BY <1>1, SessionAt, ZenonT(60)
  <2>2. rx[s] \in Table
    BY SessionIs, ZenonT(60)
  <2> QED BY <1>4, <2>1, <2>2, WriteOK, ZenonT(60)
<1>6. rx' \in [Sessions -> Table] /\ due' \in [Sessions -> News]
  BY <1>1, ZenonT(60) DEF Inductive, Types
<1> QED BY <1>1, <1>3, <1>4, <1>5, <1>6, WorkerStep, ZenonT(60) DEF Subs

\* The write lock is released.
LEMMA UnlockPreserves ==
  ASSUME Inductive, Unlock
  PROVE  Inductive'
<1>1. /\ writing # Idle /\ writing[2] = {} /\ writing' = Idle
      /\ UNCHANGED <<pc, request, guards, last, shown, dropped, count, total, senders,
                     rx, due>>
  BY ZenonT(60) DEF Unlock, session, limiter, history
<1>2. PICK m \in Messages : writing = <<m, {}>>
  <2>1. PICK m \in Messages : \E c \in SUBSET Carrying(m[1]) : writing = <<m, c>>
    BY <1>1, ZenonT(60) DEF Inductive, Types
  <2> QED BY <1>1, <2>1, SMTT(60)
<1>3. ASSUME NEW s \in Sessions
      PROVE  SessionOK(pc[s], request[s], rx[s], guards[s], last[s], due[s], shown[s],
                       dropped[s], Idle)
  <2>1. SessionOK(pc[s], request[s], rx[s], guards[s], last[s], due[s], shown[s],
                  dropped[s], <<m, {}>>)
    BY <1>2, SessionAt, ZenonT(60)
  <2>2. rx[s] \in Table
    BY SessionIs, ZenonT(60)
  <2> QED BY <2>1, <2>2, UnlockOK, ZenonT(60)
<1>4. rx' \in [Sessions -> Table] /\ due' \in [Sessions -> News]
  BY <1>1, ZenonT(60) DEF Inductive, Types
<1> QED BY <1>1, <1>3, <1>4, WorkerStep, ZenonT(60) DEF Subs

\* One send: a session with a receiver of the channel has one more to read.
LEMMA SendPreserves ==
  ASSUME Inductive, Send
  PROVE  Inductive'
<1>1. /\ writing # Idle
      /\ UNCHANGED <<pc, request, guards, last, shown, dropped, count, total>>
  BY ZenonT(60) DEF Send, limiter
<1>9. PICK m \in Messages : \E c \in SUBSET Carrying(m[1]) : writing = <<m, c>>
  BY <1>1, ZenonT(60) DEF Inductive, Types
<1>2. PICK c \in SUBSET Carrying(m[1]) : writing = <<m, c>>
  BY <1>9, ZenonT(60)
<1>3. writing[1] = m /\ writing[2] = c
  BY <1>2, ZenonT(60)
<1>4. PICK k \in c :
         /\ writing' = [writing EXCEPT ![2] = @ \ {k}]
         /\ rx' = [s \in Sessions |->
                     IF k \in Subs(s)
                     THEN [rx[s] EXCEPT ![k] = Push(@, writing[1])] ELSE rx[s]]
         /\ due' = [s \in Sessions |->
                      IF k \in Subs(s)
                      THEN [due[s] EXCEPT ![writing[1][1]] = writing[1]] ELSE due[s]]
         /\ senders' = SendersAfterSend(k)
  BY <1>3, ZenonT(60) DEF Send
<1>5. writing' = <<m, c \ {k}>> /\ c \ {k} \in SUBSET Carrying(m[1])
  BY <1>2, <1>4, SMTT(60)
<1>6. senders' = senders
  BY <1>4, ZenonT(60) DEF SendersAfterSend, Inductive, SendersHaveReceivers
<1>7. ASSUME NEW s \in Sessions
      PROVE  /\ rx'[s] \in Table /\ due'[s] \in News /\ DOMAIN rx'[s] = Subs(s)
             /\ SessionOK(pc[s], request[s], rx'[s], guards[s], last[s], due'[s], shown[s],
                          dropped[s], <<m, c \ {k}>>)
  <2>1. SessionOK(pc[s], request[s], rx[s], guards[s], last[s], due[s], shown[s],
                  dropped[s], <<m, c>>)
    BY <1>2, SessionAt, ZenonT(60)
  <2>2. rx[s] \in Table /\ due[s] \in News
    BY SessionIs, ZenonT(60)
  <2>3. CASE k \in Subs(s)
    <3> DEFINE v == rx'[s]
               e == due'[s]
               w == <<m, c>>
               u == <<m, c \ {k}>>
    <3>1. v = [rx[s] EXCEPT ![k] = Push(@, m)] /\ e = [due[s] EXCEPT ![m[1]] = m]
      BY <1>3, <1>4, <2>3, ZenonT(60)
    <3>2. /\ k \in DOMAIN rx[s] /\ k \in Carrying(m[1]) /\ m[1] \in Txs
          /\ rx[s] \in [DOMAIN rx[s] -> Fifo] /\ DOMAIN rx[s] \in SUBSET Channels
          /\ Push(rx[s][k], m) \in Fifo
      BY <2>2, <2>3, TableIs, PushIs, Pairs, ZenonT(60) DEF Subs
    <3> HIDE DEF v, e
    <3>3. /\ v \in [DOMAIN rx[s] -> Fifo]
          /\ v[k] = Push(rx[s][k], m) /\ \A b \in DOMAIN rx[s] : b # k => v[b] = rx[s][b]
      BY <3>1, <3>2, ZenonT(60)
    <3>4. v \in Table /\ DOMAIN v = DOMAIN rx[s]
      BY <3>2, <3>3, IsTable, ZenonT(60)
    <3>5. e \in News /\ e[m[1]] = m /\ \A t \in Txs : t # m[1] => e[t] = due[s][t]
      BY <2>2, <3>1, <3>2, ZenonT(60) DEF News
    <3>6. Delivers(m, c, k, rx[s], v, due[s], e, w, u)
      BY <2>2, <3>2, <3>3, <3>4, <3>5, ZenonT(60) DEF Delivers
    <3>7. SessionOK(pc[s], request[s], v, guards[s], last[s], e, shown[s], dropped[s], u)
      BY <2>1, <3>6, SendOK, ZenonT(60)
    <3> QED BY <3>4, <3>5, <3>7, ZenonT(60) DEF v, e, Subs
  <2>4. CASE k \notin Subs(s)
    <3>1. rx'[s] = rx[s] /\ due'[s] = due[s]
      BY <1>4, <2>4, ZenonT(60)
    <3>2. SessionOK(pc[s], request[s], rx[s], guards[s], last[s], due[s], shown[s],
                    dropped[s], <<m, c \ {k}>>)
      BY <2>1, <2>2, <2>4, SendOther, ZenonT(60) DEF Subs
    <3> QED BY <2>2, <3>1, <3>2, ZenonT(60) DEF Subs
  <2> QED BY <2>3, <2>4, ZenonT(60)
<1>8. rx' \in [Sessions -> Table] /\ due' \in [Sessions -> News]
  <2>1. rx' = [s \in Sessions |-> rx'[s]] /\ due' = [s \in Sessions |-> due'[s]]
    BY <1>4, ZenonT(60)
  <2> QED BY <1>7, <2>1, ZenonT(60)
<1> QED BY <1>1, <1>5, <1>6, <1>7, <1>8, WorkerStep, ZenonT(60)

\* The gate, and a step that changes nothing.
LEMMA ClosePreserves ==
  ASSUME Inductive, UNCHANGED <<pc, request, guards, last, shown, dropped, count, total,
                                senders, rx, due, writing>>
  PROVE  Inductive'
<1>1. ASSUME NEW s \in Sessions
      PROVE  SessionOK(pc[s], request[s], rx[s], guards[s], last[s], due[s], shown[s],
                       dropped[s], writing)
  BY SessionAt, ZenonT(60)
<1>2. rx' \in [Sessions -> Table] /\ due' \in [Sessions -> News]
  BY ZenonT(60) DEF Inductive, Types
<1>3. writing = Idle \/ \E m \in Messages : \E c \in SUBSET Carrying(m[1]) :
                          writing = <<m, c>>
  BY ZenonT(60) DEF Inductive, Types
<1> QED BY <1>1, <1>2, <1>3, WorkerStep, ZenonT(60) DEF Subs

-----------------------------------------------------------------------------
(* The theorems.                                                           *)

\* At the start no session has anything, and the limiter counts nothing.
LEMMA InitInductive == Init => Inductive
<1> SUFFICES ASSUME Init PROVE Inductive
  BY ZenonT(60)
<1>1. /\ writing = Idle /\ senders = {} /\ count = [a \in Keys |-> 0] /\ total = 0
      /\ pc = [s \in Sessions |-> "idle"] /\ request = [s \in Sessions |-> Nothing]
      /\ rx = [s \in Sessions |-> NoReceivers] /\ guards = [s \in Sessions |-> 0]
      /\ last = [s \in Sessions |-> Nothing]
      /\ due = [s \in Sessions |-> NoNews] /\ shown = [s \in Sessions |-> NoNews]
      /\ dropped = [s \in Sessions |-> FALSE]
  BY ZenonT(60) DEF Init
<1>2. Types
  <2>1. "idle" \in Steps /\ Nothing \in Requests /\ NoReceivers \in Table
    BY NoReceiversIs, ZenonT(60) DEF Steps, Requests
  <2>2. NoNews \in News
    BY ZenonT(60) DEF NoNews, News
  <2>3. /\ pc \in [Sessions -> Steps] /\ request \in [Sessions -> Requests]
        /\ rx \in [Sessions -> Table] /\ guards \in [Sessions -> Int]
        /\ last \in [Sessions -> Messages \cup {Nothing}]
        /\ due \in [Sessions -> News] /\ shown \in [Sessions -> News]
        /\ count \in [Keys -> Int] /\ total \in Int
    BY <1>1, <2>1, <2>2, SMTT(60)
  <2>4. dropped \in [Sessions -> BOOLEAN]
    BY <1>1, ZenonT(60)
  <2> QED BY <1>1, <2>3, <2>4, ZenonT(60) DEF Types
<1>3. \A s \in Sessions : /\ rx[s] = NoReceivers /\ guards[s] = 0
                          /\ pc[s] = "idle" /\ request[s] = Nothing /\ last[s] = Nothing
                          /\ due[s] = NoNews /\ shown[s] = NoNews /\ dropped[s] = FALSE
  BY <1>1, ZenonT(60)
<1>4. SendersHaveReceivers
  BY <1>1, <1>3, NoReceiversIs, ZenonT(60) DEF SendersHaveReceivers, Receivers, Subs
<1>5. ASSUME NEW s \in Sessions PROVE Session(s)
  <2>1. SessionOK("idle", Nothing, NoReceivers, 0, Nothing, NoNews, NoNews, FALSE, writing)
    BY FreshSession, ZenonT(60)
  <2> QED BY <1>3, <2>1, ZenonT(60) DEF Session
<1>6. Counted
  <2>1. ASSUME NEW a \in Keys
        PROVE  count[a] = SumFunctionOnSet(guards, {s \in Sessions : KeyOf[s] = a})
    <3> DEFINE A == {s \in Sessions : KeyOf[s] = a}
               f == guards
    <3>1. IsFiniteSet(A) /\ \A s \in A : f[s] = 0
      BY <1>3, SubscriptionsAssumption, FS_Subset, ZenonT(60)
    <3> HIDE DEF A, f
    <3>2. SumFunctionOnSet(f, A) = 0
      BY <3>1, SumZero, ZenonT(60)
    <3> QED BY <1>1, <3>2, ZenonT(60) DEF A, f
  <2>2. total = SumFunctionOnSet(count, Keys)
    <3> DEFINE f == count
    <3>1. \A a \in Keys : f[a] = 0
      BY <1>1, ZenonT(60)
    <3> HIDE DEF f
    <3>2. SumFunctionOnSet(f, Keys) = 0
      BY <3>1, SubscriptionsAssumption, SumZero, ZenonT(60)
    <3> QED BY <1>1, <3>2, ZenonT(60) DEF f
  <2> QED BY <2>1, <2>2, ZenonT(60) DEF Counted
<1> QED BY <1>2, <1>4, <1>5, <1>6, ZenonT(60) DEF Inductive

\* Every step keeps the invariant.
LEMMA StepPreserves ==
  ASSUME Inductive, [Next]_vars
  PROVE  Inductive'
<1>1. CASE Write
  BY <1>1, WritePreserves, ZenonT(60)
<1>2. CASE Send
  BY <1>2, SendPreserves, ZenonT(60)
<1>3. CASE Unlock
  BY <1>3, UnlockPreserves, ZenonT(60)
<1>4. CASE Disconnect \/ Publish \/ Close \/ UNCHANGED vars
  BY <1>4, ClosePreserves, ZenonT(60)
     DEF Disconnect, Publish, Close, vars, session, limiter, history
<1>5. ASSUME NEW s \in Sessions, SessionStep(s) PROVE Inductive'
  <2>1. CASE Connect(s) \/ Admit(s) \/ Refuse(s) \/ Leave(s) \/ Lifecycle(s)
    BY <2>1, WalkPreserves, ZenonT(60)
  <2>2. CASE Receive(s)
    BY <2>2, ReceivePreserves, ZenonT(60)
  <2>3. CASE Sent(s)
    BY <2>3, SentPreserves, ZenonT(60)
  <2>4. CASE Request(s)
    BY <2>4, RequestPreserves, ZenonT(60)
  <2>5. CASE HandleSub(s)
    BY <2>5, SubPreserves, ZenonT(60)
  <2>6. CASE HandleUnsub(s)
    BY <2>6, UnsubPreserves, ZenonT(60)
  <2>7. CASE Cleanup(s)
    BY <2>7, CleanupPreserves, ZenonT(60)
  <2>8. CASE CleanupMembers(s)
    BY <2>8, CleanupMembersPreserves, ZenonT(60)
  <2> QED BY <1>5, <2>1, <2>2, <2>3, <2>4, <2>5, <2>6, <2>7, <2>8, ZenonT(60) DEF SessionStep
<1> QED BY <1>1, <1>2, <1>3, <1>4, <1>5, ZenonT(60) DEF Next

\* The inductive invariant holds of every behaviour of the sessions and the
\* worker (ws.rs, subs.rs, subs_group.rs, subscription_limits.rs).
THEOREM SessionsInductive == Spec => []Inductive
<1>1. Inductive /\ [Next]_vars => Inductive'
  BY StepPreserves, ZenonT(60)
<1> QED BY <1>1, InitInductive, PTL DEF Spec

\* For any number of sessions, addresses, transactions and channels: a group
\* member has a sender exactly as long as some session has a receiver of it
\* (subs_group.rs unsubscribe_from_member, handle_tx_event; ws.rs cleanup).
THEOREM SendersCorrect == Spec => []SendersHaveReceivers
<1>1. Inductive => SendersHaveReceivers
  BY ZenonT(60) DEF Inductive
<1> QED BY <1>1, SessionsInductive, PTL

\* For any caps: the limiter's counts are those of the slots held, and a session
\* holds one per subscription until it gives up all of them
\* (subscription_limits.rs try_acquire, release; ws.rs acquire_sub, cleanup).
THEOREM SlotsCorrect == Spec => []SlotsAreSubscriptions
<1>1. Inductive => SlotsAreSubscriptions
  <2> SUFFICES ASSUME Inductive PROVE SlotsAreSubscriptions
    BY ZenonT(60)
  <2>1. Counted
    BY ZenonT(60) DEF Inductive
  <2>2. ASSUME NEW s \in Sessions
        PROVE  guards[s] = IF pc[s] = "unsub" THEN 0 ELSE Cardinality(Subs(s))
    <3>1. SessionOK(pc[s], request[s], rx[s], guards[s], last[s], due[s], shown[s],
                    dropped[s], writing)
      BY SessionAt, ZenonT(60)
    <3> QED BY <3>1, ZenonT(60) DEF SessionOK, Control, Subs
  <2> QED BY <2>1, <2>2, ZenonT(60) DEF Counted, SlotsAreSubscriptions
<1> QED BY <1>1, SessionsInductive, PTL

\* For any capacity of the channels: between two events, a session that has read
\* its channels to the end, and gave up none of them unread, has shown its
\* client the newest event sent to it about every transaction
\* (ws.rs handle_subscribe_socket_with_lifecycle).
THEOREM DrainedCorrect == Spec => []DrainedSessionIsUpToDate
<1>1. Inductive => DrainedSessionIsUpToDate
  <2> SUFFICES ASSUME Inductive, writing = Idle, NEW s \in Sessions, pc[s] = "serve",
                      ~dropped[s], \A k \in Subs(s) : rx[s][k] = <<>>
               PROVE  shown[s] = due[s]
    BY ZenonT(60) DEF DrainedSessionIsUpToDate
  <2>1. SessionOK("serve", request[s], rx[s], guards[s], last[s], due[s], shown[s],
                  dropped[s], Idle)
    BY SessionAt, ZenonT(60)
  <2>2. UpToDate("serve", request[s], rx[s], last[s], due[s], shown[s], Idle)
    BY <2>1, ZenonT(60) DEF SessionOK
  <2>3. \A t \in Txs : ~Pending(rx[s], Idle, t)
    <3>1. \A t \in Txs : \A k \in Subs(s) : ~Unread(rx[s][k], t)
      BY EmptyIs, SMTT(60) DEF Unread
    <3>2. \A t \in Txs : \A k \in Subs(s) : ~Awaited(Idle, t, k)
      BY ZenonT(60) DEF Awaited
    <3> QED BY <3>1, <3>2, ZenonT(60) DEF Pending, Subs
  <2>4. \A t \in Txs : shown[s][t] = due[s][t]
    <3>1. "serve" \in Serving /\ ~OnTheWire("serve", request[s])
      BY ZenonT(60) DEF Serving, OnTheWire
    <3> QED BY <2>2, <2>3, <3>1, ZenonT(60) DEF UpToDate, Current
  <2>5. shown[s] \in News /\ due[s] \in News
    BY SessionIs, ZenonT(60)
  <2> QED BY <2>4, <2>5, SMTT(60) DEF News
<1> QED BY <1>1, SessionsInductive, PTL

-----------------------------------------------------------------------------
(* The owner of the service, for any number of threads in Stop.  Stop       *)
(* returns only after the join, the thread ends only without a worker, and  *)
(* a port is announced only while one is running.                           *)

CONSTANT Stoppers
VARIABLES loaded, shutdown, cancel, failed, joined, port, thread, pausing, worker,
          stop_mutex, stopper

Owner == INSTANCE OwnedService WITH pc <- thread

\* Where the thread is says whether it has a worker and may announce a port;
\* one caller at a time is between the lock and the join.
Owned ==
  /\ worker = "none" <=> thread \in {"import", "hook", "open", "catch", "ended"}
  /\ port # 0 => thread \in {"serve", "status", "retract"}
  /\ joined => thread = "ended"
  /\ \A s \in Stoppers : stopper[s] = "returned" => thread = "ended"
  /\ \A s, t \in stop_mutex : s = t

OwnerInductive == Owner!TypeOK /\ Owned

\* The owner at the start.
LEMMA OwnerInitInductive == Owner!Init => OwnerInductive
<1> SUFFICES ASSUME Owner!Init PROVE OwnerInductive
  BY ZenonT(60)
<1>1. {loaded, shutdown, cancel, failed, joined} \subseteq BOOLEAN
  BY ZenonT(60) DEF Owner!Init
<1>2. Owner!TypeOK
  BY <1>1, ZenonT(60) DEF Owner!Init, Owner!TypeOK
<1>3. Owned
  BY ZenonT(60) DEF Owner!Init, Owned
<1> QED BY <1>2, <1>3, ZenonT(60) DEF OwnerInductive

\* The node, the worker and the service's thread.
LEMMA ThreadPreserves ==
  ASSUME OwnerInductive,
         Owner!Load \/ Owner!StartShutdown \/ Owner!WorkerFails \/ Owner!Thread
  PROVE  OwnerInductive'
<1> USE DEF OwnerInductive, Owner!TypeOK, Owned, Owner!node, Owner!stop
<1>1. CASE Owner!Load \/ Owner!StartShutdown
  <2>1. {loaded, shutdown, cancel, failed, joined}' \subseteq BOOLEAN
    BY <1>1, ZenonT(60) DEF Owner!Load, Owner!StartShutdown
  <2>2. UNCHANGED <<Owner!stop, failed, port, thread, pausing, worker>>
    BY <1>1, ZenonT(60) DEF Owner!Load, Owner!StartShutdown
  <2> QED BY <2>1, <2>2, ZenonT(60)
<1>2. CASE Owner!WorkerFails
  BY <1>2, ZenonT(60) DEF Owner!WorkerFails
<1>3. CASE Owner!PauseCheck \/ Owner!PauseWait \/ Owner!PauseTimesOut
  BY <1>3, SMTT(60) DEF Owner!PauseCheck, Owner!PauseWait, Owner!PauseTimesOut
<1>4. CASE Owner!AwaitImport
  BY <1>4, ZenonT(60) DEF Owner!AwaitImport, Owner!At, Owner!Pause, Owner!Goto
<1>5. CASE Owner!CheckCancelled
  BY <1>5, ZenonT(60) DEF Owner!CheckCancelled, Owner!At, Owner!Goto
<1>6. CASE Owner!Open
  BY <1>6, ZenonT(60) DEF Owner!Open, Owner!At, Owner!Goto
<1>7. CASE Owner!TryStart
  BY <1>7, ZenonT(60) DEF Owner!TryStart, Owner!At, Owner!Pause, Owner!Goto
<1>8. CASE Owner!Listening
  BY <1>8, ZenonT(60) DEF Owner!Listening, Owner!At, Owner!Goto
<1>9. CASE Owner!GiveUpListening
  BY <1>9, ZenonT(60) DEF Owner!GiveUpListening, Owner!At, Owner!Goto
<1>10. CASE Owner!Serve
  BY <1>10, ZenonT(60) DEF Owner!Serve, Owner!At, Owner!Pause, Owner!Goto
<1>11. CASE Owner!ReadStatus
  BY <1>11, ZenonT(60) DEF Owner!ReadStatus, Owner!At, Owner!Goto
<1>12. CASE Owner!Retract
  BY <1>12, ZenonT(60) DEF Owner!Retract, Owner!At, Owner!Goto
<1>13. CASE Owner!StopWorker
  BY <1>13, ZenonT(60) DEF Owner!StopWorker, Owner!At, Owner!Goto
<1>14. CASE Owner!Catch
  BY <1>14, ZenonT(60) DEF Owner!Catch, Owner!At, Owner!Goto
<1> HIDE DEF OwnerInductive
<1> QED
  BY <1>1, <1>2, <1>3, <1>4, <1>5, <1>6, <1>7, <1>8, <1>9, <1>10, <1>11, <1>12,
     <1>13, <1>14, ZenonT(60)
  DEF Owner!Thread

\* A caller of Stop.
LEMMA StopPreserves ==
  ASSUME OwnerInductive, NEW s \in Stoppers, Owner!StopCalled(s) \/ Owner!StopStep(s)
  PROVE  OwnerInductive'
<1> USE DEF OwnerInductive, Owner!TypeOK, Owned, Owner!node, Owner!Step
<1>1. CASE Owner!StopCalled(s)
  BY <1>1, ZenonT(60) DEF Owner!StopCalled
<1>2. CASE Owner!StopEnters(s)
  <2>1. CASE joined
    BY <1>2, <2>1, ZenonT(60) DEF Owner!StopEnters
  <2>2. CASE ~joined
    <3>1. /\ stopper' = [stopper EXCEPT ![s] = "notify"]
          /\ stop_mutex = {} /\ stop_mutex' = {s} /\ cancel' = TRUE
          /\ UNCHANGED <<Owner!node, joined, failed, port, thread, pausing, worker>>
      BY <1>2, <2>2, ZenonT(60) DEF Owner!StopEnters
    <3> QED BY <3>1, ZenonT(60)
  <2> QED BY <2>1, <2>2, ZenonT(60)
<1>3. CASE Owner!StopNotifies(s)
  BY <1>3, ZenonT(60) DEF Owner!StopNotifies
<1>4. CASE Owner!StopJoins(s)
  BY <1>4, SMTT(60) DEF Owner!StopJoins
<1> HIDE DEF OwnerInductive
<1> QED BY <1>1, <1>2, <1>3, <1>4, ZenonT(60) DEF Owner!StopStep

\* Every step of the owner's threads keeps its invariant.
LEMMA OwnerStepPreserves == OwnerInductive /\ [Owner!Next]_(Owner!vars) => OwnerInductive'
<1> SUFFICES ASSUME OwnerInductive, [Owner!Next]_(Owner!vars) PROVE OwnerInductive'
  BY ZenonT(60)
<1>1. CASE Owner!Next
  BY <1>1, ThreadPreserves, StopPreserves, ZenonT(60) DEF Owner!Next
<1>2. CASE UNCHANGED Owner!vars
  BY <1>2, ZenonT(60) DEF Owner!vars, Owner!node, Owner!stop, OwnerInductive, Owner!TypeOK, Owned
<1> QED BY <1>1, <1>2, ZenonT(60)

\* The thread, the worker, the port and the callers of Stop agree in every
\* state, however many threads call Stop.
THEOREM OwnerInductiveHolds == Owner!Spec => []OwnerInductive
BY OwnerInitInductive, OwnerStepPreserves, PTL DEF Owner!Spec

\* The thread is joined by the one caller that holds stop_mutex.
THEOREM OwnerTypeCorrect == Owner!Spec => []Owner!TypeOK
<1>1. OwnerInductive => Owner!TypeOK BY ZenonT(60) DEF OwnerInductive
<1> QED BY <1>1, OwnerInductiveHolds, PTL

\* When any call of Stop has returned, the thread, the worker and the port are
\* gone.
THEOREM StopEndsService == Owner!Spec => []Owner!StoppedIsOver
<1>1. OwnerInductive => Owner!StoppedIsOver
  BY ZenonT(60) DEF OwnerInductive, Owned, Owner!TypeOK, Owner!StoppedIsOver
<1> QED BY <1>1, OwnerInductiveHolds, PTL

\* An announced port has a worker behind it.
THEOREM PortIsServed == Owner!Spec => []Owner!PortHasWorker
<1>1. OwnerInductive => Owner!PortHasWorker
  BY ZenonT(60) DEF OwnerInductive, Owned, Owner!TypeOK, Owner!PortHasWorker
<1> QED BY <1>1, OwnerInductiveHolds, PTL
=============================================================================
