---------------------- MODULE ValidationJournalProofs ----------------------
(***************************************************************************)
(* The journal's ring, budget and order, for every capacity, byte limit    *)
(* and set of charges.  The argument: Reserve tests budget_events and not  *)
(* the ring, so the ring is safe because the budget covers the queue, and  *)
(* the budget covers the queue because every lease is counted once, which  *)
(* needs the leases to be apart from what is being released and to be      *)
(* events already taken.                                                   *)
(***************************************************************************)
EXTENDS ValidationJournal, FiniteSetTheorems, SequenceTheorems,
        WellFoundedInduction, TLAPS

\* The types the argument needs; budget_bytes comes last (The byte budget).
Typed ==
  /\ slots \in [0 .. max_events - 1 -> Nat]
  /\ head \in 0 .. max_events - 1
  /\ queued \in Nat /\ accepted \in Nat /\ queued <= accepted
  /\ accepted <= MaxSequence
  /\ closed \in BOOLEAN
  /\ budget_events \in Nat
  /\ taken \in Seq(Nat)

\* A number is leased or being released at most once, and only after Take.
LeasesApart ==
  /\ IsFiniteSet(leases) /\ IsFiniteSet(releasing)
  /\ leases \cap releasing = {}
  /\ leases \cup releasing \subseteq 1 .. accepted - queued

Inductive ==
  /\ Typed /\ LeasesApart /\ BudgetCountsLeases
  /\ RingHoldsNewest /\ TakenInOrder

\* All slots the journal computes are less than two rounds from slot 0, where
\* the modulus is at most one subtraction.
LEMMA SlotValue ==
  ASSUME NEW a \in 0 .. 2 * max_events - 1
  PROVE  SlotOf(a) = IF a < max_events THEN a ELSE a - max_events
<1> USE JournalAssumption
<1>1. CASE a < max_events
  BY <1>1, SMTT(60) DEF SlotOf
<1>2. CASE a >= max_events
  <2> DEFINE q == a \div max_events
             r == a % max_events
  <2>1. q \in Int /\ r \in 0 .. max_events - 1 /\ a = max_events * q + r
    BY SMTT(60)
  <2> HIDE DEF q, r
  <2>2. q = 1
    <3>1. CASE q <= 0
      <4>1. max_events * q <= 0 BY <2>1, <3>1, SMTT(60)
      <4> QED BY <4>1, <2>1, <1>2, SMTT(60)
    <3>2. CASE q >= 2
      <4>1. max_events * q >= 2 * max_events BY <2>1, <3>2, SMTT(60)
      <4> QED BY <4>1, <2>1, SMTT(60)
    <3> QED BY <2>1, <3>1, <3>2, SMTT(60)
  <2>3. r = a - max_events
    BY <2>1, <2>2, SMTT(60)
  <2> QED BY <1>2, <2>3, SMTT(60) DEF r, SlotOf
<1> QED BY <1>1, <1>2, SMTT(60)

\* What the ring's loops rely on: slots are slots, a round leads back to
\* head, and the slot after head starts the next round.
LEMMA SlotFacts ==
  ASSUME NEW h \in 0 .. max_events - 1
  PROVE  /\ \A i \in 0 .. max_events : SlotOf(h + i) \in 0 .. max_events - 1
         /\ SlotOf(h + 0) = h
         /\ SlotOf(h + max_events) = h
         /\ \A i \in 0 .. max_events - 1 :
              SlotOf(SlotOf(h + 1) + i) = SlotOf(h + (i + 1))
<1> USE JournalAssumption
<1>1. \A i \in 0 .. max_events :
        SlotOf(h + i) = IF h + i < max_events THEN h + i ELSE h + i - max_events
  <2> TAKE i \in 0 .. max_events
  <2>1. h + i \in 0 .. 2 * max_events - 1 BY SMTT(60)
  <2> QED BY <2>1, SlotValue, SMTT(60)
<1>2. \A i \in 0 .. max_events : SlotOf(h + i) \in 0 .. max_events - 1
  BY <1>1, SMTT(60)
<1>3. SlotOf(h + 0) = h /\ SlotOf(h + max_events) = h
  BY <1>1, SMTT(60)
<1>4. \A i \in 0 .. max_events - 1 :
        SlotOf(SlotOf(h + 1) + i) = SlotOf(h + (i + 1))
  <2> TAKE i \in 0 .. max_events - 1
  <2>1. 1 \in 0 .. max_events /\ i + 1 \in 0 .. max_events BY SMTT(60)
  <2>2. SlotOf(h + 1) = IF h + 1 < max_events THEN h + 1 ELSE h + 1 - max_events
    BY <1>1, <2>1, ZenonT(60)
  <2>3. SlotOf(h + (i + 1)) = IF h + (i + 1) < max_events THEN h + (i + 1)
                              ELSE h + (i + 1) - max_events
    BY <1>1, <2>1, ZenonT(60)
  <2>4. SlotOf(h + 1) + i \in 0 .. 2 * max_events - 1
    BY <2>2, SMTT(60)
  <2>5. SlotOf(SlotOf(h + 1) + i) =
          IF SlotOf(h + 1) + i < max_events THEN SlotOf(h + 1) + i
          ELSE SlotOf(h + 1) + i - max_events
    BY <2>4, SlotValue, SMTT(60)
  <2> QED BY <2>2, <2>3, <2>5, SMTT(60)
<1> QED BY <1>2, <1>3, <1>4, ZenonT(60)

\* Different distances from head within the ring are different slots.
LEMMA SlotsDiffer ==
  ASSUME NEW h \in 0 .. max_events - 1,
         NEW i \in 0 .. max_events - 1, NEW j \in 0 .. max_events - 1, i # j
  PROVE  SlotOf(h + i) # SlotOf(h + j)
<1> USE JournalAssumption
<1>1. h + i \in 0 .. 2 * max_events - 1 /\ h + j \in 0 .. 2 * max_events - 1
  BY SMTT(60)
<1>2. /\ SlotOf(h + i) = IF h + i < max_events THEN h + i ELSE h + i - max_events
      /\ SlotOf(h + j) = IF h + j < max_events THEN h + j ELSE h + j - max_events
  BY <1>1, SlotValue, SMTT(60)
<1> QED BY <1>2, SMTT(60)

\* Appending a number to what was taken.
LEMMA AppendFacts ==
  ASSUME NEW s \in Seq(Nat), NEW n \in Nat
  PROVE  /\ Append(s, n) \in Seq(Nat)
         /\ Len(Append(s, n)) = Len(s) + 1
         /\ Append(s, n)[Len(s) + 1] = n
         /\ \A i \in 1 .. Len(s) : Append(s, n)[i] = s[i]
BY SMTT(60)

LEMMA InitInductive == Init => Inductive
<1> SUFFICES ASSUME Init PROVE Inductive
  BY ZenonT(60)
<1> USE JournalAssumption
<1>1. Typed
  <2>1. closed \in BOOLEAN BY ZenonT(60) DEF Init
  <2>2. slots \in [0 .. max_events - 1 -> Nat] BY ZenonT(60) DEF Init, NoEvent
  <2> QED BY <2>1, <2>2, SMTT(60) DEF Init, Typed
<1>2. LeasesApart BY FS_EmptySet, ZenonT(60) DEF Init, LeasesApart
<1>3. BudgetCountsLeases BY FS_EmptySet, SMTT(60) DEF Init, BudgetCountsLeases
<1>4. RingHoldsNewest
  <2> SUFFICES ASSUME NEW i \in 0 .. max_events - 1
               PROVE  slots[SlotOf(i)] = NoEvent
    BY SMTT(60) DEF Init, RingHoldsNewest
  <2>1. SlotOf(i) = i BY SlotValue, SMTT(60)
  <2> QED BY <2>1, ZenonT(60) DEF Init
<1>5. TakenInOrder BY SMTT(60) DEF Init, TakenInOrder
<1> QED BY <1>1, <1>2, <1>3, <1>4, <1>5, ZenonT(60) DEF Inductive

\* Recording an event leaves the ring, the budget and the order intact: the
\* slot written is empty because the budget covers the queue.
LEMMA CommitPreserves ==
  ASSUME Inductive, NEW bytes \in Charges, Refusal(bytes) = NoFailure,
         Commit(bytes)
  PROVE  Inductive'
<1> USE JournalAssumption
<1> USE DEF Inductive
<1>0. head \in 0 .. max_events - 1 /\ queued \in Nat
  BY ZenonT(60) DEF Typed
<1>1. accepted # MaxSequence /\ budget_events < max_events
  BY SMTT(60) DEF Refusal, NoFailure, Typed
<1>2. Cardinality(leases) \in Nat /\ Cardinality(releasing) \in Nat
  BY FS_CardinalityType, ZenonT(60) DEF LeasesApart
<1>3. queued < max_events
  BY <1>1, <1>2, SMTT(60) DEF BudgetCountsLeases, Typed
<1> DEFINE at == SlotOf(head + queued)
<1>4. at \in 0 .. max_events - 1
  <2>1. queued \in 0 .. max_events BY <1>0, <1>3, SMTT(60)
  <2> QED BY <1>0, <2>1, SlotFacts, ZenonT(60)
<1>5. Typed'
  <2>1. slots' \in [0 .. max_events - 1 -> Nat]
    BY <1>4, SMTT(60) DEF Commit, Typed
  <2> QED BY <1>1, <2>1, SMTT(60) DEF Commit, Typed
<1>6. LeasesApart'
  BY SMTT(60) DEF Commit, LeasesApart, Typed
<1>7. BudgetCountsLeases'
  <2>1. /\ budget_events' = budget_events + 1 /\ queued' = queued + 1
        /\ leases' = leases /\ releasing' = releasing
    BY ZenonT(60) DEF Commit
  <2> QED BY <1>0, <1>1, <1>2, <2>1, SMTT(60) DEF BudgetCountsLeases
<1>8. RingHoldsNewest'
  <2> SUFFICES ASSUME NEW i \in 0 .. max_events - 1
               PROVE  slots'[SlotOf(head' + i)] =
                        IF i < queued' THEN accepted' - queued' + 1 + i
                        ELSE NoEvent
    BY ZenonT(60) DEF RingHoldsNewest
  <2>0. /\ head' = head /\ queued' = queued + 1
        /\ accepted' - queued' + 1 + i = accepted - queued + 1 + i
    BY SMTT(60) DEF Commit, Typed
  <2>1. SlotOf(head + i) \in 0 .. max_events - 1
    <3>1. i \in 0 .. max_events BY SMTT(60)
    <3> QED BY <1>0, <3>1, SlotFacts, ZenonT(60)
  <2>2. CASE i = queued
    <3>1. slots'[at] = accepted + 1
      BY <1>4, ZenonT(60) DEF Commit, Typed
    <3>2. SlotOf(head' + i) = at /\ i < queued'
      BY <2>0, <2>2, SMTT(60) DEF Typed
    <3>3. accepted' - queued' + 1 + i = accepted + 1
      BY <2>0, <2>2, SMTT(60) DEF Typed
    <3> HIDE DEF at
    <3> QED BY <3>1, <3>2, <3>3, ZenonT(60)
  <2>3. CASE i # queued
    <3>1. SlotOf(head + i) # at
      <4>1. queued \in 0 .. max_events - 1 BY <1>0, <1>3, SMTT(60)
      <4> QED BY <1>0, <2>3, <4>1, SlotsDiffer, ZenonT(60)
    <3>2. slots'[SlotOf(head + i)] = slots[SlotOf(head + i)]
      BY <2>1, <3>1, ZenonT(60) DEF Commit, Typed
    <3>3. slots[SlotOf(head + i)] =
            IF i < queued THEN accepted - queued + 1 + i ELSE NoEvent
      BY ZenonT(60) DEF RingHoldsNewest
    <3>4. i < queued <=> i < queued'
      BY <2>0, <2>3, SMTT(60) DEF Typed
    <3> QED BY <2>0, <3>2, <3>3, <3>4, ZenonT(60)
  <2> QED BY <2>2, <2>3, ZenonT(60)
<1>9. TakenInOrder'
  <2>1. taken' = taken /\ accepted' - queued' = accepted - queued
    BY SMTT(60) DEF Commit, Typed
  <2> QED BY <2>1, ZenonT(60) DEF TakenInOrder
<1> QED BY <1>5, <1>6, <1>7, <1>8, <1>9, ZenonT(60)

\* Take hands out the next number and empties its slot.
LEMMA TakePreserves ==
  ASSUME Inductive, Take
  PROVE  Inductive'
<1> USE JournalAssumption
<1> USE DEF Inductive
<1> DEFINE n == accepted - queued + 1
<1>1. queued > 0 /\ queued <= max_events
  <2>1. Cardinality(leases) \in Nat /\ Cardinality(releasing) \in Nat
    BY FS_CardinalityType, ZenonT(60) DEF LeasesApart
  <2> QED BY <2>1, SMTT(60) DEF Take, BudgetCountsLeases, Typed
<1>2. slots[head] = n
  <2>1. SlotOf(head + 0) = head BY SlotFacts, ZenonT(60) DEF Typed
  <2>2. slots[SlotOf(head + 0)] = IF 0 < queued THEN accepted - queued + 1 + 0
                                  ELSE NoEvent
    BY SMTT(60) DEF RingHoldsNewest
  <2> QED BY <1>1, <2>1, <2>2, SMTT(60) DEF Typed
<1>3. n \in Nat /\ n \notin leases /\ n \notin releasing
  BY SMTT(60) DEF LeasesApart, Typed
<1>4. Typed'
  <2>1. slots' \in [0 .. max_events - 1 -> Nat]
    BY ZenonT(60) DEF Take, Typed, NoEvent
  <2>2. head' \in 0 .. max_events - 1
    BY SlotFacts, SMTT(60) DEF Take, Typed
  <2>3. taken' \in Seq(Nat)
    BY <1>2, <1>3, AppendFacts, ZenonT(60) DEF Take, Typed
  <2> QED BY <1>1, <2>1, <2>2, <2>3, SMTT(60) DEF Take, Typed, budget
<1>5. LeasesApart'
  <2>1. IsFiniteSet(leases')
    BY <1>2, FS_AddElement, ZenonT(60) DEF Take, LeasesApart
  <2>2. /\ leases' = leases \cup {n} /\ releasing' = releasing
        /\ accepted' = accepted /\ queued' = queued - 1
    BY <1>2, ZenonT(60) DEF Take
  <2>3. leases' \cap releasing' = {}
    BY <1>3, <2>2, ZenonT(60) DEF LeasesApart
  <2>4. accepted \in Nat /\ queued \in Nat /\ queued <= accepted
    BY ZenonT(60) DEF Typed
  <2>5. accepted' - queued' = n /\ n \in Nat /\ n >= 1
    BY <1>1, <1>3, <2>2, <2>4, SMTT(60)
  <2>6. \A l \in 1 .. accepted - queued : l \in 1 .. accepted' - queued'
    BY <2>4, <2>5, SMTT(60)
  <2>7. n \in 1 .. accepted' - queued'
    BY <2>5, SMTT(60)
  <2> QED BY <2>1, <2>2, <2>3, <2>6, <2>7, ZenonT(60) DEF LeasesApart
<1>6. BudgetCountsLeases'
  <2>1. Cardinality(leases') = Cardinality(leases) + 1
    BY <1>2, <1>3, FS_AddElement, ZenonT(60) DEF Take, LeasesApart
  <2>2. Cardinality(leases) \in Nat /\ Cardinality(releasing) \in Nat
    BY FS_CardinalityType, ZenonT(60) DEF LeasesApart
  <2> QED BY <2>1, <2>2, SMTT(60) DEF Take, BudgetCountsLeases, Typed, budget
<1>7. RingHoldsNewest'
  <2> SUFFICES ASSUME NEW i \in 0 .. max_events - 1
               PROVE  slots'[SlotOf(head' + i)] =
                        IF i < queued' THEN accepted' - queued' + 1 + i
                        ELSE NoEvent
    BY ZenonT(60) DEF RingHoldsNewest
  <2>0. /\ queued' = queued - 1
        /\ accepted' - queued' + 1 + i = accepted - queued + 1 + (i + 1)
    BY SMTT(60) DEF Take, Typed
  <2> DEFINE at == SlotOf(head' + i)
  <2>1. at = SlotOf(head + (i + 1)) /\ at \in 0 .. max_events - 1
    <3>1. i + 1 \in 0 .. max_events /\ head' = SlotOf(head + 1)
      BY SMTT(60) DEF Take
    <3> QED BY <3>1, SlotFacts, ZenonT(60) DEF Typed
  <2> HIDE DEF at
  <2>2. CASE i = max_events - 1
    <3>1. at = head
      <4>1. i + 1 = max_events BY <2>2, SMTT(60)
      <4> QED BY <2>1, <4>1, SlotFacts, ZenonT(60) DEF Typed
    <3>2. slots'[at] = NoEvent
      BY <3>1, ZenonT(60) DEF Take, Typed
    <3>3. ~(i < queued')
      BY <1>1, <2>0, <2>2, SMTT(60) DEF Typed
    <3> QED BY <3>2, <3>3, ZenonT(60) DEF at
  <2>3. CASE i # max_events - 1
    <3>1. at # head
      <4>1. i + 1 \in 0 .. max_events - 1 /\ 0 \in 0 .. max_events - 1
            /\ i + 1 # 0
        BY <2>3, SMTT(60)
      <4>2. head \in 0 .. max_events - 1
        BY ZenonT(60) DEF Typed
      <4>3. SlotOf(head + 0) = head
        BY <4>2, SlotFacts, ZenonT(60)
      <4>4. SlotOf(head + (i + 1)) # SlotOf(head + 0)
        BY <4>1, <4>2, SlotsDiffer, ZenonT(60)
      <4> QED BY <2>1, <4>3, <4>4, ZenonT(60)
    <3>2. slots'[at] = slots[SlotOf(head + (i + 1))]
      BY <2>1, <3>1, ZenonT(60) DEF Take, Typed
    <3>3. i + 1 \in 0 .. max_events - 1
      BY <2>3, SMTT(60)
    <3>4. slots[SlotOf(head + (i + 1))] =
            IF i + 1 < queued THEN accepted - queued + 1 + (i + 1) ELSE NoEvent
      BY <3>3, ZenonT(60) DEF RingHoldsNewest
    <3>5. i + 1 < queued <=> i < queued'
      BY <2>0, SMTT(60) DEF Typed
    <3> QED BY <2>0, <3>2, <3>4, <3>5, ZenonT(60) DEF at
  <2> QED BY <2>2, <2>3, ZenonT(60)
<1>8. TakenInOrder'
  <2>1. taken' = Append(taken, n) /\ Len(taken) = n - 1
    BY <1>2, SMTT(60) DEF Take, TakenInOrder, Typed
  <2>2. /\ Len(taken') = Len(taken) + 1
        /\ taken'[Len(taken) + 1] = n
        /\ \A i \in 1 .. Len(taken) : taken'[i] = taken[i]
    BY <1>3, <2>1, AppendFacts, ZenonT(60) DEF Typed
  <2>3. accepted' - queued' = n
    BY SMTT(60) DEF Take, Typed
  <2>4. ASSUME NEW i \in 1 .. Len(taken') PROVE taken'[i] = i
    <3>1. CASE i = Len(taken) + 1
      BY <2>1, <2>2, <3>1, <1>3, SMTT(60)
    <3>2. CASE i # Len(taken) + 1
      <4>1. i \in 1 .. Len(taken)
        BY <2>1, <2>2, <3>2, <1>3, SMTT(60)
      <4> QED BY <2>2, <4>1, ZenonT(60) DEF TakenInOrder
    <3> QED BY <3>1, <3>2, ZenonT(60)
  <2> QED BY <1>3, <2>1, <2>2, <2>3, <2>4, ZenonT(60) DEF TakenInOrder
<1> QED BY <1>4, <1>5, <1>6, <1>7, <1>8, ZenonT(60)

\* Giving back the bytes moves a lease ...
LEMMA ReleaseBytesPreserves ==
  ASSUME Inductive, NEW n \in leases, ReleaseBytes(n)
  PROVE  Inductive'
<1> USE DEF Inductive
<1>1. /\ Cardinality(leases) \in Nat /\ Cardinality(releasing) \in Nat
      /\ IsFiniteSet(leases) /\ IsFiniteSet(releasing)
  BY FS_CardinalityType, ZenonT(60) DEF LeasesApart
<1>2. /\ IsFiniteSet(leases') /\ Cardinality(leases') = Cardinality(leases) - 1
      /\ IsFiniteSet(releasing')
      /\ Cardinality(releasing') = Cardinality(releasing) + 1
  <2>1. n \notin releasing BY ZenonT(60) DEF LeasesApart
  <2> QED BY <1>1, <2>1, FS_AddElement, FS_RemoveElement, ZenonT(60) DEF ReleaseBytes
<1>3. Typed' BY ZenonT(60) DEF ReleaseBytes, Typed, ring
<1>4. LeasesApart' BY <1>2, ZenonT(60) DEF ReleaseBytes, LeasesApart, ring
<1>5. BudgetCountsLeases'
  <2>1. budget_events' = budget_events /\ queued' = queued
    BY ZenonT(60) DEF ReleaseBytes, ring
  <2>2. queued \in Nat BY ZenonT(60) DEF Typed
  <2> QED BY <1>1, <1>2, <2>1, <2>2, SMTT(60) DEF BudgetCountsLeases
<1>6. RingHoldsNewest' BY ZenonT(60) DEF ReleaseBytes, RingHoldsNewest, ring
<1>7. TakenInOrder' BY ZenonT(60) DEF ReleaseBytes, TakenInOrder, ring
<1> QED BY <1>3, <1>4, <1>5, <1>6, <1>7, ZenonT(60)

\* ... and giving back the event ends it.
LEMMA ReleaseEventPreserves ==
  ASSUME Inductive, NEW n \in releasing, ReleaseEvent(n)
  PROVE  Inductive'
<1> USE DEF Inductive
<1>1. /\ Cardinality(leases) \in Nat /\ Cardinality(releasing) \in Nat
      /\ IsFiniteSet(leases) /\ IsFiniteSet(releasing)
  BY FS_CardinalityType, ZenonT(60) DEF LeasesApart
<1>2. /\ IsFiniteSet(releasing')
      /\ Cardinality(releasing') = Cardinality(releasing) - 1
  BY <1>1, FS_RemoveElement, ZenonT(60) DEF ReleaseEvent
<1>3. Cardinality(releasing') \in Nat
  BY <1>2, FS_CardinalityType, ZenonT(60)
<1>4. /\ budget_events' = budget_events - 1 /\ queued' = queued
      /\ leases' = leases /\ queued \in Nat /\ budget_events \in Nat
  BY ZenonT(60) DEF ReleaseEvent, ring, Typed
<1>5. BudgetCountsLeases'
  BY <1>1, <1>2, <1>4, JournalAssumption, SMTT(60) DEF BudgetCountsLeases
<1>6. Typed'
  <2>1. budget_events' \in Nat
    BY <1>1, <1>3, <1>4, <1>5, SMTT(60) DEF BudgetCountsLeases
  <2> QED BY <2>1, ZenonT(60) DEF ReleaseEvent, Typed, ring
<1>7. LeasesApart' BY <1>2, ZenonT(60) DEF ReleaseEvent, LeasesApart, ring
<1>8. RingHoldsNewest' BY ZenonT(60) DEF ReleaseEvent, RingHoldsNewest, ring
<1>9. TakenInOrder' BY ZenonT(60) DEF ReleaseEvent, TakenInOrder, ring
<1> QED BY <1>5, <1>6, <1>7, <1>8, <1>9, ZenonT(60)

\* Failing and closing leave the ring, the leases and the order alone.
LEMMA QuietPreserves ==
  ASSUME Inductive, closed' \in BOOLEAN,
         UNCHANGED <<ring, budget_events, leases, releasing, taken>>
  PROVE  Inductive'
<1> USE DEF Inductive, ring
<1>1. Typed' BY ZenonT(60) DEF Typed
<1>2. LeasesApart' BY ZenonT(60) DEF LeasesApart
<1>3. BudgetCountsLeases' BY ZenonT(60) DEF BudgetCountsLeases
<1>4. RingHoldsNewest' BY ZenonT(60) DEF RingHoldsNewest
<1>5. TakenInOrder' BY ZenonT(60) DEF TakenInOrder
<1> QED BY <1>1, <1>2, <1>3, <1>4, <1>5, ZenonT(60)

\* What a producer's step is: an event recorded within the limits, or a
\* failure that changes nothing else.
LEMMA ProducerStep ==
  ASSUME Added \/ Removed \/ Block
  PROVE  /\ Open
         /\ \/ \E bytes \in Charges : Refusal(bytes) = NoFailure /\ Commit(bytes)
            \/ \E why \in {"InvalidPayload", "MissingCoin", "Bytes", "Allocation",
                           "Capacity", "Sequence"} : Fail(why)
<1>1. Open
  BY ZenonT(60) DEF Added, Removed, Block
<1>2. ASSUME NEW bytes \in Charges, Reserve(bytes)
      PROVE  \/ Refusal(bytes) = NoFailure /\ Commit(bytes)
             \/ \E why \in {"Bytes", "Capacity", "Sequence"} : Fail(why)
  <2>1. CASE Refusal(bytes) = NoFailure /\ Commit(bytes)
    BY <2>1, ZenonT(60)
  <2>2. CASE Refusal(bytes) # NoFailure /\ Fail(Refusal(bytes))
    <3>1. Refusal(bytes) \in {"Bytes", "Capacity", "Sequence", NoFailure}
      BY ZenonT(60) DEF Refusal
    <3> QED BY <2>2, <3>1, ZenonT(60)
  <2> QED BY <1>2, <2>1, <2>2, ZenonT(60) DEF Reserve
<1> QED BY <1>1, <1>2, ZenonT(60) DEF Added, Removed, Block

LEMMA StepPreserves == Inductive /\ [Next]_vars => Inductive'
<1> SUFFICES ASSUME Inductive, [Next]_vars PROVE Inductive'
  BY ZenonT(60)
<1>1. CASE Added \/ Removed \/ Block
  <2>1. ASSUME NEW why, Fail(why) PROVE Inductive'
    BY <2>1, QuietPreserves, ZenonT(60) DEF Fail, ring, budget, Inductive, Typed
  <2> QED BY <1>1, <2>1, ProducerStep, CommitPreserves, ZenonT(60)
<1>2. CASE Take
  BY <1>2, TakePreserves, ZenonT(60)
<1>3. CASE Close
  BY <1>3, QuietPreserves, ZenonT(60) DEF Close, ring, budget
<1>4. ASSUME NEW n \in leases, ReleaseBytes(n) PROVE Inductive'
  BY <1>4, ReleaseBytesPreserves, ZenonT(60)
<1>5. ASSUME NEW n \in releasing, ReleaseEvent(n) PROVE Inductive'
  BY <1>5, ReleaseEventPreserves, ZenonT(60)
<1>6. CASE UNCHANGED vars
  BY <1>6, QuietPreserves, ZenonT(60) DEF vars, ring, budget, Inductive, Typed
<1> QED BY <1>1, <1>2, <1>3, <1>4, <1>5, <1>6, ZenonT(60) DEF Next

\* The ring, its budget and its order are related as Inductive says in every
\* state of every journal.
THEOREM InductiveHolds == Spec => []Inductive
BY InitInductive, StepPreserves, PTL DEF Spec

\* Commit never writes over an event nobody has taken.
THEOREM RingIsIntact == Spec => []RingHoldsNewest
<1>1. Inductive => RingHoldsNewest BY ZenonT(60) DEF Inductive
<1> QED BY <1>1, InductiveHolds, PTL

\* Take hands out 1, 2, 3, ..., and leaves the rest in the ring.
THEOREM OrderIsKept == Spec => []TakenInOrder
<1>1. Inductive => TakenInOrder BY ZenonT(60) DEF Inductive
<1> QED BY <1>1, InductiveHolds, PTL

\* The event budget is exactly what is queued, leased or being given back, and
\* at most max_events.
THEOREM BudgetIsExact == Spec => []BudgetCountsLeases
<1>1. Inductive => BudgetCountsLeases BY ZenonT(60) DEF Inductive
<1> QED BY <1>1, InductiveHolds, PTL

\* A failed or closed journal neither records nor hands out, and keeps the
\* cause of its first failure.
THEOREM StopIsForGood == Spec => StopsForGood
<1> DEFINE Stop == closed \/ failure # NoFailure =>
                     /\ ring' = ring /\ taken' = taken
                     /\ failure # NoFailure => failure' = failure
<1>1. [Next]_vars => [Stop]_vars
  <2> SUFFICES ASSUME Next, closed \/ failure # NoFailure
               PROVE  /\ ring' = ring /\ taken' = taken
                      /\ failure # NoFailure => failure' = failure
    BY ZenonT(60)
  <2>1. ~(Added \/ Removed \/ Block \/ Take)
    BY ZenonT(60) DEF Added, Removed, Block, Take, Open
  <2>2. CASE Close BY <2>2, ZenonT(60) DEF Close
  <2>3. ASSUME NEW n, ReleaseBytes(n) \/ ReleaseEvent(n)
        PROVE  ring' = ring /\ taken' = taken /\ failure' = failure
    BY <2>3, ZenonT(60) DEF ReleaseBytes, ReleaseEvent
  <2> QED BY <2>1, <2>2, <2>3, ZenonT(60) DEF Next
<1> QED BY <1>1, PTL DEF Spec, StopsForGood

-----------------------------------------------------------------------------
(* Sums over finite sets.                                                  *)

\* Induction over the subsets of a finite set, with the predicate as a set.
LEMMA SubsetInduction ==
  ASSUME NEW S, IsFiniteSet(S), NEW G,
         \A T \in SUBSET S : (\A U \in SUBSET T : U # T => U \in G) => T \in G
  PROVE  \A T \in SUBSET S : T \in G
<1> SUFFICES ASSUME (SUBSET S) \ G # {} PROVE FALSE
  BY ZenonT(60)
<1> DEFINE R == StrictSubsetOrdering(S)
           Bad == (SUBSET S) \ G
<1>1. IsWellFoundedOn(R, SUBSET S)
  <2>1. IsWellFoundedOn(R, FiniteSubsetsOf(S))
    BY FS_StrictSubsetOrderingWellFounded, ZenonT(60)
  <2>2. FiniteSubsetsOf(S) = SUBSET S
    BY FS_FiniteSubsetsOfFinite, ZenonT(60)
  <2> QED BY <2>1, <2>2, ZenonT(60)
<1>2. Bad \subseteq SUBSET S /\ Bad # {}
  BY ZenonT(60)
<1>3. PICK T \in Bad : \A U \in Bad : ~(<<U, T>> \in R)
  <2> HIDE DEF R, Bad
  <2> QED BY <1>1, <1>2, WFMin, SMTT(60)
<1>4. \A U \in SUBSET T : U # T => U \in G
  BY <1>3, ZenonT(60) DEF StrictSubsetOrdering
<1> QED BY <1>3, <1>4, ZenonT(60)

Pick(S) == CHOOSE x \in S : TRUE

\* g is the function by which FoldFunctionOnSet adds up f on the subsets of S.
Adds(g, f, S) ==
  g = [T \in SUBSET S |-> IF T = {} THEN 0 ELSE f[Pick(T)] + g[T \ {Pick(T)}]]

\* The sum is the value at the whole set of a function defined by recursion.
LEMMA SumIs ==
  ASSUME NEW f, NEW S
  PROVE  SumFunctionOnSet(f, S) = (CHOOSE g : Adds(g, f, S))[S]
BY ZenonT(60) DEF SumFunctionOnSet, FoldFunctionOnSet, MapThenFoldSet, Adds, Pick

\* Such a function adds one element to the rest.
LEMMA AddsAt ==
  ASSUME NEW f, NEW S, NEW g, Adds(g, f, S), NEW T \in SUBSET S
  PROVE  g[T] = IF T = {} THEN 0 ELSE f[Pick(T)] + g[T \ {Pick(T)}]
BY ZenonT(60) DEF Adds

\* The element added first is one of the set.
LEMMA PickIn == ASSUME NEW S, S # {} PROVE Pick(S) \in S
BY ZenonT(60) DEF Pick

\* Two such functions agree where both are defined.
LEMMA AddsUnique ==
  ASSUME NEW f, NEW A, NEW B, IsFiniteSet(A), NEW g, NEW h,
         Adds(g, f, A), Adds(h, f, B)
  PROVE  \A T \in SUBSET (A \cap B) : g[T] = h[T]
<1> DEFINE C == A \cap B
           G == {T \in SUBSET C : g[T] = h[T]}
<1>1. IsFiniteSet(C)
  BY FS_Intersection, ZenonT(60)
<1>2. ASSUME NEW T \in SUBSET C, \A U \in SUBSET T : U # T => U \in G
      PROVE  T \in G
  <2>0. T \in SUBSET A /\ T \in SUBSET B
    BY ZenonT(60)
  <2>1. g[T] = IF T = {} THEN 0 ELSE f[Pick(T)] + g[T \ {Pick(T)}]
    BY <2>0, AddsAt, SMTT(60)
  <2>2. h[T] = IF T = {} THEN 0 ELSE f[Pick(T)] + h[T \ {Pick(T)}]
    BY <2>0, AddsAt, SMTT(60)
  <2>3. T # {} => g[T \ {Pick(T)}] = h[T \ {Pick(T)}]
    BY <1>2, PickIn, ZenonT(60)
  <2> QED BY <2>1, <2>2, <2>3, ZenonT(60)
<1>3. \A T \in SUBSET C : T \in G
  <2> HIDE DEF C, G
  <2> QED BY <1>1, <1>2, SubsetInduction, ZenonT(60)
<1> QED BY <1>3, ZenonT(60)

\* Such a function exists for every finite set.
LEMMA AddsExists ==
  ASSUME NEW f, NEW S, IsFiniteSet(S)
  PROVE  \E g : Adds(g, f, S)
<1> DEFINE G == {T \in SUBSET S : \E g : Adds(g, f, T)}
<1>1. ASSUME NEW T \in SUBSET S, \A U \in SUBSET T : U # T => U \in G
      PROVE  T \in G
  <2> DEFINE Sol(U) == CHOOSE g : Adds(g, f, U)
             Val(U) == Sol(U)[U]
             h == [U \in SUBSET T |-> IF U = {} THEN 0
                                      ELSE f[Pick(U)] + Val(U \ {Pick(U)})]
  <2>1. \A U \in SUBSET T : U # T => Adds(Sol(U), f, U)
    BY <1>1, ZenonT(60)
  <2>2. ASSUME NEW U \in SUBSET T, U # T PROVE h[U] = Val(U)
    <3> DEFINE V == U \ {Pick(U)}
    <3>1. Adds(Sol(U), f, U)
      BY <2>1, <2>2, ZenonT(60)
    <3> HIDE DEF Sol
    <3>2. Sol(U)[U] = IF U = {} THEN 0 ELSE f[Pick(U)] + Sol(U)[V]
      BY <3>1, AddsAt, SMTT(60)
    <3>3. CASE U = {}
      BY <3>2, <3>3, ZenonT(60)
    <3>4. CASE U # {}
      <4>1. V \in SUBSET T /\ V # T /\ V \in SUBSET (U \cap V)
        BY <3>4, PickIn, ZenonT(60)
      <4>2. Adds(Sol(V), f, V)
        BY <2>1, <4>1, ZenonT(60)
      <4>3. IsFiniteSet(U)
        BY FS_Subset, ZenonT(60)
      <4>4. \A W \in SUBSET (U \cap V) : Sol(U)[W] = Sol(V)[W]
        <5> HIDE DEF V
        <5> QED BY <3>1, <4>2, <4>3, AddsUnique, SMTT(60)
      <4>5. Sol(U)[V] = Sol(V)[V]
        BY <4>1, <4>4, ZenonT(60)
      <4> QED BY <3>2, <3>4, <4>5, ZenonT(60)
    <3> QED BY <3>3, <3>4, ZenonT(60)
  <2>3. Adds(h, f, T)
    <3>1. \A U \in SUBSET T : U # {} =>
             h[U \ {Pick(U)}] = Val(U \ {Pick(U)})
      BY <2>2, PickIn, ZenonT(60)
    <3> HIDE DEF Val
    <3>2. h = [U \in SUBSET T |-> IF U = {} THEN 0
                                  ELSE f[Pick(U)] + h[U \ {Pick(U)}]]
      BY <3>1, ZenonT(60)
    <3> QED BY <3>2, ZenonT(60) DEF Adds
  <2> HIDE DEF h
  <2> QED BY <2>3, ZenonT(60)
<1>2. \A T \in SUBSET S : T \in G
  <2> HIDE DEF G
  <2> QED BY <1>1, SubsetInduction, ZenonT(60)
<1> QED BY <1>2, ZenonT(60)

\* What a sum over a finite set is: nothing for no element, else one element
\* and the sum of the others.
LEMMA SumEmpty == ASSUME NEW f PROVE SumFunctionOnSet(f, {}) = 0
<1> DEFINE g == CHOOSE g : Adds(g, f, {})
<1>1. Adds(g, f, {})
  BY FS_EmptySet, AddsExists, ZenonT(60)
<1> HIDE DEF g
<1>2. g[{}] = 0
  BY <1>1, AddsAt, ZenonT(60)
<1> QED BY <1>2, SumIs, ZenonT(60) DEF g

\* A sum is the first element and the sum of the rest.
LEMMA SumPick ==
  ASSUME NEW f, NEW S, IsFiniteSet(S), S # {}
  PROVE  SumFunctionOnSet(f, S) =
           f[Pick(S)] + SumFunctionOnSet(f, S \ {Pick(S)})
<1> DEFINE Sol(U) == CHOOSE g : Adds(g, f, U)
           T == S \ {Pick(S)}
<1>1. IsFiniteSet(T) /\ T \in SUBSET (S \cap T)
  BY FS_RemoveElement, ZenonT(60)
<1>2. Adds(Sol(S), f, S) /\ Adds(Sol(T), f, T)
  <2> HIDE DEF T
  <2> QED BY <1>1, AddsExists, ZenonT(60)
<1>3. SumFunctionOnSet(f, S) = Sol(S)[S] /\ SumFunctionOnSet(f, T) = Sol(T)[T]
  BY SumIs, ZenonT(60)
<1> HIDE DEF Sol
<1>4. Sol(S)[S] = f[Pick(S)] + Sol(S)[T]
  BY <1>2, AddsAt, SMTT(60)
<1>5. Sol(S)[T] = Sol(T)[T]
  BY <1>1, <1>2, AddsUnique, SMTT(60)
<1> QED BY <1>3, <1>4, <1>5, ZenonT(60)

\* A finite sum of integers is an integer.
LEMMA SumInt ==
  ASSUME NEW f, NEW S, IsFiniteSet(S), \A x \in S : f[x] \in Int
  PROVE  SumFunctionOnSet(f, S) \in Int
<1> DEFINE G == {T \in SUBSET S : SumFunctionOnSet(f, T) \in Int}
<1>1. ASSUME NEW T \in SUBSET S, \A U \in SUBSET T : U # T => U \in G
      PROVE  T \in G
  <2>1. CASE T = {}
    BY <2>1, SumEmpty, SMTT(60)
  <2>2. CASE T # {}
    <3>1. SumFunctionOnSet(f, T) = f[Pick(T)] + SumFunctionOnSet(f, T \ {Pick(T)})
      BY <2>2, FS_Subset, SumPick, ZenonT(60)
    <3>2. Pick(T) \in T /\ T \ {Pick(T)} \in G
      BY <1>1, <2>2, PickIn, ZenonT(60)
    <3> QED BY <3>1, <3>2, SMTT(60)
  <2> QED BY <2>1, <2>2, ZenonT(60)
<1>2. \A T \in SUBSET S : T \in G
  <2> HIDE DEF G
  <2> QED BY <1>1, SubsetInduction, ZenonT(60)
<1> QED BY <1>2, ZenonT(60)

\* The sum depends on what is added up and on nothing else.
LEMMA SumFrame ==
  ASSUME NEW f, NEW g, NEW S, IsFiniteSet(S), \A x \in S : f[x] = g[x]
  PROVE  SumFunctionOnSet(f, S) = SumFunctionOnSet(g, S)
<1> DEFINE G == {T \in SUBSET S :
                   SumFunctionOnSet(f, T) = SumFunctionOnSet(g, T)}
<1>1. ASSUME NEW T \in SUBSET S, \A U \in SUBSET T : U # T => U \in G
      PROVE  T \in G
  <2>1. CASE T = {}
    BY <2>1, SumEmpty, ZenonT(60)
  <2>2. CASE T # {}
    <3>1. /\ SumFunctionOnSet(f, T) = f[Pick(T)] + SumFunctionOnSet(f, T \ {Pick(T)})
          /\ SumFunctionOnSet(g, T) = g[Pick(T)] + SumFunctionOnSet(g, T \ {Pick(T)})
      BY <2>2, FS_Subset, SumPick, ZenonT(60)
    <3>2. Pick(T) \in T /\ T \ {Pick(T)} \in G
      BY <1>1, <2>2, PickIn, ZenonT(60)
    <3> QED BY <3>1, <3>2, ZenonT(60)
  <2> QED BY <2>1, <2>2, ZenonT(60)
<1>2. \A T \in SUBSET S : T \in G
  <2> HIDE DEF G
  <2> QED BY <1>1, SubsetInduction, ZenonT(60)
<1> QED BY <1>2, ZenonT(60)

\* Any element can be taken out, not only the one the fold picks.
LEMMA SumRemove ==
  ASSUME NEW f, NEW S, IsFiniteSet(S), \A x \in S : f[x] \in Int, NEW x \in S
  PROVE  SumFunctionOnSet(f, S) = f[x] + SumFunctionOnSet(f, S \ {x})
<1> DEFINE Splits(T, y) ==
             SumFunctionOnSet(f, T) = f[y] + SumFunctionOnSet(f, T \ {y})
           G == {T \in SUBSET S : \A y \in T : Splits(T, y)}
<1>1. ASSUME NEW T \in SUBSET S, \A U \in SUBSET T : U # T => U \in G
      PROVE  T \in G
  <2> SUFFICES ASSUME NEW y \in T PROVE Splits(T, y)
    BY ZenonT(60)
  <2> DEFINE p == Pick(T)
  <2>1. IsFiniteSet(T) /\ p \in T /\ Splits(T, p)
    BY FS_Subset, PickIn, SumPick, ZenonT(60)
  <2> HIDE DEF p
  <2>2. CASE y # p
    <3>1. Splits(T \ {p}, y) /\ Splits(T \ {y}, p)
      <4>1. T \ {p} \in G /\ T \ {y} \in G
        BY <1>1, <2>1, ZenonT(60)
      <4> QED BY <4>1, <2>1, <2>2, ZenonT(60)
    <3> DEFINE rest == SumFunctionOnSet(f, (T \ {p}) \ {y})
    <3>2. rest \in Int /\ f[y] \in Int /\ f[p] \in Int
      BY <2>1, FS_Subset, SumInt, ZenonT(60)
    <3>3. (T \ {y}) \ {p} = (T \ {p}) \ {y}
      BY ZenonT(60)
    <3>4. SumFunctionOnSet(f, T \ {y}) = f[p] + rest
      BY <3>1, <3>3, ZenonT(60)
    <3>5. SumFunctionOnSet(f, T) = f[p] + (f[y] + rest)
      BY <2>1, <3>1, ZenonT(60)
    <3> HIDE DEF rest
    <3> QED BY <3>2, <3>4, <3>5, SMTT(60)
  <2> QED BY <2>1, <2>2, ZenonT(60)
<1>2. \A T \in SUBSET S : T \in G
  <2> HIDE DEF G
  <2> QED BY <1>1, SubsetInduction, ZenonT(60)
<1> QED BY <1>2, ZenonT(60)

-----------------------------------------------------------------------------
(* The byte budget: a sum over the events queued or leased.                *)

Held == Queued \cup leases

\* Every event recorded has a charge.
Weighed ==
  /\ charge \in Seq(Nat) /\ Len(charge) = accepted
  /\ BytesWithinBudget

\* The events held are recorded ones, finitely many, and a lease is not queued.
LEMMA HeldIs ==
  ASSUME Inductive
  PROVE  /\ IsFiniteSet(Held) /\ Held \subseteq 1 .. accepted
         /\ \A n \in leases : n \notin Queued
         /\ queued \in Nat /\ accepted \in Nat
<1>1. queued \in Nat /\ accepted \in Nat /\ queued <= accepted
  BY ZenonT(60) DEF Inductive, Typed
<1>2. IsFiniteSet(leases) /\ leases \subseteq 1 .. accepted - queued
  BY ZenonT(60) DEF Inductive, LeasesApart
<1>3. IsFiniteSet(Queued)
  <2> DEFINE a == accepted - queued + 1
             b == accepted
  <2>1. a \in Int /\ b \in Int
    BY <1>1, SMTT(60)
  <2>2. Queued = a .. b
    BY ZenonT(60) DEF Queued
  <2> HIDE DEF a, b
  <2> QED BY <2>1, <2>2, FS_Interval, ZenonT(60)
<1>4. IsFiniteSet(Held)
  BY <1>2, <1>3, FS_Union, ZenonT(60) DEF Held
<1>5. Held \subseteq 1 .. accepted /\ \A n \in leases : n \notin Queued
  BY <1>1, <1>2, SMTT(60) DEF Held, Queued
<1> QED BY <1>1, <1>4, <1>5, ZenonT(60)

\* The charges of the events held are numbers, and so is their sum.
LEMMA HeldWeighs ==
  ASSUME Inductive, Weighed
  PROVE  /\ \A n \in 1 .. accepted : charge[n] \in Nat
         /\ \A n \in Held : charge[n] \in Int
         /\ budget_bytes = SumFunctionOnSet(charge, Held)
         /\ budget_bytes \in Int /\ budget_bytes <= max_bytes
<1>1. \A n \in 1 .. accepted : charge[n] \in Nat
  BY SMTT(60) DEF Weighed
<1>2. IsFiniteSet(Held) /\ Held \subseteq 1 .. accepted
  BY HeldIs, ZenonT(60)
<1>3. \A n \in Held : charge[n] \in Int
  BY <1>1, <1>2, SMTT(60)
<1>4. budget_bytes = SumFunctionOnSet(charge, Held) /\ budget_bytes <= max_bytes
  BY ZenonT(60) DEF Weighed, BytesWithinBudget, Held
<1>5. SumFunctionOnSet(charge, Held) \in Int
  BY <1>2, <1>3, SumInt, ZenonT(60)
<1> QED BY <1>1, <1>3, <1>4, <1>5, ZenonT(60)

\* Commit charges the event's bytes, which Reserve found to fit.
LEMMA CommitWeighs ==
  ASSUME Inductive, Weighed, NEW bytes \in Charges, Refusal(bytes) = NoFailure,
         Commit(bytes)
  PROVE  Weighed'
<1> DEFINE n == accepted + 1
           H == Held
           e == charge'
<1>1. /\ budget_bytes' = budget_bytes + bytes /\ accepted' = n /\ queued' = queued + 1
      /\ e = Append(charge, bytes) /\ leases' = leases
  BY ZenonT(60) DEF Commit
<1>2. /\ accepted \in Nat /\ queued \in Nat /\ IsFiniteSet(H) /\ H \subseteq 1 .. accepted
  BY HeldIs, ZenonT(60)
<1>3. /\ charge \in Seq(Nat) /\ Len(charge) = accepted /\ bytes \in Nat
  BY JournalAssumption, ZenonT(60) DEF Weighed
<1>4. /\ e \in Seq(Nat) /\ Len(e) = n /\ e[n] = bytes
      /\ \A i \in 1 .. accepted : e[i] = charge[i]
  BY <1>1, <1>2, <1>3, AppendFacts, ZenonT(60)
<1>5. Queued' = Queued \cup {n} /\ n \notin H
  BY <1>1, <1>2, SMTT(60) DEF Queued
<1>6. Held' = H \cup {n} /\ (H \cup {n}) \ {n} = H
  BY <1>1, <1>5, ZenonT(60) DEF Held
<1>7. /\ budget_bytes = SumFunctionOnSet(charge, H) /\ budget_bytes \in Int
      /\ \A i \in H : charge[i] \in Int
  BY HeldWeighs, ZenonT(60)
<1>8. budget_bytes + bytes <= max_bytes
  <2>1. ~(budget_bytes > max_bytes - bytes)
    <3>1. ~(accepted = MaxSequence) /\ ~(budget_events >= max_events)
      BY ZenonT(60) DEF Refusal, NoFailure
    <3>2. budget_events < max_events
      BY <3>1, JournalAssumption, SMTT(60) DEF Inductive, Typed
    <3> QED BY <3>1, <3>2, ZenonT(60) DEF Refusal, NoFailure
  <2> QED BY <1>3, <1>7, <2>1, JournalAssumption, SMTT(60)
<1>9. SumFunctionOnSet(e, Held') = budget_bytes + bytes
  <2> DEFINE T == H \cup {n}
  <2>1. IsFiniteSet(T) /\ n \in T /\ T \ {n} = H
    BY <1>2, <1>6, FS_AddElement, ZenonT(60)
  <2>2. \A i \in H : e[i] = charge[i]
    BY <1>2, <1>4, ZenonT(60)
  <2>3. \A i \in T : e[i] \in Int
    BY <1>3, <1>4, <1>7, <2>2, SMTT(60)
  <2>4. e[n] = bytes /\ bytes \in Nat
    BY <1>3, <1>4, ZenonT(60)
  <2>5. IsFiniteSet(H) /\ budget_bytes \in Int /\ budget_bytes = SumFunctionOnSet(charge, H)
    BY <1>2, <1>7, ZenonT(60)
  <2> HIDE DEF n, H, e, T
  <2>6. SumFunctionOnSet(e, T) = e[n] + SumFunctionOnSet(e, T \ {n})
    BY <2>1, <2>3, SumRemove, SMTT(60)
  <2>7. SumFunctionOnSet(e, H) = SumFunctionOnSet(charge, H)
    BY <2>2, <2>5, SumFrame, ZenonT(60)
  <2>8. SumFunctionOnSet(e, T) = budget_bytes + bytes
    <3>1. SumFunctionOnSet(e, T) = bytes + budget_bytes
      BY <2>1, <2>4, <2>5, <2>6, <2>7, ZenonT(60)
    <3> QED BY <2>4, <2>5, <3>1, SMTT(60)
  <2> QED BY <1>6, <2>8, ZenonT(60) DEF T
<1>10. BytesWithinBudget'
  BY <1>1, <1>8, <1>9, ZenonT(60) DEF BytesWithinBudget, Held
<1> QED BY <1>1, <1>4, <1>10, ZenonT(60) DEF Weighed

\* A lease's bytes leave the sum with it.
LEMMA ReleaseWeighs ==
  ASSUME Inductive, Weighed, NEW n \in leases, ReleaseBytes(n)
  PROVE  Weighed'
<1> DEFINE H == Held
<1>1. /\ budget_bytes' = budget_bytes - charge[n] /\ leases' = leases \ {n}
      /\ UNCHANGED <<accepted, queued, charge>>
  BY ZenonT(60) DEF ReleaseBytes, ring
<1>2. /\ IsFiniteSet(H) /\ H \subseteq 1 .. accepted /\ n \notin Queued /\ n \in H
  BY HeldIs, ZenonT(60) DEF Held
<1>3. /\ budget_bytes = SumFunctionOnSet(charge, H) /\ budget_bytes \in Int
      /\ (\A i \in H : charge[i] \in Int) /\ charge[n] \in Nat
      /\ budget_bytes <= max_bytes
  BY <1>2, HeldWeighs, ZenonT(60)
<1>4. Queued' = Queued
  BY <1>1, ZenonT(60) DEF Queued
<1>5. Held' = H \ {n}
  BY <1>1, <1>2, <1>4, ZenonT(60) DEF Held
<1>6. SumFunctionOnSet(charge, H) = charge[n] + SumFunctionOnSet(charge, H \ {n})
  <2> DEFINE f == charge
  <2>1. IsFiniteSet(H) /\ (\A i \in H : f[i] \in Int) /\ n \in H
    BY <1>2, <1>3, ZenonT(60)
  <2> HIDE DEF H, f
  <2>2. SumFunctionOnSet(f, H) = f[n] + SumFunctionOnSet(f, H \ {n})
    BY <2>1, SumRemove, SMTT(60)
  <2> QED BY <2>2, ZenonT(60) DEF f
<1>7. IsFiniteSet(H \ {n}) /\ SumFunctionOnSet(charge, H \ {n}) \in Int
  <2>1. IsFiniteSet(H \ {n}) /\ \A i \in H \ {n} : charge[i] \in Int
    BY <1>2, <1>3, FS_RemoveElement, ZenonT(60)
  <2> DEFINE T == H \ {n}
  <2> HIDE DEF T
  <2>2. IsFiniteSet(T) /\ \A i \in T : charge[i] \in Int
    BY <2>1, ZenonT(60) DEF T
  <2>3. SumFunctionOnSet(charge, T) \in Int
    BY <2>2, SumInt, ZenonT(60)
  <2> QED BY <2>1, <2>3, ZenonT(60) DEF T
<1> HIDE DEF H
<1>8. budget_bytes' = SumFunctionOnSet(charge', Held') /\ budget_bytes' <= max_bytes
  BY <1>1, <1>3, <1>5, <1>6, <1>7, JournalAssumption, SMTT(60)
<1>9. BytesWithinBudget'
  BY <1>8, ZenonT(60) DEF BytesWithinBudget, Held
<1> QED BY <1>1, <1>9, ZenonT(60) DEF Weighed

\* Take leases the first event queued, and nothing is held that was not.
LEMMA TakeWeighs ==
  ASSUME Inductive, Weighed, Take
  PROVE  Weighed'
<1>1. /\ leases' = leases \cup {slots[head]} /\ queued' = queued - 1 /\ queued > 0
      /\ UNCHANGED <<accepted, charge, budget_bytes>>
  BY ZenonT(60) DEF Take, budget
<1>2. queued \in Nat /\ accepted \in Nat
  BY HeldIs, ZenonT(60)
<1>3. slots[head] = accepted - queued + 1
  <2>1. SlotOf(head + 0) = head
    BY SlotFacts, ZenonT(60) DEF Inductive, Typed
  <2>2. slots[SlotOf(head + 0)] = IF 0 < queued THEN accepted - queued + 1 + 0
                                  ELSE NoEvent
    BY JournalAssumption, SMTT(60) DEF Inductive, RingHoldsNewest
  <2> QED BY <1>1, <1>2, <2>1, <2>2, SMTT(60)
<1>4. Queued = Queued' \cup {slots[head]}
  BY <1>1, <1>2, <1>3, SMTT(60) DEF Queued
<1>5. Queued' \cup leases' = Queued \cup leases
  BY <1>1, <1>4, ZenonT(60)
<1>6. BytesWithinBudget'
  BY <1>1, <1>5, ZenonT(60) DEF Weighed, BytesWithinBudget
<1> QED BY <1>1, <1>6, ZenonT(60) DEF Weighed

\* Every step keeps the byte budget.
LEMMA StepWeighs == Inductive /\ Weighed /\ [Next]_vars => Weighed'
<1> SUFFICES ASSUME Inductive, Weighed, [Next]_vars PROVE Weighed'
  BY ZenonT(60)
<1>1. ASSUME UNCHANGED <<charge, accepted, queued, leases, budget_bytes>> PROVE Weighed'
  BY <1>1, ZenonT(60) DEF Weighed, BytesWithinBudget, Queued
<1>2. CASE Added \/ Removed \/ Block
  <2>1. ASSUME NEW why, Fail(why) PROVE Weighed'
    BY <1>1, <2>1, ZenonT(60) DEF Fail, ring, budget
  <2> QED BY <1>2, <2>1, ProducerStep, CommitWeighs, ZenonT(60)
<1>3. CASE Take
  BY <1>3, TakeWeighs, ZenonT(60)
<1>4. CASE Close \/ UNCHANGED vars
  BY <1>1, <1>4, ZenonT(60) DEF Close, vars, ring, budget
<1>5. ASSUME NEW n \in leases, ReleaseBytes(n) PROVE Weighed'
  BY <1>5, ReleaseWeighs, ZenonT(60)
<1>6. ASSUME NEW n \in releasing, ReleaseEvent(n) PROVE Weighed'
  BY <1>1, <1>6, ZenonT(60) DEF ReleaseEvent, ring
<1> QED BY <1>2, <1>3, <1>4, <1>5, <1>6, ZenonT(60) DEF Next

\* For every limit and every set of charges: the byte budget is the weight of
\* the events queued or leased, and never more than max_bytes (Reserve, Charge,
\* ~Charge).
THEOREM BytesAreExact == Spec => []BytesWithinBudget
<1>1. Init => Weighed
  <2> SUFFICES ASSUME Init PROVE Weighed
    BY ZenonT(60)
  <2>1. charge \in Seq(Nat) /\ Len(charge) = 0 /\ accepted = 0
    BY SMTT(60) DEF Init
  <2>2. Queued \cup leases = {}
    BY SMTT(60) DEF Init, Queued
  <2>3. BytesWithinBudget
    BY <2>2, SumEmpty, JournalAssumption, SMTT(60) DEF Init, BytesWithinBudget
  <2> QED BY <2>1, <2>3, ZenonT(60) DEF Weighed
<1>2. Weighed => BytesWithinBudget
  BY ZenonT(60) DEF Weighed
<1> QED BY <1>1, <1>2, InductiveHolds, StepWeighs, PTL DEF Spec

-----------------------------------------------------------------------------
(* The ring implements BoundedLog: its queue is what the ring holds from   *)
(* head on.                                                                *)

Queue == [i \in 1 .. queued |-> slots[SlotOf(head + i - 1)]]

\* The queue is the newest events in order, wherever the ring holds them.
LEMMA QueueIsNewest ==
  ASSUME Inductive
  PROVE  Queue = [i \in 1 .. queued |-> accepted - queued + i]
<1> USE JournalAssumption
<1>1. queued \in Nat /\ accepted \in Nat /\ queued <= max_events /\ head \in Nat
  <2>1. Cardinality(leases) \in Nat /\ Cardinality(releasing) \in Nat
    BY FS_CardinalityType, ZenonT(60) DEF Inductive, LeasesApart
  <2> QED BY <2>1, SMTT(60) DEF Inductive, BudgetCountsLeases, Typed
<1>2. ASSUME NEW i \in 1 .. queued
      PROVE  slots[SlotOf(head + i - 1)] = accepted - queued + i
  <2>1. i - 1 \in 0 .. max_events - 1 /\ i - 1 < queued
    BY <1>1, SMTT(60)
  <2>2. slots[SlotOf(head + (i - 1))] = accepted - queued + 1 + (i - 1)
    BY <2>1, ZenonT(60) DEF Inductive, RingHoldsNewest
  <2>3. /\ head + i - 1 = head + (i - 1)
        /\ accepted - queued + 1 + (i - 1) = accepted - queued + i
    BY <1>1, SMTT(60)
  <2> QED BY <2>2, <2>3, ZenonT(60)
<1> QED BY <1>2, ZenonT(60) DEF Queue

\* Commit appends to the queue and Take removes its head.
LEMMA QueueMoves ==
  ASSUME Inductive, Inductive'
  PROVE  /\ \A bytes : Commit(bytes) => Queue' = Append(Queue, accepted + 1)
         /\ Take => /\ Queue # <<>> /\ Head(Queue) = Len(taken) + 1
                    /\ Queue' = Tail(Queue)
         /\ Len(Queue) = queued /\ Queue \in Seq(Int) /\ Queue' \in Seq(Int)
<1>1. queued \in Nat /\ accepted \in Nat /\ Len(taken) = accepted - queued
  BY ZenonT(60) DEF Inductive, Typed, TakenInOrder
<1>2. Queue = [i \in 1 .. queued |-> accepted - queued + i]
  BY QueueIsNewest, ZenonT(60)
<1>3. Queue' = [i \in 1 .. queued' |-> accepted' - queued' + i]
  <2>1. (Inductive => Queue = [i \in 1 .. queued |-> accepted - queued + i])'
    BY QueueIsNewest, PTL
  <2> QED BY <2>1, ZenonT(60)
<1>4. ASSUME NEW bytes, Commit(bytes)
      PROVE  Queue' = Append(Queue, accepted + 1)
  <2>1. queued' = queued + 1 /\ accepted' = accepted + 1
    BY <1>4, ZenonT(60) DEF Commit
  <2>2. Queue' = [i \in 1 .. queued + 1 |-> accepted - queued + i]
    BY <1>1, <1>3, <2>1, SMTT(60)
  <2> QED BY <1>1, <1>2, <2>2, SMTT(60)
<1>5. ASSUME Take
      PROVE  /\ Queue # <<>> /\ Head(Queue) = Len(taken) + 1
             /\ Queue' = Tail(Queue)
  <2>1. queued' = queued - 1 /\ accepted' = accepted /\ queued > 0
    BY <1>5, ZenonT(60) DEF Take
  <2>2. Queue' = [i \in 1 .. queued - 1 |-> accepted - queued + 1 + i]
    BY <1>1, <1>3, <2>1, SMTT(60)
  <2>3. Queue \in Seq(Int) /\ Len(Queue) = queued /\ Queue # <<>>
    BY <1>1, <1>2, <2>1, SMTT(60)
  <2>4. /\ Head(Queue) = Queue[1]
        /\ Tail(Queue) \in Seq(Int) /\ Len(Tail(Queue)) = queued - 1
        /\ \A i \in 1 .. queued - 1 : Tail(Queue)[i] = Queue[i + 1]
    BY <2>3, HeadTailProperties, SMTT(60)
  <2>5. \A i \in 1 .. queued - 1 : Queue[i + 1] = accepted - queued + 1 + i
    BY <1>1, <1>2, SMTT(60)
  <2>6. /\ Queue' \in Seq(Int) /\ Len(Queue') = queued - 1
        /\ \A i \in 1 .. queued - 1 : Queue'[i] = accepted - queued + 1 + i
    BY <1>1, <2>1, <2>2, SMTT(60)
  <2>7. Queue' = Tail(Queue)
    BY <2>4, <2>5, <2>6, SeqEqual, ZenonT(60)
  <2>8. Queue[1] = Len(taken) + 1
    BY <1>1, <1>2, <2>1, SMTT(60)
  <2> QED BY <2>3, <2>4, <2>7, <2>8, ZenonT(60)
<1>6. Len(Queue) = queued /\ Queue \in Seq(Int)
  BY <1>1, <1>2, SMTT(60)
<1>7. Queue' \in Seq(Int)
  BY <1>3, SMTT(60) DEF Inductive, Typed
<1> QED BY <1>4, <1>5, <1>6, <1>7, ZenonT(60)

LogType(S) ==
  [accepted : Int, queue : Seq(Int), charged : Int, failure : S, closed : BOOLEAN]

\* Logs that agree on every field are equal.
LEMMA LogEqual ==
  ASSUME NEW S, NEW r \in LogType(S), NEW s \in LogType(S),
         r.accepted = s.accepted, r.queue = s.queue, r.charged = s.charged,
         r.failure = s.failure, r.closed = s.closed
  PROVE  r = s
BY SMTT(60) DEF LogType

\* What Taking and Closing do, field by field.
LEMMA LogTaking ==
  ASSUME NEW S, NEW r \in LogType(S), NEW s \in LogType(S), r.queue # <<>>,
         s.accepted = r.accepted, s.charged = r.charged,
         s.queue = Tail(r.queue),
         s.failure = r.failure, s.closed = r.closed
  PROVE  s = [r EXCEPT !.queue = Tail(@)]
<1> DEFINE x == [r EXCEPT !.queue = Tail(@)]
<1>1. Tail(r.queue) \in Seq(Int) BY ZenonT(60) DEF LogType
<1>2. x \in LogType(S) BY <1>1, ZenonT(60) DEF LogType
<1>3. x.closed = r.closed /\ x.failure = r.failure BY ZenonT(60) DEF LogType
<1>4. x.accepted = r.accepted /\ x.charged = r.charged BY ZenonT(60) DEF LogType
<1>5. x.queue = Tail(r.queue) BY ZenonT(60) DEF LogType
<1> HIDE DEF x
<1>6. s = x BY <1>2, <1>3, <1>4, <1>5, LogEqual, ZenonT(60)
<1> QED BY <1>6, ZenonT(60) DEF x

LEMMA LogClosing ==
  ASSUME NEW S, NEW r \in LogType(S), NEW s \in LogType(S),
         s.accepted = r.accepted, s.charged = r.charged, s.queue = r.queue,
         s.failure = r.failure, s.closed = TRUE
  PROVE  s = [r EXCEPT !.closed = TRUE]
<1> DEFINE x == [r EXCEPT !.closed = TRUE]
<1>1. x \in LogType(S) BY ZenonT(60) DEF LogType
<1>2. /\ x.closed = TRUE /\ x.failure = r.failure /\ x.queue = r.queue
      /\ x.accepted = r.accepted /\ x.charged = r.charged
  BY ZenonT(60) DEF LogType
<1> HIDE DEF x
<1>3. s = x BY <1>1, <1>2, LogEqual, ZenonT(60)
<1> QED BY <1>3, ZenonT(60) DEF x

\* A step of the ring is a step of the log it implements, or none.
LEMMA StepRefines ==
  ASSUME Inductive, Inductive', [Next]_vars
  PROVE  [Log!Next]_(Log!vars)
<1> DEFINE log == [accepted |-> accepted, queue |-> Queue,
                   charged |-> budget_events, failure |-> failure,
                   closed |-> closed]
<1>0. /\ Log!vars = <<log, Len(taken)>>
      /\ Log!vars' = <<log', Len(taken')>>
  BY ZenonT(60) DEF Log!vars, Queue
<1>a. /\ log \in LogType({failure})
      /\ log.accepted = accepted /\ log.queue = Queue
      /\ log.charged = budget_events /\ log.failure = failure
      /\ log.closed = closed
  <2>1. Queue \in Seq(Int) BY QueueMoves, ZenonT(60)
  <2> QED BY <2>1, SMTT(60) DEF LogType, Inductive, Typed
<1>b. /\ failure' = failure => log' \in LogType({failure})
      /\ log'.accepted = accepted' /\ log'.queue = Queue'
      /\ log'.charged = budget_events' /\ log'.failure = failure'
      /\ log'.closed = closed'
  <2>1. Queue' \in Seq(Int) BY QueueMoves, ZenonT(60)
  <2> QED BY <2>1, SMTT(60) DEF LogType, Inductive, Typed
<1>1. ASSUME NEW bytes \in Charges, Open, Refusal(bytes) = NoFailure, Commit(bytes)
      PROVE  Log!Record
  <2>1. budget_events < max_events
    BY <1>1, JournalAssumption, SMTT(60) DEF Refusal, NoFailure, Inductive, Typed
  <2>2. Queue' = Append(Queue, accepted + 1)
    BY <1>1, QueueMoves, ZenonT(60)
  <2>3. log' = [log EXCEPT !.accepted = @ + 1, !.charged = @ + 1,
                           !.queue = Append(@, accepted + 1)]
    <3>1. /\ accepted' = accepted + 1 /\ budget_events' = budget_events + 1
          /\ failure' = failure /\ closed' = closed
      BY <1>1, ZenonT(60) DEF Commit
    <3>2. accepted + 1 \in Int BY SMTT(60) DEF Inductive, Typed
    <3> HIDE DEF log
    <3>3. /\ log' \in LogType({failure})
          /\ log'.accepted = log.accepted + 1 /\ log'.charged = log.charged + 1
          /\ log'.queue = Append(log.queue, accepted + 1)
          /\ log'.failure = log.failure /\ log'.closed = log.closed
      BY <1>a, <1>b, <2>2, <3>1, ZenonT(60)
    <3>4. log \in LogType({failure}) BY <1>a, ZenonT(60)
    <3> DEFINE x == [log EXCEPT !.accepted = @ + 1, !.charged = @ + 1,
                                !.queue = Append(@, accepted + 1)]
    <3>5. /\ log.accepted + 1 \in Int /\ log.charged + 1 \in Int
          /\ Append(log.queue, accepted + 1) \in Seq(Int)
      BY <3>2, <3>4, SMTT(60) DEF LogType
    <3>6. x \in LogType({failure}) BY <3>4, <3>5, ZenonT(60) DEF LogType
    <3>7. x.closed = log.closed /\ x.failure = log.failure BY <3>4, ZenonT(60) DEF LogType
    <3>8. x.accepted = log.accepted + 1 BY <3>4, ZenonT(60) DEF LogType
    <3>9. x.charged = log.charged + 1 BY <3>4, ZenonT(60) DEF LogType
    <3>10. x.queue = Append(log.queue, accepted + 1) BY <3>4, ZenonT(60) DEF LogType
    <3> HIDE DEF x
    <3>11. log' = x
      BY <3>3, <3>6, <3>7, <3>8, <3>9, <3>10, LogEqual, ZenonT(60)
    <3> QED BY <3>11, ZenonT(60) DEF x
  <2>4. taken' = taken
    BY <1>1, ZenonT(60) DEF Commit
  <2>5. ~(budget_events >= max_events)
    BY <2>1, JournalAssumption, SMTT(60) DEF Inductive, Typed
  <2> QED
    BY <1>1, <2>1, <2>3, <2>4, <2>5, ZenonT(60)
    DEF Log!Record, Log!LogOpen, Log!Recording, Log!NoFailure, NoFailure, Open, Queue
<1>2. ASSUME NEW why \in {"InvalidPayload", "MissingCoin", "Bytes", "Allocation",
                          "Capacity", "Sequence"}, Open, Fail(why)
      PROVE  Log!Fail
  <2>1. Queue' = Queue
    BY <1>2, ZenonT(60) DEF Fail, Queue, ring
  <2>2. log' = [log EXCEPT !.failure = why]
    BY <1>2, <2>1, SMTT(60) DEF Fail, Open, ring, budget
  <2>3. why \in Log!Failures
    BY ZenonT(60) DEF Log!Failures, Log!ProducerFailures
  <2>4. taken' = taken
    BY <1>2, ZenonT(60) DEF Fail
  <2> QED
    BY <1>2, <2>2, <2>3, <2>4, ZenonT(60)
    DEF Log!Fail, Log!LogOpen, Log!Failing, Log!NoFailure, NoFailure, Open, Queue
<1>3. ASSUME Take PROVE Log!Take
  <2>1. /\ Queue # <<>> /\ Head(Queue) = Len(taken) + 1
        /\ Queue' = Tail(Queue)
    BY <1>3, QueueMoves, ZenonT(60)
  <2>2. log' = [log EXCEPT !.queue = Tail(@)]
    <3>1. /\ accepted' = accepted /\ budget_events' = budget_events
          /\ failure' = failure /\ closed' = closed
      BY <1>3, ZenonT(60) DEF Take, budget
    <3> HIDE DEF log
    <3> QED BY <1>a, <1>b, <2>1, <3>1, LogTaking, ZenonT(60)
  <2>3. Len(taken') = Len(taken) + 1
    BY <1>3, SMTT(60) DEF Take, Inductive, TakenInOrder, Typed
  <2> QED
    BY <1>3, <2>1, <2>2, <2>3, ZenonT(60)
    DEF Log!Take, Log!CanTake, Log!LogOpen, Log!Taking, Log!NoFailure, NoFailure,
        Open, Queue, Take
<1>4. ASSUME NEW n \in leases, ReleaseBytes(n) PROVE UNCHANGED Log!vars
  BY <1>4, <1>0, ZenonT(60) DEF ReleaseBytes, Queue, ring
<1>5. ASSUME NEW n \in releasing, ReleaseEvent(n) PROVE Log!Release
  <2>1. Queue' = Queue
    BY <1>5, ZenonT(60) DEF ReleaseEvent, Queue, ring
  <2>2. log' = [log EXCEPT !.charged = @ - 1]
    BY <1>5, <2>1, SMTT(60) DEF ReleaseEvent, ring
  <2>3. budget_events > Len(Queue)
    <3>1. Cardinality(leases) \in Nat /\ Cardinality(releasing) \in Nat
      BY FS_CardinalityType, ZenonT(60) DEF Inductive, LeasesApart
    <3>2. Cardinality(releasing) # 0
      BY <1>5, FS_EmptySet, ZenonT(60) DEF Inductive, LeasesApart
    <3>3. Len(Queue) = queued
      BY QueueMoves, ZenonT(60)
    <3>4. /\ budget_events = queued + Cardinality(leases) + Cardinality(releasing)
          /\ queued \in Nat
      BY ZenonT(60) DEF Inductive, BudgetCountsLeases, Typed
    <3> QED BY <3>1, <3>2, <3>3, <3>4, SMTT(60)
  <2>4. taken' = taken
    BY <1>5, ZenonT(60) DEF ReleaseEvent
  <2> QED BY <2>2, <2>3, <2>4, ZenonT(60) DEF Log!Release, Log!Releasing, Queue
<1>6. ASSUME Close PROVE Log!Close
  <2>1. Queue' = Queue
    BY <1>6, ZenonT(60) DEF Close, Queue, ring
  <2>2. log' = [log EXCEPT !.closed = TRUE] /\ taken' = taken
    <3>1. /\ accepted' = accepted /\ budget_events' = budget_events
          /\ failure' = failure /\ closed' = TRUE /\ taken' = taken
      BY <1>6, ZenonT(60) DEF Close, ring, budget
    <3> HIDE DEF log
    <3> QED BY <1>a, <1>b, <2>1, <3>1, LogClosing, ZenonT(60)
  <2> QED BY <2>2, ZenonT(60) DEF Log!Close, Log!Closing, Queue
<1>7. CASE UNCHANGED vars
  BY <1>7, <1>0, ZenonT(60) DEF vars, ring, budget, Queue
<1>8. CASE Added \/ Removed \/ Block
  BY <1>1, <1>2, <1>8, ProducerStep, ZenonT(60) DEF Log!Next
<1> QED BY <1>3, <1>4, <1>5, <1>6, <1>7, <1>8, ZenonT(60) DEF Next, Log!Next

\* Whoever uses the journal may rely on BoundedLog: numbered events in order, a
\* budget over queued and leased events, one failure that stops both ends.
THEOREM JournalImplementsLog == Spec => LogSpec
<1>1. Init => Log!Init
  <2> SUFFICES ASSUME Init PROVE Log!Init
    BY ZenonT(60)
  <2>1. Queue = <<>>
    BY SMTT(60) DEF Init, Queue
  <2>2. Len(taken) = 0
    BY ZenonT(60) DEF Init
  <2> QED BY <2>1, <2>2, ZenonT(60)
    DEF Init, Log!Init, Log!EmptyLog, Log!NoFailure, NoFailure, Queue
<1>2. Inductive /\ Inductive' /\ [Next]_vars => [Log!Next]_(Log!vars)
  BY StepRefines, ZenonT(60)
<1> QED BY <1>1, <1>2, InductiveHolds, PTL DEF Spec, LogSpec, Log!Spec
=============================================================================
