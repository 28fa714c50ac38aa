------------------------ MODULE EventEnvelopeProofs ------------------------
(***************************************************************************)
(* Proofs about EventEnvelope for every set of producers, every capacity   *)
(* and every width of the indexes.                                         *)
(***************************************************************************)
EXTENDS EventEnvelope, TLAPS

\* Two indexes less than a capacity apart are in different slots.
LEMMA SlotsDiffer ==
  ASSUME NEW a \in Nat, NEW b \in Nat, a < b, b - a < Capacity
  PROVE  SlotOf(a) # SlotOf(b)
<1>1. Capacity \in Nat \ {0}
  BY EnvelopeAssumption, ZenonT(60)
<1> DEFINE qa == a \div Capacity
           qb == b \div Capacity
<1>2. /\ qa \in Int /\ qb \in Int
      /\ a = Capacity * qa + SlotOf(a) /\ b = Capacity * qb + SlotOf(b)
      /\ SlotOf(a) \in Int /\ SlotOf(b) \in Int
  BY <1>1, SMTT(60) DEF SlotOf
<1> HIDE DEF qa, qb
<1>3. SUFFICES ASSUME SlotOf(a) = SlotOf(b) PROVE FALSE
  BY ZenonT(60)
<1>4. b - a = Capacity * (qb - qa)
  BY <1>1, <1>2, <1>3, SMTT(60)
<1>5. CASE qb - qa <= 0
  <2>1. Capacity * (qb - qa) <= 0
    BY <1>1, <1>2, <1>5, SMTT(60)
  <2> QED BY <2>1, <1>4, SMTT(60)
<1>6. CASE qb - qa >= 1
  <2>1. Capacity * (qb - qa) >= Capacity
    BY <1>1, <1>2, <1>6, SMTT(60)
  <2> QED BY <2>1, <1>1, <1>4, SMTT(60)
<1> QED BY <1>2, <1>5, <1>6, SMTT(60)

\* A slot number is an index of the ring.
LEMMA SlotInRing ==
  ASSUME NEW a \in Nat
  PROVE  SlotOf(a) \in 0 .. Capacity - 1
BY EnvelopeAssumption, SMTT(60) DEF SlotOf

\* What Append does to the length and the elements of a history.
LEMMA AppendFacts ==
  ASSUME NEW S, NEW h \in Seq(S), NEW e \in S
  PROVE  /\ Append(h, e) \in Seq(S)
         /\ Len(Append(h, e)) = Len(h) + 1
         /\ \A i \in 1 .. Len(h) : Append(h, e)[i] = h[i]
         /\ Append(h, e)[Len(h) + 1] = e
BY SMTT(60)

\* Giving up or going on after the second look at the flags.
LEMMA RecheckFlagsPreserves ==
  ASSUME Inductive, NEW p \in Producers, RecheckFlags(p)
  PROVE  Inductive'
<1> USE EnvelopeAssumption
<1> USE DEF NoEvent, NoOwner, ProducerLabels, WorkerLabels, Sequences64, ring,
            counters, flags, producer, worker, history
<1>0. /\ TypeOK /\ ProducersAgree /\ IndexesAgree /\ WorkerAgrees
      /\ RingHoldsPublished /\ DeliveredInOrder
      /\ AtMostOneLateDelivery /\ NonzeroPublished
  BY ZenonT(60) DEF Inductive
<1>1. producer_busy' \in BOOLEAN
  BY <1>0, ZenonT(60) DEF RecheckFlags, TypeOK
<1>2. /\ pc' \in [Producers -> ProducerLabels]
      /\ \A q \in Producers : q # p => pc'[q] = pc[q]
      /\ pc[p] \in HoldsBusy
      /\ pc'[p] \in {"idle", "degrade", "capacity", "fill"}
  BY <1>0, ZenonT(60) DEF RecheckFlags, Goto, TypeOK, HoldsBusy
<1>3. TypeOK'
  BY <1>0, <1>1, <1>2, ZenonT(60) DEF RecheckFlags, TypeOK
<1>4. ProducersAgree'
  <2>1. \A q \in Producers : pc[q] \in HoldsBusy => q = p
    BY <1>0, <1>2, ZenonT(60) DEF ProducersAgree
  <2>2. pc'[p] # "fill"
    BY <1>0, ZenonT(60) DEF RecheckFlags, Goto, TypeOK
  <2>3. UNCHANGED <<sequence, slots, write_index, read_index>>
    BY ZenonT(60) DEF RecheckFlags
  <2>4. ASSUME NEW q \in Producers, pc'[q] \in HoldsBusy
        PROVE  q = p /\ producer_busy' /\ pc'[p] \in {"capacity", "fill"}
    <3>1. q = p /\ pc'[p] \in {"capacity", "fill"}
      BY <1>2, <2>1, <2>4, ZenonT(60) DEF HoldsBusy
    <3>2. producer_busy
      BY <1>0, <1>2, ZenonT(60) DEF ProducersAgree
    <3>3. producer_busy' = producer_busy
      BY <1>0, <3>1, ZenonT(60) DEF RecheckFlags, Goto, TypeOK
    <3> QED BY <3>1, <3>2, <3>3, ZenonT(60)
  <2> QED BY <1>0, <1>2, <2>2, <2>3, <2>4, ZenonT(60) DEF ProducersAgree, HoldsBusy
<1>5. IndexesAgree' /\ WorkerAgrees'
  BY <1>0, ZenonT(60) DEF RecheckFlags, IndexesAgree, WorkerAgrees
<1>6. RingHoldsPublished'
  BY <1>0, ZenonT(60) DEF RecheckFlags, RingHoldsPublished
<1>7. DeliveredInOrder' /\ AtMostOneLateDelivery' /\ NonzeroPublished'
  BY <1>0, ZenonT(60) DEF RecheckFlags, DeliveredInOrder, AtMostOneLateDelivery,
              NonzeroPublished
<1> QED BY <1>3, <1>4, <1>5, <1>6, <1>7, ZenonT(60) DEF Inductive

\* The capacity test: what it lets through has a free slot.
LEMMA CheckCapacityPreserves ==
  ASSUME Inductive, NEW p \in Producers, CheckCapacity(p)
  PROVE  Inductive'
<1> USE EnvelopeAssumption
<1> USE DEF NoEvent, NoOwner, ProducerLabels, WorkerLabels, Sequences64, ring,
            counters, flags, producer, worker, history
<1>0. /\ TypeOK /\ ProducersAgree /\ IndexesAgree /\ WorkerAgrees
      /\ RingHoldsPublished /\ DeliveredInOrder
      /\ AtMostOneLateDelivery /\ NonzeroPublished
  BY ZenonT(60) DEF Inductive
<1>1. producer_busy' \in BOOLEAN
  BY <1>0, ZenonT(60) DEF CheckCapacity, TypeOK
<1>2. /\ pc' \in [Producers -> ProducerLabels]
      /\ \A q \in Producers : q # p => pc'[q] = pc[q]
      /\ pc[p] \in HoldsBusy
      /\ pc'[p] \in {"idle", "degrade", "capacity", "fill"}
  BY <1>0, ZenonT(60) DEF CheckCapacity, Goto, TypeOK, HoldsBusy
<1>3. TypeOK'
  BY <1>0, <1>1, <1>2, ZenonT(60) DEF CheckCapacity, TypeOK
<1>4. ProducersAgree'
  <2>1. \A q \in Producers : pc[q] \in HoldsBusy => q = p
    BY <1>0, <1>2, ZenonT(60) DEF ProducersAgree
  <2>2. pc'[p] = "fill" =>
              write_index < MaxIndex /\ write_index - read_index < Capacity
    BY <1>0, SMTT(60) DEF CheckCapacity, RingFull, Goto, TypeOK
  <2>3. UNCHANGED <<sequence, slots, write_index, read_index>>
    BY ZenonT(60) DEF CheckCapacity
  <2>4. ASSUME NEW q \in Producers, pc'[q] \in HoldsBusy
        PROVE  q = p /\ producer_busy' /\ pc'[p] \in {"capacity", "fill"}
    <3>1. q = p /\ pc'[p] \in {"capacity", "fill"}
      BY <1>2, <2>1, <2>4, ZenonT(60) DEF HoldsBusy
    <3>2. producer_busy
      BY <1>0, <1>2, ZenonT(60) DEF ProducersAgree
    <3>3. producer_busy' = producer_busy
      BY <1>0, <3>1, ZenonT(60) DEF CheckCapacity, Goto, TypeOK
    <3> QED BY <3>1, <3>2, <3>3, ZenonT(60)
  <2> QED BY <1>0, <1>2, <2>2, <2>3, <2>4, ZenonT(60) DEF ProducersAgree, HoldsBusy
<1>5. IndexesAgree' /\ WorkerAgrees'
  BY <1>0, ZenonT(60) DEF CheckCapacity, IndexesAgree, WorkerAgrees
<1>6. RingHoldsPublished'
  BY <1>0, ZenonT(60) DEF CheckCapacity, RingHoldsPublished
<1>7. DeliveredInOrder' /\ AtMostOneLateDelivery' /\ NonzeroPublished'
  BY <1>0, ZenonT(60) DEF CheckCapacity, DeliveredInOrder, AtMostOneLateDelivery,
              NonzeroPublished
<1> QED BY <1>3, <1>4, <1>5, <1>6, <1>7, ZenonT(60) DEF Inductive

\* The catch block of Submit.
LEMMA SubmitExceptionPreserves ==
  ASSUME Inductive, NEW p \in Producers, SubmitException(p)
  PROVE  Inductive'
<1> USE EnvelopeAssumption
<1> USE DEF NoEvent, NoOwner, ProducerLabels, WorkerLabels, Sequences64, ring,
            counters, flags, producer, worker, history
<1>0. /\ TypeOK /\ ProducersAgree /\ IndexesAgree /\ WorkerAgrees
      /\ RingHoldsPublished /\ DeliveredInOrder
      /\ AtMostOneLateDelivery /\ NonzeroPublished
  BY ZenonT(60) DEF Inductive
<1>1. producer_busy' \in BOOLEAN
  BY <1>0, ZenonT(60) DEF SubmitException, TypeOK
<1>2. /\ pc' \in [Producers -> ProducerLabels]
      /\ \A q \in Producers : q # p => pc'[q] = pc[q]
      /\ pc[p] \in HoldsBusy
      /\ pc'[p] \in {"idle", "degrade"}
  BY <1>0, ZenonT(60) DEF SubmitException, Goto, TypeOK, HoldsBusy
<1>3. TypeOK'
  BY <1>0, <1>1, <1>2, ZenonT(60) DEF SubmitException, TypeOK
<1>4. ProducersAgree'
  <2>1. \A q \in Producers : pc[q] \in HoldsBusy => q = p
    BY <1>0, <1>2, ZenonT(60) DEF ProducersAgree
  <2> QED BY <1>0, <1>2, <2>1, ZenonT(60) DEF SubmitException, TypeOK, ProducersAgree, HoldsBusy
<1>5. IndexesAgree' /\ WorkerAgrees'
  BY <1>0, ZenonT(60) DEF SubmitException, IndexesAgree, WorkerAgrees
<1>6. RingHoldsPublished'
  BY <1>0, ZenonT(60) DEF SubmitException, RingHoldsPublished
<1>7. DeliveredInOrder' /\ AtMostOneLateDelivery' /\ NonzeroPublished'
  BY <1>0, ZenonT(60) DEF SubmitException, DeliveredInOrder, AtMostOneLateDelivery,
              NonzeroPublished
<1> QED BY <1>3, <1>4, <1>5, <1>6, <1>7, ZenonT(60) DEF Inductive

\* The counters and the release of the mutex and of producer_busy.
LEMMA PublishCountPreserves ==
  ASSUME Inductive, NEW p \in Producers, PublishCount(p)
  PROVE  Inductive'
<1> USE EnvelopeAssumption
<1> USE DEF NoEvent, NoOwner, ProducerLabels, WorkerLabels, Sequences64, ring,
            counters, flags, producer, worker, history
<1>0. /\ TypeOK /\ ProducersAgree /\ IndexesAgree /\ WorkerAgrees
      /\ RingHoldsPublished /\ DeliveredInOrder
      /\ AtMostOneLateDelivery /\ NonzeroPublished
  BY ZenonT(60) DEF Inductive
<1>1. producer_busy' \in BOOLEAN
  BY <1>0, ZenonT(60) DEF PublishCount, TypeOK
<1>2. /\ pc' \in [Producers -> ProducerLabels]
      /\ \A q \in Producers : q # p => pc'[q] = pc[q]
      /\ pc[p] \in HoldsBusy
      /\ pc'[p] \in {"idle", "degrade"}
  BY <1>0, ZenonT(60) DEF PublishCount, Goto, TypeOK, HoldsBusy
<1>3. TypeOK'
  BY <1>0, <1>1, <1>2, SMTT(60) DEF PublishCount, Notified, TypeOK
<1>4. ProducersAgree'
  <2>1. \A q \in Producers : pc[q] \in HoldsBusy => q = p
    BY <1>0, <1>2, ZenonT(60) DEF ProducersAgree
  <2> QED BY <1>0, <1>2, <2>1, ZenonT(60) DEF PublishCount, TypeOK, ProducersAgree, HoldsBusy
<1>5. IndexesAgree' /\ WorkerAgrees'
  BY <1>0, ZenonT(60) DEF PublishCount, Notified, IndexesAgree, WorkerAgrees
<1>6. RingHoldsPublished'
  BY <1>0, ZenonT(60) DEF PublishCount, Notified, RingHoldsPublished
<1>7. DeliveredInOrder' /\ AtMostOneLateDelivery' /\ NonzeroPublished'
  BY <1>0, ZenonT(60) DEF PublishCount, DeliveredInOrder, AtMostOneLateDelivery,
              NonzeroPublished
<1> QED BY <1>3, <1>4, <1>5, <1>6, <1>7, ZenonT(60) DEF Inductive

\* Emplacing an event: the slot at write_index is no slot of a published event.
LEMMA FillSlotPreserves ==
  ASSUME Inductive, NEW p \in Producers, FillSlot(p)
  PROVE  Inductive'
<1> USE EnvelopeAssumption
<1> USE DEF NoEvent, NoOwner, ProducerLabels, WorkerLabels, Sequences64, ring,
            counters, flags, producer, worker, history
<1>0. /\ TypeOK /\ ProducersAgree /\ IndexesAgree /\ WorkerAgrees
      /\ RingHoldsPublished /\ DeliveredInOrder
      /\ AtMostOneLateDelivery /\ NonzeroPublished
  BY ZenonT(60) DEF Inductive
<1> DEFINE w == SlotOf(write_index)
<1>1. /\ pc[p] = "fill" /\ w \in 0 .. Capacity - 1
      /\ write_index - read_index < Capacity /\ write_index < MaxIndex
      /\ read_index \in Nat /\ write_index \in Nat
  <2>1. read_index \in Nat /\ write_index \in Nat
    BY <1>0, SMTT(60) DEF TypeOK
  <2> QED BY <1>0, <2>1, SlotInRing, ZenonT(60) DEF FillSlot, ProducersAgree
<1>2. /\ pc' \in [Producers -> ProducerLabels]
      /\ \A q \in Producers : q # p => pc'[q] = pc[q]
      /\ producer_busy' \in BOOLEAN
  BY <1>0, ZenonT(60) DEF FillSlot, Goto, TypeOK
<1>3. slots' \in [0 .. Capacity - 1 -> Sequences64]
  BY <1>0, <1>1, ZenonT(60) DEF FillSlot, TypeOK
<1>4. TypeOK'
  BY <1>0, <1>2, <1>3, ZenonT(60) DEF FillSlot, TypeOK
<1>5. ProducersAgree'
  <2>1. \A q \in Producers : pc[q] \in HoldsBusy => q = p
    BY <1>0, <1>1, ZenonT(60) DEF ProducersAgree, HoldsBusy
  <2>2. CASE slots[w] # NoEvent
    <3>1. pc'[p] = "degrade" /\ slots' = slots
      BY <1>0, <2>2, ZenonT(60) DEF FillSlot, Goto, TypeOK
    <3> QED BY <1>0, <1>2, <2>1, <3>1, ZenonT(60)
            DEF FillSlot, ProducersAgree, HoldsBusy
  <2>3. CASE slots[w] = NoEvent
    <3>1. /\ pc'[p] = "publish" /\ producer_busy' = producer_busy
          /\ slots'[w] = sequence[p]
      BY <1>0, <1>1, <2>3, ZenonT(60) DEF FillSlot, Goto, TypeOK
    <3> QED BY <1>0, <1>1, <1>2, <2>1, <3>1, ZenonT(60)
            DEF FillSlot, ProducersAgree, HoldsBusy
  <2> QED BY <2>2, <2>3, ZenonT(60)
<1>6. RingHoldsPublished'
  <2>1. ASSUME NEW i \in read_index .. write_index - 1
        PROVE  slots'[SlotOf(i)] = slots[SlotOf(i)]
    <3>1. SlotOf(i) # w
      BY <1>1, SlotsDiffer, SMTT(60)
    <3>2. SlotOf(i) \in 0 .. Capacity - 1
      BY <1>1, SlotInRing, SMTT(60)
    <3> QED BY <1>0, <3>1, <3>2, ZenonT(60) DEF FillSlot, TypeOK
  <2> QED BY <1>0, <2>1, ZenonT(60) DEF FillSlot, RingHoldsPublished
<1>7. IndexesAgree' /\ WorkerAgrees'
  BY <1>0, ZenonT(60) DEF FillSlot, IndexesAgree, WorkerAgrees
<1>8. DeliveredInOrder' /\ AtMostOneLateDelivery' /\ NonzeroPublished'
  BY <1>0, ZenonT(60) DEF FillSlot, DeliveredInOrder, AtMostOneLateDelivery,
              NonzeroPublished
<1> QED BY <1>4, <1>5, <1>6, <1>7, <1>8, ZenonT(60) DEF Inductive

\* Publishing, or giving the slot back when the flags changed meanwhile.
LEMMA PublishIndexPreserves ==
  ASSUME Inductive, NEW p \in Producers, PublishIndex(p)
  PROVE  Inductive'
<1> USE EnvelopeAssumption
<1> USE DEF NoEvent, NoOwner, ProducerLabels, WorkerLabels, Sequences64, ring,
            counters, flags, producer, worker, history
<1>0. /\ TypeOK /\ ProducersAgree /\ IndexesAgree /\ WorkerAgrees
      /\ RingHoldsPublished /\ DeliveredInOrder
      /\ AtMostOneLateDelivery /\ NonzeroPublished
  BY ZenonT(60) DEF Inductive
<1> DEFINE w == SlotOf(write_index)
<1>1. /\ pc[p] = "publish" /\ w \in 0 .. Capacity - 1
      /\ write_index - read_index < Capacity /\ write_index < MaxIndex
      /\ read_index \in Nat /\ write_index \in Nat
      /\ slots[w] = sequence[p] /\ sequence[p] \in Sequences64 \ {0}
  <2>1. /\ read_index \in Nat /\ write_index \in Nat
        /\ sequence[p] \in Sequences64
    BY <1>0, SMTT(60) DEF TypeOK
  <2> QED BY <1>0, <2>1, SlotInRing, ZenonT(60) DEF PublishIndex, ProducersAgree, HoldsBusy
<1>2. /\ pc' \in [Producers -> ProducerLabels]
      /\ \A q \in Producers : q # p => pc'[q] = pc[q]
      /\ \A q \in Producers : pc[q] \in HoldsBusy => q = p
  BY <1>0, <1>1, ZenonT(60) DEF PublishIndex, Goto, TypeOK, ProducersAgree, HoldsBusy
<1>3. CASE PublishRefused
  <2>1. /\ producer_busy' = FALSE
        /\ slots' = [slots EXCEPT ![w] = NoEvent]
        /\ UNCHANGED <<write_index, wait_mutex, published>>
    BY <1>3, ZenonT(60) DEF PublishIndex, RefusedSlot
  <2>2. pc'[p] = "idle" /\ producer_busy' \in BOOLEAN
    BY <1>0, <1>3, ZenonT(60) DEF PublishIndex, Goto, TypeOK
  <2>3. slots' \in [0 .. Capacity - 1 -> Sequences64]
    BY <1>0, <1>1, <2>1, SMTT(60) DEF TypeOK
  <2>4. TypeOK'
    BY <1>0, <1>2, <2>1, <2>2, <2>3, ZenonT(60) DEF PublishIndex, TypeOK
  <2>5. ProducersAgree'
    BY <1>0, <1>2, <2>1, <2>2, ZenonT(60) DEF PublishIndex, ProducersAgree, HoldsBusy
  <2>6. ASSUME NEW i \in read_index .. write_index - 1
        PROVE  slots'[SlotOf(i)] = slots[SlotOf(i)]
    <3>1. SlotOf(i) # w
      BY <1>1, SlotsDiffer, SMTT(60)
    <3>2. SlotOf(i) \in 0 .. Capacity - 1
      BY <1>1, SlotInRing, SMTT(60)
    <3> QED BY <1>0, <2>1, <3>1, <3>2, ZenonT(60) DEF TypeOK
  <2>7. RingHoldsPublished'
    BY <1>0, <2>1, <2>6, ZenonT(60) DEF PublishIndex, RingHoldsPublished
  <2>8. IndexesAgree' /\ WorkerAgrees'
    BY <1>0, <2>1, ZenonT(60) DEF PublishIndex, IndexesAgree, WorkerAgrees
  <2>9. DeliveredInOrder' /\ AtMostOneLateDelivery' /\ NonzeroPublished'
    BY <1>0, <2>1, ZenonT(60) DEF PublishIndex, DeliveredInOrder,
                      AtMostOneLateDelivery, NonzeroPublished
  <2> QED BY <2>4, <2>5, <2>7, <2>8, <2>9, ZenonT(60) DEF Inductive
<1>4. CASE ~PublishRefused
  <2>1. /\ write_index' = write_index + 1
        /\ published' = Append(published, sequence[p])
        /\ wait_mutex' = p
        /\ UNCHANGED <<slots, producer_busy>>
    BY <1>4, ZenonT(60) DEF PublishIndex
  <2>2. pc'[p] = "count"
    BY <1>0, <1>4, ZenonT(60) DEF PublishIndex, Goto, TypeOK
  <2>3. /\ published \in Seq(Sequences64) /\ sequence[p] \in Sequences64
        /\ Len(published) = write_index
    BY <1>0, <1>1, ZenonT(60) DEF TypeOK, IndexesAgree
  <2>4. /\ published' \in Seq(Sequences64)
        /\ Len(published') = write_index + 1
        /\ \A i \in 1 .. write_index : published'[i] = published[i]
        /\ published'[write_index + 1] = sequence[p]
    BY <2>1, <2>3, AppendFacts, SMTT(60)
  <2>5. TypeOK'
    BY <1>0, <1>1, <1>2, <2>1, <2>4, SMTT(60) DEF PublishIndex, TypeOK
  <2>6. ProducersAgree'
    BY <1>0, <1>1, <1>2, <2>1, <2>2, ZenonT(60)
    DEF PublishIndex, ProducersAgree, HoldsBusy
  <2>7. IndexesAgree'
    <3>1. write_index' = write_index + 1 /\ UNCHANGED <<read_index, wpc>>
      BY <1>0, <2>1, ZenonT(60) DEF PublishIndex
    <3>2. read_index \in Nat /\ write_index \in Nat /\ Capacity \in Nat
      BY <1>0, EnvelopeAssumption, SMTT(60) DEF TypeOK, Sequences64
    <3> QED BY <1>0, <1>1, <2>4, <3>1, <3>2, SMTT(60) DEF IndexesAgree
  <2>8. WorkerAgrees'
    BY <1>0, <1>1, <2>4, SMTT(60) DEF PublishIndex, IndexesAgree, WorkerAgrees, TypeOK
  <2>9. RingHoldsPublished'
    <3> SUFFICES ASSUME NEW i \in read_index .. write_index,
                        ~(wpc = "advance" /\ i = read_index)
                 PROVE  slots[SlotOf(i)] = published'[i + 1]
      <4>1. /\ write_index' - 1 = write_index
            /\ read_index' = read_index /\ slots' = slots /\ wpc' = wpc
        BY <1>1, <2>1, SMTT(60) DEF PublishIndex
      <4> QED BY <4>1, ZenonT(60) DEF RingHoldsPublished
    <3>1. CASE i = write_index
      BY <1>1, <2>4, <3>1, ZenonT(60)
    <3>2. CASE i \in read_index .. write_index - 1
      <4>1. slots[SlotOf(i)] = published[i + 1]
        BY <1>0, <3>2, ZenonT(60) DEF RingHoldsPublished
      <4>2. read_index \in Nat /\ write_index \in Nat
        BY <1>0, EnvelopeAssumption, SMTT(60) DEF TypeOK, Sequences64
      <4>3. i + 1 \in 1 .. write_index
        BY <3>2, <4>2, SMTT(60)
      <4> QED BY <2>4, <4>1, <4>3, ZenonT(60)
    <3> QED BY <1>1, <3>1, <3>2, SMTT(60)
  <2>10. DeliveredInOrder' /\ AtMostOneLateDelivery'
    BY <1>0, <1>1, <2>3, <2>4, SMTT(60)
    DEF PublishIndex, DeliveredInOrder, AtMostOneLateDelivery, TypeOK
  <2>11. NonzeroPublished'
    <3> SUFFICES ASSUME NEW i \in 1 .. write_index + 1
                 PROVE  published'[i] # 0
      BY <2>4, ZenonT(60) DEF NonzeroPublished
    <3>1. CASE i = write_index + 1
      BY <1>1, <2>4, <3>1, ZenonT(60)
    <3>2. CASE i \in 1 .. write_index
      BY <1>0, <2>3, <2>4, <3>2, ZenonT(60) DEF NonzeroPublished
    <3> QED BY <1>1, <3>1, <3>2, SMTT(60)
  <2> QED BY <2>5, <2>6, <2>7, <2>8, <2>9, <2>10, <2>11, ZenonT(60) DEF Inductive
<1> QED BY <1>3, <1>4, ZenonT(60)

\* The worker finds the event published at read_index and empties its slot.
LEMMA TakeSlotPreserves ==
  ASSUME Inductive, TakeSlot
  PROVE  Inductive'
<1> USE EnvelopeAssumption
<1> USE DEF NoEvent, NoOwner, ProducerLabels, WorkerLabels, Sequences64, ring,
            counters, flags, producer, worker, history
<1>0. /\ TypeOK /\ ProducersAgree /\ IndexesAgree /\ WorkerAgrees
      /\ RingHoldsPublished /\ DeliveredInOrder
      /\ AtMostOneLateDelivery /\ NonzeroPublished
  BY ZenonT(60) DEF Inductive
<1> DEFINE r == SlotOf(read_index)
<1>1. /\ wpc = "take" /\ r \in 0 .. Capacity - 1
      /\ read_index \in Nat /\ write_index \in Nat
      /\ read_index < write_index /\ write_index - read_index <= Capacity
      /\ Len(published) = write_index
  <2>1. read_index \in Nat /\ write_index \in Nat
    BY <1>0, SMTT(60) DEF TypeOK
  <2> QED BY <1>0, <2>1, SlotInRing, ZenonT(60) DEF TakeSlot, IndexesAgree
<1>2. slots[r] = published[read_index + 1] /\ slots[r] # NoEvent
  BY <1>0, <1>1, SMTT(60) DEF RingHoldsPublished, NonzeroPublished
<1>3. /\ slots' = [slots EXCEPT ![r] = NoEvent]
      /\ event' = slots[r] /\ wpc' = "advance"
      /\ expected_sequence' = expected_sequence
  BY <1>2, ZenonT(60) DEF TakeSlot
<1>4. slots' \in [0 .. Capacity - 1 -> Sequences64]
  BY <1>0, <1>1, <1>3, SMTT(60) DEF TypeOK
<1>5. TypeOK'
  BY <1>0, <1>1, <1>3, <1>4, ZenonT(60) DEF TakeSlot, TypeOK
<1>6. ASSUME NEW i \in Nat, read_index < i, i - read_index < Capacity
      PROVE  slots'[SlotOf(i)] = slots[SlotOf(i)]
  <2>1. SlotOf(i) # r /\ SlotOf(i) \in 0 .. Capacity - 1
    BY <1>1, <1>6, SlotsDiffer, SlotInRing, ZenonT(60)
  <2> QED BY <1>0, <1>3, <2>1, ZenonT(60) DEF TypeOK
<1>7. ProducersAgree'
  BY <1>0, <1>1, <1>6, ZenonT(60) DEF TakeSlot, ProducersAgree
<1>8. RingHoldsPublished'
  <2> SUFFICES ASSUME NEW i \in read_index .. write_index - 1,
                      i # read_index
               PROVE  slots'[SlotOf(i)] = published[i + 1]
    BY <1>3, ZenonT(60) DEF TakeSlot, RingHoldsPublished
  <2>1. slots[SlotOf(i)] = published[i + 1]
    BY <1>0, <1>1, ZenonT(60) DEF RingHoldsPublished
  <2> QED BY <1>1, <1>6, <2>1, SMTT(60)
<1>9. IndexesAgree' /\ WorkerAgrees'
  BY <1>0, <1>1, <1>2, <1>3, ZenonT(60) DEF TakeSlot, IndexesAgree, WorkerAgrees
<1>10. DeliveredInOrder' /\ AtMostOneLateDelivery' /\ NonzeroPublished'
  BY <1>0, ZenonT(60) DEF TakeSlot, DeliveredInOrder, AtMostOneLateDelivery,
              NonzeroPublished
<1> QED BY <1>5, <1>7, <1>8, <1>9, <1>10, ZenonT(60) DEF Inductive

\* Advancing read_index, and the sequence test.
LEMMA AdvanceReadPreserves ==
  ASSUME Inductive, AdvanceRead
  PROVE  Inductive'
<1> USE EnvelopeAssumption
<1> USE DEF NoEvent, NoOwner, ProducerLabels, WorkerLabels, Sequences64, ring,
            counters, flags, producer, worker, history
<1>0. /\ TypeOK /\ ProducersAgree /\ IndexesAgree /\ WorkerAgrees
      /\ RingHoldsPublished /\ DeliveredInOrder
      /\ AtMostOneLateDelivery /\ NonzeroPublished
  BY ZenonT(60) DEF Inductive
<1>1. TypeOK'
  BY <1>0, SMTT(60) DEF AdvanceRead, WorkerGoto, TypeOK, IndexesAgree
<1>2. ProducersAgree'
  BY <1>0, SMTT(60) DEF AdvanceRead, ProducersAgree, IndexesAgree, TypeOK
<1>3. IndexesAgree'
  BY <1>0, SMTT(60) DEF AdvanceRead, WorkerGoto, IndexesAgree, TypeOK
<1>4. WorkerAgrees'
  BY <1>0, ZenonT(60) DEF AdvanceRead, WorkerGoto, InSequence, WorkerAgrees, TypeOK
<1>5. RingHoldsPublished'
  BY <1>0, SMTT(60) DEF AdvanceRead, WorkerGoto, RingHoldsPublished, TypeOK
<1>6. DeliveredInOrder' /\ AtMostOneLateDelivery' /\ NonzeroPublished'
  BY <1>0, ZenonT(60) DEF AdvanceRead, DeliveredInOrder, AtMostOneLateDelivery,
              NonzeroPublished
<1> QED BY <1>1, <1>2, <1>3, <1>4, <1>5, <1>6, ZenonT(60) DEF Inductive

\* Handing the event over extends the gap-free prefix by its successor.
LEMMA ConsumePreserves ==
  ASSUME Inductive, Consume
  PROVE  Inductive'
<1> USE EnvelopeAssumption
<1> USE DEF NoEvent, NoOwner, ProducerLabels, WorkerLabels, Sequences64, ring,
            counters, flags, producer, worker, history
<1>0. /\ TypeOK /\ ProducersAgree /\ IndexesAgree /\ WorkerAgrees
      /\ RingHoldsPublished /\ DeliveredInOrder
      /\ AtMostOneLateDelivery /\ NonzeroPublished
  BY ZenonT(60) DEF Inductive
<1>1. /\ wpc = "consume" /\ UNCHANGED <<expected_sequence, event>>
      /\ event \in Sequences64 /\ delivered \in Seq(Sequences64)
      /\ event = Len(delivered) + 1 /\ event = published[event]
      /\ read_index = event /\ late = 0
  BY <1>0, SMTT(60) DEF Consume, WorkerGoto, TypeOK, WorkerAgrees,
              AtMostOneLateDelivery
<1>2. ProducersAgree'
  BY <1>0, ZenonT(60) DEF Consume, ProducersAgree
<1>3. NonzeroPublished'
  BY <1>0, ZenonT(60) DEF Consume, NonzeroPublished
<1>4. CASE wpc' = "record"
  <2>1. /\ delivered' = Append(delivered, event)
        /\ late' = IF failed THEN late + 1 ELSE late
    BY <1>4, ZenonT(60) DEF Consume, WorkerGoto
  <2>2. /\ delivered' \in Seq(Sequences64)
        /\ Len(delivered') = Len(delivered) + 1
        /\ \A i \in 1 .. Len(delivered) : delivered'[i] = delivered[i]
        /\ delivered'[Len(delivered) + 1] = event
    BY <1>1, <2>1, AppendFacts, SMTT(60)
  <2>3. late' \in {0, 1} /\ (late' = 1 => failed)
    BY <1>1, <2>1, SMTT(60)
  <2>4. TypeOK'
    BY <1>0, <1>1, <1>4, <2>2, <2>3, SMTT(60) DEF Consume, TypeOK
  <2>5. DeliveredInOrder'
    <3>1. /\ published' = published /\ Len(published) \in Nat
          /\ Len(delivered) \in Nat /\ Len(delivered) + 1 <= Len(published)
      BY <1>0, <1>1, SMTT(60) DEF Consume, IndexesAgree, TypeOK
    <3>2. ASSUME NEW i \in 1 .. Len(delivered) + 1
          PROVE  delivered'[i] = i /\ published[i] = i
      <4>1. CASE i = Len(delivered) + 1
        BY <1>1, <2>2, <4>1, ZenonT(60)
      <4>2. CASE i \in 1 .. Len(delivered)
        BY <1>0, <2>2, <4>2, ZenonT(60) DEF DeliveredInOrder
      <4> QED BY <3>1, <4>1, <4>2, SMTT(60)
    <3> QED BY <2>2, <3>1, <3>2, ZenonT(60) DEF DeliveredInOrder
  <2>6. IndexesAgree' /\ WorkerAgrees'
    BY <1>0, <1>1, <1>4, <2>2, <2>3, ZenonT(60)
    DEF Consume, IndexesAgree, WorkerAgrees, TypeOK
  <2>7. RingHoldsPublished' /\ AtMostOneLateDelivery'
    BY <1>0, <1>1, <1>4, <2>3, SMTT(60)
    DEF Consume, RingHoldsPublished, AtMostOneLateDelivery
  <2> QED BY <1>2, <1>3, <2>4, <2>5, <2>6, <2>7, ZenonT(60) DEF Inductive
<1>5. CASE wpc' = "degrade"
  <2>1. UNCHANGED <<delivered, late>>
    BY <1>5, ZenonT(60) DEF Consume, WorkerGoto
  <2>2. TypeOK' /\ DeliveredInOrder'
    BY <1>0, <1>1, <1>5, <2>1, ZenonT(60) DEF Consume, TypeOK, DeliveredInOrder
  <2>3. IndexesAgree' /\ WorkerAgrees'
    BY <1>0, <1>1, <1>5, <2>1, ZenonT(60) DEF Consume, IndexesAgree, WorkerAgrees
  <2>4. RingHoldsPublished' /\ AtMostOneLateDelivery'
    BY <1>0, <1>1, <1>5, <2>1, ZenonT(60)
    DEF Consume, RingHoldsPublished, AtMostOneLateDelivery
  <2> QED BY <1>2, <1>3, <2>2, <2>3, <2>4, ZenonT(60) DEF Inductive
<1> QED BY <1>4, <1>5, ZenonT(60) DEF Consume, WorkerGoto

-----------------------------------------------------------------------------
\* The actions of a producer, and of the worker and the owner, that the lemmas
\* above leave out: none of them moves an event.
SubmitQuietly(p) ==
  \/ SubmitEnter(p) \/ AcquireProducer(p)
  \/ MarkDegraded(p) \/ MarkStateDegraded(p)

RunQuietly ==
  \/ WorkerReady \/ LoopCheck \/ LoadIndexes \/ EmptyCheck \/ WaitForWork
  \/ SpuriousWakeup \/ WorkerException \/ RecordProcessed \/ WorkerDegrade
  \/ WorkerExit \/ Owner

\* The inductive invariant but for the types.
Agreement ==
  /\ ProducersAgree /\ IndexesAgree /\ WorkerAgrees /\ RingHoldsPublished
  /\ DeliveredInOrder /\ AtMostOneLateDelivery /\ NonzeroPublished

\* A producer's quiet actions keep every variable in its type.
LEMMA SubmitTyped ==
  ASSUME TypeOK, NEW p \in Producers, SubmitQuietly(p)
  PROVE  TypeOK'
<1> USE EnvelopeAssumption
<1> USE DEF TypeOK, ProducerLabels, WorkerLabels, HandleLabels, Sequences64,
            NoEvent, NoOwner, ring, counters, flags, producer, worker, history
<1>1. CASE SubmitEnter(p)
  BY <1>1, SMTT(60) DEF SubmitEnter, Goto
<1>2. CASE AcquireProducer(p)
  BY <1>2, SMTT(60) DEF AcquireProducer, Goto
<1>3. CASE MarkDegraded(p)
  BY <1>3, SMTT(60) DEF MarkDegraded, Goto
<1>4. CASE MarkStateDegraded(p)
  BY <1>4, ZenonT(60) DEF MarkStateDegraded, Goto, Notified
<1> QED BY <1>1, <1>2, <1>3, <1>4, ZenonT(60) DEF SubmitQuietly

\* So do the worker's and the owner's.
LEMMA RunTyped ==
  ASSUME TypeOK, RunQuietly
  PROVE  TypeOK'
<1> USE EnvelopeAssumption
<1> USE DEF TypeOK, ProducerLabels, WorkerLabels, HandleLabels, Sequences64,
            NoEvent, NoOwner, ring, counters, flags, producer, worker, history
<1>1. CASE WorkerReady
  BY <1>1, ZenonT(60) DEF WorkerReady, WorkerGoto
<1>2. CASE LoopCheck
  BY <1>2, ZenonT(60) DEF LoopCheck, WorkerGoto
<1>3. CASE LoadIndexes
  BY <1>3, ZenonT(60) DEF LoadIndexes, WorkerGoto
<1>4. CASE EmptyCheck
  BY <1>4, ZenonT(60) DEF EmptyCheck, WorkerGoto
<1>5. CASE WaitForWork
  BY <1>5, ZenonT(60) DEF WaitForWork, WorkerGoto
<1>6. CASE SpuriousWakeup
  BY <1>6, ZenonT(60) DEF SpuriousWakeup, WorkerGoto
<1>7. CASE WorkerException
  BY <1>7, ZenonT(60) DEF WorkerException, WorkerGoto
<1>8. CASE RecordProcessed
  BY <1>8, SMTT(60) DEF RecordProcessed, SequenceExhausted
<1>9. CASE WorkerDegrade
  BY <1>9, ZenonT(60) DEF WorkerDegrade, WorkerGoto
<1>10. CASE WorkerExit
  BY <1>10, ZenonT(60) DEF WorkerExit, WorkerGoto
<1>11. CASE CreateReady
  BY <1>11, ZenonT(60) DEF CreateReady
<1>12. CASE CreateFails
  BY <1>12, ZenonT(60) DEF CreateFails, Notified
<1>13. CASE ShutdownBegin
  BY <1>13, ZenonT(60) DEF ShutdownBegin, Notified
<1>14. CASE ShutdownJoin
  BY <1>14, ZenonT(60) DEF ShutdownJoin
<1>15. CASE ShutdownGivesUp
  BY <1>15, ZenonT(60) DEF ShutdownGivesUp
<1>16. CASE ContainThread
  BY <1>16, ZenonT(60) DEF ContainThread, Notified
<1> HIDE DEF TypeOK
<1> QED BY <1>1, <1>2, <1>3, <1>4, <1>5, <1>6, <1>7, <1>8, <1>9, <1>10,
           <1>11, <1>12, <1>13, <1>14, <1>15, <1>16, ZenonT(60)
        DEF RunQuietly, Owner

\* A producer's quiet actions preserve the rest of the invariant.
LEMMA SubmitAgrees ==
  ASSUME Inductive, NEW p \in Producers, SubmitQuietly(p)
  PROVE  Agreement'
<1> USE EnvelopeAssumption
<1> USE DEF Inductive, Agreement, TypeOK, ProducersAgree, IndexesAgree,
            WorkerAgrees, RingHoldsPublished, DeliveredInOrder,
            AtMostOneLateDelivery, NonzeroPublished, HoldsBusy,
            ProducerLabels, WorkerLabels, HandleLabels, Sequences64, NoEvent,
            NoOwner, ring, counters, flags, producer, worker, history
<1>1. CASE SubmitEnter(p)
  <2>1. ProducersAgree' BY <1>1, SMTT(60) DEF SubmitEnter, Goto
  <2>2. WorkerAgrees' BY <1>1, ZenonT(60) DEF SubmitEnter, Goto
  <2>3. RingHoldsPublished' BY <1>1, ZenonT(60) DEF SubmitEnter, Goto
  <2>4. IndexesAgree' BY <1>1, ZenonT(60) DEF SubmitEnter, Goto
  <2> QED BY <1>1, <2>1, <2>2, <2>3, <2>4, ZenonT(60) DEF SubmitEnter, Goto
<1>2. CASE AcquireProducer(p)
  <2>1. ProducersAgree' BY <1>2, ZenonT(60) DEF AcquireProducer, Goto
  <2>2. WorkerAgrees' BY <1>2, ZenonT(60) DEF AcquireProducer, Goto
  <2>3. RingHoldsPublished' BY <1>2, ZenonT(60) DEF AcquireProducer, Goto
  <2>4. IndexesAgree' BY <1>2, ZenonT(60) DEF AcquireProducer, Goto
  <2> QED BY <1>2, <2>1, <2>2, <2>3, <2>4, ZenonT(60) DEF AcquireProducer, Goto
<1>3. CASE MarkDegraded(p)
  <2>1. ProducersAgree' BY <1>3, ZenonT(60) DEF MarkDegraded, Goto
  <2>2. WorkerAgrees' BY <1>3, ZenonT(60) DEF MarkDegraded, Goto
  <2>3. RingHoldsPublished' BY <1>3, ZenonT(60) DEF MarkDegraded, Goto
  <2>4. IndexesAgree' BY <1>3, ZenonT(60) DEF MarkDegraded, Goto
  <2> QED BY <1>3, <2>1, <2>2, <2>3, <2>4, ZenonT(60) DEF MarkDegraded, Goto
<1>4. CASE MarkStateDegraded(p)
  <2>1. ProducersAgree' BY <1>4, ZenonT(60) DEF MarkStateDegraded, Goto, Notified
  <2>2. WorkerAgrees' BY <1>4, ZenonT(60) DEF MarkStateDegraded, Goto, Notified
  <2>3. RingHoldsPublished' BY <1>4, ZenonT(60) DEF MarkStateDegraded, Goto, Notified
  <2>4. IndexesAgree' BY <1>4, ZenonT(60) DEF MarkStateDegraded, Goto, Notified
  <2> QED BY <1>4, <2>1, <2>2, <2>3, <2>4, ZenonT(60) DEF MarkStateDegraded, Goto, Notified
<1> HIDE DEF Agreement, Inductive
<1> QED BY <1>1, <1>2, <1>3, <1>4, ZenonT(60) DEF SubmitQuietly

\* So do the worker's and the owner's.
LEMMA RunAgrees ==
  ASSUME Inductive, RunQuietly
  PROVE  Agreement'
<1> USE EnvelopeAssumption
<1> USE DEF Inductive, Agreement, TypeOK, ProducersAgree, IndexesAgree,
            WorkerAgrees, RingHoldsPublished, DeliveredInOrder,
            AtMostOneLateDelivery, NonzeroPublished, HoldsBusy,
            ProducerLabels, WorkerLabels, HandleLabels, Sequences64, NoEvent,
            NoOwner, ring, counters, flags, producer, worker, history
<1>1. CASE WorkerReady
  <2>1. ProducersAgree' BY <1>1, ZenonT(60) DEF WorkerReady, WorkerGoto
  <2>2. WorkerAgrees' BY <1>1, ZenonT(60) DEF WorkerReady, WorkerGoto
  <2>3. RingHoldsPublished' BY <1>1, ZenonT(60) DEF WorkerReady, WorkerGoto
  <2>4. IndexesAgree' BY <1>1, ZenonT(60) DEF WorkerReady, WorkerGoto
  <2> QED BY <1>1, <2>1, <2>2, <2>3, <2>4, ZenonT(60) DEF WorkerReady, WorkerGoto
<1>2. CASE LoopCheck
  <2>1. ProducersAgree' BY <1>2, ZenonT(60) DEF LoopCheck, WorkerGoto
  <2>2. WorkerAgrees' BY <1>2, ZenonT(60) DEF LoopCheck, WorkerGoto
  <2>3. RingHoldsPublished' BY <1>2, ZenonT(60) DEF LoopCheck, WorkerGoto
  <2>4. IndexesAgree' BY <1>2, ZenonT(60) DEF LoopCheck, WorkerGoto
  <2> QED BY <1>2, <2>1, <2>2, <2>3, <2>4, ZenonT(60) DEF LoopCheck, WorkerGoto
<1>3. CASE LoadIndexes
  <2>1. ProducersAgree' BY <1>3, ZenonT(60) DEF LoadIndexes, WorkerGoto
  <2>2. WorkerAgrees' BY <1>3, ZenonT(60) DEF LoadIndexes, WorkerGoto
  <2>3. RingHoldsPublished' BY <1>3, ZenonT(60) DEF LoadIndexes, WorkerGoto
  <2>4. IndexesAgree'
    <3>1. UNCHANGED <<published, read_index, write_index>>
      BY <1>3, ZenonT(60) DEF LoadIndexes
    <3>2. wpc' = IF read_index = write_index THEN "empty" ELSE "take"
      BY <1>3, ZenonT(60) DEF LoadIndexes, WorkerGoto
    <3> QED BY <3>1, <3>2, SMTT(60)
  <2> QED BY <1>3, <2>1, <2>2, <2>3, <2>4, ZenonT(60) DEF LoadIndexes, WorkerGoto
<1>4. CASE EmptyCheck
  <2>1. ProducersAgree' BY <1>4, ZenonT(60) DEF EmptyCheck, WorkerGoto
  <2>2. WorkerAgrees' BY <1>4, ZenonT(60) DEF EmptyCheck, WorkerGoto
  <2>3. RingHoldsPublished' BY <1>4, ZenonT(60) DEF EmptyCheck, WorkerGoto
  <2>4. IndexesAgree' BY <1>4, ZenonT(60) DEF EmptyCheck, WorkerGoto
  <2> QED BY <1>4, <2>1, <2>2, <2>3, <2>4, ZenonT(60) DEF EmptyCheck, WorkerGoto
<1>5. CASE WaitForWork
  <2>1. ProducersAgree' BY <1>5, ZenonT(60) DEF WaitForWork, WorkerGoto
  <2>2. WorkerAgrees' BY <1>5, ZenonT(60) DEF WaitForWork, WorkerGoto
  <2>3. RingHoldsPublished' BY <1>5, ZenonT(60) DEF WaitForWork, WorkerGoto
  <2>4. IndexesAgree' BY <1>5, ZenonT(60) DEF WaitForWork, WorkerGoto
  <2> QED BY <1>5, <2>1, <2>2, <2>3, <2>4, ZenonT(60) DEF WaitForWork, WorkerGoto
<1>6. CASE SpuriousWakeup
  <2>1. ProducersAgree' BY <1>6, ZenonT(60) DEF SpuriousWakeup, WorkerGoto
  <2>2. WorkerAgrees' BY <1>6, ZenonT(60) DEF SpuriousWakeup, WorkerGoto
  <2>3. RingHoldsPublished' BY <1>6, ZenonT(60) DEF SpuriousWakeup, WorkerGoto
  <2>4. IndexesAgree' BY <1>6, ZenonT(60) DEF SpuriousWakeup, WorkerGoto
  <2> QED BY <1>6, <2>1, <2>2, <2>3, <2>4, ZenonT(60) DEF SpuriousWakeup, WorkerGoto
<1>7. CASE WorkerException
  <2>1. ProducersAgree' BY <1>7, ZenonT(60) DEF WorkerException, WorkerGoto
  <2>2. WorkerAgrees' BY <1>7, ZenonT(60) DEF WorkerException, WorkerGoto
  <2>3. RingHoldsPublished' BY <1>7, ZenonT(60) DEF WorkerException, WorkerGoto
  <2>4. IndexesAgree' BY <1>7, ZenonT(60) DEF WorkerException, WorkerGoto
  <2> QED BY <1>7, <2>1, <2>2, <2>3, <2>4, ZenonT(60) DEF WorkerException, WorkerGoto
<1>8. CASE RecordProcessed
  <2>1. ProducersAgree' BY <1>8, ZenonT(60) DEF RecordProcessed, SequenceExhausted
  <2>2. WorkerAgrees' BY <1>8, ZenonT(60) DEF RecordProcessed, SequenceExhausted
  <2>3. RingHoldsPublished' BY <1>8, ZenonT(60) DEF RecordProcessed, SequenceExhausted
  <2>4. IndexesAgree' BY <1>8, ZenonT(60) DEF RecordProcessed, SequenceExhausted
  <2> QED BY <1>8, <2>1, <2>2, <2>3, <2>4, ZenonT(60) DEF RecordProcessed, SequenceExhausted
<1>9. CASE WorkerDegrade
  <2>1. ProducersAgree' BY <1>9, ZenonT(60) DEF WorkerDegrade, WorkerGoto
  <2>2. WorkerAgrees' BY <1>9, ZenonT(60) DEF WorkerDegrade, WorkerGoto
  <2>3. RingHoldsPublished' BY <1>9, ZenonT(60) DEF WorkerDegrade, WorkerGoto
  <2>4. IndexesAgree' BY <1>9, ZenonT(60) DEF WorkerDegrade, WorkerGoto
  <2> QED BY <1>9, <2>1, <2>2, <2>3, <2>4, ZenonT(60) DEF WorkerDegrade, WorkerGoto
<1>10. CASE WorkerExit
  <2>1. ProducersAgree' BY <1>10, ZenonT(60) DEF WorkerExit, WorkerGoto
  <2>2. WorkerAgrees' BY <1>10, ZenonT(60) DEF WorkerExit, WorkerGoto
  <2>3. RingHoldsPublished' BY <1>10, ZenonT(60) DEF WorkerExit, WorkerGoto
  <2>4. IndexesAgree' BY <1>10, ZenonT(60) DEF WorkerExit, WorkerGoto
  <2> QED BY <1>10, <2>1, <2>2, <2>3, <2>4, ZenonT(60) DEF WorkerExit, WorkerGoto
<1>11. CASE CreateReady
  <2>1. ProducersAgree' BY <1>11, ZenonT(60) DEF CreateReady
  <2>2. WorkerAgrees' BY <1>11, ZenonT(60) DEF CreateReady
  <2>3. RingHoldsPublished' BY <1>11, ZenonT(60) DEF CreateReady
  <2>4. IndexesAgree' BY <1>11, ZenonT(60) DEF CreateReady
  <2> QED BY <1>11, <2>1, <2>2, <2>3, <2>4, ZenonT(60) DEF CreateReady
<1>12. CASE CreateFails
  <2>1. ProducersAgree' BY <1>12, ZenonT(60) DEF CreateFails, Notified
  <2>2. WorkerAgrees' BY <1>12, ZenonT(60) DEF CreateFails, Notified
  <2>3. RingHoldsPublished' BY <1>12, ZenonT(60) DEF CreateFails, Notified
  <2>4. IndexesAgree' BY <1>12, ZenonT(60) DEF CreateFails, Notified
  <2> QED BY <1>12, <2>1, <2>2, <2>3, <2>4, ZenonT(60) DEF CreateFails, Notified
<1>13. CASE ShutdownBegin
  <2>1. ProducersAgree' BY <1>13, ZenonT(60) DEF ShutdownBegin, Notified
  <2>2. WorkerAgrees' BY <1>13, ZenonT(60) DEF ShutdownBegin, Notified
  <2>3. RingHoldsPublished' BY <1>13, ZenonT(60) DEF ShutdownBegin, Notified
  <2>4. IndexesAgree' BY <1>13, ZenonT(60) DEF ShutdownBegin, Notified
  <2> QED BY <1>13, <2>1, <2>2, <2>3, <2>4, ZenonT(60) DEF ShutdownBegin, Notified
<1>14. CASE ShutdownJoin
  <2>1. ProducersAgree' BY <1>14, ZenonT(60) DEF ShutdownJoin
  <2>2. WorkerAgrees' BY <1>14, ZenonT(60) DEF ShutdownJoin
  <2>3. RingHoldsPublished' BY <1>14, ZenonT(60) DEF ShutdownJoin
  <2>4. IndexesAgree' BY <1>14, ZenonT(60) DEF ShutdownJoin
  <2> QED BY <1>14, <2>1, <2>2, <2>3, <2>4, ZenonT(60) DEF ShutdownJoin
<1>15. CASE ShutdownGivesUp
  <2>1. ProducersAgree' BY <1>15, ZenonT(60) DEF ShutdownGivesUp
  <2>2. WorkerAgrees' BY <1>15, ZenonT(60) DEF ShutdownGivesUp
  <2>3. RingHoldsPublished' BY <1>15, ZenonT(60) DEF ShutdownGivesUp
  <2>4. IndexesAgree' BY <1>15, ZenonT(60) DEF ShutdownGivesUp
  <2> QED BY <1>15, <2>1, <2>2, <2>3, <2>4, ZenonT(60) DEF ShutdownGivesUp
<1>16. CASE ContainThread
  <2>1. ProducersAgree' BY <1>16, ZenonT(60) DEF ContainThread, Notified
  <2>2. WorkerAgrees' BY <1>16, ZenonT(60) DEF ContainThread, Notified
  <2>3. RingHoldsPublished' BY <1>16, ZenonT(60) DEF ContainThread, Notified
  <2>4. IndexesAgree' BY <1>16, ZenonT(60) DEF ContainThread, Notified
  <2> QED BY <1>16, <2>1, <2>2, <2>3, <2>4, ZenonT(60) DEF ContainThread, Notified
<1> HIDE DEF Agreement, Inductive
<1> QED BY <1>1, <1>2, <1>3, <1>4, <1>5, <1>6, <1>7, <1>8, <1>9, <1>10,
           <1>11, <1>12, <1>13, <1>14, <1>15, <1>16, ZenonT(60)
        DEF RunQuietly, Owner

\* Each step of Submit, RunWorker, Create and Shutdown keeps the ring, the
\* threads and the histories related as Inductive says.
LEMMA StepPreserves == Inductive /\ [Next]_vars => Inductive'
<1> SUFFICES ASSUME Inductive, [Next]_vars
             PROVE  Inductive'
  BY ZenonT(60)
<1>1. ASSUME NEW p \in Producers, SubmitQuietly(p) PROVE Inductive'
  BY <1>1, SubmitTyped, SubmitAgrees, ZenonT(60) DEF Inductive, Agreement
<1>2. ASSUME RunQuietly PROVE Inductive'
  BY <1>2, RunTyped, RunAgrees, ZenonT(60) DEF Inductive, Agreement
<1>3. CASE UNCHANGED vars
  <2> USE DEF Inductive, vars, ring, counters, flags, producer, worker, history
  <2>1. TypeOK' BY <1>3, ZenonT(60) DEF TypeOK
  <2>2. ProducersAgree' BY <1>3, ZenonT(60) DEF ProducersAgree
  <2>3. IndexesAgree' BY <1>3, ZenonT(60) DEF IndexesAgree
  <2>4. WorkerAgrees' BY <1>3, ZenonT(60) DEF WorkerAgrees
  <2>5. RingHoldsPublished' BY <1>3, ZenonT(60) DEF RingHoldsPublished
  <2>6. DeliveredInOrder' BY <1>3, ZenonT(60) DEF DeliveredInOrder
  <2>7. AtMostOneLateDelivery' /\ NonzeroPublished'
    BY <1>3, ZenonT(60) DEF AtMostOneLateDelivery, NonzeroPublished
  <2> QED BY <2>1, <2>2, <2>3, <2>4, <2>5, <2>6, <2>7, ZenonT(60)
<1> QED
  BY <1>1, <1>2, <1>3,
     RecheckFlagsPreserves, CheckCapacityPreserves, FillSlotPreserves,
     PublishIndexPreserves, PublishCountPreserves,
     SubmitExceptionPreserves, TakeSlotPreserves, AdvanceReadPreserves,
     ConsumePreserves, ZenonT(60)
  DEF Next, Submit, RunWorker, SubmitQuietly, RunQuietly

\* Before the worker started nothing is in the ring and nothing happened.
LEMMA InitInductive == Init => Inductive
<1> SUFFICES ASSUME Init PROVE Inductive
  BY ZenonT(60)
<1> USE EnvelopeAssumption
<1>1. TypeOK
  BY SMTT(60) DEF Init, TypeOK, ProducerLabels, WorkerLabels, HandleLabels,
         Sequences64, NoEvent, NoOwner
<1>2. ProducersAgree
  BY ZenonT(60) DEF Init, ProducersAgree, HoldsBusy
<1>3. IndexesAgree /\ WorkerAgrees
  BY SMTT(60) DEF Init, IndexesAgree, WorkerAgrees
<1>4. /\ RingHoldsPublished /\ DeliveredInOrder
      /\ AtMostOneLateDelivery /\ NonzeroPublished
  BY SMTT(60) DEF Init, RingHoldsPublished, DeliveredInOrder,
         AtMostOneLateDelivery, NonzeroPublished
<1> QED BY <1>1, <1>2, <1>3, <1>4, ZenonT(60) DEF Inductive

\* The relation between the ring, its threads and the histories holds in
\* every state of every envelope.
THEOREM InductiveHolds == Spec => []Inductive
<1>1. Init => Inductive
  BY InitInductive, ZenonT(60)
<1>2. Inductive /\ [Next]_vars => Inductive'
  BY StepPreserves, ZenonT(60)
<1> QED BY <1>1, <1>2, PTL DEF Spec

\* SharedState, the threads and the owner hold values of their types: no
\* index and no sequence number wraps around at UINT64_MAX.
THEOREM TypeCorrect == Spec => []TypeOK
<1>1. Inductive => TypeOK
  BY ZenonT(60) DEF Inductive
<1> QED BY <1>1, InductiveHolds, PTL

\* No two threads touch one slot at the same time.
THEOREM SlotsExclusive == Spec => []NoSlotRace
<1>1. Inductive => NoSlotRace
  <2> SUFFICES ASSUME Inductive PROVE NoSlotRace
    BY ZenonT(60)
  <2>1. \A p, q \in SlotOwner : p = q
    BY ZenonT(60) DEF Inductive, ProducersAgree, SlotOwner, HoldsBusy
  <2>2. ASSUME SlotOwner # {}, wpc = "take"
        PROVE  SlotOf(write_index) # SlotOf(read_index)
    <3>1. read_index \in Nat /\ write_index \in Nat
      BY EnvelopeAssumption, SMTT(60) DEF Inductive, TypeOK, Sequences64
    <3>2. read_index < write_index /\ write_index - read_index < Capacity
      BY <2>2, ZenonT(60) DEF Inductive, IndexesAgree, ProducersAgree, SlotOwner
    <3> QED BY <3>1, <3>2, SlotsDiffer, ZenonT(60)
  <2> QED BY <2>1, <2>2, ZenonT(60) DEF NoSlotRace
<1> QED BY <1>1, InductiveHolds, PTL

\* The worker never meets an empty or a wrong slot below write_index.
THEOREM RingIntact == Spec => []RingHoldsPublished
<1>1. Inductive => RingHoldsPublished
  BY ZenonT(60) DEF Inductive
<1> QED BY <1>1, InductiveHolds, PTL

\* The consumer sees the gap-free prefix 1, 2, 3, ... of what was published.
THEOREM InOrder == Spec => []DeliveredInOrder
<1>1. Inductive => DeliveredInOrder
  BY ZenonT(60) DEF Inductive
<1> QED BY <1>1, InductiveHolds, PTL

\* At most the event already taken reaches the consumer after a failure.
THEOREM OneLateDelivery == Spec => []AtMostOneLateDelivery
<1>1. Inductive => AtMostOneLateDelivery
  BY ZenonT(60) DEF Inductive
<1> QED BY <1>1, InductiveHolds, PTL

\* A failed or a stopping envelope stays so and accepts nothing more.
THEOREM StaysClosed == Spec => FailClosed
<1>1. Inductive /\ [Next]_vars =>
        [/\ failed => failed'
         /\ stopping => stopping'
         /\ failed \/ stopping => published' = published]_vars
  <2> USE DEF ring, counters, flags, producer, worker, history
  <2> SUFFICES ASSUME Inductive, Next
               PROVE  /\ failed => failed'
                      /\ stopping => stopping'
                      /\ failed \/ stopping => published' = published
    BY ZenonT(60)
  <2>1. ASSUME NEW p \in Producers, Submit(p)
        PROVE  /\ failed => failed'
               /\ stopping => stopping'
               /\ failed \/ stopping => published' = published
    <3>1. CASE SubmitEnter(p) \/ AcquireProducer(p)
      <4>1. UNCHANGED <<failed, stopping, published>>
        BY <3>1, ZenonT(60) DEF SubmitEnter, AcquireProducer
      <4> QED BY <4>1, ZenonT(60)
    <3>2. CASE RecheckFlags(p) \/ CheckCapacity(p)
      <4>1. UNCHANGED <<failed, stopping, published>>
        BY <3>2, ZenonT(60) DEF RecheckFlags, CheckCapacity
      <4> QED BY <4>1, ZenonT(60)
    <3>3. CASE FillSlot(p)
      <4>1. UNCHANGED <<failed, stopping, published>>
        BY <3>3, ZenonT(60) DEF FillSlot
      <4> QED BY <4>1, ZenonT(60)
    <3>4. CASE PublishIndex(p)
      BY <3>4, ZenonT(60) DEF PublishIndex, PublishRefused
    <3>5. CASE PublishCount(p) \/ SubmitException(p) \/ MarkDegraded(p)
      <4>1. UNCHANGED <<failed, stopping, published>>
        BY <3>5, ZenonT(60) DEF PublishCount, SubmitException, MarkDegraded
      <4> QED BY <4>1, ZenonT(60)
    <3>6. CASE MarkStateDegraded(p)
      BY <3>6, ZenonT(60) DEF MarkStateDegraded
    <3> QED BY <2>1, <3>1, <3>2, <3>3, <3>4, <3>5, <3>6, ZenonT(60) DEF Submit
  <2>2. CASE RunWorker
    <3>1. CASE WorkerReady \/ LoopCheck \/ LoadIndexes \/ EmptyCheck
      <4>1. UNCHANGED <<failed, stopping, published>>
        BY <3>1, ZenonT(60) DEF WorkerReady, LoopCheck, LoadIndexes, EmptyCheck
      <4> QED BY <4>1, ZenonT(60)
    <3>2. CASE WaitForWork \/ SpuriousWakeup \/ WorkerException
      <4>1. UNCHANGED <<failed, stopping, published>>
        BY <3>2, ZenonT(60) DEF WaitForWork, SpuriousWakeup, WorkerException
      <4> QED BY <4>1, ZenonT(60)
    <3>3. CASE TakeSlot \/ AdvanceRead
      <4>1. UNCHANGED <<failed, stopping, published>>
        BY <3>3, ZenonT(60) DEF TakeSlot, AdvanceRead
      <4> QED BY <4>1, ZenonT(60)
    <3>4. CASE Consume \/ RecordProcessed \/ WorkerExit
      <4>1. UNCHANGED <<failed, stopping, published>>
        BY <3>4, ZenonT(60) DEF Consume, RecordProcessed, WorkerExit
      <4> QED BY <4>1, ZenonT(60)
    <3>5. CASE WorkerDegrade
      BY <3>5, ZenonT(60) DEF WorkerDegrade
    <3> QED BY <2>2, <3>1, <3>2, <3>3, <3>4, <3>5, ZenonT(60) DEF RunWorker
  <2>3. CASE Owner
    <3>1. CASE CreateReady \/ ShutdownJoin \/ ShutdownGivesUp
      BY <3>1, SMTT(60) DEF CreateReady, ShutdownJoin, ShutdownGivesUp
    <3>2. CASE CreateFails
      BY <3>2, ZenonT(60) DEF CreateFails
    <3>3. CASE ShutdownBegin
      BY <3>3, ZenonT(60) DEF ShutdownBegin
    <3>4. CASE ContainThread
      BY <3>4, ZenonT(60) DEF ContainThread
    <3> QED BY <2>3, <3>1, <3>2, <3>3, <3>4, ZenonT(60) DEF Owner
  <2> QED BY <2>1, <2>2, <2>3, ZenonT(60) DEF Next
<1> QED BY <1>1, InductiveHolds, PTL DEF Spec, FailClosed

\* A step inside Submit that gives its event up leaves a failed or stopping
\* envelope: the two retests of the flags and MarkStateDegraded are the only
\* ways out that publish nothing.
THEOREM DropsAreFlagged == Spec => NoSilentDrop
<1> DEFINE Out(p) == pc[p] \notin {"idle", "count"} /\ pc'[p] = "idle"
<1>1. Inductive /\ [Next]_vars =>
        [\A p \in Producers : Out(p) => failed' \/ stopping']_vars
  <2> SUFFICES ASSUME Inductive, Next, NEW p \in Producers, Out(p)
               PROVE  failed' \/ stopping'
    BY ZenonT(60)
  <2> USE DEF ring, counters, flags, producer, worker, history
  <2>0. pc \in [Producers -> ProducerLabels]
    BY ZenonT(60) DEF Inductive, TypeOK
  <2>1. ASSUME NEW q \in Producers, Submit(q)
        PROVE  failed' \/ stopping'
    <3>1. CASE SubmitEnter(q) \/ MarkDegraded(q) \/ PublishCount(q)
      BY <2>0, <3>1, ZenonT(60) DEF SubmitEnter, MarkDegraded, PublishCount, Goto
    <3>2. CASE AcquireProducer(q) \/ CheckCapacity(q) \/ SubmitException(q)
      BY <2>0, <3>2, ZenonT(60) DEF AcquireProducer, CheckCapacity, SubmitException, Goto
    <3>3. CASE FillSlot(q)
      BY <2>0, <3>3, ZenonT(60) DEF FillSlot, Goto
    <3>4. CASE RecheckFlags(q)
      BY <2>0, <3>4, ZenonT(60) DEF RecheckFlags, Goto
    <3>5. CASE PublishIndex(q)
      BY <2>0, <3>5, ZenonT(60) DEF PublishIndex, PublishRefused, Goto
    <3>6. CASE MarkStateDegraded(q)
      BY <3>6, ZenonT(60) DEF MarkStateDegraded
    <3> QED BY <2>1, <3>1, <3>2, <3>3, <3>4, <3>5, <3>6, ZenonT(60) DEF Submit
  <2>2. ASSUME RunWorker PROVE UNCHANGED pc
    <3>1. CASE WorkerReady \/ LoopCheck \/ LoadIndexes \/ EmptyCheck \/ WaitForWork
      BY <3>1, ZenonT(60) DEF WorkerReady, LoopCheck, LoadIndexes, EmptyCheck, WaitForWork
    <3>2. CASE SpuriousWakeup \/ WorkerException \/ TakeSlot \/ AdvanceRead
      BY <3>2, ZenonT(60) DEF SpuriousWakeup, WorkerException, TakeSlot, AdvanceRead
    <3>3. CASE Consume \/ RecordProcessed \/ WorkerDegrade \/ WorkerExit
      BY <3>3, ZenonT(60) DEF Consume, RecordProcessed, WorkerDegrade, WorkerExit
    <3> QED BY <2>2, <3>1, <3>2, <3>3, ZenonT(60) DEF RunWorker
  <2>3. ASSUME Owner PROVE UNCHANGED pc
    BY <2>3, ZenonT(60) DEF Owner, CreateReady, CreateFails, ShutdownBegin, ShutdownJoin,
                ShutdownGivesUp, ContainThread
  <2> QED BY <2>1, <2>2, <2>3, ZenonT(60) DEF Next
<1> QED BY <1>1, InductiveHolds, PTL DEF Spec, NoSilentDrop

-----------------------------------------------------------------------------
(* The refinement: a step of the threads is a step of the stream or leaves *)
(* its variables alone.                                                    *)

streamed == <<published, delivered, late, failed, stopping>>

\* Publishing: the index is below MaxIndex and the event is not 0 (Submit).
LEMMA SubmitStreams ==
  ASSUME Inductive, NEW p \in Producers, Submit(p)
  PROVE  Stream!Next \/ UNCHANGED streamed
<1> USE DEF ring, counters, flags, producer, worker, history
<1>1. CASE SubmitEnter(p) \/ AcquireProducer(p) \/ RecheckFlags(p)
  BY <1>1, ZenonT(60) DEF SubmitEnter, AcquireProducer, RecheckFlags, streamed
<1>2. CASE CheckCapacity(p) \/ FillSlot(p)
  BY <1>2, ZenonT(60) DEF CheckCapacity, FillSlot, streamed
<1>3. CASE PublishCount(p) \/ SubmitException(p) \/ MarkDegraded(p)
  BY <1>3, ZenonT(60) DEF PublishCount, SubmitException, MarkDegraded, streamed
<1>4. CASE PublishIndex(p)
  <2>1. CASE PublishRefused
    BY <1>4, <2>1, ZenonT(60) DEF PublishIndex, streamed
  <2>2. CASE ~PublishRefused
    <3>1. sequence[p] \in 1 .. MaxIndex
      BY <1>4, EnvelopeAssumption, SMTT(60)
      DEF Inductive, TypeOK, ProducersAgree, HoldsBusy, PublishIndex, Sequences64
    <3>2. /\ published' = Append(published, sequence[p])
          /\ UNCHANGED <<delivered, late, failed, stopping>>
      BY <1>4, <2>2, ZenonT(60) DEF PublishIndex
    <3> QED BY <2>2, <3>1, <3>2, ZenonT(60) DEF PublishRefused, Stream!Next, Stream!Publish
  <2> QED BY <2>1, <2>2, ZenonT(60)
<1>5. CASE MarkStateDegraded(p)
  BY <1>5, ZenonT(60) DEF MarkStateDegraded, Stream!Next, Stream!Fail
<1> QED BY Submit(p), <1>1, <1>2, <1>3, <1>4, <1>5, ZenonT(60) DEF Submit

\* Delivering: the event taken is the next number, published at its place,
\* and no other was delivered late (RunWorker).
LEMMA RunStreams ==
  ASSUME Inductive, RunWorker
  PROVE  Stream!Next \/ UNCHANGED streamed
<1> USE DEF ring, counters, flags, producer, worker, history
<1>1. CASE WorkerReady \/ LoopCheck \/ LoadIndexes \/ EmptyCheck \/ WaitForWork
  BY <1>1, ZenonT(60) DEF WorkerReady, LoopCheck, LoadIndexes, EmptyCheck, WaitForWork, streamed
<1>2. CASE SpuriousWakeup \/ WorkerException \/ TakeSlot \/ AdvanceRead
  BY <1>2, ZenonT(60) DEF SpuriousWakeup, WorkerException, TakeSlot, AdvanceRead, streamed
<1>3. CASE RecordProcessed \/ WorkerExit
  BY <1>3, ZenonT(60) DEF RecordProcessed, WorkerExit, streamed
<1>4. CASE WorkerDegrade
  BY <1>4, ZenonT(60) DEF WorkerDegrade, Stream!Next, Stream!Fail
<1>5. CASE Consume
  <2>1. CASE UNCHANGED <<delivered, late>>
    BY <1>5, <2>1, ZenonT(60) DEF Consume, streamed
  <2>2. CASE /\ delivered' = Append(delivered, event)
             /\ late' = IF failed THEN late + 1 ELSE late
    <3> DEFINE n == Len(delivered) + 1
    <3>1. /\ event = n /\ event = published[n] /\ n <= Len(published)
      BY <1>5, ZenonT(60) DEF Consume, Inductive, WorkerAgrees, IndexesAgree, TypeOK
    <3>2. late = 0
      BY <1>5, SMTT(60) DEF Consume, Inductive, WorkerAgrees, AtMostOneLateDelivery, TypeOK
    <3>3. UNCHANGED <<published, failed, stopping>>
      BY <1>5, ZenonT(60) DEF Consume
    <3>4. Stream!Deliver
      BY <2>2, <3>1, <3>2, <3>3, SMTT(60) DEF Stream!Deliver
    <3> QED BY <3>4, ZenonT(60) DEF Stream!Next
  <2> QED BY <1>5, <2>1, <2>2, ZenonT(60) DEF Consume
<1> QED BY RunWorker, <1>1, <1>2, <1>3, <1>4, <1>5, ZenonT(60) DEF RunWorker

\* The owner fails, closes or abandons the stream (Create, Shutdown).
LEMMA OwnerStreams ==
  ASSUME Owner
  PROVE  Stream!Next \/ UNCHANGED streamed
<1> USE DEF ring, counters, flags, producer, worker, history
<1>1. CASE CreateReady \/ ShutdownJoin \/ ShutdownGivesUp
  BY <1>1, ZenonT(60) DEF CreateReady, ShutdownJoin, ShutdownGivesUp, streamed
<1>2. CASE CreateFails
  BY <1>2, ZenonT(60) DEF CreateFails, Stream!Next, Stream!Abandon
<1>3. CASE ShutdownBegin
  BY <1>3, ZenonT(60) DEF ShutdownBegin, Stream!Next, Stream!Close
<1>4. CASE ContainThread
  BY <1>4, ZenonT(60) DEF ContainThread, Stream!Next, Stream!Fail
<1> QED BY Owner, <1>1, <1>2, <1>3, <1>4, ZenonT(60) DEF Owner

\* The envelope implements the abstract stream: whatever its producers, its
\* worker and its owner do, events go in only while it is open, come out as
\* 1, 2, 3, ... of what went in, and at most one after a failure.
THEOREM EnvelopeImplementsStream == Spec => StreamSpec
<1>1. Init => Stream!Init
  BY ZenonT(60) DEF Init, Stream!Init
<1>2. Inductive /\ [Next]_vars => [Stream!Next]_Stream!vars
  <2> SUFFICES ASSUME Inductive, [Next]_vars
               PROVE  Stream!Next \/ UNCHANGED streamed
    BY ZenonT(60) DEF Stream!vars, streamed
  <2>1. CASE UNCHANGED vars
    BY <2>1, ZenonT(60) DEF vars, history, flags, streamed
  <2>2. CASE Next
    BY <2>2, SubmitStreams, RunStreams, OwnerStreams, ZenonT(60) DEF Next
  <2> QED BY <2>1, <2>2, ZenonT(60)
<1> QED BY <1>1, <1>2, InductiveHolds, PTL DEF Spec, StreamSpec, Stream!Spec
=============================================================================
