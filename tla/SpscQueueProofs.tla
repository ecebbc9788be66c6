--------------------------- MODULE SpscQueueProofs ---------------------------
(***************************************************************************)
(* For every capacity, retry bound, policy and number of elements: the     *)
(* ring never returns a torn element, never loses one uncounted, and       *)
(* implements BoundedFifo, as long as no eviction by the producer overlaps *)
(* an operation of the consumer.  Without drop_oldest it never does.       *)
(***************************************************************************)
EXTENDS SpscQueue, TLAPS

(* Index arithmetic.                                                       *)

\* The successor of a slot, without the modulus, is a slot.
LEMMA AfterFacts ==
    ASSUME NEW i \in Slot
    PROVE  /\ After(i) = IF i + 1 = Capacity THEN 0 ELSE i + 1
           /\ After(i) \in Slot
  BY CapacityAssumption DEF After, Slot

\* cf_queue_length()'s two branches give a number of slots; zero means equal.
LEMMA LengthFacts ==
    ASSUME NEW h \in Slot, NEW t \in Slot
    PROVE  /\ Length(h, t) \in Slot
           /\ Length(h, t) \in Nat /\ Length(h, t) < Capacity
           /\ Length(h, t) = 0 <=> h = t
  BY CapacityAssumption DEF Length, Slot

\* Advancing head, when the queue is not full, adds one to the length.
LEMMA LengthPush ==
    ASSUME NEW h \in Slot, NEW t \in Slot, After(h) # t
    PROVE  Length(After(h), t) = Length(h, t) + 1
  BY CapacityAssumption, AfterFacts DEF Length, Slot

\* Advancing tail, when the queue is not empty, takes one from the length.
LEMMA LengthPop ==
    ASSUME NEW h \in Slot, NEW t \in Slot, h # t
    PROVE  Length(h, After(t)) = Length(h, t) - 1
  BY CapacityAssumption, AfterFacts DEF Length, Slot

\* Pushing occupies exactly the slot head pointed at.
LEMMA OccupiedPush ==
    ASSUME NEW h \in Slot, NEW t \in Slot, NEW k \in Slot, After(h) # t
    PROVE  Length(k, t) < Length(After(h), t) <=> (Length(k, t) < Length(h, t) \/ k = h)
  BY CapacityAssumption, AfterFacts DEF Length, Slot

\* Advancing tail frees a slot and occupies none.
LEMMA OccupiedPop ==
    ASSUME NEW h \in Slot, NEW t \in Slot, NEW k \in Slot, h # t,
           Length(k, After(t)) < Length(h, After(t))
    PROVE  Length(k, t) < Length(h, t)
  BY CapacityAssumption, AfterFacts DEF Length, Slot

-----------------------------------------------------------------------------
(* The inductive invariant.                                                *)

\* A slot that holds a queued element: nearer to tail than head is.
Occupied(k) == Length(k, tail) < Length(head, tail)

\* The producer writes, or has written, a slot outside the queued region, and
\* a drop in progress still holds the current tail.
ProducerSafe ==
    /\ pPc \in {"copying", "publish"} => After(head) # tail
    /\ pPc = "publish" => slots[head] = offered
    /\ pPc = "dropping" => pTail = tail /\ tail # head

\* The consumer's copy of tail is current, and what it copies is the slot.
ConsumerSafe ==
    /\ cPc \in {"popHead", "copying", "release"} => cTail = tail
    /\ cPc \in {"copying", "release"} => tail # head /\ cElem = slots[tail]
    /\ cPc = "lenTail" => Length(cHead, tail) <= Length(head, tail)
    /\ cPc = "lenDone" => cLen <= Length(head, tail)

\* The main thread's copy of head is current until a push completes.
ObserverSafe ==
    /\ oPc = "tail" /\ ~oMoved => oHead = head
    /\ oPc = "done" /\ oLen = 0 /\ ~oMoved => head = tail

\* Queued slots hold elements somebody pushed.
SlotsSafe == \A k \in Slot : Occupied(k) => slots[k] \in Items

\* Every offered element is accounted for.
Accounted ==
    offered = Len(delivered) + Length(head, tail) + drops + (IF pPc = "idle" THEN 0 ELSE 1)

Safe == ProducerSafe /\ ConsumerSafe /\ ObserverSafe /\ SlotsSafe /\ Accounted

IndInv == TypeOK /\ (overlap \/ Safe)

-----------------------------------------------------------------------------
(* Type correctness.                                                       *)

\* Every step keeps the types.
LEMMA TypeStep == TypeOK /\ [Next]_vars => TypeOK'
<1> SUFFICES ASSUME TypeOK, [Next]_vars PROVE TypeOK'
  OBVIOUS
<1> USE CapacityAssumption, RetriesAssumption, ItemsAssumption
<1>1. CASE PushPolicy
  BY <1>1 DEF PushPolicy, TypeOK, qVars, pVars, cVars, oVars
<1>2. CASE PushBegin
  BY <1>2 DEF PushBegin, TypeOK, qVars, pVars, cVars, oVars, Slot, Value, Items, Torn
<1>3. CASE PushFull
  BY <1>3 DEF PushFull, TypeOK, qVars, pVars, cVars, oVars
<1>4. CASE PushCopied
  BY <1>4 DEF PushCopied, TypeOK, qVars, pVars, cVars, oVars, Slot, Value, Items
<1>5. CASE PushPublish
  BY AfterFacts, <1>5 DEF PushPublish, TypeOK, qVars, pVars, cVars, oVars
<1>6. CASE Refuse
  BY <1>6 DEF Refuse, TypeOK, qVars, pVars, cVars, oVars
<1>7. CASE BlockRetry
  BY <1>7 DEF BlockRetry, TypeOK, qVars, pVars, cVars, oVars
<1>8. CASE DropBegin
  BY <1>8 DEF DropBegin, TypeOK, qVars, pVars, cVars, oVars
<1>9. CASE DropStore
  BY AfterFacts, <1>9 DEF DropStore, TypeOK, qVars, pVars, cVars, oVars
<1>10. CASE PopTail
  BY <1>10 DEF PopTail, TypeOK, qVars, pVars, cVars, oVars
<1>11. CASE PopEmpty
  BY <1>11 DEF PopEmpty, TypeOK, qVars, pVars, cVars, oVars
<1>12. CASE PopBegin
  BY <1>12 DEF PopBegin, TypeOK, qVars, pVars, cVars, oVars
<1>13. CASE PopCopied
  BY <1>13 DEF PopCopied, TypeOK, qVars, pVars, cVars, oVars, Value, Torn
<1>14. CASE PopRelease
  BY AfterFacts, <1>14 DEF PopRelease, TypeOK, qVars, pVars, cVars, oVars
<1>15. CASE LengthHead
  BY <1>15 DEF LengthHead, TypeOK, qVars, pVars, cVars, oVars
<1>16. CASE LengthTail
  BY LengthFacts, <1>16 DEF LengthTail, TypeOK, qVars, pVars, cVars, oVars
<1>17. CASE LengthUsed
  BY <1>17 DEF LengthUsed, TypeOK, qVars, pVars, cVars, oVars
<1>18. CASE ObserveHead
  BY <1>18 DEF ObserveHead, TypeOK, qVars, pVars, cVars, oVars
<1>19. CASE ObserveTail
  BY LengthFacts, <1>19 DEF ObserveTail, TypeOK, qVars, pVars, cVars, oVars
<1>20. CASE ObserveUsed
  BY <1>20 DEF ObserveUsed, TypeOK, qVars, pVars, cVars, oVars
<1>21. CASE NotifyStop
  BY <1>21 DEF NotifyStop, TypeOK, qVars, pVars, cVars, oVars
<1>22. CASE UNCHANGED vars
  BY <1>22 DEF vars, TypeOK
<1> QED
  BY <1>1, <1>2, <1>3, <1>4, <1>5, <1>6, <1>7, <1>8, <1>9, <1>10, <1>11, <1>12, <1>13, <1>14, <1>15, <1>16, <1>17, <1>18, <1>19, <1>20, <1>21, <1>22 DEF Next, ProducerStep, ConsumerStep, ObserverStep

\* Every reachable state of the ring and its three callers is well typed; in
\* particular both indices stay inside the storage whatever the policy.
THEOREM TypeCorrect == Spec => []TypeOK
<1>1. Init => TypeOK
  BY CapacityAssumption, RetriesAssumption, ItemsAssumption
  DEF Init, TypeOK, Slot, Value, Items, Zero, Torn
<1> QED
  BY <1>1, TypeStep, PTL DEF Spec

-----------------------------------------------------------------------------
(* Safety.                                                                 *)

\* IndInv is inductive.
THEOREM Inductive == Spec => []IndInv
<1>1. Init => IndInv
  <2> SUFFICES ASSUME Init PROVE IndInv
    OBVIOUS
  <2>1. TypeOK
    BY CapacityAssumption, RetriesAssumption, ItemsAssumption
    DEF Init, TypeOK, Slot, Value, Items, Zero, Torn
  <2>2. Length(head, tail) = 0
    BY DEF Init, Length
  <2>3. SlotsSafe
    BY <2>1, <2>2, LengthFacts DEF SlotsSafe, Occupied, TypeOK
  <2> QED
    BY <2>1, <2>2, <2>3
    DEF Init, IndInv, Safe, ProducerSafe, ConsumerSafe, ObserverSafe, Accounted
<1>2. IndInv /\ [Next]_vars => IndInv'
  <2> SUFFICES ASSUME TypeOK, Safe, [Next]_vars, ~overlap' PROVE Safe'
    <3>1. IndInv /\ [Next]_vars /\ ~overlap' => ~overlap
      BY DEF Next, ProducerStep, ConsumerStep, ObserverStep, vars, PushPolicy, PushBegin,
             PushFull, PushCopied, PushPublish, Refuse, BlockRetry, DropBegin, DropStore,
             PopTail, PopEmpty, PopBegin, PopCopied, PopRelease, LengthHead, LengthTail,
             LengthUsed, ObserveHead, ObserveTail, ObserveUsed, NotifyStop, IndInv, TypeOK
    <3> QED
      BY <3>1, TypeStep DEF IndInv
  <2> USE CapacityAssumption, RetriesAssumption, ItemsAssumption
  <2> USE DEF Safe, TypeOK, qVars, pVars, cVars, oVars
  <2>0. Length(head, tail) \in Nat /\ Length(cHead, tail) \in Nat
    BY LengthFacts
  <2>1. CASE PushPolicy
    BY <2>0, <2>1
    DEF PushPolicy, ProducerSafe, ConsumerSafe, ObserverSafe, SlotsSafe, Occupied, Accounted
  <2>2. CASE PushBegin
    BY LengthFacts, <2>2
    DEF PushBegin, ProducerSafe, ConsumerSafe, ObserverSafe, SlotsSafe, Occupied, Accounted
  <2>3. CASE PushFull
    BY <2>3
    DEF PushFull, ProducerSafe, ConsumerSafe, ObserverSafe, SlotsSafe, Occupied, Accounted
  <2>4. CASE PushCopied
    BY LengthFacts, <2>4
    DEF PushCopied, ProducerSafe, ConsumerSafe, ObserverSafe, SlotsSafe, Occupied, Accounted
  <2>5. CASE PushPublish
    <3>1. After(head) # tail /\ head' = After(head) /\ tail' = tail /\ head' \in Slot
      BY <2>5, AfterFacts DEF PushPublish, ProducerSafe
    <3>2. Length(head', tail') = Length(head, tail) + 1
      BY <3>1, LengthPush
    <3>3. SlotsSafe'
      BY <2>5, <3>1, OccupiedPush DEF PushPublish, SlotsSafe, Occupied, ProducerSafe, Items
    <3>4. ConsumerSafe' /\ ObserverSafe' /\ ProducerSafe'
      BY <2>0, <2>5, <3>1, <3>2 DEF PushPublish, ProducerSafe, ConsumerSafe, ObserverSafe
    <3>5. Accounted'
      BY <2>0, <2>5, <3>2 DEF PushPublish, Accounted
    <3> QED
      BY <3>3, <3>4, <3>5
  <2>6. CASE Refuse
    <3>1. ProducerSafe' /\ ConsumerSafe' /\ ObserverSafe' /\ SlotsSafe'
      BY <2>6 DEF Refuse, ProducerSafe, ConsumerSafe, ObserverSafe, SlotsSafe, Occupied
    <3>2. Accounted'
      BY <2>0, <2>6 DEF Refuse, Accounted
    <3> QED
      BY <3>1, <3>2
  <2>7. CASE BlockRetry
    BY <2>7
    DEF BlockRetry, ProducerSafe, ConsumerSafe, ObserverSafe, SlotsSafe, Occupied, Accounted
  <2>8. CASE DropBegin
    BY <2>8
    DEF DropBegin, ProducerSafe, ConsumerSafe, ObserverSafe, SlotsSafe, Occupied, Accounted
  <2>9. CASE DropStore
    <3>1. head # tail /\ head' = head /\ tail' = After(tail) /\ tail' \in Slot /\ cPc = "idle"
      BY <2>9, AfterFacts DEF DropStore, ProducerSafe
    <3>2. Length(head', tail') = Length(head, tail) - 1
      BY <3>1, LengthPop
    <3>3. SlotsSafe'
      BY <2>9, <3>1, OccupiedPop DEF DropStore, SlotsSafe, Occupied
    <3>4. ConsumerSafe' /\ ObserverSafe' /\ ProducerSafe'
      BY <2>9, <3>1 DEF DropStore, ProducerSafe, ConsumerSafe, ObserverSafe
    <3>5. Accounted'
      BY <2>0, <2>9, <3>2 DEF DropStore, Accounted
    <3> QED
      BY <3>3, <3>4, <3>5
  <2>10. CASE PopTail
    BY <2>10
    DEF PopTail, ProducerSafe, ConsumerSafe, ObserverSafe, SlotsSafe, Occupied, Accounted
  <2>11. CASE PopEmpty
    BY <2>11
    DEF PopEmpty, ProducerSafe, ConsumerSafe, ObserverSafe, SlotsSafe, Occupied, Accounted
  <2>12. CASE PopBegin
    BY <2>12
    DEF PopBegin, ProducerSafe, ConsumerSafe, ObserverSafe, SlotsSafe, Occupied, Accounted
  <2>13. CASE PopCopied
    BY <2>13
    DEF PopCopied, ProducerSafe, ConsumerSafe, ObserverSafe, SlotsSafe, Occupied, Accounted
  <2>14. CASE PopRelease
    <3>1. /\ head # tail /\ head' = head /\ tail' = After(tail) /\ tail' \in Slot
          /\ cPc' = "idle" /\ pPc # "dropping"
      BY <2>14, AfterFacts DEF PopRelease, ConsumerSafe
    <3>2. Length(head', tail') = Length(head, tail) - 1
      BY <3>1, LengthPop
    <3>3. SlotsSafe'
      BY <2>14, <3>1, OccupiedPop DEF PopRelease, SlotsSafe, Occupied
    <3>4. pPc \in {"copying", "publish"} => After(head) # tail'
      BY <3>1, AfterFacts DEF ProducerSafe, Slot
    <3>5. ConsumerSafe' /\ ObserverSafe' /\ ProducerSafe'
      BY <2>14, <3>1, <3>4 DEF PopRelease, ProducerSafe, ConsumerSafe, ObserverSafe, pVars, oVars
    <3>6. Accounted'
      BY <2>0, <2>14, <3>2 DEF PopRelease, Accounted
    <3> QED
      BY <3>3, <3>5, <3>6
  <2>15. CASE LengthHead
    BY <2>0, <2>15
    DEF LengthHead, ProducerSafe, ConsumerSafe, ObserverSafe, SlotsSafe, Occupied, Accounted
  <2>16. CASE LengthTail
    BY <2>16
    DEF LengthTail, ProducerSafe, ConsumerSafe, ObserverSafe, SlotsSafe, Occupied, Accounted
  <2>17. CASE LengthUsed
    BY <2>17
    DEF LengthUsed, ProducerSafe, ConsumerSafe, ObserverSafe, SlotsSafe, Occupied, Accounted
  <2>18. CASE ObserveHead
    BY <2>18
    DEF ObserveHead, ProducerSafe, ConsumerSafe, ObserverSafe, SlotsSafe, Occupied, Accounted
  <2>19. CASE ObserveTail
    BY LengthFacts, <2>19
    DEF ObserveTail, ProducerSafe, ConsumerSafe, ObserverSafe, SlotsSafe, Occupied, Accounted
  <2>20. CASE ObserveUsed
    BY <2>20
    DEF ObserveUsed, ProducerSafe, ConsumerSafe, ObserverSafe, SlotsSafe, Occupied, Accounted
  <2>21. CASE NotifyStop
    BY <2>21
    DEF NotifyStop, ProducerSafe, ConsumerSafe, ObserverSafe, SlotsSafe, Occupied, Accounted
  <2>22. CASE UNCHANGED vars
    BY <2>22 DEF vars, ProducerSafe, ConsumerSafe, ObserverSafe, SlotsSafe, Occupied, Accounted
  <2> QED
    BY <2>1, <2>2, <2>3, <2>4, <2>5, <2>6, <2>7, <2>8, <2>9, <2>10, <2>11, <2>12,
       <2>13, <2>14, <2>15, <2>16, <2>17, <2>18, <2>19, <2>20, <2>21, <2>22
    DEF Next, ProducerStep, ConsumerStep, ObserverStep
<1> QED
  BY <1>1, <1>2, PTL DEF Spec

\* cf_queue.c's promise, for every capacity and policy: pop never returns a
\* mixture of two elements or an unwritten slot unless an eviction by the
\* producer overlapped an operation of the consumer.
THEOREM NeverTornCorrect == Spec => []NeverTornUnlessOverlap
<1>1. IndInv => NeverTornUnlessOverlap
  BY LengthFacts DEF IndInv, Safe, ConsumerSafe, SlotsSafe, Occupied, TypeOK,
                     NeverTornUnlessOverlap, NeverTorn, Length
<1> QED
  BY <1>1, Inductive, PTL

\* D9's promise, for every capacity and policy: every element offered to the
\* queue is delivered, still queued, counted as dropped or still in hand.
THEOREM ConservedCorrect == Spec => []ConservedUnlessOverlap
<1>1. IndInv => ConservedUnlessOverlap
  BY DEF IndInv, Safe, Accounted, ConservedUnlessOverlap
<1> QED
  BY <1>1, Inductive, PTL

\* What the consuming thread reads with cf_queue_length() can be popped.
THEOREM ConsumerLengthCorrect == Spec => []ConsumerLengthUnlessOverlap
<1>1. IndInv => ConsumerLengthUnlessOverlap
  BY DEF IndInv, Safe, ConsumerSafe, ConsumerLengthUnlessOverlap
<1> QED
  BY <1>1, Inductive, PTL

\* A zero length read by the main thread while no push completes is true.
THEOREM ObservedZeroCorrect == Spec => []ObservedZeroUnlessOverlap
<1>1. IndInv => ObservedZeroUnlessOverlap
  BY DEF IndInv, Safe, ObserverSafe, ObservedZeroUnlessOverlap
<1> QED
  BY <1>1, Inductive, PTL

\* Overlaps come only from drop_oldest: a configuration that does not select
\* it has the unconditional promise of the comment in cf_queue.c.
THEOREM NeverTornWithoutDropOldest ==
    ASSUME "drop_oldest" \notin Policies
    PROVE  Spec => []NeverTorn
<1> DEFINE NoDrop == policy # "drop_oldest" /\ pPc # "dropping" /\ overlap = FALSE
<1>1. Init => NoDrop
  BY DEF Init
<1>2. NoDrop /\ [Next]_vars => NoDrop'
  BY DEF Next, ProducerStep, ConsumerStep, ObserverStep, vars, PushPolicy, PushBegin, PushFull,
         PushCopied, PushPublish, Refuse, BlockRetry, DropBegin, DropStore, PopTail, PopEmpty,
         PopBegin, PopCopied, PopRelease, LengthHead, LengthTail, LengthUsed, ObserveHead,
         ObserveTail, ObserveUsed, NotifyStop, pVars
<1>3. NoDrop /\ NeverTornUnlessOverlap => NeverTorn
  BY DEF NeverTornUnlessOverlap
<1> QED
  BY <1>1, <1>2, <1>3, NeverTornCorrect, PTL DEF Spec

-----------------------------------------------------------------------------
(* Refinement of BoundedFifo.                                              *)

\* The slot of the i-th oldest element, without the modulus.
Place(t, i) == IF t + i - 1 < Capacity THEN t + i - 1 ELSE t + i - 1 - Capacity

LEMMA PlaceFacts ==
    ASSUME NEW t \in Slot, NEW i \in 1..Capacity
    PROVE  (t + i - 1) % Capacity = Place(t, i) /\ Place(t, i) \in Slot
  BY CapacityAssumption DEF Place, Slot

\* Contents is a sequence as long as cf_queue_length() says.
LEMMA ContentsFacts ==
    ASSUME TypeOK
    PROVE  /\ Contents \in Seq(Value)
           /\ Len(Contents) = Length(head, tail)
           /\ \A i \in 1..Length(head, tail) : Contents[i] = slots[Place(tail, i)]
<1>1. Length(head, tail) \in Nat /\ Length(head, tail) < Capacity
  BY LengthFacts DEF TypeOK
<1>2. \A i \in 1..Length(head, tail) :
         (tail + i - 1) % Capacity = Place(tail, i) /\ Place(tail, i) \in Slot
  BY <1>1, PlaceFacts, CapacityAssumption DEF TypeOK
<1> QED
  BY <1>1, <1>2 DEF Contents, TypeOK

\* The same facts about the next state.
LEMMA ContentsPrimed ==
    ASSUME TypeOK'
    PROVE  /\ Contents' \in Seq(Value)
           /\ Len(Contents') = Length(head', tail')
           /\ \A i \in 1..Length(head', tail') : Contents'[i] = slots'[Place(tail', i)]
<1>1. Length(head', tail') \in Nat /\ Length(head', tail') < Capacity
  BY LengthFacts DEF TypeOK
<1>2. \A i \in 1..Length(head', tail') :
         (tail' + i - 1) % Capacity = Place(tail', i) /\ Place(tail', i) \in Slot
  BY <1>1, PlaceFacts, CapacityAssumption DEF TypeOK
<1> QED
  BY <1>1, <1>2 DEF Contents, TypeOK

\* The first element is at tail, none of them is at head, and the one a push
\* adds is.
LEMMA PlaceOccupied ==
    ASSUME NEW h \in Slot, NEW t \in Slot
    PROVE  /\ Place(t, 1) = t
           /\ \A i \in 1..Length(h, t) : Place(t, i) # h
           /\ Place(t, Length(h, t) + 1) = h
           /\ \A i \in 1..(Length(h, t) - 1) : Place(After(t), i) = Place(t, i + 1)
  BY CapacityAssumption, AfterFacts DEF Place, Length, Slot

\* Each thread's steps, seen through Contents, are steps of BoundedFifo until
\* an eviction overlaps the consumer: order, bound and accounting at once.
THEOREM RefinesBoundedFifo == Spec => FifoUnlessOverlap
<1>1. Init => Fifo!Init
  <2> SUFFICES ASSUME Init PROVE Contents = <<>>
    BY DEF Init, Fifo!Init
  <2>1. Length(head, tail) = 0
    BY DEF Init, Length
  <2> QED
    BY <2>1 DEF Contents
<1>2. IndInv /\ IndInv' /\ [Next]_vars => [overlap' \/ [Fifo!Next]_(Fifo!vars)]_vars
  <2> SUFFICES ASSUME TypeOK, Safe, TypeOK', Next, ~overlap'
               PROVE  [Fifo!Next]_(Fifo!vars)
    <3>1. Next /\ ~overlap' /\ TypeOK => ~overlap
      BY DEF Next, ProducerStep, ConsumerStep, ObserverStep, PushPolicy, PushBegin,
             PushFull, PushCopied, PushPublish, Refuse, BlockRetry, DropBegin, DropStore,
             PopTail, PopEmpty, PopBegin, PopCopied, PopRelease, LengthHead, LengthTail,
             LengthUsed, ObserveHead, ObserveTail, ObserveUsed, NotifyStop, TypeOK
    <3> QED
      BY <3>1 DEF IndInv
  <2> USE DEF TypeOK
  <2>1. CASE PushBegin \/ PushCopied
    <3>1. head' = head /\ tail' = tail /\ \A k \in Slot : k # head => slots'[k] = slots[k]
      BY <2>1 DEF PushBegin, PushCopied
    <3>2. \A i \in 1..Length(head, tail) :
             slots'[(tail + i - 1) % Capacity] = slots[(tail + i - 1) % Capacity]
      <4> SUFFICES ASSUME NEW i \in 1..Length(head, tail)
                   PROVE  slots'[(tail + i - 1) % Capacity] = slots[(tail + i - 1) % Capacity]
        OBVIOUS
      <4>1. i \in 1..Capacity
        BY LengthFacts, CapacityAssumption
      <4>2. (tail + i - 1) % Capacity = Place(tail, i) /\ Place(tail, i) \in Slot
        BY <4>1, PlaceFacts
      <4>3. Place(tail, i) # head
        BY PlaceOccupied
      <4> QED
        BY <3>1, <4>2, <4>3
    <3>3. Contents' = Contents
      BY <3>1, <3>2 DEF Contents
    <3> QED
      BY <2>1, <3>3 DEF Fifo!vars, PushBegin, PushCopied
  <2>2. CASE PushPublish
    <3>1. /\ After(head) # tail /\ head' = After(head) /\ tail' = tail /\ slots' = slots
          /\ slots[head] = offered /\ offered \in Items
      BY <2>2, ItemsAssumption DEF PushPublish, Safe, ProducerSafe, Items
    <3>2. Length(head', tail') = Length(head, tail) + 1
      BY <3>1, LengthPush
    <3>3. Len(Contents) < Capacity - 1
      <4>1. Length(head', tail') < Capacity /\ Length(head, tail) \in Nat
        BY LengthFacts
      <4> QED
        BY <3>2, <4>1, ContentsFacts, CapacityAssumption
    <3>4. Len(Contents') = Len(Contents) + 1 /\ Contents' \in Seq(Value)
      BY <3>2, ContentsFacts, ContentsPrimed
    <3>5. \A i \in 1..Len(Contents) : Contents'[i] = Contents[i]
      BY <3>1, <3>2, ContentsFacts, ContentsPrimed, LengthFacts
    <3>6. Contents'[Len(Contents) + 1] = offered
      <4>1. Length(head, tail) + 1 \in 1..Length(head', tail')
        BY <3>2, LengthFacts
      <4>2. Place(tail, Length(head, tail) + 1) = head
        BY PlaceOccupied
      <4> QED
        BY <3>1, <4>1, <4>2, ContentsFacts, ContentsPrimed
    <3>7. Contents' = Append(Contents, offered)
      BY <3>1, <3>4, <3>5, <3>6, ContentsFacts
    <3> QED
      BY <2>2, <3>1, <3>3, <3>7 DEF PushPublish, Fifo!Next, Fifo!Push
  <2>3. ASSUME head # tail, tail' = After(tail), head' = head, slots' = slots
        PROVE  Contents # <<>> /\ Contents' = Tail(Contents) /\ Head(Contents) = slots[tail]
    <3>1. Length(head', tail') = Length(head, tail) - 1 /\ Length(head, tail) > 0
      BY <2>3, LengthPop, LengthFacts
    <3>2. Len(Contents') = Len(Contents) - 1 /\ Contents' \in Seq(Value) /\ Len(Contents) > 0
      BY <3>1, ContentsFacts, ContentsPrimed
    <3>3. \A i \in 1..Len(Contents') : Contents'[i] = Contents[i + 1]
      <4> SUFFICES ASSUME NEW i \in 1..Len(Contents') PROVE Contents'[i] = Contents[i + 1]
        OBVIOUS
      <4>1. /\ i + 1 \in 1..Length(head, tail) /\ i \in 1..Length(head', tail')
            /\ i \in 1..(Length(head, tail) - 1)
        BY <3>1, <3>2, ContentsFacts, LengthFacts
      <4>2. Place(tail', i) = Place(tail, i + 1)
        BY <2>3, <4>1, PlaceOccupied
      <4> QED
        BY <2>3, <4>1, <4>2, ContentsFacts, ContentsPrimed
    <3>4. Head(Contents) = slots[tail]
      BY <3>1, <3>2, ContentsFacts, PlaceOccupied
    <3> QED
      BY <3>2, <3>3, <3>4, ContentsFacts
  <2>4. CASE DropStore
    <3>1. head # tail /\ tail' = After(tail) /\ head' = head /\ slots' = slots
      BY <2>4 DEF DropStore, Safe, ProducerSafe
    <3> QED
      BY <2>3, <2>4, <3>1 DEF DropStore, Fifo!Next, Fifo!Evict
  <2>5. CASE PopRelease
    <3>1. head # tail /\ tail' = After(tail) /\ head' = head /\ slots' = slots /\ cElem = slots[tail]
      BY <2>5 DEF PopRelease, Safe, ConsumerSafe
    <3> QED
      BY <2>3, <2>5, <3>1 DEF PopRelease, Fifo!Next, Fifo!Pop
  <2>6. CASE Refuse
    BY <2>6 DEF Refuse, Fifo!Next, Fifo!Refuse, Contents, qVars
  <2>7. CASE \/ PushPolicy \/ PushFull \/ BlockRetry \/ DropBegin \/ PopTail \/ PopEmpty
             \/ PopBegin \/ PopCopied \/ LengthHead \/ LengthTail \/ LengthUsed
             \/ ObserverStep \/ NotifyStop
    <3>1. UNCHANGED <<head, tail, slots, delivered, drops>>
      BY <2>7 DEF PushPolicy, PushFull, BlockRetry, DropBegin, PopTail, PopEmpty, PopBegin,
                  PopCopied, LengthHead, LengthTail, LengthUsed, ObserverStep, ObserveHead,
                  ObserveTail, ObserveUsed, NotifyStop, qVars
    <3> QED
      BY <3>1 DEF Fifo!vars, Contents
  <2> QED
    BY <2>1, <2>2, <2>4, <2>5, <2>6, <2>7 DEF Next, ProducerStep, ConsumerStep
<1> QED
  BY <1>1, <1>2, Inductive, PTL DEF Spec, FifoUnlessOverlap

=============================================================================
