------------------------------ MODULE SpscQueue ------------------------------
(***************************************************************************)
(* The bounded single-producer/single-consumer ring of libs/cloudflow-core *)
(* (cf_queue.c) driven by its one caller on the producing side,            *)
(* cf_queue_push_policy() (libs/cloudflow-capture/cf_queue_policy.c), at   *)
(* the grain of the accesses to shared memory: each load and each store of *)
(* an index is a step, and a memcpy() is a beginning and an end.           *)
(*                                                                         *)
(* Three threads: the producer (push and, under drop_oldest, drop), the    *)
(* consumer (pop, and length as the redis producer calls it) and a main    *)
(* thread that only asks for the length.                                   *)
(***************************************************************************)
EXTENDS Integers, Sequences

CONSTANTS
    Capacity,     \* cf_queue_init()'s capacity: slots, one of them never used
    MaxRetries,   \* CF_QUEUE_POLICY_BLOCK_MAX_RETRIES
    Policies,     \* the on_full policies a configuration may select
    MaxItems      \* bound: elements the producer will offer

AllPolicies == {"drop_newest", "drop_oldest", "block"}

ASSUME CapacityAssumption == Capacity \in Nat /\ Capacity >= 2
ASSUME RetriesAssumption == MaxRetries \in Nat
ASSUME PoliciesAssumption == Policies \subseteq AllPolicies
ASSUME ItemsAssumption == MaxItems \in Nat

VARIABLES
    head, tail,  \* the two shared indices
    slots,       \* storage, one element per slot
    policy,      \* on_full, fixed at start-up
    stop,        \* cf_stop_notified()
    pPc, pTail, pTry, offered,    \* producer: control, drop's copy of tail, attempts made, elements offered
    cPc, cTail, cHead, cElem, cLen,  \* consumer: control, local copies, element copied out, length read
    oPc, oHead, oLen,             \* main thread's call of cf_queue_length()
    drops,       \* *drop_counter
    delivered,   \* history: what pop returned, in order
    overlap,     \* history: a drop and a pop (or length) of the consumer overlapped
    oMoved       \* history: a push completed since the main thread loaded head

qVars == <<head, tail, slots>>
pVars == <<pPc, pTail, pTry, offered>>
cVars == <<cPc, cTail, cHead, cElem, cLen>>
oVars == <<oPc, oHead, oLen>>
vars == <<head, tail, slots, policy, stop, pPc, pTail, pTry, offered,
          cPc, cTail, cHead, cElem, cLen, oPc, oHead, oLen,
          drops, delivered, overlap, oMoved>>

Zero == 0     \* a slot as calloc() leaves it
Torn == -1    \* bytes of two different elements
Items == 1..MaxItems
Slot == 0..(Capacity - 1)
Value == Items \cup {Zero, Torn}

\* Mutant of After: the index is not wrapped.
AfterNoWrap(i) == i + 1

After(i) == (i + 1) % Capacity

Length(h, t) == IF h >= t THEN h - t ELSE Capacity - (t - h)

\* cf_queue_init() with a capacity it accepts; the threads have not started.
Init ==
    /\ head = 0 /\ tail = 0
    /\ slots = [i \in Slot |-> Zero]
    /\ policy \in Policies
    /\ stop = FALSE
    /\ pPc = "idle" /\ pTail = 0 /\ pTry = 0 /\ offered = 0
    /\ cPc = "idle" /\ cTail = 0 /\ cHead = 0 /\ cElem = Zero /\ cLen = 0
    /\ oPc = "idle" /\ oHead = 0 /\ oLen = 0
    /\ drops = 0
    /\ delivered = <<>>
    /\ overlap = FALSE
    /\ oMoved = FALSE

-----------------------------------------------------------------------------
(* The producer: cf_queue_push_policy() and the pushes and drops it makes. *)

\* The call: element number offered + 1 is presented for the first push.
PushPolicy ==
    /\ pPc = "idle" /\ offered < MaxItems
    /\ offered' = offered + 1
    /\ pTry' = 0
    /\ pPc' = "push"
    /\ UNCHANGED <<qVars, policy, stop, pTail, cVars, oVars, drops, delivered, overlap, oMoved>>

\* Mutant of PushBegin: the full test is missing.
PushBeginUnchecked ==
    /\ pPc = "push"
    /\ slots' = [slots EXCEPT ![head] = Torn]
    /\ pPc' = "copying"
    /\ UNCHANGED <<head, tail, policy, stop, pTail, pTry, offered, cVars, oVars, drops,
                   delivered, overlap, oMoved>>

\* cf_queue_push() finds room: load head and tail, start the memcpy.
PushBegin ==
    /\ pPc = "push"
    /\ After(head) # tail
    /\ slots' = [slots EXCEPT ![head] = Torn]
    /\ pPc' = "copying"
    /\ UNCHANGED <<head, tail, policy, stop, pTail, pTry, offered, cVars, oVars, drops,
                   delivered, overlap, oMoved>>

\* cf_queue_push() returns 1: the queue is full.
PushFull ==
    /\ pPc = "push"
    /\ After(head) = tail
    /\ pPc' = "full"
    /\ UNCHANGED <<qVars, policy, stop, pTail, pTry, offered, cVars, oVars, drops,
                   delivered, overlap, oMoved>>

\* The memcpy of the element into its slot ends.
PushCopied ==
    /\ pPc = "copying"
    /\ slots' = [slots EXCEPT ![head] = offered]
    /\ pPc' = "publish"
    /\ UNCHANGED <<head, tail, policy, stop, pTail, pTry, offered, cVars, oVars, drops,
                   delivered, overlap, oMoved>>

\* The release store of head; push and push_policy return 0.
PushPublish ==
    /\ pPc = "publish"
    /\ head' = After(head)
    /\ pPc' = "idle"
    /\ oMoved' = TRUE
    /\ UNCHANGED <<tail, slots, policy, stop, pTail, pTry, offered, cVars, oVars, drops,
                   delivered, overlap>>

\* Mutant of Refuse: the dropped element is not counted.
RefuseUncounted ==
    /\ pPc = "full"
    /\ \/ policy = "drop_newest"
       \/ policy = "drop_oldest" /\ (pTry > 0 \/ tail = head)
       \/ policy = "block" /\ (stop \/ pTry = MaxRetries)
    /\ pPc' = "idle"
    /\ UNCHANGED <<qVars, policy, stop, pTail, pTry, offered, cVars, oVars, drops, delivered,
                   overlap, oMoved>>

\* Full, and the policy gives up: count the element as dropped, return 1.
Refuse ==
    /\ pPc = "full"
    /\ \/ policy = "drop_newest"
       \/ policy = "drop_oldest" /\ (pTry > 0 \/ tail = head)
       \/ policy = "block" /\ (stop \/ pTry = MaxRetries)
    /\ drops' = drops + 1
    /\ pPc' = "idle"
    /\ UNCHANGED <<qVars, policy, stop, pTail, pTry, offered, cVars, oVars, delivered,
                   overlap, oMoved>>

\* Mutant of BlockRetry: only a stop ends the retries.
BlockRetryForever ==
    /\ pPc = "full" /\ policy = "block"
    /\ ~stop
    /\ pPc' = "push"
    /\ UNCHANGED <<qVars, policy, stop, pTail, pTry, offered, cVars, oVars, drops, delivered,
                   overlap, oMoved>>

\* block: sleep a millisecond and push again, a bounded number of times.
BlockRetry ==
    /\ pPc = "full" /\ policy = "block"
    /\ ~stop /\ pTry < MaxRetries
    /\ pTry' = pTry + 1
    /\ pPc' = "push"
    /\ UNCHANGED <<qVars, policy, stop, pTail, offered, cVars, oVars, drops, delivered,
                   overlap, oMoved>>

\* drop_oldest: cf_queue_drop() loads tail and head and finds an element.
DropBegin ==
    /\ pPc = "full" /\ policy = "drop_oldest"
    /\ pTry = 0 /\ tail # head
    /\ pTail' = tail
    /\ pPc' = "dropping"
    /\ UNCHANGED <<qVars, policy, stop, pTry, offered, cVars, oVars, drops, delivered,
                   overlap, oMoved>>

\* cf_queue_drop() stores tail; the victim is counted, the push tried again.
DropStore ==
    /\ pPc = "dropping"
    /\ tail' = After(pTail)
    /\ drops' = drops + 1
    /\ pTry' = 1
    /\ pPc' = "push"
    /\ overlap' = (overlap \/ cPc # "idle")
    /\ UNCHANGED <<head, slots, policy, stop, pTail, offered, cVars, oVars, delivered, oMoved>>

-----------------------------------------------------------------------------
(* The consumer: cf_queue_pop() and cf_queue_length().                     *)

\* cf_queue_pop() loads its own index.
PopTail ==
    /\ cPc = "idle"
    /\ cTail' = tail
    /\ cPc' = "popHead"
    /\ UNCHANGED <<qVars, policy, stop, pVars, cHead, cElem, cLen, oVars, drops, delivered,
                   overlap, oMoved>>

\* cf_queue_pop() loads head and finds the queue empty: it returns 1.
PopEmpty ==
    /\ cPc = "popHead"
    /\ cTail = head
    /\ cPc' = "idle"
    /\ UNCHANGED <<qVars, policy, stop, pVars, cTail, cHead, cElem, cLen, oVars, drops,
                   delivered, overlap, oMoved>>

\* Mutant of PopBegin: the empty test is missing.
PopBeginUnchecked ==
    /\ cPc = "popHead"
    /\ cElem' = slots[cTail]
    /\ cPc' = "copying"
    /\ UNCHANGED <<qVars, policy, stop, pVars, cTail, cHead, cLen, oVars, drops, delivered,
                   overlap, oMoved>>

\* cf_queue_pop() loads head, finds an element and starts the memcpy.
PopBegin ==
    /\ cPc = "popHead"
    /\ cTail # head
    /\ cElem' = slots[cTail]
    /\ cPc' = "copying"
    /\ UNCHANGED <<qVars, policy, stop, pVars, cTail, cHead, cLen, oVars, drops, delivered,
                   overlap, oMoved>>

\* The memcpy ends; bytes that changed under it leave a mixture.
PopCopied ==
    /\ cPc = "copying"
    /\ cElem' = IF slots[cTail] = cElem THEN cElem ELSE Torn
    /\ cPc' = "release"
    /\ UNCHANGED <<qVars, policy, stop, pVars, cTail, cHead, cLen, oVars, drops, delivered,
                   overlap, oMoved>>

\* The release store of tail; pop returns 0 and the caller has the element.
PopRelease ==
    /\ cPc = "release"
    /\ tail' = After(cTail)
    /\ delivered' = Append(delivered, cElem)
    /\ cPc' = "idle"
    /\ overlap' = (overlap \/ pPc = "dropping")
    /\ UNCHANGED <<head, slots, policy, stop, pVars, cTail, cHead, cElem, cLen, oVars, drops, oMoved>>

\* cf_queue_length() called by the consuming thread: load head ...
LengthHead ==
    /\ cPc = "idle"
    /\ cHead' = head
    /\ cPc' = "lenTail"
    /\ UNCHANGED <<qVars, policy, stop, pVars, cTail, cElem, cLen, oVars, drops, delivered,
                   overlap, oMoved>>

\* Mutant of LengthTail: the wrapped case subtracts the wrong way round.
LengthTailWrapWrong ==
    /\ cPc = "lenTail"
    /\ cLen' = IF cHead >= tail THEN cHead - tail ELSE tail - cHead
    /\ cPc' = "lenDone"
    /\ UNCHANGED <<qVars, policy, stop, pVars, cTail, cHead, cElem, oVars, drops, delivered,
                   overlap, oMoved>>

\* ... then tail, and compute.
LengthTail ==
    /\ cPc = "lenTail"
    /\ cLen' = Length(cHead, tail)
    /\ cPc' = "lenDone"
    /\ UNCHANGED <<qVars, policy, stop, pVars, cTail, cHead, cElem, oVars, drops, delivered,
                   overlap, oMoved>>

\* The caller has used the value.
LengthUsed ==
    /\ cPc = "lenDone"
    /\ cPc' = "idle"
    /\ UNCHANGED <<qVars, policy, stop, pVars, cTail, cHead, cElem, cLen, oVars, drops,
                   delivered, overlap, oMoved>>

-----------------------------------------------------------------------------
(* The main thread asks for the length; anyone may request the stop.       *)

ObserveHead ==
    /\ oPc = "idle"
    /\ oHead' = head
    /\ oPc' = "tail"
    /\ oMoved' = FALSE
    /\ UNCHANGED <<qVars, policy, stop, pVars, cVars, oLen, drops, delivered, overlap>>

\* Mutant of ObserveTail: a wrapped difference is clipped to zero.
ObserveTailClipped ==
    /\ oPc = "tail"
    /\ oLen' = IF oHead >= tail THEN oHead - tail ELSE 0
    /\ oPc' = "done"
    /\ UNCHANGED <<qVars, policy, stop, pVars, cVars, oHead, drops, delivered, overlap, oMoved>>

ObserveTail ==
    /\ oPc = "tail"
    /\ oLen' = Length(oHead, tail)
    /\ oPc' = "done"
    /\ UNCHANGED <<qVars, policy, stop, pVars, cVars, oHead, drops, delivered, overlap, oMoved>>

ObserveUsed ==
    /\ oPc = "done"
    /\ oPc' = "idle"
    /\ UNCHANGED <<qVars, policy, stop, pVars, cVars, oHead, oLen, drops, delivered, overlap, oMoved>>

\* cf_stop_notify() or a handled signal.
NotifyStop ==
    /\ ~stop
    /\ stop' = TRUE
    /\ UNCHANGED <<qVars, policy, pVars, cVars, oVars, drops, delivered, overlap, oMoved>>

-----------------------------------------------------------------------------

ProducerStep ==
    \/ PushBegin \/ PushFull \/ PushCopied \/ PushPublish
    \/ Refuse \/ BlockRetry \/ DropBegin \/ DropStore

ConsumerStep ==
    \/ PopTail \/ PopEmpty \/ PopBegin \/ PopCopied \/ PopRelease
    \/ LengthHead \/ LengthTail \/ LengthUsed

ObserverStep == ObserveHead \/ ObserveTail \/ ObserveUsed

Next == PushPolicy \/ ProducerStep \/ ConsumerStep \/ ObserverStep \/ NotifyStop

Spec == Init /\ [][Next]_vars

\* A thread inside cf_queue_push_policy() is scheduled; nothing is assumed
\* of the consumer.
FairSpec == Spec /\ WF_vars(ProducerStep)

-----------------------------------------------------------------------------
(* Properties.                                                             *)

TypeOK ==
    /\ head \in Slot /\ tail \in Slot
    /\ slots \in [Slot -> Value]
    /\ policy \in Policies
    /\ stop \in BOOLEAN
    /\ pPc \in {"idle", "push", "copying", "publish", "full", "dropping"}
    /\ pTail \in Slot /\ pTry \in 0..(MaxRetries + 1) /\ offered \in 0..MaxItems
    /\ (pPc # "idle" => offered > 0)
    /\ cPc \in {"idle", "popHead", "copying", "release", "lenTail", "lenDone"}
    /\ cTail \in Slot /\ cHead \in Slot /\ cElem \in Value /\ cLen \in Slot
    /\ oPc \in {"idle", "tail", "done"}
    /\ oHead \in Slot /\ oLen \in Slot
    /\ drops \in Nat
    /\ delivered \in Seq(Value)
    /\ overlap \in BOOLEAN /\ oMoved \in BOOLEAN

\* The ring's contents, oldest first: what the indices and the slots mean.
Contents == [i \in 1..Length(head, tail) |-> slots[(tail + i - 1) % Capacity]]

\* cf_queue.c: "every element is fully written before it is read, and never
\* overwritten before it is read".  Pop never returns a mixture of elements or
\* a slot nobody wrote.
NeverTorn == cPc = "release" => cElem \in Items

\* The same guarantee, as far as the code keeps it: it holds for every policy
\* as long as no drop_oldest eviction overlaps an operation of the consumer.
NeverTornUnlessOverlap == overlap \/ NeverTorn

\* D9 "every drop is counted": offered = delivered + queued + dropped + the one
\* element still inside cf_queue_push_policy(), for every interleaving of the
\* producer and the consumer in which no eviction overlaps a pop.
ConservedUnlessOverlap ==
    overlap \/ offered = Len(delivered) + Length(head, tail) + drops
                           + (IF pPc = "idle" THEN 0 ELSE 1)

\* The length the consuming thread reads never exceeds what it can pop, though
\* the two loads are not atomic: the redis producer's exit test and its count
\* of what it abandons use it.
ConsumerLengthUnlessOverlap ==
    overlap \/ (cPc = "lenDone" => cLen <= Length(head, tail))

\* The main thread may read a length the queue never had, but a zero it reads
\* while no push completes is a real zero: the --replay completion test.
ObservedZeroUnlessOverlap ==
    overlap \/ (oPc = "done" /\ oLen = 0 /\ ~oMoved => head = tail)

Fifo == INSTANCE BoundedFifo WITH
            Bound <- Capacity - 1, Elements <- Items,
            queue <- Contents, delivered <- delivered, drops <- drops

\* Every step of the two threads is a step of the bounded FIFO, or invisible
\* to it, up to the first step in which an eviction overlaps the consumer.
FifoUnlessOverlap == Fifo!Init /\ [][overlap' \/ [Fifo!Next]_(Fifo!vars)]_vars

\* cf_queue_push_policy() always returns, whatever the consumer does: the
\* block policy is bounded and never wedges the capture thread.
PushReturns == (pPc # "idle") ~> (pPc = "idle")

=============================================================================
