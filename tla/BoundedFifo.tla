----------------------------- MODULE BoundedFifo -----------------------------
(***************************************************************************)
(* What a cf_queue_t driven through cf_queue_push_policy() promises: a     *)
(* bounded first-in first-out buffer with one producer and one consumer,   *)
(* in which an element leaves only by being delivered or by being counted  *)
(* into the drop counter.  There are no slots, indices or half-done copies *)
(* here; SpscQueue is shown to implement this specification.               *)
(***************************************************************************)
EXTENDS Integers, Sequences

CONSTANTS
    Bound,      \* usable places: cf_queue_capacity() = capacity - 1
    Elements    \* what may be queued

VARIABLES
    queue,      \* accepted, neither delivered nor evicted; oldest first
    delivered,  \* everything the consumer got, in order
    drops       \* the drop counter handed to cf_queue_push_policy()

vars == <<queue, delivered, drops>>

Init ==
    /\ queue = <<>>
    /\ delivered = <<>>
    /\ drops = 0

\* The producer's element is accepted.
Push ==
    /\ Len(queue) < Bound
    /\ \E e \in Elements : queue' = Append(queue, e)
    /\ UNCHANGED <<delivered, drops>>

\* The producer's element is refused, and counted.
Refuse ==
    /\ drops' = drops + 1
    /\ UNCHANGED <<queue, delivered>>

\* drop_oldest: the oldest element makes room, and is counted.
Evict ==
    /\ queue # <<>>
    /\ queue' = Tail(queue)
    /\ drops' = drops + 1
    /\ UNCHANGED delivered

\* The consumer gets the oldest element.
Pop ==
    /\ queue # <<>>
    /\ delivered' = Append(delivered, Head(queue))
    /\ queue' = Tail(queue)
    /\ UNCHANGED drops

Next == Push \/ Refuse \/ Evict \/ Pop

Spec == Init /\ [][Next]_vars

=============================================================================
