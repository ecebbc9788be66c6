------------------------- MODULE RedisProducerProofs -------------------------
(***************************************************************************)
(* For every queue size, pipeline length, number of events and number of   *)
(* connections: the producer accounts for every event it is fed, takes no  *)
(* reply for another command's, adds no event more than twice and loses    *)
(* one early only when it could not be appended.                           *)
(***************************************************************************)
EXTENDS RedisProducer, FiniteSetTheorems, TLAPS

(* The inductive invariant.                                                *)

\* Locals of do_flush() are reset outside it; a first attempt flushes everything.
LocalsReset ==
    /\ pc # "flush" => drained = 0 /\ count = 0
    /\ pc = "flush" /\ attempt = 1 => count = Len(inflight)
    /\ pc \in {"retry", "append"} => attempt = 2

\* Where the thread has a connection, and what it cannot have without one.
Connection ==
    /\ pc \in {"pop", "flushTest", "append", "flush"} => ctx # NULL
    /\ pc \in {"connect", "reconnect", "retry", "done"} => ctx = NULL
    /\ ctx = NULL => ~alive
    /\ ctx = NULL /\ pc \notin {"retry", "done"} => inflight = <<>>
    /\ \A c \in Conns : c > nconn => wire[c] = <<>>

\* The thread stops, and its deadline runs, only on a request.
StopSeen ==
    /\ stopping => stop
    /\ clock # "unset" => stop
    /\ pc \in {"exitTest", "deadlineTest", "abandon", "done"} => stop

\* Whatever is before drained has been answered.
Answered == \A i \in 1..drained : inflight[i] \in acked \cup refused

\* The last look at q_evt saw all of it.
LastLook ==
    /\ pc = "abandon" => remaining <= Len(queue)
    /\ ~late => /\ pc = "abandon" => remaining = Len(queue)
                /\ pc = "done" => queue = <<>> /\ inflight = <<>>

\* Events are handled in the order they were fed.
InOrder ==
    /\ \A i \in 1..Len(queue) : queue[i] = offered - Len(queue) + i
    /\ \A i \in 1..Len(inflight) : inflight[i] <= offered - Len(queue)
    /\ \A i, j \in 1..Len(inflight) : i < j => inflight[i] < inflight[j]
    /\ Len(queue) <= offered

\* Appended once before the retry, twice at most with it.
SentOnce ==
    /\ \A e \in Events : sent[e] <= 2 /\ (e > offered - Len(queue) => sent[e] = 0)
    /\ pc = "flush" /\ attempt = 2
       => \A i \in 1..Len(inflight) : sent[inflight[i]] = IF i <= count THEN 2 ELSE 1
    /\ ~(pc = "flush" /\ attempt = 2) => \A i \in 1..Len(inflight) : sent[inflight[i]] = 1

\* How many commands of inflight the current connection has been given.
Given == IF pc \in {"append", "flush"} THEN count ELSE Len(inflight)

\* Replies, commands on the wire and commands buffered are, in this order, the
\* unanswered part of inflight.
Aligned ==
    ctx # NULL =>
      /\ drained + Len(reps) + Len(out) <= Given
      /\ \A i \in 1..Len(reps) : reps[i] = TRUE => applied[inflight[drained + i]] > 0
      /\ alive => /\ drained + Len(reps) + Len(wire[ctx]) + Len(out) = Given
                  /\ \A i \in 1..Len(wire[ctx]) : wire[ctx][i] = inflight[drained + Len(reps) + i]
                  /\ \A i \in 1..Len(out) : out[i] = inflight[Given - Len(out) + i]

\* No connection carries an event twice.
NoRepeat == \A c \in Conns : \A i, j \in 1..Len(wire[c]) : wire[c][i] = wire[c][j] => i = j

\* Connections an event is still under way on.
Carriers(e) == {c \in Conns : e \in Elems(wire[c])}

\* What is buffered for a connection that is up.
Buffered(e) == IF alive /\ e \in Elems(out) THEN 1 ELSE 0

\* Each time an event was appended pays for one execution of it.
Paid == \A e \in Events : applied[e] + Cardinality(Carriers(e)) + Buffered(e) <= sent[e]

\* As many outcomes are counted as events fed that are no longer under way.
NumbersAddUp == late \/ offered = Len(queue) + (Len(inflight) - drained) + Counted

\* Every event fed is under way or has an outcome.
EventsAddUp ==
    late \/ 1..offered = Elems(queue) \cup Elems(inflight) \cup acked \cup refused \cup lost

\* The thread's state is sound.
Structure == TypeOK /\ LocalsReset /\ Connection /\ StopSeen /\ LastLook

\* Nothing is lost silently.
Accounting == Answered /\ NumbersAddUp /\ EventsAddUp

\* What is on the wire and in the streams is what was appended.
Delivery == InOrder /\ SentOnce /\ Aligned /\ NoRepeat /\ Paid /\ AckedWereAdded

IndInv == Structure /\ Accounting /\ Delivery

-----------------------------------------------------------------------------
(* Sequences.                                                              *)

\* The first m elements of a sequence.
LEMMA TakeFacts ==
    ASSUME NEW S, NEW s \in Seq(S), NEW m \in 0..Len(s)
    PROVE  /\ Take(s, m) \in Seq(S) /\ Len(Take(s, m)) = m
           /\ \A i \in 1..m : Take(s, m)[i] = s[i]
  BY DEF Take

\* What is left of a sequence without its first m elements.
LEMMA DropFacts ==
    ASSUME NEW S, NEW s \in Seq(S), NEW m \in 0..Len(s)
    PROVE  /\ Drop(s, m) \in Seq(S) /\ Len(Drop(s, m)) = Len(s) - m
           /\ \A i \in 1..(Len(s) - m) : Drop(s, m)[i] = s[m + i]
  BY DEF Drop

\* The head and the tail of a sequence that is not empty.
LEMMA TailFacts ==
    ASSUME NEW S, NEW s \in Seq(S), s # <<>>
    PROVE  /\ Len(s) \in Nat \ {0} /\ Head(s) = s[1] /\ Head(s) \in S
           /\ Tail(s) \in Seq(S) /\ Len(Tail(s)) = Len(s) - 1
           /\ \A i \in 1..(Len(s) - 1) : Tail(s)[i] = s[i + 1]
  OBVIOUS

\* A sequence with one more element.
LEMMA AppendFacts ==
    ASSUME NEW S, NEW s \in Seq(S), NEW e \in S
    PROVE  /\ Append(s, e) \in Seq(S) /\ Len(Append(s, e)) = Len(s) + 1
           /\ \A i \in 1..Len(s) : Append(s, e)[i] = s[i]
           /\ Append(s, e)[Len(s) + 1] = e
  OBVIOUS

\* Two sequences, one after the other.
LEMMA ConcatFacts ==
    ASSUME NEW S, NEW s \in Seq(S), NEW t \in Seq(S)
    PROVE  /\ s \o t \in Seq(S) /\ Len(s \o t) = Len(s) + Len(t)
           /\ \A i \in 1..Len(s) : (s \o t)[i] = s[i]
           /\ \A i \in 1..Len(t) : (s \o t)[Len(s) + i] = t[i]
  OBVIOUS

\* Membership in the elements of a sequence.
LEMMA ElemsFacts ==
    ASSUME NEW S, NEW s \in Seq(S)
    PROVE  /\ \A x : x \in Elems(s) <=> \E i \in 1..Len(s) : s[i] = x
           /\ Elems(s) \subseteq S
           /\ Len(s) \in Nat
           /\ \A i \in 1..Len(s) : s[i] \in S
           /\ s = <<>> <=> Len(s) = 0
  BY DEF Elems

\* The empty sequence has no elements.
LEMMA ElemsEmpty == Elems(<<>>) = {}
  BY DEF Elems

\* Appending adds an element to a sequence's elements.
LEMMA ElemsAppend ==
    ASSUME NEW S, NEW s \in Seq(S), NEW e \in S
    PROVE  Elems(Append(s, e)) = Elems(s) \cup {e}
<1>0. Append(s, e) \in Seq(S) /\ Len(s) \in Nat
  BY AppendFacts
<1>4. \A x : (\E i \in 1..Len(Append(s, e)) : Append(s, e)[i] = x)
             <=> (x = e \/ \E i \in 1..Len(s) : s[i] = x)
  BY <1>0, AppendFacts
<1>5. \A x : x \in Elems(Append(s, e)) <=> \E i \in 1..Len(Append(s, e)) : (Append(s, e))[i] = x
  BY <1>0, ElemsFacts
<1>6. \A x : x \in Elems(s) <=> \E i \in 1..Len(s) : (s)[i] = x
  BY <1>0, ElemsFacts
<1> QED
  BY <1>4, <1>5, <1>6

\* A pop removes at most the head from the elements.
LEMMA ElemsHeadTail ==
    ASSUME NEW S, NEW s \in Seq(S), s # <<>>
    PROVE  Elems(s) = {Head(s)} \cup Elems(Tail(s))
<1>0. Tail(s) \in Seq(S)
  BY TailFacts
<1>1. \A i \in 1..Len(s) : i = 1 \/ (i - 1 \in 1..Len(Tail(s)) /\ s[i] = Tail(s)[i - 1])
  BY TailFacts
<1>2. \A i \in 1..Len(Tail(s)) : i + 1 \in 1..Len(s) /\ Tail(s)[i] = s[i + 1]
  BY TailFacts
<1>3. 1 \in 1..Len(s) /\ s[1] = Head(s)
  BY TailFacts
<1>4. \A x : (\E i \in 1..Len(s) : s[i] = x)
             <=> (x = Head(s) \/ \E i \in 1..Len(Tail(s)) : Tail(s)[i] = x)
  BY <1>1, <1>2, <1>3
<1> QED
  BY <1>0, <1>4, ElemsFacts

\* Cutting a sequence in two loses no element.
LEMMA ElemsTakeDrop ==
    ASSUME NEW S, NEW s \in Seq(S), NEW m \in 0..Len(s)
    PROVE  Elems(s) = Elems(Take(s, m)) \cup Elems(Drop(s, m))
<1>0. Take(s, m) \in Seq(S) /\ Drop(s, m) \in Seq(S)
  BY TakeFacts, DropFacts
<1>1. \A i \in 1..Len(s) : \/ i \in 1..Len(Take(s, m)) /\ s[i] = Take(s, m)[i]
                           \/ i - m \in 1..Len(Drop(s, m)) /\ s[i] = Drop(s, m)[i - m]
  BY TakeFacts, DropFacts
<1>2. \A i \in 1..Len(Take(s, m)) : i \in 1..Len(s) /\ Take(s, m)[i] = s[i]
  BY TakeFacts
<1>3. \A i \in 1..Len(Drop(s, m)) : m + i \in 1..Len(s) /\ Drop(s, m)[i] = s[m + i]
  BY DropFacts
<1>4. \A x : (\E i \in 1..Len(s) : s[i] = x)
             <=> \/ \E i \in 1..Len(Take(s, m)) : Take(s, m)[i] = x
                 \/ \E i \in 1..Len(Drop(s, m)) : Drop(s, m)[i] = x
  BY <1>1, <1>2, <1>3
<1>5. \A x : x \in Elems(s) <=> \E i \in 1..Len(s) : (s)[i] = x
  BY <1>0, ElemsFacts
<1>6. \A x : x \in Elems(Take(s, m)) <=> \E i \in 1..Len(Take(s, m)) : (Take(s, m))[i] = x
  BY <1>0, ElemsFacts
<1>7. \A x : x \in Elems(Drop(s, m)) <=> \E i \in 1..Len(Drop(s, m)) : (Drop(s, m))[i] = x
  BY <1>0, ElemsFacts
<1> QED
  BY <1>4, <1>5, <1>6, <1>7

\* Concatenation unites the elements.
LEMMA ElemsConcat ==
    ASSUME NEW S, NEW s \in Seq(S), NEW t \in Seq(S)
    PROVE  Elems(s \o t) = Elems(s) \cup Elems(t)
<1>0. s \o t \in Seq(S)
  BY ConcatFacts
<1>1. \A i \in 1..Len(s \o t) : \/ i \in 1..Len(s) /\ (s \o t)[i] = s[i]
                                \/ i - Len(s) \in 1..Len(t) /\ (s \o t)[i] = t[i - Len(s)]
  BY ConcatFacts
<1>2. \A i \in 1..Len(s) : i \in 1..Len(s \o t) /\ (s \o t)[i] = s[i]
  BY ConcatFacts
<1>3. \A i \in 1..Len(t) : Len(s) + i \in 1..Len(s \o t) /\ (s \o t)[Len(s) + i] = t[i]
  BY ConcatFacts
<1>4. \A x : (\E i \in 1..Len(s \o t) : (s \o t)[i] = x)
             <=> \/ \E i \in 1..Len(s) : s[i] = x
                 \/ \E i \in 1..Len(t) : t[i] = x
  BY <1>1, <1>2, <1>3
<1>5. \A x : x \in Elems(s \o t) <=> \E i \in 1..Len(s \o t) : (s \o t)[i] = x
  BY <1>0, ElemsFacts
<1>6. \A x : x \in Elems(s) <=> \E i \in 1..Len(s) : (s)[i] = x
  BY <1>0, ElemsFacts
<1>7. \A x : x \in Elems(t) <=> \E i \in 1..Len(t) : (t)[i] = x
  BY <1>0, ElemsFacts
<1> QED
  BY <1>4, <1>5, <1>6, <1>7
\* What reading a reply does, by the reply read.
LEMMA ReadReplyEffect ==
    ASSUME TypeConn, ReadReply
    PROVE  /\ pc = "flush" /\ drained < count /\ reps # <<>>
           /\ reps' = Tail(reps) /\ drained' = drained + 1
           /\ UNCHANGED <<queue, offered, stop, clock, pc, stopping, inflight, count, attempt,
                          remaining, ctx, nconn, alive, out, wire, applied, lost, sent, late>>
           /\ \/ /\ Head(reps) = TRUE
                 /\ stats' = [stats EXCEPT !.xadd = @ + 1]
                 /\ acked' = acked \cup {inflight[drained + 1]} /\ refused' = refused
              \/ /\ Head(reps) = FALSE
                 /\ stats' = [stats EXCEPT !.errors = @ + 1]
                 /\ refused' = refused \cup {inflight[drained + 1]} /\ acked' = acked
<1>1. reps \in Seq(BOOLEAN) /\ reps # <<>>
  BY Zenon DEF TypeConn, ReadReply
<1>2. Head(reps) \in BOOLEAN
  BY <1>1
<1>3. CASE Head(reps) = TRUE
  BY <1>3, Zenon DEF ReadReply, feed
<1>4. CASE Head(reps) = FALSE
  BY <1>4, Zenon DEF ReadReply, feed
<1> QED
  BY <1>2, <1>3, <1>4, Zenon

-----------------------------------------------------------------------------
(* What a step leaves alone.                                               *)

\* q_evt changes only by a push, a pop or the abandonment of what is left.
LEMMA FeedFrame ==
    [Next]_vars => UNCHANGED <<queue, offered>> \/ Feed \/ PopAppend \/ PopLose \/ Abandon
  BY DEF Next, ProducerStep, vars, feed, locals, conn, hist, Connected, ConnectGivesUp,
      RetryGivesUp, Top, ExitTest,
    DeadlineTest, PopNothing, FlushNow, FlushLater, WriteOut, ReadReply, FlushDone, FirstIoError,
    Reappend, SecondIoError, RequestStop, DeadlinePasses, Break, Execute

\* Steps that leave the pipeline's locals alone, and those that do not.
LEMMA InflightFrame ==
    [Next]_vars => \/ UNCHANGED <<inflight, count, drained>>
                   \/ RetryGivesUp \/ Abandon \/ PopAppend \/ FlushNow \/ ReadReply \/ FlushDone
                   \/ FirstIoError \/ Reappend \/ SecondIoError
  BY DEF Next, ProducerStep, vars, feed, locals, conn, hist, Connected, ConnectGivesUp, Top,
      ExitTest,
    DeadlineTest, PopLose, PopNothing, FlushLater, WriteOut, Feed, RequestStop, DeadlinePasses,
        Break, Execute

\* Steps that leave the connection alone, and those that do not.
LEMMA ConnFrame ==
    [Next]_vars => \/ UNCHANGED <<ctx, nconn, alive, out, wire, reps>>
                   \/ Connected \/ ExitTest \/ Abandon \/ PopAppend \/ WriteOut \/ ReadReply
                   \/ FirstIoError \/ Reappend \/ SecondIoError \/ Break
                   \/ \E c \in Conns, ok \in BOOLEAN : Execute(c, ok)
  BY DEF Next, ProducerStep, vars, feed, locals, conn, hist, ConnectGivesUp, RetryGivesUp, Top,
    DeadlineTest, PopLose, PopNothing, FlushNow, FlushLater, FlushDone, Feed, RequestStop,
        DeadlinePasses

\* Steps that count no outcome, and those that do.
LEMMA StatsFrame ==
    [Next]_vars => \/ UNCHANGED <<stats, acked, refused, lost>>
                   \/ Connected \/ RetryGivesUp \/ Abandon \/ PopLose \/ ReadReply \/ FlushDone
                   \/ SecondIoError
  BY DEF Next, ProducerStep, vars, feed, locals, conn, hist, ConnectGivesUp, Top, ExitTest,
    DeadlineTest, PopAppend, PopNothing, FlushNow, FlushLater, WriteOut, FirstIoError, Reappend,
        Feed, RequestStop, DeadlinePasses, Break, Execute

\* Steps that neither append nor execute a command, and those that do.
LEMMA HistFrame ==
    [Next]_vars => \/ UNCHANGED <<applied, sent>>
                   \/ PopAppend \/ Reappend \/ \E c \in Conns, ok \in BOOLEAN : Execute(c, ok)
  BY DEF Next, ProducerStep, vars, feed, locals, conn, hist, Connected, ConnectGivesUp,
         RetryGivesUp, Top, ExitTest, DeadlineTest, Abandon, PopLose, PopNothing, FlushNow,
         FlushLater, WriteOut, ReadReply, FlushDone, FirstIoError, SecondIoError, Feed,
         RequestStop, DeadlinePasses, Break

-----------------------------------------------------------------------------
(* Types.                                                                  *)

\* Every step keeps q_evt's types.
LEMMA TypeQueueStep == TypeOK /\ [Next]_vars => TypeQueue'
<1> SUFFICES ASSUME TypeOK, [Next]_vars PROVE TypeQueue'
  OBVIOUS
<1> USE EventsAssumption, QueueCapAssumption DEF TypeOK, TypeQueue
<1>1. CASE UNCHANGED <<queue, offered>>
  BY <1>1
<1>2. CASE Feed
  <2>1. offered + 1 \in Events /\ queue' = Append(queue, offered + 1)
    BY <1>2 DEF Feed, Events
  <2> QED
    BY <1>2, <2>1, AppendFacts DEF Feed
<1>3. CASE PopAppend \/ PopLose
  <2>1. queue # <<>> /\ queue' = Tail(queue) /\ offered' = offered
    BY <1>3 DEF PopAppend, PopLose, feed
  <2> QED
    BY <2>1, TailFacts
<1>4. CASE Abandon
  BY <1>4 DEF Abandon
<1> QED
  BY <1>1, <1>2, <1>3, <1>4, FeedFrame

\* Every step keeps the types of the thread's control state.
LEMMA TypeControlStep == TypeOK /\ [Next]_vars => TypeControl'
<1> SUFFICES ASSUME TypeOK, [Next]_vars PROVE TypeControl'
  OBVIOUS
<1>0. stop \in BOOLEAN /\ stopping \in BOOLEAN /\ late \in BOOLEAN
  BY DEF TypeOK, TypeControl
<1>1. stop' \in BOOLEAN /\ stopping' \in BOOLEAN /\ late' \in BOOLEAN
  BY <1>0, Zenon
  DEF Next, ProducerStep, vars, feed, locals, conn, hist, Connected,
      ConnectGivesUp, RetryGivesUp, Top, Sending, ExitTest, Leave, DeadlineTest, Abandon, PopAppend,
      PopLose, PopNothing, FlushNow, FlushLater, WriteOut, ReadReply, FlushDone, FirstIoError,
      Reappend, SecondIoError, Feed, RequestStop, DeadlinePasses, Break, Execute
<1>2. /\ clock' \in {"unset", "running", "passed"} /\ attempt' \in {1, 2}
      /\ pc' \in {"connect", "reconnect", "retry", "append", "top", "exitTest", "deadlineTest",
                 "abandon", "pop", "flushTest", "flush", "done"}
  BY
  DEF TypeOK, TypeControl, Next, ProducerStep, vars, feed, locals, conn, hist, Connected,
      ConnectGivesUp, RetryGivesUp, Top, Sending, ExitTest, Leave, DeadlineTest, Abandon, PopAppend,
      PopLose, PopNothing, FlushNow, FlushLater, WriteOut, ReadReply, FlushDone, FirstIoError,
      Reappend, SecondIoError, Feed, RequestStop, DeadlinePasses, Break, Execute
<1>3. remaining' \in 0..QueueCap
  <2>1. Len(queue) \in 0..QueueCap /\ remaining \in 0..QueueCap
    BY QueueCapAssumption, ElemsFacts DEF TypeOK, TypeQueue, TypeControl
  <2> QED
    BY <2>1
    DEF Next, ProducerStep, vars, feed, locals, conn, hist, Connected,
      ConnectGivesUp, RetryGivesUp, Top, Sending, ExitTest, Leave, DeadlineTest, Abandon, PopAppend,
      PopLose, PopNothing, FlushNow, FlushLater, WriteOut, ReadReply, FlushDone, FirstIoError,
      Reappend, SecondIoError, Feed, RequestStop, DeadlinePasses, Break, Execute
<1> QED
  BY <1>1, <1>2, <1>3 DEF TypeControl

\* Every step keeps the types of the pipeline's locals; in particular neither
\* count nor drained passes the end of inflight.
LEMMA TypeInflightStep == TypeOK /\ LocalsReset /\ [Next]_vars => TypeInflight'
<1> SUFFICES ASSUME TypeOK, LocalsReset, [Next]_vars PROVE TypeInflight'
  OBVIOUS
<1> USE PipelineAssumption DEF TypeOK, TypeInflight
<1>0. Len(inflight) \in Nat
  BY ElemsFacts
<1>1. CASE UNCHANGED <<inflight, count, drained>>
  BY <1>1
<1>2. CASE RetryGivesUp \/ Abandon \/ FlushDone \/ SecondIoError
  <2>1. inflight' = <<>> /\ count' = 0 /\ drained' = 0
    BY <1>2 DEF RetryGivesUp, Abandon, FlushDone, SecondIoError, LocalsReset
  <2> QED
    BY <2>1
<1>3. CASE PopAppend
  BY <1>3, <1>0, TailFacts, AppendFacts DEF PopAppend, TypeQueue, LocalsReset
<1>4. CASE FlushNow
  BY <1>4, <1>0 DEF FlushNow
<1>5. CASE ReadReply
  <2>1. inflight' = inflight /\ count' = count /\ drained' = drained + 1 /\ drained < count
    BY <1>5, ReadReplyEffect
  <2> QED
    BY <2>1, <1>0
<1>6. CASE FirstIoError
  <2>1. inflight' = Drop(inflight, drained) /\ count' = 0 /\ drained' = 0
    BY <1>6 DEF FirstIoError
  <2>2. inflight' \in Seq(Events) /\ Len(inflight') = Len(inflight) - drained
    BY <2>1, <1>0, DropFacts
  <2> QED
    BY <2>1, <2>2, <1>0
<1>7. CASE Reappend
  BY <1>7, <1>0 DEF Reappend, LocalsReset
<1> QED
  BY <1>1, <1>2, <1>3, <1>4, <1>5, <1>6, <1>7, InflightFrame

\* Every step keeps the types of the connection and what travels on it.
LEMMA TypeConnStep == TypeOK /\ [Next]_vars => TypeConn'
<1> SUFFICES ASSUME TypeOK, [Next]_vars PROVE TypeConn'
  OBVIOUS
<1> USE ConnsAssumption DEF TypeOK, TypeConn
<1>1. CASE UNCHANGED <<ctx, nconn, alive, out, wire, reps>>
  BY <1>1
<1>2. CASE Connected
  BY <1>2 DEF Connected
<1>10. CASE ExitTest \/ Abandon
  <2>1. /\ UNCHANGED <<nconn, out, wire, reps>>
        /\ (ctx' = ctx /\ alive' = alive) \/ (ctx' = 0 /\ alive' = FALSE)
    BY <1>10 DEF ExitTest, Abandon, Leave, NULL
  <2>2. ctx' \in 0..nconn
    BY <2>1
  <2>3. alive' \in BOOLEAN
    BY <2>1
  <2> QED
    BY <2>1, <2>2, <2>3
<1>3. CASE PopAppend
  BY <1>3, TailFacts, AppendFacts DEF PopAppend, TypeQueue
<1>4. CASE WriteOut
  <2>1. \A c \in Conns : wire[c] \o out \in Seq(Events)
    BY ConcatFacts
  <2>2. wire' = [wire EXCEPT ![ctx] = @ \o out] /\ out' = <<>> /\ UNCHANGED <<ctx, nconn, alive, reps>>
    BY <1>4 DEF WriteOut
  <2>3. wire' \in [Conns -> Seq(Events)]
    BY <2>1, <2>2
  <2> QED
    BY <2>2, <2>3
<1>5. CASE ReadReply
  <2>1. reps # <<>> /\ reps' = Tail(reps) /\ UNCHANGED <<ctx, nconn, alive, out, wire>>
    BY <1>5, ReadReplyEffect
  <2>2. Tail(reps) \in Seq(BOOLEAN)
    BY <2>1, TailFacts
  <2> QED
    BY <2>1, <2>2
<1>6. CASE FirstIoError \/ SecondIoError
  BY <1>6 DEF FirstIoError, SecondIoError, NULL
<1>7. CASE Reappend
  BY <1>7, TakeFacts DEF Reappend, TypeInflight
<1>8. CASE Break
  <2>1. PICK k \in 0..Len(wire[ctx]), m \in 0..Len(reps) :
           wire' = [wire EXCEPT ![ctx] = Take(@, k)] /\ reps' = Take(reps, m)
    BY <1>8 DEF Break
  <2>2. Take(reps, m) \in Seq(BOOLEAN) /\ (ctx \in Conns => Take(wire[ctx], k) \in Seq(Events))
    BY TakeFacts
  <2> QED
    BY <1>8, <2>1, <2>2 DEF Break
<1>9. ASSUME NEW c \in Conns, NEW ok \in BOOLEAN, Execute(c, ok) PROVE TypeConn'
  <2>1. Tail(wire[c]) \in Seq(Events) /\ Append(reps, ok) \in Seq(BOOLEAN)
    BY <1>9, TailFacts, AppendFacts DEF Execute
  <2> QED
    BY <1>9, <2>1 DEF Execute
<1> QED
  BY <1>1, <1>2, <1>3, <1>4, <1>5, <1>6, <1>7, <1>8, <1>9, <1>10, ConnFrame

\* Every step keeps the types of the counters and of the sets they count.
LEMMA TypeStatsStep == TypeOK /\ LastLook /\ [Next]_vars => TypeStats'
<1> SUFFICES ASSUME TypeOK, LastLook, [Next]_vars PROVE TypeStats'
  OBVIOUS
<1>0. /\ inflight \in Seq(Events) /\ Len(inflight) \in Nat /\ Elems(inflight) \subseteq Events
      /\ drained \in 0..Len(inflight) /\ Elems(Drop(inflight, drained)) \subseteq Events
  BY ElemsFacts, DropFacts DEF TypeOK, TypeInflight
<1> USE DEF TypeStats, Counters
<1>1. CASE UNCHANGED <<stats, acked, refused, lost>>
  BY <1>1 DEF TypeOK
<1>2. CASE Connected
  BY <1>2 DEF Connected, TypeOK, hist
<1>3. CASE RetryGivesUp
  BY <1>3, <1>0 DEF RetryGivesUp, TypeOK
<1>4. CASE Abandon
  <2>1. Elems(Take(queue, remaining)) \subseteq Events
    BY <1>4, TakeFacts, ElemsFacts DEF Abandon, TypeOK, TypeQueue, TypeControl, LastLook
  <2> QED
    BY <1>4, <1>0, <2>1 DEF Abandon, TypeOK, TypeControl
<1>5. CASE PopLose
  <2>1. Head(queue) \in Events
    BY <1>5, TailFacts DEF PopLose, TypeOK, TypeQueue
  <2> QED
    BY <1>5, <2>1 DEF PopLose, TypeOK
<1>6. CASE ReadReply
  <2>0. drained + 1 \in 1..Len(inflight)
    BY <1>6, <1>0, ReadReplyEffect DEF TypeOK, TypeInflight
  <2>1. inflight[drained + 1] \in Events
    BY <1>0, <2>0, ElemsFacts
  <2>2. \/ /\ stats' = [stats EXCEPT !.xadd = @ + 1] /\ lost' = lost
           /\ acked' = acked \cup {inflight[drained + 1]} /\ refused' = refused
        \/ /\ stats' = [stats EXCEPT !.errors = @ + 1] /\ lost' = lost
           /\ refused' = refused \cup {inflight[drained + 1]} /\ acked' = acked
    BY <1>6, ReadReplyEffect DEF TypeOK
  <2> QED
    BY <2>1, <2>2 DEF TypeOK
<1>7. CASE FlushDone
  BY <1>7, <1>0 DEF FlushDone, TypeOK
<1>8. CASE SecondIoError
  BY <1>8, <1>0 DEF SecondIoError, TypeOK
<1> QED
  BY <1>1, <1>2, <1>3, <1>4, <1>5, <1>6, <1>7, <1>8, StatsFrame

\* Every step keeps the types of what the stream and the appends add up to.
LEMMA TypeHistStep == TypeOK /\ [Next]_vars => TypeHist'
<1> SUFFICES ASSUME TypeOK, [Next]_vars PROVE TypeHist'
  OBVIOUS
<1>1. CASE UNCHANGED <<applied, sent>>
  BY <1>1 DEF TypeOK, TypeHist
<1>2. CASE PopAppend
  BY <1>2, TailFacts DEF PopAppend, TypeOK, TypeQueue, TypeHist
<1>3. CASE Reappend
  BY <1>3 DEF Reappend, TypeOK, TypeHist
<1>4. ASSUME NEW c \in Conns, NEW ok \in BOOLEAN, Execute(c, ok) PROVE TypeHist'
  BY <1>4, TailFacts DEF Execute, TypeOK, TypeConn, TypeHist
<1> QED
  BY <1>1, <1>2, <1>3, <1>4, HistFrame

-----------------------------------------------------------------------------
(* Control: the locals, the connection, the stop and the last look at q_evt.*)

\* Every step keeps the locals of do_flush() reset outside it.
LEMMA LocalsResetStep == TypeOK /\ LocalsReset /\ [Next]_vars => LocalsReset'
<1> SUFFICES ASSUME TypeOK, LocalsReset, [Next]_vars PROVE LocalsReset'
  OBVIOUS
<1> USE DEF LocalsReset
<1>1. CASE ReadReply
  BY <1>1, ReadReplyEffect DEF TypeOK
<1>2. CASE ~ReadReply
  BY <1>2
  DEF Next, ProducerStep, vars, feed, locals, conn, hist, Connected,
      ConnectGivesUp, RetryGivesUp, Top, Sending, ExitTest, Leave, DeadlineTest, Abandon, PopAppend,
      PopLose, PopNothing, FlushNow, FlushLater, WriteOut, FlushDone, FirstIoError,
      Reappend, SecondIoError, Feed, RequestStop, DeadlinePasses, Break, Execute
<1> QED
  BY <1>1, <1>2

\* Every step keeps pc, the connection and the pipeline consistent.
LEMMA ConnectionStep == TypeOK /\ LocalsReset /\ Connection /\ [Next]_vars => Connection'
<1> SUFFICES ASSUME TypeOK, LocalsReset, Connection, [Next]_vars PROVE Connection'
  OBVIOUS
<1>1. (\A c \in Conns : c > nconn => wire[c] = <<>>)'
  <2> SUFFICES ASSUME NEW c \in Conns, c > nconn' PROVE wire'[c] = <<>>
    OBVIOUS
  <2>0. /\ c \in Int /\ nconn \in Int /\ ctx \in 0..nconn /\ wire \in [Conns -> Seq(Events)]
        /\ c > nconn => wire[c] = <<>>
    BY ConnsAssumption DEF Conns, TypeOK, TypeConn, Connection
  <2>1. CASE wire' = wire /\ nconn' \in {nconn, nconn + 1}
    BY <2>0, <2>1
  <2>2. CASE WriteOut \/ Break
    <3>1. nconn' = nconn /\ \E s : wire' = [wire EXCEPT ![ctx] = s]
      BY <2>2 DEF WriteOut, Break
    <3> QED
      BY <2>0, <3>1
  <2>3. ASSUME NEW d \in Conns, NEW ok \in BOOLEAN, Execute(d, ok) PROVE wire'[c] = <<>>
    BY <2>0, <2>3 DEF Execute
  <2>4. ReadReply => wire' = wire /\ nconn' = nconn
    BY ReadReplyEffect DEF TypeOK
  <2>5. Connected \/ ExitTest \/ Abandon \/ PopAppend \/ FirstIoError \/ Reappend \/ SecondIoError
        => wire' = wire /\ nconn' \in {nconn, nconn + 1}
    BY DEF Connected, ExitTest, Abandon, PopAppend, FirstIoError, Reappend, SecondIoError
  <2> QED
    BY <2>1, <2>2, <2>3, <2>4, <2>5, ConnFrame
<1>2. CASE ReadReply
  BY <1>1, <1>2, ReadReplyEffect DEF TypeOK, Connection
<1>3. CASE ~ReadReply
  BY <1>1, <1>3
  DEF Connection, NULL, TypeOK, TypeConn, Next, ProducerStep, vars, feed, locals, conn, hist,
      Connected,
      ConnectGivesUp, RetryGivesUp, Top, Sending, ExitTest, Leave, DeadlineTest, Abandon, PopAppend,
      PopLose, PopNothing, FlushNow, FlushLater, WriteOut, FlushDone, FirstIoError,
      Reappend, SecondIoError, Feed, RequestStop, DeadlinePasses, Break, Execute
<1> QED
  BY <1>2, <1>3

\* The thread's view of the stop follows the request.
LEMMA StopSeenStep == TypeOK /\ StopSeen /\ [Next]_vars => StopSeen'
<1> SUFFICES ASSUME TypeOK, StopSeen, [Next]_vars PROVE StopSeen'
  OBVIOUS
<1> USE DEF StopSeen
<1>1. CASE ReadReply
  BY <1>1, ReadReplyEffect DEF TypeOK
<1>2. CASE ~ReadReply
  BY <1>2
  DEF TypeOK, TypeControl, Next, ProducerStep, vars, feed, locals, conn, hist, Connected,
      ConnectGivesUp, RetryGivesUp, Top, Sending, ExitTest, Leave, DeadlineTest, Abandon, PopAppend,
      PopLose, PopNothing, FlushNow, FlushLater, WriteOut, FlushDone, FirstIoError,
      Reappend, SecondIoError, Feed, RequestStop, DeadlinePasses, Break, Execute
<1> QED
  BY <1>1, <1>2

\* The length the thread abandons by is current unless an event comes late.
LEMMA LastLookStep == TypeOK /\ LastLook /\ [Next]_vars => LastLook'
<1> SUFFICES ASSUME TypeOK, LastLook, [Next]_vars PROVE LastLook'
  OBVIOUS
<1>1. CASE ReadReply
  BY <1>1, ReadReplyEffect DEF TypeOK, LastLook
<1>2. CASE Feed
  <2>1. Len(queue) \in Nat /\ Len(queue') = Len(queue) + 1
    BY <1>2, EventsAssumption, AppendFacts, ElemsFacts DEF Feed, Events, TypeOK, TypeQueue
  <2>2. pc' = pc /\ remaining' = remaining /\ inflight' = inflight
        /\ (pc \in {"abandon", "done"} => late' = TRUE)
    BY <1>2 DEF Feed, locals
  <2> QED
    BY <2>1, <2>2 DEF TypeOK, TypeControl, LastLook
<1>3. CASE Abandon
  BY <1>3, ElemsFacts DEF Abandon, Leave, TypeOK, TypeQueue, TypeControl, LastLook
<1>4. CASE DeadlineTest
  BY <1>4, ElemsFacts DEF DeadlineTest, Sending, feed, conn, hist, TypeOK, TypeQueue, TypeControl,
      LastLook
<1>5. CASE ~ReadReply /\ ~Feed /\ ~Abandon /\ ~DeadlineTest
  BY <1>5
  DEF LastLook, Next, ProducerStep, vars, feed, locals, conn, hist, Connected,
      ConnectGivesUp, RetryGivesUp, Top, Sending, ExitTest, Leave, PopAppend,
      PopLose, PopNothing, FlushNow, FlushLater, WriteOut, FlushDone, FirstIoError,
      Reappend, SecondIoError, RequestStop, DeadlinePasses, Break, Execute
<1> QED
  BY <1>1, <1>2, <1>3, <1>4, <1>5

-----------------------------------------------------------------------------
(* Accounting.                                                             *)

\* Together: steps that move no event, and the ones that do.
LEMMA EventFrame ==
    [Next]_vars => \/ UNCHANGED <<queue, offered, inflight, count, drained, stats, acked, refused, lost>>
                   \/ Connected \/ Feed \/ PopAppend \/ PopLose \/ Abandon \/ RetryGivesUp \/ FlushNow
                   \/ ReadReply \/ FlushDone \/ FirstIoError \/ Reappend \/ SecondIoError
  BY DEF Next, ProducerStep, vars, feed, locals, conn, hist, ConnectGivesUp, Top, ExitTest,
    DeadlineTest, PopNothing, FlushLater, WriteOut, RequestStop, DeadlinePasses, Break, Execute

\* What was answered stays answered, and nothing else is taken for it.
LEMMA AnsweredStep == TypeOK /\ LocalsReset /\ Answered /\ [Next]_vars => Answered'
<1> SUFFICES ASSUME TypeOK, LocalsReset, Answered, [Next]_vars PROVE Answered'
  OBVIOUS
<1>1. CASE drained' = 0
  BY <1>1 DEF Answered
<1>2. CASE UNCHANGED <<inflight, drained, acked, refused>>
  BY <1>2 DEF Answered
<1>3. CASE ReadReply
  <2>1. /\ inflight' = inflight /\ drained' = drained + 1 /\ drained \in Nat
        /\ acked' \cup refused' = acked \cup refused \cup {inflight[drained + 1]}
    <3>1. inflight' = inflight /\ drained' = drained + 1
      BY <1>3, ReadReplyEffect DEF TypeOK
    <3>2. acked' \cup refused' = acked \cup refused \cup {inflight[drained + 1]}
      BY <1>3, ReadReplyEffect DEF TypeOK
    <3>3. drained \in Nat
      BY ElemsFacts DEF TypeOK, TypeInflight
    <3> QED
      BY <3>1, <3>2, <3>3
  <2>2. \A i \in 1..(drained + 1) : i \in 1..drained \/ i = drained + 1
    BY <2>1
  <2> QED
    BY <2>1, <2>2 DEF Answered
<1> QED
  BY <1>1, <1>2, <1>3, EventFrame
  DEF LocalsReset, Connected, Feed, PopAppend, PopLose, Abandon, RetryGivesUp, FlushNow, FlushDone,
      FirstIoError, Reappend, SecondIoError, hist, locals

\* Of the events in flight, those not in the unanswered tail are acknowledged
\* or refused.
LEMMA UnansweredTail ==
    ASSUME TypeOK, Answered
    PROVE  /\ Elems(Drop(inflight, drained)) \subseteq Elems(inflight)
           /\ Elems(inflight) \subseteq Elems(Drop(inflight, drained)) \cup acked \cup refused
           /\ Drop(inflight, drained) \in Seq(Events)
           /\ Len(Drop(inflight, drained)) = Len(inflight) - drained
<1>1. inflight \in Seq(Events) /\ drained \in 0..Len(inflight) /\ drained \in Nat
  BY ElemsFacts DEF TypeOK, TypeInflight
<1>2. Elems(inflight) = Elems(Take(inflight, drained)) \cup Elems(Drop(inflight, drained))
  BY <1>1, ElemsTakeDrop
<1>3. Elems(Take(inflight, drained)) \subseteq acked \cup refused
  <2>1. ASSUME NEW x \in Elems(Take(inflight, drained)) PROVE \E i \in 1..drained : x = inflight[i]
    <3>1. Take(inflight, drained) \in Seq(Events) /\ Len(Take(inflight, drained)) = drained
          /\ \A i \in 1..drained : Take(inflight, drained)[i] = inflight[i]
      BY <1>1, TakeFacts
    <3>2. \E i \in 1..Len(Take(inflight, drained)) : Take(inflight, drained)[i] = x
      BY <3>1, ElemsFacts
    <3> QED
      BY <3>1, <3>2
  <2> QED
    BY <2>1 DEF Answered
<1> QED
  BY <1>1, <1>2, <1>3, DropFacts

\* The outcomes counted are a number.
LEMMA CountedFacts == TypeStats => Counted \in Nat
  BY DEF TypeStats, Counters, Counted

\* A loss of k counts k outcomes.
LEMMA LostCounted ==
    ASSUME TypeStats, NEW k \in Nat, stats' = [stats EXCEPT !.lost = @ + k]
    PROVE  Counted' = Counted + k
  BY DEF TypeStats, Counters, Counted

\* A reply, whichever it is, counts one outcome.
LEMMA ReplyCounted ==
    ASSUME TypeStats,
           \/ stats' = [stats EXCEPT !.xadd = @ + 1]
           \/ stats' = [stats EXCEPT !.errors = @ + 1]
    PROVE  Counted' = Counted + 1
  BY DEF TypeStats, Counters, Counted

\* Once late, always late.
LEMMA LateStays == TypeOK /\ [Next]_vars /\ ~late' => ~late
<1>1. TypeOK /\ Feed /\ ~late' => ~late
  BY DEF Feed, TypeOK, TypeControl
<1>2. [Next]_vars => Feed \/ late' = late
  BY Zenon DEF Next, ProducerStep, vars, hist, Connected, ConnectGivesUp, RetryGivesUp, Top,
      ExitTest,
         DeadlineTest, Abandon, PopAppend, PopLose, PopNothing, FlushNow, FlushLater, WriteOut,
         ReadReply, FlushDone, FirstIoError, Reappend, SecondIoError, RequestStop,
         DeadlinePasses, Break, Execute
<1> QED
  BY <1>1, <1>2

\* Every step keeps the numbers adding up.
LEMMA NumbersStep ==
    TypeOK /\ LocalsReset /\ LastLook /\ NumbersAddUp /\ [Next]_vars => NumbersAddUp'
<1> SUFFICES ASSUME TypeOK, LocalsReset, LastLook, [Next]_vars, ~late, ~late',
                    offered = Len(queue) + (Len(inflight) - drained) + Counted
             PROVE  offered' = Len(queue') + (Len(inflight') - drained') + Counted'
  BY LateStays DEF NumbersAddUp
<1>0. /\ queue \in Seq(Events) /\ inflight \in Seq(Events) /\ Len(queue) \in Nat /\ Len(inflight) \in Nat
      /\ drained \in Nat /\ count \in Nat /\ offered \in Nat /\ Counted \in Nat
  BY ElemsFacts, EventsAssumption, CountedFacts DEF TypeOK, TypeQueue, TypeInflight
<1>1. CASE UNCHANGED <<queue, offered, inflight, count, drained, stats, acked, refused, lost>>
  BY <1>1 DEF Counted
<1>2. CASE Connected
  BY <1>2, CountedFacts DEF Connected, TypeOK, Counted, feed, locals
<1>3. CASE Feed
  BY <1>3, <1>0, AppendFacts, EventsAssumption DEF Feed, Events, locals, Counted
<1>4. CASE PopAppend
  BY <1>4, <1>0, AppendFacts, TailFacts DEF PopAppend, LocalsReset, Counted
<1>5. CASE PopLose
  <2>1. /\ Counted' = Counted + 1
        /\ UNCHANGED <<offered, inflight, drained>> /\ queue # <<>> /\ queue' = Tail(queue)
    BY <1>5, LostCounted DEF PopLose, TypeOK, locals
  <2> QED
    BY <2>1, <1>0, TailFacts
<1>6. CASE Abandon
  <2>1. /\ stats' = [stats EXCEPT !.lost = @ + remaining + Len(inflight)]
        /\ UNCHANGED <<offered, drained>> /\ inflight' = <<>>
        /\ queue' = IF remaining > 0 THEN <<>> ELSE queue
        /\ pc = "abandon"
    BY <1>6 DEF Abandon
  <2>2. remaining = Len(queue) /\ drained = 0
    BY <2>1 DEF LastLook, LocalsReset
  <2>3. stats' = [stats EXCEPT !.lost = @ + (remaining + Len(inflight))]
    <3>1. stats.lost + remaining + Len(inflight) = stats.lost + (remaining + Len(inflight))
      BY <2>2, <1>0 DEF TypeOK, TypeStats, Counters
    <3> QED
      BY <2>1, <3>1
  <2>4. Counted' = Counted + (remaining + Len(inflight))
    BY <2>2, <2>3, <1>0, LostCounted DEF TypeOK
  <2>5. Len(queue') = 0 /\ Len(inflight') = 0
    BY <2>1, <2>2, <1>0, ElemsFacts
  <2> QED
    BY <2>1, <2>2, <2>4, <2>5, <1>0
<1>7. CASE RetryGivesUp
  <2>1. /\ stats' = [stats EXCEPT !.lost = @ + Len(inflight)]
        /\ UNCHANGED <<queue, offered, drained>> /\ inflight' = <<>> /\ drained = 0
    BY <1>7 DEF RetryGivesUp, LocalsReset, feed
  <2>2. Counted' = Counted + Len(inflight)
    BY <2>1, <1>0, LostCounted DEF TypeOK
  <2> QED
    BY <2>1, <2>2, <1>0
<1>8. CASE FlushNow \/ Reappend
  BY <1>8 DEF FlushNow, Reappend, feed, hist, LocalsReset, Counted
<1>9. CASE ReadReply
  <2>1. UNCHANGED <<queue, offered, inflight>> /\ drained' = drained + 1
    BY <1>9, ReadReplyEffect DEF TypeOK
  <2>2. Counted' = Counted + 1
    BY <1>9, ReadReplyEffect, ReplyCounted DEF TypeOK
  <2> QED
    BY <2>1, <2>2, <1>0
<1>10. CASE FlushDone \/ SecondIoError
  <2>1. /\ stats' = [stats EXCEPT !.lost = @ + Len(inflight) - drained]
        /\ UNCHANGED <<queue, offered>> /\ inflight' = <<>> /\ drained' = 0
    BY <1>10 DEF FlushDone, SecondIoError, feed
  <2>2. Len(inflight) - drained \in Nat
    BY <1>0 DEF TypeOK, TypeInflight
  <2>3. stats' = [stats EXCEPT !.lost = @ + (Len(inflight) - drained)]
    BY <2>1, <1>0 DEF TypeOK, TypeStats, Counters
  <2>4. Counted' = Counted + (Len(inflight) - drained)
    BY <2>2, <2>3, LostCounted DEF TypeOK
  <2> QED
    BY <2>1, <2>4, <1>0
<1>11. CASE FirstIoError
  <2>1. /\ UNCHANGED <<queue, offered, stats>> /\ inflight' = Drop(inflight, drained) /\ drained' = 0
        /\ drained \in 0..Len(inflight)
    BY <1>11, <1>0 DEF FirstIoError, feed, TypeOK, TypeInflight
  <2>2. Len(inflight') = Len(inflight) - drained
    BY <2>1, <1>0, DropFacts
  <2> QED
    BY <2>1, <2>2, <1>0 DEF Counted
<1> QED
  BY <1>1, <1>2, <1>3, <1>4, <1>5, <1>6, <1>7, <1>8, <1>9, <1>10, <1>11, EventFrame

\* Every step keeps the events adding up.
LEMMA EventsStep ==
    TypeOK /\ LocalsReset /\ LastLook /\ Answered /\ EventsAddUp /\ [Next]_vars => EventsAddUp'
<1> DEFINE Outcome == acked \cup refused \cup lost
<1> SUFFICES ASSUME TypeOK, LocalsReset, LastLook, Answered, [Next]_vars, ~late, ~late',
                    1..offered = Elems(queue) \cup Elems(inflight) \cup Outcome
             PROVE  1..offered' = Elems(queue') \cup Elems(inflight') \cup Outcome'
  BY LateStays DEF EventsAddUp
<1>0. /\ queue \in Seq(Events) /\ inflight \in Seq(Events) /\ Len(queue) \in Nat /\ Len(inflight) \in Nat
      /\ drained \in Nat /\ offered \in Nat
  BY ElemsFacts, EventsAssumption DEF TypeOK, TypeQueue, TypeInflight
<1>1. CASE UNCHANGED <<queue, offered, inflight, count, drained, stats, acked, refused, lost>>
  BY <1>1
<1>2. CASE Connected \/ FlushNow \/ Reappend
  BY <1>2 DEF Connected, FlushNow, Reappend, feed, locals, hist
<1>3. CASE Feed
  <2>1. /\ Elems(queue') = Elems(queue) \cup {offered + 1} /\ offered' = offered + 1
        /\ UNCHANGED <<inflight, acked, refused, lost>>
    <3>1. offered + 1 \in Events
      BY <1>3, <1>0, EventsAssumption DEF Feed, Events
    <3> QED
      BY <1>3, <1>0, <3>1, ElemsAppend DEF Feed, locals
  <2>2. 1..(offered + 1) = (1..offered) \cup {offered + 1}
    BY <1>0
  <2> QED
    BY <2>1, <2>2
<1>4. CASE PopAppend
  <2>1. /\ queue # <<>> /\ queue' = Tail(queue) /\ inflight' = Append(inflight, Head(queue))
        /\ UNCHANGED <<offered, acked, refused, lost>>
    BY <1>4 DEF PopAppend
  <2>2. Elems(inflight') = Elems(inflight) \cup {Head(queue)}
    BY <2>1, <1>0, ElemsAppend, TailFacts
  <2>3. Elems(queue) = {Head(queue)} \cup Elems(queue')
    BY <2>1, <1>0, ElemsHeadTail
  <2> QED
    BY <2>1, <2>2, <2>3
<1>5. CASE PopLose
  <2>1. /\ queue # <<>> /\ queue' = Tail(queue) /\ lost' = lost \cup {Head(queue)}
        /\ UNCHANGED <<offered, inflight, acked, refused>>
    BY <1>5 DEF PopLose, locals
  <2>2. Elems(queue) = {Head(queue)} \cup Elems(queue')
    BY <2>1, <1>0, ElemsHeadTail
  <2> QED
    BY <2>1, <2>2
<1>6. CASE Abandon
  <2>1. /\ pc = "abandon" /\ inflight' = <<>> /\ queue' = IF remaining > 0 THEN <<>> ELSE queue
        /\ lost' = lost \cup Elems(Take(queue, remaining)) \cup Elems(inflight)
        /\ UNCHANGED <<offered, acked, refused>>
    BY <1>6 DEF Abandon
  <2>2. remaining = Len(queue)
    BY <2>1 DEF LastLook
  <2>3. Take(queue, Len(queue)) = queue
    BY <1>0 DEF Take
  <2>4. queue' = <<>>
    BY <2>1, <2>2, <1>0
  <2> QED
    BY <2>1, <2>2, <2>3, <2>4, ElemsEmpty
<1>7. CASE RetryGivesUp
  BY <1>7, ElemsEmpty DEF RetryGivesUp, feed
<1>8. CASE ReadReply
  <2>1. UNCHANGED <<queue, offered, inflight>>
    BY <1>8, ReadReplyEffect DEF TypeOK
  <2>2. Outcome' = Outcome \cup {inflight[drained + 1]}
    BY <1>8, ReadReplyEffect DEF TypeOK
  <2>3. inflight[drained + 1] \in Elems(inflight)
    <3>1. drained + 1 \in 1..Len(inflight)
      BY <1>8, <1>0, ReadReplyEffect DEF TypeOK, TypeInflight
    <3> QED
      BY <3>1, <1>0, ElemsFacts
  <2> QED
    BY <2>1, <2>2, <2>3
<1>9. CASE FlushDone \/ SecondIoError
  <2>1. /\ inflight' = <<>> /\ lost' = lost \cup Elems(Drop(inflight, drained))
        /\ UNCHANGED <<queue, offered, acked, refused>>
    BY <1>9 DEF FlushDone, SecondIoError, feed
  <2> QED
    BY <2>1, UnansweredTail, ElemsEmpty
<1>10. CASE FirstIoError
  <2>1. /\ inflight' = Drop(inflight, drained)
        /\ UNCHANGED <<queue, offered, acked, refused, lost>>
    BY <1>10 DEF FirstIoError, feed, hist
  <2> QED
    BY <2>1, UnansweredTail
<1> QED
  BY <1>1, <1>2, <1>3, <1>4, <1>5, <1>6, <1>7, <1>8, <1>9, <1>10, EventFrame

-----------------------------------------------------------------------------
(* The order of events and the appends of each.                            *)

\* Events leave q_evt in the order they were fed and stay in it in flight.
LEMMA InOrderStep == TypeOK /\ InOrder /\ [Next]_vars => InOrder'
<1> SUFFICES ASSUME TypeOK, InOrder, [Next]_vars PROVE InOrder'
  OBVIOUS
<1>0. /\ queue \in Seq(Events) /\ inflight \in Seq(Events) /\ Len(queue) \in Nat /\ Len(inflight) \in Nat
      /\ drained \in Nat /\ drained \in 0..Len(inflight) /\ offered \in Nat /\ Events \subseteq Int
      /\ \A i \in 1..Len(inflight) : inflight[i] \in Int
  BY ElemsFacts, EventsAssumption DEF TypeOK, TypeQueue, TypeInflight, Events
<1>1. CASE UNCHANGED <<queue, offered, inflight>>
  BY <1>1 DEF InOrder
<1>2. CASE Feed
  <2>1. /\ Len(queue') = Len(queue) + 1 /\ offered' = offered + 1 /\ inflight' = inflight
        /\ \A i \in 1..Len(queue) : queue'[i] = queue[i]
        /\ queue'[Len(queue) + 1] = offered + 1
    <3>1. offered + 1 \in Events
      BY <1>2, <1>0, EventsAssumption DEF Feed, Events
    <3> QED
      BY <1>2, <1>0, <3>1, AppendFacts DEF Feed, locals
  <2>2. ASSUME NEW i \in 1..Len(queue') PROVE queue'[i] = offered' - Len(queue') + i
    <3>1. i \in 1..Len(queue) \/ i = Len(queue) + 1
      BY <2>1, <1>0
    <3> QED
      BY <2>1, <3>1, <1>0 DEF InOrder
  <2>3. Len(queue') <= offered' /\ offered' - Len(queue') = offered - Len(queue)
    BY <2>1, <1>0 DEF InOrder
  <2> QED
    BY <2>1, <2>2, <2>3 DEF InOrder
<1>3. CASE PopAppend
  <2>1. /\ Len(queue') = Len(queue) - 1 /\ offered' = offered /\ Len(queue) > 0
        /\ \A i \in 1..(Len(queue) - 1) : queue'[i] = queue[i + 1]
    BY <1>3, <1>0, TailFacts DEF PopAppend
  <2>2. /\ Len(inflight') = Len(inflight) + 1
        /\ \A i \in 1..Len(inflight) : inflight'[i] = inflight[i]
        /\ inflight'[Len(inflight) + 1] = queue[1]
    BY <1>3, <1>0, TailFacts, AppendFacts DEF PopAppend
  <2>3. ASSUME NEW i \in 1..Len(queue') PROVE queue'[i] = offered' - Len(queue') + i
    BY <2>1, <1>0 DEF InOrder
  <2>4. \A i \in 1..Len(inflight') : i \in 1..Len(inflight) \/ i = Len(inflight) + 1
    BY <2>2, <1>0
  <2>5. \A i \in 1..Len(inflight) : inflight[i] <= offered - Len(queue) /\ inflight[i] < queue[1]
    BY <2>1, <1>0 DEF InOrder
  <2>6. queue[1] = offered' - Len(queue') /\ Len(queue') <= offered'
    BY <2>1, <1>0 DEF InOrder
  <2>7. \A i \in 1..Len(inflight') : inflight'[i] <= offered' - Len(queue')
    BY <2>1, <2>2, <2>4, <2>5, <2>6, <1>0
  <2>8. ASSUME NEW i \in 1..Len(inflight'), NEW j \in 1..Len(inflight'), i < j
        PROVE  inflight'[i] < inflight'[j]
    BY <2>2, <2>4, <2>5, <2>8, <1>0 DEF InOrder
  <2> QED
    BY <2>3, <2>6, <2>7, <2>8 DEF InOrder
<1>4. CASE PopLose
  <2>1. /\ Len(queue') = Len(queue) - 1 /\ offered' = offered /\ inflight' = inflight /\ Len(queue) > 0
        /\ \A i \in 1..(Len(queue) - 1) : queue'[i] = queue[i + 1]
    BY <1>4, <1>0, TailFacts DEF PopLose, locals
  <2> QED
    BY <2>1, <1>0 DEF InOrder
<1>5. CASE inflight' = <<>> /\ offered' = offered /\ (queue' = queue \/ queue' = <<>>)
  <2>1. Len(inflight') = 0 /\ (queue' = queue \/ Len(queue') = 0)
    BY <1>5
  <2>2. Len(queue') <= offered' /\ \A i \in 1..Len(queue') : queue'[i] = offered' - Len(queue') + i
    <3>1. CASE queue' = queue
      BY <3>1, <1>5 DEF InOrder
    <3>2. CASE Len(queue') = 0
      BY <3>2, <1>5, <1>0
    <3> QED
      BY <2>1, <3>1, <3>2
  <2>3. 1..Len(inflight') = {}
    BY <2>1
  <2> QED
    BY <2>2, <2>3 DEF InOrder
<1>6. CASE FirstIoError
  <2>1. /\ Len(inflight') = Len(inflight) - drained /\ queue' = queue /\ offered' = offered
        /\ \A i \in 1..(Len(inflight) - drained) : inflight'[i] = inflight[drained + i]
    BY <1>6, <1>0, DropFacts DEF FirstIoError, feed
  <2>2. ASSUME NEW i \in 1..Len(inflight') PROVE drained + i \in 1..Len(inflight)
    BY <2>1, <1>0
  <2>3. ASSUME NEW i \in 1..Len(inflight'), NEW j \in 1..Len(inflight'), i < j
        PROVE  inflight'[i] < inflight'[j]
    <3>1. drained + i \in 1..Len(inflight) /\ drained + j \in 1..Len(inflight) /\ drained + i < drained + j
      BY <2>2, <2>3, <2>1, <1>0
    <3>2. inflight[drained + i] < inflight[drained + j]
      BY <3>1 DEF InOrder
    <3> QED
      BY <2>1, <3>2
  <2>4. \A i \in 1..Len(inflight') : inflight'[i] <= offered' - Len(queue')
    BY <2>1, <2>2, <1>0 DEF InOrder
  <2> QED
    BY <2>1, <2>3, <2>4 DEF InOrder
<1>7. CASE Connected \/ FlushNow \/ ReadReply \/ Reappend
  BY <1>7, <1>1, ReadReplyEffect DEF Connected, FlushNow, Reappend, feed, locals, TypeOK
<1>8. CASE Abandon \/ RetryGivesUp \/ FlushDone \/ SecondIoError
  BY <1>8, <1>5 DEF Abandon, RetryGivesUp, FlushDone, SecondIoError, feed
<1> QED
  BY <1>1, <1>2, <1>3, <1>4, <1>6, <1>7, <1>8, EventFrame

\* Whatever else happens, do_flush() is where a second append counts.
LEMMA SentFrame ==
    [Next]_vars => \/ /\ UNCHANGED <<queue, offered, inflight, sent>>
                      /\ \/ UNCHANGED <<pc, count, attempt>>
                         \/ pc # "flush" /\ pc' # "flush"
                   \/ Feed \/ PopAppend \/ PopLose \/ Abandon \/ RetryGivesUp \/ FlushNow
                   \/ FlushDone \/ FirstIoError \/ Reappend \/ SecondIoError
<1>1. ReadReply => UNCHANGED <<queue, offered, inflight, sent, pc, count, attempt>>
  BY Zenon DEF ReadReply, feed
<1> QED
  BY <1>1 DEF Next, ProducerStep, vars, feed, locals, conn, hist, Connected, ConnectGivesUp, Top,
      Sending,
    ExitTest, Leave, DeadlineTest, PopNothing, FlushLater, WriteOut, RequestStop, DeadlinePasses,
        Break,
    Execute

\* An event in flight has been appended once, or twice in the retry.
LEMMA SentOnceStep == TypeOK /\ LocalsReset /\ InOrder /\ SentOnce /\ [Next]_vars => SentOnce'
<1> SUFFICES ASSUME TypeOK, LocalsReset, InOrder, SentOnce, [Next]_vars PROVE SentOnce'
  OBVIOUS
<1>0. /\ queue \in Seq(Events) /\ inflight \in Seq(Events) /\ Len(queue) \in Nat /\ Len(inflight) \in Nat
      /\ drained \in Nat /\ drained \in 0..Len(inflight) /\ offered \in Nat /\ Events \subseteq Int
      /\ \A i \in 1..Len(inflight) : inflight[i] \in Int /\ inflight[i] \in Events
      /\ sent \in [Events -> Nat]
  BY ElemsFacts, EventsAssumption DEF TypeOK, TypeQueue, TypeInflight, TypeHist, Events
<1>1. CASE /\ UNCHANGED <<queue, offered, inflight, sent>>
           /\ UNCHANGED <<pc, count, attempt>> \/ (pc # "flush" /\ pc' # "flush")
  BY <1>1 DEF SentOnce
<1>2. CASE Feed
  <2>1. Len(queue') = Len(queue) + 1 /\ offered' = offered + 1 /\ UNCHANGED <<inflight, sent, pc, count, attempt>>
    <3>1. offered + 1 \in Events
      BY <1>2, <1>0, EventsAssumption DEF Feed, Events
    <3> QED
      BY <1>2, <1>0, <3>1, AppendFacts DEF Feed, locals
  <2> QED
    BY <2>1, <1>0 DEF SentOnce
<1>3. CASE PopAppend
  <2>1. /\ Len(queue') = Len(queue) - 1 /\ offered' = offered /\ Len(queue) > 0
        /\ queue[1] \in Events /\ sent' = [sent EXCEPT ![queue[1]] = @ + 1]
        /\ pc' = "flushTest" /\ pc = "pop"
    BY <1>3, <1>0, TailFacts DEF PopAppend
  <2>2. /\ Len(inflight') = Len(inflight) + 1
        /\ \A i \in 1..Len(inflight) : inflight'[i] = inflight[i]
        /\ inflight'[Len(inflight) + 1] = queue[1]
    BY <1>3, <1>0, TailFacts, AppendFacts DEF PopAppend
  <2>3. queue[1] = offered - Len(queue) + 1 /\ \A i \in 1..Len(inflight) : inflight[i] # queue[1]
    BY <2>1, <1>0 DEF InOrder
  <2>4. \A e \in Events : sent'[e] <= 2 /\ (e > offered' - Len(queue') => sent'[e] = 0)
    BY <2>1, <2>3, <1>0 DEF SentOnce
  <2>5. \A i \in 1..Len(inflight') : i \in 1..Len(inflight) \/ i = Len(inflight) + 1
    BY <2>2, <1>0
  <2>6. \A i \in 1..Len(inflight) : sent'[inflight[i]] = 1
    BY <2>1, <2>3, <1>0 DEF SentOnce
  <2>7. sent'[queue[1]] = 1
    BY <2>1, <2>3, <1>0 DEF SentOnce
  <2> QED
    BY <2>1, <2>2, <2>4, <2>5, <2>6, <2>7 DEF SentOnce
<1>4. CASE PopLose
  <2>1. /\ Len(queue') = Len(queue) - 1 /\ offered' = offered /\ inflight' = inflight /\ Len(queue) > 0
        /\ sent' = sent /\ pc = "pop" /\ pc' = "flushTest"
    BY <1>4, <1>0, TailFacts DEF PopLose, locals
  <2> QED
    BY <2>1, <1>0 DEF SentOnce
<1>5. CASE Abandon \/ RetryGivesUp \/ FlushDone \/ SecondIoError
  <2>1. /\ inflight' = <<>> /\ offered' = offered /\ (queue' = queue \/ queue' = <<>>) /\ sent' = sent
    BY <1>5 DEF Abandon, RetryGivesUp, FlushDone, SecondIoError, feed
  <2> QED
    BY <2>1, <1>0 DEF SentOnce
<1>6. CASE FlushNow
  <2>1. UNCHANGED <<queue, offered, inflight, sent>> /\ attempt' = 1 /\ pc = "flushTest"
    BY <1>6 DEF FlushNow, feed, hist
  <2> QED
    BY <2>1 DEF SentOnce
<1>7. CASE FirstIoError
  <2>1. /\ Len(inflight') = Len(inflight) - drained /\ UNCHANGED <<queue, offered, sent>>
        /\ \A i \in 1..(Len(inflight) - drained) : inflight'[i] = inflight[drained + i]
        /\ attempt = 1 /\ pc' = "retry"
    BY <1>7, <1>0, DropFacts DEF FirstIoError, feed, hist
  <2> QED
    BY <2>1, <1>0 DEF SentOnce
<1>8. CASE Reappend
  <2>1. PICK k \in 0..Len(inflight) :
           /\ count' = k
           /\ sent' = [e \in Events |-> sent[e] + (IF e \in Elems(Take(inflight, k)) THEN 1 ELSE 0)]
    BY <1>8 DEF Reappend
  <2>2. /\ UNCHANGED <<queue, offered, inflight>> /\ pc = "append" /\ pc' = "flush" /\ attempt' = 2
    BY <1>8 DEF Reappend, feed, LocalsReset
  <2>3. \A e : e \in Elems(Take(inflight, k)) <=> \E i \in 1..k : inflight[i] = e
    <3>1. Take(inflight, k) \in Seq(Events) /\ Len(Take(inflight, k)) = k
          /\ \A i \in 1..k : Take(inflight, k)[i] = inflight[i]
      BY <1>0, TakeFacts
    <3>2. \A e : e \in Elems(Take(inflight, k)) <=> \E i \in 1..Len(Take(inflight, k)) : Take(inflight, k)[i] = e
      BY <3>1, ElemsFacts
    <3> QED
      BY <3>1, <3>2
  <2>4. \A i \in 1..Len(inflight) : sent[inflight[i]] = 1
    BY <2>2 DEF SentOnce
  <2>5. \A i \in 1..Len(inflight) : inflight[i] \in Elems(Take(inflight, k)) <=> i <= k
    <3> SUFFICES ASSUME NEW i \in 1..Len(inflight)
                 PROVE  inflight[i] \in Elems(Take(inflight, k)) <=> i <= k
      OBVIOUS
    <3>1. i <= k => i \in 1..k
      BY <1>0
    <3>2. ASSUME NEW j \in 1..k, inflight[j] = inflight[i] PROVE i <= k
      <4>1. j \in 1..Len(inflight)
        BY <1>0
      <4>2. j < i => inflight[j] < inflight[i]
        BY <4>1 DEF InOrder
      <4> QED
        BY <3>2, <4>1, <4>2, <1>0
    <3> QED
      BY <3>1, <3>2, <2>3
  <2>6. \A i \in 1..Len(inflight) : sent'[inflight[i]] = IF i <= k THEN 2 ELSE 1
    BY <2>1, <2>4, <2>5, <1>0
  <2>7. \A e \in Events : sent'[e] <= 2 /\ (e > offered - Len(queue) => sent'[e] = 0)
    <3> SUFFICES ASSUME NEW e \in Events PROVE sent'[e] <= 2 /\ (e > offered - Len(queue) => sent'[e] = 0)
      OBVIOUS
    <3>1. CASE e \in Elems(Take(inflight, k))
      BY <3>1, <2>3, <2>6, <1>0 DEF InOrder
    <3>2. CASE e \notin Elems(Take(inflight, k))
      BY <3>2, <2>1, <1>0 DEF SentOnce
    <3> QED
      BY <3>1, <3>2
  <2> QED
    BY <2>1, <2>2, <2>6, <2>7 DEF SentOnce
<1> QED
  BY <1>1, <1>2, <1>3, <1>4, <1>5, <1>6, <1>7, <1>8, SentFrame

\* A step that loses an event without a stop has tried it twice, or could not
\* append it.
LEMMA LostStep ==
    ASSUME TypeOK, LocalsReset, StopSeen, SentOnce, [Next]_vars, NEW e \in lost' \ lost
    PROVE  \/ sent[e] = 2 \/ stop
           \/ pc = "pop" /\ e = Head(queue)
           \/ pc = "flush" /\ attempt = 2 /\ e \in Elems(Drop(inflight, count))
<1>0. /\ inflight \in Seq(Events) /\ Len(inflight) \in Nat
      /\ count \in 0..Len(inflight) /\ drained \in 0..count /\ count \in Nat /\ drained \in Nat
      /\ drained \in 0..Len(inflight)
  BY ElemsFacts DEF TypeOK, TypeInflight
<1>1. ASSUME NEW m \in 0..Len(inflight), NEW x \in Elems(Drop(inflight, m))
      PROVE  \E i \in (m + 1)..Len(inflight) : x = inflight[i]
  <2>1. /\ Drop(inflight, m) \in Seq(Events) /\ Len(Drop(inflight, m)) = Len(inflight) - m
        /\ \A i \in 1..(Len(inflight) - m) : Drop(inflight, m)[i] = inflight[m + i]
    BY <1>0, DropFacts
  <2>2. PICK i \in 1..Len(Drop(inflight, m)) : Drop(inflight, m)[i] = x
    BY <2>1, <1>1, ElemsFacts
  <2> QED
    BY <2>1, <2>2, <1>0
<1>2. CASE Abandon
  BY <1>2 DEF Abandon, StopSeen
<1>3. CASE RetryGivesUp
  BY <1>3 DEF RetryGivesUp, MayGiveUp, StopSeen, TypeOK, TypeControl
<1>4. CASE PopLose
  BY <1>4 DEF PopLose
<1>5. CASE FlushDone \/ SecondIoError
  <2>1. /\ pc = "flush" /\ e \in Elems(Drop(inflight, drained)) /\ (attempt = 2 \/ drained = count)
    BY <1>5 DEF FlushDone, SecondIoError
  <2>2. PICK i \in (drained + 1)..Len(inflight) : e = inflight[i]
    BY <2>1, <1>0, <1>1
  <2>3. attempt = 2
    BY <2>1, <2>2, <1>0 DEF LocalsReset, TypeOK, TypeControl
  <2>4. CASE i <= count
    BY <2>1, <2>2, <2>3, <2>4, <1>0 DEF SentOnce
  <2>5. CASE i > count
    <3>1. /\ Drop(inflight, count) \in Seq(Events) /\ Len(Drop(inflight, count)) = Len(inflight) - count
          /\ \A j \in 1..(Len(inflight) - count) : Drop(inflight, count)[j] = inflight[count + j]
      BY <1>0, DropFacts
    <3>2. i - count \in 1..Len(Drop(inflight, count)) /\ Drop(inflight, count)[i - count] = e
      BY <3>1, <2>2, <2>5, <1>0
    <3>3. e \in Elems(Drop(inflight, count))
      BY <3>1, <3>2, ElemsFacts
    <3> QED
      BY <2>1, <2>3, <3>3
  <2> QED
    BY <2>2, <2>4, <2>5, <1>0
<1>6. CASE lost' = lost
  BY <1>6
<1>7. Connected \/ ReadReply => lost' = lost
  BY Zenon DEF Connected, ReadReply, hist
<1> QED
  BY <1>2, <1>3, <1>4, <1>5, <1>6, <1>7, StatsFrame

-----------------------------------------------------------------------------
(* Replies and the commands they answer.                                   *)

\* Steps that leave the pipeline and its connection alone, and those that do not.
LEMMA AlignFrame ==
    [Next]_vars => \/ /\ UNCHANGED <<ctx, alive, out, wire, reps, inflight, count, drained, applied>>
                      /\ pc' = pc \/ {pc, pc'} \cap {"append", "flush"} = {}
                   \/ Connected \/ ExitTest \/ Abandon \/ PopAppend \/ RetryGivesUp \/ FlushNow \/ WriteOut
                   \/ ReadReply \/ FlushDone \/ FirstIoError \/ Reappend \/ SecondIoError \/ Break
                   \/ \E c \in Conns, ok \in BOOLEAN : Execute(c, ok)
  BY DEF Next, ProducerStep, vars, feed, locals, conn, hist, ConnectGivesUp, Top, Sending,
    DeadlineTest, PopLose, PopNothing, FlushLater, Feed, RequestStop, DeadlinePasses

\* Types of what is under way on the current connection.
LEMMA PipelineTypes ==
    ASSUME TypeOK
    PROVE  /\ inflight \in Seq(Events) /\ Len(inflight) \in Nat
           /\ count \in 0..Len(inflight) /\ drained \in 0..count /\ count \in Nat /\ drained \in Nat
           /\ drained \in 0..Len(inflight)
           /\ \A i \in 1..Len(inflight) : inflight[i] \in Events
           /\ out \in Seq(Events) /\ Len(out) \in Nat /\ reps \in Seq(BOOLEAN) /\ Len(reps) \in Nat
           /\ wire \in [Conns -> Seq(Events)] /\ \A c \in Conns : Len(wire[c]) \in Nat
           /\ ctx \in Int /\ (ctx # NULL => ctx \in Conns) /\ NULL \notin Conns
           /\ Given \in Nat /\ Given <= Len(inflight)
           /\ applied \in [Events -> Nat] /\ sent \in [Events -> Nat]
<1>1. /\ inflight \in Seq(Events) /\ Len(inflight) \in Nat
      /\ \A i \in 1..Len(inflight) : inflight[i] \in Events
      /\ count \in 0..Len(inflight) /\ drained \in 0..count
  BY ElemsFacts DEF TypeOK, TypeInflight
<1>2. /\ out \in Seq(Events) /\ Len(out) \in Nat /\ reps \in Seq(BOOLEAN) /\ Len(reps) \in Nat
      /\ wire \in [Conns -> Seq(Events)] /\ \A c \in Conns : Len(wire[c]) \in Nat
  BY ElemsFacts DEF TypeOK, TypeConn
<1>3. ctx \in Int /\ (ctx # NULL => ctx \in Conns) /\ NULL \notin Conns
  BY ConnsAssumption DEF TypeOK, TypeConn, Conns, NULL
<1>4. count \in Nat /\ drained \in Nat /\ drained \in 0..Len(inflight)
  BY <1>1
<1>5. Given \in Nat /\ Given <= Len(inflight)
  BY <1>1, <1>4 DEF Given
<1> QED
  BY <1>1, <1>2, <1>3, <1>4, <1>5 DEF TypeOK, TypeHist

\* Executing a command only adds to its stream.
LEMMA ExecuteAdds ==
    ASSUME TypeOK, NEW c \in Conns, NEW ok \in BOOLEAN, Execute(c, ok)
    PROVE  /\ wire[c] # <<>> /\ Head(wire[c]) \in Events /\ wire' = [wire EXCEPT ![c] = Tail(@)]
           /\ applied' \in [Events -> Nat]
           /\ \A e \in Events : applied'[e] = IF e = Head(wire[c]) /\ ok = TRUE THEN applied[e] + 1 ELSE applied[e]
<1>1. wire[c] # <<>> /\ Head(wire[c]) \in Events /\ wire' = [wire EXCEPT ![c] = Tail(@)]
  BY PipelineTypes, TailFacts DEF Execute
<1>2. CASE ok = TRUE
  BY <1>1, <1>2, PipelineTypes DEF Execute
<1>3. CASE ok = FALSE
  BY <1>1, <1>3, PipelineTypes DEF Execute
<1> QED
  BY <1>1, <1>2, <1>3

\* Every step keeps replies and commands aligned with the unanswered part of
\* inflight, a break or a failed append included.
LEMMA AlignedStep ==
    TypeOK /\ LocalsReset /\ Connection /\ Aligned /\ [Next]_vars => Aligned'
<1> SUFFICES ASSUME TypeOK, LocalsReset, Connection, Aligned, [Next]_vars, ctx' # NULL PROVE Aligned'
  BY DEF Aligned
<1>0. /\ inflight \in Seq(Events) /\ Len(inflight) \in Nat
      /\ count \in 0..Len(inflight) /\ drained \in 0..count /\ count \in Nat /\ drained \in Nat
      /\ out \in Seq(Events) /\ Len(out) \in Nat /\ reps \in Seq(BOOLEAN) /\ Len(reps) \in Nat
      /\ wire \in [Conns -> Seq(Events)] /\ \A c \in Conns : Len(wire[c]) \in Nat
      /\ (ctx # NULL => ctx \in Conns) /\ NULL \notin Conns
      /\ Given \in Nat /\ Given <= Len(inflight)
  BY PipelineTypes
<1>1. CASE /\ UNCHANGED <<ctx, alive, out, wire, reps, inflight, count, drained, applied>>
           /\ pc' = pc \/ {pc, pc'} \cap {"append", "flush"} = {}
  <2>1. Given' = Given
    BY <1>1 DEF Given
  <2> QED
    BY <1>1, <2>1 DEF Aligned
<1>2. CASE Connected
  <2>1. /\ out' = <<>> /\ reps' = <<>> /\ drained' = 0 /\ ctx = NULL /\ ctx' = nconn + 1 /\ nconn < MaxConns
        /\ UNCHANGED <<inflight, count, wire>> /\ count = 0
    BY <1>2 DEF Connected, Connection, LocalsReset, locals
  <2>2. Given' = 0
    BY <1>2, <2>1 DEF Connected, Connection, Given
  <2>3. Len(wire'[ctx']) = 0
    <3>1. nconn + 1 \in Conns /\ nconn + 1 > nconn
      BY <2>1, ConnsAssumption DEF TypeOK, TypeConn, Conns
    <3> QED
      BY <2>1, <3>1 DEF Connection
  <2> QED
    BY <2>1, <2>2, <2>3 DEF Aligned
<1>3. CASE ExitTest
  <2>1. /\ pc = "exitTest" /\ pc' = "deadlineTest"
        /\ UNCHANGED <<ctx, alive, out, wire, reps, inflight, count, drained, applied>>
    BY <1>3 DEF ExitTest, Leave, locals, hist
  <2> QED
    BY <2>1, <1>1
<1>4. CASE PopAppend
  <2>1. /\ pc = "pop" /\ pc' = "flushTest" /\ UNCHANGED <<ctx, alive, wire, reps, drained, applied>>
        /\ queue # <<>> /\ inflight' = Append(inflight, Head(queue)) /\ out' = Append(out, Head(queue))
    BY <1>4 DEF PopAppend
  <2>2. /\ Len(inflight') = Len(inflight) + 1
        /\ \A i \in 1..Len(inflight) : inflight'[i] = inflight[i]
        /\ inflight'[Len(inflight) + 1] = Head(queue)
        /\ Len(out') = Len(out) + 1 /\ \A i \in 1..Len(out) : out'[i] = out[i]
        /\ out'[Len(out) + 1] = Head(queue)
    BY <2>1, <1>0, AppendFacts, TailFacts DEF TypeOK, TypeQueue
  <2>3. Given = Len(inflight) /\ Given' = Len(inflight) + 1 /\ ctx # NULL
    BY <2>1, <2>2 DEF Given
  <2>4. /\ drained' + Len(reps') + Len(out') <= Given'
        /\ \A i \in 1..Len(reps') : reps'[i] = TRUE => applied'[inflight'[drained' + i]] > 0
    BY <2>1, <2>2, <2>3, <1>0 DEF Aligned
  <2>5. ASSUME alive
        PROVE  /\ drained' + Len(reps') + Len(wire'[ctx']) + Len(out') = Given'
               /\ \A i \in 1..Len(wire'[ctx']) : wire'[ctx'][i] = inflight'[drained' + Len(reps') + i]
    BY <2>1, <2>2, <2>3, <2>5, <1>0 DEF Aligned
  <2>6. ASSUME alive, NEW i \in 1..Len(out') PROVE out'[i] = inflight'[Given' - Len(out') + i]
    <3>1. CASE i = Len(out) + 1
      BY <3>1, <2>2, <2>3, <1>0
    <3>2. CASE i \in 1..Len(out)
      <4>1. out[i] = inflight[Given - Len(out) + i] /\ drained + Len(reps) + Len(out) <= Given
        BY <3>2, <2>3, <2>6 DEF Aligned
      <4>2. Given - Len(out) + i \in 1..Len(inflight) /\ Given' - Len(out') + i = Given - Len(out) + i
        BY <3>2, <4>1, <2>2, <2>3, <1>0
      <4> QED
        BY <3>2, <4>1, <4>2, <2>2
    <3> QED
      BY <3>1, <3>2, <2>2, <1>0
  <2> QED
    BY <2>1, <2>4, <2>5, <2>6 DEF Aligned
<1>5. CASE FlushNow
  <2>1. /\ pc = "flushTest" /\ pc' = "flush" /\ count' = Len(inflight) /\ drained' = 0 /\ drained = 0
        /\ UNCHANGED <<ctx, alive, out, wire, reps, inflight, applied>>
    BY <1>5 DEF FlushNow, conn, hist, LocalsReset
  <2>2. Given' = Given
    BY <2>1 DEF Given
  <2> QED
    BY <2>1, <2>2 DEF Aligned
<1>6. CASE WriteOut
  <2>1. /\ wire' = [wire EXCEPT ![ctx] = @ \o out] /\ out' = <<>> /\ alive
        /\ UNCHANGED <<ctx, alive, reps, pc, inflight, count, drained, applied>>
    BY <1>6 DEF WriteOut, locals, hist
  <2>2. Given' = Given /\ ctx \in Conns /\ wire'[ctx] = wire[ctx] \o out /\ Len(out') = 0
    BY <2>1, <1>0 DEF Given
  <2>3. /\ Len(wire'[ctx]) = Len(wire[ctx]) + Len(out)
        /\ \A i \in 1..Len(wire[ctx]) : wire'[ctx][i] = wire[ctx][i]
        /\ \A i \in 1..Len(out) : wire'[ctx][Len(wire[ctx]) + i] = out[i]
    BY <2>2, <1>0, ConcatFacts
  <2>4. ASSUME NEW i \in 1..Len(wire'[ctx]) PROVE wire'[ctx][i] = inflight[drained + Len(reps) + i]
    <3>1. CASE i \in 1..Len(wire[ctx])
      BY <3>1, <2>1, <2>2, <2>3 DEF Aligned
    <3>2. CASE i - Len(wire[ctx]) \in 1..Len(out)
      <4>1. wire'[ctx][i] = out[i - Len(wire[ctx])]
        BY <3>2, <2>3, <2>2, <1>0
      <4>2. out[i - Len(wire[ctx])] = inflight[Given - Len(out) + (i - Len(wire[ctx]))]
        BY <3>2, <2>1, <2>2 DEF Aligned
      <4>3. Given - Len(out) + (i - Len(wire[ctx])) = drained + Len(reps) + i
        <5> DEFINE w == Len(wire[ctx])
        <5>1. drained + Len(reps) + w + Len(out) = Given
          BY <2>1, <2>2, <1>0 DEF Aligned
        <5>2. drained \in Nat /\ Len(reps) \in Nat /\ w \in Nat /\ Len(out) \in Nat /\ i \in Int
          BY <2>2, <1>0
        <5>3. Given - Len(out) + (i - w) = drained + Len(reps) + i
          <6> HIDE DEF w
          <6> QED
            BY <5>1, <5>2
        <5> QED
          BY <5>3
      <4> QED
        BY <4>1, <4>2, <4>3
    <3> QED
      BY <3>1, <3>2, <2>3, <2>2, <1>0
  <2>5. /\ drained' + Len(reps') + Len(out') <= Given'
        /\ drained' + Len(reps') + Len(wire'[ctx']) + Len(out') = Given'
        /\ \A i \in 1..Len(reps') : reps'[i] = TRUE => applied'[inflight'[drained' + i]] > 0
    BY <2>1, <2>2, <2>3, <1>0 DEF Aligned
  <2> QED
    BY <2>1, <2>2, <2>4, <2>5 DEF Aligned
<1>7. CASE ReadReply
  <2>1. /\ reps # <<>> /\ reps' = Tail(reps) /\ drained' = drained + 1
        /\ UNCHANGED <<ctx, alive, out, wire, pc, inflight, count, applied>>
    BY <1>7, ReadReplyEffect DEF TypeOK
  <2>2. Given' = Given /\ Len(reps') = Len(reps) - 1 /\ \A i \in 1..(Len(reps) - 1) : reps'[i] = reps[i + 1]
    BY <2>1, <1>0, TailFacts DEF Given
  <2>3. ASSUME NEW i \in 1..Len(reps'), reps'[i] = TRUE PROVE applied'[inflight'[drained' + i]] > 0
    <3>1. i + 1 \in 1..Len(reps) /\ reps[i + 1] = TRUE /\ drained' + i = drained + (i + 1)
      BY <2>1, <2>2, <2>3, <1>0
    <3> QED
      BY <3>1, <2>1 DEF Aligned
  <2>4. /\ drained' + Len(reps') = drained + Len(reps)
        /\ \A i \in Int : drained' + Len(reps') + i = drained + Len(reps) + i
    BY <2>1, <2>2, <1>0
  <2> QED
    BY <2>1, <2>2, <2>3, <2>4 DEF Aligned
<1>8. CASE FlushDone
  <2>1. /\ pc = "flush" /\ pc' = "top" /\ drained = count /\ inflight' = <<>> /\ drained' = 0
        /\ UNCHANGED <<ctx, alive, out, wire, reps, applied>>
    BY <1>8 DEF FlushDone, conn
  <2>2. Given = count /\ Given' = 0 /\ ctx # NULL
    BY <2>1 DEF Given
  <2>3. Len(reps) = 0 /\ Len(out) = 0 /\ (alive => Len(wire[ctx]) = 0)
    BY <2>1, <2>2, <1>0 DEF Aligned
  <2> QED
    BY <2>1, <2>2, <2>3 DEF Aligned
<1>9. CASE Reappend
  <2>1. PICK k \in 0..Len(inflight) : out' = Take(inflight, k) /\ count' = k
    BY <1>9 DEF Reappend
  <2>2. /\ pc = "append" /\ pc' = "flush" /\ count = 0 /\ drained = 0
        /\ UNCHANGED <<ctx, alive, wire, reps, inflight, drained, applied>>
    BY <1>9 DEF Reappend, LocalsReset
  <2>3. Given = 0 /\ Given' = k /\ ctx # NULL /\ Len(reps) = 0 /\ (alive => Len(wire[ctx]) = 0)
    BY <2>1, <2>2, <1>0 DEF Given, Aligned
  <2>4. Len(out') = k /\ \A i \in 1..k : out'[i] = inflight[i]
    BY <2>1, <1>0, TakeFacts
  <2>5. \A i \in 1..k : Given' - Len(out') + i = i
    BY <2>3, <2>4
  <2> QED
    BY <2>2, <2>3, <2>4, <2>5 DEF Aligned
<1>10. CASE Break
  <2>1. PICK m \in 0..Len(reps) : reps' = Take(reps, m)
    BY <1>10 DEF Break
  <2>2. /\ alive' = FALSE /\ UNCHANGED <<ctx, out, pc, inflight, count, drained, applied>>
    BY <1>10 DEF Break, locals, hist
  <2>3. Given' = Given /\ Len(reps') = m /\ \A i \in 1..m : reps'[i] = reps[i]
    BY <2>1, <2>2, <1>0, TakeFacts DEF Given
  <2>4. /\ drained' + Len(reps') + Len(out') <= Given'
        /\ \A i \in 1..Len(reps') : reps'[i] = TRUE => applied'[inflight'[drained' + i]] > 0
    <3>1. drained + Len(reps) + Len(out) <= Given /\ ctx # NULL
      BY <2>2 DEF Aligned
    <3>2. drained + m + Len(out) <= Given
      BY <3>1, <1>0
    <3>3. \A i \in 1..m : i \in 1..Len(reps)
      BY <1>0
    <3>4. \A i \in 1..m : reps'[i] = TRUE => applied[inflight[drained + i]] > 0
      BY <2>3, <3>1, <3>3 DEF Aligned
    <3> QED
      BY <2>2, <2>3, <3>2, <3>4
  <2> QED
    BY <2>2, <2>4 DEF Aligned
<1>11. ASSUME NEW c \in Conns, NEW ok \in BOOLEAN, Execute(c, ok) PROVE Aligned'
  <2>1. UNCHANGED <<ctx, alive, out, pc, inflight, count, drained>> /\ ctx \in Conns
    BY <1>11, <1>0 DEF Execute, locals
  <2>2. /\ wire[c] # <<>> /\ Head(wire[c]) \in Events /\ wire' = [wire EXCEPT ![c] = Tail(@)]
        /\ applied \in [Events -> Nat]
        /\ \A e \in Events : applied'[e] = IF e = Head(wire[c]) /\ ok = TRUE THEN applied[e] + 1 ELSE applied[e]
    BY <1>11, ExecuteAdds, PipelineTypes
  <2>3. Given' = Given
    BY <2>1 DEF Given
  <2>4. \A i \in 1..Len(inflight) : applied[inflight[i]] > 0 => applied'[inflight[i]] > 0
    <3>1. ASSUME NEW e \in Events, applied[e] > 0 PROVE applied'[e] > 0
      BY <2>2, <3>1
    <3> QED
      BY <3>1, PipelineTypes
  <2>5. \A i \in 1..Len(reps) : drained + i \in 1..Len(inflight)
    BY <2>1, <1>0 DEF Aligned
  <2>6. \A i \in 1..Len(reps) : reps[i] = TRUE => applied'[inflight[drained + i]] > 0
    BY <2>1, <2>4, <2>5, <1>0 DEF Aligned
  <2>7. CASE c = ctx /\ alive
    <3>1. reps' = Append(reps, ok) /\ wire'[ctx] = Tail(wire[ctx])
      BY <1>11, <2>2, <2>7, <1>0 DEF Execute
    <3>2. /\ Len(reps') = Len(reps) + 1 /\ \A i \in 1..Len(reps) : reps'[i] = reps[i]
          /\ reps'[Len(reps) + 1] = ok
      BY <3>1, <1>0, AppendFacts
    <3>3. /\ Len(wire'[ctx]) = Len(wire[ctx]) - 1 /\ Len(wire[ctx]) \in Nat \ {0}
          /\ \A i \in 1..(Len(wire[ctx]) - 1) : wire'[ctx][i] = wire[ctx][i + 1]
          /\ Head(wire[ctx]) = wire[ctx][1]
      BY <3>1, <2>1, <2>2, <2>7, <1>0, TailFacts
    <3>4. /\ drained + Len(reps) + Len(wire[ctx]) + Len(out) = Given
          /\ \A i \in 1..Len(wire[ctx]) : wire[ctx][i] = inflight[drained + Len(reps) + i]
          /\ \A i \in 1..Len(out) : out[i] = inflight[Given - Len(out) + i]
      BY <2>1, <2>7 DEF Aligned
    <3>5. Head(wire[ctx]) = inflight[drained + (Len(reps) + 1)]
      <4>1. drained + (Len(reps) + 1) = drained + Len(reps) + 1
        BY <1>0
      <4> QED
        BY <3>3, <3>4, <4>1
    <3>6. ok = TRUE => applied'[Head(wire[ctx])] > 0
      BY <2>2, <2>7
    <3>7. ASSUME NEW i \in 1..Len(reps'), reps'[i] = TRUE PROVE applied'[inflight[drained + i]] > 0
      <4>1. i \in 1..Len(reps) \/ i = Len(reps) + 1
        BY <3>2, <1>0
      <4>2. CASE i \in 1..Len(reps)
        BY <4>2, <3>7, <3>2, <2>6
      <4>3. CASE i = Len(reps) + 1
        BY <4>3, <3>7, <3>2, <3>5, <3>6
      <4> QED
        BY <4>1, <4>2, <4>3
    <3>8. ASSUME NEW i \in 1..Len(wire'[ctx]) PROVE wire'[ctx][i] = inflight[drained + Len(reps') + i]
      <4>1. i + 1 \in 1..Len(wire[ctx]) /\ drained + Len(reps') + i = drained + Len(reps) + (i + 1)
        BY <3>2, <3>3, <1>0
      <4> QED
        BY <4>1, <3>3, <3>4
    <3>9. /\ drained + Len(reps') + Len(wire'[ctx]) + Len(out) = Given
          /\ drained + Len(reps') + Len(out) <= Given
      <4> DEFINE w == Len(wire[ctx])  v == Len(wire'[ctx])
      <4>1. drained \in Nat /\ Len(reps) \in Nat /\ w \in Nat /\ Len(out) \in Nat
        BY <2>1, <1>0
      <4>2. Len(reps') = Len(reps) + 1 /\ v = w - 1 /\ w > 0
        BY <3>2, <3>3
      <4>3. drained + Len(reps) + w + Len(out) = Given
        BY <3>4
      <4>4. drained + Len(reps') + v + Len(out) = Given /\ drained + Len(reps') + Len(out) <= Given
        <5> HIDE DEF w, v
        <5> QED
          BY <4>1, <4>2, <4>3
      <4> QED
        BY <4>4
    <3> QED
      BY <2>1, <2>3, <3>4, <3>7, <3>8, <3>9 DEF Aligned
  <2>8. CASE ~(c = ctx /\ alive)
    <3>1. reps' = reps
      BY <1>11, <2>8 DEF Execute
    <3>2. alive => wire'[ctx] = wire[ctx]
      BY <2>1, <2>2, <2>8, <1>0
    <3> QED
      BY <2>1, <2>3, <2>6, <3>1, <3>2 DEF Aligned
  <2> QED
    BY <2>7, <2>8
<1>12. Abandon \/ FirstIoError \/ SecondIoError \/ RetryGivesUp => ctx' = NULL
  BY DEF Abandon, Leave, FirstIoError, SecondIoError, RetryGivesUp, conn, Connection
<1> QED
  BY <1>1, <1>2, <1>3, <1>4, <1>5, <1>6, <1>7, <1>8, <1>9, <1>10, <1>11, <1>12, AlignFrame

-----------------------------------------------------------------------------
(* What is in the streams.                                                 *)

\* An acknowledged event is in its stream, and stays there.
LEMMA AckedStep == TypeOK /\ Connection /\ Aligned /\ AckedWereAdded /\ [Next]_vars => AckedWereAdded'
<1> SUFFICES ASSUME TypeOK, Connection, Aligned, AckedWereAdded, [Next]_vars PROVE AckedWereAdded'
  OBVIOUS
<1>0. acked \subseteq Events /\ applied \in [Events -> Nat]
  BY DEF TypeOK, TypeStats, TypeHist
<1>1. CASE acked' = acked /\ applied' = applied
  BY <1>1 DEF AckedWereAdded
<1>2. ASSUME NEW c \in Conns, NEW ok \in BOOLEAN, Execute(c, ok) PROVE AckedWereAdded'
  <2>1. acked' = acked
    BY <1>2 DEF Execute
  <2>2. \A e \in Events : applied[e] > 0 => applied'[e] > 0
    <3>1. ASSUME NEW e \in Events, applied[e] > 0 PROVE applied'[e] > 0
      <4>1. applied'[e] = applied[e] \/ applied'[e] = applied[e] + 1
        BY <1>2, ExecuteAdds
      <4> QED
        BY <3>1, <4>1, <1>0
    <3> QED
      BY <3>1
  <2> QED
    BY <2>1, <2>2, <1>0 DEF AckedWereAdded
<1>3. CASE ReadReply
  <2>1. /\ pc = "flush" /\ reps # <<>> /\ applied' = applied
        /\ \/ Head(reps) = TRUE /\ acked' = acked \cup {inflight[drained + 1]}
           \/ acked' = acked
    BY <1>3, ReadReplyEffect DEF TypeOK
  <2>2. Head(reps) = reps[1] /\ 1 \in 1..Len(reps) /\ ctx # NULL
    <3>1. reps \in Seq(BOOLEAN)
      BY PipelineTypes
    <3>2. Head(reps) = reps[1] /\ Len(reps) \in Nat \ {0}
      BY <2>1, <3>1, TailFacts
    <3>3. 1 \in 1..Len(reps)
      BY <3>2
    <3> QED
      BY <2>1, <3>2, <3>3 DEF Connection
  <2>3. Head(reps) = TRUE => applied[inflight[drained + 1]] > 0
    BY <2>2 DEF Aligned
  <2> QED
    BY <2>1, <2>3 DEF AckedWereAdded
<1>4. [Next]_vars => \/ acked' = acked /\ applied' = applied
                     \/ ReadReply \/ \E c \in Conns, ok \in BOOLEAN : Execute(c, ok)
  BY DEF Next, ProducerStep, vars, hist, Connected, ConnectGivesUp, RetryGivesUp, Top, ExitTest,
         DeadlineTest, Abandon, PopAppend, PopLose, PopNothing, FlushNow, FlushLater, WriteOut,
         FlushDone, FirstIoError, Reappend, SecondIoError, Feed, RequestStop, DeadlinePasses, Break
<1> QED
  BY <1>1, <1>2, <1>3, <1>4

\* Steps that leave the commands on the wire alone, and those that do not.
LEMMA WireFrame ==
    [Next]_vars => wire' = wire \/ WriteOut \/ Break \/ \E c \in Conns, ok \in BOOLEAN : Execute(c, ok)
<1>1. ReadReply => wire' = wire
  BY Zenon DEF ReadReply
<1> QED
  BY <1>1 DEF Next, ProducerStep, vars, conn, hist, Connected, ConnectGivesUp, RetryGivesUp, Top,
         ExitTest, DeadlineTest, Abandon, PopAppend, PopLose, PopNothing, FlushNow, FlushLater,
         FlushDone, FirstIoError, Reappend, SecondIoError, Feed, RequestStop, DeadlinePasses

\* No connection carries an event twice.
LEMMA NoRepeatStep ==
    TypeOK /\ LocalsReset /\ InOrder /\ Connection /\ Aligned /\ NoRepeat /\ [Next]_vars => NoRepeat'
<1> SUFFICES ASSUME TypeOK, LocalsReset, InOrder, Connection, Aligned, NoRepeat, [Next]_vars, NEW d \in Conns
             PROVE  \A i, j \in 1..Len(wire'[d]) : wire'[d][i] = wire'[d][j] => i = j
  BY DEF NoRepeat
<1>0. /\ wire \in [Conns -> Seq(Events)] /\ Len(wire[d]) \in Nat /\ wire[d] \in Seq(Events)
      /\ \A i, j \in 1..Len(wire[d]) : wire[d][i] = wire[d][j] => i = j
  BY PipelineTypes DEF NoRepeat
<1>1. CASE wire'[d] = wire[d]
  BY <1>0, <1>1
<1>2. CASE WriteOut /\ d = ctx
  <2>1. /\ ctx' = ctx /\ ctx # NULL /\ alive = TRUE /\ alive' = alive /\ UNCHANGED <<inflight, drained, reps>>
        /\ wire'[d] = wire[d] \o out
    <3>1. alive = TRUE
      BY <1>2 DEF WriteOut, TypeOK, TypeConn
    <3>2. ctx' = ctx /\ alive' = alive /\ UNCHANGED <<inflight, drained, reps>> /\ ctx # NULL
      BY <1>2, PipelineTypes DEF WriteOut, locals
    <3>3. wire'[d] = wire[d] \o out
      BY <1>2, <1>0 DEF WriteOut
    <3> QED
      BY <3>1, <3>2, <3>3
  <2>2. Aligned'
    BY AlignedStep
  <2>3. \A i \in 1..Len(wire'[d]) : wire'[d][i] = inflight[drained + Len(reps) + i]
    BY <1>2, <2>1, <2>2 DEF Aligned
  <2> DEFINE w == Len(wire'[d])
  <2>4. drained + Len(reps) + w <= Len(inflight) /\ w \in Nat
    <3>1. w = Len(wire[d]) + Len(out)
      BY <2>1, <1>0, PipelineTypes, ConcatFacts
    <3> DEFINE v == Len(wire[d])
    <3>2. /\ drained + Len(reps) + v + Len(out) = Given /\ Given <= Len(inflight)
      BY <1>2, <2>1, PipelineTypes DEF Aligned
    <3>3. drained \in Nat /\ Len(reps) \in Nat /\ Len(out) \in Nat /\ v \in Nat /\ w = v + Len(out)
      BY <1>0, <3>1, PipelineTypes
    <3> HIDE DEF w, v
    <3> QED
      BY <3>2, <3>3
  <2>5. drained + Len(reps) \in Nat /\ Len(inflight) \in Nat
    BY PipelineTypes
  <2>6. \A i, j \in 1..Len(inflight) : i < j => inflight[i] < inflight[j]
    BY DEF InOrder
  <2>7. \A i \in 1..Len(inflight) : inflight[i] \in Int
    <3>1. Events \subseteq Int
      BY EventsAssumption DEF Events
    <3> QED
      BY <3>1, PipelineTypes
  <2>8. ASSUME NEW i \in 1..w, NEW j \in 1..w, wire'[d][i] = wire'[d][j] PROVE i = j
    <3> DEFINE p == drained + Len(reps) + i  q == drained + Len(reps) + j
    <3>1. p \in 1..Len(inflight) /\ q \in 1..Len(inflight)
      <4> HIDE DEF w
      <4> QED
        BY <2>4, <2>5
    <3>2. inflight[p] = inflight[q]
      BY <2>3, <2>8
    <3>3. p = q
      <4> HIDE DEF p, q
      <4> QED
        BY <3>1, <3>2, <2>5, <2>6, <2>7
    <3>4. i \in Int /\ j \in Int
      OBVIOUS
    <3> QED
      BY <3>3, <3>4, <2>5
  <2> QED
    BY <2>8
<1>3. CASE Break /\ d = ctx
  <2>1. PICK k \in 0..Len(wire[d]) : wire'[d] = Take(wire[d], k)
    BY <1>3, <1>0 DEF Break
  <2>2. Len(wire'[d]) = k /\ \A i \in 1..k : i \in 1..Len(wire[d]) /\ wire'[d][i] = wire[d][i]
    <3>1. Len(wire'[d]) = k /\ \A i \in 1..k : wire'[d][i] = wire[d][i]
      <4> DEFINE w == wire[d]
      <4>1. w \in Seq(Events) /\ k \in 0..Len(w) /\ wire'[d] = Take(w, k)
        BY <2>1, <1>0
      <4> HIDE DEF w
      <4>2. Len(Take(w, k)) = k /\ \A i \in 1..k : Take(w, k)[i] = w[i]
        BY <4>1, TakeFacts
      <4> QED
        BY <4>1, <4>2 DEF w
    <3>2. \A i \in 1..k : i \in 1..Len(wire[d])
      BY <1>0
    <3> QED
      BY <3>1, <3>2
  <2> QED
    BY <2>2, <1>0
<1>4. ASSUME NEW ok \in BOOLEAN, Execute(d, ok)
      PROVE  \A i, j \in 1..Len(wire'[d]) : wire'[d][i] = wire'[d][j] => i = j
  <2>1. wire[d] # <<>> /\ wire'[d] = Tail(wire[d])
    BY <1>4, <1>0 DEF Execute
  <2>2. /\ Len(wire'[d]) = Len(wire[d]) - 1
        /\ \A i \in 1..(Len(wire[d]) - 1) : i + 1 \in 1..Len(wire[d]) /\ wire'[d][i] = wire[d][i + 1]
    BY <2>1, <1>0, TailFacts
  <2>3. \A i, j \in 1..(Len(wire[d]) - 1) : i + 1 = j + 1 => i = j
    BY <1>0
  <2> QED
    BY <2>2, <2>3, <1>0
<1>5. (WriteOut \/ Break) /\ d # ctx => wire'[d] = wire[d]
  BY <1>0 DEF WriteOut, Break
<1>6. ASSUME NEW c \in Conns, NEW ok \in BOOLEAN, Execute(c, ok), c # d PROVE wire'[d] = wire[d]
  BY <1>6, <1>0 DEF Execute
<1> QED
  BY <1>1, <1>2, <1>3, <1>4, <1>5, <1>6, WireFrame

\* An event is on the wire of finitely many connections.
LEMMA CarriersFacts ==
    ASSUME NEW e
    PROVE  IsFiniteSet(Carriers(e)) /\ Cardinality(Carriers(e)) \in Nat
<1>1. IsFiniteSet(Conns)
  BY ConnsAssumption, FS_Interval DEF Conns
<1>2. Carriers(e) \in SUBSET Conns
  BY DEF Carriers
<1> QED
  BY <1>1, <1>2, FS_Subset, FS_CardinalityType


\* Steps that neither append, send, execute nor drop a command, and the others.
LEMMA PaidFrame ==
    [Next]_vars => \/ UNCHANGED <<alive, out, wire, applied, sent>>
                   \/ Connected \/ ExitTest \/ Abandon \/ PopAppend \/ WriteOut
                   \/ Reappend \/ Break \/ \E c \in Conns, ok \in BOOLEAN : Execute(c, ok)
<1>1. ReadReply => UNCHANGED <<alive, out, wire, applied, sent>>
  BY Zenon DEF ReadReply
<1> QED
  BY <1>1 DEF Next, ProducerStep, vars, conn, hist, ConnectGivesUp, RetryGivesUp, Top, DeadlineTest,
         PopLose, PopNothing, FlushNow, FlushLater, FlushDone, FirstIoError, SecondIoError, Feed,
         RequestStop, DeadlinePasses

\* Every execution of a command is paid for by an append.
LEMMA PaidStep ==
    TypeOK /\ LocalsReset /\ Connection /\ Aligned /\ NoRepeat /\ Paid /\ [Next]_vars => Paid'
<1> SUFFICES ASSUME TypeOK, LocalsReset, Connection, Aligned, NoRepeat, Paid, [Next]_vars, NEW e \in Events
             PROVE  applied'[e] + Cardinality(Carriers(e)') + Buffered(e)' <= sent'[e]
  BY DEF Paid, Buffered
<1> DEFINE b == Cardinality(Carriers(e))
<1>0. /\ applied[e] \in Nat /\ sent[e] \in Nat /\ b \in Nat /\ Buffered(e) \in Nat
      /\ applied[e] + b + Buffered(e) <= sent[e]
  BY PipelineTypes, CarriersFacts DEF Paid, Buffered
<1>1. CASE UNCHANGED <<alive, out, wire, applied, sent>>
  BY <1>1, <1>0 DEF Carriers, Buffered
<1>2. ASSUME wire' = wire, applied' = applied, sent' = sent, Buffered(e)' = 0
      PROVE  applied'[e] + Cardinality(Carriers(e)') + Buffered(e)' <= sent'[e]
  <2>1. Carriers(e)' = Carriers(e)
    BY <1>2 DEF Carriers
  <2> QED
    BY <1>2, <2>1, <1>0
<1>3. CASE Connected
  <2>1. Buffered(e)' = 0
    BY <1>3, ElemsEmpty DEF Connected, Buffered
  <2> QED
    BY <1>3, <1>2, <2>1 DEF Connected, hist
<1>4. CASE ExitTest \/ Abandon
  <2>1. \/ UNCHANGED <<alive, out, wire, applied, sent>>
        \/ alive' = FALSE /\ UNCHANGED <<wire, applied, sent>>
    BY <1>4 DEF ExitTest, Abandon, Leave, hist
  <2> QED
    BY <2>1, <1>1, <1>2 DEF Buffered
<1>5. CASE PopAppend
  <2>1. /\ queue # <<>> /\ out' = Append(out, Head(queue)) /\ sent' = [sent EXCEPT ![Head(queue)] = @ + 1]
        /\ UNCHANGED <<alive, wire, applied>>
    BY <1>5 DEF PopAppend
  <2>2. Head(queue) \in Events /\ Elems(out') = Elems(out) \cup {Head(queue)}
    BY <2>1, PipelineTypes, TailFacts, ElemsAppend DEF TypeOK, TypeQueue
  <2>3. Carriers(e)' = Carriers(e)
    BY <2>1 DEF Carriers
  <2>4. sent'[e] = IF e = Head(queue) THEN sent[e] + 1 ELSE sent[e]
    BY <2>1, <2>2, PipelineTypes
  <2>5. Buffered(e)' <= Buffered(e) + (IF e = Head(queue) THEN 1 ELSE 0) /\ Buffered(e)' \in Nat
    BY <2>1, <2>2 DEF Buffered
  <2> QED
    BY <2>1, <2>3, <2>4, <2>5, <1>0
<1>6. CASE WriteOut
  <2>1. /\ alive /\ out' = <<>> /\ wire' = [wire EXCEPT ![ctx] = @ \o out] /\ UNCHANGED <<alive, applied, sent>>
    BY <1>6 DEF WriteOut, hist
  <2>2. Buffered(e)' = 0
    BY <2>1, ElemsEmpty DEF Buffered
  <2>3. \A c \in Conns : Elems(wire'[c]) = IF c = ctx THEN Elems(wire[c]) \cup Elems(out) ELSE Elems(wire[c])
    <3>1. \A c \in Conns : wire'[c] = IF c = ctx THEN wire[c] \o out ELSE wire[c]
      BY <2>1, PipelineTypes
    <3>2. \A c \in Conns : Elems(wire[c] \o out) = Elems(wire[c]) \cup Elems(out)
      BY PipelineTypes, ElemsConcat
    <3> QED
      BY <3>1, <3>2
  <2>4. CASE e \in Elems(out)
    <3>1. Carriers(e)' \subseteq Carriers(e) \cup {ctx}
      BY <2>3 DEF Carriers
    <3>2. Cardinality(Carriers(e)') <= b + 1 /\ Cardinality(Carriers(e)') \in Nat
      <4>1. /\ IsFiniteSet(Carriers(e) \cup {ctx}) /\ b \in Nat
            /\ Cardinality(Carriers(e) \cup {ctx}) \in {b, b + 1}
        BY CarriersFacts, FS_AddElement
      <4>2. /\ Cardinality(Carriers(e)') <= Cardinality(Carriers(e) \cup {ctx})
            /\ Cardinality(Carriers(e)') \in Nat
        BY <3>1, <4>1, FS_Subset, FS_CardinalityType
      <4> HIDE DEF b
      <4> QED
        BY <4>1, <4>2
    <3>3. Buffered(e) = 1
      BY <2>1, <2>4 DEF Buffered
    <3> QED
      BY <2>1, <2>2, <3>2, <3>3, <1>0
  <2>5. CASE e \notin Elems(out)
    <3>1. Carriers(e)' = Carriers(e)
      BY <2>3, <2>5 DEF Carriers
    <3> QED
      BY <2>1, <2>2, <3>1, <1>0
  <2> QED
    BY <2>4, <2>5
<1>7. CASE Reappend
  <2>1. PICK k \in 0..Len(inflight) :
           /\ out' = Take(inflight, k)
           /\ sent' = [x \in Events |-> sent[x] + (IF x \in Elems(Take(inflight, k)) THEN 1 ELSE 0)]
    BY <1>7 DEF Reappend
  <2>2. /\ pc = "append" /\ count = 0 /\ UNCHANGED <<alive, wire, applied>>
    BY <1>7 DEF Reappend, LocalsReset
  <2>3. Carriers(e)' = Carriers(e)
    BY <2>2 DEF Carriers
  <2>4. Buffered(e)' <= (IF e \in Elems(Take(inflight, k)) THEN 1 ELSE 0) /\ Buffered(e)' \in Nat
    BY <2>1 DEF Buffered
  <2>5. Buffered(e)' + sent[e] <= sent'[e] /\ sent'[e] \in Nat
    BY <2>1, <2>4, <1>0
  <2> QED
    BY <2>2, <2>3, <2>4, <2>5, <1>0
<1>8. CASE Break
  <2>1. PICK k \in 0..Len(wire[ctx]) : wire' = [wire EXCEPT ![ctx] = Take(@, k)]
    BY <1>8 DEF Break
  <2>2. alive' = FALSE /\ UNCHANGED <<applied, sent>> /\ ctx # NULL
    BY <1>8 DEF Break, hist
  <2>3. \A c \in Conns : Elems(wire'[c]) \subseteq Elems(wire[c])
    <3>1. ctx \in Conns /\ Elems(Take(wire[ctx], k)) \subseteq Elems(wire[ctx])
      BY <2>2, PipelineTypes, ElemsTakeDrop
    <3> QED
      BY <2>1, <3>1, PipelineTypes
  <2>4. Carriers(e)' \subseteq Carriers(e)
    BY <2>3 DEF Carriers
  <2>5. Cardinality(Carriers(e)') <= b /\ Cardinality(Carriers(e)') \in Nat
    BY <2>4, CarriersFacts, FS_Subset, FS_CardinalityType
  <2>6. Buffered(e)' = 0
    BY <2>2 DEF Buffered
  <2> QED
    BY <2>2, <2>5, <2>6, <1>0
<1>9. ASSUME NEW c \in Conns, NEW ok \in BOOLEAN, Execute(c, ok)
      PROVE  applied'[e] + Cardinality(Carriers(e)') + Buffered(e)' <= sent'[e]
  <2>1. /\ wire[c] # <<>> /\ Head(wire[c]) \in Events /\ wire' = [wire EXCEPT ![c] = Tail(@)]
        /\ applied'[e] = IF e = Head(wire[c]) /\ ok = TRUE THEN applied[e] + 1 ELSE applied[e]
    BY <1>9, ExecuteAdds
  <2>2. UNCHANGED <<alive, out, sent>>
    BY <1>9 DEF Execute
  <2>3. Buffered(e)' = Buffered(e)
    BY <2>2 DEF Buffered
  <2>4. /\ Elems(wire[c]) = {Head(wire[c])} \cup Elems(wire'[c])
        /\ \A d \in Conns : d # c => wire'[d] = wire[d]
    BY <2>1, PipelineTypes, ElemsHeadTail
  <2>5. CASE e = Head(wire[c])
    <3>1. e \notin Elems(wire'[c])
      <4>1. wire[c] \in Seq(Events) /\ wire'[c] = Tail(wire[c])
        BY <2>1, PipelineTypes
      <4>2. /\ Head(wire[c]) = wire[c][1] /\ Len(wire[c]) \in Nat \ {0}
            /\ wire'[c] \in Seq(Events) /\ Len(wire'[c]) = Len(wire[c]) - 1
            /\ \A i \in 1..(Len(wire[c]) - 1) : wire'[c][i] = wire[c][i + 1]
        BY <2>1, <4>1, TailFacts
      <4>3. ASSUME NEW i \in 1..Len(wire'[c]) PROVE wire'[c][i] # e
        <5>1. i \in 1..(Len(wire[c]) - 1)
          BY <4>2
        <5>2. i + 1 \in 1..Len(wire[c]) /\ 1 \in 1..Len(wire[c]) /\ i + 1 # 1
          BY <5>1, <4>2
        <5> QED
          BY <5>1, <5>2, <4>2, <2>5 DEF NoRepeat
      <4> QED
        BY <4>2, <4>3, ElemsFacts
    <3>2. c \in Carriers(e) /\ Carriers(e)' = Carriers(e) \ {c}
      BY <3>1, <2>4, <2>5 DEF Carriers
    <3>3. Cardinality(Carriers(e)') = b - 1
      BY <3>2, CarriersFacts, FS_RemoveElement
    <3> QED
      BY <2>1, <2>2, <2>3, <3>3, <1>0
  <2>6. CASE e # Head(wire[c])
    <3>1. Carriers(e)' = Carriers(e)
      BY <2>4, <2>6 DEF Carriers
    <3> QED
      BY <2>1, <2>2, <2>3, <2>6, <3>1, <1>0
  <2> QED
    BY <2>5, <2>6
<1> QED
  BY <1>1, <1>3, <1>4, <1>5, <1>6, <1>7, <1>8, <1>9, PaidFrame

-----------------------------------------------------------------------------
(* The theorems.                                                           *)

\* IndInv holds initially: nothing has been fed, sent or counted.
LEMMA InitHolds == Init => IndInv
<1> SUFFICES ASSUME Init PROVE IndInv
  OBVIOUS
<1>1. TypeOK
  <2>1. TypeQueue /\ TypeInflight
    BY EventsAssumption, QueueCapAssumption, PipelineAssumption DEF Init, TypeQueue, TypeInflight
  <2>2. stop \in BOOLEAN /\ stopping \in BOOLEAN /\ late \in BOOLEAN /\ alive \in BOOLEAN
    BY Zenon DEF Init
  <2>3. TypeControl
    <3>1. remaining \in 0..QueueCap
      BY QueueCapAssumption DEF Init
    <3> QED
      BY <2>2, <3>1, Zenon DEF Init, TypeControl
  <2>4. TypeConn
    <3>1. ctx \in 0..nconn /\ nconn \in 0..MaxConns
      BY ConnsAssumption DEF Init, NULL
    <3>2. out \in Seq(Events) /\ wire \in [Conns -> Seq(Events)] /\ reps \in Seq(BOOLEAN)
      BY DEF Init
    <3> QED
      BY <2>2, <3>1, <3>2 DEF TypeConn
  <2>5. TypeStats /\ TypeHist
    BY DEF Init, TypeStats, TypeHist, Counters
  <2> QED
    BY <2>1, <2>3, <2>4, <2>5 DEF TypeOK
<1>2. LocalsReset /\ Connection /\ StopSeen /\ LastLook
  BY DEF Init, LocalsReset, Connection, StopSeen, LastLook
<1>3. Answered /\ NumbersAddUp
  BY DEF Init, Answered, NumbersAddUp, Counted
<1>4. EventsAddUp
  BY ElemsEmpty DEF Init, EventsAddUp
<1>5. InOrder /\ AckedWereAdded
  BY DEF Init, InOrder, AckedWereAdded
<1>6. SentOnce
  BY DEF Init, SentOnce
<1>7. Aligned /\ NoRepeat
  BY DEF Init, Aligned, NoRepeat
<1>8. Paid
  <2>1. \A e : Carriers(e) = {}
    BY ElemsEmpty DEF Init, Carriers
  <2>2. alive = FALSE
    BY Zenon DEF Init
  <2>3. \A e \in Events : applied[e] = 0 /\ sent[e] = 0
    BY DEF Init
  <2>4. \A e \in Events : Cardinality(Carriers(e)) = 0
    BY <2>1, FS_EmptySet
  <2> QED
    BY <2>2, <2>3, <2>4 DEF Paid, Buffered
<1> QED
  BY <1>1, <1>2, <1>3, <1>4, <1>5, <1>6, <1>7, <1>8 DEF IndInv, Structure, Accounting, Delivery

\* IndInv is an invariant of the producer.
THEOREM Inductive == Spec => []IndInv
<1>1. IndInv /\ [Next]_vars => IndInv'
  <2> SUFFICES ASSUME IndInv, [Next]_vars PROVE IndInv'
    OBVIOUS
  <2> USE DEF IndInv, Structure, Accounting, Delivery
  <2>1. TypeOK'
    BY TypeQueueStep, TypeControlStep, TypeInflightStep, TypeConnStep, TypeStatsStep,
        TypeHistStep DEF TypeOK
  <2>2. (LocalsReset /\ Connection /\ StopSeen /\ LastLook)'
    BY LocalsResetStep, ConnectionStep, StopSeenStep, LastLookStep
  <2>3. (Answered /\ NumbersAddUp /\ EventsAddUp)'
    BY AnsweredStep, NumbersStep, EventsStep
  <2>4. (InOrder /\ SentOnce /\ Aligned)'
    BY InOrderStep, SentOnceStep, AlignedStep
  <2>5. (NoRepeat /\ Paid /\ AckedWereAdded)'
    BY NoRepeatStep, PaidStep, AckedStep
  <2> QED
    BY <2>1, <2>2, <2>3, <2>4, <2>5
<1> QED
  BY InitHolds, <1>1, PTL DEF Spec

\* Every reachable state is well typed; in particular no index into inflight
\* passes its end, whatever Redis does.
THEOREM TypeCorrect == Spec => []TypeOK
  BY Inductive, PTL DEF IndInv, Structure

\* Every event fed is in q_evt, in flight, acknowledged, refused or counted
\* lost, through every break, retry and failed append, until one comes late.
THEOREM AccountedUnlessLateCorrect == Spec => []AccountedUnlessLate
<1>1. IndInv => AccountedUnlessLate
  BY DEF IndInv, Accounting, NumbersAddUp, EventsAddUp, AccountedUnlessLate
<1> QED
  BY Inductive, <1>1, PTL

\* When the thread has left, every event fed in time is acknowledged, refused
\* or counted lost: the drain of cf_redis_producer_stop() loses nothing silently.
THEOREM NoSilentLossUnlessLateCorrect == Spec => []NoSilentLossUnlessLate
<1>1. IndInv => NoSilentLossUnlessLate
  <2> SUFFICES ASSUME IndInv, ~late, pc = "done"
               PROVE  offered = Counted /\ 1..offered = acked \cup refused \cup lost
    BY DEF NoSilentLossUnlessLate, NoSilentLoss
  <2>1. queue = <<>> /\ inflight = <<>> /\ drained = 0
    BY DEF IndInv, Structure, LastLook, LocalsReset
  <2>2. offered = Len(queue) + (Len(inflight) - drained) + Counted /\ Counted \in Nat
    BY CountedFacts DEF IndInv, Structure, TypeOK, Accounting, NumbersAddUp
  <2>3. 1..offered = acked \cup refused \cup lost
    BY <2>1, ElemsEmpty DEF IndInv, Accounting, EventsAddUp
  <2> QED
    BY <2>1, <2>2, <2>3
<1> QED
  BY Inductive, <1>1, PTL

\* No reply is ever taken for the reply of another command: what xadd_total
\* counts is in its stream.
THEOREM AckedWereAddedCorrect == Spec => []AckedWereAdded
  BY Inductive, PTL DEF IndInv, Delivery

\* "Retry once" bounds the duplicates: no event is added to its stream more
\* than twice, whatever was still on the wire of a connection given up.
THEOREM AtMostTwiceCorrect == Spec => []AtMostTwice
<1>1. IndInv => AtMostTwice
  <2> SUFFICES ASSUME IndInv, NEW e \in Events PROVE applied[e] <= 2
    BY DEF AtMostTwice
  <2> DEFINE b == Cardinality(Carriers(e))
  <2>1. b \in Nat /\ applied[e] \in Nat /\ sent[e] \in Nat /\ sent[e] <= 2
    BY CarriersFacts DEF IndInv, Structure, Delivery, TypeOK, TypeHist, SentOnce
  <2>2. applied[e] + b <= sent[e] \/ applied[e] + b + 1 <= sent[e]
    BY <2>1 DEF IndInv, Delivery, Paid, Buffered
  <2> HIDE DEF b
  <2> QED
    BY <2>1, <2>2
<1> QED
  BY Inductive, <1>1, PTL

\* While nobody asks for a stop, an event is lost only after it was appended on
\* two connections, or could not be appended.
THEOREM LostWereTriedCorrect == Spec => LostWereTried
<1> DEFINE Tried(e) == \/ sent[e] = 2 \/ stop
                       \/ pc = "pop" /\ e = Head(queue)
                       \/ pc = "flush" /\ attempt = 2 /\ e \in Elems(Drop(inflight, count))
<1>1. IndInv /\ [Next]_vars => [\A e \in lost' \ lost : Tried(e)]_vars
  BY LostStep DEF IndInv, Structure, Delivery
<1> QED
  BY Inductive, <1>1, PTL DEF Spec, LostWereTried

=============================================================================
