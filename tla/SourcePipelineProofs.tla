------------------------- MODULE SourcePipelineProofs -------------------------
(***************************************************************************)
(* For every queue size, pipeline depth, table size and number of packets: *)
(* main() tears nothing down under a running thread, and at exit whatever  *)
(* was received is counted or was pushed onto a queue too late.            *)
(***************************************************************************)
EXTENDS SourcePipeline, TLAPS

(* The inductive invariant.                                                *)

\* What is still to be read never exceeds what arrives.
InputBounded == input + block <= MaxPackets

\* The reader has a block only while it walks; --replay has no reader; main
\* is past the reader's join once it stops the stage.
ReaderOrder ==
    /\ block > 0 => rpc = "walk"
    /\ mpc \in {"replay", "waitPkt", "waitEvt"} => rpc = "out"
    /\ mpc \in {"stopStage", "joinStage", "free", "joinProducer", "exit"} => rpc = "out"

\* Each join is behind main once it has moved on, and the engine is empty once
\* it has been freed.
JoinOrder ==
    /\ mpc \in {"free", "joinProducer", "exit"} => spc = "out"
    /\ mpc \in {"joinProducer", "exit"} => held = 0
    /\ mpc = "exit" => ppc = "out"

\* Where a packet is that has been received and not resolved.
UnderWay == qPkt + (IF spc = "busy" THEN 1 ELSE 0) + held + qEvt + inflight

Conserved == n.received = UnderWay + uncounted + Resolved

\* A thread leaves with its queue empty, and it stays so unless a push is late;
\* so does the sample taken at the deadline stay the length of q_evt, which only
\* the producer makes shorter.
LeftEmpty ==
    /\ ppc = "out" => inflight = 0
    /\ ppc # "out" => uncounted = 0
    /\ ppc = "drain" => remaining <= qEvt
    /\ ~late => /\ spc = "out" => qPkt = 0
                /\ ppc = "out" => qEvt = 0
                /\ ppc = "drain" => remaining = qEvt
                /\ uncounted = 0

IndInv == TypeOK /\ InputBounded /\ ReaderOrder /\ JoinOrder /\ Conserved /\ LeftEmpty

-----------------------------------------------------------------------------
(* What the two kinds of push do to the counters.                          *)

\* Setting two counters leaves a record of counters.
LEMMA TwoCounters ==
    ASSUME NEW r \in Counters, NEW i \in Nat, NEW j \in Nat
    PROVE  /\ [r EXCEPT !.received = i, !.pktDrop = j] \in Counters
           /\ [r EXCEPT !.merged = i, !.evtDrop = j] \in Counters
  BY DEF Counters

\* A packet offered to q_pkt is queued or counted as dropped, one or the other.
LEMMA PushPktFacts ==
    ASSUME TypeOK, PushPkt
    PROVE  /\ qPkt' \in 0..PktCap /\ n' \in Counters /\ late' \in BOOLEAN
           /\ n.received \in Nat /\ Resolved \in Nat /\ Resolved' \in Nat
           /\ n'.received = n.received + 1
           /\ qPkt' + Resolved' = qPkt + Resolved + 1
           /\ ~late' => ~late /\ spc # "out"
<1> USE SizesAssumption
<1>0. n \in Counters /\ n.received + 1 \in Nat /\ n.pktDrop + 1 \in Nat
  BY DEF TypeOK, Counters
<1>1. late' \in BOOLEAN /\ (~late' => ~late /\ spc # "out")
  BY DEF PushPkt, TypeOK
<1>2. CASE qPkt < PktCap
  <2>1. qPkt' = qPkt + 1 /\ n' = [n EXCEPT !.received = @ + 1]
    BY <1>2 DEF PushPkt
  <2> QED
    BY <1>1, <1>2, <2>1 DEF Resolved, TypeOK, Counters
<1>3. CASE ~(qPkt < PktCap)
  <2>1. qPkt' = qPkt /\ n' = [n EXCEPT !.received = @ + 1, !.pktDrop = @ + 1]
    BY <1>3 DEF PushPkt
  <2>2. n' \in Counters
    BY <1>0, <2>1, TwoCounters
  <2>3. /\ n'.received = n.received + 1 /\ n'.pktDrop = n.pktDrop + 1
        /\ n'.evtDrop = n.evtDrop /\ n'.skipped = n.skipped /\ n'.merged = n.merged
        /\ n'.done = n.done
    BY <2>1, <1>0 DEF Counters
  <2> QED
    BY <1>1, <2>1, <2>2, <2>3 DEF Resolved, TypeOK, Counters
<1> QED
  BY <1>2, <1>3

\* An event offered to q_evt is queued or counted as dropped, one or the other.
LEMMA PushEvtFacts ==
    ASSUME TypeOK, NEW delta \in Nat, PushEvt(delta)
    PROVE  /\ qEvt' \in 0..EvtCap /\ n' \in Counters /\ late' \in BOOLEAN
           /\ n.received \in Nat /\ Resolved \in Nat /\ Resolved' \in Nat
           /\ n'.received = n.received
           /\ Resolved' = qEvt + Resolved + delta + 1 - qEvt'
           /\ qEvt <= qEvt' /\ (~late' => ~late /\ ppc # "out" /\ ppc # "drain")
<1> USE SizesAssumption
<1>0. n \in Counters /\ n.evtDrop + 1 \in Nat /\ n.merged + delta \in Nat
  BY DEF TypeOK, Counters
<1>1. late' \in BOOLEAN /\ (~late' => ~late /\ ppc # "out" /\ ppc # "drain")
  BY DEF PushEvt, TypeOK
<1>2. CASE qEvt < EvtCap
  <2>1. qEvt' = qEvt + 1 /\ n' = [n EXCEPT !.merged = @ + delta]
    BY <1>2 DEF PushEvt
  <2> QED
    BY <1>1, <1>2, <2>1 DEF Resolved, TypeOK, Counters
<1>3. CASE ~(qEvt < EvtCap)
  <2>1. qEvt' = qEvt /\ n' = [n EXCEPT !.merged = @ + delta, !.evtDrop = @ + 1]
    BY <1>3 DEF PushEvt
  <2>2. n' \in Counters
    BY <1>0, <2>1, TwoCounters
  <2>3. /\ n'.received = n.received /\ n'.pktDrop = n.pktDrop
        /\ n'.evtDrop = n.evtDrop + 1 /\ n'.skipped = n.skipped
        /\ n'.merged = n.merged + delta /\ n'.done = n.done
    BY <2>1, <1>0 DEF Counters
  <2> QED
    BY <1>1, <2>1, <2>2, <2>3 DEF Resolved, TypeOK, Counters
<1> QED
  BY <1>2, <1>3
-----------------------------------------------------------------------------

\* At the deadline what the producer sampled and what it has in flight is done.
LEMMA DrainFacts ==
    ASSUME TypeOK, LeftEmpty, ProducerDrain
    PROVE  /\ n' \in Counters /\ qEvt' \in 0..EvtCap /\ uncounted' \in 0..EvtCap /\ inflight' = 0
           /\ n.received \in Nat /\ Resolved \in Nat /\ Resolved' \in Nat /\ n'.received = n.received
           /\ uncounted' + qEvt' + Resolved' = uncounted + qEvt + inflight + Resolved
           /\ ~late => uncounted' = 0
<1> USE SizesAssumption
<1>1. /\ n \in Counters /\ remaining \in Nat /\ inflight \in Nat /\ qEvt \in 0..EvtCap
      /\ uncounted = 0 /\ remaining <= qEvt /\ (~late => remaining = qEvt)
      /\ n' = [n EXCEPT !.done = @ + remaining + inflight] /\ inflight' = 0
  BY DEF TypeOK, LeftEmpty, ProducerDrain
<1>2. /\ n' \in Counters /\ n'.received = n.received /\ n'.pktDrop = n.pktDrop /\ n'.evtDrop = n.evtDrop
      /\ n'.skipped = n.skipped /\ n'.merged = n.merged /\ n'.done = n.done + remaining + inflight
  BY <1>1 DEF Counters
<1>3. Resolved \in Nat /\ Resolved' = Resolved + remaining + inflight /\ n.received \in Nat
  BY <1>1, <1>2 DEF Resolved, Counters
<1>4. CASE remaining > 0
  <2>1. qEvt' = 0 /\ uncounted' = qEvt - remaining
    BY <1>4 DEF ProducerDrain
  <2> QED
    BY <1>1, <1>2, <1>3, <2>1
<1>5. CASE ~(remaining > 0)
  <2>1. qEvt' = qEvt /\ uncounted' = uncounted /\ remaining = 0
    BY <1>1, <1>5 DEF ProducerDrain
  <2> QED
    BY <1>1, <1>2, <1>3, <2>1
<1> QED
  BY <1>4, <1>5

\* Every step of every thread keeps the types and the input's bound.
LEMMA TypeStep == TypeOK /\ LeftEmpty /\ InputBounded /\ [Next]_vars => TypeOK' /\ InputBounded'
<1> SUFFICES ASSUME TypeOK, LeftEmpty, InputBounded, [Next]_vars PROVE TypeOK' /\ InputBounded'
  OBVIOUS
<1> USE SizesAssumption DEF TypeOK, InputBounded, reader, stage, producer
<1>1. CASE ReaderWake
  BY <1>1 DEF ReaderWake
<1>2. CASE ReaderPush
  BY <1>2, PushPktFacts DEF ReaderPush
<1>3. CASE ReaderWait
  BY <1>3 DEF ReaderWait
<1>4. CASE ReaderLeave
  BY <1>4 DEF ReaderLeave
<1>5. CASE StageSeesStop
  BY <1>5 DEF StageSeesStop
<1>6. CASE StagePop
  BY <1>6 DEF StagePop
<1>7. CASE StageSkip
  BY <1>7 DEF StageSkip, Counters
<1>8. CASE StageEmit
  BY <1>8, PushEvtFacts DEF StageEmit
<1>9. CASE StageHold
  BY <1>9 DEF StageHold
<1>10. CASE StageMatch
  BY <1>10, PushEvtFacts DEF StageMatch
<1>11. CASE StageEvict
  BY <1>11, PushEvtFacts DEF StageEvict
<1>12. CASE StageLeave
  BY <1>12 DEF StageLeave
<1>13. CASE ProducerPop
  BY <1>13 DEF ProducerPop
<1>14. CASE ProducerFlush
  BY <1>14 DEF ProducerFlush, Counters
<1>15. CASE ProducerLeave
  BY <1>15 DEF ProducerLeave
<1>16. CASE ProducerDrain
  BY <1>16, DrainFacts DEF ProducerDrain
<1>17. CASE ReplayPush
  BY <1>17, PushPktFacts DEF ReplayPush
<1>18. CASE ReplayEnd
  BY <1>18 DEF ReplayEnd
<1>19. CASE ReplayPoll
  BY <1>19 DEF ReplayPoll
<1>20. CASE ReplayGiveUp
  BY <1>20 DEF ReplayGiveUp
<1>21. CASE StopReader
  BY <1>21 DEF StopReader
<1>22. CASE StopStage
  BY <1>22 DEF StopStage
<1>23. CASE JoinStage
  BY <1>23 DEF JoinStage
<1>24. CASE FreePending
  BY <1>24, PushEvtFacts DEF FreePending
<1>25. CASE FreeEngine
  BY <1>25 DEF FreeEngine
<1>26. CASE JoinProducer
  BY <1>26 DEF JoinProducer
<1>27. CASE Signal
  BY <1>27 DEF Signal
<1>28. CASE UNCHANGED vars
  BY <1>28 DEF vars
<1>29. CASE StagePopEmpty
  BY <1>29 DEF StagePopEmpty
<1>30. CASE StageTickEnd
  BY <1>30 DEF StageTickEnd
<1>31. CASE ProducerSend
  BY <1>31 DEF ProducerSend
<1>32. CASE ProducerDeadline
  BY <1>32 DEF ProducerDeadline
<1> QED
  BY <1>1, <1>2, <1>3, <1>4, <1>5, <1>6, <1>7, <1>8, <1>9, <1>10, <1>11, <1>12, <1>13, <1>14, <1>15, <1>16,
     <1>17, <1>18, <1>19, <1>20, <1>21, <1>22, <1>23, <1>24, <1>25, <1>26, <1>27, <1>28, <1>29, <1>30, <1>31, <1>32
  DEF Next, ReaderStep, StageStep, ProducerStep, MainStep

\* Every step keeps the order of main()'s joins.
LEMMA OrderStep == TypeOK /\ ReaderOrder /\ JoinOrder /\ [Next]_vars => ReaderOrder' /\ JoinOrder'
<1> SUFFICES ASSUME TypeOK, ReaderOrder, JoinOrder, [Next]_vars PROVE ReaderOrder' /\ JoinOrder'
  OBVIOUS
<1> USE SizesAssumption DEF TypeOK, ReaderOrder, JoinOrder, reader, stage, producer
<1>1. CASE ReaderWake
  BY <1>1 DEF ReaderWake
<1>2. CASE ReaderPush
  BY <1>2, PushPktFacts DEF ReaderPush
<1>3. CASE ReaderWait
  BY <1>3 DEF ReaderWait
<1>4. CASE ReaderLeave
  BY <1>4 DEF ReaderLeave
<1>5. CASE StageSeesStop
  BY <1>5 DEF StageSeesStop
<1>6. CASE StagePop
  BY <1>6 DEF StagePop
<1>7. CASE StageSkip
  BY <1>7 DEF StageSkip
<1>8. CASE StageEmit
  BY <1>8, PushEvtFacts DEF StageEmit
<1>9. CASE StageHold
  BY <1>9 DEF StageHold
<1>10. CASE StageMatch
  BY <1>10, PushEvtFacts DEF StageMatch
<1>11. CASE StageEvict
  BY <1>11, PushEvtFacts DEF StageEvict
<1>12. CASE StageLeave
  BY <1>12 DEF StageLeave
<1>13. CASE ProducerPop
  BY <1>13 DEF ProducerPop
<1>14. CASE ProducerFlush
  BY <1>14 DEF ProducerFlush
<1>15. CASE ProducerLeave
  BY <1>15 DEF ProducerLeave
<1>16. CASE ProducerDrain
  BY <1>16 DEF ProducerDrain
<1>17. CASE ReplayPush
  BY <1>17, PushPktFacts DEF ReplayPush
<1>18. CASE ReplayEnd
  BY <1>18 DEF ReplayEnd
<1>19. CASE ReplayPoll
  BY <1>19 DEF ReplayPoll
<1>20. CASE ReplayGiveUp
  BY <1>20 DEF ReplayGiveUp
<1>21. CASE StopReader
  BY <1>21 DEF StopReader
<1>22. CASE StopStage
  BY <1>22 DEF StopStage
<1>23. CASE JoinStage
  BY <1>23 DEF JoinStage
<1>24. CASE FreePending
  BY <1>24, PushEvtFacts DEF FreePending
<1>25. CASE FreeEngine
  BY <1>25 DEF FreeEngine
<1>26. CASE JoinProducer
  BY <1>26 DEF JoinProducer
<1>27. CASE Signal
  BY <1>27 DEF Signal
<1>28. CASE UNCHANGED vars
  BY <1>28 DEF vars
<1>29. CASE StagePopEmpty
  BY <1>29 DEF StagePopEmpty
<1>30. CASE StageTickEnd
  BY <1>30 DEF StageTickEnd
<1>31. CASE ProducerSend
  BY <1>31 DEF ProducerSend
<1>32. CASE ProducerDeadline
  BY <1>32 DEF ProducerDeadline
<1> QED
  BY <1>1, <1>2, <1>3, <1>4, <1>5, <1>6, <1>7, <1>8, <1>9, <1>10, <1>11, <1>12, <1>13, <1>14, <1>15, <1>16,
     <1>17, <1>18, <1>19, <1>20, <1>21, <1>22, <1>23, <1>24, <1>25, <1>26, <1>27, <1>28, <1>29, <1>30, <1>31, <1>32
  DEF Next, ReaderStep, StageStep, ProducerStep, MainStep

\* Every step keeps the balance of packets received against packets resolved.
LEMMA ConservedStep == TypeOK /\ LeftEmpty /\ Conserved /\ [Next]_vars => Conserved'
<1> SUFFICES ASSUME TypeOK, LeftEmpty, Conserved, [Next]_vars PROVE Conserved'
  OBVIOUS
<1> USE SizesAssumption DEF TypeOK, Conserved, UnderWay, reader, stage, producer
<1>1. CASE ReaderWake
  BY <1>1 DEF ReaderWake, Counters, Resolved
<1>2. CASE ReaderPush
  BY <1>2, PushPktFacts DEF ReaderPush
<1>3. CASE ReaderWait
  BY <1>3 DEF ReaderWait, Counters, Resolved
<1>4. CASE ReaderLeave
  BY <1>4 DEF ReaderLeave, Counters, Resolved
<1>5. CASE StageSeesStop
  BY <1>5 DEF StageSeesStop, Counters, Resolved
<1>6. CASE StagePop
  BY <1>6 DEF StagePop, Counters, Resolved
<1>7. CASE StageSkip
  BY <1>7 DEF StageSkip, Counters, Resolved
<1>8. CASE StageEmit
  BY <1>8, PushEvtFacts DEF StageEmit
<1>9. CASE StageHold
  BY <1>9 DEF StageHold, Counters, Resolved
<1>10. CASE StageMatch
  BY <1>10, PushEvtFacts DEF StageMatch
<1>11. CASE StageEvict
  BY <1>11, PushEvtFacts DEF StageEvict
<1>12. CASE StageLeave
  BY <1>12 DEF StageLeave, Counters, Resolved
<1>13. CASE ProducerPop
  BY <1>13 DEF ProducerPop, Counters, Resolved
<1>14. CASE ProducerFlush
  BY <1>14 DEF ProducerFlush, Counters, Resolved
<1>15. CASE ProducerLeave
  BY <1>15 DEF ProducerLeave, Counters, Resolved
<1>16. CASE ProducerDrain
  BY <1>16, DrainFacts DEF ProducerDrain, LeftEmpty
<1>17. CASE ReplayPush
  BY <1>17, PushPktFacts DEF ReplayPush
<1>18. CASE ReplayEnd
  BY <1>18 DEF ReplayEnd, Counters, Resolved
<1>19. CASE ReplayPoll
  BY <1>19 DEF ReplayPoll, Counters, Resolved
<1>20. CASE ReplayGiveUp
  BY <1>20 DEF ReplayGiveUp, Counters, Resolved
<1>21. CASE StopReader
  BY <1>21 DEF StopReader, Counters, Resolved
<1>22. CASE StopStage
  BY <1>22 DEF StopStage, Counters, Resolved
<1>23. CASE JoinStage
  BY <1>23 DEF JoinStage, Counters, Resolved
<1>24. CASE FreePending
  BY <1>24, PushEvtFacts DEF FreePending
<1>25. CASE FreeEngine
  BY <1>25 DEF FreeEngine, Counters, Resolved
<1>26. CASE JoinProducer
  BY <1>26 DEF JoinProducer, Counters, Resolved
<1>27. CASE Signal
  BY <1>27 DEF Signal, Counters, Resolved
<1>28. CASE UNCHANGED vars
  BY <1>28 DEF vars, Counters, Resolved
<1>29. CASE StagePopEmpty
  BY <1>29 DEF StagePopEmpty, Counters, Resolved
<1>30. CASE StageTickEnd
  BY <1>30 DEF StageTickEnd, Counters, Resolved
<1>31. CASE ProducerSend
  BY <1>31 DEF ProducerSend, Counters, Resolved
<1>32. CASE ProducerDeadline
  BY <1>32 DEF ProducerDeadline, Counters, Resolved
<1> QED
  BY <1>1, <1>2, <1>3, <1>4, <1>5, <1>6, <1>7, <1>8, <1>9, <1>10, <1>11, <1>12, <1>13, <1>14, <1>15, <1>16,
     <1>17, <1>18, <1>19, <1>20, <1>21, <1>22, <1>23, <1>24, <1>25, <1>26, <1>27, <1>28, <1>29, <1>30, <1>31, <1>32
  DEF Next, ReaderStep, StageStep, ProducerStep, MainStep

\* A queue whose consumer has left stays empty until something is pushed late.
LEMMA LeftEmptyStep == TypeOK /\ LeftEmpty /\ [Next]_vars => LeftEmpty'
<1> SUFFICES ASSUME TypeOK, LeftEmpty, [Next]_vars PROVE LeftEmpty'
  OBVIOUS
<1> USE SizesAssumption DEF TypeOK, LeftEmpty, reader, stage, producer
<1>1. CASE ReaderWake
  BY <1>1 DEF ReaderWake
<1>2. CASE ReaderPush
  BY <1>2, PushPktFacts DEF ReaderPush
<1>3. CASE ReaderWait
  BY <1>3 DEF ReaderWait
<1>4. CASE ReaderLeave
  BY <1>4 DEF ReaderLeave
<1>5. CASE StageSeesStop
  BY <1>5 DEF StageSeesStop
<1>6. CASE StagePop
  BY <1>6 DEF StagePop
<1>7. CASE StageSkip
  BY <1>7 DEF StageSkip
<1>8. CASE StageEmit
  BY <1>8, PushEvtFacts DEF StageEmit
<1>9. CASE StageHold
  BY <1>9 DEF StageHold
<1>10. CASE StageMatch
  BY <1>10, PushEvtFacts DEF StageMatch
<1>11. CASE StageEvict
  BY <1>11, PushEvtFacts DEF StageEvict
<1>12. CASE StageLeave
  BY <1>12 DEF StageLeave
<1>13. CASE ProducerPop
  BY <1>13 DEF ProducerPop
<1>14. CASE ProducerFlush
  BY <1>14 DEF ProducerFlush
<1>15. CASE ProducerLeave
  BY <1>15 DEF ProducerLeave
<1>16. CASE ProducerDrain
  BY <1>16 DEF ProducerDrain
<1>17. CASE ReplayPush
  BY <1>17, PushPktFacts DEF ReplayPush
<1>18. CASE ReplayEnd
  BY <1>18 DEF ReplayEnd
<1>19. CASE ReplayPoll
  BY <1>19 DEF ReplayPoll
<1>20. CASE ReplayGiveUp
  BY <1>20 DEF ReplayGiveUp
<1>21. CASE StopReader
  BY <1>21 DEF StopReader
<1>22. CASE StopStage
  BY <1>22 DEF StopStage
<1>23. CASE JoinStage
  BY <1>23 DEF JoinStage
<1>24. CASE FreePending
  BY <1>24, PushEvtFacts DEF FreePending
<1>25. CASE FreeEngine
  BY <1>25 DEF FreeEngine
<1>26. CASE JoinProducer
  BY <1>26 DEF JoinProducer
<1>27. CASE Signal
  BY <1>27 DEF Signal
<1>28. CASE UNCHANGED vars
  BY <1>28 DEF vars
<1>29. CASE StagePopEmpty
  BY <1>29 DEF StagePopEmpty
<1>30. CASE StageTickEnd
  BY <1>30 DEF StageTickEnd
<1>31. CASE ProducerSend
  BY <1>31 DEF ProducerSend
<1>32. CASE ProducerDeadline
  BY <1>32 DEF ProducerDeadline
<1> QED
  BY <1>1, <1>2, <1>3, <1>4, <1>5, <1>6, <1>7, <1>8, <1>9, <1>10, <1>11, <1>12, <1>13, <1>14, <1>15, <1>16,
     <1>17, <1>18, <1>19, <1>20, <1>21, <1>22, <1>23, <1>24, <1>25, <1>26, <1>27, <1>28, <1>29, <1>30, <1>31, <1>32
  DEF Next, ReaderStep, StageStep, ProducerStep, MainStep

-----------------------------------------------------------------------------

\* IndInv is an invariant of the pipeline.
THEOREM Inductive == Spec => []IndInv
<1>1. Init => IndInv
  <2> SUFFICES ASSUME Init PROVE IndInv
    OBVIOUS
  <2>0. n \in Counters /\ mpc \in {"replay", "report"} /\ rpc \in {"out", "wait"}
    BY DEF Init, Counters
  <2>1. TypeOK /\ InputBounded
    <3>1. /\ input \in 0..MaxPackets /\ block \in 0..MaxPackets /\ input + block <= MaxPackets
          /\ qPkt \in 0..PktCap /\ qEvt \in 0..EvtCap /\ held \in 0..TableCap
          /\ inflight \in 0..PipelineMax /\ remaining \in 0..EvtCap /\ uncounted \in 0..EvtCap
      BY SizesAssumption DEF Init
    <3> QED
      BY <2>0, <3>1 DEF Init, TypeOK, InputBounded
  <2>2. JoinOrder /\ LeftEmpty
    BY DEF Init, JoinOrder, LeftEmpty
  <2>3. ReaderOrder
    BY DEF Init, ReaderOrder
  <2>4. Conserved
    BY DEF Init, Conserved, UnderWay, Resolved
  <2> QED
    BY <2>1, <2>2, <2>3, <2>4 DEF IndInv
<1>2. IndInv /\ [Next]_vars => IndInv'
  BY TypeStep, OrderStep, ConservedStep, LeftEmptyStep DEF IndInv
<1> QED
  BY <1>1, <1>2, PTL DEF Spec

\* Every reachable state is well typed; in particular neither queue, the
\* pending table nor the pipeline ever exceeds its size.
THEOREM TypeCorrect == Spec => []TypeOK
  BY Inductive, PTL DEF IndInv

\* main() frees the engine and pushes onto q_evt only behind the stage's and
\* the reader's join, and returns only behind the producer's.
THEOREM JoinedBeforeTeardownCorrect == Spec => []JoinedBeforeTeardown
<1>1. IndInv => JoinedBeforeTeardown
  BY DEF IndInv, ReaderOrder, JoinOrder, JoinedBeforeTeardown
<1> QED
  BY Inductive, <1>1, PTL

\* Unless a packet or an event is pushed after the thread popping its queue has
\* left, everything received is counted as dropped, skipped, merged or done
\* when main() returns.
THEOREM LosslessUnlessLateCorrect == Spec => []LosslessUnlessLate
<1>1. IndInv => LosslessUnlessLate
  <2> SUFFICES ASSUME IndInv, ~late, mpc = "exit" PROVE n.received = Resolved
    BY DEF LosslessUnlessLate, LosslessShutdown
  <2>1. spc = "out" /\ ppc = "out" /\ held = 0
    BY DEF IndInv, JoinOrder
  <2>2. qPkt = 0 /\ qEvt = 0 /\ inflight = 0 /\ uncounted = 0
    BY <2>1 DEF IndInv, LeftEmpty
  <2> QED
    BY <2>1, <2>2 DEF IndInv, Conserved, UnderWay, Resolved, TypeOK, Counters
<1> QED
  BY Inductive, <1>1, PTL

\* What a late push costs: at exit everything received is counted, lies in one
\* of the two queues that main() is about to destroy, or was popped from q_evt by
\* the drain at the deadline on top of its sample; nowhere else.
LostOnlyInQueues == mpc = "exit" => n.received = Resolved + qPkt + qEvt + uncounted

\* The stage and the producer never leave with a packet, a pending query or an
\* event in their own hands, late pushes or not.
THEOREM LostOnlyInQueuesCorrect == Spec => []LostOnlyInQueues
<1>1. IndInv => LostOnlyInQueues
  BY DEF IndInv, JoinOrder, LeftEmpty, Conserved, UnderWay, Resolved, TypeOK, Counters, LostOnlyInQueues
<1> QED
  BY Inductive, <1>1, PTL

=============================================================================
