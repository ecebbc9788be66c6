------------------------- MODULE SinkConsumerProofs -------------------------
(***************************************************************************)
(* For every number of processes, streams, entries and mishaps, for every  *)
(* read_count, batch_size and set of bad entries: an entry is acknowledged *)
(* only with an outcome, only bad entries are dead-lettered, and a batch   *)
(* is bounded and sent in parts that neither overlap nor leave anything    *)
(* out.                                                                    *)
(***************************************************************************)
EXTENDS SinkConsumer, FiniteSetTheorems, WellFoundedInduction, TLAPS

(* The inductive invariant: of a process in state p, R being what the      *)
(* destination has and D what the dead-letter stream has.                  *)

\* Where a batch is not full: no stream has added to it since it was tested.
Between == {"start", "top", "reconnect", "groups", "check", "read", "finish"}

\* What n streams add at most.
Share(n) == n * PerStream

\* The streams of the round so far have added their share and no more.
Within(p) == Len(p.batch) + Len(p.todo) < Full + Share(p.i)

Sized(p) == TypeBatch(p) /\ Within(p) /\ (p.pc \in Between => Len(p.batch) < Full)

\* The next command is for one more stream.
Looping == {"start", "groups", "reclaim"}

\* flush_batch() is not under way.
Calm(p) == p.work = <<>> /\ p.delivered = {} /\ p.poison = {} /\ p.at = 1

\* A reply is processed before anything else; ranges are left only while
\* sending; what is settled is in the batch.
Placed(p) ==
    /\ p.todo # <<>> => p.pc \in {"process", "deadletter", "ack", "aborted"} /\ Calm(p)
    /\ p.pc \notin {"send", "settle", "ack", "deadletter", "aborted"} => Calm(p)
    /\ p.pc # "send" => p.work = <<>>
    /\ p.pc \in {"ack", "deadletter"} /\ p.todo = <<>> => p.at \in 1..Len(p.batch)
    /\ p.rest # <<>> => p.pc = "process" \/ p.todo # <<>>
    /\ p.pc \in Looping => p.i < NStreams

\* send_range()'s result arrays say what the destination did, and an entry is
\* acknowledged or dead-lettered for a reason.
Justified(p, R, D) ==
    /\ \A i \in p.delivered : i \in 1..Len(p.batch) /\ p.batch[i] \in R
    /\ \A i \in p.poison : i \in 1..Len(p.batch) /\ p.batch[i] \in Rejected
    /\ p.pc = "ack" => Current(p) \in R \cup D \cup Silent
    /\ p.pc = "deadletter" => Current(p) \in Rejected \cup Undecodable

\* SentInParts, of one process, with ranges inside the batch.
Part(p, i) == Positions(p.work[i])
Settled(p) == p.delivered \cup p.poison
Ranges(p) == UNION {Part(p, i) : i \in DOMAIN p.work}
Parted(p) ==
    p.pc = "send" =>
        /\ \A i, j \in DOMAIN p.work : i # j => Part(p, i) \cap Part(p, j) = {}
        /\ \A i \in DOMAIN p.work : Part(p, i) \cap Settled(p) = {} /\ Part(p, i) \subseteq 1..Len(p.batch)
        /\ p.delivered \cap p.poison = {}
        /\ ~p.stop => Settled(p) \cup Ranges(p) = 1..Len(p.batch)

Local(p, R, D) == Sized(p) /\ Placed(p) /\ Justified(p, R, D) /\ Parted(p)

\* Every process of the group.
Locals == \A c \in Consumers : Local(proc[c], received, deadLettered)

\* What the lemmas on steps start from.
Sound == TypeOK /\ Locals

IndInv == Sound /\ AckedHaveOutcome /\ OnlyBadDeadLettered

-----------------------------------------------------------------------------
(* What XAUTOCLAIM hands over.                                             *)

\* A set of entries is finite.
LEMMA EntriesFinite ==
    ASSUME NEW S \in SUBSET Entries
    PROVE  IsFiniteSet(S) /\ Cardinality(S) \in Nat /\ (S # {} => Cardinality(S) > 0)
<1>1. IsFiniteSet(Entries)
  BY EntriesAssumption, FS_Interval DEF Entries
<1>2. IsFiniteSet(S)
  BY <1>1, FS_Subset
<1> QED
  BY <1>2, FS_CardinalityType, FS_EmptySet

\* A nonempty set of entries has a first one: of the sets of entries up to each
\* of them one contains no other.
LEMMA FirstExists ==
    ASSUME NEW S \in SUBSET Entries, S # {}
    PROVE  \E x \in S : \A y \in S : x <= y
<1> DEFINE Upto(x) == {y \in S : y <= x}
           T == {Upto(x) : x \in S}
<1>0. Entries \subseteq Int
  BY DEF Entries
<1>1. T \subseteq FiniteSubsetsOf(S) /\ T # {}
  <2>1. \A x \in S : Upto(x) \in SUBSET S
    OBVIOUS
  <2>2. \A U \in SUBSET S : IsFiniteSet(U)
    BY EntriesFinite
  <2> QED
    BY <2>1, <2>2 DEF FiniteSubsetsOf
<1>2. IsWellFoundedOn(StrictSubsetOrdering(S), FiniteSubsetsOf(S))
  BY EntriesFinite, FS_StrictSubsetOrderingWellFounded
<1>3. PICK U \in T : \A V \in T : ~ (<<V, U>> \in StrictSubsetOrdering(S))
  <2> HIDE DEF T
  <2> QED
    BY <1>1, <1>2, WFMin
<1>4. PICK x \in S : U = Upto(x)
  OBVIOUS
<1>5. ASSUME NEW y \in S, y < x PROVE FALSE
  <2>1. Upto(y) \in T
    OBVIOUS
  <2>2. Upto(y) \subseteq Upto(x) /\ x \notin Upto(y) /\ x \in Upto(x)
    <3>1. x \in Int /\ y \in Int /\ y < x
      BY <1>0, <1>5
    <3>2. \A z \in S : z <= y => z <= x
      BY <1>0, <3>1
    <3>3. x <= x /\ ~(x <= y)
      BY <3>1
    <3> QED
      BY <3>2, <3>3
  <2>3. <<Upto(y), U>> \in StrictSubsetOrdering(S)
    <3> HIDE DEF Upto
    <3> QED
      BY <1>4, <2>2 DEF StrictSubsetOrdering, Upto
  <2> HIDE DEF Upto, T
  <2> QED
    BY <1>3, <2>1, <2>3
<1> QED
  BY <1>0, <1>5

\* In order, up to the n-th.
Increasing(s, n) == \A i, j \in 1..n : i < j => s[i] < s[j]

\* A set of entries can be put in order: a minimal one that could not would
\* have a first entry, and the others could.
LEMMA CanBeOrdered ==
    ASSUME NEW S \in SUBSET Entries
    PROVE  \E s \in [1..Cardinality(S) -> S] : Increasing(s, Cardinality(S))
<1> DEFINE Fine(T) == \E s \in [1..Cardinality(T) -> T] : Increasing(s, Cardinality(T))
           Bad == {T \in SUBSET Entries : ~Fine(T)}
<1> SUFFICES ASSUME S \in Bad PROVE FALSE
  OBVIOUS
<1>0. Entries \subseteq Nat
  BY DEF Entries
<1>1. Bad \subseteq FiniteSubsetsOf(Entries)
  BY EntriesFinite DEF FiniteSubsetsOf
<1>2. IsWellFoundedOn(StrictSubsetOrdering(Entries), FiniteSubsetsOf(Entries))
  BY EntriesFinite, FS_StrictSubsetOrderingWellFounded
<1>3. PICK T \in Bad : \A V \in Bad : ~ (<<V, T>> \in StrictSubsetOrdering(Entries))
  <2> HIDE DEF Bad
  <2> QED
    BY <1>1, <1>2, WFMin
<1> DEFINE n == Cardinality(T)
<1>4. T \in SUBSET Entries /\ n \in Nat /\ ~Fine(T)
  BY EntriesFinite
<1>5. T # {}
  <2> SUFFICES ASSUME T = {} PROVE FALSE
    OBVIOUS
  <2>1. n = 0
    BY FS_EmptySet
  <2>2. <<>> \in [1..n -> T] /\ Increasing(<<>>, n)
    BY <2>1 DEF Increasing
  <2> QED
    BY <1>4, <2>2
<1>6. PICK x \in T : \A y \in T : x <= y
  BY <1>4, <1>5, FirstExists
<1> DEFINE V == T \ {x}
<1>7. V \in SUBSET Entries /\ Cardinality(V) = n - 1 /\ n > 0
  BY <1>4, <1>5, EntriesFinite, FS_RemoveElement
<1>8. Fine(V)
  <2>1. <<V, T>> \in StrictSubsetOrdering(Entries)
    BY <1>4, <1>6 DEF StrictSubsetOrdering
  <2>2. V \notin Bad
    <3> HIDE DEF Bad, V
    <3> QED
      BY <1>3, <2>1
  <2> QED
    BY <1>7, <2>2
<1>9. PICK s \in [1..(n - 1) -> V] : Increasing(s, n - 1)
  BY <1>7, <1>8
<1> DEFINE t == [i \in 1..n |-> IF i = 1 THEN x ELSE s[i - 1]]
<1>10. t \in [1..n -> T]
  <2>1. \A i \in 1..n : i # 1 => i - 1 \in 1..(n - 1)
    BY <1>4
  <2>2. \A i \in 1..n : i # 1 => s[i - 1] \in T
    BY <2>1
  <2> QED
    BY <2>2
<1>11. Increasing(t, n)
  <2> SUFFICES ASSUME NEW i \in 1..n, NEW j \in 1..n, i < j PROVE t[i] < t[j]
    BY DEF Increasing
  <2>1. j - 1 \in 1..(n - 1) /\ t[j] = s[j - 1] /\ s[j - 1] \in V
    BY <1>4
  <2>2. CASE i = 1
    <3>1. t[i] = x /\ x \in Nat /\ s[j - 1] \in Nat /\ x <= s[j - 1] /\ x # s[j - 1]
      BY <2>1, <2>2, <1>0, <1>6
    <3> HIDE DEF t, V
    <3> QED
      BY <2>1, <3>1
  <2>3. CASE i # 1
    <3>1. i - 1 \in 1..(n - 1) /\ t[i] = s[i - 1] /\ i - 1 < j - 1
      BY <1>4, <2>3
    <3>2. s[i - 1] < s[j - 1]
      BY <1>9, <2>1, <3>1 DEF Increasing
    <3> HIDE DEF t, V
    <3> QED
      BY <2>1, <3>1, <3>2
  <2> QED
    BY <2>2, <2>3
<1> QED
  BY <1>4, <1>10, <1>11

\* Ordered() is a sequence of as many entries as the set has.
LEMMA OrderedFacts ==
    ASSUME NEW S \in SUBSET Entries
    PROVE  /\ Ordered(S) \in Seq(Entries) /\ Len(Ordered(S)) = Cardinality(S)
           /\ Len(Ordered(S)) \in Nat
           /\ S # {} => Ordered(S)[1] \in S
<1>1. Cardinality(S) \in Nat /\ (S # {} => Cardinality(S) > 0)
  BY EntriesFinite
<1> DEFINE n == Cardinality(S)
<1>2. PICK s \in [1..n -> S] : \A i, j \in DOMAIN s : i < j => s[i] < s[j]
  BY CanBeOrdered DEF Increasing
<1>3. Ordered(S) \in [1..n -> S]
  BY <1>2 DEF Ordered
<1> HIDE DEF n
<1>4. n \in Nat /\ (S # {} => n > 0)
  BY <1>1 DEF n
<1>5. Ordered(S) \in [1..n -> Entries]
  BY <1>3
<1>6. Ordered(S) \in Seq(Entries) /\ Len(Ordered(S)) = n
  BY <1>4, <1>5
<1> QED
  BY <1>3, <1>4, <1>6 DEF n

\* What XAUTOCLAIM hands over, and its cursor.
LEMMA ClaimedFacts ==
    ASSUME NEW t \in Streams, NEW from \in 0..MaxEntries
    PROVE  /\ Claimed(t, from) \in Seq(Entries) /\ Len(Claimed(t, from)) <= ReadCount
           /\ NextCursor(t, from) \in 0..MaxEntries
<1> DEFINE s == Ordered(Pending(t, from) \cap idle)
<1>1. s \in Seq(Entries) /\ Len(s) \in Nat
  BY OrderedFacts DEF Pending, Of
<1>2. Claimed(t, from) \in Seq(Entries) /\ Len(Claimed(t, from)) <= ReadCount
  <2>1. Claimed(t, from) = IF Len(s) > ReadCount THEN SubSeq(s, 1, ReadCount) ELSE s
    BY DEF Claimed
  <2> HIDE DEF s
  <2>2. CASE Len(s) > ReadCount
    BY <2>1, <2>2, <1>1, SizesAssumption
  <2>3. CASE ~(Len(s) > ReadCount)
    BY <2>1, <2>3, <1>1, SizesAssumption
  <2> QED
    BY <2>2, <2>3
<1>3. NextCursor(t, from) \in 0..MaxEntries
  <2> DEFINE left == Pending(t, Claimed(t, from)[Len(Claimed(t, from))] + 1)
  <2>1. NextCursor(t, from) = 0 \/ (left # {} /\ NextCursor(t, from) = Ordered(left)[1])
    BY DEF NextCursor
  <2>2. left # {} => Ordered(left)[1] \in Entries
    <3>1. left \in SUBSET Entries
      BY DEF Pending, Of
    <3> HIDE DEF left
    <3> QED
      BY <3>1, OrderedFacts
  <2>3. 0 \in 0..MaxEntries /\ Entries \subseteq 0..MaxEntries
    BY EntriesAssumption DEF Entries
  <2> QED
    BY <2>1, <2>2, <2>3
<1> QED
  BY <1>2, <1>3

\* The sizes a batch is measured by.
LEMMA SizeFacts == PerStream \in Nat /\ Full \in Nat /\ Full > 0
  BY SizesAssumption, EntriesAssumption DEF PerStream, Full

\* One stream more, one stream's entries more.
LEMMA ShareFacts ==
    /\ Share(0) = 0 /\ Share(NStreams) = NStreams * PerStream
    /\ \A n \in 0..NStreams : Share(n) \in Nat /\ Share(n) <= Share(NStreams)
    /\ \A n \in 0..(NStreams - 1) : Share(n + 1) = Share(n) + PerStream
<1> DEFINE P == PerStream
<1>0. P \in Nat /\ NStreams \in Nat
  BY SizeFacts, StreamsAssumption
<1> HIDE DEF P
<1>1. \A n \in Nat : n * P \in Nat
  BY <1>0
<1>2. ASSUME NEW n \in 0..NStreams PROVE n * P <= NStreams * P
  <2>1. n \in Nat /\ NStreams - n \in Nat
    BY <1>0
  <2>2. (NStreams - n) * P \in Nat
    BY <1>1, <2>1
  <2>3. NStreams * P = n * P + (NStreams - n) * P
    BY <1>0, <2>1
  <2>4. n * P \in Nat
    BY <1>1, <2>1
  <2> QED
    BY <2>2, <2>3, <2>4
<1>3. ASSUME NEW n \in 0..(NStreams - 1) PROVE (n + 1) * P = n * P + P
  BY <1>0
<1>4. 0 * P = 0
  BY <1>0
<1> QED
  BY <1>0, <1>1, <1>2, <1>3, <1>4 DEF Share, P

-----------------------------------------------------------------------------
(* The state of one process.                                               *)

\* A round through the streams may begin.
Fresh(p) == Len(p.batch) + Len(p.todo) < Full /\ p.rest = <<>>

\* Two states of a process with the same reply, batch and results, in the same
\* round unless it may begin one.
Same(p, q) ==
    /\ q \in LocalState
    /\ q.i = p.i \/ Fresh(p)
    /\ q.todo = p.todo /\ q.rest = p.rest /\ q.batch = p.batch /\ q.work = p.work
    /\ q.delivered = p.delivered /\ q.poison = p.poison /\ q.at = p.at
    /\ ~q.stop => ~p.stop

\* Types of the parts of a process's state.
LEMMA LocalTypes ==
    ASSUME NEW p \in LocalState
    PROVE  /\ p.pc \in Places /\ p.todo \in Seq(Entries) /\ p.batch \in Seq(Entries)
           /\ p.next \in {"check", "top", "finish", "cleanup"} /\ p.at \in Nat
           /\ p.work \in Seq([lo : Nat, count : Nat \ {0}])
           /\ p.delivered \subseteq Nat /\ p.poison \subseteq Nat
           /\ p.cursor \in [Streams -> 0..MaxEntries] /\ p.i \in 0..NStreams
           /\ p.rest \in Seq(Seq(Entries)) /\ Len(p.rest) \in Nat
           /\ p.stop \in BOOLEAN /\ p.err \in BOOLEAN
           /\ Len(p.todo) \in Nat /\ Len(p.batch) \in Nat /\ Len(p.work) \in Nat
  BY DEF LocalState

\* Moving on touches neither the reply nor the batch.
LEMMA PcSame ==
    ASSUME NEW p \in LocalState, NEW x \in Places
    PROVE  LET q == [p EXCEPT !.pc = x] IN Same(p, q) /\ q.pc = x /\ q.i = p.i
  BY DEF Same, LocalState

\* Neither does a connection that breaks, is dropped or is made.
LEMMA ErrSame ==
    ASSUME NEW p \in LocalState
    PROVE  LET q == [p EXCEPT !.err = TRUE] IN Same(p, q) /\ q.pc = p.pc /\ q.i = p.i
  BY DEF Same, LocalState

\* The freed context.
LEMMA DropSame ==
    ASSUME NEW p \in LocalState
    PROVE  LET q == [p EXCEPT !.pc = "reconnect", !.ctx = "null", !.err = FALSE]
           IN  Same(p, q) /\ q.pc = "reconnect"
  BY DEF Same, LocalState, Places

\* A round begins: groups are created, streams are reclaimed or read.
LEMMA RoundSame ==
    ASSUME NEW p \in LocalState, NEW x \in Places, NEW n \in 0..NStreams, Fresh(p)
    PROVE  LET q == [p EXCEPT !.pc = x, !.i = n] IN Same(p, q) /\ q.pc = x /\ q.i = n
  BY DEF Same, LocalState

\* The same with a context dropped or made.
LEMMA ContextSame ==
    ASSUME NEW p \in LocalState, NEW x \in Places, NEW y \in {"first", "later", "null"}, Fresh(p)
    PROVE  LET q == [p EXCEPT !.pc = x, !.i = 0, !.ctx = y] IN Same(p, q) /\ q.pc = x /\ q.i = 0
<1>1. 0 \in 0..NStreams
  BY StreamsAssumption
<1> QED
  BY <1>1 DEF Same, LocalState

\* SIGTERM.
LEMMA StopSame ==
    ASSUME NEW p \in LocalState
    PROVE  LET q == [p EXCEPT !.stop = TRUE] IN Same(p, q) /\ q.pc = p.pc /\ q.i = p.i
  BY DEF Same, LocalState

\* Where the loop goes on after a flush.
LEMMA NextSame ==
    ASSUME NEW p \in LocalState, NEW x \in Places, NEW y \in {"check", "top", "finish", "cleanup"}
    PROVE  LET q == [p EXCEPT !.pc = x, !.next = y] IN Same(p, q) /\ q.pc = x /\ q.i = p.i
  BY DEF Same, LocalState

\* A process that keeps its reply, batch and results stays sound if it may be
\* where it goes.
LEMMA SameLocal ==
    ASSUME NEW p \in LocalState, NEW q, NEW R, NEW D, Same(p, q), Local(p, R, D),
           q.pc \in Between => Len(p.batch) < Full,
           q.pc \in Looping => q.i < NStreams,
           p.rest # <<>> => q.pc = "process" \/ p.todo # <<>>,
           p.todo # <<>> => q.pc \in {"process", "deadletter", "ack", "aborted"},
           q.pc \notin {"send", "settle", "ack", "deadletter", "aborted"} => Calm(p),
           q.pc # "send" => p.work = <<>>,
           q.pc = "send" => p.pc = "send",
           q.pc \in {"ack", "deadletter"} /\ p.todo = <<>> => p.at \in 1..Len(p.batch),
           q.pc = "ack" => Current(p) \in R \cup D \cup Silent,
           q.pc = "deadletter" => Current(p) \in Rejected \cup Undecodable
    PROVE  Local(q, R, D)
<1>1. TypeBatch(q) /\ Within(q)
  <2>0. TypeBatch(p) /\ Within(p)
    BY DEF Local, Sized
  <2>1. CASE q.i = p.i
    BY <2>0, <2>1 DEF Same, TypeBatch, Within
  <2>2. CASE Fresh(p)
    <3>1. q.i \in 0..NStreams /\ Share(q.i) \in Nat
      BY LocalTypes, ShareFacts DEF Same
    <3>2. Len(q.rest) = 0 /\ Len(q.batch) + Len(q.todo) < Full /\ Len(q.batch) + Len(q.todo) \in Nat
      <4>1. Len(q.batch) \in Nat /\ Len(q.todo) \in Nat
        BY LocalTypes DEF Same
      <4>2. q.rest = <<>> /\ Len(q.batch) + Len(q.todo) < Full
        BY <2>2 DEF Same, Fresh
      <4>3. Len(q.rest) = 0
        BY <4>2
      <4>4. Len(q.batch) + Len(q.todo) \in Nat
        <5> DEFINE a == Len(q.batch)
                   b == Len(q.todo)
        <5>1. a \in Nat /\ b \in Nat
          BY <4>1
        <5> HIDE DEF a, b
        <5>2. a + b \in Nat
          BY <5>1
        <5> QED
          BY <5>2 DEF a, b
      <4> QED
        BY <4>2, <4>3, <4>4
    <3>3. Within(q)
      <4> DEFINE a == Len(q.batch) + Len(q.todo)
                 b == Share(q.i)
      <4>1. a \in Nat /\ b \in Nat /\ a < Full
        BY <3>1, <3>2
      <4> HIDE DEF a, b
      <4>2. a < Full + b
        BY <4>1, SizeFacts
      <4> QED
        BY <4>2 DEF Within, a, b
    <3>4. q.i + Len(q.rest) <= NStreams
      BY <3>1, <3>2, StreamsAssumption
    <3> QED
      BY <2>0, <3>3, <3>4 DEF Same, TypeBatch
  <2> QED
    BY <2>1, <2>2 DEF Same
<1>4. Sized(q) /\ Placed(q)
  BY <1>1 DEF Same, Local, Sized, Placed, Calm
<1>2. Justified(q, R, D)
  BY DEF Same, Local, Justified, Current
<1>3. Parted(q)
  BY DEF Same, Local, Parted, Part, Settled, Ranges
<1> QED
  BY <1>2, <1>3, <1>4 DEF Local

\* A process that stays where it is stays sound.
LEMMA StayLocal ==
    ASSUME NEW p \in LocalState, NEW q, NEW R, NEW D, Same(p, q), q.pc = p.pc, q.i = p.i,
           Local(p, R, D)
    PROVE  Local(q, R, D)
<1>1. /\ q.pc \in Between => Len(p.batch) < Full
      /\ q.pc \in Looping => q.i < NStreams
      /\ p.rest # <<>> => q.pc = "process" \/ p.todo # <<>>
      /\ p.todo # <<>> => q.pc \in {"process", "deadletter", "ack", "aborted"}
      /\ q.pc \notin {"send", "settle", "ack", "deadletter", "aborted"} => Calm(p)
      /\ q.pc # "send" => p.work = <<>>
      /\ q.pc \in {"ack", "deadletter"} /\ p.todo = <<>> => p.at \in 1..Len(p.batch)
  BY DEF Local, Sized, Placed
<1>2. /\ q.pc = "ack" => Current(p) \in R \cup D \cup Silent
      /\ q.pc = "deadletter" => Current(p) \in Rejected \cup Undecodable
  BY DEF Local, Justified
<1> QED
  BY <1>1, <1>2, SameLocal

\* What the destination and the dead-letter stream have is only added to.
LEMMA LocalGrows ==
    ASSUME NEW p, NEW R, NEW D, NEW S, NEW E, R \subseteq S, D \subseteq E, Local(p, R, D)
    PROVE  Local(p, S, E)
  BY DEF Local, Justified

\* What a break leaves of a process is as sound as what an answer does.
LEMMA Commanded ==
    ASSUME NEW c \in Consumers, NEW q \in LocalState, NEW R, NEW D, Local(q, R, D),
           Answered(c, q) \/ Broken(c, q) \/ Refused(c, q) \/ Unusable(c, q)
    PROVE  \E r \in LocalState : Become(c, r) /\ Local(r, R, D)
<1>1. CASE Become(c, q)
  BY <1>1
<1>2. CASE Become(c, [q EXCEPT !.err = TRUE])
  <2> DEFINE r == [q EXCEPT !.err = TRUE]
  <2>1. Same(q, r) /\ r.pc = q.pc /\ r.i = q.i
    BY ErrSame
  <2> HIDE DEF r
  <2>2. Local(r, R, D)
    BY <2>1, StayLocal
  <2> QED
    BY <1>2, <2>1, <2>2 DEF Same, r
<1> QED
  BY <1>1, <1>2 DEF Answered, Broken, Refused, Unusable

\* A step of one process leaves the others sound.
LEMMA OneMoves ==
    ASSUME NEW c \in Consumers, NEW r \in LocalState, Become(c, r),
           proc \in [Consumers -> LocalState], Locals,
           received \subseteq received', deadLettered \subseteq deadLettered',
           Local(r, received', deadLettered')
    PROVE  proc' \in [Consumers -> LocalState] /\ Locals'
<1>1. proc' \in [Consumers -> LocalState] /\ proc' = [proc EXCEPT ![c] = r]
  BY DEF Become
<1>2. ASSUME NEW d \in Consumers PROVE Local(proc'[d], received', deadLettered')
  <2>1. CASE d = c
    BY <1>1, <2>1
  <2>2. CASE d # c
    <3>1. proc'[d] = proc[d] /\ Local(proc[d], received, deadLettered)
      BY <1>1, <2>2 DEF Locals
    <3> QED
      BY <3>1, LocalGrows
  <2> QED
    BY <2>1, <2>2
<1> QED
  BY <1>1, <1>2 DEF Locals

\* A process that starts is sound.
BootLocal ==
    /\ Boot \in LocalState /\ Boot.todo = <<>> /\ Boot.rest = <<>> /\ Calm(Boot)
    /\ \A R, D : Local(Boot, R, D)

\* main() starts a process with nothing read, batched or sent.
LEMMA InitLocal == BootLocal
<1>1. Boot \in LocalState
  <2>1. [t \in Streams |-> 0] \in [Streams -> 0..MaxEntries] /\ 0 \in 0..NStreams
    BY EntriesAssumption, StreamsAssumption
  <2>2. <<>> \in Seq(Entries) /\ <<>> \in Seq(Seq(Entries)) /\ <<>> \in Seq([lo : Nat, count : Nat \ {0}])
    OBVIOUS
  <2>3. {} \in SUBSET Nat /\ 1 \in Nat
    OBVIOUS
  <2> QED
    BY <2>1, <2>2, <2>3 DEF LocalState, Boot, Places
<1>2. /\ Boot.pc = "start" /\ Boot.todo = <<>> /\ Boot.batch = <<>> /\ Boot.work = <<>>
      /\ Boot.delivered = {} /\ Boot.poison = {} /\ Boot.at = 1 /\ Boot.rest = <<>> /\ Boot.i = 0
  BY DEF Boot
<1>3. Sized(Boot)
  <2> DEFINE m == NStreams * PerStream
  <2>1. Share(0) = 0 /\ m \in Nat
    BY ShareFacts, StreamsAssumption DEF m
  <2> HIDE DEF m
  <2>2. 0 + 0 < Full + 0 /\ 0 + 0 < Full + m /\ 0 + 0 <= NStreams /\ 0 <= PerStream
    BY <2>1, SizeFacts, StreamsAssumption
  <2>3. Len(Boot.batch) = 0 /\ Len(Boot.todo) = 0 /\ Len(Boot.rest) = 0 /\ DOMAIN Boot.rest = {}
    BY <1>2
  <2>4. TypeBatch(Boot)
    <3>1. 1 \in 1..(0 + 1) /\ Boot.i + Len(Boot.rest) = 0 + 0
      BY <1>2, <2>3
    <3>2. Len(Boot.batch) + Len(Boot.todo) < Full + m
      BY <2>2, <2>3
    <3> QED
      BY <1>2, <2>2, <2>3, <3>1, <3>2 DEF TypeBatch, m
  <2>5. Within(Boot)
    <3>1. Share(Boot.i) = 0
      BY <1>2, <2>1
    <3>2. Len(Boot.batch) + Len(Boot.todo) < Full + Share(Boot.i)
      BY <2>2, <2>3, <3>1
    <3> QED
      BY <3>2 DEF Within
  <2>6. Len(Boot.batch) < Full
    BY <2>3, SizeFacts
  <2> QED
    BY <2>4, <2>5, <2>6 DEF Sized
<1>4. Placed(Boot) /\ Calm(Boot) /\ Parted(Boot)
  BY <1>2, StreamsAssumption DEF Placed, Calm, Parted
<1>5. ASSUME NEW R, NEW D PROVE Justified(Boot, R, D)
  BY <1>2 DEF Justified
<1> QED
  BY <1>1, <1>2, <1>3, <1>4, <1>5 DEF BootLocal, Local

-----------------------------------------------------------------------------
(* The loop and the reads.                                                 *)

\* Between two flushes a process goes wherever its batch lets it.
LEMMA GoLocal ==
    ASSUME NEW p \in LocalState, NEW q, NEW R, NEW D, Same(p, q), Local(p, R, D),
           p.todo = <<>>, p.rest = <<>>, Calm(p),
           q.pc \notin {"send", "ack", "deadletter"},
           q.pc \in Between => Len(p.batch) < Full,
           q.pc \in Looping => q.i < NStreams
    PROVE  Local(q, R, D)
<1>1. p.work = <<>>
  BY DEF Calm
<1> QED
  BY <1>1, SameLocal

\* The same for a process and a Redis command.
LEMMA GoCommand ==
    ASSUME NEW c \in Consumers, NEW q, proc[c] \in LocalState, Same(proc[c], q),
           Local(proc[c], received, deadLettered),
           proc[c].todo = <<>>, proc[c].rest = <<>>, Calm(proc[c]),
           q.pc \notin {"send", "ack", "deadletter"},
           q.pc \in Between => Len(proc[c].batch) < Full,
           q.pc \in Looping => q.i < NStreams,
           Answered(c, q) \/ Broken(c, q) \/ Refused(c, q) \/ Unusable(c, q)
    PROVE  \E r \in LocalState : Become(c, r) /\ Local(r, received, deadLettered)
<1>1. q \in LocalState /\ Local(q, received, deadLettered)
  BY GoLocal DEF Same
<1> QED
  BY <1>1, Commanded

\* The soundness of all processes follows from that of the one that moves.
LEMMA Suffices ==
    ASSUME Sound, NEW c \in Consumers, NEW r \in LocalState, Become(c, r),
           UNCHANGED <<received, deadLettered>>, Local(r, received, deadLettered)
    PROVE  proc' \in [Consumers -> LocalState] /\ Locals'
  BY OneMoves DEF Sound, TypeOK

\* Facts about a process of a sound system.
LEMMA SoundFacts ==
    ASSUME Sound, NEW c \in Consumers
    PROVE  /\ proc[c] \in LocalState /\ Local(proc[c], received, deadLettered)
           /\ Sized(proc[c]) /\ Placed(proc[c])
           /\ proc[c].pc \notin {"process", "send", "settle", "ack", "deadletter", "aborted"}
              => proc[c].todo = <<>> /\ proc[c].rest = <<>> /\ Calm(proc[c])
           /\ proc[c].pc \in Between => Len(proc[c].batch) < Full /\ Fresh(proc[c])
<1> DEFINE p == proc[c]
<1>1. p \in LocalState /\ Local(p, received, deadLettered) /\ Sized(p) /\ Placed(p)
  BY DEF Sound, TypeOK, Locals, Local
<1>2. p.pc \notin {"process", "send", "settle", "ack", "deadletter", "aborted"}
         => p.todo = <<>> /\ p.rest = <<>> /\ Calm(p)
  BY <1>1 DEF Placed
<1>3. p.pc \in Between => Len(p.batch) < Full /\ Fresh(p)
  <2> HIDE DEF p
  <2> SUFFICES ASSUME p.pc \in Between PROVE Len(p.batch) < Full /\ Fresh(p)
    OBVIOUS
  <2>1. p.todo = <<>> /\ p.rest = <<>> /\ Len(p.batch) < Full
    BY <1>1, <1>2 DEF Between, Sized
  <2> QED
    BY <1>1, <2>1, LocalTypes DEF Fresh
<1> QED
  BY <1>1, <1>2, <1>3

\* A process that begins nothing and is not in a flush moves on.
LEMMA MoveOn ==
    ASSUME Sound, NEW c \in Consumers, NEW q, Become(c, q), Same(proc[c], q),
           UNCHANGED <<received, deadLettered>>,
           proc[c].todo = <<>>, proc[c].rest = <<>>, Calm(proc[c]),
           q.pc \notin {"send", "ack", "deadletter"},
           q.pc \in Between => Len(proc[c].batch) < Full,
           q.pc \in Looping => q.i < NStreams
    PROVE  proc' \in [Consumers -> LocalState] /\ Locals'
<1>1. proc[c] \in LocalState /\ Local(proc[c], received, deadLettered)
  BY SoundFacts
<1>2. q \in LocalState /\ Local(q, received, deadLettered)
  BY <1>1, GoLocal DEF Same
<1> QED
  BY <1>2, Suffices

\* The steps of the loop that only move on.
LEMMA LoopLocal ==
    ASSUME Sound, NEW c \in Consumers,
           \/ Top(c) \/ GiveUp(c) \/ Connect(c) \/ Check(c) \/ FinishEmpty(c) \/ KeepBatch(c)
           \/ Cleanup(c)
    PROVE  proc' \in [Consumers -> LocalState] /\ Locals'
<1> DEFINE p == proc[c]
<1>0. /\ p \in LocalState
      /\ p.pc \notin {"process", "send", "settle", "ack", "deadletter", "aborted"}
         => p.todo = <<>> /\ p.rest = <<>> /\ Calm(p)
      /\ p.pc \in Between => Len(p.batch) < Full /\ Fresh(p)
      /\ 0 \in 0..NStreams /\ 0 < NStreams
  BY SoundFacts, StreamsAssumption
<1>1. UNCHANGED <<received, deadLettered>>
  BY DEF Top, GiveUp, Connect, Check, FinishEmpty, KeepBatch, Cleanup, redis
<1>2. CASE Top(c)
  <2>1. /\ p.pc = "top"
        /\ \/ Become(c, [p EXCEPT !.pc = "finish"]) \/ Become(c, [p EXCEPT !.pc = "reclaim", !.i = 0])
           \/ Become(c, [p EXCEPT !.pc = "reconnect", !.ctx = "null", !.err = FALSE])
    BY <1>2 DEF Top
  <2>2. /\ p.todo = <<>> /\ p.rest = <<>> /\ Calm(p) /\ Len(p.batch) < Full /\ Fresh(p)
    BY <1>0, <2>1 DEF Between
  <2>3. \E q : /\ Become(c, q) /\ Same(p, q) /\ q.pc \in {"finish", "reclaim", "reconnect"}
               /\ q.pc = "reclaim" => q.i = 0
    <3>1. {"finish", "reclaim", "reconnect"} \subseteq Places
      BY DEF Places
    <3> HIDE DEF p
    <3>2. CASE Become(c, [p EXCEPT !.pc = "finish"])
      BY <1>0, <3>1, <3>2, PcSame
    <3>3. CASE Become(c, [p EXCEPT !.pc = "reconnect", !.ctx = "null", !.err = FALSE])
      BY <1>0, <3>1, <3>3, DropSame
    <3>4. CASE Become(c, [p EXCEPT !.pc = "reclaim", !.i = 0])
      <4> DEFINE q == [p EXCEPT !.pc = "reclaim", !.i = 0]
      <4>0. "reclaim" \in Places /\ 0 \in 0..NStreams /\ p \in LocalState /\ Fresh(p)
        BY <1>0, <2>2, <3>1
      <4>1. Same(p, q) /\ q.pc = "reclaim" /\ q.i = 0
        BY <4>0 DEF Same, LocalState
      <4> HIDE DEF q
      <4> QED
        BY <3>4, <4>1 DEF q
    <3> QED
      BY <2>1, <3>2, <3>3, <3>4
  <2> QED
    BY <1>0, <1>1, <2>2, <2>3, MoveOn DEF Looping
<1>3. CASE GiveUp(c)
  <2>1. p.pc = "reconnect" /\ Become(c, [p EXCEPT !.pc = "finish"])
    BY <1>3 DEF GiveUp
  <2>2. /\ p.todo = <<>> /\ p.rest = <<>> /\ Calm(p) /\ Len(p.batch) < Full
    BY <1>0, <2>1 DEF Between
  <2>3. \E q : Become(c, q) /\ Same(p, q) /\ q.pc = "finish"
    <3>1. "finish" \in Places
      BY DEF Places
    <3> HIDE DEF p
    <3> QED
      BY <1>0, <2>1, <3>1, PcSame
  <2> QED
    BY <1>1, <2>2, <2>3, MoveOn DEF Looping
<1>4. CASE Connect(c)
  <2>1. p.pc = "reconnect" /\ Become(c, [p EXCEPT !.pc = "groups", !.i = 0, !.ctx = "later"])
    BY <1>4 DEF Connect
  <2>2. /\ p.todo = <<>> /\ p.rest = <<>> /\ Calm(p) /\ Len(p.batch) < Full /\ Fresh(p)
    BY <1>0, <2>1 DEF Between
  <2>3. \E q : Become(c, q) /\ Same(p, q) /\ q.pc = "groups" /\ q.i = 0
    <3>1. "groups" \in Places
      BY DEF Places
    <3> HIDE DEF p
    <3> DEFINE q == [p EXCEPT !.pc = "groups", !.i = 0, !.ctx = "later"]
    <3>2. Same(p, q) /\ q.pc = "groups" /\ q.i = 0
      BY <1>0, <2>2, <3>1, ContextSame
    <3> HIDE DEF q
    <3> QED
      BY <2>1, <3>2 DEF q
  <2> QED
    BY <1>0, <1>1, <2>2, <2>3, MoveOn
<1>5. CASE Check(c)
  <2>1. /\ p.pc = "check"
        /\ Become(c, [p EXCEPT !.pc = "finish"]) \/ Become(c, [p EXCEPT !.pc = "read", !.i = 0])
    BY <1>5 DEF Check
  <2>2. /\ p.todo = <<>> /\ p.rest = <<>> /\ Calm(p) /\ Len(p.batch) < Full /\ Fresh(p)
    BY <1>0, <2>1 DEF Between
  <2>3. \E q : Become(c, q) /\ Same(p, q) /\ q.pc \in {"finish", "read"}
    <3>1. {"finish", "read"} \subseteq Places
      BY DEF Places
    <3> HIDE DEF p
    <3>2. CASE Become(c, [p EXCEPT !.pc = "finish"])
      BY <1>0, <3>1, <3>2, PcSame
    <3>3. CASE Become(c, [p EXCEPT !.pc = "read", !.i = 0])
      <4> DEFINE q == [p EXCEPT !.pc = "read", !.i = 0]
      <4>1. Same(p, q) /\ q.pc = "read"
        BY <1>0, <2>2, <3>1, RoundSame
      <4> HIDE DEF q
      <4> QED
        BY <3>3, <4>1 DEF q
    <3> QED
      BY <2>1, <3>2, <3>3
  <2> QED
    BY <1>1, <2>2, <2>3, MoveOn DEF Looping
<1>6. CASE FinishEmpty(c) \/ Cleanup(c)
  <2>1. /\ p.pc \in {"finish", "cleanup"}
        /\ \/ Become(c, [p EXCEPT !.pc = "cleanup"]) \/ Become(c, [p EXCEPT !.pc = "exited"])
           \/ Become(c, [p EXCEPT !.pc = "aborted"])
    BY <1>6 DEF FinishEmpty, Cleanup
  <2>2. \E q : Become(c, q) /\ Same(p, q) /\ q.pc \in {"cleanup", "exited", "aborted"}
    <3>1. PICK x \in {"cleanup", "exited", "aborted"} : Become(c, [p EXCEPT !.pc = x])
      BY <2>1
    <3>2. x \in Places
      BY DEF Places
    <3> DEFINE q == [p EXCEPT !.pc = x]
    <3> HIDE DEF p
    <3>3. Same(p, q) /\ q.pc = x
      BY <1>0, <3>2, PcSame
    <3> HIDE DEF q
    <3> QED
      BY <3>1, <3>3 DEF q
  <2> QED
    BY <1>0, <1>1, <2>1, <2>2, MoveOn DEF Between, Looping
<1>7. CASE KeepBatch(c)
  <2>1. p.pc = "flush" /\ Len(p.batch) < Full /\ Become(c, [p EXCEPT !.pc = p.next])
    BY <1>7 DEF KeepBatch
  <2>2. p.next \in {"check", "top", "finish", "cleanup"}
    BY <1>0, LocalTypes
  <2>3. \E q : Become(c, q) /\ Same(p, q) /\ q.pc = p.next
    <3>1. p.next \in Places
      BY <2>2 DEF Places
    <3> HIDE DEF p
    <3> QED
      BY <1>0, <2>1, <3>1, PcSame
  <2> QED
    BY <1>0, <1>1, <2>1, <2>2, <2>3, MoveOn DEF Looping
<1> QED
  BY <1>2, <1>3, <1>4, <1>5, <1>6, <1>7

\* XGROUP CREATE.
LEMMA EnsureGroupLocal ==
    ASSUME Sound, NEW c \in Consumers, EnsureGroup(c)
    PROVE  proc' \in [Consumers -> LocalState] /\ Locals'
<1> DEFINE p == proc[c]
           n == IF p.i + 1 < NStreams THEN p.i + 1 ELSE 0
           x == IF p.i + 1 < NStreams THEN p.pc
                ELSE IF p.pc = "start" /\ run = "forever" THEN "top" ELSE "reclaim"
           on == [p EXCEPT !.i = n, !.pc = x]
           ended == [p EXCEPT !.pc = "cleanup", !.i = 0]
           torn == [p EXCEPT !.pc = "reconnect", !.i = 0, !.ctx = "null"]
<1>0. /\ p \in LocalState /\ Local(p, received, deadLettered) /\ p.pc \in {"start", "groups"}
      /\ p.todo = <<>> /\ p.rest = <<>> /\ Calm(p) /\ Len(p.batch) < Full /\ Fresh(p)
      /\ p.i \in 0..NStreams /\ 0 \in 0..NStreams /\ 0 < NStreams
  BY SoundFacts, LocalTypes, StreamsAssumption DEF EnsureGroup, Between
<1>1. UNCHANGED <<received, deadLettered>>
  BY DEF EnsureGroup, redis
<1>2. \/ Answered(c, on) \/ Broken(c, on) \/ Unusable(c, on)
      \/ Refused(c, ended)
      \/ Refused(c, torn)
  BY DEF EnsureGroup
<1>3. {"start", "groups", "top", "reclaim", "cleanup", "reconnect"} \subseteq Places
  BY DEF Places
<1>4. ASSUME Answered(c, on) \/ Broken(c, on) \/ Unusable(c, on)
      PROVE  \E r \in LocalState : Become(c, r) /\ Local(r, received, deadLettered)
  <2>1. n \in 0..NStreams /\ n < NStreams /\ x \in {"start", "groups", "top", "reclaim"}
    BY <1>0, StreamsAssumption
  <2> HIDE DEF p, n, x
  <2>2. Same(p, on) /\ on.pc = x /\ on.i = n
    <3>1. on = [p EXCEPT !.pc = x, !.i = n]
      BY <1>0 DEF LocalState
    <3>2. x \in Places
      BY <1>3, <2>1
    <3> HIDE DEF on
    <3> QED
      BY <1>0, <2>1, <3>1, <3>2, RoundSame
  <2> HIDE DEF on
  <2> QED
    BY <1>0, <1>4, <2>1, <2>2, GoCommand DEF p
<1>5. ASSUME Refused(c, ended)
      PROVE  \E r \in LocalState : Become(c, r) /\ Local(r, received, deadLettered)
  <2>1. Same(p, ended) /\ ended.pc = "cleanup"
    <3> HIDE DEF p
    <3> QED
      BY <1>0, <1>3, RoundSame
  <2> HIDE DEF ended
  <2> QED
    BY <1>0, <1>5, <2>1, GoCommand DEF Looping
<1>6. ASSUME Refused(c, torn)
      PROVE  \E r \in LocalState : Become(c, r) /\ Local(r, received, deadLettered)
  <2>1. Same(p, torn) /\ torn.pc = "reconnect"
    <3> HIDE DEF p
    <3> QED
      BY <1>0, <1>3, ContextSame
  <2> HIDE DEF torn
  <2> QED
    BY <1>0, <1>6, <2>1, GoCommand DEF Looping
<1> QED
  BY <1>1, <1>2, <1>4, <1>5, <1>6, Suffices

\* A reply with entries, when k streams have added theirs.
LEMMA ReplyLocal ==
    ASSUME NEW p \in LocalState, NEW q \in LocalState, NEW R, NEW D, Local(p, R, D),
           NEW k \in 0..(NStreams - 1), Len(p.batch) < Full + Share(k),
           p.todo = <<>>, Calm(p),
           q.pc = "process", q.i = k + 1, q.i + Len(q.rest) <= NStreams,
           Len(q.todo) <= PerStream, \A j \in DOMAIN q.rest : Len(q.rest[j]) <= PerStream,
           q.batch = p.batch, q.work = p.work, q.delivered = p.delivered, q.poison = p.poison,
           q.at = p.at
    PROVE  Local(q, R, D)
<1>1. Len(p.batch) \in Nat /\ Len(q.todo) \in Nat
  BY LocalTypes
<1>2. Sized(q)
  <2>1. Within(q) /\ Len(q.batch) + Len(q.todo) < Full + NStreams * PerStream
    <3> DEFINE a == Len(p.batch)
               b == Len(q.todo)
               d == Share(k)
               e == Share(k + 1)
               m == Share(NStreams)
    <3>1. /\ a \in Nat /\ b \in Nat /\ a < Full + d /\ b <= PerStream /\ Len(q.batch) = a
          /\ d \in Nat /\ e = d + PerStream /\ e <= m /\ m \in Nat
      <4>1. k \in 0..NStreams /\ k + 1 \in 0..NStreams /\ NStreams \in 0..NStreams
        BY StreamsAssumption
      <4> QED
        BY <1>1, <4>1, ShareFacts
    <3>2. m = NStreams * PerStream
      BY ShareFacts
    <3>3. Within(q) <=> a + b < Full + e
      BY <3>1 DEF Within
    <3> HIDE DEF a, b, d, e, m
    <3>4. a + b < Full + e /\ a + b < Full + m
      BY <3>1, SizeFacts
    <3> QED
      BY <3>1, <3>2, <3>3, <3>4 DEF b
  <2>2. q.at \in 1..(Len(q.batch) + 1)
    BY DEF Local, Sized, TypeBatch
  <2> QED
    BY <2>1, <2>2 DEF Sized, TypeBatch, Between
<1>3. Placed(q) /\ Justified(q, R, D) /\ Parted(q)
  BY DEF Placed, Calm, Justified, Parted, Looping
<1> QED
  BY <1>2, <1>3 DEF Local

\* The next stream is reclaimed, or the batch tested.
LEMMA NextStreamLocal ==
    ASSUME NEW p \in LocalState, NEW R, NEW D, Local(p, R, D), p.todo = <<>>, p.rest = <<>>, Calm(p)
    PROVE  NextStream(p) \in LocalState /\ Local(NextStream(p), R, D)
<1> DEFINE x == IF p.i < NStreams THEN "reclaim" ELSE "flush"
           q == [p EXCEPT !.pc = x]
<1>1. x \in Places /\ (x = "reclaim" => p.i < NStreams) /\ x \in {"reclaim", "flush"}
  BY DEF Places
<1>2. NextStream(p) = q
  BY DEF NextStream
<1> HIDE DEF x
<1>3. Same(p, q) /\ q.pc = x /\ q.i = p.i
  BY <1>1, PcSame
<1> HIDE DEF q
<1>4. Local(q, R, D)
  BY <1>1, <1>3, GoLocal DEF Between, Looping
<1> QED
  BY <1>2, <1>3, <1>4 DEF Same

\* XAUTOCLAIM.
LEMMA ReclaimLocal ==
    ASSUME Sound, NEW c \in Consumers, Reclaim(c)
    PROVE  proc' \in [Consumers -> LocalState] /\ Locals'
<1> DEFINE p == proc[c]
           t == p.i + 1
           claims == t \in groups /\ ReadCount > 0
           s == IF claims THEN Claimed(t, p.cursor[t]) ELSE <<>>
           k == [p.cursor EXCEPT ![t] = IF claims THEN NextCursor(t, p.cursor[t]) ELSE p.cursor[t]]
           q == [p EXCEPT !.i = t, !.next = "check"]
           g == [q EXCEPT !.pc = "process", !.todo = s, !.cursor = k]
<1>0. /\ p \in LocalState /\ Local(p, received, deadLettered)
      /\ p.pc = "reclaim" /\ p.todo = <<>> /\ p.rest = <<>> /\ Calm(p)
      /\ p.i \in 0..(NStreams - 1) /\ Len(p.batch) < Full + Share(p.i)
  <2>1. /\ p \in LocalState /\ Local(p, received, deadLettered) /\ Sized(p) /\ Placed(p)
        /\ p.pc = "reclaim" /\ p.todo = <<>> /\ p.rest = <<>> /\ Calm(p)
    BY SoundFacts DEF Reclaim
  <2> HIDE DEF p
  <2>2. p.i \in 0..NStreams /\ p.i < NStreams /\ Len(p.batch) \in Nat
    BY <2>1, LocalTypes DEF Placed, Looping
  <2>3. Len(p.batch) + 0 < Full + Share(p.i)
    BY <2>1 DEF Sized, Within
  <2> QED
    BY <2>1, <2>2, <2>3, StreamsAssumption
<1>1. UNCHANGED <<received, deadLettered>>
  BY DEF Reclaim, Assign, redis
<1>2. \/ Answered(c, g)
      \/ Broken(c, NextStream(q)) \/ Refused(c, NextStream(q)) \/ Unusable(c, NextStream(q))
  BY DEF Reclaim
<1>3. /\ s \in Seq(Entries) /\ Len(s) <= PerStream /\ k \in [Streams -> 0..MaxEntries]
      /\ t \in Streams /\ t \in 0..NStreams
  <2>1. t \in Streams /\ t \in 0..NStreams /\ p.cursor \in [Streams -> 0..MaxEntries]
    <3>1. p.cursor \in [Streams -> 0..MaxEntries]
      BY <1>0, LocalTypes
    <3>2. p.i \in 0..(NStreams - 1)
      BY <1>0
    <3> HIDE DEF p
    <3> QED
      BY <3>1, <3>2, StreamsAssumption DEF Streams
  <2>2. p.cursor[t] \in 0..MaxEntries
    BY <2>1
  <2>3. /\ Claimed(t, p.cursor[t]) \in Seq(Entries) /\ Len(Claimed(t, p.cursor[t])) <= ReadCount
        /\ NextCursor(t, p.cursor[t]) \in 0..MaxEntries
    BY <2>1, <2>2, ClaimedFacts
  <2>4. ReadCount > 0 => PerStream = ReadCount
    BY SizesAssumption DEF PerStream
  <2>5. s \in Seq(Entries) /\ Len(s) <= PerStream
    <3>1. CASE claims
      BY <2>3, <2>4, <3>1
    <3>2. CASE ~claims
      BY <3>2, SizeFacts
    <3> QED
      BY <3>1, <3>2
  <2>6. k \in [Streams -> 0..MaxEntries]
    BY <2>1, <2>2, <2>3
  <2> QED
    BY <2>1, <2>5, <2>6
<1> HIDE DEF p, s, k
<1>4. /\ q \in LocalState /\ q.pc = p.pc /\ q.i = t /\ q.todo = p.todo /\ q.rest = p.rest
      /\ q.batch = p.batch /\ q.work = p.work /\ q.delivered = p.delivered /\ q.poison = p.poison
      /\ q.at = p.at /\ q.stop = p.stop
  BY <1>0, <1>3 DEF LocalState
<1>5. CASE Answered(c, g)
  <2> HIDE DEF q
  <2>1. /\ g \in LocalState /\ g.pc = "process" /\ g.todo = s /\ g.i = q.i /\ g.rest = q.rest
        /\ g.batch = q.batch /\ g.work = q.work /\ g.delivered = q.delivered
        /\ g.poison = q.poison /\ g.at = q.at
    <3>1. "process" \in Places
      BY DEF Places
    <3> QED
      BY <1>3, <1>4, <3>1 DEF LocalState
  <2> HIDE DEF g
  <2>2. g.i + Len(g.rest) <= NStreams /\ DOMAIN g.rest = {}
    BY <1>0, <1>3, <1>4, <2>1, StreamsAssumption
  <2>3. Local(g, received, deadLettered)
    BY <1>0, <1>3, <1>4, <2>1, <2>2, ReplyLocal
  <2> QED
    BY <1>1, <1>5, <2>1, <2>3, Suffices DEF Answered
<1>6. CASE Broken(c, NextStream(q)) \/ Refused(c, NextStream(q)) \/ Unusable(c, NextStream(q))
  <2> DEFINE h == [q EXCEPT !.pc = "process"]
             r == NextStream(q)
  <2>1. NextStream(h) = r
    <3>1. q \in LocalState
      BY <1>4
    <3> HIDE DEF q
    <3>2. \A x : [h EXCEPT !.pc = x] = [q EXCEPT !.pc = x]
      BY <3>1 DEF LocalState
    <3>3. h.i = q.i
      BY <3>1 DEF LocalState
    <3> HIDE DEF h
    <3> QED
      BY <3>2, <3>3 DEF NextStream
  <2> HIDE DEF q
  <2>3. /\ h \in LocalState /\ h.pc = "process" /\ h.todo = q.todo /\ h.i = q.i /\ h.rest = q.rest
        /\ h.batch = q.batch /\ h.work = q.work /\ h.delivered = q.delivered
        /\ h.poison = q.poison /\ h.at = q.at
    <3>1. "process" \in Places
      BY DEF Places
    <3> QED
      BY <1>4, <3>1 DEF LocalState
  <2> HIDE DEF h
  <2>4. /\ h.i + Len(h.rest) <= NStreams /\ DOMAIN h.rest = {} /\ h.todo = <<>> /\ h.rest = <<>>
        /\ Len(h.todo) <= PerStream
    BY <1>0, <1>3, <1>4, <2>3, StreamsAssumption, SizeFacts
  <2>5. Local(h, received, deadLettered) /\ Calm(h)
    BY <1>0, <1>3, <1>4, <2>3, <2>4, ReplyLocal DEF Calm
  <2>6. r \in LocalState /\ Local(r, received, deadLettered)
    BY <2>1, <2>3, <2>4, <2>5, NextStreamLocal
  <2>2. \E z \in LocalState : Become(c, z) /\ Local(z, received, deadLettered)
    BY <1>6, <2>6, Commanded
  <2> QED
    BY <1>1, <2>2, Suffices
<1> QED
  BY <1>2, <1>5, <1>6

\* The parts of a reply to XREADGROUP, stream by stream.
LEMMA PartsFacts ==
    ASSUME NEW S \in SUBSET Entries, New(S)
    PROVE  LET parts == [t \in Streams |-> Ordered(S \cap Of(t))] IN
           /\ parts[1] \in Seq(Entries) /\ Len(parts[1]) <= PerStream
           /\ Tail(parts) \in Seq(Seq(Entries)) /\ Len(Tail(parts)) = NStreams - 1
           /\ \A j \in DOMAIN Tail(parts) : Len(Tail(parts)[j]) <= PerStream
<1> DEFINE parts == [t \in Streams |-> Ordered(S \cap Of(t))]
<1>1. ASSUME NEW t \in Streams
      PROVE  parts[t] \in Seq(Entries) /\ Len(parts[t]) <= PerStream
  <2> DEFINE U == S \cap Of(t)
  <2>1. U \in SUBSET Entries /\ parts[t] = Ordered(U)
    OBVIOUS
  <2>2. Ordered(U) \in Seq(Entries) /\ Len(Ordered(U)) = Cardinality(U) /\ Cardinality(U) \in Nat
    BY <2>1, OrderedFacts, EntriesFinite
  <2>3. Cardinality(U) <= MaxEntries
    <3>1. IsFiniteSet(Entries) /\ Cardinality(Entries) = MaxEntries
      BY EntriesAssumption, FS_Interval DEF Entries
    <3> QED
      BY <2>1, <3>1, FS_Subset
  <2>4. ReadCount > 0 => Cardinality(U) <= ReadCount
    BY DEF New
  <2>5. Cardinality(U) <= PerStream
    BY <2>2, <2>3, <2>4, SizesAssumption DEF PerStream
  <2> QED
    BY <2>1, <2>2, <2>5
<1>2. parts \in [1..NStreams -> Seq(Entries)] /\ NStreams \in Nat /\ NStreams > 0
  BY <1>1, StreamsAssumption DEF Streams
<1>3. \A t \in 1..NStreams : Len(parts[t]) <= PerStream
  BY <1>1 DEF Streams
<1> HIDE DEF parts
<1>4. parts \in Seq(Seq(Entries)) /\ Len(parts) = NStreams
  BY <1>2
<1>5. /\ Tail(parts) \in Seq(Seq(Entries)) /\ Len(Tail(parts)) = NStreams - 1
      /\ \A j \in 1..(NStreams - 1) : Tail(parts)[j] = parts[j + 1]
  BY <1>2, <1>4
<1>6. \A j \in DOMAIN Tail(parts) : Len(Tail(parts)[j]) <= PerStream
  BY <1>2, <1>3, <1>5
<1>7. 1 \in 1..NStreams
  BY <1>2
<1>8. parts[1] \in Seq(Entries) /\ Len(parts[1]) <= PerStream
  BY <1>2, <1>3, <1>7
<1> QED
  BY <1>5, <1>6, <1>8 DEF parts

\* XREADGROUP.
LEMMA ReadLocal ==
    ASSUME Sound, NEW c \in Consumers, Read(c)
    PROVE  proc' \in [Consumers -> LocalState] /\ Locals'
<1> DEFINE p == proc[c]
           x == IF run = "once" THEN "finish" ELSE "top"
           y == IF run = "once" THEN "check" ELSE "top"
           q == [p EXCEPT !.pc = "flush", !.next = x]
           parts(S) == [t \in Streams |-> Ordered(S \cap Of(t))]
           g(u, v) == [p EXCEPT !.pc = "process", !.i = 1, !.todo = u, !.rest = v, !.next = y]
<1>0. /\ p \in LocalState /\ Local(p, received, deadLettered)
      /\ p.pc = "read" /\ p.todo = <<>> /\ p.rest = <<>> /\ Calm(p) /\ Len(p.batch) < Full
  BY SoundFacts DEF Read, Between
<1>1. UNCHANGED <<received, deadLettered>>
  BY DEF Read, Assign, redis
<1>2. \/ \E S \in SUBSET Entries : New(S) /\ Answered(c, g(parts(S)[1], Tail(parts(S))))
      \/ Answered(c, q) \/ Broken(c, q) \/ Refused(c, q) \/ Unusable(c, q)
  BY DEF Read
<1>3. Same(p, q) /\ q.pc = "flush"
  <2>1. "flush" \in Places /\ x \in {"check", "top", "finish", "cleanup"}
    BY DEF Places
  <2> HIDE DEF p, x
  <2>2. "flush" \in Places
    BY <2>1
  <2> HIDE DEF q
  <2> QED
    BY <1>0, <2>1, <2>2, NextSame DEF q
<1>4. ASSUME NEW S \in SUBSET Entries, New(S), Answered(c, g(parts(S)[1], Tail(parts(S))))
      PROVE  proc' \in [Consumers -> LocalState] /\ Locals'
  <2> DEFINE u == parts(S)[1]
             v == Tail(parts(S))
             h == g(u, v)
  <2>1. /\ u \in Seq(Entries) /\ Len(u) <= PerStream /\ v \in Seq(Seq(Entries))
        /\ Len(v) = NStreams - 1 /\ \A j \in DOMAIN v : Len(v[j]) <= PerStream
    BY <1>4, PartsFacts
  <2>2. /\ "process" \in Places /\ y \in {"check", "top", "finish", "cleanup"} /\ 1 \in 0..NStreams
    BY StreamsAssumption DEF Places
  <2>4. Become(c, h)
    BY <1>4 DEF Answered
  <2> HIDE DEF u, v, p, x, y
  <2>5. /\ h \in LocalState /\ h.pc = "process" /\ h.todo = u /\ h.rest = v /\ h.i = 1
        /\ h.batch = p.batch /\ h.work = p.work /\ h.delivered = p.delivered
        /\ h.poison = p.poison /\ h.at = p.at
    BY <1>0, <2>1, <2>2 DEF LocalState
  <2> HIDE DEF h
  <2>6. 0 \in 0..(NStreams - 1) /\ 1 + (NStreams - 1) <= NStreams /\ 0 + 1 = 1
    BY StreamsAssumption
  <2>7. Len(p.batch) < Full + Share(0)
    BY <1>0, ShareFacts, SizeFacts, LocalTypes
  <2>8. h.i = 0 + 1 /\ h.i + Len(h.rest) <= NStreams
    BY <2>1, <2>5, <2>6
  <2>9. Local(h, received, deadLettered)
    BY <1>0, <2>1, <2>5, <2>6, <2>7, <2>8, ReplyLocal
  <2> QED
    BY <1>1, <2>4, <2>5, <2>9, Suffices
<1>5. CASE Answered(c, q) \/ Broken(c, q) \/ Refused(c, q) \/ Unusable(c, q)
  <2> HIDE DEF q
  <2>1. \E r \in LocalState : Become(c, r) /\ Local(r, received, deadLettered)
    BY <1>0, <1>3, <1>5, GoCommand DEF Between, Looping
  <2> QED
    BY <1>1, <2>1, Suffices
<1> QED
  BY <1>2, <1>4, <1>5

-----------------------------------------------------------------------------
(* process_entry(), the outcomes of an entry, stops and crashes.           *)

\* An entry of the reply is dropped or joins the batch.
LEMMA EntryDone ==
    ASSUME NEW p \in LocalState, NEW q \in LocalState, Sized(p), p.todo # <<>>,
           q.i = p.i, q.rest = p.rest, q.pc = "process", q.at \in 1..(Len(q.batch) + 1),
           Len(q.todo) = Len(p.todo) - 1,
           Len(q.batch) = Len(p.batch) \/ Len(q.batch) = Len(p.batch) + 1
    PROVE  Sized(q)
<1> DEFINE m == Len(p.todo)
           n == Len(p.batch)
           k == Len(q.batch)
           a == Share(p.i)
           b == NStreams * PerStream
<1>1. /\ m \in Nat /\ n \in Nat /\ (k = n \/ k = n + 1) /\ a \in Nat /\ b \in Nat
      /\ m <= PerStream /\ n + m < Full + a /\ n + m < Full + b
  <2>1. m \in Nat /\ n \in Nat /\ p.i \in 0..NStreams
    BY LocalTypes
  <2>2. a \in Nat /\ b \in Nat
    <3>1. NStreams \in 0..NStreams
      BY StreamsAssumption
    <3> QED
      BY <2>1, <3>1, ShareFacts
  <2>3. m <= PerStream /\ n + m < Full + a /\ n + m < Full + b
    BY DEF Sized, TypeBatch, Within
  <2> QED
    BY <2>1, <2>2, <2>3
<1>2. Len(q.todo) = m - 1 /\ Len(q.batch) = k
  OBVIOUS
<1> HIDE DEF m, n, k, a, b
<1>3. m - 1 <= PerStream /\ k + (m - 1) < Full + a /\ k + (m - 1) < Full + b
  BY <1>1, SizeFacts
<1>4. TypeBatch(q)
  BY <1>2, <1>3 DEF Sized, TypeBatch, b
<1>5. Within(q)
  BY <1>2, <1>3 DEF Within, a
<1> QED
  BY <1>4, <1>5 DEF Sized, Between

\* The next entry of the reply, or the next item of the batch.
LEMMA AdvanceLocal ==
    ASSUME NEW p \in LocalState, NEW R, NEW D, Local(p, R, D), p.pc \in {"ack", "deadletter"}
    PROVE  Advance(p) \in LocalState /\ Local(Advance(p), R, D)
<1>0. /\ p.todo \in Seq(Entries) /\ p.batch \in Seq(Entries) /\ p.at \in Nat
      /\ Len(p.todo) \in Nat /\ Len(p.batch) \in Nat
      /\ Sized(p) /\ Placed(p) /\ Justified(p, R, D)
  BY LocalTypes DEF Local
<1>1. CASE p.todo # <<>>
  <2> DEFINE s == Tail(p.todo)
             q == [p EXCEPT !.pc = "process", !.todo = s]
  <2>1. s \in Seq(Entries) /\ Len(s) = Len(p.todo) - 1
    BY <1>0, <1>1
  <2>2. Advance(p) = q /\ Calm(p)
    BY <1>0, <1>1 DEF Advance, Placed
  <2> HIDE DEF s
  <2>3. /\ q \in LocalState /\ q.pc = "process" /\ q.todo = s /\ q.batch = p.batch
        /\ q.i = p.i /\ q.rest = p.rest
        /\ q.work = p.work /\ q.delivered = p.delivered /\ q.poison = p.poison /\ q.at = p.at
    <3>1. "process" \in Places
      BY DEF Places
    <3> QED
      BY <2>1, <3>1 DEF LocalState
  <2> HIDE DEF q
  <2>4. Sized(q)
    <3>1. q.at \in 1..(Len(q.batch) + 1)
      BY <1>0, <2>3 DEF Sized, TypeBatch
    <3> QED
      BY <1>0, <1>1, <2>1, <2>3, <3>1, EntryDone
  <2>5. Placed(q) /\ Justified(q, R, D) /\ Parted(q)
    BY <2>2, <2>3 DEF Placed, Calm, Justified, Parted, Looping
  <2> QED
    BY <2>2, <2>3, <2>4, <2>5 DEF Local
<1>2. CASE p.todo = <<>>
  <2> DEFINE k == p.at + 1
             q == [p EXCEPT !.pc = "settle", !.at = k]
  <2>1. Advance(p) = q
    BY <1>2 DEF Advance
  <2>2. k \in 1..(Len(p.batch) + 1) /\ k \in Nat /\ p.work = <<>> /\ p.rest = <<>>
    BY <1>0, <1>2 DEF Placed
  <2> HIDE DEF k
  <2>3. /\ q \in LocalState /\ q.pc = "settle" /\ q.todo = p.todo /\ q.batch = p.batch
        /\ q.i = p.i /\ q.rest = p.rest
        /\ q.work = p.work /\ q.delivered = p.delivered /\ q.poison = p.poison /\ q.at = k
    <3>1. "settle" \in Places
      BY DEF Places
    <3> QED
      BY <2>2, <3>1 DEF LocalState
  <2> HIDE DEF q
  <2>4. Sized(q)
    BY <1>0, <2>2, <2>3 DEF Sized, TypeBatch, Within, Between
  <2>5. Placed(q) /\ Justified(q, R, D) /\ Parted(q)
    BY <1>0, <1>2, <2>2, <2>3 DEF Placed, Justified, Parted, Looping
  <2> QED
    BY <2>1, <2>3, <2>4, <2>5 DEF Local
<1> QED
  BY <1>1, <1>2

\* The reply, or this stream's part of it, is processed.
LEMMA ProcessedLocal ==
    ASSUME Sound, NEW c \in Consumers, Processed(c)
    PROVE  proc' \in [Consumers -> LocalState] /\ Locals'
<1> DEFINE p == proc[c]
<1>0. /\ p \in LocalState /\ Local(p, received, deadLettered) /\ p.pc = "process" /\ p.todo = <<>>
      /\ Calm(p) /\ Sized(p) /\ Placed(p)
  BY SoundFacts DEF Processed, Placed
<1>1. UNCHANGED <<received, deadLettered>>
  BY DEF Processed, redis
<1>2. CASE p.rest = <<>>
  <2>1. Become(c, NextStream(p))
    BY <1>2 DEF Processed
  <2>2. NextStream(p) \in LocalState /\ Local(NextStream(p), received, deadLettered)
    BY <1>0, <1>2, NextStreamLocal
  <2> QED
    BY <1>1, <2>1, <2>2, Suffices
<1>3. CASE p.rest # <<>>
  <2> DEFINE n == p.i + 1
             u == p.rest[1]
             v == Tail(p.rest)
             q == [p EXCEPT !.i = n, !.todo = u, !.rest = v]
  <2>1. Become(c, q)
    BY <1>3 DEF Processed
  <2> HIDE DEF p
  <2>2. /\ p.rest \in Seq(Seq(Entries)) /\ Len(p.rest) \in Nat /\ Len(p.rest) > 0
        /\ p.i \in 0..NStreams /\ p.i + Len(p.rest) <= NStreams
        /\ \A j \in 1..Len(p.rest) : Len(p.rest[j]) <= PerStream
    BY <1>0, <1>3, LocalTypes DEF Sized, TypeBatch
  <2>3. /\ u \in Seq(Entries) /\ Len(u) <= PerStream
        /\ v \in Seq(Seq(Entries)) /\ Len(v) = Len(p.rest) - 1
    BY <1>3, <2>2
  <2>4. \A j \in DOMAIN v : Len(v[j]) <= PerStream
    <3>1. DOMAIN v = 1..(Len(p.rest) - 1) /\ \A j \in 1..(Len(p.rest) - 1) : v[j] = p.rest[j + 1]
      BY <1>3, <2>2
    <3>2. \A j \in 1..(Len(p.rest) - 1) : j + 1 \in 1..Len(p.rest)
      BY <2>2
    <3> HIDE DEF v
    <3> QED
      BY <2>2, <3>1, <3>2
  <2>5. n \in 0..NStreams /\ p.i \in 0..(NStreams - 1) /\ n + Len(v) <= NStreams
    <3> HIDE DEF v
    <3> QED
      BY <2>2, <2>3, StreamsAssumption
  <2> HIDE DEF n, u, v
  <2>6. /\ q \in LocalState /\ q.pc = p.pc /\ q.i = n /\ q.todo = u /\ q.rest = v
        /\ q.batch = p.batch /\ q.work = p.work /\ q.delivered = p.delivered
        /\ q.poison = p.poison /\ q.at = p.at
    BY <1>0, <2>3, <2>5 DEF LocalState
  <2> HIDE DEF q
  <2>7. Len(p.batch) < Full + Share(p.i)
    <3>1. Len(p.batch) \in Nat /\ Len(p.batch) + 0 < Full + Share(p.i)
      BY <1>0, LocalTypes DEF Sized, Within
    <3> QED
      BY <3>1
  <2>8. q.i = p.i + 1
    BY <2>6 DEF n
  <2>9. Local(q, received, deadLettered)
    BY <1>0, <2>3, <2>4, <2>5, <2>6, <2>7, <2>8, ReplyLocal
  <2> QED
    BY <1>1, <2>1, <2>6, <2>9, Suffices
<1> QED
  BY <1>2, <1>3

\* process_entry() up to its outcome.
LEMMA ProcessLocal ==
    ASSUME Sound, NEW c \in Consumers, Process(c)
    PROVE  proc' \in [Consumers -> LocalState] /\ Locals'
<1> DEFINE p == proc[c]
           R == received
           D == deadLettered
<1>0. /\ p \in LocalState /\ Local(p, R, D) /\ p.pc = "process" /\ Calm(p) /\ p.todo # <<>>
      /\ p.todo \in Seq(Entries) /\ p.batch \in Seq(Entries)
      /\ Len(p.todo) \in Nat /\ Len(p.batch) \in Nat
      /\ Sized(p) /\ Placed(p)
  BY SoundFacts, LocalTypes DEF Process, Placed
<1>1. UNCHANGED <<received, deadLettered>>
  BY DEF Process, redis
<1> DEFINE s == Tail(p.todo)
           b == Append(p.batch, p.todo[1])
           a == [p EXCEPT !.pc = "process", !.todo = s]
           q == [a EXCEPT !.batch = b]
<1>2. \/ p.todo[1] \in Undecodable /\ Become(c, [p EXCEPT !.pc = "deadletter"])
      \/ p.todo[1] \in Silent /\ Become(c, [p EXCEPT !.pc = "ack"])
      \/ Become(c, q)
  BY <1>0 DEF Process, Advance
<1>3. {"deadletter", "ack", "process"} \subseteq Places
  BY DEF Places
<1>4. ASSUME NEW x \in {"deadletter", "ack"}, Become(c, [p EXCEPT !.pc = x]),
             x = "deadletter" => p.todo[1] \in Undecodable,
             x = "ack" => p.todo[1] \in Silent
      PROVE  proc' \in [Consumers -> LocalState] /\ Locals'
  <2> DEFINE r == [p EXCEPT !.pc = x]
  <2>1. Same(p, r) /\ r.pc = x
    <3> HIDE DEF p
    <3> QED
      BY <1>0, <1>3, PcSame
  <2> HIDE DEF r, p
  <2>2. Current(p) = p.todo[1]
    BY <1>0 DEF Current
  <2>3. Local(r, R, D)
    <3>1. p.work = <<>>
      BY <1>0 DEF Calm
    <3> QED
      BY <1>0, <1>4, <2>1, <2>2, <3>1, SameLocal DEF Between, Looping
  <2> QED
    BY <1>1, <1>4, <2>1, <2>3, Suffices DEF Same, r
<1>5. CASE Become(c, q)
  <2>1. /\ s \in Seq(Entries) /\ Len(s) = Len(p.todo) - 1
        /\ b \in Seq(Entries) /\ Len(b) = Len(p.batch) + 1
    <3>1. p.todo[1] \in Entries
      BY <1>0
    <3> HIDE DEF p
    <3> QED
      BY <1>0, <3>1
  <2> HIDE DEF p, s, b
  <2>2. /\ a \in LocalState /\ a.pc = "process" /\ a.todo = s /\ a.i = p.i /\ a.rest = p.rest
        /\ a.work = p.work /\ a.delivered = p.delivered /\ a.poison = p.poison /\ a.at = p.at
    BY <1>0, <1>3, <2>1 DEF LocalState
  <2> HIDE DEF a
  <2>3. /\ q \in LocalState /\ q.pc = a.pc /\ q.todo = a.todo /\ q.batch = b
        /\ q.i = a.i /\ q.rest = a.rest
        /\ q.work = a.work /\ q.delivered = a.delivered /\ q.poison = a.poison /\ q.at = a.at
    BY <2>1, <2>2 DEF LocalState
  <2> HIDE DEF q
  <2>4. Sized(q)
    <3>1. q.at \in 1..(Len(q.batch) + 1)
      BY <1>0, <2>1, <2>2, <2>3 DEF Calm
    <3>2. Len(q.todo) = Len(p.todo) - 1 /\ Len(q.batch) = Len(p.batch) + 1
      BY <2>1, <2>2, <2>3
    <3> QED
      BY <1>0, <2>2, <2>3, <3>1, <3>2, EntryDone
  <2>5. Placed(q) /\ Justified(q, R, D) /\ Parted(q)
    BY <1>0, <2>2, <2>3 DEF Placed, Calm, Justified, Parted, Looping
  <2> QED
    BY <1>1, <1>5, <2>3, <2>4, <2>5, Suffices DEF Local
<1> QED
  BY <1>2, <1>4, <1>5

\* cf_deadletter_write().
LEMMA DeadLetterLocal ==
    ASSUME Sound, NEW c \in Consumers, DeadLetter(c)
    PROVE  proc' \in [Consumers -> LocalState] /\ Locals'
<1> DEFINE p == proc[c]
           q == [p EXCEPT !.pc = "ack"]
<1>0. /\ p \in LocalState /\ Local(p, received, deadLettered) /\ p.pc = "deadletter"
      /\ proc \in [Consumers -> LocalState] /\ Locals
  BY SoundFacts DEF DeadLetter, Sound, TypeOK
<1>1. received' = received /\ deadLettered \subseteq deadLettered'
  BY DEF DeadLetter, redis
<1>2. Local(p, received', deadLettered')
  BY <1>0, <1>1, LocalGrows
<1>3. CASE Answered(c, q) /\ deadLettered' = deadLettered \cup {Current(p)}
  <2>1. Same(p, q) /\ q.pc = "ack"
    <3>1. "ack" \in Places
      BY DEF Places
    <3> HIDE DEF p
    <3> QED
      BY <1>0, <3>1, PcSame
  <2>2. Current(p) \in deadLettered' /\ Become(c, q)
    BY <1>3 DEF Answered
  <2> HIDE DEF p, q
  <2>3. Local(q, received', deadLettered')
    <3>1. /\ p.work = <<>> /\ (p.todo = <<>> => p.at \in 1..Len(p.batch))
          /\ (p.rest # <<>> => p.todo # <<>>)
      BY <1>0 DEF Local, Placed
    <3> QED
      BY <1>0, <1>2, <2>1, <2>2, <3>1, SameLocal DEF Between, Looping
  <2> QED
    BY <1>0, <1>1, <2>1, <2>2, <2>3, OneMoves DEF Same
<1>4. CASE Broken(c, Advance(p)) \/ Refused(c, Advance(p)) \/ Unusable(c, Advance(p))
  <2>1. Advance(p) \in LocalState /\ Local(Advance(p), received', deadLettered')
    BY <1>0, <1>2, AdvanceLocal
  <2>2. \E r \in LocalState : Become(c, r) /\ Local(r, received', deadLettered')
    BY <1>4, <2>1, Commanded
  <2> QED
    BY <1>0, <1>1, <2>2, OneMoves
<1> QED
  BY <1>3, <1>4 DEF DeadLetter

\* xack().
LEMMA AckLocal ==
    ASSUME Sound, NEW c \in Consumers, Ack(c)
    PROVE  proc' \in [Consumers -> LocalState] /\ Locals'
<1> DEFINE p == proc[c]
           q == [p EXCEPT !.pc = "aborted"]
<1>0. p \in LocalState /\ Local(p, received, deadLettered) /\ p.pc = "ack"
  BY SoundFacts DEF Ack
<1>1. UNCHANGED <<received, deadLettered>>
  BY DEF Ack, redis
<1>2. CASE \/ Answered(c, Advance(p)) \/ Broken(c, Advance(p)) \/ Refused(c, Advance(p))
           \/ Unusable(c, Advance(p))
  <2>1. Advance(p) \in LocalState /\ Local(Advance(p), received, deadLettered)
    BY <1>0, AdvanceLocal
  <2>2. \E r \in LocalState : Become(c, r) /\ Local(r, received, deadLettered)
    BY <1>2, <2>1, Commanded
  <2> QED
    BY <1>1, <2>2, Suffices
<1>3. CASE Become(c, q)
  <2>1. Same(p, q) /\ q.pc = "aborted"
    <3>1. "aborted" \in Places
      BY DEF Places
    <3> HIDE DEF p
    <3> QED
      BY <1>0, <3>1, PcSame
  <2> HIDE DEF p, q
  <2>2. Local(q, received, deadLettered)
    <3>1. p.work = <<>> /\ (p.rest # <<>> => p.todo # <<>>)
      BY <1>0 DEF Local, Placed
    <3> QED
      BY <1>0, <2>1, <3>1, SameLocal DEF Between, Looping
  <2> QED
    BY <1>1, <1>3, <2>1, <2>2, Suffices DEF Same
<1> QED
  BY <1>2, <1>3 DEF Ack

\* SIGTERM, and a crash with or without a restart.
LEMMA MishapLocal ==
    ASSUME Sound, NEW c \in Consumers, Stop(c) \/ Crash(c)
    PROVE  proc' \in [Consumers -> LocalState] /\ Locals'
<1> DEFINE p == proc[c]
           R == received
           D == deadLettered
<1>0. p \in LocalState /\ Local(p, R, D)
  BY SoundFacts
<1>1. UNCHANGED <<received, deadLettered>>
  BY DEF Stop, Crash, redis
<1>2. CASE Stop(c)
  <2> DEFINE q == [p EXCEPT !.stop = TRUE]
  <2>1. Same(p, q) /\ q.pc = p.pc /\ q.i = p.i /\ Become(c, q)
    BY <1>0, <1>2, StopSame DEF Stop
  <2> HIDE DEF q
  <2>2. Local(q, R, D)
    BY <1>0, <2>1, StayLocal
  <2> QED
    BY <1>1, <2>1, <2>2, Suffices DEF Same
<1>3. CASE Crash(c)
  <2> DEFINE k == [Boot EXCEPT !.pc = "killed"]
  <2>1. Become(c, Boot) \/ Become(c, k)
    BY <1>3 DEF Crash
  <2>2. BootLocal
    BY InitLocal
  <2>3. Local(k, R, D) /\ k \in LocalState
    <3>1. Same(Boot, k) /\ k.pc = "killed"
      <4>1. "killed" \in Places
        BY DEF Places
      <4> QED
        BY <2>2, <4>1, PcSame DEF BootLocal
    <3> HIDE DEF k
    <3> QED
      BY <2>2, <3>1, GoLocal DEF Same, Between, Looping, BootLocal
  <2> QED
    BY <1>1, <2>1, <2>2, <2>3, Suffices DEF BootLocal
<1> QED
  BY <1>2, <1>3

-----------------------------------------------------------------------------
(* Sending a batch in ranges.                                              *)

\* What send_range() is called with.
Spans == [lo : Nat, count : Nat \ {0}]

\* The ranges without the first.
LEMMA TailParts ==
    ASSUME NEW p \in LocalState, NEW q, p.work # <<>>, q.work = Tail(p.work)
    PROVE  /\ p.work[1] \in Spans /\ q.work \in Seq(Spans)
           /\ DOMAIN p.work = 1..Len(p.work) /\ 1 \in DOMAIN p.work
           /\ \A i \in DOMAIN q.work : i + 1 \in DOMAIN p.work /\ i + 1 # 1 /\ Part(q, i) = Part(p, i + 1)
           /\ Ranges(p) = Part(p, 1) \cup Ranges(q)
           /\ \A i, j \in DOMAIN q.work : i # j => i + 1 # j + 1
<1> DEFINE w == p.work
           v == Tail(w)
<1>1. w \in Seq(Spans) /\ w # <<>>
  BY LocalTypes DEF Spans
<1> HIDE DEF w
<1>2. /\ Len(w) \in Nat /\ Len(w) > 0 /\ w[1] \in Spans /\ v \in Seq(Spans) /\ DOMAIN w = 1..Len(w)
      /\ DOMAIN v = 1..(Len(w) - 1)
      /\ \A i \in 1..(Len(w) - 1) : v[i] = w[i + 1]
  BY <1>1
<1> HIDE DEF v
<1>3. \A i \in DOMAIN v : i + 1 \in DOMAIN w /\ i + 1 # 1 /\ v[i] = w[i + 1]
  BY <1>2
<1>4. \A i \in DOMAIN w : i = 1 \/ (i - 1 \in DOMAIN v /\ v[i - 1] = w[i])
  BY <1>2
<1>5. \A i \in DOMAIN q.work : i + 1 \in DOMAIN p.work /\ i + 1 # 1 /\ Part(q, i) = Part(p, i + 1)
  BY <1>3 DEF Part, w, v
<1>6. \A i, j \in DOMAIN v : i # j => i + 1 # j + 1
  BY <1>2
<1>7. Ranges(p) = Part(p, 1) \cup Ranges(q)
  <2>1. 1 \in DOMAIN w
    BY <1>2
  <2>2. \A i \in DOMAIN p.work : i = 1 \/ (i - 1 \in DOMAIN q.work /\ Part(q, i - 1) = Part(p, i))
    BY <1>4 DEF Part, w, v
  <2>3. Ranges(p) \subseteq Part(p, 1) \cup Ranges(q)
    BY <2>2 DEF Ranges
  <2>4. Ranges(q) \subseteq Ranges(p)
    BY <1>5 DEF Ranges
  <2>5. Part(p, 1) \subseteq Ranges(p)
    BY <2>1 DEF Ranges, w
  <2> QED
    BY <2>3, <2>4, <2>5
<1>8. 1 \in DOMAIN w
  BY <1>2
<1> QED
  BY <1>2, <1>5, <1>6, <1>7, <1>8 DEF w, v

\* Halves of a range are two ranges with its positions.
LEMMA HalvesFacts ==
    ASSUME NEW r \in Spans, r.count # 1
    PROVE  /\ Halves(r) \in Seq(Spans) /\ Len(Halves(r)) = 2
           /\ Positions(Halves(r)[1]) \cup Positions(Halves(r)[2]) = Positions(r)
           /\ Positions(Halves(r)[1]) \cap Positions(Halves(r)[2]) = {}
<1> DEFINE m == r.count \div 2
           a == [lo |-> r.lo, count |-> m]
           b == [lo |-> r.lo + m, count |-> r.count - m]
<1>1. r.lo \in Nat /\ r.count \in Nat /\ r.count >= 2
  BY DEF Spans
<1>2. m \in Nat /\ m >= 1 /\ m < r.count
  BY <1>1
<1> HIDE DEF m
<1>3. a \in Spans /\ b \in Spans
  BY <1>1, <1>2 DEF Spans
<1>4. Halves(r) = <<a, b>>
  BY DEF Halves, m
<1>5. Positions(a) = r.lo..(r.lo + m - 1) /\ Positions(b) = (r.lo + m)..(r.lo + m + (r.count - m) - 1)
  BY DEF Positions
<1>6. Positions(a) \cup Positions(b) = Positions(r) /\ Positions(a) \cap Positions(b) = {}
  BY <1>1, <1>2, <1>5 DEF Positions
<1> HIDE DEF a, b
<1> QED
  BY <1>3, <1>4, <1>6

\* Two sequences, one after the other.
LEMMA ConcatFacts ==
    ASSUME NEW S, NEW s \in Seq(S), NEW t \in Seq(S)
    PROVE  /\ s \o t \in Seq(S) /\ Len(s \o t) = Len(s) + Len(t)
           /\ \A i \in 1..Len(s) : (s \o t)[i] = s[i]
           /\ \A i \in 1..Len(t) : (s \o t)[Len(s) + i] = t[i]
  OBVIOUS

\* The first range split in two.
LEMMA SplitParts ==
    ASSUME NEW p \in LocalState, NEW q, p.work # <<>>, p.work[1].count # 1,
           q.work = Halves(p.work[1]) \o Tail(p.work)
    PROVE  /\ q.work \in Seq(Spans) /\ 1 \in DOMAIN p.work
           /\ Part(q, 1) \cup Part(q, 2) = Part(p, 1) /\ Part(q, 1) \cap Part(q, 2) = {}
           /\ \A i \in DOMAIN q.work :
                 \/ i = 1 \/ i = 2
                 \/ i - 1 \in DOMAIN p.work /\ i - 1 # 1 /\ Part(q, i) = Part(p, i - 1)
           /\ Ranges(q) = Ranges(p)
           /\ \A i, j \in DOMAIN q.work : i # j => i - 1 # j - 1
<1> DEFINE w == p.work
           h == Halves(w[1])
           v == h \o Tail(w)
<1>1. w \in Seq(Spans) /\ w # <<>>
  BY LocalTypes DEF Spans
<1> HIDE DEF w
<1>2. Len(w) \in Nat /\ Len(w) > 0 /\ w[1] \in Spans /\ DOMAIN w = 1..Len(w) /\ 1 \in DOMAIN w
  BY <1>1
<1>3. /\ h \in Seq(Spans) /\ Len(h) = 2
      /\ Positions(h[1]) \cup Positions(h[2]) = Positions(w[1])
      /\ Positions(h[1]) \cap Positions(h[2]) = {}
  BY <1>2, HalvesFacts DEF w
<1> HIDE DEF h
<1>4. /\ v \in Seq(Spans) /\ DOMAIN v = 1..(Len(w) + 1) /\ v[1] = h[1] /\ v[2] = h[2]
      /\ \A i \in 3..(Len(w) + 1) : v[i] = w[i - 1]
  <2>1. /\ Tail(w) \in Seq(Spans) /\ Len(Tail(w)) = Len(w) - 1
        /\ \A i \in 1..(Len(w) - 1) : Tail(w)[i] = w[i + 1]
    BY <1>1, <1>2
  <2> DEFINE t == Tail(w)
             n == Len(w)
  <2> HIDE DEF t, n
  <2>4. v = h \o t /\ t \in Seq(Spans) /\ Len(t) = n - 1 /\ n \in Nat /\ n > 0
    BY <1>2, <2>1 DEF t, n
  <2> HIDE DEF v
  <2>5. /\ v \in Seq(Spans) /\ Len(v) = n + 1 /\ v[1] = h[1] /\ v[2] = h[2]
        /\ \A i \in 3..(n + 1) : v[i] = t[i - 2]
    <3>0. h \in Seq(Spans) /\ t \in Seq(Spans)
      BY <1>3, <2>4
    <3>4. /\ h \o t \in Seq(Spans) /\ Len(h \o t) = Len(h) + Len(t)
          /\ \A i \in 1..Len(h) : (h \o t)[i] = h[i]
          /\ \A i \in 1..Len(t) : (h \o t)[Len(h) + i] = t[i]
      BY <3>0, ConcatFacts
    <3>5. /\ v \in Seq(Spans) /\ Len(v) = Len(h) + Len(t)
          /\ \A i \in 1..Len(h) : v[i] = h[i]
          /\ \A i \in 1..Len(t) : v[Len(h) + i] = t[i]
      BY <2>4, <3>4, Zenon
    <3>1. v \in Seq(Spans) /\ Len(v) = 2 + (n - 1) /\ \A i \in 1..2 : v[i] = h[i]
      BY <1>3, <2>4, <3>5, Zenon
    <3>2. \A i \in 1..(n - 1) : v[2 + i] = t[i]
      BY <1>3, <2>4, <3>5, Zenon
    <3>3. ASSUME NEW i \in 3..(n + 1) PROVE v[i] = t[i - 2]
      <4>1. i - 2 \in 1..(n - 1) /\ 2 + (i - 2) = i
        BY <2>4
      <4> QED
        BY <3>2, <4>1
    <3> QED
      BY <2>4, <3>1, <3>3
  <2>2. /\ v \in Seq(Spans) /\ Len(v) = Len(w) + 1 /\ v[1] = h[1] /\ v[2] = h[2]
        /\ \A i \in 3..(Len(w) + 1) : v[i] = t[i - 2]
    BY <2>5 DEF n
  <2>3. \A i \in 3..(Len(w) + 1) : t[i - 2] = w[i - 1]
    BY <1>2, <2>1 DEF t
  <2> QED
    BY <1>2, <2>2, <2>3
<1>5. q.work = v
  BY DEF v, h, w
<1> HIDE DEF v
<1>6. /\ Part(q, 1) = Positions(h[1]) /\ Part(q, 2) = Positions(h[2])
      /\ Part(p, 1) = Positions(w[1])
  BY <1>4, <1>5 DEF Part, w
<1>7. \A i \in DOMAIN v : \/ i = 1 \/ i = 2
                          \/ i - 1 \in DOMAIN w /\ i - 1 # 1 /\ v[i] = w[i - 1]
  BY <1>2, <1>4
<1>8. \A i \in DOMAIN q.work :
         \/ i = 1 \/ i = 2
         \/ i - 1 \in DOMAIN p.work /\ i - 1 # 1 /\ Part(q, i) = Part(p, i - 1)
  BY <1>5, <1>7 DEF Part, w
<1>9. \A i \in DOMAIN w : i = 1 \/ (i + 1 \in DOMAIN v /\ v[i + 1] = w[i])
  BY <1>2, <1>4
<1>10. Ranges(q) = Ranges(p)
  <2>1. Part(p, 1) = Part(q, 1) \cup Part(q, 2)
    BY <1>3, <1>6
  <2>2. 1 \in DOMAIN q.work /\ 2 \in DOMAIN q.work /\ 1 \in DOMAIN p.work
    <3>1. 1 \in 1..(Len(w) + 1) /\ 2 \in 1..(Len(w) + 1)
      BY <1>2
    <3> QED
      BY <1>2, <1>4, <1>5, <3>1 DEF w
  <2>3. \A i \in DOMAIN p.work : i = 1 \/ (i + 1 \in DOMAIN q.work /\ Part(q, i + 1) = Part(p, i))
    BY <1>5, <1>9 DEF Part, w
  <2>4. Ranges(q) \subseteq Ranges(p)
    <3> SUFFICES ASSUME NEW x, NEW i \in DOMAIN q.work, x \in Part(q, i) PROVE x \in Ranges(p)
      BY DEF Ranges
    <3>1. \E j \in DOMAIN p.work : x \in Part(p, j)
      BY <1>8, <2>1, <2>2
    <3> QED
      BY <3>1 DEF Ranges
  <2>5. Ranges(p) \subseteq Ranges(q)
    <3> SUFFICES ASSUME NEW x, NEW i \in DOMAIN p.work, x \in Part(p, i) PROVE x \in Ranges(q)
      BY DEF Ranges
    <3>1. \E j \in DOMAIN q.work : x \in Part(q, j)
      BY <2>1, <2>2, <2>3
    <3> QED
      BY <3>1 DEF Ranges
  <2> QED
    BY <2>4, <2>5
<1>11. \A i, j \in DOMAIN v : i # j => i - 1 # j - 1
  BY <1>2, <1>4
<1> QED
  BY <1>2, <1>3, <1>4, <1>5, <1>6, <1>8, <1>10, <1>11 DEF w

\* A process that sends, and the range it sends next.
LEMMA SendingFacts ==
    ASSUME NEW p \in LocalState, NEW R, NEW D, Local(p, R, D), p.pc = "send", p.work # <<>>
    PROVE  /\ p.todo = <<>> /\ p.work[1] \in Spans /\ 1 \in DOMAIN p.work
           /\ Part(p, 1) = Positions(p.work[1]) /\ Part(p, 1) \subseteq 1..Len(p.batch)
           /\ \A i, j \in DOMAIN p.work : i # j => Part(p, i) \cap Part(p, j) = {}
           /\ \A i \in DOMAIN p.work : Part(p, i) \cap Settled(p) = {} /\ Part(p, i) \subseteq 1..Len(p.batch)
           /\ p.delivered \cap p.poison = {}
           /\ ~p.stop => Settled(p) \cup Ranges(p) = 1..Len(p.batch)
           /\ Sized(p) /\ Placed(p) /\ Justified(p, R, D)
<1>1. p.work[1] \in Spans /\ 1 \in DOMAIN p.work
  <2>1. p.work \in Seq(Spans)
    BY LocalTypes DEF Spans
  <2> QED
    BY <2>1
<1> QED
  BY <1>1 DEF Local, Parted, Placed, Part

\* The first range is settled, item by item, or left.
LEMMA RangeDone ==
    ASSUME NEW p \in LocalState, NEW q \in LocalState, NEW R, NEW D, Local(p, R, D),
           p.pc = "send", p.work # <<>>,
           q.pc = "send", q.todo = p.todo, q.batch = p.batch, q.at = p.at, q.stop = p.stop,
           q.i = p.i, q.rest = p.rest,
           q.work = Tail(p.work),
           \/ q.delivered = p.delivered \cup Part(p, 1) /\ q.poison = p.poison
              /\ \A i \in Part(p, 1) : p.batch[i] \in R
           \/ q.delivered = p.delivered /\ q.poison = p.poison \cup Part(p, 1)
              /\ \A i \in Part(p, 1) : p.batch[i] \in Rejected
           \/ q.delivered = p.delivered /\ q.poison = p.poison /\ p.stop = TRUE
    PROVE  Local(q, R, D)
<1>1. /\ p.todo = <<>> /\ Part(p, 1) \subseteq 1..Len(p.batch) /\ 1 \in DOMAIN p.work
      /\ \A i, j \in DOMAIN p.work : i # j => Part(p, i) \cap Part(p, j) = {}
      /\ \A i \in DOMAIN p.work : Part(p, i) \cap Settled(p) = {} /\ Part(p, i) \subseteq 1..Len(p.batch)
      /\ p.delivered \cap p.poison = {}
      /\ ~p.stop => Settled(p) \cup Ranges(p) = 1..Len(p.batch)
      /\ Sized(p) /\ Placed(p) /\ Justified(p, R, D)
  BY SendingFacts
<1>2. /\ \A i \in DOMAIN q.work : i + 1 \in DOMAIN p.work /\ i + 1 # 1 /\ Part(q, i) = Part(p, i + 1)
      /\ Ranges(p) = Part(p, 1) \cup Ranges(q)
      /\ \A i, j \in DOMAIN q.work : i # j => i + 1 # j + 1
  BY TailParts
<1>3. Sized(q) /\ Placed(q)
  BY <1>1 DEF Sized, TypeBatch, Within, Between, Placed, Looping
<1>4. Justified(q, R, D)
  BY <1>1 DEF Justified
<1>5. Parted(q)
  <2>1. \A i, j \in DOMAIN q.work : i # j => Part(q, i) \cap Part(q, j) = {}
    BY <1>1, <1>2
  <2>2. Settled(q) = Settled(p) \cup Part(p, 1) \/ (Settled(q) = Settled(p) /\ q.stop = TRUE)
    BY DEF Settled
  <2>3. \A i \in DOMAIN q.work :
           Part(q, i) \cap (Settled(p) \cup Part(p, 1)) = {} /\ Part(q, i) \subseteq 1..Len(q.batch)
    BY <1>1, <1>2
  <2>4. \A i \in DOMAIN q.work : Part(q, i) \cap Settled(q) = {} /\ Part(q, i) \subseteq 1..Len(q.batch)
    BY <2>2, <2>3
  <2>5. q.delivered \cap q.poison = {}
    BY <1>1 DEF Settled
  <2>6. ~q.stop => Settled(q) \cup Ranges(q) = 1..Len(q.batch)
    BY <1>1, <1>2, <2>2
  <2> QED
    BY <2>1, <2>4, <2>5, <2>6 DEF Parted
<1> QED
  BY <1>3, <1>4, <1>5 DEF Local

\* A 2xx answer.
LEMMA PostAcceptedLocal ==
    ASSUME Sound, NEW c \in Consumers, PostAccepted(c)
    PROVE  proc' \in [Consumers -> LocalState] /\ Locals'
<1> DEFINE p == proc[c]
           r == p.work[1]
           w == Tail(p.work)
           d == p.delivered \cup Positions(r)
           q == [p EXCEPT !.work = w, !.delivered = d]
<1>0. /\ p \in LocalState /\ p.pc = "send" /\ p.work # <<>> /\ Local(p, received, deadLettered)
      /\ proc \in [Consumers -> LocalState] /\ Locals
  BY SoundFacts DEF PostAccepted, Sending, Sound, TypeOK
<1>1. /\ received' = received \cup Items(p, r) /\ deadLettered' = deadLettered /\ Become(c, q)
  BY DEF PostAccepted, redis
<1>2. /\ Part(p, 1) = Positions(r) /\ Part(p, 1) \subseteq 1..Len(p.batch)
  BY <1>0, SendingFacts
<1>3. Local(p, received', deadLettered')
  BY <1>0, <1>1, LocalGrows
<1>4. w \in Seq(Spans) /\ d \subseteq Nat
  <2>1. w \in Seq(Spans)
    BY <1>0, LocalTypes DEF Spans
  <2>2. p.delivered \subseteq Nat /\ Len(p.batch) \in Nat
    BY <1>0, LocalTypes
  <2> QED
    BY <1>2, <2>1, <2>2
<1>5. \A i \in Part(p, 1) : p.batch[i] \in received'
  BY <1>1, <1>2 DEF Items
<1> HIDE DEF p, w, d
<1>6. /\ q \in LocalState /\ q.pc = p.pc /\ q.todo = p.todo /\ q.batch = p.batch /\ q.at = p.at
      /\ q.i = p.i /\ q.rest = p.rest /\ q.stop = p.stop /\ q.work = w /\ q.delivered = d /\ q.poison = p.poison
  BY <1>0, <1>4 DEF LocalState, Spans
<1> HIDE DEF q, r
<1>7. Local(q, received', deadLettered')
  BY <1>0, <1>2, <1>3, <1>5, <1>6, RangeDone DEF w, d
<1> QED
  BY <1>0, <1>1, <1>6, <1>7, OneMoves

\* The range is left because of a stop.
LEMMA AbandonLocal ==
    ASSUME Sound, NEW c \in Consumers, Abandon(c)
    PROVE  proc' \in [Consumers -> LocalState] /\ Locals'
<1> DEFINE p == proc[c]
           w == Tail(p.work)
           q == [p EXCEPT !.work = w]
<1>0. /\ p \in LocalState /\ p.pc = "send" /\ p.work # <<>> /\ Local(p, received, deadLettered)
      /\ p.stop
  BY SoundFacts DEF Abandon
<1>1. UNCHANGED <<received, deadLettered>> /\ Become(c, q)
  BY DEF Abandon, redis
<1>2. w \in Seq(Spans) /\ p.stop = TRUE
  BY <1>0, LocalTypes DEF Spans
<1> HIDE DEF p, w
<1>3. /\ q \in LocalState /\ q.pc = p.pc /\ q.todo = p.todo /\ q.batch = p.batch /\ q.at = p.at
      /\ q.i = p.i /\ q.rest = p.rest /\ q.stop = p.stop /\ q.work = w /\ q.delivered = p.delivered /\ q.poison = p.poison
  BY <1>0, <1>2 DEF LocalState, Spans
<1> HIDE DEF q
<1>4. Local(q, received, deadLettered)
  BY <1>0, <1>2, <1>3, RangeDone DEF w
<1> QED
  BY <1>1, <1>3, <1>4, Suffices

\* A rejected range: one item is poison, more are split.
LEMMA PostRejectedLocal ==
    ASSUME Sound, NEW c \in Consumers, PostRejected(c)
    PROVE  proc' \in [Consumers -> LocalState] /\ Locals'
<1> DEFINE p == proc[c]
           r == p.work[1]
           R == received
           D == deadLettered
<1>0. p \in LocalState /\ p.pc = "send" /\ p.work # <<>> /\ Local(p, R, D)
  BY SoundFacts DEF PostRejected, Sending
<1>1. UNCHANGED <<received, deadLettered>>
  BY DEF PostRejected, redis
<1>2. /\ p.todo = <<>> /\ r \in Spans /\ Part(p, 1) = Positions(r) /\ 1 \in DOMAIN p.work
      /\ Part(p, 1) \subseteq 1..Len(p.batch)
      /\ \A i, j \in DOMAIN p.work : i # j => Part(p, i) \cap Part(p, j) = {}
      /\ \A i \in DOMAIN p.work : Part(p, i) \cap Settled(p) = {} /\ Part(p, i) \subseteq 1..Len(p.batch)
      /\ p.delivered \cap p.poison = {}
      /\ ~p.stop => Settled(p) \cup Ranges(p) = 1..Len(p.batch)
      /\ Sized(p) /\ Placed(p) /\ Justified(p, R, D)
  BY <1>0, SendingFacts
<1>3. CASE r.count = 1
  <2> DEFINE w == Tail(p.work)
             x == p.poison \cup {r.lo}
             q == [p EXCEPT !.poison = x, !.work = w]
  <2>1. Become(c, q) /\ Items(p, r) \cap Rejected # {}
    BY <1>3 DEF PostRejected
  <2>2. Positions(r) = {r.lo} /\ r.lo \in Nat
    BY <1>2, <1>3 DEF Positions, Spans
  <2>3. \A i \in Part(p, 1) : p.batch[i] \in Rejected
    BY <1>2, <2>1, <2>2 DEF Items
  <2>4. w \in Seq(Spans) /\ x \subseteq Nat
    BY <1>0, <2>2, LocalTypes DEF Spans
  <2> HIDE DEF p, w, x, r
  <2>5. /\ q \in LocalState /\ q.pc = p.pc /\ q.todo = p.todo /\ q.batch = p.batch /\ q.at = p.at
        /\ q.i = p.i /\ q.rest = p.rest /\ q.stop = p.stop /\ q.work = w /\ q.delivered = p.delivered /\ q.poison = x
    BY <1>0, <2>4 DEF LocalState, Spans
  <2> HIDE DEF q
  <2>6. Local(q, R, D)
    BY <1>0, <1>2, <2>2, <2>3, <2>5, RangeDone DEF w, x
  <2> QED
    BY <1>1, <2>1, <2>5, <2>6, Suffices
<1>4. CASE r.count # 1
  <2> DEFINE w == Halves(r) \o Tail(p.work)
             q == [p EXCEPT !.work = w]
  <2>1. Become(c, q)
    BY <1>4 DEF PostRejected
  <2>2. w \in Seq(Spans)
    <3>1. Halves(r) \in Seq(Spans)
      BY <1>2, <1>4, HalvesFacts
    <3>2. Tail(p.work) \in Seq(Spans)
      BY <1>0, LocalTypes DEF Spans
    <3> QED
      BY <3>1, <3>2, ConcatFacts
  <2> HIDE DEF p, w
  <2>3. /\ q \in LocalState /\ q.pc = p.pc /\ q.todo = p.todo /\ q.batch = p.batch /\ q.at = p.at
        /\ q.i = p.i /\ q.rest = p.rest /\ q.stop = p.stop /\ q.work = w /\ q.delivered = p.delivered /\ q.poison = p.poison
    BY <1>0, <2>2 DEF LocalState, Spans
  <2> HIDE DEF q
  <2>4. /\ Part(q, 1) \cup Part(q, 2) = Part(p, 1) /\ Part(q, 1) \cap Part(q, 2) = {}
        /\ \A i \in DOMAIN q.work :
              \/ i = 1 \/ i = 2
              \/ i - 1 \in DOMAIN p.work /\ i - 1 # 1 /\ Part(q, i) = Part(p, i - 1)
        /\ Ranges(q) = Ranges(p)
        /\ \A i, j \in DOMAIN q.work : i # j => i - 1 # j - 1
    BY <1>0, <1>4, <2>3, SplitParts DEF w
  <2>5. Sized(q) /\ Placed(q) /\ Justified(q, R, D)
    BY <1>0, <1>2, <2>3 DEF Sized, TypeBatch, Within, Placed, Justified
  <2>6. Parted(q)
    <3>1. ASSUME NEW i \in DOMAIN q.work, NEW j \in DOMAIN q.work, i # j
          PROVE  Part(q, i) \cap Part(q, j) = {}
      <4>1. CASE i \in {1, 2} /\ j \in {1, 2}
        BY <2>4, <3>1, <4>1
      <4>2. CASE i \in {1, 2} /\ j \notin {1, 2}
        <5>1. Part(q, i) \subseteq Part(p, 1) /\ j - 1 \in DOMAIN p.work /\ j - 1 # 1
              /\ Part(q, j) = Part(p, j - 1)
          BY <2>4, <4>2
        <5> QED
          BY <1>2, <5>1
      <4>3. CASE i \notin {1, 2} /\ j \in {1, 2}
        <5>1. Part(q, j) \subseteq Part(p, 1) /\ i - 1 \in DOMAIN p.work /\ i - 1 # 1
              /\ Part(q, i) = Part(p, i - 1)
          BY <2>4, <4>3
        <5> QED
          BY <1>2, <5>1
      <4>4. CASE i \notin {1, 2} /\ j \notin {1, 2}
        <5>1. i - 1 \in DOMAIN p.work /\ j - 1 \in DOMAIN p.work /\ i - 1 # j - 1
              /\ Part(q, i) = Part(p, i - 1) /\ Part(q, j) = Part(p, j - 1)
          BY <2>4, <3>1, <4>4
        <5> QED
          BY <1>2, <5>1
      <4> QED
        BY <4>1, <4>2, <4>3, <4>4
    <3>2. Settled(q) = Settled(p)
      BY <2>3 DEF Settled
    <3>3. ASSUME NEW i \in DOMAIN q.work
          PROVE  Part(q, i) \cap Settled(q) = {} /\ Part(q, i) \subseteq 1..Len(q.batch)
      <4>1. \E j \in DOMAIN p.work : Part(q, i) \subseteq Part(p, j)
        BY <1>2, <2>4
      <4> QED
        BY <1>2, <2>3, <3>2, <4>1
    <3> QED
      BY <1>2, <2>3, <2>4, <3>1, <3>2, <3>3 DEF Parted
  <2> QED
    BY <1>1, <2>1, <2>3, <2>5, <2>6, Suffices DEF Local
<1> QED
  BY <1>3, <1>4

\* flush_batch() prints the batch, or starts to send all of it.
LEMMA FlushBatchLocal ==
    ASSUME Sound, NEW c \in Consumers, FlushBatch(c)
    PROVE  proc' \in [Consumers -> LocalState] /\ Locals'
<1> DEFINE p == proc[c]
           x == IF p.pc = "finish" THEN "cleanup" ELSE p.next
           b == [p EXCEPT !.next = x]
           m == Len(p.batch)
<1>0. /\ p \in LocalState /\ Local(p, received, deadLettered) /\ p.batch # <<>>
      /\ p.todo = <<>> /\ p.rest = <<>> /\ Calm(p) /\ Sized(p)
      /\ p.batch \in Seq(Entries) /\ m \in Nat
      /\ proc \in [Consumers -> LocalState] /\ Locals
  BY SoundFacts, LocalTypes DEF FlushBatch, Sound, TypeOK
<1>1. m > 0
  BY <1>0
<1>2. received \subseteq received' /\ deadLettered' = deadLettered
  BY DEF FlushBatch, redis
<1>3. x \in {"check", "top", "finish", "cleanup"}
  BY <1>0, LocalTypes
<1>4. {"settle", "send"} \subseteq Places
  BY DEF Places
<1> DEFINE d == 1..m
           s == [b EXCEPT !.pc = "settle", !.delivered = d]
           w == <<[lo |-> 1, count |-> m]>>
           t == [b EXCEPT !.pc = "send", !.work = w]
<1>5. \/ Become(c, s) /\ received' = received \cup Elements(p.batch)
      \/ Become(c, t)
  BY DEF FlushBatch
<1>6. d \subseteq Nat /\ w \in Seq(Spans)
  <2>1. [lo |-> 1, count |-> m] \in Spans
    BY <1>0, <1>1 DEF Spans
  <2> QED
    BY <1>0, <2>1
<1>7. \A i \in d : p.batch[i] \in Elements(p.batch)
  BY <1>0 DEF Elements
<1>8. w[1] = [lo |-> 1, count |-> m] /\ DOMAIN w = {1} /\ Positions(w[1]) = d
  <2>1. w[1] = [lo |-> 1, count |-> m] /\ DOMAIN w = {1}
    OBVIOUS
  <2>2. w[1].lo = 1 /\ w[1].count = m /\ 1 + m - 1 = m
    BY <1>0, <2>1
  <2> QED
    BY <2>1, <2>2 DEF Positions
<1> HIDE DEF p, x
<1>9. /\ b \in LocalState /\ b.i = p.i /\ b.rest = p.rest /\ b.todo = p.todo /\ b.batch = p.batch /\ b.work = p.work
      /\ b.delivered = p.delivered /\ b.poison = p.poison /\ b.at = p.at
  BY <1>0, <1>3 DEF LocalState
<1> HIDE DEF b, d, w
<1>10. CASE Become(c, s) /\ received' = received \cup Elements(p.batch)
  <2>1. /\ s \in LocalState /\ s.pc = "settle" /\ s.delivered = d /\ s.todo = b.todo
        /\ s.i = b.i /\ s.rest = b.rest
        /\ s.batch = b.batch /\ s.work = b.work /\ s.poison = b.poison /\ s.at = b.at
    BY <1>4, <1>6, <1>9 DEF LocalState
  <2> HIDE DEF s
  <2>2. Sized(s) /\ Placed(s) /\ Parted(s)
    BY <1>0, <1>9, <2>1 DEF Sized, TypeBatch, Within, Between, Placed, Looping, Calm, Parted
  <2>3. Justified(s, received', deadLettered')
    BY <1>0, <1>7, <1>9, <1>10, <2>1 DEF Justified, Calm, d
  <2> QED
    BY <1>0, <1>2, <1>10, <2>1, <2>2, <2>3, OneMoves DEF Local
<1>11. CASE Become(c, t)
  <2>1. /\ t \in LocalState /\ t.pc = "send" /\ t.work = w /\ t.todo = b.todo
        /\ t.i = b.i /\ t.rest = b.rest
        /\ t.batch = b.batch /\ t.delivered = b.delivered /\ t.poison = b.poison /\ t.at = b.at
    BY <1>4, <1>6, <1>9 DEF LocalState, Spans
  <2> HIDE DEF t
  <2>2. Sized(t) /\ Placed(t)
    BY <1>0, <1>9, <2>1 DEF Sized, TypeBatch, Within, Between, Placed, Looping, Calm
  <2>3. Justified(t, received', deadLettered')
    BY <1>0, <1>9, <2>1 DEF Justified, Calm
  <2>4. Part(t, 1) = d /\ DOMAIN t.work = {1} /\ Settled(t) = {} /\ t.delivered = {}
        /\ 1..Len(t.batch) = d
    BY <1>0, <1>8, <1>9, <2>1 DEF Part, Settled, Calm, d
  <2>5. Parted(t)
    BY <2>4 DEF Parted, Ranges
  <2> QED
    BY <1>0, <1>2, <1>11, <2>1, <2>2, <2>3, <2>5, OneMoves DEF Local
<1> QED
  BY <1>5, <1>10, <1>11

\* A range sent again: the destination may have it.
LEMMA PostRetriedLocal ==
    ASSUME Sound, NEW c \in Consumers, PostRetried(c)
    PROVE  proc' \in [Consumers -> LocalState] /\ Locals'
<1>1. proc' = proc /\ received \subseteq received' /\ deadLettered' = deadLettered
  BY DEF PostRetried, redis
<1> QED
  BY <1>1, LocalGrows DEF Sound, TypeOK, Locals

\* The next item of the batch is acknowledged, dead-lettered or passed over, or
\* the batch is cleared.
LEMMA SettleLocal ==
    ASSUME Sound, NEW c \in Consumers, Settle(c)
    PROVE  proc' \in [Consumers -> LocalState] /\ Locals'
<1> DEFINE p == proc[c]
           R == received
           D == deadLettered
<1>0. /\ p \in LocalState /\ Local(p, R, D) /\ p.todo = <<>> /\ p.rest = <<>> /\ p.work = <<>>
      /\ p.batch \in Seq(Entries) /\ Len(p.batch) \in Nat /\ p.at \in Nat
      /\ Sized(p) /\ Justified(p, R, D) /\ p.pc \in {"send", "settle"}
  BY SoundFacts, LocalTypes DEF Settle, Placed, Local
<1>1. UNCHANGED <<received, deadLettered>>
  BY DEF Settle, redis
<1> DEFINE k == p.at + 1
           x == p.next
           e == <<>>
           z == {}
           s == [p EXCEPT !.pc = "settle", !.at = k]
           n == [p EXCEPT !.pc = x, !.batch = e, !.delivered = z, !.poison = z, !.at = 1]
<1>2. \/ p.at \in p.delivered /\ Become(c, [p EXCEPT !.pc = "ack"])
      \/ p.at \in p.poison /\ Become(c, [p EXCEPT !.pc = "deadletter"])
      \/ p.at <= Len(p.batch) /\ Become(c, s)
      \/ Become(c, n)
  BY DEF Settle
<1>3. {"settle", "ack", "deadletter"} \subseteq Places
  BY DEF Places
<1>4. Current(p) = p.batch[p.at]
  BY <1>0 DEF Current
<1>5. ASSUME NEW y \in {"ack", "deadletter"}, Become(c, [p EXCEPT !.pc = y]),
             y = "ack" => p.at \in p.delivered, y = "deadletter" => p.at \in p.poison
      PROVE  proc' \in [Consumers -> LocalState] /\ Locals'
  <2> DEFINE r == [p EXCEPT !.pc = y]
  <2>1. Same(p, r) /\ r.pc = y
    <3> HIDE DEF p
    <3> QED
      BY <1>0, <1>3, PcSame
  <2> HIDE DEF r, p
  <2>2. /\ p.at \in 1..Len(p.batch)
        /\ y = "ack" => Current(p) \in R \cup D \cup Silent
        /\ y = "deadletter" => Current(p) \in Rejected \cup Undecodable
    BY <1>0, <1>4, <1>5 DEF Justified
  <2>3. Local(r, R, D)
    BY <1>0, <2>1, <2>2, SameLocal DEF Between, Looping
  <2> QED
    BY <1>1, <1>5, <2>1, <2>3, Suffices DEF Same, r
<1>6. CASE p.at <= Len(p.batch) /\ Become(c, s)
  <2>1. k \in 1..(Len(p.batch) + 1) /\ k \in Nat
    BY <1>0, <1>6
  <2> HIDE DEF p, k
  <2>2. /\ s \in LocalState /\ s.pc = "settle" /\ s.todo = p.todo /\ s.batch = p.batch
        /\ s.i = p.i /\ s.rest = p.rest
        /\ s.work = p.work /\ s.delivered = p.delivered /\ s.poison = p.poison /\ s.at = k
    BY <1>0, <1>3, <2>1 DEF LocalState
  <2> HIDE DEF s
  <2>3. Sized(s) /\ Placed(s) /\ Justified(s, R, D) /\ Parted(s)
    BY <1>0, <2>1, <2>2 DEF Sized, TypeBatch, Within, Between, Placed, Looping, Justified, Parted
  <2> QED
    BY <1>1, <1>6, <2>2, <2>3, Suffices DEF Local
<1>7. CASE Become(c, n)
  <2>1. x \in {"check", "top", "finish", "cleanup"}
    BY <1>0, LocalTypes
  <2>2. x \in Places /\ e \in Seq(Entries) /\ Len(e) = 0 /\ z \subseteq Nat
    BY <2>1 DEF Places
  <2>3. e = <<>> /\ z = {}
    OBVIOUS
  <2> HIDE DEF p, x, e, z
  <2>4. /\ n \in LocalState /\ n.pc = x /\ n.todo = p.todo /\ n.batch = e
        /\ n.i = p.i /\ n.rest = p.rest
        /\ n.work = p.work /\ n.delivered = z /\ n.poison = z /\ n.at = 1
    BY <1>0, <2>2 DEF LocalState
  <2> HIDE DEF n
  <2>5. Sized(n)
    <3>1. Len(n.todo) = 0 /\ Len(n.batch) = 0 /\ DOMAIN n.rest = {} /\ n.i + Len(n.rest) <= NStreams
      BY <1>0, <2>2, <2>4 DEF Sized, TypeBatch
    <3> DEFINE a == Share(p.i)
               b == NStreams * PerStream
    <3>2. a \in Nat /\ b \in Nat
      BY <1>0, LocalTypes, ShareFacts, StreamsAssumption, SizeFacts
    <3>3. n.i = p.i
      BY <2>4
    <3> HIDE DEF a, b
    <3>4. 0 <= PerStream /\ 0 + 0 < Full + a /\ 0 + 0 < Full + b /\ 1 \in 1..(0 + 1) /\ 0 < Full
      BY <3>2, SizeFacts
    <3>5. TypeBatch(n)
      BY <2>4, <3>1, <3>4 DEF TypeBatch, b
    <3>6. Within(n)
      BY <3>1, <3>3, <3>4 DEF Within, a
    <3> QED
      BY <3>1, <3>4, <3>5, <3>6 DEF Sized
  <2>6. Placed(n) /\ Justified(n, R, D) /\ Parted(n)
    BY <1>0, <2>1, <2>3, <2>4 DEF Placed, Calm, Justified, Parted, Looping
  <2> QED
    BY <1>1, <1>7, <2>4, <2>5, <2>6, Suffices DEF Local
<1> QED
  BY <1>2, <1>5, <1>6, <1>7

-----------------------------------------------------------------------------
(* Redis and the destination, and the theorems.                            *)

\* What a process does, one disjunct for each operation.
Moves(c) == Own(c) \/ Command(c) \/ Final(c) \/ PostRetried(c) \/ Connect(c) \/ Stop(c) \/ Crash(c)

\* Every step leaves every process sound.
LEMMA MovesLocal ==
    ASSUME Sound, NEW c \in Consumers, Moves(c)
    PROVE  proc' \in [Consumers -> LocalState] /\ Locals'
<1>1. CASE Own(c)
  BY <1>1, LoopLocal, ProcessedLocal, ProcessLocal, FlushBatchLocal, AbandonLocal, SettleLocal DEF Own
<1>4. CASE Command(c)
  BY <1>4, EnsureGroupLocal, ReclaimLocal, ReadLocal, DeadLetterLocal, AckLocal DEF Command
<1>2. CASE Final(c) \/ PostRetried(c)
  BY <1>2, PostAcceptedLocal, PostRejectedLocal, PostRetriedLocal DEF Final
<1>3. CASE Connect(c) \/ Stop(c) \/ Crash(c)
  BY <1>3, LoopLocal, MishapLocal
<1> QED
  BY <1>1, <1>2, <1>3, <1>4 DEF Moves

\* The entry that is acknowledged or dead-lettered next, and why.
LEMMA CurrentFacts ==
    ASSUME Sound, NEW c \in Consumers, proc[c].pc \in {"ack", "deadletter"}
    PROVE  /\ Current(proc[c]) \in Entries
           /\ proc[c].pc = "ack" => Current(proc[c]) \in received \cup deadLettered \cup Silent
           /\ proc[c].pc = "deadletter" => Current(proc[c]) \in Rejected \cup Undecodable
<1> DEFINE p == proc[c]
<1>1. /\ Placed(p) /\ Justified(p, received, deadLettered)
      /\ p.todo \in Seq(Entries) /\ p.batch \in Seq(Entries)
  BY SoundFacts, LocalTypes DEF Local
<1> HIDE DEF p
<1>2. p.pc \in {"ack", "deadletter"}
  BY DEF p
<1>3. Current(p) \in Entries
  <2>1. CASE p.todo # <<>>
    BY <1>1, <2>1 DEF Current
  <2>2. CASE p.todo = <<>>
    BY <1>1, <1>2, <2>2 DEF Current, Placed
  <2> QED
    BY <2>1, <2>2
<1> QED
  BY <1>1, <1>3 DEF p, Justified

\* What is sent or printed are entries.
LEMMA SentAreEntries ==
    ASSUME Sound, NEW c \in Consumers
    PROVE  /\ Elements(proc[c].batch) \subseteq Entries
           /\ proc[c].pc = "send" /\ proc[c].work # <<>> => Items(proc[c], proc[c].work[1]) \subseteq Entries
<1> DEFINE p == proc[c]
<1>1. p \in LocalState /\ Local(p, received, deadLettered) /\ p.batch \in Seq(Entries)
  BY SoundFacts, LocalTypes
<1> HIDE DEF p
<1>2. Elements(p.batch) \subseteq Entries
  BY <1>1 DEF Elements
<1>3. ASSUME p.pc = "send", p.work # <<>> PROVE Items(p, p.work[1]) \subseteq Entries
  <2>1. Positions(p.work[1]) \subseteq 1..Len(p.batch)
    BY <1>1, <1>3, SendingFacts
  <2>2. \A i \in 1..Len(p.batch) : p.batch[i] \in Entries
    BY <1>1
  <2> QED
    BY <2>1, <2>2 DEF Items
<1> QED
  BY <1>2, <1>3 DEF p

\* What a step does to the configuration and to the count of mishaps.
LEMMA CountedMishaps ==
    ASSUME TypeOK, NEW c \in Consumers, Moves(c)
    PROVE  UNCHANGED config /\ mishaps' \in 0..MaxMishaps
<1>1. UNCHANGED config
  BY DEF Moves, Own, Command, Final, EnsureGroup, Top, GiveUp, Reclaim, Check, Read, Processed, Process, DeadLetter, Ack, KeepBatch,
         FlushBatch, FinishEmpty, Abandon, Settle, Cleanup, PostAccepted, PostRejected, PostRetried, Connect,
         Stop, Crash
<1>2. UNCHANGED mishaps \/ Mishap
  BY DEF Moves, Own, Command, Final, EnsureGroup, Top, GiveUp, Reclaim, Check, Read, Processed, Process, DeadLetter, Ack, KeepBatch,
         FlushBatch, FinishEmpty, Abandon, Settle, Cleanup, PostAccepted, PostRejected, PostRetried, Connect,
         Stop, Crash, Answered, Broken, Refused, Unusable
<1>3. UNCHANGED mishaps \/ (mishaps < MaxMishaps /\ mishaps' = mishaps + 1)
  BY <1>2 DEF Mishap
<1> QED
  BY <1>1, <1>3, MishapsAssumption DEF TypeOK

\* What a step does to Redis and to the destination.
Effect(c) ==
    \/ UNCHANGED <<groups, handed, owner, idle, acked, deadLettered, received>>
    \/ \E t \in Streams :
          groups' = groups \cup {t} /\ UNCHANGED <<handed, owner, idle, acked, deadLettered, received>>
    \/ \E S \in SUBSET Entries :
          Assign(c, S) /\ handed' \in SUBSET Entries /\ UNCHANGED received
    \/ /\ proc[c].pc = "deadletter"
       /\ deadLettered' = deadLettered \cup {Current(proc[c])}
       /\ UNCHANGED <<groups, handed, owner, idle, acked, received>>
    \/ /\ proc[c].pc = "ack"
       /\ owner' = [owner EXCEPT ![Current(proc[c])] = Nobody] /\ idle' = idle \ {Current(proc[c])}
       /\ acked' = acked \cup {Current(proc[c])}
       /\ UNCHANGED <<groups, handed, deadLettered, received>>
    \/ \E S \in SUBSET Entries :
          received' = received \cup S /\ UNCHANGED <<groups, handed, owner, idle, acked, deadLettered>>

\* Every step has one of these effects.
LEMMA Effects ==
    ASSUME Sound, NEW c \in Consumers, Moves(c)
    PROVE  Effect(c)
<1>1. CASE \/ Top(c) \/ GiveUp(c) \/ Connect(c) \/ Check(c) \/ Processed(c) \/ Process(c)
           \/ KeepBatch(c) \/ FinishEmpty(c) \/ Abandon(c) \/ Settle(c) \/ Cleanup(c)
           \/ PostRejected(c) \/ Stop(c) \/ Crash(c)
  BY <1>1 DEF Top, GiveUp, Connect, Check, Processed, Process, KeepBatch, FinishEmpty, Abandon, Settle,
              Cleanup, PostRejected, Stop, Crash, redis, Effect
<1>0. proc[c].pc \in Looping => proc[c].i + 1 \in Streams
  <2>1. proc[c].i \in 0..NStreams /\ (proc[c].pc \in Looping => proc[c].i < NStreams)
    BY SoundFacts, LocalTypes DEF Placed
  <2> QED
    BY <2>1, StreamsAssumption DEF Streams
<1>2. CASE EnsureGroup(c)
  <2>1. /\ proc[c].pc \in {"start", "groups"} /\ UNCHANGED received
        /\ \/ UNCHANGED redis
           \/ /\ groups' = groups \cup {proc[c].i + 1}
              /\ UNCHANGED <<handed, owner, idle, acked, deadLettered>>
    BY <1>2 DEF EnsureGroup
  <2>2. proc[c].i + 1 \in Streams
    BY <1>0, <2>1 DEF Looping
  <2> QED
    BY <2>1, <2>2 DEF redis, Effect
<1>3. CASE Reclaim(c)
  <2> DEFINE t == proc[c].i + 1
             s == IF t \in groups /\ ReadCount > 0 THEN Claimed(t, proc[c].cursor[t]) ELSE <<>>
  <2>1. t \in Streams
    BY <1>0, <1>3 DEF Reclaim, Looping
  <2>2. proc[c].cursor[t] \in 0..MaxEntries
    BY <2>1, SoundFacts, LocalTypes
  <2>3. Claimed(t, proc[c].cursor[t]) \in Seq(Entries)
    BY <2>1, <2>2, ClaimedFacts
  <2>4. s \in Seq(Entries)
    BY <2>3
  <2>5. /\ UNCHANGED received
        /\ UNCHANGED redis \/ (Assign(c, Elements(s)) /\ UNCHANGED handed)
    BY <1>3 DEF Reclaim
  <2> HIDE DEF s
  <2>6. Elements(s) \in SUBSET Entries
    BY <2>4 DEF Elements
  <2>7. handed \in SUBSET Entries
    BY DEF Sound, TypeOK, TypeRedis
  <2> QED
    BY <2>5, <2>6, <2>7 DEF Effect, redis
<1>4. CASE Read(c)
  <2>1. /\ UNCHANGED received
        /\ \/ UNCHANGED redis
           \/ \E S \in SUBSET Entries : handed' = handed \cup S /\ Assign(c, S)
    BY <1>4 DEF Read
  <2>2. handed \in SUBSET Entries
    BY DEF Sound, TypeOK, TypeRedis
  <2> QED
    BY <2>1, <2>2 DEF Effect, redis
<1>5. CASE DeadLetter(c)
  BY <1>5 DEF DeadLetter, Effect, redis
<1>6. CASE Ack(c)
  BY <1>6 DEF Ack, Effect, redis
<1>7. CASE FlushBatch(c)
  <2>1. /\ UNCHANGED redis
        /\ UNCHANGED received \/ received' = received \cup Elements(proc[c].batch)
    BY <1>7 DEF FlushBatch
  <2> QED
    BY <2>1, SentAreEntries DEF Effect, redis
<1>8. CASE PostAccepted(c) \/ PostRetried(c)
  <2>1. /\ UNCHANGED redis /\ proc[c].pc = "send" /\ proc[c].work # <<>>
        /\ UNCHANGED received \/ received' = received \cup Items(proc[c], proc[c].work[1])
    BY <1>8 DEF PostAccepted, PostRetried, Sending
  <2> QED
    BY <2>1, SentAreEntries DEF Effect, redis
<1> QED
  BY <1>1, <1>2, <1>3, <1>4, <1>5, <1>6, <1>7, <1>8 DEF Moves, Own, Command, Final

\* An effect keeps Redis well formed and gives every acknowledged entry its
\* outcome and every dead letter its reason.
LEMMA EffectSound ==
    ASSUME Sound, AckedHaveOutcome, OnlyBadDeadLettered, NEW c \in Consumers, Effect(c)
    PROVE  TypeRedis' /\ AckedHaveOutcome' /\ OnlyBadDeadLettered'
<1> DEFINE e == Current(proc[c])
<1>0. TypeRedis
  BY DEF Sound, TypeOK
<1>1. CASE UNCHANGED <<groups, handed, owner, idle, acked, deadLettered, received>>
  BY <1>0, <1>1 DEF TypeRedis, AckedHaveOutcome, OnlyBadDeadLettered
<1>2. ASSUME NEW t \in Streams, groups' = groups \cup {t},
             UNCHANGED <<handed, owner, idle, acked, deadLettered, received>>
      PROVE  TypeRedis' /\ AckedHaveOutcome' /\ OnlyBadDeadLettered'
  BY <1>0, <1>2 DEF TypeRedis, AckedHaveOutcome, OnlyBadDeadLettered
<1>3. ASSUME NEW S \in SUBSET Entries, Assign(c, S), handed' \in SUBSET Entries, UNCHANGED received
      PROVE  TypeRedis' /\ AckedHaveOutcome' /\ OnlyBadDeadLettered'
  <2>1. \A x \in Entries : owner'[x] = (IF x \in S THEN c ELSE owner[x])
    BY <1>3 DEF Assign
  <2>2. owner' \in [Entries -> Consumers \cup {Nobody}]
    BY <1>0, <1>3 DEF Assign, TypeRedis
  <2>3. idle' \subseteq {x \in Entries : owner'[x] # Nobody}
    BY <1>0, <1>3, <2>1 DEF Assign, TypeRedis
  <2> QED
    BY <1>0, <1>3, <2>2, <2>3 DEF Assign, TypeRedis, AckedHaveOutcome, OnlyBadDeadLettered
<1>4. CASE /\ proc[c].pc = "deadletter" /\ deadLettered' = deadLettered \cup {e}
           /\ UNCHANGED <<groups, handed, owner, idle, acked, received>>
  <2>1. e \in Entries /\ e \in Rejected \cup Undecodable
    BY <1>4, CurrentFacts
  <2> HIDE DEF e
  <2> QED
    BY <1>0, <1>4, <2>1 DEF TypeRedis, AckedHaveOutcome, OnlyBadDeadLettered
<1>5. CASE /\ proc[c].pc = "ack" /\ owner' = [owner EXCEPT ![e] = Nobody] /\ idle' = idle \ {e}
           /\ acked' = acked \cup {e} /\ UNCHANGED <<groups, handed, deadLettered, received>>
  <2>1. e \in Entries /\ e \in received \cup deadLettered \cup Silent
    BY <1>5, CurrentFacts
  <2> HIDE DEF e
  <2> QED
    BY <1>0, <1>5, <2>1 DEF TypeRedis, AckedHaveOutcome, OnlyBadDeadLettered
<1>6. ASSUME NEW S \in SUBSET Entries, received' = received \cup S,
             UNCHANGED <<groups, handed, owner, idle, acked, deadLettered>>
      PROVE  TypeRedis' /\ AckedHaveOutcome' /\ OnlyBadDeadLettered'
  BY <1>0, <1>6 DEF TypeRedis, AckedHaveOutcome, OnlyBadDeadLettered
<1> QED
  BY <1>1, <1>2, <1>3, <1>4, <1>5, <1>6 DEF Effect

\* The first state.
LEMMA InitHolds == Init => IndInv
<1> SUFFICES ASSUME Init PROVE IndInv
  OBVIOUS
<1>1. BootLocal
  BY InitLocal
<1>2. proc = [c \in Consumers |-> Boot]
  BY DEF Init
<1>3. \A c \in Consumers : proc[c] = Boot
  BY <1>2
<1>4. proc \in [Consumers -> LocalState]
  BY <1>1, <1>2 DEF BootLocal
<1>5. \A c \in Consumers : Local(proc[c], received, deadLettered) /\ TypeBatch(proc[c])
  BY <1>1, <1>3 DEF BootLocal, Local, Sized
<1>6. TypeRedis /\ AckedHaveOutcome /\ OnlyBadDeadLettered
  <2>1. groups = {} /\ handed = {} /\ owner = [e \in Entries |-> Nobody] /\ idle = {}
        /\ acked = {} /\ deadLettered = {} /\ received = {}
    BY DEF Init
  <2>3. owner \in [Entries -> Consumers \cup {Nobody}]
    BY <2>1
  <2> QED
    BY <2>1, <2>3 DEF TypeRedis, AckedHaveOutcome, OnlyBadDeadLettered
<1>7. output \in Outputs /\ run \in Runs /\ mishaps \in 0..MaxMishaps
  BY MishapsAssumption DEF Init
<1> QED
  BY <1>4, <1>5, <1>6, <1>7 DEF IndInv, Sound, TypeOK, Locals

\* Every step.
LEMMA NextHolds == IndInv /\ [Next]_vars => IndInv'
<1> SUFFICES ASSUME IndInv, [Next]_vars PROVE IndInv'
  OBVIOUS
<1>0. Sound /\ TypeOK /\ Locals /\ AckedHaveOutcome /\ OnlyBadDeadLettered
  BY DEF IndInv, Sound
<1>1. ASSUME NEW c \in Consumers, Moves(c) PROVE IndInv'
  <2>1. proc' \in [Consumers -> LocalState] /\ Locals'
    BY <1>0, <1>1, MovesLocal
  <2>2. output' \in Outputs /\ run' \in Runs /\ mishaps' \in 0..MaxMishaps
    BY <1>0, <1>1, CountedMishaps DEF config, TypeOK
  <2>3. TypeRedis' /\ AckedHaveOutcome' /\ OnlyBadDeadLettered'
    BY <1>0, <1>1, Effects, EffectSound
  <2>4. \A d \in Consumers : TypeBatch(proc[d])'
    BY <2>1 DEF Locals, Local, Sized
  <2> QED
    BY <2>1, <2>2, <2>3, <2>4 DEF IndInv, Sound, TypeOK
<1>2. ASSUME NEW e \in Entries, BecomeIdle(e) PROVE IndInv'
  <2>1. UNCHANGED <<output, run, proc, groups, handed, owner, acked, deadLettered, received, mishaps>>
        /\ owner[e] # Nobody /\ idle' = idle \cup {e}
    BY <1>2 DEF BecomeIdle, config
  <2> QED
    BY <1>0, <2>1 DEF IndInv, Sound, TypeOK, TypeRedis, TypeBatch, AckedHaveOutcome, OnlyBadDeadLettered,
                      Locals
<1>3. CASE UNCHANGED vars
  BY <1>0, <1>3 DEF vars, IndInv, Sound, TypeOK, TypeRedis, TypeBatch, AckedHaveOutcome, OnlyBadDeadLettered,
                    Locals
<1> QED
  BY <1>1, <1>2, <1>3 DEF Next, Moves

\* IndInv is an invariant of the processes, Redis and the destination.
THEOREM Inductive == Spec => []IndInv
  BY InitHolds, NextHolds, PTL DEF Spec

\* Every reachable state is well typed; in particular a batch never grows past
\* what one round of reclaim_all() or read_new() through all the streams may add
\* to one that is not yet full.
THEOREM TypeCorrect == Spec => []TypeOK
<1>1. IndInv => TypeOK
  BY DEF IndInv, Sound
<1> QED
  BY <1>1, Inductive, PTL

\* "nothing is ACKed until delivery is confirmed (or the entry is confirmed
\* dead-lettered)": through crashes, restarts, reclaims by other processes, broken
\* connections and stops, an acknowledged entry is at the destination, in the
\* dead-letter stream, or had nothing to deliver.
THEOREM AckedHaveOutcomeCorrect == Spec => []AckedHaveOutcome
<1>1. IndInv => AckedHaveOutcome
  BY DEF IndInv
<1> QED
  BY <1>1, Inductive, PTL

\* send_range()'s bisection isolates the entries the destination rejects: a good
\* entry is never dead-lettered for its neighbours in the batch.
THEOREM OnlyBadDeadLetteredCorrect == Spec => []OnlyBadDeadLettered
<1>1. IndInv => OnlyBadDeadLettered
  BY DEF IndInv
<1> QED
  BY <1>1, Inductive, PTL

\* The ranges of send_range()'s recursion are disjoint, no item is settled twice,
\* and without a stop none is left out, however often a range is split.
THEOREM SentInPartsCorrect == Spec => []SentInParts
<1>1. IndInv => SentInParts
  BY DEF IndInv, Sound, SentInParts, Locals, Local, Parted, Part, Settled, Ranges
<1> QED
  BY <1>1, Inductive, PTL

=============================================================================
