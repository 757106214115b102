------------------------- MODULE DelayQueueProofs --------------------------
(***************************************************************************)
(* Theorems about delay_queue, for any size, latency and set of items:     *)
(* the iterators stay in range and in order for any number of CPUs, and    *)
(* with one CPU the queue implements DelayFifo.                            *)
(***************************************************************************)
EXTENDS DelayQueue, SequenceTheorems, TLAPS

(* How far x is past h around the ring, and the n members from h on.       *)
Ahead(h, x) == IF x < h THEN N + x - h ELSE x - h
Member == [item : Items \cup {None}, delay : 0 .. Latency]
MembersFrom(h, n, e, d) ==
  [i \in 1 .. n |-> LET s == circ_inc(h, i - 1) IN [item |-> e[s], delay |-> d[s]]]

(* end_ready() lies between begin() and end(), so has_ready() never admits *)
(* a slot that holds no member (delay_queue::pop_front, has_ready).        *)
ReadyWithinQueue == ReadyCount <= occupancy

(* What one CPU adds: delays do not decrease along the queue, and are all  *)
(* zero until its warmup is complete.                                      *)
DelayAt(n) == delays[circ_inc(head_, n)]
DelaysSorted ==
  \A i, j \in 0 .. Size : i <= j /\ j < occupancy => DelayAt(i) <= DelayAt(j)
ReadyBeforeWarmup ==
  \A c \in Cpus : ~ warmup_complete[c] =>
    \A i \in 0 .. Size : i < occupancy => DelayAt(i) = 0

RingInv == TypeOK /\ ReadyWithinQueue
FifoInv == RingInv /\ DelaysSorted /\ ReadyBeforeWarmup

---------------------------------------------------------------------------
(* circ_inc stays in the buffer, and n steps ahead is a distance of n.     *)
LEMMA CircInc ==
  ASSUME NEW h \in Positions, NEW n \in 0 .. N
  PROVE  /\ circ_inc(h, n) \in Positions
         /\ n <= Size => Ahead(h, circ_inc(h, n)) = n
BY QueueAssumption DEF circ_inc, Ahead, N, Positions

(* circ_inc by one and then by n is circ_inc by n + 1.                     *)
LEMMA CircIncTwice ==
  ASSUME NEW h \in Positions, NEW n \in 0 .. Size
  PROVE  circ_inc(circ_inc(h, 1), n) = circ_inc(h, n + 1)
BY QueueAssumption DEF circ_inc, N, Positions

(* The distance ahead is a position, and circ_inc undoes it.               *)
LEMMA AheadType ==
  ASSUME NEW h \in Positions, NEW x \in Positions
  PROVE  /\ Ahead(h, x) \in 0 .. Size
         /\ circ_inc(h, Ahead(h, x)) = x
         /\ Ahead(h, x) < Size => Ahead(h, circ_inc(x, 1)) = Ahead(h, x) + 1
         /\ Ahead(h, x) > 0 => Ahead(circ_inc(h, 1), x) = Ahead(h, x) - 1
BY QueueAssumption DEF circ_inc, Ahead, N, Positions

(* occupancy(), has_ready() and end_ready() in terms of the ring.          *)
LEMMA Distances ==
  ASSUME TypeOK
  PROVE  /\ \A x \in Positions : Difference(x, head_) = Ahead(head_, x)
         /\ occupancy = Ahead(head_, tail_)
         /\ ReadyCount = Ahead(head_, end_ready)
         /\ occupancy \in 0 .. Size /\ ReadyCount \in 0 .. Size
         /\ has_ready <=> ReadyCount > 0
<1>1. \A x \in Positions : Difference(x, head_) = Ahead(head_, x)
  BY QueueAssumption DEF TypeOK, Difference, Ahead, N, Positions
<1>2. has_ready <=> Difference(end_ready, head_) > 0
  BY QueueAssumption DEF TypeOK, has_ready, SameIterator, Less, Difference, N, Positions
<1> QED
  BY <1>1, <1>2, AheadType DEF TypeOK, occupancy, ReadyCount

(* The same for the state after a step.                                    *)
LEMMA DistancesNext ==
  ASSUME TypeOK'
  PROVE  /\ occupancy' = Ahead(head_', tail_')
         /\ ReadyCount' = Ahead(head_', end_ready')
         /\ occupancy' \in 0 .. Size /\ ReadyCount' \in 0 .. Size
<1>1. \A x \in Positions : Difference(x, head_)' = Ahead(head_', x)
  BY QueueAssumption DEF TypeOK, Difference, Ahead, N, Positions
<1> QED
  BY <1>1, QueueAssumption, AheadType
     DEF TypeOK, occupancy, ReadyCount, Difference, Ahead, N, Positions

---------------------------------------------------------------------------
(* One step of the queue keeps its ring in order.                          *)
LEMMA RingStep ==
  ASSUME RingInv, [Next]_vars
  PROVE  RingInv'
<1> USE DEF RingInv
<1>1. CASE \E c \in Cpus, x \in Items : push_back(c, x)
  <2>1. PICK c \in Cpus, x \in Items : push_back(c, x)
    BY <1>1
  <2>2. circ_inc(tail_, 1) \in Positions
    BY CircInc, QueueAssumption DEF TypeOK, N
  <2>3. (IF warmup_complete[c] THEN Latency ELSE 0) \in 0 .. Latency
    BY QueueAssumption
  <2>4. TypeOK'
    BY <2>1, <2>2, <2>3 DEF TypeOK, push_back
  <2>5. occupancy # Size
    BY <2>1 DEF push_back, full
  <2>6. Ahead(head_, tail_') = Ahead(head_, tail_) + 1
    BY <2>1, <2>5, Distances, AheadType, QueueAssumption DEF TypeOK, push_back
  <2> QED
    BY <2>1, <2>4, <2>6, Distances, DistancesNext DEF ReadyWithinQueue, push_back
<1>2. CASE pop_front
  <2>1. circ_inc(head_, 1) \in Positions
    BY CircInc, QueueAssumption DEF TypeOK, N
  <2>2. TypeOK'
    BY <1>2, <2>1 DEF TypeOK, pop_front
  <2>3. Ahead(head_, end_ready) > 0 /\ Ahead(head_, tail_) > 0
    BY <1>2, Distances DEF pop_front, ReadyWithinQueue
  <2>4. /\ Ahead(head_', end_ready) = Ahead(head_, end_ready) - 1
        /\ Ahead(head_', tail_) = Ahead(head_, tail_) - 1
    BY <1>2, <2>3, AheadType DEF TypeOK, pop_front
  <2> QED
    BY <1>2, <2>2, <2>4, Distances, DistancesNext DEF ReadyWithinQueue, pop_front, TypeOK
<1>3. CASE operate
  <2>1. PICK n \in 0 .. occupancy : end_ready' = circ_inc(head_, n)
    BY <1>3 DEF operate, PartitionPoints
  <2>2. n \in 0 .. Size
    <3>1. occupancy \in 0 .. Size
      BY Distances
    <3> QED
      BY <3>1, QueueAssumption
  <2>3. /\ end_ready' \in Positions
        /\ Ahead(head_, end_ready') = n
    BY <2>1, <2>2, CircInc, QueueAssumption DEF TypeOK, N
  <2>4. \A s \in Positions : Countdown(delays[s]) \in 0 .. Latency
    BY QueueAssumption DEF TypeOK, Countdown
  <2>5. TypeOK'
    BY <1>3, <2>3, <2>4 DEF TypeOK, operate, CountedDown
  <2> QED
    BY <1>3, <2>1, <2>3, <2>5, Distances, DistancesNext DEF ReadyWithinQueue, operate
<1>4. CASE \E c \in Cpus : CompleteWarmup(c)
  <2>1. TypeOK'
    BY <1>4 DEF TypeOK, CompleteWarmup
  <2> QED
    BY <1>4, <2>1, Distances, DistancesNext DEF ReadyWithinQueue, CompleteWarmup
<1>5. CASE UNCHANGED vars
  BY <1>5 DEF vars, TypeOK, ReadyWithinQueue, ReadyCount, occupancy, Difference
<1> QED
  BY <1>1, <1>2, <1>3, <1>4, <1>5 DEF Next

(* The constructor leaves an empty ring in order.                          *)
LEMMA RingInit ==
  ASSUME Init
  PROVE  RingInv
<1>1. TypeOK
  BY QueueAssumption DEF Init, TypeOK, Positions
<1> QED
  BY <1>1 DEF Init, RingInv, ReadyWithinQueue, ReadyCount, occupancy, Difference

(* The indices, iterators and counters of delay_queue keep their types,    *)
(* whatever CPUs share the queue.                                          *)
THEOREM TypeCorrect == Spec => []TypeOK
<1>1. RingInv => TypeOK
  BY DEF RingInv
<1> QED
  BY <1>1, RingInit, RingStep, PTL DEF Spec

(* end_ready() stays between begin() and end() although push_back,         *)
(* pop_front and operate move the three independently.                     *)
THEOREM ReadyInRange == Spec => []ReadyWithinQueue
<1>1. RingInv => ReadyWithinQueue
  BY DEF RingInv
<1> QED
  BY <1>1, RingInit, RingStep, PTL DEF Spec
---------------------------------------------------------------------------
(* Abbreviations for the refinement: one CPU, as in the shipped            *)
(* single-core configuration.                                              *)
OneCpu == \A c, d \in Cpus : c = d

(* The members of the queue are a sequence of its length.                  *)
LEMMA MembersType ==
  ASSUME NEW h \in Positions, NEW n \in 0 .. Size,
         NEW e \in [Positions -> Items \cup {None}],
         NEW d \in [Positions -> 0 .. Latency]
  PROVE  /\ MembersFrom(h, n, e, d) \in Seq(Member)
         /\ Len(MembersFrom(h, n, e, d)) = n
         /\ \A i \in 1 .. n :
              MembersFrom(h, n, e, d)[i] =
                [item |-> e[circ_inc(h, i - 1)], delay |-> d[circ_inc(h, i - 1)]]
<1> DEFINE m(i) == [item |-> e[circ_inc(h, i - 1)], delay |-> d[circ_inc(h, i - 1)]]
<1>1. n \in Nat
  BY QueueAssumption
<1>2. \A i \in 1 .. n : circ_inc(h, i - 1) \in Positions
  BY CircInc, QueueAssumption DEF N
<1>3. \A i \in 1 .. n : m(i) \in Member
  BY <1>2 DEF Member
<1>4. MembersFrom(h, n, e, d) = [i \in 1 .. n |-> m(i)]
  BY DEF MembersFrom
<1> HIDE DEF m
<1>5. [i \in 1 .. n |-> m(i)] \in Seq(Member)
  BY <1>1, <1>3, IsASeq
<1>6. Len([i \in 1 .. n |-> m(i)]) = n
  BY <1>1
<1> QED
  BY <1>4, <1>5, <1>6 DEF m

(* Contents is the members from head_ on.                                  *)
LEMMA ContentsIs ==
  ASSUME TypeOK
  PROVE  Contents = MembersFrom(head_, occupancy, entry_, delays)
BY DEF Contents, MembersFrom

(* The same for Contents after a step.                                     *)
LEMMA ContentsNext ==
  ASSUME TypeOK'
  PROVE  Contents' = MembersFrom(head_', occupancy', entry_', delays')
BY DEF Contents, MembersFrom

---------------------------------------------------------------------------
(* push_back keeps every member and adds one behind them.                  *)
LEMMA PushMembers ==
  ASSUME RingInv, NEW c \in Cpus, NEW x \in Items, push_back(c, x)
  PROVE  /\ occupancy < Size /\ occupancy' = occupancy + 1 /\ ReadyCount' = ReadyCount
         /\ \A n \in 0 .. Size : n < occupancy =>
              /\ delays'[circ_inc(head_, n)] = delays[circ_inc(head_, n)]
              /\ entry_'[circ_inc(head_, n)] = entry_[circ_inc(head_, n)]
         /\ delays'[circ_inc(head_, occupancy)]
              = IF warmup_complete[c] THEN Latency ELSE 0
         /\ entry_'[circ_inc(head_, occupancy)] = x
<1>1. TypeOK /\ TypeOK' /\ head_' = head_ /\ end_ready' = end_ready
  BY RingStep DEF RingInv, Next, push_back
<1>2. occupancy \in 0 .. Size /\ occupancy # Size /\ occupancy = Ahead(head_, tail_)
  BY <1>1, Distances DEF push_back, full
<1>3. Ahead(head_, tail_') = Ahead(head_, tail_) + 1
  BY <1>1, <1>2, AheadType, QueueAssumption DEF TypeOK, push_back
<1>4. occupancy' = occupancy + 1 /\ ReadyCount' = ReadyCount
  BY <1>1, <1>2, <1>3, Distances, DistancesNext
<1>5. circ_inc(head_, occupancy) = tail_
  BY <1>1, <1>2, AheadType DEF TypeOK
<1>6. \A n \in 0 .. Size : n < occupancy => circ_inc(head_, n) # tail_
  BY <1>1, <1>2, CircInc, QueueAssumption DEF TypeOK, N
<1>7. \A n \in 0 .. Size : circ_inc(head_, n) \in Positions
  BY <1>1, CircInc, QueueAssumption DEF TypeOK, N
<1>8. occupancy < Size
  BY <1>2, QueueAssumption
<1> QED
  BY <1>1, <1>4, <1>5, <1>6, <1>7, <1>8 DEF TypeOK, push_back

(* pop_front moves every member one place to the front.                    *)
LEMMA PopMembers ==
  ASSUME RingInv, pop_front
  PROVE  /\ occupancy > 0 /\ occupancy' = occupancy - 1
         /\ ReadyCount > 0 /\ ReadyCount' = ReadyCount - 1
         /\ \A n \in 0 .. Size : circ_inc(head_', n) = circ_inc(head_, n + 1)
<1>1. TypeOK /\ TypeOK' /\ tail_' = tail_ /\ end_ready' = end_ready
      /\ head_' = circ_inc(head_, 1)
  BY RingStep DEF RingInv, Next, pop_front
<1>2. Ahead(head_, end_ready) > 0 /\ Ahead(head_, tail_) > 0
  BY <1>1, Distances DEF pop_front, RingInv, ReadyWithinQueue
<1>3. /\ Ahead(head_', end_ready) = Ahead(head_, end_ready) - 1
      /\ Ahead(head_', tail_) = Ahead(head_, tail_) - 1
  BY <1>1, <1>2, AheadType DEF TypeOK
<1>4. \A n \in 0 .. Size : circ_inc(head_', n) = circ_inc(head_, n + 1)
  BY <1>1, CircIncTwice DEF TypeOK
<1> QED
  BY <1>1, <1>2, <1>3, <1>4, Distances, DistancesNext

(* operate counts every member down and moves none.                        *)
LEMMA TickMembers ==
  ASSUME RingInv, operate
  PROVE  /\ occupancy' = occupancy
         /\ \A n \in 0 .. Size : n < occupancy =>
              delays'[circ_inc(head_, n)] = Countdown(delays[circ_inc(head_, n)])
         /\ ReadyCount' \in PartitionPoints(delays')
<1>1. TypeOK /\ TypeOK' /\ tail_' = tail_ /\ head_' = head_
  BY RingStep DEF RingInv, Next, operate
<1>2. occupancy' = occupancy
  BY <1>1, Distances, DistancesNext
<1>3. \A n \in 0 .. Size :
        circ_inc(head_, n) \in Positions /\ Ahead(head_, circ_inc(head_, n)) = n
  BY <1>1, CircInc, QueueAssumption DEF TypeOK, N
<1>4. \A n \in 0 .. Size : n < occupancy => InQueue(circ_inc(head_, n))
  BY <1>1, <1>3, Distances DEF InQueue
<1>5. \A n \in 0 .. Size : n < occupancy =>
        delays'[circ_inc(head_, n)] = Countdown(delays[circ_inc(head_, n)])
  BY <1>3, <1>4 DEF operate, CountedDown
<1>6. PICK n \in PartitionPoints(delays') : end_ready' = circ_inc(head_, n)
  BY DEF operate
<1>7. n \in 0 .. Size
  <2>1. occupancy \in 0 .. Size
    BY <1>1, Distances
  <2> QED
    BY <1>6, <2>1, QueueAssumption DEF PartitionPoints
<1>8. ReadyCount' = n
  BY <1>1, <1>3, <1>6, <1>7, DistancesNext
<1> QED
  BY <1>2, <1>5, <1>6, <1>8

---------------------------------------------------------------------------
(* With one CPU, delays stay sorted along the queue.                       *)
LEMMA FifoStep ==
  ASSUME OneCpu, FifoInv, [Next]_vars
  PROVE  FifoInv'
<1>1. RingInv /\ RingInv' /\ TypeOK /\ TypeOK'
  BY RingStep DEF FifoInv, RingInv
<1>2. occupancy \in 0 .. Size /\ occupancy' \in 0 .. Size
  BY <1>1, Distances, DistancesNext
<1>3. \A n \in 0 .. Size : DelayAt(n) \in 0 .. Latency
  BY <1>1, CircInc, QueueAssumption DEF TypeOK, DelayAt, N
<1>4. CASE \E c \in Cpus, x \in Items : push_back(c, x)
  <2>1. PICK c \in Cpus, x \in Items : push_back(c, x)
    BY <1>4
  <2>2. head_' = head_ /\ warmup_complete' = warmup_complete /\ occupancy' = occupancy + 1
    BY <1>1, <2>1, PushMembers DEF push_back
  <2>3. \A n \in 0 .. Size : n < occupancy => DelayAt(n)' = DelayAt(n)
    BY <1>1, <2>1, <2>2, PushMembers DEF DelayAt
  <2>4. \A n \in 0 .. Size : n = occupancy =>
          DelayAt(n)' = IF warmup_complete[c] THEN Latency ELSE 0
    BY <1>1, <2>1, <2>2, PushMembers DEF DelayAt
  <2>5. CASE warmup_complete[c]
    <3>1. DelaysSorted'
      <4> SUFFICES ASSUME NEW i \in 0 .. Size, NEW j \in 0 .. Size,
                          i <= j, j < occupancy'
                   PROVE  DelayAt(i)' <= DelayAt(j)'
        BY DEF DelaysSorted
      <4>1. DelayAt(i) \in 0 .. Latency /\ DelayAt(j) \in 0 .. Latency
        BY <1>3
      <4>2. CASE j < occupancy
        BY <1>2, <2>3, <4>2, QueueAssumption DEF DelaysSorted, FifoInv
      <4>3. CASE j = occupancy
        BY <1>2, <2>3, <2>4, <2>5, <4>1, <4>3, QueueAssumption
      <4> QED
        BY <1>2, <2>2, <4>2, <4>3
    <3>2. ReadyBeforeWarmup'
      BY <2>1, <2>2, <2>5 DEF OneCpu, ReadyBeforeWarmup
    <3> QED
      BY <1>1, <3>1, <3>2 DEF FifoInv
  <2>6. CASE ~ warmup_complete[c]
    <3>1. \A n \in 0 .. Size : n < occupancy' => DelayAt(n)' = 0
      <4>1. \A n \in 0 .. Size : n < occupancy => DelayAt(n) = 0
        BY <2>1, <2>6 DEF ReadyBeforeWarmup, FifoInv
      <4> QED
        BY <1>2, <2>2, <2>3, <2>4, <2>6, <4>1, QueueAssumption
    <3> QED
      BY <1>1, <1>2, <3>1, QueueAssumption DEF FifoInv, DelaysSorted, ReadyBeforeWarmup
  <2> QED
    BY <2>5, <2>6
<1>5. CASE pop_front
  <2>1. occupancy' = occupancy - 1 /\ occupancy > 0 /\ warmup_complete' = warmup_complete
    BY <1>1, <1>5, PopMembers DEF pop_front
  <2>2. \A n \in 0 .. Size : DelayAt(n)' = DelayAt(n + 1)
    BY <1>1, <1>5, PopMembers DEF DelayAt, pop_front
  <2>3. DelaysSorted'
    BY <1>2, <2>1, <2>2, QueueAssumption DEF DelaysSorted, FifoInv
  <2>4. ReadyBeforeWarmup'
    BY <1>2, <2>1, <2>2, QueueAssumption DEF ReadyBeforeWarmup, FifoInv
  <2> QED
    BY <1>1, <2>3, <2>4 DEF FifoInv
<1>6. CASE operate
  <2>1. occupancy' = occupancy /\ head_' = head_ /\ warmup_complete' = warmup_complete
    BY <1>1, <1>6, TickMembers DEF operate
  <2>2. \A n \in 0 .. Size : n < occupancy => DelayAt(n)' = Countdown(DelayAt(n))
    BY <1>1, <1>6, <2>1, TickMembers DEF DelayAt
  <2>3. DelaysSorted'
    BY <1>2, <1>3, <2>1, <2>2, QueueAssumption DEF DelaysSorted, FifoInv, Countdown
  <2>4. ReadyBeforeWarmup'
    BY <1>2, <1>3, <2>1, <2>2, QueueAssumption DEF ReadyBeforeWarmup, FifoInv, Countdown
  <2> QED
    BY <1>1, <2>3, <2>4 DEF FifoInv
<1>7. CASE \E c \in Cpus : CompleteWarmup(c)
  <2>1. PICK c \in Cpus : CompleteWarmup(c)
    BY <1>7
  <2>2. occupancy' = occupancy /\ \A n \in 0 .. Size : DelayAt(n)' = DelayAt(n)
    BY <1>1, <2>1, Distances, DistancesNext DEF CompleteWarmup, DelayAt
  <2>3. DelaysSorted'
    BY <2>2 DEF DelaysSorted, FifoInv
  <2>4. ReadyBeforeWarmup'
    BY <2>1, <2>2 DEF ReadyBeforeWarmup, CompleteWarmup, TypeOK, OneCpu, FifoInv, RingInv
  <2> QED
    BY <1>1, <2>3, <2>4 DEF FifoInv
<1>8. CASE UNCHANGED vars
  <2>1. occupancy' = occupancy /\ \A n \in 0 .. Size : DelayAt(n)' = DelayAt(n)
    BY <1>1, <1>8, Distances, DistancesNext DEF vars, DelayAt
  <2> QED
    BY <1>1, <1>8, <2>1 DEF vars, FifoInv, DelaysSorted, ReadyBeforeWarmup
<1> QED
  BY <1>4, <1>5, <1>6, <1>7, <1>8 DEF Next

---------------------------------------------------------------------------
(* Each operation maps to a step of DelayFifo.                             *)

(* A push_back is a Push of DelayFifo, with the delay its CPU gives it.    *)
LEMMA PushRefines ==
  ASSUME RingInv, NEW c \in Cpus, NEW x \in Items, push_back(c, x)
  PROVE  Fifo!Next
<1> DEFINE d == IF warmup_complete[c] THEN Latency ELSE 0
           m == [item |-> x, delay |-> d]
<1>1. TypeOK /\ TypeOK' /\ head_' = head_
  BY RingStep DEF RingInv, Next, push_back
<1>2. occupancy \in 0 .. Size /\ occupancy' \in 0 .. Size
  BY <1>1, Distances, DistancesNext
<1>3. /\ Contents \in Seq(Member) /\ Len(Contents) = occupancy
      /\ \A i \in 1 .. occupancy : Contents[i] =
           [item |-> entry_[circ_inc(head_, i - 1)], delay |-> delays[circ_inc(head_, i - 1)]]
  <2>1. head_ \in Positions /\ entry_ \in [Positions -> Items \cup {None}]
        /\ delays \in [Positions -> 0 .. Latency]
    BY <1>1 DEF TypeOK
  <2> QED
    BY <1>1, <1>2, <2>1, ContentsIs, MembersType
<1>4. /\ Contents' \in Seq(Member) /\ Len(Contents') = occupancy'
      /\ \A i \in 1 .. occupancy' : Contents'[i] =
           [item |-> entry_'[circ_inc(head_, i - 1)],
            delay |-> delays'[circ_inc(head_, i - 1)]]
  <2>1. head_' \in Positions /\ entry_' \in [Positions -> Items \cup {None}]
        /\ delays' \in [Positions -> 0 .. Latency]
    BY <1>1 DEF TypeOK
  <2>2. Contents' = MembersFrom(head_', occupancy', entry_', delays')
    BY <1>1, ContentsNext
  <2> QED
    BY <1>1, <1>2, <2>1, <2>2, MembersType
<1>5. /\ occupancy < Size /\ occupancy' = occupancy + 1 /\ ReadyCount' = ReadyCount
      /\ \A n \in 0 .. Size : n < occupancy =>
           /\ delays'[circ_inc(head_, n)] = delays[circ_inc(head_, n)]
           /\ entry_'[circ_inc(head_, n)] = entry_[circ_inc(head_, n)]
      /\ delays'[circ_inc(head_, occupancy)] = d
      /\ entry_'[circ_inc(head_, occupancy)] = x
  BY PushMembers
<1>6. d \in {0, Latency} /\ m \in Member
  BY QueueAssumption DEF Member
<1> HIDE DEF d
<1>7. /\ Append(Contents, m) \in Seq(Member)
      /\ Len(Append(Contents, m)) = Len(Contents) + 1
      /\ \A i \in 1 .. Len(Contents) : Append(Contents, m)[i] = Contents[i]
      /\ Append(Contents, m)[Len(Contents) + 1] = m
  BY <1>3, <1>6, AppendProperties
<1>8. \A i \in 1 .. Len(Contents') : Contents'[i] = Append(Contents, m)[i]
  <2> SUFFICES ASSUME NEW i \in 1 .. occupancy'
               PROVE  Contents'[i] = Append(Contents, m)[i]
    BY <1>4
  <2>1. CASE i <= occupancy
    <3>1. i \in 1 .. occupancy /\ i - 1 \in 0 .. Size /\ i - 1 < occupancy
      BY <1>2, <2>1, QueueAssumption
    <3> QED
      BY <1>3, <1>4, <1>5, <1>7, <3>1
  <2>2. CASE i = occupancy + 1
    BY <1>2, <1>3, <1>4, <1>5, <1>7, <2>2
  <2> QED
    <3>1. i <= occupancy \/ i = occupancy + 1
      <4>1. occupancy \in Int /\ i \in 1 .. occupancy + 1
        BY <1>2, <1>5
      <4> QED
        BY <4>1
    <3> QED
      BY <2>1, <2>2, <3>1
<1>9. Contents' = Append(Contents, m)
  BY <1>3, <1>4, <1>5, <1>7, <1>8, SeqEqual
<1> QED
  BY <1>3, <1>5, <1>6, <1>9 DEF Fifo!Next, Fifo!Push

(* A pop_front behind has_ready() is a Pop of DelayFifo.                   *)
LEMMA PopRefines ==
  ASSUME RingInv, pop_front
  PROVE  Fifo!Next
<1>1. TypeOK /\ TypeOK' /\ entry_' = entry_ /\ delays' = delays
  BY RingStep DEF RingInv, Next, pop_front
<1>2. occupancy \in 0 .. Size /\ occupancy' \in 0 .. Size
  BY <1>1, Distances, DistancesNext
<1>3. /\ Contents \in Seq(Member) /\ Len(Contents) = occupancy
      /\ \A i \in 1 .. occupancy : Contents[i] =
           [item |-> entry_[circ_inc(head_, i - 1)], delay |-> delays[circ_inc(head_, i - 1)]]
  BY <1>1, <1>2, ContentsIs, MembersType DEF TypeOK
<1>4. /\ Contents' \in Seq(Member) /\ Len(Contents') = occupancy'
      /\ \A i \in 1 .. occupancy' : Contents'[i] =
           [item |-> entry_[circ_inc(head_', i - 1)],
            delay |-> delays[circ_inc(head_', i - 1)]]
  BY <1>1, <1>2, ContentsNext, MembersType DEF TypeOK
<1>5. /\ occupancy > 0 /\ occupancy' = occupancy - 1
      /\ ReadyCount > 0 /\ ReadyCount' = ReadyCount - 1
      /\ \A n \in 0 .. Size : circ_inc(head_', n) = circ_inc(head_, n + 1)
  BY PopMembers
<1>6. Contents # << >>
  BY <1>3, <1>5, EmptySeq
<1>7. /\ Tail(Contents) \in Seq(Member)
      /\ Len(Tail(Contents)) = Len(Contents) - 1
      /\ \A i \in 1 .. Len(Tail(Contents)) : Tail(Contents)[i] = Contents[i + 1]
  BY <1>3, <1>6, HeadTailProperties
<1>8. \A i \in 1 .. Len(Contents') : Contents'[i] = Tail(Contents)[i]
  <2> SUFFICES ASSUME NEW i \in 1 .. occupancy'
               PROVE  Contents'[i] = Tail(Contents)[i]
    BY <1>4
  <2>1. i - 1 \in 0 .. Size /\ i + 1 \in 1 .. occupancy /\ (i - 1) + 1 = (i + 1) - 1
    BY <1>2, <1>5, QueueAssumption
  <2> QED
    BY <1>3, <1>4, <1>5, <1>7, <2>1
<1>9. Contents' = Tail(Contents)
  BY <1>3, <1>4, <1>5, <1>7, <1>8, SeqEqual
<1> QED
  BY <1>5, <1>9 DEF Fifo!Next, Fifo!Pop

(* An operate is a Tick of DelayFifo: end_ready() is the first member that *)
(* still waits.                                                            *)
LEMMA TickRefines ==
  ASSUME OneCpu, FifoInv, operate
  PROVE  Fifo!Next
<1>1. RingInv /\ FifoInv' /\ TypeOK /\ TypeOK' /\ entry_' = entry_ /\ head_' = head_
  BY FifoStep DEF FifoInv, RingInv, Next, operate
<1>2. occupancy \in 0 .. Size
  BY <1>1, Distances
<1>3. /\ occupancy' = occupancy
      /\ \A n \in 0 .. Size : n < occupancy =>
           delays'[circ_inc(head_, n)] = Countdown(delays[circ_inc(head_, n)])
      /\ ReadyCount' \in PartitionPoints(delays')
  BY <1>1, TickMembers
<1>4. /\ Contents \in Seq(Member) /\ Len(Contents) = occupancy
      /\ DOMAIN Contents = 1 .. occupancy
      /\ \A i \in 1 .. occupancy : Contents[i] =
           [item |-> entry_[circ_inc(head_, i - 1)], delay |-> delays[circ_inc(head_, i - 1)]]
  BY <1>1, <1>2, ContentsIs, MembersType DEF TypeOK
<1>5. /\ DOMAIN Contents' = 1 .. occupancy
      /\ \A i \in 1 .. occupancy : Contents'[i] =
           [item |-> entry_[circ_inc(head_, i - 1)],
            delay |-> delays'[circ_inc(head_, i - 1)]]
  BY <1>1, <1>2, <1>3, ContentsNext, MembersType DEF TypeOK
<1>6. \A i \in 1 .. occupancy :
        Contents'[i] = [Contents[i] EXCEPT !.delay = Fifo!Countdown(@)]
  <2> SUFFICES ASSUME NEW i \in 1 .. occupancy
               PROVE  Contents'[i] = [Contents[i] EXCEPT !.delay = Fifo!Countdown(@)]
    OBVIOUS
  <2>1. i - 1 \in 0 .. Size /\ i - 1 < occupancy
    BY <1>2, QueueAssumption
  <2>2. delays'[circ_inc(head_, i - 1)] = Countdown(delays[circ_inc(head_, i - 1)])
    BY <1>3, <2>1
  <2> QED
    BY <1>4, <1>5, <2>2 DEF Countdown, Fifo!Countdown
<1>7. Contents' = [i \in DOMAIN Contents |-> [Contents[i] EXCEPT !.delay = Fifo!Countdown(@)]]
  <2>1. Contents' = [i \in 1 .. occupancy |-> Contents'[i]]
    BY <1>3 DEF Contents
  <2> QED
    BY <1>4, <1>6, <2>1
<1>8. PICK r \in 0 .. occupancy :
        /\ ReadyCount' = r
        /\ r > 0 => delays'[circ_inc(head_, r - 1)] = 0
        /\ r < occupancy => delays'[circ_inc(head_, r)] > 0
  BY <1>3 DEF PartitionPoints
<1>9. \A i \in DOMAIN Contents : i <= r => Contents'[i].delay = 0
  <2> SUFFICES ASSUME NEW i \in 1 .. occupancy, i <= r
               PROVE  delays'[circ_inc(head_, i - 1)] = 0
    BY <1>4, <1>5
  <2>1. /\ i - 1 \in 0 .. Size /\ r - 1 \in 0 .. Size
        /\ i - 1 <= r - 1 /\ r - 1 < occupancy' /\ r > 0
    BY <1>2, <1>3, QueueAssumption
  <2>2. DelayAt(i - 1)' <= DelayAt(r - 1)'
    BY <1>1, <2>1 DEF FifoInv, DelaysSorted
  <2>3. delays'[circ_inc(head_, i - 1)] \in 0 .. Latency
    BY <1>1, <2>1, CircInc, QueueAssumption DEF TypeOK, N
  <2> QED
    BY <1>1, <1>8, <2>1, <2>2, <2>3, QueueAssumption DEF DelayAt
<1>10. r < Len(Contents) => Contents'[r + 1].delay > 0
  <2> SUFFICES ASSUME r < occupancy
               PROVE  Contents'[r + 1].delay > 0
    BY <1>4
  <2>1. r + 1 \in 1 .. occupancy /\ (r + 1) - 1 = r
    BY <1>2
  <2> QED
    BY <1>5, <1>8, <2>1
<1> QED
  BY <1>4, <1>7, <1>8, <1>9, <1>10 DEF Fifo!Next, Fifo!Tick

(* Completing a warmup, and a step that changes nothing, leave the queue   *)
(* as it is.                                                               *)
LEMMA OtherRefines ==
  ASSUME UNCHANGED <<head_, tail_, entry_, delays, end_ready>>
  PROVE  UNCHANGED <<Contents, ReadyCount>>
BY DEF Contents, ReadyCount, occupancy, Difference, circ_inc

(* With one CPU, the delay_queue built from a circular_buffer, its         *)
(* iterators and a saved end_ready() implements DelayFifo: members come    *)
(* out in order, none is lost, and none before its delay is over.          *)
THEOREM FifoRefinement ==
  ASSUME OneCpu
  PROVE  Spec => ImplementsDelayFifo
<1>1. Init => FifoInv
  <2> SUFFICES ASSUME Init PROVE FifoInv
    OBVIOUS
  <2>1. RingInv /\ occupancy = 0
    BY RingInit DEF Init, occupancy, Difference
  <2> QED
    BY <2>1, QueueAssumption DEF FifoInv, DelaysSorted, ReadyBeforeWarmup
<1>2. Init => Fifo!Init
  <2> SUFFICES ASSUME Init PROVE Fifo!Init
    OBVIOUS
  <2>1. TypeOK /\ occupancy = 0 /\ ReadyCount = 0
    BY RingInit DEF RingInv, Init, occupancy, ReadyCount, Difference
  <2>2. Contents \in Seq(Member) /\ Len(Contents) = 0
    BY <2>1, ContentsIs, MembersType, QueueAssumption DEF TypeOK
  <2> QED
    BY <2>1, <2>2, EmptySeq DEF Fifo!Init
<1>3. FifoInv /\ [Next]_vars => FifoInv'
  BY FifoStep
<1>4. FifoInv /\ [Next]_vars => [Fifo!Next]_<<Contents, ReadyCount>>
  BY PushRefines, PopRefines, TickRefines, OtherRefines
     DEF FifoInv, Next, vars, CompleteWarmup
<1> QED
  BY <1>1, <1>2, <1>3, <1>4, PTL DEF Spec, ImplementsDelayFifo, Fifo!Spec
=============================================================================
