---------------------------- MODULE DelayQueue -----------------------------
(***************************************************************************)
(* champsim::delay_queue over champsim::circular_buffer                    *)
(* (inc/delay_queue.hpp, inc/circular_buffer.hpp), used as the caches use  *)
(* it (src/cache.cc, add_rq, add_wq, add_pq): a packet of a CPU whose      *)
(* warmup is complete is delayed, any other is pushed ready; members are   *)
(* popped only behind has_ready(); operate() runs once per cycle.          *)
(*                                                                         *)
(* _buf and _delays are pushed and popped together, so one head_ and tail_ *)
(* serve both.  A counter that has reached 0 stays there: the code lets it *)
(* go negative and only asks whether it is positive.                       *)
(***************************************************************************)
EXTENDS Integers, Sequences

CONSTANTS
  Size,      \* members the queue can hold
  Latency,   \* cycles a delayed member waits
  Items,     \* what can be pushed
  Cpus,      \* CPUs that share the queue
  None       \* a slot never written

ASSUME QueueAssumption ==
  /\ Size \in Nat \ {0}
  /\ Latency \in Nat
  /\ None \notin Items

VARIABLES head_, tail_, entry_, delays, end_ready, warmup_complete

vars == <<head_, tail_, entry_, delays, end_ready, warmup_complete>>

N == Size + 1
Positions == 0 .. Size

(* Mutant: the last slot is skipped when a position wraps.                 *)
circ_inc_short(base, inc) ==
  LET s == base + inc
  IN  IF s < 0 THEN s + N ELSE IF s >= N - 1 THEN s - N ELSE s

(* A step of at most one lap, forward or backward.                         *)
circ_inc(base, inc) ==
  LET s == base + inc
  IN  IF s < 0 THEN s + N ELSE IF s >= N THEN s - N ELSE s

(* circular_buffer_iterator::operator-, as  i - j.                         *)
Difference(i, j) ==
  IF i < head_ /\ head_ <= j THEN N + (i - j)
  ELSE IF j < head_ /\ head_ <= i THEN N - (i - j)
  ELSE i - j

Less(i, j) == Difference(j, i) > 0
SameIterator(i, j) == ~ Less(i, j) /\ ~ Less(j, i)

occupancy == Difference(tail_, head_)
full      == occupancy = Size
has_ready == ~ SameIterator(head_, end_ready)

---------------------------------------------------------------------------
(* push_back when the packet's CPU has completed warmup, push_back_ready   *)
(* when it has not.                                                        *)
push_back(c, x) ==
  /\ ~ full
  /\ entry_' = [entry_ EXCEPT ![tail_] = x]
  /\ delays' = [delays EXCEPT ![tail_] = IF warmup_complete[c] THEN Latency ELSE 0]
  /\ tail_' = circ_inc(tail_, 1)
  /\ UNCHANGED <<head_, end_ready, warmup_complete>>

pop_front ==
  /\ has_ready
  /\ head_' = circ_inc(head_, 1)
  /\ UNCHANGED <<tail_, entry_, delays, end_ready, warmup_complete>>

Countdown(d) == IF d > 0 THEN d - 1 ELSE 0

InQueue(s) == Difference(s, head_) >= 0 /\ Difference(s, head_) < occupancy

CountedDown == [s \in Positions |-> IF InQueue(s) THEN Countdown(delays[s]) ELSE delays[s]]

(* Mutant: the partition ends where the members counted down last cycle.   *)
LateCountdown(d) == {n \in 0 .. occupancy :
     /\ n > 0 => delays[circ_inc(head_, n - 1)] = 0
     /\ n < occupancy => delays[circ_inc(head_, n)] > 0}
(* Mutant: the point is the first ready member, not the one past the last. *)
FirstReady(d) == {n \in 0 .. occupancy :
     /\ n > 0 => d[circ_inc(head_, n - 1)] > 0
     /\ n < occupancy => d[circ_inc(head_, n)] = 0}

(* Where std::partition_point may stop: it searches by halves, so it ends  *)
(* at a point with a ready member before it and a waiting one after it,    *)
(* whether or not the range is partitioned.                                *)
PartitionPoints(d) ==
  {n \in 0 .. occupancy :
     /\ n > 0 => d[circ_inc(head_, n - 1)] = 0
     /\ n < occupancy => d[circ_inc(head_, n)] > 0}

operate ==
  /\ delays' = CountedDown
  /\ \E n \in PartitionPoints(CountedDown) : end_ready' = circ_inc(head_, n)
  /\ UNCHANGED <<head_, tail_, entry_, warmup_complete>>

(* main.cc completes the warmup of a CPU, once.                            *)
CompleteWarmup(c) ==
  /\ ~ warmup_complete[c]
  /\ warmup_complete' = [warmup_complete EXCEPT ![c] = TRUE]
  /\ UNCHANGED <<head_, tail_, entry_, delays, end_ready>>

Init ==
  /\ head_ = 0 /\ tail_ = 0 /\ end_ready = 0
  /\ entry_ = [s \in Positions |-> None]
  /\ delays = [s \in Positions |-> 0]
  /\ warmup_complete = [c \in Cpus |-> FALSE]

Next ==
  \/ \E c \in Cpus, x \in Items : push_back(c, x)
  \/ pop_front
  \/ operate
  \/ \E c \in Cpus : CompleteWarmup(c)

Spec == Init /\ [][Next]_vars
FairSpec == Spec /\ WF_vars(operate)

---------------------------------------------------------------------------
(* Types of the variables.                                                 *)
TypeOK ==
  /\ head_ \in Positions /\ tail_ \in Positions /\ end_ready \in Positions
  /\ entry_ \in [Positions -> Items \cup {None}]
  /\ delays \in [Positions -> 0 .. Latency]
  /\ warmup_complete \in [Cpus -> BOOLEAN]

(* The queue as a sequence, and how many members has_ready() admits.       *)
Contents == [i \in 1 .. occupancy |->
               LET s == circ_inc(head_, i - 1)
               IN  [item |-> entry_[s], delay |-> delays[s]]]
ReadyCount == Difference(end_ready, head_)

(* The ring, its iterators and the saved end_ready implement the queue     *)
(* DelayFifo describes: order is kept, no member is lost or seen twice,    *)
(* and none is released before its delay is over.                          *)
Fifo == INSTANCE DelayFifo WITH q <- Contents, released <- ReadyCount
ImplementsDelayFifo == Fifo!Spec

(* A member at the front becomes ready, however pushes go on behind it.    *)
FrontReleased == occupancy > 0 ~> has_ready
=============================================================================
