------------------------------- MODULE O3Cpu -------------------------------
(* The back end of O3_CPU (ooo_cpu.cc): reorder buffer, scheduler, load and *)
(* store queues.  The front end is one action that hands over the next      *)
(* instruction of the program; the DTLB and the L1D accept requests while   *)
(* they have room and answer them in any order.                             *)
(*                                                                          *)
(* An instruction makes at most one access, which is what the reader of     *)
(* QEMU traces gives it, and is known by its place in the program.  The     *)
(* loops of the code go through the reorder buffer in that order; where no  *)
(* round of a loop depends on another it is written as one set.             *)
EXTENDS Integers, Sequences, FiniteSets, SequencesExt, FiniteSetsExt

CONSTANTS Programs,   \* sequences of [load, store, src, dst]; no access is 0
          ROB_SIZE, LQ_SIZE, SQ_SIZE,
          DISPATCH_WIDTH, SCHEDULER_SIZE, EXEC_WIDTH, LQ_WIDTH, SQ_WIDTH, RETIRE_WIDTH,
          EXEC_LATENCY,
          MAX_READ,            \* answers looked at in a cycle, of either bus
          DTLB_SIZE, L1D_RQ_SIZE, L1D_WQ_SIZE   \* room in the levels below

Widths == {ROB_SIZE, LQ_SIZE, SQ_SIZE, DISPATCH_WIDTH, SCHEDULER_SIZE, EXEC_WIDTH, LQ_WIDTH,
           SQ_WIDTH, RETIRE_WIDTH, MAX_READ, DTLB_SIZE, L1D_RQ_SIZE, L1D_WQ_SIZE}
ASSUME CpuWidths == Widths \subseteq Nat \ {0} /\ EXEC_LATENCY \in Nat
ASSUME CpuPrograms ==
  \A p \in Programs :
     /\ Len(p) \in Nat /\ DOMAIN p = 1 .. Len(p)
     /\ \A i \in DOMAIN p :
          p[i].load \in Nat /\ p[i].store \in Nat /\ (p[i].load = 0 \/ p[i].store = 0)

VARIABLES program, cpu

vars == <<program, cpu>>

LQSlots == 1 .. LQ_SIZE
SQSlots == 1 .. SQ_SIZE
Ids         == DOMAIN program
Rob(c)      == c.head .. c.tail - 1
IsLoad(i)   == program[i].load # 0
IsStore(i)  == program[i].store # 0
IsMemory(i) == IsLoad(i) \/ IsStore(i)

NoLoad  == [id |-> 0, producer_id |-> 0]
NoStore == [id |-> 0, fetched |-> FALSE]
FreeLQ(c) == {s \in LQSlots : c.LQ[s].id = 0}
FreeSQ(c) == {s \in SQSlots : c.SQ[s].id = 0}

(* What is kept of an instruction. event_cycle is relative to the current   *)
(* cycle, and `from' is history: the store that a load was forwarded from.  *)
NewEntry(i) ==
  [scheduled |-> "no", executed |-> "no", event_cycle |-> 0, num_reg_dependent |-> 0,
   registers_instrs_depend_on_me |-> {}, memory_instrs_depend_on_me |-> {},
   num_mem_ops |-> IF IsMemory(i) THEN 1 ELSE 0, lq_index |-> 0, sq_index |-> 0, from |-> 0]

(* The n lowest members of S, the member of S that has n below it, and S in *)
(* its order and in that of the relation R.                                 *)
Lowest(S, n) == {i \in S : Cardinality({j \in S : j < i}) < n}
Nth(S, n)    == CHOOSE s \in S : Cardinality({t \in S : t < s}) = n
InOrder(S)   == [k \in 1 .. Cardinality(S) |-> Nth(S, k - 1)]
Arranged(S, R) ==
  [k \in 1 .. Cardinality(S) |-> CHOOSE s \in S : Cardinality({t \in S : <<t, s>> \in R}) = k - 1]
First(s, n)  == SubSeq(s, 1, n)
Rest(s, n)   == SubSeq(s, n + 1, Len(s))
Stores(S)    == {i \in S : IsStore(i)}

-----------------------------------------------------------------------------
(* O3_CPU::operate: the state c of the core goes through the operators      *)
(* below in their order.                                                    *)

(* retire_rob: completed instructions in order; a store has to be taken by  *)
(* the write queue of the L1D first, and holds up the others until then.    *)
RetireCount(c) ==
  Max({k \in 0 .. RETIRE_WIDTH :
         /\ c.head + k <= c.tail
         /\ \A i \in c.head .. c.head + k - 1 : c.entry[i].executed = "COMPLETED"
         /\ c.wq + Cardinality(Stores(c.head .. c.head + k - 1)) <= L1D_WQ_SIZE})
retire_rob(c) ==
  LET gone == c.head .. c.head + RetireCount(c) - 1
  IN  [c EXCEPT !.head = @ + Cardinality(gone),
                !.wq = @ + Cardinality(Stores(gone)),
                !.SQ = [s \in SQSlots |->
                          IF \E i \in Stores(gone) : c.entry[i].sq_index = s THEN NoStore ELSE @[s]],
                !.entry = [i \in Ids |->
                             IF i \in gone THEN [NewEntry(i) EXCEPT !.from = c.entry[i].from] ELSE @[i]]]

(* complete_inflight_instruction and do_complete_execution. Instructions    *)
(* that waited for the last of their registers can execute.                 *)
CompletingEarly(c) ==
  IF c.inflight_reg_executions > 0 \/ c.inflight_mem_executions > 0
  THEN Lowest({i \in Rob(c) : c.entry[i].executed = "INFLIGHT" /\ c.entry[i].event_cycle = 0}, EXEC_WIDTH)
  ELSE {}
Completing(c) ==
  IF c.inflight_reg_executions > 0 \/ c.inflight_mem_executions > 0
  THEN Lowest({i \in Rob(c) : /\ c.entry[i].executed = "INFLIGHT" /\ c.entry[i].event_cycle = 0
                              /\ c.entry[i].num_mem_ops = 0}, EXEC_WIDTH)
  ELSE {}
complete_inflight_instruction(c) ==
  LET done      == Completing(c)
      over(j)   == {p \in done : j \in c.entry[p].registers_instrs_depend_on_me}
      left(j)   == c.entry[j].num_reg_dependent - Cardinality(over(j))
      freed     == {j \in Ids : over(j) # {} /\ left(j) = 0}
      sooner    == {x \in freed \X freed :
                      \/ Max(over(x[1])) < Max(over(x[2]))
                      \/ Max(over(x[1])) = Max(over(x[2])) /\ x[1] < x[2]}
  IN  [c EXCEPT !.entry = [i \in Ids |->
                  [c.entry[i] EXCEPT !.executed = IF i \in done THEN "COMPLETED" ELSE @,
                               !.num_reg_dependent = left(i),
                               !.scheduled = IF i \notin freed THEN @
                                             ELSE IF IsMemory(i) THEN "INFLIGHT" ELSE "COMPLETED"]],
                !.inflight_reg_executions = @ - Cardinality({i \in done : ~IsMemory(i)}),
                !.inflight_mem_executions = @ - Cardinality({i \in done : IsMemory(i)}),
                !.ready_to_execute = @ \o Arranged({j \in freed : ~IsMemory(j)}, sooner)]

(* execute_instruction and do_execution                                     *)
execute_instruction(c) ==
  LET n     == Min({EXEC_WIDTH, Len(c.ready_to_execute)})
      begun == ToSet(First(c.ready_to_execute, n))
  IN  [c EXCEPT !.ready_to_execute = Rest(@, n),
                !.inflight_reg_executions = @ + n,
                !.entry = [i \in Ids |->
                  IF i \in begun THEN [@[i] EXCEPT !.executed = "INFLIGHT", !.event_cycle = EXEC_LATENCY]
                  ELSE @[i]]]

(* schedule_instruction and do_scheduling. The producer of a register is    *)
(* the nearest older instruction that writes it and is not yet completed.   *)
WritersNotBegun(c, i, r) ==
  {p \in Rob(c) : p < i /\ r \in program[p].dst /\ c.entry[p].executed = "no"}
Writers(c, i, r) ==
  {p \in Rob(c) : p < i /\ r \in program[p].dst /\ c.entry[p].executed # "COMPLETED"}
RegProducers(c, i) ==
  {Max(Writers(c, i, r)) : r \in {s \in program[i].src : Writers(c, i, s) # {}}}
Window(c, S) ==
  {i \in Rob(c) : Cardinality({j \in Rob(c) : j < i /\ c.entry[j].executed = "no" /\ j \notin S})
                  < SCHEDULER_SIZE}
schedule_instruction(c) ==
  LET fresh == {i \in Window(c, {}) : c.entry[i].scheduled = "no"}
  IN  [c EXCEPT !.entry = [i \in Ids |->
                  [c.entry[i] EXCEPT !.scheduled = IF i \notin fresh THEN @
                                             ELSE IF IsMemory(i) THEN "INFLIGHT" ELSE "COMPLETED",
                               !.num_reg_dependent =
                                  IF i \in fresh THEN Cardinality(RegProducers(c, i)) ELSE @,
                               !.registers_instrs_depend_on_me =
                                  @ \cup {j \in fresh : i \in RegProducers(c, j)}]],
                !.ready_to_execute =
                  @ \o InOrder({i \in fresh : ~IsMemory(i) /\ RegProducers(c, i) = {}})]

(* The accesses of the instructions S are over.                             *)
AccessDone(e, S) == [i \in Ids |-> IF i \in S THEN [e[i] EXCEPT !.num_mem_ops = @ - 1] ELSE e[i]]

(* handle_memory_return: translated addresses go on, answered loads end.    *)
Slots(packets, kind) ==
  LET mine == InOrder({k \in DOMAIN packets : packets[k][1] = kind})
  IN  [k \in DOMAIN mine |-> packets[mine[k]][2]]
handle_memory_return(c) ==
  LET t      == Min({MAX_READ, Len(c.dtlb_processed)})
      d      == Min({MAX_READ, Len(c.l1d_processed)})
      merged == ToSet(First(c.l1d_processed, d))
      loads  == {c.LQ[s].id : s \in merged}
  IN  [c EXCEPT !.dtlb_processed = Rest(@, t),
                !.RTS1 = @ \o Slots(First(c.dtlb_processed, t), "SQ"),
                !.RTL1 = @ \o Slots(First(c.dtlb_processed, t), "LQ"),
                !.l1d_processed = Rest(@, d),
                !.entry = AccessDone(@, loads),
                !.inflight_mem_executions = @ + d,
                !.LQ = [s \in LQSlots |-> IF s \in merged THEN NoLoad ELSE @[s]]]

(* do_sq_forward_to_lq, for the loads that a store hands its value to.      *)
Forwarded(e, S, from) ==
  [i \in Ids |-> IF i \in S THEN [AccessDone(e, S)[i] EXCEPT !.from = from[i]] ELSE e[i]]

(* operate_lsq, the stores: translate (RTS0), and once translated execute   *)
(* (RTS1), which resolves the loads that wait for them.                     *)
Dependents(c, s) ==
  {i \in c.entry[c.SQ[s].id].memory_instrs_depend_on_me :
     c.entry[i].lq_index # 0 /\ program[i].load = program[c.SQ[s].id].store}
operate_stores(c) ==
  LET t      == Min({SQ_WIDTH, Len(c.RTS0), DTLB_SIZE - Cardinality(c.dtlb)})
      x      == Min({SQ_WIDTH - t, Len(c.RTS1)})
      ran    == ToSet(First(c.RTS1, x))
      loads  == UNION {Dependents(c, s) : s \in ran}
      by     == [i \in loads |-> CHOOSE p \in {c.SQ[s].id : s \in ran} :
                                   i \in c.entry[p].memory_instrs_depend_on_me]
  IN  [c EXCEPT !.RTS0 = Rest(@, t),
                !.dtlb = @ \cup ({"SQ"} \X ToSet(First(c.RTS0, t))),
                !.RTS1 = Rest(@, x),
                !.SQ = [s \in SQSlots |-> IF s \in ran THEN [@[s] EXCEPT !.fetched = TRUE] ELSE @[s]],
                !.entry = AccessDone(Forwarded(@, loads, by), {c.SQ[s].id : s \in ran}),
                !.inflight_mem_executions = @ + x + Cardinality(loads),
                !.LQ = [s \in LQSlots |-> IF \E i \in loads : c.entry[i].lq_index = s
                                          THEN NoLoad ELSE @[s]]]

(* operate_lsq, the loads: translate (RTL0), then read the L1D (RTL1).      *)
operate_loads(c) ==
  LET t == Min({LQ_WIDTH, Len(c.RTL0), DTLB_SIZE - Cardinality(c.dtlb)})
      x == Min({LQ_WIDTH - t, Len(c.RTL1), L1D_RQ_SIZE - Cardinality(c.l1d)})
  IN  [c EXCEPT !.RTL0 = Rest(@, t),
                !.dtlb = @ \cup ({"LQ"} \X ToSet(First(c.RTL0, t))),
                !.RTL1 = Rest(@, x),
                !.l1d = @ \cup ToSet(First(c.RTL1, x))]

(* schedule_memory_instruction and do_memory_scheduling, of the entries V   *)
(* of the reorder buffer. A load takes any free slot, and gives it back at  *)
(* once if the store it depends on has executed. Stores go in the order of  *)
(* STA: none is added before an older one.                                  *)
OldestProducer(c, i) ==
  LET S == {p \in Rob(c) : p < i /\ program[p].store = program[i].load} IN IF S = {} THEN 0 ELSE Min(S)
MemProducer(c, i) ==
  LET S == {p \in Rob(c) : p < i /\ program[p].store = program[i].load} IN IF S = {} THEN 0 ELSE Max(S)
ForwardsNow(c, i) == \E s \in SQSlots : c.SQ[s].fetched /\ c.SQ[s].id = MemProducer(c, i)
Schedulable(c, V) ==
  {i \in V : IsMemory(i) /\ c.entry[i].num_reg_dependent = 0 /\ c.entry[i].scheduled = "INFLIGHT"}
Ahead(c, V, i) ==
  Cardinality({j \in Schedulable(c, V) : IsLoad(j) /\ j < i /\ ~ForwardsNow(c, j)})
AddedLoads(c, V) ==
  {i \in Schedulable(c, V) : IsLoad(i) /\ Ahead(c, V, i) < Cardinality(FreeLQ(c))}
AnyStores(c, V) == Lowest(Stores(Schedulable(c, V)), Cardinality(FreeSQ(c)))
AddedStores(c, V) ==
  {i \in Stores(Schedulable(c, V)) :
     \E k \in 1 .. Cardinality(FreeSQ(c)) :
        /\ k <= Len(c.STA) /\ c.STA[k] = i
        /\ \A m \in 1 .. k - 1 : c.STA[m] \in Schedulable(c, V)}
Added(c, V) == AddedLoads(c, V) \cup AddedStores(c, V)
Visited(c) ==
  LET prefix(k) == c.head .. c.head + k - 1
  IN  prefix(Max({k \in 0 .. c.tail - c.head : prefix(k) \subseteq Window(c, Added(c, prefix(k)))}))

(* add_load_queue: a load that waits for a store is not sent to the DTLB.   *)
NotForwarded(c, i)   == ~ForwardsNow(c, i)
IndependentLoad(c, i) == MemProducer(c, i) = 0
add_load_queue(c, V) ==
  LET added   == AddedLoads(c, V)
      now     == {i \in added : ForwardsNow(c, i)}
      slot(i) == Nth(FreeLQ(c), Ahead(c, V, i))
      by      == [i \in added |-> MemProducer(c, i)]
      ready   == InOrder({i \in added : IndependentLoad(c, i)})
  IN  [c EXCEPT !.LQ = [s \in LQSlots |->
                  IF \E i \in added \ now : slot(i) = s
                  THEN LET i == CHOOSE i \in added \ now : slot(i) = s
                       IN  [id |-> i, producer_id |-> by[i]]
                  ELSE @[s]],
                !.RTL0 = @ \o [k \in DOMAIN ready |-> slot(ready[k])],
                !.inflight_mem_executions = @ + Cardinality(now),
                !.entry = [i \in Ids |->
                  [Forwarded(c.entry, now, by)[i] EXCEPT
                     !.lq_index = IF i \in added THEN slot(i) ELSE @,
                     !.memory_instrs_depend_on_me = @ \cup {j \in added : by[j] = i}]]]

add_store_queue(c, V) ==
  LET added   == InOrder(AddedStores(c, V))
      free    == InOrder(FreeSQ(c))
  IN  [c EXCEPT !.SQ = [s \in SQSlots |->
                  IF \E k \in DOMAIN added : free[k] = s
                  THEN [id |-> added[CHOOSE k \in DOMAIN added : free[k] = s], fetched |-> FALSE]
                  ELSE @[s]],
                !.STA = Rest(@, Len(added)),
                !.RTS0 = @ \o First(free, Len(added)),
                !.entry = [i \in Ids |->
                  IF \E k \in DOMAIN added : added[k] = i
                  THEN [@[i] EXCEPT !.sq_index = free[CHOOSE k \in DOMAIN added : added[k] = i]]
                  ELSE @[i]]]

(* The instructions S have been added to the queues.                        *)
MemScheduled(c, S) ==
  [c EXCEPT !.entry = [i \in Ids |->
     IF i \in S THEN [@[i] EXCEPT !.scheduled = "COMPLETED", !.executed = "INFLIGHT"] ELSE @[i]]]

dispatch_instruction(c) ==
  [c EXCEPT !.tail = @ + Min({DISPATCH_WIDTH, c.read - (c.tail - 1), ROB_SIZE - (c.tail - c.head)})]

NextCycle(c) ==
  [c EXCEPT !.entry = [i \in Ids |->
     [c.entry[i] EXCEPT !.event_cycle = IF @ > 0 THEN @ - 1 ELSE 0]]]

(* One cycle takes the core from c to d.                                    *)
Cycle(c, d) ==
  \E c1 \in {retire_rob(c)} : \E c2 \in {complete_inflight_instruction(c1)} :
  \E c3 \in {execute_instruction(c2)} : \E c4 \in {schedule_instruction(c3)} :
  \E c5 \in {handle_memory_return(c4)} : \E c6 \in {operate_stores(c5)} :
  \E c7 \in {operate_loads(c6)} : \E V \in {Visited(c7)} :
  \E added \in {Added(c7, V)} : \E c8 \in {add_load_queue(c7, V)} :
  \E c9 \in {add_store_queue(c8, V)} : \E c10 \in {MemScheduled(c9, added)} :
     d = NextCycle(dispatch_instruction(c10))
operate == Cycle(cpu, cpu') /\ UNCHANGED program

-----------------------------------------------------------------------------
(* The front end reads, fetches and decodes the next instruction;           *)
(* init_instruction enters a store into STA.                                *)
FrontEnd ==
  /\ cpu.read < Len(program)
  /\ cpu' = [cpu EXCEPT !.read = @ + 1,
                        !.STA = IF IsStore(cpu.read + 1) THEN Append(@, cpu.read + 1) ELSE @]
  /\ UNCHANGED program

(* CacheBus::return_data, called by the DTLB and the L1D, and the L1D       *)
(* taking a write out of its queue.                                         *)
DtlbReturns(p) ==
  /\ p \in cpu.dtlb
  /\ cpu' = [cpu EXCEPT !.dtlb = @ \ {p}, !.dtlb_processed = Append(@, p)]
  /\ UNCHANGED program
L1dReturns(s) ==
  /\ s \in cpu.l1d
  /\ cpu' = [cpu EXCEPT !.l1d = @ \ {s}, !.l1d_processed = Append(@, s)]
  /\ UNCHANGED program
L1dWrites == cpu.wq > 0 /\ cpu' = [cpu EXCEPT !.wq = @ - 1] /\ UNCHANGED program

Init ==
  /\ program \in Programs
  /\ cpu = [head |-> 1, tail |-> 1, read |-> 0, entry |-> [i \in Ids |-> NewEntry(i)],
            LQ |-> [s \in LQSlots |-> NoLoad], SQ |-> [s \in SQSlots |-> NoStore],
            STA |-> <<>>, ready_to_execute |-> <<>>,
            RTL0 |-> <<>>, RTL1 |-> <<>>, RTS0 |-> <<>>, RTS1 |-> <<>>,
            inflight_reg_executions |-> 0, inflight_mem_executions |-> 0,
            dtlb |-> {}, dtlb_processed |-> <<>>, l1d |-> {}, l1d_processed |-> <<>>, wq |-> 0]

Packets == ({"LQ"} \X LQSlots) \cup ({"SQ"} \X SQSlots)
Next ==
  \/ operate
  \/ FrontEnd
  \/ \E p \in Packets : DtlbReturns(p)
  \/ \E s \in LQSlots : L1dReturns(s)
  \/ L1dWrites

Spec == Init /\ [][Next]_vars
-----------------------------------------------------------------------------
Status == {"no", "INFLIGHT", "COMPLETED"}
EntryType ==
  [scheduled: Status, executed: Status, event_cycle: Nat, num_reg_dependent: Nat,
   registers_instrs_depend_on_me: SUBSET Ids, memory_instrs_depend_on_me: SUBSET Ids,
   num_mem_ops: Nat, lq_index: LQSlots \cup {0}, sq_index: SQSlots \cup {0}, from: Ids \cup {0}]

(* The queues and counters keep their types; in particular no counter of    *)
(* operations and dependencies goes below 0 (the code asserts it).          *)
TypeOK ==
  /\ program \in Programs
  /\ cpu.head \in 1 .. cpu.tail /\ cpu.tail \in 1 .. cpu.read + 1 /\ cpu.read \in 0 .. Len(program)
  /\ cpu.tail - cpu.head <= ROB_SIZE
  /\ \A i \in Ids : cpu.entry[i] \in EntryType
  /\ \A s \in LQSlots : cpu.LQ[s] \in [id: Ids \cup {0}, producer_id: Ids \cup {0}]
  /\ \A s \in SQSlots : cpu.SQ[s] \in [id: Ids \cup {0}, fetched: BOOLEAN]
  /\ cpu.inflight_reg_executions \in Nat /\ cpu.inflight_mem_executions \in Nat
  /\ cpu.dtlb \subseteq Packets /\ cpu.l1d \subseteq LQSlots /\ cpu.wq \in 0 .. L1D_WQ_SIZE

(* An instruction begins to execute, or enters a memory queue, only after   *)
(* the last older instruction that writes each of its source registers has  *)
(* completed, whatever was in flight when it was scheduled (do_scheduling). *)
LastBefore(i, S) == IF \E p \in S : p < i THEN Max({p \in S : p < i}) ELSE 0
RegistersReady ==
  \A i \in Rob(cpu) : cpu.entry[i].executed # "no" =>
     \A r \in program[i].src :
        LET p == LastBefore(i, {q \in Ids : r \in program[q].dst})
        IN  p >= cpu.head => cpu.entry[p].executed = "COMPLETED"

(* A load gets its value from the last older store to its address: either   *)
(* forwarded by it, or from an L1D that all older stores to the address     *)
(* were sent to before the load was (add_load_queue, execute_store).        *)
StoresTo(a) == {q \in Ids : program[q].store = a}
LoadsSeeStores ==
  /\ \A i \in Ids : cpu.entry[i].from # 0 =>
        cpu.entry[i].from = LastBefore(i, StoresTo(program[i].load))
  /\ \A s \in cpu.l1d \cup ToSet(cpu.l1d_processed) :
        LET i == cpu.LQ[s].id IN LastBefore(i, StoresTo(program[i].load)) < cpu.head

(* A slot of either queue belongs to one unfinished instruction, and is at  *)
(* one place on its way through the queues and the levels below; a free     *)
(* slot is nowhere, so no answer can reach a later owner. The loads that a  *)
(* store will forward to are in the slots it expects (the code asserts it), *)
(* and the counters that start the completion loop are exact.               *)
Count(q, x) == Cardinality({k \in DOMAIN q : q[k] = x})
In(x, S)    == IF x \in S THEN 1 ELSE 0
LQPlaces(s) ==
  Count(cpu.RTL0, s) + Count(cpu.RTL1, s) + Count(cpu.l1d_processed, s) + In(s, cpu.l1d)
  + Count(cpu.dtlb_processed, <<"LQ", s>>) + In(<<"LQ", s>>, cpu.dtlb)
  + (IF cpu.LQ[s].producer_id # 0 THEN 1 ELSE 0)
SQPlaces(s) ==
  Count(cpu.RTS0, s) + Count(cpu.RTS1, s)
  + Count(cpu.dtlb_processed, <<"SQ", s>>) + In(<<"SQ", s>>, cpu.dtlb)
  + (IF cpu.SQ[s].fetched THEN 1 ELSE 0)
SlotsOwned ==
  /\ \A s \in LQSlots :
        LET i == cpu.LQ[s].id
        IN  IF i = 0 THEN LQPlaces(s) = 0
            ELSE /\ LQPlaces(s) = 1 /\ i \in Rob(cpu) /\ IsLoad(i)
                 /\ cpu.entry[i].num_mem_ops = 1 /\ cpu.entry[i].lq_index = s
  /\ \A s \in SQSlots :
        LET i == cpu.SQ[s].id
        IN  IF i = 0 THEN SQPlaces(s) = 0
            ELSE /\ SQPlaces(s) = 1 /\ i \in Rob(cpu) /\ IsStore(i) /\ cpu.entry[i].sq_index = s
                 /\ cpu.entry[i].num_mem_ops = IF cpu.SQ[s].fetched THEN 0 ELSE 1
  /\ \A p \in Rob(cpu) : cpu.entry[p].num_mem_ops > 0 =>
        \A i \in cpu.entry[p].memory_instrs_depend_on_me :
           cpu.LQ[cpu.entry[i].lq_index] = [id |-> i, producer_id |-> p]
  /\ cpu.inflight_mem_executions =
        Cardinality({i \in Rob(cpu) : /\ IsMemory(i) /\ cpu.entry[i].num_mem_ops = 0
                                      /\ cpu.entry[i].executed # "COMPLETED"})
  /\ cpu.inflight_reg_executions =
        Cardinality({i \in Rob(cpu) : ~IsMemory(i) /\ cpu.entry[i].executed = "INFLIGHT"})

(* The program has not retired, nobody outside the core has anything to do  *)
(* and the next cycle changes nothing.                                      *)
Stuck ==
  /\ cpu.head <= Len(program) /\ cpu.read = Len(program)
  /\ cpu.dtlb = {} /\ cpu.l1d = {} /\ cpu.wq = 0
  /\ Cycle(cpu, cpu)

(* STA is there "to execute store instructions properly without deadlock"   *)
(* (init_instruction).  But there is no such order for loads: loads that    *)
(* wait for a store can fill the load queue (add_load_queue), the store may *)
(* wait for a register, and its writer for a load that finds no slot.       *)
NoDeadlock == ~Stuck

(* That is the only way to deadlock, however small the queues are.  Where   *)
(* the core is stuck some load that could execute has no slot, and every    *)
(* slot is held by a load that waits for a store younger than it; stores    *)
(* never block each other.                                                  *)
StuckOnlyOnLoads ==
  Stuck => \E i \in Rob(cpu) :
    /\ IsLoad(i) /\ i \in Schedulable(cpu, Rob(cpu))
    /\ \A s \in LQSlots : cpu.LQ[s].producer_id > i
=============================================================================
