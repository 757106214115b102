-------------------------------- MODULE Dram --------------------------------
(* One channel of MEMORY_CONTROLLER (dram_controller.cc): a read and a write *)
(* queue, the banks, the data bus they share, and the write mode that says   *)
(* from which of the queues requests are scheduled.  The channels share      *)
(* nothing, so one of them stands for all.                                   *)
(*                                                                           *)
(* A request is a block number; address 0 is the code's empty slot.  Times   *)
(* are relative to current_cycle: what is due has a time of at most 0.  The  *)
(* code compares past times with each other only, so Aged keeps their order  *)
(* and not their distance.  Row hit and congestion counters are left out.    *)
EXTENDS Integers, FiniteSets

CONSTANTS Readers,       \* levels above that wait for answers
          Blocks,        \* the blocks they use
          RQ_SIZE, WQ_SIZE,
          DRAM_RANKS, DRAM_BANKS, DRAM_COLUMNS, DRAM_ROWS,
          tRP, tRCD, tCAS, TURN_AROUND_TIME, RETURN_TIME

ASSUME DramSizes ==
  /\ RQ_SIZE \in Nat \ {0}
  /\ DRAM_RANKS \in Nat \ {0} /\ DRAM_BANKS \in Nat \ {0}
  /\ DRAM_COLUMNS \in Nat \ {0} /\ DRAM_ROWS \in Nat \ {0}
  /\ tRP \in Nat /\ tRCD \in Nat /\ tCAS \in Nat
  /\ TURN_AROUND_TIME \in Nat /\ RETURN_TIME \in Nat
(* No level above uses block 0: the frames vmem.cc gives out begin later.    *)
ASSUME DramBlocks == Blocks \subseteq Nat \ {0}
(* With a write queue of one both watermarks are 0, and the mode changes in  *)
(* every cycle without anything being done.                                  *)
ASSUME DramWriteQueue == WQ_SIZE \in Nat \ {0, 1}

VARIABLES channel,  \* DRAM_CHANNEL
          warmup,   \* all_warmup_complete < NUM_CPUS
          waiting   \* history: <<reader, block>> promised an answer

vars == <<channel, warmup, waiting>>

NumBanks == DRAM_RANKS * DRAM_BANKS   \* also std::end(bank_request)
Banks    == 0 .. NumBanks - 1
NoRow    == DRAM_ROWS                 \* UINT32_MAX
Never    == 1                         \* UINT64_MAX, of a scheduled packet
Queues   == {"RQ", "WQ"}
Slots    == [RQ |-> 1 .. RQ_SIZE, WQ |-> 1 .. WQ_SIZE]

(* | row | rank | column | bank | channel | offset |, for one channel.       *)
dram_get_bank(b) == b % DRAM_BANKS
dram_get_rank(b) == (b \div (DRAM_BANKS * DRAM_COLUMNS)) % DRAM_RANKS
dram_get_row_unmasked(b) == b \div (DRAM_RANKS * DRAM_BANKS * DRAM_COLUMNS)
dram_get_row(b)  == (b \div (DRAM_RANKS * DRAM_BANKS * DRAM_COLUMNS)) % DRAM_ROWS
OpIdx(b)         == dram_get_rank(b) * DRAM_BANKS + dram_get_bank(b)

DRAM_WRITE_HIGH_WM == (WQ_SIZE * 7) \div 8
DRAM_WRITE_LOW_WM  == (WQ_SIZE * 6) \div 8

Packet(b, rets) == [address |-> b, to_return |-> rets, scheduled |-> FALSE, event_cycle |-> 0]
NoPacket        == Packet(0, {})
IsValid(p)      == p.address # 0
Occupied(Q)     == {i \in DOMAIN Q : IsValid(Q[i])}
Free(Q)         == DOMAIN Q \ Occupied(Q)
Find(Q, b)      == {i \in Occupied(Q) : Q[i].address = b}
First(S)        == CHOOSE i \in S : \A j \in S : i <= j

(* A packet's state of scheduling: marked or not, and when it is its turn.   *)
Pending(p, when) == [p EXCEPT !.scheduled = FALSE, !.event_cycle = when]
InService(p)     == [p EXCEPT !.scheduled = TRUE, !.event_cycle = Never]

(* A bank without a request. What it did is not looked at again, its row is. *)
Idle(row) == [valid |-> FALSE, open_row |-> row, event_cycle |-> 0, queue |-> "RQ", pkt |-> 1]

-----------------------------------------------------------------------------
(* The levels above. A CACHE looks whether the read queue has room before it *)
(* calls add_rq, and asks for a block once until it is answered.             *)

(* add_rq, and add_pq which calls it: answered at once in warmup and from    *)
(* the write queue, merged, queued, or lost when the queue is full.          *)
AnsweredAtOnce(b) == warmup \/ Find(channel.WQ, b) # {}
Queued(Q, r, b) ==
  IF Find(Q, b) # {}   THEN [Q EXCEPT ![First(Find(Q, b))].to_return = @ \cup {r}]
  ELSE IF Free(Q) # {} THEN [Q EXCEPT ![First(Free(Q))] = Packet(b, {r})]
  ELSE Q
add_rq(r, b) ==
  /\ \/ AnsweredAtOnce(b) /\ UNCHANGED <<channel, waiting>>
     \/ /\ ~AnsweredAtOnce(b)
        /\ channel' = [channel EXCEPT !.RQ = Queued(@, r, b)]
        /\ waiting' = waiting \cup {<<r, b>>}
  /\ UNCHANGED warmup

SeesAnyRoom == TRUE
SeesRoom   == Free(channel.RQ) # {}
Read(r, b) == <<r, b>> \notin waiting /\ SeesRoom /\ add_rq(r, b)

(* add_wq: dropped in warmup, merged with a write of the block, refused with *)
(* -2 when the queue is full; only a write that is queued changes anything.  *)
add_wq(b) ==
  /\ ~warmup /\ Find(channel.WQ, b) = {} /\ Free(channel.WQ) # {}
  /\ channel' = [channel EXCEPT !.WQ[First(Free(channel.WQ))] = Packet(b, {})]
  /\ UNCHANGED <<warmup, waiting>>

CompleteWarmup == warmup /\ warmup' = FALSE /\ UNCHANGED <<channel, waiting>>

-----------------------------------------------------------------------------
(* MEMORY_CONTROLLER::operate, one step per cycle: a channel c goes through  *)
(* the five operators below in their order.                                  *)

OnBus(c) == c.active_request # NumBanks
Bus(c)   == c.bank_request[c.active_request]

(* Finish request: everybody in to_return is answered, the slot is cleared.  *)
Finishes(c) == OnBus(c) /\ Bus(c).event_cycle <= 0
ReturnsTo(c) ==
  IF Finishes(c)
  THEN LET p == c[Bus(c).queue][Bus(c).pkt] IN p.to_return \X {p.address}
  ELSE {}
Cleared(c, q) ==
  [i \in Slots[q] |-> IF q = Bus(c).queue /\ i = Bus(c).pkt THEN NoPacket ELSE c[q][i]]
FinishRequest(c) ==
  IF Finishes(c)
  THEN [c EXCEPT !.RQ = Cleared(c, "RQ"), !.WQ = Cleared(c, "WQ"),
                 !.bank_request[c.active_request] = Idle(@.open_row),
                 !.active_request = NumBanks]
  ELSE c

(* Change modes if the queues are unbalanced. Every request that is not on   *)
(* the bus is withdrawn from its bank and waits in its queue again.          *)
Unbalanced(c) ==
  LET rq_occu == Cardinality(Occupied(c.RQ))
      wq_occu == Cardinality(Occupied(c.WQ))
  IN  \/ /\ ~c.write_mode
         /\ wq_occu >= DRAM_WRITE_HIGH_WM \/ (rq_occu = 0 /\ wq_occu > 0)
      \/ /\ c.write_mode
         /\ wq_occu = 0 \/ (rq_occu > 0 /\ wq_occu < DRAM_WRITE_LOW_WM)
WithdrawnUnready(c) ==
  {k \in Banks : k # c.active_request /\ c.bank_request[k].valid /\ c.bank_request[k].event_cycle > 0}
Withdrawn(c) == {k \in Banks : k # c.active_request /\ c.bank_request[k].valid}
RequeuedNotDue(c, q) ==
  [i \in Slots[q] |->
     IF \E k \in Withdrawn(c) : c.bank_request[k].queue = q /\ c.bank_request[k].pkt = i
     THEN Pending(c[q][i], c[q][i].event_cycle) ELSE c[q][i]]
RequeuedScheduled(c, q) ==
  [i \in Slots[q] |->
     IF \E k \in Withdrawn(c) : c.bank_request[k].queue = q /\ c.bank_request[k].pkt = i
     THEN [c[q][i] EXCEPT !.event_cycle = 0] ELSE c[q][i]]
Requeued(c, q) ==
  [i \in Slots[q] |->
     IF \E k \in Withdrawn(c) : c.bank_request[k].queue = q /\ c.bank_request[k].pkt = i
     THEN Pending(c[q][i], 0) ELSE c[q][i]]
SwitchMode(c) ==
  IF Unbalanced(c)
  THEN [c EXCEPT !.RQ = Requeued(c, "RQ"), !.WQ = Requeued(c, "WQ"),
                 !.bank_request = [k \in Banks |->
                    IF k \notin Withdrawn(c) THEN @[k]
                    ELSE Idle(IF @[k].event_cycle < tCAS THEN NoRow ELSE @[k].open_row)],
                 !.dbus_cycle_available =
                    TURN_AROUND_TIME + (IF OnBus(c) THEN Bus(c).event_cycle ELSE 0),
                 !.write_mode = ~@]
  ELSE c

(* Put the request that has been ready longest on the bus, if that is free.  *)
Ready(c) == {k \in Banks : c.bank_request[k].valid /\ c.bank_request[k].event_cycle <= 0}
Soonest(S, when) == First({k \in S : \A j \in S : when[k] <= when[j]})
NextProcess(c) == Soonest(Ready(c), [k \in Banks |-> c.bank_request[k].event_cycle])
PutOnBus(c) ==
  IF Ready(c) # {} /\ ~OnBus(c) /\ c.dbus_cycle_available <= 0
  THEN [c EXCEPT !.active_request = NextProcess(c),
                 !.bank_request[NextProcess(c)].event_cycle = RETURN_TIME]
  ELSE c

(* Schedule the packet that has waited longest in the queue of the mode, if  *)
(* its bank is idle; a bank that is not holds up the packets behind it too.  *)
ModeQueue(c)    == IF c.write_mode THEN "WQ" ELSE "RQ"
Unscheduled(Q)  == {i \in Occupied(Q) : ~Q[i].scheduled /\ Q[i].event_cycle <= 0}
NextSchedule(Q) == Soonest(Unscheduled(Q), [i \in DOMAIN Q |-> Q[i].event_cycle])
Marked(c, q) ==
  [i \in Slots[q] |-> IF q = ModeQueue(c) /\ i = NextSchedule(c[q])
                      THEN InService(c[q][i]) ELSE c[q][i]]
SchedulePacket(c) ==
  LET q   == ModeQueue(c)
      i   == NextSchedule(c[q])
      bnk == OpIdx(c[q][i].address)
      row == dram_get_row(c[q][i].address)
      hit == c.bank_request[bnk].open_row = row
  IN  IF Unscheduled(c[q]) # {} /\ ~c.bank_request[bnk].valid
      THEN [c EXCEPT !.bank_request[bnk] =
                        [valid |-> TRUE, open_row |-> row, queue |-> q, pkt |-> i,
                         event_cycle |-> tCAS + (IF hit THEN 0 ELSE tRP + tRCD)],
                     !.RQ = Marked(c, "RQ"), !.WQ = Marked(c, "WQ")]
      ELSE c

(* ++current_cycle                                                           *)
Aged(t, times) == IF t > 0 THEN t - 1 ELSE 0 - Cardinality({u \in times : t <= u /\ u <= 0})
AgedQueue(Q) ==
  LET times == {Q[i].event_cycle : i \in Unscheduled(Q)}
  IN  [i \in DOMAIN Q |-> IF i \in Unscheduled(Q)
                          THEN Pending(Q[i], Aged(Q[i].event_cycle, times)) ELSE Q[i]]
AgedBanks(B) ==
  LET times == {B[k].event_cycle : k \in {j \in Banks : B[j].valid}}
  IN  [k \in Banks |-> IF B[k].valid
                       THEN [B[k] EXCEPT !.event_cycle = Aged(@, times)] ELSE B[k]]
NextCycle(c) ==
  [c EXCEPT !.RQ = AgedQueue(@), !.WQ = AgedQueue(@), !.bank_request = AgedBanks(@),
            !.dbus_cycle_available = IF @ > 0 THEN @ - 1 ELSE 0]

operate ==
  /\ \E c1 \in {FinishRequest(channel)} : \E c2 \in {SwitchMode(c1)} :
     \E c3 \in {PutOnBus(c2)} : \E c4 \in {SchedulePacket(c3)} : channel' = NextCycle(c4)
  /\ waiting' = waiting \ ReturnsTo(channel)
  /\ UNCHANGED warmup

-----------------------------------------------------------------------------
Init ==
  /\ channel = [RQ |-> [i \in Slots.RQ |-> NoPacket], WQ |-> [i \in Slots.WQ |-> NoPacket],
                bank_request |-> [k \in Banks |-> Idle(NoRow)],
                active_request |-> NumBanks, dbus_cycle_available |-> 0, write_mode |-> FALSE]
  /\ warmup = TRUE
  /\ waiting = {}

Next ==
  \/ \E r \in Readers, b \in Blocks : Read(r, b)
  \/ \E b \in Blocks : add_wq(b)
  \/ CompleteWarmup
  \/ operate

Spec     == Init /\ [][Next]_vars
(* The main loop calls operate() for ever.                                   *)
FairSpec == Spec /\ WF_vars(operate)

-----------------------------------------------------------------------------
PacketType == [address: Blocks \cup {0}, to_return: SUBSET Readers, scheduled: BOOLEAN,
               event_cycle: Int]
BankType   == [valid: BOOLEAN, open_row: 0 .. DRAM_ROWS, event_cycle: Int, queue: Queues, pkt: Nat]
ChannelType ==
  [RQ: [Slots.RQ -> PacketType], WQ: [Slots.WQ -> PacketType],
   bank_request: [Banks -> BankType], active_request: 0 .. NumBanks,
   dbus_cycle_available: Int, write_mode: BOOLEAN]

(* The queues, banks and bus keep their types.                               *)
TypeOK ==
  /\ channel \in ChannelType
  /\ warmup \in BOOLEAN
  /\ waiting \subseteq Readers \X Blocks

(* What a busy bank works on is a packet of its own address that is marked   *)
(* as scheduled, and what is marked as scheduled is being worked on: across  *)
(* mode switches no packet is left behind, scheduled twice, or cleared under *)
(* a bank (operate: withdrawal, finish, schedule).                           *)
BanksMatch(c) ==
  /\ \A k \in Banks : c.bank_request[k].valid =>
        LET B == c.bank_request[k]
        IN  /\ B.pkt \in Slots[B.queue] /\ IsValid(c[B.queue][B.pkt])
            /\ c[B.queue][B.pkt].scheduled /\ OpIdx(c[B.queue][B.pkt].address) = k
  /\ \A q \in Queues : \A i \in Slots[q] : c[q][i].scheduled =>
        \E k \in Banks : c.bank_request[k].valid /\ c.bank_request[k].queue = q /\ c.bank_request[k].pkt = i
  /\ OnBus(c) => Bus(c).valid
EachScheduledOnce == BanksMatch(channel)

(* After a mode switch only the request on the data bus may belong to the    *)
(* other queue: the bus never turns around for a left-over.                  *)
OneDirection ==
  \A k \in Banks : channel.bank_request[k].valid /\ k # channel.active_request =>
     channel.bank_request[k].queue = ModeQueue(channel)

(* Whoever was promised an answer is in exactly one packet of the read queue *)
(* and nobody else is: reads are neither lost nor answered twice, whether    *)
(* merged, withdrawn or forwarded.                                           *)
Held(Q) == UNION {Q[i].to_return \X {Q[i].address} : i \in Occupied(Q)}
ReadsHeld ==
  /\ waiting = Held(channel.RQ)
  /\ \A q \in Queues : \A i, j \in Occupied(channel[q]) :
        channel[q][i].address = channel[q][j].address => i = j

(* A read is answered, unless writes keep coming for ever (and with them     *)
(* the write mode).                                                          *)
ReadsAnswered ==
  \A r \in Readers, b \in Blocks :
     <>[](<<r, b>> \in waiting) => []<><<\E w \in Blocks : add_wq(w)>>_vars
=============================================================================
