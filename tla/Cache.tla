------------------------------- MODULE Cache -------------------------------
(***************************************************************************)
(* CACHE (src/cache.cc, inc/cache.h): one level of the memory hierarchy,   *)
(* between the upper levels that read, prefetch and write through it and   *)
(* the lower level it reads from and writes back to.                       *)
(*                                                                         *)
(* operate() runs once per cycle: fills, then writes, reads and            *)
(* prefetches.  Each pass of one of its loops is a step; pc and budget say *)
(* where the cycle is.  The other levels act between cycles.  The queues   *)
(* are the queues DelayFifo specifies; get_set is left out, the blocks of  *)
(* the model compete for one set, and the replacement policy may choose    *)
(* any way of it.                                                          *)
(*                                                                         *)
(* LOAD stands for every read that is not a prefetch.  event is            *)
(* event_cycle less current_cycle, 0 for any cycle that has come and NEVER *)
(* for the largest uint64.                                                 *)
(***************************************************************************)
EXTENDS Naturals, Sequences, FiniteSetsExt

CONSTANTS
  Uppers,            \* levels above that read through this one
  Prefetching,       \* those of them that prefetch
  Addrs, BlockOf,    \* addresses, and the block of each
  NUM_WAY, RQ_SIZE, WQ_SIZE, PQ_SIZE, MSHR_SIZE,
  HIT_LATENCY, FILL_LATENCY, MAX_READ, MAX_WRITE,
  match_offset_bits, \* whether the write queue is searched by full address
  WriteType,         \* what is written: "WRITEBACK", or "RFO" by stores
  LowerReads,        \* reads the lower level can hold
  LowerWrites,       \* writes the lower level can hold
  None               \* the address of an empty way

NEVER == FILL_LATENCY + 1
Blocks == {BlockOf[a] : a \in Addrs}
Ways == 1 .. NUM_WAY

(* Fill levels: above this one, this one, below it.                        *)
UP == 1
HERE == 2
BELOW == 3

ASSUME CacheAssumption ==
  /\ {NUM_WAY, RQ_SIZE, WQ_SIZE, PQ_SIZE, MSHR_SIZE, MAX_READ, MAX_WRITE} \subseteq Nat \ {0}
  /\ {HIT_LATENCY, FILL_LATENCY, LowerReads, LowerWrites} \subseteq Nat
  /\ Prefetching \subseteq Uppers
  /\ DOMAIN BlockOf = Addrs /\ None \notin Addrs
  /\ match_offset_bits \in BOOLEAN
  /\ WriteType \in {"WRITEBACK", "RFO"}

VARIABLES
  block,             \* way -> [address, dirty]
  RQ, rq_ready, WQ, wq_ready, PQ, pq_ready,
  MSHR,
  warmup_complete,
  pc, budget,        \* where operate() is; reads or writes left this cycle
  lower,             \* lower level: block -> reads it will answer
  lower_wq,          \* lower level: blocks in its write queue
  waiting,           \* upper level -> blocks it waits for
  unsaved            \* history: blocks written to and not yet written back

queueVars == <<RQ, rq_ready, WQ, wq_ready, PQ, pq_ready>>
lowerVars == <<lower, lower_wq>>
vars == <<block, queueVars, MSHR, warmup_complete, pc, budget, lowerVars, waiting, unsaved>>

Packet == [address : Addrs, type : {"LOAD", "PREFETCH", "WRITEBACK", "RFO"},
           fill_level : {UP, HERE, BELOW}, pf_origin_level : {0, UP, HERE},
           to_return : SUBSET Uppers]

ReadQueue  == INSTANCE DelayFifo WITH q <- RQ, released <- rq_ready, Size <- RQ_SIZE,
                                      Latency <- HIT_LATENCY, Items <- Packet
WriteQueue == INSTANCE DelayFifo WITH q <- WQ, released <- wq_ready, Size <- WQ_SIZE,
                                      Latency <- HIT_LATENCY, Items <- Packet
PrefQueue  == INSTANCE DelayFifo WITH q <- PQ, released <- pq_ready, Size <- PQ_SIZE,
                                      Latency <- HIT_LATENCY, Items <- Packet

Delay == IF warmup_complete THEN HIT_LATENCY ELSE 0
SameBlock(a, b) == BlockOf[a] = BlockOf[b]

Load(u, a)  == [address |-> a, type |-> "LOAD", fill_level |-> UP,
                pf_origin_level |-> 0, to_return |-> {u}]
Write(a)    == [address |-> a, type |-> WriteType, fill_level |-> HERE,
                pf_origin_level |-> 0, to_return |-> {}]
(* prefetch_line of an upper level, into that level or into this one, and  *)
(* of this level, into it or into the one below.                           *)
UpperPrefetch(u, a, l) ==
  [address |-> a, type |-> "PREFETCH", fill_level |-> l, pf_origin_level |-> UP,
   to_return |-> IF l = UP THEN {u} ELSE {}]
prefetch_line(a, l) ==
  [address |-> a, type |-> "PREFETCH", fill_level |-> l, pf_origin_level |-> HERE,
   to_return |-> {}]

---------------------------------------------------------------------------
(* The queues: add_rq, add_wq, add_pq.                                     *)

InWQ(a) == \E i \in DOMAIN WQ : IF match_offset_bits
                                  THEN WQ[i].item.address = a
                                  ELSE SameBlock(WQ[i].item.address, a)
Found(q, a) == {i \in DOMAIN q : SameBlock(q[i].item.address, a)}
Merge(q, i, pkt) ==
  [q EXCEPT ![i].item.to_return = @ \cup pkt.to_return]

(* An upper level asks once for a block.  A block in the write queue is    *)
(* returned at once, a read that is queued is merged with; only another    *)
(* one needs room.                                                         *)
add_rq(u, a) ==
  /\ pc = "idle" /\ BlockOf[a] \notin waiting[u]
  /\ IF InWQ(a)
       THEN UNCHANGED <<RQ, waiting>>
       ELSE /\ waiting' = [waiting EXCEPT ![u] = @ \cup {BlockOf[a]}]
            /\ IF Found(RQ, a) # {}
                 THEN RQ' = Merge(RQ, Min(Found(RQ, a)), Load(u, a))
                 ELSE /\ Len(RQ) < RQ_SIZE
                      /\ RQ' = Append(RQ, [item |-> Load(u, a), delay |-> Delay])
  /\ UNCHANGED <<block, rq_ready, WQ, wq_ready, PQ, pq_ready, MSHR, warmup_complete, pc,
                 budget, lowerVars, unsaved>>

(* A write to a block that is in the queue is merged by dropping it.       *)
add_wq(a) ==
  /\ pc = "idle"
  /\ IF InWQ(a) THEN UNCHANGED WQ
                ELSE /\ Len(WQ) < WQ_SIZE
                     /\ WQ' = Append(WQ, [item |-> Write(a), delay |-> Delay])
  /\ unsaved' = unsaved \cup {BlockOf[a]}
  /\ UNCHANGED <<block, RQ, rq_ready, wq_ready, PQ, pq_ready, MSHR, warmup_complete, pc,
                 budget, lowerVars, waiting>>

(* Mutant: add_pq does not look at the size of the queue.                  *)
AddPqUnbounded(q, pkt) ==
  IF InWQ(pkt.address) \/ Found(q, pkt.address) # {} THEN q
  ELSE Append(q, [item |-> pkt, delay |-> Delay])

(* The prefetch queue after add_pq.                                        *)
AddPq(q, pkt) ==
  IF InWQ(pkt.address) THEN q
  ELSE IF Found(q, pkt.address) # {}
    THEN LET i == Min(Found(q, pkt.address))
         IN  Merge([q EXCEPT ![i].item.fill_level = Min({@, pkt.fill_level})], i, pkt)
  ELSE IF Len(q) < PQ_SIZE THEN Append(q, [item |-> pkt, delay |-> Delay])
  ELSE q

add_pq(u, a, l) ==
  /\ pc = "idle" /\ BlockOf[a] \notin waiting[u]
  /\ Len(PQ) < PQ_SIZE
  /\ PQ' = AddPq(PQ, UpperPrefetch(u, a, l))
  /\ waiting' = IF l = UP /\ ~ InWQ(a)
                  THEN [waiting EXCEPT ![u] = @ \cup {BlockOf[a]}] ELSE waiting
  /\ UNCHANGED <<block, RQ, rq_ready, WQ, wq_ready, pq_ready, MSHR, warmup_complete, pc,
                 budget, lowerVars, unsaved>>

(* The prefetcher of this level may call prefetch_line, or not.            *)
Prefetched(q) == {q} \cup {AddPq(q, prefetch_line(a, l)) : a \in Addrs, l \in {HERE, BELOW}}
(* It is asked about a demand read or a prefetch from above.               *)
AfterPrefetcher(q, pkt) ==
  IF pkt.type \in {"LOAD", "PREFETCH"} /\ pkt.pf_origin_level < HERE THEN Prefetched(q) ELSE {q}

---------------------------------------------------------------------------
(* Blocks, misses and answers.                                             *)

Hits(a) == {w \in Ways : block[w].address # None /\ SameBlock(block[w].address, a)}
(* The first invalid way, or else the replacement policy's choice.         *)
Victims ==
  LET invalid == {w \in Ways : block[w].address = None}
  IN  IF invalid # {} THEN {Min(invalid)} ELSE Ways

Answered(pkt) ==
  [u \in Uppers |-> IF u \in pkt.to_return THEN waiting[u] \ {BlockOf[pkt.address]}
                                           ELSE waiting[u]]

Misses(s, b) == {i \in DOMAIN s : BlockOf[s[i].address] = b}
(* Mutant: the miss stays where it is in the list.                         *)
return_data_in_place(s, b) ==
  [s EXCEPT ![Min(Misses(s, b))].event = IF warmup_complete THEN FILL_LATENCY ELSE 0]

(* return_data: the miss moves behind the returned ones and before the     *)
(* others.                                                                 *)
return_data(s, b) ==
  LET i == Min(Misses(s, b))
      j == Min({k \in DOMAIN s : s[k].event = NEVER})
      d == [s EXCEPT ![i].event = IF warmup_complete THEN FILL_LATENCY ELSE 0]
  IN  [d EXCEPT ![i] = d[j], ![j] = d[i]]

Miss(pkt) == [address |-> pkt.address, type |-> pkt.type, to_return |-> pkt.to_return,
              event |-> NEVER]

(* Mutant: a merged read is not added to those that get the answer.        *)
MergeMissForgets(pkt) == MSHR

(* A miss already in flight takes the new requesters in; a prefetch gives  *)
(* way to a demand read, whose packet replaces the entry.                  *)
MergeMiss(pkt) ==
  LET i == Min(Misses(MSHR, BlockOf[pkt.address]))
  IN  [MSHR EXCEPT ![i] =
        IF MSHR[i].type = "PREFETCH" /\ pkt.type # "PREFETCH"
          THEN [Miss(pkt) EXCEPT !.event = MSHR[i].event]
          ELSE [MSHR[i] EXCEPT !.to_return = @ \cup pkt.to_return]]

LowerHasRoom == MapThenSumSet(LAMBDA b : lower[b], Blocks) < LowerReads
(* Mutant: the read goes out before the miss is listed, as in ptw.cc.      *)
SendMissFirst(pkt) ==
  LET b == BlockOf[pkt.address]
  IN  IF pkt.fill_level > HERE
        THEN UNCHANGED <<MSHR, lower>>
        ELSE /\ MSHR' = Append(MSHR, Miss(pkt))
             /\ lower' = IF b \in lower_wq THEN lower ELSE [lower EXCEPT ![b] = @ + 1]

(* A new miss that is sent.  The lower level answers at once what is in    *)
(* its write queue.                                                        *)
SendMiss(pkt) ==
  LET b == BlockOf[pkt.address]
      listed == Append(MSHR, Miss(pkt))
  IN  IF pkt.fill_level > HERE
        THEN UNCHANGED <<MSHR, lower>>
        ELSE IF b \in lower_wq
          THEN MSHR' = return_data(listed, b) /\ UNCHANGED lower
          ELSE MSHR' = listed /\ lower' = [lower EXCEPT ![b] = @ + 1]

InFlight(pkt) == Misses(MSHR, BlockOf[pkt.address]) # {}
CanMiss(pkt) == InFlight(pkt) \/ (Len(MSHR) # MSHR_SIZE /\ LowerHasRoom)
(* Mutant: a merged miss is sent to the lower level again.                 *)
readlike_miss_resent(pkt) ==
  /\ CanMiss(pkt)
  /\ IF InFlight(pkt)
       THEN MSHR' = MergeMiss(pkt) /\ lower' = [lower EXCEPT ![BlockOf[pkt.address]] = @ + 1]
       ELSE SendMiss(pkt)

readlike_miss(pkt) ==
  /\ CanMiss(pkt)
  /\ IF InFlight(pkt) THEN MSHR' = MergeMiss(pkt) /\ UNCHANGED lower
                      ELSE SendMiss(pkt)

(* filllike_miss: a dirty victim has to be taken by the lower level, which *)
(* merges it with a write of the same block or needs room for it.          *)
CanEvict(w) ==
  block[w].dirty => BlockOf[block[w].address] \in lower_wq \/ Cardinality(lower_wq) < LowerWrites
(* Mutant: only a store makes a block dirty.                               *)
DirtiesStoreOnly(pkt) == pkt.type = "RFO" /\ pkt.to_return = {}

Dirties(pkt) == pkt.type = "WRITEBACK" \/ (pkt.type = "RFO" /\ pkt.to_return = {})
filllike_miss(w, pkt) ==
  /\ CanEvict(w)
  /\ LET evicted == IF block[w].dirty THEN {BlockOf[block[w].address]} ELSE {}
         queued  == {BlockOf[WQ[i].item.address] : i \in DOMAIN WQ}
     IN  /\ lower_wq' = lower_wq \cup evicted
         /\ unsaved' = unsaved \ (evicted \ queued)
  /\ block' = [block EXCEPT ![w] = [address |-> pkt.address, dirty |-> Dirties(pkt)]]

---------------------------------------------------------------------------
(* operate(): handle_fill, handle_writeback, handle_read, handle_prefetch. *)

Spend == budget' = budget - 1 /\ UNCHANGED <<pc, warmup_complete>>
Goto(l, n) == pc' = l /\ budget' = n /\ UNCHANGED warmup_complete

StartCycle ==
  /\ pc = "idle" /\ Goto("fill", MAX_WRITE)
  /\ UNCHANGED <<block, queueVars, MSHR, lowerVars, waiting, unsaved>>

FillDue == pc = "fill" /\ budget > 0 /\ MSHR # <<>> /\ Head(MSHR).event = 0
Fill ==
  /\ FillDue
  /\ \E w \in Victims : filllike_miss(w, Head(MSHR))
  /\ waiting' = Answered(Head(MSHR))
  /\ MSHR' = Tail(MSHR)
  /\ Spend /\ UNCHANGED <<queueVars, lower>>
FillBlocked == FillDue /\ \E w \in Victims : ~ CanEvict(w)
FillDone ==
  /\ pc = "fill"
  /\ ~ FillDue \/ FillBlocked
  /\ Goto("writeback", budget)
  /\ UNCHANGED <<block, queueVars, MSHR, lowerVars, waiting, unsaved>>

WriteDue == pc = "writeback" /\ budget > 0 /\ wq_ready > 0
WritePkt == Head(WQ).item
WriteHit ==
  /\ WriteDue /\ Hits(WritePkt.address) # {}
  /\ block' = [block EXCEPT ![Min(Hits(WritePkt.address))].dirty = TRUE]
  /\ WriteQueue!Pop
  /\ Spend /\ UNCHANGED <<RQ, rq_ready, PQ, pq_ready, MSHR, lowerVars, waiting, unsaved>>
(* A store that misses reads the block first, anything else is filled in.  *)
StoreMiss ==
  /\ WriteDue /\ Hits(WritePkt.address) = {} /\ WritePkt.type = "RFO"
  /\ readlike_miss(WritePkt)
  /\ PQ' \in AfterPrefetcher(PQ, WritePkt)
  /\ WriteQueue!Pop
  /\ Spend /\ UNCHANGED <<block, RQ, rq_ready, pq_ready, lower_wq, waiting, unsaved>>
WriteMiss ==
  /\ WriteDue /\ Hits(WritePkt.address) = {} /\ WritePkt.type # "RFO"
  /\ \E w \in Victims : filllike_miss(w, WritePkt)
  /\ WriteQueue!Pop
  /\ Spend /\ UNCHANGED <<RQ, rq_ready, PQ, pq_ready, MSHR, lower, waiting>>
WriteBlocked ==
  /\ WriteDue /\ Hits(WritePkt.address) = {}
  /\ IF WritePkt.type = "RFO" THEN ~ CanMiss(WritePkt) ELSE \E w \in Victims : ~ CanEvict(w)
(* WQ.operate() ends the writes of the cycle.                              *)
WriteDone ==
  /\ pc = "writeback"
  /\ ~ WriteDue \/ WriteBlocked
  /\ WriteQueue!Tick
  /\ Goto("read", MAX_READ)
  /\ UNCHANGED <<block, RQ, rq_ready, PQ, pq_ready, MSHR, lowerVars, waiting, unsaved>>

ReadDue == pc = "read" /\ budget > 0 /\ rq_ready > 0
ReadPkt == Head(RQ).item
ReadHit ==
  /\ ReadDue /\ Hits(ReadPkt.address) # {}
  /\ waiting' = Answered(ReadPkt)
  /\ PQ' \in AfterPrefetcher(PQ, ReadPkt)
  /\ ReadQueue!Pop
  /\ Spend /\ UNCHANGED <<block, WQ, wq_ready, pq_ready, MSHR, lowerVars, unsaved>>
ReadMiss ==
  /\ ReadDue /\ Hits(ReadPkt.address) = {}
  /\ readlike_miss(ReadPkt)
  /\ PQ' \in AfterPrefetcher(PQ, ReadPkt)
  /\ ReadQueue!Pop
  /\ Spend /\ UNCHANGED <<block, WQ, wq_ready, pq_ready, lower_wq, waiting, unsaved>>
ReadBlocked == ReadDue /\ Hits(ReadPkt.address) = {} /\ ~ CanMiss(ReadPkt)
(* va_translate_prefetches moves a prefetch of a virtual address, if one   *)
(* is ready, to the prefetch queue.                                        *)
ReadDone ==
  /\ pc = "read"
  /\ ~ ReadDue \/ ReadBlocked
  /\ PQ' \in Prefetched(PQ)
  /\ Goto("prefetch", budget)
  /\ UNCHANGED <<block, RQ, rq_ready, WQ, wq_ready, pq_ready, MSHR, lowerVars, waiting, unsaved>>

PrefetchDue == pc = "prefetch" /\ budget > 0 /\ pq_ready > 0
PrefetchPkt == Head(PQ).item
PopPq(pkt) == \E q \in AfterPrefetcher(PQ, pkt) : PQ' = Tail(q) /\ pq_ready' = pq_ready - 1
PrefetchHit ==
  /\ PrefetchDue /\ Hits(PrefetchPkt.address) # {}
  /\ waiting' = Answered(PrefetchPkt)
  /\ PopPq(PrefetchPkt)
  /\ Spend /\ UNCHANGED <<block, RQ, rq_ready, WQ, wq_ready, MSHR, lowerVars, unsaved>>
PrefetchMiss ==
  /\ PrefetchDue /\ Hits(PrefetchPkt.address) = {}
  /\ readlike_miss(PrefetchPkt)
  /\ PopPq(PrefetchPkt)
  /\ Spend /\ UNCHANGED <<block, RQ, rq_ready, WQ, wq_ready, lower_wq, waiting, unsaved>>
PrefetchBlocked == PrefetchDue /\ Hits(PrefetchPkt.address) = {} /\ ~ CanMiss(PrefetchPkt)
(* RQ.operate() and PQ.operate(); the cycle's last call is to the          *)
(* prefetcher, which may call prefetch_line again.                         *)
EndCycle ==
  /\ pc = "prefetch"
  /\ ~ PrefetchDue \/ PrefetchBlocked
  /\ ReadQueue!Tick /\ PrefQueue!Tick
  /\ MSHR' = [i \in DOMAIN MSHR |-> [MSHR[i] EXCEPT !.event =
                IF @ \in {0, NEVER} THEN @ ELSE @ - 1]]
  /\ Goto("prefetcher", 0)
  /\ UNCHANGED <<block, WQ, wq_ready, lowerVars, waiting, unsaved>>
prefetcher_cycle_operate ==
  /\ pc = "prefetcher" /\ Goto("idle", 0)
  /\ PQ' \in Prefetched(PQ)
  /\ UNCHANGED <<block, RQ, rq_ready, WQ, wq_ready, pq_ready, MSHR, lowerVars, waiting, unsaved>>

---------------------------------------------------------------------------
(* The lower level, and the end of the warmup.                             *)

LowerReturns(b) ==
  /\ pc = "idle" /\ lower[b] > 0
  /\ lower' = [lower EXCEPT ![b] = @ - 1]
  /\ MSHR' = return_data(MSHR, b)
  /\ UNCHANGED <<block, queueVars, warmup_complete, pc, budget, lower_wq, waiting, unsaved>>

LowerWritesBack(b) ==
  /\ pc = "idle" /\ b \in lower_wq
  /\ lower_wq' = lower_wq \ {b}
  /\ UNCHANGED <<block, queueVars, MSHR, warmup_complete, pc, budget, lower, waiting, unsaved>>

CompleteWarmup ==
  /\ pc = "idle" /\ ~ warmup_complete /\ warmup_complete' = TRUE
  /\ UNCHANGED <<block, queueVars, MSHR, pc, budget, lowerVars, waiting, unsaved>>

Init ==
  /\ block = [w \in Ways |-> [address |-> None, dirty |-> FALSE]]
  /\ ReadQueue!Init /\ WriteQueue!Init /\ PrefQueue!Init
  /\ MSHR = <<>>
  /\ warmup_complete = FALSE
  /\ pc = "idle" /\ budget = 0
  /\ lower = [b \in Blocks |-> 0] /\ lower_wq = {}
  /\ waiting = [u \in Uppers |-> {}]
  /\ unsaved = {}

Operate ==
  \/ StartCycle \/ Fill \/ FillDone
  \/ WriteHit \/ StoreMiss \/ WriteMiss \/ WriteDone
  \/ ReadHit \/ ReadMiss \/ ReadDone
  \/ PrefetchHit \/ PrefetchMiss \/ EndCycle \/ prefetcher_cycle_operate

Next ==
  \/ Operate
  \/ \E u \in Uppers, a \in Addrs : add_rq(u, a)
  \/ \E a \in Addrs : add_wq(a)
  \/ \E u \in Prefetching, a \in Addrs, l \in {UP, HERE} : add_pq(u, a, l)
  \/ \E b \in Blocks : LowerReturns(b) \/ LowerWritesBack(b)
  \/ CompleteWarmup

Spec == Init /\ [][Next]_vars
FairSpec ==
  /\ Spec /\ WF_vars(Operate)
  /\ \A b \in Blocks : SF_vars(LowerReturns(b)) /\ SF_vars(LowerWritesBack(b))

---------------------------------------------------------------------------
(* Types of the variables.                                                 *)
TypeOK ==
  /\ block \in [Ways -> [address : Addrs \cup {None}, dirty : BOOLEAN]]
  /\ \A p \in {<<RQ, rq_ready, RQ_SIZE>>, <<WQ, wq_ready, WQ_SIZE>>, <<PQ, pq_ready, PQ_SIZE>>} :
       /\ p[1] \in Seq([item : Packet, delay : 0 .. HIT_LATENCY])
       /\ Len(p[1]) <= p[3] /\ p[2] \in 0 .. Len(p[1])
  /\ MSHR \in Seq([address : Addrs, type : {"LOAD", "PREFETCH", "RFO"},
                   to_return : SUBSET Uppers, event : 0 .. NEVER])
  /\ Len(MSHR) <= MSHR_SIZE
  /\ warmup_complete \in BOOLEAN
  /\ pc \in {"idle", "fill", "writeback", "read", "prefetch", "prefetcher"} /\ budget \in Nat
  /\ lower \in [Blocks -> Nat] /\ lower_wq \subseteq Blocks
  /\ waiting \in [Uppers -> SUBSET Blocks] /\ unsaved \subseteq Blocks

(* A block is missed once at a time, and the lower level owes one answer   *)
(* for each miss that waits: return_data always finds its entry, and never *)
(* one that has returned already (readlike_miss, return_data).             *)
OneReadPerMiss ==
  \A b \in Blocks :
    /\ Cardinality(Misses(MSHR, b)) <= 1
    /\ lower[b] = Cardinality({i \in Misses(MSHR, b) : MSHR[i].event = NEVER})

(* Misses stand in the order in which they can be filled: handle_fill only *)
(* looks at the front (return_data's swap).                                *)
MshrInOrder == \A i, j \in DOMAIN MSHR : i < j => MSHR[i].event <= MSHR[j].event

(* The places that will answer u for block b: queues and misses.           *)
Holders(u, b) ==
  {<<"RQ", i>> : i \in {k \in Found(RQ, b) : u \in RQ[k].item.to_return}} \cup
  {<<"PQ", i>> : i \in {k \in Found(PQ, b) : u \in PQ[k].item.to_return}} \cup
  {<<"MSHR", i>> : i \in {k \in Misses(MSHR, BlockOf[b]) : u \in MSHR[k].to_return}}

(* A block an upper level waits for is in exactly one place that will      *)
(* answer it (add_rq, add_pq, readlike_miss), "MSHR holds the most updated *)
(* information about this request" (return_data).  It fails where a level  *)
(* prefetches and another asks: the demand read's packet overwrites the    *)
(* prefetch's, whose to_return had just been merged with its own.          *)
RequestsHeld ==
  \A u \in Uppers, a \in Addrs :
    Cardinality(Holders(u, a)) = IF BlockOf[a] \in waiting[u] THEN 1 ELSE 0

(* A prefetch of u can meet the demand read of another level, or a store.  *)
MayBeForgotten(u) == u \in Prefetching /\ (Uppers # {u} \/ WriteType = "RFO")

(* No request is held twice or after its answer, and none is lost but a    *)
(* prefetch that a demand read or a store took over: a level that does not *)
(* prefetch is always answered from exactly one place, whatever the others *)
(* ask, prefetch and write meanwhile (add_rq, add_pq, readlike_miss).      *)
DemandsHeld ==
  \A u \in Uppers, a \in Addrs :
    \/ Cardinality(Holders(u, a)) = IF BlockOf[a] \in waiting[u] THEN 1 ELSE 0
    \/ Holders(u, a) = {} /\ MayBeForgotten(u)

(* A block that was written to and not yet written back is in the write    *)
(* queue or dirty, or is being read for a store: no eviction and no fill   *)
(* loses it (handle_writeback, filllike_miss).                             *)
WritesKept ==
  \A b \in unsaved :
    \/ \E i \in DOMAIN WQ : BlockOf[WQ[i].item.address] = b
    \/ \E w \in Ways : block[w].dirty /\ BlockOf[block[w].address] = b
    \/ \E i \in Misses(MSHR, b) : Dirties(MSHR[i])

(* Every read of an upper level is answered.                               *)
RequestsAnswered ==
  \A u \in Uppers, b \in Blocks : b \in waiting[u] ~> b \notin waiting[u]
=============================================================================
