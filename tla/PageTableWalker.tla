-------------------------- MODULE PageTableWalker --------------------------
(***************************************************************************)
(* PageTableWalker (src/ptw.cc): takes virtual pages from the STLB, reads  *)
(* one page table entry per level through the L1D and answers with the     *)
(* physical page.                                                          *)
(*                                                                         *)
(* operate() runs once per cycle: handle_fill, handle_read, RQ.operate.    *)
(* Each pass of one of its loops is a step, pc and budget say where the    *)
(* cycle is; the STLB and the L1D act between cycles.  The read queue is   *)
(* the queue DelayFifo specifies.                                          *)
(*                                                                         *)
(* event is event_cycle relative to current_cycle: PAST for any earlier    *)
(* cycle, NEVER for the largest uint64.  The list stays sorted by it, so   *)
(* earlier cycles need no finer distinction.                               *)
(***************************************************************************)
EXTENDS PagingStructureCache

CONSTANTS
  RQ_SIZE, MSHR_SIZE, MAX_READ, MAX_FILL, Latency,
  minor_fault_penalty,
  BlockPTEs,     \* page table entries in one cache block
  LowerSize      \* reads of the walker the L1D can hold

PAST  == 0 - 1
NEVER == minor_fault_penalty + 1

ASSUME WalkerAssumption ==
  /\ {RQ_SIZE, MSHR_SIZE, MAX_READ, MAX_FILL, BlockPTEs, LowerSize} \subseteq Nat \ {0}
  /\ Latency \in Nat /\ minor_fault_penalty \in Nat \ {0}

VARIABLES
  RQ, rq_ready,      \* delay_queue: members, and how many are ready
  MSHR,              \* list of walks in flight
  warmup_complete,
  pc, budget,        \* where operate() is
  lower,             \* L1D: block -> reads it will answer
  stlb               \* STLB: pages it waits for

queueVars == <<RQ, rq_ready>>
vars == <<vmemVars, block, queueVars, MSHR, warmup_complete, pc, budget, lower, stlb>>

ReadQueue == INSTANCE DelayFifo WITH q <- RQ, released <- rq_ready,
                                     Size <- RQ_SIZE, Items <- VPages

(* Pages that can hold a table: get_pte_pa hands them out in their order.  *)
Pages == CR3 .. CR3 + Cardinality(TableKeys) - 1
Offsets == {v[l] : v \in VPages, l \in 0 .. pt_levels - 1}
Address == [page : Pages, off : Offsets]
BlockOf(a) == <<a.page, a.off \div BlockPTEs>>
Blocks == {BlockOf(a) : a \in Address}

---------------------------------------------------------------------------
(* The MSHR list.                                                          *)

(* list::sort by event cycle, which is stable: the walk that Upto counts k  *)
(* walks for, those before it and itself, comes at place k.                 *)
Upto(s, i) ==
  {j \in DOMAIN s : s[j].event < s[i].event \/ (s[j].event = s[i].event /\ j <= i)}
SortByEvent(s) ==
  [k \in DOMAIN s |-> s[CHOOSE i \in DOMAIN s : Cardinality(Upto(s, i)) = k]]
(* Mutant: the list is left in its old order.                              *)
return_data_unsorted(s, b) ==
  [i \in DOMAIN s |-> IF BlockOf(s[i].address) = b THEN [s[i] EXCEPT !.event = 0] ELSE s[i]]

(* return_data: every walk that waits for the block is due now.            *)
return_data(s, b) ==
  SortByEvent([i \in DOMAIN s |->
    IF BlockOf(s[i].address) = b THEN [s[i] EXCEPT !.event = 0] ELSE s[i]])

(* The front of the list, delayed by a minor fault.                        *)
Faulted(s) == SortByEvent([s EXCEPT ![1].event = minor_fault_penalty])

Outstanding == Cardinality({r \in Blocks \X {1, 2} : r[2] <= lower[r[1]]})

(* What lower_level->add_rq can do with a read: forward it from a store to *)
(* that address that waits in the L1D's write queue (a data page is stored *)
(* to), and so return it before the call does; merge it; queue it; or,     *)
(* with a full queue, refuse.  The L1D holds a block at most twice, in its *)
(* queue and in its MSHR.  others is the list return_data looks through.   *)
Forwarded(a) == a.page \in DataFrames
Accept(a, others, walk) ==
  \/ /\ Forwarded(a)
     /\ MSHR' = Append(return_data(others, BlockOf(a)), walk)
     /\ UNCHANGED lower
  \/ /\ lower[BlockOf(a)] > 0
     /\ MSHR' = Append(others, walk)
     /\ UNCHANGED lower
  \/ /\ lower[BlockOf(a)] < 2 /\ Outstanding < LowerSize
     /\ MSHR' = Append(others, walk)
     /\ lower' = [lower EXCEPT ![BlockOf(a)] = @ + 1]
Refuse(a) == lower[BlockOf(a)] < 2 /\ Outstanding >= LowerSize

---------------------------------------------------------------------------
(* handle_fill, one pass of its loop.                                      *)

FillDue == pc = "fill" /\ budget > 0 /\ MSHR # <<>> /\ Head(MSHR).event <= 0

Spend == budget' = budget - 1 /\ UNCHANGED <<pc, warmup_complete, queueVars>>

(* Mutant: an answered walk is not erased from the list.                   *)
FillAnswerKept ==
  /\ FillDue
  /\ LET m == Head(MSHR) IN
       /\ m.level = 0
       /\ ~ (warmup_complete /\ va_fault(m.v_address))
       /\ va_to_pa(m.v_address)
       /\ stlb' = stlb \ {m.v_address}
  /\ Spend /\ UNCHANGED <<block, lower, MSHR>>

(* Translation complete: the STLB gets its answer ...                      *)
FillAnswer ==
  /\ FillDue
  /\ LET m == Head(MSHR) IN
       /\ m.level = 0
       /\ ~ (warmup_complete /\ va_fault(m.v_address))
       /\ va_to_pa(m.v_address)
       /\ stlb' = stlb \ {m.v_address}
  /\ MSHR' = Tail(MSHR)
  /\ Spend /\ UNCHANGED <<block, lower>>

(* ... unless the page is new and costs a minor fault.                     *)
FillDataFault ==
  /\ FillDue
  /\ LET m == Head(MSHR) IN
       /\ m.level = 0
       /\ warmup_complete /\ va_fault(m.v_address)
       /\ va_to_pa(m.v_address)
  /\ MSHR' = Faulted(MSHR)
  /\ Spend /\ UNCHANGED <<block, lower, stlb>>

(* A page table that is new costs a minor fault as well.                   *)
FillPteFault ==
  /\ FillDue
  /\ LET m == Head(MSHR) IN
       /\ m.level > 0
       /\ warmup_complete /\ pte_fault(m.v_address, m.level)
       /\ get_pte_pa(m.v_address, m.level)
  /\ MSHR' = Faulted(MSHR)
  /\ Spend /\ UNCHANGED <<block, lower, stlb>>

(* Which caches a step of level l fills: PSCL3 is filled with PSCL2.       *)
CachesFilledAt(l) ==
  CASE l = PSCL5 -> {PSCL5}
    [] l = PSCL4 -> {PSCL4}
    [] l = PSCL2 -> {PSCL3, PSCL2}
    [] OTHER -> {}

FillCaches(m, page) ==
  block' = [l \in PscLevels |-> IF l \in CachesFilledAt(m.level)
                                  THEN fill_cache(l, page, m.v_address, block[l])
                                  ELSE block[l]]

NextEntry(m) == [page |-> PtePage(m.v_address, m.level),
                 off |-> get_offset(m.v_address, m.level)]

FillNextLevel ==
  /\ FillDue
  /\ LET m == Head(MSHR)
         a == NextEntry(m) IN
       /\ m.level > 0
       /\ ~ (warmup_complete /\ pte_fault(m.v_address, m.level))
       /\ get_pte_pa(m.v_address, m.level)
       /\ FillCaches(m, a.page)
       /\ Accept(a, Tail(MSHR),
                 [m EXCEPT !.event = NEVER, !.address = a, !.level = @ - 1])
  /\ Spend /\ UNCHANGED stlb

(* Mutant: a refused read is waited for.                                   *)
FillRefusedWaits ==
  /\ FillDue
  /\ LET m == Head(MSHR)
         a == NextEntry(m) IN
       /\ m.level > 0
       /\ ~ (warmup_complete /\ pte_fault(m.v_address, m.level))
       /\ get_pte_pa(m.v_address, m.level)
       /\ FillCaches(m, a.page)
       /\ Refuse(a)
       /\ MSHR' = Append(Tail(MSHR),
                         [m EXCEPT !.event = NEVER, !.address = a, !.level = @ - 1])
  /\ Spend /\ UNCHANGED <<lower, stlb>>

(* The L1D is full: the caches are filled all the same.                    *)
FillRefused ==
  /\ FillDue
  /\ LET m == Head(MSHR)
         a == NextEntry(m) IN
       /\ m.level > 0
       /\ ~ (warmup_complete /\ pte_fault(m.v_address, m.level))
       /\ get_pte_pa(m.v_address, m.level)
       /\ FillCaches(m, a.page)
       /\ Refuse(a)
  /\ Spend /\ UNCHANGED <<MSHR, lower, stlb>>

FillDone ==
  /\ pc = "fill" /\ ~ FillDue
  /\ pc' = "read" /\ budget' = MAX_READ
  /\ UNCHANGED <<vmemVars, block, queueVars, MSHR, warmup_complete, lower, stlb>>

---------------------------------------------------------------------------
(* handle_read, one pass of its loop.                                      *)

(* Mutant: a full list of walks does not stop handle_read.                 *)
ReadDueUnbounded == pc = "read" /\ budget > 0 /\ rq_ready > 0

ReadDue == pc = "read" /\ budget > 0 /\ rq_ready > 0 /\ Len(MSHR) # MSHR_SIZE

(* Mutant: a hit skips no level.                                           *)
WalkStartAtLevel(v) ==
  LET hits == {l \in PscLevels : IsHit(l, v)}
  IN  IF hits = {}
        THEN [address |-> [page |-> CR3, off |-> get_offset(v, pt_levels - 1)],
              level |-> pt_levels - 1]
        ELSE [address |-> check_hit(Min(hits), v), level |-> Min(hits)]

(* The walk starts at the root, or where the last paging structure cache   *)
(* that hits, the one nearest the leaf, says.                              *)
WalkStart(v) ==
  LET hits == {l \in PscLevels : IsHit(l, v)}
  IN  IF hits = {}
        THEN [address |-> [page |-> CR3, off |-> get_offset(v, pt_levels - 1)],
              level |-> pt_levels - 1]
        ELSE [address |-> check_hit(Min(hits), v), level |-> Min(hits) - 1]

(* The read goes out before the walk is in the list.                       *)
ReadStart ==
  /\ ReadDue
  /\ LET v == Head(RQ).item
         start == WalkStart(v) IN
       Accept(start.address, MSHR,
              [v_address |-> v, address |-> start.address, level |-> start.level,
               init |-> start.level, event |-> NEVER])
  /\ ReadQueue!Pop
  /\ budget' = budget - 1
  /\ UNCHANGED <<vmemVars, block, pc, warmup_complete, stlb>>

(* RQ.operate and the end of the cycle.                                    *)
EndCycle ==
  /\ ReadQueue!Tick
  /\ MSHR' = [i \in DOMAIN MSHR |->
                [MSHR[i] EXCEPT !.event = IF @ \in {PAST, NEVER} THEN @ ELSE @ - 1]]
  /\ pc' = "idle" /\ budget' = 0
  /\ UNCHANGED <<vmemVars, block, warmup_complete, lower, stlb>>

ReadDone == pc = "read" /\ ~ ReadDue /\ EndCycle
ReadRefused == ReadDue /\ Refuse(WalkStart(Head(RQ).item).address) /\ EndCycle

---------------------------------------------------------------------------
StartCycle ==
  /\ pc = "idle"
  /\ pc' = "fill" /\ budget' = MAX_FILL
  /\ UNCHANGED <<vmemVars, block, queueVars, MSHR, warmup_complete, lower, stlb>>

(* add_rq.  The STLB asks for a page once, and looks for room first.       *)
add_rq(v) ==
  /\ pc = "idle"
  /\ v \notin stlb
  /\ ReadQueue!Push(v, Latency)
  /\ stlb' = stlb \cup {v}
  /\ UNCHANGED <<vmemVars, block, MSHR, warmup_complete, pc, budget, lower>>

(* The L1D answers a read.                                                 *)
LowerReturns(b) ==
  /\ pc = "idle"
  /\ lower[b] > 0
  /\ lower' = [lower EXCEPT ![b] = @ - 1]
  /\ MSHR' = return_data(MSHR, b)
  /\ UNCHANGED <<vmemVars, block, queueVars, warmup_complete, pc, budget, stlb>>

CompleteWarmup ==
  /\ pc = "idle" /\ ~ warmup_complete
  /\ warmup_complete' = TRUE
  /\ UNCHANGED <<vmemVars, block, queueVars, MSHR, pc, budget, lower, stlb>>

Init ==
  /\ VMemInit /\ BlockInit
  /\ ReadQueue!Init
  /\ MSHR = <<>>
  /\ warmup_complete = FALSE
  /\ pc = "idle" /\ budget = 0
  /\ lower = [b \in Blocks |-> 0]
  /\ stlb = {}

Operate ==
  \/ StartCycle
  \/ FillAnswer \/ FillDataFault \/ FillPteFault \/ FillNextLevel \/ FillRefused
  \/ FillDone
  \/ ReadStart \/ ReadRefused \/ ReadDone

Next ==
  \/ Operate
  \/ \E v \in VPages : add_rq(v)
  \/ \E b \in Blocks : LowerReturns(b)
  \/ CompleteWarmup

Spec == Init /\ [][Next]_vars
(* The L1D answers the read a walk of v waits for.                         *)
AnswerWalk(v) ==
  \E i \in DOMAIN MSHR : MSHR[i].v_address = v /\ LowerReturns(BlockOf(MSHR[i].address))
FairSpec == Spec /\ WF_vars(Operate) /\ \A v \in VPages : SF_vars(AnswerWalk(v))

---------------------------------------------------------------------------
(* Types of the variables.                                                 *)
TypeOK ==
  /\ DOMAIN vpage_to_ppage_map \subseteq VPages
  /\ \A k \in DOMAIN page_table : page_table[k] \in Pages
  /\ RQ \in Seq([item : VPages, delay : 0 .. Latency]) /\ Len(RQ) <= RQ_SIZE
  /\ rq_ready \in 0 .. Len(RQ)
  /\ MSHR \in Seq([v_address : VPages, address : Address, level : 0 .. pt_levels - 1,
                   init : 0 .. pt_levels - 1, event : PAST .. NEVER])
  /\ Len(MSHR) <= MSHR_SIZE
  /\ warmup_complete \in BOOLEAN
  /\ pc \in {"idle", "fill", "read"} /\ budget \in 0 .. MAX_READ + MAX_FILL
  /\ lower \in [Blocks -> 0 .. 2]
  /\ stlb \subseteq VPages

(* The entry a walk of v reads with l levels to go.                        *)
OnPath(m) ==
  m.address =
    IF m.level = pt_levels - 1
      THEN [page |-> CR3, off |-> get_offset(m.v_address, m.level)]
      ELSE [page |-> PtePage(m.v_address, m.level + 1),
            off |-> get_offset(m.v_address, m.level + 1)]

(* Whatever paging structure caches, faults and retries did, a walk reads  *)
(* an entry of its own tables (handle_read, handle_fill), but for the      *)
(* first read of one that started from PSCL3.                              *)
WalkOnPath ==
  \A i \in DOMAIN MSHR :
    OnPath(MSHR[i]) \/ (MSHR[i].level = MSHR[i].init /\ MSHR[i].init = PSCL3 - 1)

(* "Translation from L5->L2", the constructor says of PSCL3: a walk that    *)
(* starts from it is at a table of its own as well.  It is not, as         *)
(* handle_fill fills PSCL3 with what belongs into PSCL2.                   *)
WalkOnPathFromPSCL3 ==
  \A i \in DOMAIN MSHR : MSHR[i].init = PSCL3 - 1 => OnPath(MSHR[i])

(* The L1D has forwarded a read when add_rq says -1 (memory_class.h), so a  *)
(* walk that waits has a read there that is yet to be answered.  It fails: *)
(* handle_read and handle_fill take every return but -2 for a read to wait *)
(* for, and list the walk only after it was answered.                      *)
ReadsAwaited ==
  \A i \in DOMAIN MSHR : MSHR[i].event = NEVER => lower[BlockOf(MSHR[i].address)] > 0

(* A walk waits in vain only at a table whose page was handed out a second *)
(* time, to data: any other walk that waits has a read outstanding in the  *)
(* L1D, whatever merges, refusals, faults and answers came before          *)
(* (handle_read, handle_fill, return_data).                                *)
AwaitedOrShared ==
  \A i \in DOMAIN MSHR :
    MSHR[i].event = NEVER =>
      \/ lower[BlockOf(MSHR[i].address)] > 0
      \/ MSHR[i].address.page \in DataFrames

(* No walk that is due stands behind one that is not: handle_fill looks    *)
(* only at the front of the list.                                          *)
MshrSorted ==
  \A i, j \in DOMAIN MSHR : i < j => MSHR[i].event <= MSHR[j].event

(* The walker owes the STLB exactly the pages it holds, each once.         *)
EachPageOnce ==
  LET held == [i \in DOMAIN RQ |-> RQ[i].item] \o [i \in DOMAIN MSHR |-> MSHR[i].v_address]
  IN  /\ {held[i] : i \in DOMAIN held} = stlb
      /\ Len(held) = Cardinality(stlb)

(* Every page the STLB asks for is translated.                             *)
WalkCompletes == \A v \in VPages : v \in stlb ~> v \notin stlb
=============================================================================
