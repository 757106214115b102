# TLA+ models of MindPalace

MindPalace traces a full-system guest with QEMU and replays the trace in a
modified ChampSim. This directory holds TLA+ models of its concurrent and
queueing core, the TLC configurations that check them and TLAPS proofs of the
results that hold for every parameter. `PROJECT.json` maps every definition to
the source lines it models and lists runs, mutants, findings, hazards and
theorems.

Run a check with `tlc -config X.cfg MC<Module>`, a proof with
`tlapm <Module>Proofs.tla`.

## The system

Trace side (QEMU):

| part | state | operations | what is hard |
|---|---|---|---|
| simple trace backend, `qemu/trace/simple.c` | ring buffer, `trace_idx`, `writeout_idx`, `trace_available`, `trace_writeout_enabled`, file, zlib buffer | guest threads claim, fill and finish a record; the writeout thread copies records out; the monitor opens, closes and flushes | lock-free claims, indexes that wrap, validity marked by one bit, two condition variables, close against write |
| tracing plugin, `tests/plugin/cache_test.c`, with `plugins/api.c` and `cputlb.c` | `g_pqii_data`: tracing on or off, instruction count | callbacks before an instruction, at a marker, after an access, each writing an event | instructions abandoned at a fault or recompiled for I/O, interrupts, markers anywhere, the instruction limit |

Simulation side (ChampSim). Everything runs in one thread: `main.cc` calls
`operate()` of every core, cache, walker and memory controller once per cycle.
What interleaves are the levels of the hierarchy, which call each other
(`add_rq`, `add_wq`, `add_pq` downwards, `return_data` upwards), sometimes from
inside one another's calls.

| part | state | operations | what is hard |
|---|---|---|---|
| `delay_queue`, `circular_buffer` | two rings and a saved iterator | `push_back`, `push_back_ready`, `pop_front`, `operate` | wrap-around, an iterator kept across changes, bisection of a range that has to be partitioned |
| `VirtualMemory` | page map, page tables, free list | `va_to_pa`, `get_pte_pa` | allocation on first use in any order, the free list's end |
| `PageTableWalker`, `PagingStructureCache` | read queue, MSHR, four caches | `add_rq`, `operate`, `return_data` | faults that reorder the MSHR, refused reads, answers given inside a call, stale cached starts |
| `CACHE` | blocks, read, write and prefetch queues, MSHR | `add_rq`, `add_wq`, `add_pq`, `prefetch_line`, `operate`, `return_data` | merging, bounded queues and MSHR, evictions that need room below |
| `MEMORY_CONTROLLER` | read and write queues, banks, data bus, write mode | `add_rq`, `add_wq`, `operate` | mode switches with requests scheduled |
| `O3_CPU` | fetch, decode, dispatch buffers, ROB, load and store queues | pipeline stages in `operate` | store-to-load forwarding, completion out of order, fetch stall |
| `tracereader` | position in the trace, one instruction read ahead | `open`, `get` | the grammar of events it asserts, accesses attributed by adjacency, branch outcomes told from the next instruction |
| main loop | warmup and simulation flags | cycle loop | cores that finish warmup at different times |
| replacement, prefetchers, branch predictors, BTB | tables | heuristics | nothing a request's fate depends on |

## Modules

| module | models | composed with |
|---|---|---|
| `SimpleTrace` | the trace backend | |
| `DelayFifo` | what a delay queue promises: FIFO order, release after the delay | |
| `DelayQueue` | `delay_queue` over `circular_buffer` | refines `DelayFifo` |
| `VirtualMemory` | `vmem.cc` | |
| `PagingStructureCache` | the four caches of `ptw.cc` and the LRU of `util.h` | extends `VirtualMemory` |
| `PageTableWalker` | `ptw.cc` | extends the caches, uses `DelayFifo` as its read queue, and the memory through `va_to_pa` and `get_pte_pa` |
| `Cache` | `cache.cc` | uses `DelayFifo` three times |
| `Dram` | one channel of `dram_controller.cc` | |
| `TracePlugin` | the callbacks of `cache_test.c` and the guest that triggers them | |
| `TraceReader` | the QEMU reader of `tracereader.cc`, the branch part of `init_instruction` | extends `TracePlugin`, whose file it reads |
| `O3Cpu` | the back end of `ooo_cpu.cc` | |
| `SimpleTraceProofs`, `SimpleTraceRecordProofs`, `DelayQueueProofs`, `PageTableWalkerProofs`, `DramProofs`, `CacheProofs`, `TraceReaderProofs`, `O3CpuProofs` | theorems | extend the module they are about; `PageTableWalkerProofs` also has those of `VirtualMemory` |
| `MC*` | instances for TLC | |

`DelayQueue` is shown to implement `DelayFifo` once; the walker and the cache
then use the abstract queue, which keeps ring positions out of their states.

### SimpleTrace

The unit is one 8-byte word; the header is two words, the event word, whose top
bit is `TRACE_RECORD_VALID`, and one for the rest. Indexes count modulo
`UIntRange`, a multiple of the buffer length as 2^32 is. Each producer goes
through the steps of `trace_record_start` (read `trace_idx`, wait for space,
compare and exchange, header), `trace_record_write_u64` (one step per argument)
and `trace_record_finish` (header rewritten with the valid bit, in two steps;
threshold check; kick). The writer waits, scans, copies, clears and writes. The
monitor executes the calls of `st_set_trace_file_enabled`, `st_set_trace_file`
and `st_flush_trace_buffer`, one step between points where it holds the lock or
waits. `pending` and `owed` are history variables: the claims not yet written,
and the records a flush has promised.

Two scheduling bounds are part of the model. `MaxIdxAge` limits how much others
claim while a producer holds an index it read: without it the index may wrap
once round, and the compare and exchange succeeds on an old value, which takes
4 GiB of trace during one preemption. Others may claim up to an index range less
one buffer and one word: one word more, and a record as long as the buffer could
close the circle. `MaxFinishAge` limits it while a producer is inside the last
`write_to_buffer`: a producer stalled there while a whole buffer is traced would
write an old header over a new record. Nothing in the code prevents it. `NotLapped`, at
most a buffer and one word, since the word it still writes is the second of its
record, is met by the instances of the passing runs and is a hypothesis of the
theorems about records; with larger bounds the record is overwritten (see the known
failing instances).

The two live runs differ in the number of producers: with one, a wait always
ends; with two, `SimpleTraceSpin` shows the wait that does not (a finding).

### DelayQueue

Positions, `head_`, `tail_` and the saved `_end_ready` of the code over two
rings of `Size + 1` positions. Delays stop at 0, where the code lets them go on
below 0; only `<= 0` is ever asked. `std::partition_point` on a range that is not
partitioned may return any boundary a bisection can end at (`PartitionPoints`).
With one CPU the delays of the members never decrease towards the back, which is
why the range is partitioned; with two it is not, and a member may be released
before its time (see the known failing instances).

### VirtualMemory, PagingStructureCache, PageTableWalker

A virtual page is the function of its table offsets; a physical page is its
number. Every pass through a loop of `handle_fill` and `handle_read` is a step,
with the rest of the cycle's budget in `budget`; the STLB and the L1D act between
cycles. The L1D may accept, merge, refuse, or answer inside the call when the
entry's page is also a data page with a store in its write queue, which frames
given to both can make happen (`TablesCollide`). The constructor's free list holds the
frames after the root's, which tables take without consulting it, so this is the normal
case. `lru_updater` and `Victim`
are the code's, including that all blocks begin with equal ages.

### Cache

One set: blocks compete for `NUM_WAY` ways and the replacement policy may choose
any of them when none is invalid; prefetchers may prefetch any address whenever
the code calls them. LOAD stands for every read that is not a prefetch.
`waiting` is what the upper levels were promised, `unsaved` a history variable:
the blocks written to whose content has not reached the lower level. The lower
level takes a bounded number of reads and writes, answers at once what is in its
write queue and otherwise answers each read once.

The virtual address prefetch queue is represented by the prefetch it adds in
`ReadDone`. Bypass (no policy in the tree asks for it), `prefetch_as_load` and
`invalidate_entry` (never called) are left out. `add_rq` asks for room only for a
packet that is neither forwarded nor merged, as in the code.

### Dram

Channels share nothing, so one stands for all. `operate` is one step, composed of
five functions of the channel in the order of the code: `FinishRequest`,
`SwitchMode`, `PutOnBus`, `SchedulePacket` and `NextCycle`. A request is a block
number, 0 the empty slot; rank, bank and row are computed from it as
`dram_get_rank`, `dram_get_bank` and `dram_get_row` do. Times are relative to
`current_cycle`. Past times keep their order and not their distance (`Aged`): the
code compares them with each other only, and so the state space is finite without
a bound on the clock. The levels above look for room before they read, as
`readlike_miss` does, and ask for a block once until it is answered; writes come at
any time. `waiting` is a history variable: who was promised an answer.

A write queue of one makes both watermarks 0, and the mode changes in every cycle
without work being done; `DramWriteQueue` excludes it.

### TracePlugin and TraceReader

The guest is a control flow graph (`Code`) whose instructions have a branch type, a
static target and a list of accesses. Each callback is an action: a marker
(`vcpu_insn_exec_before`), an instruction (`vcpu_insn_exec`, for the eight functions
that differ in the type only), an access (`vcpu_haddr`, with `tlb_plugin_lookup`
which writes the event unless the access is to a device). Between them the guest may
abandon the instruction at an access, to be executed again, or take an interrupt.
The launch scripts run QEMU with `-icount`, hence one thread: callbacks of two
instructions do not interleave. The two thresholds are small, so tracing starts late and
stops at the limit inside an instruction. The events carry two history fields: `to`,
where the guest went from an instruction without accesses, and `by`, the
instruction that made an access.

When QEMU has ended the reader opens the file and calls `get` until the end of the file
or an assertion stops it. `Exits`, `Asserts` and `NextInsn` say what
`read_single_instr_qemutrace` does at an instruction event; `get` stays one
instruction behind, and `init_instruction` tells the branch type again from the
registers `get` invents. Markers come anywhere, as the plugin traces every one; where
they make the reader abort is what `AbortsAtMarkers` says.

Met on the way, and no property's subject: an instruction abandoned at a fault is
traced twice; the store of a read-modify-write instruction is dropped, since only the first
access is kept; type `OTHERS` becomes a direct jump, always taken, to target 0, as
the core cannot tell it from its registers (`BranchesAsExecuted` excepts it).

### O3Cpu

The core is one record `cpu` that goes through the stages in the order of
`operate`: retire, complete, execute, schedule, memory returns, stores, loads, memory
scheduling, dispatch. Loops over the reorder buffer are written as sets where no
round depends on another; where one does the definition says how (`Visited`: adding an
instruction to a queue widens the search; `AddedStores`: stores go in the order of
`STA`; `complete_inflight_instruction`: the order in which instructions become
ready). An instruction is its place in the program and makes at most one access, which
is what the QEMU reader gives; instructions with several accesses (Pin traces) are
outside the model. There, a load that names an address twice would depend twice on one
store and fail the assertion of `execute_store`.

The front end hands over the next instruction at any time. The DTLB and the L1D accept
while they have room and answer in any order; requests that they merge are answered
one after the other here, and so count one by one against `MAX_READ`, where the code
handles all slots of a merged packet at once. What a slot goes through is the same; only
the cycle in which the second slot goes on can differ, and the DTLB and the L1D answer after any
number of cycles anyhow. `from` is a history field: which store a load got its value from.

## Runs

| run | result | instance |
|---|---|---|
| `SimpleTrace` | holds | 2 producers, records of 3 words, buffer of 7, index range 21; file on, off and flush at any time; symmetry of producers (safety only) |
| `SimpleTraceLive` | holds | 1 producer, two record lengths, buffer of 6 |
| `SimpleTraceSpin` | `BufferWaitEnds` violated | 2 producers |
| `SimpleTraceCleanup` | `BufferAliveWhenUsed` violated | flush and go on tracing |
| `DelayQueue` | holds | 4 members, latency 2, one CPU |
| `PageTableWalker` | holds | 3 pages that share tables at different levels, 2 MSHRs, tables colliding with data frames |
| `PageTableWalkerLive` | holds | 2 pages, tables apart from data frames |
| `Cache` | holds | 2 upper levels that read and write back 2 blocks, one of which prefetches; 1 way, queues of 1, 2 MSHRs, fill latency 1; symmetry of the blocks (safety only) |
| `CacheLive` | holds | 1 MSHR, stores, own prefetcher, 2 writes per cycle |
| `Dram` | holds | 2 levels above, 3 blocks of which 2 share a bank with different rows, read queue of 2, write queue of 3 (watermarks 2 and 2), 2 banks |
| `TraceReader` | holds | 8 instructions, one of each type, read-modify-write and device access, 7 events, tracing from the second to the sixth instruction, any marker at any time; deadlock is not checked, as the reader stops |
| `O3Cpu` | holds | all 2401 programs of 4 instructions over 7 kinds, and 16 of 6 that fill the reorder buffer of 5, of which some get stuck; load queue of 2, scheduler of 3, all else of 1 or 2 |

Why these bounds are enough for the cases to happen: a buffer of 7 words is no
multiple of the record length, so records wrap inside every field, the buffer is
full with two records and an index range of 21 wraps after seven; a queue of 4
wraps in a ring of 5; three pages share the root, then differ at level 3 and at
level 2, so caches hit at different levels, and two MSHRs let a fault reorder
them; two blocks in one way conflict at every fill, and every queue is full with
one entry; a write queue of 3 passes both watermarks with requests in both banks and
on the bus, so every mode switch has something to withdraw; 7 events are enough for a
marker, an abandoned instruction, its repetition, an interrupt and the end of tracing in
one trace, or for two instructions with two markers behind the second; the programs of six
instructions begin with an operation and a load that waits for its result; a store that
waits for the load and two more loads that wait for the store fill the load queue before the first load can
enter it, which is the deadlock. Two upper levels and a
prefetch are what it takes to forget one. Each property of a passing run has a mutant, a plausible slip in the code it is about,
that TLC refutes under the same configuration.

Fairness. The trace threads are scheduled fairly by the host: weak fairness of
each producer's next step inside a record, of the writer and of the monitor
inside a call; nobody has to start a record. `operate()` is called for ever by
the main loop: weak fairness of `Operate`. The lower levels answer between
cycles only, so their steps are enabled again and again, never continuously:
strong fairness stands for a level below that answers each read in finite time.
In the walker's run it answers the read of every walk. In `Dram` only `operate` is
fair. `O3Cpu` states no fairness: `Stuck` says of a state that the program has not
retired, that neither the front end nor a level below has anything to do and that the next
cycle changes nothing. A request outstanding below counts as something to do; that it is answered is
the business of `RequestsAnswered`, `WalkCompletes` and `ReadsAnswered`.

Where the code goes wrong in a case it is exposed to, the passing run includes that case
and its property says how far it goes: `StuckOnlyOnLoads`, `AbortsAtMarkers`,
`DemandsHeld` and `AwaitedOrShared` each hold in an instance in which the plainer `NoDeadlock`,
`NeverAborts`, `RequestsHeld` and `ReadsAwaited` fail.

What the runs assume and do not show: `FlushReturns` promises nothing while
producers trace without pause; `RecordsWrittenWhole` and `NoStrayValidWord` hold under
`NotLapped`; `WalkCompletes` is checked with tables apart from data frames, as a walk
that was answered inside the call waits for ever; `WalkOnPath` excepts the first read of a
walk from PSCL3; the free list holds more frames than there are pages (`VMemAssumption`),
since what `front()` of an empty list returns is undefined;
`WritesKept` is about blocks written back, since a store that
merges with a load in flight fills the block clean; `RequestsAnswered` is checked
with two blocks and one upper level; whether store misses to a third block could keep a
single MSHR busy for ever is open; `ReadsAnswered` of `Dram` promises nothing while writes
never stop; `BranchesAsExecuted` is about branches that no interrupt parts from their
successor.

## Proofs

TLAPS proves, for every value of the constants that the named assumptions
allow:

- `SimpleTraceProofs!TypeCorrect`: `Spec => []TypeOK`. `TypeInv` strengthens
  it by where `ev`, `rec_off` and the scanned word are within a record; one lemma
  per thread.
- `SimpleTraceProofs!WriterFileSafe`: `Spec => []WriterUsesOpenFile`. Alone it is
  not inductive: `FileInv` adds that writeout is enabled only over an open file,
  that it stays disabled from the halt to the resumption, and that after the second
  flush the writer is outside its loop. This is why `st_set_trace_file_enabled`
  needs both flushes.
- `SimpleTraceRecordProofs!ClaimsTile`, `RecordsWhole`, `NoStrayWord`, `FlushDone`:
  the four invariants of the trace buffer, for any number of producers and events, any
  buffer length and index width, under `NotLapped`. `RecordInv` looks at the buffer from `writeout_idx`
  (`Ring`) and has six parts: the claims fill the window between the two indexes
  (`Tiled`); an unfinished claim is the one its producer is filling, and the reverse
  (`Owners`); every cell holds what it should, a whole record in a finished claim, the
  words up to `rec_off` in an unfinished one, no top bit in cleared or free words
  (`Words`); an index held for the compare and exchange is not too old, and if it is
  still the newest the record fits (`Ages`); the last store of `trace_record_finish`
  hits a word that already has that value, or a word nobody reads (`Rewriting`, the part that
  needs `NotLapped`); and
  `RecordsWrittenWhole`. `Ages` is why `trace_record_start` may poll `writeout_idx`
  without reading `trace_idx` again: the window only shrinks meanwhile. `FlushInv` adds
  for `FlushComplete` that the owed records are the oldest and finished, so the scan
  cannot end before them. Sums of record lengths are a recursive function of the
  claims (`Offsets`); each fact about them is proved by the least index at which it
  would fail.
- `DelayQueueProofs!TypeCorrect` and `ReadyInRange`: the positions stay in the
  rings and `_end_ready` between front and back, for any number of CPUs. The
  invariant `RingInv` relates the three by their distance around the ring.
- `DelayQueueProofs!FifoRefinement`: with one CPU (`OneCpu`)
  `Spec => ImplementsDelayFifo`. `FifoInv` adds that delays do not decrease towards
  the back and are zero before the end of the warmup, so that the bisection has one
  possible result; then one lemma per operation maps it to a step of `DelayFifo`.
- `PageTableWalkerProofs!PagesGivenOnce`: `VMemSpec => []MappingsInjective`. The
  invariant says that tables lie below `next_pte_page`, that the free list is
  free of repetitions and of mapped frames, and that its length and the number of
  mapped pages add up; the last gives `FreeListNotEmpty`, that `front()` is never
  taken of an empty list.
- `PageTableWalkerProofs!TypeCorrect`, `InOrder`, `OwnPath`, `PagesHeld`: the invariants of
  the walker, for any page table depth above 4, any pages, sizes, latencies and fault penalty.
  `WalkerInv` adds to the invariant of the memory that tables are the pages from the root's on,
  in the order they were made (`TablesOK`); that a valid block of PSCL5, PSCL4 or PSCL2 names
  the page of the table its tag stands for, while one of PSCL3 names any page of tables
  (`CachesOK`); that the list of walks is sorted and each walk reads its own table, which
  exists, or is the first read of one that started from PSCL3 (`WalksOK`); and that queue, list and
  STLB agree on who waits (`HeldOnce`). That `OwnPath` recovers at the second read is why the
  exception is confined to the first: `FillNextLevel` looks the next table up by address and not
  from what was read. `list::sort` is modelled by rank; `SortPermutes` shows that ranks are
  a permutation, so no walk is lost or doubled by it.
- `PageTableWalkerProofs!PagesDistinct`: `MappingsInjective` of the walker. The walker's
  lookups are those of `VMemSpec` (lemma `OnlyLookups`), so `PagesGivenOnce` carries over.
- `PageTableWalkerProofs!NoneInVain`: `AwaitedOrShared`, for every free list. A read can
  be answered before `handle_read` or `handle_fill` has listed the walk only by forwarding from
  a store, and a store goes to data; so a walk that waits in vain is at a table whose frame
  is data too. Refusals, merges of two walks in one block, faults and retries cause none.
- `DramProofs!TypeCorrect`, `ScheduledOnce`, `BanksOneDirection`, `NoReadLost`: the four
  invariants of a memory channel, for every size of the queues, geometry and timing.
  `ChannelInv` is a predicate of the channel record, so that it can be carried through
  the five stages of `operate` one by one: besides the properties themselves it says that
  a queue holds an address once and that nobody waits for a write. One lemma per stage
  also says what the stage does to the readers held in the queue.
- `CacheProofs!TypeCorrect`, `OneRead`, `InOrder`: invariants of every cache level, for any
  number of upper levels and ways, any sizes, latencies and bandwidths. `CacheInv` says that
  each queue holds packets of its own kind, that a block is missed once, that the level below
  owes exactly the answers the unreturned misses wait for, that misses stand in the order
  of their events and none is delayed during the warmup, and that a dirty way holds an
  address. That none is delayed is why the swap of `return_data` keeps the order: it
  moves a returned miss to the place of the first unreturned one, with an event of zero in
  the warmup, which must not come before that of an earlier miss. One lemma per stage of `operate` and per operation
  of a neighbour.
- `CacheProofs!WritesStay`: `WritesKept`, where writes are write-backs. `Kept` is stronger, the
  block is queued or dirty: only a store (`RFO`) is ever kept by a miss, and a store that
  merges with a load in flight is filled clean, so the theorem needs its hypothesis.
- `CacheProofs!Held`: `DemandsHeld`, for any upper levels. `HeldInv` adds that a block has one
  entry in `RQ` and one in `PQ` and that a prefetch miss is waited for by levels that prefetch
  only. Hence the overwriting of the entry at `cache.cc:235` can lose only levels that
  prefetch, and those only if another level, or a store, can meet the prefetch: never at the
  first level under a core whose own prefetcher fills it, or in a chain of write-back levels.
- `TraceReaderProofs!TypeCorrect`, `InOrder`, `BranchesRight`, `LosesTwo`, `AbortsOnlyThere`:
  the plugin and the reader together, for every guest program, every placing of markers
  and both thresholds. `PluginInv` describes the traces the plugin writes: the accesses of an
  instruction follow it without a gap (`Runs`). `ReaderInv` says where `get` is in the file,
  that what it delivered so far is what the file says of those instructions, and that it has
  passed no instruction with two markers behind it (`NonePassed`). `Runs` also says that no
  access follows a marker, so the assertion can fail only at a second marker; that it is the
  first such place, and that a reader which exits had none, comes from `NonePassed`.

- `O3CpuProofs!TypeAlways`, `RegistersAlwaysReady`, `LoadsAlwaysSeeStores`, `SlotsAlwaysOwned`:
  the core, for every program of at most one access per instruction, every size of the reorder
  buffer and of the queues, every width and every latency. The invariants are predicates of the
  core record and are carried through the stages of `operate` one by one, a lemma on what
  a stage changes before the one on what it keeps. `RobInv` holds the bounds of the reorder
  buffer. `RegInv` says that an instruction counts exactly the uncompleted instructions that
  list it as a dependent (`Pending`), that the last writer of each register it reads is one of
  them until it completes, that it does not begin while there are any, and that
  `ready_to_execute` holds an instruction at most once; `RegistersReady` alone
  is not inductive, since it says nothing of those that have not begun. `MemInv` says of each
  slot of the two queues at which one place of its way it is (free, waiting for a store, a
  ready queue, at the DTLB, returned, at the L1D: `LoadAt`, `StoreAt`) and who owns
  it, of each store that its unfinished dependents wait in their slots (`Depends`), and of each
  load that does not wait that the older stores to its address have left the core. This last part
  is what makes a value from the L1D the right one: `add_load_queue` looks for the store among
  all older instructions of the reorder buffer, entered into the store queue or not, and a store
  retires only once the L1D has taken it. Inside
  `do_memory_scheduling` instructions are entered before any is marked as begun;
  `MemInv(c, A)` has the set `A` of those as a parameter and is `MemInv(cpu, {})` between
  cycles.

Only model-checked: liveness, which is beyond these provers, and `StuckOnlyOnLoads` of the
core. It is about states in which a whole `Cycle` changes nothing, and not kept by any stage
alone: a proof would have to follow the chain of who waits for whom to its oldest member.

## Findings

`PROJECT.json` gives each with its lines and the comment it contradicts.

| run | where | what |
|---|---|---|
| `SimpleTraceSpin` | `simple.c:287` | the wait for buffer space can spin for ever |
| `SimpleTraceCleanup` | `simple.c:607` | `trace-file flush` frees the compression buffer in use |

### Known failing instances

Each row is a change to a configuration above after which TLC finds the violation, in
a minute or less. The definitions stand in the modules for this purpose.

| change | fails | where | what happens |
|---|---|---|---|
| `SimpleTrace.cfg`: `MaxIdxAge = 13`, `MaxFinishAge = 12` | `RecordsWrittenWhole` | `simple.c:346` | `trace_record_finish` marks the record by writing the whole header again, valid bit first; the writer may release the record before the rest is stored, and if the others claim a whole buffer meanwhile the rest lands in a record of theirs |
| `DelayQueue.cfg`: `Cpus = {c1, c2}` | `ImplementsDelayFifo` | `delay_queue.hpp:155` | a cpu in warmup pushes a ready member behind a delayed one; `partition_point` on that range may release both |
| `PageTableWalker.cfg`: add `ReadsAwaited` | `ReadsAwaited` | `ptw.cc:140` | a read that `add_rq` answers by forwarding, inside the call, is waited for all the same |
| `PageTableWalker.cfg`: add `WalkOnPathFromPSCL3` | `WalkOnPathFromPSCL3` | `ptw.cc:119` | PSCL3 is filled under the condition of PSCL2; a walk that hits it starts at a table that is not its own |
| `Cache.cfg`: add `RequestsHeld` | `RequestsHeld` | `cache.cc:235` | a demand read replaces the entry of a prefetch in flight; another level that waited for the prefetch is never answered |
| `TraceReader.cfg`: add `NeverAborts` | `NeverAborts` | `tracereader.cc:286` | two markers behind an instruction without access, such as the end of one traced section and the begin of the next, abort the simulation |
| `O3Cpu.cfg`: add `NoDeadlock` | `NoDeadlock` | `ooo_cpu.cc:613` | loads that wait for a store fill the load queue, the store waits for a register, its writer for a load that finds no slot; the simulator ends in its deadlock check. The default of `config.sh:77` has 128 slots for a reorder buffer of 352 |

Smaller disagreements met while reading: `MEMORY_CONTROLLER::add_rq` returns 0 when
its queue is full where `memory_class.h:31-37` documents -2 for that and 0 for a
merge; the comment at `tracereader.cc:91` speaks of 134046 bytes where 134081 are skipped;
`config.sh:26` passes the sizes of the dispatch and decode buffers in the order
opposite to the constructor's (they are equal by default).

## Plan

1. Done: trace backend, delay queue, virtual memory, walker, cache, memory
   controller, plugin and reader, back end of the core.
2. Proofs. Done: every invariant of the passing runs but `StuckOnlyOnLoads`, and the
   refinement of `DelayFifo`.
3. Composition: `Cache` over `Dram` in place of its environment.
4. The front end of `O3_CPU`: fetch, decoded instruction buffer, branch stall.

## Not modelled

Replacement policies, prefetchers, branch predictors and BTB: heuristics, any
choice of theirs is already allowed in `Cache` and costs cycles only in the core. The
front end of the core, see the plan. The order of the operables in the main loop: every
component takes its steps in any order here. The decoding of branch types in
QEMU's translator, the ring of marker payloads and the `pqii` device. The readers of
Pin and cloudsuite traces. `config.sh` and the launch scripts: no state at run time. The
rest of QEMU, which is nearly all of the repository's lines, is upstream code; of it
MindPalace changes the trace backend and the hooks named above.
