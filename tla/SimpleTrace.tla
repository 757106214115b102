---------------------------- MODULE SimpleTrace ----------------------------
(***************************************************************************)
(* The simple trace backend (qemu/trace/simple.c): threads of the guest    *)
(* claim space in the ring trace_buf with a compare-and-swap, fill it and  *)
(* mark it valid; one writeout thread copies valid records to the trace    *)
(* file in claim order; the monitor thread opens, closes and flushes the   *)
(* file.                                                                   *)
(*                                                                         *)
(* Unit of the model: one 8-byte word.  All lengths in the code are        *)
(* multiples of 8 for the events scripts/events enables, and so is         *)
(* TRACE_BUF_LEN.  The 24-byte header is two words here: the event word,   *)
(* which carries TRACE_RECORD_VALID, and a descriptor word for             *)
(* timestamp_ns, length and pid.                                           *)
(*                                                                         *)
(* The critical sections of trace_lock neither block nor loop, so each one *)
(* is one step and the lock itself needs no variable; trace_buffer_lock    *)
(* protects a single read of writeout_idx and is one step too.             *)
(***************************************************************************)
EXTENDS Integers, Sequences, FiniteSets

CONSTANTS
  Producers,         \* threads that emit trace events
  Events,            \* trace event ids
  ArgWords,          \* [Events -> number of 64-bit arguments]
  TRACE_BUF_LEN,     \* words of trace_buf
  UIntRange,         \* trace_idx and writeout_idx count modulo this (2^32 bytes)
  MaxIdxAge,         \* bound: words claimed by others while a thread holds old_idx
  MaxFinishAge,      \* bound: words claimed by others while a thread is in finish
  MonitorOps,        \* trace-file commands the monitor thread is given
  None               \* no producer, no event

HeaderWords == 2
RecLen(e) == HeaderWords + ArgWords[e]
TRACE_BUF_FLUSH_THRESHOLD == TRACE_BUF_LEN \div 4

ASSUME BufferAssumption ==
  /\ TRACE_BUF_LEN \in Nat \ {0}
  /\ UIntRange \in Nat \ {0}
  /\ UIntRange % TRACE_BUF_LEN = 0
  /\ UIntRange > 2 * TRACE_BUF_LEN
  /\ ArgWords \in [Events -> Nat]
  /\ \A e \in Events : RecLen(e) <= TRACE_BUF_LEN
  /\ MaxIdxAge \in 0 .. UIntRange - TRACE_BUF_LEN - 1
  /\ MaxFinishAge \in Nat
  /\ MonitorOps \subseteq {"on", "off", "set", "flush"}
  /\ None \notin Producers \cup Events

(* Nobody is lapped inside trace_record_finish: while a thread is between  *)
(* the two halves of the header, the others do not claim a whole buffer.   *)
(* Nothing in the code enforces it; the theorems about records need it.    *)
NotLapped == MaxFinishAge <= TRACE_BUF_LEN + 1

VARIABLES
  trace_buf,         \* slot -> word
  trace_idx,         \* next word to claim
  writeout_idx,      \* next word to write out
  pc, ev, old_idx, rec_off, hdr,   \* per producer: control and locals
  trace_available, trace_writeout_enabled,
  wpc, recordptr,    \* writeout thread: control, the record it copied
  trace_fp,          \* "open" or "closed"
  ctb,               \* compressed_trace_buffer: "alive" or "freed"
  cpc, todo,         \* monitor thread: control, calls still to make
  pending, owed      \* history: claims not written out, records a flush owes

prodVars == <<pc, ev, old_idx, rec_off, hdr>>
ctlVars  == <<trace_fp, ctb, cpc, todo>>
vars == <<trace_buf, trace_idx, writeout_idx, prodVars, trace_available,
          trace_writeout_enabled, wpc, recordptr, ctlVars, pending, owed>>

---------------------------------------------------------------------------
(* Words, slots and unsigned arithmetic.                                   *)

Slots   == 0 .. TRACE_BUF_LEN - 1
Indexes == 0 .. UIntRange - 1
(* Mutant: an index that is not reduced to its width.                      *)
UAddUnbounded(a, b) == a + b

UAdd(a, b) == (a + b) % UIntRange
USub(a, b) == (a - b) % UIntRange
Slot(i)    == i % TRACE_BUF_LEN

(* A word: msb is its top bit (TRACE_RECORD_VALID in an event word), part  *)
(* what was stored, by and ev whose record it belongs to.  Arguments hold  *)
(* guest kernel addresses, so their top bit is set.                        *)
Word == [msb : BOOLEAN, part : {"zero", "event", "desc", "arg"},
         by : Producers \cup {None}, ev : Events \cup {None}]
ZeroWord        == [msb |-> FALSE, part |-> "zero", by |-> None, ev |-> None]
EventWord(p, e) == [msb |-> FALSE, part |-> "event", by |-> p, ev |-> e]
DescWord(p, e)  == [msb |-> FALSE, part |-> "desc", by |-> p, ev |-> e]
ArgWord(p, e)   == [msb |-> TRUE, part |-> "arg", by |-> p, ev |-> e]
LengthIn(w) == IF w.ev \in Events THEN RecLen(w.ev) ELSE 0

(* The record a producer means to store: what the writer should copy.      *)
Image(p, e) == [i \in 1 .. RecLen(e) |->
                  CASE i = 1 -> EventWord(p, e)
                    [] i = 2 -> DescWord(p, e)
                    [] OTHER -> ArgWord(p, e)]

(* A claim of the history variable pending.                                *)
Claim == [by : Producers, ev : Events, done : BOOLEAN]

(* Where claims that stand one behind the other start: Offsets(claims)[i]  *)
(* words lie in front of claim i + 1.                                      *)
Offsets(claims) ==
  LET end[i \in 0 .. Len(claims)] ==
        IF i = 0 THEN 0 ELSE end[i - 1] + RecLen(claims[i].ev)
  IN  end

(* Slots of n words starting at index i.                                   *)
SlotsFrom(i, n) == {Slot(i + k) : k \in 0 .. n - 1}

---------------------------------------------------------------------------
(* flush_trace_file and the two condition variables.  A signal on          *)
(* trace_available_cond wakes the writer if it sleeps; trace_empty_cond    *)
(* has at most one waiter, the monitor thread.                             *)

WakeWriter == wpc' = IF wpc = "asleep" THEN "await" ELSE wpc
(* Mutant: the writer is woken but trace_available is not set.             *)
flush_without_flag == WakeWriter /\ UNCHANGED trace_available

flush_trace_file ==
  /\ trace_available' = TRUE
  /\ WakeWriter
(* Mutant: trace_empty_cond is never signalled.                            *)
NoSignal == UNCHANGED cpc

SignalEmpty ==
  cpc' = CASE cpc = "empty1" -> "halt"
           [] cpc = "empty2" -> "switch"
           [] cpc = "emptyF" -> "cleanup"
           [] OTHER -> cpc

---------------------------------------------------------------------------
(* Producers: trace_record_start, trace_record_write_u64 and               *)
(* trace_record_finish.                                                    *)

Goto(p, l) == pc' = [pc EXCEPT ![p] = l]

(* Read trace_idx.                                                         *)
StartRecord(p, e) ==
  /\ pc[p] = "idle"
  /\ ev' = [ev EXCEPT ![p] = e]
  /\ old_idx' = [old_idx EXCEPT ![p] = trace_idx]
  /\ Goto(p, "wait")
  /\ UNCHANGED <<trace_buf, trace_idx, writeout_idx, rec_off, hdr, trace_available,
                 trace_writeout_enabled, wpc, recordptr, ctlVars, pending, owed>>

NewIdx(p) == UAdd(old_idx[p], RecLen(ev[p]))
(* Mutant: the space check looks at old_idx instead of new_idx.            *)
WaitForOldIdx(p) ==
  /\ pc[p] = "wait"
  /\ ~ (USub(old_idx[p], writeout_idx) > TRACE_BUF_LEN)
  /\ Goto(p, "cas")
  /\ UNCHANGED <<trace_buf, trace_idx, writeout_idx, ev, old_idx, rec_off, hdr,
                 trace_available, trace_writeout_enabled, wpc, recordptr, ctlVars,
                 pending, owed>>

(* The loop that polls writeout_idx until the record fits; old_idx is not  *)
(* read again inside it.                                                   *)
WaitForBuffer(p) ==
  /\ pc[p] = "wait"
  /\ ~ (USub(NewIdx(p), writeout_idx) > TRACE_BUF_LEN)
  /\ Goto(p, "cas")
  /\ UNCHANGED <<trace_buf, trace_idx, writeout_idx, ev, old_idx, rec_off, hdr,
                 trace_available, trace_writeout_enabled, wpc, recordptr, ctlVars,
                 pending, owed>>

(* Scheduling bounds: how far trace_idx may run ahead of a thread that     *)
(* holds an old_idx it has not swapped, or that has marked its record      *)
(* valid and not yet left write_to_buffer.                                 *)
WithinStallBounds(p) ==
  \A q \in Producers \ {p} :
    /\ pc[q] \in {"wait", "cas"} => USub(NewIdx(p), old_idx[q]) <= MaxIdxAge
    /\ pc[q] = "rewrite" => USub(NewIdx(p), old_idx[q]) <= MaxFinishAge

ClaimSpace(p) ==
  /\ pc[p] = "cas"
  /\ trace_idx = old_idx[p]
  /\ WithinStallBounds(p)
  /\ trace_idx' = NewIdx(p)
  /\ pending' = Append(pending, [by |-> p, ev |-> ev[p], done |-> FALSE])
  /\ Goto(p, "header")
  /\ UNCHANGED <<trace_buf, writeout_idx, ev, old_idx, rec_off, hdr, trace_available,
                 trace_writeout_enabled, wpc, recordptr, ctlVars, owed>>

ClaimFailed(p) ==
  /\ pc[p] = "cas"
  /\ trace_idx # old_idx[p]
  /\ old_idx' = [old_idx EXCEPT ![p] = trace_idx]
  /\ Goto(p, "wait")
  /\ UNCHANGED <<trace_buf, trace_idx, writeout_idx, ev, rec_off, hdr, trace_available,
                 trace_writeout_enabled, wpc, recordptr, ctlVars, pending, owed>>
(* Mutant: the header is stored with TRACE_RECORD_VALID already set.       *)
WriteValidHeader(p) ==
  /\ pc[p] = "header"
  /\ trace_buf' = [trace_buf EXCEPT
       ![Slot(old_idx[p])] = [EventWord(p, ev[p]) EXCEPT !.msb = TRUE],
       ![Slot(old_idx[p] + 1)] = DescWord(p, ev[p])]
  /\ rec_off' = [rec_off EXCEPT ![p] = HeaderWords]
  /\ Goto(p, "args")
  /\ UNCHANGED <<trace_idx, writeout_idx, ev, old_idx, hdr, trace_available,
                 trace_writeout_enabled, wpc, recordptr, ctlVars, pending, owed>>

WriteHeader(p) ==
  /\ pc[p] = "header"
  /\ trace_buf' = [trace_buf EXCEPT ![Slot(old_idx[p])] = EventWord(p, ev[p]),
                                    ![Slot(old_idx[p] + 1)] = DescWord(p, ev[p])]
  /\ rec_off' = [rec_off EXCEPT ![p] = HeaderWords]
  /\ Goto(p, "args")
  /\ UNCHANGED <<trace_idx, writeout_idx, ev, old_idx, hdr, trace_available,
                 trace_writeout_enabled, wpc, recordptr, ctlVars, pending, owed>>

trace_record_write_u64(p) ==
  /\ pc[p] = "args"
  /\ rec_off[p] < RecLen(ev[p])
  /\ trace_buf' = [trace_buf EXCEPT ![Slot(old_idx[p] + rec_off[p])] = ArgWord(p, ev[p])]
  /\ rec_off' = [rec_off EXCEPT ![p] = @ + 1]
  /\ UNCHANGED <<trace_idx, writeout_idx, pc, ev, old_idx, hdr, trace_available,
                 trace_writeout_enabled, wpc, recordptr, ctlVars, pending, owed>>

(* p's claim, the last of its own that is still open, is now finished.     *)
Finish(p) == [i \in DOMAIN pending |->
                IF pending[i].by = p THEN [pending[i] EXCEPT !.done = TRUE]
                                     ELSE pending[i]]

(* trace_record_finish reads the header back and stores all of it again:   *)
(* the event word, now valid, first ...                                    *)
MarkValid(p) ==
  /\ pc[p] = "args"
  /\ rec_off[p] = RecLen(ev[p])
  /\ hdr' = [hdr EXCEPT ![p] = trace_buf[Slot(old_idx[p] + 1)]]
  /\ trace_buf' = [trace_buf EXCEPT ![Slot(old_idx[p])].msb = TRUE]
  /\ pending' = Finish(p)
  /\ Goto(p, "rewrite")
  /\ UNCHANGED <<trace_idx, writeout_idx, ev, old_idx, rec_off, trace_available,
                 trace_writeout_enabled, wpc, recordptr, ctlVars, owed>>

(* ... and then the rest of the header.                                    *)
RewriteHeader(p) ==
  /\ pc[p] = "rewrite"
  /\ trace_buf' = [trace_buf EXCEPT ![Slot(old_idx[p] + 1)] = hdr[p]]
  /\ hdr' = [hdr EXCEPT ![p] = ZeroWord]
  /\ Goto(p, "check")
  /\ UNCHANGED <<trace_idx, writeout_idx, ev, old_idx, rec_off, trace_available,
                 trace_writeout_enabled, wpc, recordptr, ctlVars, pending, owed>>
(* Mutant: the writer is kicked only when the buffer is more than full.    *)
CheckAgainstLength(p) ==
  /\ pc[p] = "check"
  /\ Goto(p, IF USub(trace_idx, writeout_idx) > TRACE_BUF_LEN THEN "kick" ELSE "idle")
  /\ ev' = [ev EXCEPT ![p] = None]
  /\ old_idx' = [old_idx EXCEPT ![p] = 0]
  /\ rec_off' = [rec_off EXCEPT ![p] = 0]
  /\ UNCHANGED <<trace_buf, trace_idx, writeout_idx, hdr, trace_available,
                 trace_writeout_enabled, wpc, recordptr, ctlVars, pending, owed>>

CheckThreshold(p) ==
  /\ pc[p] = "check"
  /\ Goto(p, IF USub(trace_idx, writeout_idx) > TRACE_BUF_FLUSH_THRESHOLD
               THEN "kick" ELSE "idle")
  /\ ev' = [ev EXCEPT ![p] = None]
  /\ old_idx' = [old_idx EXCEPT ![p] = 0]
  /\ rec_off' = [rec_off EXCEPT ![p] = 0]
  /\ UNCHANGED <<trace_buf, trace_idx, writeout_idx, hdr, trace_available,
                 trace_writeout_enabled, wpc, recordptr, ctlVars, pending, owed>>

KickWriter(p) ==
  /\ pc[p] = "kick"
  /\ flush_trace_file
  /\ Goto(p, "idle")
  /\ UNCHANGED <<trace_buf, trace_idx, writeout_idx, ev, old_idx, rec_off, hdr,
                 trace_writeout_enabled, recordptr, ctlVars, pending, owed>>

---------------------------------------------------------------------------
(* writeout_thread.  dropped_events is never incremented since the full    *)
(* buffer makes producers wait, so the branch that reports it is dead.     *)

wait_for_trace_records_available ==
  /\ wpc = "await"
  /\ IF trace_available /\ trace_writeout_enabled
       THEN /\ trace_available' = FALSE
            /\ wpc' = "scan"
            /\ UNCHANGED cpc
       ELSE /\ SignalEmpty
            /\ wpc' = "asleep"
            /\ UNCHANGED trace_available
  /\ UNCHANGED <<trace_buf, trace_idx, writeout_idx, prodVars, trace_writeout_enabled,
                 recordptr, trace_fp, ctb, todo, pending, owed>>

(* get_trace_record finds no valid event word.                             *)
ScanEmpty ==
  /\ wpc = "scan"
  /\ ~ trace_buf[Slot(writeout_idx)].msb
  /\ wpc' = "fflush"
  /\ UNCHANGED <<trace_buf, trace_idx, writeout_idx, prodVars, trace_available,
                 trace_writeout_enabled, recordptr, ctlVars, pending, owed>>

(* n words from index i on, TRACE_RECORD_VALID taken off the first.        *)
RecordAt(i, n) ==
  [k \in 1 .. n |-> IF k = 1 THEN [trace_buf[Slot(i)] EXCEPT !.msb = FALSE]
                             ELSE trace_buf[Slot(i + k - 1)]]

(* get_trace_record copies the record and strips TRACE_RECORD_VALID.       *)
CopyRecord ==
  /\ wpc = "scan"
  /\ trace_buf[Slot(writeout_idx)].msb
  /\ recordptr' = RecordAt(writeout_idx, LengthIn(trace_buf[Slot(writeout_idx + 1)]))
  /\ wpc' = "clear"
  /\ UNCHANGED <<trace_buf, trace_idx, writeout_idx, prodVars, trace_available,
                 trace_writeout_enabled, ctlVars, pending, owed>>
(* Mutant: only the header of a consumed record is cleared.                *)
clear_header ==
  /\ wpc = "clear"
  /\ trace_buf' = [s \in Slots |->
                     IF s \in SlotsFrom(writeout_idx, HeaderWords)
                       THEN ZeroWord ELSE trace_buf[s]]
  /\ wpc' = "write"
  /\ UNCHANGED <<trace_idx, writeout_idx, prodVars, trace_available,
                 trace_writeout_enabled, recordptr, ctlVars, pending, owed>>

clear_buffer_range ==
  /\ wpc = "clear"
  /\ trace_buf' = [s \in Slots |->
                     IF s \in SlotsFrom(writeout_idx, Len(recordptr))
                       THEN ZeroWord ELSE trace_buf[s]]
  /\ wpc' = "write"
  /\ UNCHANGED <<trace_idx, writeout_idx, prodVars, trace_available,
                 trace_writeout_enabled, recordptr, ctlVars, pending, owed>>

(* Compress or write the record to trace_fp, then release its words.       *)
WriteRecord ==
  /\ wpc = "write"
  /\ writeout_idx' = UAdd(writeout_idx, Len(recordptr))
  /\ recordptr' = <<>>
  /\ pending' = IF pending = <<>> THEN <<>> ELSE Tail(pending)
  /\ owed' = IF owed = 0 THEN 0 ELSE owed - 1
  /\ wpc' = "scan"
  /\ UNCHANGED <<trace_buf, trace_idx, prodVars, trace_available,
                 trace_writeout_enabled, ctlVars>>

Fflush ==
  /\ wpc = "fflush"
  /\ wpc' = "await"
  /\ UNCHANGED <<trace_buf, trace_idx, writeout_idx, prodVars, trace_available,
                 trace_writeout_enabled, recordptr, ctlVars, pending, owed>>

---------------------------------------------------------------------------
(* The monitor thread: hmp_trace_file's operations, the start-up call of   *)
(* st_set_trace_file and the exit handler.                                 *)

(* st_set_trace_file closes, renames, restores and then always opens.      *)
Calls(op) ==
  IF op = "set"
    THEN <<"off", IF trace_fp = "open" THEN "on" ELSE "off", "on">>
    ELSE <<op>>

MonitorCommand(op) ==
  /\ cpc = "idle" /\ todo = <<>>
  /\ todo' = Calls(op)
  /\ UNCHANGED <<trace_buf, trace_idx, writeout_idx, prodVars, trace_available,
                 trace_writeout_enabled, wpc, recordptr, trace_fp, ctb, cpc, pending,
                 owed>>

NoChange(op) == (op = "on") = (trace_fp = "open")

(* Early return of st_set_trace_file_enabled.                              *)
EnabledNoChange ==
  /\ cpc = "idle" /\ todo # <<>>
  /\ Head(todo) # "flush" /\ NoChange(Head(todo))
  /\ todo' = Tail(todo)
  /\ UNCHANGED <<trace_buf, trace_idx, writeout_idx, prodVars, trace_available,
                 trace_writeout_enabled, wpc, recordptr, trace_fp, ctb, cpc, pending,
                 owed>>

(* Records a flush begun now must see written: the finished ones with no   *)
(* unfinished claim in front of them.                                      *)
FinishedPrefix ==
  Cardinality({n \in DOMAIN pending : \A i \in 1 .. n : pending[i].done})

(* flush_trace_file(true), up to and including g_cond_wait: the first of   *)
(* st_set_trace_file_enabled, or the one of st_flush_trace_buffer.         *)
FlushAndWait ==
  /\ cpc = "idle" /\ todo # <<>>
  /\ Head(todo) = "flush" \/ ~ NoChange(Head(todo))
  /\ flush_trace_file
  /\ cpc' = IF Head(todo) = "flush" THEN "emptyF" ELSE "empty1"
  /\ owed' = IF trace_writeout_enabled THEN FinishedPrefix ELSE 0
  /\ UNCHANGED <<trace_buf, trace_idx, writeout_idx, prodVars,
                 trace_writeout_enabled, recordptr, trace_fp, ctb, todo, pending>>
(* Mutant: the file is closed without waiting for the writer a second time. *)
HaltWithoutFlush ==
  /\ cpc = "halt"
  /\ trace_writeout_enabled' = FALSE
  /\ owed' = 0
  /\ cpc' = "switch"
  /\ UNCHANGED <<trace_buf, trace_idx, writeout_idx, prodVars, trace_available, wpc,
                 recordptr, trace_fp, ctb, todo, pending>>

(* trace_writeout_enabled = false, outside the lock.                       *)
HaltWriteout ==
  /\ cpc = "halt"
  /\ trace_writeout_enabled' = FALSE
  /\ owed' = 0
  /\ cpc' = "flush2"
  /\ UNCHANGED <<trace_buf, trace_idx, writeout_idx, prodVars, trace_available, wpc,
                 recordptr, trace_fp, ctb, todo, pending>>

SecondFlush ==
  /\ cpc = "flush2"
  /\ flush_trace_file
  /\ cpc' = "empty2"
  /\ UNCHANGED <<trace_buf, trace_idx, writeout_idx, prodVars, trace_writeout_enabled,
                 recordptr, trace_fp, ctb, todo, pending, owed>>

(* Open the file and write header and mapping; a failed write closes it.   *)
OpenFile ==
  /\ cpc = "switch" /\ Head(todo) = "on"
  /\ \/ trace_fp' = "open" /\ cpc' = "resume" /\ UNCHANGED todo
     \/ trace_fp' = "closed" /\ cpc' = "idle" /\ todo' = Tail(todo)
  /\ UNCHANGED <<trace_buf, trace_idx, writeout_idx, prodVars, trace_available,
                 trace_writeout_enabled, wpc, recordptr, ctb, pending, owed>>

CloseFile ==
  /\ cpc = "switch" /\ Head(todo) = "off"
  /\ trace_fp' = "closed"
  /\ todo' = Tail(todo)
  /\ cpc' = "idle"
  /\ UNCHANGED <<trace_buf, trace_idx, writeout_idx, prodVars, trace_available,
                 trace_writeout_enabled, wpc, recordptr, ctb, pending, owed>>

ResumeWriteout ==
  /\ cpc = "resume"
  /\ trace_writeout_enabled' = TRUE
  /\ cpc' = "resumed"
  /\ UNCHANGED <<trace_buf, trace_idx, writeout_idx, prodVars, trace_available, wpc,
                 recordptr, trace_fp, ctb, todo, pending, owed>>

ResumeKick ==
  /\ cpc = "resumed"
  /\ flush_trace_file
  /\ todo' = Tail(todo)
  /\ cpc' = "idle"
  /\ UNCHANGED <<trace_buf, trace_idx, writeout_idx, prodVars, trace_writeout_enabled,
                 recordptr, trace_fp, ctb, pending, owed>>

(* st_flush_trace_buffer ends in compressed_simple_trace_buffer_cleanup,   *)
(* which finishes the gzip stream and frees compressed_trace_buffer.       *)
Cleanup ==
  /\ cpc = "cleanup"
  /\ ctb' = "freed"
  /\ owed' = 0
  /\ todo' = Tail(todo)
  /\ cpc' = "idle"
  /\ UNCHANGED <<trace_buf, trace_idx, writeout_idx, prodVars, trace_available,
                 trace_writeout_enabled, wpc, recordptr, trace_fp, pending>>
---------------------------------------------------------------------------
(* st_init has started the writeout thread and st_set_trace_file is about  *)
(* to be called.                                                           *)
Init ==
  /\ trace_buf = [s \in Slots |-> ZeroWord]
  /\ trace_idx = 0 /\ writeout_idx = 0
  /\ pc = [p \in Producers |-> "idle"]
  /\ ev = [p \in Producers |-> None]
  /\ old_idx = [p \in Producers |-> 0]
  /\ rec_off = [p \in Producers |-> 0]
  /\ hdr = [p \in Producers |-> ZeroWord]
  /\ trace_available = FALSE /\ trace_writeout_enabled = FALSE
  /\ wpc = "await" /\ recordptr = <<>>
  /\ trace_fp = "closed" /\ ctb = "alive"
  /\ cpc = "idle" /\ todo = Calls("set")
  /\ pending = <<>> /\ owed = 0

ProducerStep(p) ==
  \/ WaitForBuffer(p) \/ ClaimSpace(p) \/ ClaimFailed(p) \/ WriteHeader(p)
  \/ trace_record_write_u64(p) \/ MarkValid(p) \/ RewriteHeader(p)
  \/ CheckThreshold(p) \/ KickWriter(p)

WriterStep ==
  \/ wait_for_trace_records_available \/ ScanEmpty \/ CopyRecord
  \/ clear_buffer_range \/ WriteRecord \/ Fflush

MonitorStep ==
  \/ EnabledNoChange \/ FlushAndWait \/ HaltWriteout \/ SecondFlush \/ OpenFile
  \/ CloseFile \/ ResumeWriteout \/ ResumeKick \/ Cleanup

Next ==
  \/ \E p \in Producers, e \in Events : StartRecord(p, e)
  \/ \E p \in Producers : ProducerStep(p)
  \/ WriterStep
  \/ \E op \in MonitorOps : MonitorCommand(op)
  \/ MonitorStep

Spec == Init /\ [][Next]_vars
FairSpec ==
  /\ Spec
  /\ \A p \in Producers : WF_vars(ProducerStep(p))
  /\ WF_vars(WriterStep) /\ WF_vars(MonitorStep)
---------------------------------------------------------------------------
(* Types of the variables.                                                 *)
TypeOK ==
  /\ trace_buf \in [Slots -> Word]
  /\ trace_idx \in Indexes /\ writeout_idx \in Indexes
  /\ pc \in [Producers -> {"idle", "wait", "cas", "header", "args", "rewrite",
                           "check", "kick"}]
  /\ ev \in [Producers -> Events \cup {None}]
  /\ old_idx \in [Producers -> Indexes]
  /\ rec_off \in [Producers -> 0 .. TRACE_BUF_LEN]
  /\ hdr \in [Producers -> Word]
  /\ trace_available \in BOOLEAN /\ trace_writeout_enabled \in BOOLEAN
  /\ wpc \in {"await", "asleep", "scan", "clear", "write", "fflush"}
  /\ recordptr \in Seq(Word) /\ Len(recordptr) <= TRACE_BUF_LEN
  /\ trace_fp \in {"open", "closed"} /\ ctb \in {"alive", "freed"}
  /\ cpc \in {"idle", "empty1", "halt", "flush2", "empty2", "switch", "resume",
              "resumed", "emptyF", "cleanup"}
  /\ todo \in Seq({"on", "off", "flush"})
  /\ pending \in Seq(Claim)
  /\ owed \in Nat

(* The claims not yet written out tile the window from writeout_idx to     *)
(* trace_idx, which never exceeds the buffer, and a thread that is filling *)
(* a record is where its claim is: no two records share a word, and the    *)
(* writer never overtakes trace_idx (trace_record_start, writeout_thread). *)
ClaimsTileWindow ==
  LET start == Offsets(pending)
  IN  /\ start[Len(pending)] = USub(trace_idx, writeout_idx)
      /\ start[Len(pending)] <= TRACE_BUF_LEN
      /\ \A p \in Producers : pc[p] \in {"header", "args"} =>
           \E i \in DOMAIN pending :
             /\ pending[i].by = p /\ ~ pending[i].done
             /\ old_idx[p] = UAdd(writeout_idx, start[i - 1])

(* What the writer hands to the file is the oldest claim, finished and with *)
(* every word its producer stored: records come out whole, once and in     *)
(* claim order (get_trace_record, trace_record_finish).                    *)
RecordsWrittenWhole ==
  wpc \in {"clear", "write"} =>
    /\ pending # <<>>
    /\ Head(pending).done
    /\ recordptr = Image(Head(pending).by, Head(pending).ev)

(* No word outside the claimed window has its top bit set, so the writer   *)
(* cannot take left-over bytes for a record (clear_buffer_range).          *)
NoStrayValidWord ==
  \A s \in Slots \ SlotsFrom(writeout_idx, USub(trace_idx, writeout_idx)) :
    ~ trace_buf[s].msb

(* The writer touches trace_fp only while it is open: the two flushes of   *)
(* st_set_trace_file_enabled keep it out of the way of fclose.             *)
WriterUsesOpenFile ==
  wpc \in {"scan", "clear", "write", "fflush"} => trace_fp = "open"

(* When flush_trace_file(true) returns, every record that was finished,    *)
(* with no unfinished claim before it, when it was called is written.      *)
FlushComplete == cpc \in {"halt", "cleanup"} => owed = 0

(* The writer uses compressed_trace_buffer only before it is freed.        *)
BufferAliveWhenUsed == wpc = "write" => ctb = "alive"

(* While writeout stays enabled, a thread that waits for buffer space gets *)
(* out of the loop in trace_record_start.                                  *)
BufferWaitEnds ==
  <>[]trace_writeout_enabled =>
    \A p \in Producers : pc[p] = "wait" ~> pc[p] # "wait"

(* flush_trace_file(true) returns, unless producers go on claiming records *)
(* for ever: then the writer may never find the buffer empty and signal    *)
(* trace_empty_cond.                                                       *)
FlushReturns ==
  \/ []<>(\E p \in Producers : pc[p] = "header")
  \/ cpc \in {"empty1", "empty2", "emptyF"} ~> cpc \notin {"empty1", "empty2", "emptyF"}
=============================================================================
