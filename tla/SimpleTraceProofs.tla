------------------------- MODULE SimpleTraceProofs -------------------------
(***************************************************************************)
(* Theorems about the simple trace backend, for any number of producers,   *)
(* events, buffer length and index width.                                  *)
(***************************************************************************)
EXTENDS SimpleTrace, FiniteSetTheorems, SequenceTheorems, TLAPS

(* A thread inside trace_record_start or trace_record_finish knows its     *)
(* event.                                                                  *)
EventKnown ==
  \A p \in Producers :
    pc[p] \in {"wait", "cas", "header", "args", "rewrite", "check"} => ev[p] \in Events

(* A call of the monitor thread stays on todo until it returns.            *)
CallOpen == cpc # "idle" => todo # <<>>

TypeInv == TypeOK /\ EventKnown /\ CallOpen

(* A word index is reduced to a slot of trace_buf (write_to_buffer).       *)
LEMMA SlotType ==
  ASSUME NEW i \in Nat
  PROVE  Slot(i) \in Slots
BY BufferAssumption DEF Slot, Slots

(* An unsigned sum stays within its width (trace_record_start).            *)
LEMMA UAddType ==
  ASSUME NEW a \in Nat, NEW b \in Nat
  PROVE  UAdd(a, b) \in Indexes
BY BufferAssumption DEF UAdd, Indexes

(* A record has a header and fits the buffer (trace_record_start).         *)
LEMMA RecLenType ==
  ASSUME NEW e \in Events
  PROVE  RecLen(e) \in HeaderWords .. TRACE_BUF_LEN
BY BufferAssumption DEF RecLen, HeaderWords

(* The words of the model are words.                                       *)
LEMMA WordTypes ==
  /\ ZeroWord \in Word
  /\ \A p \in Producers, e \in Events :
       EventWord(p, e) \in Word /\ DescWord(p, e) \in Word /\ ArgWord(p, e) \in Word
BY DEF Word, ZeroWord, EventWord, DescWord, ArgWord

(* get_trace_record never copies more than the buffer holds.               *)
LEMMA LengthInType ==
  ASSUME NEW w \in Word
  PROVE  LengthIn(w) \in 0 .. TRACE_BUF_LEN
BY RecLenType, BufferAssumption DEF LengthIn, HeaderWords

(* What a flush owes is a number.                                          *)
LEMMA FinishedPrefixType ==
  ASSUME TypeOK
  PROVE  FinishedPrefix \in Nat
<1>1. DOMAIN pending = 1 .. Len(pending) /\ Len(pending) \in Nat
  BY DEF TypeOK
<1>2. IsFiniteSet(DOMAIN pending)
  BY <1>1, FS_Interval
<1> QED
  BY <1>2, FS_Subset, FS_CardinalityType DEF FinishedPrefix

(* Marking p's claims finished keeps a sequence of claims one.             *)
LEMMA FinishType ==
  ASSUME TypeOK, NEW p \in Producers
  PROVE  Finish(p) \in Seq(Claim)
<1>1. pending \in Seq(Claim)
  BY DEF TypeOK
<1>2. \A i \in 1 .. Len(pending) : pending[i] \in Claim
  BY <1>1
<1>3. \A c \in Claim : [c EXCEPT !.done = TRUE] \in Claim
  BY DEF Claim
<1>4. DOMAIN Finish(p) = 1 .. Len(pending)
  BY <1>1 DEF Finish
<1>5. \A i \in 1 .. Len(pending) : Finish(p)[i] \in Claim
  BY <1>1, <1>2, <1>3 DEF Finish
<1>6. Finish(p) = [i \in 1 .. Len(pending) |-> Finish(p)[i]]
  BY <1>1 DEF Finish
<1>7. Len(pending) \in Nat
  BY <1>1
<1> QED
  BY <1>5, <1>6, <1>7, IsASeq

(* The calls a monitor command makes.                                      *)
LEMMA CallsType ==
  ASSUME NEW op \in {"on", "off", "set", "flush"}
  PROVE  Calls(op) \in Seq({"on", "off", "flush"})
<1> DEFINE C == {"on", "off", "flush"}
           saved == IF trace_fp = "open" THEN "on" ELSE "off"
<1>1. \A a \in C, b \in C, c \in C : <<a, b, c>> \in Seq(C) /\ <<a>> \in Seq(C)
  OBVIOUS
<1>2. saved \in C
  OBVIOUS
<1>3. CASE op = "set"
  <2>1. Calls(op) = <<"off", saved, "on">>
    BY <1>3 DEF Calls
  <2>2. "off" \in C /\ "on" \in C
    OBVIOUS
  <2> HIDE DEF C, saved
  <2>3. <<"off", saved, "on">> \in Seq(C)
    BY <1>1, <1>2, <2>2
  <2> QED
    BY <2>1, <2>3 DEF C
<1>4. CASE op # "set"
  <2>1. Calls(op) = <<op>> /\ op \in C
    BY <1>4 DEF Calls
  <2> QED
    BY <2>1, <1>1
<1> QED
  BY <1>3, <1>4

(* st_init leaves every variable in its type.                              *)
LEMMA InitType == Init => TypeInv
<1> SUFFICES ASSUME Init PROVE TypeInv
  OBVIOUS
<1>1. todo \in Seq({"on", "off", "flush"})
  BY CallsType DEF Init
<1>2. trace_buf \in [Slots -> Word] /\ hdr \in [Producers -> Word]
  BY WordTypes DEF Init
<1>3. 0 \in Indexes /\ 0 \in 0 .. TRACE_BUF_LEN
  BY BufferAssumption DEF Indexes
<1>4. recordptr \in Seq(Word) /\ Len(recordptr) <= TRACE_BUF_LEN /\ pending \in Seq(Claim)
  BY BufferAssumption DEF Init
<1> QED
  BY <1>1, <1>2, <1>3, <1>4 DEF Init, TypeInv, TypeOK, EventKnown, CallOpen

USE DEF TypeInv, TypeOK, EventKnown, CallOpen, prodVars, ctlVars

(* The steps of a producer between trace_record_start and the end of       *)
(* trace_record_finish keep the types.                                     *)
LEMMA ProducerType ==
  ASSUME TypeInv, NEW p \in Producers, ProducerStep(p)
  PROVE  TypeInv'
<1>0. old_idx[p] \in Nat /\ rec_off[p] \in Nat
  BY BufferAssumption DEF Indexes
<1>1. CASE WaitForBuffer(p)
  BY <1>1 DEF WaitForBuffer, Goto
<1>2. CASE ClaimSpace(p)
  <2>1. NewIdx(p) \in Indexes
    BY <1>2, <1>0, RecLenType, UAddType DEF ClaimSpace, NewIdx, HeaderWords
  <2>2. [by |-> p, ev |-> ev[p], done |-> FALSE] \in Claim
    BY <1>2 DEF ClaimSpace, Claim
  <2>3. pending' \in Seq(Claim)
    BY <1>2, <2>2 DEF ClaimSpace
  <2> QED
    BY <2>1, <2>3, <1>2 DEF ClaimSpace, Goto
<1>3. CASE ClaimFailed(p)
  BY <1>3 DEF ClaimFailed, Goto
<1>4. CASE WriteHeader(p)
  <2>1. ev[p] \in Events
    BY <1>4 DEF WriteHeader
  <2>2. trace_buf' \in [Slots -> Word]
    BY <1>4, <2>1, WordTypes DEF WriteHeader
  <2>3. HeaderWords \in 0 .. TRACE_BUF_LEN
    BY <2>1, RecLenType, BufferAssumption DEF HeaderWords
  <2> QED
    BY <1>4, <2>2, <2>3 DEF WriteHeader, Goto
<1>5. CASE trace_record_write_u64(p)
  <2>1. ev[p] \in Events
    BY <1>5 DEF trace_record_write_u64
  <2>2. trace_buf' \in [Slots -> Word]
    BY <1>5, <2>1, WordTypes DEF trace_record_write_u64
  <2>3. rec_off[p] + 1 \in 0 .. TRACE_BUF_LEN
    BY <1>0, <1>5, <2>1, RecLenType, BufferAssumption
       DEF trace_record_write_u64, HeaderWords
  <2> QED
    BY <1>5, <2>2, <2>3 DEF trace_record_write_u64
<1>6. CASE MarkValid(p)
  <2>1. Slot(old_idx[p] + 1) \in Slots /\ Slot(old_idx[p]) \in Slots
    BY <1>0, SlotType
  <2>2. trace_buf[Slot(old_idx[p] + 1)] \in Word
    BY <2>1
  <2>3. trace_buf' \in [Slots -> Word]
    <3>1. \A w \in Word : [w EXCEPT !.msb = TRUE] \in Word
      BY DEF Word
    <3>2. trace_buf' = [trace_buf EXCEPT ![Slot(old_idx[p])] =
                          [trace_buf[Slot(old_idx[p])] EXCEPT !.msb = TRUE]]
      BY <1>6 DEF MarkValid
    <3> QED
      BY <2>1, <3>1, <3>2
  <2>4. pending' \in Seq(Claim)
    BY <1>6, FinishType DEF MarkValid
  <2> QED
    BY <1>6, <2>2, <2>3, <2>4 DEF MarkValid, Goto
<1>7. CASE RewriteHeader(p)
  BY <1>7, WordTypes DEF RewriteHeader, Goto
<1>8. CASE CheckThreshold(p)
  BY <1>8, BufferAssumption DEF CheckThreshold, Goto, Indexes
<1>9. CASE KickWriter(p)
  BY <1>9 DEF KickWriter, Goto, flush_trace_file, WakeWriter
<1> QED
  BY <1>1, <1>2, <1>3, <1>4, <1>5, <1>6, <1>7, <1>8, <1>9 DEF ProducerStep

(* Reading trace_idx at the top of trace_record_start keeps the types.     *)
LEMMA StartType ==
  ASSUME TypeInv, NEW p \in Producers, NEW e \in Events, StartRecord(p, e)
  PROVE  TypeInv'
BY DEF StartRecord, Goto

(* The steps of writeout_thread keep the types.                            *)
LEMMA WriterType ==
  ASSUME TypeInv, WriterStep
  PROVE  TypeInv'
<1>0. writeout_idx \in Nat /\ Len(recordptr) \in Nat
  BY BufferAssumption DEF Indexes
<1>1. CASE wait_for_trace_records_available
  BY <1>1 DEF wait_for_trace_records_available, SignalEmpty
<1>2. CASE ScanEmpty
  BY <1>2 DEF ScanEmpty
<1>3. CASE CopyRecord
  <2> DEFINE n == LengthIn(trace_buf[Slot(writeout_idx + 1)])
             word(k) == IF k = 1 THEN [trace_buf[Slot(writeout_idx)] EXCEPT !.msb = FALSE]
                                 ELSE trace_buf[Slot(writeout_idx + k - 1)]
  <2>1. n \in 0 .. TRACE_BUF_LEN
    BY <1>0, SlotType, LengthInType
  <2>2. \A w \in Word : [w EXCEPT !.msb = FALSE] \in Word
    BY DEF Word
  <2>3. \A k \in 1 .. n : writeout_idx + k - 1 \in Nat
    BY <1>0, <2>1
  <2>4. \A k \in 1 .. n : trace_buf[Slot(writeout_idx + k - 1)] \in Word
    BY <2>3, SlotType
  <2>5. \A k \in 1 .. n : word(k) \in Word
    BY <1>0, <2>2, <2>4, SlotType
  <2>6. recordptr' = [k \in 1 .. n |-> word(k)]
    BY <1>3 DEF CopyRecord, RecordAt
  <2> HIDE DEF n, word
  <2>7. recordptr' \in Seq(Word) /\ Len(recordptr') = n
    BY <2>1, <2>5, <2>6, IsASeq
  <2> QED
    BY <1>3, <2>1, <2>7, BufferAssumption DEF CopyRecord
<1>4. CASE clear_buffer_range
  BY <1>4, WordTypes DEF clear_buffer_range
<1>5. CASE WriteRecord
  <2>1. writeout_idx' \in Indexes
    BY <1>0, <1>5, UAddType DEF WriteRecord
  <2>2. pending' \in Seq(Claim)
    BY <1>5 DEF WriteRecord
  <2>3. owed' \in Nat
    BY <1>5 DEF WriteRecord
  <2>4. recordptr' \in Seq(Word) /\ Len(recordptr') <= TRACE_BUF_LEN
    BY <1>5, BufferAssumption DEF WriteRecord
  <2> QED
    BY <1>5, <2>1, <2>2, <2>3, <2>4 DEF WriteRecord
<1>6. CASE Fflush
  BY <1>6 DEF Fflush
<1> QED
  BY <1>1, <1>2, <1>3, <1>4, <1>5, <1>6 DEF WriterStep

(* The trace-file commands of the monitor thread keep the types.           *)
LEMMA MonitorType ==
  ASSUME TypeInv, \/ \E op \in MonitorOps : MonitorCommand(op)
                  \/ MonitorStep
  PROVE  TypeInv'
<1>0. ASSUME NEW op \in MonitorOps, MonitorCommand(op)
      PROVE  TypeInv'
  <2>1. todo' \in Seq({"on", "off", "flush"})
    BY <1>0, CallsType, BufferAssumption DEF MonitorCommand
  <2> QED
    BY <1>0, <2>1 DEF MonitorCommand
<1>t. todo # <<>> => Tail(todo) \in Seq({"on", "off", "flush"})
  OBVIOUS
<1>e. todo # <<>> => Head(todo) \in {"on", "off", "flush"}
  OBVIOUS
<1>1. CASE EnabledNoChange
  BY <1>1, <1>t DEF EnabledNoChange
<1>2. CASE FlushAndWait
  <2>1. owed' \in Nat
    BY <1>2, FinishedPrefixType DEF FlushAndWait
  <2> QED
    BY <1>2, <2>1 DEF FlushAndWait, flush_trace_file, WakeWriter
<1>3. CASE HaltWriteout
  BY <1>3 DEF HaltWriteout
<1>4. CASE SecondFlush
  BY <1>4 DEF SecondFlush, flush_trace_file, WakeWriter
<1>5. CASE OpenFile
  BY <1>5, <1>t DEF OpenFile
<1>6. CASE CloseFile
  BY <1>6, <1>t DEF CloseFile
<1>7. CASE ResumeWriteout
  BY <1>7 DEF ResumeWriteout
<1>8. CASE ResumeKick
  BY <1>8, <1>t DEF ResumeKick, flush_trace_file, WakeWriter
<1>9. CASE Cleanup
  BY <1>9, <1>t DEF Cleanup
<1> QED
  BY <1>0, <1>1, <1>2, <1>3, <1>4, <1>5, <1>6, <1>7, <1>8, <1>9 DEF MonitorStep

(* Every step of the system keeps the types.                               *)
LEMMA TypeStep == TypeInv /\ [Next]_vars => TypeInv'
<1> SUFFICES ASSUME TypeInv, [Next]_vars PROVE TypeInv'
  OBVIOUS
<1>1. CASE UNCHANGED vars
  BY <1>1 DEF vars
<1> QED
  BY <1>1, StartType, ProducerType, WriterType, MonitorType DEF Next

(* Type correctness of the trace backend, for every instance.              *)
THEOREM TypeCorrect == Spec => []TypeOK
<1>1. TypeInv => TypeOK
  OBVIOUS
<1> QED
  BY InitType, TypeStep, <1>1, PTL DEF Spec

---------------------------------------------------------------------------
(***************************************************************************)
(* The writer never touches a closed file.  WriterUsesOpenFile alone is    *)
(* not inductive: it needs that writeout is enabled only over an open      *)
(* file, that it stays disabled from HaltWriteout to ResumeWriteout, and   *)
(* that once the second flush has returned the writer is outside its loop, *)
(* where a disabled writeout keeps it.                                     *)
(***************************************************************************)
FileInv ==
  /\ trace_writeout_enabled => trace_fp = "open"
  /\ cpc \in {"flush2", "empty2", "switch", "resume"} => ~ trace_writeout_enabled
  /\ cpc = "switch" => wpc \in {"await", "asleep"}
  /\ cpc = "resume" => trace_fp = "open"
  /\ WriterUsesOpenFile

(* st_set_trace_file_enabled never closes, and never leaves closed, the    *)
(* file the writeout thread is using, whatever producers do meanwhile.     *)
THEOREM WriterFileSafe == Spec => []WriterUsesOpenFile
<1> USE DEF FileInv, WriterUsesOpenFile
<1>1. Init => FileInv
  BY DEF Init
<1>2. TypeInv /\ FileInv /\ [Next]_vars => FileInv'
  <2> SUFFICES ASSUME TypeInv, FileInv, [Next]_vars PROVE FileInv'
    OBVIOUS
  <2>1. ASSUME NEW p \in Producers, NEW e \in Events, StartRecord(p, e)
        PROVE  FileInv'
    BY <2>1 DEF StartRecord
  <2>2. ASSUME NEW p \in Producers, ProducerStep(p)
        PROVE  FileInv'
    <3>1. CASE KickWriter(p)
      BY <3>1 DEF KickWriter, flush_trace_file, WakeWriter
    <3>2. CASE ~ KickWriter(p)
      BY <2>2, <3>2 DEF ProducerStep, WaitForBuffer, ClaimSpace, ClaimFailed, WriteHeader,
         trace_record_write_u64, MarkValid, RewriteHeader, CheckThreshold
    <3> QED
      BY <3>1, <3>2
  <2>3. ASSUME WriterStep
        PROVE  FileInv'
    <3>1. CASE wait_for_trace_records_available
      BY <3>1 DEF wait_for_trace_records_available, SignalEmpty
    <3>2. CASE ScanEmpty \/ CopyRecord
      BY <3>2 DEF ScanEmpty, CopyRecord
    <3>3. CASE clear_buffer_range \/ WriteRecord \/ Fflush
      BY <3>3 DEF clear_buffer_range, WriteRecord, Fflush
    <3> QED
      BY <2>3, <3>1, <3>2, <3>3 DEF WriterStep
  <2>4. ASSUME NEW op \in MonitorOps, MonitorCommand(op)
        PROVE  FileInv'
    BY <2>4 DEF MonitorCommand
  <2>5. ASSUME MonitorStep
        PROVE  FileInv'
    <3>1. CASE EnabledNoChange \/ FlushAndWait
      BY <3>1 DEF EnabledNoChange, FlushAndWait, flush_trace_file, WakeWriter
    <3>2. CASE HaltWriteout
      BY <3>2 DEF HaltWriteout
    <3>3. CASE SecondFlush
      BY <3>3 DEF SecondFlush, flush_trace_file, WakeWriter
    <3>4. CASE OpenFile \/ CloseFile
      BY <3>4 DEF OpenFile, CloseFile
    <3>5. CASE ResumeWriteout \/ ResumeKick
      BY <3>5 DEF ResumeWriteout, ResumeKick, flush_trace_file, WakeWriter
    <3>6. CASE Cleanup
      BY <3>6 DEF Cleanup
    <3> QED
      BY <2>5, <3>1, <3>2, <3>3, <3>4, <3>5, <3>6 DEF MonitorStep
  <2>6. CASE UNCHANGED vars
    BY <2>6 DEF vars
  <2> QED
    BY <2>1, <2>2, <2>3, <2>4, <2>5, <2>6 DEF Next
<1>3. TypeInv /\ [Next]_vars => TypeInv'
  BY TypeStep
<1>4. FileInv => WriterUsesOpenFile
  OBVIOUS
<1> QED
  BY InitType, <1>1, <1>2, <1>3, <1>4, PTL DEF Spec
=============================================================================
