------------------------- MODULE TraceReaderProofs -------------------------
(* The tracing plugin and the reader of its traces, for every guest program *)
(* and every pair of thresholds.  First what the plugin writes, then what   *)
(* the reader makes of the finished file.                                   *)
EXTENDS TraceReader, SequenceTheorems, FiniteSetTheorems, NaturalsInduction, WellFoundedInduction, TLAPS

-----------------------------------------------------------------------------
(* What the plugin writes.                                                  *)

Event ==
  {NOP(b) : b \in Markers} \cup {INSN(x[1], x[2]) : x \in Ips \X Ips}
     \cup {DATA(k, by) : k \in {"load", "store"}, by \in Nat}

(* The events the three callbacks write.                                    *)
LEMMA Made ==
  /\ \A b \in Markers : NOP(b) \in Event /\ NOP(b).event = "NOP"
  /\ \A i, to \in Ips : INSN(i, to) \in Event /\ INSN(i, to).event = "INSN"
  /\ \A k \in {"load", "store"}, by \in Nat :
        DATA(k, by) \in Event /\ DATA(k, by).event = "DATA" /\ DATA(k, by).by = by
<1>1. \A b \in Markers : NOP(b) \in Event /\ NOP(b).event = "NOP"
  BY DEF Event, NOP
<1>2. \A i, to \in Ips : INSN(i, to) \in Event /\ INSN(i, to).event = "INSN"
  <2>1. \A i, to \in Ips : INSN(i, to) \in Event
    <3> SUFFICES ASSUME NEW i \in Ips, NEW to \in Ips PROVE INSN(i, to) \in Event
      OBVIOUS
    <3>1. <<i, to>> \in Ips \X Ips /\ <<i, to>>[1] = i /\ <<i, to>>[2] = to
      OBVIOUS
    <3>2. \A x \in Ips \X Ips : INSN(x[1], x[2]) \in Event
      BY DEF Event
    <3> QED
      BY <3>1, <3>2
  <2>2. \A i, to \in Ips : INSN(i, to).event = "INSN"
    BY DEF INSN
  <2> QED
    BY <2>1, <2>2
<1>3. \A k \in {"load", "store"}, by \in Nat :
         DATA(k, by) \in Event /\ DATA(k, by).event = "DATA" /\ DATA(k, by).by = by
  BY DEF Event, DATA
<1> QED
  BY <1>1, <1>2, <1>3

(* What an event of the trace tells the reader.                             *)
LEMMA Fields ==
  ASSUME NEW e \in Event
  PROVE  /\ e.event \in {"NOP", "INSN", "DATA"}
         /\ e.event = "INSN" => e.vaddr \in Ips /\ e.br_type \in OpTypes /\ e.target_vaddr \in Nat
         /\ e.event = "DATA" => e.load_store \in {"load", "store"}
<1>1. CASE e \in {NOP(b) : b \in Markers}
  BY <1>1 DEF NOP
<1>2. CASE e \in {INSN(x[1], x[2]) : x \in Ips \X Ips}
  <2>1. PICK i \in Ips, to \in Ips : e = INSN(i, to)
    BY <1>2
  <2>2. Code[i].br_type \in OpTypes /\ Code[i].target_vaddr \in Nat
    BY PluginCode
  <2> QED
    BY <2>1, <2>2 DEF INSN
<1>3. CASE e \in {DATA(k, by) : k \in {"load", "store"}, by \in Nat}
  BY <1>3 DEF DATA
<1> QED
  BY <1>1, <1>2, <1>3 DEF Event

(* The accesses of an instruction follow it without a gap.                  *)
Run(p, d) == \A q \in p + 1 .. d : trace[q].event = "DATA" /\ trace[q].by = p
Runs ==
  \A d \in DOMAIN trace : trace[d].event = "DATA" =>
     /\ trace[d].by \in 1 .. d - 1 /\ trace[trace[d].by].event = "INSN"
     /\ Run(trace[d].by, d)
(* The next access to be traced continues the last run.                     *)
Growing ==
  pending # <<>> /\ status /\ Recorded(icount) =>
     /\ current \in DOMAIN trace /\ trace[current].event = "INSN"
     /\ Run(current, Len(trace))
PluginType ==
  /\ status \in BOOLEAN /\ icount \in Nat /\ pc \in Ips /\ pending \in Seq(Kinds)
  /\ current \in 0 .. Len(trace) /\ done \in BOOLEAN /\ trace \in Seq(Event)
PluginInv == PluginType /\ Runs /\ Growing

(* One more event at the end of the trace.                                  *)
LEMMA Appended ==
  ASSUME trace \in Seq(Event), NEW e \in Event, trace' = Append(trace, e)
  PROVE  /\ trace' \in Seq(Event) /\ Len(trace') = Len(trace) + 1 /\ Len(trace) \in Nat
         /\ DOMAIN trace = 1 .. Len(trace) /\ DOMAIN trace' = 1 .. Len(trace) + 1
         /\ \A q \in 1 .. Len(trace) : trace'[q] = trace[q]
         /\ trace'[Len(trace) + 1] = e
OBVIOUS

(* A marker or an instruction leaves the runs before it as they are.        *)
LEMMA RunsKept ==
  ASSUME PluginInv, NEW e \in Event, trace' = Append(trace, e), e.event # "DATA"
  PROVE  Runs'
<1> USE DEF PluginInv, PluginType
<1> SUFFICES ASSUME NEW d \in DOMAIN trace', trace'[d].event = "DATA"
             PROVE  /\ trace'[d].by \in 1 .. d - 1 /\ trace'[trace'[d].by].event = "INSN"
                    /\ \A q \in trace'[d].by + 1 .. d : trace'[q].event = "DATA" /\ trace'[q].by = trace'[d].by
  BY DEF Runs, Run
<1>1. d \in 1 .. Len(trace) /\ trace'[d] = trace[d] /\ d \in DOMAIN trace
  BY Appended
<1>2. /\ trace[d].by \in 1 .. d - 1 /\ trace[trace[d].by].event = "INSN" /\ Run(trace[d].by, d)
  BY <1>1 DEF Runs
<1> QED
  BY <1>1, <1>2, Appended DEF Run

(* The markers, traced wherever they come.                                  *)
LEMMA MarkerInv ==
  ASSUME PluginInv, NEW b \in Markers, vcpu_insn_exec_before(b)
  PROVE  PluginInv'
<1> DEFINE e == NOP(b)
<1>1. e \in Event /\ e.event = "NOP" /\ trace' = Append(trace, e)
  BY Made DEF vcpu_insn_exec_before
<1> HIDE DEF e
<1>2. PluginType'
  <2>1. status' \in BOOLEAN
    BY DEF PluginInv, PluginType, vcpu_insn_exec_before
  <2>2. current' \in 0 .. Len(trace')
    BY <1>1, Appended DEF PluginInv, PluginType, vcpu_insn_exec_before
  <2> QED
    BY <1>1, <2>1, <2>2, Appended DEF PluginInv, PluginType, vcpu_insn_exec_before
<1>3. Runs'
  BY <1>1, RunsKept
<1>4. Growing'
  BY DEF Growing, vcpu_insn_exec_before
<1> QED
  BY <1>2, <1>3, <1>4 DEF PluginInv

(* An instruction: its accesses, if they will be traced, come right behind. *)
LEMMA InsnInv ==
  ASSUME PluginInv, NEW to \in Ips, vcpu_insn_exec(to)
  PROVE  PluginInv'
<1> DEFINE traced == status /\ Recorded(icount + 1)
           e      == INSN(pc, to)
<1> USE DEF PluginInv
<1>1. /\ Len(trace) \in Nat /\ current \in 0 .. Len(trace) /\ pc \in Ips /\ icount \in Nat
      /\ trace \in Seq(Event) /\ status \in BOOLEAN
  BY DEF PluginType
<1>2. pending' \in Seq(Kinds)
  BY <1>1, PluginCode DEF vcpu_insn_exec
<1>3. icount' \in Nat /\ status' \in BOOLEAN /\ pc' \in Ips /\ done' \in BOOLEAN
  BY <1>1 DEF PluginType, vcpu_insn_exec
<1>4. CASE ~traced
  <2>1. trace' = trace /\ current' = 0
    BY <1>4 DEF vcpu_insn_exec
  <2>2. PluginType'
    BY <1>1, <1>2, <1>3, <2>1 DEF PluginType
  <2>3. ~(status' /\ Recorded(icount'))
    BY <1>4 DEF vcpu_insn_exec
  <2> QED
    BY <2>1, <2>2, <2>3 DEF Growing, Runs, Run
<1>5. CASE traced
  <2>1. trace' = Append(trace, e) /\ current' = Len(trace) + 1
    BY <1>5 DEF vcpu_insn_exec
  <2>2. e \in Event /\ e.event = "INSN"
    BY <1>1, Made
  <2> HIDE DEF e, traced
  <2>3. PluginType'
    BY <1>1, <1>2, <1>3, <2>1, <2>2, Appended DEF PluginType
  <2>4. Runs'
    BY <2>1, <2>2, RunsKept
  <2>5. Growing'
    BY <1>1, <2>1, <2>2, Appended DEF Growing, Run
  <2> QED
    BY <2>3, <2>4, <2>5
<1> QED
  BY <1>4, <1>5

(* An access: it continues the run of the instruction being executed.       *)
LEMMA DataInv ==
  ASSUME PluginInv, NEW to \in Ips, vcpu_haddr(to)
  PROVE  PluginInv'
<1> DEFINE traced == Traced(Head(pending))
           e      == DATA(Head(pending), current)
<1> USE DEF PluginInv
<1>1. /\ Len(trace) \in Nat /\ current \in 0 .. Len(trace) /\ icount \in Nat
      /\ trace \in Seq(Event) /\ DOMAIN trace = 1 .. Len(trace)
  BY DEF PluginType
<1>2. pending # <<>> /\ Head(pending) \in Kinds /\ pending' \in Seq(Kinds)
  BY DEF PluginType, vcpu_haddr
<1>3. /\ icount' = icount /\ status' = status /\ pc' \in Ips /\ done' = done /\ current' = current
      /\ done \in BOOLEAN /\ status \in BOOLEAN
  BY DEF PluginType, vcpu_haddr
<1>4. CASE ~traced
  <2>1. trace' = trace
    BY <1>4 DEF vcpu_haddr
  <2>2. PluginType'
    BY <1>1, <1>2, <1>3, <2>1 DEF PluginType
  <2>3. Growing'
    BY <1>2, <1>3, <2>1 DEF Growing, Run, Recorded
  <2> QED
    BY <2>1, <2>2, <2>3 DEF Runs, Run
<1>5. CASE traced
  <2>1. trace' = Append(trace, e) /\ status /\ Recorded(icount) /\ Head(pending) \in {"load", "store"}
    BY <1>2, <1>5 DEF vcpu_haddr, Traced, Kinds
  <2>2. e \in Event /\ e.event = "DATA" /\ e.by = current
    BY <1>1, <2>1, Made
  <2>3. current \in DOMAIN trace /\ trace[current].event = "INSN" /\ Run(current, Len(trace))
    BY <1>2, <2>1 DEF Growing
  <2> HIDE DEF e, traced
  <2>4. PluginType'
    BY <1>1, <1>2, <1>3, <2>1, <2>2, Appended DEF PluginType
  <2>5. /\ trace'[current].event = "INSN" /\ current \in 1 .. Len(trace)
        /\ \A q \in current + 1 .. Len(trace) + 1 : trace'[q].event = "DATA" /\ trace'[q].by = current
    <3>1. ASSUME NEW q \in current + 1 .. Len(trace) + 1
          PROVE  trace'[q].event = "DATA" /\ trace'[q].by = current
      <4>1. CASE q = Len(trace) + 1
        BY <1>1, <2>1, <2>2, <4>1, Appended
      <4>2. CASE q <= Len(trace)
        BY <1>1, <2>1, <2>2, <2>3, <4>2, Appended DEF Run
      <4> QED
        BY <1>1, <4>1, <4>2
    <3> QED
      BY <1>1, <2>1, <2>2, <2>3, <3>1, Appended
  <2>6. Runs'
    <3> SUFFICES ASSUME NEW d \in DOMAIN trace', trace'[d].event = "DATA"
                 PROVE  /\ trace'[d].by \in 1 .. d - 1 /\ trace'[trace'[d].by].event = "INSN"
                        /\ \A q \in trace'[d].by + 1 .. d : trace'[q].event = "DATA" /\ trace'[q].by = trace'[d].by
      BY DEF Runs, Run
    <3>1. CASE d = Len(trace) + 1
      BY <1>1, <2>1, <2>2, <2>5, <3>1, Appended
    <3>2. CASE d <= Len(trace)
      <4>1. d \in 1 .. Len(trace) /\ trace'[d] = trace[d]
        BY <1>1, <2>1, <2>2, <3>2, Appended
      <4>2. /\ trace[d].by \in 1 .. d - 1 /\ trace[trace[d].by].event = "INSN" /\ Run(trace[d].by, d)
        BY <1>1, <4>1 DEF Runs
      <4> QED
        BY <1>1, <2>1, <2>2, <4>1, <4>2, Appended DEF Run
    <3> QED
      BY <1>1, <2>1, <2>2, <3>1, <3>2, Appended
  <2>7. Growing'
    BY <1>1, <1>3, <2>1, <2>2, <2>5, Appended DEF Growing, Run
  <2> QED
    BY <2>4, <2>6, <2>7
<1> QED
  BY <1>4, <1>5

(* The plugin keeps its invariant, one step per callback.                   *)
LEMMA PluginInductive == PluginInv /\ [PluginNext]_pluginVars => PluginInv'
<1> SUFFICES ASSUME PluginInv, [PluginNext]_pluginVars PROVE PluginInv'
  OBVIOUS
<1>1. ASSUME Abandon \/ Interrupt PROVE PluginInv'
  <2>1. pending' = <<>> /\ pc' \in Ips /\ UNCHANGED <<status, icount, current, trace, done>>
    BY <1>1, PluginCode DEF Abandon, Interrupt, PluginInv, PluginType
  <2> QED
    BY <2>1 DEF PluginInv, PluginType, Runs, Run, Growing
<1>2. ASSUME Exit PROVE PluginInv'
  BY <1>2 DEF Exit, PluginInv, PluginType, Runs, Run, Growing, Recorded
<1>3. ASSUME UNCHANGED pluginVars PROVE PluginInv'
  BY <1>3 DEF pluginVars, PluginInv, PluginType, Runs, Run, Growing, Recorded
<1> QED
  BY <1>1, <1>2, <1>3, MarkerInv, InsnInv, DataInv DEF PluginNext

-----------------------------------------------------------------------------
(* The order of the instructions in the file.                               *)
Rank(p) == Cardinality({q \in InsnEvents : q <= p})

(* A set of event numbers has a first one.                                  *)
LEMMA SmallestIn ==
  ASSUME NEW S \in SUBSET Nat, S # {}
  PROVE  \E x \in S : \A y \in S : x <= y
<1>1. PICK x \in S : \A y \in S : ~(<<y, x>> \in OpToRel(<, Nat))
  BY NatLessThanWellFounded, WFMin
<1>2. ASSUME NEW y \in S, y < x  PROVE FALSE
  <2>1. <<y, x>> \in OpToRel(<, Nat)
    BY <1>2, Zenon DEF OpToRel
  <2> QED
    BY <1>1, <2>1
<1> QED
  BY <1>2

(* The search for the next instruction finds the nearest one.               *)
LEMMA NextIs ==
  ASSUME trace \in Seq(Event), NEW p \in InsnEvents, InsnAfter(p) # {}
  PROVE  /\ NextInsn(p) \in InsnEvents /\ p < NextInsn(p) /\ NextInsn(p) <= Len(trace)
         /\ \A q \in InsnEvents : q <= NextInsn(p) <=> q <= p \/ q = NextInsn(p)
<1>1. p \in Nat /\ Len(trace) \in Nat /\ DOMAIN trace = 1 .. Len(trace)
  BY DEF InsnEvents
<1>2. InsnAfter(p) \in SUBSET Nat
  BY <1>1 DEF InsnAfter
<1>3. NextInsn(p) \in InsnAfter(p) /\ \A r \in InsnAfter(p) : NextInsn(p) <= r
  BY <1>2, SmallestIn DEF NextInsn
<1>4. \A q \in InsnEvents : q \in Nat /\ (p < q => q \in InsnAfter(p))
  BY <1>1 DEF InsnEvents, InsnAfter
<1>5. NextInsn(p) \in InsnEvents /\ NextInsn(p) \in Nat /\ p < NextInsn(p) /\ NextInsn(p) <= Len(trace)
  BY <1>1, <1>3 DEF InsnEvents, InsnAfter
<1> QED
  BY <1>1, <1>3, <1>4, <1>5

(* Ranks count the instructions, so that each has its own.                  *)
LEMMA Ranks ==
  ASSUME trace \in Seq(Event)
  PROVE  /\ IsFiniteSet(InsnEvents) /\ Cardinality(InsnEvents) \in Nat
         /\ \A p \in InsnEvents :
              /\ Rank(p) \in Nat \ {0} /\ Rank(p) <= Cardinality(InsnEvents)
              /\ InsnAfter(p) = {} => Rank(p) = Cardinality(InsnEvents)
              /\ InsnAfter(p) # {} => Rank(NextInsn(p)) = Rank(p) + 1
         /\ \A p, q \in InsnEvents : Rank(p) = Rank(q) => p = q
<1>1. Len(trace) \in Nat /\ DOMAIN trace = 1 .. Len(trace)
  OBVIOUS
<1>2. IsFiniteSet(InsnEvents) /\ Cardinality(InsnEvents) \in Nat /\ InsnEvents \subseteq 1 .. Len(trace)
  <2>1. InsnEvents \subseteq 1 .. Len(trace)
    BY <1>1 DEF InsnEvents
  <2>2. IsFiniteSet(1 .. Len(trace))
    BY <1>1, FS_Interval
  <2>3. IsFiniteSet(InsnEvents)
    BY <2>1, <2>2, FS_Subset
  <2> QED
    BY <2>1, <2>3, FS_CardinalityType
<1> DEFINE Upto(p) == {q \in InsnEvents : q <= p}
<1>0. \A p \in InsnEvents : p \in Nat
  BY <1>1, <1>2
<1>3. \A p \in InsnEvents : IsFiniteSet(Upto(p)) /\ Cardinality(Upto(p)) \in Nat /\ p \in Upto(p) /\ p \in Nat
  BY <1>2, FS_Subset, FS_CardinalityType
<1>4. ASSUME NEW p \in InsnEvents
      PROVE  /\ Rank(p) \in Nat \ {0} /\ Rank(p) <= Cardinality(InsnEvents)
             /\ InsnAfter(p) = {} => Rank(p) = Cardinality(InsnEvents)
             /\ InsnAfter(p) # {} => Rank(NextInsn(p)) = Rank(p) + 1
  <2>1. Rank(p) \in Nat \ {0}
    BY <1>3, FS_EmptySet DEF Rank
  <2>2. Rank(p) <= Cardinality(InsnEvents)
    BY <1>2, FS_Subset DEF Rank
  <2>3. ASSUME InsnAfter(p) = {} PROVE Rank(p) = Cardinality(InsnEvents)
    <3>1. Upto(p) = InsnEvents
      BY <1>1, <1>2, <2>3 DEF InsnAfter, InsnEvents
    <3> QED
      BY <3>1 DEF Rank
  <2>4. ASSUME InsnAfter(p) # {} PROVE Rank(NextInsn(p)) = Rank(p) + 1
    <3>1. /\ NextInsn(p) \in InsnEvents /\ p < NextInsn(p)
          /\ \A q \in InsnEvents : q <= NextInsn(p) <=> q <= p \/ q = NextInsn(p)
      BY <2>4, NextIs
    <3>2. NextInsn(p) \in Nat /\ p \in Nat
      BY <1>0, <3>1
    <3>3. NextInsn(p) <= NextInsn(p) /\ ~(NextInsn(p) <= p)
      BY <3>1, <3>2
    <3>4. Upto(NextInsn(p)) = Upto(p) \cup {NextInsn(p)} /\ NextInsn(p) \notin Upto(p)
      BY <3>1, <3>3, Zenon
    <3> QED
      BY <1>3, <3>4, FS_AddElement DEF Rank
  <2> QED
    BY <2>1, <2>2, <2>3, <2>4
<1>5. ASSUME NEW p \in InsnEvents, NEW q \in InsnEvents, p < q  PROVE Rank(p) # Rank(q)
  <2>1. Upto(p) \subseteq Upto(q) /\ q \in Upto(q) /\ q \notin Upto(p)
    <3>1. \A x \in InsnEvents : x <= p => x <= q
      BY <1>0, <1>5
    <3>2. q <= q /\ ~(q <= p)
      BY <1>0, <1>5
    <3> QED
      BY <3>1, <3>2
  <2> QED
    BY <1>3, <2>1, FS_Subset DEF Rank
<1>6. \A p, q \in InsnEvents : Rank(p) = Rank(q) => p = q
  <2>1. \A p, q \in InsnEvents : p = q \/ p < q \/ q < p
    BY <1>0
  <2> QED
    BY <1>5, <2>1
<1> QED
  BY <1>2, <1>4, <1>6

(* The k-th instruction is the one of rank k.                               *)
LEMMA KthIs ==
  ASSUME trace \in Seq(Event), NEW p \in InsnEvents
  PROVE  KthInsn(Rank(p)) = p
BY Ranks DEF KthInsn, Rank

(* An instruction is read only if there is another one behind it, and where *)
(* the reader exits there is none.                                          *)
LEMMA ReadsOn ==
  ASSUME trace \in Seq(Event), NEW p \in InsnEvents
  PROVE  /\ Reads(p) => InsnAfter(p) # {}
         /\ Exits(p) => InsnAfter(p) = {}
<1>1. Len(trace) \in Nat /\ DOMAIN trace = 1 .. Len(trace) /\ p \in 1 .. Len(trace)
  BY DEF InsnEvents
<1>2. ASSUME Reads(p) PROVE InsnAfter(p) # {}
  <2>1. p + 1 \in 1 .. Len(trace)
    <3>1. p # Len(trace)
      BY <1>2 DEF Reads, Exits
    <3>2. \A n \in Nat : \A x \in 1 .. n : x # n => x + 1 \in 1 .. n
      OBVIOUS
    <3> QED
      BY <1>1, <3>1, <3>2
  <2>2. trace[p + 1].event \in {"NOP", "INSN", "DATA"}
    BY <1>1, <2>1, Fields
  <2>3. CASE trace[p + 1].event = "DATA"
    BY <1>1, <1>2, <2>1, <2>3 DEF Reads, Exits, IsA
  <2>4. CASE trace[p + 1].event = "INSN"
    BY <1>1, <2>1, <2>4 DEF InsnAfter
  <2>5. CASE trace[p + 1].event = "NOP"
    <3>1. IsA("INSN", p + 2)
      <4>1. IsA("NOP", p + 1)
        BY <1>1, <2>1, <2>5 DEF IsA
      <4>2. p + 1 # Len(trace)
        BY <1>2, <4>1 DEF Reads, Exits
      <4>3. p + 1 < Len(trace)
        <5>1. \A n \in Nat : \A x \in 1 .. n : x # n => x < n
          OBVIOUS
        <5> QED
          BY <1>1, <2>1, <4>2, <5>1
      <4> QED
        BY <1>2, <4>1, <4>3 DEF Reads, Asserts
    <3> QED
      BY <1>1, <3>1 DEF InsnAfter, IsA
  <2> QED
    BY <2>2, <2>3, <2>4, <2>5
<1>3. ASSUME Exits(p) PROVE InsnAfter(p) = {}
  <2>1. CASE p = Len(trace)
    BY <1>1, <2>1 DEF InsnAfter
  <2>2. CASE IsA("NOP", p + 1) /\ p + 1 = Len(trace)
    BY <1>1, <2>2 DEF InsnAfter, IsA
  <2> QED
    BY <1>3, <2>1, <2>2 DEF Exits
<1> QED
  BY <1>2, <1>3

-----------------------------------------------------------------------------
(* The registers get() makes up lead init_instruction back to the branch    *)
(* type, but for OTHERS, which it takes for a direct jump.                  *)
LEMMA KindIs ==
  ASSUME NEW t \in OpTypes, NEW i,
         i.src = Sources[t], i.dst = Destinations[t], i.branch_type = BranchType[t]
  PROVE  Kind(i) = IF t = "OTHERS" THEN "BRANCH_DIRECT_JUMP" ELSE BranchType[t]
<1> DEFINE sp == "SP" \in i.src
           ip == "IP" \in i.src
           fl == "FLAGS" \in i.src
           wsp == "SP" \in i.dst
           oth == ReadsOther(i)
<1>1. t \in {"OP", "BRANCH", "JMP_DIRECT", "JMP_INDIRECT", "CALL_DIRECT", "CALL_INDIRECT", "RET", "OTHERS"}
  BY DEF OpTypes
<1>2. Kind(i) = IF "IP" \notin i.dst THEN i.branch_type ELSE
        CASE ~sp /\ ~fl /\ ~oth -> "BRANCH_DIRECT_JUMP"
          [] ~sp /\ ~fl /\ oth -> "BRANCH_INDIRECT"
          [] ~sp /\ ip /\ ~wsp /\ fl /\ ~oth -> "BRANCH_CONDITIONAL"
          [] sp /\ ip /\ wsp /\ ~fl /\ ~oth -> "BRANCH_DIRECT_CALL"
          [] sp /\ ip /\ wsp /\ ~fl /\ oth -> "BRANCH_INDIRECT_CALL"
          [] sp /\ ~ip /\ wsp -> "BRANCH_RETURN"
          [] OTHER -> "BRANCH_OTHER"
  BY DEF Kind
<1>3. /\ "IP" \in i.dst <=> t # "OP"
      /\ wsp <=> t \in {"CALL_DIRECT", "CALL_INDIRECT", "RET"}
  BY <1>1 DEF Destinations
<1>4. /\ sp <=> t \in {"CALL_DIRECT", "CALL_INDIRECT", "RET"}
      /\ ip <=> t \in {"BRANCH", "CALL_DIRECT", "CALL_INDIRECT"}
      /\ fl <=> t = "BRANCH"
  BY <1>1 DEF Sources
<1>5. oth <=> t \in {"JMP_INDIRECT", "CALL_INDIRECT"}
  BY <1>1 DEF Sources, ReadsOther
<1> HIDE DEF sp, ip, fl, wsp, oth
<1>6. CASE t = "OP"
  BY <1>2, <1>3, <1>6
<1>7. CASE t = "BRANCH"
  BY <1>2, <1>3, <1>4, <1>5, <1>7 DEF BranchType
<1>8. CASE t = "JMP_DIRECT"
  BY <1>2, <1>3, <1>4, <1>5, <1>8 DEF BranchType
<1>9. CASE t = "JMP_INDIRECT"
  BY <1>2, <1>3, <1>4, <1>5, <1>9 DEF BranchType
<1>10. CASE t = "CALL_DIRECT"
  BY <1>2, <1>3, <1>4, <1>5, <1>10 DEF BranchType
<1>11. CASE t = "CALL_INDIRECT"
  BY <1>2, <1>3, <1>4, <1>5, <1>11 DEF BranchType
<1>12. CASE t = "RET"
  BY <1>2, <1>3, <1>4, <1>5, <1>12 DEF BranchType
<1>13. CASE t = "OTHERS"
  BY <1>2, <1>3, <1>4, <1>5, <1>13 DEF BranchType
<1> QED
  BY <1>1, <1>6, <1>7, <1>8, <1>9, <1>10, <1>11, <1>12, <1>13

(* What the core is given for an instruction and the one behind it.         *)
LEMMA InstrIs ==
  ASSUME trace \in Seq(Event), NEW p \in InsnEvents, NEW n \in InsnEvents
  PROVE  LET i == init_instruction(Returned(p, n))
             t == trace[p].br_type
         IN  /\ i \in InstrType /\ i.ip = trace[p].vaddr /\ i.access = AccessOf(p)
             /\ t # "OTHERS" => i.branch_type = BranchType[t]
             /\ t = "BRANCH" => /\ i.taken <=> trace[n].vaddr = trace[p].target_vaddr
                                /\ i.branch_target = IF i.taken THEN trace[p].target_vaddr ELSE 0
<1> DEFINE r == Returned(p, n)
           t == trace[p].br_type
           taken == Kind(r) \in {"NOT_BRANCH", "BRANCH_CONDITIONAL", "BRANCH_OTHER"} => r.taken
           i == init_instruction(r)
<1>1. trace[p] \in Event /\ trace[p].event = "INSN" /\ DOMAIN trace = 1 .. Len(trace)
  BY DEF InsnEvents
<1>2. t \in OpTypes /\ trace[p].vaddr \in Ips /\ trace[p].target_vaddr \in Nat
  BY <1>1, Fields
<1>3. /\ r.ip = trace[p].vaddr /\ r.access = AccessOf(p) /\ r.taken = Taken(p, n)
      /\ r.branch_type = BranchType[t] /\ r.src = Sources[t] /\ r.dst = Destinations[t]
      /\ r.branch_target = IF t = "OP" THEN 0 ELSE trace[p].target_vaddr
  BY DEF Returned
<1>4. AccessOf(p) \in {"none", "load", "store"}
  <2>1. CASE IsA("DATA", p + 1)
    <3>1. trace[p + 1] \in Event /\ trace[p + 1].event = "DATA"
      BY <2>1 DEF IsA
    <3> QED
      BY <2>1, <3>1, Fields DEF AccessOf
  <2>2. CASE ~IsA("DATA", p + 1)
    BY <2>2 DEF AccessOf
  <2> QED
    BY <2>1, <2>2
<1> HIDE DEF r
<1>5. Kind(r) = IF t = "OTHERS" THEN "BRANCH_DIRECT_JUMP" ELSE BranchType[t]
  BY <1>2, <1>3, KindIs
<1>6. Kind(r) \in {BranchType[u] : u \in OpTypes}
  <2>1. BranchType["JMP_DIRECT"] = "BRANCH_DIRECT_JUMP" /\ "JMP_DIRECT" \in OpTypes
    BY DEF BranchType, OpTypes
  <2>2. BranchType[t] \in {BranchType[u] : u \in OpTypes} /\ BranchType["JMP_DIRECT"] \in {BranchType[u] : u \in OpTypes}
    BY <1>2, <2>1
  <2> QED
    BY <1>5, <2>1, <2>2
<1>7. /\ i.ip = r.ip /\ i.access = r.access /\ i.branch_type = Kind(r) /\ i.taken = taken
      /\ i.branch_target = IF taken THEN r.branch_target ELSE 0
      /\ i = [ip |-> r.ip, access |-> r.access, branch_type |-> Kind(r), taken |-> taken,
              branch_target |-> IF taken THEN r.branch_target ELSE 0]
  BY DEF init_instruction
<1>8. r.branch_target \in Nat
  BY <1>2, <1>3
<1>9. i \in InstrType
  <2>1. taken \in BOOLEAN /\ (IF taken THEN r.branch_target ELSE 0) \in Nat
    BY <1>8
  <2> HIDE DEF taken
  <2> QED
    BY <1>2, <1>3, <1>4, <1>6, <1>7, <2>1 DEF InstrType
<1>10. ASSUME t = "BRANCH"
       PROVE  /\ i.taken <=> trace[n].vaddr = trace[p].target_vaddr
              /\ i.branch_target = IF i.taken THEN trace[p].target_vaddr ELSE 0
  <2>1. Kind(r) = "BRANCH_CONDITIONAL"
    BY <1>5, <1>10 DEF BranchType
  <2>2. Taken(p, n) <=> trace[p].target_vaddr = trace[n].vaddr
    BY <1>10 DEF Taken
  <2>3. taken <=> trace[p].target_vaddr = trace[n].vaddr
    BY <1>3, <2>1, <2>2
  <2> QED
    BY <1>3, <1>7, <1>10, <2>3
<1> QED
  BY <1>3, <1>5, <1>7, <1>9, <1>10 DEF r

-----------------------------------------------------------------------------
(* The reader: what it has delivered are the instructions of ranks 1, 2, .. *)
(* and `last' is the next one of them, `pos' the one behind that.           *)
Deliveries ==
  \A k \in DOMAIN delivered : \E p \in InsnEvents :
     /\ Rank(p) = k /\ InsnAfter(p) # {}
     /\ delivered[k] = init_instruction(Returned(p, NextInsn(p)))
AtInsn ==
  /\ StartsRight /\ pos \in InsnEvents
  /\ IF last = 0 THEN pos = 2 /\ delivered = <<>>
     ELSE /\ last \in InsnEvents /\ InsnAfter(last) # {} /\ pos = NextInsn(last)
          /\ Rank(last) = Len(delivered) + 1 /\ Len(delivered) >= 1
(* No instruction with two markers behind it has been read.                 *)
NonePassed == \A q \in TwoMarkersAfter : pos <= q
ReaderType ==
  /\ mode \in {"closed", "open", "exited", "aborted"}
  /\ pos \in 0 .. Len(trace) + 2 /\ last \in 0 .. Len(trace)
  /\ delivered \in Seq(InstrType)
ReaderInv ==
  /\ ReaderType
  /\ IF mode = "closed" THEN pos = 0 /\ last = 0 /\ delivered = <<>> ELSE done
  /\ mode = "open" => AtInsn /\ NonePassed
  /\ Deliveries
  /\ AllButTwo
  /\ AbortsAtMarkers
TraceInv == PluginInv /\ ReaderInv

(* The instruction behind the begin marker is the first.                    *)
LEMMA FirstRank ==
  ASSUME trace \in Seq(Event), StartsRight
  PROVE  2 \in InsnEvents /\ Rank(2) = 1
<1>1. 2 \in InsnEvents /\ 1 \notin InsnEvents /\ DOMAIN trace = 1 .. Len(trace)
  BY DEF StartsRight, IsA, InsnEvents
<1>2. {q \in InsnEvents : q <= 2} = {2}
  <2>1. \A q \in InsnEvents : q \in Nat /\ q # 0
    BY <1>1 DEF InsnEvents
  <2>2. \A q \in InsnEvents : q <= 2 => q = 2
    BY <1>1, <2>1
  <2>3. 2 <= 2
    OBVIOUS
  <2> QED
    BY <1>1, <2>2, <2>3
<1> QED
  BY <1>1, <1>2, FS_Singleton DEF Rank

(* The assertion fails at the instructions with two markers behind them: an *)
(* access is never the first event behind a marker.                         *)
LEMMA AssertsAt ==
  ASSUME PluginInv, NEW p \in InsnEvents
  PROVE  /\ Asserts(p) <=> p \in TwoMarkersAfter
         /\ Exits(p) => p \notin TwoMarkersAfter
<1>1. p \in DOMAIN trace /\ DOMAIN trace = 1 .. Len(trace) /\ Len(trace) \in Nat /\ trace \in Seq(Event)
  BY DEF PluginInv, PluginType, InsnEvents
<1>2. ASSUME Asserts(p) PROVE p \in TwoMarkersAfter
  <2>1. IsA("NOP", p + 1) /\ p + 1 < Len(trace) /\ ~IsA("INSN", p + 2)
    BY <1>2 DEF Asserts
  <2>2. p + 1 \in DOMAIN trace /\ p + 2 \in DOMAIN trace /\ p + 2 \in Int
    BY <1>1, <2>1
  <2>3. trace[p + 1].event = "NOP" /\ trace[p + 2].event \in {"NOP", "DATA"}
    BY <1>1, <2>1, <2>2, Fields DEF IsA
  <2>4. ASSUME trace[p + 2].event = "DATA" PROVE FALSE
    <3>1. /\ trace[p + 2].by \in 1 .. p + 1 /\ trace[trace[p + 2].by].event = "INSN"
          /\ Run(trace[p + 2].by, p + 2)
      <4>1. (p + 2) - 1 = p + 1
        BY <1>1
      <4> QED
        BY <2>2, <2>4, <4>1 DEF PluginInv, Runs
    <3>2. trace[p + 2].by # p + 1
      BY <2>3, <3>1
    <3>3. p + 1 \in trace[p + 2].by + 1 .. p + 2
      BY <1>1, <3>1, <3>2
    <3> QED
      BY <2>3, <3>1, <3>3 DEF Run
  <2> QED
    BY <2>1, <2>2, <2>3, <2>4 DEF TwoMarkersAfter, IsA
<1>3. ASSUME p \in TwoMarkersAfter PROVE Asserts(p) /\ ~Exits(p)
  <2>1. /\ p + 1 \in DOMAIN trace /\ trace[p + 1].event = "NOP"
        /\ p + 2 \in DOMAIN trace /\ trace[p + 2].event = "NOP"
    BY <1>3 DEF TwoMarkersAfter, IsA
  <2>2. p + 1 < Len(trace) /\ p # Len(trace) /\ p + 1 # Len(trace)
    BY <1>1, <2>1
  <2> QED
    BY <2>1, <2>2 DEF Asserts, Exits, IsA
<1> QED
  BY <1>2, <1>3

(* Reading on from an instruction passes no other.                          *)
LEMMA ReadsPast ==
  ASSUME PluginInv, NEW p \in InsnEvents, Reads(p), \A q \in TwoMarkersAfter : p <= q
  PROVE  \A q \in TwoMarkersAfter : NextInsn(p) <= q
<1> SUFFICES ASSUME NEW q \in TwoMarkersAfter PROVE NextInsn(p) <= q
  OBVIOUS
<1>1. trace \in Seq(Event) /\ q \in InsnEvents /\ p <= q
  BY DEF PluginInv, PluginType, TwoMarkersAfter
<1>2. q # p
  BY AssertsAt DEF Reads
<1>3. /\ NextInsn(p) \in InsnEvents
      /\ q <= NextInsn(p) <=> q <= p \/ q = NextInsn(p)
  BY <1>1, ReadsOn, NextIs
<1>4. p \in Nat /\ q \in Nat /\ NextInsn(p) \in Nat
  BY <1>1, <1>3 DEF InsnEvents
<1> QED
  BY <1>1, <1>2, <1>3, <1>4

(* What the reader makes of a file that does not change.                    *)
LEMMA SameFile ==
  ASSUME trace' = trace
  PROVE  /\ InsnEvents' = InsnEvents /\ StartsRight' = StartsRight /\ TwoMarkersAfter' = TwoMarkersAfter
         /\ \A x : InsnAfter(x)' = InsnAfter(x) /\ NextInsn(x)' = NextInsn(x) /\ Rank(x)' = Rank(x)
         /\ \A x, y : init_instruction(Returned(x, y))' = init_instruction(Returned(x, y))
BY DEF InsnEvents, TwoMarkersAfter, StartsRight, Rank, InsnAfter, NextInsn, init_instruction, Kind, ReadsOther, Returned,
       AccessOf, Taken, IsA

(* The reader on a finished file.                                           *)
LEMMA GetInv ==
  ASSUME TraceInv, get
  PROVE  TraceInv'
<1> DEFINE l == IF last = 0 THEN pos ELSE last
           p == IF last = 0 /\ Reads(pos) THEN NextInsn(pos) ELSE pos
<1>1. /\ mode = "open" /\ done /\ AtInsn /\ NonePassed /\ PluginInv /\ ReaderInv /\ trace \in Seq(Event)
      /\ UNCHANGED pluginVars
  BY DEF TraceInv, ReaderInv, get, PluginInv, PluginType
<1>2. UNCHANGED <<status, icount, pc, pending, current, trace, done>>
  BY <1>1 DEF pluginVars
<1>3. PluginInv'
  BY <1>1, PluginInductive
<1>4. l \in InsnEvents /\ Rank(l) = Len(delivered) + 1 /\ Len(delivered) \in Nat
  <2>1. delivered \in Seq(InstrType)
    BY <1>1 DEF ReaderInv, ReaderType
  <2>2. CASE last = 0
    BY <1>1, <2>1, <2>2, FirstRank DEF AtInsn
  <2>3. CASE last # 0
    BY <1>1, <2>1, <2>3 DEF AtInsn
  <2> QED
    BY <2>2, <2>3
<1>5. /\ p \in InsnEvents
      /\ \/ p = NextInsn(l) /\ InsnAfter(l) # {}
         \/ last = 0 /\ p = l /\ p = 2 /\ ~Reads(p)
  <2>1. CASE last = 0 /\ Reads(pos)
    BY <1>1, <1>4, <2>1, ReadsOn, NextIs DEF AtInsn
  <2>2. CASE last = 0 /\ ~Reads(pos)
    BY <1>1, <2>2 DEF AtInsn
  <2>3. CASE last # 0
    BY <1>1, <2>3 DEF AtInsn
  <2> QED
    BY <2>1, <2>2, <2>3
<1>6. \/ Exits(p) /\ mode' = "exited" /\ UNCHANGED <<pos, last, delivered>>
      \/ Asserts(p) /\ mode' = "aborted" /\ UNCHANGED <<pos, last, delivered>>
      \/ /\ Reads(p) /\ delivered' = Append(delivered, init_instruction(Returned(l, p)))
         /\ last' = p /\ pos' = NextInsn(p) /\ UNCHANGED mode
  BY DEF get
<1>7. InsnEvents' = InsnEvents /\ StartsRight' = StartsRight /\ TwoMarkersAfter' = TwoMarkersAfter
  BY <1>2, SameFile
<1>11. \A q \in TwoMarkersAfter : p <= q
  <2>1. CASE last = 0 /\ Reads(pos)
    BY <1>1, <2>1, ReadsPast DEF AtInsn, NonePassed
  <2>2. CASE ~(last = 0 /\ Reads(pos))
    BY <1>1, <2>2 DEF NonePassed
  <2> QED
    BY <2>1, <2>2
<1>10. /\ \A x : InsnAfter(x)' = InsnAfter(x) /\ NextInsn(x)' = NextInsn(x) /\ Rank(x)' = Rank(x)
       /\ \A x, y : init_instruction(Returned(x, y))' = init_instruction(Returned(x, y))
  BY <1>2, SameFile
<1> HIDE DEF l, p
<1>8. CASE UNCHANGED <<pos, last, delivered>> /\ mode' \in {"exited", "aborted"}
  <2>1. ReaderType' /\ done'
    BY <1>1, <1>2, <1>8 DEF ReaderInv, ReaderType
  <2>2. Deliveries'
    BY <1>1, <1>7, <1>8, <1>10 DEF ReaderInv, Deliveries
  <2>3. Len(delivered') = IF Rank(p) > 2 THEN Rank(p) - 2 ELSE 0
    <3>1. CASE p = NextInsn(l) /\ InsnAfter(l) # {}
      <4>1. Rank(p) = Rank(l) + 1
        BY <1>1, <1>4, <3>1, Ranks
      <4> QED
        BY <1>4, <1>8, <4>1
    <3>2. CASE p = l /\ p = 2
      <4>1. Rank(p) = 1
        BY <1>1, <3>2, FirstRank DEF AtInsn
      <4> QED
        BY <1>4, <1>8, <3>2, <4>1
    <3> QED
      BY <1>5, <3>1, <3>2
  <2>4. ASSUME mode' = "exited" PROVE AllButTwo' /\ AbortsAtMarkers'
    <3>1. Exits(p)
      BY <1>1, <1>6, <2>4
    <3>2. InsnAfter(p) = {} /\ Rank(p) = Cardinality(InsnEvents)
      BY <1>1, <1>5, <3>1, ReadsOn, Ranks
    <3>3. AllButTwo'
      BY <1>7, <2>3, <3>2 DEF AllButTwo, AllButTwoOf
    <3>4. ASSUME NEW q \in TwoMarkersAfter PROVE FALSE
      <4>1. q \in InsnEvents /\ p <= q /\ q # p
        BY <1>1, <1>5, <1>11, <3>1, AssertsAt DEF TwoMarkersAfter
      <4>2. p \in 1 .. Len(trace) /\ q \in 1 .. Len(trace) /\ Len(trace) \in Nat /\ trace[q].event = "INSN"
        BY <1>1, <1>5, <4>1 DEF InsnEvents
      <4>3. q \in p + 1 .. Len(trace)
        BY <4>1, <4>2
      <4> QED
        BY <3>2, <4>2, <4>3 DEF InsnAfter
    <3>5. TwoMarkersAfter' = {}
      BY <1>7, <3>4
    <3> QED
      BY <2>4, <3>3, <3>5 DEF AbortsAtMarkers
  <2>5. ASSUME mode' = "aborted" PROVE AllButTwo' /\ AbortsAtMarkers'
    <3>1. p \in TwoMarkersAfter
      BY <1>1, <1>5, <1>6, <2>5, AssertsAt
    <3>2. PICK r \in TwoMarkersAfter : /\ \A q \in TwoMarkersAfter : r <= q
                                       /\ Len(delivered') = IF Rank(r) > 2 THEN Rank(r) - 2 ELSE 0
      BY <1>11, <2>3, <3>1
    <3>3. \E x \in TwoMarkersAfter' : /\ \A q \in TwoMarkersAfter' : x <= q
                                      /\ LET n == Cardinality({q \in InsnEvents' : q <= x})
                                         IN  Len(delivered') = IF n > 2 THEN n - 2 ELSE 0
      BY <1>7, <3>2 DEF Rank
    <3> QED
      BY <2>5, <3>3 DEF AllButTwo, AllButTwoOf, AbortsAtMarkers
  <2> QED
    BY <1>3, <1>8, <2>1, <2>2, <2>4, <2>5 DEF TraceInv, ReaderInv
<1>9. CASE /\ Reads(p) /\ delivered' = Append(delivered, init_instruction(Returned(l, p)))
           /\ last' = p /\ pos' = NextInsn(p) /\ UNCHANGED mode
  <2>1. p = NextInsn(l) /\ InsnAfter(l) # {} /\ InsnAfter(p) # {}
    BY <1>1, <1>5, <1>9, ReadsOn
  <2>2. Rank(p) = Len(delivered) + 2 /\ NextInsn(p) \in InsnEvents /\ p # 0
    <3>1. Rank(p) = Rank(l) + 1
      BY <1>1, <1>4, <2>1, Ranks
    <3>2. p \in DOMAIN trace
      BY <1>5 DEF InsnEvents
    <3>3. p # 0
      BY <1>1, <3>2
    <3> QED
      BY <1>1, <1>4, <1>5, <2>1, <3>1, <3>3, NextIs
  <2> DEFINE i == init_instruction(Returned(l, p))
  <2>3. i \in InstrType
    BY <1>1, <1>4, <1>5, InstrIs
  <2>4. /\ delivered \in Seq(InstrType) /\ delivered' \in Seq(InstrType) /\ Len(delivered') = Len(delivered) + 1
        /\ DOMAIN delivered' = 1 .. Len(delivered) + 1 /\ delivered'[Len(delivered) + 1] = i
        /\ DOMAIN delivered = 1 .. Len(delivered)
        /\ \A k \in 1 .. Len(delivered) : delivered'[k] = delivered[k]
    <3> HIDE DEF i
    <3>1. delivered \in Seq(InstrType)
      BY <1>1 DEF ReaderInv, ReaderType
    <3>2. delivered' = Append(delivered, i)
      BY <1>9 DEF i
    <3> QED
      BY <2>3, <3>1, <3>2
  <2>5. ReaderType'
    <3>1. p \in 0 .. Len(trace) /\ NextInsn(p) \in 0 .. Len(trace) + 2
      BY <1>1, <1>5, <2>2 DEF InsnEvents
    <3> QED
      BY <1>1, <1>2, <1>9, <2>4, <3>1 DEF ReaderInv, ReaderType
  <2>7. AtInsn'
    BY <1>1, <1>5, <1>7, <1>9, <2>1, <2>2, <2>4, <1>10 DEF AtInsn
  <2>8. Deliveries'
    <3> HIDE DEF i
    <3> SUFFICES ASSUME NEW k \in 1 .. Len(delivered) + 1
                 PROVE  \E x \in InsnEvents : /\ Rank(x) = k /\ InsnAfter(x) # {}
                                              /\ delivered'[k] = init_instruction(Returned(x, NextInsn(x)))
      BY <1>7, <1>10, <2>4 DEF Deliveries
    <3>1. CASE k = Len(delivered) + 1
      BY <1>4, <2>1, <2>4, <3>1 DEF i
    <3>2. CASE k \in 1 .. Len(delivered)
      BY <1>1, <2>4, <3>2 DEF ReaderInv, Deliveries
    <3> QED
      BY <1>4, <3>1, <3>2
  <2>9. NonePassed'
    BY <1>1, <1>5, <1>7, <1>9, <1>11, ReadsPast DEF NonePassed
  <2> QED
    BY <1>1, <1>2, <1>3, <1>9, <2>5, <2>7, <2>8, <2>9 DEF TraceInv, ReaderInv, AllButTwo, AbortsAtMarkers
<1> QED
  BY <1>6, <1>8, <1>9

(* A file that starts right is opened at its first instruction.             *)
LEMMA OpenInv ==
  ASSUME TraceInv, open
  PROVE  TraceInv'
<1>1. /\ PluginInv /\ ReaderInv /\ UNCHANGED pluginVars /\ mode = "closed" /\ done
      /\ delivered = <<>> /\ last = 0 /\ trace \in Seq(Event) /\ Len(trace) \in Nat
  BY DEF TraceInv, ReaderInv, open, PluginInv, PluginType
<1>2. UNCHANGED <<trace, done, last, delivered>> /\ pos' = 2 /\ mode' = IF StartsRight THEN "open" ELSE "aborted"
  BY DEF open, pluginVars
<1>3. PluginInv'
  BY <1>1, PluginInductive
<1>4. StartsRight' = StartsRight /\ InsnEvents' = InsnEvents /\ TwoMarkersAfter' = TwoMarkersAfter
  BY <1>2, SameFile
<1>5. ReaderType'
  BY <1>1, <1>2 DEF ReaderInv, ReaderType
<1>6. mode' = "open" => AtInsn'
  BY <1>1, <1>2, <1>4, FirstRank DEF AtInsn
<1>7. Deliveries' /\ AllButTwo' /\ AbortsAtMarkers'
  BY <1>1, <1>2, <1>4 DEF Deliveries, AllButTwo, AbortsAtMarkers
<1>8. mode' = "open" => NonePassed'
  <2> SUFFICES ASSUME StartsRight, NEW q \in TwoMarkersAfter PROVE 2 <= q
    BY <1>2, <1>4 DEF NonePassed
  <2>1. q \in 1 .. Len(trace) /\ trace[q].event = "INSN" /\ trace[1].event = "NOP"
    BY <1>1 DEF TwoMarkersAfter, InsnEvents, StartsRight, IsA
  <2>2. q # 1
    BY <2>1
  <2> QED
    BY <1>1, <2>1, <2>2
<1> QED
  BY <1>1, <1>2, <1>3, <1>5, <1>6, <1>7, <1>8 DEF TraceInv, ReaderInv

(* The invariant holds before the guest has executed anything.              *)
LEMMA InitInv == Init => TraceInv
<1> SUFFICES ASSUME Init PROVE TraceInv
  OBVIOUS
<1>1. PluginInv
  <2>1. /\ trace = <<>> /\ pending = <<>> /\ Len(trace) = 0 /\ DOMAIN trace = {} /\ icount = 0 /\ current = 0
        /\ status = FALSE /\ done = FALSE /\ pc \in Ips
    BY DEF Init, PluginInit
  <2>2. PluginType
    <3>1. trace \in Seq(Event) /\ pending \in Seq(Kinds)
      BY <2>1
    <3>2. current \in 0 .. Len(trace) /\ icount \in Nat
      BY <2>1
    <3> QED
      BY <2>1, <3>1, <3>2 DEF PluginType
  <2> QED
    BY <2>1, <2>2 DEF PluginInv, Runs, Growing
<1>2. ReaderInv
  <2>1. trace = <<>> /\ Len(trace) = 0 /\ mode = "closed" /\ pos = 0 /\ last = 0 /\ delivered = <<>>
    BY DEF Init, PluginInit
  <2>2. ReaderType
    BY <2>1 DEF ReaderType
  <2> QED
    BY <2>1, <2>2 DEF ReaderInv, Deliveries, AllButTwo, AbortsAtMarkers
<1> QED
  BY <1>1, <1>2 DEF TraceInv

(* The plugin works on the file only before the reader opens it.            *)
LEMMA WritingInv ==
  ASSUME TraceInv, PluginNext, UNCHANGED readerVars
  PROVE  TraceInv'
<1>1. ~done /\ mode = "closed" /\ pos = 0 /\ last = 0 /\ delivered = <<>>
  <2>1. ~done
    BY DEF PluginNext, vcpu_insn_exec_before, vcpu_insn_exec, vcpu_haddr, Abandon, Interrupt, Exit, Room
  <2> QED
    BY <2>1 DEF TraceInv, ReaderInv
<1>2. PluginInv'
  BY PluginInductive DEF TraceInv
<1>3. mode' = "closed" /\ pos' = 0 /\ last' = 0 /\ delivered' = <<>>
  BY <1>1 DEF readerVars
<1>4. Len(trace') \in Nat
  BY <1>2 DEF PluginInv, PluginType
<1>5. ReaderType'
  BY <1>3, <1>4 DEF ReaderType
<1> QED
  BY <1>2, <1>3, <1>5 DEF TraceInv, ReaderInv, Deliveries, AllButTwo, AbortsAtMarkers

(* Writing, opening and reading keep the invariant.                         *)
LEMMA NextInv == TraceInv /\ [Next]_vars => TraceInv'
<1> SUFFICES ASSUME TraceInv, [Next]_vars PROVE TraceInv'
  OBVIOUS
<1>1. CASE UNCHANGED vars
  <2>1. UNCHANGED pluginVars /\ UNCHANGED <<status, icount, pc, pending, current, trace, done, mode, pos, last, delivered>>
    BY <1>1 DEF vars, pluginVars, readerVars
  <2>2. PluginInv'
    BY <2>1, PluginInductive DEF TraceInv
  <2>3. ReaderInv'
    <3>1. ReaderInv /\ ReaderType'
      BY <2>1 DEF TraceInv, ReaderInv, ReaderType
    <3>2. mode' = "open" => AtInsn' /\ NonePassed'
      BY <2>1, <3>1, SameFile DEF ReaderInv, AtInsn, NonePassed
    <3>3. Deliveries'
      BY <2>1, <3>1, SameFile DEF ReaderInv, Deliveries
    <3>4. AllButTwo' /\ AbortsAtMarkers'
      <4>1. AllButTwo' = AllButTwo
        BY <2>1 DEF AllButTwo, AllButTwoOf, InsnEvents
      <4>2. AbortsAtMarkers' = AbortsAtMarkers
        BY <2>1 DEF AbortsAtMarkers, AllButTwoOf, TwoMarkersAfter, InsnEvents, StartsRight, IsA
      <4> QED
        BY <3>1, <4>1, <4>2 DEF ReaderInv
    <3> QED
      BY <2>1, <3>1, <3>2, <3>3, <3>4 DEF ReaderInv
  <2> QED
    BY <2>2, <2>3 DEF TraceInv
<1> QED
  BY <1>1, WritingInv, OpenInv, GetInv DEF Next

(* The events of a trace stand in the order the guest gave rise to them,    *)
(* and the reader is where it should be in them, whatever the guest does.   *)
THEOREM TraceInvariant == Spec => []TraceInv
BY InitInv, NextInv, PTL DEF Spec

(* Counters, trace and deliveries keep their types (cache_test.c,           *)
(* tracereader.cc): no device access and no unknown branch type gets        *)
(* through to the core.                                                     *)
THEOREM TypeCorrect == Spec => []TypeOK
<1>1. TraceInv => TypeOK
  <2> SUFFICES ASSUME TraceInv PROVE TypeOK
    OBVIOUS
  <2>1. \A p \in DOMAIN trace : trace[p].event \in {"NOP", "INSN", "DATA"}
    BY Fields DEF TraceInv, PluginInv, PluginType
  <2> QED
    BY <2>1 DEF TypeOK, TraceInv, PluginInv, PluginType, ReaderInv, ReaderType
<1> QED
  BY <1>1, TraceInvariant, PTL

(* What was delivered as the k-th instruction.                              *)
LEMMA KthDelivered ==
  ASSUME TraceInv, NEW k \in DOMAIN delivered
  PROVE  LET p == KthInsn(k)
         IN  /\ p \in InsnEvents /\ InsnAfter(p) # {} /\ Rank(p) = k
             /\ delivered[k] = init_instruction(Returned(p, NextInsn(p)))
<1>1. PICK p \in InsnEvents : /\ Rank(p) = k /\ InsnAfter(p) # {}
                              /\ delivered[k] = init_instruction(Returned(p, NextInsn(p)))
  BY DEF TraceInv, ReaderInv, Deliveries
<1>2. KthInsn(k) = p
  BY <1>1, KthIs DEF TraceInv, PluginInv, PluginType
<1> QED
  BY <1>1, <1>2

(* The event behind an instruction is its first access, if it made any that *)
(* were traced.                                                             *)
LEMMA FirstAccess ==
  ASSUME PluginInv, NEW p \in InsnEvents
  PROVE  IF Accesses(p) = {} THEN AccessOf(p) = "none"
         ELSE \E d \in Accesses(p) : /\ AccessOf(p) = trace[d].load_store
                                     /\ \A e \in Accesses(p) : d <= e
<1>1. /\ DOMAIN trace = 1 .. Len(trace) /\ Len(trace) \in Nat /\ p \in 1 .. Len(trace) /\ trace[p].event = "INSN"
  BY DEF PluginInv, PluginType, InsnEvents
<1>2. ASSUME NEW d \in Accesses(p)
      PROVE  p + 1 <= d /\ p + 1 \in Accesses(p) /\ d \in Nat
  <2>1. d \in DOMAIN trace /\ trace[d].event = "DATA" /\ trace[d].by = p
    BY DEF Accesses, IsA
  <2>2. p \in 1 .. d - 1 /\ Run(p, d)
    BY <2>1 DEF PluginInv, Runs
  <2>3. p + 1 \in p + 1 .. d /\ p + 1 \in DOMAIN trace /\ d \in Nat
    BY <1>1, <2>1, <2>2
  <2> QED
    BY <2>2, <2>3 DEF Run, Accesses, IsA
<1>3. ASSUME IsA("DATA", p + 1) PROVE p + 1 \in Accesses(p)
  <2>1. p + 1 \in DOMAIN trace /\ trace[p + 1].event = "DATA"
    BY <1>3 DEF IsA
  <2>2. trace[p + 1].by \in 1 .. p /\ Run(trace[p + 1].by, p + 1)
    BY <1>1, <2>1 DEF PluginInv, Runs
  <2>3. trace[p + 1].by = p
    <3>1. ASSUME trace[p + 1].by < p PROVE FALSE
      <4>1. p \in trace[p + 1].by + 1 .. p + 1
        BY <1>1, <2>2, <3>1
      <4> QED
        BY <1>1, <2>2, <4>1 DEF Run
    <3> QED
      BY <1>1, <2>2, <3>1
  <2> QED
    BY <1>3, <2>1, <2>3 DEF Accesses
<1>4. CASE Accesses(p) = {}
  BY <1>3, <1>4 DEF AccessOf
<1>5. CASE Accesses(p) # {}
  <2>1. p + 1 \in Accesses(p) /\ \A e \in Accesses(p) : p + 1 <= e
    BY <1>2, <1>5
  <2>2. IsA("DATA", p + 1)
    BY <2>1 DEF Accesses
  <2> QED
    BY <1>5, <2>1, <2>2 DEF AccessOf
<1> QED
  BY <1>4, <1>5

(* Whatever the guest executes, and wherever it is interrupted, the core is *)
(* given the instructions of the trace in order, none left out, each with   *)
(* the first access that it made itself.                                    *)
THEOREM InOrder == Spec => []DeliveredInOrder
<1>1. TraceInv => DeliveredInOrder
  <2> SUFFICES ASSUME TraceInv PROVE DeliveredInOrder
    OBVIOUS
  <2>1. trace \in Seq(Event) /\ delivered \in Seq(InstrType) /\ PluginInv
    BY DEF TraceInv, PluginInv, PluginType, ReaderInv, ReaderType
  <2>2. ASSUME NEW k \in DOMAIN delivered
        PROVE  LET p == KthInsn(k)
               IN  /\ delivered[k].ip = trace[p].vaddr
                   /\ IF Accesses(p) = {} THEN delivered[k].access = "none"
                      ELSE \E d \in Accesses(p) : /\ delivered[k].access = trace[d].load_store
                                                  /\ \A e \in Accesses(p) : d <= e
    <3> DEFINE p == KthInsn(k)
    <3>1. p \in InsnEvents /\ InsnAfter(p) # {} /\ delivered[k] = init_instruction(Returned(p, NextInsn(p)))
      BY KthDelivered
    <3>2. NextInsn(p) \in InsnEvents
      BY <2>1, <3>1, NextIs
    <3>3. delivered[k].ip = trace[p].vaddr /\ delivered[k].access = AccessOf(p)
      BY <2>1, <3>1, <3>2, InstrIs
    <3> HIDE DEF p
    <3>4. IF Accesses(p) = {} THEN delivered[k].access = "none"
          ELSE \E d \in Accesses(p) : /\ delivered[k].access = trace[d].load_store
                                      /\ \A e \in Accesses(p) : d <= e
      BY <2>1, <3>1, <3>3, FirstAccess
    <3> QED
      BY <3>3, <3>4 DEF p
  <2>3. Len(delivered) <= Cardinality(InsnEvents)
    <3>1. CASE Len(delivered) = 0
      BY <2>1, <3>1, Ranks
    <3>2. CASE Len(delivered) # 0
      <4>1. Len(delivered) \in DOMAIN delivered
        BY <2>1, <3>2
      <4> QED
        BY <2>1, <4>1, KthDelivered, Ranks
    <3> QED
      BY <3>1, <3>2
  <2> QED
    BY <2>2, <2>3 DEF DeliveredInOrder
<1> QED
  BY <1>1, TraceInvariant, PTL

(* The core is given the branches the guest executed, for every program:    *)
(* their types but for OTHERS, and the outcome and target of conditional    *)
(* branches.                                                                *)
THEOREM BranchesRight == Spec => []BranchesAsExecuted
<1>1. TraceInv => BranchesAsExecuted
  <2> SUFFICES ASSUME TraceInv, NEW k \in DOMAIN delivered
               PROVE  LET p == KthInsn(k)
                          t == trace[p].br_type
                      IN  /\ t # "OTHERS" => delivered[k].branch_type = BranchType[t]
                          /\ t = "BRANCH" /\ trace[NextInsn(p)].vaddr = trace[p].to =>
                                /\ delivered[k].taken <=> trace[p].to = trace[p].target_vaddr
                                /\ delivered[k].branch_target = IF delivered[k].taken THEN trace[p].to ELSE 0
    BY DEF BranchesAsExecuted
  <2> DEFINE p == KthInsn(k)
  <2>1. trace \in Seq(Event)
    BY DEF TraceInv, PluginInv, PluginType
  <2>2. p \in InsnEvents /\ InsnAfter(p) # {} /\ delivered[k] = init_instruction(Returned(p, NextInsn(p)))
    BY KthDelivered
  <2>3. NextInsn(p) \in InsnEvents
    BY <2>1, <2>2, NextIs
  <2> HIDE DEF p
  <2>4. LET t == trace[p].br_type
        IN  /\ t # "OTHERS" => delivered[k].branch_type = BranchType[t]
            /\ t = "BRANCH" => /\ delivered[k].taken <=> trace[NextInsn(p)].vaddr = trace[p].target_vaddr
                               /\ delivered[k].branch_target = IF delivered[k].taken THEN trace[p].target_vaddr ELSE 0
    BY <2>1, <2>2, <2>3, InstrIs
  <2> QED
    BY <2>4 DEF p
<1> QED
  BY <1>1, TraceInvariant, PTL

(* When the reader exits it has delivered all instructions but two.         *)
THEOREM LosesTwo == Spec => []AllButTwo
<1>1. TraceInv => AllButTwo
  BY DEF TraceInv, ReaderInv
<1> QED
  BY <1>1, TraceInvariant, PTL

(* On every file that starts right the reader aborts exactly if some        *)
(* instruction has two markers right behind it (cache_test.c traces every   *)
(* marker, tracereader.cc asserts that an instruction follows one), at the  *)
(* first such instruction; on any other file no assertion fails.            *)
THEOREM AbortsOnlyThere == Spec => []AbortsAtMarkers
<1>1. TraceInv => AbortsAtMarkers
  BY DEF TraceInv, ReaderInv
<1> QED
  BY <1>1, TraceInvariant, PTL
=============================================================================
