---------------------------- MODULE TraceReader ----------------------------
(* ChampSim's reader of QEMU traces (tracereader.cc), and what              *)
(* O3_CPU::init_instruction makes of the instructions it returns.  The      *)
(* reader starts on the file that TracePlugin has left behind.              *)
EXTENDS TracePlugin, Integers, FiniteSets

VARIABLES mode,       \* "closed", "open", "exited" or "aborted"
          pos,        \* the instruction event whose header has been read
          last,       \* event of last_instr, 0 until initialized
          delivered   \* the instructions given to the core

readerVars == <<mode, pos, last, delivered>>
vars == <<pluginVars, readerVars>>

IsA(e, p) == p \in DOMAIN trace /\ trace[p].event = e

(* tracereader::open: a begin marker and an instruction come first. The     *)
(* reads are not checked, so a file that is too short fails the same way.   *)
StartsRight == IsA("NOP", 1) /\ trace[1].byte0 = "be" /\ IsA("INSN", 2)
open ==
  /\ done /\ mode = "closed"
  /\ mode' = IF StartsRight THEN "open" ELSE "aborted"
  /\ pos' = 2
  /\ UNCHANGED <<last, delivered, pluginVars>>

(* read_single_instr_qemutrace, at the instruction event p. The end of the  *)
(* file exits, an event out of place fails an assertion. After an access    *)
(* everything up to the next instruction is skipped; a marker that comes    *)
(* first has to be followed by an instruction.                              *)
InsnAfter(p) == {q \in p + 1 .. Len(trace) : trace[q].event = "INSN"}
NextInsn(p)  == CHOOSE q \in InsnAfter(p) : \A r \in InsnAfter(p) : q <= r
ExitsAtMarker(p) ==
  \/ p = Len(trace)
  \/ IsA("DATA", p + 1) /\ (InsnAfter(p) = {} \/ IsA("NOP", p + 2))
  \/ IsA("NOP", p + 1) /\ p + 1 = Len(trace)
Exits(p) ==
  \/ p = Len(trace)
  \/ IsA("DATA", p + 1) /\ InsnAfter(p) = {}
  \/ IsA("NOP", p + 1) /\ p + 1 = Len(trace)
AssertsAfterData(p) ==
  \/ IsA("NOP", p + 1) /\ p + 1 < Len(trace) /\ ~IsA("INSN", p + 2)
  \/ IsA("DATA", p + 1) /\ InsnAfter(p) # {} /\ IsA("NOP", NextInsn(p) - 1)
Asserts(p) == IsA("NOP", p + 1) /\ p + 1 < Len(trace) /\ ~IsA("INSN", p + 2)
Reads(p)   == ~Exits(p) /\ ~Asserts(p)
LastAccessOf(p) ==
  LET skipped == {d \in p + 1 .. NextInsn(p) - 1 : trace[d].event = "DATA"}
  IN  IF skipped = {} THEN "none"
      ELSE trace[CHOOSE d \in skipped : \A e \in skipped : e <= d].load_store
AccessOf(p) == IF IsA("DATA", p + 1) THEN trace[p + 1].load_store ELSE "none"

(* get(): the branch type and the registers that stand for it.              *)
BranchType ==
  [OP |-> "NOT_BRANCH", BRANCH |-> "BRANCH_CONDITIONAL", JMP_DIRECT |-> "BRANCH_DIRECT_JUMP",
   JMP_INDIRECT |-> "BRANCH_INDIRECT", CALL_DIRECT |-> "BRANCH_DIRECT_CALL",
   CALL_INDIRECT |-> "BRANCH_INDIRECT_CALL", RET |-> "BRANCH_RETURN", OTHERS |-> "BRANCH_OTHER"]
Destinations ==
  [t \in OpTypes |-> CASE t = "OP" -> {}
                       [] t \in {"CALL_DIRECT", "CALL_INDIRECT", "RET"} -> {"IP", "SP"}
                       [] OTHER -> {"IP"}]
SourcesOfDirectCalls ==
  [OP |-> {}, BRANCH |-> {"IP", "FLAGS"}, JMP_DIRECT |-> {}, JMP_INDIRECT |-> {"R50"},
   CALL_DIRECT |-> {"IP", "SP"}, CALL_INDIRECT |-> {"IP", "SP"}, RET |-> {"SP"}, OTHERS |-> {}]
Sources ==
  [OP |-> {}, BRANCH |-> {"IP", "FLAGS"}, JMP_DIRECT |-> {}, JMP_INDIRECT |-> {"R50"},
   CALL_DIRECT |-> {"IP", "SP"}, CALL_INDIRECT |-> {"IP", "SP", "R50"}, RET |-> {"SP"}, OTHERS |-> {}]
Taken(l, p) ==
  LET t == trace[l].br_type
  IN  CASE t = "OP" -> FALSE
        [] t \in {"BRANCH", "OTHERS"} -> trace[l].target_vaddr = trace[p].vaddr
        [] OTHER -> TRUE
Returned(l, p) ==
  [ip |-> trace[l].vaddr, access |-> AccessOf(l), taken |-> Taken(l, p),
   branch_type |-> BranchType[trace[l].br_type],
   branch_target |-> IF trace[l].br_type = "OP" THEN 0 ELSE trace[l].target_vaddr,
   dst |-> Destinations[trace[l].br_type], src |-> Sources[trace[l].br_type]]

(* init_instruction tells the branch type from the registers again.         *)
ReadsOther(i) == i.src \ {"SP", "FLAGS", "IP"} # {}
Kind(i) ==
  LET sp == "SP" \in i.src  ip == "IP" \in i.src  fl == "FLAGS" \in i.src
      wsp == "SP" \in i.dst  oth == ReadsOther(i)
  IN  IF "IP" \notin i.dst THEN i.branch_type ELSE
      CASE ~sp /\ ~fl /\ ~oth -> "BRANCH_DIRECT_JUMP"
        [] ~sp /\ ~fl /\ oth -> "BRANCH_INDIRECT"
        [] ~sp /\ ip /\ ~wsp /\ fl /\ ~oth -> "BRANCH_CONDITIONAL"
        [] sp /\ ip /\ wsp /\ ~fl /\ ~oth -> "BRANCH_DIRECT_CALL"
        [] sp /\ ip /\ wsp /\ ~fl /\ oth -> "BRANCH_INDIRECT_CALL"
        [] sp /\ ~ip /\ wsp -> "BRANCH_RETURN"
        [] OTHER -> "BRANCH_OTHER"
init_instruction(i) ==
  LET taken == Kind(i) \in {"NOT_BRANCH", "BRANCH_CONDITIONAL", "BRANCH_OTHER"} => i.taken
  IN  [ip |-> i.ip, access |-> i.access, branch_type |-> Kind(i), taken |-> taken,
       branch_target |-> IF taken THEN i.branch_target ELSE 0]

(* get() as the main loop calls it: it stays one instruction behind what it *)
(* has read, so its first call reads two.                                   *)
get ==
  /\ mode = "open"
  /\ \E l \in {IF last = 0 THEN pos ELSE last} :
     \E p \in {IF last = 0 /\ Reads(pos) THEN NextInsn(pos) ELSE pos} :
        \/ /\ Exits(p)
           /\ mode' = "exited"
           /\ UNCHANGED <<pos, last, delivered>>
        \/ /\ Asserts(p)
           /\ mode' = "aborted"
           /\ UNCHANGED <<pos, last, delivered>>
        \/ /\ Reads(p)
           /\ delivered' = Append(delivered, init_instruction(Returned(l, p)))
           /\ last' = p
           /\ pos' = NextInsn(p)
           /\ UNCHANGED mode
  /\ UNCHANGED pluginVars

Init ==
  /\ PluginInit
  /\ mode = "closed" /\ pos = 0 /\ last = 0 /\ delivered = <<>>

Next == (PluginNext /\ UNCHANGED readerVars) \/ open \/ get

Spec == Init /\ [][Next]_vars

-----------------------------------------------------------------------------
InstrType ==
  [ip: Ips, access: {"none", "load", "store"}, taken: BOOLEAN, branch_target: Nat,
   branch_type: {BranchType[t] : t \in OpTypes}]

(* The counters, the trace and what was delivered keep their types.         *)
TypeOK ==
  /\ status \in BOOLEAN /\ icount \in Nat /\ pc \in Ips /\ pending \in Seq(Kinds)
  /\ current \in 0 .. Len(trace) /\ done \in BOOLEAN
  /\ \A p \in DOMAIN trace : trace[p].event \in {"NOP", "INSN", "DATA"}
  /\ mode \in {"closed", "open", "exited", "aborted"}
  /\ pos \in 0 .. Len(trace) + 2 /\ last \in 0 .. Len(trace)
  /\ delivered \in Seq(InstrType)

InsnEvents == {p \in DOMAIN trace : trace[p].event = "INSN"}
KthInsn(k) == CHOOSE p \in InsnEvents : Cardinality({q \in InsnEvents : q <= p}) = k

(* The instructions delivered are the first ones of the trace in their      *)
(* order, none left out, each with the first access that it made itself:    *)
(* the reader finds it in the event after the instruction.                  *)
Accesses(p) == {d \in DOMAIN trace : IsA("DATA", d) /\ trace[d].by = p}
DeliveredInOrder ==
  /\ Len(delivered) <= Cardinality(InsnEvents)
  /\ \A k \in DOMAIN delivered :
        LET p == KthInsn(k)
        IN  /\ delivered[k].ip = trace[p].vaddr
            /\ IF Accesses(p) = {} THEN delivered[k].access = "none"
               ELSE \E d \in Accesses(p) : /\ delivered[k].access = trace[d].load_store
                                           /\ \A e \in Accesses(p) : d <= e

AllButTwoOf(S) ==
  LET n == Cardinality(S) IN Len(delivered) = IF n > 2 THEN n - 2 ELSE 0

(* When the reader exits all instructions have been delivered but the last  *)
(* two: one is read ahead, one has nothing behind it that ends it.          *)
AllButTwo == mode = "exited" => AllButTwoOf(InsnEvents)

(* The core sees the branches the guest executed. The registers that get()  *)
(* invents make init_instruction find the same branch type again, for all   *)
(* types but OTHERS; and a conditional branch followed in the trace by the  *)
(* instruction the guest went to is taken exactly if the guest took it.     *)
BranchesAsExecuted ==
  \A k \in DOMAIN delivered :
     LET p == KthInsn(k)
         t == trace[p].br_type
     IN  /\ t # "OTHERS" => delivered[k].branch_type = BranchType[t]
         /\ t = "BRANCH" /\ trace[NextInsn(p)].vaddr = trace[p].to =>
               /\ delivered[k].taken <=> trace[p].to = trace[p].target_vaddr
               /\ delivered[k].branch_target = IF delivered[k].taken THEN trace[p].to ELSE 0

(* "See if next trace line is instruction", the reader says after a marker, *)
(* and asserts it: no assertion fails on a file that starts right.  It      *)
(* does, as the plugin traces every marker: an end marker and the next      *)
(* begin marker can come without an instruction between them.               *)
NeverAborts == mode = "aborted" => ~StartsRight

(* Of the files that start right, the reader aborts on those in which an    *)
(* instruction has two markers right behind it, and on no other; it does so *)
(* at the first such instruction, all before it read as if the trace ended  *)
(* there.  Markers that come after an access do no harm, however many.      *)
TwoMarkersAfter == {p \in InsnEvents : IsA("NOP", p + 1) /\ IsA("NOP", p + 2)}
AbortsAtMarkers ==
  StartsRight =>
    /\ mode = "exited" => TwoMarkersAfter = {}
    /\ mode = "aborted" =>
         \E p \in TwoMarkersAfter : /\ \A q \in TwoMarkersAfter : p <= q
                                    /\ AllButTwoOf({q \in InsnEvents : q <= p})
=============================================================================
