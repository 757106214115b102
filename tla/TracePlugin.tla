---------------------------- MODULE TracePlugin ----------------------------
(* The tracing plugin of QEMU (tests/plugin/cache_test.c): which events of  *)
(* the guest's execution go to the trace, and in which order.               *)
(*                                                                          *)
(* QEMU runs with -icount, so all guest code runs in one thread: the        *)
(* callbacks of an instruction are not interleaved with those of another.   *)
(* An instruction may be abandoned between its callback and its access (a   *)
(* page fault, or an I/O access that -icount translates again), and is then *)
(* executed again later.  Physical addresses, privilege level and address   *)
(* space are carried along unread and left out.                             *)
EXTENDS Naturals, Sequences

CONSTANTS Code,        \* Code[ip]: [br_type, target_vaddr, accesses, next]
          Handler,     \* ip of the guest's fault and interrupt handler
          WARMUP_THRESHOLD_1, WARMUP_THRESHOLD_2,
          MaxTrace     \* bound on the number of events

Ips     == DOMAIN Code
OpTypes == {"OP", "BRANCH", "JMP_DIRECT", "JMP_INDIRECT",
            "CALL_DIRECT", "CALL_INDIRECT", "RET", "OTHERS"}
Markers == {"be", "ed", "ac"}        \* begin, end, other
Kinds   == {"load", "store", "io"}

ASSUME PluginCode ==
  /\ Handler \in Ips /\ Ips \subseteq Nat \ {0}
  /\ \A i \in Ips : /\ Code[i].br_type \in OpTypes /\ Code[i].target_vaddr \in Nat
                    /\ Code[i].accesses \in Seq(Kinds) /\ Code[i].next \subseteq Ips
                    /\ Code[i].br_type = "BRANCH" => Code[i].accesses = <<>>
ASSUME PluginBounds ==
  WARMUP_THRESHOLD_1 \in Nat /\ WARMUP_THRESHOLD_2 \in Nat /\ MaxTrace \in Nat

VARIABLES status, icount,  \* g_pqii_data
          pc,              \* the instruction the guest executes (next)
          pending,         \* its accesses still to come
          current,         \* its event in the trace, 0 if it is not traced
          trace,           \* the events written
          done             \* QEMU has ended

pluginVars == <<status, icount, pc, pending, current, trace, done>>

(* The events. `to' and `by' are for the properties: where the guest went   *)
(* from an instruction without accesses, and whose access this is.          *)
NOP(b)         == [event |-> "NOP", byte0 |-> b]
INSN(i, to)    == [event |-> "INSN", vaddr |-> i, br_type |-> Code[i].br_type,
                   target_vaddr |-> Code[i].target_vaddr, to |-> to]
DATA(kind, by) == [event |-> "DATA", load_store |-> kind, by |-> by]

Room == ~done /\ Len(trace) < MaxTrace

(* vcpu_insn_exec_before: a marker is always traced.                        *)
vcpu_insn_exec_before(b) ==
  /\ Room /\ pending = <<>>
  /\ trace' = Append(trace, NOP(b))
  /\ status' = CASE b = "be" -> TRUE [] b = "ed" -> FALSE [] OTHER -> status
  /\ UNCHANGED <<icount, pc, pending, current, done>>

(* vcpu_insn_exec_normal, _br, _dir_jmp, ...: one callback for each type,   *)
(* the type and target fixed when the instruction was translated.           *)
Recorded(n) == n > WARMUP_THRESHOLD_1 /\ n <= WARMUP_THRESHOLD_2
vcpu_insn_exec(to) ==
  LET count  == icount + 1
      traced == status /\ Recorded(count)
  IN  /\ Room /\ pending = <<>>
      /\ IF Code[pc].accesses = <<>> THEN to \in Code[pc].next ELSE to = pc
      /\ icount' = IF status THEN count ELSE icount
      /\ status' = (status /\ count <= WARMUP_THRESHOLD_2)
      /\ trace' = IF traced THEN Append(trace, INSN(pc, to)) ELSE trace
      /\ current' = IF traced THEN Len(trace) + 1 ELSE 0
      /\ pending' = Code[pc].accesses
      /\ pc' = to
      /\ UNCHANGED done

(* vcpu_haddr after an access; tlb_plugin_lookup writes the event, unless   *)
(* the access was to a device.                                              *)
TracedAll(kind) == status /\ Recorded(icount)
Traced(kind)    == status /\ Recorded(icount) /\ kind # "io"
vcpu_haddr(to) ==
  /\ Room /\ pending # <<>>
  /\ IF Len(pending) = 1 THEN to \in Code[pc].next ELSE to = pc
  /\ trace' = IF Traced(Head(pending))
              THEN Append(trace, DATA(Head(pending), current)) ELSE trace
  /\ pending' = Tail(pending)
  /\ pc' = to
  /\ UNCHANGED <<status, icount, current, done>>

(* The instruction is given up at an access, for the handler or to be       *)
(* translated again; or an interrupt arrives between instructions.          *)
Abandon   == ~done /\ pending # <<>> /\ pending' = <<>> /\ pc' \in {pc, Handler}
             /\ UNCHANGED <<status, icount, current, trace, done>>
Interrupt == ~done /\ pending = <<>> /\ pc' = Handler
             /\ UNCHANGED <<status, icount, pending, current, trace, done>>

Exit == ~done /\ done' = TRUE /\ UNCHANGED <<status, icount, pc, pending, current, trace>>

PluginInit ==
  /\ status = FALSE /\ icount = 0
  /\ pc \in Ips /\ pending = <<>> /\ current = 0
  /\ trace = <<>> /\ done = FALSE

PluginNext ==
  \/ \E b \in Markers : vcpu_insn_exec_before(b)
  \/ \E to \in Ips : vcpu_insn_exec(to)
  \/ \E to \in Ips : vcpu_haddr(to)
  \/ Abandon
  \/ Interrupt
  \/ Exit
=============================================================================
