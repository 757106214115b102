--------------------------- MODULE MCTraceReader ---------------------------
EXTENDS TraceReader

Insn(type, target, accesses, next) ==
  [br_type |-> type, target_vaddr |-> target, accesses |-> accesses, next |-> next]

(* A loop with a read-modify-write and two calls, a device access, and the  *)
(* handler, which goes back to where it was called from.                    *)
MCCode ==
  <<Insn("OP", 0, <<"load", "store">>, {2}),
    Insn("BRANCH", 1, <<>>, {1, 3}),
    Insn("CALL_DIRECT", 6, <<"store">>, {6}),
    Insn("CALL_INDIRECT", 0, <<"io", "store">>, {6}),
    Insn("JMP_INDIRECT", 0, <<>>, {1}),
    Insn("RET", 0, <<"load">>, {4, 5}),
    Insn("JMP_DIRECT", 8, <<>>, {8}),
    Insn("OTHERS", 0, <<>>, {1, 2})>>
=============================================================================
