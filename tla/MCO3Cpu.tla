------------------------------ MODULE MCO3Cpu ------------------------------
EXTENDS O3Cpu

Insn(load, store, src, dst) == [load |-> load, store |-> store, src |-> src, dst |-> dst]

(* Instructions without access, loads and stores, each with and without a   *)
(* register dependency; two addresses.                                      *)
Insns ==
  {Insn(0, 0, {}, {"r"}), Insn(0, 0, {"r"}, {"r"}),
   Insn(1, 0, {}, {"r"}), Insn(1, 0, {"r"}, {"r"}),
   Insn(0, 1, {}, {}), Insn(0, 1, {"r"}, {}), Insn(0, 2, {}, {})}
(* All programs of four instructions, and some of six that fill the reorder *)
(* buffer: loads and stores behind a load that waits for its register.      *)
Opening == <<Insn(0, 0, {}, {"r"}), Insn(1, 0, {"r"}, {"r"})>>
MCPrograms ==
  [1 .. 4 -> Insns] \cup
  {Opening \o p : p \in [1 .. 4 -> {Insn(1, 0, {}, {"r"}), Insn(0, 1, {"r"}, {})}]}
=============================================================================
