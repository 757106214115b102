------------------------------ MODULE MCCache ------------------------------
EXTENDS Cache, TLC

(* Every address is a block of its own.                                    *)
MCBlockOf == [a \in Addrs |-> a]

(* The cache only compares addresses, so the blocks may be exchanged.      *)
Symmetry == Permutations(Addrs)
=============================================================================
