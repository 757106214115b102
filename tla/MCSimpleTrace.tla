--------------------------- MODULE MCSimpleTrace ---------------------------
EXTENDS SimpleTrace, TLC

CONSTANTS p1, p2, insn, nop

OneProducer  == {p1}
TwoProducers == {p1, p2}
BothEvents   == {insn, nop}
OneEvent     == {nop}
MCArgWords   == [e \in Events |-> IF e = insn THEN 2 ELSE 1]
Symmetry     == Permutations(Producers)
=============================================================================
