------------------------- MODULE MCPageTableWalker -------------------------
EXTENDS PageTableWalker

(* A page is named by its offsets at levels 3, 2 and 0.                    *)
Page(a, b, c) == [l \in 0 .. 4 |-> CASE l = 3 -> a [] l = 2 -> b [] l = 0 -> c [] OTHER -> 0]
TwoPages   == {Page(0, 0, 0), Page(0, 1, 0)}
ThreePages == TwoPages \cup {Page(1, 0, 0)}

TablesApart   == <<10, 3, 2, 1>>
TablesCollide == <<10, 12, 13, 14>>

MCSets  == [l \in PscLevels |-> 1]
MCWays  == [l \in PscLevels |-> IF l = PSCL5 THEN 1 ELSE 2]
=============================================================================
