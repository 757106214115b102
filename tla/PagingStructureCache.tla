----------------------- MODULE PagingStructureCache ------------------------
(***************************************************************************)
(* The paging structure caches PSCL5 .. PSCL2 of the page table walker     *)
(* (src/ptw.cc, inc/ptw.h): set-associative maps from the upper bits of a  *)
(* virtual page to the page of the next table.  A cache is known by its    *)
(* level, 4 .. 1.                                                          *)
(***************************************************************************)
EXTENDS VirtualMemory, FiniteSetsExt

CONSTANTS
  NUM_SET, NUM_WAY,  \* per level
  LruInit            \* the initial lru of a block (max uint32 / 2)

PSCL5 == 4
PSCL4 == 3
PSCL3 == 2
PSCL2 == 1
PscLevels == {PSCL5, PSCL4, PSCL3, PSCL2}

ASSUME PscAssumption ==
  /\ pt_levels > PSCL5
  /\ NUM_SET \in [PscLevels -> Nat \ {0}]
  /\ NUM_WAY \in [PscLevels -> Nat \ {0}]
  /\ LruInit \in Nat

VARIABLE block       \* level -> set -> way -> block

Ways(l) == 1 .. NUM_WAY[l]
NoBlock == [valid |-> FALSE, address |-> <<>>, data |-> 0, lru |-> LruInit]
BlockInit ==
  block = [l \in PscLevels |-> [s \in 0 .. NUM_SET[l] - 1 |-> [w \in Ways(l) |-> NoBlock]]]

(* The low bits of the address above the cache's level.                    *)
SetIndex(v, l) == IF l + 1 < pt_levels THEN v[l + 1] % NUM_SET[l] ELSE 0

(* std::max_element under lru_comparator, for which every invalid block is *)
(* above every block: the last invalid way, or else the first of the ways  *)
(* with the largest lru.                                                   *)
Victim(ways) ==
  LET invalid == {w \in DOMAIN ways : ~ ways[w].valid}
      oldest  == {w \in DOMAIN ways : \A x \in DOMAIN ways : ways[x].lru <= ways[w].lru}
  IN  IF invalid # {} THEN Max(invalid) ELSE Min(oldest)

lru_updater(val, b) == [b EXCEPT !.lru = IF b.lru = val THEN 0 ELSE b.lru + 1]

(* The block map of level l after fill_cache.                              *)
fill_cache(l, page, v, blocks) ==
  LET s == SetIndex(v, l)
      w == Victim(blocks[s])
      filled == [blocks[s] EXCEPT ![w] = [valid |-> TRUE, address |-> Shifted(v, l + 1),
                                          data |-> page, lru |-> @.lru]]
  IN  [blocks EXCEPT ![s] = [x \in Ways(l) |-> lru_updater(filled[w].lru, filled[x])]]

HitWays(l, v) ==
  {w \in Ways(l) : LET b == block[l][SetIndex(v, l)][w]
                   IN  b.valid /\ b.address = Shifted(v, l + 1)}
IsHit(l, v) == HitWays(l, v) # {}
(* check_hit: the entry of v in the table the first matching way holds.    *)
check_hit(l, v) ==
  [page |-> block[l][SetIndex(v, l)][Min(HitWays(l, v))].data, off |-> get_offset(v, l)]
=============================================================================
