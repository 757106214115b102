--------------------------- MODULE VirtualMemory ---------------------------
(***************************************************************************)
(* VirtualMemory (src/vmem.cc): hands out physical pages to virtual pages  *)
(* and to page tables, on first use.  The map of one CPU.                  *)
(*                                                                         *)
(* A virtual page is the function of its table offsets, level by level; a  *)
(* physical page is its number.  config.sh always builds page tables of    *)
(* PAGE_SIZE bytes, so next_pte_page advances by one page.                 *)
(***************************************************************************)
EXTENDS Integers, Sequences, FiniteSets

CONSTANTS
  pt_levels,   \* levels of the page table
  VPages,      \* virtual pages in use: functions of 0 .. pt_levels - 1
  FreeList     \* the shuffled list of physical pages

ASSUME VMemAssumption ==
  /\ pt_levels \in Nat \ {0}
  /\ VPages \subseteq [0 .. pt_levels - 1 -> Nat]
  /\ IsFiniteSet(VPages)
  /\ FreeList \in Seq(Nat) /\ Len(FreeList) > Cardinality(VPages)
  /\ \A i, j \in DOMAIN FreeList : FreeList[i] = FreeList[j] => i = j

VARIABLES vpage_to_ppage_map, page_table, next_pte_page, ppage_free_list

vmemVars == <<vpage_to_ppage_map, page_table, next_pte_page, ppage_free_list>>

(* std::map::insert keeps the value of a key that is there.                *)
Insert(f, k, x) ==
  IF k \in DOMAIN f
    THEN f
    ELSE [j \in DOMAIN f \cup {k} |-> IF j = k THEN x ELSE f[j]]

get_offset(v, l) == v[l]
(* vaddr >> shamt(l): the offsets from level l upward.                     *)
Shifted(v, l) == [i \in l .. pt_levels - 1 |-> v[i]]

(* A page table is known by its level and the addresses it serves.         *)
TableKey(v, l) == <<l, Shifted(v, l + 1)>>
RootKey == <<pt_levels, <<>>>>
TableKeys == {RootKey} \cup {TableKey(v, l) : v \in VPages, l \in 1 .. pt_levels - 1}

va_fault(v) == v \notin DOMAIN vpage_to_ppage_map
(* Mutant: the page handed out stays on the free list.                     *)
va_to_pa_keep(v) ==
  /\ vpage_to_ppage_map' = Insert(vpage_to_ppage_map, v, Head(ppage_free_list))
  /\ UNCHANGED <<page_table, next_pte_page, ppage_free_list>>

va_to_pa(v) ==
  /\ vpage_to_ppage_map' = Insert(vpage_to_ppage_map, v, Head(ppage_free_list))
  /\ ppage_free_list' = IF va_fault(v) THEN Tail(ppage_free_list) ELSE ppage_free_list
  /\ UNCHANGED <<page_table, next_pte_page>>

pte_fault(v, l) == TableKey(v, l) \notin DOMAIN page_table

(* The page that holds v's entry at level l, which may be the next one     *)
(* after all.                                                              *)
PtePage(v, l) == IF pte_fault(v, l) THEN next_pte_page ELSE page_table[TableKey(v, l)]

(* next_pte_page always stays a multiple of PAGE_SIZE, so the free list is *)
(* not consulted again.                                                    *)
get_pte_pa(v, l) ==
  /\ page_table' = Insert(page_table, TableKey(v, l), next_pte_page)
  /\ next_pte_page' = IF pte_fault(v, l) THEN next_pte_page + 1 ELSE next_pte_page
  /\ UNCHANGED <<vpage_to_ppage_map, ppage_free_list>>

(* The constructor, and the walker's, which asks for the root table.       *)
CR3 == Head(FreeList)
VMemInit ==
  /\ vpage_to_ppage_map = <<>>
  /\ page_table = [k \in {RootKey} |-> CR3]
  /\ next_pte_page = CR3 + 1
  /\ ppage_free_list = Tail(FreeList)

(* The steps anyone may take: a lookup of either kind.                     *)
VMemNext ==
  \E v \in VPages :
    \/ va_to_pa(v)
    \/ \E l \in 1 .. pt_levels - 1 : get_pte_pa(v, l)
VMemSpec == VMemInit /\ [][VMemNext]_vmemVars

DataFrames == {vpage_to_ppage_map[v] : v \in DOMAIN vpage_to_ppage_map}

(* Two virtual pages never get one physical page, nor do two page tables,  *)
(* in whatever order first uses come (va_to_pa, get_pte_pa).               *)
MappingsInjective ==
  /\ \A u, v \in DOMAIN vpage_to_ppage_map :
       vpage_to_ppage_map[u] = vpage_to_ppage_map[v] => u = v
  /\ \A j, k \in DOMAIN page_table : page_table[j] = page_table[k] => j = k
=============================================================================
