----------------------- MODULE PageTableWalkerProofs -----------------------
(***************************************************************************)
(* The page table walker, for any page table depth, any set of virtual     *)
(* pages, any sizes, latencies and penalties: its types, the order of the  *)
(* MSHR, what walks read, that each page asked for is held once, that no   *)
(* walk waits in vain, and that it uses the memory as VirtualMemory says.  *)
(* What VirtualMemory itself promises comes first; the walker rests on it. *)
(***************************************************************************)
EXTENDS PageTableWalker, FiniteSetTheorems, SequenceTheorems, TLAPS, NaturalsInduction,
        WellFoundedInduction

-----------------------------------------------------------------------------
(***************************************************************************)
(* VirtualMemory gives out pages injectively, for any number of levels,    *)
(* any set of virtual pages and any shuffle of the free list.              *)
(***************************************************************************)

(* Page tables lie below next_pte_page, each on a page of its own.         *)
TableInv ==
  /\ next_pte_page \in Nat
  /\ \A k \in DOMAIN page_table :
       page_table[k] \in Nat /\ page_table[k] < next_pte_page
  /\ \A j, k \in DOMAIN page_table : page_table[j] = page_table[k] => j = k

(* The free list has room for every page not yet mapped, ...               *)
RoomInv ==
  /\ DOMAIN vpage_to_ppage_map \subseteq VPages
  /\ ppage_free_list \in Seq(Nat)
  /\ Len(ppage_free_list) + Cardinality(DOMAIN vpage_to_ppage_map) = Len(FreeList) - 1

(* ... holds no page twice and none that is mapped.                        *)
FrameInv ==
  /\ \A i, j \in 1 .. Len(ppage_free_list) :
       ppage_free_list[i] = ppage_free_list[j] => i = j
  /\ \A v \in DOMAIN vpage_to_ppage_map : \A i \in 1 .. Len(ppage_free_list) :
       vpage_to_ppage_map[v] # ppage_free_list[i]
  /\ \A u, v \in DOMAIN vpage_to_ppage_map :
       vpage_to_ppage_map[u] = vpage_to_ppage_map[v] => u = v

VMemInv == TableInv /\ RoomInv /\ FrameInv

(* A page that is not mapped finds the free list with an entry             *)
(* (va_to_pa takes front() of it without asking).                          *)
LEMMA FreeListNotEmpty ==
  ASSUME RoomInv, NEW v \in VPages, va_fault(v)
  PROVE  Len(ppage_free_list) > 0
<1> DEFINE D == DOMAIN vpage_to_ppage_map
<1>1. IsFiniteSet(VPages) /\ D \subseteq VPages /\ v \in VPages \ D
  BY VMemAssumption DEF RoomInv, va_fault
<1>2. IsFiniteSet(D) /\ Cardinality(D) \in Nat /\ Cardinality(VPages) \in Nat
  BY <1>1, FS_Subset, FS_CardinalityType
<1>3. D # VPages
  BY <1>1
<1>4. Cardinality(D) < Cardinality(VPages)
  BY <1>1, <1>2, <1>3, FS_Subset
<1>5. Len(FreeList) \in Nat /\ Len(FreeList) > Cardinality(VPages)
  BY VMemAssumption
<1>6. Len(ppage_free_list) \in Nat
  BY DEF RoomInv
<1>7. Len(ppage_free_list) + Cardinality(D) = Len(FreeList) - 1
  BY DEF RoomInv
<1> HIDE DEF D
<1> QED
  BY <1>2, <1>4, <1>5, <1>6, <1>7

(* The constructors of VirtualMemory and of the walker establish the       *)
(* invariant.                                                              *)
LEMMA VMemInvInit ==
  ASSUME VMemInit
  PROVE  VMemInv
<1>1. FreeList \in Seq(Nat) /\ Len(FreeList) \in Nat /\ FreeList # << >>
  <2>1. Cardinality(VPages) \in Nat
    BY VMemAssumption, FS_CardinalityType
  <2> QED
    BY <2>1, VMemAssumption, EmptySeq
<1>2. /\ CR3 \in Nat /\ Tail(FreeList) \in Seq(Nat)
      /\ Len(Tail(FreeList)) = Len(FreeList) - 1
      /\ \A i \in 1 .. Len(Tail(FreeList)) : Tail(FreeList)[i] = FreeList[i + 1]
  BY <1>1, HeadTailProperties DEF CR3
<1>3. DOMAIN vpage_to_ppage_map = {}
  BY DEF VMemInit
<1>4. TableInv
  BY <1>2 DEF VMemInit, TableInv
<1>5. RoomInv
  BY <1>1, <1>2, <1>3, FS_EmptySet DEF VMemInit, RoomInv
<1>6. FrameInv
  <2>1. ppage_free_list = Tail(FreeList)
    BY DEF VMemInit
  <2>2. \A i, j \in 1 .. Len(FreeList) : FreeList[i] = FreeList[j] => i = j
    BY <1>1, VMemAssumption
  <2> QED
    BY <1>1, <1>2, <1>3, <2>1, <2>2 DEF FrameInv
<1> QED
  BY <1>4, <1>5, <1>6 DEF VMemInv

(* va_to_pa maps a page it has not met to the front of the free list.      *)
LEMMA MapStep ==
  ASSUME VMemInv, NEW v \in VPages, va_to_pa(v)
  PROVE  VMemInv'
<1>1. TableInv'
  BY DEF VMemInv, TableInv, va_to_pa
<1>2. CASE ~ va_fault(v)
  <2>1. UNCHANGED <<vpage_to_ppage_map, ppage_free_list>>
    BY <1>2 DEF va_to_pa, va_fault, Insert
  <2> QED
    BY <1>1, <2>1 DEF VMemInv, RoomInv, FrameInv
<1>3. CASE va_fault(v)
  <2> DEFINE D == DOMAIN vpage_to_ppage_map
             f == ppage_free_list
  <2>1. f \in Seq(Nat) /\ Len(f) > 0 /\ f # << >>
    BY <1>3, FreeListNotEmpty, EmptySeq DEF VMemInv, RoomInv
  <2>2. /\ Head(f) = f[1]
        /\ Tail(f) \in Seq(Nat) /\ Len(Tail(f)) = Len(f) - 1
        /\ \A i \in 1 .. Len(Tail(f)) : Tail(f)[i] = f[i + 1]
    BY <2>1, HeadTailProperties
  <2>3. v \notin D /\ D \subseteq VPages /\ IsFiniteSet(D)
    BY <1>3, VMemAssumption, FS_Subset DEF VMemInv, RoomInv, va_fault
  <2>4. /\ vpage_to_ppage_map' = [w \in D \cup {v} |->
                                    IF w = v THEN f[1] ELSE vpage_to_ppage_map[w]]
        /\ ppage_free_list' = Tail(f)
    BY <1>3, <2>2, <2>3 DEF va_to_pa, Insert
  <2>5. Cardinality(D \cup {v}) = Cardinality(D) + 1 /\ Cardinality(D) \in Nat
    BY <2>3, FS_AddElement, FS_CardinalityType
  <2>6. RoomInv'
    <3>1. Len(f) \in Nat /\ Len(FreeList) \in Nat
      BY <2>1, VMemAssumption
    <3>2. Len(f) + Cardinality(D) = Len(FreeList) - 1
      BY DEF VMemInv, RoomInv
    <3>3. Len(Tail(f)) + Cardinality(D \cup {v}) = Len(FreeList) - 1
      BY <2>2, <2>5, <3>1, <3>2
    <3>4. DOMAIN vpage_to_ppage_map' = D \cup {v}
      BY <2>4
    <3> QED
      BY <2>2, <2>3, <2>4, <3>3, <3>4 DEF RoomInv
  <2>7. FrameInv'
    <3>1. /\ \A i, j \in 1 .. Len(f) : f[i] = f[j] => i = j
          /\ \A w \in D : \A i \in 1 .. Len(f) : vpage_to_ppage_map[w] # f[i]
          /\ \A u, w \in D : vpage_to_ppage_map[u] = vpage_to_ppage_map[w] => u = w
      BY DEF VMemInv, FrameInv
    <3>2. Len(f) \in Nat /\ 1 \in 1 .. Len(f)
      BY <2>1
    <3>3. \A i \in 1 .. Len(Tail(f)) : i + 1 \in 1 .. Len(f) /\ i + 1 # 1
      BY <2>2, <3>2
    <3> HIDE DEF f, D
    <3>4. \A i, j \in 1 .. Len(Tail(f)) : Tail(f)[i] = Tail(f)[j] => i = j
      BY <2>2, <3>1, <3>2, <3>3
    <3>5. \A w \in D \cup {v} : \A i \in 1 .. Len(Tail(f)) :
            vpage_to_ppage_map'[w] # Tail(f)[i]
      BY <2>2, <2>4, <3>1, <3>2, <3>3
    <3>6. \A u, w \in D \cup {v} : vpage_to_ppage_map'[u] = vpage_to_ppage_map'[w] => u = w
      BY <2>3, <2>4, <3>1, <3>2
    <3>7. DOMAIN vpage_to_ppage_map' = D \cup {v}
      BY <2>4
    <3>8. ppage_free_list' = Tail(f)
      BY <2>4
    <3> QED
      BY <3>4, <3>5, <3>6, <3>7, <3>8, Zenon DEF FrameInv
  <2> QED
    BY <1>1, <2>6, <2>7 DEF VMemInv
<1> QED
  BY <1>2, <1>3

(* get_pte_pa gives a table it has not met the page at next_pte_page.      *)
LEMMA TableStep ==
  ASSUME VMemInv, NEW v \in VPages, NEW l \in 1 .. pt_levels - 1, get_pte_pa(v, l)
  PROVE  VMemInv'
<1> DEFINE k == TableKey(v, l)
<1>1. RoomInv' /\ FrameInv'
  BY DEF VMemInv, RoomInv, FrameInv, get_pte_pa
<1>2. TableInv'
  <2>1. CASE k \in DOMAIN page_table
    BY <2>1 DEF VMemInv, TableInv, get_pte_pa, pte_fault, Insert
  <2>2. CASE k \notin DOMAIN page_table
    <3>1. /\ page_table' = [j \in DOMAIN page_table \cup {k} |->
                              IF j = k THEN next_pte_page ELSE page_table[j]]
          /\ next_pte_page' = next_pte_page + 1
      BY <2>2 DEF get_pte_pa, pte_fault, Insert
    <3> HIDE DEF k
    <3> QED
      BY <2>2, <3>1 DEF VMemInv, TableInv
  <2> QED
    BY <2>1, <2>2
<1> QED
  BY <1>1, <1>2 DEF VMemInv

(* Every physical page serves one virtual page and every table page one    *)
(* table, however lookups of pages and of tables interleave.               *)
THEOREM PagesGivenOnce == VMemSpec => []MappingsInjective
<1>1. VMemInv /\ [VMemNext]_vmemVars => VMemInv'
  <2> SUFFICES ASSUME VMemInv, [VMemNext]_vmemVars PROVE VMemInv'
    OBVIOUS
  <2>1. CASE VMemNext
    BY <2>1, MapStep, TableStep DEF VMemNext
  <2>2. CASE UNCHANGED vmemVars
    BY <2>2 DEF vmemVars, VMemInv, TableInv, RoomInv, FrameInv
  <2> QED
    BY <2>1, <2>2
<1>2. VMemInv => MappingsInjective
  BY DEF VMemInv, TableInv, FrameInv, MappingsInjective
<1> QED
  BY <1>1, <1>2, VMemInvInit, PTL DEF VMemSpec

-----------------------------------------------------------------------------
(* The walker.                                                             *)

(* Walks, and the invariant of a list s of them over the page tables pt.   *)
Walk == [v_address : VPages, address : Address, level : 0 .. pt_levels - 1,
         init : 0 .. pt_levels - 1, event : PAST .. NEVER]
Sorted(s) == \A i, j \in DOMAIN s : i < j => s[i].event <= s[j].event

(* The table a walk reads exists, and is its own.                          *)
ReadsOwn(m, pt) ==
  IF m.level = pt_levels - 1
    THEN m.address = [page |-> CR3, off |-> m.v_address[m.level]]
    ELSE /\ TableKey(m.v_address, m.level + 1) \in DOMAIN pt
         /\ m.address = [page |-> pt[TableKey(m.v_address, m.level + 1)],
                         off |-> m.v_address[m.level + 1]]
FromPSCL3(m) == m.level = m.init /\ m.init = PSCL3 - 1
WalksOK(s, pt) ==
  s \in Seq(Walk) /\ Sorted(s) /\ \A i \in DOMAIN s : ReadsOwn(s[i], pt) \/ FromPSCL3(s[i])

(* Tables are the first pages from the root's on, in the order they were   *)
(* made.                                                                   *)
TablesOK(pt, next) ==
  /\ DOMAIN pt \subseteq TableKeys /\ next = CR3 + Cardinality(DOMAIN pt)
  /\ \A k \in DOMAIN pt : pt[k] \in CR3 .. next - 1

(* A paging structure cache says which page a table is in, but PSCL3,      *)
(* which says of a table that it is the one below.                         *)
PscBlock(b, l, pt) ==
  /\ b = [valid |-> b.valid, address |-> b.address, data |-> b.data, lru |-> b.lru]
  /\ b.valid => /\ b.data \in Pages
                /\ l # PSCL3 => <<l, b.address>> \in DOMAIN pt /\ b.data = pt[<<l, b.address>>]
PscOK(f, l, pt) ==
  /\ f = [s \in 0 .. NUM_SET[l] - 1 |-> f[s]]
  /\ \A s \in 0 .. NUM_SET[l] - 1 :
       /\ f[s] = [w \in Ways(l) |-> f[s][w]]
       /\ \A w \in Ways(l) : PscBlock(f[s][w], l, pt)
CachesOK(f, pt) ==
  f = [l \in PscLevels |-> f[l]] /\ \A l \in PscLevels : PscOK(f[l], l, pt)

(* The queue, the walks and the STLB agree on who waits.                   *)
Asked(q) == {q[i].item : i \in DOMAIN q}
Walked(s) == {s[i].v_address : i \in DOMAIN s}
HeldOnce(q, s, w) ==
  /\ \A i, j \in DOMAIN q : q[i].item = q[j].item => i = j
  /\ \A i, j \in DOMAIN s : s[i].v_address = s[j].v_address => i = j
  /\ Asked(q) \cap Walked(s) = {} /\ Asked(q) \cup Walked(s) = w

QueueOK(q, n) ==
  q \in Seq([item : VPages, delay : 0 .. Latency]) /\ Len(q) <= RQ_SIZE /\ n \in 0 .. Len(q)

WalkerInv ==
  /\ VMemInv /\ TablesOK(page_table, next_pte_page)
  /\ CachesOK(block, page_table)
  /\ QueueOK(RQ, rq_ready)
  /\ WalksOK(MSHR, page_table) /\ Len(MSHR) <= MSHR_SIZE
  /\ warmup_complete \in BOOLEAN
  /\ pc \in {"idle", "fill", "read"} /\ budget \in 0 .. MAX_READ + MAX_FILL
  /\ lower \in [Blocks -> 0 .. 2]
  /\ HeldOnce(RQ, MSHR, stlb)

---------------------------------------------------------------------------
(* Sorting.                                                                *)

Permutes(p, n) ==
  /\ p \in [1 .. n -> 1 .. n]
  /\ \A k, l \in 1 .. n : p[k] = p[l] => k = l
  /\ \A i \in 1 .. n : \E k \in 1 .. n : p[k] = i

LEMMA Constants ==
  /\ pt_levels \in Nat /\ pt_levels > 4 /\ CR3 \in Nat
  /\ RQ_SIZE \in Nat \ {0} /\ MSHR_SIZE \in Nat \ {0} /\ MAX_READ \in Nat \ {0}
  /\ MAX_FILL \in Nat \ {0} /\ BlockPTEs \in Nat \ {0} /\ LowerSize \in Nat \ {0}
  /\ Latency \in Nat /\ minor_fault_penalty \in Nat \ {0}
  /\ PAST = -1 /\ NEVER = minor_fault_penalty + 1
<1>1. Cardinality(VPages) \in Nat
  BY VMemAssumption, FS_CardinalityType
<1>2. FreeList # << >>
  BY <1>1, VMemAssumption
<1>3. CR3 \in Nat
  BY <1>2, VMemAssumption, HeadTailProperties DEF CR3
<1> QED
  BY <1>3, VMemAssumption, PscAssumption, WalkerAssumption DEF PSCL5, PAST, NEVER

(* What a stable sort counts for a walk is a place of the list, and no two *)
(* walks have the same.                                                    *)
LEMMA Ranked ==
  ASSUME NEW s, NEW n \in Nat, DOMAIN s = 1 .. n, \A i \in 1 .. n : s[i].event \in Int
  PROVE  /\ \A i \in 1 .. n : Cardinality(Upto(s, i)) \in 1 .. n
         /\ \A i, j \in 1 .. n : s[i].event < s[j].event \/ (s[i].event = s[j].event /\ i < j) =>
              Cardinality(Upto(s, i)) < Cardinality(Upto(s, j))
<1>1. IsFiniteSet(1 .. n) /\ Cardinality(1 .. n) = n
  BY FS_Interval
<1>2. \A i \in 1 .. n : Upto(s, i) \in SUBSET (1 .. n) /\ i \in Upto(s, i)
  BY DEF Upto
<1>3. \A i \in 1 .. n : IsFiniteSet(Upto(s, i)) /\ Cardinality(Upto(s, i)) <= n
  BY <1>1, <1>2, FS_Subset
<1>4. \A i \in 1 .. n : Cardinality(Upto(s, i)) \in Nat
  BY <1>3, FS_CardinalityType
<1>5. \A i \in 1 .. n : Cardinality(Upto(s, i)) # 0
  BY <1>2, <1>3, FS_EmptySet
<1>6. ASSUME NEW i \in 1 .. n, NEW j \in 1 .. n,
             s[i].event < s[j].event \/ (s[i].event = s[j].event /\ i < j)
      PROVE  Cardinality(Upto(s, i)) < Cardinality(Upto(s, j))
  <2>1. Upto(s, i) \in SUBSET Upto(s, j)
    BY <1>6 DEF Upto
  <2>2. j \notin Upto(s, i)
    BY <1>6 DEF Upto
  <2>3. Upto(s, i) # Upto(s, j)
    BY <2>2, <1>2
  <2> QED
    BY <2>1, <2>3, <1>3, <1>4, FS_Subset
<1> QED
  BY <1>3, <1>4, <1>5, <1>6

(* A sorted list has the members of the list, each at one place.           *)
LEMMA SortPermutes ==
  ASSUME NEW s, NEW n \in Nat, DOMAIN s = 1 .. n, \A i \in 1 .. n : s[i].event \in Int
  PROVE  /\ DOMAIN SortByEvent(s) = 1 .. n
         /\ \E p : Permutes(p, n) /\ \A k \in 1 .. n : SortByEvent(s)[k] = s[p[k]]
         /\ Sorted(SortByEvent(s))
<1> DEFINE r == [i \in 1 .. n |-> Cardinality(Upto(s, i))]
           p == [k \in 1 .. n |-> CHOOSE i \in 1 .. n : Cardinality(Upto(s, i)) = k]
<1>1. r \in [1 .. n -> 1 .. n]
  BY Ranked
<1>2. \A i, j \in 1 .. n : r[i] = r[j] => i = j
  <2> SUFFICES ASSUME NEW i \in 1 .. n, NEW j \in 1 .. n, i # j  PROVE r[i] # r[j]
    OBVIOUS
  <2>1. \/ s[i].event < s[j].event \/ (s[i].event = s[j].event /\ i < j)
        \/ s[j].event < s[i].event \/ (s[j].event = s[i].event /\ j < i)
    OBVIOUS
  <2>2. r[i] < r[j] \/ r[j] < r[i]
    BY <2>1, Ranked
  <2> QED
    BY <2>2, <1>1
<1>3. r \in Injection(1 .. n, 1 .. n)
  BY <1>1, <1>2 DEF Injection, IsInjective
<1>4. r \in Surjection(1 .. n, 1 .. n)
  BY <1>3, FS_Injection, FS_Interval
<1>5. \A k \in 1 .. n : \E i \in 1 .. n : r[i] = k
  BY <1>4 DEF Surjection
<1>6. \A k \in 1 .. n : p[k] \in 1 .. n /\ r[p[k]] = k
  BY <1>5
<1>7. \A k \in 1 .. n : SortByEvent(s)[k] = s[p[k]]
  BY DEF SortByEvent
<1>8. DOMAIN SortByEvent(s) = 1 .. n
  BY DEF SortByEvent
<1>9. \A i, j \in 1 .. n : s[i].event < s[j].event => r[i] < r[j]
  BY Ranked
<1>10. p \in [1 .. n -> 1 .. n]
  BY <1>6
<1> HIDE DEF p, r
<1>11. \A k, l \in 1 .. n : k < l => s[p[k]].event <= s[p[l]].event
  <2> SUFFICES ASSUME NEW k \in 1 .. n, NEW l \in 1 .. n, k < l
               PROVE  s[p[k]].event <= s[p[l]].event
    OBVIOUS
  <2>1. p[k] \in 1 .. n /\ p[l] \in 1 .. n /\ ~ (r[p[l]] < r[p[k]])
    BY <1>6
  <2>2. ~ (s[p[l]].event < s[p[k]].event)
    BY <1>9, <2>1
  <2> QED
    BY <2>1, <2>2
<1>12. \A i \in 1 .. n : p[r[i]] = i /\ r[i] \in 1 .. n
  BY <1>1, <1>2, <1>6
<1>13. \A k, l \in 1 .. n : p[k] = p[l] => k = l
  BY <1>6
<1>14. \A i \in 1 .. n : \E k \in 1 .. n : p[k] = i
  BY <1>12
<1>15. Sorted(SortByEvent(s))
  BY <1>7, <1>8, <1>11 DEF Sorted
<1>16. Permutes(p, n)
  BY <1>10, <1>13, <1>14 DEF Permutes
<1> QED
  BY <1>7, <1>8, <1>15, <1>16, Zenon

---------------------------------------------------------------------------
(* Lists of walks.                                                         *)

SameWalk(m, n) ==
  /\ m.v_address = n.v_address /\ m.address = n.address
  /\ m.level = n.level /\ m.init = n.init
Reordered(s, t) ==
  /\ t \in Seq(Walk) /\ Len(t) = Len(s)
  /\ \E p : Permutes(p, Len(s)) /\ \A k \in 1 .. Len(s) : SameWalk(t[k], s[p[k]])

LEMMA WalkFields ==
  ASSUME NEW m \in Walk
  PROVE  /\ m.v_address \in VPages /\ m.address \in Address /\ m.event \in PAST .. NEVER
         /\ m.level \in 0 .. pt_levels - 1 /\ m.init \in 0 .. pt_levels - 1
         /\ m.event \in Int
         /\ \A e \in PAST .. NEVER :
              [m EXCEPT !.event = e] \in Walk /\ SameWalk([m EXCEPT !.event = e], m)
              /\ [m EXCEPT !.event = e].event = e
<1>1. PAST \in Int /\ NEVER \in Int
  BY Constants
<1> QED
  BY <1>1 DEF Walk, SameWalk

LEMMA ListIndices ==
  ASSUME NEW s \in Seq(Walk)
  PROVE  DOMAIN s = 1 .. Len(s) /\ Len(s) \in Nat /\ \A i \in DOMAIN s : s[i] \in Walk
  OBVIOUS

(* Sorting a list of which only events changed.                            *)
LEMMA Resorted ==
  ASSUME NEW s \in Seq(Walk), NEW t, DOMAIN t = DOMAIN s,
         \A i \in DOMAIN s : t[i] \in Walk /\ SameWalk(t[i], s[i])
  PROVE  /\ Reordered(s, SortByEvent(t)) /\ Sorted(SortByEvent(t))
         /\ \A k \in DOMAIN s : \E i \in DOMAIN s : SortByEvent(t)[k] = t[i]
<1>1. PICK n \in Nat : n = Len(s) /\ DOMAIN s = 1 .. n
  BY ListIndices
<1>2. DOMAIN t = 1 .. n /\ \A i \in 1 .. n : t[i].event \in Int
  BY <1>1, WalkFields
<1>3. PICK u : u = SortByEvent(t)
  OBVIOUS
<1>4. /\ DOMAIN u = 1 .. n /\ Sorted(u)
      /\ \E p : Permutes(p, n) /\ \A k \in 1 .. n : u[k] = t[p[k]]
  <2>1. /\ DOMAIN SortByEvent(t) = 1 .. n /\ Sorted(SortByEvent(t))
        /\ \E p : Permutes(p, n) /\ \A k \in 1 .. n : SortByEvent(t)[k] = t[p[k]]
    BY <1>2, SortPermutes
  <2> QED
    BY <1>3, <2>1
<1>5. PICK p : Permutes(p, n) /\ \A k \in 1 .. n : u[k] = t[p[k]]
  BY <1>4
<1>6. u = [k \in 1 .. n |-> u[k]]
  BY <1>3, <1>1 DEF SortByEvent
<1>7. \A k \in 1 .. n : u[k] \in Walk /\ SameWalk(u[k], s[p[k]])
  BY <1>1, <1>5 DEF Permutes
<1>8. u \in [1 .. n -> Walk]
  BY <1>6, <1>7
<1>9. u \in Seq(Walk) /\ Len(u) = n
  BY <1>8
<1>10. Reordered(s, u)
  <2>1. Len(u) = Len(s)
    BY <1>1, <1>9
  <2>2. Permutes(p, Len(s)) /\ \A k \in 1 .. Len(s) : SameWalk(u[k], s[p[k]])
    BY <1>1, <1>5, <1>7
  <2> QED
    BY <1>9, <2>1, <2>2, Zenon DEF Reordered
<1>11. \A k \in DOMAIN s : \E i \in DOMAIN s : u[k] = t[i]
  BY <1>1, <1>5 DEF Permutes
<1> QED
  BY <1>3, <1>4, <1>10, <1>11, Zenon

LEMMA ReorderedKeeps ==
  ASSUME NEW s \in Seq(Walk), NEW t, Reordered(s, t), NEW pt
  PROVE  /\ Walked(t) = Walked(s) /\ DOMAIN t = DOMAIN s
         /\ (\A i, j \in DOMAIN s : s[i].v_address = s[j].v_address => i = j) =>
            (\A i, j \in DOMAIN t : t[i].v_address = t[j].v_address => i = j)
         /\ (\A i \in DOMAIN s : ReadsOwn(s[i], pt) \/ FromPSCL3(s[i])) =>
            (\A i \in DOMAIN t : ReadsOwn(t[i], pt) \/ FromPSCL3(t[i]))
<1>1. PICK p \in [DOMAIN s -> DOMAIN s] :
       /\ \A k \in DOMAIN s : SameWalk(t[k], s[p[k]])
       /\ \A k, l \in DOMAIN s : p[k] = p[l] => k = l
       /\ \A i \in DOMAIN s : \E k \in DOMAIN s : p[k] = i
  BY ListIndices DEF Reordered, Permutes
<1>2. DOMAIN t = DOMAIN s
  BY ListIndices DEF Reordered
<1>3. \A k \in DOMAIN s : t[k].v_address = s[p[k]].v_address /\ p[k] \in DOMAIN s
  BY <1>1 DEF SameWalk
<1>4. Walked(t) = Walked(s)
  <2>1. Walked(t) \subseteq Walked(s)
    BY <1>2, <1>3 DEF Walked
  <2>2. ASSUME NEW i \in DOMAIN s  PROVE \E k \in DOMAIN t : t[k].v_address = s[i].v_address
    BY <1>1, <1>2, <1>3
  <2> QED
    BY <2>1, <2>2 DEF Walked
<1>5. \A k \in DOMAIN s : /\ ReadsOwn(s[p[k]], pt) => ReadsOwn(t[k], pt)
                          /\ FromPSCL3(s[p[k]]) => FromPSCL3(t[k])
  BY <1>1 DEF SameWalk, ReadsOwn, FromPSCL3
<1>6. ASSUME \A i, j \in DOMAIN s : s[i].v_address = s[j].v_address => i = j,
             NEW k \in DOMAIN s, NEW l \in DOMAIN s, t[k].v_address = t[l].v_address
      PROVE  k = l
  <2>1. s[p[k]].v_address = s[p[l]].v_address /\ p[k] \in DOMAIN s /\ p[l] \in DOMAIN s
    BY <1>3, <1>6
  <2>2. p[k] = p[l]
    BY <1>6, <2>1
  <2> QED
    BY <1>1, <2>2
<1>7. ASSUME \A i \in DOMAIN s : ReadsOwn(s[i], pt) \/ FromPSCL3(s[i]), NEW k \in DOMAIN s
      PROVE  ReadsOwn(t[k], pt) \/ FromPSCL3(t[k])
  BY <1>3, <1>5, <1>7
<1> QED
  BY <1>2, <1>4, <1>6, <1>7

(* return_data: the walks that wait for b are due, the others as before.   *)
LEMMA ReturnKeeps ==
  ASSUME NEW s \in Seq(Walk), NEW b
  PROVE  /\ Reordered(s, return_data(s, b)) /\ Sorted(return_data(s, b))
         /\ \A k \in DOMAIN s : \E i \in DOMAIN s :
              return_data(s, b)[k] = IF BlockOf(s[i].address) = b THEN [s[i] EXCEPT !.event = 0]
                                                                  ELSE s[i]
<1>1. PICK t : t = [i \in DOMAIN s |->
                      IF BlockOf(s[i].address) = b THEN [s[i] EXCEPT !.event = 0] ELSE s[i]]
  OBVIOUS
<1>2. return_data(s, b) = SortByEvent(t)
  BY <1>1 DEF return_data
<1>3. 0 \in PAST .. NEVER
  BY Constants
<1>4. ASSUME NEW i \in DOMAIN s  PROVE t[i] \in Walk /\ SameWalk(t[i], s[i])
  <2>1. s[i] \in Walk
    OBVIOUS
  <2>2. t[i] = s[i] \/ t[i] = [s[i] EXCEPT !.event = 0]
    BY <1>1
  <2>3. SameWalk(s[i], s[i])
    BY DEF SameWalk
  <2> QED
    BY <1>3, <2>1, <2>2, <2>3, WalkFields
<1>5. DOMAIN t = DOMAIN s
  BY <1>1
<1>6. /\ Reordered(s, SortByEvent(t)) /\ Sorted(SortByEvent(t))
      /\ \A k \in DOMAIN s : \E i \in DOMAIN s : SortByEvent(t)[k] = t[i]
  BY <1>4, <1>5, Resorted
<1> QED
  BY <1>1, <1>2, <1>6

(* A minor fault delays the front.                                         *)
LEMMA FaultKeeps ==
  ASSUME NEW s \in Seq(Walk), s # << >>
  PROVE  /\ Reordered(s, Faulted(s)) /\ Sorted(Faulted(s))
         /\ \A k \in DOMAIN s : Faulted(s)[k].event # NEVER \/ \E i \in DOMAIN s : Faulted(s)[k] = s[i]
<1>0. minor_fault_penalty \in PAST .. NEVER /\ minor_fault_penalty # NEVER
  BY Constants
<1>1. PICK t : t = [s EXCEPT ![1].event = minor_fault_penalty]
  OBVIOUS
<1>2. Faulted(s) = SortByEvent(t)
  BY <1>1 DEF Faulted
<1>3. 1 \in DOMAIN s /\ DOMAIN t = DOMAIN s
  BY <1>1
<1>4. /\ t[1] = [s[1] EXCEPT !.event = minor_fault_penalty]
      /\ \A i \in DOMAIN s : i # 1 => t[i] = s[i]
  BY <1>1, <1>3
<1>5. \A i \in DOMAIN s : s[i] \in Walk /\ SameWalk(s[i], s[i])
  BY DEF SameWalk
<1>6. /\ t[1] \in Walk /\ SameWalk(t[1], s[1]) /\ t[1].event = minor_fault_penalty
  BY <1>0, <1>3, <1>4, <1>5, WalkFields
<1>7. \A i \in DOMAIN s : t[i] \in Walk /\ SameWalk(t[i], s[i])
  BY <1>4, <1>5, <1>6
<1>8. /\ Reordered(s, SortByEvent(t)) /\ Sorted(SortByEvent(t))
      /\ \A k \in DOMAIN s : \E i \in DOMAIN s : SortByEvent(t)[k] = t[i]
  BY <1>3, <1>7, Resorted
<1>9. ASSUME NEW k \in DOMAIN s
      PROVE  SortByEvent(t)[k].event # NEVER \/ \E i \in DOMAIN s : SortByEvent(t)[k] = s[i]
  <2>1. PICK i \in DOMAIN s : SortByEvent(t)[k] = t[i]
    BY <1>8
  <2>2. CASE i = 1
    BY <1>0, <1>6, <2>1, <2>2
  <2>3. CASE i # 1
    BY <1>4, <2>1, <2>3
  <2> QED
    BY <2>2, <2>3
<1> QED
  BY <1>2, <1>8, <1>9, Zenon

(* The end of a cycle.                                                     *)
CountDown(s) ==
  [i \in DOMAIN s |-> [s[i] EXCEPT !.event = IF @ \in {PAST, NEVER} THEN @ ELSE @ - 1]]
LEMMA CountDownKeeps ==
  ASSUME NEW s \in Seq(Walk), Sorted(s)
  PROVE  /\ Reordered(s, CountDown(s)) /\ Sorted(CountDown(s))
         /\ \A k \in DOMAIN s : /\ CountDown(s)[k].address = s[k].address
                                /\ CountDown(s)[k].event = NEVER => s[k].event = NEVER
<1> DEFINE e(x) == IF x \in {PAST, NEVER} THEN x ELSE x - 1
<1>0. \A x \in PAST .. NEVER : x \in Int /\ e(x) \in PAST .. NEVER /\ (e(x) = NEVER => x = NEVER)
  BY Constants
<1>1. \A x, y \in PAST .. NEVER : x <= y => e(x) <= e(y)
  BY Constants
<1>2. PICK t : t = CountDown(s)
  OBVIOUS
<1>3. DOMAIN t = DOMAIN s /\ t = [i \in DOMAIN s |-> t[i]]
  BY <1>2 DEF CountDown
<1>4. \A i \in DOMAIN s : t[i] = [s[i] EXCEPT !.event = e(s[i].event)]
  BY <1>2 DEF CountDown
<1>5. \A i \in DOMAIN s : s[i] \in Walk /\ s[i].event \in PAST .. NEVER
  BY WalkFields
<1> HIDE DEF e
<1>6. \A i \in DOMAIN s : t[i] \in Walk /\ SameWalk(t[i], s[i]) /\ t[i].event = e(s[i].event)
  <2> SUFFICES ASSUME NEW i \in DOMAIN s
               PROVE  t[i] \in Walk /\ SameWalk(t[i], s[i]) /\ t[i].event = e(s[i].event)
    OBVIOUS
  <2>1. PICK x : x = e(s[i].event)
    OBVIOUS
  <2>2. x \in PAST .. NEVER /\ t[i] = [s[i] EXCEPT !.event = x] /\ s[i] \in Walk
    BY <1>0, <1>4, <1>5, <2>1
  <2> QED
    BY <2>1, <2>2, WalkFields
<1>7. Sorted(t)
  BY <1>1, <1>3, <1>5, <1>6 DEF Sorted
<1>8. t \in Seq(Walk) /\ Len(t) = Len(s)
  <2>1. DOMAIN s = 1 .. Len(s) /\ Len(s) \in Nat
    OBVIOUS
  <2>2. t \in [1 .. Len(s) -> Walk]
    BY <2>1, <1>3, <1>6
  <2> QED
    BY <2>1, <2>2
<1>9. Reordered(s, t)
  <2> DEFINE p == [k \in 1 .. Len(s) |-> k]
  <2>1. Permutes(p, Len(s)) /\ \A k \in 1 .. Len(s) : p[k] = k
    BY DEF Permutes
  <2> HIDE DEF p
  <2>2. \A k \in 1 .. Len(s) : SameWalk(t[k], s[p[k]])
    BY <1>6, <2>1
  <2> QED
    BY <1>8, <2>1, <2>2 DEF Reordered
<1> QED
  BY <1>0, <1>2, <1>5, <1>6, <1>7, <1>9 DEF SameWalk

---------------------------------------------------------------------------
(* Page tables and the caches of them.                                     *)

LEMMA KeysFinite == IsFiniteSet(TableKeys) /\ Cardinality(TableKeys) \in Nat \ {0}
<1> DEFINE P == VPages \X (1 .. pt_levels - 1)
           T == {TableKey(v, l) : v \in VPages, l \in 1 .. pt_levels - 1}
           f == [x \in P |-> TableKey(x[1], x[2])]
<1>1. IsFiniteSet(VPages) /\ IsFiniteSet(1 .. pt_levels - 1)
  BY VMemAssumption, FS_Interval, Constants
<1>2. IsFiniteSet(P)
  BY <1>1, FS_Product
<1>3. f \in Surjection(P, T)
  <2>1. f \in [P -> T]
    OBVIOUS
  <2>2. ASSUME NEW t \in T  PROVE \E x \in P : f[x] = t
    <3>1. PICK v \in VPages, l \in 1 .. pt_levels - 1 : t = TableKey(v, l)
      OBVIOUS
    <3>2. <<v, l>> \in P /\ f[<<v, l>>] = TableKey(v, l)
      OBVIOUS
    <3> QED
      BY <3>1, <3>2
  <2> HIDE DEF P, T, f
  <2> QED
    BY <2>1, <2>2 DEF Surjection
<1>t. TableKeys = {RootKey} \cup T
  BY DEF TableKeys
<1> HIDE DEF T, f, P
<1>4. IsFiniteSet(T)
  BY <1>2, <1>3, FS_Surjection
<1>5. IsFiniteSet({RootKey})
  BY FS_Singleton
<1>6. IsFiniteSet({RootKey} \cup T)
  BY <1>4, <1>5, FS_Union
<1>7. IsFiniteSet(TableKeys) /\ TableKeys # {}
  BY <1>6, <1>t
<1> QED
  BY <1>7, FS_CardinalityType, FS_EmptySet

LEMMA PagesAre ==
  /\ CR3 \in Pages
  /\ \A p \in Pages : p \in Nat
<1>1. CR3 \in Nat /\ Cardinality(TableKeys) \in Nat \ {0}
  BY Constants, KeysFinite
<1> QED
  BY <1>1 DEF Pages

LEMMA PageOffsets ==
  ASSUME NEW v \in VPages, NEW l \in 0 .. pt_levels - 1
  PROVE  v[l] \in Offsets /\ v[l] \in Nat
<1>1. v \in [0 .. pt_levels - 1 -> Nat]
  BY VMemAssumption
<1>2. v[l] \in Nat
  BY <1>1
<1>3. v[l] \in Offsets
  BY DEF Offsets
<1> QED
  BY <1>2, <1>3

Grows(pt, qt) == DOMAIN pt \subseteq DOMAIN qt /\ \A k \in DOMAIN pt : qt[k] = pt[k]

(* The tables made so far have their pages among those reserved.           *)
LEMMA TablePages ==
  ASSUME NEW pt, NEW next, TablesOK(pt, next)
  PROVE  /\ next \in Nat /\ \A k \in DOMAIN pt : pt[k] \in Pages
         /\ \A k \in TableKeys \ DOMAIN pt : next \in Pages
         /\ IsFiniteSet(DOMAIN pt) /\ Cardinality(DOMAIN pt) \in Nat
<1>1. IsFiniteSet(TableKeys) /\ Cardinality(TableKeys) \in Nat
  BY KeysFinite
<1>2. /\ IsFiniteSet(DOMAIN pt) /\ Cardinality(DOMAIN pt) <= Cardinality(TableKeys)
      /\ Cardinality(DOMAIN pt) = Cardinality(TableKeys) => DOMAIN pt = TableKeys
  BY <1>1, FS_Subset DEF TablesOK
<1>3. Cardinality(DOMAIN pt) \in Nat
  BY <1>2, FS_CardinalityType
<1>4. next = CR3 + Cardinality(DOMAIN pt) /\ CR3 \in Nat
  BY Constants DEF TablesOK
<1>5. \A k \in DOMAIN pt : pt[k] \in CR3 .. next - 1
  BY DEF TablesOK
<1>6. ASSUME NEW k \in TableKeys \ DOMAIN pt  PROVE next \in Pages
  <2>1. Cardinality(DOMAIN pt) # Cardinality(TableKeys)
    BY <1>2, <1>6
  <2> QED
    BY <1>1, <1>2, <1>3, <1>4, <2>1 DEF Pages
<1>7. \A k \in DOMAIN pt : pt[k] \in Pages
  BY <1>1, <1>2, <1>3, <1>4, <1>5 DEF Pages
<1> QED
  BY <1>2, <1>3, <1>4, <1>6, <1>7

(* get_pte_pa makes at most the table it is asked for.                     *)
LEMMA TableMade ==
  ASSUME TablesOK(page_table, next_pte_page), NEW v \in VPages, NEW l \in 1 .. pt_levels - 1,
         get_pte_pa(v, l)
  PROVE  /\ TablesOK(page_table', next_pte_page') /\ Grows(page_table, page_table')
         /\ TableKey(v, l) \in DOMAIN page_table' /\ page_table'[TableKey(v, l)] = PtePage(v, l)
         /\ PtePage(v, l) \in Pages
<1>1. PICK k : k = TableKey(v, l)
  OBVIOUS
<1>2. k \in TableKeys
  BY <1>1 DEF TableKeys
<1>3. next_pte_page \in Nat /\ CR3 \in Nat
  BY TablePages, Constants
<1>4. CASE k \in DOMAIN page_table
  <2>1. UNCHANGED <<page_table, next_pte_page>> /\ PtePage(v, l) = page_table[k]
    BY <1>1, <1>4 DEF get_pte_pa, Insert, pte_fault, PtePage
  <2>2. page_table[k] \in Pages
    BY <1>4, TablePages
  <2> QED
    BY <1>1, <1>4, <2>1, <2>2 DEF Grows
<1>5. CASE k \notin DOMAIN page_table
  <2>1. /\ page_table' = [j \in DOMAIN page_table \cup {k} |->
                             IF j = k THEN next_pte_page ELSE page_table[j]]
        /\ next_pte_page' = next_pte_page + 1 /\ PtePage(v, l) = next_pte_page
    BY <1>1, <1>5 DEF get_pte_pa, Insert, pte_fault, PtePage
  <2>2. DOMAIN page_table' = DOMAIN page_table \cup {k}
    BY <2>1
  <2>3. Cardinality(DOMAIN page_table') = Cardinality(DOMAIN page_table) + 1
    BY <1>5, <2>2, FS_AddElement, TablePages
  <2>4. Cardinality(DOMAIN page_table) \in Nat
    BY TablePages
  <2>5. next_pte_page \in CR3 .. next_pte_page' - 1
    BY <1>3, <2>1, <2>4 DEF TablesOK
  <2>6. \A j \in DOMAIN page_table' : page_table'[j] \in CR3 .. next_pte_page' - 1
    BY <1>3, <2>1, <2>2, <2>5 DEF TablesOK
  <2>7. next_pte_page' = CR3 + Cardinality(DOMAIN page_table')
    BY <1>3, <2>1, <2>3, <2>4 DEF TablesOK
  <2>8. DOMAIN page_table' \subseteq TableKeys
    BY <1>2, <2>2 DEF TablesOK
  <2>9. next_pte_page \in Pages
    BY <1>2, <1>5, TablePages
  <2>10. Grows(page_table, page_table')
    BY <1>5, <2>1, <2>2 DEF Grows
  <2>11. page_table'[k] = next_pte_page /\ k \in DOMAIN page_table'
    BY <2>1
  <2> QED
    BY <1>1, <2>1, <2>6, <2>7, <2>8, <2>9, <2>10, <2>11 DEF TablesOK
<1> QED
  BY <1>4, <1>5

LEMMA GrowsKeeps ==
  ASSUME NEW pt, NEW qt, Grows(pt, qt)
  PROVE  /\ \A m : ReadsOwn(m, pt) => ReadsOwn(m, qt)
         /\ \A s : WalksOK(s, pt) => WalksOK(s, qt)
         /\ \A f : CachesOK(f, pt) => CachesOK(f, qt)
<1>1. \A m : ReadsOwn(m, pt) => ReadsOwn(m, qt)
  BY DEF Grows, ReadsOwn
<1>2. \A s : WalksOK(s, pt) => WalksOK(s, qt)
  BY <1>1, Zenon DEF WalksOK
<1>3. \A b, l : PscBlock(b, l, pt) => PscBlock(b, l, qt)
  BY DEF Grows, PscBlock
<1>4. \A f, l : PscOK(f, l, pt) => PscOK(f, l, qt)
  BY <1>3, Zenon DEF PscOK
<1>5. \A f : CachesOK(f, pt) => CachesOK(f, qt)
  BY <1>4, Zenon DEF CachesOK
<1> QED
  BY <1>1, <1>2, <1>5

LEMMA SetInRange ==
  ASSUME NEW v \in VPages, NEW l \in PscLevels
  PROVE  SetIndex(v, l) \in 0 .. NUM_SET[l] - 1
<1>1. NUM_SET[l] \in Nat \ {0} /\ l \in 1 .. 4
  BY PscAssumption DEF PscLevels, PSCL5, PSCL4, PSCL3, PSCL2
<1>2. CASE l + 1 < pt_levels
  <2>1. l + 1 \in 0 .. pt_levels - 1
    BY <1>1, <1>2, Constants
  <2>2. v[l + 1] \in Nat
    BY <2>1, PageOffsets
  <2> QED
    BY <1>1, <1>2, <2>2 DEF SetIndex
<1> QED
  BY <1>1, <1>2 DEF SetIndex

(* fill_cache writes one block, whatever the victim.                       *)
LEMMA FillKeeps ==
  ASSUME NEW l \in PscLevels, NEW pt, NEW f, PscOK(f, l, pt), NEW v \in VPages, NEW page \in Pages,
         l # PSCL3 => TableKey(v, l) \in DOMAIN pt /\ page = pt[TableKey(v, l)]
  PROVE  PscOK(fill_cache(l, page, v, f), l, pt)
<1>1. PICK s : s = SetIndex(v, l)
  OBVIOUS
<1>2. PICK w : w = Victim(f[s])
  OBVIOUS
<1>3. s \in 0 .. NUM_SET[l] - 1
  BY <1>1, SetInRange
<1>4. PICK a : a = [valid |-> TRUE, address |-> Shifted(v, l + 1), data |-> page, lru |-> f[s][w].lru]
  OBVIOUS
<1>5. PICK h : h = [f[s] EXCEPT ![w] = a]
  OBVIOUS
<1>6. PICK y : y = h[w].lru
  OBVIOUS
<1>7. PICK g : g = fill_cache(l, page, v, f)
  OBVIOUS
<1>8. g = [f EXCEPT ![s] = [x \in Ways(l) |-> lru_updater(y, h[x])]]
  BY <1>1, <1>2, <1>4, <1>5, <1>6, <1>7 DEF fill_cache
<1>9. PscBlock(a, l, pt)
  BY <1>4 DEF PscBlock, TableKey
<1>10. f[s] = [x \in Ways(l) |-> f[s][x]] /\ \A x \in Ways(l) : PscBlock(f[s][x], l, pt)
  BY <1>3 DEF PscOK
<1>11. \A x \in Ways(l) : PscBlock(h[x], l, pt)
  BY <1>5, <1>9, <1>10
<1>12. \A b : PscBlock(b, l, pt) => PscBlock(lru_updater(y, b), l, pt)
  <2> SUFFICES ASSUME NEW b, PscBlock(b, l, pt)  PROVE PscBlock(lru_updater(y, b), l, pt)
    OBVIOUS
  <2>1. PICK z : z = IF b.lru = y THEN 0 ELSE b.lru + 1
    OBVIOUS
  <2>2. lru_updater(y, b) = [b EXCEPT !.lru = z]
    BY <2>1 DEF lru_updater
  <2>3. PICK c1, c2, c3, c4 : b = [valid |-> c1, address |-> c2, data |-> c3, lru |-> c4]
    BY DEF PscBlock
  <2>4. lru_updater(y, b) = [valid |-> c1, address |-> c2, data |-> c3, lru |-> z]
    BY <2>2, <2>3
  <2>5. b.valid = c1 /\ b.address = c2 /\ b.data = c3
    BY <2>3
  <2> QED
    BY <2>4, <2>5 DEF PscBlock
<1>13. PICK u : u = [x \in Ways(l) |-> lru_updater(y, h[x])]
  OBVIOUS
<1>14. u = [x \in Ways(l) |-> u[x]] /\ \A x \in Ways(l) : PscBlock(u[x], l, pt)
  BY <1>11, <1>12, <1>13
<1>15. g = [f EXCEPT ![s] = u]
  BY <1>8, <1>13
<1>f. f = [t \in 0 .. NUM_SET[l] - 1 |-> f[t]]
  BY DEF PscOK
<1>16. g = [t \in 0 .. NUM_SET[l] - 1 |-> g[t]]
  BY <1>f, <1>15
<1>17. g[s] = u /\ \A t \in 0 .. NUM_SET[l] - 1 : t # s => g[t] = f[t]
  BY <1>3, <1>f, <1>15
<1>18. PscOK(g, l, pt)
  BY <1>14, <1>16, <1>17 DEF PscOK
<1> QED
  BY <1>7, <1>18

(* What handle_fill does to the caches when a walk goes down a level.      *)
LEMMA FillCachesKeeps ==
  ASSUME NEW pt, CachesOK(block, pt), NEW m \in Walk, NEW page \in Pages,
         TableKey(m.v_address, m.level) \in DOMAIN pt, pt[TableKey(m.v_address, m.level)] = page,
         FillCaches(m, page)
  PROVE  CachesOK(block', pt)
<1>1. m.v_address \in VPages
  BY WalkFields
<1>2. \A l \in CachesFilledAt(m.level) : l # PSCL3 => l = m.level
  BY DEF CachesFilledAt, PSCL2, PSCL3, PSCL4, PSCL5
<1>3. block' = [l \in PscLevels |-> block'[l]]
  BY DEF FillCaches
<1>4. ASSUME NEW l \in PscLevels
      PROVE  PscOK(block'[l], l, pt)
  <2>1. PscOK(block[l], l, pt)
    BY DEF CachesOK
  <2>2. CASE l \in CachesFilledAt(m.level)
    <3>1. block'[l] = fill_cache(l, page, m.v_address, block[l])
      BY <2>2 DEF FillCaches
    <3>2. l # PSCL3 => TableKey(m.v_address, l) \in DOMAIN pt /\ page = pt[TableKey(m.v_address, l)]
      BY <1>2, <2>2
    <3> QED
      BY <1>1, <2>1, <3>1, <3>2, FillKeeps
  <2>3. CASE l \notin CachesFilledAt(m.level)
    <3>1. block'[l] = block[l]
      BY <2>3 DEF FillCaches
    <3> QED
      BY <2>1, <3>1
  <2> QED
    BY <2>2, <2>3
<1> QED
  BY <1>3, <1>4 DEF CachesOK

---------------------------------------------------------------------------
(* Where a walk starts.                                                    *)

LEMMA LeastOf ==
  ASSUME NEW S \in SUBSET Nat, S # {}
  PROVE  Min(S) \in S /\ \A j \in S : Min(S) <= j
<1>1. PICK x \in S : \A y \in S : ~(<<y, x>> \in OpToRel(<, Nat))
  BY NatLessThanWellFounded, WFMin
<1>2. ASSUME NEW y \in S, y < x  PROVE FALSE
  <2>1. <<y, x>> \in OpToRel(<, Nat)
    BY <1>2, Zenon DEF OpToRel
  <2> QED
    BY <1>1, <2>1
<1>3. \A y \in S : x <= y
  BY <1>2
<1> QED
  BY <1>3 DEF Min

(* A hit gives an entry of the table of its level, but in PSCL3.           *)
LEMMA HitFound ==
  ASSUME CachesOK(block, page_table), NEW v \in VPages, NEW l \in PscLevels, IsHit(l, v)
  PROVE  /\ check_hit(l, v) \in Address
         /\ l # PSCL3 => /\ TableKey(v, l) \in DOMAIN page_table
                         /\ check_hit(l, v) = [page |-> page_table[TableKey(v, l)], off |-> v[l]]
<1>1. PICK w : w = Min(HitWays(l, v))
  OBVIOUS
<1>2. Ways(l) \subseteq Nat
  BY DEF Ways
<1>3. w \in HitWays(l, v)
  BY <1>1, <1>2, LeastOf DEF IsHit, HitWays
<1>4. PICK b : b = block[l][SetIndex(v, l)][w]
  OBVIOUS
<1>5. w \in Ways(l) /\ b.valid /\ b.address = Shifted(v, l + 1)
  BY <1>3, <1>4 DEF HitWays
<1>6. PscBlock(b, l, page_table)
  BY <1>4, <1>5, SetInRange DEF CachesOK, PscOK
<1>7. check_hit(l, v) = [page |-> b.data, off |-> v[l]]
  BY <1>1, <1>4 DEF check_hit, get_offset
<1>8. l \in 0 .. pt_levels - 1
  BY Constants DEF PscLevels, PSCL5, PSCL4, PSCL3, PSCL2
<1>9. v[l] \in Offsets /\ b.data \in Pages
  BY <1>5, <1>6, <1>8, PageOffsets DEF PscBlock
<1>10. check_hit(l, v) \in Address
  BY <1>7, <1>9 DEF Address
<1>11. ASSUME l # PSCL3
       PROVE  TableKey(v, l) \in DOMAIN page_table /\ b.data = page_table[TableKey(v, l)]
  BY <1>5, <1>6, <1>11 DEF PscBlock, TableKey
<1> QED
  BY <1>7, <1>10, <1>11

Started(v) ==
  [v_address |-> v, address |-> WalkStart(v).address, level |-> WalkStart(v).level,
   init |-> WalkStart(v).level, event |-> NEVER]
LEMMA StartOK ==
  ASSUME CachesOK(block, page_table), NEW v \in VPages
  PROVE  /\ Started(v) \in Walk /\ WalkStart(v).address \in Address
         /\ ReadsOwn(Started(v), page_table) \/ FromPSCL3(Started(v))
<1>1. PICK hits : hits = {l \in PscLevels : IsHit(l, v)}
  OBVIOUS
<1>2. PICK a, n : a = WalkStart(v).address /\ n = WalkStart(v).level
  OBVIOUS
<1>3. PICK m : m = Started(v)
  OBVIOUS
<1>4. m = [v_address |-> v, address |-> a, level |-> n, init |-> n, event |-> NEVER]
  BY <1>2, <1>3 DEF Started
<1>5. NEVER \in PAST .. NEVER
  BY Constants
<1>6. CASE hits = {}
  <2>1. a = [page |-> CR3, off |-> v[pt_levels - 1]] /\ n = pt_levels - 1
    BY <1>1, <1>2, <1>6 DEF WalkStart, get_offset
  <2>2. pt_levels - 1 \in 0 .. pt_levels - 1
    BY Constants
  <2>3. a \in Address
    BY <2>1, <2>2, PageOffsets, PagesAre DEF Address
  <2>4. m \in Walk
    BY <1>4, <1>5, <2>1, <2>2, <2>3 DEF Walk
  <2>5. ReadsOwn(m, page_table)
    BY <1>4, <2>1 DEF ReadsOwn
  <2> QED
    BY <1>2, <1>3, <2>3, <2>4, <2>5
<1>7. CASE hits # {}
  <2>1. PICK l : l = Min(hits)
    OBVIOUS
  <2>2. hits \subseteq Nat
    BY <1>1 DEF PscLevels, PSCL5, PSCL4, PSCL3, PSCL2
  <2>3. l \in hits
    BY <1>7, <2>1, <2>2, LeastOf
  <2>4. l \in PscLevels /\ IsHit(l, v)
    BY <1>1, <2>3
  <2>5. a = check_hit(l, v) /\ n = l - 1
    BY <1>1, <1>2, <1>7, <2>1 DEF WalkStart
  <2>6. l \in 1 .. 4
    BY <2>4 DEF PscLevels, PSCL5, PSCL4, PSCL3, PSCL2
  <2>7. a \in Address
    BY <2>4, <2>5, HitFound
  <2>8. n \in 0 .. pt_levels - 1 /\ n # pt_levels - 1 /\ n + 1 = l
    BY <2>5, <2>6, Constants
  <2>9. m \in Walk
    BY <1>4, <1>5, <2>7, <2>8 DEF Walk
  <2>10. CASE l = PSCL3
    <3>1. FromPSCL3(m)
      BY <1>4, <2>5, <2>10 DEF FromPSCL3
    <3> QED
      BY <1>2, <1>3, <2>7, <2>9, <3>1
  <2>11. CASE l # PSCL3
    <3>1. /\ TableKey(v, l) \in DOMAIN page_table
          /\ a = [page |-> page_table[TableKey(v, l)], off |-> v[l]]
      BY <2>4, <2>5, <2>11, HitFound
    <3>2. ReadsOwn(m, page_table)
      BY <1>4, <2>8, <3>1 DEF ReadsOwn
    <3> QED
      BY <1>2, <1>3, <2>7, <2>9, <3>2
  <2> QED
    BY <2>10, <2>11
<1> QED
  BY <1>6, <1>7

---------------------------------------------------------------------------
(* What the operations do to lists and to who waits.                       *)

LEMMA BlocksAre ==
  ASSUME NEW a \in Address
  PROVE  BlockOf(a) \in Blocks
  BY DEF Blocks

LEMMA TailWalks ==
  ASSUME NEW pt, NEW s, WalksOK(s, pt), s # << >>
  PROVE  /\ WalksOK(Tail(s), pt) /\ Len(Tail(s)) = Len(s) - 1
         /\ Head(s) \in Walk /\ Head(s) = s[1] /\ 1 \in DOMAIN s
         /\ \A i \in DOMAIN Tail(s) : i + 1 \in DOMAIN s /\ Tail(s)[i] = s[i + 1]
<1>1. s \in Seq(Walk)
  BY DEF WalksOK
<1>2. /\ Tail(s) \in Seq(Walk) /\ Len(Tail(s)) = Len(s) - 1
      /\ Head(s) \in Walk /\ Head(s) = s[1] /\ 1 \in DOMAIN s
      /\ DOMAIN s = 1 .. Len(s) /\ Len(s) \in Nat
  BY <1>1
<1>3. \A i \in DOMAIN Tail(s) : i \in Nat /\ i + 1 \in DOMAIN s /\ Tail(s)[i] = s[i + 1]
  BY <1>1
<1>4. \A i, j \in DOMAIN Tail(s) : i < j => i + 1 < j + 1
  BY <1>3
<1>5. Sorted(Tail(s))
  BY <1>3, <1>4 DEF WalksOK, Sorted
<1>6. \A i \in DOMAIN Tail(s) : ReadsOwn(Tail(s)[i], pt) \/ FromPSCL3(Tail(s)[i])
  BY <1>3 DEF WalksOK
<1> QED
  BY <1>2, <1>3, <1>5, <1>6 DEF WalksOK

LEMMA AppendWalks ==
  ASSUME NEW pt, NEW s, WalksOK(s, pt), NEW m \in Walk, m.event = NEVER,
         ReadsOwn(m, pt) \/ FromPSCL3(m)
  PROVE  /\ WalksOK(Append(s, m), pt) /\ Len(Append(s, m)) = Len(s) + 1
         /\ DOMAIN Append(s, m) = DOMAIN s \cup {Len(s) + 1} /\ Len(s) + 1 \notin DOMAIN s
         /\ Append(s, m)[Len(s) + 1] = m /\ \A i \in DOMAIN s : Append(s, m)[i] = s[i]
<1>1. s \in Seq(Walk)
  BY DEF WalksOK
<1>2. PICK t : t = Append(s, m)
  OBVIOUS
<1>3. /\ t \in Seq(Walk) /\ Len(t) = Len(s) + 1
      /\ DOMAIN t = DOMAIN s \cup {Len(s) + 1} /\ Len(s) + 1 \notin DOMAIN s
      /\ t[Len(s) + 1] = m /\ \A i \in DOMAIN s : t[i] = s[i]
  BY <1>1, <1>2
<1>4. \A i \in DOMAIN s : s[i].event <= NEVER
  BY <1>1, WalkFields, Constants
<1>5. DOMAIN s = 1 .. Len(s) /\ Len(s) \in Nat
  BY <1>1
<1>6. Sorted(t)
  <2> SUFFICES ASSUME NEW i \in DOMAIN t, NEW j \in DOMAIN t, i < j
               PROVE  t[i].event <= t[j].event
    BY DEF Sorted
  <2>1. i \in DOMAIN s
    BY <1>3, <1>5
  <2>2. CASE j \in DOMAIN s
    BY <1>3, <2>1, <2>2 DEF WalksOK, Sorted
  <2>3. CASE j = Len(s) + 1
    BY <1>3, <1>4, <2>1, <2>3
  <2> QED
    BY <1>3, <2>2, <2>3
<1>7. \A i \in DOMAIN t : ReadsOwn(t[i], pt) \/ FromPSCL3(t[i])
  BY <1>3 DEF WalksOK
<1> QED
  BY <1>2, <1>3, <1>6, <1>7 DEF WalksOK

LEMMA ReorderWalks ==
  ASSUME NEW pt, NEW s, WalksOK(s, pt), NEW t, Reordered(s, t), Sorted(t)
  PROVE  WalksOK(t, pt) /\ Len(t) = Len(s)
<1>1. s \in Seq(Walk) /\ \A i \in DOMAIN s : ReadsOwn(s[i], pt) \/ FromPSCL3(s[i])
  BY DEF WalksOK
<1>2. \A i \in DOMAIN t : ReadsOwn(t[i], pt) \/ FromPSCL3(t[i])
  BY <1>1, ReorderedKeeps
<1> QED
  BY <1>2 DEF WalksOK, Reordered

LEMMA HeldReorder ==
  ASSUME NEW q, NEW s \in Seq(Walk), NEW w, HeldOnce(q, s, w), NEW t, Reordered(s, t)
  PROVE  HeldOnce(q, t, w)
<1>1. \A i, j \in DOMAIN s : s[i].v_address = s[j].v_address => i = j
  BY DEF HeldOnce
<1>2. Walked(t) = Walked(s) /\ \A i, j \in DOMAIN t : t[i].v_address = t[j].v_address => i = j
  BY <1>1, ReorderedKeeps
<1> QED
  BY <1>2 DEF HeldOnce

LEMMA HeldTail ==
  ASSUME NEW q, NEW s \in Seq(Walk), s # << >>, NEW w, HeldOnce(q, s, w)
  PROVE  /\ HeldOnce(q, Tail(s), w \ {Head(s).v_address})
         /\ Head(s).v_address \in w
<1>1. PICK t, v : t = Tail(s) /\ v = Head(s).v_address
  OBVIOUS
<1>2. /\ 1 \in DOMAIN s /\ v = s[1].v_address
      /\ \A i \in DOMAIN t : i \in Nat /\ i + 1 \in DOMAIN s /\ i + 1 # 1 /\ t[i] = s[i + 1]
      /\ \A i \in DOMAIN s : i = 1 \/ (i - 1 \in DOMAIN t /\ t[i - 1] = s[i])
  BY <1>1
<1>3. \A i, j \in DOMAIN s : s[i].v_address = s[j].v_address => i = j
  BY DEF HeldOnce
<1>4. ASSUME NEW i \in DOMAIN t, NEW j \in DOMAIN t, t[i].v_address = t[j].v_address
      PROVE  i = j
  <2>1. t[i] = s[i + 1] /\ i + 1 \in DOMAIN s /\ i \in Nat
    BY <1>2
  <2>2. t[j] = s[j + 1] /\ j + 1 \in DOMAIN s /\ j \in Nat
    BY <1>2
  <2>3. s[i + 1].v_address = s[j + 1].v_address
    BY <1>4, <2>1, <2>2
  <2>4. i + 1 = j + 1
    BY <1>3, <2>1, <2>2, <2>3, Zenon
  <2> QED
    BY <2>1, <2>2, <2>4
<1>5. v \notin Walked(t) /\ Walked(s) = Walked(t) \cup {v}
  <2>1. v \notin Walked(t)
    BY <1>2, <1>3 DEF Walked
  <2>2. Walked(t) \subseteq Walked(s) /\ v \in Walked(s)
    BY <1>2 DEF Walked
  <2>3. ASSUME NEW i \in DOMAIN s  PROVE s[i].v_address \in Walked(t) \cup {v}
    <3>1. CASE i = 1
      BY <1>2, <3>1
    <3>2. CASE i - 1 \in DOMAIN t /\ t[i - 1] = s[i]
      BY <3>2 DEF Walked
    <3> QED
      BY <1>2, <3>1, <3>2
  <2> QED
    BY <2>1, <2>2, <2>3 DEF Walked
<1>6. HeldOnce(q, t, w \ {v}) /\ v \in w
  BY <1>4, <1>5 DEF HeldOnce
<1> QED
  BY <1>1, <1>6

LEMMA HeldAppend ==
  ASSUME NEW q, NEW s \in Seq(Walk), NEW w, HeldOnce(q, s, w), NEW m \in Walk, m.v_address \notin w
  PROVE  HeldOnce(q, Append(s, m), w \cup {m.v_address})
<1>1. PICK t, v : t = Append(s, m) /\ v = m.v_address
  OBVIOUS
<1>2. /\ DOMAIN t = DOMAIN s \cup {Len(s) + 1} /\ Len(s) + 1 \notin DOMAIN s
      /\ t[Len(s) + 1] = m /\ \A i \in DOMAIN s : t[i] = s[i]
  BY <1>1
<1>3. v \notin Walked(s) /\ v \notin Asked(q)
  BY <1>1 DEF HeldOnce
<1>4. \A i \in DOMAIN s : s[i].v_address # v
  BY <1>3 DEF Walked
<1>5. \A i, j \in DOMAIN t : t[i].v_address = t[j].v_address => i = j
  BY <1>1, <1>2, <1>4 DEF HeldOnce
<1>6. Walked(t) = Walked(s) \cup {v}
  BY <1>1, <1>2 DEF Walked
<1>7. HeldOnce(q, t, w \cup {v})
  BY <1>3, <1>5, <1>6 DEF HeldOnce
<1> QED
  BY <1>1, <1>7

Request == [item : VPages, delay : 0 .. Latency]

LEMMA HeldPop ==
  ASSUME NEW q \in Seq(Request), q # << >>, NEW s, NEW w, HeldOnce(q, s, w)
  PROVE  /\ HeldOnce(Tail(q), s, w \ {Head(q).item})
         /\ Head(q).item \in w
<1>1. PICK t, v : t = Tail(q) /\ v = Head(q).item
  OBVIOUS
<1>2. /\ 1 \in DOMAIN q /\ v = q[1].item
      /\ \A i \in DOMAIN t : i \in Nat /\ i + 1 \in DOMAIN q /\ i + 1 # 1 /\ t[i] = q[i + 1]
      /\ \A i \in DOMAIN q : i = 1 \/ (i - 1 \in DOMAIN t /\ t[i - 1] = q[i])
  BY <1>1
<1>3. \A i, j \in DOMAIN q : q[i].item = q[j].item => i = j
  BY DEF HeldOnce
<1>4. ASSUME NEW i \in DOMAIN t, NEW j \in DOMAIN t, t[i].item = t[j].item  PROVE i = j
  <2>1. t[i] = q[i + 1] /\ i + 1 \in DOMAIN q /\ i \in Nat
    BY <1>2
  <2>2. t[j] = q[j + 1] /\ j + 1 \in DOMAIN q /\ j \in Nat
    BY <1>2
  <2>3. q[i + 1].item = q[j + 1].item
    BY <1>4, <2>1, <2>2
  <2>4. i + 1 = j + 1
    BY <1>3, <2>1, <2>2, <2>3, Zenon
  <2> QED
    BY <2>1, <2>2, <2>4
<1>5. v \notin Asked(t) /\ Asked(q) = Asked(t) \cup {v}
  <2>1. v \notin Asked(t)
    BY <1>2, <1>3 DEF Asked
  <2>2. Asked(t) \subseteq Asked(q) /\ v \in Asked(q)
    BY <1>2 DEF Asked
  <2>3. ASSUME NEW i \in DOMAIN q  PROVE q[i].item \in Asked(t) \cup {v}
    <3>1. CASE i = 1
      BY <1>2, <3>1
    <3>2. CASE i - 1 \in DOMAIN t /\ t[i - 1] = q[i]
      BY <3>2 DEF Asked
    <3> QED
      BY <1>2, <3>1, <3>2
  <2> QED
    BY <2>1, <2>2, <2>3 DEF Asked
<1>6. HeldOnce(t, s, w \ {v}) /\ v \in w
  BY <1>4, <1>5 DEF HeldOnce
<1> QED
  BY <1>1, <1>6

LEMMA HeldPush ==
  ASSUME NEW q \in Seq(Request), NEW s, NEW w, HeldOnce(q, s, w), NEW v \in VPages, NEW d, v \notin w
  PROVE  HeldOnce(Append(q, [item |-> v, delay |-> d]), s, w \cup {v})
<1>1. PICK e : e = [item |-> v, delay |-> d]
  OBVIOUS
<1>2. PICK t : t = Append(q, e)
  OBVIOUS
<1>3. /\ DOMAIN t = DOMAIN q \cup {Len(q) + 1} /\ Len(q) + 1 \notin DOMAIN q
      /\ t[Len(q) + 1] = e /\ \A i \in DOMAIN q : t[i] = q[i]
  BY <1>2
<1>4. e.item = v
  BY <1>1
<1>5. v \notin Walked(s) /\ v \notin Asked(q)
  BY DEF HeldOnce
<1>6. \A i \in DOMAIN q : q[i].item # v
  BY <1>5 DEF Asked
<1>7. \A i, j \in DOMAIN t : t[i].item = t[j].item => i = j
  BY <1>3, <1>4, <1>6 DEF HeldOnce
<1>8. Asked(t) = Asked(q) \cup {v}
  BY <1>3, <1>4 DEF Asked
<1>9. HeldOnce(t, s, w \cup {v})
  BY <1>5, <1>7, <1>8 DEF HeldOnce
<1> QED
  BY <1>1, <1>2, <1>9

(* The operations of the read queue.                                       *)
LEMMA QueuePop ==
  ASSUME QueueOK(RQ, rq_ready), ReadQueue!Pop
  PROVE  /\ QueueOK(RQ', rq_ready') /\ RQ' = Tail(RQ)
         /\ RQ \in Seq(Request) /\ RQ # << >> /\ Head(RQ).item \in VPages
<1>1. RQ \in Seq(Request) /\ Len(RQ) <= RQ_SIZE /\ rq_ready \in 0 .. Len(RQ)
  BY DEF QueueOK, Request
<1>2. rq_ready > 0 /\ RQ' = Tail(RQ) /\ rq_ready' = rq_ready - 1
  BY DEF ReadQueue!Pop
<1>3. RQ # << >> /\ Len(RQ) \in Nat
  BY <1>1, <1>2
<1>4. Tail(RQ) \in Seq(Request) /\ Len(Tail(RQ)) = Len(RQ) - 1 /\ Head(RQ) \in Request
  BY <1>1, <1>3
<1>5. RQ_SIZE \in Nat
  BY Constants
<1>6. Len(RQ') <= RQ_SIZE /\ rq_ready' \in 0 .. Len(RQ')
  BY <1>1, <1>2, <1>3, <1>4, <1>5
<1>7. Head(RQ).item \in VPages
  BY <1>4 DEF Request
<1> QED
  BY <1>1, <1>2, <1>3, <1>4, <1>6, <1>7 DEF QueueOK, Request

LEMMA QueuePush ==
  ASSUME QueueOK(RQ, rq_ready), NEW v \in VPages, ReadQueue!Push(v, Latency)
  PROVE  /\ QueueOK(RQ', rq_ready') /\ RQ' = Append(RQ, [item |-> v, delay |-> Latency])
         /\ RQ \in Seq(Request)
<1>1. RQ \in Seq(Request) /\ Len(RQ) <= RQ_SIZE /\ rq_ready \in 0 .. Len(RQ)
  BY DEF QueueOK, Request
<1>2. PICK e : e = [item |-> v, delay |-> Latency]
  OBVIOUS
<1>3. Len(RQ) < RQ_SIZE /\ RQ' = Append(RQ, e) /\ rq_ready' = rq_ready
  BY <1>2 DEF ReadQueue!Push
<1>4. e \in Request
  <2>1. Latency \in 0 .. Latency
    BY Constants
  <2> QED
    BY <1>2, <2>1 DEF Request
<1>5. RQ' \in Seq(Request) /\ Len(RQ') = Len(RQ) + 1 /\ Len(RQ) \in Nat
  BY <1>1, <1>3, <1>4
<1>6. Len(RQ') <= RQ_SIZE /\ rq_ready' \in 0 .. Len(RQ')
  BY <1>1, <1>3, <1>5, Constants
<1> QED
  BY <1>1, <1>2, <1>3, <1>5, <1>6 DEF QueueOK, Request

LEMMA QueueTick ==
  ASSUME QueueOK(RQ, rq_ready), ReadQueue!Tick, NEW s, NEW w, HeldOnce(RQ, s, w)
  PROVE  QueueOK(RQ', rq_ready') /\ HeldOnce(RQ', s, w)
<1>1. RQ \in Seq(Request) /\ Len(RQ) <= RQ_SIZE
  BY DEF QueueOK, Request
<1>2. /\ RQ' = [i \in DOMAIN RQ |-> [RQ[i] EXCEPT !.delay = ReadQueue!Countdown(@)]]
      /\ rq_ready' \in 0 .. Len(RQ)
  BY DEF ReadQueue!Tick
<1>3. DOMAIN RQ' = DOMAIN RQ /\ RQ' = [i \in DOMAIN RQ |-> RQ'[i]]
  BY <1>2
<1>4. ASSUME NEW i \in DOMAIN RQ  PROVE RQ'[i] \in Request /\ RQ'[i].item = RQ[i].item
  <2>1. PICK e, d : e = RQ[i] /\ d = ReadQueue!Countdown(e.delay)
    OBVIOUS
  <2>2. RQ'[i] = [e EXCEPT !.delay = d]
    BY <1>2, <2>1
  <2>a. e \in Request
    BY <1>1, <2>1
  <2>3. e \in [item : VPages, delay : 0 .. Latency]
    BY <2>a DEF Request
  <2>4. e.delay \in 0 .. Latency /\ Latency \in Nat
    BY <2>3, Constants
  <2>5. d \in 0 .. Latency
    BY <2>1, <2>4 DEF ReadQueue!Countdown
  <2> QED
    BY <2>1, <2>2, <2>3, <2>5 DEF Request
<1>5. DOMAIN RQ = 1 .. Len(RQ) /\ Len(RQ) \in Nat
  BY <1>1
<1>6. RQ' \in [1 .. Len(RQ) -> Request]
  BY <1>3, <1>4, <1>5
<1>7. RQ' \in Seq(Request) /\ Len(RQ') = Len(RQ)
  BY <1>5, <1>6
<1>8. QueueOK(RQ', rq_ready')
  BY <1>1, <1>2, <1>7 DEF QueueOK, Request
<1>9. Asked(RQ') = Asked(RQ)
  BY <1>3, <1>4 DEF Asked
<1>10. HeldOnce(RQ', s, w)
  BY <1>3, <1>4, <1>9 DEF HeldOnce
<1> QED
  BY <1>8, <1>10

(* A read the L1D takes, whichever way: the walk is listed, and waits.     *)
LEMMA AcceptKeeps ==
  ASSUME NEW pt, NEW s, WalksOK(s, pt), NEW m \in Walk, m.event = NEVER,
         ReadsOwn(m, pt) \/ FromPSCL3(m), NEW a \in Address, lower \in [Blocks -> 0 .. 2],
         NEW q, NEW w, HeldOnce(q, s, w), m.v_address \notin w, Accept(a, s, m)
  PROVE  /\ WalksOK(MSHR', pt) /\ Len(MSHR') = Len(s) + 1
         /\ lower' \in [Blocks -> 0 .. 2]
         /\ HeldOnce(q, MSHR', w \cup {m.v_address})
<1>1. s \in Seq(Walk)
  BY DEF WalksOK
<1>2. lower' \in [Blocks -> 0 .. 2]
  <2>1. BlockOf(a) \in Blocks
    BY BlocksAre
  <2>2. CASE UNCHANGED lower
    BY <2>2
  <2>3. CASE lower[BlockOf(a)] < 2 /\ lower' = [lower EXCEPT ![BlockOf(a)] = @ + 1]
    BY <2>1, <2>3
  <2> QED
    BY <2>2, <2>3 DEF Accept
<1>3. CASE MSHR' = Append(s, m)
  <2>1. WalksOK(Append(s, m), pt) /\ Len(Append(s, m)) = Len(s) + 1
    BY AppendWalks
  <2>2. HeldOnce(q, Append(s, m), w \cup {m.v_address})
    BY <1>1, HeldAppend
  <2> QED
    BY <1>2, <1>3, <2>1, <2>2
<1>4. CASE MSHR' = Append(return_data(s, BlockOf(a)), m)
  <2>1. PICK t : t = return_data(s, BlockOf(a))
    OBVIOUS
  <2>2. Reordered(s, t) /\ Sorted(t)
    BY <1>1, <2>1, ReturnKeeps
  <2>3. WalksOK(t, pt) /\ Len(t) = Len(s) /\ t \in Seq(Walk)
    BY <2>2, ReorderWalks DEF WalksOK
  <2>4. HeldOnce(q, t, w)
    BY <1>1, <2>2, HeldReorder
  <2>5. WalksOK(Append(t, m), pt) /\ Len(Append(t, m)) = Len(t) + 1
    BY <2>3, AppendWalks
  <2>6. HeldOnce(q, Append(t, m), w \cup {m.v_address})
    BY <2>3, <2>4, HeldAppend
  <2> QED
    BY <1>2, <1>4, <2>1, <2>3, <2>5, <2>6
<1> QED
  BY <1>3, <1>4 DEF Accept

---------------------------------------------------------------------------
LEMMA WalkerInit == Init => WalkerInv
<1> SUFFICES ASSUME Init  PROVE WalkerInv
  OBVIOUS
<1>1. VMemInv
  BY VMemInvInit DEF Init
<1>2. TablesOK(page_table, next_pte_page)
  <2>1. page_table = [k \in {RootKey} |-> CR3] /\ next_pte_page = CR3 + 1
    BY DEF Init, VMemInit
  <2>2. DOMAIN page_table = {RootKey} /\ Cardinality({RootKey}) = 1
    BY <2>1, FS_Singleton
  <2>3. RootKey \in TableKeys
    BY DEF TableKeys
  <2> QED
    BY <2>1, <2>2, <2>3, Constants DEF TablesOK
<1>3. CachesOK(block, page_table)
  <2>1. block = [l \in PscLevels |-> [s \in 0 .. NUM_SET[l] - 1 |-> [w \in Ways(l) |-> NoBlock]]]
    BY DEF Init, BlockInit
  <2>2. \A l : PscBlock(NoBlock, l, page_table)
    BY DEF NoBlock, PscBlock
  <2>3. ASSUME NEW l \in PscLevels  PROVE PscOK(block[l], l, page_table)
    <3>1. PICK f : f = block[l]
      OBVIOUS
    <3>2. f = [s \in 0 .. NUM_SET[l] - 1 |-> [w \in Ways(l) |-> NoBlock]]
      BY <2>1, <3>1
    <3>3. PscOK(f, l, page_table)
      BY <2>2, <3>2 DEF PscOK
    <3> QED
      BY <3>1, <3>3
  <2>4. block = [l \in PscLevels |-> block[l]]
    BY <2>1
  <2> QED
    BY <2>3, <2>4 DEF CachesOK
<1>4. RQ = << >> /\ rq_ready = 0 /\ MSHR = << >> /\ stlb = {}
  BY DEF Init, ReadQueue!Init
<1>5. QueueOK(RQ, rq_ready)
  BY <1>4, Constants DEF QueueOK
<1>6. WalksOK(MSHR, page_table) /\ Len(MSHR) <= MSHR_SIZE
  BY <1>4, Constants DEF WalksOK, Sorted
<1>7. HeldOnce(RQ, MSHR, stlb)
  BY <1>4 DEF HeldOnce, Asked, Walked
<1>8. /\ warmup_complete \in BOOLEAN /\ pc \in {"idle", "fill", "read"}
      /\ budget \in 0 .. MAX_READ + MAX_FILL /\ lower \in [Blocks -> 0 .. 2]
  <2>1. warmup_complete = FALSE /\ pc = "idle" /\ budget = 0 /\ lower = [b \in Blocks |-> 0]
    BY DEF Init
  <2>2. 0 \in 0 .. MAX_READ + MAX_FILL
    BY Constants
  <2>3. lower \in [Blocks -> 0 .. 2]
    BY <2>1
  <2> QED
    BY <2>1, <2>2, <2>3
<1> QED
  BY <1>1, <1>2, <1>3, <1>5, <1>6, <1>7, <1>8 DEF WalkerInv

(* handle_fill works on the front of the list.                             *)
LEMMA FrontDue ==
  ASSUME WalkerInv, FillDue
  PROVE  /\ Head(MSHR) \in Walk /\ MSHR # << >> /\ MSHR \in Seq(Walk)
         /\ Head(MSHR).v_address \in VPages /\ Head(MSHR).level \in 0 .. pt_levels - 1
         /\ budget - 1 \in 0 .. MAX_READ + MAX_FILL
<1>1. MSHR \in Seq(Walk) /\ MSHR # << >>
  BY DEF WalkerInv, WalksOK, FillDue
<1>2. Head(MSHR) \in Walk
  BY <1>1
<1>3. budget \in 0 .. MAX_READ + MAX_FILL /\ budget > 0
  BY DEF WalkerInv, FillDue
<1>4. budget - 1 \in 0 .. MAX_READ + MAX_FILL
  BY <1>3, Constants
<1> QED
  BY <1>1, <1>2, <1>4, WalkFields

(* What the variables other than the memory, the caches and the list do in *)
(* one pass of handle_fill.                                                *)
LEMMA SpendKeeps ==
  ASSUME WalkerInv, FillDue, Spend
  PROVE  /\ QueueOK(RQ', rq_ready') /\ RQ' = RQ /\ warmup_complete' \in BOOLEAN
         /\ pc' \in {"idle", "fill", "read"} /\ budget' \in 0 .. MAX_READ + MAX_FILL
<1>1. budget' = budget - 1 /\ UNCHANGED <<pc, warmup_complete, RQ, rq_ready>>
  BY DEF Spend, queueVars
<1> QED
  BY <1>1, FrontDue DEF WalkerInv

LEMMA MapKeeps ==
  ASSUME WalkerInv, NEW v \in VPages, va_to_pa(v)
  PROVE  /\ VMemInv' /\ UNCHANGED <<page_table, next_pte_page>>
         /\ TablesOK(page_table', next_pte_page')
<1>1. VMemInv'
  BY MapStep DEF WalkerInv
<1>2. UNCHANGED <<page_table, next_pte_page>>
  BY DEF va_to_pa
<1> QED
  BY <1>1, <1>2 DEF WalkerInv

LEMMA FillAnswerKeeps == WalkerInv /\ FillAnswer => WalkerInv'
<1> SUFFICES ASSUME WalkerInv, FillAnswer  PROVE WalkerInv'
  OBVIOUS
<1>1. PICK m : m = Head(MSHR)
  OBVIOUS
<1>2. /\ FillDue /\ Spend /\ va_to_pa(m.v_address) /\ stlb' = stlb \ {m.v_address}
      /\ MSHR' = Tail(MSHR) /\ UNCHANGED <<block, lower>>
  BY <1>1 DEF FillAnswer
<1>3. MSHR \in Seq(Walk) /\ MSHR # << >> /\ m.v_address \in VPages
  BY <1>1, <1>2, FrontDue
<1>4. VMemInv' /\ UNCHANGED <<page_table, next_pte_page>> /\ TablesOK(page_table', next_pte_page')
  BY <1>2, <1>3, MapKeeps
<1>5. WalksOK(Tail(MSHR), page_table) /\ Len(Tail(MSHR)) = Len(MSHR) - 1
  BY <1>3, TailWalks DEF WalkerInv
<1>6. Len(Tail(MSHR)) <= MSHR_SIZE
  BY <1>3, <1>5, Constants DEF WalkerInv
<1>7. HeldOnce(RQ, Tail(MSHR), stlb \ {m.v_address})
  BY <1>1, <1>3, HeldTail DEF WalkerInv
<1>8. /\ QueueOK(RQ', rq_ready') /\ RQ' = RQ /\ warmup_complete' \in BOOLEAN
      /\ pc' \in {"idle", "fill", "read"} /\ budget' \in 0 .. MAX_READ + MAX_FILL
  BY <1>2, SpendKeeps
<1>9. CachesOK(block', page_table') /\ lower' \in [Blocks -> 0 .. 2]
  BY <1>2, <1>4 DEF WalkerInv
<1>10. WalksOK(MSHR', page_table') /\ Len(MSHR') <= MSHR_SIZE /\ HeldOnce(RQ', MSHR', stlb')
  BY <1>2, <1>4, <1>5, <1>6, <1>7, <1>8
<1> QED
  BY <1>4, <1>8, <1>9, <1>10 DEF WalkerInv

(* Both minor faults delay the front and change nothing else of the list.  *)
LEMMA FaultedKeeps ==
  ASSUME WalkerInv, FillDue
  PROVE  /\ WalksOK(Faulted(MSHR), page_table) /\ Len(Faulted(MSHR)) <= MSHR_SIZE
         /\ HeldOnce(RQ, Faulted(MSHR), stlb)
<1>1. MSHR \in Seq(Walk) /\ MSHR # << >> /\ WalksOK(MSHR, page_table) /\ Len(MSHR) <= MSHR_SIZE
  BY FrontDue DEF WalkerInv
<1>2. Reordered(MSHR, Faulted(MSHR)) /\ Sorted(Faulted(MSHR))
  BY <1>1, FaultKeeps
<1>3. WalksOK(Faulted(MSHR), page_table) /\ Len(Faulted(MSHR)) = Len(MSHR)
  BY <1>1, <1>2, ReorderWalks
<1>4. HeldOnce(RQ, Faulted(MSHR), stlb)
  BY <1>1, <1>2, HeldReorder DEF WalkerInv
<1> QED
  BY <1>1, <1>3, <1>4

LEMMA FillDataFaultKeeps == WalkerInv /\ FillDataFault => WalkerInv'
<1> SUFFICES ASSUME WalkerInv, FillDataFault  PROVE WalkerInv'
  OBVIOUS
<1>1. PICK m : m = Head(MSHR)
  OBVIOUS
<1>2. /\ FillDue /\ Spend /\ va_to_pa(m.v_address)
      /\ MSHR' = Faulted(MSHR) /\ UNCHANGED <<block, lower, stlb>>
  BY <1>1 DEF FillDataFault
<1>3. m.v_address \in VPages
  BY <1>1, <1>2, FrontDue
<1>4. VMemInv' /\ UNCHANGED <<page_table, next_pte_page>> /\ TablesOK(page_table', next_pte_page')
  BY <1>2, <1>3, MapKeeps
<1>5. /\ WalksOK(Faulted(MSHR), page_table) /\ Len(Faulted(MSHR)) <= MSHR_SIZE
      /\ HeldOnce(RQ, Faulted(MSHR), stlb)
  BY <1>2, FaultedKeeps
<1>8. /\ QueueOK(RQ', rq_ready') /\ RQ' = RQ /\ warmup_complete' \in BOOLEAN
      /\ pc' \in {"idle", "fill", "read"} /\ budget' \in 0 .. MAX_READ + MAX_FILL
  BY <1>2, SpendKeeps
<1>9. CachesOK(block', page_table') /\ lower' \in [Blocks -> 0 .. 2]
  BY <1>2, <1>4 DEF WalkerInv
<1>10. WalksOK(MSHR', page_table') /\ Len(MSHR') <= MSHR_SIZE /\ HeldOnce(RQ', MSHR', stlb')
  BY <1>2, <1>4, <1>5, <1>8
<1> QED
  BY <1>4, <1>8, <1>9, <1>10 DEF WalkerInv

(* A table is looked up for a walk that is not at the leaf.                *)
LEMMA LookupKeeps ==
  ASSUME WalkerInv, NEW m \in Walk, m.level > 0, get_pte_pa(m.v_address, m.level)
  PROVE  /\ VMemInv' /\ TablesOK(page_table', next_pte_page') /\ Grows(page_table, page_table')
         /\ TableKey(m.v_address, m.level) \in DOMAIN page_table'
         /\ page_table'[TableKey(m.v_address, m.level)] = PtePage(m.v_address, m.level)
         /\ PtePage(m.v_address, m.level) \in Pages
         /\ CachesOK(block, page_table') /\ WalksOK(MSHR, page_table')
<1>1. m.v_address \in VPages /\ m.level \in 1 .. pt_levels - 1
  BY WalkFields, Constants
<1>2. VMemInv'
  BY <1>1, TableStep DEF WalkerInv
<1>3. /\ TablesOK(page_table', next_pte_page') /\ Grows(page_table, page_table')
      /\ TableKey(m.v_address, m.level) \in DOMAIN page_table'
      /\ page_table'[TableKey(m.v_address, m.level)] = PtePage(m.v_address, m.level)
      /\ PtePage(m.v_address, m.level) \in Pages
  BY <1>1, TableMade DEF WalkerInv
<1>4. CachesOK(block, page_table') /\ WalksOK(MSHR, page_table')
  BY <1>3, GrowsKeeps DEF WalkerInv
<1> QED
  BY <1>2, <1>3, <1>4

LEMMA FillPteFaultKeeps == WalkerInv /\ FillPteFault => WalkerInv'
<1> SUFFICES ASSUME WalkerInv, FillPteFault  PROVE WalkerInv'
  OBVIOUS
<1>1. PICK m : m = Head(MSHR)
  OBVIOUS
<1>2. /\ FillDue /\ Spend /\ get_pte_pa(m.v_address, m.level) /\ m.level > 0
      /\ MSHR' = Faulted(MSHR) /\ UNCHANGED <<block, lower, stlb>>
  BY <1>1 DEF FillPteFault
<1>3. m \in Walk
  BY <1>1, <1>2, FrontDue
<1>4. /\ VMemInv' /\ TablesOK(page_table', next_pte_page') /\ CachesOK(block, page_table')
      /\ Grows(page_table, page_table')
  BY <1>2, <1>3, LookupKeeps
<1>5. /\ WalksOK(Faulted(MSHR), page_table) /\ Len(Faulted(MSHR)) <= MSHR_SIZE
      /\ HeldOnce(RQ, Faulted(MSHR), stlb)
  BY <1>2, FaultedKeeps
<1>6. WalksOK(Faulted(MSHR), page_table')
  BY <1>4, <1>5, GrowsKeeps
<1>8. /\ QueueOK(RQ', rq_ready') /\ RQ' = RQ /\ warmup_complete' \in BOOLEAN
      /\ pc' \in {"idle", "fill", "read"} /\ budget' \in 0 .. MAX_READ + MAX_FILL
  BY <1>2, SpendKeeps
<1>9. CachesOK(block', page_table') /\ lower' \in [Blocks -> 0 .. 2]
  BY <1>2, <1>4 DEF WalkerInv
<1>10. WalksOK(MSHR', page_table') /\ Len(MSHR') <= MSHR_SIZE /\ HeldOnce(RQ', MSHR', stlb')
  BY <1>2, <1>5, <1>6, <1>8
<1> QED
  BY <1>4, <1>8, <1>9, <1>10 DEF WalkerInv

(* One level down: the caches are filled and the walk reads the table that *)
(* was looked up.                                                          *)
LEMMA FillNextLevelKeeps == WalkerInv /\ FillNextLevel => WalkerInv'
<1> SUFFICES ASSUME WalkerInv, FillNextLevel  PROVE WalkerInv'
  OBVIOUS
<1>1. PICK m, a : m = Head(MSHR) /\ a = NextEntry(m)
  OBVIOUS
<1>2. PICK n : n = [m EXCEPT !.event = NEVER, !.address = a, !.level = m.level - 1]
  OBVIOUS
<1>3. /\ FillDue /\ Spend /\ get_pte_pa(m.v_address, m.level) /\ m.level > 0
      /\ FillCaches(m, a.page) /\ Accept(a, Tail(MSHR), n) /\ stlb' = stlb
  BY <1>1, <1>2 DEF FillNextLevel
<1>4. m \in Walk /\ MSHR \in Seq(Walk) /\ MSHR # << >>
  BY <1>1, <1>3, FrontDue
<1>5. m.v_address \in VPages /\ m.level \in 0 .. pt_levels - 1 /\ m.init \in 0 .. pt_levels - 1
  BY <1>4, WalkFields
<1>6. a = [page |-> PtePage(m.v_address, m.level), off |-> m.v_address[m.level]]
  BY <1>1 DEF NextEntry, get_offset
<1>7. /\ VMemInv' /\ TablesOK(page_table', next_pte_page') /\ Grows(page_table, page_table')
      /\ TableKey(m.v_address, m.level) \in DOMAIN page_table'
      /\ page_table'[TableKey(m.v_address, m.level)] = PtePage(m.v_address, m.level)
      /\ PtePage(m.v_address, m.level) \in Pages
      /\ CachesOK(block, page_table') /\ WalksOK(MSHR, page_table')
  BY <1>3, <1>4, LookupKeeps
<1>8. a.page = PtePage(m.v_address, m.level) /\ a \in Address
  BY <1>5, <1>6, <1>7, PageOffsets DEF Address
<1>9. CachesOK(block', page_table')
  BY <1>3, <1>4, <1>7, <1>8, FillCachesKeeps
<1>10. /\ n \in Walk /\ n.event = NEVER /\ n.v_address = m.v_address
       /\ n.level = m.level - 1 /\ n.address = a
  <2>1. NEVER \in PAST .. NEVER /\ m.level - 1 \in 0 .. pt_levels - 1
    BY <1>3, <1>5, Constants
  <2> QED
    BY <1>2, <1>4, <1>8, <2>1 DEF Walk
<1>11. ReadsOwn(n, page_table')
  <2>1. n.level # pt_levels - 1 /\ n.level + 1 = m.level
    BY <1>5, <1>10, Constants
  <2> QED
    BY <1>6, <1>7, <1>10, <2>1 DEF ReadsOwn
<1>12. WalksOK(Tail(MSHR), page_table') /\ Len(Tail(MSHR)) = Len(MSHR) - 1
  BY <1>4, <1>7, TailWalks
<1>13. HeldOnce(RQ, Tail(MSHR), stlb \ {m.v_address}) /\ m.v_address \in stlb
  BY <1>1, <1>4, HeldTail DEF WalkerInv
<1>14. PICK w : w = stlb \ {m.v_address}
  OBVIOUS
<1>15. lower \in [Blocks -> 0 .. 2]
  BY DEF WalkerInv
<1>16. HeldOnce(RQ, Tail(MSHR), w) /\ n.v_address \notin w /\ w \cup {n.v_address} = stlb
  BY <1>10, <1>13, <1>14
<1>17. /\ WalksOK(MSHR', page_table') /\ Len(MSHR') = Len(Tail(MSHR)) + 1
       /\ lower' \in [Blocks -> 0 .. 2] /\ HeldOnce(RQ, MSHR', w \cup {n.v_address})
  BY <1>3, <1>8, <1>10, <1>11, <1>12, <1>15, <1>16, AcceptKeeps
<1>18. Len(MSHR') <= MSHR_SIZE
  BY <1>4, <1>12, <1>17, Constants DEF WalkerInv
<1>19. /\ QueueOK(RQ', rq_ready') /\ RQ' = RQ /\ warmup_complete' \in BOOLEAN
      /\ pc' \in {"idle", "fill", "read"} /\ budget' \in 0 .. MAX_READ + MAX_FILL
  BY <1>3, SpendKeeps
<1>20. HeldOnce(RQ', MSHR', stlb')
  BY <1>3, <1>16, <1>17, <1>19
<1> QED
  BY <1>7, <1>9, <1>17, <1>18, <1>19, <1>20 DEF WalkerInv

LEMMA FillRefusedKeeps == WalkerInv /\ FillRefused => WalkerInv'
<1> SUFFICES ASSUME WalkerInv, FillRefused  PROVE WalkerInv'
  OBVIOUS
<1>1. PICK m, a : m = Head(MSHR) /\ a = NextEntry(m)
  OBVIOUS
<1>3. /\ FillDue /\ Spend /\ get_pte_pa(m.v_address, m.level) /\ m.level > 0
      /\ FillCaches(m, a.page) /\ UNCHANGED <<MSHR, lower, stlb>>
  BY <1>1 DEF FillRefused
<1>4. m \in Walk
  BY <1>1, <1>3, FrontDue
<1>5. /\ VMemInv' /\ TablesOK(page_table', next_pte_page')
      /\ TableKey(m.v_address, m.level) \in DOMAIN page_table'
      /\ page_table'[TableKey(m.v_address, m.level)] = PtePage(m.v_address, m.level)
      /\ PtePage(m.v_address, m.level) \in Pages
      /\ CachesOK(block, page_table') /\ WalksOK(MSHR, page_table')
  BY <1>3, <1>4, LookupKeeps
<1>6. a.page = PtePage(m.v_address, m.level)
  BY <1>1 DEF NextEntry
<1>7. CachesOK(block', page_table')
  BY <1>3, <1>4, <1>5, <1>6, FillCachesKeeps
<1>8. /\ QueueOK(RQ', rq_ready') /\ RQ' = RQ /\ warmup_complete' \in BOOLEAN
      /\ pc' \in {"idle", "fill", "read"} /\ budget' \in 0 .. MAX_READ + MAX_FILL
  BY <1>3, SpendKeeps
<1>9. /\ WalksOK(MSHR', page_table') /\ Len(MSHR') <= MSHR_SIZE /\ HeldOnce(RQ', MSHR', stlb')
      /\ lower' \in [Blocks -> 0 .. 2]
  BY <1>3, <1>5, <1>8 DEF WalkerInv
<1> QED
  BY <1>5, <1>7, <1>8, <1>9 DEF WalkerInv

(* A walk is started: out of the queue, into the list.                     *)
LEMMA ReadStartKeeps == WalkerInv /\ ReadStart => WalkerInv'
<1> SUFFICES ASSUME WalkerInv, ReadStart  PROVE WalkerInv'
  OBVIOUS
<1>1. PICK v : v = Head(RQ).item
  OBVIOUS
<1>2. PICK m, a : m = Started(v) /\ a = WalkStart(v).address
  OBVIOUS
<1>3. /\ ReadDue /\ Accept(a, MSHR, m) /\ ReadQueue!Pop /\ budget' = budget - 1
      /\ UNCHANGED <<vmemVars, block, pc, warmup_complete, stlb>>
  BY <1>1, <1>2 DEF ReadStart, Started
<1>4. /\ QueueOK(RQ', rq_ready') /\ RQ' = Tail(RQ)
      /\ RQ \in Seq(Request) /\ RQ # << >> /\ v \in VPages
  BY <1>1, <1>3, QueuePop DEF WalkerInv
<1>5. UNCHANGED <<vpage_to_ppage_map, page_table, next_pte_page, ppage_free_list>>
  BY <1>3 DEF vmemVars
<1>6. m \in Walk /\ a \in Address /\ (ReadsOwn(m, page_table) \/ FromPSCL3(m))
  BY <1>2, <1>4, StartOK DEF WalkerInv
<1>7. m.event = NEVER /\ m.v_address = v
  BY <1>2 DEF Started
<1>8. HeldOnce(Tail(RQ), MSHR, stlb \ {v}) /\ v \in stlb
  BY <1>1, <1>4, HeldPop DEF WalkerInv
<1>9. PICK q, w : q = Tail(RQ) /\ w = stlb \ {v}
  OBVIOUS
<1>10. HeldOnce(q, MSHR, w) /\ m.v_address \notin w /\ w \cup {m.v_address} = stlb
  BY <1>7, <1>8, <1>9
<1>11. /\ WalksOK(MSHR', page_table) /\ Len(MSHR') = Len(MSHR) + 1
       /\ lower' \in [Blocks -> 0 .. 2] /\ HeldOnce(q, MSHR', w \cup {m.v_address})
  <2>1. WalksOK(MSHR, page_table) /\ lower \in [Blocks -> 0 .. 2]
    BY DEF WalkerInv
  <2> QED
    BY <1>3, <1>6, <1>7, <1>10, <2>1, AcceptKeeps
<1>12. Len(MSHR') <= MSHR_SIZE
  <2>1. Len(MSHR) # MSHR_SIZE /\ Len(MSHR) <= MSHR_SIZE /\ MSHR \in Seq(Walk)
    BY <1>3 DEF ReadDue, WalkerInv, WalksOK
  <2> QED
    BY <1>11, <2>1, Constants
<1>13. budget' \in 0 .. MAX_READ + MAX_FILL
  <2>1. budget \in 0 .. MAX_READ + MAX_FILL /\ budget > 0
    BY <1>3 DEF WalkerInv, ReadDue
  <2> QED
    BY <1>3, <2>1, Constants
<1>14. VMemInv'
  BY <1>5 DEF WalkerInv, VMemInv, TableInv, RoomInv, FrameInv
<1>15. HeldOnce(RQ', MSHR', stlb')
  BY <1>3, <1>4, <1>9, <1>10, <1>11
<1>16. /\ TablesOK(page_table', next_pte_page') /\ CachesOK(block', page_table')
       /\ WalksOK(MSHR', page_table')
       /\ warmup_complete' \in BOOLEAN /\ pc' \in {"idle", "fill", "read"}
  BY <1>3, <1>5, <1>11 DEF WalkerInv
<1> QED
  BY <1>4, <1>11, <1>12, <1>13, <1>14, <1>15, <1>16 DEF WalkerInv

LEMMA EndCycleKeeps == WalkerInv /\ EndCycle => WalkerInv'
<1> SUFFICES ASSUME WalkerInv, EndCycle  PROVE WalkerInv'
  OBVIOUS
<1>1. /\ ReadQueue!Tick /\ MSHR' = CountDown(MSHR) /\ pc' = "idle" /\ budget' = 0
      /\ UNCHANGED <<vmemVars, block, warmup_complete, lower, stlb>>
  BY DEF EndCycle, CountDown
<1>2. UNCHANGED <<vpage_to_ppage_map, page_table, next_pte_page, ppage_free_list>>
  BY <1>1 DEF vmemVars
<1>3. MSHR \in Seq(Walk) /\ Sorted(MSHR) /\ WalksOK(MSHR, page_table)
  BY DEF WalkerInv, WalksOK
<1>4. Reordered(MSHR, CountDown(MSHR)) /\ Sorted(CountDown(MSHR))
  BY <1>3, CountDownKeeps
<1>5. WalksOK(CountDown(MSHR), page_table) /\ Len(CountDown(MSHR)) = Len(MSHR)
  BY <1>3, <1>4, ReorderWalks
<1>6. HeldOnce(RQ, CountDown(MSHR), stlb)
  BY <1>3, <1>4, HeldReorder DEF WalkerInv
<1>7. QueueOK(RQ', rq_ready') /\ HeldOnce(RQ', CountDown(MSHR), stlb)
  BY <1>1, <1>6, QueueTick DEF WalkerInv
<1>8. 0 \in 0 .. MAX_READ + MAX_FILL
  BY Constants
<1>9. VMemInv'
  BY <1>2 DEF WalkerInv, VMemInv, TableInv, RoomInv, FrameInv
<1>10. WalksOK(MSHR', page_table') /\ Len(MSHR') <= MSHR_SIZE /\ HeldOnce(RQ', MSHR', stlb')
  BY <1>1, <1>2, <1>5, <1>7 DEF WalkerInv
<1>11. /\ TablesOK(page_table', next_pte_page') /\ CachesOK(block', page_table')
       /\ warmup_complete' \in BOOLEAN /\ pc' \in {"idle", "fill", "read"}
       /\ lower' \in [Blocks -> 0 .. 2] /\ budget' \in 0 .. MAX_READ + MAX_FILL
  BY <1>1, <1>2, <1>8 DEF WalkerInv
<1> QED
  BY <1>7, <1>9, <1>10, <1>11 DEF WalkerInv

LEMMA AddRqKeeps == ASSUME WalkerInv, NEW v \in VPages, add_rq(v)  PROVE WalkerInv'
<1>1. /\ v \notin stlb /\ ReadQueue!Push(v, Latency) /\ stlb' = stlb \cup {v}
      /\ UNCHANGED <<vmemVars, block, MSHR, warmup_complete, pc, budget, lower>>
  BY DEF add_rq
<1>2. UNCHANGED <<vpage_to_ppage_map, page_table, next_pte_page, ppage_free_list>>
  BY <1>1 DEF vmemVars
<1>3. /\ QueueOK(RQ', rq_ready') /\ RQ' = Append(RQ, [item |-> v, delay |-> Latency])
      /\ RQ \in Seq(Request)
  BY <1>1, QueuePush DEF WalkerInv
<1>4. HeldOnce(Append(RQ, [item |-> v, delay |-> Latency]), MSHR, stlb \cup {v})
  BY <1>1, <1>3, HeldPush DEF WalkerInv
<1>5. VMemInv'
  BY <1>2 DEF WalkerInv, VMemInv, TableInv, RoomInv, FrameInv
<1>6. HeldOnce(RQ', MSHR', stlb')
  BY <1>1, <1>3, <1>4
<1>7. /\ TablesOK(page_table', next_pte_page') /\ CachesOK(block', page_table')
      /\ WalksOK(MSHR', page_table') /\ Len(MSHR') <= MSHR_SIZE
      /\ warmup_complete' \in BOOLEAN /\ pc' \in {"idle", "fill", "read"}
      /\ lower' \in [Blocks -> 0 .. 2] /\ budget' \in 0 .. MAX_READ + MAX_FILL
  BY <1>1, <1>2 DEF WalkerInv
<1> QED
  BY <1>3, <1>5, <1>6, <1>7 DEF WalkerInv

LEMMA LowerReturnsKeeps == ASSUME WalkerInv, NEW b \in Blocks, LowerReturns(b)  PROVE WalkerInv'
<1>1. /\ lower[b] > 0 /\ lower' = [lower EXCEPT ![b] = @ - 1] /\ MSHR' = return_data(MSHR, b)
      /\ UNCHANGED <<vmemVars, block, queueVars, warmup_complete, pc, budget, stlb>>
  BY DEF LowerReturns
<1>2. UNCHANGED <<vpage_to_ppage_map, page_table, next_pte_page, ppage_free_list, RQ, rq_ready>>
  BY <1>1 DEF vmemVars, queueVars
<1>3. MSHR \in Seq(Walk) /\ WalksOK(MSHR, page_table)
  BY DEF WalkerInv, WalksOK
<1>4. Reordered(MSHR, MSHR') /\ Sorted(MSHR')
  BY <1>1, <1>3, ReturnKeeps
<1>5. WalksOK(MSHR', page_table) /\ Len(MSHR') = Len(MSHR)
  BY <1>3, <1>4, ReorderWalks
<1>6. HeldOnce(RQ, MSHR', stlb)
  BY <1>3, <1>4, HeldReorder DEF WalkerInv
<1>7. lower' \in [Blocks -> 0 .. 2]
  <2>1. lower \in [Blocks -> 0 .. 2]
    BY DEF WalkerInv
  <2> QED
    BY <1>1, <2>1
<1>8. VMemInv'
  BY <1>2 DEF WalkerInv, VMemInv, TableInv, RoomInv, FrameInv
<1>9. /\ TablesOK(page_table', next_pte_page') /\ CachesOK(block', page_table')
      /\ QueueOK(RQ', rq_ready')
      /\ WalksOK(MSHR', page_table') /\ Len(MSHR') <= MSHR_SIZE /\ HeldOnce(RQ', MSHR', stlb')
      /\ warmup_complete' \in BOOLEAN /\ pc' \in {"idle", "fill", "read"}
      /\ budget' \in 0 .. MAX_READ + MAX_FILL
  BY <1>1, <1>2, <1>5, <1>6 DEF WalkerInv
<1> QED
  BY <1>7, <1>8, <1>9 DEF WalkerInv

LEMMA WalkerStep == WalkerInv /\ [Next]_vars => WalkerInv'
<1> SUFFICES ASSUME WalkerInv, [Next]_vars  PROVE WalkerInv'
  OBVIOUS
<1>1. CASE /\ UNCHANGED <<vmemVars, block, queueVars, MSHR, lower, stlb>>
           /\ warmup_complete' \in BOOLEAN /\ pc' \in {"idle", "fill", "read"}
           /\ budget' \in 0 .. MAX_READ + MAX_FILL
  <2>1. /\ UNCHANGED <<vpage_to_ppage_map, page_table, next_pte_page, ppage_free_list>>
        /\ UNCHANGED <<block, RQ, rq_ready, MSHR, lower, stlb>>
    BY <1>1 DEF vmemVars, queueVars
  <2>2. VMemInv'
    BY <2>1 DEF WalkerInv, VMemInv, TableInv, RoomInv, FrameInv
  <2> QED
    BY <1>1, <2>1, <2>2 DEF WalkerInv
<1>2. CASE FillAnswer
  BY <1>2, FillAnswerKeeps
<1>3. CASE FillDataFault
  BY <1>3, FillDataFaultKeeps
<1>4. CASE FillPteFault
  BY <1>4, FillPteFaultKeeps
<1>5. CASE FillNextLevel
  BY <1>5, FillNextLevelKeeps
<1>6. CASE FillRefused
  BY <1>6, FillRefusedKeeps
<1>7. CASE ReadStart
  BY <1>7, ReadStartKeeps
<1>8. CASE ReadRefused \/ ReadDone
  BY <1>8, EndCycleKeeps DEF ReadRefused, ReadDone
<1>9. CASE StartCycle \/ FillDone \/ CompleteWarmup \/ UNCHANGED vars
  <2>0. /\ MAX_READ \in 0 .. MAX_READ + MAX_FILL /\ MAX_FILL \in 0 .. MAX_READ + MAX_FILL
        /\ pc \in {"idle", "fill", "read"} /\ budget \in 0 .. MAX_READ + MAX_FILL
        /\ warmup_complete \in BOOLEAN
    BY Constants DEF WalkerInv
  <2>1. /\ UNCHANGED <<vmemVars, block, queueVars, MSHR, lower, stlb>>
        /\ warmup_complete' \in BOOLEAN /\ pc' \in {"idle", "fill", "read"}
        /\ budget' \in 0 .. MAX_READ + MAX_FILL
    BY <1>9, <2>0 DEF StartCycle, FillDone, CompleteWarmup, vars
  <2> QED
    BY <1>1, <2>1
<1>10. CASE \E v \in VPages : add_rq(v)
  BY <1>10, AddRqKeeps
<1>11. CASE \E b \in Blocks : LowerReturns(b)
  BY <1>11, LowerReturnsKeeps
<1> QED
  BY <1>2, <1>3, <1>4, <1>5, <1>6, <1>7, <1>8, <1>9, <1>10, <1>11 DEF Next, Operate

(* The invariant of the walker and of the memory it uses.                  *)
THEOREM WalkerInvariant == Spec => []WalkerInv
  BY WalkerInit, WalkerStep, PTL DEF Spec

LEMMA InvType == ASSUME WalkerInv  PROVE TypeOK
<1>1. DOMAIN vpage_to_ppage_map \subseteq VPages
  BY DEF WalkerInv, VMemInv, RoomInv
<1>2. \A k \in DOMAIN page_table : page_table[k] \in Pages
  BY TablePages DEF WalkerInv
<1>3. stlb \subseteq VPages
  <2>1. Walked(MSHR) \subseteq VPages
    BY WalkFields DEF WalkerInv, WalksOK, Walked
  <2>2. RQ \in Seq(Request)
    BY DEF WalkerInv, QueueOK, Request
  <2>3. \A i \in DOMAIN RQ : RQ[i] \in Request
    BY <2>2
  <2>4. Asked(RQ) \subseteq VPages
    BY <2>3 DEF Asked, Request
  <2> QED
    BY <2>1, <2>4 DEF WalkerInv, HeldOnce
<1>4. MSHR \in Seq(Walk) /\ Len(MSHR) <= MSHR_SIZE
  BY DEF WalkerInv, WalksOK
<1> QED
  BY <1>1, <1>2, <1>3, <1>4 DEF WalkerInv, QueueOK, Walk, TypeOK

(* The queue, the list of walks, the tables and the counters of the L1D    *)
(* keep their types for any page table depth and any sizes (ptw.cc).       *)
THEOREM TypeCorrect == Spec => []TypeOK
<1>1. WalkerInv => TypeOK
  BY InvType
<1> QED
  BY <1>1, WalkerInvariant, PTL

(* The list of walks stays ordered by the cycle at which they are due,     *)
(* whatever returns and faults come (return_data, handle_fill).            *)
THEOREM InOrder == Spec => []MshrSorted
<1>1. WalkerInv => MshrSorted
  BY DEF WalkerInv, WalksOK, Sorted, MshrSorted
<1> QED
  BY <1>1, WalkerInvariant, PTL

LEMMA InvPath == ASSUME WalkerInv  PROVE WalkOnPath
<1> SUFFICES ASSUME NEW i \in DOMAIN MSHR
             PROVE  OnPath(MSHR[i]) \/ (MSHR[i].level = MSHR[i].init /\ MSHR[i].init = PSCL3 - 1)
  BY DEF WalkOnPath
<1>1. PICK m : m = MSHR[i]
  OBVIOUS
<1>2. ReadsOwn(m, page_table) \/ FromPSCL3(m)
  BY <1>1 DEF WalkerInv, WalksOK
<1>3. ReadsOwn(m, page_table) => OnPath(m)
  BY DEF ReadsOwn, OnPath, get_offset, PtePage, pte_fault
<1> QED
  BY <1>1, <1>2, <1>3 DEF FromPSCL3

(* A walk reads an entry of its own tables, or it is the first read of one *)
(* that started from PSCL3 (handle_read, handle_fill).                     *)
THEOREM OwnPath == Spec => []WalkOnPath
<1>1. WalkerInv => WalkOnPath
  BY InvPath
<1> QED
  BY <1>1, WalkerInvariant, PTL

LEMMA InvHeld == ASSUME WalkerInv  PROVE EachPageOnce
<1>1. PICK q, s : q = [i \in DOMAIN RQ |-> RQ[i].item] /\ s = [i \in DOMAIN MSHR |-> MSHR[i].v_address]
  OBVIOUS
<1>2. RQ \in Seq(Request) /\ MSHR \in Seq(Walk) /\ HeldOnce(RQ, MSHR, stlb)
  BY DEF WalkerInv, QueueOK, WalksOK, Request
<1>3. PICK m, n \in Nat : DOMAIN RQ = 1 .. m /\ DOMAIN MSHR = 1 .. n
  BY <1>2
<1>4. q \in Seq(VPages) /\ Len(q) = m
  <2>1. \A i \in 1 .. m : RQ[i] \in Request
    BY <1>2, <1>3
  <2>2. q \in [1 .. m -> VPages]
    BY <1>1, <1>3, <2>1 DEF Request
  <2> QED
    BY <1>3, <2>2
<1>5. s \in Seq(VPages) /\ Len(s) = n
  <2>1. \A i \in 1 .. n : MSHR[i] \in Walk
    BY <1>2, <1>3
  <2>2. s \in [1 .. n -> VPages]
    BY <1>1, <1>3, <2>1 DEF Walk
  <2> QED
    BY <1>3, <2>2
<1>6. PICK h : h = q \o s
  OBVIOUS
<1>7. /\ Len(h) = m + n /\ DOMAIN h = 1 .. m + n
      /\ \A i \in 1 .. m + n : h[i] = IF i <= m THEN q[i] ELSE s[i - m]
  BY <1>3, <1>4, <1>5, <1>6
<1>8. \A i \in 1 .. m : h[i] = RQ[i].item
  <2> SUFFICES ASSUME NEW i \in 1 .. m  PROVE h[i] = RQ[i].item
    OBVIOUS
  <2>1. i \in 1 .. m + n /\ i <= m
    BY <1>3
  <2> QED
    BY <1>1, <1>3, <1>7, <2>1
<1>8a. \A i \in m + 1 .. m + n : i - m \in 1 .. n /\ h[i] = MSHR[i - m].v_address
  <2> SUFFICES ASSUME NEW i \in m + 1 .. m + n  PROVE i - m \in 1 .. n /\ h[i] = MSHR[i - m].v_address
    OBVIOUS
  <2>1. i \in 1 .. m + n /\ ~ (i <= m) /\ i - m \in 1 .. n
    BY <1>3
  <2>2. h[i] = s[i - m]
    BY <1>7, <2>1
  <2> QED
    BY <1>1, <1>3, <2>1, <2>2
<1>9. Asked(RQ) = {h[i] : i \in 1 .. m}
  BY <1>3, <1>8 DEF Asked
<1>10. Walked(MSHR) = {h[i] : i \in m + 1 .. m + n}
  <2>1. ASSUME NEW j \in 1 .. n  PROVE \E i \in m + 1 .. m + n : h[i] = MSHR[j].v_address
    <3>1. j + m \in m + 1 .. m + n /\ (j + m) - m = j
      BY <1>3
    <3> QED
      BY <1>8a, <3>1
  <2>2. Walked(MSHR) = {MSHR[j].v_address : j \in 1 .. n}
    BY <1>3 DEF Walked
  <2>3. {h[i] : i \in m + 1 .. m + n} \subseteq {MSHR[j].v_address : j \in 1 .. n}
    BY <1>8a
  <2>4. {MSHR[j].v_address : j \in 1 .. n} \subseteq {h[i] : i \in m + 1 .. m + n}
    BY <2>1
  <2> QED
    BY <2>2, <2>3, <2>4
<1>11. \A i, j \in 1 .. m + n : h[i] = h[j] => i = j
  <2> SUFFICES ASSUME NEW i \in 1 .. m + n, NEW j \in 1 .. m + n, h[i] = h[j]  PROVE i = j
    OBVIOUS
  <2>1. CASE i \in 1 .. m /\ j \in 1 .. m
    BY <1>2, <1>3, <1>8, <2>1 DEF HeldOnce
  <2>2. CASE i \in m + 1 .. m + n /\ j \in m + 1 .. m + n
    <3>1. i - m = j - m
      BY <1>2, <1>3, <1>8a, <2>2 DEF HeldOnce
    <3> QED
      BY <1>3, <2>2, <3>1
  <2>3. CASE i \in 1 .. m /\ j \in m + 1 .. m + n
    <3>1. h[i] \in Asked(RQ) /\ h[j] \in Walked(MSHR)
      BY <1>9, <1>10, <2>3
    <3> QED
      BY <1>2, <3>1 DEF HeldOnce
  <2>4. CASE j \in 1 .. m /\ i \in m + 1 .. m + n
    <3>1. h[j] \in Asked(RQ) /\ h[i] \in Walked(MSHR)
      BY <1>9, <1>10, <2>4
    <3> QED
      BY <1>2, <3>1 DEF HeldOnce
  <2> QED
    BY <1>3, <2>1, <2>2, <2>3, <2>4
<1>12. stlb = Asked(RQ) \cup Walked(MSHR)
  BY <1>2 DEF HeldOnce
<1>13. {h[i] : i \in 1 .. m + n} = stlb
  <2>1. ASSUME NEW i \in 1 .. m + n  PROVE i \in 1 .. m \/ i \in m + 1 .. m + n
    BY <1>3
  <2>2. 1 .. m \subseteq 1 .. m + n /\ m + 1 .. m + n \subseteq 1 .. m + n
    BY <1>3
  <2> QED
    BY <1>9, <1>10, <1>12, <2>1, <2>2
<1>14. ExistsBijection(1 .. m + n, stlb)
  <2>1. PICK f : f = [i \in 1 .. m + n |-> h[i]]
    OBVIOUS
  <2>2. f \in [1 .. m + n -> stlb] /\ \A x \in stlb : \E i \in 1 .. m + n : f[i] = x
    BY <1>13, <2>1
  <2>3. \A i, j \in 1 .. m + n : f[i] = f[j] => i = j
    BY <1>11, <2>1
  <2>4. f \in Injection(1 .. m + n, stlb) /\ f \in Surjection(1 .. m + n, stlb)
    BY <2>2, <2>3 DEF Injection, IsInjective, Surjection
  <2> QED
    BY <2>4 DEF ExistsBijection, Bijection
<1>15. IsFiniteSet(1 .. m + n) /\ Cardinality(1 .. m + n) = m + n
  BY <1>3, FS_Interval
<1>16. Cardinality(stlb) = m + n
  BY <1>14, <1>15, FS_Bijection
<1> QED
  BY <1>1, <1>6, <1>7, <1>13, <1>16 DEF EachPageOnce

(* The read queue and the list of walks hold exactly the pages the STLB    *)
(* waits for, each once (add_rq, handle_read, handle_fill).                *)
THEOREM PagesHeld == Spec => []EachPageOnce
<1>1. WalkerInv => EachPageOnce
  BY InvHeld
<1> QED
  BY <1>1, WalkerInvariant, PTL

---------------------------------------------------------------------------
(* The walker over the memory.                                             *)

LEMMA StepUsesMemory == WalkerInv /\ [Next]_vars => [VMemNext]_vmemVars
<1> SUFFICES ASSUME WalkerInv, [Next]_vars  PROVE [VMemNext]_vmemVars
  OBVIOUS
<1>1. CASE FillAnswer \/ FillDataFault
  <2>1. FillDue /\ va_to_pa(Head(MSHR).v_address)
    BY <1>1 DEF FillAnswer, FillDataFault
  <2> QED
    BY <2>1, FrontDue DEF VMemNext
<1>2. CASE FillPteFault \/ FillNextLevel \/ FillRefused
  <2>1. FillDue /\ Head(MSHR).level > 0 /\ get_pte_pa(Head(MSHR).v_address, Head(MSHR).level)
    BY <1>2 DEF FillPteFault, FillNextLevel, FillRefused
  <2>2. Head(MSHR).v_address \in VPages /\ Head(MSHR).level \in 1 .. pt_levels - 1
    BY <2>1, FrontDue, Constants
  <2> QED
    BY <2>1, <2>2 DEF VMemNext
<1>3. CASE StartCycle \/ FillDone \/ ReadStart \/ ReadRefused \/ ReadDone \/ CompleteWarmup
  BY <1>3 DEF StartCycle, FillDone, ReadStart, ReadRefused, ReadDone, EndCycle, CompleteWarmup
<1>4. CASE (\E v \in VPages : add_rq(v)) \/ (\E b \in Blocks : LowerReturns(b)) \/ UNCHANGED vars
  BY <1>4 DEF add_rq, LowerReturns, vars
<1> QED
  BY <1>1, <1>2, <1>3, <1>4 DEF Next, Operate

(* What the walker does to the memory are lookups.                         *)
LEMMA OnlyLookups == Spec => VMemSpec
<1>1. Init => VMemInit
  BY DEF Init
<1> QED
  BY <1>1, StepUsesMemory, WalkerInvariant, PTL DEF Spec, VMemSpec

(* The pages the walker hands to the STLB and to tables are handed out     *)
(* once (handle_fill, va_to_pa, get_pte_pa).                               *)
THEOREM PagesDistinct == Spec => []MappingsInjective
  BY OnlyLookups, PagesGivenOnce, PTL

---------------------------------------------------------------------------
(* Walks that wait.  A page once given to data stays with it.              *)

LEMMA FramesGrow == [VMemNext]_vmemVars => DataFrames \subseteq DataFrames'
<1> SUFFICES ASSUME [VMemNext]_vmemVars  PROVE DataFrames \subseteq DataFrames'
  OBVIOUS
<1>1. CASE UNCHANGED vpage_to_ppage_map
  BY <1>1 DEF DataFrames
<1>2. ASSUME NEW v \in VPages, va_to_pa(v), va_fault(v)  PROVE DataFrames \subseteq DataFrames'
  <2>1. PICK x : x = Head(ppage_free_list)
    OBVIOUS
  <2>2. vpage_to_ppage_map' = [j \in DOMAIN vpage_to_ppage_map \cup {v} |->
                                 IF j = v THEN x ELSE vpage_to_ppage_map[j]]
    BY <1>2, <2>1 DEF va_to_pa, va_fault, Insert
  <2>3. \A j \in DOMAIN vpage_to_ppage_map :
          j \in DOMAIN vpage_to_ppage_map' /\ vpage_to_ppage_map'[j] = vpage_to_ppage_map[j]
    BY <1>2, <2>2 DEF va_fault
  <2> QED
    BY <2>3 DEF DataFrames
<1>3. ASSUME NEW v \in VPages, va_to_pa(v), ~ va_fault(v)  PROVE UNCHANGED vpage_to_ppage_map
  BY <1>3 DEF va_to_pa, va_fault, Insert
<1>4. ASSUME NEW v, NEW l, get_pte_pa(v, l)  PROVE UNCHANGED vpage_to_ppage_map
  BY <1>4 DEF get_pte_pa
<1>5. CASE UNCHANGED vmemVars
  BY <1>1, <1>5 DEF vmemVars
<1> QED
  BY <1>1, <1>2, <1>3, <1>4, <1>5 DEF VMemNext

(* A walk of s that waits has a read counted in f, or reads one of D.      *)
Awaited(s, f, D) ==
  \A i \in DOMAIN s :
    s[i].event = NEVER => f[BlockOf(s[i].address)] > 0 \/ s[i].address.page \in D

(* An answer leaves no walk of its block waiting.                          *)
LEMMA ReturnAwaited ==
  ASSUME NEW s \in Seq(Walk), NEW b, NEW f, NEW D, Awaited(s, f, D)
  PROVE  /\ return_data(s, b) \in Seq(Walk)
         /\ DOMAIN return_data(s, b) = DOMAIN s
         /\ Awaited(return_data(s, b), f, D)
         /\ \A k \in DOMAIN s : return_data(s, b)[k].event = NEVER =>
                                  BlockOf(return_data(s, b)[k].address) # b
<1>1. PICK r : r = return_data(s, b)
  OBVIOUS
<1>2. /\ r \in Seq(Walk) /\ DOMAIN r = DOMAIN s
      /\ \A k \in DOMAIN s : \E i \in DOMAIN s :
           r[k] = IF BlockOf(s[i].address) = b THEN [s[i] EXCEPT !.event = 0] ELSE s[i]
  BY <1>1, ReturnKeeps, ReorderedKeeps DEF Reordered
<1>3. 0 # NEVER /\ 0 \in PAST .. NEVER
  BY Constants
<1>4. ASSUME NEW k \in DOMAIN s, r[k].event = NEVER
      PROVE  /\ BlockOf(r[k].address) # b
             /\ f[BlockOf(r[k].address)] > 0 \/ r[k].address.page \in D
  <2>1. PICK i \in DOMAIN s :
           r[k] = IF BlockOf(s[i].address) = b THEN [s[i] EXCEPT !.event = 0] ELSE s[i]
    BY <1>2
  <2>2. s[i] \in Walk
    OBVIOUS
  <2>3. BlockOf(s[i].address) # b
    BY <1>3, <1>4, <2>1, <2>2, WalkFields
  <2>4. r[k] = s[i]
    BY <2>1, <2>3
  <2> QED
    BY <1>4, <2>3, <2>4 DEF Awaited
<1>5. Awaited(r, f, D)
  BY <1>2, <1>4 DEF Awaited
<1> QED
  BY <1>1, <1>2, <1>4, <1>5

(* A read that is taken is one to wait for, unless a store to the page it  *)
(* reads has answered it.                                                  *)
LEMMA AcceptAwaited ==
  ASSUME NEW s \in Seq(Walk), NEW m, NEW a \in Address, m.address = a,
         lower \in [Blocks -> 0 .. 2], Awaited(s, lower, DataFrames), Accept(a, s, m)
  PROVE  Awaited(MSHR', lower', DataFrames)
<1>1. BlockOf(a) \in Blocks /\ \A i \in DOMAIN s : BlockOf(s[i].address) \in Blocks
  BY BlocksAre, WalkFields
<1>2. CASE Forwarded(a) /\ MSHR' = Append(return_data(s, BlockOf(a)), m) /\ UNCHANGED lower
  <2>1. PICK r : r = return_data(s, BlockOf(a))
    OBVIOUS
  <2>2. /\ r \in Seq(Walk) /\ Awaited(r, lower, DataFrames)
    BY <1>1, <2>1, ReturnAwaited
  <2>3. /\ DOMAIN MSHR' = DOMAIN r \cup {Len(r) + 1}
        /\ MSHR'[Len(r) + 1] = m /\ \A i \in DOMAIN r : MSHR'[i] = r[i]
    BY <1>2, <2>1, <2>2
  <2>4. MSHR'[Len(r) + 1].address.page \in DataFrames
    BY <1>2, <2>3 DEF Forwarded
  <2> QED
    BY <1>2, <2>2, <2>3, <2>4 DEF Awaited
<1>3. ASSUME MSHR' = Append(s, m)
      PROVE  /\ DOMAIN MSHR' = DOMAIN s \cup {Len(s) + 1}
             /\ MSHR'[Len(s) + 1] = m /\ \A i \in DOMAIN s : MSHR'[i] = s[i]
  BY <1>3
<1>4. CASE MSHR' = Append(s, m) /\ UNCHANGED lower /\ lower[BlockOf(a)] > 0
  BY <1>3, <1>4 DEF Awaited
<1>5. CASE MSHR' = Append(s, m) /\ lower' = [lower EXCEPT ![BlockOf(a)] = @ + 1]
  <2>1. lower'[BlockOf(a)] > 0 /\ \A b \in Blocks : lower[b] > 0 => lower'[b] > 0
    BY <1>1, <1>5
  <2> QED
    BY <1>1, <1>3, <1>5, <2>1 DEF Awaited
<1> QED
  BY <1>2, <1>4, <1>5 DEF Accept

LEMMA AwaitedStep ==
  ASSUME WalkerInv, AwaitedOrShared, [Next]_vars
  PROVE  AwaitedOrShared'
<1>0. /\ MSHR \in Seq(Walk) /\ lower \in [Blocks -> 0 .. 2]
      /\ Awaited(MSHR, lower, DataFrames)
      /\ WalksOK(MSHR, page_table) /\ Sorted(MSHR)
  BY DEF WalkerInv, WalksOK, AwaitedOrShared, Awaited
<1>1. DataFrames \subseteq DataFrames'
  BY StepUsesMemory, FramesGrow
<1> SUFFICES Awaited(MSHR', lower', DataFrames)
  BY <1>1 DEF Awaited, AwaitedOrShared
<1>2. CASE UNCHANGED <<MSHR, lower>>
  BY <1>0, <1>2
<1>3. CASE FillAnswer
  <2>1. MSHR' = Tail(MSHR) /\ lower' = lower /\ MSHR # << >>
    BY <1>3 DEF FillAnswer, FillDue
  <2>2. \A i \in DOMAIN Tail(MSHR) : i + 1 \in DOMAIN MSHR /\ Tail(MSHR)[i] = MSHR[i + 1]
    BY <1>0, <2>1, TailWalks
  <2> QED
    BY <1>0, <2>1, <2>2 DEF Awaited
<1>4. CASE FillDataFault \/ FillPteFault
  <2>1. MSHR' = Faulted(MSHR) /\ lower' = lower /\ MSHR # << >>
    BY <1>4 DEF FillDataFault, FillPteFault, FillDue
  <2>2. /\ DOMAIN MSHR' = DOMAIN MSHR
        /\ \A k \in DOMAIN MSHR : MSHR'[k].event # NEVER \/ \E i \in DOMAIN MSHR : MSHR'[k] = MSHR[i]
    BY <1>0, <2>1, FaultKeeps, ReorderedKeeps
  <2> QED
    BY <1>0, <2>1, <2>2 DEF Awaited
<1>5. CASE FillNextLevel
  <2>1. PICK m, a, n : m = Head(MSHR) /\ a = NextEntry(m)
                    /\ n = [m EXCEPT !.event = NEVER, !.address = a, !.level = m.level - 1]
    OBVIOUS
  <2>2. /\ FillDue /\ get_pte_pa(m.v_address, m.level) /\ m.level > 0
        /\ Accept(a, Tail(MSHR), n)
    BY <1>5, <2>1 DEF FillNextLevel
  <2>3. m \in Walk /\ MSHR # << >>
    BY <2>1, <2>2, FrontDue
  <2>4. PtePage(m.v_address, m.level) \in Pages
    BY <2>2, <2>3, LookupKeeps
  <2>5. a \in Address
    BY <2>1, <2>3, <2>4, WalkFields, PageOffsets DEF NextEntry, Address, get_offset
  <2>6. n.address = a
    BY <2>1, <2>3 DEF Walk
  <2>7. PICK s : s = Tail(MSHR)
    OBVIOUS
  <2>8. /\ s \in Seq(Walk)
        /\ \A i \in DOMAIN s : i + 1 \in DOMAIN MSHR /\ s[i] = MSHR[i + 1]
    BY <1>0, <2>3, <2>7, TailWalks DEF WalksOK
  <2>9. Awaited(s, lower, DataFrames)
    BY <1>0, <2>8 DEF Awaited
  <2> QED
    BY <1>0, <2>2, <2>5, <2>6, <2>7, <2>8, <2>9, AcceptAwaited
<1>6. CASE ReadStart
  <2>1. PICK v : v = Head(RQ).item
    OBVIOUS
  <2>2. Accept(WalkStart(v).address, MSHR, Started(v)) /\ ReadQueue!Pop
    BY <1>6, <2>1 DEF ReadStart, Started
  <2>3. v \in VPages
    BY <2>1, <2>2, QueuePop DEF WalkerInv
  <2>4. WalkStart(v).address \in Address /\ Started(v).address = WalkStart(v).address
    BY <2>3, StartOK DEF WalkerInv, Started
  <2> QED
    BY <1>0, <2>2, <2>4, AcceptAwaited
<1>7. CASE EndCycle
  <2>1. MSHR' = CountDown(MSHR) /\ lower' = lower
    BY <1>7 DEF EndCycle, CountDown
  <2>2. /\ DOMAIN MSHR' = DOMAIN MSHR
        /\ \A k \in DOMAIN MSHR : /\ MSHR'[k].address = MSHR[k].address
                                  /\ MSHR'[k].event = NEVER => MSHR[k].event = NEVER
    BY <1>0, <2>1, CountDownKeeps, ReorderedKeeps
  <2> QED
    BY <1>0, <2>1, <2>2 DEF Awaited
<1>8. ASSUME NEW b \in Blocks, LowerReturns(b)  PROVE Awaited(MSHR', lower', DataFrames)
  <2>1. lower' = [lower EXCEPT ![b] = @ - 1] /\ MSHR' = return_data(MSHR, b)
    BY <1>8 DEF LowerReturns
  <2>2. /\ DOMAIN MSHR' = DOMAIN MSHR /\ Awaited(MSHR', lower, DataFrames)
        /\ \A k \in DOMAIN MSHR : MSHR'[k].event = NEVER => BlockOf(MSHR'[k].address) # b
        /\ MSHR' \in Seq(Walk)
    BY <1>0, <2>1, ReturnAwaited
  <2>3. \A k \in DOMAIN MSHR' : BlockOf(MSHR'[k].address) \in Blocks
    BY <2>2, BlocksAre, WalkFields
  <2>4. \A c \in Blocks : c # b => lower'[c] = lower[c]
    BY <1>0, <2>1
  <2> QED
    BY <2>2, <2>3, <2>4 DEF Awaited
<1>9. CASE \/ StartCycle \/ FillRefused \/ FillDone \/ CompleteWarmup \/ UNCHANGED vars
           \/ \E v \in VPages : add_rq(v)
  BY <1>2, <1>9 DEF StartCycle, FillRefused, FillDone, CompleteWarmup, vars, add_rq
<1> QED
  BY <1>3, <1>4, <1>5, <1>6, <1>7, <1>8, <1>9 DEF Next, Operate, ReadRefused, ReadDone

(* A walk waits in vain only at a table whose page went to data as well:   *)
(* every other walk that waits for the L1D has a read outstanding there    *)
(* (handle_read and handle_fill send the read before the walk is listed,   *)
(* add_rq may answer at once).                                             *)
THEOREM NoneInVain == Spec => []AwaitedOrShared
<1>1. Init => AwaitedOrShared
  BY DEF Init, AwaitedOrShared
<1>2. WalkerInv /\ AwaitedOrShared /\ [Next]_vars => AwaitedOrShared'
  BY AwaitedStep
<1> QED
  BY <1>1, <1>2, WalkerInvariant, PTL DEF Spec

=============================================================================
