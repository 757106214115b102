----------------------------- MODULE O3CpuProofs -----------------------------
(* The back end of the core, for every program, every size and width and     *)
(* every latency.  operate takes the state of the core through twelve        *)
(* stages; each is shown to keep the invariants.                             *)
EXTENDS O3Cpu, FiniteSetTheorems, SequenceTheorems, NaturalsInduction, WellFoundedInduction, TLAPS

Distinct(q) == \A i, j \in DOMAIN q : q[i] = q[j] => i = j

(* q holds exactly the members of S, each once.                              *)
Lists(q, S) == q \in Seq(S) /\ Distinct(q) /\ ToSet(q) = S /\ Len(q) = Cardinality(S)

-----------------------------------------------------------------------------
(* Sequences and sets.                                                       *)

LEMMA Spread ==
  ASSUME NEW S, NEW q \in Seq(S)
  PROVE  /\ DOMAIN q = 1 .. Len(q) /\ Len(q) \in Nat
         /\ ToSet(q) = {q[i] : i \in 1 .. Len(q)} /\ ToSet(q) \subseteq S
  BY DEF ToSet

(* Ordering a finite set by a strict total order lists it.                   *)
LEMMA ArrangedLists ==
  ASSUME NEW S, IsFiniteSet(S), NEW R,
         \A i \in S : <<i, i>> \notin R,
         \A i, j \in S : i # j => <<i, j>> \in R \/ <<j, i>> \in R,
         \A i, j, k \in S : <<i, j>> \in R /\ <<j, k>> \in R => <<i, k>> \in R
  PROVE  Lists(Arranged(S, R), S)
<1> DEFINE B(i) == {t \in S : <<t, i>> \in R}
           n == Cardinality(S)
           q == Arranged(S, R)
<1>0. n \in Nat
  BY FS_CardinalityType
<1>1. \A i \in S : B(i) \in SUBSET S /\ i \notin B(i)
  OBVIOUS
<1>2. \A i \in S : IsFiniteSet(B(i)) /\ Cardinality(B(i)) \in Nat
  BY <1>1, FS_Subset, FS_CardinalityType
<1>3. \A i \in S : Cardinality(B(i)) \in 0 .. n - 1
  <2> SUFFICES ASSUME NEW i \in S  PROVE Cardinality(B(i)) \in 0 .. n - 1
    OBVIOUS
  <2>1. B(i) # S /\ Cardinality(B(i)) <= n /\ Cardinality(B(i)) # n
    BY <1>1, FS_Subset
  <2> HIDE DEF n, B
  <2> QED
    BY <1>0, <1>2, <2>1
<1>4. ASSUME NEW i \in S, NEW j \in S, <<i, j>> \in R
      PROVE  Cardinality(B(i)) < Cardinality(B(j))
  <2>1. B(i) \in SUBSET B(j) /\ i \in B(j)
    BY <1>4
  <2>2. B(i) # B(j)
    BY <1>1, <2>1
  <2>3. Cardinality(B(i)) <= Cardinality(B(j)) /\ Cardinality(B(i)) # Cardinality(B(j))
    BY <1>2, <2>1, <2>2, FS_Subset
  <2> HIDE DEF B
  <2> QED
    BY <1>2, <2>3
<1>5. PICK r : r = [i \in S |-> Cardinality(B(i))]
  OBVIOUS
<1>6. \A i \in S : r[i] = Cardinality(B(i)) /\ r[i] \in 0 .. n - 1
  BY <1>3, <1>5
<1>7. \A i, j \in S : r[i] = r[j] => i = j
  <2> SUFFICES ASSUME NEW i \in S, NEW j \in S, i # j  PROVE r[i] # r[j]
    OBVIOUS
  <2>1. Cardinality(B(i)) < Cardinality(B(j)) \/ Cardinality(B(j)) < Cardinality(B(i))
    BY <1>4
  <2> HIDE DEF B
  <2> QED
    BY <1>2, <1>6, <2>1
<1>8. IsFiniteSet(0 .. n - 1) /\ Cardinality(0 .. n - 1) = n
  <2>1. IsFiniteSet(0 .. n - 1) /\ Cardinality(0 .. n - 1) = IF n - 1 < 0 THEN 0 ELSE (n - 1) - 0 + 1
    BY <1>0, FS_Interval
  <2> QED
    BY <1>0, <2>1
<1>9. r \in Injection(S, 0 .. n - 1)
  <2>1. r \in [S -> 0 .. n - 1]
    BY <1>5, <1>6
  <2> QED
    BY <1>7, <2>1 DEF Injection, IsInjective
<1>10. r \in Surjection(S, 0 .. n - 1)
  BY <1>8, <1>9, FS_Injection
<1>11. \A k \in 0 .. n - 1 : \E i \in S : r[i] = k
  BY <1>10 DEF Surjection
<1>12. \A k \in 1 .. n : q[k] \in S /\ r[q[k]] = k - 1
  <2> SUFFICES ASSUME NEW k \in 1 .. n  PROVE q[k] \in S /\ r[q[k]] = k - 1
    OBVIOUS
  <2>1. k - 1 \in 0 .. n - 1
    BY <1>0
  <2>2. \E i \in S : Cardinality(B(i)) = k - 1
    BY <1>6, <1>11, <2>1
  <2>3. q[k] = CHOOSE i \in S : Cardinality(B(i)) = k - 1
    BY DEF Arranged
  <2>4. q[k] \in S /\ Cardinality(B(q[k])) = k - 1
    BY <2>2, <2>3
  <2> QED
    BY <1>6, <2>4
<1>13. q \in [1 .. n -> S]
  <2>1. \A k \in 1 .. n : (CHOOSE s \in S : Cardinality({t \in S : <<t, s>> \in R}) = k - 1) \in S
    BY <1>12 DEF Arranged
  <2> QED
    BY <2>1 DEF Arranged
<1> HIDE DEF q, B, n
<1>14. q \in Seq(S) /\ Len(q) = n /\ DOMAIN q = 1 .. n
  BY <1>0, <1>13
<1>15. Distinct(q)
  BY <1>0, <1>12, <1>14 DEF Distinct
<1>16. ASSUME NEW i \in S  PROVE \E k \in 1 .. n : q[k] = i
  <2>1. r[i] + 1 \in 1 .. n /\ (r[i] + 1) - 1 = r[i]
    BY <1>0, <1>6
  <2>2. q[r[i] + 1] \in S /\ r[q[r[i] + 1]] = r[i]
    BY <1>12, <2>1
  <2>3. q[r[i] + 1] = i
    BY <1>7, <2>2
  <2> QED
    BY <2>1, <2>3
<1>17. ToSet(q) = S
  BY <1>12, <1>14, <1>16 DEF ToSet
<1> QED
  BY <1>14, <1>15, <1>17 DEF Lists, n, q

LEMMA NthIs ==
  ASSUME NEW S \in SUBSET Int, IsFiniteSet(S)
  PROVE  /\ Lists(InOrder(S), S)
         /\ \A k \in 1 .. Cardinality(S) : InOrder(S)[k] = Nth(S, k - 1)
<1> DEFINE R == {x \in S \X S : x[1] < x[2]}
<1>1. Lists(Arranged(S, R), S)
  <2>1. \A i, j \in S : <<i, j>> \in R <=> i < j
    OBVIOUS
  <2>2. /\ \A i \in S : <<i, i>> \notin R
        /\ \A i, j \in S : i # j => <<i, j>> \in R \/ <<j, i>> \in R
        /\ \A i, j, k \in S : <<i, j>> \in R /\ <<j, k>> \in R => <<i, k>> \in R
    BY <2>1
  <2> HIDE DEF R
  <2> QED
    BY <2>2, ArrangedLists
<1>2. \A i \in S : {t \in S : <<t, i>> \in R} = {t \in S : t < i}
  OBVIOUS
<1>3. \A n : (CHOOSE s \in S : Cardinality({t \in S : <<t, s>> \in R}) = n) = Nth(S, n)
  <2> SUFFICES ASSUME NEW n  PROVE (CHOOSE s \in S : Cardinality({t \in S : <<t, s>> \in R}) = n) = Nth(S, n)
    OBVIOUS
  <2>1. \A s \in S : Cardinality({t \in S : <<t, s>> \in R}) = n <=> Cardinality({t \in S : t < s}) = n
    BY <1>2
  <2> HIDE DEF R
  <2> QED
    BY <2>1 DEF Nth
<1>4. Arranged(S, R) = InOrder(S)
  BY <1>3 DEF Arranged, InOrder
<1>5. \A k \in 1 .. Cardinality(S) : InOrder(S)[k] = Nth(S, k - 1)
  BY DEF InOrder
<1> QED
  BY <1>1, <1>4, <1>5

LEMMA WiderSeq ==
  ASSUME NEW S, NEW T, S \subseteq T, NEW q \in Seq(S)
  PROVE  q \in Seq(T)
  OBVIOUS

LEMMA LeastOf ==
  ASSUME NEW S \in SUBSET Nat, S # {}
  PROVE  Min(S) \in S /\ \A j \in S : Min(S) <= j
<1>1. PICK x \in S : \A y \in S : ~(<<y, x>> \in OpToRel(<, Nat))
  BY NatLessThanWellFounded, WFMin
<1>2. ASSUME NEW y \in S, y < x  PROVE FALSE
  <2>1. <<y, x>> \in OpToRel(<, Nat)
    BY <1>2, Zenon DEF OpToRel
  <2> QED
    BY <1>1, <2>1
<1>3. \A y \in S : x <= y
  BY <1>2
<1> QED
  BY <1>3 DEF Min

LEMMA GreatestOf ==
  ASSUME NEW S \in SUBSET Int, S # {}, NEW b \in Int, \A x \in S : x <= b
  PROVE  Max(S) \in S /\ \A x \in S : x <= Max(S)
<1> DEFINE T == {b - x : x \in S}
<1>1. T \in SUBSET Nat /\ T # {}
  OBVIOUS
<1>2. PICK m \in T : \A y \in T : m <= y
  BY <1>1, LeastOf
<1>3. PICK x \in S : m = b - x
  OBVIOUS
<1>4. \A y \in S : b - y \in T
  OBVIOUS
<1>5. \A y \in S : m <= b - y
  BY <1>2, <1>4
<1> HIDE DEF T
<1>6. \A y \in S : x >= y
  BY <1>3, <1>5
<1>7. Max(S) \in S /\ \A y \in S : Max(S) >= y
  BY <1>6 DEF Max
<1> QED
  BY <1>7

LEMMA MinOfTwo ==
  ASSUME NEW x \in Int, NEW y \in Int
  PROVE  Min({x, y}) \in {x, y} /\ Min({x, y}) <= x /\ Min({x, y}) <= y
<1>1. \E m \in {x, y} : \A z \in {x, y} : m <= z
  OBVIOUS
<1> QED
  BY <1>1 DEF Min

LEMMA MinOfThree ==
  ASSUME NEW x \in Int, NEW y \in Int, NEW z \in Int
  PROVE  /\ Min({x, y, z}) \in {x, y, z}
         /\ Min({x, y, z}) <= x /\ Min({x, y, z}) <= y /\ Min({x, y, z}) <= z
<1>1. \E m \in {x, y, z} : \A w \in {x, y, z} : m <= w
  <2>1. CASE x <= y /\ x <= z
    BY <2>1
  <2>2. CASE y <= x /\ y <= z
    BY <2>2
  <2>3. CASE z <= y /\ z <= x
    BY <2>3
  <2> QED
    BY <2>1, <2>2, <2>3
<1> QED
  BY <1>1 DEF Min

LEMMA DistinctSize ==
  ASSUME NEW S, NEW q \in Seq(S), Distinct(q)
  PROVE  IsFiniteSet(ToSet(q)) /\ Cardinality(ToSet(q)) = Len(q)
<1>1. DOMAIN q = 1 .. Len(q) /\ Len(q) \in Nat /\ q \in [1 .. Len(q) -> S]
  OBVIOUS
<1>2. \A x \in ToSet(q) : \E i \in 1 .. Len(q) : q[i] = x
  BY <1>1 DEF ToSet
<1>3. q \in [1 .. Len(q) -> ToSet(q)]
  BY <1>1 DEF ToSet
<1>4. q \in Bijection(1 .. Len(q), ToSet(q))
  BY <1>1, <1>2, <1>3 DEF Distinct, Bijection, Injection, IsInjective, Surjection
<1>5. IsFiniteSet(1 .. Len(q)) /\ Cardinality(1 .. Len(q)) = Len(q)
  BY <1>1, FS_Interval
<1>6. ExistsBijection(1 .. Len(q), ToSet(q))
  BY <1>4 DEF ExistsBijection
<1> QED
  BY <1>5, <1>6, FS_Bijection

LEMMA SplitQueue ==
  ASSUME NEW S, NEW q \in Seq(S), NEW n \in 0 .. Len(q)
  PROVE  /\ First(q, n) \in Seq(S) /\ Len(First(q, n)) = n
         /\ Rest(q, n) \in Seq(S) /\ Len(Rest(q, n)) = Len(q) - n
         /\ ToSet(q) = ToSet(First(q, n)) \cup ToSet(Rest(q, n))
         /\ Distinct(q) =>
              /\ Distinct(First(q, n)) /\ Distinct(Rest(q, n))
              /\ ToSet(First(q, n)) \cap ToSet(Rest(q, n)) = {}
              /\ IsFiniteSet(ToSet(First(q, n))) /\ Cardinality(ToSet(First(q, n))) = n
<1>0. PICK m \in Nat : m = Len(q) /\ DOMAIN q = 1 .. m /\ n \in 0 .. m /\ n \in Nat
  OBVIOUS
<1>1. PICK f, r : f = First(q, n) /\ r = Rest(q, n)
  OBVIOUS
<1>2. f \in Seq(S) /\ Len(f) = n /\ DOMAIN f = 1 .. n /\ \A i \in 1 .. n : f[i] = q[i]
  BY <1>0, <1>1 DEF First
<1>3. /\ r \in Seq(S) /\ Len(r) = m - n /\ DOMAIN r = 1 .. m - n
      /\ \A i \in 1 .. m - n : r[i] = q[n + i]
  <2>1. r = SubSeq(q, n + 1, m)
    BY <1>0, <1>1 DEF Rest
  <2>2. Len(r) = m - n /\ DOMAIN r = 1 .. m - n
    BY <1>0, <2>1
  <2>3. \A i \in 1 .. m - n : r[i] = q[n + i]
    BY <1>0, <2>1, <2>2
  <2>4. r \in Seq(S)
    BY <1>0, <2>1
  <2> QED
    BY <2>2, <2>3, <2>4
<1>4. \A i \in 1 .. m : i \in 1 .. n \/ (i - n \in 1 .. m - n /\ n + (i - n) = i)
  BY <1>0
<1>5. \A i \in 1 .. m - n : n + i \in 1 .. m /\ n + i \notin 1 .. n
  BY <1>0
<1>5a. \A i \in 1 .. n : i \in 1 .. m
  BY <1>0
<1>6. ToSet(q) = {q[i] : i \in 1 .. m} /\ ToSet(f) = {f[i] : i \in 1 .. n}
      /\ ToSet(r) = {r[i] : i \in 1 .. m - n}
  BY <1>0, <1>2, <1>3 DEF ToSet
<1>7. ToSet(q) = ToSet(f) \cup ToSet(r)
  <2>1. ToSet(f) \subseteq ToSet(q) /\ ToSet(r) \subseteq ToSet(q)
    BY <1>2, <1>3, <1>5, <1>5a, <1>6
  <2>2. ToSet(q) \subseteq ToSet(f) \cup ToSet(r)
    <3> SUFFICES ASSUME NEW i \in 1 .. m  PROVE q[i] \in ToSet(f) \cup ToSet(r)
      BY <1>6
    <3>1. CASE i \in 1 .. n
      BY <1>2, <1>6, <3>1
    <3>2. CASE i - n \in 1 .. m - n /\ n + (i - n) = i
      <4>1. r[i - n] = q[i]
        BY <1>3, <3>2
      <4> QED
        BY <1>6, <3>2, <4>1
    <3> QED
      BY <1>4, <3>1, <3>2
  <2> QED
    BY <2>1, <2>2
<1>8. ASSUME Distinct(q)
      PROVE  Distinct(f) /\ Distinct(r) /\ ToSet(f) \cap ToSet(r) = {}
  <2>1. Distinct(f)
    BY <1>0, <1>2, <1>5a, <1>8 DEF Distinct
  <2>2. Distinct(r)
    <3> SUFFICES ASSUME NEW i \in 1 .. m - n, NEW j \in 1 .. m - n, r[i] = r[j]  PROVE i = j
      BY <1>3 DEF Distinct
    <3>1. n + i = n + j
      BY <1>0, <1>3, <1>5, <1>8 DEF Distinct
    <3> QED
      BY <1>0, <3>1
  <2>3. ASSUME NEW i \in 1 .. n, NEW j \in 1 .. m - n, f[i] = r[j]  PROVE FALSE
    <3>1. q[i] = q[n + j] /\ i \in 1 .. m /\ n + j \in 1 .. m
      BY <1>2, <1>3, <1>5, <1>5a, <2>3
    <3>2. i = n + j
      BY <1>0, <1>8, <3>1 DEF Distinct
    <3> QED
      BY <1>5, <3>2
  <2> QED
    BY <1>6, <2>1, <2>2, <2>3
<1>9. Distinct(f) => IsFiniteSet(ToSet(f)) /\ Cardinality(ToSet(f)) = n
  BY <1>2, DistinctSize
<1> QED
  BY <1>0, <1>1, <1>2, <1>3, <1>7, <1>8, <1>9

LEMMA JoinQueue ==
  ASSUME NEW S, NEW q \in Seq(S), NEW r \in Seq(S)
  PROVE  /\ q \o r \in Seq(S) /\ ToSet(q \o r) = ToSet(q) \cup ToSet(r)
         /\ Distinct(q) /\ Distinct(r) /\ ToSet(q) \cap ToSet(r) = {} => Distinct(q \o r)
<1>0. PICK m \in Nat, n \in Nat : m = Len(q) /\ DOMAIN q = 1 .. m /\ n = Len(r) /\ DOMAIN r = 1 .. n
  OBVIOUS
<1>1. PICK h : h = q \o r
  OBVIOUS
<1>2. h \in Seq(S) /\ DOMAIN h = 1 .. m + n
      /\ \A i \in 1 .. m + n : h[i] = IF i <= m THEN q[i] ELSE r[i - m]
  BY <1>0, <1>1
<1>3. \A i \in 1 .. m + n : (i \in 1 .. m /\ h[i] = q[i]) \/ (i - m \in 1 .. n /\ h[i] = r[i - m])
  <2> SUFFICES ASSUME NEW i \in 1 .. m + n
               PROVE  (i \in 1 .. m /\ h[i] = q[i]) \/ (i - m \in 1 .. n /\ h[i] = r[i - m])
    OBVIOUS
  <2>1. CASE i <= m
    BY <1>2, <2>1
  <2>2. CASE ~ (i <= m)
    BY <1>2, <2>2
  <2> QED
    BY <2>1, <2>2
<1>4. \A i \in 1 .. m : i \in 1 .. m + n /\ i <= m /\ h[i] = q[i]
  <2>1. \A i \in 1 .. m : i \in 1 .. m + n /\ i <= m
    OBVIOUS
  <2> QED
    BY <1>2, <2>1
<1>5. \A i \in 1 .. n : i + m \in 1 .. m + n /\ h[i + m] = r[i]
  <2> SUFFICES ASSUME NEW i \in 1 .. n  PROVE i + m \in 1 .. m + n /\ h[i + m] = r[i]
    OBVIOUS
  <2>1. i + m \in 1 .. m + n /\ ~ (i + m <= m) /\ (i + m) - m = i
    OBVIOUS
  <2> QED
    BY <1>2, <2>1
<1>6. ToSet(q) = {q[i] : i \in 1 .. m} /\ ToSet(r) = {r[i] : i \in 1 .. n}
      /\ ToSet(h) = {h[i] : i \in 1 .. m + n}
  BY <1>0, <1>2 DEF ToSet
<1>7. ToSet(h) = ToSet(q) \cup ToSet(r)
  <2>1. ToSet(h) \subseteq ToSet(q) \cup ToSet(r)
    BY <1>3, <1>6
  <2>2. ToSet(q) \subseteq ToSet(h)
    BY <1>4, <1>6
  <2>3. ToSet(r) \subseteq ToSet(h)
    <3> SUFFICES ASSUME NEW i \in 1 .. n  PROVE r[i] \in ToSet(h)
      BY <1>6
    <3> QED
      BY <1>5, <1>6
  <2> QED
    BY <2>1, <2>2, <2>3
<1>8. ASSUME Distinct(q), Distinct(r), ToSet(q) \cap ToSet(r) = {}  PROVE Distinct(h)
  <2> SUFFICES ASSUME NEW i \in 1 .. m + n, NEW j \in 1 .. m + n, h[i] = h[j]  PROVE i = j
    BY <1>2 DEF Distinct
  <2>1. CASE i \in 1 .. m /\ h[i] = q[i] /\ j \in 1 .. m /\ h[j] = q[j]
    BY <1>0, <1>8, <2>1 DEF Distinct
  <2>2. CASE i - m \in 1 .. n /\ h[i] = r[i - m] /\ j - m \in 1 .. n /\ h[j] = r[j - m]
    <3>1. i - m = j - m
      BY <1>0, <1>8, <2>2 DEF Distinct
    <3> QED
      BY <3>1
  <2>3. CASE i \in 1 .. m /\ h[i] = q[i] /\ j - m \in 1 .. n /\ h[j] = r[j - m]
    BY <1>6, <1>8, <2>3
  <2>4. CASE j \in 1 .. m /\ h[j] = q[j] /\ i - m \in 1 .. n /\ h[i] = r[i - m]
    BY <1>6, <1>8, <2>4
  <2> QED
    BY <1>3, <2>1, <2>2, <2>3, <2>4
<1> QED
  BY <1>1, <1>2, <1>7, <1>8

-----------------------------------------------------------------------------
(* The state of the core, and what each stage does to it.                    *)

EntryShape(e) ==
  e = [scheduled |-> e.scheduled, executed |-> e.executed, event_cycle |-> e.event_cycle,
       num_reg_dependent |-> e.num_reg_dependent,
       registers_instrs_depend_on_me |-> e.registers_instrs_depend_on_me,
       memory_instrs_depend_on_me |-> e.memory_instrs_depend_on_me,
       num_mem_ops |-> e.num_mem_ops, lq_index |-> e.lq_index, sq_index |-> e.sq_index,
       from |-> e.from]
EntriesShape(f) == f = [i \in Ids |-> f[i]] /\ \A i \in Ids : EntryShape(f[i])
CoreShape(c) ==
  /\ c = [head |-> c.head, tail |-> c.tail, read |-> c.read, entry |-> c.entry, LQ |-> c.LQ,
          SQ |-> c.SQ, STA |-> c.STA, ready_to_execute |-> c.ready_to_execute,
          RTL0 |-> c.RTL0, RTL1 |-> c.RTL1, RTS0 |-> c.RTS0, RTS1 |-> c.RTS1,
          inflight_reg_executions |-> c.inflight_reg_executions,
          inflight_mem_executions |-> c.inflight_mem_executions,
          dtlb |-> c.dtlb, dtlb_processed |-> c.dtlb_processed,
          l1d |-> c.l1d, l1d_processed |-> c.l1d_processed, wq |-> c.wq]
  /\ EntriesShape(c.entry)

Retired(e, i, f) ==
  /\ e.scheduled = "no" /\ e.executed = "no" /\ e.event_cycle = 0 /\ e.num_reg_dependent = 0
  /\ e.registers_instrs_depend_on_me = {} /\ e.memory_instrs_depend_on_me = {}
  /\ e.num_mem_ops = (IF IsMemory(i) THEN 1 ELSE 0) /\ e.lq_index = 0 /\ e.sq_index = 0 /\ e.from = f
Retiring(c) == c.head .. c.head + RetireCount(c) - 1

LEMMA RetireDoes ==
  ASSUME NEW c, CoreShape(c), NEW d, d = retire_rob(c)
  PROVE  /\ CoreShape(d)
         /\ d.head = c.head + Cardinality(Retiring(c))
         /\ d.wq = c.wq + Cardinality(Stores(Retiring(c)))
         /\ DOMAIN d.SQ = SQSlots
         /\ \A s \in SQSlots : d.SQ[s] = IF \E i \in Stores(Retiring(c)) : c.entry[i].sq_index = s
                                         THEN NoStore ELSE c.SQ[s]
         /\ \A i \in Ids : i \notin Retiring(c) => d.entry[i] = c.entry[i]
         /\ \A i \in Ids : i \in Retiring(c) => Retired(d.entry[i], i, c.entry[i].from)
         /\ d.tail = c.tail /\ d.read = c.read /\ d.LQ = c.LQ /\ d.STA = c.STA
         /\ d.ready_to_execute = c.ready_to_execute
         /\ d.RTL0 = c.RTL0 /\ d.RTL1 = c.RTL1 /\ d.RTS0 = c.RTS0 /\ d.RTS1 = c.RTS1
         /\ d.inflight_reg_executions = c.inflight_reg_executions
         /\ d.inflight_mem_executions = c.inflight_mem_executions
         /\ d.dtlb = c.dtlb /\ d.dtlb_processed = c.dtlb_processed
         /\ d.l1d = c.l1d /\ d.l1d_processed = c.l1d_processed
<1> DEFINE E == [i \in Ids |-> IF i \in Retiring(c)
                               THEN [NewEntry(i) EXCEPT !.from = c.entry[i].from] ELSE c.entry[i]]
<1>1. EntriesShape(E)
  <2>1. \A i \in Ids : EntryShape(E[i])
    <3>1. \A i \in Ids : EntryShape([NewEntry(i) EXCEPT !.from = c.entry[i].from])
      BY DEF NewEntry, EntryShape
    <3> QED
      BY <3>1 DEF CoreShape, EntriesShape
  <2> QED
    BY <2>1 DEF EntriesShape
<1>1a. PICK sq : sq = [s \in SQSlots |-> IF \E i \in Stores(Retiring(c)) : c.entry[i].sq_index = s
                                         THEN NoStore ELSE c.SQ[s]]
  OBVIOUS
<1>2. d = [c EXCEPT !.head = c.head + Cardinality(Retiring(c)),
                    !.wq = c.wq + Cardinality(Stores(Retiring(c))),
                    !.SQ = sq,
                    !.entry = E]
  BY <1>1a DEF retire_rob, Retiring
<1> HIDE DEF E
<1>3. d.entry = E /\ CoreShape(d)
  BY <1>1, <1>2 DEF CoreShape
<1>4. \A i \in Ids : E[i] = IF i \in Retiring(c) THEN [NewEntry(i) EXCEPT !.from = c.entry[i].from]
                            ELSE c.entry[i]
  BY DEF E
<1>5. ASSUME NEW i \in Ids, i \in Retiring(c)  PROVE Retired(d.entry[i], i, c.entry[i].from)
  BY <1>3, <1>4, <1>5 DEF Retired, NewEntry
<1>6. d.SQ = sq
  BY <1>2 DEF CoreShape
<1>7. DOMAIN d.SQ = SQSlots /\ \A s \in SQSlots :
         d.SQ[s] = IF \E i \in Stores(Retiring(c)) : c.entry[i].sq_index = s THEN NoStore ELSE c.SQ[s]
  BY <1>1a, <1>6
<1> QED
  BY <1>2, <1>3, <1>4, <1>5, <1>7 DEF CoreShape

Over(c, j) == {p \in Completing(c) : j \in c.entry[p].registers_instrs_depend_on_me}
Left(c, j) == c.entry[j].num_reg_dependent - Cardinality(Over(c, j))
Freed(c)   == {j \in Ids : Over(c, j) # {} /\ Left(c, j) = 0}
Sooner(c)  == {x \in Freed(c) \X Freed(c) :
                 \/ Max(Over(c, x[1])) < Max(Over(c, x[2]))
                 \/ Max(Over(c, x[1])) = Max(Over(c, x[2])) /\ x[1] < x[2]}
Woken(c)   == Arranged({j \in Freed(c) : ~IsMemory(j)}, Sooner(c))

CompleteEffect(c, d) ==
  /\ d.inflight_reg_executions = c.inflight_reg_executions - Cardinality({i \in Completing(c) : ~IsMemory(i)})
  /\ d.inflight_mem_executions = c.inflight_mem_executions - Cardinality({i \in Completing(c) : IsMemory(i)})
  /\ d.ready_to_execute = c.ready_to_execute \o Woken(c)
  /\ \A i \in Ids :
       /\ d.entry[i].executed = IF i \in Completing(c) THEN "COMPLETED" ELSE c.entry[i].executed
       /\ d.entry[i].num_reg_dependent = Left(c, i)
       /\ d.entry[i].scheduled = IF i \notin Freed(c) THEN c.entry[i].scheduled ELSE IF IsMemory(i) THEN "INFLIGHT" ELSE "COMPLETED"
       /\ d.entry[i].event_cycle = c.entry[i].event_cycle
       /\ d.entry[i].registers_instrs_depend_on_me = c.entry[i].registers_instrs_depend_on_me
       /\ d.entry[i].memory_instrs_depend_on_me = c.entry[i].memory_instrs_depend_on_me
       /\ d.entry[i].num_mem_ops = c.entry[i].num_mem_ops
       /\ d.entry[i].lq_index = c.entry[i].lq_index
       /\ d.entry[i].sq_index = c.entry[i].sq_index
       /\ d.entry[i].from = c.entry[i].from
  /\ d.head = c.head /\ d.tail = c.tail /\ d.read = c.read /\ d.LQ = c.LQ
  /\ d.SQ = c.SQ /\ d.STA = c.STA /\ d.RTL0 = c.RTL0 /\ d.RTL1 = c.RTL1
  /\ d.RTS0 = c.RTS0 /\ d.RTS1 = c.RTS1 /\ d.dtlb = c.dtlb
  /\ d.dtlb_processed = c.dtlb_processed /\ d.l1d = c.l1d
  /\ d.l1d_processed = c.l1d_processed /\ d.wq = c.wq

LEMMA CompleteDoes ==
  ASSUME NEW c, CoreShape(c), NEW d, d = complete_inflight_instruction(c)
  PROVE  CoreShape(d) /\ CompleteEffect(c, d)
<1> DEFINE E == [i \in Ids |-> [c.entry[i] EXCEPT !.executed = IF i \in Completing(c) THEN "COMPLETED" ELSE c.entry[i].executed, !.num_reg_dependent = Left(c, i), !.scheduled = IF i \notin Freed(c) THEN c.entry[i].scheduled ELSE IF IsMemory(i) THEN "INFLIGHT" ELSE "COMPLETED"]]
<1>1. EntriesShape(E)
  BY DEF CoreShape, EntriesShape, EntryShape
<1>2. d = [c EXCEPT !.inflight_reg_executions = c.inflight_reg_executions - Cardinality({i \in Completing(c) : ~IsMemory(i)}),
                    !.inflight_mem_executions = c.inflight_mem_executions - Cardinality({i \in Completing(c) : IsMemory(i)}),
                    !.ready_to_execute = c.ready_to_execute \o Woken(c),
                    !.entry = E]
  BY DEF complete_inflight_instruction, Over, Left, Freed, Sooner, Woken
<1>3. ASSUME NEW i \in Ids
      PROVE  /\ E[i].executed = IF i \in Completing(c) THEN "COMPLETED" ELSE c.entry[i].executed
             /\ E[i].num_reg_dependent = Left(c, i)
             /\ E[i].scheduled = IF i \notin Freed(c) THEN c.entry[i].scheduled ELSE IF IsMemory(i) THEN "INFLIGHT" ELSE "COMPLETED"
             /\ E[i].event_cycle = c.entry[i].event_cycle
             /\ E[i].registers_instrs_depend_on_me = c.entry[i].registers_instrs_depend_on_me
             /\ E[i].memory_instrs_depend_on_me = c.entry[i].memory_instrs_depend_on_me
             /\ E[i].num_mem_ops = c.entry[i].num_mem_ops
             /\ E[i].lq_index = c.entry[i].lq_index
             /\ E[i].sq_index = c.entry[i].sq_index
             /\ E[i].from = c.entry[i].from
  <2>1. E[i] = [c.entry[i] EXCEPT !.executed = IF i \in Completing(c) THEN "COMPLETED" ELSE c.entry[i].executed,
                              !.num_reg_dependent = Left(c, i),
                              !.scheduled = IF i \notin Freed(c) THEN c.entry[i].scheduled ELSE IF IsMemory(i) THEN "INFLIGHT" ELSE "COMPLETED"]
    OBVIOUS
  <2>2. PICK x, y : x = c.entry[i] /\ y = E[i]
    OBVIOUS
  <2>3. EntryShape(x)
    BY <2>2 DEF CoreShape, EntriesShape
  <2> HIDE DEF E
  <2> QED
    BY <2>1, <2>2, <2>3 DEF EntryShape
<1> HIDE DEF E
<1>4. d.entry = E /\ CoreShape(d)
  BY <1>1, <1>2 DEF CoreShape
<1> QED
  BY <1>2, <1>3, <1>4 DEF CoreShape, CompleteEffect

Begin(c) == Min({EXEC_WIDTH, Len(c.ready_to_execute)})
Begun(c) == ToSet(First(c.ready_to_execute, Begin(c)))

ExecuteEffect(c, d) ==
  /\ d.ready_to_execute = Rest(c.ready_to_execute, Begin(c))
  /\ d.inflight_reg_executions = c.inflight_reg_executions + Begin(c)
  /\ \A i \in Ids :
       /\ d.entry[i].executed = IF i \in Begun(c) THEN "INFLIGHT" ELSE c.entry[i].executed
       /\ d.entry[i].event_cycle = IF i \in Begun(c) THEN EXEC_LATENCY ELSE c.entry[i].event_cycle
       /\ d.entry[i].scheduled = c.entry[i].scheduled
       /\ d.entry[i].num_reg_dependent = c.entry[i].num_reg_dependent
       /\ d.entry[i].registers_instrs_depend_on_me = c.entry[i].registers_instrs_depend_on_me
       /\ d.entry[i].memory_instrs_depend_on_me = c.entry[i].memory_instrs_depend_on_me
       /\ d.entry[i].num_mem_ops = c.entry[i].num_mem_ops
       /\ d.entry[i].lq_index = c.entry[i].lq_index
       /\ d.entry[i].sq_index = c.entry[i].sq_index
       /\ d.entry[i].from = c.entry[i].from
  /\ d.head = c.head /\ d.tail = c.tail /\ d.read = c.read /\ d.LQ = c.LQ
  /\ d.SQ = c.SQ /\ d.STA = c.STA /\ d.RTL0 = c.RTL0 /\ d.RTL1 = c.RTL1
  /\ d.RTS0 = c.RTS0 /\ d.RTS1 = c.RTS1
  /\ d.inflight_mem_executions = c.inflight_mem_executions /\ d.dtlb = c.dtlb
  /\ d.dtlb_processed = c.dtlb_processed /\ d.l1d = c.l1d
  /\ d.l1d_processed = c.l1d_processed /\ d.wq = c.wq

LEMMA ExecuteDoes ==
  ASSUME NEW c, CoreShape(c), NEW d, d = execute_instruction(c)
  PROVE  CoreShape(d) /\ ExecuteEffect(c, d)
<1> DEFINE E == [i \in Ids |-> IF i \in Begun(c) THEN [c.entry[i] EXCEPT !.executed = "INFLIGHT", !.event_cycle = EXEC_LATENCY] ELSE c.entry[i]]
<1>1. EntriesShape(E)
  BY DEF CoreShape, EntriesShape, EntryShape
<1>2. d = [c EXCEPT !.ready_to_execute = Rest(c.ready_to_execute, Begin(c)),
                    !.inflight_reg_executions = c.inflight_reg_executions + Begin(c),
                    !.entry = E]
  BY DEF execute_instruction, Begin, Begun
<1>3. ASSUME NEW i \in Ids
      PROVE  /\ E[i].executed = IF i \in Begun(c) THEN "INFLIGHT" ELSE c.entry[i].executed
             /\ E[i].event_cycle = IF i \in Begun(c) THEN EXEC_LATENCY ELSE c.entry[i].event_cycle
             /\ E[i].scheduled = c.entry[i].scheduled
             /\ E[i].num_reg_dependent = c.entry[i].num_reg_dependent
             /\ E[i].registers_instrs_depend_on_me = c.entry[i].registers_instrs_depend_on_me
             /\ E[i].memory_instrs_depend_on_me = c.entry[i].memory_instrs_depend_on_me
             /\ E[i].num_mem_ops = c.entry[i].num_mem_ops
             /\ E[i].lq_index = c.entry[i].lq_index
             /\ E[i].sq_index = c.entry[i].sq_index
             /\ E[i].from = c.entry[i].from
  <2>1. E[i] = IF i \in Begun(c) THEN [c.entry[i] EXCEPT !.executed = "INFLIGHT", !.event_cycle = EXEC_LATENCY] ELSE c.entry[i]
    OBVIOUS
  <2>2. PICK x, y : x = c.entry[i] /\ y = E[i]
    OBVIOUS
  <2>3. EntryShape(x)
    BY <2>2 DEF CoreShape, EntriesShape
  <2> HIDE DEF E
  <2> QED
    BY <2>1, <2>2, <2>3 DEF EntryShape
<1> HIDE DEF E
<1>4. d.entry = E /\ CoreShape(d)
  BY <1>1, <1>2 DEF CoreShape
<1> QED
  BY <1>2, <1>3, <1>4 DEF CoreShape, ExecuteEffect

Fresh(c) == {i \in Window(c, {}) : c.entry[i].scheduled = "no"}

ScheduleEffect(c, d) ==
  /\ d.ready_to_execute = c.ready_to_execute \o InOrder({i \in Fresh(c) : ~IsMemory(i) /\ RegProducers(c, i) = {}})
  /\ \A i \in Ids :
       /\ d.entry[i].scheduled = IF i \notin Fresh(c) THEN c.entry[i].scheduled ELSE IF IsMemory(i) THEN "INFLIGHT" ELSE "COMPLETED"
       /\ d.entry[i].num_reg_dependent = IF i \in Fresh(c) THEN Cardinality(RegProducers(c, i)) ELSE c.entry[i].num_reg_dependent
       /\ d.entry[i].registers_instrs_depend_on_me = c.entry[i].registers_instrs_depend_on_me \cup {j \in Fresh(c) : i \in RegProducers(c, j)}
       /\ d.entry[i].executed = c.entry[i].executed
       /\ d.entry[i].event_cycle = c.entry[i].event_cycle
       /\ d.entry[i].memory_instrs_depend_on_me = c.entry[i].memory_instrs_depend_on_me
       /\ d.entry[i].num_mem_ops = c.entry[i].num_mem_ops
       /\ d.entry[i].lq_index = c.entry[i].lq_index
       /\ d.entry[i].sq_index = c.entry[i].sq_index
       /\ d.entry[i].from = c.entry[i].from
  /\ d.head = c.head /\ d.tail = c.tail /\ d.read = c.read /\ d.LQ = c.LQ
  /\ d.SQ = c.SQ /\ d.STA = c.STA /\ d.RTL0 = c.RTL0 /\ d.RTL1 = c.RTL1
  /\ d.RTS0 = c.RTS0 /\ d.RTS1 = c.RTS1
  /\ d.inflight_reg_executions = c.inflight_reg_executions
  /\ d.inflight_mem_executions = c.inflight_mem_executions /\ d.dtlb = c.dtlb
  /\ d.dtlb_processed = c.dtlb_processed /\ d.l1d = c.l1d
  /\ d.l1d_processed = c.l1d_processed /\ d.wq = c.wq

LEMMA ScheduleDoes ==
  ASSUME NEW c, CoreShape(c), NEW d, d = schedule_instruction(c)
  PROVE  CoreShape(d) /\ ScheduleEffect(c, d)
<1> DEFINE E == [i \in Ids |-> [c.entry[i] EXCEPT !.scheduled = IF i \notin Fresh(c) THEN c.entry[i].scheduled ELSE IF IsMemory(i) THEN "INFLIGHT" ELSE "COMPLETED", !.num_reg_dependent = IF i \in Fresh(c) THEN Cardinality(RegProducers(c, i)) ELSE c.entry[i].num_reg_dependent, !.registers_instrs_depend_on_me = c.entry[i].registers_instrs_depend_on_me \cup {j \in Fresh(c) : i \in RegProducers(c, j)}]]
<1>1. EntriesShape(E)
  BY DEF CoreShape, EntriesShape, EntryShape
<1>2. d = [c EXCEPT !.ready_to_execute = c.ready_to_execute \o InOrder({i \in Fresh(c) : ~IsMemory(i) /\ RegProducers(c, i) = {}}),
                    !.entry = E]
  BY DEF schedule_instruction, Fresh
<1>3. ASSUME NEW i \in Ids
      PROVE  /\ E[i].scheduled = IF i \notin Fresh(c) THEN c.entry[i].scheduled ELSE IF IsMemory(i) THEN "INFLIGHT" ELSE "COMPLETED"
             /\ E[i].num_reg_dependent = IF i \in Fresh(c) THEN Cardinality(RegProducers(c, i)) ELSE c.entry[i].num_reg_dependent
             /\ E[i].registers_instrs_depend_on_me = c.entry[i].registers_instrs_depend_on_me \cup {j \in Fresh(c) : i \in RegProducers(c, j)}
             /\ E[i].executed = c.entry[i].executed
             /\ E[i].event_cycle = c.entry[i].event_cycle
             /\ E[i].memory_instrs_depend_on_me = c.entry[i].memory_instrs_depend_on_me
             /\ E[i].num_mem_ops = c.entry[i].num_mem_ops
             /\ E[i].lq_index = c.entry[i].lq_index
             /\ E[i].sq_index = c.entry[i].sq_index
             /\ E[i].from = c.entry[i].from
  <2>1. E[i] = [c.entry[i] EXCEPT !.scheduled = IF i \notin Fresh(c) THEN c.entry[i].scheduled ELSE IF IsMemory(i) THEN "INFLIGHT" ELSE "COMPLETED",
                              !.num_reg_dependent = IF i \in Fresh(c) THEN Cardinality(RegProducers(c, i)) ELSE c.entry[i].num_reg_dependent,
                              !.registers_instrs_depend_on_me = c.entry[i].registers_instrs_depend_on_me \cup {j \in Fresh(c) : i \in RegProducers(c, j)}]
    OBVIOUS
  <2>2. PICK x, y : x = c.entry[i] /\ y = E[i]
    OBVIOUS
  <2>3. EntryShape(x)
    BY <2>2 DEF CoreShape, EntriesShape
  <2> HIDE DEF E
  <2> QED
    BY <2>1, <2>2, <2>3 DEF EntryShape
<1> HIDE DEF E
<1>4. d.entry = E /\ CoreShape(d)
  BY <1>1, <1>2 DEF CoreShape
<1> QED
  BY <1>2, <1>3, <1>4 DEF CoreShape, ScheduleEffect

Translated(c) == Min({MAX_READ, Len(c.dtlb_processed)})
Read(c)       == Min({MAX_READ, Len(c.l1d_processed)})
Merged(c)     == ToSet(First(c.l1d_processed, Read(c)))
Loaded(c)     == {c.LQ[s].id : s \in Merged(c)}

ReturnEffect(c, d) ==
  /\ d.dtlb_processed = Rest(c.dtlb_processed, Translated(c))
  /\ d.RTS1 = c.RTS1 \o Slots(First(c.dtlb_processed, Translated(c)), "SQ")
  /\ d.RTL1 = c.RTL1 \o Slots(First(c.dtlb_processed, Translated(c)), "LQ")
  /\ d.l1d_processed = Rest(c.l1d_processed, Read(c))
  /\ d.inflight_mem_executions = c.inflight_mem_executions + Read(c)
  /\ DOMAIN d.LQ = LQSlots
  /\ \A s \in LQSlots : d.LQ[s] = IF s \in Merged(c) THEN NoLoad ELSE c.LQ[s]
  /\ \A i \in Ids :
       /\ d.entry[i].num_mem_ops = IF i \in Loaded(c) THEN c.entry[i].num_mem_ops - 1 ELSE c.entry[i].num_mem_ops
       /\ d.entry[i].scheduled = c.entry[i].scheduled
       /\ d.entry[i].executed = c.entry[i].executed
       /\ d.entry[i].event_cycle = c.entry[i].event_cycle
       /\ d.entry[i].num_reg_dependent = c.entry[i].num_reg_dependent
       /\ d.entry[i].registers_instrs_depend_on_me = c.entry[i].registers_instrs_depend_on_me
       /\ d.entry[i].memory_instrs_depend_on_me = c.entry[i].memory_instrs_depend_on_me
       /\ d.entry[i].lq_index = c.entry[i].lq_index
       /\ d.entry[i].sq_index = c.entry[i].sq_index
       /\ d.entry[i].from = c.entry[i].from
  /\ d.head = c.head /\ d.tail = c.tail /\ d.read = c.read /\ d.SQ = c.SQ
  /\ d.STA = c.STA /\ d.ready_to_execute = c.ready_to_execute /\ d.RTL0 = c.RTL0
  /\ d.RTS0 = c.RTS0 /\ d.inflight_reg_executions = c.inflight_reg_executions
  /\ d.dtlb = c.dtlb /\ d.l1d = c.l1d /\ d.wq = c.wq

LEMMA ReturnDoes ==
  ASSUME NEW c, CoreShape(c), NEW d, d = handle_memory_return(c)
  PROVE  CoreShape(d) /\ ReturnEffect(c, d)
<1> DEFINE E == [i \in Ids |-> IF i \in Loaded(c) THEN [c.entry[i] EXCEPT !.num_mem_ops = c.entry[i].num_mem_ops - 1] ELSE c.entry[i]]
<1>1. EntriesShape(E)
  BY DEF CoreShape, EntriesShape, EntryShape
<1>lq. PICK lq : lq = [s \in LQSlots |-> IF s \in Merged(c) THEN NoLoad ELSE c.LQ[s]]
  OBVIOUS
<1>2. d = [c EXCEPT !.dtlb_processed = Rest(c.dtlb_processed, Translated(c)),
                    !.RTS1 = c.RTS1 \o Slots(First(c.dtlb_processed, Translated(c)), "SQ"),
                    !.RTL1 = c.RTL1 \o Slots(First(c.dtlb_processed, Translated(c)), "LQ"),
                    !.l1d_processed = Rest(c.l1d_processed, Read(c)),
                    !.inflight_mem_executions = c.inflight_mem_executions + Read(c),
                    !.LQ = lq,
                    !.entry = E]
  BY <1>lq DEF handle_memory_return, AccessDone, Translated, Read, Merged, Loaded
<1>3. ASSUME NEW i \in Ids
      PROVE  /\ E[i].num_mem_ops = IF i \in Loaded(c) THEN c.entry[i].num_mem_ops - 1 ELSE c.entry[i].num_mem_ops
             /\ E[i].scheduled = c.entry[i].scheduled
             /\ E[i].executed = c.entry[i].executed
             /\ E[i].event_cycle = c.entry[i].event_cycle
             /\ E[i].num_reg_dependent = c.entry[i].num_reg_dependent
             /\ E[i].registers_instrs_depend_on_me = c.entry[i].registers_instrs_depend_on_me
             /\ E[i].memory_instrs_depend_on_me = c.entry[i].memory_instrs_depend_on_me
             /\ E[i].lq_index = c.entry[i].lq_index
             /\ E[i].sq_index = c.entry[i].sq_index
             /\ E[i].from = c.entry[i].from
  <2>1. E[i] = IF i \in Loaded(c) THEN [c.entry[i] EXCEPT !.num_mem_ops = c.entry[i].num_mem_ops - 1] ELSE c.entry[i]
    OBVIOUS
  <2>2. PICK x, y : x = c.entry[i] /\ y = E[i]
    OBVIOUS
  <2>3. EntryShape(x)
    BY <2>2 DEF CoreShape, EntriesShape
  <2> HIDE DEF E
  <2> QED
    BY <2>1, <2>2, <2>3 DEF EntryShape
<1> HIDE DEF E
<1>4. d.entry = E /\ CoreShape(d)
  BY <1>1, <1>2 DEF CoreShape
<1>5. d.LQ = lq
  BY <1>2 DEF CoreShape
<1>6. DOMAIN d.LQ = LQSlots /\ \A s \in LQSlots : d.LQ[s] = IF s \in Merged(c) THEN NoLoad ELSE c.LQ[s]
  BY <1>lq, <1>5
<1> QED
  BY <1>2, <1>3, <1>4, <1>6 DEF CoreShape, ReturnEffect

LEMMA ForwardedDoes ==
  ASSUME NEW e, EntriesShape(e), NEW S, NEW f
  PROVE  /\ EntriesShape(Forwarded(e, S, f))
         /\ \A i \in Ids :
              /\ Forwarded(e, S, f)[i].num_mem_ops = IF i \in S THEN e[i].num_mem_ops - 1 ELSE e[i].num_mem_ops
              /\ Forwarded(e, S, f)[i].from = IF i \in S THEN f[i] ELSE e[i].from
              /\ Forwarded(e, S, f)[i].scheduled = e[i].scheduled
              /\ Forwarded(e, S, f)[i].executed = e[i].executed
              /\ Forwarded(e, S, f)[i].event_cycle = e[i].event_cycle
              /\ Forwarded(e, S, f)[i].num_reg_dependent = e[i].num_reg_dependent
              /\ Forwarded(e, S, f)[i].registers_instrs_depend_on_me = e[i].registers_instrs_depend_on_me
              /\ Forwarded(e, S, f)[i].memory_instrs_depend_on_me = e[i].memory_instrs_depend_on_me
              /\ Forwarded(e, S, f)[i].lq_index = e[i].lq_index
              /\ Forwarded(e, S, f)[i].sq_index = e[i].sq_index
<1>1. EntriesShape(AccessDone(e, S))
  BY DEF AccessDone, EntriesShape, EntryShape
<1>2. \A i \in Ids :
         /\ AccessDone(e, S)[i].num_mem_ops = IF i \in S THEN e[i].num_mem_ops - 1 ELSE e[i].num_mem_ops
         /\ AccessDone(e, S)[i].scheduled = e[i].scheduled
         /\ AccessDone(e, S)[i].executed = e[i].executed
         /\ AccessDone(e, S)[i].event_cycle = e[i].event_cycle
         /\ AccessDone(e, S)[i].num_reg_dependent = e[i].num_reg_dependent
         /\ AccessDone(e, S)[i].registers_instrs_depend_on_me = e[i].registers_instrs_depend_on_me
         /\ AccessDone(e, S)[i].memory_instrs_depend_on_me = e[i].memory_instrs_depend_on_me
         /\ AccessDone(e, S)[i].lq_index = e[i].lq_index
         /\ AccessDone(e, S)[i].sq_index = e[i].sq_index
         /\ AccessDone(e, S)[i].from = e[i].from
  BY DEF AccessDone, EntriesShape, EntryShape
<1>3. PICK a : a = AccessDone(e, S)
  OBVIOUS
<1>4. Forwarded(e, S, f) = [i \in Ids |-> IF i \in S THEN [a[i] EXCEPT !.from = f[i]] ELSE e[i]]
  BY <1>3 DEF Forwarded
<1>5. ASSUME NEW i \in Ids
      PROVE  /\ EntryShape(Forwarded(e, S, f)[i])
             /\ Forwarded(e, S, f)[i].num_mem_ops = IF i \in S THEN e[i].num_mem_ops - 1 ELSE e[i].num_mem_ops
             /\ Forwarded(e, S, f)[i].from = IF i \in S THEN f[i] ELSE e[i].from
             /\ Forwarded(e, S, f)[i].scheduled = e[i].scheduled
             /\ Forwarded(e, S, f)[i].executed = e[i].executed
             /\ Forwarded(e, S, f)[i].event_cycle = e[i].event_cycle
             /\ Forwarded(e, S, f)[i].num_reg_dependent = e[i].num_reg_dependent
             /\ Forwarded(e, S, f)[i].registers_instrs_depend_on_me = e[i].registers_instrs_depend_on_me
             /\ Forwarded(e, S, f)[i].memory_instrs_depend_on_me = e[i].memory_instrs_depend_on_me
             /\ Forwarded(e, S, f)[i].lq_index = e[i].lq_index
             /\ Forwarded(e, S, f)[i].sq_index = e[i].sq_index
  <2>1. PICK x, y : x = a[i] /\ y = Forwarded(e, S, f)[i]
    OBVIOUS
  <2>2. EntryShape(x) /\ EntryShape(e[i])
    BY <1>1, <1>3, <2>1 DEF EntriesShape
  <2>3. y = IF i \in S THEN [x EXCEPT !.from = f[i]] ELSE e[i]
    BY <1>4, <2>1
  <2>4. CASE i \in S
    <3>1. /\ EntryShape(y) /\ y.from = f[i] /\ y.num_mem_ops = x.num_mem_ops
          /\ y.scheduled = x.scheduled /\ y.executed = x.executed
          /\ y.event_cycle = x.event_cycle
          /\ y.num_reg_dependent = x.num_reg_dependent
          /\ y.registers_instrs_depend_on_me = x.registers_instrs_depend_on_me
          /\ y.memory_instrs_depend_on_me = x.memory_instrs_depend_on_me
          /\ y.lq_index = x.lq_index /\ y.sq_index = x.sq_index
      BY <2>2, <2>3, <2>4 DEF EntryShape
    <3> QED
      BY <1>2, <1>3, <2>1, <2>4, <3>1
  <2>5. CASE i \notin S
    BY <2>1, <2>2, <2>3, <2>5
  <2> QED
    BY <2>4, <2>5
<1>6. Forwarded(e, S, f) = [i \in Ids |-> Forwarded(e, S, f)[i]]
  BY <1>4
<1> QED
  BY <1>5, <1>6 DEF EntriesShape

StoresSent(c) == Min({SQ_WIDTH, Len(c.RTS0), DTLB_SIZE - Cardinality(c.dtlb)})
StoresRun(c)  == Min({SQ_WIDTH - StoresSent(c), Len(c.RTS1)})
Ran(c)        == ToSet(First(c.RTS1, StoresRun(c)))
RanIds(c)     == {c.SQ[s].id : s \in Ran(c)}
Resolved(c)   == UNION {Dependents(c, s) : s \in Ran(c)}
By(c, i)      == CHOOSE p \in RanIds(c) : i \in c.entry[p].memory_instrs_depend_on_me

StoresEffect(c, d) ==
  /\ d.RTS0 = Rest(c.RTS0, StoresSent(c))
  /\ d.dtlb = c.dtlb \cup ({"SQ"} \X ToSet(First(c.RTS0, StoresSent(c))))
  /\ d.RTS1 = Rest(c.RTS1, StoresRun(c))
  /\ DOMAIN d.SQ = SQSlots
  /\ \A s \in SQSlots : d.SQ[s] = IF s \in Ran(c) THEN [c.SQ[s] EXCEPT !.fetched = TRUE] ELSE c.SQ[s]
  /\ d.inflight_mem_executions = c.inflight_mem_executions + StoresRun(c) + Cardinality(Resolved(c))
  /\ DOMAIN d.LQ = LQSlots
  /\ \A s \in LQSlots : d.LQ[s] = IF \E i \in Resolved(c) : c.entry[i].lq_index = s THEN NoLoad ELSE c.LQ[s]
  /\ \A i \in Ids :
       /\ d.entry[i].num_mem_ops = LET n == IF i \in Resolved(c) THEN c.entry[i].num_mem_ops - 1 ELSE c.entry[i].num_mem_ops IN IF i \in RanIds(c) THEN n - 1 ELSE n
       /\ d.entry[i].from = IF i \in Resolved(c) THEN By(c, i) ELSE c.entry[i].from
       /\ d.entry[i].scheduled = c.entry[i].scheduled
       /\ d.entry[i].executed = c.entry[i].executed
       /\ d.entry[i].event_cycle = c.entry[i].event_cycle
       /\ d.entry[i].num_reg_dependent = c.entry[i].num_reg_dependent
       /\ d.entry[i].registers_instrs_depend_on_me = c.entry[i].registers_instrs_depend_on_me
       /\ d.entry[i].memory_instrs_depend_on_me = c.entry[i].memory_instrs_depend_on_me
       /\ d.entry[i].lq_index = c.entry[i].lq_index
       /\ d.entry[i].sq_index = c.entry[i].sq_index
  /\ d.head = c.head /\ d.tail = c.tail /\ d.read = c.read /\ d.STA = c.STA
  /\ d.ready_to_execute = c.ready_to_execute /\ d.RTL0 = c.RTL0
  /\ d.RTL1 = c.RTL1 /\ d.inflight_reg_executions = c.inflight_reg_executions
  /\ d.dtlb_processed = c.dtlb_processed /\ d.l1d = c.l1d
  /\ d.l1d_processed = c.l1d_processed /\ d.wq = c.wq

LEMMA StoresDo ==
  ASSUME NEW c, CoreShape(c), NEW d, d = operate_stores(c)
  PROVE  CoreShape(d) /\ StoresEffect(c, d)
<1>0. PICK g : g = Forwarded(c.entry, Resolved(c), [i \in Resolved(c) |-> By(c, i)])
  OBVIOUS
<1>1. EntriesShape(g)
  BY <1>0, ForwardedDoes DEF CoreShape
<1> DEFINE E == [i \in Ids |-> IF i \in RanIds(c) THEN [g[i] EXCEPT !.num_mem_ops = g[i].num_mem_ops - 1] ELSE g[i]]
<1>1a. EntriesShape(E)
  BY <1>1 DEF EntriesShape, EntryShape
<1>lq. PICK lq : lq = [s \in LQSlots |-> IF \E i \in Resolved(c) : c.entry[i].lq_index = s THEN NoLoad ELSE c.LQ[s]]
  OBVIOUS
<1>sq. PICK sq : sq = [s \in SQSlots |-> IF s \in Ran(c) THEN [c.SQ[s] EXCEPT !.fetched = TRUE] ELSE c.SQ[s]]
  OBVIOUS
<1>2. d = [c EXCEPT !.RTS0 = Rest(c.RTS0, StoresSent(c)),
                    !.dtlb = c.dtlb \cup ({"SQ"} \X ToSet(First(c.RTS0, StoresSent(c)))),
                    !.RTS1 = Rest(c.RTS1, StoresRun(c)),
                    !.SQ = sq,
                    !.inflight_mem_executions = c.inflight_mem_executions + StoresRun(c) + Cardinality(Resolved(c)),
                    !.LQ = lq,
                    !.entry = E]
  BY <1>0, <1>lq, <1>sq DEF operate_stores, StoresSent, StoresRun, Ran, RanIds, Resolved, By, AccessDone
<1>3. ASSUME NEW i \in Ids
      PROVE  /\ E[i].num_mem_ops = LET n == IF i \in Resolved(c) THEN c.entry[i].num_mem_ops - 1 ELSE c.entry[i].num_mem_ops IN IF i \in RanIds(c) THEN n - 1 ELSE n
             /\ E[i].from = IF i \in Resolved(c) THEN By(c, i) ELSE c.entry[i].from
             /\ E[i].scheduled = c.entry[i].scheduled
             /\ E[i].executed = c.entry[i].executed
             /\ E[i].event_cycle = c.entry[i].event_cycle
             /\ E[i].num_reg_dependent = c.entry[i].num_reg_dependent
             /\ E[i].registers_instrs_depend_on_me = c.entry[i].registers_instrs_depend_on_me
             /\ E[i].memory_instrs_depend_on_me = c.entry[i].memory_instrs_depend_on_me
             /\ E[i].lq_index = c.entry[i].lq_index
             /\ E[i].sq_index = c.entry[i].sq_index
  <2>1. /\ g[i].num_mem_ops = IF i \in Resolved(c) THEN c.entry[i].num_mem_ops - 1 ELSE c.entry[i].num_mem_ops
        /\ g[i].from = IF i \in Resolved(c) THEN By(c, i) ELSE c.entry[i].from
        /\ g[i].scheduled = c.entry[i].scheduled
        /\ g[i].executed = c.entry[i].executed
        /\ g[i].event_cycle = c.entry[i].event_cycle
        /\ g[i].num_reg_dependent = c.entry[i].num_reg_dependent
        /\ g[i].registers_instrs_depend_on_me = c.entry[i].registers_instrs_depend_on_me
        /\ g[i].memory_instrs_depend_on_me = c.entry[i].memory_instrs_depend_on_me
        /\ g[i].lq_index = c.entry[i].lq_index
        /\ g[i].sq_index = c.entry[i].sq_index
    BY <1>0, ForwardedDoes DEF CoreShape
  <2>2. PICK x, y : x = g[i] /\ y = E[i]
    OBVIOUS
  <2>3. y = IF i \in RanIds(c) THEN [x EXCEPT !.num_mem_ops = x.num_mem_ops - 1] ELSE x
    BY <2>2
  <2>4. EntryShape(x)
    BY <1>1, <2>2 DEF EntriesShape
  <2> HIDE DEF E
  <2> QED
    BY <2>1, <2>2, <2>3, <2>4 DEF EntryShape
<1> HIDE DEF E
<1>4. d.entry = E /\ CoreShape(d)
  BY <1>1a, <1>2 DEF CoreShape
<1>5. d.LQ = lq
  BY <1>2 DEF CoreShape
<1>6. DOMAIN d.LQ = LQSlots /\ \A s \in LQSlots : d.LQ[s] = IF \E i \in Resolved(c) : c.entry[i].lq_index = s THEN NoLoad ELSE c.LQ[s]
  BY <1>lq, <1>5
<1>7. d.SQ = sq
  BY <1>2 DEF CoreShape
<1>8. DOMAIN d.SQ = SQSlots /\ \A s \in SQSlots : d.SQ[s] = IF s \in Ran(c) THEN [c.SQ[s] EXCEPT !.fetched = TRUE] ELSE c.SQ[s]
  BY <1>sq, <1>7
<1> QED
  BY <1>2, <1>3, <1>4, <1>6, <1>8 DEF CoreShape, StoresEffect

LoadsSent(c) == Min({LQ_WIDTH, Len(c.RTL0), DTLB_SIZE - Cardinality(c.dtlb)})
LoadsRead(c) == Min({LQ_WIDTH - LoadsSent(c), Len(c.RTL1), L1D_RQ_SIZE - Cardinality(c.l1d)})

LoadsEffect(c, d) ==
  /\ d.RTL0 = Rest(c.RTL0, LoadsSent(c))
  /\ d.dtlb = c.dtlb \cup ({"LQ"} \X ToSet(First(c.RTL0, LoadsSent(c))))
  /\ d.RTL1 = Rest(c.RTL1, LoadsRead(c))
  /\ d.l1d = c.l1d \cup ToSet(First(c.RTL1, LoadsRead(c)))
  /\ d.entry = c.entry
  /\ d.head = c.head /\ d.tail = c.tail /\ d.read = c.read /\ d.LQ = c.LQ
  /\ d.SQ = c.SQ /\ d.STA = c.STA /\ d.ready_to_execute = c.ready_to_execute
  /\ d.RTS0 = c.RTS0 /\ d.RTS1 = c.RTS1
  /\ d.inflight_reg_executions = c.inflight_reg_executions
  /\ d.inflight_mem_executions = c.inflight_mem_executions
  /\ d.dtlb_processed = c.dtlb_processed /\ d.l1d_processed = c.l1d_processed
  /\ d.wq = c.wq

LEMMA LoadsDo ==
  ASSUME NEW c, CoreShape(c), NEW d, d = operate_loads(c)
  PROVE  CoreShape(d) /\ LoadsEffect(c, d)
  BY DEF CoreShape, operate_loads, LoadsSent, LoadsRead, LoadsEffect

Slot(c, V, i)  == Nth(FreeLQ(c), Ahead(c, V, i))
Now(c, V)      == {i \in AddedLoads(c, V) : ForwardsNow(c, i)}
Waiting(c, V)  == AddedLoads(c, V) \ Now(c, V)
ReadyLoads(c, V) == InOrder({i \in AddedLoads(c, V) : IndependentLoad(c, i)})

AddLoadsEffect(c, V, d) ==
  /\ DOMAIN d.LQ = LQSlots
  /\ \A s \in LQSlots : d.LQ[s] = IF \E i \in Waiting(c, V) : Slot(c, V, i) = s 
            THEN LET j == CHOOSE i \in Waiting(c, V) : Slot(c, V, i) = s IN [id |-> j, producer_id |-> MemProducer(c, j)]
            ELSE c.LQ[s]
  /\ d.RTL0 = c.RTL0 \o [k \in DOMAIN ReadyLoads(c, V) |-> Slot(c, V, ReadyLoads(c, V)[k])]
  /\ d.inflight_mem_executions = c.inflight_mem_executions + Cardinality(Now(c, V))
  /\ \A i \in Ids :
       /\ d.entry[i].num_mem_ops = IF i \in Now(c, V) THEN c.entry[i].num_mem_ops - 1 ELSE c.entry[i].num_mem_ops
       /\ d.entry[i].from = IF i \in Now(c, V) THEN MemProducer(c, i) ELSE c.entry[i].from
       /\ d.entry[i].lq_index = IF i \in AddedLoads(c, V) THEN Slot(c, V, i) ELSE c.entry[i].lq_index
       /\ d.entry[i].memory_instrs_depend_on_me = c.entry[i].memory_instrs_depend_on_me \cup {j \in AddedLoads(c, V) : MemProducer(c, j) = i}
       /\ d.entry[i].scheduled = c.entry[i].scheduled
       /\ d.entry[i].executed = c.entry[i].executed
       /\ d.entry[i].event_cycle = c.entry[i].event_cycle
       /\ d.entry[i].num_reg_dependent = c.entry[i].num_reg_dependent
       /\ d.entry[i].registers_instrs_depend_on_me = c.entry[i].registers_instrs_depend_on_me
       /\ d.entry[i].sq_index = c.entry[i].sq_index
  /\ d.head = c.head /\ d.tail = c.tail /\ d.read = c.read /\ d.SQ = c.SQ
  /\ d.STA = c.STA /\ d.ready_to_execute = c.ready_to_execute /\ d.RTL1 = c.RTL1
  /\ d.RTS0 = c.RTS0 /\ d.RTS1 = c.RTS1
  /\ d.inflight_reg_executions = c.inflight_reg_executions /\ d.dtlb = c.dtlb
  /\ d.dtlb_processed = c.dtlb_processed /\ d.l1d = c.l1d
  /\ d.l1d_processed = c.l1d_processed /\ d.wq = c.wq

LEMMA AddLoadsDo ==
  ASSUME NEW c, CoreShape(c), NEW V, NEW d, d = add_load_queue(c, V)
  PROVE  CoreShape(d) /\ AddLoadsEffect(c, V, d)
<1>0. PICK g : g = Forwarded(c.entry, Now(c, V), [i \in AddedLoads(c, V) |-> MemProducer(c, i)])
  OBVIOUS
<1>1. EntriesShape(g)
  BY <1>0, ForwardedDoes DEF CoreShape
<1> DEFINE E == [i \in Ids |-> [g[i] EXCEPT !.lq_index = IF i \in AddedLoads(c, V) THEN Slot(c, V, i) ELSE g[i].lq_index, !.memory_instrs_depend_on_me = g[i].memory_instrs_depend_on_me \cup {j \in AddedLoads(c, V) : MemProducer(c, j) = i}]]
<1>1a. EntriesShape(E)
  BY <1>1 DEF EntriesShape, EntryShape
<1>lq. PICK lq : lq = [s \in LQSlots |-> IF \E i \in Waiting(c, V) : Slot(c, V, i) = s 
                   THEN LET j == CHOOSE i \in Waiting(c, V) : Slot(c, V, i) = s IN [id |-> j, producer_id |-> MemProducer(c, j)]
                   ELSE c.LQ[s]]
  OBVIOUS
<1>2. d = [c EXCEPT !.LQ = lq,
                    !.RTL0 = c.RTL0 \o [k \in DOMAIN ReadyLoads(c, V) |-> Slot(c, V, ReadyLoads(c, V)[k])],
                    !.inflight_mem_executions = c.inflight_mem_executions + Cardinality(Now(c, V)),
                    !.entry = E]
  BY <1>0, <1>lq DEF add_load_queue, Slot, Now, Waiting, ReadyLoads
<1>3. ASSUME NEW i \in Ids
      PROVE  /\ E[i].num_mem_ops = IF i \in Now(c, V) THEN c.entry[i].num_mem_ops - 1 ELSE c.entry[i].num_mem_ops
             /\ E[i].from = IF i \in Now(c, V) THEN MemProducer(c, i) ELSE c.entry[i].from
             /\ E[i].lq_index = IF i \in AddedLoads(c, V) THEN Slot(c, V, i) ELSE c.entry[i].lq_index
             /\ E[i].memory_instrs_depend_on_me = c.entry[i].memory_instrs_depend_on_me \cup {j \in AddedLoads(c, V) : MemProducer(c, j) = i}
             /\ E[i].scheduled = c.entry[i].scheduled
             /\ E[i].executed = c.entry[i].executed
             /\ E[i].event_cycle = c.entry[i].event_cycle
             /\ E[i].num_reg_dependent = c.entry[i].num_reg_dependent
             /\ E[i].registers_instrs_depend_on_me = c.entry[i].registers_instrs_depend_on_me
             /\ E[i].sq_index = c.entry[i].sq_index
  <2>1. /\ g[i].num_mem_ops = IF i \in Now(c, V) THEN c.entry[i].num_mem_ops - 1 ELSE c.entry[i].num_mem_ops
        /\ g[i].from = IF i \in Now(c, V) THEN MemProducer(c, i) ELSE c.entry[i].from
        /\ g[i].scheduled = c.entry[i].scheduled
        /\ g[i].executed = c.entry[i].executed
        /\ g[i].event_cycle = c.entry[i].event_cycle
        /\ g[i].num_reg_dependent = c.entry[i].num_reg_dependent
        /\ g[i].registers_instrs_depend_on_me = c.entry[i].registers_instrs_depend_on_me
        /\ g[i].memory_instrs_depend_on_me = c.entry[i].memory_instrs_depend_on_me
        /\ g[i].lq_index = c.entry[i].lq_index
        /\ g[i].sq_index = c.entry[i].sq_index
    BY <1>0, ForwardedDoes DEF CoreShape, Now
  <2>2. PICK x, y : x = g[i] /\ y = E[i]
    OBVIOUS
  <2>3. y = [x EXCEPT !.lq_index = IF i \in AddedLoads(c, V) THEN Slot(c, V, i) ELSE x.lq_index, !.memory_instrs_depend_on_me = x.memory_instrs_depend_on_me \cup {j \in AddedLoads(c, V) : MemProducer(c, j) = i}]
    BY <2>2
  <2>4. EntryShape(x)
    BY <1>1, <2>2 DEF EntriesShape
  <2> HIDE DEF E
  <2> QED
    BY <2>1, <2>2, <2>3, <2>4 DEF EntryShape
<1> HIDE DEF E
<1>4. d.entry = E /\ CoreShape(d)
  BY <1>1a, <1>2 DEF CoreShape
<1>5. d.LQ = lq
  BY <1>2 DEF CoreShape
<1>6. DOMAIN d.LQ = LQSlots /\ \A s \in LQSlots : d.LQ[s] = IF \E i \in Waiting(c, V) : Slot(c, V, i) = s 
                   THEN LET j == CHOOSE i \in Waiting(c, V) : Slot(c, V, i) = s IN [id |-> j, producer_id |-> MemProducer(c, j)]
                   ELSE c.LQ[s]
  BY <1>lq, <1>5
<1> QED
  BY <1>2, <1>3, <1>4, <1>6 DEF CoreShape, AddLoadsEffect

NewStores(c, V) == InOrder(AddedStores(c, V))
FreeSlots(c)    == InOrder(FreeSQ(c))

AddStoresEffect(c, V, d) ==
  /\ DOMAIN d.SQ = SQSlots
  /\ \A s \in SQSlots : d.SQ[s] = IF \E k \in DOMAIN NewStores(c, V) : FreeSlots(c)[k] = s THEN [id |-> NewStores(c, V)[CHOOSE k \in DOMAIN NewStores(c, V) : FreeSlots(c)[k] = s], fetched |-> FALSE] ELSE c.SQ[s]
  /\ d.STA = Rest(c.STA, Len(NewStores(c, V)))
  /\ d.RTS0 = c.RTS0 \o First(FreeSlots(c), Len(NewStores(c, V)))
  /\ \A i \in Ids :
       /\ d.entry[i].sq_index = IF \E k \in DOMAIN NewStores(c, V) : NewStores(c, V)[k] = i THEN FreeSlots(c)[CHOOSE k \in DOMAIN NewStores(c, V) : NewStores(c, V)[k] = i] ELSE c.entry[i].sq_index
       /\ d.entry[i].scheduled = c.entry[i].scheduled
       /\ d.entry[i].executed = c.entry[i].executed
       /\ d.entry[i].event_cycle = c.entry[i].event_cycle
       /\ d.entry[i].num_reg_dependent = c.entry[i].num_reg_dependent
       /\ d.entry[i].registers_instrs_depend_on_me = c.entry[i].registers_instrs_depend_on_me
       /\ d.entry[i].memory_instrs_depend_on_me = c.entry[i].memory_instrs_depend_on_me
       /\ d.entry[i].num_mem_ops = c.entry[i].num_mem_ops
       /\ d.entry[i].lq_index = c.entry[i].lq_index
       /\ d.entry[i].from = c.entry[i].from
  /\ d.head = c.head /\ d.tail = c.tail /\ d.read = c.read /\ d.LQ = c.LQ
  /\ d.ready_to_execute = c.ready_to_execute /\ d.RTL0 = c.RTL0
  /\ d.RTL1 = c.RTL1 /\ d.RTS1 = c.RTS1
  /\ d.inflight_reg_executions = c.inflight_reg_executions
  /\ d.inflight_mem_executions = c.inflight_mem_executions /\ d.dtlb = c.dtlb
  /\ d.dtlb_processed = c.dtlb_processed /\ d.l1d = c.l1d
  /\ d.l1d_processed = c.l1d_processed /\ d.wq = c.wq

LEMMA AddStoresDo ==
  ASSUME NEW c, CoreShape(c), NEW V, NEW d, d = add_store_queue(c, V)
  PROVE  CoreShape(d) /\ AddStoresEffect(c, V, d)
<1> DEFINE E == [i \in Ids |-> IF \E k \in DOMAIN NewStores(c, V) : NewStores(c, V)[k] = i THEN [c.entry[i] EXCEPT !.sq_index = FreeSlots(c)[CHOOSE k \in DOMAIN NewStores(c, V) : NewStores(c, V)[k] = i]] ELSE c.entry[i]]
<1>1. EntriesShape(E)
  BY DEF CoreShape, EntriesShape, EntryShape
<1>sq. PICK sq : sq = [s \in SQSlots |-> IF \E k \in DOMAIN NewStores(c, V) : FreeSlots(c)[k] = s THEN [id |-> NewStores(c, V)[CHOOSE k \in DOMAIN NewStores(c, V) : FreeSlots(c)[k] = s], fetched |-> FALSE] ELSE c.SQ[s]]
  OBVIOUS
<1>2. d = [c EXCEPT !.SQ = sq,
                    !.STA = Rest(c.STA, Len(NewStores(c, V))),
                    !.RTS0 = c.RTS0 \o First(FreeSlots(c), Len(NewStores(c, V))),
                    !.entry = E]
  BY <1>sq DEF add_store_queue, NewStores, FreeSlots
<1>3. ASSUME NEW i \in Ids
      PROVE  /\ E[i].sq_index = IF \E k \in DOMAIN NewStores(c, V) : NewStores(c, V)[k] = i THEN FreeSlots(c)[CHOOSE k \in DOMAIN NewStores(c, V) : NewStores(c, V)[k] = i] ELSE c.entry[i].sq_index
             /\ E[i].scheduled = c.entry[i].scheduled
             /\ E[i].executed = c.entry[i].executed
             /\ E[i].event_cycle = c.entry[i].event_cycle
             /\ E[i].num_reg_dependent = c.entry[i].num_reg_dependent
             /\ E[i].registers_instrs_depend_on_me = c.entry[i].registers_instrs_depend_on_me
             /\ E[i].memory_instrs_depend_on_me = c.entry[i].memory_instrs_depend_on_me
             /\ E[i].num_mem_ops = c.entry[i].num_mem_ops
             /\ E[i].lq_index = c.entry[i].lq_index
             /\ E[i].from = c.entry[i].from
  <2>1. E[i] = IF \E k \in DOMAIN NewStores(c, V) : NewStores(c, V)[k] = i THEN [c.entry[i] EXCEPT !.sq_index = FreeSlots(c)[CHOOSE k \in DOMAIN NewStores(c, V) : NewStores(c, V)[k] = i]] ELSE c.entry[i]
    OBVIOUS
  <2>2. PICK x, y : x = c.entry[i] /\ y = E[i]
    OBVIOUS
  <2>3. EntryShape(x)
    BY <2>2 DEF CoreShape, EntriesShape
  <2> HIDE DEF E
  <2> QED
    BY <2>1, <2>2, <2>3 DEF EntryShape
<1> HIDE DEF E
<1>4. d.entry = E /\ CoreShape(d)
  BY <1>1, <1>2 DEF CoreShape
<1>5. d.SQ = sq
  BY <1>2 DEF CoreShape
<1>6. DOMAIN d.SQ = SQSlots /\ \A s \in SQSlots : d.SQ[s] = IF \E k \in DOMAIN NewStores(c, V) : FreeSlots(c)[k] = s THEN [id |-> NewStores(c, V)[CHOOSE k \in DOMAIN NewStores(c, V) : FreeSlots(c)[k] = s], fetched |-> FALSE] ELSE c.SQ[s]
  BY <1>sq, <1>5
<1> QED
  BY <1>2, <1>3, <1>4, <1>6 DEF CoreShape, AddStoresEffect

MemScheduledEffect(c, S, d) ==
  /\ \A i \in Ids :
       /\ d.entry[i].scheduled = IF i \in S THEN "COMPLETED" ELSE c.entry[i].scheduled
       /\ d.entry[i].executed = IF i \in S THEN "INFLIGHT" ELSE c.entry[i].executed
       /\ d.entry[i].event_cycle = c.entry[i].event_cycle
       /\ d.entry[i].num_reg_dependent = c.entry[i].num_reg_dependent
       /\ d.entry[i].registers_instrs_depend_on_me = c.entry[i].registers_instrs_depend_on_me
       /\ d.entry[i].memory_instrs_depend_on_me = c.entry[i].memory_instrs_depend_on_me
       /\ d.entry[i].num_mem_ops = c.entry[i].num_mem_ops
       /\ d.entry[i].lq_index = c.entry[i].lq_index
       /\ d.entry[i].sq_index = c.entry[i].sq_index
       /\ d.entry[i].from = c.entry[i].from
  /\ d.head = c.head /\ d.tail = c.tail /\ d.read = c.read /\ d.LQ = c.LQ
  /\ d.SQ = c.SQ /\ d.STA = c.STA /\ d.ready_to_execute = c.ready_to_execute
  /\ d.RTL0 = c.RTL0 /\ d.RTL1 = c.RTL1 /\ d.RTS0 = c.RTS0 /\ d.RTS1 = c.RTS1
  /\ d.inflight_reg_executions = c.inflight_reg_executions
  /\ d.inflight_mem_executions = c.inflight_mem_executions /\ d.dtlb = c.dtlb
  /\ d.dtlb_processed = c.dtlb_processed /\ d.l1d = c.l1d
  /\ d.l1d_processed = c.l1d_processed /\ d.wq = c.wq

LEMMA MemScheduledDoes ==
  ASSUME NEW c, CoreShape(c), NEW S, NEW d, d = MemScheduled(c, S)
  PROVE  CoreShape(d) /\ MemScheduledEffect(c, S, d)
<1> DEFINE E == [i \in Ids |-> IF i \in S THEN [c.entry[i] EXCEPT !.scheduled = "COMPLETED", !.executed = "INFLIGHT"] ELSE c.entry[i]]
<1>1. EntriesShape(E)
  BY DEF CoreShape, EntriesShape, EntryShape
<1>2. d = [c EXCEPT !.entry = E]
  BY DEF MemScheduled
<1>3. ASSUME NEW i \in Ids
      PROVE  /\ E[i].scheduled = IF i \in S THEN "COMPLETED" ELSE c.entry[i].scheduled
             /\ E[i].executed = IF i \in S THEN "INFLIGHT" ELSE c.entry[i].executed
             /\ E[i].event_cycle = c.entry[i].event_cycle
             /\ E[i].num_reg_dependent = c.entry[i].num_reg_dependent
             /\ E[i].registers_instrs_depend_on_me = c.entry[i].registers_instrs_depend_on_me
             /\ E[i].memory_instrs_depend_on_me = c.entry[i].memory_instrs_depend_on_me
             /\ E[i].num_mem_ops = c.entry[i].num_mem_ops
             /\ E[i].lq_index = c.entry[i].lq_index
             /\ E[i].sq_index = c.entry[i].sq_index
             /\ E[i].from = c.entry[i].from
  <2>1. E[i] = IF i \in S THEN [c.entry[i] EXCEPT !.scheduled = "COMPLETED", !.executed = "INFLIGHT"] ELSE c.entry[i]
    OBVIOUS
  <2>2. PICK x, y : x = c.entry[i] /\ y = E[i]
    OBVIOUS
  <2>3. EntryShape(x)
    BY <2>2 DEF CoreShape, EntriesShape
  <2> HIDE DEF E
  <2> QED
    BY <2>1, <2>2, <2>3 DEF EntryShape
<1> HIDE DEF E
<1>4. d.entry = E /\ CoreShape(d)
  BY <1>1, <1>2 DEF CoreShape
<1> QED
  BY <1>2, <1>3, <1>4 DEF CoreShape, MemScheduledEffect

DispatchEffect(c, d) ==
  /\ d.tail = c.tail + Min({DISPATCH_WIDTH, c.read - (c.tail - 1), ROB_SIZE - (c.tail - c.head)})
  /\ d.entry = c.entry
  /\ d.head = c.head /\ d.read = c.read /\ d.LQ = c.LQ /\ d.SQ = c.SQ
  /\ d.STA = c.STA /\ d.ready_to_execute = c.ready_to_execute /\ d.RTL0 = c.RTL0
  /\ d.RTL1 = c.RTL1 /\ d.RTS0 = c.RTS0 /\ d.RTS1 = c.RTS1
  /\ d.inflight_reg_executions = c.inflight_reg_executions
  /\ d.inflight_mem_executions = c.inflight_mem_executions /\ d.dtlb = c.dtlb
  /\ d.dtlb_processed = c.dtlb_processed /\ d.l1d = c.l1d
  /\ d.l1d_processed = c.l1d_processed /\ d.wq = c.wq

LEMMA DispatchDoes ==
  ASSUME NEW c, CoreShape(c), NEW d, d = dispatch_instruction(c)
  PROVE  CoreShape(d) /\ DispatchEffect(c, d)
  BY DEF CoreShape, dispatch_instruction, DispatchEffect

NextCycleEffect(c, d) ==
  /\ \A i \in Ids :
       /\ d.entry[i].event_cycle = IF c.entry[i].event_cycle > 0 THEN c.entry[i].event_cycle - 1 ELSE 0
       /\ d.entry[i].scheduled = c.entry[i].scheduled
       /\ d.entry[i].executed = c.entry[i].executed
       /\ d.entry[i].num_reg_dependent = c.entry[i].num_reg_dependent
       /\ d.entry[i].registers_instrs_depend_on_me = c.entry[i].registers_instrs_depend_on_me
       /\ d.entry[i].memory_instrs_depend_on_me = c.entry[i].memory_instrs_depend_on_me
       /\ d.entry[i].num_mem_ops = c.entry[i].num_mem_ops
       /\ d.entry[i].lq_index = c.entry[i].lq_index
       /\ d.entry[i].sq_index = c.entry[i].sq_index
       /\ d.entry[i].from = c.entry[i].from
  /\ d.head = c.head /\ d.tail = c.tail /\ d.read = c.read /\ d.LQ = c.LQ
  /\ d.SQ = c.SQ /\ d.STA = c.STA /\ d.ready_to_execute = c.ready_to_execute
  /\ d.RTL0 = c.RTL0 /\ d.RTL1 = c.RTL1 /\ d.RTS0 = c.RTS0 /\ d.RTS1 = c.RTS1
  /\ d.inflight_reg_executions = c.inflight_reg_executions
  /\ d.inflight_mem_executions = c.inflight_mem_executions /\ d.dtlb = c.dtlb
  /\ d.dtlb_processed = c.dtlb_processed /\ d.l1d = c.l1d
  /\ d.l1d_processed = c.l1d_processed /\ d.wq = c.wq

LEMMA NextCycleDoes ==
  ASSUME NEW c, CoreShape(c), NEW d, d = NextCycle(c)
  PROVE  CoreShape(d) /\ NextCycleEffect(c, d)
<1> DEFINE E == [i \in Ids |-> [c.entry[i] EXCEPT !.event_cycle = IF c.entry[i].event_cycle > 0 THEN c.entry[i].event_cycle - 1 ELSE 0]]
<1>1. EntriesShape(E)
  BY DEF CoreShape, EntriesShape, EntryShape
<1>2. d = [c EXCEPT !.entry = E]
  BY DEF NextCycle
<1>3. ASSUME NEW i \in Ids
      PROVE  /\ E[i].event_cycle = IF c.entry[i].event_cycle > 0 THEN c.entry[i].event_cycle - 1 ELSE 0
             /\ E[i].scheduled = c.entry[i].scheduled
             /\ E[i].executed = c.entry[i].executed
             /\ E[i].num_reg_dependent = c.entry[i].num_reg_dependent
             /\ E[i].registers_instrs_depend_on_me = c.entry[i].registers_instrs_depend_on_me
             /\ E[i].memory_instrs_depend_on_me = c.entry[i].memory_instrs_depend_on_me
             /\ E[i].num_mem_ops = c.entry[i].num_mem_ops
             /\ E[i].lq_index = c.entry[i].lq_index
             /\ E[i].sq_index = c.entry[i].sq_index
             /\ E[i].from = c.entry[i].from
  <2>1. E[i] = [c.entry[i] EXCEPT !.event_cycle = IF c.entry[i].event_cycle > 0 THEN c.entry[i].event_cycle - 1 ELSE 0]
    OBVIOUS
  <2>2. PICK x, y : x = c.entry[i] /\ y = E[i]
    OBVIOUS
  <2>3. EntryShape(x)
    BY <2>2 DEF CoreShape, EntriesShape
  <2> HIDE DEF E
  <2> QED
    BY <2>1, <2>2, <2>3 DEF EntryShape
<1> HIDE DEF E
<1>4. d.entry = E /\ CoreShape(d)
  BY <1>1, <1>2 DEF CoreShape
<1> QED
  BY <1>2, <1>3, <1>4 DEF CoreShape, NextCycleEffect


-----------------------------------------------------------------------------
(* The reorder buffer and the registers.                                     *)

(* The reorder buffer holds some of the instructions read, in order; the     *)
(* write queue of the L1D has no more than it has room for.                  *)
Bounds(c) ==
  /\ c.head \in Nat /\ c.tail \in Nat /\ c.read \in Nat /\ c.wq \in 0 .. L1D_WQ_SIZE
  /\ 1 <= c.head /\ c.head <= c.tail /\ c.tail <= c.read + 1 /\ c.read <= Len(program)
  /\ c.tail - c.head <= ROB_SIZE
RobInv(c) == program \in Programs /\ CoreShape(c) /\ Bounds(c)

(* Who an instruction waits for.                                             *)
Pending(c, i) ==
  {p \in Rob(c) : /\ c.entry[p].executed # "COMPLETED"
                  /\ i \in c.entry[p].registers_instrs_depend_on_me}
LastWriter(i, r) == LastBefore(i, {q \in Ids : r \in program[q].dst})

(* An instruction counts those it waits for; it does not begin while there   *)
(* are any, and the last writer of each register it reads is one of them     *)
(* until that has completed.                                                 *)
RegEntry(c, i) ==
  /\ c.entry[i].scheduled \in Status /\ c.entry[i].executed \in Status
  /\ i \notin Rob(c) => /\ c.entry[i].scheduled = "no" /\ c.entry[i].executed = "no"
                        /\ c.entry[i].registers_instrs_depend_on_me = {}
  /\ c.entry[i].scheduled = "no" => c.entry[i].executed = "no" /\ Pending(c, i) = {}
  /\ c.entry[i].scheduled = "INFLIGHT" => c.entry[i].executed = "no"
  /\ c.entry[i].executed # "no" => Pending(c, i) = {}
  /\ c.entry[i].num_reg_dependent = Cardinality(Pending(c, i))
  /\ c.entry[i].scheduled # "no" =>
       \A r \in program[i].src :
          LastWriter(i, r) \in Rob(c) /\ c.entry[LastWriter(i, r)].executed # "COMPLETED" =>
             LastWriter(i, r) \in Pending(c, i)

ReadyEntry(c, i) ==
  /\ i \in Rob(c) /\ ~IsMemory(i) /\ Pending(c, i) = {}
  /\ c.entry[i].scheduled = "COMPLETED" /\ c.entry[i].executed = "no"

InFlight(c) == {i \in Rob(c) : ~IsMemory(i) /\ c.entry[i].executed = "INFLIGHT"}

RegInv(c) ==
  /\ \A i \in Ids : RegEntry(c, i)
  /\ c.ready_to_execute \in Seq(Ids) /\ Distinct(c.ready_to_execute)
  /\ \A i \in ToSet(c.ready_to_execute) : ReadyEntry(c, i)
  /\ c.inflight_reg_executions = Cardinality(InFlight(c))

LEMMA Program ==
  ASSUME program \in Programs
  PROVE  /\ Len(program) \in Nat /\ Ids = 1 .. Len(program)
         /\ \A i \in Ids : /\ program[i].load \in Nat /\ program[i].store \in Nat
                           /\ ~ (IsLoad(i) /\ IsStore(i))
  BY CpuPrograms DEF Ids, IsLoad, IsStore

LEMMA Sizes ==
  /\ ROB_SIZE \in Nat /\ LQ_SIZE \in Nat /\ SQ_SIZE \in Nat /\ DISPATCH_WIDTH \in Nat
  /\ SCHEDULER_SIZE \in Nat /\ EXEC_WIDTH \in Nat /\ LQ_WIDTH \in Nat /\ SQ_WIDTH \in Nat
  /\ RETIRE_WIDTH \in Nat /\ MAX_READ \in Nat /\ DTLB_SIZE \in Nat
  /\ L1D_RQ_SIZE \in Nat /\ L1D_WQ_SIZE \in Nat /\ EXEC_LATENCY \in Nat
  BY CpuWidths DEF Widths

LEMMA RobIs ==
  ASSUME NEW c, RobInv(c)
  PROVE  /\ Rob(c) \subseteq Ids /\ IsFiniteSet(Rob(c)) /\ Rob(c) \subseteq Nat
         /\ \A i \in Rob(c) : i >= c.head /\ i < c.tail
         /\ IsFiniteSet(Ids) /\ Ids \subseteq Nat
<1>0. c.head \in Int /\ c.tail - 1 \in Int /\ Len(program) \in Int
  BY Program DEF RobInv, Bounds
<1>1. IsFiniteSet(c.head .. c.tail - 1) /\ IsFiniteSet(1 .. Len(program))
  BY <1>0, FS_Interval
<1> QED
  BY <1>1, Program DEF RobInv, Bounds, Rob

(* Retiring takes the completed instructions at the head, as many as the     *)
(* write queue has room for.                                                 *)
LEMMA RetireCountIs ==
  ASSUME NEW c, RobInv(c)
  PROVE  /\ RetireCount(c) \in Nat /\ c.head + RetireCount(c) <= c.tail
         /\ Cardinality(Retiring(c)) = RetireCount(c)
         /\ \A i \in Retiring(c) : c.entry[i].executed = "COMPLETED" /\ i \in Rob(c)
         /\ IsFiniteSet(Stores(Retiring(c)))
         /\ c.wq + Cardinality(Stores(Retiring(c))) \in 0 .. L1D_WQ_SIZE
<1> DEFINE K == {k \in 0 .. RETIRE_WIDTH :
                   /\ c.head + k <= c.tail
                   /\ \A i \in c.head .. c.head + k - 1 : c.entry[i].executed = "COMPLETED"
                   /\ c.wq + Cardinality(Stores(c.head .. c.head + k - 1)) <= L1D_WQ_SIZE}
<1>0. RETIRE_WIDTH \in Nat /\ L1D_WQ_SIZE \in Nat
  BY Sizes
<1>1. 0 \in K
  <2>1. c.head .. c.head + 0 - 1 = {}
    BY DEF RobInv, Bounds
  <2>2. Stores(c.head .. c.head + 0 - 1) = {}
    BY <2>1 DEF Stores
  <2>3. Cardinality(Stores(c.head .. c.head + 0 - 1)) = 0
    BY <2>2, FS_EmptySet
  <2> QED
    BY <1>0, <2>1, <2>3 DEF RobInv, Bounds
<1>2. K \in SUBSET Int /\ \A k \in K : k <= RETIRE_WIDTH
  BY <1>0
<1>3. Max(K) \in K
  <2> HIDE DEF K
  <2>1. RETIRE_WIDTH \in Int /\ K # {}
    BY <1>0, <1>1
  <2> QED
    BY <2>1, <1>2, GreatestOf
<1>4. RetireCount(c) = Max(K)
  BY DEF RetireCount
<1>5. PICK n : n = RetireCount(c)
  OBVIOUS
<1>6. /\ n \in 0 .. RETIRE_WIDTH /\ c.head + n <= c.tail
      /\ \A i \in c.head .. c.head + n - 1 : c.entry[i].executed = "COMPLETED"
      /\ c.wq + Cardinality(Stores(c.head .. c.head + n - 1)) <= L1D_WQ_SIZE
  BY <1>3, <1>4, <1>5
<1>7. Retiring(c) = c.head .. c.head + n - 1 /\ Retiring(c) \subseteq Rob(c)
  BY <1>0, <1>5, <1>6 DEF Retiring, RobInv, Bounds, Rob
<1>8. IsFiniteSet(Retiring(c)) /\ Cardinality(Retiring(c)) = n
  <2>1. c.head \in Nat /\ n \in Nat
    BY <1>0, <1>6 DEF RobInv, Bounds
  <2>2. c.head \in Int /\ c.head + n - 1 \in Int
    BY <2>1
  <2>3. /\ IsFiniteSet(c.head .. c.head + n - 1)
        /\ Cardinality(c.head .. c.head + n - 1) =
             IF c.head > c.head + n - 1 THEN 0 ELSE (c.head + n - 1) - c.head + 1
    BY <2>2, FS_Interval
  <2> QED
    BY <1>7, <2>1, <2>3
<1>9. IsFiniteSet(Stores(Retiring(c))) /\ Cardinality(Stores(Retiring(c))) \in Nat
  <2>1. Stores(Retiring(c)) \in SUBSET Retiring(c)
    BY DEF Stores
  <2> QED
    BY <1>8, <2>1, FS_Subset, FS_CardinalityType
<1>10. c.wq + Cardinality(Stores(Retiring(c))) \in 0 .. L1D_WQ_SIZE
  BY <1>0, <1>6, <1>7, <1>9 DEF RobInv, Bounds
<1> HIDE DEF K
<1> QED
  BY <1>0, <1>5, <1>6, <1>7, <1>8, <1>9, <1>10

LEMMA RetireKeepsRob ==
  ASSUME NEW c, RobInv(c), NEW d, d = retire_rob(c)
  PROVE  /\ RobInv(d) /\ d.head = c.head + RetireCount(c)
         /\ Rob(d) = Rob(c) \ Retiring(c)
<1>1. /\ CoreShape(d) /\ d.head = c.head + Cardinality(Retiring(c)) /\ d.tail = c.tail
      /\ d.read = c.read /\ d.wq = c.wq + Cardinality(Stores(Retiring(c)))
  <2>1. CoreShape(c)
    BY DEF RobInv
  <2> QED
    BY <2>1, RetireDoes
<1>1a. /\ RetireCount(c) \in Nat /\ c.head + RetireCount(c) <= c.tail
       /\ Cardinality(Retiring(c)) = RetireCount(c)
       /\ c.wq + Cardinality(Stores(Retiring(c))) \in 0 .. L1D_WQ_SIZE
  BY RetireCountIs
<1>1b. Bounds(c) /\ ROB_SIZE \in Nat /\ Len(program) \in Nat
  BY Sizes, Program DEF RobInv
<1>2. d.head = c.head + RetireCount(c) /\ Bounds(d)
  BY <1>1, <1>1a, <1>1b DEF Bounds
<1>3. Rob(d) = Rob(c) \ Retiring(c)
  BY <1>1, <1>1a, <1>1b, <1>2 DEF Rob, Retiring, Bounds
<1> QED
  BY <1>1, <1>2, <1>3 DEF RobInv

LEMMA RetireKeepsReg ==
  ASSUME NEW c, RobInv(c), RegInv(c), NEW d, d = retire_rob(c)
  PROVE  RegInv(d)
<1>1. /\ RobInv(d) /\ Rob(d) = Rob(c) \ Retiring(c)
      /\ \A i \in Retiring(c) : c.entry[i].executed = "COMPLETED" /\ i \in Rob(c)
  BY RetireKeepsRob, RetireCountIs
<1>2. /\ \A i \in Ids : i \notin Retiring(c) => d.entry[i] = c.entry[i]
      /\ \A i \in Ids : i \in Retiring(c) => Retired(d.entry[i], i, c.entry[i].from)
      /\ d.ready_to_execute = c.ready_to_execute
      /\ d.inflight_reg_executions = c.inflight_reg_executions
  <2>1. CoreShape(c)
    BY DEF RobInv
  <2> QED
    BY <2>1, RetireDoes
<1>3. \A i \in Ids : i \in Retiring(c) =>
         /\ d.entry[i].scheduled = "no" /\ d.entry[i].executed = "no"
         /\ d.entry[i].registers_instrs_depend_on_me = {} /\ d.entry[i].num_reg_dependent = 0
  BY <1>2 DEF Retired
<1>4. Rob(c) \subseteq Ids
  BY RobIs
<1>5. \A i \in Ids : Pending(d, i) = Pending(c, i)
  BY <1>1, <1>2, <1>4 DEF Pending
<1>6. \A i \in Ids : i \in Retiring(c) => Pending(c, i) = {}
  BY <1>1 DEF RegInv, RegEntry
<1>7. ASSUME NEW i \in Ids  PROVE RegEntry(d, i)
  <2>0. RegEntry(c, i)
    BY DEF RegInv
  <2>1. CASE i \in Retiring(c)
    <3>1. Cardinality(Pending(d, i)) = 0 /\ Pending(d, i) = {}
      BY <1>5, <1>6, <2>1, FS_EmptySet
    <3> QED
      BY <1>3, <2>1, <3>1 DEF RegEntry, Status
  <2>2. CASE i \notin Retiring(c)
    <3>1. d.entry[i] = c.entry[i]
      BY <1>2, <2>2
    <3>2. \A p : p \in Rob(d) /\ d.entry[p].executed # "COMPLETED"
                   => p \in Rob(c) /\ c.entry[p].executed # "COMPLETED"
      BY <1>1, <1>2, <1>4
    <3> QED
      BY <1>1, <1>5, <2>0, <2>2, <3>1, <3>2 DEF RegEntry
  <2> QED
    BY <2>1, <2>2
<1>8. ASSUME NEW i \in ToSet(c.ready_to_execute)  PROVE ReadyEntry(d, i)
  <2>1. ReadyEntry(c, i)
    BY DEF RegInv
  <2>2. i \notin Retiring(c) /\ i \in Ids
    BY <1>1, <1>4, <2>1 DEF ReadyEntry
  <2> QED
    BY <1>1, <1>2, <1>5, <2>1, <2>2 DEF ReadyEntry
<1>9. InFlight(d) = InFlight(c)
  <2>1. \A i \in Rob(d) : i \in Ids /\ i \notin Retiring(c) /\ i \in Rob(c)
    BY <1>1, <1>4
  <2>2. \A i \in Rob(c) : c.entry[i].executed = "INFLIGHT" => i \notin Retiring(c)
    BY <1>1
  <2> QED
    BY <1>1, <1>2, <1>4, <2>1, <2>2 DEF InFlight
<1> QED
  BY <1>2, <1>7, <1>8, <1>9 DEF RegInv

(* The part of the core the registers are about.                             *)
SameReg(c, d) ==
  /\ d.head = c.head /\ d.tail = c.tail /\ d.ready_to_execute = c.ready_to_execute
  /\ d.inflight_reg_executions = c.inflight_reg_executions
  /\ \A i \in Ids :
       /\ d.entry[i].scheduled = c.entry[i].scheduled /\ d.entry[i].executed = c.entry[i].executed
       /\ d.entry[i].num_reg_dependent = c.entry[i].num_reg_dependent
       /\ d.entry[i].registers_instrs_depend_on_me = c.entry[i].registers_instrs_depend_on_me

LEMMA SameKeepsReg ==
  ASSUME NEW c, NEW d, RobInv(c), RegInv(c), SameReg(c, d)
  PROVE  RegInv(d)
<1>1. Rob(d) = Rob(c) /\ Rob(c) \subseteq Ids
  BY RobIs DEF SameReg, Rob
<1>2. \A i \in Ids : Pending(d, i) = Pending(c, i)
  BY <1>1 DEF Pending, SameReg
<1>3. InFlight(d) = InFlight(c)
  BY <1>1 DEF InFlight, SameReg
<1>4. ASSUME NEW i \in Ids  PROVE RegEntry(d, i)
  <2>1. RegEntry(c, i)
    BY DEF RegInv
  <2>2. \A p \in Rob(c) : d.entry[p].executed = c.entry[p].executed
    BY <1>1 DEF SameReg
  <2>3. /\ d.entry[i].scheduled = c.entry[i].scheduled /\ d.entry[i].executed = c.entry[i].executed
        /\ d.entry[i].num_reg_dependent = c.entry[i].num_reg_dependent
        /\ d.entry[i].registers_instrs_depend_on_me = c.entry[i].registers_instrs_depend_on_me
    BY DEF SameReg
  <2> QED
    BY <1>1, <1>2, <2>1, <2>2, <2>3 DEF RegEntry
<1>5. \A i \in ToSet(c.ready_to_execute) : ReadyEntry(c, i) => ReadyEntry(d, i)
  BY <1>1, <1>2 DEF ReadyEntry, SameReg
<1> QED
  BY <1>3, <1>4, <1>5 DEF RegInv, SameReg

(* The last member of S below i.                                             *)
LEMMA LastBeforeIs ==
  ASSUME program \in Programs, NEW S \in SUBSET Ids, NEW i \in Ids
  PROVE  \/ LastBefore(i, S) = 0 /\ \A p \in S : ~ (p < i)
         \/ /\ LastBefore(i, S) \in S /\ LastBefore(i, S) < i
            /\ \A p \in S : p < i => p <= LastBefore(i, S)
<1>1. Ids \subseteq Nat
  BY Program
<1>2. CASE ~ \E p \in S : p < i
  BY <1>2 DEF LastBefore
<1>3. CASE \E p \in S : p < i
  <2>1. PICK T : T = {p \in S : p < i}
    OBVIOUS
  <2>2. T \in SUBSET Int /\ T # {} /\ i \in Int /\ \A p \in T : p <= i
    <3>1. i \in Nat /\ S \subseteq Nat
      BY <1>1
    <3>2. T \in SUBSET S /\ \A p \in T : p < i
      BY <2>1
    <3>3. T # {}
      BY <1>3, <2>1
    <3>4. \A p \in T : p \in Nat /\ p < i
      BY <3>1, <3>2
    <3> QED
      BY <3>1, <3>2, <3>3, <3>4
  <2>3. Max(T) \in T /\ \A p \in T : p <= Max(T)
    BY <2>2, GreatestOf
  <2>4. LastBefore(i, S) = Max(T)
    BY <1>3, <2>1 DEF LastBefore
  <2> QED
    BY <2>1, <2>3, <2>4
<1> QED
  BY <1>2, <1>3

LEMMA LastWriterIs ==
  ASSUME program \in Programs, NEW i \in Ids, NEW r
  PROVE  \/ LastWriter(i, r) = 0 /\ \A p \in Ids : r \in program[p].dst => ~ (p < i)
         \/ /\ LastWriter(i, r) \in Ids /\ r \in program[LastWriter(i, r)].dst
            /\ LastWriter(i, r) < i
            /\ \A p \in Ids : r \in program[p].dst /\ p < i => p <= LastWriter(i, r)
<1>1. PICK S : S = {q \in Ids : r \in program[q].dst}
  OBVIOUS
<1>2. S \in SUBSET Ids
  BY <1>1
<1>3. LastWriter(i, r) = LastBefore(i, S)
  BY <1>1 DEF LastWriter
<1>4. \/ LastBefore(i, S) = 0 /\ \A p \in S : ~ (p < i)
      \/ /\ LastBefore(i, S) \in S /\ LastBefore(i, S) < i
         /\ \A p \in S : p < i => p <= LastBefore(i, S)
  BY <1>2, LastBeforeIs
<1> QED
  BY <1>1, <1>3, <1>4

-----------------------------------------------------------------------------
(* complete_inflight_instruction.                                            *)

LEMMA CompletingIs ==
  ASSUME NEW c, RobInv(c)
  PROVE  /\ Completing(c) \subseteq Rob(c) /\ IsFiniteSet(Completing(c))
         /\ \A i \in Completing(c) : c.entry[i].executed = "INFLIGHT" /\ c.entry[i].num_mem_ops = 0
         /\ \A j : Over(c, j) \subseteq Completing(c)
<1>1. /\ Completing(c) \subseteq Rob(c)
      /\ \A i \in Completing(c) : c.entry[i].executed = "INFLIGHT" /\ c.entry[i].num_mem_ops = 0
  BY DEF Completing, Lowest
<1>2. IsFiniteSet(Completing(c))
  BY <1>1, RobIs, FS_Subset
<1> QED
  BY <1>1, <1>2 DEF Over

LEMMA WokenLists ==
  ASSUME NEW c, RobInv(c)
  PROVE  Lists(Woken(c), {j \in Freed(c) : ~IsMemory(j)})
<1>1. PICK m : m = [j \in Freed(c) |-> Max(Over(c, j))]
  OBVIOUS
<1>2. ASSUME NEW j \in Freed(c)  PROVE m[j] \in Int /\ j \in Int
  <2>1. Over(c, j) # {} /\ Over(c, j) \subseteq Rob(c) /\ j \in Ids
    BY CompletingIs DEF Freed
  <2>2. Over(c, j) \in SUBSET Int /\ c.tail \in Int /\ \A p \in Over(c, j) : p <= c.tail
    <3>1. \A p \in Rob(c) : p \in Int /\ p <= c.tail
      BY RobIs DEF RobInv, Bounds
    <3> QED
      BY <2>1, <3>1 DEF RobInv, Bounds
  <2>3. Max(Over(c, j)) \in Over(c, j)
    BY <2>1, <2>2, GreatestOf
  <2> QED
    BY <1>1, <2>1, <2>2, <2>3, RobIs
<1>3. PICK W : W = {j \in Freed(c) : ~IsMemory(j)}
  OBVIOUS
<1>4. IsFiniteSet(W)
  <2>1. W \in SUBSET Ids
    BY <1>3 DEF Freed
  <2> QED
    BY <2>1, RobIs, FS_Subset
<1>5. \A i, j \in W : <<i, j>> \in Sooner(c) <=> m[i] < m[j] \/ (m[i] = m[j] /\ i < j)
  BY <1>1, <1>3 DEF Sooner
<1>6. \A i \in W : m[i] \in Int /\ i \in Int
  BY <1>2, <1>3
<1>7. /\ \A i \in W : <<i, i>> \notin Sooner(c)
      /\ \A i, j \in W : i # j => <<i, j>> \in Sooner(c) \/ <<j, i>> \in Sooner(c)
      /\ \A i, j, k \in W : <<i, j>> \in Sooner(c) /\ <<j, k>> \in Sooner(c) => <<i, k>> \in Sooner(c)
  BY <1>5, <1>6
<1>8. Lists(Arranged(W, Sooner(c)), W)
  BY <1>4, <1>7, ArrangedLists
<1> QED
  BY <1>3, <1>8 DEF Woken

LEMMA CompleteKeepsReg ==
  ASSUME NEW c, RobInv(c), RegInv(c), NEW d, d = complete_inflight_instruction(c)
  PROVE  RobInv(d) /\ RegInv(d)
<1>0. CoreShape(d) /\ CompleteEffect(c, d)
  <2>1. CoreShape(c)
    BY DEF RobInv
  <2> QED
    BY <2>1, CompleteDoes
<1>1. /\ CoreShape(d) /\ d.head = c.head /\ d.tail = c.tail /\ d.read = c.read /\ d.wq = c.wq
      /\ d.inflight_reg_executions =
           c.inflight_reg_executions - Cardinality({i \in Completing(c) : ~IsMemory(i)})
      /\ d.ready_to_execute = c.ready_to_execute \o Woken(c)
  BY <1>0 DEF CompleteEffect
<1>2. \A i \in Ids :
        /\ d.entry[i].executed = (IF i \in Completing(c) THEN "COMPLETED" ELSE c.entry[i].executed)
        /\ d.entry[i].num_reg_dependent = Left(c, i)
        /\ d.entry[i].scheduled = (IF i \notin Freed(c) THEN c.entry[i].scheduled
                                   ELSE IF IsMemory(i) THEN "INFLIGHT" ELSE "COMPLETED")
        /\ d.entry[i].registers_instrs_depend_on_me = c.entry[i].registers_instrs_depend_on_me
  BY <1>0 DEF CompleteEffect
<1>3. RobInv(d) /\ Rob(d) = Rob(c) /\ Rob(c) \subseteq Ids /\ IsFiniteSet(Rob(c))
  BY <1>1, RobIs DEF RobInv, Bounds, Rob
<1>4. /\ Completing(c) \subseteq Rob(c)
      /\ \A i \in Completing(c) : c.entry[i].executed = "INFLIGHT"
      /\ \A j : Over(c, j) \subseteq Completing(c)
  BY CompletingIs
<1>5. \A j \in Ids : Over(c, j) \subseteq Pending(c, j) /\ Pending(d, j) = Pending(c, j) \ Over(c, j)
  BY <1>2, <1>3, <1>4 DEF Over, Pending
<1>6. ASSUME NEW j \in Ids
      PROVE  /\ IsFiniteSet(Pending(d, j)) /\ Cardinality(Pending(d, j)) = Left(c, j)
             /\ j \in Freed(c) => /\ Pending(d, j) = {} /\ Pending(c, j) # {} /\ j \in Rob(c)
                                  /\ c.entry[j].scheduled # "no" /\ c.entry[j].executed = "no"
  <2>1. IsFiniteSet(Pending(c, j)) /\ Pending(c, j) \cap Over(c, j) = Over(c, j)
    <3>1. Pending(c, j) \in SUBSET Rob(c)
      BY DEF Pending
    <3> QED
      BY <1>3, <1>5, <3>1, FS_Subset
  <2>2. /\ IsFiniteSet(Pending(d, j))
        /\ Cardinality(Pending(d, j)) = Cardinality(Pending(c, j)) - Cardinality(Over(c, j))
    <3>1. /\ IsFiniteSet(Pending(c, j) \ Over(c, j))
          /\ Cardinality(Pending(c, j) \ Over(c, j)) =
               Cardinality(Pending(c, j)) - Cardinality(Pending(c, j) \cap Over(c, j))
      BY <2>1, FS_Difference
    <3> QED
      BY <1>5, <2>1, <3>1
  <2>3. RegEntry(c, j)
    BY DEF RegInv
  <2>4. Cardinality(Pending(d, j)) = Left(c, j)
    BY <2>2, <2>3 DEF Left, RegEntry
  <2>5. ASSUME j \in Freed(c)
        PROVE  /\ Pending(d, j) = {} /\ Pending(c, j) # {} /\ j \in Rob(c)
               /\ c.entry[j].scheduled # "no" /\ c.entry[j].executed = "no"
    <3>1. Left(c, j) = 0 /\ Over(c, j) # {}
      BY <2>5 DEF Freed
    <3>2. Pending(d, j) = {}
      BY <2>2, <2>4, <3>1, FS_EmptySet
    <3>3. Pending(c, j) # {}
      BY <1>5, <3>1
    <3> QED
      BY <2>3, <3>2, <3>3 DEF RegEntry
  <2> QED
    BY <2>2, <2>4, <2>5
<1>7. ASSUME NEW i \in Ids  PROVE RegEntry(d, i)
  <2>1. RegEntry(c, i)
    BY DEF RegInv
  <2>2. d.entry[i].scheduled \in Status /\ d.entry[i].executed \in Status
    BY <1>2, <2>1 DEF RegEntry, Status
  <2>3. i \notin Rob(d) => /\ d.entry[i].scheduled = "no" /\ d.entry[i].executed = "no"
                           /\ d.entry[i].registers_instrs_depend_on_me = {}
    BY <1>2, <1>3, <1>4, <1>6, <2>1 DEF RegEntry
  <2>4. d.entry[i].scheduled = "no" => d.entry[i].executed = "no" /\ Pending(d, i) = {}
    BY <1>2, <1>4, <1>5, <2>1 DEF RegEntry
  <2>5. d.entry[i].executed # "no" => Pending(d, i) = {}
    BY <1>2, <1>4, <1>5, <2>1 DEF RegEntry
  <2>6. d.entry[i].num_reg_dependent = Cardinality(Pending(d, i))
    BY <1>2, <1>6
  <2>7. d.entry[i].scheduled = "INFLIGHT" => d.entry[i].executed = "no"
    BY <1>2, <1>4, <1>6, <2>1 DEF RegEntry
  <2>8. ASSUME d.entry[i].scheduled # "no", NEW r \in program[i].src, NEW p, p = LastWriter(i, r),
               p \in Rob(d), d.entry[p].executed # "COMPLETED"
        PROVE  p \in Pending(d, i)
    <3>1. p \in Ids /\ p \in Rob(c) /\ c.entry[p].executed # "COMPLETED" /\ p \notin Completing(c)
      BY <1>2, <1>3, <2>8
    <3>2. c.entry[i].scheduled # "no"
      BY <1>2, <1>6, <2>8
    <3>3. p \in Pending(c, i)
      BY <2>1, <2>8, <3>1, <3>2 DEF RegEntry
    <3> QED
      BY <1>4, <1>5, <3>1, <3>3
  <2> QED
    BY <2>2, <2>3, <2>4, <2>5, <2>6, <2>7, <2>8 DEF RegEntry
<1>8. PICK W : W = {j \in Freed(c) : ~IsMemory(j)}
  OBVIOUS
<1>9. Woken(c) \in Seq(Ids) /\ Distinct(Woken(c)) /\ ToSet(Woken(c)) = W
  <2>1. Woken(c) \in Seq(W) /\ W \subseteq Ids /\ Distinct(Woken(c)) /\ ToSet(Woken(c)) = W
    BY <1>8, WokenLists DEF Lists, Freed
  <2> QED
    BY <2>1, SeqDef
<1>10. /\ c.ready_to_execute \in Seq(Ids) /\ Distinct(c.ready_to_execute)
       /\ \A i \in ToSet(c.ready_to_execute) : ReadyEntry(c, i)
  BY DEF RegInv
<1>11. ToSet(c.ready_to_execute) \cap ToSet(Woken(c)) = {}
  <2>1. \A i \in W : i \in Ids /\ Pending(c, i) # {}
    BY <1>6, <1>8 DEF Freed
  <2> QED
    BY <1>9, <1>10, <2>1 DEF ReadyEntry
<1>12. /\ d.ready_to_execute \in Seq(Ids) /\ Distinct(d.ready_to_execute)
       /\ ToSet(d.ready_to_execute) = ToSet(c.ready_to_execute) \cup W
  BY <1>1, <1>9, <1>10, <1>11, JoinQueue
<1>13. ASSUME NEW i \in ToSet(c.ready_to_execute)  PROVE ReadyEntry(d, i)
  <2>1. ReadyEntry(c, i) /\ i \in Ids
    BY <1>3, <1>10 DEF ReadyEntry
  <2>2. i \notin Freed(c) /\ i \notin Completing(c)
    BY <1>4, <1>6, <2>1 DEF ReadyEntry
  <2> QED
    BY <1>2, <1>3, <1>5, <2>1, <2>2 DEF ReadyEntry
<1>14. ASSUME NEW i \in W  PROVE ReadyEntry(d, i)
  <2>1. i \in Ids /\ i \in Freed(c) /\ ~IsMemory(i)
    BY <1>8 DEF Freed
  <2>2. i \notin Completing(c)
    BY <1>4, <1>6, <2>1
  <2> QED
    BY <1>2, <1>3, <1>6, <2>1, <2>2 DEF ReadyEntry
<1>15. d.inflight_reg_executions = Cardinality(InFlight(d))
  <2>1. PICK D : D = {i \in Completing(c) : ~IsMemory(i)}
    OBVIOUS
  <2>2. InFlight(d) = InFlight(c) \ D /\ InFlight(c) \cap D = D
    BY <1>2, <1>3, <1>4, <2>1 DEF InFlight
  <2>3. IsFiniteSet(InFlight(c))
    <3>1. InFlight(c) \in SUBSET Rob(c)
      BY DEF InFlight
    <3> QED
      BY <1>3, <3>1, FS_Subset
  <2>4. Cardinality(InFlight(c) \ D) = Cardinality(InFlight(c)) - Cardinality(InFlight(c) \cap D)
    BY <2>3, FS_Difference
  <2> QED
    BY <1>1, <2>1, <2>2, <2>4 DEF RegInv
<1> QED
  BY <1>3, <1>7, <1>12, <1>13, <1>14, <1>15 DEF RegInv

-----------------------------------------------------------------------------
(* execute_instruction.                                                      *)

LEMMA BeginIs ==
  ASSUME NEW c, RegInv(c)
  PROVE  /\ Begin(c) \in 0 .. Len(c.ready_to_execute)
         /\ Begun(c) \subseteq ToSet(c.ready_to_execute)
         /\ Rest(c.ready_to_execute, Begin(c)) \in Seq(Ids)
         /\ Distinct(Rest(c.ready_to_execute, Begin(c)))
         /\ ToSet(Rest(c.ready_to_execute, Begin(c))) = ToSet(c.ready_to_execute) \ Begun(c)
         /\ IsFiniteSet(Begun(c)) /\ Cardinality(Begun(c)) = Begin(c)
<1>1. PICK q : q = c.ready_to_execute
  OBVIOUS
<1>2. q \in Seq(Ids) /\ Distinct(q)
  BY <1>1 DEF RegInv
<1>3. Begin(c) \in 0 .. Len(q)
  <2>1. EXEC_WIDTH \in Nat /\ Len(q) \in Nat
    BY <1>2, Sizes
  <2>2. Min({EXEC_WIDTH, Len(q)}) \in {EXEC_WIDTH, Len(q)} /\ Min({EXEC_WIDTH, Len(q)}) <= Len(q)
    BY <2>1, MinOfTwo
  <2> QED
    BY <1>1, <2>1, <2>2 DEF Begin
<1>4. PICK n : n = Begin(c)
  OBVIOUS
<1>5. /\ Rest(q, n) \in Seq(Ids)
      /\ ToSet(q) = ToSet(First(q, n)) \cup ToSet(Rest(q, n))
      /\ Distinct(Rest(q, n))
      /\ ToSet(First(q, n)) \cap ToSet(Rest(q, n)) = {}
      /\ IsFiniteSet(ToSet(First(q, n))) /\ Cardinality(ToSet(First(q, n))) = n
  BY <1>2, <1>3, <1>4, SplitQueue
<1>6. Begun(c) = ToSet(First(q, n))
  BY <1>1, <1>4 DEF Begun
<1>7. Rest(q, n) = Rest(c.ready_to_execute, Begin(c))
  BY <1>1, <1>4
<1> QED
  BY <1>1, <1>3, <1>4, <1>5, <1>6, <1>7

LEMMA ExecuteKeepsReg ==
  ASSUME NEW c, RobInv(c), RegInv(c), NEW d, d = execute_instruction(c)
  PROVE  RobInv(d) /\ RegInv(d)
<1>0. CoreShape(d) /\ ExecuteEffect(c, d)
  <2>1. CoreShape(c)
    BY DEF RobInv
  <2> QED
    BY <2>1, ExecuteDoes
<1>1. /\ d.head = c.head /\ d.tail = c.tail /\ d.read = c.read /\ d.wq = c.wq
      /\ d.inflight_reg_executions = c.inflight_reg_executions + Begin(c)
      /\ d.ready_to_execute = Rest(c.ready_to_execute, Begin(c))
  BY <1>0 DEF ExecuteEffect
<1>2. \A i \in Ids :
        /\ d.entry[i].executed = (IF i \in Begun(c) THEN "INFLIGHT" ELSE c.entry[i].executed)
        /\ d.entry[i].num_reg_dependent = c.entry[i].num_reg_dependent
        /\ d.entry[i].scheduled = c.entry[i].scheduled
        /\ d.entry[i].registers_instrs_depend_on_me = c.entry[i].registers_instrs_depend_on_me
  BY <1>0 DEF ExecuteEffect
<1>3. RobInv(d) /\ Rob(d) = Rob(c) /\ Rob(c) \subseteq Ids /\ IsFiniteSet(Rob(c))
  BY <1>0, <1>1, RobIs DEF RobInv, Bounds, Rob
<1>4. /\ Begun(c) \subseteq ToSet(c.ready_to_execute)
      /\ d.ready_to_execute \in Seq(Ids) /\ Distinct(d.ready_to_execute)
      /\ ToSet(d.ready_to_execute) = ToSet(c.ready_to_execute) \ Begun(c)
      /\ IsFiniteSet(Begun(c)) /\ Cardinality(Begun(c)) = Begin(c)
  BY <1>1, BeginIs
<1>5. \A i \in ToSet(c.ready_to_execute) : ReadyEntry(c, i)
  BY DEF RegInv
<1>6. \A i \in Begun(c) : /\ i \in Rob(c) /\ i \in Ids /\ ~IsMemory(i) /\ Pending(c, i) = {}
                          /\ c.entry[i].scheduled = "COMPLETED" /\ c.entry[i].executed = "no"
  BY <1>3, <1>4, <1>5 DEF ReadyEntry
<1>7. \A i \in Ids : d.entry[i].executed = "COMPLETED" <=> c.entry[i].executed = "COMPLETED"
  BY <1>2, <1>6
<1>8. \A i \in Ids : Pending(d, i) = Pending(c, i)
  BY <1>2, <1>3, <1>7 DEF Pending
<1>9. ASSUME NEW i \in Ids  PROVE RegEntry(d, i)
  <2>1. RegEntry(c, i)
    BY DEF RegInv
  <2>2. \A p \in Rob(c) : d.entry[p].executed = "COMPLETED" <=> c.entry[p].executed = "COMPLETED"
    BY <1>3, <1>7
  <2>3. CASE i \in Begun(c)
    BY <1>2, <1>3, <1>6, <1>8, <2>1, <2>2, <2>3 DEF RegEntry, Status
  <2>4. CASE i \notin Begun(c)
    BY <1>2, <1>3, <1>8, <2>1, <2>2, <2>4 DEF RegEntry
  <2> QED
    BY <2>3, <2>4
<1>10. ASSUME NEW i \in ToSet(d.ready_to_execute)  PROVE ReadyEntry(d, i)
  <2>1. ReadyEntry(c, i) /\ i \notin Begun(c) /\ i \in Ids
    BY <1>3, <1>4, <1>5 DEF ReadyEntry
  <2> QED
    BY <1>2, <1>3, <1>8, <2>1 DEF ReadyEntry
<1>11. d.inflight_reg_executions = Cardinality(InFlight(d))
  <2>1. InFlight(d) = InFlight(c) \cup Begun(c) /\ InFlight(c) \cap Begun(c) = {}
    BY <1>2, <1>3, <1>6 DEF InFlight
  <2>2. IsFiniteSet(InFlight(c))
    <3>1. InFlight(c) \in SUBSET Rob(c)
      BY DEF InFlight
    <3> QED
      BY <1>3, <3>1, FS_Subset
  <2>3. Cardinality(InFlight(c) \cup Begun(c)) =
          Cardinality(InFlight(c)) + Cardinality(Begun(c)) - Cardinality(InFlight(c) \cap Begun(c))
    BY <1>4, <2>2, FS_Union
  <2>4. /\ Cardinality(InFlight(c) \cap Begun(c)) = 0
        /\ Cardinality(InFlight(c)) \in Nat /\ Cardinality(Begun(c)) \in Nat
    BY <1>4, <2>1, <2>2, FS_EmptySet, FS_CardinalityType
  <2> QED
    BY <1>1, <1>4, <2>1, <2>3, <2>4 DEF RegInv
<1> QED
  BY <1>3, <1>4, <1>9, <1>10, <1>11 DEF RegInv

-----------------------------------------------------------------------------
(* schedule_instruction.                                                     *)

LEMMA ProducersAre ==
  ASSUME NEW c, RobInv(c), NEW i \in Ids
  PROVE  /\ RegProducers(c, i) \subseteq Rob(c)
         /\ \A p \in RegProducers(c, i) : p < i /\ c.entry[p].executed # "COMPLETED"
         /\ \A r \in program[i].src :
              LastWriter(i, r) \in Rob(c) /\ c.entry[LastWriter(i, r)].executed # "COMPLETED" =>
                 LastWriter(i, r) \in RegProducers(c, i)
<1>0. Rob(c) \subseteq Nat /\ Rob(c) \subseteq Ids /\ Ids \subseteq Nat
  BY RobIs
<1>1. ASSUME NEW r, Writers(c, i, r) # {}
      PROVE  /\ Max(Writers(c, i, r)) \in Writers(c, i, r)
             /\ \A p \in Writers(c, i, r) : p <= Max(Writers(c, i, r))
  <2>1. PICK W : W = Writers(c, i, r)
    OBVIOUS
  <2>2. i \in Nat /\ \A p \in W : p \in Rob(c) /\ p < i
    BY <1>0, <2>1 DEF Writers
  <2>3. W \in SUBSET Int /\ W # {} /\ i \in Int /\ \A p \in W : p <= i
    <3>1. \A p \in W : p \in Nat /\ p < i
      BY <1>0, <2>2
    <3> QED
      BY <1>1, <2>1, <2>2, <3>1
  <2> QED
    BY <2>1, <2>3, GreatestOf
<1>2. \A p \in RegProducers(c, i) : p \in Rob(c) /\ p < i /\ c.entry[p].executed # "COMPLETED"
  <2> SUFFICES ASSUME NEW p \in RegProducers(c, i)
               PROVE  p \in Rob(c) /\ p < i /\ c.entry[p].executed # "COMPLETED"
    OBVIOUS
  <2>1. PICK r \in program[i].src : Writers(c, i, r) # {} /\ p = Max(Writers(c, i, r))
    BY DEF RegProducers
  <2>2. p \in Writers(c, i, r)
    BY <1>1, <2>1
  <2> QED
    BY <2>2 DEF Writers
<1>3. ASSUME NEW r \in program[i].src, NEW w, w = LastWriter(i, r),
             w \in Rob(c), c.entry[w].executed # "COMPLETED"
      PROVE  w \in RegProducers(c, i)
  <2>0. w \in Nat /\ w # 0
    BY <1>0, <1>3, Program DEF RobInv
  <2>1. /\ w \in Ids /\ r \in program[w].dst /\ w < i
        /\ \A p \in Ids : r \in program[p].dst /\ p < i => p <= w
    <3>1. program \in Programs
      BY DEF RobInv
    <3> QED
      BY <1>3, <2>0, <3>1, LastWriterIs
  <2>2. w \in Writers(c, i, r)
    BY <1>3, <2>1 DEF Writers
  <2>3. /\ Max(Writers(c, i, r)) \in Writers(c, i, r)
        /\ \A p \in Writers(c, i, r) : p <= Max(Writers(c, i, r))
    <3>1. Writers(c, i, r) # {}
      BY <2>2
    <3> QED
      BY <1>1, <3>1
  <2>4. PICK m : m = Max(Writers(c, i, r))
    OBVIOUS
  <2>5. m \in Rob(c) /\ m < i /\ r \in program[m].dst
    BY <2>3, <2>4 DEF Writers
  <2>6. m <= w /\ w <= m
    BY <1>0, <2>1, <2>2, <2>3, <2>4, <2>5
  <2>7. m \in Nat
    BY <1>0, <2>5
  <2>8. w = m
    BY <2>0, <2>6, <2>7
  <2> QED
    BY <1>3, <2>2, <2>4, <2>8 DEF RegProducers
<1> QED
  BY <1>0, <1>2, <1>3

LEMMA ScheduleKeepsReg ==
  ASSUME NEW c, RobInv(c), RegInv(c), NEW d, d = schedule_instruction(c)
  PROVE  RobInv(d) /\ RegInv(d)
<1>0. CoreShape(d) /\ ScheduleEffect(c, d)
  <2>1. CoreShape(c)
    BY DEF RobInv
  <2> QED
    BY <2>1, ScheduleDoes
<1>a. PICK R : R = {i \in Fresh(c) : ~IsMemory(i) /\ RegProducers(c, i) = {}}
  OBVIOUS
<1>1. /\ d.head = c.head /\ d.tail = c.tail /\ d.read = c.read /\ d.wq = c.wq
      /\ d.inflight_reg_executions = c.inflight_reg_executions
      /\ d.ready_to_execute = c.ready_to_execute \o InOrder(R)
  BY <1>0, <1>a DEF ScheduleEffect
<1>2. \A i \in Ids :
        /\ d.entry[i].executed = c.entry[i].executed
        /\ d.entry[i].num_reg_dependent =
             (IF i \in Fresh(c) THEN Cardinality(RegProducers(c, i)) ELSE c.entry[i].num_reg_dependent)
        /\ d.entry[i].scheduled = (IF i \notin Fresh(c) THEN c.entry[i].scheduled
                                   ELSE IF IsMemory(i) THEN "INFLIGHT" ELSE "COMPLETED")
        /\ \A j : j \in d.entry[i].registers_instrs_depend_on_me <=>
                    \/ j \in c.entry[i].registers_instrs_depend_on_me
                    \/ j \in Fresh(c) /\ i \in RegProducers(c, j)
  BY <1>0 DEF ScheduleEffect
<1>3. RobInv(d) /\ Rob(d) = Rob(c) /\ Rob(c) \subseteq Ids /\ IsFiniteSet(Rob(c))
  BY <1>0, <1>1, RobIs DEF RobInv, Bounds, Rob
<1>4. \A i \in Fresh(c) : i \in Rob(c) /\ i \in Ids /\ c.entry[i].scheduled = "no"
  BY <1>3 DEF Fresh, Window
<1>5. \A i \in Ids : RegEntry(c, i)
  BY DEF RegInv
<1>6. \A i \in Fresh(c) : c.entry[i].executed = "no" /\ Pending(c, i) = {}
  BY <1>4, <1>5 DEF RegEntry
<1>7. ASSUME NEW i \in Ids, i \notin Fresh(c)  PROVE Pending(d, i) = Pending(c, i)
  BY <1>2, <1>3, <1>7 DEF Pending
<1>8. ASSUME NEW i \in Ids, i \in Fresh(c)  PROVE Pending(d, i) = RegProducers(c, i)
  <2>1. \A p : p \in Rob(c) /\ c.entry[p].executed # "COMPLETED"
                 => i \notin c.entry[p].registers_instrs_depend_on_me
    BY <1>6, <1>8 DEF Pending
  <2>2. \A p \in RegProducers(c, i) : p \in Rob(c) /\ c.entry[p].executed # "COMPLETED"
    BY ProducersAre
  <2> QED
    BY <1>2, <1>3, <1>8, <2>1, <2>2 DEF Pending
<1>9. ASSUME NEW i \in Ids  PROVE RegEntry(d, i)
  <2>1. RegEntry(c, i)
    BY <1>5
  <2>2. \A p \in Rob(c) : d.entry[p].executed = c.entry[p].executed
    BY <1>2, <1>3
  <2>3. CASE i \in Fresh(c)
    <3>1. /\ d.entry[i].executed = "no" /\ i \in Rob(d)
          /\ d.entry[i].scheduled \in {"INFLIGHT", "COMPLETED"}
          /\ d.entry[i].num_reg_dependent = Cardinality(Pending(d, i))
      BY <1>2, <1>3, <1>4, <1>6, <1>8, <2>3
    <3>2. \A r \in program[i].src :
            LastWriter(i, r) \in Rob(d) /\ d.entry[LastWriter(i, r)].executed # "COMPLETED" =>
               LastWriter(i, r) \in Pending(d, i)
      <4>1. \A r \in program[i].src :
              LastWriter(i, r) \in Rob(c) /\ c.entry[LastWriter(i, r)].executed # "COMPLETED" =>
                 LastWriter(i, r) \in RegProducers(c, i)
        BY ProducersAre
      <4> QED
        BY <1>3, <1>8, <2>2, <2>3, <4>1
    <3> QED
      BY <3>1, <3>2 DEF RegEntry, Status
  <2>4. CASE i \notin Fresh(c)
    <3>1. /\ d.entry[i].executed = c.entry[i].executed /\ d.entry[i].scheduled = c.entry[i].scheduled
          /\ d.entry[i].num_reg_dependent = c.entry[i].num_reg_dependent
      BY <1>2, <2>4
    <3>2. Pending(d, i) = Pending(c, i)
      BY <1>7, <2>4
    <3>3. i \notin Rob(c) => d.entry[i].registers_instrs_depend_on_me = {}
      <4>1. ASSUME i \notin Rob(c), NEW j \in d.entry[i].registers_instrs_depend_on_me  PROVE FALSE
        <5>1. j \notin c.entry[i].registers_instrs_depend_on_me
          BY <2>1, <4>1 DEF RegEntry
        <5>2. j \in Fresh(c) /\ i \in RegProducers(c, j)
          BY <1>2, <4>1, <5>1
        <5>3. j \in Ids
          BY <1>4, <5>2
        <5>4. RegProducers(c, j) \subseteq Rob(c)
          BY <5>3, ProducersAre
        <5> QED
          BY <4>1, <5>2, <5>4
      <4> QED
        BY <4>1
    <3> QED
      BY <1>3, <2>1, <2>2, <3>1, <3>2, <3>3 DEF RegEntry
  <2> QED
    BY <2>3, <2>4
<1>10. /\ c.ready_to_execute \in Seq(Ids) /\ Distinct(c.ready_to_execute)
       /\ \A i \in ToSet(c.ready_to_execute) : ReadyEntry(c, i)
  BY DEF RegInv
<1>11. InOrder(R) \in Seq(Ids) /\ Distinct(InOrder(R)) /\ ToSet(InOrder(R)) = R
  <2>1. R \in SUBSET Rob(c)
    BY <1>a, <1>4
  <2>2. R \in SUBSET Int /\ IsFiniteSet(R) /\ R \subseteq Ids
    BY <1>3, <2>1, RobIs, FS_Subset
  <2>3. InOrder(R) \in Seq(R) /\ Distinct(InOrder(R)) /\ ToSet(InOrder(R)) = R
    BY <2>2, NthIs DEF Lists
  <2> QED
    BY <2>2, <2>3, WiderSeq
<1>12. ToSet(c.ready_to_execute) \cap ToSet(InOrder(R)) = {}
  BY <1>a, <1>4, <1>10, <1>11 DEF ReadyEntry
<1>13. /\ d.ready_to_execute \in Seq(Ids) /\ Distinct(d.ready_to_execute)
       /\ ToSet(d.ready_to_execute) = ToSet(c.ready_to_execute) \cup R
  BY <1>1, <1>10, <1>11, <1>12, JoinQueue
<1>14. ASSUME NEW i \in ToSet(c.ready_to_execute)  PROVE ReadyEntry(d, i)
  <2>1. ReadyEntry(c, i) /\ i \in Ids
    BY <1>3, <1>10 DEF ReadyEntry
  <2>2. i \notin Fresh(c)
    BY <1>4, <2>1 DEF ReadyEntry
  <2> QED
    BY <1>2, <1>3, <1>7, <2>1, <2>2 DEF ReadyEntry
<1>15. ASSUME NEW i \in R  PROVE ReadyEntry(d, i)
  <2>1. i \in Ids /\ i \in Fresh(c) /\ ~IsMemory(i) /\ RegProducers(c, i) = {}
    BY <1>a, <1>4
  <2> QED
    BY <1>2, <1>3, <1>4, <1>6, <1>8, <2>1 DEF ReadyEntry
<1>16. InFlight(d) = InFlight(c)
  BY <1>2, <1>3 DEF InFlight
<1> QED
  BY <1>1, <1>3, <1>9, <1>13, <1>14, <1>15, <1>16 DEF RegInv

-----------------------------------------------------------------------------
(* The stages that move memory accesses leave the registers alone.           *)

LEMMA ReturnKeepsReg ==
  ASSUME NEW c, RobInv(c), RegInv(c), NEW d, d = handle_memory_return(c)
  PROVE  RobInv(d) /\ RegInv(d) /\ SameReg(c, d)
<1>1. CoreShape(d) /\ ReturnEffect(c, d)
  <2>1. CoreShape(c)
    BY DEF RobInv
  <2> QED
    BY <2>1, ReturnDoes
<1>2. SameReg(c, d) /\ d.read = c.read /\ d.wq = c.wq
  BY <1>1 DEF ReturnEffect, SameReg
<1>3. RobInv(d)
  BY <1>1, <1>2 DEF RobInv, Bounds, SameReg
<1> QED
  BY <1>2, <1>3, SameKeepsReg

LEMMA StoresKeepReg ==
  ASSUME NEW c, RobInv(c), RegInv(c), NEW d, d = operate_stores(c)
  PROVE  RobInv(d) /\ RegInv(d) /\ SameReg(c, d)
<1>1. CoreShape(d) /\ StoresEffect(c, d)
  <2>1. CoreShape(c)
    BY DEF RobInv
  <2> QED
    BY <2>1, StoresDo
<1>2. SameReg(c, d) /\ d.read = c.read /\ d.wq = c.wq
  BY <1>1 DEF StoresEffect, SameReg
<1>3. RobInv(d)
  BY <1>1, <1>2 DEF RobInv, Bounds, SameReg
<1> QED
  BY <1>2, <1>3, SameKeepsReg

LEMMA LoadsKeepReg ==
  ASSUME NEW c, RobInv(c), RegInv(c), NEW d, d = operate_loads(c)
  PROVE  RobInv(d) /\ RegInv(d) /\ SameReg(c, d)
<1>1. CoreShape(d) /\ LoadsEffect(c, d)
  <2>1. CoreShape(c)
    BY DEF RobInv
  <2> QED
    BY <2>1, LoadsDo
<1>2. SameReg(c, d) /\ d.read = c.read /\ d.wq = c.wq
  BY <1>1 DEF LoadsEffect, SameReg
<1>3. RobInv(d)
  BY <1>1, <1>2 DEF RobInv, Bounds, SameReg
<1> QED
  BY <1>2, <1>3, SameKeepsReg

LEMMA AddLoadsKeepsReg ==
  ASSUME NEW c, RobInv(c), RegInv(c), NEW V, NEW d, d = add_load_queue(c, V)
  PROVE  RobInv(d) /\ RegInv(d) /\ SameReg(c, d)
<1>1. CoreShape(d) /\ AddLoadsEffect(c, V, d)
  <2>1. CoreShape(c)
    BY DEF RobInv
  <2> QED
    BY <2>1, AddLoadsDo
<1>2. SameReg(c, d) /\ d.read = c.read /\ d.wq = c.wq
  BY <1>1 DEF AddLoadsEffect, SameReg
<1>3. RobInv(d)
  BY <1>1, <1>2 DEF RobInv, Bounds, SameReg
<1> QED
  BY <1>2, <1>3, SameKeepsReg

LEMMA AddStoresKeepsReg ==
  ASSUME NEW c, RobInv(c), RegInv(c), NEW V, NEW d, d = add_store_queue(c, V)
  PROVE  RobInv(d) /\ RegInv(d) /\ SameReg(c, d)
<1>1. CoreShape(d) /\ AddStoresEffect(c, V, d)
  <2>1. CoreShape(c)
    BY DEF RobInv
  <2> QED
    BY <2>1, AddStoresDo
<1>2. SameReg(c, d) /\ d.read = c.read /\ d.wq = c.wq
  BY <1>1 DEF AddStoresEffect, SameReg
<1>3. RobInv(d)
  BY <1>1, <1>2 DEF RobInv, Bounds, SameReg
<1> QED
  BY <1>2, <1>3, SameKeepsReg

LEMMA NextCycleKeepsReg ==
  ASSUME NEW c, RobInv(c), RegInv(c), NEW d, d = NextCycle(c)
  PROVE  RobInv(d) /\ RegInv(d)
<1>1. CoreShape(d) /\ NextCycleEffect(c, d)
  <2>1. CoreShape(c)
    BY DEF RobInv
  <2> QED
    BY <2>1, NextCycleDoes
<1>2. SameReg(c, d) /\ d.read = c.read /\ d.wq = c.wq
  BY <1>1 DEF NextCycleEffect, SameReg
<1>3. RobInv(d)
  BY <1>1, <1>2 DEF RobInv, Bounds, SameReg
<1> QED
  BY <1>2, <1>3, SameKeepsReg

(* Memory instructions that are ready begin when they enter the queues.      *)
LEMMA AddedAre ==
  ASSUME NEW c, NEW V, NEW i \in Added(c, V)
  PROVE  i \in V /\ IsMemory(i) /\ c.entry[i].num_reg_dependent = 0 /\ c.entry[i].scheduled = "INFLIGHT"
  BY DEF Added, AddedLoads, AddedStores, Stores, Schedulable

LEMMA MemScheduledKeepsReg ==
  ASSUME NEW c, RobInv(c), RegInv(c), NEW S,
         \A i \in S : /\ i \in Rob(c) /\ IsMemory(i) /\ c.entry[i].num_reg_dependent = 0
                      /\ c.entry[i].scheduled = "INFLIGHT",
         NEW d, d = MemScheduled(c, S)
  PROVE  RobInv(d) /\ RegInv(d)
<1>0. CoreShape(d) /\ MemScheduledEffect(c, S, d)
  <2>1. CoreShape(c)
    BY DEF RobInv
  <2> QED
    BY <2>1, MemScheduledDoes
<1>1. /\ d.head = c.head /\ d.tail = c.tail /\ d.read = c.read /\ d.wq = c.wq
      /\ d.inflight_reg_executions = c.inflight_reg_executions
      /\ d.ready_to_execute = c.ready_to_execute
  BY <1>0 DEF MemScheduledEffect
<1>2. \A i \in Ids :
        /\ d.entry[i].executed = (IF i \in S THEN "INFLIGHT" ELSE c.entry[i].executed)
        /\ d.entry[i].scheduled = (IF i \in S THEN "COMPLETED" ELSE c.entry[i].scheduled)
        /\ d.entry[i].num_reg_dependent = c.entry[i].num_reg_dependent
        /\ d.entry[i].registers_instrs_depend_on_me = c.entry[i].registers_instrs_depend_on_me
  BY <1>0 DEF MemScheduledEffect
<1>3. RobInv(d) /\ Rob(d) = Rob(c) /\ Rob(c) \subseteq Ids /\ IsFiniteSet(Rob(c))
  BY <1>0, <1>1, RobIs DEF RobInv, Bounds, Rob
<1>4. \A i \in Ids : RegEntry(c, i)
  BY DEF RegInv
<1>5. ASSUME NEW i \in S
      PROVE  i \in Rob(c) /\ i \in Ids /\ IsMemory(i) /\ c.entry[i].executed = "no" /\ Pending(c, i) = {}
  <2>1. i \in Ids /\ i \in Rob(c) /\ IsMemory(i) /\ RegEntry(c, i)
    BY <1>3, <1>4
  <2>2. c.entry[i].executed = "no" /\ Cardinality(Pending(c, i)) = 0
    BY <2>1 DEF RegEntry
  <2>3. IsFiniteSet(Pending(c, i))
    <3>1. Pending(c, i) \in SUBSET Rob(c)
      BY DEF Pending
    <3> QED
      BY <1>3, <3>1, FS_Subset
  <2> QED
    BY <2>1, <2>2, <2>3, FS_EmptySet
<1>6. \A i \in Ids : d.entry[i].executed = "COMPLETED" <=> c.entry[i].executed = "COMPLETED"
  BY <1>2, <1>5
<1>7. \A i \in Ids : Pending(d, i) = Pending(c, i)
  BY <1>2, <1>3, <1>6 DEF Pending
<1>8. ASSUME NEW i \in Ids  PROVE RegEntry(d, i)
  <2>1. RegEntry(c, i)
    BY <1>4
  <2>2. \A p \in Rob(c) : d.entry[p].executed = "COMPLETED" <=> c.entry[p].executed = "COMPLETED"
    BY <1>3, <1>6
  <2>3. CASE i \in S
    <3>1. c.entry[i].scheduled = "INFLIGHT"
      BY <2>3
    <3> QED
      BY <1>2, <1>3, <1>5, <1>7, <2>1, <2>2, <2>3, <3>1 DEF RegEntry, Status
  <2>4. CASE i \notin S
    BY <1>2, <1>3, <1>7, <2>1, <2>2, <2>4 DEF RegEntry
  <2> QED
    BY <2>3, <2>4
<1>9. ASSUME NEW i \in ToSet(c.ready_to_execute)  PROVE ReadyEntry(d, i)
  <2>1. ReadyEntry(c, i)
    BY DEF RegInv
  <2>2. i \notin S /\ i \in Ids
    BY <1>3, <1>5, <2>1 DEF ReadyEntry
  <2> QED
    BY <1>2, <1>3, <1>7, <2>1, <2>2 DEF ReadyEntry
<1>10. InFlight(d) = InFlight(c)
  BY <1>2, <1>3, <1>5 DEF InFlight
<1> QED
  BY <1>1, <1>3, <1>8, <1>9, <1>10 DEF RegInv

-----------------------------------------------------------------------------
(* dispatch_instruction.                                                     *)

LEMMA DispatchKeepsRob ==
  ASSUME NEW c, RobInv(c), NEW d, d = dispatch_instruction(c)
  PROVE  RobInv(d) /\ Rob(c) \subseteq Rob(d) /\ \A i \in Rob(d) : i \in Rob(c) \/ i >= c.tail
<1>0. CoreShape(d) /\ DispatchEffect(c, d)
  <2>1. CoreShape(c)
    BY DEF RobInv
  <2> QED
    BY <2>1, DispatchDoes
<1>1. PICK n : n = Min({DISPATCH_WIDTH, c.read - (c.tail - 1), ROB_SIZE - (c.tail - c.head)})
  OBVIOUS
<1>2. /\ Bounds(c) /\ program \in Programs /\ DISPATCH_WIDTH \in Nat /\ ROB_SIZE \in Nat
      /\ Len(program) \in Nat
  BY Sizes, Program DEF RobInv
<1>3. DISPATCH_WIDTH \in Nat /\ c.read - (c.tail - 1) \in Nat /\ ROB_SIZE - (c.tail - c.head) \in Nat
  BY <1>2 DEF Bounds
<1>4. PICK x, y : x = c.read - (c.tail - 1) /\ y = ROB_SIZE - (c.tail - c.head)
  OBVIOUS
<1>4a. n = Min({DISPATCH_WIDTH, x, y}) /\ DISPATCH_WIDTH \in Int /\ x \in Int /\ y \in Int
  BY <1>1, <1>3, <1>4
<1>4b. n \in {DISPATCH_WIDTH, x, y} /\ n <= x /\ n <= y
  BY <1>4a, MinOfThree
<1>5. /\ n \in Nat /\ n <= c.read - (c.tail - 1) /\ n <= ROB_SIZE - (c.tail - c.head)
  BY <1>3, <1>4, <1>4b
<1>6. d.tail = c.tail + n /\ d.head = c.head /\ d.read = c.read /\ d.wq = c.wq
  BY <1>0, <1>1 DEF DispatchEffect
<1>7. Bounds(d)
  BY <1>2, <1>5, <1>6 DEF Bounds
<1>8. Rob(c) \subseteq Rob(d) /\ \A i \in Rob(d) : i \in Rob(c) \/ i >= c.tail
  BY <1>2, <1>5, <1>6 DEF Bounds, Rob
<1> QED
  BY <1>0, <1>2, <1>7, <1>8 DEF RobInv

LEMMA DispatchKeepsReg ==
  ASSUME NEW c, RobInv(c), RegInv(c), NEW d, d = dispatch_instruction(c)
  PROVE  RegInv(d)
<1>0. CoreShape(d) /\ DispatchEffect(c, d)
  <2>1. CoreShape(c)
    BY DEF RobInv
  <2> QED
    BY <2>1, DispatchDoes
<1>1. /\ d.entry = c.entry /\ d.inflight_reg_executions = c.inflight_reg_executions
      /\ d.ready_to_execute = c.ready_to_execute
  BY <1>0 DEF DispatchEffect
<1>2. RobInv(d) /\ Rob(c) \subseteq Rob(d) /\ \A i \in Rob(d) : i \in Rob(c) \/ i >= c.tail
  BY DispatchKeepsRob
<1>3. Rob(d) \subseteq Ids
  BY <1>2, RobIs
<1>4. \A i \in Ids : RegEntry(c, i)
  BY DEF RegInv
<1>5. \A i \in Ids : i \notin Rob(c) =>
        /\ c.entry[i].scheduled = "no" /\ c.entry[i].executed = "no"
        /\ c.entry[i].registers_instrs_depend_on_me = {}
  BY <1>4 DEF RegEntry
<1>6. \A i \in Ids : Pending(d, i) = Pending(c, i)
  BY <1>1, <1>2, <1>3, <1>5 DEF Pending
<1>7. ASSUME NEW i \in Ids  PROVE RegEntry(d, i)
  <2>1. RegEntry(c, i)
    BY <1>4
  <2>2. ASSUME c.entry[i].scheduled # "no", NEW r, NEW w, w = LastWriter(i, r), w \in Rob(d)
        PROVE  w \in Rob(c)
    <3>1. i \in Rob(c)
      BY <1>5, <2>2
    <3>2. i < c.tail /\ i \in Nat /\ c.tail \in Nat
      BY <3>1, RobIs DEF RobInv, Bounds
    <3>3. w \in Nat /\ w # 0
      BY <1>2, <1>3, <2>2, RobIs, Program DEF RobInv
    <3>4. w < i
      <4>1. program \in Programs
        BY DEF RobInv
      <4> QED
        BY <2>2, <3>3, <4>1, LastWriterIs
    <3>5. ~ (w >= c.tail)
      BY <3>2, <3>3, <3>4
    <3> QED
      BY <1>2, <2>2, <3>5
  <2> QED
    BY <1>1, <1>2, <1>6, <2>1, <2>2 DEF RegEntry
<1>8. ASSUME NEW i \in ToSet(c.ready_to_execute)  PROVE ReadyEntry(d, i)
  <2>1. ReadyEntry(c, i)
    BY DEF RegInv
  <2>2. i \in Ids
    BY <1>2, <1>3, <2>1 DEF ReadyEntry
  <2> QED
    BY <1>1, <1>2, <1>6, <2>1, <2>2 DEF ReadyEntry
<1>9. InFlight(d) = InFlight(c)
  BY <1>1, <1>2, <1>3, <1>5 DEF InFlight
<1> QED
  BY <1>1, <1>7, <1>8, <1>9 DEF RegInv

-----------------------------------------------------------------------------
(* A cycle and the other steps.                                              *)

LEMMA VisitedIs ==
  ASSUME NEW c, RobInv(c)
  PROVE  Visited(c) \subseteq Rob(c)
<1> DEFINE P(k) == c.head .. c.head + k - 1
           K == {k \in 0 .. c.tail - c.head : P(k) \subseteq Window(c, Added(c, P(k)))}
<1>0. c.head \in Nat /\ c.tail \in Nat /\ c.head <= c.tail
  BY DEF RobInv, Bounds
<1>1. 0 \in K
  <2>1. P(0) = {}
    BY <1>0
  <2> QED
    BY <1>0, <2>1
<1>2. Visited(c) = P(Max(K))
  BY DEF Visited
<1>3. K \subseteq 0 .. c.tail - c.head
  OBVIOUS
<1> HIDE DEF K
<1>4. K \in SUBSET Int /\ K # {} /\ c.tail - c.head \in Int /\ \A k \in K : k <= c.tail - c.head
  BY <1>0, <1>1, <1>3
<1>5. Max(K) \in K
  <2>1. PICK b : b = c.tail - c.head
    OBVIOUS
  <2>2. b \in Int /\ \A k \in K : k <= b
    BY <1>4, <2>1
  <2> QED
    BY <1>4, <2>2, GreatestOf
<1>6. PICK m : m = Max(K)
  OBVIOUS
<1>7. m \in 0 .. c.tail - c.head
  BY <1>3, <1>5, <1>6
<1>8. P(m) \subseteq Rob(c)
  BY <1>0, <1>7 DEF Rob
<1> QED
  BY <1>2, <1>6, <1>8

LEMMA CycleKeepsReg ==
  ASSUME NEW c, RobInv(c), RegInv(c), NEW d, Cycle(c, d)
  PROVE  RobInv(d) /\ RegInv(d)
<1>1. PICK c1, c2, c3, c4, c5, c6, c7, V, added, c8, c9, c10 :
        /\ c1 = retire_rob(c) /\ c2 = complete_inflight_instruction(c1)
        /\ c3 = execute_instruction(c2) /\ c4 = schedule_instruction(c3)
        /\ c5 = handle_memory_return(c4) /\ c6 = operate_stores(c5) /\ c7 = operate_loads(c6)
        /\ V = Visited(c7) /\ added = Added(c7, V)
        /\ c8 = add_load_queue(c7, V) /\ c9 = add_store_queue(c8, V)
        /\ c10 = MemScheduled(c9, added) /\ d = NextCycle(dispatch_instruction(c10))
  BY DEF Cycle
<1>2. RobInv(c1) /\ RegInv(c1)
  BY <1>1, RetireKeepsRob, RetireKeepsReg
<1>3. RobInv(c2) /\ RegInv(c2)
  BY <1>1, <1>2, CompleteKeepsReg
<1>4. RobInv(c3) /\ RegInv(c3)
  BY <1>1, <1>3, ExecuteKeepsReg
<1>5. RobInv(c4) /\ RegInv(c4)
  BY <1>1, <1>4, ScheduleKeepsReg
<1>6. RobInv(c5) /\ RegInv(c5)
  BY <1>1, <1>5, ReturnKeepsReg
<1>7. RobInv(c6) /\ RegInv(c6)
  BY <1>1, <1>6, StoresKeepReg
<1>8. RobInv(c7) /\ RegInv(c7)
  BY <1>1, <1>7, LoadsKeepReg
<1>9. RobInv(c8) /\ RegInv(c8) /\ SameReg(c7, c8)
  BY <1>1, <1>8, AddLoadsKeepsReg
<1>10. RobInv(c9) /\ RegInv(c9) /\ SameReg(c8, c9)
  BY <1>1, <1>9, AddStoresKeepsReg
<1>11. Rob(c9) = Rob(c7) /\ Rob(c7) \subseteq Ids
  BY <1>8, <1>9, <1>10, RobIs DEF SameReg, Rob
<1>12. \A i \in added : /\ i \in Rob(c9) /\ IsMemory(i) /\ c9.entry[i].num_reg_dependent = 0
                        /\ c9.entry[i].scheduled = "INFLIGHT"
  <2>1. V \subseteq Rob(c7)
    BY <1>1, <1>8, VisitedIs
  <2>2. \A i \in added : /\ i \in Rob(c7) /\ IsMemory(i) /\ c7.entry[i].num_reg_dependent = 0
                         /\ c7.entry[i].scheduled = "INFLIGHT"
    BY <1>1, <2>1, AddedAre
  <2> QED
    BY <1>9, <1>10, <1>11, <2>2 DEF SameReg
<1>13. RobInv(c10) /\ RegInv(c10)
  BY <1>1, <1>10, <1>12, MemScheduledKeepsReg
<1>14. PICK c11 : c11 = dispatch_instruction(c10)
  OBVIOUS
<1>15. RobInv(c11) /\ RegInv(c11)
  BY <1>13, <1>14, DispatchKeepsRob, DispatchKeepsReg
<1>16. d = NextCycle(c11)
  BY <1>1, <1>14
<1> QED
  BY <1>15, <1>16, NextCycleKeepsReg

(* The front end, the DTLB and the L1D do not touch the registers.           *)
LEMMA OthersKeepReg ==
  ASSUME NEW c, RobInv(c), RegInv(c), c = cpu,
         \/ FrontEnd
         \/ \E p \in Packets : DtlbReturns(p)
         \/ \E s \in LQSlots : L1dReturns(s)
         \/ L1dWrites,
         NEW d, d = cpu'
  PROVE  RobInv(d) /\ RegInv(d)
<1>0. CoreShape(c) /\ Bounds(c) /\ program \in Programs
  BY DEF RobInv
<1>1. CASE FrontEnd
  <2>1. d = [c EXCEPT !.read = c.read + 1,
                      !.STA = IF IsStore(c.read + 1) THEN Append(c.STA, c.read + 1) ELSE c.STA]
        /\ c.read < Len(program)
    BY <1>1 DEF FrontEnd
  <2>2. CoreShape(d) /\ SameReg(c, d) /\ d.read = c.read + 1 /\ d.wq = c.wq
    BY <1>0, <2>1 DEF CoreShape, SameReg
  <2>3. Bounds(d)
    <3>1. Len(program) \in Nat
      BY <1>0, Program
    <3> QED
      BY <1>0, <2>1, <2>2, <3>1 DEF Bounds, SameReg
  <2> QED
    BY <1>0, <2>2, <2>3, SameKeepsReg DEF RobInv
<1>2. CASE \E p \in Packets : DtlbReturns(p)
  <2>1. PICK s, q : d = [c EXCEPT !.dtlb = s, !.dtlb_processed = q]
    BY <1>2 DEF DtlbReturns
  <2>2. CoreShape(d) /\ SameReg(c, d) /\ d.read = c.read /\ d.wq = c.wq
    BY <1>0, <2>1 DEF CoreShape, SameReg
  <2>3. Bounds(d)
    BY <1>0, <2>2 DEF Bounds, SameReg
  <2> QED
    BY <1>0, <2>2, <2>3, SameKeepsReg DEF RobInv
<1>3. CASE \E s \in LQSlots : L1dReturns(s)
  <2>1. PICK s, q : d = [c EXCEPT !.l1d = s, !.l1d_processed = q]
    BY <1>3 DEF L1dReturns
  <2>2. CoreShape(d) /\ SameReg(c, d) /\ d.read = c.read /\ d.wq = c.wq
    BY <1>0, <2>1 DEF CoreShape, SameReg
  <2>3. Bounds(d)
    BY <1>0, <2>2 DEF Bounds, SameReg
  <2> QED
    BY <1>0, <2>2, <2>3, SameKeepsReg DEF RobInv
<1>4. CASE L1dWrites
  <2>1. d = [c EXCEPT !.wq = c.wq - 1] /\ c.wq > 0
    BY <1>4 DEF L1dWrites
  <2>2. CoreShape(d) /\ SameReg(c, d) /\ d.read = c.read /\ d.wq = c.wq - 1
    BY <1>0, <2>1 DEF CoreShape, SameReg
  <2>3. Bounds(d)
    <3>1. L1D_WQ_SIZE \in Nat
      BY Sizes
    <3> QED
      BY <1>0, <2>1, <2>2, <3>1 DEF Bounds, SameReg
  <2> QED
    BY <1>0, <2>2, <2>3, SameKeepsReg DEF RobInv
<1> QED
  BY <1>1, <1>2, <1>3, <1>4

LEMMA InitReg ==
  ASSUME Init
  PROVE  RobInv(cpu) /\ RegInv(cpu)
<1>1. program \in Programs /\ CoreShape(cpu)
  <2>1. \A i \in Ids : EntryShape(NewEntry(i))
    BY DEF NewEntry, EntryShape
  <2> QED
    BY <2>1 DEF Init, CoreShape, EntriesShape
<1>2. /\ cpu.head = 1 /\ cpu.tail = 1 /\ cpu.read = 0 /\ cpu.wq = 0
      /\ cpu.ready_to_execute = <<>> /\ cpu.inflight_reg_executions = 0
      /\ cpu.entry = [i \in Ids |-> NewEntry(i)]
  BY DEF Init
<1>3. Bounds(cpu)
  BY <1>1, <1>2, Sizes, Program DEF Bounds
<1>4. Rob(cpu) = {}
  BY <1>2 DEF Rob
<1>5. \A i : Pending(cpu, i) = {} /\ Cardinality(Pending(cpu, i)) = 0
  BY <1>4, FS_EmptySet DEF Pending
<1>6. \A i \in Ids :
        /\ cpu.entry[i].scheduled = "no" /\ cpu.entry[i].executed = "no"
        /\ cpu.entry[i].registers_instrs_depend_on_me = {} /\ cpu.entry[i].num_reg_dependent = 0
  BY <1>2 DEF NewEntry
<1>7. \A i \in Ids : RegEntry(cpu, i)
  BY <1>4, <1>5, <1>6 DEF RegEntry, Status
<1>8. InFlight(cpu) = {} /\ Cardinality(InFlight(cpu)) = 0
  BY <1>4, FS_EmptySet DEF InFlight
<1>9. cpu.ready_to_execute \in Seq(Ids) /\ Distinct(cpu.ready_to_execute) /\ ToSet(cpu.ready_to_execute) = {}
  BY <1>2 DEF Distinct, ToSet
<1> QED
  BY <1>1, <1>2, <1>3, <1>7, <1>8, <1>9 DEF RobInv, RegInv

RegisterInv == RobInv(cpu) /\ RegInv(cpu)

LEMMA NextKeepsReg ==
  ASSUME RegisterInv, [Next]_vars
  PROVE  RegisterInv'
<1>1. program' = program
  BY DEF Next, operate, FrontEnd, DtlbReturns, L1dReturns, L1dWrites, vars
<1>2. RobInv(cpu') /\ RegInv(cpu')
  <2>1. CASE operate
    BY <2>1, CycleKeepsReg DEF RegisterInv, operate
  <2>2. CASE \/ FrontEnd
             \/ \E p \in Packets : DtlbReturns(p)
             \/ \E s \in LQSlots : L1dReturns(s)
             \/ L1dWrites
    BY <2>2, OthersKeepReg DEF RegisterInv
  <2>3. CASE UNCHANGED vars
    BY <2>3 DEF RegisterInv, vars
  <2> QED
    BY <2>1, <2>2, <2>3 DEF Next
<1>3. RobInv(cpu)'
  BY <1>1, <1>2 DEF RobInv, Bounds, CoreShape, EntriesShape, EntryShape, Ids
<1>4. RegInv(cpu)'
  <2>1. Ids' = Ids /\ Rob(cpu)' = Rob(cpu')
    BY <1>1 DEF Ids, Rob
  <2>2. \A i : IsMemory(i)' = IsMemory(i)
    BY <1>1 DEF IsMemory, IsLoad, IsStore
  <2>3. \A i : Pending(cpu, i)' = Pending(cpu', i)
    BY DEF Pending, Rob
  <2>4. \A i, r : LastWriter(i, r)' = LastWriter(i, r)
    BY <1>1 DEF LastWriter, LastBefore, Ids
  <2>5. \A i : RegEntry(cpu', i) => RegEntry(cpu, i)'
    BY <1>1, <2>1, <2>3, <2>4 DEF RegEntry
  <2>6. \A i : ReadyEntry(cpu', i) => ReadyEntry(cpu, i)'
    BY <2>1, <2>2, <2>3 DEF ReadyEntry
  <2>7. InFlight(cpu)' = InFlight(cpu')
    BY <2>1, <2>2 DEF InFlight
  <2> QED
    BY <1>2, <2>1, <2>5, <2>6, <2>7 DEF RegInv
<1> QED
  BY <1>3, <1>4 DEF RegisterInv

(* Instructions execute with their registers ready, for every program.       *)
THEOREM RegistersAlwaysReady == Spec => []RegistersReady
<1>1. Init => RegisterInv
  BY InitReg DEF RegisterInv
<1>2. RegisterInv /\ [Next]_vars => RegisterInv'
  BY NextKeepsReg
<1>3. RegisterInv => RegistersReady
  <2> SUFFICES ASSUME RegisterInv, NEW i \in Rob(cpu), cpu.entry[i].executed # "no",
                      NEW r \in program[i].src, NEW p, p = LastWriter(i, r), p >= cpu.head
               PROVE  cpu.entry[p].executed = "COMPLETED"
    BY DEF RegistersReady, LastWriter
  <2>1. i \in Ids /\ i \in Nat /\ i < cpu.tail /\ RegEntry(cpu, i)
    BY RobIs DEF RegisterInv, RegInv
  <2>2. cpu.head \in Nat /\ cpu.tail \in Nat /\ 1 <= cpu.head /\ program \in Programs /\ Ids \subseteq Nat
    BY RobIs DEF RegisterInv, RobInv, Bounds
  <2>3. p \in Ids /\ p < i
    <3>1. p = 0 \/ (p \in Ids /\ p < i)
      BY <2>1, <2>2, LastWriterIs
    <3> QED
      BY <2>2, <3>1
  <2>4. p \in Rob(cpu)
    BY <2>1, <2>2, <2>3 DEF Rob
  <2> QED
    BY <2>1, <2>4 DEF RegEntry
<1> QED
  BY <1>1, <1>2, <1>3, PTL DEF Spec

-----------------------------------------------------------------------------
(* The accesses. A is the set of the instructions that are being entered     *)
(* into the queues, and are marked as begun once all have been.              *)

HasBegun(c, A, i) == c.entry[i].executed # "no" \/ i \in A
LastStore(i)      == LastBefore(i, StoresTo(program[i].load))

(* A store has the loads that depend on it; until it has executed each of    *)
(* them waits in its slot. A store that has begun has a slot until it        *)
(* retires.                                                                  *)
Depends(c, p, j) ==
  /\ j \in Ids /\ IsLoad(j) /\ p = LastStore(j)
  /\ c.entry[p].num_mem_ops = 1 =>
       /\ c.entry[j].lq_index \in LQSlots
       /\ c.LQ[c.entry[j].lq_index].id = j /\ c.LQ[c.entry[j].lq_index].producer_id = p
MemEntry(c, A, i) ==
  /\ c.entry[i].event_cycle \in Nat /\ c.entry[i].registers_instrs_depend_on_me \subseteq Ids
  /\ c.entry[i].lq_index \in LQSlots \cup {0} /\ c.entry[i].sq_index \in SQSlots \cup {0}
  /\ c.entry[i].num_mem_ops \in {0, 1}
  /\ ~IsMemory(i) => c.entry[i].num_mem_ops = 0
  /\ IsMemory(i) /\ ~HasBegun(c, A, i) => c.entry[i].num_mem_ops = 1
  /\ IsMemory(i) /\ c.entry[i].executed = "COMPLETED" => c.entry[i].num_mem_ops = 0
  /\ c.entry[i].from # 0 => c.entry[i].from = LastStore(i) /\ c.entry[i].from \in Ids
  /\ IsStore(i) /\ HasBegun(c, A, i) =>
       c.entry[i].sq_index \in SQSlots /\ c.SQ[c.entry[i].sq_index].id = i
  /\ \A j \in c.entry[i].memory_instrs_depend_on_me : Depends(c, i, j)

(* The way of a load through the queues and the levels below, and of a store.*)
LoadPlaces  == {"free", "waits", "RTL0", "dtlb", "dtlb_processed", "RTL1", "l1d", "l1d_processed"}
StorePlaces == {"free", "RTS0", "dtlb", "dtlb_processed", "RTS1", "fetched"}
LoadAt(c, s, x) ==
  /\ x \in LoadPlaces
  /\ c.LQ[s].id = 0 <=> x = "free"
  /\ c.LQ[s].producer_id # 0 <=> x = "waits"
  /\ s \in ToSet(c.RTL0) <=> x = "RTL0"
  /\ <<"LQ", s>> \in c.dtlb <=> x = "dtlb"
  /\ <<"LQ", s>> \in ToSet(c.dtlb_processed) <=> x = "dtlb_processed"
  /\ s \in ToSet(c.RTL1) <=> x = "RTL1"
  /\ s \in c.l1d <=> x = "l1d"
  /\ s \in ToSet(c.l1d_processed) <=> x = "l1d_processed"
StoreAt(c, s, x) ==
  /\ x \in StorePlaces
  /\ c.SQ[s].id = 0 <=> x = "free"
  /\ c.SQ[s].fetched <=> x = "fetched"
  /\ s \in ToSet(c.RTS0) <=> x = "RTS0"
  /\ <<"SQ", s>> \in c.dtlb <=> x = "dtlb"
  /\ <<"SQ", s>> \in ToSet(c.dtlb_processed) <=> x = "dtlb_processed"
  /\ s \in ToSet(c.RTS1) <=> x = "RTS1"

(* Who a slot belongs to. The older stores to the address of a load that     *)
(* does not wait for one have left the core.                                 *)
LoadOwner(c, A, s, i) ==
  /\ i \in Rob(c) /\ IsLoad(i) /\ HasBegun(c, A, i)
  /\ c.entry[i].num_mem_ops = 1 /\ c.entry[i].lq_index = s
  /\ c.LQ[s].producer_id = 0 => LastStore(i) < c.head
StoreOwner(c, A, s, i) ==
  /\ i \in Rob(c) /\ IsStore(i) /\ HasBegun(c, A, i) /\ c.entry[i].sq_index = s
  /\ c.entry[i].num_mem_ops = IF c.SQ[s].fetched THEN 0 ELSE 1
LoadSlot(c, A, s) ==
  /\ c.LQ[s] \in [id: Ids \cup {0}, producer_id: Ids \cup {0}]
  /\ \E x : LoadAt(c, s, x)
  /\ c.LQ[s].id # 0 => LoadOwner(c, A, s, c.LQ[s].id)
StoreSlot(c, A, s) ==
  /\ c.SQ[s] \in [id: Ids \cup {0}, fetched: BOOLEAN]
  /\ \E x : StoreAt(c, s, x)
  /\ c.SQ[s].id # 0 => StoreOwner(c, A, s, c.SQ[s].id)

Queue(q, S) == q \in Seq(S) /\ Distinct(q)
Queues(c) ==
  /\ Queue(c.RTL0, LQSlots) /\ Queue(c.RTL1, LQSlots) /\ Queue(c.l1d_processed, LQSlots)
  /\ Queue(c.RTS0, SQSlots) /\ Queue(c.RTS1, SQSlots) /\ Queue(c.dtlb_processed, Packets)
  /\ c.dtlb \subseteq Packets /\ IsFiniteSet(c.dtlb) /\ Cardinality(c.dtlb) <= DTLB_SIZE
  /\ c.l1d \subseteq LQSlots /\ IsFiniteSet(c.l1d) /\ Cardinality(c.l1d) <= L1D_RQ_SIZE

(* The instructions whose access is over, and that are to be completed.      *)
Done(c) == {i \in Rob(c) : /\ IsMemory(i) /\ c.entry[i].num_mem_ops = 0
                           /\ c.entry[i].executed # "COMPLETED"}

MemInv(c, A) ==
  /\ \A i \in Ids : MemEntry(c, A, i)
  /\ \A s \in LQSlots : LoadSlot(c, A, s)
  /\ \A s \in SQSlots : StoreSlot(c, A, s)
  /\ Queues(c)
  /\ c.inflight_mem_executions = Cardinality(Done(c))

-----------------------------------------------------------------------------
(* The stages that do not move accesses.                                     *)

SameQueues(c, d) ==
  /\ d.LQ = c.LQ /\ d.SQ = c.SQ /\ d.RTL0 = c.RTL0 /\ d.RTL1 = c.RTL1 /\ d.RTS0 = c.RTS0
  /\ d.RTS1 = c.RTS1 /\ d.dtlb = c.dtlb /\ d.dtlb_processed = c.dtlb_processed
  /\ d.l1d = c.l1d /\ d.l1d_processed = c.l1d_processed
SameAccess(c, d) ==
  \A i \in Ids :
     /\ d.entry[i].memory_instrs_depend_on_me = c.entry[i].memory_instrs_depend_on_me
     /\ d.entry[i].num_mem_ops = c.entry[i].num_mem_ops /\ d.entry[i].from = c.entry[i].from
     /\ d.entry[i].lq_index = c.entry[i].lq_index /\ d.entry[i].sq_index = c.entry[i].sq_index
Progress(c, A, d, B, i) ==
  /\ d.entry[i].event_cycle \in Nat /\ d.entry[i].registers_instrs_depend_on_me \subseteq Ids
  /\ IsMemory(i) => (HasBegun(d, B, i) <=> HasBegun(c, A, i))
  /\ IsMemory(i) /\ d.entry[i].executed = "COMPLETED" => c.entry[i].num_mem_ops = 0

(* The slots are the same, and each is in one place.                         *)
Placed(c, d) ==
  /\ d.LQ = c.LQ /\ d.SQ = c.SQ /\ Queues(d)
  /\ \A s \in LQSlots : (\E x : LoadAt(c, s, x)) => \E x : LoadAt(d, s, x)
  /\ \A s \in SQSlots : (\E x : StoreAt(c, s, x)) => \E x : StoreAt(d, s, x)

LEMMA PlacesKept ==
  ASSUME NEW c, NEW d, SameQueues(c, d), Queues(c)
  PROVE  Placed(c, d)
<1>1. \A s, x : LoadAt(c, s, x) => LoadAt(d, s, x)
  BY DEF SameQueues, LoadAt
<1>2. \A s, x : StoreAt(c, s, x) => StoreAt(d, s, x)
  BY DEF SameQueues, StoreAt
<1>3. Queues(d)
  BY DEF SameQueues, Queues
<1> QED
  BY <1>1, <1>2, <1>3 DEF Placed, SameQueues

LEMMA MemMoved ==
  ASSUME NEW c, NEW A, NEW d, NEW B, RobInv(c), MemInv(c, A), Placed(c, d), SameAccess(c, d),
         d.head = c.head, Rob(c) \subseteq Rob(d), \A i \in Ids : Progress(c, A, d, B, i),
         d.inflight_mem_executions = Cardinality(Done(d))
  PROVE  MemInv(d, B)
<1>1. d.LQ = c.LQ /\ d.SQ = c.SQ /\ Rob(c) \subseteq Ids
  BY RobIs DEF Placed
<1>2. ASSUME NEW i \in Ids  PROVE MemEntry(d, B, i)
  <2>1. MemEntry(c, A, i) /\ Progress(c, A, d, B, i)
    BY DEF MemInv
  <2>2. /\ d.entry[i].memory_instrs_depend_on_me = c.entry[i].memory_instrs_depend_on_me
        /\ d.entry[i].num_mem_ops = c.entry[i].num_mem_ops /\ d.entry[i].from = c.entry[i].from
        /\ d.entry[i].lq_index = c.entry[i].lq_index /\ d.entry[i].sq_index = c.entry[i].sq_index
    BY DEF SameAccess
  <2>3. \A j \in c.entry[i].memory_instrs_depend_on_me : Depends(c, i, j)
    BY <2>1 DEF MemEntry
  <2>4. \A j \in c.entry[i].memory_instrs_depend_on_me : Depends(d, i, j)
    BY <1>1, <2>2, <2>3 DEF Depends, SameAccess
  <2>5. IsStore(i) /\ HasBegun(d, B, i) =>
          d.entry[i].sq_index \in SQSlots /\ d.SQ[d.entry[i].sq_index].id = i
    BY <1>1, <2>1, <2>2 DEF MemEntry, Progress, IsMemory
  <2>6. /\ d.entry[i].event_cycle \in Nat /\ d.entry[i].registers_instrs_depend_on_me \subseteq Ids
        /\ d.entry[i].lq_index \in LQSlots \cup {0} /\ d.entry[i].sq_index \in SQSlots \cup {0}
        /\ d.entry[i].num_mem_ops \in {0, 1}
        /\ ~IsMemory(i) => d.entry[i].num_mem_ops = 0
        /\ IsMemory(i) /\ ~HasBegun(d, B, i) => d.entry[i].num_mem_ops = 1
        /\ IsMemory(i) /\ d.entry[i].executed = "COMPLETED" => d.entry[i].num_mem_ops = 0
        /\ d.entry[i].from # 0 => d.entry[i].from = LastStore(i) /\ d.entry[i].from \in Ids
    BY <2>1, <2>2 DEF MemEntry, Progress
  <2> QED
    BY <2>2, <2>4, <2>5, <2>6 DEF MemEntry
<1>3. ASSUME NEW s \in LQSlots  PROVE LoadSlot(d, B, s)
  <2>1. LoadSlot(c, A, s)
    BY DEF MemInv
  <2>2. \E x : LoadAt(d, s, x)
    BY <2>1 DEF LoadSlot, Placed
  <2>3. ASSUME NEW i, i = c.LQ[s].id, i # 0  PROVE LoadOwner(d, B, s, i)
    <3>1. LoadOwner(c, A, s, i)
      BY <2>1, <2>3 DEF LoadSlot
    <3>2. i \in Ids /\ IsMemory(i)
      BY <1>1, <3>1 DEF LoadOwner, IsMemory
    <3>3. HasBegun(d, B, i)
      BY <3>1, <3>2 DEF LoadOwner, Progress
    <3> QED
      BY <1>1, <3>1, <3>2, <3>3 DEF LoadOwner, SameAccess
  <2> QED
    BY <1>1, <2>1, <2>2, <2>3 DEF LoadSlot
<1>4. ASSUME NEW s \in SQSlots  PROVE StoreSlot(d, B, s)
  <2>1. StoreSlot(c, A, s)
    BY DEF MemInv
  <2>2. \E x : StoreAt(d, s, x)
    BY <2>1 DEF StoreSlot, Placed
  <2>3. ASSUME NEW i, i = c.SQ[s].id, i # 0  PROVE StoreOwner(d, B, s, i)
    <3>1. StoreOwner(c, A, s, i)
      BY <2>1, <2>3 DEF StoreSlot
    <3>2. i \in Ids /\ IsMemory(i)
      BY <1>1, <3>1 DEF StoreOwner, IsMemory
    <3>3. HasBegun(d, B, i)
      BY <3>1, <3>2 DEF StoreOwner, Progress
    <3> QED
      BY <1>1, <3>1, <3>2, <3>3 DEF StoreOwner, SameAccess
  <2> QED
    BY <1>1, <2>1, <2>2, <2>3 DEF StoreSlot
<1> QED
  BY <1>2, <1>3, <1>4 DEF MemInv, Placed

LEMMA MemKept ==
  ASSUME NEW c, NEW A, NEW d, NEW B, RobInv(c), MemInv(c, A), SameQueues(c, d), SameAccess(c, d),
         d.head = c.head, Rob(c) \subseteq Rob(d), \A i \in Ids : Progress(c, A, d, B, i),
         d.inflight_mem_executions = Cardinality(Done(d))
  PROVE  MemInv(d, B)
<1>1. Placed(c, d)
  BY PlacesKept DEF MemInv
<1> QED
  BY <1>1, MemMoved

LEMMA CompleteKeepsMem ==
  ASSUME NEW c, RobInv(c), RegInv(c), MemInv(c, {}), NEW d, d = complete_inflight_instruction(c)
  PROVE  MemInv(d, {})
<1>0. CoreShape(d) /\ CompleteEffect(c, d)
  <2>1. CoreShape(c)
    BY DEF RobInv
  <2> QED
    BY <2>1, CompleteDoes
<1>1. SameQueues(c, d) /\ SameAccess(c, d) /\ d.head = c.head /\ d.tail = c.tail
  BY <1>0 DEF CompleteEffect, SameQueues, SameAccess
<1>2. d.inflight_mem_executions =
         c.inflight_mem_executions - Cardinality({i \in Completing(c) : IsMemory(i)})
  BY <1>0 DEF CompleteEffect
<1>3. \A i \in Ids :
        /\ d.entry[i].executed = (IF i \in Completing(c) THEN "COMPLETED" ELSE c.entry[i].executed)
        /\ d.entry[i].event_cycle = c.entry[i].event_cycle
        /\ d.entry[i].registers_instrs_depend_on_me = c.entry[i].registers_instrs_depend_on_me
  BY <1>0 DEF CompleteEffect
<1>4. /\ Completing(c) \subseteq Rob(c) /\ Rob(c) \subseteq Ids /\ IsFiniteSet(Rob(c))
      /\ \A i \in Completing(c) : c.entry[i].executed = "INFLIGHT" /\ c.entry[i].num_mem_ops = 0
  BY CompletingIs, RobIs
<1>5. Rob(d) = Rob(c)
  BY <1>1 DEF Rob
<1>6. \A i \in Ids : MemEntry(c, {}, i)
  BY DEF MemInv
<1>7. \A i \in Ids : Progress(c, {}, d, {}, i)
  BY <1>3, <1>4, <1>6 DEF Progress, MemEntry, HasBegun
<1>8. d.inflight_mem_executions = Cardinality(Done(d))
  <2>1. PICK D : D = {i \in Completing(c) : IsMemory(i)}
    OBVIOUS
  <2>2. Done(d) = Done(c) \ D /\ Done(c) \cap D = D
    BY <1>1, <1>3, <1>4, <1>5, <2>1 DEF Done, SameAccess
  <2>3. IsFiniteSet(Done(c))
    <3>1. Done(c) \in SUBSET Rob(c)
      BY DEF Done
    <3> QED
      BY <1>4, <3>1, FS_Subset
  <2>4. Cardinality(Done(c) \ D) = Cardinality(Done(c)) - Cardinality(Done(c) \cap D)
    BY <2>3, FS_Difference
  <2> QED
    BY <1>2, <2>1, <2>2, <2>4 DEF MemInv
<1>9. Rob(c) \subseteq Rob(d)
  BY <1>5
<1> QED
  BY <1>1, <1>7, <1>8, <1>9, MemKept

LEMMA ExecuteKeepsMem ==
  ASSUME NEW c, RobInv(c), RegInv(c), MemInv(c, {}), NEW d, d = execute_instruction(c)
  PROVE  MemInv(d, {})
<1>0. CoreShape(d) /\ ExecuteEffect(c, d)
  <2>1. CoreShape(c)
    BY DEF RobInv
  <2> QED
    BY <2>1, ExecuteDoes
<1>1. SameQueues(c, d) /\ SameAccess(c, d) /\ d.head = c.head /\ d.tail = c.tail
  BY <1>0 DEF ExecuteEffect, SameQueues, SameAccess
<1>2. d.inflight_mem_executions = c.inflight_mem_executions
  BY <1>0 DEF ExecuteEffect
<1>3. \A i \in Ids :
        /\ d.entry[i].executed = (IF i \in Begun(c) THEN "INFLIGHT" ELSE c.entry[i].executed)
        /\ d.entry[i].event_cycle = (IF i \in Begun(c) THEN EXEC_LATENCY ELSE c.entry[i].event_cycle)
        /\ d.entry[i].registers_instrs_depend_on_me = c.entry[i].registers_instrs_depend_on_me
  BY <1>0 DEF ExecuteEffect
<1>4. Rob(c) \subseteq Ids /\ Rob(d) = Rob(c) /\ EXEC_LATENCY \in Nat
  BY <1>1, RobIs, Sizes DEF Rob
<1>5. \A i \in Begun(c) : ~IsMemory(i)
  BY BeginIs DEF RegInv, ReadyEntry
<1>6. \A i \in Ids : MemEntry(c, {}, i)
  BY DEF MemInv
<1>7. \A i \in Ids : Progress(c, {}, d, {}, i)
  BY <1>3, <1>4, <1>5, <1>6 DEF Progress, MemEntry, HasBegun
<1>8. Done(d) = Done(c)
  BY <1>1, <1>3, <1>4, <1>5 DEF Done, SameAccess
<1>9. Rob(c) \subseteq Rob(d) /\ d.inflight_mem_executions = Cardinality(Done(d))
  BY <1>2, <1>4, <1>8 DEF MemInv
<1> QED
  BY <1>1, <1>7, <1>9, MemKept

LEMMA ScheduleKeepsMem ==
  ASSUME NEW c, RobInv(c), MemInv(c, {}), NEW d, d = schedule_instruction(c)
  PROVE  MemInv(d, {})
<1>0. CoreShape(d) /\ ScheduleEffect(c, d)
  <2>1. CoreShape(c)
    BY DEF RobInv
  <2> QED
    BY <2>1, ScheduleDoes
<1>1. SameQueues(c, d) /\ SameAccess(c, d) /\ d.head = c.head /\ d.tail = c.tail
  BY <1>0 DEF ScheduleEffect, SameQueues, SameAccess
<1>2. d.inflight_mem_executions = c.inflight_mem_executions
  BY <1>0 DEF ScheduleEffect
<1>3. \A i \in Ids :
        /\ d.entry[i].executed = c.entry[i].executed
        /\ d.entry[i].event_cycle = c.entry[i].event_cycle
        /\ \A j : j \in d.entry[i].registers_instrs_depend_on_me <=>
                    \/ j \in c.entry[i].registers_instrs_depend_on_me
                    \/ j \in Fresh(c) /\ i \in RegProducers(c, j)
  BY <1>0 DEF ScheduleEffect
<1>4. Rob(c) \subseteq Ids /\ Rob(d) = Rob(c)
  BY <1>1, RobIs DEF Rob
<1>5. Fresh(c) \subseteq Ids
  BY <1>4 DEF Fresh, Window
<1>6. \A i \in Ids : MemEntry(c, {}, i)
  BY DEF MemInv
<1>7. ASSUME NEW i \in Ids  PROVE Progress(c, {}, d, {}, i)
  <2>1. d.entry[i].registers_instrs_depend_on_me \subseteq Ids
    BY <1>3, <1>5, <1>6 DEF MemEntry
  <2> QED
    BY <1>3, <1>6, <2>1 DEF Progress, MemEntry, HasBegun
<1>8. Done(d) = Done(c)
  BY <1>1, <1>3, <1>4 DEF Done, SameAccess
<1>9. Rob(c) \subseteq Rob(d) /\ d.inflight_mem_executions = Cardinality(Done(d))
  BY <1>2, <1>4, <1>8 DEF MemInv
<1> QED
  BY <1>1, <1>7, <1>9, MemKept

LEMMA NextCycleKeepsMem ==
  ASSUME NEW c, RobInv(c), MemInv(c, {}), NEW d, d = NextCycle(c)
  PROVE  MemInv(d, {})
<1>0. CoreShape(d) /\ NextCycleEffect(c, d)
  <2>1. CoreShape(c)
    BY DEF RobInv
  <2> QED
    BY <2>1, NextCycleDoes
<1>1. SameQueues(c, d) /\ SameAccess(c, d) /\ d.head = c.head /\ d.tail = c.tail
  BY <1>0 DEF NextCycleEffect, SameQueues, SameAccess
<1>2. d.inflight_mem_executions = c.inflight_mem_executions
  BY <1>0 DEF NextCycleEffect
<1>3. \A i \in Ids :
        /\ d.entry[i].executed = c.entry[i].executed
        /\ d.entry[i].event_cycle = (IF c.entry[i].event_cycle > 0 THEN c.entry[i].event_cycle - 1 ELSE 0)
        /\ d.entry[i].registers_instrs_depend_on_me = c.entry[i].registers_instrs_depend_on_me
  BY <1>0 DEF NextCycleEffect
<1>4. Rob(c) \subseteq Ids /\ Rob(d) = Rob(c)
  BY <1>1, RobIs DEF Rob
<1>6. \A i \in Ids : MemEntry(c, {}, i)
  BY DEF MemInv
<1>7. ASSUME NEW i \in Ids  PROVE Progress(c, {}, d, {}, i)
  <2>1. d.entry[i].event_cycle \in Nat
    <3>1. c.entry[i].event_cycle \in Nat
      BY <1>6 DEF MemEntry
    <3> QED
      BY <1>3, <3>1
  <2> QED
    BY <1>3, <1>6, <2>1 DEF Progress, MemEntry, HasBegun
<1>8. Done(d) = Done(c)
  BY <1>1, <1>3, <1>4 DEF Done, SameAccess
<1>9. Rob(c) \subseteq Rob(d) /\ d.inflight_mem_executions = Cardinality(Done(d))
  BY <1>2, <1>4, <1>8 DEF MemInv
<1> QED
  BY <1>1, <1>7, <1>9, MemKept

LEMMA DispatchKeepsMem ==
  ASSUME NEW c, RobInv(c), RegInv(c), MemInv(c, {}), NEW d, d = dispatch_instruction(c)
  PROVE  MemInv(d, {})
<1>0. CoreShape(d) /\ DispatchEffect(c, d)
  <2>1. CoreShape(c)
    BY DEF RobInv
  <2> QED
    BY <2>1, DispatchDoes
<1>1. /\ SameQueues(c, d) /\ SameAccess(c, d) /\ d.head = c.head /\ d.entry = c.entry
      /\ d.inflight_mem_executions = c.inflight_mem_executions
  BY <1>0 DEF DispatchEffect, SameQueues, SameAccess
<1>2. RobInv(d) /\ Rob(c) \subseteq Rob(d)
  BY DispatchKeepsRob
<1>3. Rob(d) \subseteq Ids
  BY <1>2, RobIs
<1>6. \A i \in Ids : MemEntry(c, {}, i) /\ RegEntry(c, i)
  BY DEF MemInv, RegInv
<1>7. \A i \in Ids : Progress(c, {}, d, {}, i)
  BY <1>1, <1>6 DEF Progress, MemEntry, HasBegun
<1>8. Done(d) = Done(c)
  <2>1. \A i \in Ids : i \notin Rob(c) /\ IsMemory(i) => c.entry[i].num_mem_ops = 1
    BY <1>6 DEF MemEntry, RegEntry, HasBegun
  <2> QED
    BY <1>1, <1>2, <1>3, <2>1 DEF Done
<1>9. d.inflight_mem_executions = Cardinality(Done(d))
  BY <1>1, <1>8 DEF MemInv
<1> QED
  BY <1>1, <1>2, <1>7, <1>9, MemKept

LEMMA MemScheduledKeepsMem ==
  ASSUME NEW c, NEW S, RobInv(c), MemInv(c, S),
         \A i \in S : c.entry[i].executed = "no", NEW d, d = MemScheduled(c, S)
  PROVE  MemInv(d, {})
<1>0. CoreShape(d) /\ MemScheduledEffect(c, S, d)
  <2>1. CoreShape(c)
    BY DEF RobInv
  <2> QED
    BY <2>1, MemScheduledDoes
<1>1. SameQueues(c, d) /\ SameAccess(c, d) /\ d.head = c.head /\ d.tail = c.tail
  BY <1>0 DEF MemScheduledEffect, SameQueues, SameAccess
<1>2. d.inflight_mem_executions = c.inflight_mem_executions
  BY <1>0 DEF MemScheduledEffect
<1>3. \A i \in Ids :
        /\ d.entry[i].executed = (IF i \in S THEN "INFLIGHT" ELSE c.entry[i].executed)
        /\ d.entry[i].event_cycle = c.entry[i].event_cycle
        /\ d.entry[i].registers_instrs_depend_on_me = c.entry[i].registers_instrs_depend_on_me
  BY <1>0 DEF MemScheduledEffect
<1>4. Rob(c) \subseteq Ids /\ Rob(d) = Rob(c)
  BY <1>1, RobIs DEF Rob
<1>6. \A i \in Ids : MemEntry(c, S, i)
  BY DEF MemInv
<1>7. \A i \in Ids : Progress(c, S, d, {}, i)
  BY <1>3, <1>6 DEF Progress, MemEntry, HasBegun
<1>8. Done(d) = Done(c)
  BY <1>1, <1>3, <1>4 DEF Done, SameAccess
<1>9. Rob(c) \subseteq Rob(d) /\ d.inflight_mem_executions = Cardinality(Done(d))
  BY <1>2, <1>4, <1>8 DEF MemInv
<1> QED
  BY <1>1, <1>7, <1>9, MemKept

-----------------------------------------------------------------------------
(* Taking from a queue and adding to it.                                     *)

LEMMA Pop ==
  ASSUME NEW S, NEW q, Queue(q, S), NEW n \in 0 .. Len(q)
  PROVE  /\ Queue(Rest(q, n), S) /\ ToSet(First(q, n)) \subseteq ToSet(q) /\ ToSet(First(q, n)) \subseteq S
         /\ \A x : x \in ToSet(Rest(q, n)) <=> x \in ToSet(q) /\ x \notin ToSet(First(q, n))
         /\ IsFiniteSet(ToSet(First(q, n))) /\ Cardinality(ToSet(First(q, n))) = n
         /\ Queue(First(q, n), S)
<1>0. q \in Seq(S) /\ Distinct(q)
  BY DEF Queue
<1>1. /\ First(q, n) \in Seq(S)
      /\ Rest(q, n) \in Seq(S)
      /\ ToSet(q) = ToSet(First(q, n)) \cup ToSet(Rest(q, n))
      /\ Distinct(First(q, n)) /\ Distinct(Rest(q, n))
      /\ ToSet(First(q, n)) \cap ToSet(Rest(q, n)) = {}
      /\ IsFiniteSet(ToSet(First(q, n))) /\ Cardinality(ToSet(First(q, n))) = n
  BY <1>0, SplitQueue
<1>2. ToSet(First(q, n)) \subseteq S
  BY <1>1, Spread
<1> QED
  BY <1>1, <1>2 DEF Queue

LEMMA Push ==
  ASSUME NEW S, NEW q, Queue(q, S), NEW r, Queue(r, S), ToSet(q) \cap ToSet(r) = {}
  PROVE  Queue(q \o r, S) /\ \A x : x \in ToSet(q \o r) <=> x \in ToSet(q) \/ x \in ToSet(r)
<1>0. q \in Seq(S) /\ Distinct(q) /\ r \in Seq(S) /\ Distinct(r)
  BY DEF Queue
<1>1. q \o r \in Seq(S) /\ ToSet(q \o r) = ToSet(q) \cup ToSet(r) /\ Distinct(q \o r)
  BY <1>0, JoinQueue
<1> QED
  BY <1>1 DEF Queue

LEMMA PushOne ==
  ASSUME NEW S, NEW q, Queue(q, S), NEW x \in S, x \notin ToSet(q)
  PROVE  Queue(Append(q, x), S) /\ \A y : y \in ToSet(Append(q, x)) <=> y \in ToSet(q) \/ y = x
<1>1. q \in Seq(S) /\ Distinct(q)
  BY DEF Queue
<1>2. PICK n \in Nat : n = Len(q) /\ DOMAIN q = 1 .. n
  BY <1>1
<1>3. PICK r : r = Append(q, x)
  OBVIOUS
<1>4. /\ r \in Seq(S) /\ DOMAIN r = 1 .. n + 1 /\ r[n + 1] = x /\ \A i \in 1 .. n : r[i] = q[i]
  BY <1>1, <1>2, <1>3
<1>5. \A i \in 1 .. n + 1 : i \in 1 .. n \/ i = n + 1
  BY <1>2
<1>6. ToSet(q) = {q[i] : i \in 1 .. n} /\ ToSet(r) = {r[i] : i \in 1 .. n + 1}
  BY <1>2, <1>4 DEF ToSet
<1>7. \A y : y \in ToSet(r) <=> y \in ToSet(q) \/ y = x
  <2>1. \A i \in 1 .. n : i \in 1 .. n + 1
    BY <1>2
  <2>2. n + 1 \in 1 .. n + 1
    BY <1>2
  <2> QED
    BY <1>4, <1>5, <1>6, <2>1, <2>2
<1>8. Distinct(r)
  <2> SUFFICES ASSUME NEW i \in 1 .. n + 1, NEW j \in 1 .. n + 1, r[i] = r[j]  PROVE i = j
    BY <1>4 DEF Distinct
  <2>1. \A k \in 1 .. n : q[k] # x
    BY <1>6
  <2> QED
    BY <1>1, <1>2, <1>4, <1>5, <2>1 DEF Distinct
<1> QED
  BY <1>3, <1>4, <1>7, <1>8 DEF Queue

LEMMA LeastNat ==
  ASSUME NEW x \in Nat, NEW y \in Nat
  PROVE  Min({x, y}) \in Nat /\ Min({x, y}) <= x /\ Min({x, y}) <= y
<1>1. Min({x, y}) \in {x, y} /\ Min({x, y}) <= x /\ Min({x, y}) <= y
  BY MinOfTwo
<1> QED
  BY <1>1

LEMMA LeastNat3 ==
  ASSUME NEW x \in Nat, NEW y \in Nat, NEW z \in Nat
  PROVE  Min({x, y, z}) \in Nat /\ Min({x, y, z}) <= x /\ Min({x, y, z}) <= y /\ Min({x, y, z}) <= z
<1>1. Min({x, y, z}) \in {x, y, z} /\ Min({x, y, z}) <= x /\ Min({x, y, z}) <= y /\ Min({x, y, z}) <= z
  BY MinOfThree
<1> QED
  BY <1>1

(* A level below gets n more requests, and has the room.                     *)
LEMMA Room ==
  ASSUME NEW S, IsFiniteSet(S), NEW T, IsFiniteSet(T), NEW m \in Nat,
         Cardinality(T) <= m - Cardinality(S)
  PROVE  IsFiniteSet(S \cup T) /\ Cardinality(S \cup T) <= m
<1>1. /\ IsFiniteSet(S \cup T)
      /\ Cardinality(S \cup T) = Cardinality(S) + Cardinality(T) - Cardinality(S \cap T)
  BY FS_Union
<1>2. IsFiniteSet(S \cap T)
  BY FS_Intersection
<1>3. Cardinality(S) \in Nat /\ Cardinality(T) \in Nat /\ Cardinality(S \cap T) \in Nat
  BY <1>2, FS_CardinalityType
<1> QED
  BY <1>1, <1>3

LEMMA Tagged ==
  ASSUME NEW S, IsFiniteSet(S), NEW x
  PROVE  IsFiniteSet({x} \X S) /\ Cardinality({x} \X S) = Cardinality(S)
<1>1. IsFiniteSet({x}) /\ Cardinality({x}) = 1
  BY FS_Singleton
<1>2. IsFiniteSet({x} \X S) /\ Cardinality({x} \X S) = Cardinality({x}) * Cardinality(S)
  BY <1>1, FS_Product
<1>3. Cardinality(S) \in Nat
  BY FS_CardinalityType
<1> QED
  BY <1>1, <1>2, <1>3

-----------------------------------------------------------------------------
(* retire_rob.                                                               *)

LEMMA LastStoreIs ==
  ASSUME program \in Programs, NEW i \in Ids
  PROVE  /\ LastStore(i) \in Nat
         /\ \/ LastStore(i) = 0 /\ \A p \in Ids : program[p].store = program[i].load => ~ (p < i)
            \/ /\ LastStore(i) \in Ids /\ program[LastStore(i)].store = program[i].load
               /\ LastStore(i) < i
               /\ \A p \in Ids : program[p].store = program[i].load /\ p < i => p <= LastStore(i)
<1>1. PICK S : S = StoresTo(program[i].load)
  OBVIOUS
<1>2. S \in SUBSET Ids
  BY <1>1 DEF StoresTo
<1>3. LastStore(i) = LastBefore(i, S)
  BY <1>1 DEF LastStore
<1>4. \/ LastBefore(i, S) = 0 /\ \A p \in S : ~ (p < i)
      \/ /\ LastBefore(i, S) \in S /\ LastBefore(i, S) < i
         /\ \A p \in S : p < i => p <= LastBefore(i, S)
  BY <1>2, LastBeforeIs
<1>5. Ids \subseteq Nat
  BY Program
<1>6. \A p : p \in S <=> p \in Ids /\ program[p].store = program[i].load
  BY <1>1 DEF StoresTo
<1>7. PICK w : w = LastStore(i)
  OBVIOUS
<1>8. CASE w = 0 /\ \A p \in S : ~ (p < i)
  BY <1>6, <1>7, <1>8
<1>9. CASE w \in S /\ w < i /\ \A p \in S : p < i => p <= w
  <2>1. w \in Nat
    BY <1>2, <1>5, <1>9
  <2> QED
    BY <1>6, <1>7, <1>9, <2>1
<1> QED
  BY <1>3, <1>4, <1>7, <1>8, <1>9

LEMMA RetireKeepsMem ==
  ASSUME NEW c, RobInv(c), RegInv(c), MemInv(c, {}), NEW d, d = retire_rob(c)
  PROVE  MemInv(d, {})
<1>1. /\ RobInv(d) /\ Rob(d) = Rob(c) \ Retiring(c) /\ d.head = c.head + RetireCount(c)
      /\ RetireCount(c) \in Nat
      /\ \A i \in Retiring(c) : c.entry[i].executed = "COMPLETED" /\ i \in Rob(c)
  BY RetireKeepsRob, RetireCountIs
<1>2. /\ \A s \in SQSlots : d.SQ[s] = IF \E i \in Stores(Retiring(c)) : c.entry[i].sq_index = s
                                      THEN NoStore ELSE c.SQ[s]
      /\ \A i \in Ids : i \notin Retiring(c) => d.entry[i] = c.entry[i]
      /\ \A i \in Ids : i \in Retiring(c) => Retired(d.entry[i], i, c.entry[i].from)
      /\ d.LQ = c.LQ /\ d.RTL0 = c.RTL0 /\ d.RTL1 = c.RTL1 /\ d.RTS0 = c.RTS0 /\ d.RTS1 = c.RTS1
      /\ d.inflight_mem_executions = c.inflight_mem_executions
      /\ d.dtlb = c.dtlb /\ d.dtlb_processed = c.dtlb_processed
      /\ d.l1d = c.l1d /\ d.l1d_processed = c.l1d_processed
  <2>1. CoreShape(c)
    BY DEF RobInv
  <2> QED
    BY <2>1, RetireDoes
<1>3. Rob(c) \subseteq Ids
  BY RobIs
<1>4. \A i \in Ids : MemEntry(c, {}, i)
  BY DEF MemInv
<1>5. \A i \in Retiring(c) : i \in Ids /\ (IsMemory(i) => c.entry[i].num_mem_ops = 0)
  BY <1>1, <1>3, <1>4 DEF MemEntry
<1>6. \A s \in LQSlots : c.LQ[s].id # 0 =>
         /\ LoadOwner(c, {}, s, c.LQ[s].id) /\ c.LQ[s].id \in Ids /\ c.LQ[s].id \notin Retiring(c)
  <2> SUFFICES ASSUME NEW s \in LQSlots, NEW i, i = c.LQ[s].id, i # 0
               PROVE  LoadOwner(c, {}, s, i) /\ i \in Ids /\ i \notin Retiring(c)
    OBVIOUS
  <2>1. LoadOwner(c, {}, s, i)
    BY DEF MemInv, LoadSlot
  <2> QED
    BY <1>3, <1>5, <2>1 DEF LoadOwner, IsMemory
<1>7. ASSUME NEW i \in Ids, i \in Retiring(c), IsStore(i)
      PROVE  /\ c.entry[i].sq_index \in SQSlots /\ c.SQ[c.entry[i].sq_index].id = i
             /\ c.SQ[c.entry[i].sq_index].fetched /\ i # 0
  <2>1. HasBegun(c, {}, i) /\ c.entry[i].num_mem_ops = 0
    BY <1>1, <1>5, <1>7 DEF HasBegun, IsMemory
  <2>2. c.entry[i].sq_index \in SQSlots /\ c.SQ[c.entry[i].sq_index].id = i
    BY <1>4, <1>7, <2>1 DEF MemEntry
  <2>3. i # 0
    BY Program DEF RobInv
  <2>4. StoreOwner(c, {}, c.entry[i].sq_index, i)
    BY <2>2, <2>3 DEF MemInv, StoreSlot
  <2> QED
    BY <2>1, <2>2, <2>3, <2>4 DEF StoreOwner
<1>8. ASSUME NEW i \in Ids  PROVE MemEntry(d, {}, i)
  <2>1. CASE i \in Retiring(c)
    <3>1. Retired(d.entry[i], i, c.entry[i].from)
      BY <1>2, <2>1
    <3>2. c.entry[i].from # 0 => c.entry[i].from = LastStore(i) /\ c.entry[i].from \in Ids
      BY <1>4 DEF MemEntry
    <3> QED
      BY <3>1, <3>2 DEF Retired, MemEntry, HasBegun
  <2>2. CASE i \notin Retiring(c)
    <3>1. d.entry[i] = c.entry[i] /\ MemEntry(c, {}, i)
      BY <1>2, <1>4, <2>2
    <3>2. ASSUME IsStore(i), HasBegun(d, {}, i)
          PROVE  d.entry[i].sq_index \in SQSlots /\ d.SQ[d.entry[i].sq_index].id = i
      <4>1. c.entry[i].sq_index \in SQSlots /\ c.SQ[c.entry[i].sq_index].id = i
        BY <3>1, <3>2 DEF MemEntry, HasBegun
      <4>2. ~ \E k \in Stores(Retiring(c)) : c.entry[k].sq_index = c.entry[i].sq_index
        BY <1>5, <1>7, <2>2, <4>1 DEF Stores
      <4> QED
        BY <1>2, <3>1, <4>1, <4>2
    <3>3. \A j \in c.entry[i].memory_instrs_depend_on_me : Depends(c, i, j)
      BY <3>1 DEF MemEntry
    <3>4. ASSUME NEW j \in c.entry[i].memory_instrs_depend_on_me  PROVE Depends(d, i, j)
      <4>1. Depends(c, i, j)
        BY <3>3
      <4>2. CASE c.entry[i].num_mem_ops = 1
        <5>1. /\ c.entry[j].lq_index \in LQSlots /\ c.LQ[c.entry[j].lq_index].id = j /\ j \in Ids
          BY <4>1, <4>2 DEF Depends
        <5>2. j # 0
          BY <5>1, Program DEF RobInv
        <5>3. j \notin Retiring(c)
          BY <1>6, <5>1, <5>2
        <5>4. d.entry[j] = c.entry[j]
          BY <1>2, <5>1, <5>3
        <5> QED
          BY <1>2, <3>1, <4>1, <5>4 DEF Depends
      <4>3. CASE c.entry[i].num_mem_ops # 1
        BY <3>1, <4>1, <4>3 DEF Depends
      <4> QED
        BY <4>2, <4>3
    <3>5. HasBegun(d, {}, i) <=> HasBegun(c, {}, i)
      BY <3>1 DEF HasBegun
    <3> QED
      BY <3>1, <3>2, <3>4, <3>5 DEF MemEntry
  <2> QED
    BY <2>1, <2>2
<1>9. ASSUME NEW s \in LQSlots  PROVE LoadSlot(d, {}, s)
  <2>1. LoadSlot(c, {}, s)
    BY DEF MemInv
  <2>2. PICK x : LoadAt(c, s, x)
    BY <2>1 DEF LoadSlot
  <2>3. LoadAt(d, s, x)
    BY <1>2, <2>2 DEF LoadAt
  <2>4. ASSUME NEW i, i = c.LQ[s].id, i # 0  PROVE LoadOwner(d, {}, s, i)
    <3>1. LoadOwner(c, {}, s, i) /\ i \in Ids /\ i \notin Retiring(c)
      BY <1>6, <2>4
    <3>2. d.entry[i] = c.entry[i] /\ i \in Rob(d)
      BY <1>1, <1>2, <3>1 DEF LoadOwner
    <3>3. LastStore(i) < c.head => LastStore(i) < d.head
      <4>1. LastStore(i) \in Nat /\ c.head \in Nat
        BY <3>1, LastStoreIs DEF RobInv, Bounds
      <4> QED
        BY <1>1, <4>1
    <3> QED
      BY <1>2, <3>1, <3>2, <3>3 DEF LoadOwner, HasBegun
  <2> QED
    BY <1>2, <2>1, <2>3, <2>4 DEF LoadSlot
<1>10. ASSUME NEW s \in SQSlots  PROVE StoreSlot(d, {}, s)
  <2>1. StoreSlot(c, {}, s)
    BY DEF MemInv
  <2>2. PICK x : StoreAt(c, s, x)
    BY <2>1 DEF StoreSlot
  <2>3. CASE \E i \in Stores(Retiring(c)) : c.entry[i].sq_index = s
    <3>1. d.SQ[s] = NoStore /\ c.SQ[s].fetched
      BY <1>2, <1>5, <1>7, <2>3 DEF Stores
    <3>2. x = "fetched"
      BY <2>2, <3>1 DEF StoreAt
    <3>3. StoreAt(d, s, "free")
      BY <1>2, <2>2, <3>1, <3>2 DEF StoreAt, NoStore, StorePlaces
    <3>4. d.SQ[s] \in [id: Ids \cup {0}, fetched: BOOLEAN] /\ d.SQ[s].id = 0
      BY <3>1 DEF NoStore
    <3> QED
      BY <3>3, <3>4 DEF StoreSlot
  <2>4. CASE ~ \E i \in Stores(Retiring(c)) : c.entry[i].sq_index = s
    <3>1. d.SQ[s] = c.SQ[s]
      BY <1>2, <2>4
    <3>2. StoreAt(d, s, x)
      BY <1>2, <2>2, <3>1 DEF StoreAt
    <3>3. ASSUME NEW i, i = c.SQ[s].id, i # 0  PROVE StoreOwner(d, {}, s, i)
      <4>1. StoreOwner(c, {}, s, i)
        BY <2>1, <3>3 DEF StoreSlot
      <4>2. i \in Ids /\ i \notin Retiring(c)
        BY <1>3, <2>4, <4>1 DEF StoreOwner, Stores
      <4>3. d.entry[i] = c.entry[i] /\ i \in Rob(d)
        BY <1>1, <1>2, <4>1, <4>2 DEF StoreOwner
      <4> QED
        BY <3>1, <4>1, <4>3 DEF StoreOwner, HasBegun
    <3> QED
      BY <2>1, <3>1, <3>2, <3>3 DEF StoreSlot
  <2> QED
    BY <2>3, <2>4
<1>11. Queues(d)
  BY <1>2 DEF MemInv, Queues
<1>12. Done(d) = Done(c)
  <2>1. \A i \in Rob(d) : i \in Rob(c) /\ d.entry[i] = c.entry[i]
    BY <1>1, <1>2, <1>3
  <2>2. \A i \in Rob(c) : c.entry[i].executed # "COMPLETED" => i \in Rob(d)
    BY <1>1
  <2> QED
    BY <2>1, <2>2 DEF Done
<1> QED
  BY <1>2, <1>8, <1>9, <1>10, <1>11, <1>12 DEF MemInv

-----------------------------------------------------------------------------
(* The front end, the DTLB and the L1D.                                      *)

Idle(c, d) == SameAccess(c, d) /\ d.head = c.head /\ d.tail = c.tail
              /\ d.inflight_mem_executions = c.inflight_mem_executions
              /\ \A i \in Ids : /\ d.entry[i].executed = c.entry[i].executed
                                /\ d.entry[i].event_cycle = c.entry[i].event_cycle
                                /\ d.entry[i].registers_instrs_depend_on_me =
                                     c.entry[i].registers_instrs_depend_on_me

(* Only the places of the slots change.                                      *)
LEMMA OnlyMoved ==
  ASSUME NEW c, NEW A, NEW d, RobInv(c), MemInv(c, A), Placed(c, d), Idle(c, d)
  PROVE  MemInv(d, A)
<1>1. Rob(d) = Rob(c) /\ Rob(c) \subseteq Ids
  BY RobIs DEF Idle, Rob
<1>2. \A i \in Ids : MemEntry(c, A, i)
  BY DEF MemInv
<1>3. \A i \in Ids : Progress(c, A, d, A, i)
  BY <1>2 DEF Idle, Progress, MemEntry, HasBegun
<1>4. Done(d) = Done(c)
  BY <1>1 DEF Idle, SameAccess, Done
<1>5. d.inflight_mem_executions = Cardinality(Done(d))
  BY <1>4 DEF MemInv, Idle
<1>6. SameAccess(c, d) /\ d.head = c.head /\ Rob(c) \subseteq Rob(d)
  BY <1>1 DEF Idle
<1> QED
  BY <1>3, <1>5, <1>6, MemMoved

LEMMA DtlbReturnsKeepsMem ==
  ASSUME NEW c, RobInv(c), MemInv(c, {}), c = cpu, NEW p \in Packets, DtlbReturns(p), NEW d, d = cpu'
  PROVE  MemInv(d, {})
<1>0. CoreShape(c) /\ Queues(c)
  BY DEF RobInv, MemInv
<1>1. PICK S, q : S = c.dtlb \ {p} /\ q = Append(c.dtlb_processed, p)
  OBVIOUS
<1>2. d = [c EXCEPT !.dtlb = S, !.dtlb_processed = q] /\ p \in c.dtlb
  BY <1>1 DEF DtlbReturns
<1>3. /\ Idle(c, d) /\ d.dtlb = S /\ d.dtlb_processed = q /\ d.LQ = c.LQ /\ d.SQ = c.SQ
      /\ d.RTL0 = c.RTL0 /\ d.RTL1 = c.RTL1 /\ d.RTS0 = c.RTS0 /\ d.RTS1 = c.RTS1
      /\ d.l1d = c.l1d /\ d.l1d_processed = c.l1d_processed
  BY <1>0, <1>2 DEF CoreShape, Idle, SameAccess
<1>4. p \notin ToSet(c.dtlb_processed)
  <2>1. CASE \E s \in LQSlots : p = <<"LQ", s>>
    <3>1. PICK s \in LQSlots : p = <<"LQ", s>>
      BY <2>1
    <3>2. PICK x : LoadAt(c, s, x)
      BY DEF MemInv, LoadSlot
    <3>3. <<"LQ", s>> \in c.dtlb
      BY <1>2, <3>1
    <3>4. x = "dtlb"
      BY <3>2, <3>3 DEF LoadAt
    <3>5. <<"LQ", s>> \notin ToSet(c.dtlb_processed)
      BY <3>2, <3>4 DEF LoadAt
    <3> QED
      BY <3>1, <3>5
  <2>2. CASE \E s \in SQSlots : p = <<"SQ", s>>
    <3>1. PICK s \in SQSlots : p = <<"SQ", s>>
      BY <2>2
    <3>2. PICK x : StoreAt(c, s, x)
      BY DEF MemInv, StoreSlot
    <3>3. <<"SQ", s>> \in c.dtlb
      BY <1>2, <3>1
    <3>4. x = "dtlb"
      BY <3>2, <3>3 DEF StoreAt
    <3>5. <<"SQ", s>> \notin ToSet(c.dtlb_processed)
      BY <3>2, <3>4 DEF StoreAt
    <3> QED
      BY <3>1, <3>5
  <2> QED
    BY <2>1, <2>2 DEF Packets
<1>5. Queue(q, Packets) /\ \A y : y \in ToSet(q) <=> y \in ToSet(c.dtlb_processed) \/ y = p
  <2>1. Queue(c.dtlb_processed, Packets)
    BY <1>0 DEF Queues
  <2> QED
    BY <1>1, <1>4, <2>1, PushOne
<1>6. Queues(d)
  <2>1. IsFiniteSet(S) /\ Cardinality(S) <= Cardinality(c.dtlb) /\ S \subseteq Packets
    <3>1. S \in SUBSET c.dtlb /\ IsFiniteSet(c.dtlb) /\ c.dtlb \subseteq Packets
      BY <1>0, <1>1 DEF Queues
    <3> QED
      BY <3>1, FS_Subset
  <2>2. Cardinality(S) \in Nat /\ Cardinality(c.dtlb) \in Nat /\ DTLB_SIZE \in Nat
        /\ Cardinality(c.dtlb) <= DTLB_SIZE
    BY <1>0, <2>1, FS_CardinalityType, Sizes DEF Queues
  <2>3. Cardinality(S) <= DTLB_SIZE
    BY <2>1, <2>2
  <2> QED
    BY <1>0, <1>3, <1>5, <2>1, <2>3 DEF Queues
<1>7. ASSUME NEW s \in LQSlots, NEW x, LoadAt(c, s, x)  PROVE \E y : LoadAt(d, s, y)
  <2>1. CASE p = <<"LQ", s>>
    <3>1. x = "dtlb"
      BY <1>2, <1>7, <2>1 DEF LoadAt
    <3>2. <<"LQ", s>> \notin S /\ <<"LQ", s>> \in ToSet(q)
      BY <1>1, <1>5, <2>1
    <3>3. LoadAt(d, s, "dtlb_processed")
      BY <1>3, <1>7, <3>1, <3>2 DEF LoadAt, LoadPlaces
    <3> QED
      BY <3>3
  <2>2. CASE p # <<"LQ", s>>
    <3>1. /\ <<"LQ", s>> \in S <=> <<"LQ", s>> \in c.dtlb
          /\ <<"LQ", s>> \in ToSet(q) <=> <<"LQ", s>> \in ToSet(c.dtlb_processed)
      BY <1>1, <1>5, <2>2
    <3>2. LoadAt(d, s, x)
      BY <1>3, <1>7, <3>1 DEF LoadAt
    <3> QED
      BY <3>2
  <2> QED
    BY <2>1, <2>2
<1>8. ASSUME NEW s \in SQSlots, NEW x, StoreAt(c, s, x)  PROVE \E y : StoreAt(d, s, y)
  <2>1. CASE p = <<"SQ", s>>
    <3>1. x = "dtlb"
      BY <1>2, <1>8, <2>1 DEF StoreAt
    <3>2. <<"SQ", s>> \notin S /\ <<"SQ", s>> \in ToSet(q)
      BY <1>1, <1>5, <2>1
    <3>3. StoreAt(d, s, "dtlb_processed")
      BY <1>3, <1>8, <3>1, <3>2 DEF StoreAt, StorePlaces
    <3> QED
      BY <3>3
  <2>2. CASE p # <<"SQ", s>>
    <3>1. /\ <<"SQ", s>> \in S <=> <<"SQ", s>> \in c.dtlb
          /\ <<"SQ", s>> \in ToSet(q) <=> <<"SQ", s>> \in ToSet(c.dtlb_processed)
      BY <1>1, <1>5, <2>2
    <3>2. StoreAt(d, s, x)
      BY <1>3, <1>8, <3>1 DEF StoreAt
    <3> QED
      BY <3>2
  <2> QED
    BY <2>1, <2>2
<1>9. Placed(c, d)
  BY <1>3, <1>6, <1>7, <1>8 DEF Placed
<1> QED
  BY <1>3, <1>9, OnlyMoved

LEMMA L1dReturnsKeepsMem ==
  ASSUME NEW c, RobInv(c), MemInv(c, {}), c = cpu, NEW p \in LQSlots, L1dReturns(p), NEW d, d = cpu'
  PROVE  MemInv(d, {})
<1>0. CoreShape(c) /\ Queues(c)
  BY DEF RobInv, MemInv
<1>1. PICK S, q : S = c.l1d \ {p} /\ q = Append(c.l1d_processed, p)
  OBVIOUS
<1>2. d = [c EXCEPT !.l1d = S, !.l1d_processed = q] /\ p \in c.l1d
  BY <1>1 DEF L1dReturns
<1>3. /\ Idle(c, d) /\ d.l1d = S /\ d.l1d_processed = q /\ d.LQ = c.LQ /\ d.SQ = c.SQ
      /\ d.RTL0 = c.RTL0 /\ d.RTL1 = c.RTL1 /\ d.RTS0 = c.RTS0 /\ d.RTS1 = c.RTS1
      /\ d.dtlb = c.dtlb /\ d.dtlb_processed = c.dtlb_processed
  BY <1>0, <1>2 DEF CoreShape, Idle, SameAccess
<1>4. p \notin ToSet(c.l1d_processed)
  <2>1. PICK x : LoadAt(c, p, x)
    BY DEF MemInv, LoadSlot
  <2>2. x = "l1d"
    BY <1>2, <2>1 DEF LoadAt
  <2> QED
    BY <2>1, <2>2 DEF LoadAt
<1>5. Queue(q, LQSlots) /\ \A y : y \in ToSet(q) <=> y \in ToSet(c.l1d_processed) \/ y = p
  <2>1. Queue(c.l1d_processed, LQSlots)
    BY <1>0 DEF Queues
  <2> QED
    BY <1>1, <1>4, <2>1, PushOne
<1>6. Queues(d)
  <2>1. IsFiniteSet(S) /\ Cardinality(S) <= Cardinality(c.l1d) /\ S \subseteq LQSlots
    <3>1. S \in SUBSET c.l1d /\ IsFiniteSet(c.l1d) /\ c.l1d \subseteq LQSlots
      BY <1>0, <1>1 DEF Queues
    <3> QED
      BY <3>1, FS_Subset
  <2>2. Cardinality(S) \in Nat /\ Cardinality(c.l1d) \in Nat /\ L1D_RQ_SIZE \in Nat
        /\ Cardinality(c.l1d) <= L1D_RQ_SIZE
    BY <1>0, <2>1, FS_CardinalityType, Sizes DEF Queues
  <2>3. Cardinality(S) <= L1D_RQ_SIZE
    BY <2>1, <2>2
  <2> QED
    BY <1>0, <1>3, <1>5, <2>1, <2>3 DEF Queues
<1>7. ASSUME NEW s \in LQSlots, NEW x, LoadAt(c, s, x)  PROVE \E y : LoadAt(d, s, y)
  <2>1. CASE p = s
    <3>1. x = "l1d" /\ s \notin S /\ s \in ToSet(q)
      BY <1>1, <1>2, <1>5, <1>7, <2>1 DEF LoadAt
    <3>2. LoadAt(d, s, "l1d_processed")
      BY <1>3, <1>7, <3>1 DEF LoadAt, LoadPlaces
    <3> QED
      BY <3>2
  <2>2. CASE p # s
    <3>1. (s \in S <=> s \in c.l1d) /\ (s \in ToSet(q) <=> s \in ToSet(c.l1d_processed))
      BY <1>1, <1>5, <2>2
    <3>2. LoadAt(d, s, x)
      BY <1>3, <1>7, <3>1 DEF LoadAt
    <3> QED
      BY <3>2
  <2> QED
    BY <2>1, <2>2
<1>8. \A s, x : StoreAt(c, s, x) => StoreAt(d, s, x)
  BY <1>3 DEF StoreAt
<1>9. Placed(c, d)
  BY <1>3, <1>6, <1>7, <1>8 DEF Placed
<1> QED
  BY <1>3, <1>9, OnlyMoved

LEMMA OthersKeepMem ==
  ASSUME NEW c, RobInv(c), MemInv(c, {}), c = cpu,
         \/ FrontEnd
         \/ \E p \in Packets : DtlbReturns(p)
         \/ \E s \in LQSlots : L1dReturns(s)
         \/ L1dWrites,
         NEW d, d = cpu'
  PROVE  MemInv(d, {})
<1>0. CoreShape(c) /\ Queues(c)
  BY DEF RobInv, MemInv
<1>1. CASE FrontEnd \/ L1dWrites
  <2>1. PICK x, y, z : d = [c EXCEPT !.read = x, !.STA = y] \/ d = [c EXCEPT !.wq = z]
    BY <1>1 DEF FrontEnd, L1dWrites
  <2>2. Idle(c, d) /\ SameQueues(c, d)
    <3>1. CASE d = [c EXCEPT !.read = x, !.STA = y]
      BY <1>0, <3>1 DEF CoreShape, Idle, SameAccess, SameQueues
    <3>2. CASE d = [c EXCEPT !.wq = z]
      BY <1>0, <3>2 DEF CoreShape, Idle, SameAccess, SameQueues
    <3> QED
      BY <2>1, <3>1, <3>2
  <2>3. Placed(c, d)
    BY <1>0, <2>2, PlacesKept
  <2> QED
    BY <2>2, <2>3, OnlyMoved
<1>2. CASE \E p \in Packets : DtlbReturns(p)
  BY <1>2, DtlbReturnsKeepsMem
<1>3. CASE \E s \in LQSlots : L1dReturns(s)
  BY <1>3, L1dReturnsKeepsMem
<1> QED
  BY <1>1, <1>2, <1>3

-----------------------------------------------------------------------------
(* operate_loads.                                                            *)

LEMMA LoadsKeepMem ==
  ASSUME NEW c, RobInv(c), MemInv(c, {}), NEW d, d = operate_loads(c)
  PROVE  MemInv(d, {})
<1>0. Queues(c) /\ LoadsEffect(c, d)
  <2>1. CoreShape(c)
    BY DEF RobInv
  <2> QED
    BY <2>1, LoadsDo DEF MemInv
<1>1. PICK t, r : t = LoadsSent(c) /\ r = LoadsRead(c)
  OBVIOUS
<1>2. PICK F, G : F = ToSet(First(c.RTL0, t)) /\ G = ToSet(First(c.RTL1, r))
  OBVIOUS
<1>3. /\ Queue(c.RTL0, LQSlots) /\ Queue(c.RTL1, LQSlots)
      /\ Len(c.RTL0) \in Nat /\ Len(c.RTL1) \in Nat
  BY <1>0 DEF Queues, Queue
<1>4. /\ DTLB_SIZE - Cardinality(c.dtlb) \in Nat /\ L1D_RQ_SIZE - Cardinality(c.l1d) \in Nat
      /\ LQ_WIDTH \in Nat
  <2>1. Cardinality(c.dtlb) \in Nat /\ Cardinality(c.l1d) \in Nat
    BY <1>0, FS_CardinalityType DEF Queues
  <2> QED
    BY <1>0, <2>1, Sizes DEF Queues
<1>5. t \in 0 .. Len(c.RTL0) /\ t <= DTLB_SIZE - Cardinality(c.dtlb) /\ t <= LQ_WIDTH
  <2>1. PICK y, z : y = Len(c.RTL0) /\ z = DTLB_SIZE - Cardinality(c.dtlb)
    OBVIOUS
  <2>2. t = Min({LQ_WIDTH, y, z}) /\ LQ_WIDTH \in Nat /\ y \in Nat /\ z \in Nat
    BY <1>1, <1>3, <1>4, <2>1 DEF LoadsSent
  <2>3. t \in Nat /\ t <= LQ_WIDTH /\ t <= y /\ t <= z
    BY <2>2, LeastNat3
  <2> QED
    BY <1>3, <2>1, <2>3
<1>6. r \in 0 .. Len(c.RTL1) /\ r <= L1D_RQ_SIZE - Cardinality(c.l1d)
  <2>1. PICK x, y, z : x = LQ_WIDTH - t /\ y = Len(c.RTL1) /\ z = L1D_RQ_SIZE - Cardinality(c.l1d)
    OBVIOUS
  <2>2. x \in Nat /\ y \in Nat /\ z \in Nat
    BY <1>3, <1>4, <1>5, <2>1
  <2>3. r = Min({x, y, z})
    BY <1>1, <2>1 DEF LoadsRead
  <2>4. r \in Nat /\ r <= y /\ r <= z
    BY <2>2, <2>3, LeastNat3
  <2> QED
    BY <1>3, <2>1, <2>4
<1>7. /\ Queue(Rest(c.RTL0, t), LQSlots) /\ F \subseteq ToSet(c.RTL0) /\ F \subseteq LQSlots
      /\ \A x : x \in ToSet(Rest(c.RTL0, t)) <=> x \in ToSet(c.RTL0) /\ x \notin F
      /\ IsFiniteSet(F) /\ Cardinality(F) = t
  BY <1>2, <1>3, <1>5, Pop
<1>8. /\ Queue(Rest(c.RTL1, r), LQSlots) /\ G \subseteq ToSet(c.RTL1) /\ G \subseteq LQSlots
      /\ \A x : x \in ToSet(Rest(c.RTL1, r)) <=> x \in ToSet(c.RTL1) /\ x \notin G
      /\ IsFiniteSet(G) /\ Cardinality(G) = r
  BY <1>2, <1>3, <1>6, Pop
<1>9. /\ d.RTL0 = Rest(c.RTL0, t) /\ d.RTL1 = Rest(c.RTL1, r)
      /\ d.dtlb = c.dtlb \cup ({"LQ"} \X F) /\ d.l1d = c.l1d \cup G
      /\ d.LQ = c.LQ /\ d.SQ = c.SQ /\ d.RTS0 = c.RTS0 /\ d.RTS1 = c.RTS1
      /\ d.dtlb_processed = c.dtlb_processed /\ d.l1d_processed = c.l1d_processed
  BY <1>0, <1>1, <1>2 DEF LoadsEffect
<1>10. Idle(c, d)
  BY <1>0 DEF LoadsEffect, Idle, SameAccess
<1>11. Queues(d)
  <2>1. IsFiniteSet(d.dtlb) /\ Cardinality(d.dtlb) <= DTLB_SIZE
    <3>1. IsFiniteSet({"LQ"} \X F) /\ Cardinality({"LQ"} \X F) = t
      BY <1>7, Tagged
    <3>2. IsFiniteSet(c.dtlb) /\ DTLB_SIZE \in Nat
      BY <1>0, Sizes DEF Queues
    <3>3. Cardinality({"LQ"} \X F) <= DTLB_SIZE - Cardinality(c.dtlb)
      BY <1>5, <3>1
    <3> QED
      BY <1>9, <3>1, <3>2, <3>3, Room
  <2>2. IsFiniteSet(d.l1d) /\ Cardinality(d.l1d) <= L1D_RQ_SIZE
    <3>1. IsFiniteSet(c.l1d) /\ L1D_RQ_SIZE \in Nat
      BY <1>0, Sizes DEF Queues
    <3>2. Cardinality(G) <= L1D_RQ_SIZE - Cardinality(c.l1d)
      BY <1>6, <1>8
    <3> QED
      BY <1>8, <1>9, <3>1, <3>2, Room
  <2>3. d.dtlb \subseteq Packets /\ d.l1d \subseteq LQSlots
    BY <1>0, <1>7, <1>8, <1>9 DEF Queues, Packets
  <2> QED
    BY <1>0, <1>7, <1>8, <1>9, <2>1, <2>2, <2>3 DEF Queues
<1>12. /\ \A s : <<"LQ", s>> \in d.dtlb <=> <<"LQ", s>> \in c.dtlb \/ s \in F
       /\ \A s : <<"SQ", s>> \in d.dtlb <=> <<"SQ", s>> \in c.dtlb
       /\ \A s : s \in d.l1d <=> s \in c.l1d \/ s \in G
       /\ \A s : s \in ToSet(d.RTL0) <=> s \in ToSet(c.RTL0) /\ s \notin F
       /\ \A s : s \in ToSet(d.RTL1) <=> s \in ToSet(c.RTL1) /\ s \notin G
  BY <1>7, <1>8, <1>9
<1>13. ASSUME NEW s \in LQSlots, NEW x, LoadAt(c, s, x)  PROVE \E y : LoadAt(d, s, y)
  <2>1. CASE s \in F
    <3>1. x = "RTL0" /\ s \notin G
      BY <1>7, <1>8, <1>13, <2>1 DEF LoadAt
    <3>2. LoadAt(d, s, "dtlb")
      BY <1>9, <1>12, <1>13, <2>1, <3>1 DEF LoadAt, LoadPlaces
    <3> QED
      BY <3>2
  <2>2. CASE s \in G
    <3>1. x = "RTL1" /\ s \notin F
      BY <1>7, <1>8, <1>13, <2>2 DEF LoadAt
    <3>2. LoadAt(d, s, "l1d")
      BY <1>9, <1>12, <1>13, <2>2, <3>1 DEF LoadAt, LoadPlaces
    <3> QED
      BY <3>2
  <2>3. CASE s \notin F /\ s \notin G
    <3>1. LoadAt(d, s, x)
      BY <1>9, <1>12, <1>13, <2>3 DEF LoadAt
    <3> QED
      BY <3>1
  <2> QED
    BY <2>1, <2>2, <2>3
<1>14. \A s, x : StoreAt(c, s, x) => StoreAt(d, s, x)
  BY <1>9, <1>12 DEF StoreAt
<1>15. Placed(c, d)
  BY <1>9, <1>11, <1>13, <1>14 DEF Placed
<1> QED
  BY <1>10, <1>15, OnlyMoved

-----------------------------------------------------------------------------
(* handle_memory_return.                                                     *)

LEMMA SlotsAre ==
  ASSUME NEW q, Queue(q, Packets), NEW kind \in {"LQ", "SQ"}, NEW T,
         \A s : <<kind, s>> \in Packets => s \in T
  PROVE  /\ Queue(Slots(q, kind), T)
         /\ \A s : s \in ToSet(Slots(q, kind)) <=> <<kind, s>> \in ToSet(q)
<1>1. q \in Seq(Packets) /\ Distinct(q) /\ DOMAIN q = 1 .. Len(q) /\ Len(q) \in Nat
  BY DEF Queue
<1>2. PICK K : K = {k \in DOMAIN q : q[k][1] = kind}
  OBVIOUS
<1>3. PICK mine : mine = InOrder(K)
  OBVIOUS
<1>4. mine \in Seq(K) /\ Distinct(mine) /\ ToSet(mine) = K
  <2>1. Len(q) \in Int /\ 1 \in Int /\ K \in SUBSET (1 .. Len(q))
    BY <1>1, <1>2
  <2>2. IsFiniteSet(1 .. Len(q))
    BY <2>1, FS_Interval
  <2>3. IsFiniteSet(K)
    BY <2>1, <2>2, FS_Subset
  <2>4. K \in SUBSET Int
    BY <2>1
  <2> QED
    BY <1>3, <2>3, <2>4, NthIs DEF Lists
<1>5. PICK m : m = [k \in DOMAIN mine |-> q[mine[k]][2]]
  OBVIOUS
<1>6. Slots(q, kind) = m
  BY <1>2, <1>3, <1>5 DEF Slots
<1>7. PICK n \in Nat : n = Len(mine) /\ DOMAIN mine = 1 .. n
  BY <1>4
<1>8. \A k \in K : q[k] = <<kind, q[k][2]>> /\ q[k] \in Packets
  BY <1>1, <1>2 DEF Packets
<1>9. \A k \in 1 .. n : mine[k] \in K /\ q[mine[k]] = <<kind, m[k]>> /\ m[k] \in T
  <2> SUFFICES ASSUME NEW k \in 1 .. n  PROVE mine[k] \in K /\ q[mine[k]] = <<kind, m[k]>> /\ m[k] \in T
    OBVIOUS
  <2>1. mine[k] \in K /\ m[k] = q[mine[k]][2]
    BY <1>4, <1>5, <1>7
  <2>2. q[mine[k]] = <<kind, m[k]>> /\ q[mine[k]] \in Packets
    BY <1>8, <2>1
  <2> QED
    BY <2>1, <2>2
<1>10. m \in Seq(T) /\ DOMAIN m = 1 .. n
  <2>1. DOMAIN m = 1 .. n /\ m = [k \in 1 .. n |-> m[k]]
    BY <1>5, <1>7
  <2>2. m \in [1 .. n -> T]
    BY <1>9, <2>1
  <2> QED
    BY <1>7, <2>1, <2>2
<1>11. Distinct(m)
  <2> SUFFICES ASSUME NEW i \in 1 .. n, NEW j \in 1 .. n, m[i] = m[j]  PROVE i = j
    BY <1>10 DEF Distinct
  <2>1. q[mine[i]] = q[mine[j]] /\ mine[i] \in DOMAIN q /\ mine[j] \in DOMAIN q
    BY <1>2, <1>9
  <2>2. mine[i] = mine[j]
    BY <1>1, <2>1 DEF Distinct
  <2> QED
    BY <1>4, <1>7, <2>2 DEF Distinct
<1>12. ToSet(m) = {m[k] : k \in 1 .. n} /\ ToSet(mine) = {mine[k] : k \in 1 .. n}
       /\ ToSet(q) = {q[k] : k \in DOMAIN q}
  BY <1>7, <1>10 DEF ToSet
<1>13. ASSUME NEW s \in ToSet(m)  PROVE <<kind, s>> \in ToSet(q)
  BY <1>2, <1>9, <1>12
<1>14. ASSUME NEW s, <<kind, s>> \in ToSet(q)  PROVE s \in ToSet(m)
  <2>1. PICK k \in DOMAIN q : q[k] = <<kind, s>>
    BY <1>12, <1>14
  <2>2. k \in K
    BY <1>2, <2>1
  <2>3. PICK l \in 1 .. n : mine[l] = k
    BY <1>4, <1>12, <2>2
  <2>4. m[l] = s
    BY <1>9, <2>1, <2>3
  <2> QED
    BY <1>12, <2>4
<1> QED
  BY <1>6, <1>10, <1>11, <1>13, <1>14 DEF Queue

LEMMA ImageSize ==
  ASSUME NEW M, IsFiniteSet(M), NEW f, DOMAIN f = M, f = [x \in M |-> f[x]],
         \A x, y \in M : f[x] = f[y] => x = y
  PROVE  IsFiniteSet({f[x] : x \in M}) /\ Cardinality({f[x] : x \in M}) = Cardinality(M)
<1>1. PICK Z : Z = {f[x] : x \in M}
  OBVIOUS
<1>2. f \in [M -> Z] /\ \A z \in Z : \E x \in M : f[x] = z
  BY <1>1
<1>3. f \in Bijection(M, Z)
  BY <1>2 DEF Bijection, Injection, IsInjective, Surjection
<1>4. ExistsBijection(M, Z)
  BY <1>3 DEF ExistsBijection
<1>5. IsFiniteSet(Z) /\ Cardinality(Z) = Cardinality(M)
  BY <1>4, FS_Bijection
<1> QED
  BY <1>1, <1>5

LEMMA OwnerOf ==
  ASSUME NEW c, NEW A, RobInv(c), MemInv(c, A)
  PROVE  /\ \A s \in LQSlots : c.LQ[s].id # 0 => /\ LoadOwner(c, A, s, c.LQ[s].id)
                                                 /\ c.LQ[s].id \in Ids /\ ~IsStore(c.LQ[s].id)
         /\ \A s \in SQSlots : c.SQ[s].id # 0 => /\ StoreOwner(c, A, s, c.SQ[s].id)
                                                 /\ c.SQ[s].id \in Ids /\ ~IsLoad(c.SQ[s].id)
         /\ 0 \notin Ids /\ 0 \notin LQSlots /\ 0 \notin SQSlots
<1>1. Rob(c) \subseteq Ids
  BY RobIs
<1>2. program \in Programs
  BY DEF RobInv
<1>3. \A i \in Ids : ~ (IsLoad(i) /\ IsStore(i))
  BY <1>2, Program
<1>4. ASSUME NEW s \in LQSlots, NEW i, i = c.LQ[s].id, i # 0
      PROVE  LoadOwner(c, A, s, i) /\ i \in Ids /\ ~IsStore(i)
  <2>1. LoadOwner(c, A, s, i)
    BY <1>4 DEF MemInv, LoadSlot
  <2> QED
    BY <1>1, <1>3, <2>1 DEF LoadOwner
<1>5. ASSUME NEW s \in SQSlots, NEW i, i = c.SQ[s].id, i # 0
      PROVE  StoreOwner(c, A, s, i) /\ i \in Ids /\ ~IsLoad(i)
  <2>1. StoreOwner(c, A, s, i)
    BY <1>5 DEF MemInv, StoreSlot
  <2> QED
    BY <1>1, <1>3, <2>1 DEF StoreOwner
<1>6. 0 \notin Ids /\ 0 \notin LQSlots /\ 0 \notin SQSlots
  BY <1>2, Program, Sizes DEF LQSlots, SQSlots
<1> QED
  BY <1>4, <1>5, <1>6

LEMMA ReturnKeepsMem ==
  ASSUME NEW c, RobInv(c), MemInv(c, {}), NEW d, d = handle_memory_return(c)
  PROVE  MemInv(d, {})
<1>0. Queues(c) /\ ReturnEffect(c, d) /\ program \in Programs
  <2>1. CoreShape(c)
    BY DEF RobInv
  <2> QED
    BY <2>1, ReturnDoes DEF MemInv, RobInv
<1>1. PICK t, n : t = Translated(c) /\ n = Read(c)
  OBVIOUS
<1>2. PICK f, M : f = First(c.dtlb_processed, t) /\ M = Merged(c)
  OBVIOUS
<1>3. /\ Queue(c.dtlb_processed, Packets) /\ Queue(c.l1d_processed, LQSlots)
      /\ Queue(c.RTS1, SQSlots) /\ Queue(c.RTL1, LQSlots)
      /\ Len(c.dtlb_processed) \in Nat /\ Len(c.l1d_processed) \in Nat
  BY <1>0 DEF Queues, Queue
<1>4. t \in 0 .. Len(c.dtlb_processed) /\ n \in 0 .. Len(c.l1d_processed)
  <2>1. PICK y, z : y = Len(c.dtlb_processed) /\ z = Len(c.l1d_processed)
    OBVIOUS
  <2>2. MAX_READ \in Nat /\ y \in Nat /\ z \in Nat /\ t = Min({MAX_READ, y}) /\ n = Min({MAX_READ, z})
    BY <1>1, <1>3, <2>1, Sizes DEF Translated, Read
  <2>3. t \in Nat /\ t <= y /\ n \in Nat /\ n <= z
    BY <2>2, LeastNat
  <2> QED
    BY <2>1, <2>2, <2>3
<1>5. /\ Queue(Rest(c.dtlb_processed, t), Packets) /\ ToSet(f) \subseteq ToSet(c.dtlb_processed)
      /\ \A x : x \in ToSet(Rest(c.dtlb_processed, t)) <=> x \in ToSet(c.dtlb_processed) /\ x \notin ToSet(f)
      /\ Queue(f, Packets)
  BY <1>2, <1>3, <1>4, Pop
<1>6. /\ Queue(Rest(c.l1d_processed, n), LQSlots) /\ M \subseteq ToSet(c.l1d_processed) /\ M \subseteq LQSlots
      /\ \A x : x \in ToSet(Rest(c.l1d_processed, n)) <=> x \in ToSet(c.l1d_processed) /\ x \notin M
      /\ IsFiniteSet(M) /\ Cardinality(M) = n
  <2>1. M = ToSet(First(c.l1d_processed, n))
    BY <1>1, <1>2 DEF Merged
  <2> QED
    BY <1>3, <1>4, <2>1, Pop
<1>7. /\ Queue(Slots(f, "SQ"), SQSlots)
      /\ \A s : s \in ToSet(Slots(f, "SQ")) <=> <<"SQ", s>> \in ToSet(f)
      /\ Queue(Slots(f, "LQ"), LQSlots)
      /\ \A s : s \in ToSet(Slots(f, "LQ")) <=> <<"LQ", s>> \in ToSet(f)
  <2>1. /\ \A s : <<"SQ", s>> \in Packets => s \in SQSlots
        /\ \A s : <<"LQ", s>> \in Packets => s \in LQSlots
    BY DEF Packets
  <2> QED
    BY <1>5, <2>1, SlotsAre
<1>8. /\ d.dtlb_processed = Rest(c.dtlb_processed, t) /\ d.l1d_processed = Rest(c.l1d_processed, n)
      /\ d.RTS1 = c.RTS1 \o Slots(f, "SQ") /\ d.RTL1 = c.RTL1 \o Slots(f, "LQ")
      /\ d.inflight_mem_executions = c.inflight_mem_executions + n
      /\ d.SQ = c.SQ /\ d.RTL0 = c.RTL0 /\ d.RTS0 = c.RTS0 /\ d.dtlb = c.dtlb /\ d.l1d = c.l1d
      /\ d.head = c.head /\ d.tail = c.tail
  BY <1>0, <1>1, <1>2 DEF ReturnEffect
<1>9. \A s \in LQSlots : d.LQ[s] = IF s \in M THEN NoLoad ELSE c.LQ[s]
  BY <1>0, <1>2 DEF ReturnEffect
<1>10. PICK L : L = Loaded(c)
  OBVIOUS
<1>11. \A i \in Ids :
         /\ d.entry[i].num_mem_ops = (IF i \in L THEN c.entry[i].num_mem_ops - 1 ELSE c.entry[i].num_mem_ops)
         /\ d.entry[i].executed = c.entry[i].executed /\ d.entry[i].from = c.entry[i].from
         /\ d.entry[i].event_cycle = c.entry[i].event_cycle
         /\ d.entry[i].registers_instrs_depend_on_me = c.entry[i].registers_instrs_depend_on_me
         /\ d.entry[i].memory_instrs_depend_on_me = c.entry[i].memory_instrs_depend_on_me
         /\ d.entry[i].lq_index = c.entry[i].lq_index /\ d.entry[i].sq_index = c.entry[i].sq_index
  BY <1>0, <1>10 DEF ReturnEffect
<1>12. \A i : i \in L <=> \E s \in M : c.LQ[s].id = i
  BY <1>2, <1>10 DEF Loaded
<1>13. Rob(d) = Rob(c) /\ Rob(c) \subseteq Ids /\ IsFiniteSet(Rob(c))
  BY <1>8, RobIs DEF Rob
<1>14. /\ \A s \in LQSlots : c.LQ[s].id # 0 => /\ LoadOwner(c, {}, s, c.LQ[s].id)
                                               /\ c.LQ[s].id \in Ids /\ ~IsStore(c.LQ[s].id)
       /\ \A s \in SQSlots : c.SQ[s].id # 0 => /\ StoreOwner(c, {}, s, c.SQ[s].id)
                                               /\ c.SQ[s].id \in Ids /\ ~IsLoad(c.SQ[s].id)
       /\ 0 \notin Ids /\ 0 \notin LQSlots /\ 0 \notin SQSlots
  BY OwnerOf
<1>15. \A s \in M : s \in LQSlots /\ LoadAt(c, s, "l1d_processed") /\ c.LQ[s].id # 0 /\ c.LQ[s].producer_id = 0
  <2> SUFFICES ASSUME NEW s \in M
               PROVE  s \in LQSlots /\ LoadAt(c, s, "l1d_processed") /\ c.LQ[s].id # 0 /\ c.LQ[s].producer_id = 0
    OBVIOUS
  <2>1. s \in LQSlots /\ s \in ToSet(c.l1d_processed)
    BY <1>6
  <2>2. PICK x : LoadAt(c, s, x)
    BY <2>1 DEF MemInv, LoadSlot
  <2>3. x = "l1d_processed"
    BY <2>1, <2>2 DEF LoadAt
  <2> QED
    BY <2>1, <2>2, <2>3 DEF LoadAt
<1>16. \A i \in L : /\ i \in Ids /\ i \in Rob(c) /\ IsLoad(i) /\ ~IsStore(i) /\ HasBegun(c, {}, i)
                    /\ c.entry[i].num_mem_ops = 1 /\ c.entry[i].lq_index \in M
  BY <1>12, <1>14, <1>15 DEF LoadOwner
<1>17. \A i \in Ids : MemEntry(c, {}, i)
  BY DEF MemInv
<1>18. \A i \in Ids : HasBegun(d, {}, i) <=> HasBegun(c, {}, i)
  BY <1>11 DEF HasBegun
<1>19. \A i \in L : d.entry[i].num_mem_ops = 0
  BY <1>11, <1>16
<1>20. ASSUME NEW i \in Ids  PROVE MemEntry(d, {}, i)
  <2>1. MemEntry(c, {}, i)
    BY <1>17
  <2>2. \A j \in c.entry[i].memory_instrs_depend_on_me : Depends(c, i, j)
    BY <2>1 DEF MemEntry
  <2>3. ASSUME NEW j \in c.entry[i].memory_instrs_depend_on_me  PROVE Depends(d, i, j)
    <3>1. Depends(c, i, j) /\ j \in Ids
      BY <2>2 DEF Depends
    <3>2. CASE d.entry[i].num_mem_ops = 1
      <4>1. i \notin L /\ c.entry[i].num_mem_ops = 1
        BY <1>11, <1>19, <3>2
      <4>2. /\ c.entry[j].lq_index \in LQSlots
            /\ c.LQ[c.entry[j].lq_index].id = j /\ c.LQ[c.entry[j].lq_index].producer_id = i
        BY <3>1, <4>1 DEF Depends
      <4>3. c.entry[j].lq_index \notin M
        BY <1>14, <1>15, <4>2
      <4>4. d.LQ[c.entry[j].lq_index] = c.LQ[c.entry[j].lq_index] /\ d.entry[j].lq_index = c.entry[j].lq_index
        BY <1>9, <1>11, <3>1, <4>2, <4>3
      <4> QED
        BY <3>1, <4>2, <4>4 DEF Depends
    <3>3. CASE d.entry[i].num_mem_ops # 1
      BY <3>1, <3>3 DEF Depends
    <3> QED
      BY <3>2, <3>3
  <2>4. CASE i \in L
    <3>1. d.entry[i].num_mem_ops = 0 /\ IsMemory(i) /\ HasBegun(d, {}, i) /\ ~IsStore(i)
      BY <1>16, <1>18, <1>19, <2>4 DEF IsMemory
    <3> QED
      BY <1>11, <2>1, <2>3, <3>1 DEF MemEntry
  <2>5. CASE i \notin L
    <3>1. d.entry[i].num_mem_ops = c.entry[i].num_mem_ops
      BY <1>11, <2>5
    <3> QED
      BY <1>8, <1>11, <1>18, <2>1, <2>3, <3>1 DEF MemEntry
  <2> QED
    BY <2>4, <2>5
<1>21. Queue(d.RTS1, SQSlots) /\ \A s : s \in ToSet(d.RTS1) <=> s \in ToSet(c.RTS1) \/ <<"SQ", s>> \in ToSet(f)
  <2>1. ToSet(c.RTS1) \cap ToSet(Slots(f, "SQ")) = {}
    <3> SUFFICES ASSUME NEW s \in ToSet(c.RTS1), s \in ToSet(Slots(f, "SQ"))  PROVE FALSE
      OBVIOUS
    <3>1. <<"SQ", s>> \in ToSet(c.dtlb_processed) /\ s \in SQSlots
      <4>1. <<"SQ", s>> \in ToSet(f)
        BY <1>7
      <4>2. ToSet(c.RTS1) \subseteq SQSlots
        BY <1>3, Spread DEF Queue
      <4> QED
        BY <1>5, <4>1, <4>2
    <3>2. PICK x : StoreAt(c, s, x)
      BY <3>1 DEF MemInv, StoreSlot
    <3> QED
      BY <3>1, <3>2 DEF StoreAt
  <2> QED
    BY <1>3, <1>7, <1>8, <2>1, Push
<1>22. Queue(d.RTL1, LQSlots) /\ \A s : s \in ToSet(d.RTL1) <=> s \in ToSet(c.RTL1) \/ <<"LQ", s>> \in ToSet(f)
  <2>1. ToSet(c.RTL1) \cap ToSet(Slots(f, "LQ")) = {}
    <3> SUFFICES ASSUME NEW s \in ToSet(c.RTL1), s \in ToSet(Slots(f, "LQ"))  PROVE FALSE
      OBVIOUS
    <3>1. <<"LQ", s>> \in ToSet(c.dtlb_processed) /\ s \in LQSlots
      <4>1. <<"LQ", s>> \in ToSet(f)
        BY <1>7
      <4>2. ToSet(c.RTL1) \subseteq LQSlots
        BY <1>3, Spread DEF Queue
      <4> QED
        BY <1>5, <4>1, <4>2
    <3>2. PICK x : LoadAt(c, s, x)
      BY <3>1 DEF MemInv, LoadSlot
    <3> QED
      BY <3>1, <3>2 DEF LoadAt
  <2> QED
    BY <1>3, <1>7, <1>8, <2>1, Push
<1>23. Queues(d)
  BY <1>0, <1>5, <1>6, <1>8, <1>21, <1>22 DEF Queues
<1>24. /\ \A x : x \in ToSet(d.dtlb_processed) <=> x \in ToSet(c.dtlb_processed) /\ x \notin ToSet(f)
       /\ \A x : x \in ToSet(d.l1d_processed) <=> x \in ToSet(c.l1d_processed) /\ x \notin M
  BY <1>5, <1>6, <1>8
<1>25. ASSUME NEW s \in LQSlots  PROVE LoadSlot(d, {}, s)
  <2>1. LoadSlot(c, {}, s)
    BY DEF MemInv
  <2>2. PICK x : LoadAt(c, s, x)
    BY <2>1 DEF LoadSlot
  <2>3. CASE s \in M
    <3>1. d.LQ[s] = NoLoad
      BY <1>9, <2>3
    <3>2. LoadAt(c, s, "l1d_processed") /\ <<"LQ", s>> \notin ToSet(f)
      <4>1. LoadAt(c, s, "l1d_processed")
        BY <1>15, <2>3
      <4> QED
        BY <1>5, <4>1 DEF LoadAt
    <3>3. LoadAt(d, s, "free")
      BY <1>8, <1>22, <1>24, <2>3, <3>1, <3>2 DEF LoadAt, LoadPlaces, NoLoad
    <3>4. d.LQ[s] \in [id: Ids \cup {0}, producer_id: Ids \cup {0}] /\ d.LQ[s].id = 0
      BY <3>1 DEF NoLoad
    <3> QED
      BY <3>3, <3>4 DEF LoadSlot
  <2>4. CASE s \notin M
    <3>1. d.LQ[s] = c.LQ[s]
      BY <1>9, <2>4
    <3>2. \E y : LoadAt(d, s, y)
      <4>1. CASE <<"LQ", s>> \in ToSet(f)
        <5>1. x = "dtlb_processed"
          BY <1>5, <2>2, <4>1 DEF LoadAt
        <5>2. LoadAt(d, s, "RTL1")
          BY <1>8, <1>22, <1>24, <2>2, <3>1, <4>1, <5>1 DEF LoadAt, LoadPlaces
        <5> QED
          BY <5>2
      <4>2. CASE <<"LQ", s>> \notin ToSet(f)
        <5>1. LoadAt(d, s, x)
          BY <1>8, <1>22, <1>24, <2>2, <2>4, <3>1, <4>2 DEF LoadAt
        <5> QED
          BY <5>1
      <4> QED
        BY <4>1, <4>2
    <3>3. ASSUME NEW i, i = c.LQ[s].id, i # 0  PROVE LoadOwner(d, {}, s, i)
      <4>1. LoadOwner(c, {}, s, i) /\ i \in Ids
        BY <1>14, <3>3
      <4>2. i \notin L
        BY <1>16, <2>4, <4>1 DEF LoadOwner
      <4> QED
        BY <1>8, <1>11, <1>13, <1>18, <3>1, <4>1, <4>2 DEF LoadOwner
    <3> QED
      BY <2>1, <3>1, <3>2, <3>3 DEF LoadSlot
  <2> QED
    BY <2>3, <2>4
<1>26. ASSUME NEW s \in SQSlots  PROVE StoreSlot(d, {}, s)
  <2>1. StoreSlot(c, {}, s)
    BY DEF MemInv
  <2>2. PICK x : StoreAt(c, s, x)
    BY <2>1 DEF StoreSlot
  <2>3. \E y : StoreAt(d, s, y)
    <3>1. CASE <<"SQ", s>> \in ToSet(f)
      <4>1. x = "dtlb_processed"
        BY <1>5, <2>2, <3>1 DEF StoreAt
      <4>2. StoreAt(d, s, "RTS1")
        BY <1>8, <1>21, <1>24, <2>2, <3>1, <4>1 DEF StoreAt, StorePlaces
      <4> QED
        BY <4>2
    <3>2. CASE <<"SQ", s>> \notin ToSet(f)
      <4>1. StoreAt(d, s, x)
        BY <1>8, <1>21, <1>24, <2>2, <3>2 DEF StoreAt
      <4> QED
        BY <4>1
    <3> QED
      BY <3>1, <3>2
  <2>4. ASSUME NEW i, i = c.SQ[s].id, i # 0  PROVE StoreOwner(d, {}, s, i)
    <3>1. StoreOwner(c, {}, s, i) /\ i \in Ids /\ i \notin L
      BY <1>14, <1>16, <2>4
    <3> QED
      BY <1>8, <1>11, <1>13, <1>18, <3>1 DEF StoreOwner
  <2> QED
    BY <1>8, <2>1, <2>3, <2>4 DEF StoreSlot
<1>27. d.inflight_mem_executions = Cardinality(Done(d))
  <2>1. IsFiniteSet(L) /\ Cardinality(L) = n
    <3>1. PICK g : g = [s \in M |-> c.LQ[s].id]
      OBVIOUS
    <3>2. DOMAIN g = M /\ g = [s \in M |-> g[s]] /\ \A s, u \in M : g[s] = g[u] => s = u
      <4>1. \A s \in M : g[s] = c.LQ[s].id /\ c.entry[g[s]].lq_index = s
        BY <1>14, <1>15, <3>1 DEF LoadOwner
      <4> QED
        BY <3>1, <4>1
    <3>3. {g[s] : s \in M} = L
      BY <1>2, <1>10, <3>1 DEF Loaded
    <3>4. IsFiniteSet({g[s] : s \in M}) /\ Cardinality({g[s] : s \in M}) = Cardinality(M)
      BY <1>6, <3>2, ImageSize
    <3> QED
      BY <1>6, <3>3, <3>4
  <2>2. Done(d) = Done(c) \cup L /\ Done(c) \cap L = {}
    <3>1. \A i \in L : i \in Rob(c) /\ IsMemory(i) /\ c.entry[i].num_mem_ops = 1 /\ d.entry[i].executed # "COMPLETED"
      BY <1>11, <1>16, <1>17 DEF IsMemory, MemEntry
    <3> QED
      BY <1>11, <1>13, <1>19, <3>1 DEF Done
  <2>3. IsFiniteSet(Done(c))
    <3>1. Done(c) \in SUBSET Rob(c)
      BY DEF Done
    <3> QED
      BY <1>13, <3>1, FS_Subset
  <2>4. Cardinality(Done(c) \cup L) = Cardinality(Done(c)) + Cardinality(L) - Cardinality(Done(c) \cap L)
    BY <2>1, <2>3, FS_Union
  <2>5. /\ Cardinality(Done(c) \cap L) = 0 /\ Cardinality(Done(c)) \in Nat /\ Cardinality(L) \in Nat
    BY <2>1, <2>2, <2>3, FS_EmptySet, FS_CardinalityType
  <2> QED
    BY <1>8, <2>1, <2>2, <2>4, <2>5 DEF MemInv
<1> QED
  BY <1>20, <1>23, <1>25, <1>26, <1>27 DEF MemInv

-----------------------------------------------------------------------------
(* operate_stores.                                                           *)

LEMMA DisjointSum ==
  ASSUME NEW S, IsFiniteSet(S), NEW T, IsFiniteSet(T), S \cap T = {}
  PROVE  IsFiniteSet(S \cup T) /\ Cardinality(S \cup T) = Cardinality(S) + Cardinality(T)
<1>1. /\ IsFiniteSet(S \cup T)
      /\ Cardinality(S \cup T) = Cardinality(S) + Cardinality(T) - Cardinality(S \cap T)
  BY FS_Union
<1>2. Cardinality(S \cap T) = 0 /\ Cardinality(S) \in Nat /\ Cardinality(T) \in Nat
  BY FS_EmptySet, FS_CardinalityType
<1> QED
  BY <1>1, <1>2

(* The stores that execute, and the loads that they are forwarded to.        *)
LEMMA RanAre ==
  ASSUME NEW c, RobInv(c), MemInv(c, {}), Ran(c) \subseteq ToSet(c.RTS1), Ran(c) \subseteq SQSlots
  PROVE  /\ \A s \in Ran(c) : StoreAt(c, s, "RTS1") /\ c.SQ[s].id # 0 /\ c.SQ[s].id \in RanIds(c)
         /\ \A p \in RanIds(c) : /\ p \in Ids /\ p \in Rob(c) /\ IsStore(p) /\ ~IsLoad(p)
                                 /\ HasBegun(c, {}, p) /\ c.entry[p].num_mem_ops = 1
                                 /\ c.entry[p].sq_index \in Ran(c)
<1>1. ASSUME NEW s \in Ran(c)
      PROVE  StoreAt(c, s, "RTS1") /\ c.SQ[s].id # 0 /\ ~c.SQ[s].fetched /\ c.SQ[s].id \in RanIds(c)
  <2>1. s \in SQSlots /\ s \in ToSet(c.RTS1)
    OBVIOUS
  <2>2. PICK x : StoreAt(c, s, x)
    BY <2>1 DEF MemInv, StoreSlot
  <2>3. x = "RTS1"
    BY <2>1, <2>2 DEF StoreAt
  <2>4. StoreAt(c, s, "RTS1")
    BY <2>2, <2>3
  <2> QED
    BY <2>4 DEF StoreAt, RanIds
<1>2. ASSUME NEW s \in Ran(c), NEW p, p = c.SQ[s].id
      PROVE  /\ p \in Ids /\ p \in Rob(c) /\ IsStore(p) /\ ~IsLoad(p)
             /\ HasBegun(c, {}, p) /\ c.entry[p].num_mem_ops = 1
             /\ c.entry[p].sq_index \in Ran(c)
  <2>1. StoreOwner(c, {}, s, p) /\ p \in Ids /\ ~IsLoad(p)
    BY <1>1, <1>2, OwnerOf
  <2>2. ~c.SQ[s].fetched
    BY <1>1
  <2> QED
    BY <1>2, <2>1, <2>2 DEF StoreOwner
<1>3. \A p \in RanIds(c) : \E s \in Ran(c) : p = c.SQ[s].id
  BY DEF RanIds
<1> QED
  BY <1>1, <1>2, <1>3

LEMMA ResolvedAre ==
  ASSUME NEW c, RobInv(c), MemInv(c, {}), Ran(c) \subseteq ToSet(c.RTS1), Ran(c) \subseteq SQSlots
  PROVE  /\ \A j \in Resolved(c) :
              /\ j \in Ids /\ j \in Rob(c) /\ IsLoad(j) /\ ~IsStore(j) /\ HasBegun(c, {}, j)
              /\ c.entry[j].num_mem_ops = 1 /\ c.entry[j].lq_index \in LQSlots
              /\ c.LQ[c.entry[j].lq_index].id = j
              /\ c.LQ[c.entry[j].lq_index].producer_id \in RanIds(c)
              /\ By(c, j) = LastStore(j) /\ By(c, j) \in Ids
         /\ \A p \in RanIds(c) : c.entry[p].memory_instrs_depend_on_me \subseteq Resolved(c)
<1>0. program \in Programs /\ \A i \in Ids : MemEntry(c, {}, i)
  BY DEF RobInv, MemInv
<1>1. \A p \in RanIds(c) : p \in Ids /\ c.entry[p].num_mem_ops = 1
  BY RanAre
<1>2. 0 \notin Ids /\ 0 \notin LQSlots
  BY OwnerOf
<1>3. ASSUME NEW p \in RanIds(c), NEW j \in c.entry[p].memory_instrs_depend_on_me
      PROVE  /\ j \in Ids /\ IsLoad(j) /\ p = LastStore(j)
             /\ c.entry[j].lq_index \in LQSlots
             /\ c.LQ[c.entry[j].lq_index].id = j /\ c.LQ[c.entry[j].lq_index].producer_id = p
             /\ program[j].load = program[p].store
  <2>1. p \in Ids /\ c.entry[p].num_mem_ops = 1
    BY <1>1
  <2>2. MemEntry(c, {}, p)
    BY <1>0, <2>1
  <2>3. Depends(c, p, j)
    BY <2>2 DEF MemEntry
  <2>4. j \in Ids /\ IsLoad(j) /\ p = LastStore(j)
    BY <2>3 DEF Depends
  <2>5. program[LastStore(j)].store = program[j].load
    BY <1>0, <1>2, <2>1, <2>4, LastStoreIs
  <2> QED
    BY <2>1, <2>3, <2>4, <2>5 DEF Depends
<1>4. \A j \in Resolved(c) : \E p \in RanIds(c) : j \in c.entry[p].memory_instrs_depend_on_me
  BY DEF Resolved, Dependents, RanIds
<1>5. ASSUME NEW p \in RanIds(c), NEW j \in c.entry[p].memory_instrs_depend_on_me
      PROVE  j \in Resolved(c)
  <2>1. PICK s \in Ran(c) : p = c.SQ[s].id
    BY DEF RanIds
  <2>2. c.entry[j].lq_index # 0 /\ program[j].load = program[p].store
    BY <1>2, <1>3
  <2>3. j \in Dependents(c, s)
    BY <1>5, <2>1, <2>2 DEF Dependents
  <2> QED
    BY <2>3 DEF Resolved
<1>6. ASSUME NEW j \in Resolved(c)
      PROVE  /\ j \in Ids /\ j \in Rob(c) /\ IsLoad(j) /\ ~IsStore(j) /\ HasBegun(c, {}, j)
             /\ c.entry[j].num_mem_ops = 1 /\ c.entry[j].lq_index \in LQSlots
             /\ c.LQ[c.entry[j].lq_index].id = j
             /\ c.LQ[c.entry[j].lq_index].producer_id \in RanIds(c)
             /\ By(c, j) = LastStore(j) /\ By(c, j) \in Ids
  <2>1. PICK p \in RanIds(c) : j \in c.entry[p].memory_instrs_depend_on_me
    BY <1>4
  <2>2. PICK s : s = c.entry[j].lq_index
    OBVIOUS
  <2>3. /\ j \in Ids /\ IsLoad(j) /\ s \in LQSlots /\ c.LQ[s].id = j /\ c.LQ[s].producer_id = p
    BY <1>3, <2>1, <2>2
  <2>4. LoadOwner(c, {}, s, j) /\ ~IsStore(j)
    BY <1>2, <2>3, OwnerOf
  <2>5. By(c, j) \in RanIds(c) /\ j \in c.entry[By(c, j)].memory_instrs_depend_on_me
    BY <2>1 DEF By
  <2>6. By(c, j) = LastStore(j) /\ By(c, j) \in Ids
    BY <1>1, <1>3, <2>5
  <2> QED
    BY <2>2, <2>3, <2>4, <2>6 DEF LoadOwner
<1> QED
  BY <1>5, <1>6

LEMMA StoresKeepMem ==
  ASSUME NEW c, RobInv(c), MemInv(c, {}), NEW d, d = operate_stores(c)
  PROVE  MemInv(d, {})
<1>0. Queues(c) /\ StoresEffect(c, d) /\ program \in Programs
  <2>1. CoreShape(c)
    BY DEF RobInv
  <2> QED
    BY <2>1, StoresDo DEF MemInv, RobInv
<1>1. PICK t, x, R, F : /\ t = StoresSent(c) /\ x = StoresRun(c) /\ R = Ran(c)
                        /\ F = ToSet(First(c.RTS0, t))
  OBVIOUS
<1>2. PICK P, Q : P = RanIds(c) /\ Q = Resolved(c)
  OBVIOUS
<1>3. /\ Queue(c.RTS0, SQSlots) /\ Queue(c.RTS1, SQSlots)
      /\ Len(c.RTS0) \in Nat /\ Len(c.RTS1) \in Nat
  BY <1>0 DEF Queues, Queue
<1>4. DTLB_SIZE - Cardinality(c.dtlb) \in Nat /\ SQ_WIDTH \in Nat
  <2>1. Cardinality(c.dtlb) \in Nat
    BY <1>0, FS_CardinalityType DEF Queues
  <2> QED
    BY <1>0, <2>1, Sizes DEF Queues
<1>5. t \in 0 .. Len(c.RTS0) /\ t <= DTLB_SIZE - Cardinality(c.dtlb) /\ t <= SQ_WIDTH
  <2>1. PICK y, z : y = Len(c.RTS0) /\ z = DTLB_SIZE - Cardinality(c.dtlb)
    OBVIOUS
  <2>2. t = Min({SQ_WIDTH, y, z}) /\ SQ_WIDTH \in Nat /\ y \in Nat /\ z \in Nat
    BY <1>1, <1>3, <1>4, <2>1 DEF StoresSent
  <2>3. t \in Nat /\ t <= SQ_WIDTH /\ t <= y /\ t <= z
    BY <2>2, LeastNat3
  <2> QED
    BY <1>3, <2>1, <2>3
<1>6. x \in 0 .. Len(c.RTS1)
  <2>1. PICK y, z : y = SQ_WIDTH - t /\ z = Len(c.RTS1)
    OBVIOUS
  <2>2. y \in Nat /\ z \in Nat
    BY <1>3, <1>4, <1>5, <2>1
  <2>3. x = Min({y, z})
    BY <1>1, <2>1 DEF StoresRun
  <2>4. x \in Nat /\ x <= z
    BY <2>2, <2>3, LeastNat
  <2> QED
    BY <1>3, <2>1, <2>4
<1>7. /\ Queue(Rest(c.RTS0, t), SQSlots) /\ F \subseteq ToSet(c.RTS0) /\ F \subseteq SQSlots
      /\ \A s : s \in ToSet(Rest(c.RTS0, t)) <=> s \in ToSet(c.RTS0) /\ s \notin F
      /\ IsFiniteSet(F) /\ Cardinality(F) = t
  BY <1>1, <1>3, <1>5, Pop
<1>8. /\ Queue(Rest(c.RTS1, x), SQSlots) /\ R \subseteq ToSet(c.RTS1) /\ R \subseteq SQSlots
      /\ \A s : s \in ToSet(Rest(c.RTS1, x)) <=> s \in ToSet(c.RTS1) /\ s \notin R
      /\ IsFiniteSet(R) /\ Cardinality(R) = x
  <2>1. R = ToSet(First(c.RTS1, x))
    BY <1>1 DEF Ran
  <2> QED
    BY <1>3, <1>6, <2>1, Pop
<1>9. /\ d.RTS0 = Rest(c.RTS0, t) /\ d.RTS1 = Rest(c.RTS1, x)
      /\ d.dtlb = c.dtlb \cup ({"SQ"} \X F)
      /\ d.RTL0 = c.RTL0 /\ d.RTL1 = c.RTL1 /\ d.l1d = c.l1d
      /\ d.dtlb_processed = c.dtlb_processed /\ d.l1d_processed = c.l1d_processed
      /\ d.head = c.head /\ d.tail = c.tail
      /\ d.inflight_mem_executions = c.inflight_mem_executions + x + Cardinality(Q)
  BY <1>0, <1>1, <1>2 DEF StoresEffect
<1>10. /\ \A s \in R : StoreAt(c, s, "RTS1") /\ c.SQ[s].id # 0 /\ c.SQ[s].id \in P
       /\ \A p \in P : /\ p \in Ids /\ p \in Rob(c) /\ IsStore(p) /\ ~IsLoad(p)
                       /\ HasBegun(c, {}, p) /\ c.entry[p].num_mem_ops = 1
                       /\ c.entry[p].sq_index \in R
  BY <1>1, <1>2, <1>8, RanAre
<1>11. /\ \A j \in Q :
            /\ j \in Ids /\ j \in Rob(c) /\ IsLoad(j) /\ ~IsStore(j) /\ HasBegun(c, {}, j)
            /\ c.entry[j].num_mem_ops = 1 /\ c.entry[j].lq_index \in LQSlots
            /\ c.LQ[c.entry[j].lq_index].id = j
            /\ c.LQ[c.entry[j].lq_index].producer_id \in P
            /\ By(c, j) = LastStore(j) /\ By(c, j) \in Ids
       /\ \A p \in P : c.entry[p].memory_instrs_depend_on_me \subseteq Q
  BY <1>1, <1>2, <1>8, ResolvedAre
<1>12. ASSUME NEW i \in Ids
       PROVE  /\ d.entry[i].num_mem_ops = (IF i \in P \cup Q THEN 0 ELSE c.entry[i].num_mem_ops)
              /\ d.entry[i].from = (IF i \in Q THEN LastStore(i) ELSE c.entry[i].from)
              /\ d.entry[i].executed = c.entry[i].executed
              /\ d.entry[i].event_cycle = c.entry[i].event_cycle
              /\ d.entry[i].registers_instrs_depend_on_me = c.entry[i].registers_instrs_depend_on_me
              /\ d.entry[i].memory_instrs_depend_on_me = c.entry[i].memory_instrs_depend_on_me
              /\ d.entry[i].lq_index = c.entry[i].lq_index /\ d.entry[i].sq_index = c.entry[i].sq_index
  <2>1. /\ d.entry[i].num_mem_ops = (LET n == IF i \in Q THEN c.entry[i].num_mem_ops - 1 ELSE c.entry[i].num_mem_ops
                                     IN  IF i \in P THEN n - 1 ELSE n)
        /\ d.entry[i].from = (IF i \in Q THEN By(c, i) ELSE c.entry[i].from)
        /\ d.entry[i].executed = c.entry[i].executed
        /\ d.entry[i].event_cycle = c.entry[i].event_cycle
        /\ d.entry[i].registers_instrs_depend_on_me = c.entry[i].registers_instrs_depend_on_me
        /\ d.entry[i].memory_instrs_depend_on_me = c.entry[i].memory_instrs_depend_on_me
        /\ d.entry[i].lq_index = c.entry[i].lq_index /\ d.entry[i].sq_index = c.entry[i].sq_index
    BY <1>0, <1>2 DEF StoresEffect
  <2>2. CASE i \in P
    <3>1. i \notin Q /\ c.entry[i].num_mem_ops = 1
      BY <1>10, <1>11, <2>2
    <3> QED
      BY <2>1, <2>2, <3>1
  <2>3. CASE i \in Q
    <3>1. i \notin P /\ c.entry[i].num_mem_ops = 1 /\ By(c, i) = LastStore(i)
      BY <1>10, <1>11, <2>3
    <3> QED
      BY <2>1, <2>3, <3>1
  <2>4. CASE i \notin P \cup Q
    BY <2>1, <2>4
  <2> QED
    BY <2>2, <2>3, <2>4
<1>13. Rob(d) = Rob(c) /\ Rob(c) \subseteq Ids /\ IsFiniteSet(Rob(c))
  BY <1>9, RobIs DEF Rob
<1>14. /\ \A s \in LQSlots : c.LQ[s].id # 0 => /\ LoadOwner(c, {}, s, c.LQ[s].id)
                                               /\ c.LQ[s].id \in Ids /\ ~IsStore(c.LQ[s].id)
       /\ \A s \in SQSlots : c.SQ[s].id # 0 => /\ StoreOwner(c, {}, s, c.SQ[s].id)
                                               /\ c.SQ[s].id \in Ids /\ ~IsLoad(c.SQ[s].id)
       /\ 0 \notin Ids /\ 0 \notin LQSlots /\ 0 \notin SQSlots
  BY OwnerOf
<1>15. PICK Z : Z = {c.entry[j].lq_index : j \in Q}
  OBVIOUS
<1>16. \A s \in LQSlots : d.LQ[s] = IF s \in Z THEN NoLoad ELSE c.LQ[s]
  BY <1>0, <1>2, <1>15 DEF StoresEffect
<1>17. \A s \in Z : s \in LQSlots /\ c.LQ[s].id \in Q /\ c.LQ[s].id # 0 /\ c.LQ[s].producer_id \in P
                    /\ c.LQ[s].producer_id # 0
  BY <1>10, <1>11, <1>14, <1>15
<1>18. ASSUME NEW s \in SQSlots
       PROVE  /\ d.SQ[s] \in [id: Ids \cup {0}, fetched: BOOLEAN] /\ d.SQ[s].id = c.SQ[s].id
              /\ d.SQ[s].fetched = (s \in R \/ c.SQ[s].fetched)
  <2>1. c.SQ[s] \in [id: Ids \cup {0}, fetched: BOOLEAN]
    BY DEF MemInv, StoreSlot
  <2>2. d.SQ[s] = IF s \in R THEN [c.SQ[s] EXCEPT !.fetched = TRUE] ELSE c.SQ[s]
    BY <1>0, <1>1 DEF StoresEffect
  <2>3. CASE s \in R
    BY <2>1, <2>2, <2>3
  <2>4. CASE s \notin R
    BY <2>1, <2>2, <2>4
  <2> QED
    BY <2>3, <2>4
<1>19. \A i \in Ids : MemEntry(c, {}, i)
  BY DEF MemInv
<1>20. \A i \in Ids : HasBegun(d, {}, i) <=> HasBegun(c, {}, i)
  BY <1>12 DEF HasBegun
<1>21. ASSUME NEW i \in Ids  PROVE MemEntry(d, {}, i)
  <2>1. MemEntry(c, {}, i)
    BY <1>19
  <2>2. \A j \in c.entry[i].memory_instrs_depend_on_me : Depends(c, i, j)
    BY <2>1 DEF MemEntry
  <2>3. ASSUME NEW j \in c.entry[i].memory_instrs_depend_on_me  PROVE Depends(d, i, j)
    <3>1. Depends(c, i, j) /\ j \in Ids
      BY <2>2 DEF Depends
    <3>2. CASE d.entry[i].num_mem_ops = 1
      <4>1. i \notin P /\ c.entry[i].num_mem_ops = 1
        BY <1>12, <3>2
      <4>2. /\ c.entry[j].lq_index \in LQSlots
            /\ c.LQ[c.entry[j].lq_index].id = j /\ c.LQ[c.entry[j].lq_index].producer_id = i
        BY <3>1, <4>1 DEF Depends
      <4>3. c.entry[j].lq_index \notin Z
        BY <1>17, <4>1, <4>2
      <4>4. d.LQ[c.entry[j].lq_index] = c.LQ[c.entry[j].lq_index] /\ d.entry[j].lq_index = c.entry[j].lq_index
        BY <1>12, <1>16, <3>1, <4>2, <4>3
      <4> QED
        BY <3>1, <4>2, <4>4 DEF Depends
    <3>3. CASE d.entry[i].num_mem_ops # 1
      BY <3>1, <3>3 DEF Depends
    <3> QED
      BY <3>2, <3>3
  <2>4. IsStore(i) /\ HasBegun(d, {}, i) =>
          d.entry[i].sq_index \in SQSlots /\ d.SQ[d.entry[i].sq_index].id = i
    BY <1>12, <1>18, <1>20, <2>1 DEF MemEntry
  <2>5. d.entry[i].from # 0 => d.entry[i].from = LastStore(i) /\ d.entry[i].from \in Ids
    <3>1. CASE i \in Q
      BY <1>11, <1>12, <3>1
    <3>2. CASE i \notin Q
      BY <1>12, <2>1, <3>2 DEF MemEntry
    <3> QED
      BY <3>1, <3>2
  <2>6. /\ d.entry[i].num_mem_ops \in {0, 1}
        /\ ~IsMemory(i) => d.entry[i].num_mem_ops = 0
        /\ IsMemory(i) /\ ~HasBegun(d, {}, i) => d.entry[i].num_mem_ops = 1
        /\ IsMemory(i) /\ d.entry[i].executed = "COMPLETED" => d.entry[i].num_mem_ops = 0
    <3>1. CASE i \in P \cup Q
      <4>1. d.entry[i].num_mem_ops = 0 /\ HasBegun(d, {}, i)
        BY <1>10, <1>11, <1>12, <1>20, <3>1
      <4> QED
        BY <4>1
    <3>2. CASE i \notin P \cup Q
      <4>1. d.entry[i].num_mem_ops = c.entry[i].num_mem_ops /\ d.entry[i].executed = c.entry[i].executed
        BY <1>12, <3>2
      <4> QED
        BY <1>20, <2>1, <4>1 DEF MemEntry
    <3> QED
      BY <3>1, <3>2
  <2> QED
    BY <1>12, <2>1, <2>3, <2>4, <2>5, <2>6 DEF MemEntry
<1>22. Queues(d)
  <2>1. IsFiniteSet(d.dtlb) /\ Cardinality(d.dtlb) <= DTLB_SIZE
    <3>1. IsFiniteSet({"SQ"} \X F) /\ Cardinality({"SQ"} \X F) = t
      BY <1>7, Tagged
    <3>2. IsFiniteSet(c.dtlb) /\ DTLB_SIZE \in Nat
      BY <1>0, Sizes DEF Queues
    <3>3. Cardinality({"SQ"} \X F) <= DTLB_SIZE - Cardinality(c.dtlb)
      BY <1>5, <3>1
    <3> QED
      BY <1>9, <3>1, <3>2, <3>3, Room
  <2>2. d.dtlb \subseteq Packets
    BY <1>0, <1>7, <1>9 DEF Queues, Packets
  <2> QED
    BY <1>0, <1>7, <1>8, <1>9, <2>1, <2>2 DEF Queues
<1>23. /\ \A s : <<"SQ", s>> \in d.dtlb <=> <<"SQ", s>> \in c.dtlb \/ s \in F
       /\ \A s : <<"LQ", s>> \in d.dtlb <=> <<"LQ", s>> \in c.dtlb
       /\ \A s : s \in ToSet(d.RTS0) <=> s \in ToSet(c.RTS0) /\ s \notin F
       /\ \A s : s \in ToSet(d.RTS1) <=> s \in ToSet(c.RTS1) /\ s \notin R
  BY <1>7, <1>8, <1>9
<1>24. ASSUME NEW s \in LQSlots  PROVE LoadSlot(d, {}, s)
  <2>1. LoadSlot(c, {}, s)
    BY DEF MemInv
  <2>2. PICK y : LoadAt(c, s, y)
    BY <2>1 DEF LoadSlot
  <2>3. CASE s \in Z
    <3>1. d.LQ[s] = NoLoad
      BY <1>16, <2>3
    <3>2. y = "waits"
      BY <1>17, <2>2, <2>3 DEF LoadAt
    <3>3. LoadAt(d, s, "free")
      BY <1>9, <1>23, <2>2, <3>1, <3>2 DEF LoadAt, LoadPlaces, NoLoad
    <3>4. d.LQ[s] \in [id: Ids \cup {0}, producer_id: Ids \cup {0}] /\ d.LQ[s].id = 0
      BY <3>1 DEF NoLoad
    <3> QED
      BY <3>3, <3>4 DEF LoadSlot
  <2>4. CASE s \notin Z
    <3>1. d.LQ[s] = c.LQ[s]
      BY <1>16, <2>4
    <3>2. LoadAt(d, s, y)
      BY <1>9, <1>23, <2>2, <3>1 DEF LoadAt
    <3>3. ASSUME NEW i, i = c.LQ[s].id, i # 0  PROVE LoadOwner(d, {}, s, i)
      <4>1. LoadOwner(c, {}, s, i) /\ i \in Ids /\ ~IsStore(i)
        BY <1>14, <3>3
      <4>2. i \notin Q /\ i \notin P
        BY <1>10, <1>15, <2>4, <4>1 DEF LoadOwner
      <4> QED
        BY <1>9, <1>12, <1>13, <1>20, <3>1, <4>1, <4>2 DEF LoadOwner
    <3> QED
      BY <2>1, <3>1, <3>2, <3>3 DEF LoadSlot
  <2> QED
    BY <2>3, <2>4
<1>25. ASSUME NEW s \in SQSlots  PROVE StoreSlot(d, {}, s)
  <2>1. StoreSlot(c, {}, s)
    BY DEF MemInv
  <2>2. PICK y : StoreAt(c, s, y)
    BY <2>1 DEF StoreSlot
  <2>3. \E z : StoreAt(d, s, z)
    <3>1. CASE s \in R
      <4>1. y = "RTS1" /\ s \notin F
        BY <1>7, <1>8, <2>2, <3>1 DEF StoreAt
      <4>2. StoreAt(d, s, "fetched")
        BY <1>9, <1>18, <1>23, <2>2, <3>1, <4>1 DEF StoreAt, StorePlaces
      <4> QED
        BY <4>2
    <3>2. CASE s \in F
      <4>1. y = "RTS0" /\ s \notin R
        BY <1>7, <1>8, <2>2, <3>2 DEF StoreAt
      <4>2. StoreAt(d, s, "dtlb")
        BY <1>9, <1>18, <1>23, <2>2, <3>2, <4>1 DEF StoreAt, StorePlaces
      <4> QED
        BY <4>2
    <3>3. CASE s \notin R /\ s \notin F
      <4>1. StoreAt(d, s, y)
        BY <1>9, <1>18, <1>23, <2>2, <3>3 DEF StoreAt
      <4> QED
        BY <4>1
    <3> QED
      BY <3>1, <3>2, <3>3
  <2>4. ASSUME NEW i, i = c.SQ[s].id, i # 0  PROVE StoreOwner(d, {}, s, i)
    <3>1. StoreOwner(c, {}, s, i) /\ i \in Ids /\ i \notin Q
      BY <1>11, <1>14, <2>4
    <3>2. /\ i \in Rob(d) /\ IsStore(i) /\ HasBegun(d, {}, i) /\ d.entry[i].sq_index = s
          /\ c.entry[i].num_mem_ops = (IF c.SQ[s].fetched THEN 0 ELSE 1) /\ c.entry[i].sq_index = s
      BY <1>12, <1>13, <1>20, <3>1 DEF StoreOwner
    <3>3. CASE s \in R
      <4>1. i \in P
        BY <1>10, <2>4, <3>3
      <4>2. d.entry[i].num_mem_ops = 0 /\ d.SQ[s].fetched
        BY <1>12, <1>18, <3>1, <3>3, <4>1
      <4> QED
        BY <3>2, <4>2 DEF StoreOwner
    <3>4. CASE s \notin R
      <4>1. i \notin P
        BY <1>10, <3>2, <3>4
      <4>2. d.entry[i].num_mem_ops = c.entry[i].num_mem_ops /\ d.SQ[s].fetched = c.SQ[s].fetched
        <5>1. d.SQ[s] = c.SQ[s]
          BY <1>0, <1>1, <3>4 DEF StoresEffect
        <5> QED
          BY <1>12, <3>1, <4>1, <5>1
      <4> QED
        BY <3>2, <4>2 DEF StoreOwner
    <3> QED
      BY <3>3, <3>4
  <2> QED
    BY <1>18, <2>3, <2>4 DEF StoreSlot
<1>26. d.inflight_mem_executions = Cardinality(Done(d))
  <2>1. IsFiniteSet(P) /\ Cardinality(P) = x
    <3>1. PICK g : g = [s \in R |-> c.SQ[s].id]
      OBVIOUS
    <3>2. DOMAIN g = R /\ g = [s \in R |-> g[s]] /\ \A s, u \in R : g[s] = g[u] => s = u
      <4>1. \A s \in R : g[s] = c.SQ[s].id /\ c.entry[g[s]].sq_index = s
        BY <1>8, <1>10, <1>14, <3>1 DEF StoreOwner
      <4> QED
        BY <3>1, <4>1
    <3>3. {g[s] : s \in R} = P
      BY <1>1, <1>2, <3>1 DEF RanIds
    <3>4. IsFiniteSet({g[s] : s \in R}) /\ Cardinality({g[s] : s \in R}) = Cardinality(R)
      BY <1>8, <3>2, ImageSize
    <3> QED
      BY <1>8, <3>3, <3>4
  <2>2. PICK D : D = Done(c)
    OBVIOUS
  <2>3. IsFiniteSet(Q) /\ IsFiniteSet(D)
    <3>1. D \in SUBSET Rob(c) /\ Q \in SUBSET Rob(c)
      BY <1>11, <2>2 DEF Done
    <3> QED
      BY <1>13, <3>1, FS_Subset
  <2>4. Done(d) = (D \cup P) \cup Q /\ D \cap P = {} /\ (D \cup P) \cap Q = {}
    <3>1. \A i \in P \cup Q : /\ i \in Rob(c) /\ i \in Ids /\ IsMemory(i) /\ c.entry[i].num_mem_ops = 1
                              /\ d.entry[i].num_mem_ops = 0 /\ d.entry[i].executed # "COMPLETED"
      BY <1>10, <1>11, <1>12, <1>19 DEF IsMemory, MemEntry
    <3>2. P \cap Q = {}
      BY <1>10, <1>11
    <3>3. \A i : i \in D <=> i \in Rob(c) /\ IsMemory(i) /\ c.entry[i].num_mem_ops = 0 /\ c.entry[i].executed # "COMPLETED"
      BY <2>2 DEF Done
    <3>4. \A i : i \in Done(d) <=> i \in Rob(c) /\ IsMemory(i) /\ d.entry[i].num_mem_ops = 0 /\ d.entry[i].executed # "COMPLETED"
      BY <1>13 DEF Done
    <3>5. \A i \in Rob(c) : i \notin P \cup Q => /\ d.entry[i].num_mem_ops = c.entry[i].num_mem_ops
                                                 /\ d.entry[i].executed = c.entry[i].executed
      BY <1>12, <1>13
    <3>6. \A i : i \in Done(d) <=> i \in (D \cup P) \cup Q
      BY <3>1, <3>3, <3>4, <3>5
    <3> QED
      BY <3>1, <3>2, <3>3, <3>6
  <2>5. Cardinality(D \cup P) = Cardinality(D) + x /\ IsFiniteSet(D \cup P)
    BY <2>1, <2>3, <2>4, DisjointSum
  <2>6. Cardinality((D \cup P) \cup Q) = Cardinality(D \cup P) + Cardinality(Q)
    BY <2>3, <2>4, <2>5, DisjointSum
  <2>7. c.inflight_mem_executions = Cardinality(D)
    BY <2>2 DEF MemInv
  <2> QED
    BY <1>9, <2>4, <2>5, <2>6, <2>7
<1> QED
  BY <1>21, <1>22, <1>24, <1>25, <1>26 DEF MemInv

-----------------------------------------------------------------------------
(* add_load_queue.                                                           *)

LEMMA NthOf ==
  ASSUME NEW S \in SUBSET Int, IsFiniteSet(S)
  PROVE  /\ \A k \in 0 .. Cardinality(S) - 1 : Nth(S, k) \in S
         /\ \A k, l \in 0 .. Cardinality(S) - 1 : Nth(S, k) = Nth(S, l) => k = l
<1>1. PICK q, n : q = InOrder(S) /\ n = Cardinality(S)
  OBVIOUS
<1>2. n \in Nat
  BY <1>1, FS_CardinalityType
<1>3. Lists(q, S) /\ \A k \in 1 .. n : q[k] = Nth(S, k - 1)
  BY <1>1, NthIs
<1>4. q \in Seq(S) /\ Distinct(q) /\ Len(q) = n
  BY <1>1, <1>3 DEF Lists
<1>5. DOMAIN q = 1 .. n /\ \A k \in 1 .. n : q[k] \in S
  BY <1>2, <1>4
<1>6. \A k \in 0 .. n - 1 : k + 1 \in 1 .. n /\ (k + 1) - 1 = k
  BY <1>2
<1>7. \A k \in 0 .. n - 1 : q[k + 1] = Nth(S, k)
  BY <1>3, <1>6
<1>8. ASSUME NEW k \in 0 .. n - 1, NEW l \in 0 .. n - 1, Nth(S, k) = Nth(S, l)  PROVE k = l
  <2>1. q[k + 1] = q[l + 1] /\ k + 1 \in 1 .. n /\ l + 1 \in 1 .. n
    BY <1>6, <1>7, <1>8
  <2>2. k + 1 = l + 1
    BY <1>4, <1>5, <2>1 DEF Distinct
  <2> QED
    BY <1>2, <2>2
<1>9. \A k \in 0 .. n - 1 : Nth(S, k) \in S
  BY <1>5, <1>6, <1>7
<1> QED
  BY <1>1, <1>8, <1>9

(* The store that a load depends on is the last older one to its address,    *)
(* unless that has retired.                                                  *)
LEMMA MemProducerIs ==
  ASSUME NEW c, RobInv(c), NEW i \in Rob(c), IsLoad(i)
  PROVE  /\ MemProducer(c, i) = 0 => LastStore(i) < c.head
         /\ MemProducer(c, i) # 0 =>
              /\ MemProducer(c, i) = LastStore(i) /\ MemProducer(c, i) \in Rob(c)
              /\ MemProducer(c, i) \in Ids /\ IsStore(MemProducer(c, i))
<1>1. /\ i \in Ids /\ i \in Nat /\ i < c.tail /\ Rob(c) \subseteq Ids /\ Ids \subseteq Nat
      /\ program \in Programs /\ c.head \in Nat /\ c.tail \in Nat /\ 1 <= c.head
  BY RobIs DEF RobInv, Bounds
<1>2. PICK S : S = {p \in Rob(c) : p < i /\ program[p].store = program[i].load}
  OBVIOUS
<1>3. MemProducer(c, i) = IF S = {} THEN 0 ELSE Max(S)
  BY <1>2 DEF MemProducer
<1>4. PICK w : w = LastStore(i)
  OBVIOUS
<1>5. /\ w \in Nat
      /\ \/ w = 0 /\ \A p \in Ids : program[p].store = program[i].load => ~ (p < i)
         \/ /\ w \in Ids /\ program[w].store = program[i].load /\ w < i
            /\ \A p \in Ids : program[p].store = program[i].load /\ p < i => p <= w
  BY <1>1, <1>4, LastStoreIs
<1>6. ASSUME w >= c.head  PROVE w \in S /\ \A p \in S : p <= w
  <2>1. w \in Ids /\ program[w].store = program[i].load /\ w < i
        /\ \A p \in Ids : program[p].store = program[i].load /\ p < i => p <= w
    BY <1>1, <1>5, <1>6
  <2>2. w \in Rob(c)
    BY <1>1, <1>5, <1>6, <2>1 DEF Rob
  <2> QED
    BY <1>1, <1>2, <2>1, <2>2
<1>7. CASE S = {}
  <2>1. w < c.head
    BY <1>1, <1>5, <1>6, <1>7
  <2> QED
    BY <1>3, <1>4, <1>7, <2>1
<1>8. CASE S # {}
  <2>1. S \in SUBSET Int /\ i \in Int /\ \A p \in S : p <= i
    <3>1. \A p \in S : p \in Nat /\ p < i
      BY <1>1, <1>2
    <3> QED
      BY <1>1, <3>1
  <2>2. PICK m : m = Max(S) /\ m \in S /\ \A p \in S : p <= m
    BY <1>8, <2>1, GreatestOf
  <2>3. m \in Rob(c) /\ m \in Ids /\ m \in Nat /\ m < i /\ program[m].store = program[i].load /\ m >= c.head
    BY <1>1, <1>2, <2>2 DEF Rob
  <2>4. m <= w
    BY <1>5, <2>3
  <2>5. w >= c.head
    BY <1>1, <1>5, <2>3, <2>4
  <2>6. w = m
    BY <1>5, <1>6, <2>2, <2>3, <2>4, <2>5
  <2>7. IsStore(m)
    BY <2>3 DEF IsLoad, IsStore
  <2>8. MemProducer(c, i) = m
    BY <1>3, <1>8, <2>2
  <2>9. m # 0
    BY <1>1, <2>3
  <2> QED
    BY <1>4, <2>3, <2>6, <2>7, <2>8, <2>9
<1> QED
  BY <1>7, <1>8

(* A load that is forwarded to at once finds its store in the queue, and     *)
(* executed.                                                                 *)
LEMMA ForwardsNowIs ==
  ASSUME NEW c, RobInv(c), MemInv(c, {}), NEW i, ForwardsNow(c, i)
  PROVE  MemProducer(c, i) # 0 /\ c.entry[MemProducer(c, i)].num_mem_ops = 0
<1>1. PICK s \in SQSlots : c.SQ[s].fetched /\ c.SQ[s].id = MemProducer(c, i)
  BY DEF ForwardsNow
<1>2. PICK x : StoreAt(c, s, x)
  BY DEF MemInv, StoreSlot
<1>3. x = "fetched" /\ c.SQ[s].id # 0
  BY <1>1, <1>2 DEF StoreAt
<1>4. StoreOwner(c, {}, s, c.SQ[s].id)
  BY <1>3, OwnerOf
<1> QED
  BY <1>1, <1>3, <1>4 DEF StoreOwner

(* The loads that are added have slots of their own that were free.          *)
LEMMA AddedLoadsAre ==
  ASSUME NEW c, RobInv(c), RegInv(c), MemInv(c, {}), NEW V, V \subseteq Rob(c)
  PROVE  /\ \A i \in AddedLoads(c, V) :
              /\ i \in Rob(c) /\ i \in Ids /\ IsLoad(i) /\ ~IsStore(i) /\ IsMemory(i)
              /\ c.entry[i].executed = "no" /\ c.entry[i].num_mem_ops = 1
              /\ Slot(c, V, i) \in FreeLQ(c) /\ Slot(c, V, i) \in LQSlots
         /\ \A i, j \in Waiting(c, V) : Slot(c, V, i) = Slot(c, V, j) => i = j
<1>1. Rob(c) \subseteq Ids /\ IsFiniteSet(Rob(c)) /\ Rob(c) \subseteq Nat /\ program \in Programs
  BY RobIs DEF RobInv
<1>2. \A i \in Ids : RegEntry(c, i) /\ MemEntry(c, {}, i)
  BY DEF RegInv, MemInv
<1>3. PICK n, S : S = FreeLQ(c) /\ n = Cardinality(S)
  OBVIOUS
<1>4. S \in SUBSET Int /\ S \subseteq LQSlots /\ IsFiniteSet(S) /\ n \in Nat
  <2>1. LQ_SIZE \in Int /\ 1 \in Int
    BY Sizes
  <2>2. IsFiniteSet(LQSlots) /\ LQSlots \subseteq Int
    BY <2>1, FS_Interval DEF LQSlots
  <2>3. S \in SUBSET LQSlots
    BY <1>3 DEF FreeLQ
  <2>4. IsFiniteSet(S)
    BY <2>2, <2>3, FS_Subset
  <2> QED
    BY <1>3, <2>2, <2>3, <2>4, FS_CardinalityType
<1> DEFINE B(i) == {j \in Schedulable(c, V) : IsLoad(j) /\ j < i /\ ~ForwardsNow(c, j)}
<1>5. \A i : IsFiniteSet(B(i)) /\ Ahead(c, V, i) \in Nat /\ Ahead(c, V, i) = Cardinality(B(i))
  <2> SUFFICES ASSUME NEW i  PROVE IsFiniteSet(B(i)) /\ Ahead(c, V, i) \in Nat /\ Ahead(c, V, i) = Cardinality(B(i))
    OBVIOUS
  <2>1. B(i) \in SUBSET Rob(c)
    BY DEF Schedulable
  <2>2. IsFiniteSet(B(i))
    BY <1>1, <2>1, FS_Subset
  <2>3. Ahead(c, V, i) = Cardinality(B(i))
    BY DEF Ahead
  <2> QED
    BY <2>2, <2>3, FS_CardinalityType
<1>6. \A i \in AddedLoads(c, V) : /\ i \in Schedulable(c, V) /\ IsLoad(i) /\ i \in Rob(c)
                                  /\ Ahead(c, V, i) < n /\ IsMemory(i) /\ c.entry[i].scheduled = "INFLIGHT"
  BY <1>3 DEF AddedLoads, Schedulable
<1>7. \A i \in AddedLoads(c, V) : Ahead(c, V, i) \in 0 .. n - 1
  <2> SUFFICES ASSUME NEW i \in AddedLoads(c, V)  PROVE Ahead(c, V, i) \in 0 .. n - 1
    OBVIOUS
  <2>1. PICK a : a = Ahead(c, V, i)
    OBVIOUS
  <2>2. a \in Nat /\ a < n
    BY <1>5, <1>6, <2>1
  <2>3. a \in 0 .. n - 1
    BY <1>4, <2>2
  <2> QED
    BY <2>1, <2>3
<1>8. /\ \A k \in 0 .. n - 1 : Nth(S, k) \in S
      /\ \A k, l \in 0 .. n - 1 : Nth(S, k) = Nth(S, l) => k = l
  BY <1>3, <1>4, NthOf
<1>9. \A i : Slot(c, V, i) = Nth(S, Ahead(c, V, i))
  BY <1>3 DEF Slot
<1>10. ASSUME NEW i \in AddedLoads(c, V)
       PROVE  /\ i \in Rob(c) /\ i \in Ids /\ IsLoad(i) /\ ~IsStore(i) /\ IsMemory(i)
              /\ c.entry[i].executed = "no" /\ c.entry[i].num_mem_ops = 1
              /\ Slot(c, V, i) \in S /\ Slot(c, V, i) \in LQSlots
  <2>1. i \in Rob(c) /\ i \in Ids /\ IsLoad(i) /\ IsMemory(i) /\ c.entry[i].scheduled = "INFLIGHT"
    BY <1>1, <1>6
  <2>2. ~IsStore(i)
    BY <1>1, <2>1, Program
  <2>3. RegEntry(c, i) /\ MemEntry(c, {}, i)
    BY <1>2, <2>1
  <2>4. c.entry[i].executed = "no"
    BY <2>1, <2>3 DEF RegEntry
  <2>5. c.entry[i].num_mem_ops = 1
    BY <2>1, <2>3, <2>4 DEF MemEntry, HasBegun
  <2>6. Slot(c, V, i) \in S
    BY <1>7, <1>8, <1>9
  <2> QED
    BY <1>4, <2>1, <2>2, <2>4, <2>5, <2>6
<1>11. ASSUME NEW i \in Waiting(c, V), NEW j \in Waiting(c, V), i < j
       PROVE  Ahead(c, V, i) # Ahead(c, V, j)
  <2>1. i \in AddedLoads(c, V) /\ ~ForwardsNow(c, i)
    BY DEF Waiting, Now
  <2>2. i \in Nat /\ j \in Nat
    BY <1>1, <1>6 DEF Waiting
  <2>3. B(i) \in SUBSET B(j)
    <3> SUFFICES ASSUME NEW k \in B(i)  PROVE k \in B(j)
      OBVIOUS
    <3>1. k \in Nat /\ k < i
      BY <1>1 DEF Schedulable
    <3> QED
      BY <1>11, <2>2, <3>1
  <2>4. i \in B(j) /\ i \notin B(i)
    BY <1>6, <1>11, <2>1, <2>2
  <2>5. Cardinality(B(i)) # Cardinality(B(j))
    BY <1>5, <2>3, <2>4, FS_Subset
  <2> QED
    BY <1>5, <2>5
<1>12. ASSUME NEW i \in Waiting(c, V), NEW j \in Waiting(c, V), Slot(c, V, i) = Slot(c, V, j)
       PROVE  i = j
  <2>1. i \in AddedLoads(c, V) /\ j \in AddedLoads(c, V)
    BY DEF Waiting
  <2>2. Ahead(c, V, i) = Ahead(c, V, j)
    BY <1>7, <1>8, <1>9, <1>12, <2>1
  <2>3. i \in Nat /\ j \in Nat
    BY <1>1, <1>6, <2>1
  <2>4. ~ (i < j) /\ ~ (j < i)
    BY <1>11, <2>2
  <2> QED
    BY <2>3, <2>4
<1> QED
  BY <1>3, <1>10, <1>12

LEMMA AddLoadsKeepsMem ==
  ASSUME NEW c, RobInv(c), RegInv(c), MemInv(c, {}), NEW V, V \subseteq Rob(c),
         NEW d, d = add_load_queue(c, V)
  PROVE  MemInv(d, AddedLoads(c, V))
<1>0. Queues(c) /\ AddLoadsEffect(c, V, d) /\ program \in Programs
  <2>1. CoreShape(c)
    BY DEF RobInv
  <2> QED
    BY <2>1, AddLoadsDo DEF MemInv, RobInv
<1>1. PICK A, N, W, I : /\ A = AddedLoads(c, V) /\ N = Now(c, V) /\ W = Waiting(c, V)
                        /\ I = {i \in A : IndependentLoad(c, i)}
  OBVIOUS
<1>2. PICK f, p : f = [i \in A |-> Slot(c, V, i)] /\ p = [i \in A |-> MemProducer(c, i)]
  OBVIOUS
<1>3. /\ N \subseteq A /\ W = A \ N /\ I \subseteq A
      /\ \A i \in A : i \in N <=> ForwardsNow(c, i)
      /\ \A i \in A : f[i] = Slot(c, V, i) /\ p[i] = MemProducer(c, i) /\ (i \in I <=> p[i] = 0)
  BY <1>1, <1>2 DEF Now, Waiting, IndependentLoad
<1>4. /\ \A i \in A :
           /\ i \in Rob(c) /\ i \in Ids /\ IsLoad(i) /\ ~IsStore(i) /\ IsMemory(i)
           /\ c.entry[i].executed = "no" /\ c.entry[i].num_mem_ops = 1
           /\ f[i] \in FreeLQ(c) /\ f[i] \in LQSlots
      /\ \A i, j \in W : f[i] = f[j] => i = j
  <2>1. /\ \A i \in A :
             /\ i \in Rob(c) /\ i \in Ids /\ IsLoad(i) /\ ~IsStore(i) /\ IsMemory(i)
             /\ c.entry[i].executed = "no" /\ c.entry[i].num_mem_ops = 1
             /\ Slot(c, V, i) \in FreeLQ(c) /\ Slot(c, V, i) \in LQSlots
        /\ \A i, j \in W : Slot(c, V, i) = Slot(c, V, j) => i = j
    BY <1>1, AddedLoadsAre
  <2> QED
    BY <1>3, <2>1
<1>5. \A i \in A : /\ p[i] = 0 => LastStore(i) < c.head
                   /\ p[i] # 0 => p[i] = LastStore(i) /\ p[i] \in Rob(c) /\ p[i] \in Ids /\ IsStore(p[i])
  BY <1>3, <1>4, MemProducerIs
<1>6. \A i \in N : p[i] # 0 /\ c.entry[p[i]].num_mem_ops = 0
  BY <1>3, ForwardsNowIs
<1>7. I \subseteq W
  BY <1>3, <1>6
<1>8. \A s \in LQSlots : \/ s \in {f[i] : i \in W} /\ \E i \in W : f[i] = s /\ d.LQ[s] = [id |-> i, producer_id |-> p[i]]
                         \/ s \notin {f[i] : i \in W} /\ d.LQ[s] = c.LQ[s]
  <2> SUFFICES ASSUME NEW s \in LQSlots
               PROVE  \/ s \in {f[i] : i \in W} /\ \E i \in W : f[i] = s /\ d.LQ[s] = [id |-> i, producer_id |-> p[i]]
                      \/ s \notin {f[i] : i \in W} /\ d.LQ[s] = c.LQ[s]
    OBVIOUS
  <2>1. d.LQ[s] = IF \E i \in W : Slot(c, V, i) = s
                  THEN LET j == CHOOSE i \in W : Slot(c, V, i) = s IN [id |-> j, producer_id |-> MemProducer(c, j)]
                  ELSE c.LQ[s]
    BY <1>0, <1>1 DEF AddLoadsEffect
  <2>2. CASE \E i \in W : Slot(c, V, i) = s
    <3>1. PICK j : j = CHOOSE i \in W : Slot(c, V, i) = s
      OBVIOUS
    <3>2. j \in W /\ Slot(c, V, j) = s
      BY <2>2, <3>1
    <3>3. d.LQ[s] = [id |-> j, producer_id |-> MemProducer(c, j)]
      BY <2>1, <2>2, <3>1
    <3> QED
      BY <1>3, <3>2, <3>3
  <2>3. CASE ~ \E i \in W : Slot(c, V, i) = s
    <3>1. d.LQ[s] = c.LQ[s]
      BY <2>1, <2>3
    <3> QED
      BY <1>3, <2>3, <3>1
  <2> QED
    BY <2>2, <2>3
<1>9. \A i \in W : d.LQ[f[i]].id = i /\ d.LQ[f[i]].producer_id = p[i] /\ c.LQ[f[i]].id = 0 /\ f[i] \in LQSlots
  <2> SUFFICES ASSUME NEW i \in W
               PROVE  d.LQ[f[i]].id = i /\ d.LQ[f[i]].producer_id = p[i] /\ c.LQ[f[i]].id = 0 /\ f[i] \in LQSlots
    OBVIOUS
  <2>1. f[i] \in LQSlots /\ c.LQ[f[i]].id = 0
    BY <1>3, <1>4 DEF FreeLQ
  <2>2. PICK j \in W : f[j] = f[i] /\ d.LQ[f[i]] = [id |-> j, producer_id |-> p[j]]
    BY <1>8, <2>1
  <2>3. j = i
    BY <1>4, <2>2
  <2> QED
    BY <2>1, <2>2, <2>3
<1>10. \A s \in LQSlots : c.LQ[s].id # 0 => d.LQ[s] = c.LQ[s] /\ s \notin {f[i] : i \in W}
  BY <1>8, <1>9
<1>11. \A i \in Ids :
         /\ d.entry[i].num_mem_ops = (IF i \in N THEN c.entry[i].num_mem_ops - 1 ELSE c.entry[i].num_mem_ops)
         /\ d.entry[i].from = (IF i \in N THEN MemProducer(c, i) ELSE c.entry[i].from)
         /\ d.entry[i].lq_index = (IF i \in A THEN Slot(c, V, i) ELSE c.entry[i].lq_index)
         /\ d.entry[i].memory_instrs_depend_on_me =
              c.entry[i].memory_instrs_depend_on_me \cup {j \in A : MemProducer(c, j) = i}
         /\ d.entry[i].executed = c.entry[i].executed
         /\ d.entry[i].event_cycle = c.entry[i].event_cycle
         /\ d.entry[i].registers_instrs_depend_on_me = c.entry[i].registers_instrs_depend_on_me
         /\ d.entry[i].sq_index = c.entry[i].sq_index
  BY <1>0, <1>1 DEF AddLoadsEffect
<1>12. /\ \A i \in N : i \in Ids /\ d.entry[i].num_mem_ops = 0 /\ d.entry[i].from = p[i]
       /\ \A i \in Ids : i \notin N => /\ d.entry[i].num_mem_ops = c.entry[i].num_mem_ops
                                       /\ d.entry[i].from = c.entry[i].from
       /\ \A i \in A : d.entry[i].lq_index = f[i]
       /\ \A i \in Ids : i \notin A => d.entry[i].lq_index = c.entry[i].lq_index
       /\ \A i \in Ids : \A j \in d.entry[i].memory_instrs_depend_on_me :
             j \in c.entry[i].memory_instrs_depend_on_me \/ (j \in A /\ p[j] = i)
  BY <1>3, <1>4, <1>11
<1>13. /\ d.SQ = c.SQ /\ d.RTL1 = c.RTL1 /\ d.RTS0 = c.RTS0 /\ d.RTS1 = c.RTS1
       /\ d.dtlb = c.dtlb /\ d.dtlb_processed = c.dtlb_processed /\ d.l1d = c.l1d
       /\ d.l1d_processed = c.l1d_processed /\ d.head = c.head /\ d.tail = c.tail
       /\ d.inflight_mem_executions = c.inflight_mem_executions + Cardinality(N)
  BY <1>0, <1>1 DEF AddLoadsEffect
<1>14. Rob(d) = Rob(c) /\ Rob(c) \subseteq Ids /\ IsFiniteSet(Rob(c)) /\ Rob(c) \subseteq Nat
  BY <1>13, RobIs DEF Rob
<1>15. /\ \A s \in LQSlots : c.LQ[s].id # 0 => /\ LoadOwner(c, {}, s, c.LQ[s].id)
                                               /\ c.LQ[s].id \in Ids /\ ~IsStore(c.LQ[s].id)
       /\ \A s \in SQSlots : c.SQ[s].id # 0 => /\ StoreOwner(c, {}, s, c.SQ[s].id)
                                               /\ c.SQ[s].id \in Ids /\ ~IsLoad(c.SQ[s].id)
       /\ 0 \notin Ids /\ 0 \notin LQSlots /\ 0 \notin SQSlots
  BY OwnerOf
<1>16. /\ \A i \in Ids : MemEntry(c, {}, i)
       /\ \A i \in Ids : HasBegun(d, A, i) <=> HasBegun(c, {}, i) \/ i \in A
       /\ \A i \in A : ~HasBegun(c, {}, i)
  BY <1>4, <1>11 DEF MemInv, HasBegun
<1>17. ASSUME NEW i \in Ids  PROVE MemEntry(d, A, i)
  <2>1. MemEntry(c, {}, i)
    BY <1>16
  <2>2. \A j \in c.entry[i].memory_instrs_depend_on_me : Depends(c, i, j)
    BY <2>1 DEF MemEntry
  <2>3. d.entry[i].num_mem_ops = 1 => c.entry[i].num_mem_ops = 1
    BY <1>12
  <2>4. ASSUME NEW j \in c.entry[i].memory_instrs_depend_on_me  PROVE Depends(d, i, j)
    <3>1. Depends(c, i, j) /\ j \in Ids
      BY <2>2 DEF Depends
    <3>2. CASE d.entry[i].num_mem_ops = 1
      <4>1. PICK s : s = c.entry[j].lq_index
        OBVIOUS
      <4>2. s \in LQSlots /\ c.LQ[s].id = j /\ c.LQ[s].producer_id = i
        BY <2>3, <3>1, <3>2, <4>1 DEF Depends
      <4>3. LoadOwner(c, {}, s, j) /\ d.LQ[s] = c.LQ[s]
        BY <1>10, <1>15, <3>1, <4>2
      <4>4. j \notin A
        BY <1>16, <4>3 DEF LoadOwner
      <4>5. d.entry[j].lq_index = s
        BY <1>12, <3>1, <4>1, <4>4
      <4> QED
        BY <3>1, <4>2, <4>3, <4>5 DEF Depends
    <3>3. CASE d.entry[i].num_mem_ops # 1
      BY <3>1, <3>3 DEF Depends
    <3> QED
      BY <3>2, <3>3
  <2>5. ASSUME NEW j \in A, p[j] = i  PROVE Depends(d, i, j)
    <3>1. j \in Ids /\ IsLoad(j) /\ i = LastStore(j)
      BY <1>4, <1>5, <1>15, <2>5
    <3>2. CASE d.entry[i].num_mem_ops = 1
      <4>1. j \in W
        BY <1>3, <1>6, <2>3, <2>5, <3>2
      <4> QED
        BY <1>9, <1>12, <2>5, <3>1, <4>1 DEF Depends
    <3>3. CASE d.entry[i].num_mem_ops # 1
      BY <3>1, <3>3 DEF Depends
    <3> QED
      BY <3>2, <3>3
  <2>6. \A j \in d.entry[i].memory_instrs_depend_on_me : Depends(d, i, j)
    BY <1>12, <2>4, <2>5
  <2>7. IsStore(i) /\ HasBegun(d, A, i) =>
          d.entry[i].sq_index \in SQSlots /\ d.SQ[d.entry[i].sq_index].id = i
    <3>1. IsStore(i) => i \notin A
      BY <1>4
    <3> QED
      BY <1>11, <1>13, <1>16, <2>1, <3>1 DEF MemEntry
  <2>8. d.entry[i].from # 0 => d.entry[i].from = LastStore(i) /\ d.entry[i].from \in Ids
    <3>1. CASE i \in N
      BY <1>3, <1>5, <1>6, <1>12, <3>1
    <3>2. CASE i \notin N
      BY <1>12, <2>1, <3>2 DEF MemEntry
    <3> QED
      BY <3>1, <3>2
  <2>9. /\ d.entry[i].num_mem_ops \in {0, 1}
        /\ ~IsMemory(i) => d.entry[i].num_mem_ops = 0
        /\ IsMemory(i) /\ ~HasBegun(d, A, i) => d.entry[i].num_mem_ops = 1
        /\ IsMemory(i) /\ d.entry[i].executed = "COMPLETED" => d.entry[i].num_mem_ops = 0
    <3>1. CASE i \in N
      <4>1. d.entry[i].num_mem_ops = 0 /\ HasBegun(d, A, i)
        BY <1>3, <1>12, <1>16, <3>1
      <4> QED
        BY <4>1
    <3>2. CASE i \notin N
      <4>1. d.entry[i].num_mem_ops = c.entry[i].num_mem_ops /\ d.entry[i].executed = c.entry[i].executed
        BY <1>11, <1>12, <3>2
      <4> QED
        BY <1>16, <2>1, <4>1 DEF MemEntry
    <3> QED
      BY <3>1, <3>2
  <2>10. d.entry[i].lq_index \in LQSlots \cup {0} /\ d.entry[i].sq_index \in SQSlots \cup {0}
    <3>1. d.entry[i].sq_index = c.entry[i].sq_index
      BY <1>11
    <3>2. d.entry[i].lq_index = c.entry[i].lq_index \/ d.entry[i].lq_index \in LQSlots
      BY <1>4, <1>12
    <3> QED
      BY <2>1, <3>1, <3>2 DEF MemEntry
  <2> QED
    BY <1>11, <2>1, <2>6, <2>7, <2>8, <2>9, <2>10 DEF MemEntry
<1>18. PICK m : m = [k \in DOMAIN InOrder(I) |-> f[InOrder(I)[k]]]
  OBVIOUS
<1>19. d.RTL0 = c.RTL0 \o m
  <2>1. ReadyLoads(c, V) = InOrder(I)
    BY <1>1 DEF ReadyLoads
  <2>2. \A k \in DOMAIN InOrder(I) : InOrder(I)[k] \in A
    <3>1. Lists(InOrder(I), I)
      <4>1. I \in SUBSET Rob(c)
        BY <1>3, <1>4
      <4>2. IsFiniteSet(I) /\ I \in SUBSET Int
        BY <1>14, <4>1, FS_Subset
      <4> QED
        BY <4>2, NthIs
    <3> QED
      BY <1>3, <3>1 DEF Lists
  <2>3. m = [k \in DOMAIN InOrder(I) |-> Slot(c, V, InOrder(I)[k])]
    BY <1>3, <1>18, <2>2
  <2>4. d.RTL0 = c.RTL0 \o [k \in DOMAIN ReadyLoads(c, V) |-> Slot(c, V, ReadyLoads(c, V)[k])]
    BY <1>0 DEF AddLoadsEffect
  <2> QED
    BY <2>1, <2>3, <2>4
<1>20. Queue(m, LQSlots) /\ \A s : s \in ToSet(m) <=> \E i \in I : f[i] = s
  <2>1. PICK q : q = InOrder(I)
    OBVIOUS
  <2>2. Lists(q, I)
    <3>1. I \in SUBSET Rob(c)
      BY <1>3, <1>4
    <3>2. IsFiniteSet(I)
      BY <1>14, <3>1, FS_Subset
    <3>3. I \in SUBSET Int
      BY <1>14, <3>1
    <3> QED
      BY <2>1, <3>2, <3>3, NthIs
  <2>3. PICK n \in Nat : q \in Seq(I) /\ DOMAIN q = 1 .. n /\ Distinct(q) /\ ToSet(q) = I
    BY <2>2 DEF Lists
  <2>4. DOMAIN m = 1 .. n /\ m = [k \in 1 .. n |-> f[q[k]]]
    BY <1>18, <2>1, <2>3
  <2>5. \A k \in 1 .. n : q[k] \in I /\ m[k] = f[q[k]] /\ m[k] \in LQSlots
    BY <1>3, <1>4, <2>3, <2>4
  <2>6. m \in Seq(LQSlots)
    <3>1. m \in [1 .. n -> LQSlots]
      BY <2>4, <2>5
    <3> QED
      BY <3>1
  <2>7. Distinct(m)
    <3> SUFFICES ASSUME NEW k \in 1 .. n, NEW l \in 1 .. n, m[k] = m[l]  PROVE k = l
      BY <2>4 DEF Distinct
    <3>1. q[k] = q[l]
      BY <1>4, <1>7, <2>5
    <3> QED
      BY <2>3, <3>1 DEF Distinct
  <2>8. \A s : s \in ToSet(m) <=> \E i \in I : f[i] = s
    <3>1. ToSet(m) = {m[k] : k \in 1 .. n} /\ I = {q[k] : k \in 1 .. n}
      BY <2>3, <2>4 DEF ToSet
    <3> QED
      BY <2>5, <3>1
  <2> QED
    BY <2>6, <2>7, <2>8 DEF Queue
<1>21. \A i \in A : f[i] \in LQSlots /\ LoadAt(c, f[i], "free")
  <2> SUFFICES ASSUME NEW i \in A  PROVE f[i] \in LQSlots /\ LoadAt(c, f[i], "free")
    OBVIOUS
  <2>1. f[i] \in LQSlots /\ c.LQ[f[i]].id = 0
    BY <1>4 DEF FreeLQ
  <2>2. PICK x : LoadAt(c, f[i], x)
    BY <2>1 DEF MemInv, LoadSlot
  <2>3. x = "free"
    BY <2>1, <2>2 DEF LoadAt
  <2> QED
    BY <2>1, <2>2, <2>3
<1>22. Queue(d.RTL0, LQSlots) /\ \A s : s \in ToSet(d.RTL0) <=> s \in ToSet(c.RTL0) \/ \E i \in I : f[i] = s
  <2>1. Queue(c.RTL0, LQSlots)
    BY <1>0 DEF Queues
  <2>2. ToSet(c.RTL0) \cap ToSet(m) = {}
    <3> SUFFICES ASSUME NEW i \in I, f[i] \in ToSet(c.RTL0)  PROVE FALSE
      BY <1>20
    <3>1. LoadAt(c, f[i], "free")
      BY <1>3, <1>21
    <3> QED
      BY <3>1 DEF LoadAt
  <2>3. /\ Queue(c.RTL0 \o m, LQSlots)
        /\ \A s : s \in ToSet(c.RTL0 \o m) <=> s \in ToSet(c.RTL0) \/ s \in ToSet(m)
    BY <1>20, <2>1, <2>2, Push
  <2> QED
    BY <1>19, <1>20, <2>3
<1>23. Queues(d)
  BY <1>0, <1>13, <1>22 DEF Queues
<1>24. ASSUME NEW s \in LQSlots  PROVE LoadSlot(d, A, s)
  <2>1. LoadSlot(c, {}, s)
    BY DEF MemInv
  <2>2. PICK y : LoadAt(c, s, y)
    BY <2>1 DEF LoadSlot
  <2>3. ASSUME NEW i \in W, f[i] = s, d.LQ[s] = [id |-> i, producer_id |-> p[i]]  PROVE LoadSlot(d, A, s)
    <3>1. LoadAt(c, s, "free") /\ i \in A /\ i \in Ids /\ i # 0 /\ p[i] \in Ids \cup {0} /\ i \notin N
      BY <1>3, <1>4, <1>5, <1>15, <1>21, <2>3
    <3>2. s \in ToSet(d.RTL0) <=> p[i] = 0
      <4>1. (\E j \in I : f[j] = s) <=> i \in I
        BY <1>4, <1>7, <2>3
      <4>2. i \in I <=> p[i] = 0
        BY <1>3, <3>1
      <4>3. s \notin ToSet(c.RTL0)
        BY <3>1 DEF LoadAt
      <4> QED
        BY <1>22, <4>1, <4>2, <4>3
    <3>3. d.LQ[s].id = i /\ d.LQ[s].producer_id = p[i] /\ d.LQ[s] \in [id: Ids \cup {0}, producer_id: Ids \cup {0}]
      BY <2>3, <3>1
    <3>4. \E z : LoadAt(d, s, z)
      <4>1. CASE p[i] = 0
        <5>1. LoadAt(d, s, "RTL0")
          BY <1>13, <3>1, <3>2, <3>3, <4>1 DEF LoadAt, LoadPlaces
        <5> QED
          BY <5>1
      <4>2. CASE p[i] # 0
        <5>1. LoadAt(d, s, "waits")
          BY <1>13, <3>1, <3>2, <3>3, <4>2 DEF LoadAt, LoadPlaces
        <5> QED
          BY <5>1
      <4> QED
        BY <4>1, <4>2
    <3>5. LoadOwner(d, A, s, i)
      <4>1. i \in Rob(d) /\ IsLoad(i) /\ HasBegun(d, A, i)
        BY <1>4, <1>14, <1>16, <3>1
      <4>2. d.entry[i].num_mem_ops = 1 /\ d.entry[i].lq_index = s
        BY <1>4, <1>12, <2>3, <3>1
      <4>3. p[i] = 0 => LastStore(i) < d.head
        BY <1>5, <1>13, <3>1
      <4> QED
        BY <3>3, <4>1, <4>2, <4>3 DEF LoadOwner
    <3> QED
      BY <3>3, <3>4, <3>5 DEF LoadSlot
  <2>4. ASSUME s \notin {f[i] : i \in W}, d.LQ[s] = c.LQ[s]  PROVE LoadSlot(d, A, s)
    <3>1. s \in ToSet(d.RTL0) <=> s \in ToSet(c.RTL0)
      BY <1>7, <1>22, <2>4
    <3>2. LoadAt(d, s, y)
      BY <1>13, <2>2, <2>4, <3>1 DEF LoadAt
    <3>3. ASSUME NEW i, i = c.LQ[s].id, i # 0  PROVE LoadOwner(d, A, s, i)
      <4>1. LoadOwner(c, {}, s, i) /\ i \in Ids
        BY <1>15, <3>3
      <4>2. i \notin A
        BY <1>16, <4>1 DEF LoadOwner
      <4>3. i \notin N
        BY <1>3, <4>2
      <4>4. d.entry[i].num_mem_ops = c.entry[i].num_mem_ops /\ d.entry[i].lq_index = c.entry[i].lq_index
        BY <1>12, <4>1, <4>2, <4>3
      <4> QED
        BY <1>13, <1>14, <1>16, <2>4, <4>1, <4>4 DEF LoadOwner
    <3> QED
      BY <2>1, <2>4, <3>2, <3>3 DEF LoadSlot
  <2> QED
    BY <1>8, <2>3, <2>4
<1>25. ASSUME NEW s \in SQSlots  PROVE StoreSlot(d, A, s)
  <2>1. StoreSlot(c, {}, s)
    BY DEF MemInv
  <2>2. PICK y : StoreAt(c, s, y)
    BY <2>1 DEF StoreSlot
  <2>3. StoreAt(d, s, y)
    BY <1>13, <2>2 DEF StoreAt
  <2>4. ASSUME NEW i, i = c.SQ[s].id, i # 0  PROVE StoreOwner(d, A, s, i)
    <3>1. StoreOwner(c, {}, s, i) /\ i \in Ids
      BY <1>15, <2>4
    <3>2. i \notin N
      BY <1>3, <1>4, <3>1 DEF StoreOwner
    <3> QED
      BY <1>11, <1>12, <1>13, <1>14, <1>16, <3>1, <3>2 DEF StoreOwner
  <2> QED
    BY <1>13, <2>1, <2>3, <2>4 DEF StoreSlot
<1>26. d.inflight_mem_executions = Cardinality(Done(d))
  <2>1. PICK D : D = Done(c)
    OBVIOUS
  <2>2. IsFiniteSet(N) /\ IsFiniteSet(D)
    <3>1. D \in SUBSET Rob(c) /\ N \in SUBSET Rob(c)
      BY <1>3, <1>4, <2>1 DEF Done
    <3> QED
      BY <1>14, <3>1, FS_Subset
  <2>3. Done(d) = D \cup N /\ D \cap N = {}
    <3>1. \A i \in N : /\ i \in Rob(c) /\ i \in Ids /\ IsMemory(i) /\ c.entry[i].num_mem_ops = 1
                       /\ d.entry[i].num_mem_ops = 0 /\ d.entry[i].executed # "COMPLETED"
      BY <1>3, <1>4, <1>11, <1>12
    <3>2. \A i : i \in D <=> i \in Rob(c) /\ IsMemory(i) /\ c.entry[i].num_mem_ops = 0 /\ c.entry[i].executed # "COMPLETED"
      BY <2>1 DEF Done
    <3>3. \A i : i \in Done(d) <=> i \in Rob(c) /\ IsMemory(i) /\ d.entry[i].num_mem_ops = 0 /\ d.entry[i].executed # "COMPLETED"
      BY <1>14 DEF Done
    <3>4. \A i \in Rob(c) : i \notin N => /\ d.entry[i].num_mem_ops = c.entry[i].num_mem_ops
                                          /\ d.entry[i].executed = c.entry[i].executed
      BY <1>11, <1>12, <1>14
    <3>5. \A i : i \in Done(d) <=> i \in D \cup N
      BY <3>1, <3>2, <3>3, <3>4
    <3> QED
      BY <3>1, <3>2, <3>5
  <2>4. Cardinality(D \cup N) = Cardinality(D) + Cardinality(N)
    BY <2>2, <2>3, DisjointSum
  <2>5. c.inflight_mem_executions = Cardinality(D)
    BY <2>1 DEF MemInv
  <2> QED
    BY <1>13, <2>3, <2>4, <2>5
<1>27. MemInv(d, A)
  BY <1>17, <1>23, <1>24, <1>25, <1>26 DEF MemInv
<1> QED
  BY <1>1, <1>27

-----------------------------------------------------------------------------
(* add_store_queue.                                                          *)

(* No more stores are added than there are free slots.                       *)
LEMMA AddedStoresAre ==
  ASSUME NEW c, RobInv(c), RegInv(c), NEW A, MemInv(c, A), NEW V, V \subseteq Rob(c),
         \A i \in A : ~IsStore(i)
  PROVE  /\ \A i \in AddedStores(c, V) :
              /\ i \in Rob(c) /\ i \in Ids /\ IsStore(i) /\ ~IsLoad(i) /\ IsMemory(i)
              /\ c.entry[i].executed = "no" /\ ~HasBegun(c, A, i) /\ c.entry[i].num_mem_ops = 1
         /\ IsFiniteSet(AddedStores(c, V)) /\ IsFiniteSet(FreeSQ(c))
         /\ Cardinality(AddedStores(c, V)) <= Cardinality(FreeSQ(c))
<1>1. Rob(c) \subseteq Ids /\ IsFiniteSet(Rob(c)) /\ program \in Programs
  BY RobIs DEF RobInv
<1>2. \A i \in Ids : RegEntry(c, i) /\ MemEntry(c, A, i)
  BY DEF RegInv, MemInv
<1>3. PICK B, n : B = AddedStores(c, V) /\ n = Cardinality(FreeSQ(c))
  OBVIOUS
<1>4. IsFiniteSet(FreeSQ(c)) /\ n \in Nat
  <2>1. SQ_SIZE \in Int /\ 1 \in Int
    BY Sizes
  <2>2. IsFiniteSet(SQSlots)
    BY <2>1, FS_Interval DEF SQSlots
  <2>3. FreeSQ(c) \in SUBSET SQSlots
    BY DEF FreeSQ
  <2>4. IsFiniteSet(FreeSQ(c))
    BY <2>2, <2>3, FS_Subset
  <2> QED
    BY <1>3, <2>4, FS_CardinalityType
<1>5. \A i \in B : i \in Rob(c) /\ IsStore(i) /\ IsMemory(i) /\ c.entry[i].scheduled = "INFLIGHT"
  BY <1>3 DEF AddedStores, Stores, Schedulable
<1>6. \A i \in B : \E k \in 1 .. n : c.STA[k] = i
  BY <1>3 DEF AddedStores
<1>7. ASSUME NEW i \in B
      PROVE  /\ i \in Rob(c) /\ i \in Ids /\ IsStore(i) /\ ~IsLoad(i) /\ IsMemory(i)
             /\ c.entry[i].executed = "no" /\ ~HasBegun(c, A, i) /\ c.entry[i].num_mem_ops = 1
  <2>1. i \in Rob(c) /\ i \in Ids /\ IsStore(i) /\ IsMemory(i) /\ c.entry[i].scheduled = "INFLIGHT"
    BY <1>1, <1>5
  <2>2. RegEntry(c, i) /\ MemEntry(c, A, i) /\ ~IsLoad(i)
    BY <1>1, <1>2, <2>1, Program
  <2>3. c.entry[i].executed = "no"
    BY <2>1, <2>2 DEF RegEntry
  <2>4. ~HasBegun(c, A, i)
    BY <2>1, <2>3 DEF HasBegun
  <2> QED
    BY <2>1, <2>2, <2>3, <2>4 DEF MemEntry
<1>8. IsFiniteSet(B)
  <2>1. B \in SUBSET Rob(c)
    BY <1>5
  <2> QED
    BY <1>1, <2>1, FS_Subset
<1>9. Cardinality(B) <= n
  <2>1. PICK g : g = [i \in B |-> CHOOSE k \in 1 .. n : c.STA[k] = i]
    OBVIOUS
  <2>2. \A i \in B : g[i] \in 1 .. n /\ c.STA[g[i]] = i
    BY <1>6, <2>1
  <2>3. DOMAIN g = B /\ g = [i \in B |-> g[i]] /\ \A i, j \in B : g[i] = g[j] => i = j
    BY <2>1, <2>2
  <2>4. PICK Z : Z = {g[i] : i \in B}
    OBVIOUS
  <2>5. IsFiniteSet(Z) /\ Cardinality(Z) = Cardinality(B)
    BY <1>8, <2>3, <2>4, ImageSize
  <2>6. Z \in SUBSET (1 .. n)
    BY <2>2, <2>4
  <2>7. IsFiniteSet(1 .. n) /\ Cardinality(1 .. n) = n
    BY <1>4, FS_Interval
  <2>8. Cardinality(Z) <= Cardinality(1 .. n)
    BY <2>6, <2>7, FS_Subset
  <2> QED
    BY <2>5, <2>7, <2>8
<1> QED
  BY <1>3, <1>4, <1>7, <1>8, <1>9

LEMMA AddStoresKeepsMem ==
  ASSUME NEW c, RobInv(c), RegInv(c), NEW A, MemInv(c, A), NEW V, V \subseteq Rob(c),
         \A i \in A : ~IsStore(i), NEW d, d = add_store_queue(c, V)
  PROVE  MemInv(d, A \cup AddedStores(c, V))
<1>0. Queues(c) /\ AddStoresEffect(c, V, d) /\ program \in Programs
  <2>1. CoreShape(c)
    BY DEF RobInv
  <2> QED
    BY <2>1, AddStoresDo DEF MemInv, RobInv
<1>1. PICK B, G, m, n : /\ B = AddedStores(c, V) /\ G = FreeSQ(c)
                        /\ m = Cardinality(B) /\ n = Cardinality(G)
  OBVIOUS
<1>2. /\ \A i \in B :
           /\ i \in Rob(c) /\ i \in Ids /\ IsStore(i) /\ ~IsLoad(i) /\ IsMemory(i)
           /\ c.entry[i].executed = "no" /\ ~HasBegun(c, A, i) /\ c.entry[i].num_mem_ops = 1
      /\ IsFiniteSet(B) /\ IsFiniteSet(G) /\ m <= n
  BY <1>1, AddedStoresAre
<1>3. m \in Nat /\ n \in Nat
  BY <1>1, <1>2, FS_CardinalityType
<1>4. Rob(c) \subseteq Ids /\ IsFiniteSet(Rob(c)) /\ Rob(c) \subseteq Nat
  BY RobIs
<1>5. PICK f, g : f = NewStores(c, V) /\ g = FreeSlots(c)
  OBVIOUS
<1>6. f \in Seq(B) /\ Distinct(f) /\ ToSet(f) = B /\ Len(f) = m /\ DOMAIN f = 1 .. m
  <2>1. B \in SUBSET Int
    BY <1>2, <1>4
  <2>2. f = InOrder(B)
    BY <1>1, <1>5 DEF NewStores
  <2>3. Lists(f, B)
    BY <1>2, <2>1, <2>2, NthIs
  <2> QED
    BY <1>1, <2>3 DEF Lists
<1>7. g \in Seq(G) /\ Distinct(g) /\ Len(g) = n /\ DOMAIN g = 1 .. n
  <2>1. G \in SUBSET Int
    BY <1>1, Sizes DEF FreeSQ, SQSlots
  <2>2. g = InOrder(G)
    BY <1>1, <1>5 DEF FreeSlots
  <2>3. Lists(g, G)
    BY <1>2, <2>1, <2>2, NthIs
  <2> QED
    BY <1>1, <2>3 DEF Lists
<1>8. /\ \A k \in 1 .. m : f[k] \in B /\ g[k] \in G /\ g[k] \in SQSlots /\ c.SQ[g[k]].id = 0
      /\ \A k, l \in 1 .. m : f[k] = f[l] => k = l
      /\ \A k, l \in 1 .. m : g[k] = g[l] => k = l
      /\ \A i : i \in B <=> \E k \in 1 .. m : f[k] = i
  <2>1. \A k \in 1 .. m : k \in 1 .. n
    BY <1>2, <1>3
  <2>2. \A k \in 1 .. m : f[k] \in B /\ g[k] \in G
    BY <1>6, <1>7, <2>1
  <2>3. \A x \in G : x \in SQSlots /\ c.SQ[x].id = 0
    BY <1>1 DEF FreeSQ
  <2>4. B = {f[k] : k \in 1 .. m}
    BY <1>6 DEF ToSet
  <2> QED
    BY <1>6, <1>7, <2>1, <2>2, <2>3, <2>4 DEF Distinct
<1>9. \A s \in SQSlots :
        d.SQ[s] = IF \E k \in 1 .. m : g[k] = s
                  THEN [id |-> f[CHOOSE k \in 1 .. m : g[k] = s], fetched |-> FALSE] ELSE c.SQ[s]
  BY <1>0, <1>5, <1>6 DEF AddStoresEffect
<1>10. /\ \A k \in 1 .. m : d.SQ[g[k]] = [id |-> f[k], fetched |-> FALSE]
       /\ \A s \in SQSlots : (~ \E k \in 1 .. m : g[k] = s) => d.SQ[s] = c.SQ[s]
  <2>1. ASSUME NEW k \in 1 .. m  PROVE d.SQ[g[k]] = [id |-> f[k], fetched |-> FALSE]
    <3>1. PICK l : l = CHOOSE j \in 1 .. m : g[j] = g[k]
      OBVIOUS
    <3>2. l \in 1 .. m /\ g[l] = g[k]
      BY <3>1
    <3>3. l = k
      BY <1>8, <3>2
    <3> QED
      BY <1>8, <1>9, <3>1, <3>3
  <2> QED
    BY <1>9, <2>1
<1>11. /\ \A k \in 1 .. m : d.entry[f[k]].sq_index = g[k]
       /\ \A i \in Ids : i \notin B => d.entry[i].sq_index = c.entry[i].sq_index
  <2>1. \A i \in Ids :
          d.entry[i].sq_index = IF \E k \in 1 .. m : f[k] = i
                                THEN g[CHOOSE k \in 1 .. m : f[k] = i] ELSE c.entry[i].sq_index
    BY <1>0, <1>5, <1>6 DEF AddStoresEffect
  <2>2. ASSUME NEW k \in 1 .. m  PROVE d.entry[f[k]].sq_index = g[k]
    <3>1. PICK l : l = CHOOSE j \in 1 .. m : f[j] = f[k]
      OBVIOUS
    <3>2. l \in 1 .. m /\ f[l] = f[k]
      BY <3>1
    <3>3. l = k /\ f[k] \in Ids
      BY <1>2, <1>8, <3>2
    <3> QED
      BY <2>1, <3>1, <3>3
  <2> QED
    BY <1>8, <2>1, <2>2
<1>12. /\ \A i \in Ids :
            /\ d.entry[i].executed = c.entry[i].executed
            /\ d.entry[i].event_cycle = c.entry[i].event_cycle
            /\ d.entry[i].registers_instrs_depend_on_me = c.entry[i].registers_instrs_depend_on_me
            /\ d.entry[i].memory_instrs_depend_on_me = c.entry[i].memory_instrs_depend_on_me
            /\ d.entry[i].num_mem_ops = c.entry[i].num_mem_ops
            /\ d.entry[i].lq_index = c.entry[i].lq_index
            /\ d.entry[i].from = c.entry[i].from
       /\ d.RTS0 = c.RTS0 \o First(g, m)
       /\ d.LQ = c.LQ /\ d.RTL0 = c.RTL0 /\ d.RTL1 = c.RTL1 /\ d.RTS1 = c.RTS1
       /\ d.dtlb = c.dtlb /\ d.dtlb_processed = c.dtlb_processed /\ d.l1d = c.l1d
       /\ d.l1d_processed = c.l1d_processed /\ d.head = c.head /\ d.tail = c.tail
       /\ d.inflight_mem_executions = c.inflight_mem_executions
  BY <1>0, <1>5, <1>6 DEF AddStoresEffect
<1>13. Rob(d) = Rob(c)
  BY <1>12 DEF Rob
<1>14. /\ \A s \in LQSlots : c.LQ[s].id # 0 => /\ LoadOwner(c, A, s, c.LQ[s].id)
                                               /\ c.LQ[s].id \in Ids /\ ~IsStore(c.LQ[s].id)
       /\ \A s \in SQSlots : c.SQ[s].id # 0 => /\ StoreOwner(c, A, s, c.SQ[s].id)
                                               /\ c.SQ[s].id \in Ids /\ ~IsLoad(c.SQ[s].id)
       /\ 0 \notin Ids /\ 0 \notin LQSlots /\ 0 \notin SQSlots
  BY OwnerOf
<1>15. PICK C : C = A \cup B
  OBVIOUS
<1>16. \A i \in Ids : MemEntry(c, A, i) /\ (HasBegun(d, C, i) <=> HasBegun(c, A, i) \/ i \in B)
  BY <1>12, <1>15 DEF MemInv, HasBegun
<1>17. ASSUME NEW i \in Ids  PROVE MemEntry(d, C, i)
  <2>1. MemEntry(c, A, i)
    BY <1>16
  <2>2. \A j \in c.entry[i].memory_instrs_depend_on_me : Depends(c, i, j)
    BY <2>1 DEF MemEntry
  <2>3. ASSUME NEW j \in d.entry[i].memory_instrs_depend_on_me  PROVE Depends(d, i, j)
    <3>1. Depends(c, i, j) /\ j \in Ids
      BY <1>12, <2>2 DEF Depends
    <3>2. /\ d.entry[i].num_mem_ops = c.entry[i].num_mem_ops /\ d.LQ = c.LQ
          /\ d.entry[j].lq_index = c.entry[j].lq_index
      BY <1>12, <3>1
    <3> QED
      BY <3>1, <3>2 DEF Depends
  <2>4. i \in B => d.entry[i].sq_index \in SQSlots /\ d.SQ[d.entry[i].sq_index].id = i
    <3> SUFFICES ASSUME i \in B  PROVE d.entry[i].sq_index \in SQSlots /\ d.SQ[d.entry[i].sq_index].id = i
      OBVIOUS
    <3>1. PICK k \in 1 .. m : f[k] = i
      BY <1>8
    <3>2. d.entry[i].sq_index = g[k] /\ g[k] \in SQSlots /\ d.SQ[g[k]] = [id |-> i, fetched |-> FALSE]
      BY <1>8, <1>10, <1>11, <3>1
    <3> QED
      BY <3>2
  <2>5. IsStore(i) /\ HasBegun(d, C, i) /\ i \notin B =>
          d.entry[i].sq_index \in SQSlots /\ d.SQ[d.entry[i].sq_index].id = i
    <3> SUFFICES ASSUME IsStore(i), HasBegun(d, C, i), i \notin B
                 PROVE  d.entry[i].sq_index \in SQSlots /\ d.SQ[d.entry[i].sq_index].id = i
      OBVIOUS
    <3>1. PICK s : s = c.entry[i].sq_index
      OBVIOUS
    <3>2. s \in SQSlots /\ c.SQ[s].id = i /\ i # 0
      BY <1>14, <1>16, <2>1, <3>1 DEF MemEntry
    <3>3. d.SQ[s] = c.SQ[s]
      BY <1>8, <1>10, <3>2
    <3> QED
      BY <1>11, <3>1, <3>2, <3>3
  <2>6. d.entry[i].sq_index \in SQSlots \cup {0}
    <3>1. i \notin B => d.entry[i].sq_index = c.entry[i].sq_index
      BY <1>11
    <3> QED
      BY <2>1, <2>4, <3>1 DEF MemEntry
  <2>7. IsMemory(i) /\ ~HasBegun(d, C, i) => d.entry[i].num_mem_ops = 1
    BY <1>12, <1>16, <2>1 DEF MemEntry
  <2>8. /\ d.entry[i].event_cycle \in Nat /\ d.entry[i].registers_instrs_depend_on_me \subseteq Ids
        /\ d.entry[i].lq_index \in LQSlots \cup {0}
        /\ d.entry[i].num_mem_ops \in {0, 1}
        /\ ~IsMemory(i) => d.entry[i].num_mem_ops = 0
        /\ IsMemory(i) /\ d.entry[i].executed = "COMPLETED" => d.entry[i].num_mem_ops = 0
        /\ d.entry[i].from # 0 => d.entry[i].from = LastStore(i) /\ d.entry[i].from \in Ids
    BY <1>12, <2>1 DEF MemEntry
  <2> QED
    BY <2>3, <2>4, <2>5, <2>6, <2>7, <2>8 DEF MemEntry
<1>18. Queue(First(g, m), SQSlots) /\ \A s : s \in ToSet(First(g, m)) <=> \E k \in 1 .. m : g[k] = s
  <2>1. PICK h : h = First(g, m)
    OBVIOUS
  <2>2. DOMAIN h = 1 .. m /\ Len(h) = m /\ \A k \in 1 .. m : h[k] = g[k]
    BY <1>2, <1>3, <1>7, <2>1 DEF First
  <2>3. h \in Seq(SQSlots)
    <3>1. G \subseteq SQSlots
      BY <1>1 DEF FreeSQ
    <3>2. g \in Seq(SQSlots)
      BY <1>7, <3>1, WiderSeq
    <3>3. m \in 0 .. Len(g)
      BY <1>2, <1>3, <1>7
    <3> QED
      BY <2>1, <3>2, <3>3, SplitQueue
  <2>4. Distinct(h)
    BY <1>8, <2>2 DEF Distinct
  <2>5. ToSet(h) = {h[k] : k \in 1 .. m}
    BY <2>2 DEF ToSet
  <2>6. \A s : s \in ToSet(h) <=> \E k \in 1 .. m : g[k] = s
    BY <2>2, <2>5
  <2> QED
    BY <2>1, <2>3, <2>4, <2>6 DEF Queue
<1>19. \A k \in 1 .. m : StoreAt(c, g[k], "free")
  <2> SUFFICES ASSUME NEW k \in 1 .. m  PROVE StoreAt(c, g[k], "free")
    OBVIOUS
  <2>1. g[k] \in SQSlots /\ c.SQ[g[k]].id = 0
    BY <1>8
  <2>2. PICK x : StoreAt(c, g[k], x)
    BY <2>1 DEF MemInv, StoreSlot
  <2>3. x = "free"
    BY <2>1, <2>2 DEF StoreAt
  <2> QED
    BY <2>2, <2>3
<1>20. Queue(d.RTS0, SQSlots) /\ \A s : s \in ToSet(d.RTS0) <=> s \in ToSet(c.RTS0) \/ \E k \in 1 .. m : g[k] = s
  <2>1. PICK h : h = First(g, m)
    OBVIOUS
  <2>2. Queue(c.RTS0, SQSlots) /\ Queue(h, SQSlots)
    BY <1>0, <1>18, <2>1 DEF Queues
  <2>3. ToSet(c.RTS0) \cap ToSet(h) = {}
    <3> SUFFICES ASSUME NEW k \in 1 .. m, g[k] \in ToSet(c.RTS0)  PROVE FALSE
      BY <1>18, <2>1
    <3>1. StoreAt(c, g[k], "free")
      BY <1>19
    <3> QED
      BY <3>1 DEF StoreAt
  <2>4. /\ Queue(c.RTS0 \o h, SQSlots)
        /\ \A s : s \in ToSet(c.RTS0 \o h) <=> s \in ToSet(c.RTS0) \/ s \in ToSet(h)
    BY <2>2, <2>3, Push
  <2>5. \A s : s \in ToSet(h) <=> \E k \in 1 .. m : g[k] = s
    BY <1>18, <2>1
  <2>6. d.RTS0 = c.RTS0 \o h
    BY <1>12, <2>1
  <2> QED
    BY <2>4, <2>5, <2>6
<1>21. Queues(d)
  BY <1>0, <1>12, <1>20 DEF Queues
<1>22. ASSUME NEW s \in LQSlots  PROVE LoadSlot(d, C, s)
  <2>1. LoadSlot(c, A, s)
    BY DEF MemInv
  <2>2. PICK y : LoadAt(c, s, y)
    BY <2>1 DEF LoadSlot
  <2>3. LoadAt(d, s, y)
    BY <1>12, <2>2 DEF LoadAt
  <2>4. ASSUME NEW i, i = c.LQ[s].id, i # 0  PROVE LoadOwner(d, C, s, i)
    <3>1. LoadOwner(c, A, s, i) /\ i \in Ids
      BY <1>14, <2>4
    <3> QED
      BY <1>12, <1>13, <1>16, <3>1 DEF LoadOwner
  <2> QED
    BY <1>12, <2>1, <2>3, <2>4 DEF LoadSlot
<1>23. ASSUME NEW s \in SQSlots  PROVE StoreSlot(d, C, s)
  <2>1. StoreSlot(c, A, s)
    BY DEF MemInv
  <2>2. CASE \E k \in 1 .. m : g[k] = s
    <3>1. PICK k \in 1 .. m : g[k] = s
      BY <2>2
    <3>2. PICK i : i = f[k]
      OBVIOUS
    <3>3. d.SQ[s] = [id |-> i, fetched |-> FALSE] /\ d.entry[i].sq_index = s /\ i \in B
      BY <1>8, <1>10, <1>11, <3>1, <3>2
    <3>4. i \in Ids /\ i \in Rob(d) /\ IsStore(i) /\ d.entry[i].num_mem_ops = 1 /\ i # 0
      BY <1>2, <1>12, <1>13, <1>14, <3>3
    <3>5. StoreAt(c, s, "free") /\ s \in ToSet(d.RTS0)
      BY <1>19, <1>20, <3>1
    <3>6. StoreAt(d, s, "RTS0")
      BY <1>12, <3>3, <3>4, <3>5 DEF StoreAt, StorePlaces
    <3>7. StoreOwner(d, C, s, i)
      BY <1>16, <3>3, <3>4 DEF StoreOwner
    <3>8. d.SQ[s] \in [id: Ids \cup {0}, fetched: BOOLEAN] /\ d.SQ[s].id = i
      BY <3>3, <3>4
    <3> QED
      BY <3>6, <3>7, <3>8 DEF StoreSlot
  <2>3. CASE ~ \E k \in 1 .. m : g[k] = s
    <3>1. d.SQ[s] = c.SQ[s] /\ (s \in ToSet(d.RTS0) <=> s \in ToSet(c.RTS0))
      BY <1>10, <1>20, <2>3
    <3>2. PICK y : StoreAt(c, s, y)
      BY <2>1 DEF StoreSlot
    <3>3. StoreAt(d, s, y)
      BY <1>12, <3>1, <3>2 DEF StoreAt
    <3>4. ASSUME NEW i, i = c.SQ[s].id, i # 0  PROVE StoreOwner(d, C, s, i)
      <4>1. StoreOwner(c, A, s, i) /\ i \in Ids
        BY <1>14, <3>4
      <4>2. i \notin B
        BY <1>2, <4>1 DEF StoreOwner
      <4>3. d.entry[i].sq_index = c.entry[i].sq_index
        BY <1>11, <4>1, <4>2
      <4> QED
        BY <1>12, <1>13, <1>16, <3>1, <4>1, <4>3 DEF StoreOwner
    <3> QED
      BY <2>1, <3>1, <3>3, <3>4 DEF StoreSlot
  <2> QED
    BY <2>2, <2>3
<1>24. d.inflight_mem_executions = Cardinality(Done(d))
  <2>1. Done(d) = Done(c)
    BY <1>4, <1>12, <1>13 DEF Done
  <2> QED
    BY <1>12, <2>1 DEF MemInv
<1>25. MemInv(d, C)
  BY <1>17, <1>21, <1>22, <1>23, <1>24 DEF MemInv
<1> QED
  BY <1>1, <1>15, <1>25

-----------------------------------------------------------------------------
(* A cycle, and the theorems about the accesses.                             *)

LEMMA CycleKeepsMem ==
  ASSUME NEW c, RobInv(c), RegInv(c), MemInv(c, {}), NEW d, Cycle(c, d)
  PROVE  MemInv(d, {})
<1>1. PICK c1, c2, c3, c4, c5, c6, c7, V, added, c8, c9, c10 :
        /\ c1 = retire_rob(c) /\ c2 = complete_inflight_instruction(c1)
        /\ c3 = execute_instruction(c2) /\ c4 = schedule_instruction(c3)
        /\ c5 = handle_memory_return(c4) /\ c6 = operate_stores(c5) /\ c7 = operate_loads(c6)
        /\ V = Visited(c7) /\ added = Added(c7, V)
        /\ c8 = add_load_queue(c7, V) /\ c9 = add_store_queue(c8, V)
        /\ c10 = MemScheduled(c9, added) /\ d = NextCycle(dispatch_instruction(c10))
  BY DEF Cycle
<1>2. RobInv(c1) /\ RegInv(c1) /\ MemInv(c1, {})
  BY <1>1, RetireKeepsRob, RetireKeepsReg, RetireKeepsMem
<1>3. RobInv(c2) /\ RegInv(c2) /\ MemInv(c2, {})
  BY <1>1, <1>2, CompleteKeepsReg, CompleteKeepsMem
<1>4. RobInv(c3) /\ RegInv(c3) /\ MemInv(c3, {})
  BY <1>1, <1>3, ExecuteKeepsReg, ExecuteKeepsMem
<1>5. RobInv(c4) /\ RegInv(c4) /\ MemInv(c4, {})
  BY <1>1, <1>4, ScheduleKeepsReg, ScheduleKeepsMem
<1>6. RobInv(c5) /\ RegInv(c5) /\ MemInv(c5, {})
  BY <1>1, <1>5, ReturnKeepsReg, ReturnKeepsMem
<1>7. RobInv(c6) /\ RegInv(c6) /\ MemInv(c6, {})
  BY <1>1, <1>6, StoresKeepReg, StoresKeepMem
<1>8. RobInv(c7) /\ RegInv(c7) /\ MemInv(c7, {})
  BY <1>1, <1>7, LoadsKeepReg, LoadsKeepMem
<1>9. V \subseteq Rob(c7)
  BY <1>1, <1>8, VisitedIs
<1>10. RobInv(c8) /\ RegInv(c8) /\ SameReg(c7, c8) /\ MemInv(c8, AddedLoads(c7, V))
  BY <1>1, <1>8, <1>9, AddLoadsKeepsReg, AddLoadsKeepsMem
<1>11. Rob(c8) = Rob(c7) /\ Rob(c7) \subseteq Ids
  BY <1>8, <1>10, RobIs DEF SameReg, Rob
<1>12. AddedStores(c8, V) = AddedStores(c7, V)
  <2>1. c8.SQ = c7.SQ /\ c8.STA = c7.STA
    <3>1. CoreShape(c7)
      BY <1>8 DEF RobInv
    <3>2. AddLoadsEffect(c7, V, c8)
      BY <1>1, <3>1, AddLoadsDo
    <3> QED
      BY <3>2 DEF AddLoadsEffect
  <2>2. Schedulable(c8, V) = Schedulable(c7, V)
    BY <1>9, <1>10, <1>11 DEF Schedulable, SameReg
  <2> QED
    BY <2>1, <2>2 DEF AddedStores, FreeSQ
<1>13. \A i \in AddedLoads(c7, V) : ~IsStore(i)
  BY <1>8, <1>9, AddedLoadsAre
<1>14. RobInv(c9) /\ RegInv(c9) /\ SameReg(c8, c9) /\ MemInv(c9, AddedLoads(c7, V) \cup AddedStores(c8, V))
  BY <1>1, <1>9, <1>10, <1>11, <1>13, AddStoresKeepsReg, AddStoresKeepsMem
<1>15. MemInv(c9, added)
  BY <1>1, <1>12, <1>14 DEF Added
<1>16. Rob(c9) = Rob(c7)
  BY <1>10, <1>11, <1>14 DEF SameReg, Rob
<1>17. \A i \in added : /\ i \in Rob(c9) /\ IsMemory(i) /\ c9.entry[i].num_reg_dependent = 0
                        /\ c9.entry[i].scheduled = "INFLIGHT"
  <2>1. \A i \in added : /\ i \in Rob(c7) /\ IsMemory(i) /\ c7.entry[i].num_reg_dependent = 0
                         /\ c7.entry[i].scheduled = "INFLIGHT"
    BY <1>1, <1>9, AddedAre
  <2> QED
    BY <1>10, <1>11, <1>14, <1>16, <2>1 DEF SameReg
<1>18. \A i \in added : c9.entry[i].executed = "no"
  <2>1. \A i \in added : RegEntry(c9, i) /\ c9.entry[i].scheduled = "INFLIGHT"
    BY <1>11, <1>14, <1>16, <1>17 DEF RegInv
  <2> QED
    BY <2>1 DEF RegEntry
<1>19. RobInv(c10) /\ RegInv(c10) /\ MemInv(c10, {})
  BY <1>1, <1>14, <1>15, <1>17, <1>18, MemScheduledKeepsReg, MemScheduledKeepsMem
<1>20. PICK c11 : c11 = dispatch_instruction(c10)
  OBVIOUS
<1>21. RobInv(c11) /\ RegInv(c11) /\ MemInv(c11, {})
  BY <1>19, <1>20, DispatchKeepsRob, DispatchKeepsReg, DispatchKeepsMem
<1>22. d = NextCycle(c11)
  BY <1>1, <1>20
<1> QED
  BY <1>21, <1>22, NextCycleKeepsMem

(* The whole invariant of the core.                                          *)
CoreInv == RegisterInv /\ MemInv(cpu, {})

LEMMA InitMem ==
  ASSUME Init
  PROVE  MemInv(cpu, {})
<1>0. program \in Programs /\ RobInv(cpu)
  BY InitReg DEF Init
<1>1. Rob(cpu) = {} /\ Rob(cpu) \subseteq Ids
  BY DEF Init, Rob
<1>2. /\ \A i \in Ids : cpu.entry[i] = NewEntry(i)
      /\ \A s \in LQSlots : cpu.LQ[s] = NoLoad
      /\ \A s \in SQSlots : cpu.SQ[s] = NoStore
      /\ cpu.RTL0 = <<>> /\ cpu.RTL1 = <<>> /\ cpu.RTS0 = <<>> /\ cpu.RTS1 = <<>>
      /\ cpu.dtlb = {} /\ cpu.dtlb_processed = <<>> /\ cpu.l1d = {} /\ cpu.l1d_processed = <<>>
      /\ cpu.inflight_mem_executions = 0
  BY DEF Init
<1>3. ASSUME NEW i \in Ids  PROVE MemEntry(cpu, {}, i)
  <2>1. /\ cpu.entry[i].executed = "no" /\ cpu.entry[i].event_cycle = 0
        /\ cpu.entry[i].registers_instrs_depend_on_me = {} /\ cpu.entry[i].memory_instrs_depend_on_me = {}
        /\ cpu.entry[i].num_mem_ops = (IF IsMemory(i) THEN 1 ELSE 0)
        /\ cpu.entry[i].lq_index = 0 /\ cpu.entry[i].sq_index = 0 /\ cpu.entry[i].from = 0
    <3>1. cpu.entry[i] = NewEntry(i)
      BY <1>2
    <3> QED
      BY <3>1 DEF NewEntry
  <2> QED
    BY <2>1 DEF MemEntry, HasBegun
<1>4. ToSet(<<>>) = {}
  BY DEF ToSet
<1>5. ASSUME NEW s \in LQSlots  PROVE LoadSlot(cpu, {}, s)
  <2>1. cpu.LQ[s].id = 0 /\ cpu.LQ[s].producer_id = 0
        /\ cpu.LQ[s] \in [id: Ids \cup {0}, producer_id: Ids \cup {0}]
    BY <1>2 DEF NoLoad
  <2>2. LoadAt(cpu, s, "free")
    BY <1>2, <1>4, <2>1 DEF LoadAt, LoadPlaces
  <2> QED
    BY <2>1, <2>2 DEF LoadSlot
<1>6. ASSUME NEW s \in SQSlots  PROVE StoreSlot(cpu, {}, s)
  <2>1. cpu.SQ[s].id = 0 /\ cpu.SQ[s].fetched = FALSE /\ cpu.SQ[s] \in [id: Ids \cup {0}, fetched: BOOLEAN]
    <3>1. cpu.SQ[s] = NoStore
      BY <1>2
    <3> QED
      BY <3>1 DEF NoStore
  <2>2. StoreAt(cpu, s, "free")
    BY <1>2, <1>4, <2>1 DEF StoreAt, StorePlaces
  <2> QED
    BY <2>1, <2>2 DEF StoreSlot
<1>7. Queues(cpu)
  <2>1. \A S : Queue(<<>>, S)
    BY DEF Queue, Distinct
  <2>2. IsFiniteSet({}) /\ Cardinality({}) = 0
    BY FS_EmptySet
  <2> QED
    BY <1>2, <2>1, <2>2, Sizes DEF Queues
<1>8. cpu.inflight_mem_executions = Cardinality(Done(cpu))
  <2>1. Done(cpu) = {}
    BY <1>1 DEF Done
  <2> QED
    BY <1>2, <2>1, FS_EmptySet
<1> QED
  BY <1>3, <1>5, <1>6, <1>7, <1>8 DEF MemInv

LEMMA NextKeepsMem ==
  ASSUME CoreInv, [Next]_vars
  PROVE  CoreInv'
<1>1. program' = program
  BY DEF Next, operate, FrontEnd, DtlbReturns, L1dReturns, L1dWrites, vars
<1>2. RegisterInv'
  BY NextKeepsReg DEF CoreInv
<1>3. MemInv(cpu', {})
  <2>1. RobInv(cpu) /\ RegInv(cpu) /\ MemInv(cpu, {})
    BY DEF CoreInv, RegisterInv
  <2>2. CASE operate
    BY <2>1, <2>2, CycleKeepsMem DEF operate
  <2>3. CASE \/ FrontEnd
             \/ \E p \in Packets : DtlbReturns(p)
             \/ \E s \in LQSlots : L1dReturns(s)
             \/ L1dWrites
    BY <2>1, <2>3, OthersKeepMem
  <2>4. CASE UNCHANGED vars
    BY <2>1, <2>4 DEF vars
  <2> QED
    BY <2>2, <2>3, <2>4 DEF Next
<1>4. MemInv(cpu, {})'
  <2>1. Ids' = Ids /\ Rob(cpu)' = Rob(cpu')
    BY <1>1 DEF Ids, Rob
  <2>2. \A i : IsMemory(i)' = IsMemory(i) /\ IsLoad(i)' = IsLoad(i) /\ IsStore(i)' = IsStore(i)
    BY <1>1 DEF IsMemory, IsLoad, IsStore
  <2>3. \A i : LastStore(i)' = LastStore(i)
    BY <1>1 DEF LastStore, LastBefore, StoresTo, Ids
  <2>4. \A i : HasBegun(cpu, {}, i)' = HasBegun(cpu', {}, i)
    BY DEF HasBegun
  <2>5. \A p, j : Depends(cpu', p, j) => Depends(cpu, p, j)'
    BY <2>1, <2>2, <2>3 DEF Depends
  <2>6. \A i : MemEntry(cpu', {}, i) => MemEntry(cpu, {}, i)'
    BY <2>1, <2>2, <2>3, <2>4, <2>5 DEF MemEntry
  <2>7. \A s, x : LoadAt(cpu', s, x) => LoadAt(cpu, s, x)'
    BY DEF LoadAt
  <2>8. \A s, x : StoreAt(cpu', s, x) => StoreAt(cpu, s, x)'
    BY DEF StoreAt
  <2>9. \A s, i : LoadOwner(cpu', {}, s, i) => LoadOwner(cpu, {}, s, i)'
    BY <2>1, <2>2, <2>3, <2>4 DEF LoadOwner
  <2>10. \A s, i : StoreOwner(cpu', {}, s, i) => StoreOwner(cpu, {}, s, i)'
    BY <2>1, <2>2, <2>4 DEF StoreOwner
  <2>11. \A s : LoadSlot(cpu', {}, s) => LoadSlot(cpu, {}, s)'
    BY <2>1, <2>7, <2>9 DEF LoadSlot
  <2>12. \A s : StoreSlot(cpu', {}, s) => StoreSlot(cpu, {}, s)'
    BY <2>1, <2>8, <2>10 DEF StoreSlot
  <2>13. Queues(cpu') => Queues(cpu)'
    BY DEF Queues
  <2>14. Done(cpu)' = Done(cpu')
    BY <2>1, <2>2 DEF Done
  <2> QED
    BY <1>3, <2>1, <2>6, <2>11, <2>12, <2>13, <2>14 DEF MemInv
<1> QED
  BY <1>2, <1>4 DEF CoreInv


LEMMA CoreAlways == Spec => []CoreInv
<1>1. Init => CoreInv
  BY InitReg, InitMem DEF CoreInv, RegisterInv
<1>2. CoreInv /\ [Next]_vars => CoreInv'
  BY NextKeepsMem
<1> QED
  BY <1>1, <1>2, PTL DEF Spec

(* The queues and counters of the core keep their types; no counter of       *)
(* operations or dependencies goes below 0.                                  *)
THEOREM TypeAlways == Spec => []TypeOK
<1>1. CoreInv => TypeOK
  <2> SUFFICES ASSUME CoreInv  PROVE TypeOK
    OBVIOUS
  <2>1. RobInv(cpu) /\ RegInv(cpu) /\ MemInv(cpu, {})
    BY DEF CoreInv, RegisterInv
  <2>2. program \in Programs /\ Bounds(cpu) /\ CoreShape(cpu) /\ Len(program) \in Nat
    BY <2>1, Program DEF RobInv
  <2>3. /\ cpu.head \in 1 .. cpu.tail /\ cpu.tail \in 1 .. cpu.read + 1
        /\ cpu.read \in 0 .. Len(program) /\ cpu.tail - cpu.head <= ROB_SIZE
        /\ cpu.wq \in 0 .. L1D_WQ_SIZE
    BY <2>2 DEF Bounds
  <2>4. IsFiniteSet(Rob(cpu)) /\ Rob(cpu) \subseteq Ids
    BY <2>1, RobIs
  <2>5. ASSUME NEW i \in Ids  PROVE cpu.entry[i] \in EntryType
    <3>1. PICK e : e = cpu.entry[i]
      OBVIOUS
    <3>2. RegEntry(cpu, i) /\ MemEntry(cpu, {}, i) /\ EntryShape(e)
      BY <2>1, <2>2, <3>1 DEF RegInv, MemInv, CoreShape, EntriesShape
    <3>3. e.num_reg_dependent \in Nat
      <4>1. Pending(cpu, i) \in SUBSET Rob(cpu)
        BY DEF Pending
      <4>2. Cardinality(Pending(cpu, i)) \in Nat
        BY <2>4, <4>1, FS_Subset, FS_CardinalityType
      <4> QED
        BY <3>1, <3>2, <4>2 DEF RegEntry
    <3>4. e.scheduled \in Status /\ e.executed \in Status
      BY <3>1, <3>2 DEF RegEntry
    <3>5. e.memory_instrs_depend_on_me \subseteq Ids
      <4>1. \A j \in e.memory_instrs_depend_on_me : Depends(cpu, i, j)
        BY <3>1, <3>2 DEF MemEntry
      <4> QED
        BY <4>1 DEF Depends
    <3>6. /\ e.event_cycle \in Nat /\ e.registers_instrs_depend_on_me \subseteq Ids
          /\ e.lq_index \in LQSlots \cup {0} /\ e.sq_index \in SQSlots \cup {0}
          /\ e.num_mem_ops \in Nat /\ e.from \in Ids \cup {0}
      BY <3>1, <3>2 DEF MemEntry
    <3>7. e \in EntryType
      BY <3>2, <3>3, <3>4, <3>5, <3>6 DEF EntryShape, EntryType
    <3> QED
      BY <3>1, <3>7
  <2>6. /\ \A s \in LQSlots : cpu.LQ[s] \in [id: Ids \cup {0}, producer_id: Ids \cup {0}]
        /\ \A s \in SQSlots : cpu.SQ[s] \in [id: Ids \cup {0}, fetched: BOOLEAN]
    BY <2>1 DEF MemInv, LoadSlot, StoreSlot
  <2>7. cpu.inflight_reg_executions \in Nat /\ cpu.inflight_mem_executions \in Nat
    <3>1. InFlight(cpu) \in SUBSET Rob(cpu) /\ Done(cpu) \in SUBSET Rob(cpu)
      BY DEF InFlight, Done
    <3>2. Cardinality(InFlight(cpu)) \in Nat /\ Cardinality(Done(cpu)) \in Nat
      BY <2>4, <3>1, FS_Subset, FS_CardinalityType
    <3> QED
      BY <2>1, <3>2 DEF RegInv, MemInv
  <2>8. cpu.dtlb \subseteq Packets /\ cpu.l1d \subseteq LQSlots
    BY <2>1 DEF MemInv, Queues
  <2> QED
    BY <2>2, <2>3, <2>5, <2>6, <2>7, <2>8 DEF TypeOK
<1> QED
  BY <1>1, CoreAlways, PTL

(* A load gets its value from the last older store to its address, for       *)
(* every program.                                                            *)
THEOREM LoadsAlwaysSeeStores == Spec => []LoadsSeeStores
<1>1. CoreInv => LoadsSeeStores
  <2> SUFFICES ASSUME CoreInv  PROVE LoadsSeeStores
    OBVIOUS
  <2>1. RobInv(cpu) /\ MemInv(cpu, {})
    BY DEF CoreInv, RegisterInv
  <2>2. ASSUME NEW i \in Ids, cpu.entry[i].from # 0
        PROVE  cpu.entry[i].from = LastBefore(i, StoresTo(program[i].load))
    <3>1. MemEntry(cpu, {}, i)
      BY <2>1 DEF MemInv
    <3> QED
      BY <2>2, <3>1 DEF MemEntry, LastStore
  <2>3. ASSUME NEW s \in cpu.l1d \cup ToSet(cpu.l1d_processed), NEW i, i = cpu.LQ[s].id
        PROVE  LastBefore(i, StoresTo(program[i].load)) < cpu.head
    <3>1. s \in LQSlots
      <4>1. cpu.l1d \subseteq LQSlots /\ cpu.l1d_processed \in Seq(LQSlots)
        BY <2>1 DEF MemInv, Queues, Queue
      <4>2. ToSet(cpu.l1d_processed) \subseteq LQSlots
        BY <4>1, Spread
      <4> QED
        BY <2>3, <4>1, <4>2
    <3>2. PICK x : LoadAt(cpu, s, x)
      BY <2>1, <3>1 DEF MemInv, LoadSlot
    <3>3. x \in {"l1d", "l1d_processed"}
      BY <2>3, <3>2 DEF LoadAt
    <3>4. i # 0 /\ cpu.LQ[s].producer_id = 0
      BY <2>3, <3>2, <3>3 DEF LoadAt
    <3>5. LoadOwner(cpu, {}, s, i)
      BY <2>1, <2>3, <3>1, <3>4, OwnerOf
    <3> QED
      BY <3>4, <3>5 DEF LoadOwner, LastStore
  <2> QED
    BY <2>2, <2>3 DEF LoadsSeeStores
<1> QED
  BY <1>1, CoreAlways, PTL

(* A queue holds each of its members once.                                   *)
LEMMA CountIs ==
  ASSUME NEW S, NEW q, Queue(q, S), NEW x
  PROVE  Count(q, x) = In(x, ToSet(q))
<1>1. q \in Seq(S) /\ Distinct(q)
  BY DEF Queue
<1>2. PICK K : K = {k \in DOMAIN q : q[k] = x}
  OBVIOUS
<1>3. CASE x \in ToSet(q)
  <2>1. PICK k \in DOMAIN q : q[k] = x
    BY <1>1, <1>3 DEF ToSet
  <2>2. K = {k}
    BY <1>1, <1>2, <2>1 DEF Distinct
  <2>3. Cardinality(K) = 1
    BY <2>2, FS_Singleton
  <2> QED
    BY <1>2, <1>3, <2>3 DEF Count, In
<1>4. CASE x \notin ToSet(q)
  <2>1. K = {}
    BY <1>1, <1>2, <1>4 DEF ToSet
  <2>2. Cardinality(K) = 0
    BY <2>1, FS_EmptySet
  <2> QED
    BY <1>2, <1>4, <2>2 DEF Count, In
<1> QED
  BY <1>3, <1>4

LEMMA LoadPlaced ==
  ASSUME MemInv(cpu, {}), NEW s \in LQSlots
  PROVE  LQPlaces(s) = IF cpu.LQ[s].id = 0 THEN 0 ELSE 1
<1>1. PICK x : LoadAt(cpu, s, x)
  BY DEF MemInv, LoadSlot
<1>2. /\ Count(cpu.RTL0, s) = In(s, ToSet(cpu.RTL0)) /\ Count(cpu.RTL1, s) = In(s, ToSet(cpu.RTL1))
      /\ Count(cpu.l1d_processed, s) = In(s, ToSet(cpu.l1d_processed))
      /\ Count(cpu.dtlb_processed, <<"LQ", s>>) = In(<<"LQ", s>>, ToSet(cpu.dtlb_processed))
  <2>1. /\ Queue(cpu.RTL0, LQSlots) /\ Queue(cpu.RTL1, LQSlots) /\ Queue(cpu.l1d_processed, LQSlots)
        /\ Queue(cpu.dtlb_processed, Packets)
    BY DEF MemInv, Queues
  <2> QED
    BY <2>1, CountIs
<1>3. /\ Count(cpu.RTL0, s) = (IF x = "RTL0" THEN 1 ELSE 0)
      /\ Count(cpu.RTL1, s) = (IF x = "RTL1" THEN 1 ELSE 0)
      /\ Count(cpu.l1d_processed, s) = (IF x = "l1d_processed" THEN 1 ELSE 0)
      /\ Count(cpu.dtlb_processed, <<"LQ", s>>) = (IF x = "dtlb_processed" THEN 1 ELSE 0)
      /\ In(s, cpu.l1d) = (IF x = "l1d" THEN 1 ELSE 0)
      /\ In(<<"LQ", s>>, cpu.dtlb) = (IF x = "dtlb" THEN 1 ELSE 0)
      /\ (IF cpu.LQ[s].producer_id # 0 THEN 1 ELSE 0) = (IF x = "waits" THEN 1 ELSE 0)
      /\ cpu.LQ[s].id = 0 <=> x = "free"
  BY <1>1, <1>2 DEF LoadAt, In
<1>4. x \in LoadPlaces
  BY <1>1 DEF LoadAt
<1> QED
  BY <1>3, <1>4 DEF LQPlaces, LoadPlaces

LEMMA StorePlaced ==
  ASSUME MemInv(cpu, {}), NEW s \in SQSlots
  PROVE  SQPlaces(s) = IF cpu.SQ[s].id = 0 THEN 0 ELSE 1
<1>1. PICK x : StoreAt(cpu, s, x)
  BY DEF MemInv, StoreSlot
<1>2. /\ Count(cpu.RTS0, s) = In(s, ToSet(cpu.RTS0)) /\ Count(cpu.RTS1, s) = In(s, ToSet(cpu.RTS1))
      /\ Count(cpu.dtlb_processed, <<"SQ", s>>) = In(<<"SQ", s>>, ToSet(cpu.dtlb_processed))
  <2>1. Queue(cpu.RTS0, SQSlots) /\ Queue(cpu.RTS1, SQSlots) /\ Queue(cpu.dtlb_processed, Packets)
    BY DEF MemInv, Queues
  <2> QED
    BY <2>1, CountIs
<1>3. /\ Count(cpu.RTS0, s) = (IF x = "RTS0" THEN 1 ELSE 0)
      /\ Count(cpu.RTS1, s) = (IF x = "RTS1" THEN 1 ELSE 0)
      /\ Count(cpu.dtlb_processed, <<"SQ", s>>) = (IF x = "dtlb_processed" THEN 1 ELSE 0)
      /\ In(<<"SQ", s>>, cpu.dtlb) = (IF x = "dtlb" THEN 1 ELSE 0)
      /\ (IF cpu.SQ[s].fetched THEN 1 ELSE 0) = (IF x = "fetched" THEN 1 ELSE 0)
      /\ cpu.SQ[s].id = 0 <=> x = "free"
  BY <1>1, <1>2 DEF StoreAt, In
<1>4. x \in StorePlaces
  BY <1>1 DEF StoreAt
<1> QED
  BY <1>3, <1>4 DEF SQPlaces, StorePlaces

(* A slot of either queue belongs to one unfinished instruction and is at    *)
(* one place, the loads that wait for a store are where it expects them, and *)
(* the counters that start the completion loop are exact, for every program  *)
(* and every size.                                                           *)
THEOREM SlotsAlwaysOwned == Spec => []SlotsOwned
<1>1. CoreInv => SlotsOwned
  <2> SUFFICES ASSUME CoreInv  PROVE SlotsOwned
    OBVIOUS
  <2>1. RobInv(cpu) /\ RegInv(cpu) /\ MemInv(cpu, {})
    BY DEF CoreInv, RegisterInv
  <2>2. ASSUME NEW s \in LQSlots, NEW i, i = cpu.LQ[s].id
        PROVE  IF i = 0 THEN LQPlaces(s) = 0
               ELSE /\ LQPlaces(s) = 1 /\ i \in Rob(cpu) /\ IsLoad(i)
                    /\ cpu.entry[i].num_mem_ops = 1 /\ cpu.entry[i].lq_index = s
    <3>1. LQPlaces(s) = IF i = 0 THEN 0 ELSE 1
      BY <2>1, <2>2, LoadPlaced
    <3>2. i # 0 => LoadOwner(cpu, {}, s, i)
      BY <2>1, <2>2, OwnerOf
    <3> QED
      BY <3>1, <3>2 DEF LoadOwner
  <2>3. ASSUME NEW s \in SQSlots, NEW i, i = cpu.SQ[s].id
        PROVE  IF i = 0 THEN SQPlaces(s) = 0
               ELSE /\ SQPlaces(s) = 1 /\ i \in Rob(cpu) /\ IsStore(i) /\ cpu.entry[i].sq_index = s
                    /\ cpu.entry[i].num_mem_ops = IF cpu.SQ[s].fetched THEN 0 ELSE 1
    <3>1. SQPlaces(s) = IF i = 0 THEN 0 ELSE 1
      BY <2>1, <2>3, StorePlaced
    <3>2. i # 0 => StoreOwner(cpu, {}, s, i)
      BY <2>1, <2>3, OwnerOf
    <3> QED
      BY <3>1, <3>2 DEF StoreOwner
  <2>4. ASSUME NEW p \in Rob(cpu), cpu.entry[p].num_mem_ops > 0,
               NEW i \in cpu.entry[p].memory_instrs_depend_on_me
        PROVE  cpu.LQ[cpu.entry[i].lq_index] = [id |-> i, producer_id |-> p]
    <3>1. MemEntry(cpu, {}, p)
      BY <2>1, RobIs DEF MemInv
    <3>2. Depends(cpu, p, i) /\ cpu.entry[p].num_mem_ops = 1
      BY <2>4, <3>1 DEF MemEntry
    <3>3. PICK s, l : s = cpu.entry[i].lq_index /\ l = cpu.LQ[s]
      OBVIOUS
    <3>4. s \in LQSlots /\ l.id = i /\ l.producer_id = p
      BY <3>2, <3>3 DEF Depends
    <3>5. l \in [id: Ids \cup {0}, producer_id: Ids \cup {0}]
      BY <2>1, <3>3, <3>4 DEF MemInv, LoadSlot
    <3>6. l = [id |-> i, producer_id |-> p]
      BY <3>4, <3>5
    <3> QED
      BY <3>3, <3>6
  <2>5. cpu.inflight_mem_executions =
          Cardinality({i \in Rob(cpu) : /\ IsMemory(i) /\ cpu.entry[i].num_mem_ops = 0
                                        /\ cpu.entry[i].executed # "COMPLETED"})
    BY <2>1 DEF MemInv, Done
  <2>6. cpu.inflight_reg_executions =
          Cardinality({i \in Rob(cpu) : ~IsMemory(i) /\ cpu.entry[i].executed = "INFLIGHT"})
    BY <2>1 DEF RegInv, InFlight
  <2> QED
    BY <2>2, <2>3, <2>4, <2>5, <2>6 DEF SlotsOwned
<1> QED
  BY <1>1, CoreAlways, PTL

=============================================================================
