---------------------- MODULE SimpleTraceRecordProofs ----------------------
(***************************************************************************)
(* The records of the simple trace backend, for any number of producers    *)
(* and events, any buffer length and any index width: claims tile the      *)
(* window, records are written whole and in claim order, no stray word is  *)
(* taken for a record, and a flush writes what it owes.                    *)
(*                                                                         *)
(* The argument is over the ring as the writer sees it: cell x is the word *)
(* x behind writeout_idx, claim i starts at Start(i).  RecordInv says of   *)
(* every cell what it holds; a producer's store moves one cell, a          *)
(* WriteRecord turns the ring by one record.  Facts about Offsets, a       *)
(* recursive function of the claims, go by the least index at which they   *)
(* would fail.                                                             *)
(*                                                                         *)
(* Two assumptions on scheduling are used: a thread holding an old_idx is  *)
(* not lapped by a whole index width less one buffer (MaxIdxAge), and a    *)
(* thread inside trace_record_finish not by a buffer: NotLapped, which is  *)
(* a hypothesis of every theorem here.                                     *)
(***************************************************************************)
EXTENDS SimpleTraceProofs, NaturalsInduction, WellFoundedInduction

(* The quotient and the remainder determine a number.                      *)
LEMMA DivMod ==
  ASSUME NEW a \in Int, NEW n \in Int, n > 0
  PROVE  /\ a \div n \in Int /\ (a % n) \in 0 .. n - 1
         /\ a = n * (a \div n) + (a % n)
<1>1. a \div n \in Int /\ (a % n) \in 0 .. n - 1
  OBVIOUS
<1>2. a = n * (a \div n) + (a % n)
  BY SMT
<1> QED
  BY <1>1, <1>2, Zenon

(* Multiples of n that are closer to 0 than n.                             *)
LEMMA SmallMultiple ==
  ASSUME NEW n \in Nat \ {0}, NEW k \in Int, -n < n * k, n * k < n
  PROVE  k = 0
<1>1. CASE k >= 1
  <2>1. n * k >= n
    BY <1>1
  <2> QED
    BY <2>1
<1>2. CASE k <= -1
  <2>1. n * k <= -n
    BY <1>2
  <2> QED
    BY <2>1
<1> QED
  BY <1>1, <1>2

(* A remainder is the only one.                                            *)
LEMMA ModUnique ==
  ASSUME NEW n \in Nat \ {0}, NEW a \in Int, NEW q \in Int, NEW r \in 0 .. n - 1,
         a = n * q + r
  PROVE  (a % n) = r
<1> DEFINE d == (a \div n) - q
<1>1. a \div n \in Int /\ (a % n) \in 0 .. n - 1 /\ a = n * (a \div n) + (a % n)
  BY DivMod
<1>2. n * d = r - (a % n)
  <2>1. ASSUME NEW x \in Int, NEW s \in Int, a = n * x + s
        PROVE  n * (x - q) = r - s
    BY <2>1
  <2>2. (a % n) \in Int
    BY <1>1
  <2> QED
    BY <1>1, <2>1, <2>2, Zenon
<1>3. d \in Int /\ n * d \in Int
  BY <1>1
<1> HIDE DEF d
<1>4. -n < n * d /\ n * d < n
  BY <1>1, <1>2
<1>5. d = 0
  BY <1>3, <1>4, SmallMultiple
<1>6. n * d = 0
  BY <1>5
<1> QED
  BY <1>1, <1>2, <1>6

(* Buffer positions repeat after the width of an index (simple.c: both are *)
(* powers of two).                                                         *)
LEMMA SlotWraps ==
  ASSUME NEW a \in Nat
  PROVE  Slot(a + UIntRange) = Slot(a) /\ Slot(a + TRACE_BUF_LEN) = Slot(a)
<1> DEFINE T == TRACE_BUF_LEN
           U == UIntRange
<1>1. T \in Nat \ {0} /\ U \in Nat /\ (U % T) = 0
  BY BufferAssumption
<1>2. Slot(a + U) = (a + U) % T /\ Slot(a + T) = (a + T) % T /\ Slot(a) = (a % T)
  BY DEF Slot
<1> HIDE DEF T, U
<1>3. /\ a \div T \in Int /\ (a % T) \in 0 .. T - 1 /\ a = T * (a \div T) + (a % T)
      /\ U \div T \in Int /\ U = T * (U \div T) + (U % T)
  BY <1>1, DivMod
<1>4. a + U = T * ((a \div T) + (U \div T)) + (a % T)
  <2>1. \A x \in Int, y \in Int : T * (x + y) = T * x + T * y
    BY <1>1
  <2> QED
    BY <1>1, <1>3, <2>1
<1>5. a + T = T * ((a \div T) + 1) + (a % T)
  <2>1. \A x \in Int : T * (x + 1) = T * x + T
    BY <1>1
  <2> QED
    BY <1>1, <1>3, <2>1
<1>6. /\ (a \div T) + (U \div T) \in Int /\ (a \div T) + 1 \in Int
      /\ a + U \in Int /\ a + T \in Int
  BY <1>1, <1>3
<1>7. (a + U) % T = (a % T)
  BY <1>1, <1>3, <1>4, <1>6, ModUnique, Zenon
<1>8. (a + T) % T = (a % T)
  BY <1>1, <1>3, <1>5, <1>6, ModUnique, Zenon
<1> QED
  BY <1>2, <1>7, <1>8 DEF T, U

(* Words less than a buffer apart have slots of their own.                 *)
LEMMA SlotInjective ==
  ASSUME NEW a \in Nat, NEW b \in Nat, a - b < TRACE_BUF_LEN, b - a < TRACE_BUF_LEN,
         Slot(a) = Slot(b)
  PROVE  a = b
<1> DEFINE T == TRACE_BUF_LEN
           d == (a \div T) - (b \div T)
<1>1. T \in Nat \ {0} /\ (a % T) = (b % T)
  BY BufferAssumption DEF Slot
<1>2. a - b < T /\ b - a < T
  OBVIOUS
<1> HIDE DEF T
<1>3. /\ a \div T \in Int /\ a = T * (a \div T) + (a % T)
      /\ b \div T \in Int /\ b = T * (b \div T) + (b % T)
      /\ (a % T) \in 0 .. T - 1
  BY <1>1, DivMod
<1>4. T * d = a - b
  <2>1. ASSUME NEW x \in Int, NEW y \in Int, NEW r \in Int, a = T * x + r, b = T * y + r
        PROVE  T * (x - y) = a - b
    BY <1>1, <2>1
  <2>2. (a % T) \in Int
    BY <1>3
  <2> QED
    BY <1>1, <1>3, <2>1, <2>2, Zenon
<1>5. d \in Int
  BY <1>3
<1> HIDE DEF d
<1>6. d = 0
  BY <1>1, <1>2, <1>4, <1>5, SmallMultiple
<1>7. T * d = 0
  BY <1>1, <1>6
<1> QED
  BY <1>4, <1>7

(* Unsigned sums and differences without the remainder.                    *)
LEMMA Unsigned ==
  ASSUME NEW a \in Indexes, NEW b \in Indexes
  PROVE  /\ UAdd(a, b) = IF a + b < UIntRange THEN a + b ELSE a + b - UIntRange
         /\ USub(a, b) = IF a >= b THEN a - b ELSE a - b + UIntRange
<1> DEFINE U == UIntRange
<1>1. U \in Nat \ {0} /\ a \in 0 .. U - 1 /\ b \in 0 .. U - 1
  BY BufferAssumption DEF Indexes
<1>2. UAdd(a, b) = (a + b) % U /\ USub(a, b) = (a - b) % U
  BY DEF UAdd, USub
<1> HIDE DEF U
<1>3. a + b < U => (a + b) % U = a + b
  BY <1>1, ModUnique, a + b = U * 0 + (a + b)
<1>4. a + b >= U => (a + b) % U = a + b - U
  BY <1>1, ModUnique, a + b = U * 1 + (a + b - U)
<1>5. a >= b => (a - b) % U = a - b
  BY <1>1, ModUnique, a - b = U * 0 + (a - b)
<1>6. a < b => (a - b) % U = a - b + U
  BY <1>1, ModUnique, a - b = U * (-1) + (a - b + U)
<1> QED
  BY <1>1, <1>2, <1>3, <1>4, <1>5, <1>6 DEF U

(* Moving an index forward moves its distance from another one.            *)
LEMMA Advance ==
  ASSUME NEW a \in Indexes, NEW b \in Indexes, NEW l \in Nat, USub(a, b) + l < UIntRange
  PROVE  /\ USub(a, b) \in Nat /\ UAdd(a, l) \in Indexes /\ USub(UAdd(a, l), b) = USub(a, b) + l
<1>1. /\ UIntRange \in Nat /\ a \in Nat /\ b \in Nat /\ a < UIntRange /\ b < UIntRange
      /\ \A x \in Nat : x < UIntRange => x \in Indexes
  BY BufferAssumption DEF Indexes
<1>2. USub(a, b) = IF a >= b THEN a - b ELSE a - b + UIntRange
  BY Unsigned
<1>3. l \in Indexes
  BY <1>1, <1>2
<1>4. UAdd(a, l) = IF a + l < UIntRange THEN a + l ELSE a + l - UIntRange
  BY <1>3, Unsigned
<1>5. UAdd(a, l) \in Indexes /\ UAdd(a, l) \in Nat
  BY <1>1, <1>3, <1>4 DEF Indexes
<1> DEFINE c == UAdd(a, l)
<1>6. USub(c, b) = IF c >= b THEN c - b ELSE c - b + UIntRange
  BY <1>5, Unsigned
<1> HIDE DEF c
<1>7. USub(c, b) = USub(a, b) + l
  BY <1>1, <1>2, <1>4, <1>6 DEF c
<1> QED
  BY <1>1, <1>2, <1>5, <1>7 DEF c

(* Moving the index behind forward shortens the distance.                  *)
LEMMA Retreat ==
  ASSUME NEW a \in Indexes, NEW b \in Indexes, NEW l \in Nat, l <= USub(a, b)
  PROVE  /\ UAdd(b, l) \in Indexes /\ USub(a, UAdd(b, l)) = USub(a, b) - l
<1>1. /\ UIntRange \in Nat /\ a \in Nat /\ b \in Nat /\ a < UIntRange /\ b < UIntRange
      /\ \A x \in Nat : x < UIntRange => x \in Indexes
  BY BufferAssumption DEF Indexes
<1>2. USub(a, b) = IF a >= b THEN a - b ELSE a - b + UIntRange
  BY Unsigned
<1>3. l \in Indexes
  BY <1>1, <1>2
<1>4. UAdd(b, l) = IF b + l < UIntRange THEN b + l ELSE b + l - UIntRange
  BY <1>3, Unsigned
<1>5. UAdd(b, l) \in Indexes /\ UAdd(b, l) \in Nat
  BY <1>1, <1>3, <1>4 DEF Indexes
<1> DEFINE c == UAdd(b, l)
<1>6. USub(a, c) = IF a >= c THEN a - c ELSE a - c + UIntRange
  BY <1>5, Unsigned
<1> HIDE DEF c
<1>7. USub(a, c) = USub(a, b) - l
  BY <1>1, <1>2, <1>4, <1>6 DEF c
<1> QED
  BY <1>5, <1>7 DEF c

(* An index is where its distance from writeout_idx says.                  *)
LEMMA FromDistance ==
  ASSUME NEW a \in Indexes, NEW b \in Indexes
  PROVE  USub(a, b) \in Indexes /\ a = UAdd(b, USub(a, b))
<1>1. /\ UIntRange \in Nat /\ a \in Nat /\ b \in Nat /\ a < UIntRange /\ b < UIntRange
  BY BufferAssumption DEF Indexes
<1>2. USub(a, b) = IF a >= b THEN a - b ELSE a - b + UIntRange
  BY Unsigned
<1>3. USub(a, b) \in Indexes
  BY <1>1, <1>2 DEF Indexes
<1> DEFINE c == USub(a, b)
<1>4. UAdd(b, c) = IF b + c < UIntRange THEN b + c ELSE b + c - UIntRange
  BY <1>3, Unsigned
<1> HIDE DEF c
<1>5. UAdd(b, c) = a
  BY <1>1, <1>2, <1>4 DEF c
<1> QED
  BY <1>3, <1>5 DEF c

(* A place in the window from the old and the new writeout_idx.            *)
LEMMA UAddMoves ==
  ASSUME NEW a \in Indexes, NEW l \in Nat, NEW s \in Nat, l <= s, s < UIntRange
  PROVE  UAdd(UAdd(a, l), s - l) = UAdd(a, s)
<1>1. /\ UIntRange \in Nat /\ a \in Nat /\ a < UIntRange
      /\ \A x \in Nat : x < UIntRange => x \in Indexes
  BY BufferAssumption DEF Indexes
<1>2. l \in Indexes /\ s \in Indexes /\ s - l \in Indexes
  BY <1>1
<1>3. /\ UAdd(a, l) = IF a + l < UIntRange THEN a + l ELSE a + l - UIntRange
      /\ UAdd(a, s) = IF a + s < UIntRange THEN a + s ELSE a + s - UIntRange
  BY <1>2, Unsigned
<1> DEFINE c == UAdd(a, l)
<1>4. c \in Indexes
  BY <1>1, <1>2, <1>3 DEF Indexes
<1>5. UAdd(c, s - l) = IF c + (s - l) < UIntRange THEN c + (s - l) ELSE c + (s - l) - UIntRange
  BY <1>2, <1>4, Unsigned
<1> HIDE DEF c
<1>6. UAdd(c, s - l) = UAdd(a, s)
  BY <1>1, <1>3, <1>5 DEF c
<1> QED
  BY <1>6 DEF c

(* Index arithmetic is arithmetic of positions in trace_buf.               *)
LEMMA SlotUAdd ==
  ASSUME NEW a \in Indexes, NEW b \in 0 .. TRACE_BUF_LEN, NEW k \in Nat
  PROVE  Slot(UAdd(a, b) + k) = Slot(a + b + k)
<1>1. b \in Indexes /\ a \in Nat /\ b \in Nat
  BY BufferAssumption DEF Indexes
<1>2. CASE a + b < UIntRange
  BY <1>1, <1>2, Unsigned
<1>3. CASE a + b >= UIntRange
  <2>1. UAdd(a, b) = a + b - UIntRange
    BY <1>1, <1>3, Unsigned, BufferAssumption
  <2>2. a + b - UIntRange + k \in Nat
    BY <1>1, <1>3, BufferAssumption
  <2>3. a + b - UIntRange + k + UIntRange = a + b + k
    BY <1>1, BufferAssumption
  <2> QED
    BY <2>1, <2>2, <2>3, SlotWraps
<1> QED
  BY <1>1, <1>2, <1>3, BufferAssumption

---------------------------------------------------------------------------
(***************************************************************************)
(* Where claims start.                                                     *)
(***************************************************************************)
(* A set of numbers that is not empty has a least one.                     *)
LEMMA LeastOf ==
  ASSUME NEW S \in SUBSET Nat, S # {}
  PROVE  \E m \in S : \A k \in S : m <= k
<1>1. PICK m \in S : \A k \in S : ~ (<<k, m>> \in OpToRel(<, Nat))
  BY NatLessThanWellFounded, WFMin
<1>2. \A k \in S : ~ (k < m)
  BY <1>1 DEF OpToRel
<1> QED
  BY <1>2

(* f sums up the lengths L of n pieces.                                    *)
Sums(f, n, L) ==
  /\ f \in [0 .. n -> Nat]
  /\ f[0] = 0
  /\ \A i \in 1 .. n : f[i] = f[i - 1] + L[i]

(* There is such a sum ...                                                 *)
LEMMA SumsExist ==
  ASSUME NEW n \in Nat, NEW L \in [1 .. n -> Nat]
  PROVE  \E f : Sums(f, n, L)
<1> DEFINE S == {m \in 0 .. n : ~ \E f : Sums(f, m, L)}
<1>1. CASE S = {}
  <2>1. n \in 0 .. n
    OBVIOUS
  <2> QED
    BY <1>1, <2>1, Zenon
<1>2. CASE S # {}
  <2>0. S \in SUBSET Nat
    OBVIOUS
  <2>1. PICK m \in S : \A k \in S : m <= k
    BY <1>2, <2>0, LeastOf, Zenon
  <2>2. m \in 0 .. n /\ ~ \E f : Sums(f, m, L)
    OBVIOUS
  <2>3. m # 0
    <3>1. Sums([i \in 0 .. 0 |-> 0], 0, L)
      BY DEF Sums
    <3> QED
      BY <2>2, <3>1
  <2>4. m - 1 \in 0 .. n /\ m - 1 \notin S
    BY <2>1, <2>2, <2>3
  <2>5. PICK f : Sums(f, m - 1, L)
    BY <2>4
  <2> DEFINE g == [i \in 0 .. m |-> IF i = m THEN f[m - 1] + L[m] ELSE f[i]]
  <2>6. L[m] \in Nat /\ f[m - 1] \in Nat
    BY <2>2, <2>3, <2>5 DEF Sums
  <2>7. g \in [0 .. m -> Nat] /\ g[0] = 0
    BY <2>2, <2>3, <2>5, <2>6 DEF Sums
  <2>8. \A i \in 1 .. m : g[i] = g[i - 1] + L[i]
    BY <2>2, <2>3, <2>5, <2>6 DEF Sums
  <2> HIDE DEF g
  <2>9. Sums(g, m, L)
    BY <2>7, <2>8 DEF Sums
  <2> QED
    BY <2>2, <2>9
<1> QED
  BY <1>1, <1>2

(* ... only one ...                                                        *)
LEMMA SumsUnique ==
  ASSUME NEW n \in Nat, NEW L \in [1 .. n -> Nat],
         NEW f, NEW g, Sums(f, n, L), Sums(g, n, L)
  PROVE  f = g
<1> DEFINE S == {m \in 0 .. n : f[m] # g[m]}
<1>1. CASE S = {}
  <2>1. \A m \in 0 .. n : f[m] = g[m]
    BY <1>1
  <2> QED
    BY <2>1 DEF Sums
<1>2. CASE S # {}
  <2>0. S \in SUBSET Nat
    OBVIOUS
  <2>1. PICK m \in S : \A k \in S : m <= k
    BY <1>2, <2>0, LeastOf, Zenon
  <2>2. m \in 1 .. n
    BY DEF Sums
  <2>3. m - 1 \in 0 .. n /\ m - 1 \notin S
    BY <2>1, <2>2
  <2>4. f[m - 1] = g[m - 1]
    BY <2>3
  <2> QED
    BY <2>2, <2>4 DEF Sums
<1> QED
  BY <1>1, <1>2

(* ... and it never decreases.                                             *)
LEMMA SumsGrow ==
  ASSUME NEW n \in Nat, NEW L \in [1 .. n -> Nat], NEW f, Sums(f, n, L),
         NEW i \in 0 .. n, NEW j \in i .. n
  PROVE  f[i] <= f[j]
<1> DEFINE S == {m \in i .. n : ~ (f[i] <= f[m])}
<1>1. CASE S = {}
  BY <1>1
<1>2. CASE S # {}
  <2>0. S \in SUBSET Nat
    OBVIOUS
  <2>1. PICK m \in S : \A k \in S : m <= k
    BY <1>2, <2>0, LeastOf, Zenon
  <2>2. f[i] \in Nat /\ m # i
    BY DEF Sums
  <2>3. m - 1 \in i .. n /\ m - 1 \notin S
    BY <2>1, <2>2
  <2>4. f[i] <= f[m - 1]
    BY <2>3
  <2>5. f[m] = f[m - 1] + L[m] /\ L[m] \in Nat /\ f[m - 1] \in Nat
    BY <2>2, <2>3 DEF Sums
  <2> QED
    BY <2>2, <2>4, <2>5
<1> QED
  BY <1>1, <1>2

(* The lengths of the claimed records.                                     *)
Lengths(claims) == [i \in 1 .. Len(claims) |-> RecLen(claims[i].ev)]

(* A claimed record has a header and fits the buffer.                      *)
LEMMA LengthsType ==
  ASSUME NEW claims \in Seq(Claim)
  PROVE  /\ Len(claims) \in Nat
         /\ Lengths(claims) \in [1 .. Len(claims) -> HeaderWords .. TRACE_BUF_LEN]
         /\ Lengths(claims) \in [1 .. Len(claims) -> Nat]
<1>1. Len(claims) \in Nat /\ \A i \in 1 .. Len(claims) : claims[i] \in Claim
  OBVIOUS
<1>2. \A i \in 1 .. Len(claims) : RecLen(claims[i].ev) \in HeaderWords .. TRACE_BUF_LEN
  BY <1>1, RecLenType DEF Claim
<1>3. HeaderWords .. TRACE_BUF_LEN \subseteq Nat
  BY BufferAssumption DEF HeaderWords
<1>4. Lengths(claims) \in [1 .. Len(claims) -> HeaderWords .. TRACE_BUF_LEN]
  BY <1>2 DEF Lengths
<1> QED
  BY <1>1, <1>3, <1>4

(* The recursive function Offsets is that sum.                             *)
LEMMA SumsAreOffsets ==
  ASSUME NEW claims \in Seq(Claim), NEW f
  PROVE  Sums(f, Len(claims), Lengths(claims)) <=> f = Offsets(claims)
<1> DEFINE n == Len(claims)
           E(g) == [i \in 0 .. n |-> IF i = 0 THEN 0 ELSE g[i - 1] + RecLen(claims[i].ev)]
<1>1. n \in Nat /\ Lengths(claims) \in [1 .. n -> Nat]
  BY LengthsType
<1>2. Offsets(claims) = CHOOSE g : g = E(g)
  BY Zenon DEF Offsets
<1>3. ASSUME NEW g, Sums(g, n, Lengths(claims)) PROVE g = E(g)
  BY <1>1, <1>3 DEF Sums, Lengths
<1>4. PICK g : Sums(g, n, Lengths(claims))
  BY <1>1, SumsExist
<1>5. Offsets(claims) = E(Offsets(claims))
  BY <1>2, <1>3, <1>4, Zenon
<1>6. Sums(Offsets(claims), n, Lengths(claims))
  <2> DEFINE o == Offsets(claims)
             S == {m \in 0 .. n : o[m] # g[m]}
  <2>0. o = E(o) /\ g = E(g)
    BY <1>5, <1>4, <1>3
  <2> HIDE DEF o
  <2>a. \A i \in 0 .. n : o[i] = IF i = 0 THEN 0 ELSE o[i - 1] + RecLen(claims[i].ev)
    BY <2>0
  <2>b. \A i \in 0 .. n : g[i] = IF i = 0 THEN 0 ELSE g[i - 1] + RecLen(claims[i].ev)
    BY <2>0
  <2>1. CASE S = {}
    <3>1. \A m \in 0 .. n : o[m] = g[m]
      BY <2>1
    <3>2. o = [i \in 0 .. n |-> o[i]] /\ g = [i \in 0 .. n |-> g[i]]
      BY <2>0
    <3>3. o = g
      BY <3>1, <3>2
    <3> QED
      BY <1>4, <3>3 DEF o
  <2>2. CASE S # {}
    <3>0. S \in SUBSET Nat
      BY <1>1
    <3>1. PICK m \in S : \A k \in S : m <= k
      BY <2>2, <3>0, LeastOf, Zenon
    <3>2. m \in 1 .. n
      BY <1>1, <2>a, <2>b
    <3>3. m - 1 \in 0 .. n /\ m - 1 \notin S
      BY <1>1, <3>1, <3>2
    <3>4. o[m - 1] = g[m - 1]
      BY <3>3
    <3> QED
      BY <1>1, <2>a, <2>b, <3>2, <3>4
  <2> QED
    BY <2>1, <2>2
<1> QED
  BY <1>1, <1>6, SumsUnique

(* Each claim starts where the one before it ends.                         *)
LEMMA OffsetsOf ==
  ASSUME NEW claims \in Seq(Claim)
  PROVE  /\ Len(claims) \in Nat
         /\ Offsets(claims) \in [0 .. Len(claims) -> Nat]
         /\ Offsets(claims)[0] = 0
         /\ \A i \in 1 .. Len(claims) :
              /\ claims[i] \in Claim
              /\ RecLen(claims[i].ev) \in HeaderWords .. TRACE_BUF_LEN
              /\ Offsets(claims)[i] = Offsets(claims)[i - 1] + RecLen(claims[i].ev)
         /\ \A i \in 0 .. Len(claims) : \A j \in i .. Len(claims) :
              Offsets(claims)[i] <= Offsets(claims)[j]
<1>1. Sums(Offsets(claims), Len(claims), Lengths(claims))
  BY SumsAreOffsets
<1>2. /\ Len(claims) \in Nat
      /\ Lengths(claims) \in [1 .. Len(claims) -> HeaderWords .. TRACE_BUF_LEN]
      /\ Lengths(claims) \in [1 .. Len(claims) -> Nat]
  BY LengthsType
<1>3. \A i \in 1 .. Len(claims) : claims[i] \in Claim
  OBVIOUS
<1>4. \A i \in 1 .. Len(claims) : Lengths(claims)[i] = RecLen(claims[i].ev)
  BY DEF Lengths
<1>5. \A i \in 0 .. Len(claims) : \A j \in i .. Len(claims) :
        Offsets(claims)[i] <= Offsets(claims)[j]
  BY <1>1, <1>2, SumsGrow
<1> QED
  BY <1>1, <1>2, <1>3, <1>4, <1>5 DEF Sums

(* A new claim starts at the end of the others.                            *)
LEMMA OffsetsAppend ==
  ASSUME NEW claims \in Seq(Claim), NEW c \in Claim
  PROVE  /\ \A i \in 0 .. Len(claims) : Offsets(Append(claims, c))[i] = Offsets(claims)[i]
         /\ Offsets(Append(claims, c))[Len(claims) + 1] =
              Offsets(claims)[Len(claims)] + RecLen(c.ev)
<1> DEFINE n == Len(claims)
           o == Offsets(claims)
           d == Append(claims, c)
           f == [i \in 0 .. n + 1 |-> IF i = n + 1 THEN o[n] + RecLen(c.ev) ELSE o[i]]
<1>1. d \in Seq(Claim) /\ Len(d) = n + 1 /\ d[n + 1] = c /\ \A i \in 1 .. n : d[i] = claims[i]
  OBVIOUS
<1>2. /\ n \in Nat /\ o \in [0 .. n -> Nat] /\ o[0] = 0
      /\ \A i \in 1 .. n : o[i] = o[i - 1] + RecLen(claims[i].ev)
  BY OffsetsOf
<1>3. RecLen(c.ev) \in Nat
  BY RecLenType, BufferAssumption DEF Claim, HeaderWords
<1>4. Sums(f, n + 1, Lengths(d))
  <2>1. f \in [0 .. n + 1 -> Nat] /\ f[0] = 0
    BY <1>2, <1>3
  <2>2. \A i \in 1 .. n + 1 : Lengths(d)[i] = RecLen(d[i].ev)
    BY <1>1, <1>2 DEF Lengths
  <2> HIDE DEF d
  <2>3. \A i \in 1 .. n + 1 : f[i] = f[i - 1] + RecLen(d[i].ev)
    BY <1>1, <1>2, <1>3
  <2> QED
    BY <2>1, <2>2, <2>3 DEF Sums
<1>5. f = Offsets(d)
  BY <1>1, <1>4, SumsAreOffsets
<1> QED
  BY <1>2, <1>5

(* When the oldest claim is written out the others move up by its length.  *)
LEMMA OffsetsTail ==
  ASSUME NEW claims \in Seq(Claim), claims # <<>>
  PROVE  /\ Tail(claims) \in Seq(Claim) /\ Len(Tail(claims)) = Len(claims) - 1
         /\ \A i \in 1 .. Len(claims) - 1 : Tail(claims)[i] = claims[i + 1]
         /\ \A i \in 0 .. Len(claims) - 1 :
              Offsets(Tail(claims))[i] = Offsets(claims)[i + 1] - RecLen(claims[1].ev)
<1> DEFINE n == Len(claims)
           o == Offsets(claims)
           d == Tail(claims)
           f == [i \in 0 .. n - 1 |-> o[i + 1] - o[1]]
<1>1. /\ d \in Seq(Claim) /\ Len(d) = n - 1 /\ n >= 1
      /\ \A i \in 1 .. n - 1 : d[i] = claims[i + 1]
  OBVIOUS
<1>2. /\ n \in Nat /\ o \in [0 .. n -> Nat] /\ o[0] = 0
      /\ \A i \in 1 .. n : o[i] = o[i - 1] + RecLen(claims[i].ev)
      /\ \A i \in 1 .. n : RecLen(claims[i].ev) \in HeaderWords .. TRACE_BUF_LEN
      /\ \A i \in 0 .. n : \A j \in i .. n : o[i] <= o[j]
  BY OffsetsOf
<1>3. o[1] = RecLen(claims[1].ev)
  BY <1>1, <1>2, BufferAssumption
<1>4. Sums(f, n - 1, Lengths(d))
  <2>1. \A i \in 1 .. n - 1 : Lengths(d)[i] = RecLen(d[i].ev)
    BY <1>1, <1>2 DEF Lengths
  <2>2. \A i \in 1 .. n - 1 : RecLen(d[i].ev) = o[i + 1] - o[i]
    <3>1. \A i \in 1 .. n - 1 : o[i + 1] = o[i] + RecLen(claims[i + 1].ev)
      BY <1>1, <1>2
    <3>2. \A i \in 1 .. n - 1 : RecLen(claims[i + 1].ev) \in Nat /\ o[i] \in Nat
      BY <1>1, <1>2, BufferAssumption DEF HeaderWords
    <3> QED
      BY <1>1, <3>1, <3>2
  <2> HIDE DEF d, o, n
  <2>3. \A i \in 0 .. n - 1 : f[i] = o[i + 1] - o[1] /\ o[i + 1] - o[1] \in Nat
    BY <1>1, <1>2
  <2>4. DOMAIN f = 0 .. n - 1 /\ f = [i \in 0 .. n - 1 |-> f[i]]
    OBVIOUS
  <2> HIDE DEF f
  <2>5. f \in [0 .. n - 1 -> Nat] /\ f[0] = 0
    <3>1. f \in [0 .. n - 1 -> Nat]
      BY <2>3, <2>4
    <3>2. 0 \in 0 .. n - 1 /\ 0 + 1 = 1 /\ o[1] \in Nat
      BY <1>1, <1>2
    <3>3. f[0] = o[1] - o[1]
      BY <2>3, <3>2
    <3> QED
      BY <3>1, <3>2, <3>3
  <2>6. \A i \in 1 .. n - 1 : f[i] = f[i - 1] + RecLen(d[i].ev)
    <3> SUFFICES ASSUME NEW i \in 1 .. n - 1 PROVE f[i] = f[i - 1] + RecLen(d[i].ev)
      OBVIOUS
    <3>1. i \in 0 .. n - 1 /\ i - 1 \in 0 .. n - 1 /\ (i - 1) + 1 = i
      BY <1>1, <1>2
    <3>2. f[i] = o[i + 1] - o[1] /\ f[i - 1] = o[i] - o[1]
      BY <2>3, <3>1
    <3>3. n \in Nat /\ n >= 1 /\ o \in [0 .. n -> Nat]
      BY <1>1, <1>2, Zenon
    <3>4. o[i + 1] \in Nat /\ o[i] \in Nat /\ o[1] \in Nat
      BY <3>3
    <3>5. RecLen(d[i].ev) = o[i + 1] - o[i]
      BY <2>2
    <3> QED
      BY <3>2, <3>4, <3>5
  <2>7. \A i \in 1 .. n - 1 : f[i] = f[i - 1] + Lengths(d)[i]
    BY <2>1, <2>6, Zenon
  <2> QED
    BY <2>5, <2>7, Zenon DEF Sums
<1>5. f = Offsets(d)
  BY <1>1, <1>4, SumsAreOffsets
<1> QED
  BY <1>1, <1>2, <1>3, <1>5

(* Finishing a claim moves nothing.                                        *)
LEMMA OffsetsSame ==
  ASSUME NEW claims \in Seq(Claim), NEW d \in Seq(Claim), Len(d) = Len(claims),
         \A i \in 1 .. Len(claims) : d[i].ev = claims[i].ev
  PROVE  Offsets(d) = Offsets(claims)
<1>1. Lengths(d) = Lengths(claims)
  BY DEF Lengths
<1> QED
  BY <1>1, SumsAreOffsets

---------------------------------------------------------------------------
(* The word x words behind writeout_idx, and where claim i starts there.   *)
Ring == [x \in Slots |-> trace_buf[Slot(writeout_idx + x)]]
Start(i) == Offsets(pending)[i - 1]
End(i)   == Offsets(pending)[i]
Window   == Offsets(pending)[Len(pending)]

(* The claims fill the window between the two indexes.                     *)
Tiled == Window = USub(trace_idx, writeout_idx) /\ Window <= TRACE_BUF_LEN

(* p is between the compare and exchange and MarkValid.                    *)
Filling(p) == pc[p] \in {"header", "args"}

(* An unfinished claim is the one its producer is filling.                 *)
Owned(i) ==
  LET p == pending[i].by
  IN  Filling(p) /\ ev[p] = pending[i].ev /\ old_idx[p] = UAdd(writeout_idx, Start(i))
Owners ==
  /\ \A i \in DOMAIN pending : ~ pending[i].done => Owned(i)
  /\ \A p \in Producers : Filling(p) =>
        \E i \in DOMAIN pending : pending[i].by = p /\ ~ pending[i].done
  /\ \A p \in Producers : pc[p] = "args" => rec_off[p] \in HeaderWords .. RecLen(ev[p])

(* The first n words of claim i are those its producer stores there.       *)
ValidWord(p, e) == [msb |-> TRUE, part |-> "event", by |-> p, ev |-> e]
StoredFrom(i, m, n) ==
  \A k \in m .. n - 1 : Ring[Start(i) + k] = Image(pending[i].by, pending[i].ev)[k + 1]
Whole(i) ==
  /\ Ring[Start(i)] = ValidWord(pending[i].by, pending[i].ev)
  /\ StoredFrom(i, 1, RecLen(pending[i].ev))
Partial(i) ==
  /\ ~ Ring[Start(i)].msb
  /\ pc[pending[i].by] = "args" => StoredFrom(i, 0, rec_off[pending[i].by])

(* Claim i in trace_buf: erased once the writer has cleared it, else whole *)
(* when finished and filled up to rec_off when not.                        *)
Erased(i) == i = 1 /\ wpc = "write"
ClaimWords(i) ==
  /\ Erased(i) => \A x \in 0 .. End(i) - 1 : ~ Ring[x].msb
  /\ ~ Erased(i) /\ pending[i].done => Whole(i)
  /\ ~ Erased(i) /\ ~ pending[i].done => Partial(i)
FreeWords == \A x \in Window .. TRACE_BUF_LEN - 1 : ~ Ring[x].msb
Words == FreeWords /\ \A i \in DOMAIN pending : ClaimWords(i)

(* An index that was read and not yet swapped in.                          *)
Ages ==
  \A p \in Producers :
    /\ pc[p] \in {"wait", "cas"} => USub(trace_idx, old_idx[p]) <= MaxIdxAge
    /\ pc[p] = "cas" /\ trace_idx = old_idx[p] => Window + RecLen(ev[p]) <= TRACE_BUF_LEN

(* Where a thread that marked its record valid stores the second word.     *)
Finished(p, i) ==
  /\ pending[i].by = p /\ pending[i].done /\ pending[i].ev = ev[p]
  /\ old_idx[p] = UAdd(writeout_idx, Start(i))
InPlace(p) ==
  /\ hdr[p] = DescWord(p, ev[p])
  /\ \/ \E i \in DOMAIN pending : Finished(p, i)
     \/ USub(trace_idx, old_idx[p]) \in Window + HeaderWords .. TRACE_BUF_LEN + 1
Rewriting == \A p \in Producers : pc[p] = "rewrite" => InPlace(p)

(* The inductive invariant: where the claims are and what every cell holds. *)
RecordInv == Tiled /\ Owners /\ Words /\ Ages /\ Rewriting /\ RecordsWrittenWhole

(* The layout of the claims within the window.                             *)
LEMMA Layout ==
  ASSUME NEW claims \in Seq(Claim)
  PROVE  /\ Len(claims) \in Nat /\ DOMAIN claims = 1 .. Len(claims)
         /\ Offsets(claims)[Len(claims)] \in Nat
         /\ Offsets(claims)[0] = 0
         /\ \A i \in DOMAIN claims :
              /\ claims[i].by \in Producers /\ claims[i].ev \in Events /\ claims[i].done \in BOOLEAN
              /\ Offsets(claims)[i - 1] \in Nat /\ Offsets(claims)[i] \in Nat
              /\ RecLen(claims[i].ev) \in Nat /\ RecLen(claims[i].ev) >= 2
              /\ Offsets(claims)[i] = Offsets(claims)[i - 1] + RecLen(claims[i].ev)
              /\ Offsets(claims)[i] <= Offsets(claims)[Len(claims)]
         /\ \A i, j \in DOMAIN claims : i < j => Offsets(claims)[i] <= Offsets(claims)[j - 1]
<1> DEFINE n == Len(claims)
           o == Offsets(claims)
<1>1. /\ n \in Nat /\ o \in [0 .. n -> Nat] /\ o[0] = 0 /\ DOMAIN claims = 1 .. n
  BY OffsetsOf
<1>2. \A i \in 1 .. n : /\ claims[i] \in Claim
                        /\ RecLen(claims[i].ev) \in HeaderWords .. TRACE_BUF_LEN
                        /\ o[i] = o[i - 1] + RecLen(claims[i].ev)
  BY OffsetsOf
<1>3. \A i \in 0 .. n : \A j \in i .. n : o[i] <= o[j]
  BY OffsetsOf
<1> HIDE DEF o, n
<1>4. \A i \in 1 .. n : o[i - 1] \in Nat /\ o[i] \in Nat /\ o[n] \in Nat
  BY <1>1
<1>5. o[n] \in Nat
  BY <1>1
<1>6. \A i \in 1 .. n : o[i] <= o[n]
  BY <1>1, <1>3
<1>7. \A i, j \in 1 .. n : i < j => o[i] <= o[j - 1]
  <2> SUFFICES ASSUME NEW i \in 1 .. n, NEW j \in 1 .. n, i < j PROVE o[i] <= o[j - 1]
    OBVIOUS
  <2>1. i \in 0 .. n /\ j - 1 \in i .. n
    BY <1>1
  <2> QED
    BY <1>3, <2>1
<1>8. \A i \in 1 .. n : RecLen(claims[i].ev) \in Nat /\ RecLen(claims[i].ev) >= 2
  BY <1>2, BufferAssumption DEF HeaderWords
<1>9. \A i \in 1 .. n : claims[i].by \in Producers /\ claims[i].ev \in Events /\ claims[i].done \in BOOLEAN
  BY <1>2 DEF Claim
<1> QED
  BY <1>1, <1>2, <1>4, <1>5, <1>6, <1>7, <1>8, <1>9 DEF o, n

(* The same of the claims that are pending.                                *)
LEMMA Geometry ==
  ASSUME TypeOK, Tiled
  PROVE  /\ Len(pending) \in Nat /\ DOMAIN pending = 1 .. Len(pending)
         /\ Window \in Nat /\ Window <= TRACE_BUF_LEN
         /\ Start(1) = 0
         /\ \A i \in DOMAIN pending :
              /\ pending[i].by \in Producers /\ pending[i].ev \in Events
              /\ pending[i].done \in BOOLEAN
              /\ Start(i) \in Nat /\ End(i) \in Nat
              /\ RecLen(pending[i].ev) \in Nat /\ RecLen(pending[i].ev) >= 2
              /\ End(i) = Start(i) + RecLen(pending[i].ev) /\ End(i) <= Window
         /\ \A i, j \in DOMAIN pending : i < j => End(i) <= Start(j)
<1>1. pending \in Seq(Claim)
  BY DEF TypeOK
<1>2. 1 - 1 = 0
  OBVIOUS
<1> QED
  BY <1>1, <1>2, Layout DEF Tiled, Window, Start, End

(* An index s words behind writeout_idx names cell s of the ring.          *)
LEMMA RingCell ==
  ASSUME TypeOK, NEW s \in Nat, NEW k \in Nat, s + k < TRACE_BUF_LEN
  PROVE  /\ Slot(UAdd(writeout_idx, s) + k) \in Slots
         /\ trace_buf[Slot(UAdd(writeout_idx, s) + k)] = Ring[s + k]
         /\ \A x \in Slots : Slot(writeout_idx + x) = Slot(UAdd(writeout_idx, s) + k) => x = s + k
<1>1. writeout_idx \in Indexes /\ writeout_idx \in Nat /\ TRACE_BUF_LEN \in Nat
  BY BufferAssumption DEF TypeOK, Indexes
<1>2. s \in 0 .. TRACE_BUF_LEN
  BY <1>1
<1>3. Slot(UAdd(writeout_idx, s) + k) = Slot(writeout_idx + s + k)
  BY <1>1, <1>2, SlotUAdd
<1>4. writeout_idx + s + k = writeout_idx + (s + k) /\ writeout_idx + (s + k) \in Nat
  BY <1>1
<1>5. s + k \in Slots
  BY <1>1 DEF Slots
<1>6. ASSUME NEW x \in Slots, Slot(writeout_idx + x) = Slot(writeout_idx + (s + k))
      PROVE  x = s + k
  <2>1. writeout_idx + x \in Nat /\ x \in Nat /\ x < TRACE_BUF_LEN
    BY <1>1 DEF Slots
  <2>2. writeout_idx + x = writeout_idx + (s + k)
    BY <1>1, <1>4, <1>6, <2>1, SlotInjective
  <2> QED
    BY <1>1, <2>1, <2>2
<1> QED
  BY <1>3, <1>4, <1>5, <1>6, SlotType DEF Ring

(* write_to_buffer to such an index changes that cell and no other.        *)
LEMMA RingWrite ==
  ASSUME TypeOK, NEW s \in Nat, NEW k \in Nat, s + k < TRACE_BUF_LEN,
         writeout_idx' = writeout_idx,
         \A y \in Slots : y # Slot(UAdd(writeout_idx, s) + k) => trace_buf'[y] = trace_buf[y]
  PROVE  \A x \in Slots : Ring'[x] = IF x = s + k
                                      THEN trace_buf'[Slot(UAdd(writeout_idx, s) + k)] ELSE Ring[x]
<1>1. /\ Slot(UAdd(writeout_idx, s) + k) \in Slots
      /\ \A x \in Slots : Slot(writeout_idx + x) = Slot(UAdd(writeout_idx, s) + k) => x = s + k
  BY RingCell
<1>2. Slot(UAdd(writeout_idx, s) + k) = Slot(writeout_idx + (s + k))
  <2>1. writeout_idx \in Indexes /\ writeout_idx \in Nat /\ s \in 0 .. TRACE_BUF_LEN
    BY BufferAssumption DEF TypeOK, Indexes
  <2>2. writeout_idx + s + k = writeout_idx + (s + k)
    BY <2>1
  <2> QED
    BY <2>1, <2>2, SlotUAdd
<1>3. \A x \in Slots : writeout_idx + x \in Nat
  BY BufferAssumption DEF TypeOK, Indexes, Slots
<1>4. \A x \in Slots : Slot(writeout_idx + x) \in Slots
  BY <1>3, SlotType
<1>5. \A x \in Slots : Ring[x] = trace_buf[Slot(writeout_idx + x)]
                       /\ Ring'[x] = trace_buf'[Slot(writeout_idx + x)]
  BY DEF Ring
<1> QED
  BY <1>1, <1>2, <1>4, <1>5

(* Indexes at different distances from writeout_idx differ.                *)
LEMMA IndexInjective ==
  ASSUME TypeOK, NEW s \in 0 .. TRACE_BUF_LEN, NEW t \in 0 .. TRACE_BUF_LEN,
         UAdd(writeout_idx, s) = UAdd(writeout_idx, t)
  PROVE  s = t
<1>1. writeout_idx \in Indexes /\ s \in Indexes /\ t \in Indexes /\ UIntRange \in Nat
  BY BufferAssumption DEF TypeOK, Indexes
<1>2. \A x \in Indexes : x \in Nat /\ x < UIntRange
  BY BufferAssumption DEF Indexes
<1> QED
  BY <1>1, <1>2, Unsigned

(* The claim a producer is filling is its only unfinished one.             *)
LEMMA OwnClaim ==
  ASSUME TypeOK, Tiled, Owners, RecordsWrittenWhole, NEW p \in Producers, Filling(p)
  PROVE  \E i \in DOMAIN pending :
           /\ pending[i].by = p /\ ~ pending[i].done /\ pending[i].ev = ev[p]
           /\ old_idx[p] = UAdd(writeout_idx, Start(i))
           /\ ~ Erased(i)
           /\ \A j \in DOMAIN pending \ {i} : pending[j].by = p => pending[j].done
<1>1. PICK i \in DOMAIN pending : pending[i].by = p /\ ~ pending[i].done
  BY DEF Owners
<1>2. pending[i].ev = ev[p] /\ old_idx[p] = UAdd(writeout_idx, Start(i))
  BY <1>1 DEF Owners, Owned
<1>3. ~ Erased(i)
  <2>1. CASE Erased(i)
    <3>1. wpc = "write" /\ i = 1
      BY <2>1 DEF Erased
    <3>2. Head(pending) = pending[1]
      BY DEF TypeOK
    <3> QED
      BY <1>1, <3>1, <3>2 DEF RecordsWrittenWhole
  <2> QED
    BY <2>1
<1>4. ASSUME NEW j \in DOMAIN pending, pending[j].by = p, ~ pending[j].done
      PROVE  j = i
  <2>1. old_idx[p] = UAdd(writeout_idx, Start(j))
    BY <1>4 DEF Owners, Owned
  <2>2. /\ Start(i) \in 0 .. TRACE_BUF_LEN /\ Start(j) \in 0 .. TRACE_BUF_LEN
        /\ i \in Nat /\ j \in Nat
    BY Geometry, BufferAssumption
  <2>3. Start(i) = Start(j)
    BY <1>2, <2>1, <2>2, IndexInjective
  <2>4. /\ i < j => End(i) <= Start(j)
        /\ j < i => End(j) <= Start(i)
        /\ End(i) > Start(i) /\ End(j) > Start(j) /\ End(i) \in Nat /\ End(j) \in Nat
    BY Geometry
  <2> QED
    BY <2>2, <2>3, <2>4
<1> QED
  BY <1>1, <1>2, <1>3, <1>4

(* Steps that touch neither the buffer, nor the indexes, nor what a thread *)
(* that fills or finishes a record works with.                             *)
Calm ==
  /\ UNCHANGED <<trace_buf, trace_idx, writeout_idx, pending, recordptr>>
  /\ wpc' \in {"clear", "write"} \/ wpc \in {"clear", "write"} => wpc' = wpc
  /\ \A q \in Producers :
       pc[q] \in {"header", "args", "rewrite"} \/ pc'[q] \in {"header", "args", "rewrite"} =>
         /\ pc'[q] = pc[q] /\ ev'[q] = ev[q] /\ old_idx'[q] = old_idx[q]
         /\ rec_off'[q] = rec_off[q] /\ hdr'[q] = hdr[q]

(* Such a step leaves the records alone.                                   *)
LEMMA CalmStep ==
  ASSUME TypeInv, RecordInv, Calm
  PROVE  Tiled' /\ Owners' /\ Words' /\ Rewriting' /\ RecordsWrittenWhole'
<1>0. /\ \A i \in DOMAIN pending : pending[i].by \in Producers
      /\ Tiled /\ Owners /\ Words /\ Rewriting /\ RecordsWrittenWhole
  BY Geometry DEF TypeInv, RecordInv
<1>1. /\ Ring' = Ring /\ Window' = Window /\ UNCHANGED <<trace_idx, writeout_idx, pending>>
      /\ \A i \in DOMAIN pending : Start(i)' = Start(i) /\ End(i)' = End(i)
  BY DEF Calm, Ring, Window, Start, End
<1>2. Tiled'
  BY <1>0, <1>1 DEF Tiled
<1>3. \A q \in Producers : (Filling(q)' <=> Filling(q)) /\ (pc'[q] = "args" <=> pc[q] = "args")
  BY DEF Calm, Filling
<1>4. \A q \in Producers : Filling(q) => /\ ev'[q] = ev[q] /\ old_idx'[q] = old_idx[q]
                                         /\ rec_off'[q] = rec_off[q]
  BY DEF Calm, Filling
<1>5. Owners'
  <2>1. ASSUME NEW i \in DOMAIN pending, ~ pending[i].done PROVE Owned(i)'
    BY <1>0, <1>1, <1>3, <1>4, <2>1 DEF Owners, Owned
  <2>2. \A q \in Producers : Filling(q)' =>
          \E i \in DOMAIN pending : pending[i].by = q /\ ~ pending[i].done
    BY <1>0, <1>3 DEF Owners
  <2>3. \A q \in Producers : pc'[q] = "args" => rec_off'[q] \in HeaderWords .. RecLen(ev'[q])
    BY <1>0, <1>3, <1>4 DEF Owners, Filling
  <2> QED
    BY <1>1, <2>1, <2>2, <2>3 DEF Owners
<1>6. Words'
  <2>1. FreeWords'
    BY <1>0, <1>1 DEF Words, FreeWords
  <2>2. ASSUME NEW i \in DOMAIN pending PROVE ClaimWords(i)'
    <3>1. ClaimWords(i) /\ pending[i].by \in Producers
      BY <1>0 DEF Words
    <3>2. Erased(i)' <=> Erased(i)
      BY DEF Calm, Erased
    <3>3. Whole(i) => Whole(i)'
      BY <1>1 DEF Whole, StoredFrom
    <3>4. ~ pending[i].done => Filling(pending[i].by)
      BY <1>0 DEF Owners, Owned
    <3>5. ~ pending[i].done /\ Partial(i) => Partial(i)'
      BY <1>1, <1>3, <1>4, <3>1, <3>4 DEF Partial, StoredFrom
    <3> QED
      BY <1>1, <3>1, <3>2, <3>3, <3>5 DEF ClaimWords
  <2> QED
    BY <1>1, <2>1, <2>2 DEF Words
<1>7. Rewriting'
  <2> SUFFICES ASSUME NEW q \in Producers, pc'[q] = "rewrite"
               PROVE  /\ hdr'[q] = DescWord(q, ev'[q])
                      /\ \/ \E i \in DOMAIN pending' : Finished(q, i)'
                         \/ USub(trace_idx', old_idx'[q]) \in Window' + HeaderWords .. TRACE_BUF_LEN + 1
    BY DEF Rewriting, InPlace
  <2>1. pc[q] = "rewrite" /\ ev'[q] = ev[q] /\ old_idx'[q] = old_idx[q] /\ hdr'[q] = hdr[q]
    BY DEF Calm
  <2>2. ASSUME NEW i \in DOMAIN pending, Finished(q, i) PROVE Finished(q, i)'
    BY <1>1, <2>1, <2>2 DEF Finished
  <2> QED
    BY <1>0, <1>1, <2>1, <2>2 DEF Rewriting, InPlace
<1>8. RecordsWrittenWhole'
  BY <1>0, <1>1 DEF Calm, RecordsWrittenWhole
<1> QED
  BY <1>2, <1>5, <1>6, <1>7, <1>8

(* Threads that wait for space or are about to swap keep their index.      *)
LEMMA AgesKept ==
  ASSUME TypeInv, Tiled, Ages, trace_idx' = trace_idx,
         Window' \in Nat, Window' <= Window,
         \A q \in Producers : pc'[q] \in {"wait", "cas"} =>
           pc'[q] = pc[q] /\ ev'[q] = ev[q] /\ old_idx'[q] = old_idx[q]
  PROVE  Ages'
<1> SUFFICES ASSUME NEW q \in Producers, pc'[q] \in {"wait", "cas"}
             PROVE  /\ USub(trace_idx', old_idx'[q]) <= MaxIdxAge
                    /\ pc'[q] = "cas" /\ trace_idx' = old_idx'[q] =>
                         Window' + RecLen(ev'[q]) <= TRACE_BUF_LEN
  BY DEF Ages
<1>1. pc'[q] = pc[q] /\ ev'[q] = ev[q] /\ old_idx'[q] = old_idx[q]
  OBVIOUS
<1>2. Window \in Nat /\ TRACE_BUF_LEN \in Nat
  BY Geometry, BufferAssumption DEF TypeInv
<1>3. RecLen(ev[q]) \in Nat
  BY <1>1, RecLenType, BufferAssumption DEF TypeInv, EventKnown, HeaderWords
<1> QED
  BY <1>1, <1>2, <1>3 DEF Ages

(* The steps of a producer outside the words it claimed.                   *)
LEMMA StartRecords ==
  ASSUME TypeInv, RecordInv, NEW p \in Producers, NEW e \in Events, StartRecord(p, e)
  PROVE  RecordInv'
<1>1. Calm
  BY DEF StartRecord, Goto, Calm, TypeInv, TypeOK
<1>2. Tiled' /\ Owners' /\ Words' /\ Rewriting' /\ RecordsWrittenWhole'
  BY <1>1, CalmStep
<1>3. Window' = Window
  BY <1>1 DEF Calm, Window
<1>4. USub(trace_idx, trace_idx) = 0 /\ MaxIdxAge \in Nat
  BY Unsigned, BufferAssumption DEF TypeInv, TypeOK, Indexes
<1>5. Ages'
  BY <1>3, <1>4 DEF StartRecord, Goto, Ages, RecordInv, TypeInv, TypeOK
<1> QED
  BY <1>2, <1>5 DEF RecordInv

(* The wait loop ends: if old_idx is still the newest index, the record    *)
(* fits.                                                                   *)
LEMMA SpaceFound ==
  ASSUME TypeInv, RecordInv, NEW p \in Producers, WaitForBuffer(p)
  PROVE  RecordInv'
<1>1. Calm
  BY DEF WaitForBuffer, Goto, Calm, TypeInv, TypeOK
<1>2. Tiled' /\ Owners' /\ Words' /\ Rewriting' /\ RecordsWrittenWhole'
  BY <1>1, CalmStep
<1>3. Window' = Window
  BY <1>1 DEF Calm, Window
<1>4. trace_idx = old_idx[p] => Window + RecLen(ev[p]) <= TRACE_BUF_LEN
  <2> SUFFICES ASSUME trace_idx = old_idx[p] PROVE Window + RecLen(ev[p]) <= TRACE_BUF_LEN
    OBVIOUS
  <2>1. ev[p] \in Events
    BY DEF WaitForBuffer, TypeInv, EventKnown
  <2> DEFINE L == RecLen(ev[p])
  <2>2. /\ L \in Nat /\ L <= TRACE_BUF_LEN /\ trace_idx \in Indexes /\ writeout_idx \in Indexes
        /\ UIntRange \in Nat /\ TRACE_BUF_LEN \in Nat /\ UIntRange > 2 * TRACE_BUF_LEN
    BY <2>1, RecLenType, BufferAssumption DEF TypeInv, TypeOK, HeaderWords
  <2>3. ~ (USub(UAdd(trace_idx, L), writeout_idx) > TRACE_BUF_LEN)
    BY DEF WaitForBuffer, NewIdx
  <2>4. Window = USub(trace_idx, writeout_idx) /\ Window <= TRACE_BUF_LEN /\ Window \in Nat
    BY Geometry DEF TypeInv, RecordInv, Tiled
  <2> HIDE DEF L
  <2>5. USub(UAdd(trace_idx, L), writeout_idx) = Window + L
    BY <2>2, <2>4, Advance
  <2> QED
    BY <2>2, <2>3, <2>4, <2>5 DEF L
<1>5. Ages'
  BY <1>3, <1>4 DEF WaitForBuffer, Goto, Ages, RecordInv, TypeInv, TypeOK
<1> QED
  BY <1>2, <1>5 DEF RecordInv

(* A lost race reads trace_idx again.                                      *)
LEMMA ClaimsFail ==
  ASSUME TypeInv, RecordInv, NEW p \in Producers, ClaimFailed(p)
  PROVE  RecordInv'
<1>1. Calm
  BY DEF ClaimFailed, Goto, Calm, TypeInv, TypeOK
<1>2. Tiled' /\ Owners' /\ Words' /\ Rewriting' /\ RecordsWrittenWhole'
  BY <1>1, CalmStep
<1>3. Window' = Window
  BY <1>1 DEF Calm, Window
<1>4. USub(trace_idx, trace_idx) = 0 /\ MaxIdxAge \in Nat
  BY Unsigned, BufferAssumption DEF TypeInv, TypeOK, Indexes
<1>5. Ages'
  BY <1>3, <1>4 DEF ClaimFailed, Goto, Ages, RecordInv, TypeInv, TypeOK
<1> QED
  BY <1>2, <1>5 DEF RecordInv

(* The end of trace_record_finish.                                         *)
LEMMA ThresholdChecked ==
  ASSUME TypeInv, RecordInv, NEW p \in Producers, CheckThreshold(p) \/ KickWriter(p)
  PROVE  RecordInv'
<1>1. Calm
  <2>1. CASE CheckThreshold(p)
    BY <2>1 DEF CheckThreshold, Goto, Calm, TypeInv, TypeOK
  <2>2. CASE KickWriter(p)
    BY <2>2 DEF KickWriter, flush_trace_file, WakeWriter, Goto, Calm, TypeInv, TypeOK
  <2> QED
    BY <2>1, <2>2
<1>2. Tiled' /\ Owners' /\ Words' /\ Rewriting' /\ RecordsWrittenWhole'
  BY <1>1, CalmStep
<1>3. Window' = Window /\ trace_idx' = trace_idx /\ Window \in Nat
  BY <1>1, Geometry DEF Calm, Window, RecordInv, TypeInv
<1>4. \A q \in Producers : pc'[q] \in {"wait", "cas"} =>
        pc'[q] = pc[q] /\ ev'[q] = ev[q] /\ old_idx'[q] = old_idx[q]
  BY DEF CheckThreshold, KickWriter, Goto, TypeInv, TypeOK
<1>5. Ages'
  BY <1>3, <1>4, AgesKept DEF RecordInv
<1> QED
  BY <1>2, <1>5 DEF RecordInv

(* The compare and exchange: a thread whose index is still the newest      *)
(* appends a claim that fits, since writeout_idx only moved on meanwhile.  *)
LEMMA SpaceClaimed ==
  ASSUME NotLapped, TypeInv, RecordInv, NEW p \in Producers, ClaimSpace(p)
  PROVE  RecordInv'
<1> DEFINE L == RecLen(ev[p])
           c == [by |-> p, ev |-> ev[p], done |-> FALSE]
<1>1. /\ Tiled /\ Owners /\ Words /\ Ages /\ Rewriting /\ RecordsWrittenWhole /\ TypeOK
      /\ pending \in Seq(Claim)
  BY DEF RecordInv, TypeInv, TypeOK
<1>2. /\ pc[p] = "cas" /\ trace_idx = old_idx[p] /\ trace_idx' = UAdd(trace_idx, L)
      /\ pending' = Append(pending, c) /\ pc' = [pc EXCEPT ![p] = "header"]
      /\ UNCHANGED <<trace_buf, writeout_idx, ev, old_idx, rec_off, hdr, wpc, recordptr>>
      /\ WithinStallBounds(p)
  BY DEF ClaimSpace, Goto, NewIdx
<1>3. ev[p] \in Events
  BY <1>2 DEF TypeInv, EventKnown
<1>4. /\ L \in Nat /\ L >= 2 /\ L <= TRACE_BUF_LEN /\ trace_idx \in Indexes /\ writeout_idx \in Indexes
      /\ UIntRange \in Nat /\ TRACE_BUF_LEN \in Nat /\ UIntRange > 2 * TRACE_BUF_LEN
  BY <1>1, <1>3, RecLenType, BufferAssumption DEF TypeOK, HeaderWords
<1>5. Window \in Nat /\ Window + L <= TRACE_BUF_LEN /\ Window = USub(trace_idx, writeout_idx)
  BY <1>1, <1>2, Geometry DEF Ages, Tiled
<1>6. c \in Claim
  BY <1>3 DEF Claim
<1>0. PICK n \in Nat : n = Len(pending)
  BY <1>1, Geometry
<1>7. n \in Nat /\ DOMAIN pending = 1 .. n /\ \A i \in DOMAIN pending : pending[i].by \in Producers
  BY <1>0, <1>1, Geometry
<1>8. /\ Len(pending') = n + 1 /\ DOMAIN pending' = 1 .. n + 1
      /\ \A i \in 1 .. n : pending'[i] = pending[i]
      /\ pending'[n + 1] = c
  BY <1>0, <1>1, <1>2, <1>6
<1>9. /\ \A i \in 0 .. n : Offsets(pending')[i] = Offsets(pending)[i]
      /\ Offsets(pending')[n + 1] = Window + L
  BY <1>0, <1>1, <1>2, <1>6, OffsetsAppend DEF Window
<1>10. Window' = Window + L
  BY <1>8, <1>9 DEF Window
<1>11. \A i \in 1 .. n : Start(i)' = Start(i) /\ End(i)' = End(i)
  BY <1>7, <1>9 DEF Start, End
<1>12. Start(n + 1)' = Window
  <2>1. Start(n + 1)' = Offsets(pending')[n]
    BY <1>7 DEF Start
  <2> QED
    BY <1>0, <1>7, <1>9, <2>1 DEF Window
<1>13. Ring' = Ring
  BY <1>2 DEF Ring
<1>14. \A i \in 1 .. n : pending[i].by = p => pending[i].done
  BY <1>1, <1>2, <1>7 DEF Owners, Owned, Filling
<1>15. \A q \in Producers : pc'[q] = IF q = p THEN "header" ELSE pc[q]
  BY <1>1, <1>2 DEF TypeOK
<1>16. pending'[n + 1].by = p /\ pending'[n + 1].ev = ev[p] /\ ~ pending'[n + 1].done
  BY <1>8
<1> HIDE DEF c, L
<1>20. Tiled'
  <2>1. USub(trace_idx', writeout_idx') = Window + L
    BY <1>2, <1>4, <1>5, Advance
  <2> QED
    BY <1>5, <1>10, <2>1 DEF Tiled
<1>21. Owners'
  <2>1. ASSUME NEW i \in 1 .. n + 1, ~ pending'[i].done PROVE Owned(i)'
    <3>1. CASE i = n + 1
      <4>1. old_idx[p] = UAdd(writeout_idx, Window)
        BY <1>2, <1>4, <1>5, FromDistance
      <4> QED
        BY <1>2, <1>12, <1>15, <1>16, <3>1, <4>1 DEF Owned, Filling
    <3>2. CASE i \in 1 .. n
      <4>1. pending'[i] = pending[i] /\ ~ pending[i].done /\ pending[i].by # p
            /\ pending[i].by \in Producers
        BY <1>7, <1>8, <1>14, <2>1, <3>2
      <4>2. Owned(i)
        BY <1>1, <1>7, <3>2, <4>1 DEF Owners
      <4> QED
        BY <1>2, <1>11, <1>15, <3>2, <4>1, <4>2 DEF Owned, Filling
    <3> QED
      BY <1>7, <3>1, <3>2
  <2>2. ASSUME NEW q \in Producers, Filling(q)'
        PROVE  \E i \in 1 .. n + 1 : pending'[i].by = q /\ ~ pending'[i].done
    <3>1. CASE q = p
      BY <1>7, <1>16, <3>1
    <3>2. CASE q # p
      <4>1. Filling(q)
        BY <1>15, <2>2, <3>2 DEF Filling
      <4>2. PICK i \in 1 .. n : pending[i].by = q /\ ~ pending[i].done
        BY <1>1, <1>7, <4>1 DEF Owners
      <4>3. i \in 1 .. n + 1 /\ pending'[i] = pending[i]
        BY <1>7, <1>8
      <4> QED
        BY <4>2, <4>3
    <3> QED
      BY <3>1, <3>2
  <2>3. \A q \in Producers : pc'[q] = "args" => rec_off'[q] \in HeaderWords .. RecLen(ev'[q])
    BY <1>1, <1>2, <1>15 DEF Owners
  <2> QED
    BY <1>8, <2>1, <2>2, <2>3 DEF Owners
<1>22. Words'
  <2>1. FreeWords'
    BY <1>1, <1>4, <1>5, <1>10, <1>13 DEF Words, FreeWords
  <2>2. ASSUME NEW i \in 1 .. n + 1 PROVE ClaimWords(i)'
    <3>1. CASE i = n + 1
      <4>1. ~ Ring[Window].msb
        BY <1>1, <1>4, <1>5 DEF Words, FreeWords
      <4>2. Partial(i)'
        BY <1>12, <1>13, <1>15, <1>16, <3>1, <4>1 DEF Partial
      <4>3. ~ Erased(i)'
        <5>1. CASE wpc = "write"
          <6>1. pending # <<>>
            BY <1>1, <5>1 DEF RecordsWrittenWhole
          <6>2. n >= 1
            BY <1>0, <1>1, <6>1
          <6> QED
            BY <1>7, <3>1, <6>2 DEF Erased
        <5>2. CASE wpc # "write"
          BY <1>2, <5>2 DEF Erased
        <5> QED
          BY <5>1, <5>2
      <4> QED
        BY <1>16, <3>1, <4>2, <4>3 DEF ClaimWords
    <3>2. CASE i \in 1 .. n
      <4>1. ClaimWords(i) /\ pending'[i] = pending[i] /\ pending[i].by \in Producers
        BY <1>1, <1>7, <1>8, <3>2 DEF Words
      <4>2. Erased(i)' <=> Erased(i)
        BY <1>2 DEF Erased
      <4>3. Start(i)' = Start(i) /\ End(i)' = End(i)
        BY <1>11, <3>2
      <4>4. Whole(i) => Whole(i)'
        BY <1>13, <4>1, <4>3 DEF Whole, StoredFrom
      <4>5. ~ pending[i].done => pc'[pending[i].by] = pc[pending[i].by]
        BY <1>14, <1>15, <3>2, <4>1
      <4>6. ~ pending[i].done /\ Partial(i) => Partial(i)'
        BY <1>2, <1>13, <4>1, <4>3, <4>5 DEF Partial, StoredFrom
      <4> QED
        BY <1>13, <4>1, <4>2, <4>3, <4>4, <4>6 DEF ClaimWords
    <3> QED
      BY <1>7, <3>1, <3>2
  <2> QED
    BY <1>8, <2>1, <2>2 DEF Words
<1>23. Ages'
  <2> SUFFICES ASSUME NEW q \in Producers, pc'[q] \in {"wait", "cas"}
               PROVE  USub(trace_idx', old_idx'[q]) <= MaxIdxAge /\ trace_idx' # old_idx'[q]
    BY DEF Ages
  <2>1. q # p /\ pc[q] \in {"wait", "cas"} /\ old_idx'[q] = old_idx[q]
    BY <1>2, <1>15
  <2>2. USub(trace_idx', old_idx[q]) <= MaxIdxAge
    BY <1>2, <2>1 DEF WithinStallBounds, NewIdx, L
  <2>3. USub(trace_idx, old_idx[q]) <= MaxIdxAge /\ old_idx[q] \in Indexes
    BY <1>1, <2>1 DEF Ages, TypeOK
  <2>4. /\ USub(trace_idx, old_idx[q]) \in Nat /\ MaxIdxAge \in Nat
        /\ MaxIdxAge < UIntRange - TRACE_BUF_LEN
    <3>1. USub(trace_idx, old_idx[q]) \in Indexes
      BY <1>4, <2>3, FromDistance
    <3>2. MaxIdxAge \in 0 .. UIntRange - TRACE_BUF_LEN - 1
      BY BufferAssumption
    <3> QED
      BY <1>4, <3>1, <3>2 DEF Indexes
  <2>5. USub(trace_idx', old_idx[q]) = USub(trace_idx, old_idx[q]) + L
    BY <1>2, <1>4, <2>3, <2>4, Advance
  <2>6. USub(old_idx[q], old_idx[q]) = 0
    BY <2>3, Unsigned DEF Indexes
  <2> QED
    BY <1>4, <2>1, <2>2, <2>4, <2>5, <2>6
<1>24. Rewriting'
  <2> SUFFICES ASSUME NEW q \in Producers, pc'[q] = "rewrite"
               PROVE  /\ hdr'[q] = DescWord(q, ev'[q])
                      /\ \/ \E i \in DOMAIN pending' : Finished(q, i)'
                         \/ USub(trace_idx', old_idx'[q]) \in Window' + HeaderWords .. TRACE_BUF_LEN + 1
    BY DEF Rewriting, InPlace
  <2>1. q # p /\ pc[q] = "rewrite" /\ ev'[q] = ev[q] /\ old_idx'[q] = old_idx[q] /\ hdr'[q] = hdr[q]
    BY <1>2, <1>15
  <2>2. hdr[q] = DescWord(q, ev[q])
    BY <1>1, <2>1 DEF Rewriting, InPlace
  <2>3. ASSUME NEW i \in DOMAIN pending, Finished(q, i)
        PROVE  i \in DOMAIN pending' /\ Finished(q, i)'
    <3>1. i \in 1 .. n + 1 /\ i \in 1 .. n
      BY <1>7
    <3> QED
      BY <1>2, <1>8, <1>11, <2>1, <2>3, <3>1 DEF Finished
  <2>4. ASSUME USub(trace_idx, old_idx[q]) \in Window + HeaderWords .. TRACE_BUF_LEN + 1
        PROVE  USub(trace_idx', old_idx[q]) \in Window' + HeaderWords .. TRACE_BUF_LEN + 1
    <3>1. USub(trace_idx', old_idx[q]) <= MaxFinishAge
      BY <1>2, <2>1 DEF WithinStallBounds, NewIdx, L
    <3>2. old_idx[q] \in Indexes /\ MaxFinishAge \in Nat /\ MaxFinishAge <= TRACE_BUF_LEN + 1
      BY <1>1, BufferAssumption DEF TypeOK, NotLapped
    <3>3. UIntRange > 2 * TRACE_BUF_LEN + 1
      <4>1. UIntRange # 2 * TRACE_BUF_LEN + 1
        <5>1. CASE UIntRange = 2 * TRACE_BUF_LEN + 1
          <6>1. UIntRange = TRACE_BUF_LEN * 2 + 1 /\ 1 \in 0 .. TRACE_BUF_LEN - 1
            BY <1>4, <5>1
          <6>2. UIntRange % TRACE_BUF_LEN = 1
            BY <1>4, <6>1, ModUnique
          <6> QED
            BY <6>2, BufferAssumption
        <5> QED
          BY <5>1
      <4> QED
        BY <1>4, <4>1
    <3>4. USub(trace_idx, old_idx[q]) \in Nat
      <4>1. USub(trace_idx, old_idx[q]) \in Indexes
        BY <1>4, <3>2, FromDistance
      <4> QED
        BY <1>4, <4>1 DEF Indexes
    <3>5. USub(trace_idx', old_idx[q]) = USub(trace_idx, old_idx[q]) + L
      BY <1>2, <1>4, <2>4, <3>2, <3>3, <3>4, Advance
    <3> QED
      BY <1>4, <1>5, <1>10, <2>4, <3>1, <3>2, <3>4, <3>5 DEF HeaderWords
  <2> QED
    BY <1>1, <2>1, <2>2, <2>3, <2>4 DEF Rewriting, InPlace
<1>25. RecordsWrittenWhole'
  <2> SUFFICES ASSUME wpc \in {"clear", "write"}
               PROVE  /\ pending' # <<>> /\ Head(pending').done
                      /\ recordptr' = Image(Head(pending').by, Head(pending').ev)
    BY <1>2 DEF RecordsWrittenWhole
  <2>1. pending # <<>> /\ Head(pending).done /\ recordptr = Image(Head(pending).by, Head(pending).ev)
    BY <1>1 DEF RecordsWrittenWhole
  <2>2. Head(pending') = Head(pending) /\ pending' # <<>>
    BY <1>1, <1>2, <1>6, <2>1
  <2> QED
    BY <1>2, <2>1, <2>2
<1> QED
  BY <1>20, <1>21, <1>22, <1>23, <1>24, <1>25 DEF RecordInv

(* A step of p within its own claim i leaves everything beside it alone.   *)
LEMMA Beside ==
  ASSUME TypeInv, RecordInv, NEW p \in Producers, NEW i \in DOMAIN pending,
         pending[i].by = p, ~ pending[i].done,
         \A j \in DOMAIN pending \ {i} : pending[j].by = p => pending[j].done,
         UNCHANGED <<trace_idx, writeout_idx, ev, old_idx, wpc, recordptr>>,
         pending' \in Seq(Claim), Len(pending') = Len(pending),
         \A j \in DOMAIN pending : pending'[j].ev = pending[j].ev,
         \A j \in DOMAIN pending \ {i} : pending'[j] = pending[j],
         \A q \in Producers \ {p} :
           pc'[q] = pc[q] /\ rec_off'[q] = rec_off[q] /\ hdr'[q] = hdr[q],
         pc'[p] \notin {"wait", "cas"},
         \A x \in Slots : x < Start(i) \/ x >= End(i) => Ring'[x] = Ring[x]
  PROVE  /\ DOMAIN pending' = DOMAIN pending
         /\ \A j \in DOMAIN pending : Start(j)' = Start(j) /\ End(j)' = End(j)
         /\ Tiled' /\ Ages' /\ RecordsWrittenWhole' /\ FreeWords'
         /\ \A j \in DOMAIN pending \ {i} : ClaimWords(j)' /\ (~ pending'[j].done => Owned(j)')
         /\ \A q \in Producers \ {p} : pc'[q] = "rewrite" => InPlace(q)'
<1>1. /\ Tiled /\ Owners /\ Words /\ Ages /\ Rewriting /\ RecordsWrittenWhole /\ TypeOK
      /\ pending \in Seq(Claim) /\ TRACE_BUF_LEN \in Nat
  BY BufferAssumption DEF RecordInv, TypeInv, TypeOK
<1>2. DOMAIN pending' = DOMAIN pending /\ DOMAIN pending = 1 .. Len(pending)
  BY <1>1
<1>3. Offsets(pending') = Offsets(pending)
  BY <1>1, <1>2, OffsetsSame
<1>4. \A j \in DOMAIN pending : Start(j)' = Start(j) /\ End(j)' = End(j)
  BY <1>3 DEF Start, End
<1>5. Window' = Window
  BY <1>3 DEF Window
<1>6. Tiled'
  BY <1>1, <1>5 DEF Tiled
<1>7. Ages'
  <2>1. \A q \in Producers : pc'[q] \in {"wait", "cas"} =>
          pc'[q] = pc[q] /\ ev'[q] = ev[q] /\ old_idx'[q] = old_idx[q]
    OBVIOUS
  <2>2. Window' \in Nat /\ Window' <= Window
    BY <1>1, <1>5, Geometry
  <2> QED
    BY <1>1, <2>1, <2>2, AgesKept
<1>8. RecordsWrittenWhole'
  <2> SUFFICES ASSUME wpc \in {"clear", "write"}
               PROVE  /\ pending' # <<>> /\ Head(pending').done
                      /\ recordptr' = Image(Head(pending').by, Head(pending').ev)
    BY DEF RecordsWrittenWhole
  <2>1. pending # <<>> /\ Head(pending).done /\ recordptr = Image(Head(pending).by, Head(pending).ev)
    BY <1>1 DEF RecordsWrittenWhole
  <2>2. Head(pending) = pending[1] /\ 1 \in DOMAIN pending
    BY <1>1, <2>1
  <2>3. pending'[1] = pending[1]
    BY <2>1, <2>2
  <2>4. Head(pending') = pending'[1] /\ pending' # <<>>
    BY <1>2, <2>2
  <2> QED
    BY <2>1, <2>2, <2>3, <2>4
<1>9. FreeWords'
  <2>1. End(i) <= Window /\ End(i) \in Nat /\ Window \in Nat
    BY <1>1, Geometry
  <2>2. \A x \in Window .. TRACE_BUF_LEN - 1 : x \in Slots /\ Ring'[x] = Ring[x]
    BY <1>1, <2>1 DEF Slots
  <2> QED
    BY <1>1, <1>5, <2>2 DEF Words, FreeWords
<1>10. ASSUME NEW j \in DOMAIN pending \ {i}
       PROVE  ClaimWords(j)' /\ (~ pending'[j].done => Owned(j)')
  <2>1. /\ ClaimWords(j) /\ pending'[j] = pending[j] /\ pending[j].by \in Producers
        /\ Start(j)' = Start(j) /\ End(j)' = End(j) /\ Start(j) \in Nat /\ End(j) \in Nat
        /\ End(j) = Start(j) + RecLen(pending[j].ev) /\ RecLen(pending[j].ev) \in Nat
        /\ End(j) <= TRACE_BUF_LEN /\ RecLen(pending[j].ev) >= 2
        /\ j \in Nat /\ (j = 1 => Start(j) = 0)
    BY <1>1, <1>4, Geometry DEF Words
  <2>2. End(j) <= Start(i) \/ End(i) <= Start(j)
    BY <1>1, <1>2, Geometry
  <2>3. \A x \in Start(j) .. End(j) - 1 : x \in Slots /\ Ring'[x] = Ring[x]
    <3>1. Start(i) \in Nat /\ End(i) \in Nat
      BY <1>1, Geometry
    <3>2. ASSUME NEW x \in Start(j) .. End(j) - 1
          PROVE  x \in Slots /\ (x < Start(i) \/ x >= End(i))
      BY <1>1, <2>1, <2>2, <3>1 DEF Slots
    <3> QED
      BY <3>2
  <2>4. Ring'[Start(j)] = Ring[Start(j)]
    BY <2>1, <2>3
  <2>5. \A k \in 0 .. RecLen(pending[j].ev) - 1 : Ring'[Start(j) + k] = Ring[Start(j) + k]
    BY <2>1, <2>3
  <2>6. Erased(j)' <=> Erased(j)
    BY DEF Erased
  <2>7. Erased(j) => \A x \in 0 .. End(j) - 1 : ~ Ring'[x].msb
    <3>1. Erased(j) => Start(j) = 0
      BY <2>1 DEF Erased
    <3> QED
      BY <2>1, <2>3, <2>6, <3>1 DEF ClaimWords
  <2>8. Whole(j) => Whole(j)'
    BY <2>1, <2>4, <2>5 DEF Whole, StoredFrom
  <2>9. ~ pending[j].done => pending[j].by \in Producers \ {p}
    BY <2>1
  <2>10. ~ pending[j].done => Owned(j)
    BY <1>1 DEF Owners
  <2>11. ~ pending[j].done => Owned(j)'
    BY <2>1, <2>9, <2>10 DEF Owned, Filling
  <2>12. ~ pending[j].done /\ Partial(j) => Partial(j)'
    <3> SUFFICES ASSUME ~ pending[j].done, Partial(j) PROVE Partial(j)'
      OBVIOUS
    <3>1. pc'[pending[j].by] = pc[pending[j].by] /\ rec_off'[pending[j].by] = rec_off[pending[j].by]
      BY <2>9
    <3>2. pc[pending[j].by] = "args" => rec_off[pending[j].by] \in HeaderWords .. RecLen(pending[j].ev)
      BY <1>1, <2>1, <2>10 DEF Owners, Owned
    <3>3. pc[pending[j].by] = "args" => StoredFrom(j, 0, rec_off[pending[j].by])'
      BY <2>1, <2>5, <3>1, <3>2 DEF Partial, StoredFrom, HeaderWords
    <3>4. ~ Ring'[Start(j)].msb
      BY <2>4 DEF Partial
    <3> QED
      BY <2>1, <3>1, <3>3, <3>4 DEF Partial, StoredFrom
  <2> QED
    BY <2>1, <2>6, <2>7, <2>8, <2>11, <2>12 DEF ClaimWords
<1>11. ASSUME NEW q \in Producers \ {p}, pc'[q] = "rewrite" PROVE InPlace(q)'
  <2>1. pc[q] = "rewrite" /\ hdr'[q] = hdr[q]
    BY <1>11
  <2>2. InPlace(q)
    BY <1>1, <2>1 DEF Rewriting
  <2>3. ASSUME NEW j \in DOMAIN pending, Finished(q, j) PROVE Finished(q, j)'
    <3>1. j # i
      BY <2>3 DEF Finished
    <3> QED
      BY <1>4, <2>3, <3>1 DEF Finished
  <2> QED
    BY <1>2, <1>5, <2>1, <2>2, <2>3 DEF InPlace
<1> QED
  BY <1>2, <1>4, <1>6, <1>7, <1>8, <1>9, <1>10, <1>11

(* The words of a record.                                                  *)
LEMMA ImageWords ==
  ASSUME NEW p \in Producers, NEW e \in Events
  PROVE  /\ RecLen(e) \in Nat /\ RecLen(e) >= 2 /\ DOMAIN Image(p, e) = 1 .. RecLen(e)
         /\ Image(p, e) \in Seq(Word) /\ Len(Image(p, e)) = RecLen(e)
         /\ Image(p, e)[1] = EventWord(p, e) /\ Image(p, e)[2] = DescWord(p, e)
         /\ \A k \in 3 .. RecLen(e) : Image(p, e)[k] = ArgWord(p, e)
<1>1. RecLen(e) \in Nat /\ RecLen(e) >= 2
  BY RecLenType, BufferAssumption DEF HeaderWords
<1>2. \A k \in 1 .. RecLen(e) : Image(p, e)[k] \in {EventWord(p, e), DescWord(p, e), ArgWord(p, e)}
  BY DEF Image
<1>3. \A k \in 1 .. RecLen(e) : Image(p, e)[k] \in Word
  BY <1>2, WordTypes
<1>4. Image(p, e) = [k \in 1 .. RecLen(e) |-> Image(p, e)[k]]
  BY DEF Image
<1>5. Image(p, e) \in Seq(Word) /\ Len(Image(p, e)) = RecLen(e)
  BY <1>1, <1>3, <1>4, IsASeq
<1>6. /\ Image(p, e)[1] = EventWord(p, e) /\ Image(p, e)[2] = DescWord(p, e)
      /\ \A k \in 3 .. RecLen(e) : Image(p, e)[k] = ArgWord(p, e)
  BY <1>1 DEF Image
<1>7. DOMAIN Image(p, e) = 1 .. RecLen(e)
  BY DEF Image
<1> QED
  BY <1>1, <1>5, <1>6, <1>7

(* Where a producer that fills a record is, and that its claim fits.       *)
LEMMA OwnPlace ==
  ASSUME TypeInv, RecordInv, NEW p \in Producers, Filling(p)
  PROVE  \E i \in DOMAIN pending :
           /\ pending[i].by = p /\ ~ pending[i].done /\ pending[i].ev = ev[p] /\ ~ Erased(i)
           /\ \A j \in DOMAIN pending \ {i} : pending[j].by = p => pending[j].done
           /\ old_idx[p] = UAdd(writeout_idx, Start(i)) /\ old_idx[p] \in Nat
           /\ Start(i) \in Nat /\ End(i) = Start(i) + RecLen(ev[p]) /\ End(i) <= TRACE_BUF_LEN
           /\ ev[p] \in Events /\ RecLen(ev[p]) \in Nat /\ RecLen(ev[p]) >= 2
           /\ ~ Ring[Start(i)].msb
           /\ pc[p] = "args" => StoredFrom(i, 0, rec_off[p])
<1>1. TypeOK /\ Tiled /\ Owners /\ Words /\ RecordsWrittenWhole /\ TRACE_BUF_LEN \in Nat
  BY BufferAssumption DEF TypeInv, RecordInv
<1>2. PICK i \in DOMAIN pending :
        /\ pending[i].by = p /\ ~ pending[i].done /\ pending[i].ev = ev[p]
        /\ old_idx[p] = UAdd(writeout_idx, Start(i))
        /\ ~ Erased(i)
        /\ \A j \in DOMAIN pending \ {i} : pending[j].by = p => pending[j].done
  BY <1>1, OwnClaim
<1>3. /\ Start(i) \in Nat /\ End(i) = Start(i) + RecLen(ev[p]) /\ End(i) <= TRACE_BUF_LEN
      /\ ev[p] \in Events /\ RecLen(ev[p]) \in Nat /\ RecLen(ev[p]) >= 2
  BY <1>1, <1>2, Geometry
<1>4. Partial(i)
  BY <1>1, <1>2 DEF Words, ClaimWords
<1>5. old_idx[p] \in Nat
  BY <1>1, BufferAssumption DEF TypeOK, Indexes
<1> QED
  BY <1>2, <1>3, <1>4, <1>5 DEF Partial

(* A producer stores in its claim, and what it stores is the record.       *)
LEMMA HeaderWritten ==
  ASSUME TypeInv, RecordInv, NEW p \in Producers, WriteHeader(p)
  PROVE  RecordInv'
<1>1. /\ TypeOK /\ Owners /\ Rewriting /\ pending \in Seq(Claim) /\ TRACE_BUF_LEN \in Nat
      /\ pc \in [Producers -> {"idle", "wait", "cas", "header", "args", "rewrite", "check", "kick"}]
      /\ rec_off \in [Producers -> 0 .. TRACE_BUF_LEN] /\ writeout_idx \in Nat
      /\ trace_buf \in [Slots -> Word]
  BY BufferAssumption DEF TypeInv, TypeOK, RecordInv, Indexes
<1>2. /\ pc[p] = "header" /\ pc' = [pc EXCEPT ![p] = "args"]
      /\ rec_off' = [rec_off EXCEPT ![p] = HeaderWords]
      /\ UNCHANGED <<trace_idx, writeout_idx, ev, old_idx, hdr, wpc, recordptr, pending>>
      /\ trace_buf' = [trace_buf EXCEPT ![Slot(old_idx[p])] = EventWord(p, ev[p]),
                                        ![Slot(old_idx[p] + 1)] = DescWord(p, ev[p])]
  BY DEF WriteHeader, Goto
<1>3. PICK i \in DOMAIN pending :
           /\ pending[i].by = p /\ ~ pending[i].done /\ pending[i].ev = ev[p] /\ ~ Erased(i)
           /\ \A j \in DOMAIN pending \ {i} : pending[j].by = p => pending[j].done
           /\ old_idx[p] = UAdd(writeout_idx, Start(i)) /\ old_idx[p] \in Nat
           /\ Start(i) \in Nat /\ End(i) = Start(i) + RecLen(ev[p]) /\ End(i) <= TRACE_BUF_LEN
           /\ ev[p] \in Events /\ RecLen(ev[p]) \in Nat /\ RecLen(ev[p]) >= 2
  BY <1>2, OwnPlace DEF Filling
<1>4. PICK s \in Nat : s = Start(i)
  BY <1>3
<1> DEFINE s0 == Slot(old_idx[p])
           s1 == Slot(old_idx[p] + 1)
<1>5. /\ s0 \in Slots /\ \A x \in Slots : Slot(writeout_idx + x) = s0 <=> x = s
      /\ s1 \in Slots /\ \A x \in Slots : Slot(writeout_idx + x) = s1 <=> x = s + 1
  <2>1. s + 0 < TRACE_BUF_LEN /\ s + 1 < TRACE_BUF_LEN /\ s \in 0 .. TRACE_BUF_LEN /\ writeout_idx \in Indexes
    BY <1>1, <1>3, <1>4 DEF TypeOK
  <2>2. old_idx[p] + 0 = old_idx[p] /\ s + 0 = s /\ writeout_idx + s + 0 = writeout_idx + s
        /\ writeout_idx + s + 1 = writeout_idx + (s + 1)
    BY <1>1, <1>3, <1>4
  <2>3. Slot(old_idx[p]) = Slot(writeout_idx + s) /\ Slot(old_idx[p] + 1) = Slot(writeout_idx + (s + 1))
    BY <1>3, <1>4, <2>1, <2>2, SlotUAdd
  <2>4. /\ s0 \in Slots /\ \A x \in Slots : Slot(writeout_idx + x) = s0 => x = s
    BY <1>1, <1>3, <1>4, <2>1, <2>2, RingCell
  <2>5. /\ s1 \in Slots /\ \A x \in Slots : Slot(writeout_idx + x) = s1 => x = s + 1
    BY <1>1, <1>3, <1>4, <2>1, <2>2, RingCell
  <2> QED
    BY <2>3, <2>4, <2>5
<1>6. \A x \in Slots : Ring'[x] = CASE x = s -> EventWord(p, ev[p])
                                    [] x = s + 1 -> DescWord(p, ev[p])
                                    [] OTHER -> Ring[x]
  <2> SUFFICES ASSUME NEW x \in Slots
               PROVE  Ring'[x] = CASE x = s -> EventWord(p, ev[p])
                                   [] x = s + 1 -> DescWord(p, ev[p])
                                   [] OTHER -> Ring[x]
    OBVIOUS
  <2>1. Ring[x] = trace_buf[Slot(writeout_idx + x)] /\ Ring'[x] = trace_buf'[Slot(writeout_idx + x)]
    BY <1>2 DEF Ring
  <2>2. writeout_idx + x \in Nat
    BY <1>1 DEF Slots
  <2>3. Slot(writeout_idx + x) \in Slots
    BY <2>2, SlotType
  <2>4. s # s + 1
    BY <1>4
  <2> HIDE DEF s0, s1
  <2>5. trace_buf' = [trace_buf EXCEPT ![s0] = EventWord(p, ev[p]), ![s1] = DescWord(p, ev[p])]
    BY <1>2 DEF s0, s1
  <2> QED
    BY <1>1, <1>5, <2>1, <2>3, <2>4, <2>5
<1>7. \A x \in Slots : x < Start(i) \/ x >= End(i) => Ring'[x] = Ring[x]
  BY <1>3, <1>4, <1>6 DEF Slots
<1>8. /\ \A q \in Producers \ {p} : pc'[q] = pc[q] /\ rec_off'[q] = rec_off[q] /\ hdr'[q] = hdr[q]
      /\ pc'[p] = "args" /\ rec_off'[p] = HeaderWords
  BY <1>1, <1>2
<1>9. /\ DOMAIN pending' = DOMAIN pending
      /\ \A j \in DOMAIN pending : Start(j)' = Start(j) /\ End(j)' = End(j)
      /\ Tiled' /\ Ages' /\ RecordsWrittenWhole' /\ FreeWords'
      /\ \A j \in DOMAIN pending \ {i} : ClaimWords(j)' /\ (~ pending'[j].done => Owned(j)')
      /\ \A q \in Producers \ {p} : pc'[q] = "rewrite" => InPlace(q)'
  BY <1>1, <1>2, <1>3, <1>7, <1>8, Beside
<1>10. ClaimWords(i)'
  <2>1. s \in Slots /\ s + 1 \in Slots
    BY <1>1, <1>3, <1>4 DEF Slots
  <2>2. Ring'[s] = EventWord(p, ev[p]) /\ Ring'[s + 1] = DescWord(p, ev[p])
    BY <1>4, <1>6, <2>1
  <2>3. Start(i)' = s
    BY <1>4, <1>9
  <2>4. ~ EventWord(p, ev[p]).msb
    BY DEF EventWord
  <2>5. \A k \in 0 .. 1 : Ring'[s + k] = Image(p, ev[p])[k + 1]
    <3>1. \A k \in 0 .. 1 : k = 0 \/ k = 1
      OBVIOUS
    <3>2. s + 0 = s /\ 0 + 1 = 1 /\ 1 + 1 = 2
      BY <1>4
    <3> QED
      BY <1>3, <2>2, <3>1, <3>2, ImageWords
  <2>6. Partial(i)'
    BY <1>2, <1>3, <1>8, <2>2, <2>3, <2>4, <2>5 DEF Partial, StoredFrom, HeaderWords
  <2> QED
    BY <1>2, <1>3, <2>6 DEF ClaimWords, Erased
<1>11. Owned(i)'
  BY <1>2, <1>3, <1>8, <1>9 DEF Owned, Filling
<1>12. Owners'
  <2>1. \A q \in Producers : Filling(q)' => Filling(q)
    BY <1>2, <1>8 DEF Filling
  <2>2. \A q \in Producers : pc'[q] = "args" => rec_off'[q] \in HeaderWords .. RecLen(ev'[q])
    BY <1>1, <1>2, <1>3, <1>8 DEF Owners, HeaderWords
  <2> QED
    BY <1>1, <1>2, <1>9, <1>11, <2>1, <2>2 DEF Owners
<1>13. Words'
  BY <1>9, <1>10 DEF Words
<1>14. Rewriting'
  BY <1>8, <1>9 DEF Rewriting
<1> QED
  BY <1>9, <1>12, <1>13, <1>14 DEF RecordInv

(* trace_record_write_u64 adds one word to the record.                     *)
LEMMA ArgumentWritten ==
  ASSUME TypeInv, RecordInv, NEW p \in Producers, trace_record_write_u64(p)
  PROVE  RecordInv'
<1>1. /\ TypeOK /\ Owners /\ Rewriting /\ pending \in Seq(Claim) /\ TRACE_BUF_LEN \in Nat
      /\ rec_off \in [Producers -> 0 .. TRACE_BUF_LEN] /\ trace_buf \in [Slots -> Word]
  BY BufferAssumption DEF TypeInv, TypeOK, RecordInv
<1>2. /\ pc[p] = "args" /\ rec_off' = [rec_off EXCEPT ![p] = rec_off[p] + 1]
      /\ rec_off[p] < RecLen(ev[p])
      /\ UNCHANGED <<pc, trace_idx, writeout_idx, ev, old_idx, hdr, wpc, recordptr, pending>>
      /\ trace_buf' = [trace_buf EXCEPT ![Slot(old_idx[p] + rec_off[p])] = ArgWord(p, ev[p])]
  BY DEF trace_record_write_u64
<1>3. PICK i \in DOMAIN pending :
           /\ pending[i].by = p /\ ~ pending[i].done /\ pending[i].ev = ev[p] /\ ~ Erased(i)
           /\ \A j \in DOMAIN pending \ {i} : pending[j].by = p => pending[j].done
           /\ old_idx[p] = UAdd(writeout_idx, Start(i)) /\ old_idx[p] \in Nat
           /\ Start(i) \in Nat /\ End(i) = Start(i) + RecLen(ev[p]) /\ End(i) <= TRACE_BUF_LEN
           /\ ev[p] \in Events /\ RecLen(ev[p]) \in Nat /\ RecLen(ev[p]) >= 2
           /\ ~ Ring[Start(i)].msb
           /\ StoredFrom(i, 0, rec_off[p])
  BY <1>2, OwnPlace DEF Filling
<1>4. PICK s \in Nat, r \in Nat : s = Start(i) /\ r = rec_off[p]
  BY <1>1, <1>3
<1>5. r >= 2 /\ r < RecLen(ev[p]) /\ s + r < TRACE_BUF_LEN
  BY <1>1, <1>2, <1>3, <1>4 DEF Owners, HeaderWords
<1>6. \A x \in Slots : Ring'[x] = IF x = s + r THEN ArgWord(p, ev[p]) ELSE Ring[x]
  <2> DEFINE y0 == Slot(UAdd(writeout_idx, s) + r)
  <2>1. y0 \in Slots
    BY <1>1, <1>4, <1>5, RingCell
  <2>2. trace_buf' = [trace_buf EXCEPT ![y0] = ArgWord(p, ev[p])] /\ writeout_idx' = writeout_idx
    BY <1>2, <1>3, <1>4, Zenon
  <2> HIDE DEF y0
  <2>3. trace_buf'[y0] = ArgWord(p, ev[p]) /\ \A y \in Slots : y # y0 => trace_buf'[y] = trace_buf[y]
    BY <1>1, <2>1, <2>2
  <2>4. \A x \in Slots : Ring'[x] = IF x = s + r THEN trace_buf'[y0] ELSE Ring[x]
    BY <1>1, <1>4, <1>5, <2>2, <2>3, RingWrite DEF y0
  <2> QED
    BY <2>3, <2>4
<1>7. \A x \in Slots : x < Start(i) \/ x >= End(i) => Ring'[x] = Ring[x]
  BY <1>3, <1>4, <1>5, <1>6 DEF Slots
<1>8. /\ \A q \in Producers \ {p} : pc'[q] = pc[q] /\ rec_off'[q] = rec_off[q] /\ hdr'[q] = hdr[q]
      /\ pc'[p] = "args" /\ rec_off'[p] = r + 1
  BY <1>1, <1>2, <1>4
<1>9. /\ DOMAIN pending' = DOMAIN pending
      /\ \A j \in DOMAIN pending : Start(j)' = Start(j) /\ End(j)' = End(j)
      /\ Tiled' /\ Ages' /\ RecordsWrittenWhole' /\ FreeWords'
      /\ \A j \in DOMAIN pending \ {i} : ClaimWords(j)' /\ (~ pending'[j].done => Owned(j)')
      /\ \A q \in Producers \ {p} : pc'[q] = "rewrite" => InPlace(q)'
  <2>1. /\ pending' \in Seq(Claim) /\ Len(pending') = Len(pending)
        /\ \A j \in DOMAIN pending : pending'[j] = pending[j]
    BY <1>1, <1>2
  <2>2. UNCHANGED <<trace_idx, writeout_idx, ev, old_idx, wpc, recordptr>>
    BY <1>2
  <2>3. pc'[p] \notin {"wait", "cas"}
    BY <1>8
  <2> QED
    BY <1>3, <1>7, <1>8, <2>1, <2>2, <2>3, Beside
<1>10. ClaimWords(i)'
  <2>1. \A k \in 0 .. r : s + k \in Slots
    BY <1>1, <1>4, <1>5 DEF Slots
  <2>2. \A k \in 0 .. r - 1 : Ring'[s + k] = Ring[s + k]
    BY <1>4, <1>6, <2>1
  <2>3. Ring'[s + r] = ArgWord(p, ev[p])
    BY <1>4, <1>6, <2>1
  <2>4. Start(i)' = s
    BY <1>4, <1>9
  <2>5. \A k \in 0 .. r - 1 : Ring[s + k] = Image(p, ev[p])[k + 1]
    BY <1>3, <1>4 DEF StoredFrom
  <2>6. Image(p, ev[p])[r + 1] = ArgWord(p, ev[p])
    BY <1>3, <1>4, <1>5, ImageWords
  <2>7. \A k \in 0 .. (r + 1) - 1 : Ring'[s + k] = Image(p, ev[p])[k + 1]
    <3>1. \A k \in 0 .. (r + 1) - 1 : k = r \/ k \in 0 .. r - 1
      BY <1>4
    <3> QED
      BY <2>2, <2>3, <2>5, <2>6, <3>1
  <2>8. ~ Ring'[s].msb
    <3>1. s + 0 = s /\ 0 \in 0 .. r - 1
      BY <1>4, <1>5
    <3> QED
      BY <1>3, <1>4, <2>2, <3>1
  <2>9. Partial(i)'
    BY <1>2, <1>3, <1>8, <2>4, <2>7, <2>8 DEF Partial, StoredFrom
  <2> QED
    BY <1>2, <1>3, <2>9 DEF ClaimWords, Erased
<1>11. Owned(i)'
  BY <1>2, <1>3, <1>8, <1>9 DEF Owned, Filling
<1>12. Owners'
  <2>1. \A q \in Producers : Filling(q)' => Filling(q)
    BY <1>2 DEF Filling
  <2>2. \A q \in Producers : pc'[q] = "args" => rec_off'[q] \in HeaderWords .. RecLen(ev'[q])
    BY <1>1, <1>2, <1>3, <1>4, <1>5, <1>8 DEF Owners, HeaderWords
  <2> QED
    BY <1>1, <1>2, <1>9, <1>11, <2>1, <2>2 DEF Owners
<1>13. Words'
  BY <1>9, <1>10 DEF Words
<1>14. Rewriting'
  BY <1>8, <1>9 DEF Rewriting
<1> QED
  BY <1>9, <1>12, <1>13, <1>14 DEF RecordInv

(* Finish(p) finishes the claim p is filling and no other.                 *)
LEMMA FinishOne ==
  ASSUME TypeOK, NEW p \in Producers, NEW i \in DOMAIN pending, pending[i].by = p,
         \A j \in DOMAIN pending \ {i} : pending[j].by = p => pending[j].done
  PROVE  /\ Finish(p) \in Seq(Claim) /\ Len(Finish(p)) = Len(pending)
         /\ Finish(p)[i].done /\ Finish(p)[i].by = p /\ Finish(p)[i].ev = pending[i].ev
         /\ \A j \in DOMAIN pending \ {i} : Finish(p)[j] = pending[j]
<1>1. pending \in Seq(Claim) /\ DOMAIN pending = 1 .. Len(pending) /\ Len(pending) \in Nat
  BY DEF TypeOK
<1>2. Finish(p) \in Seq(Claim)
  BY FinishType
<1>3. DOMAIN Finish(p) = 1 .. Len(pending)
  BY <1>1 DEF Finish
<1>4. Len(Finish(p)) = Len(pending)
  BY <1>1, <1>2, <1>3
<1>5. \A c \in Claim : /\ [c EXCEPT !.done = TRUE].done /\ [c EXCEPT !.done = TRUE].by = c.by
                       /\ [c EXCEPT !.done = TRUE].ev = c.ev
  BY DEF Claim
<1>6. \A c \in Claim : c.done => [c EXCEPT !.done = TRUE] = c
  BY DEF Claim
<1>7. \A j \in DOMAIN pending : pending[j] \in Claim
  BY <1>1
<1>8. \A j \in DOMAIN pending : Finish(p)[j] = IF pending[j].by = p
                                               THEN [pending[j] EXCEPT !.done = TRUE] ELSE pending[j]
  BY DEF Finish
<1>9. Finish(p)[i].done /\ Finish(p)[i].by = p /\ Finish(p)[i].ev = pending[i].ev
  BY <1>5, <1>7, <1>8
<1>10. \A j \in DOMAIN pending \ {i} : Finish(p)[j] = pending[j]
  BY <1>6, <1>7, <1>8
<1> QED
  BY <1>2, <1>4, <1>9, <1>10

(* A word is what is in its fields.                                        *)
LEMMA WordFields ==
  ASSUME NEW v \in Word, NEW w \in Word,
         v.msb = w.msb, v.part = w.part, v.by = w.by, v.ev = w.ev
  PROVE  v = w
BY DEF Word

(* The event word and the same word marked valid.                          *)
LEMMA ValidOf ==
  ASSUME NEW p \in Producers, NEW e \in Events
  PROVE  /\ [EventWord(p, e) EXCEPT !.msb = TRUE] = ValidWord(p, e)
         /\ [ValidWord(p, e) EXCEPT !.msb = FALSE] = EventWord(p, e)
<1> DEFINE u == EventWord(p, e)
           v == ValidWord(p, e)
<1>1. /\ u \in Word /\ u.msb = FALSE /\ u.part = "event" /\ u.by = p /\ u.ev = e
      /\ v \in Word /\ v.msb = TRUE /\ v.part = "event" /\ v.by = p /\ v.ev = e
  BY DEF EventWord, ValidWord, Word
<1> HIDE DEF u, v
<1>2. [u EXCEPT !.msb = TRUE] = v
  <2> DEFINE t == [u EXCEPT !.msb = TRUE]
  <2>1. t \in Word /\ t.msb = TRUE /\ t.part = u.part /\ t.by = u.by /\ t.ev = u.ev
    BY <1>1 DEF Word
  <2> HIDE DEF t
  <2>2. t = v
    BY <1>1, <2>1, WordFields
  <2> QED
    BY <2>2 DEF t
<1>3. [v EXCEPT !.msb = FALSE] = u
  <2> DEFINE t == [v EXCEPT !.msb = FALSE]
  <2>1. t \in Word /\ t.msb = FALSE /\ t.part = v.part /\ t.by = v.by /\ t.ev = v.ev
    BY <1>1 DEF Word
  <2> HIDE DEF t
  <2>2. t = u
    BY <1>1, <2>1, WordFields
  <2> QED
    BY <2>2 DEF t
<1> QED
  BY <1>2, <1>3 DEF u, v

(* TRACE_RECORD_VALID is set on a record that is complete.                 *)
LEMMA MarkedValid ==
  ASSUME TypeInv, RecordInv, NEW p \in Producers, MarkValid(p)
  PROVE  RecordInv'
<1>1. /\ TypeOK /\ Owners /\ Rewriting /\ pending \in Seq(Claim) /\ TRACE_BUF_LEN \in Nat
      /\ hdr \in [Producers -> Word] /\ trace_buf \in [Slots -> Word]
      /\ pc \in [Producers -> {"idle", "wait", "cas", "header", "args", "rewrite", "check", "kick"}]
  BY BufferAssumption DEF TypeInv, TypeOK, RecordInv
<1>2. /\ pc[p] = "args" /\ pc' = [pc EXCEPT ![p] = "rewrite"] /\ rec_off[p] = RecLen(ev[p])
      /\ UNCHANGED <<trace_idx, writeout_idx, ev, old_idx, rec_off, wpc, recordptr>>
      /\ pending' = Finish(p)
      /\ hdr' = [hdr EXCEPT ![p] = trace_buf[Slot(old_idx[p] + 1)]]
      /\ trace_buf' = [trace_buf EXCEPT ![Slot(old_idx[p])] =
                         [trace_buf[Slot(old_idx[p])] EXCEPT !.msb = TRUE]]
  BY DEF MarkValid, Goto
<1>3. PICK i \in DOMAIN pending :
           /\ pending[i].by = p /\ ~ pending[i].done /\ pending[i].ev = ev[p] /\ ~ Erased(i)
           /\ \A j \in DOMAIN pending \ {i} : pending[j].by = p => pending[j].done
           /\ old_idx[p] = UAdd(writeout_idx, Start(i)) /\ old_idx[p] \in Nat
           /\ Start(i) \in Nat /\ End(i) = Start(i) + RecLen(ev[p]) /\ End(i) <= TRACE_BUF_LEN
           /\ ev[p] \in Events /\ RecLen(ev[p]) \in Nat /\ RecLen(ev[p]) >= 2
           /\ StoredFrom(i, 0, rec_off[p])
  BY <1>2, OwnPlace DEF Filling
<1>4. PICK s \in Nat : s = Start(i)
  BY <1>3
<1>a. s + 0 = s /\ s + 0 < TRACE_BUF_LEN /\ s + 1 < TRACE_BUF_LEN /\ old_idx[p] + 0 = old_idx[p]
  BY <1>1, <1>3, <1>4
<1>b. \A k \in 0 .. RecLen(ev[p]) - 1 : Ring[s + k] = Image(p, ev[p])[k + 1]
  BY <1>2, <1>3, <1>4 DEF StoredFrom
<1>c. trace_buf[Slot(old_idx[p])] = EventWord(p, ev[p])
  <2>1. trace_buf[Slot(old_idx[p] + 0)] = Ring[s + 0]
    BY <1>1, <1>3, <1>4, <1>a, RingCell
  <2>2. 0 \in 0 .. RecLen(ev[p]) - 1 /\ 0 + 1 = 1
    BY <1>3
  <2> QED
    BY <1>3, <1>a, <1>b, <2>1, <2>2, ImageWords
<1>d. trace_buf[Slot(old_idx[p] + 1)] = DescWord(p, ev[p])
  <2>1. trace_buf[Slot(old_idx[p] + 1)] = Ring[s + 1]
    BY <1>1, <1>3, <1>4, <1>a, RingCell
  <2>2. 1 \in 0 .. RecLen(ev[p]) - 1 /\ 1 + 1 = 2
    BY <1>3
  <2>3. Ring[s + 1] = Image(p, ev[p])[2]
    BY <1>b, <2>2
  <2>4. Image(p, ev[p])[2] = DescWord(p, ev[p])
    BY <1>3, ImageWords
  <2> QED
    BY <2>1, <2>3, <2>4
<1>e. [EventWord(p, ev[p]) EXCEPT !.msb = TRUE] = ValidWord(p, ev[p])
  BY <1>3, ValidOf
<1>f. trace_buf' = [trace_buf EXCEPT ![Slot(old_idx[p] + 0)] = ValidWord(p, ev[p])]
  BY <1>2, <1>a, <1>c, <1>e
<1>6. \A x \in Slots : Ring'[x] = IF x = s THEN ValidWord(p, ev[p]) ELSE Ring[x]
  <2>1. \A x \in Slots : Ring'[x] = IF x = s + 0 THEN ValidWord(p, ev[p]) ELSE Ring[x]
    <3> DEFINE y0 == Slot(UAdd(writeout_idx, s) + 0)
    <3>1. y0 \in Slots
      BY <1>1, <1>4, <1>a, RingCell
    <3>2. trace_buf' = [trace_buf EXCEPT ![y0] = ValidWord(p, ev[p])] /\ writeout_idx' = writeout_idx
      BY <1>2, <1>3, <1>4, <1>f, Zenon
    <3> HIDE DEF y0
    <3>3. trace_buf'[y0] = ValidWord(p, ev[p]) /\ \A y \in Slots : y # y0 => trace_buf'[y] = trace_buf[y]
      BY <1>1, <3>1, <3>2
    <3>4. \A x \in Slots : Ring'[x] = IF x = s + 0 THEN trace_buf'[y0] ELSE Ring[x]
      BY <1>1, <1>4, <1>a, <3>2, <3>3, RingWrite DEF y0
    <3> QED
      BY <3>3, <3>4
  <2> QED
    BY <1>a, <2>1
<1>7. \A x \in Slots : x < Start(i) \/ x >= End(i) => Ring'[x] = Ring[x]
  BY <1>3, <1>4, <1>6 DEF Slots
<1>8. /\ \A q \in Producers \ {p} : pc'[q] = pc[q] /\ rec_off'[q] = rec_off[q] /\ hdr'[q] = hdr[q]
      /\ pc'[p] = "rewrite" /\ hdr'[p] = DescWord(p, ev[p])
  BY <1>1, <1>2, <1>d
<1>g. /\ pending' \in Seq(Claim) /\ Len(pending') = Len(pending)
      /\ pending'[i].done /\ pending'[i].by = p /\ pending'[i].ev = pending[i].ev
      /\ \A j \in DOMAIN pending \ {i} : pending'[j] = pending[j]
  BY <1>1, <1>2, <1>3, FinishOne
<1>h. \A j \in DOMAIN pending : pending'[j].ev = pending[j].ev
  BY <1>g
<1>9. /\ DOMAIN pending' = DOMAIN pending
      /\ \A j \in DOMAIN pending : Start(j)' = Start(j) /\ End(j)' = End(j)
      /\ Tiled' /\ Ages' /\ RecordsWrittenWhole' /\ FreeWords'
      /\ \A j \in DOMAIN pending \ {i} : ClaimWords(j)' /\ (~ pending'[j].done => Owned(j)')
      /\ \A q \in Producers \ {p} : pc'[q] = "rewrite" => InPlace(q)'
  BY <1>2, <1>3, <1>7, <1>8, <1>g, <1>h, Beside
<1>10. ClaimWords(i)'
  <2>1. \A k \in 0 .. RecLen(ev[p]) - 1 : s + k \in Slots
    BY <1>1, <1>3, <1>4 DEF Slots
  <2>2. s \in Slots
    BY <1>1, <1>a DEF Slots
  <2>3. \A k \in 1 .. RecLen(ev[p]) - 1 : Ring'[s + k] = Ring[s + k]
    BY <1>3, <1>4, <1>6, <2>1
  <2>4. \A k \in 1 .. RecLen(ev[p]) - 1 : Ring'[s + k] = Image(p, ev[p])[k + 1]
    BY <1>3, <1>b, <2>3
  <2>5. Start(i)' = s
    BY <1>4, <1>9
  <2>6. Ring'[s] = ValidWord(p, ev[p])
    BY <1>6, <2>2
  <2>7. Whole(i)'
    BY <1>3, <1>g, <2>4, <2>5, <2>6 DEF Whole, StoredFrom
  <2> QED
    BY <1>2, <1>3, <1>g, <2>7 DEF ClaimWords, Erased
<1>12. Owners'
  <2>1. ASSUME NEW q \in Producers, Filling(q)'
        PROVE  \E j \in DOMAIN pending' : pending'[j].by = q /\ ~ pending'[j].done
    <3>1. q # p /\ Filling(q)
      BY <1>8, <2>1 DEF Filling
    <3>2. PICK j \in DOMAIN pending : pending[j].by = q /\ ~ pending[j].done
      BY <1>1, <3>1 DEF Owners
    <3>3. j # i
      BY <1>3, <3>1, <3>2
    <3> QED
      BY <1>9, <1>g, <3>2, <3>3
  <2>2. \A q \in Producers : pc'[q] = "args" => rec_off'[q] \in HeaderWords .. RecLen(ev'[q])
    BY <1>1, <1>2, <1>8 DEF Owners
  <2>3. \A j \in DOMAIN pending' : ~ pending'[j].done => Owned(j)'
    BY <1>9, <1>g
  <2> QED
    BY <2>1, <2>2, <2>3 DEF Owners
<1>13. Words'
  BY <1>9, <1>10 DEF Words
<1>14. Rewriting'
  <2>1. Finished(p, i)'
    BY <1>2, <1>3, <1>9, <1>g DEF Finished
  <2>2. InPlace(p)'
    BY <1>2, <1>8, <1>9, <2>1 DEF InPlace
  <2> QED
    BY <1>9, <2>2 DEF Rewriting
<1> QED
  BY <1>9, <1>12, <1>13, <1>14 DEF RecordInv

(* Steps that store no valid word, and only where no record is read:       *)
(* behind the window, or in a record the writer has copied.                *)
LEMMA Wiped ==
  ASSUME TypeInv, RecordInv,
         UNCHANGED <<trace_idx, writeout_idx, pending, ev, old_idx, rec_off, recordptr>>,
         \A q \in Producers : pc'[q] = pc[q] \/ (pc[q] = "rewrite" /\ pc'[q] = "check"),
         \A q \in Producers : pc'[q] = "rewrite" => hdr'[q] = hdr[q],
         wpc' = wpc \/ (wpc = "clear" /\ wpc' = "write"),
         \A x \in Slots : \/ Ring'[x] = Ring[x]
                          \/ ~ Ring'[x].msb /\ (x >= Window \/ (wpc' = "write" /\ x < End(1))),
         wpc' = "write" => \A x \in 0 .. End(1) - 1 : ~ Ring'[x].msb
  PROVE  RecordInv'
<1>1. /\ Tiled /\ Owners /\ Words /\ Ages /\ Rewriting /\ RecordsWrittenWhole /\ TypeOK
      /\ pending \in Seq(Claim) /\ TRACE_BUF_LEN \in Nat /\ Window \in Nat
  BY BufferAssumption, Geometry DEF RecordInv, TypeInv, TypeOK
<1>2. /\ Window' = Window
      /\ \A i \in DOMAIN pending : Start(i)' = Start(i) /\ End(i)' = End(i)
  BY DEF Window, Start, End
<1>3. Tiled'
  BY <1>1, <1>2 DEF Tiled
<1>4. \A q \in Producers : (Filling(q)' <=> Filling(q)) /\ (pc'[q] = "args" <=> pc[q] = "args")
  BY DEF Filling
<1>5. Owners'
  <2>1. ASSUME NEW i \in DOMAIN pending, ~ pending[i].done PROVE Owned(i)'
    <3>1. pending[i].by \in Producers
      BY <1>1, Geometry
    <3> QED
      BY <1>1, <1>2, <1>4, <2>1, <3>1 DEF Owners, Owned
  <2>2. \A q \in Producers : Filling(q)' =>
          \E i \in DOMAIN pending : pending[i].by = q /\ ~ pending[i].done
    BY <1>1, <1>4 DEF Owners
  <2>3. \A q \in Producers : pc'[q] = "args" => rec_off'[q] \in HeaderWords .. RecLen(ev'[q])
    BY <1>1, <1>4 DEF Owners
  <2> QED
    BY <2>1, <2>2, <2>3 DEF Owners
<1>6. Words'
  <2>1. FreeWords'
    <3>1. \A x \in Window .. TRACE_BUF_LEN - 1 : x \in Slots /\ ~ Ring[x].msb
      BY <1>1 DEF Words, FreeWords, Slots
    <3>2. \A x \in Window .. TRACE_BUF_LEN - 1 : ~ Ring'[x].msb
      BY <3>1
    <3> QED
      BY <1>2, <3>2 DEF FreeWords
  <2>2. ASSUME NEW j \in DOMAIN pending PROVE ClaimWords(j)'
    <3>1. CASE Erased(j)'
      <4>1. j = 1 /\ wpc' = "write"
        BY <3>1 DEF Erased
      <4>2. \A x \in 0 .. End(j)' - 1 : ~ Ring'[x].msb
        BY <1>2, <4>1
      <4> QED
        BY <3>1, <4>2 DEF ClaimWords
    <3>2. CASE ~ Erased(j)'
      <4>1. /\ ~ Erased(j) /\ ClaimWords(j) /\ pending[j].by \in Producers
            /\ Start(j) \in Nat /\ End(j) \in Nat /\ End(j) <= Window /\ Window <= TRACE_BUF_LEN
            /\ End(j) = Start(j) + RecLen(pending[j].ev) /\ RecLen(pending[j].ev) \in Nat
            /\ RecLen(pending[j].ev) >= 2
        BY <1>1, <3>2, Geometry DEF Words, Erased
      <4>2. wpc' = "write" => End(1) <= Start(j) /\ End(1) \in Nat
        <5>1. wpc' = "write" => 1 \in DOMAIN pending /\ j > 1
          BY <1>1, <3>2, Geometry DEF RecordsWrittenWhole, Erased
        <5> QED
          BY <1>1, <5>1, Geometry
      <4>3. \A x \in Start(j) .. End(j) - 1 : x \in Slots /\ Ring'[x] = Ring[x]
        <5> SUFFICES ASSUME NEW x \in Start(j) .. End(j) - 1
                     PROVE  x \in Slots /\ Ring'[x] = Ring[x]
          OBVIOUS
        <5>1. x \in Slots /\ ~ (x >= Window) /\ ~ (wpc' = "write" /\ x < End(1))
          BY <1>1, <4>1, <4>2 DEF Slots
        <5> QED
          BY <5>1
      <4>4. Ring'[Start(j)] = Ring[Start(j)]
        BY <4>1, <4>3
      <4>5. \A k \in 0 .. RecLen(pending[j].ev) - 1 : Ring'[Start(j) + k] = Ring[Start(j) + k]
        BY <4>1, <4>3
      <4>6. Start(j)' = Start(j)
        BY <1>2
      <4>7. pending[j].done => Whole(j)'
        BY <4>1, <4>4, <4>5, <4>6 DEF ClaimWords, Whole, StoredFrom
      <4>8. ~ pending[j].done => Partial(j)'
        <5> SUFFICES ASSUME ~ pending[j].done PROVE Partial(j)'
          OBVIOUS
        <5>1. Partial(j) /\ Owned(j)
          BY <1>1, <4>1 DEF ClaimWords, Owners
        <5>2. pc[pending[j].by] = "args" => rec_off[pending[j].by] \in HeaderWords .. RecLen(pending[j].ev)
          BY <1>1, <4>1, <5>1 DEF Owners, Owned
        <5>3. pc[pending[j].by] = "args" => StoredFrom(j, 0, rec_off[pending[j].by])'
          BY <4>1, <4>5, <4>6, <5>1, <5>2 DEF Partial, StoredFrom, HeaderWords
        <5>4. ~ Ring'[Start(j)].msb
          BY <4>4, <5>1 DEF Partial
        <5> QED
          BY <1>4, <4>1, <4>6, <5>3, <5>4 DEF Partial, StoredFrom
      <4> QED
        BY <3>2, <4>7, <4>8 DEF ClaimWords
    <3> QED
      BY <3>1, <3>2
  <2> QED
    BY <2>1, <2>2 DEF Words
<1>7. Ages'
  <2>1. \A q \in Producers : pc'[q] \in {"wait", "cas"} =>
          pc'[q] = pc[q] /\ ev'[q] = ev[q] /\ old_idx'[q] = old_idx[q]
    OBVIOUS
  <2>2. Window' \in Nat /\ Window' <= Window
    BY <1>1, <1>2
  <2> QED
    BY <1>1, <2>1, <2>2, AgesKept
<1>8. Rewriting'
  <2> SUFFICES ASSUME NEW q \in Producers, pc'[q] = "rewrite" PROVE InPlace(q)'
    BY DEF Rewriting
  <2>1. pc[q] = "rewrite" /\ hdr'[q] = hdr[q]
    OBVIOUS
  <2>2. InPlace(q)
    BY <1>1, <2>1 DEF Rewriting
  <2>3. ASSUME NEW j \in DOMAIN pending, Finished(q, j) PROVE Finished(q, j)'
    BY <1>2, <2>3 DEF Finished
  <2> QED
    BY <1>2, <2>1, <2>2, <2>3 DEF InPlace
<1>9. RecordsWrittenWhole'
  BY <1>1 DEF RecordsWrittenWhole
<1> QED
  BY <1>3, <1>5, <1>6, <1>7, <1>8, <1>9 DEF RecordInv

(* The record of a thread that has left the window is a buffer behind it.  *)
LEMMA BehindWindow ==
  ASSUME TypeOK, Tiled, NEW p \in Producers,
         USub(trace_idx, old_idx[p]) \in Window + HeaderWords .. TRACE_BUF_LEN + 1
  PROVE  \E c \in Slots : c >= Window /\ Slot(old_idx[p] + 1) = Slot(writeout_idx + c)
<1>1. PICK t \in Nat, o \in Nat, w \in Nat, a \in Nat, W \in Nat :
           /\ t = trace_idx /\ o = old_idx[p] /\ w = writeout_idx
           /\ a = USub(trace_idx, old_idx[p]) /\ W = Window
  <2>1. trace_idx \in Nat /\ old_idx[p] \in Nat /\ writeout_idx \in Nat
    BY BufferAssumption DEF TypeOK, Indexes
  <2>2. Window \in Nat /\ TRACE_BUF_LEN \in Nat
    BY Geometry, BufferAssumption
  <2>3. USub(trace_idx, old_idx[p]) \in Nat
    BY <2>2 DEF HeaderWords
  <2> QED
    BY <2>1, <2>2, <2>3
<1>2. PICK T \in Nat, U \in Nat : T = TRACE_BUF_LEN /\ U = UIntRange
  BY BufferAssumption
<1>3. a = IF t >= o THEN t - o ELSE t - o + U
  BY <1>1, <1>2, Unsigned DEF TypeOK
<1>4. W = IF t >= w THEN t - w ELSE t - w + U
  BY <1>1, <1>2, Unsigned DEF TypeOK, Tiled
<1>5. a >= W + 2 /\ a <= T + 1
  BY <1>1, <1>2 DEF HeaderWords
<1>6. PICK c \in Nat : c = W - a + 1 + T /\ c >= W /\ c < T
  BY <1>1, <1>2, <1>5
<1>7. /\ \A x \in Nat : Slot(x + U) = Slot(x) /\ Slot(x + T) = Slot(x)
  BY <1>2, SlotWraps
<1>8. \/ w + c = (o + 1) + T \/ w + c = ((o + 1) + T) + U \/ (w + c) + U = (o + 1) + T
  BY <1>3, <1>4, <1>6
<1>9. w + c \in Nat /\ o + 1 \in Nat /\ (o + 1) + T \in Nat
  BY <1>6
<1>10. Slot(w + c) = Slot(o + 1)
  BY <1>7, <1>8, <1>9
<1>11. c \in Slots
  BY <1>2, <1>6 DEF Slots
<1> QED
  BY <1>1, <1>6, <1>10, <1>11

(* The second half of trace_record_finish: the word is already there, or   *)
(* its record has been copied, or written out and left behind.             *)
LEMMA HeaderRewritten ==
  ASSUME TypeInv, RecordInv, NEW p \in Producers, RewriteHeader(p)
  PROVE  RecordInv'
<1>1. /\ TypeOK /\ Tiled /\ Words /\ Rewriting /\ RecordsWrittenWhole
      /\ pending \in Seq(Claim) /\ TRACE_BUF_LEN \in Nat
      /\ hdr \in [Producers -> Word] /\ trace_buf \in [Slots -> Word]
      /\ pc \in [Producers -> {"idle", "wait", "cas", "header", "args", "rewrite", "check", "kick"}]
      /\ writeout_idx \in Indexes /\ writeout_idx \in Nat /\ Window \in Nat
      /\ old_idx[p] \in Nat
  BY BufferAssumption, Geometry DEF TypeInv, TypeOK, RecordInv, Indexes
<1>2. /\ pc[p] = "rewrite" /\ pc' = [pc EXCEPT ![p] = "check"]
      /\ UNCHANGED <<trace_idx, writeout_idx, pending, ev, old_idx, rec_off, wpc, recordptr>>
      /\ hdr' = [hdr EXCEPT ![p] = ZeroWord]
      /\ trace_buf' = [trace_buf EXCEPT ![Slot(old_idx[p] + 1)] = hdr[p]]
  BY DEF RewriteHeader, Goto
<1>3. InPlace(p) /\ hdr[p] = DescWord(p, ev[p]) /\ ~ hdr[p].msb
  BY <1>1, <1>2 DEF Rewriting, InPlace, DescWord
<1>4. PICK c \in Slots :
        /\ Slot(old_idx[p] + 1) = Slot(writeout_idx + c)
        /\ \/ c >= Window \/ (wpc = "write" /\ c < End(1)) \/ Ring[c] = hdr[p]
  <2>1. ASSUME NEW i \in DOMAIN pending, Finished(p, i)
        PROVE  \E c \in Slots :
                 /\ Slot(old_idx[p] + 1) = Slot(writeout_idx + c)
                 /\ \/ c >= Window \/ (wpc = "write" /\ c < End(1)) \/ Ring[c] = hdr[p]
    <3>1. /\ Start(i) \in Nat /\ End(i) = Start(i) + RecLen(pending[i].ev)
          /\ RecLen(pending[i].ev) \in Nat /\ RecLen(pending[i].ev) >= 2
          /\ End(i) <= Window /\ Window <= TRACE_BUF_LEN /\ pending[i].ev \in Events
      BY <1>1, Geometry
    <3>2. PICK s \in Nat : s = Start(i)
      BY <3>1
    <3>3. s + 1 \in Slots /\ s \in 0 .. TRACE_BUF_LEN /\ writeout_idx + s + 1 = writeout_idx + (s + 1)
      BY <1>1, <3>1, <3>2 DEF Slots
    <3>4. Slot(old_idx[p] + 1) = Slot(writeout_idx + (s + 1))
      BY <1>1, <2>1, <3>2, <3>3, SlotUAdd DEF Finished
    <3>5. CASE Erased(i)
      BY <3>1, <3>2, <3>3, <3>4, <3>5 DEF Erased
    <3>6. CASE ~ Erased(i)
      <4>1. Whole(i)
        BY <1>1, <2>1, <3>6 DEF Words, ClaimWords, Finished
      <4>2. 1 \in 1 .. RecLen(pending[i].ev) - 1 /\ 1 + 1 = 2
        BY <3>1
      <4>3. Ring[s + 1] = Image(pending[i].by, pending[i].ev)[2]
        BY <3>2, <4>1, <4>2 DEF Whole, StoredFrom
      <4>4. Image(p, pending[i].ev)[2] = DescWord(p, pending[i].ev)
        BY <3>1, ImageWords
      <4>5. Ring[s + 1] = hdr[p]
        BY <1>3, <2>1, <4>3, <4>4 DEF Finished
      <4> QED
        BY <3>3, <3>4, <4>5
    <3> QED
      BY <3>5, <3>6
  <2>2. ASSUME USub(trace_idx, old_idx[p]) \in Window + HeaderWords .. TRACE_BUF_LEN + 1
        PROVE  \E c \in Slots : c >= Window /\ Slot(old_idx[p] + 1) = Slot(writeout_idx + c)
    BY <1>1, <2>2, BehindWindow
  <2> QED
    BY <1>3, <2>1, <2>2 DEF InPlace
<1>5. \A x \in Slots : Ring'[x] = IF x = c THEN hdr[p] ELSE Ring[x]
  <2> DEFINE y0 == Slot(UAdd(writeout_idx, c) + 0)
  <2>1. c \in Nat /\ c + 0 < TRACE_BUF_LEN /\ c + 0 = c /\ c \in 0 .. TRACE_BUF_LEN
        /\ writeout_idx + c + 0 = writeout_idx + c
    BY <1>1 DEF Slots
  <2>2. y0 \in Slots /\ y0 = Slot(writeout_idx + c)
    BY <1>1, <2>1, RingCell, SlotUAdd
  <2>3. trace_buf' = [trace_buf EXCEPT ![y0] = hdr[p]] /\ writeout_idx' = writeout_idx
    BY <1>2, <1>4, <2>2, Zenon
  <2> HIDE DEF y0
  <2>4. trace_buf'[y0] = hdr[p] /\ \A y \in Slots : y # y0 => trace_buf'[y] = trace_buf[y]
    BY <1>1, <2>2, <2>3
  <2>5. \A x \in Slots : Ring'[x] = IF x = c + 0 THEN trace_buf'[y0] ELSE Ring[x]
    BY <1>1, <2>1, <2>3, <2>4, RingWrite DEF y0
  <2> QED
    BY <2>1, <2>4, <2>5
<1>6. \A x \in Slots : \/ Ring'[x] = Ring[x]
                       \/ ~ Ring'[x].msb /\ (x >= Window \/ (wpc' = "write" /\ x < End(1)))
  BY <1>2, <1>3, <1>4, <1>5
<1>7. wpc' = "write" => \A x \in 0 .. End(1) - 1 : ~ Ring'[x].msb
  <2> SUFFICES ASSUME wpc = "write" PROVE \A x \in 0 .. End(1) - 1 : ~ Ring'[x].msb
    BY <1>2
  <2>1. 1 \in DOMAIN pending
    BY <1>1 DEF RecordsWrittenWhole
  <2>2. \A x \in 0 .. End(1) - 1 : ~ Ring[x].msb
    BY <1>1, <2>1 DEF Words, ClaimWords, Erased
  <2>3. \A x \in 0 .. End(1) - 1 : x \in Slots
    BY <1>1, <2>1, Geometry DEF Slots
  <2> QED
    BY <1>3, <1>5, <2>2, <2>3
<1>8. /\ \A q \in Producers : pc'[q] = pc[q] \/ (pc[q] = "rewrite" /\ pc'[q] = "check")
      /\ \A q \in Producers : pc'[q] = "rewrite" => hdr'[q] = hdr[q]
  BY <1>1, <1>2
<1> QED
  BY <1>2, <1>6, <1>7, <1>8, Wiped

(* Steps that only pass flags between the threads.                         *)
LEMMA FlagsOnly ==
  ASSUME TypeInv, RecordInv, UNCHANGED <<trace_buf, trace_idx, writeout_idx, prodVars, pending, recordptr>>,
         wpc' \in {"clear", "write"} \/ wpc \in {"clear", "write"} => wpc' = wpc
  PROVE  RecordInv'
<1>1. Calm
  BY DEF Calm, prodVars
<1>2. Tiled' /\ Owners' /\ Words' /\ Rewriting' /\ RecordsWrittenWhole'
  BY <1>1, CalmStep
<1>3. Window' = Window /\ trace_idx' = trace_idx /\ Window \in Nat
  BY <1>1, Geometry DEF Calm, Window, RecordInv, TypeInv
<1>4. \A q \in Producers : pc'[q] \in {"wait", "cas"} =>
        pc'[q] = pc[q] /\ ev'[q] = ev[q] /\ old_idx'[q] = old_idx[q]
  BY DEF prodVars
<1>5. Ages'
  BY <1>3, <1>4, AgesKept DEF RecordInv
<1> QED
  BY <1>2, <1>5 DEF RecordInv

(* A word with its top bit set at writeout_idx is the first of a claim     *)
(* that is finished, and all of its record is there.                       *)
LEMMA ValidIsWhole ==
  ASSUME TypeInv, RecordInv, wpc = "scan"
  PROVE  /\ Ring[0] = trace_buf[Slot(writeout_idx)]
         /\ Ring[0].msb => pending # <<>> /\ pending[1].done
         /\ pending # <<>> /\ pending[1].done => 1 \in DOMAIN pending /\ Whole(1) /\ Ring[0].msb
<1>1. /\ TypeOK /\ Tiled /\ Words /\ pending \in Seq(Claim) /\ TRACE_BUF_LEN \in Nat \ {0}
      /\ writeout_idx \in Nat /\ Window \in Nat /\ Start(1) = 0
  BY BufferAssumption, Geometry DEF TypeInv, TypeOK, RecordInv, Indexes
<1>2. 0 \in Slots /\ writeout_idx + 0 = writeout_idx
  BY <1>1 DEF Slots
<1>3. Ring[0] = trace_buf[Slot(writeout_idx)]
  BY <1>2 DEF Ring
<1>4. pending # <<>> => 1 \in DOMAIN pending /\ ~ Erased(1)
  BY <1>1 DEF Erased
<1>5. ASSUME pending # <<>>, pending[1].done PROVE Whole(1) /\ Ring[0].msb
  BY <1>1, <1>4, <1>5 DEF Words, ClaimWords, Whole, ValidWord
<1>6. ASSUME pending # <<>>, ~ pending[1].done PROVE ~ Ring[0].msb
  BY <1>1, <1>4, <1>6 DEF Words, ClaimWords, Partial
<1>7. ASSUME pending = <<>> PROVE ~ Ring[0].msb
  <2>1. Window = 0
    <3>1. Len(pending) = 0
      BY <1>7
    <3>2. Offsets(pending)[0] = 0
      BY <1>1, OffsetsOf
    <3> QED
      BY <3>1, <3>2 DEF Window
  <2> QED
    BY <1>1, <2>1 DEF Words, FreeWords
<1> QED
  BY <1>3, <1>4, <1>5, <1>6, <1>7

(* get_trace_record copies the oldest record as its producer stored it.    *)
LEMMA RecordCopied ==
  ASSUME TypeInv, RecordInv, CopyRecord
  PROVE  RecordInv'
<1>1. /\ TypeOK /\ Tiled /\ Words /\ pending \in Seq(Claim) /\ TRACE_BUF_LEN \in Nat
      /\ writeout_idx \in Nat /\ trace_buf \in [Slots -> Word]
      /\ Start(1) = 0 /\ Window <= TRACE_BUF_LEN /\ Window \in Nat
      /\ Owners /\ Ages /\ Rewriting
  BY BufferAssumption, Geometry DEF TypeInv, TypeOK, RecordInv, Indexes
<1>2. /\ wpc = "scan" /\ wpc' = "clear" /\ trace_buf[Slot(writeout_idx)].msb
      /\ recordptr' = RecordAt(writeout_idx, LengthIn(trace_buf[Slot(writeout_idx + 1)]))
      /\ UNCHANGED <<trace_buf, trace_idx, writeout_idx, prodVars, pending>>
  BY DEF CopyRecord
<1>3. pending # <<>> /\ pending[1].done /\ Whole(1) /\ 1 \in DOMAIN pending
  BY <1>2, ValidIsWhole
<1>4. PICK b \in Producers, e \in Events :
           /\ b = pending[1].by /\ e = pending[1].ev
           /\ RecLen(e) \in Nat /\ RecLen(e) >= 2 /\ RecLen(e) <= TRACE_BUF_LEN
  BY <1>1, <1>3, Geometry
<1>5. Ring[0] = ValidWord(b, e) /\ \A k \in 1 .. RecLen(e) - 1 : Ring[k] = Image(b, e)[k + 1]
  BY <1>1, <1>3, <1>4 DEF Whole, StoredFrom
<1>6. \A k \in 0 .. RecLen(e) - 1 : Ring[k] = trace_buf[Slot(writeout_idx + k)]
  BY <1>1, <1>4 DEF Ring, Slots
<1>7. LengthIn(trace_buf[Slot(writeout_idx + 1)]) = RecLen(e)
  <2>1. 1 \in 0 .. RecLen(e) - 1 /\ 1 \in 1 .. RecLen(e) - 1 /\ 1 + 1 = 2
    BY <1>4
  <2>2. trace_buf[Slot(writeout_idx + 1)] = Image(b, e)[2]
    BY <1>5, <1>6, <2>1
  <2>3. Image(b, e)[2] = DescWord(b, e)
    BY ImageWords
  <2>4. DescWord(b, e).ev = e
    BY DEF DescWord
  <2> QED
    BY <2>2, <2>3, <2>4 DEF LengthIn
<1>8. recordptr' = Image(b, e)
  <2>1. recordptr' = RecordAt(writeout_idx, RecLen(e))
    BY <1>2, <1>7
  <2>2. DOMAIN recordptr' = 1 .. RecLen(e) /\ recordptr' = [k \in 1 .. RecLen(e) |-> recordptr'[k]]
    BY <2>1 DEF RecordAt
  <2>3. DOMAIN Image(b, e) = 1 .. RecLen(e) /\ Image(b, e) = [k \in 1 .. RecLen(e) |-> Image(b, e)[k]]
    BY DEF Image
  <2>4. ASSUME NEW k \in 1 .. RecLen(e) PROVE recordptr'[k] = Image(b, e)[k]
    <3>1. CASE k = 1
      <4>1. recordptr'[k] = [trace_buf[Slot(writeout_idx)] EXCEPT !.msb = FALSE]
        BY <2>1, <3>1 DEF RecordAt
      <4>2. 0 \in 0 .. RecLen(e) - 1 /\ writeout_idx + 0 = writeout_idx
        BY <1>1, <1>4
      <4>3. trace_buf[Slot(writeout_idx)] = ValidWord(b, e)
        BY <1>5, <1>6, <4>2
      <4>4. recordptr'[k] = EventWord(b, e)
        BY <4>1, <4>3, ValidOf
      <4> QED
        BY <3>1, <4>4, ImageWords
    <3>2. CASE k # 1
      <4>1. recordptr'[k] = trace_buf[Slot(writeout_idx + k - 1)]
        BY <2>1, <3>2 DEF RecordAt
      <4>2. k - 1 \in 0 .. RecLen(e) - 1 /\ k - 1 \in 1 .. RecLen(e) - 1 /\ (k - 1) + 1 = k
            /\ writeout_idx + (k - 1) = writeout_idx + k - 1
        BY <1>1, <1>4, <3>2
      <4>3. Ring[k - 1] = trace_buf[Slot(writeout_idx + (k - 1))] /\ Ring[k - 1] = Image(b, e)[(k - 1) + 1]
        BY <1>5, <1>6, <4>2
      <4> QED
        BY <4>1, <4>2, <4>3
    <3> QED
      BY <3>1, <3>2
  <2> QED
    BY <2>2, <2>3, <2>4
<1>9. RecordsWrittenWhole'
  <2>1. Head(pending) = pending[1]
    BY <1>1, <1>3
  <2> QED
    BY <1>2, <1>3, <1>4, <1>8, <2>1 DEF RecordsWrittenWhole
<1>10. /\ Ring' = Ring /\ Window' = Window /\ Len(pending) \in Nat
       /\ \A i \in DOMAIN pending : Start(i)' = Start(i) /\ End(i)' = End(i)
  BY <1>1, <1>2 DEF Ring, Window, Start, End
<1>11. Tiled' /\ Ages'
  BY <1>1, <1>2, <1>10 DEF Tiled, Ages, prodVars
<1>12. Owners'
  BY <1>1, <1>2, <1>10 DEF Owners, Owned, Filling, prodVars
<1>13. Rewriting'
  BY <1>1, <1>2, <1>10 DEF Rewriting, InPlace, Finished, prodVars
<1>14. Words'
  <2>1. FreeWords'
    BY <1>1, <1>10 DEF Words, FreeWords
  <2>2. ASSUME NEW i \in DOMAIN pending PROVE ClaimWords(i)'
    <3>1. ClaimWords(i) /\ ~ Erased(i) /\ ~ Erased(i)'
      BY <1>1, <1>2 DEF Words, Erased
    <3>2. (Whole(i) => Whole(i)') /\ (Partial(i) => Partial(i)')
      BY <1>2, <1>10 DEF Whole, Partial, StoredFrom, prodVars
    <3> QED
      BY <1>2, <3>1, <3>2 DEF ClaimWords
  <2> QED
    BY <1>2, <2>1, <2>2 DEF Words
<1> QED
  BY <1>9, <1>11, <1>12, <1>13, <1>14 DEF RecordInv

(* clear_buffer_range clears the words of the copied record.               *)
LEMMA RangeCleared ==
  ASSUME TypeInv, RecordInv, clear_buffer_range
  PROVE  RecordInv'
<1>1. /\ TypeOK /\ Tiled /\ RecordsWrittenWhole /\ pending \in Seq(Claim) /\ TRACE_BUF_LEN \in Nat
      /\ writeout_idx \in Nat /\ Start(1) = 0 /\ Window \in Nat /\ Window <= TRACE_BUF_LEN
  BY BufferAssumption, Geometry DEF TypeInv, TypeOK, RecordInv, Indexes
<1>2. /\ wpc = "clear" /\ wpc' = "write"
      /\ trace_buf' = [s \in Slots |-> IF s \in SlotsFrom(writeout_idx, Len(recordptr))
                                         THEN ZeroWord ELSE trace_buf[s]]
      /\ UNCHANGED <<trace_idx, writeout_idx, prodVars, recordptr, pending>>
  BY DEF clear_buffer_range
<1>3. 1 \in DOMAIN pending /\ Head(pending) = pending[1]
      /\ recordptr = Image(pending[1].by, pending[1].ev)
  BY <1>1, <1>2 DEF RecordsWrittenWhole
<1>4. PICK L \in Nat : L = End(1) /\ L = Len(recordptr) /\ L <= TRACE_BUF_LEN
  <2>1. /\ pending[1].by \in Producers /\ pending[1].ev \in Events
        /\ End(1) = RecLen(pending[1].ev) /\ End(1) \in Nat /\ End(1) <= TRACE_BUF_LEN
    BY <1>1, <1>3, Geometry
  <2>2. Len(recordptr) = RecLen(pending[1].ev)
    BY <1>3, <2>1, ImageWords
  <2> QED
    BY <2>1, <2>2
<1>5. \A x \in Slots : Ring'[x] = IF x < L THEN ZeroWord ELSE Ring[x]
  <2> SUFFICES ASSUME NEW x \in Slots PROVE Ring'[x] = IF x < L THEN ZeroWord ELSE Ring[x]
    OBVIOUS
  <2>1. writeout_idx + x \in Nat /\ x \in Nat /\ x < TRACE_BUF_LEN
    BY <1>1 DEF Slots
  <2>2. Slot(writeout_idx + x) \in Slots
    BY <2>1, SlotType
  <2>3. Slot(writeout_idx + x) \in SlotsFrom(writeout_idx, Len(recordptr)) <=> x < L
    <3>1. ASSUME x < L PROVE Slot(writeout_idx + x) \in SlotsFrom(writeout_idx, Len(recordptr))
      <4>1. x \in 0 .. Len(recordptr) - 1
        BY <1>4, <2>1, <3>1
      <4> QED
        BY <4>1 DEF SlotsFrom
    <3>2. ASSUME Slot(writeout_idx + x) \in SlotsFrom(writeout_idx, Len(recordptr)) PROVE x < L
      <4>1. PICK k \in 0 .. L - 1 : Slot(writeout_idx + x) = Slot(writeout_idx + k)
        BY <1>4, <3>2 DEF SlotsFrom
      <4>2. writeout_idx + k \in Nat /\ k \in Nat /\ k < TRACE_BUF_LEN
        BY <1>1, <1>4
      <4>3. writeout_idx + x = writeout_idx + k
        BY <1>1, <2>1, <4>1, <4>2, SlotInjective
      <4> QED
        BY <1>1, <1>4, <2>1, <4>2, <4>3
    <3> QED
      BY <3>1, <3>2
  <2>4. Ring[x] = trace_buf[Slot(writeout_idx + x)] /\ Ring'[x] = trace_buf'[Slot(writeout_idx + x)]
    BY <1>2 DEF Ring
  <2>5. trace_buf'[Slot(writeout_idx + x)] =
          IF Slot(writeout_idx + x) \in SlotsFrom(writeout_idx, Len(recordptr))
            THEN ZeroWord ELSE trace_buf[Slot(writeout_idx + x)]
    BY <1>2, <2>2
  <2> QED
    BY <2>3, <2>4, <2>5
<1>6. ~ ZeroWord.msb
  BY DEF ZeroWord
<1>7. \A x \in Slots : \/ Ring'[x] = Ring[x]
                       \/ ~ Ring'[x].msb /\ (x >= Window \/ (wpc' = "write" /\ x < End(1)))
  BY <1>2, <1>4, <1>5, <1>6
<1>8. \A x \in 0 .. End(1) - 1 : ~ Ring'[x].msb
  <2>1. \A x \in 0 .. L - 1 : x \in Slots /\ x < L
    BY <1>1, <1>4 DEF Slots
  <2> QED
    BY <1>4, <1>5, <1>6, <2>1
<1>9. UNCHANGED <<pc, ev, old_idx, rec_off, hdr>>
  BY <1>2 DEF prodVars
<1> QED
  BY <1>2, <1>7, <1>8, <1>9, Wiped

(* Releasing the words of the oldest record moves the other claims up.     *)
LEMMA RecordReleased ==
  ASSUME TypeInv, RecordInv, WriteRecord
  PROVE  RecordInv'
<1>1. /\ TypeOK /\ Tiled /\ Owners /\ Words /\ Ages /\ Rewriting /\ RecordsWrittenWhole
      /\ pending \in Seq(Claim) /\ TRACE_BUF_LEN \in Nat /\ UIntRange \in Nat
      /\ UIntRange > 2 * TRACE_BUF_LEN
      /\ writeout_idx \in Indexes /\ writeout_idx \in Nat /\ trace_idx \in Indexes
      /\ Start(1) = 0 /\ Window \in Nat /\ Window <= TRACE_BUF_LEN
  BY BufferAssumption, Geometry DEF TypeInv, TypeOK, RecordInv, Indexes
<1>2. /\ wpc = "write" /\ wpc' = "scan" /\ writeout_idx' = UAdd(writeout_idx, Len(recordptr))
      /\ UNCHANGED <<trace_buf, trace_idx, prodVars>>
  BY DEF WriteRecord
<1>3. /\ pending # <<>> /\ 1 \in DOMAIN pending /\ pending[1].done
      /\ recordptr = Image(pending[1].by, pending[1].ev)
  <2>1. pending # <<>> /\ Head(pending).done /\ recordptr = Image(Head(pending).by, Head(pending).ev)
    BY <1>1, <1>2 DEF RecordsWrittenWhole
  <2>2. Head(pending) = pending[1] /\ 1 \in DOMAIN pending
    BY <1>1, <2>1
  <2> QED
    BY <2>1, <2>2
<1>4. pending' = Tail(pending)
  BY <1>3 DEF WriteRecord
<1>5. PICK L \in Nat : /\ L = End(1) /\ L = Len(recordptr) /\ L = RecLen(pending[1].ev)
                       /\ L >= 2 /\ L <= Window
  <2>1. /\ pending[1].by \in Producers /\ pending[1].ev \in Events
        /\ End(1) = RecLen(pending[1].ev) /\ End(1) \in Nat /\ End(1) <= Window
        /\ RecLen(pending[1].ev) >= 2
    BY <1>1, <1>3, Geometry
  <2>2. Len(recordptr) = RecLen(pending[1].ev)
    BY <1>3, <2>1, ImageWords
  <2> QED
    BY <2>1, <2>2
<1>6. PICK n \in Nat : n = Len(pending) /\ n >= 1 /\ DOMAIN pending = 1 .. n
  BY <1>1, <1>3
<1>7. /\ DOMAIN pending' = 1 .. n - 1 /\ Len(pending') = n - 1
      /\ \A i \in 1 .. n - 1 : pending'[i] = pending[i + 1]
      /\ \A i \in 0 .. n - 1 : Offsets(pending')[i] = Offsets(pending)[i + 1] - L
  BY <1>1, <1>3, <1>4, <1>5, <1>6, OffsetsTail
<1>8. Window' = Window - L
  <2>1. n - 1 \in 0 .. n - 1 /\ (n - 1) + 1 = n
    BY <1>6
  <2> QED
    BY <1>6, <1>7, <2>1 DEF Window
<1>9. \A i \in 1 .. n - 1 :
        /\ i + 1 \in DOMAIN pending /\ i + 1 # 1
        /\ Start(i)' = Start(i + 1) - L /\ End(i)' = End(i + 1) - L
        /\ Start(i + 1) \in Nat /\ End(i + 1) \in Nat /\ Start(i + 1) >= L
        /\ End(i + 1) <= TRACE_BUF_LEN /\ End(i + 1) = Start(i + 1) + RecLen(pending[i + 1].ev)
        /\ RecLen(pending[i + 1].ev) \in Nat /\ RecLen(pending[i + 1].ev) >= 2
        /\ pending[i + 1].by \in Producers /\ pending[i + 1].ev \in Events
  <2> SUFFICES ASSUME NEW i \in 1 .. n - 1
               PROVE  /\ i + 1 \in DOMAIN pending /\ i + 1 # 1
                      /\ Start(i)' = Start(i + 1) - L /\ End(i)' = End(i + 1) - L
                      /\ Start(i + 1) \in Nat /\ End(i + 1) \in Nat /\ Start(i + 1) >= L
                      /\ End(i + 1) <= TRACE_BUF_LEN
                      /\ End(i + 1) = Start(i + 1) + RecLen(pending[i + 1].ev)
                      /\ RecLen(pending[i + 1].ev) \in Nat /\ RecLen(pending[i + 1].ev) >= 2
                      /\ pending[i + 1].by \in Producers /\ pending[i + 1].ev \in Events
    OBVIOUS
  <2>1. i + 1 \in DOMAIN pending /\ i + 1 # 1 /\ 1 < i + 1 /\ i \in 0 .. n - 1
        /\ i - 1 \in 0 .. n - 1 /\ (i - 1) + 1 = i /\ (i + 1) - 1 = i
    BY <1>6
  <2>2. Start(i)' = Start(i + 1) - L /\ End(i)' = End(i + 1) - L
    BY <1>7, <2>1 DEF Start, End
  <2>3. /\ Start(i + 1) \in Nat /\ End(i + 1) \in Nat /\ End(1) <= Start(i + 1)
        /\ End(i + 1) <= Window /\ End(i + 1) = Start(i + 1) + RecLen(pending[i + 1].ev)
        /\ RecLen(pending[i + 1].ev) \in Nat /\ RecLen(pending[i + 1].ev) >= 2
        /\ pending[i + 1].by \in Producers /\ pending[i + 1].ev \in Events
    BY <1>1, <1>3, <2>1, Geometry
  <2> QED
    BY <1>1, <1>5, <2>1, <2>2, <2>3
<1>10. \A x \in Slots : /\ x + L < TRACE_BUF_LEN => Ring'[x] = Ring[x + L]
                        /\ x + L >= TRACE_BUF_LEN => Ring'[x] = Ring[x + L - TRACE_BUF_LEN]
  <2> SUFFICES ASSUME NEW x \in Slots
               PROVE  /\ x + L < TRACE_BUF_LEN => Ring'[x] = Ring[x + L]
                      /\ x + L >= TRACE_BUF_LEN => Ring'[x] = Ring[x + L - TRACE_BUF_LEN]
    OBVIOUS
  <2>1. x \in Nat /\ x < TRACE_BUF_LEN /\ L \in 0 .. TRACE_BUF_LEN
        /\ writeout_idx + L + x = writeout_idx + (x + L)
    BY <1>1, <1>5 DEF Slots
  <2>2. Ring'[x] = trace_buf[Slot(writeout_idx + (x + L))]
    <3>1. Ring'[x] = trace_buf[Slot(UAdd(writeout_idx, L) + x)]
      BY <1>2, <1>5 DEF Ring
    <3>2. Slot(UAdd(writeout_idx, L) + x) = Slot(writeout_idx + L + x)
      BY <1>1, <2>1, SlotUAdd
    <3> QED
      BY <2>1, <3>1, <3>2
  <2>3. CASE x + L < TRACE_BUF_LEN
    <3>1. x + L \in Slots
      BY <1>1, <2>1, <2>3 DEF Slots
    <3> QED
      BY <1>1, <2>1, <2>2, <2>3, <3>1 DEF Ring
  <2>4. CASE x + L >= TRACE_BUF_LEN
    <3>1. PICK z \in Nat : z = x + L - TRACE_BUF_LEN
      BY <1>1, <2>1, <2>4
    <3>2. z \in Slots /\ writeout_idx + z \in Nat
          /\ (writeout_idx + z) + TRACE_BUF_LEN = writeout_idx + (x + L)
      <4>1. z < TRACE_BUF_LEN
        BY <1>1, <2>1, <3>1
      <4>2. z \in Slots
        BY <1>1, <4>1 DEF Slots
      <4> QED
        BY <1>1, <2>1, <3>1, <4>2
    <3>3. Slot(writeout_idx + (x + L)) = Slot(writeout_idx + z)
      BY <3>2, SlotWraps
    <3>4. Ring[z] = trace_buf[Slot(writeout_idx + z)]
      BY <3>2 DEF Ring
    <3> QED
      BY <1>1, <2>1, <2>2, <2>4, <3>1, <3>3, <3>4
  <2> QED
    BY <1>1, <2>1, <2>3, <2>4
<1>11. Tiled'
  <2>1. USub(trace_idx, UAdd(writeout_idx, L)) = USub(trace_idx, writeout_idx) - L
    BY <1>1, <1>5, Retreat DEF Tiled
  <2> QED
    BY <1>1, <1>2, <1>5, <1>8, <2>1 DEF Tiled
<1>12. \A i \in 1 .. n - 1 : UAdd(writeout_idx', Start(i)') = UAdd(writeout_idx, Start(i + 1))
  <2> SUFFICES ASSUME NEW i \in 1 .. n - 1
               PROVE  UAdd(UAdd(writeout_idx, L), Start(i + 1) - L) = UAdd(writeout_idx, Start(i + 1))
    BY <1>2, <1>5, <1>9
  <2>1. /\ Start(i + 1) \in Nat /\ L <= Start(i + 1)
        /\ Start(i + 1) + RecLen(pending[i + 1].ev) <= TRACE_BUF_LEN
        /\ RecLen(pending[i + 1].ev) \in Nat
    BY <1>9
  <2>2. Start(i + 1) < UIntRange
    BY <1>1, <2>1
  <2> QED
    BY <1>1, <2>1, <2>2, UAddMoves
<1>13. Owners'
  <2>1. ASSUME NEW i \in 1 .. n - 1, ~ pending'[i].done PROVE Owned(i)'
    <3>1. ~ pending[i + 1].done /\ pending'[i] = pending[i + 1] /\ i + 1 \in DOMAIN pending
      BY <1>7, <1>9, <2>1
    <3>2. Owned(i + 1)
      BY <1>1, <3>1 DEF Owners
    <3> QED
      BY <1>2, <1>12, <3>1, <3>2 DEF Owned, Filling, prodVars
  <2>2. ASSUME NEW q \in Producers, Filling(q)'
        PROVE  \E i \in 1 .. n - 1 : pending'[i].by = q /\ ~ pending'[i].done
    <3>1. Filling(q)
      BY <1>2, <2>2 DEF Filling, prodVars
    <3>2. PICK j \in DOMAIN pending : pending[j].by = q /\ ~ pending[j].done
      BY <1>1, <3>1 DEF Owners
    <3>3. j - 1 \in 1 .. n - 1 /\ (j - 1) + 1 = j
      BY <1>3, <1>6, <3>2
    <3> QED
      BY <1>7, <3>2, <3>3
  <2>3. \A q \in Producers : pc'[q] = "args" => rec_off'[q] \in HeaderWords .. RecLen(ev'[q])
    BY <1>1, <1>2 DEF Owners, prodVars
  <2> QED
    BY <1>7, <2>1, <2>2, <2>3 DEF Owners
<1>14. FreeWords'
  <2> SUFFICES ASSUME NEW x \in Window - L .. TRACE_BUF_LEN - 1 PROVE ~ Ring'[x].msb
    BY <1>8 DEF FreeWords
  <2>1. x \in Slots /\ x \in Int
    BY <1>1, <1>5 DEF Slots
  <2>2. CASE x + L < TRACE_BUF_LEN
    <3>1. x + L \in Window .. TRACE_BUF_LEN - 1
      BY <1>1, <1>5, <2>1, <2>2
    <3> QED
      BY <1>1, <1>10, <2>1, <2>2, <3>1 DEF Words, FreeWords
  <2>3. CASE x + L >= TRACE_BUF_LEN
    <3>1. x + L - TRACE_BUF_LEN \in 0 .. End(1) - 1
      BY <1>1, <1>5, <2>1, <2>3
    <3>2. Erased(1) /\ ClaimWords(1)
      BY <1>1, <1>2, <1>3 DEF Erased, Words
    <3> QED
      BY <1>10, <2>1, <2>3, <3>1, <3>2 DEF ClaimWords
  <2> QED
    BY <1>1, <1>5, <2>1, <2>2, <2>3
<1>15. ASSUME NEW i \in 1 .. n - 1 PROVE ClaimWords(i)'
  <2>1. pending'[i] = pending[i + 1] /\ ~ Erased(i)' /\ ~ Erased(i + 1) /\ ClaimWords(i + 1)
    BY <1>1, <1>2, <1>7, <1>9 DEF Erased, Words
  <2>2. PICK s \in Nat : s = Start(i)' /\ s + L = Start(i + 1)
    BY <1>5, <1>9
  <2>3. /\ s + L + RecLen(pending[i + 1].ev) <= TRACE_BUF_LEN
        /\ RecLen(pending[i + 1].ev) \in Nat /\ RecLen(pending[i + 1].ev) >= 2
    BY <1>9, <2>2
  <2>4. \A k \in 0 .. RecLen(pending[i + 1].ev) - 1 : Ring'[s + k] = Ring[Start(i + 1) + k]
    <3> SUFFICES ASSUME NEW k \in 0 .. RecLen(pending[i + 1].ev) - 1
                 PROVE  Ring'[s + k] = Ring[(s + L) + k]
      BY <2>2
    <3>1. k \in Nat /\ k < RecLen(pending[i + 1].ev)
      BY <2>3
    <3>2. (s + k) + L < TRACE_BUF_LEN /\ (s + k) + L = (s + L) + k
      BY <1>1, <2>3, <3>1
    <3>3. s + k \in Slots
      BY <1>1, <3>1, <3>2 DEF Slots
    <3> QED
      BY <1>10, <3>2, <3>3
  <2>5. Ring'[s] = Ring[Start(i + 1)]
    <3>1. 0 \in 0 .. RecLen(pending[i + 1].ev) - 1 /\ s + 0 = s /\ Start(i + 1) + 0 = Start(i + 1)
      BY <1>9, <2>2, <2>3
    <3> QED
      BY <2>4, <3>1
  <2>6. Whole(i + 1) => Whole(i)'
    BY <2>1, <2>2, <2>3, <2>4, <2>5 DEF Whole, StoredFrom
  <2>7. ~ pending[i + 1].done /\ Partial(i + 1) => Partial(i)'
    <3> SUFFICES ASSUME ~ pending[i + 1].done, Partial(i + 1) PROVE Partial(i)'
      OBVIOUS
    <3>1. Owned(i + 1) /\ pending[i + 1].by \in Producers
      BY <1>1, <1>9 DEF Owners
    <3>2. pc[pending[i + 1].by] = "args" =>
            rec_off[pending[i + 1].by] \in HeaderWords .. RecLen(pending[i + 1].ev)
      BY <1>1, <3>1 DEF Owners, Owned
    <3>3. pc[pending[i + 1].by] = "args" =>
            \A k \in 0 .. rec_off[pending[i + 1].by] - 1 :
              Ring'[s + k] = Image(pending[i + 1].by, pending[i + 1].ev)[k + 1]
      BY <2>3, <2>4, <3>2 DEF Partial, StoredFrom, HeaderWords
    <3> QED
      BY <1>2, <2>1, <2>2, <2>5, <3>3 DEF Partial, StoredFrom, prodVars
  <2> QED
    BY <2>1, <2>6, <2>7 DEF ClaimWords
<1>16. Words'
  BY <1>7, <1>14, <1>15 DEF Words
<1>17. Ages'
  <2>1. \A q \in Producers : pc'[q] \in {"wait", "cas"} =>
          pc'[q] = pc[q] /\ ev'[q] = ev[q] /\ old_idx'[q] = old_idx[q]
    BY <1>2 DEF prodVars
  <2>2. Window' \in Nat /\ Window' <= Window
    BY <1>1, <1>5, <1>8
  <2> QED
    BY <1>1, <1>2, <2>1, <2>2, AgesKept
<1>18. Rewriting'
  <2> SUFFICES ASSUME NEW q \in Producers, pc[q] = "rewrite" PROVE InPlace(q)'
    BY <1>2 DEF Rewriting, prodVars
  <2>1. InPlace(q) /\ hdr'[q] = hdr[q] /\ ev'[q] = ev[q] /\ old_idx'[q] = old_idx[q]
    BY <1>1, <1>2 DEF Rewriting, prodVars
  <2>2. ASSUME NEW j \in DOMAIN pending, j # 1, Finished(q, j)
        PROVE  \E i \in DOMAIN pending' : Finished(q, i)'
    <3>1. j - 1 \in 1 .. n - 1 /\ (j - 1) + 1 = j
      BY <1>6, <2>2
    <3>2. pending'[j - 1] = pending[j] /\ UAdd(writeout_idx', Start(j - 1)') = UAdd(writeout_idx, Start(j))
      BY <1>7, <1>12, <3>1
    <3>3. Finished(q, j - 1)'
      BY <2>1, <2>2, <3>2 DEF Finished
    <3> QED
      BY <1>7, <3>1, <3>3
  <2>3. ASSUME Finished(q, 1)
        PROVE  USub(trace_idx', old_idx'[q]) \in Window' + HeaderWords .. TRACE_BUF_LEN + 1
    <3>1. old_idx[q] = writeout_idx
      <4>1. UAdd(writeout_idx, 0) = writeout_idx
        BY <1>1, Unsigned DEF Indexes
      <4> QED
        BY <1>1, <2>3, <4>1 DEF Finished
    <3>2. USub(trace_idx', old_idx'[q]) = Window
      BY <1>1, <1>2, <2>1, <3>1 DEF Tiled
    <3> QED
      BY <1>1, <1>5, <1>8, <3>2 DEF HeaderWords
  <2>4. ASSUME USub(trace_idx, old_idx[q]) \in Window + HeaderWords .. TRACE_BUF_LEN + 1
        PROVE  USub(trace_idx', old_idx'[q]) \in Window' + HeaderWords .. TRACE_BUF_LEN + 1
    BY <1>1, <1>2, <1>5, <1>8, <2>1, <2>4 DEF HeaderWords
  <2> QED
    BY <2>1, <2>2, <2>3, <2>4 DEF InPlace
<1>19. RecordsWrittenWhole'
  BY <1>2 DEF RecordsWrittenWhole
<1> QED
  BY <1>11, <1>13, <1>16, <1>17, <1>18, <1>19 DEF RecordInv

---------------------------------------------------------------------------
(* st_init leaves an empty ring.                                           *)
LEMMA InitRecords == Init => RecordInv
<1> SUFFICES ASSUME Init PROVE RecordInv
  OBVIOUS
<1>1. /\ pending = <<>> /\ trace_idx = 0 /\ writeout_idx = 0 /\ wpc = "await"
      /\ \A s \in Slots : trace_buf[s] = ZeroWord
      /\ \A p \in Producers : pc[p] = "idle"
  BY DEF Init
<1>2. pending \in Seq(Claim) /\ Len(pending) = 0 /\ DOMAIN pending = {}
  BY <1>1
<1>3. Window = 0
  <2>1. Offsets(pending)[0] = 0
    BY <1>2, OffsetsOf
  <2> QED
    BY <1>2, <2>1 DEF Window
<1>4. 0 \in Indexes /\ TRACE_BUF_LEN \in Nat
  BY BufferAssumption DEF Indexes
<1>5. Tiled
  <2>1. USub(0, 0) = 0
    BY <1>4, Unsigned
  <2> QED
    BY <1>1, <1>3, <1>4, <2>1 DEF Tiled
<1>6. FreeWords
  <2> SUFFICES ASSUME NEW x \in 0 .. TRACE_BUF_LEN - 1 PROVE ~ Ring[x].msb
    BY <1>3 DEF FreeWords
  <2>1. x \in Slots /\ 0 + x \in Nat
    BY <1>4 DEF Slots
  <2>2. Slot(0 + x) \in Slots
    BY <2>1, SlotType
  <2>3. Ring[x] = ZeroWord
    BY <1>1, <2>1, <2>2 DEF Ring
  <2> QED
    BY <2>3 DEF ZeroWord
<1>7. Words /\ Owners /\ Ages /\ Rewriting /\ RecordsWrittenWhole
  BY <1>1, <1>2, <1>6 DEF Words, Owners, Filling, Ages, Rewriting, RecordsWrittenWhole
<1> QED
  BY <1>5, <1>7 DEF RecordInv

(* Every step of every thread keeps the records where they are.            *)
LEMMA RecordStep == NotLapped /\ TypeInv /\ RecordInv /\ [Next]_vars => RecordInv'
<1> SUFFICES ASSUME NotLapped, TypeInv, RecordInv, [Next]_vars PROVE RecordInv'
  OBVIOUS
<1>1. ASSUME NEW p \in Producers, NEW e \in Events, StartRecord(p, e) PROVE RecordInv'
  BY <1>1, StartRecords
<1>2. ASSUME NEW p \in Producers, ProducerStep(p) PROVE RecordInv'
  BY <1>2, SpaceFound, SpaceClaimed, ClaimsFail, HeaderWritten, ArgumentWritten, MarkedValid,
     HeaderRewritten, ThresholdChecked DEF ProducerStep
<1>3. ASSUME WriterStep PROVE RecordInv'
  <2>1. CASE wait_for_trace_records_available
    BY <2>1, FlagsOnly DEF wait_for_trace_records_available
  <2>2. CASE ScanEmpty \/ Fflush
    BY <2>2, FlagsOnly DEF ScanEmpty, Fflush
  <2> QED
    BY <1>3, <2>1, <2>2, RecordCopied, RangeCleared, RecordReleased DEF WriterStep
<1>4. ASSUME NEW op \in MonitorOps, MonitorCommand(op) PROVE RecordInv'
  BY <1>4, FlagsOnly DEF MonitorCommand
<1>5. ASSUME MonitorStep PROVE RecordInv'
  <2>1. UNCHANGED <<trace_buf, trace_idx, writeout_idx, prodVars, pending, recordptr>>
    BY <1>5 DEF MonitorStep, EnabledNoChange, FlushAndWait, HaltWriteout, SecondFlush, OpenFile,
       CloseFile, ResumeWriteout, ResumeKick, Cleanup
  <2>2. wpc' = wpc \/ (wpc = "asleep" /\ wpc' = "await")
    BY <1>5 DEF MonitorStep, EnabledNoChange, FlushAndWait, HaltWriteout, SecondFlush, OpenFile,
       CloseFile, ResumeWriteout, ResumeKick, Cleanup, flush_trace_file, WakeWriter
  <2> QED
    BY <2>1, <2>2, FlagsOnly
<1>6. CASE UNCHANGED vars
  BY <1>6, FlagsOnly DEF vars
<1> QED
  BY <1>1, <1>2, <1>3, <1>4, <1>5, <1>6 DEF Next

(* The inductive invariant of the ring.                                    *)
THEOREM RingInvariant ==
  ASSUME NotLapped
  PROVE  Spec => [](TypeInv /\ RecordInv)
<1>1. TypeInv /\ RecordInv /\ [Next]_vars => RecordInv'
  BY RecordStep
<1> QED
  BY <1>1, InitType, TypeStep, InitRecords, PTL DEF Spec

(* No two records share a word of trace_buf, the window between            *)
(* writeout_idx and trace_idx never exceeds the buffer, and a thread that  *)
(* fills a record is at its claim.                                         *)
THEOREM ClaimsTile ==
  ASSUME NotLapped
  PROVE  Spec => []ClaimsTileWindow
<1>1. TypeInv /\ RecordInv => ClaimsTileWindow
  <2> SUFFICES ASSUME TypeInv, RecordInv PROVE ClaimsTileWindow
    OBVIOUS
  <2>1. Tiled /\ TypeOK /\ Owners /\ RecordsWrittenWhole
    BY DEF TypeInv, RecordInv
  <2>2. ASSUME NEW p \in Producers, pc[p] \in {"header", "args"}
        PROVE  \E i \in DOMAIN pending :
                 /\ pending[i].by = p /\ ~ pending[i].done
                 /\ old_idx[p] = UAdd(writeout_idx, Offsets(pending)[i - 1])
    BY <2>1, <2>2, OwnClaim DEF Filling, Start
  <2> QED
    BY <2>1, <2>2 DEF ClaimsTileWindow, Tiled, Window
<1> QED
  BY <1>1, RingInvariant, PTL

(* Records reach the trace file whole, once and in the order in which      *)
(* their words were claimed.                                               *)
THEOREM RecordsWhole ==
  ASSUME NotLapped
  PROVE  Spec => []RecordsWrittenWhole
<1>1. RecordInv => RecordsWrittenWhole
  BY DEF RecordInv
<1> QED
  BY <1>1, RingInvariant, PTL

(* Every slot of the buffer is a cell of the ring.                         *)
LEMMA EverySlot ==
  ASSUME TypeOK, NEW s \in Slots
  PROVE  \E x \in Slots : s = Slot(writeout_idx + x)
<1>1. PICK T \in Nat \ {0}, w \in Nat : T = TRACE_BUF_LEN /\ w = writeout_idx
  BY BufferAssumption DEF TypeOK, Indexes
<1>2. s \in 0 .. T - 1
  BY <1>1 DEF Slots
<1>3. PICK q \in Int, r \in 0 .. T - 1 : w = T * q + r
  <2>1. T \in Int /\ T > 0 /\ w \in Int
    BY <1>1
  <2>2. w \div T \in Int /\ (w % T) \in 0 .. T - 1 /\ w = T * (w \div T) + (w % T)
    BY <2>1, DivMod
  <2> QED
    BY <2>2, Zenon
<1>4. CASE s >= r
  <2>1. w + (s - r) = T * q + s
    BY <1>2, <1>3
  <2>2. w + (s - r) \in Int /\ s - r \in Slots
    BY <1>1, <1>2, <1>3, <1>4 DEF Slots
  <2>3. (w + (s - r)) % T = s
    BY <1>1, <1>2, <1>3, <2>1, <2>2, ModUnique
  <2> QED
    BY <1>1, <2>2, <2>3 DEF Slot
<1>5. CASE s < r
  <2>1. T * (q + 1) = T * q + T
    BY <1>1, <1>3
  <2>2. w + (s - r + T) = T * (q + 1) + s
    BY <1>1, <1>2, <1>3, <2>1
  <2>3. w + (s - r + T) \in Int /\ s - r + T \in Slots /\ q + 1 \in Int
    BY <1>1, <1>2, <1>3, <1>5 DEF Slots
  <2>4. (w + (s - r + T)) % T = s
    BY <1>1, <1>2, <2>2, <2>3, ModUnique
  <2> QED
    BY <1>1, <2>3, <2>4 DEF Slot
<1> QED
  BY <1>2, <1>3, <1>4, <1>5

(* The writer never takes left-over words for a record.                    *)
THEOREM NoStrayWord ==
  ASSUME NotLapped
  PROVE  Spec => []NoStrayValidWord
<1>1. TypeInv /\ RecordInv => NoStrayValidWord
  <2> SUFFICES ASSUME TypeInv, RecordInv,
                      NEW s \in Slots \ SlotsFrom(writeout_idx, USub(trace_idx, writeout_idx))
               PROVE  ~ trace_buf[s].msb
    BY DEF NoStrayValidWord
  <2>1. TypeOK /\ Tiled /\ FreeWords /\ TRACE_BUF_LEN \in Nat /\ Window \in Nat
        /\ Window = USub(trace_idx, writeout_idx)
    BY Geometry, BufferAssumption DEF TypeInv, RecordInv, Words, Tiled
  <2>2. PICK x \in Slots : s = Slot(writeout_idx + x)
    BY <2>1, EverySlot
  <2>3. x \notin 0 .. Window - 1
    BY <2>1, <2>2 DEF SlotsFrom
  <2>4. x \in Window .. TRACE_BUF_LEN - 1
    BY <2>1, <2>3 DEF Slots
  <2>5. Ring[x] = trace_buf[s]
    BY <2>2 DEF Ring
  <2> QED
    BY <2>1, <2>4, <2>5 DEF FreeWords
<1> QED
  BY <1>1, RingInvariant, PTL

---------------------------------------------------------------------------
(***************************************************************************)
(* What a flush owes.  FlushComplete alone is not inductive: while records *)
(* are owed the monitor thread waits, writeout is enabled, the writer is   *)
(* scanning or has been told to, and the owed records are the oldest ones  *)
(* and finished, so the scan cannot end before they are written.           *)
(***************************************************************************)
FlushInv ==
  /\ owed > 0 => /\ cpc \in {"empty1", "emptyF"} /\ trace_writeout_enabled
                 /\ trace_available \/ wpc \in {"scan", "clear", "write"}
  /\ \A i \in 1 .. owed : i \in DOMAIN pending /\ pending[i].done

(* The finished claims without an unfinished one in front are the first.   *)
LEMMA PrefixDone ==
  ASSUME TypeOK, NEW i \in 1 .. FinishedPrefix
  PROVE  i \in DOMAIN pending /\ pending[i].done
<1> DEFINE S == {n \in DOMAIN pending : \A j \in 1 .. n : pending[j].done}
           R == {n \in DOMAIN pending : ~ pending[n].done}
<1>1. PICK n \in Nat : n = Len(pending) /\ DOMAIN pending = 1 .. n
  BY DEF TypeOK
<1>2. FinishedPrefix = Cardinality(S)
  BY DEF FinishedPrefix
<1>3. CASE R = {}
  <2>1. S = 1 .. n
    BY <1>1, <1>3
  <2>2. Cardinality(1 .. n) = n
    <3>1. 1 \in Int /\ n \in Int
      BY <1>1
    <3>2. Cardinality(1 .. n) = IF 1 > n THEN 0 ELSE n - 1 + 1
      BY <3>1, FS_Interval, Zenon
    <3> QED
      BY <1>1, <3>2
  <2>3. i \in 1 .. n
    BY <1>2, <2>1, <2>2
  <2> QED
    BY <1>1, <1>3, <2>3
<1>4. CASE R # {}
  <2>1. R \in SUBSET Nat
    BY <1>1
  <2>2. PICK m \in R : \A k \in R : m <= k
    BY <1>4, <2>1, LeastOf, Zenon
  <2>3. m \in 1 .. n /\ ~ pending[m].done
    BY <1>1
  <2>4. \A j \in 1 .. m - 1 : j \in DOMAIN pending /\ pending[j].done
    BY <1>1, <2>2, <2>3
  <2>5. S = 1 .. m - 1
    <3>1. ASSUME NEW k \in S PROVE k \in 1 .. m - 1
      <4>1. ~ (m \in 1 .. k) /\ k \in 1 .. n
        BY <1>1, <2>3
      <4> QED
        BY <2>3, <4>1
    <3>2. ASSUME NEW k \in 1 .. m - 1 PROVE k \in S
      <4>1. k \in DOMAIN pending
        BY <2>4
      <4>2. \A j \in 1 .. k : j \in 1 .. m - 1
        BY <2>3
      <4> QED
        BY <2>4, <4>1, <4>2
    <3> QED
      BY <3>1, <3>2
  <2>6. Cardinality(1 .. m - 1) = m - 1
    <3>1. 1 \in Int /\ m - 1 \in Int /\ Cardinality(1 .. m - 1) = IF 1 > m - 1 THEN 0 ELSE (m - 1) - 1 + 1
      BY <2>3, FS_Interval
    <3> QED
      BY <2>3, <3>1
  <2>7. i \in 1 .. m - 1
    BY <1>2, <2>5, <2>6
  <2> QED
    BY <2>4, <2>7
<1> QED
  BY <1>3, <1>4

(* Steps that keep the finished claims in front.                           *)
LEMMA OwedKept ==
  ASSUME TypeOK, FlushInv, owed' = owed,
         \A i \in DOMAIN pending : i \in DOMAIN pending' /\ (pending[i].done => pending'[i].done)
  PROVE  \A i \in 1 .. owed' : i \in DOMAIN pending' /\ pending'[i].done
BY DEF FlushInv

(* Every step keeps what a flush owes.                                     *)
LEMMA FlushStep == TypeInv /\ RecordInv /\ FlushInv /\ [Next]_vars => FlushInv'
<1> SUFFICES ASSUME TypeInv, RecordInv, FlushInv, [Next]_vars PROVE FlushInv'
  OBVIOUS
<1>0. TypeOK /\ pending \in Seq(Claim) /\ owed \in Nat /\ DOMAIN pending = 1 .. Len(pending)
      /\ Len(pending) \in Nat
  BY DEF TypeInv, TypeOK
<1>a. ASSUME owed' = owed, UNCHANGED <<cpc, trace_writeout_enabled>>,
             trace_available' = trace_available \/ trace_available' = TRUE,
             wpc' = wpc \/ (wpc = "asleep" /\ wpc' = "await"),
             \A i \in DOMAIN pending : i \in DOMAIN pending' /\ (pending[i].done => pending'[i].done)
      PROVE  FlushInv'
  BY <1>0, <1>a, OwedKept DEF FlushInv
<1>b. ASSUME owed' = 0 PROVE FlushInv'
  BY <1>b DEF FlushInv
<1>1. ASSUME NEW p \in Producers, NEW e \in Events, StartRecord(p, e) PROVE FlushInv'
  BY <1>1, <1>a DEF StartRecord, ctlVars
<1>2. ASSUME NEW p \in Producers, ProducerStep(p) PROVE FlushInv'
  <2>1. CASE ClaimSpace(p)
    <3>1. \A i \in DOMAIN pending : i \in DOMAIN pending' /\ pending'[i] = pending[i]
      BY <1>0, <2>1 DEF ClaimSpace
    <3> QED
      BY <1>a, <2>1, <3>1 DEF ClaimSpace, ctlVars
  <2>2. CASE MarkValid(p)
    <3>1. \A c \in Claim : [c EXCEPT !.done = TRUE].done
      BY DEF Claim
    <3>2. \A i \in DOMAIN pending : pending[i] \in Claim
      BY <1>0
    <3>3. \A i \in DOMAIN pending : i \in DOMAIN Finish(p) /\ (pending[i].done => Finish(p)[i].done)
      BY <3>1, <3>2 DEF Finish
    <3> QED
      BY <1>a, <2>2, <3>3 DEF MarkValid, ctlVars
  <2>3. CASE KickWriter(p)
    BY <1>a, <2>3 DEF KickWriter, flush_trace_file, WakeWriter, ctlVars
  <2>4. CASE WaitForBuffer(p) \/ ClaimFailed(p) \/ WriteHeader(p) \/ trace_record_write_u64(p)
             \/ RewriteHeader(p) \/ CheckThreshold(p)
    BY <1>a, <2>4 DEF WaitForBuffer, ClaimFailed, WriteHeader, trace_record_write_u64,
       RewriteHeader, CheckThreshold, ctlVars
  <2> QED
    BY <1>2, <2>1, <2>2, <2>3, <2>4 DEF ProducerStep
<1>3. ASSUME WriterStep PROVE FlushInv'
  <2>1. CASE wait_for_trace_records_available
    BY <1>0, <2>1 DEF wait_for_trace_records_available, SignalEmpty, FlushInv
  <2>2. CASE ScanEmpty
    <3>1. owed = 0
      <4>1. ASSUME owed > 0 PROVE FALSE
        <5>1. 1 \in DOMAIN pending /\ pending[1].done
          BY <1>0, <4>1 DEF FlushInv
        <5>2. pending # <<>>
          BY <1>0, <5>1
        <5> QED
          BY <2>2, <5>1, <5>2, ValidIsWhole DEF ScanEmpty
      <4> QED
        BY <1>0, <4>1
    <3> QED
      BY <1>b, <2>2, <3>1 DEF ScanEmpty
  <2>3. CASE CopyRecord \/ clear_buffer_range
    BY <2>3 DEF CopyRecord, clear_buffer_range, ctlVars, FlushInv
  <2>4. CASE WriteRecord
    <3>1. CASE owed = 0
      BY <1>b, <2>4, <3>1 DEF WriteRecord
    <3>2. CASE owed > 0
      <4>1. owed' = owed - 1 /\ wpc' = "scan" /\ UNCHANGED <<cpc, trace_writeout_enabled>>
        BY <1>0, <2>4, <3>2 DEF WriteRecord, ctlVars
      <4>2. \A i \in 1 .. owed : i \in DOMAIN pending /\ pending[i].done
        BY DEF FlushInv
      <4>3. pending # <<>> /\ pending' = Tail(pending)
        <5>1. 1 \in DOMAIN pending
          BY <1>0, <3>2, <4>2
        <5>2. pending # <<>>
          BY <1>0, <5>1
        <5> QED
          BY <2>4, <5>2 DEF WriteRecord
      <4>4. /\ DOMAIN pending' = 1 .. Len(pending) - 1
            /\ \A i \in 1 .. Len(pending) - 1 : pending'[i] = pending[i + 1]
        BY <1>0, <4>3
      <4>5. ASSUME NEW i \in 1 .. owed - 1 PROVE i \in DOMAIN pending' /\ pending'[i].done
        <5>1. i + 1 \in 1 .. owed
          BY <1>0
        <5>2. i + 1 \in DOMAIN pending /\ pending[i + 1].done
          BY <4>2, <5>1
        <5>3. i \in 1 .. Len(pending) - 1
          BY <1>0, <5>2
        <5> QED
          BY <4>4, <5>2, <5>3
      <4> QED
        BY <1>0, <3>2, <4>1, <4>5 DEF FlushInv
    <3> QED
      BY <1>0, <3>1, <3>2
  <2>5. CASE Fflush
    BY <2>5 DEF Fflush, ctlVars, FlushInv
  <2> QED
    BY <1>3, <2>1, <2>2, <2>3, <2>4, <2>5 DEF WriterStep
<1>4. ASSUME NEW op \in MonitorOps, MonitorCommand(op) PROVE FlushInv'
  BY <1>4, <1>a DEF MonitorCommand
<1>5. ASSUME MonitorStep PROVE FlushInv'
  <2>1. CASE EnabledNoChange
    BY <1>a, <2>1 DEF EnabledNoChange
  <2>2. CASE FlushAndWait
    <3>1. CASE trace_writeout_enabled
      <4>1. owed' = FinishedPrefix /\ UNCHANGED <<pending, trace_writeout_enabled>>
            /\ trace_available' = TRUE /\ cpc' \in {"empty1", "emptyF"}
        BY <2>2, <3>1 DEF FlushAndWait, flush_trace_file
      <4>2. \A i \in 1 .. owed' : i \in DOMAIN pending' /\ pending'[i].done
        BY <1>0, <4>1, PrefixDone
      <4> QED
        BY <3>1, <4>1, <4>2 DEF FlushInv
    <3>2. CASE ~ trace_writeout_enabled
      BY <1>b, <2>2, <3>2 DEF FlushAndWait
    <3> QED
      BY <3>1, <3>2
  <2>3. CASE HaltWriteout \/ Cleanup
    BY <1>b, <2>3 DEF HaltWriteout, Cleanup
  <2>4. CASE SecondFlush \/ OpenFile \/ CloseFile \/ ResumeWriteout \/ ResumeKick
    <3>1. cpc \notin {"empty1", "emptyF"} /\ owed' = owed
      BY <2>4 DEF SecondFlush, OpenFile, CloseFile, ResumeWriteout, ResumeKick
    <3>2. owed' = 0
      BY <1>0, <3>1 DEF FlushInv
    <3> QED
      BY <1>b, <3>2
  <2> QED
    BY <1>5, <2>1, <2>2, <2>3, <2>4 DEF MonitorStep
<1>6. CASE UNCHANGED vars
  BY <1>6, <1>a DEF vars, ctlVars
<1> QED
  BY <1>1, <1>2, <1>3, <1>4, <1>5, <1>6 DEF Next

(* When flush_trace_file(true) returns, the records that were finished     *)
(* when it was called have been written, whatever was claimed meanwhile.   *)
THEOREM FlushDone ==
  ASSUME NotLapped
  PROVE  Spec => []FlushComplete
<1>1. Init => FlushInv
  BY DEF Init, FlushInv
<1>2. TypeInv /\ FlushInv => FlushComplete
  BY DEF TypeInv, TypeOK, FlushInv, FlushComplete
<1> QED
  BY <1>1, <1>2, FlushStep, RingInvariant, PTL DEF Spec
=============================================================================
