----------------------------- MODULE DramProofs -----------------------------
(* The DRAM channel for every size of its queues, every geometry and every  *)
(* timing.  operate takes a channel through five stages; each is shown to   *)
(* keep ChannelInv and to change who is held by the read queue in the way   *)
(* it should.                                                               *)
EXTENDS Dram, FiniteSetTheorems, NaturalsInduction, WellFoundedInduction, TLAPS

(* No two packets of a queue have the same address.                         *)
Unique(c) ==
  \A q \in Queues : \A i, j \in Occupied(c[q]) : c[q][i].address = c[q][j].address => i = j

(* Nobody waits for a write.                                                *)
WritesUnawaited(c) == \A i \in Slots.WQ : c.WQ[i].to_return = {}

(* Only the bus may be used by the other queue than that of the mode.       *)
Directed(c) ==
  \A k \in Banks : c.bank_request[k].valid /\ k # c.active_request =>
     c.bank_request[k].queue = ModeQueue(c)

(* What every stage of operate keeps.                                       *)
ChannelInv(c) ==
  /\ c \in ChannelType
  /\ BanksMatch(c)
  /\ Directed(c)
  /\ Unique(c)
  /\ WritesUnawaited(c)

-----------------------------------------------------------------------------
(* What std::find_if finds: the first slot, if there is any.                *)
LEMMA FirstIn ==
  ASSUME NEW S \in SUBSET Nat, S # {}
  PROVE  First(S) \in S /\ \A j \in S : First(S) <= j
<1>1. PICK x \in S : \A y \in S : ~(<<y, x>> \in OpToRel(<, Nat))
  BY NatLessThanWellFounded, WFMin
<1>2. ASSUME NEW y \in S, y < x  PROVE FALSE
  <2>1. <<y, x>> \in OpToRel(<, Nat)
    BY <1>2, Zenon DEF OpToRel
  <2> QED
    BY <1>1, <2>1
<1>3. \A y \in S : x <= y
  BY <1>2
<1> QED
  BY <1>3 DEF First

(* What std::min_element finds is one of the elements.                      *)
LEMMA SoonestIn ==
  ASSUME NEW S \in SUBSET Nat, IsFiniteSet(S), S # {},
         NEW when, \A k \in S : when[k] \in Int
  PROVE  Soonest(S, when) \in S
<1> DEFINE Upto(k) == {j \in S : when[j] <= when[k]}
           Sizes   == {Cardinality(Upto(k)) : k \in S}
<1>1. \A k \in S : IsFiniteSet(Upto(k)) /\ Cardinality(Upto(k)) \in Nat
  BY FS_Subset, FS_CardinalityType
<1>2. Sizes \subseteq Nat /\ Sizes # {}
  BY <1>1
<1>3. PICK n \in Sizes : \A m \in Sizes : n <= m
  BY <1>2, FirstIn
<1>4. PICK k \in S : n = Cardinality(Upto(k))
  OBVIOUS
<1>5. ASSUME NEW j \in S, when[j] < when[k]  PROVE FALSE
  <2>0. \A i \in S : when[i] <= when[j] => when[i] <= when[k]
    BY <1>5
  <2>1. Upto(j) \subseteq Upto(k) /\ k \in Upto(k) /\ k \notin Upto(j)
    <3>1. when[k] <= when[k] /\ ~(when[k] <= when[j])
      BY <1>5
    <3> QED
      BY <2>0, <3>1
  <2>2. Cardinality(Upto(j)) <= Cardinality(Upto(k)) /\ Cardinality(Upto(j)) # Cardinality(Upto(k))
    BY <2>1, <1>1, FS_Subset
  <2>3. n <= Cardinality(Upto(j))
    BY <1>3
  <2> HIDE DEF Upto
  <2> QED
    BY <2>2, <2>3, <1>1, <1>4, <1>5
<1>6. \A j \in S : when[k] <= when[j]
  BY <1>5
<1>7. {i \in S : \A j \in S : when[i] <= when[j]} # {}
  BY <1>6
<1> QED
  BY <1>7, FirstIn DEF Soonest

(* Every block has a bank and a row (dram_get_rank, _bank, _row).           *)
LEMMA Geometry ==
  /\ NumBanks \in Nat \ {0}
  /\ \A b \in Nat : OpIdx(b) \in Banks /\ dram_get_row(b) \in 0 .. DRAM_ROWS
<1> USE DramSizes
<1>0. \A x, y \in Nat \ {0} : x * y \in Nat \ {0}
  OBVIOUS
<1>1. NumBanks \in Nat \ {0}
  BY <1>0 DEF NumBanks
<1>2. \A b \in Nat, d \in Nat \ {0} : b % d \in 0 .. d - 1 /\ b \div d \in Nat
  OBVIOUS
<1>3. ASSUME NEW r \in 0 .. DRAM_RANKS - 1, NEW k \in 0 .. DRAM_BANKS - 1
      PROVE  r * DRAM_BANKS + k \in 0 .. DRAM_RANKS * DRAM_BANKS - 1
  <2>1. (r + 1) * DRAM_BANKS <= DRAM_RANKS * DRAM_BANKS
    OBVIOUS
  <2> QED
    BY <2>1
<1>4. ASSUME NEW b \in Nat
      PROVE  OpIdx(b) \in Banks /\ dram_get_row(b) \in 0 .. DRAM_ROWS
  <2>1. dram_get_bank(b) \in 0 .. DRAM_BANKS - 1
    BY <1>2 DEF dram_get_bank
  <2>2. DRAM_BANKS * DRAM_COLUMNS \in Nat \ {0} /\ DRAM_RANKS * DRAM_BANKS * DRAM_COLUMNS \in Nat \ {0}
    BY <1>0
  <2>3. dram_get_rank(b) \in 0 .. DRAM_RANKS - 1
    BY <1>2, <2>2 DEF dram_get_rank
  <2>4. dram_get_row(b) \in 0 .. DRAM_ROWS - 1
    BY <1>2, <2>2 DEF dram_get_row
  <2>5. OpIdx(b) \in Banks
    BY <1>3, <2>1, <2>3 DEF OpIdx, Banks, NumBanks
  <2> QED
    BY <2>4, <2>5
<1> QED
  BY <1>1, <1>4

-----------------------------------------------------------------------------
(* The queues have finitely many slots.                                    *)
LEMMA SlotsFinite ==
  \A q \in Queues : Slots[q] \in SUBSET Nat /\ IsFiniteSet(Slots[q])
<1>1. Slots["RQ"] = 1 .. RQ_SIZE /\ Slots["WQ"] = 1 .. WQ_SIZE
  BY DEF Slots
<1>2. /\ 1 .. RQ_SIZE \subseteq Nat /\ 1 .. WQ_SIZE \subseteq Nat
      /\ IsFiniteSet(1 .. RQ_SIZE) /\ IsFiniteSet(1 .. WQ_SIZE)
  BY DramSizes, DramWriteQueue, FS_Interval
<1> QED
  BY <1>1, <1>2 DEF Queues

(* What a stage of operate needs of the channel.                            *)
LEMMA Types ==
  ASSUME NEW c, c \in ChannelType
  PROVE  /\ \A q \in Queues : c[q] \in [Slots[q] -> PacketType] /\ Slots[q] \in SUBSET Nat
         /\ c.bank_request \in [Banks -> BankType]
         /\ c.active_request \in 0 .. NumBanks
         /\ OnBus(c) => c.active_request \in Banks
<1>1. NumBanks \in Nat
  BY Geometry
<1>2. \A q \in Queues : c[q] \in [Slots[q] -> PacketType]
  BY DEF ChannelType, Queues, Slots
<1>3. \A q \in Queues : Slots[q] \in SUBSET Nat
  BY SlotsFinite
<1> QED
  BY <1>1, <1>2, <1>3 DEF ChannelType, OnBus, Banks

(* Who waits for what, slot by slot.                                        *)
LEMMA HeldBy ==
  ASSUME NEW Q, NEW x
  PROVE  x \in Held(Q) <=> \E i \in Occupied(Q) : x \in Q[i].to_return \X {Q[i].address}
BY Zenon DEF Held

(* Finishing the request on the bus answers exactly those who wait for it.  *)
LEMMA FinishInv ==
  ASSUME NEW c, ChannelInv(c)
  PROVE  /\ ChannelInv(FinishRequest(c))
         /\ Held(FinishRequest(c).RQ) = Held(c.RQ) \ ReturnsTo(c)
<1>1. CASE ~Finishes(c)
  BY <1>1 DEF FinishRequest, ReturnsTo
<1>2. CASE Finishes(c)
  <2> DEFINE k == c.active_request
             q == c.bank_request[k].queue
             i == c.bank_request[k].pkt
             d == FinishRequest(c)
  <2>1. k \in Banks /\ c.bank_request[k].valid /\ q \in Queues /\ i \in Slots[q] /\ IsValid(c[q][i])
    BY <1>2, Types DEF ChannelInv, Finishes, BanksMatch, Bus, BankType
  <2>2. d = [c EXCEPT !.RQ = Cleared(c, "RQ"), !.WQ = Cleared(c, "WQ"),
                      !.bank_request = [c.bank_request EXCEPT ![k] = Idle(c.bank_request[k].open_row)],
                      !.active_request = NumBanks]
    BY <1>2, <2>1, Types DEF FinishRequest, ChannelInv
  <2>3. NoPacket \in PacketType /\ ~IsValid(NoPacket) /\ NoPacket.to_return = {} /\ ~NoPacket.scheduled
    BY DEF NoPacket, Packet, PacketType, IsValid
  <2>4. Idle(c.bank_request[k].open_row) \in BankType /\ ~Idle(c.bank_request[k].open_row).valid
    BY <2>1, Types DEF ChannelInv, Idle, BankType, Queues
  <2>5. \A p \in Queues : Cleared(c, p) \in [Slots[p] -> PacketType]
    BY <2>3, Types DEF ChannelInv, Cleared
  <2>6. d \in ChannelType
    <3>1. Cleared(c, "RQ") \in [Slots.RQ -> PacketType] /\ Cleared(c, "WQ") \in [Slots.WQ -> PacketType]
      BY <2>5 DEF Queues
    <3>2. [c.bank_request EXCEPT ![k] = Idle(c.bank_request[k].open_row)] \in [Banks -> BankType]
      BY <2>1, <2>4, Types DEF ChannelInv
    <3>3. NumBanks \in 0 .. NumBanks
      BY Geometry
    <3> QED
      BY <2>2, <3>1, <3>2, <3>3 DEF ChannelInv, ChannelType
  <2>7. /\ d.RQ = Cleared(c, "RQ") /\ d.WQ = Cleared(c, "WQ") /\ d.active_request = NumBanks
        /\ d.bank_request = [c.bank_request EXCEPT ![k] = Idle(c.bank_request[k].open_row)]
        /\ d.write_mode = c.write_mode
    BY <2>2 DEF ChannelInv, ChannelType
  <2>10. \A p \in Queues : \A j \in Slots[p] :
            d[p][j] = IF p = q /\ j = i THEN NoPacket ELSE c[p][j]
    BY <2>7 DEF Cleared, Queues, Bus
  <2>11. \A j \in Banks : d.bank_request[j] =
            IF j = k THEN Idle(c.bank_request[k].open_row) ELSE c.bank_request[j]
    BY <2>1, <2>7, Types DEF ChannelInv
  <2>12. BanksMatch(d)
    <3> HIDE DEF d, k, q, i
    <3>1. ASSUME NEW m \in Banks, d.bank_request[m].valid
          PROVE  LET B == d.bank_request[m]
                 IN  /\ B.pkt \in Slots[B.queue] /\ IsValid(d[B.queue][B.pkt])
                     /\ d[B.queue][B.pkt].scheduled /\ OpIdx(d[B.queue][B.pkt].address) = m
      <4>1. m # k /\ d.bank_request[m] = c.bank_request[m]
        BY <2>4, <2>11, <3>1
      <4>2. c.bank_request[m].queue \in Queues
        BY Types DEF ChannelInv, BankType
      <4>3. ~(c.bank_request[m].queue = q /\ c.bank_request[m].pkt = i)
        BY <4>1, <3>1, <2>1 DEF ChannelInv, BanksMatch, q, i
      <4> QED
        BY <2>10, <4>1, <4>2, <4>3, <3>1 DEF ChannelInv, BanksMatch
    <3>2. ASSUME NEW p \in Queues, NEW j \in Slots[p], d[p][j].scheduled
          PROVE  \E m \in Banks : /\ d.bank_request[m].valid /\ d.bank_request[m].queue = p
                                  /\ d.bank_request[m].pkt = j
      <4>1. ~(p = q /\ j = i) /\ c[p][j].scheduled
        BY <2>3, <2>10, <3>2
      <4>2. PICK m \in Banks : /\ c.bank_request[m].valid /\ c.bank_request[m].queue = p
                               /\ c.bank_request[m].pkt = j
        BY <4>1 DEF ChannelInv, BanksMatch
      <4>3. m # k
        BY <4>1, <4>2 DEF q, i
      <4> QED
        BY <2>11, <4>2, <4>3
    <3>3. ~OnBus(d)
      BY <2>7 DEF OnBus
    <3> QED
      BY <3>1, <3>2, <3>3 DEF BanksMatch
  <2>13. Directed(d)
    BY <2>4, <2>7, <2>11 DEF ChannelInv, Directed, ModeQueue
  <2>14. Unique(d)
    BY <2>3, <2>6, <2>10, Types DEF ChannelInv, Unique, Occupied
  <2>15. WritesUnawaited(d)
    BY <2>3, <2>10 DEF ChannelInv, WritesUnawaited, Queues
  <2>16. Held(d.RQ) = Held(c.RQ) \ ReturnsTo(c)
    <3> HIDE DEF d, k, q, i
    <3>1. ReturnsTo(c) = c[q][i].to_return \X {c[q][i].address}
      BY <1>2 DEF ReturnsTo, Bus, k, q, i
    <3>2. DOMAIN d.RQ = Slots["RQ"] /\ DOMAIN c.RQ = Slots["RQ"]
      BY <2>6 DEF ChannelInv, ChannelType
    <3>3. \A j \in Slots["RQ"] : d.RQ[j] = IF "RQ" = q /\ j = i THEN NoPacket ELSE c.RQ[j]
      BY <2>10 DEF Queues
    <3>4. CASE q = "WQ"
      <4>1. ReturnsTo(c) = {}
        BY <3>1, <3>4, <2>1 DEF ChannelInv, WritesUnawaited
      <4>2. Occupied(d.RQ) = Occupied(c.RQ) /\ \A j \in Occupied(c.RQ) : d.RQ[j] = c.RQ[j]
        BY <3>2, <3>3, <3>4 DEF Occupied
      <4> QED
        BY <4>1, <4>2 DEF Held
    <3>5. CASE q = "RQ"
      <4>1. Occupied(d.RQ) = Occupied(c.RQ) \ {i} /\ \A j \in Occupied(c.RQ) \ {i} : d.RQ[j] = c.RQ[j]
        BY <3>2, <3>3, <3>5, <2>3 DEF Occupied
      <4>2. i \in Occupied(c.RQ)
        BY <2>1, <3>2, <3>5 DEF Occupied
      <4>3. \A j \in Occupied(c.RQ) \ {i} : c.RQ[j].address # c.RQ[i].address
        BY <4>2 DEF ChannelInv, Unique, Queues
      <4>4. ASSUME NEW x \in Held(d.RQ)  PROVE x \in Held(c.RQ) \ ReturnsTo(c)
        <5>1. PICK j \in Occupied(c.RQ) \ {i} : x \in c.RQ[j].to_return \X {c.RQ[j].address}
          BY <4>1, <4>4, HeldBy
        <5>2. x \notin ReturnsTo(c)
          BY <3>1, <3>5, <4>3, <5>1
        <5> QED
          BY <5>1, <5>2, HeldBy
      <4>5. ASSUME NEW x \in Held(c.RQ) \ ReturnsTo(c)  PROVE x \in Held(d.RQ)
        <5>1. PICK j \in Occupied(c.RQ) : x \in c.RQ[j].to_return \X {c.RQ[j].address}
          BY <4>5, HeldBy
        <5>2. j # i
          BY <3>1, <3>5, <4>5, <5>1
        <5> QED
          BY <4>1, <5>1, <5>2, HeldBy
      <4> QED
        BY <4>4, <4>5
    <3> QED
      BY <2>1, <3>4, <3>5 DEF Queues
  <2> QED
    BY <2>6, <2>12, <2>13, <2>14, <2>15, <2>16 DEF ChannelInv
<1> QED
  BY <1>1, <1>2

(* The later stages leave addresses and waiting levels alone.               *)
SameRequests(c, d) ==
  \A q \in Queues : \A i \in Slots[q] :
     d[q][i].address = c[q][i].address /\ d[q][i].to_return = c[q][i].to_return

(* Then nobody is lost from the queue and no block is queued twice.         *)
LEMMA SameHeld ==
  ASSUME NEW c, c \in ChannelType, Unique(c), WritesUnawaited(c),
         NEW d, d \in ChannelType, SameRequests(c, d)
  PROVE  Unique(d) /\ WritesUnawaited(d) /\ Held(d.RQ) = Held(c.RQ)
<1>1. \A q \in Queues : /\ Occupied(d[q]) = Occupied(c[q]) /\ Occupied(c[q]) \subseteq Slots[q]
  BY Types DEF SameRequests, Occupied, IsValid
<1>2. Unique(d)
  BY <1>1 DEF Unique, SameRequests
<1>3. WritesUnawaited(d)
  BY DEF WritesUnawaited, SameRequests, Queues
<1>4. \A x : x \in Held(d.RQ) <=> x \in Held(c.RQ)
  <2>1. Occupied(d.RQ) = Occupied(c.RQ)
    BY <1>1 DEF Queues
  <2>2. \A i \in Occupied(c.RQ) : d.RQ[i].address = c.RQ[i].address /\ d.RQ[i].to_return = c.RQ[i].to_return
    BY <1>1 DEF SameRequests, Queues
  <2> QED
    BY <2>1, <2>2, HeldBy
<1> QED
  BY <1>2, <1>3, <1>4

(* A packet whose state changes is still the same request.                  *)
LEMMA PacketWaits ==
  ASSUME NEW p \in PacketType, NEW t \in Int
  PROVE  /\ Pending(p, t) \in PacketType /\ ~Pending(p, t).scheduled
         /\ Pending(p, t).address = p.address /\ Pending(p, t).to_return = p.to_return
BY DEF PacketType, Pending

(* So is one that is scheduled.                                             *)
LEMMA PacketMarked ==
  ASSUME NEW p \in PacketType
  PROVE  /\ InService(p) \in PacketType /\ InService(p).scheduled
         /\ InService(p).address = p.address /\ InService(p).to_return = p.to_return
<1>1. Never \in Int
  BY DEF Never
<1> QED
  BY <1>1 DEF PacketType, InService

(* A mode switch leaves no packet marked whose bank was taken from it.      *)
LEMMA SwitchInv ==
  ASSUME NEW c, ChannelInv(c)
  PROVE  ChannelInv(SwitchMode(c)) /\ Held(SwitchMode(c).RQ) = Held(c.RQ)
<1>1. CASE ~Unbalanced(c)
  BY <1>1 DEF SwitchMode
<1>2. CASE Unbalanced(c)
  <2> DEFINE row(k) == IF c.bank_request[k].event_cycle < tCAS THEN NoRow ELSE c.bank_request[k].open_row
             B == [k \in Banks |-> IF k \notin Withdrawn(c) THEN c.bank_request[k] ELSE Idle(row(k))]
             t == TURN_AROUND_TIME + (IF OnBus(c) THEN Bus(c).event_cycle ELSE 0)
             d == SwitchMode(c)
  <2>1. d = [c EXCEPT !.RQ = Requeued(c, "RQ"), !.WQ = Requeued(c, "WQ"), !.bank_request = B,
                      !.dbus_cycle_available = t, !.write_mode = ~c.write_mode]
    BY <1>2 DEF SwitchMode, ChannelInv, ChannelType
  <2>2. \A q \in Queues : Requeued(c, q) \in [Slots[q] -> PacketType]
    <3>1. ASSUME NEW q \in Queues, NEW i \in Slots[q]
          PROVE  Pending(c[q][i], 0) \in PacketType /\ c[q][i] \in PacketType
      <4>1. c[q][i] \in PacketType
        BY Types DEF ChannelInv
      <4> QED
        BY <4>1, PacketWaits
    <3> QED
      BY <3>1 DEF Requeued
  <2>3. \A k \in Banks : Idle(row(k)) \in BankType /\ ~Idle(row(k)).valid
    BY Types, DramSizes DEF ChannelInv, Idle, BankType, Queues, NoRow
  <2>4. B \in [Banks -> BankType]
    BY <2>3, Types DEF ChannelInv
  <2>5. t \in Int
    BY Types, DramSizes DEF ChannelInv, Bus, BankType
  <2> HIDE DEF B, t
  <2>6. d \in ChannelType
    <3>1. Requeued(c, "RQ") \in [Slots.RQ -> PacketType] /\ Requeued(c, "WQ") \in [Slots.WQ -> PacketType]
      BY <2>2 DEF Queues
    <3> QED
      BY <2>1, <2>4, <2>5, <3>1 DEF ChannelInv, ChannelType
  <2>7. /\ d.RQ = Requeued(c, "RQ") /\ d.WQ = Requeued(c, "WQ") /\ d.bank_request = B
        /\ d.active_request = c.active_request
    BY <2>1 DEF ChannelInv, ChannelType
  <2>8. \A q \in Queues : \A i \in Slots[q] : d[q][i] =
          IF \E k \in Withdrawn(c) : c.bank_request[k].queue = q /\ c.bank_request[k].pkt = i
          THEN Pending(c[q][i], 0) ELSE c[q][i]
    BY <2>7 DEF Requeued, Queues
  <2> HIDE DEF d
  <2>9. \A q \in Queues : \A i \in Slots[q] :
           /\ d[q][i].address = c[q][i].address /\ d[q][i].to_return = c[q][i].to_return
           /\ d[q][i].scheduled <=> /\ c[q][i].scheduled
                                    /\ ~\E k \in Withdrawn(c) : /\ c.bank_request[k].queue = q
                                                                 /\ c.bank_request[k].pkt = i
    <3>1. SUFFICES ASSUME NEW q \in Queues, NEW i \in Slots[q]
                   PROVE  /\ d[q][i].address = c[q][i].address /\ d[q][i].to_return = c[q][i].to_return
                          /\ d[q][i].scheduled <=>
                               /\ c[q][i].scheduled
                               /\ ~\E k \in Withdrawn(c) : c.bank_request[k].queue = q /\ c.bank_request[k].pkt = i
      BY Zenon
    <3>2. c[q][i] \in PacketType
      BY Types DEF ChannelInv
    <3>3. CASE \E k \in Withdrawn(c) : c.bank_request[k].queue = q /\ c.bank_request[k].pkt = i
      <4>1. d[q][i] = Pending(c[q][i], 0)
        BY <2>8, <3>3
      <4> QED
        BY <3>2, <3>3, <4>1, PacketWaits
    <3>4. CASE ~\E k \in Withdrawn(c) : c.bank_request[k].queue = q /\ c.bank_request[k].pkt = i
      <4>1. d[q][i] = c[q][i]
        BY <2>8, <3>4
      <4> QED
        BY <3>4, <4>1
    <3> QED
      BY <3>3, <3>4
  <2>10. \A k \in Banks : /\ d.bank_request[k].valid <=> (c.bank_request[k].valid /\ k = c.active_request)
                          /\ k = c.active_request => d.bank_request[k] = c.bank_request[k]
    <3>1. \A k \in Banks : d.bank_request[k] = IF k \notin Withdrawn(c) THEN c.bank_request[k] ELSE Idle(row(k))
      BY <2>7 DEF B
    <3> HIDE DEF row
    <3> QED
      BY <2>3, <3>1 DEF Withdrawn
  <2>11. BanksMatch(d)
    <3>1. ASSUME NEW m \in Banks, d.bank_request[m].valid
          PROVE  LET C == d.bank_request[m]
                 IN  /\ C.pkt \in Slots[C.queue] /\ IsValid(d[C.queue][C.pkt])
                     /\ d[C.queue][C.pkt].scheduled /\ OpIdx(d[C.queue][C.pkt].address) = m
      <4>1. m = c.active_request /\ c.bank_request[m].valid /\ d.bank_request[m] = c.bank_request[m]
        BY <2>10, <3>1
      <4>2. c.bank_request[m].queue \in Queues
        BY Types DEF ChannelInv, BankType
      <4>3. ~\E k \in Withdrawn(c) : /\ c.bank_request[k].queue = c.bank_request[m].queue
                                     /\ c.bank_request[k].pkt = c.bank_request[m].pkt
        BY <4>1 DEF ChannelInv, BanksMatch, Withdrawn
      <4>4. LET C == c.bank_request[m]
            IN  /\ C.pkt \in Slots[C.queue] /\ IsValid(c[C.queue][C.pkt])
                /\ c[C.queue][C.pkt].scheduled /\ OpIdx(c[C.queue][C.pkt].address) = m
        BY <4>1 DEF ChannelInv, BanksMatch
      <4>5. LET C == c.bank_request[m]
            IN  d[C.queue][C.pkt].address = c[C.queue][C.pkt].address /\ d[C.queue][C.pkt].scheduled
        BY <2>9, <4>2, <4>3, <4>4
      <4> QED
        BY <4>1, <4>4, <4>5 DEF IsValid
    <3>2. ASSUME NEW p \in Queues, NEW j \in Slots[p], d[p][j].scheduled
          PROVE  \E m \in Banks : /\ d.bank_request[m].valid /\ d.bank_request[m].queue = p
                                  /\ d.bank_request[m].pkt = j
      <4>1. c[p][j].scheduled /\ ~\E k \in Withdrawn(c) : c.bank_request[k].queue = p /\ c.bank_request[k].pkt = j
        BY <2>9, <3>2
      <4>2. PICK m \in Banks : /\ c.bank_request[m].valid /\ c.bank_request[m].queue = p
                               /\ c.bank_request[m].pkt = j
        BY <4>1 DEF ChannelInv, BanksMatch
      <4>3. m = c.active_request
        BY <4>1, <4>2 DEF Withdrawn
      <4> QED
        BY <2>10, <4>2, <4>3
    <3>3. OnBus(d) => Bus(d).valid
      BY <2>7, <2>10, Types DEF OnBus, Bus, ChannelInv, BanksMatch
    <3> QED
      BY <3>1, <3>2, <3>3 DEF BanksMatch
  <2>12. Directed(d)
    BY <2>7, <2>10 DEF Directed
  <2>13. SameRequests(c, d)
    BY <2>9, Zenon DEF SameRequests
  <2> QED
    BY <2>6, <2>11, <2>12, <2>13, SameHeld DEF ChannelInv, d
<1> QED
  BY <1>1, <1>2

(* What is left when only times change and an idle bus is given to a bank.  *)
Retimed(c, d) ==
  /\ SameRequests(c, d)
  /\ \A q \in Queues : \A i \in Slots[q] : d[q][i].scheduled <=> c[q][i].scheduled
  /\ \A k \in Banks : /\ d.bank_request[k].valid <=> c.bank_request[k].valid
                      /\ d.bank_request[k].queue = c.bank_request[k].queue
                      /\ d.bank_request[k].pkt = c.bank_request[k].pkt
  /\ d.write_mode = c.write_mode
  /\ \/ d.active_request = c.active_request
     \/ ~OnBus(c) /\ d.active_request \in Banks /\ c.bank_request[d.active_request].valid

(* Such a change keeps the invariant.                                       *)
LEMMA RetimedInv ==
  ASSUME NEW c, ChannelInv(c), NEW d, d \in ChannelType, Retimed(c, d)
  PROVE  ChannelInv(d) /\ Held(d.RQ) = Held(c.RQ)
<1>1. Unique(d) /\ WritesUnawaited(d) /\ Held(d.RQ) = Held(c.RQ)
  BY SameHeld DEF ChannelInv, Retimed
<1>2. \A k \in Banks : c.bank_request[k].queue \in Queues
  BY Types DEF ChannelInv, BankType
<1>3. BanksMatch(d)
  <2>1. ASSUME NEW m \in Banks, d.bank_request[m].valid
        PROVE  LET C == d.bank_request[m]
               IN  /\ C.pkt \in Slots[C.queue] /\ IsValid(d[C.queue][C.pkt])
                   /\ d[C.queue][C.pkt].scheduled /\ OpIdx(d[C.queue][C.pkt].address) = m
    <3>1. /\ c.bank_request[m].valid /\ d.bank_request[m].queue = c.bank_request[m].queue
          /\ d.bank_request[m].pkt = c.bank_request[m].pkt
      BY <2>1 DEF Retimed
    <3>2. LET C == c.bank_request[m]
          IN  /\ C.pkt \in Slots[C.queue] /\ IsValid(c[C.queue][C.pkt])
              /\ c[C.queue][C.pkt].scheduled /\ OpIdx(c[C.queue][C.pkt].address) = m
      BY <3>1 DEF ChannelInv, BanksMatch
    <3>3. LET C == c.bank_request[m]
          IN  d[C.queue][C.pkt].address = c[C.queue][C.pkt].address /\ d[C.queue][C.pkt].scheduled
      BY <1>2, <3>2 DEF Retimed, SameRequests
    <3> QED
      BY <3>1, <3>2, <3>3 DEF IsValid
  <2>2. ASSUME NEW p \in Queues, NEW j \in Slots[p], d[p][j].scheduled
        PROVE  \E m \in Banks : /\ d.bank_request[m].valid /\ d.bank_request[m].queue = p
                                /\ d.bank_request[m].pkt = j
    <3>1. c[p][j].scheduled
      BY <2>2 DEF Retimed
    <3> QED
      BY <3>1 DEF ChannelInv, BanksMatch, Retimed
  <2>3. OnBus(d) => Bus(d).valid
    BY Types DEF ChannelInv, BanksMatch, OnBus, Bus, Retimed
  <2> QED
    BY <2>1, <2>2, <2>3 DEF BanksMatch
<1>4. Directed(d)
  <2>1. ~OnBus(c) => \A k \in Banks : k # c.active_request
    BY Geometry DEF OnBus, Banks
  <2> QED
    BY <2>1 DEF ChannelInv, Directed, Retimed, ModeQueue
<1> QED
  BY <1>1, <1>3, <1>4 DEF ChannelInv

(* The bank put on the bus is one that is ready.                            *)
LEMMA PutOnBusInv ==
  ASSUME NEW c, ChannelInv(c)
  PROVE  ChannelInv(PutOnBus(c)) /\ Held(PutOnBus(c).RQ) = Held(c.RQ)
<1> DEFINE goes == Ready(c) # {} /\ ~OnBus(c) /\ c.dbus_cycle_available <= 0
           n    == NextProcess(c)
           d    == PutOnBus(c)
<1>1. CASE ~goes
  BY <1>1 DEF PutOnBus
<1>2. CASE goes
  <2>1. Ready(c) \in SUBSET Nat /\ IsFiniteSet(Ready(c)) /\ NumBanks \in Nat
    <3>1. NumBanks \in Nat
      BY Geometry
    <3>2. IsFiniteSet(0 .. NumBanks - 1)
      BY <3>1, FS_Interval
    <3>3. Ready(c) \subseteq 0 .. NumBanks - 1
      BY DEF Ready, Banks
    <3> QED
      BY <3>1, <3>2, <3>3, FS_Subset
  <2>2. \A k \in Ready(c) : [j \in Banks |-> c.bank_request[j].event_cycle][k] \in Int
    BY Types DEF ChannelInv, Ready, BankType
  <2>3. n \in Ready(c)
    BY <1>2, <2>1, <2>2, SoonestIn DEF NextProcess
  <2>4. n \in Banks /\ c.bank_request[n].valid /\ c.bank_request[n] \in BankType
    BY <2>3, Types DEF Ready, ChannelInv
  <2> DEFINE b == [c.bank_request[n] EXCEPT !.event_cycle = RETURN_TIME]
             B == [c.bank_request EXCEPT ![n] = b]
  <2>5. d = [c EXCEPT !.active_request = n, !.bank_request = B]
    BY <1>2 DEF PutOnBus
  <2>6. /\ b \in BankType /\ (b.valid <=> c.bank_request[n].valid)
        /\ b.queue = c.bank_request[n].queue /\ b.pkt = c.bank_request[n].pkt
    BY <2>4, DramSizes DEF BankType
  <2> HIDE DEF n, b, d
  <2>7. B \in [Banks -> BankType]
    BY <2>4, <2>6, Types DEF ChannelInv
  <2>8. \A k \in Banks : B[k] = IF k = n THEN b ELSE c.bank_request[k]
    BY <2>4, Types DEF ChannelInv
  <2> HIDE DEF B
  <2>9. n \in 0 .. NumBanks
    BY <2>1, <2>4 DEF Banks
  <2>10. /\ d \in ChannelType /\ d.RQ = c.RQ /\ d.WQ = c.WQ /\ d.bank_request = B
         /\ d.active_request = n /\ d.write_mode = c.write_mode
    BY <2>5, <2>7, <2>9 DEF ChannelInv, ChannelType
  <2>11. SameRequests(c, d) /\ \A q \in Queues : d[q] = c[q]
    BY <2>10 DEF SameRequests, Queues
  <2>12. Retimed(c, d)
    <3>1. \A k \in Banks : /\ d.bank_request[k].valid <=> c.bank_request[k].valid
                           /\ d.bank_request[k].queue = c.bank_request[k].queue
                           /\ d.bank_request[k].pkt = c.bank_request[k].pkt
      BY <2>6, <2>8, <2>10
    <3>2. \A q \in Queues : \A i \in Slots[q] : d[q][i].scheduled <=> c[q][i].scheduled
      BY <2>11
    <3>3. ~OnBus(c) /\ d.active_request \in Banks /\ c.bank_request[d.active_request].valid
      <4>1. ~OnBus(c)
        BY <1>2
      <4> QED
        BY <4>1, <2>4, <2>10
    <3> QED
      BY <2>10, <2>11, <3>1, <3>2, <3>3, Zenon DEF Retimed
  <2> QED
    BY <2>10, <2>12, RetimedInv DEF d
<1> QED
  BY <1>1, <1>2

(* The packet scheduled is one that waits, its bank one that is idle: the   *)
(* others keep their banks.                                                 *)
LEMMA ScheduleInv ==
  ASSUME NEW c, ChannelInv(c)
  PROVE  ChannelInv(SchedulePacket(c)) /\ Held(SchedulePacket(c).RQ) = Held(c.RQ)
<1> DEFINE q   == ModeQueue(c)
           i   == NextSchedule(c[q])
           bnk == OpIdx(c[q][i].address)
           row == dram_get_row(c[q][i].address)
           hit == c.bank_request[bnk].open_row = row
           nb  == [valid |-> TRUE, open_row |-> row, queue |-> q, pkt |-> i,
                   event_cycle |-> tCAS + (IF hit THEN 0 ELSE tRP + tRCD)]
           d   == SchedulePacket(c)
<1>1. CASE ~(Unscheduled(c[q]) # {} /\ ~c.bank_request[bnk].valid)
  BY <1>1 DEF SchedulePacket
<1>2. CASE Unscheduled(c[q]) # {} /\ ~c.bank_request[bnk].valid
  <2>1. q \in Queues
    BY DEF ModeQueue, Queues
  <2>2. i \in Unscheduled(c[q])
    <3> HIDE DEF q
    <3>1. Unscheduled(c[q]) \subseteq Slots[q] /\ DOMAIN c[q] = Slots[q]
      BY <2>1, Types DEF ChannelInv, Unscheduled, Occupied
    <3>2. Slots[q] \in SUBSET Nat /\ IsFiniteSet(Slots[q])
      BY <2>1, SlotsFinite
    <3>3. IsFiniteSet(Unscheduled(c[q])) /\ Unscheduled(c[q]) \in SUBSET Nat
      BY <3>1, <3>2, FS_Subset
    <3>4. \A j \in Unscheduled(c[q]) : [k \in DOMAIN c[q] |-> c[q][k].event_cycle][j] \in Int
      BY <2>1, <3>1, Types DEF ChannelInv, PacketType
    <3> QED
      BY <1>2, <3>3, <3>4, SoonestIn DEF NextSchedule, q
  <2> HIDE DEF q, i
  <2>3. i \in Slots[q] /\ IsValid(c[q][i]) /\ ~c[q][i].scheduled /\ c[q][i] \in PacketType /\ i \in Nat
    BY <2>1, <2>2, Types DEF ChannelInv, Unscheduled, Occupied
  <2>4. c[q][i].address \in Nat
    <3>1. c[q][i].address \in Blocks \cup {0}
      BY <2>3 DEF PacketType
    <3>2. \A x \in Blocks \cup {0} : x \in Nat
      BY DramBlocks
    <3> QED
      BY <3>1, <3>2, Zenon
  <2>5. bnk \in Banks /\ row \in 0 .. DRAM_ROWS /\ ~c.bank_request[bnk].valid
    BY <1>2, <2>4, Geometry DEF q, i
  <2>6. d = [c EXCEPT !.bank_request[bnk] = nb, !.RQ = Marked(c, "RQ"), !.WQ = Marked(c, "WQ")]
    BY <1>2 DEF SchedulePacket, q, i
  <2>7. nb \in BankType /\ nb.valid /\ nb.queue = q /\ nb.pkt = i
    <3>1. tCAS + (IF hit THEN 0 ELSE tRP + tRCD) \in Int
      <4> HIDE DEF hit
      <4> QED
        BY DramSizes
    <3> HIDE DEF hit, row
    <3> QED
      BY <2>1, <2>3, <2>5, <3>1 DEF BankType
  <2> DEFINE B == [c.bank_request EXCEPT ![bnk] = nb]
  <2> HIDE DEF nb, bnk, row, d
  <2>8. B \in [Banks -> BankType] /\ \A k \in Banks : B[k] = IF k = bnk THEN nb ELSE c.bank_request[k]
    BY <2>5, <2>7, Types DEF ChannelInv
  <2>9. d = [c EXCEPT !.bank_request = B, !.RQ = Marked(c, "RQ"), !.WQ = Marked(c, "WQ")]
    BY <2>6
  <2> HIDE DEF B
  <2>10. \A p \in Queues : Marked(c, p) \in [Slots[p] -> PacketType]
    <3>1. \A p \in Queues : \A j \in Slots[p] : InService(c[p][j]) \in PacketType /\ c[p][j] \in PacketType
      BY Types, PacketMarked DEF ChannelInv
    <3> QED
      BY <3>1 DEF Marked
  <2>11. Marked(c, "RQ") \in [Slots.RQ -> PacketType] /\ Marked(c, "WQ") \in [Slots.WQ -> PacketType]
    BY <2>10 DEF Queues
  <2>12. /\ d \in ChannelType /\ d.RQ = Marked(c, "RQ") /\ d.WQ = Marked(c, "WQ") /\ d.bank_request = B
         /\ d.active_request = c.active_request /\ d.write_mode = c.write_mode
    BY <2>8, <2>9, <2>11 DEF ChannelInv, ChannelType
  <2>13. \A p \in Queues : \A j \in Slots[p] :
            d[p][j] = IF p = q /\ j = i THEN InService(c[p][j]) ELSE c[p][j]
    BY <2>12 DEF Marked, Queues, q, i
  <2>14. /\ d[q][i].scheduled /\ d[q][i].address = c[q][i].address
         /\ d[q][i].to_return = c[q][i].to_return
    BY <2>1, <2>3, <2>13, PacketMarked
  <2>15. SameRequests(c, d)
    BY <2>13, <2>14 DEF SameRequests
  <2>16. BanksMatch(d)
    <3>1. ASSUME NEW m \in Banks, d.bank_request[m].valid
          PROVE  LET C == d.bank_request[m]
                 IN  /\ C.pkt \in Slots[C.queue] /\ IsValid(d[C.queue][C.pkt])
                     /\ d[C.queue][C.pkt].scheduled /\ OpIdx(d[C.queue][C.pkt].address) = m
      <4>1. CASE m = bnk
        <5>1. d.bank_request[m].queue = q /\ d.bank_request[m].pkt = i
          BY <2>7, <2>8, <2>12, <4>1
        <5> QED
          BY <5>1, <2>3, <2>14, <4>1 DEF IsValid, bnk
      <4>2. CASE m # bnk
        <5>1. d.bank_request[m] = c.bank_request[m]
          BY <2>8, <2>12, <4>2
        <5>2. LET C == c.bank_request[m]
              IN  /\ C.pkt \in Slots[C.queue] /\ IsValid(c[C.queue][C.pkt])
                  /\ c[C.queue][C.pkt].scheduled /\ OpIdx(c[C.queue][C.pkt].address) = m
          BY <3>1, <5>1 DEF ChannelInv, BanksMatch
        <5>3. ~(c.bank_request[m].queue = q /\ c.bank_request[m].pkt = i)
          BY <2>3, <5>2
        <5>4. c.bank_request[m].queue \in Queues
          BY Types DEF ChannelInv, BankType
        <5> QED
          BY <2>13, <5>1, <5>2, <5>3, <5>4
      <4> QED
        BY <4>1, <4>2
    <3>2. ASSUME NEW p \in Queues, NEW j \in Slots[p], d[p][j].scheduled
          PROVE  \E m \in Banks : /\ d.bank_request[m].valid /\ d.bank_request[m].queue = p
                                  /\ d.bank_request[m].pkt = j
      <4>1. CASE p = q /\ j = i
        BY <2>5, <2>7, <2>8, <2>12, <4>1
      <4>2. CASE ~(p = q /\ j = i)
        <5>1. PICK m \in Banks : /\ c.bank_request[m].valid /\ c.bank_request[m].queue = p
                                 /\ c.bank_request[m].pkt = j
          BY <2>13, <3>2, <4>2 DEF ChannelInv, BanksMatch
        <5>2. d.bank_request[m] = c.bank_request[m]
          BY <2>5, <2>8, <2>12, <5>1
        <5> QED
          BY <5>1, <5>2
      <4> QED
        BY <4>1, <4>2
    <3>3. OnBus(d) => Bus(d).valid
      <4>1. OnBus(d) => c.bank_request[c.active_request].valid /\ c.active_request \in Banks
        BY <2>12, Types DEF OnBus, ChannelInv, BanksMatch, Bus
      <4> QED
        BY <4>1, <2>5, <2>8, <2>12 DEF Bus
    <3> QED
      BY <3>1, <3>2, <3>3 DEF BanksMatch
  <2>17. Directed(d)
    <3>1. ModeQueue(d) = q
      BY <2>12 DEF ModeQueue, q
    <3> QED
      BY <2>7, <2>8, <2>12, <3>1 DEF ChannelInv, Directed, q
  <2> QED
    BY <2>12, <2>15, <2>16, <2>17, SameHeld DEF ChannelInv, d
<1> QED
  BY <1>1, <1>2

(* Aging a time gives a time: the times it is ranked among are finitely     *)
(* many.                                                                    *)
LEMMA AgedTime ==
  ASSUME NEW S, IsFiniteSet(S), NEW f \in [S -> Int], NEW t \in Int
  PROVE  Aged(t, {f[i] : i \in S}) \in Int
<1> DEFINE T == {f[i] : i \in S}
           U == {u \in T : t <= u /\ u <= 0}
<1>1. IsFiniteSet(T)
  <2>1. f \in Surjection(S, T)
    BY DEF Surjection
  <2> QED
    BY <2>1, FS_Surjection
<1>2. Cardinality(U) \in Nat
  BY <1>1, FS_Subset, FS_CardinalityType
<1> HIDE DEF U
<1> QED
  <2>1. Aged(t, T) = IF t > 0 THEN t - 1 ELSE 0 - Cardinality(U)
    BY DEF Aged, U
  <2> QED
    BY <1>2, <2>1

(* Aging a queue moves the times of waiting packets and nothing else.       *)
LEMMA AgedQueueIs ==
  ASSUME NEW q \in Queues, NEW Q \in [Slots[q] -> PacketType]
  PROVE  /\ AgedQueue(Q) \in [Slots[q] -> PacketType]
         /\ \A i \in Slots[q] : /\ AgedQueue(Q)[i].address = Q[i].address
                                /\ AgedQueue(Q)[i].to_return = Q[i].to_return
                                /\ AgedQueue(Q)[i].scheduled <=> Q[i].scheduled
<1> DEFINE S == Unscheduled(Q)
           f == [i \in S |-> Q[i].event_cycle]
           T == {Q[i].event_cycle : i \in S}
<1>1. S \subseteq Slots[q] /\ DOMAIN Q = Slots[q]
  BY DEF Unscheduled, Occupied
<1>2. IsFiniteSet(S)
  BY <1>1, SlotsFinite, FS_Subset
<1>3. f \in [S -> Int]
  BY <1>1 DEF PacketType
<1>4. T = {f[i] : i \in S}
  OBVIOUS
<1>5. \A i \in S : Aged(Q[i].event_cycle, T) \in Int
  <2>1. \A t \in Int : Aged(t, {f[i] : i \in S}) \in Int
    BY <1>2, <1>3, AgedTime
  <2>2. \A i \in S : Q[i].event_cycle \in Int
    BY <1>1 DEF PacketType
  <2> HIDE DEF S, f, T
  <2> QED
    BY <1>4, <2>1, <2>2
<1>6. AgedQueue(Q) = [i \in Slots[q] |-> IF i \in S THEN Pending(Q[i], Aged(Q[i].event_cycle, T)) ELSE Q[i]]
  BY <1>1 DEF AgedQueue
<1>7. \A i \in S : ~Q[i].scheduled
  BY DEF Unscheduled
<1> HIDE DEF S, T
<1>8. ASSUME NEW i \in Slots[q]
      PROVE  /\ AgedQueue(Q)[i] \in PacketType
             /\ AgedQueue(Q)[i].address = Q[i].address
             /\ AgedQueue(Q)[i].to_return = Q[i].to_return
             /\ AgedQueue(Q)[i].scheduled <=> Q[i].scheduled
  <2>1. CASE i \in S
    <3>1. AgedQueue(Q)[i] = Pending(Q[i], Aged(Q[i].event_cycle, T))
      BY <1>6, <2>1
    <3> QED
      BY <1>5, <1>7, <2>1, <3>1, PacketWaits
  <2>2. CASE i \notin S
    BY <1>6, <2>2
  <2> QED
    BY <2>1, <2>2
<1> QED
  BY <1>6, <1>8

(* Aging the banks moves the times of busy banks and nothing else.          *)
LEMMA AgedBanksAre ==
  ASSUME NEW B \in [Banks -> BankType]
  PROVE  /\ AgedBanks(B) \in [Banks -> BankType]
         /\ \A k \in Banks : /\ AgedBanks(B)[k].valid <=> B[k].valid
                             /\ AgedBanks(B)[k].queue = B[k].queue
                             /\ AgedBanks(B)[k].pkt = B[k].pkt
<1> DEFINE S == {j \in Banks : B[j].valid}
           f == [k \in S |-> B[k].event_cycle]
           T == {B[k].event_cycle : k \in S}
<1>1. IsFiniteSet(S)
  <2>1. IsFiniteSet(Banks)
    BY Geometry, FS_Interval DEF Banks
  <2> QED
    BY <2>1, FS_Subset
<1>2. f \in [S -> Int] /\ \A k \in S : B[k].event_cycle \in Int
  BY DEF BankType
<1>3. T = {f[k] : k \in S}
  OBVIOUS
<1>4. \A k \in S : Aged(B[k].event_cycle, T) \in Int
  <2>1. \A t \in Int : Aged(t, {f[k] : k \in S}) \in Int
    BY <1>1, <1>2, AgedTime
  <2> HIDE DEF S, f, T
  <2> QED
    BY <1>2, <1>3, <2>1
<1>5. AgedBanks(B) = [k \in Banks |-> IF B[k].valid THEN [B[k] EXCEPT !.event_cycle = Aged(B[k].event_cycle, T)]
                                      ELSE B[k]]
  BY DEF AgedBanks
<1>6. ASSUME NEW k \in Banks
      PROVE  /\ AgedBanks(B)[k] \in BankType
             /\ AgedBanks(B)[k].valid <=> B[k].valid
             /\ AgedBanks(B)[k].queue = B[k].queue
             /\ AgedBanks(B)[k].pkt = B[k].pkt
  <2> HIDE DEF T
  <2>0. B[k] \in BankType
    OBVIOUS
  <2>1. CASE B[k].valid
    <3> DEFINE t == Aged(B[k].event_cycle, T)
    <3>1. AgedBanks(B)[k] = [B[k] EXCEPT !.event_cycle = t]
      BY <1>5, <2>1
    <3>2. t \in Int
      BY <1>4, <2>1
    <3> HIDE DEF t
    <3> QED
      BY <2>0, <3>1, <3>2 DEF BankType
  <2>2. CASE ~B[k].valid
    BY <1>5, <2>0, <2>2
  <2> QED
    BY <2>1, <2>2
<1> QED
  BY <1>5, <1>6

(* The next cycle only moves times.                                         *)
LEMMA NextCycleInv ==
  ASSUME NEW c, ChannelInv(c)
  PROVE  ChannelInv(NextCycle(c)) /\ Held(NextCycle(c).RQ) = Held(c.RQ)
<1> DEFINE d == NextCycle(c)
           t == IF c.dbus_cycle_available > 0 THEN c.dbus_cycle_available - 1 ELSE 0
<1>1. c \in ChannelType /\ t \in Int
  BY DEF ChannelInv, ChannelType
<1>2. /\ AgedQueue(c.RQ) \in [Slots.RQ -> PacketType] /\ AgedQueue(c.WQ) \in [Slots.WQ -> PacketType]
      /\ AgedBanks(c.bank_request) \in [Banks -> BankType]
  BY <1>1, AgedQueueIs, AgedBanksAre DEF ChannelType, Queues
<1>3. d = [c EXCEPT !.RQ = AgedQueue(c.RQ), !.WQ = AgedQueue(c.WQ),
                    !.bank_request = AgedBanks(c.bank_request), !.dbus_cycle_available = t]
  BY <1>1 DEF NextCycle, ChannelType
<1> HIDE DEF t, d
<1>4. /\ d \in ChannelType /\ d.RQ = AgedQueue(c.RQ) /\ d.WQ = AgedQueue(c.WQ)
      /\ d.bank_request = AgedBanks(c.bank_request)
      /\ d.active_request = c.active_request /\ d.write_mode = c.write_mode
  BY <1>1, <1>2, <1>3 DEF ChannelType
<1>5. \A q \in Queues : c[q] \in [Slots[q] -> PacketType] /\ d[q] = AgedQueue(c[q])
  BY <1>1, <1>4, Types DEF Queues
<1>6. SameRequests(c, d)
  BY <1>5, AgedQueueIs DEF SameRequests
<1>7. \A q \in Queues : \A i \in Slots[q] : d[q][i].scheduled <=> c[q][i].scheduled
  BY <1>5, AgedQueueIs
<1>8. \A k \in Banks : /\ d.bank_request[k].valid <=> c.bank_request[k].valid
                       /\ d.bank_request[k].queue = c.bank_request[k].queue
                       /\ d.bank_request[k].pkt = c.bank_request[k].pkt
  BY <1>1, <1>4, AgedBanksAre DEF ChannelType
<1>9. Retimed(c, d)
  BY <1>4, <1>6, <1>7, <1>8 DEF Retimed
<1> QED
  BY <1>4, <1>9, RetimedInv DEF d

-----------------------------------------------------------------------------
(* A packet put into a free slot disturbs no bank: none works on that slot. *)
LEMMA Enqueued ==
  ASSUME NEW c, ChannelInv(c), NEW d, d \in ChannelType,
         NEW q \in Queues, NEW i \in Slots[q], NEW b \in Blocks, NEW rets \in SUBSET Readers,
         ~IsValid(c[q][i]), Find(c[q], b) = {}, q = "WQ" => rets = {},
         \A p \in Queues : \A j \in Slots[p] :
            d[p][j] = IF p = q /\ j = i THEN Packet(b, rets) ELSE c[p][j],
         d.bank_request = c.bank_request, d.active_request = c.active_request,
         d.write_mode = c.write_mode
  PROVE  ChannelInv(d)
<1>1. /\ Packet(b, rets).address = b /\ Packet(b, rets).to_return = rets
      /\ ~Packet(b, rets).scheduled /\ IsValid(Packet(b, rets))
  BY DramBlocks DEF Packet, IsValid
<1>2. BanksMatch(d)
  <2>1. ASSUME NEW m \in Banks, d.bank_request[m].valid
        PROVE  LET C == d.bank_request[m]
               IN  /\ C.pkt \in Slots[C.queue] /\ IsValid(d[C.queue][C.pkt])
                   /\ d[C.queue][C.pkt].scheduled /\ OpIdx(d[C.queue][C.pkt].address) = m
    <3>1. LET C == c.bank_request[m]
          IN  /\ C.pkt \in Slots[C.queue] /\ IsValid(c[C.queue][C.pkt])
              /\ c[C.queue][C.pkt].scheduled /\ OpIdx(c[C.queue][C.pkt].address) = m
      BY <2>1 DEF ChannelInv, BanksMatch
    <3>2. ~(c.bank_request[m].queue = q /\ c.bank_request[m].pkt = i)
      BY <3>1
    <3>3. c.bank_request[m].queue \in Queues
      BY Types DEF ChannelInv, BankType
    <3> QED
      BY <3>1, <3>2, <3>3
  <2>2. ASSUME NEW p \in Queues, NEW j \in Slots[p], d[p][j].scheduled
        PROVE  \E m \in Banks : /\ d.bank_request[m].valid /\ d.bank_request[m].queue = p
                                /\ d.bank_request[m].pkt = j
    <3>1. c[p][j].scheduled
      BY <1>1, <2>2
    <3> QED
      BY <3>1 DEF ChannelInv, BanksMatch
  <2>3. OnBus(d) => Bus(d).valid
    BY DEF ChannelInv, BanksMatch, OnBus, Bus
  <2> QED
    BY <2>1, <2>2, <2>3 DEF BanksMatch
<1>3. Directed(d)
  BY DEF ChannelInv, Directed, ModeQueue
<1>4. Unique(d)
  <2>1. SUFFICES ASSUME NEW p \in Queues, NEW j \in Occupied(d[p]), NEW k \in Occupied(d[p]),
                        d[p][j].address = d[p][k].address
                 PROVE  j = k
    BY Zenon DEF Unique
  <2>2. /\ j \in Slots[p] /\ k \in Slots[p] /\ IsValid(d[p][j]) /\ IsValid(d[p][k])
        /\ DOMAIN c[p] = Slots[p] /\ DOMAIN c[q] = Slots[q]
    BY Types DEF ChannelInv, Occupied
  <2>3. \A x \in Slots[q] : IsValid(c[q][x]) => c[q][x].address # b
    BY <2>2 DEF Find, Occupied
  <2>4. CASE p # q
    <3>1. j \in Occupied(c[p]) /\ k \in Occupied(c[p]) /\ c[p][j].address = c[p][k].address
      BY <2>1, <2>2, <2>4 DEF Occupied
    <3> QED
      BY <3>1 DEF ChannelInv, Unique
  <2>5. CASE p = q /\ j # i /\ k # i
    <3>1. j \in Occupied(c[p]) /\ k \in Occupied(c[p]) /\ c[p][j].address = c[p][k].address
      BY <2>1, <2>2, <2>5 DEF Occupied
    <3> QED
      BY <3>1 DEF ChannelInv, Unique
  <2>6. CASE p = q /\ j = i /\ k # i
    BY <1>1, <2>1, <2>2, <2>3, <2>6
  <2>7. CASE p = q /\ j # i /\ k = i
    BY <1>1, <2>1, <2>2, <2>3, <2>7
  <2> QED
    BY <2>4, <2>5, <2>6, <2>7
<1>5. WritesUnawaited(d)
  BY <1>1 DEF ChannelInv, WritesUnawaited, Queues
<1> QED
  BY <1>2, <1>3, <1>4, <1>5 DEF ChannelInv

(* The slots First finds are of the queue.                                  *)
LEMMA FirstSlot ==
  ASSUME NEW c, ChannelInv(c), NEW q \in Queues, NEW b \in Blocks
  PROVE  /\ Free(c[q]) # {} => /\ First(Free(c[q])) \in Slots[q]
                               /\ ~IsValid(c[q][First(Free(c[q]))])
         /\ Find(c[q], b) # {} => /\ First(Find(c[q], b)) \in Slots[q]
                                  /\ c[q][First(Find(c[q], b))].address = b
<1>1. DOMAIN c[q] = Slots[q] /\ Slots[q] \in SUBSET Nat
  BY Types DEF ChannelInv
<1>2. Free(c[q]) \in SUBSET Nat /\ Find(c[q], b) \in SUBSET Nat
  BY <1>1 DEF Free, Find, Occupied
<1> QED
  BY <1>1, <1>2, FirstIn DEF Free, Find, Occupied

(* A write that is queued keeps the invariant.                              *)
LEMMA WriteInv ==
  ASSUME NEW c, ChannelInv(c), NEW b \in Blocks, Find(c.WQ, b) = {}, Free(c.WQ) # {}
  PROVE  LET d == [c EXCEPT !.WQ[First(Free(c.WQ))] = Packet(b, {})]
         IN  ChannelInv(d) /\ d.RQ = c.RQ
<1> DEFINE i == First(Free(c.WQ))
           Q == [c.WQ EXCEPT ![i] = Packet(b, {})]
           d == [c EXCEPT !.WQ = Q]
<1>1. i \in Slots["WQ"] /\ ~IsValid(c["WQ"][i]) /\ "WQ" \in Queues /\ c \in ChannelType
  BY FirstSlot DEF Queues, ChannelInv
<1> HIDE DEF i
<1>2. Packet(b, {}) \in PacketType
  BY DEF Packet, PacketType
<1>3. c.WQ \in [Slots["WQ"] -> PacketType]
  BY <1>1 DEF ChannelType
<1>4. Q \in [Slots["WQ"] -> PacketType] /\ \A j \in Slots["WQ"] : Q[j] = IF j = i THEN Packet(b, {}) ELSE c.WQ[j]
  BY <1>1, <1>2, <1>3
<1> HIDE DEF Q
<1>5. /\ d \in ChannelType /\ d.RQ = c.RQ /\ d.WQ = Q /\ d.bank_request = c.bank_request
      /\ d.active_request = c.active_request /\ d.write_mode = c.write_mode
  BY <1>1, <1>4 DEF ChannelType
<1> HIDE DEF d
<1>6. \A p \in Queues : \A j \in Slots[p] :
         d[p][j] = IF p = "WQ" /\ j = i THEN Packet(b, {}) ELSE c[p][j]
  BY <1>4, <1>5 DEF Queues
<1>7. ChannelInv(d)
  BY <1>1, <1>5, <1>6, Enqueued
<1>8. ChannelInv(d) /\ d.RQ = c.RQ
  BY <1>5, <1>7
<1> QED
  BY <1>8 DEF d, Q, i

(* A read is merged with one of its block or put into a free slot, and then *)
(* its level waits for one answer more.                                     *)
LEMMA ReadInv ==
  ASSUME NEW c, ChannelInv(c), NEW r \in Readers, NEW b \in Blocks, Free(c.RQ) # {}
  PROVE  LET d == [c EXCEPT !.RQ = Queued(c.RQ, r, b)]
         IN  ChannelInv(d) /\ Held(d.RQ) = Held(c.RQ) \cup {<<r, b>>}
<1> DEFINE i == IF Find(c.RQ, b) # {} THEN First(Find(c.RQ, b)) ELSE First(Free(c.RQ))
           p == IF Find(c.RQ, b) # {} THEN [c.RQ[i] EXCEPT !.to_return = @ \cup {r}]
                ELSE Packet(b, {r})
           Q == [c.RQ EXCEPT ![i] = p]
           d == [c EXCEPT !.RQ = Q]
<1>1. /\ i \in Slots["RQ"] /\ "RQ" \in Queues /\ c \in ChannelType
      /\ Find(c.RQ, b) # {} => c.RQ[i].address = b
      /\ Find(c.RQ, b) = {} => ~IsValid(c.RQ[i])
  <2>1. "RQ" \in Queues /\ c["RQ"] = c.RQ
    BY DEF Queues
  <2> QED
    BY <2>1, FirstSlot DEF ChannelInv
<1>2. Queued(c.RQ, r, b) = Q
  BY DEF Queued
<1> HIDE DEF i
<1>3. c.RQ \in [Slots["RQ"] -> PacketType] /\ c.RQ[i] \in PacketType
  BY <1>1 DEF ChannelType
<1>4. p \in PacketType /\ p.address = b /\ IsValid(p)
  <2>1. CASE Find(c.RQ, b) # {}
    <3>1. p = [c.RQ[i] EXCEPT !.to_return = c.RQ[i].to_return \cup {r}]
      BY <2>1, <1>3 DEF PacketType
    <3>2. p \in PacketType /\ p.address = c.RQ[i].address
      BY <1>3, <3>1 DEF PacketType
    <3> QED
      BY <1>1, <2>1, <3>2, DramBlocks DEF IsValid
  <2>2. CASE Find(c.RQ, b) = {}
    <3>1. p = [address |-> b, to_return |-> {r}, scheduled |-> FALSE, event_cycle |-> 0]
      BY <2>2 DEF Packet
    <3> HIDE DEF p
    <3> QED
      BY <3>1, DramBlocks DEF PacketType, IsValid
  <2> QED
    BY <2>1, <2>2
<1>5. /\ Find(c.RQ, b) # {} => p.to_return = c.RQ[i].to_return \cup {r} /\ (p.scheduled <=> c.RQ[i].scheduled)
      /\ Find(c.RQ, b) = {} => p = Packet(b, {r}) /\ p.to_return = {r}
  BY <1>3 DEF PacketType, Packet
<1> HIDE DEF p
<1>6. Q \in [Slots["RQ"] -> PacketType] /\ \A j \in Slots["RQ"] : Q[j] = IF j = i THEN p ELSE c.RQ[j]
  BY <1>1, <1>3, <1>4
<1> HIDE DEF Q
<1>7. /\ d \in ChannelType /\ d.RQ = Q /\ d.WQ = c.WQ /\ d.bank_request = c.bank_request
      /\ d.active_request = c.active_request /\ d.write_mode = c.write_mode
  BY <1>1, <1>6 DEF ChannelType
<1> HIDE DEF d
<1>8. \A q \in Queues : \A j \in Slots[q] :
         d[q][j] = IF q = "RQ" /\ j = i THEN p ELSE c[q][j]
  BY <1>6, <1>7 DEF Queues
<1>9. ChannelInv(d)
  <2>1. CASE Find(c.RQ, b) = {}
    <3>1. {r} \in SUBSET Readers /\ ~IsValid(c["RQ"][i]) /\ Find(c["RQ"], b) = {}
      BY <1>1, <2>1
    <3>2. \A q \in Queues : \A j \in Slots[q] :
             d[q][j] = IF q = "RQ" /\ j = i THEN Packet(b, {r}) ELSE c[q][j]
      BY <1>5, <1>8, <2>1
    <3> QED
      BY <1>1, <1>7, <3>1, <3>2, Enqueued
  <2>2. CASE Find(c.RQ, b) # {}
    <3>1. \A q \in Queues : \A j \in Slots[q] : /\ d[q][j].address = c[q][j].address
                                                /\ d[q][j].scheduled <=> c[q][j].scheduled
      BY <1>1, <1>4, <1>5, <1>8, <2>2
    <3>2. \A q \in Queues : Occupied(d[q]) = Occupied(c[q]) /\ Occupied(c[q]) \subseteq Slots[q]
      BY <1>1, <1>7, <3>1, Types DEF Occupied, IsValid
    <3>3. BanksMatch(d)
      <4>1. \A k \in Banks : c.bank_request[k].queue \in Queues
        BY <1>1, Types DEF BankType
      <4>2. ASSUME NEW m \in Banks, d.bank_request[m].valid
            PROVE  LET C == d.bank_request[m]
                   IN  /\ C.pkt \in Slots[C.queue] /\ IsValid(d[C.queue][C.pkt])
                       /\ d[C.queue][C.pkt].scheduled /\ OpIdx(d[C.queue][C.pkt].address) = m
        <5>1. LET C == c.bank_request[m]
              IN  /\ C.pkt \in Slots[C.queue] /\ IsValid(c[C.queue][C.pkt])
                  /\ c[C.queue][C.pkt].scheduled /\ OpIdx(c[C.queue][C.pkt].address) = m
          BY <1>7, <4>2 DEF ChannelInv, BanksMatch
        <5> QED
          BY <1>7, <3>1, <4>1, <5>1 DEF IsValid
      <4>3. ASSUME NEW q \in Queues, NEW j \in Slots[q], d[q][j].scheduled
            PROVE  \E m \in Banks : /\ d.bank_request[m].valid /\ d.bank_request[m].queue = q
                                    /\ d.bank_request[m].pkt = j
        BY <1>7, <3>1, <4>3 DEF ChannelInv, BanksMatch
      <4>4. OnBus(d) => Bus(d).valid
        BY <1>7 DEF ChannelInv, BanksMatch, OnBus, Bus
      <4> QED
        BY <4>2, <4>3, <4>4 DEF BanksMatch
    <3>4. Directed(d)
      BY <1>7 DEF ChannelInv, Directed, ModeQueue
    <3>5. Unique(d)
      BY <3>1, <3>2 DEF ChannelInv, Unique
    <3>6. WritesUnawaited(d)
      BY <1>7 DEF ChannelInv, WritesUnawaited
    <3> QED
      BY <1>7, <3>3, <3>4, <3>5, <3>6 DEF ChannelInv
  <2> QED
    BY <2>1, <2>2
<1>10. Held(d.RQ) = Held(c.RQ) \cup {<<r, b>>}
  <2>1. DOMAIN Q = Slots["RQ"] /\ DOMAIN c.RQ = Slots["RQ"]
    BY <1>3, <1>6
  <2>2. Occupied(Q) = Occupied(c.RQ) \cup {i}
    BY <1>1, <1>4, <1>6, <2>1 DEF Occupied
  <2>3. \A j \in Occupied(c.RQ) \ {i} : Q[j] = c.RQ[j]
    BY <1>6, <2>1 DEF Occupied
  <2>4. Q[i] = p
    BY <1>1, <1>6
  <2>5. /\ Find(c.RQ, b) # {} => i \in Occupied(c.RQ)
        /\ Find(c.RQ, b) = {} => i \notin Occupied(c.RQ)
    <3>1. Find(c.RQ, b) # {} => IsValid(c.RQ[i])
      BY <1>1, DramBlocks DEF IsValid
    <3> QED
      BY <1>1, <2>1, <3>1 DEF Occupied
  <2>6. ASSUME NEW x \in Held(Q)  PROVE x \in Held(c.RQ) \cup {<<r, b>>}
    <3>1. PICK j \in Occupied(Q) : x \in Q[j].to_return \X {Q[j].address}
      BY <2>6, HeldBy
    <3>2. CASE j # i
      BY <2>2, <2>3, <3>1, <3>2, HeldBy
    <3>3. CASE j = i
      <4>1. x \in p.to_return \X {b}
        BY <1>4, <2>4, <3>1, <3>3
      <4>2. CASE x = <<r, b>>
        BY <4>2
      <4>3. CASE x # <<r, b>>
        <5>1. Find(c.RQ, b) # {} /\ x \in c.RQ[i].to_return \X {c.RQ[i].address}
          BY <1>1, <1>5, <4>1, <4>3
        <5> QED
          BY <2>5, <5>1, HeldBy
      <4> QED
        BY <4>2, <4>3
    <3> QED
      BY <3>2, <3>3
  <2>7. ASSUME NEW x \in Held(c.RQ)  PROVE x \in Held(Q)
    <3>1. PICK j \in Occupied(c.RQ) : x \in c.RQ[j].to_return \X {c.RQ[j].address}
      BY <2>7, HeldBy
    <3>2. x \in Q[j].to_return \X {Q[j].address}
      BY <1>1, <1>4, <1>5, <2>3, <2>4, <2>5, <3>1
    <3> QED
      BY <2>2, <3>1, <3>2, HeldBy
  <2>8. <<r, b>> \in Held(Q)
    <3>1. <<r, b>> \in p.to_return \X {p.address}
      BY <1>4, <1>5
    <3> QED
      BY <2>2, <2>4, <3>1, HeldBy
  <2> QED
    BY <1>7, <2>6, <2>7, <2>8
<1> QED
  BY <1>2, <1>9, <1>10 DEF d

-----------------------------------------------------------------------------
(* The inductive invariant of the specification: that of the channel, and   *)
(* who is waiting is who the read queue holds.                              *)
DramInv ==
  /\ ChannelInv(channel)
  /\ warmup \in BOOLEAN
  /\ waiting = Held(channel.RQ)

(* It holds of the empty channel the constructor leaves.                    *)
LEMMA InitInv == Init => DramInv
<1> SUFFICES ASSUME Init PROVE DramInv
  OBVIOUS
<1>1. NumBanks \in Nat \ {0} /\ NumBanks \in 0 .. NumBanks
  BY Geometry
<1>2. NoPacket \in PacketType /\ ~IsValid(NoPacket) /\ NoPacket.to_return = {} /\ ~NoPacket.scheduled
  BY DEF NoPacket, Packet, PacketType, IsValid
<1>3. Idle(NoRow) \in BankType /\ ~Idle(NoRow).valid
  BY DramSizes DEF Idle, NoRow, BankType, Queues
<1>4. /\ channel.RQ = [i \in Slots.RQ |-> NoPacket] /\ channel.WQ = [i \in Slots.WQ |-> NoPacket]
      /\ channel.bank_request = [k \in Banks |-> Idle(NoRow)] /\ channel.active_request = NumBanks
      /\ channel \in ChannelType
  BY <1>1, <1>2, <1>3 DEF Init, ChannelType
<1>5. \A q \in Queues : /\ DOMAIN channel[q] = Slots[q]
                        /\ \A i \in Slots[q] : channel[q][i] = NoPacket
  BY <1>4 DEF Queues
<1>6. \A k \in Banks : ~channel.bank_request[k].valid
  BY <1>3, <1>4
<1>7. \A q \in Queues : Occupied(channel[q]) = {}
  BY <1>2, <1>5 DEF Occupied
<1>8. BanksMatch(channel)
  BY <1>2, <1>4, <1>5, <1>6 DEF BanksMatch, OnBus
<1>9. Directed(channel) /\ Unique(channel) /\ WritesUnawaited(channel)
  BY <1>2, <1>5, <1>6, <1>7 DEF Directed, Unique, WritesUnawaited, Queues
<1>10. Held(channel.RQ) = {}
  BY <1>7 DEF Held, Queues
<1> QED
  BY <1>4, <1>8, <1>9, <1>10 DEF DramInv, ChannelInv, Init

(* One step per operation: the requests of the levels above, the end of the *)
(* warmup, and a cycle, which goes through the five stages.                 *)
LEMMA NextInv == DramInv /\ [Next]_vars => DramInv'
<1> SUFFICES ASSUME DramInv, [Next]_vars PROVE DramInv'
  OBVIOUS
<1>1. ASSUME NEW r \in Readers, NEW b \in Blocks, Read(r, b)  PROVE DramInv'
  <2>1. CASE AnsweredAtOnce(b)
    BY <1>1, <2>1 DEF DramInv, Read, add_rq
  <2>2. CASE ~AnsweredAtOnce(b)
    <3>1. /\ channel' = [channel EXCEPT !.RQ = Queued(channel.RQ, r, b)]
          /\ waiting' = waiting \cup {<<r, b>>} /\ warmup' = warmup /\ Free(channel.RQ) # {}
      BY <1>1, <2>2 DEF Read, add_rq, SeesRoom
    <3>2. ChannelInv(channel') /\ Held(channel'.RQ) = Held(channel.RQ) \cup {<<r, b>>}
      BY <3>1, ReadInv DEF DramInv
    <3> QED
      BY <3>1, <3>2 DEF DramInv
  <2> QED
    BY <2>1, <2>2
<1>2. ASSUME NEW b \in Blocks, add_wq(b)  PROVE DramInv'
  <2>1. ChannelInv(channel') /\ channel'.RQ = channel.RQ
    BY <1>2, WriteInv DEF DramInv, add_wq
  <2> QED
    BY <1>2, <2>1 DEF DramInv, add_wq
<1>3. CASE CompleteWarmup
  BY <1>3 DEF DramInv, CompleteWarmup
<1>4. CASE operate
  <2> DEFINE c1 == FinishRequest(channel)
             c2 == SwitchMode(c1)
             c3 == PutOnBus(c2)
             c4 == SchedulePacket(c3)
  <2>1. ChannelInv(c1) /\ Held(c1.RQ) = Held(channel.RQ) \ ReturnsTo(channel)
    BY FinishInv DEF DramInv
  <2>2. ChannelInv(c2) /\ Held(c2.RQ) = Held(c1.RQ)
    BY <2>1, SwitchInv
  <2>3. ChannelInv(c3) /\ Held(c3.RQ) = Held(c2.RQ)
    BY <2>2, PutOnBusInv
  <2>4. ChannelInv(c4) /\ Held(c4.RQ) = Held(c3.RQ)
    BY <2>3, ScheduleInv
  <2>5. ChannelInv(NextCycle(c4)) /\ Held(NextCycle(c4).RQ) = Held(c4.RQ)
    BY <2>4, NextCycleInv
  <2>6. channel' = NextCycle(c4) /\ waiting' = waiting \ ReturnsTo(channel) /\ warmup' = warmup
    BY <1>4 DEF operate
  <2> HIDE DEF c1, c2, c3, c4
  <2> QED
    BY <2>1, <2>2, <2>3, <2>4, <2>5, <2>6 DEF DramInv
<1>5. CASE UNCHANGED vars
  BY <1>5 DEF DramInv, vars
<1> QED
  BY <1>1, <1>2, <1>3, <1>4, <1>5 DEF Next

(* The invariant holds throughout, from the constructor on, whatever the    *)
(* levels above send (add_rq, add_wq, operate).                             *)
THEOREM DramInvariant == Spec => []DramInv
BY InitInv, NextInv, PTL DEF Spec

(* Whatever the sizes and timings of the memory, the queues, banks and bus  *)
(* keep their types (MEMORY_CONTROLLER::operate, add_rq, add_wq).           *)
THEOREM TypeCorrect == Spec => []TypeOK
<1>1. DramInv => TypeOK
  <2> SUFFICES ASSUME DramInv, NEW x \in waiting PROVE x \in Readers \X Blocks
    BY DEF DramInv, ChannelInv, TypeOK
  <2>1. PICK i \in Occupied(channel.RQ) : x \in channel.RQ[i].to_return \X {channel.RQ[i].address}
    BY HeldBy DEF DramInv
  <2>2. i \in Slots["RQ"] /\ channel.RQ[i] \in PacketType /\ IsValid(channel.RQ[i])
    BY DEF DramInv, ChannelInv, ChannelType, Occupied
  <2>3. channel.RQ[i].address \in Blocks /\ channel.RQ[i].to_return \subseteq Readers
    BY <2>2 DEF PacketType, IsValid
  <2> QED
    BY <2>1, <2>3
<1> QED
  BY <1>1, DramInvariant, PTL

(* For every size of the queues and every number of banks, a busy bank      *)
(* works on a packet of its own that is marked as scheduled, and a packet   *)
(* that is marked is worked on by a bank, through all mode switches.        *)
THEOREM ScheduledOnce == Spec => []EachScheduledOnce
<1>1. DramInv => EachScheduledOnce
  BY DEF DramInv, ChannelInv, EachScheduledOnce
<1> QED
  BY <1>1, DramInvariant, PTL

(* Only the request on the data bus may be of the queue the controller has  *)
(* switched away from.                                                      *)
THEOREM BanksOneDirection == Spec => []OneDirection
<1>1. DramInv => OneDirection
  BY DEF DramInv, ChannelInv, Directed, OneDirection
<1> QED
  BY <1>1, DramInvariant, PTL

(* No read is lost or answered twice: those who were promised an answer are *)
(* in the packets of the read queue, one packet for a block, and nobody     *)
(* else is.                                                                 *)
THEOREM NoReadLost == Spec => []ReadsHeld
<1>1. DramInv => ReadsHeld
  BY DEF DramInv, ChannelInv, Unique, ReadsHeld
<1> QED
  BY <1>1, DramInvariant, PTL
=============================================================================
