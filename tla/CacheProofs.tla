----------------------------- MODULE CacheProofs -----------------------------
(* One cache for every number of blocks, ways and upper levels, every size  *)
(* of its queues and of the MSHR, and every latency.                        *)
EXTENDS Cache, SequenceTheorems, FiniteSetTheorems, NaturalsInduction,
        WellFoundedInduction, TLAPS

(* The packets each queue holds.                                            *)
Loads ==
  [address : Addrs, type : {"LOAD"}, fill_level : {UP}, pf_origin_level : {0, UP, HERE},
   to_return : (SUBSET Uppers) \ {{}}]
Writes ==
  [address : Addrs, type : {WriteType}, fill_level : {HERE}, pf_origin_level : {0, UP, HERE},
   to_return : {{}}]
Prefetches ==
  {p \in [address : Addrs, type : {"PREFETCH"}, fill_level : {UP, HERE, BELOW},
          pf_origin_level : {0, UP, HERE}, to_return : SUBSET Prefetching] :
     p.to_return # {} => p.fill_level = UP}
Entries(P) == [item : P, delay : 0 .. HIT_LATENCY]

QueueOK(q, n, P, size) == q \in Seq(Entries(P)) /\ Len(q) <= size /\ n \in 0 .. Len(q)

QueuesOK ==
  /\ QueueOK(RQ, rq_ready, Loads, RQ_SIZE)
  /\ QueueOK(WQ, wq_ready, Writes, WQ_SIZE)
  /\ QueueOK(PQ, pq_ready, Prefetches, PQ_SIZE)

(* The misses, a list of the MSHR's entries.                                *)
MissRecords ==
  [address : Addrs, type : {"LOAD", "PREFETCH", "RFO"}, to_return : SUBSET Uppers,
   event : 0 .. NEVER]

SingleMiss(s) ==
  \A i, j \in DOMAIN s : BlockOf[s[i].address] = BlockOf[s[j].address] => i = j
Ordered(s) == \A i, j \in DOMAIN s : i < j => s[i].event <= s[j].event
(* During the warmup data that comes back can be filled at once.            *)
NoneDelayed(s) == \A i \in DOMAIN s : s[i].event \in {0, NEVER}
Outstanding(s, b) == \E i \in DOMAIN s : BlockOf[s[i].address] = b /\ s[i].event = NEVER
Owed(s, l) ==
  l \in [Blocks -> Nat] /\ \A b \in Blocks : l[b] = IF Outstanding(s, b) THEN 1 ELSE 0

MissesOK(s, l, warm) ==
  /\ s \in Seq(MissRecords)
  /\ SingleMiss(s)
  /\ Ordered(s)
  /\ ~ warm => NoneDelayed(s)
  /\ Owed(s, l)

(* A way that holds nothing is not dirty.                                   *)
BlocksOK(f) ==
  /\ f \in [Ways -> [address : Addrs \cup {None}, dirty : BOOLEAN]]
  /\ \A w \in Ways : f[w].dirty => f[w].address \in Addrs

CacheInv ==
  /\ BlocksOK(block)
  /\ QueuesOK
  /\ MissesOK(MSHR, lower, warmup_complete) /\ Len(MSHR) <= MSHR_SIZE
  /\ warmup_complete \in BOOLEAN
  /\ pc \in {"idle", "fill", "writeback", "read", "prefetch", "prefetcher"} /\ budget \in Nat
  /\ lower_wq \subseteq Blocks
  /\ waiting \in [Uppers -> SUBSET Blocks] /\ unsaved \subseteq Blocks

(* A prefetch waits for levels that prefetch.                               *)
PrefetchOwn(s) ==
  \A i \in DOMAIN s : s[i].type = "PREFETCH" => s[i].to_return \subseteq Prefetching

(* A written block is in the write queue or dirty, where writes are         *)
(* write-backs.                                                             *)
Queued(q, b) == \E i \in DOMAIN q : BlockOf[q[i].item.address] = b
Dirty(f, b) == \E w \in Ways : f[w].dirty /\ BlockOf[f[w].address] = b
Kept == \A b \in unsaved : Queued(WQ, b) \/ Dirty(block, b)

(* A request is held by a queue or by a miss.                               *)
Asks(p, u, b) == BlockOf[p.address] = b /\ u \in p.to_return
QueueHolds(q, u, b) == \E i \in DOMAIN q : Asks(q[i].item, u, b)
MissHolds(s, u, b) == \E i \in DOMAIN s : Asks(s[i], u, b)
SingleEntry(q) ==
  \A i, j \in DOMAIN q : BlockOf[q[i].item.address] = BlockOf[q[j].item.address] => i = j
HeldOnce ==
  \A u \in Uppers, b \in Blocks :
    /\ QueueHolds(RQ, u, b) \/ QueueHolds(PQ, u, b) \/ MissHolds(MSHR, u, b) => b \in waiting[u]
    /\ b \in waiting[u] =>
         \/ QueueHolds(RQ, u, b) \/ QueueHolds(PQ, u, b) \/ MissHolds(MSHR, u, b)
         \/ MayBeForgotten(u)
    /\ ~ (QueueHolds(RQ, u, b) /\ QueueHolds(PQ, u, b))
    /\ ~ (QueueHolds(RQ, u, b) /\ MissHolds(MSHR, u, b))
    /\ ~ (QueueHolds(PQ, u, b) /\ MissHolds(MSHR, u, b))
HeldInv == SingleEntry(RQ) /\ SingleEntry(PQ) /\ PrefetchOwn(MSHR) /\ HeldOnce

-----------------------------------------------------------------------------
(* Sequences and least elements.                                            *)

(* std::find_if finds the first of what there is to find.                   *)
LEMMA LeastOf ==
  ASSUME NEW S \in SUBSET Nat, S # {}
  PROVE  Min(S) \in S /\ \A j \in S : Min(S) <= j
<1>1. PICK x \in S : \A y \in S : ~(<<y, x>> \in OpToRel(<, Nat))
  BY NatLessThanWellFounded, WFMin
<1>2. ASSUME NEW y \in S, y < x  PROVE FALSE
  <2>1. <<y, x>> \in OpToRel(<, Nat)
    BY <1>2, Zenon DEF OpToRel
  <2> QED
    BY <1>1, <2>1
<1>3. \A y \in S : x <= y
  BY <1>2
<1> QED
  BY <1>3 DEF Min

(* pop_front.                                                               *)
LEMMA Popped ==
  ASSUME NEW S, NEW s \in Seq(S), Len(s) > 0
  PROVE  /\ Tail(s) \in Seq(S) /\ Len(Tail(s)) = Len(s) - 1
         /\ DOMAIN Tail(s) = 1 .. Len(s) - 1
         /\ \A i \in 1 .. Len(s) - 1 : Tail(s)[i] = s[i + 1]
         /\ 1 \in DOMAIN s /\ Head(s) = s[1] /\ s[1] \in S
  OBVIOUS

(* push_back.                                                               *)
LEMMA Pushed ==
  ASSUME NEW S, NEW s \in Seq(S), NEW x \in S
  PROVE  /\ Append(s, x) \in Seq(S) /\ Len(Append(s, x)) = Len(s) + 1
         /\ DOMAIN Append(s, x) = 1 .. Len(s) + 1 /\ DOMAIN s = 1 .. Len(s)
         /\ \A i \in 1 .. Len(s) : Append(s, x)[i] = s[i]
         /\ Append(s, x)[Len(s) + 1] = x
  OBVIOUS

(* A list with the domain of another and members of S is a sequence.        *)
LEMMA Listed ==
  ASSUME NEW S, NEW T, NEW s \in Seq(S), NEW f, f = [i \in DOMAIN s |-> f[i]],
         \A i \in DOMAIN s : f[i] \in T
  PROVE  f \in Seq(T) /\ Len(f) = Len(s) /\ DOMAIN f = DOMAIN s
<1>1. DOMAIN s = 1 .. Len(s) /\ Len(s) \in Nat
  OBVIOUS
<1>2. f \in [1 .. Len(s) -> T]
  BY <1>1
<1> QED
  BY <1>1, <1>2

(* An update of one member.                                                 *)
LEMMA Updated ==
  ASSUME NEW S, NEW s \in Seq(S), NEW i \in DOMAIN s, NEW x \in S
  PROVE  /\ [s EXCEPT ![i] = x] \in Seq(S) /\ Len([s EXCEPT ![i] = x]) = Len(s)
         /\ DOMAIN [s EXCEPT ![i] = x] = DOMAIN s
         /\ [s EXCEPT ![i] = x][i] = x
         /\ \A j \in DOMAIN s : j # i => [s EXCEPT ![i] = x][j] = s[j]
  OBVIOUS

LEMMA Indices ==
  ASSUME NEW S, NEW s \in Seq(S)
  PROVE  DOMAIN s = 1 .. Len(s) /\ DOMAIN s \subseteq Nat /\ Len(s) \in Nat
  OBVIOUS

-----------------------------------------------------------------------------
(* Packets.                                                                 *)

LEMMA Constants ==
  /\ RQ_SIZE \in Nat /\ WQ_SIZE \in Nat /\ PQ_SIZE \in Nat /\ MSHR_SIZE \in Nat
  /\ MAX_READ \in Nat /\ MAX_WRITE \in Nat /\ NUM_WAY \in Nat
  /\ HIT_LATENCY \in Nat /\ FILL_LATENCY \in Nat /\ NEVER \in Nat
  /\ LowerReads \in Nat /\ LowerWrites \in Nat
  /\ Prefetching \subseteq Uppers
  /\ RQ_SIZE > 0 /\ WQ_SIZE > 0 /\ PQ_SIZE > 0 /\ MSHR_SIZE > 0
  BY CacheAssumption DEF NEVER

LEMMA BlocksOf ==
  ASSUME NEW a \in Addrs
  PROVE  BlockOf[a] \in Blocks
  BY DEF Blocks

(* What the packet constructors make.                                       *)
LEMMA MadePackets ==
  /\ \A u \in Uppers, a \in Addrs : Load(u, a) \in Loads
  /\ \A a \in Addrs : Write(a) \in Writes
  /\ \A u \in Prefetching, a \in Addrs, l \in {UP, HERE} : UpperPrefetch(u, a, l) \in Prefetches
  /\ \A a \in Addrs, l \in {HERE, BELOW} : prefetch_line(a, l) \in Prefetches
<1>1. \A u \in Uppers, a \in Addrs : Load(u, a) \in Loads
  BY DEF Load, Loads
<1>2. \A a \in Addrs : Write(a) \in Writes
  BY DEF Write, Writes
<1>3. ASSUME NEW u \in Prefetching, NEW a \in Addrs, NEW l \in {UP, HERE}
      PROVE  UpperPrefetch(u, a, l) \in Prefetches
  <2>1. CASE l = UP
    BY <2>1 DEF UpperPrefetch, Prefetches, UP
  <2>2. CASE l = HERE
    BY <2>2 DEF UpperPrefetch, Prefetches, UP, HERE
  <2> QED
    BY <2>1, <2>2
<1>4. \A a \in Addrs, l \in {HERE, BELOW} : prefetch_line(a, l) \in Prefetches
  BY DEF prefetch_line, Prefetches
<1> QED
  BY <1>1, <1>2, <1>3, <1>4

(* Every packet of a queue is a packet.                                     *)
LEMMA PacketKinds ==
  Loads \subseteq Packet /\ Writes \subseteq Packet /\ Prefetches \subseteq Packet
<1>1. Loads \subseteq Packet
  BY DEF Loads, Packet
<1>2. Writes \subseteq Packet
  BY CacheAssumption DEF Writes, Packet
<1>3. Prefetches \subseteq Packet
  BY CacheAssumption DEF Prefetches, Packet
<1> QED
  BY <1>1, <1>2, <1>3

LEMMA DelayType ==
  ASSUME warmup_complete \in BOOLEAN
  PROVE  Delay \in 0 .. HIT_LATENCY
  BY Constants DEF Delay

(* Merging a packet into a member of a queue.                               *)
LEMMA Merged ==
  ASSUME NEW P, NEW q \in Seq(Entries(P)), NEW i \in DOMAIN q, NEW pkt, NEW r,
         r = Merge(q, i, pkt),
         [q[i].item EXCEPT !.to_return = q[i].item.to_return \cup pkt.to_return] \in P
  PROVE  /\ r \in Seq(Entries(P)) /\ Len(r) = Len(q) /\ DOMAIN r = DOMAIN q
         /\ r[i].item = [q[i].item EXCEPT !.to_return = q[i].item.to_return \cup pkt.to_return]
         /\ \A j \in DOMAIN q : j # i => r[j] = q[j]
<1> DEFINE it == [q[i].item EXCEPT !.to_return = q[i].item.to_return \cup pkt.to_return]
           x  == [q[i] EXCEPT !.item = it]
<1>1. r = [q EXCEPT ![i] = x]
  BY DEF Merge
<1>2. q[i] \in Entries(P)
  OBVIOUS
<1>3. x \in Entries(P) /\ x.item = it
  BY <1>2 DEF Entries
<1> HIDE DEF x, it
<1> QED
  BY <1>1, <1>3, Updated DEF it

-----------------------------------------------------------------------------
(* The queues.                                                              *)

(* push_back of a packet.                                                   *)
LEMMA PushKeeps ==
  ASSUME NEW P, NEW q \in Seq(Entries(P)), NEW e \in Entries(P)
  PROVE  /\ Append(q, e) \in Seq(Entries(P)) /\ Len(Append(q, e)) = Len(q) + 1
         /\ \A i \in DOMAIN q : Append(q, e)[i] = q[i]
         /\ Found(q, e.item.address) = {} /\ SingleEntry(q) => SingleEntry(Append(q, e))
         /\ \A u, b : QueueHolds(Append(q, e), u, b) <=>
                         QueueHolds(q, u, b) \/ Asks(e.item, u, b)
<1>0. DOMAIN q = 1 .. Len(q) /\ Len(q) \in Nat
  BY Indices
<1>1. PICK r : r = Append(q, e)
  OBVIOUS
<1>2. /\ r \in Seq(Entries(P)) /\ Len(r) = Len(q) + 1
      /\ DOMAIN r = 1 .. Len(q) + 1
      /\ \A i \in 1 .. Len(q) : r[i] = q[i]
      /\ r[Len(q) + 1] = e
  BY <1>1, Pushed
<1>3. PICK n : n = Len(q) + 1
  OBVIOUS
<1>4. /\ DOMAIN r = DOMAIN q \cup {n} /\ r[n] = e /\ n \notin DOMAIN q
      /\ \A i \in DOMAIN q : r[i] = q[i]
  BY <1>0, <1>2, <1>3
<1>5. Found(q, e.item.address) = {} /\ SingleEntry(q) => SingleEntry(r)
  BY <1>4 DEF Found, SameBlock, SingleEntry
<1>6. \A u, b : QueueHolds(r, u, b) <=> QueueHolds(q, u, b) \/ Asks(e.item, u, b)
  BY <1>4 DEF QueueHolds
<1> QED
  BY <1>1, <1>2, <1>4, <1>5, <1>6

LEMMA PushedEntry ==
  ASSUME NEW P, NEW pkt \in P, warmup_complete \in BOOLEAN, NEW e,
         e = [item |-> pkt, delay |-> Delay]
  PROVE  e \in Entries(P) /\ e.item = pkt
  BY DelayType DEF Entries

(* add_pq keeps the queue's types and bounds, and the members it had.       *)
LEMMA AddPqKeeps ==
  ASSUME NEW q \in Seq(Entries(Prefetches)), Len(q) <= PQ_SIZE, NEW pkt \in Prefetches,
         warmup_complete \in BOOLEAN
  PROVE  /\ AddPq(q, pkt) \in Seq(Entries(Prefetches))
         /\ Len(AddPq(q, pkt)) <= PQ_SIZE /\ Len(q) <= Len(AddPq(q, pkt))
         /\ \A i \in DOMAIN q :
              /\ AddPq(q, pkt)[i].item.address = q[i].item.address
              /\ pkt.to_return = {} => AddPq(q, pkt)[i].item.to_return = q[i].item.to_return
         /\ SingleEntry(q) => SingleEntry(AddPq(q, pkt))
         /\ \A u, b : QueueHolds(AddPq(q, pkt), u, b) <=>
              \/ QueueHolds(q, u, b)
              \/ /\ Asks(pkt, u, b) /\ ~ InWQ(pkt.address)
                 /\ Found(q, pkt.address) # {} \/ Len(q) < PQ_SIZE
<1>r. PICK r : r = AddPq(q, pkt)
  OBVIOUS
<1>0. Len(q) \in Nat /\ DOMAIN q = 1 .. Len(q) /\ PQ_SIZE \in Nat
  BY Constants
<1>1. CASE r = q /\ (InWQ(pkt.address) \/ (Found(q, pkt.address) = {} /\ ~ Len(q) < PQ_SIZE))
  <2>1. AddPq(q, pkt) = q
    BY <1>1, <1>r
  <2>2. Len(q) <= Len(q)
    BY <1>0
  <2> QED
    BY <2>1, <2>2, <1>1, Zenon
<1>2. CASE ~ InWQ(pkt.address) /\ Found(q, pkt.address) = {} /\ Len(q) < PQ_SIZE
  <2>e. PICK e : e = [item |-> pkt, delay |-> Delay]
    OBVIOUS
  <2>0. e \in Entries(Prefetches) /\ e.item = pkt
    BY <2>e, PushedEntry
  <2>1. r = Append(q, e)
    BY <2>e, <1>2, <1>r DEF AddPq
  <2>2. /\ r \in Seq(Entries(Prefetches)) /\ Len(r) = Len(q) + 1
        /\ \A i \in DOMAIN q : r[i] = q[i]
        /\ SingleEntry(q) => SingleEntry(r)
        /\ \A u, b : QueueHolds(r, u, b) <=> QueueHolds(q, u, b) \/ Asks(pkt, u, b)
    BY <2>0, <2>1, <1>2, PushKeeps
  <2>3. Len(r) <= PQ_SIZE /\ Len(q) <= Len(r)
    BY <2>2, <1>0, <1>2
  <2> QED
    BY <2>2, <2>3, <1>2, <1>r
<1>3. CASE ~ InWQ(pkt.address) /\ Found(q, pkt.address) # {}
  <2>1. PICK i : i = Min(Found(q, pkt.address))
    OBVIOUS
  <2>2. i \in Found(q, pkt.address)
    <3>1. Found(q, pkt.address) \in SUBSET Nat
      BY <1>0 DEF Found
    <3> QED
      BY <3>1, <2>1, <1>3, LeastOf, Zenon
  <2>3. i \in DOMAIN q /\ BlockOf[q[i].item.address] = BlockOf[pkt.address]
    BY <2>2 DEF Found, SameBlock
  <2>4. q[i] \in Entries(Prefetches) /\ q[i].item \in Prefetches
    <3>1. q[i] \in Entries(Prefetches)
      BY <2>3
    <3> QED
      BY <3>1 DEF Entries
  <2>5. PICK l : l = Min({q[i].item.fill_level, pkt.fill_level})
    OBVIOUS
  <2>6. /\ l \in {q[i].item.fill_level, pkt.fill_level}
        /\ l <= q[i].item.fill_level /\ l <= pkt.fill_level
    <3>1. {q[i].item.fill_level, pkt.fill_level} \in SUBSET Nat
      BY <2>4 DEF Prefetches, UP, HERE, BELOW
    <3>2. {q[i].item.fill_level, pkt.fill_level} # {}
      OBVIOUS
    <3>3. /\ l \in {q[i].item.fill_level, pkt.fill_level}
          /\ \A k \in {q[i].item.fill_level, pkt.fill_level} : l <= k
      BY <3>1, <3>2, <2>5, LeastOf, Zenon
    <3> QED
      BY <3>3
  <2>7. PICK it : it = [[q[i].item EXCEPT !.fill_level = l]
                          EXCEPT !.to_return = q[i].item.to_return \cup pkt.to_return]
    OBVIOUS
  <2>8. it \in Prefetches
    <3> DEFINE p == q[i].item
    <3>1. p \in [address : Addrs, type : {"PREFETCH"}, fill_level : {UP, HERE, BELOW},
                 pf_origin_level : {0, UP, HERE}, to_return : SUBSET Prefetching]
      BY <2>4 DEF Prefetches
    <3>2. /\ p.to_return # {} => p.fill_level = UP
          /\ pkt.to_return # {} => pkt.fill_level = UP
      BY <2>4 DEF Prefetches
    <3>3. l \in {UP, HERE, BELOW} /\ (p.fill_level = UP \/ pkt.fill_level = UP => l = UP)
      BY <2>6, <2>4 DEF Prefetches, UP, HERE, BELOW
    <3>4. pkt.to_return \in SUBSET Prefetching
      BY DEF Prefetches
    <3>5. it = [[p EXCEPT !.fill_level = l] EXCEPT !.to_return = p.to_return \cup pkt.to_return]
      BY <2>7
    <3> HIDE DEF p
    <3>6. it \in [address : Addrs, type : {"PREFETCH"}, fill_level : {UP, HERE, BELOW},
                  pf_origin_level : {0, UP, HERE}, to_return : SUBSET Prefetching]
      BY <3>1, <3>3, <3>4, <3>5
    <3>7. it.to_return = p.to_return \cup pkt.to_return /\ it.fill_level = l
      BY <3>1, <3>5
    <3>8. it.to_return # {} => it.fill_level = UP
      BY <3>7, <3>2, <3>3
    <3> QED
      BY <3>6, <3>8 DEF Prefetches
  <2>9. it.address = q[i].item.address /\ it.to_return = q[i].item.to_return \cup pkt.to_return
    BY <2>7, <2>4 DEF Prefetches
  <2>10. PICK x : x = [q[i] EXCEPT !.item = it]
    OBVIOUS
  <2>11. x \in Entries(Prefetches) /\ x.item = it
    BY <2>10, <2>8, <2>4 DEF Entries
  <2>12. r = [q EXCEPT ![i] = x]
    <3>1. PICK y : y = [q[i] EXCEPT !.item = [q[i].item EXCEPT !.fill_level = l]]
      OBVIOUS
    <3>2. PICK p : p = [q EXCEPT ![i] = y]
      OBVIOUS
    <3>3. r = Merge(p, i, pkt)
      BY <1>3, <2>1, <2>5, <3>1, <3>2, <1>r DEF AddPq
    <3>4. y \in Entries([address : Addrs, type : {"PREFETCH"}, fill_level : {UP, HERE, BELOW},
          pf_origin_level : {0, UP, HERE}, to_return : SUBSET Prefetching])
      BY <3>1, <2>4, <2>6 DEF Entries, Prefetches
    <3>5. p[i] = y
      BY <3>2, <2>3
    <3>6. Merge(p, i, pkt) =
            [p EXCEPT ![i] = [y EXCEPT !.item = [y.item EXCEPT !.to_return =
                                 y.item.to_return \cup pkt.to_return]]]
      BY <3>5 DEF Merge
    <3>7. y.item = [q[i].item EXCEPT !.fill_level = l] /\ y.item.to_return = q[i].item.to_return
      BY <3>1, <2>4 DEF Entries, Prefetches
    <3>8. [y EXCEPT !.item = it] = x
      BY <3>1, <2>10, <2>4 DEF Entries
    <3>9. [y.item EXCEPT !.to_return = y.item.to_return \cup pkt.to_return] = it
      BY <3>7, <2>7
    <3>10. r = [p EXCEPT ![i] = x]
      BY <3>3, <3>6, <3>8, <3>9
    <3> QED
      BY <3>10, <3>2
  <2>13. /\ r \in Seq(Entries(Prefetches)) /\ Len(r) = Len(q) /\ DOMAIN r = DOMAIN q
         /\ r[i].item = it
         /\ \A j \in DOMAIN q : j # i => r[j] = q[j]
    BY <2>12, <2>11, <2>3, Updated
  <2>14. \A j \in DOMAIN q : r[j].item.address = q[j].item.address
    BY <2>13, <2>9
  <2>15. \A j \in DOMAIN q : pkt.to_return = {} => r[j].item.to_return = q[j].item.to_return
    BY <2>13, <2>9
  <2>16. SingleEntry(q) => SingleEntry(r)
    BY <2>13, <2>14 DEF SingleEntry
  <2>17. ASSUME NEW u, NEW b
         PROVE  QueueHolds(r, u, b) <=> QueueHolds(q, u, b) \/ Asks(pkt, u, b)
    <3>1. \A j \in DOMAIN q : j # i => (Asks(r[j].item, u, b) <=> Asks(q[j].item, u, b))
      BY <2>13
    <3>2. Asks(r[i].item, u, b) <=> Asks(q[i].item, u, b) \/ Asks(pkt, u, b)
      BY <2>13, <2>9, <2>3 DEF Asks
    <3> QED
      BY <3>1, <3>2, <2>13, <2>3 DEF QueueHolds
  <2>18. \A u, b : QueueHolds(r, u, b) <=> QueueHolds(q, u, b) \/ Asks(pkt, u, b)
    BY <2>17
  <2>19. Len(r) <= PQ_SIZE /\ Len(q) <= Len(r) /\ r \in Seq(Entries(Prefetches))
    BY <2>13, <1>0
  <2> QED
    BY <2>14, <2>15, <2>16, <2>18, <2>19, <1>3, <1>r
<1>4. \/ r = q /\ (InWQ(pkt.address) \/ (Found(q, pkt.address) = {} /\ ~ Len(q) < PQ_SIZE))
      \/ ~ InWQ(pkt.address) /\ Found(q, pkt.address) = {} /\ Len(q) < PQ_SIZE
      \/ ~ InWQ(pkt.address) /\ Found(q, pkt.address) # {}
  BY <1>r DEF AddPq
<1> QED
  BY <1>1, <1>2, <1>3, <1>4

(* pop_front of a queue whose first member is ready.                        *)
LEMMA PopKeeps ==
  ASSUME NEW P, NEW size \in Nat, NEW q, NEW n, QueueOK(q, n, P, size), Len(q) > 0
  PROVE  /\ n > 0 => QueueOK(Tail(q), n - 1, P, size)
         /\ Head(q).item \in P /\ Head(q) = q[1]
         /\ SingleEntry(q) => SingleEntry(Tail(q))
         /\ SingleEntry(q) =>
              \A u, b : QueueHolds(Tail(q), u, b) <=>
                          QueueHolds(q, u, b) /\ ~ Asks(Head(q).item, u, b)
<1>0. q \in Seq(Entries(P)) /\ Len(q) <= size /\ n \in 0 .. Len(q)
  BY DEF QueueOK
<1>1. Len(q) \in Nat /\ DOMAIN q = 1 .. Len(q)
  BY <1>0
<1>2. PICK t : t = Tail(q)
  OBVIOUS
<1>3. /\ t \in Seq(Entries(P)) /\ Len(t) = Len(q) - 1
      /\ DOMAIN t = 1 .. Len(q) - 1
      /\ \A i \in 1 .. Len(q) - 1 : t[i] = q[i + 1]
      /\ 1 \in DOMAIN q /\ Head(q) = q[1] /\ q[1] \in Entries(P)
  BY <1>0, <1>2, Popped
<1>4. n > 0 => QueueOK(t, n - 1, P, size)
  BY <1>0, <1>1, <1>3 DEF QueueOK
<1>5. Head(q).item \in P
  BY <1>3 DEF Entries
<1>6. \A i \in DOMAIN t : i + 1 \in DOMAIN q /\ i + 1 # 1 /\ t[i] = q[i + 1]
  BY <1>1, <1>3
<1>7. SingleEntry(q) => SingleEntry(t)
  <2> SUFFICES ASSUME SingleEntry(q), NEW i \in DOMAIN t, NEW j \in DOMAIN t,
                      BlockOf[t[i].item.address] = BlockOf[t[j].item.address]
               PROVE  i = j
    BY DEF SingleEntry
  <2>1. i + 1 = j + 1
    BY <1>6 DEF SingleEntry
  <2> QED
    BY <2>1, <1>1, <1>3
<1>8. ASSUME SingleEntry(q), NEW u, NEW b
      PROVE  QueueHolds(t, u, b) <=> QueueHolds(q, u, b) /\ ~ Asks(Head(q).item, u, b)
  <2>1. ASSUME QueueHolds(t, u, b)
        PROVE  QueueHolds(q, u, b) /\ ~ Asks(Head(q).item, u, b)
    <3>1. PICK i \in DOMAIN t : Asks(t[i].item, u, b)
      BY <2>1 DEF QueueHolds
    <3>2. QueueHolds(q, u, b)
      BY <3>1, <1>6 DEF QueueHolds
    <3>3. ~ Asks(q[1].item, u, b)
      BY <3>1, <1>3, <1>6, <1>8 DEF SingleEntry, Asks
    <3> QED
      BY <3>2, <3>3, <1>3
  <2>2. ASSUME QueueHolds(q, u, b), ~ Asks(Head(q).item, u, b)
        PROVE  QueueHolds(t, u, b)
    <3>1. PICK i \in DOMAIN q : Asks(q[i].item, u, b)
      BY <2>2 DEF QueueHolds
    <3>2. i # 1
      BY <3>1, <2>2, <1>3
    <3>3. i - 1 \in DOMAIN t /\ t[i - 1] = q[i]
      BY <3>2, <1>1, <1>3
    <3> QED
      BY <3>1, <3>3 DEF QueueHolds
  <2> QED
    BY <2>1, <2>2
<1> QED
  BY <1>2, <1>3, <1>4, <1>5, <1>7, <1>8

(* delay_queue::operate changes the delays and what is ready.               *)
Ticked(q) == [i \in DOMAIN q |-> [q[i] EXCEPT !.delay = IF @ > 0 THEN @ - 1 ELSE 0]]

LEMMA TickKeeps ==
  ASSUME NEW P, NEW size \in Nat, NEW q, NEW n, QueueOK(q, n, P, size), NEW m \in 0 .. Len(q)
  PROVE  /\ QueueOK(Ticked(q), m, P, size)
         /\ SingleEntry(q) => SingleEntry(Ticked(q))
         /\ \A u, b : QueueHolds(Ticked(q), u, b) <=> QueueHolds(q, u, b)
         /\ DOMAIN Ticked(q) = DOMAIN q /\ \A i \in DOMAIN q : Ticked(q)[i].item = q[i].item
<1>r. PICK r : r = Ticked(q)
  OBVIOUS
<1>0. q \in Seq(Entries(P)) /\ Len(q) <= size
  BY DEF QueueOK
<1>1. ASSUME NEW i \in DOMAIN q  PROVE r[i] \in Entries(P) /\ r[i].item = q[i].item
  <2>1. q[i] \in Entries(P)
    BY <1>0
  <2>2. PICK e : e = q[i]
    OBVIOUS
  <2>3. PICK d : d = IF e.delay > 0 THEN e.delay - 1 ELSE 0
    OBVIOUS
  <2>4. r[i] = [e EXCEPT !.delay = d]
    BY <2>2, <2>3, <1>r DEF Ticked
  <2>5. e \in [item : P, delay : 0 .. HIT_LATENCY]
    BY <2>1, <2>2 DEF Entries
  <2>6. d \in 0 .. HIT_LATENCY
    <3>1. e.delay \in 0 .. HIT_LATENCY
      BY <2>5
    <3>2. HIT_LATENCY \in Nat
      BY Constants
    <3>3. \A k \in 0 .. HIT_LATENCY : (IF k > 0 THEN k - 1 ELSE 0) \in 0 .. HIT_LATENCY
      BY <3>2
    <3> QED
      BY <2>3, <3>1, <3>3
  <2> QED
    BY <2>2, <2>4, <2>5, <2>6 DEF Entries
<1>2. r \in Seq(Entries(P)) /\ Len(r) = Len(q) /\ DOMAIN r = DOMAIN q
  <2>1. r = [i \in DOMAIN q |-> r[i]]
    BY <1>r DEF Ticked
  <2> QED
    BY <2>1, <1>0, <1>1, Listed
<1>3. QueueOK(r, m, P, size)
  BY <1>0, <1>2 DEF QueueOK
<1>4. SingleEntry(q) => SingleEntry(r)
  BY <1>1, <1>2 DEF SingleEntry
<1>5. \A u, b : QueueHolds(r, u, b) <=> QueueHolds(q, u, b)
  BY <1>1, <1>2 DEF QueueHolds
<1> QED
  BY <1>r, <1>1, <1>2, <1>3, <1>4, <1>5

(* What the prefetcher of this level adds is asked for by nobody.           *)
LEMMA PrefetchedKeeps ==
  ASSUME NEW q, NEW n, QueueOK(q, n, Prefetches, PQ_SIZE), warmup_complete \in BOOLEAN,
         NEW r \in Prefetched(q)
  PROVE  /\ QueueOK(r, n, Prefetches, PQ_SIZE) /\ Len(q) <= Len(r)
         /\ SingleEntry(q) => SingleEntry(r)
         /\ \A u, b : QueueHolds(r, u, b) <=> QueueHolds(q, u, b)
         /\ \A i \in DOMAIN q : /\ r[i].item.address = q[i].item.address
                                /\ r[i].item.to_return = q[i].item.to_return
<1>0. q \in Seq(Entries(Prefetches)) /\ Len(q) <= PQ_SIZE /\ n \in 0 .. Len(q) /\ Len(q) \in Nat
  BY DEF QueueOK
<1>1. CASE r = q
  BY <1>0, <1>1
<1>2. CASE \E a \in Addrs, l \in {HERE, BELOW} : r = AddPq(q, prefetch_line(a, l))
  <2>1. PICK a \in Addrs, l \in {HERE, BELOW} : r = AddPq(q, prefetch_line(a, l))
    BY <1>2
  <2>2. PICK pkt : pkt = prefetch_line(a, l)
    OBVIOUS
  <2>3. pkt \in Prefetches
    BY <2>2, MadePackets
  <2>4. pkt.to_return = {} /\ \A u, b : ~ Asks(pkt, u, b)
    BY <2>2 DEF prefetch_line, Asks
  <2>5. r = AddPq(q, pkt)
    BY <2>1, <2>2
  <2>6. /\ r \in Seq(Entries(Prefetches))
        /\ Len(r) <= PQ_SIZE /\ Len(q) <= Len(r)
        /\ \A i \in DOMAIN q :
             /\ r[i].item.address = q[i].item.address
             /\ pkt.to_return = {} => r[i].item.to_return = q[i].item.to_return
        /\ SingleEntry(q) => SingleEntry(r)
        /\ \A u, b : QueueHolds(r, u, b) <=>
             \/ QueueHolds(q, u, b)
             \/ /\ Asks(pkt, u, b) /\ ~ InWQ(pkt.address)
                /\ Found(q, pkt.address) # {} \/ Len(q) < PQ_SIZE
    BY <1>0, <2>3, <2>5, AddPqKeeps
  <2>7. QueueOK(r, n, Prefetches, PQ_SIZE)
    BY <1>0, <2>6, Constants DEF QueueOK
  <2> QED
    BY <2>4, <2>6, <2>7
<1> QED
  BY <1>1, <1>2 DEF Prefetched

LEMMA AfterPrefetcherKeeps ==
  ASSUME NEW q, NEW n, QueueOK(q, n, Prefetches, PQ_SIZE), warmup_complete \in BOOLEAN,
         NEW pkt, NEW r \in AfterPrefetcher(q, pkt)
  PROVE  /\ QueueOK(r, n, Prefetches, PQ_SIZE) /\ Len(q) <= Len(r)
         /\ SingleEntry(q) => SingleEntry(r)
         /\ \A u, b : QueueHolds(r, u, b) <=> QueueHolds(q, u, b)
         /\ \A i \in DOMAIN q : /\ r[i].item.address = q[i].item.address
                                /\ r[i].item.to_return = q[i].item.to_return
<1>1. r \in Prefetched(q)
  BY DEF AfterPrefetcher, Prefetched
<1> QED
  BY <1>1, PrefetchedKeeps

(* PQ.pop_front after the prefetcher was asked about the first member.      *)
LEMMA PopPqKeeps ==
  ASSUME NEW q, NEW n, QueueOK(q, n, Prefetches, PQ_SIZE), n > 0, warmup_complete \in BOOLEAN,
         NEW pkt, NEW r \in AfterPrefetcher(q, pkt)
  PROVE  /\ QueueOK(Tail(r), n - 1, Prefetches, PQ_SIZE)
         /\ Head(q).item \in Prefetches
         /\ SingleEntry(q) => SingleEntry(Tail(r))
         /\ SingleEntry(q) =>
              \A u, b : QueueHolds(Tail(r), u, b) <=>
                          QueueHolds(q, u, b) /\ ~ Asks(Head(q).item, u, b)
<1>0. q \in Seq(Entries(Prefetches)) /\ n \in 0 .. Len(q) /\ Len(q) \in Nat
  BY DEF QueueOK
<1>1. /\ QueueOK(r, n, Prefetches, PQ_SIZE) /\ Len(q) <= Len(r)
      /\ SingleEntry(q) => SingleEntry(r)
      /\ \A u, b : QueueHolds(r, u, b) <=> QueueHolds(q, u, b)
      /\ \A i \in DOMAIN q : /\ r[i].item.address = q[i].item.address
                             /\ r[i].item.to_return = q[i].item.to_return
  BY AfterPrefetcherKeeps
<1>2. Len(r) > 0 /\ Len(q) > 0 /\ 1 \in DOMAIN q
  <2>1. Len(r) \in Nat
    BY <1>1 DEF QueueOK
  <2> QED
    BY <2>1, <1>0, <1>1
<1>3. Head(q) = q[1] /\ Head(q).item \in Prefetches
  BY <1>2, Constants, PopKeeps
<1>4. /\ QueueOK(Tail(r), n - 1, Prefetches, PQ_SIZE)
      /\ Head(r) = r[1]
      /\ SingleEntry(r) => SingleEntry(Tail(r))
      /\ SingleEntry(r) =>
           \A u, b : QueueHolds(Tail(r), u, b) <=>
                       QueueHolds(r, u, b) /\ ~ Asks(Head(r).item, u, b)
  BY <1>1, <1>2, Constants, PopKeeps
<1>5. \A u, b : Asks(Head(r).item, u, b) <=> Asks(Head(q).item, u, b)
  BY <1>1, <1>2, <1>3, <1>4 DEF Asks
<1> QED
  BY <1>1, <1>3, <1>4, <1>5

-----------------------------------------------------------------------------
(* The misses.                                                              *)

(* return_data: the swap keeps the list in order, and the miss is           *)
(* outstanding no more.                                                     *)
LEMMA ReturnKeeps ==
  ASSUME NEW s \in Seq(MissRecords), SingleMiss(s), Ordered(s), warmup_complete \in BOOLEAN,
         ~ warmup_complete => NoneDelayed(s),
         NEW b, NEW k \in DOMAIN s, BlockOf[s[k].address] = b, s[k].event = NEVER,
         NEW r, r = return_data(s, b)
  PROVE  /\ r \in Seq(MissRecords) /\ Len(r) = Len(s)
         /\ SingleMiss(r) /\ Ordered(r)
         /\ ~ warmup_complete => NoneDelayed(r)
         /\ \A c : Outstanding(r, c) <=> Outstanding(s, c) /\ c # b
         /\ \A u, c : MissHolds(r, u, c) <=> MissHolds(s, u, c)
         /\ PrefetchOwn(s) => PrefetchOwn(r)
<1>0. DOMAIN s = 1 .. Len(s) /\ Len(s) \in Nat /\ DOMAIN s \subseteq Nat
  BY Indices
<1>1. Min(Misses(s, b)) = k
  <2>1. Misses(s, b) = {k}
    BY DEF Misses, SingleMiss
  <2>2. Misses(s, b) \in SUBSET Nat /\ Misses(s, b) # {}
    BY <2>1, <1>0
  <2> QED
    BY <2>1, <2>2, LeastOf
<1>2. PICK j : j = Min({m \in DOMAIN s : s[m].event = NEVER})
  OBVIOUS
<1>3. j \in DOMAIN s /\ s[j].event = NEVER /\ \A m \in DOMAIN s : s[m].event = NEVER => j <= m
  <2>1. {m \in DOMAIN s : s[m].event = NEVER} \in SUBSET Nat
    BY <1>0
  <2>2. {m \in DOMAIN s : s[m].event = NEVER} # {}
    OBVIOUS
  <2>3. /\ j \in {m \in DOMAIN s : s[m].event = NEVER}
        /\ \A m \in {n \in DOMAIN s : s[n].event = NEVER} : j <= m
    BY <2>1, <2>2, <1>2, LeastOf, Zenon
  <2> QED
    BY <2>3
<1>4. PICK e : e = IF warmup_complete THEN FILL_LATENCY ELSE 0
  OBVIOUS
<1>5. e \in 0 .. FILL_LATENCY /\ e # NEVER /\ e \in 0 .. NEVER /\ (~ warmup_complete => e = 0)
      /\ (warmup_complete => e = FILL_LATENCY)
  BY <1>4, Constants DEF NEVER
<1>6. PICK x : x = [s[k] EXCEPT !.event = e]
  OBVIOUS
<1>7. \A m \in DOMAIN s : s[m] \in MissRecords
  OBVIOUS
<1>8. x \in MissRecords /\ x.event = e /\ x.address = s[k].address
      /\ x.to_return = s[k].to_return /\ x.type = s[k].type
  <2>1. s[k] \in MissRecords
    BY <1>7
  <2> QED
    BY <2>1, <1>6, <1>5 DEF MissRecords
<1>9. /\ DOMAIN r = DOMAIN s /\ r[j] = x
      /\ \A m \in DOMAIN s : m # j => r[m] = IF m = k THEN s[j] ELSE s[m]
      /\ r \in Seq(MissRecords) /\ Len(r) = Len(s)
  <2>1. PICK d : d = [s EXCEPT ![k] = x]
    OBVIOUS
  <2>2. r = [[d EXCEPT ![k] = d[j]] EXCEPT ![j] = d[k]]
    BY <1>1, <1>2, <1>4, <1>6, <2>1 DEF return_data
  <2>3. /\ d \in Seq(MissRecords) /\ Len(d) = Len(s) /\ DOMAIN d = DOMAIN s /\ d[k] = x
        /\ \A m \in DOMAIN s : m # k => d[m] = s[m]
    BY <2>1, <1>8, Updated
  <2>4. d[j] \in MissRecords /\ d[k] \in MissRecords
    BY <2>3, <1>3, <1>8
  <2>5. PICK f : f = [d EXCEPT ![k] = d[j]]
    OBVIOUS
  <2>6. /\ f \in Seq(MissRecords) /\ Len(f) = Len(s) /\ DOMAIN f = DOMAIN s /\ f[k] = d[j]
        /\ \A m \in DOMAIN s : m # k => f[m] = d[m]
    BY <2>3, <2>4, <2>5, Updated
  <2>7. r = [f EXCEPT ![j] = x]
    BY <2>2, <2>3, <2>5
  <2>8. /\ r \in Seq(MissRecords) /\ Len(r) = Len(s) /\ DOMAIN r = DOMAIN s /\ r[j] = x
        /\ \A m \in DOMAIN s : m # j => r[m] = f[m]
    BY <2>6, <2>7, <1>3, <1>8, Updated
  <2>9. ASSUME NEW m \in DOMAIN s, m # j  PROVE r[m] = IF m = k THEN s[j] ELSE s[m]
    <3>1. CASE m = k
      BY <3>1, <2>9, <2>3, <2>6, <2>8, <1>3
    <3>2. CASE m # k
      BY <3>2, <2>9, <2>3, <2>6, <2>8
    <3> QED
      BY <3>1, <3>2
  <2> QED
    BY <2>8, <2>9
<1>10. PICK p : p = [m \in DOMAIN s |-> IF m = j THEN k ELSE IF m = k THEN j ELSE m]
  OBVIOUS
<1>11. /\ \A m \in DOMAIN s : p[m] \in DOMAIN s /\ p[p[m]] = m
       /\ \A m \in DOMAIN s : /\ r[m].address = s[p[m]].address
                              /\ r[m].to_return = s[p[m]].to_return
                              /\ r[m].type = s[p[m]].type
  BY <1>3, <1>8, <1>9, <1>10
<1>12. \A m \in DOMAIN s : r[m].event = IF m = j THEN e ELSE s[m].event
  BY <1>3, <1>8, <1>9
<1>13. SingleMiss(r)
  <2> SUFFICES ASSUME NEW m \in DOMAIN s, NEW n \in DOMAIN s,
                      BlockOf[r[m].address] = BlockOf[r[n].address]
               PROVE  m = n
    BY <1>9 DEF SingleMiss
  <2>1. p[m] \in DOMAIN s /\ p[n] \in DOMAIN s
        /\ BlockOf[s[p[m]].address] = BlockOf[s[p[n]].address]
    BY <1>11
  <2>2. p[m] = p[n]
    BY <2>1 DEF SingleMiss
  <2>3. p[p[m]] = m /\ p[p[n]] = n
    BY <1>11
  <2> QED
    BY <2>2, <2>3
<1>14. Ordered(r)
  <2> SUFFICES ASSUME NEW m \in DOMAIN s, NEW n \in DOMAIN s, m < n
               PROVE  r[m].event <= r[n].event
    BY <1>9 DEF Ordered
  <2>1. s[m].event \in 0 .. NEVER /\ s[n].event \in 0 .. NEVER
    BY <1>7 DEF MissRecords
  <2>2. CASE m # j /\ n # j
    BY <2>2, <1>12 DEF Ordered
  <2>3. CASE m = j
    <3>1. s[n].event = NEVER /\ n # j
      <4>1. NEVER <= s[n].event
        BY <2>3, <1>3 DEF Ordered
      <4> QED
        BY <4>1, <2>1, <2>3, <1>0, Constants
    <3> QED
      BY <3>1, <2>3, <1>12, <1>5, Constants
  <2>4. CASE n = j
    <3>1. s[m].event # NEVER /\ m # j
      BY <2>4, <1>3, <1>0
    <3>2. s[m].event <= FILL_LATENCY
      BY <3>1, <2>1, Constants DEF NEVER
    <3>3. ~ warmup_complete => s[m].event = 0
      BY <3>1 DEF NoneDelayed
    <3>4. r[m].event = s[m].event /\ r[n].event = e
      BY <3>1, <2>4, <1>12
    <3>5. s[m].event <= e
      BY <3>2, <3>3, <1>5
    <3> QED
      BY <3>4, <3>5
  <2> QED
    BY <2>2, <2>3, <2>4
<1>15. ~ warmup_complete => NoneDelayed(r)
  BY <1>5, <1>9, <1>12 DEF NoneDelayed
<1>16. ASSUME NEW c  PROVE Outstanding(r, c) <=> Outstanding(s, c) /\ c # b
  <2>1. ASSUME Outstanding(r, c)  PROVE Outstanding(s, c) /\ c # b
    <3>1. PICK m \in DOMAIN s : BlockOf[r[m].address] = c /\ r[m].event = NEVER
      BY <2>1, <1>9 DEF Outstanding
    <3>2. m # j /\ s[m].event = NEVER
      BY <3>1, <1>12, <1>5
    <3>3. s[p[m]].event = NEVER /\ p[m] # k /\ p[m] \in DOMAIN s
      BY <3>2, <1>3, <1>10
    <3>4. BlockOf[s[p[m]].address] = c
      BY <3>1, <1>11
    <3> QED
      BY <3>3, <3>4 DEF Outstanding, SingleMiss
  <2>2. ASSUME Outstanding(s, c), c # b  PROVE Outstanding(r, c)
    <3>1. PICK m \in DOMAIN s : BlockOf[s[m].address] = c /\ s[m].event = NEVER
      BY <2>2 DEF Outstanding
    <3>2. m # k
      BY <3>1, <2>2
    <3>3. p[m] # j /\ p[m] \in DOMAIN s /\ p[p[m]] = m
      BY <3>2, <1>11, <1>10
    <3>4. s[p[m]].event = NEVER
      BY <3>1, <3>2, <1>3, <1>10
    <3>5. r[p[m]].event = NEVER
      BY <3>3, <3>4, <1>12
    <3>6. r[p[m]].address = s[m].address
      BY <3>3, <1>11
    <3> QED
      BY <3>1, <3>3, <3>5, <3>6, <1>9 DEF Outstanding
  <2> QED
    BY <2>1, <2>2
<1>17. ASSUME NEW u, NEW c  PROVE MissHolds(r, u, c) <=> MissHolds(s, u, c)
  <2>1. \A m \in DOMAIN s : Asks(r[m], u, c) <=> Asks(s[p[m]], u, c)
    BY <1>11 DEF Asks
  <2>2. \A m \in DOMAIN s : Asks(r[p[m]], u, c) <=> Asks(s[m], u, c)
    BY <2>1, <1>11
  <2> QED
    BY <2>1, <2>2, <1>9, <1>11 DEF MissHolds
<1>18. PrefetchOwn(s) => PrefetchOwn(r)
  BY <1>9, <1>11 DEF PrefetchOwn
<1> QED
  BY <1>9, <1>13, <1>14, <1>15, <1>16, <1>17, <1>18

(* A packet that may be missed on.                                          *)
MayMiss(pkt) == pkt \in Packet /\ pkt.type \in {"LOAD", "PREFETCH", "RFO"}

LEMMA MissMade ==
  ASSUME NEW pkt, MayMiss(pkt), NEW e \in 0 .. NEVER, NEW m,
         m = [address |-> pkt.address, type |-> pkt.type, to_return |-> pkt.to_return, event |-> e]
  PROVE  /\ m \in MissRecords /\ m.address = pkt.address /\ m.type = pkt.type
         /\ m.to_return = pkt.to_return /\ m.event = e
<1>1. pkt.address \in Addrs /\ pkt.to_return \in SUBSET Uppers
      /\ pkt.type \in {"LOAD", "PREFETCH", "RFO"}
  BY DEF MayMiss, Packet
<1>2. ASSUME NEW a \in Addrs, NEW t \in {"LOAD", "PREFETCH", "RFO"}, NEW R \in SUBSET Uppers
      PROVE  [address |-> a, type |-> t, to_return |-> R, event |-> e] \in MissRecords
  BY DEF MissRecords
<1>3. m \in MissRecords
  BY <1>1, <1>2
<1> QED
  BY <1>3

(* A new miss goes to the end of the list.                                  *)
LEMMA ListKeeps ==
  ASSUME NEW s \in Seq(MissRecords), SingleMiss(s), Ordered(s), NEW pkt, MayMiss(pkt),
         Misses(s, BlockOf[pkt.address]) = {}, NEW r, r = Append(s, Miss(pkt))
  PROVE  /\ r \in Seq(MissRecords) /\ Len(r) = Len(s) + 1
         /\ SingleMiss(r) /\ Ordered(r)
         /\ NoneDelayed(s) => NoneDelayed(r)
         /\ \A c : Outstanding(r, c) <=> Outstanding(s, c) \/ c = BlockOf[pkt.address]
         /\ ~ Outstanding(s, BlockOf[pkt.address])
         /\ \A u, c : MissHolds(r, u, c) <=> MissHolds(s, u, c) \/ Asks(pkt, u, c)
         /\ PrefetchOwn(s) /\ (pkt.type = "PREFETCH" => pkt.to_return \subseteq Prefetching)
              => PrefetchOwn(r)
         /\ Len(s) + 1 \in DOMAIN r /\ r[Len(s) + 1].event = NEVER
         /\ r[Len(s) + 1].address = pkt.address
<1>0. DOMAIN s = 1 .. Len(s) /\ Len(s) \in Nat
  BY Indices
<1>1. PICK m : m = Miss(pkt)
  OBVIOUS
<1>2. /\ m \in MissRecords /\ m.address = pkt.address /\ m.type = pkt.type
      /\ m.to_return = pkt.to_return /\ m.event = NEVER
  <2>1. NEVER \in 0 .. NEVER
    BY Constants
  <2>2. m = [address |-> pkt.address, type |-> pkt.type, to_return |-> pkt.to_return,
             event |-> NEVER]
    BY <1>1 DEF Miss
  <2> QED
    BY <2>1, <2>2, MissMade
<1>3. /\ r \in Seq(MissRecords) /\ Len(r) = Len(s) + 1
      /\ DOMAIN r = 1 .. Len(s) + 1
      /\ \A i \in 1 .. Len(s) : r[i] = s[i]
      /\ r[Len(s) + 1] = m
  BY <1>1, <1>2, Pushed
<1>4. \A i \in DOMAIN s : BlockOf[s[i].address] # BlockOf[pkt.address]
  BY DEF Misses
<1>5. PICK n : n = Len(s) + 1
  OBVIOUS
<1>6. /\ DOMAIN r = DOMAIN s \cup {n} /\ r[n] = m /\ n \notin DOMAIN s
      /\ \A i \in DOMAIN s : r[i] = s[i] /\ i < n
  BY <1>0, <1>3, <1>5
<1>7. SingleMiss(r)
  BY <1>2, <1>4, <1>6 DEF SingleMiss
<1>8. Ordered(r)
  <2> SUFFICES ASSUME NEW i \in DOMAIN r, NEW j \in DOMAIN r, i < j
               PROVE  r[i].event <= r[j].event
    BY DEF Ordered
  <2>1. i \in DOMAIN s
    BY <1>0, <1>3, <1>5, <1>6
  <2>2. CASE j \in DOMAIN s
    BY <2>1, <2>2, <1>6 DEF Ordered
  <2>3. CASE j = n
    <3>1. s[i] \in MissRecords
      BY <2>1
    <3>2. s[i].event \in 0 .. NEVER
      BY <3>1 DEF MissRecords
    <3> QED
      BY <2>1, <2>3, <3>2, <1>2, <1>6, Constants
  <2> QED
    BY <2>2, <2>3, <1>6
<1>9. NoneDelayed(s) => NoneDelayed(r)
  BY <1>2, <1>6 DEF NoneDelayed
<1>10. \A c : Outstanding(r, c) <=> Outstanding(s, c) \/ c = BlockOf[pkt.address]
  BY <1>2, <1>6 DEF Outstanding
<1>11. ~ Outstanding(s, BlockOf[pkt.address])
  BY <1>4 DEF Outstanding
<1>12. \A u, c : Asks(m, u, c) <=> Asks(pkt, u, c)
  BY <1>2 DEF Asks
<1>13. \A u, c : MissHolds(r, u, c) <=> MissHolds(s, u, c) \/ Asks(pkt, u, c)
  BY <1>6, <1>12 DEF MissHolds
<1>14. PrefetchOwn(s) /\ (pkt.type = "PREFETCH" => pkt.to_return \subseteq Prefetching)
         => PrefetchOwn(r)
  BY <1>2, <1>6 DEF PrefetchOwn
<1> QED
  BY <1>2, <1>3, <1>5, <1>6, <1>7, <1>8, <1>9, <1>10, <1>11, <1>13, <1>14

(* A demand read that replaces a prefetch in flight answers u, if the       *)
(* prefetch would have.                                                     *)
Covers(s, pkt, u) ==
  \A i \in DOMAIN s :
    BlockOf[s[i].address] = BlockOf[pkt.address] /\ s[i].type = "PREFETCH"
      /\ pkt.type # "PREFETCH" /\ u \in s[i].to_return => u \in pkt.to_return

(* The misses of r hold what those of s and the packet do, but for the      *)
(* requests that a replaced prefetch held.                                  *)
Gains(s, r, pkt) ==
  \A u, c :
    /\ MissHolds(r, u, c) => MissHolds(s, u, c) \/ Asks(pkt, u, c)
    /\ Asks(pkt, u, c) => MissHolds(r, u, c)
    /\ MissHolds(s, u, c) /\ Covers(s, pkt, u) => MissHolds(r, u, c)

(* A read merged with a miss in flight.                                     *)
LEMMA MergeMissKeeps ==
  ASSUME NEW pkt, MayMiss(pkt), MSHR \in Seq(MissRecords), InFlight(pkt),
         NEW r, r = MergeMiss(pkt)
  PROVE  /\ r \in Seq(MissRecords) /\ Len(r) = Len(MSHR) /\ DOMAIN r = DOMAIN MSHR
         /\ \A i \in DOMAIN MSHR : /\ BlockOf[r[i].address] = BlockOf[MSHR[i].address]
                                   /\ r[i].event = MSHR[i].event
         /\ Gains(MSHR, r, pkt)
         /\ PrefetchOwn(MSHR) /\ (pkt.type = "PREFETCH" => pkt.to_return \subseteq Prefetching)
              => PrefetchOwn(r)
<1>1. PICK i : i = Min(Misses(MSHR, BlockOf[pkt.address]))
  OBVIOUS
<1>2. i \in DOMAIN MSHR /\ BlockOf[MSHR[i].address] = BlockOf[pkt.address]
  <2>1. Misses(MSHR, BlockOf[pkt.address]) \in SUBSET Nat
    BY DEF Misses
  <2>2. Misses(MSHR, BlockOf[pkt.address]) # {}
    BY DEF InFlight
  <2>3. i \in Misses(MSHR, BlockOf[pkt.address])
    BY <2>1, <2>2, <1>1, LeastOf, Zenon
  <2> QED
    BY <2>3 DEF Misses
<1>3. PICK o : o = MSHR[i]
  OBVIOUS
<1>4. o \in MissRecords
  BY <1>2, <1>3
<1>5. PICK x : x = IF o.type = "PREFETCH" /\ pkt.type # "PREFETCH"
                     THEN [Miss(pkt) EXCEPT !.event = o.event]
                     ELSE [o EXCEPT !.to_return = o.to_return \cup pkt.to_return]
  OBVIOUS
<1>6. r = [MSHR EXCEPT ![i] = x]
  <2>1. r = [MSHR EXCEPT ![i] =
              IF MSHR[i].type = "PREFETCH" /\ pkt.type # "PREFETCH"
                THEN [Miss(pkt) EXCEPT !.event = MSHR[i].event]
                ELSE [MSHR[i] EXCEPT !.to_return = MSHR[i].to_return \cup pkt.to_return]]
    <3>1. r = LET k == Min(Misses(MSHR, BlockOf[pkt.address])) IN
            [MSHR EXCEPT ![k] =
              IF MSHR[k].type = "PREFETCH" /\ pkt.type # "PREFETCH"
                THEN [Miss(pkt) EXCEPT !.event = MSHR[k].event]
                ELSE [MSHR[k] EXCEPT !.to_return = MSHR[k].to_return \cup pkt.to_return]]
      BY DEF MergeMiss
    <3> QED
      BY <3>1, <1>1, Zenon
  <2> QED
    BY <2>1, <1>3, <1>5, Zenon
<1>7. pkt.to_return \in SUBSET Uppers
  BY DEF MayMiss, Packet
<1>8. o.event \in 0 .. NEVER
  BY <1>4 DEF MissRecords
<1>9. /\ x \in MissRecords /\ BlockOf[x.address] = BlockOf[o.address] /\ x.event = o.event
      /\ x.type = IF o.type = "PREFETCH" THEN pkt.type ELSE o.type
      /\ x.to_return = IF o.type = "PREFETCH" /\ pkt.type # "PREFETCH" THEN pkt.to_return
                       ELSE o.to_return \cup pkt.to_return
  <2>1. CASE o.type = "PREFETCH" /\ pkt.type # "PREFETCH"
    <3>1. x = [address |-> pkt.address, type |-> pkt.type, to_return |-> pkt.to_return,
               event |-> o.event]
      BY <2>1, <1>5 DEF Miss
    <3>2. /\ x \in MissRecords /\ x.address = pkt.address /\ x.type = pkt.type
          /\ x.to_return = pkt.to_return /\ x.event = o.event
      BY <3>1, <1>8, MissMade
    <3> QED
      BY <3>2, <2>1, <1>2, <1>3
  <2>2. CASE ~ (o.type = "PREFETCH" /\ pkt.type # "PREFETCH")
    <3>1. x = [o EXCEPT !.to_return = o.to_return \cup pkt.to_return]
      BY <2>2, <1>5
    <3>2. /\ x \in MissRecords /\ x.address = o.address /\ x.event = o.event
          /\ x.type = o.type /\ x.to_return = o.to_return \cup pkt.to_return
      BY <3>1, <1>4, <1>7 DEF MissRecords
    <3> QED
      BY <3>2, <2>2
  <2> QED
    BY <2>1, <2>2
<1>10. /\ r \in Seq(MissRecords) /\ Len(r) = Len(MSHR) /\ DOMAIN r = DOMAIN MSHR
       /\ r[i] = x /\ \A j \in DOMAIN MSHR : j # i => r[j] = MSHR[j]
  BY <1>2, <1>6, <1>9, Updated
<1>11. \A j \in DOMAIN MSHR : /\ BlockOf[r[j].address] = BlockOf[MSHR[j].address]
                              /\ r[j].event = MSHR[j].event
  BY <1>3, <1>9, <1>10
<1>12. Gains(MSHR, r, pkt)
  <2> SUFFICES ASSUME NEW u, NEW c
               PROVE  /\ MissHolds(r, u, c) => MissHolds(MSHR, u, c) \/ Asks(pkt, u, c)
                      /\ Asks(pkt, u, c) => MissHolds(r, u, c)
                      /\ MissHolds(MSHR, u, c) /\ Covers(MSHR, pkt, u) => MissHolds(r, u, c)
    BY DEF Gains
  <2>1. /\ Asks(r[i], u, c) => Asks(MSHR[i], u, c) \/ Asks(pkt, u, c)
        /\ Asks(pkt, u, c) => Asks(r[i], u, c)
    BY <1>2, <1>3, <1>9, <1>10 DEF Asks
  <2>2. Asks(MSHR[i], u, c) /\ Covers(MSHR, pkt, u) => Asks(r[i], u, c)
    <3>1. Covers(MSHR, pkt, u) /\ u \in o.to_return => u \in x.to_return
      BY <1>2, <1>3, <1>9 DEF Covers
    <3> QED
      BY <3>1, <1>2, <1>3, <1>9, <1>10 DEF Asks
  <2>3. \A j \in DOMAIN MSHR : j # i => (Asks(r[j], u, c) <=> Asks(MSHR[j], u, c))
    BY <1>10
  <2>4. MissHolds(r, u, c) => MissHolds(MSHR, u, c) \/ Asks(pkt, u, c)
    BY <2>1, <2>3, <1>10 DEF MissHolds
  <2>5. Asks(pkt, u, c) => MissHolds(r, u, c)
    BY <2>1, <1>2, <1>10 DEF MissHolds
  <2>6. MissHolds(MSHR, u, c) /\ Covers(MSHR, pkt, u) => MissHolds(r, u, c)
    BY <2>2, <2>3, <1>2, <1>10 DEF MissHolds
  <2> QED
    BY <2>4, <2>5, <2>6
<1>13. PrefetchOwn(MSHR) /\ (pkt.type = "PREFETCH" => pkt.to_return \subseteq Prefetching)
         => PrefetchOwn(r)
  <2> SUFFICES ASSUME PrefetchOwn(MSHR),
                      pkt.type = "PREFETCH" => pkt.to_return \subseteq Prefetching,
                      NEW j \in DOMAIN MSHR, r[j].type = "PREFETCH"
               PROVE  r[j].to_return \subseteq Prefetching
    BY <1>10 DEF PrefetchOwn
  <2>1. CASE j # i
    BY <2>1, <1>10 DEF PrefetchOwn
  <2>2. CASE j = i
    <3>1. o.type = "PREFETCH" /\ pkt.type = "PREFETCH"
      BY <2>2, <1>9, <1>10
    <3>2. o.to_return \subseteq Prefetching /\ pkt.to_return \subseteq Prefetching
      BY <3>1, <1>2, <1>3 DEF PrefetchOwn
    <3> QED
      BY <3>1, <3>2, <2>2, <1>9, <1>10
  <2> QED
    BY <2>1, <2>2
<1> QED
  BY <1>10, <1>11, <1>12, <1>13

(* readlike_miss, merged or sent.                                           *)
LEMMA ReadlikeKeeps ==
  ASSUME NEW pkt, MayMiss(pkt), MissesOK(MSHR, lower, warmup_complete),
         Len(MSHR) <= MSHR_SIZE, warmup_complete \in BOOLEAN, readlike_miss(pkt)
  PROVE  /\ MissesOK(MSHR', lower', warmup_complete) /\ Len(MSHR') <= MSHR_SIZE
         /\ (pkt.to_return # {} => pkt.fill_level <= HERE) => Gains(MSHR, MSHR', pkt)
         /\ PrefetchOwn(MSHR) /\ (pkt.type = "PREFETCH" => pkt.to_return \subseteq Prefetching)
              => PrefetchOwn(MSHR')
<1> DEFINE b == BlockOf[pkt.address]
<1>0. /\ MSHR \in Seq(MissRecords) /\ SingleMiss(MSHR) /\ Ordered(MSHR)
      /\ ~ warmup_complete => NoneDelayed(MSHR)
      /\ lower \in [Blocks -> Nat]
      /\ \A c \in Blocks : lower[c] = IF Outstanding(MSHR, c) THEN 1 ELSE 0
  BY DEF MissesOK, Owed
<1>1. b \in Blocks
  <2>1. pkt.address \in Addrs
    BY DEF MayMiss, Packet
  <2> QED
    BY <2>1, BlocksOf
<1>2. PICK r : r = MSHR'
  OBVIOUS
<1>3. PICK l : l = lower'
  OBVIOUS
<1>4. CASE InFlight(pkt)
  <2>1. r = MergeMiss(pkt) /\ l = lower
    BY <1>2, <1>3, <1>4 DEF readlike_miss
  <2>2. /\ r \in Seq(MissRecords) /\ Len(r) = Len(MSHR) /\ DOMAIN r = DOMAIN MSHR
        /\ \A i \in DOMAIN MSHR : /\ BlockOf[r[i].address] = BlockOf[MSHR[i].address]
                                  /\ r[i].event = MSHR[i].event
        /\ Gains(MSHR, r, pkt)
        /\ PrefetchOwn(MSHR) /\ (pkt.type = "PREFETCH" => pkt.to_return \subseteq Prefetching)
             => PrefetchOwn(r)
    BY <2>1, <1>0, <1>4, MergeMissKeeps
  <2>3. SingleMiss(r)
    BY <2>2, <1>0 DEF SingleMiss
  <2>4. Ordered(r)
    BY <2>2, <1>0 DEF Ordered
  <2>5. ~ warmup_complete => NoneDelayed(r)
    BY <2>2, <1>0 DEF NoneDelayed
  <2>6. \A c : Outstanding(r, c) <=> Outstanding(MSHR, c)
    BY <2>2 DEF Outstanding
  <2>7. Owed(r, l)
    BY <2>1, <2>6, <1>0 DEF Owed
  <2>8. MissesOK(r, l, warmup_complete)
    BY <2>2, <2>3, <2>4, <2>5, <2>7 DEF MissesOK
  <2> QED
    BY <2>2, <2>8, <1>2, <1>3
<1>5. CASE ~ InFlight(pkt) /\ pkt.fill_level > HERE
  <2>1. r = MSHR /\ l = lower
    BY <1>2, <1>3, <1>5 DEF readlike_miss, SendMiss
  <2>2. pkt.fill_level \in Nat /\ HERE \in Nat
    BY DEF MayMiss, Packet, UP, HERE, BELOW
  <2>3. (pkt.to_return # {} => pkt.fill_level <= HERE) => \A u, c : ~ Asks(pkt, u, c)
    BY <2>2, <1>5 DEF Asks
  <2>4. (pkt.to_return # {} => pkt.fill_level <= HERE) => Gains(MSHR, r, pkt)
    BY <2>1, <2>3 DEF Gains
  <2> QED
    BY <2>1, <2>4, <1>2, <1>3
<1>6. CASE ~ InFlight(pkt) /\ ~ pkt.fill_level > HERE
  <2>1. PICK s : s = Append(MSHR, Miss(pkt))
    OBVIOUS
  <2>2. /\ s \in Seq(MissRecords) /\ Len(s) = Len(MSHR) + 1
        /\ SingleMiss(s) /\ Ordered(s)
        /\ NoneDelayed(MSHR) => NoneDelayed(s)
        /\ \A c : Outstanding(s, c) <=> Outstanding(MSHR, c) \/ c = b
        /\ ~ Outstanding(MSHR, b)
        /\ \A u, c : MissHolds(s, u, c) <=> MissHolds(MSHR, u, c) \/ Asks(pkt, u, c)
        /\ PrefetchOwn(MSHR) /\ (pkt.type = "PREFETCH" => pkt.to_return \subseteq Prefetching)
             => PrefetchOwn(s)
        /\ Len(MSHR) + 1 \in DOMAIN s /\ s[Len(MSHR) + 1].event = NEVER
        /\ s[Len(MSHR) + 1].address = pkt.address
    <3>1. Misses(MSHR, BlockOf[pkt.address]) = {}
      BY <1>6 DEF InFlight
    <3> QED
      BY <3>1, <2>1, <1>0, ListKeeps
  <2>3. Len(MSHR) + 1 <= MSHR_SIZE
    <3>1. Len(MSHR) # MSHR_SIZE /\ Len(MSHR) \in Nat
      BY <1>0, <1>6 DEF readlike_miss, CanMiss
    <3> QED
      BY <3>1, Constants
  <2>4. CASE b \in lower_wq
    <3>1. r = return_data(s, b) /\ l = lower
      BY <2>1, <2>4, <1>2, <1>3, <1>6 DEF readlike_miss, SendMiss
    <3>2. /\ r \in Seq(MissRecords) /\ Len(r) = Len(s)
          /\ SingleMiss(r) /\ Ordered(r)
          /\ ~ warmup_complete => NoneDelayed(r)
          /\ \A c : Outstanding(r, c) <=> Outstanding(s, c) /\ c # b
          /\ \A u, c : MissHolds(r, u, c) <=> MissHolds(s, u, c)
          /\ PrefetchOwn(s) => PrefetchOwn(r)
      <4>1. PICK k : k = Len(MSHR) + 1
        OBVIOUS
      <4>2. k \in DOMAIN s /\ BlockOf[s[k].address] = b /\ s[k].event = NEVER
        BY <4>1, <2>2
      <4> HIDE DEF b
      <4> QED
        BY <4>2, <3>1, <2>2, <1>0, ReturnKeeps
    <3>3. \A c : Outstanding(r, c) <=> Outstanding(MSHR, c)
      BY <3>2, <2>2
    <3>4. Owed(r, l)
      BY <3>1, <3>3, <1>0 DEF Owed
    <3>5. MissesOK(r, l, warmup_complete) /\ Len(r) <= MSHR_SIZE
      BY <3>2, <3>4, <2>2, <2>3 DEF MissesOK
    <3> QED
      <4>1. Gains(MSHR, r, pkt)
        BY <3>2, <2>2 DEF Gains
      <4> QED
        BY <3>2, <3>5, <4>1, <2>2, <1>2, <1>3
  <2>5. CASE b \notin lower_wq
    <3>1. r = s /\ l = [lower EXCEPT ![b] = lower[b] + 1]
      BY <2>1, <2>5, <1>2, <1>3, <1>6 DEF readlike_miss, SendMiss
    <3>2. lower[b] = 0
      BY <2>2, <1>0, <1>1
    <3> HIDE DEF b
    <3>3. l \in [Blocks -> Nat] /\ l[b] = 1 /\ \A c \in Blocks : c # b => l[c] = lower[c]
      BY <3>1, <3>2, <1>0, <1>1
    <3>4. Owed(r, l)
      BY <3>1, <3>3, <2>2, <1>0 DEF Owed
    <3>5. MissesOK(r, l, warmup_complete) /\ Len(r) <= MSHR_SIZE
      BY <3>1, <3>4, <2>2, <2>3, <1>0 DEF MissesOK
    <3> QED
      <4>1. Gains(MSHR, r, pkt)
        BY <3>1, <2>2 DEF Gains
      <4> QED
        BY <3>1, <3>5, <4>1, <2>2, <1>2, <1>3
  <2> QED
    BY <2>4, <2>5
<1> QED
  BY <1>4, <1>5, <1>6

(* The first miss is filled and leaves the list.                            *)
LEMMA FillKeeps ==
  ASSUME MissesOK(MSHR, lower, warmup_complete), Len(MSHR) > 0, Head(MSHR).event = 0,
         NEW r, r = Tail(MSHR)
  PROVE  /\ MissesOK(r, lower, warmup_complete) /\ Len(r) = Len(MSHR) - 1
         /\ \A u, c : MissHolds(r, u, c) <=> MissHolds(MSHR, u, c) /\ ~ Asks(Head(MSHR), u, c)
         /\ PrefetchOwn(MSHR) => PrefetchOwn(r)
         /\ Head(MSHR) \in MissRecords
<1>0. /\ MSHR \in Seq(MissRecords) /\ SingleMiss(MSHR) /\ Ordered(MSHR)
      /\ ~ warmup_complete => NoneDelayed(MSHR)
      /\ Owed(MSHR, lower)
  BY DEF MissesOK
<1>1. DOMAIN MSHR = 1 .. Len(MSHR) /\ Len(MSHR) \in Nat
  BY <1>0
<1>2. /\ r \in Seq(MissRecords) /\ Len(r) = Len(MSHR) - 1
      /\ DOMAIN r = 1 .. Len(MSHR) - 1
      /\ \A i \in 1 .. Len(MSHR) - 1 : r[i] = MSHR[i + 1]
      /\ 1 \in DOMAIN MSHR /\ Head(MSHR) = MSHR[1] /\ MSHR[1] \in MissRecords
  BY <1>0, Popped
<1>3. \A i \in DOMAIN r : i + 1 \in DOMAIN MSHR /\ i + 1 # 1 /\ r[i] = MSHR[i + 1]
  BY <1>1, <1>2
<1>4. \A i \in DOMAIN MSHR : i # 1 => i - 1 \in DOMAIN r /\ r[i - 1] = MSHR[i]
  BY <1>1, <1>2
<1>5. \A i, j \in DOMAIN r : (i < j => i + 1 < j + 1) /\ (i + 1 = j + 1 => i = j)
  BY <1>1, <1>2
<1>6. SingleMiss(r)
  <2> SUFFICES ASSUME NEW i \in DOMAIN r, NEW j \in DOMAIN r,
                      BlockOf[r[i].address] = BlockOf[r[j].address]
               PROVE  i = j
    BY DEF SingleMiss
  <2>1. i + 1 = j + 1
    BY <1>0, <1>3 DEF SingleMiss
  <2> QED
    BY <2>1, <1>5
<1>7. Ordered(r)
  <2> SUFFICES ASSUME NEW i \in DOMAIN r, NEW j \in DOMAIN r, i < j
               PROVE  r[i].event <= r[j].event
    BY DEF Ordered
  <2>1. i + 1 < j + 1
    BY <1>5
  <2> QED
    BY <2>1, <1>0, <1>3 DEF Ordered
<1>8. ~ warmup_complete => NoneDelayed(r)
  BY <1>0, <1>3 DEF NoneDelayed
<1>9. MSHR[1].event # NEVER
  BY <1>2, Constants DEF NEVER
<1>10. \A c : Outstanding(r, c) <=> Outstanding(MSHR, c)
  <2>1. \A c : Outstanding(r, c) => Outstanding(MSHR, c)
    BY <1>3 DEF Outstanding
  <2>2. ASSUME NEW c, Outstanding(MSHR, c)  PROVE Outstanding(r, c)
    <3>1. PICK i \in DOMAIN MSHR : BlockOf[MSHR[i].address] = c /\ MSHR[i].event = NEVER
      BY <2>2 DEF Outstanding
    <3>2. i - 1 \in DOMAIN r /\ r[i - 1] = MSHR[i]
      BY <3>1, <1>4, <1>9
    <3> QED
      BY <3>1, <3>2 DEF Outstanding
  <2> QED
    BY <2>1, <2>2
<1>11. Owed(r, lower)
  BY <1>0, <1>10 DEF Owed
<1>12. ASSUME NEW u, NEW c
       PROVE  MissHolds(r, u, c) <=> MissHolds(MSHR, u, c) /\ ~ Asks(Head(MSHR), u, c)
  <2>1. ASSUME MissHolds(r, u, c)
        PROVE  MissHolds(MSHR, u, c) /\ ~ Asks(MSHR[1], u, c)
    <3>1. PICK i \in DOMAIN r : Asks(r[i], u, c)
      BY <2>1 DEF MissHolds
    <3>2. i + 1 \in DOMAIN MSHR /\ Asks(MSHR[i + 1], u, c) /\ i + 1 # 1
      BY <3>1, <1>3
    <3>3. MissHolds(MSHR, u, c)
      BY <3>2 DEF MissHolds
    <3>4. ~ Asks(MSHR[1], u, c)
      BY <3>2, <1>0, <1>2 DEF SingleMiss, Asks
    <3> QED
      BY <3>3, <3>4
  <2>2. ASSUME MissHolds(MSHR, u, c), ~ Asks(MSHR[1], u, c)
        PROVE  MissHolds(r, u, c)
    <3>1. PICK i \in DOMAIN MSHR : Asks(MSHR[i], u, c)
      BY <2>2 DEF MissHolds
    <3>2. i - 1 \in DOMAIN r /\ r[i - 1] = MSHR[i]
      BY <3>1, <2>2, <1>4
    <3> QED
      BY <3>1, <3>2 DEF MissHolds
  <2> QED
    BY <2>1, <2>2, <1>2
<1>13. PrefetchOwn(MSHR) => PrefetchOwn(r)
  BY <1>3 DEF PrefetchOwn
<1>14. MissesOK(r, lower, warmup_complete)
  BY <1>0, <1>2, <1>6, <1>7, <1>8, <1>11 DEF MissesOK
<1> QED
  BY <1>2, <1>12, <1>13, <1>14

(* A cycle ends: the misses that have returned come closer to their fill.   *)
LEMMA CountedDown ==
  ASSUME MissesOK(MSHR, lower, warmup_complete), NEW r, r = [i \in DOMAIN MSHR |-> r[i]],
         \A i \in DOMAIN MSHR :
           /\ r[i] \in MissRecords /\ r[i].address = MSHR[i].address
           /\ r[i].type = MSHR[i].type /\ r[i].to_return = MSHR[i].to_return
           /\ r[i].event = IF MSHR[i].event \in {0, NEVER} THEN MSHR[i].event
                           ELSE MSHR[i].event - 1
           /\ MSHR[i].event \in 0 .. NEVER
  PROVE  /\ MissesOK(r, lower, warmup_complete) /\ Len(r) = Len(MSHR)
         /\ \A u, c : MissHolds(r, u, c) <=> MissHolds(MSHR, u, c)
         /\ PrefetchOwn(MSHR) => PrefetchOwn(r)
<1>0. /\ MSHR \in Seq(MissRecords) /\ SingleMiss(MSHR) /\ Ordered(MSHR)
      /\ ~ warmup_complete => NoneDelayed(MSHR)
      /\ Owed(MSHR, lower)
  BY DEF MissesOK
<1>2. r \in Seq(MissRecords) /\ Len(r) = Len(MSHR) /\ DOMAIN r = DOMAIN MSHR
  BY <1>0, Listed
<1>3. SingleMiss(r)
  BY <1>0, <1>2 DEF SingleMiss
<1>4. Ordered(r)
  <2> SUFFICES ASSUME NEW i \in DOMAIN MSHR, NEW j \in DOMAIN MSHR, i < j
               PROVE  r[i].event <= r[j].event
    BY <1>2 DEF Ordered
  <2>1. MSHR[i].event <= MSHR[j].event
    BY <1>0 DEF Ordered
  <2>2. NEVER \in Nat
    BY Constants
  <2>3. \A m, n \in 0 .. NEVER :
          m <= n => (IF m \in {0, NEVER} THEN m ELSE m - 1) <=
                    (IF n \in {0, NEVER} THEN n ELSE n - 1)
    BY <2>2
  <2> QED
    BY <2>1, <2>3
<1>5. ~ warmup_complete => NoneDelayed(r)
  BY <1>0, <1>2 DEF NoneDelayed
<1>6. \A i \in DOMAIN MSHR : r[i].event = NEVER <=> MSHR[i].event = NEVER
  <2>1. NEVER \in Nat
    BY Constants
  <2>2. \A n \in 0 .. NEVER : (IF n \in {0, NEVER} THEN n ELSE n - 1) = NEVER <=> n = NEVER
    BY <2>1
  <2> QED
    BY <2>2
<1>7. \A c : Outstanding(r, c) <=> Outstanding(MSHR, c)
  BY <1>2, <1>6 DEF Outstanding
<1>8. Owed(r, lower)
  BY <1>0, <1>7 DEF Owed
<1>9. \A u, c : MissHolds(r, u, c) <=> MissHolds(MSHR, u, c)
  BY <1>2 DEF MissHolds, Asks
<1>10. PrefetchOwn(MSHR) => PrefetchOwn(r)
  BY <1>2 DEF PrefetchOwn
<1>11. MissesOK(r, lower, warmup_complete)
  BY <1>2, <1>3, <1>4, <1>5, <1>8 DEF MissesOK
<1> QED
  BY <1>2, <1>9, <1>10, <1>11

LEMMA CountdownKeeps ==
  ASSUME MissesOK(MSHR, lower, warmup_complete), NEW r,
         r = [i \in DOMAIN MSHR |-> [MSHR[i] EXCEPT !.event =
                IF @ \in {0, NEVER} THEN @ ELSE @ - 1]]
  PROVE  /\ MissesOK(r, lower, warmup_complete) /\ Len(r) = Len(MSHR)
         /\ \A u, c : MissHolds(r, u, c) <=> MissHolds(MSHR, u, c)
         /\ PrefetchOwn(MSHR) => PrefetchOwn(r)
<1>0. MSHR \in Seq(MissRecords)
  BY DEF MissesOK
<1>1. ASSUME NEW i \in DOMAIN MSHR
      PROVE  /\ r[i] \in MissRecords /\ r[i].address = MSHR[i].address
             /\ r[i].type = MSHR[i].type /\ r[i].to_return = MSHR[i].to_return
             /\ r[i].event = IF MSHR[i].event \in {0, NEVER} THEN MSHR[i].event
                             ELSE MSHR[i].event - 1
             /\ MSHR[i].event \in 0 .. NEVER
  <2>1. PICK o : o = MSHR[i]
    OBVIOUS
  <2>2. o \in MissRecords
    BY <2>1, <1>0
  <2>3. PICK e : e = IF o.event \in {0, NEVER} THEN o.event ELSE o.event - 1
    OBVIOUS
  <2>4. r[i] = [o EXCEPT !.event = e]
    BY <2>1, <2>3
  <2>5. o.event \in 0 .. NEVER
    BY <2>2 DEF MissRecords
  <2>6. e \in 0 .. NEVER
    <3>1. NEVER \in Nat
      BY Constants
    <3>2. \A n \in 0 .. NEVER : (IF n \in {0, NEVER} THEN n ELSE n - 1) \in 0 .. NEVER
      BY <3>1
    <3> QED
      BY <3>2, <2>3, <2>5
  <2>7. [o EXCEPT !.event = e] \in MissRecords
    BY <2>2, <2>6 DEF MissRecords
  <2>8. /\ r[i].address = o.address /\ r[i].type = o.type /\ r[i].to_return = o.to_return
        /\ r[i].event = e
    BY <2>2, <2>4 DEF MissRecords
  <2> QED
    BY <2>1, <2>3, <2>4, <2>5, <2>7, <2>8
<1>2. r = [i \in DOMAIN MSHR |-> r[i]]
  OBVIOUS
<1>3. \A i \in DOMAIN MSHR :
      /\ r[i] \in MissRecords /\ r[i].address = MSHR[i].address
      /\ r[i].type = MSHR[i].type /\ r[i].to_return = MSHR[i].to_return
      /\ r[i].event = IF MSHR[i].event \in {0, NEVER} THEN MSHR[i].event
                      ELSE MSHR[i].event - 1
      /\ MSHR[i].event \in 0 .. NEVER
  BY <1>1
<1> QED
  BY <1>2, <1>3, CountedDown

-----------------------------------------------------------------------------
(* The other operators of the actions.                                      *)

LEMMA VictimsAreWays ==
  ASSUME NEW w \in Victims
  PROVE  w \in Ways
<1> DEFINE invalid == {v \in Ways : block[v].address = None}
<1>1. invalid \in SUBSET Nat
  BY Constants DEF Ways
<1>2. invalid # {} => Min(invalid) \in invalid
  BY <1>1, LeastOf, Zenon
<1> QED
  BY <1>2 DEF Victims

LEMMA HitsAreWays ==
  ASSUME NEW a, Hits(a) # {}
  PROVE  Min(Hits(a)) \in Ways /\ block[Min(Hits(a))].address # None
         /\ BlockOf[block[Min(Hits(a))].address] = BlockOf[a]
<1>1. Hits(a) \in SUBSET Nat
  BY Constants DEF Ways, Hits
<1>2. Min(Hits(a)) \in Hits(a)
  BY <1>1, LeastOf, Zenon
<1> QED
  BY <1>2 DEF Hits, SameBlock

LEMMA AnsweredType ==
  ASSUME waiting \in [Uppers -> SUBSET Blocks], NEW pkt
  PROVE  /\ Answered(pkt) \in [Uppers -> SUBSET Blocks]
         /\ \A u \in Uppers :
              \A b : b \in Answered(pkt)[u] <=> b \in waiting[u] /\ ~ Asks(pkt, u, b)
<1>1. \A u \in Uppers : Answered(pkt)[u] = IF u \in pkt.to_return
                          THEN waiting[u] \ {BlockOf[pkt.address]} ELSE waiting[u]
  BY DEF Answered
<1>2. Answered(pkt) \in [Uppers -> SUBSET Blocks]
  BY DEF Answered
<1>3. \A u \in Uppers : \A b : b \in Answered(pkt)[u] <=> b \in waiting[u] /\ ~ Asks(pkt, u, b)
  BY <1>1 DEF Asks
<1> QED
  BY <1>2, <1>3

(* filllike_miss keeps the types, and changes one way.                      *)
LEMMA FilllikeKeeps ==
  ASSUME BlocksOK(block), lower_wq \subseteq Blocks, unsaved \subseteq Blocks,
         NEW w \in Ways, NEW pkt, pkt.address \in Addrs, filllike_miss(w, pkt)
  PROVE  /\ BlocksOK(block') /\ lower_wq' \subseteq Blocks /\ unsaved' \subseteq Blocks
         /\ block'[w].address = pkt.address /\ (block'[w].dirty <=> Dirties(pkt))
         /\ \A v \in Ways : v # w => block'[v] = block[v]
<1>1. PICK d \in BOOLEAN : d <=> Dirties(pkt)
  OBVIOUS
<1>2. PICK x : x = [address |-> pkt.address, dirty |-> d]
  OBVIOUS
<1>3. block' = [block EXCEPT ![w] = x]
  <2>1. Dirties(pkt) \in BOOLEAN
    BY DEF Dirties
  <2>2. d = Dirties(pkt)
    BY <1>1, <2>1
  <2>3. block' = [block EXCEPT ![w] = [address |-> pkt.address, dirty |-> Dirties(pkt)]]
    BY DEF filllike_miss
  <2> QED
    BY <1>2, <2>2, <2>3
<1>4. x \in [address : Addrs \cup {None}, dirty : BOOLEAN] /\ x.address = pkt.address /\ x.dirty = d
  BY <1>2
<1>5. PICK f : f = block'
  OBVIOUS
<1>6. f \in [Ways -> [address : Addrs \cup {None}, dirty : BOOLEAN]] /\ f[w] = x
      /\ \A v \in Ways : v # w => f[v] = block[v]
  BY <1>3, <1>4, <1>5 DEF BlocksOK
<1>7. BlocksOK(f)
  BY <1>4, <1>6 DEF BlocksOK
<1>8. block[w].dirty => BlockOf[block[w].address] \in Blocks
  BY BlocksOf DEF BlocksOK
<1>9. lower_wq' \subseteq Blocks /\ unsaved' \subseteq Blocks
  BY <1>8 DEF filllike_miss
<1> QED
  BY <1>1, <1>4, <1>5, <1>6, <1>7, <1>9

(* add_rq: the request is merged with one for the same block, or put in the *)
(* queue.                                                                   *)
ReadAdded(u, a) ==
  IF Found(RQ, a) # {} THEN Merge(RQ, Min(Found(RQ, a)), Load(u, a))
  ELSE Append(RQ, [item |-> Load(u, a), delay |-> Delay])

LEMMA AddRqKeeps ==
  ASSUME QueueOK(RQ, rq_ready, Loads, RQ_SIZE), warmup_complete \in BOOLEAN,
         NEW u \in Uppers, NEW a \in Addrs, Found(RQ, a) # {} \/ Len(RQ) < RQ_SIZE
  PROVE  /\ QueueOK(ReadAdded(u, a), rq_ready, Loads, RQ_SIZE)
         /\ SingleEntry(RQ) => SingleEntry(ReadAdded(u, a))
         /\ \A v, b : QueueHolds(ReadAdded(u, a), v, b) <=>
                        QueueHolds(RQ, v, b) \/ (v = u /\ b = BlockOf[a])
<1>r. PICK r : r = ReadAdded(u, a)
  OBVIOUS
<1>0. RQ \in Seq(Entries(Loads)) /\ rq_ready \in 0 .. Len(RQ) /\ Len(RQ) \in Nat
      /\ DOMAIN RQ \subseteq Nat
  BY DEF QueueOK
<1>1. PICK pkt : pkt = Load(u, a)
  OBVIOUS
<1>2. pkt \in Loads /\ pkt.address = a /\ pkt.to_return = {u}
  BY <1>1, MadePackets DEF Load
<1>3. \A v, b : Asks(pkt, v, b) <=> v = u /\ b = BlockOf[a]
  BY <1>2 DEF Asks
<1>4. CASE Found(RQ, a) = {}
  <2>e. PICK e : e = [item |-> pkt, delay |-> Delay]
    OBVIOUS
  <2>0. e \in Entries(Loads) /\ e.item = pkt
    BY <2>e, <1>2, PushedEntry
  <2>1. r = Append(RQ, e)
    BY <2>e, <1>1, <1>4, <1>r DEF ReadAdded
  <2>2. /\ r \in Seq(Entries(Loads)) /\ Len(r) = Len(RQ) + 1
        /\ SingleEntry(RQ) => SingleEntry(r)
        /\ \A v, b : QueueHolds(r, v, b) <=> QueueHolds(RQ, v, b) \/ Asks(pkt, v, b)
    BY <2>0, <2>1, <1>0, <1>2, <1>4, PushKeeps
  <2>3. QueueOK(r, rq_ready, Loads, RQ_SIZE)
    BY <2>2, <1>0, <1>4, Constants DEF QueueOK
  <2> QED
    BY <2>2, <2>3, <1>3, <1>r
<1>5. CASE Found(RQ, a) # {}
  <2>1. PICK i : i = Min(Found(RQ, a))
    OBVIOUS
  <2>2. i \in Found(RQ, a)
    <3>1. Found(RQ, a) \in SUBSET Nat
      BY <1>0 DEF Found
    <3> QED
      BY <3>1, <2>1, <1>5, LeastOf, Zenon
  <2>3. i \in DOMAIN RQ /\ BlockOf[RQ[i].item.address] = BlockOf[a]
    BY <2>2 DEF Found, SameBlock
  <2>4. RQ[i] \in Entries(Loads)
    BY <2>3, <1>0
  <2>5. RQ[i].item \in Loads
    BY <2>4 DEF Entries
  <2>6. PICK it : it = [RQ[i].item EXCEPT !.to_return = RQ[i].item.to_return \cup pkt.to_return]
    OBVIOUS
  <2>7. it \in Loads /\ it.address = RQ[i].item.address
        /\ it.to_return = RQ[i].item.to_return \cup {u}
    <3>1. PICK o : o = RQ[i].item
      OBVIOUS
    <3>2. o \in Loads
      BY <3>1, <2>5
    <3> QED
      BY <3>1, <3>2, <2>6, <1>2 DEF Loads
  <2>8. r = Merge(RQ, i, pkt)
    BY <2>1, <1>1, <1>5, <1>r DEF ReadAdded
  <2>9. /\ r \in Seq(Entries(Loads)) /\ Len(r) = Len(RQ) /\ DOMAIN r = DOMAIN RQ
        /\ r[i].item = it /\ \A j \in DOMAIN RQ : j # i => r[j] = RQ[j]
    BY <2>3, <2>6, <2>7, <2>8, <1>0, Merged
  <2>10. SingleEntry(RQ) => SingleEntry(r)
    <3>1. \A j \in DOMAIN RQ : r[j].item.address = RQ[j].item.address
      BY <2>7, <2>9
    <3> QED
      BY <3>1, <2>9 DEF SingleEntry
  <2>11. ASSUME NEW v, NEW b
         PROVE  QueueHolds(r, v, b) <=> QueueHolds(RQ, v, b) \/ (v = u /\ b = BlockOf[a])
    <3>1. Asks(r[i].item, v, b) <=> Asks(RQ[i].item, v, b) \/ (v = u /\ b = BlockOf[a])
      BY <2>3, <2>7, <2>9 DEF Asks
    <3> QED
      BY <3>1, <2>3, <2>9 DEF QueueHolds
  <2>12. QueueOK(r, rq_ready, Loads, RQ_SIZE)
    BY <2>9, <1>0, Constants DEF QueueOK
  <2> QED
    BY <2>10, <2>11, <2>12, <1>r
<1> QED
  BY <1>4, <1>5

(* What Packet's subsets say of the packets the queues yield.               *)
LEMMA PacketsMiss ==
  /\ \A p \in Loads : MayMiss(p) /\ p.type = "LOAD" /\ p.fill_level <= HERE /\ p.address \in Addrs
  /\ \A p \in Prefetches :
       /\ MayMiss(p) /\ p.type = "PREFETCH" /\ p.to_return \subseteq Prefetching
       /\ p.to_return # {} => p.fill_level <= HERE
       /\ p.address \in Addrs
  /\ \A p \in Writes :
       /\ p.address \in Addrs /\ p.type = WriteType /\ p.to_return = {}
       /\ p.type = "RFO" => MayMiss(p)
<1>1. \A p \in Loads : MayMiss(p) /\ p.type = "LOAD" /\ p.fill_level <= HERE /\ p.address \in Addrs
  BY DEF Loads, MayMiss, Packet, UP, HERE
<1>2. ASSUME NEW p \in Prefetches
      PROVE  /\ MayMiss(p) /\ p.type = "PREFETCH" /\ p.to_return \subseteq Prefetching
             /\ p.to_return # {} => p.fill_level <= HERE
             /\ p.address \in Addrs
  <2>1. p \in Packet
    BY PacketKinds
  <2> QED
    BY <2>1 DEF Prefetches, MayMiss, UP, HERE
<1>3. ASSUME NEW p \in Writes
      PROVE  /\ p.address \in Addrs /\ p.type = WriteType /\ p.to_return = {}
             /\ p.type = "RFO" => MayMiss(p)
  <2>1. p \in Packet
    BY PacketKinds
  <2> QED
    BY <2>1 DEF Writes, MayMiss
<1> QED
  BY <1>1, <1>2, <1>3

-----------------------------------------------------------------------------
(* The types, the queues and the misses.                                    *)

LEMMA CacheInit == Init => CacheInv
<1> SUFFICES ASSUME Init  PROVE CacheInv
  OBVIOUS
<1>1. /\ RQ = <<>> /\ rq_ready = 0 /\ WQ = <<>> /\ wq_ready = 0 /\ PQ = <<>> /\ pq_ready = 0
      /\ MSHR = <<>>
  BY DEF Init, ReadQueue!Init, WriteQueue!Init, PrefQueue!Init
<1>2. BlocksOK(block)
  BY DEF Init, BlocksOK
<1>3. QueuesOK
  BY <1>1, Constants DEF QueuesOK, QueueOK
<1>4. MissesOK(MSHR, lower, warmup_complete)
  BY <1>1 DEF Init, MissesOK, SingleMiss, Ordered, NoneDelayed, Owed, Outstanding
<1>5. Len(MSHR) <= MSHR_SIZE
  BY <1>1, Constants
<1> QED
  BY <1>2, <1>3, <1>4, <1>5 DEF Init, CacheInv

(* One pass of a loop of operate().                                         *)
LEMMA SpendKeeps ==
  ASSUME pc \in {"idle", "fill", "writeback", "read", "prefetch", "prefetcher"}, budget \in Nat,
         budget > 0, Spend
  PROVE  /\ pc' \in {"idle", "fill", "writeback", "read", "prefetch", "prefetcher"}
         /\ budget' \in Nat /\ warmup_complete' = warmup_complete /\ pc' = pc
  BY DEF Spend

LEMMA CacheStep == CacheInv /\ [Next]_vars => CacheInv'
<1> SUFFICES ASSUME CacheInv, [Next]_vars  PROVE CacheInv'
  OBVIOUS
<1>0. /\ BlocksOK(block)
      /\ QueueOK(RQ, rq_ready, Loads, RQ_SIZE)
      /\ QueueOK(WQ, wq_ready, Writes, WQ_SIZE)
      /\ QueueOK(PQ, pq_ready, Prefetches, PQ_SIZE)
      /\ MissesOK(MSHR, lower, warmup_complete) /\ Len(MSHR) <= MSHR_SIZE
      /\ warmup_complete \in BOOLEAN
      /\ pc \in {"idle", "fill", "writeback", "read", "prefetch", "prefetcher"} /\ budget \in Nat
      /\ lower_wq \subseteq Blocks
      /\ waiting \in [Uppers -> SUBSET Blocks] /\ unsaved \subseteq Blocks
  BY DEF CacheInv, QueuesOK
<1>1. /\ RQ \in Seq(Entries(Loads)) /\ Len(RQ) \in Nat /\ rq_ready \in 0 .. Len(RQ)
      /\ WQ \in Seq(Entries(Writes)) /\ Len(WQ) \in Nat /\ wq_ready \in 0 .. Len(WQ)
      /\ PQ \in Seq(Entries(Prefetches)) /\ Len(PQ) \in Nat /\ pq_ready \in 0 .. Len(PQ)
      /\ MSHR \in Seq(MissRecords) /\ Len(MSHR) \in Nat
  <2>1. RQ \in Seq(Entries(Loads)) /\ Len(RQ) \in Nat /\ rq_ready \in 0 .. Len(RQ)
    BY <1>0 DEF QueueOK
  <2>2. WQ \in Seq(Entries(Writes)) /\ Len(WQ) \in Nat /\ wq_ready \in 0 .. Len(WQ)
    BY <1>0 DEF QueueOK
  <2>3. PQ \in Seq(Entries(Prefetches)) /\ Len(PQ) \in Nat /\ pq_ready \in 0 .. Len(PQ)
    BY <1>0 DEF QueueOK
  <2>4. MSHR \in Seq(MissRecords) /\ Len(MSHR) \in Nat
    BY <1>0 DEF MissesOK
  <2> QED
    BY <2>1, <2>2, <2>3, <2>4
<1>2. CASE StartCycle
  BY <1>0, <1>2, Constants DEF StartCycle, Goto, queueVars, lowerVars, CacheInv, QueuesOK
<1>3. CASE FillDone
  BY <1>0, <1>3 DEF FillDone, Goto, queueVars, lowerVars, CacheInv, QueuesOK
<1>4. CASE Fill
  <2>1. Len(MSHR) > 0 /\ Head(MSHR).event = 0 /\ budget > 0
    BY <1>1, <1>4 DEF Fill, FillDue
  <2>2. PICK r : r = Tail(MSHR)
    OBVIOUS
  <2>3. MissesOK(r, lower, warmup_complete) /\ Len(r) <= MSHR_SIZE /\ Head(MSHR) \in MissRecords
    <3>1. MissesOK(r, lower, warmup_complete) /\ Len(r) = Len(MSHR) - 1
          /\ Head(MSHR) \in MissRecords
      BY <1>0, <2>1, <2>2, FillKeeps
    <3> QED
      BY <3>1, <1>0, <1>1, Constants
  <2>4. Head(MSHR).address \in Addrs
    BY <2>3 DEF MissRecords
  <2>5. PICK w \in Victims : filllike_miss(w, Head(MSHR))
    BY <1>4 DEF Fill
  <2>6. BlocksOK(block') /\ lower_wq' \subseteq Blocks /\ unsaved' \subseteq Blocks
    <3>1. w \in Ways
      BY VictimsAreWays
    <3> QED
      BY <3>1, <2>4, <2>5, <1>0, FilllikeKeeps
  <2>7. waiting' \in [Uppers -> SUBSET Blocks]
    BY <1>0, <1>4, AnsweredType DEF Fill
  <2>8. MSHR' = r /\ Spend /\ UNCHANGED <<queueVars, lower>>
    BY <1>4, <2>2 DEF Fill
  <2>9. /\ pc' \in {"idle", "fill", "writeback", "read", "prefetch", "prefetcher"}
        /\ budget' \in Nat /\ warmup_complete' = warmup_complete
    BY <1>0, <2>1, <2>8, SpendKeeps
  <2> QED
    BY <1>0, <2>3, <2>6, <2>7, <2>8, <2>9 DEF queueVars, CacheInv, QueuesOK
<1>5. CASE WriteHit
  <2>1. wq_ready > 0 /\ budget > 0 /\ Hits(WritePkt.address) # {}
        /\ WQ' = Tail(WQ) /\ wq_ready' = wq_ready - 1
    BY <1>5 DEF WriteHit, WriteDue, WriteQueue!Pop
  <2>2. QueueOK(WQ', wq_ready', Writes, WQ_SIZE)
    <3>1. Len(WQ) > 0
      BY <1>1, <2>1
    <3>2. QueueOK(Tail(WQ), wq_ready - 1, Writes, WQ_SIZE)
      BY <3>1, <2>1, <1>0, Constants, PopKeeps
    <3> QED
      BY <3>2, <2>1
  <2>3. PICK w \in Ways : w = Min(Hits(WritePkt.address)) /\ block[w].address # None
    BY <2>1, HitsAreWays
  <2>4. PICK f : f = [block EXCEPT ![w].dirty = TRUE]
    OBVIOUS
  <2>5. BlocksOK(f)
    <3>1. block \in [Ways -> [address : Addrs \cup {None}, dirty : BOOLEAN]]
          /\ \A v \in Ways : block[v].dirty => block[v].address \in Addrs
      BY <1>0 DEF BlocksOK
    <3>2. PICK x : x = [block[w] EXCEPT !.dirty = TRUE]
      OBVIOUS
    <3>3. x \in [address : Addrs \cup {None}, dirty : BOOLEAN] /\ x.address = block[w].address
      BY <3>1, <3>2
    <3>4. f = [block EXCEPT ![w] = x]
      BY <3>2, <2>4
    <3>5. f \in [Ways -> [address : Addrs \cup {None}, dirty : BOOLEAN]] /\ f[w] = x
          /\ \A v \in Ways : v # w => f[v] = block[v]
      BY <3>1, <3>3, <3>4
    <3>6. x.address \in Addrs
      BY <3>1, <3>3, <2>3
    <3>7. \A v \in Ways : f[v].dirty => f[v].address \in Addrs
      BY <3>1, <3>5, <3>6
    <3> QED
      BY <3>5, <3>7 DEF BlocksOK
  <2>6. block' = f
    BY <1>5, <2>3, <2>4 DEF WriteHit
  <2>7. /\ pc' \in {"idle", "fill", "writeback", "read", "prefetch", "prefetcher"}
        /\ budget' \in Nat /\ warmup_complete' = warmup_complete
    BY <1>0, <1>5, <2>1, SpendKeeps DEF WriteHit
  <2>8. UNCHANGED <<RQ, rq_ready, PQ, pq_ready, MSHR, lower, lower_wq, waiting, unsaved>>
    BY <1>5 DEF WriteHit, lowerVars
  <2> QED
    BY <1>0, <2>2, <2>5, <2>6, <2>7, <2>8 DEF CacheInv, QueuesOK
<1>6. CASE StoreMiss
  <2>1. wq_ready > 0 /\ budget > 0 /\ WritePkt.type = "RFO"
        /\ WQ' = Tail(WQ) /\ wq_ready' = wq_ready - 1
        /\ readlike_miss(WritePkt) /\ PQ' \in AfterPrefetcher(PQ, WritePkt) /\ Spend
        /\ UNCHANGED <<block, RQ, rq_ready, pq_ready, lower_wq, waiting, unsaved>>
    BY <1>6 DEF StoreMiss, WriteDue, WriteQueue!Pop
  <2>2. Len(WQ) > 0
    BY <1>1, <2>1
  <2>3. QueueOK(Tail(WQ), wq_ready - 1, Writes, WQ_SIZE) /\ WritePkt \in Writes
    BY <2>1, <2>2, <1>0, Constants, PopKeeps DEF WritePkt
  <2>4. MayMiss(WritePkt)
    BY <2>1, <2>3, PacketsMiss
  <2>5. MissesOK(MSHR', lower', warmup_complete) /\ Len(MSHR') <= MSHR_SIZE
    BY <2>1, <2>4, <1>0, ReadlikeKeeps
  <2>6. QueueOK(PQ', pq_ready, Prefetches, PQ_SIZE)
    BY <2>1, <1>0, AfterPrefetcherKeeps
  <2>7. /\ pc' \in {"idle", "fill", "writeback", "read", "prefetch", "prefetcher"}
        /\ budget' \in Nat /\ warmup_complete' = warmup_complete
    BY <1>0, <2>1, SpendKeeps
  <2> QED
    BY <1>0, <2>1, <2>3, <2>5, <2>6, <2>7 DEF CacheInv, QueuesOK
<1>7. CASE WriteMiss
  <2>1. wq_ready > 0 /\ budget > 0
        /\ WQ' = Tail(WQ) /\ wq_ready' = wq_ready - 1 /\ Spend
        /\ UNCHANGED <<RQ, rq_ready, PQ, pq_ready, MSHR, lower, waiting>>
    BY <1>7 DEF WriteMiss, WriteDue, WriteQueue!Pop
  <2>2. Len(WQ) > 0
    BY <1>1, <2>1
  <2>3. QueueOK(Tail(WQ), wq_ready - 1, Writes, WQ_SIZE) /\ WritePkt \in Writes
    BY <2>1, <2>2, <1>0, Constants, PopKeeps DEF WritePkt
  <2>4. PICK w \in Victims : filllike_miss(w, WritePkt)
    BY <1>7 DEF WriteMiss
  <2>5. BlocksOK(block') /\ lower_wq' \subseteq Blocks /\ unsaved' \subseteq Blocks
    <3>1. w \in Ways
      BY VictimsAreWays
    <3>2. WritePkt.address \in Addrs
      BY <2>3, PacketsMiss
    <3> QED
      BY <3>1, <3>2, <2>4, <1>0, FilllikeKeeps
  <2>6. /\ pc' \in {"idle", "fill", "writeback", "read", "prefetch", "prefetcher"}
        /\ budget' \in Nat /\ warmup_complete' = warmup_complete
    BY <1>0, <2>1, SpendKeeps
  <2> QED
    BY <1>0, <2>1, <2>3, <2>5, <2>6 DEF CacheInv, QueuesOK
<1>8. CASE WriteDone
  <2>1. /\ WQ' = Ticked(WQ)
        /\ wq_ready' \in 0 .. Len(WQ) /\ Goto("read", MAX_READ)
        /\ UNCHANGED <<block, RQ, rq_ready, PQ, pq_ready, MSHR, lowerVars, waiting, unsaved>>
    BY <1>8 DEF WriteDone, WriteQueue!Tick, WriteQueue!Countdown, Ticked
  <2>2. QueueOK(WQ', wq_ready', Writes, WQ_SIZE)
    <3>1. PICK m \in 0 .. Len(WQ) : m = wq_ready'
      BY <2>1
    <3>2. QueueOK(Ticked(WQ), m, Writes, WQ_SIZE)
      BY <1>0, Constants, TickKeeps
    <3> QED
      BY <3>1, <3>2, <2>1
  <2> QED
    BY <1>0, <2>1, <2>2, Constants DEF Goto, lowerVars, CacheInv, QueuesOK
<1>9. CASE ReadHit
  <2>1. rq_ready > 0 /\ budget > 0 /\ waiting' = Answered(ReadPkt)
        /\ RQ' = Tail(RQ) /\ rq_ready' = rq_ready - 1
        /\ PQ' \in AfterPrefetcher(PQ, ReadPkt) /\ Spend
        /\ UNCHANGED <<block, WQ, wq_ready, pq_ready, MSHR, lowerVars, unsaved>>
    BY <1>9 DEF ReadHit, ReadDue, ReadQueue!Pop
  <2>2. Len(RQ) > 0
    BY <1>1, <2>1
  <2>3. QueueOK(Tail(RQ), rq_ready - 1, Loads, RQ_SIZE)
    BY <2>1, <2>2, <1>0, Constants, PopKeeps
  <2>4. QueueOK(PQ', pq_ready, Prefetches, PQ_SIZE)
    BY <2>1, <1>0, AfterPrefetcherKeeps
  <2>5. waiting' \in [Uppers -> SUBSET Blocks]
    BY <2>1, <1>0, AnsweredType
  <2>6. /\ pc' \in {"idle", "fill", "writeback", "read", "prefetch", "prefetcher"}
        /\ budget' \in Nat /\ warmup_complete' = warmup_complete
    BY <1>0, <2>1, SpendKeeps
  <2> QED
    BY <1>0, <2>1, <2>3, <2>4, <2>5, <2>6 DEF lowerVars, CacheInv, QueuesOK
<1>10. CASE ReadMiss
  <2>1. rq_ready > 0 /\ budget > 0 /\ readlike_miss(ReadPkt)
        /\ RQ' = Tail(RQ) /\ rq_ready' = rq_ready - 1
        /\ PQ' \in AfterPrefetcher(PQ, ReadPkt) /\ Spend
        /\ UNCHANGED <<block, WQ, wq_ready, pq_ready, lower_wq, waiting, unsaved>>
    BY <1>10 DEF ReadMiss, ReadDue, ReadQueue!Pop
  <2>2. Len(RQ) > 0
    BY <1>1, <2>1
  <2>3. QueueOK(Tail(RQ), rq_ready - 1, Loads, RQ_SIZE) /\ ReadPkt \in Loads
    BY <2>1, <2>2, <1>0, Constants, PopKeeps DEF ReadPkt
  <2>4. QueueOK(PQ', pq_ready, Prefetches, PQ_SIZE)
    BY <2>1, <1>0, AfterPrefetcherKeeps
  <2>5. MissesOK(MSHR', lower', warmup_complete) /\ Len(MSHR') <= MSHR_SIZE
    <3>1. MayMiss(ReadPkt)
      BY <2>3, PacketsMiss
    <3> QED
      BY <3>1, <2>1, <1>0, ReadlikeKeeps
  <2>6. /\ pc' \in {"idle", "fill", "writeback", "read", "prefetch", "prefetcher"}
        /\ budget' \in Nat /\ warmup_complete' = warmup_complete
    BY <1>0, <2>1, SpendKeeps
  <2> QED
    BY <1>0, <2>1, <2>3, <2>4, <2>5, <2>6 DEF CacheInv, QueuesOK
<1>11. CASE ReadDone
  <2>1. PQ' \in Prefetched(PQ) /\ Goto("prefetch", budget)
        /\ UNCHANGED <<block, RQ, rq_ready, WQ, wq_ready, pq_ready, MSHR, lowerVars, waiting,
                       unsaved>>
    BY <1>11 DEF ReadDone
  <2>2. QueueOK(PQ', pq_ready, Prefetches, PQ_SIZE)
    BY <2>1, <1>0, PrefetchedKeeps
  <2> QED
    BY <1>0, <2>1, <2>2 DEF Goto, lowerVars, CacheInv, QueuesOK
<1>12. CASE PrefetchHit
  <2>1. pq_ready > 0 /\ budget > 0 /\ waiting' = Answered(PrefetchPkt)
        /\ PopPq(PrefetchPkt) /\ Spend
        /\ UNCHANGED <<block, RQ, rq_ready, WQ, wq_ready, MSHR, lowerVars, unsaved>>
    BY <1>12 DEF PrefetchHit, PrefetchDue
  <2>2. QueueOK(PQ', pq_ready', Prefetches, PQ_SIZE)
    <3>1. PICK q \in AfterPrefetcher(PQ, PrefetchPkt) : PQ' = Tail(q) /\ pq_ready' = pq_ready - 1
      BY <2>1 DEF PopPq
    <3>2. QueueOK(Tail(q), pq_ready - 1, Prefetches, PQ_SIZE)
      BY <2>1, <1>0, PopPqKeeps
    <3> QED
      BY <3>1, <3>2
  <2>3. waiting' \in [Uppers -> SUBSET Blocks]
    BY <2>1, <1>0, AnsweredType
  <2>4. /\ pc' \in {"idle", "fill", "writeback", "read", "prefetch", "prefetcher"}
        /\ budget' \in Nat /\ warmup_complete' = warmup_complete
    BY <1>0, <2>1, SpendKeeps
  <2> QED
    BY <1>0, <2>1, <2>2, <2>3, <2>4 DEF lowerVars, CacheInv, QueuesOK
<1>13. CASE PrefetchMiss
  <2>1. pq_ready > 0 /\ budget > 0 /\ readlike_miss(PrefetchPkt)
        /\ PopPq(PrefetchPkt) /\ Spend
        /\ UNCHANGED <<block, RQ, rq_ready, WQ, wq_ready, lower_wq, waiting, unsaved>>
    BY <1>13 DEF PrefetchMiss, PrefetchDue
  <2>2. QueueOK(PQ', pq_ready', Prefetches, PQ_SIZE) /\ PrefetchPkt \in Prefetches
    <3>1. PICK q \in AfterPrefetcher(PQ, PrefetchPkt) : PQ' = Tail(q) /\ pq_ready' = pq_ready - 1
      BY <2>1 DEF PopPq
    <3>2. QueueOK(Tail(q), pq_ready - 1, Prefetches, PQ_SIZE) /\ Head(PQ).item \in Prefetches
      BY <2>1, <1>0, PopPqKeeps
    <3> QED
      BY <3>1, <3>2 DEF PrefetchPkt
  <2>3. MissesOK(MSHR', lower', warmup_complete) /\ Len(MSHR') <= MSHR_SIZE
    <3>1. MayMiss(PrefetchPkt)
      BY <2>2, PacketsMiss
    <3> QED
      BY <3>1, <2>1, <1>0, ReadlikeKeeps
  <2>4. /\ pc' \in {"idle", "fill", "writeback", "read", "prefetch", "prefetcher"}
        /\ budget' \in Nat /\ warmup_complete' = warmup_complete
    BY <1>0, <2>1, SpendKeeps
  <2> QED
    BY <1>0, <2>1, <2>2, <2>3, <2>4 DEF CacheInv, QueuesOK
<1>14. CASE EndCycle
  <2>1. /\ RQ' = Ticked(RQ)
        /\ rq_ready' \in 0 .. Len(RQ)
        /\ PQ' = Ticked(PQ)
        /\ pq_ready' \in 0 .. Len(PQ)
    BY <1>14 DEF EndCycle, ReadQueue!Tick, ReadQueue!Countdown, PrefQueue!Tick,
                 PrefQueue!Countdown, Ticked
  <2>2. QueueOK(RQ', rq_ready', Loads, RQ_SIZE)
    <3>1. PICK m \in 0 .. Len(RQ) : m = rq_ready'
      BY <2>1
    <3>2. QueueOK(Ticked(RQ), m, Loads, RQ_SIZE)
      BY <1>0, Constants, TickKeeps
    <3> QED
      BY <3>1, <3>2, <2>1
  <2>3. QueueOK(PQ', pq_ready', Prefetches, PQ_SIZE)
    <3>1. PICK m \in 0 .. Len(PQ) : m = pq_ready'
      BY <2>1
    <3>2. QueueOK(Ticked(PQ), m, Prefetches, PQ_SIZE)
      BY <1>0, Constants, TickKeeps
    <3> QED
      BY <3>1, <3>2, <2>1
  <2>4. MissesOK(MSHR', lower, warmup_complete) /\ Len(MSHR') <= MSHR_SIZE
    <3>1. PICK r : r = MSHR'
      OBVIOUS
    <3>2. MissesOK(r, lower, warmup_complete) /\ Len(r) = Len(MSHR)
      BY <3>1, <1>0, <1>14, CountdownKeeps DEF EndCycle
    <3> QED
      BY <3>1, <3>2, <1>0
  <2> QED
    BY <1>0, <1>14, <2>2, <2>3, <2>4 DEF EndCycle, Goto, lowerVars, CacheInv, QueuesOK
<1>15. CASE prefetcher_cycle_operate
  <2>1. PQ' \in Prefetched(PQ) /\ Goto("idle", 0)
        /\ UNCHANGED <<block, RQ, rq_ready, WQ, wq_ready, pq_ready, MSHR, lowerVars, waiting,
                       unsaved>>
    BY <1>15 DEF prefetcher_cycle_operate
  <2>2. QueueOK(PQ', pq_ready, Prefetches, PQ_SIZE)
    BY <2>1, <1>0, PrefetchedKeeps
  <2> QED
    BY <1>0, <2>1, <2>2 DEF Goto, lowerVars, CacheInv, QueuesOK
<1>16. ASSUME NEW u \in Uppers, NEW a \in Addrs, add_rq(u, a)  PROVE CacheInv'
  <2>1. QueueOK(RQ', rq_ready, Loads, RQ_SIZE) /\ waiting' \in [Uppers -> SUBSET Blocks]
    <3>1. CASE InWQ(a)
      BY <3>1, <1>0, <1>16 DEF add_rq
    <3>2. CASE ~ InWQ(a)
      <4>1. RQ' = ReadAdded(u, a) /\ (Found(RQ, a) # {} \/ Len(RQ) < RQ_SIZE)
        BY <3>2, <1>16 DEF add_rq, ReadAdded
      <4>2. QueueOK(ReadAdded(u, a), rq_ready, Loads, RQ_SIZE)
        BY <4>1, <1>0, AddRqKeeps
      <4>3. waiting' = [waiting EXCEPT ![u] = waiting[u] \cup {BlockOf[a]}]
        BY <3>2, <1>16 DEF add_rq
      <4>4. waiting' \in [Uppers -> SUBSET Blocks]
        BY <4>3, <1>0, BlocksOf
      <4> QED
        BY <4>1, <4>2, <4>4
    <3> QED
      BY <3>1, <3>2
  <2> QED
    BY <1>0, <1>16, <2>1 DEF add_rq, lowerVars, CacheInv, QueuesOK
<1>17. ASSUME NEW a \in Addrs, add_wq(a)  PROVE CacheInv'
  <2>1. QueueOK(WQ', wq_ready, Writes, WQ_SIZE)
    <3>1. CASE InWQ(a)
      BY <3>1, <1>0, <1>17 DEF add_wq
    <3>2. CASE ~ InWQ(a)
      <4>1. PICK e : e = [item |-> Write(a), delay |-> Delay]
        OBVIOUS
      <4>2. e \in Entries(Writes)
        BY <4>1, <1>0, MadePackets, PushedEntry
      <4>3. WQ' = Append(WQ, e) /\ Len(WQ) < WQ_SIZE
        BY <4>1, <3>2, <1>17 DEF add_wq
      <4>4. Append(WQ, e) \in Seq(Entries(Writes)) /\ Len(Append(WQ, e)) = Len(WQ) + 1
        BY <4>2, <1>1, Pushed
      <4>5. wq_ready \in 0 .. Len(WQ) + 1 /\ Len(WQ) + 1 <= WQ_SIZE
        BY <4>3, <1>1, Constants
      <4> QED
        BY <4>3, <4>4, <4>5 DEF QueueOK
    <3> QED
      BY <3>1, <3>2
  <2>2. unsaved' \subseteq Blocks
    BY <1>0, <1>17, BlocksOf DEF add_wq
  <2> QED
    BY <1>0, <1>17, <2>1, <2>2 DEF add_wq, lowerVars, CacheInv, QueuesOK
<1>18. ASSUME NEW u \in Prefetching, NEW a \in Addrs, NEW l \in {UP, HERE}, add_pq(u, a, l)
       PROVE  CacheInv'
  <2>1. QueueOK(PQ', pq_ready, Prefetches, PQ_SIZE)
    <3>1. PICK pkt \in Prefetches : pkt = UpperPrefetch(u, a, l)
      BY MadePackets
    <3>2. PICK r : r = AddPq(PQ, pkt)
      OBVIOUS
    <3>3. r \in Seq(Entries(Prefetches)) /\ Len(r) <= PQ_SIZE /\ Len(PQ) <= Len(r)
      <4>1. Len(PQ) <= PQ_SIZE
        BY <1>0 DEF QueueOK
      <4> QED
        BY <4>1, <3>2, <1>0, <1>1, AddPqKeeps
    <3>4. PQ' = r
      BY <3>1, <3>2, <1>18 DEF add_pq
    <3>5. pq_ready \in 0 .. Len(r)
      BY <3>3, <1>1
    <3> QED
      BY <3>3, <3>4, <3>5 DEF QueueOK
  <2>2. waiting' \in [Uppers -> SUBSET Blocks]
    <3>1. u \in Uppers /\ BlockOf[a] \in Blocks
      BY Constants, BlocksOf
    <3>2. waiting' = waiting \/ waiting' = [waiting EXCEPT ![u] = waiting[u] \cup {BlockOf[a]}]
      BY <1>18 DEF add_pq
    <3> QED
      BY <3>1, <3>2, <1>0
  <2> QED
    BY <1>0, <1>18, <2>1, <2>2 DEF add_pq, lowerVars, CacheInv, QueuesOK
<1>19. ASSUME NEW b \in Blocks, LowerReturns(b)  PROVE CacheInv'
  <2>1. lower[b] > 0 /\ lower' = [lower EXCEPT ![b] = lower[b] - 1]
        /\ MSHR' = return_data(MSHR, b)
        /\ UNCHANGED <<block, queueVars, warmup_complete, pc, budget, lower_wq, waiting, unsaved>>
    BY <1>19 DEF LowerReturns
  <2>2. MissesOK(MSHR', lower', warmup_complete) /\ Len(MSHR') <= MSHR_SIZE
    <3>0. /\ SingleMiss(MSHR) /\ Ordered(MSHR) /\ (~ warmup_complete => NoneDelayed(MSHR))
          /\ lower \in [Blocks -> Nat]
          /\ \A c \in Blocks : lower[c] = IF Outstanding(MSHR, c) THEN 1 ELSE 0
      BY <1>0 DEF MissesOK, Owed
    <3>1. PICK k \in DOMAIN MSHR : BlockOf[MSHR[k].address] = b /\ MSHR[k].event = NEVER
      <4>1. Outstanding(MSHR, b)
        BY <3>0, <2>1
      <4> QED
        BY <4>1 DEF Outstanding
    <3>2. PICK r : r = return_data(MSHR, b)
      OBVIOUS
    <3>3. PICK l : l = lower'
      OBVIOUS
    <3>4. /\ r \in Seq(MissRecords) /\ Len(r) = Len(MSHR)
          /\ SingleMiss(r) /\ Ordered(r)
          /\ ~ warmup_complete => NoneDelayed(r)
          /\ \A c : Outstanding(r, c) <=> Outstanding(MSHR, c) /\ c # b
      <4>1. MSHR \in Seq(MissRecords) /\ warmup_complete \in BOOLEAN
        BY <1>0, <1>1
      <4> QED
        BY <4>1, <3>0, <3>1, <3>2, ReturnKeeps
    <3>5. lower[b] = 1
      BY <3>0, <2>1
    <3>6. l \in [Blocks -> Nat] /\ l[b] = 0 /\ \A c \in Blocks : c # b => l[c] = lower[c]
      BY <3>0, <3>3, <3>5, <2>1
    <3>7. Owed(r, l)
      BY <3>0, <3>4, <3>6 DEF Owed
    <3>8. MissesOK(r, l, warmup_complete)
      BY <3>4, <3>7 DEF MissesOK
    <3> QED
      BY <3>2, <3>3, <3>4, <3>8, <2>1, <1>0
  <2> QED
    BY <1>0, <2>1, <2>2 DEF queueVars, CacheInv, QueuesOK
<1>20. ASSUME NEW b \in Blocks, LowerWritesBack(b)  PROVE CacheInv'
  BY <1>0, <1>20 DEF LowerWritesBack, queueVars, CacheInv, QueuesOK
<1>21. CASE CompleteWarmup
  <2>1. MissesOK(MSHR, lower, TRUE)
    BY <1>0 DEF MissesOK
  <2> QED
    BY <1>0, <1>21, <2>1 DEF CompleteWarmup, queueVars, lowerVars, CacheInv, QueuesOK
<1>22. CASE UNCHANGED vars
  BY <1>0, <1>22 DEF vars, queueVars, lowerVars, CacheInv, QueuesOK
<1> QED
  BY <1>2, <1>3, <1>4, <1>5, <1>6, <1>7, <1>8, <1>9, <1>10, <1>11, <1>12, <1>13, <1>14, <1>15,
     <1>16, <1>17, <1>18, <1>19, <1>20, <1>21, <1>22 DEF Next, Operate

(* What holds of the cache at every step.                                   *)
THEOREM CacheInvariant == Spec => []CacheInv
  BY CacheInit, CacheStep, PTL DEF Spec

LEMMA QueueType ==
  ASSUME NEW P \in SUBSET Packet, NEW q, NEW n, NEW size, QueueOK(q, n, P, size)
  PROVE  /\ q \in Seq([item : Packet, delay : 0 .. HIT_LATENCY])
         /\ Len(q) <= size /\ n \in 0 .. Len(q)
<1>1. q \in Seq(Entries(P)) /\ Len(q) <= size /\ n \in 0 .. Len(q)
  BY DEF QueueOK
<1>2. PICK T : T = [item : Packet, delay : 0 .. HIT_LATENCY]
  OBVIOUS
<1>3. Entries(P) \subseteq T
  BY <1>2 DEF Entries
<1>4. DOMAIN q = 1 .. Len(q) /\ Len(q) \in Nat /\ \A i \in DOMAIN q : q[i] \in Entries(P)
  BY <1>1
<1>5. q \in [1 .. Len(q) -> T]
  BY <1>1, <1>3, <1>4
<1>6. q \in Seq(T)
  BY <1>4, <1>5
<1> QED
  BY <1>1, <1>2, <1>6

LEMMA InvType == CacheInv => TypeOK
<1> SUFFICES ASSUME CacheInv  PROVE TypeOK
  OBVIOUS
<1>1. /\ RQ \in Seq([item : Packet, delay : 0 .. HIT_LATENCY])
      /\ Len(RQ) <= RQ_SIZE /\ rq_ready \in 0 .. Len(RQ)
  BY PacketKinds, QueueType DEF CacheInv, QueuesOK
<1>2. /\ WQ \in Seq([item : Packet, delay : 0 .. HIT_LATENCY])
      /\ Len(WQ) <= WQ_SIZE /\ wq_ready \in 0 .. Len(WQ)
  BY PacketKinds, QueueType DEF CacheInv, QueuesOK
<1>3. /\ PQ \in Seq([item : Packet, delay : 0 .. HIT_LATENCY])
      /\ Len(PQ) <= PQ_SIZE /\ pq_ready \in 0 .. Len(PQ)
  BY PacketKinds, QueueType DEF CacheInv, QueuesOK
<1>4. \A p \in {<<RQ, rq_ready, RQ_SIZE>>, <<WQ, wq_ready, WQ_SIZE>>, <<PQ, pq_ready, PQ_SIZE>>} :
        /\ p[1] \in Seq([item : Packet, delay : 0 .. HIT_LATENCY])
        /\ Len(p[1]) <= p[3] /\ p[2] \in 0 .. Len(p[1])
  BY <1>1, <1>2, <1>3
<1>5. MSHR \in Seq(MissRecords) /\ Len(MSHR) <= MSHR_SIZE /\ lower \in [Blocks -> Nat]
  BY DEF CacheInv, MissesOK, Owed
<1>6. block \in [Ways -> [address : Addrs \cup {None}, dirty : BOOLEAN]]
  BY DEF CacheInv, BlocksOK
<1> QED
  BY <1>4, <1>5, <1>6 DEF CacheInv, TypeOK, MissRecords

(* The cache's variables have their types, and no queue grows beyond its    *)
(* size.                                                                    *)
THEOREM TypeCorrect == Spec => []TypeOK
  BY CacheInvariant, InvType, PTL

LEMMA InvOneRead == CacheInv => OneReadPerMiss
<1> SUFFICES ASSUME CacheInv, NEW b \in Blocks
             PROVE  /\ Cardinality(Misses(MSHR, b)) <= 1
                    /\ lower[b] = Cardinality({i \in Misses(MSHR, b) : MSHR[i].event = NEVER})
  BY DEF OneReadPerMiss
<1>1. SingleMiss(MSHR) /\ lower[b] = IF Outstanding(MSHR, b) THEN 1 ELSE 0
  BY DEF CacheInv, MissesOK, Owed
<1>2. \A i, j \in Misses(MSHR, b) : i = j
  BY <1>1 DEF Misses, SingleMiss
<1> DEFINE S == {i \in Misses(MSHR, b) : MSHR[i].event = NEVER}
<1>3. Cardinality(Misses(MSHR, b)) <= 1
  <2>1. CASE Misses(MSHR, b) = {}
    BY <2>1, FS_EmptySet
  <2>2. CASE Misses(MSHR, b) # {}
    <3>1. PICK k : Misses(MSHR, b) = {k}
      BY <2>2, <1>2
    <3> QED
      BY <3>1, FS_Singleton
  <2> QED
    BY <2>1, <2>2
<1>4. Outstanding(MSHR, b) <=> S # {}
  BY DEF Outstanding, Misses
<1>5. Cardinality(S) = IF S = {} THEN 0 ELSE 1
  <2>1. CASE S = {}
    BY <2>1, FS_EmptySet
  <2>2. CASE S # {}
    <3>1. PICK k : S = {k}
      BY <2>2, <1>2
    <3> QED
      BY <3>1, <2>2, FS_Singleton
  <2> QED
    BY <2>1, <2>2
<1> QED
  BY <1>1, <1>3, <1>4, <1>5

(* readlike_miss never lists a block twice, and every answer of the lower   *)
(* level is for a miss that waits: return_data finds its entry.             *)
THEOREM OneRead == Spec => []OneReadPerMiss
  BY CacheInvariant, InvOneRead, PTL

LEMMA InvInOrder == CacheInv => MshrInOrder
  BY DEF CacheInv, MissesOK, Ordered, MshrInOrder

(* return_data's swap keeps the misses in the order handle_fill needs.      *)
THEOREM InOrder == Spec => []MshrInOrder
  BY CacheInvariant, InvInOrder, PTL

-----------------------------------------------------------------------------
(* Where everything written is written back, no write is lost.              *)

(* A block evicted is written back, unless a newer write of it is queued.   *)
LEMMA EvictKeeps ==
  ASSUME BlocksOK(block), lower_wq \subseteq Blocks, unsaved \subseteq Blocks, Kept,
         NEW w \in Ways, NEW pkt, pkt.address \in Addrs, filllike_miss(w, pkt),
         NEW b, b \in unsaved'
  PROVE  Queued(WQ, b) \/ Dirty(block', b)
<1>1. /\ block'[w].address = pkt.address
      /\ \A v \in Ways : v # w => block'[v] = block[v]
  BY FilllikeKeeps
<1>2. b \in unsaved /\ (block[w].dirty /\ BlockOf[block[w].address] = b => Queued(WQ, b))
  BY DEF filllike_miss, Queued
<1>3. CASE Queued(WQ, b)
  BY <1>3
<1>4. CASE Dirty(block, b) /\ ~ Queued(WQ, b)
  <2>1. PICK v \in Ways : block[v].dirty /\ BlockOf[block[v].address] = b
    BY <1>4 DEF Dirty
  <2>2. v # w
    BY <2>1, <1>2, <1>4
  <2> QED
    BY <2>1, <2>2, <1>1 DEF Dirty
<1> QED
  BY <1>2, <1>3, <1>4 DEF Kept

LEMMA KeptStep ==
  ASSUME WriteType = "WRITEBACK", CacheInv, Kept, [Next]_vars
  PROVE  Kept'
<1>0. /\ BlocksOK(block) /\ lower_wq \subseteq Blocks /\ unsaved \subseteq Blocks
      /\ QueueOK(WQ, wq_ready, Writes, WQ_SIZE)
      /\ MissesOK(MSHR, lower, warmup_complete)
      /\ warmup_complete \in BOOLEAN
      /\ WQ \in Seq(Entries(Writes)) /\ Len(WQ) \in Nat /\ wq_ready \in 0 .. Len(WQ)
      /\ MSHR \in Seq(MissRecords)
  BY DEF CacheInv, QueuesOK, MissesOK, QueueOK
<1>1. CASE UNCHANGED <<WQ, block, unsaved>>
  BY <1>1 DEF Kept
<1>2. CASE Fill
  <2>1. Len(MSHR) > 0 /\ Head(MSHR).event = 0 /\ WQ' = WQ
    BY <1>0, <1>2 DEF Fill, FillDue, queueVars
  <2>2. Head(MSHR) \in MissRecords
    BY <1>0, <2>1, FillKeeps
  <2>3. Head(MSHR).address \in Addrs
    BY <2>2 DEF MissRecords
  <2>4. PICK w \in Victims : filllike_miss(w, Head(MSHR))
    BY <1>2 DEF Fill
  <2>5. w \in Ways
    BY VictimsAreWays
  <2>6. \A b \in unsaved' : Queued(WQ, b) \/ Dirty(block', b)
    BY <1>0, <2>3, <2>4, <2>5, EvictKeeps
  <2> QED
    BY <2>1, <2>6 DEF Kept
<1>3. ASSUME wq_ready > 0, WQ' = Tail(WQ)
      PROVE  /\ WritePkt \in Writes
             /\ \A b : Queued(WQ, b) => Queued(WQ', b) \/ b = BlockOf[WritePkt.address]
  <2>1. Len(WQ) > 0
    BY <1>0, <1>3
  <2>2. WritePkt \in Writes
    BY <2>1, <1>0, Constants, PopKeeps DEF WritePkt
  <2>3. PICK t : t = Tail(WQ)
    OBVIOUS
  <2>4. /\ DOMAIN t = 1 .. Len(WQ) - 1 /\ \A i \in 1 .. Len(WQ) - 1 : t[i] = WQ[i + 1]
        /\ Head(WQ) = WQ[1] /\ DOMAIN WQ = 1 .. Len(WQ)
    BY <2>1, <2>3, <1>0, Popped
  <2>5. \A i \in DOMAIN WQ : i # 1 => i - 1 \in DOMAIN t /\ t[i - 1] = WQ[i]
    BY <2>4, <1>0
  <2>6. ASSUME NEW b, Queued(WQ, b)  PROVE Queued(t, b) \/ b = BlockOf[WritePkt.address]
    <3>1. PICK i \in DOMAIN WQ : BlockOf[WQ[i].item.address] = b
      BY <2>6 DEF Queued
    <3>2. CASE i = 1
      BY <3>1, <3>2, <2>4 DEF WritePkt
    <3>3. CASE i # 1
      BY <3>1, <3>3, <2>5 DEF Queued
    <3> QED
      BY <3>2, <3>3
  <2> QED
    BY <2>2, <2>3, <2>6, <1>3
<1>4. CASE WriteHit
  <2>1. wq_ready > 0 /\ WQ' = Tail(WQ) /\ Hits(WritePkt.address) # {} /\ unsaved' = unsaved
    BY <1>4 DEF WriteHit, WriteDue, WriteQueue!Pop
  <2>2. PICK w \in Ways : /\ w = Min(Hits(WritePkt.address))
                          /\ BlockOf[block[w].address] = BlockOf[WritePkt.address]
    BY <2>1, HitsAreWays
  <2>3. block' = [block EXCEPT ![w].dirty = TRUE]
    BY <1>4, <2>2 DEF WriteHit
  <2>4. PICK f : f = block'
    OBVIOUS
  <2>5. f[w].dirty /\ f[w].address = block[w].address /\ \A v \in Ways : v # w => f[v] = block[v]
    <3>1. block \in [Ways -> [address : Addrs \cup {None}, dirty : BOOLEAN]]
      BY <1>0 DEF BlocksOK
    <3>2. f = [block EXCEPT ![w] = [block[w] EXCEPT !.dirty = TRUE]]
      BY <2>3, <2>4
    <3>3. f[w] = [block[w] EXCEPT !.dirty = TRUE] /\ \A v \in Ways : v # w => f[v] = block[v]
      BY <3>1, <3>2
    <3> QED
      BY <3>1, <3>3
  <2>6. \A b : Dirty(block, b) => Dirty(f, b)
    BY <2>5 DEF Dirty
  <2>7. Dirty(f, BlockOf[WritePkt.address])
    BY <2>2, <2>5 DEF Dirty
  <2> QED
    BY <1>3, <2>1, <2>4, <2>6, <2>7 DEF Kept
<1>5. CASE WriteMiss
  <2>1. wq_ready > 0 /\ WQ' = Tail(WQ)
    BY <1>5 DEF WriteMiss, WriteDue, WriteQueue!Pop
  <2>2. WritePkt.address \in Addrs /\ WritePkt.type = "WRITEBACK"
    BY <1>3, <2>1, PacketsMiss
  <2>3. PICK w \in Victims : filllike_miss(w, WritePkt)
    BY <1>5 DEF WriteMiss
  <2>4. w \in Ways
    BY VictimsAreWays
  <2>5. \A b \in unsaved' : Queued(WQ, b) \/ Dirty(block', b)
    BY <1>0, <2>2, <2>3, <2>4, EvictKeeps
  <2>6. block'[w].address = WritePkt.address /\ block'[w].dirty
    <3>1. Dirties(WritePkt)
      BY <2>2 DEF Dirties
    <3> QED
      BY <3>1, <1>0, <2>2, <2>3, <2>4, FilllikeKeeps
  <2>7. Dirty(block', BlockOf[WritePkt.address])
    BY <2>4, <2>6 DEF Dirty
  <2> QED
    BY <1>3, <2>1, <2>5, <2>7 DEF Kept
<1>6. CASE WriteDone
  <2>1. WQ' = Ticked(WQ) /\ UNCHANGED <<block, unsaved>>
    BY <1>6 DEF WriteDone, WriteQueue!Tick, WriteQueue!Countdown, Ticked
  <2>2. DOMAIN Ticked(WQ) = DOMAIN WQ /\ \A i \in DOMAIN WQ : Ticked(WQ)[i].item = WQ[i].item
    <3>1. /\ QueueOK(Ticked(WQ), wq_ready, Writes, WQ_SIZE)
          /\ DOMAIN Ticked(WQ) = DOMAIN WQ
          /\ \A i \in DOMAIN WQ : Ticked(WQ)[i].item = WQ[i].item
      BY <1>0, Constants, TickKeeps
    <3> QED
      BY <3>1
  <2>3. \A b : Queued(WQ, b) => Queued(Ticked(WQ), b)
    BY <2>2 DEF Queued
  <2> QED
    BY <2>1, <2>3 DEF Kept
<1>7. ASSUME NEW a \in Addrs, add_wq(a)  PROVE Kept'
  <2>1. unsaved' = unsaved \cup {BlockOf[a]} /\ block' = block
    BY <1>7 DEF add_wq
  <2>2. CASE InWQ(a)
    <3>1. WQ' = WQ /\ Queued(WQ, BlockOf[a])
      BY <2>2, <1>7 DEF add_wq, InWQ, SameBlock, Queued
    <3> QED
      BY <3>1, <2>1 DEF Kept
  <2>3. CASE ~ InWQ(a)
    <3>1. PICK e : e = [item |-> Write(a), delay |-> Delay]
      OBVIOUS
    <3>2. e \in Entries(Writes) /\ e.item.address = a
      BY <3>1, <1>0, MadePackets, PushedEntry DEF Write
    <3>3. PICK r : r = Append(WQ, e)
      OBVIOUS
    <3>4. WQ' = r
      BY <3>1, <3>3, <2>3, <1>7 DEF add_wq
    <3>5. /\ DOMAIN r = 1 .. Len(WQ) + 1 /\ DOMAIN WQ = 1 .. Len(WQ)
          /\ \A i \in 1 .. Len(WQ) : r[i] = WQ[i]
          /\ r[Len(WQ) + 1] = e
      BY <3>2, <3>3, <1>0, Pushed
    <3>6. \A i \in DOMAIN WQ : i \in DOMAIN r /\ r[i] = WQ[i]
      BY <3>5, <1>0
    <3>7. \A b : Queued(WQ, b) => Queued(r, b)
      BY <3>6 DEF Queued
    <3>8. Len(WQ) + 1 \in DOMAIN r
      BY <3>5, <1>0
    <3>9. Queued(r, BlockOf[a])
      BY <3>2, <3>5, <3>8 DEF Queued
    <3> QED
      BY <3>4, <3>7, <3>9, <2>1 DEF Kept
  <2> QED
    BY <2>2, <2>3
<1>8. CASE StoreMiss
  <2>1. wq_ready > 0 /\ WQ' = Tail(WQ) /\ WritePkt.type = "RFO"
    BY <1>8 DEF StoreMiss, WriteDue, WriteQueue!Pop
  <2> QED
    BY <1>3, <2>1, PacketsMiss
<1>9. \/ UNCHANGED <<WQ, block, unsaved>> \/ Fill \/ WriteHit \/ StoreMiss \/ WriteMiss
      \/ WriteDone \/ \E a \in Addrs : add_wq(a)
  BY DEF Next, Operate, vars, queueVars, StartCycle, FillDone, ReadHit, ReadMiss, ReadDone,
         PrefetchHit, PrefetchMiss, EndCycle, prefetcher_cycle_operate, add_rq, add_pq,
         LowerReturns, LowerWritesBack, CompleteWarmup
<1> QED
  BY <1>1, <1>2, <1>4, <1>5, <1>6, <1>7, <1>8, <1>9

(* Below the first level everything written is a write-back, and no         *)
(* eviction and no fill loses it: filllike_miss passes on what it evicts,   *)
(* handle_writeback leaves a dirty block behind.                            *)
THEOREM WritesStay ==
  ASSUME WriteType = "WRITEBACK"
  PROVE  Spec => []WritesKept
<1>1. Init => Kept
  BY DEF Init, Kept
<1>2. CacheInv /\ Kept /\ [Next]_vars => Kept'
  BY KeptStep
<1>3. Kept => WritesKept
  BY DEF Kept, WritesKept, Queued, Dirty
<1> QED
  BY CacheInvariant, <1>1, <1>2, <1>3, PTL DEF Spec

-----------------------------------------------------------------------------
(* Every request is held in one place until it is answered.                 *)

LEMMA HeldStep ==
  ASSUME CacheInv, HeldInv, [Next]_vars
  PROVE  HeldInv'
<1>0. /\ QueueOK(RQ, rq_ready, Loads, RQ_SIZE)
      /\ QueueOK(WQ, wq_ready, Writes, WQ_SIZE)
      /\ QueueOK(PQ, pq_ready, Prefetches, PQ_SIZE)
      /\ MissesOK(MSHR, lower, warmup_complete) /\ Len(MSHR) <= MSHR_SIZE
      /\ warmup_complete \in BOOLEAN /\ MSHR \in Seq(MissRecords)
      /\ waiting \in [Uppers -> SUBSET Blocks]
  BY DEF CacheInv, QueuesOK, MissesOK
<1>1. SingleEntry(RQ) /\ SingleEntry(PQ) /\ PrefetchOwn(MSHR) /\ HeldOnce
  BY DEF HeldInv
<1>2. /\ rq_ready > 0 => Len(RQ) > 0
      /\ wq_ready > 0 => Len(WQ) > 0
      /\ pq_ready > 0 => Len(PQ) > 0
  <2>1. rq_ready > 0 => Len(RQ) > 0
    BY <1>0 DEF QueueOK
  <2>2. wq_ready > 0 => Len(WQ) > 0
    BY <1>0 DEF QueueOK
  <2>3. pq_ready > 0 => Len(PQ) > 0
    BY <1>0 DEF QueueOK
  <2> QED
    BY <2>1, <2>2, <2>3
<1>3. CASE UNCHANGED <<RQ, PQ, MSHR, waiting>>
  BY <1>1, <1>3 DEF HeldInv, HeldOnce
<1>4. CASE Fill
  <2>1. /\ Len(MSHR) > 0 /\ Head(MSHR).event = 0 /\ MSHR' = Tail(MSHR)
        /\ waiting' = Answered(Head(MSHR)) /\ RQ' = RQ /\ PQ' = PQ
    BY <1>0, <1>4 DEF Fill, FillDue, queueVars
  <2>2. /\ \A u, c : MissHolds(Tail(MSHR), u, c) <=>
                       MissHolds(MSHR, u, c) /\ ~ Asks(Head(MSHR), u, c)
        /\ PrefetchOwn(Tail(MSHR))
    <3>1. PICK r : r = Tail(MSHR)
      OBVIOUS
    <3>2. /\ \A u, c : MissHolds(r, u, c) <=> MissHolds(MSHR, u, c) /\ ~ Asks(Head(MSHR), u, c)
          /\ PrefetchOwn(MSHR) => PrefetchOwn(r)
      BY <3>1, <2>1, <1>0, FillKeeps
    <3> QED
      BY <3>1, <3>2, <1>1
  <2>3. \A u \in Uppers : \A b : b \in waiting'[u] <=> b \in waiting[u] /\ ~ Asks(Head(MSHR), u, b)
    BY <2>1, <1>0, AnsweredType
  <2>4. \A u, b : Asks(Head(MSHR), u, b) => MissHolds(MSHR, u, b)
    BY <2>1, <1>0, Popped DEF MissHolds
  <2>5. HeldOnce'
    BY <2>1, <2>2, <2>3, <2>4, <1>1 DEF HeldOnce
  <2> QED
    BY <2>1, <2>2, <2>5, <1>1 DEF HeldInv
<1>5. ASSUME NEW pkt, PQ' \in AfterPrefetcher(PQ, pkt)
      PROVE  SingleEntry(PQ') /\ \A u, b : QueueHolds(PQ', u, b) <=> QueueHolds(PQ, u, b)
  BY <1>0, <1>1, <1>5, AfterPrefetcherKeeps
<1>6. ASSUME PQ' \in Prefetched(PQ)
      PROVE  SingleEntry(PQ') /\ \A u, b : QueueHolds(PQ', u, b) <=> QueueHolds(PQ, u, b)
  BY <1>0, <1>1, <1>6, PrefetchedKeeps
<1>7. ASSUME rq_ready > 0, RQ' = Tail(RQ)
      PROVE  /\ ReadPkt \in Loads /\ SingleEntry(RQ')
             /\ \A u, b : QueueHolds(RQ', u, b) <=>
                            QueueHolds(RQ, u, b) /\ ~ Asks(ReadPkt, u, b)
             /\ \A u, b : Asks(ReadPkt, u, b) => QueueHolds(RQ, u, b)
  <2>1. /\ Head(RQ).item \in Loads /\ Head(RQ) = RQ[1]
        /\ SingleEntry(RQ) => SingleEntry(Tail(RQ))
        /\ SingleEntry(RQ) =>
             \A u, b : QueueHolds(Tail(RQ), u, b) <=>
                         QueueHolds(RQ, u, b) /\ ~ Asks(Head(RQ).item, u, b)
    BY <1>0, <1>2, <1>7, Constants, PopKeeps
  <2>2. 1 \in DOMAIN RQ
    BY <1>0, <1>2, <1>7 DEF QueueOK
  <2>3. \A u, b : Asks(ReadPkt, u, b) => QueueHolds(RQ, u, b)
    BY <2>1, <2>2 DEF QueueHolds, ReadPkt
  <2> QED
    BY <2>1, <2>3, <1>1, <1>7 DEF ReadPkt
<1>8. ASSUME pq_ready > 0, PopPq(PrefetchPkt)
      PROVE  /\ PrefetchPkt \in Prefetches /\ SingleEntry(PQ')
             /\ \A u, b : QueueHolds(PQ', u, b) <=>
                            QueueHolds(PQ, u, b) /\ ~ Asks(PrefetchPkt, u, b)
             /\ \A u, b : Asks(PrefetchPkt, u, b) => QueueHolds(PQ, u, b)
  <2>1. PICK q \in AfterPrefetcher(PQ, PrefetchPkt) : PQ' = Tail(q)
    BY <1>8 DEF PopPq
  <2>2. /\ Head(PQ).item \in Prefetches
        /\ SingleEntry(PQ) => SingleEntry(Tail(q))
        /\ SingleEntry(PQ) =>
             \A u, b : QueueHolds(Tail(q), u, b) <=>
                         QueueHolds(PQ, u, b) /\ ~ Asks(Head(PQ).item, u, b)
    BY <1>0, <1>8, PopPqKeeps
  <2>3. 1 \in DOMAIN PQ /\ Head(PQ) = PQ[1]
    BY <1>0, <1>2, <1>8 DEF QueueOK
  <2>4. \A u, b : Asks(PrefetchPkt, u, b) => QueueHolds(PQ, u, b)
    BY <2>3 DEF QueueHolds, PrefetchPkt
  <2> QED
    BY <2>1, <2>2, <2>4, <1>1 DEF PrefetchPkt
<1>9. CASE StoreMiss
  <2>1. /\ wq_ready > 0 /\ WritePkt.type = "RFO" /\ readlike_miss(WritePkt)
        /\ PQ' \in AfterPrefetcher(PQ, WritePkt) /\ RQ' = RQ /\ waiting' = waiting
    BY <1>9 DEF StoreMiss, WriteDue
  <2>2. WritePkt \in Writes
    BY <2>1, <1>0, <1>2, Constants, PopKeeps DEF WritePkt
  <2>3. MayMiss(WritePkt) /\ WritePkt.to_return = {} /\ WriteType = "RFO"
    BY <2>1, <2>2, PacketsMiss
  <2>4. \A u \in Uppers : ~ MayBeForgotten(u) => Covers(MSHR, WritePkt, u)
    <3>1. \A u : ~ MayBeForgotten(u) => u \notin Prefetching
      BY <2>3 DEF MayBeForgotten
    <3> QED
      BY <3>1, <1>1 DEF Covers, PrefetchOwn
  <2>5. Gains(MSHR, MSHR', WritePkt)
    BY <2>1, <2>3, <1>0, ReadlikeKeeps
  <2>6. PrefetchOwn(MSHR')
    BY <2>1, <2>3, <1>0, <1>1, ReadlikeKeeps
  <2>7. \A u, c : ~ Asks(WritePkt, u, c)
    BY <2>3 DEF Asks
  <2>8. SingleEntry(PQ') /\ \A u, b : QueueHolds(PQ', u, b) <=> QueueHolds(PQ, u, b)
    BY <2>1, <1>5
  <2>9. HeldOnce'
    BY <2>1, <2>4, <2>5, <2>7, <2>8, <1>1 DEF HeldOnce, Gains
  <2> QED
    BY <2>1, <2>6, <2>8, <2>9, <1>1 DEF HeldInv
<1>10. CASE ReadHit
  <2>1. /\ rq_ready > 0 /\ RQ' = Tail(RQ) /\ waiting' = Answered(ReadPkt) /\ MSHR' = MSHR
        /\ PQ' \in AfterPrefetcher(PQ, ReadPkt)
    BY <1>10 DEF ReadHit, ReadDue, ReadQueue!Pop
  <2>2. \A u \in Uppers : \A b : b \in waiting'[u] <=> b \in waiting[u] /\ ~ Asks(ReadPkt, u, b)
    BY <2>1, <1>0, AnsweredType
  <2>3. /\ SingleEntry(RQ')
        /\ \A u, b : QueueHolds(RQ', u, b) <=> QueueHolds(RQ, u, b) /\ ~ Asks(ReadPkt, u, b)
        /\ \A u, b : Asks(ReadPkt, u, b) => QueueHolds(RQ, u, b)
    BY <2>1, <1>7
  <2>4. SingleEntry(PQ') /\ \A u, b : QueueHolds(PQ', u, b) <=> QueueHolds(PQ, u, b)
    BY <2>1, <1>5
  <2>5. HeldOnce'
    BY <2>1, <2>2, <2>3, <2>4, <1>1 DEF HeldOnce
  <2> QED
    BY <2>1, <2>3, <2>4, <2>5, <1>1 DEF HeldInv
<1>11. CASE ReadMiss
  <2>1. /\ rq_ready > 0 /\ RQ' = Tail(RQ) /\ waiting' = waiting /\ readlike_miss(ReadPkt)
        /\ PQ' \in AfterPrefetcher(PQ, ReadPkt)
    BY <1>11 DEF ReadMiss, ReadDue, ReadQueue!Pop
  <2>2. /\ ReadPkt \in Loads /\ SingleEntry(RQ')
        /\ \A u, b : QueueHolds(RQ', u, b) <=> QueueHolds(RQ, u, b) /\ ~ Asks(ReadPkt, u, b)
        /\ \A u, b : Asks(ReadPkt, u, b) => QueueHolds(RQ, u, b)
    BY <2>1, <1>7
  <2>3. SingleEntry(PQ') /\ \A u, b : QueueHolds(PQ', u, b) <=> QueueHolds(PQ, u, b)
    BY <2>1, <1>5
  <2>4. /\ MayMiss(ReadPkt) /\ ReadPkt.type = "LOAD" /\ ReadPkt.fill_level <= HERE
        /\ ReadPkt.address \in Addrs
    BY <2>2, PacketsMiss
  <2>5. ReadPkt.to_return # {} /\ ReadPkt.to_return \subseteq Uppers
    BY <2>2 DEF Loads
  <2>6. ASSUME NEW u \in Uppers, ~ MayBeForgotten(u)  PROVE Covers(MSHR, ReadPkt, u)
    <3>1. CASE u \notin Prefetching
      BY <3>1, <1>1 DEF Covers, PrefetchOwn
    <3>2. CASE Uppers = {u}
      BY <3>2, <2>5 DEF Covers
    <3> QED
      BY <3>1, <3>2, <2>6 DEF MayBeForgotten
  <2>7. Gains(MSHR, MSHR', ReadPkt)
    BY <2>1, <2>4, <1>0, ReadlikeKeeps
  <2>8. PrefetchOwn(MSHR')
    BY <2>1, <2>4, <1>0, <1>1, ReadlikeKeeps
  <2>9. HeldOnce'
    BY <2>1, <2>2, <2>3, <2>6, <2>7, <1>1 DEF HeldOnce, Gains
  <2> QED
    BY <2>2, <2>3, <2>8, <2>9 DEF HeldInv
<1>12. CASE ReadDone \/ prefetcher_cycle_operate
  <2>1. PQ' \in Prefetched(PQ) /\ UNCHANGED <<RQ, MSHR, waiting>>
    BY <1>12 DEF ReadDone, prefetcher_cycle_operate
  <2>2. SingleEntry(PQ') /\ \A u, b : QueueHolds(PQ', u, b) <=> QueueHolds(PQ, u, b)
    BY <2>1, <1>6
  <2>3. HeldOnce'
    BY <2>1, <2>2, <1>1 DEF HeldOnce
  <2> QED
    BY <2>1, <2>2, <2>3, <1>1 DEF HeldInv
<1>13. CASE PrefetchHit
  <2>1. /\ pq_ready > 0 /\ PopPq(PrefetchPkt) /\ waiting' = Answered(PrefetchPkt)
        /\ UNCHANGED <<RQ, MSHR>>
    BY <1>13 DEF PrefetchHit, PrefetchDue
  <2>2. \A u \in Uppers : \A b : b \in waiting'[u] <=> b \in waiting[u] /\ ~ Asks(PrefetchPkt, u, b)
    BY <2>1, <1>0, AnsweredType
  <2>3. /\ SingleEntry(PQ')
        /\ \A u, b : QueueHolds(PQ', u, b) <=> QueueHolds(PQ, u, b) /\ ~ Asks(PrefetchPkt, u, b)
        /\ \A u, b : Asks(PrefetchPkt, u, b) => QueueHolds(PQ, u, b)
    BY <2>1, <1>8
  <2>4. HeldOnce'
    BY <2>1, <2>2, <2>3, <1>1 DEF HeldOnce
  <2> QED
    BY <2>1, <2>3, <2>4, <1>1 DEF HeldInv
<1>14. CASE PrefetchMiss
  <2>1. /\ pq_ready > 0 /\ PopPq(PrefetchPkt) /\ readlike_miss(PrefetchPkt)
        /\ UNCHANGED <<RQ, waiting>>
    BY <1>14 DEF PrefetchMiss, PrefetchDue
  <2>2. /\ PrefetchPkt \in Prefetches /\ SingleEntry(PQ')
        /\ \A u, b : QueueHolds(PQ', u, b) <=> QueueHolds(PQ, u, b) /\ ~ Asks(PrefetchPkt, u, b)
        /\ \A u, b : Asks(PrefetchPkt, u, b) => QueueHolds(PQ, u, b)
    BY <2>1, <1>8
  <2>3. /\ MayMiss(PrefetchPkt) /\ PrefetchPkt.type = "PREFETCH"
        /\ PrefetchPkt.to_return \subseteq Prefetching
        /\ PrefetchPkt.to_return # {} => PrefetchPkt.fill_level <= HERE
    BY <2>2, PacketsMiss
  <2>4. \A u : Covers(MSHR, PrefetchPkt, u)
    BY <2>3 DEF Covers
  <2>5. Gains(MSHR, MSHR', PrefetchPkt)
    BY <2>1, <2>3, <1>0, ReadlikeKeeps
  <2>6. PrefetchOwn(MSHR')
    BY <2>1, <2>3, <1>0, <1>1, ReadlikeKeeps
  <2>7. HeldOnce'
    BY <2>1, <2>2, <2>4, <2>5, <1>1 DEF HeldOnce, Gains
  <2> QED
    BY <2>1, <2>2, <2>6, <2>7, <1>1 DEF HeldInv
<1>15. CASE EndCycle
  <2>1. RQ' = Ticked(RQ) /\ PQ' = Ticked(PQ) /\ waiting' = waiting
    BY <1>15 DEF EndCycle, ReadQueue!Tick, ReadQueue!Countdown, PrefQueue!Tick,
                 PrefQueue!Countdown, Ticked
  <2>2. /\ SingleEntry(Ticked(RQ))
        /\ \A u, b : QueueHolds(Ticked(RQ), u, b) <=> QueueHolds(RQ, u, b)
    <3>1. rq_ready \in 0 .. Len(RQ)
      BY <1>0 DEF QueueOK
    <3>2. /\ QueueOK(Ticked(RQ), rq_ready, Loads, RQ_SIZE)
          /\ SingleEntry(RQ) => SingleEntry(Ticked(RQ))
          /\ \A u, b : QueueHolds(Ticked(RQ), u, b) <=> QueueHolds(RQ, u, b)
      BY <3>1, <1>0, Constants, TickKeeps
    <3> QED
      BY <3>2, <1>1
  <2>3. /\ SingleEntry(Ticked(PQ))
        /\ \A u, b : QueueHolds(Ticked(PQ), u, b) <=> QueueHolds(PQ, u, b)
    <3>1. pq_ready \in 0 .. Len(PQ)
      BY <1>0 DEF QueueOK
    <3>2. /\ QueueOK(Ticked(PQ), pq_ready, Prefetches, PQ_SIZE)
          /\ SingleEntry(PQ) => SingleEntry(Ticked(PQ))
          /\ \A u, b : QueueHolds(Ticked(PQ), u, b) <=> QueueHolds(PQ, u, b)
      BY <3>1, <1>0, Constants, TickKeeps
    <3> QED
      BY <3>2, <1>1
  <2>4. PICK r : r = MSHR'
    OBVIOUS
  <2>5. /\ \A u, c : MissHolds(r, u, c) <=> MissHolds(MSHR, u, c)
        /\ PrefetchOwn(r)
    BY <2>4, <1>0, <1>1, <1>15, CountdownKeeps DEF EndCycle
  <2>6. HeldOnce'
    BY <2>1, <2>2, <2>3, <2>4, <2>5, <1>1 DEF HeldOnce
  <2> QED
    BY <2>1, <2>2, <2>3, <2>4, <2>5, <2>6 DEF HeldInv
<1>16. ASSUME NEW u \in Uppers, NEW a \in Addrs, add_rq(u, a)  PROVE HeldInv'
  <2>1. UNCHANGED <<PQ, MSHR>> /\ BlockOf[a] \notin waiting[u]
    BY <1>16 DEF add_rq
  <2>2. CASE InWQ(a)
    BY <2>1, <2>2, <1>1, <1>16 DEF add_rq, HeldInv, HeldOnce
  <2>3. CASE ~ InWQ(a)
    <3>1. RQ' = ReadAdded(u, a) /\ (Found(RQ, a) # {} \/ Len(RQ) < RQ_SIZE)
      BY <2>3, <1>16 DEF add_rq, ReadAdded
    <3>3. /\ SingleEntry(RQ) => SingleEntry(ReadAdded(u, a))
          /\ \A v, b : QueueHolds(ReadAdded(u, a), v, b) <=>
                         QueueHolds(RQ, v, b) \/ (v = u /\ b = BlockOf[a])
      BY <3>1, <1>0, AddRqKeeps
    <3>4. waiting' = [waiting EXCEPT ![u] = waiting[u] \cup {BlockOf[a]}]
      BY <2>3, <1>16 DEF add_rq
    <3>5. \A v \in Uppers : \A b : b \in waiting'[v] <=>
                                 b \in waiting[v] \/ (v = u /\ b = BlockOf[a])
      BY <3>4, <1>0
    <3>6. HeldOnce'
      BY <3>1, <3>3, <3>5, <2>1, <1>1 DEF HeldOnce
    <3> QED
      BY <3>1, <3>3, <3>6, <2>1, <1>1 DEF HeldInv
  <2> QED
    BY <2>2, <2>3
<1>17. ASSUME NEW u \in Prefetching, NEW a \in Addrs, NEW l \in {UP, HERE}, add_pq(u, a, l)
       PROVE  HeldInv'
  <2>1. UNCHANGED <<RQ, MSHR>> /\ BlockOf[a] \notin waiting[u] /\ Len(PQ) < PQ_SIZE /\ u \in Uppers
    BY <1>17, Constants DEF add_pq
  <2>2. PICK pkt \in Prefetches : pkt = UpperPrefetch(u, a, l)
    BY MadePackets
  <2>3. pkt.address = a /\ pkt.to_return = IF l = UP THEN {u} ELSE {}
    BY <2>2 DEF UpperPrefetch
  <2>4. \A v, b : Asks(pkt, v, b) <=> l = UP /\ v = u /\ b = BlockOf[a]
    BY <2>3 DEF Asks
  <2>5. PICK r : r = AddPq(PQ, pkt)
    OBVIOUS
  <2>6. PQ' = r
    BY <2>2, <2>5, <1>17 DEF add_pq
  <2>7. /\ SingleEntry(PQ) => SingleEntry(r)
        /\ \A v, b : QueueHolds(r, v, b) <=>
             \/ QueueHolds(PQ, v, b)
             \/ /\ Asks(pkt, v, b) /\ ~ InWQ(pkt.address)
                /\ Found(PQ, pkt.address) # {} \/ Len(PQ) < PQ_SIZE
    <3>1. PQ \in Seq(Entries(Prefetches)) /\ Len(PQ) <= PQ_SIZE
      BY <1>0 DEF QueueOK
    <3> QED
      BY <3>1, <2>5, <1>0, AddPqKeeps
  <2>8. \A v, b : QueueHolds(r, v, b) <=>
          QueueHolds(PQ, v, b) \/ (l = UP /\ ~ InWQ(a) /\ v = u /\ b = BlockOf[a])
    BY <2>1, <2>3, <2>4, <2>7
  <2>9. \A v \in Uppers : \A b : b \in waiting'[v] <=>
          b \in waiting[v] \/ (l = UP /\ ~ InWQ(a) /\ v = u /\ b = BlockOf[a])
    <3>1. waiting' = IF l = UP /\ ~ InWQ(a)
                       THEN [waiting EXCEPT ![u] = waiting[u] \cup {BlockOf[a]}] ELSE waiting
      BY <1>17 DEF add_pq
    <3>2. CASE l = UP /\ ~ InWQ(a)
      BY <3>1, <3>2, <1>0, <2>1
    <3>3. CASE ~ (l = UP /\ ~ InWQ(a))
      BY <3>1, <3>3
    <3> QED
      BY <3>2, <3>3
  <2>10. HeldOnce'
    BY <2>1, <2>6, <2>8, <2>9, <1>1 DEF HeldOnce
  <2> QED
    BY <2>1, <2>6, <2>7, <2>10, <1>1 DEF HeldInv
<1>18. ASSUME NEW b \in Blocks, LowerReturns(b)  PROVE HeldInv'
  <2>1. lower[b] > 0 /\ MSHR' = return_data(MSHR, b) /\ UNCHANGED <<RQ, PQ, waiting>>
    BY <1>18 DEF LowerReturns, queueVars
  <2>2. /\ SingleMiss(MSHR) /\ Ordered(MSHR) /\ (~ warmup_complete => NoneDelayed(MSHR))
        /\ Outstanding(MSHR, b)
    BY <1>0, <2>1 DEF MissesOK, Owed
  <2>3. PICK k \in DOMAIN MSHR : BlockOf[MSHR[k].address] = b /\ MSHR[k].event = NEVER
    BY <2>2 DEF Outstanding
  <2>4. PICK r : r = return_data(MSHR, b)
    OBVIOUS
  <2>5. /\ \A u, c : MissHolds(r, u, c) <=> MissHolds(MSHR, u, c)
        /\ PrefetchOwn(MSHR) => PrefetchOwn(r)
    BY <2>2, <2>3, <2>4, <1>0, ReturnKeeps
  <2>6. HeldOnce'
    BY <2>1, <2>4, <2>5, <1>1 DEF HeldOnce
  <2> QED
    BY <2>1, <2>4, <2>5, <2>6, <1>1 DEF HeldInv
<1>19. \/ UNCHANGED <<RQ, PQ, MSHR, waiting>> \/ Fill \/ StoreMiss \/ ReadHit \/ ReadMiss
       \/ ReadDone \/ PrefetchHit \/ PrefetchMiss \/ EndCycle \/ prefetcher_cycle_operate
       \/ \E u \in Uppers, a \in Addrs : add_rq(u, a)
       \/ \E u \in Prefetching, a \in Addrs, l \in {UP, HERE} : add_pq(u, a, l)
       \/ \E b \in Blocks : LowerReturns(b)
  BY DEF Next, Operate, vars, queueVars, StartCycle, FillDone, WriteHit, WriteMiss, WriteDone,
         add_wq, LowerWritesBack, CompleteWarmup
<1> QED
  BY <1>3, <1>4, <1>9, <1>10, <1>11, <1>12, <1>13, <1>14, <1>15, <1>16, <1>17, <1>18, <1>19

LEMMA InvHeld == CacheInv /\ HeldInv => DemandsHeld
<1> SUFFICES ASSUME CacheInv, HeldInv, NEW u \in Uppers, NEW a \in Addrs
             PROVE  \/ Cardinality(Holders(u, a)) = IF BlockOf[a] \in waiting[u] THEN 1 ELSE 0
                    \/ Holders(u, a) = {} /\ MayBeForgotten(u)
  BY DEF DemandsHeld
<1>1. PICK b \in Blocks : b = BlockOf[a]
  BY BlocksOf
<1>2. PICK R : R = {k \in Found(RQ, a) : u \in RQ[k].item.to_return}
  OBVIOUS
<1>3. PICK P : P = {k \in Found(PQ, a) : u \in PQ[k].item.to_return}
  OBVIOUS
<1>4. PICK M : M = {k \in Misses(MSHR, BlockOf[a]) : u \in MSHR[k].to_return}
  OBVIOUS
<1>5. Holders(u, a) =
        {<<"RQ", i>> : i \in R} \cup {<<"PQ", i>> : i \in P} \cup {<<"MSHR", i>> : i \in M}
  BY <1>2, <1>3, <1>4 DEF Holders
<1>6. (R # {} <=> QueueHolds(RQ, u, b)) /\ \A i, j \in R : i = j
  <2>1. SingleEntry(RQ)
    BY DEF HeldInv
  <2> QED
    BY <2>1, <1>1, <1>2 DEF Found, SameBlock, QueueHolds, Asks, SingleEntry
<1>7. (P # {} <=> QueueHolds(PQ, u, b)) /\ \A i, j \in P : i = j
  <2>1. SingleEntry(PQ)
    BY DEF HeldInv
  <2> QED
    BY <2>1, <1>1, <1>3 DEF Found, SameBlock, QueueHolds, Asks, SingleEntry
<1>8. (M # {} <=> MissHolds(MSHR, u, b)) /\ \A i, j \in M : i = j
  <2>1. SingleMiss(MSHR)
    BY DEF CacheInv, MissesOK
  <2> QED
    BY <2>1, <1>1, <1>4 DEF Misses, MissHolds, Asks, SingleMiss
<1>9. /\ QueueHolds(RQ, u, b) \/ QueueHolds(PQ, u, b) \/ MissHolds(MSHR, u, b) => b \in waiting[u]
      /\ b \in waiting[u] =>
           \/ QueueHolds(RQ, u, b) \/ QueueHolds(PQ, u, b) \/ MissHolds(MSHR, u, b)
           \/ MayBeForgotten(u)
      /\ ~ (QueueHolds(RQ, u, b) /\ QueueHolds(PQ, u, b))
      /\ ~ (QueueHolds(RQ, u, b) /\ MissHolds(MSHR, u, b))
      /\ ~ (QueueHolds(PQ, u, b) /\ MissHolds(MSHR, u, b))
  BY DEF HeldInv, HeldOnce
<1>10. /\ R # {} \/ P # {} \/ M # {} => b \in waiting[u]
       /\ b \in waiting[u] => R # {} \/ P # {} \/ M # {} \/ MayBeForgotten(u)
       /\ R = {} \/ P = {}
       /\ R = {} \/ M = {}
       /\ P = {} \/ M = {}
  BY <1>6, <1>7, <1>8, <1>9
<1>11. CASE b \notin waiting[u]
  <2>1. Holders(u, a) = {}
    BY <1>5, <1>10, <1>11
  <2> QED
    BY <2>1, <1>1, <1>11, FS_EmptySet
<1>12. CASE b \in waiting[u] /\ (R # {} \/ P # {} \/ M # {})
  <2>1. PICK x : Holders(u, a) = {x}
    <3>1. CASE R # {}
      <4>1. PICK k : R = {k} /\ P = {} /\ M = {}
        BY <3>1, <1>6, <1>10
      <4>2. Holders(u, a) = {<<"RQ", k>>}
        BY <4>1, <1>5
      <4> QED
        BY <4>2
    <3>2. CASE P # {}
      <4>1. PICK k : P = {k} /\ R = {} /\ M = {}
        BY <3>2, <1>7, <1>10
      <4>2. Holders(u, a) = {<<"PQ", k>>}
        BY <4>1, <1>5
      <4> QED
        BY <4>2
    <3>3. CASE M # {}
      <4>1. PICK k : M = {k} /\ R = {} /\ P = {}
        BY <3>3, <1>8, <1>10
      <4>2. Holders(u, a) = {<<"MSHR", k>>}
        BY <4>1, <1>5
      <4> QED
        BY <4>2
    <3> QED
      BY <3>1, <3>2, <3>3, <1>10, <1>12
  <2> QED
    BY <2>1, <1>1, <1>12, FS_Singleton
<1>13. CASE R = {} /\ P = {} /\ M = {} /\ MayBeForgotten(u)
  BY <1>5, <1>13
<1> QED
  BY <1>10, <1>11, <1>12, <1>13

(* Whatever the levels above ask, prefetch and write, no request is held    *)
(* twice or after its answer, and a level that does not prefetch never has  *)
(* a request dropped: neither add_rq, add_pq nor readlike_miss does.  Only  *)
(* a prefetch that a demand read or a store took over, which overwrites who *)
(* waited for it (readlike_miss), may be held by nothing.                   *)
THEOREM Held == Spec => []DemandsHeld
<1>1. Init => HeldInv
  <2> SUFFICES ASSUME Init  PROVE HeldInv
    OBVIOUS
  <2>1. RQ = <<>> /\ PQ = <<>> /\ MSHR = <<>> /\ waiting = [u \in Uppers |-> {}]
    BY DEF Init, ReadQueue!Init, PrefQueue!Init
  <2>2. DOMAIN RQ = {} /\ DOMAIN PQ = {} /\ DOMAIN MSHR = {}
    BY <2>1
  <2> QED
    BY <2>1, <2>2 DEF HeldInv, HeldOnce, SingleEntry, PrefetchOwn, QueueHolds, MissHolds
<1>2. CacheInv /\ HeldInv /\ [Next]_vars => HeldInv'
  BY HeldStep
<1> QED
  BY CacheInvariant, <1>1, <1>2, InvHeld, PTL DEF Spec
=============================================================================
