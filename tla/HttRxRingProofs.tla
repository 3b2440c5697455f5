-------------------------- MODULE HttRxRingProofs --------------------------
(***************************************************************************)
(* Proofs about the HTT receive ring, for every size of the ring, every    *)
(* fill level and any number of buffers.                                   *)
(*                                                                         *)
(* That one context refills at a time and that nothing runs after detach   *)
(* hold on any number of CPUs.  That every buffer is accounted for holds   *)
(* on one CPU and is not inductive alone: a refill must not lap the        *)
(* target, which follows from the exact count, and the count is exact      *)
(* because a buffer the target reports is always found in the hash table,  *)
(* which follows from the accounts.                                        *)
(***************************************************************************)
EXTENDS HttRxRing, FiniteSetTheorems, FunctionTheorems, WellFoundedInduction, TLAPS

-----------------------------------------------------------------------------
(* One context refills at a time *)

\* A context holds the reference from the decrement to the increment.
Inside == {"count", "fill", "fill_write", "publish", "inc"}
Held(c) == IF pc[c] \in Inside THEN 1 ELSE 0

\* refill_ref_cnt is one less for each context inside, and a context that
\* refills shares the reference only with one that found it taken.
RefillInv ==
    /\ pc \in [Contexts -> {"idle", "pop", "pop_write", "dec"} \cup Inside]
    /\ pc["timer"] \notin {"pop", "pop_write"}
    /\ refill_ref_cnt = 1 - Held("rx") - Held("timer")
    /\ \A c, d \in Contexts :
          pc[c] \in Inside \ {"inc"} /\ pc[d] \in Inside /\ c # d => pc[d] = "inc"

\* A step of one of the two contexts keeps the reference count.
LEMMA RefillStep ==
    ASSUME RefillInv, NEW c \in Contexts, Refill(c)
    PROVE  RefillInv'
<1> USE DEF RefillInv, Contexts, Inside, Held, Goto
<1>1. CASE Replenish(c)
  BY <1>1 DEF Replenish, MayRefill
<1>2. CASE FillRingCount(c)
  BY <1>2 DEF FillRingCount
<1>3. CASE FillOne(c)
  BY <1>3 DEF FillOne
<1>4. CASE FillWrite(c)
  BY <1>4 DEF FillWrite
<1>5. CASE AllocFails(c) \/ MapFails(c) \/ InsertFails(c) \/ FillEnds(c)
  BY <1>5 DEF AllocFails, MapFails, InsertFails, FillEnds
<1>6. CASE Publish(c)
  BY <1>6 DEF Publish
<1>7. CASE ReplenishEnds(c)
  BY <1>7 DEF ReplenishEnds
<1> QED
  BY <1>1, <1>2, <1>3, <1>4, <1>5, <1>6, <1>7 DEF Refill

\* Every step keeps the reference count.
LEMMA RefillInvariant == RefillInv /\ [Next]_vars => RefillInv'
<1> SUFFICES ASSUME RefillInv, [Next]_vars PROVE RefillInv'
  OBVIOUS
<1> USE DEF RefillInv, Contexts, Inside, Held, Goto
<1>1. CASE FwFetch \/ FwIndicate \/ DetachCancel \/ DetachSync \/ DetachFree
  BY <1>1 DEF FwFetch, FwIndicate, DetachCancel, DetachSync, DetachFree
<1>2. CASE RxIndication \/ PopRead
  BY <1>2 DEF RxIndication, PopRead
<1>3. CASE PopWrite
  <2>1. /\ pc["rx"] = "pop_write"
        /\ \E l \in {"idle", "dec", "pop"} : pc' = [pc EXCEPT !["rx"] = l]
        /\ refill_ref_cnt' = refill_ref_cnt
    BY <1>3 DEF PopWrite
  <2> QED
    BY <2>1
<1>4. CASE TimerFires
  BY <1>4 DEF TimerFires
<1>5. CASE \E c \in Contexts : Refill(c)
  BY <1>5, RefillStep
<1>6. CASE UNCHANGED vars
  BY <1>6 DEF vars
<1> QED
  BY <1>1, <1>2, <1>3, <1>4, <1>5, <1>6 DEF Next

LEMMA RefillAlways == Spec => []RefillInv
<1>1. Init => RefillInv
  BY DEF Init, RefillInv, Contexts, Inside, Held
<1> QED
  BY <1>1, RefillInvariant, PTL DEF Spec

\* Only one of tasklet and timer runs htt_rx_ring_fill_n at a time, on any number
\* of CPUs: refill_ref_cnt keeps the other out of htt_rx_msdu_buff_replenish.
THEOREM RefillerIsAlone == Spec => []SingleRefiller
<1>1. RefillInv => SingleRefiller
  BY DEF RefillInv, SingleRefiller, Filling, Contexts, Inside
<1> QED
  BY <1>1, RefillAlways, PTL

-----------------------------------------------------------------------------
(* Nothing runs after detach *)

\* The stages of htt_rx_detach take away the tasklet, then the timer, then the
\* buffers, and nothing brings one of them back.
DetachInv ==
    /\ stage \in {"up", "cancelled", "synced", "down", "bug"}
    /\ pc \in [Contexts -> {"idle", "pop", "pop_write", "dec"} \cup Inside]
    /\ stage \notin {"up", "bug"} => pc["rx"] = "idle"
    /\ stage \in {"synced", "down"} => ~armed /\ pc["timer"] = "idle"
    /\ stage = "down" => hash = {}

\* A context that refills is not one that detach has waited for.
LEMMA DetachRefillStep ==
    ASSUME DetachInv, NEW c \in Contexts, Refill(c)
    PROVE  DetachInv'
<1> USE DEF DetachInv, Contexts, Inside, Goto
<1>1. CASE Replenish(c) \/ ReplenishEnds(c) \/ FillRingCount(c)
  BY <1>1 DEF Replenish, ReplenishEnds, FillRingCount, ring
<1>2. CASE FillOne(c) \/ FillWrite(c) \/ Publish(c)
  BY <1>2 DEF FillOne, FillWrite, Publish, ring
<1>3. CASE AllocFails(c) \/ MapFails(c) \/ InsertFails(c) \/ FillEnds(c)
  BY <1>3 DEF AllocFails, MapFails, InsertFails, FillEnds, ring
<1> QED
  BY <1>1, <1>2, <1>3 DEF Refill

LEMMA DetachInvariant == DetachInv /\ [Next]_vars => DetachInv'
<1> SUFFICES ASSUME DetachInv, [Next]_vars PROVE DetachInv'
  OBVIOUS
<1> USE DEF DetachInv, Contexts, Inside, Goto
<1>1. CASE FwFetch \/ FwIndicate
  BY <1>1 DEF FwFetch, FwIndicate, ring
<1>2. CASE RxIndication \/ PopRead
  BY <1>2 DEF RxIndication, PopRead, ring
<1>3. CASE PopWrite
  <2>1. /\ pc["rx"] = "pop_write"
        /\ \E l \in {"idle", "dec", "pop"} : pc' = [pc EXCEPT !["rx"] = l]
        /\ stage' \in {stage, "bug"}
        /\ armed' = armed
    BY <1>3 DEF PopWrite
  <2> QED
    BY <2>1
<1>4. CASE TimerFires
  BY <1>4 DEF TimerFires, ring
<1>5. CASE \E c \in Contexts : Refill(c)
  BY <1>5, DetachRefillStep
<1>6. CASE DetachCancel \/ DetachSync \/ DetachFree
  BY <1>6 DEF DetachCancel, DetachSync, DetachFree, TimerIsOff, ring
<1>7. CASE UNCHANGED vars
  BY <1>7 DEF vars, ring
<1> QED
  BY <1>1, <1>2, <1>3, <1>4, <1>5, <1>6, <1>7 DEF Next

LEMMA DetachAlways == Spec => []DetachInv
<1>1. Init => DetachInv
  BY DEF Init, DetachInv, Contexts
<1> QED
  BY <1>1, DetachInvariant, PTL DEF Spec

\* Once htt_rx_detach has freed the ring and the hash table, neither the tasklet
\* nor the retry timer runs, and no timer is pending that would: cancelling and
\* freeing the timer in two steps is enough, although a refill in between starts
\* it again.
THEOREM DetachIsQuiet == Spec => []QuietAfterDetach
<1>1. DetachInv => QuietAfterDetach
  BY DEF DetachInv, QuietAfterDetach, Contexts
<1> QED
  BY <1>1, DetachAlways, PTL
-----------------------------------------------------------------------------
(* One CPU: every buffer is accounted for *)

Indices == 0..(Size - 1)

\* The way round the ring from one index to another.
Dist(from, to) == IF to >= from THEN to - from ELSE to - from + Size

Writing == \E c \in Contexts : pc[c] = "fill_write"

\* Where the host writes next.
End == IF Filling("rx") THEN idx["rx"]
       ELSE IF Filling("timer") THEN idx["timer"] ELSE alloc_idx

\* The slots of Unread, told by their distance from the target.
Ahead == {i \in Indices : Dist(target_idx, i) < Dist(target_idx, End)}
            \cup IF Writing THEN {End} ELSE {}

\* One context runs at a time, and the tasklet has a message while it takes
\* buffers out of it.
SerialOK ==
    /\ pc \in [Contexts -> {"idle", "pop", "pop_write", "dec"} \cup Inside]
    /\ pc["timer"] \notin {"pop", "pop_write"}
    /\ pc["rx"] = "idle" \/ pc["timer"] = "idle"
    /\ pc["rx"] \in {"pop", "pop_write"} => msg \in Inds
    /\ pc["rx"] \notin {"pop", "pop_write"} => msg = Idle

\* The count is exact, one short of exact in the middle of an increment.
CountOK ==
    /\ hash \subseteq Bufs
    /\ fill_cnt \in Int
    /\ num \in [Contexts -> Int] /\ reg \in [Contexts -> Int]
    /\ Cardinality(hash) = IF Writing THEN fill_cnt + 1 ELSE fill_cnt
    /\ Cardinality(hash) <= FillLevel
    /\ \A c \in Contexts : pc[c] \in {"pop_write", "fill_write"} => reg[c] = fill_cnt
    /\ \A c \in Contexts : pc[c] \in {"fill", "fill_write"} => num[c] = FillLevel - fill_cnt

\* Indices stay on the ring, and what the target may see is not beyond what
\* the host has written.
IndexOK ==
    /\ paddrs_ring \in [Indices -> Bufs \cup {NoBuf}]
    /\ alloc_idx \in Indices /\ target_idx \in Indices
    /\ idx \in [Contexts -> Indices]
    /\ Dist(target_idx, alloc_idx) <= Dist(target_idx, End)

\* No buffer is in two indications.
MsgsOK ==
    /\ inds \in Seq(Inds)
    /\ \A i, j \in DOMAIN inds : i # j => inds[i].bufs \cap inds[j].bufs = {}
    /\ \A i \in DOMAIN inds : inds[i].bufs \cap msg.bufs = {}

\* No buffer is in two places, and every buffer of the hash table is in one.
PlacesOK ==
    /\ \A i \in Ahead : paddrs_ring[i] \in hash \ (target \cup InFlight)
    /\ \A i, j \in Ahead : i # j => paddrs_ring[i] # paddrs_ring[j]
    /\ target \cap InFlight = {}
    /\ target \cup InFlight \subseteq hash
    /\ hash \subseteq {paddrs_ring[i] : i \in Ahead} \cup target \cup InFlight

RingInv ==
    ~smp /\ stage # "down" =>
        SerialOK /\ CountOK /\ IndexOK /\ MsgsOK /\ PlacesOK

-----------------------------------------------------------------------------
(* Numbers, indices and slots *)

\* Every nonempty set of natural numbers has a least element.
LEMMA Least ==
    ASSUME NEW T \in SUBSET Nat, T # {}
    PROVE  \E x \in T : \A y \in T : x <= y
<1> DEFINE U == {0..n : n \in T}
<1> DEFINE R == StrictSubsetOrdering(Nat)
<1>1. U \subseteq FiniteSubsetsOf(Nat)
  <2> SUFFICES ASSUME NEW n \in T PROVE 0..n \in FiniteSubsetsOf(Nat)
    OBVIOUS
  <2>1. IsFiniteSet(0..n)
    BY FS_Interval
  <2> QED
    BY <2>1 DEF FiniteSubsetsOf
<1>2. U # {}
  OBVIOUS
<1>3. \E u \in U : \A v \in U : ~(<<v, u>> \in R)
  <2>1. IsWellFoundedOn(R, FiniteSubsetsOf(Nat))
    BY FS_StrictSubsetOrderingWellFounded
  <2> HIDE DEF U, R
  <2> QED
    BY <1>1, <1>2, <2>1, WFMin
<1>4. PICK x \in T : \A v \in U : ~(<<v, 0..x>> \in R)
  BY <1>3
<1>5. ASSUME NEW y \in T, y < x PROVE FALSE
  <2>1. 0..y \in U /\ <<0..y, 0..x>> \in R
    <3>1. 0..y \subseteq Nat /\ 0..x \subseteq Nat /\ 0..y \subseteq 0..x
      BY <1>5
    <3>2. x \in 0..x /\ x \notin 0..y
      BY <1>5
    <3> QED
      BY <3>1, <3>2 DEF StrictSubsetOrdering
  <2> QED
    BY <2>1, <1>4
<1> QED
  BY <1>4, <1>5

\* The allocator hands out a buffer that is not in use.
LEMMA FreeBufIsFree ==
    ASSUME Bufs \ hash # {}
    PROVE  FreeBuf \in Bufs \ hash
<1>1. Bufs \ hash \in SUBSET Nat
  BY RingAssumption DEF Bufs
<1>2. \E b \in Bufs \ hash : \A b1 \in Bufs \ hash : b <= b1
  BY <1>1, Least
<1> QED
  BY <1>2 DEF FreeBuf

\* Indices that have run past an end of the ring by less than its size.
LEMMA Wrap ==
    /\ \A x \in 0..(Size - 1) : x % Size = x
    /\ \A x \in Size..(2 * Size - 1) : x % Size = x - Size
    /\ \A x \in (-Size)..(-1) : x % Size = x + Size
BY RingAssumption

NextIdx(i) == IF i + 1 = Size THEN 0 ELSE i + 1

LEMMA NextIndex == \A i \in Indices : (i + 1) % Size = NextIdx(i) /\ NextIdx(i) \in Indices
BY RingAssumption, Wrap DEF Indices, NextIdx

\* The slots between two indices are those nearer to the first than the second.
LEMMA SlotsAre ==
    ASSUME NEW f \in Indices, NEW t \in Indices
    PROVE  Slots(f, t) = {i \in Indices : Dist(f, i) < Dist(f, t)}
<1> USE RingAssumption DEF Indices, Dist
<1>1. (t - f) % Size = Dist(f, t) /\ Dist(f, t) \in Indices
  BY Wrap
<1>2. \A k \in Indices : (f + k) % Size = IF f + k < Size THEN f + k ELSE f + k - Size
  BY Wrap
<1>3. ASSUME NEW i \in Slots(f, t)
      PROVE  i \in Indices /\ Dist(f, i) < Dist(f, t)
  <2>1. PICK k \in 0..(Dist(f, t) - 1) : i = (f + k) % Size
    BY <1>1, <1>3 DEF Slots
  <2>2. k \in Indices
    BY <1>1, <2>1
  <2> QED
    BY <1>2, <2>1, <2>2
<1>4. ASSUME NEW i \in Indices, Dist(f, i) < Dist(f, t)
      PROVE  i \in Slots(f, t)
  <2>1. Dist(f, i) \in 0..(Dist(f, t) - 1) /\ Dist(f, i) \in Indices
    BY <1>1, <1>4
  <2>2. i = (f + Dist(f, i)) % Size
    BY <1>2, <2>1
  <2> HIDE DEF Dist
  <2> QED
    BY <1>1, <2>1, <2>2 DEF Slots
<1> HIDE DEF Dist
<1> QED
  BY <1>3, <1>4

\* Distances lie on the ring, and distinct slots are at distinct distances.
LEMMA DistProps ==
    ASSUME NEW f \in Indices, NEW i \in Indices
    PROVE  /\ Dist(f, i) \in Indices
           /\ Dist(f, i) = 0 <=> i = f
           /\ \A j \in Indices : Dist(f, i) = Dist(f, j) <=> i = j
           /\ i # f => Dist(NextIdx(f), i) = Dist(f, i) - 1
           /\ Dist(NextIdx(f), f) = Size - 1
           /\ NextIdx(i) # f => Dist(f, NextIdx(i)) = Dist(f, i) + 1
           /\ NextIdx(i) = f => Dist(f, i) = Size - 1
BY RingAssumption DEF Indices, Dist, NextIdx

\* With one context at a time, Unread is what Ahead says.
LEMMA UnreadIsAhead ==
    ASSUME SerialOK, IndexOK
    PROVE  Unread = Ahead /\ End \in Indices
<1>1. End \in Indices
  BY DEF End, IndexOK, Contexts, Indices
<1>2. (IF \E c \in Contexts : Filling(c)
       THEN idx[CHOOSE c \in Contexts : Filling(c)] ELSE alloc_idx) = End
  <2>1. \A c, d \in Contexts : Filling(c) /\ Filling(d) => c = d
    BY DEF SerialOK, Filling, Contexts
  <2>2. CASE \E c \in Contexts : Filling(c)
    <3>1. PICK c \in Contexts : Filling(c)
      BY <2>2
    <3>2. (CHOOSE d \in Contexts : Filling(d)) = c
      BY <2>1, <3>1
    <3>3. End = idx[c]
      BY <2>1, <3>1 DEF End, Contexts
    <3> QED
      BY <2>2, <3>2, <3>3
  <2>3. CASE ~ \E c \in Contexts : Filling(c)
    BY <2>3 DEF End, Contexts
  <2> QED
    BY <2>2, <2>3
<1>3. Slots(target_idx, End)
        = {i \in Indices : Dist(target_idx, i) < Dist(target_idx, End)}
  BY <1>1, SlotsAre DEF IndexOK, Indices
<1> QED
  BY <1>1, <1>2, <1>3 DEF Unread, Ahead, Writing

\* Every unread slot holds a buffer of its own: they are no more than the
\* buffers of the hash table, and the host cannot come round to the target.
LEMMA NoLap ==
    ASSUME CountOK, PlacesOK, IndexOK, End \in Indices
    PROVE  /\ IsFiniteSet(hash) /\ IsFiniteSet(Ahead) /\ Ahead \subseteq Indices
           /\ Cardinality(Ahead) <= Cardinality(hash)
           /\ Writing => NextIdx(End) # target_idx
<1>1. IsFiniteSet(hash)
  <2>1. IsFiniteSet(Bufs)
    BY RingAssumption, FS_Interval DEF Bufs
  <2> QED
    BY <2>1, FS_Subset DEF CountOK
<1>2. IsFiniteSet(Indices) /\ Cardinality(Indices) = Size
  BY RingAssumption, FS_Interval DEF Indices
<1>3. Ahead \subseteq Indices
  BY DEF Ahead, Indices
<1>4. IsFiniteSet(Ahead)
  BY <1>2, <1>3, FS_Subset
<1>5. Cardinality(Ahead) <= Cardinality(hash)
  <2> DEFINE f == [i \in Ahead |-> paddrs_ring[i]]
  <2>1. f \in Injection(Ahead, hash)
    BY DEF PlacesOK, Injection, IsInjective
  <2> QED
    BY <1>1, <2>1, FS_Injection
<1>6. ASSUME Writing, NextIdx(End) = target_idx PROVE FALSE
  <2>1. target_idx \in Indices
    BY DEF IndexOK, Indices
  <2>2. Dist(target_idx, End) = Size - 1
    BY <1>6, <2>1, DistProps
  <2>3. \A i \in Indices : Dist(target_idx, i) \in Indices /\
          (Dist(target_idx, i) = Dist(target_idx, End) => i = End)
    BY <2>1, DistProps
  <2>4. Indices \subseteq Ahead
    BY <1>6, <2>2, <2>3, RingAssumption DEF Ahead, Indices
  <2>5. Ahead = Indices
    BY <1>3, <2>4
  <2> QED
    BY <1>2, <1>5, <2>5, RingAssumption DEF CountOK
<1> QED
  BY <1>1, <1>3, <1>4, <1>5, <1>6

Accounts == SerialOK /\ CountOK /\ IndexOK /\ MsgsOK /\ PlacesOK

-----------------------------------------------------------------------------
(* The steps of the target *)

LEMMA FetchStep ==
    ASSUME Accounts, ~smp, FwFetch
    PROVE  Accounts'
<1> USE DEF Accounts
<1> DEFINE b == paddrs_ring[target_idx]
<1>1. End \in Indices /\ target_idx \in Indices /\ alloc_idx \in Indices
  BY UnreadIsAhead DEF IndexOK, Indices
<1>2. target_idx' = NextIdx(target_idx) /\ NextIdx(target_idx) \in Indices
  BY <1>1, NextIndex DEF FwFetch
<1>3. End' = End /\ Writing' = Writing
  BY DEF FwFetch, End, Writing, Filling, locals
<1>4. target_idx # alloc_idx /\ End # target_idx
  <2>1. Dist(target_idx, alloc_idx) # 0 /\ Dist(target_idx, alloc_idx) \in Nat
    BY <1>1, DistProps DEF FwFetch, Indices
  <2>2. Dist(target_idx, End) # 0 /\ Dist(target_idx, End) \in Nat
    BY <1>1, <2>1, DistProps DEF IndexOK, Indices
  <2> QED
    BY <1>1, <2>1, <2>2, DistProps
<1>5. \A i \in Indices : i # target_idx =>
         Dist(target_idx', i) = Dist(target_idx, i) - 1 /\ Dist(target_idx, i) \in Int
  BY <1>1, <1>2, DistProps DEF Indices
<1>6. Dist(target_idx', target_idx) = Size - 1 /\ \A i \in Indices : Dist(target_idx', i) < Size
  <2>1. Dist(NextIdx(target_idx), target_idx) = Size - 1
    BY <1>1, DistProps
  <2>2. \A i \in Indices : Dist(NextIdx(target_idx), i) \in Indices
    BY <1>2, DistProps
  <2>3. \A k \in Indices : k < Size
    BY RingAssumption DEF Indices
  <2> QED
    BY <1>2, <2>1, <2>2, <2>3
<1>7. target_idx \in Ahead /\ Ahead' = Ahead \ {target_idx}
  <2>1. target_idx \in Ahead
    <3>1. Dist(target_idx, target_idx) = 0 /\ Dist(target_idx, End) > 0
      BY <1>1, <1>4, DistProps DEF Indices
    <3> QED
      BY <1>1, <3>1 DEF Ahead, Indices
  <2>2. \A i \in Indices :
          (Dist(target_idx', i) < Dist(target_idx', End)) <=>
             (i # target_idx /\ Dist(target_idx, i) < Dist(target_idx, End))
    <3> SUFFICES ASSUME NEW i \in Indices PROVE
          (Dist(target_idx', i) < Dist(target_idx', End)) <=>
             (i # target_idx /\ Dist(target_idx, i) < Dist(target_idx, End))
      OBVIOUS
    <3>1. /\ Dist(target_idx', End) = Dist(target_idx, End) - 1
          /\ Dist(target_idx, End) \in Int /\ Dist(target_idx, End) < Size
      <4>1. Dist(target_idx, End) \in Indices
        BY <1>1, DistProps
      <4> QED
        BY <1>1, <1>4, <1>5, <4>1, RingAssumption DEF Indices
    <3> QED
      BY <3>1, <1>5, <1>6, RingAssumption
  <2>3. Ahead' = {i \in Indices : Dist(target_idx', i) < Dist(target_idx', End)}
                    \cup IF Writing THEN {End} ELSE {}
    BY <1>3 DEF Ahead, Indices, Dist
  <2>4. Ahead = {i \in Indices : Dist(target_idx, i) < Dist(target_idx, End)}
                    \cup IF Writing THEN {End} ELSE {}
    BY DEF Ahead, Indices
  <2> QED
    BY <1>4, <2>1, <2>2, <2>3, <2>4
<1>8. SerialOK' /\ CountOK' /\ MsgsOK'
  BY <1>3 DEF FwFetch, SerialOK, CountOK, MsgsOK, locals
<1>9. IndexOK'
  <2>1. Dist(target_idx', alloc_idx') <= Dist(target_idx', End')
    BY <1>1, <1>3, <1>4, <1>5 DEF FwFetch, IndexOK
  <2> QED
    BY <1>2, <2>1 DEF FwFetch, IndexOK, Indices, locals, Dist, NoBuf
<1>10. PlacesOK'
  <2>1. InFlight' = InFlight /\ hash' = hash /\ target' = target \cup {b}
        /\ \A i \in Ahead' : paddrs_ring'[i] = paddrs_ring[i]
    BY <1>7, NoLap, <1>1 DEF FwFetch, InFlight, IndexOK, Indices
  <2>2. b \in hash /\ b \notin InFlight
    BY <1>7 DEF PlacesOK
  <2>3. \A i \in Ahead' : paddrs_ring[i] # b
    BY <1>7 DEF PlacesOK
  <2>4. hash' \subseteq {paddrs_ring'[i] : i \in Ahead'} \cup target' \cup InFlight'
    BY <1>7, <2>1 DEF PlacesOK
  <2> QED
    BY <1>7, <2>1, <2>2, <2>3, <2>4 DEF PlacesOK
<1> QED
  BY <1>8, <1>9, <1>10

\* The slots change only with the two indices that bound them.
LEMMA AheadSame ==
    ASSUME target_idx' = target_idx, End' = End, Writing' = Writing
    PROVE  Ahead' = Ahead
BY DEF Ahead, Dist, Indices

\* What a new message holds is taken from the target.
LEMMA IndicateStep ==
    ASSUME Accounts, ~smp, FwIndicate
    PROVE  Accounts'
<1> USE DEF Accounts
<1>1. PICK bs \in SUBSET target \ {{}}, k \in Kinds :
         /\ inds' = Append(inds, [bufs |-> bs, kind |-> k])
         /\ target' = target \ bs
  BY DEF FwIndicate
<1>2. UNCHANGED <<smp, stage, paddrs_ring, alloc_idx, target_idx, hash, fill_cnt, msg, pc,
                  num, idx, reg>>
  BY DEF FwIndicate, ring, locals
<1>3. End' = End /\ Writing' = Writing /\ Ahead' = Ahead
  <2>1. End' = End /\ Writing' = Writing
    BY <1>2 DEF End, Writing, Filling
  <2> QED
    BY <1>2, <2>1, AheadSame
<1>4. [bufs |-> bs, kind |-> k] \in Inds
  BY DEF Inds, PlacesOK, CountOK
<1>5. /\ inds' \in Seq(Inds) /\ DOMAIN inds' = 1..(Len(inds) + 1)
      /\ DOMAIN inds = 1..Len(inds) /\ Len(inds) \in Nat
      /\ inds'[Len(inds) + 1].bufs = bs
      /\ \A i \in DOMAIN inds : inds'[i] = inds[i]
  BY <1>1, <1>4 DEF MsgsOK
<1>6. InFlight' = InFlight \cup bs
  BY <1>2, <1>5 DEF InFlight
<1>7. bs \cap InFlight = {} /\ bs \subseteq target
  BY DEF PlacesOK
<1>8. SerialOK' /\ CountOK' /\ IndexOK'
  BY <1>2, <1>3 DEF SerialOK, CountOK, IndexOK, Dist
<1>9. MsgsOK'
  <2>1. \A i \in DOMAIN inds : inds[i].bufs \cap bs = {}
    BY <1>7 DEF InFlight
  <2>2. msg.bufs \cap bs = {}
    BY <1>7 DEF InFlight
  <2>3. \A i \in DOMAIN inds' : i \in DOMAIN inds \/ i = Len(inds) + 1
    BY <1>5
  <2>4. ASSUME NEW i \in DOMAIN inds', NEW j \in DOMAIN inds', i # j
        PROVE  inds'[i].bufs \cap inds'[j].bufs = {}
    BY <1>5, <2>1, <2>3, <2>4 DEF MsgsOK
  <2>5. ASSUME NEW i \in DOMAIN inds'
        PROVE  inds'[i].bufs \cap msg'.bufs = {}
    BY <1>2, <1>5, <2>2, <2>3 DEF MsgsOK
  <2> QED
    BY <1>5, <2>4, <2>5 DEF MsgsOK
<1>10. PlacesOK'
  <2>1. target' \cup InFlight' = target \cup InFlight
    BY <1>1, <1>6, <1>7
  <2>2. target' \cap InFlight' = {}
    BY <1>1, <1>6, <1>7 DEF PlacesOK
  <2> QED
    BY <1>2, <1>3, <2>1, <2>2 DEF PlacesOK
<1> QED
  BY <1>8, <1>9, <1>10

-----------------------------------------------------------------------------
(* The steps of the indication handler *)

LEMMA IndicationStep ==
    ASSUME Accounts, ~smp, RxIndication
    PROVE  Accounts'
<1> USE DEF Accounts
<1>1. UNCHANGED <<smp, stage, paddrs_ring, alloc_idx, target_idx, hash, fill_cnt, target,
                  num, idx, reg>>
  BY DEF RxIndication, ring, locals
<1>2. /\ pc["rx"] = "idle" /\ pc["timer"] = "idle" /\ pc' = [pc EXCEPT !["rx"] = "pop"]
      /\ msg = Idle /\ msg' = inds[1] /\ inds # <<>> /\ inds' = Tail(inds)
  BY DEF RxIndication, Runs, Contexts, Goto, SerialOK, MsgsOK
<1>3. End' = End /\ Writing' = Writing /\ Ahead' = Ahead
  <2>1. End' = End /\ Writing' = Writing
    BY <1>1, <1>2 DEF End, Writing, Filling, SerialOK, Contexts
  <2> QED
    BY <1>1, <2>1, AheadSame
<1>4. /\ inds' \in Seq(Inds) /\ DOMAIN inds' = 1..(Len(inds) - 1)
      /\ DOMAIN inds = 1..Len(inds) /\ Len(inds) \in Nat \ {0}
      /\ \A i \in DOMAIN inds' : inds'[i] = inds[i + 1] /\ i + 1 \in DOMAIN inds
      /\ msg' \in Inds /\ 1 \in DOMAIN inds
  BY <1>2 DEF MsgsOK
<1>5. InFlight' = InFlight
  <2>1. msg.bufs = {}
    BY <1>2 DEF Idle
  <2>2. \A i \in DOMAIN inds : i = 1 \/ (i - 1 \in DOMAIN inds' /\ inds[i] = inds'[i - 1])
    BY <1>4
  <2>3. \A x : x \in InFlight <=> \E i \in DOMAIN inds : x \in inds[i].bufs
    BY <2>1 DEF InFlight
  <2>4. \A x : x \in InFlight' <=> (x \in inds[1].bufs \/ \E i \in DOMAIN inds' : x \in inds'[i].bufs)
    BY <1>2 DEF InFlight
  <2>5. \A x : x \in InFlight' <=> x \in InFlight
    BY <1>4, <2>2, <2>3, <2>4, ZenonT(30)
  <2> QED
    BY <2>5
<1>6. SerialOK' /\ IndexOK'
  BY <1>1, <1>2, <1>3, <1>4 DEF SerialOK, IndexOK, Dist, Contexts
<1>7. CountOK'
  BY <1>1, <1>2, <1>3 DEF CountOK, SerialOK, Contexts
<1>8. MsgsOK'
  <2>1. \A i, j \in DOMAIN inds' : i # j => inds'[i].bufs \cap inds'[j].bufs = {}
    BY <1>4 DEF MsgsOK
  <2>2. \A i \in DOMAIN inds' : inds'[i].bufs \cap msg'.bufs = {}
    BY <1>2, <1>4 DEF MsgsOK
  <2> QED
    BY <1>4, <2>1, <2>2 DEF MsgsOK
<1>9. PlacesOK'
  BY <1>1, <1>3, <1>5 DEF PlacesOK
<1> QED
  BY <1>6, <1>7, <1>8, <1>9

LEMMA PopReadStep ==
    ASSUME Accounts, ~smp, PopRead
    PROVE  Accounts'
<1> USE DEF Accounts
<1>1. UNCHANGED <<smp, stage, paddrs_ring, alloc_idx, target_idx, hash, fill_cnt, target,
                  inds, msg, num, idx>>
  BY DEF PopRead, ring, fw
<1>2. /\ pc["rx"] = "pop" /\ pc["timer"] = "idle" /\ pc' = [pc EXCEPT !["rx"] = "pop_write"]
      /\ reg' = [reg EXCEPT !["rx"] = fill_cnt]
  BY DEF PopRead, Runs, Contexts, Goto
<1>3. End' = End /\ Writing' = Writing /\ Ahead' = Ahead
  <2>1. End' = End /\ Writing' = Writing
    BY <1>1, <1>2 DEF End, Writing, Filling, SerialOK, Contexts
  <2> QED
    BY <1>1, <2>1, AheadSame
<1>4. InFlight' = InFlight
  BY <1>1 DEF InFlight
<1>5. SerialOK' /\ IndexOK' /\ MsgsOK' /\ PlacesOK'
  BY <1>1, <1>2, <1>3, <1>4 DEF SerialOK, IndexOK, MsgsOK, PlacesOK, Dist, Contexts
<1>6. CountOK'
  BY <1>1, <1>2, <1>3 DEF CountOK, SerialOK, Contexts
<1> QED
  BY <1>5, <1>6

\* A buffer the target reports is found in the hash table, so the message is not
\* given up half way and the count follows the table.
LEMMA PopWriteStep ==
    ASSUME Accounts, ~smp, PopWrite
    PROVE  Accounts'
<1> USE DEF Accounts
<1>1. UNCHANGED <<smp, paddrs_ring, alloc_idx, target_idx, target, inds, num, idx>>
  BY DEF PopWrite, fw
<1>2. /\ pc["rx"] = "pop_write" /\ pc["timer"] = "idle"
      /\ fill_cnt' = reg["rx"] - 1 /\ reg' = [reg EXCEPT !["rx"] = 0]
  BY DEF PopWrite, Runs, Contexts
<1>3. PICK b \in msg.bufs :
        /\ hash' = hash \ {b}
        /\ \/ /\ msg' = Idle /\ msg.bufs \ {b} = {}
              /\ \/ pc' = [pc EXCEPT !["rx"] = "idle"]
                 \/ pc' = [pc EXCEPT !["rx"] = "dec"]
           \/ /\ msg' = [msg EXCEPT !.bufs = msg.bufs \ {b}] /\ msg.bufs \ {b} # {}
              /\ pc' = [pc EXCEPT !["rx"] = "pop"]
  <2>1. msg.bufs \subseteq hash
    BY DEF PlacesOK, InFlight
  <2> HIDE DEF Idle
  <2> QED
    BY <2>1, Zenon DEF PopWrite, Goto
<1>4. End' = End /\ Writing' = Writing /\ Ahead' = Ahead
  <2>1. End' = End /\ Writing' = Writing
    BY <1>1, <1>2, <1>3 DEF End, Writing, Filling, SerialOK, Contexts
  <2> QED
    BY <1>1, <2>1, AheadSame
<1>5. msg \in Inds /\ b \in hash /\ b \in InFlight
  BY <1>2 DEF SerialOK, PlacesOK, InFlight
<1>6. msg'.bufs = msg.bufs \ {b}
  BY <1>3, <1>5 DEF Idle, Inds
<1>7. InFlight' = InFlight \ {b}
  <2>1. \A i \in DOMAIN inds : b \notin inds[i].bufs
    BY DEF MsgsOK
  <2> QED
    BY <1>1, <1>6, <2>1 DEF InFlight
<1>8. SerialOK'
  <2>1. msg.bufs \ {b} # {} => [msg EXCEPT !.bufs = msg.bufs \ {b}] \in Inds
    BY <1>5 DEF Inds
  <2> QED
    BY <1>2, <1>3, <2>1 DEF SerialOK, Contexts
<1>9. CountOK'
  <2>1. IsFiniteSet(hash)
    BY NoLap, UnreadIsAhead
  <2>2. Cardinality(hash \ {b}) = Cardinality(hash) - 1 /\ Cardinality(hash) \in Nat
    BY <1>5, <2>1, FS_RemoveElement, FS_CardinalityType
  <2>3. ~Writing /\ fill_cnt = Cardinality(hash) /\ reg["rx"] = fill_cnt
    BY <1>2 DEF CountOK, Writing, Contexts
  <2>4. Cardinality(hash') = fill_cnt' /\ Cardinality(hash') <= FillLevel /\ ~Writing'
    BY <1>2, <1>3, <1>4, <2>2, <2>3, RingAssumption DEF CountOK
  <2> QED
    BY <1>1, <1>2, <1>3, <2>3, <2>4 DEF CountOK, Contexts, SerialOK
<1>10. IndexOK'
  BY <1>1, <1>4 DEF IndexOK, Dist
<1>11. MsgsOK'
  BY <1>1, <1>6 DEF MsgsOK
<1>12. PlacesOK'
  <2>1. \A i \in Ahead : paddrs_ring[i] # b
    BY <1>5 DEF PlacesOK
  <2> QED
    BY <1>1, <1>3, <1>4, <1>5, <1>7, <2>1 DEF PlacesOK
<1> QED
  BY <1>8, <1>9, <1>10, <1>11, <1>12

-----------------------------------------------------------------------------
(* The steps of a refill *)

\* A step that touches neither the ring nor the contexts.
LEMMA StillStep ==
    ASSUME Accounts,
           UNCHANGED <<paddrs_ring, alloc_idx, target_idx, hash, fill_cnt, target, inds, msg, pc,
                       num, idx, reg>>
    PROVE  Accounts'
<1>1. End' = End /\ Writing' = Writing /\ InFlight' = InFlight
  BY DEF End, Writing, Filling, InFlight
<1>2. Ahead' = Ahead
  BY <1>1, AheadSame
<1> QED
  BY <1>1, <1>2 DEF Accounts, SerialOK, CountOK, IndexOK, MsgsOK, PlacesOK, Dist

\* Where a context that runs alone stands decides where the host writes.
LEMMA Alone ==
    ASSUME NEW c \in Contexts, SerialOK, ~smp, Runs(c),
           NEW l \in {"idle", "pop", "pop_write", "dec"} \cup Inside,
           pc' = [pc EXCEPT ![c] = l]
    PROVE  /\ \A d \in Contexts : d # c => pc[d] = "idle" /\ pc'[d] = "idle"
           /\ pc'[c] = l
           /\ Writing <=> pc[c] = "fill_write"
           /\ Writing' <=> l = "fill_write"
           /\ End = IF pc[c] \in {"fill", "fill_write", "publish"} THEN idx[c] ELSE alloc_idx
           /\ End' = IF l \in {"fill", "fill_write", "publish"} THEN idx'[c] ELSE alloc_idx'
           /\ msg' = msg /\ l \notin {"pop", "pop_write"} /\ pc[c] \notin {"pop", "pop_write"}
                 => SerialOK'
<1>1. \A d \in Contexts : d # c => pc[d] = "idle" /\ pc'[d] = "idle"
  BY DEF SerialOK, Runs
<1>2. pc'[c] = l
  BY DEF SerialOK
<1>3. (Writing <=> pc[c] = "fill_write") /\ (Writing' <=> l = "fill_write")
  BY <1>1, <1>2 DEF Writing
<1>4. End = IF pc[c] \in {"fill", "fill_write", "publish"} THEN idx[c] ELSE alloc_idx
  BY <1>1 DEF End, Filling, Contexts
<1>5. End' = IF l \in {"fill", "fill_write", "publish"} THEN idx'[c] ELSE alloc_idx'
  BY <1>1, <1>2 DEF End, Filling, Contexts
<1>6. ASSUME msg' = msg, l \notin {"pop", "pop_write"}, pc[c] \notin {"pop", "pop_write"}
      PROVE  SerialOK'
  BY <1>1, <1>2, <1>6 DEF SerialOK, Contexts, Inside
<1> QED
  BY <1>1, <1>2, <1>3, <1>4, <1>5, <1>6

\* A step that moves a context between labels and leaves the ring, the count and
\* the buffers alone.
LEMMA MoveStep ==
    ASSUME Accounts, ~smp, NEW c \in Contexts, Runs(c),
           NEW l \in ({"idle", "dec"} \cup Inside) \ {"fill_write"},
           pc' = [pc EXCEPT ![c] = l],
           pc[c] \notin {"pop", "pop_write", "fill_write"},
           UNCHANGED <<paddrs_ring, target_idx, hash, fill_cnt, target, inds, msg, reg>>,
           num' \in [Contexts -> Int], idx' \in [Contexts -> Indices], alloc_idx' \in Indices,
           End' = End,
           Dist(target_idx, alloc_idx') <= Dist(target_idx, End),
           l = "fill" => num'[c] = FillLevel - fill_cnt
    PROVE  Accounts'
<1> USE DEF Accounts
<1>1. /\ \A d \in Contexts : d # c => pc[d] = "idle" /\ pc'[d] = "idle"
      /\ pc'[c] = l /\ ~Writing /\ ~Writing' /\ SerialOK'
  BY Alone DEF Inside
<1>2. Ahead' = Ahead
  BY <1>1 DEF Ahead, Dist, Indices
<1>3. InFlight' = InFlight
  BY DEF InFlight
<1>4. CountOK'
  <2>1. \A d \in Contexts : pc'[d] \in {"fill", "fill_write"} => d = c /\ l = "fill"
    BY <1>1
  <2>2. \A d \in Contexts : pc'[d] \notin {"pop_write", "fill_write"}
    BY <1>1 DEF Inside
  <2> QED
    BY <1>1, <2>1, <2>2 DEF CountOK
<1>5. IndexOK'
  BY DEF IndexOK, Dist, Indices, NoBuf
<1>6. MsgsOK' /\ PlacesOK'
  BY <1>2, <1>3 DEF MsgsOK, PlacesOK
<1> QED
  BY <1>1, <1>4, <1>5, <1>6

LEMMA FillOneStep ==
    ASSUME Accounts, ~smp, NEW c \in Contexts, FillOne(c)
    PROVE  Accounts'
<1> USE DEF Accounts
<1> DEFINE b == FreeBuf
<1>1. UNCHANGED <<alloc_idx, target_idx, fill_cnt, target, inds, msg, num, idx>>
  BY DEF FillOne, fw
<1>2. /\ pc[c] = "fill" /\ Runs(c) /\ pc' = [pc EXCEPT ![c] = "fill_write"]
      /\ num[c] > 0 /\ hash' = hash \cup {b}
      /\ paddrs_ring' = [paddrs_ring EXCEPT ![idx[c]] = b]
      /\ reg' = [reg EXCEPT ![c] = fill_cnt]
  BY DEF FillOne, Goto
<1>3. b \in Bufs \ hash
  BY FreeBufIsFree DEF FillOne
<1> HIDE DEF b
<1>4. /\ \A d \in Contexts : d # c => pc[d] = "idle" /\ pc'[d] = "idle"
      /\ pc'[c] = "fill_write" /\ ~Writing /\ Writing' /\ SerialOK'
      /\ End = idx[c] /\ End' = End
  BY <1>1, <1>2, Alone DEF Inside
<1>5. End \in Indices /\ End \notin Ahead /\ Ahead' = Ahead \cup {End}
  <2>1. End \in Indices
    BY UnreadIsAhead
  <2>2. Dist(target_idx, End) \in Int
    BY <2>1, DistProps DEF IndexOK, Indices
  <2> QED
    BY <1>1, <1>4, <2>1, <2>2 DEF Ahead, Dist, Indices
<1>6. InFlight' = InFlight
  BY <1>1 DEF InFlight
<1>7. CountOK'
  <2>1. IsFiniteSet(hash)
    BY <1>5, NoLap
  <2>2. Cardinality(hash') = Cardinality(hash) + 1 /\ Cardinality(hash) \in Nat
    BY <1>2, <1>3, <2>1, FS_AddElement, FS_CardinalityType
  <2>3. Cardinality(hash) = fill_cnt /\ num[c] = FillLevel - fill_cnt
    BY <1>2, <1>4 DEF CountOK
  <2>4. Cardinality(hash') = fill_cnt' + 1 /\ Cardinality(hash') <= FillLevel
    BY <1>1, <1>2, <2>2, <2>3, RingAssumption
  <2>5. \A d \in Contexts : pc'[d] \in {"fill", "fill_write", "pop_write"} => d = c
    BY <1>4
  <2> QED
    BY <1>1, <1>2, <1>3, <1>4, <2>3, <2>4, <2>5 DEF CountOK
<1>8. IndexOK'
  BY <1>1, <1>2, <1>3, <1>4 DEF IndexOK, Dist, Indices
<1>9. MsgsOK'
  BY <1>1 DEF MsgsOK
<1>10. PlacesOK'
  <2>1. paddrs_ring'[End] = b /\ \A i \in Ahead : paddrs_ring'[i] = paddrs_ring[i]
    BY <1>2, <1>4, <1>5, NoLap DEF IndexOK
  <2>2. b \notin target /\ b \notin InFlight /\ \A i \in Ahead : paddrs_ring[i] # b
    BY <1>3 DEF PlacesOK
  <2>3. {paddrs_ring'[i] : i \in Ahead'} = {paddrs_ring[i] : i \in Ahead} \cup {b}
    BY <1>5, <2>1
  <2> QED
    BY <1>1, <1>2, <1>5, <1>6, <2>1, <2>2, <2>3 DEF PlacesOK
<1> QED
  BY <1>4, <1>7, <1>8, <1>9, <1>10

\* The host goes on to the next slot, which is never the target's.
LEMMA FillWriteStep ==
    ASSUME Accounts, ~smp, NEW c \in Contexts, FillWrite(c)
    PROVE  Accounts'
<1> USE DEF Accounts
<1>1. UNCHANGED <<paddrs_ring, alloc_idx, target_idx, hash, target, inds, msg>>
  BY DEF FillWrite, ring, fw
<1>2. /\ pc[c] = "fill_write" /\ Runs(c) /\ pc' = [pc EXCEPT ![c] = "fill"]
      /\ fill_cnt' = reg[c] + 1 /\ reg' = [reg EXCEPT ![c] = 0]
      /\ num' = [num EXCEPT ![c] = num[c] - 1]
      /\ idx' = [idx EXCEPT ![c] = (idx[c] + 1) % Size]
  BY DEF FillWrite, Goto, Counted
<1>3. /\ \A d \in Contexts : d # c => pc[d] = "idle" /\ pc'[d] = "idle"
      /\ pc'[c] = "fill" /\ Writing /\ ~Writing' /\ SerialOK'
      /\ End = idx[c] /\ End' = idx'[c]
  BY <1>1, <1>2, Alone DEF Inside
<1>4. /\ End \in Indices /\ target_idx \in Indices /\ alloc_idx \in Indices
      /\ End' = NextIdx(End) /\ End' \in Indices
  BY <1>2, <1>3, UnreadIsAhead, NextIndex DEF IndexOK
<1>5. End' # target_idx
  BY <1>3, <1>4, NoLap
<1>6. /\ Dist(target_idx, End') = Dist(target_idx, End) + 1
      /\ \A i \in Indices : Dist(target_idx, i) \in Int
             /\ (Dist(target_idx, i) = Dist(target_idx, End) <=> i = End)
  BY <1>4, <1>5, DistProps DEF Indices
<1>7. Ahead' = Ahead
  <2>1. Ahead' = {i \in Indices : Dist(target_idx, i) < Dist(target_idx, End')}
    BY <1>1, <1>3 DEF Ahead, Dist, Indices
  <2>2. Ahead = {i \in Indices : Dist(target_idx, i) < Dist(target_idx, End)} \cup {End}
    BY <1>3 DEF Ahead
  <2>3. ASSUME NEW i \in Indices
        PROVE  (Dist(target_idx, i) < Dist(target_idx, End'))
                  <=> (Dist(target_idx, i) < Dist(target_idx, End) \/ i = End)
    BY <1>4, <1>6
  <2> QED
    BY <1>4, <2>1, <2>2, <2>3
<1>8. InFlight' = InFlight
  BY <1>1 DEF InFlight
<1>9. CountOK'
  <2>1. reg[c] = fill_cnt /\ num[c] = FillLevel - fill_cnt /\ fill_cnt \in Int
        /\ Cardinality(hash) = fill_cnt + 1
    BY <1>2, <1>3 DEF CountOK
  <2>2. fill_cnt' = fill_cnt + 1 /\ num'[c] = FillLevel - fill_cnt'
    BY <1>2, <2>1, RingAssumption DEF CountOK
  <2>3. \A d \in Contexts : pc'[d] \in {"fill", "fill_write", "pop_write"} => d = c
    BY <1>3
  <2> QED
    BY <1>1, <1>2, <1>3, <2>1, <2>2, <2>3 DEF CountOK
<1>10. IndexOK'
  <2>1. Dist(target_idx, alloc_idx) <= Dist(target_idx, End')
    BY <1>4, <1>6 DEF IndexOK
  <2>2. idx' \in [Contexts -> Indices]
    BY <1>2, <1>3, <1>4 DEF IndexOK
  <2> QED
    BY <1>1, <2>1, <2>2 DEF IndexOK, Dist, Indices
<1>11. MsgsOK' /\ PlacesOK'
  BY <1>1, <1>7, <1>8 DEF MsgsOK, PlacesOK
<1> QED
  BY <1>3, <1>9, <1>10, <1>11

LEMMA RefillAccounts ==
    ASSUME Accounts, ~smp, NEW c \in Contexts, Refill(c)
    PROVE  Accounts'
<1>1. /\ num \in [Contexts -> Int] /\ idx \in [Contexts -> Indices] /\ alloc_idx \in Indices
      /\ Dist(target_idx, alloc_idx) <= Dist(target_idx, End)
      /\ End \in Indices /\ target_idx \in Indices /\ fill_cnt \in Int
      /\ SerialOK /\ FillLevel \in Int
  BY UnreadIsAhead, RingAssumption DEF Accounts, CountOK, IndexOK
<1>2. CASE FillOne(c)
  BY <1>2, FillOneStep
<1>3. CASE FillWrite(c)
  BY <1>3, FillWriteStep
<1>4. CASE Replenish(c)
  <2>1. PICK l \in {"count", "inc"} : pc' = [pc EXCEPT ![c] = l]
    BY <1>4 DEF Replenish, Goto
  <2>2. /\ pc[c] = "dec" /\ Runs(c)
        /\ UNCHANGED <<paddrs_ring, target_idx, hash, fill_cnt, target, inds, msg, reg,
                       num, idx, alloc_idx>>
    BY <1>4 DEF Replenish, ring, fw, locals
  <2>3. End' = End
    BY <1>1, <2>1, <2>2, Alone DEF Inside
  <2> QED
    BY <1>1, <2>1, <2>2, <2>3, MoveStep DEF Inside
<1>5. CASE ReplenishEnds(c)
  <2>1. /\ pc[c] = "inc" /\ Runs(c) /\ pc' = [pc EXCEPT ![c] = "idle"]
        /\ UNCHANGED <<paddrs_ring, target_idx, hash, fill_cnt, target, inds, msg, reg,
                       num, idx, alloc_idx>>
    BY <1>5 DEF ReplenishEnds, ring, fw, locals, Goto
  <2>2. End' = End
    BY <1>1, <2>1, Alone DEF Inside
  <2> QED
    BY <1>1, <2>1, <2>2, MoveStep DEF Inside
<1>6. CASE AllocFails(c) \/ MapFails(c) \/ FillEnds(c)
  <2>1. /\ pc[c] = "fill" /\ Runs(c) /\ pc' = [pc EXCEPT ![c] = "publish"]
        /\ UNCHANGED <<paddrs_ring, target_idx, hash, fill_cnt, target, inds, msg, reg,
                       num, idx, alloc_idx>>
    BY <1>6 DEF AllocFails, MapFails, FillEnds, ring, fw, locals, Goto
  <2>2. End' = End
    BY <1>1, <2>1, Alone DEF Inside
  <2> QED
    BY <1>1, <2>1, <2>2, MoveStep DEF Inside
<1>7. CASE FillRingCount(c)
  <2>1. /\ pc[c] = "count" /\ Runs(c) /\ pc' = [pc EXCEPT ![c] = "fill"]
        /\ UNCHANGED <<paddrs_ring, target_idx, hash, fill_cnt, target, inds, msg, reg,
                       alloc_idx>>
        /\ num' = [num EXCEPT ![c] = FillLevel - fill_cnt]
        /\ idx' = [idx EXCEPT ![c] = alloc_idx]
    BY <1>7 DEF FillRingCount, ring, fw, Goto
  <2>2. num' \in [Contexts -> Int] /\ idx' \in [Contexts -> Indices]
        /\ num'[c] = FillLevel - fill_cnt /\ idx'[c] = alloc_idx
    BY <1>1, <2>1
  <2>3. End' = End
    BY <1>1, <2>1, <2>2, Alone DEF Inside
  <2> QED
    BY <1>1, <2>1, <2>2, <2>3, MoveStep DEF Inside
<1>8. CASE Publish(c)
  <2>1. /\ pc[c] = "publish" /\ Runs(c) /\ pc' = [pc EXCEPT ![c] = "inc"]
        /\ UNCHANGED <<paddrs_ring, target_idx, hash, fill_cnt, target, inds, msg, reg>>
        /\ num' = [num EXCEPT ![c] = 0] /\ idx' = [idx EXCEPT ![c] = 0]
        /\ alloc_idx' = idx[c]
    BY <1>8 DEF Publish, fw, Goto
  <2>2. End' = End /\ alloc_idx' = End
    BY <1>1, <2>1, Alone DEF Inside
  <2>3. Dist(target_idx, alloc_idx') <= Dist(target_idx, End)
    BY <1>1, <2>2, DistProps DEF Indices
  <2>4. num' \in [Contexts -> Int] /\ idx' \in [Contexts -> Indices]
    BY <1>1, <2>1, RingAssumption DEF Indices
  <2> QED
    BY <1>1, <2>1, <2>2, <2>3, <2>4, MoveStep DEF Inside
<1>9. CASE InsertFails(c)
  BY <1>9, StillStep DEF InsertFails, ring, fw, locals
<1> QED
  BY <1>2, <1>3, <1>4, <1>5, <1>6, <1>7, <1>8, <1>9 DEF Refill

LEMMA TimerAccounts ==
    ASSUME Accounts, ~smp, TimerFires
    PROVE  Accounts'
<1>1. /\ num \in [Contexts -> Int] /\ idx \in [Contexts -> Indices] /\ alloc_idx \in Indices
      /\ Dist(target_idx, alloc_idx) <= Dist(target_idx, End) /\ SerialOK
  BY DEF Accounts, CountOK, IndexOK
<1>2. /\ pc["timer"] = "idle" /\ Runs("timer") /\ pc' = [pc EXCEPT !["timer"] = "dec"]
      /\ UNCHANGED <<paddrs_ring, target_idx, hash, fill_cnt, target, inds, msg, reg,
                     num, idx, alloc_idx>>
  BY DEF TimerFires, ring, fw, locals, Goto
<1>3. End' = End /\ "timer" \in Contexts
  BY <1>1, <1>2, Alone DEF Inside, Contexts
<1> QED
  BY <1>1, <1>2, <1>3, MoveStep DEF Inside

-----------------------------------------------------------------------------
\* An assertion that stops the host fails before detach is over.
LEMMA RingInvariant == RingInv /\ DetachInv /\ [Next]_vars => RingInv'
<1> SUFFICES ASSUME RingInv, DetachInv, [Next]_vars, ~smp', stage' # "down"
             PROVE  Accounts'
  BY DEF RingInv, Accounts
<1>1. ~smp /\ (stage # "down" \/ DetachFree)
  <2>1. CASE \E c \in Contexts : Refill(c)
    BY <2>1 DEF Refill, Replenish, FillRingCount, FillOne, FillWrite, AllocFails, MapFails,
                InsertFails, FillEnds, Publish, ReplenishEnds, DetachInv, Contexts
  <2>2. CASE FwFetch \/ FwIndicate \/ RxIndication \/ PopRead \/ PopWrite \/ TimerFires
    BY <2>2 DEF FwFetch, FwIndicate, RxIndication, PopRead, PopWrite, TimerFires, DetachInv
  <2>3. CASE DetachCancel \/ DetachSync \/ DetachFree \/ UNCHANGED vars
    BY <2>3 DEF DetachCancel, DetachSync, DetachFree, vars
  <2> QED
    BY <2>1, <2>2, <2>3 DEF Next
<1>2. ~DetachFree
  BY DEF DetachFree
<1>3. Accounts
  BY <1>1, <1>2 DEF RingInv, Accounts
<1>4. CASE DetachCancel \/ DetachSync \/ UNCHANGED vars
  <2>1. UNCHANGED <<paddrs_ring, alloc_idx, target_idx, hash, fill_cnt, target, inds, msg, pc,
                    num, idx, reg>>
    BY <1>4 DEF DetachCancel, DetachSync, vars, ring, fw, locals
  <2> QED
    BY <1>3, <2>1, StillStep
<1> QED
  BY <1>1, <1>2, <1>3, <1>4, FetchStep, IndicateStep, IndicationStep, PopReadStep,
     PopWriteStep, TimerAccounts, RefillAccounts DEF Next

LEMMA RingInit == Init => RingInv
<1> SUFFICES ASSUME Init PROVE Accounts
  BY DEF RingInv, Accounts
<1>1. PICK n \in 0..FillLevel :
        /\ paddrs_ring = [i \in Indices |-> IF i < n THEN i + 1 ELSE NoBuf]
        /\ alloc_idx = n /\ hash = 1..n /\ fill_cnt = n
  BY DEF Init, Indices
<1>2. /\ target_idx = 0 /\ target = {} /\ inds = <<>> /\ msg = Idle
      /\ pc = [c \in Contexts |-> "idle"]
      /\ num = [c \in Contexts |-> 0] /\ idx = [c \in Contexts |-> 0]
      /\ reg = [c \in Contexts |-> 0]
  BY DEF Init
<1>3. n \in Indices /\ 0 \in Indices /\ n \in Nat
  BY <1>1, RingAssumption DEF Indices
<1>4. End = n /\ ~Writing /\ InFlight = {}
  BY <1>1, <1>2 DEF End, Writing, Filling, InFlight, Idle, Contexts
<1>5. Ahead = 0..(n - 1)
  <2>1. \A i \in Indices : Dist(0, i) = i
    BY DEF Dist, Indices
  <2> QED
    BY <1>2, <1>3, <1>4, <2>1, RingAssumption DEF Ahead, Indices
<1>6. SerialOK
  BY <1>2 DEF SerialOK, Contexts, Inside
<1>7. CountOK
  <2>1. Cardinality(hash) = n
    BY <1>1, <1>3, FS_Interval
  <2> QED
    BY <1>1, <1>2, <1>3, <1>4, <2>1, RingAssumption DEF CountOK, Bufs, Contexts
<1>8. IndexOK
  BY <1>1, <1>2, <1>3, <1>4, RingAssumption DEF IndexOK, Bufs, Indices, Dist
<1>9. MsgsOK
  BY <1>2 DEF MsgsOK
<1>10. PlacesOK
  <2>1. \A i \in Ahead : paddrs_ring[i] = i + 1 /\ i + 1 \in hash
    BY <1>1, <1>3, <1>5, RingAssumption DEF Indices
  <2>2. \A b \in hash : b - 1 \in Ahead /\ paddrs_ring[b - 1] = b
    BY <1>1, <1>3, <1>5, <2>1
  <2>3. \A i, j \in Ahead : i # j => paddrs_ring[i] # paddrs_ring[j]
    BY <1>3, <1>5, <2>1
  <2> QED
    BY <1>2, <1>4, <2>1, <2>2, <2>3 DEF PlacesOK
<1> QED
  BY <1>6, <1>7, <1>8, <1>9, <1>10 DEF Accounts

\* On one CPU, whatever the sizes, refills and indications interleave with the
\* target so that the count is exact, at most fill_level buffers are out, and each
\* buffer of the hash table is in exactly one place: a slot the target has still
\* to read, the target, or an indication.
THEOREM RingAccounts == Spec => []BuffersAccounted
<1>1. RingInv => BuffersAccounted
  <2> SUFFICES ASSUME RingInv, ~smp, stage # "down"
               PROVE  /\ CountExact
                      /\ {paddrs_ring[i] : i \in Unread} \cup target \cup InFlight = hash
                      /\ Cardinality(Unread) + Cardinality(target) + Cardinality(InFlight)
                            = Cardinality(hash)
                      /\ Cardinality(hash) <= FillLevel
    BY DEF BuffersAccounted
  <2>1. SerialOK /\ CountOK /\ IndexOK /\ PlacesOK
    BY DEF RingInv
  <2>2. Unread = Ahead /\ End \in Indices
    BY <2>1, UnreadIsAhead
  <2>3. CountExact /\ Cardinality(hash) <= FillLevel
    BY <2>1 DEF CountExact, CountOK, Writing
  <2> DEFINE B == {paddrs_ring[i] : i \in Ahead}
             f == [i \in Ahead |-> paddrs_ring[i]]
  <2>4. /\ B \cup target \cup InFlight = hash
        /\ B \cap target = {} /\ B \cap InFlight = {} /\ target \cap InFlight = {}
    BY <2>1 DEF PlacesOK
  <2>5. IsFiniteSet(hash) /\ IsFiniteSet(Ahead)
    BY <2>1, <2>2, NoLap
  <2>6. Cardinality(B) = Cardinality(Ahead)
    <3>1. f \in Injection(Ahead, B)
      BY <2>1 DEF PlacesOK, Injection, IsInjective
    <3>2. f \in Surjection(Ahead, B)
      BY DEF Surjection
    <3> QED
      BY <2>5, <3>1, <3>2, FS_Surjection
  <2>7. IsFiniteSet(B) /\ IsFiniteSet(target) /\ IsFiniteSet(InFlight)
    BY <2>4, <2>5, FS_Subset
  <2> HIDE DEF B
  <2>8. IsFiniteSet(B \cup target)
        /\ Cardinality(B \cup target) = Cardinality(B) + Cardinality(target) - Cardinality({})
    BY <2>4, <2>7, FS_Union
  <2>9. (B \cup target) \cap InFlight = {}
    BY <2>4
  <2>10. Cardinality(hash)
           = Cardinality(B \cup target) + Cardinality(InFlight) - Cardinality({})
    BY <2>4, <2>7, <2>8, <2>9, FS_Union
  <2>11. Cardinality({}) = 0 /\ Cardinality(B) \in Nat /\ Cardinality(target) \in Nat
         /\ Cardinality(InFlight) \in Nat
    BY <2>7, FS_EmptySet, FS_CardinalityType
  <2>12. Cardinality(Ahead) + Cardinality(target) + Cardinality(InFlight) = Cardinality(hash)
    BY <2>6, <2>8, <2>10, <2>11
  <2> QED
    BY <2>2, <2>3, <2>4, <2>12 DEF B
<1> QED
  BY <1>1, RingInit, RingInvariant, DetachAlways, PTL DEF Spec
=============================================================================
