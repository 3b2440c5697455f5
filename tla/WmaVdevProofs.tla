--------------------------- MODULE WmaVdevProofs ---------------------------
(***************************************************************************)
(* Proofs about the requests of WMA to the target, for any number of       *)
(* requests, commands and mishaps.                                         *)
(*                                                                         *)
(* Each handler is first reduced to its outcomes (AddSelfTo, DetachTo,     *)
(* StopOver, ...).  The invariants then build on one another: QueueInv,    *)
(* the requests and their timers, shows that the request found is the      *)
(* request of the timer or of the answer; DialogInv, what the upper layers *)
(* wait for and the request or message that will answer it; LockInv, the   *)
(* pause and the locks; FwInv, the commands and answers of the target.     *)
(* Each holds as long as the mishaps that break it have not happened.      *)
(***************************************************************************)
EXTENDS WmaVdev, FiniteSetTheorems, WellFoundedInduction, TLAPS

-----------------------------------------------------------------------------
(* Queues *)

\* a comes before b in the queue s.
Precedes(s, a, b) == \E i, j \in 1..Len(s) : i < j /\ s[i] = a /\ s[j] = b

\* An entry of a queue is at one of its places.
LEMMA RangeIs ==
    ASSUME NEW S, NEW s \in Seq(S), NEW x
    PROVE  x \in Range(s) <=> \E i \in 1..Len(s) : s[i] = x
BY DEF Range

\* A queue to which an entry is appended.
LEMMA Appended ==
    ASSUME NEW S, NEW s \in Seq(S), NEW x \in S
    PROVE  /\ Append(s, x) \in Seq(S)
           /\ \A y : y \in Range(Append(s, x)) <=> y \in Range(s) \/ y = x
           /\ \A a, b : Precedes(Append(s, x), a, b)
                          <=> Precedes(s, a, b) \/ (a \in Range(s) /\ b = x)
<1> DEFINE t == Append(s, x)
<1>1. /\ t \in Seq(S) /\ Len(s) \in Nat /\ Len(t) = Len(s) + 1 /\ t[Len(s) + 1] = x
      /\ \A i \in 1..Len(s) : t[i] = s[i]
  OBVIOUS
<1> HIDE DEF t
<1>2. \A i \in 1..Len(t) : i \in 1..Len(s) \/ i = Len(s) + 1
  BY <1>1
<1>3. \A y : y \in Range(s) <=> \E i \in 1..Len(s) : s[i] = y
  BY RangeIs
<1>4. \A y : y \in Range(t) <=> \E i \in 1..Len(t) : t[i] = y
  BY <1>1, RangeIs
<1>5. \A y : y \in Range(t) <=> y \in Range(s) \/ y = x
  BY <1>1, <1>2, <1>3, <1>4
<1>6. ASSUME NEW a, NEW b
      PROVE  Precedes(t, a, b) <=> Precedes(s, a, b) \/ (a \in Range(s) /\ b = x)
  <2>1. ASSUME Precedes(t, a, b) PROVE Precedes(s, a, b) \/ (a \in Range(s) /\ b = x)
    <3>1. PICK i, j \in 1..Len(t) : i < j /\ t[i] = a /\ t[j] = b
      BY <2>1 DEF Precedes
    <3>2. i \in 1..Len(s) /\ s[i] = a
      BY <1>1, <1>2, <3>1
    <3>3. CASE j \in 1..Len(s)
      BY <1>1, <3>1, <3>2, <3>3 DEF Precedes
    <3>4. CASE j = Len(s) + 1
      BY <1>1, <1>3, <3>1, <3>2, <3>4
    <3> QED  BY <1>2, <3>3, <3>4
  <2>2. ASSUME Precedes(s, a, b) PROVE Precedes(t, a, b)
    <3>1. PICK i, j \in 1..Len(s) : i < j /\ s[i] = a /\ s[j] = b
      BY <2>2 DEF Precedes
    <3>2. i \in 1..Len(t) /\ j \in 1..Len(t)
      BY <1>1
    <3> QED  BY <1>1, <3>1, <3>2 DEF Precedes
  <2>3. ASSUME a \in Range(s), b = x PROVE Precedes(t, a, b)
    <3>1. PICK i \in 1..Len(s) : s[i] = a
      BY <1>3, <2>3
    <3>2. i \in 1..Len(t) /\ Len(s) + 1 \in 1..Len(t) /\ i < Len(s) + 1
      BY <1>1
    <3> QED  BY <1>1, <2>3, <3>1, <3>2 DEF Precedes
  <2> QED  BY <2>1, <2>2, <2>3
<1> QED  BY <1>1, <1>5, <1>6 DEF t

\* A queue from which the first entry is taken.
LEMMA Shortened ==
    ASSUME NEW S, NEW s \in Seq(S), s # <<>>
    PROVE  /\ Head(s) \in S /\ Tail(s) \in Seq(S)
           /\ \A y : y \in Range(s) <=> y = Head(s) \/ y \in Range(Tail(s))
           /\ \A a, b : Precedes(s, a, b)
                          <=> (a = Head(s) /\ b \in Range(Tail(s))) \/ Precedes(Tail(s), a, b)
<1> DEFINE t == Tail(s)
<1>1. /\ t \in Seq(S) /\ Len(t) \in Nat /\ Len(s) = Len(t) + 1 /\ s[1] = Head(s) /\ Head(s) \in S
      /\ \A i \in 1..Len(t) : t[i] = s[i + 1]
  OBVIOUS
<1> HIDE DEF t
<1>2. \A i \in 1..Len(s) : i = 1 \/ i - 1 \in 1..Len(t)
  BY <1>1
<1>2a. \A i \in 1..Len(s) : i # 1 => i - 1 \in 1..Len(t) /\ t[i - 1] = s[i]
  <2> SUFFICES ASSUME NEW i \in 1..Len(s), i # 1 PROVE i - 1 \in 1..Len(t) /\ t[i - 1] = s[i]
    OBVIOUS
  <2>1. i - 1 \in 1..Len(t) /\ (i - 1) + 1 = i
    BY <1>1
  <2> QED  BY <1>1, <2>1
<1>2b. 1 \in 1..Len(s) /\ \A i \in 1..Len(t) : i + 1 \in 1..Len(s)
  BY <1>1
<1>3. \A y : y \in Range(s) <=> \E i \in 1..Len(s) : s[i] = y
  BY RangeIs
<1>4. \A y : y \in Range(t) <=> \E i \in 1..Len(t) : t[i] = y
  BY <1>1, RangeIs
<1>5. \A y : y \in Range(s) <=> y = Head(s) \/ y \in Range(t)
  <2> SUFFICES ASSUME NEW y PROVE y \in Range(s) <=> y = Head(s) \/ y \in Range(t)
    OBVIOUS
  <2>1. ASSUME y \in Range(s) PROVE y = Head(s) \/ y \in Range(t)
    BY <1>1, <1>2a, <1>3, <1>4, <2>1
  <2>2. ASSUME y \in Range(t) PROVE y \in Range(s)
    BY <1>1, <1>2b, <1>3, <1>4, <2>2
  <2> QED  BY <1>1, <1>2b, <1>3, <2>1, <2>2
<1>6. ASSUME NEW a, NEW b
      PROVE  Precedes(s, a, b) <=> (a = Head(s) /\ b \in Range(t)) \/ Precedes(t, a, b)
  <2>1. ASSUME Precedes(s, a, b) PROVE (a = Head(s) /\ b \in Range(t)) \/ Precedes(t, a, b)
    <3>1. PICK i, j \in 1..Len(s) : i < j /\ s[i] = a /\ s[j] = b
      BY <2>1 DEF Precedes
    <3>2. j # 1 /\ j - 1 \in 1..Len(t) /\ t[j - 1] = b
      BY <1>1, <1>2a, <3>1
    <3>3. CASE i = 1
      BY <1>1, <1>4, <3>1, <3>2, <3>3
    <3>4. CASE i # 1
      <4>1. i - 1 \in 1..Len(t) /\ t[i - 1] = a /\ i - 1 < j - 1
        BY <1>1, <1>2a, <3>1, <3>4
      <4> QED  BY <3>2, <4>1 DEF Precedes
    <3> QED  BY <3>3, <3>4
  <2>2. ASSUME Precedes(t, a, b) PROVE Precedes(s, a, b)
    <3>1. PICK i, j \in 1..Len(t) : i < j /\ t[i] = a /\ t[j] = b
      BY <2>2 DEF Precedes
    <3>2. i + 1 \in 1..Len(s) /\ j + 1 \in 1..Len(s) /\ i + 1 < j + 1
      BY <1>1, <1>2b, <3>1
    <3> QED  BY <1>1, <3>1, <3>2 DEF Precedes
  <2>3. ASSUME a = Head(s), b \in Range(t) PROVE Precedes(s, a, b)
    <3>1. PICK j \in 1..Len(t) : t[j] = b
      BY <1>4, <2>3
    <3>2. 1 \in 1..Len(s) /\ j + 1 \in 1..Len(s) /\ 1 < j + 1
      BY <1>1, <1>2b
    <3> QED  BY <1>1, <2>3, <3>1, <3>2 DEF Precedes
  <2> QED  BY <2>1, <2>2, <2>3
<1> QED  BY <1>1, <1>5, <1>6 DEF t

\* An empty queue has no entries; entries have the type of the queue.
LEMMA Empty ==
    ASSUME NEW S, NEW s \in Seq(S)
    PROVE  /\ s = <<>> <=> \A y : y \notin Range(s)
           /\ s = <<>> => \A a, b : ~Precedes(s, a, b)
           /\ \A y : y \in Range(s) => y \in S
           /\ \A a, b : Precedes(s, a, b) => a \in Range(s) /\ b \in Range(s)
<1>1. \A y : y \in Range(s) <=> \E i \in 1..Len(s) : s[i] = y
  BY RangeIs
<1>2. s = <<>> <=> ~\E i \in 1..Len(s) : TRUE
  <2>1. Len(s) \in Nat /\ (s = <<>> <=> Len(s) = 0)
    OBVIOUS
  <2> QED  BY <2>1
<1>3. \A i \in 1..Len(s) : s[i] \in S
  OBVIOUS
<1>4. s = <<>> <=> \A y : y \notin Range(s)
  BY <1>1, <1>2
<1>5. \A a, b : Precedes(s, a, b) => a \in Range(s) /\ b \in Range(s)
  BY <1>1 DEF Precedes
<1> QED  BY <1>1, <1>3, <1>4, <1>5

\* A nonempty set of positions has a first one.
LEMMA FirstOf ==
    ASSUME NEW I \in SUBSET Nat, I # {}
    PROVE  Min(I) \in I /\ \A j \in I : Min(I) <= j
<1> DEFINE Below == {0..n : n \in I}
           R == StrictSubsetOrdering(Nat)
<1>1. Below \subseteq FiniteSubsetsOf(Nat)
  <2>1. \A n \in I : IsFiniteSet(0..n)
    BY FS_Interval
  <2> QED  BY <2>1 DEF FiniteSubsetsOf
<1>2. Below # {}
  OBVIOUS
<1>3. \E B \in Below : \A C \in Below : ~(<<C, B>> \in R)
  <2>1. IsWellFoundedOn(R, FiniteSubsetsOf(Nat))
    BY FS_StrictSubsetOrderingWellFounded
  <2> HIDE DEF Below, R
  <2> QED  BY <1>1, <1>2, <2>1, WFMin
<1>4. PICK i \in I : \A C \in Below : ~(<<C, 0..i>> \in R)
  BY <1>3
<1>5. ASSUME NEW j \in I, j < i PROVE FALSE
  <2>1. 0..j \subseteq Nat /\ 0..i \subseteq Nat /\ 0..j \subseteq 0..i
    BY <1>5
  <2>2. i \in 0..i /\ i \notin 0..j
    BY <1>5
  <2>3. <<0..j, 0..i>> \in R
    BY <2>1, <2>2 DEF StrictSubsetOrdering
  <2> QED  BY <1>4, <2>3
<1>6. \A j \in I : i <= j
  BY <1>5
<1> QED  BY <1>6 DEF Min

\* Two queues one after the other.
LEMMA Joined ==
    ASSUME NEW S, NEW s \in Seq(S), NEW t \in Seq(S)
    PROVE  /\ s \o t \in Seq(S) /\ Len(s \o t) = Len(s) + Len(t)
           /\ \A i \in 1..(Len(s) + Len(t)) :
                 (s \o t)[i] = IF i <= Len(s) THEN s[i] ELSE t[i - Len(s)]
<1>1. s \o t \in Seq(S) /\ Len(s \o t) = Len(s) + Len(t)
  OBVIOUS
<1>2. \A i \in 1..(Len(s) + Len(t)) :
         (s \o t)[i] = IF i <= Len(s) THEN s[i] ELSE t[i - Len(s)]
  OBVIOUS
<1> QED  BY <1>1, <1>2

\* An entry that occurs once is taken out of a queue.
LEMMA Removed ==
    ASSUME NEW S, NEW s \in Seq(S), NEW x, ~Precedes(s, x, x)
    PROVE  /\ RemoveFirst(s, x) \in Seq(S)
           /\ \A y : y \in Range(RemoveFirst(s, x)) <=> y \in Range(s) /\ y # x
           /\ \A a, b : Precedes(RemoveFirst(s, x), a, b)
                          <=> Precedes(s, a, b) /\ a # x /\ b # x
<1>1. CASE ~\E i \in 1..Len(s) : s[i] = x
  <2>1. RemoveFirst(s, x) = s
    BY <1>1 DEF RemoveFirst
  <2>2. x \notin Range(s)
    BY <1>1, RangeIs
  <2>3. \A a, b : Precedes(s, a, b) => a \in Range(s) /\ b \in Range(s)
    BY Empty
  <2> QED  BY <2>1, <2>2, <2>3
<1>2. CASE \E i \in 1..Len(s) : s[i] = x
  <2> DEFINE I == {i \in 1..Len(s) : s[i] = x}
             k == Min(I)
             a1 == SubSeq(s, 1, k - 1)
             b1 == SubSeq(s, k + 1, Len(s))
             t == RemoveFirst(s, x)
  <2>0. I \in SUBSET Nat /\ I # {}
    BY <1>2
  <2>1. k \in 1..Len(s) /\ s[k] = x
    BY <2>0, FirstOf
  <2>2. t = a1 \o b1
    BY <1>2 DEF RemoveFirst, RemoveAt, SelectInSeq
  <2> HIDE DEF k, t
  <2>3. /\ Len(s) \in Nat
        /\ a1 \in Seq(S) /\ Len(a1) = k - 1 /\ \A i \in 1..(k - 1) : a1[i] = s[i]
        /\ b1 \in Seq(S) /\ Len(b1) = Len(s) - k
        /\ \A i \in 1..(Len(s) - k) : b1[i] = s[k + i]
    BY <2>1
  <2> HIDE DEF a1, b1, I
  <2>4. /\ a1 \o b1 \in Seq(S) /\ Len(a1 \o b1) = Len(a1) + Len(b1)
        /\ \A i \in 1..(Len(a1) + Len(b1)) :
              (a1 \o b1)[i] = IF i <= Len(a1) THEN a1[i] ELSE b1[i - Len(a1)]
    BY <2>3, Joined
  <2>5. t \in Seq(S) /\ Len(t) = Len(s) - 1
    BY <2>1, <2>2, <2>3, <2>4
  <2>6. \A i \in 1..Len(t) : t[i] = IF i < k THEN s[i] ELSE s[i + 1]
    <3> SUFFICES ASSUME NEW i \in 1..Len(t) PROVE t[i] = IF i < k THEN s[i] ELSE s[i + 1]
      OBVIOUS
    <3>1. t[i] = IF i <= Len(a1) THEN a1[i] ELSE b1[i - Len(a1)]
      BY <2>1, <2>2, <2>3, <2>4, <2>5
    <3>2. CASE i < k
      BY <2>1, <2>3, <3>1, <3>2
    <3>3. CASE ~(i < k)
      <4>1. i - (k - 1) \in 1..(Len(s) - k) /\ k + (i - (k - 1)) = i + 1
        BY <2>1, <2>3, <2>5, <3>3
      <4>2. t[i] = b1[i - (k - 1)]
        BY <2>1, <2>3, <2>5, <3>1, <3>3
      <4> QED  BY <2>3, <3>3, <4>1, <4>2
    <3> QED  BY <3>2, <3>3
  <2> DEFINE At(i) == IF i < k THEN i ELSE i + 1
             Was(j) == IF j < k THEN j ELSE j - 1
  <2>7. \A i \in 1..Len(t) : At(i) \in 1..Len(s) /\ At(i) # k /\ t[i] = s[At(i)]
    BY <2>1, <2>3, <2>5, <2>6
  <2>8. \A j \in 1..Len(s) : j # k => Was(j) \in 1..Len(t) /\ t[Was(j)] = s[j]
    <3> SUFFICES ASSUME NEW j \in 1..Len(s), j # k PROVE Was(j) \in 1..Len(t) /\ t[Was(j)] = s[j]
      OBVIOUS
    <3>1. CASE j < k
      BY <2>1, <2>3, <2>5, <2>6, <3>1
    <3>2. CASE j > k
      <4>1. j - 1 \in 1..Len(t) /\ ~(j - 1 < k) /\ (j - 1) + 1 = j /\ ~(j < k)
        BY <2>1, <2>3, <2>5, <3>2
      <4> QED  BY <2>6, <4>1
    <3> QED  BY <2>1, <2>3, <3>1, <3>2
  <2>9. \A i, j \in 1..Len(t) : i < j => At(i) < At(j)
    BY <2>1, <2>5
  <2>10. \A i, j \in 1..Len(s) : i # k /\ j # k /\ i < j => Was(i) < Was(j)
    BY <2>1, <2>3
  <2>11. \A j \in 1..Len(s) : s[j] = x <=> j = k
    <3>1. \A j \in 1..Len(s) : s[j] = x /\ j # k => Precedes(s, x, x)
      BY <2>1, <2>3 DEF Precedes
    <3> QED  BY <2>1, <3>1
  <2> HIDE DEF At, Was
  <2>12. \A y : y \in Range(s) <=> \E i \in 1..Len(s) : s[i] = y
    BY RangeIs
  <2>13. \A y : y \in Range(t) <=> \E i \in 1..Len(t) : t[i] = y
    BY <2>5, RangeIs
  <2>14. ASSUME NEW y PROVE y \in Range(t) <=> y \in Range(s) /\ y # x
    <3>1. ASSUME y \in Range(t) PROVE y \in Range(s) /\ y # x
      <4>1. PICK i \in 1..Len(t) : t[i] = y
        BY <2>13, <3>1
      <4> QED  BY <2>7, <2>11, <2>12, <4>1
    <3>2. ASSUME y \in Range(s), y # x PROVE y \in Range(t)
      <4>1. PICK j \in 1..Len(s) : s[j] = y
        BY <2>12, <3>2
      <4> QED  BY <2>8, <2>11, <2>13, <3>2, <4>1
    <3> QED  BY <3>1, <3>2
  <2>15. ASSUME NEW a, NEW b PROVE Precedes(t, a, b) <=> Precedes(s, a, b) /\ a # x /\ b # x
    <3>1. ASSUME Precedes(t, a, b) PROVE Precedes(s, a, b) /\ a # x /\ b # x
      <4>1. PICK i, j \in 1..Len(t) : i < j /\ t[i] = a /\ t[j] = b
        BY <3>1 DEF Precedes
      <4>2. At(i) < At(j)
        BY <2>9, <4>1
      <4> QED  BY <2>7, <2>11, <4>1, <4>2 DEF Precedes
    <3>2. ASSUME Precedes(s, a, b), a # x, b # x PROVE Precedes(t, a, b)
      <4>1. PICK i, j \in 1..Len(s) : i < j /\ s[i] = a /\ s[j] = b
        BY <3>2 DEF Precedes
      <4>2. i # k /\ j # k
        BY <2>11, <3>2, <4>1
      <4>3. Was(i) < Was(j)
        BY <2>10, <4>1, <4>2
      <4> QED  BY <2>8, <4>1, <4>2, <4>3 DEF Precedes
    <3> QED  BY <3>1, <3>2
  <2> QED  BY <2>5, <2>14, <2>15 DEF t
<1> QED  BY <1>1, <1>2

\* wma_find_vdev_req finds the first request of a kind.
LEMMA FoundIs ==
    ASSUME NEW w \in WmaType, NEW k \in Kinds
    PROVE  /\ Found(w, k) = 0 <=> \A r \in Range(w.respq) : w.alloc[r].kind # k
           /\ Found(w, k) # 0 => /\ Found(w, k) \in Reqs
                                 /\ Found(w, k) \in Range(w.respq)
                                 /\ w.alloc[Found(w, k)].kind = k
           /\ \A r \in Range(w.respq) : w.alloc[r].kind = k /\ r # Found(w, k)
                                          => Precedes(w.respq, Found(w, k), r)
<1> DEFINE s == w.respq
           I == {i \in 1..Len(s) : w.alloc[s[i]].kind = k}
<1>1. s \in Seq(Reqs) /\ Reqs \subseteq Nat \ {0}
  BY WmaAssumption DEF WmaType, Reqs
<1>2. Found(w, k) = IF (IF I # {} THEN Min(I) ELSE 0) = 0 THEN 0
                    ELSE s[IF I # {} THEN Min(I) ELSE 0]
  BY DEF Found, SelectInSeq
<1> HIDE DEF s
<1>3. \A y : y \in Range(s) <=> \E i \in 1..Len(s) : s[i] = y
  BY <1>1, RangeIs
<1>4. CASE I = {}
  <2>1. Found(w, k) = 0
    BY <1>2, <1>4
  <2>2. \A r \in Range(s) : w.alloc[r].kind # k
    BY <1>3, <1>4
  <2> QED  BY <2>1, <2>2 DEF s
<1>5. CASE I # {}
  <2>1. I \in SUBSET Nat
    BY <1>1
  <2>2. Min(I) \in I /\ \A j \in I : Min(I) <= j
    BY <1>5, <2>1, FirstOf
  <2> DEFINE m == Min(I)
  <2>3. m \in 1..Len(s) /\ w.alloc[s[m]].kind = k /\ \A j \in 1..Len(s) : w.alloc[s[j]].kind = k => m <= j
    BY <2>2
  <2> HIDE DEF m
  <2>4. m # 0 /\ s[m] \in Reqs /\ s[m] # 0 /\ s[m] \in Range(s)
    BY <1>1, <1>3, <2>3
  <2>5. Found(w, k) = s[m]
    BY <1>2, <1>5, <2>4 DEF m
  <2>6. ASSUME NEW r \in Range(s), w.alloc[r].kind = k, r # s[m] PROVE Precedes(s, s[m], r)
    <3>1. PICK j \in 1..Len(s) : s[j] = r
      BY <1>3, <2>6
    <3>2. m < j
      BY <1>1, <2>3, <2>6, <3>1
    <3> QED  BY <2>3, <3>1, <3>2 DEF Precedes
  <2> QED  BY <2>3, <2>4, <2>5, <2>6 DEF s
<1> QED  BY <1>4, <1>5

-----------------------------------------------------------------------------
(* What the handlers do *)

Tidy(w) ==
    /\ \A r \in Range(w.respq) : w.alloc[r].kind # "none"
    /\ \A r \in Reqs : ~Precedes(w.respq, r, r)

\* From w to v the requests in gone are finished, those in new are made.
Requests(v, w, gone, new, k, own) ==
    /\ \A r \in new : w.alloc[r] = NoReq
    /\ \A r \in Reqs :
          v.alloc[r] = IF r \in new THEN [kind |-> k, own |-> own, running |-> TRUE]
                       ELSE IF r \in gone THEN NoReq ELSE w.alloc[r]
    /\ \A r \in Reqs :
          r \in Range(v.respq) <=> (r \in Range(w.respq) /\ r \notin gone) \/ r \in new
    /\ \A a, b \in Reqs :
          Precedes(v.respq, a, b)
             <=> /\ a \in Range(w.respq) /\ a \notin gone
                 /\ (Precedes(w.respq, a, b) /\ b \notin gone) \/ b \in new

\* An answer leaves the upper layers in one of their states.
LEMMA HearIs ==
    ASSUME NEW w \in WmaType, NEW rsp
    PROVE  /\ Reply(w, rsp) \in WmaType
           /\ Reply(w, rsp) = [w EXCEPT !.umac = Hear(rsp, w.umac)]
           /\ Hear(rsp, w.umac) \in [bss : {"none", "adding", "up", "deleting"},
                 self : {"gone", "adding", "here", "deleting"}, confused : BOOLEAN]
<1>1. Hear(rsp, w.umac) \in [bss : {"none", "adding", "up", "deleting"},
                 self : {"gone", "adding", "here", "deleting"}, confused : BOOLEAN]
  BY DEF Hear, WmaType
<1> QED  BY <1>1 DEF Reply, WmaType

\* From w to v the upper layers get an answer.
Told(v, w, rsp) ==
    /\ v \in WmaType /\ v.umac = Hear(rsp, w.umac)
    /\ v.alloc = w.alloc /\ v.respq = w.respq /\ v.cmds = w.cmds
    /\ v.handle = w.handle /\ v.bss_started = w.bss_started
    /\ v.del_staself_req = w.del_staself_req /\ v.paused = w.paused
    /\ v.peer = w.peer /\ v.locks = w.locks /\ v.stale = w.stale /\ v.crashed = w.crashed

\* A reply changes what the upper layers know and nothing else.
LEMMA RepliedIs ==
    ASSUME NEW w \in WmaType, NEW rsp
    PROVE  Told(Reply(w, rsp), w, rsp)
<1> DEFINE v == Reply(w, rsp)
<1>1. v \in WmaType /\ v = [w EXCEPT !.umac = Hear(rsp, w.umac)]
  BY HearIs
<1> HIDE DEF v
<1>2. Told(v, w, rsp)
  BY <1>1 DEF Told, WmaType
<1> QED  BY <1>2 DEF v

\* A command sent is the last on its way and nothing else changes.
LEMMA SendIs ==
    ASSUME NEW w \in WmaType, NEW c \in Kinds \cup {"create"}
    PROVE  Send(w, c) \in WmaType /\ Send(w, c) = [w EXCEPT !.cmds = Append(w.cmds, c)]
<1>1. w.cmds \in Seq(Kinds \cup {"create"})
  BY DEF WmaType
<1>2. Append(w.cmds, c) \in Seq(Kinds \cup {"create"})
  BY <1>1
<1> QED  BY <1>2 DEF Send, WmaType

\* The outcome of wma_fill_vdev_req.
FillTo(v, w, k, own) ==
    \E q \in Reqs :
       /\ w.alloc[q] = NoReq /\ q \notin Range(w.respq)
       /\ v \in WmaType
       /\ v = [w EXCEPT !.respq = Append(w.respq, q),
                 !.alloc = [w.alloc EXCEPT ![q] = [kind |-> k, own |-> own, running |-> TRUE]]]

\* wma_fill_vdev_req allocates a free request and queues it, its timer running.
LEMMA FillIs ==
    ASSUME NEW w \in WmaType, Tidy(w), Free(w) # {}, NEW k \in Kinds, NEW own \in BOOLEAN
    PROVE  FillTo(Fill(w, k, own), w, k, own)
<1> DEFINE q == CHOOSE q \in Free(w) : TRUE
<1>1. q \in Free(w)
  OBVIOUS
<1>2. q \in Reqs /\ w.alloc[q] = NoReq
  BY <1>1 DEF Free
<1>3. q \notin Range(w.respq)
  BY <1>2 DEF Tidy, NoReq
<1>4. Fill(w, k, own) = [w EXCEPT !.respq = Append(w.respq, q),
         !.alloc = [w.alloc EXCEPT ![q] = [kind |-> k, own |-> own, running |-> TRUE]]]
  BY DEF Fill, WmaType
<1> HIDE DEF q
<1>5. Fill(w, k, own) \in WmaType
  <2>1. w.respq \in Seq(Reqs)
    BY DEF WmaType
  <2>2. Append(w.respq, q) \in Seq(Reqs)
    BY <1>2, <2>1
  <2>3. [w.alloc EXCEPT ![q] = [kind |-> k, own |-> own, running |-> TRUE]]
          \in [Reqs -> [kind : Kinds, own : BOOLEAN, running : BOOLEAN] \cup {NoReq}]
    BY <1>2 DEF WmaType
  <2> QED  BY <1>4, <2>2, <2>3 DEF WmaType
<1> QED  BY <1>2, <1>3, <1>4, <1>5, Zenon DEF FillTo

\* Unlinking takes one request off the queue.
LEMMA UnlinkIs ==
    ASSUME NEW w \in WmaType, Tidy(w), NEW r \in Reqs
    PROVE  /\ Unlink(w, r) \in WmaType
           /\ Unlink(w, r) = [w EXCEPT !.respq = RemoveFirst(w.respq, r)]
           /\ Tidy(Unlink(w, r))
           /\ \A y : y \in Range(Unlink(w, r).respq) <=> y \in Range(w.respq) /\ y # r
           /\ \A a, b : Precedes(Unlink(w, r).respq, a, b)
                          <=> Precedes(w.respq, a, b) /\ a # r /\ b # r
<1>1. w.respq \in Seq(Reqs) /\ ~Precedes(w.respq, r, r)
  BY DEF WmaType, Tidy
<1> DEFINE s == RemoveFirst(w.respq, r)
<1>2. /\ s \in Seq(Reqs)
      /\ \A y : y \in Range(s) <=> y \in Range(w.respq) /\ y # r
      /\ \A a, b : Precedes(s, a, b) <=> Precedes(w.respq, a, b) /\ a # r /\ b # r
  BY <1>1, Removed
<1> HIDE DEF s
<1>3. Unlink(w, r) = [w EXCEPT !.respq = s]
  BY DEF Unlink, s, WmaType
<1>4. /\ Unlink(w, r) \in WmaType /\ Unlink(w, r).respq = s /\ Unlink(w, r).alloc = w.alloc
  BY <1>2, <1>3 DEF WmaType
<1>5. Tidy(Unlink(w, r))
  BY <1>2, <1>4 DEF Tidy
<1> QED  BY <1>2, <1>3, <1>4, <1>5 DEF s

\* Freeing a request leaves the queue alone.
LEMMA DestroyIs ==
    ASSUME NEW w \in WmaType, NEW r \in Reqs
    PROVE  /\ Destroy(w, r) \in WmaType
           /\ Destroy(w, r) = [w EXCEPT !.alloc = [w.alloc EXCEPT ![r] = NoReq]]
BY DEF Destroy, WmaType

\* A state in which a handler may make a request.
Ready(w, fail) ==
    /\ w \in WmaType /\ Tidy(w) /\ fail \in Failures
    /\ Free(w) = {} => fail = "memory"
    /\ ~sync => \A r \in Reqs : w.alloc[r].kind # "del"

\* The device is deleted at once.
Gone(v, w) ==
    /\ ~v.handle /\ ~v.bss_started /\ ~v.del_staself_req /\ ~v.paused
    /\ v.locks = w.locks /\ ~v.stale
    /\ v.umac = Hear("self_deleted", w.umac)
    /\ v.cmds = w.cmds \/ v.cmds = Append(w.cmds, "del")

\* The target is asked to delete the device, and will answer.
Deleting(v, w) ==
    /\ sync /\ v.del_staself_req /\ v.locks = {"wake", "runtime"} /\ v.stale = w.stale
    /\ v.handle = w.handle /\ v.bss_started = w.bss_started /\ v.paused = w.paused
    /\ v.umac = w.umac
    /\ v.cmds = Append(w.cmds, "del")

\* The end of the device: its interface is cleared and SME answered.
LEMMA ClearedIs ==
    ASSUME NEW w \in WmaType
    PROVE  LET v == Reply(Zeroed(w), "self_deleted") IN
              /\ v \in WmaType /\ Gone(v, w) /\ v.cmds = w.cmds
              /\ v.peer = w.peer /\ v.crashed = w.crashed
              /\ v.alloc = w.alloc /\ v.respq = w.respq
<1> DEFINE z == Zeroed(w)
           v == Reply(z, "self_deleted")
<1>1. /\ z \in WmaType /\ ~z.handle /\ ~z.bss_started /\ ~z.del_staself_req /\ ~z.paused
      /\ z.locks = w.locks /\ ~z.stale /\ z.umac = w.umac /\ z.cmds = w.cmds
      /\ z.peer = w.peer /\ z.crashed = w.crashed /\ z.alloc = w.alloc /\ z.respq = w.respq
  BY DEF Zeroed, WmaType
<1> HIDE DEF z
<1>2. Told(v, z, "self_deleted")
  BY <1>1, RepliedIs
<1> HIDE DEF v
<1> QED  BY <1>1, <1>2 DEF Gone, Told, v, z

\* Requests that are not touched.
LEMMA SameRequests ==
    ASSUME NEW w \in WmaType, NEW v \in WmaType, v.alloc = w.alloc, v.respq = w.respq,
           NEW k, NEW own
    PROVE  Requests(v, w, {}, {}, k, own)
<1>1. w.respq \in Seq(Reqs)
  BY DEF WmaType
<1>2. \A a, b : Precedes(w.respq, a, b) => a \in Range(w.respq)
  BY <1>1, Empty
<1> QED  BY <1>2 DEF Requests

\* A request that was filled is the only new one.
LEMMA FilledRequests ==
    ASSUME NEW w \in WmaType, NEW v \in WmaType, NEW q \in Reqs, w.alloc[q] = NoReq,
           NEW k \in Kinds, NEW own \in BOOLEAN, v.respq = Append(w.respq, q),
           v.alloc = [w.alloc EXCEPT ![q] = [kind |-> k, own |-> own, running |-> TRUE]]
    PROVE  Requests(v, w, {}, {q}, k, own)
<1>1. w.respq \in Seq(Reqs)
  BY DEF WmaType
<1>2. \A a, b : Precedes(w.respq, a, b) => a \in Range(w.respq)
  BY <1>1, Empty
<1>3. /\ \A y : y \in Range(v.respq) <=> y \in Range(w.respq) \/ y = q
      /\ \A a, b : Precedes(v.respq, a, b) <=> Precedes(w.respq, a, b) \/ (a \in Range(w.respq) /\ b = q)
  BY <1>1, Appended
<1>4. \A r \in Reqs : v.alloc[r] = IF r = q THEN [kind |-> k, own |-> own, running |-> TRUE]
                                   ELSE w.alloc[r]
  BY DEF WmaType
<1> QED  BY <1>2, <1>3, <1>4 DEF Requests

\* wma_handle_vdev_detach ends the device or asks the target to delete it.
LEMMA HandleDetachIs ==
    ASSUME NEW w, NEW fail, Ready(w, fail)
    PROVE  LET v == HandleDetach(w, fail) IN
              /\ v \in WmaType /\ v.peer = w.peer /\ v.crashed = w.crashed
              /\ \/ Gone(v, w) /\ Requests(v, w, {}, {}, "del", FALSE)
                 \/ Deleting(v, w) /\ \E q \in Reqs : Requests(v, w, {}, {q}, "del", FALSE)
<1> DEFINE v == HandleDetach(w, fail)
<1>0. w \in WmaType
  BY DEF Ready
<1>1. CASE fail = "send"
  <2>1. v = Reply(Zeroed(w), "self_deleted")
    BY <1>1 DEF HandleDetach
  <2>2. /\ v \in WmaType /\ Gone(v, w) /\ v.peer = w.peer /\ v.crashed = w.crashed
        /\ v.alloc = w.alloc /\ v.respq = w.respq
    BY <1>0, <2>1, ClearedIs
  <2> HIDE DEF v
  <2>3. Requests(v, w, {}, {}, "del", FALSE)
    BY <1>0, <2>2, SameRequests
  <2> QED  BY <2>2, <2>3 DEF v
<1>2. CASE fail = "memory"
  <2>1. v = Reply(Zeroed(Send(w, "del")), "self_deleted")
    BY <1>2 DEF HandleDetach
  <2> DEFINE u == Send(w, "del")
  <2>2. /\ u \in WmaType /\ u.cmds = Append(w.cmds, "del") /\ u.locks = w.locks /\ u.stale = w.stale
        /\ u.umac = w.umac /\ u.peer = w.peer /\ u.crashed = w.crashed
        /\ u.alloc = w.alloc /\ u.respq = w.respq
    BY <1>0, SendIs DEF WmaType, Kinds
  <2> HIDE DEF u
  <2>3. /\ v \in WmaType /\ Gone(v, u) /\ v.cmds = u.cmds
        /\ v.peer = u.peer /\ v.crashed = u.crashed
        /\ v.alloc = u.alloc /\ v.respq = u.respq
    BY <2>1, <2>2, ClearedIs DEF u
  <2> HIDE DEF v
  <2>4. Gone(v, w)
    BY <2>2, <2>3 DEF Gone
  <2>5. Requests(v, w, {}, {}, "del", FALSE)
    BY <1>0, <2>2, <2>3, SameRequests
  <2> QED  BY <2>2, <2>3, <2>4, <2>5 DEF v
<1>3. CASE fail = "none"
  <2> DEFINE w0 == [Send(w, "del") EXCEPT !.del_staself_req = TRUE]
             w1 == Fill(w0, "del", FALSE)
  <2>1. Free(w) # {}
    BY <1>3 DEF Ready
  <2>2. Send(w, "del") \in WmaType /\ Send(w, "del") = [w EXCEPT !.cmds = Append(w.cmds, "del")]
    BY <1>0, SendIs DEF Kinds
  <2>3. w0 \in WmaType /\ w0 = [w EXCEPT !.cmds = Append(w.cmds, "del"), !.del_staself_req = TRUE]
    BY <1>0, <2>2 DEF WmaType
  <2>4. w0.alloc = w.alloc /\ w0.respq = w.respq
    BY <1>0, <2>3 DEF WmaType
  <2>5. Tidy(w0) /\ Free(w0) # {}
    BY <2>1, <2>4 DEF Ready, Tidy, Free
  <2> HIDE DEF w0
  <2>6. PICK q \in Reqs :
              /\ w0.alloc[q] = NoReq /\ q \notin Range(w0.respq)
              /\ w1 \in WmaType
              /\ w1 = [w0 EXCEPT !.respq = Append(w0.respq, q),
                    !.alloc = [w0.alloc EXCEPT ![q] = [kind |-> "del", own |-> FALSE, running |-> TRUE]]]
    <3>1. FillTo(w1, w0, "del", FALSE)
      BY <2>3, <2>5, FillIs DEF Kinds
    <3> HIDE DEF w1
    <3> QED  BY <3>1, Zenon DEF FillTo
  <2> HIDE DEF w1
  <2>7. /\ w1.respq = Append(w.respq, q)
        /\ w1.alloc = [w.alloc EXCEPT ![q] = [kind |-> "del", own |-> FALSE, running |-> TRUE]]
        /\ w1.handle = w.handle /\ w1.bss_started = w.bss_started /\ w1.paused = w.paused
        /\ w1.umac = w.umac /\ w1.cmds = Append(w.cmds, "del") /\ w1.del_staself_req
        /\ w1.locks = w.locks /\ w1.stale = w.stale /\ w1.peer = w.peer /\ w1.crashed = w.crashed
    BY <1>0, <2>3, <2>4, <2>6 DEF WmaType
  <2>8. CASE sync
    <3>1. v = [w1 EXCEPT !.locks = {"wake", "runtime"}]
      BY <1>3, <2>8 DEF HandleDetach, w0, w1
    <3> HIDE DEF v
    <3>2. v \in WmaType /\ v.peer = w.peer /\ v.crashed = w.crashed /\ Deleting(v, w)
      BY <2>6, <2>7, <2>8, <3>1 DEF Deleting, WmaType
    <3>3. /\ v.respq = Append(w.respq, q)
          /\ v.alloc = [w.alloc EXCEPT ![q] = [kind |-> "del", own |-> FALSE, running |-> TRUE]]
      BY <2>6, <2>7, <3>1 DEF WmaType
    <3>4. Requests(v, w, {}, {q}, "del", FALSE)
      BY <1>0, <2>4, <2>6, <3>2, <3>3, FilledRequests DEF Kinds
    <3> QED  BY <3>2, <3>4 DEF v
  <2>9. CASE ~sync
    <3> DEFINE u == Release(w1, q)
    <3>1. v = DetachCallback(w1)
      BY <1>3, <2>9 DEF HandleDetach, w0, w1
    <3>2. w.respq \in Seq(Reqs)
      BY <1>0 DEF WmaType
    <3>3. /\ \A y : y \in Range(w1.respq) <=> y \in Range(w.respq) \/ y = q
          /\ \A a, b : Precedes(w1.respq, a, b) <=> Precedes(w.respq, a, b) \/ (a \in Range(w.respq) /\ b = q)
      BY <2>7, <3>2, Appended
    <3>4. \A r \in Reqs : w1.alloc[r].kind = "del" <=> r = q
      <4>1. \A r \in Reqs : w.alloc[r].kind # "del"
        BY <2>9 DEF Ready
      <4>2. \A r \in Reqs : r # q => w1.alloc[r] = w.alloc[r]
        BY <1>0, <2>7 DEF WmaType
      <4>3. w1.alloc[q].kind = "del"
        BY <1>0, <2>7 DEF WmaType
      <4> QED  BY <4>1, <4>2, <4>3
    <3>5. Found(w1, "del") = q
      <4>1. q \in Range(w1.respq) /\ w1.alloc[q].kind = "del"
        BY <3>3, <3>4
      <4>2. Found(w1, "del") # 0
        BY <2>6, <4>1, FoundIs DEF Kinds
      <4> QED  BY <2>6, <3>4, <4>2, FoundIs DEF Kinds
    <3>6. q # 0
      BY WmaAssumption DEF Reqs
    <3>7. v = Reply(Zeroed(u), "self_deleted")
      BY <2>7, <2>9, <3>1, <3>5, <3>6 DEF DetachCallback
    <3> HIDE DEF v
    <3>8. Tidy(w1)
      <4>1. \A r \in Range(w1.respq) : w1.alloc[r].kind # "none"
        <5>1. \A r \in Range(w1.respq) : r \in Reqs
          BY <3>2, <3>3, Empty
        <5>2. \A r \in Reqs : r # q => w1.alloc[r] = w.alloc[r]
          BY <1>0, <2>7 DEF WmaType
        <5> QED  BY <3>3, <3>4, <5>1, <5>2 DEF Ready, Tidy
      <4>2. \A r \in Reqs : ~Precedes(w1.respq, r, r)
        BY <2>4, <2>6, <3>3 DEF Ready, Tidy
      <4> QED  BY <4>1, <4>2 DEF Tidy
    <3>9. /\ Unlink(w1, q) \in WmaType
          /\ Unlink(w1, q) = [w1 EXCEPT !.respq = RemoveFirst(w1.respq, q)]
          /\ \A y : y \in Range(Unlink(w1, q).respq) <=> y \in Range(w1.respq) /\ y # q
          /\ \A a, b : Precedes(Unlink(w1, q).respq, a, b)
                         <=> Precedes(w1.respq, a, b) /\ a # q /\ b # q
      BY <2>6, <3>8, UnlinkIs
    <3> DEFINE x == Unlink(w1, q)
    <3>10. /\ x.alloc = w1.alloc /\ x.umac = w1.umac /\ x.cmds = w1.cmds /\ x.locks = w1.locks /\ x.stale = w1.stale
           /\ x.peer = w1.peer /\ x.crashed = w1.crashed
      BY <2>6, <3>9 DEF WmaType
    <3>11. u \in WmaType /\ u = [x EXCEPT !.alloc = [x.alloc EXCEPT ![q] = NoReq]]
      BY <3>9, DestroyIs DEF Release
    <3> HIDE DEF u, x
    <3>12. /\ u.alloc = [w1.alloc EXCEPT ![q] = NoReq] /\ u.respq = x.respq
           /\ u.umac = w.umac /\ u.cmds = Append(w.cmds, "del") /\ u.locks = w.locks /\ u.stale = w.stale
           /\ u.peer = w.peer /\ u.crashed = w.crashed
      BY <2>7, <3>9, <3>10, <3>11 DEF WmaType, x
    <3>13. /\ v \in WmaType /\ Gone(v, u) /\ v.cmds = u.cmds
           /\ v.peer = u.peer /\ v.crashed = u.crashed
           /\ v.alloc = u.alloc /\ v.respq = u.respq
      BY <3>7, <3>11, ClearedIs
    <3>14. Gone(v, w) /\ v.peer = w.peer /\ v.crashed = w.crashed
      BY <3>12, <3>13 DEF Gone
    <3>15. \A r \in Reqs : v.alloc[r] = w.alloc[r]
      BY <1>0, <2>4, <2>6, <2>7, <3>12, <3>13 DEF WmaType
    <3>16. \A a, b : Precedes(w.respq, a, b) => a \in Range(w.respq) /\ b \in Range(w.respq)
      BY <3>2, Empty
    <3>17. /\ \A y : y \in Range(v.respq) <=> y \in Range(w1.respq) /\ y # q
           /\ \A a, b : Precedes(v.respq, a, b) <=> Precedes(w1.respq, a, b) /\ a # q /\ b # q
      BY <3>9, <3>12, <3>13 DEF x
    <3>17a. q \notin Range(w.respq)
      BY <2>4, <2>6
    <3>18. /\ \A y : y \in Range(v.respq) <=> y \in Range(w.respq)
           /\ \A a, b : Precedes(v.respq, a, b) <=> Precedes(w.respq, a, b)
      BY <3>3, <3>16, <3>17, <3>17a, Zenon
    <3>19. Requests(v, w, {}, {}, "del", FALSE)
      BY <3>15, <3>16, <3>18 DEF Requests
    <3> QED  BY <3>13, <3>14, <3>19 DEF v
  <2> QED  BY <2>8, <2>9
<1> QED  BY <1>1, <1>2, <1>3 DEF Ready, Failures

\* The outcomes of wma_vdev_detach.
DetachTo(v, w) ==
    /\ v \in WmaType /\ v.peer = w.peer /\ v.crashed = w.crashed
    /\ \/ /\ w.bss_started /\ v = [w EXCEPT !.del_staself_req = TRUE]
       \/ ~w.bss_started /\ ~w.handle /\ v = w
       \/ /\ ~w.bss_started /\ w.handle
          /\ \/ Gone(v, w) /\ Requests(v, w, {}, {}, "del", FALSE)
             \/ Deleting(v, w) /\ \E q \in Reqs : Requests(v, w, {}, {q}, "del", FALSE)

\* wma_vdev_detach has one of these outcomes.
LEMMA DetachIs ==
    ASSUME NEW w, NEW fail, Ready(w, fail)
    PROVE  DetachTo(Detach(w, fail), w)
<1> USE DEF DetachTo
<1> DEFINE v == Detach(w, fail)
<1>0. w \in WmaType
  BY DEF Ready
<1>1. CASE w.bss_started
  <2>1. v = [w EXCEPT !.del_staself_req = TRUE]
    BY <1>1 DEF Detach
  <2>2. v \in WmaType /\ v.peer = w.peer /\ v.crashed = w.crashed
    BY <1>0, <2>1 DEF WmaType
  <2> QED  BY <1>1, <2>1, <2>2
<1>2. CASE ~w.bss_started /\ ~w.handle
  <2>1. v = w
    BY <1>2 DEF Detach
  <2> QED  BY <1>0, <1>2, <2>1
<1>3. CASE ~w.bss_started /\ w.handle
  <2>1. v = HandleDetach(w, fail)
    BY <1>3 DEF Detach
  <2> HIDE DEF v
  <2>2. /\ v \in WmaType /\ v.peer = w.peer /\ v.crashed = w.crashed
        /\ \/ Gone(v, w) /\ Requests(v, w, {}, {}, "del", FALSE)
           \/ Deleting(v, w) /\ \E q \in Reqs : Requests(v, w, {}, {q}, "del", FALSE)
    BY <2>1, HandleDetachIs
  <2> QED  BY <1>3, <2>2 DEF v
<1> QED  BY <1>0, <1>1, <1>2, <1>3 DEF WmaType

\* The BSS is down, w2 is the state before a deletion that was put off.
Down(w2, w, answer) ==
    /\ w2 \in WmaType
    /\ ~w2.peer /\ ~w2.paused /\ ~w2.bss_started
    /\ w2.handle = w.handle /\ w2.del_staself_req = w.del_staself_req /\ w2.locks = w.locks
    /\ ~w2.stale /\ (w2.crashed <=> w.crashed \/ w.stale)
    /\ w2.cmds = w.cmds /\ w2.alloc = w.alloc /\ w2.respq = w.respq
    /\ w2.umac = IF answer THEN Hear("bss_deleted", w.umac) ELSE w.umac

\* The outcomes of StopDone.
StopDoneTo(v, w, answer) ==
    \E w2 :
       /\ Down(w2, w, answer)
       /\ v \in WmaType /\ ~v.peer /\ v.crashed = w2.crashed
       /\ \/ ~(w.del_staself_req /\ w.handle) /\ v = w2
          \/ /\ w.del_staself_req /\ w.handle
             /\ \/ Gone(v, w2) /\ Requests(v, w2, {}, {}, "del", FALSE)
                \/ Deleting(v, w2) /\ \E q \in Reqs : Requests(v, w2, {}, {q}, "del", FALSE)

\* What the answer and the timeout of a stop do, before the request is freed.
LEMMA StopDoneIs ==
    ASSUME NEW w, NEW fail, Ready(w, fail), NEW answer \in BOOLEAN
    PROVE  StopDoneTo(StopDone(w, answer, fail), w, answer)
<1> DEFINE v == StopDone(w, answer, fail)
           b  == wma_remove_peer(w)
           c  == b.crashed \/ w.stale
           w1 == [b EXCEPT !.paused = FALSE, !.bss_started = FALSE, !.crashed = c, !.stale = FALSE]
           w2 == IF answer THEN Reply(w1, "bss_deleted") ELSE w1
<1>0. w \in WmaType
  BY DEF Ready
<1>1. v = IF w.del_staself_req THEN Detach(w2, fail) ELSE w2
  BY DEF StopDone
<1>2a. /\ b \in WmaType /\ ~b.peer /\ b.handle = w.handle /\ b.del_staself_req = w.del_staself_req
       /\ b.locks = w.locks /\ b.crashed = w.crashed /\ b.cmds = w.cmds /\ b.alloc = w.alloc
       /\ b.respq = w.respq /\ b.umac = w.umac /\ c \in BOOLEAN
  BY <1>0 DEF wma_remove_peer, WmaType
<1>2b. c <=> w.crashed \/ w.stale
  BY <1>2a
<1> HIDE DEF b, c
<1>2. /\ w1 \in WmaType /\ Down(w1, w, FALSE)
  BY <1>0, <1>2a, <1>2b DEF Down, WmaType
<1> HIDE DEF w1
<1>3. Down(w2, w, answer)
  <2>1. CASE answer
    <3>1. Told(w2, w1, "bss_deleted")
      BY <1>2, <2>1, RepliedIs
    <3> HIDE DEF w2
    <3> QED  BY <1>2, <2>1, <3>1 DEF Down, Told
  <2>2. CASE ~answer
    BY <1>2, <2>2 DEF Down
  <2> QED  BY <2>1, <2>2
<1> HIDE DEF w2
<1>4. Ready(w2, fail)
  BY <1>3 DEF Ready, Down, Tidy, Free
<1>5. CASE w.del_staself_req
  <2>1. v = Detach(w2, fail)
    BY <1>1, <1>5
  <2> HIDE DEF v
  <2>2. /\ v \in WmaType /\ v.peer = w2.peer /\ v.crashed = w2.crashed
        /\ \/ w2.bss_started
           \/ ~w2.bss_started /\ ~w2.handle /\ v = w2
           \/ /\ ~w2.bss_started /\ w2.handle
              /\ \/ Gone(v, w2) /\ Requests(v, w2, {}, {}, "del", FALSE)
                 \/ Deleting(v, w2) /\ \E q \in Reqs : Requests(v, w2, {}, {q}, "del", FALSE)
    BY <1>4, <2>1, DetachIs DEF DetachTo
  <2>3. /\ ~w2.bss_started /\ w2.handle = w.handle /\ ~w2.peer
    BY <1>3 DEF Down
  <2>4. /\ v \in WmaType /\ ~v.peer /\ v.crashed = w2.crashed
        /\ \/ ~w.handle /\ v = w2
           \/ /\ w.handle
              /\ \/ Gone(v, w2) /\ Requests(v, w2, {}, {}, "del", FALSE)
                 \/ Deleting(v, w2) /\ \E q \in Reqs : Requests(v, w2, {}, {q}, "del", FALSE)
    BY <2>2, <2>3
  <2>5. StopDoneTo(v, w, answer)
    BY <1>3, <1>5, <2>4 DEF StopDoneTo
  <2> QED  BY <2>5 DEF v
<1>6. CASE ~w.del_staself_req
  <2>1. v = w2
    BY <1>1, <1>6
  <2> HIDE DEF v
  <2>2. v \in WmaType /\ ~v.peer /\ v.crashed = w2.crashed
    BY <1>3, <2>1 DEF Down
  <2>3. StopDoneTo(v, w, answer)
    BY <1>3, <1>6, <2>1, <2>2 DEF StopDoneTo
  <2> QED  BY <2>3 DEF v
<1> QED  BY <1>5, <1>6

\* A handler may still fill a request after it has unlinked one.
LEMMA ReadyUnlinked ==
    ASSUME NEW w, NEW fail, Ready(w, fail), NEW r \in Reqs
    PROVE  Ready(Unlink(w, r), fail) /\ Unlink(w, r).alloc = w.alloc
<1> DEFINE x == Unlink(w, r)
<1>1. x \in WmaType /\ Tidy(x) /\ x = [w EXCEPT !.respq = RemoveFirst(w.respq, r)]
  BY UnlinkIs DEF Ready
<1>2. x.alloc = w.alloc
  BY <1>1 DEF Ready, WmaType
<1> HIDE DEF x
<1>3. Free(x) = Free(w)
  BY <1>2 DEF Free
<1>4. Ready(x, fail)
  BY <1>1, <1>2, <1>3 DEF Ready
<1> QED  BY <1>2, <1>4 DEF x

Others(v, u) ==
    /\ v.handle = u.handle /\ v.bss_started = u.bss_started
    /\ v.del_staself_req = u.del_staself_req /\ v.paused = u.paused /\ v.peer = u.peer
    /\ v.locks = u.locks /\ v.stale = u.stale /\ v.crashed = u.crashed /\ v.cmds = u.cmds /\ v.umac = u.umac

\* A request is unlinked before its handler does its work and freed after it.
LEMMA FinishedIs ==
    ASSUME NEW w \in WmaType, Tidy(w), NEW r \in Range(w.respq), r \in Reqs,
           NEW u \in WmaType, NEW new \in SUBSET Reqs, NEW k, NEW own,
           Requests(u, Unlink(w, r), {}, new, k, own)
    PROVE  LET v == Destroy(u, r) IN
              v \in WmaType /\ Requests(v, w, {r}, new, k, own) /\ Others(v, u)
<1> DEFINE v == Destroy(u, r)
           x == Unlink(w, r)
<1>1. v \in WmaType /\ v = [u EXCEPT !.alloc = [u.alloc EXCEPT ![r] = NoReq]]
  BY DestroyIs
<1>2. /\ x \in WmaType /\ x = [w EXCEPT !.respq = RemoveFirst(w.respq, r)]
      /\ \A y : y \in Range(x.respq) <=> y \in Range(w.respq) /\ y # r
      /\ \A a, b : Precedes(x.respq, a, b) <=> Precedes(w.respq, a, b) /\ a # r /\ b # r
  BY UnlinkIs
<1>3. x.alloc = w.alloc
  BY <1>2 DEF WmaType
<1> HIDE DEF v, x
<1>4. Others(v, u) /\ v.respq = u.respq /\ v.alloc = [u.alloc EXCEPT ![r] = NoReq]
  BY <1>1 DEF Others, WmaType
<1>5. \A q \in Reqs : v.alloc[q] = IF q = r THEN NoReq ELSE u.alloc[q]
  BY <1>4 DEF WmaType
<1>6. r \notin new
  <2>1. \A q \in new : w.alloc[q].kind = "none"
    BY <1>3 DEF Requests, NoReq, x
  <2> QED  BY <2>1 DEF Tidy
<1>7. Requests(u, x, {}, new, k, own)
  BY DEF x
<1>8. Requests(v, w, {r}, new, k, own)
  <2>1. \A q \in new : w.alloc[q] = NoReq
    BY <1>3, <1>7 DEF Requests
  <2>2. \A q \in Reqs :
          v.alloc[q] = IF q \in new THEN [kind |-> k, own |-> own, running |-> TRUE]
                       ELSE IF q \in {r} THEN NoReq ELSE w.alloc[q]
    BY <1>3, <1>5, <1>6, <1>7 DEF Requests
  <2>3. \A q \in Reqs :
          q \in Range(v.respq) <=> (q \in Range(w.respq) /\ q \notin {r}) \/ q \in new
    BY <1>2, <1>4, <1>7 DEF Requests
  <2>4. \A a, b \in Reqs :
          Precedes(v.respq, a, b)
             <=> /\ a \in Range(w.respq) /\ a \notin {r}
                 /\ (Precedes(w.respq, a, b) /\ b \notin {r}) \/ b \in new
    BY <1>2, <1>4, <1>7 DEF Requests
  <2> QED  BY <2>1, <2>2, <2>3, <2>4 DEF Requests
<1> QED  BY <1>1, <1>4, <1>8 DEF v

\* The outcomes of wma_vdev_attach.
AddSelfTo(v, w, fail) ==
    /\ v \in WmaType /\ v.alloc = w.alloc /\ v.respq = w.respq
    /\ v.del_staself_req = w.del_staself_req /\ v.locks = w.locks /\ v.stale = w.stale
    /\ v.crashed = w.crashed
    /\ \/ /\ fail # "none" /\ v.umac = Hear("self_failed", w.umac)
          /\ v.handle = w.handle /\ v.bss_started = w.bss_started
          /\ v.paused = w.paused /\ v.peer = w.peer
          /\ \/ v.cmds = w.cmds
             \/ v.cmds = Append(Append(w.cmds, "create"), "del")
       \/ /\ v.umac = Hear("self_added", w.umac)
          /\ v.handle /\ ~v.bss_started /\ ~v.paused /\ ~v.peer
          /\ v.cmds = Append(w.cmds, "create")

\* wma_vdev_attach has one of these outcomes.
LEMMA AddSelfIs ==
    ASSUME NEW w, NEW fail, Ready(w, fail)
    PROVE  AddSelfTo(AddSelf(w, fail), w, fail)
<1> USE DEF AddSelfTo
<1> DEFINE v == AddSelf(w, fail)
<1>0. w \in WmaType
  BY DEF Ready
<1>1. CASE fail = "send"
  <2>1. v = Reply(w, "self_failed")
    BY <1>1 DEF AddSelf
  <2>2. Told(v, w, "self_failed")
    BY <1>0, <2>1, RepliedIs
  <2> HIDE DEF v
  <2> QED  BY <1>1, <2>2 DEF Told, v
<1>2. CASE fail = "memory"
  <2> DEFINE a == Send(w, "create")
             b == Send(a, "del")
  <2>1. a \in WmaType /\ a = [w EXCEPT !.cmds = Append(w.cmds, "create")]
    BY <1>0, SendIs DEF Kinds
  <2> HIDE DEF a
  <2>2. b \in WmaType /\ b = [a EXCEPT !.cmds = Append(a.cmds, "del")]
    BY <2>1, SendIs DEF Kinds
  <2> HIDE DEF b
  <2>3. v = Reply(b, "self_failed")
    BY <1>2 DEF AddSelf, a, b
  <2>4. Told(v, b, "self_failed")
    BY <2>2, <2>3, RepliedIs
  <2> HIDE DEF v
  <2>5. /\ b.umac = w.umac /\ b.alloc = w.alloc /\ b.respq = w.respq
        /\ b.del_staself_req = w.del_staself_req /\ b.locks = w.locks /\ b.stale = w.stale /\ b.crashed = w.crashed
        /\ b.handle = w.handle /\ b.bss_started = w.bss_started /\ b.paused = w.paused
        /\ b.peer = w.peer /\ b.cmds = Append(Append(w.cmds, "create"), "del")
    BY <1>0, <2>1, <2>2 DEF WmaType
  <2> QED  BY <1>2, <2>4, <2>5 DEF Told, v
<1>3. CASE fail = "none"
  <2> DEFINE a == Send(w, "create")
             b == [a EXCEPT !.handle = TRUE, !.paused = FALSE, !.bss_started = FALSE, !.peer = FALSE]
  <2>1. a \in WmaType /\ a = [w EXCEPT !.cmds = Append(w.cmds, "create")]
    BY <1>0, SendIs DEF Kinds
  <2>2. v = Reply(b, "self_added")
    BY <1>3 DEF AddSelf
  <2> HIDE DEF a, v
  <2>3. /\ b \in WmaType /\ b.umac = w.umac /\ b.alloc = w.alloc /\ b.respq = w.respq
        /\ b.del_staself_req = w.del_staself_req /\ b.locks = w.locks /\ b.stale = w.stale /\ b.crashed = w.crashed
        /\ b.handle /\ ~b.bss_started /\ ~b.paused /\ ~b.peer
        /\ b.cmds = Append(w.cmds, "create")
    BY <1>0, <2>1, ZenonT(60) DEF WmaType
  <2> HIDE DEF b
  <2>4. Told(v, b, "self_added")
    BY <2>2, <2>3, RepliedIs
  <2> QED  BY <2>3, <2>4 DEF Told, v
<1> QED  BY <1>1, <1>2, <1>3 DEF Ready, Failures

\* A request that is over.
LEMMA ReleasedIs ==
    ASSUME NEW w \in WmaType, Tidy(w), NEW r \in Reqs, r \in Range(w.respq), NEW k, NEW own
    PROVE  LET v == Release(w, r) IN
              v \in WmaType /\ Requests(v, w, {r}, {}, k, own) /\ Others(v, w)
<1> DEFINE u == Unlink(w, r)
           v == Destroy(u, r)
<1>1. u \in WmaType /\ u = [w EXCEPT !.respq = RemoveFirst(w.respq, r)]
  BY UnlinkIs
<1>2. Requests(u, u, {}, {}, k, own)
  BY <1>1, SameRequests
<1>3. Others(u, w)
  BY <1>1 DEF Others, WmaType
<1>4. v \in WmaType /\ Requests(v, w, {r}, {}, k, own) /\ Others(v, u)
  BY <1>1, <1>2, FinishedIs
<1>5. Others(v, w)
  BY <1>3, <1>4 DEF Others
<1> QED  BY <1>4, <1>5 DEF Release

\* A stop that is filled: a new request, transmission paused.
LEMMA FillStopIs ==
    ASSUME NEW w \in WmaType, Tidy(w), Free(w) # {}, NEW own \in BOOLEAN
    PROVE  LET b == FillStop(w, own) IN
              /\ b \in WmaType /\ b.paused /\ b.cmds = w.cmds /\ b.peer = w.peer
              /\ b.handle = w.handle /\ b.bss_started = w.bss_started
              /\ b.del_staself_req = w.del_staself_req
              /\ b.locks = w.locks /\ b.stale = w.stale /\ b.crashed = w.crashed
              /\ b.umac = w.umac
              /\ \E q \in Reqs : /\ q \notin Range(w.respq) /\ b.respq = Append(w.respq, q)
                                 /\ Requests(b, w, {}, {q}, "stop", own)
<1> DEFINE a == [w EXCEPT !.paused = TRUE]
           b == Fill(a, "stop", own)
<1>1. /\ a \in WmaType /\ a.alloc = w.alloc /\ a.respq = w.respq /\ a.paused
      /\ a.cmds = w.cmds /\ a.peer = w.peer /\ a.umac = w.umac
      /\ a.handle = w.handle /\ a.bss_started = w.bss_started
      /\ a.del_staself_req = w.del_staself_req
      /\ a.locks = w.locks /\ a.stale = w.stale /\ a.crashed = w.crashed
  BY DEF WmaType
<1>2. b = FillStop(w, own)
  BY DEF FillStop
<1> HIDE DEF a
<1>3. Tidy(a) /\ Free(a) # {} /\ "stop" \in Kinds
  BY <1>1 DEF Tidy, Free, Kinds
<1>4. PICK q \in Reqs :
         /\ a.alloc[q] = NoReq /\ q \notin Range(a.respq)
         /\ b \in WmaType
         /\ b = [a EXCEPT !.respq = Append(a.respq, q),
                    !.alloc = [a.alloc EXCEPT ![q] = [kind |-> "stop", own |-> own, running |-> TRUE]]]
  <2>1. FillTo(b, a, "stop", own)
    BY <1>1, <1>3, FillIs
  <2> HIDE DEF b
  <2> QED  BY <2>1, Zenon DEF FillTo
<1> HIDE DEF b
<1>5. /\ b.respq = Append(w.respq, q)
      /\ b.alloc = [w.alloc EXCEPT ![q] = [kind |-> "stop", own |-> own, running |-> TRUE]]
      /\ b.paused /\ b.cmds = w.cmds /\ b.peer = w.peer /\ b.umac = w.umac
      /\ b.handle = w.handle /\ b.bss_started = w.bss_started
      /\ b.del_staself_req = w.del_staself_req
      /\ b.locks = w.locks /\ b.stale = w.stale /\ b.crashed = w.crashed
  BY <1>1, <1>4 DEF WmaType
<1>6. Requests(b, w, {}, {q}, "stop", own)
  <2>1. w.alloc[q] = NoReq /\ b \in WmaType
    BY <1>1, <1>4
  <2> QED  BY <1>3, <1>5, <2>1, FilledRequests, ZenonT(60)
<1>7. q \notin Range(w.respq)
  BY <1>1, <1>4
<1> QED  BY <1>2, <1>4, <1>5, <1>6, <1>7

\* A stop that is sent: a new request, transmission paused, the command last.
LEMMA SendStopIs ==
    ASSUME NEW w, Ready(w, "none"), NEW own \in BOOLEAN
    PROVE  LET v == SendStop(w, own) IN
              /\ v \in WmaType /\ v.paused /\ v.cmds = Append(w.cmds, "stop") /\ v.peer = w.peer
              /\ v.handle = w.handle /\ v.bss_started = w.bss_started
              /\ v.del_staself_req = w.del_staself_req
              /\ v.locks = w.locks /\ v.stale = w.stale /\ v.crashed = w.crashed
              /\ v.umac = w.umac
              /\ \E q \in Reqs : Requests(v, w, {}, {q}, "stop", own)
<1> DEFINE b == FillStop(w, own)
           v == Send(b, "stop")
<1>0. w \in WmaType /\ Tidy(w) /\ Free(w) # {}
  BY DEF Ready
<1>1. /\ b \in WmaType /\ b.paused /\ b.cmds = w.cmds /\ b.peer = w.peer
      /\ b.handle = w.handle /\ b.bss_started = w.bss_started
      /\ b.del_staself_req = w.del_staself_req
      /\ b.locks = w.locks /\ b.stale = w.stale /\ b.crashed = w.crashed
      /\ b.umac = w.umac
      /\ \E q \in Reqs : Requests(b, w, {}, {q}, "stop", own)
  BY <1>0, FillStopIs
<1> HIDE DEF b
<1>2. v \in WmaType /\ v = [b EXCEPT !.cmds = Append(b.cmds, "stop")]
  BY <1>1, SendIs DEF Kinds
<1>3. /\ v.paused = b.paused /\ v.cmds = Append(b.cmds, "stop") /\ v.peer = b.peer
      /\ v.handle = b.handle /\ v.bss_started = b.bss_started
      /\ v.del_staself_req = b.del_staself_req
      /\ v.locks = b.locks /\ v.stale = b.stale /\ v.crashed = b.crashed
      /\ v.umac = b.umac /\ v.respq = b.respq /\ v.alloc = b.alloc
  BY <1>1, <1>2 DEF WmaType
<1> HIDE DEF v
<1>4. \E q \in Reqs : Requests(v, w, {}, {q}, "stop", own)
  <2>1. PICK q \in Reqs : Requests(b, w, {}, {q}, "stop", own)
    BY <1>1
  <2>2. Requests(v, w, {}, {q}, "stop", own)
    BY <1>3, <2>1, Zenon DEF Requests
  <2> QED  BY <2>2
<1>5. SendStop(w, own) = v
  BY DEF SendStop, v, b
<1> QED  BY <1>1, <1>2, <1>3, <1>4, <1>5

\* A stop that cannot be sent, when no other is kept: its request is gone again.
LEMMA UnsentStopIs ==
    ASSUME NEW w, Ready(w, "send"), Found(w, "stop") = 0, NEW own \in BOOLEAN
    PROVE  LET v == UnsentStop(w, own) IN
              /\ v \in WmaType /\ v.cmds = w.cmds
              /\ v.handle = w.handle /\ v.bss_started = w.bss_started
              /\ v.del_staself_req = w.del_staself_req
              /\ v.locks = w.locks /\ v.stale = w.stale /\ v.crashed = w.crashed
              /\ v.umac = w.umac
              /\ Requests(v, w, {}, {}, "stop", own)
<1> DEFINE b == FillStop(w, own)
           f == Found(b, "stop")
           v == Release(b, f)
<1>0. w \in WmaType /\ Tidy(w) /\ Free(w) # {} /\ w.respq \in Seq(Reqs) /\ "stop" \in Kinds
  BY DEF Ready, WmaType, Kinds
<1>1. UnsentStop(w, own) = v
  BY DEF UnsentStop
<1>2. /\ b \in WmaType /\ b.cmds = w.cmds
      /\ b.handle = w.handle /\ b.bss_started = w.bss_started
      /\ b.del_staself_req = w.del_staself_req
      /\ b.locks = w.locks /\ b.stale = w.stale /\ b.crashed = w.crashed
      /\ b.umac = w.umac
      /\ \E q \in Reqs : /\ q \notin Range(w.respq) /\ b.respq = Append(w.respq, q)
                         /\ Requests(b, w, {}, {q}, "stop", own)
  BY <1>0, FillStopIs
<1> HIDE DEF b
<1>3. PICK q \in Reqs : /\ q \notin Range(w.respq) /\ b.respq = Append(w.respq, q)
                        /\ Requests(b, w, {}, {q}, "stop", own)
  BY <1>2
<1>4. /\ \A y : y \in Range(b.respq) <=> y \in Range(w.respq) \/ y = q
      /\ \A x, y : Precedes(b.respq, x, y) <=> Precedes(w.respq, x, y) \/ (x \in Range(w.respq) /\ y = q)
  BY <1>0, <1>3, Appended
<1>5. /\ \A r \in Range(w.respq) : r \in Reqs /\ w.alloc[r].kind # "stop"
      /\ \A x, y : Precedes(w.respq, x, y) => x \in Range(w.respq) /\ y \in Range(w.respq)
  BY <1>0, FoundIs, Empty
<1>6. /\ b.alloc[q].kind = "stop" /\ w.alloc[q] = NoReq
      /\ \A r \in Reqs : r # q => b.alloc[r] = w.alloc[r]
  BY <1>3 DEF Requests
<1>7. \A r \in Range(b.respq) : b.alloc[r].kind = "stop" <=> r = q
  BY <1>3, <1>4, <1>5, <1>6
<1>8. f = q
  <2>1. q \in Range(b.respq)
    BY <1>4
  <2>2. f = 0 <=> \A r \in Range(b.respq) : b.alloc[r].kind # "stop"
    BY <1>0, <1>2, FoundIs, Zenon
  <2>3. f # 0 => f \in Range(b.respq) /\ b.alloc[f].kind = "stop"
    BY <1>0, <1>2, FoundIs, Zenon
  <2> HIDE DEF f
  <2> QED  BY <1>7, <2>1, <2>2, <2>3
<1>9. Tidy(b)
  <2>1. \A r \in Range(b.respq) : b.alloc[r].kind # "none"
    BY <1>0, <1>3, <1>4, <1>5, <1>6 DEF Tidy
  <2>2. \A r \in Reqs : ~Precedes(b.respq, r, r)
    BY <1>0, <1>3, <1>4 DEF Tidy
  <2> QED  BY <2>1, <2>2 DEF Tidy
<1>10. v \in WmaType /\ Requests(v, b, {q}, {}, "stop", own) /\ Others(v, b)
  BY <1>2, <1>4, <1>8, <1>9, ReleasedIs
<1> HIDE DEF v, f
<1>11. /\ v.cmds = w.cmds
       /\ v.handle = w.handle /\ v.bss_started = w.bss_started
       /\ v.del_staself_req = w.del_staself_req
       /\ v.locks = w.locks /\ v.stale = w.stale /\ v.crashed = w.crashed
       /\ v.umac = w.umac
  BY <1>2, <1>10 DEF Others
<1>12. Requests(v, w, {}, {}, "stop", own)
  <2>1. \A r \in Reqs : v.alloc[r] = w.alloc[r]
    BY <1>6, <1>10 DEF Requests
  <2>2. \A r \in Reqs : r \in Range(v.respq) <=> r \in Range(w.respq)
    BY <1>3, <1>4, <1>10 DEF Requests
  <2>3. \A x, y \in Reqs : Precedes(v.respq, x, y) <=> Precedes(w.respq, x, y)
    BY <1>3, <1>4, <1>5, <1>10 DEF Requests
  <2> QED  BY <1>5, <2>1, <2>2, <2>3 DEF Requests
<1> QED  BY <1>1, <1>10, <1>11, <1>12

\* The outcome when a stop cannot be made: the peer is removed.
GivenUp(w, fail, own, rsp) ==
    Reply(wma_remove_peer(IF fail = "send" THEN UnsentStop(w, own) ELSE w), rsp)
GivenUpTo(v, w, own, rsp) ==
    /\ v \in WmaType /\ v.umac = Hear(rsp, w.umac) /\ ~v.peer /\ v.cmds = w.cmds
    /\ v.handle = w.handle /\ v.bss_started = w.bss_started
    /\ v.del_staself_req = w.del_staself_req
    /\ v.locks = w.locks /\ v.stale = w.stale /\ v.crashed = w.crashed
    /\ Requests(v, w, {}, {}, "stop", own)

\* A stop that cannot be made has this outcome.
LEMMA Unsent ==
    ASSUME NEW w, NEW fail, Ready(w, fail), fail # "none", NEW own \in BOOLEAN, NEW rsp,
           fail = "send" => Found(w, "stop") = 0
    PROVE  GivenUpTo(GivenUp(w, fail, own, rsp), w, own, rsp)
<1> DEFINE v == GivenUp(w, fail, own, rsp)
<1> DEFINE a == IF fail = "send" THEN UnsentStop(w, own) ELSE w
           b == wma_remove_peer(a)
<1>0. w \in WmaType
  BY DEF Ready
<1>1. /\ a \in WmaType /\ a.cmds = w.cmds /\ a.umac = w.umac
      /\ a.handle = w.handle /\ a.bss_started = w.bss_started
      /\ a.del_staself_req = w.del_staself_req
      /\ a.locks = w.locks /\ a.stale = w.stale /\ a.crashed = w.crashed
      /\ Requests(a, w, {}, {}, "stop", own)
  <2>1. CASE fail = "send"
    BY <2>1, UnsentStopIs
  <2>2. CASE fail # "send"
    BY <1>0, <2>2, SameRequests
  <2> QED  BY <2>1, <2>2
<1> HIDE DEF a
<1>2. /\ b \in WmaType /\ b.alloc = a.alloc /\ b.respq = a.respq /\ ~b.peer
      /\ b.cmds = a.cmds /\ b.umac = a.umac
      /\ b.handle = a.handle /\ b.bss_started = a.bss_started
      /\ b.del_staself_req = a.del_staself_req
      /\ b.locks = a.locks /\ b.stale = a.stale /\ b.crashed = a.crashed
  BY <1>1 DEF WmaType, wma_remove_peer
<1>3. v = Reply(b, rsp)
  BY DEF a, GivenUp
<1> HIDE DEF b, v
<1>4. Told(v, b, rsp)
  BY <1>2, <1>3, RepliedIs
<1>5. Requests(v, w, {}, {}, "stop", own)
  BY <1>1, <1>2, <1>4 DEF Requests, Told
<1> QED  BY <1>1, <1>2, <1>4, <1>5 DEF Told, GivenUpTo, v

\* The outcomes of wma_add_bss_ap_mode.
AddBssTo(v, w) ==
    /\ v \in WmaType
    /\ v.handle = w.handle /\ v.bss_started = w.bss_started
    /\ v.del_staself_req = w.del_staself_req
    /\ v.locks = w.locks /\ v.stale = w.stale /\ v.crashed = w.crashed
    /\ \/ /\ v.umac = Hear("add_failed", w.umac) /\ v.cmds = w.cmds /\ v.peer = w.peer
          /\ v.paused = w.paused \/ (w.handle /\ ~w.peer /\ ~v.paused)
          /\ v.alloc = w.alloc /\ v.respq = w.respq
       \/ /\ w.handle /\ ~w.peer /\ v.peer /\ ~v.paused /\ v.umac = w.umac
          /\ v.cmds = Append(w.cmds, "start")
          /\ \E q \in Reqs : Requests(v, w, {}, {q}, "start", FALSE)

\* wma_add_bss_ap_mode has one of these outcomes.
LEMMA AddBssIs ==
    ASSUME NEW w, NEW fail, Ready(w, fail)
    PROVE  AddBssTo(AddBss(w, fail), w)
<1> USE DEF AddBssTo
<1> DEFINE v == AddBss(w, fail)
<1>0. w \in WmaType /\ Tidy(w)
  BY DEF Ready
<1>1. CASE ~w.handle \/ w.peer \/ fail = "memory"
  <2>1. v = Reply(w, "add_failed")
    BY <1>1 DEF AddBss
  <2>2. Told(v, w, "add_failed")
    BY <1>0, <2>1, RepliedIs
  <2> HIDE DEF v
  <2> QED  BY <2>2 DEF Told, v
<1>2. CASE w.handle /\ ~w.peer /\ fail = "send"
  <2> DEFINE a == Unpaused(w)
  <2>1. v = Reply(a, "add_failed")
    BY <1>2 DEF AddBss
  <2>2. /\ a \in WmaType /\ a.alloc = w.alloc /\ a.respq = w.respq /\ ~a.paused
        /\ a.handle = w.handle /\ a.bss_started = w.bss_started /\ a.cmds = w.cmds
        /\ a.del_staself_req = w.del_staself_req /\ a.peer = w.peer
        /\ a.locks = w.locks /\ a.stale = w.stale /\ a.crashed = w.crashed /\ a.umac = w.umac
    BY <1>0 DEF WmaType, Unpaused
  <2> HIDE DEF a
  <2>3. Told(v, a, "add_failed")
    BY <2>1, <2>2, RepliedIs
  <2> HIDE DEF v
  <2> QED  BY <1>2, <2>2, <2>3 DEF Told, v
<1>3. CASE w.handle /\ ~w.peer /\ fail = "none"
  <2> DEFINE a == wma_create_peer(w)
             b == Fill(a, "start", FALSE)
             c == Unpaused(b)
  <2>1. v = Send(c, "start")
    BY <1>3 DEF AddBss
  <2>2. /\ a \in WmaType /\ a.alloc = w.alloc /\ a.respq = w.respq /\ a.peer
        /\ a.handle = w.handle /\ a.bss_started = w.bss_started /\ a.cmds = w.cmds
        /\ a.del_staself_req = w.del_staself_req /\ a.locks = w.locks /\ a.stale = w.stale
        /\ a.crashed = w.crashed /\ a.umac = w.umac
    BY <1>0 DEF WmaType, wma_create_peer
  <2> HIDE DEF a, v
  <2>3. Tidy(a) /\ Free(a) # {}
    BY <1>0, <1>3, <2>2 DEF Ready, Tidy, Free
  <2>4. PICK q \in Reqs :
           /\ a.alloc[q] = NoReq /\ q \notin Range(a.respq)
           /\ b \in WmaType
           /\ b = [a EXCEPT !.respq = Append(a.respq, q),
                    !.alloc = [a.alloc EXCEPT ![q] = [kind |-> "start", own |-> FALSE, running |-> TRUE]]]
    <3>1. FillTo(b, a, "start", FALSE)
      BY <2>2, <2>3, FillIs DEF Kinds
    <3> HIDE DEF b
    <3> QED  BY <3>1, Zenon DEF FillTo
  <2> HIDE DEF b
  <2>5. /\ b.respq = Append(w.respq, q)
        /\ b.alloc = [w.alloc EXCEPT ![q] = [kind |-> "start", own |-> FALSE, running |-> TRUE]]
        /\ b.peer /\ b.handle = w.handle /\ b.bss_started = w.bss_started /\ b.cmds = w.cmds
        /\ b.del_staself_req = w.del_staself_req /\ b.locks = w.locks /\ b.stale = w.stale
        /\ b.crashed = w.crashed /\ b.umac = w.umac
    BY <2>2, <2>4 DEF WmaType
  <2>6. /\ c \in WmaType /\ c.alloc = b.alloc /\ c.respq = b.respq /\ ~c.paused
        /\ c.handle = b.handle /\ c.bss_started = b.bss_started /\ c.cmds = b.cmds
        /\ c.del_staself_req = b.del_staself_req /\ c.peer = b.peer
        /\ c.locks = b.locks /\ c.stale = b.stale /\ c.crashed = b.crashed /\ c.umac = b.umac
    BY <2>4, ZenonT(60) DEF WmaType, Unpaused
  <2> HIDE DEF c
  <2>7. v \in WmaType /\ v = [c EXCEPT !.cmds = Append(c.cmds, "start")]
    BY <2>1, <2>6, SendIs DEF Kinds
  <2>8. /\ v.alloc = b.alloc /\ v.respq = b.respq /\ ~v.paused
        /\ v.handle = w.handle /\ v.bss_started = w.bss_started
        /\ v.cmds = Append(w.cmds, "start")
        /\ v.del_staself_req = w.del_staself_req /\ v.peer
        /\ v.locks = w.locks /\ v.stale = w.stale /\ v.crashed = w.crashed /\ v.umac = w.umac
    BY <2>5, <2>6, <2>7, ZenonT(60) DEF WmaType
  <2>9. Requests(v, w, {}, {q}, "start", FALSE)
    BY <1>0, <2>2, <2>4, <2>5, <2>7, <2>8, FilledRequests, ZenonT(60) DEF Kinds
  <2> QED  BY <1>3, <2>7, <2>8, <2>9 DEF v
<1> QED  BY <1>1, <1>2, <1>3 DEF Ready, Failures

\* The outcomes of wma_delete_bss.
DelBssTo(v, w, fail) ==
    /\ v \in WmaType
    /\ v.handle = w.handle /\ v.bss_started = w.bss_started
    /\ v.del_staself_req = w.del_staself_req
    /\ v.locks = w.locks /\ v.stale = w.stale /\ v.crashed = w.crashed
    /\ \/ /\ ~w.peer \/ ~w.handle
          /\ v.umac = Hear("bss_deleted", w.umac) /\ v.cmds = w.cmds
          /\ v.peer = w.peer /\ v.paused = w.paused
          /\ v.alloc = w.alloc /\ v.respq = w.respq
       \/ /\ w.peer /\ w.handle /\ fail # "none"
          /\ v.umac = Hear("bss_deleted", w.umac) /\ v.cmds = w.cmds
          /\ ~v.peer /\ Requests(v, w, {}, {}, "stop", FALSE)
       \/ /\ w.peer /\ w.handle /\ v.peer /\ v.paused /\ v.umac = w.umac
          /\ v.cmds = Append(w.cmds, "stop")
          /\ \E q \in Reqs : Requests(v, w, {}, {q}, "stop", FALSE)

\* wma_delete_bss has one of these outcomes.
LEMMA DelBssIs ==
    ASSUME NEW w, NEW fail, Ready(w, fail),
           w.peer /\ w.handle /\ fail = "send" => Found(w, "stop") = 0
    PROVE  DelBssTo(DelBss(w, fail), w, fail)
<1> USE DEF DelBssTo
<1> DEFINE v == DelBss(w, fail)
<1>0. w \in WmaType
  BY DEF Ready
<1>1. CASE ~w.peer \/ ~w.handle
  <2>1. v = Reply(w, "bss_deleted")
    BY <1>1 DEF DelBss
  <2>2. Told(v, w, "bss_deleted")
    BY <1>0, <2>1, RepliedIs
  <2> HIDE DEF v
  <2> QED  BY <1>1, <2>2 DEF Told, v
<1>2. CASE w.peer /\ w.handle /\ fail # "none"
  <2>1. v = GivenUp(w, fail, FALSE, "bss_deleted")
    BY <1>2 DEF DelBss, Ready, Failures, GivenUp
  <2> HIDE DEF v
  <2>2. /\ v \in WmaType /\ v.umac = Hear("bss_deleted", w.umac) /\ ~v.peer /\ v.cmds = w.cmds
        /\ v.handle = w.handle /\ v.bss_started = w.bss_started
        /\ v.del_staself_req = w.del_staself_req
        /\ v.locks = w.locks /\ v.stale = w.stale /\ v.crashed = w.crashed
        /\ Requests(v, w, {}, {}, "stop", FALSE)
    <3>1. GivenUpTo(v, w, FALSE, "bss_deleted")
      BY <1>2, <2>1, Unsent
    <3> QED  BY <3>1 DEF GivenUpTo
  <2> QED  BY <1>2, <2>2 DEF v
<1>3. CASE w.peer /\ w.handle /\ fail = "none"
  <2>1. v = SendStop(w, FALSE)
    BY <1>3 DEF DelBss
  <2>2. Ready(w, "none")
    BY <1>3
  <2>3. /\ v \in WmaType /\ v.paused /\ v.cmds = Append(w.cmds, "stop")
        /\ v.handle = w.handle /\ v.bss_started = w.bss_started
        /\ v.del_staself_req = w.del_staself_req /\ v.peer = w.peer
        /\ v.locks = w.locks /\ v.stale = w.stale /\ v.crashed = w.crashed /\ v.umac = w.umac
        /\ \E q \in Reqs : Requests(v, w, {}, {q}, "stop", FALSE)
    BY <2>1, <2>2, SendStopIs
  <2> HIDE DEF v
  <2> QED  BY <1>3, <2>3 DEF v
<1> QED  BY <1>1, <1>2, <1>3

\* The outcomes of wma_vdev_start_resp_handler.
StartedTo(v, w, ok, fail) ==
    \/ v = w /\ \A r \in Reqs : r \in Range(w.respq) => w.alloc[r].kind # "start"
    \/ \E r \in Reqs :
          /\ r \in Range(w.respq) /\ w.alloc[r].kind = "start"
          /\ v \in WmaType /\ Requests(v, w, {r}, {}, "start", FALSE)
          /\ v.handle = w.handle /\ v.del_staself_req = w.del_staself_req
          /\ v.paused = w.paused /\ v.peer = w.peer /\ v.locks = w.locks
          /\ v.crashed = w.crashed /\ v.cmds = w.cmds
          /\ \/ /\ ok /\ fail = "none" /\ v.bss_started /\ ~v.stale
                /\ v.umac = Hear("added", w.umac)
             \/ /\ ~(ok /\ fail = "none") /\ v.bss_started = w.bss_started
                /\ v.umac = Hear("add_failed", w.umac)

\* wma_vdev_start_resp_handler has one of these outcomes.
LEMMA StartedIs ==
    ASSUME NEW w, NEW fail, Ready(w, fail), NEW ok \in BOOLEAN
    PROVE  StartedTo(Started(w, ok, fail), w, ok, fail)
<1> USE DEF StartedTo
<1> DEFINE v == Started(w, ok, fail)
           r == Found(w, "start")
           x == wma_vdev_start_rsp(w, ok, fail)
<1>0. w \in WmaType /\ Tidy(w)
  BY DEF Ready
<1>1. CASE r = 0
  <2>1. v = w
    BY <1>1 DEF Started
  <2>2. \A q \in Reqs : q \in Range(w.respq) => w.alloc[q].kind # "start"
    BY <1>0, <1>1, FoundIs DEF Kinds
  <2> QED  BY <2>1, <2>2
<1>2. CASE r # 0
  <2>1. v = Release(x, r)
    BY <1>2 DEF Started
  <2>2. r \in Reqs /\ r \in Range(w.respq) /\ w.alloc[r].kind = "start"
    BY <1>0, <1>2, FoundIs DEF Kinds
  <2>3. /\ x \in WmaType /\ x.alloc = w.alloc /\ x.respq = w.respq
        /\ x.handle = w.handle /\ x.del_staself_req = w.del_staself_req
        /\ x.paused = w.paused /\ x.peer = w.peer /\ x.locks = w.locks
        /\ x.crashed = w.crashed /\ x.cmds = w.cmds
        /\ \/ /\ ok /\ fail = "none" /\ x.bss_started /\ ~x.stale
              /\ x.umac = Hear("added", w.umac)
           \/ /\ ~(ok /\ fail = "none") /\ x.bss_started = w.bss_started
              /\ x.umac = Hear("add_failed", w.umac)
    <3>1. CASE ok /\ fail = "none"
      <4> DEFINE a == [w EXCEPT !.bss_started = TRUE, !.stale = FALSE]
      <4>1. /\ a \in WmaType /\ a.alloc = w.alloc /\ a.respq = w.respq /\ a.bss_started
            /\ a.handle = w.handle /\ a.del_staself_req = w.del_staself_req /\ ~a.stale
            /\ a.paused = w.paused /\ a.peer = w.peer /\ a.locks = w.locks
            /\ a.crashed = w.crashed /\ a.cmds = w.cmds /\ a.umac = w.umac
        BY <1>0 DEF WmaType
      <4>2. x = Reply(a, "added")
        BY <3>1 DEF wma_vdev_start_rsp
      <4> HIDE DEF a, x
      <4>3. Told(x, a, "added")
        BY <4>1, <4>2, RepliedIs
      <4> QED  BY <3>1, <4>1, <4>3 DEF Told
    <3>2. CASE ~ok
      <4>1. x = Reply(w, "add_failed")
        BY <3>2 DEF wma_vdev_start_rsp
      <4> HIDE DEF x
      <4>2. Told(x, w, "add_failed")
        BY <1>0, <4>1, RepliedIs
      <4> QED  BY <3>2, <4>2 DEF Told
    <3>3. CASE ok /\ fail # "none"
      <4> DEFINE b == (fail = "send")
                 a == [w EXCEPT !.stale = b]
      <4>1. /\ a \in WmaType /\ a.alloc = w.alloc /\ a.respq = w.respq
            /\ a.handle = w.handle /\ a.del_staself_req = w.del_staself_req
            /\ a.bss_started = w.bss_started
            /\ a.paused = w.paused /\ a.peer = w.peer /\ a.locks = w.locks
            /\ a.crashed = w.crashed /\ a.cmds = w.cmds /\ a.umac = w.umac
        <5>1. b \in BOOLEAN
          OBVIOUS
        <5> HIDE DEF b
        <5> QED  BY <1>0, <5>1 DEF WmaType
      <4>2. x = Reply(a, "add_failed")
        BY <3>3 DEF wma_vdev_start_rsp
      <4> HIDE DEF a, x
      <4>3. Told(x, a, "add_failed")
        BY <4>1, <4>2, RepliedIs
      <4> QED  BY <3>3, <4>1, <4>3 DEF Told
    <3> QED  BY <3>1, <3>2, <3>3
  <2> HIDE DEF x, v, r
  <2>4. Tidy(x) /\ r \in Range(x.respq)
    BY <1>0, <2>2, <2>3 DEF Tidy
  <2>5. v \in WmaType /\ Requests(v, x, {r}, {}, "start", FALSE) /\ Others(v, x)
    BY <2>1, <2>2, <2>3, <2>4, ReleasedIs
  <2>6. Requests(v, w, {r}, {}, "start", FALSE)
    BY <2>3, <2>5 DEF Requests
  <2>7. /\ v.handle = w.handle /\ v.del_staself_req = w.del_staself_req
        /\ v.paused = w.paused /\ v.peer = w.peer /\ v.locks = w.locks
        /\ v.crashed = w.crashed /\ v.cmds = w.cmds
        /\ \/ /\ ok /\ fail = "none" /\ v.bss_started /\ ~v.stale
              /\ v.umac = Hear("added", w.umac)
           \/ /\ ~(ok /\ fail = "none") /\ v.bss_started = w.bss_started
              /\ v.umac = Hear("add_failed", w.umac)
    BY <2>3, <2>5 DEF Others
  <2> QED  BY <2>2, <2>5, <2>6, <2>7 DEF v
<1> QED  BY <1>1, <1>2

\* What the upper layers have heard when the BSS is down.
HeardDown(w, answer) == IF answer THEN Hear("bss_deleted", w.umac) ELSE w.umac

\* The stop r is over: the BSS is down, and a deletion that was put off is done
\* or asked for.
StopOver(v, w, r, answer) ==
    /\ v \in WmaType /\ ~v.peer /\ ~v.paused /\ ~v.bss_started /\ ~v.stale
    /\ v.crashed <=> w.crashed \/ w.stale
    /\ \/ /\ ~(w.del_staself_req /\ w.handle)
          /\ v.handle = w.handle /\ v.del_staself_req = w.del_staself_req
          /\ v.locks = w.locks /\ v.cmds = w.cmds /\ v.umac = HeardDown(w, answer)
          /\ Requests(v, w, {r}, {}, "del", FALSE)
       \/ /\ w.del_staself_req /\ w.handle /\ ~v.handle /\ ~v.del_staself_req
          /\ v.locks = w.locks /\ v.umac = Hear("self_deleted", HeardDown(w, answer))
          /\ v.cmds = w.cmds \/ v.cmds = Append(w.cmds, "del")
          /\ Requests(v, w, {r}, {}, "del", FALSE)
       \/ /\ w.del_staself_req /\ w.handle /\ v.handle /\ v.del_staself_req
          /\ sync /\ v.locks = {"wake", "runtime"} /\ v.umac = HeardDown(w, answer)
          /\ v.cmds = Append(w.cmds, "del")
          /\ \E q \in Reqs : Requests(v, w, {r}, {q}, "del", FALSE)

\* The request is unlinked, the stop is done, the request is freed.
LEMMA StopOverIs ==
    ASSUME NEW w, NEW fail, Ready(w, fail), NEW answer \in BOOLEAN,
           NEW r \in Reqs, r \in Range(w.respq)
    PROVE  StopOver(Destroy(StopDone(Unlink(w, r), answer, fail), r), w, r, answer)
<1> DEFINE x == Unlink(w, r)
           u == StopDone(x, answer, fail)
           v == Destroy(u, r)
<1>0. w \in WmaType /\ Tidy(w)
  BY DEF Ready
<1>1. x \in WmaType /\ x = [w EXCEPT !.respq = RemoveFirst(w.respq, r)] /\ Ready(x, fail)
  BY <1>0, UnlinkIs, ReadyUnlinked
<1>2. Others(x, w) /\ x.alloc = w.alloc
  BY <1>0, <1>1 DEF Others, WmaType
<1>2a. Ready(x, fail) /\ u = StopDone(x, answer, fail)
  BY <1>1
<1> HIDE DEF x, u
<1>2b. StopDoneTo(u, x, answer)
  BY <1>2a, StopDoneIs
<1>3. PICK w2 :
         /\ Down(w2, x, answer)
         /\ u \in WmaType /\ ~u.peer /\ u.crashed = w2.crashed
         /\ \/ ~(x.del_staself_req /\ x.handle) /\ u = w2
            \/ /\ x.del_staself_req /\ x.handle
               /\ \/ Gone(u, w2) /\ Requests(u, w2, {}, {}, "del", FALSE)
                  \/ Deleting(u, w2) /\ \E q \in Reqs : Requests(u, w2, {}, {q}, "del", FALSE)
  BY <1>2b DEF StopDoneTo
<1>4. w2.alloc = x.alloc /\ w2.respq = x.respq /\ w2 \in WmaType
  BY <1>3 DEF Down
<1>5. /\ ~w2.peer /\ ~w2.paused /\ ~w2.bss_started
      /\ w2.handle = w.handle /\ w2.del_staself_req = w.del_staself_req /\ w2.locks = w.locks
      /\ ~w2.stale /\ (w2.crashed <=> w.crashed \/ w.stale) /\ w2.cmds = w.cmds /\ w2.umac = HeardDown(w, answer)
  BY <1>2, <1>3 DEF Down, Others, HeardDown
<1>6. ASSUME NEW new \in SUBSET Reqs, Requests(u, w2, {}, new, "del", FALSE)
      PROVE  v \in WmaType /\ Requests(v, w, {r}, new, "del", FALSE) /\ Others(v, u)
  <2>1. Requests(u, x, {}, new, "del", FALSE)
    BY <1>4, <1>6 DEF Requests
  <2> QED  BY <1>0, <1>3, <2>1, FinishedIs DEF x
<1> HIDE DEF v
<1>7. CASE ~(w.del_staself_req /\ w.handle)
  <2>1. u = w2
    BY <1>2, <1>3, <1>7 DEF Others
  <2>2. Requests(u, w2, {}, {}, "del", FALSE)
    BY <1>4, <2>1, SameRequests
  <2>3. v \in WmaType /\ Requests(v, w, {r}, {}, "del", FALSE) /\ Others(v, u)
    <3>1. {} \in SUBSET Reqs
      OBVIOUS
    <3> QED  BY <1>6, <2>2, <3>1
  <2>4. StopOver(v, w, r, answer)
    BY <1>5, <1>7, <2>1, <2>3 DEF Others, StopOver
  <2> QED  BY <2>4 DEF v, u, x
<1>8. CASE w.del_staself_req /\ w.handle /\ Gone(u, w2) /\ Requests(u, w2, {}, {}, "del", FALSE)
  <2>1. v \in WmaType /\ Requests(v, w, {r}, {}, "del", FALSE) /\ Others(v, u)
    <3>1. {} \in SUBSET Reqs /\ Requests(u, w2, {}, {}, "del", FALSE)
      BY <1>8
    <3> QED  BY <1>6, <3>1
  <2>2. (u.crashed <=> w.crashed \/ w.stale) /\ ~u.peer
    BY <1>3, <1>5
  <2>3. StopOver(v, w, r, answer)
    BY <1>5, <1>8, <2>1, <2>2 DEF Others, StopOver, Gone
  <2> QED  BY <2>3 DEF v, u, x
<1>9. CASE w.del_staself_req /\ w.handle /\ Deleting(u, w2) /\ \E q \in Reqs : Requests(u, w2, {}, {q}, "del", FALSE)
  <2>0. PICK q \in Reqs : Requests(u, w2, {}, {q}, "del", FALSE)
    BY <1>9
  <2>1. v \in WmaType /\ Requests(v, w, {r}, {q}, "del", FALSE) /\ Others(v, u)
    BY <1>6, <2>0
  <2>2. (u.crashed <=> w.crashed \/ w.stale) /\ ~u.peer
    BY <1>3, <1>5
  <2>3. StopOver(v, w, r, answer)
    BY <1>5, <1>9, <2>1, <2>2 DEF Others, StopOver, Deleting
  <2> QED  BY <2>3 DEF v, u, x
<1>10. x.del_staself_req = w.del_staself_req /\ x.handle = w.handle
  BY <1>2 DEF Others
<1> QED  BY <1>3, <1>7, <1>8, <1>9, <1>10

\* The outcomes of wma_vdev_stop_resp_handler.
StoppedTo(v, w) ==
    \/ v = w /\ \A r \in Reqs : r \in Range(w.respq) => w.alloc[r].kind # "stop"
    \/ \E r \in Reqs :
          /\ r \in Range(w.respq) /\ w.alloc[r].kind = "stop"
          /\ \/ /\ ~w.handle /\ v \in WmaType /\ Others(v, w)
                /\ Requests(v, w, {r}, {}, "del", FALSE)
             \/ w.handle /\ StopOver(v, w, r, ~w.alloc[r].own)

\* wma_vdev_stop_resp_handler has one of these outcomes.
LEMMA StoppedIs ==
    ASSUME NEW w, NEW fail, Ready(w, fail)
    PROVE  StoppedTo(Stopped(w, fail), w)
<1> USE DEF StoppedTo
<1> DEFINE v == Stopped(w, fail)
           r == Found(w, "stop")
<1>0. w \in WmaType /\ Tidy(w)
  BY DEF Ready
<1>1. CASE r = 0
  <2>1. v = w
    BY <1>1 DEF Stopped
  <2>2. \A q \in Reqs : q \in Range(w.respq) => w.alloc[q].kind # "stop"
    BY <1>0, <1>1, FoundIs DEF Kinds
  <2> QED  BY <2>1, <2>2
<1>2. CASE r # 0
  <2>1. r \in Reqs /\ r \in Range(w.respq) /\ w.alloc[r].kind = "stop"
    BY <1>0, <1>2, FoundIs DEF Kinds
  <2>2. CASE ~w.handle
    <3>1. v = Release(w, r)
      BY <1>2, <2>2 DEF Stopped
    <3> HIDE DEF r
    <3>2. v \in WmaType /\ Requests(v, w, {r}, {}, "del", FALSE) /\ Others(v, w)
      BY <1>0, <2>1, <3>1, ReleasedIs
    <3> HIDE DEF v
    <3> QED  BY <2>1, <2>2, <3>2 DEF v
  <2>3. CASE w.handle
    <3>1. v = Destroy(StopDone(Unlink(w, r), ~w.alloc[r].own, fail), r)
      BY <1>2, <2>3 DEF Stopped
    <3> HIDE DEF r
    <3> DEFINE answer == ~w.alloc[r].own
    <3>2. answer \in BOOLEAN
      OBVIOUS
    <3> HIDE DEF answer
    <3>3. StopOver(v, w, r, answer)
      BY <2>1, <3>1, <3>2, StopOverIs DEF answer
    <3> HIDE DEF v
    <3> QED  BY <2>1, <2>3, <3>3 DEF v, answer
  <2> QED  BY <2>2, <2>3
<1> QED  BY <1>1, <1>2

\* The timeout of the start r: WMA stops the BSS by itself if it can.
StartOver(v, w, r, fail) ==
    /\ v \in WmaType /\ v.umac = Hear("add_failed", w.umac)
    /\ v.handle = w.handle /\ v.bss_started = w.bss_started
    /\ v.del_staself_req = w.del_staself_req /\ v.locks = w.locks /\ v.stale = w.stale /\ v.crashed = w.crashed
    /\ \/ /\ fail = "none" /\ v.paused /\ v.peer = w.peer
          /\ v.cmds = Append(w.cmds, "stop")
          /\ \E q \in Reqs : Requests(v, w, {r}, {q}, "stop", TRUE)
       \/ /\ fail # "none" /\ ~v.peer /\ v.cmds = w.cmds
          /\ Requests(v, w, {r}, {}, "stop", TRUE)

\* The timeout of a start ends that way.
LEMMA StartOverIs ==
    ASSUME NEW w, NEW fail, Ready(w, fail), NEW r \in Reqs, r \in Range(w.respq),
           fail = "send" => Found(w, "stop") = 0
    PROVE  StartOver(Destroy(StartTimedOut(Unlink(w, r), fail), r), w, r, fail)
<1> DEFINE x == Unlink(w, r)
           u == StartTimedOut(x, fail)
           v == Destroy(u, r)
<1>0. w \in WmaType /\ Tidy(w)
  BY DEF Ready
<1>1. x \in WmaType /\ x = [w EXCEPT !.respq = RemoveFirst(w.respq, r)] /\ Ready(x, fail)
  BY <1>0, UnlinkIs, ReadyUnlinked
<1>2. Others(x, w) /\ x.alloc = w.alloc
  BY <1>0, <1>1 DEF Others, WmaType
<1>3. ASSUME NEW new \in SUBSET Reqs, u \in WmaType, Requests(u, x, {}, new, "stop", TRUE)
      PROVE  v \in WmaType /\ Requests(v, w, {r}, new, "stop", TRUE) /\ Others(v, u)
  BY <1>0, <1>3, FinishedIs
<1>4. CASE fail = "none"
  <2> DEFINE a == SendStop(x, TRUE)
  <2>1. u = Reply(a, "add_failed") /\ Ready(x, "none")
    BY <1>1, <1>4 DEF StartTimedOut
  <2> HIDE DEF x, u, v
  <2>2. /\ a \in WmaType /\ a.paused /\ a.cmds = Append(x.cmds, "stop")
        /\ a.handle = x.handle /\ a.bss_started = x.bss_started
        /\ a.del_staself_req = x.del_staself_req /\ a.peer = x.peer
        /\ a.locks = x.locks /\ a.stale = x.stale /\ a.crashed = x.crashed /\ a.umac = x.umac
        /\ \E q \in Reqs : Requests(a, x, {}, {q}, "stop", TRUE)
    BY <2>1, SendStopIs
  <2> HIDE DEF a
  <2>3. PICK q \in Reqs : Requests(a, x, {}, {q}, "stop", TRUE)
    BY <2>2
  <2>4. Told(u, a, "add_failed")
    BY <2>1, <2>2, RepliedIs
  <2>5. u \in WmaType /\ Requests(u, x, {}, {q}, "stop", TRUE)
    BY <2>3, <2>4 DEF Told, Requests
  <2>6. v \in WmaType /\ Requests(v, w, {r}, {q}, "stop", TRUE) /\ Others(v, u)
    BY <1>3, <2>5
  <2>7. /\ u.umac = Hear("add_failed", w.umac) /\ u.paused /\ u.cmds = Append(w.cmds, "stop")
        /\ u.handle = w.handle /\ u.bss_started = w.bss_started
        /\ u.del_staself_req = w.del_staself_req /\ u.peer = w.peer
        /\ u.locks = w.locks /\ u.stale = w.stale /\ u.crashed = w.crashed
    BY <1>2, <2>2, <2>4 DEF Told, Others
  <2>8. StartOver(v, w, r, fail)
    BY <1>4, <2>6, <2>7 DEF StartOver, Others
  <2> QED  BY <2>8 DEF v, u, x
<1>5. CASE fail # "none"
  <2>1. u = GivenUp(x, fail, TRUE, "add_failed")
    BY <1>5 DEF StartTimedOut, Ready, Failures, GivenUp
  <2>1a. Ready(x, fail)
    BY <1>1
  <2>1b. fail = "send" => Found(x, "stop") = 0
    <3>1. \A q : q \in Range(x.respq) => q \in Range(w.respq)
      BY <1>0, UnlinkIs
    <3> HIDE DEF x
    <3> QED  BY <1>0, <1>1, <1>2, <3>1, FoundIs DEF Kinds
  <2> HIDE DEF x, u, v
  <2>2. /\ u \in WmaType /\ u.umac = Hear("add_failed", x.umac) /\ ~u.peer /\ u.cmds = x.cmds
        /\ u.handle = x.handle /\ u.bss_started = x.bss_started
        /\ u.del_staself_req = x.del_staself_req
        /\ u.locks = x.locks /\ u.stale = x.stale /\ u.crashed = x.crashed
        /\ Requests(u, x, {}, {}, "stop", TRUE)
    <3>1. GivenUpTo(u, x, TRUE, "add_failed")
      BY <1>5, <2>1, <2>1a, <2>1b, Unsent
    <3> QED  BY <3>1 DEF GivenUpTo
  <2>3. {} \in SUBSET Reqs
    OBVIOUS
  <2>4. v \in WmaType /\ Requests(v, w, {r}, {}, "stop", TRUE) /\ Others(v, u)
    BY <1>3, <2>2, <2>3
  <2>5. /\ u.umac = Hear("add_failed", w.umac)
        /\ u.handle = w.handle /\ u.bss_started = w.bss_started
        /\ u.del_staself_req = w.del_staself_req /\ ~u.peer
        /\ u.locks = w.locks /\ u.stale = w.stale /\ u.crashed = w.crashed /\ u.cmds = w.cmds
    BY <1>2, <2>2 DEF Others
  <2>6. StartOver(v, w, r, fail)
    BY <1>5, <2>4, <2>5 DEF StartOver, Others
  <2> QED  BY <2>6 DEF v, u, x
<1> QED  BY <1>4, <1>5

\* The deletion r is over, by its answer or its timeout.
DelOver(v, w, r) ==
    /\ v \in WmaType /\ v.peer = w.peer /\ v.cmds = w.cmds
    /\ Requests(v, w, {r}, {}, "del", FALSE)
    /\ \/ /\ w.del_staself_req /\ ~v.handle /\ ~v.bss_started /\ ~v.del_staself_req
          /\ ~v.paused /\ v.locks = {} /\ ~v.stale /\ v.crashed = w.crashed
          /\ v.umac = Hear("self_deleted", w.umac)
       \/ ~w.del_staself_req

\* The timeout and the answer of a deletion end that way.
LEMMA DelOverIs ==
    ASSUME NEW w, NEW fail, Ready(w, fail), NEW r \in Reqs, r \in Range(w.respq)
    PROVE  /\ DelOver(Destroy(DelTimedOut(Unlink(w, r)), r), w, r)
           /\ sync => DelOver(Destroy(DetachCallback([Unlink(w, r) EXCEPT !.locks = {}]), r), w, r)
<1> DEFINE x == Unlink(w, r)
           y == [x EXCEPT !.locks = {}]
           z == Reply(Zeroed(y), "self_deleted")
<1>0. w \in WmaType /\ Tidy(w)
  BY DEF Ready
<1>1. x \in WmaType /\ x = [w EXCEPT !.respq = RemoveFirst(w.respq, r)]
  BY <1>0, UnlinkIs
<1>2. Others(x, w) /\ x.alloc = w.alloc
  BY <1>0, <1>1 DEF Others, WmaType
<1>3. ASSUME NEW u \in WmaType, u.alloc = x.alloc, u.respq = x.respq
      PROVE  LET v == Destroy(u, r)
             IN  v \in WmaType /\ Requests(v, w, {r}, {}, "del", FALSE) /\ Others(v, u)
  <2>1. Requests(u, x, {}, {}, "del", FALSE) /\ {} \in SUBSET Reqs
    BY <1>1, <1>3, SameRequests
  <2> QED  BY <1>0, <2>1, FinishedIs
<1> HIDE DEF x
<1>4. /\ y \in WmaType /\ y.locks = {} /\ y.umac = w.umac /\ y.cmds = w.cmds /\ y.peer = w.peer
      /\ y.crashed = w.crashed /\ y.alloc = x.alloc /\ y.respq = x.respq
      /\ y.del_staself_req = w.del_staself_req
  BY <1>1, <1>2, ZenonT(60) DEF Others, WmaType
<1> HIDE DEF y
<1>5. /\ z \in WmaType /\ Gone(z, y) /\ z.cmds = y.cmds /\ z.peer = y.peer
      /\ z.crashed = y.crashed /\ z.alloc = y.alloc /\ z.respq = y.respq
  BY <1>4, ClearedIs
<1> HIDE DEF z
<1>6. CASE w.del_staself_req
  <2>1. DelTimedOut(x) = z
    BY <1>2, <1>6 DEF DelTimedOut, Others, y, z
  <2>2. sync => DetachCallback(y) = z
    BY <1>4, <1>6 DEF DetachCallback, z
  <2> DEFINE v == Destroy(z, r)
  <2>3. v \in WmaType /\ Requests(v, w, {r}, {}, "del", FALSE) /\ Others(v, z)
    BY <1>3, <1>4, <1>5
  <2> HIDE DEF v
  <2>4. DelOver(v, w, r)
    BY <1>4, <1>5, <1>6, <2>3 DEF DelOver, Others, Gone
  <2> QED  BY <2>1, <2>2, <2>4 DEF v, x, y
<1>7. CASE ~w.del_staself_req
  <2> DEFINE c == [x EXCEPT !.crashed = TRUE]
             v == Destroy(c, r)
             t == Destroy(y, r)
  <2>1. DelTimedOut(x) = c /\ x.del_staself_req = w.del_staself_req
    BY <1>2, <1>7 DEF DelTimedOut, Others
  <2>2. sync => DetachCallback(y) = y
    BY <1>4, <1>7 DEF DetachCallback
  <2>3. c \in WmaType /\ c.alloc = x.alloc /\ c.respq = x.respq /\ c.peer = w.peer /\ c.cmds = w.cmds
    BY <1>1, <1>2 DEF WmaType, Others
  <2> HIDE DEF c
  <2>4. v \in WmaType /\ Requests(v, w, {r}, {}, "del", FALSE) /\ Others(v, c)
    BY <1>3, <2>3
  <2>5. t \in WmaType /\ Requests(t, w, {r}, {}, "del", FALSE) /\ Others(t, y)
    BY <1>3, <1>4
  <2> HIDE DEF v, t
  <2>6. DelOver(v, w, r)
    BY <1>7, <2>3, <2>4 DEF DelOver, Others
  <2>7. DelOver(t, w, r)
    BY <1>4, <1>7, <2>5 DEF DelOver, Others
  <2> QED  BY <2>1, <2>2, <2>6, <2>7 DEF v, t, x, y
<1> QED  BY <1>6, <1>7

\* The outcomes of wma_vdev_delete_handler.
DeletedTo(v, w) ==
    \/ v = w /\ \A r \in Reqs : r \in Range(w.respq) => w.alloc[r].kind # "del"
    \/ \E r \in Reqs :
          /\ r \in Range(w.respq) /\ w.alloc[r].kind = "del"
          /\ DelOver(v, w, r)

\* wma_vdev_delete_handler has one of these outcomes.
LEMMA DeletedIs ==
    ASSUME NEW w, NEW fail, Ready(w, fail)
    PROVE  DeletedTo(Deleted(w), w)
<1> USE DEF DeletedTo
<1> DEFINE v == Deleted(w)
           r == Found(w, "del")
<1>0. w \in WmaType
  BY DEF Ready
<1>1. CASE r = 0
  <2>1. v = w
    BY <1>1 DEF Deleted
  <2>2. \A q \in Reqs : q \in Range(w.respq) => w.alloc[q].kind # "del"
    BY <1>0, <1>1, FoundIs DEF Kinds
  <2> QED  BY <2>1, <2>2
<1>2. CASE r # 0
  <2>1. r \in Reqs /\ r \in Range(w.respq) /\ w.alloc[r].kind = "del"
    BY <1>0, <1>2, FoundIs DEF Kinds
  <2>2. v = Destroy(DetachCallback([Unlink(w, r) EXCEPT !.locks = {}]), r)
    BY <1>2 DEF Deleted
  <2> HIDE DEF r, v
  <2>3. sync
    BY <2>1 DEF Ready
  <2>4. DelOver(v, w, r)
    BY <2>1, <2>2, <2>3, DelOverIs
  <2> QED  BY <2>1, <2>4 DEF v
<1> QED  BY <1>1, <1>2

-----------------------------------------------------------------------------
(* The requests and their timers *)

\* A timer message of r is queued or being handled.
Posted(r) == r \in Range(sysq) \/ mc = Timer(r)

SameKind(a, b) == wma.alloc[a].kind = wma.alloc[b].kind

\* The queue holds the allocated requests, each once; a request whose timer does
\* not run has one message; requests of a kind expire in the order of the queue,
\* and none while its answer is handled; a deletion the target does not answer is
\* not kept.
QueueInv ==
    /\ \A r \in Reqs : r \in Range(wma.respq) <=> wma.alloc[r].kind # "none"
    /\ \A r \in Reqs : ~Precedes(wma.respq, r, r)
    /\ \A r \in Reqs : Posted(r) <=> wma.alloc[r].kind # "none" /\ ~wma.alloc[r].running
    /\ \A r \in Reqs : ~Precedes(sysq, r, r) /\ ~(mc = Timer(r) /\ r \in Range(sysq))
    /\ \A a, b \in Reqs : Precedes(wma.respq, a, b) /\ SameKind(a, b) /\ ~wma.alloc[b].running
                             => ~wma.alloc[a].running
    /\ \A a, b \in Reqs :
          /\ SameKind(a, b)
          /\ Precedes(sysq, a, b) \/ (mc = Timer(a) /\ b \in Range(sysq))
          => Precedes(wma.respq, a, b)
    /\ \A k \in Kinds : mc.type \in AnswersTo(k) =>
          \A r \in Reqs : wma.alloc[r].kind = k => wma.alloc[r].running
    /\ ~sync => \A r \in Reqs : wma.alloc[r].kind # "del"

\* Messages are told apart by their type, timers also by their request.
LEMMA Messages ==
    /\ \A r, q \in Reqs : Timer(r) = Timer(q) <=> r = q
    /\ \A r \in Reqs : Timer(r).type = "timer" /\ Timer(r).req = r
    /\ \A r \in Reqs, t \in MsgTypes \cup {"none"} : Timer(r) # Msg(t)
    /\ \A t : Msg(t).type = t
    /\ \A t \in MsgTypes : Msg(t) # NoMsg
    /\ NoMsg.type = "none" /\ \A r \in Reqs : Timer(r) # NoMsg
BY DEF Timer, Msg, NoMsg, MsgTypes

\* The answers to each kind of request.
LEMMA Answers ==
    /\ AnswersTo("start") = {"start_ok", "start_failed"}
    /\ AnswersTo("stop") = {"stopped"}
    /\ AnswersTo("del") = {"deleted"}
    /\ \A k \in Kinds : "none" \notin AnswersTo(k)
BY DEF AnswersTo, Kinds

\* Every handler starts with its requests in order and memory for one, or fails for want of it.
LEMMA ReadyNow ==
    ASSUME TypeOK, QueueInv, NEW fail \in Failures, Free(wma) = {} => fail = "memory"
    PROVE  Ready(wma, fail) /\ wma \in WmaType
<1>1. wma \in WmaType
  BY DEF TypeOK
<1>2. \A r \in Range(wma.respq) : r \in Reqs
  <2>1. wma.respq \in Seq(Reqs)
    BY <1>1 DEF WmaType
  <2> QED  BY <2>1, Empty
<1>3. Tidy(wma)
  BY <1>2 DEF QueueInv, Tidy
<1> QED  BY <1>1, <1>3 DEF Ready, QueueInv

\* A handler keeps the queue in order.
LEMMA QueueKept ==
    ASSUME TypeOK, QueueInv, wma' \in WmaType, NEW gone \in SUBSET Reqs, NEW new \in SUBSET Reqs,
           NEW k \in Kinds, NEW own, Requests(wma', wma, gone, new, k, own),
           \A r \in gone : r \in Range(wma.respq) /\ (mc = Timer(r) \/ wma.alloc[r].running),
           \A r \in Reqs : mc = Timer(r) => r \in gone,
           k = "del" => sync \/ new = {},
           sysq' = sysq, mc' = NoMsg, sync' = sync
    PROVE  QueueInv'
<1>1. /\ \A r \in new : r \notin Range(wma.respq) /\ r \notin Range(sysq) /\ r \notin gone
      /\ \A r \in gone : r \notin Range(sysq)
  BY DEF QueueInv, Requests, NoReq, Posted
<1>2. \A r \in Reqs : r \notin new /\ r \notin gone => wma'.alloc[r] = wma.alloc[r]
  BY DEF Requests
<1>3. \A r \in new : wma'.alloc[r].kind = k /\ wma'.alloc[r].running /\ k # "none"
  BY DEF Requests, Kinds
<1>4. \A r \in gone : wma'.alloc[r].kind = "none"
  BY <1>1 DEF Requests, NoReq
<1>5. \A r \in Reqs : r \in Range(wma'.respq) <=> (r \in Range(wma.respq) /\ r \notin gone) \/ r \in new
  BY DEF Requests
<1>6. \A a, b \in Reqs :
          Precedes(wma'.respq, a, b)
             <=> /\ a \in Range(wma.respq) /\ a \notin gone
                 /\ (Precedes(wma.respq, a, b) /\ b \notin gone) \/ b \in new
  BY DEF Requests
<1>7. \A r \in Reqs : mc' # Timer(r)
  BY Messages
<1>8. \A a, b \in Reqs : Precedes(sysq, a, b) => a \in Range(sysq) /\ b \in Range(sysq)
  BY Empty DEF TypeOK
<1>9. \A a, b \in Reqs : Precedes(wma.respq, a, b) => a \in Range(wma.respq) /\ b \in Range(wma.respq)
  BY Empty DEF TypeOK, WmaType
<1>11. (\A r \in Reqs : r \in Range(wma.respq) <=> wma.alloc[r].kind # "none")'
  BY <1>2, <1>3, <1>4, <1>5 DEF QueueInv
<1>12. (\A r \in Reqs : ~Precedes(wma.respq, r, r))'
  BY <1>1, <1>6 DEF QueueInv
<1>13. (\A r \in Reqs : Posted(r) <=> wma.alloc[r].kind # "none" /\ ~wma.alloc[r].running)'
  <2> SUFFICES ASSUME NEW r \in Reqs
               PROVE  r \in Range(sysq) <=> wma'.alloc[r].kind # "none" /\ ~wma'.alloc[r].running
    BY <1>7 DEF Posted
  <2>1. CASE r \in new
    BY <1>1, <1>3, <2>1
  <2>2. CASE r \in gone
    BY <1>1, <1>4, <2>2
  <2>3. CASE r \notin new /\ r \notin gone
    BY <1>2, <2>3 DEF QueueInv, Posted
  <2> QED  BY <2>1, <2>2, <2>3
<1>14. (\A r \in Reqs : ~Precedes(sysq, r, r) /\ ~(mc = Timer(r) /\ r \in Range(sysq)))'
  BY <1>7 DEF QueueInv
<1>15. (\A a, b \in Reqs : Precedes(wma.respq, a, b) /\ SameKind(a, b) /\ ~wma.alloc[b].running
                             => ~wma.alloc[a].running)'
  <2> SUFFICES ASSUME NEW a \in Reqs, NEW b \in Reqs, Precedes(wma'.respq, a, b),
                      wma'.alloc[a].kind = wma'.alloc[b].kind, ~wma'.alloc[b].running
               PROVE  ~wma'.alloc[a].running
    BY DEF SameKind
  <2>1. a \in Range(wma.respq) /\ a \notin gone /\ Precedes(wma.respq, a, b) /\ b \notin gone /\ b \notin new
    BY <1>3, <1>6
  <2>2. a \notin new
    BY <1>1, <2>1
  <2> QED  BY <1>2, <2>1, <2>2 DEF QueueInv, SameKind
<1>16. (\A a, b \in Reqs :
          /\ SameKind(a, b)
          /\ Precedes(sysq, a, b) \/ (mc = Timer(a) /\ b \in Range(sysq))
          => Precedes(wma.respq, a, b))'
  <2> SUFFICES ASSUME NEW a \in Reqs, NEW b \in Reqs, Precedes(sysq, a, b),
                      wma'.alloc[a].kind = wma'.alloc[b].kind
               PROVE  Precedes(wma'.respq, a, b)
    BY <1>7 DEF SameKind
  <2>1. a \notin new /\ b \notin new /\ a \notin gone /\ b \notin gone
    BY <1>1, <1>8
  <2>2. Precedes(wma.respq, a, b)
    BY <1>2, <2>1 DEF QueueInv, SameKind
  <2> QED  BY <1>6, <1>9, <2>1, <2>2
<1>17. (\A k2 \in Kinds : mc.type \in AnswersTo(k2) =>
          \A r \in Reqs : wma.alloc[r].kind = k2 => wma.alloc[r].running)'
  BY Messages, Answers
<1>18. (~sync => \A r \in Reqs : wma.alloc[r].kind # "del")'
  <2> SUFFICES ASSUME ~sync, NEW r \in Reqs PROVE wma'.alloc[r].kind # "del"
    OBVIOUS
  <2>1. CASE r \in new
    BY <1>3, <2>1
  <2>2. CASE r \in gone
    BY <1>4, <2>2
  <2>3. CASE r \notin new /\ r \notin gone
    BY <1>2, <2>3 DEF QueueInv
  <2> QED  BY <2>1, <2>2, <2>3
<1> QED  BY <1>11, <1>12, <1>13, <1>14, <1>15, <1>16, <1>17, <1>18 DEF QueueInv, AnswersTo

\* Two requests are not each before the other.
LEMMA NotBoth ==
    ASSUME NEW S, NEW s \in Seq(S), \A x \in S : ~Precedes(s, x, x), NEW a \in S, NEW b \in S,
           Precedes(s, a, b)
    PROVE  ~Precedes(s, b, a)
<1> SUFFICES ASSUME Precedes(s, b, a) PROVE FALSE
  OBVIOUS
<1>1. PICK i, j \in 1..Len(s) : i < j /\ s[i] = a /\ s[j] = b
  BY DEF Precedes
<1>2. PICK m, n \in 1..Len(s) : m < n /\ s[m] = b /\ s[n] = a
  BY DEF Precedes
<1>3. ~(i < n) /\ ~(n < i)
  BY <1>1, <1>2 DEF Precedes
<1>4. ~(m < j) /\ ~(j < m)
  BY <1>1, <1>2 DEF Precedes
<1>5. i \in Int /\ j \in Int /\ m \in Int /\ n \in Int
  OBVIOUS
<1> QED  BY <1>1, <1>2, <1>3, <1>4, <1>5

\* The request found when a timer expires is the request of the timer.
LEMMA FoundIsExpired ==
    ASSUME TypeOK, QueueInv, NEW r \in Reqs, mc = Timer(r)
    PROVE  /\ wma.alloc[r].kind \in Kinds /\ r \in Range(wma.respq) /\ r # 0
           /\ Found(wma, wma.alloc[r].kind) = r
<1> DEFINE k == wma.alloc[r].kind
           f == Found(wma, k)
<1>1. wma \in WmaType /\ wma.respq \in Seq(Reqs)
  BY DEF TypeOK, WmaType
<1>2. k # "none" /\ ~wma.alloc[r].running
  BY DEF QueueInv, Posted
<1>3. k \in Kinds
  BY <1>1, <1>2 DEF WmaType, NoReq
<1>4. r \in Range(wma.respq) /\ r # 0
  BY <1>2, WmaAssumption DEF QueueInv, Reqs
<1> HIDE DEF k, f
<1>5. f = Found(wma, k) /\ wma.alloc[r].kind = k
  BY DEF f, k
<1>6. f \in Reqs /\ wma.alloc[f].kind = k
  <2>1. f # 0
    BY <1>1, <1>3, <1>4, <1>5, FoundIs
  <2> QED  BY <1>1, <1>3, <1>5, <2>1, FoundIs
<1>7. ASSUME f # r PROVE FALSE
  <2>1. Precedes(wma.respq, f, r)
    BY <1>1, <1>3, <1>4, <1>5, <1>7, FoundIs
  <2>2. ~wma.alloc[f].running
    BY <1>2, <1>5, <1>6, <2>1 DEF QueueInv, SameKind
  <2>3. Posted(f)
    BY <1>2, <1>5, <1>6, <2>2 DEF QueueInv
  <2>4. f \in Range(sysq)
    BY <1>6, <1>7, <2>3, Messages DEF Posted
  <2>5. Precedes(wma.respq, r, f)
    BY <1>5, <1>6, <2>4 DEF QueueInv, SameKind
  <2>6. ~Precedes(wma.respq, r, f)
    BY <1>1, <1>6, <2>1, NotBoth DEF QueueInv
  <2> QED  BY <2>5, <2>6
<1> QED  BY <1>3, <1>4, <1>5, <1>7 DEF k, f

\* wma_vdev_resp_timer.
TimedOutTo(v, w, r, fail) ==
    \/ w.alloc[r].kind = "start" /\ StartOver(v, w, r, fail)
    \/ /\ w.alloc[r].kind = "stop"
       /\ \/ w.handle /\ StopOver(v, w, r, TRUE)
          \/ /\ ~w.handle /\ v \in WmaType /\ Others(v, w)
             /\ Requests(v, w, {r}, {}, "del", FALSE)
    \/ w.alloc[r].kind = "del" /\ DelOver(v, w, r)

\* wma_vdev_resp_timer has one of these outcomes.
LEMMA TimedOutIs ==
    ASSUME TypeOK, QueueInv, NEW r \in Reqs, mc = Timer(r), NEW fail, Ready(wma, fail),
           wma.alloc[r].kind = "start" /\ fail = "send" => Found(wma, "stop") = 0
    PROVE  TimedOutTo(TimedOut(wma, r, fail), wma, r, fail)
<1> DEFINE v == TimedOut(wma, r, fail)
           k == wma.alloc[r].kind
<1>1. k \in Kinds /\ r \in Range(wma.respq) /\ r # 0 /\ Found(wma, k) = r
  BY FoundIsExpired
<1>2. wma \in WmaType /\ Tidy(wma)
  BY DEF Ready
<1>3. CASE k = "start"
  <2>1. v = Destroy(StartTimedOut(Unlink(wma, r), fail), r)
    BY <1>1, <1>3 DEF TimedOut
  <2> HIDE DEF v
  <2>2. StartOver(v, wma, r, fail)
    BY <1>1, <1>3, <2>1, StartOverIs
  <2> QED  BY <1>3, <2>2 DEF TimedOutTo, v
<1>4. CASE k = "stop"
  <2>1. v = Destroy(StopTimedOut(Unlink(wma, r), fail), r)
    BY <1>1, <1>4 DEF TimedOut
  <2>2. Unlink(wma, r).handle = wma.handle
    BY <1>2 DEF Unlink, WmaType
  <2>3. CASE wma.handle
    <3>1. v = Destroy(StopDone(Unlink(wma, r), TRUE, fail), r)
      BY <2>1, <2>2, <2>3 DEF StopTimedOut
    <3> HIDE DEF v
    <3>2. StopOver(v, wma, r, TRUE)
      BY <1>1, <3>1, StopOverIs
    <3> QED  BY <1>4, <2>3, <3>2 DEF TimedOutTo, v
  <2>4. CASE ~wma.handle
    <3>1. v = Release(wma, r)
      BY <2>1, <2>2, <2>4 DEF StopTimedOut, Release
    <3> HIDE DEF v
    <3>2. v \in WmaType /\ Requests(v, wma, {r}, {}, "del", FALSE) /\ Others(v, wma)
      BY <1>1, <1>2, <3>1, ReleasedIs
    <3> QED  BY <1>4, <2>4, <3>2 DEF TimedOutTo, v
  <2> QED  BY <2>3, <2>4
<1>5. CASE k = "del"
  <2>1. v = Destroy(DelTimedOut(Unlink(wma, r)), r)
    BY <1>1, <1>5 DEF TimedOut
  <2> HIDE DEF v
  <2>2. DelOver(v, wma, r)
    BY <1>1, <2>1, DelOverIs
  <2> QED  BY <1>5, <2>2 DEF TimedOutTo, v
<1> QED  BY <1>1, <1>3, <1>4, <1>5 DEF Kinds

\* What the MC thread does with each message, when a stop that cannot be made does not
\* take the request of another.
HandledTo(v, fail) ==
    \/ \E r \in Reqs : mc = Timer(r) /\ TimedOutTo(v, wma, r, fail)
    \/ mc = Msg("add_self") /\ AddSelfTo(v, wma, fail)
    \/ mc = Msg("del_self") /\ DetachTo(v, wma)
    \/ mc = Msg("add_bss") /\ AddBssTo(v, wma)
    \/ mc = Msg("del_bss") /\ DelBssTo(v, wma, fail)
    \/ mc = Msg("start_ok") /\ StartedTo(v, wma, TRUE, fail)
    \/ mc = Msg("start_failed") /\ StartedTo(v, wma, FALSE, fail)
    \/ mc = Msg("stopped") /\ StoppedTo(v, wma)
    \/ mc = Msg("deleted") /\ DeletedTo(v, wma)

\* Every handler has one of these outcomes.
LEMMA HandledIs ==
    ASSUME TypeOK, QueueInv, NEW fail \in Failures, mc # NoMsg, Free(wma) = {} => fail = "memory",
           ~(Unstopped(fail) /\ TakesOther(fail)), NEW v, v = Handled(fail)
    PROVE  HandledTo(v, fail)
<1> USE DEF HandledTo
<1>1. Ready(wma, fail) /\ v = Handled(fail) /\ mc # NoMsg
  BY ReadyNow
<1>2. CASE \E r \in Reqs : mc = Timer(r)
  <2>1. PICK r \in Reqs : mc = Timer(r)
    BY <1>2
  <2>2. v = TimedOut(wma, r, fail)
    BY <1>1, <2>1, Messages DEF Handled
  <2>3. TimedOutTo(v, wma, r, fail)
    <3>1. wma.alloc[r].kind = "start" /\ fail = "send" => Found(wma, "stop") = 0
      BY <2>1, Messages DEF Unstopped, TakesOther, Expired
    <3> QED  BY <1>1, <2>1, <2>2, <3>1, TimedOutIs
  <2> QED  BY <2>1, <2>3
<1>3. CASE \E t \in MsgTypes : mc = Msg(t)
  <2>1. PICK t \in MsgTypes : mc = Msg(t)
    BY <1>3
  <2>2. mc.type = t
    BY <2>1, Messages
  <2>3. CASE t = "add_self"
    <3>1. v = AddSelf(wma, fail)
      BY <1>1, <2>2, <2>3 DEF Handled
    <3> QED  BY <1>1, <2>1, <2>3, <3>1, AddSelfIs
  <2>4. CASE t = "del_self"
    <3>1. v = Detach(wma, fail)
      BY <1>1, <2>2, <2>4 DEF Handled
    <3> QED  BY <1>1, <2>1, <2>4, <3>1, DetachIs
  <2>5. CASE t = "add_bss"
    <3>1. v = AddBss(wma, fail)
      BY <1>1, <2>2, <2>5 DEF Handled
    <3> QED  BY <1>1, <2>1, <2>5, <3>1, AddBssIs
  <2>6. CASE t = "del_bss"
    <3>1. v = DelBss(wma, fail)
      BY <1>1, <2>2, <2>6 DEF Handled
    <3>2. wma.peer /\ wma.handle /\ fail = "send" => Found(wma, "stop") = 0
      BY <2>2, <2>6 DEF Unstopped, TakesOther
    <3> QED  BY <1>1, <2>1, <2>6, <3>1, <3>2, DelBssIs
  <2>7. CASE t = "start_ok"
    <3>1. v = Started(wma, TRUE, fail)
      BY <1>1, <2>2, <2>7 DEF Handled
    <3> QED  BY <1>1, <2>1, <2>7, <3>1, StartedIs
  <2>8. CASE t = "start_failed"
    <3>1. v = Started(wma, FALSE, fail)
      BY <1>1, <2>2, <2>8 DEF Handled
    <3> QED  BY <1>1, <2>1, <2>8, <3>1, StartedIs
  <2>9. CASE t = "stopped"
    <3>1. v = Stopped(wma, fail)
      BY <1>1, <2>2, <2>9 DEF Handled
    <3> QED  BY <1>1, <2>1, <2>9, <3>1, StoppedIs
  <2>10. CASE t = "deleted"
    <3>1. v = Deleted(wma)
      BY <1>1, <2>2, <2>10 DEF Handled
    <3> QED  BY <1>1, <2>1, <2>10, <3>1, DeletedIs
  <2> QED  BY <2>3, <2>4, <2>5, <2>6, <2>7, <2>8, <2>9, <2>10 DEF MsgTypes
<1> QED  BY <1>1, <1>2, <1>3 DEF TypeOK, NoMsg

\* A handler finishes the request of its timer or of its answer, if any.
LEMMA RequestsChange ==
    ASSUME TypeOK, QueueInv, NEW fail \in Failures, NEW v, HandledTo(v, fail)
    PROVE  /\ v \in WmaType
           /\ \E gone, new \in SUBSET Reqs, k \in Kinds, own \in BOOLEAN :
                 /\ Requests(v, wma, gone, new, k, own)
                 /\ \A r \in gone : r \in Range(wma.respq) /\ (mc = Timer(r) \/ wma.alloc[r].running)
                 /\ \A r \in Reqs : mc = Timer(r) => r \in gone
                 /\ k = "del" => sync \/ new = {}
<1> DEFINE Change(gone, new, k, own) ==
              /\ Requests(v, wma, gone, new, k, own)
              /\ \A r \in gone : r \in Range(wma.respq) /\ (mc = Timer(r) \/ wma.alloc[r].running)
              /\ \A r \in Reqs : mc = Timer(r) => r \in gone
              /\ k = "del" => sync \/ new = {}
           Goal == v \in WmaType /\ \E gone, new \in SUBSET Reqs, k \in Kinds, own \in BOOLEAN :
                                          Change(gone, new, k, own)
<1> SUFFICES Goal
  OBVIOUS
<1>0. /\ wma \in WmaType /\ "start" \in Kinds /\ "stop" \in Kinds /\ "del" \in Kinds
      /\ {} \in SUBSET Reqs /\ \A r \in Reqs : {r} \in SUBSET Reqs
  BY DEF TypeOK, Kinds
<1>1. ASSUME NEW r \in Reqs, mc = Timer(r), TimedOutTo(v, wma, r, fail)
      PROVE  Goal
  <2>1. /\ r \in Range(wma.respq) /\ \A q \in Reqs : mc = Timer(q) => q \in {r}
    BY <1>1, FoundIsExpired, Messages
  <2>2. ASSUME NEW new \in SUBSET Reqs, NEW k \in Kinds, NEW own \in BOOLEAN,
               Requests(v, wma, {r}, new, k, own), k = "del" => sync \/ new = {}, v \in WmaType
        PROVE  Goal
    <3>1. Change({r}, new, k, own)
      BY <1>1, <2>1, <2>2
    <3> HIDE DEF Change
    <3> QED  BY <1>0, <2>2, <3>1
  <2> HIDE DEF Goal
  <2>3. CASE StartOver(v, wma, r, fail)
    <3>1. v \in WmaType /\ \/ \E q \in Reqs : Requests(v, wma, {r}, {q}, "stop", TRUE)
                           \/ Requests(v, wma, {r}, {}, "stop", TRUE)
      BY <2>3 DEF StartOver
    <3> QED  BY <1>0, <2>2, <3>1
  <2>4. CASE \E answer : StopOver(v, wma, r, answer)
    <3>1. v \in WmaType /\ \/ sync /\ \E q \in Reqs : Requests(v, wma, {r}, {q}, "del", FALSE)
                           \/ Requests(v, wma, {r}, {}, "del", FALSE)
      <4>1. PICK answer : StopOver(v, wma, r, answer)
        BY <2>4
      <4> QED  BY <4>1, ZenonT(60) DEF StopOver
    <3> QED  BY <1>0, <2>2, <3>1
  <2>5. CASE DelOver(v, wma, r) \/ (v \in WmaType /\ Requests(v, wma, {r}, {}, "del", FALSE))
    <3>1. v \in WmaType /\ Requests(v, wma, {r}, {}, "del", FALSE)
      BY <2>5 DEF DelOver
    <3> QED  BY <1>0, <2>2, <3>1
  <2> QED  BY <1>1, <2>3, <2>4, <2>5 DEF TimedOutTo
<1>2. ASSUME NEW k0 \in Kinds, mc.type \in AnswersTo(k0), NEW r \in Reqs,
             r \in Range(wma.respq), wma.alloc[r].kind = k0,
             NEW new \in SUBSET Reqs, NEW k \in Kinds, NEW own \in BOOLEAN,
             Requests(v, wma, {r}, new, k, own), k = "del" => sync \/ new = {}, v \in WmaType
      PROVE  Goal
  <2>1. wma.alloc[r].running
    BY <1>2 DEF QueueInv
  <2>2. \A q \in Reqs : mc # Timer(q)
    BY <1>2, Messages, Answers DEF Kinds
  <2>3. Change({r}, new, k, own)
    BY <1>2, <2>1, <2>2
  <2> HIDE DEF Change
  <2> QED  BY <1>0, <1>2, <2>3
<1>3. ASSUME mc \in {Msg(t) : t \in MsgTypes}, NEW new \in SUBSET Reqs, NEW k \in Kinds, NEW own \in BOOLEAN,
             Requests(v, wma, {}, new, k, own), k = "del" => sync \/ new = {}, v \in WmaType
      PROVE  Goal
  <2>1. \A q \in Reqs : mc # Timer(q)
    BY <1>3, Messages
  <2>2. Change({}, new, k, own)
    BY <1>3, <2>1
  <2> HIDE DEF Change
  <2> QED  BY <1>0, <1>3, <2>2
<1>4. ASSUME mc \in {Msg(t) : t \in MsgTypes}, v \in WmaType,
             v.alloc = wma.alloc, v.respq = wma.respq
      PROVE  Goal
  <2>1. Requests(v, wma, {}, {}, "del", FALSE)
    BY <1>0, <1>4, SameRequests
  <2> HIDE DEF Goal
  <2> QED  BY <1>0, <1>3, <1>4, <2>1
<1> HIDE DEF Goal
<1>5. \A t \in MsgTypes : Msg(t) \in {Msg(u) : u \in MsgTypes} /\ Msg(t).type = t
  BY Messages
<1>6. CASE mc = Msg("add_self") /\ AddSelfTo(v, wma, fail)
  <2>1. v \in WmaType /\ v.alloc = wma.alloc /\ v.respq = wma.respq
    BY <1>6 DEF AddSelfTo
  <2> QED  BY <1>4, <1>5, <1>6, <2>1 DEF MsgTypes
<1>7. CASE mc = Msg("del_self") /\ DetachTo(v, wma)
  <2>0. mc \in {Msg(t) : t \in MsgTypes}
    BY <1>5, <1>7 DEF MsgTypes
  <2>1. CASE v = [wma EXCEPT !.del_staself_req = TRUE] \/ v = wma
    <3>1. v \in WmaType /\ v.alloc = wma.alloc /\ v.respq = wma.respq
      BY <1>0, <2>1 DEF WmaType
    <3> QED  BY <1>4, <2>0, <3>1
  <2>2. CASE Requests(v, wma, {}, {}, "del", FALSE)
    <3>1. v \in WmaType
      BY <1>7 DEF DetachTo
    <3> QED  BY <1>0, <1>3, <2>0, <2>2, <3>1
  <2>3. CASE Deleting(v, wma) /\ \E q \in Reqs : Requests(v, wma, {}, {q}, "del", FALSE)
    <3>1. sync /\ v \in WmaType
      BY <1>7, <2>3 DEF Deleting, DetachTo
    <3> QED  BY <1>0, <1>3, <2>0, <2>3, <3>1
  <2> QED  BY <1>7, <2>1, <2>2, <2>3 DEF DetachTo
<1>8. CASE mc = Msg("add_bss") /\ AddBssTo(v, wma)
  <2>0. mc \in {Msg(t) : t \in MsgTypes}
    BY <1>5, <1>8 DEF MsgTypes
  <2>1. v \in WmaType /\ \/ v.alloc = wma.alloc /\ v.respq = wma.respq
                         \/ \E q \in Reqs : Requests(v, wma, {}, {q}, "start", FALSE)
    BY <1>8 DEF AddBssTo
  <2> QED  BY <1>0, <1>3, <1>4, <2>0, <2>1
<1>9. CASE mc = Msg("del_bss") /\ DelBssTo(v, wma, fail)
  <2>0. mc \in {Msg(t) : t \in MsgTypes}
    BY <1>5, <1>9 DEF MsgTypes
  <2>1. v \in WmaType /\ \/ v.alloc = wma.alloc /\ v.respq = wma.respq
                         \/ Requests(v, wma, {}, {}, "stop", FALSE)
                         \/ \E q \in Reqs : Requests(v, wma, {}, {q}, "stop", FALSE)
    BY <1>9 DEF DelBssTo
  <2> QED  BY <1>0, <1>3, <1>4, <2>0, <2>1
<1>10. CASE mc \in {Msg("start_ok"), Msg("start_failed")} /\ \E ok : StartedTo(v, wma, ok, fail)
  <2>0. mc \in {Msg(t) : t \in MsgTypes} /\ mc.type \in AnswersTo("start")
    BY <1>5, <1>10, Answers DEF MsgTypes
  <2>1. CASE v = wma
    BY <1>0, <1>4, <2>0, <2>1
  <2>2. CASE v # wma
    <3>1. PICK r \in Reqs : /\ r \in Range(wma.respq) /\ wma.alloc[r].kind = "start"
                            /\ v \in WmaType /\ Requests(v, wma, {r}, {}, "start", FALSE)
      BY <1>10, <2>2 DEF StartedTo
    <3> QED  BY <1>0, <1>2, <2>0, <3>1
  <2> QED  BY <2>1, <2>2
<1>11. CASE mc = Msg("stopped") /\ StoppedTo(v, wma)
  <2>0. mc \in {Msg(t) : t \in MsgTypes} /\ mc.type \in AnswersTo("stop")
    BY <1>5, <1>11, Answers DEF MsgTypes
  <2>1. CASE v = wma
    BY <1>0, <1>4, <2>0, <2>1
  <2>2. CASE v # wma
    <3>1. PICK r \in Reqs :
             /\ r \in Range(wma.respq) /\ wma.alloc[r].kind = "stop"
             /\ \/ v \in WmaType /\ Requests(v, wma, {r}, {}, "del", FALSE)
                \/ \E answer : StopOver(v, wma, r, answer)
      BY <1>11, <2>2 DEF StoppedTo
    <3>2. v \in WmaType /\ \/ sync /\ \E q \in Reqs : Requests(v, wma, {r}, {q}, "del", FALSE)
                           \/ Requests(v, wma, {r}, {}, "del", FALSE)
      <4>1. CASE v \in WmaType /\ Requests(v, wma, {r}, {}, "del", FALSE)
        BY <4>1
      <4>2. CASE \E answer : StopOver(v, wma, r, answer)
        <5>1. PICK answer : StopOver(v, wma, r, answer)
          BY <4>2
        <5> QED  BY <5>1, ZenonT(60) DEF StopOver
      <4> QED  BY <3>1, <4>1, <4>2
    <3> QED  BY <1>0, <1>2, <2>0, <3>1, <3>2
  <2> QED  BY <2>1, <2>2
<1>12. CASE mc = Msg("deleted") /\ DeletedTo(v, wma)
  <2>0. mc \in {Msg(t) : t \in MsgTypes} /\ mc.type \in AnswersTo("del")
    BY <1>5, <1>12, Answers DEF MsgTypes
  <2>1. CASE v = wma
    BY <1>0, <1>4, <2>0, <2>1
  <2>2. CASE v # wma
    <3>1. PICK r \in Reqs : /\ r \in Range(wma.respq) /\ wma.alloc[r].kind = "del"
                            /\ DelOver(v, wma, r)
      BY <1>12, <2>2 DEF DeletedTo
    <3>2. v \in WmaType /\ Requests(v, wma, {r}, {}, "del", FALSE)
      BY <3>1 DEF DelOver
    <3> QED  BY <1>0, <1>2, <2>0, <3>1, <3>2
  <2> QED  BY <2>1, <2>2
<1> QED  BY <1>1, <1>6, <1>7, <1>8, <1>9, <1>10, <1>11, <1>12 DEF HandledTo

\* A lost response changes what the upper layers know and nothing else.
LEMMA UnheardIs ==
    ASSUME TypeOK, NEW h \in WmaType, NEW lost \in Losses
    PROVE  /\ Unheard(h, lost) \in WmaType
           /\ Unheard(h, lost).alloc = h.alloc /\ Unheard(h, lost).respq = h.respq
<1>0. wma \in WmaType
  BY DEF TypeOK
<1>1. CASE lost = "none"
  BY <1>1 DEF Unheard
<1>2. CASE lost = "last"
  <2> DEFINE u == [h.umac EXCEPT !.self = wma.umac.self]
  <2>1. u \in [bss : {"none", "adding", "up", "deleting"},
               self : {"gone", "adding", "here", "deleting"}, confused : BOOLEAN]
    BY <1>0 DEF WmaType
  <2>2. Unheard(h, lost) = [h EXCEPT !.umac = u]
    BY <1>2 DEF Unheard, WmaType
  <2> HIDE DEF u
  <2> QED  BY <2>1, <2>2 DEF WmaType
<1>3. CASE lost = "all"
  <2>1. Unheard(h, lost) = [h EXCEPT !.umac = wma.umac]
    BY <1>3 DEF Unheard
  <2> QED  BY <1>0, <2>1 DEF WmaType
<1> QED  BY <1>1, <1>2, <1>3 DEF Losses

\* A stop that cannot be made took the request of another, or it did not.
LEMMA NotOther ==
    ASSUME NEW fail, NEW lost, McHandles(fail, lost), "misremoved" \notin past'
    PROVE  ~(Unstopped(fail) /\ TakesOther(fail))
<1>1. Happened(fail) \subseteq past'
  BY DEF McHandles
<1>2. Unstopped(fail) /\ TakesOther(fail) => "misremoved" \in Happened(fail)
  BY DEF Happened, Mishaps
<1> QED  BY <1>1, <1>2

\* A handler keeps the requests and their timers in order.
LEMMA HandlesQueue ==
    ASSUME TypeOK, QueueInv, NEW fail \in Failures, NEW lost \in Losses, McHandles(fail, lost),
           "misremoved" \notin past'
    PROVE  TypeOK' /\ QueueInv'
<1> DEFINE h == Handled(fail)
<1>0. HandledTo(h, fail) /\ wma' = Unheard(h, lost)
  BY HandledIs, NotOther DEF McHandles
<1> HIDE DEF h
<1>1. PICK gone \in SUBSET Reqs, new \in SUBSET Reqs, k \in Kinds, own \in BOOLEAN :
         /\ Requests(h, wma, gone, new, k, own)
         /\ \A r \in gone : r \in Range(wma.respq) /\ (mc = Timer(r) \/ wma.alloc[r].running)
         /\ \A r \in Reqs : mc = Timer(r) => r \in gone
         /\ k = "del" => sync \/ new = {}
  BY <1>0, RequestsChange
<1>2. wma' \in WmaType /\ wma'.alloc = h.alloc /\ wma'.respq = h.respq
  BY <1>0, RequestsChange, UnheardIs
<1>2a. Requests(wma', wma, gone, new, k, own)
  BY <1>1, <1>2 DEF Requests
<1>3. sysq' = sysq /\ mc' = NoMsg /\ sync' = sync /\ wmaq' = wmaq /\ fwUp' = fwUp
  BY DEF McHandles
<1>4. QueueInv'
  BY <1>1, <1>2, <1>2a, <1>3, QueueKept
<1>5. past' \subseteq Mishaps
  <2>1. past \subseteq Mishaps /\ Happened(fail) \subseteq Mishaps /\ "unheard" \in Mishaps
    BY DEF TypeOK, Happened, Mishaps
  <2> QED  BY <2>1 DEF McHandles
<1>6. TypeOK'
  BY <1>2, <1>3, <1>5 DEF TypeOK, NoMsg
<1> QED  BY <1>4, <1>6

\* Of two entries of a queue one is before the other.
LEMMA OneBefore ==
    ASSUME NEW S, NEW s \in Seq(S), NEW a, NEW b, a \in Range(s), b \in Range(s), a # b
    PROVE  Precedes(s, a, b) \/ Precedes(s, b, a)
<1>1. PICK i \in 1..Len(s) : s[i] = a
  BY RangeIs
<1>2. PICK j \in 1..Len(s) : s[j] = b
  BY RangeIs
<1>3. i < j \/ j < i
  BY <1>1, <1>2
<1> QED  BY <1>1, <1>2, <1>3 DEF Precedes

\* The MC thread keeps them in order when it takes a message.
LEMMA TakesQueue ==
    ASSUME TypeOK, QueueInv, McTakes
    PROVE  TypeOK' /\ QueueInv'
<1>0. mc = NoMsg /\ wma' = wma /\ sync' = sync /\ past' = past /\ fwUp' = fwUp
  BY DEF McTakes
<1>1. CASE sysq # <<>> /\ mc' = Timer(Head(sysq)) /\ sysq' = Tail(sysq) /\ wmaq' = wmaq
  <2> DEFINE h == Head(sysq)
  <2>1. /\ h \in Reqs /\ sysq' \in Seq(Reqs)
        /\ \A y : y \in Range(sysq) <=> y = h \/ y \in Range(sysq')
        /\ \A a, b : Precedes(sysq, a, b)
                       <=> (a = h /\ b \in Range(sysq')) \/ Precedes(sysq', a, b)
    BY <1>1, Shortened DEF TypeOK
  <2>2. mc' = Timer(h)
    BY <1>1
  <2> HIDE DEF h
  <2>3. TypeOK'
    BY <1>0, <1>1, <2>1, <2>2 DEF TypeOK
  <2>4. \A r \in Reqs : mc' = Timer(r) <=> r = h
    BY <2>1, <2>2, Messages
  <2>5. \A r \in Reqs : Posted(r)' <=> Posted(r)
    BY <1>0, <2>1, <2>4, Messages DEF Posted
  <2>6. \A r \in Reqs : ~Precedes(sysq', r, r) /\ ~(mc' = Timer(r) /\ r \in Range(sysq'))
    BY <2>1, <2>4 DEF QueueInv
  <2>7. \A a, b \in Reqs :
           Precedes(sysq', a, b) \/ (mc' = Timer(a) /\ b \in Range(sysq')) => Precedes(sysq, a, b)
    BY <2>1, <2>4
  <2>8. \A k \in Kinds : mc'.type \notin AnswersTo(k)'
    BY <2>1, <2>2, Messages, Answers DEF Kinds, AnswersTo
  <2> QED  BY <1>0, <2>3, <2>5, <2>6, <2>7, <2>8 DEF QueueInv, SameKind
<1>2. CASE /\ sysq = <<>> /\ wmaq # <<>>
           /\ mc' = Msg(Head(wmaq)) /\ wmaq' = Tail(wmaq) /\ sysq' = sysq
  <2>1. Head(wmaq) \in MsgTypes /\ wmaq' \in Seq(MsgTypes)
    BY <1>2, Shortened DEF TypeOK
  <2>2. TypeOK'
    BY <1>0, <1>2, <2>1 DEF TypeOK
  <2>3. \A r \in Reqs : mc' # Timer(r) /\ mc # Timer(r)
    BY <1>0, <1>2, <2>1, Messages
  <2>4. \A r \in Reqs : r \notin Range(sysq)
    BY <1>2, Empty DEF TypeOK
  <2>5. \A r \in Reqs : ~Posted(r) /\ ~Posted(r)'
    BY <1>2, <2>3, <2>4 DEF Posted
  <2>6. \A r \in Reqs : wma.alloc[r].kind # "none" => wma.alloc[r].running
    BY <2>5 DEF QueueInv
  <2>7. \A k \in Kinds : k # "none"
    BY DEF Kinds
  <2> QED  BY <1>0, <1>2, <2>2, <2>3, <2>5, <2>6, <2>7 DEF QueueInv, SameKind
<1> QED  BY <1>1, <1>2 DEF McTakes

\* A timer that expires keeps them in order, unless its answer is being handled.
LEMMA ExpireQueue ==
    ASSUME TypeOK, QueueInv, NEW r \in Reqs, Expire(r, TRUE), "raced" \notin past'
    PROVE  TypeOK' /\ QueueInv'
<1>0. /\ wma \in WmaType /\ wma.alloc[r].running /\ IsOldest(r)
      /\ sysq' = Append(sysq, r) /\ mc' = mc /\ sync' = sync /\ wmaq' = wmaq /\ fwUp' = fwUp
      /\ wma' = [wma EXCEPT !.alloc[r].running = FALSE]
  BY DEF Expire, TypeOK
<1>1. mc.type \notin AnswersTo(wma.alloc[r].kind) /\ past' = past
  BY DEF Expire
<1>2. wma.alloc[r].kind \in Kinds /\ wma.alloc[r] \in [kind : Kinds, own : BOOLEAN, running : BOOLEAN]
  BY <1>0 DEF WmaType, NoReq
<1>3. /\ wma'.alloc = [wma.alloc EXCEPT ![r] = [wma.alloc[r] EXCEPT !.running = FALSE]]
      /\ wma'.respq = wma.respq
  BY <1>0 DEF WmaType
<1>4. /\ \A q \in Reqs : q # r => wma'.alloc[q] = wma.alloc[q]
      /\ wma'.alloc[r].kind = wma.alloc[r].kind /\ ~wma'.alloc[r].running
  BY <1>0, <1>2, <1>3 DEF WmaType
<1>5. \A q \in Reqs : wma'.alloc[q].kind = wma.alloc[q].kind
  BY <1>4
<1>6. /\ sysq' \in Seq(Reqs)
      /\ \A y : y \in Range(sysq') <=> y \in Range(sysq) \/ y = r
      /\ \A a, b : Precedes(sysq', a, b) <=> Precedes(sysq, a, b) \/ (a \in Range(sysq) /\ b = r)
  BY <1>0, Appended DEF TypeOK
<1>7. TypeOK'
  <2>1. [wma.alloc[r] EXCEPT !.running = FALSE] \in [kind : Kinds, own : BOOLEAN, running : BOOLEAN]
    BY <1>2
  <2>2. [wma.alloc EXCEPT ![r] = [wma.alloc[r] EXCEPT !.running = FALSE]]
          \in [Reqs -> [kind : Kinds, own : BOOLEAN, running : BOOLEAN] \cup {NoReq}]
    BY <1>0, <2>1 DEF WmaType
  <2>3. wma' \in WmaType
    BY <1>0, <2>2 DEF WmaType
  <2> QED  BY <1>0, <1>1, <1>6, <2>3 DEF TypeOK
<1>8. ~Posted(r) /\ r \in Range(wma.respq) /\ wma.alloc[r].kind # "none"
  BY <1>0, <1>2 DEF QueueInv, Kinds
<1>9. \A q \in Reqs : Posted(q)' <=> Posted(q) \/ q = r
  BY <1>0, <1>6 DEF Posted
<1>10. \A a \in Reqs : Posted(a) /\ wma.alloc[a].kind = wma.alloc[r].kind => Precedes(wma.respq, a, r)
  <2> SUFFICES ASSUME NEW a \in Reqs, Posted(a), wma.alloc[a].kind = wma.alloc[r].kind
               PROVE  Precedes(wma.respq, a, r)
    OBVIOUS
  <2>1. a # r /\ ~wma.alloc[a].running /\ a \in Range(wma.respq)
    BY <1>8 DEF QueueInv
  <2>2. ~Precedes(wma.respq, r, a)
    BY <1>0, <2>1 DEF QueueInv, SameKind
  <2>3. wma.respq \in Seq(Reqs)
    BY <1>0 DEF WmaType
  <2> QED  BY <1>8, <2>1, <2>2, <2>3, OneBefore
<1>11. \A a \in Reqs : Precedes(wma.respq, a, r) /\ wma.alloc[a].kind = wma.alloc[r].kind
                          => ~wma.alloc[a].running
  <2>1. DOMAIN wma.respq = 1..Len(wma.respq)
    BY <1>0 DEF WmaType
  <2> QED  BY <1>0, <2>1 DEF IsOldest, Precedes
<1>21. (\A q \in Reqs : q \in Range(wma.respq) <=> wma.alloc[q].kind # "none")'
  BY <1>3, <1>5 DEF QueueInv
<1>22. (\A q \in Reqs : ~Precedes(wma.respq, q, q))'
  BY <1>3 DEF QueueInv
<1>23. (\A q \in Reqs : Posted(q) <=> wma.alloc[q].kind # "none" /\ ~wma.alloc[q].running)'
  BY <1>4, <1>8, <1>9 DEF QueueInv
<1>24. (\A q \in Reqs : ~Precedes(sysq, q, q) /\ ~(mc = Timer(q) /\ q \in Range(sysq)))'
  BY <1>0, <1>6, <1>8 DEF QueueInv, Posted
<1>25. (\A a, b \in Reqs : Precedes(wma.respq, a, b) /\ SameKind(a, b) /\ ~wma.alloc[b].running
                             => ~wma.alloc[a].running)'
  <2> SUFFICES ASSUME NEW a \in Reqs, NEW b \in Reqs, Precedes(wma.respq, a, b),
                      wma.alloc[a].kind = wma.alloc[b].kind, ~wma'.alloc[b].running
               PROVE  ~wma'.alloc[a].running
    BY <1>3, <1>5 DEF SameKind
  <2>1. ~wma.alloc[a].running
    BY <1>4, <1>11 DEF QueueInv, SameKind
  <2> QED  BY <1>4, <2>1
<1>26. (\A a, b \in Reqs :
          /\ SameKind(a, b)
          /\ Precedes(sysq, a, b) \/ (mc = Timer(a) /\ b \in Range(sysq))
          => Precedes(wma.respq, a, b))'
  BY <1>0, <1>3, <1>5, <1>6, <1>10 DEF QueueInv, SameKind, Posted
<1>27. (\A k \in Kinds : mc.type \in AnswersTo(k) =>
          \A q \in Reqs : wma.alloc[q].kind = k => wma.alloc[q].running)'
  BY <1>0, <1>1, <1>4 DEF QueueInv, AnswersTo
<1>28. (~sync => \A q \in Reqs : wma.alloc[q].kind # "del")'
  BY <1>0, <1>5 DEF QueueInv
<1> QED  BY <1>7, <1>21, <1>22, <1>23, <1>24, <1>25, <1>26, <1>27, <1>28 DEF QueueInv

\* The commands and what the upper layers know do not matter to the queue.
LEMMA QueueSame ==
    ASSUME QueueInv, wma'.alloc = wma.alloc, wma'.respq = wma.respq,
           sysq' = sysq, mc' = mc, sync' = sync
    PROVE  QueueInv'
BY DEF QueueInv, Posted, SameKind, AnswersTo

\* A step of the target does not touch the requests.
LEMMA TargetQueue ==
    ASSUME TypeOK, QueueInv, TargetStep
    PROVE  TypeOK' /\ QueueInv'
<1> DEFINE cmd == Head(wma.cmds)
           ans(ok) == CASE cmd = "start" -> <<IF ok THEN "start_ok" ELSE "start_failed">>
                        [] cmd = "stop" -> <<"stopped">>
                        [] cmd = "del" /\ sync -> <<"deleted">>
                        [] OTHER -> <<>>
<1>0. wma \in WmaType /\ wma.cmds # <<>> /\ wma.cmds \in Seq(Kinds \cup {"create"})
  BY DEF TypeOK, WmaType, TargetStep
<1>1. Tail(wma.cmds) \in Seq(Kinds \cup {"create"})
  BY <1>0
<1>2. wma' = [wma EXCEPT !.cmds = Tail(wma.cmds)] /\ sysq' = sysq /\ mc' = mc /\ sync' = sync /\ past' = past
  BY <1>0 DEF TargetStep
<1>3. wma' \in WmaType /\ wma'.alloc = wma.alloc /\ wma'.respq = wma.respq
  BY <1>0, <1>1, <1>2 DEF WmaType
<1>4. PICK ok \in BOOLEAN, lost \in BOOLEAN :
         /\ fwUp' = (cmd = "start" /\ ok)
         /\ wmaq' = IF lost THEN wmaq ELSE wmaq \o ans(ok)
  BY DEF TargetStep
<1>5. ans(ok) \in Seq(MsgTypes)
  <2>1. <<"start_ok">> \in Seq(MsgTypes) /\ <<"start_failed">> \in Seq(MsgTypes)
        /\ <<"stopped">> \in Seq(MsgTypes) /\ <<"deleted">> \in Seq(MsgTypes) /\ <<>> \in Seq(MsgTypes)
    BY DEF MsgTypes
  <2> HIDE DEF cmd
  <2> QED  BY <2>1
<1> HIDE DEF ans
<1>6. wmaq' \in Seq(MsgTypes)
  BY <1>4, <1>5, Joined DEF TypeOK
<1>7. fwUp' \in BOOLEAN
  BY <1>4
<1>8. TypeOK'
  BY <1>2, <1>3, <1>6, <1>7 DEF TypeOK
<1> QED  BY <1>2, <1>3, <1>8, QueueSame

\* A request of the upper layers does not touch those of WMA.
LEMMA UmacQueue ==
    ASSUME TypeOK, QueueInv, UmacStep
    PROVE  TypeOK' /\ QueueInv'
<1>0. wma \in WmaType
  BY DEF TypeOK
<1>1. PICK m \in MsgTypes, u \in [bss : {"none", "adding", "up", "deleting"},
             self : {"gone", "adding", "here", "deleting"}, confused : BOOLEAN] : Ask(m, u)
  BY <1>0 DEF UmacStep, WmaType, MsgTypes
<1>2. /\ wma' = [wma EXCEPT !.umac = u] /\ wmaq' = Append(wmaq, m)
      /\ fwUp' = fwUp /\ sysq' = sysq /\ mc' = mc /\ sync' = sync /\ past' = past
  BY <1>1 DEF Ask
<1>3. wma' \in WmaType /\ wma'.alloc = wma.alloc /\ wma'.respq = wma.respq
  BY <1>0, <1>2 DEF WmaType
<1>4. wmaq' \in Seq(MsgTypes)
  BY <1>2, Appended DEF TypeOK
<1>5. TypeOK'
  BY <1>2, <1>3, <1>4 DEF TypeOK
<1> QED  BY <1>2, <1>3, <1>5, QueueSame

\* The wake lock does not matter to the requests.
LEMMA LapseIs ==
    ASSUME TypeOK, WakeLockLapses
    PROVE  /\ wma' \in WmaType /\ wma'.locks = wma.locks \ {"wake"}
           /\ wma'.alloc = wma.alloc /\ wma'.respq = wma.respq /\ wma'.handle = wma.handle
           /\ wma'.bss_started = wma.bss_started /\ wma'.del_staself_req = wma.del_staself_req
           /\ wma'.paused = wma.paused /\ wma'.stale = wma.stale /\ wma'.peer = wma.peer
           /\ wma'.crashed = wma.crashed /\ wma'.cmds = wma.cmds /\ wma'.umac = wma.umac
           /\ fwUp' = fwUp /\ wmaq' = wmaq /\ sysq' = sysq /\ mc' = mc /\ sync' = sync /\ past' = past
BY DEF WakeLockLapses, TypeOK, WmaType

\* When the wake lock lapses the requests are as they were.
LEMMA LapseQueue ==
    ASSUME TypeOK, QueueInv, WakeLockLapses
    PROVE  TypeOK' /\ QueueInv'
<1>1. TypeOK'
  BY LapseIs DEF TypeOK
<1> QED  BY <1>1, LapseIs, QueueSame

\* No timer has expired while its answer was handled or without posting its message,
\* and no stop was removed in the place of another.
Calm == past \cap {"raced", "timer_lost", "misremoved"} = {}

CalmQueue == Calm => TypeOK /\ QueueInv

\* At first there are no requests.
LEMMA QueueInit ==
    ASSUME Init
    PROVE  TypeOK /\ QueueInv
<1>1. TypeOK
  <2>1. <<>> \in Seq(Reqs) /\ <<>> \in Seq(Kinds \cup {"create"}) /\ <<>> \in Seq(MsgTypes)
    OBVIOUS
  <2>2. [r \in Reqs |-> NoReq] \in [Reqs -> [kind : Kinds, own : BOOLEAN, running : BOOLEAN] \cup {NoReq}]
    OBVIOUS
  <2>3. wma \in WmaType
    BY <2>1, <2>2 DEF Init, WmaType
  <2> QED  BY <2>1, <2>3 DEF Init, TypeOK, NoMsg
<1>2. /\ wma.respq = <<>> /\ sysq = <<>> /\ mc = NoMsg
      /\ \A r \in Reqs : wma.alloc[r].kind = "none"
  BY DEF Init, NoReq
<1>3. <<>> \in Seq(Reqs)
  OBVIOUS
<1>4. \A y : y \notin Range(<<>>) /\ \A a, b : ~Precedes(<<>>, a, b)
  BY <1>3, Empty
<1>5. \A r \in Reqs : mc # Timer(r)
  BY <1>2, Messages
<1>6. \A k \in Kinds : k # "none" /\ mc.type \notin AnswersTo(k)
  BY <1>2, Messages, Answers DEF Kinds
<1>7. \A r \in Reqs : ~Posted(r)
  BY <1>2, <1>4, <1>5 DEF Posted
<1>8. QueueInv
  BY <1>2, <1>4, <1>5, <1>6, <1>7 DEF QueueInv
<1> QED  BY <1>1, <1>8

\* As long as all is calm a timer posts its message.
LEMMA IsPosted ==
    ASSUME NEW r, NEW posted \in BOOLEAN, Expire(r, posted), Calm'
    PROVE  Expire(r, TRUE)
BY DEF Expire, Calm

\* Every step keeps the requests and their timers in order.
LEMMA QueueStep ==
    ASSUME TypeOK, QueueInv, [Next]_vars, Calm'
    PROVE  TypeOK' /\ QueueInv'
<1>1. CASE McTakes
  BY <1>1, TakesQueue
<1>2. CASE \E fail \in Failures, lost \in Losses : McHandles(fail, lost)
  BY <1>2, HandlesQueue DEF Calm
<1>3. CASE \E r \in Reqs, posted \in BOOLEAN : Expire(r, posted)
  BY <1>3, IsPosted, ExpireQueue DEF Calm
<1>7. CASE WakeLockLapses
  BY <1>7, LapseQueue
<1>4. CASE TargetStep
  BY <1>4, TargetQueue
<1>5. CASE UmacStep
  BY <1>5, UmacQueue
<1>6. CASE UNCHANGED vars
  <2>1. TypeOK'
    BY <1>6 DEF vars, TypeOK
  <2>2. QueueInv'
    BY <1>6, QueueSame DEF vars
  <2> QED  BY <2>1, <2>2
<1> QED  BY <1>1, <1>2, <1>3, <1>4, <1>5, <1>6, <1>7 DEF Next

\* The history only grows, whatever the state.
LEMMA PastKept ==
    ASSUME [Next]_vars
    PROVE  past \subseteq past'
BY DEF Next, vars, McTakes, McHandles, Expire, WakeLockLapses, TargetStep, UmacStep, Ask

\* As long as all is calm, every variable has its type and the
\* requests and their timers are in order.
THEOREM QueueKeeps == Spec => []CalmQueue
<1>1. Init => CalmQueue
  BY QueueInit DEF CalmQueue
<1>2. CalmQueue /\ [Next]_vars => CalmQueue'
  <2> SUFFICES ASSUME CalmQueue, [Next]_vars, Calm' PROVE TypeOK' /\ QueueInv'
    BY DEF CalmQueue
  <2>1. Calm
    BY PastKept DEF Calm
  <2> QED  BY <2>1, QueueStep DEF CalmQueue
<1> QED  BY <1>1, <1>2, PTL DEF Spec

\* Requests in order are what RequestsSound says of them.
LEMMA QueueIsSound ==
    ASSUME TypeOK, QueueInv
    PROVE  RequestsSound
<1>0. wma \in WmaType /\ wma.respq \in Seq(Reqs) /\ sysq \in Seq(Reqs)
  BY DEF TypeOK, WmaType
<1>1. DOMAIN wma.respq = 1..Len(wma.respq) /\ DOMAIN sysq = 1..Len(sysq)
  BY <1>0
<1>2. IsInjective(wma.respq)
  <2> SUFFICES ASSUME NEW i \in 1..Len(wma.respq), NEW j \in 1..Len(wma.respq),
                      wma.respq[i] = wma.respq[j]
               PROVE  i = j
    BY <1>1 DEF IsInjective
  <2>1. wma.respq[i] \in Reqs
    BY <1>0
  <2>2. ~(i < j) /\ ~(j < i)
    BY <2>1 DEF QueueInv, Precedes
  <2> QED  BY <2>2
<1>3. \A r \in Reqs : r \in Free(wma) <=> wma.alloc[r].kind = "none"
  <2>1. NoReq.kind = "none"
    BY DEF NoReq
  <2>2. \A x \in [kind : Kinds, own : BOOLEAN, running : BOOLEAN] : x.kind # "none"
    BY DEF Kinds
  <2>3. wma.alloc \in [Reqs -> [kind : Kinds, own : BOOLEAN, running : BOOLEAN] \cup {NoReq}]
    BY <1>0 DEF WmaType
  <2> QED  BY <2>1, <2>2, <2>3 DEF Free
<1>4. Range(wma.respq) = Reqs \ Free(wma)
  <2>1. \A r \in Range(wma.respq) : r \in Reqs
    BY <1>0, Empty
  <2> QED  BY <1>3, <2>1 DEF QueueInv
<1>5. ASSUME NEW r \in Reqs
      PROVE  Expiries(r) = IF r \in Free(wma) \/ wma.alloc[r].running THEN 0 ELSE 1
  <2> DEFINE P == {i \in DOMAIN sysq : sysq[i] = r}
  <2>1. Posted(r) <=> ~(r \in Free(wma) \/ wma.alloc[r].running)
    BY <1>3 DEF QueueInv
  <2>2. CASE r \in Range(sysq)
    <3>1. PICK i \in DOMAIN sysq : sysq[i] = r
      BY <1>0, <1>1, <2>2, RangeIs
    <3>2. ASSUME NEW j \in DOMAIN sysq, sysq[j] = r PROVE j = i
      <4>1. ~(i < j) /\ ~(j < i)
        BY <1>1, <3>1, <3>2 DEF QueueInv, Precedes
      <4> QED  BY <1>1, <4>1
    <3>3. P = {i}
      BY <3>1, <3>2
    <3>4. Cardinality(P) = 1
      BY <3>3, FS_Singleton
    <3>5. mc # Timer(r)
      BY <2>2 DEF QueueInv
    <3>6. ~(r \in Free(wma) \/ wma.alloc[r].running)
      BY <2>1, <2>2 DEF Posted
    <3> HIDE DEF P
    <3> QED  BY <3>4, <3>5, <3>6 DEF Expiries, P
  <2>3. CASE r \notin Range(sysq)
    <3>1. P = {}
      BY <1>0, <1>1, <2>3, RangeIs
    <3>2. Cardinality(P) = 0
      BY <3>1, FS_EmptySet
    <3>3. mc = Timer(r) <=> ~(r \in Free(wma) \/ wma.alloc[r].running)
      BY <2>1, <2>3 DEF Posted
    <3> HIDE DEF P
    <3> QED  BY <3>2, <3>3 DEF Expiries, P
  <2> QED  BY <2>2, <2>3
<1> QED  BY <1>2, <1>4, <1>5 DEF RequestsSound

\* RequestsSound of every instance: a request is on vdev_resp_queue exactly as long as it
\* is allocated, and its timer runs or has posted one message, whatever else is lost or
\* fails, unless a timer expired while its answer was being handled or could not post its
\* message, or a stop was removed in the place of another.
THEOREM RequestsKept == Spec => []RequestsSound
<1>1. CalmQueue => RequestsSound
  BY QueueIsSound DEF CalmQueue, Calm, RequestsSound
<1> QED  BY <1>1, QueueKeeps, PTL

-----------------------------------------------------------------------------
(* The dialogue with the upper layers *)

\* What a handler does whose responses are heard and which takes no other stop.
Does(fail) ==
    /\ mc # NoMsg /\ (Free(wma) = {} => fail = "memory")
    /\ ~(Unstopped(fail) /\ TakesOther(fail))
    /\ wma' = Handled(fail) /\ past' = past \cup Happened(fail)
    /\ mc' = NoMsg /\ UNCHANGED <<fwUp, wmaq, sysq, sync>>

\* As long as no response is lost and no stop is taken for another, this is every handler.
LEMMA DoesIs ==
    ASSUME NEW fail, NEW lost, McHandles(fail, lost), past' \cap {"unheard", "misremoved"} = {}
    PROVE  Does(fail)
<1>1. wma' = Handled(fail)
  <2>1. wma' # Handled(fail) => "unheard" \in past'
    BY DEF McHandles
  <2> QED  BY <2>1
<1>2. past' = past \cup Happened(fail)
  BY <1>1 DEF McHandles
<1>3. ~(Unstopped(fail) /\ TakesOther(fail))
  BY NotOther
<1> QED  BY <1>1, <1>2, <1>3 DEF McHandles, Does

\* It has one of the outcomes of its message.
LEMMA DoesHandled ==
    ASSUME TypeOK, QueueInv, NEW fail \in Failures, Does(fail)
    PROVE  HandledTo(wma', fail)
BY HandledIs DEF Does

Asks == {"add_self", "del_self", "add_bss", "del_bss"}

\* A message is queued or being handled, and only once.
Asked(m) == m \in Range(wmaq) \/ mc.type = m
Once(m) == ~Precedes(wmaq, m, m) /\ ~(mc.type = m /\ m \in Range(wmaq))

\* A request of a kind is kept, it is the only one, a stop is WMA's own.
Waiting(k) == \E r \in Reqs : wma.alloc[r].kind = k
Alone(k) == \A r, q \in Reqs : wma.alloc[r].kind = k /\ wma.alloc[q].kind = k => r = q
OwnStop == \E r \in Reqs : wma.alloc[r].kind = "stop" /\ wma.alloc[r].own

\* What the upper layers wait for is asked or kept as a request, never both; the
\* flags of the interface follow what is under way.
TalkInv ==
    /\ Asked("add_self") <=> wma.umac.self = "adding"
    /\ Asked("del_self") => ~wma.del_staself_req
    /\ Asked("del_self") \/ wma.del_staself_req <=> wma.umac.self = "deleting"
    /\ Asked("add_bss") => ~Waiting("start")
    /\ Asked("add_bss") \/ Waiting("start") <=> wma.umac.bss = "adding"
    /\ Asked("del_bss") => ~Waiting("stop")
    /\ Asked("del_bss") \/ (Waiting("stop") /\ ~OwnStop) <=> wma.umac.bss = "deleting"
    /\ wma.handle <=> wma.umac.self \in {"here", "deleting"}
    /\ wma.umac.bss \in {"adding", "up"} => wma.umac.self = "here"
    /\ wma.umac.bss = "deleting" => wma.umac.self \in {"here", "deleting"}
    /\ wma.umac.bss \in {"up", "deleting"} => wma.bss_started /\ wma.peer
    /\ Waiting("start") => wma.peer
    /\ Waiting("stop") => wma.peer /\ wma.handle /\ ~Waiting("start")
    /\ OwnStop => /\ "start_timed_out" \in past /\ wma.umac.bss \in {"none", "adding"}
                  /\ ~wma.del_staself_req
    /\ Waiting("del") => wma.del_staself_req /\ ~wma.bss_started /\ ~Waiting("stop")
    /\ wma.bss_started => wma.handle
    /\ wma.del_staself_req => wma.bss_started \/ Waiting("del")
    /\ "stop_unsent" \notin past /\ wma.bss_started => wma.umac.bss \in {"up", "deleting"}
    /\ wma.stale => /\ wma.handle /\ wma.peer /\ ~Waiting("start") /\ ~Waiting("stop")
                    /\ wma.umac.bss \in {"none", "adding"}
    /\ ~wma.crashed
    /\ "start_timed_out" \notin past => ~wma.umac.confused

DialogInv ==
    /\ \A m \in Asks : Once(m)
    /\ \A k \in Kinds : Alone(k)
    /\ TalkInv

\* The dialogue is orderly as long as responses are heard, the device is created, a
\* stop that WMA makes by itself is sent and no deletion comes in between.
Mode ==
    /\ Calm
    /\ past \cap {"unheard", "not_created"} = {}
    /\ "start_timed_out" \notin past \/ past \cap {"orphaned", "stop_unsent"} = {}

\* The requests of kind g are finished, one of kind k is made if made is true.
Turn(g, made, k, own) ==
    /\ \A j \in Kinds : Waiting(j)' <=> (Waiting(j) /\ j # g) \/ (made /\ j = k)
    /\ OwnStop' <=> (OwnStop /\ g # "stop") \/ (made /\ k = "stop" /\ own)
    /\ (made => ~Waiting(k) \/ k = g) => \A j \in Kinds : Alone(j)'

\* How a change of the requests shows in what is waited for.
LEMMA TurnIs ==
    ASSUME TypeOK, QueueInv, \A j \in Kinds : Alone(j), NEW g,
           NEW gone \in SUBSET Reqs, NEW new \in SUBSET Reqs, NEW k \in Kinds, NEW own \in BOOLEAN,
           Requests(wma', wma, gone, new, k, own), NEW made \in BOOLEAN,
           \A x \in Reqs : x \in gone <=> wma.alloc[x].kind = g, g # "none",
           made <=> new # {}, \A x, y \in new : x = y
    PROVE  Turn(g, made, k, own)
<1>0. \A x \in new : wma.alloc[x].kind = "none"
  BY DEF Requests, NoReq
<1>1. \A x \in Reqs : x \in gone => wma'.alloc[x].kind = "none" /\ x \notin new
  BY <1>0 DEF Requests, NoReq
<1>2. \A x \in Reqs : x \in new => wma'.alloc[x].kind = k /\ (wma'.alloc[x].own <=> own)
  BY DEF Requests
<1>3. \A x \in Reqs : x \notin new /\ x \notin gone => wma'.alloc[x] = wma.alloc[x]
  BY DEF Requests
<1>4. \A j \in Kinds : j # "none"
  BY DEF Kinds
<1>5. ASSUME NEW j \in Kinds
      PROVE  Waiting(j)' <=> (Waiting(j) /\ j # g) \/ (made /\ j = k)
  <2>1. ASSUME Waiting(j)' PROVE (Waiting(j) /\ j # g) \/ (made /\ j = k)
    <3>1. PICK x \in Reqs : wma'.alloc[x].kind = j
      BY <2>1 DEF Waiting
    <3>2. x \notin gone
      BY <1>1, <1>4, <3>1
    <3>3. CASE x \in new
      BY <1>2, <3>1, <3>3
    <3>4. CASE x \notin new
      BY <1>3, <3>1, <3>2, <3>4 DEF Waiting
    <3> QED  BY <3>3, <3>4
  <2>2. ASSUME Waiting(j), j # g PROVE Waiting(j)'
    <3>1. PICK x \in Reqs : wma.alloc[x].kind = j
      BY <2>2 DEF Waiting
    <3>2. x \notin gone /\ x \notin new
      BY <1>0, <1>4, <2>2, <3>1
    <3> QED  BY <1>3, <3>1, <3>2 DEF Waiting
  <2>3. ASSUME made, j = k PROVE Waiting(j)'
    BY <1>2, <2>3 DEF Waiting
  <2> QED  BY <2>1, <2>2, <2>3
<1>6. OwnStop' <=> (OwnStop /\ g # "stop") \/ (made /\ k = "stop" /\ own)
  <2>1. ASSUME OwnStop' PROVE (OwnStop /\ g # "stop") \/ (made /\ k = "stop" /\ own)
    <3>1. PICK x \in Reqs : wma'.alloc[x].kind = "stop" /\ wma'.alloc[x].own
      BY <2>1 DEF OwnStop
    <3>2. x \notin gone
      BY <1>1, <3>1
    <3>3. CASE x \in new
      BY <1>2, <3>1, <3>3
    <3>4. CASE x \notin new
      BY <1>3, <3>1, <3>2, <3>4 DEF OwnStop
    <3> QED  BY <3>3, <3>4
  <2>2. ASSUME OwnStop, g # "stop" PROVE OwnStop'
    <3>1. PICK x \in Reqs : wma.alloc[x].kind = "stop" /\ wma.alloc[x].own
      BY <2>2 DEF OwnStop
    <3>2. x \notin gone /\ x \notin new
      BY <1>0, <2>2, <3>1
    <3> QED  BY <1>3, <3>1, <3>2 DEF OwnStop
  <2>3. ASSUME made, k = "stop", own PROVE OwnStop'
    BY <1>2, <2>3 DEF OwnStop
  <2> QED  BY <2>1, <2>2, <2>3
<1>7. ASSUME made => ~Waiting(k) \/ k = g, NEW j \in Kinds, NEW x \in Reqs, NEW y \in Reqs,
             wma'.alloc[x].kind = j, wma'.alloc[y].kind = j
      PROVE  x = y
  <2>1. x \notin gone /\ y \notin gone
    BY <1>1, <1>4, <1>7
  <2>2. CASE x \in new /\ y \in new
    BY <2>2
  <2>3. CASE x \notin new /\ y \notin new
    BY <1>3, <1>7, <2>1, <2>3 DEF Alone
  <2>4. ASSUME NEW a \in new, NEW b \in Reqs, b \notin new, b \notin gone,
               wma'.alloc[a].kind = j, wma'.alloc[b].kind = j
        PROVE  FALSE
    <3>1. j = k /\ made /\ wma.alloc[b].kind = k
      BY <1>2, <1>3, <2>4
    <3>2. Waiting(k) /\ k # g
      BY <2>4, <3>1 DEF Waiting
    <3> QED  BY <1>7, <3>1, <3>2
  <2> QED  BY <1>7, <2>1, <2>2, <2>3, <2>4
<1>8. (made => ~Waiting(k) \/ k = g) => \A j \in Kinds : Alone(j)'
  BY <1>7 DEF Alone
<1> QED  BY <1>5, <1>6, <1>8 DEF Turn

\* The ways the handlers change the requests.
LEMMA Turns ==
    ASSUME TypeOK, QueueInv, \A j \in Kinds : Alone(j), wma' \in WmaType
    PROVE  /\ wma'.alloc = wma.alloc /\ wma'.respq = wma.respq => Turn("no", FALSE, "start", FALSE)
           /\ \A k \in Kinds, own \in BOOLEAN :
                 /\ Requests(wma', wma, {}, {}, k, own) => Turn("no", FALSE, "start", FALSE)
                 /\ \A q \in Reqs : Requests(wma', wma, {}, {q}, k, own) => Turn("no", TRUE, k, own)
                 /\ \A r \in Reqs, j \in Kinds : wma.alloc[r].kind = j =>
                       /\ Requests(wma', wma, {r}, {}, k, own) => Turn(j, FALSE, "start", FALSE)
                       /\ \A q \in Reqs : Requests(wma', wma, {r}, {q}, k, own) => Turn(j, TRUE, k, own)
<1>0. /\ wma \in WmaType /\ "start" \in Kinds /\ FALSE \in BOOLEAN /\ TRUE \in BOOLEAN
  BY DEF TypeOK, Kinds
<1>1. \A x \in Reqs : x \in {} <=> wma.alloc[x].kind = "no"
  <2>1. wma.alloc \in [Reqs -> [kind : Kinds, own : BOOLEAN, running : BOOLEAN] \cup {NoReq}]
    BY <1>0 DEF WmaType
  <2>2. \A y \in [kind : Kinds, own : BOOLEAN, running : BOOLEAN] \cup {NoReq} : y.kind # "no"
    BY DEF Kinds, NoReq
  <2> QED  BY <2>1, <2>2
<1>1a. "no" # "none"
  OBVIOUS
<1>2. \A r \in Reqs, j \in Kinds : wma.alloc[r].kind = j =>
         /\ \A x \in Reqs : x \in {r} <=> wma.alloc[x].kind = j
         /\ j # "none"
  BY DEF Alone, Kinds
<1>3. ASSUME NEW k \in Kinds, NEW own \in BOOLEAN, Turn("no", FALSE, k, own)
      PROVE  Turn("no", FALSE, "start", FALSE)
  BY <1>3 DEF Turn
<1>4. ASSUME NEW k \in Kinds, NEW own \in BOOLEAN, NEW j \in Kinds, Turn(j, FALSE, k, own)
      PROVE  Turn(j, FALSE, "start", FALSE)
  BY <1>4 DEF Turn
<1>5. ASSUME NEW k \in Kinds, NEW own \in BOOLEAN
      PROVE  /\ Requests(wma', wma, {}, {}, k, own) => Turn("no", FALSE, "start", FALSE)
             /\ \A q \in Reqs : Requests(wma', wma, {}, {q}, k, own) => Turn("no", TRUE, k, own)
  <2>1. ASSUME Requests(wma', wma, {}, {}, k, own) PROVE Turn("no", FALSE, k, own)
    <3>1. /\ {} \in SUBSET Reqs /\ {} \in SUBSET Reqs /\ FALSE \in BOOLEAN
          /\ FALSE <=> {} # {}
          /\ \A x, y \in {} : x = y
      OBVIOUS
    <3> QED  BY <1>1, <1>1a, <2>1, <3>1, TurnIs
  <2>2. ASSUME NEW q \in Reqs, Requests(wma', wma, {}, {q}, k, own) PROVE Turn("no", TRUE, k, own)
    <3>1. /\ {} \in SUBSET Reqs /\ {q} \in SUBSET Reqs /\ TRUE \in BOOLEAN
          /\ TRUE <=> {q} # {}
          /\ \A x, y \in {q} : x = y
      OBVIOUS
    <3> QED  BY <1>1, <1>1a, <2>2, <3>1, TurnIs
  <2> QED  BY <1>3, <2>1, <2>2
<1>6. ASSUME NEW k \in Kinds, NEW own \in BOOLEAN, NEW r \in Reqs, NEW j \in Kinds, wma.alloc[r].kind = j
      PROVE  /\ Requests(wma', wma, {r}, {}, k, own) => Turn(j, FALSE, "start", FALSE)
             /\ \A q \in Reqs : Requests(wma', wma, {r}, {q}, k, own) => Turn(j, TRUE, k, own)
  <2>0. (\A x \in Reqs : x \in {r} <=> wma.alloc[x].kind = j) /\ j # "none"
    BY <1>2, <1>6
  <2>1. ASSUME Requests(wma', wma, {r}, {}, k, own) PROVE Turn(j, FALSE, k, own)
    <3>1. /\ {r} \in SUBSET Reqs /\ {} \in SUBSET Reqs /\ FALSE \in BOOLEAN
          /\ FALSE <=> {} # {}
          /\ \A x, y \in {} : x = y
      OBVIOUS
    <3> QED  BY <2>0, <2>1, <3>1, TurnIs
  <2>2. ASSUME NEW q \in Reqs, Requests(wma', wma, {r}, {q}, k, own) PROVE Turn(j, TRUE, k, own)
    <3>1. /\ {r} \in SUBSET Reqs /\ {q} \in SUBSET Reqs /\ TRUE \in BOOLEAN
          /\ TRUE <=> {q} # {}
          /\ \A x, y \in {q} : x = y
      OBVIOUS
    <3> QED  BY <2>0, <2>2, <3>1, TurnIs
  <2> QED  BY <1>4, <2>1, <2>2
<1>7. ASSUME wma'.alloc = wma.alloc, wma'.respq = wma.respq
      PROVE  Turn("no", FALSE, "start", FALSE)
  <2>1. Requests(wma', wma, {}, {}, "start", FALSE)
    BY <1>0, <1>7, SameRequests
  <2> QED  BY <1>0, <1>5, <2>1
<1> QED  BY <1>5, <1>6, <1>7

UmacType == [bss : {"none", "adding", "up", "deleting"},
             self : {"gone", "adding", "here", "deleting"}, confused : BOOLEAN]

\* What each answer changes.
LEMMA HearEach ==
    ASSUME NEW u \in UmacType
    PROVE  /\ Hear("self_added", u).bss = u.bss /\ Hear("self_failed", u).bss = u.bss
           /\ Hear("self_deleted", u).bss = u.bss
           /\ Hear("added", u).self = u.self /\ Hear("add_failed", u).self = u.self
           /\ Hear("bss_deleted", u).self = u.self
           /\ u.self = "adding" =>
                 /\ Hear("self_added", u).self = "here" /\ Hear("self_added", u).confused = u.confused
                 /\ Hear("self_failed", u).self = "here" /\ Hear("self_failed", u).confused = u.confused
           /\ u.self = "deleting" =>
                 Hear("self_deleted", u).self = "gone" /\ Hear("self_deleted", u).confused = u.confused
           /\ u.bss = "adding" =>
                 /\ Hear("added", u).bss = "up" /\ Hear("added", u).confused = u.confused
                 /\ Hear("add_failed", u).bss = "none" /\ Hear("add_failed", u).confused = u.confused
           /\ u.bss = "deleting" =>
                 Hear("bss_deleted", u).bss = "none" /\ Hear("bss_deleted", u).confused = u.confused
           /\ u.bss # "deleting" => Hear("bss_deleted", u).bss = u.bss
           /\ Hear("bss_deleted", u) \in UmacType
<1>1. Hear("bss_deleted", u) \in UmacType
  BY DEF Hear, UmacType
<1>2. /\ Hear("self_added", u).bss = u.bss /\ Hear("self_failed", u).bss = u.bss
      /\ Hear("self_deleted", u).bss = u.bss
  BY DEF Hear, UmacType
<1>3. /\ Hear("added", u).self = u.self /\ Hear("add_failed", u).self = u.self
      /\ Hear("bss_deleted", u).self = u.self
  BY DEF Hear, UmacType
<1>4. u.self = "adding" =>
         /\ Hear("self_added", u).self = "here" /\ Hear("self_added", u).confused = u.confused
         /\ Hear("self_failed", u).self = "here" /\ Hear("self_failed", u).confused = u.confused
  BY DEF Hear, UmacType
<1>5. u.self = "deleting" =>
         Hear("self_deleted", u).self = "gone" /\ Hear("self_deleted", u).confused = u.confused
  BY DEF Hear, UmacType
<1>6. u.bss = "adding" =>
         /\ Hear("added", u).bss = "up" /\ Hear("added", u).confused = u.confused
         /\ Hear("add_failed", u).bss = "none" /\ Hear("add_failed", u).confused = u.confused
  BY DEF Hear, UmacType
<1>7. /\ u.bss = "deleting" =>
            Hear("bss_deleted", u).bss = "none" /\ Hear("bss_deleted", u).confused = u.confused
      /\ u.bss # "deleting" => Hear("bss_deleted", u).bss = u.bss
  BY DEF Hear, UmacType
<1> QED  BY <1>1, <1>2, <1>3, <1>4, <1>5, <1>6, <1>7

\* A message that has been handled is no longer asked.
LEMMA HandlesAsked ==
    ASSUME NEW fail, Does(fail)
    PROVE  /\ \A m \in MsgTypes : Once(m) => (Asked(m)' <=> Asked(m) /\ mc.type # m)
           /\ \A m \in MsgTypes : Once(m) => Once(m)'
<1>1. wmaq' = wmaq /\ mc'.type = "none"
  BY Messages DEF Does
<1>2. \A m \in MsgTypes : m # "none"
  BY DEF MsgTypes
<1> QED  BY <1>1, <1>2 DEF Once, Asked

\* Which mishaps a handler adds to the history.
LEMMA HandlesPast ==
    ASSUME NEW fail, Does(fail)
    PROVE  /\ "raced" \in past' <=> "raced" \in past
           /\ "start_timed_out" \in past' <=> "start_timed_out" \in past \/ Expired("start")
           /\ "orphaned" \in past' <=>
                 \/ "orphaned" \in past
                 \/ mc.type = "del_self" /\ ~wma.bss_started /\ Found(wma, "stop") # 0
           /\ "stop_unsent" \in past' <=>
                 \/ "stop_unsent" \in past
                 \/ fail # "none" /\ Expired("start")
                 \/ fail # "none" /\ mc.type = "del_bss" /\ wma.peer /\ wma.handle
           /\ "no_beacon" \in past' <=>
                 \/ "no_beacon" \in past
                 \/ mc.type = "start_ok" /\ fail # "none" /\ Found(wma, "start") # 0
           /\ "not_created" \in past' <=>
                 "not_created" \in past \/ (mc.type = "add_self" /\ fail # "none")
           /\ "late" \in past' <=>
                 \/ "late" \in past
                 \/ \E k \in Kinds : Expired(k) /\ \/ k \in Range(wma.cmds)
                                                   \/ AnswersTo(k) \cap Range(wmaq) # {}
<1> DEFINE H == Happened(fail)
<1>1. past' = past \cup H
  BY DEF Does
<1>2. "raced" \notin H
  BY DEF Happened, Mishaps
<1>3. "start_timed_out" \in H <=> Expired("start")
  BY DEF Happened, Mishaps
<1>4. "orphaned" \in H <=> mc.type = "del_self" /\ ~wma.bss_started /\ Found(wma, "stop") # 0
  BY DEF Happened, Mishaps
<1>5. "stop_unsent" \in H <=> fail # "none" /\ \/ Expired("start")
                                               \/ mc.type = "del_bss" /\ wma.peer /\ wma.handle
  <2>1. "stop_unsent" \in H <=> Unstopped(fail) /\ ~TakesOther(fail)
    BY DEF Happened, Mishaps
  <2> QED  BY <2>1 DEF Does, Unstopped
<1>6. "no_beacon" \in H <=> mc.type = "start_ok" /\ fail # "none" /\ Found(wma, "start") # 0
  BY DEF Happened, Mishaps
<1>6a. "not_created" \in H <=> mc.type = "add_self" /\ fail # "none"
  BY DEF Happened, Mishaps
<1>7. "late" \in H <=> \E k \in Kinds : Expired(k) /\ \/ k \in Range(wma.cmds)
                                                      \/ AnswersTo(k) \cap Range(wmaq) # {}
  BY DEF Happened, Mishaps
<1> HIDE DEF H
<1> QED  BY <1>1, <1>2, <1>3, <1>4, <1>5, <1>6, <1>6a, <1>7

\* wma_find_vdev_req finds a request exactly if one of the kind is kept.
LEMMA FoundWaiting ==
    ASSUME TypeOK, QueueInv, NEW k \in Kinds
    PROVE  Found(wma, k) # 0 <=> Waiting(k)
<1>0. wma \in WmaType /\ k # "none"
  BY DEF TypeOK, Kinds
<1>1. \A r \in Range(wma.respq) : r \in Reqs
  BY <1>0, Empty DEF WmaType
<1>2. Found(wma, k) = 0 <=> \A r \in Range(wma.respq) : wma.alloc[r].kind # k
  BY <1>0, FoundIs
<1> QED  BY <1>0, <1>1, <1>2 DEF Waiting, QueueInv

\* A timer message is an expiry of the kind of its request, no other message is.
LEMMA ExpiredIs ==
    /\ \A r \in Reqs, k \in Kinds : mc = Timer(r) => (Expired(k) <=> wma.alloc[r].kind = k)
    /\ \A t \in MsgTypes : mc = Msg(t) => \A k \in Kinds : ~Expired(k)
<1>1. \A t \in MsgTypes : t # "timer"
  BY DEF MsgTypes
<1> QED  BY <1>1, Messages DEF Expired

\* What every handler has in common.
LEMMA HandledTalk ==
    ASSUME TypeOK, QueueInv, DialogInv, NEW fail \in Failures, Does(fail)
    PROVE  /\ \A m \in Asks : Once(m)'
           /\ Asked("add_self")' <=> Asked("add_self") /\ mc.type # "add_self"
           /\ Asked("del_self")' <=> Asked("del_self") /\ mc.type # "del_self"
           /\ Asked("add_bss")' <=> Asked("add_bss") /\ mc.type # "add_bss"
           /\ Asked("del_bss")' <=> Asked("del_bss") /\ mc.type # "del_bss"
           /\ \A m \in Asks : mc = Msg(m) => mc.type = m /\ Asked(m)
           /\ wma.umac \in UmacType
<1>1. Asks \subseteq MsgTypes
  BY DEF Asks, MsgTypes
<1>2. \A m \in Asks : Once(m)' /\ (Asked(m)' <=> Asked(m) /\ mc.type # m)
  BY <1>1, HandlesAsked DEF DialogInv
<1>3. wma.umac \in UmacType
  BY DEF TypeOK, WmaType, UmacType
<1>4. \A m \in Asks : mc = Msg(m) => mc.type = m /\ Asked(m)
  BY Messages DEF Asked
<1> QED  BY <1>2, <1>3, <1>4 DEF Asks

\* wma_vdev_attach answers its request: the upper layers waited for it.
LEMMA AddSelfTalk ==
    ASSUME TypeOK, QueueInv, DialogInv, NEW fail \in Failures, Does(fail),
           Mode', mc = Msg("add_self"), AddSelfTo(wma', wma, fail)
    PROVE  DialogInv'
<1>1. Turn("no", FALSE, "start", FALSE)
  BY Turns DEF AddSelfTo, DialogInv
<1>2. /\ Waiting("start")' <=> Waiting("start")
      /\ Waiting("stop")' <=> Waiting("stop")
      /\ Waiting("del")' <=> Waiting("del")
      /\ OwnStop' <=> OwnStop
      /\ \A j \in Kinds : Alone(j)'
  BY <1>1 DEF Turn, Kinds
<1>3. /\ ~Asked("add_self")' /\ Asked("add_self")
      /\ Asked("del_self")' <=> Asked("del_self")
      /\ Asked("add_bss")' <=> Asked("add_bss")
      /\ Asked("del_bss")' <=> Asked("del_bss")
      /\ \A m \in Asks : Once(m)'
      /\ wma.umac \in UmacType
  BY HandledTalk DEF Asks
<1>4. /\ "start_timed_out" \in past' <=> "start_timed_out" \in past
      /\ "stop_unsent" \in past' <=> "stop_unsent" \in past
  BY HandlesPast, ExpiredIs, Messages DEF MsgTypes, Kinds
<1>5. /\ wma.umac.self = "adding" /\ ~wma.handle /\ ~wma.bss_started /\ ~wma.del_staself_req
      /\ ~Waiting("stop") /\ ~Waiting("del") /\ ~Waiting("start") /\ wma.umac.bss = "none"
      /\ ~wma.stale
  BY <1>3 DEF DialogInv, TalkInv, UmacType
<1>5a. fail = "none"
  BY HandlesPast, Messages DEF Mode
<1>6a. /\ Hear("self_added", wma.umac).bss = wma.umac.bss
       /\ Hear("self_added", wma.umac).confused = wma.umac.confused
       /\ Hear("self_added", wma.umac).self = "here"
  BY <1>3, <1>5, HearEach
<1>6. /\ wma'.umac.bss = wma.umac.bss /\ wma'.umac.confused = wma.umac.confused
      /\ wma'.umac.self = "here" /\ wma'.handle /\ ~wma'.bss_started /\ ~wma'.stale
  BY <1>5, <1>5a, <1>6a DEF AddSelfTo
<1>7. TalkInv'
  BY <1>2, <1>3, <1>4, <1>5, <1>6 DEF DialogInv, TalkInv, AddSelfTo
<1> QED  BY <1>2, <1>3, <1>7 DEF DialogInv

\* wma_vdev_detach answers the deletion, asks the target for it or puts it off.
LEMMA DetachTalk ==
    ASSUME TypeOK, QueueInv, DialogInv, NEW fail \in Failures, Does(fail), Mode, Mode',
           mc = Msg("del_self"), DetachTo(wma', wma)
    PROVE  DialogInv'
<1>1. /\ ~Asked("del_self")' /\ Asked("del_self")
      /\ Asked("add_self")' <=> Asked("add_self")
      /\ Asked("add_bss")' <=> Asked("add_bss")
      /\ Asked("del_bss")' <=> Asked("del_bss")
      /\ \A m \in Asks : Once(m)'
      /\ wma.umac \in UmacType
  BY HandledTalk DEF Asks
<1>2. /\ "start_timed_out" \in past' <=> "start_timed_out" \in past
      /\ "stop_unsent" \in past' <=> "stop_unsent" \in past
      /\ ~wma.bss_started /\ Waiting("stop") => "orphaned" \in past'
  BY HandlesPast, ExpiredIs, Messages, FoundWaiting DEF MsgTypes, Kinds
<1>3. /\ wma.umac.self = "deleting" /\ ~wma.del_staself_req /\ wma.handle /\ ~Waiting("del")
      /\ ~Waiting("start") /\ wma.umac.bss \in {"none", "deleting"}
  BY <1>1 DEF DialogInv, TalkInv, UmacType
<1>4. OwnStop => /\ wma.umac.bss = "none" /\ ~wma.bss_started
                 /\ "start_timed_out" \in past' /\ "orphaned" \notin past'
  BY <1>1, <1>2, <1>3 DEF DialogInv, TalkInv, Mode
<1>5. CASE wma.bss_started
  <2>1. /\ wma'.del_staself_req /\ wma'.umac = wma.umac /\ wma'.handle = wma.handle
        /\ wma'.bss_started /\ wma'.peer = wma.peer /\ wma'.crashed = wma.crashed
        /\ wma'.stale = wma.stale
        /\ wma'.alloc = wma.alloc /\ wma'.respq = wma.respq /\ wma' \in WmaType
    BY <1>5 DEF DetachTo, TypeOK, WmaType
  <2>2. Turn("no", FALSE, "start", FALSE)
    BY <2>1, Turns DEF DialogInv
  <2>3. /\ Waiting("start")' <=> Waiting("start")
        /\ Waiting("stop")' <=> Waiting("stop")
        /\ Waiting("del")' <=> Waiting("del")
        /\ OwnStop' <=> OwnStop
        /\ \A j \in Kinds : Alone(j)'
    BY <2>2 DEF Turn, Kinds
  <2>4. TalkInv'
    BY <1>1, <1>2, <1>3, <1>4, <1>5, <2>1, <2>3 DEF DialogInv, TalkInv
  <2> QED  BY <1>1, <2>3, <2>4 DEF DialogInv
<1>6. CASE ~wma.bss_started
  <2>1. wma.umac.bss = "none" /\ ~Waiting("stop") /\ ~OwnStop /\ ~Asked("del_bss") /\ ~Asked("add_bss")
        /\ ~Asked("add_self")
    <3>1. ~OwnStop
      BY <1>2, <1>4, <1>6 DEF Waiting, OwnStop
    <3>2. wma.umac.bss = "none"
      BY <1>3, <1>6 DEF DialogInv, TalkInv
    <3> QED  BY <1>3, <3>1, <3>2 DEF DialogInv, TalkInv
  <2>2. wma' \in WmaType /\ wma'.peer = wma.peer /\ wma'.crashed = wma.crashed
    BY DEF DetachTo
  <2>3. CASE Gone(wma', wma) /\ Requests(wma', wma, {}, {}, "del", FALSE)
    <3>1. Turn("no", FALSE, "start", FALSE)
      BY <2>2, <2>3, Turns DEF DialogInv, Kinds
    <3>2. /\ Waiting("start")' <=> Waiting("start")
          /\ Waiting("stop")' <=> Waiting("stop")
          /\ Waiting("del")' <=> Waiting("del")
          /\ OwnStop' <=> OwnStop
          /\ \A j \in Kinds : Alone(j)'
      BY <3>1 DEF Turn, Kinds
    <3>3. /\ Hear("self_deleted", wma.umac).self = "gone"
          /\ Hear("self_deleted", wma.umac).bss = wma.umac.bss
          /\ Hear("self_deleted", wma.umac).confused = wma.umac.confused
      BY <1>1, <1>3, HearEach
    <3>4. TalkInv'
      BY <1>1, <1>2, <1>3, <2>1, <2>2, <2>3, <3>2, <3>3 DEF DialogInv, TalkInv, Gone
    <3> QED  BY <1>1, <3>2, <3>4 DEF DialogInv
  <2>4. CASE Deleting(wma', wma) /\ \E q \in Reqs : Requests(wma', wma, {}, {q}, "del", FALSE)
    <3>1. Turn("no", TRUE, "del", FALSE)
      BY <2>2, <2>4, Turns DEF DialogInv, Kinds
    <3>2. /\ Waiting("start")' <=> Waiting("start")
          /\ Waiting("stop")' <=> Waiting("stop")
          /\ Waiting("del")'
          /\ OwnStop' <=> OwnStop
          /\ \A j \in Kinds : Alone(j)'
      BY <1>3, <3>1 DEF Turn, Kinds
    <3>4. TalkInv'
      BY <1>1, <1>2, <1>3, <1>6, <2>1, <2>2, <2>4, <3>2 DEF DialogInv, TalkInv, Deleting
    <3> QED  BY <1>1, <3>2, <3>4 DEF DialogInv
  <2> QED  BY <1>3, <1>6, <2>3, <2>4 DEF DetachTo
<1> QED  BY <1>5, <1>6

\* wma_add_bss_ap_mode keeps a request or answers that it failed.
LEMMA AddBssTalk ==
    ASSUME TypeOK, QueueInv, DialogInv, NEW fail \in Failures, Does(fail),
           mc = Msg("add_bss"), AddBssTo(wma', wma)
    PROVE  DialogInv'
<1>1. /\ ~Asked("add_bss")' /\ Asked("add_bss")
      /\ Asked("add_self")' <=> Asked("add_self")
      /\ Asked("del_self")' <=> Asked("del_self")
      /\ Asked("del_bss")' <=> Asked("del_bss")
      /\ \A m \in Asks : Once(m)'
      /\ wma.umac \in UmacType
  BY HandledTalk DEF Asks
<1>2. /\ "start_timed_out" \in past' <=> "start_timed_out" \in past
      /\ "stop_unsent" \in past' <=> "stop_unsent" \in past
  BY HandlesPast, ExpiredIs, Messages DEF MsgTypes, Kinds
<1>3. /\ wma.umac.bss = "adding" /\ wma.umac.self = "here" /\ wma.handle /\ ~Waiting("start")
      /\ ~wma.del_staself_req /\ ~Waiting("del")
  BY <1>1 DEF DialogInv, TalkInv, UmacType
<1>4. /\ wma' \in WmaType
      /\ wma'.handle = wma.handle /\ wma'.bss_started = wma.bss_started
      /\ wma'.del_staself_req = wma.del_staself_req /\ wma'.crashed = wma.crashed
      /\ wma'.stale = wma.stale
  BY DEF AddBssTo
<1>5. CASE /\ wma'.umac = Hear("add_failed", wma.umac) /\ wma'.peer = wma.peer
           /\ wma'.alloc = wma.alloc /\ wma'.respq = wma.respq
  <2>1. Turn("no", FALSE, "start", FALSE)
    BY <1>4, <1>5, Turns DEF DialogInv
  <2>2. /\ Waiting("start")' <=> Waiting("start")
        /\ Waiting("stop")' <=> Waiting("stop")
        /\ Waiting("del")' <=> Waiting("del")
        /\ OwnStop' <=> OwnStop
        /\ \A j \in Kinds : Alone(j)'
    BY <2>1 DEF Turn, Kinds
  <2>3. /\ wma'.umac.bss = "none" /\ wma'.umac.self = wma.umac.self
        /\ wma'.umac.confused = wma.umac.confused
    BY <1>1, <1>3, <1>5, HearEach
  <2>4. TalkInv'
    BY <1>1, <1>2, <1>3, <1>4, <1>5, <2>2, <2>3 DEF DialogInv, TalkInv
  <2> QED  BY <1>1, <2>2, <2>4 DEF DialogInv
<1>6. CASE /\ ~wma.peer /\ wma'.peer /\ wma'.umac = wma.umac
           /\ \E q \in Reqs : Requests(wma', wma, {}, {q}, "start", FALSE)
  <2>1. Turn("no", TRUE, "start", FALSE)
    BY <1>4, <1>6, Turns DEF DialogInv, Kinds
  <2>2. /\ Waiting("start")'
        /\ Waiting("stop")' <=> Waiting("stop")
        /\ Waiting("del")' <=> Waiting("del")
        /\ OwnStop' <=> OwnStop
        /\ \A j \in Kinds : Alone(j)'
    BY <1>3, <2>1 DEF Turn, Kinds
  <2>3. TalkInv'
    BY <1>1, <1>2, <1>3, <1>4, <1>6, <2>2 DEF DialogInv, TalkInv
  <2> QED  BY <1>1, <2>2, <2>3 DEF DialogInv
<1> QED  BY <1>5, <1>6 DEF AddBssTo

\* wma_delete_bss keeps a request or answers.
LEMMA DelBssTalk ==
    ASSUME TypeOK, QueueInv, DialogInv, NEW fail \in Failures, Does(fail), Mode, Mode',
           mc = Msg("del_bss"), DelBssTo(wma', wma, fail)
    PROVE  DialogInv'
<1>1. /\ ~Asked("del_bss")' /\ Asked("del_bss")
      /\ Asked("add_self")' <=> Asked("add_self")
      /\ Asked("del_self")' <=> Asked("del_self")
      /\ Asked("add_bss")' <=> Asked("add_bss")
      /\ \A m \in Asks : Once(m)'
      /\ wma.umac \in UmacType
  BY HandledTalk DEF Asks
<1>2. /\ "start_timed_out" \in past' <=> "start_timed_out" \in past
      /\ "stop_unsent" \in past => "stop_unsent" \in past'
      /\ wma.peer /\ wma.handle /\ fail # "none" => "stop_unsent" \in past'
  BY HandlesPast, ExpiredIs, Messages DEF MsgTypes, Kinds
<1>3. /\ wma.umac.bss = "deleting" /\ wma.handle /\ wma.peer /\ wma.bss_started
      /\ ~Waiting("start") /\ ~Waiting("stop") /\ ~Waiting("del")
  BY <1>1 DEF DialogInv, TalkInv, UmacType
<1>3a. ~OwnStop
  BY <1>3 DEF OwnStop, Waiting
<1>4. /\ wma' \in WmaType
      /\ wma'.handle = wma.handle /\ wma'.bss_started = wma.bss_started
      /\ wma'.del_staself_req = wma.del_staself_req /\ wma'.crashed = wma.crashed
      /\ wma'.stale = wma.stale /\ ~wma.stale
  BY <1>3 DEF DelBssTo, DialogInv, TalkInv
<1>5. CASE /\ fail # "none" /\ wma'.umac = Hear("bss_deleted", wma.umac)
           /\ ~wma'.peer /\ Requests(wma', wma, {}, {}, "stop", FALSE)
  <2>1. Turn("no", FALSE, "start", FALSE)
    BY <1>4, <1>5, Turns DEF DialogInv, Kinds
  <2>2. /\ Waiting("start")' <=> Waiting("start")
        /\ Waiting("stop")' <=> Waiting("stop")
        /\ Waiting("del")' <=> Waiting("del")
        /\ OwnStop' <=> OwnStop
        /\ \A j \in Kinds : Alone(j)'
    BY <2>1 DEF Turn, Kinds
  <2>3. /\ wma'.umac.bss = "none" /\ wma'.umac.self = wma.umac.self
        /\ wma'.umac.confused = wma.umac.confused
    BY <1>1, <1>3, <1>5, HearEach
  <2>4. TalkInv'
    BY <1>1, <1>2, <1>3, <1>3a, <1>4, <1>5, <2>2, <2>3 DEF DialogInv, TalkInv
  <2> QED  BY <1>1, <2>2, <2>4 DEF DialogInv
<1>6. CASE /\ wma'.peer /\ wma'.umac = wma.umac
           /\ \E q \in Reqs : Requests(wma', wma, {}, {q}, "stop", FALSE)
  <2>1. Turn("no", TRUE, "stop", FALSE)
    BY <1>4, <1>6, Turns DEF DialogInv, Kinds
  <2>2. /\ Waiting("start")' <=> Waiting("start")
        /\ Waiting("stop")'
        /\ Waiting("del")' <=> Waiting("del")
        /\ OwnStop' <=> OwnStop
        /\ \A j \in Kinds : Alone(j)'
    BY <1>3, <2>1 DEF Turn, Kinds
  <2>3. TalkInv'
    BY <1>1, <1>2, <1>3, <1>3a, <1>4, <1>6, <2>2 DEF DialogInv, TalkInv
  <2> QED  BY <1>1, <2>2, <2>3 DEF DialogInv
<1> QED  BY <1>3, <1>5, <1>6 DEF DelBssTo

\* Answers and timeouts are not requests of the upper layers.
LEMMA AnsweredTalk ==
    ASSUME TypeOK, QueueInv, DialogInv, NEW fail \in Failures, Does(fail),
           \A m \in Asks : mc # Msg(m)
    PROVE  /\ Asked("add_self")' <=> Asked("add_self")
           /\ Asked("del_self")' <=> Asked("del_self")
           /\ Asked("add_bss")' <=> Asked("add_bss")
           /\ Asked("del_bss")' <=> Asked("del_bss")
           /\ \A m \in Asks : Once(m)'
           /\ wma.umac \in UmacType
           /\ mc.type \notin Asks
           /\ "stop_unsent" \in past' <=> "stop_unsent" \in past \/ (fail # "none" /\ Expired("start"))
           /\ "start_timed_out" \in past' <=> "start_timed_out" \in past \/ Expired("start")
           /\ "orphaned" \in past' <=> "orphaned" \in past
<1>1. mc.type \notin Asks
  <2>1. CASE \E r \in Reqs : mc = Timer(r)
    BY <2>1, Messages DEF Asks
  <2>2. CASE \E t \in MsgTypes \cup {"none"} : mc = Msg(t)
    <3>1. PICK t \in MsgTypes \cup {"none"} : mc = Msg(t)
      BY <2>2
    <3>2. mc.type = t /\ t \notin Asks
      BY <3>1, Messages
    <3> QED  BY <3>2
  <2> QED  BY <2>1, <2>2 DEF TypeOK
<1> QED  BY <1>1, HandledTalk, HandlesPast DEF Asks

\* A message nobody waits for changes nothing.
LEMMA NothingTalk ==
    ASSUME TypeOK, QueueInv, DialogInv, NEW fail \in Failures, Does(fail),
           \A m \in Asks : mc # Msg(m), wma' = wma, ~Expired("start")
    PROVE  DialogInv'
<1>1. wma' \in WmaType
  BY DEF TypeOK
<1>2. Turn("no", FALSE, "start", FALSE)
  BY <1>1, Turns DEF DialogInv
<1>3. /\ Waiting("start")' <=> Waiting("start")
      /\ Waiting("stop")' <=> Waiting("stop")
      /\ Waiting("del")' <=> Waiting("del")
      /\ OwnStop' <=> OwnStop
      /\ \A j \in Kinds : Alone(j)'
  BY <1>2 DEF Turn, Kinds
<1>4. TalkInv'
  BY <1>3, AnsweredTalk DEF DialogInv, TalkInv
<1> QED  BY <1>3, <1>4, AnsweredTalk DEF DialogInv

\* The answer to a start is passed on to upper layers that wait for it.
LEMMA StartedTalk ==
    ASSUME TypeOK, QueueInv, DialogInv, NEW fail \in Failures, Does(fail),
           mc \in {Msg("start_ok"), Msg("start_failed")}, NEW ok, StartedTo(wma', wma, ok, fail)
    PROVE  DialogInv'
<1>0. (\A m \in Asks : mc # Msg(m)) /\ ~Expired("start")
  BY ExpiredIs, Messages DEF Asks, MsgTypes, Kinds
<1>1. /\ Asked("add_self")' <=> Asked("add_self")
      /\ Asked("del_self")' <=> Asked("del_self")
      /\ Asked("add_bss")' <=> Asked("add_bss")
      /\ Asked("del_bss")' <=> Asked("del_bss")
      /\ \A m \in Asks : Once(m)'
      /\ wma.umac \in UmacType
      /\ "stop_unsent" \in past' <=> "stop_unsent" \in past
      /\ "start_timed_out" \in past' <=> "start_timed_out" \in past
  BY <1>0, AnsweredTalk
<1>2. CASE wma' = wma
  BY <1>0, <1>2, NothingTalk
<1>3. CASE wma' # wma
  <2>1. PICK r \in Reqs :
           /\ wma.alloc[r].kind = "start"
           /\ wma' \in WmaType /\ Requests(wma', wma, {r}, {}, "start", FALSE)
           /\ wma'.handle = wma.handle /\ wma'.del_staself_req = wma.del_staself_req
           /\ wma'.peer = wma.peer /\ wma'.crashed = wma.crashed
           /\ \/ wma'.bss_started /\ ~wma'.stale /\ wma'.umac = Hear("added", wma.umac)
              \/ /\ wma'.bss_started = wma.bss_started
                 /\ wma'.umac = Hear("add_failed", wma.umac)
    BY <1>3 DEF StartedTo
  <2>2. Turn("start", FALSE, "start", FALSE)
    BY <2>1, Turns DEF DialogInv, Kinds
  <2>3. /\ ~Waiting("start")' /\ Waiting("start")
        /\ Waiting("stop")' <=> Waiting("stop")
        /\ Waiting("del")' <=> Waiting("del")
        /\ OwnStop' <=> OwnStop
        /\ \A j \in Kinds : Alone(j)'
    BY <2>1, <2>2 DEF Turn, Kinds, Waiting
  <2>4. /\ wma.umac.bss = "adding" /\ wma.umac.self = "here" /\ wma.handle /\ wma.peer
        /\ ~Asked("add_bss") /\ ~Waiting("stop") /\ ~OwnStop /\ ~Waiting("del")
        /\ ~Asked("del_bss")
    <3>1. wma.umac.bss = "adding" /\ ~Waiting("stop")
      BY <2>3 DEF DialogInv, TalkInv
    <3>2. ~OwnStop
      BY <3>1 DEF OwnStop, Waiting
    <3> QED  BY <2>3, <3>1, <3>2 DEF DialogInv, TalkInv
  <2>5. /\ Hear("added", wma.umac).bss = "up" /\ Hear("add_failed", wma.umac).bss = "none"
        /\ Hear("added", wma.umac).self = wma.umac.self
        /\ Hear("add_failed", wma.umac).self = wma.umac.self
        /\ Hear("added", wma.umac).confused = wma.umac.confused
        /\ Hear("add_failed", wma.umac).confused = wma.umac.confused
    BY <1>1, <2>4, HearEach
  <2>6. TalkInv'
    BY <1>1, <2>1, <2>3, <2>4, <2>5 DEF DialogInv, TalkInv
  <2> QED  BY <1>1, <2>3, <2>6 DEF DialogInv
<1> QED  BY <1>2, <1>3

\* There is one stop, and it is WMA's own or the upper layers'.
LEMMA OwnIs ==
    ASSUME DialogInv, NEW r \in Reqs, wma.alloc[r].kind = "stop"
    PROVE  Waiting("stop") /\ (wma.alloc[r].own <=> OwnStop)
BY DEF DialogInv, Alone, OwnStop, Waiting, Kinds

\* The end of a stop is answered if the upper layers asked for it.
LEMMA StopOverTalk ==
    ASSUME TypeOK, QueueInv, DialogInv, NEW fail \in Failures, Does(fail),
           \A m \in Asks : mc # Msg(m), ~Expired("start"),
           NEW r \in Reqs, wma.alloc[r].kind = "stop", NEW answer \in BOOLEAN,
           ~OwnStop => answer, StopOver(wma', wma, r, answer)
    PROVE  DialogInv'
<1>1. /\ Asked("add_self")' <=> Asked("add_self")
      /\ Asked("del_self")' <=> Asked("del_self")
      /\ Asked("add_bss")' <=> Asked("add_bss")
      /\ Asked("del_bss")' <=> Asked("del_bss")
      /\ \A m \in Asks : Once(m)'
      /\ wma.umac \in UmacType
      /\ "stop_unsent" \in past' <=> "stop_unsent" \in past
      /\ "start_timed_out" \in past' <=> "start_timed_out" \in past
  BY AnsweredTalk
<1>2. Waiting("stop")
  BY OwnIs
<1>3. /\ wma.peer /\ wma.handle /\ ~Waiting("start") /\ ~Asked("del_bss") /\ ~Waiting("del")
      /\ ~wma.stale
  BY <1>2 DEF DialogInv, TalkInv
<1> DEFINE u == HeardDown(wma, answer)
<1>4. /\ u \in UmacType /\ u.self = wma.umac.self
      /\ OwnStop => u.bss = wma.umac.bss /\ wma.umac.bss \in {"none", "adding"}
      /\ ~OwnStop => wma.umac.bss = "deleting" /\ u.bss = "none"
      /\ "start_timed_out" \notin past => u.confused = wma.umac.confused
  <2>1. /\ OwnStop => "start_timed_out" \in past /\ wma.umac.bss \in {"none", "adding"}
        /\ ~OwnStop => wma.umac.bss = "deleting"
    BY <1>2 DEF DialogInv, TalkInv
  <2>2. CASE answer
    <3>1. u = Hear("bss_deleted", wma.umac)
      BY <2>2 DEF HeardDown
    <3> HIDE DEF u
    <3> QED  BY <1>1, <2>1, <3>1, HearEach
  <2>3. CASE ~answer
    <3>1. u = wma.umac
      BY <2>3 DEF HeardDown
    <3> QED  BY <1>1, <2>1, <2>3, <3>1
  <2> QED  BY <2>2, <2>3
<1> HIDE DEF u
<1>5. wma' \in WmaType /\ ~wma'.peer /\ ~wma'.bss_started /\ ~wma'.stale /\ (wma'.crashed <=> wma.crashed)
  BY <1>3 DEF StopOver
<1>6. CASE /\ ~wma.del_staself_req
           /\ wma'.handle = wma.handle /\ wma'.del_staself_req = wma.del_staself_req
           /\ wma'.umac = u /\ Requests(wma', wma, {r}, {}, "del", FALSE)
  <2>1. Turn("stop", FALSE, "start", FALSE)
    BY <1>5, <1>6, Turns DEF DialogInv, Kinds
  <2>2. /\ Waiting("start")' <=> Waiting("start")
        /\ ~Waiting("stop")'
        /\ Waiting("del")' <=> Waiting("del")
        /\ ~OwnStop'
        /\ \A j \in Kinds : Alone(j)'
    BY <2>1 DEF Turn, Kinds
  <2>3. TalkInv'
    BY <1>1, <1>3, <1>4, <1>5, <1>6, <2>2 DEF DialogInv, TalkInv
  <2> QED  BY <1>1, <2>2, <2>3 DEF DialogInv
<1>7. CASE /\ wma.del_staself_req /\ ~wma'.handle /\ ~wma'.del_staself_req
           /\ wma'.umac = Hear("self_deleted", u) /\ Requests(wma', wma, {r}, {}, "del", FALSE)
  <2>1. Turn("stop", FALSE, "start", FALSE)
    BY <1>5, <1>7, Turns DEF DialogInv, Kinds
  <2>2. /\ Waiting("start")' <=> Waiting("start")
        /\ ~Waiting("stop")'
        /\ Waiting("del")' <=> Waiting("del")
        /\ ~OwnStop'
        /\ \A j \in Kinds : Alone(j)'
    BY <2>1 DEF Turn, Kinds
  <2>3. /\ ~OwnStop /\ wma.umac.self = "deleting" /\ u.bss = "none" /\ wma.umac.bss = "deleting"
        /\ ~Asked("add_self") /\ ~Asked("del_self") /\ ~Asked("add_bss")
    BY <1>4, <1>7 DEF DialogInv, TalkInv
  <2>4. /\ wma'.umac.self = "gone" /\ wma'.umac.bss = "none"
        /\ "start_timed_out" \notin past => wma'.umac.confused = wma.umac.confused
    BY <1>4, <1>7, <2>3, HearEach
  <2>5. TalkInv'
    BY <1>1, <1>3, <1>5, <1>7, <2>2, <2>3, <2>4 DEF DialogInv, TalkInv
  <2> QED  BY <1>1, <2>2, <2>5 DEF DialogInv
<1>8. CASE /\ wma.del_staself_req /\ wma'.handle /\ wma'.del_staself_req /\ wma'.umac = u
           /\ \E q \in Reqs : Requests(wma', wma, {r}, {q}, "del", FALSE)
  <2>1. Turn("stop", TRUE, "del", FALSE)
    BY <1>5, <1>8, Turns DEF DialogInv, Kinds
  <2>2. /\ Waiting("start")' <=> Waiting("start")
        /\ ~Waiting("stop")'
        /\ Waiting("del")'
        /\ ~OwnStop'
        /\ \A j \in Kinds : Alone(j)'
    BY <1>3, <2>1 DEF Turn, Kinds
  <2>3. /\ ~OwnStop /\ wma.umac.self = "deleting" /\ u.bss = "none" /\ wma.umac.bss = "deleting"
        /\ ~Asked("add_self") /\ ~Asked("del_self") /\ ~Asked("add_bss")
    BY <1>4, <1>8 DEF DialogInv, TalkInv
  <2>4. TalkInv'
    BY <1>1, <1>3, <1>4, <1>5, <1>8, <2>2, <2>3 DEF DialogInv, TalkInv
  <2> QED  BY <1>1, <2>2, <2>4 DEF DialogInv
<1> QED  BY <1>3, <1>6, <1>7, <1>8 DEF StopOver, u

\* The answer to a stop keeps the dialogue orderly.
LEMMA StoppedTalk ==
    ASSUME TypeOK, QueueInv, DialogInv, NEW fail \in Failures, Does(fail),
           mc = Msg("stopped"), StoppedTo(wma', wma)
    PROVE  DialogInv'
<1>0. (\A m \in Asks : mc # Msg(m)) /\ ~Expired("start")
  BY ExpiredIs, Messages DEF Asks, MsgTypes, Kinds
<1>1. CASE wma' = wma
  BY <1>0, <1>1, NothingTalk
<1>2. CASE wma' # wma
  <2>1. PICK r \in Reqs :
           /\ wma.alloc[r].kind = "stop"
           /\ ~wma.handle \/ StopOver(wma', wma, r, ~wma.alloc[r].own)
    BY <1>2 DEF StoppedTo
  <2>2. Waiting("stop") /\ (wma.alloc[r].own <=> OwnStop)
    BY <2>1, OwnIs
  <2>3. wma.handle
    BY <2>2 DEF DialogInv, TalkInv
  <2> DEFINE answer == ~wma.alloc[r].own
  <2>4. answer \in BOOLEAN /\ (~OwnStop => answer) /\ StopOver(wma', wma, r, answer)
    BY <2>1, <2>2, <2>3
  <2> HIDE DEF answer
  <2> QED  BY <1>0, <2>1, <2>4, StopOverTalk
<1> QED  BY <1>1, <1>2

\* The end of a deletion is answered, and the device is gone.
LEMMA DelOverTalk ==
    ASSUME TypeOK, QueueInv, DialogInv, NEW fail \in Failures, Does(fail),
           \A m \in Asks : mc # Msg(m), ~Expired("start"),
           NEW r \in Reqs, wma.alloc[r].kind = "del", DelOver(wma', wma, r)
    PROVE  DialogInv'
<1>1. /\ Asked("add_self")' <=> Asked("add_self")
      /\ Asked("del_self")' <=> Asked("del_self")
      /\ Asked("add_bss")' <=> Asked("add_bss")
      /\ Asked("del_bss")' <=> Asked("del_bss")
      /\ \A m \in Asks : Once(m)'
      /\ wma.umac \in UmacType
      /\ "stop_unsent" \in past' <=> "stop_unsent" \in past
      /\ "start_timed_out" \in past' <=> "start_timed_out" \in past
  BY AnsweredTalk
<1>2. Waiting("del")
  BY DEF Waiting
<1>3. /\ wma.del_staself_req /\ ~wma.bss_started /\ ~Waiting("stop") /\ wma.umac.self = "deleting"
      /\ wma.umac.bss = "none" /\ ~Asked("del_self") /\ ~Asked("add_self") /\ ~Waiting("start")
      /\ ~Asked("add_bss") /\ ~Asked("del_bss")
  BY <1>1, <1>2 DEF DialogInv, TalkInv, UmacType
<1>4. /\ wma' \in WmaType /\ wma'.peer = wma.peer /\ Requests(wma', wma, {r}, {}, "del", FALSE)
      /\ ~wma'.handle /\ ~wma'.bss_started /\ ~wma'.del_staself_req /\ ~wma'.stale
      /\ wma'.crashed = wma.crashed /\ wma'.umac = Hear("self_deleted", wma.umac)
  BY <1>3 DEF DelOver
<1>5. Turn("del", FALSE, "start", FALSE)
  BY <1>4, Turns DEF DialogInv, Kinds
<1>6. /\ Waiting("start")' <=> Waiting("start")
      /\ Waiting("stop")' <=> Waiting("stop")
      /\ ~Waiting("del")'
      /\ OwnStop' <=> OwnStop
      /\ \A j \in Kinds : Alone(j)'
  BY <1>5 DEF Turn, Kinds
<1>7. ~OwnStop
  BY <1>3 DEF OwnStop, Waiting
<1>8. wma'.umac.self = "gone" /\ wma'.umac.bss = "none" /\ wma'.umac.confused = wma.umac.confused
  BY <1>1, <1>3, <1>4, HearEach
<1>9. TalkInv'
  BY <1>1, <1>3, <1>4, <1>6, <1>7, <1>8 DEF DialogInv, TalkInv
<1> QED  BY <1>1, <1>6, <1>9 DEF DialogInv

\* The answer to a deletion keeps the dialogue orderly.
LEMMA DeletedTalk ==
    ASSUME TypeOK, QueueInv, DialogInv, NEW fail \in Failures, Does(fail),
           mc = Msg("deleted"), DeletedTo(wma', wma)
    PROVE  DialogInv'
<1>0. (\A m \in Asks : mc # Msg(m)) /\ ~Expired("start")
  BY ExpiredIs, Messages DEF Asks, MsgTypes, Kinds
<1>1. CASE wma' = wma
  BY <1>0, <1>1, NothingTalk
<1>2. CASE wma' # wma
  BY <1>0, <1>2, DelOverTalk DEF DeletedTo
<1> QED  BY <1>1, <1>2

\* A timeout keeps it orderly: the start fails and WMA stops the BSS by itself, a stop or a deletion
\* is treated as done.
LEMMA TimedOutTalk ==
    ASSUME TypeOK, QueueInv, DialogInv, NEW fail \in Failures, Does(fail), Mode, Mode',
           NEW r \in Reqs, mc = Timer(r), TimedOutTo(wma', wma, r, fail)
    PROVE  DialogInv'
<1>0. \A m \in Asks : mc # Msg(m)
  BY Messages DEF Asks, MsgTypes
<1>1. CASE wma.alloc[r].kind = "start"
  <2>1. Expired("start") /\ Waiting("start")
    BY <1>1, ExpiredIs DEF Kinds, Waiting
  <2>2. /\ Asked("add_self")' <=> Asked("add_self")
        /\ Asked("del_self")' <=> Asked("del_self")
        /\ Asked("add_bss")' <=> Asked("add_bss")
        /\ Asked("del_bss")' <=> Asked("del_bss")
        /\ \A m \in Asks : Once(m)'
        /\ wma.umac \in UmacType
        /\ "start_timed_out" \in past'
        /\ "stop_unsent" \in past' <=> "stop_unsent" \in past \/ fail # "none"
    BY <1>0, <2>1, AnsweredTalk
  <2>3. fail = "none" /\ "stop_unsent" \notin past
    BY <2>2 DEF Mode
  <2>4. StartOver(wma', wma, r, fail)
    BY <1>1 DEF TimedOutTo
  <2>5. /\ wma' \in WmaType /\ wma'.umac = Hear("add_failed", wma.umac)
        /\ wma'.handle = wma.handle /\ wma'.bss_started = wma.bss_started
        /\ wma'.del_staself_req = wma.del_staself_req /\ wma'.crashed = wma.crashed
        /\ wma'.peer = wma.peer /\ wma'.stale = wma.stale
        /\ \E q \in Reqs : Requests(wma', wma, {r}, {q}, "stop", TRUE)
    BY <2>3, <2>4 DEF StartOver
  <2>6. /\ wma.umac.bss = "adding" /\ wma.umac.self = "here" /\ wma.handle /\ wma.peer
        /\ ~Asked("add_bss") /\ ~Waiting("stop") /\ ~wma.bss_started /\ ~wma.del_staself_req
        /\ ~Waiting("del") /\ ~Asked("del_bss") /\ ~wma.stale
    BY <2>1, <2>3 DEF DialogInv, TalkInv
  <2>7. Turn("start", TRUE, "stop", TRUE)
    BY <1>1, <2>5, Turns DEF DialogInv, Kinds
  <2>8. /\ ~Waiting("start")'
        /\ Waiting("stop")'
        /\ Waiting("del")' <=> Waiting("del")
        /\ OwnStop'
        /\ \A j \in Kinds : Alone(j)'
    BY <2>6, <2>7 DEF Turn, Kinds
  <2>9. wma'.umac.bss = "none" /\ wma'.umac.self = "here"
    BY <2>2, <2>5, <2>6, HearEach
  <2>10. TalkInv'
    BY <2>2, <2>3, <2>5, <2>6, <2>8, <2>9 DEF DialogInv, TalkInv
  <2> QED  BY <2>2, <2>8, <2>10 DEF DialogInv
<1>2. CASE wma.alloc[r].kind = "stop"
  <2>1. ~Expired("start") /\ Waiting("stop")
    BY <1>2, ExpiredIs DEF Kinds, Waiting
  <2>2. wma.handle
    BY <2>1 DEF DialogInv, TalkInv
  <2>3. StopOver(wma', wma, r, TRUE)
    BY <1>2, <2>2 DEF TimedOutTo
  <2> QED  BY <1>0, <1>2, <2>1, <2>3, StopOverTalk
<1>3. CASE wma.alloc[r].kind = "del"
  <2>1. ~Expired("start")
    BY <1>3, ExpiredIs DEF Kinds
  <2>2. DelOver(wma', wma, r)
    BY <1>3 DEF TimedOutTo
  <2> QED  BY <1>0, <1>3, <2>1, <2>2, DelOverTalk
<1> QED  BY <1>1, <1>2, <1>3 DEF TimedOutTo

\* Every handler keeps the dialogue orderly.
LEMMA HandlesDialog ==
    ASSUME TypeOK, QueueInv, DialogInv, NEW fail \in Failures, Does(fail), Mode, Mode'
    PROVE  DialogInv'
<1>1. ASSUME NEW r \in Reqs, mc = Timer(r), TimedOutTo(wma', wma, r, fail) PROVE DialogInv'
  BY <1>1, TimedOutTalk
<1>2. CASE mc = Msg("add_self") /\ AddSelfTo(wma', wma, fail)
  BY <1>2, AddSelfTalk
<1>3. CASE mc = Msg("del_self") /\ DetachTo(wma', wma)
  BY <1>3, DetachTalk
<1>4. CASE mc = Msg("add_bss") /\ AddBssTo(wma', wma)
  BY <1>4, AddBssTalk
<1>5. CASE mc = Msg("del_bss") /\ DelBssTo(wma', wma, fail)
  BY <1>5, DelBssTalk
<1>6. CASE mc \in {Msg("start_ok"), Msg("start_failed")} /\ \E ok \in BOOLEAN : StartedTo(wma', wma, ok, fail)
  BY <1>6, StartedTalk
<1>7. CASE mc = Msg("stopped") /\ StoppedTo(wma', wma)
  BY <1>7, StoppedTalk
<1>8. CASE mc = Msg("deleted") /\ DeletedTo(wma', wma)
  BY <1>8, DeletedTalk
<1> QED  BY <1>1, <1>2, <1>3, <1>4, <1>5, <1>6, <1>7, <1>8, DoesHandled DEF HandledTo

\* Requests, flags and messages as before.
LEMMA SameTalk ==
    ASSUME DialogInv,
           \A r \in Reqs : wma'.alloc[r].kind = wma.alloc[r].kind /\ wma'.alloc[r].own = wma.alloc[r].own,
           wma'.umac = wma.umac, wma'.handle = wma.handle, wma'.bss_started = wma.bss_started,
           wma'.del_staself_req = wma.del_staself_req, wma'.peer = wma.peer, wma'.crashed = wma.crashed,
           wma'.stale = wma.stale,
           \A m \in Asks : (Asked(m)' <=> Asked(m)) /\ Once(m)',
           "start_timed_out" \in past' <=> "start_timed_out" \in past,
           "stop_unsent" \in past' <=> "stop_unsent" \in past
    PROVE  DialogInv'
<1>1. /\ \A k \in Kinds : (Waiting(k)' <=> Waiting(k)) /\ (Alone(k)' <=> Alone(k))
      /\ OwnStop' <=> OwnStop
  BY DEF Waiting, Alone, OwnStop
<1>2. /\ Waiting("start")' <=> Waiting("start")
      /\ Waiting("stop")' <=> Waiting("stop")
      /\ Waiting("del")' <=> Waiting("del")
  BY <1>1 DEF Kinds
<1>3. /\ Asked("add_self")' <=> Asked("add_self")
      /\ Asked("del_self")' <=> Asked("del_self")
      /\ Asked("add_bss")' <=> Asked("add_bss")
      /\ Asked("del_bss")' <=> Asked("del_bss")
  BY DEF Asks
<1>4. TalkInv'
  BY <1>1, <1>2, <1>3 DEF DialogInv, TalkInv
<1> QED  BY <1>1, <1>4 DEF DialogInv

\* Taking a message does not change what is asked.
LEMMA TakesAsked ==
    ASSUME TypeOK, McTakes
    PROVE  \A m \in MsgTypes : (Asked(m)' <=> Asked(m)) /\ (Once(m) => Once(m)')
<1>0. mc.type = "none" /\ \A m \in MsgTypes : m # "none" /\ m # "timer"
  BY Messages DEF McTakes, MsgTypes
<1>1. CASE sysq # <<>> /\ mc' = Timer(Head(sysq)) /\ wmaq' = wmaq
  <2>1. mc'.type = "timer"
    BY <1>1, Shortened, Messages DEF TypeOK
  <2> QED  BY <1>0, <1>1, <2>1 DEF Asked, Once
<1>2. CASE wmaq # <<>> /\ mc' = Msg(Head(wmaq)) /\ wmaq' = Tail(wmaq)
  <2> DEFINE h == Head(wmaq)
  <2>1. /\ \A y : y \in Range(wmaq) <=> y = h \/ y \in Range(wmaq')
        /\ \A a, b : Precedes(wmaq, a, b)
                       <=> (a = h /\ b \in Range(wmaq')) \/ Precedes(wmaq', a, b)
    BY <1>2, Shortened DEF TypeOK
  <2>2. mc'.type = h
    BY <1>2, Messages
  <2> HIDE DEF h
  <2> QED  BY <1>0, <2>1, <2>2 DEF Asked, Once
<1> QED  BY <1>1, <1>2 DEF McTakes

\* A message that is taken is still asked for.
LEMMA TakesDialog ==
    ASSUME TypeOK, DialogInv, McTakes
    PROVE  DialogInv'
<1>1. Asks \subseteq MsgTypes
  BY DEF Asks, MsgTypes
<1>2. wma' = wma /\ past' = past
  BY DEF McTakes
<1>3. \A m \in Asks : (Asked(m)' <=> Asked(m)) /\ Once(m)'
  BY <1>1, TakesAsked DEF DialogInv
<1> QED  BY <1>2, <1>3, SameTalk

\* An expiry stops the timer and nothing else.
LEMMA ExpireIs ==
    ASSUME TypeOK, NEW r \in Reqs, Expire(r, TRUE), Calm'
    PROVE  /\ \A q \in Reqs : wma'.alloc[q].kind = wma.alloc[q].kind /\ wma'.alloc[q].own = wma.alloc[q].own
           /\ Others(wma', wma) /\ past' = past /\ wmaq' = wmaq /\ mc' = mc /\ fwUp' = fwUp /\ sync' = sync
<1>0. /\ wma \in WmaType /\ wma.alloc[r].running
      /\ mc' = mc /\ sync' = sync /\ wmaq' = wmaq /\ fwUp' = fwUp
      /\ wma' = [wma EXCEPT !.alloc[r].running = FALSE]
  BY DEF Expire, TypeOK
<1>1. past' = past
  BY DEF Expire, Calm
<1>2. wma.alloc[r] \in [kind : Kinds, own : BOOLEAN, running : BOOLEAN]
  BY <1>0 DEF WmaType, NoReq
<1>3. wma'.alloc = [wma.alloc EXCEPT ![r] = [wma.alloc[r] EXCEPT !.running = FALSE]]
  BY <1>0 DEF WmaType
<1>4. \A q \in Reqs : wma'.alloc[q].kind = wma.alloc[q].kind /\ wma'.alloc[q].own = wma.alloc[q].own
  BY <1>0, <1>2, <1>3 DEF WmaType
<1>5. Others(wma', wma)
  BY <1>0 DEF Others, WmaType
<1> QED  BY <1>0, <1>1, <1>4, <1>5

\* An expiry is not part of the dialogue.
LEMMA ExpireDialog ==
    ASSUME TypeOK, DialogInv, NEW r \in Reqs, Expire(r, TRUE), Calm'
    PROVE  DialogInv'
<1>1. \A m \in Asks : (Asked(m)' <=> Asked(m)) /\ Once(m)'
  BY ExpireIs DEF Asked, Once, DialogInv
<1> QED  BY <1>1, ExpireIs, SameTalk DEF Others

\* The target takes a command; it answers at most once.
TargetTo(cmd, ok) ==
    /\ fwUp' <=> cmd = "start" /\ ok
    /\ \/ wmaq' = wmaq
       \/ cmd = "start" /\ ok /\ wmaq' = Append(wmaq, "start_ok")
       \/ cmd = "start" /\ ~ok /\ wmaq' = Append(wmaq, "start_failed")
       \/ cmd = "stop" /\ wmaq' = Append(wmaq, "stopped")
       \/ cmd = "del" /\ wmaq' = Append(wmaq, "deleted")

\* A queue to which a queue of one entry is joined.
LEMMA OneMore ==
    ASSUME NEW S, NEW s \in Seq(S), NEW x \in S
    PROVE  s \o <<x>> = Append(s, x)
OBVIOUS

\* What a step of the target changes.
LEMMA TargetIs ==
    ASSUME TypeOK, TargetStep
    PROVE  /\ wma.cmds # <<>> /\ wma'.cmds = Tail(wma.cmds)
           /\ wma'.alloc = wma.alloc /\ wma'.umac = wma.umac /\ wma'.handle = wma.handle
           /\ wma'.bss_started = wma.bss_started /\ wma'.del_staself_req = wma.del_staself_req
           /\ wma'.peer = wma.peer /\ wma'.crashed = wma.crashed
           /\ wma'.paused = wma.paused /\ wma'.locks = wma.locks /\ wma'.stale = wma.stale
           /\ sysq' = sysq /\ mc' = mc /\ sync' = sync /\ past' = past
           /\ \E ok \in BOOLEAN : TargetTo(Head(wma.cmds), ok)
<1> DEFINE cmd == Head(wma.cmds)
           ans(ok) == CASE cmd = "start" -> <<IF ok THEN "start_ok" ELSE "start_failed">>
                        [] cmd = "stop" -> <<"stopped">>
                        [] cmd = "del" /\ sync -> <<"deleted">>
                        [] OTHER -> <<>>
<1>0. wma \in WmaType /\ wma.cmds # <<>> /\ wmaq \in Seq(MsgTypes)
  BY DEF TypeOK, TargetStep
<1>1. wma' = [wma EXCEPT !.cmds = Tail(wma.cmds)] /\ sysq' = sysq /\ mc' = mc /\ sync' = sync /\ past' = past
  BY <1>0 DEF TargetStep
<1>2. /\ wma'.cmds = Tail(wma.cmds)
      /\ wma'.alloc = wma.alloc /\ wma'.umac = wma.umac /\ wma'.handle = wma.handle
      /\ wma'.bss_started = wma.bss_started /\ wma'.del_staself_req = wma.del_staself_req
      /\ wma'.peer = wma.peer /\ wma'.crashed = wma.crashed
      /\ wma'.paused = wma.paused /\ wma'.locks = wma.locks /\ wma'.stale = wma.stale
  BY <1>0, <1>1 DEF WmaType
<1>3. PICK ok \in BOOLEAN, lost \in BOOLEAN :
         /\ fwUp' = (cmd = "start" /\ ok)
         /\ wmaq' = IF lost THEN wmaq ELSE wmaq \o ans(ok)
  BY DEF TargetStep
<1>4. /\ wmaq \o <<"start_ok">> = Append(wmaq, "start_ok")
      /\ wmaq \o <<"start_failed">> = Append(wmaq, "start_failed")
      /\ wmaq \o <<"stopped">> = Append(wmaq, "stopped")
      /\ wmaq \o <<"deleted">> = Append(wmaq, "deleted")
      /\ wmaq \o <<>> = wmaq
  <2>1. wmaq \o <<>> = wmaq
    BY <1>0
  <2> QED  BY <1>0, <2>1, OneMore DEF MsgTypes
<1>5. \/ cmd = "start" /\ ans(ok) = <<IF ok THEN "start_ok" ELSE "start_failed">>
      \/ cmd = "stop" /\ ans(ok) = <<"stopped">>
      \/ cmd = "del" /\ ans(ok) = <<"deleted">>
      \/ ans(ok) = <<>>
  <2> HIDE DEF cmd
  <2> QED  OBVIOUS
<1>6. TargetTo(cmd, ok)
  <2> HIDE DEF ans, cmd
  <2>1. CASE lost
    BY <1>3, <2>1 DEF TargetTo
  <2>2. CASE ~lost /\ cmd = "start" /\ ans(ok) = <<IF ok THEN "start_ok" ELSE "start_failed">>
    <3>1. CASE ok
      <4>1. ans(ok) = <<"start_ok">>
        BY <2>2, <3>1
      <4> QED  BY <1>3, <1>4, <2>2, <3>1, <4>1 DEF TargetTo
    <3>2. CASE ~ok
      <4>1. ans(ok) = <<"start_failed">>
        BY <2>2, <3>2
      <4> QED  BY <1>3, <1>4, <2>2, <3>2, <4>1 DEF TargetTo
    <3> QED  BY <3>1, <3>2
  <2>3. CASE ~lost /\ cmd = "stop" /\ ans(ok) = <<"stopped">>
    BY <1>3, <1>4, <2>3 DEF TargetTo
  <2>4. CASE ~lost /\ cmd = "del" /\ ans(ok) = <<"deleted">>
    BY <1>3, <1>4, <2>4 DEF TargetTo
  <2>5. CASE ~lost /\ ans(ok) = <<>>
    BY <1>3, <1>4, <2>5 DEF TargetTo
  <2> QED  BY <1>5, <2>1, <2>2, <2>3, <2>4, <2>5
<1> QED  BY <1>0, <1>1, <1>2, <1>6

\* The answers of the target are not requests of the upper layers.
LEMMA TargetDialog ==
    ASSUME TypeOK, DialogInv, TargetStep
    PROVE  DialogInv'
<1>1. \E a \in MsgTypes \ Asks : wmaq' = wmaq \/ wmaq' = Append(wmaq, a)
  <2>1. \/ wmaq' = wmaq \/ wmaq' = Append(wmaq, "start_ok") \/ wmaq' = Append(wmaq, "start_failed")
        \/ wmaq' = Append(wmaq, "stopped") \/ wmaq' = Append(wmaq, "deleted")
    BY TargetIs DEF TargetTo
  <2>2. {"start_ok", "start_failed", "stopped", "deleted"} \subseteq MsgTypes \ Asks
    BY DEF MsgTypes, Asks
  <2> QED  BY <2>1, <2>2
<1>2. PICK a \in MsgTypes \ Asks : wmaq' = wmaq \/ wmaq' = Append(wmaq, a)
  BY <1>1
<1>3. \A m \in Asks : /\ m \in Range(wmaq') <=> m \in Range(wmaq)
                      /\ Precedes(wmaq', m, m) => Precedes(wmaq, m, m)
  <2>1. wmaq \in Seq(MsgTypes) /\ a \in MsgTypes /\ \A m \in Asks : m # a
    BY <1>2 DEF TypeOK
  <2>2. /\ \A y : y \in Range(Append(wmaq, a)) <=> y \in Range(wmaq) \/ y = a
        /\ \A x, b : Precedes(Append(wmaq, a), x, b)
                       <=> Precedes(wmaq, x, b) \/ (x \in Range(wmaq) /\ b = a)
    BY <2>1, Appended
  <2>3. CASE wmaq' = wmaq
    BY <2>3
  <2>4. CASE wmaq' = Append(wmaq, a)
    BY <2>1, <2>2, <2>4
  <2> QED  BY <1>2, <2>3, <2>4
<1>4. mc' = mc
  BY TargetIs
<1>5. \A m \in Asks : (Asked(m)' <=> Asked(m)) /\ Once(m)'
  BY <1>3, <1>4 DEF Asked, Once, DialogInv
<1> QED  BY <1>5, TargetIs, SameTalk

\* The upper layers ask for what they do not ask for yet.
LEMMA AskAsked ==
    ASSUME TypeOK, NEW m \in MsgTypes, NEW u, Ask(m, u)
    PROVE  /\ \A n \in MsgTypes : Asked(n)' <=> Asked(n) \/ n = m
           /\ \A n \in MsgTypes : Once(n) /\ (n = m => ~Asked(m)) => Once(n)'
           /\ wma' = [wma EXCEPT !.umac = u] /\ past' = past /\ mc' = mc /\ fwUp' = fwUp /\ sync' = sync
<1>1. /\ wma' = [wma EXCEPT !.umac = u] /\ past' = past /\ mc' = mc /\ fwUp' = fwUp /\ sync' = sync
      /\ wmaq' = Append(wmaq, m)
  BY DEF Ask
<1>2. /\ \A y : y \in Range(wmaq') <=> y \in Range(wmaq) \/ y = m
      /\ \A a, b : Precedes(wmaq', a, b) <=> Precedes(wmaq, a, b) \/ (a \in Range(wmaq) /\ b = m)
  BY <1>1, Appended DEF TypeOK
<1> QED  BY <1>1, <1>2 DEF Asked, Once

\* The upper layers ask for one thing at a time.
LEMMA UmacDialog ==
    ASSUME TypeOK, DialogInv, UmacStep
    PROVE  DialogInv'
<1>0. wma \in WmaType /\ wma.umac \in UmacType
  BY DEF TypeOK, WmaType, UmacType
<1>1. ASSUME NEW m \in Asks, NEW u, Ask(m, u), ~Asked(m)
      PROVE  /\ \A n \in Asks : (Asked(n)' <=> Asked(n) \/ n = m) /\ Once(n)'
             /\ Asked("add_self")' <=> Asked("add_self") \/ m = "add_self"
             /\ Asked("del_self")' <=> Asked("del_self") \/ m = "del_self"
             /\ Asked("add_bss")' <=> Asked("add_bss") \/ m = "add_bss"
             /\ Asked("del_bss")' <=> Asked("del_bss") \/ m = "del_bss"
             /\ wma'.umac = u /\ wma'.handle = wma.handle /\ wma'.bss_started = wma.bss_started
             /\ wma'.del_staself_req = wma.del_staself_req /\ wma'.peer = wma.peer
             /\ wma'.crashed = wma.crashed /\ wma'.stale = wma.stale /\ past' = past
             /\ Waiting("start")' <=> Waiting("start")
             /\ Waiting("stop")' <=> Waiting("stop")
             /\ Waiting("del")' <=> Waiting("del")
             /\ OwnStop' <=> OwnStop
             /\ \A j \in Kinds : Alone(j)'
  <2>0. Asks \subseteq MsgTypes
    BY DEF Asks, MsgTypes
  <2>1. \A n \in Asks : (Asked(n)' <=> Asked(n) \/ n = m) /\ Once(n)'
    BY <1>1, <2>0, AskAsked DEF DialogInv
  <2>2. wma' = [wma EXCEPT !.umac = u] /\ past' = past
    BY <1>1, <2>0, AskAsked
  <2>3. /\ wma'.umac = u /\ wma'.handle = wma.handle /\ wma'.bss_started = wma.bss_started
        /\ wma'.del_staself_req = wma.del_staself_req /\ wma'.peer = wma.peer
        /\ wma'.crashed = wma.crashed /\ wma'.stale = wma.stale /\ wma'.alloc = wma.alloc
    BY <1>0, <2>2 DEF WmaType
  <2>4. /\ Waiting("start")' <=> Waiting("start")
        /\ Waiting("stop")' <=> Waiting("stop")
        /\ Waiting("del")' <=> Waiting("del")
        /\ OwnStop' <=> OwnStop
        /\ \A j \in Kinds : Alone(j)'
    BY <2>3 DEF Waiting, OwnStop, Alone, DialogInv
  <2>5. /\ Asked("add_self")' <=> Asked("add_self") \/ m = "add_self"
        /\ Asked("del_self")' <=> Asked("del_self") \/ m = "del_self"
        /\ Asked("add_bss")' <=> Asked("add_bss") \/ m = "add_bss"
        /\ Asked("del_bss")' <=> Asked("del_bss") \/ m = "del_bss"
    BY <2>1 DEF Asks
  <2> QED  BY <2>1, <2>2, <2>3, <2>4, <2>5
<1>2. CASE wma.umac.self = "gone" /\ Ask("add_self", [wma.umac EXCEPT !.self = "adding"])
  <2> DEFINE u == [wma.umac EXCEPT !.self = "adding"]
  <2>1. u.self = "adding" /\ u.bss = wma.umac.bss /\ u.confused = wma.umac.confused
    BY <1>0 DEF UmacType
  <2>2. Ask("add_self", u) /\ ~Asked("add_self") /\ "add_self" \in Asks /\ wma.umac.self = "gone"
    BY <1>2 DEF DialogInv, TalkInv, Asks
  <2> HIDE DEF u
  <2>3. TalkInv'
    BY <1>1, <2>1, <2>2 DEF DialogInv, TalkInv
  <2> QED  BY <1>1, <2>2, <2>3 DEF DialogInv
<1>3. CASE /\ wma.umac.self = "here" /\ wma.umac.bss = "none"
           /\ Ask("add_bss", [wma.umac EXCEPT !.bss = "adding"])
  <2> DEFINE u == [wma.umac EXCEPT !.bss = "adding"]
  <2>1. u.self = wma.umac.self /\ u.bss = "adding" /\ u.confused = wma.umac.confused
    BY <1>0 DEF UmacType
  <2>2. /\ Ask("add_bss", u) /\ ~Asked("add_bss") /\ "add_bss" \in Asks
        /\ wma.umac.self = "here" /\ wma.umac.bss = "none"
    BY <1>3 DEF DialogInv, TalkInv, Asks
  <2> HIDE DEF u
  <2>3. TalkInv'
    BY <1>1, <2>1, <2>2 DEF DialogInv, TalkInv
  <2> QED  BY <1>1, <2>2, <2>3 DEF DialogInv
<1>4. CASE /\ wma.umac.self = "here" /\ wma.umac.bss = "up"
           /\ Ask("del_bss", [wma.umac EXCEPT !.bss = "deleting"])
  <2> DEFINE u == [wma.umac EXCEPT !.bss = "deleting"]
  <2>1. u.self = wma.umac.self /\ u.bss = "deleting" /\ u.confused = wma.umac.confused
    BY <1>0 DEF UmacType
  <2>2. /\ Ask("del_bss", u) /\ ~Asked("del_bss") /\ "del_bss" \in Asks
        /\ wma.umac.self = "here" /\ wma.umac.bss = "up"
    BY <1>4 DEF DialogInv, TalkInv, Asks
  <2> HIDE DEF u
  <2>3. TalkInv'
    BY <1>1, <2>1, <2>2 DEF DialogInv, TalkInv
  <2> QED  BY <1>1, <2>2, <2>3 DEF DialogInv
<1>5. CASE /\ wma.umac.self = "here" /\ wma.umac.bss \in {"none", "deleting"}
           /\ Ask("del_self", [wma.umac EXCEPT !.self = "deleting"])
  <2> DEFINE u == [wma.umac EXCEPT !.self = "deleting"]
  <2>1. u.self = "deleting" /\ u.bss = wma.umac.bss /\ u.confused = wma.umac.confused
    BY <1>0 DEF UmacType
  <2>2. /\ Ask("del_self", u) /\ ~Asked("del_self") /\ "del_self" \in Asks
        /\ wma.umac.self = "here" /\ wma.umac.bss \in {"none", "deleting"}
    BY <1>5 DEF DialogInv, TalkInv, Asks
  <2> HIDE DEF u
  <2>3. TalkInv'
    BY <1>1, <2>1, <2>2 DEF DialogInv, TalkInv
  <2> QED  BY <1>1, <2>2, <2>3 DEF DialogInv
<1> QED  BY <1>2, <1>3, <1>4, <1>5 DEF UmacStep

\* At first nothing is asked for.
LEMMA DialogInit ==
    ASSUME Init
    PROVE  DialogInv
<1>1. /\ wmaq = <<>> /\ mc.type = "none" /\ \A r \in Reqs : wma.alloc[r].kind = "none"
  BY Messages DEF Init, NoReq
<1>2. <<>> \in Seq(MsgTypes)
  OBVIOUS
<1>3. \A y : y \notin Range(wmaq) /\ \A a, b : ~Precedes(wmaq, a, b)
  BY <1>1, <1>2, Empty
<1>4. \A m \in Asks : ~Asked(m) /\ Once(m)
  BY <1>1, <1>3 DEF Asked, Once, Asks
<1>5. (\A k \in Kinds : ~Waiting(k) /\ Alone(k)) /\ ~OwnStop
  BY <1>1 DEF Waiting, Alone, OwnStop, Kinds
<1>6. ~Asked("add_self") /\ ~Asked("del_self") /\ ~Asked("add_bss") /\ ~Asked("del_bss")
  BY <1>4 DEF Asks
<1>7. ~Waiting("start") /\ ~Waiting("stop") /\ ~Waiting("del")
  BY <1>5 DEF Kinds
<1>8. TalkInv
  BY <1>5, <1>6, <1>7 DEF Init, TalkInv
<1> QED  BY <1>4, <1>5, <1>8 DEF DialogInv

\* Every step keeps the dialogue orderly.
LEMMA DialogStep ==
    ASSUME TypeOK, QueueInv, DialogInv, [Next]_vars, Mode, Mode'
    PROVE  DialogInv'
<1>1. CASE McTakes
  BY <1>1, TakesDialog
<1>2. CASE \E fail \in Failures, lost \in Losses : McHandles(fail, lost)
  <2>1. PICK fail \in Failures, lost \in Losses : McHandles(fail, lost)
    BY <1>2
  <2>2. Does(fail)
    BY <2>1, DoesIs DEF Mode, Calm
  <2> QED  BY <2>2, HandlesDialog
<1>3. CASE \E r \in Reqs, posted \in BOOLEAN : Expire(r, posted)
  BY <1>3, IsPosted, ExpireDialog DEF Mode
<1>7. CASE WakeLockLapses
  <2>1. \A m \in Asks : (Asked(m)' <=> Asked(m)) /\ Once(m)'
    BY <1>7, LapseIs DEF Asked, Once, DialogInv
  <2> QED  BY <1>7, <2>1, LapseIs, SameTalk
<1>4. CASE TargetStep
  BY <1>4, TargetDialog
<1>5. CASE UmacStep
  BY <1>5, UmacDialog
<1>6. CASE UNCHANGED vars
  <2>1. wma' = wma /\ wmaq' = wmaq /\ mc' = mc /\ past' = past
    BY <1>6 DEF vars
  <2>2. \A m \in Asks : (Asked(m)' <=> Asked(m)) /\ Once(m)'
    BY <2>1 DEF Asked, Once, DialogInv
  <2> QED  BY <2>1, <2>2, SameTalk
<1> QED  BY <1>1, <1>2, <1>3, <1>4, <1>5, <1>6, <1>7 DEF Next

\* The requests are in order whenever all is calm, and the dialogue is
\* in the modes in which it is orderly.
CalmDialog == CalmQueue /\ (Mode => DialogInv)

\* The history grows, so an orderly mode was one before.
LEMMA ModeKept ==
    ASSUME past \subseteq past'
    PROVE  Mode' => Mode
BY DEF Mode, Calm

\* The dialogue is orderly as long as all is calm, responses are heard and the device is
\* created, unless a stop that WMA made after a start timed out was not sent or was
\* overtaken by a deletion.
THEOREM DialogKeeps == Spec => []CalmDialog
<1>1. Init => CalmDialog
  BY QueueInit, DialogInit DEF CalmDialog, CalmQueue
<1>2. CalmDialog /\ CalmQueue' /\ [Next]_vars => CalmDialog'
  <2> SUFFICES ASSUME CalmDialog, CalmQueue', [Next]_vars, Mode' PROVE DialogInv'
    BY DEF CalmDialog
  <2>1. Mode
    BY PastKept, ModeKept
  <2>2. TypeOK /\ QueueInv /\ DialogInv
    BY <2>1 DEF CalmDialog, CalmQueue, Mode
  <2> QED  BY <2>1, <2>2, DialogStep
<1> QED  BY <1>1, <1>2, QueueKeeps, PTL DEF Spec

\* The messages of timers and the responses to PE and SME are posted, no stop is removed
\* in the place of another, and a device is opened only when it was created.
Reliable == past \cap {"timer_lost", "unheard", "misremoved", "not_created"} = {}

\* AnsweredOnce of every instance that is Reliable: PE and SME get answers only to what they
\* asked for unless a start timed out, and no handler uses a deletion that is over or a
\* beacon that was freed unless the stop made for such a start was not sent or was
\* overtaken by a deletion.  With the other mishaps AnsweredOnce is only model-checked.
THEOREM AnswersMatch == Spec => [](Reliable => AnsweredOnce)
<1>1. CalmDialog => (Reliable => AnsweredOnce)
  <2> SUFFICES ASSUME CalmDialog, Reliable, "raced" \notin past
               PROVE  /\ wma.umac.confused => "start_timed_out" \in past
                      /\ wma.crashed => /\ "start_timed_out" \in past
                                        /\ past \cap {"orphaned", "stop_unsent"} # {}
    BY DEF AnsweredOnce
  <2>1. "start_timed_out" \notin past \/ past \cap {"orphaned", "stop_unsent"} = {} => Mode
    BY DEF Mode, Calm, Reliable
  <2>2. Mode => ~wma.crashed /\ (wma.umac.confused => "start_timed_out" \in past)
    BY DEF CalmDialog, DialogInv, TalkInv
  <2> QED  BY <2>1, <2>2
<1> QED  BY <1>1, DialogKeeps, PTL

-----------------------------------------------------------------------------
(* The pause of transmission and the locks *)

LockMode == Mode /\ past \cap {"orphaned", "stop_unsent"} = {}

LockInv ==
    /\ wma.paused <=> Waiting("stop")
    /\ "runtime" \in wma.locks <=> sync /\ Waiting("del")
    /\ "wake" \in wma.locks => "runtime" \in wma.locks

\* Every handler pauses and resumes transmission with its stop, and takes and releases the
\* locks with its deletion.
LEMMA HandlesLock ==
    ASSUME TypeOK, QueueInv, DialogInv, LockInv, NEW fail \in Failures, Does(fail), LockMode'
    PROVE  LockInv'
<1>0. /\ sync' = sync /\ \A j \in Kinds : Alone(j)
      /\ "start" \in Kinds /\ "stop" \in Kinds /\ "del" \in Kinds
  BY DEF Does, DialogInv, Kinds
<1>1. /\ "start_timed_out" \in past' <=> "start_timed_out" \in past \/ Expired("start")
      /\ ~(mc.type = "del_self" /\ ~wma.bss_started /\ Waiting("stop"))
      /\ ~(fail # "none" /\ Expired("start"))
      /\ ~(fail # "none" /\ mc.type = "del_bss" /\ wma.peer /\ wma.handle)
  BY <1>0, HandlesPast, FoundWaiting DEF LockMode
<1>2. ASSUME wma' \in WmaType, wma'.alloc = wma.alloc, wma'.respq = wma.respq,
             wma'.locks = wma.locks, wma'.paused = wma.paused \/ (~wma'.paused /\ ~Waiting("stop"))
      PROVE  LockInv'
  <2>1. Turn("no", FALSE, "start", FALSE)
    BY <1>0, <1>2, Turns
  <2>2. (Waiting("stop")' <=> Waiting("stop")) /\ (Waiting("del")' <=> Waiting("del"))
    BY <1>0, <2>1 DEF Turn, Kinds
  <2> QED  BY <1>0, <1>2, <2>2 DEF LockInv
<1>3. ASSUME NEW r \in Reqs, wma.alloc[r].kind = "stop", NEW answer, StopOver(wma', wma, r, answer)
      PROVE  LockInv'
  <2>1. wma' \in WmaType /\ ~wma'.paused
    BY <1>3 DEF StopOver
  <2>2. CASE Requests(wma', wma, {r}, {}, "del", FALSE) /\ wma'.locks = wma.locks
    <3>1. Turn("stop", FALSE, "start", FALSE)
      BY <1>0, <1>3, <2>1, <2>2, Turns
    <3>2. ~Waiting("stop")' /\ (Waiting("del")' <=> Waiting("del"))
      BY <1>0, <3>1 DEF Turn, Kinds
    <3> QED  BY <1>0, <2>1, <2>2, <3>2 DEF LockInv
  <2>3. CASE /\ \E q \in Reqs : Requests(wma', wma, {r}, {q}, "del", FALSE)
             /\ wma'.locks = {"wake", "runtime"} /\ sync
    <3>1. Turn("stop", TRUE, "del", FALSE)
      BY <1>0, <1>3, <2>1, <2>3, Turns
    <3>2. ~Waiting("stop")' /\ Waiting("del")'
      BY <1>0, <3>1 DEF Turn, Kinds
    <3> QED  BY <1>0, <2>1, <2>3, <3>2 DEF LockInv
  <2> QED  BY <1>3, <2>2, <2>3 DEF StopOver
<1>4. ASSUME NEW r \in Reqs, wma.alloc[r].kind = "del", DelOver(wma', wma, r)
      PROVE  LockInv'
  <2>1. Waiting("del")
    BY <1>4 DEF Waiting
  <2>2. wma.del_staself_req /\ ~Waiting("stop")
    BY <2>1 DEF DialogInv, TalkInv
  <2>3. /\ wma' \in WmaType /\ ~wma'.paused /\ wma'.locks = {}
        /\ Requests(wma', wma, {r}, {}, "del", FALSE)
    BY <1>4, <2>2 DEF DelOver
  <2>4. Turn("del", FALSE, "start", FALSE)
    BY <1>0, <1>4, <2>3, Turns
  <2>5. ~Waiting("stop")' /\ ~Waiting("del")'
    BY <1>0, <2>2, <2>4 DEF Turn, Kinds
  <2> QED  BY <2>3, <2>5 DEF LockInv
<1>5. ASSUME NEW r \in Reqs, mc = Timer(r), TimedOutTo(wma', wma, r, fail)
      PROVE  LockInv'
  <2>1. CASE wma.alloc[r].kind = "start"
    <3>1. fail = "none"
      BY <1>0, <1>1, <1>5, <2>1, ExpiredIs
    <3>2. StartOver(wma', wma, r, fail)
      BY <1>5, <2>1 DEF TimedOutTo
    <3>3. /\ wma' \in WmaType /\ wma'.paused /\ wma'.locks = wma.locks
          /\ \E q \in Reqs : Requests(wma', wma, {r}, {q}, "stop", TRUE)
      BY <3>1, <3>2 DEF StartOver
    <3>4. Turn("start", TRUE, "stop", TRUE)
      BY <1>0, <2>1, <3>3, Turns
    <3>5. Waiting("stop")' /\ (Waiting("del")' <=> Waiting("del"))
      BY <1>0, <3>4 DEF Turn, Kinds
    <3> QED  BY <1>0, <3>3, <3>5 DEF LockInv
  <2>2. CASE wma.alloc[r].kind = "stop"
    <3>1. wma.handle
      BY <2>2 DEF DialogInv, TalkInv, Waiting
    <3>2. StopOver(wma', wma, r, TRUE)
      BY <1>5, <2>2, <3>1 DEF TimedOutTo
    <3> QED  BY <1>3, <2>2, <3>2
  <2>3. CASE wma.alloc[r].kind = "del"
    <3>1. DelOver(wma', wma, r)
      BY <1>5, <2>3 DEF TimedOutTo
    <3> QED  BY <1>4, <2>3, <3>1
  <2> QED  BY <1>5, <2>1, <2>2, <2>3 DEF TimedOutTo
<1>6. CASE mc = Msg("add_self") /\ AddSelfTo(wma', wma, fail)
  <2>1. ~Waiting("stop")
    <3>1. Asked("add_self")
      BY <1>6, HandledTalk DEF Asks
    <3> QED  BY <3>1 DEF DialogInv, TalkInv
  <2> QED  BY <1>2, <1>6, <2>1 DEF AddSelfTo
<1>7. CASE mc = Msg("del_self") /\ DetachTo(wma', wma)
  <2>0. mc.type = "del_self" /\ wma' \in WmaType
    BY <1>7, Messages DEF DetachTo
  <2>1. CASE wma' = [wma EXCEPT !.del_staself_req = TRUE] \/ wma' = wma
    <3>1. /\ wma' \in WmaType /\ wma'.alloc = wma.alloc /\ wma'.respq = wma.respq
          /\ wma'.locks = wma.locks /\ wma'.paused = wma.paused
      BY <2>1 DEF TypeOK, WmaType
    <3> QED  BY <1>2, <3>1
  <2>2. CASE ~wma.bss_started /\ Gone(wma', wma) /\ Requests(wma', wma, {}, {}, "del", FALSE)
    <3>1. Turn("no", FALSE, "start", FALSE)
      BY <1>0, <2>0, <2>2, Turns
    <3>2. (Waiting("stop")' <=> Waiting("stop")) /\ (Waiting("del")' <=> Waiting("del"))
      BY <1>0, <3>1 DEF Turn, Kinds
    <3>3. ~Waiting("stop")
      BY <1>1, <2>0, <2>2
    <3> QED  BY <1>0, <2>2, <3>2, <3>3 DEF LockInv, Gone
  <2>3. CASE Deleting(wma', wma) /\ \E q \in Reqs : Requests(wma', wma, {}, {q}, "del", FALSE)
    <3>1. Turn("no", TRUE, "del", FALSE)
      BY <1>0, <2>0, <2>3, Turns
    <3>2. (Waiting("stop")' <=> Waiting("stop")) /\ Waiting("del")'
      BY <1>0, <3>1 DEF Turn, Kinds
    <3> QED  BY <1>0, <2>3, <3>2 DEF LockInv, Deleting
  <2> QED  BY <1>7, <2>1, <2>2, <2>3 DEF DetachTo
<1>8. CASE mc = Msg("add_bss") /\ AddBssTo(wma', wma)
  <2>0. ~wma.peer => ~Waiting("stop")
    BY DEF DialogInv, TalkInv
  <2>1. wma' \in WmaType /\ wma'.locks = wma.locks
    BY <1>8 DEF AddBssTo
  <2>2. CASE wma'.alloc = wma.alloc /\ wma'.respq = wma.respq
             /\ (wma'.paused = wma.paused \/ (~wma.peer /\ ~wma'.paused))
    BY <1>2, <2>0, <2>1, <2>2
  <2>3. CASE /\ ~wma.peer /\ ~wma'.paused
             /\ \E q \in Reqs : Requests(wma', wma, {}, {q}, "start", FALSE)
    <3>1. Turn("no", TRUE, "start", FALSE)
      BY <1>0, <2>1, <2>3, Turns
    <3>2. (Waiting("stop")' <=> Waiting("stop")) /\ (Waiting("del")' <=> Waiting("del"))
      BY <1>0, <3>1 DEF Turn, Kinds
    <3> QED  BY <1>0, <2>0, <2>1, <2>3, <3>2 DEF LockInv
  <2> QED  BY <1>8, <2>2, <2>3 DEF AddBssTo
<1>9. CASE mc = Msg("del_bss") /\ DelBssTo(wma', wma, fail)
  <2>0. mc.type = "del_bss"
    BY <1>9, Messages
  <2>1. wma' \in WmaType /\ wma'.locks = wma.locks
    BY <1>9 DEF DelBssTo
  <2>2. CASE wma'.alloc = wma.alloc /\ wma'.respq = wma.respq /\ wma'.paused = wma.paused
    BY <1>2, <2>1, <2>2
  <2>3. CASE wma'.paused /\ \E q \in Reqs : Requests(wma', wma, {}, {q}, "stop", FALSE)
    <3>1. Turn("no", TRUE, "stop", FALSE)
      BY <1>0, <2>1, <2>3, Turns
    <3>2. Waiting("stop")' /\ (Waiting("del")' <=> Waiting("del"))
      BY <1>0, <3>1 DEF Turn, Kinds
    <3> QED  BY <1>0, <2>1, <2>3, <3>2 DEF LockInv
  <2> QED  BY <1>1, <1>9, <2>0, <2>2, <2>3 DEF DelBssTo
<1>10. ASSUME NEW ok, StartedTo(wma', wma, ok, fail) PROVE LockInv'
  <2>1. CASE wma' = wma
    BY <1>2, <2>1 DEF TypeOK
  <2>2. CASE wma' # wma
    <3>1. PICK r \in Reqs :
             /\ wma.alloc[r].kind = "start" /\ wma' \in WmaType
             /\ Requests(wma', wma, {r}, {}, "start", FALSE)
             /\ wma'.paused = wma.paused /\ wma'.locks = wma.locks
      BY <1>10, <2>2 DEF StartedTo
    <3>2. Turn("start", FALSE, "start", FALSE)
      BY <1>0, <3>1, Turns
    <3>3. (Waiting("stop")' <=> Waiting("stop")) /\ (Waiting("del")' <=> Waiting("del"))
      BY <1>0, <3>2 DEF Turn, Kinds
    <3> QED  BY <1>0, <3>1, <3>3 DEF LockInv
  <2> QED  BY <2>1, <2>2
<1>11. CASE StoppedTo(wma', wma)
  <2>1. CASE wma' = wma
    BY <1>2, <2>1 DEF TypeOK
  <2>2. CASE wma' # wma
    <3>1. PICK r \in Reqs : /\ wma.alloc[r].kind = "stop"
                            /\ ~wma.handle \/ \E answer : StopOver(wma', wma, r, answer)
      BY <1>11, <2>2 DEF StoppedTo
    <3>2. wma.handle
      BY <3>1 DEF DialogInv, TalkInv, Waiting
    <3> QED  BY <1>3, <3>1, <3>2
  <2> QED  BY <2>1, <2>2
<1>12. CASE DeletedTo(wma', wma)
  <2>1. CASE wma' = wma
    BY <1>2, <2>1 DEF TypeOK
  <2>2. CASE wma' # wma
    BY <1>4, <1>12, <2>2 DEF DeletedTo
  <2> QED  BY <2>1, <2>2
<1> QED  BY <1>5, <1>6, <1>7, <1>8, <1>9, <1>10, <1>11, <1>12, DoesHandled DEF HandledTo

\* Every step keeps the pause and the locks with the requests.
LEMMA LockStep ==
    ASSUME TypeOK, QueueInv, DialogInv, LockInv, [Next]_vars, LockMode'
    PROVE  LockInv'
<1>1. ASSUME \A r \in Reqs : wma'.alloc[r].kind = wma.alloc[r].kind,
             wma'.paused = wma.paused, wma'.locks = wma.locks, sync' = sync
      PROVE  LockInv'
  <2>1. (Waiting("stop")' <=> Waiting("stop")) /\ (Waiting("del")' <=> Waiting("del"))
    BY <1>1 DEF Waiting
  <2> QED  BY <1>1, <2>1 DEF LockInv
<1>2. CASE \E fail \in Failures, lost \in Losses : McHandles(fail, lost)
  <2>1. PICK fail \in Failures, lost \in Losses : McHandles(fail, lost)
    BY <1>2
  <2>2. Does(fail)
    BY <2>1, DoesIs DEF LockMode, Mode, Calm
  <2> QED  BY <2>2, HandlesLock
<1>3. CASE \E r \in Reqs, posted \in BOOLEAN : Expire(r, posted)
  BY <1>1, <1>3, IsPosted, ExpireIs DEF LockMode, Mode, Others
<1>7. CASE WakeLockLapses
  <2>1. (Waiting("stop")' <=> Waiting("stop")) /\ (Waiting("del")' <=> Waiting("del"))
    BY <1>7, LapseIs DEF Waiting
  <2> QED  BY <1>7, <2>1, LapseIs DEF LockInv
<1>4. CASE TargetStep
  BY <1>1, <1>4, TargetIs
<1>5. CASE UmacStep
  <2>1. PICK u : wma' = [wma EXCEPT !.umac = u] /\ sync' = sync
    BY <1>5 DEF UmacStep, Ask
  <2>2. wma'.alloc = wma.alloc /\ wma'.paused = wma.paused /\ wma'.locks = wma.locks
    BY <2>1 DEF TypeOK, WmaType
  <2> QED  BY <1>1, <2>1, <2>2
<1>6. CASE McTakes \/ UNCHANGED vars
  BY <1>1, <1>6 DEF McTakes, vars
<1> QED  BY <1>2, <1>3, <1>4, <1>5, <1>6, <1>7 DEF Next

CalmLock == CalmDialog /\ (LockMode => LockInv)

\* The pause and the locks follow the requests unless a stop stays unsent, a deletion
\* overtakes WMA's own stop or the dialogue is not orderly.
THEOREM LockKeeps == Spec => []CalmLock
<1>1. Init => CalmLock
  <2> SUFFICES ASSUME Init PROVE LockInv /\ CalmDialog
    BY DEF CalmLock
  <2>1. ~wma.paused /\ wma.locks = {} /\ \A r \in Reqs : wma.alloc[r].kind = "none"
    BY DEF Init, NoReq
  <2>2. ~Waiting("stop") /\ ~Waiting("del")
    BY <2>1 DEF Waiting
  <2>3. CalmDialog
    BY QueueInit, DialogInit DEF CalmDialog, CalmQueue
  <2> QED  BY <2>1, <2>2, <2>3 DEF LockInv
<1>2. CalmLock /\ CalmDialog' /\ [Next]_vars => CalmLock'
  <2> SUFFICES ASSUME CalmLock, CalmDialog', [Next]_vars, LockMode' PROVE LockInv'
    BY DEF CalmLock
  <2>1. LockMode /\ Mode
    BY PastKept, ModeKept DEF LockMode
  <2>2. TypeOK /\ QueueInv /\ DialogInv /\ LockInv
    BY <2>1 DEF CalmLock, CalmDialog, CalmQueue, Mode
  <2> QED  BY <2>2, LockStep
<1> QED  BY <1>1, <1>2, DialogKeeps, PTL DEF Spec

\* PauseAndLockEnd of every instance: transmission is paused exactly while a stop is kept,
\* runtime suspend is prevented exactly while a deletion is kept that the target will
\* answer, and the wake lock, which may lapse earlier, is held at no other time.
THEOREM PauseAndLockKept == Spec => []PauseAndLockEnd
<1>1. CalmLock => PauseAndLockEnd
  <2> SUFFICES ASSUME CalmLock, past \subseteq {"late", "start_timed_out", "no_beacon"}
               PROVE  /\ wma.paused <=> Found(wma, "stop") # 0
                      /\ "runtime" \in wma.locks <=> (sync /\ Found(wma, "del") # 0)
                      /\ "wake" \in wma.locks => "runtime" \in wma.locks
    BY DEF PauseAndLockEnd
  <2>1. LockMode /\ Calm
    BY DEF LockMode, Mode, Calm
  <2>2. TypeOK /\ QueueInv /\ LockInv
    BY <2>1 DEF CalmLock, CalmDialog, CalmQueue
  <2> QED  BY <2>2, FoundWaiting DEF LockInv, Kinds
<1> QED  BY <1>1, LockKeeps, PTL

-----------------------------------------------------------------------------
(* The target and the BSS *)

\* What the target has been asked to do and has not done yet; a start comes last.
Sent(c) == c \in Range(wma.cmds)
StartLast == \A c \in Kinds \cup {"create"} : ~Precedes(wma.cmds, "start", c)

\* A start or a stop that the target has not done yet, or has answered, belongs to a
\* request that is kept; when neither is kept, the target and WMA agree.
TargetInv ==
    /\ Sent("start") => /\ Waiting("start") /\ ~fwUp /\ StartLast
                        /\ ~Asked("start_ok") /\ ~Asked("start_failed")
    /\ Asked("start_ok") => /\ Waiting("start") /\ wma.cmds = <<>>
                            /\ fwUp /\ ~Asked("start_failed")
    /\ Asked("start_failed") => Waiting("start") /\ wma.cmds = <<>> /\ ~fwUp
    /\ Waiting("start") /\ ~Sent("start") => wma.cmds = <<>>
    /\ Sent("stop") => Waiting("stop") /\ ~Asked("stopped") /\ wma.cmds = <<"stop">>
    /\ Asked("stopped") => Waiting("stop")
    /\ Waiting("stop") /\ ~Sent("stop") => wma.cmds = <<>> /\ ~fwUp
    /\ wma.bss_started /\ ~Waiting("stop") => wma.cmds = <<>> /\ fwUp
    /\ ~Waiting("start") /\ ~Waiting("stop") /\ ~wma.bss_started => ~fwUp

FwInv == Once("start_ok") /\ Once("start_failed") /\ Once("stopped") /\ TargetInv

FwMode == past \subseteq {"start_timed_out"}

\* What a command that is sent changes, and what none changes.
LEMMA Sends ==
    ASSUME TypeOK
    PROVE  /\ wma.cmds = <<>> => ~Sent("start") /\ ~Sent("stop")
           /\ wma'.cmds = wma.cmds =>
                 /\ Sent("start")' <=> Sent("start")
                 /\ Sent("stop")' <=> Sent("stop")
                 /\ StartLast' <=> StartLast
           /\ wma'.cmds = Append(wma.cmds, "start") =>
                 /\ Sent("start")' /\ (Sent("stop")' <=> Sent("stop"))
                 /\ ~Sent("start") => StartLast'
           /\ wma'.cmds = Append(wma.cmds, "stop") =>
                 /\ Sent("stop")' /\ (Sent("start")' <=> Sent("start"))
                 /\ wma.cmds = <<>> => wma'.cmds = <<"stop">>
           /\ wma'.cmds = Append(wma.cmds, "del") \/ wma'.cmds = Append(wma.cmds, "create")
                 \/ wma'.cmds = Append(Append(wma.cmds, "create"), "del") =>
                 /\ Sent("start")' <=> Sent("start")
                 /\ Sent("stop")' <=> Sent("stop")
<1> DEFINE C == Kinds \cup {"create"}
<1>0. /\ wma.cmds \in Seq(C) /\ "start" \in C /\ "stop" \in C /\ "del" \in C /\ "create" \in C
  BY DEF TypeOK, WmaType, Kinds
<1> HIDE DEF C
<1>1. wma.cmds = <<>> => ~Sent("start") /\ ~Sent("stop")
  BY <1>0, Empty DEF Sent
<1>2. wma'.cmds = wma.cmds =>
         /\ Sent("start")' <=> Sent("start")
         /\ Sent("stop")' <=> Sent("stop")
         /\ StartLast' <=> StartLast
  BY DEF Sent, StartLast
<1>3. ASSUME wma'.cmds = Append(wma.cmds, "start")
      PROVE  /\ Sent("start")' /\ (Sent("stop")' <=> Sent("stop"))
             /\ ~Sent("start") => StartLast'
  <2>1. /\ \A y : y \in Range(wma'.cmds) <=> y \in Range(wma.cmds) \/ y = "start"
        /\ \A a, b : Precedes(wma'.cmds, a, b)
                       <=> Precedes(wma.cmds, a, b) \/ (a \in Range(wma.cmds) /\ b = "start")
    BY <1>0, <1>3, Appended
  <2>2. \A a, b : Precedes(wma.cmds, a, b) => a \in Range(wma.cmds)
    BY <1>0, Empty
  <2> QED  BY <2>1, <2>2 DEF Sent, StartLast
<1>4. ASSUME wma'.cmds = Append(wma.cmds, "stop")
      PROVE  /\ Sent("stop")' /\ (Sent("start")' <=> Sent("start"))
             /\ wma.cmds = <<>> => wma'.cmds = <<"stop">>
  <2>1. \A y : y \in Range(wma'.cmds) <=> y \in Range(wma.cmds) \/ y = "stop"
    BY <1>0, <1>4, Appended
  <2>2. Append(<<>>, "stop") = <<"stop">>
    OBVIOUS
  <2> QED  BY <1>4, <2>1, <2>2 DEF Sent
<1>5. ASSUME NEW c \in {"del", "create"}, wma'.cmds = Append(wma.cmds, c)
      PROVE  (Sent("start")' <=> Sent("start")) /\ (Sent("stop")' <=> Sent("stop"))
  <2>1. \A y : y \in Range(wma'.cmds) <=> y \in Range(wma.cmds) \/ y = c
    BY <1>0, <1>5, Appended
  <2> QED  BY <1>5, <2>1 DEF Sent
<1>6. ASSUME wma'.cmds = Append(Append(wma.cmds, "create"), "del")
      PROVE  (Sent("start")' <=> Sent("start")) /\ (Sent("stop")' <=> Sent("stop"))
  <2> DEFINE s == Append(wma.cmds, "create")
  <2>1. s \in Seq(C) /\ \A y : y \in Range(s) <=> y \in Range(wma.cmds) \/ y = "create"
    BY <1>0, Appended
  <2> HIDE DEF s
  <2>2. \A y : y \in Range(Append(s, "del")) <=> y \in Range(s) \/ y = "del"
    BY <1>0, <2>1, Appended
  <2>3. wma'.cmds = Append(s, "del")
    BY <1>6 DEF s
  <2> QED  BY <2>1, <2>2, <2>3 DEF Sent
<1> QED  BY <1>1, <1>2, <1>3, <1>4, <1>5, <1>6

\* What every handler has in common: an answer that was handled is gone.
LEMMA HandledFw ==
    ASSUME TypeOK, FwInv, NEW fail \in Failures, Does(fail)
    PROVE  /\ Once("start_ok")' /\ Once("start_failed")' /\ Once("stopped")'
           /\ Asked("start_ok")' <=> Asked("start_ok") /\ mc.type # "start_ok"
           /\ Asked("start_failed")' <=> Asked("start_failed") /\ mc.type # "start_failed"
           /\ Asked("stopped")' <=> Asked("stopped") /\ mc.type # "stopped"
           /\ fwUp' = fwUp
<1>1. "start_ok" \in MsgTypes /\ "start_failed" \in MsgTypes /\ "stopped" \in MsgTypes
  BY DEF MsgTypes
<1>2. fwUp' = fwUp
  BY DEF Does
<1> QED  BY <1>1, <1>2, HandlesAsked DEF FwInv

\* The requests of the upper layers.
LEMMA AddSelfFw ==
    ASSUME TypeOK, QueueInv, DialogInv, FwInv, NEW fail \in Failures, Does(fail),
           mc = Msg("add_self"), AddSelfTo(wma', wma, fail)
    PROVE  TargetInv'
<1>0. mc.type = "add_self" /\ wma.umac.self = "adding"
  BY HandledTalk DEF DialogInv, TalkInv, Asks
<1>1. ~wma.handle /\ ~Waiting("start") /\ ~Waiting("stop") /\ ~wma.bss_started
  BY <1>0 DEF DialogInv, TalkInv
<1>2. Turn("no", FALSE, "start", FALSE)
  BY Turns DEF AddSelfTo, DialogInv
<1>3. ~Waiting("start")' /\ ~Waiting("stop")'
  BY <1>1, <1>2 DEF Turn, Kinds
<1>4. ~wma'.bss_started
  BY <1>1 DEF AddSelfTo
<1>5. (Sent("start")' <=> Sent("start")) /\ (Sent("stop")' <=> Sent("stop"))
  BY Sends DEF AddSelfTo
<1> QED  BY <1>0, <1>1, <1>3, <1>4, <1>5, HandledFw DEF FwInv, TargetInv

\* A device that is deleted has no BSS, or its deletion is put off.
LEMMA DetachFw ==
    ASSUME TypeOK, QueueInv, DialogInv, FwInv, NEW fail \in Failures, Does(fail),
           mc = Msg("del_self"), DetachTo(wma', wma), FwMode'
    PROVE  TargetInv'
<1>0. mc.type = "del_self" /\ wma.umac.self = "deleting" /\ wma' \in WmaType
  BY HandledTalk DEF DialogInv, TalkInv, Asks, DetachTo
<1>1. ~Waiting("start")
  BY <1>0 DEF DialogInv, TalkInv
<1>2. CASE wma' = [wma EXCEPT !.del_staself_req = TRUE] \/ wma' = wma
  <2>1. /\ wma'.alloc = wma.alloc /\ wma'.respq = wma.respq
        /\ wma'.cmds = wma.cmds /\ wma'.bss_started = wma.bss_started
    BY <1>2 DEF TypeOK, WmaType
  <2>2. Turn("no", FALSE, "start", FALSE)
    BY <1>0, <2>1, Turns DEF DialogInv
  <2>3. (Waiting("start")' <=> Waiting("start")) /\ (Waiting("stop")' <=> Waiting("stop"))
    BY <2>2 DEF Turn, Kinds
  <2>4. /\ Sent("start")' <=> Sent("start")
        /\ Sent("stop")' <=> Sent("stop")
        /\ StartLast' <=> StartLast
    BY <2>1, Sends
  <2> QED  BY <1>0, <1>1, <2>1, <2>3, <2>4, HandledFw DEF FwInv, TargetInv
<1>3. CASE /\ ~wma.bss_started
           /\ \/ Gone(wma', wma) /\ Requests(wma', wma, {}, {}, "del", FALSE)
              \/ Deleting(wma', wma) /\ \E q \in Reqs : Requests(wma', wma, {}, {q}, "del", FALSE)
  <2>1. ~Waiting("stop")
    <3>1. "stop" \in Kinds
      BY DEF Kinds
    <3> QED  BY <1>0, <1>3, <3>1, HandlesPast, FoundWaiting DEF FwMode
  <2>2. Turn("no", FALSE, "start", FALSE) \/ Turn("no", TRUE, "del", FALSE)
    BY <1>0, <1>3, Turns DEF DialogInv, Kinds
  <2>3. ~Waiting("start")' /\ ~Waiting("stop")'
    BY <1>1, <2>1, <2>2 DEF Turn, Kinds
  <2>4. ~wma'.bss_started
    BY <1>3 DEF Gone, Deleting
  <2>5. (Sent("start")' <=> Sent("start")) /\ (Sent("stop")' <=> Sent("stop"))
    BY <1>3, Sends DEF Gone, Deleting
  <2> QED  BY <1>0, <1>1, <1>3, <2>1, <2>3, <2>4, <2>5, HandledFw DEF FwInv, TargetInv
<1> QED  BY <1>2, <1>3 DEF DetachTo

\* A start is sent when no start or stop is under way.
LEMMA AddBssFw ==
    ASSUME TypeOK, QueueInv, DialogInv, FwInv, NEW fail \in Failures, Does(fail),
           mc = Msg("add_bss"), AddBssTo(wma', wma), FwMode
    PROVE  TargetInv'
<1>0. mc.type = "add_bss" /\ Asked("add_bss") /\ wma' \in WmaType /\ wma'.bss_started = wma.bss_started
  BY HandledTalk DEF Asks, AddBssTo
<1>1. wma.umac.bss = "adding" /\ ~Waiting("start") /\ ~wma.bss_started
  BY <1>0 DEF DialogInv, TalkInv, FwMode
<1>2. CASE wma'.cmds = wma.cmds /\ wma'.alloc = wma.alloc /\ wma'.respq = wma.respq
  <2>1. Turn("no", FALSE, "start", FALSE)
    BY <1>0, <1>2, Turns DEF DialogInv
  <2>2. (Waiting("start")' <=> Waiting("start")) /\ (Waiting("stop")' <=> Waiting("stop"))
    BY <2>1 DEF Turn, Kinds
  <2>3. /\ Sent("start")' <=> Sent("start")
        /\ Sent("stop")' <=> Sent("stop")
        /\ StartLast' <=> StartLast
    BY <1>2, Sends
  <2> QED  BY <1>0, <1>1, <1>2, <2>2, <2>3, HandledFw DEF FwInv, TargetInv
<1>3. CASE /\ ~wma.peer /\ wma'.cmds = Append(wma.cmds, "start")
           /\ \E q \in Reqs : Requests(wma', wma, {}, {q}, "start", FALSE)
  <2>1. ~Waiting("stop")
    BY <1>3 DEF DialogInv, TalkInv
  <2>2. Turn("no", TRUE, "start", FALSE)
    BY <1>0, <1>3, Turns DEF DialogInv, Kinds
  <2>3. Waiting("start")' /\ ~Waiting("stop")'
    BY <2>1, <2>2 DEF Turn, Kinds
  <2>4. ~Sent("start") /\ ~Sent("stop") /\ ~fwUp
    BY <1>1, <2>1 DEF FwInv, TargetInv
  <2>5. Sent("start")' /\ ~Sent("stop")' /\ StartLast'
    BY <1>3, <2>4, Sends
  <2> QED  BY <1>0, <1>1, <2>1, <2>3, <2>4, <2>5, HandledFw DEF FwInv, TargetInv
<1> QED  BY <1>2, <1>3 DEF AddBssTo

\* A stop is sent when the BSS is up and no command is on its way.
LEMMA DelBssFw ==
    ASSUME TypeOK, QueueInv, DialogInv, FwInv, NEW fail \in Failures, Does(fail),
           mc = Msg("del_bss"), DelBssTo(wma', wma, fail), FwMode'
    PROVE  TargetInv'
<1>0. mc.type = "del_bss" /\ Asked("del_bss") /\ wma' \in WmaType /\ wma'.bss_started = wma.bss_started
  BY HandledTalk DEF Asks, DelBssTo
<1>1. /\ wma.umac.bss = "deleting" /\ ~Waiting("start") /\ wma.bss_started /\ ~Waiting("stop")
      /\ wma.peer /\ wma.handle
  BY <1>0 DEF DialogInv, TalkInv
<1>2. fail = "none"
  BY <1>0, <1>1, HandlesPast DEF FwMode
<1>3. /\ wma'.cmds = Append(wma.cmds, "stop")
      /\ \E q \in Reqs : Requests(wma', wma, {}, {q}, "stop", FALSE)
  BY <1>1, <1>2 DEF DelBssTo
<1>4. Turn("no", TRUE, "stop", FALSE)
  BY <1>0, <1>3, Turns DEF DialogInv, Kinds
<1>5. ~Waiting("start")' /\ Waiting("stop")'
  BY <1>1, <1>4 DEF Turn, Kinds
<1>6. wma.cmds = <<>>
  BY <1>1 DEF FwInv, TargetInv
<1>7. ~Sent("start")' /\ Sent("stop")' /\ wma'.cmds = <<"stop">>
  BY <1>3, <1>6, Sends
<1> QED  BY <1>0, <1>1, <1>5, <1>7, HandledFw DEF FwInv, TargetInv

\* The answers and the timeouts.
LEMMA StartedFw ==
    ASSUME TypeOK, QueueInv, DialogInv, FwInv, NEW fail \in Failures, Does(fail), NEW ok \in BOOLEAN,
           mc = Msg(IF ok THEN "start_ok" ELSE "start_failed"), StartedTo(wma', wma, ok, fail),
           FwMode, FwMode'
    PROVE  TargetInv'
<1>0. /\ ok => mc.type = "start_ok" /\ Asked("start_ok")
      /\ ~ok => mc.type = "start_failed" /\ Asked("start_failed")
  BY Messages DEF Asked
<1>1. Waiting("start") /\ wma.cmds = <<>> /\ (fwUp <=> ok)
  BY <1>0 DEF FwInv, TargetInv
<1>2. ~wma.bss_started /\ ~Waiting("stop")
  BY <1>1 DEF DialogInv, TalkInv, FwMode
<1>3. ok => fail = "none"
  <2>1. "start" \in Kinds
    BY DEF Kinds
  <2> QED  BY <1>0, <1>1, <2>1, HandlesPast, FoundWaiting DEF FwMode
<1>4. \E r \in Reqs : r \in Range(wma.respq) /\ wma.alloc[r].kind = "start"
  BY <1>1 DEF Waiting, QueueInv
<1>5. PICK r \in Reqs :
         /\ wma.alloc[r].kind = "start" /\ wma' \in WmaType
         /\ Requests(wma', wma, {r}, {}, "start", FALSE) /\ wma'.cmds = wma.cmds
         /\ (ok /\ wma'.bss_started) \/ (~ok /\ wma'.bss_started = wma.bss_started)
  BY <1>3, <1>4 DEF StartedTo
<1>6. Turn("start", FALSE, "start", FALSE)
  BY <1>5, Turns DEF DialogInv, Kinds
<1>7. ~Waiting("start")' /\ ~Waiting("stop")'
  BY <1>2, <1>6 DEF Turn, Kinds
<1>8. ~Sent("start")' /\ ~Sent("stop")'
  BY <1>1, <1>5, Sends
<1>9. ~Asked("start_ok")' /\ ~Asked("start_failed")' /\ ~Asked("stopped")'
  BY <1>0, <1>1, <1>2, HandledFw DEF FwInv, TargetInv
<1> QED  BY <1>1, <1>2, <1>5, <1>7, <1>8, <1>9, HandledFw DEF TargetInv

\* When a stop is over the target has stopped the BSS.
LEMMA StopOverFw ==
    ASSUME TypeOK, QueueInv, DialogInv, FwInv, NEW fail \in Failures, Does(fail),
           NEW r \in Reqs, wma.alloc[r].kind = "stop", NEW answer, StopOver(wma', wma, r, answer),
           ~Sent("stop"), ~Asked("stopped")'
    PROVE  TargetInv'
<1>1. Waiting("stop")
  BY DEF Waiting
<1>2. ~Waiting("start") /\ wma.cmds = <<>> /\ ~fwUp
  BY <1>1 DEF DialogInv, TalkInv, FwInv, TargetInv
<1>3. ~Sent("start") /\ ~Asked("start_ok") /\ ~Asked("start_failed")
  BY <1>2 DEF FwInv, TargetInv
<1>4. wma' \in WmaType /\ ~wma'.bss_started
  BY DEF StopOver
<1>5. \/ Requests(wma', wma, {r}, {}, "del", FALSE)
      \/ \E q \in Reqs : Requests(wma', wma, {r}, {q}, "del", FALSE)
  BY DEF StopOver
<1>6. Turn("stop", FALSE, "start", FALSE) \/ Turn("stop", TRUE, "del", FALSE)
  BY <1>4, <1>5, Turns DEF DialogInv, Kinds
<1>7. ~Waiting("start")' /\ ~Waiting("stop")'
  BY <1>2, <1>6 DEF Turn, Kinds
<1>8. wma'.cmds = wma.cmds \/ wma'.cmds = Append(wma.cmds, "del")
  BY DEF StopOver
<1>9. ~Sent("start")' /\ ~Sent("stop")'
  BY <1>3, <1>8, Sends
<1> QED  BY <1>2, <1>3, <1>4, <1>7, <1>9, HandledFw DEF TargetInv

\* When a deletion is over there has been no BSS.
LEMMA DelOverFw ==
    ASSUME TypeOK, QueueInv, DialogInv, FwInv, NEW fail \in Failures, Does(fail),
           NEW r \in Reqs, wma.alloc[r].kind = "del", DelOver(wma', wma, r)
    PROVE  TargetInv'
<1>1. Waiting("del")
  BY DEF Waiting
<1>2. wma.del_staself_req /\ ~wma.bss_started /\ ~Waiting("stop") /\ ~Waiting("start")
  BY <1>1 DEF DialogInv, TalkInv
<1>3. /\ ~Sent("start") /\ ~Sent("stop") /\ ~fwUp
      /\ ~Asked("start_ok") /\ ~Asked("start_failed") /\ ~Asked("stopped")
  BY <1>2 DEF FwInv, TargetInv
<1>4. /\ wma' \in WmaType /\ ~wma'.bss_started /\ wma'.cmds = wma.cmds
      /\ Requests(wma', wma, {r}, {}, "del", FALSE)
  BY <1>2 DEF DelOver
<1>5. Turn("del", FALSE, "start", FALSE)
  BY <1>4, Turns DEF DialogInv, Kinds
<1>6. ~Waiting("start")' /\ ~Waiting("stop")'
  BY <1>2, <1>5 DEF Turn, Kinds
<1>7. ~Sent("start")' /\ ~Sent("stop")'
  BY <1>3, <1>4, Sends
<1> QED  BY <1>3, <1>4, <1>6, <1>7, HandledFw DEF TargetInv

\* A request that times out is done by the target, and its answer is lost.
LEMMA ExpiredFw ==
    ASSUME TypeOK, NEW fail \in Failures, Does(fail), FwMode', NEW r \in Reqs, mc = Timer(r)
    PROVE  /\ wma.alloc[r].kind = "start" =>
                 ~Sent("start") /\ ~Asked("start_ok") /\ ~Asked("start_failed") /\ fail = "none"
           /\ wma.alloc[r].kind = "stop" => ~Sent("stop") /\ ~Asked("stopped")
<1>0. "start" \in Kinds /\ "stop" \in Kinds /\ mc.type = "timer"
  BY Messages DEF Kinds
<1>1. \A k \in Kinds : Expired(k) => k \notin Range(wma.cmds) /\ AnswersTo(k) \cap Range(wmaq) = {}
  BY HandlesPast DEF FwMode
<1>2. Expired("start") => fail = "none"
  BY HandlesPast DEF FwMode
<1>3. wma.alloc[r].kind = "start" =>
         ~Sent("start") /\ ~Asked("start_ok") /\ ~Asked("start_failed") /\ fail = "none"
  BY <1>0, <1>1, <1>2, ExpiredIs, Answers DEF Sent, Asked
<1>4. wma.alloc[r].kind = "stop" => ~Sent("stop") /\ ~Asked("stopped")
  BY <1>0, <1>1, ExpiredIs, Answers DEF Sent, Asked
<1> QED  BY <1>3, <1>4

\* A start that timed out is followed by a stop, a stop that timed out has been done.
LEMMA TimedOutFw ==
    ASSUME TypeOK, QueueInv, DialogInv, FwInv, NEW fail \in Failures, Does(fail),
           NEW r \in Reqs, mc = Timer(r), TimedOutTo(wma', wma, r, fail), FwMode, FwMode'
    PROVE  TargetInv'
<1>0. mc.type = "timer"
  BY Messages
<1>1. CASE wma.alloc[r].kind = "start"
  <2>1. ~Sent("start") /\ ~Asked("start_ok") /\ ~Asked("start_failed") /\ fail = "none" /\ Waiting("start")
    BY <1>1, ExpiredFw DEF Waiting
  <2>2. StartOver(wma', wma, r, fail)
    BY <1>1 DEF TimedOutTo
  <2>3. /\ wma' \in WmaType /\ wma'.bss_started = wma.bss_started
        /\ wma'.cmds = Append(wma.cmds, "stop")
        /\ \E q \in Reqs : Requests(wma', wma, {r}, {q}, "stop", TRUE)
    BY <2>1, <2>2 DEF StartOver
  <2>4. ~wma.bss_started /\ ~Waiting("stop") /\ wma.cmds = <<>>
    BY <2>1 DEF DialogInv, TalkInv, FwMode, FwInv, TargetInv
  <2>5. Turn("start", TRUE, "stop", TRUE)
    BY <1>1, <2>3, Turns DEF DialogInv, Kinds
  <2>6. ~Waiting("start")' /\ Waiting("stop")'
    BY <2>5 DEF Turn, Kinds
  <2>7. ~Sent("start")' /\ Sent("stop")' /\ wma'.cmds = <<"stop">>
    BY <2>1, <2>3, <2>4, Sends
  <2>8. ~Asked("stopped")' /\ ~Asked("start_ok")' /\ ~Asked("start_failed")'
    BY <2>1, <2>4, HandledFw DEF FwInv, TargetInv
  <2> QED  BY <2>3, <2>4, <2>6, <2>7, <2>8 DEF TargetInv
<1>2. CASE wma.alloc[r].kind = "stop"
  <2>1. ~Sent("stop") /\ ~Asked("stopped")' /\ wma.handle
    <3>1. ~Sent("stop") /\ ~Asked("stopped")
      BY <1>2, ExpiredFw
    <3>2. Waiting("stop")
      BY <1>2 DEF Waiting
    <3> QED  BY <3>1, <3>2, HandledFw DEF DialogInv, TalkInv
  <2>2. StopOver(wma', wma, r, TRUE)
    BY <1>2, <2>1 DEF TimedOutTo
  <2> QED  BY <1>2, <2>1, <2>2, StopOverFw
<1>3. CASE wma.alloc[r].kind = "del"
  BY <1>3, DelOverFw DEF TimedOutTo
<1> QED  BY <1>1, <1>2, <1>3 DEF TimedOutTo

\* Every handler keeps the target in step.
LEMMA HandlesFw ==
    ASSUME TypeOK, QueueInv, DialogInv, FwInv, NEW fail \in Failures, Does(fail), FwMode, FwMode'
    PROVE  FwInv'
<1> SUFFICES TargetInv'
  BY HandledFw DEF FwInv
<1>1. ASSUME NEW r \in Reqs, mc = Timer(r), TimedOutTo(wma', wma, r, fail) PROVE TargetInv'
  BY <1>1, TimedOutFw
<1>2. CASE mc = Msg("add_self") /\ AddSelfTo(wma', wma, fail)
  BY <1>2, AddSelfFw
<1>3. CASE mc = Msg("del_self") /\ DetachTo(wma', wma)
  BY <1>3, DetachFw
<1>4. CASE mc = Msg("add_bss") /\ AddBssTo(wma', wma)
  BY <1>4, AddBssFw
<1>5. CASE mc = Msg("del_bss") /\ DelBssTo(wma', wma, fail)
  BY <1>5, DelBssFw
<1>6. CASE mc = Msg("start_ok") /\ StartedTo(wma', wma, TRUE, fail)
  BY <1>6, StartedFw
<1>7. CASE mc = Msg("start_failed") /\ StartedTo(wma', wma, FALSE, fail)
  BY <1>7, StartedFw
<1>8. CASE mc = Msg("stopped") /\ StoppedTo(wma', wma)
  <2>1. mc.type = "stopped" /\ Asked("stopped")
    BY <1>8, Messages DEF Asked
  <2>2. Waiting("stop") /\ ~Sent("stop") /\ ~Asked("stopped")'
    BY <2>1, HandledFw DEF FwInv, TargetInv
  <2>3. wma.handle /\ \E r \in Reqs : r \in Range(wma.respq) /\ wma.alloc[r].kind = "stop"
    BY <2>2 DEF DialogInv, TalkInv, Waiting, QueueInv
  <2>4. \E r \in Reqs : wma.alloc[r].kind = "stop" /\ \E answer : StopOver(wma', wma, r, answer)
    BY <1>8, <2>3 DEF StoppedTo
  <2> QED  BY <2>2, <2>4, StopOverFw
<1>9. CASE mc = Msg("deleted") /\ DeletedTo(wma', wma)
  <2>1. CASE wma' = wma
    <3>1. Turn("no", FALSE, "start", FALSE)
      BY <2>1, Turns DEF DialogInv, TypeOK
    <3>2. (Waiting("start")' <=> Waiting("start")) /\ (Waiting("stop")' <=> Waiting("stop"))
      BY <3>1 DEF Turn, Kinds
    <3>3. /\ Sent("start")' <=> Sent("start")
          /\ Sent("stop")' <=> Sent("stop")
          /\ StartLast' <=> StartLast
      BY <2>1, Sends
    <3>4. mc.type = "deleted"
      BY <1>9, Messages
    <3> QED  BY <2>1, <3>2, <3>3, <3>4, HandledFw DEF FwInv, TargetInv
  <2>2. CASE wma' # wma
    BY <1>9, <2>2, DelOverFw DEF DeletedTo
  <2> QED  BY <2>1, <2>2
<1> QED  BY <1>1, <1>2, <1>3, <1>4, <1>5, <1>6, <1>7, <1>8, <1>9, DoesHandled DEF HandledTo

\* Steps that leave the requests, the target and its answers alone.
LEMMA SameFw ==
    ASSUME FwInv, \A r \in Reqs : wma'.alloc[r].kind = wma.alloc[r].kind,
           wma'.bss_started = wma.bss_started, wma'.cmds = wma.cmds, fwUp' = fwUp,
           Asked("start_ok")' <=> Asked("start_ok"),
           Asked("start_failed")' <=> Asked("start_failed"),
           Asked("stopped")' <=> Asked("stopped"),
           Once("start_ok")', Once("start_failed")', Once("stopped")'
    PROVE  FwInv'
<1>1. (Waiting("start")' <=> Waiting("start")) /\ (Waiting("stop")' <=> Waiting("stop"))
  BY DEF Waiting
<1>2. /\ Sent("start")' <=> Sent("start")
      /\ Sent("stop")' <=> Sent("stop")
      /\ StartLast' <=> StartLast
  BY DEF Sent, StartLast
<1> QED  BY <1>1, <1>2 DEF FwInv, TargetInv

\* The target does a command and answers, or its answer is lost.
LEMMA TargetFw ==
    ASSUME TypeOK, FwInv, TargetStep
    PROVE  FwInv'
<1> DEFINE h == Head(wma.cmds)
<1>0. /\ wma.cmds \in Seq(Kinds \cup {"create"}) /\ wma.cmds # <<>> /\ wma'.cmds = Tail(wma.cmds)
      /\ wmaq \in Seq(MsgTypes) /\ mc' = mc /\ wma'.bss_started = wma.bss_started
      /\ wma'.alloc = wma.alloc
  BY TargetIs DEF TypeOK, WmaType
<1>1. PICK ok \in BOOLEAN : TargetTo(h, ok)
  BY TargetIs
<1>2. /\ wma'.cmds \in Seq(Kinds \cup {"create"})
      /\ \A y : y \in Range(wma.cmds) <=> y = h \/ y \in Range(wma'.cmds)
      /\ \A a, b : Precedes(wma.cmds, a, b)
                     <=> (a = h /\ b \in Range(wma'.cmds)) \/ Precedes(wma'.cmds, a, b)
  BY <1>0, Shortened
<1> HIDE DEF h
<1>3. (Waiting("start")' <=> Waiting("start")) /\ (Waiting("stop")' <=> Waiting("stop"))
  BY <1>0 DEF Waiting
<1>4. ASSUME NEW a \in MsgTypes, wmaq' = Append(wmaq, a)
      PROVE  /\ \A m : Asked(m)' <=> Asked(m) \/ m = a
             /\ \A m : Once(m) /\ (m = a => ~Asked(a)) => Once(m)'
  <2>1. /\ \A y : y \in Range(wmaq') <=> y \in Range(wmaq) \/ y = a
        /\ \A x, b : Precedes(wmaq', x, b)
                       <=> Precedes(wmaq, x, b) \/ (x \in Range(wmaq) /\ b = a)
    BY <1>0, <1>4, Appended
  <2> QED  BY <1>0, <2>1 DEF Asked, Once
<1>5. ASSUME wmaq' = wmaq
      PROVE  \A m : (Asked(m)' <=> Asked(m)) /\ (Once(m)' <=> Once(m))
  BY <1>0, <1>5 DEF Asked, Once
<1>6. "start_ok" \in MsgTypes /\ "start_failed" \in MsgTypes /\ "stopped" \in MsgTypes
      /\ "deleted" \in MsgTypes
  BY DEF MsgTypes
<1>7. ~Asked("start_ok") /\ ~Asked("start_failed") /\ (wma.bss_started => Waiting("stop"))
  BY <1>0 DEF FwInv, TargetInv
<1>8. CASE h = "start"
  <2>1. Sent("start")
    BY <1>2, <1>8 DEF Sent
  <2>2. \A y : y \notin Range(wma'.cmds)
    <3>1. \A y : y \in Range(wma'.cmds) => y \in Kinds \cup {"create"}
      BY <1>2, Empty
    <3> QED  BY <1>2, <1>8, <2>1, <3>1 DEF FwInv, TargetInv, StartLast
  <2>3. wma'.cmds = <<>> /\ ~Sent("start")' /\ ~Sent("stop")'
    BY <1>2, <2>2, Empty DEF Sent
  <2>4. Waiting("start") /\ (Sent("stop") => wma.cmds = <<"stop">>)
    BY <2>1 DEF FwInv, TargetInv
  <2>5. ~Sent("stop")
    BY <1>8, <2>4 DEF h
  <2>6. ~Waiting("stop") /\ ~wma.bss_started /\ ~Asked("stopped")
    BY <1>0, <1>7, <2>5 DEF FwInv, TargetInv
  <2>7. CASE wmaq' = wmaq
    BY <1>0, <1>3, <1>5, <1>7, <2>3, <2>4, <2>6, <2>7 DEF FwInv, TargetInv
  <2>8. CASE ok /\ fwUp' /\ wmaq' = Append(wmaq, "start_ok")
    <3>1. /\ Asked("start_ok")' /\ ~Asked("start_failed")' /\ ~Asked("stopped")'
          /\ Once("start_ok")' /\ Once("start_failed")' /\ Once("stopped")'
      BY <1>4, <1>6, <1>7, <2>6, <2>8 DEF FwInv
    <3> QED  BY <1>0, <1>3, <2>3, <2>4, <2>6, <2>8, <3>1 DEF FwInv, TargetInv
  <2>9. CASE ~ok /\ ~fwUp' /\ wmaq' = Append(wmaq, "start_failed")
    <3>1. /\ ~Asked("start_ok")' /\ Asked("start_failed")' /\ ~Asked("stopped")'
          /\ Once("start_ok")' /\ Once("start_failed")' /\ Once("stopped")'
      BY <1>4, <1>6, <1>7, <2>6, <2>9 DEF FwInv
    <3> QED  BY <1>0, <1>3, <2>3, <2>4, <2>6, <2>9, <3>1 DEF FwInv, TargetInv
  <2> QED  BY <1>1, <1>8, <2>7, <2>8, <2>9 DEF TargetTo
<1>9. CASE h = "stop"
  <2>1. Sent("stop")
    BY <1>2, <1>9 DEF Sent
  <2>2. Waiting("stop") /\ ~Asked("stopped") /\ wma.cmds = <<"stop">>
    BY <2>1 DEF FwInv, TargetInv
  <2>3. wma'.cmds = <<>>
    BY <1>0, <2>2
  <2>4. ~Sent("start")' /\ ~Sent("stop")'
    BY <1>2, <2>3, Empty DEF Sent
  <2>5. ~Waiting("start")
    <3>1. ~Sent("start")
      BY <1>2, <1>9, <2>3, <2>4 DEF Sent
    <3> QED  BY <1>0, <3>1 DEF FwInv, TargetInv
  <2>6. ~fwUp'
    BY <1>1, <1>9 DEF TargetTo
  <2>7. CASE wmaq' = wmaq
    BY <1>0, <1>3, <1>5, <1>7, <2>2, <2>3, <2>4, <2>5, <2>6, <2>7 DEF FwInv, TargetInv
  <2>8. CASE wmaq' = Append(wmaq, "stopped")
    <3>1. /\ ~Asked("start_ok")' /\ ~Asked("start_failed")' /\ Asked("stopped")'
          /\ Once("start_ok")' /\ Once("start_failed")' /\ Once("stopped")'
      BY <1>4, <1>6, <1>7, <2>2, <2>8 DEF FwInv
    <3> QED  BY <1>0, <1>3, <2>2, <2>3, <2>4, <2>5, <2>6, <3>1 DEF FwInv, TargetInv
  <2> QED  BY <1>1, <1>9, <2>7, <2>8 DEF TargetTo
<1>10. CASE h # "start" /\ h # "stop"
  <2>1. ~fwUp'
    BY <1>1, <1>10 DEF TargetTo
  <2>2. (Sent("start")' <=> Sent("start")) /\ (Sent("stop")' <=> Sent("stop"))
    BY <1>2, <1>10 DEF Sent
  <2>3. ~Sent("stop")
    <3>1. wma.cmds # <<"stop">>
      BY <1>10 DEF h
    <3> QED  BY <3>1 DEF FwInv, TargetInv
  <2>4. ~Waiting("stop") /\ ~wma.bss_started /\ ~Asked("stopped")
    BY <1>0, <1>7, <2>3 DEF FwInv, TargetInv
  <2>5. StartLast => StartLast'
    BY <1>2 DEF StartLast
  <2>6. Waiting("start") => Sent("start")
    BY <1>0 DEF FwInv, TargetInv
  <2>7. /\ ~Asked("start_ok")' /\ ~Asked("start_failed")' /\ ~Asked("stopped")'
        /\ Once("start_ok")' /\ Once("start_failed")' /\ Once("stopped")'
    <3>1. CASE wmaq' = wmaq
      BY <1>5, <1>7, <2>4, <3>1 DEF FwInv
    <3>2. CASE wmaq' = Append(wmaq, "deleted")
      BY <1>4, <1>6, <1>7, <2>4, <3>2 DEF FwInv
    <3> QED  BY <1>1, <1>10, <3>1, <3>2 DEF TargetTo
  <2> QED  BY <1>0, <1>3, <2>1, <2>2, <2>3, <2>4, <2>5, <2>6, <2>7 DEF FwInv, TargetInv
<1> QED  BY <1>8, <1>9, <1>10

\* Every step keeps the target in step.
LEMMA FwStep ==
    ASSUME TypeOK, QueueInv, DialogInv, FwInv, [Next]_vars, FwMode, FwMode'
    PROVE  FwInv'
<1>0. "start_ok" \in MsgTypes /\ "start_failed" \in MsgTypes /\ "stopped" \in MsgTypes
  BY DEF MsgTypes
<1>1. CASE \E fail \in Failures, lost \in Losses : McHandles(fail, lost)
  <2>1. PICK fail \in Failures, lost \in Losses : McHandles(fail, lost)
    BY <1>1
  <2>2. Does(fail)
    BY <2>1, DoesIs DEF FwMode
  <2> QED  BY <2>2, HandlesFw
<1>2. CASE TargetStep
  BY <1>2, TargetFw
<1>3. CASE McTakes
  <2>1. wma' = wma /\ fwUp' = fwUp
    BY <1>3 DEF McTakes
  <2> QED  BY <1>0, <1>3, <2>1, TakesAsked, SameFw DEF FwInv
<1>4. CASE \E r \in Reqs, posted \in BOOLEAN : Expire(r, posted)
  <2>1. /\ \A q \in Reqs : wma'.alloc[q].kind = wma.alloc[q].kind
        /\ wma'.bss_started = wma.bss_started /\ wma'.cmds = wma.cmds /\ fwUp' = fwUp
        /\ wmaq' = wmaq /\ mc' = mc
    BY <1>4, IsPosted, ExpireIs DEF FwMode, Calm, Others
  <2>2. \A m : (Asked(m)' <=> Asked(m)) /\ (Once(m)' <=> Once(m))
    BY <2>1 DEF Asked, Once
  <2> QED  BY <2>1, <2>2, SameFw DEF FwInv
<1>7. CASE WakeLockLapses
  <2>1. \A m : (Asked(m)' <=> Asked(m)) /\ (Once(m)' <=> Once(m))
    BY <1>7, LapseIs DEF Asked, Once
  <2> QED  BY <1>7, <2>1, LapseIs, SameFw DEF FwInv
<1>5. CASE UmacStep
  <2>0. \E m \in Asks : \E u : Ask(m, u)
    BY <1>5 DEF UmacStep, Asks
  <2>a. PICK m \in Asks : \E u : Ask(m, u)
    BY <2>0
  <2>1. PICK u : Ask(m, u)
    BY <2>a
  <2>2. /\ m \in MsgTypes /\ "start_ok" # m /\ "start_failed" # m /\ "stopped" # m
    BY <2>1 DEF Asks, MsgTypes
  <2>3. wma' = [wma EXCEPT !.umac = u] /\ fwUp' = fwUp
    BY <2>1, <2>2, AskAsked
  <2>4. wma'.alloc = wma.alloc /\ wma'.bss_started = wma.bss_started /\ wma'.cmds = wma.cmds
    BY <2>3 DEF TypeOK, WmaType
  <2>5. /\ Asked("start_ok")' <=> Asked("start_ok")
        /\ Asked("start_failed")' <=> Asked("start_failed")
        /\ Asked("stopped")' <=> Asked("stopped")
        /\ Once("start_ok")' /\ Once("start_failed")' /\ Once("stopped")'
    BY <1>0, <2>1, <2>2, AskAsked DEF FwInv
  <2> QED  BY <2>3, <2>4, <2>5, SameFw
<1>6. CASE UNCHANGED vars
  <2>1. wma' = wma /\ fwUp' = fwUp /\ wmaq' = wmaq /\ mc' = mc
    BY <1>6 DEF vars
  <2>2. \A m : (Asked(m)' <=> Asked(m)) /\ (Once(m)' <=> Once(m))
    BY <2>1 DEF Asked, Once
  <2> QED  BY <2>1, <2>2, SameFw DEF FwInv
<1> QED  BY <1>1, <1>2, <1>3, <1>4, <1>5, <1>6, <1>7 DEF Next

\* At first the target has nothing to do.
LEMMA FwInit ==
    ASSUME Init
    PROVE  FwInv
<1>1. /\ wmaq = <<>> /\ mc.type = "none" /\ wma.cmds = <<>> /\ ~fwUp /\ ~wma.bss_started
      /\ \A r \in Reqs : wma.alloc[r].kind = "none"
  BY Messages DEF Init, NoReq
<1>2. <<>> \in Seq(MsgTypes) /\ <<>> \in Seq(Kinds \cup {"create"})
  OBVIOUS
<1>3. /\ \A y : y \notin Range(wmaq) /\ \A a, b : ~Precedes(wmaq, a, b)
      /\ \A y : y \notin Range(wma.cmds)
  BY <1>1, <1>2, Empty
<1>4. /\ ~Asked("start_ok") /\ ~Asked("start_failed") /\ ~Asked("stopped")
      /\ Once("start_ok") /\ Once("start_failed") /\ Once("stopped")
  BY <1>1, <1>3 DEF Asked, Once
<1>5. ~Waiting("start") /\ ~Waiting("stop") /\ ~Sent("start") /\ ~Sent("stop")
  BY <1>1, <1>3 DEF Waiting, Sent
<1> QED  BY <1>1, <1>4, <1>5 DEF FwInv, TargetInv

\* The target is in step as long as nothing goes wrong but starts that time out.
CalmTarget == CalmDialog /\ (FwMode => FwInv)

\* TargetInv holds in the modes in which the target is in step.
THEOREM FwKeeps == Spec => []CalmTarget
<1>1. Init => CalmTarget
  BY QueueInit, DialogInit, FwInit DEF CalmTarget, CalmDialog, CalmQueue
<1>2. CalmTarget /\ CalmDialog' /\ [Next]_vars => CalmTarget'
  <2> SUFFICES ASSUME CalmTarget, CalmDialog', [Next]_vars, FwMode' PROVE FwInv'
    BY DEF CalmTarget
  <2>1. FwMode /\ Mode /\ Calm
    BY PastKept DEF FwMode, Mode, Calm
  <2>2. TypeOK /\ QueueInv /\ DialogInv /\ FwInv
    BY <2>1 DEF CalmTarget, CalmDialog, CalmQueue
  <2> QED  BY <2>1, <2>2, FwStep
<1> QED  BY <1>1, <1>2, DialogKeeps, PTL DEF Spec

\* BssAgrees of every instance: when nothing is under way, the upper layers, WMA and the
\* target agree whether the BSS is up, and the upper layers and WMA whether the device
\* is there, after answers that were lost or said no, requests that timed out and starts
\* that WMA stopped by itself.
THEOREM BssKept == Spec => []BssAgrees
<1>1. CalmTarget => BssAgrees
  <2> SUFFICES ASSUME CalmTarget, Quiet, FwMode
               PROVE  /\ wma.umac.bss = "up" <=> fwUp
                      /\ wma.bss_started <=> fwUp
                      /\ wma.handle <=> wma.umac.self = "here"
    BY DEF BssAgrees, FwMode
  <2>1. Mode /\ Calm /\ "stop_unsent" \notin past
    BY DEF FwMode, Mode, Calm
  <2>2. TypeOK /\ QueueInv /\ DialogInv /\ FwInv
    BY <2>1 DEF CalmTarget, CalmDialog, CalmQueue
  <2>3. /\ \A y : y \notin Range(wmaq) /\ y \notin Range(wma.respq)
        /\ mc.type = "none"
    <3>1. <<>> \in Seq(MsgTypes) /\ <<>> \in Seq(Reqs)
      OBVIOUS
    <3> QED  BY <3>1, Empty, Messages DEF Quiet
  <2>4. ~Asked("add_self") /\ ~Asked("del_self") /\ ~Asked("add_bss") /\ ~Asked("del_bss")
    BY <2>3 DEF Asked
  <2>5. ~Waiting("start") /\ ~Waiting("stop") /\ ~Waiting("del")
    BY <2>2, <2>3 DEF Waiting, QueueInv
  <2>6. wma.umac.bss \notin {"adding", "deleting"} /\ wma.umac.self # "adding"
    BY <2>2, <2>4, <2>5 DEF DialogInv, TalkInv
  <2>7. wma.bss_started <=> fwUp
    BY <2>2, <2>5 DEF FwInv, TargetInv, TypeOK
  <2>8. wma.umac.bss = "up" <=> wma.bss_started
    BY <2>1, <2>2, <2>6 DEF DialogInv, TalkInv
  <2>9. wma.umac.self # "deleting"
    BY <2>1, <2>2, <2>4, <2>5, <2>6 DEF DialogInv, TalkInv
  <2> QED  BY <2>2, <2>7, <2>8, <2>9 DEF DialogInv, TalkInv
<1> QED  BY <1>1, FwKeeps, PTL
=============================================================================
