-------------------------- MODULE TxFlowPoolProofs --------------------------
(***************************************************************************)
(* Proofs about transmit descriptors and flow pools, for any number of     *)
(* contexts that send, devices, flows, pools and descriptors.              *)
(*                                                                         *)
(* PoolInv is the inductive invariant.  Its parts say which contexts may   *)
(* overlap, what each holds and works on, that a descriptor knows the pool *)
(* it came from and that the pool exists while the descriptor is out, that *)
(* the list holds the pools that exist but for one that is being deleted,  *)
(* that a flow has one pool, and that every counter adds up.  One lemma    *)
(* per action shows that its step keeps all of them.                       *)
(*                                                                         *)
(* DrainOK and PauseOK are two more invariants, relative to PoolInv: one   *)
(* for invalid pools, one for the thresholds of pools that are paused.     *)
(***************************************************************************)
EXTENDS TxFlowPool, FiniteSetTheorems, TLAPS

\* A context that frees a descriptor, deletes a pool or handles a message of the
\* target.
Work == Pcs \ {"idle", "alloc", "pause", "send"}

\* Where the one HTT context maps and unmaps a flow.
MapPcs == {"map", "member", "unmap", "unmember"}

\* Where a context carries the descriptor of a frame.
Carrying == {"pause", "send", "free"}

\* Where a pool is not on the list though it exists.
OffList == {"retire", "enlist"}

\* Contexts overlap only where the code lets them.
AloneOK ==
    /\ ~OneCpu => \A t \in Senders : pc[t] \notin Work
    /\ OneCpu => \A t, u \in Threads : pc[t] # "idle" /\ pc[u] # "idle" => t = u
    /\ \A t \in Senders : pc[t] \notin MapPcs
    /\ pc[Htt] \notin {"alloc", "pause", "send"}

\* What a context holds.
HeldOK ==
    \A t \in Threads :
        /\ pc[t] \in Carrying => \E d \in Descs : held[t] = {d}
        /\ pc[t] \notin Carrying \cup {"enlist", "give"} => held[t] = {}

\* The frame of descriptor d is being sent, is with the target or is being
\* completed.
Out(d) == \/ d \in inflight
          \/ \E t \in Threads : d \in held[t] /\ pc[t] \in Carrying

\* A descriptor knows the pool it came from, and that pool exists.
OwnOK ==
    /\ \A p \in Pools : \A d \in freelist[p] : poolOf[d] = p
    /\ \A d \in Descs : Out(d) => poolOf[d] \in Pools /\ status[poolOf[d]] # "none"
    /\ \A p \in Pools : status[p] = "none" => freelist[p] = {}

\* Some context has taken pool p off the list.
Removed(p) == \E t \in Threads : pc[t] \in OffList /\ pool[t] = p

\* The list holds the pools that exist, each once.
ListOK ==
    /\ \A i, j \in 1..Len(flow_pool_list) : flow_pool_list[i] = flow_pool_list[j] => i = j
    /\ \A p \in Pools : Listed(p) <=> status[p] # "none" /\ ~Removed(p)

\* A flow has one pool, an invalid pool no flow, and a device the pool of its flow.
IdOK ==
    /\ \A p, q \in Pools :
          status[p] # "none" /\ status[q] # "none" /\ flow_pool_id[p] = flow_pool_id[q]
          /\ flow_pool_id[p] \in Flows => p = q
    /\ \A p \in Pools : status[p] = "invalid" => flow_pool_id[p] = InvalidFlow
    /\ \A v \in Vdevs :
          vdevPool[v] # NoPool => /\ status[vdevPool[v]] \in Active
                                  /\ flow_pool_id[vdevPool[v]] = v
    /\ MgmtDescs # {} => status[MgmtPool] \in Active /\ flow_pool_id[MgmtPool] = NoFlow

\* Nothing of pool p is out and it lacks nothing.
Whole(p) == deficient_desc[p] = 0 /\ \A d \in Descs : Out(d) => poolOf[d] # p

\* The pool a context works on.
WorkAt(t) ==
    /\ pc[t] \in Work \ {"free", "give"} => pool[t] \in Pools /\ status[pool[t]] # "none"
    /\ pc[t] \in MapPcs => /\ status[pool[t]] \in Active
                           /\ flow_pool_id[pool[t]] = flow[t] /\ flow[t] \in Flows
    /\ pc[t] \in MapPcs \ {"map"} => flow[t] \in Vdevs
    /\ pc[t] \in {"distribute", "shrink", "enlist"} => status[pool[t]] = "invalid"
    /\ pc[t] \in {"distribute", "shrink"} => Whole(pool[t])
    /\ pc[t] \in {"remove", "retire"} /\ status[pool[t]] = "invalid" => Whole(pool[t])
    /\ pc[t] \in {"remove", "retire"} /\ status[pool[t]] # "invalid"
          => flow_pool_id[pool[t]] \in Flows
    /\ pc[t] \in {"unmember", "remove", "retire"} => \A v \in Vdevs : vdevPool[v] # pool[t]

\* So for every context.
WorkOK == \A t \in Threads : WorkAt(t)

\* A transmission takes from the management pool or from a mapped one.
AllocOK ==
    \A t \in Senders :
        /\ pc[t] \in {"alloc", "pause"} => flow[t] \in Vdevs
        /\ pc[t] = "alloc" =>
              \/ MgmtDescs # {} /\ pool[t] = MgmtPool
              \/ /\ pool[t] # NoPool /\ vdevPool[flow[t]] = pool[t]
                 /\ ~(pc[Htt] = "unmap" /\ flow[Htt] = flow[t])

\* The invalid pools that were counted and are not being deleted.
Counted ==
    {p \in Pools : /\ status[p] = "invalid"
                   /\ \A t \in Threads : pc[t] \in OffList \cup {"remove"} => pool[t] # p}

\* num_invalid_bin is their number.
CountOK == IsFiniteSet(Counted) /\ num_invalid_bin = Cardinality(Counted)

\* The inductive invariant.
PoolInv ==
    /\ TypeOK /\ AloneOK /\ HeldOK /\ OwnOK /\ ListOK /\ IdOK /\ WorkOK /\ AllocOK
    /\ CountOK /\ Kept /\ Once /\ SizesAddUp

\* Where a context deletes an invalid pool that is complete.
Deleting == {"distribute", "shrink", "remove", "retire"}

\* An invalid pool has descriptors out, or is being deleted.
DrainOK ==
    \A p \in Pools :
        status[p] = "invalid" =>
            \/ Outstanding(p) # {}
            \/ \E t \in Threads : pc[t] \in Deleting /\ pool[t] = p

\* No pool was created with fewer descriptors than the target asked for.
NoShortfall == \A p \in Pools : deficient_desc[p] = 0

\* The thresholds of a pool are in order and less than its size, and a paused
\* pool has no more free descriptors than the second.
PauseOK ==
    \A p \in Pools :
        /\ status[p] \in Active => /\ stop_th[p] <= start_th[p]
                                   /\ flow_pool_size[p] > 0
                                        => start_th[p] < flow_pool_size[p]
        /\ status[p] = "paused" => /\ flow_pool_size[p] > 0
                                   /\ Cardinality(freelist[p]) <= start_th[p]

\* Frames that are refused come back only where transmission and completion do
\* not overlap.
Serialized == OneCpu \/ ~SendMayFail

-----------------------------------------------------------------------------
(* Facts that the steps below share *)

\* Contexts overlap after a step of t as they did before it.
LEMMA AloneStep ==
  ASSUME TypeOK, AloneOK, NEW t \in Threads, NEW l \in Pcs, Runs(t),
         pc' = [pc EXCEPT ![t] = l],
         t \in Senders => l \notin MapPcs /\ (l \in Work => OneCpu),
         t = Htt => l \notin {"alloc", "pause", "send"}
  PROVE  AloneOK'
<1>1. pc'[t] = l /\ \A u \in Threads : u # t => pc'[u] = pc[u]
  BY DEF TypeOK
<1>2. Htt \in Threads /\ Senders \subseteq Threads
  BY DEF Threads
<1> QED  BY <1>1, <1>2 DEF AloneOK, Runs

\* A context that works is the only one that does.
LEMMA OneWorks ==
  ASSUME AloneOK, NEW t \in Threads, pc[t] \in Work \/ t = Htt, Runs(t)
  PROVE  \A u \in Threads : u # t => pc[u] \notin Work
<1>1. "idle" \notin Work
  BY DEF Work, Pcs
<1>2. CASE OneCpu  BY <1>1, <1>2 DEF Runs
<1>3. CASE ~OneCpu  BY <1>3, PoolAssumption DEF AloneOK, Threads
<1> QED  BY <1>2, <1>3

\* One descriptor or pool more or less.
LEMMA OneMore ==
  ASSUME NEW S, IsFiniteSet(S), NEW d
  PROVE  /\ Cardinality(S) \in Nat
         /\ d \notin S => IsFiniteSet(S \cup {d}) /\ Cardinality(S \cup {d}) = Cardinality(S) + 1
         /\ d \in S => IsFiniteSet(S \ {d}) /\ Cardinality(S \ {d}) = Cardinality(S) - 1
<1>1. Cardinality(S) \in Nat  BY FS_CardinalityType
<1>2. d \notin S => IsFiniteSet(S \cup {d}) /\ Cardinality(S \cup {d}) = Cardinality(S) + 1
  BY FS_AddElement
<1>3. d \in S => IsFiniteSet(S \ {d}) /\ Cardinality(S \ {d}) = Cardinality(S) - 1
  BY FS_RemoveElement
<1> QED  BY <1>1, <1>2, <1>3

\* Outstanding descriptors are those that are out.
LEMMA OutstandingIs ==
  /\ \A p \in Pools : Outstanding(p) = {d \in Descs : poolOf[d] = p /\ Out(d)}
  /\ TypeOK => \A p \in Pools : /\ IsFiniteSet(Outstanding(p)) /\ Cardinality(Outstanding(p)) \in Nat
                                /\ IsFiniteSet(freelist[p]) /\ Cardinality(freelist[p]) \in Nat
<1>1. \A p \in Pools : Outstanding(p) = {d \in Descs : poolOf[d] = p /\ Out(d)}
  BY DEF Outstanding, Out, Carrying
<1>2. ASSUME TypeOK, NEW p \in Pools
      PROVE  /\ IsFiniteSet(Outstanding(p)) /\ Cardinality(Outstanding(p)) \in Nat
             /\ IsFiniteSet(freelist[p]) /\ Cardinality(freelist[p]) \in Nat
  <2>1. Outstanding(p) \subseteq Descs /\ freelist[p] \subseteq Descs
    BY <1>2 DEF Outstanding, TypeOK
  <2>2. IsFiniteSet(Outstanding(p)) /\ IsFiniteSet(freelist[p])
    BY <2>1, FS_Subset, PoolAssumption
  <2> QED  BY <2>2, FS_CardinalityType
<1> QED  BY <1>1, <1>2

\* The pools at work stay as they are when nothing they depend on changes.
LEMMA WorkRest ==
  ASSUME WorkOK, NEW t \in Threads, WorkAt(t)',
         \A u \in Threads : u # t => /\ pc'[u] = pc[u] /\ pool'[u] = pool[u]
                                     /\ flow'[u] = flow[u],
         UNCHANGED <<status, flow_pool_id, deficient_desc, vdevPool, poolOf>>,
         \A d \in Descs : Out(d)' <=> Out(d)
  PROVE  WorkOK'
<1> SUFFICES ASSUME NEW u \in Threads, u # t PROVE WorkAt(u)'
  BY DEF WorkOK
<1>1. WorkAt(u)  BY DEF WorkOK
<1>2. \A p \in Pools : Whole(p)' <=> Whole(p)  BY DEF Whole
<1>3. Work \ {"free", "give"} = {"distribute", "shrink", "remove", "retire", "enlist"} \cup MapPcs
  BY DEF Work, Pcs, MapPcs
<1> QED  BY <1>1, <1>2, <1>3 DEF WorkAt

\* A context alone at work has only its own pool to care for.
LEMMA WorkAlone ==
  ASSUME NEW t \in Threads, WorkAt(t)',
         \A u \in Threads : u # t => pc'[u] = pc[u] /\ pc[u] \notin Work
  PROVE  WorkOK'
<1>1. MapPcs \cup {"distribute", "shrink", "remove", "retire", "enlist"} \subseteq Work
  BY DEF Work, Pcs, MapPcs
<1>2. ASSUME NEW u \in Threads, u # t PROVE WorkAt(u)'
  <2>1. pc'[u] \notin Work  BY <1>2
  <2> QED  BY <1>1, <2>1 DEF WorkAt, MapPcs
<1> QED  BY <1>2 DEF WorkOK

\* A step that moves neither descriptors nor pools.
LEMMA CalmStep ==
  ASSUME PoolInv, NEW t \in Threads, NEW l \in Pcs, pc' = [pc EXCEPT ![t] = l],
         UNCHANGED <<lists, status, flow_pool_id, flow_pool_size, deficient_desc, freelist,
                     poolOf, inflight, held>>,
         \A u \in Threads : u # t => pool'[u] = pool[u],
         {pc[t], l} \cap (OffList \cup {"shrink", "give"}) = {}, pc[t] # "remove",
         l = "remove" => status[pool'[t]] # "invalid",
         pc[t] \in Carrying <=> l \in Carrying
  PROVE  /\ HeldOK' /\ OwnOK' /\ ListOK' /\ CountOK' /\ Kept' /\ Once' /\ SizesAddUp'
         /\ \A d \in Descs : Out(d)' <=> Out(d)
<1> USE DEF PoolInv, lists
<1>1. pc'[t] = l /\ \A u \in Threads : u # t => pc'[u] = pc[u]
  BY DEF TypeOK
<1>2. \A d \in Descs : Out(d)' <=> Out(d)
  BY <1>1 DEF Out
<1>3. HeldOK'
  BY <1>1 DEF HeldOK, OffList
<1>4. OwnOK'
  BY <1>2 DEF OwnOK
<1>5. ListOK'
  <2>1. \A p \in Pools : Removed(p)' <=> Removed(p)
    BY <1>1 DEF Removed
  <2> QED  BY <2>1 DEF ListOK, Listed
<1>6. CountOK'
  <2>1. Counted' = Counted
    BY <1>1 DEF Counted
  <2> QED  BY <2>1 DEF CountOK
<1>7. Kept' /\ Once'
  BY DEF Kept, Once
<1>8. SizesAddUp'
  <2>1. \A p \in Pools : Outstanding(p)' = Outstanding(p)
    BY <1>1 DEF Outstanding, Carrying
  <2>2. \A p \in Pools : (\A u \in Threads : pc'[u] = "shrink" => pool'[u] # p)
                            <=> (\A u \in Threads : pc[u] = "shrink" => pool[u] # p)
    BY <1>1
  <2> QED  BY <2>1, <2>2 DEF SizesAddUp
<1> QED  BY <1>2, <1>3, <1>4, <1>5, <1>6, <1>7, <1>8

-----------------------------------------------------------------------------
(* Transmission *)

\* ol_tx_desc_alloc_wrapper reads the pool of a device that is mapped.
LEMMA WrapperStep ==
  ASSUME PoolInv, NEW t \in Senders, NEW v \in Vdevs, ol_tx_desc_alloc_wrapper(t, v)
  PROVE  PoolInv'
<1> USE DEF PoolInv
<1>0. t \in Threads /\ t # Htt /\ v \in Flows
  BY PoolAssumption DEF Threads
<1>1. /\ pc[t] = "idle" /\ Runs(t) /\ pc' = [pc EXCEPT ![t] = "alloc"]
      /\ flow' = [flow EXCEPT ![t] = v]
      /\ \E q \in Pools : pool' = [pool EXCEPT ![t] = q]
      /\ UNCHANGED <<lists, status, flow_pool_id, flow_pool_size, deficient_desc, freelist,
                     poolOf, inflight, held>>
      /\ UNCHANGED <<vdevPool, stopped, member_flow_id, stop_th, start_th>>
  <2>1. \E q \in Pools : pool' = [pool EXCEPT ![t] = q]
    BY PoolAssumption DEF ol_tx_desc_alloc_wrapper, DataFrame, MgmtFrame, TypeOK
  <2> QED  BY <2>1 DEF ol_tx_desc_alloc_wrapper, Goto, pools, netif, identity, thresholds
<1>2. PICK q \in Pools : pool' = [pool EXCEPT ![t] = q]
  BY <1>1
<1>3. /\ pc'[t] = "alloc" /\ pool'[t] = q /\ flow'[t] = v
      /\ \A u \in Threads : u # t => pc'[u] = pc[u] /\ pool'[u] = pool[u] /\ flow'[u] = flow[u]
  BY <1>0, <1>1, <1>2 DEF TypeOK
<1>4. TypeOK'
  BY <1>0, <1>1, <1>2 DEF TypeOK, lists, Pcs
<1>5. AloneOK'
  BY <1>0, <1>1, AloneStep DEF Pcs, MapPcs, Work
<1>6. /\ HeldOK' /\ OwnOK' /\ ListOK' /\ CountOK' /\ Kept' /\ Once' /\ SizesAddUp'
      /\ \A d \in Descs : Out(d)' <=> Out(d)
  BY <1>0, <1>1, <1>3, CalmStep DEF Pcs, OffList, Carrying
<1>7. IdOK'
  BY <1>1 DEF IdOK
<1>8. WorkOK'
  <2>1. WorkAt(t)'
    BY <1>3 DEF WorkAt, Work, MapPcs
  <2> QED  BY <1>0, <1>1, <1>3, <1>6, <2>1, WorkRest
<1>9. AllocOK'
  <2>1. \/ MgmtDescs # {} /\ q = MgmtPool
        \/ vdevPool[v] = q /\ q # NoPool /\ ~(pc[Htt] = "unmap" /\ flow[Htt] = v)
    <3>1. CASE DataFrame(t, v)
      BY <1>0, <1>2, <1>3, <3>1 DEF DataFrame, TypeOK
    <3>2. CASE MgmtFrame(t)
      BY <1>0, <1>2, <1>3, <3>2 DEF MgmtFrame, TypeOK
    <3> QED  BY <3>1, <3>2 DEF ol_tx_desc_alloc_wrapper
  <2>2. Htt \in Threads /\ Senders \subseteq Threads  BY DEF Threads
  <2> QED  BY <1>0, <1>1, <1>3, <2>1, <2>2 DEF AllocOK
<1> QED  BY <1>4, <1>5, <1>6, <1>7, <1>8, <1>9

\* A transmission takes its descriptor from an active pool.
LEMMA AllocActive ==
  ASSUME PoolInv, NEW t \in Threads, pc[t] = "alloc"
  PROVE  /\ t \in Senders /\ pool[t] \in Pools /\ status[pool[t]] \in Active
         /\ \A u \in Threads : pc[u] \in {"unmap", "unmember", "remove", "retire"}
                                  => pool[u] # pool[t]
<1> USE DEF PoolInv
<1>1. t \in Senders /\ t # Htt  BY PoolAssumption DEF AloneOK, Threads
<1>2. pool[t] \in Pools /\ status[pool[t]] \in Active
  BY <1>1, PoolAssumption DEF AllocOK, IdOK, TypeOK
<1>3. ASSUME NEW u \in Threads, pc[u] \in {"unmap", "unmember", "remove", "retire"}, pool[u] = pool[t]
      PROVE  FALSE
  <2>1. flow_pool_id[pool[u]] \in Flows
    BY <1>2, <1>3 DEF WorkOK, WorkAt, MapPcs, Active
  <2>2. ~(MgmtDescs # {} /\ pool[t] = MgmtPool)
    BY <1>3, <2>1, PoolAssumption DEF IdOK
  <2>3. /\ flow[t] \in Vdevs /\ vdevPool[flow[t]] = pool[t] /\ pool[t] # NoPool
        /\ ~(pc[Htt] = "unmap" /\ flow[Htt] = flow[t])
    BY <1>1, <2>2 DEF AllocOK
  <2>4. pc[u] = "unmap" => u = Htt
    BY DEF AloneOK, MapPcs, Threads
  <2>5. pc[u] = "unmap" => flow_pool_id[pool[u]] = flow[u]
    BY DEF WorkOK, WorkAt, MapPcs
  <2>6. flow_pool_id[pool[t]] = flow[t]
    BY <2>3 DEF IdOK
  <2>7. pc[u] \in {"unmember", "remove", "retire"} => FALSE
    BY <1>3, <2>3 DEF WorkOK, WorkAt
  <2> QED  BY <1>3, <2>3, <2>4, <2>5, <2>6, <2>7
<1> QED  BY <1>1, <1>2, <1>3

\* A call that returns, or stops the queues, moves nothing.
LEMMA QuietSender ==
  ASSUME PoolInv, NEW t \in Senders, NEW l \in {"idle", "send"}, Runs(t),
         \/ pc[t] = "alloc" /\ l = "idle"
         \/ pc[t] = "pause" /\ l = "send",
         pc' = [pc EXCEPT ![t] = l],
         UNCHANGED <<lists, status, flow_pool_id, flow_pool_size, deficient_desc, freelist,
                     poolOf, inflight, held>>,
         UNCHANGED <<vdevPool, member_flow_id, stop_th, start_th>>,
         pool' \in [Threads -> Pools \cup {NoPool}], flow' \in [Threads -> Flows \cup {NoFlow}],
         \A u \in Threads : u # t => pool'[u] = pool[u] /\ flow'[u] = flow[u],
         stopped' \subseteq Flows
  PROVE  PoolInv'
<1> USE DEF PoolInv
<1>0. t \in Threads /\ t # Htt /\ Htt \in Threads /\ Senders \subseteq Threads
  BY PoolAssumption DEF Threads
<1>1. pc'[t] = l /\ \A u \in Threads : u # t => pc'[u] = pc[u]
  BY <1>0 DEF TypeOK
<1>2. TypeOK'
  BY <1>0 DEF TypeOK, lists, Pcs
<1>3. AloneOK'
  BY <1>0, AloneStep DEF Pcs, MapPcs, Work
<1>4. /\ HeldOK' /\ OwnOK' /\ ListOK' /\ CountOK' /\ Kept' /\ Once' /\ SizesAddUp'
      /\ \A d \in Descs : Out(d)' <=> Out(d)
  <2>1. l \in Pcs /\ {pc[t], l} \cap (OffList \cup {"shrink", "give"}) = {}
        /\ (pc[t] \in Carrying <=> l \in Carrying) /\ pc[t] # "remove" /\ l # "remove"
    BY DEF Pcs, OffList, Carrying
  <2> QED  BY <1>0, <2>1, CalmStep
<1>5. IdOK'
  BY DEF IdOK
<1>6. WorkOK'
  <2>1. WorkAt(t)'
    BY <1>1 DEF WorkAt, Work, MapPcs
  <2>2. UNCHANGED <<status, flow_pool_id, deficient_desc, vdevPool, poolOf>>
    OBVIOUS
  <2> QED  BY <1>0, <1>1, <1>4, <2>1, <2>2, WorkRest
<1>7. AllocOK'
  BY <1>0, <1>1 DEF AllocOK
<1> QED  BY <1>2, <1>3, <1>4, <1>5, <1>6, <1>7

\* pause_cb stops the queues of the device of the frame.
LEMMA StopQueueStep ==
  ASSUME PoolInv, NEW t \in Threads, StopQueue(t)
  PROVE  PoolInv'
<1> USE DEF PoolInv
<1>1. /\ pc[t] = "pause" /\ Runs(t) /\ pc' = [pc EXCEPT ![t] = "send"]
      /\ UNCHANGED <<lists, status, flow_pool_id, flow_pool_size, deficient_desc, freelist,
                     poolOf, inflight, held>>
      /\ UNCHANGED <<vdevPool, member_flow_id, stop_th, start_th>>
      /\ UNCHANGED <<pool, flow>> /\ stopped' = stopped \cup {flow[t]}
  BY DEF StopQueue, Goto, pools, identity, thresholds, locals
<1>2. t \in Senders
  BY <1>1 DEF AloneOK, Threads
<1>3. /\ pool' \in [Threads -> Pools \cup {NoPool}] /\ flow' \in [Threads -> Flows \cup {NoFlow}]
      /\ stopped' \subseteq Flows
  <2>1. flow[t] \in Flows  BY <1>1, <1>2, PoolAssumption DEF AllocOK
  <2> QED  BY <1>1, <2>1 DEF TypeOK
<1>4. \A u \in Threads : u # t => pool'[u] = pool[u] /\ flow'[u] = flow[u]
  BY <1>1
<1>5. PICK l \in {"idle", "send"} : l = "send"
  OBVIOUS
<1> QED  BY <1>1, <1>2, <1>3, <1>4, <1>5, QuietSender

\* A descriptor leaves the free list of an active pool.
LEMMA TakeStep ==
  ASSUME PoolInv, NEW t \in Threads, pc[t] = "alloc", Runs(t),
         NEW p \in Pools, pool[t] = p, NEW d \in freelist[p],
         freelist' = [freelist EXCEPT ![p] = @ \ {d}],
         held' = [held EXCEPT ![t] = {d}],
         NEW l \in {"pause", "send"}, pc' = [pc EXCEPT ![t] = l],
         NEW s \in Active, status' = [status EXCEPT ![p] = s],
         UNCHANGED <<lists, identity, deficient_desc, poolOf, netif, pool, flow>>
  PROVE  PoolInv'
<1> USE DEF PoolInv
<1>0. /\ t \in Senders /\ t # Htt /\ Htt \in Threads /\ Senders \subseteq Threads
      /\ status[p] \in Active /\ d \in Descs
      /\ \A u \in Threads : pc[u] \in {"unmap", "unmember", "remove", "retire"} => pool[u] # p
  <2>1. t \in Senders /\ status[p] \in Active
        /\ \A u \in Threads : pc[u] \in {"unmap", "unmember", "remove", "retire"} => pool[u] # p
    BY AllocActive
  <2> QED  BY <2>1, PoolAssumption DEF Threads, TypeOK
<1>1. /\ pc'[t] = l /\ held'[t] = {d} /\ freelist'[p] = freelist[p] \ {d} /\ status'[p] = s
      /\ \A u \in Threads : u # t => pc'[u] = pc[u] /\ held'[u] = held[u]
      /\ \A q \in Pools : q # p => freelist'[q] = freelist[q] /\ status'[q] = status[q]
  BY DEF TypeOK
<1>2. TypeOK'
  BY <1>0 DEF TypeOK, lists, identity, thresholds, netif, Pcs, Active
<1>3. AloneOK'
  BY <1>0, AloneStep DEF Pcs, MapPcs, Work
<1>4. held[t] = {}
  BY DEF HeldOK, Carrying
<1>5. HeldOK'
  BY <1>0, <1>1 DEF HeldOK, Carrying
<1>6. /\ \A e \in Descs : Out(e)' <=> Out(e) \/ e = d
      /\ ~Out(d) /\ poolOf[d] = p /\ poolOf' = poolOf
  <2>1. \A e \in Descs : Out(e)' <=> Out(e) \/ e = d
    BY <1>1, <1>4 DEF Out, Carrying, netif
  <2>2. ~Out(d)
    BY <1>0 DEF Out, Once
  <2> QED  BY <2>1, <2>2 DEF OwnOK
<1>7. \A q \in Pools : /\ (status'[q] = "none" <=> status[q] = "none")
                       /\ (status'[q] = "invalid" <=> status[q] = "invalid")
                       /\ (status'[q] \in Active <=> status[q] \in Active)
  BY <1>0, <1>1 DEF Active
<1>8. OwnOK'
  <2>1. \A q \in Pools : \A e \in freelist'[q] : poolOf'[e] = q
    BY <1>1, <1>6 DEF OwnOK
  <2>2. \A e \in Descs : Out(e)' => poolOf'[e] \in Pools /\ status'[poolOf'[e]] # "none"
    BY <1>0, <1>6, <1>7 DEF OwnOK, Active
  <2>3. \A q \in Pools : status'[q] = "none" => freelist'[q] = {}
    BY <1>0, <1>1, <1>7 DEF OwnOK, Active
  <2> QED  BY <2>1, <2>2, <2>3 DEF OwnOK
<1>9. ListOK'
  <2>1. \A q \in Pools : Removed(q)' <=> Removed(q)
    BY <1>1 DEF Removed, OffList
  <2> QED  BY <1>7, <2>1 DEF ListOK, Listed, lists
<1>10. IdOK'
  <2>1. UNCHANGED <<flow_pool_id, vdevPool>>  BY DEF identity, netif
  <2>2. MgmtPool \in Pools  BY PoolAssumption
  <2>3. \A v \in Vdevs : vdevPool[v] # NoPool => vdevPool[v] \in Pools  BY DEF TypeOK
  <2> QED  BY <1>7, <2>1, <2>2, <2>3 DEF IdOK
<1>11. CountOK'
  <2>1. Counted' = Counted
    BY <1>1, <1>7 DEF Counted, OffList
  <2> QED  BY <2>1 DEF CountOK, lists
<1>12. WorkOK'
  <2> SUFFICES ASSUME NEW u \in Threads PROVE WorkAt(u)'
    BY DEF WorkOK
  <2>1. CASE u = t
    BY <1>1, <2>1 DEF WorkAt, Work, MapPcs
  <2>2. CASE u # t
    <3>1. WorkAt(u) /\ pc'[u] = pc[u] /\ pool'[u] = pool[u] /\ flow'[u] = flow[u]
      BY <1>1, <2>2 DEF WorkOK
    <3>2. \A q \in Pools : status[q] = "invalid" /\ Whole(q) => Whole(q)'
      BY <1>0, <1>6 DEF Whole, Active
    <3>3. Work \ {"free", "give"} = {"distribute", "shrink", "remove", "retire", "enlist"} \cup MapPcs
      BY DEF Work, Pcs, MapPcs
    <3>4. UNCHANGED <<flow_pool_id, vdevPool>>
      BY DEF identity, netif
    <3> QED  BY <1>7, <3>1, <3>2, <3>3, <3>4 DEF WorkAt
  <2> QED  BY <2>1, <2>2
<1>13. AllocOK'
  BY <1>0, <1>1 DEF AllocOK, netif
<1>14. Kept' /\ Once'
  <2>1. UNCHANGED <<globalFree, inflight>>  BY DEF lists, netif
  <2>2. Kept'  BY <1>0, <1>1, <1>4, <2>1 DEF Kept
  <2>3. Once'  BY <1>0, <1>1, <1>4, <2>1 DEF Once
  <2> QED  BY <2>2, <2>3
<1>15. SizesAddUp'
  <2>1. ASSUME NEW q \in Pools, status'[q] # "none",
               \A u \in Threads : pc'[u] = "shrink" => pool'[u] # q
        PROVE  Cardinality(freelist'[q]) + Cardinality(Outstanding(q)') + deficient_desc'[q]
                 = flow_pool_size'[q]
    <3>1. Cardinality(freelist[q]) + Cardinality(Outstanding(q)) + deficient_desc[q]
            = flow_pool_size[q]
      <4>1. \A u \in Threads : pc[u] = "shrink" => pool[u] # q
        BY <1>1, <2>1
      <4> QED  BY <1>7, <2>1, <4>1 DEF SizesAddUp
    <3>2. UNCHANGED <<deficient_desc, flow_pool_size>>  BY DEF identity
    <3>3. /\ Outstanding(q) = {e \in Descs : poolOf[e] = q /\ Out(e)}
          /\ Outstanding(q)' = {e \in Descs : poolOf[e] = q /\ Out(e)'}
      BY <1>6 DEF Outstanding, Out, Carrying
    <3>4. CASE q # p
      <4>1. Outstanding(q)' = Outstanding(q)
        BY <1>6, <3>3, <3>4
      <4> QED  BY <1>1, <3>1, <3>2, <3>4, <4>1
    <3>5. CASE q = p
      <4>1. Outstanding(q)' = Outstanding(q) \cup {d} /\ d \notin Outstanding(q)
        BY <1>0, <1>6, <3>3, <3>5
      <4>2. /\ IsFiniteSet(Outstanding(q)) /\ IsFiniteSet(freelist[q])
        BY OutstandingIs
      <4>3. /\ Cardinality(Outstanding(q)) \in Nat
            /\ Cardinality(Outstanding(q)') = Cardinality(Outstanding(q)) + 1
        BY <4>1, <4>2, OneMore
      <4>4. /\ Cardinality(freelist[q]) \in Nat
            /\ Cardinality(freelist'[q]) = Cardinality(freelist[q]) - 1
        <5>1. freelist'[q] = freelist[q] \ {d} /\ d \in freelist[q]  BY <1>1, <3>5
        <5> QED  BY <4>2, <5>1, OneMore
      <4>5. deficient_desc[q] \in Nat  BY DEF TypeOK
      <4> QED  BY <3>1, <3>2, <4>3, <4>4, <4>5
    <3> QED  BY <3>4, <3>5
  <2> QED  BY <2>1 DEF SizesAddUp
<1> QED  BY <1>2, <1>3, <1>5, <1>8, <1>9, <1>10, <1>11, <1>12, <1>13, <1>14, <1>15

\* ol_tx_desc_alloc takes a descriptor, or returns with none.
LEMMA DescAllocStep ==
  ASSUME PoolInv, NEW t \in Threads, ol_tx_desc_alloc(t)
  PROVE  PoolInv'
<1>1. /\ pc[t] = "alloc" /\ Runs(t) /\ UNCHANGED <<lists, identity, deficient_desc, poolOf, netif>>
  BY DEF ol_tx_desc_alloc
<1>2. t \in Senders /\ pool[t] \in Pools /\ status[pool[t]] \in Active
  BY <1>1, AllocActive
<1>3. CASE Return(t) /\ UNCHANGED <<status, freelist, held>>
  <2>1. /\ pc' = [pc EXCEPT ![t] = "idle"]
        /\ UNCHANGED <<lists, status, flow_pool_id, flow_pool_size, deficient_desc, freelist,
                       poolOf, inflight, held>>
        /\ UNCHANGED <<vdevPool, member_flow_id, stop_th, start_th>>
    BY <1>1, <1>3 DEF Return, Goto, identity, thresholds, netif
  <2>2. /\ pool' \in [Threads -> Pools \cup {NoPool}] /\ flow' \in [Threads -> Flows \cup {NoFlow}]
        /\ \A u \in Threads : u # t => pool'[u] = pool[u] /\ flow'[u] = flow[u]
        /\ stopped' \subseteq Flows
    BY <1>1, <1>3 DEF Return, PoolInv, TypeOK, netif
  <2>3. PICK l \in {"idle", "send"} : l = "idle"
    OBVIOUS
  <2> QED  BY <1>1, <1>2, <2>1, <2>2, <2>3, QuietSender
<1>4. ASSUME NEW d \in freelist[pool[t]],
             freelist' = [freelist EXCEPT ![pool[t]] = @ \ {d}],
             held' = [held EXCEPT ![t] = {d}],
             IF BelowStop(pool[t])
             THEN status' = [status EXCEPT ![pool[t]] = "paused"] /\ Goto(t, "pause")
             ELSE UNCHANGED status /\ Goto(t, "send"),
             UNCHANGED <<pool, flow>>
      PROVE  PoolInv'
  <2>1. PICK p \in Pools : p = pool[t]  BY <1>2
  <2>2. CASE BelowStop(pool[t])
    <3>1. PICK l \in {"pause", "send"}, s \in Active : l = "pause" /\ s = "paused"
      BY DEF Active
    <3>2. pc' = [pc EXCEPT ![t] = l] /\ status' = [status EXCEPT ![p] = s]
      BY <1>4, <2>1, <2>2, <3>1 DEF Goto
    <3> QED  BY <1>1, <1>4, <2>1, <3>2, TakeStep
  <2>3. CASE ~BelowStop(pool[t])
    <3>1. PICK l \in {"pause", "send"}, s \in Active : l = "send" /\ s = status[p]
      BY <1>2, <2>1
    <3>2. pc' = [pc EXCEPT ![t] = l] /\ status' = [status EXCEPT ![p] = s]
      BY <1>4, <2>1, <2>3, <3>1 DEF Goto, PoolInv, TypeOK
    <3> QED  BY <1>1, <1>4, <2>1, <3>2, TakeStep
  <2> QED  BY <2>2, <2>3
<1> QED  BY <1>3, <1>4 DEF ol_tx_desc_alloc

-----------------------------------------------------------------------------
(* A frame on its way *)

\* Steps that hand descriptors that are out from one to another.
LEMMA HandStep ==
  ASSUME PoolInv, NEW t \in Threads, NEW l \in {"idle", "free"}, Runs(t),
         pc[t] \in {"idle", "send"}, pc' = [pc EXCEPT ![t] = l],
         t \in Senders => (l = "free" => OneCpu),
         pc[t] = "idle" => t = Htt,
         NEW h \in SUBSET Descs, held' = [held EXCEPT ![t] = h],
         l = "free" => \E d \in Descs : h = {d},
         l = "idle" => h = {},
         inflight' \subseteq Descs, inflight' \cap h = {}, inflight' \cup h = inflight \cup held[t],
         UNCHANGED <<lists, pools, vdevPool, stopped>>,
         pool' \in [Threads -> Pools \cup {NoPool}], flow' \in [Threads -> Flows \cup {NoFlow}],
         \A u \in Threads : u # t => pool'[u] = pool[u] /\ flow'[u] = flow[u]
  PROVE  PoolInv'
<1> USE DEF PoolInv
<1>0. /\ Htt \in Threads /\ Senders \subseteq Threads /\ (t \in Senders \/ t = Htt)
      /\ UNCHANGED <<globalFree, flow_pool_list, num_invalid_bin, status, flow_pool_id,
                     flow_pool_size, member_flow_id, stop_th, start_th, deficient_desc, freelist,
                     poolOf>>
  BY DEF Threads, lists, pools, identity, thresholds
<1>1. /\ pc'[t] = l /\ held'[t] = h
      /\ \A u \in Threads : u # t => pc'[u] = pc[u] /\ held'[u] = held[u]
  BY DEF TypeOK
<1>2. TypeOK'
  BY <1>0 DEF TypeOK, Pcs
<1>3. AloneOK'
  BY <1>0, AloneStep DEF Pcs, MapPcs, Work
<1>4. HeldOK'
  BY <1>1 DEF HeldOK, Carrying
<1>5. \A d \in Descs : Out(d)' <=> Out(d)
  <2> SUFFICES ASSUME NEW d \in Descs PROVE Out(d)' <=> Out(d)
    OBVIOUS
  <2>1. pc[t] = "idle" => held[t] = {}  BY DEF HeldOK, Carrying
  <2>2. Out(d) <=> \/ d \in inflight \cup held[t]
                   \/ \E u \in Threads : u # t /\ d \in held[u] /\ pc[u] \in Carrying
    BY <2>1 DEF Out, Carrying
  <2>3. Out(d)' <=> \/ d \in inflight' \cup h
                    \/ \E u \in Threads : u # t /\ d \in held[u] /\ pc[u] \in Carrying
    BY <1>1 DEF Out, Carrying
  <2> QED  BY <2>2, <2>3
<1>6. OwnOK'
  BY <1>0, <1>5 DEF OwnOK
<1>7. ListOK'
  <2>1. \A p \in Pools : Removed(p)' <=> Removed(p)
    BY <1>1 DEF Removed, OffList
  <2> QED  BY <1>0, <2>1 DEF ListOK, Listed
<1>8. IdOK'
  BY <1>0 DEF IdOK
<1>9. WorkOK'
  <2>1. WorkAt(t)'
    BY <1>1 DEF WorkAt, Work, MapPcs
  <2>2. UNCHANGED <<status, flow_pool_id, deficient_desc, vdevPool, poolOf>>
    BY <1>0
  <2> QED  BY <1>1, <1>5, <2>1, <2>2, WorkRest
<1>10. AllocOK'
  <2> SUFFICES ASSUME NEW u \in Senders
               PROVE  /\ pc'[u] \in {"alloc", "pause"} => flow'[u] \in Vdevs
                      /\ pc'[u] = "alloc" =>
                           \/ MgmtDescs # {} /\ pool'[u] = MgmtPool
                           \/ /\ pool'[u] # NoPool /\ vdevPool'[flow'[u]] = pool'[u]
                              /\ ~(pc'[Htt] = "unmap" /\ flow'[Htt] = flow'[u])
    BY DEF AllocOK
  <2>1. CASE u = t  BY <1>1, <2>1
  <2>2. CASE u # t
    <3>1. pc'[Htt] = "unmap" => pc[Htt] = "unmap" /\ flow'[Htt] = flow[Htt]
      BY <1>0, <1>1
    <3> QED  BY <1>0, <1>1, <2>2, <3>1 DEF AllocOK
  <2> QED  BY <2>1, <2>2
<1>11. CountOK'
  <2>1. Counted' = Counted
    BY <1>0, <1>1 DEF Counted, OffList
  <2> QED  BY <1>0, <2>1 DEF CountOK
<1>12. Kept'
  BY <1>0, <1>1 DEF Kept
<1>13. Once'
  <2>1. \A d \in Descs : d \in inflight' \/ d \in h => d \in inflight \/ d \in held[t]
    OBVIOUS
  <2>2. ASSUME NEW d \in Descs, d \in inflight \/ d \in held[t]
        PROVE  /\ d \notin globalFree /\ \A p \in Pools : d \notin freelist[p]
               /\ \A u \in Threads : u # t => d \notin held[u]
    BY <2>2 DEF Once
  <2> QED  BY <1>0, <1>1, <2>1, <2>2 DEF Once
<1>14. SizesAddUp'
  <2>1. \A p \in Pools : Outstanding(p)' = Outstanding(p)
    <3> SUFFICES ASSUME NEW p \in Pools PROVE Outstanding(p)' = Outstanding(p)
      OBVIOUS
    <3>1. Outstanding(p) = {d \in Descs : poolOf[d] = p /\ Out(d)}
      BY DEF Outstanding, Out, Carrying
    <3>2. Outstanding(p)' = {d \in Descs : poolOf[d] = p /\ Out(d)'}
      BY <1>0 DEF Outstanding, Out, Carrying
    <3> QED  BY <1>5, <3>1, <3>2
  <2>2. \A p \in Pools : (\A u \in Threads : pc'[u] = "shrink" => pool'[u] # p)
                            => (\A u \in Threads : pc[u] = "shrink" => pool[u] # p)
    BY <1>1
  <2> QED  BY <1>0, <2>1, <2>2 DEF SizesAddUp
<1> QED  BY <1>2, <1>3, <1>4, <1>6, <1>7, <1>8, <1>9, <1>10, <1>11, <1>12, <1>13, <1>14

\* Send gives the descriptor to the target or keeps it to free it.
LEMMA SendStep ==
  ASSUME PoolInv, Serialized, NEW t \in Threads, Send(t)
  PROVE  PoolInv'
<1> USE DEF PoolInv
<1>1. /\ pc[t] = "send" /\ Runs(t) /\ UNCHANGED <<lists, pools, vdevPool, stopped>>
  BY DEF Send
<1>2. \E d \in Descs : held[t] = {d}
  BY <1>1 DEF HeldOK, Carrying
<1>3. held[t] \subseteq Descs /\ inflight \subseteq Descs
  BY DEF TypeOK
<1>4. CASE inflight' = inflight \cup held[t] /\ held' = [held EXCEPT ![t] = {}] /\ Return(t)
  <2>1. /\ pc' = [pc EXCEPT ![t] = "idle"]
        /\ pool' \in [Threads -> Pools \cup {NoPool}] /\ flow' \in [Threads -> Flows \cup {NoFlow}]
        /\ \A u \in Threads : u # t => pool'[u] = pool[u] /\ flow'[u] = flow[u]
    BY <1>4 DEF Return, Goto, TypeOK
  <2>2. PICK l \in {"idle", "free"}, h \in SUBSET Descs : l = "idle" /\ h = {}
    OBVIOUS
  <2> QED  BY <1>1, <1>3, <1>4, <2>1, <2>2, HandStep
<1>5. CASE SendMayFail /\ Goto(t, "free") /\ UNCHANGED <<inflight, locals>>
  <2>1. /\ pc' = [pc EXCEPT ![t] = "free"] /\ held' = [held EXCEPT ![t] = held[t]]
        /\ pool' \in [Threads -> Pools \cup {NoPool}] /\ flow' \in [Threads -> Flows \cup {NoFlow}]
        /\ \A u \in Threads : u # t => pool'[u] = pool[u] /\ flow'[u] = flow[u]
    BY <1>5 DEF Goto, locals, TypeOK
  <2>2. PICK l \in {"idle", "free"}, h \in SUBSET Descs : l = "free" /\ h = held[t]
    BY <1>3
  <2>3. inflight' = inflight /\ inflight \cap held[t] = {} /\ OneCpu
    BY <1>3, <1>5 DEF Serialized, Once
  <2> QED  BY <1>1, <1>2, <1>3, <2>1, <2>2, <2>3, HandStep
<1> QED  BY <1>4, <1>5 DEF Send

\* A completion takes over the descriptor of the frame.
LEMMA CompletionStep ==
  ASSUME PoolInv, NEW d \in Descs, ol_tx_completion_handler(d)
  PROVE  PoolInv'
<1> USE DEF PoolInv
<1>1. /\ pc[Htt] = "idle" /\ Runs(Htt) /\ d \in inflight /\ inflight' = inflight \ {d}
      /\ held' = [held EXCEPT ![Htt] = {d}] /\ pc' = [pc EXCEPT ![Htt] = "free"]
      /\ UNCHANGED <<lists, pools, vdevPool, stopped>> /\ UNCHANGED <<pool, flow>>
  BY DEF ol_tx_completion_handler, Goto
<1>2. Htt \in Threads /\ Htt \notin Senders
  BY PoolAssumption DEF Threads
<1>3. held[Htt] = {}
  BY <1>1, <1>2 DEF HeldOK, Carrying
<1>4. PICK l \in {"idle", "free"}, h \in SUBSET Descs : l = "free" /\ h = {d}
  OBVIOUS
<1>5. /\ pool' \in [Threads -> Pools \cup {NoPool}] /\ flow' \in [Threads -> Flows \cup {NoFlow}]
      /\ inflight' \subseteq Descs
  BY <1>1 DEF TypeOK
<1>6. inflight' \cap h = {} /\ inflight' \cup h = inflight \cup held[Htt]
  BY <1>1, <1>3, <1>4
<1>7. /\ pc' = [pc EXCEPT ![Htt] = l] /\ held' = [held EXCEPT ![Htt] = h]
      /\ (l = "free" => \E e \in Descs : h = {e}) /\ (l = "idle" => h = {})
  BY <1>1, <1>4
<1> QED  BY <1>1, <1>2, <1>5, <1>6, <1>7, HandStep

\* A descriptor goes back to the pool it came from.
LEMMA PutStep ==
  ASSUME PoolInv, NEW t \in Threads, pc[t] = "free", Runs(t), NEW d \in Descs, held[t] = {d},
         NEW p \in Pools, p = poolOf[d],
         freelist' = [freelist EXCEPT ![p] = @ \cup {d}],
         held' = [held EXCEPT ![t] = {}],
         NEW l \in {"idle", "distribute"}, pc' = [pc EXCEPT ![t] = l],
         NEW s \in Active \cup {"invalid", "none"}, status' = [status EXCEPT ![p] = s],
         s = status[p] \/ (s \in Active /\ status[p] \in Active),
         l = "distribute" => /\ status[p] = "invalid" /\ pool'[t] = p
                             /\ Cardinality(freelist[p]) + 1 = flow_pool_size[p],
         pool' \in [Threads -> Pools \cup {NoPool}], flow' \in [Threads -> Flows \cup {NoFlow}],
         \A u \in Threads : u # t => pool'[u] = pool[u] /\ flow'[u] = flow[u],
         stopped' \subseteq Flows,
         UNCHANGED <<lists, identity, deficient_desc, poolOf, vdevPool, inflight>>
  PROVE  PoolInv'
<1> USE DEF PoolInv
<1>0. /\ Htt \in Threads /\ Senders \subseteq Threads /\ (t \in Senders \/ t = Htt)
      /\ UNCHANGED <<globalFree, flow_pool_list, num_invalid_bin, flow_pool_id,
                     flow_pool_size, member_flow_id, stop_th, start_th>>
      /\ d \in Descs /\ Out(d) /\ p \in Pools /\ status[p] # "none"
  <2>1. d \in Descs /\ Out(d)
    BY DEF HeldOK, Carrying, Out, TypeOK
  <2> QED  BY <2>1 DEF Threads, lists, identity, thresholds, OwnOK
<1>1. /\ pc'[t] = l /\ held'[t] = {} /\ freelist'[p] = freelist[p] \cup {d} /\ status'[p] = s
      /\ \A u \in Threads : u # t => pc'[u] = pc[u] /\ held'[u] = held[u]
      /\ \A q \in Pools : q # p => freelist'[q] = freelist[q] /\ status'[q] = status[q]
  BY <1>0 DEF TypeOK
<1>2. TypeOK'
  BY <1>0 DEF TypeOK, Pcs, Active
<1>3. AloneOK'
  <2>1. t \in Senders => OneCpu
    BY DEF AloneOK, Work, Pcs
  <2> QED  BY <1>0, <2>1, AloneStep DEF Pcs, MapPcs, Work
<1>4. HeldOK'
  BY <1>1 DEF HeldOK, Carrying
<1>5. \A q \in Pools : /\ (status'[q] = "none" <=> status[q] = "none")
                       /\ (status'[q] = "invalid" <=> status[q] = "invalid")
                       /\ (status'[q] \in Active <=> status[q] \in Active)
  BY <1>0, <1>1 DEF Active
<1>6. /\ \A e \in Descs : Out(e)' <=> Out(e) /\ e # d
      /\ d \notin freelist[p]
  <2>1. d \notin inflight /\ \A u \in Threads : u # t => d \notin held[u]
    BY <1>0 DEF Once
  <2>2. \A e \in Descs : Out(e)' <=> Out(e) /\ e # d
    BY <1>1, <2>1 DEF Out, Carrying
  <2> QED  BY <1>0, <2>2 DEF Once
<1>7. OwnOK'
  <2>1. \A q \in Pools : \A e \in freelist'[q] : poolOf'[e] = q
    BY <1>1 DEF OwnOK
  <2>2. \A e \in Descs : Out(e)' => poolOf'[e] \in Pools /\ status'[poolOf'[e]] # "none"
    BY <1>5, <1>6 DEF OwnOK
  <2>3. \A q \in Pools : status'[q] = "none" => freelist'[q] = {}
    BY <1>0, <1>1, <1>5 DEF OwnOK
  <2> QED  BY <2>1, <2>2, <2>3 DEF OwnOK
<1>8. ListOK'
  <2>1. \A q \in Pools : Removed(q)' <=> Removed(q)
    BY <1>1 DEF Removed, OffList
  <2> QED  BY <1>0, <1>5, <2>1 DEF ListOK, Listed
<1>9. IdOK'
  <2>1. UNCHANGED <<flow_pool_id, vdevPool>> /\ MgmtPool \in Pools
        /\ \A v \in Vdevs : vdevPool[v] # NoPool => vdevPool[v] \in Pools
    BY <1>0, PoolAssumption DEF TypeOK
  <2> QED  BY <1>5, <2>1 DEF IdOK
<1>10. CountOK'
  <2>1. Counted' = Counted
    BY <1>1, <1>5 DEF Counted, OffList
  <2> QED  BY <1>0, <2>1 DEF CountOK
<1>11. AllocOK'
  <2> SUFFICES ASSUME NEW u \in Senders
               PROVE  /\ pc'[u] \in {"alloc", "pause"} => flow'[u] \in Vdevs
                      /\ pc'[u] = "alloc" =>
                           \/ MgmtDescs # {} /\ pool'[u] = MgmtPool
                           \/ /\ pool'[u] # NoPool /\ vdevPool'[flow'[u]] = pool'[u]
                              /\ ~(pc'[Htt] = "unmap" /\ flow'[Htt] = flow'[u])
    BY DEF AllocOK
  <2>1. CASE u = t  BY <1>1, <2>1
  <2>2. CASE u # t
    <3>1. pc'[Htt] = "unmap" => pc[Htt] = "unmap" /\ flow'[Htt] = flow[Htt]
      BY <1>0, <1>1
    <3> QED  BY <1>0, <1>1, <2>2, <3>1 DEF AllocOK
  <2> QED  BY <2>1, <2>2
<1>12. Kept' /\ Once'
  <2>1. Kept'  BY <1>0, <1>1 DEF Kept
  <2>2. Once'  BY <1>0, <1>1 DEF Once
  <2> QED  BY <2>1, <2>2
<1>13. ASSUME NEW q \in Pools
       PROVE  /\ Outstanding(q) = {e \in Descs : poolOf[e] = q /\ Out(e)}
              /\ Outstanding(q)' = {e \in Descs : poolOf[e] = q /\ Out(e)'}
  BY DEF Outstanding, Out, Carrying
<1>14. ASSUME NEW q \in Pools, q = p
       PROVE  /\ Cardinality(Outstanding(q)) \in Nat
              /\ Cardinality(Outstanding(q)') = Cardinality(Outstanding(q)) - 1
              /\ Cardinality(freelist[q]) \in Nat
              /\ Cardinality(freelist'[q]) = Cardinality(freelist[q]) + 1
  <2>1. d \in Outstanding(q) /\ Outstanding(q)' = Outstanding(q) \ {d}
    BY <1>0, <1>6, <1>13, <1>14
  <2>2. IsFiniteSet(Outstanding(q)) /\ IsFiniteSet(freelist[q])  BY OutstandingIs
  <2>3. freelist'[q] = freelist[q] \cup {d} /\ d \notin freelist[q]  BY <1>1, <1>6, <1>14
  <2>4. /\ Cardinality(Outstanding(q)) \in Nat
        /\ Cardinality(Outstanding(q)') = Cardinality(Outstanding(q)) - 1
    <3>1. PICK S : S = Outstanding(q)  OBVIOUS
    <3>2. /\ Cardinality(S) \in Nat /\ Cardinality(S \ {d}) = Cardinality(S) - 1
      BY <2>1, <2>2, <3>1, OneMore
    <3> QED  BY <2>1, <3>1, <3>2
  <2>5. /\ Cardinality(freelist[q]) \in Nat
        /\ Cardinality(freelist'[q]) = Cardinality(freelist[q]) + 1
    <3>1. PICK S : S = freelist[q]  OBVIOUS
    <3>2. /\ Cardinality(S) \in Nat /\ Cardinality(S \cup {d}) = Cardinality(S) + 1
      BY <2>2, <2>3, <3>1, OneMore
    <3> QED  BY <2>3, <3>1, <3>2
  <2> QED  BY <2>4, <2>5
<1>16. \A u \in Threads : u # t => pc[u] \notin Work
  BY OneWorks DEF Work, Pcs
<1>17. ASSUME NEW q \in Pools, status[q] # "none"
       PROVE  Cardinality(freelist[q]) + Cardinality(Outstanding(q)) + deficient_desc[q]
                = flow_pool_size[q]
  <2>1. \A u \in Threads : pc[u] # "shrink"
    BY <1>16 DEF Work, Pcs
  <2> QED  BY <1>17, <2>1 DEF SizesAddUp
<1>18. SizesAddUp'
  <2>1. ASSUME NEW q \in Pools, status'[q] # "none"
        PROVE  Cardinality(freelist'[q]) + Cardinality(Outstanding(q)') + deficient_desc'[q]
                 = flow_pool_size'[q]
    <3>1. Cardinality(freelist[q]) + Cardinality(Outstanding(q)) + deficient_desc[q]
            = flow_pool_size[q]
      BY <1>5, <1>17, <2>1
    <3>2. deficient_desc'[q] = deficient_desc[q] /\ flow_pool_size'[q] = flow_pool_size[q]
          /\ deficient_desc[q] \in Nat
      BY <1>0 DEF TypeOK
    <3>3. CASE q # p
      <4>1. \A e \in Descs : poolOf[e] = q => (Out(e)' <=> Out(e))
        BY <1>6, <3>3
      <4>2. Outstanding(q)' = Outstanding(q)
        BY <1>13, <4>1
      <4> QED  BY <1>1, <3>1, <3>2, <3>3, <4>2
    <3>4. CASE q = p
      <4>1. /\ Cardinality(Outstanding(q)) \in Nat
            /\ Cardinality(Outstanding(q)') = Cardinality(Outstanding(q)) - 1
            /\ Cardinality(freelist[q]) \in Nat
            /\ Cardinality(freelist'[q]) = Cardinality(freelist[q]) + 1
        BY <1>14, <3>4
      <4> QED  BY <3>1, <3>2, <4>1
    <3> QED  BY <3>3, <3>4
  <2> QED  BY <2>1 DEF SizesAddUp
<1>19. WorkOK'
  <2>1. CASE l = "idle"
    <3>1. WorkAt(t)'  BY <1>1, <2>1 DEF WorkAt, Work, MapPcs
    <3> QED  BY <1>1, <1>16, <3>1, WorkAlone
  <2>2. CASE l = "distribute"
    <3>1. PICK q \in Pools : q = p  BY <1>0
    <3>2. Outstanding(q)' \subseteq Descs  BY <1>13
    <3>3. IsFiniteSet(Outstanding(q)') /\ Cardinality(Outstanding(q)') \in Nat
      BY <3>2, FS_Subset, FS_CardinalityType, PoolAssumption
    <3>4. deficient_desc[q] = 0 /\ Cardinality(Outstanding(q)') = 0
      <4>1. deficient_desc[q] \in Nat  BY DEF TypeOK
      <4>2. Cardinality(freelist[q]) + Cardinality(Outstanding(q)) + deficient_desc[q]
              = flow_pool_size[q]
        BY <1>0, <1>17, <3>1
      <4>3. /\ Cardinality(Outstanding(q)) \in Nat
            /\ Cardinality(Outstanding(q)') = Cardinality(Outstanding(q)) - 1
            /\ Cardinality(freelist[q]) \in Nat
        BY <1>14, <3>1
      <4>4. Cardinality(freelist[q]) + 1 = flow_pool_size[q]  BY <2>2, <3>1
      <4> QED  BY <3>3, <4>1, <4>2, <4>3, <4>4
    <3>5. Outstanding(q)' = {}
      BY <3>3, <3>4, FS_EmptySet
    <3>6. \A e \in Descs : Out(e)' => poolOf[e] # p
      BY <1>13, <3>1, <3>5
    <3>7. Whole(p)'
      BY <3>1, <3>4, <3>6 DEF Whole
    <3>8. WorkAt(t)'
      BY <1>0, <1>1, <1>5, <2>2, <3>7 DEF WorkAt, Work, MapPcs
    <3> QED  BY <1>1, <1>16, <3>8, WorkAlone
  <2> QED  BY <2>1, <2>2
<1> QED  BY <1>2, <1>3, <1>4, <1>7, <1>8, <1>9, <1>10, <1>11, <1>12, <1>18, <1>19

\* ol_tx_desc_free puts a descriptor back; the last one of an invalid pool starts
\* its deletion.
LEMMA DescFreeStep ==
  ASSUME PoolInv, NEW t \in Threads, ol_tx_desc_free(t)
  PROVE  PoolInv'
<1> USE DEF PoolInv
<1>1. /\ pc[t] = "free" /\ Runs(t) /\ held' = [held EXCEPT ![t] = {}]
      /\ UNCHANGED <<lists, identity, deficient_desc, poolOf, vdevPool, inflight>>
  BY DEF ol_tx_desc_free
<1>2. PICK d \in held[t] :
        /\ freelist' = [freelist EXCEPT ![poolOf[d]] = @ \cup {d}]
        /\ \/ /\ status[poolOf[d]] = "paused" /\ AboveStart(poolOf[d])
              /\ status' = [status EXCEPT ![poolOf[d]] = "unpaused"]
              /\ stopped' = stopped \ {member_flow_id[poolOf[d]]}
              /\ Return(t)
           \/ /\ status[poolOf[d]] = "invalid" /\ AllBack(poolOf[d])
              /\ pool' = [pool EXCEPT ![t] = poolOf[d]]
              /\ Goto(t, "distribute")
              /\ UNCHANGED <<status, stopped, flow>>
           \/ Return(t) /\ UNCHANGED <<status, stopped>>
  BY DEF ol_tx_desc_free
<1>3. held[t] = {d} /\ d \in Descs
  BY <1>1, <1>2 DEF HeldOK, Carrying
<1>4. PICK p : p = poolOf[d]
  OBVIOUS
<1>5. p \in Pools
  BY <1>1, <1>3, <1>4 DEF OwnOK, Out, Carrying
<1>6. Return(t) => /\ pc' = [pc EXCEPT ![t] = "idle"]
                   /\ pool' \in [Threads -> Pools \cup {NoPool}]
                   /\ flow' \in [Threads -> Flows \cup {NoFlow}]
                   /\ \A u \in Threads : u # t => pool'[u] = pool[u] /\ flow'[u] = flow[u]
  BY DEF Return, Goto, TypeOK
<1>7. CASE /\ status[p] = "paused" /\ status' = [status EXCEPT ![p] = "unpaused"]
           /\ stopped' = stopped \ {member_flow_id[p]} /\ Return(t)
  <2>1. PICK l \in {"idle", "distribute"} : l = "idle"
    OBVIOUS
  <2>4. PICK s \in Active \cup {"invalid", "none"} : s = "unpaused"
    BY DEF Active
  <2>2. status[p] \in Active /\ stopped' \subseteq Flows  BY <1>7 DEF Active, TypeOK
  <2>3. /\ freelist' = [freelist EXCEPT ![p] = @ \cup {d}] /\ pc' = [pc EXCEPT ![t] = l]
        /\ status' = [status EXCEPT ![p] = s]
    BY <1>2, <1>4, <1>6, <1>7, <2>1, <2>4
  <2>5. s \in Active  BY <2>4 DEF Active
  <2>6. /\ (l = "distribute" => /\ status[p] = "invalid" /\ pool'[t] = p
                                 /\ Cardinality(freelist[p]) + 1 = flow_pool_size[p])
        /\ (s = status[p] \/ (s \in Active /\ status[p] \in Active))
    BY <2>1, <2>2, <2>5
  <2>7. /\ pool' \in [Threads -> Pools \cup {NoPool}] /\ flow' \in [Threads -> Flows \cup {NoFlow}]
        /\ \A u \in Threads : u # t => pool'[u] = pool[u] /\ flow'[u] = flow[u]
    BY <1>6, <1>7
  <2> QED  BY <1>1, <1>3, <1>4, <1>5, <2>2, <2>3, <2>6, <2>7, PutStep, Zenon
<1>8. CASE /\ status[p] = "invalid" /\ AllBack(p) /\ pool' = [pool EXCEPT ![t] = p]
           /\ Goto(t, "distribute") /\ UNCHANGED <<status, stopped, flow>>
  <2>1. PICK l \in {"idle", "distribute"} : l = "distribute"
    OBVIOUS
  <2>4. PICK s \in Active \cup {"invalid", "none"} : s = status[p]
    BY <1>5 DEF TypeOK
  <2>2. /\ freelist' = [freelist EXCEPT ![p] = @ \cup {d}] /\ pc' = [pc EXCEPT ![t] = l]
        /\ status' = [status EXCEPT ![p] = s] /\ stopped' \subseteq Flows
        /\ pool' \in [Threads -> Pools \cup {NoPool}] /\ flow' \in [Threads -> Flows \cup {NoFlow}]
        /\ \A u \in Threads : u # t => pool'[u] = pool[u] /\ flow'[u] = flow[u]
        /\ pool'[t] = p
    BY <1>2, <1>4, <1>5, <1>8, <2>1, <2>4 DEF Goto, TypeOK
  <2>3. Cardinality(freelist[p]) + 1 = flow_pool_size[p]
    BY <1>8 DEF AllBack
  <2>6. /\ (l = "distribute" => /\ status[p] = "invalid" /\ pool'[t] = p
                                 /\ Cardinality(freelist[p]) + 1 = flow_pool_size[p])
        /\ (s = status[p] \/ (s \in Active /\ status[p] \in Active))
    BY <1>8, <2>2, <2>3, <2>4
  <2> QED  BY <1>1, <1>3, <1>4, <1>5, <2>2, <2>6, PutStep, Zenon
<1>9. CASE Return(t) /\ UNCHANGED <<status, stopped>>
  <2>1. PICK l \in {"idle", "distribute"} : l = "idle"
    OBVIOUS
  <2>4. PICK s \in Active \cup {"invalid", "none"} : s = status[p]
    BY <1>5 DEF TypeOK
  <2>2. /\ freelist' = [freelist EXCEPT ![p] = @ \cup {d}] /\ pc' = [pc EXCEPT ![t] = l]
        /\ status' = [status EXCEPT ![p] = s] /\ stopped' \subseteq Flows
    BY <1>2, <1>4, <1>6, <1>9, <2>1, <2>4 DEF TypeOK
  <2>6. /\ (l = "distribute" => /\ status[p] = "invalid" /\ pool'[t] = p
                                 /\ Cardinality(freelist[p]) + 1 = flow_pool_size[p])
        /\ (s = status[p] \/ (s \in Active /\ status[p] \in Active))
    BY <2>1, <2>4
  <2>7. /\ pool' \in [Threads -> Pools \cup {NoPool}] /\ flow' \in [Threads -> Flows \cup {NoFlow}]
        /\ \A u \in Threads : u # t => pool'[u] = pool[u] /\ flow'[u] = flow[u]
    BY <1>6, <1>9
  <2> QED  BY <1>1, <1>3, <1>4, <1>5, <2>2, <2>6, <2>7, PutStep, Zenon
<1> QED  BY <1>2, <1>4, <1>7, <1>8, <1>9

-----------------------------------------------------------------------------
(* An invalid pool gives its descriptors away and is deleted *)

\* What pool q gets from pool p.
Given(p, to, q) == {d \in freelist[p] : to[d] # 0 /\ Target(p, to, d) = q}

\* A pool on the list gets no more than it lacks, any other pool nothing.
LEMMA GivenFits ==
  ASSUME PoolInv, NEW p \in Pools, NEW to \in [freelist[p] -> 0..Len(flow_pool_list)],
         Greedy(p, to)
  PROVE  /\ \A d \in freelist[p] : to[d] # 0 => /\ Target(p, to, d) \in Pools
                                                /\ status[Target(p, to, d)] # "none"
         /\ \A q \in Pools : /\ IsFiniteSet(Given(p, to, q))
                             /\ Cardinality(Given(p, to, q)) \in 0..deficient_desc[q]
<1> USE DEF PoolInv
<1>1. ASSUME NEW d \in freelist[p], to[d] # 0
      PROVE  /\ to[d] \in 1..Len(flow_pool_list) /\ Target(p, to, d) = flow_pool_list[to[d]]
             /\ Target(p, to, d) \in Pools /\ status[Target(p, to, d)] # "none"
  <2>1. to[d] \in 1..Len(flow_pool_list) /\ flow_pool_list[to[d]] \in Pools
    <3>1. PICK n \in Nat : n = Len(flow_pool_list)  BY DEF TypeOK
    <3>2. to[d] \in 0..n  BY <3>1
    <3>3. to[d] \in 1..n  BY <1>1, <3>2
    <3>4. flow_pool_list \in Seq(Pools)  BY DEF TypeOK
    <3> QED  BY <3>1, <3>3, <3>4
  <2>2. Listed(flow_pool_list[to[d]])  BY <2>1 DEF Listed
  <2> QED  BY <1>1, <2>1, <2>2 DEF Target, ListOK
<1>2. ASSUME NEW q \in Pools
      PROVE  /\ IsFiniteSet(Given(p, to, q))
             /\ Cardinality(Given(p, to, q)) \in 0..deficient_desc[q]
  <2>1. IsFiniteSet(Given(p, to, q)) /\ Cardinality(Given(p, to, q)) \in Nat
    <3>1. Given(p, to, q) \subseteq Descs  BY DEF Given, TypeOK
    <3> QED  BY <3>1, FS_Subset, FS_CardinalityType, PoolAssumption
  <2>2. deficient_desc[q] \in Nat  BY DEF TypeOK
  <2>3. CASE Given(p, to, q) = {}
    BY <2>1, <2>2, <2>3, FS_EmptySet
  <2>4. CASE Given(p, to, q) # {}
    <3>1. PICK d \in Given(p, to, q) : TRUE  BY <2>4
    <3>2. PICK i \in 1..Len(flow_pool_list) : i = to[d] /\ flow_pool_list[i] = q
      BY <1>1, <3>1 DEF Given
    <3>3. Given(p, to, q) = To(p, to, i)
      <4>1. ASSUME NEW e \in freelist[p], to[e] # 0, Target(p, to, e) = q PROVE to[e] = i
        BY <1>1, <3>2, <4>1 DEF ListOK
      <4>2. ASSUME NEW e \in freelist[p], to[e] = i PROVE to[e] # 0 /\ Target(p, to, e) = q
        BY <3>2, <4>2 DEF Target
      <4> QED  BY <4>1, <4>2 DEF Given, To
    <3>4. Cardinality(To(p, to, i)) <= deficient_desc[flow_pool_list[i]]
      BY DEF Greedy
    <3> QED  BY <2>1, <2>2, <3>2, <3>3, <3>4
  <2> QED  BY <2>3, <2>4
<1> QED  BY <1>1, <1>2

\* ol_tx_distribute_descs_to_deficient_pools moves the descriptors of a pool of
\* which none is out.
LEMMA DistributeStep ==
  ASSUME PoolInv, NEW t \in Threads, ol_tx_distribute_descs_to_deficient_pools(t)
  PROVE  PoolInv'
<1> USE DEF PoolInv
<1>1. /\ pc[t] = "distribute" /\ Runs(t) /\ pc' = [pc EXCEPT ![t] = "shrink"]
      /\ UNCHANGED <<globalFree, flow_pool_list, num_invalid_bin>>
      /\ UNCHANGED <<status, flow_pool_id, flow_pool_size, member_flow_id, stop_th, start_th>>
      /\ UNCHANGED <<vdevPool, stopped, inflight, pool, flow, held>>
  BY DEF ol_tx_distribute_descs_to_deficient_pools, Goto, lists, identity, thresholds, netif,
         locals
<1>2. PICK p \in Pools : p = pool[t] /\ status[p] = "invalid" /\ Whole(p)
  BY <1>1 DEF WorkOK, WorkAt, Work, Pcs
<1>3. PICK to \in [freelist[p] -> 0..Len(flow_pool_list)] :
        /\ Greedy(p, to)
        /\ freelist' = [q \in Pools |->
              {d \in freelist[p] : Target(p, to, d) = q}
              \cup (IF q = p THEN {} ELSE freelist[q])]
        /\ deficient_desc' = [q \in Pools |-> Gap(q, Cardinality(Given(p, to, q)))]
        /\ poolOf' = [d \in Descs |-> IF d \in freelist[p] THEN Target(p, to, d) ELSE poolOf[d]]
  BY <1>2 DEF ol_tx_distribute_descs_to_deficient_pools, Given
<1>4. /\ \A d \in freelist[p] : to[d] # 0 => /\ Target(p, to, d) \in Pools
                                             /\ status[Target(p, to, d)] # "none"
      /\ \A q \in Pools : /\ IsFiniteSet(Given(p, to, q))
                          /\ Cardinality(Given(p, to, q)) \in 0..deficient_desc[q]
  BY <1>3, GivenFits
<1>5. \A d \in freelist[p] : /\ Target(p, to, d) \in Pools
                             /\ status[Target(p, to, d)] # "none"
  BY <1>2, <1>4 DEF Target
<1>6. \A q \in Pools : q # p => freelist'[q] = freelist[q] \cup Given(p, to, q)
  BY <1>3 DEF Given, Target
<1>7. /\ pc'[t] = "shrink" /\ \A u \in Threads : u # t => pc'[u] = pc[u]
      /\ pool'[t] = p
  BY <1>1, <1>2 DEF TypeOK
<1>8. \A q \in Pools : /\ deficient_desc[q] \in Nat
                       /\ deficient_desc'[q] = deficient_desc[q] - Cardinality(Given(p, to, q))
                       /\ deficient_desc'[q] \in Nat
  BY <1>3, <1>4 DEF Gap, TypeOK
<1>9. TypeOK'
  <2>1. freelist' \in [Pools -> SUBSET Descs]  BY <1>3 DEF TypeOK
  <2>2. poolOf' \in [Descs -> Pools \cup {NoPool}]  BY <1>3, <1>5 DEF TypeOK
  <2>3. deficient_desc' \in [Pools -> Nat]  BY <1>3, <1>8
  <2>4. pc' \in [Threads -> Pcs]  BY <1>1 DEF TypeOK, Pcs
  <2> QED  BY <1>1, <2>1, <2>2, <2>3, <2>4 DEF TypeOK
<1>10. AloneOK'
  <2>1. t \in Senders => OneCpu
    BY <1>1 DEF AloneOK, Work, Pcs
  <2> QED  BY <1>1, <2>1, AloneStep DEF Pcs, MapPcs
<1>11. HeldOK'
  BY <1>1, <1>7 DEF HeldOK, Carrying
<1>12. \A d \in Descs : Out(d)' <=> Out(d)
  BY <1>1, <1>7 DEF Out, Carrying
<1>13. \A d \in Descs : Out(d) => \A q \in Pools : d \notin freelist[q]
  BY DEF Out, Once
<1>14. \A d \in Descs : d \notin freelist[p] => poolOf'[d] = poolOf[d]
  BY <1>3
<1>15. OwnOK'
  <2>1. ASSUME NEW q \in Pools, NEW d \in freelist'[q] PROVE poolOf'[d] = q
    <3>1. CASE d \in freelist[p]
      <4>1. d \in Descs /\ poolOf'[d] = Target(p, to, d)  BY <1>3, <3>1 DEF TypeOK
      <4>2. q # p => d \notin freelist[q]  BY <3>1, <4>1 DEF Once
      <4> QED  BY <1>3, <4>1, <4>2
    <3>2. CASE d \notin freelist[p]
      <4>1. d \in freelist[q] /\ d \in Descs  BY <1>3, <3>2 DEF TypeOK
      <4> QED  BY <1>14, <3>2, <4>1 DEF OwnOK
    <3> QED  BY <3>1, <3>2
  <2>2. \A d \in Descs : Out(d)' => poolOf'[d] \in Pools /\ status'[poolOf'[d]] # "none"
    BY <1>1, <1>2, <1>12, <1>13, <1>14 DEF OwnOK
  <2>3. \A q \in Pools : status'[q] = "none" => freelist'[q] = {}
    BY <1>1, <1>2, <1>3, <1>5 DEF OwnOK
  <2> QED  BY <2>1, <2>2, <2>3 DEF OwnOK
<1>16. ListOK'
  <2>1. \A q \in Pools : Removed(q)' <=> Removed(q)
    BY <1>1, <1>7 DEF Removed, OffList
  <2> QED  BY <1>1, <2>1 DEF ListOK, Listed
<1>17. IdOK'
  BY <1>1 DEF IdOK
<1>18. CountOK'
  <2>1. Counted' = Counted
    BY <1>1, <1>7 DEF Counted, OffList
  <2> QED  BY <1>1, <2>1 DEF CountOK
<1>19. AllocOK'
  <2>1. Htt \in Threads /\ Senders \subseteq Threads  BY DEF Threads
  <2>2. pc'[Htt] = "unmap" => pc[Htt] = "unmap"  BY <1>7, <2>1
  <2>3. \A u \in Senders : pc'[u] \in {"alloc", "pause"} => pc'[u] = pc[u]
    BY <1>7, <2>1
  <2> QED  BY <1>1, <2>2, <2>3 DEF AllocOK
<1>20. Kept'
  <2>1. ASSUME NEW d \in Descs, NEW q \in Pools, d \in freelist[q]
        PROVE  \E r \in Pools : d \in freelist'[r]
    <3>1. CASE q = p  BY <1>3, <1>5, <2>1, <3>1
    <3>2. CASE q # p  BY <1>6, <2>1, <3>2
    <3> QED  BY <3>1, <3>2
  <2> QED  BY <1>1, <2>1 DEF Kept
<1>21. Once'
  <2>1. ASSUME NEW d \in Descs, NEW q \in Pools, d \in freelist'[q]
        PROVE  /\ \E r \in Pools : d \in freelist[r]
               /\ q = poolOf'[d]
    BY <1>3, <1>15, <2>1 DEF OwnOK
  <2> QED  BY <1>1, <2>1 DEF Once
<1>22. SizesAddUp'
  <2>1. ASSUME NEW q \in Pools, status'[q] # "none",
               \A u \in Threads : pc'[u] = "shrink" => pool'[u] # q
        PROVE  Cardinality(freelist'[q]) + Cardinality(Outstanding(q)') + deficient_desc'[q]
                 = flow_pool_size'[q]
    <3>1. q # p  BY <1>7, <2>1
    <3>2. Cardinality(freelist[q]) + Cardinality(Outstanding(q)) + deficient_desc[q]
            = flow_pool_size[q]
      <4>1. \A u \in Threads : pc[u] = "shrink" => pool[u] # q
        BY <1>1, <1>7, <2>1
      <4> QED  BY <1>1, <2>1, <4>1 DEF SizesAddUp
    <3>3. Outstanding(q)' = Outstanding(q)
      <4>1. Outstanding(q) = {d \in Descs : poolOf[d] = q /\ Out(d)}
        BY DEF Outstanding, Out, Carrying
      <4>2. Outstanding(q)' = {d \in Descs : poolOf'[d] = q /\ Out(d)'}
        BY DEF Outstanding, Out, Carrying
      <4> QED  BY <1>12, <1>13, <1>14, <4>1, <4>2
    <3>4. Cardinality(freelist'[q]) = Cardinality(freelist[q]) + Cardinality(Given(p, to, q))
      <4>1. freelist[q] \cap Given(p, to, q) = {}
        <5>1. freelist[p] \subseteq Descs  BY DEF TypeOK
        <5> QED  BY <3>1, <5>1 DEF Given, Once
      <4>2. PICK F, G : F = freelist[q] /\ G = Given(p, to, q)  OBVIOUS
      <4>3. IsFiniteSet(F) /\ IsFiniteSet(G)  BY <1>4, <4>2, OutstandingIs
      <4>4. Cardinality(F \cup G) = Cardinality(F) + Cardinality(G) - Cardinality(F \cap G)
        BY <4>3, FS_Union
      <4>5. Cardinality(F \cap G) = 0  BY <4>1, <4>2, FS_EmptySet
      <4>6. Cardinality(F) \in Nat /\ Cardinality(G) \in Nat  BY <4>3, FS_CardinalityType
      <4>7. freelist'[q] = F \cup G  BY <1>6, <3>1, <4>2
      <4> QED  BY <4>2, <4>4, <4>5, <4>6, <4>7
    <3>5. Cardinality(freelist[q]) \in Nat /\ Cardinality(Outstanding(q)) \in Nat
          /\ Cardinality(Given(p, to, q)) \in Nat
      BY <1>4, OutstandingIs, FS_CardinalityType
    <3> QED  BY <1>1, <1>8, <3>2, <3>3, <3>4, <3>5
  <2> QED  BY <2>1 DEF SizesAddUp
<1>23. WorkOK'
  <2>1. \A u \in Threads : u # t => pc'[u] = pc[u] /\ pc[u] \notin Work
    BY <1>1, <1>7, OneWorks DEF Work, Pcs
  <2>2. Whole(p)'
    <3>1. deficient_desc'[p] = 0
      <4>1. deficient_desc[p] = 0  BY <1>2 DEF Whole
      <4>2. Cardinality(Given(p, to, p)) \in 0..0  BY <1>4, <4>1
      <4> QED  BY <1>8, <4>1, <4>2
    <3>2. \A d \in Descs : Out(d)' => poolOf'[d] # p
      BY <1>2, <1>12, <1>13, <1>14 DEF Whole
    <3> QED  BY <3>1, <3>2 DEF Whole
  <2>3. WorkAt(t)'
    BY <1>1, <1>2, <1>7, <2>2 DEF WorkAt, Work, MapPcs
  <2> QED  BY <2>1, <2>3, WorkAlone
<1> QED  BY <1>9, <1>10, <1>11, <1>15, <1>16, <1>17, <1>18, <1>19, <1>20, <1>21, <1>22, <1>23

\* A step of a context at work that leaves descriptors, status and devices alone.
LEMMA StillStep ==
  ASSUME PoolInv, NEW t \in Threads, NEW l \in {"remove", "retire", "give"},
         pc[t] \in {"shrink", "remove", "enlist"}, Runs(t), pc' = [pc EXCEPT ![t] = l],
         pc[t] = "enlist" <=> l = "give",
         UNCHANGED <<globalFree, status, flow_pool_id, deficient_desc, freelist, poolOf, netif,
                     pool, flow, held>>
  PROVE  /\ AloneOK' /\ HeldOK' /\ OwnOK' /\ IdOK' /\ AllocOK' /\ Kept' /\ Once'
         /\ \A d \in Descs : Out(d)' <=> Out(d)
         /\ pc'[t] = l /\ \A u \in Threads : u # t => pc'[u] = pc[u] /\ pc[u] \notin Work
<1> USE DEF PoolInv
<1>1. pc'[t] = l /\ \A u \in Threads : u # t => pc'[u] = pc[u] /\ pc[u] \notin Work
  BY OneWorks DEF TypeOK, Work, Pcs
<1>2. AloneOK'
  <2>1. t \in Senders => OneCpu
    BY DEF AloneOK, Work, Pcs
  <2> QED  BY <2>1, AloneStep DEF Pcs, MapPcs
<1>3. HeldOK'
  BY <1>1 DEF HeldOK, Carrying
<1>4. \A d \in Descs : Out(d)' <=> Out(d)
  BY <1>1 DEF Out, Carrying, netif
<1>5. OwnOK'
  BY <1>4 DEF OwnOK
<1>6. IdOK' /\ Kept' /\ Once'
  BY DEF IdOK, Kept, Once, netif
<1>7. AllocOK'
  <2>1. Htt \in Threads /\ Senders \subseteq Threads  BY DEF Threads
  <2>2. pc'[Htt] = "unmap" => pc[Htt] = "unmap"  BY <1>1, <2>1
  <2>3. \A u \in Senders : pc'[u] \in {"alloc", "pause"} => pc'[u] = pc[u]
    BY <1>1, <2>1
  <2> QED  BY <2>2, <2>3 DEF AllocOK, netif
<1> QED  BY <1>1, <1>2, <1>3, <1>4, <1>5, <1>6, <1>7

\* ol_tx_free_invalid_flow_pool: the size of the pool is what it has left.
LEMMA ShrinkStep ==
  ASSUME PoolInv, NEW t \in Threads, ol_tx_free_invalid_flow_pool(t)
  PROVE  PoolInv'
<1> USE DEF PoolInv
<1>1. /\ pc[t] = "shrink" /\ Runs(t) /\ pc' = [pc EXCEPT ![t] = "remove"]
      /\ flow_pool_size' = [flow_pool_size EXCEPT ![pool[t]] = Cardinality(freelist[pool[t]])]
      /\ num_invalid_bin' = num_invalid_bin - 1
      /\ UNCHANGED <<globalFree, status, flow_pool_id, deficient_desc, freelist, poolOf, netif,
                     pool, flow, held>>
      /\ UNCHANGED <<flow_pool_list, member_flow_id, stop_th, start_th>>
  BY DEF ol_tx_free_invalid_flow_pool, Goto, thresholds, locals
<1>2. PICK p \in Pools : p = pool[t] /\ status[p] = "invalid" /\ Whole(p)
  BY <1>1 DEF WorkOK, WorkAt, Work, Pcs
<1>3. PICK l \in {"remove", "retire", "give"} : l = "remove"
  OBVIOUS
<1>4. /\ AloneOK' /\ HeldOK' /\ OwnOK' /\ IdOK' /\ AllocOK' /\ Kept' /\ Once'
      /\ \A d \in Descs : Out(d)' <=> Out(d)
      /\ pc'[t] = l /\ \A u \in Threads : u # t => pc'[u] = pc[u] /\ pc[u] \notin Work
  BY <1>1, <1>3, StillStep
<1>5. /\ p \in Counted /\ Counted' = Counted \ {p}
  <2>1. \A u \in Threads : u # t => pc[u] \notin OffList \cup {"remove"}
    BY <1>4 DEF OffList, Work, Pcs
  <2>2. p \in Counted
    BY <1>1, <1>2, <2>1 DEF Counted, OffList
  <2> QED  BY <1>1, <1>2, <1>3, <1>4, <2>1, <2>2 DEF Counted, OffList
<1>6. CountOK' /\ num_invalid_bin' \in Nat
  <2>1. PICK S : S = Counted  OBVIOUS
  <2>2. /\ Cardinality(S) \in Nat /\ IsFiniteSet(S \ {p})
        /\ Cardinality(S \ {p}) = Cardinality(S) - 1
    BY <1>5, <2>1, OneMore DEF CountOK
  <2>3. Cardinality(S \ {p}) \in Nat  BY <2>2, FS_CardinalityType
  <2> QED  BY <1>1, <1>5, <2>1, <2>2, <2>3 DEF CountOK
<1>7. TypeOK'
  <2>1. Cardinality(freelist[pool[t]]) \in Nat  BY <1>2, OutstandingIs
  <2> QED  BY <1>1, <1>6, <2>1 DEF TypeOK, Pcs, netif
<1>8. ListOK'
  <2>1. \A q \in Pools : Removed(q)' <=> Removed(q)
    BY <1>1, <1>3, <1>4 DEF Removed, OffList
  <2> QED  BY <1>1, <2>1 DEF ListOK, Listed
<1>9. WorkOK'
  <2>1. Whole(p)'  BY <1>1, <1>2, <1>4 DEF Whole
  <2>2. \A v \in Vdevs : vdevPool'[v] # p
    BY <1>1, <1>2, PoolAssumption DEF IdOK, Active, netif
  <2>3. WorkAt(t)'
    BY <1>1, <1>2, <1>3, <1>4, <2>1, <2>2 DEF WorkAt, Work, MapPcs
  <2> QED  BY <1>4, <2>3, WorkAlone
<1>10. SizesAddUp'
  <2>1. ASSUME NEW q \in Pools, status'[q] # "none"
        PROVE  Cardinality(freelist'[q]) + Cardinality(Outstanding(q)') + deficient_desc'[q]
                 = flow_pool_size'[q]
    <3>1. Outstanding(q)' = Outstanding(q)
      <4>1. Outstanding(q) = {d \in Descs : poolOf[d] = q /\ Out(d)}
        BY DEF Outstanding, Out, Carrying
      <4>2. Outstanding(q)' = {d \in Descs : poolOf'[d] = q /\ Out(d)'}
        BY DEF Outstanding, Out, Carrying
      <4> QED  BY <1>1, <1>4, <4>1, <4>2
    <3>2. CASE q # p
      <4>1. \A u \in Threads : pc[u] = "shrink" => pool[u] # q
        BY <1>2, <1>4, <3>2 DEF Work, Pcs
      <4>2. Cardinality(freelist[q]) + Cardinality(Outstanding(q)) + deficient_desc[q]
              = flow_pool_size[q]
        BY <1>1, <2>1, <4>1 DEF SizesAddUp
      <4>3. flow_pool_size'[q] = flow_pool_size[q]  BY <1>1, <1>2, <3>2 DEF TypeOK
      <4> QED  BY <1>1, <3>1, <4>2, <4>3
    <3>3. CASE q = p
      <4>1. Outstanding(q) = {}
        BY <1>2, <3>3 DEF Outstanding, Out, Carrying, Whole
      <4>2. Cardinality(Outstanding(q)) = 0 /\ deficient_desc[q] = 0
        BY <1>2, <3>3, <4>1, FS_EmptySet DEF Whole
      <4>3. Cardinality(freelist[q]) \in Nat  BY OutstandingIs
      <4>4. flow_pool_size'[q] = Cardinality(freelist[q])  BY <1>1, <1>2, <3>3 DEF TypeOK
      <4> QED  BY <1>1, <3>1, <4>2, <4>3, <4>4
    <3> QED  BY <3>2, <3>3
  <2> QED  BY <2>1 DEF SizesAddUp
<1> QED  BY <1>4, <1>6, <1>7, <1>8, <1>9, <1>10

\* What a concatenation holds.
LEMMA ConcatIs ==
  ASSUME NEW a \in Seq(Pools), NEW b \in Seq(Pools)
  PROVE  /\ a \o b \in Seq(Pools) /\ Len(a \o b) = Len(a) + Len(b)
         /\ \A i \in 1..(Len(a) + Len(b)) :
               (a \o b)[i] = IF i <= Len(a) THEN a[i] ELSE b[i - Len(a)]
<1>1. a \o b \in Seq(Pools) /\ Len(a \o b) = Len(a) + Len(b)  OBVIOUS
<1>2. \A i \in 1..(Len(a) + Len(b)) :
         (a \o b)[i] = IF i <= Len(a) THEN a[i] ELSE b[i - Len(a)]
  OBVIOUS
<1> QED  BY <1>1, <1>2

\* What taking a pool off the list does.
LEMMA WithoutList ==
  ASSUME NEW s \in Seq(Pools), NEW p \in Pools,
         \A i, j \in 1..Len(s) : s[i] = s[j] => i = j
  PROVE  /\ Without(s, p) \in Seq(Pools)
         /\ \A i, j \in 1..Len(Without(s, p)) : Without(s, p)[i] = Without(s, p)[j] => i = j
         /\ \A q \in Pools : (\E i \in 1..Len(Without(s, p)) : Without(s, p)[i] = q)
                                <=> q # p /\ \E i \in 1..Len(s) : s[i] = q
<1>1. CASE ~\E i \in 1..Len(s) : s[i] = p
  BY <1>1 DEF Without
<1>2. CASE \E i \in 1..Len(s) : s[i] = p
  <2> DEFINE k == CHOOSE j \in 1..Len(s) : s[j] = p
             a == SubSeq(s, 1, k - 1)
             b == SubSeq(s, k + 1, Len(s))
             r == Without(s, p)
  <2>1. k \in 1..Len(s) /\ s[k] = p
    BY <1>2
  <2>2. r = a \o b
    BY <1>2 DEF Without
  <2> HIDE DEF k, r
  <2>3. /\ a \in Seq(Pools) /\ Len(a) = k - 1 /\ \A i \in 1..(k - 1) : a[i] = s[i]
        /\ b \in Seq(Pools) /\ Len(b) = Len(s) - k
        /\ \A i \in 1..(Len(s) - k) : b[i] = s[k + i]
    BY <2>1
  <2> HIDE DEF a, b
  <2>4. /\ r \in Seq(Pools) /\ Len(r) = Len(s) - 1
        /\ \A i \in 1..Len(r) : r[i] = IF i <= Len(a) THEN a[i] ELSE b[i - Len(a)]
    <3>1. /\ a \o b \in Seq(Pools) /\ Len(a \o b) = Len(a) + Len(b)
          /\ \A i \in 1..(Len(a) + Len(b)) :
                (a \o b)[i] = IF i <= Len(a) THEN a[i] ELSE b[i - Len(a)]
      BY <2>3, ConcatIs
    <3>2. Len(a) + Len(b) = Len(s) - 1  BY <2>1, <2>3
    <3> QED  BY <2>2, <3>1, <3>2
  <2>5. \A i \in 1..Len(r) : r[i] = IF i < k THEN s[i] ELSE s[i + 1]
    <3> SUFFICES ASSUME NEW i \in 1..Len(r) PROVE r[i] = IF i < k THEN s[i] ELSE s[i + 1]
      OBVIOUS
    <3>1. CASE i < k  BY <2>1, <2>3, <2>4, <3>1
    <3>2. CASE ~(i < k)
      <4>1. i - (k - 1) \in 1..(Len(s) - k) /\ k + (i - (k - 1)) = i + 1
        BY <2>1, <2>4, <3>2
      <4>2. r[i] = b[i - (k - 1)]
        <5>1. ~(i <= Len(a)) /\ Len(a) = k - 1  BY <2>1, <2>3, <2>4, <3>2
        <5> QED  BY <2>4, <5>1
      <4> QED  BY <2>3, <3>2, <4>1, <4>2
    <3> QED  BY <3>1, <3>2
  <2>6. \A i, j \in 1..Len(r) : r[i] = r[j] => i = j
    BY <2>1, <2>4, <2>5
  <2>7. ASSUME NEW q \in Pools
        PROVE  (\E i \in 1..Len(r) : r[i] = q) <=> q # p /\ \E i \in 1..Len(s) : s[i] = q
    <3>1. ASSUME NEW i \in 1..Len(r), r[i] = q PROVE q # p /\ \E j \in 1..Len(s) : s[j] = q
      <4>1. PICK j \in 1..Len(s) : s[j] = q /\ j # k
        <5>1. CASE i < k  BY <2>1, <2>4, <2>5, <3>1, <5>1
        <5>2. CASE ~(i < k)
          <6>1. i + 1 \in 1..Len(s) /\ i + 1 # k  BY <2>1, <2>4, <5>2
          <6> QED  BY <2>5, <3>1, <5>2, <6>1
        <5> QED  BY <5>1, <5>2
      <4> QED  BY <2>1, <4>1
    <3>2. ASSUME q # p, NEW j \in 1..Len(s), s[j] = q PROVE \E i \in 1..Len(r) : r[i] = q
      <4>1. CASE j < k
        <5>1. j \in 1..Len(r) /\ r[j] = q  BY <2>1, <2>4, <2>5, <3>2, <4>1
        <5> QED  BY <5>1
      <4>2. CASE j > k
        <5>1. j - 1 \in 1..Len(r) /\ ~(j - 1 < k) /\ (j - 1) + 1 = j  BY <2>1, <2>4, <4>2
        <5>2. r[j - 1] = q  BY <2>5, <3>2, <5>1
        <5> QED  BY <5>1, <5>2
      <4> QED  BY <2>1, <3>2, <4>1, <4>2
    <3> QED  BY <3>1, <3>2
  <2> QED  BY <2>4, <2>6, <2>7 DEF r
<1> QED  BY <1>1, <1>2

\* What putting a pool at the end of the list does.
LEMMA AppendList ==
  ASSUME NEW s \in Seq(Pools), NEW p \in Pools,
         \A i, j \in 1..Len(s) : s[i] = s[j] => i = j,
         \A i \in 1..Len(s) : s[i] # p
  PROVE  /\ Append(s, p) \in Seq(Pools)
         /\ \A i, j \in 1..Len(Append(s, p)) : Append(s, p)[i] = Append(s, p)[j] => i = j
         /\ \A q \in Pools : (\E i \in 1..Len(Append(s, p)) : Append(s, p)[i] = q)
                                <=> q = p \/ \E i \in 1..Len(s) : s[i] = q
<1> DEFINE r == Append(s, p)
<1>1. /\ r \in Seq(Pools) /\ Len(s) \in Nat /\ Len(r) = Len(s) + 1 /\ r[Len(s) + 1] = p
      /\ \A i \in 1..Len(s) : r[i] = s[i]
  OBVIOUS
<1> HIDE DEF r
<1>2. \A i \in 1..Len(r) : i \in 1..Len(s) \/ i = Len(s) + 1
  BY <1>1
<1>3. \A i, j \in 1..Len(r) : r[i] = r[j] => i = j
  BY <1>1, <1>2
<1>4. \A q \in Pools : (\E i \in 1..Len(r) : r[i] = q) <=> q = p \/ \E i \in 1..Len(s) : s[i] = q
  BY <1>1, <1>2
<1> QED  BY <1>1, <1>3, <1>4 DEF r

\* The list with one more pool.
LEMMA ListAppended ==
  ASSUME TypeOK, ListOK, NEW p \in Pools, ~Listed(p),
         flow_pool_list' = Append(flow_pool_list, p)
  PROVE  /\ flow_pool_list' \in Seq(Pools)
         /\ \A i, j \in 1..Len(flow_pool_list') : flow_pool_list'[i] = flow_pool_list'[j] => i = j
         /\ \A q \in Pools : Listed(q)' <=> q = p \/ Listed(q)
<1>1. PICK s \in Seq(Pools) : s = flow_pool_list  BY DEF TypeOK
<1>2. \A i, j \in 1..Len(s) : s[i] = s[j] => i = j  BY <1>1 DEF ListOK
<1>3. \A i \in 1..Len(s) : s[i] # p  BY <1>1 DEF Listed
<1>4. PICK r : r = Append(s, p)  OBVIOUS
<1>5. /\ r \in Seq(Pools) /\ \A i, j \in 1..Len(r) : r[i] = r[j] => i = j
      /\ \A q \in Pools : (\E i \in 1..Len(r) : r[i] = q)
                             <=> q = p \/ \E i \in 1..Len(s) : s[i] = q
  <2>1. /\ Append(s, p) \in Seq(Pools)
        /\ \A i, j \in 1..Len(Append(s, p)) : Append(s, p)[i] = Append(s, p)[j] => i = j
        /\ \A q \in Pools : (\E i \in 1..Len(Append(s, p)) : Append(s, p)[i] = q)
                               <=> q = p \/ \E i \in 1..Len(s) : s[i] = q
    BY <1>2, <1>3, AppendList, Zenon
  <2> QED  BY <1>4, <2>1, Zenon
<1>6. r = flow_pool_list'  BY <1>1, <1>4
<1>7. \A q \in Pools : (Listed(q)' <=> \E i \in 1..Len(r) : r[i] = q)
                        /\ (Listed(q) <=> \E i \in 1..Len(s) : s[i] = q)
  BY <1>1, <1>6 DEF Listed
<1>8. \A q \in Pools : Listed(q)' <=> q = p \/ Listed(q)
  BY <1>5, <1>7, Zenon
<1>9. /\ flow_pool_list' \in Seq(Pools)
      /\ \A i, j \in 1..Len(flow_pool_list') : flow_pool_list'[i] = flow_pool_list'[j] => i = j
  BY <1>5, <1>6
<1> QED  BY <1>8, <1>9

\* Removing the pool from the list.
LEMMA RemoveStep ==
  ASSUME PoolInv, NEW t \in Threads, RemoveFromList(t)
  PROVE  PoolInv'
<1> USE DEF PoolInv
<1>1. /\ pc[t] = "remove" /\ Runs(t) /\ pc' = [pc EXCEPT ![t] = "retire"]
      /\ flow_pool_list' = Without(flow_pool_list, pool[t])
      /\ UNCHANGED <<globalFree, status, flow_pool_id, deficient_desc, freelist, poolOf, netif,
                     pool, flow, held>>
      /\ UNCHANGED <<flow_pool_size, num_invalid_bin, member_flow_id, stop_th, start_th>>
  BY DEF RemoveFromList, Goto, pools, identity, thresholds, locals
<1>2. PICK p \in Pools : p = pool[t] /\ status[p] # "none"
  BY <1>1 DEF WorkOK, WorkAt, Work, Pcs
<1>3. PICK l \in {"remove", "retire", "give"} : l = "retire"
  OBVIOUS
<1>4. /\ AloneOK' /\ HeldOK' /\ OwnOK' /\ IdOK' /\ AllocOK' /\ Kept' /\ Once'
      /\ \A d \in Descs : Out(d)' <=> Out(d)
      /\ pc'[t] = l /\ \A u \in Threads : u # t => pc'[u] = pc[u] /\ pc[u] \notin Work
  BY <1>1, <1>3, StillStep
<1>5. /\ flow_pool_list' \in Seq(Pools)
      /\ \A i, j \in 1..Len(flow_pool_list') : flow_pool_list'[i] = flow_pool_list'[j] => i = j
      /\ \A q \in Pools : Listed(q)' <=> q # p /\ Listed(q)
  <2>1. flow_pool_list \in Seq(Pools)  BY DEF TypeOK
  <2>2. flow_pool_list' = Without(flow_pool_list, p)  BY <1>1, <1>2
  <2>3. PICK s \in Seq(Pools) : s = flow_pool_list  BY <2>1
  <2>4. \A i, j \in 1..Len(s) : s[i] = s[j] => i = j  BY <2>3 DEF ListOK
  <2>5. PICK r : r = Without(s, p)  OBVIOUS
  <2>6. /\ r \in Seq(Pools) /\ \A i, j \in 1..Len(r) : r[i] = r[j] => i = j
        /\ \A q \in Pools : (\E i \in 1..Len(r) : r[i] = q)
                               <=> q # p /\ \E i \in 1..Len(s) : s[i] = q
    <3>1. /\ Without(s, p) \in Seq(Pools)
          /\ \A i, j \in 1..Len(Without(s, p)) : Without(s, p)[i] = Without(s, p)[j] => i = j
          /\ \A q \in Pools : (\E i \in 1..Len(Without(s, p)) : Without(s, p)[i] = q)
                                 <=> q # p /\ \E i \in 1..Len(s) : s[i] = q
      BY <2>4, WithoutList, Zenon
    <3> QED  BY <2>5, <3>1
  <2>7. r = flow_pool_list'  BY <2>2, <2>3, <2>5
  <2> QED  BY <2>3, <2>6, <2>7 DEF Listed
<1>6. CountOK'
  <2>1. Counted' = Counted
    BY <1>1, <1>3, <1>4 DEF Counted, OffList
  <2> QED  BY <1>1, <2>1 DEF CountOK
<1>7. TypeOK'
  BY <1>1, <1>5 DEF TypeOK, Pcs, netif
<1>8. ListOK'
  <2>1. \A u \in Threads : u # t => pc[u] \notin OffList /\ pc'[u] \notin OffList
    BY <1>4 DEF OffList, Work, Pcs
  <2>2. \A q \in Pools : ~Removed(q) /\ (Removed(q)' <=> q = p)
    BY <1>1, <1>2, <1>3, <1>4, <2>1 DEF Removed, OffList
  <2> QED  BY <1>1, <1>5, <2>2 DEF ListOK
<1>9. WorkOK'
  <2>1. Whole(p)' <=> Whole(p)  BY <1>1, <1>4 DEF Whole
  <2>2. WorkAt(t)  BY DEF WorkOK
  <2>3. WorkAt(t)'
    BY <1>1, <1>2, <1>3, <1>4, <2>1, <2>2 DEF WorkAt, Work, MapPcs, netif
  <2> QED  BY <1>4, <2>3, WorkAlone
<1>10. SizesAddUp'
  <2>1. \A q \in Pools : Outstanding(q)' = Outstanding(q)
    BY <1>1, <1>3, <1>4 DEF Outstanding, netif
  <2>2. \A u \in Threads : pc[u] # "shrink"
    BY <1>1, <1>4 DEF Work, Pcs
  <2> QED  BY <1>1, <2>1, <2>2 DEF SizesAddUp
<1> QED  BY <1>4, <1>6, <1>7, <1>8, <1>9, <1>10

\* Retiring a pool: it is freed if all its descriptors are there, else invalid.
LEMMA RetireStep ==
  ASSUME PoolInv, NEW t \in Threads, RetirePool(t)
  PROVE  PoolInv'
<1> USE DEF PoolInv
<1>1. /\ pc[t] = "retire" /\ Runs(t) /\ held' = [held EXCEPT ![t] = freelist[pool[t]]]
      /\ freelist' = [freelist EXCEPT ![pool[t]] = {}]
      /\ UNCHANGED <<globalFree, flow_pool_list, num_invalid_bin, deficient_desc, member_flow_id,
                     stop_th, start_th, poolOf, vdevPool, stopped, inflight, pool, flow>>
  BY DEF RetirePool, Left, lists, thresholds, netif
<1>2. PICK p \in Pools : p = pool[t] /\ status[p] # "none"
  BY <1>1 DEF WorkOK, WorkAt, Work, Pcs
<1>3. /\ \A u \in Threads : u # t => pc[u] \notin Work
      /\ \A u \in Threads : pc[u] # "shrink"
      /\ Cardinality(freelist[p]) + Cardinality(Outstanding(p)) + deficient_desc[p]
           = flow_pool_size[p]
      /\ Cardinality(freelist[p]) \in Nat /\ Cardinality(Outstanding(p)) \in Nat
      /\ deficient_desc[p] \in Nat /\ IsFiniteSet(Outstanding(p))
  <2>1. \A u \in Threads : u # t => pc[u] \notin Work
    BY <1>1, OneWorks DEF Work, Pcs
  <2>2. \A u \in Threads : pc[u] # "shrink"
    BY <1>1, <2>1 DEF Work, Pcs
  <2> QED  BY <1>2, <2>1, <2>2, OutstandingIs DEF SizesAddUp, TypeOK
<1>4. PICK l \in {"give", "enlist"}, s \in {"none", "invalid"},
           f \in Flows \cup {NoFlow, InvalidFlow}, n \in Nat :
        /\ pc' = [pc EXCEPT ![t] = l] /\ status' = [status EXCEPT ![p] = s]
        /\ flow_pool_id' = [flow_pool_id EXCEPT ![p] = f]
        /\ flow_pool_size' = [flow_pool_size EXCEPT ![p] = n]
        /\ (s = "none" <=> l = "give")
        /\ (s = "none" => Outstanding(p) = {})
        /\ s = "invalid" => /\ f = InvalidFlow
                            /\ Cardinality(Outstanding(p)) + deficient_desc[p] = n
                            /\ status[p] # "invalid"
  <2>1. CASE Complete(p)
    <3>1. Cardinality(Outstanding(p)) = 0  BY <1>3, <2>1 DEF Complete
    <3>2. Outstanding(p) = {}  BY <1>3, <3>1, FS_EmptySet
    <3>3. /\ status' = [status EXCEPT ![p] = "none"] /\ pc' = [pc EXCEPT ![t] = "give"]
          /\ UNCHANGED <<flow_pool_id, flow_pool_size>>
      BY <1>2, <2>1 DEF RetirePool, Goto
    <3>4. /\ flow_pool_id' = [flow_pool_id EXCEPT ![p] = flow_pool_id[p]]
          /\ flow_pool_size' = [flow_pool_size EXCEPT ![p] = flow_pool_size[p]]
          /\ flow_pool_size[p] \in Nat /\ flow_pool_id[p] \in Flows \cup {NoFlow, InvalidFlow}
      BY <3>3 DEF TypeOK
    <3> QED  BY <3>2, <3>3, <3>4
  <2>2. CASE ~Complete(p)
    <3>1. /\ status' = [status EXCEPT ![p] = "invalid"] /\ pc' = [pc EXCEPT ![t] = "enlist"]
          /\ flow_pool_size' = [flow_pool_size EXCEPT ![p] = @ - Cardinality(freelist[p])]
          /\ flow_pool_id' = [flow_pool_id EXCEPT ![p] = InvalidFlow]
      BY <1>2, <2>2 DEF RetirePool, Goto
    <3>2. PICK n : n = flow_pool_size[p] - Cardinality(freelist[p])  OBVIOUS
    <3>3. n \in Nat /\ Cardinality(Outstanding(p)) + deficient_desc[p] = n
      BY <1>3, <3>2
    <3>4. status[p] # "invalid"
      <4>1. SUFFICES ASSUME status[p] = "invalid" PROVE Complete(p)
        BY <2>2
      <4>2. Whole(p)  BY <1>1, <1>2, <4>1 DEF WorkOK, WorkAt
      <4>3. Outstanding(p) = {} /\ deficient_desc[p] = 0
        BY <4>2 DEF Whole, Outstanding, Out, Carrying
      <4>4. Cardinality(Outstanding(p)) = 0  BY <4>3, FS_EmptySet
      <4> QED  BY <1>3, <4>3, <4>4 DEF Complete
    <3>5. flow_pool_size' = [flow_pool_size EXCEPT ![p] = n]  BY <3>1, <3>2
    <3> QED  BY <3>1, <3>3, <3>4, <3>5
  <2> QED  BY <2>1, <2>2
<1>5. /\ pc'[t] = l /\ held'[t] = freelist[p] /\ freelist'[p] = {} /\ status'[p] = s
      /\ flow_pool_id'[p] = f /\ flow_pool_size'[p] = n /\ pool'[t] = p
      /\ \A u \in Threads : u # t => pc'[u] = pc[u] /\ held'[u] = held[u]
      /\ \A q \in Pools : q # p => /\ freelist'[q] = freelist[q] /\ status'[q] = status[q]
                                   /\ flow_pool_id'[q] = flow_pool_id[q]
                                   /\ flow_pool_size'[q] = flow_pool_size[q]
  BY <1>1, <1>2, <1>4 DEF TypeOK
<1>6. TypeOK'
  <2>1. freelist[p] \subseteq Descs  BY DEF TypeOK
  <2> QED  BY <1>1, <1>2, <1>4, <2>1 DEF TypeOK, Pcs
<1>7. AloneOK'
  <2>1. t \in Senders => OneCpu
    BY <1>1 DEF AloneOK, Work, Pcs
  <2> QED  BY <1>1, <1>4, <2>1, AloneStep DEF Pcs, MapPcs
<1>8. HeldOK' /\ held[t] = {}
  BY <1>1, <1>5 DEF HeldOK, Carrying
<1>9. \A d \in Descs : Out(d)' <=> Out(d)
  BY <1>1, <1>5 DEF Out, Carrying
<1>10. \A q \in Pools : Outstanding(q)' = Outstanding(q)
  <2> SUFFICES ASSUME NEW q \in Pools PROVE Outstanding(q)' = Outstanding(q)
    OBVIOUS
  <2>1. Outstanding(q) = {d \in Descs : poolOf[d] = q /\ Out(d)}
    BY DEF Outstanding, Out, Carrying
  <2>2. Outstanding(q)' = {d \in Descs : poolOf'[d] = q /\ Out(d)'}
    BY DEF Outstanding, Out, Carrying
  <2> QED  BY <1>1, <1>9, <2>1, <2>2
<1>11. OwnOK'
  <2>1. \A q \in Pools : \A d \in freelist'[q] : poolOf'[d] = q
    BY <1>1, <1>5 DEF OwnOK
  <2>2. ASSUME NEW d \in Descs, Out(d)' PROVE poolOf'[d] \in Pools /\ status'[poolOf'[d]] # "none"
    <3>1. Out(d) /\ poolOf[d] \in Pools /\ status[poolOf[d]] # "none"
      BY <1>9, <2>2 DEF OwnOK
    <3>2. poolOf[d] = p => s # "none"
      <4>1. poolOf[d] = p => d \in Outstanding(p)
        BY <3>1 DEF Outstanding, Out, Carrying
      <4> QED  BY <1>4, <4>1
    <3> QED  BY <1>1, <1>5, <3>1, <3>2
  <2>3. \A q \in Pools : status'[q] = "none" => freelist'[q] = {}
    BY <1>5 DEF OwnOK
  <2> QED  BY <2>1, <2>2, <2>3 DEF OwnOK
<1>12. \A u \in Threads : u # t => pc[u] \notin OffList /\ pc'[u] \notin OffList
  BY <1>3, <1>5 DEF OffList, Work, Pcs
<1>13. ListOK'
  <2>1. \A q \in Pools : /\ Removed(q) <=> q = p
                         /\ Removed(q)' <=> q = p /\ l = "enlist"
    BY <1>1, <1>2, <1>5, <1>12 DEF Removed, OffList
  <2>2. \A q \in Pools : Listed(q)' <=> Listed(q)
    BY <1>1 DEF Listed
  <2>3. \A q \in Pools : Listed(q)' <=> status'[q] # "none" /\ ~Removed(q)'
    BY <1>4, <1>5, <2>1, <2>2 DEF ListOK
  <2> QED  BY <1>1, <2>3 DEF ListOK
<1>14. IdOK'
  <2>1. \A v \in Vdevs : vdevPool[v] # p
    BY <1>1, <1>2 DEF WorkOK, WorkAt
  <2>2. MgmtDescs # {} => MgmtPool # p
    BY <1>1, <1>2, PoolAssumption DEF WorkOK, WorkAt, IdOK, Active
  <2>3. \A v \in Vdevs : vdevPool[v] # NoPool => vdevPool[v] \in Pools
    BY DEF TypeOK
  <2>4. MgmtPool \in Pools /\ InvalidFlow \notin Flows  BY PoolAssumption
  <2> QED  BY <1>1, <1>4, <1>5, <2>1, <2>2, <2>3, <2>4 DEF IdOK
<1>15. CountOK'
  <2>1. Counted' = Counted
    BY <1>1, <1>2, <1>4, <1>5 DEF Counted, OffList
  <2> QED  BY <1>1, <2>1 DEF CountOK
<1>16. AllocOK'
  <2>1. Htt \in Threads /\ Senders \subseteq Threads  BY DEF Threads
  <2>2. pc'[Htt] = "unmap" => pc[Htt] = "unmap"  BY <1>5, <2>1
  <2>3. \A u \in Senders : pc'[u] \in {"alloc", "pause"} => pc'[u] = pc[u]
    BY <1>5, <2>1
  <2> QED  BY <1>1, <2>2, <2>3 DEF AllocOK
<1>17. Kept'
  BY <1>1, <1>5, <1>8 DEF Kept
<1>18. Once'
  BY <1>1, <1>5, <1>8 DEF Once
<1>19. SizesAddUp'
  <2>1. ASSUME NEW q \in Pools, status'[q] # "none"
        PROVE  Cardinality(freelist'[q]) + Cardinality(Outstanding(q)') + deficient_desc'[q]
                 = flow_pool_size'[q]
    <3>1. CASE q # p
      <4>1. Cardinality(freelist[q]) + Cardinality(Outstanding(q)) + deficient_desc[q]
              = flow_pool_size[q]
        BY <1>3, <1>5, <2>1, <3>1 DEF SizesAddUp
      <4> QED  BY <1>1, <1>5, <1>10, <3>1, <4>1
    <3>2. CASE q = p
      <4>1. Cardinality(freelist'[q]) = 0  BY <1>5, <3>2, FS_EmptySet
      <4>2. Cardinality(Outstanding(q)) + deficient_desc[q] = n
        BY <1>4, <1>5, <2>1, <3>2
      <4>3. Cardinality(Outstanding(q)) \in Nat /\ deficient_desc[q] \in Nat
        BY <1>3, <3>2
      <4> QED  BY <1>1, <1>5, <1>10, <3>2, <4>1, <4>2, <4>3
    <3> QED  BY <3>1, <3>2
  <2> QED  BY <2>1 DEF SizesAddUp
<1>20. WorkOK'
  <2>1. WorkAt(t)'
    BY <1>4, <1>5 DEF WorkAt, Work, MapPcs
  <2> QED  BY <1>3, <1>5, <2>1, WorkAlone
<1> QED  BY <1>6, <1>7, <1>8, <1>11, <1>13, <1>14, <1>15, <1>16, <1>17, <1>18, <1>19, <1>20

\* An invalid pool goes back to the list.
LEMMA EnlistStep ==
  ASSUME PoolInv, NEW t \in Threads, EnlistInvalid(t)
  PROVE  PoolInv'
<1> USE DEF PoolInv
<1>1. /\ pc[t] = "enlist" /\ Runs(t) /\ pc' = [pc EXCEPT ![t] = "give"]
      /\ flow_pool_list' = Append(flow_pool_list, pool[t])
      /\ num_invalid_bin' = num_invalid_bin + 1
      /\ UNCHANGED <<globalFree, status, flow_pool_id, deficient_desc, freelist, poolOf, netif,
                     pool, flow, held>>
      /\ UNCHANGED <<flow_pool_size, member_flow_id, stop_th, start_th>>
  BY DEF EnlistInvalid, InvalidBins, Goto, pools, identity, thresholds, locals
<1>2. PICK p \in Pools : p = pool[t] /\ status[p] = "invalid"
  BY <1>1 DEF WorkOK, WorkAt, Work, Pcs
<1>3. PICK l \in {"remove", "retire", "give"} : l = "give"
  OBVIOUS
<1>4. /\ AloneOK' /\ HeldOK' /\ OwnOK' /\ IdOK' /\ AllocOK' /\ Kept' /\ Once'
      /\ \A d \in Descs : Out(d)' <=> Out(d)
      /\ pc'[t] = l /\ \A u \in Threads : u # t => pc'[u] = pc[u] /\ pc[u] \notin Work
  BY <1>1, <1>3, StillStep
<1>5. \A u \in Threads : u # t => /\ pc[u] \notin OffList \cup {"remove", "shrink"}
                                  /\ pc'[u] \notin OffList \cup {"remove", "shrink"}
  BY <1>4 DEF OffList, Work, Pcs
<1>6. \A q \in Pools : ~Removed(q)' /\ (Removed(q) <=> q = p)
  BY <1>1, <1>2, <1>3, <1>4, <1>5 DEF Removed, OffList
<1>7. /\ flow_pool_list' \in Seq(Pools)
      /\ \A i, j \in 1..Len(flow_pool_list') : flow_pool_list'[i] = flow_pool_list'[j] => i = j
      /\ \A q \in Pools : Listed(q)' <=> q = p \/ Listed(q)
  <2>1. ~Listed(p)  BY <1>6 DEF ListOK
  <2> QED  BY <1>1, <1>2, <2>1, ListAppended
<1>8. CountOK' /\ num_invalid_bin' \in Nat
  <2>1. p \notin Counted /\ Counted' = Counted \cup {p}
    BY <1>1, <1>2, <1>3, <1>4, <1>5 DEF Counted, OffList
  <2>2. PICK S : S = Counted  OBVIOUS
  <2>3. /\ Cardinality(S) \in Nat /\ IsFiniteSet(S \cup {p})
        /\ Cardinality(S \cup {p}) = Cardinality(S) + 1
    BY <2>1, <2>2, OneMore DEF CountOK
  <2> QED  BY <1>1, <2>1, <2>2, <2>3 DEF CountOK
<1>9. TypeOK'
  BY <1>1, <1>7, <1>8 DEF TypeOK, Pcs, netif
<1>10. ListOK'
  BY <1>1, <1>2, <1>6, <1>7 DEF ListOK
<1>11. WorkOK'
  <2>1. WorkAt(t)'
    BY <1>3, <1>4 DEF WorkAt, Work, MapPcs
  <2> QED  BY <1>4, <2>1, WorkAlone
<1>12. SizesAddUp'
  <2>1. \A q \in Pools : Outstanding(q)' = Outstanding(q)
    BY <1>1, <1>3, <1>4 DEF Outstanding, netif
  <2>2. \A u \in Threads : pc[u] # "shrink"
    BY <1>1, <1>5
  <2> QED  BY <1>1, <2>1, <2>2 DEF SizesAddUp
<1> QED  BY <1>4, <1>8, <1>9, <1>10, <1>11, <1>12

\* What the pool had goes to the global pool.
LEMMA GiveStep ==
  ASSUME PoolInv, NEW t \in Threads, GiveBack(t)
  PROVE  PoolInv'
<1> USE DEF PoolInv
<1>1. /\ pc[t] = "give" /\ Runs(t) /\ pc' = [pc EXCEPT ![t] = "idle"]
      /\ globalFree' = globalFree \cup held[t] /\ held' = [held EXCEPT ![t] = {}]
      /\ pool' = [pool EXCEPT ![t] = NoPool] /\ flow' = [flow EXCEPT ![t] = NoFlow]
      /\ UNCHANGED <<flow_pool_list, num_invalid_bin, status, flow_pool_id, flow_pool_size,
                     deficient_desc, member_flow_id, stop_th, start_th, freelist, poolOf>>
      /\ UNCHANGED <<vdevPool, stopped, inflight>>
  BY DEF GiveBack, Return, Goto, pools, identity, thresholds, netif
<1>2. /\ pc'[t] = "idle" /\ held'[t] = {}
      /\ \A u \in Threads : u # t => /\ pc'[u] = pc[u] /\ held'[u] = held[u]
                                     /\ pool'[u] = pool[u] /\ flow'[u] = flow[u]
  BY <1>1 DEF TypeOK
<1>3. TypeOK'
  <2>1. held[t] \subseteq Descs  BY DEF TypeOK
  <2> QED  BY <1>1, <2>1 DEF TypeOK, Pcs
<1>4. AloneOK'
  <2>1. t \in Senders => OneCpu
    BY <1>1 DEF AloneOK, Work, Pcs
  <2> QED  BY <1>1, <2>1, AloneStep DEF Pcs, MapPcs
<1>5. HeldOK'
  BY <1>2 DEF HeldOK, Carrying
<1>6. \A d \in Descs : Out(d)' <=> Out(d)
  BY <1>1, <1>2 DEF Out, Carrying
<1>7. OwnOK'
  BY <1>1, <1>6 DEF OwnOK
<1>8. ListOK'
  <2>1. \A q \in Pools : Removed(q)' <=> Removed(q)
    BY <1>1, <1>2 DEF Removed, OffList
  <2> QED  BY <1>1, <2>1 DEF ListOK, Listed
<1>9. IdOK'
  BY <1>1 DEF IdOK
<1>10. CountOK'
  <2>1. Counted' = Counted
    BY <1>1, <1>2 DEF Counted, OffList
  <2> QED  BY <1>1, <2>1 DEF CountOK
<1>11. WorkOK'
  <2>1. WorkAt(t)'
    BY <1>2 DEF WorkAt, Work, MapPcs, Pcs
  <2> QED  BY <1>1, <1>2, <1>6, <2>1, WorkRest
<1>12. AllocOK'
  <2>1. Htt \in Threads /\ Senders \subseteq Threads  BY DEF Threads
  <2>2. pc'[Htt] = "unmap" => pc[Htt] = "unmap" /\ flow'[Htt] = flow[Htt]  BY <1>2, <2>1
  <2>3. \A u \in Senders : pc'[u] \in {"alloc", "pause"} =>
           pc'[u] = pc[u] /\ pool'[u] = pool[u] /\ flow'[u] = flow[u]
    BY <1>2, <2>1
  <2> QED  BY <1>1, <2>2, <2>3 DEF AllocOK
<1>13. Kept' /\ Once'
  <2>1. Kept'  BY <1>1, <1>2 DEF Kept
  <2>2. \A d \in held[t] : d \in Descs  BY DEF TypeOK
  <2> QED  BY <1>1, <1>2, <2>1, <2>2 DEF Once
<1>14. SizesAddUp'
  <2>1. \A q \in Pools : Outstanding(q)' = Outstanding(q)
    BY <1>1, <1>2 DEF Outstanding
  <2>2. \A q \in Pools : (\A u \in Threads : pc'[u] = "shrink" => pool'[u] # q)
                            <=> (\A u \in Threads : pc[u] = "shrink" => pool[u] # q)
    BY <1>1, <1>2
  <2> QED  BY <1>1, <2>1, <2>2 DEF SizesAddUp
<1> QED  BY <1>3, <1>4, <1>5, <1>7, <1>8, <1>9, <1>10, <1>11, <1>12, <1>13, <1>14

-----------------------------------------------------------------------------
(* Messages of the target *)

\* A step of the HTT context that moves neither descriptors nor pools.
LEMMA HttCalm ==
  ASSUME PoolInv, NEW l \in MapPcs \cup {"idle", "remove"}, pc[Htt] \in MapPcs \cup {"idle"},
         Runs(Htt), pc' = [pc EXCEPT ![Htt] = l],
         UNCHANGED <<lists, status, flow_pool_id, flow_pool_size, deficient_desc, freelist,
                     poolOf, inflight, held>>,
         UNCHANGED <<stopped, stop_th, start_th>>,
         member_flow_id' \in [Pools -> Flows \cup {InvalidFlow}],
         vdevPool' \in [Vdevs -> Pools \cup {NoPool}],
         pool' \in [Threads -> Pools \cup {NoPool}], flow' \in [Threads -> Flows \cup {NoFlow}],
         \A u \in Threads : u # Htt => pool'[u] = pool[u] /\ flow'[u] = flow[u],
         l = "remove" => status[pool'[Htt]] # "invalid",
         IdOK', AllocOK', WorkAt(Htt)'
  PROVE  PoolInv'
<1> USE DEF PoolInv
<1>1. Htt \in Threads /\ Htt \notin Senders /\ l \in Pcs
  BY PoolAssumption DEF Threads, MapPcs, Pcs
<1>2. /\ pc'[Htt] = l
      /\ \A u \in Threads : u # Htt => pc'[u] = pc[u] /\ pc[u] \notin Work
  BY <1>1, OneWorks DEF TypeOK
<1>3. TypeOK'
  BY <1>1 DEF TypeOK, lists
<1>4. AloneOK'
  BY <1>1, AloneStep DEF MapPcs
<1>5. HeldOK' /\ OwnOK' /\ ListOK' /\ CountOK' /\ Kept' /\ Once' /\ SizesAddUp'
  <2>1. /\ {pc[Htt], l} \cap (OffList \cup {"shrink", "give"}) = {} /\ pc[Htt] # "remove"
        /\ (pc[Htt] \in Carrying <=> l \in Carrying)
    BY DEF MapPcs, OffList, Carrying
  <2> QED  BY <1>1, <2>1, CalmStep
<1>6. WorkOK'
  BY <1>1, <1>2, WorkAlone
<1> QED  BY <1>3, <1>4, <1>5, <1>6

\* ol_tx_flow_pool_vdev_map: the device gets the one pool of its flow.
LEMMA VdevMapStep ==
  ASSUME PoolInv, ol_tx_flow_pool_vdev_map
  PROVE  PoolInv'
<1> USE DEF PoolInv
<1>0. Htt \in Threads /\ Htt \notin Senders /\ NoPool \notin Pools /\ Senders \subseteq Threads
  BY PoolAssumption DEF Threads
<1>1. /\ pc[Htt] = "map" /\ Runs(Htt)
      /\ UNCHANGED <<lists, status, flow_pool_id, flow_pool_size, deficient_desc, freelist,
                     poolOf, inflight, held>>
      /\ UNCHANGED <<stopped, stop_th, start_th, member_flow_id>>
  BY DEF ol_tx_flow_pool_vdev_map, pools, identity, thresholds
<1>2. PICK p \in Pools, f \in Flows :
        p = pool[Htt] /\ f = flow[Htt] /\ status[p] \in Active /\ flow_pool_id[p] = f
  BY <1>0, <1>1 DEF WorkOK, WorkAt, Work, Pcs, MapPcs
<1>3. CASE f \in Vdevs
  <2>1. /\ vdevPool' = [vdevPool EXCEPT ![f] = p] /\ pc' = [pc EXCEPT ![Htt] = "member"]
        /\ UNCHANGED <<pool, flow>>
    BY <1>2, <1>3 DEF ol_tx_flow_pool_vdev_map, Goto
  <2>2. /\ vdevPool'[f] = p /\ \A v \in Vdevs : v # f => vdevPool'[v] = vdevPool[v]
        /\ vdevPool' \in [Vdevs -> Pools \cup {NoPool}] /\ pc'[Htt] = "member"
        /\ \A u \in Threads : u # Htt => pc'[u] = pc[u]
    BY <1>0, <1>3, <2>1 DEF TypeOK
  <2>3. IdOK'
    BY <1>1, <1>2, <1>3, <2>2 DEF IdOK
  <2>4. vdevPool[f] # NoPool => vdevPool[f] = p
    <3>1. SUFFICES ASSUME vdevPool[f] # NoPool PROVE vdevPool[f] = p  OBVIOUS
    <3>2. PICK q \in Pools : q = vdevPool[f]  BY <1>3, <3>1 DEF TypeOK
    <3>3. status[q] \in Active /\ flow_pool_id[q] = f  BY <1>3, <3>1, <3>2 DEF IdOK
    <3> QED  BY <1>2, <3>2, <3>3 DEF IdOK, Active
  <2>5. AllocOK'
    BY <1>0, <1>1, <1>3, <2>1, <2>2, <2>4 DEF AllocOK
  <2>6. WorkAt(Htt)'
    BY <1>1, <1>2, <1>3, <2>1, <2>2 DEF WorkAt, Work, MapPcs, Active
  <2>7. "member" \in MapPcs \cup {"idle", "remove"} /\ pc[Htt] \in MapPcs \cup {"idle"}
    BY <1>1 DEF MapPcs
  <2>8. /\ pool' \in [Threads -> Pools \cup {NoPool}] /\ flow' \in [Threads -> Flows \cup {NoFlow}]
        /\ \A u \in Threads : u # Htt => pool'[u] = pool[u] /\ flow'[u] = flow[u]
        /\ member_flow_id' \in [Pools -> Flows \cup {InvalidFlow}]
    BY <1>1, <2>1 DEF TypeOK
  <2> QED  BY <1>1, <2>1, <2>2, <2>3, <2>5, <2>6, <2>7, <2>8, HttCalm
<1>4. CASE f \notin Vdevs
  <2>1. /\ UNCHANGED vdevPool /\ pc' = [pc EXCEPT ![Htt] = "idle"]
        /\ pool' = [pool EXCEPT ![Htt] = NoPool] /\ flow' = [flow EXCEPT ![Htt] = NoFlow]
    BY <1>2, <1>4 DEF ol_tx_flow_pool_vdev_map, Return, Goto
  <2>2. /\ pc'[Htt] = "idle"
        /\ \A u \in Threads : u # Htt => /\ pc'[u] = pc[u] /\ pool'[u] = pool[u]
                                         /\ flow'[u] = flow[u]
        /\ pool' \in [Threads -> Pools \cup {NoPool}] /\ flow' \in [Threads -> Flows \cup {NoFlow}]
        /\ vdevPool' \in [Vdevs -> Pools \cup {NoPool}]
        /\ member_flow_id' \in [Pools -> Flows \cup {InvalidFlow}]
    BY <1>0, <1>1, <2>1 DEF TypeOK
  <2>3. IdOK' /\ AllocOK'
    BY <1>0, <1>1, <2>1, <2>2 DEF IdOK, AllocOK
  <2>4. WorkAt(Htt)'
    BY <2>2 DEF WorkAt, Work, MapPcs, Pcs
  <2>5. "idle" \in MapPcs \cup {"idle", "remove"} /\ pc[Htt] \in MapPcs \cup {"idle"}
    BY <1>1 DEF MapPcs
  <2> QED  BY <1>1, <2>1, <2>2, <2>3, <2>4, <2>5, HttCalm
<1> QED  BY <1>3, <1>4

\* The pool gets its member.
LEMMA SetMemberStep ==
  ASSUME PoolInv, SetMember
  PROVE  PoolInv'
<1> USE DEF PoolInv
<1>0. Htt \in Threads /\ Htt \notin Senders /\ Senders \subseteq Threads
  BY PoolAssumption DEF Threads
<1>1. /\ pc[Htt] = "member" /\ Runs(Htt) /\ pc' = [pc EXCEPT ![Htt] = "idle"]
      /\ pool' = [pool EXCEPT ![Htt] = NoPool] /\ flow' = [flow EXCEPT ![Htt] = NoFlow]
      /\ member_flow_id' = [member_flow_id EXCEPT ![pool[Htt]] = flow[Htt]]
      /\ UNCHANGED <<lists, status, flow_pool_id, flow_pool_size, deficient_desc, freelist,
                     poolOf, inflight, held>>
      /\ UNCHANGED <<stopped, stop_th, start_th, vdevPool>>
  BY DEF SetMember, Member, Return, Goto, netif, thresholds
<1>2. flow[Htt] \in Flows
  BY <1>0, <1>1 DEF WorkOK, WorkAt, MapPcs
<1>3. /\ pc'[Htt] = "idle"
      /\ \A u \in Threads : u # Htt => /\ pc'[u] = pc[u] /\ pool'[u] = pool[u]
                                       /\ flow'[u] = flow[u]
      /\ pool' \in [Threads -> Pools \cup {NoPool}] /\ flow' \in [Threads -> Flows \cup {NoFlow}]
      /\ vdevPool' \in [Vdevs -> Pools \cup {NoPool}]
      /\ member_flow_id' \in [Pools -> Flows \cup {InvalidFlow}]
  BY <1>0, <1>1, <1>2 DEF TypeOK
<1>4. IdOK' /\ AllocOK'
  BY <1>0, <1>1, <1>3 DEF IdOK, AllocOK
<1>5. WorkAt(Htt)'
  BY <1>3 DEF WorkAt, Work, MapPcs, Pcs
<1>6. "idle" \in MapPcs \cup {"idle", "remove"} /\ pc[Htt] \in MapPcs \cup {"idle"}
  BY <1>1 DEF MapPcs
<1> QED  BY <1>1, <1>3, <1>4, <1>5, <1>6, HttCalm

\* ol_tx_flow_pool_vdev_unmap: the device no longer leads to the pool.
LEMMA VdevUnmapStep ==
  ASSUME PoolInv, ol_tx_flow_pool_vdev_unmap
  PROVE  PoolInv'
<1> USE DEF PoolInv
<1>0. Htt \in Threads /\ Htt \notin Senders /\ NoPool \notin Pools /\ Senders \subseteq Threads
  BY PoolAssumption DEF Threads
<1>1. /\ pc[Htt] = "unmap" /\ Runs(Htt) /\ pc' = [pc EXCEPT ![Htt] = "unmember"]
      /\ vdevPool' = [vdevPool EXCEPT ![flow[Htt]] = NoPool]
      /\ UNCHANGED <<lists, status, flow_pool_id, flow_pool_size, deficient_desc, freelist,
                     poolOf, inflight, held>>
      /\ UNCHANGED <<stopped, stop_th, start_th, member_flow_id, pool, flow>>
  BY DEF ol_tx_flow_pool_vdev_unmap, Unmapped, Goto, pools, identity, thresholds, locals
<1>2. PICK p \in Pools, f \in Vdevs :
        p = pool[Htt] /\ f = flow[Htt] /\ status[p] \in Active /\ flow_pool_id[p] = f
  BY <1>0, <1>1 DEF WorkOK, WorkAt, Work, Pcs, MapPcs
<1>3. /\ pc'[Htt] = "unmember" /\ \A u \in Threads : u # Htt => pc'[u] = pc[u]
      /\ vdevPool' \in [Vdevs -> Pools \cup {NoPool}] /\ vdevPool'[f] = NoPool
      /\ \A v \in Vdevs : v # f => vdevPool'[v] = vdevPool[v]
      /\ pool' \in [Threads -> Pools \cup {NoPool}] /\ flow' \in [Threads -> Flows \cup {NoFlow}]
      /\ \A u \in Threads : u # Htt => pool'[u] = pool[u] /\ flow'[u] = flow[u]
      /\ member_flow_id' \in [Pools -> Flows \cup {InvalidFlow}]
  BY <1>0, <1>1, <1>2 DEF TypeOK
<1>4. IdOK'
  BY <1>1, <1>2, <1>3 DEF IdOK
<1>5. AllocOK'
  BY <1>0, <1>1, <1>2, <1>3 DEF AllocOK
<1>6. WorkAt(Htt)'
  <2>1. \A v \in Vdevs : vdevPool'[v] # p
    BY <1>0, <1>2, <1>3 DEF IdOK
  <2>2. f \in Flows  BY <1>2, PoolAssumption
  <2> QED  BY <1>1, <1>2, <1>3, <2>1, <2>2 DEF WorkAt, Work, MapPcs, Active
<1>7. "unmember" \in MapPcs \cup {"idle", "remove"} /\ pc[Htt] \in MapPcs \cup {"idle"}
  BY <1>1 DEF MapPcs
<1> QED  BY <1>1, <1>3, <1>4, <1>5, <1>6, <1>7, HttCalm

\* The pool loses its member and is about to be deleted.
LEMMA ClearMemberStep ==
  ASSUME PoolInv, ClearMember
  PROVE  PoolInv'
<1> USE DEF PoolInv
<1>0. Htt \in Threads /\ Htt \notin Senders /\ Senders \subseteq Threads
  BY PoolAssumption DEF Threads
<1>1. /\ pc[Htt] = "unmember" /\ Runs(Htt) /\ pc' = [pc EXCEPT ![Htt] = "remove"]
      /\ member_flow_id' = [member_flow_id EXCEPT ![pool[Htt]] = InvalidFlow]
      /\ UNCHANGED <<lists, status, flow_pool_id, flow_pool_size, deficient_desc, freelist,
                     poolOf, inflight, held>>
      /\ UNCHANGED <<stopped, stop_th, start_th, vdevPool, pool, flow>>
  BY DEF ClearMember, Goto, netif, thresholds, locals
<1>2. PICK p \in Pools, f \in Flows :
        /\ p = pool[Htt] /\ f = flow[Htt] /\ status[p] \in Active /\ flow_pool_id[p] = f
        /\ \A v \in Vdevs : vdevPool[v] # p
  BY <1>0, <1>1 DEF WorkOK, WorkAt, Work, Pcs, MapPcs
<1>3. /\ pc'[Htt] = "remove" /\ \A u \in Threads : u # Htt => pc'[u] = pc[u]
      /\ vdevPool' \in [Vdevs -> Pools \cup {NoPool}]
      /\ pool' \in [Threads -> Pools \cup {NoPool}] /\ flow' \in [Threads -> Flows \cup {NoFlow}]
      /\ \A u \in Threads : u # Htt => pool'[u] = pool[u] /\ flow'[u] = flow[u]
      /\ member_flow_id' \in [Pools -> Flows \cup {InvalidFlow}]
      /\ status[pool'[Htt]] # "invalid"
  BY <1>0, <1>1, <1>2 DEF TypeOK, Active
<1>4. IdOK' /\ AllocOK'
  BY <1>0, <1>1, <1>3 DEF IdOK, AllocOK
<1>5. WorkAt(Htt)'
  BY <1>1, <1>2, <1>3 DEF WorkAt, Work, MapPcs, Active
<1>6. "remove" \in MapPcs \cup {"idle", "remove"} /\ pc[Htt] \in MapPcs \cup {"idle"}
  BY <1>1 DEF MapPcs
<1> QED  BY <1>1, <1>3, <1>4, <1>5, <1>6, HttCalm

\* A pool found by the id of a flow is active, and the only one of its flow.
LEMMA FoundPool ==
  ASSUME PoolInv, NEW f \in Flows, NEW p \in PoolsOf(f)
  PROVE  /\ p \in Pools /\ status[p] \in Active /\ flow_pool_id[p] = f
         /\ \A q \in Pools : status[q] \in Active /\ flow_pool_id[q] = f => q = p
<1> USE DEF PoolInv
<1>1. p \in Pools /\ Listed(p) /\ flow_pool_id[p] = f  BY DEF PoolsOf
<1>2. status[p] # "none"  BY <1>1 DEF ListOK
<1>3. status[p] # "invalid"  BY <1>1, PoolAssumption DEF IdOK
<1>4. status[p] \in Active  BY <1>1, <1>2, <1>3 DEF TypeOK
<1> QED  BY <1>1, <1>4 DEF IdOK, Active

\* ol_tx_flow_pool_unmap_handler finds the pool; no transmission is about to
\* take from it.
LEMMA UnmapHandlerStep ==
  ASSUME PoolInv, NEW f \in Flows, ol_tx_flow_pool_unmap_handler(f)
  PROVE  PoolInv'
<1> USE DEF PoolInv
<1>0. Htt \in Threads /\ Htt \notin Senders /\ NoPool \notin Pools /\ Senders \subseteq Threads
  BY PoolAssumption DEF Threads
<1>1. PICK p \in PoolsOf(f) : pool' = [pool EXCEPT ![Htt] = p]
  BY DEF ol_tx_flow_pool_unmap_handler
<1>2. PICK l \in {"unmap", "remove"} : (l = "unmap" <=> f \in Vdevs)  OBVIOUS
<1>3. /\ pc[Htt] = "idle" /\ Runs(Htt) /\ pc' = [pc EXCEPT ![Htt] = l] /\ MayUnmap(f)
      /\ flow' = [flow EXCEPT ![Htt] = f]
      /\ UNCHANGED <<lists, status, flow_pool_id, flow_pool_size, deficient_desc, freelist,
                     poolOf, inflight, held>>
      /\ UNCHANGED <<stopped, stop_th, start_th, vdevPool, member_flow_id>>
  BY <1>2 DEF ol_tx_flow_pool_unmap_handler, Goto, pools, identity, thresholds, netif
<1>4. /\ p \in Pools /\ status[p] \in Active /\ flow_pool_id[p] = f
      /\ \A q \in Pools : status[q] \in Active /\ flow_pool_id[q] = f => q = p
  BY FoundPool
<1>5. /\ pc'[Htt] = l /\ pool'[Htt] = p /\ flow'[Htt] = f
      /\ \A u \in Threads : u # Htt => /\ pc'[u] = pc[u] /\ pool'[u] = pool[u]
                                       /\ flow'[u] = flow[u]
      /\ pool' \in [Threads -> Pools \cup {NoPool}] /\ flow' \in [Threads -> Flows \cup {NoFlow}]
      /\ vdevPool' \in [Vdevs -> Pools \cup {NoPool}]
      /\ member_flow_id' \in [Pools -> Flows \cup {InvalidFlow}]
  BY <1>0, <1>1, <1>3, <1>4 DEF TypeOK
<1>6. IdOK'
  BY <1>3 DEF IdOK
<1>7. AllocOK'
  <2>1. ASSUME NEW u \in Senders, pc[u] = "alloc" PROVE pool[u] # p
    BY <1>1, <1>3, <2>1 DEF MayUnmap
  <2>2. ASSUME NEW u \in Senders, pc[u] = "alloc", pool[u] # NoPool,
               vdevPool[flow[u]] = pool[u]
        PROVE  flow[u] # f
    <3>1. flow[u] \in Vdevs  BY <2>2 DEF AllocOK
    <3>2. PICK q \in Pools : q = pool[u]  BY <1>0, <2>2 DEF TypeOK
    <3>3. status[q] \in Active /\ flow_pool_id[q] = flow[u]
      BY <1>0, <2>2, <3>1, <3>2 DEF IdOK
    <3>4. pool[u] # p  BY <2>1, <2>2
    <3> QED  BY <1>4, <3>2, <3>3, <3>4
  <2>3. \A u \in Senders : pc'[u] = pc[u] /\ pool'[u] = pool[u] /\ flow'[u] = flow[u]
    BY <1>0, <1>5
  <2> QED  BY <1>3, <1>5, <2>2, <2>3 DEF AllocOK
<1>8. WorkAt(Htt)'
  <2>1. l = "remove" => \A v \in Vdevs : vdevPool[v] # p
    BY <1>0, <1>2, <1>4 DEF IdOK
  <2> QED  BY <1>2, <1>3, <1>4, <1>5, <2>1 DEF WorkAt, Work, MapPcs, Active
<1>9. l \in MapPcs \cup {"idle", "remove"} /\ pc[Htt] \in MapPcs \cup {"idle"}
  BY <1>3 DEF MapPcs
<1>10. status[pool'[Htt]] # "invalid"
  BY <1>4, <1>5 DEF Active
<1> QED  BY <1>3, <1>5, <1>6, <1>7, <1>8, <1>9, <1>10, HttCalm

\* ol_tx_create_flow_pool: a new pool takes descriptors that are nowhere else.
LEMMA CreateStep ==
  ASSUME PoolInv, NEW f \in Flows, NEW p \in Pools, status[p] = "none", PoolsOf(f) = {},
         NEW taken \in SUBSET globalFree,
         \/ Cardinality(taken) = SizeOf[f]
         \/ Cardinality(taken) < SizeOf[f] /\ taken = globalFree,
         NEW l \in {"map", "remove"},
         pc[Htt] = "idle", Runs(Htt), pc' = [pc EXCEPT ![Htt] = l],
         pool' = [pool EXCEPT ![Htt] = p], flow' = [flow EXCEPT ![Htt] = f],
         globalFree' = globalFree \ taken,
         freelist' = [freelist EXCEPT ![p] = taken],
         poolOf' = [d \in Descs |-> IF d \in taken THEN p ELSE poolOf[d]],
         deficient_desc' = [deficient_desc EXCEPT ![p] = SizeOf[f] - Cardinality(taken)],
         status' = [status EXCEPT ![p] = "unpaused"],
         flow_pool_id' = [flow_pool_id EXCEPT ![p] = f],
         flow_pool_size' = [flow_pool_size EXCEPT ![p] = SizeOf[f]],
         member_flow_id' = [member_flow_id EXCEPT ![p] = Vdev0],
         stop_th' \in [Pools -> Nat], start_th' \in [Pools -> Nat],
         flow_pool_list' = Append(flow_pool_list, p),
         UNCHANGED <<num_invalid_bin, vdevPool, stopped, inflight, held>>
  PROVE  PoolInv'
<1> USE DEF PoolInv
<1>0. Htt \in Threads /\ Htt \notin Senders /\ NoPool \notin Pools /\ Senders \subseteq Threads
  BY PoolAssumption DEF Threads
<1>1. /\ taken \subseteq Descs /\ IsFiniteSet(taken) /\ Cardinality(taken) \in Nat
      /\ SizeOf[f] \in Nat /\ SizeOf[f] - Cardinality(taken) \in Nat /\ Vdev0 \in Flows
  <2>1. taken \subseteq Descs /\ IsFiniteSet(taken)
    <3>1. taken \subseteq Descs  BY DEF TypeOK
    <3> QED  BY <3>1, FS_Subset, PoolAssumption
  <2>2. Cardinality(taken) \in Nat  BY <2>1, FS_CardinalityType
  <2>3. SizeOf[f] \in Nat /\ Vdev0 \in Flows  BY PoolAssumption
  <2> QED  BY <2>1, <2>2, <2>3
<1>2. PICK n \in Nat : n = SizeOf[f] - Cardinality(taken)
  BY <1>1
<1>3. /\ pc'[Htt] = l /\ pool'[Htt] = p /\ flow'[Htt] = f
      /\ \A u \in Threads : u # Htt => /\ pc'[u] = pc[u] /\ pool'[u] = pool[u]
                                       /\ flow'[u] = flow[u]
  BY <1>0 DEF TypeOK
<1>4. /\ freelist'[p] = taken /\ deficient_desc'[p] = n /\ status'[p] = "unpaused"
      /\ flow_pool_id'[p] = f /\ flow_pool_size'[p] = SizeOf[f]
      /\ \A q \in Pools : q # p => /\ freelist'[q] = freelist[q] /\ status'[q] = status[q]
                                   /\ deficient_desc'[q] = deficient_desc[q]
                                   /\ flow_pool_id'[q] = flow_pool_id[q]
                                   /\ flow_pool_size'[q] = flow_pool_size[q]
  BY <1>2 DEF TypeOK
<1>5. /\ \A d \in taken : poolOf'[d] = p
      /\ \A d \in Descs : d \notin taken => poolOf'[d] = poolOf[d]
  BY <1>1
<1>6. \A u \in Threads : u # Htt => pc[u] \notin Work
  BY <1>0, OneWorks
<1>7. \A q \in Pools : ~Removed(q) /\ ~Removed(q)'
  BY <1>3, <1>6 DEF Removed, OffList, Work, Pcs
<1>8. /\ flow_pool_list' \in Seq(Pools)
      /\ \A i, j \in 1..Len(flow_pool_list') : flow_pool_list'[i] = flow_pool_list'[j] => i = j
      /\ \A q \in Pools : Listed(q)' <=> q = p \/ Listed(q)
  <2>1. ~Listed(p)  BY DEF ListOK
  <2> QED  BY <2>1, ListAppended
<1>9. TypeOK'
  <2>1. poolOf' \in [Descs -> Pools \cup {NoPool}]  BY DEF TypeOK
  <2>2. l \in Pcs  BY DEF Pcs
  <2>3. deficient_desc' \in [Pools -> Nat] /\ flow_pool_size' \in [Pools -> Nat]
    BY <1>1 DEF TypeOK
  <2>4. /\ globalFree' \subseteq Descs /\ freelist' \in [Pools -> SUBSET Descs]
        /\ status' \in [Pools -> Active \cup {"none", "invalid"}]
        /\ flow_pool_id' \in [Pools -> Flows \cup {NoFlow, InvalidFlow}]
        /\ member_flow_id' \in [Pools -> Flows \cup {InvalidFlow}]
        /\ pc' \in [Threads -> Pcs] /\ pool' \in [Threads -> Pools \cup {NoPool}]
        /\ flow' \in [Threads -> Flows \cup {NoFlow}]
    BY <1>1, <2>2 DEF TypeOK, Active
  <2> QED  BY <1>8, <2>1, <2>3, <2>4 DEF TypeOK
<1>10. AloneOK'
  BY <1>0, AloneStep DEF Pcs
<1>11. HeldOK'
  BY <1>0, <1>3 DEF HeldOK, Carrying
<1>12. /\ \A d \in Descs : Out(d)' <=> Out(d)
       /\ \A d \in Descs : Out(d) => d \notin taken /\ poolOf[d] # p
  <2>1. \A d \in Descs : Out(d)' <=> Out(d)
    BY <1>0, <1>3 DEF Out, Carrying
  <2>2. ASSUME NEW d \in Descs, Out(d) PROVE d \notin taken
    BY <2>2 DEF Out, Once
  <2>3. ASSUME NEW d \in Descs, Out(d) PROVE poolOf[d] # p
    BY <2>3 DEF OwnOK
  <2> QED  BY <2>1, <2>2, <2>3
<1>13. OwnOK'
  <2>1. ASSUME NEW q \in Pools, NEW d \in freelist'[q] PROVE poolOf'[d] = q
    <3>1. CASE q = p  BY <1>4, <1>5, <2>1, <3>1
    <3>2. CASE q # p
      <4>1. d \in freelist[q] /\ d \in Descs  BY <1>4, <2>1, <3>2 DEF TypeOK
      <4>2. d \notin taken  BY <4>1 DEF Once
      <4> QED  BY <1>5, <4>1, <4>2 DEF OwnOK
    <3> QED  BY <3>1, <3>2
  <2>2. ASSUME NEW d \in Descs, Out(d)'
        PROVE  poolOf'[d] \in Pools /\ status'[poolOf'[d]] # "none"
    <3>1. Out(d) /\ d \notin taken /\ poolOf[d] # p  BY <1>12, <2>2
    <3> QED  BY <1>4, <1>5, <3>1 DEF OwnOK
  <2>3. \A q \in Pools : status'[q] = "none" => freelist'[q] = {}
    BY <1>4 DEF OwnOK
  <2> QED  BY <2>1, <2>2, <2>3 DEF OwnOK
<1>14. ListOK'
  BY <1>4, <1>7, <1>8 DEF ListOK
<1>15. \A q \in Pools : status[q] # "none" => flow_pool_id[q] # f
  BY <1>7 DEF ListOK, PoolsOf
<1>16. IdOK'
  <2>1. \A v \in Vdevs : vdevPool[v] # NoPool => vdevPool[v] \in Pools /\ vdevPool[v] # p
    <3>1. \A v \in Vdevs : vdevPool[v] # NoPool => status[vdevPool[v]] # "none"
      BY DEF IdOK, Active
    <3>2. \A v \in Vdevs : vdevPool[v] # NoPool => vdevPool[v] \in Pools
      BY DEF TypeOK
    <3> QED  BY <3>1, <3>2
  <2>2. MgmtDescs # {} => MgmtPool # p /\ MgmtPool \in Pools
    BY PoolAssumption DEF IdOK, Active
  <2> QED  BY <1>4, <1>15, <2>1, <2>2 DEF IdOK
<1>17. CountOK'
  <2>1. p \notin Counted /\ p \notin Counted'
    BY <1>4 DEF Counted
  <2>2. ASSUME NEW q \in Pools, q # p PROVE q \in Counted' <=> q \in Counted
    <3>1. \A u \in Threads : pc'[u] \in OffList \cup {"remove"} /\ pool'[u] = q
                               <=> pc[u] \in OffList \cup {"remove"} /\ pool[u] = q
      BY <1>3, <2>2 DEF OffList
    <3> QED  BY <1>4, <2>2, <3>1 DEF Counted
  <2>3. Counted \subseteq Pools /\ Counted' \subseteq Pools  BY DEF Counted
  <2>4. Counted' = Counted
    <3>1. PICK A : A = Counted  OBVIOUS
    <3>2. PICK B : B = Counted'  OBVIOUS
    <3>3. A \subseteq Pools /\ B \subseteq Pools /\ \A q \in Pools : q \in B <=> q \in A
      BY <2>1, <2>2, <2>3, <3>1, <3>2
    <3>4. A = B  BY <3>3
    <3> QED  BY <3>1, <3>2, <3>4
  <2> QED  BY <2>4 DEF CountOK
<1>18. WorkOK'
  <2>1. \A v \in Vdevs : vdevPool'[v] # p
    BY <1>0 DEF IdOK, Active
  <2>2. WorkAt(Htt)'
    BY <1>3, <1>4, <2>1 DEF WorkAt, Work, MapPcs, Active
  <2> QED  BY <1>0, <1>3, <1>6, <2>2, WorkAlone
<1>19. AllocOK'
  BY <1>0, <1>3 DEF AllocOK
<1>20. Kept'
  BY <1>4 DEF Kept, OwnOK
<1>21. Once'
  BY <1>1, <1>4 DEF Once, OwnOK
<1>22. SizesAddUp'
  <2>1. ASSUME NEW q \in Pools, status'[q] # "none"
        PROVE  Cardinality(freelist'[q]) + Cardinality(Outstanding(q)') + deficient_desc'[q]
                 = flow_pool_size'[q]
    <3>1. Outstanding(q) = {d \in Descs : poolOf[d] = q /\ Out(d)}
      BY DEF Outstanding, Out, Carrying
    <3>2. Outstanding(q)' = {d \in Descs : poolOf'[d] = q /\ Out(d)'}
      BY DEF Outstanding, Out, Carrying
    <3>3. Outstanding(q)' = Outstanding(q)
      BY <1>5, <1>12, <3>1, <3>2
    <3>4. CASE q = p
      <4>1. Outstanding(q) = {}  BY <1>12, <3>1, <3>4
      <4>2. Cardinality(Outstanding(q)) = 0  BY <4>1, FS_EmptySet
      <4> QED  BY <1>1, <1>2, <1>4, <3>3, <3>4, <4>2
    <3>5. CASE q # p
      <4>1. \A u \in Threads : pc[u] # "shrink"  BY <1>0, <1>6 DEF Work, Pcs
      <4>2. Cardinality(freelist[q]) + Cardinality(Outstanding(q)) + deficient_desc[q]
              = flow_pool_size[q]
        BY <1>4, <2>1, <3>5, <4>1 DEF SizesAddUp
      <4> QED  BY <1>4, <3>3, <3>5, <4>2
    <3> QED  BY <3>4, <3>5
  <2> QED  BY <2>1 DEF SizesAddUp
<1> QED  BY <1>9, <1>10, <1>11, <1>13, <1>14, <1>16, <1>17, <1>18, <1>19, <1>20, <1>21, <1>22

\* ol_tx_flow_pool_map_handler finds the pool of the flow or creates it.
LEMMA MapHandlerStep ==
  ASSUME PoolInv, NEW f \in Flows, ol_tx_flow_pool_map_handler(f)
  PROVE  PoolInv'
<1> USE DEF PoolInv
<1>0. Htt \in Threads /\ Htt \notin Senders /\ NoPool \notin Pools /\ Senders \subseteq Threads
  BY PoolAssumption DEF Threads
<1>1. /\ pc[Htt] = "idle" /\ Runs(Htt) /\ flow' = [flow EXCEPT ![Htt] = f]
      /\ UNCHANGED <<num_invalid_bin, vdevPool, stopped, inflight, held>>
  BY DEF ol_tx_flow_pool_map_handler, netif
<1>2. CASE /\ PoolsOf(f) = {}
           /\ \E p \in Pools : status[p] = "none" /\ ol_tx_create_flow_pool(f, p)
           /\ Goto(Htt, IF f \in OtherTypes THEN "remove" ELSE "map")
  <2>1. PICK p \in Pools : status[p] = "none" /\ ol_tx_create_flow_pool(f, p)
    BY <1>2
  <2>2. PICK taken \in SUBSET globalFree :
          /\ \/ Cardinality(taken) = SizeOf[f]
             \/ Cardinality(taken) < SizeOf[f] /\ taken = globalFree
          /\ globalFree' = globalFree \ taken
          /\ freelist' = [freelist EXCEPT ![p] = taken]
          /\ poolOf' = [d \in Descs |-> IF d \in taken THEN p ELSE poolOf[d]]
          /\ deficient_desc' = [deficient_desc EXCEPT ![p] = SizeOf[f] - Cardinality(taken)]
          /\ status' = [status EXCEPT ![p] = "unpaused"]
          /\ flow_pool_id' = [flow_pool_id EXCEPT ![p] = f]
          /\ flow_pool_size' = [flow_pool_size EXCEPT ![p] = SizeOf[f]]
          /\ member_flow_id' = [member_flow_id EXCEPT ![p] = Vdev0]
          /\ stop_th' = [stop_th EXCEPT ![p] = Threshold(StopTh, SizeOf[f])]
          /\ start_th' = [start_th EXCEPT ![p] = Threshold(StopTh + StartOffset, SizeOf[f])]
          /\ flow_pool_list' = Append(flow_pool_list, p)
          /\ pool' = [pool EXCEPT ![Htt] = p]
    BY <2>1, Zenon DEF ol_tx_create_flow_pool, Shortfall
  <2>3. PICK l \in {"map", "remove"} : pc' = [pc EXCEPT ![Htt] = l]
    BY <1>2 DEF Goto
  <2>4. stop_th' \in [Pools -> Nat] /\ start_th' \in [Pools -> Nat]
    <3>1. \A a, b \in Nat : Threshold(a, b) \in Nat
      <4>1. \A a, b \in Nat : a * b \in Nat  OBVIOUS
      <4>2. \A c \in Nat : c \div 100 \in Nat  OBVIOUS
      <4> QED  BY <4>1, <4>2 DEF Threshold
    <3>2. SizeOf[f] \in Nat /\ StopTh \in Nat /\ StopTh + StartOffset \in Nat
      BY PoolAssumption
    <3>3. Threshold(StopTh, SizeOf[f]) \in Nat /\ Threshold(StopTh + StartOffset, SizeOf[f]) \in Nat
      BY <3>1, <3>2
    <3> QED  BY <2>2, <3>3 DEF TypeOK
  <2> QED  BY <1>1, <1>2, <2>1, <2>2, <2>3, <2>4, CreateStep
<1>3. CASE /\ f \notin OtherTypes
           /\ \E p \in PoolsOf(f) : pool' = [pool EXCEPT ![Htt] = p]
           /\ Goto(Htt, "map")
           /\ UNCHANGED <<globalFree, flow_pool_list, pools>>
  <2>1. PICK p \in PoolsOf(f) : pool' = [pool EXCEPT ![Htt] = p]
    BY <1>3
  <2>2. /\ pc' = [pc EXCEPT ![Htt] = "map"]
        /\ UNCHANGED <<lists, status, flow_pool_id, flow_pool_size, deficient_desc, freelist,
                       poolOf, inflight, held>>
        /\ UNCHANGED <<stopped, stop_th, start_th, vdevPool, member_flow_id>>
    BY <1>1, <1>3 DEF Goto, lists, pools, identity, thresholds
  <2>3. p \in Pools /\ status[p] \in Active /\ flow_pool_id[p] = f
    BY FoundPool
  <2>4. /\ pc'[Htt] = "map" /\ pool'[Htt] = p /\ flow'[Htt] = f
        /\ \A u \in Threads : u # Htt => /\ pc'[u] = pc[u] /\ pool'[u] = pool[u]
                                         /\ flow'[u] = flow[u]
        /\ pool' \in [Threads -> Pools \cup {NoPool}] /\ flow' \in [Threads -> Flows \cup {NoFlow}]
        /\ vdevPool' \in [Vdevs -> Pools \cup {NoPool}]
        /\ member_flow_id' \in [Pools -> Flows \cup {InvalidFlow}]
    BY <1>0, <1>1, <2>1, <2>2, <2>3 DEF TypeOK
  <2>5. IdOK' /\ AllocOK'
    BY <1>0, <2>2, <2>4 DEF IdOK, AllocOK
  <2>6. WorkAt(Htt)'
    BY <2>2, <2>3, <2>4 DEF WorkAt, Work, MapPcs, Active
  <2>7. "map" \in MapPcs \cup {"idle", "remove"} /\ pc[Htt] \in MapPcs \cup {"idle"}
    BY <1>1 DEF MapPcs
  <2> QED  BY <1>1, <2>2, <2>4, <2>5, <2>6, <2>7, HttCalm
<1> QED  BY <1>2, <1>3 DEF ol_tx_flow_pool_map_handler

-----------------------------------------------------------------------------
(* The invariant *)

\* It holds at first: the descriptors are in the global pool, those of the
\* management pool apart.
LEMMA InitInv == Init => PoolInv
<1> SUFFICES ASSUME Init PROVE PoolInv
  OBVIOUS
<1>0. /\ Htt \in Threads /\ MgmtPool \in Pools /\ Vdev0 \in Flows /\ MgmtDescs \subseteq Descs
      /\ NoPool \notin Pools /\ NoFlow \notin Flows
  BY PoolAssumption DEF Threads
<1> DEFINE mgmt == IF MgmtDescs = {} THEN <<>> ELSE <<MgmtPool>>
           n == Cardinality(MgmtDescs)
           isM(p) == MgmtDescs # {} /\ p = MgmtPool
<1>1. \A p \in Pools : mgmt = <<p>> <=> isM(p)
  OBVIOUS
<1>2. /\ IsFiniteSet(MgmtDescs) /\ n \in Nat
  BY PoolAssumption, FS_Subset, FS_CardinalityType
<1>3. /\ Threshold(StopTh, n) \in Nat /\ Threshold(StopTh + StartOffset, n) \in Nat
  <2>1. \A a, b \in Nat : Threshold(a, b) \in Nat
    <3>1. \A a, b \in Nat : a * b \in Nat  OBVIOUS
    <3>2. \A c \in Nat : c \div 100 \in Nat  OBVIOUS
    <3> QED  BY <3>1, <3>2 DEF Threshold
  <2>2. StopTh \in Nat /\ StopTh + StartOffset \in Nat  BY PoolAssumption
  <2> QED  BY <1>2, <2>1, <2>2
<1>4. /\ globalFree = Descs \ MgmtDescs /\ flow_pool_list = mgmt /\ num_invalid_bin = 0
      /\ status = [p \in Pools |-> IF isM(p) THEN "unpaused" ELSE "none"]
      /\ flow_pool_id = [p \in Pools |-> NoFlow]
      /\ flow_pool_size = [p \in Pools |-> IF isM(p) THEN n ELSE 0]
      /\ deficient_desc = [p \in Pools |-> 0]
      /\ member_flow_id = [p \in Pools |-> Vdev0]
      /\ freelist = [p \in Pools |-> IF isM(p) THEN MgmtDescs ELSE {}]
      /\ poolOf = [d \in Descs |-> IF d \in MgmtDescs THEN MgmtPool ELSE NoPool]
      /\ vdevPool = [v \in Vdevs |-> NoPool] /\ stopped = {} /\ inflight = {}
      /\ pc = [t \in Threads |-> "idle"] /\ pool = [t \in Threads |-> NoPool]
      /\ flow = [t \in Threads |-> NoFlow] /\ held = [t \in Threads |-> {}]
  BY <1>1 DEF Init
<1>5. stop_th \in [Pools -> Nat] /\ start_th \in [Pools -> Nat]
  BY <1>3 DEF Init
<1> HIDE DEF n
<1>6. TypeOK
  <2>1. mgmt \in Seq(Pools)  BY <1>0
  <2>2. /\ globalFree \subseteq Descs /\ num_invalid_bin \in Nat
        /\ status \in [Pools -> Active \cup {"none", "invalid"}]
        /\ flow_pool_id \in [Pools -> Flows \cup {NoFlow, InvalidFlow}]
        /\ flow_pool_size \in [Pools -> Nat] /\ deficient_desc \in [Pools -> Nat]
        /\ member_flow_id \in [Pools -> Flows \cup {InvalidFlow}]
    BY <1>0, <1>2, <1>4 DEF Active
  <2>3. /\ freelist \in [Pools -> SUBSET Descs] /\ poolOf \in [Descs -> Pools \cup {NoPool}]
        /\ vdevPool \in [Vdevs -> Pools \cup {NoPool}] /\ stopped \subseteq Flows
        /\ inflight \subseteq Descs /\ pc \in [Threads -> Pcs]
        /\ pool \in [Threads -> Pools \cup {NoPool}]
        /\ flow \in [Threads -> Flows \cup {NoFlow}] /\ held \in [Threads -> SUBSET Descs]
    BY <1>0, <1>4 DEF Pcs
  <2> QED  BY <1>4, <1>5, <2>1, <2>2, <2>3 DEF TypeOK
<1>7. AloneOK /\ HeldOK /\ WorkOK /\ AllocOK
  <2>1. \A t \in Threads : pc[t] = "idle" /\ held[t] = {}  BY <1>4
  <2>2. Senders \subseteq Threads  BY DEF Threads
  <2> QED  BY <1>0, <2>1, <2>2 DEF AloneOK, HeldOK, WorkOK, AllocOK, WorkAt, Work, Pcs, MapPcs,
                                   Carrying
<1>8. \A d \in Descs : ~Out(d)
  BY <1>4 DEF Out
<1>9. OwnOK /\ Kept /\ Once
  <2>1. OwnOK  BY <1>0, <1>4, <1>8 DEF OwnOK
  <2>2. Kept  BY <1>0, <1>4 DEF Kept
  <2>3. Once  BY <1>0, <1>4 DEF Once
  <2> QED  BY <2>1, <2>2, <2>3
<1>10. ListOK
  <2>1. \A p \in Pools : ~Removed(p)  BY <1>4 DEF Removed, OffList
  <2>2. CASE MgmtDescs = {}
    <3>1. Len(flow_pool_list) = 0  BY <1>4, <2>2
    <3> QED  BY <1>4, <2>1, <2>2, <3>1 DEF ListOK, Listed
  <2>3. CASE MgmtDescs # {}
    <3>1. Len(flow_pool_list) = 1 /\ flow_pool_list[1] = MgmtPool  BY <1>4, <2>3
    <3> QED  BY <1>4, <2>1, <2>3, <3>1 DEF ListOK, Listed
  <2> QED  BY <2>2, <2>3
<1>11. IdOK
  BY <1>0, <1>4 DEF IdOK, Active
<1>12. CountOK
  <2>1. Counted = {}  BY <1>4 DEF Counted
  <2> QED  BY <1>4, <2>1, FS_EmptySet DEF CountOK
<1>13. SizesAddUp
  <2>1. \A p \in Pools : Outstanding(p) = {}
    BY <1>4 DEF Outstanding
  <2>2. Cardinality({}) = 0  BY FS_EmptySet
  <2>3. ASSUME NEW p \in Pools, status[p] # "none"
        PROVE  freelist[p] = MgmtDescs /\ deficient_desc[p] = 0 /\ flow_pool_size[p] = n
    BY <1>4, <2>3
  <2>4. n = Cardinality(MgmtDescs)  BY DEF n
  <2> QED  BY <1>2, <2>1, <2>2, <2>3, <2>4 DEF SizesAddUp
<1> QED  BY <1>6, <1>7, <1>9, <1>10, <1>11, <1>12, <1>13 DEF PoolInv

\* Every step keeps it.
LEMMA StepInv ==
  ASSUME Serialized, PoolInv, [Next]_vars
  PROVE  PoolInv'
<1>1. CASE UNCHANGED vars
  <2> USE <1>1 DEF vars, lists, pools, netif, locals, identity, thresholds, PoolInv
  <2>1. TypeOK' /\ AloneOK' /\ HeldOK'  BY DEF TypeOK, AloneOK, HeldOK
  <2>2. OwnOK' /\ ListOK' /\ IdOK'  BY DEF OwnOK, Out, ListOK, Removed, Listed, IdOK
  <2>3. WorkOK' /\ AllocOK'  BY DEF WorkOK, WorkAt, Whole, Out, AllocOK
  <2>4. CountOK' /\ Kept' /\ Once'  BY DEF CountOK, Counted, Kept, Once
  <2>5. SizesAddUp'  BY DEF SizesAddUp, Outstanding
  <2> QED  BY <2>1, <2>2, <2>3, <2>4, <2>5
<1>2. ASSUME NEW t \in Senders, NEW v \in Vdevs, ol_tx_desc_alloc_wrapper(t, v) PROVE PoolInv'
  BY <1>2, WrapperStep
<1>3. ASSUME NEW t \in Threads, ThreadStep(t) PROVE PoolInv'
  BY <1>3, DescAllocStep, StopQueueStep, SendStep, DescFreeStep, DistributeStep, ShrinkStep,
     RemoveStep, RetireStep, EnlistStep, GiveStep, Zenon DEF ThreadStep
<1>4. ASSUME HttStep PROVE PoolInv'
  BY <1>4, VdevMapStep, SetMemberStep, VdevUnmapStep, ClearMemberStep DEF HttStep
<1>5. ASSUME NEW d \in Descs, ol_tx_completion_handler(d) PROVE PoolInv'
  BY <1>5, CompletionStep
<1>6. ASSUME NEW f \in Flows, ol_tx_flow_pool_map_handler(f) PROVE PoolInv'
  BY <1>6, MapHandlerStep
<1>7. ASSUME NEW f \in Flows, ol_tx_flow_pool_unmap_handler(f) PROVE PoolInv'
  BY <1>7, UnmapHandlerStep
<1> QED  BY <1>1, <1>2, <1>3, <1>4, <1>5, <1>6, <1>7 DEF Next

\* The invariant of every behaviour.
LEMMA AlwaysInv ==
  ASSUME Serialized PROVE Spec => []PoolInv
<1>1. Init => PoolInv  BY InitInv
<1>2. PoolInv /\ [Next]_vars => PoolInv'  BY StepInv
<1> QED  BY <1>1, <1>2, PTL DEF Spec

-----------------------------------------------------------------------------
(* What follows from the invariant *)

\* Every variable has its type: no counter of ol_tx_desc.c and
\* ol_txrx_flow_control.c goes below zero, in particular no shortfall and no
\* number of invalid pools.
THEOREM TypeCorrect ==
  ASSUME Serialized PROVE Spec => []TypeOK
<1>1. PoolInv => TypeOK  BY DEF PoolInv
<1> QED  BY <1>1, AlwaysInv, PTL

\* No race of transmission, completion, map and unmap loses a descriptor, hands
\* one out twice or leaves a pool with a wrong size or shortfall, and the number
\* of invalid pools is right.
THEOREM DescsKept ==
  ASSUME Serialized PROVE Spec => []DescsConserved
<1>1. PoolInv => DescsConserved
  <2> SUFFICES ASSUME PoolInv PROVE DescsConserved
    OBVIOUS
  <2>1. Kept /\ Once /\ SizesAddUp  BY DEF PoolInv
  <2>2. ASSUME AtRest
        PROVE  num_invalid_bin = Cardinality({p \in Pools : Listed(p) /\ status[p] = "invalid"})
    <3>1. \A p \in Pools : Listed(p) <=> status[p] # "none"
      BY <2>2 DEF PoolInv, ListOK, Removed, OffList, AtRest
    <3>2. Counted = {p \in Pools : Listed(p) /\ status[p] = "invalid"}
      BY <2>2, <3>1 DEF Counted, OffList, AtRest
    <3> QED  BY <3>2 DEF PoolInv, CountOK
  <2> QED  BY <2>1, <2>2 DEF DescsConserved, InvalidCounted
<1> QED  BY <1>1, AlwaysInv, PTL

\* Nothing leads to a pool that ol_tx_delete_flow_pool has freed: no descriptor
\* that is out, no transmission and not the list.
THEOREM NothingDangles ==
  ASSUME Serialized PROVE Spec => []NoDangling
<1>1. PoolInv => NoDangling
  <2> SUFFICES ASSUME PoolInv PROVE NoDangling
    OBVIOUS
  <2>1. ASSUME NEW p \in Pools, Outstanding(p) # {} PROVE status[p] # "none"
    BY <2>1, OutstandingIs DEF PoolInv, OwnOK
  <2>2. ASSUME NEW t \in Senders, pc[t] = "alloc" PROVE status[pool[t]] \in Active
    BY <2>2, AllocActive DEF Threads
  <2>3. ListSound
    <3>1. ASSUME NEW i \in 1..Len(flow_pool_list) PROVE status[flow_pool_list[i]] # "none"
      <4>1. flow_pool_list[i] \in Pools  BY DEF PoolInv, TypeOK
      <4> QED  BY <4>1 DEF PoolInv, ListOK, Listed
    <3> QED  BY <3>1 DEF ListSound, PoolInv, ListOK
  <2> QED  BY <2>1, <2>2, <2>3 DEF NoDangling
<1> QED  BY <1>1, AlwaysInv, PTL

-----------------------------------------------------------------------------
(* Invalid pools are deleted when their last descriptor comes back *)

\* An invalid pool keeps its descriptors out and its deletion goes on.
LEMMA DrainKept ==
  ASSUME DrainOK,
         \A p \in Pools : status'[p] = "invalid" => status[p] = "invalid",
         \A d \in Descs : Out(d) => Out(d)' /\ poolOf'[d] = poolOf[d],
         \A u \in Threads : pc[u] \in Deleting => pc'[u] \in Deleting /\ pool'[u] = pool[u]
  PROVE  DrainOK'
<1> SUFFICES ASSUME NEW p \in Pools, status'[p] = "invalid"
             PROVE  \/ Outstanding(p)' # {}
                    \/ \E t \in Threads : pc'[t] \in Deleting /\ pool'[t] = p
  BY DEF DrainOK
<1>1. CASE Outstanding(p) # {}
  <2>1. PICK d \in Descs : poolOf[d] = p /\ Out(d)
    BY <1>1, OutstandingIs
  <2>2. Outstanding(p)' = {e \in Descs : poolOf'[e] = p /\ Out(e)'}
    BY DEF Outstanding, Out, Carrying
  <2>3. d \in Outstanding(p)'  BY <2>1, <2>2
  <2> QED  BY <2>3
<1>2. CASE \E t \in Threads : pc[t] \in Deleting /\ pool[t] = p
  BY <1>2
<1> QED  BY <1>1, <1>2 DEF DrainOK

\* A step of a context that does not delete a pool.
LEMMA DrainAway ==
  ASSUME DrainOK, TypeOK, NEW t \in Threads, pc[t] \notin Deleting,
         \A u \in Threads : u # t => pc'[u] = pc[u] /\ pool'[u] = pool[u],
         \A p \in Pools : status'[p] = "invalid" => status[p] = "invalid",
         \A d \in Descs : Out(d) => Out(d)' /\ poolOf'[d] = poolOf[d]
  PROVE  DrainOK'
<1>1. \A u \in Threads : pc[u] \in Deleting => pc'[u] \in Deleting /\ pool'[u] = pool[u]
  OBVIOUS
<1> QED  BY <1>1, DrainKept

\* Transmission.
LEMMA DrainSend ==
  ASSUME PoolInv, DrainOK, NEW t \in Threads,
         \/ \E v \in Vdevs : ol_tx_desc_alloc_wrapper(t, v)
         \/ ol_tx_desc_alloc(t)
         \/ StopQueue(t)
         \/ Send(t)
  PROVE  DrainOK'
<1> USE DEF PoolInv
<1>1. CASE \E v \in Vdevs : ol_tx_desc_alloc_wrapper(t, v)
  <2>1. /\ pc[t] = "idle" /\ pc' = [pc EXCEPT ![t] = "alloc"] /\ UNCHANGED <<pools, netif, held>>
        /\ \E q : pool' = [pool EXCEPT ![t] = q]
    BY <1>1 DEF ol_tx_desc_alloc_wrapper, Goto, DataFrame, MgmtFrame
  <2>2. \A u \in Threads : u # t => pc'[u] = pc[u] /\ pool'[u] = pool[u]
    BY <2>1 DEF TypeOK
  <2>3. \A d \in Descs : Out(d) => Out(d)' /\ poolOf'[d] = poolOf[d]
    BY <2>1, <2>2 DEF Out, Carrying, netif, pools
  <2> QED  BY <2>1, <2>2, <2>3, DrainAway DEF Deleting, pools
<1>2. CASE ol_tx_desc_alloc(t)
  <2>1. /\ pc[t] = "alloc" /\ UNCHANGED <<poolOf, inflight>>
        /\ \E l \in Pcs : pc' = [pc EXCEPT ![t] = l]
        /\ \E q : pool' = [pool EXCEPT ![t] = q]
        /\ \E h : held' = [held EXCEPT ![t] = h]
        /\ \A p \in Pools : status'[p] = "invalid" => status[p] = "invalid"
    <3>1. pc[t] = "alloc" /\ UNCHANGED <<poolOf, inflight>>
      BY <1>2 DEF ol_tx_desc_alloc, netif
    <3>2. CASE Return(t) /\ UNCHANGED <<status, freelist, held>>
      <4>1. held' = [held EXCEPT ![t] = held[t]]  BY <3>2 DEF TypeOK
      <4> QED  BY <3>1, <3>2, <4>1 DEF Return, Goto, Pcs
    <3>3. CASE /\ \E d : held' = [held EXCEPT ![t] = {d}]
               /\ IF BelowStop(pool[t])
                  THEN status' = [status EXCEPT ![pool[t]] = "paused"] /\ Goto(t, "pause")
                  ELSE UNCHANGED status /\ Goto(t, "send")
               /\ UNCHANGED <<pool, flow>>
      <4>1. pool' = [pool EXCEPT ![t] = pool[t]]  BY <3>3 DEF TypeOK
      <4>2. \A p \in Pools : status'[p] = "invalid" => status[p] = "invalid"
        BY <3>3 DEF TypeOK
      <4> QED  BY <3>1, <3>3, <4>1, <4>2 DEF Goto, Pcs
    <3> QED  BY <1>2, <3>2, <3>3 DEF ol_tx_desc_alloc
  <2>2. \A u \in Threads : u # t => pc'[u] = pc[u] /\ pool'[u] = pool[u] /\ held'[u] = held[u]
    BY <2>1 DEF TypeOK
  <2>3. \A d \in Descs : Out(d) => Out(d)' /\ poolOf'[d] = poolOf[d]
    BY <2>1, <2>2 DEF Out, Carrying
  <2> QED  BY <2>1, <2>2, <2>3, DrainAway DEF Deleting
<1>3. CASE StopQueue(t)
  <2>1. /\ pc[t] = "pause" /\ pc' = [pc EXCEPT ![t] = "send"]
        /\ UNCHANGED <<pools, inflight, locals>>
    BY <1>3 DEF StopQueue, Goto
  <2>2. pc'[t] = "send" /\ \A u \in Threads : u # t => pc'[u] = pc[u] /\ pool'[u] = pool[u]
    BY <2>1 DEF TypeOK, locals
  <2>3. \A d \in Descs : Out(d) => Out(d)' /\ poolOf'[d] = poolOf[d]
    BY <2>1, <2>2 DEF Out, Carrying, locals, pools
  <2> QED  BY <2>1, <2>2, <2>3, DrainAway DEF Deleting, pools
<1>4. CASE Send(t)
  <2>1. /\ pc[t] = "send" /\ UNCHANGED <<status, poolOf>>
        /\ \/ /\ inflight' = inflight \cup held[t] /\ held' = [held EXCEPT ![t] = {}]
              /\ pc' = [pc EXCEPT ![t] = "idle"] /\ pool' = [pool EXCEPT ![t] = NoPool]
           \/ pc' = [pc EXCEPT ![t] = "free"] /\ UNCHANGED <<inflight, pool, held>>
    BY <1>4 DEF Send, Return, Goto, pools, locals
  <2>2. \A u \in Threads : u # t => pc'[u] = pc[u] /\ pool'[u] = pool[u] /\ held'[u] = held[u]
    BY <2>1 DEF TypeOK
  <2>3. \A d \in held[t] : d \in inflight' \/ (d \in held'[t] /\ pc'[t] = "free")
    BY <2>1 DEF TypeOK
  <2>4. inflight \subseteq inflight'
    BY <2>1
  <2>5. \A d \in Descs : Out(d) => Out(d)' /\ poolOf'[d] = poolOf[d]
    BY <2>1, <2>2, <2>3, <2>4 DEF Out, Carrying
  <2> QED  BY <2>1, <2>2, <2>5, DrainAway DEF Deleting
<1> QED  BY <1>1, <1>2, <1>3, <1>4

\* A completion; the messages of the target; deleting a pool up to the step that
\* retires it, and after that.
LEMMA DrainWork ==
  ASSUME PoolInv, DrainOK, NEW t \in Threads,
         \/ \E d \in Descs : t = Htt /\ ol_tx_completion_handler(d)
         \/ ol_tx_free_invalid_flow_pool(t)
         \/ RemoveFromList(t)
         \/ EnlistInvalid(t)
         \/ GiveBack(t)
         \/ t = Htt /\ HttStep
         \/ \E f \in Flows : t = Htt /\ ol_tx_flow_pool_unmap_handler(f)
  PROVE  DrainOK'
<1> USE DEF PoolInv
<1>1. CASE \E d \in Descs : t = Htt /\ ol_tx_completion_handler(d)
  <2>1. PICK d \in Descs : t = Htt /\ ol_tx_completion_handler(d)
    BY <1>1
  <2>2. /\ pc[t] = "idle" /\ inflight' = inflight \ {d} /\ held' = [held EXCEPT ![t] = {d}]
        /\ pc' = [pc EXCEPT ![t] = "free"] /\ UNCHANGED <<pools, pool>>
    BY <2>1 DEF ol_tx_completion_handler, Goto
  <2>3. /\ pc'[t] = "free" /\ held'[t] = {d}
        /\ \A u \in Threads : u # t => pc'[u] = pc[u] /\ pool'[u] = pool[u] /\ held'[u] = held[u]
    BY <2>2 DEF TypeOK
  <2>4. \A e \in Descs : Out(e) => Out(e)' /\ poolOf'[e] = poolOf[e]
    BY <2>2, <2>3 DEF Out, Carrying, pools
  <2> QED  BY <2>2, <2>3, <2>4, DrainAway DEF Deleting, pools
<1>2. CASE ol_tx_free_invalid_flow_pool(t) \/ RemoveFromList(t)
  <2>1. PICK l \in {"remove", "retire"} :
          /\ pc[t] \in {"shrink", "remove"} /\ pc' = [pc EXCEPT ![t] = l]
          /\ UNCHANGED <<status, poolOf, netif, locals>>
    BY <1>2 DEF ol_tx_free_invalid_flow_pool, RemoveFromList, Goto, pools
  <2>2. pc'[t] = l /\ \A u \in Threads : u # t => pc'[u] = pc[u]
    BY <2>1 DEF TypeOK
  <2>3. \A d \in Descs : Out(d) => Out(d)' /\ poolOf'[d] = poolOf[d]
    BY <2>1, <2>2 DEF Out, Carrying, netif, locals
  <2> QED  BY <2>1, <2>2, <2>3, DrainKept DEF Deleting, locals
<1>3. CASE EnlistInvalid(t)
  <2>1. /\ pc[t] = "enlist" /\ pc' = [pc EXCEPT ![t] = "give"] /\ UNCHANGED <<pools, netif, locals>>
    BY <1>3 DEF EnlistInvalid, Goto
  <2>2. pc'[t] = "give" /\ \A u \in Threads : u # t => pc'[u] = pc[u] /\ pool'[u] = pool[u]
    BY <2>1 DEF TypeOK, locals
  <2>3. \A d \in Descs : Out(d) => Out(d)' /\ poolOf'[d] = poolOf[d]
    BY <2>1, <2>2 DEF Out, Carrying, netif, locals, pools
  <2> QED  BY <2>1, <2>2, <2>3, DrainAway DEF Deleting, pools
<1>4. CASE GiveBack(t)
  <2>1. /\ pc[t] = "give" /\ pc' = [pc EXCEPT ![t] = "idle"] /\ UNCHANGED <<pools, netif>>
        /\ held' = [held EXCEPT ![t] = {}] /\ pool' = [pool EXCEPT ![t] = NoPool]
    BY <1>4 DEF GiveBack, Return, Goto
  <2>2. \A u \in Threads : u # t => pc'[u] = pc[u] /\ pool'[u] = pool[u] /\ held'[u] = held[u]
    BY <2>1 DEF TypeOK
  <2>3. \A d \in Descs : Out(d) => Out(d)' /\ poolOf'[d] = poolOf[d]
    BY <2>1, <2>2 DEF Out, Carrying, netif, pools
  <2> QED  BY <2>1, <2>2, <2>3, DrainAway DEF Deleting, pools
<1>5. CASE t = Htt /\ HttStep
  <2>1. /\ pc[t] \in MapPcs /\ UNCHANGED <<status, poolOf, inflight, held>>
        /\ \E l \in Pcs : pc' = [pc EXCEPT ![t] = l]
        /\ UNCHANGED pool \/ pool' = [pool EXCEPT ![t] = NoPool]
    BY <1>5 DEF HttStep, ol_tx_flow_pool_vdev_map, SetMember, ol_tx_flow_pool_vdev_unmap,
                ClearMember, Return, Goto, pools, netif, locals, MapPcs, Pcs
  <2>2. \A u \in Threads : u # t => pc'[u] = pc[u] /\ pool'[u] = pool[u]
    BY <2>1 DEF TypeOK
  <2>3. \A d \in Descs : Out(d) => Out(d)' /\ poolOf'[d] = poolOf[d]
    BY <2>1, <2>2 DEF Out, Carrying, MapPcs
  <2> QED  BY <2>1, <2>2, <2>3, DrainAway DEF Deleting, MapPcs
<1>6. CASE \E f \in Flows : t = Htt /\ ol_tx_flow_pool_unmap_handler(f)
  <2>1. /\ pc[t] = "idle" /\ UNCHANGED <<pools, netif, held>>
        /\ \E l \in Pcs : pc' = [pc EXCEPT ![t] = l]
        /\ \E q : pool' = [pool EXCEPT ![t] = q]
    BY <1>6 DEF ol_tx_flow_pool_unmap_handler, Goto, Pcs
  <2>2. \A u \in Threads : u # t => pc'[u] = pc[u] /\ pool'[u] = pool[u]
    BY <2>1 DEF TypeOK
  <2>3. \A d \in Descs : Out(d) => Out(d)' /\ poolOf'[d] = poolOf[d]
    BY <2>1, <2>2 DEF Out, Carrying, pools, netif
  <2> QED  BY <2>1, <2>2, <2>3, DrainAway DEF Deleting, pools
<1> QED  BY <1>1, <1>2, <1>3, <1>4, <1>5, <1>6

\* ol_tx_flow_pool_map_handler takes descriptors of the global pool only.
LEMMA DrainMap ==
  ASSUME PoolInv, DrainOK, NEW f \in Flows, ol_tx_flow_pool_map_handler(f)
  PROVE  DrainOK'
<1> USE DEF PoolInv
<1>0. Htt \in Threads  BY DEF Threads
<1>1. /\ pc[Htt] = "idle" /\ UNCHANGED <<inflight, held>>
      /\ \E l \in Pcs : pc' = [pc EXCEPT ![Htt] = l]
  BY DEF ol_tx_flow_pool_map_handler, netif, Goto, Pcs
<1>2. /\ \E q : pool' = [pool EXCEPT ![Htt] = q]
      /\ \A p \in Pools : status'[p] = "invalid" => status[p] = "invalid"
      /\ \A d \in Descs : d \notin globalFree => poolOf'[d] = poolOf[d]
  <2>1. CASE \E p \in Pools : ol_tx_create_flow_pool(f, p)
    <3>1. PICK p \in Pools : ol_tx_create_flow_pool(f, p)
      BY <2>1
    <3>2. PICK taken \in SUBSET globalFree :
            /\ poolOf' = [d \in Descs |-> IF d \in taken THEN p ELSE poolOf[d]]
            /\ status' = [status EXCEPT ![p] = "unpaused"] /\ pool' = [pool EXCEPT ![Htt] = p]
      BY <3>1, Zenon DEF ol_tx_create_flow_pool
    <3> QED  BY <3>2 DEF TypeOK
  <2>2. CASE /\ \E p \in PoolsOf(f) : pool' = [pool EXCEPT ![Htt] = p]
             /\ UNCHANGED <<globalFree, flow_pool_list, pools>>
    BY <2>2 DEF pools
  <2> QED  BY <2>1, <2>2 DEF ol_tx_flow_pool_map_handler
<1>3. \A u \in Threads : u # Htt => pc'[u] = pc[u] /\ pool'[u] = pool[u]
  BY <1>1, <1>2 DEF TypeOK
<1>4. \A d \in Descs : Out(d) => Out(d)' /\ poolOf'[d] = poolOf[d]
  <2>1. ASSUME NEW d \in Descs, Out(d) PROVE d \notin globalFree
    BY <2>1 DEF Out, Once
  <2>2. \A d \in Descs : Out(d) => Out(d)'
    BY <1>0, <1>1, <1>3 DEF Out, Carrying
  <2> QED  BY <1>2, <2>1, <2>2
<1> QED  BY <1>0, <1>1, <1>2, <1>3, <1>4, DrainAway DEF Deleting

\* ol_tx_distribute_descs_to_deficient_pools moves free descriptors only.
LEMMA DrainDistribute ==
  ASSUME PoolInv, DrainOK, NEW t \in Threads, ol_tx_distribute_descs_to_deficient_pools(t)
  PROVE  DrainOK'
<1> USE DEF PoolInv
<1>1. /\ pc[t] = "distribute" /\ pc' = [pc EXCEPT ![t] = "shrink"]
      /\ UNCHANGED <<status, inflight, pool, held>>
      /\ \A d \in Descs : d \notin freelist[pool[t]] => poolOf'[d] = poolOf[d]
  BY DEF ol_tx_distribute_descs_to_deficient_pools, Goto, netif, locals
<1>2. pool[t] \in Pools
  BY <1>1 DEF WorkOK, WorkAt, Work, Pcs
<1>3. pc'[t] = "shrink" /\ \A u \in Threads : u # t => pc'[u] = pc[u]
  BY <1>1 DEF TypeOK
<1>4. \A d \in Descs : Out(d) => Out(d)' /\ poolOf'[d] = poolOf[d]
  <2>1. ASSUME NEW d \in Descs, Out(d) PROVE d \notin freelist[pool[t]]
    BY <1>2, <2>1 DEF Out, Once
  <2>2. \A d \in Descs : Out(d) => Out(d)'
    BY <1>1, <1>3 DEF Out, Carrying
  <2> QED  BY <1>1, <2>1, <2>2
<1> QED  BY <1>1, <1>3, <1>4, DrainKept DEF Deleting

\* A pool becomes invalid only when a descriptor is out, and an invalid pool that
\* is complete is freed.
LEMMA DrainRetire ==
  ASSUME PoolInv, DrainOK, NoShortfall, NEW t \in Threads, RetirePool(t)
  PROVE  DrainOK'
<1> USE DEF PoolInv
<1>1. /\ pc[t] = "retire" /\ Runs(t) /\ UNCHANGED <<poolOf, inflight, pool>>
      /\ held' = [held EXCEPT ![t] = freelist[pool[t]]]
      /\ \E l \in Pcs : pc' = [pc EXCEPT ![t] = l]
  BY DEF RetirePool, netif, Goto, Pcs
<1>2. PICK p \in Pools : p = pool[t] /\ status[p] # "none"
  BY <1>1 DEF WorkOK, WorkAt, Work, Pcs
<1>3. /\ \A u \in Threads : u # t => pc'[u] = pc[u] /\ held'[u] = held[u]
      /\ \A u \in Threads : u # t => pc[u] \notin Work
  BY <1>1, OneWorks DEF TypeOK, Work, Pcs
<1>4. \A d \in Descs : Out(d) => Out(d)' /\ poolOf'[d] = poolOf[d]
  BY <1>1, <1>3 DEF Out, Carrying
<1>5. /\ Cardinality(freelist[p]) + Cardinality(Outstanding(p)) = flow_pool_size[p]
      /\ Cardinality(freelist[p]) \in Nat /\ Cardinality(Outstanding(p)) \in Nat
  <2>1. \A u \in Threads : pc[u] # "shrink"
    BY <1>1, <1>3 DEF Work, Pcs
  <2>2. Cardinality(freelist[p]) + Cardinality(Outstanding(p)) + deficient_desc[p]
          = flow_pool_size[p]
    BY <1>2, <2>1 DEF SizesAddUp
  <2>3. Cardinality(freelist[p]) \in Nat /\ Cardinality(Outstanding(p)) \in Nat
    BY OutstandingIs
  <2>4. deficient_desc[p] = 0  BY DEF NoShortfall
  <2> QED  BY <2>2, <2>3, <2>4
<1>6. CASE Complete(p)
  <2>1. status' = [status EXCEPT ![p] = "none"]
    BY <1>2, <1>6 DEF RetirePool
  <2>2. \A q \in Pools : status'[q] = "invalid" => status[q] = "invalid" /\ q # p
    BY <2>1 DEF TypeOK
  <2> SUFFICES ASSUME NEW q \in Pools, status'[q] = "invalid"
               PROVE  Outstanding(q)' # {}
    BY DEF DrainOK
  <2>3. \A u \in Threads : pc[u] \in Deleting => pool[u] # q
    BY <1>1, <1>2, <1>3, <2>2 DEF Deleting, Work, Pcs
  <2>4. Outstanding(q) # {}  BY <2>2, <2>3 DEF DrainOK
  <2>5. PICK d \in Descs : poolOf[d] = q /\ Out(d)  BY <2>4, OutstandingIs
  <2>6. Outstanding(q)' = {e \in Descs : poolOf'[e] = q /\ Out(e)'}
    BY DEF Outstanding, Out, Carrying
  <2>7. d \in Outstanding(q)'  BY <1>4, <2>5, <2>6
  <2> QED  BY <2>7
<1>7. CASE ~Complete(p)
  <2>1. status' = [status EXCEPT ![p] = "invalid"]
    BY <1>2, <1>7 DEF RetirePool
  <2>2. \A q \in Pools : q # p => status'[q] = status[q]
    BY <2>1 DEF TypeOK
  <2>3. Outstanding(p) # {}
    <3>1. Cardinality(Outstanding(p)) # 0  BY <1>5, <1>7 DEF Complete
    <3> QED  BY <3>1, FS_EmptySet
  <2> SUFFICES ASSUME NEW q \in Pools, status'[q] = "invalid"
               PROVE  Outstanding(q)' # {}
    BY DEF DrainOK
  <2>4. Outstanding(q) # {}
    <3>1. CASE q = p  BY <2>3, <3>1
    <3>2. CASE q # p
      <4>1. \A u \in Threads : pc[u] \in Deleting => pool[u] # q
        BY <1>1, <1>2, <1>3, <3>2 DEF Deleting, Work, Pcs
      <4> QED  BY <2>2, <3>2, <4>1 DEF DrainOK
    <3> QED  BY <3>1, <3>2
  <2>5. PICK d \in Descs : poolOf[d] = q /\ Out(d)  BY <2>4, OutstandingIs
  <2>6. Outstanding(q)' = {e \in Descs : poolOf'[e] = q /\ Out(e)'}
    BY DEF Outstanding, Out, Carrying
  <2>7. d \in Outstanding(q)'  BY <1>4, <2>5, <2>6
  <2> QED  BY <2>7
<1> QED  BY <1>6, <1>7

\* ol_tx_desc_free deletes an invalid pool with the last descriptor that was out.
LEMMA DrainFree ==
  ASSUME PoolInv, DrainOK, NoShortfall, NEW t \in Threads, ol_tx_desc_free(t)
  PROVE  DrainOK'
<1> USE DEF PoolInv
<1>1. /\ pc[t] = "free" /\ Runs(t) /\ held' = [held EXCEPT ![t] = {}]
      /\ UNCHANGED <<poolOf, inflight>>
  BY DEF ol_tx_desc_free
<1>2. PICK d \in held[t] :
        \/ /\ status[poolOf[d]] = "paused"
           /\ status' = [status EXCEPT ![poolOf[d]] = "unpaused"]
           /\ Return(t)
        \/ /\ status[poolOf[d]] = "invalid"
           /\ pool' = [pool EXCEPT ![t] = poolOf[d]]
           /\ Goto(t, "distribute")
           /\ UNCHANGED status
        \/ /\ ~(status[poolOf[d]] = "invalid" /\ AllBack(poolOf[d]))
           /\ Return(t) /\ UNCHANGED status
  BY DEF ol_tx_desc_free
<1>3. held[t] = {d} /\ d \in Descs
  BY <1>1, <1>2 DEF HeldOK, Carrying
<1>4. PICK p : p = poolOf[d]
  OBVIOUS
<1>5. p \in Pools /\ Out(d)
  BY <1>1, <1>3, <1>4 DEF OwnOK, Out, Carrying
<1>6. /\ \A u \in Threads : u # t => /\ pc'[u] = pc[u] /\ pool'[u] = pool[u]
                                     /\ held'[u] = held[u] /\ pc[u] \notin Work
      /\ \A q \in Pools : status'[q] = "invalid" => status[q] = "invalid"
  <2>1. \A u \in Threads : u # t => pc[u] \notin Work
    BY <1>1, OneWorks DEF Work, Pcs
  <2>2. \A u \in Threads : u # t => /\ pc'[u] = pc[u] /\ pool'[u] = pool[u]
                                    /\ held'[u] = held[u]
    BY <1>1, <1>2 DEF Return, Goto, TypeOK
  <2>3. \A q \in Pools : status'[q] = "invalid" => status[q] = "invalid"
    BY <1>2 DEF TypeOK
  <2> QED  BY <2>1, <2>2, <2>3
<1>7. \A e \in Descs : Out(e) /\ e # d => Out(e)'
  BY <1>1, <1>3, <1>6 DEF Out
<1>8. ASSUME NEW q \in Pools, NEW e \in Descs, poolOf[e] = q, Out(e), e # d
      PROVE  Outstanding(q)' # {}
  <2>1. Outstanding(q)' = {c \in Descs : poolOf'[c] = q /\ Out(c)'}
    BY DEF Outstanding, Out, Carrying
  <2>2. e \in Outstanding(q)'  BY <1>1, <1>7, <1>8, <2>1
  <2> QED  BY <2>2
<1> SUFFICES ASSUME NEW q \in Pools, status'[q] = "invalid"
             PROVE  \/ Outstanding(q)' # {}
                    \/ \E u \in Threads : pc'[u] \in Deleting /\ pool'[u] = q
  BY DEF DrainOK
<1>9. status[q] = "invalid"  BY <1>6
<1>10. CASE q # p
  <2>1. \A u \in Threads : pc[u] \notin Deleting
    BY <1>1, <1>6 DEF Deleting, Work, Pcs
  <2>2. Outstanding(q) # {}  BY <1>9, <2>1 DEF DrainOK
  <2>3. PICK e \in Descs : poolOf[e] = q /\ Out(e)  BY <2>2, OutstandingIs
  <2> QED  BY <1>4, <1>8, <1>10, <2>3
<1>11. CASE q = p /\ pool' = [pool EXCEPT ![t] = p] /\ Goto(t, "distribute")
  <2>1. pc'[t] \in Deleting /\ pool'[t] = q
    BY <1>11 DEF Goto, Deleting, TypeOK
  <2> QED  BY <2>1
<1>12. CASE q = p /\ ~AllBack(p)
  <2>1. /\ Cardinality(freelist[p]) + Cardinality(Outstanding(p)) = flow_pool_size[p]
        /\ Cardinality(freelist[p]) \in Nat /\ Cardinality(Outstanding(p)) \in Nat
    <3>1. \A u \in Threads : pc[u] # "shrink"
      BY <1>1, <1>6 DEF Work, Pcs
    <3>2. Cardinality(freelist[p]) + Cardinality(Outstanding(p)) + deficient_desc[p]
            = flow_pool_size[p]
      BY <1>5, <1>9, <1>12, <3>1 DEF SizesAddUp
    <3>3. Cardinality(freelist[p]) \in Nat /\ Cardinality(Outstanding(p)) \in Nat
      BY <1>5, OutstandingIs
    <3>4. deficient_desc[p] = 0  BY <1>5 DEF NoShortfall
    <3> QED  BY <3>2, <3>3, <3>4
  <2>2. Cardinality(Outstanding(p)) # 1  BY <1>12, <2>1 DEF AllBack
  <2>3. Outstanding(p) = {e \in Descs : poolOf[e] = p /\ Out(e)}
    BY <1>5, OutstandingIs
  <2>4. d \in Outstanding(p)  BY <1>3, <1>4, <1>5, <2>3
  <2>5. PICK e \in Outstanding(p) : e # d
    <3>1. Cardinality({d}) = 1  BY FS_Singleton
    <3>2. Outstanding(p) # {d}  BY <2>2, <3>1
    <3> QED  BY <2>4, <3>2
  <2> QED  BY <1>8, <1>12, <2>3, <2>5
<1> QED  BY <1>2, <1>4, <1>9, <1>10, <1>11, <1>12

\* Every step keeps invalid pools draining.
LEMMA DrainStep ==
  ASSUME PoolInv, DrainOK, NoShortfall, [Next]_vars
  PROVE  DrainOK'
<1>1. CASE UNCHANGED vars
  BY <1>1 DEF vars, lists, pools, netif, locals, DrainOK, Outstanding
<1>2. ASSUME NEW t \in Senders, NEW v \in Vdevs, ol_tx_desc_alloc_wrapper(t, v) PROVE DrainOK'
  BY <1>2, DrainSend DEF Threads
<1>3. ASSUME NEW t \in Threads, ThreadStep(t) PROVE DrainOK'
  BY <1>3, DrainSend, DrainWork, DrainFree, DrainDistribute, DrainRetire, Zenon DEF ThreadStep
<1>4. Htt \in Threads  BY DEF Threads
<1>5. ASSUME HttStep PROVE DrainOK'
  BY <1>4, <1>5, DrainWork
<1>6. ASSUME NEW d \in Descs, ol_tx_completion_handler(d) PROVE DrainOK'
  BY <1>4, <1>6, DrainWork
<1>7. ASSUME NEW f \in Flows, ol_tx_flow_pool_map_handler(f) PROVE DrainOK'
  BY <1>7, DrainMap
<1>8. ASSUME NEW f \in Flows, ol_tx_flow_pool_unmap_handler(f) PROVE DrainOK'
  BY <1>4, <1>8, DrainWork
<1> QED  BY <1>1, <1>2, <1>3, <1>5, <1>6, <1>7, <1>8 DEF Next

\* A pool that was unmapped is gone once its last descriptor has come back, as
\* long as no pool was created with fewer descriptors than asked for.
THEOREM InvalidPoolsDrain ==
  ASSUME Serialized PROVE Spec /\ []NoShortfall => []InvalidDrained
<1>1. Init => DrainOK
  BY DEF Init, DrainOK
<1>2. PoolInv /\ DrainOK /\ NoShortfall /\ [Next]_vars => DrainOK'
  BY DrainStep
<1>3. DrainOK => InvalidDrained
  BY DEF DrainOK, InvalidDrained, AtRest, Deleting
<1> QED  BY <1>1, <1>2, <1>3, AlwaysInv, PTL DEF Spec

-----------------------------------------------------------------------------
(* A paused pool has descriptors out *)

\* The thresholds of a pool of size n.
LEMMA ThresholdsFit ==
  ASSUME NEW n \in Nat
  PROVE  /\ Threshold(StopTh, n) \in Nat /\ Threshold(StopTh + StartOffset, n) \in Nat
         /\ Threshold(StopTh, n) <= Threshold(StopTh + StartOffset, n)
         /\ n > 0 => Threshold(StopTh + StartOffset, n) < n
<1> DEFINE a == StopTh * n
           b == StartOffset * n
           c == (StopTh + StartOffset) * n
<1>1. StopTh \in Nat /\ StartOffset \in Nat /\ StopTh + StartOffset <= 99
  BY PoolAssumption, ThresholdAssumption
<1>2. a \in Nat /\ b \in Nat /\ c = a + b
  BY <1>1
<1>3. c <= 99 * n
  <2>1. PICK s \in Nat : s = StopTh + StartOffset /\ s <= 99  BY <1>1
  <2>2. \A x, y, z \in Nat : x <= y => x * z <= y * z  OBVIOUS
  <2> QED  BY <2>1, <2>2
<1> HIDE DEF a, b, c
<1>4. /\ a \div 100 \in Nat /\ c \div 100 \in Nat
      /\ a \div 100 <= c \div 100
      /\ n > 0 => c \div 100 < n
  BY <1>2, <1>3
<1> QED  BY <1>4 DEF a, c, Threshold

\* A step after which each pool that is active was so before, with the same size
\* and thresholds, and each paused one was paused and has gained nothing.
LEMMA PauseKept ==
  ASSUME TypeOK, PauseOK,
         \A p \in Pools : status'[p] \in Active =>
            /\ status[p] \in Active
            /\ stop_th'[p] = stop_th[p] /\ start_th'[p] = start_th[p]
            /\ flow_pool_size'[p] = flow_pool_size[p],
         \A p \in Pools : status'[p] = "paused" =>
            status[p] = "paused" /\ freelist'[p] = freelist[p]
  PROVE  PauseOK'
BY DEF PauseOK, TypeOK, Active

\* ol_tx_desc_alloc pauses a pool when it goes below the first threshold.
LEMMA PauseAlloc ==
  ASSUME PoolInv, PauseOK, NEW t \in Threads, ol_tx_desc_alloc(t)
  PROVE  PauseOK'
<1> USE DEF PoolInv
<1>1. PICK p \in Pools : p = pool[t] /\ status[p] \in Active
  BY AllocActive DEF ol_tx_desc_alloc
<1>2. UNCHANGED <<flow_pool_size, stop_th, start_th>>
  BY DEF ol_tx_desc_alloc, identity, thresholds
<1>3. CASE UNCHANGED <<status, freelist>>
  BY <1>2, <1>3, PauseKept
<1>4. CASE \E d \in freelist[p] :
              /\ freelist' = [freelist EXCEPT ![p] = @ \ {d}]
              /\ IF BelowStop(p)
                 THEN status' = [status EXCEPT ![p] = "paused"]
                 ELSE UNCHANGED status
  <2>1. PICK d \in freelist[p] :
              /\ freelist' = [freelist EXCEPT ![p] = @ \ {d}]
              /\ IF BelowStop(p)
                 THEN status' = [status EXCEPT ![p] = "paused"]
                 ELSE UNCHANGED status
    BY <1>4
  <2>2. /\ IsFiniteSet(freelist[p]) /\ Cardinality(freelist[p]) \in Nat
        /\ Cardinality(freelist[p] \ {d}) = Cardinality(freelist[p]) - 1
    <3>1. IsFiniteSet(freelist[p])
      BY PoolAssumption, FS_Subset DEF TypeOK
    <3> QED  BY <3>1, FS_RemoveElement, FS_CardinalityType
  <2>3. flow_pool_size[p] > 0
    <3>1. \A u \in Threads : pc[u] = "shrink" => pool[u] # p
      BY <1>1 DEF WorkOK, WorkAt, Active
    <3>2. Cardinality(freelist[p]) + Cardinality(Outstanding(p)) + deficient_desc[p]
            = flow_pool_size[p]
      BY <1>1, <3>1 DEF SizesAddUp, Active
    <3>3. Cardinality(Outstanding(p)) \in Nat /\ deficient_desc[p] \in Nat
      BY OutstandingIs DEF TypeOK
    <3>4. Cardinality(freelist[p]) # 0
      BY <2>1, <2>2, FS_EmptySet
    <3> QED  BY <2>2, <3>2, <3>3, <3>4
  <2>4. stop_th[p] \in Nat /\ start_th[p] \in Nat  BY DEF TypeOK
  <2>5. freelist'[p] = freelist[p] \ {d} /\ \A q \in Pools : q # p => freelist'[q] = freelist[q]
    BY <2>1 DEF TypeOK
  <2>6. \A q \in Pools : q # p => status'[q] = status[q]
    BY <2>1 DEF TypeOK
  <2>7. status'[p] \in Active
    BY <1>1, <2>1 DEF TypeOK, Active
  <2>8. status'[p] = "paused" => Cardinality(freelist'[p]) <= start_th[p]
    <3>1. CASE BelowStop(p)
      BY <1>1, <2>2, <2>4, <2>5, <3>1 DEF BelowStop, PauseOK
    <3>2. CASE ~BelowStop(p)
      <4>1. status' = status  BY <2>1, <3>2
      <4>2. status[p] = "paused" => Cardinality(freelist[p]) <= start_th[p]
        BY DEF PauseOK
      <4> QED  BY <2>2, <2>4, <2>5, <4>1, <4>2
    <3> QED  BY <3>1, <3>2
  <2> SUFFICES ASSUME NEW q \in Pools
               PROVE  /\ status'[q] \in Active
                           => /\ stop_th[q] <= start_th[q]
                              /\ flow_pool_size[q] > 0 => start_th[q] < flow_pool_size[q]
                      /\ status'[q] = "paused"
                           => /\ flow_pool_size[q] > 0
                              /\ Cardinality(freelist'[q]) <= start_th[q]
    BY <1>2 DEF PauseOK
  <2>9. CASE q # p  BY <2>5, <2>6, <2>9 DEF PauseOK
  <2>10. CASE q = p  BY <1>1, <2>3, <2>8, <2>10 DEF PauseOK
  <2> QED  BY <2>9, <2>10
<1> QED  BY <1>1, <1>3, <1>4 DEF ol_tx_desc_alloc

\* ol_tx_desc_free wakes a paused pool that goes above the second.
LEMMA PauseFree ==
  ASSUME PoolInv, PauseOK, NEW t \in Threads, ol_tx_desc_free(t)
  PROVE  PauseOK'
<1> USE DEF PoolInv
<1>1. pc[t] = "free" /\ UNCHANGED <<flow_pool_size, stop_th, start_th>>
  BY DEF ol_tx_desc_free, identity, thresholds
<1>2. PICK d \in held[t] :
        /\ freelist' = [freelist EXCEPT ![poolOf[d]] = @ \cup {d}]
        /\ \/ /\ status[poolOf[d]] = "paused"
              /\ status' = [status EXCEPT ![poolOf[d]] = "unpaused"]
           \/ status[poolOf[d]] = "invalid" /\ UNCHANGED status
           \/ /\ ~(status[poolOf[d]] = "paused" /\ AboveStart(poolOf[d]))
              /\ UNCHANGED status
  BY DEF ol_tx_desc_free
<1>3. held[t] = {d} /\ d \in Descs
  BY <1>1, <1>2 DEF HeldOK, Carrying
<1>4. PICK p \in Pools : p = poolOf[d]
  BY <1>1, <1>3 DEF OwnOK, Out, Carrying
<1>5. /\ Cardinality(freelist[p]) \in Nat
      /\ Cardinality(freelist[p] \cup {d}) <= Cardinality(freelist[p]) + 1
      /\ Cardinality(freelist[p] \cup {d}) \in Nat
  <2>1. IsFiniteSet(freelist[p])
    BY PoolAssumption, FS_Subset DEF TypeOK
  <2>2. Cardinality(freelist[p]) \in Nat  BY <2>1, FS_CardinalityType
  <2>3. Cardinality(freelist[p] \cup {d})
          = IF d \in freelist[p] THEN Cardinality(freelist[p]) ELSE Cardinality(freelist[p]) + 1
    BY <2>1, FS_AddElement
  <2> QED  BY <2>2, <2>3
<1>6. freelist'[p] = freelist[p] \cup {d} /\ \A q \in Pools : q # p => freelist'[q] = freelist[q]
  BY <1>2, <1>4 DEF TypeOK
<1>7. /\ \A q \in Pools : q # p => status'[q] = status[q]
      /\ status'[p] \in Active => status[p] \in Active
      /\ status'[p] = "paused" => status[p] = "paused" /\ ~AboveStart(p)
  BY <1>2, <1>4 DEF TypeOK, Active
<1>8. start_th[p] \in Nat  BY DEF TypeOK
<1>9. status'[p] = "paused" => Cardinality(freelist'[p]) <= start_th[p]
  BY <1>5, <1>6, <1>7, <1>8 DEF AboveStart
<1> SUFFICES ASSUME NEW q \in Pools
             PROVE  /\ status'[q] \in Active
                         => /\ stop_th[q] <= start_th[q]
                            /\ flow_pool_size[q] > 0 => start_th[q] < flow_pool_size[q]
                    /\ status'[q] = "paused"
                         => /\ flow_pool_size[q] > 0
                            /\ Cardinality(freelist'[q]) <= start_th[q]
  BY <1>1 DEF PauseOK
<1>10. CASE q # p  BY <1>6, <1>7, <1>10 DEF PauseOK
<1>11. CASE q = p  BY <1>7, <1>9, <1>11 DEF PauseOK
<1> QED  BY <1>10, <1>11

\* The steps that leave sizes, thresholds, status and free lists alone, and the one
\* that retires a pool.
LEMMA PauseOther ==
  ASSUME PoolInv, PauseOK, NEW t \in Threads,
         \/ \E v \in Vdevs : ol_tx_desc_alloc_wrapper(t, v)
         \/ StopQueue(t)
         \/ Send(t)
         \/ \E d \in Descs : ol_tx_completion_handler(d)
         \/ RemoveFromList(t)
         \/ RetirePool(t)
         \/ EnlistInvalid(t)
         \/ GiveBack(t)
         \/ HttStep
         \/ \E f \in Flows : ol_tx_flow_pool_unmap_handler(f)
  PROVE  PauseOK'
<1> USE DEF PoolInv
<1>1. CASE UNCHANGED <<status, flow_pool_size, stop_th, start_th, freelist>>
  BY <1>1, PauseKept
<1>2. CASE RetirePool(t)
  <2>1. PICK p \in Pools : p = pool[t]
    BY <1>2 DEF RetirePool, WorkOK, WorkAt, Work, Pcs
  <2>2. /\ \E s \in {"none", "invalid"} : status' = [status EXCEPT ![p] = s]
        /\ freelist' = [freelist EXCEPT ![p] = {}]
        /\ \/ UNCHANGED flow_pool_size
           \/ \E n : flow_pool_size' = [flow_pool_size EXCEPT ![p] = n]
        /\ UNCHANGED <<stop_th, start_th>>
    BY <1>2, <2>1 DEF RetirePool, Left, thresholds
  <2>3. /\ status'[p] \notin Active
        /\ \A q \in Pools : q # p => /\ status'[q] = status[q] /\ freelist'[q] = freelist[q]
                                     /\ flow_pool_size'[q] = flow_pool_size[q]
    BY <2>2 DEF TypeOK, Active
  <2> QED  BY <2>2, <2>3, PauseKept DEF Active
<1>3. CASE \/ \E v \in Vdevs : ol_tx_desc_alloc_wrapper(t, v)
           \/ StopQueue(t) \/ Send(t)
           \/ \E d \in Descs : ol_tx_completion_handler(d)
           \/ RemoveFromList(t) \/ EnlistInvalid(t) \/ GiveBack(t)
           \/ \E f \in Flows : ol_tx_flow_pool_unmap_handler(f)
  BY <1>1, <1>3 DEF ol_tx_desc_alloc_wrapper, StopQueue, Send, ol_tx_completion_handler,
     RemoveFromList, EnlistInvalid, GiveBack, ol_tx_flow_pool_unmap_handler, pools, identity,
     thresholds
<1>4. CASE HttStep
  BY <1>1, <1>4 DEF HttStep, ol_tx_flow_pool_vdev_map, SetMember, ol_tx_flow_pool_vdev_unmap,
     ClearMember, pools, identity, thresholds
<1> QED  BY <1>2, <1>3, <1>4

\* The distribution gives nothing where nothing is lacking, and the size that
\* changes is that of an invalid pool.
LEMMA PauseGive ==
  ASSUME PoolInv, PauseOK, NoShortfall, NEW t \in Threads,
         ol_tx_distribute_descs_to_deficient_pools(t) \/ ol_tx_free_invalid_flow_pool(t)
  PROVE  PauseOK'
<1> USE DEF PoolInv
<1>1. PICK p \in Pools : p = pool[t] /\ status[p] = "invalid"
  BY DEF ol_tx_distribute_descs_to_deficient_pools, ol_tx_free_invalid_flow_pool, WorkOK, WorkAt,
         Work, Pcs
<1>2. CASE ol_tx_free_invalid_flow_pool(t)
  <2>1. /\ UNCHANGED <<status, stop_th, start_th, freelist>>
        /\ \E n : flow_pool_size' = [flow_pool_size EXCEPT ![p] = n]
    BY <1>1, <1>2 DEF ol_tx_free_invalid_flow_pool, thresholds
  <2>2. \A q \in Pools : q # p => flow_pool_size'[q] = flow_pool_size[q]
    BY <2>1 DEF TypeOK
  <2> QED  BY <1>1, <2>1, <2>2, PauseKept DEF Active
<1>3. CASE ol_tx_distribute_descs_to_deficient_pools(t)
  <2>1. PICK to \in [freelist[p] -> 0..Len(flow_pool_list)] :
          /\ Greedy(p, to)
          /\ freelist' = [q \in Pools |->
                {d \in freelist[p] : Target(p, to, d) = q}
                \cup (IF q = p THEN {} ELSE freelist[q])]
    BY <1>1, <1>3 DEF ol_tx_distribute_descs_to_deficient_pools
  <2>2. \A d \in freelist[p] : to[d] = 0
    <3> SUFFICES ASSUME NEW d \in freelist[p], to[d] # 0 PROVE FALSE
      OBVIOUS
    <3>1. to[d] \in 1..Len(flow_pool_list)
      BY DEF TypeOK
    <3>2. PICK i \in 1..Len(flow_pool_list) : i = to[d]
      BY <3>1
    <3>3. flow_pool_list[i] \in Pools  BY DEF TypeOK
    <3>4. Cardinality(To(p, to, i)) <= 0
      BY <2>1, <3>3 DEF Greedy, NoShortfall
    <3>5. IsFiniteSet(To(p, to, i))
      <4>1. To(p, to, i) \in SUBSET Descs  BY DEF To, TypeOK
      <4> QED  BY <4>1, PoolAssumption, FS_Subset
    <3>6. Cardinality(To(p, to, i)) \in Nat  BY <3>5, FS_CardinalityType
    <3>7. To(p, to, i) = {}  BY <3>4, <3>5, <3>6, FS_EmptySet
    <3> QED  BY <3>2, <3>7 DEF To
  <2>3. \A q \in Pools : q # p => freelist'[q] = freelist[q]
    BY <2>1, <2>2 DEF Target
  <2>4. UNCHANGED <<status, flow_pool_size, stop_th, start_th>>
    BY <1>3 DEF ol_tx_distribute_descs_to_deficient_pools, identity, thresholds
  <2> QED  BY <1>1, <2>3, <2>4, PauseKept
<1> QED  BY <1>2, <1>3

\* ol_tx_create_flow_pool sets both thresholds.
LEMMA PauseMap ==
  ASSUME PoolInv, PauseOK, NEW f \in Flows, ol_tx_flow_pool_map_handler(f)
  PROVE  PauseOK'
<1> USE DEF PoolInv
<1>1. CASE UNCHANGED pools
  BY <1>1, PauseKept DEF pools, identity, thresholds
<1>2. CASE \E p \in Pools : ol_tx_create_flow_pool(f, p)
  <2>1. PICK p \in Pools : ol_tx_create_flow_pool(f, p)
    BY <1>2
  <2>2. PICK taken :
          /\ freelist' = [freelist EXCEPT ![p] = taken]
          /\ status' = [status EXCEPT ![p] = "unpaused"]
          /\ flow_pool_size' = [flow_pool_size EXCEPT ![p] = SizeOf[f]]
          /\ stop_th' = [stop_th EXCEPT ![p] = Threshold(StopTh, SizeOf[f])]
          /\ start_th' = [start_th EXCEPT ![p] = Threshold(StopTh + StartOffset, SizeOf[f])]
    BY <2>1, Zenon DEF ol_tx_create_flow_pool
  <2>3. SizeOf[f] \in Nat  BY PoolAssumption
  <2>4. /\ Threshold(StopTh, SizeOf[f]) <= Threshold(StopTh + StartOffset, SizeOf[f])
        /\ SizeOf[f] > 0 => Threshold(StopTh + StartOffset, SizeOf[f]) < SizeOf[f]
    BY <2>3, ThresholdsFit
  <2>5. /\ status'[p] = "unpaused" /\ flow_pool_size'[p] = SizeOf[f]
        /\ stop_th'[p] = Threshold(StopTh, SizeOf[f])
        /\ start_th'[p] = Threshold(StopTh + StartOffset, SizeOf[f])
    BY <2>2 DEF TypeOK
  <2>6. \A q \in Pools : q # p =>
           /\ status'[q] = status[q] /\ flow_pool_size'[q] = flow_pool_size[q]
           /\ stop_th'[q] = stop_th[q] /\ start_th'[q] = start_th[q]
           /\ freelist'[q] = freelist[q]
    BY <2>2 DEF TypeOK
  <2> SUFFICES ASSUME NEW q \in Pools
               PROVE  /\ status'[q] \in Active
                           => /\ stop_th'[q] <= start_th'[q]
                              /\ flow_pool_size'[q] > 0 => start_th'[q] < flow_pool_size'[q]
                      /\ status'[q] = "paused"
                           => /\ flow_pool_size'[q] > 0
                              /\ Cardinality(freelist'[q]) <= start_th'[q]
    BY DEF PauseOK
  <2>7. CASE q # p  BY <2>6, <2>7 DEF PauseOK
  <2>8. CASE q = p  BY <2>4, <2>5, <2>8
  <2> QED  BY <2>7, <2>8
<1> QED  BY <1>1, <1>2 DEF ol_tx_flow_pool_map_handler

\* Every step keeps it.
LEMMA PauseStep ==
  ASSUME PoolInv, PauseOK, NoShortfall, [Next]_vars
  PROVE  PauseOK'
<1>1. CASE UNCHANGED vars
  BY <1>1, PauseKept DEF vars, pools, identity, thresholds, PoolInv
<1>2. ASSUME NEW t \in Senders, NEW v \in Vdevs, ol_tx_desc_alloc_wrapper(t, v) PROVE PauseOK'
  BY <1>2, PauseOther DEF Threads
<1>3. ASSUME NEW t \in Threads, ThreadStep(t) PROVE PauseOK'
  BY <1>3, PauseAlloc, PauseFree, PauseOther, PauseGive, Zenon DEF ThreadStep
<1>4. Htt \in Threads  BY DEF Threads
<1>5. ASSUME HttStep PROVE PauseOK'
  BY <1>4, <1>5, PauseOther
<1>6. ASSUME NEW d \in Descs, ol_tx_completion_handler(d) PROVE PauseOK'
  BY <1>4, <1>6, PauseOther
<1>7. ASSUME NEW f \in Flows, ol_tx_flow_pool_map_handler(f) PROVE PauseOK'
  BY <1>7, PauseMap
<1>8. ASSUME NEW f \in Flows, ol_tx_flow_pool_unmap_handler(f) PROVE PauseOK'
  BY <1>4, <1>8, PauseOther
<1> QED  BY <1>1, <1>2, <1>3, <1>5, <1>6, <1>7, <1>8 DEF Next

\* A paused pool has a descriptor out, whose return can still wake its queues: on
\* any number of CPUs, whatever flows the target unmaps and with a management pool
\* or not, where frames are not refused while contexts overlap, as long as no pool
\* was created with fewer descriptors than asked for.
THEOREM PausedPoolsDrain ==
  ASSUME Serialized PROVE Spec /\ []NoShortfall => []PausedDrains
<1>1. Init => PauseOK
  <2> SUFFICES ASSUME Init, NEW p \in Pools, status[p] \in Active
               PROVE  /\ status[p] # "paused" /\ stop_th[p] <= start_th[p]
                      /\ flow_pool_size[p] > 0 => start_th[p] < flow_pool_size[p]
    BY DEF PauseOK, Active
  <2>1. Cardinality(MgmtDescs) \in Nat
    <3>1. IsFiniteSet(MgmtDescs)  BY PoolAssumption, FS_Subset
    <3> QED  BY <3>1, FS_CardinalityType
  <2>2. /\ status[p] = "unpaused"
        /\ flow_pool_size[p] = Cardinality(MgmtDescs)
        /\ stop_th[p] = Threshold(StopTh, Cardinality(MgmtDescs))
        /\ start_th[p] = Threshold(StopTh + StartOffset, Cardinality(MgmtDescs))
    BY DEF Init, Active
  <2> QED  BY <2>1, <2>2, ThresholdsFit
<1>2. PoolInv /\ PauseOK /\ NoShortfall /\ [Next]_vars => PauseOK'
  BY PauseStep
<1>3. PoolInv /\ PauseOK /\ NoShortfall => PausedDrains
  <2> SUFFICES ASSUME PoolInv, PauseOK, NoShortfall, NEW p \in Pools, status[p] = "paused"
               PROVE  Outstanding(p) # {}
    BY DEF PausedDrains
  <2> USE DEF PoolInv
  <2>1. \A u \in Threads : pc[u] = "shrink" => pool[u] # p
    BY DEF WorkOK, WorkAt
  <2>2. Cardinality(freelist[p]) + Cardinality(Outstanding(p)) + deficient_desc[p]
          = flow_pool_size[p]
    BY <2>1 DEF SizesAddUp
  <2>3. /\ Cardinality(freelist[p]) <= start_th[p] /\ start_th[p] < flow_pool_size[p]
        /\ deficient_desc[p] = 0
    BY DEF PauseOK, NoShortfall, Active
  <2>4. /\ Cardinality(freelist[p]) \in Nat /\ Cardinality(Outstanding(p)) \in Nat
        /\ start_th[p] \in Nat /\ flow_pool_size[p] \in Nat
    BY OutstandingIs DEF TypeOK
  <2>5. Cardinality(Outstanding(p)) # 0  BY <2>2, <2>3, <2>4
  <2> QED  BY <2>5, FS_EmptySet
<1> QED  BY <1>1, <1>2, <1>3, AlwaysInv, PTL DEF Spec
=============================================================================
