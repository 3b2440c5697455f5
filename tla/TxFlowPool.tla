----------------------------- MODULE TxFlowPool -----------------------------
(***************************************************************************)
(* Transmit descriptors and the flow pools that share them out, with the   *)
(* network queues that the pools stop and wake (QCA_LL_TX_FLOW_CONTROL_V2):*)
(* core/dp/txrx/ol_txrx_flow_control.c and ol_tx_desc.c.                   *)
(*                                                                         *)
(* The target maps a flow, a virtual device, to a pool of descriptors and  *)
(* unmaps it again.  Threads that transmit take descriptors from the pool  *)
(* of their device; completions, which the one HTT receive context handles *)
(* between map and unmap messages, put them back.  A step is what one      *)
(* critical section does; counters equal to the length of a free list      *)
(* (avail_desc, num_free) are that list's cardinality.                     *)
(*                                                                         *)
(* Operators named Mutant... are plausible bugs of the definition that     *)
(* follows them.                                                           *)
(***************************************************************************)
EXTENDS Integers, Sequences, FiniteSets

CONSTANTS
    Senders,      \* contexts that transmit
    Htt,          \* the receive context of HTT
    Vdevs,        \* virtual devices of the host
    Flows,        \* flow ids in the target's messages; the host may miss some
    SizeOf,       \* flow_pool_size the target asks for, for each flow
    OtherTypes,   \* flows whose flow_type is not FLOW_TYPE_VDEV
    Pools,        \* the pool structures that memory has room for
    Descs,        \* the descriptors
    MgmtPool,     \* the pool of management frames
    MgmtDescs,    \* the descriptors it gets, none if those frames go over WMI
    Vdev0,        \* the device with id 0
    StopTh,       \* TxFlowStopQueueThreshold, in per cent
    StartOffset,  \* TxFlowStartQueueOffset, in per cent
    OneCpu,       \* transmit paths and tasklets do not overlap
    SendMayFail,  \* HTC or the copy engine may refuse a frame
    UnmapStopped, \* the target may unmap a flow whose queues are stopped
    NoPool, NoFlow, InvalidFlow

Threads == Senders \cup {Htt}

\* A pool has one member flow, so it is known by the id of its flow.
ASSUME PoolAssumption ==
    /\ Htt \notin Senders
    /\ Vdevs \subseteq Flows /\ OtherTypes \subseteq Flows
    /\ Vdev0 \in Flows
    /\ SizeOf \in [Flows -> Nat]
    /\ IsFiniteSet(Descs) /\ MgmtDescs \subseteq Descs
    /\ MgmtPool \in Pools
    /\ StopTh \in Nat /\ StartOffset \in Nat
    /\ {OneCpu, SendMayFail, UnmapStopped} \subseteq BOOLEAN
    /\ NoPool \notin Pools
    /\ NoFlow \notin Flows /\ InvalidFlow \notin Flows

\* CFG_LL_TX_FLOW_STOP_QUEUE_TH_MAX is 50, ..._START_QUEUE_OFFSET_MAX is 30.
ASSUME ThresholdAssumption == StopTh + StartOffset < 100

VARIABLES
    globalFree,       \* pdev->tx_desc.freelist
    flow_pool_list, num_invalid_bin,
    \* the pools
    status, flow_pool_id, flow_pool_size, deficient_desc, member_flow_id,
    stop_th, start_th, freelist,
    poolOf,           \* tx_desc->pool
    vdevPool,         \* vdev->pool
    stopped,          \* devices whose queues are stopped (pause_map)
    inflight,         \* descriptors whose frames are with the target
    \* the contexts: where each is, the pool and flow it works on, and the
    \* descriptors it holds
    pc, pool, flow, held

thresholds == <<stop_th, start_th>>
identity   == <<flow_pool_id, flow_pool_size, member_flow_id, thresholds>>
pools      == <<status, identity, deficient_desc, freelist, poolOf>>
lists      == <<globalFree, flow_pool_list, num_invalid_bin>>
netif      == <<vdevPool, stopped, inflight>>
locals     == <<pool, flow, held>>
vars       == <<lists, pools, netif, pc, locals>>

-----------------------------------------------------------------------------
Active == {"unpaused", "paused"}

Pcs == {"idle", "alloc", "pause", "send", "free", "distribute", "shrink",
        "remove", "retire", "enlist", "give", "map", "member", "unmap",
        "unmember"}

\* Transmission runs with bottom halves disabled, so on one CPU it does not
\* overlap with the tasklet or with another transmission.
Runs(t) == OneCpu => \A u \in Threads \ {t} : pc[u] = "idle"

Goto(t, l) == pc' = [pc EXCEPT ![t] = l]

\* The call ends, and with it the life of its variables.
Return(t) ==
    /\ Goto(t, "idle")
    /\ pool' = [pool EXCEPT ![t] = NoPool]
    /\ flow' = [flow EXCEPT ![t] = NoFlow]

Listed(p) == \E i \in 1..Len(flow_pool_list) : flow_pool_list[i] = p

\* ol_tx_get_flow_pool: the pools on the list that have this id.
PoolsOf(f) == {p \in Pools : Listed(p) /\ flow_pool_id[p] = f}

MutantThreshold(percent, size) == (percent * size + 99) \div 100
Threshold(percent, size) == (percent * size) \div 100

Init ==
    LET mgmt == IF MgmtDescs = {} THEN <<>> ELSE <<MgmtPool>>
        n    == Cardinality(MgmtDescs)
    IN  /\ globalFree = Descs \ MgmtDescs
        /\ flow_pool_list = mgmt
        /\ num_invalid_bin = 0
        /\ status = [p \in Pools |-> IF mgmt = <<p>> THEN "unpaused" ELSE "none"]
        /\ flow_pool_id = [p \in Pools |-> NoFlow]
        /\ flow_pool_size = [p \in Pools |-> IF mgmt = <<p>> THEN n ELSE 0]
        /\ deficient_desc = [p \in Pools |-> 0]
        /\ member_flow_id = [p \in Pools |-> Vdev0]
        /\ stop_th = [p \in Pools |-> IF mgmt = <<p>> THEN Threshold(StopTh, n) ELSE 0]
        /\ start_th = [p \in Pools |->
                         IF mgmt = <<p>> THEN Threshold(StopTh + StartOffset, n) ELSE 0]
        /\ freelist = [p \in Pools |-> IF mgmt = <<p>> THEN MgmtDescs ELSE {}]
        /\ poolOf = [d \in Descs |-> IF d \in MgmtDescs THEN MgmtPool ELSE NoPool]
        /\ vdevPool = [v \in Vdevs |-> NoPool]
        /\ stopped = {}
        /\ inflight = {}
        /\ pc = [t \in Threads |-> "idle"]
        /\ pool = [t \in Threads |-> NoPool]
        /\ flow = [t \in Threads |-> NoFlow]
        /\ held = [t \in Threads |-> {}]

-----------------------------------------------------------------------------
(* Transmission *)

\* ol_tx_desc_alloc_wrapper reads the pool of the device, without a lock; a
\* device without a pool drops the frame.  The network stack transmits only
\* while the queues of the device are running and the device is up.
DataFrame(t, v) ==
    /\ v \notin stopped
    /\ ~(pc[Htt] = "unmap" /\ flow[Htt] = v)
    /\ vdevPool[v] # NoPool
    /\ pool' = [pool EXCEPT ![t] = vdevPool[v]]

\* Management frames take their descriptors from the pool of their own.
MgmtFrame(t) ==
    /\ MgmtDescs # {}
    /\ pool' = [pool EXCEPT ![t] = MgmtPool]

ol_tx_desc_alloc_wrapper(t, v) ==
    /\ pc[t] = "idle"
    /\ Runs(t)
    /\ DataFrame(t, v) \/ MgmtFrame(t)
    /\ flow' = [flow EXCEPT ![t] = v]
    /\ Goto(t, "alloc")
    /\ UNCHANGED <<lists, pools, netif, held>>

BelowStop(p) == Cardinality(freelist[p]) - 1 < stop_th[p]

\* ol_tx_desc_alloc: take a descriptor; the pool counts as paused when few are
\* left, but the queues are stopped only after the lock is released.
ol_tx_desc_alloc(t) ==
    LET p == pool[t] IN
    /\ pc[t] = "alloc"
    /\ Runs(t)
    /\ \/ /\ freelist[p] = {}
          /\ Return(t)
          /\ UNCHANGED <<status, freelist, held>>
       \/ \E d \in freelist[p] :
             /\ freelist' = [freelist EXCEPT ![p] = @ \ {d}]
             /\ held' = [held EXCEPT ![t] = {d}]
             /\ IF BelowStop(p)
                THEN status' = [status EXCEPT ![p] = "paused"] /\ Goto(t, "pause")
                ELSE UNCHANGED status /\ Goto(t, "send")
             /\ UNCHANGED <<pool, flow>>
    /\ UNCHANGED <<lists, identity, deficient_desc, poolOf, netif>>

\* pause_cb: stop the queues of the device.
StopQueue(t) ==
    /\ pc[t] = "pause"
    /\ Runs(t)
    /\ stopped' = stopped \cup {flow[t]}
    /\ Goto(t, "send")
    /\ UNCHANGED <<lists, pools, vdevPool, inflight, locals>>

\* ol_tx_send: the frame goes to the target, or is refused and its descriptor
\* put back.
Send(t) ==
    /\ pc[t] = "send"
    /\ Runs(t)
    /\ \/ /\ inflight' = inflight \cup held[t]
          /\ held' = [held EXCEPT ![t] = {}]
          /\ Return(t)
       \/ /\ SendMayFail
          /\ Goto(t, "free")
          /\ UNCHANGED <<inflight, locals>>
    /\ UNCHANGED <<lists, pools, vdevPool, stopped>>

\* A completion of the target, in the HTT receive context.
ol_tx_completion_handler(d) ==
    /\ pc[Htt] = "idle"
    /\ Runs(Htt)
    /\ d \in inflight
    /\ inflight' = inflight \ {d}
    /\ held' = [held EXCEPT ![Htt] = {d}]
    /\ Goto(Htt, "free")
    /\ UNCHANGED <<lists, pools, vdevPool, stopped, pool, flow>>

MutantAboveStart(p) == Cardinality(freelist[p]) > start_th[p]
AboveStart(p) == Cardinality(freelist[p]) + 1 > start_th[p]

\* All descriptors of an invalid pool have come back.
MutantAllBack(p) == Cardinality(freelist[p]) = flow_pool_size[p]
AllBack(p) == Cardinality(freelist[p]) + 1 = flow_pool_size[p]

\* ol_tx_desc_free: back to the pool the descriptor belongs to, which wakes the
\* queues of its member when enough are there again.
ol_tx_desc_free(t) ==
    /\ pc[t] = "free"
    /\ Runs(t)
    /\ \E d \in held[t] :
          LET p == poolOf[d] IN
          /\ freelist' = [freelist EXCEPT ![p] = @ \cup {d}]
          /\ \/ /\ status[p] = "paused" /\ AboveStart(p)
                /\ status' = [status EXCEPT ![p] = "unpaused"]
                /\ stopped' = stopped \ {member_flow_id[p]}
                /\ Return(t)
             \/ /\ status[p] = "invalid" /\ AllBack(p)
                /\ pool' = [pool EXCEPT ![t] = p]
                /\ Goto(t, "distribute")
                /\ UNCHANGED <<status, stopped, flow>>
             \/ /\ ~(status[p] = "paused" /\ AboveStart(p))
                /\ ~(status[p] = "invalid" /\ AllBack(p))
                /\ Return(t)
                /\ UNCHANGED <<status, stopped>>
    /\ held' = [held EXCEPT ![t] = {}]
    /\ UNCHANGED <<lists, identity, deficient_desc, poolOf, vdevPool, inflight>>

-----------------------------------------------------------------------------
(* An invalid pool gives its descriptors to deficient pools *)

\* The descriptors of p that go to the pool at place i of the list.
To(p, to, i) == {d \in freelist[p] : to[d] = i}

\* ol_tx_move_desc_n for each pool in the order of the list: a pool gets what it
\* lacks, unless the descriptors run out.
Greedy(p, to) ==
    \A i \in 1..Len(flow_pool_list) :
        LET got == Cardinality(To(p, to, i))
            gap == deficient_desc[flow_pool_list[i]]
        IN  got <= gap /\ (got < gap => \A d \in freelist[p] : to[d] \in 1..i)

\* Where a descriptor of p goes; at place 0 it stays.
Target(p, to, d) == IF to[d] = 0 THEN p ELSE flow_pool_list[to[d]]

Gap(p, n) == deficient_desc[p] - n

\* ol_tx_distribute_descs_to_deficient_pools, under flow_pool_list_lock.
ol_tx_distribute_descs_to_deficient_pools(t) ==
    LET p == pool[t]
        Places == 0..Len(flow_pool_list)
    IN
    /\ pc[t] = "distribute"
    /\ Runs(t)
    /\ \E to \in [freelist[p] -> Places] :
          /\ Greedy(p, to)
          /\ freelist' = [q \in Pools |->
                {d \in freelist[p] : Target(p, to, d) = q}
                \cup (IF q = p THEN {} ELSE freelist[q])]
          /\ deficient_desc' = [q \in Pools |->
                Gap(q, Cardinality({d \in freelist[p] :
                                      to[d] # 0 /\ Target(p, to, d) = q}))]
          /\ poolOf' = [d \in Descs |->
                          IF d \in freelist[p] THEN Target(p, to, d) ELSE poolOf[d]]
    /\ Goto(t, "shrink")
    /\ UNCHANGED <<lists, status, identity, netif, locals>>

\* ol_tx_free_invalid_flow_pool: what is left makes up the pool, which is deleted.
ol_tx_free_invalid_flow_pool(t) ==
    LET p == pool[t] IN
    /\ pc[t] = "shrink"
    /\ Runs(t)
    /\ flow_pool_size' = [flow_pool_size EXCEPT ![p] = Cardinality(freelist[p])]
    /\ num_invalid_bin' = num_invalid_bin - 1
    /\ Goto(t, "remove")
    /\ UNCHANGED <<globalFree, flow_pool_list, status, flow_pool_id,
                   deficient_desc, member_flow_id, thresholds, freelist, poolOf,
                   netif, locals>>

-----------------------------------------------------------------------------
(* ol_tx_delete_flow_pool, which is not forced while the device is up *)

\* TAILQ_REMOVE: the list without pool p.
Without(s, p) ==
    IF \E i \in 1..Len(s) : s[i] = p
    THEN LET i == CHOOSE j \in 1..Len(s) : s[j] = p
         IN  SubSeq(s, 1, i - 1) \o SubSeq(s, i + 1, Len(s))
    ELSE s

\* Under flow_pool_list_lock.
RemoveFromList(t) ==
    /\ pc[t] = "remove"
    /\ Runs(t)
    /\ flow_pool_list' = Without(flow_pool_list, pool[t])
    /\ Goto(t, "retire")
    /\ UNCHANGED <<globalFree, num_invalid_bin, pools, netif, locals>>

MutantComplete(p) == TRUE
Complete(p) == Cardinality(freelist[p]) = flow_pool_size[p]

\* What the pool keeps on its free list.
MutantLeft(p) == freelist[p]
Left(p) == {}

\* Free the pool if all its descriptors are there, else make it invalid; what
\* it has goes back to the global pool.
RetirePool(t) ==
    LET p == pool[t] IN
    /\ pc[t] = "retire"
    /\ Runs(t)
    /\ held' = [held EXCEPT ![t] = freelist[p]]
    /\ freelist' = [freelist EXCEPT ![p] = Left(p)]
    /\ \/ /\ Complete(p)
          /\ status' = [status EXCEPT ![p] = "none"]
          /\ Goto(t, "give")
          /\ UNCHANGED <<flow_pool_id, flow_pool_size>>
       \/ /\ ~Complete(p)
          /\ status' = [status EXCEPT ![p] = "invalid"]
          /\ flow_pool_size' = [flow_pool_size EXCEPT
                                  ![p] = @ - Cardinality(freelist[p])]
          /\ flow_pool_id' = [flow_pool_id EXCEPT ![p] = InvalidFlow]
          /\ Goto(t, "enlist")
    /\ UNCHANGED <<lists, deficient_desc, member_flow_id, thresholds, poolOf,
                   netif, pool, flow>>

InvalidBins == num_invalid_bin + 1

\* An invalid pool goes back to the list and is counted.  The ASSERT that there
\* are at most MAX_INVALID_BIN is compiled in with CDF_OS_DEBUG only.
EnlistInvalid(t) ==
    /\ pc[t] = "enlist"
    /\ Runs(t)
    /\ num_invalid_bin' = InvalidBins
    /\ flow_pool_list' = Append(flow_pool_list, pool[t])
    /\ Goto(t, "give")
    /\ UNCHANGED <<globalFree, pools, netif, locals>>

\* Under tx_mutex.
GiveBack(t) ==
    /\ pc[t] = "give"
    /\ Runs(t)
    /\ globalFree' = globalFree \cup held[t]
    /\ held' = [held EXCEPT ![t] = {}]
    /\ Return(t)
    /\ UNCHANGED <<flow_pool_list, num_invalid_bin, pools, netif>>

-----------------------------------------------------------------------------
(* Messages of the target *)

Shortfall(f, taken) == SizeOf[f] - Cardinality(taken)

\* ol_tx_create_flow_pool: as many descriptors as the global pool has.
ol_tx_create_flow_pool(f, p) ==
    \E taken \in SUBSET globalFree :
        /\ \/ Cardinality(taken) = SizeOf[f]
           \/ Cardinality(taken) < SizeOf[f] /\ taken = globalFree
        /\ globalFree' = globalFree \ taken
        /\ freelist' = [freelist EXCEPT ![p] = taken]
        /\ poolOf' = [d \in Descs |-> IF d \in taken THEN p ELSE poolOf[d]]
        /\ deficient_desc' = [deficient_desc EXCEPT ![p] = Shortfall(f, taken)]
        /\ status' = [status EXCEPT ![p] = "unpaused"]
        /\ flow_pool_id' = [flow_pool_id EXCEPT ![p] = f]
        /\ flow_pool_size' = [flow_pool_size EXCEPT ![p] = SizeOf[f]]
        /\ member_flow_id' = [member_flow_id EXCEPT ![p] = Vdev0]
        /\ stop_th' = [stop_th EXCEPT ![p] = Threshold(StopTh, SizeOf[f])]
        /\ start_th' = [start_th EXCEPT
                          ![p] = Threshold(StopTh + StartOffset, SizeOf[f])]
        /\ flow_pool_list' = Append(flow_pool_list, p)
        /\ pool' = [pool EXCEPT ![Htt] = p]

\* ol_tx_flow_pool_map_handler: find the pool or create it, then map the flow; a
\* new pool for a flow that is no device is deleted again.
ol_tx_flow_pool_map_handler(f) ==
    /\ pc[Htt] = "idle"
    /\ Runs(Htt)
    /\ flow' = [flow EXCEPT ![Htt] = f]
    /\ \/ /\ PoolsOf(f) = {}
          /\ \E p \in Pools : status[p] = "none" /\ ol_tx_create_flow_pool(f, p)
          /\ Goto(Htt, IF f \in OtherTypes THEN "remove" ELSE "map")
       \/ /\ f \notin OtherTypes
          /\ \E p \in PoolsOf(f) : pool' = [pool EXCEPT ![Htt] = p]
          /\ Goto(Htt, "map")
          /\ UNCHANGED <<globalFree, flow_pool_list, pools>>
    /\ UNCHANGED <<num_invalid_bin, netif, held>>

\* ol_tx_flow_pool_vdev_map: the device, if there is one, gets the pool ...
ol_tx_flow_pool_vdev_map ==
    /\ pc[Htt] = "map"
    /\ Runs(Htt)
    /\ IF flow[Htt] \in Vdevs
       THEN /\ vdevPool' = [vdevPool EXCEPT ![flow[Htt]] = pool[Htt]]
            /\ Goto(Htt, "member")
            /\ UNCHANGED <<pool, flow>>
       ELSE UNCHANGED vdevPool /\ Return(Htt)
    /\ UNCHANGED <<lists, pools, stopped, inflight, held>>

Member == [member_flow_id EXCEPT ![pool[Htt]] = flow[Htt]]

\* ... and the pool gets its member.
SetMember ==
    /\ pc[Htt] = "member"
    /\ Runs(Htt)
    /\ member_flow_id' = Member
    /\ Return(Htt)
    /\ UNCHANGED <<lists, status, flow_pool_id, flow_pool_size, deficient_desc,
                   thresholds, freelist, poolOf, netif, held>>

\* The target unmaps a flow once its device is down: a transmission that has read
\* the pointer to the pool has taken its descriptor, and none starts before the
\* pointer is gone.  The code does not enforce it.
MayUnmap(f) ==
    /\ \A t \in Senders : pc[t] = "alloc" => pool[t] \notin PoolsOf(f)
    /\ \/ UnmapStopped
       \/ f \notin stopped /\ \A t \in Senders : pc[t] = "pause" => flow[t] # f

\* ol_tx_flow_pool_unmap_handler: find the pool, unmap the flow, delete the pool.
ol_tx_flow_pool_unmap_handler(f) ==
    /\ pc[Htt] = "idle"
    /\ Runs(Htt)
    /\ f \notin OtherTypes
    /\ MayUnmap(f)
    /\ flow' = [flow EXCEPT ![Htt] = f]
    /\ \E p \in PoolsOf(f) : pool' = [pool EXCEPT ![Htt] = p]
    /\ Goto(Htt, IF f \in Vdevs THEN "unmap" ELSE "remove")
    /\ UNCHANGED <<lists, pools, netif, held>>

Unmapped == [vdevPool EXCEPT ![flow[Htt]] = NoPool]

\* ol_tx_flow_pool_vdev_unmap: senders that have read the pointer keep it.
ol_tx_flow_pool_vdev_unmap ==
    /\ pc[Htt] = "unmap"
    /\ Runs(Htt)
    /\ vdevPool' = Unmapped
    /\ Goto(Htt, "unmember")
    /\ UNCHANGED <<lists, pools, stopped, inflight, locals>>

ClearMember ==
    /\ pc[Htt] = "unmember"
    /\ Runs(Htt)
    /\ member_flow_id' = [member_flow_id EXCEPT ![pool[Htt]] = InvalidFlow]
    /\ Goto(Htt, "remove")
    /\ UNCHANGED <<lists, status, flow_pool_id, flow_pool_size, deficient_desc,
                   thresholds, freelist, poolOf, netif, locals>>

-----------------------------------------------------------------------------
\* A step of a context in the middle of a call.
ThreadStep(t) ==
    \/ ol_tx_desc_alloc(t)
    \/ StopQueue(t)
    \/ Send(t)
    \/ ol_tx_desc_free(t)
    \/ ol_tx_distribute_descs_to_deficient_pools(t)
    \/ ol_tx_free_invalid_flow_pool(t)
    \/ RemoveFromList(t)
    \/ RetirePool(t)
    \/ EnlistInvalid(t)
    \/ GiveBack(t)

HttStep ==
    \/ ol_tx_flow_pool_vdev_map
    \/ SetMember
    \/ ol_tx_flow_pool_vdev_unmap
    \/ ClearMember

Next ==
    \/ \E t \in Senders, v \in Vdevs : ol_tx_desc_alloc_wrapper(t, v)
    \/ \E t \in Threads : ThreadStep(t)
    \/ HttStep
    \/ \E d \in Descs : ol_tx_completion_handler(d)
    \/ \E f \in Flows : ol_tx_flow_pool_map_handler(f)
    \/ \E f \in Flows : ol_tx_flow_pool_unmap_handler(f)

Spec == Init /\ [][Next]_vars

\* Calls run to their end and the target completes every frame; nobody has to
\* transmit, and the target need not map or unmap anything.
Fairness ==
    /\ \A t \in Threads : WF_vars(ThreadStep(t))
    /\ WF_vars(HttStep)
    /\ \A d \in Descs : SF_vars(ol_tx_completion_handler(d))

FairSpec == Spec /\ Fairness

-----------------------------------------------------------------------------
(* Properties *)

\* Every variable has its type.
TypeOK ==
    /\ globalFree \subseteq Descs
    /\ flow_pool_list \in Seq(Pools)
    /\ num_invalid_bin \in Nat
    /\ status \in [Pools -> Active \cup {"none", "invalid"}]
    /\ flow_pool_id \in [Pools -> Flows \cup {NoFlow, InvalidFlow}]
    /\ flow_pool_size \in [Pools -> Nat]
    /\ deficient_desc \in [Pools -> Nat]
    /\ member_flow_id \in [Pools -> Flows \cup {InvalidFlow}]
    /\ stop_th \in [Pools -> Nat] /\ start_th \in [Pools -> Nat]
    /\ freelist \in [Pools -> SUBSET Descs]
    /\ poolOf \in [Descs -> Pools \cup {NoPool}]
    /\ vdevPool \in [Vdevs -> Pools \cup {NoPool}]
    /\ stopped \subseteq Flows
    /\ inflight \subseteq Descs
    /\ pc \in [Threads -> Pcs]
    /\ pool \in [Threads -> Pools \cup {NoPool}]
    /\ flow \in [Threads -> Flows \cup {NoFlow}]
    /\ held \in [Threads -> SUBSET Descs]

\* Descriptors of p whose frames are being sent, are with the target or are
\* being completed.
Outstanding(p) ==
    {d \in Descs :
        /\ poolOf[d] = p
        /\ \/ d \in inflight
           \/ \E t \in Threads : d \in held[t] /\ pc[t] \in {"pause", "send", "free"}}

\* No descriptor is lost ...
Kept ==
    \A d \in Descs :
        \/ d \in globalFree
        \/ d \in inflight
        \/ \E p \in Pools : d \in freelist[p]
        \/ \E t \in Threads : d \in held[t]

\* ... and none is in two places.
Once ==
    \A d \in Descs :
        /\ d \in globalFree => d \notin inflight
        /\ \A p \in Pools :
              d \in freelist[p] =>
                /\ d \notin globalFree /\ d \notin inflight
                /\ \A q \in Pools : d \in freelist[q] => q = p
                /\ \A t \in Threads : d \notin held[t]
        /\ \A t \in Threads :
              d \in held[t] =>
                /\ d \notin globalFree /\ d \notin inflight
                /\ \A u \in Threads : d \in held[u] => u = t

\* The counters of a pool add up: what is free, what is outstanding and what it
\* still lacks is its size, also while an invalid pool waits for completions.
\* The size of a pool that has just given descriptors away follows a step later.
SizesAddUp ==
    \A p \in Pools :
        status[p] # "none" /\ (\A t \in Threads : pc[t] = "shrink" => pool[t] # p) =>
            Cardinality(freelist[p]) + Cardinality(Outstanding(p))
            + deficient_desc[p] = flow_pool_size[p]

AtRest == \A t \in Threads : pc[t] = "idle"

\* At rest, num_invalid_bin is the number of invalid pools on the list.
InvalidCounted ==
    AtRest => num_invalid_bin
              = Cardinality({p \in Pools : Listed(p) /\ status[p] = "invalid"})

\* Each descriptor is in one place: free in the global pool, free in one flow
\* pool, held by one context, or with the target, and the counters say so.  No
\* race of transmission, completion, map and unmap loses a descriptor, hands one
\* out twice or leaves a pool with a wrong size or shortfall.
DescsConserved == Kept /\ Once /\ SizesAddUp /\ InvalidCounted

\* The list holds pools that exist, each once.
ListSound ==
    \A i, j \in 1..Len(flow_pool_list) :
        /\ status[flow_pool_list[i]] # "none"
        /\ flow_pool_list[i] = flow_pool_list[j] => i = j

\* Nothing leads to a pool that unmap has freed: neither a descriptor that is
\* out and will be completed, nor a transmission ("FLOW_POOL_INVALID: pool is
\* invalid (put descriptor)": it takes from active pools only), nor the list.
NoDangling ==
    /\ \A p \in Pools : Outstanding(p) # {} => status[p] # "none"
    /\ \A t \in Senders : pc[t] = "alloc" => status[pool[t]] \in Active
    /\ ListSound

\* "FLOW_POOL_ACTIVE_UNPAUSED: pool is active ... and network queues are
\* unpaused": at rest, the queues of a device are stopped only while its pool is
\* paused.
UnpausedRuns ==
    AtRest => \A v \in Vdevs :
                 vdevPool[v] # NoPool /\ status[vdevPool[v]] = "unpaused"
                 => v \notin stopped

\* "Delete flow_pool if all tx descriptors are available": a pool that was
\* unmapped is gone once its last descriptor has come back.
InvalidDrained ==
    AtRest => \A p \in Pools : status[p] = "invalid" => Outstanding(p) # {}

\* A paused pool has a descriptor out, whose return can still wake the queues: the
\* two thresholds, rounded down, never leave a pool paused with all it owns back
\* on its free list.
PausedDrains == \A p \in Pools : status[p] = "paused" => Outstanding(p) # {}

\* Queues that ol_tx_desc_alloc has stopped are woken by ol_tx_desc_free in the
\* end.
EventuallyWoken == \A v \in Vdevs : v \in stopped ~> v \notin stopped
=============================================================================
