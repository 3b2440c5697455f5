# TLA+ models of the qcacld-3.0 WLAN host driver

These modules model the concurrent core of the driver: how frames get from a
sending thread through HTC and a copy engine to the target, how frames come
back, how the bus is kept awake meanwhile, how transmit descriptors and receive
buffers are pooled, how services are connected, how requests to the firmware are
answered or time out, and how the driver's two threads are suspended and
stopped. `PROJECT.json` lists the components, the model-checking runs, the source
lines behind every definition, the hazards and the theorems. Paths below are
relative to `src/`.

    tlc -workers 4 -config <file>.cfg <module>     check a run
    tlapm <module>Proofs.tla                       check a proof

Contents: 1 inventory, 2 modules and runs, 3 fairness, 4 proofs, 5 where the
code and its comments disagree, 6 what is not modelled, 7 plan.

---

## 1. Inventory

The driver has 588 files, 418 000 lines of C (`core/`) and the target's interface
headers (`target/`, `uapi/`). It is built for one bus at a time (`Kbuild`,
`CONFIG_ROME_IF`: PCI or SNOC with copy engines, or SDIO and USB, the
"high latency" builds). The models take the PCI build with runtime power
management (`FEATURE_RUNTIME_PM`), with transmit flow control version 2
(`QCA_LL_TX_FLOW_CONTROL_V2`), and without NAPI and fastpath, unless they say
otherwise.

Assertions come in three kinds. `CDF_BUG` stops the machine with `PANIC_ON_BUG`, which
`Kbuild` sets, and warns without; HtcControl has both builds. `HTT_ASSERT_ALWAYS` is
`BUG_ON` in every build; HttRxRing stops there. `CDF_ASSERT`, `ASSERT` and `HTT_ASSERT1`
warn, or are empty, in a build without `CDF_OS_DEBUG`, which is the default: the models go
on, and where such an assertion is interesting it is a property (`RefusedOnlyFirst`,
`PostFindsRoom`).

A frame goes down: HDD (`hard_start_xmit`) → data path (descriptor from a flow
pool) → HTT → HTC (queue, credits) → HIF pipe (slots) → copy engine ring →
target. Commands go SME → PE/WMA (messages on the mc thread) → WMI → HTC. Messages
of the target come up through a copy engine's destination ring and its tasklet to
HTC, and from there to HTT or WMI.

### 1.1 Modelled components

**HTC transmit path** (`core/htc/htc_send.c`, the pipe in `core/hif/src/ce/ce_main.c`).
*State*: per endpoint `TxQueue`, `TxLookupQueue`, `TxCredits`, `TxProcessCount`,
per packet `CreditsUsed`; per pipe `num_sends_allowed`. *Operations*:
`htc_send_pkt`, `htc_try_send`, `htc_issue_packets`, `htc_tx_completion_handler`,
`htc_process_credit_rpt`, `htc_flush_endpoint_tx`, `htc_kick_queues`. *Interactions*: callers hand in
packets and get them back in a completion callback; the HIF calls back with
completions from the tasklet, and from a sender that reaps because the pipe is
half full; credit reports come on the receive path; each packet holds a runtime-PM
reference. *Hard*: senders, tasklet, credit reports and flushes all enter
`htc_try_send`, the lock is released for every call into the HIF, and whoever comes
second leaves its work to the first. *Correct if*: one thread drains, packets,
credits, slots and references are conserved, order is kept, no packet is stranded.

**Runtime power management** (`core/hif/src/pcie/if_pci.c`,
`core/hdd/src/wlan_hdd_driver_ops.c`, `core/htc/htc.c`). *State*: `pm_state`, the
kernel's usage count and status, the link, the queue kicker. *Operations*:
`hif_pm_runtime_get`/`_put`, the suspend and resume callbacks with their undo
paths, `htc_kick_queues`. *Interactions*: HTC takes a reference before it takes a
packet off the queue, and leaves the packet if the bus is down; resume kicks the
queues. *Hard*: any step of the suspend may fail after others are done; a get races
with a suspend; the suspend itself sends commands. *Correct if*: nobody who holds a
reference finds the link down, references match messages, queued messages go out
after a resume. (The second does not hold, and for it not the first: section 5.)

**Runtime-PM locks** (`if_pci.c`). *State*: locks with `active` and `timeout`, the
list and its count, one timer for all. *Operations*: prevent and allow suspend, prevent
for a time, free, the timer's callback. *Hard*: the time is computed before the
lock is taken; a callback can be on its way while its timer is set again; jiffies
wrap. *Correct if*: every held lock counts once, a lock with a timeout is always
released, and never early.

**HTC control exchange** (`core/htc/htc.c`, `htc_services.c`, `htc_recv.c`). *State*:
one response buffer with a flag and a completion, the endpoint table.
*Operations*: `htc_wait_target`, `htc_connect_service`, `htc_start`, `htc_stop`,
the receive path of endpoint 0, and the panic of a `CDF_BUG`. *Interactions*: the connecting thread waits with a
timeout; the receive tasklet copies the response and completes. *Hard*: late,
missing, short and wrong answers; buffer shared without a lock. *Correct if*: the buffer
is not overwritten while it is read, host and target agree on the endpoints, an
endpoint is not taken from its owner, no more credits are given than exist.

**Copy engine, receive side** (`core/hif/src/ce/ce_service.c`, `ce_main.c`,
`ce_tasklet.c`). *State*: destination ring with its two indexes, the number of
buffers still needed, interrupt and tasklet state. *Operations*: posting of buffers,
interrupt, `ce_per_engine_service`, `hif_stop` with the revocation of buffers.
*Hard*: access to the target may be lost at any BEGIN or END, and the target reset; the engine writes descriptors and its read index in either order; the
tasklet clears the interrupt and looks again; two threads post. *Correct if*: buffers
are conserved, posting finds room, messages arrive once and in order, none is left
behind, and no tasklet runs after it was drained.

**CDS scheduler and suspend** (`core/cds/src/cds_sched.c`, `cds_mq.c`,
`core/hdd/src/wlan_hdd_power.c`, `wlan_hdd_driver_ops.c`). *State*: two threads
with event bits, queues and pools of wrappers, completions for suspend and
resume, the flags "suspended", the count of entered calls. *Operations*: posting,
serving, suspend, resume, dropping a station's packets, restart (SSR) and
unload. *Hard*: a thread that confirms after its waiter has timed out; a restart
between suspend and resume; a call that passed its check as recovery begins.
*Correct if*: a thread that counts as suspended is parked, a parked thread is woken
or stopped, posted messages are served, threads are stopped only when no
call is inside.

**Transmit flow pools** (`core/dp/txrx/ol_txrx_flow_control.c`, `ol_tx_desc.c`).
*State*: the global free list, pools with status, size, deficit and thresholds, the
device's pool, stopped queues. *Operations*: allocate, free, map and unmap messages,
create, delete, invalidate, distribute to deficient pools. *Hard*: each operation
is several critical sections under three locks; a pool may be unmapped while its
descriptors are out; the queues are stopped outside the lock. *Correct if*:
descriptors are conserved, sizes add up, nothing refers to a freed pool, and a
stopped queue is woken.

**HTT receive ring** (`core/dp/htt/htt_rx.c`, with the in-order indication handler of
`core/dp/txrx/ol_rx.c`). *State*: the ring of buffer addresses with `alloc_idx` and the
target's index, the hash table from addresses to buffers, `fill_cnt`,
`refill_ref_cnt`, the retry timer. *Operations*: `htt_rx_ring_fill_n`,
`htt_rx_msdu_buff_replenish`, the pop of an indication, the timer, detach.
*Interactions*: the target takes addresses and reports filled buffers in any order; the copy
engine's tasklet calls the handler, which refills. *Hard*: tasklet and timer both
refill and skip if the other does; the count has no lock; a refill may end half way;
the timer is started again while it is being taken down. *Correct if*: one context
refills, buffers are conserved and counted, a starved target is fed again, nothing runs after
detach.

**WMA requests of a virtual device** (`core/wma/src/wma_dev_if.c`, the timer in
`core/cdf/src/cdf_mc_timer.c`). *State*: `vdev_resp_queue` of requests with their timers,
the interface (`handle`, `bss_status`, `del_staself_req`, pause, beacon, the own peer), a
wake lock and a runtime-PM lock. *Operations*: add and delete the device, add and delete its BSS, the three answers,
`wma_vdev_resp_timer`. *Interactions*: PE and SME ask through the WMA queue of the MC
thread, the firmware answers through WMI, the timer posts to the SYS queue. *Hard*:
an answer races its timeout, comes late or not at all; a start that times out makes WMA
stop the BSS itself; a deletion waits for a stop; each failure undoes a different part;
messages of timers and responses may find no wrapper. *Correct
if*: every request is answered once, nothing freed is used, pause and locks end,
and all sides agree whether the BSS is up.

### 1.2 Other components

BMI and firmware download; CDF, the OS abstraction; CDS concurrency policy and
regulatory domain; receive reordering, defragmentation and
replay check; transmit queues and scheduler of high-latency buses; peers and devices
of the data path; HDD's kernel interfaces, WMM, TDLS and IPA; PE (LIM, SCH, RRM);
SAP and DFS; SME with CSR, QoS and power save; the rest of WMA; WMI transport; SDIO, USB and
SNOC buses, NAPI and fastpath; logging and diagnostics. Section 6 says why each is
not modelled, section 7 which of them come next. What would make those correct, in a
sentence each: SME, that active and pending commands stay within their limits and all finish; WMI, that no
event is lost between the list and its work; reordering, that frames are released
once and in sequence modulo 4096; peers, that a peer is freed at its last reference
and its device after its last peer; SAP, that no beacon is sent on a channel with
radar or before its check has ended.

---

## 2. Modules and runs

One module per component, and `HtcService`, what one of them promises; `<M>Proofs`
extends `M` and holds its theorems (`HifPmProofs` those of RuntimePm and PmLocks, whose
specification is `LocksSpec`), `MC<M>` extends `M` with the values a `.cfg` cannot express. Actions have the names of the functions
they model, or of the critical section or step within one; every step between
two points where another thread can interfere is an action. Definitions named
`Mutant...` are plausible bugs, kept beside the definition they distort: substituting
one must violate a property. CDS's and HTC's spinlocks make the code
between lock and unlock one step; calls made after the unlock are steps of
their own.

| run | module | distinct states | what it answers |
|---|---|---|---|
| `htc_send` | MCHtcTx | 223 000 | on the WMI and the HTT endpoint, is everything accounted for, in order and handed back? |
| `pm_references` | RuntimePm | 15 000 | does a reference keep the link up, whatever step of a suspend fails? |
| `pm_kick_too_early` | RuntimePm | violation | does the kick after a resume reach the queue? |
| `pm_locks` | PmLocks | 98 000 | does a lock with a timeout hold so long, and no longer? |
| `htc_connect` | MCHtcControl | 26 000 | do loads come out right against good and bad targets, in both builds? |
| `ce_receive` | CeRecv | 298 000 | are messages and buffers conserved, delivered in order, none left? |
| `cds_handshake` | MCCdsSched | 897 000 | is the suspend handshake safe when threads answer late, and live when they do not? |
| `pool_one_cpu` | MCTxFlowPool | 78 000 | are queues woken, pools drained? |
| `pool_smp` | MCTxFlowPool | 1 400 000 | are pools consistent with senders on other CPUs? |
| `pool_late_stop` | MCTxFlowPool | violation | does "unpaused" mean that the queues run? |
| `htt_rx` | HttRxRing | 668 000 | are receive buffers counted, and is a starved target fed? |
| `wma_vdev` | WmaVdev | 883 000 | is every request answered once, through timeouts, failures and lost messages? |

### 2.1 HtcTx

*State.* The endpoint's fields keep their names. The pipe is a sequence `wire` of all
posted packets with two indexes: `hw_index`, what the engine has sent, and `sw_index`,
what the host has reaped. The target is `fwCredits` (received and not yet
returned) and `fwAsked` (a packet carried `HTC_FLAGS_NEED_CREDIT_UPDATE`). Each thread
has a program counter `pc` and the local variables of the functions it is in
(`sendQueue`, `pPacket`, `tx_resources`, `lookupQueue`, `netbuf`). `conn` is what
`htc_connect_service` agreed, whether credits control the flow, how
many slots the pipe has, and whether the bus may sleep; it is chosen at the start and never
changes.

*Actions.* `htc_send_pkt` appends and enters `htc_try_send`. That function is the
steps `ReadFreeQueueNumber` (only without credits, before the lock), `EnterTrySend`
(the count of drainers), `TakePacket` (both collectors, the runtime-PM get included; on a bus that
sleeps the get may be refused at any moment, and the collection ends with packets left in `TxQueue`),
`IssueNext` (one packet to the pipe, lookup queue first), `PutWhenIssued` (the put of a packet
tagged `RUNTIME_PUT`, once the bus has it), `IssueFailed`, the splice of
a refused batch in two halves because the lock is not held (`SpliceRead`,
`SpliceWrite`), and `EndDrain`. A completion empties the lookup queue into a local one,
searches it without the lock and puts the rest back. The engine's service runs in the
tasklet, and in a sender once less than half of the slots are free. `htc_kick_queues` is
the work item that a runtime resume schedules.

*Abstractions.* A packet is a number and needs 1 or 2 credits. Each call sends one
packet. No `EpSendFull` callback drops packets: none that is registered returns
`HTC_SEND_FULL_DROP`. Sequence numbers, `ul_outstanding_cnt`, bundling, and
`htc_send_data_pkt` are left out. Where a packet tagged `AUTO_PM` stands in the queue
is immaterial to the collector, so no separate action extracts it. `htc_issue_packets` reads the
tag of a packet after `hif_send_head` has taken it, when its completion may already have given
it back; the model reads the tag the packet was sent with. Two failures of
`hif_send_head` do not occur: a send list has room for the one fragment of a packet
(`ce_main.c:1014`), and the handle of a pipe is there once it is attached (`ce_main.c:1033`). After
a reset of the target completions are cancelled (`ce_main.c:1108`), which is not modelled here.

*Bounds.* Two senders, one with two packets, one tasklet, one receive context, one worker
that flushes or kicks. The run takes five connections. The WMI endpoint: two credits, one long
packet tagged `AUTO_PM`, and a pipe with one slot more than credits on a bus that sleeps, one so large
that senders never reap, and one with a single slot. The HTT endpoint: no credits, one packet tagged
`RUNTIME_PUT`, and a pipe with two slots, or one on a bus that sleeps. A tag counts only on the endpoint
of the service that sets it (`TagAutoPm`, `TagRuntimePut`). Three packets are the least with which a refused batch leaves one behind the refused one while another sender appends.

*Properties.* `SingleDrainer`; `OnePlace` (a packet is on one list, or was handed
back once); `CreditsConserved`; `PmBalanced` (the usage count is never above the number of
ordinary packets between dequeue and completion, and below it by at most one for each
`RUNTIME_PUT` packet that went out, for which the code puts twice); `EventuallyCompleted`; and
`ImplementsService`, the refinement of **HtcService**. That module is the endpoint as its users
see it: a packet is accepted, goes to the bus as the oldest of its sender (`AUTO_PM` packets
being a class of their own), and is handed back once, by completion or by a flush; an
endpoint over an unreliable bus may lose packets that wait, yet never reorders or repeats
any. The mapping takes `sent` for what was accepted, `wire` for the bus, `completed` for what was
handed back, and calls the bus reliable when the pipe is ample. The order within a batch
that was refused and spliced back, and that a flush hands back only what is not on the wire, are
part of it.

Several properties hold only for some connections, and say so: `AmplePipe` (credits, and more
slots than credits), `NobodyReaps` (senders never reap), `~BusSleeps` (which packets wait for
a bus that sleeps is RuntimePm's question). What happens otherwise is section 5. Of the WLAN
endpoints WMI has credits and a ring of 32 entries, and the HTT endpoint a ring of 2048 (`ce_assignment.h`); whether the former is ample depends on the
credits the target hands out.

### 2.2 RuntimePm

*State.* The kernel's part (`rpm`, `usage_count`, a deferred resume, a resume request)
is external, modelled from its use and from the comment in `if_pci.c:3111` on the results of
`pm_runtime_get`: an asynchronous get while the device suspends or resumes gives
`-EINPROGRESS`. There are kernels where it returns 0 while the device suspends; the driver
would take that for a success, and the model with it (`MutantGetSucceeds`) has the link down under
a reference. The driver's: `pm_state`, `linkUp`, the next `step` of the sequence
under way, the queued `kick`. The endpoint's: counts of messages in the queue, in
the drainer's batch and in flight. `service` says whether the endpoint carries WMI, with the
suspend's own commands on it, or HTT; `surplus` bounds the puts made beyond one for each
message.

*Actions.* `htc_send_pkt`, `htc_kick_queues`, `Drain` (get, take, issue), `Complete`
(put), `OtherEndpointIssues` (a `RUNTIME_PUT` message of HTT beside the WMI endpoint),
`KernelSuspends`, and `Sequence`: each step of
`__wlan_hdd_runtime_suspend` (link check, HTC, WMA, HIF, CNSS) with its
failure and the undo it leads to, and each step of the resume. `Issue` makes any number of
the puts of `RUNTIME_PUT` messages that a batch may contain.

*Bounds.* Two senders, three messages, both services, every step may fail. Credits and
slots never run out here (HtcTx covers them).

*Properties.* `LinkUpWhileHeld` (as long as more references are held than surplus puts may have
dropped), `RefusedOnlyFirst` (the assertion in both collectors: under the same condition only the
first message of a batch may be refused), `ReferencesMatch` (no reference is left over, none is
missing but for surplus puts), `BusWakesUp`: a message that is refused its reference wakes the
bus, and on the endpoint that carries WMI every message that waits for a suspended bus does.
On HTT's endpoint a message may be left in the queue by a suspend that failed at its HTC step,
wait while the next suspend completes, and wake nobody, since only a get requests a resume and the
WoW commands that would try the queue are not on this endpoint. `GetPreventsSuspend` and
`QueueKicked` are violated, see section 5.

### 2.3 PmLocks

*State.* The set of `active` locks is also the list; `timeout` the locks with a timeout;
one `runtime_timer_expires`, 0 when unset; the kernel's timer; a `callback` that waits for
the lock; `jiffies` modulo `2 * Half`, and `passed`, which does not wrap and serves
the properties only.

*Actions.* `hif_pm_runtime_prevent_suspend`, `..._allow_suspend`, the timed call in two
steps (its end is computed before the lock), freeing, `TimerFires`, the callback,
`Tick`.

*Bounds.* Two locks, one caller that can be delayed by one jiffy past its end, delays
1 and 3, calls up to jiffy 4 of 32. A timer is served within its jiffy. Delays
below the autosuspend delay take no lock in the code and are left out.

*Properties.* `HeldOnce`, `NoLockOrphaned`, `NeverReleasedEarly`.

### 2.4 HtcControl

*State.* The connecting thread (`host`, `next`), the response buffer with
`CtrlResponseProcessing` and the completion, the receive handler `rx`, both
endpoint tables, and `load`: the mode (WLAN or endpoint ping), the services in order, which
are required, the target it meets, and whether the build panics on `CDF_BUG`.

*Actions.* `Connect`: each step of `htc_wait_target`, `htc_connect_service` and
`htc_start`, with send failures and timeouts. `Receive`: a message for endpoint 0 in two
steps, copy and complete. `Target` (external): answers, late if `Late`, of each kind that
the parameter checks are for. `Unload`: `htc_stop`, `htc_destroy`, and `Reboot` after a panic. A
response that times out (`htc_recv.c:617`) and a message that arrives while one is processed
(`htc_recv.c:419`) are `CDF_BUG`: with `PANIC_ON_BUG` the machine stops, without it the caller fails
or the message is dropped.

*Bounds.* Loads as in `htt.c` and `wma`: HTT data (required), a second HTT service that
has no pipe on this bus, packet log, WMI (required); or BE and BK. For each, six pairs of target and
build: a target that accepts what is required, in a build that survives `CDF_BUG`; the same, answering
every request, in the default build; one that answers anything, one that is also late, and one that
also sends short answers, the last in both builds. Seven credits, an odd number so that the halves of
endpoint ping differ; five endpoints. `OrderAssumption` states what the callers of
`htc_connect_service` show: each service is connected at one place.

*Properties.* `HandOver` (nothing is stored into the buffer while a response is pending or
read), `EndpointsAgree` (an owner keeps its endpoint, host and target
have the same ones, and no more credits than exist),
`LoadCompletes` (a load ends started, and meets no `CDF_BUG`). Deadlock is
checked. `EndpointsAgree` is stated for punctual targets, and for all targets in the default build,
where the timeout that precedes a late answer stops the machine; `LoadCompletes` for
obliging targets, which in the default build have to answer every request.

### 2.5 CeRecv

*State.* The ring's indexes and descriptors (a message number, 0 for `nbytes = 0`),
`needed` (`recv_bufs_needed`), both posting threads, the tasklet's place and counters,
the interrupt, and the engine: `nwb` messages written back, `nrd` counted by its read
index. `lost`: recovery was begun and access to the target fails for good; `reset`: the
target's status; `stale`: a posted buffer that was freed.

*Actions.* Posting (`PostStep`: take one off `needed`, allocate, enqueue, or give it back; an
enqueue fails at BEGIN, or at END after `write_index` has advanced, and then the caller frees
the buffer all the same); `ol_target_failure`; the engine's two halves of a transfer in either order; `ce_irq_handler`;
`TaskletStep` (pop, deliver, stop after `MaxReceives`, clear the status, look again up
to `Threshold` times; the service routine returns at once without access, and the interrupt stays
off after a reset); `hif_nointrs`, `ce_tasklet_kill`, `ce_revoke_recv_next`.

*Access to the target.* `hif_target_sleep_state_adjust` fails when a wake-up of the target has timed
out and recovery was begun (`if_pci.c:2421`, `:2538`), from then on; another engine's access may be the one,
so that any BEGIN or END of this engine can be the first to fail. The PCI build keeps the target awake while
the driver is loaded (`AWAKE_WHILE_DRIVER_LOAD`, `hif_io32_pci.h:48`): it takes a failing target, not one that sleeps.
That a suspended link is not accessed is RuntimePm's concern.

*Bounds.* A ring of four (three usable), five messages so that it wraps,
force-break after two receives, two checks; allocation and access may fail. A message
that the code frees, being too long or coming after a reset, counts as delivered.

*Properties.* `BuffersConserved` (every buffer is needed, being posted, posted, popped or freed; the one
whose END fails is counted twice, it happens once at most and only when access is lost);
`DrainedIsIdle`; `InOrder`; `AllDelivered`, while the driver is loaded and the target there.
`PostFindsRoom` (the assertion after the enqueue, until access is lost) is proved.

### 2.6 CdsSched

*State.* Each thread's event bits, place and queue it looks at next; queues and pools;
`confirmed` and `resumed`, the completions of the handshake; `suspended`; posters; the
cfg80211 call `hdd`; `protect`, the count of entered calls; `closer`, the restart or
unload.

*Actions.* `ThreadStep` (wait, test the stop and suspend bits, serve, park),
posting in two steps (take a wrapper, queue it), `DropStation`, `suspend_wlan` and
`resume_wlan` with `CallStep` for their parts (`validate_context` is a step of its own: a restart
may begin between the check and the wake-up or the suspend it allows), `BeginClose`, `CloseStep`.

*Bounds.* One mc queue and the rx queue, one poster, two stations, one element per pool,
two posts, two suspends. Threads may answer late (the driver waits 1200 ms for the mc
thread, 200 ms for the rx thread): `late` records that a call has given up while a
thread was about to confirm. A second suspend is needed to meet a confirmation left by the
first. The wait for external callers (200 × 200 ms) does not give up.

*Properties.* `SuspendedQuiet`, `NoGuestWhenStopped`, `PoolConserved`, also when threads
answer late; `SomeoneWakes`, `Served` and `CloseEnds` as long as none did.

### 2.7 TxFlowPool

*State.* Free lists as sets, the pools' fields under their names, `poolOf` a descriptor,
`vdevPool`, `stopped` devices, `inflight` descriptors, and what each thread holds.

*Actions.* One per critical section of `ol_tx_desc_alloc` and `ol_tx_desc_free`, of the map
and unmap handlers, of creation, deletion, invalidation and distribution; the
completion of a frame. `Send` is `ol_tx_send`. Messages of HTT and completions run in one context, the HTT
receive tasklet, one after the other. Free counts are the sizes of the free lists.

*Bounds.* `pool_one_cpu`: two devices, two pools, four descriptors, frames may be
refused; sender and tasklet do not overlap, as on one CPU where `hard_start_xmit`
runs with bottom halves disabled. `pool_smp`: overlapping contexts, three pools and the
management pool, too few descriptors for all, a flow of an unsupported type, unmaps of
paused pools; frames are not refused. Pools, descriptors and senders are
interchangeable and reduced by symmetry (only where no liveness is checked). That the target
unmaps a flow only when its device no longer sends (`MayUnmap`) is an assumption on the
target that the code does not enforce: `ol_tx_desc.c:265` reads `vdev->pool` without a lock. Both
thresholds together are less than the pool (`ThresholdAssumption`: the ini file allows at most
50 and 30 per cent). The `ASSERT` on the number of invalid pools is compiled in with `CDF_OS_DEBUG` only.

*Properties.* `DescsConserved` (every descriptor is in one place, size plus deficit is what
was asked for, `num_invalid_bin` counts the invalid pools); `NoDangling` (no descriptor,
sender or list leads to a freed pool); `InvalidDrained`; `PausedDrains` (a paused pool has a descriptor out that can
wake its queues: the two thresholds, per cents rounded down and compared on different
sides of a change, never meet); `EventuallyWoken`, on one CPU, without a management pool and without
unmaps of paused pools. `UnpausedRuns` is violated on several CPUs, see section 5.

### 2.8 HttRxRing

*State.* The fields of `rx_ring` under their names; the hash table is the set `hash` of its
buffers; `target` the buffers taken off the ring, `inds` the indications under way;
for each of the two contexts, tasklet and timer, its place and local variables, with
`reg` for a `fill_cnt` that is read and not yet written. `smp` is chosen at the start:
on one CPU a softirq runs to its end, on two the contexts interleave.

*Actions.* `FwFetch` and `FwIndicate` (external); `RxIndication`, `PopRead`, `PopWrite` (the
handler, returning without a refill where the code does); `Replenish` to
`ReplenishEnds` (one refill, buffer by buffer, with the two failures that end it, and `InsertFails`, a
hash entry without memory, which is `HTT_ASSERT_ALWAYS`: the host stops, as it does in `PopWrite` at a
buffer that is not in the table);
`TimerFires`; `DetachCancel`, `DetachSync`, `DetachFree`.

*Abstractions.* A buffer and its address are the same value, which of the free buffers the allocator
returns does not matter, and the content of a frame is one of three kinds (delivered,
offload delivery, all MIC errors), because the handler's early returns depend on it.
The rings of targets without full reorder offload, which the host reads in order, are left out.
`HTT_ASSERT1`, that the ring is not empty, is compiled out in the default build. The functions
of the hash table are commented as not thread-safe; each is one step here, so that on two CPUs
the model has the races of the ring and its counts, and not a corrupted bucket.

*Bounds.* Four slots, three buffers, one indication at a time; a lost update takes the
count off by at most one.

*Properties.* `SingleRefiller`, on any number of CPUs; `BuffersAccounted` (on one CPU the
count is exact, hence a refill never laps the target, and each buffer is in one place);
`QuietAfterDetach`; `HungryIsFed` (a target without buffers gets one, unless a refill
ended where no timer is started).

### 2.9 WmaVdev

*State.* `wma` is a record of WMA's state: the queue `respq`, the requests `alloc` with their
timers, the fields of the interface, and the two locks a deletion holds. Handlers are operators on it that compose the
way the functions call each other, so an action, one message handled by the MC thread, is the
whole handler with everything it calls. Its field `cmds` is what the target has still to take,
`umac` what PE and SME know from the answers they got; `wmaq` and `sysq` are the two queues of
the MC thread. `past` records which of ten kinds of mishap have happened, for the conditions of the
properties.

*Actions.* `McTakes` (timer messages first); `McHandles`, with a failure of memory or of
the send, and with responses that cannot be posted: once the wrappers are used up only the MC thread
returns them, so a handler loses all its responses, or the later one (to SME); `Expire` (in a softirq, also
while the answer is handled), which stops the timer and may find no wrapper for its message;
`WakeLockLapses`; `TargetStep` (external; answers may be lost); `UmacStep` (what the sequences of HDD,
SME and PE amount to: one thing at a time, and a deletion may come while the BSS is being
stopped). SME opens a session also when WMA could not create the device.

*Abstractions.* One interface, access-point mode. Whether deletions are answered
(`WMI_SERVICE_SYNC_DELETE_CMDS`) is chosen at the start. Beacon contents, channel
parameters and DFS are left out. Requests of a kind have the same timeout and
expire in order. The wake lock may lapse at any moment; in the code it does after 3 s, half the time of the
request it is held for. Deletions of peers take and release the same two locks, which
is not modelled. When removing an unsent stop takes an older one, the request that stays keeps
parameters that were already given back; the model keeps the request and not its parameters. An
exhausted pool of wrappers is `CDF_BUG` only after `CDS_WRAPPER_MAX_FAIL_COUNT` failures in a row,
which is not modelled.

*Bounds.* Three requests (a fourth finds no memory), three commands under way, three kinds of
mishap in one behaviour: two are enough for each pair to meet, as a late answer
after a stop that could not be sent, and the use of a freed beacon takes three.

*Properties.* `RequestsSound` (a request is queued as long as it is allocated, and its timer
runs or has posted one message); `AnsweredOnce` (answers only to what was asked, and nothing freed is used);
`PauseAndLockEnd` (the pause and the runtime-PM lock last exactly as long as their requests, and the
wake lock no longer); `BssAgrees`; `Answered`. Each names the mishaps it does not survive; section 5 says what
happens then. `AnsweredOnce` is checked through all of them but the race of a timer with its answer.

Type invariants: `TypeOK` of HtcTx, RuntimePm, TxFlowPool and CeRecv is proved (section 4), and as parts
of inductive invariants `LocksTypeOK` and, as long as requests are sound, that of WmaVdev; the other
modules state it as their documentation of the state.

Deadlock is checked for HtcControl and TxFlowPool. In the other models the bounded
number of packets, messages or calls, a suspended bus with nothing to send, a detached ring, a used freed
request, a host stopped by an assertion or an unloaded driver are ends the system may rest in.

---

## 3. Fairness

Weak fairness, but for two steps named below, of what the kernel or the hardware owes;
nobody is obliged to start a call.

* HtcTx: a thread that is inside a call goes on; the tasklet serves a completion; the
  target receives what was sent and reports credits *it was asked for*. Sending and
  flushing are free, and so are reports nobody asked for and the kick after a resume.
* RuntimePm: a drainer goes on, queued work runs, the target completes messages, a
  suspend or resume that has begun goes on. The bus need not suspend.
* HtcControl: receive handler, connecting thread and target go on (a target that is
  silent by choice has nothing to do). Nobody has to unload, or to restart a machine that has stopped.
* CeRecv: posting threads, the interrupt handler and the tasklet run; the
  second half of a transfer follows the first. The target need not send; access and target may
  fail at any time, and nothing is owed then.
* CdsSched: both threads, posters inside a post, a suspend or resume call and a restart
  or unload that has begun go on.
* HttRxRing: the tasklet and the timer run and go on. Allocation has *strong* fairness:
  a refill that is tried again and again gets a buffer in the end. The target owes nothing.
* WmaVdev: the MC thread takes a message and ends the one it handles, timers expire. The target may stay
  silent for ever; that is what the timers are for. An expiry whose message is lost is also an
  expiry. The bound on mishaps could block a handler only in a behaviour where `Answered` already promises nothing.
* TxFlowPool: threads inside a call go on. A frame's completion has *strong* fairness:
  the target completes every frame, and the HTT tasklet that handles it is one of
  several users of its context, so that the step is enabled again and again and not
  continuously.

---

## 4. Proofs

`tlapm` checks every theorem for all values of the constants that satisfy the named
assumptions of the module; the number of threads, packets, locks, messages, ring entries
and suspends is arbitrary. The argument of each module:

**HtcTxProofs.** `DrainerIsAlone`: `SingleDrainer` is made inductive by `PcOK` (every place a
thread can be in); each step either leaves the set of drainers alone or moves it and
`TxProcessCount` together. `TypeCorrect` rests on it: that the packet a drainer issues
is a packet, or that a batch is not empty when it is spliced, depends on the place the drainer
is in and on nobody else draining. `TypeInv` splits into queues, hands, counts and flags;
each action is shown to preserve each group.

The conservation results share the invariant `TxInv`. Its core is `PlaceInv`: lists have no
duplicates, no two of them (or a list and a thread's hand) have a packet in common, and a packet is
HTC's exactly when it is in one of those places. It gives `PacketsKept` (`OnePlace`). `SlotInv`
counts send slots the way the copy engine does, and credits are counted as the
elements of a set, one for each credit a charged packet has used, so that a send or a
completion adds or removes a subset. `CreditsKept` (`CreditsConserved`) says that credits are never
made; that none is lost needs more slots than credits (`AmplePipe`), because each packet on
the ring or in a drainer's hand then holds a credit, so that no send is refused and the
unlocked splice, which loses packets, is not reached.

`ServiceImplemented` shows that HtcTx implements HtcService. `OrderOK` says that the packets not
yet sent stand in the order the service has them in, in a batch first and then in the queue;
`LookupOK` that a packet on the lookup queue is on the wire or in a completing thread's hand.
The call of `htc_send_pkt` maps to `Accept`, the step to the copy engine to `Transmit`, the completion
handler to `Complete`, the flush to `Cancel`, the unlocked splice to `Lose` (or to a
stutter, if nothing was lost), and everything else to a stutter. `ReferencesBalanced`
(`PmBalanced`) adds `PassOK`: where a thread is between taking a packet and taking or dropping its
reference. The second put of a `RUNTIME_PUT` packet is counted against the packets of that kind
on the wire, each of which accounts for one reference too few.

The constants are arbitrary but for what `ConstAssumption` says: finitely many packets, and one
tasklet for the completions of a copy engine. Where an argument needs induction (an
order-preserving enumeration) it takes the least element of a set of numbers.

**HifPmProofs**, RuntimePm. `PmInv` adds two facts to the properties: `Phases`, which ties the
driver's state and the link to the step of the sequence, and `GetWindow`, that a context
which got past the first test of `hif_pm_runtime_get` may meet a suspend, but then the kernel's
count decides. References and messages are tied by two inequalities, apart by at most `surplus`. From
it: `HeldLinkIsUp`, `OnlyFirstRefused`, `CountedReferences` and
`TypeCorrect`. The first two speak of states where more is held than surplus puts can have
dropped; without `RUNTIME_PUT` messages that is every state with a message under way. The result rests on the kernel's promise that a usage count above zero
keeps the device from suspending.

**HifPmProofs**, PmLocks. `CountedOnce` for every clock; the invariant adds that locks named
in calls are live. `NoOrphan` and `NotEarly` assume `NoWrap` (jiffies stay
in the lower half of their range): `TimerInv` says that the timer's time is not
before the end of any held lock with a timeout, the call under way included.

**HtcControlProofs.** `OneAtATime`: the flag `CtrlResponseProcessing`, the completion and
the places of both threads form a token that only one of them has; it holds for
targets of any kind, late ones too. `OwnersKeep`: an endpoint that has an owner is in use,
and `htc_connect_service` takes only endpoints that are not.

`TablesAgree` (`EndpointsAgree`) has two halves. Credits, for any target: `SharesInv` ties the
credits of an endpoint to the service it was set up for, and each service to one endpoint. That
needs `OrderAssumption`: a load connects a service once, and endpoint ping does not
connect WMI. Agreement, for punctual targets and for builds that panic: `WayInv` says that at most one message is
under way, a request on its way to the target, or its response on its way back, in the receive
handler or signalled; that the response is `Good`, that is, if the host is going to use the endpoint
it names, the target has set up that endpoint for the current request; and that no other
endpoint is in use on one side only. The exception is the state `Stuck` after a response
that is cut short: the flag stays set, later responses are dropped and the target's
table grows alone, but no endpoint is given to anyone any more.

**CeRecvProofs.** The ring invariant: descriptors between `sw_index` and `write_index` are
the posted ones, those the engine has written back are a prefix of them and carry
consecutive message numbers. With it buffers are conserved (`ConservedAlways`), but for the one that
an END which fails leaves in the ring and which is then both needed and posted (`stale`, at most one, since
access is lost from then on and nothing is enqueued again); an enqueue
finds room (`RoomAlways`) as long as access is not lost; messages are delivered once and in order (`DeliveredInOrder`), for
any ring size; with the control flow of the tasklet (`FlowInv`) also `DrainedAlways` and
`TypeCorrect`. Indexes wrap, and the lemmas on `Wrap` carry the arithmetic.

**CdsSchedProofs.** The token: a parked thread has exactly one of an unconsumed
confirmation, the flag "suspended", or a pending resume event. `QuietAlways` and
`NoGuestAlways` assume that the wait for external callers does not give up (`~Impatient`), and
hold although threads answer late. `WakesAlways` proves `SomeoneWakes`, which is about
behaviours in which no call has given up (`~late`), under the same assumption. `PoolKept`
(`PoolConserved`) needs neither: queued elements are counted as the set of their places in the queues,
and each step moves one element, the packets of a station, or a whole queue from one
summand to another.

**TxFlowPoolProofs.** `PoolInv` is one inductive invariant: which contexts may overlap
(`AloneOK`), what each holds (`HeldOK`) and works on (`WorkOK`, `AllocOK`), that a descriptor which is
out knows its pool and that the pool exists (`OwnOK`), that the list has the existing pools but
for one that is being deleted (`ListOK`), that a flow has one pool (`IdOK`), and the counters
(`CountOK`, and the parts of `DescsConserved`). It gives `TypeCorrect`, `DescsKept` and
`NothingDangles` for any number of senders, flows, pools and descriptors, provided frames are not
refused while sender and completion overlap (`Serialized`). Without that proviso
`NoDangling` is false, see section 5. `InvalidPoolsDrain` (`InvalidDrained`) adds `DrainOK`, that an
invalid pool has a frame out or is being deleted, for behaviours in which every pool got what
the target asked for (`NoShortfall`): a pool that is short may stay invalid until
descriptors are distributed. `PausedPoolsDrain` (`PausedDrains`) holds on any number of CPUs and whatever the
target unmaps, under the same two conditions. It adds `PauseOK`: the thresholds of a pool are in order
(`ThresholdAssumption`), and a paused pool has no more free than its start threshold.

**HttRxRingProofs.** `RefillerIsAlone`: `refill_ref_cnt` is one less for each context between its
decrement and its increment, and of two such contexts at most one has found the count at
zero; on any number of CPUs. `DetachIsQuiet`: the timer is cancelled, then the last one that runs is
waited for. `RingAccounts` (`BuffersAccounted`) is about one CPU. The accounts depend on each other: a
refill does not lap the target because the count is exact, the count is exact because
every buffer the target reports is found in the hash table, and that follows from where
the buffers are (`PlacesOK`). Slots between the target's index and the end of the refill are described by
their distance along the ring, so the argument does not depend on its size.

**WmaVdevProofs.** Handlers are compositions of operators on one record, which the provers
do not unfold all at once. Each is first reduced to its outcomes (`AddSelfTo`, `DetachTo`,
`AddBssTo`, `DelBssTo`, `StartedTo`, `StopOver`, `DelOver`, `TimedOutTo`): which fields change, which
requests end and which one is made, what the upper layers hear, which command is sent.
`HandledIs` says that a message handled has one of them. Four invariants build on that,
each under the condition on `past` in which it is kept:

* `QueueInv` (no expiry has met its answer or lost its message, and no stop was removed in the
  place of another): a request is queued as long as it is allocated, once;
  its timer runs or has posted one message; requests of a kind expire in the order of the queue.
  The last part is what `RequestsKept` (`RequestsSound`) needs beyond its statement:
  `wma_vdev_resp_timer` unlinks the *first* request of the kind and frees the request of
  the *timer*, and they are the same one only because of the order.
* `DialogInv` (and responses are heard, devices created, and either no start has timed out, or the
  stop WMA then made was sent and no deletion overtook it): what PE and SME wait for is a message in the queue or a
  request of WMA, never both, and of each kind there is at most one; `bss_started`,
  `del_staself_req`, the peer and the handle follow from what is under way. It gives
  `AnswersMatch`, that is `AnsweredOnce` for `Reliable` behaviours, in which every message is
  posted, devices are created and no stop is removed in the place of another; with those
  mishaps `AnsweredOnce` is only model-checked. After a start that timed out it still rules out
  the use of a deletion that is over, but the answer to a timed-out stop may be one nobody
  waits for.
* `LockInv` (no unsent stop, no orphaned one): `PauseAndLockKept` (`PauseAndLockEnd`).
* `FwInv` (and no late answer, no beacon without memory): a start or stop that the target has
  still to do, or has answered, belongs to a request that is kept; a stop is the only command on
  its way and a start the last; when neither is kept, the target's BSS is up exactly if
  `bss_started`. With `DialogInv` it gives `BssKept` (`BssAgrees`).

Nothing is assumed of the constants but that they are numbers and there is memory for one request.

Only model-checked: `AnsweredOnce`
beyond `Reliable`, and liveness (`EventuallyCompleted`, `BusWakesUp`, `LoadCompletes`, `AllDelivered`,
`Served`, `CloseEnds`, `EventuallyWoken`, `HungryIsFed`, `Answered`). Every other invariant and every
action property of a passing run is a theorem, under the conditions named above. Out of the prover's reach are liveness under fairness, `ENABLED`,
and in general induction over data; where a definition needed a fold or a filter (`Remaining`
and `Places` of CdsSched, `EndpointsAgree`), it counts sets instead.

---

## 5. Where the code and its comments disagree

Two have a run that TLC must find violated:

* **The kick after a resume can come too early** (`pm_kick_too_early`).
  `htc_runtime_resume` schedules the kicker (`htc.c:806`) before
  `hif_process_runtime_resume_success` sets the state to on. A worker that runs in between
  is refused its reference, and the messages stay in the queue of an active bus until another
  is sent. The comment says the kick is there so that messages do not "get stuck".
* **A late stop leaves an unpaused pool with stopped queues** (`pool_late_stop`).
  `ol_tx_desc_alloc` sets the pool paused under its lock and stops the queues after
  releasing it (`ol_tx_desc.c:228`); completions on another CPU can wake them first. The
  comment on `FLOW_POOL_ACTIVE_UNPAUSED` says that the queues are unpaused.

The others are noted at the property whose condition excludes them; dropping that
condition, or changing the constant named here, makes TLC show the trace.

* `htc_send.c:667` with `1807`: `htc_issue_packets` puts a reference for a packet tagged
  `RUNTIME_PUT` as soon as it is sent, and `htc_tx_completion_handler` puts one for the same packet
  again, although it took only one. The count drops below what the others hold and the bus may
  suspend under a message in flight, although the comment on `hif_pm_runtime_get` (`if_pci.c:2975`) says
  that a get prevents a suspend until the corresponding put (`GetPreventsSuspend` as an invariant of
  RuntimePm.cfg).
* `htc_send.c:1749`: a completion empties the lookup queue to search it; another
  that runs in a reaping sender finds it empty and drops its packet (`NobodyReaps`).
* `htc_send.c:652`: when a batch is refused, the credits of the refused packet come back, those of
  the packets behind it do not (`AmplePipe` in `CreditsConserved`).
* `htc_send.c:1175`: after a refused batch the puts are counted over packets that may include
  `AUTO_PM` ones, which have no reference (`PmBalanced`).
* `htc_send.c:1178`: the splice back into `TxQueue` is made without the lock; a
  packet appended at that moment can be lost (`OnePlace`, short pipe or none
  with credits).
* `htc_send.c:1088` with `ce_main.c:1119`: without credits the free slots are read
  before the lock, and the re-check after a completion precedes the return of its slot; a packet can
  wait until the next send.
* `wlan_hdd_driver_ops.c:586`: when HTC refuses the suspend, nothing kicks messages that were
  left in the queue meanwhile (`QueueKicked` with `Failures = {"htc"}`), and on HTT's endpoint the next
  suspend completes over them.
* `if_pci.c:3354`: `time_after` against an unset time of 0 is false in the upper
  half of jiffies, so the timer is not set; a lock stays held (`FirstJiffy = 14`). On 32-bit
  kernels jiffies start in that half.
* `htc_services.c:232`: a late answer is taken for the answer to the next request, since the
  service id is not compared (`~Late` in `EndpointsAgree`; only in a build without `PANIC_ON_BUG`, since
  the timeout is a `CDF_BUG`). `htc_services.c:257`: a short
  answer leaves the flag set, and every later connect times out.
* `htc.c:410`: 256 credits become 0 in a field of 8 bits (`TotalCredits = 256`).
* `htc_recv.c:616`: the wait for a response converts its timeout to ticks, which
  `cdf_wait_single_event` takes for milliseconds: 3000 become 300 at HZ = 100.
* `ce_service.c:1684`: after `CE_TXRX_COMP_CHECK_THRESHOLD` looks the routine leaves with the
  status cleared; a message that came since waits for the next interrupt (the escape
  in `AllDelivered`).
* `wlan_hdd_power.c:1991`: a suspend that gives up while a thread confirms leaves the thread
  parked; a restart then waits for it for ever (`~late` in `CloseEnds`).
* `ol_txrx_flow_control.c`: unmapping a paused pool leaves its device's queues
  stopped (`UnmapStopped = TRUE` in `pool_one_cpu`); the management pool stops the
  data queues of the device with id 0 (`MgmtDescs = {d3, d4}`); a deficient pool may never reach
  its start threshold, or never be deleted (too few `Descs`); with several CPUs and
  refused frames `NoDangling` fails, when a sender frees the pool that
  unmap is about to enlist.
* `ce_service.c:757`: an END that fails after `write_index` has advanced makes the caller free a
  buffer that is in the ring; `hif_stop`, or a late message, finds it there (`stale`).
* `ce_main.c:1483`: when allocations fail until the destination ring is empty, no message arrives
  whose handling would post again, and nothing retries.
* `htt_rx.c:820`: `fill_cnt` is a plain integer that the tasklet decrements and the timer's refill
  increments; on two CPUs an update can be lost, for good (`CountExact` fails with
  `CpuChoices = {TRUE}`), and the ring is kept over- or underfilled by as much.
* `htt_rx.c:2436`: memory that runs out at a hash entry stops the host, though the refill handles
  a failing insert.
* `htt_rx.c:405`: a buffer that cannot be mapped ends a refill
  without starting the timer; an indication whose MSDUs all fail their MIC check
  returns before the refill. The ring stays short until the next indication (`unretried` in
  `HungryIsFed`).
* `wma_dev_if.c:2651`: a timer that expires while its answer is handled has posted a message with a
  pointer to the request, which the answer's handler frees (`raced`).
* `wma_dev_if.c:2798`: a start that times out stops the BSS by itself. If that stop times out
  too, PE gets a `DELETE_BSS_RSP` nobody asked for, although the answer to the same stop is
  kept from it ("no need to send response to UMAC", `wma_dev_if.c:1717`). When
  that stop cannot be sent, or a deletion comes before its answer, the device may be deleted
  twice, and the second timeout finds no `del_staself_req` (`start_timed_out`, with `stop_unsent`
  or `orphaned`, in `AnsweredOnce`). A stop that outlives its device
  takes down the BSS of the next (`orphaned` in `BssAgrees`).
* `wma_dev_if.c`, answers are matched to requests by device and kind only: the late answer to a
  start that timed out is taken for the answer to the next (`late` in `BssAgrees`).
* A stop that cannot be sent leaves `bss_status` at started, and a later deletion waits for
  a stop that never comes (`stop_unsent`); without memory for the beacon, PE is told that the start
  failed while the target has the BSS up (`no_beacon`).
* `wma_dev_if.c:4630` and `:2814`: an unsent stop is removed by kind, and the first on the queue may be another,
  whose timer may already have posted a message with its pointer (`misremoved`).
* `wma_dev_if.c:806`: without a buffer for its frame a beacon is freed and stays in the interface, and the
  next stop frees it again. A stop gets there only when a deletion has overtaken WMA's own stop, because
  otherwise the peer left behind makes every later start fail.
* `wma_dev_if.c:634`: the wake lock of a deletion is taken for 3 s, the deletion kept for 6 s.
* `cdf_mc_timer.c:185`: a timer that finds no message wrapper is stopped and its request stays without timer
  and message (`timer_lost`). `wma_main.c:2081`, `wma_dev_if.c:522`, `:663`, `:761`: a response that cannot be posted is
  freed, and PE or SME wait for ever (`unheard`).
* `csr_api_roam.c:14736`: a session is opened also when its device could not be created; its
  deletion then finds no handle and is not answered (`not_created`).
* `wma_main.c:2930` and `:2964`: the loops that empty the hold queue and `vdev_resp_queue` at
  unload run while peeking at the queue does *not* succeed, so a queue that has requests keeps
  them and their timers (read, not modelled).

---

## 6. Not modelled

Within the modelled components:

* HTC: bundles (SDIO and USB only), `htc_send_data_pkt`, the trailer's records other than
  credit reports, statistics.
* Runtime PM: starting and stopping it at load and unload; system suspend (WoW) of the same bus.
* Copy engine: the send side of `ce_per_engine_service` (HtcTx has its completions), NAPI, the
  shared interrupt, the endpoint-ping loops, fastpath, watermarks (no one installs the
  callback), and what recovery does after access was lost.
* CDS: CPU affinity and hotplug of the rx thread, the handlers' work, the count of exhausted
  wrappers, the re-initialisation after a restart.
* HTT receive ring: low-level attach and sizing by `fill_level` of the link rate,
  high-latency and non-offload indications, IPA and the debug history.
* WMA: station and other modes, channel switch and DFS, the hold requests of peers (and their use of the
  wake lock), unload.
* Flow pools: forced deletion at unload, dumps, TSO, the other two allocators.

Components:

| component | why not |
|---|---|
| BMI, firmware download | sequential I/O before anything runs concurrently |
| CDF | wrappers of kernel services; their state is in the modules that use them |
| CDS concurrency policy, regulatory domain | large pure tables |
| HTT other than the rx ring | formatting and parsing of messages |
| HDD's kernel interfaces | conversions, and calls through to SME |
| dot11f | generated |
| DFS pulse filters | numerical |
| SDIO, USB, SNOC I/O | the kernel's protocol; another build |
| logging, packet log, diagnostics | beside the core; the logging buffers are a candidate |
| WMA other than device requests | conversions of messages; the peers' requests are planned |
| reordering, peers, SME, WMI, SAP, LIM | planned, section 7 |

---

## 7. Plan

The modules above were built in this order, the data path first: HtcTx, RuntimePm and
PmLocks (what a packet needs to go out), HtcControl (how endpoints come to be), CeRecv
(how messages come back), CdsSched (the threads), TxFlowPool (what throttles
senders), HtcService (what HtcTx implements), HttRxRing (receive buffers), WmaVdev (requests
to the firmware). Next, in this order:

1. **CeSend**: the source ring with `ce_send_nolock`, `ce_sendlist_send` (all
   fragments or none), `ce_completed_send_next_nolock`, `ce_cancel_send_next`, and
   `hif_pci_ce_send_done`; completions that skip `CE_SENDLIST_ITEM_CTXT`. With CeRecv it
   covers the engine, and it supplies HtcTx with its assumption on slots: an abstract
   bounded FIFO that both refine.
2. **PeerRefs**: references of peers and the deferred deletion of devices; with
   the hold requests of peers in WmaVdev.
3. **SmeCommands**: pending and active command lists, their limits and timeouts.
4. **WmiTransport**: the event list and its work, pending commands, suspend flags.
5. **RxReorder**: windows of 12-bit sequence numbers and release timers.
6. **SapFsm**: the access point's machine with radar and channel checks.
7. Extensions: `htc_send_data_pkt` and bundles in HtcTx, the scheduler of high-latency
   buses, NAPI in CeRecv, the join sequence of LIM against its timers, TDLS.

As runs are added, a second run of one module, or a run whose only result is a
disagreement listed in section 5, gives way.

Abstract specification still to write: a FIFO channel (CeRecv).

Theorems: CeRecv against that FIFO. Each new module needs its proofs; those of WmaVdev, with
the outcomes of a handler as lemmas before any invariant, are the pattern for the other
handlers of the MC thread.
