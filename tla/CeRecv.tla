------------------------------- MODULE CeRecv -------------------------------
(***************************************************************************)
(* The receive side of one copy engine: its destination ring, the          *)
(* interrupt and the tasklet that drain it, and the buffers that the host  *)
(* posts to it.                                                            *)
(*                                                                         *)
(*   - hif_post_recv_buffers_for_pipe runs in two threads at once: in      *)
(*     hif_start ("start"), and in the tasklet after every message.        *)
(*   - ce_per_engine_service pops descriptors with ce_index_lock held,     *)
(*     drops the lock for the callback hif_pci_ce_recv_data, and before    *)
(*     it leaves clears the interrupt status and looks at the ring again.  *)
(*   - The engine (external) writes the descriptor of a message back and   *)
(*     advances its read index.  The host may see either half first:       *)
(*     "the Host sees the updated DRRI before the update to the            *)
(*     corresponding descriptor has completed" (ce_service.c:926).         *)
(*                                                                         *)
(*   - Access to the target (hif_target_sleep_state_adjust) fails for good  *)
(*     once a wake-up of the target has timed out and recovery was begun   *)
(*     (if_pci.c:2536).  Another engine's access may be the one, so that   *)
(*     the BEGIN or the END of an access of this engine may fail first.    *)
(*                                                                         *)
(* Messages are numbered in the order the target sends them; a descriptor  *)
(* holds the number of its message, or 0 for nbytes = 0.                   *)
(* An operator called Mutant... is a plausible bug of the definition that  *)
(* follows it.                                                             *)
(***************************************************************************)
EXTENDS Integers

CONSTANTS
    NEntries,      \* dest_nentries of the engine, a power of two in the code
    Threshold,     \* CE_TXRX_COMP_CHECK_THRESHOLD
    MaxReceives,   \* MAX_NUM_OF_RECEIVES
    MaxMsgs,       \* bound: messages the target sends
    AllocMayFail,  \* may cdf_nbuf_alloc or the DMA mapping fail?
    AccessMayFail  \* may access to the target be lost, or the target reset?

ASSUME RingAssumption == NEntries \in Nat /\ NEntries > 1
ASSUME BoundAssumption ==
    /\ Threshold \in Nat
    /\ MaxReceives \in Nat
    /\ MaxMsgs \in Nat
    /\ AllocMayFail \in BOOLEAN /\ AccessMayFail \in BOOLEAN

VARIABLES
    write_index,  \* dest_ring->write_index, and the engine's register
    sw_index,     \* dest_ring->sw_index: next descriptor to pop
    desc,         \* the descriptors: message number, or 0 for nbytes = 0
    needed,       \* pipe_info->recv_bufs_needed
    post,         \* hif_post_recv_buffers_for_pipe in each thread
    freed,        \* buffers that hif_stop revoked
    tpc,          \* where the tasklet is
    msg,          \* the message popped last
    delivered,    \* the message handed to hif_ce_do_recv last, or freed
                  \* instead after a target reset
    count,        \* CE_state->receive_count
    checks,       \* more_comp_cnt
    rx_pending,   \* CE_state->rx_pending
    sched,        \* the tasklet is scheduled
    active,       \* scn->active_tasklet_cnt
    irq,          \* the engine's interrupt is enabled
    status,       \* HOST_IS_COPY_COMPLETE in the interrupt status register
    nwb, wbi,     \* messages written back, and the next descriptor for one
    nrd, drri,    \* messages counted by the read index, and that index
    lost,         \* scn->recovery: access to the target fails
    reset,        \* target_status = OL_TRGET_STATUS_RESET
    stale,        \* posted buffers that hif_post_recv_buffers_for_pipe freed
    phase         \* "up", "nointrs", "revoke", "down"

ring == <<write_index, sw_index, desc>>
buffers == <<needed, post, freed>>
tasklet == <<tpc, msg, delivered, count, checks, rx_pending>>
intr == <<sched, active, irq, status>>
engine == <<nwb, wbi, nrd, drri>>
target == <<lost, reset, stale>>
vars == <<ring, buffers, tasklet, intr, engine, target, phase>>

Threads == {"start", "tasklet"}
Indexes == 0 .. NEntries - 1

----------------------------------------------------------------------------
(* Ring arithmetic.  The code masks with nentries - 1; for the differences *)
(* and successors of indexes that is one turn of the ring at most.         *)

Wrap(x) == IF x >= NEntries THEN x - NEntries
           ELSE IF x < 0 THEN x + NEntries ELSE x
CE_RING_DELTA(from, to) == Wrap(to - from)
CE_RING_IDX_INCR(i) == Wrap(i + 1)

Posted == CE_RING_DELTA(sw_index, write_index)

\* The test that ce_recv_buf_enqueue makes.
HasRoom == CE_RING_DELTA(write_index, Wrap(sw_index - 1)) > 0

Init ==
    /\ write_index = 0 /\ sw_index = 0
    /\ desc = [i \in Indexes |-> 0]
    /\ needed = NEntries - 1
    /\ post = [t \in Threads |-> IF t = "start" THEN "loop" ELSE "off"]
    /\ freed = 0
    /\ tpc = "idle" /\ msg = 0 /\ delivered = 0
    /\ count = 0 /\ checks = 0 /\ rx_pending = FALSE
    /\ sched = FALSE /\ active = 0 /\ irq = TRUE /\ status = FALSE
    /\ nwb = 0 /\ wbi = 0 /\ nrd = 0 /\ drri = 0
    /\ lost = FALSE /\ reset = FALSE /\ stale = 0
    /\ phase = "up"

----------------------------------------------------------------------------
(* hif_post_recv_buffers_for_pipe in thread t: "loop" is at the head of    *)
(* its while, "buf" has claimed one needed buffer and dropped the lock to  *)
(* allocate, map and enqueue it.                                           *)

\* The tasklet owns ce_index_lock except around its callbacks.
IndexLockFree(t) == t = "tasklet" \/ tpc \notin {"recv", "clear", "check"}

Claim(t) ==
    /\ post[t] = "loop"
    /\ \/ needed > 0 /\ needed' = needed - 1
                     /\ post' = [post EXCEPT ![t] = "buf"]
       \/ needed = 0 /\ needed' = needed
                     /\ post' = [post EXCEPT ![t] = "off"]
    /\ UNCHANGED <<ring, freed, tasklet, intr, engine, target, phase>>

\* The allocation or the mapping fails: the claim is returned, the loop left.
MutantGiveBack(n) == n
GiveBack(n) == n + 1

NoBuffer(t) ==
    /\ AllocMayFail
    /\ post[t] = "buf"
    /\ post' = [post EXCEPT ![t] = "off"]
    /\ needed' = GiveBack(needed)
    /\ UNCHANGED <<ring, freed, tasklet, intr, engine, target, phase>>

\* Access to the target fails, now and from now on.
AccessFails == (lost \/ AccessMayFail) /\ lost' = TRUE

\* The caller frees the buffer and leaves its loop.
Failed(t) ==
    /\ post' = [post EXCEPT ![t] = "off"]
    /\ needed' = GiveBack(needed)

EnterBuffer ==
    /\ HasRoom
    /\ desc' = [desc EXCEPT ![write_index] = 0]
    /\ write_index' = CE_RING_IDX_INCR(write_index)

\* The buffer is posted; or nothing is, for want of access or of room; or END
\* fails when the buffer is in the ring, and the caller frees it all the same.
ce_recv_buf_enqueue(t) ==
    /\ post[t] = "buf"
    /\ IndexLockFree(t)
    /\ \/ /\ ~lost /\ EnterBuffer
          /\ post' = [post EXCEPT ![t] = "loop"]
          /\ UNCHANGED <<needed, lost, stale>>
       \/ /\ AccessFails \/ (~lost /\ ~HasRoom /\ UNCHANGED lost)
          /\ Failed(t)
          /\ UNCHANGED <<desc, write_index, stale>>
       \/ /\ ~lost /\ AccessFails /\ EnterBuffer
          /\ Failed(t)
          /\ stale' = stale + 1
    /\ UNCHANGED <<sw_index, freed, tasklet, intr, engine, reset, phase>>

----------------------------------------------------------------------------
(* The engine and the target behind it.  A message needs a posted          *)
(* descriptor; its arrival raises the status bit with the read index.      *)

EngineRuns == phase \in {"up", "nointrs"}

HwWriteBack ==
    /\ EngineRuns
    /\ nwb < MaxMsgs /\ nwb <= nrd
    /\ wbi # write_index
    /\ desc' = [desc EXCEPT ![wbi] = nwb + 1]
    /\ nwb' = nwb + 1 /\ wbi' = CE_RING_IDX_INCR(wbi)
    /\ UNCHANGED <<write_index, sw_index, nrd, drri, buffers, tasklet, intr, target, phase>>

HwReadIndex ==
    /\ EngineRuns
    /\ nrd < MaxMsgs /\ nrd <= nwb
    /\ (nrd = nwb) => (drri # write_index)
    /\ nrd' = nrd + 1 /\ drri' = CE_RING_IDX_INCR(drri)
    /\ status' = TRUE
    /\ UNCHANGED <<ring, nwb, wbi, buffers, tasklet, sched, active, irq, target, phase>>

----------------------------------------------------------------------------
(* The interrupt and the tasklet.                                          *)

MutantIrqCount(n) == n
IrqCount(n) == n + 1

ce_irq_handler ==
    /\ phase = "up" /\ irq /\ status
    /\ irq' = FALSE
    /\ active' = IrqCount(active)
    /\ sched' = TRUE
    /\ UNCHANGED <<ring, buffers, tasklet, status, engine, target, phase>>

\* ce_tasklet up to the loop of ce_per_engine_service, which does nothing
\* without access to the target.
ce_tasklet ==
    /\ tpc = "idle" /\ sched
    /\ sched' = FALSE
    /\ \/ /\ ~lost
          /\ tpc' = "recv" /\ count' = 0 /\ checks' = 0
          /\ UNCHANGED lost
       \/ /\ AccessFails
          /\ tpc' = "exit"
          /\ UNCHANGED <<count, checks>>
    /\ UNCHANGED <<ring, buffers, msg, delivered, rx_pending, active, irq,
                   status, engine, reset, stale, phase>>

\* ce_completed_recv_next_nolock: take the descriptor at sw_index if the
\* engine has written it back.
MutantPop ==
    /\ desc[sw_index] # 0
    /\ msg' = desc[sw_index]
    /\ sw_index' = CE_RING_IDX_INCR(sw_index)
    /\ desc' = desc
Pop ==
    /\ desc[sw_index] # 0
    /\ msg' = desc[sw_index]
    /\ desc' = [desc EXCEPT ![sw_index] = 0]
    /\ sw_index' = CE_RING_IDX_INCR(sw_index)

NothingToPop == desc[sw_index] = 0 /\ UNCHANGED <<desc, sw_index, msg>>

\* The while of ce_per_engine_service.
ServiceRecv ==
    /\ tpc = "recv"
    /\ \/ Pop /\ tpc' = "cb"
       \/ NothingToPop /\ tpc' = "clear"
    /\ UNCHANGED <<write_index, buffers, delivered, count, checks, rx_pending,
                   intr, engine, target, phase>>

\* hif_pci_ce_recv_data replaces the buffer before it hands the message up.
RecvData ==
    /\ tpc = "cb"
    /\ needed' = needed + 1
    /\ post' = [post EXCEPT !["tasklet"] = "loop"]
    /\ tpc' = "post"
    /\ UNCHANGED <<ring, freed, msg, delivered, count, checks, rx_pending,
                   intr, engine, target, phase>>

hif_max_num_receives_reached(n) == n > MaxReceives

Deliver ==
    /\ tpc = "post" /\ post["tasklet"] = "off"
    /\ delivered' = msg
    /\ count' = count + 1
    /\ IF hif_max_num_receives_reached(count + 1)
       THEN tpc' = "exit" /\ rx_pending' = TRUE
       ELSE tpc' = "next" /\ rx_pending' = rx_pending
    /\ UNCHANGED <<ring, buffers, msg, checks, intr, engine, target, phase>>

\* The do-while of the callback; when it ends, the service loop goes on.
RecvDataNext ==
    /\ tpc = "next"
    /\ \/ Pop /\ tpc' = "cb"
       \/ NothingToPop /\ tpc' = "recv"
    /\ UNCHANGED <<write_index, buffers, delivered, count, checks, rx_pending,
                   intr, engine, target, phase>>

ClearStatus ==
    /\ tpc = "clear"
    /\ status' = FALSE
    /\ tpc' = "check"
    /\ UNCHANGED <<ring, buffers, msg, delivered, count, checks, rx_pending,
                   sched, active, irq, engine, target, phase>>

ce_recv_entries_done == CE_RING_DELTA(sw_index, drri) # 0

\* Look again before leaving, at most Threshold times.
MutantCheckAgain ==
    /\ tpc = "check"
    /\ tpc' = "exit" /\ rx_pending' = FALSE
    /\ UNCHANGED <<ring, buffers, msg, delivered, count, checks, intr, engine,
                   target, phase>>
CheckAgain ==
    /\ tpc = "check"
    /\ IF ce_recv_entries_done /\ checks < Threshold
       THEN tpc' = "recv" /\ checks' = checks + 1 /\ rx_pending' = rx_pending
       ELSE tpc' = "exit" /\ checks' = checks /\ rx_pending' = FALSE
    /\ UNCHANGED <<ring, buffers, msg, delivered, count, intr, engine, target, phase>>

\* The end of ce_tasklet: run again, or enable the interrupt, unless the target
\* was reset, and then count this tasklet off.
ServiceExit ==
    /\ tpc = "exit"
    /\ IF rx_pending
       THEN sched' = TRUE /\ irq' = irq /\ tpc' = "idle"
       ELSE irq' = (irq \/ ~reset) /\ sched' = sched /\ tpc' = "off"
    /\ UNCHANGED <<ring, buffers, msg, delivered, count, checks, rx_pending,
                   active, status, engine, target, phase>>

CountOff ==
    /\ tpc = "off"
    /\ tpc' = "idle" /\ active' = active - 1
    /\ UNCHANGED <<ring, buffers, msg, delivered, count, checks, rx_pending,
                   sched, irq, status, engine, target, phase>>

----------------------------------------------------------------------------
(* The target fails: ol_target_failure.                                    *)

ol_target_failure ==
    /\ AccessMayFail
    /\ phase = "up" /\ ~reset
    /\ reset' = TRUE
    /\ UNCHANGED <<ring, buffers, tasklet, intr, engine, lost, stale, phase>>

(* Unload: hif_nointrs frees the interrupts, ce_tasklet_kill waits for the *)
(* tasklet, and hif_stop revokes what is posted.                           *)

hif_nointrs ==
    /\ phase = "up" /\ post["start"] = "off"
    /\ phase' = "nointrs"
    /\ UNCHANGED <<ring, buffers, tasklet, intr, engine, target>>

\* tasklet_kill claims the tasklet between two runs, so that a tasklet that would
\* schedule itself again does not run any more.
ce_tasklet_kill ==
    /\ phase = "nointrs" /\ tpc = "idle"
    /\ sched => rx_pending
    /\ sched' = FALSE /\ active' = 0
    /\ phase' = "revoke"
    /\ UNCHANGED <<ring, buffers, tasklet, irq, status, engine, target>>

ce_revoke_recv_next ==
    /\ phase = "revoke"
    /\ IF write_index # sw_index
       THEN /\ sw_index' = CE_RING_IDX_INCR(sw_index)
            /\ freed' = freed + 1
            /\ phase' = phase
       ELSE /\ phase' = "down"
            /\ UNCHANGED <<sw_index, freed>>
    /\ UNCHANGED <<write_index, desc, needed, post, tasklet, intr, engine, target>>

----------------------------------------------------------------------------
PostStep(t) == Claim(t) \/ NoBuffer(t) \/ ce_recv_buf_enqueue(t)

TaskletStep ==
    \/ ce_tasklet \/ ServiceRecv \/ RecvData \/ Deliver \/ RecvDataNext
    \/ ClearStatus \/ CheckAgain \/ ServiceExit \/ CountOff

EngineStep == HwWriteBack \/ HwReadIndex

Next ==
    \/ \E t \in Threads : PostStep(t)
    \/ EngineStep
    \/ ce_irq_handler
    \/ TaskletStep
    \/ ol_target_failure
    \/ hif_nointrs \/ ce_tasklet_kill \/ ce_revoke_recv_next

Spec == Init /\ [][Next]_vars

\* The half of a transfer that the host has not seen yet arrives.
EngineCompletes ==
    \/ nwb < nrd /\ HwWriteBack
    \/ nrd < nwb /\ HwReadIndex

FairSpec ==
    /\ Spec
    /\ \A t \in Threads : WF_vars(PostStep(t))
    /\ WF_vars(ce_irq_handler)
    /\ WF_vars(TaskletStep)
    /\ WF_vars(EngineCompletes)

----------------------------------------------------------------------------
(* Properties.                                                             *)

Phases == {"up", "nointrs", "revoke", "down"}
TaskletPcs == {"idle", "recv", "cb", "post", "next", "clear", "check", "exit",
               "off"}

\* The type of the state.
TypeOK ==
    /\ write_index \in Indexes /\ sw_index \in Indexes
    /\ desc \in [Indexes -> 0 .. MaxMsgs]
    /\ needed \in 0 .. NEntries /\ freed \in 0 .. NEntries
    /\ post \in [Threads -> {"off", "loop", "buf"}]
    /\ tpc \in TaskletPcs
    /\ msg \in 0 .. MaxMsgs /\ delivered \in 0 .. MaxMsgs
    /\ count \in Nat /\ checks \in 0 .. Threshold
    /\ rx_pending \in BOOLEAN /\ sched \in BOOLEAN /\ irq \in BOOLEAN
    /\ status \in BOOLEAN
    /\ active \in 0 .. 2
    /\ nwb \in 0 .. MaxMsgs /\ nrd \in 0 .. MaxMsgs
    /\ wbi \in Indexes /\ drri \in Indexes
    /\ lost \in BOOLEAN /\ reset \in BOOLEAN /\ stale \in 0 .. 1
    /\ phase \in Phases

Busy(t) == IF post[t] = "buf" THEN 1 ELSE 0
Popped == IF tpc = "cb" THEN 1 ELSE 0

\* Every receive buffer of the pipe is accounted for once: still needed,
\* claimed by one of the two threads that post, in the ring, popped and not
\* yet counted as needed, or revoked by hif_stop.  recv_bufs_needed is
\* changed under no common lock with the ring, so this relates state that
\* the two threads update at different times.  There is one exception: the
\* buffer of an enqueue whose END fails is counted as needed again while the
\* ring still holds it, freed.  This happens once at most, when access to the
\* target is lost (ce_recv_buf_enqueue, hif_post_recv_buffers_for_pipe).
BuffersConserved ==
    /\ needed + Busy("start") + Busy("tasklet") + Posted + Popped + freed
           = NEntries - 1 + stale
    /\ stale <= (IF lost THEN 1 ELSE 0)

\* CDF_ASSERT(status == CDF_STATUS_SUCCESS) after ce_recv_buf_enqueue: while
\* there is access to the target, a thread that has claimed a buffer finds room
\* in the ring for it, whatever the other thread posted while the lock was
\* dropped.
PostFindsRoom == ~lost => \A t \in Threads : post[t] = "buf" => HasRoom

\* Messages are handed up, or freed after a reset, once each in the order in which the target sent
\* them, though the callback pops descriptors in a loop of its own inside
\* the loop of ce_per_engine_service.
InOrder == [][delivered' # delivered => delivered' = delivered + 1]_vars

\* When active_tasklet_cnt is 0, which is what hif_drain_tasklets waits for,
\* the tasklet neither runs nor is scheduled, though the interrupt is
\* enabled again before the tasklet counts itself off.
DrainedIsIdle == active = 0 => tpc = "idle" /\ ~sched

\* Every message that the read index counts is handed up, unless the driver
\* unloads, the target fails or the last run of the tasklet has used up its looks (Threshold):
\* "Keep checking until we find no more events to process."
\* (ce_service.c:1679).  Clearing the status may swallow the event of a
\* message; the look after it must find the message.
AllDelivered ==
    \A k \in 1 .. MaxMsgs :
        (nrd >= k) ~> \/ delivered >= k
                      \/ phase # "up" \/ lost \/ reset
                      \/ checks = Threshold
=============================================================================
