------------------------------- MODULE HtcTx -------------------------------
(***************************************************************************)
(* The transmit path of one HTC endpoint over one copy-engine pipe:        *)
(* core/htc/htc_send.c on top of hif_send_head, hif_send_complete_check    *)
(* and hif_pci_ce_send_done of core/hif/src/ce/ce_main.c.                  *)
(*                                                                         *)
(* Several contexts run this code at once: threads in htc_send_pkt, the    *)
(* tasklet that services the pipe's completions, the receive context that  *)
(* delivers credit reports, callers of htc_flush_endpoint, and the work    *)
(* item that kicks the queue after a runtime resume.  Everything done      *)
(* between LOCK_HTC_TX and UNLOCK_HTC_TX is atomic; the draining loop of   *)
(* htc_try_send keeps the lock over several actions ("drain", "take"), so  *)
(* LockFree guards every other action that takes it.                       *)
(*                                                                         *)
(* Operators named Mutant... are plausible bugs of the definition that     *)
(* follows them.                                                           *)
(***************************************************************************)
EXTENDS Integers, Sequences, FiniteSets

CONSTANTS
    Senders,            \* threads that call htc_send_pkt
    Tasklets,           \* contexts that service the pipe's completions
    Reporters,          \* receive contexts that deliver credit reports
    Workers,            \* contexts that call htc_flush_endpoint or htc_kick_queues
    Packets,            \* the HTC packets: a finite set of numbers
    OwnerOf,            \* the thread that sends each packet
    AutoPm,             \* packets that are suspend or resume commands of WMI
    RuntimePut,         \* packets that are HTT messages without a response
    Need,               \* credits each packet requires, ceil(length / TxCreditSize)
    TxAlloc,            \* credits the target assigned to the endpoint
    TxCreditsPerMaxMsg, \* credits a message of MaxMsgLength requires
    Conns,              \* the ways the endpoint may have been connected:
                        \* IS_TX_CREDIT_FLOW_ENABLED, the send slots of its
                        \* pipe (num_sends_allowed when idle), and whether
                        \* the bus may be suspended at runtime
    NoPkt               \* no packet

Threads == Senders \cup Tasklets \cup Reporters \cup Workers

\* The contexts are different, the tasklet of a copy engine never runs twice at
\* once, packets are numbers so that a sender's packets have an order, and no
\* packet is longer than the endpoint's MaxMsgLength.  A packet has one tag.
ASSUME ConstAssumption ==
    /\ Senders \cap (Tasklets \cup Reporters \cup Workers) = {}
    /\ Tasklets \cap (Reporters \cup Workers) = {}
    /\ Reporters \cap Workers = {}
    /\ \A s, t \in Tasklets : s = t
    /\ Packets \subseteq Nat /\ IsFiniteSet(Packets)
    /\ NoPkt \notin Packets
    /\ OwnerOf \in [Packets -> Senders]
    /\ AutoPm \subseteq Packets
    /\ RuntimePut \subseteq Packets \ AutoPm
    /\ TxAlloc \in Nat
    /\ TxCreditsPerMaxMsg \in Nat \ {0}
    /\ Need \in [Packets -> 1..TxCreditsPerMaxMsg]
    /\ Conns \subseteq [credits : BOOLEAN, slots : Nat \ {0}, sleeps : BOOLEAN]

VARIABLES
    \* the HTC_ENDPOINT
    TxQueue, TxLookupQueue, TxCredits, TxProcessCount,
    \* the HIF pipe: free send slots, every packet ever posted, in order, and
    \* how many of them the copy engine has sent and the host has reaped
    num_sends_allowed, wire, hw_index, sw_index,
    \* the target: credits it owes the host, whether the host asked for them,
    \* and what htc_connect_service has agreed with it
    fwCredits, fwAsked, conn,
    \* the packets: those given to htc_send_pkt, CreditsUsed, the flag
    \* HTC_FLAGS_NEED_CREDIT_UPDATE, times handed back to their sender
    sent, CreditsUsed, needUpdate, completed,
    \* gets minus puts of the runtime-PM usage count by this endpoint
    pmUsage,
    \* the threads: where each one is, the packet it is sending, its local
    \* sendQueue and tx_resources, the completed packet it is looking up, its
    \* local lookupQueue, whether it still has to give back a send slot,
    \* whether this pass of its loop takes AUTO_PM packets only, and the state
    \* of TxQueue that its unlocked splice has read
    pc, pPacket, sendQueue, tx_resources, netbuf, lookupQueue, owesSlot,
    pmPass, seen

endpoint == <<TxQueue, TxLookupQueue, TxCredits, TxProcessCount>>
pipe     == <<num_sends_allowed, wire, hw_index, sw_index>>
target   == <<fwCredits, fwAsked, conn>>
packet   == <<sent, CreditsUsed, needUpdate, completed, pmUsage>>
locals   == <<pPacket, sendQueue, tx_resources, netbuf, lookupQueue, owesSlot,
              pmPass, seen>>
vars     == <<endpoint, pipe, target, packet, pc, locals>>

CreditFlow == conn.credits
PipeSize == conn.slots
BusSleeps == conn.sleeps

\* Packets tagged HTC_TX_PACKET_TAG_AUTO_PM, which only WMI sends, on an endpoint
\* with credits, and HTC_TX_PACKET_TAG_RUNTIME_PUT, only HTT, on one without.
TagAutoPm == IF CreditFlow THEN AutoPm ELSE {}
TagRuntimePut == IF CreditFlow THEN {} ELSE RuntimePut

-----------------------------------------------------------------------------
\* Where a thread is while it is the one that drains the endpoint's queue,
\* "beyond this point only 1 thread may enter" (the r_ steps are those of a
\* completion that it reaps on the way).
DrainPcs == {"drain", "take", "issue", "poll", "reap", "r_lookup", "r_search",
             "r_done", "r_free", "head", "put", "fail", "splice", "spliced",
             "clear", "reread", "relock"}
OtherPcs == {"idle", "free_queue", "enter", "lookup", "search", "done", "free"}

\* LOCK_HTC_TX is held across the steps of the draining loop only.
LockFree == \A t \in Threads : pc[t] \notin {"drain", "take"}

Goto(t, l) == pc' = [pc EXCEPT ![t] = l]

ElementsOf(s) == {s[i] : i \in 1..Len(s)}

\* HTC_PACKET_REMOVE: unlink the element at i, or packet p if it is there.
RemoveIndex(s, i) == SubSeq(s, 1, i - 1) \o SubSeq(s, i + 1, Len(s))
MutantWithout(s, p) == s
Without(s, p) == IF p \in ElementsOf(s)
                 THEN RemoveIndex(s, CHOOSE i \in 1..Len(s) : s[i] = p)
                 ELSE s

\* hif_pm_runtime_put refuses a put that has no get.
PmPut(n) == pmUsage' = IF pmUsage >= n THEN pmUsage - n ELSE 0

\* The first step of htc_try_send: the free slots of the pipe are read before
\* the lock is taken, and only if credits do not control the flow.
TrySendEntry == IF CreditFlow THEN "enter" ELSE "free_queue"

\* Where a thread goes on when htc_try_send returns.
TrySendReturn(t) == IF owesSlot[t] THEN "free" ELSE "idle"

Init ==
    /\ conn \in Conns
    /\ TxQueue = <<>>
    /\ TxLookupQueue = <<>>
    /\ TxCredits = TxAlloc
    /\ TxProcessCount = 0
    /\ num_sends_allowed = PipeSize
    /\ wire = <<>>
    /\ hw_index = 0
    /\ sw_index = 0
    /\ fwCredits = 0
    /\ fwAsked = FALSE
    /\ sent = {}
    /\ CreditsUsed = [p \in Packets |-> 0]
    /\ needUpdate = [p \in Packets |-> FALSE]
    /\ completed = [p \in Packets |-> 0]
    /\ pmUsage = 0
    /\ pc = [t \in Threads |-> "idle"]
    /\ pPacket = [t \in Threads |-> NoPkt]
    /\ sendQueue = [t \in Threads |-> <<>>]
    /\ tx_resources = [t \in Threads |-> 0]
    /\ netbuf = [t \in Threads |-> NoPkt]
    /\ lookupQueue = [t \in Threads |-> <<>>]
    /\ owesSlot = [t \in Threads |-> FALSE]
    /\ pmPass = [t \in Threads |-> FALSE]
    /\ seen = [t \in Threads |-> <<>>]

-----------------------------------------------------------------------------
(* htc_send_pkt and the entry of htc_try_send *)

\* htc_send_pkt: a caller hands its next packet over.  No endpoint of the
\* driver has a send-full handler that drops packets, so htc_try_send always
\* moves the packet to its own queue.
htc_send_pkt(t, p) ==
    /\ pc[t] = "idle"
    /\ OwnerOf[p] = t
    /\ p \notin sent
    /\ \A q \in Packets : OwnerOf[q] = t /\ q < p => q \in sent
    /\ sent' = sent \cup {p}
    /\ pPacket' = [pPacket EXCEPT ![t] = p]
    /\ Goto(t, TrySendEntry)
    /\ UNCHANGED <<endpoint, pipe, target, CreditsUsed, needUpdate, completed,
                   pmUsage, sendQueue, tx_resources, netbuf, lookupQueue,
                   owesSlot, pmPass, seen>>

\* Without credits, the pipe's free slots are read before the lock is taken.
ReadFreeQueueNumber(t) ==
    /\ pc[t] = "free_queue"
    /\ tx_resources' = [tx_resources EXCEPT ![t] = num_sends_allowed]
    /\ Goto(t, "enter")
    /\ UNCHANGED <<endpoint, pipe, target, packet, pPacket, sendQueue, netbuf,
                   lookupQueue, owesSlot, pmPass, seen>>

\* cdf_atomic_inc_return(TxProcessCount) > 1: somebody is draining already.
MutantDraining == TxProcessCount + 1 > 2
AlreadyDraining == TxProcessCount + 1 > 1

\* Under the lock: append the caller's packet, if any, and become the drainer
\* unless another context already is.
EnterTrySend(t) ==
    /\ pc[t] = "enter"
    /\ LockFree
    /\ TxQueue' = IF pPacket[t] = NoPkt THEN TxQueue
                                        ELSE Append(TxQueue, pPacket[t])
    /\ pPacket' = [pPacket EXCEPT ![t] = NoPkt]
    /\ IF AlreadyDraining
       THEN /\ Goto(t, TrySendReturn(t))
            /\ UNCHANGED TxProcessCount
       ELSE /\ Goto(t, "drain")
            /\ TxProcessCount' = TxProcessCount + 1
    /\ UNCHANGED <<TxLookupQueue, TxCredits, pipe, target, packet, sendQueue,
                   tx_resources, netbuf, lookupQueue, owesSlot, pmPass, seen>>

-----------------------------------------------------------------------------
(* The draining loop of htc_try_send, with the lock held *)

\* Packets tagged AUTO_PM go first and alone; others go in queue order.
IsNext(t, i) ==
    /\ i \in 1..Len(TxQueue)
    /\ IF pmPass[t]
       THEN /\ TxQueue[i] \in TagAutoPm
            /\ \A j \in 1..(i - 1) : TxQueue[j] \notin TagAutoPm
       ELSE i = 1

CanTake(t, i) ==
    /\ IsNext(t, i)
    /\ IF CreditFlow THEN Need[TxQueue[i]] <= TxCredits
                     ELSE tx_resources[t] > 0

\* The loop ends: TxProcessCount is reset and the lock is released.
EndDrain(t) ==
    /\ TxProcessCount' = 0
    /\ Goto(t, TrySendReturn(t))

\* Top of the loop: leave if there is nothing to send, else see whether there
\* are power-management packets to extract.
DrainLoop(t) ==
    /\ pc[t] = "drain"
    /\ IF TxQueue = <<>>
       THEN EndDrain(t) /\ UNCHANGED pmPass
       ELSE /\ pmPass' = [pmPass EXCEPT ![t] =
                            \E i \in 1..Len(TxQueue) : TxQueue[i] \in TagAutoPm]
            /\ Goto(t, "take")
            /\ UNCHANGED TxProcessCount
    /\ UNCHANGED <<TxQueue, TxLookupQueue, TxCredits, pipe, target, packet,
                   pPacket, sendQueue, tx_resources, netbuf, lookupQueue,
                   owesSlot, seen>>

\* Few credits are left: the message asks the target to return credits.
NeedCreditUpdate(left) == left <= TxCreditsPerMaxMsg

\* One iteration of get_htc_send_packets_credit_based.
TakeWithCredits(t, p) ==
    /\ TxCredits' = TxCredits - Need[p]
    /\ CreditsUsed' = [CreditsUsed EXCEPT ![p] = Need[p]]
    /\ needUpdate' = [needUpdate EXCEPT ![p] =
                        NeedCreditUpdate(TxCredits - Need[p])]
    /\ UNCHANGED tx_resources

\* One iteration of get_htc_send_packets.
TakeWithResources(t, p) ==
    /\ tx_resources' = [tx_resources EXCEPT ![t] = @ - 1]
    /\ CreditsUsed' = [CreditsUsed EXCEPT ![p] = 0]
    /\ needUpdate' = [needUpdate EXCEPT ![p] = FALSE]
    /\ UNCHANGED TxCredits

\* Dequeue one packet; an ordinary packet also holds a runtime-PM reference.
TakePacket(t, i) ==
    /\ pc[t] = "take"
    /\ CanTake(t, i)
    /\ IF CreditFlow THEN TakeWithCredits(t, TxQueue[i])
                     ELSE TakeWithResources(t, TxQueue[i])
    /\ sendQueue' = [sendQueue EXCEPT ![t] = Append(@, TxQueue[i])]
    /\ TxQueue' = RemoveIndex(TxQueue, i)
    /\ pmUsage' = IF pmPass[t] THEN pmUsage ELSE pmUsage + 1
    /\ UNCHANGED <<TxLookupQueue, TxProcessCount, pipe, target, sent,
                   completed, pc, pPacket, netbuf, lookupQueue, owesSlot,
                   pmPass, seen>>

\* hif_pm_runtime_get refuses the reference for the next ordinary packet while
\* the bus is suspended or on its way there or back (RuntimePm says when).
GetRefused(t) == BusSleeps /\ ~pmPass[t]

\* No more packets for this pass: issue those taken, or leave the loop.
StopTaking(t) ==
    /\ pc[t] = "take"
    /\ (\A i \in 1..Len(TxQueue) : ~CanTake(t, i)) \/ GetRefused(t)
    /\ IF sendQueue[t] = <<>>
       THEN EndDrain(t)
       ELSE Goto(t, "issue") /\ UNCHANGED TxProcessCount
    /\ UNCHANGED <<TxQueue, TxLookupQueue, TxCredits, pipe, target, packet,
                   locals>>

-----------------------------------------------------------------------------
(* htc_issue_packets and the HIF calls it makes, without the lock *)

\* Next packet of the local queue: store it in the lookup queue first.  When
\* the queue is drained, go back to the loop (re-reading the free slots).
IssueNext(t) ==
    /\ pc[t] = "issue"
    /\ sendQueue[t] # <<>>
    /\ LockFree
    /\ pPacket' = [pPacket EXCEPT ![t] = Head(sendQueue[t])]
    /\ sendQueue' = [sendQueue EXCEPT ![t] = Tail(@)]
    /\ TxLookupQueue' = Append(TxLookupQueue, Head(sendQueue[t]))
    /\ Goto(t, "poll")
    /\ UNCHANGED <<TxQueue, TxCredits, TxProcessCount, pipe, target, packet,
                   tx_resources, netbuf, lookupQueue, owesSlot, pmPass, seen>>

IssueEnd(t) ==
    /\ pc[t] = "issue"
    /\ sendQueue[t] = <<>>
    /\ Goto(t, IF CreditFlow THEN "relock" ELSE "reread")
    /\ UNCHANGED <<endpoint, pipe, target, packet, locals>>

RereadFreeQueueNumber(t) ==
    /\ pc[t] = "reread"
    /\ tx_resources' = [tx_resources EXCEPT ![t] = num_sends_allowed]
    /\ Goto(t, "relock")
    /\ UNCHANGED <<endpoint, pipe, target, packet, pPacket, sendQueue, netbuf,
                   lookupQueue, owesSlot, pmPass, seen>>

Relock(t) ==
    /\ pc[t] = "relock"
    /\ LockFree
    /\ Goto(t, "drain")
    /\ UNCHANGED <<endpoint, pipe, target, packet, locals>>

\* The ring has PipeSize + 1 entries, and plenty is more than half of them.
PlentyOfSlots == num_sends_allowed > (PipeSize + 1) \div 2

\* hif_send_complete_check: reap completions unless enough slots are free.
hif_send_complete_check(t) ==
    /\ pc[t] = "poll"
    /\ Goto(t, IF PlentyOfSlots THEN "head" ELSE "reap")
    /\ UNCHANGED <<endpoint, pipe, target, packet, locals>>

\* hif_send_head, one fragment per packet: refused if the pipe has no free slot.
hif_send_head(t) ==
    /\ pc[t] = "head"
    /\ IF num_sends_allowed < 1
       THEN /\ Goto(t, "fail")
            /\ UNCHANGED <<num_sends_allowed, wire, pPacket>>
       ELSE /\ num_sends_allowed' = num_sends_allowed - 1
            /\ wire' = Append(wire, pPacket[t])
            /\ pPacket' = [pPacket EXCEPT ![t] = NoPkt]
            /\ Goto(t, IF pPacket[t] \in TagRuntimePut THEN "put" ELSE "issue")
    /\ UNCHANGED <<endpoint, hw_index, sw_index, target, packet, sendQueue,
                   tx_resources, netbuf, lookupQueue, owesSlot, pmPass, seen>>

\* "For HTT messages without a response from fw, do the runtime put here": a
\* put for a packet that was sent, besides the one of its completion.
PutWhenIssued(t) ==
    /\ pc[t] = "put"
    /\ PmPut(1)
    /\ Goto(t, "issue")
    /\ UNCHANGED <<endpoint, pipe, target, sent, CreditsUsed, needUpdate,
                   completed, locals>>

\* The packet leaves the list that it is on, gets its credits back and returns
\* to the head of the local queue.
IssueFailed(t) ==
    /\ pc[t] = "fail"
    /\ LockFree
    /\ TxLookupQueue' = Without(TxLookupQueue, pPacket[t])
    /\ lookupQueue' = [u \in Threads |-> Without(lookupQueue[u], pPacket[t])]
    /\ TxCredits' = TxCredits + CreditsUsed[pPacket[t]]
    /\ sendQueue' = [sendQueue EXCEPT ![t] = <<pPacket[t]>> \o @]
    /\ pPacket' = [pPacket EXCEPT ![t] = NoPkt]
    /\ Goto(t, "splice")
    /\ UNCHANGED <<TxQueue, TxProcessCount, pipe, target, packet, tx_resources,
                   netbuf, owesSlot, pmPass, seen>>

MutantPutsAfterFailure(t) == Len(sendQueue[t]) - 1
PutsAfterFailure(t) == Len(sendQueue[t])

\* A put for each packet of the local queue, then the queue is spliced to the
\* head of TxQueue without the lock: reading the list and writing it are two
\* steps.
SpliceRead(t) ==
    /\ pc[t] = "splice"
    /\ PmPut(PutsAfterFailure(t))
    /\ seen' = [seen EXCEPT ![t] = TxQueue]
    /\ Goto(t, "spliced")
    /\ UNCHANGED <<endpoint, pipe, target, sent, CreditsUsed, needUpdate,
                   completed, pPacket, sendQueue, tx_resources, netbuf,
                   lookupQueue, owesSlot, pmPass>>

MutantToHead(q, s) == s \o q
ToHead(q, s) == q \o s

\* If the list changed in between, the race on its head leaves either side's
\* packets on the list, or both.
SpliceWrite(t) ==
    /\ pc[t] = "spliced"
    /\ \/ TxQueue' = ToHead(sendQueue[t], TxQueue)
       \/ seen[t] # TxQueue /\ TxQueue' = sendQueue[t]
       \/ seen[t] # TxQueue /\ TxQueue' = TxQueue
    /\ sendQueue' = [sendQueue EXCEPT ![t] = <<>>]
    /\ seen' = [seen EXCEPT ![t] = <<>>]
    /\ Goto(t, "clear")
    /\ UNCHANGED <<TxLookupQueue, TxCredits, TxProcessCount, pipe, target,
                   packet, pPacket, tx_resources, netbuf, lookupQueue,
                   owesSlot, pmPass>>

\* After a failure the loop is left: take the lock and reset TxProcessCount.
ClearAfterFailure(t) ==
    /\ pc[t] = "clear"
    /\ LockFree
    /\ EndDrain(t)
    /\ UNCHANGED <<TxQueue, TxLookupQueue, TxCredits, pipe, target, packet,
                   locals>>

-----------------------------------------------------------------------------
(* Completions: the tasklet, or a drainer that reaps on its way *)

\* ce_completed_send_next takes the oldest packet the copy engine has sent.
PopCompletion(t, l) ==
    /\ sw_index < hw_index
    /\ netbuf' = [netbuf EXCEPT ![t] = wire[sw_index + 1]]
    /\ sw_index' = sw_index + 1
    /\ Goto(t, l)
    /\ UNCHANGED <<endpoint, num_sends_allowed, wire, hw_index, target, packet,
                   pPacket, sendQueue, tx_resources, lookupQueue, owesSlot,
                   pmPass, seen>>

ce_per_engine_service(t) == pc[t] = "idle" /\ PopCompletion(t, "lookup")

ce_per_engine_servicereap(t) ==
    /\ pc[t] = "reap"
    /\ \/ PopCompletion(t, "r_lookup")
       \/ /\ sw_index = hw_index
          /\ Goto(t, "head")
          /\ UNCHANGED <<endpoint, pipe, target, packet, locals>>

\* Only credits make the re-check at the end of the handler unnecessary.
RecheckAfterCompletion == ~CreditFlow

\* The end of htc_tx_completion_handler.  Without credits it re-checks the
\* queue: the tasklet may become the drainer and frees the send slot only when
\* htc_try_send returns; a reaping drainer finds its own TxProcessCount and
\* returns at once.
EndCompletion(t, reaping) ==
    /\ netbuf' = [netbuf EXCEPT ![t] = NoPkt]
    /\ IF RecheckAfterCompletion /\ ~reaping
       THEN /\ Goto(t, TrySendEntry)
            /\ owesSlot' = [owesSlot EXCEPT ![t] = TRUE]
       ELSE /\ Goto(t, IF reaping THEN "r_free" ELSE "free")
            /\ UNCHANGED owesSlot

\* htc_lookup_tx_packet, first part: completions come in order, so the packet
\* should be at the head; if not, the whole queue is moved to a local one.
LookupHead(t) ==
    LET reaping == pc[t] = "r_lookup" IN
    /\ pc[t] \in {"lookup", "r_lookup"}
    /\ LockFree
    /\ \/ /\ TxLookupQueue = <<>>
          /\ EndCompletion(t, reaping)
          /\ UNCHANGED <<TxLookupQueue, lookupQueue>>
       \/ /\ TxLookupQueue # <<>>
          /\ netbuf[t] = Head(TxLookupQueue)
          /\ TxLookupQueue' = Tail(TxLookupQueue)
          /\ Goto(t, IF reaping THEN "r_done" ELSE "done")
          /\ UNCHANGED <<lookupQueue, netbuf, owesSlot>>
       \/ /\ TxLookupQueue # <<>>
          /\ netbuf[t] # Head(TxLookupQueue)
          /\ lookupQueue' = [lookupQueue EXCEPT ![t] = TxLookupQueue]
          /\ TxLookupQueue' = <<>>
          /\ Goto(t, IF reaping THEN "r_search" ELSE "search")
          /\ UNCHANGED <<netbuf, owesSlot>>
    /\ UNCHANGED <<TxQueue, TxCredits, TxProcessCount, pipe, target, packet,
                   pPacket, sendQueue, tx_resources, pmPass, seen>>

\* Second part: search the local queue and put the rest back at the head.
LookupSearch(t) ==
    LET reaping == pc[t] = "r_search" IN
    /\ pc[t] \in {"search", "r_search"}
    /\ LockFree
    /\ TxLookupQueue' = Without(lookupQueue[t], netbuf[t]) \o TxLookupQueue
    /\ lookupQueue' = [lookupQueue EXCEPT ![t] = <<>>]
    /\ IF netbuf[t] \in ElementsOf(lookupQueue[t])
       THEN /\ Goto(t, IF reaping THEN "r_done" ELSE "done")
            /\ UNCHANGED <<netbuf, owesSlot>>
       ELSE EndCompletion(t, reaping)
    /\ UNCHANGED <<TxQueue, TxCredits, TxProcessCount, pipe, target, packet,
                   pPacket, sendQueue, tx_resources, pmPass, seen>>

\* An AUTO_PM packet was sent without taking a runtime-PM reference.
HoldsReference(p) == p \notin TagAutoPm

\* The packet was found: drop its runtime-PM reference and give it back.
htc_tx_completion_handler(t) ==
    /\ pc[t] \in {"done", "r_done"}
    /\ IF HoldsReference(netbuf[t]) THEN PmPut(1) ELSE UNCHANGED pmUsage
    /\ completed' = [completed EXCEPT ![netbuf[t]] = @ + 1]
    /\ EndCompletion(t, pc[t] = "r_done")
    /\ UNCHANGED <<endpoint, pipe, target, sent, CreditsUsed, needUpdate,
                   pPacket, sendQueue, tx_resources, lookupQueue, pmPass, seen>>

SlotsAfterCompletion(t) == num_sends_allowed + 1

\* hif_pci_ce_send_done frees the send slot after the handler has returned.
hif_pci_ce_send_done(t) ==
    /\ pc[t] \in {"free", "r_free"}
    /\ num_sends_allowed' = SlotsAfterCompletion(t)
    /\ owesSlot' = IF pc[t] = "free" THEN [owesSlot EXCEPT ![t] = FALSE]
                                     ELSE owesSlot
    /\ Goto(t, IF pc[t] = "free" THEN "idle" ELSE "reap")
    /\ UNCHANGED <<endpoint, wire, hw_index, sw_index, target, packet, pPacket,
                   sendQueue, tx_resources, netbuf, lookupQueue, pmPass, seen>>

-----------------------------------------------------------------------------
(* Credit reports, flushes and the target *)

MutantCreditsAfterReport == fwCredits
CreditsAfterReport == TxCredits + fwCredits

\* With credits and packets, the queue is checked again.
MutantRecheckAfterReport == FALSE
RecheckAfterReport == CreditsAfterReport # 0 /\ TxQueue # <<>>

\* htc_process_credit_rpt: the target returns the credits it owes.
htc_process_credit_rpt(t) ==
    /\ pc[t] = "idle"
    /\ LockFree
    /\ fwCredits > 0
    /\ TxCredits' = CreditsAfterReport
    /\ fwCredits' = 0
    /\ fwAsked' = FALSE
    /\ IF RecheckAfterReport THEN Goto(t, TrySendEntry) ELSE UNCHANGED pc
    /\ UNCHANGED <<TxQueue, TxLookupQueue, TxProcessCount, pipe, conn, packet,
                   locals>>

\* htc_flush_endpoint_tx: every queued packet is handed back as cancelled.
htc_flush_endpoint_tx(t) ==
    /\ pc[t] = "idle"
    /\ LockFree
    /\ TxQueue # <<>>
    /\ completed' = [p \in Packets |->
                       IF p \in ElementsOf(TxQueue) THEN completed[p] + 1
                                                    ELSE completed[p]]
    /\ TxQueue' = <<>>
    /\ UNCHANGED <<TxLookupQueue, TxCredits, TxProcessCount, pipe, target, sent,
                   CreditsUsed, needUpdate, pmUsage, pc, locals>>

\* htc_kick_queues, which a runtime resume schedules: try the queue again.
htc_kick_queues(t) ==
    /\ pc[t] = "idle"
    /\ t \in Workers
    /\ BusSleeps
    /\ Goto(t, TrySendEntry)
    /\ UNCHANGED <<endpoint, pipe, target, packet, locals>>

\* The copy engine has sent a packet; the target now holds its credits.
TargetReceives ==
    /\ hw_index < Len(wire)
    /\ hw_index' = hw_index + 1
    /\ fwCredits' = fwCredits + CreditsUsed[wire[hw_index + 1]]
    /\ fwAsked' = (fwAsked \/ needUpdate[wire[hw_index + 1]])
    /\ UNCHANGED <<endpoint, num_sends_allowed, wire, sw_index, conn, packet, pc,
                   locals>>

-----------------------------------------------------------------------------
\* A step of a thread inside the driver, or of the work item that enters it.
ThreadStep(t) ==
    \/ htc_kick_queues(t)
    \/ ReadFreeQueueNumber(t)
    \/ EnterTrySend(t)
    \/ DrainLoop(t)
    \/ \E i \in 1..Len(TxQueue) : TakePacket(t, i)
    \/ StopTaking(t)
    \/ IssueNext(t)
    \/ IssueEnd(t)
    \/ RereadFreeQueueNumber(t)
    \/ Relock(t)
    \/ hif_send_complete_check(t)
    \/ hif_send_head(t)
    \/ PutWhenIssued(t)
    \/ IssueFailed(t)
    \/ SpliceRead(t)
    \/ SpliceWrite(t)
    \/ ClearAfterFailure(t)
    \/ ce_per_engine_servicereap(t)
    \/ LookupHead(t)
    \/ LookupSearch(t)
    \/ htc_tx_completion_handler(t)
    \/ hif_pci_ce_send_done(t)

Next ==
    \/ \E t \in Senders, p \in Packets : htc_send_pkt(t, p)
    \/ \E t \in Tasklets : ce_per_engine_service(t)
    \/ \E t \in Reporters : htc_process_credit_rpt(t)
    \/ \E t \in Workers : htc_flush_endpoint_tx(t)
    \/ \E t \in Threads : ThreadStep(t)
    \/ TargetReceives

Spec == Init /\ [][Next]_vars

\* A thread inside the driver runs on, interrupts are served, the copy engine
\* sends what is posted and the target answers a request for credits; nobody
\* has to send or flush, and the target may keep credits nobody asked for.
Fairness ==
    /\ \A t \in Threads : WF_vars(pc[t] # "idle" /\ ThreadStep(t))
    /\ \A t \in Tasklets : WF_vars(ce_per_engine_service(t))
    /\ \A t \in Reporters : WF_vars(fwAsked /\ htc_process_credit_rpt(t))
    /\ WF_vars(TargetReceives)

FairSpec == Spec /\ Fairness

-----------------------------------------------------------------------------
(* Properties *)

\* Every variable has its type; credits and send slots never go below zero.
TypeOK ==
    /\ TxQueue \in Seq(Packets)
    /\ TxLookupQueue \in Seq(Packets)
    /\ TxCredits \in Nat
    /\ TxProcessCount \in 0..1
    /\ num_sends_allowed \in Nat
    /\ wire \in Seq(Packets)
    /\ hw_index \in 0..Len(wire)
    /\ sw_index \in 0..hw_index
    /\ fwCredits \in Nat
    /\ fwAsked \in BOOLEAN
    /\ conn \in Conns
    /\ sent \subseteq Packets
    /\ CreditsUsed \in [Packets -> Nat]
    /\ needUpdate \in [Packets -> BOOLEAN]
    /\ completed \in [Packets -> Nat]
    /\ pmUsage \in Nat
    /\ pc \in [Threads -> DrainPcs \cup OtherPcs]
    /\ pPacket \in [Threads -> Packets \cup {NoPkt}]
    /\ sendQueue \in [Threads -> Seq(Packets)]
    /\ tx_resources \in [Threads -> Nat]
    /\ netbuf \in [Threads -> Packets \cup {NoPkt}]
    /\ lookupQueue \in [Threads -> Seq(Packets)]
    /\ owesSlot \in [Threads -> BOOLEAN]
    /\ pmPass \in [Threads -> BOOLEAN]
    /\ seen \in [Threads -> Seq(Packets)]

\* "We assume that the HIF layer will always have bus resources greater than
\* target transmit resources": the pipe has more slots than the target credits.
AmplePipe == CreditFlow /\ PipeSize > TxAlloc

\* "Beyond this point only 1 thread may enter": TxProcessCount, which threads
\* test, increment and reset in separate critical sections, keeps two threads
\* from draining the endpoint at once, and is set exactly while one does.
SingleDrainer ==
    /\ \A s, t \in Threads :
          pc[s] \in DrainPcs /\ pc[t] \in DrainPcs => s = t
    /\ TxProcessCount = IF \E t \in Threads : pc[t] \in DrainPcs THEN 1 ELSE 0

\* The pointers and the places on lists through which HTC owns packet p.
Pointed(t, p) ==
    \/ pPacket[t] = p /\ pc[t] \in {"free_queue", "enter"}
    \/ netbuf[t] = p /\ pc[t] \in {"done", "r_done"}

Positions(s, p) == {i \in 1..Len(s) : s[i] = p}

PlacesIn(t, p) ==
    {<<"sendQueue", t, i>> : i \in Positions(sendQueue[t], p)}
    \cup {<<"lookupQueue", t, i>> : i \in Positions(lookupQueue[t], p)}
    \cup (IF Pointed(t, p) THEN {<<"pointer", t>>} ELSE {})

Places(p) ==
    {<<"TxQueue", i>> : i \in Positions(TxQueue, p)}
    \cup {<<"TxLookupQueue", i>> : i \in Positions(TxLookupQueue, p)}
    \cup (UNION {PlacesIn(t, p) : t \in Threads})

Copies(p) == Cardinality(Places(p))

\* A packet given to htc_send_pkt is on one list of HTC or has been handed back
\* once: no race of senders, completions, credit reports, failed sends and
\* flushes loses it, lists it twice or completes it twice.  With too few slots
\* the splice of a refused batch, made without the lock, may lose packets.
OnePlace ==
    AmplePipe =>
        \A p \in Packets :
            Copies(p) + completed[p] = IF p \in sent THEN 1 ELSE 0

\* Packets that were charged and that the target has not received.
Charged ==
    (UNION {ElementsOf(sendQueue[t]) :
               t \in {u \in Threads : pc[u] \notin {"splice", "spliced"}}})
    \cup {pPacket[t] : t \in {u \in Threads :
                                 pc[u] \in DrainPcs /\ pPacket[u] # NoPkt}}
    \cup {wire[i] : i \in (hw_index + 1)..Len(wire)}

\* The credits in them, one by one.
CreditsOnTheWay == UNION {{p} \X (1..CreditsUsed[p]) : p \in Charged}

\* Every credit the target assigned is with the endpoint, in a packet on its
\* way, or with the target.  A refused batch loses the credits of the packets
\* behind the refused one, but nothing ever invents one.
CreditsConserved ==
    CreditFlow =>
        LET total == TxCredits + fwCredits + Cardinality(CreditsOnTheWay)
        IN  total <= TxAlloc /\ (AmplePipe => total = TxAlloc)

\* Ordinary packets that were taken from TxQueue and not given back.
HoldPm ==
    {p \in Packets \ TagAutoPm :
        \/ p \in ElementsOf(TxLookupQueue)
        \/ \E t \in Threads :
              \/ pc[t] # "spliced" /\ p \in ElementsOf(sendQueue[t])
              \/ p \in ElementsOf(lookupQueue[t])
              \/ netbuf[t] = p /\ pc[t] \in {"done", "r_done"}}

\* HTT messages without a response that went out: each is put when it is issued
\* and once more when it completes.
PutTwice == TagRuntimePut \cap ElementsOf(wire)

\* The runtime-PM usage count holds one reference for each ordinary packet
\* between its dequeue and its completion: none is ever left over, and none is
\* missing but for the surplus puts of HTT messages, at most one for each.  Only
\* a refused batch of AUTO_PM packets puts references that were never taken.
PmBalanced ==
    /\ pmUsage <= Cardinality(HoldPm)
    /\ AmplePipe \/ TagAutoPm = {} => Cardinality(HoldPm) <= pmUsage + Cardinality(PutTwice)

\* Packets that were sent and are on no list any more, though nobody got them
\* back and the bus did not take them.
Lost == {p \in sent : Copies(p) = 0 /\ completed[p] = 0 /\ p \notin ElementsOf(wire)
                      /\ \A t \in Threads : pPacket[t] # p}

Service == INSTANCE HtcService
    WITH reliable <- AmplePipe, accepted <- sent, bus <- wire, lost <- Lost,
         returned <- completed

\* The transmit path implements the endpoint's promise: through all the queues,
\* threads, failed batches and flushes, a packet goes to the copy engine at most
\* once and in its sender's order and is handed back at most once; with more
\* slots than credits none is ever lost.
ImplementsService == Service!Spec

\* The pipe is so large that senders never reap completions themselves, and the
\* tasklet alone uses the lookup queue.  (Where the bus sleeps, RuntimePm says
\* which packets wait for it.)
NobodyReaps == CreditFlow /\ PipeSize - TxAlloc > (PipeSize + 1) \div 2

\* Every packet given to htc_send_pkt is handed back in the end.  Where senders
\* reap too, one lookup may find the queue that another has emptied to search
\* it, and drop its packet.
EventuallyCompleted ==
    \A p \in Packets : p \in sent /\ NobodyReaps /\ ~BusSleeps ~> completed[p] > 0
=============================================================================
