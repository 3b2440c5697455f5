---------------------------- MODULE HtcTxProofs ----------------------------
(***************************************************************************)
(* Proofs about HtcTx for every number of threads, packets, credits and    *)
(* send slots, with and without credit flow control:                       *)
(*   - every variable has its type, and one thread drains the endpoint at  *)
(*     a time (types alone are not inductive: a thread must hold a packet  *)
(*     wherever the code uses one, and the drainer must be alone);         *)
(*   - every packet that was sent and not handed back is in one place, and *)
(*     no credit is made or, with more send slots than credits, lost;      *)
(*   - HtcTx implements HtcService;                                        *)
(*   - HTC holds the runtime-PM references of the packets it owns.         *)
(***************************************************************************)
EXTENDS HtcTx, FiniteSetTheorems, FunctionTheorems, TLAPS

\* The program counters take their declared values.
PcOK == pc \in [Threads -> DrainPcs \cup OtherPcs]

\* SingleDrainer is inductive together with the type of the program counters.
DrainInv == PcOK /\ SingleDrainer

\* A thread that moves between steps of the same kind, or does not move, leaves
\* the drainer and TxProcessCount as they were.
LEMMA SameKindStep ==
  ASSUME DrainInv, NEW t \in Threads, NEW l \in DrainPcs \cup OtherPcs,
         pc' = [pc EXCEPT ![t] = l],
         pc[t] \in DrainPcs <=> l \in DrainPcs,
         TxProcessCount' = TxProcessCount
  PROVE  DrainInv'
  BY DEF DrainInv, PcOK, SingleDrainer

\* The thread that ends its drain resets TxProcessCount.
LEMMA EndDrainStep ==
  ASSUME DrainInv, NEW t \in Threads, pc[t] \in DrainPcs, EndDrain(t)
  PROVE  DrainInv'
<1>1. TrySendReturn(t) \in OtherPcs \ DrainPcs
  BY DEF TrySendReturn, OtherPcs, DrainPcs
<1> QED
  BY <1>1 DEF DrainInv, PcOK, SingleDrainer, EndDrain, Goto

\* Moves between two steps outside the loop, or two steps inside it.
LEMMA OutsideSteps ==
  ASSUME DrainInv, NEW t \in Threads,
         \/ \E p \in Packets : htc_send_pkt(t, p)
         \/ ReadFreeQueueNumber(t) \/ htc_kick_queues(t)
         \/ ce_per_engine_service(t)
         \/ htc_process_credit_rpt(t)
         \/ htc_flush_endpoint_tx(t)
  PROVE  DrainInv'
<1>1. CASE \E p \in Packets : htc_send_pkt(t, p)
  <2>1. TrySendEntry \in OtherPcs \ DrainPcs
    BY DEF TrySendEntry, OtherPcs, DrainPcs
  <2>2. /\ pc[t] = "idle"
        /\ pc' = [pc EXCEPT ![t] = TrySendEntry]
        /\ TxProcessCount' = TxProcessCount
    BY <1>1 DEF htc_send_pkt, Goto, endpoint
  <2> QED
    BY <2>1, <2>2, SameKindStep DEF DrainPcs
<1>2. CASE ReadFreeQueueNumber(t) \/ htc_kick_queues(t)
  <2>1. TrySendEntry \in OtherPcs \ DrainPcs /\ "enter" \in OtherPcs \ DrainPcs
    BY DEF TrySendEntry, OtherPcs, DrainPcs
  <2>2. /\ pc[t] \in {"idle", "free_queue"}
        /\ \E l \in OtherPcs \ DrainPcs : pc' = [pc EXCEPT ![t] = l]
        /\ TxProcessCount' = TxProcessCount
    BY <1>2, <2>1 DEF ReadFreeQueueNumber, htc_kick_queues, Goto, endpoint
  <2> QED
    BY <2>2, SameKindStep DEF DrainPcs
<1>3. CASE ce_per_engine_service(t)
  BY <1>3, SameKindStep
  DEF ce_per_engine_service, PopCompletion, Goto, endpoint, DrainPcs, OtherPcs
<1>4. CASE htc_process_credit_rpt(t)
  <2>1. TrySendEntry \in OtherPcs \ DrainPcs
    BY DEF TrySendEntry, OtherPcs, DrainPcs
  <2>2. CASE RecheckAfterReport
    BY <1>4, <2>1, <2>2, SameKindStep
    DEF htc_process_credit_rpt, Goto, DrainPcs
  <2>3. CASE ~RecheckAfterReport
    BY <1>4, <2>3 DEF htc_process_credit_rpt, DrainInv, PcOK, SingleDrainer
  <2> QED
    BY <2>2, <2>3
<1>5. CASE htc_flush_endpoint_tx(t)
  BY <1>5 DEF htc_flush_endpoint_tx, DrainInv, PcOK, SingleDrainer
<1> QED
  BY <1>1, <1>2, <1>3, <1>4, <1>5

\* The completion handler runs inside or outside the loop and stays there.
LEMMA CompletionSteps ==
  ASSUME DrainInv, NEW t \in Threads,
         \/ LookupHead(t)
         \/ LookupSearch(t)
         \/ htc_tx_completion_handler(t)
         \/ hif_pci_ce_send_done(t)
         \/ ce_per_engine_servicereap(t)
  PROVE  DrainInv'
<1>1. TrySendEntry \in OtherPcs \ DrainPcs
  BY DEF TrySendEntry, OtherPcs, DrainPcs
<1>2. ASSUME NEW reaping \in BOOLEAN, EndCompletion(t, reaping),
             reaping <=> pc[t] \in DrainPcs,
             TxProcessCount' = TxProcessCount
      PROVE  DrainInv'
  <2>1. CASE RecheckAfterCompletion /\ ~reaping
    BY <1>1, <1>2, <2>1, SameKindStep DEF EndCompletion, Goto
  <2>2. CASE ~(RecheckAfterCompletion /\ ~reaping)
    <3>1. pc' = [pc EXCEPT ![t] = IF reaping THEN "r_free" ELSE "free"]
      BY <1>2, <2>2 DEF EndCompletion, Goto
    <3> QED
      BY <1>2, <3>1, SameKindStep DEF DrainPcs, OtherPcs
  <2> QED
    BY <2>1, <2>2
<1>3. ASSUME NEW reaping \in BOOLEAN, reaping <=> pc[t] \in DrainPcs,
             \/ Goto(t, IF reaping THEN "r_done" ELSE "done")
             \/ Goto(t, IF reaping THEN "r_search" ELSE "search"),
             TxProcessCount' = TxProcessCount
      PROVE  DrainInv'
  BY <1>3, SameKindStep DEF Goto, DrainPcs, OtherPcs
<1>4. CASE LookupHead(t)
  <2> DEFINE reaping == pc[t] = "r_lookup"
  <2>1. /\ reaping \in BOOLEAN
        /\ reaping <=> pc[t] \in DrainPcs
        /\ TxProcessCount' = TxProcessCount
    BY <1>4 DEF LookupHead, DrainPcs
  <2>2. \/ EndCompletion(t, reaping)
        \/ Goto(t, IF reaping THEN "r_done" ELSE "done")
        \/ Goto(t, IF reaping THEN "r_search" ELSE "search")
    BY <1>4 DEF LookupHead
  <2> HIDE DEF reaping
  <2> QED
    BY <1>2, <1>3, <2>1, <2>2
<1>5. CASE LookupSearch(t)
  <2> DEFINE reaping == pc[t] = "r_search"
  <2>1. /\ reaping \in BOOLEAN
        /\ reaping <=> pc[t] \in DrainPcs
        /\ TxProcessCount' = TxProcessCount
    BY <1>5 DEF LookupSearch, DrainPcs
  <2>2. \/ EndCompletion(t, reaping)
        \/ Goto(t, IF reaping THEN "r_done" ELSE "done")
    BY <1>5 DEF LookupSearch
  <2> HIDE DEF reaping
  <2> QED
    BY <1>2, <1>3, <2>1, <2>2
<1>6. CASE htc_tx_completion_handler(t)
  <2>1. /\ EndCompletion(t, pc[t] = "r_done")
        /\ (pc[t] = "r_done") <=> pc[t] \in DrainPcs
        /\ TxProcessCount' = TxProcessCount
    BY <1>6 DEF htc_tx_completion_handler, endpoint, DrainPcs
  <2> QED
    BY <1>2, <2>1
<1>7. CASE hif_pci_ce_send_done(t)
  BY <1>7, SameKindStep
  DEF hif_pci_ce_send_done, Goto, endpoint, DrainPcs, OtherPcs
<1>8. CASE ce_per_engine_servicereap(t)
  BY <1>8, SameKindStep
  DEF ce_per_engine_servicereap, PopCompletion, Goto, endpoint, DrainPcs
<1> QED
  BY <1>4, <1>5, <1>6, <1>7, <1>8

\* Entering, going round and leaving the loop.
LEMMA LoopSteps ==
  ASSUME DrainInv, NEW t \in Threads,
         \/ EnterTrySend(t)
         \/ DrainLoop(t)
         \/ \E i \in 1..Len(TxQueue) : TakePacket(t, i)
         \/ StopTaking(t)
         \/ ClearAfterFailure(t)
  PROVE  DrainInv'
<1>1. CASE EnterTrySend(t)
  <2>1. CASE AlreadyDraining
    <3>1. TrySendReturn(t) \in OtherPcs \ DrainPcs
      BY DEF TrySendReturn, OtherPcs, DrainPcs
    <3> QED
      BY <1>1, <2>1, <3>1, SameKindStep DEF EnterTrySend, Goto, DrainPcs
  <2>2. CASE ~AlreadyDraining
    <3>1. /\ TxProcessCount = 0
          /\ \A u \in Threads : pc[u] \notin DrainPcs
      BY <2>2 DEF AlreadyDraining, DrainInv, SingleDrainer
    <3>2. /\ TxProcessCount' = 1
          /\ pc' = [pc EXCEPT ![t] = "drain"]
      BY <1>1, <2>2, <3>1 DEF EnterTrySend, Goto
    <3>3. "drain" \in DrainPcs
      BY DEF DrainPcs
    <3> QED
      BY <3>1, <3>2, <3>3 DEF DrainInv, PcOK, SingleDrainer
  <2> QED
    BY <2>1, <2>2
<1>2. CASE DrainLoop(t)
  <2>1. CASE TxQueue = <<>>
    BY <1>2, <2>1, EndDrainStep DEF DrainLoop, DrainPcs
  <2>2. CASE TxQueue # <<>>
    BY <1>2, <2>2, SameKindStep DEF DrainLoop, Goto, DrainPcs
  <2> QED
    BY <2>1, <2>2
<1>3. CASE \E i \in 1..Len(TxQueue) : TakePacket(t, i)
  BY <1>3 DEF TakePacket, DrainInv, PcOK, SingleDrainer
<1>4. CASE StopTaking(t)
  <2>1. CASE sendQueue[t] = <<>>
    BY <1>4, <2>1, EndDrainStep DEF StopTaking, DrainPcs
  <2>2. CASE sendQueue[t] # <<>>
    BY <1>4, <2>2, SameKindStep DEF StopTaking, Goto, DrainPcs
  <2> QED
    BY <2>1, <2>2
<1>5. CASE ClearAfterFailure(t)
  BY <1>5, EndDrainStep DEF ClearAfterFailure, DrainPcs
<1> QED
  BY <1>1, <1>2, <1>3, <1>4, <1>5

\* htc_issue_packets and the splice run inside the loop.
LEMMA IssueSteps ==
  ASSUME DrainInv, NEW t \in Threads,
         \/ IssueNext(t)
         \/ IssueEnd(t)
         \/ RereadFreeQueueNumber(t)
         \/ Relock(t) \/ PutWhenIssued(t)
         \/ hif_send_complete_check(t)
         \/ hif_send_head(t)
         \/ IssueFailed(t)
         \/ SpliceRead(t)
         \/ SpliceWrite(t)
  PROVE  DrainInv'
<1>1. /\ pc[t] \in DrainPcs
      /\ \E l \in DrainPcs : pc' = [pc EXCEPT ![t] = l]
      /\ TxProcessCount' = TxProcessCount
  BY DEF IssueNext, IssueEnd, RereadFreeQueueNumber, Relock, PutWhenIssued,
         hif_send_complete_check, hif_send_head, IssueFailed, SpliceRead,
         SpliceWrite, Goto, DrainPcs, endpoint
<1> QED
  BY <1>1, SameKindStep

\* Every step of the transmit path keeps the drainer alone.
THEOREM DrainInvStep == DrainInv /\ [Next]_vars => DrainInv'
<1> SUFFICES ASSUME DrainInv, [Next]_vars PROVE DrainInv'
  OBVIOUS
<1>1. CASE TargetReceives
  BY <1>1 DEF TargetReceives, endpoint, DrainInv, PcOK, SingleDrainer
<1>2. CASE UNCHANGED vars
  BY <1>2 DEF vars, endpoint, DrainInv, PcOK, SingleDrainer
<1>3. ASSUME NEW t \in Threads, ThreadStep(t) PROVE DrainInv'
  BY <1>3, OutsideSteps, CompletionSteps, LoopSteps, IssueSteps DEF ThreadStep
<1>4. CASE \/ \E t \in Senders, p \in Packets : htc_send_pkt(t, p)
           \/ \E t \in Tasklets : ce_per_engine_service(t)
           \/ \E t \in Reporters : htc_process_credit_rpt(t)
           \/ \E t \in Workers : htc_flush_endpoint_tx(t)
  BY <1>4, OutsideSteps DEF Threads
<1> QED
  BY <1>1, <1>2, <1>3, <1>4 DEF Next

\* At most one thread drains the endpoint, and TxProcessCount is 1 exactly while
\* one does, whatever senders, completions, credit reports, failed sends and
\* flushes do: htc_try_send's "beyond this point only 1 thread may enter".
THEOREM DrainerIsAlone == Spec => []SingleDrainer
<1>1. Init => DrainInv
  BY DEF Init, DrainInv, PcOK, SingleDrainer, DrainPcs, OtherPcs
<1>2. DrainInv => SingleDrainer
  BY DEF DrainInv
<1> QED
  BY <1>1, <1>2, DrainInvStep, PTL DEF Spec

-----------------------------------------------------------------------------
(* Type correctness *)

\* The queues hold packets.
QueueTypes ==
    /\ TxQueue \in Seq(Packets)
    /\ TxLookupQueue \in Seq(Packets)
    /\ wire \in Seq(Packets)
    /\ sendQueue \in [Threads -> Seq(Packets)]
    /\ lookupQueue \in [Threads -> Seq(Packets)]
    /\ seen \in [Threads -> Seq(Packets)]

\* A thread that is sending a packet, or completing one, has one in its hand.
Sending == {"poll", "reap", "r_lookup", "r_search", "r_done", "r_free", "head",
            "fail"}

\* Where a thread completes the send of its netbuf.
Completing == {"lookup", "search", "done", "r_lookup", "r_search", "r_done"}

\* What a thread holds has its type, and is a packet wherever the code uses one.
HandTypes ==
    /\ PcOK
    /\ pPacket \in [Threads -> Packets \cup {NoPkt}]
    /\ netbuf \in [Threads -> Packets \cup {NoPkt}]
    /\ \A t \in Threads : pc[t] \in Sending => pPacket[t] \in Packets
    /\ \A t \in Threads : pc[t] \in Completing => netbuf[t] \in Packets

\* Credits, slots and counters never go below zero.
CountTypes ==
    /\ TxCredits \in Nat
    /\ num_sends_allowed \in Nat
    /\ hw_index \in 0..Len(wire)
    /\ sw_index \in 0..hw_index
    /\ fwCredits \in Nat
    /\ sent \subseteq Packets
    /\ CreditsUsed \in [Packets -> Nat]
    /\ completed \in [Packets -> Nat]
    /\ pmUsage \in Nat
    /\ tx_resources \in [Threads -> Nat]

\* The flags are Boolean.
FlagTypes ==
    /\ fwAsked \in BOOLEAN
    /\ needUpdate \in [Packets -> BOOLEAN]
    /\ owesSlot \in [Threads -> BOOLEAN]
    /\ pmPass \in [Threads -> BOOLEAN]

\* The inductive invariant.
TypeInv ==
    /\ conn \in Conns
    /\ QueueTypes
    /\ HandTypes
    /\ CountTypes
    /\ FlagTypes
    /\ SingleDrainer

\* What the queue operations of the driver return.
LEMMA TailType ==
  ASSUME NEW s \in Seq(Packets), s # <<>> PROVE Tail(s) \in Seq(Packets)
OBVIOUS

\* List concatenation, as in HTC_PACKET_QUEUE_TRANSFER_TO_HEAD.
LEMMA ConcatType ==
  ASSUME NEW s \in Seq(Packets), NEW r \in Seq(Packets)
  PROVE  s \o r \in Seq(Packets)
OBVIOUS

\* HTC_PACKET_ENQUEUE.
LEMMA AppendType ==
  ASSUME NEW s \in Seq(Packets), NEW p \in Packets
  PROVE  Append(s, p) \in Seq(Packets)
OBVIOUS

\* Unlinking leaves a sequence of packets.
LEMMA RemoveType ==
  ASSUME NEW s \in Seq(Packets), NEW i \in 1..Len(s)
  PROVE  RemoveIndex(s, i) \in Seq(Packets)
BY DEF RemoveIndex

\* HTC_PACKET_REMOVE of a packet that may or may not be listed.
LEMMA WithoutType ==
  ASSUME NEW s \in Seq(Packets), NEW p
  PROVE  Without(s, p) \in Seq(Packets)
<1>1. CASE p \in ElementsOf(s)
  <2>1. (CHOOSE i \in 1..Len(s) : s[i] = p) \in 1..Len(s)
    BY <1>1 DEF ElementsOf
  <2> QED  BY <1>1, <2>1, RemoveType DEF Without
<1>2. CASE p \notin ElementsOf(s)
  BY <1>2 DEF Without
<1> QED  BY <1>1, <1>2

\* The actions that change a queue.
LEMMA QueueChanges ==
  ASSUME [Next]_vars
  PROVE  \/ UNCHANGED <<TxQueue, TxLookupQueue, wire, sendQueue, lookupQueue, seen>>
         \/ \E t \in Threads :
               \/ EnterTrySend(t) \/ (\E i \in 1..Len(TxQueue) : TakePacket(t, i))
               \/ IssueNext(t) \/ hif_send_head(t) \/ IssueFailed(t)
               \/ SpliceRead(t) \/ SpliceWrite(t) \/ LookupHead(t)
               \/ LookupSearch(t) \/ htc_flush_endpoint_tx(t)
<1> USE DEF endpoint, pipe, locals
<1>1. ASSUME NEW t \in Threads, ThreadStep(t)
      PROVE  \/ UNCHANGED <<TxQueue, TxLookupQueue, wire, sendQueue, lookupQueue, seen>>
             \/ EnterTrySend(t) \/ (\E i \in 1..Len(TxQueue) : TakePacket(t, i))
             \/ IssueNext(t) \/ hif_send_head(t) \/ IssueFailed(t)
             \/ SpliceRead(t) \/ SpliceWrite(t) \/ LookupHead(t)
             \/ LookupSearch(t)
  BY <1>1 DEF ThreadStep, ReadFreeQueueNumber, htc_kick_queues, DrainLoop, StopTaking, IssueEnd,
       RereadFreeQueueNumber, Relock, PutWhenIssued, hif_send_complete_check, ClearAfterFailure,
       ce_per_engine_servicereap, PopCompletion, htc_tx_completion_handler,
       hif_pci_ce_send_done
<1>2. CASE \/ \E t \in Senders, p \in Packets : htc_send_pkt(t, p)
           \/ \E t \in Tasklets : ce_per_engine_service(t)
           \/ \E t \in Reporters : htc_process_credit_rpt(t)
           \/ TargetReceives
  BY <1>2 DEF htc_send_pkt, ce_per_engine_service, PopCompletion,
              htc_process_credit_rpt, TargetReceives
<1>3. CASE \E t \in Workers : htc_flush_endpoint_tx(t)
  BY <1>3 DEF Threads
<1>4. CASE UNCHANGED vars
  BY <1>4 DEF vars
<1> QED  BY <1>1, <1>2, <1>3, <1>4 DEF Next

\* Every step leaves sequences of packets on the lists.
LEMMA QueueStep ==
  ASSUME TypeInv, [Next]_vars
  PROVE  QueueTypes'
<1> USE DEF TypeInv, QueueTypes, endpoint, pipe, locals
<1>1. CASE UNCHANGED <<TxQueue, TxLookupQueue, wire, sendQueue, lookupQueue, seen>>
  BY <1>1
<1>2. ASSUME NEW t \in Threads, EnterTrySend(t) PROVE QueueTypes'
  BY <1>2 DEF EnterTrySend, HandTypes
<1>3. ASSUME NEW t \in Threads, NEW i \in 1..Len(TxQueue), TakePacket(t, i)
      PROVE  QueueTypes'
  BY <1>3, RemoveType DEF TakePacket
<1>4. ASSUME NEW t \in Threads, IssueNext(t) PROVE QueueTypes'
  BY <1>4 DEF IssueNext
<1>5. ASSUME NEW t \in Threads, hif_send_head(t) PROVE QueueTypes'
  <2>1. pPacket[t] \in Packets  BY <1>5 DEF hif_send_head, HandTypes, Sending
  <2>2. wire' \in {wire, Append(wire, pPacket[t])}  BY <1>5 DEF hif_send_head
  <2>3. wire' \in Seq(Packets)
    <3>1. CASE wire' = wire  BY <3>1
    <3>2. CASE wire' = Append(wire, pPacket[t])  BY <2>1, <3>2, AppendType
    <3> QED  BY <2>2, <3>1, <3>2
  <2> QED  BY <1>5, <2>3 DEF hif_send_head
<1>6. ASSUME NEW t \in Threads, IssueFailed(t) PROVE QueueTypes'
  BY <1>6, WithoutType DEF IssueFailed, HandTypes, Sending
<1>7. ASSUME NEW t \in Threads, SpliceRead(t) PROVE QueueTypes'
  BY <1>7 DEF SpliceRead
<1>8. ASSUME NEW t \in Threads, SpliceWrite(t) PROVE QueueTypes'
  <2>1. sendQueue[t] \in Seq(Packets)  OBVIOUS
  <2>2. TxQueue' \in {sendQueue[t] \o TxQueue, sendQueue[t], TxQueue}
    BY <1>8 DEF SpliceWrite, ToHead
  <2>3. sendQueue' \in [Threads -> Seq(Packets)] /\ seen' \in [Threads -> Seq(Packets)]
    BY <1>8 DEF SpliceWrite
  <2>4. TxQueue' \in Seq(Packets)
    <3>1. CASE TxQueue' = sendQueue[t] \o TxQueue  BY <2>1, <3>1, ConcatType
    <3>2. CASE TxQueue' = sendQueue[t]  BY <2>1, <3>2
    <3>3. CASE TxQueue' = TxQueue  BY <3>3
    <3> QED  BY <2>2, <3>1, <3>2, <3>3
  <2> QED  BY <1>8, <2>3, <2>4 DEF SpliceWrite
<1>9. ASSUME NEW t \in Threads, LookupHead(t) PROVE QueueTypes'
  <2>1. TxLookupQueue' \in Seq(Packets)
    <3>1. \/ TxLookupQueue' \in {TxLookupQueue, <<>>}
          \/ TxLookupQueue # <<>> /\ TxLookupQueue' = Tail(TxLookupQueue)
      BY <1>9, Zenon DEF LookupHead
    <3>2. CASE TxLookupQueue' = TxLookupQueue  BY <3>2
    <3>4. CASE TxLookupQueue' = <<>>  BY <3>4
    <3>3. CASE TxLookupQueue # <<>> /\ TxLookupQueue' = Tail(TxLookupQueue)
      BY <3>3, TailType
    <3> QED  BY <3>1, <3>2, <3>3, <3>4
  <2>2. lookupQueue' \in [Threads -> Seq(Packets)]  BY <1>9 DEF LookupHead
  <2> QED  BY <1>9, <2>1, <2>2 DEF LookupHead
<1>10. ASSUME NEW t \in Threads, LookupSearch(t) PROVE QueueTypes'
  BY <1>10, WithoutType DEF LookupSearch
<1>11. ASSUME NEW t \in Threads, htc_flush_endpoint_tx(t) PROVE QueueTypes'
  BY <1>11 DEF htc_flush_endpoint_tx
<1> QED
  BY <1>1, <1>2, <1>3, <1>4, <1>5, <1>6, <1>7, <1>8, <1>9, <1>10, <1>11, QueueChanges

\* The actions that change a counter.
LEMMA CountChanges ==
  ASSUME [Next]_vars
  PROVE  \/ UNCHANGED <<TxCredits, pipe, fwCredits, sent, CreditsUsed, completed,
                        pmUsage, tx_resources>>
         \/ \E t \in Threads :
               \/ \E p \in Packets : htc_send_pkt(t, p)
               \/ ReadFreeQueueNumber(t) \/ RereadFreeQueueNumber(t)
               \/ \E i \in 1..Len(TxQueue) : TakePacket(t, i)
               \/ hif_send_head(t) \/ PutWhenIssued(t) \/ IssueFailed(t) \/ SpliceRead(t)
               \/ (\E l \in OtherPcs \cup DrainPcs : PopCompletion(t, l))
               \/ htc_tx_completion_handler(t) \/ hif_pci_ce_send_done(t)
               \/ htc_process_credit_rpt(t) \/ htc_flush_endpoint_tx(t)
         \/ TargetReceives
<1> USE DEF endpoint, pipe, locals, packet, target
<1>1. ASSUME NEW t \in Threads, ThreadStep(t)
      PROVE  \/ UNCHANGED <<TxCredits, pipe, fwCredits, sent, CreditsUsed, completed,
                            pmUsage, tx_resources>>
             \/ ReadFreeQueueNumber(t) \/ RereadFreeQueueNumber(t)
             \/ \E i \in 1..Len(TxQueue) : TakePacket(t, i)
             \/ hif_send_head(t) \/ PutWhenIssued(t) \/ IssueFailed(t) \/ SpliceRead(t)
             \/ PopCompletion(t, "r_lookup")
             \/ htc_tx_completion_handler(t) \/ hif_pci_ce_send_done(t)
  BY <1>1 DEF ThreadStep, htc_kick_queues, EnterTrySend, DrainLoop, StopTaking, IssueNext,
       IssueEnd, Relock, hif_send_complete_check, SpliceWrite, ClearAfterFailure,
       ce_per_engine_servicereap, LookupHead, LookupSearch
<1>2. CASE \/ \E t \in Senders, p \in Packets : htc_send_pkt(t, p)
           \/ \E t \in Tasklets : ce_per_engine_service(t)
           \/ \E t \in Reporters : htc_process_credit_rpt(t)
           \/ \E t \in Workers : htc_flush_endpoint_tx(t)
  BY <1>2 DEF ce_per_engine_service, Threads, OtherPcs
<1>3. CASE UNCHANGED vars
  BY <1>3 DEF vars
<1>4. "r_lookup" \in DrainPcs  BY DEF DrainPcs
<1> QED  BY <1>1, <1>2, <1>3, <1>4 DEF Next

\* Every step keeps the counters at or above zero.
LEMMA CountStep ==
  ASSUME TypeInv, [Next]_vars
  PROVE  CountTypes'
<1> USE DEF TypeInv, CountTypes, endpoint, pipe, locals, packet, target
<1>1. CASE UNCHANGED <<TxCredits, pipe, fwCredits, sent, CreditsUsed, completed,
                       pmUsage, tx_resources>>
  BY <1>1
<1>2. ASSUME NEW t \in Threads, NEW p \in Packets, htc_send_pkt(t, p)
      PROVE  CountTypes'
  BY <1>2 DEF htc_send_pkt
<1>3. ASSUME NEW t \in Threads, ReadFreeQueueNumber(t) \/ RereadFreeQueueNumber(t)
      PROVE  CountTypes'
  BY <1>3 DEF ReadFreeQueueNumber, RereadFreeQueueNumber
<1>4. ASSUME NEW t \in Threads, NEW i \in 1..Len(TxQueue), TakePacket(t, i)
      PROVE  CountTypes'
  <2>1. TxQueue[i] \in Packets  BY DEF QueueTypes
  <2>2. Need[TxQueue[i]] \in Nat
    <3>1. Need \in [Packets -> 1..TxCreditsPerMaxMsg] /\ TxCreditsPerMaxMsg \in Nat
      BY ConstAssumption, Zenon
    <3> QED  BY <2>1, <3>1
  <2>3. CASE CreditFlow
    BY <1>4, <2>1, <2>2, <2>3, SMTT(30) DEF TakePacket, CanTake, TakeWithCredits
  <2>4. CASE ~CreditFlow
    <3>1. TakeWithResources(t, TxQueue[i]) /\ tx_resources[t] > 0
      BY <1>4, <2>4, Zenon DEF TakePacket, CanTake
    <3> QED  BY <1>4, <2>1, <3>1 DEF TakePacket, TakeWithResources
  <2> QED  BY <2>3, <2>4
<1>5. ASSUME NEW t \in Threads, hif_send_head(t) PROVE CountTypes'
  <2>1. pPacket[t] \in Packets  BY <1>5 DEF hif_send_head, HandTypes, Sending
  <2>2. \/ UNCHANGED <<num_sends_allowed, wire>>
        \/ /\ ~(num_sends_allowed < 1)
           /\ num_sends_allowed' = num_sends_allowed - 1
           /\ wire' = Append(wire, pPacket[t])
    BY <1>5 DEF hif_send_head
  <2>3. num_sends_allowed' \in Nat /\ Len(wire') \in {Len(wire), Len(wire) + 1}
    BY <2>1, <2>2 DEF QueueTypes
  <2> QED  BY <1>5, <2>3 DEF hif_send_head, QueueTypes
<1>6. ASSUME NEW t \in Threads, IssueFailed(t) PROVE CountTypes'
  <2>1. pPacket[t] \in Packets  BY <1>6 DEF IssueFailed, HandTypes, Sending
  <2> QED  BY <1>6, <2>1 DEF IssueFailed
<1>7. ASSUME NEW t \in Threads, SpliceRead(t) PROVE CountTypes'
  <2>1. Len(sendQueue[t]) \in Nat  BY DEF QueueTypes
  <2> QED  BY <1>7, <2>1 DEF SpliceRead, PmPut, PutsAfterFailure
<1>8. ASSUME NEW t \in Threads, NEW l, PopCompletion(t, l) PROVE CountTypes'
  BY <1>8 DEF PopCompletion, QueueTypes
<1>9. ASSUME NEW t \in Threads, htc_tx_completion_handler(t) PROVE CountTypes'
  <2>1. netbuf[t] \in Packets  BY <1>9 DEF htc_tx_completion_handler, HandTypes, Completing
  <2> QED  BY <1>9, <2>1 DEF htc_tx_completion_handler, PmPut
<1>10. ASSUME NEW t \in Threads, hif_pci_ce_send_done(t) PROVE CountTypes'
  BY <1>10 DEF hif_pci_ce_send_done, SlotsAfterCompletion
<1>11. ASSUME NEW t \in Threads, htc_process_credit_rpt(t) PROVE CountTypes'
  BY <1>11 DEF htc_process_credit_rpt, CreditsAfterReport
<1>12. ASSUME NEW t \in Threads, htc_flush_endpoint_tx(t) PROVE CountTypes'
  BY <1>12 DEF htc_flush_endpoint_tx
<1>13. CASE TargetReceives
  <2>1. wire[hw_index + 1] \in Packets  BY <1>13 DEF TargetReceives, QueueTypes
  <2> QED  BY <1>13, <2>1 DEF TargetReceives
<1>14. ASSUME NEW t \in Threads, PutWhenIssued(t) PROVE CountTypes'
  BY <1>14 DEF PutWhenIssued, PmPut
<1> QED
  BY <1>1, <1>2, <1>3, <1>4, <1>5, <1>6, <1>7, <1>8, <1>9, <1>10, <1>11, <1>12,
     <1>13, <1>14, CountChanges

\* A step of thread t moves t only, and leaves it with the packet that its new
\* place needs.
LEMMA HandMoves ==
  ASSUME HandTypes, NEW t \in Threads, NEW l \in DrainPcs \cup OtherPcs,
         pc' = [pc EXCEPT ![t] = l],
         NEW p \in Packets \cup {NoPkt}, pPacket' = [pPacket EXCEPT ![t] = p],
         NEW n \in Packets \cup {NoPkt}, netbuf' = [netbuf EXCEPT ![t] = n],
         l \in Sending => p \in Packets,
         l \in Completing => n \in Packets
  PROVE  HandTypes'
BY DEF HandTypes, PcOK

\* A step that moves nobody and takes nothing in hand.
LEMMA HandStays ==
  ASSUME HandTypes, UNCHANGED <<pc, pPacket, netbuf>>
  PROVE  HandTypes'
BY DEF HandTypes, PcOK

\* At these places a thread needs neither packet.
Resting == {"idle", "free_queue", "enter", "free", "drain", "take", "issue", "put",
            "reread", "relock", "splice", "spliced", "clear"}

\* A thread may come to rest with any packet in its hand.
LEMMA HandRests ==
  ASSUME HandTypes, NEW t \in Threads, NEW l \in Resting,
         pc' = [pc EXCEPT ![t] = l],
         NEW p \in Packets \cup {NoPkt}, pPacket' = [pPacket EXCEPT ![t] = p],
         netbuf' = netbuf
  PROVE  HandTypes'
<1>1. l \in DrainPcs \cup OtherPcs /\ l \notin Sending /\ l \notin Completing
  BY DEF Resting, DrainPcs, OtherPcs, Sending, Completing
<1>2. netbuf[t] \in Packets \cup {NoPkt} /\ netbuf' = [netbuf EXCEPT ![t] = netbuf[t]]
  BY DEF HandTypes
<1> QED  BY <1>1, <1>2, HandMoves

\* A thread that goes on to send needs the packet that it sends.
LEMMA HandHolds ==
  ASSUME HandTypes, NEW t \in Threads, NEW l \in {"poll", "reap", "head", "fail"},
         pc' = [pc EXCEPT ![t] = l],
         NEW p \in Packets, pPacket' = [pPacket EXCEPT ![t] = p],
         netbuf' = netbuf
  PROVE  HandTypes'
<1>1. l \in DrainPcs \cup OtherPcs /\ l \notin Completing
  BY DEF DrainPcs, OtherPcs, Completing
<1>2. netbuf[t] \in Packets \cup {NoPkt} /\ netbuf' = [netbuf EXCEPT ![t] = netbuf[t]]
  BY DEF HandTypes
<1> QED  BY <1>1, <1>2, HandMoves

\* Entering and leaving htc_try_send, and the steps of the draining loop.
LEMMA HandLoop ==
  ASSUME TypeInv, NEW t \in Threads,
         \/ \E p \in Packets : htc_send_pkt(t, p)
         \/ ReadFreeQueueNumber(t) \/ htc_kick_queues(t) \/ EnterTrySend(t) \/ DrainLoop(t)
         \/ StopTaking(t) \/ IssueNext(t) \/ IssueEnd(t)
         \/ RereadFreeQueueNumber(t) \/ Relock(t) \/ PutWhenIssued(t)
         \/ hif_send_complete_check(t) \/ hif_send_head(t)
         \/ IssueFailed(t) \/ SpliceRead(t) \/ SpliceWrite(t)
         \/ ClearAfterFailure(t)
  PROVE  HandTypes'
<1> USE DEF endpoint, pipe, locals, packet, target
<1>h. HandTypes  BY DEF TypeInv
<1>0. /\ pPacket[t] \in Packets \cup {NoPkt} /\ netbuf[t] \in Packets \cup {NoPkt}
      /\ pPacket = [pPacket EXCEPT ![t] = pPacket[t]]
      /\ netbuf = [netbuf EXCEPT ![t] = netbuf[t]]
  BY <1>h DEF HandTypes
<1>a. TrySendEntry \in {"enter", "free_queue"}  BY DEF TrySendEntry
<1>b. TrySendReturn(t) \in {"idle", "free"}  BY DEF TrySendReturn
<1>1. CASE \E p \in Packets : htc_send_pkt(t, p)
  <2> PICK p \in Packets : htc_send_pkt(t, p)  BY <1>1
  <2>1. /\ pc' = [pc EXCEPT ![t] = TrySendEntry]
        /\ pPacket' = [pPacket EXCEPT ![t] = p] /\ netbuf' = netbuf
    BY DEF htc_send_pkt, Goto
  <2>2. TrySendEntry \in Resting  BY <1>a DEF Resting
  <2> QED  BY <1>h, <2>1, <2>2, HandRests
<1>2. CASE EnterTrySend(t)
  <2>1. \E l \in {"drain", "idle", "free"} : pc' = [pc EXCEPT ![t] = l]
    BY <1>2, <1>b DEF EnterTrySend, Goto
  <2>2. pPacket' = [pPacket EXCEPT ![t] = NoPkt] /\ netbuf' = netbuf
    BY <1>2 DEF EnterTrySend
  <2>3. PICK l \in Resting : pc' = [pc EXCEPT ![t] = l]  BY <2>1 DEF Resting
  <2> QED  BY <1>h, <2>2, <2>3, HandRests
<1>3. CASE IssueNext(t)
  <2>1. Head(sendQueue[t]) \in Packets
    <3>1. sendQueue[t] \in Seq(Packets) /\ sendQueue[t] # <<>>
      BY <1>3 DEF IssueNext, TypeInv, QueueTypes
    <3> QED  BY <3>1
  <2>2. /\ pc' = [pc EXCEPT ![t] = "poll"] /\ netbuf' = netbuf
        /\ pPacket' = [pPacket EXCEPT ![t] = Head(sendQueue[t])]
    BY <1>3 DEF IssueNext, Goto
  <2> QED  BY <1>h, <1>0, <2>1, <2>2, HandHolds
<1>4. CASE hif_send_head(t)
  <2>0. pPacket[t] \in Packets  BY <1>h, <1>4 DEF hif_send_head, Sending, HandTypes
  <2>1. netbuf' = netbuf  BY <1>4 DEF hif_send_head
  <2>2. \/ pc' = [pc EXCEPT ![t] = "fail"] /\ pPacket' = pPacket
        \/ /\ \E l \in {"put", "issue"} : pc' = [pc EXCEPT ![t] = l]
           /\ pPacket' = [pPacket EXCEPT ![t] = NoPkt]
    BY <1>4 DEF hif_send_head, Goto
  <2>3. CASE pc' = [pc EXCEPT ![t] = "fail"] /\ pPacket' = pPacket
    BY <1>h, <1>0, <2>0, <2>1, <2>3, HandHolds
  <2>4. CASE /\ \E l \in {"put", "issue"} : pc' = [pc EXCEPT ![t] = l]
             /\ pPacket' = [pPacket EXCEPT ![t] = NoPkt]
    BY <1>h, <2>1, <2>4, HandRests DEF Resting
  <2> QED  BY <2>2, <2>3, <2>4
<1>5. CASE IssueFailed(t)
  <2>1. /\ pc' = [pc EXCEPT ![t] = "splice"] /\ netbuf' = netbuf
        /\ pPacket' = [pPacket EXCEPT ![t] = NoPkt]
    BY <1>5 DEF IssueFailed, Goto
  <2>2. "splice" \in Resting  BY DEF Resting
  <2> QED  BY <1>h, <2>1, <2>2, HandRests
<1>6. CASE hif_send_complete_check(t)
  <2>0. pPacket[t] \in Packets  BY <1>h, <1>6 DEF hif_send_complete_check, Sending, HandTypes
  <2>1. \E l \in {"head", "reap"} : pc' = [pc EXCEPT ![t] = l]
    BY <1>6 DEF hif_send_complete_check, Goto
  <2>2. UNCHANGED <<pPacket, netbuf>>  BY <1>6 DEF hif_send_complete_check
  <2>3. CASE pc' = [pc EXCEPT ![t] = "head"]
    BY <1>h, <1>0, <2>0, <2>2, <2>3, HandHolds
  <2>4. CASE pc' = [pc EXCEPT ![t] = "reap"]
    BY <1>h, <1>0, <2>0, <2>2, <2>4, HandHolds
  <2> QED  BY <2>1, <2>3, <2>4
<1>7. CASE ReadFreeQueueNumber(t) \/ htc_kick_queues(t)
  <2>1. \E l \in {"enter", "free_queue"} : pc' = [pc EXCEPT ![t] = l]
    BY <1>7, <1>a DEF ReadFreeQueueNumber, htc_kick_queues, Goto
  <2>2. UNCHANGED <<pPacket, netbuf>>  BY <1>7 DEF ReadFreeQueueNumber, htc_kick_queues, locals
  <2>3. PICK l \in Resting : pc' = [pc EXCEPT ![t] = l]  BY <2>1 DEF Resting
  <2> QED  BY <1>h, <1>0, <2>2, <2>3, HandRests
<1>8. CASE DrainLoop(t)
  <2>1. \E l \in {"take", "idle", "free"} : pc' = [pc EXCEPT ![t] = l]
    BY <1>8, <1>b DEF DrainLoop, Goto, EndDrain
  <2>2. UNCHANGED <<pPacket, netbuf>>  BY <1>8 DEF DrainLoop
  <2>3. PICK l \in Resting : pc' = [pc EXCEPT ![t] = l]  BY <2>1 DEF Resting
  <2> QED  BY <1>h, <1>0, <2>2, <2>3, HandRests
<1>9. CASE StopTaking(t)
  <2>1. \E l \in {"issue", "idle", "free"} : pc' = [pc EXCEPT ![t] = l]
    BY <1>9, <1>b DEF StopTaking, Goto, EndDrain
  <2>2. UNCHANGED <<pPacket, netbuf>>  BY <1>9 DEF StopTaking
  <2>3. PICK l \in Resting : pc' = [pc EXCEPT ![t] = l]  BY <2>1 DEF Resting
  <2> QED  BY <1>h, <1>0, <2>2, <2>3, HandRests
<1>10. CASE IssueEnd(t)
  <2>1. \E l \in {"relock", "reread"} : pc' = [pc EXCEPT ![t] = l]
    BY <1>10 DEF IssueEnd, Goto
  <2>2. UNCHANGED <<pPacket, netbuf>>  BY <1>10 DEF IssueEnd
  <2>3. PICK l \in Resting : pc' = [pc EXCEPT ![t] = l]  BY <2>1 DEF Resting
  <2> QED  BY <1>h, <1>0, <2>2, <2>3, HandRests
<1>11. CASE RereadFreeQueueNumber(t)
  <2>1. \E l \in {"relock"} : pc' = [pc EXCEPT ![t] = l]
    BY <1>11 DEF RereadFreeQueueNumber, Goto
  <2>2. UNCHANGED <<pPacket, netbuf>>  BY <1>11 DEF RereadFreeQueueNumber
  <2>3. PICK l \in Resting : pc' = [pc EXCEPT ![t] = l]  BY <2>1 DEF Resting
  <2> QED  BY <1>h, <1>0, <2>2, <2>3, HandRests
<1>12. CASE Relock(t) \/ PutWhenIssued(t)
  <2>1. \E l \in {"drain", "issue"} : pc' = [pc EXCEPT ![t] = l]
    BY <1>12 DEF Relock, PutWhenIssued, Goto
  <2>2. UNCHANGED <<pPacket, netbuf>>  BY <1>12 DEF Relock, PutWhenIssued, locals
  <2>3. PICK l \in Resting : pc' = [pc EXCEPT ![t] = l]  BY <2>1 DEF Resting
  <2> QED  BY <1>h, <1>0, <2>2, <2>3, HandRests
<1>13. CASE SpliceRead(t)
  <2>1. \E l \in {"spliced"} : pc' = [pc EXCEPT ![t] = l]
    BY <1>13 DEF SpliceRead, Goto
  <2>2. UNCHANGED <<pPacket, netbuf>>  BY <1>13 DEF SpliceRead
  <2>3. PICK l \in Resting : pc' = [pc EXCEPT ![t] = l]  BY <2>1 DEF Resting
  <2> QED  BY <1>h, <1>0, <2>2, <2>3, HandRests
<1>14. CASE SpliceWrite(t)
  <2>1. \E l \in {"clear"} : pc' = [pc EXCEPT ![t] = l]
    BY <1>14 DEF SpliceWrite, Goto
  <2>2. UNCHANGED <<pPacket, netbuf>>  BY <1>14 DEF SpliceWrite
  <2>3. PICK l \in Resting : pc' = [pc EXCEPT ![t] = l]  BY <2>1 DEF Resting
  <2> QED  BY <1>h, <1>0, <2>2, <2>3, HandRests
<1>15. CASE ClearAfterFailure(t)
  <2>1. \E l \in {"idle", "free"} : pc' = [pc EXCEPT ![t] = l]
    BY <1>15, <1>b DEF ClearAfterFailure, Goto, EndDrain
  <2>2. UNCHANGED <<pPacket, netbuf>>  BY <1>15 DEF ClearAfterFailure
  <2>3. PICK l \in Resting : pc' = [pc EXCEPT ![t] = l]  BY <2>1 DEF Resting
  <2> QED  BY <1>h, <1>0, <2>2, <2>3, HandRests
<1> QED
  BY <1>1, <1>2, <1>3, <1>4, <1>5, <1>6, <1>7, <1>8, <1>9, <1>10, <1>11, <1>12, <1>13, <1>14, <1>15

\* Completions and reports.
LEMMA HandCompletion ==
  ASSUME TypeInv, NEW t \in Threads,
         \/ ce_per_engine_service(t) \/ ce_per_engine_servicereap(t)
         \/ LookupHead(t) \/ LookupSearch(t) \/ htc_tx_completion_handler(t)
         \/ hif_pci_ce_send_done(t) \/ htc_process_credit_rpt(t)
  PROVE  HandTypes'
<1> USE DEF TypeInv, HandTypes, PcOK, endpoint, pipe, locals, packet, target
<1>0. /\ pPacket[t] \in Packets \cup {NoPkt} /\ netbuf[t] \in Packets \cup {NoPkt}
      /\ pPacket = [pPacket EXCEPT ![t] = pPacket[t]]
      /\ netbuf = [netbuf EXCEPT ![t] = netbuf[t]]
  OBVIOUS
<1>a. TrySendEntry \in {"enter", "free_queue"}  BY DEF TrySendEntry
<1>b. ASSUME NEW l \in {"lookup", "r_lookup"}, PopCompletion(t, l),
             l = "r_lookup" => pPacket[t] \in Packets
      PROVE  HandTypes'
  <2>1. wire[sw_index + 1] \in Packets
    BY <1>b DEF PopCompletion, CountTypes, QueueTypes
  <2>2. /\ pc' = [pc EXCEPT ![t] = l] /\ pPacket' = pPacket
        /\ netbuf' = [netbuf EXCEPT ![t] = wire[sw_index + 1]]
    BY <1>b DEF PopCompletion, Goto
  <2> QED  BY <1>0, <1>b, <2>1, <2>2, HandMoves DEF DrainPcs, OtherPcs, Sending, Completing
<1>c. ASSUME NEW r \in BOOLEAN, EndCompletion(t, r), pPacket' = pPacket,
             r => pPacket[t] \in Packets
      PROVE  HandTypes'
  <2>1. netbuf' = [netbuf EXCEPT ![t] = NoPkt]  BY <1>c DEF EndCompletion
  <2>2. \/ \E l \in {"free", "enter", "free_queue"} : pc' = [pc EXCEPT ![t] = l]
        \/ r /\ pc' = [pc EXCEPT ![t] = "r_free"]
    BY <1>a, <1>c DEF EndCompletion, Goto
  <2> QED  BY <1>0, <1>c, <2>1, <2>2, HandMoves, SMTT(30) DEF DrainPcs, OtherPcs, Sending, Completing
<1>d. ASSUME NEW r \in BOOLEAN, UNCHANGED <<pPacket, netbuf>>,
             r => pPacket[t] \in Packets, netbuf[t] \in Packets,
             \/ Goto(t, IF r THEN "r_done" ELSE "done")
             \/ Goto(t, IF r THEN "r_search" ELSE "search")
      PROVE  HandTypes'
  BY <1>0, <1>d, HandMoves DEF Goto, DrainPcs, OtherPcs, Sending, Completing
<1>1. CASE ce_per_engine_service(t)
  BY <1>1, <1>b DEF ce_per_engine_service
<1>2. CASE ce_per_engine_servicereap(t)
  <2>0. pPacket[t] \in Packets  BY <1>2 DEF ce_per_engine_servicereap, Sending
  <2>1. CASE PopCompletion(t, "r_lookup")  BY <1>b, <2>0, <2>1
  <2>2. CASE Goto(t, "head") /\ UNCHANGED locals
    BY <1>0, <2>0, <2>2, HandMoves DEF Goto, DrainPcs, Sending, Completing
  <2> QED  BY <1>2, <2>1, <2>2 DEF ce_per_engine_servicereap
<1>3. CASE LookupHead(t)
  <2> DEFINE r == pc[t] = "r_lookup"
  <2>1. (r => pPacket[t] \in Packets) /\ netbuf[t] \in Packets
    BY <1>3 DEF LookupHead, Sending, Completing
  <2>2. pPacket' = pPacket  BY <1>3 DEF LookupHead
  <2>3. \/ EndCompletion(t, r)
        \/ netbuf' = netbuf /\ Goto(t, IF r THEN "r_done" ELSE "done")
        \/ netbuf' = netbuf /\ Goto(t, IF r THEN "r_search" ELSE "search")
    BY <1>3 DEF LookupHead
  <2>4. r \in BOOLEAN  OBVIOUS
  <2> HIDE DEF r
  <2> QED  BY <1>c, <1>d, <2>1, <2>2, <2>3, <2>4
<1>4. CASE LookupSearch(t)
  <2> DEFINE r == pc[t] = "r_search"
  <2>1. (r => pPacket[t] \in Packets) /\ netbuf[t] \in Packets
    BY <1>4 DEF LookupSearch, Sending, Completing
  <2>2. pPacket' = pPacket  BY <1>4 DEF LookupSearch
  <2>3. \/ EndCompletion(t, r)
        \/ netbuf' = netbuf /\ Goto(t, IF r THEN "r_done" ELSE "done")
    BY <1>4 DEF LookupSearch
  <2>4. r \in BOOLEAN  OBVIOUS
  <2> HIDE DEF r
  <2> QED  BY <1>c, <1>d, <2>1, <2>2, <2>3, <2>4
<1>5. CASE htc_tx_completion_handler(t)
  <2> DEFINE r == pc[t] = "r_done"
  <2>1. (r => pPacket[t] \in Packets)
    BY <1>5 DEF htc_tx_completion_handler, Sending
  <2>2. pPacket' = pPacket /\ EndCompletion(t, r)
    BY <1>5 DEF htc_tx_completion_handler
  <2>3. r \in BOOLEAN  OBVIOUS
  <2> HIDE DEF r
  <2> QED  BY <1>c, <2>1, <2>2, <2>3
<1>6. CASE hif_pci_ce_send_done(t)
  <2>1. UNCHANGED <<pPacket, netbuf>>  BY <1>6 DEF hif_pci_ce_send_done
  <2>2. CASE pc[t] = "free"
    <3>1. pc' = [pc EXCEPT ![t] = "idle"]  BY <1>6, <2>2 DEF hif_pci_ce_send_done, Goto
    <3> QED  BY <1>0, <2>1, <3>1, HandMoves DEF OtherPcs, Sending, Completing
  <2>3. CASE pc[t] = "r_free"
    <3>1. pc' = [pc EXCEPT ![t] = "reap"]  BY <1>6, <2>3 DEF hif_pci_ce_send_done, Goto
    <3>2. pPacket[t] \in Packets  BY <2>3 DEF Sending
    <3> QED  BY <1>0, <2>1, <3>1, <3>2, HandMoves DEF DrainPcs, Sending, Completing
  <2> QED  BY <1>6, <2>2, <2>3 DEF hif_pci_ce_send_done
<1>7. CASE htc_process_credit_rpt(t)
  <2>1. UNCHANGED <<pPacket, netbuf>>  BY <1>7 DEF htc_process_credit_rpt
  <2>2. pc' = pc \/ pc' = [pc EXCEPT ![t] = TrySendEntry]
    BY <1>7 DEF htc_process_credit_rpt, Goto
  <2> QED  BY <1>0, <1>a, <2>1, <2>2, HandMoves, HandStays DEF OtherPcs, Sending, Completing
<1> QED  BY <1>1, <1>2, <1>3, <1>4, <1>5, <1>6, <1>7

\* Every step leaves each thread with the packets its place needs.
LEMMA HandStep ==
  ASSUME TypeInv, [Next]_vars
  PROVE  HandTypes'
<1>1. ASSUME NEW t \in Threads, ThreadStep(t) PROVE HandTypes'
  <2>1. CASE \E i \in 1..Len(TxQueue) : TakePacket(t, i)
    BY <2>1, HandStays DEF TakePacket, TypeInv
  <2> QED  BY <1>1, <2>1, HandLoop, HandCompletion DEF ThreadStep
<1>2. CASE \E t \in Workers : htc_flush_endpoint_tx(t)
  BY <1>2, HandStays DEF htc_flush_endpoint_tx, TypeInv, locals
<1>3. CASE TargetReceives
  BY <1>3, HandStays DEF TargetReceives, TypeInv, locals
<1>4. CASE UNCHANGED vars
  BY <1>4, HandStays DEF vars, TypeInv, locals
<1>5. CASE \/ \E t \in Senders, p \in Packets : htc_send_pkt(t, p)
           \/ \E t \in Tasklets : ce_per_engine_service(t)
           \/ \E t \in Reporters : htc_process_credit_rpt(t)
  BY <1>5, HandLoop, HandCompletion DEF Threads
<1> QED  BY <1>1, <1>2, <1>3, <1>4, <1>5 DEF Next

\* An assignment to one element keeps a function to the Booleans one.
LEMMA FlagSet ==
  ASSUME NEW S, NEW f \in [S -> BOOLEAN], NEW x, NEW b \in BOOLEAN
  PROVE  [f EXCEPT ![x] = b] \in [S -> BOOLEAN]
BY Zenon

\* The actions that change a flag.
LEMMA FlagChanges ==
  ASSUME [Next]_vars
  PROVE  \/ UNCHANGED <<fwAsked, needUpdate, owesSlot, pmPass>>
         \/ TargetReceives
         \/ \E t \in Threads :
               \/ htc_process_credit_rpt(t)
               \/ \E i \in 1..Len(TxQueue) : TakePacket(t, i)
               \/ DrainLoop(t) \/ LookupHead(t) \/ LookupSearch(t)
               \/ htc_tx_completion_handler(t) \/ hif_pci_ce_send_done(t)
<1> USE DEF endpoint, pipe, locals, packet, target
<1>1. ASSUME NEW t \in Threads, ThreadStep(t)
      PROVE  \/ UNCHANGED <<fwAsked, needUpdate, owesSlot, pmPass>>
             \/ \E i \in 1..Len(TxQueue) : TakePacket(t, i)
             \/ DrainLoop(t) \/ LookupHead(t) \/ LookupSearch(t)
             \/ htc_tx_completion_handler(t) \/ hif_pci_ce_send_done(t)
  BY <1>1 DEF ThreadStep, ReadFreeQueueNumber, htc_kick_queues, EnterTrySend, StopTaking,
     IssueNext,
       IssueEnd, RereadFreeQueueNumber, Relock, PutWhenIssued, hif_send_complete_check,
       hif_send_head, IssueFailed, SpliceRead, SpliceWrite, ClearAfterFailure,
       ce_per_engine_servicereap, PopCompletion
<1>2. CASE \/ \E t \in Senders, p \in Packets : htc_send_pkt(t, p)
           \/ \E t \in Tasklets : ce_per_engine_service(t)
           \/ \E t \in Workers : htc_flush_endpoint_tx(t)
  BY <1>2 DEF htc_send_pkt, ce_per_engine_service, PopCompletion,
              htc_flush_endpoint_tx
<1>3. CASE \E t \in Reporters : htc_process_credit_rpt(t)
  BY <1>3 DEF Threads
<1>4. CASE UNCHANGED vars
  BY <1>4 DEF vars
<1> QED  BY <1>1, <1>2, <1>3, <1>4 DEF Next

\* Every step keeps the flags Boolean.
LEMMA FlagStep ==
  ASSUME TypeInv, [Next]_vars
  PROVE  FlagTypes'
<1> USE DEF locals, packet, target
<1>f. FlagTypes  BY Zenon DEF TypeInv
<1>e. ASSUME NEW t, NEW r, EndCompletion(t, r) PROVE owesSlot' \in [Threads -> BOOLEAN]
  <2>1. owesSlot' = owesSlot \/ owesSlot' = [owesSlot EXCEPT ![t] = TRUE]
    BY <1>e, Zenon DEF EndCompletion
  <2> QED  BY <1>f, <2>1, FlagSet, Zenon DEF FlagTypes
<1>1. CASE UNCHANGED <<fwAsked, needUpdate, owesSlot, pmPass>>
  BY <1>f, <1>1, Zenon DEF FlagTypes
<1>2. CASE TargetReceives
  <2>1. fwAsked' \in BOOLEAN  BY <1>2, Zenon DEF TargetReceives
  <2>2. UNCHANGED <<needUpdate, owesSlot, pmPass>>  BY <1>2, Zenon DEF TargetReceives
  <2> QED  BY <1>f, <2>1, <2>2, Zenon DEF FlagTypes
<1>3. ASSUME NEW t \in Threads, htc_process_credit_rpt(t) PROVE FlagTypes'
  <2>1. fwAsked' = FALSE /\ UNCHANGED <<needUpdate, owesSlot, pmPass>>
    BY <1>3, Zenon DEF htc_process_credit_rpt
  <2> QED  BY <1>f, <2>1, Zenon DEF FlagTypes
<1>4. ASSUME NEW t \in Threads, NEW i \in 1..Len(TxQueue), TakePacket(t, i)
      PROVE  FlagTypes'
  <2>1. NeedCreditUpdate(TxCredits - Need[TxQueue[i]]) \in BOOLEAN
    <3>1. TxQueue[i] \in Packets  BY DEF TypeInv, QueueTypes
    <3>2. Need \in [Packets -> 1..TxCreditsPerMaxMsg] /\ TxCreditsPerMaxMsg \in Nat
      BY ConstAssumption, Zenon
    <3>3. TxCredits \in Nat  BY Zenon DEF TypeInv, CountTypes
    <3> QED  BY <3>1, <3>2, <3>3 DEF NeedCreditUpdate
  <2>2. \/ needUpdate' = [needUpdate EXCEPT ![TxQueue[i]] =
                             NeedCreditUpdate(TxCredits - Need[TxQueue[i]])]
        \/ needUpdate' = [needUpdate EXCEPT ![TxQueue[i]] = FALSE]
    BY <1>4, Zenon DEF TakePacket, TakeWithCredits, TakeWithResources
  <2>3. needUpdate' \in [Packets -> BOOLEAN]
    BY <1>f, <2>1, <2>2, FlagSet, Zenon DEF FlagTypes
  <2>4. UNCHANGED <<fwAsked, owesSlot, pmPass>>  BY <1>4, Zenon DEF TakePacket
  <2> QED  BY <1>f, <2>3, <2>4, Zenon DEF FlagTypes
<1>5. ASSUME NEW t \in Threads, DrainLoop(t) PROVE FlagTypes'
  <2>1. (\E i \in 1..Len(TxQueue) : TxQueue[i] \in TagAutoPm) \in BOOLEAN  BY Zenon
  <2>2. \/ pmPass' = pmPass
        \/ pmPass' = [pmPass EXCEPT ![t] =
                        \E i \in 1..Len(TxQueue) : TxQueue[i] \in TagAutoPm]
    BY <1>5, Zenon DEF DrainLoop
  <2>3. pmPass' \in [Threads -> BOOLEAN]
    BY <1>f, <2>1, <2>2, FlagSet, Zenon DEF FlagTypes
  <2>4. UNCHANGED <<fwAsked, needUpdate, owesSlot>>  BY <1>5, Zenon DEF DrainLoop
  <2> QED  BY <1>f, <2>3, <2>4, Zenon DEF FlagTypes
<1>6. ASSUME NEW t \in Threads, LookupHead(t) PROVE FlagTypes'
  <2>1. owesSlot' \in [Threads -> BOOLEAN]
    BY <1>e, <1>f, <1>6, Zenon DEF LookupHead, FlagTypes
  <2>2. UNCHANGED <<fwAsked, needUpdate, pmPass>>  BY <1>6, Zenon DEF LookupHead
  <2> QED  BY <1>f, <2>1, <2>2, Zenon DEF FlagTypes
<1>7. ASSUME NEW t \in Threads, LookupSearch(t) PROVE FlagTypes'
  <2>1. owesSlot' \in [Threads -> BOOLEAN]
    BY <1>e, <1>f, <1>7, Zenon DEF LookupSearch, FlagTypes
  <2>2. UNCHANGED <<fwAsked, needUpdate, pmPass>>  BY <1>7, Zenon DEF LookupSearch
  <2> QED  BY <1>f, <2>1, <2>2, Zenon DEF FlagTypes
<1>8. ASSUME NEW t \in Threads, htc_tx_completion_handler(t) PROVE FlagTypes'
  <2>1. owesSlot' \in [Threads -> BOOLEAN]
    BY <1>e, <1>8, Zenon DEF htc_tx_completion_handler
  <2>2. UNCHANGED <<fwAsked, needUpdate, pmPass>>
    BY <1>8, Zenon DEF htc_tx_completion_handler
  <2> QED  BY <1>f, <2>1, <2>2, Zenon DEF FlagTypes
<1>9. ASSUME NEW t \in Threads, hif_pci_ce_send_done(t) PROVE FlagTypes'
  <2>1. owesSlot' = owesSlot \/ owesSlot' = [owesSlot EXCEPT ![t] = FALSE]
    BY <1>9, Zenon DEF hif_pci_ce_send_done
  <2>2. UNCHANGED <<fwAsked, needUpdate, pmPass>>  BY <1>9, Zenon DEF hif_pci_ce_send_done
  <2> QED  BY <1>f, <2>1, <2>2, FlagSet, Zenon DEF FlagTypes
<1> QED
  BY <1>1, <1>2, <1>3, <1>4, <1>5, <1>6, <1>7, <1>8, <1>9, FlagChanges, Zenon

\* What was agreed when the endpoint was connected stays agreed.
LEMMA ConnStep == [Next]_vars => UNCHANGED conn
<1> SUFFICES ASSUME [Next]_vars PROVE UNCHANGED conn
  OBVIOUS
<1> USE DEF target, vars
<1>1. ASSUME NEW t \in Threads, ThreadStep(t) PROVE UNCHANGED conn
  BY <1>1, Zenon DEF ThreadStep, ReadFreeQueueNumber, htc_kick_queues, EnterTrySend, DrainLoop,
     TakePacket, StopTaking, IssueNext, IssueEnd, RereadFreeQueueNumber, Relock, PutWhenIssued,
     hif_send_complete_check, hif_send_head, IssueFailed, SpliceRead, SpliceWrite,
     ClearAfterFailure, ce_per_engine_servicereap, PopCompletion, LookupHead,
     LookupSearch, htc_tx_completion_handler, hif_pci_ce_send_done
<1>2. ASSUME NEW t \in Threads, NEW p \in Packets, htc_send_pkt(t, p)
      PROVE  UNCHANGED conn
  BY <1>2, Zenon DEF htc_send_pkt
<1>3. ASSUME NEW t \in Threads, ce_per_engine_service(t) \/ htc_process_credit_rpt(t)
                                \/ htc_flush_endpoint_tx(t)
      PROVE  UNCHANGED conn
  BY <1>3, Zenon DEF ce_per_engine_service, PopCompletion, htc_process_credit_rpt,
     htc_flush_endpoint_tx
<1>4. CASE TargetReceives  BY <1>4, Zenon DEF TargetReceives
<1>5. CASE UNCHANGED vars  BY <1>5, Zenon
<1> QED  BY <1>1, <1>2, <1>3, <1>4, <1>5, Zenon DEF Next, Threads

\* The initial state of the endpoint has the types.
LEMMA InitTypes == Init => TypeInv
<1> SUFFICES ASSUME Init PROVE TypeInv
  OBVIOUS
<1>1. QueueTypes  BY DEF Init, QueueTypes
<1>2. HandTypes  BY DEF Init, HandTypes, PcOK, OtherPcs, Sending, Completing
<1>3. CountTypes
  <2>1. TxAlloc \in Nat /\ PipeSize \in Nat  BY ConstAssumption DEF Init, PipeSize
  <2>2. Len(wire) = 0  BY DEF Init
  <2> QED  BY <2>1, <2>2 DEF Init, CountTypes
<1>4. FlagTypes  BY Zenon DEF Init, FlagTypes
<1>5. SingleDrainer  BY DEF Init, SingleDrainer, DrainPcs
<1>6. conn \in Conns  BY Zenon DEF Init
<1> QED  BY <1>1, <1>2, <1>3, <1>4, <1>5, <1>6 DEF TypeInv

\* Every step keeps the types.
LEMMA TypeInvStep == TypeInv /\ [Next]_vars => TypeInv'
<1> SUFFICES ASSUME TypeInv, [Next]_vars PROVE TypeInv'
  OBVIOUS
<1>1. SingleDrainer'
  BY DrainInvStep DEF DrainInv, TypeInv, HandTypes
<1>2. conn' \in Conns  BY ConnStep DEF TypeInv
<1> QED  BY <1>1, <1>2, QueueStep, HandStep, CountStep, FlagStep DEF TypeInv

\* In every state of the transmit path each variable has its type.  In
\* particular TxCredits, the free send slots of the pipe and each drainer's
\* tx_resources never go below zero, no completion is reaped before its packet
\* was sent, and TxProcessCount is 0 or 1.
THEOREM TypeCorrect == Spec => []TypeOK
<1>1. TypeInv => TypeOK
  <2> SUFFICES ASSUME TypeInv PROVE TypeOK
    OBVIOUS
  <2>1. TxProcessCount \in 0..1  BY DEF TypeInv, SingleDrainer
  <2>2. pc \in [Threads -> DrainPcs \cup OtherPcs]  BY DEF TypeInv, HandTypes, PcOK
  <2>3. conn \in Conns /\ QueueTypes /\ HandTypes /\ CountTypes /\ FlagTypes
    BY DEF TypeInv
  <2> QED
    BY <2>1, <2>2, <2>3, Zenon DEF TypeOK, QueueTypes, HandTypes, CountTypes, FlagTypes
<1> QED  BY <1>1, TypeInvStep, InitTypes, PTL DEF Spec

-----------------------------------------------------------------------------
(* Where packets are *)

\* No packet is twice on one list.
Uniq(s) == \A i, j \in 1..Len(s) : s[i] = s[j] => i = j

\* No list has a packet twice.
ListsOK ==
    /\ Uniq(TxQueue) /\ Uniq(TxLookupQueue) /\ Uniq(wire)
    /\ \A t \in Threads : Uniq(sendQueue[t]) /\ Uniq(lookupQueue[t])

\* Thread t has packet p on one of its own lists or in its hand.
Has(t, p) == \/ p \in ElementsOf(sendQueue[t])
             \/ p \in ElementsOf(lookupQueue[t])
             \/ Pointed(t, p)

\* No packet is in two places.
Apart ==
    \A p \in Packets :
        /\ ~(p \in ElementsOf(TxQueue) /\ p \in ElementsOf(TxLookupQueue))
        /\ \A t \in Threads : Has(t, p) => /\ p \notin ElementsOf(TxQueue)
                                           /\ p \notin ElementsOf(TxLookupQueue)
        /\ \A t, u \in Threads : Has(t, p) /\ Has(u, p) => t = u
        /\ \A t \in Threads :
              /\ ~(p \in ElementsOf(sendQueue[t]) /\ p \in ElementsOf(lookupQueue[t]))
              /\ ~(p \in ElementsOf(sendQueue[t]) /\ Pointed(t, p))
              /\ ~(p \in ElementsOf(lookupQueue[t]) /\ Pointed(t, p))

\* HTC owns packet p: some list or some thread has it.
Owned(p) == \/ p \in ElementsOf(TxQueue) \/ p \in ElementsOf(TxLookupQueue)
            \/ \E t \in Threads : Has(t, p)

\* A packet that HTC owns was sent and not handed back; none is handed back twice.
OwnedOK ==
    \A p \in Packets :
        /\ Owned(p) => p \in sent /\ completed[p] = 0
        /\ completed[p] = 0 \/ (completed[p] = 1 /\ p \in sent)

\* Nobody has packet p, though it was sent and not handed back.
Gone(p) == p \in sent /\ ~Owned(p) /\ completed[p] = 0

\* What went to the copy engine waits for its completion only.
WireOK ==
    \A p \in ElementsOf(wire) :
        /\ p \in sent /\ ~Gone(p)
        /\ p \notin ElementsOf(TxQueue)
        /\ \A t \in Threads : p \notin ElementsOf(sendQueue[t]) /\ pPacket[t] # p

\* Packet p waits for its completion, on TxLookupQueue or on the copy of it that a
\* handler searches.
OnLookup(p) == \/ p \in ElementsOf(TxLookupQueue)
               \/ \E t \in Threads : p \in ElementsOf(lookupQueue[t])

\* Before htc_try_send has put its packet into TxQueue.
Entering == {"free_queue", "enter"}

\* Where the drainer's local queue is empty.
Empty == {"drain", "relock", "reread", "clear"}

\* What a thread has where it is.
HandOK ==
    \A t \in Threads :
        /\ pc[t] \notin Sending \cup Entering => pPacket[t] = NoPkt
        /\ pc[t] \in Sending => OnLookup(pPacket[t])
        /\ pc[t] \in Completing => netbuf[t] \in ElementsOf(wire)
        /\ sendQueue[t] # <<>> => pc[t] \in DrainPcs \ Empty
        /\ lookupQueue[t] # <<>> => pc[t] \in {"search", "r_search"}
        /\ pc[t] \in Entering /\ pPacket[t] # NoPkt
              => /\ OwnerOf[pPacket[t]] = t
                 /\ \A q \in sent : OwnerOf[q] = t => q <= pPacket[t]

\* A sender sends its packets in their order.
SentOK ==
    \A p \in sent, q \in Packets : OwnerOf[q] = OwnerOf[p] /\ q < p => q \in sent

\* The inductive invariant about the places of packets.
PlaceInv == ListsOK /\ Apart /\ OwnedOK /\ WireOK /\ HandOK /\ SentOK

\* With enough slots nothing is lost.
KeptOK == AmplePipe => \A p \in Packets : ~Gone(p)

-----------------------------------------------------------------------------
(* Order *)
\* Packets of one sender that both are, or both are not, AUTO_PM packets: these the
\* code keeps in order.
SameClass(p, q) == OwnerOf[p] = OwnerOf[q] /\ (p \in AutoPm <=> q \in AutoPm)

\* A list keeps the order of each class.
Sorted(s) == \A i, j \in 1..Len(s) : i < j /\ SameClass(s[i], s[j]) => s[i] < s[j]

\* In each class, the packets of P come before those of Q.
Precedes(P, Q) == \A p \in P, q \in Q : SameClass(p, q) => p < q

-----------------------------------------------------------------------------
(* Credits and slots *)
\* Where a drainer handles a refused send.
FailPcs == {"fail", "splice", "spliced", "clear"}

\* Where a completed send of the tasklet has its slot still taken.
TaskletPcs == {"lookup", "search", "done", "free"}

\* The same for a completion that a sender reaps for want of slots.
ReapPcs == {"r_lookup", "r_search", "r_done", "r_free"}

\* One when a thread is at one of P: at most one is, for the P below.
Busy(P) == IF \E t \in Threads : pc[t] \in P THEN 1 ELSE 0

\* Under credit flow control every slot is free, on the ring, or with the one tasklet
\* or the one drainer that completes a send.
SlotInv ==
    CreditFlow =>
        /\ \A t \in Threads : ~owesSlot[t]
        /\ \A t \in Threads : pc[t] \in TaskletPcs => t \in Tasklets
        /\ num_sends_allowed + (Len(wire) - sw_index) + Busy(TaskletPcs) + Busy(ReapPcs)
             = PipeSize

\* With more slots than credits, a send finds a slot and is never refused.
HeadOK == AmplePipe => \A t \in Threads : /\ pc[t] = "head" => num_sends_allowed >= 1
                                          /\ pc[t] \notin FailPcs

-----------------------------------------------------------------------------
(* What the list operations do to the packets on a list *)

\* What Append does to the packets of a list, their uniqueness and their order.
LEMMA AppendLists ==
  ASSUME NEW s \in Seq(Packets), NEW p \in Packets
  PROVE  /\ ElementsOf(Append(s, p)) = ElementsOf(s) \cup {p}
         /\ Uniq(s) /\ p \notin ElementsOf(s) => Uniq(Append(s, p))
         /\ Sorted(s) /\ Precedes(ElementsOf(s), {p}) => Sorted(Append(s, p))
<1> DEFINE r == Append(s, p)
<1>1. /\ Len(s) \in Nat /\ Len(r) = Len(s) + 1 /\ r[Len(s) + 1] = p
      /\ \A i \in 1..Len(s) : r[i] = s[i]
  OBVIOUS
<1> HIDE DEF r
<1>2. ElementsOf(r) = ElementsOf(s) \cup {p}
  BY <1>1 DEF ElementsOf
<1>3. Uniq(s) /\ p \notin ElementsOf(s) => Uniq(r)
  BY <1>1 DEF ElementsOf, Uniq
<1>4. Sorted(s) /\ Precedes(ElementsOf(s), {p}) => Sorted(r)
  BY <1>1 DEF ElementsOf, Sorted, Precedes
<1> QED  BY <1>2, <1>3, <1>4 DEF r

\* What taking the head off does.
LEMMA TailLists ==
  ASSUME NEW s \in Seq(Packets), s # <<>>
  PROVE  /\ Head(s) \in ElementsOf(s) /\ Head(s) \in Packets
         /\ ElementsOf(s) = ElementsOf(Tail(s)) \cup {Head(s)}
         /\ Uniq(s) => Uniq(Tail(s)) /\ Head(s) \notin ElementsOf(Tail(s))
         /\ Sorted(s) => Sorted(Tail(s)) /\ Precedes({Head(s)}, ElementsOf(Tail(s)))
<1> DEFINE r == Tail(s)
           h == Head(s)
<1>1. /\ Len(s) \in Nat \ {0} /\ Len(r) = Len(s) - 1 /\ h = s[1] /\ h \in Packets
      /\ \A i \in 1..Len(r) : r[i] = s[i + 1]
  OBVIOUS
<1> HIDE DEF r, h
<1>2. \A i \in 2..Len(s) : i - 1 \in 1..Len(r) /\ s[i] = r[i - 1]
  BY <1>1
<1>3. h \in ElementsOf(s) /\ ElementsOf(s) = ElementsOf(r) \cup {h}
  BY <1>1, <1>2 DEF ElementsOf
<1>4. Uniq(s) => Uniq(r) /\ h \notin ElementsOf(r)
  BY <1>1 DEF ElementsOf, Uniq
<1>5. Sorted(s) => Sorted(r) /\ Precedes({h}, ElementsOf(r))
  BY <1>1, SMTT(30) DEF ElementsOf, Sorted, Precedes
<1> QED  BY <1>1, <1>3, <1>4, <1>5 DEF r, h

\* The elements of a concatenation.
LEMMA ConcatAt ==
  ASSUME NEW s \in Seq(Packets), NEW r \in Seq(Packets)
  PROVE  /\ Len(s \o r) = Len(s) + Len(r)
         /\ \A k \in 1..(Len(s) + Len(r)) :
               (s \o r)[k] = IF k <= Len(s) THEN s[k] ELSE r[k - Len(s)]
OBVIOUS

\* What removing a packet from the middle does.
LEMMA RemoveLists ==
  ASSUME NEW s \in Seq(Packets), NEW i \in 1..Len(s)
  PROVE  /\ s[i] \in ElementsOf(s)
         /\ ElementsOf(s) = ElementsOf(RemoveIndex(s, i)) \cup {s[i]}
         /\ Uniq(s) => Uniq(RemoveIndex(s, i)) /\ s[i] \notin ElementsOf(RemoveIndex(s, i))
         /\ Sorted(s) => Sorted(RemoveIndex(s, i))
<1> DEFINE r == RemoveIndex(s, i)
<1>1. /\ Len(s) \in Nat /\ Len(r) = Len(s) - 1
      /\ \A k \in 1..Len(r) : r[k] = IF k < i THEN s[k] ELSE s[k + 1]
  <2> DEFINE a == SubSeq(s, 1, i - 1)
             b == SubSeq(s, i + 1, Len(s))
  <2>1. /\ a \in Seq(Packets) /\ Len(a) = i - 1 /\ \A k \in 1..(i - 1) : a[k] = s[k]
        /\ b \in Seq(Packets) /\ Len(b) = Len(s) - i
        /\ \A k \in 1..(Len(s) - i) : b[k] = s[i + k]
    OBVIOUS
  <2>2. r = a \o b /\ Len(s) \in Nat
    BY DEF RemoveIndex
  <2> HIDE DEF a, b, r
  <2>3. /\ Len(r) = Len(s) - 1
        /\ \A k \in 1..Len(r) : r[k] = IF k <= Len(a) THEN a[k] ELSE b[k - Len(a)]
    <3>1. /\ Len(a \o b) = Len(a) + Len(b)
          /\ \A k \in 1..(Len(a) + Len(b)) :
                (a \o b)[k] = IF k <= Len(a) THEN a[k] ELSE b[k - Len(a)]
      BY <2>1, ConcatAt
    <3> QED  BY <2>1, <2>2, <3>1
  <2>4. ASSUME NEW k \in 1..Len(r) PROVE r[k] = IF k < i THEN s[k] ELSE s[k + 1]
    <3>1. CASE k < i  BY <2>1, <2>3, <3>1
    <3>2. CASE ~(k < i)
      <4>1. k - (i - 1) \in 1..(Len(s) - i) /\ i + (k - (i - 1)) = k + 1
        BY <2>2, <2>3, <3>2
      <4>2. r[k] = b[k - (i - 1)]  BY <2>1, <2>3, <3>2
      <4> QED  BY <2>1, <3>2, <4>1, <4>2
    <3> QED  BY <3>1, <3>2
  <2> QED  BY <2>2, <2>3, <2>4
<1> HIDE DEF r
<1>2. \A k \in 1..Len(s) : \/ k = i
                           \/ k < i /\ k \in 1..Len(r) /\ s[k] = r[k]
                           \/ k > i /\ k - 1 \in 1..Len(r) /\ s[k] = r[k - 1]
  <2> SUFFICES ASSUME NEW k \in 1..Len(s), k # i
               PROVE  \/ k < i /\ k \in 1..Len(r) /\ s[k] = r[k]
                      \/ k > i /\ k - 1 \in 1..Len(r) /\ s[k] = r[k - 1]
    OBVIOUS
  <2>1. CASE k < i  BY <1>1, <2>1
  <2>2. CASE k > i
    <3>1. k - 1 \in 1..Len(r) /\ ~(k - 1 < i) /\ (k - 1) + 1 = k  BY <1>1, <2>2
    <3> QED  BY <1>1, <2>2, <3>1
  <2> QED  BY <2>1, <2>2
<1>3. ElementsOf(s) = ElementsOf(r) \cup {s[i]}
  <2>1. ElementsOf(r) \subseteq ElementsOf(s)
    BY <1>1 DEF ElementsOf
  <2>2. ElementsOf(s) \subseteq ElementsOf(r) \cup {s[i]}
    BY <1>2 DEF ElementsOf
  <2>3. s[i] \in ElementsOf(s)
    BY DEF ElementsOf
  <2> QED  BY <2>1, <2>2, <2>3
<1>4. Uniq(s) => Uniq(r) /\ s[i] \notin ElementsOf(r)
  BY <1>1, SMTT(30) DEF ElementsOf, Uniq
<1>5. Sorted(s) => Sorted(r)
  BY <1>1 DEF Sorted
<1> QED  BY <1>3, <1>4, <1>5 DEF r

\* What removing a given packet does.
LEMMA WithoutLists ==
  ASSUME NEW s \in Seq(Packets), NEW p, Uniq(s)
  PROVE  ElementsOf(Without(s, p)) = ElementsOf(s) \ {p} /\ Uniq(Without(s, p))
<1>1. CASE p \in ElementsOf(s)
  <2> DEFINE i == CHOOSE j \in 1..Len(s) : s[j] = p
  <2>1. i \in 1..Len(s) /\ s[i] = p
    BY <1>1 DEF ElementsOf
  <2>2. Without(s, p) = RemoveIndex(s, i)
    BY <1>1 DEF Without
  <2> HIDE DEF i
  <2> QED  BY <2>1, <2>2, RemoveLists
<1>2. CASE p \notin ElementsOf(s)
  BY <1>2 DEF Without
<1> QED  BY <1>1, <1>2

\* What splicing two lists does.
LEMMA ConcatLists ==
  ASSUME NEW s \in Seq(Packets), NEW r \in Seq(Packets)
  PROVE  /\ ElementsOf(s \o r) = ElementsOf(s) \cup ElementsOf(r)
         /\ Uniq(s) /\ Uniq(r) /\ ElementsOf(s) \cap ElementsOf(r) = {} => Uniq(s \o r)
         /\ Sorted(s) /\ Sorted(r) /\ Precedes(ElementsOf(s), ElementsOf(r)) => Sorted(s \o r)
<1> DEFINE c == s \o r
<1>1. /\ Len(s) \in Nat /\ Len(r) \in Nat /\ Len(c) = Len(s) + Len(r)
      /\ \A k \in 1..Len(s) : c[k] = s[k]
      /\ \A k \in 1..Len(c) : k > Len(s) => c[k] = r[k - Len(s)] /\ k - Len(s) \in 1..Len(r)
  OBVIOUS
<1> HIDE DEF c
<1>2. \A k \in 1..Len(r) : k + Len(s) \in 1..Len(c) /\ c[k + Len(s)] = r[k]
  BY <1>1
<1>3. \A k \in 1..Len(s) : k \in 1..Len(c)
  BY <1>1
<1>4. ElementsOf(c) = ElementsOf(s) \cup ElementsOf(r)
  <2>1. ElementsOf(c) \subseteq ElementsOf(s) \cup ElementsOf(r)
    <3> SUFFICES ASSUME NEW k \in 1..Len(c) PROVE c[k] \in ElementsOf(s) \cup ElementsOf(r)
      BY DEF ElementsOf
    <3>1. CASE k > Len(s)  BY <1>1, <3>1 DEF ElementsOf
    <3>2. CASE ~(k > Len(s))  BY <1>1, <3>2 DEF ElementsOf
    <3> QED  BY <3>1, <3>2
  <2>2. ElementsOf(s) \subseteq ElementsOf(c)  BY <1>1, <1>3 DEF ElementsOf
  <2>3. ElementsOf(r) \subseteq ElementsOf(c)
    <3> SUFFICES ASSUME NEW k \in 1..Len(r) PROVE r[k] \in ElementsOf(c)
      BY DEF ElementsOf
    <3> QED  BY <1>2 DEF ElementsOf
  <2> QED  BY <2>1, <2>2, <2>3
<1>5. /\ \A k \in 1..Len(c) : ~(k > Len(s)) => k \in 1..Len(s)
      /\ \A i, j \in 1..Len(c) : i - Len(s) = j - Len(s) => i = j
      /\ \A i, j \in 1..Len(c) : i < j /\ i > Len(s) => j > Len(s) /\ i - Len(s) < j - Len(s)
      /\ \A i, j \in 1..Len(c) : i < j /\ ~(j > Len(s)) => ~(i > Len(s))
  BY <1>1
<1>6. \A k \in 1..Len(c) : IF k > Len(s) THEN c[k] \in ElementsOf(r) ELSE c[k] \in ElementsOf(s)
  BY <1>1, <1>5 DEF ElementsOf
<1>7. Uniq(s) /\ Uniq(r) /\ ElementsOf(s) \cap ElementsOf(r) = {} => Uniq(c)
  <2> SUFFICES ASSUME Uniq(s), Uniq(r), ElementsOf(s) \cap ElementsOf(r) = {},
                      NEW i \in 1..Len(c), NEW j \in 1..Len(c), c[i] = c[j]
               PROVE  i = j
    BY DEF Uniq
  <2>1. CASE i > Len(s) /\ j > Len(s)
    <3>1. i - Len(s) \in 1..Len(r) /\ j - Len(s) \in 1..Len(r)
          /\ r[i - Len(s)] = r[j - Len(s)]
      BY <1>1, <2>1
    <3> QED  BY <1>5, <3>1 DEF Uniq
  <2>2. CASE ~(i > Len(s)) /\ ~(j > Len(s))  BY <1>1, <1>5, <2>2 DEF Uniq
  <2>3. CASE i > Len(s) /\ ~(j > Len(s))  BY <1>6, <2>3
  <2>4. CASE ~(i > Len(s)) /\ j > Len(s)  BY <1>6, <2>4
  <2> QED  BY <2>1, <2>2, <2>3, <2>4
<1>8. Sorted(s) /\ Sorted(r) /\ Precedes(ElementsOf(s), ElementsOf(r)) => Sorted(c)
  <2> SUFFICES ASSUME Sorted(s), Sorted(r), Precedes(ElementsOf(s), ElementsOf(r)),
                      NEW i \in 1..Len(c), NEW j \in 1..Len(c), i < j, SameClass(c[i], c[j])
               PROVE  c[i] < c[j]
    BY DEF Sorted
  <2>1. CASE i > Len(s)
    <3>1. /\ i - Len(s) \in 1..Len(r) /\ j - Len(s) \in 1..Len(r)
          /\ c[i] = r[i - Len(s)] /\ c[j] = r[j - Len(s)] /\ i - Len(s) < j - Len(s)
      BY <1>1, <1>5, <2>1
    <3> QED  BY <3>1 DEF Sorted
  <2>2. CASE ~(j > Len(s))  BY <1>1, <1>5, <2>2 DEF Sorted
  <2>3. CASE ~(i > Len(s)) /\ j > Len(s)
    BY <1>6, <2>3 DEF Precedes
  <2> QED  BY <2>1, <2>2, <2>3
<1> QED  BY <1>4, <1>7, <1>8 DEF c

-----------------------------------------------------------------------------
(* Steps that move no packet *)

\* Ownership depends on the lists and on what threads have in their hands.
LEMMA OwnershipStays ==
  ASSUME PlaceInv,
         UNCHANGED <<TxQueue, TxLookupQueue, sendQueue, lookupQueue, wire, sent, completed>>,
         \A u \in Threads, p \in Packets : Pointed(u, p)' <=> Pointed(u, p)
  PROVE  /\ ListsOK' /\ Apart' /\ OwnedOK' /\ SentOK'
         /\ \A p \in Packets : Gone(p)' <=> Gone(p)
<1> USE DEF PlaceInv
<1>1. ListsOK'
  BY DEF ListsOK, Uniq
<1>2. \A u \in Threads, p \in Packets : Has(u, p)' <=> Has(u, p)
  BY DEF Has
<1>3. Apart'
  BY <1>2 DEF Apart
<1>4. \A p \in Packets : Owned(p)' <=> Owned(p)
  BY <1>2 DEF Owned
<1>5. OwnedOK'
  BY <1>4 DEF OwnedOK
<1>6. SentOK'
  BY DEF SentOK
<1> QED  BY <1>1, <1>3, <1>4, <1>5, <1>6 DEF Gone

\* A step that moves no packet and takes at most a new netbuf from the wire.
LEMMA QuietStep ==
  ASSUME TypeInv, PlaceInv, NEW t \in Threads, NEW l \in DrainPcs \cup OtherPcs,
         pc' = [pc EXCEPT ![t] = l],
         NEW n, netbuf' = [netbuf EXCEPT ![t] = n],
         UNCHANGED <<TxQueue, TxLookupQueue, sendQueue, lookupQueue, wire, sent, completed,
                     pPacket>>,
         {pc[t], l} \cap {"done", "r_done"} = {},
         \/ pc[t] \in Entering /\ l \in Entering
         \/ pc[t] \in Sending /\ l \in Sending
         \/ pPacket[t] = NoPkt /\ l \notin Sending,
         l \in Completing => n \in ElementsOf(wire),
         l \in DrainPcs \ Empty \/ sendQueue[t] = <<>>,
         l \in {"search", "r_search"} \/ lookupQueue[t] = <<>>
  PROVE  PlaceInv' /\ \A p \in Packets : Gone(p)' <=> Gone(p)
<1>1. /\ pc \in [Threads -> DrainPcs \cup OtherPcs] /\ netbuf \in [Threads -> Packets \cup {NoPkt}]
      /\ pPacket \in [Threads -> Packets \cup {NoPkt}] /\ NoPkt \notin Packets
  BY ConstAssumption DEF TypeInv, HandTypes, PcOK
<1>2. /\ pc'[t] = l /\ netbuf'[t] = n
      /\ \A u \in Threads : u # t => pc'[u] = pc[u] /\ netbuf'[u] = netbuf[u]
  BY <1>1
<1>3. Entering \cap Sending = {}
  BY DEF Entering, Sending
<1>4. \A u \in Threads, p \in Packets : Pointed(u, p)' <=> Pointed(u, p)
  BY <1>1, <1>2, <1>3, ZenonT(30) DEF Pointed, Entering
<1>5. ListsOK' /\ Apart' /\ OwnedOK' /\ SentOK' /\ \A p \in Packets : Gone(p)' <=> Gone(p)
  BY <1>4, OwnershipStays
<1>7. WireOK'
  <2>1. ElementsOf(wire) \subseteq Packets
    BY DEF TypeInv, QueueTypes, ElementsOf
  <2> QED  BY <1>5, <2>1 DEF WireOK, PlaceInv
<1>6. HandOK'
  <2> SUFFICES ASSUME NEW u \in Threads
               PROVE  /\ pc'[u] \notin Sending \cup Entering => pPacket[u] = NoPkt
                      /\ pc'[u] \in Sending => OnLookup(pPacket[u])
                      /\ pc'[u] \in Completing => netbuf'[u] \in ElementsOf(wire)
                      /\ sendQueue[u] # <<>> => pc'[u] \in DrainPcs \ Empty
                      /\ lookupQueue[u] # <<>> => pc'[u] \in {"search", "r_search"}
                      /\ pc'[u] \in Entering /\ pPacket[u] # NoPkt
                            => /\ OwnerOf[pPacket[u]] = u
                               /\ \A q \in sent : OwnerOf[q] = u => q <= pPacket[u]
    BY DEF HandOK, OnLookup
  <2>1. CASE u # t
    BY <1>2, <2>1 DEF HandOK, PlaceInv
  <2>2. CASE u = t
    BY <1>2, <1>3, <2>2 DEF HandOK, PlaceInv
  <2> QED  BY <2>1, <2>2
<1> QED  BY <1>5, <1>6, <1>7 DEF PlaceInv

\* A step that moves no packet and no thread.
LEMMA StillStep ==
  ASSUME TypeInv, PlaceInv,
         UNCHANGED <<TxQueue, TxLookupQueue, sendQueue, lookupQueue, wire, sent, completed,
                     pPacket, pc, netbuf>>
  PROVE  PlaceInv' /\ \A p \in Packets : Gone(p)' <=> Gone(p)
<1>1. \A u \in Threads, p \in Packets : Pointed(u, p)' <=> Pointed(u, p)
  BY DEF Pointed
<1>2. ListsOK' /\ Apart' /\ OwnedOK' /\ SentOK' /\ \A p \in Packets : Gone(p)' <=> Gone(p)
  BY <1>1, OwnershipStays
<1>3. WireOK' /\ HandOK'
  <2>1. ElementsOf(wire) \subseteq Packets
    BY DEF TypeInv, QueueTypes, ElementsOf
  <2> QED  BY <1>2, <2>1 DEF PlaceInv, WireOK, HandOK, OnLookup
<1> QED  BY <1>2, <1>3 DEF PlaceInv

\* The same for a step that leaves the netbuf of the thread alone.
LEMMA QuietMove ==
  ASSUME TypeInv, PlaceInv, NEW t \in Threads, NEW l \in DrainPcs \cup OtherPcs,
         pc' = [pc EXCEPT ![t] = l],
         UNCHANGED <<TxQueue, TxLookupQueue, sendQueue, lookupQueue, wire, sent, completed,
                     pPacket, netbuf>>,
         {pc[t], l} \cap {"done", "r_done"} = {},
         \/ pc[t] \in Entering /\ l \in Entering
         \/ pc[t] \in Sending /\ l \in Sending
         \/ pPacket[t] = NoPkt /\ l \notin Sending,
         l \notin Completing,
         l \in DrainPcs \ Empty \/ sendQueue[t] = <<>>,
         l \in {"search", "r_search"} \/ lookupQueue[t] = <<>>
  PROVE  PlaceInv' /\ \A p \in Packets : Gone(p)' <=> Gone(p)
<1> DEFINE n == netbuf[t]
<1>1. netbuf' = [netbuf EXCEPT ![t] = n]
  BY DEF TypeInv, HandTypes
<1> HIDE DEF n
<1>2. UNCHANGED <<TxQueue, TxLookupQueue, sendQueue, lookupQueue, wire, sent, completed,
                     pPacket>>
  OBVIOUS
<1> QED  BY <1>1, <1>2, QuietStep

-----------------------------------------------------------------------------
(* Steps that move a packet *)

\* What TypeInv says of the lists, for the steps below.
LEMMA Lists ==
  ASSUME TypeInv
  PROVE  /\ TxQueue \in Seq(Packets) /\ TxLookupQueue \in Seq(Packets) /\ wire \in Seq(Packets)
         /\ sendQueue \in [Threads -> Seq(Packets)] /\ lookupQueue \in [Threads -> Seq(Packets)]
         /\ ElementsOf(TxQueue) \subseteq Packets /\ ElementsOf(TxLookupQueue) \subseteq Packets
         /\ ElementsOf(wire) \subseteq Packets
         /\ \A t \in Threads : /\ ElementsOf(sendQueue[t]) \subseteq Packets
                               /\ ElementsOf(lookupQueue[t]) \subseteq Packets
         /\ pc \in [Threads -> DrainPcs \cup OtherPcs]
         /\ pPacket \in [Threads -> Packets \cup {NoPkt}]
         /\ netbuf \in [Threads -> Packets \cup {NoPkt}]
         /\ completed \in [Packets -> Nat] /\ sent \subseteq Packets
         /\ NoPkt \notin Packets /\ Packets \subseteq Nat
<1>1. /\ TxQueue \in Seq(Packets) /\ TxLookupQueue \in Seq(Packets) /\ wire \in Seq(Packets)
      /\ sendQueue \in [Threads -> Seq(Packets)] /\ lookupQueue \in [Threads -> Seq(Packets)]
  BY DEF TypeInv, QueueTypes, HandTypes
<1>2. \A s \in Seq(Packets) : ElementsOf(s) \subseteq Packets
  BY DEF ElementsOf
<1>3. \A t \in Threads : sendQueue[t] \in Seq(Packets) /\ lookupQueue[t] \in Seq(Packets)
  BY <1>1
<1>4. /\ pc \in [Threads -> DrainPcs \cup OtherPcs]
      /\ pPacket \in [Threads -> Packets \cup {NoPkt}]
      /\ netbuf \in [Threads -> Packets \cup {NoPkt}]
      /\ completed \in [Packets -> Nat] /\ sent \subseteq Packets
  BY DEF TypeInv, QueueTypes, HandTypes, PcOK, CountTypes
<1>5. NoPkt \notin Packets /\ Packets \subseteq Nat
  BY ConstAssumption
<1> QED  BY <1>1, <1>2, <1>3, <1>4, <1>5

\* The packet that its sender gives to HTC is nowhere yet.
LEMMA SendMoves ==
  ASSUME TypeInv, PlaceInv, NEW t \in Senders, NEW p \in Packets, htc_send_pkt(t, p)
  PROVE  PlaceInv' /\ \A q \in Packets : Gone(q)' <=> Gone(q)
<1> USE DEF PlaceInv
<1>0. t \in Threads  BY DEF Threads
<1>1. /\ pc[t] = "idle" /\ OwnerOf[p] = t /\ p \notin sent /\ sent' = sent \cup {p}
      /\ \A q \in Packets : OwnerOf[q] = t /\ q < p => q \in sent
      /\ pPacket' = [pPacket EXCEPT ![t] = p] /\ pc' = [pc EXCEPT ![t] = TrySendEntry]
      /\ UNCHANGED <<TxQueue, TxLookupQueue, sendQueue, lookupQueue, wire, completed, netbuf>>
  BY DEF htc_send_pkt, Goto, endpoint, pipe
<1>2. TrySendEntry \in Entering  BY DEF TrySendEntry, Entering
<1>3. /\ pc'[t] \in Entering /\ pPacket'[t] = p
      /\ \A u \in Threads : u # t => pc'[u] = pc[u] /\ pPacket'[u] = pPacket[u]
  BY <1>0, <1>1, <1>2, Lists
<1>4. ~Owned(p) /\ p \notin ElementsOf(wire) /\ completed[p] = 0
  BY <1>1 DEF OwnedOK, WireOK
<1>5. \A u \in Threads, q \in Packets : Pointed(u, q)' <=> Pointed(u, q) \/ (u = t /\ q = p)
  BY <1>0, <1>1, <1>3 DEF Pointed, Entering
<1>6. \A u \in Threads, q \in Packets : Has(u, q)' <=> Has(u, q) \/ (u = t /\ q = p)
  BY <1>1, <1>5 DEF Has
<1>7. /\ p \notin ElementsOf(TxQueue) /\ p \notin ElementsOf(TxLookupQueue)
      /\ \A u \in Threads : ~Has(u, p)
  BY <1>4 DEF Owned
<1>8. ListsOK'  BY <1>1 DEF ListsOK
<1>9. Apart'
  BY <1>1, <1>5, <1>6, <1>7 DEF Apart, Has
<1>10. \A q \in Packets : Owned(q)' <=> Owned(q) \/ q = p
  BY <1>0, <1>1, <1>6 DEF Owned
<1>11. OwnedOK' /\ \A q \in Packets : Gone(q)' <=> Gone(q)
  BY <1>1, <1>4, <1>10 DEF OwnedOK, Gone
<1>12. WireOK'
  BY <1>0, <1>1, <1>3, <1>4, <1>11, Lists DEF WireOK
<1>13. SentOK'
  BY <1>1 DEF SentOK
<1>14. HandOK'
  <2> SUFFICES ASSUME NEW u \in Threads
               PROVE  /\ pc'[u] \notin Sending \cup Entering => pPacket'[u] = NoPkt
                      /\ pc'[u] \in Sending => OnLookup(pPacket'[u])
                      /\ pc'[u] \in Completing => netbuf[u] \in ElementsOf(wire)
                      /\ sendQueue[u] # <<>> => pc'[u] \in DrainPcs \ Empty
                      /\ lookupQueue[u] # <<>> => pc'[u] \in {"search", "r_search"}
                      /\ pc'[u] \in Entering /\ pPacket'[u] # NoPkt
                            => /\ OwnerOf[pPacket'[u]] = u
                               /\ \A q \in sent' : OwnerOf[q] = u => q <= pPacket'[u]
    BY <1>1 DEF HandOK, OnLookup
  <2>1. CASE u # t
    BY <1>1, <1>3, <2>1 DEF HandOK
  <2>2. CASE u = t
    <3>1. \A q \in sent : OwnerOf[q] = t => q <= p
      <4> SUFFICES ASSUME NEW q \in sent, OwnerOf[q] = t, ~(q <= p) PROVE FALSE
        OBVIOUS
      <4>1. q \in Nat /\ p \in Nat /\ p < q  BY Lists
      <4> QED  BY <1>1, <4>1 DEF SentOK
    <3>2. p <= p  BY Lists
    <3>3. sendQueue[t] = <<>> /\ lookupQueue[t] = <<>>
      BY <1>0, <1>1 DEF HandOK, DrainPcs
    <3>4. pc'[t] \notin Sending \cup Completing
      BY <1>3 DEF Entering, Sending, Completing
    <3> QED  BY <1>1, <1>3, <2>2, <3>1, <3>2, <3>3, <3>4
  <2> QED  BY <2>1, <2>2
<1> QED  BY <1>8, <1>9, <1>11, <1>12, <1>13, <1>14

\* EnterTrySend moves the packet from the hand of its sender to the end of TxQueue.
LEMMA EnterMoves ==
  ASSUME TypeInv, PlaceInv, NEW t \in Threads, EnterTrySend(t)
  PROVE  PlaceInv' /\ \A q \in Packets : Gone(q)' <=> Gone(q)
<1> USE DEF PlaceInv
<1> DEFINE p == pPacket[t]
<1>1. /\ pc[t] = "enter"
      /\ TxQueue' = IF p = NoPkt THEN TxQueue ELSE Append(TxQueue, p)
      /\ pPacket' = [pPacket EXCEPT ![t] = NoPkt]
      /\ \E l \in {"drain", "idle", "free"} : pc' = [pc EXCEPT ![t] = l]
      /\ UNCHANGED <<TxLookupQueue, sendQueue, lookupQueue, wire, completed, netbuf, sent>>
  BY DEF EnterTrySend, Goto, TrySendReturn, pipe, packet
<1>2. PICK l \in {"drain", "idle", "free"} : pc' = [pc EXCEPT ![t] = l]
  BY <1>1
<1>3. sendQueue[t] = <<>> /\ lookupQueue[t] = <<>>
  BY <1>1 DEF HandOK, DrainPcs
<1>4. CASE p = NoPkt
  <2>1. pPacket' = pPacket /\ netbuf' = [netbuf EXCEPT ![t] = netbuf[t]]
    BY <1>1, <1>4, Lists
  <2>2. l \in DrainPcs \cup OtherPcs /\ l \notin Completing \cup Sending \cup {"done", "r_done"}
    BY DEF DrainPcs, OtherPcs, Completing, Sending
  <2>3. UNCHANGED <<TxQueue, TxLookupQueue, sendQueue, lookupQueue, wire, sent, completed,
                    pPacket>>
    BY <1>1, <1>4, <2>1
  <2>4. {pc[t], l} \cap {"done", "r_done"} = {} /\ pPacket[t] = NoPkt /\ l \notin Sending
        /\ l \notin Completing
    BY <1>1, <1>4, <2>2
  <2> QED  BY <1>2, <1>3, <2>1, <2>2, <2>3, <2>4, QuietStep
<1>5. CASE p # NoPkt
  <2>1. p \in Packets /\ TxQueue' = Append(TxQueue, p)
    BY <1>1, <1>5, Lists
  <2>2. /\ pc'[t] = l /\ pPacket'[t] = NoPkt
        /\ \A u \in Threads : u # t => pc'[u] = pc[u] /\ pPacket'[u] = pPacket[u]
    BY <1>1, <1>2, Lists
  <2>3. Pointed(t, p)  BY <1>1 DEF Pointed
  <2>4. /\ p \notin ElementsOf(TxQueue) /\ p \notin ElementsOf(TxLookupQueue) /\ Has(t, p)
        /\ \A u \in Threads : u # t => ~Has(u, p)
        /\ p \notin ElementsOf(sendQueue[t]) /\ p \notin ElementsOf(lookupQueue[t])
        /\ p \notin ElementsOf(wire)
    BY <2>1, <2>3 DEF Apart, Has, WireOK
  <2>5. ElementsOf(TxQueue') = ElementsOf(TxQueue) \cup {p} /\ Uniq(TxQueue')
    BY <2>1, <2>4, Lists, AppendLists DEF ListsOK
  <2> HIDE DEF p
  <2>6. \A u \in Threads, q \in Packets : Pointed(u, q)' <=> Pointed(u, q) /\ ~(u = t /\ q = p)
    BY <1>1, <2>1, <2>2, <2>4, Lists DEF Pointed, p
  <2>7. \A u \in Threads, q \in Packets : Has(u, q)' <=> Has(u, q) /\ ~(u = t /\ q = p)
    BY <1>1, <2>4, <2>6 DEF Has
  <2>8. ListsOK'  BY <1>1, <2>5 DEF ListsOK
  <2>9. Apart'
    BY <1>1, <2>4, <2>5, <2>6, <2>7 DEF Apart, Has
  <2>10. \A q \in Packets : Owned(q)' <=> Owned(q)
    BY <1>1, <2>4, <2>5, <2>7 DEF Owned
  <2>11. OwnedOK' /\ SentOK' /\ \A q \in Packets : Gone(q)' <=> Gone(q)
    BY <1>1, <2>10 DEF OwnedOK, Gone, SentOK
  <2>12. WireOK'
    BY <1>1, <2>2, <2>4, <2>5, <2>11, Lists DEF WireOK
  <2>13. HandOK'
    <3>1. l \notin Sending \cup Completing \cup Entering
      BY DEF Entering, Sending, Completing
    <3> QED  BY <1>1, <1>3, <2>2, <3>1 DEF HandOK, OnLookup
  <2> QED  BY <2>8, <2>9, <2>11, <2>12, <2>13
<1> QED  BY <1>4, <1>5

\* TakePacket moves a packet from TxQueue to the drainer's queue.
LEMMA TakeMoves ==
  ASSUME TypeInv, PlaceInv, NEW t \in Threads, NEW i \in 1..Len(TxQueue), TakePacket(t, i)
  PROVE  PlaceInv' /\ \A q \in Packets : Gone(q)' <=> Gone(q)
<1> USE DEF PlaceInv
<1> DEFINE p == TxQueue[i]
<1>1. /\ pc[t] = "take" /\ TxQueue' = RemoveIndex(TxQueue, i)
      /\ sendQueue' = [sendQueue EXCEPT ![t] = Append(sendQueue[t], p)]
      /\ UNCHANGED <<TxLookupQueue, lookupQueue, wire, completed, netbuf, sent, pPacket, pc>>
  BY DEF TakePacket, pipe
<1>2. /\ p \in Packets /\ p \in ElementsOf(TxQueue)
      /\ ElementsOf(TxQueue') = ElementsOf(TxQueue) \ {p} /\ Uniq(TxQueue')
  <2>1. TxQueue \in Seq(Packets) /\ Uniq(TxQueue)  BY Lists DEF ListsOK
  <2>2. p \in Packets  BY <2>1
  <2> QED  BY <1>1, <2>1, <2>2, RemoveLists
<1> HIDE DEF p
<1>3. /\ p \notin ElementsOf(TxLookupQueue) /\ \A u \in Threads : ~Has(u, p)
      /\ p \notin ElementsOf(wire)
  BY <1>2 DEF Apart, WireOK
<1>4. /\ sendQueue'[t] = Append(sendQueue[t], p)
      /\ \A u \in Threads : u # t => sendQueue'[u] = sendQueue[u]
  BY <1>1, Lists
<1>5. ElementsOf(sendQueue'[t]) = ElementsOf(sendQueue[t]) \cup {p} /\ Uniq(sendQueue'[t])
  <2>1. sendQueue[t] \in Seq(Packets) /\ Uniq(sendQueue[t])  BY Lists DEF ListsOK
  <2>2. p \notin ElementsOf(sendQueue[t])  BY <1>3 DEF Has
  <2> QED  BY <1>2, <1>4, <2>1, <2>2, AppendLists
<1>6. \A u \in Threads, q \in Packets : Pointed(u, q)' <=> Pointed(u, q)
  BY <1>1 DEF Pointed
<1>7. \A u \in Threads, q \in Packets : Has(u, q)' <=> Has(u, q) \/ (u = t /\ q = p)
  BY <1>1, <1>4, <1>5, <1>6 DEF Has
<1>8. ListsOK'
  BY <1>1, <1>2, <1>4, <1>5 DEF ListsOK
<1>9. Apart'
  <2> SUFFICES ASSUME NEW q \in Packets
      PROVE
        /\ ~(q \in ElementsOf(TxQueue') /\ q \in ElementsOf(TxLookupQueue'))
        /\ \A u \in Threads : Has(u, q)' => /\ q \notin ElementsOf(TxQueue')
                                            /\ q \notin ElementsOf(TxLookupQueue')
        /\ \A u, v \in Threads : Has(u, q)' /\ Has(v, q)' => u = v
        /\ \A u \in Threads :
              /\ ~(q \in ElementsOf(sendQueue'[u]) /\ q \in ElementsOf(lookupQueue'[u]))
              /\ ~(q \in ElementsOf(sendQueue'[u]) /\ Pointed(u, q)')
              /\ ~(q \in ElementsOf(lookupQueue'[u]) /\ Pointed(u, q)')
    BY DEF Apart
  <2>1. CASE q = p
    BY <1>1, <1>2, <1>3, <1>4, <1>5, <1>6, <1>7, <2>1 DEF Has
  <2>2. CASE q # p
    BY <1>1, <1>2, <1>4, <1>5, <1>6, <1>7, <2>2 DEF Apart
  <2> QED  BY <2>1, <2>2
<1>10. \A q \in Packets : Owned(q)' <=> Owned(q)
  BY <1>1, <1>2, <1>7 DEF Owned
<1>11. OwnedOK' /\ SentOK' /\ \A q \in Packets : Gone(q)' <=> Gone(q)
  BY <1>1, <1>10 DEF OwnedOK, Gone, SentOK
<1>12. WireOK'
  BY <1>1, <1>2, <1>3, <1>4, <1>5, <1>11, Lists DEF WireOK
<1>13. HandOK'
  <2>1. "take" \in DrainPcs \ Empty  BY DEF DrainPcs, Empty
  <2> QED  BY <1>1, <1>4, <2>1 DEF HandOK, OnLookup
<1> QED  BY <1>8, <1>9, <1>11, <1>12, <1>13

\* htc_issue_packets stores the next packet of the local queue in the lookup
\* queue before the copy engine sees it.
LEMMA IssueMoves ==
  ASSUME TypeInv, PlaceInv, NEW t \in Threads, IssueNext(t)
  PROVE  PlaceInv' /\ \A q \in Packets : Gone(q)' <=> Gone(q)
<1> USE DEF PlaceInv
<1>0. PICK p : p = Head(sendQueue[t])
  OBVIOUS
<1>1. /\ pc[t] = "issue" /\ sendQueue[t] # <<>>
      /\ pPacket' = [pPacket EXCEPT ![t] = p]
      /\ sendQueue' = [sendQueue EXCEPT ![t] = Tail(sendQueue[t])]
      /\ TxLookupQueue' = Append(TxLookupQueue, p)
      /\ pc' = [pc EXCEPT ![t] = "poll"]
      /\ UNCHANGED <<TxQueue, lookupQueue, wire, completed, netbuf, sent>>
  BY <1>0 DEF IssueNext, Goto, pipe, packet
<1>2. /\ p \in Packets /\ p \in ElementsOf(sendQueue[t])
      /\ ElementsOf(Tail(sendQueue[t])) = ElementsOf(sendQueue[t]) \ {p}
      /\ Uniq(Tail(sendQueue[t]))
  <2>1. sendQueue[t] \in Seq(Packets) /\ Uniq(sendQueue[t])  BY Lists DEF ListsOK
  <2>2. /\ p \in ElementsOf(sendQueue[t]) /\ p \in Packets
        /\ ElementsOf(sendQueue[t]) = ElementsOf(Tail(sendQueue[t])) \cup {p}
        /\ Uniq(Tail(sendQueue[t])) /\ p \notin ElementsOf(Tail(sendQueue[t]))
    BY <1>0, <1>1, <2>1, TailLists
  <2> QED  BY <2>2
<1>3. /\ sendQueue'[t] = Tail(sendQueue[t]) /\ pPacket'[t] = p /\ pc'[t] = "poll"
      /\ \A u \in Threads : u # t => /\ sendQueue'[u] = sendQueue[u]
                                     /\ pPacket'[u] = pPacket[u] /\ pc'[u] = pc[u]
  BY <1>1, Lists
<1>4. /\ p \notin ElementsOf(TxQueue) /\ p \notin ElementsOf(TxLookupQueue)
      /\ \A u \in Threads : u # t => ~Has(u, p)
      /\ p \notin ElementsOf(lookupQueue[t]) /\ ~Pointed(t, p)
      /\ p \notin ElementsOf(wire) /\ Has(t, p)
  BY <1>2 DEF Apart, Has, WireOK
<1>5. ElementsOf(TxLookupQueue') = ElementsOf(TxLookupQueue) \cup {p} /\ Uniq(TxLookupQueue')
  <2>1. TxLookupQueue \in Seq(Packets) /\ Uniq(TxLookupQueue)  BY Lists DEF ListsOK
  <2> QED  BY <1>1, <1>2, <1>4, <2>1, AppendLists
<1>6. \A u \in Threads, q \in Packets : Pointed(u, q)' <=> Pointed(u, q)
  BY <1>1, <1>3 DEF Pointed
<1>7. \A u \in Threads, q \in Packets : Has(u, q)' <=> Has(u, q) /\ ~(u = t /\ q = p)
  BY <1>1, <1>2, <1>3, <1>4, <1>6 DEF Has
<1>8. ListsOK'
  BY <1>1, <1>2, <1>3, <1>5 DEF ListsOK
<1>9. Apart'
  <2> SUFFICES ASSUME NEW q \in Packets
      PROVE
        /\ ~(q \in ElementsOf(TxQueue') /\ q \in ElementsOf(TxLookupQueue'))
        /\ \A u \in Threads : Has(u, q)' => /\ q \notin ElementsOf(TxQueue')
                                            /\ q \notin ElementsOf(TxLookupQueue')
        /\ \A u, v \in Threads : Has(u, q)' /\ Has(v, q)' => u = v
        /\ \A u \in Threads :
              /\ ~(q \in ElementsOf(sendQueue'[u]) /\ q \in ElementsOf(lookupQueue'[u]))
              /\ ~(q \in ElementsOf(sendQueue'[u]) /\ Pointed(u, q)')
              /\ ~(q \in ElementsOf(lookupQueue'[u]) /\ Pointed(u, q)')
    BY DEF Apart
  <2>1. CASE q = p
    BY <1>1, <1>2, <1>3, <1>4, <1>6, <1>7, <2>1 DEF Has
  <2>2. CASE q # p
    BY <1>1, <1>2, <1>3, <1>5, <1>6, <1>7, <2>2 DEF Apart
  <2> QED  BY <2>1, <2>2
<1>10. \A q \in Packets : Owned(q)' <=> Owned(q)
  BY <1>1, <1>4, <1>5, <1>7 DEF Owned
<1>11. OwnedOK' /\ SentOK' /\ \A q \in Packets : Gone(q)' <=> Gone(q)
  BY <1>1, <1>10 DEF OwnedOK, Gone, SentOK
<1>12. WireOK'
  BY <1>1, <1>2, <1>3, <1>4, <1>11, Lists DEF WireOK
<1>13. HandOK'
  <2>1. "poll" \in DrainPcs \ Empty /\ "poll" \notin Entering \cup Completing
    BY DEF DrainPcs, Empty, Entering, Completing
  <2>2. lookupQueue[t] = <<>>  BY <1>1 DEF HandOK
  <2> SUFFICES ASSUME NEW u \in Threads
               PROVE  /\ pc'[u] \notin Sending \cup Entering => pPacket'[u] = NoPkt
                      /\ pc'[u] \in Sending =>
                            \/ pPacket'[u] \in ElementsOf(TxLookupQueue')
                            \/ \E v \in Threads : pPacket'[u] \in ElementsOf(lookupQueue[v])
                      /\ pc'[u] \in Completing => netbuf[u] \in ElementsOf(wire)
                      /\ sendQueue'[u] # <<>> => pc'[u] \in DrainPcs \ Empty
                      /\ lookupQueue[u] # <<>> => pc'[u] \in {"search", "r_search"}
                      /\ pc'[u] \in Entering /\ pPacket'[u] # NoPkt
                            => /\ OwnerOf[pPacket'[u]] = u
                               /\ \A q \in sent : OwnerOf[q] = u => q <= pPacket'[u]
    BY <1>1 DEF HandOK, OnLookup
  <2>3. CASE u = t  BY <1>3, <1>5, <2>1, <2>2, <2>3 DEF Sending
  <2>4. CASE u # t  BY <1>3, <1>5, <2>4 DEF HandOK, OnLookup
  <2> QED  BY <2>3, <2>4
<1> QED  BY <1>8, <1>9, <1>11, <1>12, <1>13

\* Nobody else sends while a thread does.
LEMMA SenderIsAlone ==
  ASSUME TypeInv, NEW t \in Threads, pc[t] \in DrainPcs, NEW u \in Threads, u # t
  PROVE  pc[u] \notin DrainPcs
BY DEF TypeInv, SingleDrainer

\* A packet in the hand of a sender is in no other hand and was not posted.
LEMMA HeadMoves ==
  ASSUME TypeInv, PlaceInv, NEW t \in Threads, hif_send_head(t)
  PROVE  PlaceInv' /\ \A q \in Packets : Gone(q)' <=> Gone(q)
<1> USE DEF PlaceInv
<1>1. CASE num_sends_allowed < 1
  <2>1. /\ pc[t] = "head" /\ pc' = [pc EXCEPT ![t] = "fail"]
        /\ UNCHANGED <<TxQueue, TxLookupQueue, sendQueue, lookupQueue, wire, sent, completed,
                       pPacket, netbuf>>
    BY <1>1 DEF hif_send_head, Goto, endpoint, packet
  <2>3. PICK l : l = "fail"  OBVIOUS
  <2>2. /\ l \in DrainPcs \cup OtherPcs /\ pc' = [pc EXCEPT ![t] = l]
        /\ {pc[t], l} \cap {"done", "r_done"} = {}
        /\ pc[t] \in Sending /\ l \in Sending /\ l \notin Completing
        /\ l \in DrainPcs \ Empty
    BY <2>1, <2>3 DEF DrainPcs, Empty, Sending, Completing
  <2>4. lookupQueue[t] = <<>>  BY <2>1 DEF HandOK
  <2> QED  BY <2>1, <2>2, <2>4, QuietMove
<1>2. CASE ~(num_sends_allowed < 1)
  <2> DEFINE p == pPacket[t]
  <2>0. PICK l \in {"put", "issue"} : pc' = [pc EXCEPT ![t] = l]
    BY <1>2 DEF hif_send_head, Goto
  <2>1. /\ pc[t] = "head" /\ pc' = [pc EXCEPT ![t] = l]
        /\ wire' = Append(wire, p) /\ pPacket' = [pPacket EXCEPT ![t] = NoPkt]
        /\ UNCHANGED <<TxQueue, TxLookupQueue, sendQueue, lookupQueue, sent, completed, netbuf>>
    BY <1>2, <2>0 DEF hif_send_head, endpoint, packet
  <2>2. p \in Packets /\ OnLookup(p)
    BY <2>1 DEF TypeInv, HandTypes, HandOK, Sending
  <2> HIDE DEF p
  <2>3. /\ pPacket'[t] = NoPkt /\ pc'[t] = l /\ l \in {"put", "issue"}
        /\ \A u \in Threads : u # t => pPacket'[u] = pPacket[u] /\ pc'[u] = pc[u]
    BY <2>1, Lists
  <2>4. p \notin ElementsOf(wire)
    BY DEF WireOK, p
  <2>5. ElementsOf(wire') = ElementsOf(wire) \cup {p} /\ Uniq(wire')
    <3>1. wire \in Seq(Packets) /\ Uniq(wire)  BY Lists DEF ListsOK
    <3> QED  BY <2>1, <2>2, <2>4, <3>1, AppendLists
  <2>6. Owned(p) /\ p \in sent /\ ~Gone(p)
    BY <2>2 DEF OnLookup, Owned, Has, OwnedOK, Gone
  <2>7. p \notin ElementsOf(TxQueue) /\ \A u \in Threads : p \notin ElementsOf(sendQueue[u])
    BY <2>2 DEF OnLookup, Apart, Has
  <2>8. \A u \in Threads : u # t => pPacket[u] # p
    <3> SUFFICES ASSUME NEW u \in Threads, u # t, pPacket[u] = p PROVE FALSE
      OBVIOUS
    <3>1. pc[u] \notin DrainPcs  BY <2>1, SenderIsAlone DEF DrainPcs
    <3>2. pc[u] \in Entering
      BY <2>2, <3>1, Lists DEF HandOK, Sending, DrainPcs
    <3>3. Pointed(u, p)  BY <3>2 DEF Pointed, Entering
    <3> QED  BY <2>2, <3>3 DEF OnLookup, Apart, Has
  <2>9. \A u \in Threads, q \in Packets : Pointed(u, q)' <=> Pointed(u, q)
    BY <2>1, <2>3 DEF Pointed
  <2>10. \A u \in Threads, q \in Packets : Has(u, q)' <=> Has(u, q)
    BY <2>1, <2>9 DEF Has
  <2>11. Apart' /\ ListsOK'
    BY <2>1, <2>5, <2>9, <2>10 DEF Apart, ListsOK
  <2>12. \A q \in Packets : Owned(q)' <=> Owned(q)
    BY <2>1, <2>10 DEF Owned
  <2>13. OwnedOK' /\ SentOK' /\ \A q \in Packets : Gone(q)' <=> Gone(q)
    BY <2>1, <2>12 DEF OwnedOK, Gone, SentOK
  <2>14. WireOK'
    BY <2>1, <2>2, <2>3, <2>5, <2>6, <2>7, <2>8, <2>13, Lists DEF WireOK
  <2>15. HandOK'
    <3>1. l \in DrainPcs \ Empty /\ l \notin Entering \cup Completing \cup Sending
      BY <2>3 DEF DrainPcs, Empty, Entering, Completing, Sending
    <3>2. lookupQueue[t] = <<>>  BY <2>1 DEF HandOK
    <3> QED  BY <2>1, <2>3, <2>5, <3>1, <3>2 DEF HandOK, OnLookup
  <2> QED  BY <2>11, <2>13, <2>14, <2>15
<1> QED  BY <1>1, <1>2

\* A packet that waits for its completion is nowhere else.
LEMMA LookupOnly ==
  ASSUME Apart, OwnedOK, NEW p \in Packets, OnLookup(p)
  PROVE  /\ p \notin ElementsOf(TxQueue)
         /\ \A u \in Threads : p \notin ElementsOf(sendQueue[u]) /\ ~Pointed(u, p)
         /\ Owned(p) /\ p \in sent /\ completed[p] = 0
BY DEF Apart, Has, OnLookup, Owned, OwnedOK

\* The refused packet returns to the head of the local queue.
LEMMA FailMoves ==
  ASSUME TypeInv, PlaceInv, NEW t \in Threads, IssueFailed(t)
  PROVE  PlaceInv' /\ \A q \in Packets : Gone(q)' <=> Gone(q)
<1> USE DEF PlaceInv
<1>0. PICK p : p = pPacket[t]
  OBVIOUS
<1>1. /\ pc[t] = "fail" /\ TxLookupQueue' = Without(TxLookupQueue, p)
      /\ lookupQueue' = [u \in Threads |-> Without(lookupQueue[u], p)]
      /\ sendQueue' = [sendQueue EXCEPT ![t] = <<p>> \o sendQueue[t]]
      /\ pPacket' = [pPacket EXCEPT ![t] = NoPkt] /\ pc' = [pc EXCEPT ![t] = "splice"]
      /\ UNCHANGED <<TxQueue, wire, completed, netbuf, sent>>
  BY <1>0 DEF IssueFailed, Goto, pipe, packet
<1>2. p \in Packets /\ OnLookup(p) /\ p \notin ElementsOf(wire)
  BY <1>0, <1>1 DEF TypeInv, HandTypes, HandOK, Sending, WireOK
<1>3. /\ p \notin ElementsOf(TxQueue)
      /\ \A u \in Threads : p \notin ElementsOf(sendQueue[u]) /\ ~Pointed(u, p)
      /\ Owned(p)
  BY <1>2, LookupOnly
<1>4. /\ sendQueue'[t] = <<p>> \o sendQueue[t] /\ pPacket'[t] = NoPkt /\ pc'[t] = "splice"
      /\ \A u \in Threads : u # t => /\ sendQueue'[u] = sendQueue[u]
                                     /\ pPacket'[u] = pPacket[u] /\ pc'[u] = pc[u]
  BY <1>1, Lists
<1>5. ElementsOf(sendQueue'[t]) = ElementsOf(sendQueue[t]) \cup {p} /\ Uniq(sendQueue'[t])
  <2>1. sendQueue[t] \in Seq(Packets) /\ Uniq(sendQueue[t])  BY Lists DEF ListsOK
  <2>2. <<p>> \in Seq(Packets) /\ ElementsOf(<<p>>) = {p} /\ Uniq(<<p>>)
    BY <1>2 DEF ElementsOf, Uniq
  <2>3. ElementsOf(<<p>>) \cap ElementsOf(sendQueue[t]) = {}  BY <1>3, <2>2
  <2>4. /\ ElementsOf(<<p>> \o sendQueue[t]) = ElementsOf(<<p>>) \cup ElementsOf(sendQueue[t])
        /\ Uniq(<<p>> \o sendQueue[t])
    BY <2>1, <2>2, <2>3, ConcatLists
  <2> QED  BY <1>4, <2>2, <2>4
<1>6. /\ ElementsOf(TxLookupQueue') = ElementsOf(TxLookupQueue) \ {p} /\ Uniq(TxLookupQueue')
      /\ \A u \in Threads : /\ ElementsOf(lookupQueue'[u]) = ElementsOf(lookupQueue[u]) \ {p}
                            /\ Uniq(lookupQueue'[u])
                            /\ lookupQueue[u] = <<>> => lookupQueue'[u] = <<>>
  <2>1. TxLookupQueue \in Seq(Packets) /\ Uniq(TxLookupQueue)  BY Lists DEF ListsOK
  <2>2. ASSUME NEW u \in Threads
        PROVE  /\ ElementsOf(lookupQueue'[u]) = ElementsOf(lookupQueue[u]) \ {p}
               /\ Uniq(lookupQueue'[u])
               /\ lookupQueue[u] = <<>> => lookupQueue'[u] = <<>>
    <3>1. lookupQueue[u] \in Seq(Packets) /\ Uniq(lookupQueue[u])  BY Lists DEF ListsOK
    <3>2. lookupQueue'[u] = Without(lookupQueue[u], p)  BY <1>1
    <3>3. lookupQueue[u] = <<>> => lookupQueue'[u] = <<>>
      BY <3>2 DEF Without, ElementsOf
    <3> QED  BY <3>1, <3>2, <3>3, WithoutLists
  <2> QED  BY <1>1, <2>1, <2>2, WithoutLists
<1>7. \A u \in Threads, q \in Packets : Pointed(u, q)' <=> Pointed(u, q)
  BY <1>1, <1>4 DEF Pointed
<1>8. \A u \in Threads, q \in Packets :
         Has(u, q)' <=> (Has(u, q) /\ q # p) \/ (u = t /\ q = p)
  BY <1>3, <1>4, <1>5, <1>6, <1>7 DEF Has
<1>9. ListsOK'
  BY <1>1, <1>4, <1>5, <1>6 DEF ListsOK
<1>10. Apart'
  <2> SUFFICES ASSUME NEW q \in Packets
      PROVE
        /\ ~(q \in ElementsOf(TxQueue') /\ q \in ElementsOf(TxLookupQueue'))
        /\ \A u \in Threads : Has(u, q)' => /\ q \notin ElementsOf(TxQueue')
                                            /\ q \notin ElementsOf(TxLookupQueue')
        /\ \A u, v \in Threads : Has(u, q)' /\ Has(v, q)' => u = v
        /\ \A u \in Threads :
              /\ ~(q \in ElementsOf(sendQueue'[u]) /\ q \in ElementsOf(lookupQueue'[u]))
              /\ ~(q \in ElementsOf(sendQueue'[u]) /\ Pointed(u, q)')
              /\ ~(q \in ElementsOf(lookupQueue'[u]) /\ Pointed(u, q)')
    BY DEF Apart
  <2>1. CASE q = p
    BY <1>1, <1>3, <1>6, <1>7, <1>8, <2>1
  <2>2. CASE q # p
    <3>2. \A u \in Threads : Has(u, q)' <=> Has(u, q)  BY <1>8, <2>2
    <3>3. /\ ~(q \in ElementsOf(TxQueue') /\ q \in ElementsOf(TxLookupQueue'))
          /\ \A u \in Threads : Has(u, q)' => /\ q \notin ElementsOf(TxQueue')
                                              /\ q \notin ElementsOf(TxLookupQueue')
      BY <1>1, <1>6, <3>2 DEF Apart
    <3>4. \A u, v \in Threads : Has(u, q)' /\ Has(v, q)' => u = v
      BY <3>2 DEF Apart
    <3>5. \A u \in Threads :
              /\ ~(q \in ElementsOf(sendQueue'[u]) /\ q \in ElementsOf(lookupQueue'[u]))
              /\ ~(q \in ElementsOf(sendQueue'[u]) /\ Pointed(u, q)')
              /\ ~(q \in ElementsOf(lookupQueue'[u]) /\ Pointed(u, q)')
      BY <1>4, <1>5, <1>6, <1>7, <2>2 DEF Apart
    <3> QED  BY <3>3, <3>4, <3>5
  <2> QED  BY <2>1, <2>2
<1>11. \A q \in Packets : Owned(q)' <=> Owned(q)
  BY <1>1, <1>3, <1>6, <1>8 DEF Owned
<1>12. OwnedOK' /\ SentOK' /\ \A q \in Packets : Gone(q)' <=> Gone(q)
  BY <1>1, <1>11 DEF OwnedOK, Gone, SentOK
<1>13. WireOK'
  BY <1>1, <1>2, <1>4, <1>5, <1>12, Lists, ZenonT(30) DEF WireOK
<1>14. HandOK'
  <2>1. "splice" \in DrainPcs \ Empty /\ "splice" \notin Entering \cup Completing \cup Sending
    BY DEF DrainPcs, Empty, Entering, Completing, Sending
  <2>2. lookupQueue[t] = <<>>  BY <1>1 DEF HandOK
  <2> SUFFICES ASSUME NEW u \in Threads
               PROVE  /\ pc'[u] \notin Sending \cup Entering => pPacket'[u] = NoPkt
                      /\ pc'[u] \notin Sending
                      /\ pc'[u] \in Completing => netbuf[u] \in ElementsOf(wire)
                      /\ sendQueue'[u] # <<>> => pc'[u] \in DrainPcs \ Empty
                      /\ lookupQueue'[u] # <<>> => pc'[u] \in {"search", "r_search"}
                      /\ pc'[u] \in Entering /\ pPacket'[u] # NoPkt
                            => /\ OwnerOf[pPacket'[u]] = u
                               /\ \A q \in sent : OwnerOf[q] = u => q <= pPacket'[u]
    BY <1>1 DEF HandOK
  <2>3. CASE u = t  BY <1>4, <1>6, <2>1, <2>2, <2>3
  <2>4. CASE u # t
    <3>1. pc[u] \notin Sending
      BY <1>1, <2>4, SenderIsAlone DEF DrainPcs, Sending
    <3> QED  BY <1>4, <1>6, <2>4, <3>1 DEF HandOK
  <2> QED  BY <2>3, <2>4
<1> QED  BY <1>9, <1>10, <1>12, <1>13, <1>14

\* The unlocked splice lists no packet twice; it may drop packets that were
\* queued or in the refused batch.
LEMMA SpliceMoves ==
  ASSUME TypeInv, PlaceInv, NEW t \in Threads, SpliceWrite(t)
  PROVE  /\ PlaceInv'
         /\ \A q \in Packets : Gone(q) => Gone(q)'
         /\ \A q \in Packets : Gone(q)' => \/ Gone(q) \/ q \in ElementsOf(TxQueue)
                                           \/ q \in ElementsOf(sendQueue[t])
<1> USE DEF PlaceInv
<1>1. /\ pc[t] = "spliced" /\ pc' = [pc EXCEPT ![t] = "clear"]
      /\ TxQueue' \in {sendQueue[t] \o TxQueue, sendQueue[t], TxQueue}
      /\ sendQueue' = [sendQueue EXCEPT ![t] = <<>>]
      /\ UNCHANGED <<TxLookupQueue, lookupQueue, wire, completed, netbuf, sent, pPacket>>
  BY DEF SpliceWrite, Goto, ToHead, pipe, packet
<1>2. /\ sendQueue'[t] = <<>> /\ pc'[t] = "clear"
      /\ \A u \in Threads : u # t => sendQueue'[u] = sendQueue[u] /\ pc'[u] = pc[u]
  BY <1>1, Lists
<1>3. /\ ElementsOf(TxQueue') \subseteq ElementsOf(TxQueue) \cup ElementsOf(sendQueue[t])
      /\ Uniq(TxQueue')
  <2>1. /\ TxQueue \in Seq(Packets) /\ Uniq(TxQueue)
        /\ sendQueue[t] \in Seq(Packets) /\ Uniq(sendQueue[t])
    BY Lists DEF ListsOK
  <2>2. ElementsOf(sendQueue[t]) \cap ElementsOf(TxQueue) = {}
    BY Lists DEF Apart, Has
  <2>3. /\ ElementsOf(sendQueue[t] \o TxQueue) = ElementsOf(TxQueue) \cup ElementsOf(sendQueue[t])
        /\ Uniq(sendQueue[t] \o TxQueue)
    BY <2>1, <2>2, ConcatLists
  <2>4. CASE TxQueue' = sendQueue[t] \o TxQueue  BY <2>3, <2>4
  <2>5. CASE TxQueue' = sendQueue[t]  BY <2>1, <2>5
  <2>6. CASE TxQueue' = TxQueue  BY <2>1, <2>6
  <2> QED  BY <1>1, <2>4, <2>5, <2>6
<1>4. ElementsOf(sendQueue'[t]) = {} /\ Uniq(sendQueue'[t])
  BY <1>2 DEF ElementsOf, Uniq
<1>5. \A u \in Threads, q \in Packets : Pointed(u, q)' <=> Pointed(u, q)
  BY <1>1, <1>2 DEF Pointed
<1>6. \A u \in Threads, q \in Packets : Has(u, q)' => Has(u, q)
  BY <1>1, <1>2, <1>4, <1>5 DEF Has
<1>7. \A u \in Threads, q \in Packets :
         Has(u, q) => Has(u, q)' \/ (u = t /\ q \in ElementsOf(sendQueue[t]))
  BY <1>1, <1>2, <1>5 DEF Has
<1>8. \A u \in Threads, q \in Packets :
         Has(u, q)' => q \notin ElementsOf(sendQueue[t])
  BY <1>1, <1>2, <1>4, <1>5 DEF Has, Apart
<1>9. ListsOK'
  BY <1>1, <1>2, <1>3, <1>4 DEF ListsOK
<1>10. Apart'
  <2> SUFFICES ASSUME NEW q \in Packets
      PROVE
        /\ ~(q \in ElementsOf(TxQueue') /\ q \in ElementsOf(TxLookupQueue'))
        /\ \A u \in Threads : Has(u, q)' => /\ q \notin ElementsOf(TxQueue')
                                            /\ q \notin ElementsOf(TxLookupQueue')
        /\ \A u, v \in Threads : Has(u, q)' /\ Has(v, q)' => u = v
        /\ \A u \in Threads :
              /\ ~(q \in ElementsOf(sendQueue'[u]) /\ q \in ElementsOf(lookupQueue'[u]))
              /\ ~(q \in ElementsOf(sendQueue'[u]) /\ Pointed(u, q)')
              /\ ~(q \in ElementsOf(lookupQueue'[u]) /\ Pointed(u, q)')
    BY DEF Apart
  <2>1. q \in ElementsOf(sendQueue[t]) => q \notin ElementsOf(TxLookupQueue)
    BY DEF Apart, Has
  <2>2. ~(q \in ElementsOf(TxQueue') /\ q \in ElementsOf(TxLookupQueue'))
    BY <1>1, <1>3, <2>1 DEF Apart
  <2>3. \A u \in Threads : Has(u, q)' => /\ q \notin ElementsOf(TxQueue')
                                         /\ q \notin ElementsOf(TxLookupQueue')
    BY <1>1, <1>3, <1>6, <1>8 DEF Apart
  <2>4. \A u, v \in Threads : Has(u, q)' /\ Has(v, q)' => u = v
    BY <1>6 DEF Apart
  <2>5. \A u \in Threads :
              /\ ~(q \in ElementsOf(sendQueue'[u]) /\ q \in ElementsOf(lookupQueue'[u]))
              /\ ~(q \in ElementsOf(sendQueue'[u]) /\ Pointed(u, q)')
              /\ ~(q \in ElementsOf(lookupQueue'[u]) /\ Pointed(u, q)')
    BY <1>1, <1>2, <1>4, <1>5 DEF Apart
  <2> QED  BY <2>2, <2>3, <2>4, <2>5
<1>11. \A q \in Packets : Owned(q)' => Owned(q)
  BY <1>1, <1>3, <1>6 DEF Owned, Has
<1>12. OwnedOK' /\ SentOK' /\ \A q \in Packets : Gone(q) => Gone(q)'
  BY <1>1, <1>11 DEF OwnedOK, Gone, SentOK
<1>13. ASSUME NEW q \in Packets, Gone(q)', ~Gone(q)
       PROVE  q \in ElementsOf(TxQueue) \/ q \in ElementsOf(sendQueue[t])
  <2>1. Owned(q) /\ ~Owned(q)'  BY <1>1, <1>13 DEF Gone
  <2> QED  BY <1>1, <1>7, <2>1 DEF Owned
<1>14. WireOK'
  <2> SUFFICES ASSUME NEW q \in ElementsOf(wire)
               PROVE  /\ q \in sent /\ ~Gone(q)' /\ q \notin ElementsOf(TxQueue')
                      /\ \A u \in Threads : q \notin ElementsOf(sendQueue'[u]) /\ pPacket[u] # q
    BY <1>1 DEF WireOK
  <2>1. q \in Packets  BY Lists
  <2> QED  BY <1>2, <1>3, <1>4, <1>13, <2>1 DEF WireOK
<1>15. HandOK'
  <2>1. "clear" \notin Entering \cup Completing \cup Sending
    BY DEF Entering, Completing, Sending
  <2>2. lookupQueue[t] = <<>> /\ pPacket[t] = NoPkt
    BY <1>1 DEF HandOK, Sending, Entering
  <2> QED  BY <1>1, <1>2, <2>1, <2>2 DEF HandOK, OnLookup
<1> QED  BY <1>9, <1>10, <1>12, <1>13, <1>14, <1>15

\* Where a completion goes on once its packet is settled.
LEMMA EndCompletionGoes ==
  ASSUME NEW t \in Threads, NEW reaping \in BOOLEAN, EndCompletion(t, reaping)
  PROVE  /\ netbuf' = [netbuf EXCEPT ![t] = NoPkt]
         /\ \E l \in {"r_free", "free", "free_queue", "enter"} :
               pc' = [pc EXCEPT ![t] = l] /\ (reaping <=> l = "r_free")
<1>1. CASE RecheckAfterCompletion /\ ~reaping
  BY <1>1 DEF EndCompletion, Goto, TrySendEntry
<1>2. CASE ~(RecheckAfterCompletion /\ ~reaping)
  <2>1. pc' = [pc EXCEPT ![t] = IF reaping THEN "r_free" ELSE "free"]
    BY <1>2 DEF EndCompletion, Goto
  <2> QED  BY <2>1 DEF EndCompletion
<1> QED  BY <1>1, <1>2

\* A lookup that finds nothing moves no packet.
LEMMA NotFoundMoves ==
  ASSUME TypeInv, PlaceInv, NEW t \in Threads, NEW reaping \in BOOLEAN,
         EndCompletion(t, reaping),
         reaping => pc[t] \in {"r_lookup", "r_search"},
         ~reaping => pc[t] \in {"lookup", "search"},
         UNCHANGED <<TxQueue, TxLookupQueue, sendQueue, lookupQueue, wire, sent, completed,
                     pPacket>>,
         lookupQueue[t] = <<>>
  PROVE  PlaceInv' /\ \A q \in Packets : Gone(q)' <=> Gone(q)
<1> USE DEF PlaceInv
<1>1. netbuf' = [netbuf EXCEPT ![t] = NoPkt]  BY EndCompletionGoes
<1>2. PICK l \in {"r_free", "free", "free_queue", "enter"} :
         pc' = [pc EXCEPT ![t] = l] /\ (reaping <=> l = "r_free")
  BY EndCompletionGoes
<1>3. l \in DrainPcs \cup OtherPcs /\ {pc[t], l} \cap {"done", "r_done"} = {} /\ l \notin Completing
  BY <1>2 DEF DrainPcs, OtherPcs, Completing
<1>4. \/ pc[t] \in Sending /\ l \in Sending
      \/ pPacket[t] = NoPkt /\ l \notin Sending
  <2>1. CASE reaping  BY <1>2, <2>1 DEF Sending
  <2>2. CASE ~reaping  BY <1>2, <2>2 DEF Sending, Entering, HandOK
  <2> QED  BY <2>1, <2>2
<1>5. l \in DrainPcs \ Empty \/ sendQueue[t] = <<>>
  BY <1>2 DEF DrainPcs, Empty, HandOK
<1> QED  BY <1>1, <1>2, <1>3, <1>4, <1>5, QuietStep

\* The packet at the head of the lookup queue is the one that completes.
LEMMA FoundMoves ==
  ASSUME TypeInv, PlaceInv, NEW t \in Threads, NEW l \in {"done", "r_done"},
         pc[t] \in {"lookup", "r_lookup", "search", "r_search"},
         l = "r_done" <=> pc[t] \in {"r_lookup", "r_search"},
         pc' = [pc EXCEPT ![t] = l],
         NEW p \in Packets, p = netbuf[t], OnLookup(p),
         UNCHANGED <<TxQueue, sendQueue, wire, sent, completed, pPacket, netbuf>>,
         lookupQueue' \in [Threads -> Seq(Packets)],
         Uniq(TxLookupQueue'), \A u \in Threads : Uniq(lookupQueue'[u]),
         lookupQueue'[t] = <<>>, \A u \in Threads : u # t => lookupQueue'[u] = lookupQueue[u],
         ElementsOf(TxLookupQueue') =
            (ElementsOf(TxLookupQueue) \cup ElementsOf(lookupQueue[t])) \ {p},
         p \in ElementsOf(TxLookupQueue) \/ p \in ElementsOf(lookupQueue[t])
  PROVE  PlaceInv' /\ \A q \in Packets : Gone(q)' <=> Gone(q)
<1> USE DEF PlaceInv
<1>1. /\ pc'[t] = l /\ \A u \in Threads : u # t => pc'[u] = pc[u]
  BY Lists
<1>2. /\ p \notin ElementsOf(TxQueue)
      /\ \A u \in Threads : p \notin ElementsOf(sendQueue[u]) /\ ~Pointed(u, p)
      /\ Owned(p)
  BY LookupOnly
<1>3. p \in ElementsOf(wire) /\ \A u \in Threads : pPacket[u] # p
  BY DEF HandOK, Completing, WireOK
<1>4. \A u \in Threads, q \in Packets : Pointed(u, q)' <=> Pointed(u, q) \/ (u = t /\ q = p)
  BY <1>1 DEF Pointed
<1>5. ElementsOf(lookupQueue'[t]) = {}  BY DEF ElementsOf
<1>6. \A u \in Threads : u # t => p \notin ElementsOf(lookupQueue[u])
  BY DEF Apart, Has
<1>7. ListsOK'  BY DEF ListsOK
<1>8. \A u \in Threads, q \in Packets :
         Has(u, q)' <=> \/ u = t /\ q = p
                        \/ Has(u, q) /\ ~(u = t /\ q \in ElementsOf(lookupQueue[t]))
  <2> SUFFICES ASSUME NEW u \in Threads, NEW q \in Packets
               PROVE Has(u, q)' <=> \/ u = t /\ q = p
                                    \/ Has(u, q) /\ ~(u = t /\ q \in ElementsOf(lookupQueue[t]))
    OBVIOUS
  <2>1. Has(u, q)' <=> \/ q \in ElementsOf(sendQueue[u]) \/ q \in ElementsOf(lookupQueue'[u])
                       \/ Pointed(u, q) \/ (u = t /\ q = p)
    BY <1>4 DEF Has
  <2>2. CASE u # t
    BY <2>1, <2>2 DEF Has
  <2>3. CASE u = t
    <3>1. Has(t, q)' <=> q \in ElementsOf(sendQueue[t]) \/ Pointed(t, q) \/ q = p
      BY <1>5, <2>1, <2>3
    <3>2. q \in ElementsOf(lookupQueue[t]) => q \notin ElementsOf(sendQueue[t]) /\ ~Pointed(t, q)
      BY DEF Apart
    <3> QED  BY <2>3, <3>1, <3>2 DEF Has
  <2> QED  BY <2>2, <2>3
<1>9. Apart'
  <2> SUFFICES ASSUME NEW q \in Packets
      PROVE
        /\ ~(q \in ElementsOf(TxQueue') /\ q \in ElementsOf(TxLookupQueue'))
        /\ \A u \in Threads : Has(u, q)' => /\ q \notin ElementsOf(TxQueue')
                                            /\ q \notin ElementsOf(TxLookupQueue')
        /\ \A u, v \in Threads : Has(u, q)' /\ Has(v, q)' => u = v
        /\ \A u \in Threads :
              /\ ~(q \in ElementsOf(sendQueue'[u]) /\ q \in ElementsOf(lookupQueue'[u]))
              /\ ~(q \in ElementsOf(sendQueue'[u]) /\ Pointed(u, q)')
              /\ ~(q \in ElementsOf(lookupQueue'[u]) /\ Pointed(u, q)')
    BY DEF Apart
  <2>1. q \in ElementsOf(lookupQueue[t]) => Has(t, q)
    BY DEF Has
  <2>2. CASE q = p
    <3>1. \A u \in Threads : Has(u, p)' => u = t
      <4> SUFFICES ASSUME NEW u \in Threads, Has(u, p)', u # t PROVE FALSE
        OBVIOUS
      <4>1. Has(u, p)  BY <1>8
      <4> QED  BY <1>2, <1>6, <4>1 DEF Has
    <3> QED  BY <1>2, <1>5, <1>6, <2>2, <3>1
  <2>3. CASE q # p
    <3>1. ~(q \in ElementsOf(TxQueue') /\ q \in ElementsOf(TxLookupQueue'))
      BY <2>1 DEF Apart
    <3>2. \A u \in Threads : Has(u, q)' => Has(u, q) /\ ~(u = t /\ q \in ElementsOf(lookupQueue[t]))
      BY <1>8, <2>3
    <3>3. \A u \in Threads : Has(u, q)' => /\ q \notin ElementsOf(TxQueue')
                                           /\ q \notin ElementsOf(TxLookupQueue')
      BY <2>1, <3>2 DEF Apart
    <3>4. \A u, v \in Threads : Has(u, q)' /\ Has(v, q)' => u = v
      BY <3>2 DEF Apart
    <3>5. \A u \in Threads :
              /\ ~(q \in ElementsOf(sendQueue'[u]) /\ q \in ElementsOf(lookupQueue'[u]))
              /\ ~(q \in ElementsOf(sendQueue'[u]) /\ Pointed(u, q)')
              /\ ~(q \in ElementsOf(lookupQueue'[u]) /\ Pointed(u, q)')
      BY <1>4, <1>5, <2>3 DEF Apart
    <3> QED  BY <3>1, <3>3, <3>4, <3>5
  <2> QED  BY <2>2, <2>3
<1>10. \A q \in Packets : Owned(q)' <=> Owned(q)
  <2> SUFFICES ASSUME NEW q \in Packets PROVE Owned(q)' <=> Owned(q)
    OBVIOUS
  <2>1. CASE q = p  BY <1>2, <1>8, <2>1 DEF Owned
  <2>2. CASE q # p
    <3>1. q \in ElementsOf(TxLookupQueue') <=>
            q \in ElementsOf(TxLookupQueue) \/ q \in ElementsOf(lookupQueue[t])
      BY <2>2
    <3>2. q \in ElementsOf(lookupQueue[t]) => Has(t, q)  BY DEF Has
    <3> QED  BY <1>8, <2>2, <3>1, <3>2 DEF Owned
  <2> QED  BY <2>1, <2>2
<1>11. OwnedOK' /\ SentOK' /\ \A q \in Packets : Gone(q)' <=> Gone(q)
  BY <1>10 DEF OwnedOK, Gone, SentOK
<1>12. WireOK'
  BY <1>11, Lists DEF WireOK
<1>13. HandOK'
  <2> SUFFICES ASSUME NEW u \in Threads
               PROVE  /\ pc'[u] \notin Sending \cup Entering => pPacket[u] = NoPkt
                      /\ pc'[u] \in Sending =>
                            \/ pPacket[u] \in ElementsOf(TxLookupQueue')
                            \/ \E v \in Threads : pPacket[u] \in ElementsOf(lookupQueue'[v])
                      /\ pc'[u] \in Completing => netbuf[u] \in ElementsOf(wire)
                      /\ sendQueue[u] # <<>> => pc'[u] \in DrainPcs \ Empty
                      /\ lookupQueue'[u] # <<>> => pc'[u] \in {"search", "r_search"}
                      /\ pc'[u] \in Entering /\ pPacket[u] # NoPkt
                            => /\ OwnerOf[pPacket[u]] = u
                               /\ \A q \in sent : OwnerOf[q] = u => q <= pPacket[u]
    BY DEF HandOK, OnLookup
  <2>1. /\ pc'[u] \in Sending <=> pc[u] \in Sending
        /\ pc'[u] \in Entering <=> pc[u] \in Entering
        /\ pc'[u] \in Completing <=> pc[u] \in Completing
        /\ pc'[u] \in DrainPcs \ Empty <=> pc[u] \in DrainPcs \ Empty
    <3>1. CASE u # t  BY <1>1, <3>1
    <3>2. CASE u = t
      BY <1>1, <3>2 DEF Sending, Entering, Completing, DrainPcs, Empty
    <3> QED  BY <3>1, <3>2
  <2>2. lookupQueue'[u] # <<>> => pc'[u] \in {"search", "r_search"}
    BY <1>1 DEF HandOK
  <2>3. pc[u] \in Sending => OnLookup(pPacket[u]) /\ pPacket[u] # p
    BY <1>3 DEF HandOK
  <2>4. pc[u] \in Sending =>
                            \/ pPacket[u] \in ElementsOf(TxLookupQueue')
                            \/ \E v \in Threads : pPacket[u] \in ElementsOf(lookupQueue'[v])
    BY <2>3 DEF OnLookup
  <2> QED  BY <2>1, <2>2, <2>4 DEF HandOK
<1> QED  BY <1>7, <1>9, <1>11, <1>12, <1>13

\* Packets move between the lookup queue and the local one of a thread.
LEMMA ShuffleMoves ==
  ASSUME TypeInv, PlaceInv, NEW t \in Threads, NEW l \in DrainPcs \cup OtherPcs,
         pc' = [pc EXCEPT ![t] = l], NEW n, netbuf' = [netbuf EXCEPT ![t] = n],
         UNCHANGED <<TxQueue, sendQueue, wire, sent, completed, pPacket>>,
         {pc[t], l} \cap {"done", "r_done"} = {},
         \/ pc[t] \in Sending /\ l \in Sending
         \/ pPacket[t] = NoPkt /\ l \notin Sending,
         l \in Completing => n \in ElementsOf(wire),
         l \in DrainPcs \ Empty \/ sendQueue[t] = <<>>,
         l \in {"search", "r_search"} \/ lookupQueue'[t] = <<>>,
         Uniq(TxLookupQueue'), Uniq(lookupQueue'[t]),
         \A u \in Threads : u # t => lookupQueue'[u] = lookupQueue[u],
         ElementsOf(TxLookupQueue') \cup ElementsOf(lookupQueue'[t]) =
            ElementsOf(TxLookupQueue) \cup ElementsOf(lookupQueue[t]),
         ElementsOf(TxLookupQueue') \cap ElementsOf(lookupQueue'[t]) = {}
  PROVE  PlaceInv' /\ \A q \in Packets : Gone(q)' <=> Gone(q)
<1> USE DEF PlaceInv
<1>1. /\ pc'[t] = l /\ netbuf'[t] = n
      /\ \A u \in Threads : u # t => pc'[u] = pc[u] /\ netbuf'[u] = netbuf[u]
  BY Lists
<1>2. Entering \cap Sending = {}
  BY DEF Entering, Sending
<1>3. \A u \in Threads, q \in Packets : Pointed(u, q)' <=> Pointed(u, q)
  <2> SUFFICES ASSUME NEW u \in Threads, NEW q \in Packets
               PROVE  Pointed(u, q)' <=> Pointed(u, q)
    OBVIOUS
  <2>1. CASE u # t  BY <1>1, <2>1 DEF Pointed
  <2>2. CASE u = t
    <3>1. ~Pointed(t, q)  BY <1>2, Lists DEF Pointed, Entering
    <3>2. ~Pointed(t, q)'  BY <1>1, <1>2, Lists DEF Pointed, Entering
    <3> QED  BY <2>2, <3>1, <3>2
  <2> QED  BY <2>1, <2>2
<1>4. ListsOK'  BY DEF ListsOK
<1>5. \A u \in Threads, q \in Packets : u # t => (Has(u, q)' <=> Has(u, q))
  BY <1>3 DEF Has
<1>6. \A q \in Packets :
         Has(t, q)' <=> \/ q \in ElementsOf(lookupQueue'[t])
                        \/ q \in ElementsOf(sendQueue[t]) \/ Pointed(t, q)
  BY <1>3 DEF Has
<1>7. Apart'
  <2> SUFFICES ASSUME NEW q \in Packets
      PROVE
        /\ ~(q \in ElementsOf(TxQueue') /\ q \in ElementsOf(TxLookupQueue'))
        /\ \A u \in Threads : Has(u, q)' => /\ q \notin ElementsOf(TxQueue')
                                            /\ q \notin ElementsOf(TxLookupQueue')
        /\ \A u, v \in Threads : Has(u, q)' /\ Has(v, q)' => u = v
        /\ \A u \in Threads :
              /\ ~(q \in ElementsOf(sendQueue'[u]) /\ q \in ElementsOf(lookupQueue'[u]))
              /\ ~(q \in ElementsOf(sendQueue'[u]) /\ Pointed(u, q)')
              /\ ~(q \in ElementsOf(lookupQueue'[u]) /\ Pointed(u, q)')
    BY DEF Apart
  <2>1. CASE q \in ElementsOf(TxLookupQueue) \/ q \in ElementsOf(lookupQueue[t])
    <3>1. /\ q \notin ElementsOf(TxQueue) /\ q \notin ElementsOf(sendQueue[t]) /\ ~Pointed(t, q)
          /\ \A u \in Threads : u # t => ~Has(u, q)
      BY <2>1 DEF Apart, Has
    <3>2. \A u \in Threads : Has(u, q)' => u = t /\ q \in ElementsOf(lookupQueue'[t])
      BY <1>5, <1>6, <3>1
    <3>3. \A u \in Threads : q \notin ElementsOf(sendQueue[u]) /\ ~Pointed(u, q)
      BY <3>1 DEF Has
    <3> QED  BY <1>3, <3>1, <3>2, <3>3
  <2>2. CASE ~(q \in ElementsOf(TxLookupQueue) \/ q \in ElementsOf(lookupQueue[t]))
    <3>1. q \notin ElementsOf(TxLookupQueue') /\ q \notin ElementsOf(lookupQueue'[t])
      BY <2>2
    <3>2. \A u \in Threads : Has(u, q)' <=> Has(u, q)
      BY <1>5, <1>6, <2>2, <3>1 DEF Has
    <3>3. \A u \in Threads : q \in ElementsOf(lookupQueue'[u]) => q \in ElementsOf(lookupQueue[u])
      BY <3>1
    <3>4. /\ ~(q \in ElementsOf(TxQueue') /\ q \in ElementsOf(TxLookupQueue'))
          /\ \A u \in Threads : Has(u, q)' => /\ q \notin ElementsOf(TxQueue')
                                              /\ q \notin ElementsOf(TxLookupQueue')
          /\ \A u, v \in Threads : Has(u, q)' /\ Has(v, q)' => u = v
      BY <3>1, <3>2 DEF Apart
    <3> QED  BY <1>3, <3>3, <3>4 DEF Apart
  <2> QED  BY <2>1, <2>2
<1>8. \A q \in Packets : Owned(q)' <=> Owned(q)
  <2> SUFFICES ASSUME NEW q \in Packets PROVE Owned(q)' <=> Owned(q)
    OBVIOUS
  <2>1. q \in ElementsOf(TxLookupQueue') \/ Has(t, q)' <=>
        q \in ElementsOf(TxLookupQueue) \/ Has(t, q)
    BY <1>6 DEF Has
  <2> QED  BY <1>5, <2>1 DEF Owned
<1>9. OwnedOK' /\ SentOK' /\ \A q \in Packets : Gone(q)' <=> Gone(q)
  BY <1>8 DEF OwnedOK, Gone, SentOK
<1>10. WireOK'
  BY <1>9, Lists DEF WireOK
<1>11. HandOK'
  <2> SUFFICES ASSUME NEW u \in Threads
               PROVE  /\ pc'[u] \notin Sending \cup Entering => pPacket[u] = NoPkt
                      /\ pc'[u] \in Sending =>
                            \/ pPacket[u] \in ElementsOf(TxLookupQueue')
                            \/ \E v \in Threads : pPacket[u] \in ElementsOf(lookupQueue'[v])
                      /\ pc'[u] \in Completing => netbuf'[u] \in ElementsOf(wire)
                      /\ sendQueue[u] # <<>> => pc'[u] \in DrainPcs \ Empty
                      /\ lookupQueue'[u] # <<>> => pc'[u] \in {"search", "r_search"}
                      /\ pc'[u] \in Entering /\ pPacket[u] # NoPkt
                            => /\ OwnerOf[pPacket[u]] = u
                               /\ \A q \in sent : OwnerOf[q] = u => q <= pPacket[u]
    BY DEF HandOK, OnLookup
  <2>1. pc'[u] \in Sending => pc[u] \in Sending
    BY <1>1
  <2>2. pc[u] \in Sending =>
                            \/ pPacket[u] \in ElementsOf(TxLookupQueue')
                            \/ \E v \in Threads : pPacket[u] \in ElementsOf(lookupQueue'[v])
    <3> SUFFICES ASSUME pc[u] \in Sending
                 PROVE  \/ pPacket[u] \in ElementsOf(TxLookupQueue')
                        \/ \E v \in Threads : pPacket[u] \in ElementsOf(lookupQueue'[v])
      OBVIOUS
    <3>1. OnLookup(pPacket[u])  BY DEF HandOK
    <3> QED  BY <3>1 DEF OnLookup
  <2>3. /\ pc'[u] \notin Sending \cup Entering => pPacket[u] = NoPkt
        /\ pc'[u] \in Completing => netbuf'[u] \in ElementsOf(wire)
        /\ sendQueue[u] # <<>> => pc'[u] \in DrainPcs \ Empty
        /\ lookupQueue'[u] # <<>> => pc'[u] \in {"search", "r_search"}
    BY <1>1 DEF HandOK
  <2>4. pc'[u] \in Entering /\ pPacket[u] # NoPkt
                            => /\ OwnerOf[pPacket[u]] = u
                               /\ \A q \in sent : OwnerOf[q] = u => q <= pPacket[u]
    BY <1>1, <1>2 DEF HandOK
  <2> QED  BY <2>1, <2>2, <2>3, <2>4
<1> QED  BY <1>4, <1>7, <1>9, <1>10, <1>11

\* The first part of htc_lookup_tx_packet.
LEMMA LookupHeadMoves ==
  ASSUME TypeInv, PlaceInv, NEW t \in Threads, LookupHead(t)
  PROVE  PlaceInv' /\ \A q \in Packets : Gone(q)' <=> Gone(q)
<1> USE DEF PlaceInv
<1>1. PICK reaping \in BOOLEAN : reaping = (pc[t] = "r_lookup")
  OBVIOUS
<1>2. /\ pc[t] \in {"lookup", "r_lookup"}
      /\ UNCHANGED <<TxQueue, sendQueue, wire, sent, completed, pPacket>>
      /\ lookupQueue[t] = <<>> /\ netbuf[t] \in Packets /\ netbuf[t] \in ElementsOf(wire)
  BY DEF LookupHead, pipe, packet, HandOK, TypeInv, HandTypes, Completing
<1>3. CASE TxLookupQueue = <<>> /\ EndCompletion(t, reaping)
           /\ UNCHANGED <<TxLookupQueue, lookupQueue>>
  BY <1>1, <1>2, <1>3, NotFoundMoves
<1>4. CASE /\ TxLookupQueue # <<>> /\ netbuf[t] = Head(TxLookupQueue)
           /\ TxLookupQueue' = Tail(TxLookupQueue)
           /\ Goto(t, IF reaping THEN "r_done" ELSE "done")
           /\ UNCHANGED <<lookupQueue, netbuf, owesSlot>>
  <2>1. PICK p \in Packets : p = netbuf[t]  BY <1>2
  <2>2. PICK l : l = IF reaping THEN "r_done" ELSE "done"  OBVIOUS
  <2>3. /\ l \in {"done", "r_done"} /\ pc' = [pc EXCEPT ![t] = l]
        /\ l = "r_done" <=> pc[t] \in {"r_lookup", "r_search"}
    BY <1>1, <1>2, <1>4, <2>2 DEF Goto
  <2>4. /\ ElementsOf(TxLookupQueue) = ElementsOf(TxLookupQueue') \cup {p}
        /\ p \in ElementsOf(TxLookupQueue) /\ p \notin ElementsOf(TxLookupQueue')
        /\ Uniq(TxLookupQueue')
    <3>1. TxLookupQueue \in Seq(Packets) /\ Uniq(TxLookupQueue)  BY Lists DEF ListsOK
    <3>2. /\ ElementsOf(TxLookupQueue) = ElementsOf(Tail(TxLookupQueue)) \cup {p}
          /\ p \in ElementsOf(TxLookupQueue) /\ p \notin ElementsOf(Tail(TxLookupQueue))
          /\ Uniq(Tail(TxLookupQueue))
      <4>1. p = Head(TxLookupQueue) /\ TxLookupQueue # <<>>  BY <1>4, <2>1
      <4> QED  BY <3>1, <4>1, TailLists
    <3> QED  BY <1>4, <3>2
  <2>5. ElementsOf(lookupQueue[t]) = {}  BY <1>2 DEF ElementsOf
  <2>6. OnLookup(p)  BY <2>4 DEF OnLookup
  <2>7. /\ lookupQueue' \in [Threads -> Seq(Packets)]
        /\ \A u \in Threads : Uniq(lookupQueue'[u])
        /\ lookupQueue'[t] = <<>> /\ \A u \in Threads : u # t => lookupQueue'[u] = lookupQueue[u]
    BY <1>2, <1>4, Lists DEF ListsOK
  <2>8. ElementsOf(TxLookupQueue') =
            (ElementsOf(TxLookupQueue) \cup ElementsOf(lookupQueue[t])) \ {p}
    BY <2>4, <2>5
  <2>9. UNCHANGED <<TxQueue, sendQueue, wire, sent, completed, pPacket, netbuf>>
    BY <1>2, <1>4
  <2> HIDE DEF PlaceInv
  <2> QED  BY <1>2, <2>1, <2>3, <2>4, <2>6, <2>7, <2>8, <2>9, FoundMoves
<1>5. CASE /\ TxLookupQueue # <<>> /\ netbuf[t] # Head(TxLookupQueue)
           /\ lookupQueue' = [lookupQueue EXCEPT ![t] = TxLookupQueue]
           /\ TxLookupQueue' = <<>>
           /\ Goto(t, IF reaping THEN "r_search" ELSE "search")
           /\ UNCHANGED <<netbuf, owesSlot>>
  <2>1. PICK n : n = netbuf[t]  OBVIOUS
  <2>2. PICK l : l = IF reaping THEN "r_search" ELSE "search"  OBVIOUS
  <2>3. /\ l \in {"search", "r_search"} /\ pc' = [pc EXCEPT ![t] = l]
        /\ l \in DrainPcs \cup OtherPcs
        /\ {pc[t], l} \cap {"done", "r_done"} = {}
    BY <1>1, <1>2, <1>5, <2>2 DEF Goto, DrainPcs, OtherPcs
  <2>4. netbuf' = [netbuf EXCEPT ![t] = n]  BY <1>5, <2>1, Lists
  <2>5. \/ pc[t] \in Sending /\ l \in Sending
        \/ pPacket[t] = NoPkt /\ l \notin Sending
    BY <1>1, <1>2, <2>2 DEF Sending, Entering, HandOK
  <2>6. l \in DrainPcs \ Empty \/ sendQueue[t] = <<>>
    BY <1>1, <1>2, <2>2 DEF DrainPcs, Empty, HandOK
  <2>7. /\ Uniq(TxLookupQueue') /\ lookupQueue'[t] = TxLookupQueue
        /\ \A u \in Threads : u # t => lookupQueue'[u] = lookupQueue[u]
        /\ ElementsOf(TxLookupQueue') = {} /\ ElementsOf(lookupQueue[t]) = {}
    BY <1>2, <1>5, Lists DEF Uniq, ElementsOf
  <2>8. /\ ElementsOf(TxLookupQueue') \cup ElementsOf(lookupQueue'[t]) =
            ElementsOf(TxLookupQueue) \cup ElementsOf(lookupQueue[t])
        /\ ElementsOf(TxLookupQueue') \cap ElementsOf(lookupQueue'[t]) = {}
        /\ Uniq(lookupQueue'[t])
    BY <2>7 DEF ListsOK
  <2> HIDE DEF PlaceInv
  <2> QED  BY <1>2, <2>1, <2>3, <2>4, <2>5, <2>6, <2>7, <2>8, ShuffleMoves
<1> QED  BY <1>1, <1>3, <1>4, <1>5 DEF LookupHead

\* The second part of htc_lookup_tx_packet.
LEMMA LookupSearchMoves ==
  ASSUME TypeInv, PlaceInv, NEW t \in Threads, LookupSearch(t)
  PROVE  PlaceInv' /\ \A q \in Packets : Gone(q)' <=> Gone(q)
<1> USE DEF PlaceInv
<1>1. PICK reaping \in BOOLEAN : reaping = (pc[t] = "r_search")
  OBVIOUS
<1>2. /\ pc[t] \in {"search", "r_search"}
      /\ TxLookupQueue' = Without(lookupQueue[t], netbuf[t]) \o TxLookupQueue
      /\ lookupQueue' = [lookupQueue EXCEPT ![t] = <<>>]
      /\ UNCHANGED <<TxQueue, sendQueue, wire, sent, completed, pPacket>>
      /\ netbuf[t] \in Packets
  BY DEF LookupSearch, pipe, packet, TypeInv, HandTypes, Completing
<1>3. PICK p \in Packets : p = netbuf[t]  BY <1>2
<1>4. /\ lookupQueue' \in [Threads -> Seq(Packets)] /\ lookupQueue'[t] = <<>>
      /\ \A u \in Threads : u # t => lookupQueue'[u] = lookupQueue[u]
      /\ ElementsOf(lookupQueue'[t]) = {} /\ \A u \in Threads : Uniq(lookupQueue'[u])
  <2>1. <<>> \in Seq(Packets) /\ ElementsOf(<<>>) = {} /\ Uniq(<<>>)
    BY DEF ElementsOf, Uniq
  <2>2. /\ lookupQueue' \in [Threads -> Seq(Packets)] /\ lookupQueue'[t] = <<>>
        /\ \A u \in Threads : u # t => lookupQueue'[u] = lookupQueue[u]
    BY <1>2, <2>1, Lists
  <2> QED  BY <2>1, <2>2 DEF ListsOK
<1>5. /\ ElementsOf(TxLookupQueue') = ElementsOf(TxLookupQueue) \cup (ElementsOf(lookupQueue[t]) \ {p})
      /\ Uniq(TxLookupQueue') /\ ElementsOf(TxLookupQueue) \cap ElementsOf(lookupQueue[t]) = {}
  <2>1. /\ TxLookupQueue \in Seq(Packets) /\ Uniq(TxLookupQueue)
        /\ lookupQueue[t] \in Seq(Packets) /\ Uniq(lookupQueue[t])
    BY Lists DEF ListsOK
  <2>2. PICK f : f = Without(lookupQueue[t], p)  OBVIOUS
  <2>3. f \in Seq(Packets) /\ ElementsOf(f) = ElementsOf(lookupQueue[t]) \ {p} /\ Uniq(f)
    BY <2>1, <2>2, WithoutType, WithoutLists
  <2>4. ElementsOf(TxLookupQueue) \cap ElementsOf(lookupQueue[t]) = {}
    BY Lists DEF Apart, Has
  <2>5. ElementsOf(f) \cap ElementsOf(TxLookupQueue) = {}
    BY <2>3, <2>4
  <2>6. ElementsOf(f \o TxLookupQueue) = ElementsOf(f) \cup ElementsOf(TxLookupQueue)
        /\ Uniq(f \o TxLookupQueue)
    BY <2>1, <2>3, <2>5, ConcatLists
  <2> QED  BY <1>2, <1>3, <2>2, <2>3, <2>4, <2>6
<1>6. CASE netbuf[t] \in ElementsOf(lookupQueue[t])
  <2>1. /\ Goto(t, IF reaping THEN "r_done" ELSE "done") /\ UNCHANGED netbuf
    BY <1>1, <1>6 DEF LookupSearch
  <2>2. PICK l : l = IF reaping THEN "r_done" ELSE "done"  OBVIOUS
  <2>3. /\ l \in {"done", "r_done"} /\ pc' = [pc EXCEPT ![t] = l]
        /\ l = "r_done" <=> pc[t] \in {"r_lookup", "r_search"}
    BY <1>1, <1>2, <2>1, <2>2 DEF Goto
  <2>4. p \in ElementsOf(lookupQueue[t]) /\ OnLookup(p) /\ p \notin ElementsOf(TxLookupQueue)
    BY <1>3, <1>5, <1>6 DEF OnLookup
  <2>5. ElementsOf(TxLookupQueue') =
            (ElementsOf(TxLookupQueue) \cup ElementsOf(lookupQueue[t])) \ {p}
    BY <1>5, <2>4
  <2>6. UNCHANGED <<TxQueue, sendQueue, wire, sent, completed, pPacket, netbuf>>
    BY <1>2, <2>1
  <2> HIDE DEF PlaceInv
  <2> QED  BY <1>2, <1>3, <1>4, <1>5, <2>3, <2>4, <2>5, <2>6, FoundMoves
<1>7. CASE netbuf[t] \notin ElementsOf(lookupQueue[t])
  <2>1. EndCompletion(t, reaping)
    BY <1>1, <1>7 DEF LookupSearch
  <2>2. PICK n : n = NoPkt  OBVIOUS
  <2>3. netbuf' = [netbuf EXCEPT ![t] = n]  BY <2>1, <2>2, EndCompletionGoes
  <2>4. PICK l \in {"r_free", "free", "free_queue", "enter"} :
           pc' = [pc EXCEPT ![t] = l] /\ (reaping <=> l = "r_free")
    BY <2>1, EndCompletionGoes
  <2>5. /\ l \in DrainPcs \cup OtherPcs /\ {pc[t], l} \cap {"done", "r_done"} = {}
        /\ l \notin Completing
    BY <1>2, <2>4 DEF DrainPcs, OtherPcs, Completing
  <2>6. \/ pc[t] \in Sending /\ l \in Sending
        \/ pPacket[t] = NoPkt /\ l \notin Sending
    BY <1>1, <1>2, <2>4 DEF Sending, Entering, HandOK
  <2>7. l \in DrainPcs \ Empty \/ sendQueue[t] = <<>>
    BY <1>1, <1>2, <2>4 DEF DrainPcs, Empty, HandOK
  <2>8. /\ ElementsOf(TxLookupQueue') \cup ElementsOf(lookupQueue'[t]) =
            ElementsOf(TxLookupQueue) \cup ElementsOf(lookupQueue[t])
        /\ ElementsOf(TxLookupQueue') \cap ElementsOf(lookupQueue'[t]) = {}
    BY <1>3, <1>4, <1>5, <1>7
  <2> HIDE DEF PlaceInv
  <2> QED  BY <1>2, <1>4, <1>5, <2>3, <2>4, <2>5, <2>6, <2>7, <2>8, ShuffleMoves
<1> QED  BY <1>6, <1>7

\* The completion handler hands its packet back: nobody has it any more.
LEMMA HandlerMoves ==
  ASSUME TypeInv, PlaceInv, NEW t \in Threads, htc_tx_completion_handler(t)
  PROVE  /\ PlaceInv' /\ \A q \in Packets : Gone(q)' <=> Gone(q)
         /\ netbuf[t] \in Packets /\ netbuf[t] \in ElementsOf(wire)
         /\ completed[netbuf[t]] = 0 /\ completed' = [completed EXCEPT ![netbuf[t]] = 1]
<1> USE DEF PlaceInv
<1>1. PICK reaping \in BOOLEAN : reaping = (pc[t] = "r_done")
  OBVIOUS
<1>2. /\ pc[t] \in {"done", "r_done"} /\ EndCompletion(t, reaping)
      /\ completed' = [completed EXCEPT ![netbuf[t]] = completed[netbuf[t]] + 1]
      /\ UNCHANGED <<TxQueue, TxLookupQueue, sendQueue, lookupQueue, wire, sent, pPacket>>
      /\ netbuf[t] \in Packets /\ netbuf[t] \in ElementsOf(wire)
  BY <1>1 DEF htc_tx_completion_handler, pipe, endpoint, TypeInv, HandTypes, Completing, HandOK
<1>3. PICK p \in Packets : p = netbuf[t]  BY <1>2
<1>4. PICK l \in {"r_free", "free", "free_queue", "enter"} :
         pc' = [pc EXCEPT ![t] = l] /\ (reaping <=> l = "r_free")
  BY <1>2, EndCompletionGoes
<1>5. /\ pc'[t] = l /\ netbuf'[t] = NoPkt
      /\ \A u \in Threads : u # t => pc'[u] = pc[u] /\ netbuf'[u] = netbuf[u]
  <2>1. netbuf' = [netbuf EXCEPT ![t] = NoPkt]  BY <1>2, EndCompletionGoes
  <2> QED  BY <1>4, <2>1, Lists
<1>6. Pointed(t, p) /\ Has(t, p) /\ Owned(p) /\ completed[p] = 0 /\ p \in sent
  BY <1>2, <1>3 DEF Pointed, Has, Owned, OwnedOK
<1>7. /\ completed'[p] = 1 /\ completed' = [completed EXCEPT ![netbuf[t]] = 1]
      /\ \A q \in Packets : q # p => completed'[q] = completed[q]
  BY <1>2, <1>3, <1>6, Lists
<1>8. \A u \in Threads, q \in Packets : Pointed(u, q)' <=> Pointed(u, q) /\ u # t
  <2> SUFFICES ASSUME NEW u \in Threads, NEW q \in Packets
               PROVE  Pointed(u, q)' <=> Pointed(u, q) /\ u # t
    OBVIOUS
  <2>1. CASE u # t  BY <1>2, <1>5, <2>1 DEF Pointed
  <2>2. CASE u = t
    <3>1. l \in Entering => pPacket[t] = NoPkt
      BY <1>1, <1>2, <1>4 DEF HandOK, Sending, Entering
    <3> QED  BY <1>2, <1>4, <1>5, <2>2, <3>1, Lists DEF Pointed, Entering
  <2> QED  BY <2>1, <2>2
<1>9. \A q \in Packets : Pointed(t, q) => q = p
  BY <1>2, <1>3 DEF Pointed
<1>10. \A u \in Threads, q \in Packets : Has(u, q)' <=> Has(u, q) /\ ~(u = t /\ q = p)
  <2> SUFFICES ASSUME NEW u \in Threads, NEW q \in Packets
               PROVE  Has(u, q)' <=> Has(u, q) /\ ~(u = t /\ q = p)
    OBVIOUS
  <2>1. CASE u # t  BY <1>2, <1>8, <2>1 DEF Has
  <2>2. CASE u = t /\ q = p  BY <1>2, <1>6, <1>8, <2>2 DEF Has, Apart
  <2>3. CASE u = t /\ q # p  BY <1>2, <1>8, <1>9, <2>3 DEF Has
  <2> QED  BY <2>1, <2>2, <2>3
<1>11. ListsOK' /\ Apart'
  BY <1>2, <1>8, <1>10 DEF ListsOK, Apart
<1>12. \A q \in Packets : Owned(q)' <=> Owned(q) /\ q # p
  <2> SUFFICES ASSUME NEW q \in Packets PROVE Owned(q)' <=> Owned(q) /\ q # p
    OBVIOUS
  <2>1. CASE q = p
    <3>1. /\ p \notin ElementsOf(TxQueue) /\ p \notin ElementsOf(TxLookupQueue)
          /\ \A u \in Threads : u # t => ~Has(u, p)
      BY <1>6 DEF Apart
    <3> QED  BY <1>2, <1>10, <2>1, <3>1 DEF Owned
  <2>2. CASE q # p  BY <1>2, <1>10, <2>2 DEF Owned
  <2> QED  BY <2>1, <2>2
<1>13. OwnedOK' /\ SentOK' /\ \A q \in Packets : Gone(q)' <=> Gone(q)
  <2>1. OwnedOK'
    BY <1>2, <1>6, <1>7, <1>12 DEF OwnedOK
  <2>2. \A q \in Packets : Gone(q)' <=> Gone(q)
    BY <1>2, <1>6, <1>7, <1>12 DEF Gone
  <2> QED  BY <1>2, <2>1, <2>2 DEF SentOK
<1>14. WireOK'
  BY <1>2, <1>13, Lists DEF WireOK
<1>15. HandOK'
  <2> SUFFICES ASSUME NEW u \in Threads
               PROVE  /\ pc'[u] \notin Sending \cup Entering => pPacket[u] = NoPkt
                      /\ pc'[u] \in Sending => OnLookup(pPacket[u])
                      /\ pc'[u] \in Completing => netbuf'[u] \in ElementsOf(wire)
                      /\ sendQueue[u] # <<>> => pc'[u] \in DrainPcs \ Empty
                      /\ lookupQueue[u] # <<>> => pc'[u] \in {"search", "r_search"}
                      /\ pc'[u] \in Entering /\ pPacket[u] # NoPkt
                            => /\ OwnerOf[pPacket[u]] = u
                               /\ \A q \in sent : OwnerOf[q] = u => q <= pPacket[u]
    BY <1>2 DEF HandOK, OnLookup
  <2>1. CASE u # t  BY <1>5, <2>1 DEF HandOK
  <2>2. CASE u = t
    <3>1. l \notin Completing  BY DEF Completing
    <3>2. IF reaping THEN pc[t] = "r_done" /\ l = "r_free"
                     ELSE pc[t] = "done" /\ l \in {"free", "free_queue", "enter"}
      BY <1>1, <1>2, <1>4
    <3>3. lookupQueue[t] = <<>>  BY <1>2 DEF HandOK
    <3>4. ~reaping => sendQueue[t] = <<>> /\ pPacket[t] = NoPkt
      BY <3>2 DEF HandOK, DrainPcs, Sending, Entering
    <3>5. reaping => /\ OnLookup(pPacket[t]) /\ l \notin Entering /\ l \in Sending
                     /\ l \in DrainPcs \ Empty
      BY <3>2 DEF HandOK, DrainPcs, Sending, Entering, Empty
    <3>6. ~reaping => l \notin Sending
      BY <3>2 DEF Sending
    <3> QED  BY <1>5, <2>2, <3>1, <3>3, <3>4, <3>5, <3>6
  <2> QED  BY <2>1, <2>2
<1> QED  BY <1>2, <1>3, <1>6, <1>7, <1>11, <1>13, <1>14, <1>15

\* A flush hands back what is queued.
LEMMA FlushMoves ==
  ASSUME TypeInv, PlaceInv, NEW t \in Threads, htc_flush_endpoint_tx(t)
  PROVE  /\ PlaceInv' /\ \A q \in Packets : Gone(q)' <=> Gone(q)
         /\ completed' = [p \in Packets |-> IF p \in ElementsOf(TxQueue) THEN 1 ELSE completed[p]]
         /\ \A p \in ElementsOf(TxQueue) : completed[p] = 0
<1> USE DEF PlaceInv
<1>1. /\ completed' = [p \in Packets |-> IF p \in ElementsOf(TxQueue) THEN completed[p] + 1
                                                                   ELSE completed[p]]
      /\ TxQueue' = <<>>
      /\ UNCHANGED <<TxLookupQueue, sendQueue, lookupQueue, wire, sent, pPacket, pc, netbuf>>
  BY DEF htc_flush_endpoint_tx, pipe, locals
<1>2. \A p \in ElementsOf(TxQueue) : p \in Packets /\ Owned(p) /\ completed[p] = 0 /\ p \in sent
  BY Lists DEF Owned, OwnedOK
<1>3. completed' = [p \in Packets |-> IF p \in ElementsOf(TxQueue) THEN 1 ELSE completed[p]]
  BY <1>1, <1>2
<1>4. ElementsOf(TxQueue') = {} /\ Uniq(TxQueue')
  BY <1>1 DEF ElementsOf, Uniq
<1>5. \A u \in Threads, q \in Packets : Pointed(u, q)' <=> Pointed(u, q)
  BY <1>1 DEF Pointed
<1>6. \A u \in Threads, q \in Packets : Has(u, q)' <=> Has(u, q)
  BY <1>1, <1>5 DEF Has
<1>7. ListsOK' /\ Apart'
  BY <1>1, <1>4, <1>5, <1>6 DEF ListsOK, Apart
<1>8. \A q \in Packets : Owned(q)' <=> Owned(q) /\ q \notin ElementsOf(TxQueue)
  BY <1>1, <1>4, <1>6 DEF Owned, Apart
<1>9. OwnedOK'
  BY <1>1, <1>2, <1>3, <1>8 DEF OwnedOK
<1>10. \A q \in Packets : Gone(q)' <=> Gone(q)
  BY <1>1, <1>2, <1>3, <1>8 DEF Gone
<1>11. WireOK'
  BY <1>1, <1>4, <1>10, Lists DEF WireOK
<1>12. HandOK' /\ SentOK'
  BY <1>1 DEF HandOK, OnLookup, SentOK
<1> QED  BY <1>2, <1>3, <1>7, <1>9, <1>10, <1>11, <1>12

\* The steps of the draining loop that move no packet.
LEMMA LoopIsQuiet ==
  ASSUME TypeInv, PlaceInv, NEW t \in Threads,
         \/ ReadFreeQueueNumber(t) \/ htc_kick_queues(t) \/ DrainLoop(t) \/ StopTaking(t)
         \/ IssueEnd(t)
         \/ RereadFreeQueueNumber(t) \/ Relock(t) \/ PutWhenIssued(t) \/ hif_send_complete_check(t)
         \/ SpliceRead(t) \/ ClearAfterFailure(t)
  PROVE  PlaceInv' /\ \A q \in Packets : Gone(q)' <=> Gone(q)
<1> USE DEF PlaceInv
<1>1. UNCHANGED <<TxQueue, TxLookupQueue, sendQueue, lookupQueue, wire, sent, completed,
                  pPacket, netbuf>>
  BY DEF ReadFreeQueueNumber, htc_kick_queues, DrainLoop, StopTaking, IssueEnd,
         RereadFreeQueueNumber, Relock, PutWhenIssued,
         hif_send_complete_check, SpliceRead, ClearAfterFailure, endpoint, pipe, packet, locals
<1>2. ASSUME NEW l \in DrainPcs \cup OtherPcs, pc' = [pc EXCEPT ![t] = l],
             \/ pc[t] \in {"idle", "free_queue"} /\ l \in {"free_queue", "enter"}
             \/ pc[t] = "poll" /\ l \in {"head", "reap"}
             \/ pc[t] \in {"splice", "take", "put"} /\ l \in {"spliced", "issue"}
             \/ /\ pc[t] \in {"drain", "take", "issue", "reread", "relock", "clear"}
                /\ l \in {"take", "idle", "free", "reread", "relock", "drain"}
                /\ sendQueue[t] = <<>>
      PROVE  PlaceInv' /\ \A q \in Packets : Gone(q)' <=> Gone(q)
  <2>1. {pc[t], l} \cap {"done", "r_done"} = {} /\ l \notin Completing
    BY <1>2 DEF Completing
  <2>2. \/ pc[t] \in Entering /\ l \in Entering
        \/ pc[t] \in Sending /\ l \in Sending
        \/ pPacket[t] = NoPkt /\ l \notin Sending
    BY <1>2 DEF Entering, Sending, HandOK
  <2>3. l \in DrainPcs \ Empty \/ sendQueue[t] = <<>>
    BY <1>2 DEF DrainPcs, Empty, HandOK
  <2>4. lookupQueue[t] = <<>>
    BY <1>2 DEF HandOK
  <2> HIDE DEF PlaceInv
  <2> QED  BY <1>1, <1>2, <2>1, <2>2, <2>3, <2>4, QuietMove
<1>3. pc[t] \in Empty => sendQueue[t] = <<>>
  BY DEF HandOK
<1>4. TrySendReturn(t) \in {"idle", "free"} /\ TrySendEntry \in {"enter", "free_queue"}
  BY DEF TrySendReturn, TrySendEntry
<1> USE DEF DrainPcs, OtherPcs
<1>5. CASE ReadFreeQueueNumber(t) \/ htc_kick_queues(t)
  BY <1>2, <1>4, <1>5 DEF ReadFreeQueueNumber, htc_kick_queues, Goto
<1>6. CASE DrainLoop(t)
  BY <1>2, <1>3, <1>4, <1>6 DEF DrainLoop, EndDrain, Goto, Empty
<1>7. CASE StopTaking(t)
  BY <1>2, <1>4, <1>7 DEF StopTaking, EndDrain, Goto
<1>8. CASE IssueEnd(t)
  BY <1>2, <1>8 DEF IssueEnd, Goto
<1>9. CASE RereadFreeQueueNumber(t)
  BY <1>2, <1>3, <1>9 DEF RereadFreeQueueNumber, Goto, Empty
<1>10. CASE Relock(t) \/ PutWhenIssued(t)
  BY <1>2, <1>3, <1>10 DEF Relock, PutWhenIssued, Goto, Empty
<1>11. CASE hif_send_complete_check(t)
  BY <1>2, <1>11 DEF hif_send_complete_check, Goto
<1>12. CASE SpliceRead(t)
  BY <1>2, <1>12 DEF SpliceRead, Goto
<1>13. CASE ClearAfterFailure(t)
  BY <1>2, <1>3, <1>4, <1>13 DEF ClearAfterFailure, EndDrain, Goto, Empty
<1> QED  BY <1>5, <1>6, <1>7, <1>8, <1>9, <1>10, <1>11, <1>12, <1>13

\* Taking a completion off the ring, freeing its slot, and a credit report.
LEMMA RingIsQuiet ==
  ASSUME TypeInv, PlaceInv, NEW t \in Threads,
         \/ ce_per_engine_service(t) \/ ce_per_engine_servicereap(t)
         \/ hif_pci_ce_send_done(t) \/ htc_process_credit_rpt(t)
  PROVE  PlaceInv' /\ \A q \in Packets : Gone(q)' <=> Gone(q)
<1> USE DEF PlaceInv
<1>1. UNCHANGED <<TxQueue, TxLookupQueue, sendQueue, lookupQueue, wire, sent, completed,
                  pPacket>>
  BY DEF ce_per_engine_service, ce_per_engine_servicereap, PopCompletion,
         hif_pci_ce_send_done, htc_process_credit_rpt, endpoint, pipe, packet, locals
<1>2. ASSUME NEW l \in DrainPcs \cup OtherPcs, pc' = [pc EXCEPT ![t] = l], UNCHANGED netbuf,
             \/ pc[t] = "reap" /\ l = "head"
             \/ pc[t] = "r_free" /\ l = "reap"
             \/ pc[t] \in {"idle", "free"} /\ l \in {"idle", "free_queue", "enter"}
      PROVE  PlaceInv' /\ \A q \in Packets : Gone(q)' <=> Gone(q)
  <2>1. {pc[t], l} \cap {"done", "r_done"} = {} /\ l \notin Completing
    BY <1>2 DEF Completing
  <2>2. \/ pc[t] \in Sending /\ l \in Sending
        \/ pPacket[t] = NoPkt /\ l \notin Sending
    BY <1>2 DEF Entering, Sending, HandOK
  <2>3. l \in DrainPcs \ Empty \/ sendQueue[t] = <<>>
    BY <1>2 DEF DrainPcs, Empty, HandOK
  <2>4. lookupQueue[t] = <<>>
    BY <1>2 DEF HandOK
  <2> HIDE DEF PlaceInv
  <2> QED  BY <1>1, <1>2, <2>1, <2>2, <2>3, <2>4, QuietMove
<1>3. ASSUME NEW l \in {"lookup", "r_lookup"}, PopCompletion(t, l),
             pc[t] = IF l = "lookup" THEN "idle" ELSE "reap"
      PROVE  PlaceInv' /\ \A q \in Packets : Gone(q)' <=> Gone(q)
  <2>1. PICK n : n = wire[sw_index + 1]  OBVIOUS
  <2>2. n \in ElementsOf(wire)
    <3>1. sw_index + 1 \in 1..Len(wire)
      BY <1>3, Lists DEF PopCompletion, TypeInv, CountTypes
    <3> QED  BY <2>1, <3>1 DEF ElementsOf
  <2>3. pc' = [pc EXCEPT ![t] = l] /\ netbuf' = [netbuf EXCEPT ![t] = n]
    BY <1>3, <2>1 DEF PopCompletion, Goto
  <2>4. {pc[t], l} \cap {"done", "r_done"} = {} /\ l \in DrainPcs \cup OtherPcs
    BY <1>3 DEF DrainPcs, OtherPcs
  <2>5. \/ pc[t] \in Sending /\ l \in Sending
        \/ pPacket[t] = NoPkt /\ l \notin Sending
    BY <1>3 DEF Entering, Sending, HandOK
  <2>6. l \in DrainPcs \ Empty \/ sendQueue[t] = <<>>
    BY <1>3 DEF DrainPcs, Empty, HandOK
  <2>7. lookupQueue[t] = <<>>
    BY <1>3 DEF HandOK
  <2> HIDE DEF PlaceInv
  <2> QED  BY <1>1, <2>2, <2>3, <2>4, <2>5, <2>6, <2>7, QuietStep
<1>4. CASE ce_per_engine_service(t)
  BY <1>3, <1>4 DEF ce_per_engine_service
<1>5. CASE ce_per_engine_servicereap(t)
  <2>1. CASE PopCompletion(t, "r_lookup")
    BY <1>3, <1>5, <2>1 DEF ce_per_engine_servicereap
  <2>2. CASE Goto(t, "head") /\ UNCHANGED locals
    BY <1>2, <1>5, <2>2 DEF ce_per_engine_servicereap, Goto, locals, DrainPcs, OtherPcs
  <2> QED  BY <1>5, <2>1, <2>2 DEF ce_per_engine_servicereap
<1>6. CASE hif_pci_ce_send_done(t)
  BY <1>2, <1>6 DEF hif_pci_ce_send_done, Goto, DrainPcs, OtherPcs
<1>7. CASE htc_process_credit_rpt(t)
  <2>1. CASE RecheckAfterReport
    BY <1>2, <1>7, <2>1
    DEF htc_process_credit_rpt, Goto, TrySendEntry, locals, DrainPcs, OtherPcs
  <2>2. CASE ~RecheckAfterReport
    <3> HIDE DEF PlaceInv
    <3>1. UNCHANGED <<TxQueue, TxLookupQueue, sendQueue, lookupQueue, wire, sent, completed,
                     pPacket, pc, netbuf>>
      BY <1>1, <1>7, <2>2 DEF htc_process_credit_rpt, locals
    <3> QED  BY <3>1, StillStep
  <2> QED  BY <2>1, <2>2
<1> QED  BY <1>4, <1>5, <1>6, <1>7

\* Every step keeps track of every packet, and only the unlocked splice can
\* lose one.
LEMMA PlaceStep ==
  ASSUME TypeInv, PlaceInv, [Next]_vars
  PROVE  /\ PlaceInv'
         /\ (\A t \in Threads : ~SpliceWrite(t)) => \A q \in Packets : Gone(q)' <=> Gone(q)
<1> DEFINE Kept == PlaceInv' /\ \A q \in Packets : Gone(q)' <=> Gone(q)
<1> HIDE DEF Kept
<1>1. ASSUME NEW t \in Senders, NEW p \in Packets, htc_send_pkt(t, p) PROVE Kept
  BY <1>1, SendMoves DEF Kept
<1>2. ASSUME NEW t \in Threads, ce_per_engine_service(t) \/ htc_process_credit_rpt(t) PROVE Kept
  BY <1>2, RingIsQuiet DEF Kept
<1>3. ASSUME NEW t \in Threads, htc_flush_endpoint_tx(t) PROVE Kept
  BY <1>3, FlushMoves DEF Kept
<1>4. ASSUME NEW t \in Threads, ThreadStep(t), ~SpliceWrite(t) PROVE Kept
  <2>1. CASE \/ ReadFreeQueueNumber(t) \/ htc_kick_queues(t) \/ DrainLoop(t)
             \/ StopTaking(t) \/ IssueEnd(t)
             \/ RereadFreeQueueNumber(t) \/ Relock(t) \/ PutWhenIssued(t)
             \/ hif_send_complete_check(t)
             \/ SpliceRead(t) \/ ClearAfterFailure(t)
    BY <2>1, LoopIsQuiet DEF Kept
  <2>2. CASE ce_per_engine_servicereap(t) \/ hif_pci_ce_send_done(t)
    BY <2>2, RingIsQuiet DEF Kept
  <2>3. CASE EnterTrySend(t)  BY <2>3, EnterMoves DEF Kept
  <2>4. CASE \E i \in 1..Len(TxQueue) : TakePacket(t, i)  BY <2>4, TakeMoves DEF Kept
  <2>5. CASE IssueNext(t)  BY <2>5, IssueMoves DEF Kept
  <2>6. CASE hif_send_head(t)  BY <2>6, HeadMoves DEF Kept
  <2>7. CASE IssueFailed(t)  BY <2>7, FailMoves DEF Kept
  <2>8. CASE LookupHead(t)  BY <2>8, LookupHeadMoves DEF Kept
  <2>9. CASE LookupSearch(t)  BY <2>9, LookupSearchMoves DEF Kept
  <2>10. CASE htc_tx_completion_handler(t)  BY <2>10, HandlerMoves DEF Kept
  <2> QED
    BY <1>4, <2>1, <2>2, <2>3, <2>4, <2>5, <2>6, <2>7, <2>8, <2>9, <2>10, Zenon DEF ThreadStep
<1>5. ASSUME TargetReceives \/ UNCHANGED vars PROVE Kept
  <2>1. UNCHANGED <<TxQueue, TxLookupQueue, sendQueue, lookupQueue, wire, sent, completed,
                     pPacket, pc, netbuf>>
    BY <1>5 DEF TargetReceives, vars, endpoint, pipe, packet, locals
  <2> QED  BY <2>1, StillStep DEF Kept
<1>6. ASSUME NEW t \in Threads, SpliceWrite(t) PROVE PlaceInv'
  BY <1>6, SpliceMoves
<1>7. Tasklets \subseteq Threads /\ Reporters \subseteq Threads /\ Workers \subseteq Threads
  BY DEF Threads
<1>8. Kept \/ \E t \in Threads : SpliceWrite(t)
  BY <1>1, <1>2, <1>3, <1>4, <1>5, <1>7, Zenon DEF Next
<1> QED  BY <1>6, <1>8 DEF Kept

\* Nothing is anywhere at first.
LEMMA InitPlaces == Init => PlaceInv
<1> SUFFICES ASSUME Init PROVE PlaceInv
  OBVIOUS
<1>1. /\ TxQueue = <<>> /\ TxLookupQueue = <<>> /\ wire = <<>> /\ sent = {}
      /\ \A t \in Threads : /\ sendQueue[t] = <<>> /\ lookupQueue[t] = <<>> /\ pc[t] = "idle"
                            /\ pPacket[t] = NoPkt /\ netbuf[t] = NoPkt
      /\ \A p \in Packets : completed[p] = 0
  BY DEF Init
<1>2. ElementsOf(<<>>) = {} /\ Uniq(<<>>)
  BY DEF ElementsOf, Uniq
<1>3. \A t \in Threads, p \in Packets : ~Pointed(t, p)
  BY <1>1 DEF Pointed
<1>4. ListsOK /\ Apart /\ OwnedOK
  BY <1>1, <1>2, <1>3 DEF ListsOK, Apart, OwnedOK, Owned, Has
<1>5. WireOK /\ HandOK /\ SentOK
  BY <1>1, <1>2 DEF WireOK, HandOK, SentOK, Sending, Completing, Entering
<1> QED  BY <1>4, <1>5 DEF PlaceInv

-----------------------------------------------------------------------------
(* The credits in packets, counted *)

\* The credits of the packets of C when packet p holds U[p] of them.
CreditsIn(C, U) == UNION {{p} \X (1..U[p]) : p \in C}

\* They are finitely many.
LEMMA CreditsFinite ==
  ASSUME NEW C, IsFiniteSet(C), NEW U, \A p \in C : U[p] \in Nat
  PROVE  IsFiniteSet(CreditsIn(C, U)) /\ Cardinality(CreditsIn(C, U)) \in Nat
<1> DEFINE T == {{p} \X (1..U[p]) : p \in C}
           f == [p \in C |-> {p} \X (1..U[p])]
<1>1. f \in Surjection(C, T)
  BY DEF Surjection
<1>2. IsFiniteSet(T)
  BY <1>1, FS_Surjection
<1>3. ASSUME NEW p \in C PROVE IsFiniteSet({p} \X (1..U[p]))
  <2>1. IsFiniteSet({p})  BY FS_Singleton
  <2>2. U[p] \in Int  OBVIOUS
  <2>3. IsFiniteSet(1..U[p])  BY <2>2, FS_Interval
  <2> QED  BY <2>1, <2>3, FS_Product
<1>4. \A x \in T : IsFiniteSet(x)
  BY <1>3
<1>5. IsFiniteSet(UNION T)
  BY <1>2, <1>4, FS_UNION
<1>6. UNION T = CreditsIn(C, U)
  BY DEF CreditsIn
<1> HIDE DEF T
<1> QED  BY <1>5, <1>6, FS_CardinalityType

\* Another packet adds its credits.
LEMMA CreditsAdd ==
  ASSUME NEW C, IsFiniteSet(C), NEW U, NEW V, NEW p, p \notin C, V[p] \in Nat,
         \A q \in C : U[q] \in Nat /\ V[q] = U[q]
  PROVE  Cardinality(CreditsIn(C \cup {p}, V)) = Cardinality(CreditsIn(C, U)) + V[p]
<1> DEFINE K == {p} \X (1..V[p])
<1>1. IsFiniteSet(K) /\ Cardinality(K) = V[p]
  <2>1. IsFiniteSet({p}) /\ Cardinality({p}) = 1  BY FS_Singleton
  <2>2. V[p] \in Int /\ 1 \in Int  OBVIOUS
  <2>3. IsFiniteSet(1..V[p]) /\ Cardinality(1..V[p]) = IF 1 > V[p] THEN 0 ELSE V[p] - 1 + 1
    BY <2>2, FS_Interval
  <2>4. Cardinality(1..V[p]) = V[p]  BY <2>3
  <2>5. IsFiniteSet(K) /\ Cardinality(K) = Cardinality({p}) * Cardinality(1..V[p])
    BY <2>1, <2>3, FS_Product
  <2> QED  BY <2>1, <2>4, <2>5
<1>2. IsFiniteSet(CreditsIn(C, U)) /\ Cardinality(CreditsIn(C, U)) \in Nat
  BY CreditsFinite
<1>3. CreditsIn(C \cup {p}, V) = CreditsIn(C, U) \cup K
  BY DEF CreditsIn
<1>4. CreditsIn(C, U) \cap K = {}
  BY DEF CreditsIn
<1> HIDE DEF K
<1>5. Cardinality(CreditsIn(C, U) \cap K) = 0
  BY <1>4, FS_EmptySet
<1>6. Cardinality(CreditsIn(C, U) \cup K)
         = Cardinality(CreditsIn(C, U)) + Cardinality(K) - Cardinality(CreditsIn(C, U) \cap K)
  BY <1>1, <1>2, FS_Union
<1>7. Cardinality(CreditsIn(C \cup {p}, V)) = Cardinality(CreditsIn(C, U)) + V[p] - 0
  BY <1>1, <1>3, <1>5, <1>6, Zenon
<1> QED  BY <1>2, <1>7

\* Fewer packets hold fewer credits.
LEMMA CreditsFewer ==
  ASSUME NEW C, IsFiniteSet(C), NEW U, \A p \in C : U[p] \in Nat, NEW D \in SUBSET C
  PROVE  Cardinality(CreditsIn(D, U)) <= Cardinality(CreditsIn(C, U))
<1>1. CreditsIn(D, U) \subseteq CreditsIn(C, U)
  BY DEF CreditsIn
<1> QED  BY <1>1, CreditsFinite, FS_Subset

-----------------------------------------------------------------------------
(* Which packets were charged *)

\* A packet taken from TxQueue whose send was not refused.
Loaded(p) == \E t \in Threads : p \in ElementsOf(sendQueue[t]) /\ pc[t] \notin {"splice", "spliced"}

\* The drainer is sending packet p.
InHand(p) == \E t \in Threads : pc[t] \in Sending /\ pPacket[t] = p

\* Packet p is on the ring and the target has not taken it yet.
Unsent(p) == \E i \in (hw_index + 1)..Len(wire) : wire[i] = p

\* The packets that hold credits, by where they are.
ChargedIs ==
    Charged = {p \in Packets : Loaded(p) \/ InHand(p) \/ Unsent(p)}

\* The definition of Charged in those words.
LEMMA ChargedAre == TypeInv /\ PlaceInv => ChargedIs
<1> SUFFICES ASSUME TypeInv, PlaceInv PROVE ChargedIs
  OBVIOUS
<1>1. \A t \in Threads : pc[t] \in DrainPcs /\ pPacket[t] # NoPkt <=> pc[t] \in Sending
  <2> SUFFICES ASSUME NEW t \in Threads
               PROVE  pc[t] \in DrainPcs /\ pPacket[t] # NoPkt <=> pc[t] \in Sending
    OBVIOUS
  <2>1. pc[t] \in Sending => pPacket[t] \in Packets  BY DEF TypeInv, HandTypes
  <2>2. Sending \subseteq DrainPcs /\ DrainPcs \cap Entering = {}
    BY DEF Sending, DrainPcs, Entering
  <2>3. pc[t] \notin Sending \cup Entering => pPacket[t] = NoPkt
    BY DEF PlaceInv, HandOK
  <2> QED  BY <2>1, <2>2, <2>3, Lists
<1>2. hw_index \in Nat /\ Len(wire) \in Nat /\ \A i \in (hw_index + 1)..Len(wire) : wire[i] \in Packets
  BY Lists DEF TypeInv, CountTypes
<1>3. \A t \in Threads : pc[t] \in Sending => pPacket[t] \in Packets
  BY DEF TypeInv, HandTypes
<1>4. Charged \subseteq {p \in Packets : Loaded(p) \/ InHand(p) \/ Unsent(p)}
  <2> SUFFICES ASSUME NEW p \in Charged
               PROVE  p \in Packets /\ (Loaded(p) \/ InHand(p) \/ Unsent(p))
    OBVIOUS
  <2>1. CASE \E t \in Threads : pc[t] \notin {"splice", "spliced"} /\ p \in ElementsOf(sendQueue[t])
    BY <2>1, Lists DEF Loaded
  <2>2. CASE \E t \in Threads : pc[t] \in DrainPcs /\ pPacket[t] # NoPkt /\ p = pPacket[t]
    BY <1>1, <1>3, <2>2 DEF InHand
  <2>3. CASE \E i \in (hw_index + 1)..Len(wire) : p = wire[i]
    BY <1>2, <2>3 DEF Unsent
  <2> QED  BY <2>1, <2>2, <2>3 DEF Charged
<1>5. ASSUME NEW p \in Packets, Loaded(p) \/ InHand(p) \/ Unsent(p) PROVE p \in Charged
  <2>1. CASE Loaded(p)  BY <2>1 DEF Loaded, Charged
  <2>2. CASE InHand(p)  BY <1>1, <2>2 DEF InHand, Charged
  <2>3. CASE Unsent(p)  BY <2>3 DEF Unsent, Charged
  <2> QED  BY <1>5, <2>1, <2>2, <2>3
<1> QED  BY <1>4, <1>5 DEF ChargedIs

\* Every charged packet holds a credit at least.
PaidOK == CreditFlow => \A p \in Charged : CreditsUsed[p] >= 1

\* All the credits: the endpoint's, the target's and those of the charged packets.
Total == TxCredits + fwCredits + Cardinality(CreditsIn(Charged, CreditsUsed))

\* A step that charges no packet and discharges none.
LEMMA SameCharge ==
  ASSUME TypeInv, PlaceInv, TypeInv', PlaceInv',
         \A p \in Packets : (Loaded(p) \/ InHand(p) \/ Unsent(p))'
                               <=> (Loaded(p) \/ InHand(p) \/ Unsent(p))
  PROVE  Charged' = Charged
<1>1. TypeInv' /\ PlaceInv' => ChargedIs'
  BY ChargedAre, PTL
<1>2. ChargedIs /\ ChargedIs'
  BY <1>1, ChargedAre
<1> QED  BY <1>2 DEF ChargedIs

\* Where the local queue is what was refused.
Splicing == {"splice", "spliced"}

\* The steps that neither charge nor discharge a packet, by what they do.
LEMMA QuietCharge ==
  ASSUME UNCHANGED <<sendQueue, pPacket, wire, hw_index>>,
         \A u \in Threads : pc'[u] \in Sending <=> pc[u] \in Sending,
         \A u \in Threads : \/ pc'[u] \in Splicing <=> pc[u] \in Splicing
                            \/ sendQueue[u] = <<>>
  PROVE  \A p \in Packets : (Loaded(p) \/ InHand(p) \/ Unsent(p))'
                               <=> (Loaded(p) \/ InHand(p) \/ Unsent(p))
<1> TAKE p \in Packets
<1>1. ElementsOf(<<>>) = {}  BY DEF ElementsOf
<1>2. Loaded(p)' <=> Loaded(p)
  BY <1>1 DEF Loaded, Splicing
<1>3. InHand(p)' <=> InHand(p)
  BY DEF InHand
<1>4. Unsent(p)' <=> Unsent(p)
  BY DEF Unsent
<1> QED  BY <1>2, <1>3, <1>4

\* A thread that moves from one place to another.
LEMMA MoveCharge ==
  ASSUME TypeInv, UNCHANGED <<sendQueue, pPacket, wire, hw_index>>,
         NEW t \in Threads, NEW l, pc' = [pc EXCEPT ![t] = l],
         l \in Sending <=> pc[t] \in Sending,
         \/ l \in Splicing <=> pc[t] \in Splicing
         \/ sendQueue[t] = <<>>
  PROVE  \A p \in Packets : (Loaded(p) \/ InHand(p) \/ Unsent(p))'
                               <=> (Loaded(p) \/ InHand(p) \/ Unsent(p))
<1>1. pc'[t] = l /\ \A u \in Threads : u # t => pc'[u] = pc[u]
  BY Lists
<1>2. \A u \in Threads : pc'[u] \in Sending <=> pc[u] \in Sending
  BY <1>1
<1>3. \A u \in Threads : \/ pc'[u] \in Splicing <=> pc[u] \in Splicing
                         \/ sendQueue[u] = <<>>
  BY <1>1
<1> QED  BY <1>2, <1>3, QuietCharge

\* Where the steps of the loop that move no packet lead.
LEMMA LoopGoes ==
  ASSUME NEW t \in Threads,
         \/ ReadFreeQueueNumber(t) \/ htc_kick_queues(t) \/ DrainLoop(t) \/ StopTaking(t)
         \/ IssueEnd(t)
         \/ RereadFreeQueueNumber(t) \/ Relock(t) \/ PutWhenIssued(t) \/ hif_send_complete_check(t)
         \/ SpliceRead(t) \/ ClearAfterFailure(t)
  PROVE  \E l : /\ pc' = [pc EXCEPT ![t] = l]
                /\ l \in Sending <=> pc[t] \in Sending
                /\ l \in Splicing <=> pc[t] \in Splicing
<1> USE DEF Sending, Splicing
<1>1. TrySendReturn(t) \in {"idle", "free"} /\ TrySendEntry \in {"enter", "free_queue"}
  BY DEF TrySendReturn, TrySendEntry
<1>2. CASE ReadFreeQueueNumber(t) \/ htc_kick_queues(t) \/ IssueEnd(t) \/ RereadFreeQueueNumber(t)
  BY <1>1, <1>2 DEF ReadFreeQueueNumber, htc_kick_queues, IssueEnd, RereadFreeQueueNumber, Goto
<1>3. CASE DrainLoop(t)
  BY <1>1, <1>3 DEF DrainLoop, EndDrain, Goto
<1>4. CASE StopTaking(t)
  BY <1>1, <1>4 DEF StopTaking, EndDrain, Goto
<1>5. CASE Relock(t) \/ PutWhenIssued(t) \/ hif_send_complete_check(t) \/ SpliceRead(t)
  BY <1>5 DEF Relock, PutWhenIssued, hif_send_complete_check, SpliceRead, Goto
<1>6. CASE ClearAfterFailure(t)
  BY <1>1, <1>6 DEF ClearAfterFailure, EndDrain, Goto
<1> QED  BY <1>2, <1>3, <1>4, <1>5, <1>6

\* The steps of the loop that move no packet charge none.
LEMMA LoopCharge ==
  ASSUME TypeInv, PlaceInv, NEW t \in Threads,
         \/ ReadFreeQueueNumber(t) \/ htc_kick_queues(t) \/ DrainLoop(t) \/ StopTaking(t)
         \/ IssueEnd(t)
         \/ RereadFreeQueueNumber(t) \/ Relock(t) \/ PutWhenIssued(t) \/ hif_send_complete_check(t)
         \/ SpliceRead(t) \/ ClearAfterFailure(t)
  PROVE  /\ UNCHANGED <<TxCredits, fwCredits, CreditsUsed>>
         /\ \A p \in Packets : (Loaded(p) \/ InHand(p) \/ Unsent(p))'
                               <=> (Loaded(p) \/ InHand(p) \/ Unsent(p))
<1>1. UNCHANGED <<sendQueue, pPacket, wire, hw_index, TxCredits, fwCredits, CreditsUsed>>
  BY DEF ReadFreeQueueNumber, htc_kick_queues, DrainLoop, StopTaking, IssueEnd,
         RereadFreeQueueNumber, Relock, PutWhenIssued,
         hif_send_complete_check, SpliceRead, ClearAfterFailure, endpoint, pipe, packet, locals,
         target
<1>2. \E l : /\ pc' = [pc EXCEPT ![t] = l]
             /\ l \in Sending <=> pc[t] \in Sending
             /\ l \in Splicing <=> pc[t] \in Splicing
  BY LoopGoes
<1> QED  BY <1>1, <1>2, MoveCharge

\* Where the steps of a completion lead.
LEMMA RingGoes ==
  ASSUME NEW t \in Threads,
         \/ ce_per_engine_service(t) \/ ce_per_engine_servicereap(t)
         \/ hif_pci_ce_send_done(t) \/ LookupHead(t) \/ LookupSearch(t)
         \/ htc_tx_completion_handler(t)
  PROVE  \E l : /\ pc' = [pc EXCEPT ![t] = l]
                /\ l \in Sending <=> pc[t] \in Sending
                /\ l \in Splicing <=> pc[t] \in Splicing
<1> USE DEF Sending, Splicing
<1>1. ASSUME NEW reaping \in BOOLEAN, EndCompletion(t, reaping),
             reaping => pc[t] \in {"r_lookup", "r_search", "r_done"},
             ~reaping => pc[t] \in {"lookup", "search", "done"}
      PROVE  \E l : /\ pc' = [pc EXCEPT ![t] = l]
                    /\ l \in Sending <=> pc[t] \in Sending
                    /\ l \in Splicing <=> pc[t] \in Splicing
  <2>1. PICK l \in {"r_free", "free", "free_queue", "enter"} :
           pc' = [pc EXCEPT ![t] = l] /\ (reaping <=> l = "r_free")
    BY <1>1, EndCompletionGoes
  <2> QED  BY <1>1, <2>1
<1>2. CASE ce_per_engine_service(t) \/ hif_pci_ce_send_done(t)
  BY <1>2 DEF ce_per_engine_service, PopCompletion, hif_pci_ce_send_done, Goto
<1>3. CASE ce_per_engine_servicereap(t)
  BY <1>3 DEF ce_per_engine_servicereap, PopCompletion, Goto
<1>4. CASE LookupHead(t)
  <2>1. PICK reaping \in BOOLEAN : reaping = (pc[t] = "r_lookup")  OBVIOUS
  <2>2. pc[t] \in {"lookup", "r_lookup"}  BY <1>4 DEF LookupHead
  <2>3. CASE EndCompletion(t, reaping)  BY <1>1, <2>1, <2>2, <2>3
  <2>4. CASE Goto(t, IF reaping THEN "r_done" ELSE "done")
    <3>1. PICK l : l = IF reaping THEN "r_done" ELSE "done"  OBVIOUS
    <3>2. /\ pc' = [pc EXCEPT ![t] = l]
          /\ l \in Sending <=> pc[t] \in Sending
          /\ l \in Splicing <=> pc[t] \in Splicing
      BY <2>1, <2>2, <2>4, <3>1 DEF Goto
    <3> QED  BY <3>2
  <2>5. CASE Goto(t, IF reaping THEN "r_search" ELSE "search")
    <3>1. PICK l : l = IF reaping THEN "r_search" ELSE "search"  OBVIOUS
    <3>2. /\ pc' = [pc EXCEPT ![t] = l]
          /\ l \in Sending <=> pc[t] \in Sending
          /\ l \in Splicing <=> pc[t] \in Splicing
      BY <2>1, <2>2, <2>5, <3>1 DEF Goto
    <3> QED  BY <3>2
  <2> QED  BY <1>4, <2>1, <2>3, <2>4, <2>5 DEF LookupHead
<1>5. CASE LookupSearch(t)
  <2>1. PICK reaping \in BOOLEAN : reaping = (pc[t] = "r_search")  OBVIOUS
  <2>2. pc[t] \in {"search", "r_search"}  BY <1>5 DEF LookupSearch
  <2>3. CASE EndCompletion(t, reaping)  BY <1>1, <2>1, <2>2, <2>3
  <2>4. CASE Goto(t, IF reaping THEN "r_done" ELSE "done")
    <3>1. PICK l : l = IF reaping THEN "r_done" ELSE "done"  OBVIOUS
    <3>2. /\ pc' = [pc EXCEPT ![t] = l]
          /\ l \in Sending <=> pc[t] \in Sending
          /\ l \in Splicing <=> pc[t] \in Splicing
      BY <2>1, <2>2, <2>4, <3>1 DEF Goto
    <3> QED  BY <3>2
  <2> QED  BY <1>5, <2>1, <2>3, <2>4 DEF LookupSearch
<1>6. CASE htc_tx_completion_handler(t)
  <2>1. PICK reaping \in BOOLEAN : reaping = (pc[t] = "r_done")  OBVIOUS
  <2>2. pc[t] \in {"done", "r_done"} /\ EndCompletion(t, reaping)
    BY <1>6, <2>1 DEF htc_tx_completion_handler
  <2> QED  BY <1>1, <2>1, <2>2
<1> QED  BY <1>2, <1>3, <1>4, <1>5, <1>6

\* The steps of a completion charge none.
LEMMA RingCharge ==
  ASSUME TypeInv, PlaceInv, NEW t \in Threads,
         \/ ce_per_engine_service(t) \/ ce_per_engine_servicereap(t)
         \/ hif_pci_ce_send_done(t) \/ LookupHead(t) \/ LookupSearch(t)
         \/ htc_tx_completion_handler(t)
  PROVE  /\ UNCHANGED <<TxCredits, fwCredits, CreditsUsed>>
         /\ \A p \in Packets : (Loaded(p) \/ InHand(p) \/ Unsent(p))'
                               <=> (Loaded(p) \/ InHand(p) \/ Unsent(p))
<1>1. UNCHANGED <<sendQueue, pPacket, wire, hw_index, TxCredits, fwCredits, CreditsUsed>>
  BY DEF ce_per_engine_service, ce_per_engine_servicereap, PopCompletion, hif_pci_ce_send_done,
         LookupHead, LookupSearch, htc_tx_completion_handler, endpoint, pipe, packet, locals,
         target
<1>2. \E l : /\ pc' = [pc EXCEPT ![t] = l]
             /\ l \in Sending <=> pc[t] \in Sending
             /\ l \in Splicing <=> pc[t] \in Splicing
  BY RingGoes
<1> QED  BY <1>1, <1>2, MoveCharge

\* A report, a flush, a stutter: the credits go from the target to the endpoint.
LEMMA ReportCharge ==
  ASSUME TypeInv, PlaceInv, NEW t \in Threads,
         htc_process_credit_rpt(t) \/ htc_flush_endpoint_tx(t) \/ UNCHANGED vars
  PROVE  /\ TxCredits' + fwCredits' = TxCredits + fwCredits /\ UNCHANGED CreditsUsed
         /\ \A p \in Packets : (Loaded(p) \/ InHand(p) \/ Unsent(p))'
                               <=> (Loaded(p) \/ InHand(p) \/ Unsent(p))
<1>1. UNCHANGED <<sendQueue, pPacket, wire, hw_index, CreditsUsed>>
  BY DEF htc_process_credit_rpt, htc_flush_endpoint_tx, pipe, packet, locals, vars
<1>2. TxCredits' + fwCredits' = TxCredits + fwCredits
  <2>1. TxCredits \in Nat /\ fwCredits \in Nat  BY DEF TypeInv, CountTypes
  <2>2. CASE htc_process_credit_rpt(t)
    BY <2>1, <2>2 DEF htc_process_credit_rpt, CreditsAfterReport
  <2>3. CASE htc_flush_endpoint_tx(t) \/ UNCHANGED vars
    BY <2>3 DEF htc_flush_endpoint_tx, target, endpoint, vars
  <2> QED  BY <2>2, <2>3
<1>3. CASE UNCHANGED pc
  BY <1>1, <1>2, <1>3, QuietCharge
<1>4. CASE htc_process_credit_rpt(t) /\ RecheckAfterReport
  <2>1. PICK l : l = TrySendEntry  OBVIOUS
  <2>2. /\ pc' = [pc EXCEPT ![t] = l] /\ (l \in Sending <=> pc[t] \in Sending)
        /\ (l \in Splicing <=> pc[t] \in Splicing)
    BY <1>4, <2>1 DEF htc_process_credit_rpt, Goto, TrySendEntry, Sending, Splicing
  <2> QED  BY <1>1, <1>2, <2>2, MoveCharge
<1> QED  BY <1>3, <1>4 DEF htc_process_credit_rpt, htc_flush_endpoint_tx, vars

\* A packet enters HTC, and the splice ends.
LEMMA EntryCharge ==
  ASSUME TypeInv, PlaceInv, NEW t \in Threads,
         (\E p \in Packets : htc_send_pkt(t, p)) \/ EnterTrySend(t) \/ SpliceWrite(t)
  PROVE  /\ UNCHANGED <<TxCredits, fwCredits, CreditsUsed>>
         /\ \A p \in Packets : (Loaded(p) \/ InHand(p) \/ Unsent(p))'
                               <=> (Loaded(p) \/ InHand(p) \/ Unsent(p))
<1>1. UNCHANGED <<TxCredits, fwCredits, CreditsUsed, wire, hw_index>>
  BY DEF htc_send_pkt, EnterTrySend, SpliceWrite, endpoint, pipe, packet, target
<1>2. \A p : Unsent(p)' <=> Unsent(p)
  BY <1>1 DEF Unsent
<1>3. CASE (\E p \in Packets : htc_send_pkt(t, p)) \/ EnterTrySend(t)
  <2>1. /\ UNCHANGED sendQueue
        /\ pc'[t] \in {"free_queue", "enter", "idle", "free", "drain"}
        /\ pc[t] \in {"idle", "enter"}
        /\ \A u \in Threads : u # t => pc'[u] = pc[u] /\ pPacket'[u] = pPacket[u]
    <3>1. TrySendEntry \in {"free_queue", "enter"} /\ TrySendReturn(t) \in {"idle", "free"}
      BY DEF TrySendEntry, TrySendReturn
    <3> QED  BY <1>3, <3>1, Lists DEF htc_send_pkt, EnterTrySend, Goto
  <2>2. \A p : Loaded(p)' <=> Loaded(p)
    BY <2>1 DEF Loaded
  <2>3. \A p : InHand(p)' <=> InHand(p)
    BY <2>1 DEF InHand, Sending
  <2> QED  BY <1>1, <1>2, <2>2, <2>3
<1>4. CASE SpliceWrite(t)
  <2>1. /\ pc[t] = "spliced" /\ pc'[t] = "clear" /\ sendQueue'[t] = <<>> /\ UNCHANGED pPacket
        /\ \A u \in Threads : u # t => pc'[u] = pc[u] /\ sendQueue'[u] = sendQueue[u]
    BY <1>4, Lists DEF SpliceWrite, Goto
  <2>2. ElementsOf(sendQueue'[t]) = {}  BY <2>1 DEF ElementsOf
  <2>3. \A p : Loaded(p)' <=> Loaded(p)
    BY <2>1, <2>2 DEF Loaded
  <2>4. \A p : InHand(p)' <=> InHand(p)
    BY <2>1 DEF InHand, Sending
  <2> QED  BY <1>1, <1>2, <2>3, <2>4
<1> QED  BY <1>3, <1>4

\* Taking a packet charges it.
LEMMA TakeCharge ==
  ASSUME TypeInv, PlaceInv, NEW t \in Threads, NEW i \in 1..Len(TxQueue), TakePacket(t, i)
  PROVE  /\ ~(Loaded(TxQueue[i]) \/ InHand(TxQueue[i]) \/ Unsent(TxQueue[i]))
         /\ \A q \in Packets : (Loaded(q) \/ InHand(q) \/ Unsent(q))'
               <=> Loaded(q) \/ InHand(q) \/ Unsent(q) \/ q = TxQueue[i]
<1>0. PICK p \in Packets : p = TxQueue[i]  BY Lists
<1>1. /\ pc[t] = "take" /\ UNCHANGED <<wire, hw_index, pc, pPacket>>
      /\ sendQueue' = [sendQueue EXCEPT ![t] = Append(sendQueue[t], p)]
  BY <1>0 DEF TakePacket, pipe
<1>2. p \in ElementsOf(TxQueue)
  BY <1>0 DEF ElementsOf
<1>3. ~Loaded(p)
  BY <1>2 DEF PlaceInv, Apart, Has, Loaded
<1>4. ~InHand(p)
  <2> SUFFICES ASSUME NEW u \in Threads, pc[u] \in Sending, pPacket[u] = p PROVE FALSE
    BY DEF InHand
  <2>1. OnLookup(p)  BY DEF PlaceInv, HandOK
  <2> QED  BY <1>2, <2>1, LookupOnly DEF PlaceInv
<1>5. ~Unsent(p)
  <2>1. p \notin ElementsOf(wire)  BY <1>2 DEF PlaceInv, WireOK
  <2>2. \A j \in (hw_index + 1)..Len(wire) : j \in 1..Len(wire)
    BY Lists DEF TypeInv, CountTypes
  <2> QED  BY <2>1, <2>2 DEF Unsent, ElementsOf
<1>6. /\ sendQueue'[t] = Append(sendQueue[t], p)
      /\ \A u \in Threads : u # t => sendQueue'[u] = sendQueue[u]
  BY <1>1, Lists
<1>7. ElementsOf(sendQueue'[t]) = ElementsOf(sendQueue[t]) \cup {p}
  <2>1. sendQueue[t] \in Seq(Packets)  BY Lists
  <2> QED  BY <1>6, <2>1, AppendLists
<1>8. \A q \in Packets : Loaded(q)' <=> Loaded(q) \/ q = p
  BY <1>1, <1>6, <1>7 DEF Loaded
<1>9. \A q \in Packets : (InHand(q)' <=> InHand(q)) /\ (Unsent(q)' <=> Unsent(q))
  BY <1>1 DEF InHand, Unsent
<1> QED  BY <1>0, <1>3, <1>4, <1>5, <1>8, <1>9

\* The next packet goes from the local queue to the hand, and from there to
\* the ring.
LEMMA SendCharge ==
  ASSUME TypeInv, PlaceInv, NEW t \in Threads, IssueNext(t) \/ hif_send_head(t)
  PROVE  /\ UNCHANGED <<TxCredits, fwCredits, CreditsUsed>>
         /\ \A p \in Packets : (Loaded(p) \/ InHand(p) \/ Unsent(p))'
                               <=> (Loaded(p) \/ InHand(p) \/ Unsent(p))
<1>1. UNCHANGED <<TxCredits, fwCredits, CreditsUsed>>
  BY DEF IssueNext, hif_send_head, endpoint, packet, target
<1>2. CASE IssueNext(t)
  <2>0. PICK p : p = Head(sendQueue[t])  OBVIOUS
  <2>1. /\ pc[t] = "issue" /\ pc'[t] = "poll" /\ pPacket'[t] = p /\ UNCHANGED <<wire, hw_index>>
        /\ sendQueue'[t] = Tail(sendQueue[t]) /\ sendQueue[t] # <<>>
        /\ \A u \in Threads : u # t => /\ pc'[u] = pc[u] /\ pPacket'[u] = pPacket[u]
                                       /\ sendQueue'[u] = sendQueue[u]
    BY <1>2, <2>0, Lists DEF IssueNext, Goto, pipe
  <2>2. ElementsOf(sendQueue[t]) = ElementsOf(sendQueue'[t]) \cup {p}
    <3>1. sendQueue[t] \in Seq(Packets)  BY Lists
    <3>2. ElementsOf(sendQueue[t]) = ElementsOf(Tail(sendQueue[t])) \cup {p}
      BY <2>0, <2>1, <3>1, TailLists
    <3> QED  BY <2>1, <3>2
  <2>3. \A q \in Packets : Loaded(q) <=> Loaded(q)' \/ q = p
    BY <2>1, <2>2 DEF Loaded
  <2>4. \A q \in Packets : InHand(q)' <=> InHand(q) \/ q = p
    BY <2>1 DEF InHand, Sending
  <2>5. \A q \in Packets : Unsent(q)' <=> Unsent(q)
    BY <2>1 DEF Unsent
  <2> QED  BY <1>1, <2>3, <2>4, <2>5
<1>3. CASE hif_send_head(t) /\ num_sends_allowed < 1
  <2>1. PICK l : l = "fail"  OBVIOUS
  <2>2. /\ pc' = [pc EXCEPT ![t] = l] /\ (l \in Sending <=> pc[t] \in Sending)
        /\ (l \in Splicing <=> pc[t] \in Splicing)
        /\ UNCHANGED <<sendQueue, pPacket, wire, hw_index>>
    BY <1>3, <2>1 DEF hif_send_head, Goto, Sending, Splicing
  <2> QED  BY <1>1, <2>2, MoveCharge
<1>4. CASE hif_send_head(t) /\ ~(num_sends_allowed < 1)
  <2>0. PICK p : p = pPacket[t]  OBVIOUS
  <2>1. /\ pc[t] = "head" /\ pc'[t] \in {"put", "issue"} /\ pPacket'[t] = NoPkt
        /\ UNCHANGED <<sendQueue, hw_index>> /\ wire' = Append(wire, p)
        /\ \A u \in Threads : u # t => pc'[u] = pc[u] /\ pPacket'[u] = pPacket[u]
    BY <1>4, <2>0, Lists DEF hif_send_head, Goto
  <2>2. \A q \in Packets : Loaded(q)' <=> Loaded(q)
    BY <2>1 DEF Loaded
  <2>3. \A q \in Packets : InHand(q) <=> InHand(q)' \/ q = p
    BY <2>0, <2>1 DEF InHand, Sending
  <2>4. \A q \in Packets : Unsent(q)' <=> Unsent(q) \/ q = p
    <3>1. /\ Len(wire) \in Nat /\ Len(wire') = Len(wire) + 1 /\ wire'[Len(wire) + 1] = p
          /\ \A j \in 1..Len(wire) : wire'[j] = wire[j]
          /\ hw_index \in 0..Len(wire)
      <4>1. wire \in Seq(Packets) /\ p \in Packets
        BY <2>0, <2>1, Lists DEF TypeInv, HandTypes, Sending
      <4> QED  BY <2>1, <4>1 DEF TypeInv, CountTypes
    <3>2. Len(wire) + 1 \in (hw_index + 1)..Len(wire')
      BY <3>1
    <3>3. \A j \in (hw_index + 1)..Len(wire') :
             j = Len(wire) + 1 \/ (j \in (hw_index + 1)..Len(wire) /\ j \in 1..Len(wire))
      BY <3>1
    <3>4. \A j \in (hw_index + 1)..Len(wire) : j \in (hw_index + 1)..Len(wire') /\ j \in 1..Len(wire)
      BY <3>1
    <3> SUFFICES ASSUME NEW q \in Packets
                 PROVE  (\E j \in (hw_index + 1)..Len(wire') : wire'[j] = q)
                           <=> (\E j \in (hw_index + 1)..Len(wire) : wire[j] = q) \/ q = p
      BY <2>1 DEF Unsent
    <3>5. (\E j \in (hw_index + 1)..Len(wire') : wire'[j] = q)
              => (\E j \in (hw_index + 1)..Len(wire) : wire[j] = q) \/ q = p
      BY <3>1, <3>3
    <3>6. (\E j \in (hw_index + 1)..Len(wire) : wire[j] = q) \/ q = p
              => (\E j \in (hw_index + 1)..Len(wire') : wire'[j] = q)
      BY <3>1, <3>2, <3>4
    <3> QED  BY <3>5, <3>6
  <2> QED  BY <1>1, <2>2, <2>3, <2>4
<1> QED  BY <1>2, <1>3, <1>4

\* A refused packet is discharged, and with it, by mistake, those behind it.
LEMMA FailCharge ==
  ASSUME TypeInv, PlaceInv, NEW t \in Threads, IssueFailed(t)
  PROVE  /\ InHand(pPacket[t]) /\ pPacket[t] \in Packets
         /\ \A q \in Packets : (Loaded(q) \/ InHand(q) \/ Unsent(q))'
               => (Loaded(q) \/ InHand(q) \/ Unsent(q)) /\ q # pPacket[t]
<1>0. PICK p : p = pPacket[t]  OBVIOUS
<1>1. /\ pc[t] = "fail" /\ pc'[t] = "splice" /\ UNCHANGED <<wire, hw_index>>
      /\ \A u \in Threads : u # t => /\ pc'[u] = pc[u] /\ pPacket'[u] = pPacket[u]
                                     /\ sendQueue'[u] = sendQueue[u]
  BY Lists DEF IssueFailed, Goto, pipe
<1>2. p \in Packets /\ InHand(p)
  BY <1>0, <1>1 DEF TypeInv, HandTypes, InHand, Sending
<1>3. OnLookup(p) /\ p \notin ElementsOf(wire)
  BY <1>0, <1>1 DEF PlaceInv, HandOK, WireOK, Sending
<1>4. \A u \in Threads : p \notin ElementsOf(sendQueue[u])
  BY <1>2, <1>3, LookupOnly DEF PlaceInv
<1>5. \A q \in Packets : Loaded(q)' => Loaded(q) /\ q # p
  BY <1>1, <1>4 DEF Loaded
<1>6. \A q \in Packets : ~InHand(q)'
  <2>1. \A u \in Threads : u # t => pc[u] \notin Sending
    BY <1>1, SenderIsAlone DEF DrainPcs, Sending
  <2> QED  BY <1>1, <2>1 DEF InHand, Sending
<1>7. \A q \in Packets : Unsent(q)' => Unsent(q) /\ q # p
  <2>1. \A j \in (hw_index + 1)..Len(wire) : j \in 1..Len(wire)
    BY Lists DEF TypeInv, CountTypes
  <2> QED  BY <1>1, <1>3, <2>1 DEF Unsent, ElementsOf
<1> QED  BY <1>0, <1>2, <1>5, <1>6, <1>7

\* The target holds the credits of a packet it has received.
LEMMA ReceiveCharge ==
  ASSUME TypeInv, PlaceInv, TargetReceives
  PROVE  /\ Unsent(wire[hw_index + 1]) /\ wire[hw_index + 1] \in Packets
         /\ \A q \in Packets : (Loaded(q) \/ InHand(q) \/ Unsent(q))'
               <=> (Loaded(q) \/ InHand(q) \/ Unsent(q)) /\ q # wire[hw_index + 1]
<1>0. PICK p : p = wire[hw_index + 1]  OBVIOUS
<1>1. /\ hw_index < Len(wire) /\ hw_index' = hw_index + 1 /\ hw_index \in Nat /\ Len(wire) \in Nat
      /\ UNCHANGED <<wire, pc, pPacket, sendQueue>>
  BY Lists DEF TargetReceives, locals, TypeInv, CountTypes
<1>2. /\ hw_index + 1 \in 1..Len(wire) /\ hw_index + 1 \in (hw_index + 1)..Len(wire)
      /\ \A j \in (hw_index + 1)..Len(wire) : j \in 1..Len(wire)
      /\ \A j \in (hw_index + 1 + 1)..Len(wire) :
            j \in (hw_index + 1)..Len(wire) /\ j # hw_index + 1
      /\ \A j \in (hw_index + 1)..Len(wire) :
            j # hw_index + 1 => j \in (hw_index + 1 + 1)..Len(wire)
  BY <1>1
<1>3. p \in Packets /\ p \in ElementsOf(wire) /\ Unsent(p)
  BY <1>0, <1>2, Lists DEF ElementsOf, Unsent
<1>4. \A u \in Threads : p \notin ElementsOf(sendQueue[u]) /\ pPacket[u] # p
  BY <1>3 DEF PlaceInv, WireOK
<1>5. \A q \in Packets : Loaded(q)' <=> Loaded(q) /\ q # p
  BY <1>1, <1>4 DEF Loaded
<1>6. \A q \in Packets : InHand(q)' <=> InHand(q) /\ q # p
  BY <1>1, <1>4 DEF InHand
<1>7. \A q \in Packets : Unsent(q)' <=> Unsent(q) /\ q # p
  <2>1. Uniq(wire)  BY DEF PlaceInv, ListsOK
  <2>2. \A j \in 1..Len(wire) : wire[j] = p => j = hw_index + 1
    BY <1>0, <1>2, <2>1 DEF Uniq
  <2> SUFFICES ASSUME NEW q \in Packets
               PROVE  (\E j \in (hw_index + 1 + 1)..Len(wire) : wire[j] = q)
                         <=> (\E j \in (hw_index + 1)..Len(wire) : wire[j] = q) /\ q # p
    BY <1>1 DEF Unsent
  <2>3. (\E j \in (hw_index + 1 + 1)..Len(wire) : wire[j] = q)
            => (\E j \in (hw_index + 1)..Len(wire) : wire[j] = q) /\ q # p
    BY <1>2, <2>2
  <2>4. (\E j \in (hw_index + 1)..Len(wire) : wire[j] = q) /\ q # p
            => (\E j \in (hw_index + 1 + 1)..Len(wire) : wire[j] = q)
    BY <1>0, <1>2
  <2> QED  BY <2>3, <2>4
<1> QED  BY <1>0, <1>3, <1>5, <1>6, <1>7

\* No step invents a credit; only a refused send loses one.
LEMMA TotalStep ==
  ASSUME TypeInv, PlaceInv, TypeInv', PlaceInv', [Next]_vars, CreditFlow, PaidOK
  PROVE  /\ Total' <= Total /\ PaidOK'
         /\ (\A t \in Threads : pc[t] # "fail") => Total' = Total
<1>1. ChargedIs /\ ChargedIs'
  <2>1. TypeInv' /\ PlaceInv' => ChargedIs'  BY ChargedAre, PTL
  <2> QED  BY <2>1, ChargedAre
<1>2. /\ Charged \subseteq Packets /\ IsFiniteSet(Packets) /\ IsFiniteSet(Charged)
      /\ Charged' \subseteq Packets /\ IsFiniteSet(Charged')
      /\ CreditsUsed \in [Packets -> Nat] /\ CreditsUsed' \in [Packets -> Nat]
      /\ TxCredits \in Nat /\ fwCredits \in Nat /\ TxCredits' \in Nat /\ fwCredits' \in Nat
  <2>1. Charged \subseteq Packets /\ Charged' \subseteq Packets /\ IsFiniteSet(Packets)
    BY <1>1, ConstAssumption DEF ChargedIs
  <2> QED  BY <2>1, FS_Subset DEF TypeInv, CountTypes
<1>3. /\ Cardinality(CreditsIn(Charged, CreditsUsed)) \in Nat
      /\ Cardinality(CreditsIn(Charged', CreditsUsed')) \in Nat
  <2>1. (\A p \in Charged : CreditsUsed[p] \in Nat) /\ (\A p \in Charged' : CreditsUsed'[p] \in Nat)
    BY <1>2
  <2> QED  BY <1>2, <2>1, CreditsFinite
<1>4. Total \in Nat /\ Total' \in Nat
  BY <1>2, <1>3 DEF Total
<1>5. conn' = conn  BY ConnStep
<1>6. ASSUME TxCredits' + fwCredits' = TxCredits + fwCredits, UNCHANGED CreditsUsed,
             \A p \in Packets : (Loaded(p) \/ InHand(p) \/ Unsent(p))'
                               <=> (Loaded(p) \/ InHand(p) \/ Unsent(p))
      PROVE  Total' = Total /\ PaidOK'
  <2>1. Charged' = Charged  BY <1>6, SameCharge
  <2> QED  BY <1>2, <1>3, <1>5, <1>6, <2>1 DEF Total, PaidOK, CreditFlow
<1>7. ASSUME NEW t \in Threads, NEW i \in 1..Len(TxQueue), TakePacket(t, i)
      PROVE  Total' = Total /\ PaidOK'
  <2>1. PICK p \in Packets : p = TxQueue[i]  BY Lists
  <2>2. /\ TxCredits' = TxCredits - Need[p] /\ fwCredits' = fwCredits
        /\ CreditsUsed' = [CreditsUsed EXCEPT ![p] = Need[p]]
        /\ Need[p] \in Nat \ {0}
    BY <1>7, <2>1, ConstAssumption DEF TakePacket, TakeWithCredits, target
  <2>3. Charged' = Charged \cup {p} /\ p \notin Charged
    BY <1>1, <1>7, <2>1, TakeCharge DEF ChargedIs
  <2>4. CreditsUsed'[p] = Need[p] /\ \A q \in Charged : CreditsUsed'[q] = CreditsUsed[q]
    BY <1>2, <2>2, <2>3
  <2>5. Cardinality(CreditsIn(Charged \cup {p}, CreditsUsed'))
           = Cardinality(CreditsIn(Charged, CreditsUsed)) + CreditsUsed'[p]
    <3>1. /\ \A q \in Charged : CreditsUsed[q] \in Nat /\ CreditsUsed'[q] = CreditsUsed[q]
          /\ CreditsUsed'[p] \in Nat
      BY <1>2, <2>4
    <3> QED  BY <1>2, <2>3, <3>1, CreditsAdd
  <2>6. Cardinality(CreditsIn(Charged', CreditsUsed'))
           = Cardinality(CreditsIn(Charged, CreditsUsed)) + Need[p]
    BY <2>3, <2>4, <2>5
  <2>7. Total' = Total
    <3>1. PICK n \in Nat : n = Need[p]  BY <2>2
    <3>2. /\ TxCredits' = TxCredits - n /\ fwCredits' = fwCredits
          /\ Cardinality(CreditsIn(Charged', CreditsUsed'))
                = Cardinality(CreditsIn(Charged, CreditsUsed)) + n
      BY <2>2, <2>6, <3>1
    <3> QED  BY <1>2, <1>3, <3>2 DEF Total
  <2>8. PaidOK'
    BY <1>5, <2>2, <2>3, <2>4 DEF PaidOK, CreditFlow
  <2> QED  BY <2>7, <2>8
<1>8. ASSUME NEW p \in Charged
      PROVE  Cardinality(CreditsIn(Charged, CreditsUsed))
                = Cardinality(CreditsIn(Charged \ {p}, CreditsUsed)) + CreditsUsed[p]
             /\ IsFiniteSet(Charged \ {p})
             /\ Cardinality(CreditsIn(Charged \ {p}, CreditsUsed)) \in Nat
             /\ CreditsUsed[p] \in Nat
  <2>1. IsFiniteSet(Charged \ {p}) /\ p \notin Charged \ {p} /\ CreditsUsed[p] \in Nat
        /\ \A q \in Charged \ {p} : CreditsUsed[q] \in Nat /\ CreditsUsed[q] = CreditsUsed[q]
        /\ (Charged \ {p}) \cup {p} = Charged
    BY <1>2, FS_Subset
  <2> DEFINE D == Charged \ {p}
  <2> HIDE DEF D
  <2>2. Cardinality(CreditsIn(D \cup {p}, CreditsUsed))
           = Cardinality(CreditsIn(D, CreditsUsed)) + CreditsUsed[p]
    BY <2>1, CreditsAdd DEF D
  <2>3. Cardinality(CreditsIn(D, CreditsUsed)) \in Nat
    BY <2>1, CreditsFinite DEF D
  <2> QED  BY <2>1, <2>2, <2>3 DEF D
<1>9. ASSUME NEW t \in Threads, IssueFailed(t) PROVE Total' <= Total /\ PaidOK'
  <2>1. PICK p : p = pPacket[t]  OBVIOUS
  <2>2. p \in Charged /\ Charged' \subseteq Charged \ {p}
    BY <1>1, <1>9, <2>1, FailCharge DEF ChargedIs
  <2>3. /\ TxCredits' = TxCredits + CreditsUsed[p] /\ fwCredits' = fwCredits
        /\ UNCHANGED CreditsUsed
    BY <1>9, <2>1 DEF IssueFailed, target, packet
  <2>4. Cardinality(CreditsIn(Charged', CreditsUsed))
           <= Cardinality(CreditsIn(Charged \ {p}, CreditsUsed))
    <3>1. IsFiniteSet(Charged \ {p}) /\ (\A q \in Charged \ {p} : CreditsUsed[q] \in Nat)
          /\ Charged' \in SUBSET (Charged \ {p})
      BY <1>2, <1>8, <2>2
    <3> QED  BY <3>1, CreditsFewer
  <2>5. Total' <= Total
    BY <1>2, <1>3, <1>8, <2>2, <2>3, <2>4 DEF Total
  <2>6. PaidOK'
    BY <1>5, <2>2, <2>3 DEF PaidOK, CreditFlow
  <2> QED  BY <2>5, <2>6
<1>10. ASSUME TargetReceives PROVE Total' = Total /\ PaidOK'
  <2>1. PICK p : p = wire[hw_index + 1]  OBVIOUS
  <2>2. p \in Charged /\ Charged' = Charged \ {p}
    BY <1>1, <1>10, <2>1, ReceiveCharge DEF ChargedIs
  <2>3. /\ TxCredits' = TxCredits /\ fwCredits' = fwCredits + CreditsUsed[p]
        /\ UNCHANGED CreditsUsed
    BY <1>10, <2>1 DEF TargetReceives, endpoint, packet
  <2>4. Total' = Total
    BY <1>2, <1>3, <1>8, <2>2, <2>3 DEF Total
  <2>5. PaidOK'
    BY <1>5, <2>2, <2>3 DEF PaidOK, CreditFlow
  <2> QED  BY <2>4, <2>5
<1>11. ASSUME NEW t \in Threads, ThreadStep(t)
       PROVE  Total' <= Total /\ PaidOK' /\ (pc[t] # "fail" => Total' = Total)
  <2>1. CASE \/ ReadFreeQueueNumber(t) \/ htc_kick_queues(t) \/ DrainLoop(t)
             \/ StopTaking(t) \/ IssueEnd(t)
             \/ RereadFreeQueueNumber(t) \/ Relock(t) \/ PutWhenIssued(t)
             \/ hif_send_complete_check(t)
             \/ SpliceRead(t) \/ ClearAfterFailure(t)
    BY <1>4, <1>6, <2>1, LoopCharge
  <2>2. CASE \/ ce_per_engine_servicereap(t) \/ hif_pci_ce_send_done(t) \/ LookupHead(t)
             \/ LookupSearch(t) \/ htc_tx_completion_handler(t)
    BY <1>4, <1>6, <2>2, RingCharge
  <2>3. CASE EnterTrySend(t) \/ SpliceWrite(t)
    BY <1>4, <1>6, <2>3, EntryCharge
  <2>4. CASE \E i \in 1..Len(TxQueue) : TakePacket(t, i)  BY <1>4, <1>7, <2>4
  <2>5. CASE IssueNext(t) \/ hif_send_head(t)
    BY <1>4, <1>6, <2>5, SendCharge
  <2>6. CASE IssueFailed(t)  BY <1>9, <2>6 DEF IssueFailed
  <2> QED
    BY <1>11, <2>1, <2>2, <2>3, <2>4, <2>5, <2>6, Zenon DEF ThreadStep
<1>12. CASE \E t \in Senders, p \in Packets : htc_send_pkt(t, p)
  BY <1>4, <1>6, <1>12, EntryCharge DEF Threads
<1>13. CASE \E t \in Tasklets : ce_per_engine_service(t)
  BY <1>4, <1>6, <1>13, RingCharge DEF Threads
<1>14. CASE \/ \E t \in Reporters : htc_process_credit_rpt(t)
            \/ \E t \in Workers : htc_flush_endpoint_tx(t)
  BY <1>4, <1>6, <1>14, ReportCharge DEF Threads
<1>15. CASE UNCHANGED vars
  <2>1. UNCHANGED <<sendQueue, pPacket, wire, hw_index, pc, TxCredits, fwCredits, CreditsUsed>>
    BY <1>15 DEF vars, endpoint, pipe, target, packet, locals
  <2>2. \A p \in Packets : (Loaded(p) \/ InHand(p) \/ Unsent(p))'
                               <=> (Loaded(p) \/ InHand(p) \/ Unsent(p))
    BY <2>1, QuietCharge
  <2> QED  BY <1>4, <1>6, <2>1, <2>2
<1>16. CASE TargetReceives  BY <1>4, <1>10, <1>16
<1>17. CASE \E t \in Threads : ThreadStep(t)
  BY <1>11, <1>17
<1> QED  BY <1>12, <1>13, <1>14, <1>15, <1>16, <1>17 DEF Next

-----------------------------------------------------------------------------
(* The send slots *)

\* A thread moves and the pipe stays as it is.
LEMMA SlotMove ==
  ASSUME TypeInv, SlotInv, UNCHANGED <<conn, num_sends_allowed, wire, sw_index>>,
         CreditFlow => UNCHANGED owesSlot,
         NEW t \in Threads, NEW l, CreditFlow => pc' = [pc EXCEPT ![t] = l],
         CreditFlow => (l \in TaskletPcs <=> pc[t] \in TaskletPcs),
         CreditFlow => (l \in ReapPcs <=> pc[t] \in ReapPcs)
  PROVE  SlotInv'
<1> SUFFICES ASSUME CreditFlow PROVE SlotInv'
  BY DEF SlotInv, CreditFlow
<1>1. pc'[t] = l /\ \A u \in Threads : u # t => pc'[u] = pc[u]
  BY Lists
<1>2. \A u \in Threads : /\ pc'[u] \in TaskletPcs <=> pc[u] \in TaskletPcs
                         /\ pc'[u] \in ReapPcs <=> pc[u] \in ReapPcs
  BY <1>1
<1>3. Busy(TaskletPcs)' = Busy(TaskletPcs) /\ Busy(ReapPcs)' = Busy(ReapPcs)
  BY <1>2 DEF Busy, TaskletPcs, ReapPcs
<1> QED  BY <1>2, <1>3 DEF SlotInv, CreditFlow, PipeSize

\* A step that touches neither slots nor places keeps the slot account.
LEMMA SlotStill ==
  ASSUME SlotInv, UNCHANGED <<conn, num_sends_allowed, wire, sw_index, owesSlot, pc>>
  PROVE  SlotInv'
BY DEF SlotInv, CreditFlow, PipeSize, Busy

\* The steps that take and free no slot.
LEMMA SlotQuiet ==
  ASSUME TypeInv, SlotInv, UNCHANGED conn, NEW t \in Threads,
         \/ (\E p \in Packets : htc_send_pkt(t, p)) \/ ReadFreeQueueNumber(t)
         \/ htc_kick_queues(t) \/ EnterTrySend(t)
         \/ DrainLoop(t) \/ StopTaking(t) \/ IssueNext(t) \/ IssueEnd(t)
         \/ RereadFreeQueueNumber(t) \/ Relock(t) \/ PutWhenIssued(t) \/ hif_send_complete_check(t)
         \/ IssueFailed(t) \/ SpliceRead(t) \/ SpliceWrite(t) \/ ClearAfterFailure(t)
         \/ (htc_process_credit_rpt(t) /\ RecheckAfterReport)
  PROVE  SlotInv'
<1> USE DEF TaskletPcs, ReapPcs
<1>1. UNCHANGED <<num_sends_allowed, wire, sw_index, owesSlot>>
  BY DEF htc_send_pkt, ReadFreeQueueNumber, htc_kick_queues, EnterTrySend, DrainLoop,
         StopTaking, IssueNext,
         IssueEnd, RereadFreeQueueNumber, Relock, PutWhenIssued, hif_send_complete_check,
         IssueFailed,
         SpliceRead, SpliceWrite, ClearAfterFailure, htc_process_credit_rpt, pipe, locals
<1>2. CreditFlow => TrySendReturn(t) = "idle"
  BY DEF SlotInv, TrySendReturn
<1>3. TrySendEntry \in {"enter", "free_queue"}
  BY DEF TrySendEntry
<1>4. \E l : /\ CreditFlow => pc' = [pc EXCEPT ![t] = l]
             /\ CreditFlow => (l \in TaskletPcs <=> pc[t] \in TaskletPcs)
             /\ CreditFlow => (l \in ReapPcs <=> pc[t] \in ReapPcs)
  <2>1. CASE \E p \in Packets : htc_send_pkt(t, p)
    BY <1>3, <2>1 DEF htc_send_pkt, Goto
  <2>2. CASE htc_process_credit_rpt(t) /\ RecheckAfterReport
    BY <1>3, <2>2 DEF htc_process_credit_rpt, Goto
  <2>3. CASE EnterTrySend(t)
    BY <1>2, <2>3 DEF EnterTrySend, Goto
  <2>4. CASE DrainLoop(t)
    BY <1>2, <2>4 DEF DrainLoop, EndDrain, Goto
  <2>5. CASE StopTaking(t)
    BY <1>2, <2>5 DEF StopTaking, EndDrain, Goto
  <2>6. CASE ClearAfterFailure(t)
    BY <1>2, <2>6 DEF ClearAfterFailure, EndDrain, Goto
  <2>7. CASE ReadFreeQueueNumber(t) \/ htc_kick_queues(t) \/ IssueNext(t)
             \/ RereadFreeQueueNumber(t)
    BY <1>3, <2>7 DEF ReadFreeQueueNumber, htc_kick_queues, IssueNext, RereadFreeQueueNumber, Goto
  <2>8. CASE Relock(t) \/ PutWhenIssued(t) \/ IssueEnd(t) \/ hif_send_complete_check(t)
    BY <2>8 DEF Relock, PutWhenIssued, IssueEnd, hif_send_complete_check, Goto
  <2>9. CASE IssueFailed(t) \/ SpliceRead(t) \/ SpliceWrite(t)
    BY <2>9 DEF IssueFailed, SpliceRead, SpliceWrite, Goto
  <2> QED  BY <2>1, <2>2, <2>3, <2>4, <2>5, <2>6, <2>7, <2>8, <2>9
<1> HIDE DEF TaskletPcs, ReapPcs
<1> QED  BY <1>1, <1>4, SlotMove

\* The completion keeps the slot of its packet until it has looked it up and
\* handed it back.
LEMMA SlotLookup ==
  ASSUME TypeInv, SlotInv, UNCHANGED conn, NEW t \in Threads,
         LookupHead(t) \/ LookupSearch(t) \/ htc_tx_completion_handler(t)
  PROVE  SlotInv'
<1> USE DEF TaskletPcs, ReapPcs
<1>1. UNCHANGED <<num_sends_allowed, wire, sw_index>>
  BY DEF LookupHead, LookupSearch, htc_tx_completion_handler, pipe
<1>2. PICK reaping \in BOOLEAN : reaping <=> pc[t] \in {"r_lookup", "r_search", "r_done"}
  OBVIOUS
<1>3. /\ reaping => pc[t] \in ReapPcs /\ pc[t] \notin TaskletPcs
      /\ ~reaping => pc[t] \in TaskletPcs /\ pc[t] \notin ReapPcs
  BY <1>2 DEF LookupHead, LookupSearch, htc_tx_completion_handler
<1>4. \/ EndCompletion(t, reaping)
      \/ Goto(t, IF reaping THEN "r_done" ELSE "done") /\ UNCHANGED owesSlot
      \/ Goto(t, IF reaping THEN "r_search" ELSE "search") /\ UNCHANGED owesSlot
  <2>1. CASE LookupHead(t)
    <3>1. reaping = (pc[t] = "r_lookup")  BY <1>2, <2>1 DEF LookupHead
    <3> QED  BY <2>1, <3>1 DEF LookupHead
  <2>2. CASE LookupSearch(t)
    <3>1. reaping = (pc[t] = "r_search")  BY <1>2, <2>2 DEF LookupSearch
    <3> QED  BY <2>2, <3>1 DEF LookupSearch
  <2>3. CASE htc_tx_completion_handler(t)
    <3>1. reaping = (pc[t] = "r_done")  BY <1>2, <2>3 DEF htc_tx_completion_handler
    <3> QED  BY <2>3, <3>1 DEF htc_tx_completion_handler
  <2> QED  BY <2>1, <2>2, <2>3
<1>5. ASSUME NEW l, CreditFlow => pc' = [pc EXCEPT ![t] = l], CreditFlow => UNCHANGED owesSlot,
             l \in IF reaping THEN {"r_done", "r_search", "r_free"} ELSE {"done", "search", "free"}
      PROVE  SlotInv'
  <2>1. (l \in TaskletPcs <=> pc[t] \in TaskletPcs) /\ (l \in ReapPcs <=> pc[t] \in ReapPcs)
    BY <1>3, <1>5
  <2> HIDE DEF TaskletPcs, ReapPcs
  <2> QED  BY <1>1, <1>5, <2>1, SlotMove
<1>6. CASE EndCompletion(t, reaping)
  <2>1. PICK l : l = IF reaping THEN "r_free" ELSE "free"  OBVIOUS
  <2>2. CreditFlow => pc' = [pc EXCEPT ![t] = l] /\ UNCHANGED owesSlot
    BY <1>6, <2>1 DEF EndCompletion, RecheckAfterCompletion, Goto
  <2> QED  BY <1>5, <2>1, <2>2
<1>7. CASE Goto(t, IF reaping THEN "r_done" ELSE "done") /\ UNCHANGED owesSlot
  <2>1. PICK l : l = IF reaping THEN "r_done" ELSE "done"  OBVIOUS
  <2>2. pc' = [pc EXCEPT ![t] = l] /\ UNCHANGED owesSlot
    BY <1>7, <2>1 DEF Goto
  <2> QED  BY <1>5, <2>1, <2>2
<1>8. CASE Goto(t, IF reaping THEN "r_search" ELSE "search") /\ UNCHANGED owesSlot
  <2>1. PICK l : l = IF reaping THEN "r_search" ELSE "search"  OBVIOUS
  <2>2. pc' = [pc EXCEPT ![t] = l] /\ UNCHANGED owesSlot
    BY <1>8, <2>1 DEF Goto
  <2> QED  BY <1>5, <2>1, <2>2
<1> QED  BY <1>4, <1>6, <1>7, <1>8

\* A packet takes a slot.
LEMMA SlotTaken ==
  ASSUME TypeInv, SlotInv, UNCHANGED conn, NEW t \in Threads, hif_send_head(t)
  PROVE  SlotInv'
<1>1. CASE num_sends_allowed < 1
  <2>1. PICK l : l = "fail"  OBVIOUS
  <2>2. /\ pc' = [pc EXCEPT ![t] = l] /\ (l \in TaskletPcs <=> pc[t] \in TaskletPcs)
        /\ (l \in ReapPcs <=> pc[t] \in ReapPcs)
        /\ UNCHANGED <<num_sends_allowed, wire, sw_index, owesSlot>>
    BY <1>1, <2>1 DEF hif_send_head, Goto, TaskletPcs, ReapPcs
  <2> QED  BY <2>2, SlotMove
<1>2. CASE ~(num_sends_allowed < 1)
  <2>0. PICK l \in {"put", "issue"} : pc' = [pc EXCEPT ![t] = l]
    BY <1>2 DEF hif_send_head, Goto
  <2>1. /\ pc[t] = "head" /\ pc' = [pc EXCEPT ![t] = l]
        /\ num_sends_allowed' = num_sends_allowed - 1 /\ wire' = Append(wire, pPacket[t])
        /\ UNCHANGED <<sw_index, owesSlot>>
    BY <1>2, <2>0 DEF hif_send_head
  <2>2. Len(wire') = Len(wire) + 1 /\ Len(wire) \in Nat /\ sw_index \in Nat
        /\ num_sends_allowed \in Nat
    <3>1. wire \in Seq(Packets) /\ pPacket[t] \in Packets
      BY <2>1, Lists DEF TypeInv, HandTypes, Sending
    <3> QED  BY <2>1, <3>1 DEF TypeInv, CountTypes
  <2>3. pc'[t] = l /\ l \in {"put", "issue"} /\ \A u \in Threads : u # t => pc'[u] = pc[u]
    BY <2>1, Lists
  <2>4. \A u \in Threads : /\ pc'[u] \in TaskletPcs <=> pc[u] \in TaskletPcs
                           /\ pc'[u] \in ReapPcs <=> pc[u] \in ReapPcs
    BY <2>1, <2>3 DEF TaskletPcs, ReapPcs
  <2>5. /\ Busy(TaskletPcs)' = Busy(TaskletPcs) /\ Busy(ReapPcs)' = Busy(ReapPcs)
        /\ Busy(TaskletPcs) \in Nat /\ Busy(ReapPcs) \in Nat
    BY <2>4 DEF Busy, TaskletPcs, ReapPcs
  <2> QED  BY <2>1, <2>2, <2>4, <2>5 DEF SlotInv, CreditFlow, PipeSize
<1> QED  BY <1>1, <1>2

\* A completion comes off the ring.
LEMMA SlotPopped ==
  ASSUME TypeInv, SlotInv, UNCHANGED conn, NEW t \in Threads,
         (t \in Tasklets /\ ce_per_engine_service(t)) \/ ce_per_engine_servicereap(t)
  PROVE  SlotInv'
<1>1. CASE pc[t] = "reap" /\ pc' = [pc EXCEPT ![t] = "head"]
           /\ UNCHANGED <<num_sends_allowed, wire, sw_index, owesSlot>>
  <2>1. PICK l : l = "head"  OBVIOUS
  <2>2. /\ pc' = [pc EXCEPT ![t] = l] /\ (l \in TaskletPcs <=> pc[t] \in TaskletPcs)
        /\ (l \in ReapPcs <=> pc[t] \in ReapPcs)
    BY <1>1, <2>1 DEF TaskletPcs, ReapPcs
  <2> QED  BY <1>1, <2>2, SlotMove
<1>2. ASSUME NEW l \in {"lookup", "r_lookup"}, PopCompletion(t, l),
             l = "lookup" => pc[t] = "idle" /\ t \in Tasklets,
             l = "r_lookup" => pc[t] = "reap"
      PROVE  SlotInv'
  <2> SUFFICES ASSUME CreditFlow PROVE SlotInv'
    BY DEF SlotInv, CreditFlow
  <2>1. /\ pc' = [pc EXCEPT ![t] = l] /\ sw_index' = sw_index + 1
        /\ UNCHANGED <<num_sends_allowed, wire, owesSlot>>
    BY <1>2 DEF PopCompletion, Goto
  <2>2. /\ Len(wire) \in Nat /\ sw_index \in Nat /\ num_sends_allowed \in Nat
    BY Lists DEF TypeInv, CountTypes
  <2>3. pc'[t] = l /\ \A u \in Threads : u # t => pc'[u] = pc[u]
    BY <2>1, Lists
  <2>4. CASE l = "lookup"
    <3>1. pc[t] \notin TaskletPcs /\ pc'[t] \in TaskletPcs /\ pc[t] \notin ReapPcs
          /\ pc'[t] \notin ReapPcs
      BY <1>2, <2>3, <2>4 DEF TaskletPcs, ReapPcs
    <3>2. \A u \in Threads : pc[u] \notin TaskletPcs
      BY <1>2, <2>4, <3>1, ConstAssumption DEF SlotInv
    <3>3. Busy(TaskletPcs) = 0
      BY <3>2 DEF Busy
    <3>4. Busy(TaskletPcs)' = 1
      BY <3>1 DEF Busy, TaskletPcs
    <3>5. Busy(ReapPcs)' = Busy(ReapPcs) /\ Busy(ReapPcs) \in Nat
      BY <2>3, <3>1 DEF Busy, ReapPcs
    <3>6. \A u \in Threads : pc'[u] \in TaskletPcs => u \in Tasklets
      BY <1>2, <2>3, <2>4 DEF SlotInv
    <3> QED  BY <2>1, <2>2, <3>3, <3>4, <3>5, <3>6 DEF SlotInv, CreditFlow, PipeSize
  <2>5. CASE l = "r_lookup"
    <3>1. pc[t] \notin TaskletPcs /\ pc'[t] \notin TaskletPcs /\ pc[t] \notin ReapPcs
          /\ pc'[t] \in ReapPcs /\ pc[t] \in DrainPcs
      BY <1>2, <2>3, <2>5 DEF TaskletPcs, ReapPcs, DrainPcs
    <3>2. \A u \in Threads : pc[u] \notin ReapPcs
      <4>1. \A u \in Threads : u # t => pc[u] \notin DrainPcs  BY <3>1, SenderIsAlone
      <4> QED  BY <3>1, <4>1 DEF ReapPcs, DrainPcs
    <3>3. Busy(ReapPcs) = 0
      BY <3>2 DEF Busy
    <3>4. Busy(ReapPcs)' = 1
      BY <3>1 DEF Busy, ReapPcs
    <3>5. Busy(TaskletPcs)' = Busy(TaskletPcs) /\ Busy(TaskletPcs) \in Nat
      BY <2>3, <3>1 DEF Busy, TaskletPcs
    <3>6. \A u \in Threads : pc'[u] \in TaskletPcs => u \in Tasklets
      BY <2>3, <3>1 DEF SlotInv
    <3> QED  BY <2>1, <2>2, <3>3, <3>4, <3>5, <3>6 DEF SlotInv, CreditFlow, PipeSize
  <2> QED  BY <2>4, <2>5
<1>3. CASE t \in Tasklets /\ ce_per_engine_service(t)
  BY <1>2, <1>3 DEF ce_per_engine_service
<1>4. CASE ce_per_engine_servicereap(t) /\ PopCompletion(t, "r_lookup")
  BY <1>2, <1>4 DEF ce_per_engine_servicereap
<1>5. CASE ce_per_engine_servicereap(t) /\ ~PopCompletion(t, "r_lookup")
  BY <1>1, <1>5 DEF ce_per_engine_servicereap, Goto, pipe, locals
<1> QED  BY <1>3, <1>4, <1>5

\* Its slot is free again.
LEMMA SlotFreed ==
  ASSUME TypeInv, SlotInv, UNCHANGED conn, NEW t \in Threads, hif_pci_ce_send_done(t)
  PROVE  SlotInv'
<1> SUFFICES ASSUME CreditFlow PROVE SlotInv'
  BY DEF SlotInv, CreditFlow
<1>1. /\ num_sends_allowed' = num_sends_allowed + 1 /\ UNCHANGED <<wire, sw_index>>
      /\ pc[t] \in {"free", "r_free"}
      /\ pc' = [pc EXCEPT ![t] = IF pc[t] = "free" THEN "idle" ELSE "reap"]
      /\ owesSlot' \in {owesSlot, [owesSlot EXCEPT ![t] = FALSE]}
  BY DEF hif_pci_ce_send_done, SlotsAfterCompletion, Goto
<1>2. /\ Len(wire) \in Nat /\ sw_index \in Nat /\ num_sends_allowed \in Nat
      /\ owesSlot \in [Threads -> BOOLEAN]
  BY Lists DEF TypeInv, CountTypes, FlagTypes
<1>3. /\ pc'[t] = IF pc[t] = "free" THEN "idle" ELSE "reap"
      /\ \A u \in Threads : u # t => pc'[u] = pc[u]
  BY <1>1, Lists
<1>4. \A u \in Threads : ~owesSlot'[u]
  BY <1>1, <1>2 DEF SlotInv
<1>5. pc'[t] \notin TaskletPcs \cup ReapPcs
  BY <1>1, <1>3 DEF TaskletPcs, ReapPcs
<1>6. \A u \in Threads : pc'[u] \in TaskletPcs => u \in Tasklets
  BY <1>3, <1>5 DEF SlotInv
<1>7. CASE pc[t] = "free"
  <2>1. pc[t] \in TaskletPcs /\ pc[t] \notin ReapPcs  BY <1>7 DEF TaskletPcs, ReapPcs
  <2>2. \A u \in Threads : u # t => pc[u] \notin TaskletPcs
    BY <2>1, ConstAssumption DEF SlotInv
  <2>3. Busy(TaskletPcs) = 1  BY <2>1 DEF Busy
  <2>4. Busy(TaskletPcs)' = 0
    BY <1>3, <1>5, <2>2 DEF Busy, TaskletPcs
  <2>5. Busy(ReapPcs)' = Busy(ReapPcs) /\ Busy(ReapPcs) \in Nat
    BY <1>3, <1>5, <2>1 DEF Busy, ReapPcs
  <2> QED  BY <1>1, <1>2, <1>4, <1>6, <2>3, <2>4, <2>5 DEF SlotInv, CreditFlow, PipeSize
<1>8. CASE pc[t] = "r_free"
  <2>1. pc[t] \notin TaskletPcs /\ pc[t] \in ReapPcs /\ pc[t] \in DrainPcs
    BY <1>8 DEF TaskletPcs, ReapPcs, DrainPcs
  <2>2. \A u \in Threads : u # t => pc[u] \notin ReapPcs
    <3>1. \A u \in Threads : u # t => pc[u] \notin DrainPcs  BY <2>1, SenderIsAlone
    <3> QED  BY <3>1 DEF ReapPcs, DrainPcs
  <2>3. Busy(ReapPcs) = 1  BY <2>1 DEF Busy
  <2>4. Busy(ReapPcs)' = 0
    BY <1>3, <1>5, <2>2 DEF Busy, ReapPcs
  <2>5. Busy(TaskletPcs)' = Busy(TaskletPcs) /\ Busy(TaskletPcs) \in Nat
    BY <1>3, <1>5, <2>1 DEF Busy, TaskletPcs
  <2> QED  BY <1>1, <1>2, <1>4, <1>6, <2>3, <2>4, <2>5 DEF SlotInv, CreditFlow, PipeSize
<1> QED  BY <1>1, <1>7, <1>8

\* Every slot is free, in use on the ring, or with the completion that is being
\* processed.
LEMMA SlotStep ==
  ASSUME TypeInv, SlotInv, [Next]_vars
  PROVE  SlotInv'
<1>0. UNCHANGED conn  BY ConnStep
<1>1. ASSUME NEW t \in Threads, ThreadStep(t) PROVE SlotInv'
  <2>1. CASE \/ ReadFreeQueueNumber(t) \/ htc_kick_queues(t) \/ EnterTrySend(t)
             \/ DrainLoop(t) \/ StopTaking(t) \/ IssueNext(t) \/ IssueEnd(t)
             \/ RereadFreeQueueNumber(t) \/ Relock(t) \/ PutWhenIssued(t)
             \/ hif_send_complete_check(t)
             \/ IssueFailed(t) \/ SpliceRead(t) \/ SpliceWrite(t) \/ ClearAfterFailure(t)
    BY <1>0, <2>1, SlotQuiet
  <2>2. CASE LookupHead(t) \/ LookupSearch(t) \/ htc_tx_completion_handler(t)
    BY <1>0, <2>2, SlotLookup
  <2>3. CASE hif_send_head(t)  BY <1>0, <2>3, SlotTaken
  <2>4. CASE ce_per_engine_servicereap(t)  BY <1>0, <2>4, SlotPopped
  <2>5. CASE hif_pci_ce_send_done(t)  BY <1>0, <2>5, SlotFreed
  <2>6. CASE \E i \in 1..Len(TxQueue) : TakePacket(t, i)
    BY <1>0, <2>6, SlotStill DEF TakePacket, pipe
  <2> QED  BY <1>1, <2>1, <2>2, <2>3, <2>4, <2>5, <2>6, Zenon DEF ThreadStep
<1>2. CASE \E t \in Senders, p \in Packets : htc_send_pkt(t, p)
  BY <1>0, <1>2, SlotQuiet DEF Threads
<1>3. CASE \E t \in Tasklets : ce_per_engine_service(t)
  BY <1>0, <1>3, SlotPopped DEF Threads
<1>4. CASE \E t \in Reporters : htc_process_credit_rpt(t)
  <2>1. PICK t \in Reporters : htc_process_credit_rpt(t)  BY <1>4
  <2>2. t \in Threads  BY DEF Threads
  <2>3. CASE RecheckAfterReport  BY <1>0, <2>1, <2>2, <2>3, SlotQuiet
  <2>4. CASE ~RecheckAfterReport
    BY <1>0, <2>1, <2>4, SlotStill DEF htc_process_credit_rpt, pipe, locals
  <2> QED  BY <2>3, <2>4
<1>5. CASE \/ \E t \in Workers : htc_flush_endpoint_tx(t)
           \/ TargetReceives \/ UNCHANGED vars
  BY <1>0, <1>5, SlotStill DEF htc_flush_endpoint_tx, TargetReceives, vars, pipe, locals
<1> QED  BY <1>1, <1>2, <1>3, <1>4, <1>5 DEF Next

\* With more slots than credits, a sender that has reaped all there is finds a
\* free slot: each packet on the ring, and the one in its hand, holds a credit.
LEMMA RoomToSend ==
  ASSUME TypeInv, PlaceInv, SlotInv, PaidOK, AmplePipe, Total <= TxAlloc,
         NEW t \in Threads, pc[t] = "reap", sw_index = hw_index
  PROVE  num_sends_allowed >= 1
<1>1. ChargedIs /\ CreditFlow /\ PipeSize > TxAlloc
  BY ChargedAre DEF AmplePipe
<1>2. /\ Len(wire) \in Nat /\ hw_index \in 0..Len(wire) /\ wire \in Seq(Packets)
      /\ num_sends_allowed \in Nat /\ TxCredits \in Nat /\ fwCredits \in Nat
      /\ TxAlloc \in Nat /\ PipeSize \in Nat /\ CreditsUsed \in [Packets -> Nat]
  <2>1. PipeSize \in Nat  BY ConstAssumption DEF TypeInv, PipeSize
  <2> QED  BY <2>1, Lists, ConstAssumption DEF TypeInv, CountTypes
<1>3. /\ IsFiniteSet(CreditsIn(Charged, CreditsUsed))
      /\ Cardinality(CreditsIn(Charged, CreditsUsed)) \in Nat
  <2>1. Charged \subseteq Packets  BY <1>1 DEF ChargedIs
  <2>2. IsFiniteSet(Charged)  BY <2>1, FS_Subset, ConstAssumption
  <2>3. \A p \in Charged : CreditsUsed[p] \in Nat  BY <1>2, <2>1
  <2> QED  BY <2>2, <2>3, CreditsFinite
<1>4. \A p \in Charged : <<p, 1>> \in CreditsIn(Charged, CreditsUsed)
  <2> SUFFICES ASSUME NEW p \in Charged PROVE <<p, 1>> \in CreditsIn(Charged, CreditsUsed)
    OBVIOUS
  <2>1. CreditsUsed[p] \in Nat /\ CreditsUsed[p] >= 1
    BY <1>1, <1>2 DEF PaidOK, ChargedIs
  <2>2. 1 \in 1..CreditsUsed[p]  BY <2>1
  <2> QED  BY <2>2 DEF CreditsIn
<1>5. /\ pPacket[t] \in Charged
      /\ \A i \in (hw_index + 1)..Len(wire) : wire[i] \in Charged
  <2>1. pPacket[t] \in Packets /\ InHand(pPacket[t])
    BY DEF TypeInv, HandTypes, InHand, Sending
  <2>2. \A i \in (hw_index + 1)..Len(wire) : wire[i] \in Packets /\ Unsent(wire[i])
    BY <1>2 DEF Unsent
  <2> QED  BY <1>1, <2>1, <2>2 DEF ChargedIs
<1> DEFINE f == [i \in hw_index..Len(wire) |->
                   IF i = hw_index THEN <<pPacket[t], 1>> ELSE <<wire[i], 1>>]
<1>6. f \in Injection(hw_index..Len(wire), CreditsIn(Charged, CreditsUsed))
  <2>1. \A i \in hw_index..Len(wire) : i # hw_index => i \in (hw_index + 1)..Len(wire)
    BY <1>2
  <2>2. \A i \in (hw_index + 1)..Len(wire) : i \in 1..Len(wire)
    BY <1>2
  <2>3. f \in [hw_index..Len(wire) -> CreditsIn(Charged, CreditsUsed)]
    BY <1>4, <1>5, <2>1
  <2>4. \A i \in (hw_index + 1)..Len(wire) : wire[i] # pPacket[t]
    BY <2>2 DEF PlaceInv, WireOK, ElementsOf
  <2>5. \A i, j \in hw_index..Len(wire) : f[i] = f[j] => i = j
    BY <2>1, <2>2, <2>4 DEF PlaceInv, ListsOK, Uniq
  <2> QED  BY <2>3, <2>5 DEF Injection, IsInjective
<1> HIDE DEF f
<1>7. Cardinality(hw_index..Len(wire)) <= Cardinality(CreditsIn(Charged, CreditsUsed))
  BY <1>3, <1>6, FS_Injection
<1>8. Cardinality(hw_index..Len(wire)) = Len(wire) - hw_index + 1
  <2>1. hw_index \in Int /\ Len(wire) \in Int /\ ~(hw_index > Len(wire))  BY <1>2
  <2> QED  BY <2>1, FS_Interval
<1>9. Busy(ReapPcs) = 0
  <2>1. pc[t] \in DrainPcs /\ pc[t] \notin ReapPcs  BY DEF DrainPcs, ReapPcs
  <2>2. \A u \in Threads : u # t => pc[u] \notin DrainPcs  BY <2>1, SenderIsAlone
  <2> QED  BY <2>1, <2>2 DEF Busy, ReapPcs, DrainPcs
<1>10. Busy(TaskletPcs) \in 0..1
  BY DEF Busy
<1>11. num_sends_allowed + (Len(wire) - hw_index) + Busy(TaskletPcs) = PipeSize
  BY <1>1, <1>2, <1>9, <1>10 DEF SlotInv
<1>12. Cardinality(CreditsIn(Charged, CreditsUsed)) <= TxAlloc
  BY <1>2, <1>3 DEF Total
<1> QED  BY <1>1, <1>2, <1>3, <1>7, <1>8, <1>10, <1>11, <1>12

\* How a thread comes to post a packet, and to a refusal.
LEMMA HeadSteps ==
  ASSUME TypeInv, [Next]_vars, NEW u \in Threads
  PROVE  /\ pc'[u] = "head" =>
               \/ pc[u] = "head" /\ num_sends_allowed' >= num_sends_allowed
               \/ hif_send_complete_check(u) /\ PlentyOfSlots /\ UNCHANGED num_sends_allowed
               \/ pc[u] = "reap" /\ sw_index = hw_index /\ UNCHANGED num_sends_allowed
         /\ pc'[u] \in FailPcs =>
               pc[u] \in FailPcs \/ (pc[u] = "head" /\ num_sends_allowed < 1)
<1> DEFINE Good ==
         /\ pc'[u] = "head" =>
               \/ pc[u] = "head" /\ num_sends_allowed' >= num_sends_allowed
               \/ hif_send_complete_check(u) /\ PlentyOfSlots /\ UNCHANGED num_sends_allowed
               \/ pc[u] = "reap" /\ sw_index = hw_index /\ UNCHANGED num_sends_allowed
         /\ pc'[u] \in FailPcs =>
               pc[u] \in FailPcs \/ (pc[u] = "head" /\ num_sends_allowed < 1)
<1> SUFFICES Good  OBVIOUS
<1>0. num_sends_allowed \in Nat  BY DEF TypeInv, CountTypes
<1>1. ASSUME NEW t \in Threads, NEW l, pc' = [pc EXCEPT ![t] = l], l \notin FailPcs, l # "head",
             num_sends_allowed' >= num_sends_allowed
      PROVE  Good
  <2>1. pc'[t] = l /\ \A v \in Threads : v # t => pc'[v] = pc[v]  BY <1>1, Lists
  <2> QED  BY <1>1, <2>1 DEF FailPcs
<1>2. num_sends_allowed >= num_sends_allowed /\ num_sends_allowed + 1 >= num_sends_allowed
  BY <1>0
<1>3. ASSUME UNCHANGED <<pc, num_sends_allowed>> PROVE Good
  BY <1>2, <1>3
<1>4. TrySendEntry \in {"enter", "free_queue"}
  BY DEF TrySendEntry
<1>5. CASE \E t \in Senders, p \in Packets : htc_send_pkt(t, p)
  <2>1. PICK t \in Senders : \E p \in Packets : htc_send_pkt(t, p)  BY <1>5
  <2>2. PICK l : l = TrySendEntry  OBVIOUS
  <2>3. /\ t \in Threads /\ pc' = [pc EXCEPT ![t] = l] /\ l \notin FailPcs /\ l # "head"
        /\ UNCHANGED num_sends_allowed
    BY <1>4, <2>1, <2>2 DEF htc_send_pkt, Goto, pipe, Threads, FailPcs
  <2> QED  BY <1>1, <1>2, <2>3
<1>6. CASE \E t \in Tasklets : ce_per_engine_service(t)
  BY <1>1, <1>2, <1>6 DEF ce_per_engine_service, PopCompletion, Goto, Threads, FailPcs
<1>7. CASE \E t \in Reporters : htc_process_credit_rpt(t)
  <2>1. PICK t \in Reporters : htc_process_credit_rpt(t)  BY <1>7
  <2>2. UNCHANGED num_sends_allowed  BY <2>1 DEF htc_process_credit_rpt, pipe
  <2>3. CASE RecheckAfterReport
    <3>1. PICK l : l = TrySendEntry  OBVIOUS
    <3>2. t \in Threads /\ pc' = [pc EXCEPT ![t] = l] /\ l \notin FailPcs /\ l # "head"
      BY <1>4, <2>1, <2>3, <3>1 DEF htc_process_credit_rpt, Goto, Threads, FailPcs
    <3> QED  BY <1>1, <1>2, <2>2, <3>2
  <2>4. CASE ~RecheckAfterReport
    BY <1>3, <2>1, <2>2, <2>4 DEF htc_process_credit_rpt
  <2> QED  BY <2>3, <2>4
<1>8. CASE \/ \E t \in Workers : htc_flush_endpoint_tx(t)
           \/ TargetReceives \/ UNCHANGED vars
  BY <1>3, <1>8 DEF htc_flush_endpoint_tx, TargetReceives, vars, pipe
<1>9. ASSUME NEW t \in Threads, ThreadStep(t) PROVE Good
  <2>1. TrySendReturn(t) \in {"idle", "free"}
    BY DEF TrySendReturn
  <2>2. CASE ReadFreeQueueNumber(t) \/ htc_kick_queues(t) \/ IssueNext(t) \/ IssueEnd(t)
    BY <1>1, <1>2, <1>4, <2>2 DEF ReadFreeQueueNumber, htc_kick_queues, IssueNext, IssueEnd,
       Goto, pipe, FailPcs
  <2>3. CASE RereadFreeQueueNumber(t) \/ Relock(t) \/ PutWhenIssued(t)
    BY <1>1, <1>2, <2>3 DEF RereadFreeQueueNumber, Relock, PutWhenIssued, Goto, pipe, FailPcs
  <2>4. CASE EnterTrySend(t)
    BY <1>1, <1>2, <2>1, <2>4 DEF EnterTrySend, Goto, pipe, FailPcs
  <2>5. CASE DrainLoop(t)
    BY <1>1, <1>2, <2>1, <2>5 DEF DrainLoop, EndDrain, Goto, pipe, FailPcs
  <2>6. CASE \E i \in 1..Len(TxQueue) : TakePacket(t, i)
    BY <1>3, <2>6 DEF TakePacket, pipe
  <2>7. CASE StopTaking(t)
    BY <1>1, <1>2, <2>1, <2>7 DEF StopTaking, EndDrain, Goto, pipe, FailPcs
  <2>8. CASE hif_send_complete_check(t)
    <3>1. UNCHANGED num_sends_allowed /\ pc' = [pc EXCEPT ![t] = IF PlentyOfSlots THEN "head" ELSE "reap"]
      BY <2>8 DEF hif_send_complete_check, Goto, pipe
    <3>2. pc'[t] = (IF PlentyOfSlots THEN "head" ELSE "reap") /\ \A v \in Threads : v # t => pc'[v] = pc[v]
      BY <3>1, Lists
    <3> QED  BY <1>2, <2>8, <3>1, <3>2 DEF FailPcs
  <2>9. CASE hif_send_head(t)
    <3>1. pc[t] = "head"  BY <2>9 DEF hif_send_head
    <3>2. \A v \in Threads : v # t => pc'[v] = pc[v] /\ pc[v] # "head"
      <4>1. \A v \in Threads : v # t => pc[v] \notin DrainPcs
        BY <3>1, SenderIsAlone DEF DrainPcs
      <4> QED  BY <2>9, <4>1, Lists DEF hif_send_head, Goto, DrainPcs
    <3>3. CASE num_sends_allowed < 1
      BY <2>9, <3>1, <3>2, <3>3, Lists DEF hif_send_head, Goto, FailPcs
    <3>4. CASE ~(num_sends_allowed < 1)
      <4>1. pc'[t] \in {"put", "issue"}  BY <2>9, <3>4, Lists DEF hif_send_head, Goto
      <4> QED  BY <3>2, <4>1 DEF FailPcs
    <3> QED  BY <3>3, <3>4
  <2>10. CASE IssueFailed(t) \/ SpliceRead(t) \/ SpliceWrite(t)
    <3>1. /\ pc[t] \in FailPcs /\ \A v \in Threads : v # t => pc'[v] = pc[v]
          /\ pc'[t] # "head" /\ UNCHANGED num_sends_allowed
      BY <2>10, Lists DEF IssueFailed, SpliceRead, SpliceWrite, Goto, FailPcs, pipe
    <3> QED  BY <1>2, <3>1
  <2>11. CASE ClearAfterFailure(t)
    BY <1>1, <1>2, <2>1, <2>11 DEF ClearAfterFailure, EndDrain, Goto, pipe, FailPcs
  <2>12. CASE ce_per_engine_servicereap(t)
    <3>1. UNCHANGED num_sends_allowed  BY <2>12 DEF ce_per_engine_servicereap, PopCompletion, pipe
    <3>2. CASE PopCompletion(t, "r_lookup")
      BY <1>1, <1>2, <3>1, <3>2 DEF PopCompletion, Goto, FailPcs
    <3>3. CASE sw_index = hw_index /\ Goto(t, "head")
      <4>1. pc[t] = "reap" /\ \A v \in Threads : v # t => pc'[v] = pc[v]
        BY <2>12, <3>3, Lists DEF ce_per_engine_servicereap, Goto
      <4>2. pc'[t] = "head"  BY <3>3, Lists DEF Goto
      <4> QED  BY <1>2, <3>1, <3>3, <4>1, <4>2 DEF FailPcs
    <3> QED  BY <2>12, <3>2, <3>3 DEF ce_per_engine_servicereap
  <2>13. CASE LookupHead(t) \/ LookupSearch(t) \/ htc_tx_completion_handler(t)
    <3>1. UNCHANGED num_sends_allowed
      BY <2>13 DEF LookupHead, LookupSearch, htc_tx_completion_handler, pipe
    <3>2. ASSUME NEW reaping \in BOOLEAN, EndCompletion(t, reaping)
          PROVE  Good
      <4>1. PICK l \in {"r_free", "free", "free_queue", "enter"} : pc' = [pc EXCEPT ![t] = l]
        BY <3>2, EndCompletionGoes
      <4>2. l \notin FailPcs /\ l # "head"  BY DEF FailPcs
      <4> QED  BY <1>1, <1>2, <3>1, <4>1, <4>2
    <3>3. ASSUME NEW reaping \in BOOLEAN,
                 \/ Goto(t, IF reaping THEN "r_done" ELSE "done")
                 \/ Goto(t, IF reaping THEN "r_search" ELSE "search")
          PROVE  Good
      <4>1. PICK l \in {"r_done", "done", "r_search", "search"} : pc' = [pc EXCEPT ![t] = l]
        BY <3>3 DEF Goto
      <4>2. l \notin FailPcs /\ l # "head"  BY DEF FailPcs
      <4> QED  BY <1>1, <1>2, <3>1, <4>1, <4>2
    <3>4. \E reaping \in BOOLEAN :
             \/ EndCompletion(t, reaping)
             \/ Goto(t, IF reaping THEN "r_done" ELSE "done")
             \/ Goto(t, IF reaping THEN "r_search" ELSE "search")
      <4>1. CASE LookupHead(t)
        <5>1. PICK reaping \in BOOLEAN : reaping = (pc[t] = "r_lookup")  OBVIOUS
        <5>2. \/ EndCompletion(t, reaping)
              \/ Goto(t, IF reaping THEN "r_done" ELSE "done")
              \/ Goto(t, IF reaping THEN "r_search" ELSE "search")
          BY <4>1, <5>1 DEF LookupHead
        <5> QED  BY <5>2
      <4>2. CASE LookupSearch(t)
        <5>1. PICK reaping \in BOOLEAN : reaping = (pc[t] = "r_search")  OBVIOUS
        <5>2. \/ EndCompletion(t, reaping)
              \/ Goto(t, IF reaping THEN "r_done" ELSE "done")
          BY <4>2, <5>1 DEF LookupSearch
        <5> QED  BY <5>2
      <4>3. CASE htc_tx_completion_handler(t)
        <5>1. PICK reaping \in BOOLEAN : reaping = (pc[t] = "r_done")  OBVIOUS
        <5>2. EndCompletion(t, reaping)
          BY <4>3, <5>1 DEF htc_tx_completion_handler
        <5> QED  BY <5>2
      <4> QED  BY <2>13, <4>1, <4>2, <4>3
    <3> HIDE DEF Good
    <3> QED  BY <3>2, <3>3, <3>4
  <2>14. CASE hif_pci_ce_send_done(t)
    <3>1. PICK l \in {"idle", "reap"} : pc' = [pc EXCEPT ![t] = l]
      BY <2>14 DEF hif_pci_ce_send_done, Goto
    <3>2. l \notin FailPcs /\ l # "head" /\ num_sends_allowed' >= num_sends_allowed
      BY <1>2, <2>14 DEF hif_pci_ce_send_done, SlotsAfterCompletion, FailPcs
    <3> QED  BY <1>1, <3>1, <3>2
  <2> HIDE DEF Good
  <2> QED
    BY <1>9, <2>2, <2>3, <2>4, <2>5, <2>6, <2>7, <2>8, <2>9, <2>10, <2>11, <2>12, <2>13, <2>14, Zenon
    DEF ThreadStep
<1> HIDE DEF Good
<1> QED  BY <1>5, <1>6, <1>7, <1>8, <1>9, Zenon DEF Next

-----------------------------------------------------------------------------
(* The accounting of packets and credits *)

\* No credit is made out of nothing.
CreditBound == CreditFlow => Total <= TxAlloc

\* With more slots than credits none is lost either.
CreditExact == AmplePipe => Total = TxAlloc

\* The inductive invariant.
TxInv ==
    /\ TypeInv /\ PlaceInv
    /\ SlotInv /\ PaidOK /\ CreditBound
    /\ HeadOK /\ CreditExact /\ KeptOK

\* With more slots than credits no send is refused.
LEMMA HeadStep ==
  ASSUME TxInv, [Next]_vars
  PROVE  HeadOK'
<1> USE DEF TxInv
<1> SUFFICES ASSUME AmplePipe', NEW u \in Threads
             PROVE  (pc'[u] = "head" => num_sends_allowed' >= 1) /\ pc'[u] \notin FailPcs
  BY DEF HeadOK, FailPcs
<1>1. AmplePipe
  BY ConnStep DEF AmplePipe, CreditFlow, PipeSize
<1>2. /\ pc[u] = "head" => num_sends_allowed >= 1
      /\ pc[u] \notin FailPcs
  BY <1>1 DEF HeadOK
<1>3. num_sends_allowed \in Nat /\ num_sends_allowed' \in Nat
  <2>1. TypeInv'  BY TypeInvStep
  <2> QED  BY <2>1 DEF TypeInv, CountTypes
<1>4. pc'[u] \notin FailPcs
  BY <1>2, <1>3, HeadSteps
<1>5. ASSUME pc'[u] = "head" PROVE num_sends_allowed' >= 1
  <2>1. CASE pc[u] = "head" /\ num_sends_allowed' >= num_sends_allowed
    BY <1>2, <1>3, <2>1
  <2>2. CASE PlentyOfSlots /\ UNCHANGED num_sends_allowed
    <3>1. PipeSize \in Nat  BY ConstAssumption DEF TypeInv, PipeSize
    <3>2. (PipeSize + 1) \div 2 >= 0  BY <3>1
    <3> QED  BY <1>3, <2>2, <3>1, <3>2 DEF PlentyOfSlots
  <2>3. CASE pc[u] = "reap" /\ sw_index = hw_index /\ UNCHANGED num_sends_allowed
    <3>1. CreditFlow  BY <1>1 DEF AmplePipe
    <3>2. Total <= TxAlloc  BY <3>1 DEF CreditBound
    <3> QED  BY <1>1, <2>3, <3>2, RoomToSend
  <2> QED  BY <1>5, <2>1, <2>2, <2>3, HeadSteps
<1> QED  BY <1>4, <1>5

\* The total as a number, named so that it can be primed.
TotalIsNat == Total \in Nat

\* The total of the credits is a number.
LEMMA TotalType == TypeInv /\ PlaceInv => TotalIsNat
<1> SUFFICES ASSUME TypeInv, PlaceInv PROVE Total \in Nat
  BY DEF TotalIsNat
<1>1. Charged \subseteq Packets  BY ChargedAre DEF ChargedIs
<1>2. IsFiniteSet(Charged)  BY <1>1, FS_Subset, ConstAssumption
<1>3. \A p \in Charged : CreditsUsed[p] \in Nat  BY <1>1 DEF TypeInv, CountTypes
<1>4. Cardinality(CreditsIn(Charged, CreditsUsed)) \in Nat  BY <1>2, <1>3, CreditsFinite
<1> QED  BY <1>4 DEF TypeInv, CountTypes, Total

\* One step of the inductive invariant.
LEMMA TxStep == TxInv /\ [Next]_vars => TxInv'
<1> SUFFICES ASSUME TxInv, [Next]_vars PROVE TxInv'
  OBVIOUS
<1> USE DEF TxInv
<1>1. TypeInv' /\ PlaceInv' /\ SlotInv' /\ HeadOK'
  BY TypeInvStep, PlaceStep, SlotStep, HeadStep
<1>2. (AmplePipe' <=> AmplePipe) /\ (CreditFlow' <=> CreditFlow)
  BY ConnStep DEF AmplePipe, CreditFlow, PipeSize
<1>3. Total \in Nat /\ Total' \in Nat /\ TxAlloc \in Nat
  <2>1. TypeInv' /\ PlaceInv' => TotalIsNat'  BY TotalType, PTL
  <2> QED  BY <1>1, <2>1, TotalType, ConstAssumption DEF TotalIsNat
<1>4. PaidOK' /\ CreditBound' /\ CreditExact'
  <2>1. CASE CreditFlow
    <3>1. /\ Total' <= Total /\ PaidOK'
          /\ (\A t \in Threads : pc[t] # "fail") => Total' = Total
      BY <1>1, <2>1, TotalStep
    <3>2. AmplePipe => \A t \in Threads : pc[t] # "fail"
      BY DEF HeadOK, FailPcs
    <3> QED  BY <1>2, <1>3, <2>1, <3>1, <3>2 DEF CreditBound, CreditExact
  <2>2. CASE ~CreditFlow
    BY <1>2, <2>2 DEF PaidOK, CreditBound, CreditExact, AmplePipe
  <2> QED  BY <2>1, <2>2
<1>5. KeptOK'
  <2> SUFFICES ASSUME AmplePipe PROVE \A p \in Packets : ~Gone(p)'
    BY <1>2 DEF KeptOK
  <2>1. \A t \in Threads : ~SpliceWrite(t)
    BY DEF HeadOK, FailPcs, SpliceWrite
  <2>2. \A p \in Packets : Gone(p)' <=> Gone(p)
    BY <2>1, PlaceStep
  <2> QED  BY <2>2 DEF KeptOK
<1> QED  BY <1>1, <1>4, <1>5

\* It holds when the endpoint is set up.
LEMMA InitTx == Init => TxInv
<1> SUFFICES ASSUME Init PROVE TxInv
  OBVIOUS
<1>1. TypeInv /\ PlaceInv  BY InitTypes, InitPlaces
<1>2. /\ \A t \in Threads : sendQueue[t] = <<>> /\ pc[t] = "idle" /\ ~owesSlot[t]
      /\ wire = <<>> /\ Len(wire) = 0 /\ sw_index = 0 /\ hw_index = 0 /\ sent = {}
      /\ num_sends_allowed = PipeSize /\ TxCredits = TxAlloc /\ fwCredits = 0
      /\ TxAlloc \in Nat /\ PipeSize \in Nat
  <2>1. PipeSize \in Nat  BY <1>1, ConstAssumption DEF TypeInv, PipeSize
  <2> QED  BY <2>1, ConstAssumption DEF Init
<1>3. Charged = {}
  <2>1. \A p \in Packets : ~(Loaded(p) \/ InHand(p) \/ Unsent(p))
    BY <1>2 DEF Loaded, InHand, Unsent, Sending, ElementsOf
  <2> QED  BY <1>1, <2>1, ChargedAre DEF ChargedIs
<1>4. Total = TxAlloc
  <2>1. CreditsIn(Charged, CreditsUsed) = {}  BY <1>3 DEF CreditsIn
  <2>2. Cardinality(CreditsIn(Charged, CreditsUsed)) = 0  BY <2>1, FS_EmptySet
  <2> QED  BY <1>2, <2>2 DEF Total
<1>5. PaidOK /\ CreditBound /\ CreditExact
  BY <1>2, <1>3, <1>4 DEF PaidOK, CreditBound, CreditExact
<1>6. SlotInv
  <2>1. Busy(TaskletPcs) = 0 /\ Busy(ReapPcs) = 0
    BY <1>2 DEF Busy, TaskletPcs, ReapPcs
  <2>2. \A t \in Threads : pc[t] \notin TaskletPcs
    BY <1>2 DEF TaskletPcs
  <2> QED  BY <1>2, <2>1, <2>2 DEF SlotInv
<1>7. HeadOK /\ KeptOK
  BY <1>2 DEF HeadOK, KeptOK, FailPcs, Gone
<1> QED  BY <1>1, <1>5, <1>6, <1>7 DEF TxInv

\* Every credit the target assigned to the endpoint is with the endpoint, in a
\* packet on its way, or with the target, whatever threads, completions, credit
\* reports and refused sends do; no step invents one, and with more slots than
\* credits none is lost.
THEOREM CreditsKept == Spec => []CreditsConserved
<1>1. TxInv => CreditsConserved
  <2> SUFFICES ASSUME TxInv PROVE CreditsConserved
    OBVIOUS
  <2>1. CreditsOnTheWay = CreditsIn(Charged, CreditsUsed)
    BY DEF CreditsOnTheWay, CreditsIn
  <2>2. (CreditFlow => Total <= TxAlloc) /\ (AmplePipe => Total = TxAlloc)
    BY DEF TxInv, CreditBound, CreditExact
  <2> QED  BY <2>1, <2>2 DEF CreditsConserved, Total
<1> QED  BY <1>1, InitTx, TxStep, PTL DEF Spec

-----------------------------------------------------------------------------
(* One place *)

\* Where a packet is on a list.
LEMMA PositionsOf ==
  ASSUME NEW s \in Seq(Packets), NEW p
  PROVE  /\ p \notin ElementsOf(s) => Positions(s, p) = {}
         /\ Uniq(s) /\ p \in ElementsOf(s) => \E i \in 1..Len(s) : Positions(s, p) = {i}
BY DEF Positions, ElementsOf, Uniq

\* A packet that HTC owns has one place, another none.
LEMMA PlacesOf ==
  ASSUME TypeInv, PlaceInv, NEW p \in Packets
  PROVE  /\ Owned(p) => \E x : Places(p) = {x}
         /\ ~Owned(p) => Places(p) = {}
<1> USE DEF PlaceInv
<1>1. /\ p \notin ElementsOf(TxQueue) => Positions(TxQueue, p) = {}
      /\ p \notin ElementsOf(TxLookupQueue) => Positions(TxLookupQueue, p) = {}
      /\ p \in ElementsOf(TxQueue) => \E i : Positions(TxQueue, p) = {i}
      /\ p \in ElementsOf(TxLookupQueue) => \E i : Positions(TxLookupQueue, p) = {i}
  <2>1. /\ TxQueue \in Seq(Packets) /\ TxLookupQueue \in Seq(Packets)
        /\ Uniq(TxQueue) /\ Uniq(TxLookupQueue)
    BY Lists DEF ListsOK
  <2> QED  BY <2>1, PositionsOf
<1>2. ASSUME NEW t \in Threads
      PROVE  /\ p \notin ElementsOf(sendQueue[t]) => Positions(sendQueue[t], p) = {}
             /\ p \notin ElementsOf(lookupQueue[t]) => Positions(lookupQueue[t], p) = {}
             /\ p \in ElementsOf(sendQueue[t]) => \E i : Positions(sendQueue[t], p) = {i}
             /\ p \in ElementsOf(lookupQueue[t]) => \E i : Positions(lookupQueue[t], p) = {i}
  <2>1. /\ sendQueue[t] \in Seq(Packets) /\ lookupQueue[t] \in Seq(Packets)
        /\ Uniq(sendQueue[t]) /\ Uniq(lookupQueue[t])
    BY Lists DEF ListsOK
  <2> QED  BY <2>1, PositionsOf
<1>3. \A t \in Threads : ~Has(t, p) => PlacesIn(t, p) = {}
  BY <1>2 DEF Has, PlacesIn
<1>4. ASSUME NEW t \in Threads, Has(t, p) PROVE \E x : PlacesIn(t, p) = {x}
  <2>1. CASE p \in ElementsOf(sendQueue[t])
    <3>1. PICK i : Positions(sendQueue[t], p) = {i}  BY <1>2, <2>1
    <3>2. Positions(lookupQueue[t], p) = {} /\ ~Pointed(t, p)
      BY <1>2, <2>1 DEF Apart
    <3>3. PlacesIn(t, p) = {<<"sendQueue", t, i>>}
      BY <3>1, <3>2 DEF PlacesIn
    <3> QED  BY <3>3
  <2>2. CASE p \in ElementsOf(lookupQueue[t])
    <3>1. PICK i : Positions(lookupQueue[t], p) = {i}  BY <1>2, <2>2
    <3>2. Positions(sendQueue[t], p) = {} /\ ~Pointed(t, p)
      BY <1>2, <2>2 DEF Apart
    <3>3. PlacesIn(t, p) = {<<"lookupQueue", t, i>>}
      BY <3>1, <3>2 DEF PlacesIn
    <3> QED  BY <3>3
  <2>3. CASE Pointed(t, p)
    <3>1. Positions(sendQueue[t], p) = {} /\ Positions(lookupQueue[t], p) = {}
      BY <1>2, <2>3 DEF Apart
    <3>2. PlacesIn(t, p) = {<<"pointer", t>>}
      BY <2>3, <3>1 DEF PlacesIn
    <3> QED  BY <3>2
  <2> QED  BY <1>4, <2>1, <2>2, <2>3 DEF Has
<1>5. ASSUME ~Owned(p) PROVE Places(p) = {}
  BY <1>1, <1>3, <1>5 DEF Owned, Places
<1>6. ASSUME Owned(p) PROVE \E x : Places(p) = {x}
  <2>1. CASE p \in ElementsOf(TxQueue)
    <3>1. PICK i : Positions(TxQueue, p) = {i}  BY <1>1, <2>1
    <3>2. Positions(TxLookupQueue, p) = {} /\ \A t \in Threads : PlacesIn(t, p) = {}
      BY <1>1, <1>3, <2>1 DEF Apart
    <3>3. Places(p) = {<<"TxQueue", i>>}
      BY <3>1, <3>2 DEF Places
    <3> QED  BY <3>3
  <2>2. CASE p \in ElementsOf(TxLookupQueue)
    <3>1. PICK i : Positions(TxLookupQueue, p) = {i}  BY <1>1, <2>2
    <3>2. Positions(TxQueue, p) = {} /\ \A t \in Threads : PlacesIn(t, p) = {}
      BY <1>1, <1>3, <2>2 DEF Apart
    <3>3. Places(p) = {<<"TxLookupQueue", i>>}
      BY <3>1, <3>2 DEF Places
    <3> QED  BY <3>3
  <2>3. CASE \E t \in Threads : Has(t, p)
    <3>1. PICK t \in Threads : Has(t, p)  BY <2>3
    <3>2. PICK x : PlacesIn(t, p) = {x}  BY <1>4, <3>1
    <3>3. /\ Positions(TxQueue, p) = {} /\ Positions(TxLookupQueue, p) = {}
          /\ \A u \in Threads : u # t => PlacesIn(u, p) = {}
      BY <1>1, <1>3, <3>1 DEF Apart
    <3>4. Places(p) = {x}
      BY <3>2, <3>3 DEF Places
    <3> QED  BY <3>4
  <2> QED  BY <1>6, <2>1, <2>2, <2>3 DEF Owned
<1> QED  BY <1>5, <1>6

\* With more slots than credits, a packet given to htc_send_pkt is on one list of
\* HTC or has been handed back once, for any number of threads and packets: no
\* race of senders, completions, credit reports and flushes loses it, lists it
\* twice or completes it twice.
THEOREM PacketsKept == Spec => []OnePlace
<1>1. TxInv => OnePlace
  <2> SUFFICES ASSUME TxInv, AmplePipe, NEW p \in Packets
               PROVE  Copies(p) + completed[p] = IF p \in sent THEN 1 ELSE 0
    BY DEF OnePlace
  <2>1. /\ Owned(p) => p \in sent /\ completed[p] = 0
        /\ completed[p] = 0 \/ (completed[p] = 1 /\ p \in sent)
        /\ ~Gone(p)
    BY DEF TxInv, PlaceInv, OwnedOK, KeptOK
  <2>2. Owned(p) => Copies(p) = 1
    <3> SUFFICES ASSUME Owned(p) PROVE Copies(p) = 1
      OBVIOUS
    <3>1. PICK x : Places(p) = {x}  BY PlacesOf DEF TxInv
    <3> QED  BY <3>1, FS_Singleton DEF Copies
  <2>3. ~Owned(p) => Copies(p) = 0
    BY PlacesOf, FS_EmptySet DEF TxInv, Copies
  <2> QED  BY <2>1, <2>2, <2>3 DEF Gone
<1> QED  BY <1>1, InitTx, TxStep, PTL DEF Spec

-----------------------------------------------------------------------------
(* Order *)

\* The packets of a sender and class wait in order: first the one in the hand of
\* the drainer, then its local queue, then TxQueue.
OrderOK ==
    /\ Sorted(TxQueue)
    /\ \A t \in Threads :
          /\ Sorted(sendQueue[t])
          /\ Precedes(ElementsOf(sendQueue[t]), ElementsOf(TxQueue))
          /\ pc[t] \in Sending =>
                Precedes({pPacket[t]}, ElementsOf(sendQueue[t]) \cup ElementsOf(TxQueue))

\* A packet that waits for its completion went to the copy engine, or is just
\* going there.
LookupOK == \A p \in Packets : OnLookup(p) => p \in ElementsOf(wire) \/ InHand(p)

\* Threads go on sending what they are sending.
SendersStay ==
    \A u \in Threads : /\ pc'[u] \in Sending <=> pc[u] \in Sending
                       /\ pc[u] \in Sending => pPacket'[u] = pPacket[u]

\* A step that leaves senders, queues and what waits for its completion alone.
LEMMA QuietOrder ==
  ASSUME OrderOK, SendersStay, UNCHANGED <<TxQueue, sendQueue>>
  PROVE  OrderOK'
BY DEF OrderOK, SendersStay

\* The same for the lookup queues.
LEMMA QuietLookup ==
  ASSUME LookupOK, SendersStay, UNCHANGED wire,
         \A p \in Packets : OnLookup(p)' => OnLookup(p)
  PROVE  LookupOK'
<1> SUFFICES ASSUME NEW p \in Packets, OnLookup(p)'
             PROVE  p \in ElementsOf(wire') \/ InHand(p)'
  BY DEF LookupOK
<1>1. p \in ElementsOf(wire) \/ InHand(p)  BY DEF LookupOK
<1>2. InHand(p) => InHand(p)'  BY DEF InHand, SendersStay
<1> QED  BY <1>1, <1>2

\* All steps but the three that give a packet to the copy engine.
LEMMA OtherSteps ==
  ASSUME TypeInv, NEW t \in Threads,
         \/ \E p \in Packets : htc_send_pkt(t, p)
         \/ ce_per_engine_service(t) \/ htc_process_credit_rpt(t) \/ htc_flush_endpoint_tx(t)
         \/ ReadFreeQueueNumber(t) \/ htc_kick_queues(t) \/ EnterTrySend(t) \/ DrainLoop(t)
         \/ \E i \in 1..Len(TxQueue) : TakePacket(t, i)
         \/ StopTaking(t) \/ IssueEnd(t) \/ RereadFreeQueueNumber(t) \/ Relock(t)
         \/ PutWhenIssued(t)
         \/ hif_send_complete_check(t) \/ SpliceRead(t) \/ SpliceWrite(t)
         \/ ClearAfterFailure(t) \/ ce_per_engine_servicereap(t) \/ LookupHead(t)
         \/ LookupSearch(t) \/ htc_tx_completion_handler(t) \/ hif_pci_ce_send_done(t)
  PROVE  SendersStay /\ UNCHANGED wire
<1>1. CASE \/ ReadFreeQueueNumber(t) \/ htc_kick_queues(t) \/ DrainLoop(t) \/ StopTaking(t)
           \/ IssueEnd(t)
           \/ RereadFreeQueueNumber(t) \/ Relock(t) \/ PutWhenIssued(t)
           \/ hif_send_complete_check(t)
           \/ SpliceRead(t) \/ ClearAfterFailure(t)
  <2>1. PICK l : pc' = [pc EXCEPT ![t] = l] /\ (l \in Sending <=> pc[t] \in Sending)
    BY <1>1, LoopGoes
  <2>2. UNCHANGED <<pPacket, wire>>
    BY <1>1 DEF ReadFreeQueueNumber, htc_kick_queues, DrainLoop, StopTaking, IssueEnd,
       RereadFreeQueueNumber,
                Relock, PutWhenIssued, hif_send_complete_check, SpliceRead, ClearAfterFailure,
                pipe, locals
  <2> QED  BY <2>1, <2>2, Lists DEF SendersStay
<1>2. CASE \/ ce_per_engine_service(t) \/ ce_per_engine_servicereap(t)
           \/ hif_pci_ce_send_done(t) \/ LookupHead(t) \/ LookupSearch(t)
           \/ htc_tx_completion_handler(t)
  <2>1. PICK l : pc' = [pc EXCEPT ![t] = l] /\ (l \in Sending <=> pc[t] \in Sending)
    BY <1>2, RingGoes
  <2>2. UNCHANGED <<pPacket, wire>>
    BY <1>2 DEF ce_per_engine_service, ce_per_engine_servicereap, PopCompletion,
                hif_pci_ce_send_done, LookupHead, LookupSearch, htc_tx_completion_handler,
                pipe, locals
  <2> QED  BY <2>1, <2>2, Lists DEF SendersStay
<1>3. CASE (\E p \in Packets : htc_send_pkt(t, p)) \/ EnterTrySend(t)
  <2>1. /\ UNCHANGED wire
        /\ pc'[t] \in {"free_queue", "enter", "idle", "free", "drain"}
        /\ pc[t] \in {"idle", "enter"}
        /\ \A u \in Threads : u # t => pc'[u] = pc[u] /\ pPacket'[u] = pPacket[u]
    <3>1. TrySendEntry \in {"free_queue", "enter"} /\ TrySendReturn(t) \in {"idle", "free"}
      BY DEF TrySendEntry, TrySendReturn
    <3> QED  BY <1>3, <3>1, Lists DEF htc_send_pkt, EnterTrySend, Goto, pipe
  <2> QED  BY <2>1 DEF SendersStay, Sending
<1>4. CASE SpliceWrite(t)
  <2>1. /\ pc[t] = "spliced" /\ pc'[t] = "clear" /\ UNCHANGED <<pPacket, wire>>
        /\ \A u \in Threads : u # t => pc'[u] = pc[u]
    BY <1>4, Lists DEF SpliceWrite, Goto, pipe
  <2> QED  BY <2>1 DEF SendersStay, Sending
<1>5. CASE htc_process_credit_rpt(t)
  <2>1. /\ pc[t] = "idle" /\ pc'[t] \in {"idle", "free_queue", "enter"}
        /\ UNCHANGED <<pPacket, wire>> /\ \A u \in Threads : u # t => pc'[u] = pc[u]
    BY <1>5, Lists DEF htc_process_credit_rpt, Goto, TrySendEntry, pipe, locals
  <2> QED  BY <2>1 DEF SendersStay, Sending
<1>6. CASE htc_flush_endpoint_tx(t) \/ \E i \in 1..Len(TxQueue) : TakePacket(t, i)
  <2>1. UNCHANGED <<pc, pPacket, wire>>
    BY <1>6 DEF htc_flush_endpoint_tx, TakePacket, pipe, locals
  <2> QED  BY <2>1 DEF SendersStay
<1> QED  BY <1>1, <1>2, <1>3, <1>4, <1>5, <1>6

\* Only the drainer has a local queue.
LEMMA DrainerOnly ==
  ASSUME TypeInv, PlaceInv, NEW t \in Threads, pc[t] \in DrainPcs, NEW u \in Threads, u # t
  PROVE  sendQueue[u] = <<>> /\ ElementsOf(sendQueue[u]) = {} /\ pc[u] \notin Sending
<1>1. pc[u] \notin DrainPcs  BY SenderIsAlone
<1>2. Sending \subseteq DrainPcs  BY DEF Sending, DrainPcs
<1> QED  BY <1>1, <1>2 DEF PlaceInv, HandOK, ElementsOf

\* The packet that enters TxQueue is the last that its sender sent.
LEMMA EnterOrder ==
  ASSUME TypeInv, PlaceInv, OrderOK, NEW t \in Threads, EnterTrySend(t)
  PROVE  OrderOK'
<1> USE DEF PlaceInv
<1>0. SendersStay  BY OtherSteps
<1>1. PICK p : p = pPacket[t]  OBVIOUS
<1>2. /\ pc[t] = "enter" /\ UNCHANGED sendQueue
      /\ TxQueue' = IF p = NoPkt THEN TxQueue ELSE Append(TxQueue, p)
  BY <1>1 DEF EnterTrySend
<1>3. CASE p = NoPkt
  BY <1>0, <1>2, <1>3, QuietOrder
<1>4. CASE p # NoPkt
  <2>1. p \in Packets /\ TxQueue' = Append(TxQueue, p)
    BY <1>1, <1>2, <1>4, Lists
  <2>2. Pointed(t, p) /\ Has(t, p)  BY <1>1, <1>2 DEF Pointed, Has
  <2>3. \A q \in sent : OwnerOf[q] = t => q <= p
    BY <1>1, <1>2, <1>4 DEF HandOK, Entering
  <2>4. OwnerOf[p] = t
    BY <1>1, <1>2, <1>4 DEF HandOK, Entering
  <2>5. ASSUME NEW q \in Packets, Owned(q), q # p, SameClass(q, p) PROVE q < p
    <3>1. q \in sent /\ OwnerOf[q] = t  BY <2>4, <2>5 DEF OwnedOK, SameClass
    <3>2. q \in Nat /\ p \in Nat /\ q <= p  BY <2>1, <2>3, <3>1, Lists
    <3> QED  BY <2>5, <3>2
  <2>6. /\ p \notin ElementsOf(TxQueue)
        /\ \A u \in Threads : p \notin ElementsOf(sendQueue[u])
    BY <2>1, <2>2 DEF Apart, Has
  <2>7. Precedes(ElementsOf(TxQueue), {p})
    BY <2>5, <2>6, Lists DEF Precedes, Owned
  <2>8. ElementsOf(TxQueue') = ElementsOf(TxQueue) \cup {p} /\ Sorted(TxQueue')
    <3>1. TxQueue \in Seq(Packets) /\ Sorted(TxQueue)  BY Lists DEF OrderOK
    <3> QED  BY <2>1, <2>7, <3>1, AppendLists
  <2>9. ASSUME NEW u \in Threads
        PROVE  Precedes(ElementsOf(sendQueue[u]), ElementsOf(TxQueue'))
    <3>1. \A q \in ElementsOf(sendQueue[u]) : q \in Packets /\ Owned(q) /\ q # p
      BY <2>6, Lists DEF Owned, Has
    <3>2. Precedes(ElementsOf(sendQueue[u]), ElementsOf(TxQueue))  BY DEF OrderOK
    <3> QED  BY <2>5, <2>8, <3>1, <3>2 DEF Precedes
  <2>10. ASSUME NEW u \in Threads, pc[u] \in Sending
         PROVE  Precedes({pPacket[u]}, ElementsOf(sendQueue[u]) \cup ElementsOf(TxQueue'))
    <3>1. pPacket[u] \in Packets  BY <2>10 DEF TypeInv, HandTypes
    <3>2. OnLookup(pPacket[u])  BY <2>10 DEF HandOK
    <3>3. Owned(pPacket[u]) /\ ~Pointed(t, pPacket[u])  BY <3>1, <3>2, LookupOnly
    <3>4. pPacket[u] # p  BY <2>2, <3>3
    <3>5. Precedes({pPacket[u]}, ElementsOf(sendQueue[u]) \cup ElementsOf(TxQueue))
      BY <2>10 DEF OrderOK
    <3> QED  BY <2>5, <2>8, <3>1, <3>3, <3>4, <3>5 DEF Precedes
  <2> QED  BY <1>0, <1>2, <2>8, <2>9, <2>10 DEF OrderOK, SendersStay
<1> QED  BY <1>3, <1>4

\* The packet that is taken is the first of its sender and class.
LEMMA TakeOrder ==
  ASSUME TypeInv, PlaceInv, OrderOK, NEW t \in Threads, NEW i \in 1..Len(TxQueue),
         TakePacket(t, i)
  PROVE  OrderOK'
<1> USE DEF PlaceInv
<1>0. PICK p : p = TxQueue[i]  OBVIOUS
<1>1. /\ pc[t] = "take" /\ TxQueue' = RemoveIndex(TxQueue, i)
      /\ sendQueue' = [sendQueue EXCEPT ![t] = Append(sendQueue[t], p)]
      /\ UNCHANGED <<pc, pPacket>> /\ IsNext(t, i)
  BY <1>0 DEF TakePacket, CanTake
<1>2. TxQueue \in Seq(Packets) /\ Uniq(TxQueue) /\ Sorted(TxQueue) /\ Len(TxQueue) \in Nat
  BY Lists DEF ListsOK, OrderOK
<1>3. /\ p \in Packets /\ p \in ElementsOf(TxQueue) /\ Sorted(TxQueue')
      /\ ElementsOf(TxQueue') = ElementsOf(TxQueue) \ {p}
  <2>1. p \in Packets  BY <1>0, <1>2
  <2>2. /\ p \in ElementsOf(TxQueue) /\ p \notin ElementsOf(TxQueue') /\ Sorted(TxQueue')
        /\ ElementsOf(TxQueue) = ElementsOf(TxQueue') \cup {p}
    BY <1>0, <1>1, <1>2, RemoveLists
  <2> QED  BY <2>1, <2>2
<1>4. Precedes({p}, ElementsOf(TxQueue'))
  <2> SUFFICES ASSUME NEW q \in ElementsOf(TxQueue'), SameClass(p, q) PROVE p < q
    BY DEF Precedes
  <2>1. PICK j \in 1..Len(TxQueue) : TxQueue[j] = q
    BY <1>3 DEF ElementsOf
  <2>2. j # i  BY <1>0, <1>3, <2>1
  <2>3. ~(j < i)
    <3>1. CASE pmPass[t]
      <4>1. p \in TagAutoPm /\ \A k \in 1..(i - 1) : TxQueue[k] \notin TagAutoPm
        BY <1>0, <1>1, <3>1 DEF IsNext
      <4>2. TxQueue[j] \in TagAutoPm  BY <2>1, <4>1 DEF SameClass, TagAutoPm
      <4> QED  BY <1>2, <4>1, <4>2
    <3>2. CASE ~pmPass[t]
      BY <1>1, <3>2 DEF IsNext
    <3> QED  BY <3>1, <3>2
  <2>4. i < j  BY <1>2, <2>2, <2>3
  <2> QED  BY <1>0, <1>2, <2>1, <2>4 DEF Sorted
<1>5. /\ sendQueue'[t] = Append(sendQueue[t], p)
      /\ \A u \in Threads : u # t => sendQueue'[u] = sendQueue[u]
  BY <1>1, Lists
<1>6. ElementsOf(sendQueue'[t]) = ElementsOf(sendQueue[t]) \cup {p} /\ Sorted(sendQueue'[t])
  <2>1. sendQueue[t] \in Seq(Packets) /\ Sorted(sendQueue[t])  BY Lists DEF OrderOK
  <2>2. Precedes(ElementsOf(sendQueue[t]), {p})  BY <1>3 DEF OrderOK, Precedes
  <2> QED  BY <1>3, <1>5, <2>1, <2>2, AppendLists
<1>7. Precedes(ElementsOf(sendQueue'[t]), ElementsOf(TxQueue'))
  BY <1>3, <1>4, <1>6 DEF OrderOK, Precedes
<1>8. pc[t] \notin Sending /\ "take" \in DrainPcs  BY <1>1 DEF Sending, DrainPcs
<1>9. ASSUME NEW u \in Threads, u # t
      PROVE  /\ Sorted(sendQueue'[u]) /\ pc[u] \notin Sending
             /\ Precedes(ElementsOf(sendQueue'[u]), ElementsOf(TxQueue'))
  <2>1. ElementsOf(sendQueue[u]) = {} /\ pc[u] \notin Sending
    BY <1>1, <1>8, <1>9, DrainerOnly
  <2> QED  BY <1>5, <1>9, <2>1 DEF OrderOK, Precedes
<1> QED  BY <1>1, <1>3, <1>6, <1>7, <1>8, <1>9 DEF OrderOK

\* The head of the local queue goes first.
LEMMA IssueOrder ==
  ASSUME TypeInv, PlaceInv, OrderOK, NEW t \in Threads, IssueNext(t)
  PROVE  OrderOK'
<1> USE DEF PlaceInv
<1>0. PICK p : p = Head(sendQueue[t])  OBVIOUS
<1>1. /\ pc[t] = "issue" /\ sendQueue[t] # <<>> /\ UNCHANGED TxQueue
      /\ pPacket' = [pPacket EXCEPT ![t] = p]
      /\ sendQueue' = [sendQueue EXCEPT ![t] = Tail(sendQueue[t])]
      /\ pc' = [pc EXCEPT ![t] = "poll"]
  BY <1>0 DEF IssueNext, Goto
<1>2. /\ sendQueue'[t] = Tail(sendQueue[t]) /\ pPacket'[t] = p
      /\ \A u \in Threads : u # t => sendQueue'[u] = sendQueue[u] /\ pc'[u] = pc[u]
  BY <1>1, Lists
<1>3. /\ p \in ElementsOf(sendQueue[t]) /\ Sorted(sendQueue'[t])
      /\ ElementsOf(sendQueue[t]) = ElementsOf(sendQueue'[t]) \cup {p}
      /\ Precedes({p}, ElementsOf(sendQueue'[t]))
  <2>1. sendQueue[t] \in Seq(Packets) /\ Sorted(sendQueue[t])  BY Lists DEF OrderOK
  <2>2. /\ p \in ElementsOf(sendQueue[t]) /\ Sorted(Tail(sendQueue[t]))
        /\ ElementsOf(sendQueue[t]) = ElementsOf(Tail(sendQueue[t])) \cup {p}
        /\ Precedes({p}, ElementsOf(Tail(sendQueue[t])))
    BY <1>0, <1>1, <2>1, TailLists
  <2> QED  BY <1>2, <2>2
<1>4. /\ Precedes(ElementsOf(sendQueue'[t]), ElementsOf(TxQueue))
      /\ Precedes({p}, ElementsOf(sendQueue'[t]) \cup ElementsOf(TxQueue))
  BY <1>3 DEF OrderOK, Precedes
<1>5. ASSUME NEW u \in Threads, u # t PROVE pc'[u] \notin Sending
  <2>1. pc[t] \in DrainPcs  BY <1>1 DEF DrainPcs
  <2> QED  BY <1>2, <1>5, <2>1, DrainerOnly
<1> QED  BY <1>1, <1>2, <1>3, <1>4, <1>5 DEF OrderOK

\* The refused packet returns to the head of the local queue.
LEMMA FailOrder ==
  ASSUME TypeInv, PlaceInv, OrderOK, NEW t \in Threads, IssueFailed(t)
  PROVE  OrderOK'
<1> USE DEF PlaceInv
<1>0. PICK p : p = pPacket[t]  OBVIOUS
<1>1. /\ pc[t] = "fail" /\ UNCHANGED TxQueue
      /\ sendQueue' = [sendQueue EXCEPT ![t] = <<p>> \o sendQueue[t]]
      /\ pc' = [pc EXCEPT ![t] = "splice"]
  BY <1>0 DEF IssueFailed, Goto
<1>2. /\ sendQueue'[t] = <<p>> \o sendQueue[t] /\ pc'[t] = "splice"
      /\ \A u \in Threads : u # t => sendQueue'[u] = sendQueue[u] /\ pc'[u] = pc[u]
  BY <1>1, Lists
<1>3. /\ p \in Packets /\ pc[t] \in DrainPcs
      /\ Precedes({p}, ElementsOf(sendQueue[t]) \cup ElementsOf(TxQueue))
  BY <1>0, <1>1 DEF TypeInv, HandTypes, OrderOK, Sending, DrainPcs
<1>4. /\ ElementsOf(sendQueue'[t]) = {p} \cup ElementsOf(sendQueue[t])
      /\ Sorted(sendQueue'[t])
  <2>1. sendQueue[t] \in Seq(Packets) /\ Sorted(sendQueue[t])  BY Lists DEF OrderOK
  <2>2. <<p>> \in Seq(Packets) /\ ElementsOf(<<p>>) = {p} /\ Sorted(<<p>>)
    BY <1>3 DEF ElementsOf, Sorted
  <2>3. Precedes(ElementsOf(<<p>>), ElementsOf(sendQueue[t]))
    BY <1>3, <2>2 DEF Precedes
  <2>4. /\ ElementsOf(<<p>> \o sendQueue[t]) = ElementsOf(<<p>>) \cup ElementsOf(sendQueue[t])
        /\ Sorted(<<p>> \o sendQueue[t])
    BY <2>1, <2>2, <2>3, ConcatLists
  <2> QED  BY <1>2, <2>2, <2>4
<1>5. Precedes(ElementsOf(sendQueue'[t]), ElementsOf(TxQueue))
  BY <1>3, <1>4 DEF OrderOK, Precedes
<1>6. ASSUME NEW u \in Threads, u # t PROVE pc'[u] \notin Sending
  BY <1>2, <1>3, <1>6, DrainerOnly
<1>7. pc'[t] \notin Sending  BY <1>2 DEF Sending
<1> QED  BY <1>1, <1>2, <1>4, <1>5, <1>6, <1>7 DEF OrderOK

\* What the splice leaves is in order.
LEMMA SpliceOrder ==
  ASSUME TypeInv, PlaceInv, OrderOK, NEW t \in Threads, SpliceWrite(t)
  PROVE  OrderOK'
<1> USE DEF PlaceInv
<1>1. /\ pc[t] = "spliced" /\ sendQueue' = [sendQueue EXCEPT ![t] = <<>>]
      /\ TxQueue' \in {sendQueue[t] \o TxQueue, sendQueue[t], TxQueue}
  BY DEF SpliceWrite, ToHead
<1>2. Sorted(TxQueue')
  <2>1. /\ TxQueue \in Seq(Packets) /\ sendQueue[t] \in Seq(Packets)
        /\ Sorted(TxQueue) /\ Sorted(sendQueue[t])
        /\ Precedes(ElementsOf(sendQueue[t]), ElementsOf(TxQueue))
    BY Lists DEF OrderOK
  <2>2. Sorted(sendQueue[t] \o TxQueue)  BY <2>1, ConcatLists
  <2> QED  BY <1>1, <2>1, <2>2
<1>3. SendersStay  BY OtherSteps
<1>4. pc[t] \in DrainPcs /\ pc[t] \notin Sending  BY <1>1 DEF DrainPcs, Sending
<1>5. \A u \in Threads : /\ ElementsOf(sendQueue'[u]) = {} /\ Sorted(sendQueue'[u])
                         /\ pc'[u] \notin Sending
  <2> SUFFICES ASSUME NEW u \in Threads
               PROVE  /\ ElementsOf(sendQueue'[u]) = {} /\ Sorted(sendQueue'[u])
                      /\ pc'[u] \notin Sending
    OBVIOUS
  <2>1. sendQueue'[u] = <<>> /\ pc[u] \notin Sending
    <3>1. CASE u = t  BY <1>1, <1>4, <3>1, Lists
    <3>2. CASE u # t
      <4>1. sendQueue[u] = <<>> /\ pc[u] \notin Sending  BY <1>4, <3>2, DrainerOnly
      <4> QED  BY <1>1, <3>2, <4>1, Lists
    <3> QED  BY <3>1, <3>2
  <2> QED  BY <1>3, <2>1 DEF ElementsOf, Sorted, SendersStay
<1> QED  BY <1>2, <1>5 DEF OrderOK, Precedes

\* The steps that change no queue but the lookup queues.
QuietQueues(t) ==
    \/ \E p \in Packets : htc_send_pkt(t, p)
    \/ ce_per_engine_service(t) \/ htc_process_credit_rpt(t)
    \/ ReadFreeQueueNumber(t) \/ htc_kick_queues(t) \/ DrainLoop(t)
    \/ StopTaking(t) \/ IssueEnd(t) \/ RereadFreeQueueNumber(t) \/ Relock(t) \/ PutWhenIssued(t)
    \/ hif_send_complete_check(t) \/ SpliceRead(t)
    \/ ClearAfterFailure(t) \/ ce_per_engine_servicereap(t) \/ LookupHead(t)
    \/ LookupSearch(t) \/ htc_tx_completion_handler(t) \/ hif_pci_ce_send_done(t)

\* Those steps leave both queues alone.
LEMMA QueuesRest ==
  ASSUME NEW t \in Threads, QuietQueues(t)
  PROVE  UNCHANGED <<TxQueue, sendQueue>>
BY Zenon DEF QuietQueues, htc_send_pkt, ce_per_engine_service, htc_process_credit_rpt,
   ReadFreeQueueNumber, htc_kick_queues, DrainLoop, StopTaking, IssueEnd,
   RereadFreeQueueNumber, Relock, PutWhenIssued,
   hif_send_complete_check, SpliceRead, ClearAfterFailure, ce_per_engine_servicereap,
   LookupHead, LookupSearch, htc_tx_completion_handler, hif_pci_ce_send_done, PopCompletion,
   endpoint, locals, EndDrain

\* One step of the order of packets.
LEMMA OrderStep ==
  ASSUME TypeInv, PlaceInv, OrderOK, [Next]_vars
  PROVE  OrderOK'
<1>1. ASSUME NEW t \in Threads, QuietQueues(t) PROVE OrderOK'
  <2>1. SendersStay  BY <1>1, OtherSteps, Zenon DEF QuietQueues
  <2> QED  BY <1>1, <2>1, QueuesRest, QuietOrder
<1>2. ASSUME NEW t \in Threads, htc_flush_endpoint_tx(t) PROVE OrderOK'
  <2>1. SendersStay  BY <1>2, OtherSteps
  <2>2. TxQueue' = <<>> /\ UNCHANGED sendQueue  BY <1>2 DEF htc_flush_endpoint_tx, locals
  <2>3. ElementsOf(TxQueue') = {} /\ Sorted(TxQueue')  BY <2>2 DEF ElementsOf, Sorted
  <2> QED  BY <2>1, <2>2, <2>3 DEF OrderOK, SendersStay, Precedes
<1>3. ASSUME NEW t \in Threads, hif_send_head(t) PROVE OrderOK'
  <2>1. /\ pc[t] = "head" /\ UNCHANGED <<TxQueue, sendQueue>>
        /\ pc'[t] \in Sending => UNCHANGED pPacket
        /\ \A u \in Threads : u # t => pc'[u] = pc[u] /\ pPacket'[u] = pPacket[u]
    BY <1>3, Lists DEF hif_send_head, Goto, endpoint, Sending
  <2>2. pc[t] \in Sending  BY <2>1 DEF Sending
  <2> QED  BY <2>1, <2>2 DEF OrderOK
<1>4. ASSUME TargetReceives \/ UNCHANGED vars PROVE OrderOK'
  <2>1. UNCHANGED <<TxQueue, sendQueue, pc, pPacket>>
    BY <1>4 DEF TargetReceives, vars, endpoint, locals
  <2>2. SendersStay  BY <2>1 DEF SendersStay
  <2> QED  BY <2>1, <2>2, QuietOrder
<1>5. ASSUME NEW t \in Threads, ThreadStep(t) PROVE OrderOK'
  <2>1. CASE QuietQueues(t)  BY <1>1, <2>1
  <2>2. CASE EnterTrySend(t)  BY <2>2, EnterOrder
  <2>3. CASE \E i \in 1..Len(TxQueue) : TakePacket(t, i)  BY <2>3, TakeOrder
  <2>4. CASE IssueNext(t)  BY <2>4, IssueOrder
  <2>5. CASE hif_send_head(t)  BY <1>3, <2>5
  <2>6. CASE IssueFailed(t)  BY <2>6, FailOrder
  <2>7. CASE SpliceWrite(t)  BY <2>7, SpliceOrder
  <2> QED
    BY <1>5, <2>1, <2>2, <2>3, <2>4, <2>5, <2>6, <2>7, Zenon DEF ThreadStep, QuietQueues
<1>6. /\ Senders \subseteq Threads /\ Tasklets \subseteq Threads
      /\ Reporters \subseteq Threads /\ Workers \subseteq Threads
  BY DEF Threads
<1> QED  BY <1>1, <1>2, <1>4, <1>5, <1>6, Zenon DEF Next, QuietQueues

\* What waits for a completion after a step that posts nothing waited before.
LEMMA LookupShrinks ==
  ASSUME TypeInv, PlaceInv, NEW t \in Threads,
         \/ QuietQueues(t) \/ EnterTrySend(t) \/ htc_flush_endpoint_tx(t) \/ SpliceWrite(t)
         \/ \E i \in 1..Len(TxQueue) : TakePacket(t, i)
  PROVE  \A p \in Packets : OnLookup(p)' => OnLookup(p)
<1> USE DEF PlaceInv
<1>1. CASE UNCHANGED <<TxLookupQueue, lookupQueue>>
  BY <1>1 DEF OnLookup
<1>2. CASE LookupHead(t)
  <2>1. CASE TxLookupQueue # <<>> /\ TxLookupQueue' = Tail(TxLookupQueue)
             /\ UNCHANGED lookupQueue
    <3>1. TxLookupQueue \in Seq(Packets)  BY Lists
    <3>2. ElementsOf(TxLookupQueue) = ElementsOf(Tail(TxLookupQueue)) \cup {Head(TxLookupQueue)}
      BY <2>1, <3>1, TailLists
    <3>3. ElementsOf(TxLookupQueue') \subseteq ElementsOf(TxLookupQueue)  BY <2>1, <3>2
    <3> QED  BY <2>1, <3>3 DEF OnLookup
  <2>2. CASE TxLookupQueue' = <<>> /\ lookupQueue' = [lookupQueue EXCEPT ![t] = TxLookupQueue]
    <3>1. ElementsOf(TxLookupQueue') = {}  BY <2>2 DEF ElementsOf
    <3>2. /\ lookupQueue'[t] = TxLookupQueue
          /\ \A u \in Threads : u # t => lookupQueue'[u] = lookupQueue[u]
      BY <2>2, Lists
    <3> QED  BY <3>1, <3>2 DEF OnLookup
  <2> QED  BY <1>1, <1>2, <2>1, <2>2 DEF LookupHead
<1>3. CASE LookupSearch(t)
  <2>0. PICK r : r = Without(lookupQueue[t], netbuf[t])  OBVIOUS
  <2>1. /\ TxLookupQueue' = r \o TxLookupQueue
        /\ lookupQueue' = [lookupQueue EXCEPT ![t] = <<>>]
    BY <1>3, <2>0 DEF LookupSearch
  <2>2. lookupQueue[t] \in Seq(Packets) /\ TxLookupQueue \in Seq(Packets) /\ Uniq(lookupQueue[t])
    BY Lists DEF ListsOK
  <2>3. r \in Seq(Packets) /\ ElementsOf(r) \subseteq ElementsOf(lookupQueue[t])
    BY <2>0, <2>2, WithoutLists, WithoutType
  <2>4. ElementsOf(TxLookupQueue') = ElementsOf(r) \cup ElementsOf(TxLookupQueue)
    BY <2>1, <2>2, <2>3, ConcatLists
  <2>5. /\ lookupQueue'[t] = <<>> /\ ElementsOf(lookupQueue'[t]) = {}
        /\ \A u \in Threads : u # t => lookupQueue'[u] = lookupQueue[u]
    BY <2>1, Lists DEF ElementsOf
  <2> QED  BY <2>3, <2>4, <2>5 DEF OnLookup
<1>4. CASE ~LookupHead(t) /\ ~LookupSearch(t)
  <2>1. UNCHANGED <<TxLookupQueue, lookupQueue>>
    BY <1>4, Zenon DEF QuietQueues, htc_send_pkt, ce_per_engine_service, htc_process_credit_rpt,
     ReadFreeQueueNumber, htc_kick_queues, DrainLoop, StopTaking, IssueEnd,
     RereadFreeQueueNumber, Relock, PutWhenIssued,
     hif_send_complete_check, SpliceRead, ClearAfterFailure, ce_per_engine_servicereap,
     htc_tx_completion_handler, hif_pci_ce_send_done, PopCompletion, EnterTrySend,
     htc_flush_endpoint_tx, SpliceWrite, TakePacket, endpoint, locals
  <2> QED  BY <1>1, <2>1
<1> QED  BY <1>2, <1>3, <1>4

\* One step of the lookup queues.
LEMMA LookupStep ==
  ASSUME TypeInv, PlaceInv, LookupOK, [Next]_vars
  PROVE  LookupOK'
<1> USE DEF PlaceInv
<1>1. ASSUME NEW t \in Threads,
             \/ QuietQueues(t) \/ EnterTrySend(t) \/ htc_flush_endpoint_tx(t) \/ SpliceWrite(t)
             \/ \E i \in 1..Len(TxQueue) : TakePacket(t, i)
      PROVE  LookupOK'
  <2>1. SendersStay /\ UNCHANGED wire  BY <1>1, OtherSteps, Zenon DEF QuietQueues
  <2>2. \A p \in Packets : OnLookup(p)' => OnLookup(p)  BY <1>1, LookupShrinks
  <2> QED  BY <2>1, <2>2, QuietLookup
<1>2. ASSUME NEW t \in Threads, IssueNext(t) PROVE LookupOK'
  <2>0. PICK p : p = Head(sendQueue[t])  OBVIOUS
  <2>1. /\ pc[t] = "issue" /\ sendQueue[t] # <<>> /\ UNCHANGED <<wire, lookupQueue>>
        /\ pPacket' = [pPacket EXCEPT ![t] = p]
        /\ TxLookupQueue' = Append(TxLookupQueue, p)
        /\ pc' = [pc EXCEPT ![t] = "poll"]
    BY <1>2, <2>0 DEF IssueNext, Goto, pipe
  <2>2. pPacket'[t] = p /\ pc'[t] = "poll"  BY <2>1, Lists
  <2>3. p \in Packets
    <3>1. sendQueue[t] \in Seq(Packets)  BY Lists
    <3> QED  BY <2>0, <2>1, <3>1, TailLists
  <2>4. ElementsOf(TxLookupQueue') = ElementsOf(TxLookupQueue) \cup {p}
    <3>1. TxLookupQueue \in Seq(Packets)  BY Lists
    <3> QED  BY <2>1, <2>3, <3>1, AppendLists
  <2>5. InHand(p)'  BY <2>2 DEF InHand, Sending
  <2>6. \A q \in Packets : ~InHand(q)
    <3> SUFFICES ASSUME NEW u \in Threads, pc[u] \in Sending PROVE FALSE
      BY DEF InHand
    <3>1. pc[t] \in DrainPcs /\ pc[t] \notin Sending  BY <2>1 DEF DrainPcs, Sending
    <3> QED  BY <3>1, DrainerOnly
  <2>7. \A q \in Packets : OnLookup(q)' => OnLookup(q) \/ q = p
    BY <2>1, <2>4 DEF OnLookup
  <2> QED  BY <2>1, <2>5, <2>6, <2>7 DEF LookupOK
<1>3. ASSUME NEW t \in Threads, hif_send_head(t) PROVE LookupOK'
  <2>1. UNCHANGED <<TxLookupQueue, lookupQueue>>
    BY <1>3 DEF hif_send_head, endpoint
  <2>2. \A q \in Packets : OnLookup(q)' <=> OnLookup(q)  BY <2>1 DEF OnLookup
  <2>3. CASE num_sends_allowed < 1
    <3>1. /\ pc[t] = "head" /\ pc' = [pc EXCEPT ![t] = "fail"] /\ UNCHANGED <<wire, pPacket>>
      BY <1>3, <2>3 DEF hif_send_head, Goto
    <3>2. SendersStay  BY <3>1, Lists DEF SendersStay, Sending
    <3> QED  BY <2>2, <3>1, <3>2, QuietLookup
  <2>4. CASE ~(num_sends_allowed < 1)
    <3>0. PICK p : p = pPacket[t]  OBVIOUS
    <3>1. pc[t] = "head" /\ wire' = Append(wire, p)
      BY <1>3, <2>4, <3>0 DEF hif_send_head
    <3>2. p \in Packets  BY <3>0, <3>1 DEF TypeInv, HandTypes, Sending
    <3>3. ElementsOf(wire') = ElementsOf(wire) \cup {p}
      <4>1. wire \in Seq(Packets)  BY Lists
      <4> QED  BY <3>1, <3>2, <4>1, AppendLists
    <3>4. \A q \in Packets : InHand(q) => q = p
      <4> SUFFICES ASSUME NEW u \in Threads, pc[u] \in Sending PROVE u = t
        BY <3>0 DEF InHand
      <4>1. pc[t] \in DrainPcs  BY <3>1 DEF DrainPcs
      <4> QED  BY <4>1, DrainerOnly
    <3> QED  BY <2>2, <3>3, <3>4 DEF LookupOK
  <2> QED  BY <2>3, <2>4
<1>4. ASSUME NEW t \in Threads, IssueFailed(t) PROVE LookupOK'
  <2>0. PICK p : p = pPacket[t]  OBVIOUS
  <2>1. /\ pc[t] = "fail" /\ UNCHANGED wire
        /\ TxLookupQueue' = Without(TxLookupQueue, p)
        /\ lookupQueue' = [u \in Threads |-> Without(lookupQueue[u], p)]
    BY <1>4, <2>0 DEF IssueFailed, pipe
  <2>2. ElementsOf(TxLookupQueue') = ElementsOf(TxLookupQueue) \ {p}
    <3>1. TxLookupQueue \in Seq(Packets) /\ Uniq(TxLookupQueue)  BY Lists DEF ListsOK
    <3> QED  BY <2>1, <3>1, WithoutLists
  <2>3. ASSUME NEW u \in Threads
        PROVE  ElementsOf(lookupQueue'[u]) = ElementsOf(lookupQueue[u]) \ {p}
    <3>1. lookupQueue[u] \in Seq(Packets) /\ Uniq(lookupQueue[u])  BY Lists DEF ListsOK
    <3>2. lookupQueue'[u] = Without(lookupQueue[u], p)  BY <2>1
    <3> QED  BY <3>1, <3>2, WithoutLists
  <2>4. \A q \in Packets : OnLookup(q)' => OnLookup(q) /\ q # p
    BY <2>2, <2>3 DEF OnLookup
  <2>5. \A q \in Packets : InHand(q) => q = p
    <3> SUFFICES ASSUME NEW u \in Threads, pc[u] \in Sending PROVE u = t
      BY <2>0 DEF InHand
    <3>1. pc[t] \in DrainPcs  BY <2>1 DEF DrainPcs
    <3> QED  BY <3>1, DrainerOnly
  <2> QED  BY <2>1, <2>4, <2>5 DEF LookupOK
<1>5. ASSUME TargetReceives \/ UNCHANGED vars PROVE LookupOK'
  <2>1. UNCHANGED <<TxLookupQueue, lookupQueue, wire, pc, pPacket>>
    BY <1>5 DEF TargetReceives, vars, endpoint, locals, pipe
  <2>2. SendersStay  BY <2>1 DEF SendersStay
  <2>3. \A q \in Packets : OnLookup(q)' => OnLookup(q)  BY <2>1 DEF OnLookup
  <2> QED  BY <2>1, <2>2, <2>3, QuietLookup
<1>6. ASSUME NEW t \in Threads, ThreadStep(t) PROVE LookupOK'
  BY <1>1, <1>2, <1>3, <1>4, <1>6, Zenon DEF ThreadStep, QuietQueues
<1>7. /\ Senders \subseteq Threads /\ Tasklets \subseteq Threads
      /\ Reporters \subseteq Threads /\ Workers \subseteq Threads
  BY DEF Threads
<1> QED  BY <1>1, <1>5, <1>6, <1>7, Zenon DEF Next, QuietQueues

-----------------------------------------------------------------------------
(* The transmit path implements the service *)

\* Lost packets are those that nobody has any more.
LostIs == Lost = {p \in Packets : Gone(p)}

\* What the refinement mapping calls lost is what nobody owns.
LEMMA LostAre == TypeInv /\ PlaceInv => LostIs
<1> SUFFICES ASSUME TypeInv, PlaceInv PROVE LostIs
  OBVIOUS
<1> USE DEF PlaceInv
<1>1. ASSUME NEW p \in Packets PROVE Copies(p) = 0 <=> ~Owned(p)
  <2>1. CASE Owned(p)
    <3>1. PICK x : Places(p) = {x}  BY <2>1, PlacesOf
    <3>2. Copies(p) = 1  BY <3>1, FS_Singleton DEF Copies
    <3> QED  BY <2>1, <3>2
  <2>2. CASE ~Owned(p)
    BY <2>2, PlacesOf, FS_EmptySet DEF Copies
  <2> QED  BY <2>1, <2>2
<1>2. ASSUME NEW p \in Packets, NEW t \in Threads, pPacket[t] = p PROVE Owned(p)
  <2>1. pc[t] \in Sending \/ pc[t] \in Entering
    BY <1>2, Lists DEF HandOK
  <2>2. CASE pc[t] \in Sending
    BY <1>2, <2>2, LookupOnly DEF HandOK
  <2>3. CASE pc[t] \in Entering
    BY <1>2, <2>3 DEF Entering, Pointed, Has, Owned
  <2> QED  BY <2>1, <2>2, <2>3
<1>3. \A p \in Packets : p \in ElementsOf(wire) => ~Gone(p)
  BY DEF WireOK
<1>4. \A p \in Packets : p \in Lost <=> Gone(p)
  BY <1>1, <1>2, <1>3 DEF Lost, Gone
<1>5. Lost \subseteq Packets  BY Lists DEF Lost
<1> QED  BY <1>4, <1>5 DEF LostIs

\* The packets that wait for the bus are those that HTC owns and has not posted.
LEMMA WaitingAre ==
  ASSUME TypeInv, PlaceInv, NEW p
  PROVE  p \in Service!Waiting <=>
            p \in Packets /\ Owned(p) /\ p \notin ElementsOf(wire)
<1> USE DEF PlaceInv
<1>1. LostIs  BY LostAre
<1>2. Service!OnBus = ElementsOf(wire)  BY DEF Service!OnBus, ElementsOf
<1>3. sent \subseteq Packets  BY Lists
<1> QED  BY <1>1, <1>2, <1>3 DEF Service!Waiting, LostIs, Gone, OwnedOK

\* A packet goes to the bus before all others of its sender and class that wait.
LEMMA FirstGoesFirst ==
  ASSUME TypeInv, PlaceInv, OrderOK, LookupOK, NEW t \in Threads, pc[t] \in Sending,
         NEW q \in Service!Waiting, SameClass(pPacket[t], q)
  PROVE  pPacket[t] <= q
<1> USE DEF PlaceInv
<1>0. PICK p : p = pPacket[t]  OBVIOUS
<1>1. q \in Packets /\ Owned(q) /\ q \notin ElementsOf(wire)  BY WaitingAre
<1>2. p \in Packets /\ p \in Nat /\ q \in Nat
  BY <1>0, <1>1, Lists DEF TypeInv, HandTypes
<1>3. pc[t] \in DrainPcs  BY DEF Sending, DrainPcs
<1>4. OnLookup(p) /\ p \in sent
  <2>1. OnLookup(p)  BY <1>0 DEF HandOK
  <2> QED  BY <1>2, <2>1, LookupOnly
<1>5. CASE q \in ElementsOf(TxQueue)
  BY <1>0, <1>2, <1>5 DEF OrderOK, Precedes
<1>6. CASE \E u \in Threads : q \in ElementsOf(sendQueue[u])
  <2>1. q \in ElementsOf(sendQueue[t])  BY <1>3, <1>6, DrainerOnly
  <2> QED  BY <1>0, <1>2, <2>1 DEF OrderOK, Precedes
<1>7. CASE OnLookup(q)
  <2>1. PICK u \in Threads : pc[u] \in Sending /\ pPacket[u] = q
    BY <1>1, <1>7 DEF LookupOK, InHand
  <2>2. u = t  BY <1>3, <2>1, DrainerOnly
  <2> QED  BY <1>0, <1>2, <2>1, <2>2
<1>8. CASE \E u \in Threads : Pointed(u, q)
  <2>1. PICK u \in Threads : Pointed(u, q)  BY <1>8
  <2>2. pc[u] \notin Completing
    BY <1>1, <2>1, Lists DEF HandOK, Pointed, Completing
  <2>3. pPacket[u] = q /\ pc[u] \in Entering
    BY <2>1, <2>2 DEF Pointed, Entering, Completing
  <2>4. OwnerOf[q] = u /\ \A r \in sent : OwnerOf[r] = u => r <= q
    BY <1>1, <2>3, Lists DEF HandOK
  <2>5. OwnerOf[p] = u  BY <1>0, <2>4 DEF SameClass
  <2> QED  BY <1>0, <1>4, <2>4, <2>5
<1> QED  BY <1>1, <1>5, <1>6, <1>7, <1>8 DEF Owned, Has, OnLookup

\* The inductive invariant of the refinement.
ServiceInv == TxInv /\ OrderOK /\ LookupOK

\* One step of the invariant of the refinement.
LEMMA ServiceInvStep == ServiceInv /\ [Next]_vars => ServiceInv'
BY TxStep, OrderStep, LookupStep DEF ServiceInv, TxInv

\* Initially it holds, and the abstract specification is in its initial state.
LEMMA InitService == Init => ServiceInv /\ Service!Init
<1> SUFFICES ASSUME Init PROVE ServiceInv /\ Service!Init
  OBVIOUS
<1>1. TxInv  BY InitTx
<1>2. /\ TxQueue = <<>> /\ TxLookupQueue = <<>> /\ wire = <<>> /\ sent = {}
      /\ completed = [p \in Packets |-> 0]
      /\ \A t \in Threads : sendQueue[t] = <<>> /\ lookupQueue[t] = <<>> /\ pc[t] = "idle"
  BY DEF Init
<1>3. OrderOK
  BY <1>2 DEF OrderOK, Sorted, Precedes, ElementsOf, Sending
<1>4. LookupOK
  BY <1>2 DEF LookupOK, OnLookup, ElementsOf
<1>5. Lost = {}  BY <1>2 DEF Lost
<1>6. AmplePipe \in BOOLEAN  BY <1>1, ConstAssumption DEF TxInv, TypeInv, AmplePipe, CreditFlow
<1> QED  BY <1>1, <1>2, <1>3, <1>4, <1>5, <1>6 DEF ServiceInv, Service!Init

\* Steps of the threads that the service does not see.
LEMMA Unseen ==
  ASSUME UNCHANGED <<conn, sent, wire, completed>>, LostIs, LostIs',
         \A p \in Packets : Gone(p)' <=> Gone(p)
  PROVE  UNCHANGED Service!svars
<1>1. Lost' = Lost  BY DEF LostIs
<1> QED  BY <1>1 DEF Service!svars, AmplePipe, CreditFlow, PipeSize

\* A packet that goes to the copy engine goes to the bus.
LEMMA HeadImplements ==
  ASSUME ServiceInv, ServiceInv', NEW t \in Threads, hif_send_head(t), LostIs, LostIs',
         UNCHANGED conn, \A p \in Packets : Gone(p)' <=> Gone(p)
  PROVE  Service!Next \/ UNCHANGED Service!svars
<1> USE DEF ServiceInv, TxInv
<1>1. CASE num_sends_allowed < 1
  <2>1. UNCHANGED <<sent, wire, completed>>
    BY <1>1 DEF hif_send_head, packet
  <2> QED  BY <2>1, Unseen
<1>2. CASE ~(num_sends_allowed < 1)
  <2>0. PICK p : p = pPacket[t]  OBVIOUS
  <2>1. pc[t] = "head" /\ wire' = Append(wire, p) /\ UNCHANGED <<sent, completed>>
    BY <1>2, <2>0 DEF hif_send_head, packet
  <2>2. p \in Packets /\ OnLookup(p) /\ pc[t] \in Sending /\ p \notin ElementsOf(wire)
    BY <2>0, <2>1 DEF TypeInv, HandTypes, PlaceInv, HandOK, WireOK, Sending
  <2>3. p \in Service!Waiting
    <3>1. Owned(p)  BY <2>2, LookupOnly DEF PlaceInv
    <3> QED  BY <2>2, <3>1, WaitingAre
  <2>4. \A q \in Service!Waiting : Service!SameClass(p, q) => p <= q
    BY <2>0, <2>2, FirstGoesFirst DEF Service!SameClass, SameClass
  <2>5. UNCHANGED <<AmplePipe, sent, Lost, completed>>
    BY <2>1 DEF LostIs, AmplePipe, CreditFlow, PipeSize
  <2>6. Service!Transmit(p)
    BY <2>1, <2>3, <2>4, <2>5 DEF Service!Transmit
  <2> QED  BY <2>2, <2>6 DEF Service!Next
<1> QED  BY <1>1, <1>2

\* The unlocked splice may lose packets that wait, where the pipe is not ample.
LEMMA SpliceImplements ==
  ASSUME ServiceInv, NEW t \in Threads, SpliceWrite(t), LostIs, LostIs', UNCHANGED conn
  PROVE  Service!Next \/ UNCHANGED Service!svars
<1> USE DEF ServiceInv, TxInv
<1>1. ~AmplePipe  BY DEF HeadOK, FailPcs, SpliceWrite
<1>2. UNCHANGED <<sent, wire, completed>>  BY DEF SpliceWrite, pipe, packet
<1>3. PICK S : S = {p \in Packets : Gone(p)' /\ ~Gone(p)}  OBVIOUS
<1>4. \A p \in Packets : Gone(p) => Gone(p)'  BY SpliceMoves
<1>5. Lost' = Lost \cup S  BY <1>3, <1>4 DEF LostIs
<1>6. S \subseteq Service!Waiting
  <2> SUFFICES ASSUME NEW p \in S PROVE p \in Service!Waiting
    OBVIOUS
  <2>1. p \in Packets /\ Gone(p)' /\ ~Gone(p)  BY <1>3
  <2>2. Owned(p)  BY <1>2, <2>1 DEF Gone
  <2>3. \/ p \in ElementsOf(TxQueue) \/ p \in ElementsOf(sendQueue[t])
    BY <2>1, SpliceMoves
  <2>4. p \notin ElementsOf(wire)  BY <2>3 DEF PlaceInv, WireOK
  <2> QED  BY <2>1, <2>2, <2>4, WaitingAre
<1>7. UNCHANGED AmplePipe  BY DEF AmplePipe, CreditFlow, PipeSize
<1>8. CASE S = {}
  BY <1>2, <1>5, <1>7, <1>8 DEF Service!svars
<1>9. CASE S # {}
  <2>1. Service!Lose(S)  BY <1>1, <1>2, <1>5, <1>6, <1>7, <1>9 DEF Service!Lose
  <2>2. S \in SUBSET Packets  BY <1>3
  <2> QED  BY <2>1, <2>2 DEF Service!Next
<1> QED  BY <1>8, <1>9

\* Packets come in, are handed back, and are cancelled.
LEMMA EndsImplement ==
  ASSUME ServiceInv, NEW t \in Threads, LostIs, LostIs', UNCHANGED conn,
         \/ \E p \in Packets : htc_send_pkt(t, p)
         \/ htc_tx_completion_handler(t)
         \/ htc_flush_endpoint_tx(t),
         \A p \in Packets : Gone(p)' <=> Gone(p)
  PROVE  Service!Next
<1> USE DEF ServiceInv, TxInv
<1>1. UNCHANGED AmplePipe /\ Lost' = Lost
  BY DEF AmplePipe, CreditFlow, PipeSize, LostIs
<1>2. CASE \E p \in Packets : htc_send_pkt(t, p)
  <2>1. PICK p \in Packets : htc_send_pkt(t, p)  BY <1>2
  <2>2. Service!Accept(p)
    BY <1>1, <2>1 DEF htc_send_pkt, pipe, Service!Accept
  <2> QED  BY <2>2 DEF Service!Next
<1>3. CASE htc_tx_completion_handler(t)
  <2>1. PICK p : p = netbuf[t]  OBVIOUS
  <2>2. /\ p \in Packets /\ p \in ElementsOf(wire)
        /\ completed[p] = 0 /\ completed' = [completed EXCEPT ![p] = 1]
    BY <1>3, <2>1, HandlerMoves
  <2>3. UNCHANGED <<sent, wire>>  BY <1>3 DEF htc_tx_completion_handler, pipe
  <2>4. p \in Service!OnBus  BY <2>2 DEF Service!OnBus, ElementsOf
  <2>5. Service!Complete(p)
    BY <1>1, <2>2, <2>3, <2>4 DEF Service!Complete
  <2> QED  BY <2>2, <2>5 DEF Service!Next
<1>4. CASE htc_flush_endpoint_tx(t)
  <2>1. PICK S : S = ElementsOf(TxQueue)  OBVIOUS
  <2>2. /\ completed' = [p \in Packets |-> IF p \in S THEN 1 ELSE completed[p]]
        /\ UNCHANGED <<sent, wire>>
    BY <1>4, <2>1, FlushMoves DEF htc_flush_endpoint_tx, pipe
  <2>3. S # {} /\ S \subseteq Packets
    <3>1. TxQueue # <<>> /\ TxQueue \in Seq(Packets)
      BY <1>4, Lists DEF htc_flush_endpoint_tx
    <3> QED  BY <2>1, <3>1, TailLists, Lists
  <2>4. S \subseteq Service!Waiting
    <3> SUFFICES ASSUME NEW p \in S PROVE p \in Service!Waiting
      OBVIOUS
    <3>1. p \in Packets /\ Owned(p) /\ p \notin ElementsOf(wire)
      BY <2>1, <2>3 DEF Owned, PlaceInv, WireOK
    <3> QED  BY <3>1, WaitingAre
  <2>5. Service!Cancel(S)
    BY <1>1, <2>2, <2>3, <2>4 DEF Service!Cancel
  <2> QED  BY <2>3, <2>5 DEF Service!Next
<1> QED  BY <1>2, <1>3, <1>4

\* Every step of the transmit path is a step of the service, or none.
LEMMA ServiceStep ==
  ASSUME ServiceInv, [Next]_vars
  PROVE  Service!Next \/ UNCHANGED Service!svars
<1> USE DEF ServiceInv, TxInv
<1>0. ServiceInv'  BY ServiceInvStep
<1>1. LostIs /\ LostIs' /\ UNCHANGED conn
  <2>1. TypeInv' /\ PlaceInv' => LostIs'  BY LostAre, PTL
  <2> QED  BY <1>0, <2>1, LostAre, ConnStep
<1>2. CASE \E t \in Threads : SpliceWrite(t)
  BY <1>1, <1>2, SpliceImplements
<1>3. CASE \A t \in Threads : ~SpliceWrite(t)
  <2>1. \A p \in Packets : Gone(p)' <=> Gone(p)  BY <1>3, PlaceStep
  <2>2. ASSUME NEW t \in Threads,
               \/ \E p \in Packets : htc_send_pkt(t, p)
               \/ htc_tx_completion_handler(t)
               \/ htc_flush_endpoint_tx(t)
        PROVE  Service!Next
    BY <1>1, <2>1, <2>2, EndsImplement
  <2>3. ASSUME NEW t \in Threads, hif_send_head(t)
        PROVE  Service!Next \/ UNCHANGED Service!svars
    BY <1>0, <1>1, <2>1, <2>3, HeadImplements
  <2>4. ASSUME UNCHANGED <<sent, wire, completed>>
        PROVE  UNCHANGED Service!svars
    BY <1>1, <2>1, <2>4, Unseen
  <2>5. ASSUME NEW t \in Threads, ThreadStep(t)
        PROVE  Service!Next \/ UNCHANGED Service!svars
    <3>1. CASE htc_tx_completion_handler(t)  BY <2>2, <3>1
    <3>2. CASE hif_send_head(t)  BY <2>3, <3>2
    <3>3. CASE \/ ReadFreeQueueNumber(t) \/ htc_kick_queues(t) \/ EnterTrySend(t) \/ DrainLoop(t)
               \/ (\E i \in 1..Len(TxQueue) : TakePacket(t, i)) \/ StopTaking(t)
               \/ IssueNext(t) \/ IssueEnd(t) \/ RereadFreeQueueNumber(t) \/ Relock(t)
               \/ PutWhenIssued(t)
               \/ hif_send_complete_check(t) \/ IssueFailed(t) \/ SpliceRead(t)
               \/ ClearAfterFailure(t)
      <4>1. UNCHANGED <<sent, wire, completed>>
        BY <3>3, Zenon DEF ReadFreeQueueNumber, htc_kick_queues, EnterTrySend, DrainLoop,
           TakePacket, StopTaking,
           IssueNext, IssueEnd, RereadFreeQueueNumber, Relock, PutWhenIssued,
           hif_send_complete_check,
           IssueFailed, SpliceRead, ClearAfterFailure, pipe, packet
      <4> QED  BY <2>4, <4>1
    <3>4. CASE \/ ce_per_engine_servicereap(t) \/ LookupHead(t) \/ LookupSearch(t)
               \/ hif_pci_ce_send_done(t)
      <4>1. UNCHANGED <<sent, wire, completed>>
        BY <3>4, Zenon DEF ce_per_engine_servicereap, PopCompletion, LookupHead, LookupSearch,
           hif_pci_ce_send_done, pipe, packet
      <4> QED  BY <2>4, <4>1
    <3> QED  BY <1>3, <2>5, <3>1, <3>2, <3>3, <3>4, Zenon DEF ThreadStep
  <2>6. ASSUME NEW t \in Threads, ce_per_engine_service(t) \/ htc_process_credit_rpt(t)
        PROVE  UNCHANGED Service!svars
    <3>1. UNCHANGED <<sent, wire, completed>>
      BY <2>6 DEF ce_per_engine_service, PopCompletion, htc_process_credit_rpt, pipe, packet
    <3> QED  BY <2>4, <3>1
  <2>7. ASSUME TargetReceives \/ UNCHANGED vars PROVE UNCHANGED Service!svars
    <3>1. UNCHANGED <<sent, wire, completed>>
      BY <2>7 DEF TargetReceives, vars, pipe, packet
    <3> QED  BY <2>4, <3>1
  <2>8. /\ Senders \subseteq Threads /\ Tasklets \subseteq Threads
        /\ Reporters \subseteq Threads /\ Workers \subseteq Threads
    BY DEF Threads
  <2> QED  BY <2>2, <2>5, <2>6, <2>7, <2>8, Zenon DEF Next
<1> QED  BY <1>2, <1>3

\* Through all the queues, threads, refused batches and flushes, a packet goes to
\* the copy engine at most once and in its sender's order and is handed back at
\* most once; with more slots than credits none is lost: the transmit path
\* implements the endpoint's promise.
THEOREM ServiceImplemented == Spec => ImplementsService
<1>1. Init => Service!Init  BY InitService
<1>2. Init => ServiceInv  BY InitService
<1>3. ServiceInv /\ [Next]_vars => ServiceInv'  BY ServiceInvStep
<1>4. ServiceInv /\ [Next]_vars => [Service!Next]_Service!svars
  BY ServiceStep
<1> QED  BY <1>1, <1>2, <1>3, <1>4, PTL DEF Spec, ImplementsService, Service!Spec

\* Where the steps that look a packet up and hand it back lead.
LEMMA CompletionGoes ==
  ASSUME NEW t \in Threads,
         LookupHead(t) \/ LookupSearch(t) \/ htc_tx_completion_handler(t)
  PROVE  \E l : pc' = [pc EXCEPT ![t] = l] /\ l \notin {"take", "put"}
<1>1. ASSUME NEW reaping \in BOOLEAN, EndCompletion(t, reaping)
      PROVE  \E l : pc' = [pc EXCEPT ![t] = l] /\ l \notin {"take", "put"}
  <2>1. PICK l \in {"r_free", "free", "free_queue", "enter"} : pc' = [pc EXCEPT ![t] = l]
    BY <1>1, EndCompletionGoes
  <2> QED  BY <2>1
<1>2. ASSUME NEW reaping \in BOOLEAN,
             \/ Goto(t, IF reaping THEN "r_done" ELSE "done")
             \/ Goto(t, IF reaping THEN "r_search" ELSE "search")
      PROVE  \E l : pc' = [pc EXCEPT ![t] = l] /\ l \notin {"take", "put"}
  <2>1. PICK l \in {"r_done", "done", "r_search", "search"} : pc' = [pc EXCEPT ![t] = l]
    BY <1>2 DEF Goto
  <2> QED  BY <2>1
<1>3. CASE LookupHead(t)
  <2>1. PICK reaping \in BOOLEAN : reaping = (pc[t] = "r_lookup")  OBVIOUS
  <2>2. \/ EndCompletion(t, reaping)
        \/ Goto(t, IF reaping THEN "r_done" ELSE "done")
        \/ Goto(t, IF reaping THEN "r_search" ELSE "search")
    BY <1>3, <2>1 DEF LookupHead
  <2> QED  BY <1>1, <1>2, <2>2
<1>4. CASE LookupSearch(t)
  <2>1. PICK reaping \in BOOLEAN : reaping = (pc[t] = "r_search")  OBVIOUS
  <2>2. EndCompletion(t, reaping) \/ Goto(t, IF reaping THEN "r_done" ELSE "done")
    BY <1>4, <2>1 DEF LookupSearch
  <2> QED  BY <1>1, <1>2, <2>2
<1>5. CASE htc_tx_completion_handler(t)
  <2>1. PICK reaping \in BOOLEAN : reaping = (pc[t] = "r_done")  OBVIOUS
  <2>2. EndCompletion(t, reaping)  BY <1>5, <2>1 DEF htc_tx_completion_handler
  <2> QED  BY <1>1, <2>2
<1> QED  BY <1>3, <1>4, <1>5

-----------------------------------------------------------------------------
(* Runtime-PM references *)

\* Thread t has packet p in its local queue and has not put its reference yet.
Carried(t, p) == p \in ElementsOf(sendQueue[t]) /\ pc[t] # "spliced"

\* Thread t is about to hand packet p back.
Ending(t, p) == netbuf[t] = p /\ pc[t] \in {"done", "r_done"}

\* Packet p was taken from TxQueue and not given back.
Held(p) == OnLookup(p) \/ \E t \in Threads : Carried(t, p) \/ Ending(t, p)

\* HoldPm in the words used below.
LEMMA HoldPmIs == HoldPm = {p \in Packets \ TagAutoPm : Held(p)}
BY DEF HoldPm, Held, OnLookup, Carried, Ending

\* The tags in use change only with the connection.
LEMMA TagsKept ==
  ASSUME UNCHANGED conn
  PROVE  TagAutoPm' = TagAutoPm /\ TagRuntimePut' = TagRuntimePut
BY DEF TagAutoPm, TagRuntimePut, CreditFlow

\* HoldPm after a step.
LEMMA HoldPmAfter ==
  ASSUME UNCHANGED conn
  PROVE  HoldPm' = {p \in Packets \ TagAutoPm : Held(p)'}
<1>1. HoldPm' = {p \in Packets \ TagAutoPm' : Held(p)'}
  BY DEF HoldPm, Held, OnLookup, Carried, Ending
<1> QED  BY <1>1, TagsKept

\* References are countable because packets are.
LEMMA HoldPmFinite == IsFiniteSet(HoldPm) /\ Cardinality(HoldPm) \in Nat
<1>1. HoldPm \subseteq Packets  BY DEF HoldPm
<1>2. IsFiniteSet(HoldPm)  BY <1>1, FS_Subset, ConstAssumption
<1> QED  BY <1>2, FS_CardinalityType

\* A pass that takes ordinary packets finds no AUTO_PM packet in TxQueue.
PassOK ==
    \A t \in Threads :
        pc[t] = "take" /\ ~pmPass[t] => \A p \in ElementsOf(TxQueue) : p \notin TagAutoPm

\* Where a thread stands when its packet is about to be given back or its
\* references were put.
Marked == {"done", "r_done", "spliced"}

\* Steps that do not change the lists that hold references; only the put for a
\* packet that was just issued changes pmUsage.
Aside(t) ==
    \/ \E p \in Packets : htc_send_pkt(t, p)
    \/ ce_per_engine_service(t) \/ htc_process_credit_rpt(t)
    \/ ReadFreeQueueNumber(t) \/ htc_kick_queues(t) \/ EnterTrySend(t) \/ DrainLoop(t)
    \/ StopTaking(t) \/ IssueEnd(t) \/ RereadFreeQueueNumber(t) \/ Relock(t) \/ PutWhenIssued(t)
    \/ hif_send_complete_check(t) \/ hif_send_head(t)
    \/ ClearAfterFailure(t) \/ ce_per_engine_servicereap(t) \/ hif_pci_ce_send_done(t)

\* Those steps also leave the other threads where they are.
LEMMA AsideSteps ==
  ASSUME TypeInv, NEW t \in Threads, Aside(t)
  PROVE  /\ UNCHANGED <<TxLookupQueue, sendQueue, lookupQueue>>
         /\ ~PutWhenIssued(t) => UNCHANGED pmUsage
         /\ \A u \in Threads : u # t => pc'[u] = pc[u] /\ netbuf'[u] = netbuf[u]
         /\ pc[t] \notin Marked /\ pc'[t] \notin Marked
         /\ ~DrainLoop(t) => pc'[t] # "take" /\ UNCHANGED pmPass
<1>0. ~PutWhenIssued(t) => UNCHANGED pmUsage
  BY Zenon DEF Aside, htc_send_pkt, ce_per_engine_service, htc_process_credit_rpt,
     ReadFreeQueueNumber, htc_kick_queues, EnterTrySend, DrainLoop, StopTaking, IssueEnd,
     RereadFreeQueueNumber, Relock, hif_send_complete_check, hif_send_head, ClearAfterFailure,
     ce_per_engine_servicereap, hif_pci_ce_send_done, PopCompletion, endpoint, locals, packet
<1>1. UNCHANGED <<TxLookupQueue, sendQueue, lookupQueue>>
  BY Zenon DEF Aside, htc_send_pkt, ce_per_engine_service, htc_process_credit_rpt,
     ReadFreeQueueNumber, htc_kick_queues, EnterTrySend, DrainLoop, StopTaking, IssueEnd,
     RereadFreeQueueNumber, Relock, PutWhenIssued, hif_send_complete_check, hif_send_head,
     ClearAfterFailure, ce_per_engine_servicereap, hif_pci_ce_send_done, PopCompletion,
     endpoint, locals
<1>2. ~DrainLoop(t) => UNCHANGED pmPass
  BY Zenon DEF Aside, htc_send_pkt, ce_per_engine_service, htc_process_credit_rpt,
     ReadFreeQueueNumber, htc_kick_queues, EnterTrySend, StopTaking, IssueEnd,
     RereadFreeQueueNumber,
     Relock, PutWhenIssued, hif_send_complete_check, hif_send_head, ClearAfterFailure,
     ce_per_engine_servicereap, hif_pci_ce_send_done, PopCompletion, locals
<1>3. \A u \in Threads : u # t => netbuf'[u] = netbuf[u]
  <2>1. CASE ce_per_engine_service(t) \/ ce_per_engine_servicereap(t)
    BY <2>1, Lists DEF ce_per_engine_service, ce_per_engine_servicereap, PopCompletion, locals
  <2>2. CASE ~(ce_per_engine_service(t) \/ ce_per_engine_servicereap(t))
    <3>1. UNCHANGED netbuf
      BY <2>2, Zenon DEF Aside, htc_send_pkt, htc_process_credit_rpt,
         ReadFreeQueueNumber, htc_kick_queues, EnterTrySend, DrainLoop, StopTaking, IssueEnd,
         RereadFreeQueueNumber, Relock, PutWhenIssued, hif_send_complete_check, hif_send_head,
         ClearAfterFailure, hif_pci_ce_send_done, locals
    <3> QED  BY <3>1
  <2> QED  BY <2>1, <2>2
<1>4. TrySendReturn(t) \in {"idle", "free"} /\ TrySendEntry \in {"free_queue", "enter"}
  BY DEF TrySendReturn, TrySendEntry
<1> DEFINE Moved == /\ \A u \in Threads : u # t => pc'[u] = pc[u]
                    /\ pc[t] \notin Marked /\ pc'[t] \notin Marked
                    /\ ~DrainLoop(t) => pc'[t] # "take"
<1>5. CASE \E p \in Packets : htc_send_pkt(t, p)
  <2>1. pc[t] = "idle" /\ pc' = [pc EXCEPT ![t] = TrySendEntry]
    BY <1>5 DEF htc_send_pkt, Goto
  <2>2. Moved  BY <1>4, <2>1, Lists DEF Marked
  <2> QED  BY <1>0, <1>1, <1>2, <1>3, <2>2
<1>6. CASE ce_per_engine_service(t) \/ ce_per_engine_servicereap(t)
  <2>1. Moved
    BY <1>6, Lists DEF ce_per_engine_service, ce_per_engine_servicereap, PopCompletion, Goto,
       Marked
  <2> QED  BY <1>0, <1>1, <1>2, <1>3, <2>1
<1>7. CASE htc_process_credit_rpt(t)
  <2>1. Moved
    BY <1>4, <1>7, Lists DEF htc_process_credit_rpt, Goto, Marked
  <2> QED  BY <1>0, <1>1, <1>2, <1>3, <2>1
<1>8. CASE ReadFreeQueueNumber(t) \/ htc_kick_queues(t) \/ EnterTrySend(t) \/ IssueEnd(t)
  <2>1. Moved
    BY <1>4, <1>8, Lists DEF ReadFreeQueueNumber, htc_kick_queues, EnterTrySend, IssueEnd,
       Goto, Marked
  <2> QED  BY <1>0, <1>1, <1>2, <1>3, <2>1
<1>9. CASE DrainLoop(t)
  <2>1. Moved  BY <1>4, <1>9, Lists DEF DrainLoop, EndDrain, Goto, Marked
  <2> QED  BY <1>0, <1>1, <1>2, <1>3, <2>1
<1>10. CASE StopTaking(t) \/ ClearAfterFailure(t)
  <2>1. Moved
    BY <1>4, <1>10, Lists DEF StopTaking, ClearAfterFailure, EndDrain, Goto, Marked
  <2> QED  BY <1>0, <1>1, <1>2, <1>3, <2>1
<1>11. CASE RereadFreeQueueNumber(t) \/ Relock(t) \/ PutWhenIssued(t) \/ hif_send_complete_check(t)
  <2>1. Moved
    BY <1>11, Lists DEF RereadFreeQueueNumber, Relock, PutWhenIssued, hif_send_complete_check,
       Goto, Marked
  <2> QED  BY <1>0, <1>1, <1>2, <1>3, <2>1
<1>12. CASE hif_send_head(t) \/ hif_pci_ce_send_done(t)
  <2>1. Moved
    BY <1>12, Lists DEF hif_send_head, hif_pci_ce_send_done, Goto, Marked
  <2> QED  BY <1>0, <1>1, <1>2, <1>3, <2>1
<1> HIDE DEF Moved
<1> QED
  BY <1>5, <1>6, <1>7, <1>8, <1>9, <1>10, <1>11, <1>12, Zenon DEF Aside

\* Such a step leaves the packets that hold references alone.
LEMMA HeldRests ==
  ASSUME NEW t \in Threads, UNCHANGED <<TxLookupQueue, sendQueue, lookupQueue>>,
         \A u \in Threads : u # t => pc'[u] = pc[u] /\ netbuf'[u] = netbuf[u],
         pc[t] \notin Marked, pc'[t] \notin Marked
  PROVE  \A p \in Packets : Held(p)' <=> Held(p)
<1>1. \A p \in Packets : OnLookup(p)' <=> OnLookup(p)  BY DEF OnLookup
<1>2. \A p \in Packets, u \in Threads : Carried(u, p)' <=> Carried(u, p)
  BY DEF Carried, Marked
<1>3. \A p \in Packets, u \in Threads : Ending(u, p)' <=> Ending(u, p)
  BY DEF Ending, Marked
<1> QED  BY <1>1, <1>2, <1>3 DEF Held

\* The steps that keep the passes of the drainer.
LEMMA PassStep ==
  ASSUME TypeInv, PlaceInv, PassOK, [Next]_vars
  PROVE  PassOK'
<1>0. TagAutoPm' = TagAutoPm  BY ConnStep, TagsKept
<1>1. ASSUME NEW t \in Threads, Aside(t) PROVE PassOK'
  <2>1. CASE DrainLoop(t)
    <3>1. /\ pc[t] = "drain" /\ UNCHANGED TxQueue
          /\ \A u \in Threads : u # t => pc'[u] = pc[u] /\ pmPass'[u] = pmPass[u]
      BY <2>1, Lists DEF DrainLoop, EndDrain, Goto, TypeInv, FlagTypes
    <3>2. ASSUME pc'[t] = "take", ~pmPass'[t]
          PROVE  \A p \in ElementsOf(TxQueue) : p \notin TagAutoPm
      <4>1. TrySendReturn(t) # "take"  BY DEF TrySendReturn
      <4>2. TxQueue # <<>>
        BY <2>1, <3>2, <4>1, Lists DEF DrainLoop, EndDrain, Goto
      <4>3. pmPass'[t] = \E i \in 1..Len(TxQueue) : TxQueue[i] \in TagAutoPm
        BY <2>1, <4>2 DEF DrainLoop, TypeInv, FlagTypes
      <4> QED  BY <3>2, <4>3 DEF ElementsOf
    <3> QED  BY <1>0, <3>1, <3>2 DEF PassOK
  <2>2. CASE EnterTrySend(t)
    <3>1. \A u \in Threads : pc[u] # "take"  BY <2>2 DEF EnterTrySend, LockFree
    <3>2. ~DrainLoop(t)  BY <2>2 DEF EnterTrySend, DrainLoop
    <3>3. \A u \in Threads : pc'[u] # "take"  BY <1>1, <3>1, <3>2, AsideSteps
    <3> QED  BY <3>3 DEF PassOK
  <2>3. CASE ~DrainLoop(t) /\ ~EnterTrySend(t)
    <3>1. UNCHANGED TxQueue
      BY <1>1, <2>3, Zenon DEF Aside, htc_send_pkt, ce_per_engine_service,
         htc_process_credit_rpt, ReadFreeQueueNumber, htc_kick_queues, StopTaking, IssueEnd,
         RereadFreeQueueNumber, Relock, PutWhenIssued, hif_send_complete_check, hif_send_head,
         ClearAfterFailure, ce_per_engine_servicereap, hif_pci_ce_send_done, PopCompletion,
         endpoint
    <3> QED  BY <1>0, <1>1, <2>3, <3>1, AsideSteps DEF PassOK
  <2> QED  BY <2>1, <2>2, <2>3
<1>2. ASSUME NEW t \in Threads, htc_flush_endpoint_tx(t) PROVE PassOK'
  BY <1>0, <1>2 DEF htc_flush_endpoint_tx, LockFree, PassOK
<1>3. ASSUME NEW t \in Threads, NEW i \in 1..Len(TxQueue), TakePacket(t, i) PROVE PassOK'
  <2>1. TxQueue' = RemoveIndex(TxQueue, i) /\ UNCHANGED <<pc, pmPass>>
    BY <1>3 DEF TakePacket
  <2>2. ElementsOf(TxQueue') \subseteq ElementsOf(TxQueue)
    <3>1. TxQueue \in Seq(Packets)  BY Lists
    <3> QED  BY <2>1, <3>1, RemoveLists
  <2> QED  BY <1>0, <2>1, <2>2 DEF PassOK
<1>4. ASSUME NEW t \in Threads, UNCHANGED <<TxQueue, pmPass>>,
             NEW l, pc' = [pc EXCEPT ![t] = l], l # "take"
      PROVE  PassOK'
  <2>1. pc'[t] = l /\ \A u \in Threads : u # t => pc'[u] = pc[u]  BY <1>4, Lists
  <2> QED  BY <1>0, <1>4, <2>1 DEF PassOK
<1>5. ASSUME NEW t \in Threads, IssueNext(t) \/ IssueFailed(t) \/ SpliceRead(t) PROVE PassOK'
  BY <1>4, <1>5 DEF IssueNext, IssueFailed, SpliceRead, Goto, endpoint
<1>6. ASSUME NEW t \in Threads,
             LookupHead(t) \/ LookupSearch(t) \/ htc_tx_completion_handler(t)
      PROVE  PassOK'
  <2>1. UNCHANGED <<TxQueue, pmPass>>
    BY <1>6 DEF LookupHead, LookupSearch, htc_tx_completion_handler, endpoint
  <2>2. PICK l : pc' = [pc EXCEPT ![t] = l] /\ l # "take"
    BY <1>6, CompletionGoes
  <2> QED  BY <1>4, <2>1, <2>2
<1>7. ASSUME NEW t \in Threads, SpliceWrite(t) PROVE PassOK'
  <2>1. pc[t] = "spliced" /\ pc' = [pc EXCEPT ![t] = "clear"]  BY <1>7 DEF SpliceWrite, Goto
  <2>2. \A u \in Threads : u # t => pc[u] \notin DrainPcs
    BY <2>1, SenderIsAlone DEF DrainPcs
  <2>3. \A u \in Threads : pc'[u] # "take"
    BY <2>1, <2>2, Lists DEF DrainPcs
  <2> QED  BY <2>3 DEF PassOK
<1>8. ASSUME TargetReceives \/ UNCHANGED vars PROVE PassOK'
  BY <1>0, <1>8 DEF TargetReceives, vars, endpoint, locals, PassOK
<1>9. ASSUME NEW t \in Threads, ThreadStep(t) PROVE PassOK'
  BY <1>1, <1>3, <1>5, <1>6, <1>7, <1>9, Zenon DEF ThreadStep, Aside
<1>10. /\ Senders \subseteq Threads /\ Tasklets \subseteq Threads
       /\ Reporters \subseteq Threads /\ Workers \subseteq Threads
  BY DEF Threads
<1> QED  BY <1>1, <1>2, <1>8, <1>9, <1>10, Zenon DEF Next, Aside

\* Taking a packet is where it begins to be held.
LEMMA TakeHolds ==
  ASSUME TypeInv, PlaceInv, NEW t \in Threads, NEW i \in 1..Len(TxQueue), TakePacket(t, i)
  PROVE  /\ TxQueue[i] \in Packets /\ ~Held(TxQueue[i])
         /\ \A q \in Packets : Held(q)' <=> Held(q) \/ q = TxQueue[i]
<1> USE DEF PlaceInv
<1>0. PICK p : p = TxQueue[i]  OBVIOUS
<1>1. /\ pc[t] = "take" /\ sendQueue' = [sendQueue EXCEPT ![t] = Append(sendQueue[t], p)]
      /\ UNCHANGED <<TxLookupQueue, lookupQueue, netbuf, pc>>
  BY <1>0 DEF TakePacket
<1>2. p \in Packets /\ p \in ElementsOf(TxQueue)
  BY <1>0, Lists DEF ElementsOf
<1>3. ~Held(p)
  <2>1. p \notin ElementsOf(TxLookupQueue) /\ \A u \in Threads : ~Has(u, p)
    BY <1>2 DEF Apart
  <2> QED  BY <2>1 DEF Held, OnLookup, Carried, Ending, Has, Pointed
<1>4. /\ sendQueue'[t] = Append(sendQueue[t], p)
      /\ \A u \in Threads : u # t => sendQueue'[u] = sendQueue[u]
  BY <1>1, Lists
<1>5. ElementsOf(sendQueue'[t]) = ElementsOf(sendQueue[t]) \cup {p}
  <2>1. sendQueue[t] \in Seq(Packets)  BY Lists
  <2> QED  BY <1>2, <1>4, <2>1, AppendLists
<1>6. \A q \in Packets : OnLookup(q)' <=> OnLookup(q)  BY <1>1 DEF OnLookup
<1>7. \A q \in Packets, u \in Threads : Ending(u, q)' <=> Ending(u, q)  BY <1>1 DEF Ending
<1>8. \A q \in Packets, u \in Threads : Carried(u, q)' <=> Carried(u, q) \/ (u = t /\ q = p)
  BY <1>1, <1>4, <1>5 DEF Carried
<1> QED  BY <1>0, <1>2, <1>3, <1>6, <1>7, <1>8 DEF Held

\* A packet that is issued goes from the local queue to the lookup queue, and
\* back when it is refused.
LEMMA IssueHolds ==
  ASSUME TypeInv, PlaceInv, NEW t \in Threads, IssueNext(t) \/ IssueFailed(t)
  PROVE  \A q \in Packets : Held(q)' <=> Held(q)
<1> USE DEF PlaceInv
<1>1. CASE IssueNext(t)
  <2>0. PICK p : p = Head(sendQueue[t])  OBVIOUS
  <2>1. /\ pc[t] = "issue" /\ sendQueue[t] # <<>>
        /\ sendQueue' = [sendQueue EXCEPT ![t] = Tail(sendQueue[t])]
        /\ TxLookupQueue' = Append(TxLookupQueue, p)
        /\ pc' = [pc EXCEPT ![t] = "poll"]
        /\ UNCHANGED <<lookupQueue, netbuf>>
    BY <1>1, <2>0 DEF IssueNext, Goto
  <2>2. /\ sendQueue'[t] = Tail(sendQueue[t]) /\ pc'[t] = "poll"
        /\ \A u \in Threads : u # t => sendQueue'[u] = sendQueue[u] /\ pc'[u] = pc[u]
    BY <2>1, Lists
  <2>3. /\ p \in Packets /\ p \in ElementsOf(sendQueue[t])
        /\ ElementsOf(sendQueue[t]) = ElementsOf(Tail(sendQueue[t])) \cup {p}
    <3>1. sendQueue[t] \in Seq(Packets)  BY Lists
    <3> QED  BY <2>0, <2>1, <3>1, TailLists
  <2>4. ElementsOf(TxLookupQueue') = ElementsOf(TxLookupQueue) \cup {p}
    <3>1. TxLookupQueue \in Seq(Packets)  BY Lists
    <3> QED  BY <2>1, <2>3, <3>1, AppendLists
  <2>5. \A q \in Packets : OnLookup(q)' <=> OnLookup(q) \/ q = p
    BY <2>1, <2>4 DEF OnLookup
  <2>6. \A q \in Packets, u \in Threads : Ending(u, q)' <=> Ending(u, q)
    BY <2>1, <2>2 DEF Ending
  <2>7. \A q \in Packets, u \in Threads : Carried(u, q)' \/ (u = t /\ q = p) <=> Carried(u, q)
    BY <2>1, <2>2, <2>3 DEF Carried
  <2> QED  BY <2>3, <2>5, <2>6, <2>7 DEF Held
<1>2. CASE IssueFailed(t)
  <2>0. PICK p : p = pPacket[t]  OBVIOUS
  <2>1. /\ pc[t] = "fail" /\ TxLookupQueue' = Without(TxLookupQueue, p)
        /\ lookupQueue' = [u \in Threads |-> Without(lookupQueue[u], p)]
        /\ sendQueue' = [sendQueue EXCEPT ![t] = <<p>> \o sendQueue[t]]
        /\ pc' = [pc EXCEPT ![t] = "splice"] /\ UNCHANGED netbuf
    BY <1>2, <2>0 DEF IssueFailed, Goto
  <2>2. p \in Packets /\ OnLookup(p)
    BY <2>0, <2>1 DEF TypeInv, HandTypes, HandOK, Sending
  <2>3. /\ sendQueue'[t] = <<p>> \o sendQueue[t] /\ pc'[t] = "splice"
        /\ \A u \in Threads : u # t => sendQueue'[u] = sendQueue[u] /\ pc'[u] = pc[u]
    BY <2>1, Lists
  <2>4. ElementsOf(sendQueue'[t]) = ElementsOf(sendQueue[t]) \cup {p}
    <3>1. sendQueue[t] \in Seq(Packets)  BY Lists
    <3>2. <<p>> \in Seq(Packets) /\ ElementsOf(<<p>>) = {p}  BY <2>2 DEF ElementsOf
    <3>3. ElementsOf(<<p>> \o sendQueue[t]) = ElementsOf(<<p>>) \cup ElementsOf(sendQueue[t])
      BY <3>1, <3>2, ConcatLists
    <3> QED  BY <2>3, <3>2, <3>3
  <2>5. ElementsOf(TxLookupQueue') = ElementsOf(TxLookupQueue) \ {p}
    <3>1. TxLookupQueue \in Seq(Packets) /\ Uniq(TxLookupQueue)  BY Lists DEF ListsOK
    <3> QED  BY <2>1, <3>1, WithoutLists
  <2>6. ASSUME NEW u \in Threads
        PROVE  ElementsOf(lookupQueue'[u]) = ElementsOf(lookupQueue[u]) \ {p}
    <3>1. lookupQueue[u] \in Seq(Packets) /\ Uniq(lookupQueue[u])  BY Lists DEF ListsOK
    <3>2. lookupQueue'[u] = Without(lookupQueue[u], p)  BY <2>1
    <3> QED  BY <3>1, <3>2, WithoutLists
  <2>7. \A q \in Packets : OnLookup(q)' <=> OnLookup(q) /\ q # p
    BY <2>5, <2>6 DEF OnLookup
  <2>8. \A q \in Packets, u \in Threads : Ending(u, q)' <=> Ending(u, q)
    BY <2>1, <2>3 DEF Ending
  <2>9. \A q \in Packets, u \in Threads : Carried(u, q)' <=> Carried(u, q) \/ (u = t /\ q = p)
    BY <2>1, <2>3, <2>4 DEF Carried
  <2> QED  BY <2>2, <2>7, <2>8, <2>9 DEF Held
<1> QED  BY <1>1, <1>2

\* The put of the refused batch ends the hold of its packets; the splice itself
\* ends none.
LEMMA SpliceHolds ==
  ASSUME TypeInv, PlaceInv, NEW t \in Threads
  PROVE  /\ SpliceRead(t) =>
               /\ \A q \in ElementsOf(sendQueue[t]) : Held(q)
               /\ \A q \in Packets : Held(q)' <=> Held(q) /\ q \notin ElementsOf(sendQueue[t])
         /\ SpliceWrite(t) => \A q \in Packets : Held(q)' <=> Held(q)
<1> USE DEF PlaceInv
<1>1. ASSUME SpliceRead(t)
      PROVE  /\ \A q \in ElementsOf(sendQueue[t]) : Held(q)
             /\ \A q \in Packets : Held(q)' <=> Held(q) /\ q \notin ElementsOf(sendQueue[t])
  <2>1. /\ pc[t] = "splice" /\ pc'[t] = "spliced"
        /\ \A u \in Threads : u # t => pc'[u] = pc[u]
        /\ UNCHANGED <<TxLookupQueue, sendQueue, lookupQueue, netbuf>>
    BY <1>1, Lists DEF SpliceRead, Goto, endpoint
  <2>2. \A q \in ElementsOf(sendQueue[t]) : Carried(t, q)  BY <2>1 DEF Carried
  <2>3. ASSUME NEW q \in Packets, q \in ElementsOf(sendQueue[t])
        PROVE  ~Held(q)'
    <3>1. /\ q \notin ElementsOf(TxLookupQueue) /\ Has(t, q)
          /\ \A u \in Threads : u # t => ~Has(u, q)
          /\ q \notin ElementsOf(lookupQueue[t]) /\ ~Pointed(t, q)
      BY <2>3 DEF Apart, Has
    <3>2. ~OnLookup(q)'  BY <2>1, <3>1 DEF OnLookup, Has
    <3>3. \A u \in Threads : ~Carried(u, q)'  BY <2>1, <3>1 DEF Carried, Has
    <3>4. \A u \in Threads : ~Ending(u, q)'  BY <2>1, <3>1 DEF Ending, Has, Pointed
    <3> QED  BY <3>2, <3>3, <3>4 DEF Held
  <2>4. ASSUME NEW q \in Packets, q \notin ElementsOf(sendQueue[t])
        PROVE  Held(q)' <=> Held(q)
    <3>1. OnLookup(q)' <=> OnLookup(q)  BY <2>1 DEF OnLookup
    <3>2. \A u \in Threads : Carried(u, q)' <=> Carried(u, q)  BY <2>1, <2>4 DEF Carried
    <3>3. \A u \in Threads : Ending(u, q)' <=> Ending(u, q)  BY <2>1 DEF Ending
    <3> QED  BY <3>1, <3>2, <3>3 DEF Held
  <2> QED  BY <2>2, <2>3, <2>4 DEF Held
<1>2. ASSUME SpliceWrite(t) PROVE \A q \in Packets : Held(q)' <=> Held(q)
  <2>1. /\ pc[t] = "spliced" /\ pc'[t] = "clear" /\ sendQueue'[t] = <<>>
        /\ \A u \in Threads : u # t => pc'[u] = pc[u] /\ sendQueue'[u] = sendQueue[u]
        /\ UNCHANGED <<TxLookupQueue, lookupQueue, netbuf>>
    BY <1>2, Lists DEF SpliceWrite, Goto
  <2>2. ElementsOf(sendQueue'[t]) = {}  BY <2>1 DEF ElementsOf
  <2>3. \A q \in Packets : OnLookup(q)' <=> OnLookup(q)  BY <2>1 DEF OnLookup
  <2>4. \A q \in Packets, u \in Threads : Carried(u, q)' <=> Carried(u, q)
    BY <2>1, <2>2 DEF Carried
  <2>5. \A q \in Packets, u \in Threads : Ending(u, q)' <=> Ending(u, q)  BY <2>1 DEF Ending
  <2> QED  BY <2>3, <2>4, <2>5 DEF Held
<1> QED  BY <1>1, <1>2

\* The packet that a completion finds goes from a lookup queue to its hand.
LEMMA FoundHolds ==
  ASSUME TypeInv, NEW t \in Threads, NEW p \in Packets, NEW l \in {"done", "r_done"},
         p = netbuf[t], pc[t] \notin Marked, pc' = [pc EXCEPT ![t] = l],
         UNCHANGED <<sendQueue, netbuf>>, OnLookup(p),
         \A q \in Packets : OnLookup(q)' <=> OnLookup(q) /\ q # p
  PROVE  \A q \in Packets : Held(q)' <=> Held(q)
<1>1. pc'[t] = l /\ \A u \in Threads : u # t => pc'[u] = pc[u]  BY Lists
<1>2. \A q \in Packets, u \in Threads : Carried(u, q)' <=> Carried(u, q)
  BY <1>1 DEF Carried, Marked
<1>3. \A q \in Packets, u \in Threads : Ending(u, q)' <=> Ending(u, q) \/ (u = t /\ q = p)
  BY <1>1 DEF Ending, Marked
<1> QED  BY <1>2, <1>3 DEF Held

\* A lookup that finds nothing.
LEMMA NotFoundHolds ==
  ASSUME TypeInv, NEW t \in Threads, NEW l, NEW n, pc[t] \notin Marked, l \notin Marked,
         pc' = [pc EXCEPT ![t] = l], netbuf' = [netbuf EXCEPT ![t] = n], UNCHANGED sendQueue,
         \A q \in Packets : OnLookup(q)' <=> OnLookup(q)
  PROVE  \A q \in Packets : Held(q)' <=> Held(q)
<1>1. /\ pc'[t] = l
      /\ \A u \in Threads : u # t => pc'[u] = pc[u] /\ netbuf'[u] = netbuf[u]
  BY Lists
<1>2. \A q \in Packets, u \in Threads : Carried(u, q)' <=> Carried(u, q)
  BY <1>1 DEF Carried, Marked
<1>3. \A q \in Packets, u \in Threads : Ending(u, q)' <=> Ending(u, q)
  BY <1>1 DEF Ending, Marked
<1> QED  BY <1>2, <1>3 DEF Held

\* htc_lookup_tx_packet ends no hold and begins none.
LEMMA LookupHolds ==
  ASSUME TypeInv, PlaceInv, NEW t \in Threads, LookupHead(t) \/ LookupSearch(t)
  PROVE  \A q \in Packets : Held(q)' <=> Held(q)
<1> USE DEF PlaceInv
<1>1. ASSUME NEW reaping \in BOOLEAN, EndCompletion(t, reaping), pc[t] \notin Marked,
             UNCHANGED sendQueue, \A q \in Packets : OnLookup(q)' <=> OnLookup(q)
      PROVE  \A q \in Packets : Held(q)' <=> Held(q)
  <2>1. PICK l \in {"r_free", "free", "free_queue", "enter"} : pc' = [pc EXCEPT ![t] = l]
    BY <1>1, EndCompletionGoes
  <2>2. netbuf' = [netbuf EXCEPT ![t] = NoPkt]  BY <1>1, EndCompletionGoes
  <2>3. PICK n : n = NoPkt  OBVIOUS
  <2>4. l \notin Marked /\ netbuf' = [netbuf EXCEPT ![t] = n]  BY <2>2, <2>3 DEF Marked
  <2> QED  BY <1>1, <2>1, <2>4, NotFoundHolds
<1>2. CASE LookupHead(t)
  <2>1. PICK reaping \in BOOLEAN : reaping = (pc[t] = "r_lookup")  OBVIOUS
  <2>2. /\ pc[t] \in {"lookup", "r_lookup"} /\ UNCHANGED sendQueue /\ pc[t] \notin Marked
        /\ lookupQueue[t] = <<>> /\ netbuf[t] \in Packets
    BY <1>2 DEF LookupHead, HandOK, TypeInv, HandTypes, Completing, Marked
  <2>3. CASE EndCompletion(t, reaping) /\ UNCHANGED <<TxLookupQueue, lookupQueue>>
    <3>1. \A q \in Packets : OnLookup(q)' <=> OnLookup(q)  BY <2>3 DEF OnLookup
    <3> QED  BY <1>1, <2>2, <2>3, <3>1
  <2>4. CASE /\ TxLookupQueue # <<>> /\ netbuf[t] = Head(TxLookupQueue)
             /\ TxLookupQueue' = Tail(TxLookupQueue)
             /\ Goto(t, IF reaping THEN "r_done" ELSE "done")
             /\ UNCHANGED <<lookupQueue, netbuf, owesSlot>>
    <3>1. PICK p \in Packets : p = netbuf[t]  BY <2>2
    <3>2. PICK l \in {"done", "r_done"} : pc' = [pc EXCEPT ![t] = l]  BY <2>4 DEF Goto
    <3>3. /\ ElementsOf(TxLookupQueue) = ElementsOf(TxLookupQueue') \cup {p}
          /\ p \in ElementsOf(TxLookupQueue) /\ p \notin ElementsOf(TxLookupQueue')
      <4>1. TxLookupQueue \in Seq(Packets) /\ Uniq(TxLookupQueue)  BY Lists DEF ListsOK
      <4>2. p = Head(TxLookupQueue) /\ TxLookupQueue # <<>>  BY <2>4, <3>1
      <4>3. /\ ElementsOf(TxLookupQueue) = ElementsOf(Tail(TxLookupQueue)) \cup {p}
            /\ p \in ElementsOf(TxLookupQueue) /\ p \notin ElementsOf(Tail(TxLookupQueue))
        BY <4>1, <4>2, TailLists
      <4> QED  BY <2>4, <4>3
    <3>4. \A u \in Threads : p \notin ElementsOf(lookupQueue[u])  BY <3>3 DEF Apart, Has
    <3>5. OnLookup(p) /\ \A q \in Packets : OnLookup(q)' <=> OnLookup(q) /\ q # p
      BY <2>4, <3>3, <3>4 DEF OnLookup
    <3>6. UNCHANGED <<sendQueue, netbuf>>  BY <2>2, <2>4
    <3> QED  BY <2>2, <3>1, <3>2, <3>5, <3>6, FoundHolds
  <2>5. CASE /\ lookupQueue' = [lookupQueue EXCEPT ![t] = TxLookupQueue]
             /\ TxLookupQueue' = <<>>
             /\ Goto(t, IF reaping THEN "r_search" ELSE "search")
             /\ UNCHANGED <<netbuf, owesSlot>>
    <3>1. PICK l \in {"search", "r_search"} : pc' = [pc EXCEPT ![t] = l]  BY <2>5 DEF Goto
    <3>2. PICK n : n = netbuf[t]  OBVIOUS
    <3>3. netbuf' = [netbuf EXCEPT ![t] = n] /\ l \notin Marked
      BY <2>5, <3>2, Lists DEF Marked
    <3>4. /\ lookupQueue'[t] = TxLookupQueue
          /\ \A u \in Threads : u # t => lookupQueue'[u] = lookupQueue[u]
          /\ ElementsOf(TxLookupQueue') = {} /\ ElementsOf(lookupQueue[t]) = {}
      BY <2>2, <2>5, Lists DEF ElementsOf
    <3>5. \A q \in Packets : OnLookup(q)' <=> OnLookup(q)
      BY <3>4 DEF OnLookup
    <3> QED  BY <2>2, <3>1, <3>3, <3>5, NotFoundHolds
  <2> QED  BY <1>2, <2>1, <2>3, <2>4, <2>5 DEF LookupHead
<1>3. CASE LookupSearch(t)
  <2>1. PICK reaping \in BOOLEAN : reaping = (pc[t] = "r_search")  OBVIOUS
  <2>2. /\ pc[t] \in {"search", "r_search"} /\ UNCHANGED sendQueue /\ pc[t] \notin Marked
        /\ netbuf[t] \in Packets
    BY <1>3 DEF LookupSearch, TypeInv, HandTypes, Completing, Marked
  <2>3. PICK p \in Packets : p = netbuf[t]  BY <2>2
  <2>4. PICK r : r = Without(lookupQueue[t], p)  OBVIOUS
  <2>5. /\ TxLookupQueue' = r \o TxLookupQueue
        /\ lookupQueue' = [lookupQueue EXCEPT ![t] = <<>>]
    BY <1>3, <2>3, <2>4 DEF LookupSearch
  <2>6. lookupQueue[t] \in Seq(Packets) /\ TxLookupQueue \in Seq(Packets) /\ Uniq(lookupQueue[t])
    BY Lists DEF ListsOK
  <2>7. r \in Seq(Packets) /\ ElementsOf(r) = ElementsOf(lookupQueue[t]) \ {p}
    BY <2>4, <2>6, WithoutLists, WithoutType
  <2>8. ElementsOf(TxLookupQueue') = ElementsOf(r) \cup ElementsOf(TxLookupQueue)
    BY <2>5, <2>6, <2>7, ConcatLists
  <2>9. /\ ElementsOf(lookupQueue'[t]) = {}
        /\ \A u \in Threads : u # t => lookupQueue'[u] = lookupQueue[u]
    <3>1. lookupQueue'[t] = <<>>  BY <2>5, Lists
    <3> QED  BY <2>5, <3>1, Lists DEF ElementsOf
  <2>10. CASE p \in ElementsOf(lookupQueue[t])
    <3>1. PICK l \in {"done", "r_done"} : pc' = [pc EXCEPT ![t] = l]
      BY <1>3, <2>3, <2>10 DEF LookupSearch, Goto
    <3>2. UNCHANGED <<sendQueue, netbuf>>
      BY <1>3, <2>2, <2>3, <2>10 DEF LookupSearch
    <3>3. /\ p \notin ElementsOf(TxLookupQueue)
          /\ \A u \in Threads : u # t => p \notin ElementsOf(lookupQueue[u])
      BY <2>10 DEF Apart, Has
    <3>4. OnLookup(p) /\ \A q \in Packets : OnLookup(q)' <=> OnLookup(q) /\ q # p
      BY <2>7, <2>8, <2>9, <2>10, <3>3 DEF OnLookup
    <3> QED  BY <2>2, <2>3, <3>1, <3>2, <3>4, FoundHolds
  <2>11. CASE p \notin ElementsOf(lookupQueue[t])
    <3>1. EndCompletion(t, reaping)
      BY <1>3, <2>1, <2>3, <2>11 DEF LookupSearch
    <3>2. \A q \in Packets : OnLookup(q)' <=> OnLookup(q)
      BY <2>7, <2>8, <2>9, <2>11 DEF OnLookup
    <3> QED  BY <1>1, <2>2, <3>1, <3>2
  <2> QED  BY <2>10, <2>11
<1> QED  BY <1>2, <1>3

\* Handing the packet back ends its hold.
LEMMA HandlerHolds ==
  ASSUME TypeInv, PlaceInv, NEW t \in Threads, htc_tx_completion_handler(t)
  PROVE  /\ netbuf[t] \in Packets /\ Held(netbuf[t])
         /\ \A q \in Packets : Held(q)' <=> Held(q) /\ q # netbuf[t]
<1> USE DEF PlaceInv
<1>1. PICK reaping \in BOOLEAN : reaping = (pc[t] = "r_done")  OBVIOUS
<1>2. /\ pc[t] \in {"done", "r_done"} /\ EndCompletion(t, reaping)
      /\ UNCHANGED <<TxLookupQueue, sendQueue, lookupQueue>> /\ netbuf[t] \in Packets
  BY <1>1 DEF htc_tx_completion_handler, endpoint, TypeInv, HandTypes, Completing
<1>3. PICK p \in Packets : p = netbuf[t]  BY <1>2
<1>4. PICK l \in {"r_free", "free", "free_queue", "enter"} : pc' = [pc EXCEPT ![t] = l]
  BY <1>2, EndCompletionGoes
<1>5. /\ pc'[t] = l
      /\ \A u \in Threads : u # t => pc'[u] = pc[u] /\ netbuf'[u] = netbuf[u]
  <2>1. netbuf' = [netbuf EXCEPT ![t] = NoPkt]  BY <1>2, EndCompletionGoes
  <2> QED  BY <1>4, <2>1, Lists
<1>6. Ending(t, p) /\ Held(p) /\ Pointed(t, p)
  BY <1>2, <1>3 DEF Ending, Held, Pointed
<1>7. /\ p \notin ElementsOf(TxLookupQueue) /\ Has(t, p)
      /\ \A u \in Threads : u # t => ~Has(u, p)
      /\ p \notin ElementsOf(lookupQueue[t]) /\ p \notin ElementsOf(sendQueue[t])
  BY <1>6 DEF Apart, Has
<1>8. ~Held(p)'
  <2>1. ~OnLookup(p)'  BY <1>2, <1>7 DEF OnLookup, Has
  <2>2. \A u \in Threads : ~Carried(u, p)'  BY <1>2, <1>7 DEF Carried, Has
  <2>3. \A u \in Threads : ~Ending(u, p)'  BY <1>5, <1>7 DEF Ending, Has, Pointed
  <2> QED  BY <2>1, <2>2, <2>3 DEF Held
<1>9. ASSUME NEW q \in Packets, q # p PROVE Held(q)' <=> Held(q)
  <2>1. OnLookup(q)' <=> OnLookup(q)  BY <1>2 DEF OnLookup
  <2>2. \A u \in Threads : Carried(u, q)' <=> Carried(u, q)  BY <1>2, <1>5 DEF Carried
  <2>3. \A u \in Threads : Ending(u, q)' <=> Ending(u, q)
    BY <1>2, <1>3, <1>5, <1>9 DEF Ending
  <2> QED  BY <2>1, <2>2, <2>3 DEF Held
<1> QED  BY <1>3, <1>6, <1>8, <1>9

\* A list has no more members than places.
LEMMA ElementsCount ==
  ASSUME NEW s \in Seq(Packets)
  PROVE  IsFiniteSet(ElementsOf(s)) /\ Cardinality(ElementsOf(s)) <= Len(s)
<1>1. Len(s) \in Nat /\ s \in [1..Len(s) -> Packets]  OBVIOUS
<1>2. s \in Surjection(1..Len(s), ElementsOf(s))
  BY <1>1 DEF Surjection, ElementsOf
<1>3. IsFiniteSet(1..Len(s)) /\ Cardinality(1..Len(s)) = Len(s)
  BY <1>1, FS_Interval
<1> QED  BY <1>2, <1>3, FS_Surjection

\* A packet was issued whose surplus put is still to come.
Putting == \E t \in Threads : pc[t] = "put"

\* PmBalanced made inductive: between hif_send_head and the surplus put of the
\* message it sent, one reference more is there.
PmKept ==
    /\ pmUsage <= Cardinality(HoldPm)
    /\ AmplePipe \/ TagAutoPm = {} =>
          Cardinality(HoldPm) + (IF Putting THEN 1 ELSE 0)
              <= pmUsage + Cardinality(PutTwice)

\* Messages put twice are countable because packets are.
LEMMA PutTwiceFinite == IsFiniteSet(PutTwice) /\ Cardinality(PutTwice) \in Nat
<1>1. PutTwice \subseteq Packets  BY ConstAssumption DEF PutTwice, TagRuntimePut
<1>2. IsFiniteSet(PutTwice)  BY <1>1, FS_Subset, ConstAssumption
<1> QED  BY <1>2, FS_CardinalityType

\* Only hif_send_head puts packets on the wire and makes a surplus put due.
LEMMA NoNewPut ==
  ASSUME TypeInv, [Next]_vars, ~ \E t \in Threads : hif_send_head(t)
  PROVE  UNCHANGED wire /\ (Putting' => Putting)
<1> DEFINE Good == UNCHANGED wire /\ (Putting' => Putting)
<1>0. /\ Senders \subseteq Threads /\ Tasklets \subseteq Threads
      /\ Reporters \subseteq Threads /\ Workers \subseteq Threads
  BY DEF Threads
<1>1. ASSUME NEW t \in Threads, NEW l, pc' = [pc EXCEPT ![t] = l], l # "put", UNCHANGED wire
      PROVE  Good
  <2>1. pc'[t] = l /\ \A u \in Threads : u # t => pc'[u] = pc[u]  BY <1>1, Lists
  <2> QED  BY <1>1, <2>1 DEF Putting
<1>2. ASSUME UNCHANGED <<pc, wire>> PROVE Good
  BY <1>2 DEF Putting
<1>3. TrySendEntry \in {"free_queue", "enter"}  BY DEF TrySendEntry
<1>4. CASE \E t \in Senders, p \in Packets : htc_send_pkt(t, p)
  BY <1>0, <1>1, <1>3, <1>4 DEF htc_send_pkt, Goto, pipe
<1>5. CASE \E t \in Tasklets : ce_per_engine_service(t)
  BY <1>0, <1>1, <1>5 DEF ce_per_engine_service, PopCompletion, Goto
<1>6. CASE \E t \in Reporters : htc_process_credit_rpt(t)
  BY <1>0, <1>1, <1>2, <1>3, <1>6 DEF htc_process_credit_rpt, Goto, pipe
<1>7. CASE \/ \E t \in Workers : htc_flush_endpoint_tx(t)
           \/ TargetReceives \/ UNCHANGED vars
  BY <1>2, <1>7 DEF htc_flush_endpoint_tx, TargetReceives, vars, pipe
<1>8. ASSUME NEW t \in Threads, ThreadStep(t) PROVE Good
  <2>1. TrySendReturn(t) \in {"idle", "free"}  BY DEF TrySendReturn
  <2>2. CASE htc_kick_queues(t) \/ ReadFreeQueueNumber(t) \/ EnterTrySend(t)
    BY <1>1, <1>3, <2>1, <2>2 DEF htc_kick_queues, ReadFreeQueueNumber, EnterTrySend, Goto, pipe
  <2>3. CASE DrainLoop(t) \/ StopTaking(t) \/ ClearAfterFailure(t)
    BY <1>1, <2>1, <2>3 DEF DrainLoop, StopTaking, ClearAfterFailure, EndDrain, Goto, pipe
  <2>4. CASE \E i \in 1..Len(TxQueue) : TakePacket(t, i)
    BY <1>2, <2>4 DEF TakePacket, pipe
  <2>5. CASE IssueNext(t) \/ IssueEnd(t) \/ RereadFreeQueueNumber(t) \/ Relock(t)
    BY <1>1, <2>5 DEF IssueNext, IssueEnd, RereadFreeQueueNumber, Relock, Goto, pipe
  <2>6. CASE PutWhenIssued(t) \/ hif_send_complete_check(t) \/ IssueFailed(t)
    BY <1>1, <2>6 DEF PutWhenIssued, hif_send_complete_check, IssueFailed, Goto, pipe
  <2>7. CASE SpliceRead(t) \/ SpliceWrite(t)
    BY <1>1, <2>7 DEF SpliceRead, SpliceWrite, Goto, pipe
  <2>8. CASE ce_per_engine_servicereap(t) \/ hif_pci_ce_send_done(t)
    BY <1>1, <2>8 DEF ce_per_engine_servicereap, hif_pci_ce_send_done, PopCompletion, Goto, pipe
  <2>9. CASE LookupHead(t) \/ LookupSearch(t) \/ htc_tx_completion_handler(t)
    <3>1. PICK l : pc' = [pc EXCEPT ![t] = l] /\ l \notin {"take", "put"}
      BY <2>9, CompletionGoes
    <3>2. UNCHANGED wire
      BY <2>9 DEF LookupHead, LookupSearch, htc_tx_completion_handler, pipe
    <3> QED  BY <1>1, <3>1, <3>2
  <2> HIDE DEF Good
  <2> QED
    BY <1>8, <2>2, <2>3, <2>4, <2>5, <2>6, <2>7, <2>8, <2>9, Zenon DEF ThreadStep
<1>9. CASE Next  BY <1>4, <1>5, <1>6, <1>7, <1>8, <1>9 DEF Next
<1> QED  BY <1>7, <1>9

\* A step that leaves the packets held and the usage count alone.
LEMMA PmRests ==
  ASSUME PmKept, UNCHANGED <<conn, pmUsage, wire>>, Putting' => Putting, pmUsage \in Nat,
         \A q \in Packets : Held(q)' <=> Held(q)
  PROVE  PmKept'
<1>1. HoldPm' = HoldPm
  BY HoldPmAfter, HoldPmIs
<1>2. PutTwice' = PutTwice /\ (AmplePipe' <=> AmplePipe) /\ TagAutoPm' = TagAutoPm
  BY TagsKept DEF PutTwice, AmplePipe, CreditFlow, PipeSize
<1> QED  BY <1>1, <1>2, HoldPmFinite, PutTwiceFinite DEF PmKept

\* hif_send_head: a surplus put comes due with the message that it is for.
LEMMA PmHead ==
  ASSUME TxInv, PmKept, NEW t \in Threads, hif_send_head(t), UNCHANGED conn
  PROVE  PmKept'
<1> USE DEF TxInv
<1>0. /\ pmUsage \in Nat /\ UNCHANGED pmUsage /\ HoldPm' = HoldPm
      /\ (AmplePipe' <=> AmplePipe)
      /\ TagAutoPm' = TagAutoPm /\ TagRuntimePut' = TagRuntimePut
  <2>1. Aside(t)  BY DEF Aside
  <2>2. ~PutWhenIssued(t)  BY DEF PutWhenIssued, hif_send_head
  <2>3. \A q \in Packets : Held(q)' <=> Held(q)  BY <2>1, AsideSteps, HeldRests
  <2>4. HoldPm' = {p \in Packets \ TagAutoPm : Held(p)'}  BY HoldPmAfter
  <2> QED
    BY <2>1, <2>2, <2>3, <2>4, AsideSteps, HoldPmIs, TagsKept
       DEF TypeInv, CountTypes, AmplePipe, CreditFlow, PipeSize
<1>1. CASE num_sends_allowed < 1
  <2>1. UNCHANGED wire /\ (Putting' => Putting)
    <3>1. UNCHANGED wire /\ pc' = [pc EXCEPT ![t] = "fail"]
      BY <1>1 DEF hif_send_head, Goto
    <3>2. pc'[t] = "fail" /\ \A u \in Threads : u # t => pc'[u] = pc[u]  BY <3>1, Lists
    <3> QED  BY <3>1, <3>2 DEF Putting
  <2>2. PutTwice' = PutTwice  BY <1>0, <2>1 DEF PutTwice
  <2> QED  BY <1>0, <2>1, <2>2, HoldPmFinite, PutTwiceFinite DEF PmKept
<1>2. CASE ~(num_sends_allowed < 1)
  <2>0. PICK p : p = pPacket[t]  OBVIOUS
  <2>1. /\ pc[t] = "head" /\ wire' = Append(wire, p)
        /\ pc' = [pc EXCEPT ![t] = IF p \in TagRuntimePut THEN "put" ELSE "issue"]
    BY <1>2, <2>0 DEF hif_send_head, Goto
  <2>2. p \in Packets /\ p \notin ElementsOf(wire)
    BY <2>0, <2>1 DEF TypeInv, HandTypes, PlaceInv, HandOK, WireOK, Sending
  <2>3. ElementsOf(wire') = ElementsOf(wire) \cup {p}
    <3>1. wire \in Seq(Packets)  BY Lists
    <3> QED  BY <2>1, <2>2, <3>1, AppendLists
  <2>4. ~Putting
    <3>1. \A u \in Threads : u # t => pc[u] \notin DrainPcs
      BY <2>1, SenderIsAlone DEF DrainPcs, PlaceInv
    <3> QED  BY <2>1, <3>1 DEF Putting, DrainPcs
  <2>5. pc'[t] = (IF p \in TagRuntimePut THEN "put" ELSE "issue")
        /\ \A u \in Threads : u # t => pc'[u] = pc[u]
    BY <2>1, Lists
  <2>6. CASE p \in TagRuntimePut
    <3>1. PutTwice' = PutTwice \cup {p} /\ p \notin PutTwice
      BY <1>0, <2>2, <2>3, <2>6 DEF PutTwice
    <3>2. Cardinality(PutTwice') = Cardinality(PutTwice) + 1
      BY <3>1, PutTwiceFinite, FS_AddElement
    <3> QED  BY <1>0, <2>4, <3>2, HoldPmFinite, PutTwiceFinite DEF PmKept
  <2>7. CASE p \notin TagRuntimePut
    <3>1. PutTwice' = PutTwice  BY <1>0, <2>3, <2>7 DEF PutTwice
    <3>2. ~Putting'  BY <2>4, <2>5, <2>7 DEF Putting
    <3> QED  BY <1>0, <3>1, <3>2, HoldPmFinite, PutTwiceFinite DEF PmKept
  <2> QED  BY <2>6, <2>7
<1> QED  BY <1>1, <1>2

\* The surplus put: the reference it takes away is the one PmKept has in hand.
LEMMA PmSurplus ==
  ASSUME TxInv, PmKept, NEW t \in Threads, PutWhenIssued(t), UNCHANGED conn
  PROVE  PmKept'
<1> USE DEF TxInv
<1>1. /\ pmUsage \in Nat /\ HoldPm' = HoldPm /\ (AmplePipe' <=> AmplePipe)
      /\ PutTwice' = PutTwice /\ TagAutoPm' = TagAutoPm
  <2>1. Aside(t)  BY DEF Aside
  <2>2. \A q \in Packets : Held(q)' <=> Held(q)  BY <2>1, AsideSteps, HeldRests
  <2>3. HoldPm' = {p \in Packets \ TagAutoPm : Held(p)'}  BY HoldPmAfter
  <2>4. UNCHANGED wire  BY DEF PutWhenIssued, pipe
  <2> QED
    BY <2>2, <2>3, <2>4, HoldPmIs, TagsKept
       DEF TypeInv, CountTypes, AmplePipe, CreditFlow, PipeSize, PutTwice
<1>2. pmUsage' = IF pmUsage >= 1 THEN pmUsage - 1 ELSE 0
  BY DEF PutWhenIssued, PmPut
<1>3. pc[t] = "put" /\ pc' = [pc EXCEPT ![t] = "issue"]  BY DEF PutWhenIssued, Goto
<1>4. Putting  BY <1>3 DEF Putting
<1>5. ~Putting'
  <2>1. \A u \in Threads : u # t => pc[u] \notin DrainPcs
    BY <1>3, SenderIsAlone DEF DrainPcs, PlaceInv
  <2>2. pc'[t] = "issue" /\ \A u \in Threads : u # t => pc'[u] = pc[u]  BY <1>3, Lists
  <2> QED  BY <2>1, <2>2 DEF Putting, DrainPcs
<1> QED  BY <1>1, <1>2, <1>4, <1>5, HoldPmFinite, PutTwiceFinite DEF PmKept

\* A list of different packets has as many members as places.
LEMMA UniqCount ==
  ASSUME NEW s \in Seq(Packets), Uniq(s)
  PROVE  Cardinality(ElementsOf(s)) = Len(s)
<1>1. Len(s) \in Nat /\ s \in [1..Len(s) -> Packets]  OBVIOUS
<1>2. \A i, j \in 1..Len(s) : s[i] = s[j] => i = j  BY DEF Uniq
<1>3. s \in Bijection(1..Len(s), ElementsOf(s))
  BY <1>1, <1>2 DEF Bijection, Injection, IsInjective, Surjection, ElementsOf
<1>4. IsFiniteSet(1..Len(s)) /\ Cardinality(1..Len(s)) = Len(s)
  BY <1>1, FS_Interval
<1>5. ExistsBijection(1..Len(s), ElementsOf(s))  BY <1>3 DEF ExistsBijection
<1> QED  BY <1>4, <1>5, FS_Bijection

\* Packets and references go together, one by one.
LEMMA PmStep ==
  ASSUME TxInv, PassOK, PmKept, [Next]_vars
  PROVE  PmKept'
<1> USE DEF TxInv
<1>0. /\ UNCHANGED conn /\ pmUsage \in Nat /\ (AmplePipe' <=> AmplePipe)
      /\ HoldPm = {p \in Packets \ TagAutoPm : Held(p)}
      /\ HoldPm' = {p \in Packets \ TagAutoPm : Held(p)'}
      /\ IsFiniteSet(HoldPm) /\ Cardinality(HoldPm) \in Nat
      /\ Cardinality(PutTwice) \in Nat
      /\ TagAutoPm' = TagAutoPm /\ TagRuntimePut' = TagRuntimePut
  <2>1. UNCHANGED conn  BY ConnStep
  <2>2. HoldPm' = {p \in Packets \ TagAutoPm : Held(p)'}  BY <2>1, HoldPmAfter
  <2> QED
    BY <2>1, <2>2, HoldPmIs, HoldPmFinite, PutTwiceFinite, TagsKept
       DEF TypeInv, CountTypes, AmplePipe, CreditFlow, PipeSize
<1>a. CASE \E t \in Threads : hif_send_head(t)
  BY <1>0, <1>a, PmHead
<1>b. CASE \E t \in Threads : PutWhenIssued(t)
  BY <1>0, <1>b, PmSurplus
<1>c. CASE ~(\E t \in Threads : hif_send_head(t)) /\ ~(\E t \in Threads : PutWhenIssued(t))
  <2>0. UNCHANGED wire /\ (Putting' => Putting) /\ PutTwice' = PutTwice
    <3>1. UNCHANGED wire /\ (Putting' => Putting)  BY <1>c, NoNewPut
    <3> QED  BY <1>0, <3>1 DEF PutTwice
  <2>1. ASSUME NEW t \in Threads, Aside(t) PROVE PmKept'
    <3>1. \A q \in Packets : Held(q)' <=> Held(q)  BY <2>1, AsideSteps, HeldRests
    <3>2. UNCHANGED pmUsage  BY <1>c, <2>1, AsideSteps
    <3> QED  BY <1>0, <2>0, <3>1, <3>2, PmRests
  <2>2. ASSUME NEW t \in Threads,
               \/ IssueNext(t) \/ IssueFailed(t) \/ SpliceWrite(t) \/ LookupHead(t) \/ LookupSearch(t)
        PROVE PmKept'
    <3>1. \A q \in Packets : Held(q)' <=> Held(q)
      BY <2>2, IssueHolds, SpliceHolds, LookupHolds
    <3>2. UNCHANGED pmUsage
      BY <2>2 DEF IssueNext, IssueFailed, SpliceWrite, LookupHead, LookupSearch, packet
    <3> QED  BY <1>0, <2>0, <3>1, <3>2, PmRests
  <2>3. ASSUME \/ \E t \in Threads : htc_flush_endpoint_tx(t)
               \/ TargetReceives \/ UNCHANGED vars
        PROVE  PmKept'
    <3>1. UNCHANGED <<TxLookupQueue, sendQueue, lookupQueue, netbuf, pc, pmUsage>>
      BY <2>3 DEF htc_flush_endpoint_tx, TargetReceives, vars, endpoint, locals, packet
    <3>2. \A q \in Packets : Held(q)' <=> Held(q)
      BY <3>1 DEF Held, OnLookup, Carried, Ending
    <3> QED  BY <1>0, <2>0, <3>1, <3>2, PmRests
  <2>4. ASSUME NEW t \in Threads, NEW i \in 1..Len(TxQueue), TakePacket(t, i) PROVE PmKept'
    <3>0. PICK p : p = TxQueue[i]  OBVIOUS
    <3>1. p \in Packets /\ ~Held(p) /\ \A q \in Packets : Held(q)' <=> Held(q) \/ q = p
      BY <2>4, <3>0, TakeHolds
    <3>2. /\ pc[t] = "take" /\ pmUsage' = (IF pmPass[t] THEN pmUsage ELSE pmUsage + 1)
          /\ IsNext(t, i)
      BY <2>4 DEF TakePacket, CanTake
    <3>3. CASE pmPass[t]
      <4>1. p \in TagAutoPm  BY <3>0, <3>2, <3>3 DEF IsNext
      <4>2. HoldPm' = HoldPm /\ pmUsage' = pmUsage  BY <1>0, <3>1, <3>2, <3>3, <4>1
      <4>3. Cardinality(HoldPm') = Cardinality(HoldPm)  BY <4>2
      <4> QED  BY <1>0, <2>0, <4>2, <4>3 DEF PmKept
    <3>4. CASE ~pmPass[t]
      <4>1. p \notin TagAutoPm  BY <3>0, <3>2, <3>4 DEF PassOK, ElementsOf
      <4>2. HoldPm' = HoldPm \cup {p} /\ p \notin HoldPm /\ pmUsage' = pmUsage + 1
        BY <1>0, <3>1, <3>2, <3>4, <4>1
      <4>3. Cardinality(HoldPm') = Cardinality(HoldPm) + 1
        BY <1>0, <4>2, FS_AddElement
      <4> QED  BY <1>0, <2>0, <4>2, <4>3 DEF PmKept
    <3> QED  BY <3>3, <3>4
  <2>5. ASSUME NEW t \in Threads, SpliceRead(t) PROVE PmKept'
    <3>0. PICK S : S = ElementsOf(sendQueue[t])  OBVIOUS
    <3>1. (\A q \in S : Held(q)) /\ \A q \in Packets : Held(q)' <=> Held(q) /\ q \notin S
      BY <2>5, <3>0, SpliceHolds
    <3>2. HoldPm' = HoldPm \ S  BY <1>0, <3>1
    <3>3. PICK n : n = Len(sendQueue[t])  OBVIOUS
    <3>4. /\ n \in Nat /\ IsFiniteSet(S) /\ Cardinality(S) = n /\ S \subseteq Packets
      <4>1. sendQueue[t] \in Seq(Packets) /\ Uniq(sendQueue[t])  BY Lists DEF PlaceInv, ListsOK
      <4>2. S \subseteq Packets  BY <3>0, <4>1 DEF ElementsOf
      <4> QED  BY <3>0, <3>3, <4>1, <4>2, ElementsCount, UniqCount
    <3>5. Cardinality(HoldPm') = Cardinality(HoldPm) - Cardinality(HoldPm \cap S)
      BY <1>0, <3>2, FS_Difference
    <3>6. /\ Cardinality(HoldPm \cap S) <= n /\ Cardinality(HoldPm \cap S) \in Nat
          /\ TagAutoPm = {} => Cardinality(HoldPm \cap S) = n
      <4>1. Cardinality(HoldPm \cap S) <= Cardinality(S) /\ IsFiniteSet(HoldPm \cap S)
        BY <3>4, FS_Subset
      <4>2. TagAutoPm = {} => HoldPm \cap S = S  BY <1>0, <3>1, <3>4
      <4> QED  BY <3>4, <4>1, <4>2, FS_CardinalityType
    <3>7. pmUsage' = IF pmUsage >= n THEN pmUsage - n ELSE 0
      BY <2>5, <3>3 DEF SpliceRead, PmPut, PutsAfterFailure
    <3>8. Cardinality(HoldPm') \in Nat
      BY <1>0, <3>2, FS_Difference, FS_CardinalityType
    <3>9. ~AmplePipe  BY <2>5 DEF SpliceRead, HeadOK, FailPcs
    <3>10. ~Putting'
      <4>1. pc[t] = "splice" /\ pc' = [pc EXCEPT ![t] = "spliced"]
        BY <2>5 DEF SpliceRead, Goto
      <4>2. \A u \in Threads : u # t => pc[u] \notin DrainPcs
        BY <4>1, SenderIsAlone DEF DrainPcs, PlaceInv
      <4>3. pc'[t] = "spliced" /\ \A u \in Threads : u # t => pc'[u] = pc[u]  BY <4>1, Lists
      <4> QED  BY <4>2, <4>3 DEF Putting, DrainPcs
    <3>11. pmUsage <= Cardinality(HoldPm)  BY DEF PmKept
    <3>12. pmUsage' <= Cardinality(HoldPm')
      BY <1>0, <3>4, <3>5, <3>6, <3>7, <3>8, <3>11
    <3>13. ASSUME TagAutoPm = {}
           PROVE  Cardinality(HoldPm') <= pmUsage' + Cardinality(PutTwice')
      <4>1. Cardinality(HoldPm) <= pmUsage + Cardinality(PutTwice)
        BY <1>0, <3>13 DEF PmKept
      <4> QED  BY <1>0, <2>0, <3>4, <3>5, <3>6, <3>7, <3>11, <3>13, <4>1
    <3> QED  BY <1>0, <3>8, <3>9, <3>10, <3>12, <3>13 DEF PmKept
  <2>6. ASSUME NEW t \in Threads, htc_tx_completion_handler(t) PROVE PmKept'
    <3>0. PICK p : p = netbuf[t]  OBVIOUS
    <3>1. p \in Packets /\ Held(p) /\ \A q \in Packets : Held(q)' <=> Held(q) /\ q # p
      BY <2>6, <3>0, HandlerHolds
    <3>2. CASE p \in TagAutoPm
      <4>1. pmUsage' = pmUsage
        BY <2>6, <3>0, <3>2 DEF htc_tx_completion_handler, HoldsReference
      <4>2. HoldPm' = HoldPm  BY <1>0, <3>1, <3>2
      <4> QED  BY <1>0, <2>0, <4>1, <4>2 DEF PmKept
    <3>3. CASE p \notin TagAutoPm
      <4>1. pmUsage' = IF pmUsage >= 1 THEN pmUsage - 1 ELSE 0
        BY <2>6, <3>0, <3>3 DEF htc_tx_completion_handler, HoldsReference, PmPut
      <4>2. HoldPm' = HoldPm \ {p} /\ p \in HoldPm  BY <1>0, <3>1, <3>3
      <4>3. Cardinality(HoldPm') = Cardinality(HoldPm) - 1 /\ Cardinality(HoldPm') \in Nat
        BY <1>0, <4>2, FS_RemoveElement, FS_CardinalityType, ZenonT(30)
      <4> QED  BY <1>0, <2>0, <4>1, <4>3 DEF PmKept
    <3> QED  BY <3>2, <3>3
  <2>7. ASSUME NEW t \in Threads, ThreadStep(t) PROVE PmKept'
    BY <2>1, <2>2, <2>4, <2>5, <2>6, <2>7, Zenon DEF ThreadStep, Aside
  <2>8. /\ Senders \subseteq Threads /\ Tasklets \subseteq Threads
        /\ Reporters \subseteq Threads /\ Workers \subseteq Threads
    BY DEF Threads
  <2> QED  BY <2>1, <2>3, <2>7, <2>8, Zenon DEF Next, Aside
<1> QED  BY <1>a, <1>b, <1>c

\* The runtime-PM usage count never exceeds the ordinary packets on their way, and
\* falls short of them by at most the surplus puts of the HTT messages that went
\* out, for any number of packets and threads, where no batch of AUTO_PM packets
\* is refused.  Without such messages the bus may suspend exactly when no packet
\* is on its way.
THEOREM ReferencesBalanced == Spec => []PmBalanced
<1>1. Init => PassOK /\ PmKept
  <2> SUFFICES ASSUME Init PROVE PassOK /\ PmKept
    OBVIOUS
  <2>1. /\ TxLookupQueue = <<>> /\ pmUsage = 0 /\ wire = <<>>
        /\ \A t \in Threads : sendQueue[t] = <<>> /\ lookupQueue[t] = <<>> /\ pc[t] = "idle"
    BY DEF Init
  <2>2. PassOK  BY <2>1 DEF PassOK
  <2>3. \A p \in Packets : ~Held(p)
    BY <2>1 DEF Held, OnLookup, Carried, Ending, ElementsOf
  <2>4. HoldPm = {}  BY <2>3, HoldPmIs
  <2>5. Cardinality(HoldPm) = 0  BY <2>4, FS_EmptySet
  <2>6. PutTwice = {} /\ ~Putting  BY <2>1 DEF PutTwice, ElementsOf, Putting
  <2>7. Cardinality(PutTwice) = 0  BY <2>6, FS_EmptySet
  <2> QED  BY <2>1, <2>2, <2>5, <2>6, <2>7 DEF PmKept
<1>2. TxInv /\ PassOK /\ PmKept /\ [Next]_vars => PassOK' /\ PmKept'
  BY PassStep, PmStep DEF TxInv
<1>3. TxInv /\ PmKept => PmBalanced
  <2> SUFFICES ASSUME TxInv, PmKept PROVE PmBalanced
    OBVIOUS
  <2>1. pmUsage \in Nat  BY DEF TxInv, TypeInv, CountTypes
  <2> QED  BY <2>1, HoldPmFinite, PutTwiceFinite DEF PmKept, PmBalanced
<1> QED  BY <1>1, <1>2, <1>3, InitTx, TxStep, PTL DEF Spec

=============================================================================
