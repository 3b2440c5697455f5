----------------------------- MODULE HttRxRing -----------------------------
(***************************************************************************)
(* The ring through which HTT gives empty receive buffers to a target that *)
(* does the reordering itself (core/dp/htt/htt_rx.c, full reorder offload, *)
(* low latency), with its user, the indication handler of                  *)
(* core/dp/txrx/ol_rx.c.                                                   *)
(*                                                                         *)
(* The host writes the addresses of empty buffers into paddrs_ring, up to  *)
(* alloc_idx, and enters each buffer in a hash table under its address.    *)
(* The target takes addresses off the ring, from target_idx, and reports   *)
(* filled buffers in any order.  The handler looks the reported buffers up *)
(* and then tops the ring up to FillLevel.  A refill that finds no memory  *)
(* starts a timer, which tries again.                                      *)
(*                                                                         *)
(* Two contexts refill: the copy engine's tasklet ("rx") and the timer.    *)
(* Both are softirqs, which do not preempt each other; with more than one  *)
(* CPU (smp) they run side by side, and fill_cnt++ and fill_cnt-- are then *)
(* a read and a write with steps of the other context in between.  A       *)
(* buffer and its address are the same value here.  The hash table is not  *)
(* thread-safe; a step of it is one step here, so what two CPUs may do to  *)
(* its lists is left out.  HTT_ASSERT_ALWAYS is BUG_ON: the host stops.    *)
(* Operators named Mutant... are plausible bugs of the definition that     *)
(* follows them.                                                           *)
(***************************************************************************)
EXTENDS Integers, FiniteSets, Sequences

CONSTANTS
    Size,          \* rx_ring.size, elements of the ring
    FillLevel,     \* rx_ring.fill_level, buffers to keep with the target
    NBufs,         \* network buffers there is memory for
    MaxInds,       \* bound on indications under way
    MaxDrift,      \* bound on how far lost updates take fill_cnt off
    CpuChoices     \* the values smp may start with

ASSUME RingAssumption ==
    /\ Size \in Nat \ {0}
    /\ FillLevel \in 1..(Size - 1)
    /\ NBufs \in Nat \ 0..(FillLevel - 1)
    /\ MaxInds \in Nat
    /\ MaxDrift \in Nat
    /\ CpuChoices \subseteq BOOLEAN

VARIABLES
    smp,             \* more than one CPU
    stage,           \* "up", then "cancelled", "synced", "down" in htt_rx_detach,
                     \* or "bug" when an assertion has stopped the host
    paddrs_ring,     \* the ring
    alloc_idx,       \* where the host has deposited buffers up to
    target_idx,      \* where the target takes buffers from
    hash,            \* buffers in the hash table
    fill_cnt,        \* the host's count of buffers with the target
    refill_ref_cnt,  \* 1 when nobody refills
    armed,           \* refill_retry_timer is pending
    target,          \* buffers the target has taken off the ring
    inds,            \* indications under way to the host
    msg,             \* the indication the tasklet works on
    pc,              \* where each context is
    num, idx,        \* local variables of htt_rx_ring_fill_n
    reg,             \* the value of fill_cnt a context has read
    unretried        \* history: a refill was left undone with no timer started

ring == <<paddrs_ring, alloc_idx, target_idx, hash>>
locals == <<num, idx, reg>>
fw == <<target, inds>>
vars == <<smp, stage, ring, fill_cnt, refill_ref_cnt, armed, fw, msg, pc,
          locals, unretried>>

Contexts == {"rx", "timer"}
Bufs == 1..NBufs
NoBuf == 0
Kinds == {"msdus", "offload", "mic_errors"}
Inds == [bufs : SUBSET Bufs \ {{}}, kind : Kinds]
Idle == [bufs |-> {}, kind |-> "msdus"]

\* On a single CPU a softirq runs to its end.
Runs(c) ==
    /\ stage # "bug"
    /\ smp \/ \A d \in Contexts \ {c} : pc[d] = "idle"

\* The bound on lost updates; with one CPU nothing is lost.
Drift(cnt, given) == smp => cnt - given \in (-MaxDrift)..MaxDrift

Goto(c, l) == pc' = [pc EXCEPT ![c] = l]

-----------------------------------------------------------------------------
(* The target and the copy engine below HTT *)

\* The target takes the next address; nobody reads a slot again before it is
\* written, so the model forgets what it held.
FwFetch ==
    /\ stage = "up"
    /\ target_idx # alloc_idx
    /\ target' = target \cup {paddrs_ring[target_idx]}
    /\ paddrs_ring' = [paddrs_ring EXCEPT ![target_idx] = NoBuf]
    /\ target_idx' = (target_idx + 1) % Size
    /\ UNCHANGED <<smp, stage, alloc_idx, hash, fill_cnt, refill_ref_cnt, armed,
                   inds, msg, pc, locals, unretried>>

\* A message names buffers with MSDUs, with MSDUs delivered past the reorder
\* offload, or with MSDUs that all failed their MIC check.
FwIndicate ==
    /\ stage = "up"
    /\ Len(inds) < MaxInds
    /\ \E bs \in SUBSET target \ {{}}, k \in Kinds :
          /\ inds' = Append(inds, [bufs |-> bs, kind |-> k])
          /\ target' = target \ bs
    /\ UNCHANGED <<smp, stage, ring, fill_cnt, refill_ref_cnt, armed, msg, pc,
                   locals, unretried>>

-----------------------------------------------------------------------------
(* ol_rx_in_order_indication_handler, in the tasklet *)

RxIndication ==
    /\ stage = "up"
    /\ pc["rx"] = "idle" /\ Runs("rx")
    /\ inds # <<>>
    /\ msg' = Head(inds)
    /\ inds' = Tail(inds)
    /\ Goto("rx", "pop")
    /\ UNCHANGED <<smp, stage, ring, fill_cnt, refill_ref_cnt, armed, target,
                   locals, unretried>>

\* htt_rx_in_order_netbuf_pop reads fill_cnt ...
PopRead ==
    /\ pc["rx"] = "pop" /\ Runs("rx")
    /\ reg' = [reg EXCEPT !["rx"] = fill_cnt]
    /\ Goto("rx", "pop_write")
    /\ UNCHANGED <<smp, stage, ring, fill_cnt, refill_ref_cnt, armed, fw, msg,
                   num, idx, unretried>>

\* ... writes it back less one and takes the buffer out of the hash table, where
\* HTT_ASSERT_ALWAYS says it must be.  The handler returns without a refill when
\* no MSDU of the message is left to deliver.
PopWrite ==
    /\ pc["rx"] = "pop_write" /\ Runs("rx")
    /\ fill_cnt' = reg["rx"] - 1
    /\ reg' = [reg EXCEPT !["rx"] = 0]
    /\ \E b \in msg.bufs :
          LET rest == msg.bufs \ {b}
              leave == msg.kind = "mic_errors" /\ rest = {}
          IN  /\ stage' = IF b \in hash THEN stage ELSE "bug"
              /\ hash' = hash \ {b}
              /\ Drift(fill_cnt', Cardinality(hash'))
              /\ msg' = IF leave \/ rest = {} THEN Idle
                        ELSE [msg EXCEPT !.bufs = rest]
              /\ Goto("rx", CASE leave -> "idle"
                              [] ~leave /\ rest = {} -> "dec"
                              [] OTHER -> "pop")
              /\ unretried' = (unretried \/ leave)
    /\ UNCHANGED <<smp, paddrs_ring, alloc_idx, target_idx, refill_ref_cnt, armed,
                   fw, num, idx>>

-----------------------------------------------------------------------------
(* htt_rx_msdu_buff_replenish, in the tasklet and in the timer's function *)

TimerFires ==
    /\ armed
    /\ pc["timer"] = "idle" /\ Runs("timer")
    /\ armed' = FALSE
    /\ Goto("timer", "dec")
    /\ UNCHANGED <<smp, stage, ring, fill_cnt, refill_ref_cnt, fw, msg, locals,
                   unretried>>

\* atomic_dec_and_test: the first one in refills.
MutantMayRefill == refill_ref_cnt >= 0
MayRefill == refill_ref_cnt = 1

Replenish(c) ==
    /\ pc[c] = "dec" /\ Runs(c)
    /\ refill_ref_cnt' = refill_ref_cnt - 1
    /\ Goto(c, IF MayRefill THEN "count" ELSE "inc")
    /\ UNCHANGED <<smp, stage, ring, fill_cnt, armed, fw, msg, locals, unretried>>

\* htt_rx_fill_ring_count, and the first read of htt_rx_ring_fill_n.
FillRingCount(c) ==
    /\ pc[c] = "count" /\ Runs(c)
    /\ num' = [num EXCEPT ![c] = FillLevel - fill_cnt]
    /\ idx' = [idx EXCEPT ![c] = alloc_idx]
    /\ Goto(c, "fill")
    /\ UNCHANGED <<smp, stage, ring, fill_cnt, refill_ref_cnt, armed, fw, msg,
                   reg, unretried>>

\* Free buffers are interchangeable: the allocator hands out the first.
FreeBuf == CHOOSE b \in Bufs \ hash : \A b1 \in Bufs \ hash : b <= b1

\* One round of htt_rx_ring_fill_n: a buffer is allocated, mapped, entered in
\* the hash table and in the ring; fill_cnt is read ...
FillOne(c) ==
    /\ pc[c] = "fill" /\ Runs(c)
    /\ num[c] > 0
    /\ Bufs \ hash # {}
    /\ hash' = hash \cup {FreeBuf}
    /\ paddrs_ring' = [paddrs_ring EXCEPT ![idx[c]] = FreeBuf]
    /\ reg' = [reg EXCEPT ![c] = fill_cnt]
    /\ Goto(c, "fill_write")
    /\ UNCHANGED <<smp, stage, alloc_idx, target_idx, fill_cnt, refill_ref_cnt,
                   armed, fw, msg, num, idx, unretried>>

MutantCounted(c) == reg[c]
Counted(c) == reg[c] + 1

\* ... and written back.
FillWrite(c) ==
    /\ pc[c] = "fill_write" /\ Runs(c)
    /\ fill_cnt' = Counted(c)
    /\ Drift(fill_cnt', Cardinality(hash))
    /\ num' = [num EXCEPT ![c] = @ - 1]
    /\ idx' = [idx EXCEPT ![c] = (@ + 1) % Size]
    /\ reg' = [reg EXCEPT ![c] = 0]
    /\ Goto(c, "fill")
    /\ UNCHANGED <<smp, stage, ring, refill_ref_cnt, armed, fw, msg, unretried>>

\* No memory: the timer is cancelled and started again.
MutantAllocFails(c) ==
    /\ pc[c] = "fill" /\ Runs(c)
    /\ num[c] > 0
    /\ Goto(c, "publish")
    /\ UNCHANGED <<smp, stage, ring, fill_cnt, refill_ref_cnt, armed, fw, msg,
                   locals, unretried>>
AllocFails(c) ==
    /\ pc[c] = "fill" /\ Runs(c)
    /\ num[c] > 0
    /\ armed' = TRUE
    /\ Goto(c, "publish")
    /\ UNCHANGED <<smp, stage, ring, fill_cnt, refill_ref_cnt, fw, msg, locals,
                   unretried>>

\* The buffer cannot be mapped: it is freed and the refill ends, with no timer.
MapFails(c) ==
    /\ pc[c] = "fill" /\ Runs(c)
    /\ num[c] > 0
    /\ Goto(c, "publish")
    /\ unretried' = TRUE
    /\ UNCHANGED <<smp, stage, ring, fill_cnt, refill_ref_cnt, armed, fw, msg,
                   locals>>

\* HTT_ASSERT_ALWAYS(0) in htt_rx_hash_list_insert: no memory for an entry.
InsertFails(c) ==
    /\ pc[c] = "fill" /\ Runs(c)
    /\ num[c] > 0
    /\ Bufs \ hash # {}
    /\ stage' = "bug"
    /\ UNCHANGED <<smp, ring, fill_cnt, refill_ref_cnt, armed, fw, msg, pc, locals,
                   unretried>>

FillEnds(c) ==
    /\ pc[c] = "fill" /\ Runs(c)
    /\ num[c] <= 0
    /\ Goto(c, "publish")
    /\ UNCHANGED <<smp, stage, ring, fill_cnt, refill_ref_cnt, armed, fw, msg,
                   locals, unretried>>

\* The new buffers become visible to the target; the local variables go.
Publish(c) ==
    /\ pc[c] = "publish" /\ Runs(c)
    /\ alloc_idx' = idx[c]
    /\ num' = [num EXCEPT ![c] = 0]
    /\ idx' = [idx EXCEPT ![c] = 0]
    /\ Goto(c, "inc")
    /\ UNCHANGED <<smp, stage, paddrs_ring, target_idx, hash, fill_cnt,
                   refill_ref_cnt, armed, fw, msg, reg, unretried>>

ReplenishEnds(c) ==
    /\ pc[c] = "inc" /\ Runs(c)
    /\ refill_ref_cnt' = refill_ref_cnt + 1
    /\ Goto(c, "idle")
    /\ UNCHANGED <<smp, stage, ring, fill_cnt, armed, fw, msg, locals, unretried>>

Refill(c) ==
    \/ Replenish(c) \/ FillRingCount(c) \/ FillOne(c) \/ FillWrite(c)
    \/ AllocFails(c) \/ MapFails(c) \/ InsertFails(c) \/ FillEnds(c)
    \/ Publish(c) \/ ReplenishEnds(c)

-----------------------------------------------------------------------------
(* htt_rx_detach; the bus is stopped before it is called *)

DetachCancel ==
    /\ stage = "up"
    /\ pc["rx"] = "idle"
    /\ stage' = "cancelled"
    /\ armed' = FALSE
    /\ UNCHANGED <<smp, ring, fill_cnt, refill_ref_cnt, fw, msg, pc, locals,
                   unretried>>

\* cdf_softirq_timer_free waits for a running timer function and takes the
\* timer off again if that has started it.
MutantTimerIsOff == TRUE
TimerIsOff == pc["timer"] = "idle"

DetachSync ==
    /\ stage = "cancelled"
    /\ TimerIsOff
    /\ stage' = "synced"
    /\ armed' = FALSE
    /\ UNCHANGED <<smp, ring, fill_cnt, refill_ref_cnt, fw, msg, pc, locals,
                   unretried>>

\* htt_rx_hash_deinit frees the buffers of the hash table; the ring goes too.
DetachFree ==
    /\ stage = "synced"
    /\ stage' = "down"
    /\ hash' = {}
    /\ UNCHANGED <<smp, paddrs_ring, alloc_idx, target_idx, fill_cnt,
                   refill_ref_cnt, armed, fw, msg, pc, locals, unretried>>

-----------------------------------------------------------------------------
\* htt_rx_attach has filled the ring as far as it went, before the bus delivers
\* anything.
Init ==
    /\ smp \in CpuChoices
    /\ stage = "up"
    /\ \E n \in 0..FillLevel, outOfMemory \in BOOLEAN :
          /\ paddrs_ring = [i \in 0..(Size - 1) |-> IF i < n THEN i + 1 ELSE NoBuf]
          /\ alloc_idx = n
          /\ hash = 1..n
          /\ fill_cnt = n
          /\ armed = (n < FillLevel /\ outOfMemory)
          /\ unretried = (n < FillLevel /\ ~outOfMemory)
    /\ target_idx = 0
    /\ refill_ref_cnt = 1
    /\ target = {} /\ inds = <<>> /\ msg = Idle
    /\ pc = [c \in Contexts |-> "idle"]
    /\ num = [c \in Contexts |-> 0]
    /\ idx = [c \in Contexts |-> 0]
    /\ reg = [c \in Contexts |-> 0]

Next ==
    \/ FwFetch \/ FwIndicate
    \/ RxIndication \/ PopRead \/ PopWrite
    \/ TimerFires
    \/ \E c \in Contexts : Refill(c)
    \/ DetachCancel \/ DetachSync \/ DetachFree

Spec == Init /\ [][Next]_vars

\* Each context goes on, the timer fires, and memory comes back: a refill that
\* is tried again and again gets a buffer.
Fairness ==
    /\ WF_vars(RxIndication) /\ WF_vars(PopRead \/ PopWrite) /\ WF_vars(TimerFires)
    /\ \A c \in Contexts : WF_vars(Refill(c)) /\ SF_vars(FillOne(c))

FairSpec == Spec /\ Fairness

-----------------------------------------------------------------------------
(* Properties *)

\* The slots from one index up to another, round the ring.
Slots(from, to) == {(from + k) % Size : k \in 0..(((to - from) % Size) - 1)}

Filling(c) == pc[c] \in {"fill", "fill_write", "publish"}

\* Slots whose buffers the target has still to take: up to alloc_idx, or to
\* where a refill under way has got.
Unread ==
    LET end == IF \E c \in Contexts : Filling(c)
               THEN idx[CHOOSE c \in Contexts : Filling(c)] ELSE alloc_idx
        new == IF \E c \in Contexts : pc[c] = "fill_write" THEN {end} ELSE {}
    IN  Slots(target_idx, end) \cup new

InFlight == (UNION {inds[i].bufs : i \in DOMAIN inds}) \cup msg.bufs

\* Every variable has its type.
TypeOK ==
    /\ smp \in BOOLEAN /\ armed \in BOOLEAN /\ unretried \in BOOLEAN
    /\ stage \in {"up", "cancelled", "synced", "down", "bug"}
    /\ paddrs_ring \in [0..(Size - 1) -> Bufs \cup {NoBuf}]
    /\ alloc_idx \in 0..(Size - 1) /\ target_idx \in 0..(Size - 1)
    /\ hash \subseteq Bufs /\ target \subseteq Bufs
    /\ fill_cnt \in Int /\ refill_ref_cnt \in -1..1
    /\ inds \in Seq(Inds)
    /\ msg \in Inds \cup {Idle}
    /\ pc \in [Contexts -> {"idle", "pop", "pop_write", "dec", "count", "fill",
                           "fill_write", "publish", "inc"}]
    /\ num \in [Contexts -> Int] /\ reg \in [Contexts -> Int]
    /\ idx \in [Contexts -> 0..(Size - 1)]

\* refill_ref_cnt keeps the two contexts from refilling together, also on two
\* CPUs: only one of them runs htt_rx_ring_fill_n.
SingleRefiller ==
    \A c, d \in Contexts :
        (pc[c] = "count" \/ Filling(c)) /\ (pc[d] = "count" \/ Filling(d)) => c = d

\* fill_cnt is the number of buffers the target has been given and has not
\* returned, whenever no context is between reading and writing it.
CountExact ==
    (stage # "down" /\ \A c \in Contexts : pc[c] # "fill_write")
        => fill_cnt = Cardinality(hash)

\* With one CPU: the count is exact, so a refill never laps the target, and
\* each buffer of the hash table is in exactly one place - a slot of the ring
\* the target has still to read, the target, or an indication under way.
BuffersAccounted ==
    (~smp /\ stage # "down") =>
        /\ CountExact
        /\ {paddrs_ring[i] : i \in Unread} \cup target \cup InFlight = hash
        /\ Cardinality(Unread) + Cardinality(target) + Cardinality(InFlight)
              = Cardinality(hash)
        /\ Cardinality(hash) <= FillLevel

\* Once htt_rx_detach has freed the ring and the hash table nobody refills,
\* and no timer is left that would.
QuietAfterDetach ==
    stage = "down" => ~armed /\ hash = {} /\ \A c \in Contexts : pc[c] = "idle"

\* With one CPU a target that has run out of buffers gets one again, unless a
\* refill ended at a buffer that could not be mapped or a message was given up.
HungryIsFed ==
    (~smp /\ hash = {}) ~> (hash # {} \/ unretried \/ stage # "up")

=============================================================================
