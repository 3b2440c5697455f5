------------------------------ MODULE CdsSched ------------------------------
(***************************************************************************)
(* The CDS scheduler: the main controller thread ("mc") that serves the    *)
(* message queues of SYS, WMA, PE and SME, and the receive thread ("rx")   *)
(* that serves the queue of data packets, with the three procedures that   *)
(* stop and start them:                                                    *)
(*                                                                         *)
(*   - cfg80211 suspend and resume (wlan_hdd_power.c), a handshake of an   *)
(*     event bit and two completions with each thread, with timeouts;      *)
(*   - subsystem restart (wlan_hdd_shutdown) and unload (wlan_hdd_remove), *)
(*     which raise a flag, wait for calls that are inside the driver, and  *)
(*     terminate the threads.                                              *)
(*                                                                         *)
(* Both threads have the same shape, and the operators below take the      *)
(* thread w as a parameter; where they differ the definition says so.      *)
(* A completion is the number of complete() calls not yet consumed.        *)
(* An operator called Mutant... is a plausible bug of the definition that  *)
(* follows it.                                                             *)
(***************************************************************************)
EXTENDS Integers, Sequences, FiniteSets, SequencesExt

CONSTANTS
    McQueues,    \* the queues of the mc thread, in the order it looks at them
    Posters,     \* threads that post messages or data packets
    Stations,    \* stations that data packets come from
    PoolSize,    \* CDS_CORE_MAX_MESSAGES, CDS_MAX_OL_RX_PKT, by thread
    MaxPosts,    \* bound: messages and packets posted
    MaxSuspends, \* bound: suspend calls
    Impatient    \* may the wait for external threads give up (40 s)?

Workers == {"mc", "rx"}

ASSUME QueueAssumption == McQueues \in Seq(STRING \ {"rx"})
ASSUME PoolAssumption == PoolSize \in [Workers -> Nat]
ASSUME BoundAssumption ==
    /\ MaxPosts \in Nat
    /\ MaxSuspends \in Nat
    /\ Impatient \in BOOLEAN

VARIABLES
    flags,      \* mcEventFlag and ol_rx_event_flag: sets of event bits
    pc,         \* where each thread is
    look,       \* the queue the thread looks at next
    queue,      \* the queues
    free,       \* freeVosMq, cds_ol_rx_pkt_freeq: number of free elements
    confirmed,  \* mc_sus_event_var, ol_suspend_rx_event
    resumed,    \* ResumeMcEvent, ol_resume_rx_event
    suspended,  \* the threads with isMcThreadSuspended, is_ol_rx_thread_suspended
    ppc, ptq,   \* the posters, and the queue each one posts to
    dropping,   \* packets on the local list of cds_drop_rxpkt_by_staid
    hdd,        \* the cfg80211 suspend or resume call
    asleep,     \* a suspend call has succeeded and resume was not called yet
    late,       \* history: a suspend call gave up waiting for a thread
    protect,    \* ssr_protect_entry_count
    closer,     \* restart or unload
    kind,       \* which of them
    posts, suspends   \* counters for the bounds

threads == <<flags, pc, look>>
data == <<queue, free, ppc, ptq, dropping, posts>>
handshake == <<confirmed, resumed, suspended>>
calls == <<hdd, asleep, late, protect, suspends>>
closing == <<closer, kind>>
vars == <<threads, data, handshake, calls, closing>>

Queues(w) == IF w = "mc" THEN McQueues ELSE <<"rx">>
AllQueues == Range(McQueues) \cup {"rx"}
Owner(q) == IF q = "rx" THEN "rx" ELSE "mc"

Init ==
    /\ flags = [w \in Workers |-> {}]
    /\ pc = [w \in Workers |-> "wait"]
    /\ look = [w \in Workers |-> 1]
    /\ queue = [q \in AllQueues |-> <<>>]
    /\ free = PoolSize
    /\ confirmed = [w \in Workers |-> 0]
    /\ resumed = [w \in Workers |-> 0]
    /\ suspended = {}
    /\ ppc = [p \in Posters |-> "idle"]
    /\ ptq = [p \in Posters |-> "rx"]
    /\ dropping = 0
    /\ hdd = "idle" /\ asleep = FALSE /\ late = FALSE /\ protect = 0
    /\ closer = "run" /\ kind = "none"
    /\ posts = 0 /\ suspends = 0

----------------------------------------------------------------------------
(* cds_mc_thread and cds_ol_rx_thread.                                     *)

Goto(w, to) == pc' = [pc EXCEPT ![w] = to]

\* wait_event_interruptible, and the clear of the post bit after it.
ThreadWakes(w) ==
    /\ pc[w] = "wait"
    /\ flags[w] \cap {"post", "suspend"} # {}
    /\ flags' = [flags EXCEPT ![w] = @ \ {"post"}]
    /\ Goto(w, "loop")
    /\ UNCHANGED <<look, data, handshake, calls, closing>>

\* The top of the inner loop: leave when told to shut down, and unblock a
\* suspend call.  The rx thread clears its shutdown bit, the mc thread does
\* not.
ThreadLoop(w) ==
    /\ pc[w] = "loop"
    /\ \/ /\ "shutdown" \in flags[w]
          /\ flags' = [flags EXCEPT
                 ![w] = @ \ ({"suspend"} \cup IF w = "rx" THEN {"shutdown"}
                                                          ELSE {})]
          /\ confirmed' = [confirmed EXCEPT
                 ![w] = @ + IF "suspend" \in flags[w] THEN 1 ELSE 0]
          /\ Goto(w, "gone")
          /\ look' = look
       \/ /\ "shutdown" \notin flags[w]
          /\ look' = [look EXCEPT ![w] = 1]
          /\ Goto(w, "look")
          /\ UNCHANGED <<flags, confirmed>>
    /\ UNCHANGED <<data, resumed, suspended, calls, closing>>

\* Look at the next queue and take its first element.
ThreadLooks(w) ==
    /\ pc[w] = "look"
    /\ IF look[w] > Len(Queues(w))
       THEN Goto(w, "suspend?") /\ UNCHANGED <<look, queue>>
       ELSE LET q == Queues(w)[look[w]] IN
            IF queue[q] = <<>>
            THEN look' = [look EXCEPT ![w] = @ + 1] /\ UNCHANGED <<pc, queue>>
            ELSE /\ queue' = [queue EXCEPT ![q] = Tail(@)]
                 /\ Goto(w, "work") /\ look' = look
    /\ UNCHANGED <<flags, free, ppc, ptq, dropping, posts, handshake, calls,
                   closing>>

\* Process the element and return it to its pool.  The mc thread goes back
\* to the top, the rx thread stays in cds_rx_from_queue.
MutantThreadWorks(w) ==
    /\ pc[w] = "work"
    /\ Goto(w, IF w = "mc" THEN "loop" ELSE "look")
    /\ UNCHANGED <<flags, look, data, handshake, calls, closing>>
ThreadWorks(w) ==
    /\ pc[w] = "work"
    /\ free' = [free EXCEPT ![w] = @ + 1]
    /\ Goto(w, IF w = "mc" THEN "loop" ELSE "look")
    /\ UNCHANGED <<flags, look, queue, ppc, ptq, dropping, posts, handshake,
                   calls, closing>>

\* All queues were empty: has a suspend been asked for?
MutantThreadTestsSuspend(w) ==
    /\ pc[w] = "suspend?"
    /\ flags' = [flags EXCEPT ![w] = @ \ {"suspend", "post"}]
    /\ Goto(w, IF "suspend" \in flags[w] THEN "confirm" ELSE "wait")
    /\ UNCHANGED <<look, data, handshake, calls, closing>>
ThreadTestsSuspend(w) ==
    /\ pc[w] = "suspend?"
    /\ IF "suspend" \in flags[w]
       THEN /\ flags' = [flags EXCEPT ![w] = @ \ {"suspend"}]
            /\ Goto(w, "confirm")
       ELSE flags' = flags /\ Goto(w, "wait")
    /\ UNCHANGED <<look, data, handshake, calls, closing>>

\* INIT_COMPLETION of the resume event and complete() of the confirmation.
ThreadConfirms(w) ==
    /\ pc[w] = "confirm"
    /\ resumed' = [resumed EXCEPT ![w] = 0]
    /\ confirmed' = [confirmed EXCEPT ![w] = @ + 1]
    /\ Goto(w, "parked")
    /\ UNCHANGED <<flags, look, data, suspended, calls, closing>>

ThreadResumes(w) ==
    /\ pc[w] = "parked"
    /\ resumed[w] > 0
    /\ resumed' = [resumed EXCEPT ![w] = @ - 1]
    /\ Goto(w, "wait")
    /\ UNCHANGED <<flags, look, data, confirmed, suspended, calls, closing>>

ThreadStep(w) ==
    \/ ThreadWakes(w) \/ ThreadLoop(w) \/ ThreadLooks(w) \/ ThreadWorks(w)
    \/ ThreadTestsSuspend(w) \/ ThreadConfirms(w) \/ ThreadResumes(w)

----------------------------------------------------------------------------
(* cds_mq_post_message, and cds_alloc_ol_rx_pkt with cds_indicate_rxpkt:   *)
(* take a free element, put it in the queue, set the post bit and wake the *)
(* thread.  Without a free element the message is refused.  The tasklets   *)
(* that indicate packets are killed before the threads are stopped.        *)

PostFrom(p, q) ==
    /\ ppc[p] = "idle" /\ posts < MaxPosts
    /\ q = "rx" => closer \in {"run", "guests", "isr"}
    /\ free[Owner(q)] > 0
    /\ free' = [free EXCEPT ![Owner(q)] = @ - 1]
    /\ ptq' = [ptq EXCEPT ![p] = q]
    /\ ppc' = [ppc EXCEPT ![p] = "put"]
    /\ posts' = posts + 1
    /\ UNCHANGED <<threads, queue, dropping, handshake, calls, closing>>

PutFrom(p, s) ==
    /\ ppc[p] = "put"
    /\ queue' = [queue EXCEPT ![ptq[p]] = Append(@, s)]
    /\ ppc' = [ppc EXCEPT ![p] = "set"]
    /\ UNCHANGED <<threads, free, ptq, dropping, posts, handshake, calls,
                   closing>>

WakeFrom(p) ==
    /\ ppc[p] = "set"
    /\ flags' = [flags EXCEPT ![Owner(ptq[p])] = @ \cup {"post"}]
    /\ ppc' = [ppc EXCEPT ![p] = "idle"]
    /\ UNCHANGED <<pc, look, queue, free, ptq, dropping, posts, handshake,
                   calls, closing>>

\* What is left of a list when the elements at the positions gone are moved
\* away from it: the others, in their order.
Remaining(list, gone) ==
    LET kept == DOMAIN list \ gone
        At(j) == CHOOSE i \in kept : Cardinality({k \in kept : k <= i}) = j
    IN  [j \in 1 .. Cardinality(kept) |-> list[At(j)]]

\* cds_drop_rxpkt_by_staid when a peer is cleared: the station's packets are
\* moved to a local list under the lock, and freed after it.
DropStation(s) ==
    LET gone == {i \in DOMAIN queue["rx"] : queue["rx"][i] = s} IN
    /\ dropping = 0 /\ closer = "run"
    /\ gone # {}
    /\ queue' = [queue EXCEPT !["rx"] = Remaining(@, gone)]
    /\ dropping' = Cardinality(gone)
    /\ UNCHANGED <<threads, free, ppc, ptq, posts, handshake, calls, closing>>

FreeDropped ==
    /\ dropping > 0
    /\ dropping' = dropping - 1
    /\ free' = [free EXCEPT !["rx"] = @ + 1]
    /\ UNCHANGED <<threads, queue, ppc, ptq, posts, handshake, calls, closing>>

----------------------------------------------------------------------------
(* __wlan_hdd_cfg80211_suspend_wlan and __wlan_hdd_cfg80211_resume_wlan,   *)
(* between cds_ssr_protect and cds_ssr_unprotect.                          *)

Enter(call) ==
    /\ hdd = "idle"
    /\ protect' = protect + 1
    /\ hdd' = call
    /\ UNCHANGED <<threads, data, handshake, late, closing>>

suspend_wlan ==
    /\ ~asleep /\ suspends < MaxSuspends
    /\ suspends' = suspends + 1 /\ asleep' = asleep
    /\ Enter("suspend")

resume_wlan ==
    /\ asleep /\ asleep' = FALSE
    /\ suspends' = suspends
    /\ Enter("resume")

\* wlan_hdd_validate_context: is a restart or an unload in progress?  One may
\* begin right after the answer.
validate_context ==
    /\ hdd \in {"suspend", "resume"}
    /\ hdd' = IF closer # "run" THEN "leave"
              ELSE IF hdd = "suspend" THEN "suspend mc" ELSE "wake threads"
    /\ UNCHANGED <<threads, data, handshake, asleep, late, protect, suspends,
                   closing>>

\* The call may fail before it comes to the threads: radar detection,
\* roaming, a scan that does not stop, a target that is not ready.
SuspendMc ==
    /\ hdd = "suspend mc"
    /\ \/ /\ flags' = [flags EXCEPT !["mc"] = @ \cup {"suspend"}]
          /\ hdd' = "mc?"
       \/ flags' = flags /\ hdd' = "leave"
    /\ UNCHANGED <<pc, look, data, handshake, asleep, late, protect, suspends,
                   closing>>

\* The mc thread has confirmed: go on with the rx thread.
McConfirmed ==
    /\ hdd = "mc?" /\ confirmed["mc"] > 0
    /\ confirmed' = [confirmed EXCEPT !["mc"] = @ - 1]
    /\ suspended' = suspended \cup {"mc"}
    /\ flags' = [flags EXCEPT !["rx"] = @ \cup {"suspend"}]
    /\ hdd' = "rx?"
    /\ UNCHANGED <<pc, look, data, resumed, asleep, late, protect, suspends,
                   closing>>

MutantRxConfirmed ==
    /\ hdd = "rx?"
    /\ suspended' = suspended \cup {"rx"}
    /\ asleep' = TRUE
    /\ hdd' = "leave"
    /\ UNCHANGED <<threads, data, confirmed, resumed, late, protect, suspends,
                   closing>>
RxConfirmed ==
    /\ hdd = "rx?" /\ confirmed["rx"] > 0
    /\ confirmed' = [confirmed EXCEPT !["rx"] = @ - 1]
    /\ suspended' = suspended \cup {"rx"}
    /\ asleep' = TRUE
    /\ hdd' = "leave"
    /\ UNCHANGED <<threads, data, resumed, late, protect, suspends,
                   closing>>

\* wait_for_completion_timeout gives up; the bit is cleared after that.
TimeOut ==
    /\ late' = TRUE
    /\ \/ hdd = "mc?" /\ confirmed["mc"] = 0 /\ hdd' = "mc late"
       \/ hdd = "rx?" /\ confirmed["rx"] = 0 /\ hdd' = "rx late"
    /\ UNCHANGED <<threads, data, handshake, asleep, protect, suspends, closing>>

McLate ==
    /\ hdd = "mc late"
    /\ flags' = [flags EXCEPT !["mc"] = @ \ {"suspend"}]
    /\ hdd' = "leave"
    /\ UNCHANGED <<pc, look, data, handshake, asleep, late, protect, suspends,
                   closing>>

RxLate ==
    /\ hdd = "rx late"
    /\ flags' = [flags EXCEPT !["rx"] = @ \ {"suspend"}]
    /\ resumed' = [resumed EXCEPT !["mc"] = @ + 1]
    /\ suspended' = suspended \ {"mc"}
    /\ hdd' = "leave"
    /\ UNCHANGED <<pc, look, data, confirmed, asleep, late, protect, suspends,
                   closing>>

\* Wake the threads that the flags say are suspended.
MutantWakeThreads ==
    /\ resumed' = [resumed EXCEPT !["mc"] = IF "mc" \in suspended THEN @ + 1 ELSE @]
    /\ suspended' = {}
WakeThreads ==
    /\ resumed' = [w \in Workers |->
                       IF w \in suspended THEN resumed[w] + 1 ELSE resumed[w]]
    /\ suspended' = {}

ResumeThreads ==
    /\ hdd = "wake threads"
    /\ WakeThreads
    /\ hdd' = "leave"
    /\ UNCHANGED <<threads, data, confirmed, asleep, late, protect, suspends,
                   closing>>

Leave ==
    /\ hdd = "leave"
    /\ protect' = protect - 1
    /\ hdd' = "idle"
    /\ UNCHANGED <<threads, data, handshake, asleep, late, suspends, closing>>

CallStep ==
    \/ validate_context \/ SuspendMc \/ McConfirmed \/ RxConfirmed \/ TimeOut
    \/ McLate \/ RxLate \/ ResumeThreads \/ Leave

----------------------------------------------------------------------------
(* Restart (wlan_hdd_shutdown, hdd_wlan_shutdown) and unload               *)
(* (wlan_hdd_remove, cds_sched_close).                                     *)

\* Raise the flag that wlan_hdd_validate_context reads.  The driver is
\* unloaded from user space, which does not run during a suspend.
BeginClose(k) ==
    /\ closer = "run"
    /\ k = "unload" => ~asleep /\ hdd = "idle"
    /\ closer' = "guests" /\ kind' = k
    /\ UNCHANGED <<threads, data, handshake, calls>>

\* cds_wait_for_external_threads_completion.
MutantGuestsLeft == TRUE
GuestsLeft == protect = 0 \/ Impatient

WaitForGuests ==
    /\ closer = "guests"
    /\ GuestsLeft
    /\ closer' = "isr"
    /\ UNCHANGED <<threads, data, handshake, calls, kind>>

\* The interrupts are off and the tasklets, which post packets, have ended.
\* A restart wakes the threads that the flags say are suspended.
DisableIsr ==
    /\ closer = "isr"
    /\ \A p \in Posters : ppc[p] # "idle" => ptq[p] # "rx"
    /\ IF kind = "ssr" THEN WakeThreads ELSE UNCHANGED <<resumed, suspended>>
    /\ closer' = "stop mc"
    /\ UNCHANGED <<threads, data, confirmed, calls, kind>>

\* A thread is told to leave: the shutdown bit, then the post bit that wakes
\* it, then the wait for its exit.
MutantStopBits == <<"post", "shutdown">>
StopBits == <<"shutdown", "post">>
StopPcs(w) == IF w = "mc" THEN <<"stop mc", "wake mc", "mc gone?">>
                          ELSE <<"stop rx", "wake rx", "rx gone?">>

StopThread(w) ==
    \E i \in 1 .. 2 :
        /\ closer = StopPcs(w)[i]
        /\ flags' = [flags EXCEPT ![w] = @ \cup {StopBits[i]}]
        /\ closer' = StopPcs(w)[i + 1]
        /\ UNCHANGED <<pc, look, data, handshake, calls, kind>>

\* The places of the elements in the queues of a thread, and their number.
Places(w) == UNION {{q} \X DOMAIN queue[q] : q \in {r \in AllQueues : Owner(r) = w}}
Queued(w) == Cardinality(Places(w))

\* The queues of the threads in W are emptied into the pools.

Flush(W) ==
    /\ queue' = [q \in AllQueues |-> IF Owner(q) \in W THEN <<>> ELSE queue[q]]
    /\ free' = [w \in Workers |-> IF w \in W THEN free[w] + Queued(w) ELSE free[w]]
    /\ UNCHANGED <<threads, ppc, ptq, dropping, posts, handshake, calls, kind>>

\* An unload flushes the mc queues before it stops the rx thread, a restart
\* after both threads are gone.
McGone ==
    /\ closer = "mc gone?" /\ pc["mc"] = "gone"
    /\ Flush(IF kind = "unload" THEN {"mc"} ELSE {})
    /\ closer' = "stop rx"

RxGone ==
    /\ closer = "rx gone?" /\ pc["rx"] = "gone"
    /\ Flush(IF kind = "unload" THEN {"rx"} ELSE Workers)
    /\ closer' = "closed"

CloseStep ==
    \/ WaitForGuests \/ DisableIsr \/ (\E w \in Workers : StopThread(w))
    \/ McGone \/ RxGone

----------------------------------------------------------------------------
PosterStep(p) == (\E s \in Stations : PutFrom(p, s)) \/ WakeFrom(p)

Next ==
    \/ \E w \in Workers : ThreadStep(w)
    \/ \E p \in Posters :
           (\E q \in AllQueues : PostFrom(p, q)) \/ PosterStep(p)
    \/ \E s \in Stations : DropStation(s)
    \/ FreeDropped
    \/ suspend_wlan \/ resume_wlan \/ CallStep
    \/ \E k \in {"ssr", "unload"} : BeginClose(k)
    \/ CloseStep

Spec == Init /\ [][Next]_vars

FairSpec ==
    /\ Spec
    /\ \A w \in Workers : WF_vars(ThreadStep(w))
    /\ \A p \in Posters : WF_vars(PosterStep(p))
    /\ WF_vars(FreeDropped)
    /\ WF_vars(CallStep)
    /\ WF_vars(CloseStep)

----------------------------------------------------------------------------
(* Properties.                                                             *)

ThreadPcs == {"wait", "loop", "look", "work", "suspend?", "confirm", "parked",
              "gone"}
CallPcs == {"idle", "suspend", "resume", "suspend mc", "mc?", "rx?", "mc late",
            "rx late", "wake threads", "leave"}
ClosePcs == {"run", "guests", "isr", "stop mc", "wake mc", "mc gone?", "stop rx",
             "wake rx", "rx gone?", "closed"}

\* The type of the state.  A pool never holds more than it was made with.
TypeOK ==
    /\ flags \in [Workers -> SUBSET {"post", "suspend", "shutdown"}]
    /\ pc \in [Workers -> ThreadPcs]
    /\ look \in [Workers -> 1 .. Len(McQueues) + 2]
    /\ \A q \in AllQueues : \A i \in DOMAIN queue[q] : queue[q][i] \in Stations
    /\ \A w \in Workers : free[w] \in 0 .. PoolSize[w]
    /\ confirmed \in [Workers -> Nat] /\ resumed \in [Workers -> Nat]
    /\ suspended \subseteq Workers
    /\ ppc \in [Posters -> {"idle", "put", "set"}]
    /\ ptq \in [Posters -> AllQueues]
    /\ dropping \in Nat
    /\ hdd \in CallPcs /\ {asleep, late} \subseteq BOOLEAN /\ protect \in 0 .. 1
    /\ closer \in ClosePcs /\ kind \in {"none", "ssr", "unload"}
    /\ posts \in 0 .. MaxPosts /\ suspends \in 0 .. MaxSuspends

Posting(w) == {p \in Posters : ppc[p] = "put" /\ Owner(ptq[p]) = w}

\* Every message wrapper and every packet descriptor is in its pool, in a
\* queue, in the hands of the thread or of a poster, or on the local list of
\* cds_drop_rxpkt_by_staid: none is lost when threads are suspended,
\* stations dropped or queues flushed.
PoolConserved ==
    \A w \in Workers :
        free[w] + Queued(w) + Cardinality(Posting(w))
          + (IF pc[w] = "work" THEN 1 ELSE 0)
          + (IF w = "rx" THEN dropping ELSE 0) = PoolSize[w]

\* A thread that the driver takes for suspended is parked and has no resume
\* event pending, until a resume or a restart wakes it: also when an earlier
\* suspend call gave up and its late confirmation, which nothing resets, is
\* consumed by this one.
SuspendedQuiet ==
    \A w \in Workers :
        w \in suspended => pc[w] = "parked" /\ resumed[w] = 0

\* A parked thread has someone to wake it: a resume event is pending, the
\* flag that resume, restart and a failing suspend consult is set, or the
\* suspend call that will set it is still waiting for the confirmation.  After
\* a suspend call that gave up a thread may park with nobody to wake it.
SomeoneWakes ==
    ~late => \A w \in Workers :
        pc[w] \in {"confirm", "parked"} =>
            \/ pc[w] = "parked" /\ resumed[w] > 0
            \/ w \in suspended
            \/ hdd = (IF w = "mc" THEN "mc?" ELSE "rx?")

\* The flag is raised before the entry count is read, and a call is counted
\* before it reads the flag: the threads are never stopped while a suspend
\* or resume call that passed wlan_hdd_validate_context is under way.
NoGuestWhenStopped ==
    closer \notin {"run", "guests"}
        => hdd \in {"idle", "suspend", "resume", "leave"}

\* Queued messages and packets are served, unless the threads are suspended,
\* a suspend call gave up or the driver closes: a post bit set while the thread is between looking
\* at the queues and waiting again is not lost.
Served ==
    []<>(\/ \A q \in AllQueues : queue[q] = <<>>
         \/ asleep \/ late
         \/ closer # "run")

\* "Stop all the threads [...] terminate the threads gracefully"
\* (wlan_hdd_power.c:1322): a restart or unload comes to its end, unless a
\* suspend call gave up: its thread may park, and the restart waits for it.
CloseEnds == (closer # "run") ~> (closer = "closed" \/ late)
=============================================================================
