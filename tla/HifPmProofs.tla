---------------------------- MODULE HifPmProofs ----------------------------
(***************************************************************************)
(* Proofs about the runtime power management of the PCI bus, in its two    *)
(* parts.  RuntimePm: while more messages are on their way than surplus    *)
(* puts may have dropped references the link is up, for any number of      *)
(* senders and messages and whichever steps of the suspend fail.  PmLocks: *)
(* the counts are right whatever the order of calls and timeouts, and as   *)
(* long as jiffies stay in the lower half of their range no lock is        *)
(* orphaned or released early.                                             *)
(***************************************************************************)
EXTENDS RuntimePm, PmLocks, FiniteSetTheorems, TLAPS

(***************************************************************************)
(* The steps that drain the queue.  The kernel's get is the one that could *)
(* take a reference too late.                                              *)
(***************************************************************************)

\* A context of HTC keeps the inductive invariant when it takes a reference or
\* is refused one.
LEMMA DrainStep ==
    ASSUME PmInv, NEW c \in Contexts, Drain(c)
    PROVE  PmInv'
<1> USE PmAssumption DEF PmInv, TypeOK, Goto, EndPass, kernel, driver, tagged, Held, SurelyHeld
<1>1. CASE TestState(c)
  BY <1>1 DEF TestState, StateAllowsGet, Phases, GetWindow, ReferencesMatch,
              LinkUpWhileHeld, SuspendSteps
<1>2. CASE GetRefused(c)
  BY <1>2 DEF GetRefused, RequestResume, Phases, GetWindow, ReferencesMatch,
              LinkUpWhileHeld
<1>3. CASE QueueEmpty(c)
  BY <1>3 DEF QueueEmpty, Phases, GetWindow, ReferencesMatch, LinkUpWhileHeld
<1>4. CASE KernelGet(c)
  <2>1. CASE GetSucceeds /\ Dequeued
    <3>1. rpm = "ACTIVE" /\ step = "none" /\ linkUp
      BY <1>4, <2>1 DEF KernelGet, GetSucceeds, GetWindow, Phases
    <3> QED
      BY <1>4, <2>1, <3>1 DEF KernelGet, Dequeued, Phases, GetWindow,
                              ReferencesMatch, LinkUpWhileHeld
  <2>2. CASE GetSucceeds /\ ~Dequeued
    BY <1>4, <2>2 DEF KernelGet, Phases, GetWindow, ReferencesMatch,
                      LinkUpWhileHeld
  <2>3. CASE ~GetSucceeds
    BY <1>4, <2>3 DEF KernelGet, RequestResume, UsageAfterFailedGet, Phases,
                      GetWindow, ReferencesMatch, LinkUpWhileHeld
  <2> QED BY <2>1, <2>2, <2>3
<1>5. ASSUME NEW puts \in 0..batch, Issue(c, puts)
      PROVE  PmInv'
  <2>1. Held' = Held /\ puts \in Nat /\ surplus' = Capped(surplus + puts)
    BY <1>5 DEF Issue
  <2>2. usage_count' = UsageAfterPuts(puts)
    BY <1>5 DEF Issue
  <2>3. surplus' \in 0..Held' /\ (SurelyHeld' => SurelyHeld)
    BY <2>1 DEF Capped, SurelyHeld
  <2>4. TypeOK'
    BY <1>5, <2>2, <2>3 DEF Issue, UsageAfterPuts
  <2>5. ReferencesMatch'
    BY <2>1, <2>2 DEF Capped, UsageAfterPuts, ReferencesMatch
  <2>6. Phases' /\ GetWindow' /\ LinkUpWhileHeld'
    BY <1>5, <2>3 DEF Issue, Phases, GetWindow, LinkUpWhileHeld
  <2> QED BY <2>4, <2>5, <2>6
<1> QED BY <1>1, <1>2, <1>3, <1>4, <1>5 DEF Drain

\* Entering the loop and completing a message keep the invariant.
LEMMA EndpointStep ==
    ASSUME PmInv,
           \/ \E c \in Senders : htc_send_pkt(c)
           \/ htc_kick_queues
           \/ Complete
           \/ OtherEndpointIssues
    PROVE  PmInv'
<1> USE PmAssumption DEF PmInv, TypeOK, Goto, kernel, driver, tagged, Held, SurelyHeld,
                        Contexts
<1>1. ASSUME NEW c \in Senders, htc_send_pkt(c)
      PROVE  PmInv'
  BY <1>1 DEF htc_send_pkt, Enter, Phases, GetWindow, ReferencesMatch,
              LinkUpWhileHeld
<1>2. CASE htc_kick_queues
  <2>1. TypeOK'
    <3>1. kick' \in BOOLEAN
      BY <1>2, Zenon DEF htc_kick_queues
    <3>2. UNCHANGED <<kernel, pm_state, linkUp, step, posted, inFlight, batch, tagged>>
      BY <1>2, Zenon DEF htc_kick_queues
    <3>3. Enter(Kicker, 0)
      BY <1>2, Zenon DEF htc_kick_queues
    <3> QED BY <3>1, <3>2, <3>3 DEF Enter
  <2>2. Phases' /\ GetWindow' /\ ReferencesMatch' /\ LinkUpWhileHeld'
    BY <1>2 DEF htc_kick_queues, Enter, Phases, GetWindow, ReferencesMatch,
                LinkUpWhileHeld
  <2> QED BY <2>1, <2>2
<1>3. CASE Complete
  <2>1. Held' = Held - 1 /\ Held > 0
    BY <1>3 DEF Complete
  <2>2. surplus' \in 0..Held' /\ (SurelyHeld' => SurelyHeld)
    BY <1>3, <2>1 DEF Complete, SurelyHeld
  <2>3. TypeOK'
    BY <1>3, <2>2 DEF Complete, UsageAfterPuts
  <2>4. ReferencesMatch'
    BY <1>3, <2>1 DEF Complete, UsageAfterPuts, ReferencesMatch
  <2>5. Phases' /\ GetWindow' /\ LinkUpWhileHeld'
    BY <1>3, <2>2 DEF Complete, Phases, GetWindow, LinkUpWhileHeld
  <2> QED BY <2>3, <2>4, <2>5
<1>4. CASE OtherEndpointIssues
  <2>1. Held' = Held /\ Held > 0 /\ surplus' = Capped(surplus + 1)
    BY <1>4 DEF OtherEndpointIssues, endpoint
  <2>2. surplus' \in 0..Held' /\ (SurelyHeld' => SurelyHeld)
    BY <2>1 DEF Capped, SurelyHeld
  <2>3. TypeOK'
    BY <1>4, <2>2 DEF OtherEndpointIssues, UsageAfterPuts, endpoint
  <2>4. ReferencesMatch'
    BY <1>4, <2>1 DEF OtherEndpointIssues, Capped, UsageAfterPuts, ReferencesMatch
  <2>5. Phases' /\ GetWindow' /\ LinkUpWhileHeld'
    BY <1>4, <2>2 DEF OtherEndpointIssues, endpoint, Phases, GetWindow, LinkUpWhileHeld
  <2> QED BY <2>3, <2>4, <2>5
<1> QED BY <1>1, <1>2, <1>3, <1>4

\* The suspend starts only without references, and the lock keeps a context in
\* the window of hif_pm_runtime_get from seeing a suspended bus.
LEMMA SuspendSequenceStep ==
    ASSUME PmInv,
           \/ KernelSuspends
           \/ SuspendStep
           \/ SuspendStepFails
           \/ hif_process_runtime_suspend_failure
           \/ hif_process_runtime_suspend_success
           \/ KernelSuspended
           \/ KernelActive
    PROVE  PmInv'
<1> USE PmAssumption DEF PmInv, TypeOK, kernel, driver, endpoint, tagged, Held, SurelyHeld,
                        SuspendSteps
<1>1. CASE KernelSuspends
  BY <1>1 DEF KernelSuspends, Phases, GetWindow, ReferencesMatch,
              LinkUpWhileHeld
<1>2. CASE SuspendStep
  <2>1. TypeOK'
    <3>1. UNCHANGED <<rpm, usage_count, kick, endpoint, tagged>>
      BY <1>2, Zenon DEF SuspendStep
    <3>2. request' \in BOOLEAN /\ deferred_resume' \in BOOLEAN /\ linkUp' \in BOOLEAN
      BY <1>2, Zenon DEF SuspendStep, WmaCommands, RequestResume
    <3>3. /\ pm_state' \in {"ON", "INPROGRESS", "SUSPENDED"}
          /\ step' \in SuspendSteps \cup {"suspended"}
      BY <1>2 DEF SuspendStep, SuspendNext
    <3> QED BY <3>1, <3>2, <3>3
  <2>2. Phases'
    BY <1>2 DEF SuspendStep, SuspendNext, Phases
  <2>3. GetWindow'
    BY <1>2 DEF SuspendStep, SuspendNext, WmaCommands, LockFree, GetWindow
  <2> QED
    BY <1>2, <2>1, <2>2, <2>3 DEF SuspendStep, ReferencesMatch,
                                   LinkUpWhileHeld
<1>3. CASE SuspendStepFails
  BY <1>3 DEF SuspendStepFails, Phases, GetWindow, ReferencesMatch,
              LinkUpWhileHeld
<1>4. CASE hif_process_runtime_suspend_failure
  BY <1>4 DEF hif_process_runtime_suspend_failure, Phases, GetWindow,
              ReferencesMatch, LinkUpWhileHeld
<1>5. CASE hif_process_runtime_suspend_success
  BY <1>5 DEF hif_process_runtime_suspend_success, Phases, GetWindow,
              ReferencesMatch, LinkUpWhileHeld
<1>6. CASE KernelSuspended
  BY <1>6 DEF KernelSuspended, Phases, GetWindow, ReferencesMatch,
              LinkUpWhileHeld
<1>7. CASE KernelActive
  BY <1>7 DEF KernelActive, Phases, GetWindow, ReferencesMatch,
              LinkUpWhileHeld
<1> QED BY <1>1, <1>2, <1>3, <1>4, <1>5, <1>6, <1>7

\* No message holds a reference while the bus resumes.
LEMMA ResumeSequenceStep ==
    ASSUME PmInv,
           \/ KernelResumes
           \/ hif_pre_runtime_resume
           \/ cnss_auto_resume
           \/ htc_runtime_resume
           \/ hif_process_runtime_resume_success
    PROVE  PmInv'
<1> USE PmAssumption DEF PmInv, TypeOK, kernel, driver, endpoint, tagged, Held, SurelyHeld,
                        SuspendSteps
<1>1. CASE KernelResumes
  BY <1>1 DEF KernelResumes, Phases, GetWindow, ReferencesMatch,
              LinkUpWhileHeld
<1>2. CASE hif_pre_runtime_resume
  BY <1>2 DEF hif_pre_runtime_resume, Phases, GetWindow, ReferencesMatch,
              LinkUpWhileHeld
<1>3. CASE cnss_auto_resume
  BY <1>3 DEF cnss_auto_resume, Phases, GetWindow, ReferencesMatch,
              LinkUpWhileHeld
<1>4. CASE htc_runtime_resume
  BY <1>4 DEF htc_runtime_resume, Phases, GetWindow, ReferencesMatch,
              LinkUpWhileHeld
<1>5. CASE hif_process_runtime_resume_success
  BY <1>5 DEF hif_process_runtime_resume_success, Phases, GetWindow,
              ReferencesMatch, LinkUpWhileHeld
<1> QED BY <1>1, <1>2, <1>3, <1>4, <1>5

-----------------------------------------------------------------------------
\* The inductive invariant holds in every reachable state.
THEOREM Invariance == Spec => []PmInv
<1>1. Init => PmInv
  <2>1. Init => TypeOK
    <3>1. Init => /\ deferred_resume \in BOOLEAN /\ request \in BOOLEAN
                  /\ linkUp \in BOOLEAN /\ kick \in BOOLEAN
      BY Zenon DEF Init
    <3>2. Init => /\ rpm = "ACTIVE" /\ usage_count = 0 /\ pm_state = "ON"
                  /\ step = "none" /\ queue = 0 /\ posted = 0
                  /\ inFlight = 0 /\ drainer = Nobody /\ batch = 0
                  /\ pc = [c \in Contexts |-> "idle"]
                  /\ service \in Services /\ surplus = 0
      BY Zenon DEF Init
    <3> QED BY <3>1, <3>2 DEF TypeOK, Held
  <2>2. Init => Phases /\ GetWindow /\ ReferencesMatch /\ LinkUpWhileHeld
    BY DEF Init, Phases, GetWindow, ReferencesMatch, LinkUpWhileHeld, SurelyHeld, Held
  <2> QED BY <2>1, <2>2 DEF PmInv
<1>2. PmInv /\ [Next]_vars => PmInv'
  <2> SUFFICES ASSUME PmInv, [Next]_vars
               PROVE  PmInv'
    OBVIOUS
  <2>1. CASE Next
    BY <2>1, DrainStep, EndpointStep, SuspendSequenceStep, ResumeSequenceStep
       DEF Next, Sequence
  <2>2. CASE UNCHANGED vars
    BY <2>2 DEF vars, kernel, driver, endpoint, tagged, PmInv, TypeOK, Phases,
                GetWindow, ReferencesMatch, LinkUpWhileHeld, SurelyHeld, Held
  <2> QED BY <2>1, <2>2
<1> QED BY <1>1, <1>2, PTL DEF Spec

\* Every variable keeps its type: in particular the usage count and the queue
\* never go below zero.
THEOREM TypeCorrect == Spec => []TypeOK
<1>1. PmInv => TypeOK
  BY DEF PmInv
<1> QED BY <1>1, Invariance, PTL

\* hif_pm_runtime_get: while more messages are on their way than surplus puts may
\* have dropped references, the link is up, although the state is tested before
\* the reference is taken.
THEOREM HeldLinkIsUp == Spec => []LinkUpWhileHeld
<1>1. PmInv => LinkUpWhileHeld
  BY DEF PmInv
<1> QED BY <1>1, Invariance, PTL

\* The assertion in both collectors: only the first message of a batch can be
\* refused a reference, unless surplus puts may have dropped every reference.
THEOREM OnlyFirstRefused == Spec => []RefusedOnlyFirst
<1>1. PmInv => RefusedOnlyFirst
  BY DEF PmInv, TypeOK, RefusedOnlyFirst, LinkUpWhileHeld, Phases,
         StateAllowsGet, GetSucceeds
<1> QED BY <1>1, Invariance, PTL

\* The usage count is at most the number of messages in the batch and in flight
\* and at least that number less the surplus puts of RUNTIME_PUT messages.
THEOREM CountedReferences == Spec => []ReferencesMatch
<1>1. PmInv => ReferencesMatch
  BY DEF PmInv
<1> QED BY <1>1, Invariance, PTL

(***************************************************************************)
(* The runtime-PM locks.                                                   *)
(***************************************************************************)

\* A lock that a caller is about to take has not been freed.
CallsLive == \A c \in Callers : call[c] # None => call[c].lock \in live

CountInv == LocksTypeOK /\ HeldOnce /\ CallsLive

\* Releasing a set of locks lowers both counts by the locks that were held.
LEMMA AllowSuspend ==
    ASSUME CountInv, NEW ls \in SUBSET Locks,
           __hif_pm_runtime_allow_suspend(ls)
    PROVE  /\ active' = active \ ls
           /\ timeout' = timeout \ ls
           /\ prevent_suspend_cnt' = Cardinality(active')
           /\ locks_usage' = Cardinality(active')
           /\ prevent_suspend_cnt' \in Nat
           /\ locks_usage' \in Nat
<1>1. IsFiniteSet(active)
  BY LocksAssumption, FS_Subset DEF CountInv, LocksTypeOK
<1>2. Releasable(ls) = ls \cap active
  BY <1>1, FS_EmptySet DEF Releasable, CountInv, HeldOnce
<1>3. active' = active \ ls /\ timeout' = timeout \ ls
  BY <1>2 DEF __hif_pm_runtime_allow_suspend, CountInv, HeldOnce
<1>4. Cardinality(active \ ls)
          = Cardinality(active) - Cardinality(ls \cap active)
  <2>1. active \cap ls = ls \cap active
    OBVIOUS
  <2> QED BY <1>1, <2>1, FS_Difference
<1>5. Cardinality(active \ ls) \in Nat
  BY <1>1, FS_Difference, FS_CardinalityType
<1> QED
  BY <1>2, <1>3, <1>4, <1>5 DEF __hif_pm_runtime_allow_suspend, CountInv,
                                HeldOnce

\* Taking a lock raises both counts if it was not held.
LEMMA PreventSuspend ==
    ASSUME CountInv, NEW l \in Locks, __hif_pm_runtime_prevent_suspend(l)
    PROVE  /\ active' = active \cup {l}
           /\ prevent_suspend_cnt' = Cardinality(active')
           /\ locks_usage' = Cardinality(active')
           /\ prevent_suspend_cnt' \in Nat
           /\ locks_usage' \in Nat
<1>1. IsFiniteSet(active)
  BY LocksAssumption, FS_Subset DEF CountInv, LocksTypeOK
<1>2. CASE IsHeld(l)
  BY <1>2 DEF IsHeld, __hif_pm_runtime_prevent_suspend, CountInv, HeldOnce,
              LocksTypeOK
<1>3. CASE ~IsHeld(l)
  BY <1>1, <1>3, FS_AddElement
     DEF IsHeld, __hif_pm_runtime_prevent_suspend, CountInv, HeldOnce, LocksTypeOK
<1> QED BY <1>2, <1>3

-----------------------------------------------------------------------------
\* Every step keeps the counts equal to the number of held locks.
LEMMA CountStep == CountInv /\ [LocksNext]_locksVars => CountInv'
<1> SUFFICES ASSUME CountInv, [LocksNext]_locksVars
             PROVE  CountInv'
  OBVIOUS
<1> USE LocksAssumption DEF Jiffies
<1>1. ASSUME NEW l \in Locks, hif_runtime_lock_init(l)
      PROVE  CountInv'
  BY <1>1 DEF hif_runtime_lock_init, CountInv, LocksTypeOK, HeldOnce, CallsLive,
              timer, clock
<1>2. ASSUME NEW l \in Locks, hif_runtime_lock_deinit(l)
      PROVE  CountInv'
  <2>1. __hif_pm_runtime_allow_suspend({l})
    BY <1>2 DEF hif_runtime_lock_deinit
  <2>2. /\ active' = active \ {l}
        /\ timeout' = timeout \ {l}
        /\ prevent_suspend_cnt' = Cardinality(active')
        /\ locks_usage' = Cardinality(active')
        /\ prevent_suspend_cnt' \in Nat
        /\ locks_usage' \in Nat
    BY <2>1, AllowSuspend
  <2> QED
    BY <1>2, <2>2 DEF hif_runtime_lock_deinit, CountInv, LocksTypeOK, HeldOnce,
                      CallsLive, timer, clock
<1>3. ASSUME NEW l \in Locks, hif_pm_runtime_prevent_suspend(l)
      PROVE  CountInv'
  <2>1. __hif_pm_runtime_prevent_suspend(l)
    BY <1>3 DEF hif_pm_runtime_prevent_suspend
  <2> QED
    BY <1>3, <2>1, PreventSuspend
       DEF hif_pm_runtime_prevent_suspend, CountInv, LocksTypeOK, HeldOnce,
           CallsLive, timer, clock
<1>4. ASSUME NEW l \in Locks, hif_pm_runtime_allow_suspend(l)
      PROVE  CountInv'
  <2>1. __hif_pm_runtime_allow_suspend({l})
    BY <1>4 DEF hif_pm_runtime_allow_suspend
  <2>2. /\ active' = active \ {l}
        /\ timeout' = timeout \ {l}
        /\ prevent_suspend_cnt' = Cardinality(active')
        /\ locks_usage' = Cardinality(active')
        /\ prevent_suspend_cnt' \in Nat
        /\ locks_usage' \in Nat
    BY <2>1, AllowSuspend
  <2> QED
    BY <1>4, <2>2 DEF hif_pm_runtime_allow_suspend, CountInv, LocksTypeOK,
                      HeldOnce, CallsLive, clock
<1>5. ASSUME NEW c \in Callers, NEW l \in Locks, NEW d \in Delays,
             ComputeExpires(c, l, d)
      PROVE  CountInv'
  <2>1. NotZero(Wrap(jiffies + d)) \in Jiffies
    BY DEF NotZero, Wrap, CountInv, LocksTypeOK
  <2>2. passed + d \in Nat
    BY DEF CountInv, LocksTypeOK
  <2> QED
    BY <1>5, <2>1, <2>2 DEF ComputeExpires, CountInv, LocksTypeOK, HeldOnce,
                            CallsLive, locks, timer, clock
<1>6. ASSUME NEW c \in Callers, hif_pm_runtime_prevent_suspend_timeout(c)
      PROVE  CountInv'
  <2>1. /\ call[c].lock \in Locks /\ call[c].lock \in live
        /\ call[c].expires \in Jiffies
        /\ call[c].ends \in Nat
    BY <1>6 DEF hif_pm_runtime_prevent_suspend_timeout, CountInv, LocksTypeOK,
                CallsLive
  <2>2. __hif_pm_runtime_prevent_suspend(call[c].lock)
    BY <1>6 DEF hif_pm_runtime_prevent_suspend_timeout
  <2> QED
    BY <1>6, <2>1, <2>2, PreventSuspend
       DEF hif_pm_runtime_prevent_suspend_timeout, CountInv, LocksTypeOK,
           HeldOnce, CallsLive, clock
<1>7. CASE TimerFires
  BY <1>7 DEF TimerFires, CountInv, LocksTypeOK, HeldOnce, CallsLive, locks, clock
<1>8. CASE hif_pm_runtime_lock_timeout_fn
  <2>0. callback' \in BOOLEAN
    BY <1>8, Zenon DEF hif_pm_runtime_lock_timeout_fn
  <2>1. CASE TooEarly
    BY <1>8, <2>0, <2>1 DEF hif_pm_runtime_lock_timeout_fn, CountInv, LocksTypeOK,
                      HeldOnce, CallsLive, clock
  <2>2. CASE ~TooEarly
    <3>1. __hif_pm_runtime_allow_suspend(timeout)
      BY <1>8, <2>2 DEF hif_pm_runtime_lock_timeout_fn
    <3>2. timeout \in SUBSET Locks
      BY DEF CountInv, LocksTypeOK
    <3> QED
      BY <1>8, <2>0, <2>2, <3>1, <3>2, AllowSuspend
         DEF hif_pm_runtime_lock_timeout_fn, CountInv, LocksTypeOK, HeldOnce,
             CallsLive, clock
  <2> QED BY <2>1, <2>2
<1>9. CASE Tick
  BY <1>9 DEF Tick, Wrap, CountInv, LocksTypeOK, HeldOnce, CallsLive, locks, timer
<1>10. CASE UNCHANGED locksVars
  BY <1>10 DEF locksVars, CountInv, LocksTypeOK, HeldOnce, CallsLive, locks, timer,
               clock
<1> QED
  BY <1>1, <1>2, <1>3, <1>4, <1>5, <1>6, <1>7, <1>8, <1>9, <1>10
     DEF LocksNext, Calls, Progress

\* The initial state has no locks and both counts are zero.
LEMMA CountInit == LocksInit => CountInv
<1> SUFFICES ASSUME LocksInit
             PROVE  CountInv
  OBVIOUS
<1>1. callback \in BOOLEAN
  BY Zenon DEF LocksInit
<1> QED
  BY <1>1, LocksAssumption, FS_EmptySet DEF LocksInit, CountInv, LocksTypeOK, HeldOnce,
                                           CallsLive, Jiffies

\* Each lock that is held counts once in both counts, freed locks are not on
\* the list and only held locks have a timeout, for any number of locks and
\* threads and also when jiffies wrap around.
THEOREM CountedOnce == LocksSpec => []HeldOnce
<1>1. CountInv => HeldOnce
  BY DEF CountInv
<1> QED BY <1>1, CountInit, CountStep, PTL DEF LocksSpec
-----------------------------------------------------------------------------
(***************************************************************************)
(* The timer, as long as jiffies stay in the lower half of their range     *)
(* while calls are made (NoWrap).                                          *)
(***************************************************************************)

\* Between numbers of the lower half time_after is the order of integers, and
\* an end in the lower half that is not after jiffies has been reached.
LEMMA TimeAfter ==
    /\ \A a \in 1 .. Half, b \in 0 .. Half : time_after(a, b) <=> a > b
    /\ \A a \in 1 .. Half, b \in Jiffies :
           b >= 1 /\ ~time_after(a, b) => a <= b
BY LocksAssumption DEF time_after, Jiffies

\* Every step keeps the timer in charge of all locks with a timeout.
LEMMA TimerStep ==
    ASSUME NoWrap, CountInv, CountInv', TimerInv, [LocksNext]_locksVars
    PROVE  TimerInv'
<1> USE LocksAssumption DEF Jiffies, LocksTypeOK, NoWrap
<1>1. ASSUME NEW l \in Locks, hif_runtime_lock_init(l)
      PROVE  TimerInv'
  BY <1>1 DEF hif_runtime_lock_init, TimerInv, timer, clock, time_after
<1>2. ASSUME NEW l \in Locks, hif_runtime_lock_deinit(l)
      PROVE  TimerInv'
  <2>1. timeout' = timeout \ {l}
    BY <1>2, AllowSuspend DEF hif_runtime_lock_deinit
  <2> QED
    BY <1>2, <2>1 DEF hif_runtime_lock_deinit, TimerInv, timer, clock,
                      time_after
<1>3. ASSUME NEW l \in Locks, hif_pm_runtime_prevent_suspend(l)
      PROVE  TimerInv'
  BY <1>3 DEF hif_pm_runtime_prevent_suspend, TimerInv, timer, clock,
              time_after
<1>4. ASSUME NEW l \in Locks, hif_pm_runtime_allow_suspend(l)
      PROVE  TimerInv'
  <2>1. timeout' = timeout \ {l}
    BY <1>4, AllowSuspend DEF hif_pm_runtime_allow_suspend
  <2>2. StopsTimer => timeout' = {}
    <3>1. IsFiniteSet(active')
      BY LocksAssumption, FS_Subset DEF CountInv
    <3> QED
      BY <3>1, FS_EmptySet DEF StopsTimer, CountInv, HeldOnce
  <2>3. CASE StopsTimer /\ runtime_timer_expires > 0
    <3>1. timeout' = {} /\ runtime_timer_expires' = 0
      BY <1>4, <2>2, <2>3 DEF hif_pm_runtime_allow_suspend
    <3> QED
      BY <1>4, <3>1 DEF hif_pm_runtime_allow_suspend, TimerInv, clock
  <2>4. CASE ~(StopsTimer /\ runtime_timer_expires > 0)
    <3>1. UNCHANGED <<runtime_timer, runtime_timer_expires, callback, clock,
                      call, deadline>>
      BY <1>4, <2>4 DEF hif_pm_runtime_allow_suspend
    <3> QED
      BY <2>1, <3>1 DEF TimerInv, clock, time_after
  <2> QED BY <2>3, <2>4
<1>5. ASSUME NEW c \in Callers, NEW l \in Locks, NEW d \in Delays,
             ComputeExpires(c, l, d)
      PROVE  TimerInv'
  <2>1. NotZero(Wrap(jiffies + d)) = FirstJiffy + passed + d
    BY <1>5 DEF ComputeExpires, CallsGoOn, NotZero, Wrap, TimerInv, CountInv
  <2>2. FirstJiffy + passed + d <= Half
    BY <1>5 DEF ComputeExpires, CallsGoOn, CountInv
  <2> QED
    BY <1>5, <2>1, <2>2 DEF ComputeExpires, TimerInv, locks, timer, clock,
                            time_after, CountInv
<1>6. ASSUME NEW c \in Callers, hif_pm_runtime_prevent_suspend_timeout(c)
      PROVE  TimerInv'
  <2> DEFINE l == call[c].lock
             e == call[c].expires
  <2>1. /\ l \in Locks
        /\ call[c].ends \in Nat
        /\ e = FirstJiffy + call[c].ends
        /\ e \in 1 .. Half
    BY <1>6 DEF hif_pm_runtime_prevent_suspend_timeout, CountInv, TimerInv
  <2>2. /\ timeout' = timeout \cup {l}
        /\ deadline' = [deadline EXCEPT ![l] = call[c].ends]
        /\ call' = [call EXCEPT ![c] = None]
        /\ UNCHANGED <<callback, clock>>
        /\ IF time_after(e, runtime_timer_expires)
           THEN runtime_timer' = e /\ runtime_timer_expires' = e
           ELSE UNCHANGED <<runtime_timer, runtime_timer_expires>>
    BY <1>6 DEF hif_pm_runtime_prevent_suspend_timeout
  <2>3. runtime_timer_expires \in 0 .. Half
    BY DEF TimerInv, CountInv
  <2>4. time_after(e, runtime_timer_expires) <=> e > runtime_timer_expires
    BY <2>1, <2>3, TimeAfter
  <2>5. \A k \in timeout' :
            FirstJiffy + deadline'[k] <= runtime_timer_expires'
    BY <2>1, <2>2, <2>3, <2>4 DEF TimerInv, CountInv
  <2>6. /\ runtime_timer_expires' > 0
        /\ runtime_timer_expires' <= Half
        /\ \/ runtime_timer' = runtime_timer_expires'
           \/ /\ runtime_timer' = Off
              /\ callback'
              /\ ~time_after(runtime_timer_expires', jiffies')
    BY <2>1, <2>2, <2>3, <2>4 DEF TimerInv, clock, time_after
  <2>7. \A b \in Callers :
            call'[b] # None => /\ call'[b].expires = FirstJiffy + call'[b].ends
                               /\ call'[b].expires <= Half
    BY <2>2 DEF TimerInv, CountInv
  <2> HIDE DEF l, e
  <2> QED BY <2>2, <2>5, <2>6, <2>7 DEF TimerInv, clock
<1>7. CASE TimerFires
  BY <1>7 DEF TimerFires, Due, TimerInv, locks, clock, time_after
<1>8. CASE hif_pm_runtime_lock_timeout_fn
  <2>1. CASE TooEarly
    <3>1. /\ UNCHANGED <<timeout, runtime_timer_expires, runtime_timer>>
          /\ UNCHANGED <<jiffies, passed, call, deadline>>
      BY <1>8, <2>1 DEF hif_pm_runtime_lock_timeout_fn, clock
    <3>2. runtime_timer_expires > 0 => runtime_timer = runtime_timer_expires
      BY <2>1 DEF TooEarly, TimerInv
    <3> QED
      BY <3>1, <3>2 DEF TimerInv
  <2>2. CASE ~TooEarly
    <3>1. timeout' = {}
      BY <1>8, <2>2, AllowSuspend DEF hif_pm_runtime_lock_timeout_fn, CountInv
    <3> QED
      BY <1>8, <2>2, <3>1 DEF hif_pm_runtime_lock_timeout_fn, TimerInv, clock,
                              CountInv
  <2> QED BY <2>1, <2>2
<1>9. CASE Tick
  <2>1. Wrap(jiffies + 1) = FirstJiffy + passed + 1
    BY <1>9 DEF Tick, Wrap, TimerInv, CountInv
  <2> QED
    BY <1>9, <2>1 DEF Tick, TimerInv, locks, timer, CountInv
<1>10. CASE UNCHANGED locksVars
  BY <1>10 DEF locksVars, TimerInv, locks, timer, clock, time_after
<1> QED
  BY <1>1, <1>2, <1>3, <1>4, <1>5, <1>6, <1>7, <1>8, <1>9, <1>10
     DEF LocksNext, Calls, Progress

\* Without a wrap the timer is in charge in every reachable state.
LEMMA TimerInvariance == ASSUME NoWrap PROVE LocksSpec => [](CountInv /\ TimerInv)
<1>1. LocksInit => CountInv /\ TimerInv
  <2>1. LocksInit => TimerInv
    BY LocksAssumption, NoWrap DEF LocksInit, TimerInv, NoWrap, Jiffies
  <2> QED BY <2>1, CountInit
<1>2. CountInv /\ TimerInv /\ [LocksNext]_locksVars => (CountInv /\ TimerInv)'
  BY NoWrap, CountStep, TimerStep
<1> QED BY <1>1, <1>2, PTL DEF LocksSpec

\* hif_pm_runtime_prevent_suspend_timeout: as long as jiffies stay in the lower
\* half of their range, a lock with a timeout always has a timer that is set,
\* or a callback that is about to release it.
THEOREM NoOrphan == ASSUME NoWrap PROVE LocksSpec => []NoLockOrphaned
<1>1. CountInv /\ TimerInv => NoLockOrphaned
  BY LocksAssumption DEF CountInv, LocksTypeOK, TimerInv, NoLockOrphaned, Jiffies
<1> QED BY <1>1, NoWrap, TimerInvariance, PTL

\* hif_pm_runtime_lock_timeout_fn releases only locks with a timeout, and none
\* before its own end, although one timer serves them all.
THEOREM NotEarly == ASSUME NoWrap PROVE LocksSpec => NeverReleasedEarly
<1> DEFINE Fn == hif_pm_runtime_lock_timeout_fn
<1>1. ASSUME CountInv, TimerInv, Fn, NEW l \in active \ active'
      PROVE  l \in timeout /\ deadline[l] <= passed
  <2>1. ~TooEarly
    BY <1>1 DEF hif_pm_runtime_lock_timeout_fn
  <2>2. active' = active \ timeout
    BY <1>1, <2>1, AllowSuspend DEF hif_pm_runtime_lock_timeout_fn, CountInv,
                                    LocksTypeOK
  <2>3. l \in timeout /\ l \in Locks
    BY <1>1, <2>2 DEF CountInv, LocksTypeOK
  <2>4. runtime_timer_expires \in 1 .. Half
    BY <1>1, <2>3 DEF TimerInv, CountInv, LocksTypeOK, Jiffies
  <2>5. jiffies \in Jiffies /\ jiffies >= 1
    BY <1>1, NoWrap, LocksAssumption DEF TimerInv, CountInv, LocksTypeOK, NoWrap,
                                         Jiffies
  <2>6. runtime_timer_expires <= jiffies
    BY <2>1, <2>4, <2>5, TimeAfter DEF TooEarly
  <2>7. FirstJiffy + deadline[l] <= FirstJiffy + passed
    BY <1>1, <2>3, <2>4, <2>5, <2>6, LocksAssumption
       DEF TimerInv, CountInv, LocksTypeOK, Jiffies
  <2> QED
    BY <1>1, <2>3, <2>7, LocksAssumption DEF CountInv, LocksTypeOK, Jiffies
<1>2. CountInv /\ TimerInv /\ [LocksNext]_locksVars =>
          [Fn => \A l \in active \ active' :
                     l \in timeout /\ deadline[l] <= passed]_locksVars
  BY <1>1
<1> QED BY <1>2, NoWrap, TimerInvariance, PTL DEF LocksSpec, NeverReleasedEarly
=============================================================================
