------------------------------ MODULE PmLocks ------------------------------
(***************************************************************************)
(* The runtime-PM locks of if_pci.c: protocol code prevents a runtime      *)
(* suspend with a lock, for good or for a time, and one timer releases all *)
(* locks that were taken for a time.                                       *)
(*                                                                         *)
(* Time is the kernel's jiffies: a counter that wraps around, compared by  *)
(* time_after.  The timer and its callback are two steps, since the        *)
(* callback waits for runtime_lock while calls are under way.              *)
(*                                                                         *)
(* Operators named Mutant... are plausible bugs of the definition that     *)
(* follows them.                                                           *)
(***************************************************************************)
EXTENDS Integers, FiniteSets

CONSTANTS
    Locks,       \* the locks (struct hif_pm_runtime_lock)
    Callers,     \* threads that take locks for a time
    Delays,      \* timeouts longer than the autosuspend delay, in jiffies
    Half,        \* half the range of an unsigned long
    FirstJiffy,  \* jiffies in the initial state
    LastCall,    \* bound: no call starts once this many jiffies have passed
    MaxStall,    \* bound: a caller waits for runtime_lock so long past its end
    Off,         \* a timer that is not pending
    None         \* a caller that is not in a call

Jiffies == 0 .. 2 * Half - 1

ASSUME LocksAssumption ==
    /\ IsFiniteSet(Locks)
    /\ Half \in Nat \ {0}
    /\ Delays \subseteq 1 .. Half - 1
    /\ FirstJiffy \in Jiffies
    /\ LastCall \in Nat
    /\ MaxStall \in Nat
    /\ Off \notin Jiffies

VARIABLES
    live,                   \* locks that are initialised and not freed
    active,                 \* lock->active; also the prevent_suspend_list
    timeout,                \* locks with lock->timeout # 0
    prevent_suspend_cnt,
    locks_usage,            \* the kernel's count, the share of the locks
    runtime_timer_expires,  \* 0: no timeout is set
    runtime_timer,          \* when the kernel's timer is due
    callback,               \* the callback has been called and wants the lock
    jiffies,
    passed,                 \* jiffies since the start, which do not wrap
    call,                   \* what each caller computed before it has the lock
    deadline                \* the end of the time each lock was last taken for,
                            \* in jiffies since the start

locks     == <<live, active, timeout, prevent_suspend_cnt, locks_usage>>
timer     == <<runtime_timer_expires, runtime_timer, callback>>
clock     == <<jiffies, passed>>
locksVars == <<locks, timer, clock, call, deadline>>

LocksInit ==
    /\ live = {}
    /\ active = {}
    /\ timeout = {}
    /\ prevent_suspend_cnt = 0
    /\ locks_usage = 0
    /\ runtime_timer_expires = 0
    /\ runtime_timer = Off
    /\ callback = FALSE
    /\ jiffies = FirstJiffy
    /\ passed = 0
    /\ call = [c \in Callers |-> None]
    /\ deadline = [l \in Locks |-> 0]

Wrap(n) == IF n >= 2 * Half THEN n - 2 * Half ELSE n

\* The kernel's time_after: a is after b if (long)(b - a) < 0.
time_after(a, b) == (IF b >= a THEN b - a ELSE b - a + 2 * Half) >= Half

CallsGoOn == passed <= LastCall

-----------------------------------------------------------------------------
(* The two functions that change the list; runtime_lock is held *)

MutantIsHeld(l) == FALSE
IsHeld(l) == l \in active

__hif_pm_runtime_prevent_suspend(l) ==
    IF IsHeld(l)
    THEN UNCHANGED <<active, prevent_suspend_cnt, locks_usage>>
    ELSE /\ locks_usage' = locks_usage + 1
         /\ prevent_suspend_cnt' = prevent_suspend_cnt + 1
         /\ active' = active \cup {l}

\* The locks of a set that __hif_pm_runtime_allow_suspend releases when it is
\* called for each of them: not the ones that are not held, and none once the
\* count or the kernel's count is zero.
Releasable(ls) ==
    IF prevent_suspend_cnt = 0 \/ locks_usage = 0 THEN {} ELSE ls \cap active

__hif_pm_runtime_allow_suspend(ls) ==
    LET released == Releasable(ls) IN
    /\ active' = active \ released
    /\ timeout' = timeout \ released
    /\ prevent_suspend_cnt' = prevent_suspend_cnt - Cardinality(released)
    /\ locks_usage' = locks_usage - Cardinality(released)

-----------------------------------------------------------------------------
(* The interface *)

hif_runtime_lock_init(l) ==
    /\ CallsGoOn
    /\ l \notin live
    /\ live' = live \cup {l}
    /\ UNCHANGED <<active, timeout, prevent_suspend_cnt, locks_usage, timer,
                   clock, call, deadline>>

\* A lock is freed by its owner, who is in no other call with it.
hif_runtime_lock_deinit(l) ==
    /\ l \in live
    /\ \A c \in Callers : call[c] # None => call[c].lock # l
    /\ live' = live \ {l}
    /\ __hif_pm_runtime_allow_suspend({l})
    /\ UNCHANGED <<timer, clock, call, deadline>>

hif_pm_runtime_prevent_suspend(l) ==
    /\ CallsGoOn
    /\ l \in live
    /\ timeout' = timeout \ {l}
    /\ __hif_pm_runtime_prevent_suspend(l)
    /\ UNCHANGED <<live, timer, clock, call, deadline>>

\* The timer is deleted when the last lock is released; a callback that has
\* been called already cannot be stopped.
MutantStopsTimer == prevent_suspend_cnt' <= 1
StopsTimer == prevent_suspend_cnt' = 0

hif_pm_runtime_allow_suspend(l) ==
    /\ l \in live
    /\ __hif_pm_runtime_allow_suspend({l})
    /\ IF StopsTimer /\ runtime_timer_expires > 0
       THEN runtime_timer' = Off /\ runtime_timer_expires' = 0
       ELSE UNCHANGED <<runtime_timer, runtime_timer_expires>>
    /\ UNCHANGED <<live, callback, clock, call, deadline>>

\* hif_pm_runtime_prevent_suspend_timeout computes the end before it takes
\* runtime_lock; zero means that no timeout is set and is skipped.
NotZero(n) == IF n = 0 THEN 1 ELSE n

ComputeExpires(c, l, d) ==
    /\ CallsGoOn
    /\ call[c] = None
    /\ l \in live
    /\ call' = [call EXCEPT ![c] =
                   [lock    |-> l,
                    expires |-> NotZero(Wrap(jiffies + d)),
                    ends    |-> passed + d]]
    /\ UNCHANGED <<locks, timer, clock, deadline>>

hif_pm_runtime_prevent_suspend_timeout(c) ==
    /\ call[c] # None
    /\ LET l == call[c].lock
           expires == call[c].expires
       IN  /\ timeout' = timeout \cup {l}
           /\ __hif_pm_runtime_prevent_suspend(l)
           /\ deadline' = [deadline EXCEPT ![l] = call[c].ends]
           /\ IF time_after(expires, runtime_timer_expires)
              THEN runtime_timer' = expires /\ runtime_timer_expires' = expires
              ELSE UNCHANGED <<runtime_timer, runtime_timer_expires>>
    /\ call' = [call EXCEPT ![c] = None]
    /\ UNCHANGED <<live, callback, clock>>

\* The kernel's timer is due (external): the callback is called.
Due == runtime_timer # Off /\ ~time_after(runtime_timer, jiffies)

TimerFires ==
    /\ Due
    /\ runtime_timer' = Off
    /\ callback' = TRUE
    /\ UNCHANGED <<locks, runtime_timer_expires, clock, call, deadline>>

\* The callback has runtime_lock.  It may have been called too early, if the
\* timer was modified or deleted while it waited for the lock.
MutantTooEarly == FALSE
TooEarly ==
    runtime_timer_expires = 0 \/ time_after(runtime_timer_expires, jiffies)

hif_pm_runtime_lock_timeout_fn ==
    /\ callback
    /\ callback' = FALSE
    /\ IF TooEarly
       THEN UNCHANGED <<active, timeout, prevent_suspend_cnt, locks_usage,
                        runtime_timer_expires>>
       ELSE /\ runtime_timer_expires' = 0
            /\ __hif_pm_runtime_allow_suspend(timeout)
    /\ UNCHANGED <<live, runtime_timer, clock, call, deadline>>

\* Time passes (external).  A due timer is served within its jiffy, and no
\* caller waits for the lock longer than the bound; once calls have ended time
\* only passes while a timeout is running, and LastCall + Half bounds it.
Tick ==
    /\ ~Due /\ ~callback
    /\ \A c \in Callers : call[c] # None => passed < call[c].ends + MaxStall
    /\ CallsGoOn \/ timeout # {}
    /\ passed < LastCall + Half
    /\ jiffies' = Wrap(jiffies + 1)
    /\ passed' = passed + 1
    /\ UNCHANGED <<locks, timer, call, deadline>>

-----------------------------------------------------------------------------
Calls ==
    \/ \E l \in Locks :
           \/ hif_runtime_lock_init(l)
           \/ hif_runtime_lock_deinit(l)
           \/ hif_pm_runtime_prevent_suspend(l)
           \/ hif_pm_runtime_allow_suspend(l)
    \/ \E c \in Callers, l \in Locks, d \in Delays : ComputeExpires(c, l, d)

Progress ==
    \/ \E c \in Callers : hif_pm_runtime_prevent_suspend_timeout(c)
    \/ TimerFires
    \/ hif_pm_runtime_lock_timeout_fn

LocksNext == Calls \/ Progress \/ Tick

LocksSpec == LocksInit /\ [][LocksNext]_locksVars

-----------------------------------------------------------------------------
(* Properties *)

\* Every variable has its type.
LocksTypeOK ==
    /\ live \in SUBSET Locks
    /\ active \in SUBSET Locks
    /\ timeout \in SUBSET Locks
    /\ prevent_suspend_cnt \in Nat
    /\ locks_usage \in Nat
    /\ runtime_timer_expires \in Jiffies
    /\ runtime_timer \in Jiffies \cup {Off}
    /\ callback \in BOOLEAN
    /\ jiffies \in Jiffies
    /\ passed \in Nat
    /\ call \in [Callers ->
                    [lock : Locks, expires : Jiffies, ends : Nat] \cup {None}]
    /\ deadline \in [Locks -> Nat]

\* Each lock that is held counts once, whoever takes it how often and whichever
\* of the caller and the timer releases it, and only held locks have a timeout.
HeldOnce ==
    /\ prevent_suspend_cnt = Cardinality(active)
    /\ locks_usage = Cardinality(active)
    /\ timeout \subseteq active
    /\ active \subseteq live

\* A lock with a timeout is never left without a timer that will release it.
NoLockOrphaned ==
    timeout # {} => runtime_timer # Off \/ callback

\* The timer releases only locks with a timeout, and none before the end of
\* the time it was last taken for.
NeverReleasedEarly ==
    [][hif_pm_runtime_lock_timeout_fn =>
           \A l \in active \ active' :
               l \in timeout /\ deadline[l] <= passed]_locksVars

(***************************************************************************)
(* What the proofs of NoLockOrphaned and NeverReleasedEarly rest on.       *)
(***************************************************************************)

\* While calls are made no end passes the middle of the range of jiffies.
NoWrap ==
    /\ FirstJiffy >= 1
    /\ FirstJiffy + LastCall < Half
    /\ \A d \in Delays : FirstJiffy + LastCall + d <= Half

\* The timer covers every lock with a timeout: its end is not before theirs,
\* and until it has passed the timer is set, or the callback is about to see
\* that it has passed.
TimerInv ==
    /\ jiffies = FirstJiffy + passed
    /\ passed <= LastCall + Half
    /\ \A c \in Callers :
           call[c] # None => /\ call[c].expires = FirstJiffy + call[c].ends
                             /\ call[c].expires <= Half
    /\ runtime_timer_expires <= Half
    /\ timeout # {} => runtime_timer_expires > 0
    /\ \A l \in timeout : FirstJiffy + deadline[l] <= runtime_timer_expires
    /\ runtime_timer_expires > 0 =>
           \/ runtime_timer = runtime_timer_expires
           \/ /\ runtime_timer = Off
              /\ callback
              /\ ~time_after(runtime_timer_expires, jiffies)
=============================================================================
