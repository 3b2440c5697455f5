----------------------------- MODULE RuntimePm -----------------------------
(***************************************************************************)
(* Runtime power management of the PCI bus against the HTC transmit queue: *)
(* hif_pm_runtime_get and _put and the state they test (if_pci.c), the     *)
(* suspend and resume sequences of wlan_hdd_driver_ops.c, and the loop of  *)
(* htc_try_send that asks for a reference before it sends a message.       *)
(* The kernel's runtime-PM core is external: its status, usage count and   *)
(* resume requests are modelled as this driver uses them.                  *)
(*                                                                         *)
(* Operators named Mutant... are plausible bugs of the definition that     *)
(* follows them.                                                           *)
(***************************************************************************)
EXTENDS Integers, FiniteSets

CONSTANTS
    Senders,      \* threads in htc_send_pkt
    Kicker,       \* the worker that runs htc_kick_queues
    MaxMessages,  \* bound on the messages that are sent
    Failures,     \* the steps of the suspend sequence that may fail
    Services,     \* what the endpoint may carry: "WMI", with the suspend's own
                  \* commands among its messages, or "HTT"
    Nobody        \* no drainer

Contexts == Senders \cup {Kicker}

\* The order of the steps of __wlan_hdd_runtime_suspend that can fail.
SuspendSteps == {"link", "htc", "wma", "hif", "cnss"}

ASSUME PmAssumption ==
    /\ Kicker \notin Senders
    /\ Nobody \notin Contexts
    /\ MaxMessages \in Nat
    /\ Failures \subseteq SuspendSteps
    /\ Services \subseteq {"WMI", "HTT"}

VARIABLES
    \* the kernel: runtime status, usage count, a resume asked for while the
    \* device was suspending, a resume request
    rpm, usage_count, deferred_resume, request,
    \* the driver: HIF_PM_RUNTIME_STATE, the link, the next step of the suspend
    \* or resume sequence, the queued kicker work
    pm_state, linkUp, step, kick,
    \* the endpoint: messages in TxQueue, messages sent by callers, messages
    \* issued and not completed, the context that drains the queue, the size of
    \* the batch it has collected, and where each context is
    queue, posted, inFlight, drainer, batch, pc,
    \* the service the endpoint carries, and the puts made besides the one of
    \* each message's completion (as many as there are messages to miss them)
    service, surplus

kernel   == <<rpm, usage_count, deferred_resume, request>>
driver   == <<pm_state, linkUp, step, kick>>
endpoint == <<queue, posted, inFlight, drainer, batch, pc>>
tagged   == <<service, surplus>>
vars     == <<kernel, driver, endpoint, tagged>>

Init ==
    /\ rpm = "ACTIVE"
    /\ usage_count = 0
    /\ deferred_resume = FALSE
    /\ request = FALSE
    /\ pm_state = "ON"
    /\ linkUp = TRUE
    /\ step = "none"
    /\ kick = FALSE
    /\ queue = 0
    /\ posted = 0
    /\ inFlight = 0
    /\ drainer = Nobody
    /\ batch = 0
    /\ pc = [c \in Contexts |-> "idle"]
    /\ service \in Services
    /\ surplus = 0

Goto(c, l) == pc' = [pc EXCEPT ![c] = l]

-----------------------------------------------------------------------------
(* htc_try_send, one message at a time *)

\* LOCK_HTC_TX is held while references are taken, not while a batch is issued.
LockFree == \A c \in Contexts : pc[c] \notin {"get", "kernel_get"}

\* Append the caller's messages and drain, unless another context does.
Enter(c, n) ==
    /\ pc[c] = "idle"
    /\ LockFree
    /\ queue' = queue + n
    /\ IF drainer = Nobody
       THEN drainer' = c /\ Goto(c, "get")
       ELSE UNCHANGED <<drainer, pc>>

htc_send_pkt(c) ==
    /\ posted < MaxMessages
    /\ posted' = posted + 1
    /\ Enter(c, 1)
    /\ UNCHANGED <<kernel, driver, inFlight, batch, tagged>>

\* The work that htc_runtime_resume schedules.
htc_kick_queues ==
    /\ kick
    /\ kick' = FALSE
    /\ Enter(Kicker, 0)
    /\ UNCHANGED <<kernel, pm_state, linkUp, step, posted, inFlight, batch,
                   tagged>>

\* The pass ends: the batch is issued without the lock, or nothing was
\* collected and the drainer leaves.
EndPass(c) ==
    IF batch > 0
    THEN Goto(c, "issue") /\ UNCHANGED drainer
    ELSE Goto(c, "idle") /\ drainer' = Nobody

\* hif_pm_request_resume (external): wake a suspended device, or one that is
\* about to be.
MutantRequestResume ==
    /\ request' = (request \/ rpm = "SUSPENDED")
    /\ UNCHANGED deferred_resume
RequestResume ==
    /\ request' = (request \/ rpm = "SUSPENDED")
    /\ deferred_resume' = (deferred_resume \/ rpm = "SUSPENDING")

\* The loop of htc_try_send looks at TxQueue, the loop of the collector asks
\* for a reference before it dequeues: the last get of a pass finds no message.
QueueEmpty(c) ==
    /\ pc[c] = "get"
    /\ queue = 0 /\ batch = 0
    /\ EndPass(c)
    /\ UNCHANGED <<kernel, driver, queue, posted, inFlight, batch, tagged>>

\* First part of hif_pm_runtime_get: test pm_state.  A bus that is not on is
\* only asked to resume.
StateAllowsGet == pm_state = "ON"

TestState(c) ==
    /\ pc[c] = "get"
    /\ queue + batch > 0
    /\ StateAllowsGet
    /\ Goto(c, "kernel_get")
    /\ UNCHANGED <<kernel, driver, queue, posted, inFlight, drainer, batch,
                   tagged>>

GetRefused(c) ==
    /\ pc[c] = "get"
    /\ queue + batch > 0
    /\ ~StateAllowsGet
    /\ RequestResume
    /\ EndPass(c)
    /\ UNCHANGED <<rpm, usage_count, driver, queue, posted, inFlight, batch,
                   tagged>>

\* Second part: the kernel's get, which always counts a reference.  "The ret can
\* be -EINPROGRESS, if Runtime status is RPM_RESUMING or RPM_SUSPENDING", as the
\* driver understands the kernel; then it puts the reference back.  (A kernel
\* whose asynchronous get returns 0 while the device suspends is the mutant.)
MutantGetSucceeds == rpm # "RESUMING"
GetSucceeds == rpm \in {"ACTIVE", "SUSPENDED"}

MutantUsageAfterFailedGet == usage_count + 1
UsageAfterFailedGet == usage_count

Dequeued == queue > 0

KernelGet(c) ==
    /\ pc[c] = "kernel_get"
    /\ \/ /\ GetSucceeds
          /\ Dequeued
          /\ usage_count' = usage_count + 1
          /\ queue' = queue - 1
          /\ batch' = batch + 1
          /\ Goto(c, "get")
          /\ UNCHANGED <<request, deferred_resume, drainer>>
       \/ /\ GetSucceeds
          /\ ~Dequeued
          /\ EndPass(c)
          /\ UNCHANGED <<usage_count, queue, batch, request, deferred_resume>>
       \/ /\ ~GetSucceeds
          /\ RequestResume
          /\ usage_count' = UsageAfterFailedGet
          /\ EndPass(c)
          /\ UNCHANGED <<queue, batch>>
    /\ UNCHANGED <<rpm, driver, posted, inFlight, tagged>>

\* Messages whose reference is in the count or was put too early.
Held == batch + inFlight

Capped(n) == IF n > Held THEN Held ELSE n

\* hif_pm_runtime_put, n times: a put does nothing but warn when the count is
\* zero.
MutantUsageAfterPuts(n) == IF usage_count > n THEN usage_count - n - 1 ELSE 0
UsageAfterPuts(n) == IF usage_count > n THEN usage_count - n ELSE 0

\* htc_issue_packets hands the batch to the bus and the loop goes on.  For each
\* message tagged RUNTIME_PUT, an HTT message without a response, it makes a put
\* as soon as the bus has taken it.
Issue(c, puts) ==
    /\ pc[c] = "issue"
    /\ LockFree
    /\ service = "HTT" \/ puts = 0
    /\ inFlight' = inFlight + batch
    /\ batch' = 0
    /\ usage_count' = UsageAfterPuts(puts)
    /\ surplus' = Capped(surplus + puts)
    /\ Goto(c, "get")
    /\ UNCHANGED <<rpm, deferred_resume, request, driver, queue, posted, drainer,
                   service>>

\* Such a message of the HTT endpoint, beside an endpoint that carries WMI: its
\* get, the put when it is issued and the put of its completion.
OtherEndpointIssues ==
    /\ service = "WMI"
    /\ StateAllowsGet /\ GetSucceeds
    /\ Held > 0
    /\ usage_count' = UsageAfterPuts(1)
    /\ surplus' = Capped(surplus + 1)
    /\ UNCHANGED <<rpm, deferred_resume, request, driver, endpoint, service>>

\* htc_tx_completion_handler: a put for every completed message.
Complete ==
    /\ inFlight > 0
    /\ inFlight' = inFlight - 1
    /\ usage_count' = UsageAfterPuts(1)
    /\ surplus' = IF surplus < Held THEN surplus ELSE Held - 1
    /\ UNCHANGED <<rpm, deferred_resume, request, driver, queue, posted,
                   drainer, batch, pc, service>>

-----------------------------------------------------------------------------
(* The suspend sequence *)

\* The autosuspend delay passed and nobody holds a reference.
KernelSuspends ==
    /\ rpm = "ACTIVE"
    /\ step = "none"
    /\ usage_count = 0
    /\ rpm' = "SUSPENDING"
    /\ step' = "link"
    /\ UNCHANGED <<usage_count, deferred_resume, request, pm_state, linkUp,
                   kick, endpoint, tagged>>

SuspendNext == [link |-> "htc", htc |-> "wma", wma |-> "hif", hif |-> "cnss",
                cnss |-> "suspended"]

\* wma_runtime_suspend sends its commands through htc_send_pkt and so needs the
\* lock.  If they use this endpoint and nobody drains it, its messages are tried
\* once more: they are refused, and the bus is asked to resume.
WmaCommands ==
    /\ LockFree
    /\ IF service = "WMI" /\ queue > 0 /\ drainer = Nobody
       THEN RequestResume
       ELSE UNCHANGED <<request, deferred_resume>>

\* One step succeeds: hif_pre_runtime_suspend sets the state in the first one,
\* cnss_auto_suspend takes the link down in the last one.
SuspendStep ==
    /\ step \in SuspendSteps
    /\ step' = SuspendNext[step]
    /\ pm_state' = IF step = "link" THEN "INPROGRESS" ELSE pm_state
    /\ linkUp' = (linkUp /\ step # "cnss")
    /\ IF step = "wma"
       THEN WmaCommands
       ELSE UNCHANGED <<request, deferred_resume>>
    /\ UNCHANGED <<rpm, usage_count, kick, endpoint, tagged>>

\* A step fails: the ones done before are undone, which from resume_htc on
\* schedules the kicker, and the state is on again.
SuspendStepFails ==
    /\ step \in Failures
    /\ kick' = (kick \/ step \in {"wma", "hif", "cnss"})
    /\ step' = "failed"
    /\ UNCHANGED <<kernel, pm_state, linkUp, endpoint, tagged>>

hif_process_runtime_suspend_failure ==
    /\ step = "failed"
    /\ pm_state' = "ON"
    /\ step' = "active"
    /\ UNCHANGED <<kernel, linkUp, kick, endpoint, tagged>>

\* hif_process_runtime_suspend_success, then the kernel notes the result.
hif_process_runtime_suspend_success ==
    /\ step = "suspended"
    /\ pm_state' = "SUSPENDED"
    /\ step' = "note"
    /\ UNCHANGED <<kernel, linkUp, kick, endpoint, tagged>>

KernelSuspended ==
    /\ step = "note"
    /\ rpm' = "SUSPENDED"
    /\ step' = "none"
    /\ request' = (request \/ deferred_resume)
    /\ deferred_resume' = FALSE
    /\ UNCHANGED <<usage_count, pm_state, linkUp, kick, endpoint, tagged>>

\* After a failed suspend or a resume the device is active; a deferred resume
\* is no longer needed.
KernelActive ==
    /\ step = "active"
    /\ rpm' = "ACTIVE"
    /\ step' = "none"
    /\ deferred_resume' = FALSE
    /\ UNCHANGED <<usage_count, request, pm_state, linkUp, kick, endpoint, tagged>>

-----------------------------------------------------------------------------
(* The resume sequence: failure of one of its steps is a bug check *)

KernelResumes ==
    /\ rpm = "SUSPENDED"
    /\ request
    /\ rpm' = "RESUMING"
    /\ request' = FALSE
    /\ step' = "pre_resume"
    /\ UNCHANGED <<usage_count, deferred_resume, pm_state, linkUp, kick,
                   endpoint, tagged>>

hif_pre_runtime_resume ==
    /\ step = "pre_resume"
    /\ pm_state' = "INPROGRESS"
    /\ step' = "cnss_resume"
    /\ UNCHANGED <<kernel, linkUp, kick, endpoint, tagged>>

\* cnss_auto_resume, hif_runtime_resume and wma_runtime_resume.
cnss_auto_resume ==
    /\ step = "cnss_resume"
    /\ linkUp' = TRUE
    /\ step' = "htc_resume"
    /\ UNCHANGED <<kernel, pm_state, kick, endpoint, tagged>>

htc_runtime_resume ==
    /\ step = "htc_resume"
    /\ kick' = TRUE
    /\ step' = "resumed"
    /\ UNCHANGED <<kernel, pm_state, linkUp, endpoint, tagged>>

hif_process_runtime_resume_success ==
    /\ step = "resumed"
    /\ pm_state' = "ON"
    /\ step' = "active"
    /\ UNCHANGED <<kernel, linkUp, kick, endpoint, tagged>>

-----------------------------------------------------------------------------
Drain(c) ==
    \/ TestState(c)
    \/ GetRefused(c)
    \/ QueueEmpty(c)
    \/ KernelGet(c)
    \/ \E puts \in 0..batch : Issue(c, puts)

Sequence ==
    \/ SuspendStep
    \/ SuspendStepFails
    \/ hif_process_runtime_suspend_failure
    \/ hif_process_runtime_suspend_success
    \/ KernelSuspended
    \/ KernelActive
    \/ KernelResumes
    \/ hif_pre_runtime_resume
    \/ cnss_auto_resume
    \/ htc_runtime_resume
    \/ hif_process_runtime_resume_success

Next ==
    \/ \E c \in Senders : htc_send_pkt(c)
    \/ htc_kick_queues
    \/ \E c \in Contexts : Drain(c)
    \/ Complete
    \/ OtherEndpointIssues
    \/ KernelSuspends
    \/ Sequence

Spec == Init /\ [][Next]_vars

\* Threads, the worker and the sequences run on, and messages complete; nobody
\* has to send, and the bus need not suspend.
FairSpec ==
    /\ Spec
    /\ \A c \in Contexts : WF_vars(Drain(c))
    /\ WF_vars(htc_kick_queues)
    /\ WF_vars(Complete)
    /\ WF_vars(Sequence)

-----------------------------------------------------------------------------
(* Properties *)

\* Every variable has its type.
TypeOK ==
    /\ rpm \in {"ACTIVE", "SUSPENDING", "SUSPENDED", "RESUMING"}
    /\ usage_count \in Nat
    /\ deferred_resume \in BOOLEAN
    /\ request \in BOOLEAN
    /\ pm_state \in {"ON", "INPROGRESS", "SUSPENDED"}
    /\ linkUp \in BOOLEAN
    /\ step \in SuspendSteps \cup
                {"none", "failed", "suspended", "note", "active", "pre_resume",
                 "cnss_resume", "htc_resume", "resumed"}
    /\ kick \in BOOLEAN
    /\ queue \in Nat
    /\ posted \in Nat
    /\ inFlight \in Nat
    /\ drainer \in Contexts \cup {Nobody}
    /\ batch \in Nat
    /\ pc \in [Contexts -> {"idle", "get", "kernel_get", "issue"}]
    /\ service \in Services
    /\ surplus \in 0..Held

\* Messages hold references that no surplus put can have taken away.
SurelyHeld == Held > surplus

\* While messages in a batch or in flight hold more references than surplus puts
\* may have dropped, the suspend sequence is not under way and the link is up,
\* although the state is tested before the reference is taken and the suspend
\* may start in between.
LinkUpWhileHeld ==
    SurelyHeld => linkUp /\ rpm = "ACTIVE" /\ step = "none"

\* CDF_ASSERT(HTC_PACKET_QUEUE_DEPTH(pQueue) == 0) in both collectors: unless a
\* surplus put has dropped the batch's references, a reference is refused only
\* for the first message of a batch.
RefusedOnlyFirst ==
    \A c \in Contexts :
        batch > 0 /\ SurelyHeld =>
            /\ pc[c] = "get" => StateAllowsGet
            /\ pc[c] = "kernel_get" => GetSucceeds

\* No reference is left over, and none is missing but for the surplus puts.
ReferencesMatch == usage_count <= Held /\ Held <= usage_count + surplus

\* "A get opperation will prevent a runtime suspend untill a corresponding put
\* is done": the link is up while a message is in a batch or in flight.
GetPreventsSuspend == Held > 0 => linkUp

\* Where the kernel, pm_state and the link are in each step of the sequences.
Phases ==
    /\ step = "none" =>
           \/ rpm = "ACTIVE" /\ pm_state = "ON" /\ linkUp
           \/ rpm = "SUSPENDED" /\ pm_state = "SUSPENDED"
    /\ step = "link" => rpm = "SUSPENDING" /\ pm_state = "ON" /\ linkUp
    /\ step \in {"htc", "wma", "hif", "cnss"} =>
           rpm = "SUSPENDING" /\ pm_state = "INPROGRESS" /\ linkUp
    /\ step = "failed" => rpm = "SUSPENDING" /\ linkUp
    /\ step = "suspended" => rpm = "SUSPENDING" /\ pm_state = "INPROGRESS"
    /\ step = "note" => rpm = "SUSPENDING" /\ pm_state = "SUSPENDED"
    /\ step = "active" =>
           rpm \in {"SUSPENDING", "RESUMING"} /\ pm_state = "ON" /\ linkUp
    /\ step = "pre_resume" => rpm = "RESUMING" /\ pm_state = "SUSPENDED"
    /\ step = "cnss_resume" => rpm = "RESUMING" /\ pm_state = "INPROGRESS"
    /\ step \in {"htc_resume", "resumed"} =>
           rpm = "RESUMING" /\ pm_state = "INPROGRESS" /\ linkUp

\* A context between the test of pm_state and the kernel's get holds the HTC
\* lock, so the suspend does not get past wma_runtime_suspend: the bus may be
\* suspending by then, but it is not suspended.
GetWindow ==
    \A c \in Contexts :
        pc[c] = "kernel_get" =>
            /\ rpm # "SUSPENDED"
            /\ step \in {"none", "link", "htc", "wma", "failed", "active"}

\* The inductive invariant.
PmInv ==
    /\ TypeOK
    /\ Phases
    /\ GetWindow
    /\ ReferencesMatch
    /\ LinkUpWhileHeld

\* Nothing is on its way and no wakeup is pending.
AtRest ==
    /\ \A c \in Contexts : pc[c] = "idle"
    /\ step = "none"
    /\ inFlight = 0
    /\ ~kick
    /\ ~request

\* "The htc message queue needs to be kicked off after a runtime resume.
\* Otherwise messages would get stuck": no message is left in the queue.
QueueKicked == AtRest => queue = 0

\* A drainer that finds a message is about to be refused its reference.
Refusing(c) ==
    /\ queue + batch > 0
    /\ \/ pc[c] = "get" /\ ~StateAllowsGet
       \/ pc[c] = "kernel_get" /\ ~GetSucceeds

\* A message that is refused its reference while the bus is suspended or on its
\* way there wakes it up.  On the endpoint that carries WMI every message that
\* waits for a suspended bus does, also one that stayed behind from before.
BusWakesUp ==
    /\ \A c \in Contexts : Refusing(c) ~> rpm = "ACTIVE"
    /\ (service = "WMI" /\ pm_state = "SUSPENDED" /\ queue > 0) ~> pm_state = "ON"
=============================================================================
