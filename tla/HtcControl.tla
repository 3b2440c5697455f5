----------------------------- MODULE HtcControl -----------------------------
(***************************************************************************)
(* How the host and the target agree on HTC endpoints when the driver      *)
(* loads: htc_wait_target waits for the target's ready message,            *)
(* htc_connect_service asks for one service at a time over endpoint 0 and  *)
(* htc_start ends the exchange (core/htc/htc.c, htc_services.c).           *)
(*                                                                         *)
(* The receive path (htc_recv.c) runs in the tasklet of the control pipe   *)
(* and hands a response to the waiting thread through one buffer, one flag *)
(* (CtrlResponseProcessing) and one completion (ctrl_response_valid).  The *)
(* wait has a timeout, so an answer may come after its requester gave up.  *)
(* A timeout and an unexpected message are reported with CDF_BUG, which    *)
(* stops the machine in a build with PANIC_ON_BUG (Kbuild sets it) and     *)
(* only warns in one without; a load says which build it is.               *)
(*                                                                         *)
(* The target is external: it answers requests in order, with an answer of *)
(* one of the kinds in Answers.  Operators named Mutant... are plausible   *)
(* bugs of the definition that follows them.                               *)
(***************************************************************************)
EXTENDS Integers, Sequences

CONSTANTS
    Loads,          \* the ways the driver may be loaded, see load below
    Mapped,         \* services with an entry in target_service_to_ce_map
    WMI, BE, BK,    \* WMI_CONTROL_SVC, WMI_DATA_BE_SVC, WMI_DATA_BK_SVC
    TotalCredits,   \* credits in the ready message, a 16-bit field
    EndpointMax,    \* ENDPOINT_MAX
    NoService, NoEndpoint, NoMessage

Services == UNION {{l.order[i] : i \in DOMAIN l.order} : l \in Loads}
Endpoints == 0 .. EndpointMax - 1
CreditRange == 2 ^ 16           \* HTC_READY_MSG_CREDITCOUNT
AllocRange == 2 ^ 8             \* A_UINT8 CreditAllocation
CTRL == "HTC_CTRL_RSVD_SVC"

ASSUME ConnectAssumption ==
    /\ \A l \in Loads : l.order \in Seq(Services) /\ l.required \subseteq Services
    /\ \A l \in Loads : {l.epping, l.late, l.sendMayFail, l.panics} \subseteq BOOLEAN
    /\ Mapped \subseteq Services
    /\ NoService \notin Services \cup {CTRL}
    /\ CTRL \notin Services
    /\ TotalCredits \in 1 .. CreditRange - 1
    /\ EndpointMax \in Nat \ {0}
    /\ NoEndpoint \notin Nat

\* Every service is connected at one place of the load, and "there is no WMI
\* mesage exchanges between host and target in endpoint ping case" (htc.c).
ASSUME OrderAssumption ==
    \A l \in Loads :
        /\ \A i, j \in DOMAIN l.order : l.order[i] = l.order[j] => i = j
        /\ l.epping => \A i \in DOMAIN l.order : l.order[i] # WMI

VARIABLES
    host,           \* where the connecting thread is
    next,           \* index in ConnectOrder of the next or current request
    CtrlResponseProcessing,
    CtrlResponseBuffer,
    ctrl_response_valid,    \* count of the completion
    rx,             \* the receive handler: the step and the message it has
    toTarget,       \* connect requests on their way to the target
    toHost,         \* endpoint-0 messages on their way to the host
    endpoint,       \* the host's endpoint table
    callerEp,       \* the endpoint id each service's owner was given
    tgtEndpoint,    \* the target's endpoint table
    load            \* how the driver was loaded, and the target it meets

vars == <<host, next, CtrlResponseProcessing, CtrlResponseBuffer,
          ctrl_response_valid, rx, toTarget, toHost, endpoint, callerEp,
          tgtEndpoint, load>>

control == <<CtrlResponseProcessing, CtrlResponseBuffer, ctrl_response_valid>>
wires == <<rx, toTarget, toHost>>

ConnectOrder == load.order      \* the services, in the order of connection
Required == load.required       \* services without which the load fails
Epping == load.epping           \* endpoint ping: BE and BK share the credits
Answers == load.answers         \* Answers[s]: kinds of answers to a request for s
ReadyKinds == load.ready        \* the kinds of ready messages
Late == load.late               \* may an answer come after the timeout?
SendMayFail == load.sendMayFail \* may a request fail to be allocated or sent?
Panics == load.panics           \* PANIC_ON_BUG

Unused == [service |-> NoService, credits |-> 0, flow |-> TRUE]
Idle == [pc |-> "idle", msg |-> NoMessage]

\* htc_create: a zeroed HTC_TARGET; reset_endpoint_states.
reset_endpoint_states == [e \in Endpoints |-> Unused]

Init ==
    /\ load \in Loads
    /\ host = "create"
    /\ next = 1
    /\ CtrlResponseProcessing = FALSE
    /\ CtrlResponseBuffer = NoMessage
    /\ ctrl_response_valid = 0
    /\ rx = Idle
    /\ toTarget = <<>>
    /\ toHost = <<>>
    /\ endpoint = reset_endpoint_states
    /\ callerEp = [s \in Services |-> NoEndpoint]
    /\ tgtEndpoint = [e \in Endpoints |-> Unused]

\* Where the loading thread is after a CDF_BUG that finds it at h.
CDF_BUG(h) == IF Panics THEN "panic" ELSE h

Running == host # "panic"

-----------------------------------------------------------------------------
(***************************************************************************)
(* Credits.                                                                *)
(***************************************************************************)

\* htc_setup_target_buff_credit_alloc on PCI and USB.
EppingShare(credits) == credits \div 2

\* htc_get_credit_allocation over the table that
\* htc_setup_target_buffer_assignments fills; the table keeps 8 bits.
htc_get_credit_allocation(s) ==
    ( CASE s = WMI -> TotalCredits
        [] Epping /\ s \in {BE, BK} -> EppingShare(TotalCredits)
        [] OTHER -> 0 ) % AllocRange

-----------------------------------------------------------------------------
(***************************************************************************)
(* The receive path of endpoint 0 (htc_rx_completion_handler, default      *)
(* case).  One tasklet serves the control pipe.                            *)
(***************************************************************************)

\* The response is stored whether or not the last one was consumed.
MutantRxAccepts == TRUE

\* The test of the flag, made without the lock.
RxAccepts == ~CtrlResponseProcessing

\* A message arrives; while a response is being processed "this is a fatal error":
\* CDF_BUG, and the message is dropped.
RxCheck ==
    /\ rx = Idle
    /\ toHost # <<>>
    /\ toHost' = Tail(toHost)
    /\ \/ /\ RxAccepts
          /\ rx' = [pc |-> "store", msg |-> Head(toHost)]
          /\ UNCHANGED host
       \/ /\ ~RxAccepts
          /\ host' = CDF_BUG(host)
          /\ UNCHANGED rx
    /\ UNCHANGED <<next, control, toTarget, endpoint, callerEp, tgtEndpoint, load>>

\* Under the receive lock: the buffer and the flag.
RxStore ==
    /\ rx.pc = "store"
    /\ CtrlResponseBuffer' = rx.msg
    /\ CtrlResponseProcessing' = TRUE
    /\ rx' = [rx EXCEPT !.pc = "set"]
    /\ UNCHANGED <<host, next, ctrl_response_valid, toTarget, toHost, endpoint,
                   callerEp, tgtEndpoint, load>>

\* cdf_event_set on ctrl_response_valid.
RxSet ==
    /\ rx.pc = "set"
    /\ ctrl_response_valid' = ctrl_response_valid + 1
    /\ rx' = Idle
    /\ UNCHANGED <<host, next, CtrlResponseProcessing, CtrlResponseBuffer, toTarget,
                   toHost, endpoint, callerEp, tgtEndpoint, load>>

-----------------------------------------------------------------------------
(***************************************************************************)
(* The connecting thread.                                                  *)
(***************************************************************************)

Waiting == host \in {"wait_ready", "wait"}

\* hif_start has let the target run.
hif_start ==
    /\ host = "create"
    /\ host' = "wait_ready"
    /\ UNCHANGED <<next, control, wires, endpoint, callerEp, tgtEndpoint, load>>

\* htc_wait_recv_ctrl_message returns A_OK.
WaitReturns ==
    /\ Waiting
    /\ ctrl_response_valid > 0
    /\ ctrl_response_valid' = ctrl_response_valid - 1
    /\ CtrlResponseProcessing' = TRUE
    /\ host' = IF host = "wait_ready" THEN "ready" ELSE "answered"
    /\ UNCHANGED <<next, CtrlResponseBuffer, wires, endpoint, callerEp, tgtEndpoint, load>>

\* What a failed connect means to the driver's load sequence: without a
\* required service it gives up (cds_open, cds_pre_enable); the result for the
\* others is ignored (htt_pdev_alloc, hdd_wlan_startup).
AfterFailure == IF ConnectOrder[next] \in Required THEN "failed" ELSE "idle"

\* htc_wait_recv_ctrl_message times out: CDF_BUG, and if that returns the caller
\* fails.  A punctual target has answered by then, unless it never will or the
\* host has dropped its answer.
WaitTimesOut ==
    /\ Waiting
    /\ ctrl_response_valid = 0
    /\ Late \/ (rx = Idle /\ toHost = <<>> /\ toTarget = <<>>)
    /\ \/ /\ host = "wait_ready"
          /\ Late \/ "silent" \in ReadyKinds
          /\ host' = CDF_BUG("failed")
          /\ UNCHANGED next
       \/ /\ host = "wait"
          /\ host' = CDF_BUG(AfterFailure)
          /\ next' = next + 1
    /\ UNCHANGED <<control, wires, endpoint, callerEp, tgtEndpoint, load>>

\* htc_wait_target reads the ready message.  A short message, or one without
\* credits, ends the load.  Otherwise the flag is cleared and the pseudo service
\* of endpoint 0 is connected without an exchange of messages.
ParseReady ==
    /\ host = "ready"
    /\ \/ /\ CtrlResponseBuffer.kind # "ready"
          /\ host' = "failed"
          /\ UNCHANGED <<CtrlResponseProcessing, endpoint>>
       \/ /\ CtrlResponseBuffer.kind = "ready"
          /\ CtrlResponseProcessing' = FALSE
          /\ endpoint' = [endpoint EXCEPT ![0] =
                              [service |-> CTRL, credits |-> 0, flow |-> TRUE]]
          /\ host' = "idle"
    /\ UNCHANGED <<next, CtrlResponseBuffer, ctrl_response_valid, wires, callerEp,
                   tgtEndpoint, load>>

\* htc_connect_service up to its wait: the request with the credit allocation.
\* A request that cannot be allocated or sent fails the connect at once.
SendConnect ==
    /\ host = "idle"
    /\ next <= Len(ConnectOrder)
    /\ \/ /\ toTarget' = Append(toTarget,
                 [service |-> ConnectOrder[next],
                  credits |-> htc_get_credit_allocation(ConnectOrder[next])])
          /\ host' = "wait"
          /\ UNCHANGED next
       \/ /\ SendMayFail
          /\ host' = AfterFailure
          /\ next' = next + 1
          /\ UNCHANGED toTarget
    /\ UNCHANGED <<control, rx, toHost, endpoint, callerEp, tgtEndpoint, load>>

\* A refused connect leaves the response marked as being processed.
MutantRefused ==
    /\ CtrlResponseBuffer.kind = "refused"
    /\ UNCHANGED <<CtrlResponseProcessing, endpoint, callerEp>>
    /\ host' = AfterFailure

\* The target refused the service: "Keep work and not to block the control
\* message."
Refused ==
    /\ CtrlResponseBuffer.kind = "refused"
    /\ CtrlResponseProcessing' = FALSE
    /\ UNCHANGED <<endpoint, callerEp>>
    /\ host' = AfterFailure

\* The message is not a connect response or it is too short.  The flag stays.
NotAResponse ==
    /\ CtrlResponseBuffer.kind \in {"short", "ready", "nocredit"}
    /\ UNCHANGED <<CtrlResponseProcessing, endpoint, callerEp>>
    /\ host' = AfterFailure

\* The test for an endpoint in use is left out.
MutantEndpointFree(e) == e \in Endpoints

\* The parameter checks on the endpoint: it exists and no service uses it.
EndpointFree(e) == e \in Endpoints /\ endpoint[e].service = NoService

\* Set up the endpoint for the service that was asked for, then map it to its
\* pipes; if that fails the endpoint stays in use and the connect fails.
Established(e) ==
    LET s == ConnectOrder[next] IN
    /\ endpoint' = [endpoint EXCEPT ![e] =
           [service |-> s, credits |-> htc_get_credit_allocation(s),
            flow |-> s \notin Mapped \/ s = WMI]]
    /\ IF s \in Mapped
       THEN /\ callerEp' = [callerEp EXCEPT ![s] = e]
            /\ host' = "idle"
       ELSE /\ UNCHANGED callerEp
            /\ host' = AfterFailure

\* The target accepted: the buffer is released, then the parameters checked.
Accepted ==
    /\ CtrlResponseBuffer.kind \in {"ok", "empty"}
    /\ CtrlResponseProcessing' = FALSE
    /\ IF CtrlResponseBuffer.kind = "ok" /\ EndpointFree(CtrlResponseBuffer.ep)
       THEN Established(CtrlResponseBuffer.ep)
       ELSE /\ UNCHANGED <<endpoint, callerEp>>
            /\ host' = AfterFailure

\* htc_connect_service after its wait.  The response's service id is read and
\* never compared with the request's.
ParseResponse ==
    /\ host = "answered"
    /\ Refused \/ NotAResponse \/ Accepted
    /\ next' = next + 1
    /\ UNCHANGED <<CtrlResponseBuffer, ctrl_response_valid, wires, tgtEndpoint, load>>

\* htc_start: the setup-complete message needs no answer.
htc_start ==
    /\ host = "idle"
    /\ next > Len(ConnectOrder)
    /\ host' = "started"
    /\ UNCHANGED <<next, control, wires, endpoint, callerEp, tgtEndpoint, load>>

\* htc_stop: hif_stop ends reception, then the endpoint table is reset.  After a
\* failed load htc_destroy stops HIF and frees the table, to the same effect.
htc_stop ==
    /\ host \in {"failed", "started"}
    /\ host' = "stopped"
    /\ endpoint' = reset_endpoint_states
    /\ callerEp' = [s \in Services |-> NoEndpoint]
    /\ rx' = Idle
    /\ toHost' = <<>>
    /\ UNCHANGED <<next, control, toTarget, tgtEndpoint, load>>

\* htc_destroy frees the instance; the next load resets the target and creates a
\* new one (htc_create).
htc_destroy ==
    /\ host = "stopped"
    /\ host' = "create"
    /\ next' = 1
    /\ CtrlResponseProcessing' = FALSE
    /\ CtrlResponseBuffer' = NoMessage
    /\ ctrl_response_valid' = 0
    /\ rx' = Idle
    /\ toTarget' = <<>>
    /\ tgtEndpoint' = [e \in Endpoints |-> Unused]
    /\ UNCHANGED <<toHost, endpoint, callerEp, load>>

\* After a panic the machine starts again, with the target reset and the driver
\* to load.
Reboot ==
    /\ host = "panic"
    /\ host' = "create"
    /\ next' = 1
    /\ CtrlResponseProcessing' = FALSE
    /\ CtrlResponseBuffer' = NoMessage
    /\ ctrl_response_valid' = 0
    /\ rx' = Idle
    /\ toTarget' = <<>>
    /\ toHost' = <<>>
    /\ endpoint' = reset_endpoint_states
    /\ callerEp' = [s \in Services |-> NoEndpoint]
    /\ tgtEndpoint' = [e \in Endpoints |-> Unused]
    /\ UNCHANGED load

-----------------------------------------------------------------------------
(***************************************************************************)
(* The target (external).                                                  *)
(***************************************************************************)

\* It announces itself once, after hif_start.
TargetReady ==
    /\ host \in {"wait_ready", "failed"}
    /\ tgtEndpoint[0] = Unused
    /\ \E k \in ReadyKinds \ {"silent"} : toHost' = Append(toHost, [kind |-> k])
    /\ tgtEndpoint' = [tgtEndpoint EXCEPT ![0] = [Unused EXCEPT !.service = CTRL]]
    /\ UNCHANGED <<host, next, control, rx, toTarget, endpoint, callerEp, load>>

Answer(k, s, e) == [kind |-> k, service |-> s, ep |-> e]

\* An answer to the oldest request.  "ok" assigns a free endpoint, "clash" one
\* that is in use and "range" one that does not exist; "empty" has a maximal
\* message size of zero.
TargetAnswers ==
    /\ toTarget # <<>>
    /\ host # "stopped"
    /\ toTarget' = Tail(toTarget)
    /\ LET r == Head(toTarget) IN
       \E k \in Answers[r.service] :
         \/ /\ k = "ok"
            /\ \E e \in Endpoints :
                 /\ tgtEndpoint[e] = Unused
                 /\ \A f \in Endpoints : f < e => tgtEndpoint[f] # Unused
                 /\ tgtEndpoint' = [tgtEndpoint EXCEPT ![e] =
                        [service |-> r.service, credits |-> r.credits, flow |-> TRUE]]
                 /\ toHost' = Append(toHost, Answer("ok", r.service, e))
         \/ /\ k = "clash"
            /\ \E e \in Endpoints :
                 /\ tgtEndpoint[e] # Unused
                 /\ toHost' = Append(toHost, Answer("ok", r.service, e))
            /\ UNCHANGED tgtEndpoint
         \/ /\ k = "range"
            /\ toHost' = Append(toHost, Answer("ok", r.service, EndpointMax))
            /\ UNCHANGED tgtEndpoint
         \/ /\ k \in {"empty", "refused", "short"}
            /\ toHost' = Append(toHost, Answer(k, r.service, 0))
            /\ UNCHANGED tgtEndpoint
         \/ /\ k = "silent"
            /\ UNCHANGED <<toHost, tgtEndpoint>>
    /\ UNCHANGED <<host, next, control, rx, endpoint, callerEp, load>>

-----------------------------------------------------------------------------
Receive == Running /\ (RxCheck \/ RxStore \/ RxSet)
Connect == hif_start \/ WaitReturns \/ WaitTimesOut \/ ParseReady \/ SendConnect
             \/ ParseResponse \/ htc_start
Unload == htc_stop \/ htc_destroy \/ Reboot
Target == Running /\ (TargetReady \/ TargetAnswers)

Next == Receive \/ Connect \/ Unload \/ Target

Spec == Init /\ [][Next]_vars

(***************************************************************************)
(* The tasklet and the loading thread are scheduled, the timeout expires   *)
(* and the target runs; nobody has to unload the driver or to restart a    *)
(* machine that has stopped.                                               *)
(***************************************************************************)
FairSpec ==
    /\ Spec
    /\ WF_vars(Receive)
    /\ WF_vars(Connect)
    /\ WF_vars(Target)
-----------------------------------------------------------------------------
(***************************************************************************)
(* Properties.                                                             *)
(***************************************************************************)
Kinds == {"ready", "nocredit", "short", "ok", "empty", "refused"}

Messages ==
    [kind : Kinds]
      \cup [kind : Kinds, service : Services, ep : 0 .. EndpointMax]

EndpointRecords ==
    [service : Services \cup {CTRL, NoService}, credits : 0 .. AllocRange - 1,
     flow : BOOLEAN]

\* Every variable has its type; the completion of ctrl_response_valid is never
\* counted twice.
TypeOK ==
    /\ host \in {"create", "wait_ready", "ready", "idle", "wait", "answered",
                 "started", "failed", "stopped", "panic"}
    /\ next \in 1 .. Len(ConnectOrder) + 1
    /\ CtrlResponseProcessing \in BOOLEAN
    /\ CtrlResponseBuffer \in Messages \cup {NoMessage}
    /\ ctrl_response_valid \in 0 .. 1
    /\ rx \in [pc : {"store", "set"}, msg : Messages] \cup {Idle}
    /\ toTarget \in Seq([service : Services, credits : 0 .. AllocRange - 1])
    /\ toHost \in Seq(Messages)
    /\ endpoint \in [Endpoints -> EndpointRecords]
    /\ callerEp \in [Services -> Endpoints \cup {NoEndpoint}]
    /\ tgtEndpoint \in [Endpoints -> EndpointRecords]
    /\ load \in Loads

Reading == host \in {"ready", "answered"}

\* One response is handed over at a time: from the moment the receive handler
\* decides to store a response until its requester has parsed it, the buffer
\* belongs to that response and no other message is stored or signalled, also
\* when the requester timed out in between (htc_recv.c, htc_rx_completion_handler
\* against htc_wait_recv_ctrl_message).
HandOver ==
    /\ rx # Idle => ctrl_response_valid = 0 /\ ~Reading
    /\ Reading => ctrl_response_valid = 0 /\ CtrlResponseProcessing
    /\ rx.pc = "set" \/ ctrl_response_valid > 0 => CtrlResponseProcessing

NeverShort == \A s \in Services : "short" \notin Answers[s]

\* An endpoint that was given to the owner of a service stays that service's,
\* even if the target assigns it again (htc_connect_service, "endpoint already in
\* use!").
OwnersKeepEndpoints ==
    \A s \in Services :
        callerEp[s] # NoEndpoint => endpoint[callerEp[s]].service = s

\* Host and target agree on every endpoint a service's owner was given: it carries
\* that service and the same number of credits on both sides
\* (htc_connect_service).  In a build where CDF_BUG only warns they may not after a
\* late answer, since the service id of a response is not compared with the
\* request's; in the default build the timeout before it stops the machine.  In no
\* case does an owner lose its endpoint, and in none has the host handed out more credits than the target has announced: at most two endpoints
\* have any, and theirs together are not more
\* (htc_setup_target_buffer_assignments).
EndpointsAgree ==
    /\ OwnersKeepEndpoints
    /\ ~Late \/ Panics => \A s \in Services : callerEp[s] # NoEndpoint =>
           /\ tgtEndpoint[callerEp[s]].service = s
           /\ tgtEndpoint[callerEp[s]].credits = endpoint[callerEp[s]].credits
    /\ \E e, f \in Endpoints :
           /\ \A g \in Endpoints \ {e, f} : endpoint[g].credits = 0
           /\ endpoint[e].credits + (IF e = f THEN 0 ELSE endpoint[f].credits)
                  <= TotalCredits

\* A target that is punctual and accepts the services the driver cannot do
\* without, and a host that can send its requests.  Where a timeout stops the
\* machine the target has to answer the other requests too.
Obliging ==
    /\ ~Late /\ ~SendMayFail
    /\ ReadyKinds = {"ready"}
    /\ NeverShort
    /\ \A s \in Required : Answers[s] = {"ok"}
    /\ Panics => \A s \in Services : "silent" \notin Answers[s]

\* If the target accepts the required services, the load succeeds whatever happens
\* to the optional ones, and no CDF_BUG is met on the way: a refusal or an answer
\* with unusable parameters does not block the requests that follow, nor, in a
\* build without PANIC_ON_BUG, does a request that is never answered
\* (htc_connect_service, htc_wait_recv_ctrl_message, htc_start).
LoadCompletes == (host = "create" /\ Obliging) ~> (host = "started")
=============================================================================
