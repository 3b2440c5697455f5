-------------------------- MODULE HtcControlProofs --------------------------
(***************************************************************************)
(* Proofs about the HTC control exchange, for any services, endpoints and  *)
(* answers of the target, punctual or late.                                *)
(***************************************************************************)
EXTENDS HtcControl, TLAPS

\* The steps of the receive handler and of the completion.
RxPc == {"idle", "store", "set"}

\* HandOver is inductive once the completion is known to count at most one.
HandOverInv ==
    /\ ctrl_response_valid \in 0 .. 1
    /\ rx.pc \in RxPc
    /\ rx.pc = "idle" <=> rx = Idle
    /\ HandOver

\* A new instance has no response to hand over.
LEMMA HandOverInit == Init => HandOverInv
BY DEF Init, HandOverInv, HandOver, RxPc, Idle, Reading

\* The receive handler tests the flag and finds it clear only if no response is
\* pending or being read, so its store and its signal are safe.
LEMMA ReceiveStep == HandOverInv /\ Receive => HandOverInv'
<1> SUFFICES ASSUME HandOverInv, Receive PROVE HandOverInv'
  OBVIOUS
<1>1. CASE RxCheck
  <2>1. CASE RxAccepts
    <3>1. ctrl_response_valid = 0 /\ ~Reading
      BY <2>1 DEF HandOverInv, HandOver, RxAccepts
    <3>2. rx'.pc = "store" /\ rx' # Idle
      BY <1>1, <2>1 DEF RxCheck, Idle
    <3> QED
      BY <1>1, <3>1, <3>2 DEF RxCheck, control, HandOverInv, HandOver, RxPc, Reading
  <2>2. CASE ~RxAccepts
    BY <1>1, <2>2 DEF RxCheck, CDF_BUG, control, HandOverInv, HandOver, RxPc, Reading, Idle
  <2> QED
    BY <2>1, <2>2
<1>2. CASE RxStore
  <2>1. rx'.pc = "set" /\ rx' # Idle /\ CtrlResponseProcessing'
    BY <1>2 DEF RxStore, Idle
  <2> QED
    BY <1>2, <2>1 DEF RxStore, HandOverInv, HandOver, RxPc, Reading, Idle
<1>3. CASE RxSet
  BY <1>3 DEF RxSet, HandOverInv, HandOver, RxPc, Reading, Idle
<1> QED
  BY <1>1, <1>2, <1>3 DEF Receive

\* A requester consumes a response only after it was signalled, and it clears the
\* flag only for the response it has read.
LEMMA ConnectStep == HandOverInv /\ Connect => HandOverInv'
<1> SUFFICES ASSUME HandOverInv, Connect PROVE HandOverInv'
  OBVIOUS
<1> USE DEF HandOverInv, HandOver, RxPc, Reading
<1>1. CASE hif_start
  BY <1>1 DEF hif_start, control, wires
<1>2. CASE WaitReturns
  BY <1>2 DEF WaitReturns, Waiting, wires, Idle
<1>3. CASE WaitTimesOut
  BY <1>3 DEF WaitTimesOut, Waiting, AfterFailure, CDF_BUG, control, wires
<1>4. CASE ParseReady
  <2>1. rx.pc = "idle" /\ ctrl_response_valid = 0
    BY <1>4 DEF ParseReady
  <2>2. host' \in {"idle", "failed"}
    BY <1>4, Zenon DEF ParseReady
  <2> QED
    BY <1>4, <2>1, <2>2 DEF ParseReady, wires, Idle
<1>5. CASE SendConnect
  BY <1>5 DEF SendConnect, AfterFailure, control
<1>6. CASE ParseResponse
  <2>1. rx.pc = "idle" /\ ctrl_response_valid = 0
    BY <1>6 DEF ParseResponse
  <2>2. host' \in {"idle", "failed"}
    BY <1>6 DEF ParseResponse, Refused, NotAResponse, Accepted, Established, AfterFailure
  <2> QED
    BY <1>6, <2>1, <2>2 DEF ParseResponse, wires, Idle
<1>7. CASE htc_start
  BY <1>7 DEF htc_start, control, wires
<1> QED
  BY <1>1, <1>2, <1>3, <1>4, <1>5, <1>6, <1>7 DEF Connect

\* Unloading stops the receive handler first; the target touches none of this.
LEMMA OtherStep == HandOverInv /\ (Unload \/ Target \/ UNCHANGED vars) => HandOverInv'
<1> SUFFICES ASSUME HandOverInv, Unload \/ Target \/ UNCHANGED vars PROVE HandOverInv'
  OBVIOUS
<1> USE DEF HandOverInv, HandOver, RxPc, Reading
<1>1. CASE htc_stop
  BY <1>1 DEF htc_stop, control, Idle
<1>2. CASE htc_destroy
  <2>1. ctrl_response_valid' = 0 /\ host' = "create" /\ rx' = Idle
    BY <1>2 DEF htc_destroy
  <2> QED
    BY <2>1 DEF Idle
<1>6. CASE Reboot
  <2>1. ctrl_response_valid' = 0 /\ host' = "create" /\ rx' = Idle
    BY <1>6 DEF Reboot
  <2> QED
    BY <2>1 DEF Idle
<1>3. CASE TargetReady
  BY <1>3 DEF TargetReady, control
<1>4. CASE TargetAnswers
  BY <1>4 DEF TargetAnswers, control
<1>5. CASE UNCHANGED vars
  BY <1>5 DEF vars
<1> QED
  BY <1>1, <1>2, <1>3, <1>4, <1>5, <1>6 DEF Unload, Target

\* One response is handed over at a time, whatever the target answers and
\* whenever: htc_rx_completion_handler never stores into the buffer that
\* htc_connect_service or htc_wait_target is reading or is about to read.
THEOREM OneAtATime == Spec => []HandOver
<1>1. HandOverInv /\ [Next]_vars => HandOverInv'
  BY ReceiveStep, ConnectStep, OtherStep DEF Next
<1>2. HandOverInv => HandOver
  BY DEF HandOverInv
<1> QED
  BY HandOverInit, <1>1, <1>2, PTL DEF Spec

-----------------------------------------------------------------------------
(***************************************************************************)
(* Owners keep their endpoints.                                            *)
(***************************************************************************)

\* The host's side of the connections: owners hold existing endpoints, and the
\* endpoint of an owner carries the owner's service.  NoService is no service, so
\* the endpoint is not free.  There is no owner before endpoint 0 is set up.
OwnersInv ==
    /\ load \in Loads
    /\ DOMAIN endpoint = Endpoints
    /\ callerEp \in [Services -> Endpoints \cup {NoEndpoint}]
    /\ next \in Nat
    /\ next >= 1
    /\ host \in {"wait", "answered"} => next <= Len(ConnectOrder)
    /\ host \in {"stopped", "create", "wait_ready", "ready"} =>
           \A s \in Services : callerEp[s] = NoEndpoint
    /\ OwnersKeepEndpoints

\* A connect sets up a free endpoint only, for the service that was asked for.
LEMMA EstablishedOwner ==
    ASSUME OwnersInv, NEW e \in Endpoints, EndpointFree(e), Established(e),
           ConnectOrder[next] \in Services
    PROVE  /\ DOMAIN endpoint' = Endpoints
           /\ callerEp' \in [Services -> Endpoints \cup {NoEndpoint}]
           /\ OwnersKeepEndpoints'
<1> DEFINE s == ConnectOrder[next]
<1>1. /\ endpoint' = [endpoint EXCEPT ![e] =
             [service |-> s, credits |-> htc_get_credit_allocation(s),
              flow |-> s \notin Mapped \/ s = WMI]]
      /\ callerEp' = callerEp \/ callerEp' = [callerEp EXCEPT ![s] = e]
  BY Zenon DEF Established
<1>2. DOMAIN endpoint' = Endpoints /\ endpoint'[e].service = s
  BY <1>1 DEF OwnersInv
<1>3. \A f \in Endpoints \ {e} : endpoint'[f] = endpoint[f]
  BY <1>1 DEF OwnersInv
<1>4. \A t \in Services : callerEp[t] # e
  <2> SUFFICES ASSUME NEW t \in Services, callerEp[t] = e PROVE FALSE
    OBVIOUS
  <2>1. e # NoEndpoint
    BY ConnectAssumption DEF Endpoints
  <2> QED
    BY <2>1, ConnectAssumption DEF OwnersInv, OwnersKeepEndpoints, EndpointFree
<1>5. callerEp' \in [Services -> Endpoints \cup {NoEndpoint}]
  BY <1>1 DEF OwnersInv
<1>6. ASSUME NEW t \in Services, callerEp'[t] # NoEndpoint
      PROVE  endpoint'[callerEp'[t]].service = t
  <2>1. CASE callerEp'[t] = e
    BY <2>1, <1>1, <1>2, <1>4 DEF OwnersInv
  <2>2. CASE callerEp'[t] # e
    <3>1. callerEp'[t] = callerEp[t]
      BY <2>2, <1>1 DEF OwnersInv
    <3> QED
      BY <1>6, <2>2, <3>1, <1>3 DEF OwnersInv, OwnersKeepEndpoints
  <2> QED
    BY <2>1, <2>2
<1> QED
  BY <1>2, <1>5, <1>6 DEF OwnersKeepEndpoints

\* Every step keeps the owners' endpoints.
LEMMA OwnersStep == OwnersInv /\ [Next]_vars => OwnersInv'
<1> SUFFICES ASSUME OwnersInv, [Next]_vars PROVE OwnersInv'
  OBVIOUS
<1> USE ConnectAssumption
<1>0. Len(ConnectOrder) \in Nat /\ DOMAIN ConnectOrder = 1 .. Len(ConnectOrder)
  BY DEF OwnersInv, ConnectOrder
<1>a. UNCHANGED load
  BY Zenon DEF vars, Next, Receive, RxCheck, RxStore, RxSet, Connect, hif_start,
     WaitReturns, WaitTimesOut, ParseReady, SendConnect, ParseResponse, htc_start,
     Unload, htc_stop, htc_destroy, Reboot, Target, TargetReady, TargetAnswers
<1>b. ConnectOrder' = ConnectOrder
  BY <1>a DEF ConnectOrder
<1>1. CASE Receive
  <2>1. /\ host' \in {host, "panic"}
        /\ UNCHANGED <<next, endpoint, callerEp>>
    BY <1>1 DEF Receive, RxCheck, CDF_BUG, RxStore, RxSet
  <2> QED
    BY <1>a, <1>b, <2>1 DEF OwnersInv, OwnersKeepEndpoints
<1>2. CASE hif_start \/ WaitReturns \/ htc_start
  BY <1>a, <1>b, <1>2 DEF hif_start, WaitReturns, htc_start, Waiting, OwnersInv, OwnersKeepEndpoints
<1>3. CASE WaitTimesOut
  <2>1. next' \in {next, next + 1} /\ host' \in {"idle", "failed", "panic"}
    BY <1>3 DEF WaitTimesOut, AfterFailure, CDF_BUG
  <2> QED
    BY <1>a, <1>b, <1>3, <2>1 DEF WaitTimesOut, OwnersInv, OwnersKeepEndpoints
<1>4. CASE ParseReady
  <2>1. /\ host' \in {"idle", "failed"}
        /\ next' = next
        /\ callerEp' = callerEp
        /\ host = "ready"
        /\ endpoint' = endpoint \/ endpoint' = [endpoint EXCEPT ![0] =
                              [service |-> CTRL, credits |-> 0, flow |-> TRUE]]
    BY <1>4, Zenon DEF ParseReady
  <2> QED
    BY <1>a, <1>b, <2>1 DEF OwnersInv, OwnersKeepEndpoints
<1>5. CASE SendConnect
  <2>1. /\ next' \in {next, next + 1}
        /\ host' \in {"idle", "failed"} \/ (host' = "wait" /\ next' <= Len(ConnectOrder))
    BY <1>5 DEF SendConnect, AfterFailure
  <2> QED
    BY <1>a, <1>b, <1>5, <2>1 DEF SendConnect, OwnersInv, OwnersKeepEndpoints
<1>6. CASE ParseResponse
  <2>1. ConnectOrder[next] \in Services
    BY <1>0, <1>6 DEF ParseResponse, Services, OwnersInv, ConnectOrder
  <2>2. next' = next + 1 /\ host' \in {"idle", "failed"}
    BY <1>6 DEF ParseResponse, Refused, NotAResponse, Accepted, Established, AfterFailure
  <2>3. CASE UNCHANGED <<endpoint, callerEp>>
    BY <1>a, <1>b, <2>2, <2>3 DEF OwnersInv, OwnersKeepEndpoints
  <2>4. CASE ~UNCHANGED <<endpoint, callerEp>>
    <3>1. PICK e \in Endpoints : EndpointFree(e) /\ Established(e)
      BY <1>6, <2>4 DEF ParseResponse, Refused, NotAResponse, Accepted, EndpointFree
    <3> QED
      BY <1>a, <1>b, <2>1, <2>2, <3>1, EstablishedOwner DEF OwnersInv
  <2> QED
    BY <2>3, <2>4
<1>7. CASE htc_stop
  BY <1>a, <1>b, <1>7 DEF htc_stop, reset_endpoint_states, OwnersInv, OwnersKeepEndpoints
<1>8. CASE htc_destroy
  BY <1>a, <1>b, <1>8 DEF htc_destroy, OwnersInv, OwnersKeepEndpoints
<1>11. CASE Reboot
  BY <1>a, <1>b, <1>11 DEF Reboot, reset_endpoint_states, OwnersInv, OwnersKeepEndpoints
<1>9. CASE Target
  BY <1>a, <1>b, <1>9 DEF Target, TargetReady, TargetAnswers, OwnersInv, OwnersKeepEndpoints
<1>10. CASE UNCHANGED vars
  BY <1>a, <1>b, <1>10 DEF vars, OwnersInv, OwnersKeepEndpoints
<1> QED
  BY <1>1, <1>2, <1>3, <1>4, <1>5, <1>6, <1>7, <1>8, <1>9, <1>10, <1>11
     DEF Next, Connect, Unload

\* Whatever endpoints the target assigns, also one twice or one that does not
\* exist, a service's owner keeps the endpoint that htc_connect_service gave it
\* until the driver is unloaded.
THEOREM OwnersKeep == Spec => []OwnersKeepEndpoints
<1>1. Init => OwnersInv
  BY ConnectAssumption DEF Init, OwnersInv, OwnersKeepEndpoints, reset_endpoint_states
<1>2. OwnersInv => OwnersKeepEndpoints
  BY DEF OwnersInv
<1> QED
  BY <1>1, <1>2, OwnersStep, PTL DEF Spec
-----------------------------------------------------------------------------
(***************************************************************************)
(* The host does not hand out more credits than there are.                 *)
(***************************************************************************)

\* The table is empty before the ready message is read and after the unload.
Early == {"stopped", "create", "wait_ready", "ready"}

\* An endpoint has what its service was allocated; services in the table were
\* connected before the current request, each at one endpoint.
SharesInv ==
    /\ \A e \in Endpoints :
           /\ endpoint[e].service \in Services \cup {CTRL, NoService}
           /\ endpoint[e].service \notin Services => endpoint[e].credits = 0
           /\ \A s \in Services : endpoint[e].service = s =>
                  /\ endpoint[e].credits = htc_get_credit_allocation(s)
                  /\ \E i \in DOMAIN ConnectOrder : i < next /\ ConnectOrder[i] = s
    /\ \A e, f \in Endpoints :
           endpoint[e].service \in Services /\ endpoint[e].service = endpoint[f].service
               => e = f
    /\ host \in Early => \A e \in Endpoints : endpoint[e] = Unused

\* At most two endpoints have credits, and these do not exceed the target's.
CreditsFit ==
    \E e, f \in Endpoints :
        /\ \A g \in Endpoints \ {e, f} : endpoint[g].credits = 0
        /\ endpoint[e].credits + (IF e = f THEN 0 ELSE endpoint[f].credits)
               <= TotalCredits

\* The way the driver was loaded does not change, nor does the table of
\* allocations that follows from it.
LEMMA LoadKept ==
    [Next]_vars => /\ UNCHANGED load
                   /\ UNCHANGED ConnectOrder
                   /\ \A s : htc_get_credit_allocation(s)' = htc_get_credit_allocation(s)
<1> SUFFICES ASSUME [Next]_vars
             PROVE  /\ UNCHANGED load
                    /\ UNCHANGED ConnectOrder
                    /\ \A s : htc_get_credit_allocation(s)' = htc_get_credit_allocation(s)
  OBVIOUS
<1>1. UNCHANGED load
  BY Zenon DEF vars, Next, Receive, RxCheck, RxStore, RxSet, Connect, hif_start,
     WaitReturns, WaitTimesOut, ParseReady, SendConnect, ParseResponse, htc_start,
     Unload, htc_stop, htc_destroy, Reboot, Target, TargetReady, TargetAnswers
<1>2. UNCHANGED ConnectOrder /\ UNCHANGED Epping
  BY <1>1 DEF ConnectOrder, Epping
<1>3. \A s : htc_get_credit_allocation(s)' = htc_get_credit_allocation(s)
  BY <1>2, Zenon DEF htc_get_credit_allocation
<1> QED
  BY <1>1, <1>2, <1>3

\* The table keeps eight bits.
LEMMA AllocationRange ==
    \A s : htc_get_credit_allocation(s) \in 0 .. AllocRange - 1
<1> SUFFICES ASSUME NEW s PROVE htc_get_credit_allocation(s) \in 0 .. AllocRange - 1
  OBVIOUS
<1>1. PICK n : n = ( CASE s = WMI -> TotalCredits
                       [] Epping /\ s \in {BE, BK} -> EppingShare(TotalCredits)
                       [] OTHER -> 0 )
  OBVIOUS
<1>2. n \in Nat
  BY <1>1, ConnectAssumption DEF EppingShare, CreditRange
<1>3. htc_get_credit_allocation(s) = n % AllocRange
  BY <1>1 DEF htc_get_credit_allocation
<1> QED
  BY <1>2, <1>3 DEF AllocRange

\* The host's table changes in three ways: it is reset, endpoint 0 is set up, or
\* the endpoint that a response names.
LEMMA TableSteps ==
    ASSUME [Next]_vars, OwnersInv
    PROVE  \/ UNCHANGED endpoint /\ next' >= next /\ (host' \in Early => host \in Early)
           \/ endpoint' = reset_endpoint_states
           \/ /\ host = "ready" /\ host' = "idle" /\ next' = next
              /\ endpoint' = [endpoint EXCEPT ![0] =
                                  [service |-> CTRL, credits |-> 0, flow |-> TRUE]]
           \/ /\ host = "answered" /\ next' = next + 1 /\ host' \in {"idle", "failed"}
              /\ CtrlResponseBuffer.kind = "ok"
              /\ EndpointFree(CtrlResponseBuffer.ep) /\ Established(CtrlResponseBuffer.ep)
           \/ host = "stopped" /\ host' = "create" /\ UNCHANGED endpoint
<1> USE DEF Early
<1>0. next \in Nat
  BY DEF OwnersInv
<1>1. CASE Receive
  BY <1>0, <1>1 DEF Receive, RxCheck, CDF_BUG, RxStore, RxSet
<1>2. CASE hif_start \/ WaitReturns \/ htc_start \/ WaitTimesOut \/ SendConnect
  BY <1>0, <1>2 DEF hif_start, WaitReturns, Waiting, htc_start, WaitTimesOut, SendConnect,
     AfterFailure, CDF_BUG
<1>3. CASE ParseReady
  <2>1. next' = next /\ host = "ready"
    BY <1>3, Zenon DEF ParseReady
  <2>2. CASE CtrlResponseBuffer.kind = "ready"
    BY <1>3, <2>1, <2>2, Zenon DEF ParseReady
  <2>3. CASE CtrlResponseBuffer.kind # "ready"
    <3>1. UNCHANGED endpoint
      BY <1>3, <2>3, Zenon DEF ParseReady
    <3> QED
      BY <3>1, <2>1, <1>0
  <2> QED
    BY <2>2, <2>3
<1>4. CASE ParseResponse
  <2>1. host = "answered" /\ next' = next + 1
    BY <1>4 DEF ParseResponse
  <2>2. \/ UNCHANGED endpoint
        \/ /\ CtrlResponseBuffer.kind = "ok"
           /\ EndpointFree(CtrlResponseBuffer.ep) /\ Established(CtrlResponseBuffer.ep)
    BY <1>4, Zenon DEF ParseResponse, Refused, NotAResponse, Accepted
  <2>3. next' >= next
    BY <2>1, <1>0
  <2>4. host' \in {"idle", "failed"}
    BY <1>4 DEF ParseResponse, Refused, NotAResponse, Accepted, Established, AfterFailure
  <2> QED
    BY <2>1, <2>2, <2>3, <2>4
<1>5. CASE Unload
  BY <1>0, <1>5 DEF Unload, htc_stop, htc_destroy, Reboot
<1>6. CASE Target
  BY <1>0, <1>6 DEF Target, TargetReady, TargetAnswers
<1>7. CASE UNCHANGED vars
  BY <1>0, <1>7 DEF vars
<1> QED
  BY <1>1, <1>2, <1>3, <1>4, <1>5, <1>6, <1>7 DEF Next, Connect

\* A step gives credits only to a free endpoint, and those of a service that has
\* none yet.
LEMMA SharesStep == OwnersInv /\ SharesInv /\ [Next]_vars => SharesInv'
<1> SUFFICES ASSUME OwnersInv, SharesInv, [Next]_vars PROVE SharesInv'
  OBVIOUS
<1> DEFINE Shared(e) ==
       /\ endpoint[e].service \in Services \cup {CTRL, NoService}
       /\ endpoint[e].service \notin Services => endpoint[e].credits = 0
       /\ \A s \in Services : endpoint[e].service = s =>
              /\ endpoint[e].credits = htc_get_credit_allocation(s)
              /\ \E i \in DOMAIN ConnectOrder : i < next /\ ConnectOrder[i] = s
<1> USE ConnectAssumption
<1>a. /\ ConnectOrder' = ConnectOrder
      /\ \A s : htc_get_credit_allocation(s)' = htc_get_credit_allocation(s)
  BY LoadKept
<1>b. /\ next \in Nat /\ DOMAIN endpoint = Endpoints
      /\ ConnectOrder \in Seq(Services) /\ 0 \in Endpoints
      /\ DOMAIN ConnectOrder = 1 .. Len(ConnectOrder)
  BY DEF OwnersInv, ConnectOrder, Endpoints
<1>c. \A e \in Endpoints : Shared(e)
  BY DEF SharesInv
<1>d. \A e, f \in Endpoints :
           endpoint[e].service \in Services /\ endpoint[e].service = endpoint[f].service
               => e = f
  BY DEF SharesInv
<1>1. CASE UNCHANGED endpoint /\ next' >= next /\ (host' \in Early => host \in Early)
  <2>1. next' \in Nat \/ next' \in Int
    BY <1>b, OwnersStep DEF OwnersInv
  <2>2. ASSUME NEW e \in Endpoints, NEW s \in Services, endpoint'[e].service = s
        PROVE  /\ endpoint'[e].credits = htc_get_credit_allocation(s)'
               /\ \E i \in DOMAIN ConnectOrder' : i < next' /\ ConnectOrder'[i] = s
    BY <1>1, <1>a, <1>b, <1>c, <2>1, <2>2
  <2> QED
    BY <1>1, <1>a, <1>c, <1>d, <2>2 DEF SharesInv
<1>2. CASE endpoint' = reset_endpoint_states \/ (host = "stopped" /\ UNCHANGED endpoint)
  <2>1. \A e \in Endpoints : endpoint'[e] = Unused
    BY <1>2 DEF reset_endpoint_states, SharesInv, Early
  <2>2. \A e \in Endpoints : endpoint'[e].service = NoService /\ endpoint'[e].credits = 0
    BY <2>1 DEF Unused
  <2> QED
    BY <2>1, <2>2 DEF SharesInv
<1>3. ASSUME NEW e \in Endpoints, NEW s \in Services \cup {CTRL}, NEW c, NEW fl,
             endpoint' = [endpoint EXCEPT ![e] =
                              [service |-> s, credits |-> c, flow |-> fl]],
             s = CTRL => c = 0,
             s # CTRL => c = htc_get_credit_allocation(s)
                         /\ next \in DOMAIN ConnectOrder /\ ConnectOrder[next] = s,
             next' = next + 1 \/ (next' = next /\ s = CTRL),
             host' \notin Early
      PROVE  SharesInv'
  <2>1. endpoint'[e].service = s /\ endpoint'[e].credits = c
    BY <1>3, <1>b
  <2>2. \A f \in Endpoints \ {e} : endpoint'[f] = endpoint[f]
    BY <1>3, <1>b
  <2>3. s # CTRL => \A f \in Endpoints : endpoint[f].service # s
    <3> SUFFICES ASSUME s # CTRL, NEW f \in Endpoints, endpoint[f].service = s
                 PROVE  FALSE
      OBVIOUS
    <3>1. PICK i \in DOMAIN ConnectOrder : i < next /\ ConnectOrder[i] = s
      BY <1>c
    <3>2. load \in Loads
      BY DEF OwnersInv
    <3> QED
      BY <1>3, <1>b, <3>1, <3>2, OrderAssumption DEF ConnectOrder
  <2>4. ASSUME NEW f \in Endpoints
        PROVE  /\ endpoint'[f].service \in Services \cup {CTRL, NoService}
               /\ endpoint'[f].service \notin Services => endpoint'[f].credits = 0
    BY <1>c, <1>3, <2>1, <2>2
  <2>5. ASSUME NEW f \in Endpoints, NEW t \in Services, endpoint'[f].service = t
        PROVE  /\ endpoint'[f].credits = htc_get_credit_allocation(t)'
               /\ \E i \in DOMAIN ConnectOrder' : i < next' /\ ConnectOrder'[i] = t
    <3>1. CASE f = e
      BY <3>1, <1>a, <1>b, <1>3, <2>1, <2>5
    <3>2. CASE f # e
      BY <3>2, <1>a, <1>b, <1>c, <1>3, <2>2, <2>5
    <3> QED
      BY <3>1, <3>2
  <2>6. ASSUME NEW f \in Endpoints, NEW g \in Endpoints,
               endpoint'[f].service \in Services, endpoint'[f].service = endpoint'[g].service
        PROVE  f = g
    BY <1>d, <2>1, <2>2, <2>3, <2>6
  <2> QED
    BY <1>3, <2>4, <2>5, <2>6 DEF SharesInv
<1>4. CASE /\ host = "ready" /\ host' = "idle" /\ next' = next
           /\ endpoint' = [endpoint EXCEPT ![0] =
                               [service |-> CTRL, credits |-> 0, flow |-> TRUE]]
  BY <1>3, <1>4, <1>b DEF Early
<1>5. CASE /\ host = "answered" /\ next' = next + 1 /\ host' \in {"idle", "failed"}
           /\ EndpointFree(CtrlResponseBuffer.ep) /\ Established(CtrlResponseBuffer.ep)
  <2>1. PICK e \in Endpoints : e = CtrlResponseBuffer.ep
    BY <1>5 DEF EndpointFree
  <2>2. next \in DOMAIN ConnectOrder
    BY <1>5, <1>b DEF OwnersInv
  <2>3. PICK s \in Services : s = ConnectOrder[next]
    BY <2>2, <1>b
  <2>4. PICK fl : endpoint' = [endpoint EXCEPT ![e] =
                     [service |-> s, credits |-> htc_get_credit_allocation(s), flow |-> fl]]
    BY <1>5, <2>1, <2>3, Zenon DEF Established
  <2>5. s # CTRL /\ host' \notin Early
    BY <1>5 DEF Early
  <2> QED
    BY <1>3, <1>5, <2>2, <2>3, <2>4, <2>5
<1> QED
  BY TableSteps, <1>1, <1>2, <1>4, <1>5

\* WMI is given all credits; with endpoint ping BE and BK get half of them each,
\* rounded down, and WMI is not connected.  Eight bits of a count are not more
\* than the count.
LEMMA SharesFit == OwnersInv /\ SharesInv => CreditsFit
<1> SUFFICES ASSUME OwnersInv, SharesInv PROVE CreditsFit
  OBVIOUS
<1> USE ConnectAssumption
<1> DEFINE At(s) == IF \E e \in Endpoints : s \in Services /\ endpoint[e].service = s
                    THEN CHOOSE e \in Endpoints : endpoint[e].service = s ELSE 0
           All == TotalCredits % AllocRange
           Half == EppingShare(TotalCredits) % AllocRange
<1>0. 0 \in Endpoints /\ load \in Loads /\ ConnectOrder \in Seq(Services)
  BY DEF Endpoints, OwnersInv, ConnectOrder
<1>1. /\ All \in Nat /\ All <= TotalCredits
      /\ Half \in Nat /\ Half + Half <= TotalCredits
  BY DEF AllocRange, CreditRange, EppingShare
<1>2. ASSUME NEW s, NEW e \in Endpoints, s \in Services, endpoint[e].service = s
      PROVE  e = At(s)
  BY <1>2 DEF SharesInv
<1>3. \A s : At(s) \in Endpoints
  BY <1>0
<1>4. ASSUME NEW e \in Endpoints
      PROVE  /\ endpoint[e].credits \in Nat
             /\ ~Epping => endpoint[e].credits <= All
             /\ Epping => endpoint[e].credits <= Half
             /\ ~Epping => endpoint[e].credits = 0 \/ e = At(WMI)
             /\ Epping => endpoint[e].credits = 0 \/ e = At(BE) \/ e = At(BK)
  <2>1. CASE endpoint[e].service \notin Services
    BY <1>1, <2>1 DEF SharesInv
  <2>2. CASE endpoint[e].service \in Services
    <3>1. PICK s \in Services : s = endpoint[e].service
      BY <2>2
    <3>2. /\ endpoint[e].credits = htc_get_credit_allocation(s)
          /\ \E i \in DOMAIN ConnectOrder : ConnectOrder[i] = s
      BY <3>1 DEF SharesInv
    <3>3. Epping => s # WMI
      BY <3>2, <1>0, OrderAssumption DEF ConnectOrder, Epping
    <3>4. e = At(s)
      BY <1>2, <3>1
    <3>5. 0 % AllocRange = 0
      BY DEF AllocRange
    <3>6. s = WMI => htc_get_credit_allocation(s) = All
      <4>1. s = WMI => ( CASE s = WMI -> TotalCredits
                           [] Epping /\ s \in {BE, BK} -> EppingShare(TotalCredits)
                           [] OTHER -> 0 ) = TotalCredits
        BY <3>3
      <4> QED
        BY <4>1 DEF htc_get_credit_allocation
    <3>7. s # WMI /\ Epping /\ s \in {BE, BK} => htc_get_credit_allocation(s) = Half
      BY DEF htc_get_credit_allocation
    <3>8. s # WMI /\ ~(Epping /\ s \in {BE, BK}) => htc_get_credit_allocation(s) = 0
      BY <3>5 DEF htc_get_credit_allocation
    <3> HIDE DEF At, All, Half
    <3> QED
      BY <3>2, <3>3, <3>4, <3>6, <3>7, <3>8, <1>1
  <2> QED
    BY <2>1, <2>2
<1> HIDE DEF At, All, Half
<1>5. CASE ~Epping
  <2>1. PICK e \in Endpoints : e = At(WMI)
    BY <1>3
  <2>2. \A g \in Endpoints \ {e, e} : endpoint[g].credits = 0
    BY <1>4, <1>5, <2>1
  <2>3. endpoint[e].credits + (IF e = e THEN 0 ELSE endpoint[e].credits) <= TotalCredits
    BY <1>1, <1>4, <1>5
  <2> QED
    BY <2>2, <2>3 DEF CreditsFit
<1>6. CASE Epping
  <2>1. PICK e \in Endpoints, f \in Endpoints : e = At(BE) /\ f = At(BK)
    BY <1>3
  <2>2. \A g \in Endpoints \ {e, f} : endpoint[g].credits = 0
    BY <1>4, <1>6, <2>1
  <2>3. endpoint[e].credits + (IF e = f THEN 0 ELSE endpoint[f].credits) <= TotalCredits
    <3>1. /\ endpoint[e].credits \in Nat /\ endpoint[e].credits <= Half
          /\ endpoint[f].credits \in Nat /\ endpoint[f].credits <= Half
      BY <1>4, <1>6
    <3> QED
      BY <1>1, <3>1
  <2> QED
    BY <2>2, <2>3 DEF CreditsFit
<1> QED
  BY <1>5, <1>6
-----------------------------------------------------------------------------
(***************************************************************************)
(* Host and target agree if the target is punctual.                        *)
(***************************************************************************)

\* An endpoint is in use, on the host's side and on the target's.
HostUses(e) == endpoint[e].service # NoService
TargetUses(e) == tgtEndpoint[e].service # NoService

\* The request under way, and what makes a response to it good: if the host is
\* going to set up the endpoint it names, the target has done so, for the same
\* service and with the credits that were asked for.  The target uses no endpoint
\* but that one that the host does not use.
Request == [service |-> ConnectOrder[next],
            credits |-> htc_get_credit_allocation(ConnectOrder[next])]
Usable(m) == m.kind = "ok" /\ m.ep \in Endpoints /\ ~HostUses(m.ep)
Good(m) ==
    /\ Usable(m) => /\ tgtEndpoint[m.ep].service = ConnectOrder[next]
                    /\ tgtEndpoint[m.ep].credits
                           = htc_get_credit_allocation(ConnectOrder[next])
    /\ \A e \in Endpoints : TargetUses(e) => HostUses(e) \/ (Usable(m) /\ e = m.ep)
Same == \A e \in Endpoints : TargetUses(e) => HostUses(e)

\* Nothing is on its way in either direction.
Quiet == toTarget = <<>> /\ toHost = <<>> /\ rx = Idle /\ ctrl_response_valid = 0

\* After a message that is no response the flag stays set: nothing is accepted any
\* more, and no endpoint set up.
Stuck == CtrlResponseProcessing /\ rx = Idle /\ ctrl_response_valid = 0 /\ ~Reading

\* One request is under way at most: it is on its way to the target, or its
\* response is on its way, in the receive handler or signalled; or neither, after
\* silence.
OneUnderWay ==
    \/ /\ toTarget = <<Request>> /\ toHost = <<>> /\ rx = Idle
       /\ ctrl_response_valid = 0 /\ Same
    \/ /\ toTarget = <<>> /\ rx = Idle /\ ctrl_response_valid = 0
       /\ \E m \in Messages : toHost = <<m>> /\ Good(m)
    \/ /\ toTarget = <<>> /\ toHost = <<>> /\ ctrl_response_valid = 0
       /\ rx.pc = "store" /\ Good(rx.msg)
    \/ /\ toTarget = <<>> /\ toHost = <<>> /\ ctrl_response_valid = 0
       /\ rx.pc = "set" /\ Good(CtrlResponseBuffer)
    \/ /\ toTarget = <<>> /\ toHost = <<>> /\ rx = Idle
       /\ ctrl_response_valid = 1 /\ Good(CtrlResponseBuffer)
    \/ Quiet /\ Same

\* The ready message is the only one before the first request.
ReadyUnderWay ==
    /\ toTarget = <<>>
    /\ \A e \in Endpoints \ {0} : ~TargetUses(e)
    /\ \/ Quiet
       \/ /\ TargetUses(0) /\ rx = Idle /\ ctrl_response_valid = 0
          /\ \E k \in ReadyKinds : toHost = <<[kind |-> k]>>
       \/ TargetUses(0) /\ rx # Idle /\ ctrl_response_valid = 0 /\ toHost = <<>>
       \/ TargetUses(0) /\ rx = Idle /\ ctrl_response_valid = 1 /\ toHost = <<>>

\* Owners and target agree.
Agreed ==
    \A s \in Services : callerEp[s] # NoEndpoint =>
        /\ tgtEndpoint[callerEp[s]].service = s
        /\ tgtEndpoint[callerEp[s]].credits = endpoint[callerEp[s]].credits

\* The target's table and what was asked of it.
TargetInv ==
    /\ DOMAIN tgtEndpoint = Endpoints
    /\ \A e \in Endpoints : tgtEndpoint[e] = Unused \/ TargetUses(e)
    /\ toTarget \in Seq([service : Services, credits : 0 .. AllocRange - 1])
    /\ Agreed

\* What is on its way, by where the host is.
WayInv ==
    /\ host = "create" => Quiet /\ \A e \in Endpoints : ~TargetUses(e)
    /\ host = "stopped" => toHost = <<>> /\ rx = Idle
    /\ host = "wait_ready" => ReadyUnderWay
    /\ host = "ready" => Quiet /\ TargetUses(0) /\ \A e \in Endpoints \ {0} : ~TargetUses(e)
    /\ host \in {"idle", "wait", "answered", "started"} =>
           \A e \in Endpoints : HostUses(e) => TargetUses(e)
    /\ host \in {"idle", "started"} => Stuck \/ (Quiet /\ Same)
    /\ host = "wait" => Stuck \/ OneUnderWay
    /\ host = "answered" => Quiet /\ Good(CtrlResponseBuffer)

HostPcs == {"create", "wait_ready", "ready", "idle", "wait", "answered",
            "started", "failed", "stopped", "panic"}

AgreeInv == host \in HostPcs /\ TargetInv /\ WayInv

\* The receive handler moves a message on, or drops it if the flag is stuck.
LEMMA AgreeReceive ==
    ASSUME HandOverInv, AgreeInv, Receive, UNCHANGED ConnectOrder, UNCHANGED ReadyKinds,
           \A s : htc_get_credit_allocation(s)' = htc_get_credit_allocation(s)
    PROVE  AgreeInv'
<1>p. /\ UNCHANGED <<next, toTarget, endpoint, callerEp, tgtEndpoint>>
      /\ host' \in {host, "panic"}
      /\ host # "panic"
  BY DEF Receive, Running, RxCheck, CDF_BUG, RxStore, RxSet
<1>q. CASE host' = "panic"
  BY <1>p, <1>q DEF AgreeInv, TargetInv, Agreed, TargetUses, WayInv, HostPcs
<1> SUFFICES ASSUME host' # "panic" PROVE AgreeInv'
  BY <1>q
<1>0. UNCHANGED <<host, next, toTarget, endpoint, callerEp, tgtEndpoint>>
  BY <1>p
<1>1. TargetInv'
  BY <1>0 DEF AgreeInv, TargetInv, Agreed, TargetUses
<1>2. /\ \A e : HostUses(e)' <=> HostUses(e)
      /\ \A e : TargetUses(e)' <=> TargetUses(e)
      /\ Same' <=> Same
  BY <1>0 DEF HostUses, TargetUses, Same
<1>3. \A m : Good(m)' <=> Good(m)
  BY <1>0, <1>2 DEF Good, Usable
<1>4. UNCHANGED Reading
  BY <1>0 DEF Reading
<1>5. host \in HostPcs /\ host' \in HostPcs /\ WayInv
  BY <1>0 DEF AgreeInv
<1>6. /\ rx = Idle => RxCheck
      /\ rx.pc = "store" => RxStore
      /\ rx.pc = "set" => RxSet
      /\ rx = Idle \/ rx.pc = "store" \/ rx.pc = "set"
      /\ Idle.pc = "idle"
  BY DEF Receive, RxCheck, RxStore, RxSet, Idle, HandOverInv, RxPc
<1>7. CASE host = "failed"
  BY <1>0, <1>1, <1>5, <1>7 DEF AgreeInv, WayInv
<1>8. CASE Quiet \/ (host = "stopped" /\ toHost = <<>> /\ rx = Idle)
  BY <1>8, <1>6 DEF Quiet, RxCheck
<1>9. CASE Stuck
  <2>1. RxCheck
    BY <1>6, <1>9 DEF Stuck
  <2>2. rx' = Idle /\ UNCHANGED <<CtrlResponseProcessing, ctrl_response_valid>>
    BY <2>1, <1>9 DEF RxCheck, control, Stuck, RxAccepts
  <2>3. Stuck'
    BY <2>2, <1>9, <1>4 DEF Stuck
  <2>4. toHost # <<>>
    BY <2>1 DEF RxCheck
  <2>5. host \notin {"create", "ready", "stopped", "answered"}
    BY <2>4, <1>5 DEF WayInv, Quiet
  <2>6. CASE host # "wait_ready"
    BY <2>3, <2>5, <2>6, <1>0, <1>1, <1>2, <1>5 DEF AgreeInv, WayInv
  <2>7. CASE host = "wait_ready"
    <3>1. toHost' = <<>> /\ Quiet'
      BY <2>1, <2>2, <2>4, <2>7, <1>0, <1>5, <1>9
         DEF WayInv, ReadyUnderWay, Quiet, RxCheck, Stuck
    <3> QED
      BY <3>1, <2>7, <1>0, <1>1, <1>2, <1>5 DEF AgreeInv, WayInv, ReadyUnderWay
  <2> QED
    BY <2>6, <2>7
<1>10. CASE host = "wait_ready" /\ ~Quiet
  <2>1. ReadyUnderWay /\ TargetUses(0)
    BY <1>10, <1>5 DEF WayInv, ReadyUnderWay
  <2>2. CASE RxCheck
    <3>1. PICK k : toHost = <<[kind |-> k]>>
      BY <2>1, <2>2, <1>10 DEF ReadyUnderWay, RxCheck
    <3>2. toHost' = <<>> /\ ctrl_response_valid' = 0
      BY <2>1, <2>2, <3>1, <1>10 DEF ReadyUnderWay, RxCheck, control
    <3> QED
      BY <3>2, <2>1, <1>10, <1>0, <1>1, <1>2, <1>5
         DEF AgreeInv, WayInv, ReadyUnderWay, Quiet
  <2>3. CASE RxStore
    <3>1. /\ toHost' = toHost /\ toHost = <<>>
          /\ ctrl_response_valid' = 0 /\ rx' # Idle
      BY <2>1, <2>3, <1>10, <1>6 DEF ReadyUnderWay, RxStore, Quiet, Idle
    <3> QED
      BY <3>1, <2>1, <1>10, <1>0, <1>1, <1>2, <1>5
         DEF AgreeInv, WayInv, ReadyUnderWay, Quiet
  <2>4. CASE RxSet
    <3>1. /\ toHost' = toHost /\ toHost = <<>>
          /\ ctrl_response_valid' = 1 /\ rx' = Idle
      BY <2>1, <2>4, <1>10, <1>6 DEF ReadyUnderWay, RxSet, Quiet
    <3> QED
      BY <3>1, <2>1, <1>10, <1>0, <1>1, <1>2, <1>5
         DEF AgreeInv, WayInv, ReadyUnderWay, Quiet
  <2> QED
    BY <2>2, <2>3, <2>4 DEF Receive
<1>11. CASE host = "wait" /\ OneUnderWay /\ ~Stuck /\ ~Quiet
  <2>1. OneUnderWay' \/ Stuck'
    <3>1. CASE RxCheck
      <4>1. PICK m \in Messages : toHost = <<m>> /\ Good(m)
        BY <3>1, <1>11, <1>6 DEF OneUnderWay, RxCheck, Quiet
      <4>2. /\ toHost' = <<>> /\ Head(toHost) = m
            /\ toTarget' = <<>> /\ ctrl_response_valid' = 0
            /\ CtrlResponseProcessing' = CtrlResponseProcessing
        BY <3>1, <4>1, <1>0, <1>6, <1>11 DEF OneUnderWay, RxCheck, Quiet, control
      <4>3. CASE RxAccepts
        <5>1. rx'.pc = "store" /\ rx'.msg = m
          BY <3>1, <4>2, <4>3 DEF RxCheck
        <5>2. Good(rx.msg)'
          BY <5>1, <4>1, <1>3
        <5> QED
          BY <4>2, <5>1, <5>2 DEF OneUnderWay
      <4>4. CASE ~RxAccepts
        BY <3>1, <4>2, <4>4, <1>4, <1>11, <1>0 DEF RxCheck, RxAccepts, Stuck, Reading
      <4> QED
        BY <4>3, <4>4
    <3>2. CASE RxStore
      <4>1. /\ toTarget = <<>> /\ toHost = <<>> /\ ctrl_response_valid = 0 /\ Good(rx.msg)
        BY <3>2, <1>11, <1>6 DEF OneUnderWay, RxStore, Quiet
      <4>2. /\ toHost' = toHost /\ ctrl_response_valid' = 0
            /\ CtrlResponseBuffer' = rx.msg
        BY <3>2, <4>1 DEF RxStore
      <4>3. rx'.pc = "set"
        BY <3>2 DEF RxStore
      <4>4. Good(CtrlResponseBuffer)'
        BY <4>1, <4>2, <1>3
      <4> QED
        BY <4>1, <4>2, <4>3, <4>4, <1>0 DEF OneUnderWay
    <3>3. CASE RxSet
      <4>1. /\ toTarget = <<>> /\ toHost = <<>> /\ ctrl_response_valid = 0
            /\ Good(CtrlResponseBuffer)
        BY <3>3, <1>11, <1>6 DEF OneUnderWay, RxSet, Quiet
      <4>2. /\ toHost' = toHost /\ ctrl_response_valid' = 1 /\ rx' = Idle
            /\ CtrlResponseBuffer' = CtrlResponseBuffer
        BY <3>3, <4>1 DEF RxSet
      <4>3. Good(CtrlResponseBuffer)'
        BY <4>1, <4>2, <1>3
      <4> QED
        BY <4>1, <4>2, <4>3, <1>0 DEF OneUnderWay
    <3> QED
      BY <3>1, <3>2, <3>3 DEF Receive
  <2> QED
    BY <2>1, <1>11, <1>0, <1>1, <1>2, <1>5 DEF AgreeInv, WayInv
<1> QED
  BY <1>p, <1>5, <1>7, <1>8, <1>9, <1>10, <1>11 DEF WayInv, HostPcs

\* The connecting thread takes the response that was signalled, or gives up when
\* nothing is on its way.
LEMMA AgreeWait ==
    ASSUME HandOverInv, OwnersInv, SharesInv, AgreeInv, ~Late \/ Panics,
           hif_start \/ WaitReturns \/ WaitTimesOut \/ SendConnect \/ htc_start,
           UNCHANGED ConnectOrder, UNCHANGED ReadyKinds,
           \A s : htc_get_credit_allocation(s)' = htc_get_credit_allocation(s)
    PROVE  AgreeInv'
<1>0. /\ UNCHANGED <<rx, toHost, CtrlResponseBuffer, endpoint, callerEp, tgtEndpoint>>
      /\ host' \in HostPcs /\ host \in HostPcs /\ WayInv /\ TargetInv
  BY DEF hif_start, WaitReturns, WaitTimesOut, SendConnect, htc_start, AfterFailure,
     CDF_BUG, HostPcs, control, wires, AgreeInv
<1>2. /\ \A e : HostUses(e)' <=> HostUses(e)
      /\ \A e : TargetUses(e)' <=> TargetUses(e)
      /\ Same' <=> Same
  BY <1>0 DEF HostUses, TargetUses, Same
<1>3. next' = next => \A m : Good(m)' <=> Good(m)
  BY <1>0, <1>2 DEF Good, Usable
<1>4. toTarget' = toTarget => TargetInv'
  BY <1>0 DEF TargetInv, Agreed, TargetUses
<1>5. CASE hif_start
  <2>1. host = "create" /\ host' = "wait_ready" /\ UNCHANGED <<toTarget, ctrl_response_valid>>
    BY <1>5 DEF hif_start, control, wires
  <2>2. Quiet /\ Quiet' /\ \A e \in Endpoints : ~TargetUses(e)
    BY <2>1, <1>0 DEF WayInv, Quiet
  <2>3. ReadyUnderWay'
    BY <2>2, <1>2 DEF ReadyUnderWay, Quiet
  <2> QED
    BY <2>1, <2>3, <1>0, <1>4 DEF AgreeInv, WayInv
<1>6. CASE WaitReturns
  <2>1. /\ ctrl_response_valid = 1 /\ ctrl_response_valid' = 0
        /\ UNCHANGED <<toTarget, next>>
    BY <1>6 DEF WaitReturns, wires, HandOverInv
  <2>2. CASE host = "wait_ready"
    <3>1. host' = "ready"
      BY <1>6, <2>2 DEF WaitReturns
    <3>2. /\ TargetUses(0) /\ \A e \in Endpoints \ {0} : ~TargetUses(e)
          /\ toTarget = <<>> /\ toHost = <<>> /\ rx = Idle
      BY <2>1, <2>2, <1>0 DEF WayInv, ReadyUnderWay, Quiet
    <3>3. Quiet'
      BY <3>2, <2>1, <1>0 DEF Quiet
    <3> QED
      BY <3>1, <3>2, <3>3, <2>1, <1>0, <1>2, <1>4 DEF AgreeInv, WayInv
  <2>3. CASE host = "wait"
    <3>1. host' = "answered"
      BY <1>6, <2>3 DEF WaitReturns
    <3>2. /\ toTarget = <<>> /\ toHost = <<>> /\ rx = Idle /\ Good(CtrlResponseBuffer)
      BY <2>1, <2>3, <1>0 DEF WayInv, Stuck, OneUnderWay, Quiet
    <3>3. Quiet' /\ Good(CtrlResponseBuffer)'
      BY <3>2, <2>1, <1>0, <1>3 DEF Quiet
    <3>4. \A e \in Endpoints : HostUses(e)' => TargetUses(e)'
      BY <2>3, <1>0, <1>2 DEF WayInv
    <3> QED
      BY <3>1, <3>3, <3>4, <2>1, <1>0, <1>4 DEF AgreeInv, WayInv
  <2> QED
    BY <2>2, <2>3, <1>6 DEF WaitReturns, Waiting
<1>7. CASE WaitTimesOut
  <2>p. CASE host' = "panic"
    <3>1. UNCHANGED toTarget
      BY <1>7 DEF WaitTimesOut, wires
    <3> QED
      BY <2>p, <3>1, <1>0, <1>4 DEF AgreeInv, WayInv
  <2> SUFFICES ASSUME host' # "panic" PROVE AgreeInv'
    BY <2>p
  <2>q. ~Late
    BY <1>7 DEF WaitTimesOut, CDF_BUG
  <2>1. /\ rx = Idle /\ toHost = <<>> /\ toTarget = <<>> /\ ctrl_response_valid = 0
        /\ UNCHANGED <<toTarget, ctrl_response_valid, CtrlResponseProcessing>>
        /\ host' \in {"idle", "failed"}
        /\ host' = "idle" => host = "wait"
    BY <1>7, <2>q DEF WaitTimesOut, AfterFailure, CDF_BUG, control, wires
  <2>2. CASE host' = "failed"
    BY <2>1, <2>2, <1>0, <1>4 DEF AgreeInv, WayInv
  <2>3. CASE host' = "idle"
    <3>1. Stuck \/ (Quiet /\ Same)
      <4>1. <<Request>> # <<>> /\ \A m : <<m>> # <<>>
        OBVIOUS
      <4>2. rx.pc \notin {"store", "set"}
        BY <2>1 DEF Idle
      <4> QED
        BY <2>1, <2>3, <4>1, <4>2, <1>0 DEF WayInv, OneUnderWay
    <3>2. (Stuck => Stuck') /\ (Quiet => Quiet')
      BY <2>1, <2>3, <1>0 DEF Stuck, Quiet, Reading
    <3>3. \A e \in Endpoints : HostUses(e)' => TargetUses(e)'
      BY <2>1, <2>3, <1>0, <1>2 DEF WayInv
    <3> QED
      BY <2>1, <2>3, <3>1, <3>2, <3>3, <1>0, <1>2, <1>4 DEF AgreeInv, WayInv
  <2> QED
    BY <2>1, <2>2, <2>3
<1>8. CASE SendConnect
  <2>1. /\ host = "idle" /\ next <= Len(ConnectOrder)
        /\ UNCHANGED <<ctrl_response_valid, CtrlResponseProcessing>>
    BY <1>8 DEF SendConnect, control
  <2>2. \A e \in Endpoints : HostUses(e)' => TargetUses(e)'
    BY <2>1, <1>0, <1>2 DEF WayInv
  <2>3. Stuck \/ (Quiet /\ Same)
    BY <2>1, <1>0 DEF WayInv
  <2>4. CASE toTarget' = toTarget /\ host' \in {"idle", "failed"}
    <3>1. (Stuck => Stuck') /\ (Quiet => Quiet')
      BY <2>1, <2>4, <1>0 DEF Stuck, Quiet, Reading
    <3> QED
      BY <2>2, <2>3, <2>4, <3>1, <1>0, <1>2, <1>4 DEF AgreeInv, WayInv
  <2>5. CASE toTarget' = Append(toTarget, Request) /\ host' = "wait" /\ next' = next
    <3>1. Request \in [service : Services, credits : 0 .. AllocRange - 1]
      <4>1. ConnectOrder[next] \in Services
        BY <2>1, ConnectAssumption DEF OwnersInv, ConnectOrder
      <4>2. PICK s \in Services : s = ConnectOrder[next]
        BY <4>1
      <4>3. htc_get_credit_allocation(s) \in 0 .. AllocRange - 1
        BY AllocationRange
      <4> QED
        BY <4>2, <4>3 DEF Request
    <3>2. toTarget' \in Seq([service : Services, credits : 0 .. AllocRange - 1])
      BY <2>5, <3>1, <1>0 DEF TargetInv
    <3>3. TargetInv'
      BY <3>2, <1>0 DEF TargetInv, Agreed, TargetUses
    <3>4. Stuck => Stuck'
      BY <2>1, <2>5, <1>0 DEF Stuck, Reading
    <3>5. Quiet /\ Same => OneUnderWay'
      <4> SUFFICES ASSUME Quiet, Same PROVE OneUnderWay'
        OBVIOUS
      <4>1. UNCHANGED Request
        BY <2>5 DEF Request
      <4>2. toTarget' = <<Request>>
        BY <2>5 DEF Quiet
      <4>3. toTarget' = <<Request'>>
        BY <4>1, <4>2
      <4> QED
        BY <2>1, <4>3, <1>0, <1>2 DEF OneUnderWay, Quiet
    <3> QED
      BY <2>2, <2>3, <2>5, <3>3, <3>4, <3>5, <1>0 DEF AgreeInv, WayInv
  <2> QED
    BY <2>4, <2>5, <1>8 DEF SendConnect, AfterFailure, Request
<1>9. CASE htc_start
  <2>1. /\ host = "idle" /\ host' = "started"
        /\ UNCHANGED <<toTarget, ctrl_response_valid, CtrlResponseProcessing>>
    BY <1>9 DEF htc_start, control, wires
  <2>2. \A e \in Endpoints : HostUses(e)' => TargetUses(e)'
    BY <2>1, <1>0, <1>2 DEF WayInv
  <2>3. Stuck \/ (Quiet /\ Same)
    BY <2>1, <1>0 DEF WayInv
  <2>4. (Stuck => Stuck') /\ (Quiet => Quiet')
    BY <2>1, <1>0 DEF Stuck, Quiet, Reading
  <2> QED
    BY <2>1, <2>2, <2>3, <2>4, <1>0, <1>2, <1>4 DEF AgreeInv, WayInv
<1> QED
  BY <1>5, <1>6, <1>7, <1>8, <1>9

\* The ready message sets up endpoint 0 on the host's side; the target has it.
LEMMA AgreeReady ==
    ASSUME OwnersInv, SharesInv, AgreeInv, ParseReady
    PROVE  AgreeInv'
<1>0. /\ UNCHANGED <<rx, toHost, toTarget, callerEp, tgtEndpoint, ctrl_response_valid>>
      /\ host = "ready" /\ WayInv /\ TargetInv /\ host' \in {"idle", "failed"}
  BY Zenon DEF ParseReady, wires, AgreeInv
<1>1. /\ \A s \in Services : callerEp[s] = NoEndpoint
      /\ \A e \in Endpoints : endpoint[e] = Unused
      /\ DOMAIN endpoint = Endpoints
  BY <1>0 DEF OwnersInv, SharesInv, Early
<1>2. TargetInv'
  BY <1>0, <1>1 DEF TargetInv, Agreed, TargetUses
<1>3. CASE host' = "failed"
  BY <1>2, <1>3 DEF AgreeInv, WayInv, HostPcs
<1>4. CASE host' = "idle"
  <2>1. endpoint' = [endpoint EXCEPT ![0] = [service |-> CTRL, credits |-> 0, flow |-> TRUE]]
    BY <1>4, Zenon DEF ParseReady
  <2>2. 0 \in Endpoints
    BY ConnectAssumption DEF Endpoints
  <2>3. /\ HostUses(0)'
        /\ \A e \in Endpoints \ {0} : ~HostUses(e)'
    BY <2>1, <2>2, <1>1, ConnectAssumption DEF HostUses, Unused
  <2>4. /\ Quiet' /\ TargetUses(0)' /\ \A e \in Endpoints \ {0} : ~TargetUses(e)'
    BY <1>0 DEF WayInv, Quiet, TargetUses
  <2>5. Same' /\ \A e \in Endpoints : HostUses(e)' => TargetUses(e)'
    BY <2>2, <2>3, <2>4 DEF Same
  <2> QED
    BY <1>2, <1>4, <2>4, <2>5 DEF AgreeInv, WayInv, HostPcs
<1> QED
  BY <1>0, <1>3, <1>4

\* The host sets up the endpoint that a good response names, for the service that
\* was asked for; if it does not, the tables were the same.
LEMMA AgreeResponse ==
    ASSUME OwnersInv, AgreeInv, ParseResponse,
           UNCHANGED ConnectOrder,
           \A s : htc_get_credit_allocation(s)' = htc_get_credit_allocation(s)
    PROVE  AgreeInv'
<1> DEFINE m == CtrlResponseBuffer
<1>0. /\ UNCHANGED <<rx, toHost, toTarget, tgtEndpoint, ctrl_response_valid>>
      /\ host = "answered" /\ Quiet /\ Good(m) /\ TargetInv
      /\ \A e \in Endpoints : HostUses(e) => TargetUses(e)
  BY DEF ParseResponse, wires, AgreeInv, WayInv
<1>1. host' \in {"idle", "failed"}
  BY DEF ParseResponse, Refused, NotAResponse, Accepted, Established, AfterFailure
<1>2. Quiet' /\ \A e : TargetUses(e)' <=> TargetUses(e)
  BY <1>0 DEF Quiet, TargetUses
<1>3. CASE ~Usable(m)
  <2>1. UNCHANGED <<endpoint, callerEp>>
    BY <1>3 DEF ParseResponse, Refused, NotAResponse, Accepted, EndpointFree, Usable, HostUses
  <2>2. Same
    BY <1>0, <1>3 DEF Good, Same
  <2>3. /\ \A e : HostUses(e)' <=> HostUses(e)
        /\ TargetInv'
    BY <2>1, <1>0 DEF HostUses, TargetInv, Agreed, TargetUses
  <2>4. Same' /\ \A e \in Endpoints : HostUses(e)' => TargetUses(e)'
    BY <2>2, <2>3, <1>0, <1>2 DEF Same
  <2> QED
    BY <1>1, <1>2, <2>3, <2>4 DEF AgreeInv, WayInv, HostPcs
<1>4. CASE Usable(m)
  <2>1. PICK e \in Endpoints : e = m.ep
    BY <1>4 DEF Usable
  <2>2. EndpointFree(e) /\ Established(e)
    BY <1>4, <2>1 DEF ParseResponse, Refused, NotAResponse, Accepted, EndpointFree, Usable,
       HostUses
  <2>3. PICK s \in Services : s = ConnectOrder[next]
    BY <1>0, ConnectAssumption DEF OwnersInv, ConnectOrder
  <2>4. /\ endpoint' = [endpoint EXCEPT ![e] =
               [service |-> s, credits |-> htc_get_credit_allocation(s),
                flow |-> s \notin Mapped \/ s = WMI]]
        /\ callerEp' = callerEp \/ callerEp' = [callerEp EXCEPT ![s] = e]
    BY <2>2, <2>3, Zenon DEF Established
  <2>5. /\ endpoint'[e].service = s
        /\ endpoint'[e].credits = htc_get_credit_allocation(s)
        /\ \A f \in Endpoints \ {e} : endpoint'[f] = endpoint[f]
    BY <2>4 DEF OwnersInv
  <2>6. /\ tgtEndpoint'[e].service = s
        /\ tgtEndpoint'[e].credits = htc_get_credit_allocation(s)
    BY <1>0, <1>4, <2>1, <2>3 DEF Good
  <2>7. \A t \in Services : callerEp[t] # e
    <3> SUFFICES ASSUME NEW t \in Services, callerEp[t] = e PROVE FALSE
      OBVIOUS
    <3>1. e # NoEndpoint
      BY ConnectAssumption DEF Endpoints
    <3> QED
      BY <2>2, <3>1, ConnectAssumption DEF OwnersInv, OwnersKeepEndpoints, EndpointFree
  <2>8. ASSUME NEW t \in Services, callerEp'[t] # NoEndpoint
        PROVE  /\ tgtEndpoint'[callerEp'[t]].service = t
               /\ tgtEndpoint'[callerEp'[t]].credits = endpoint'[callerEp'[t]].credits
    <3>1. CASE callerEp'[t] = e
      <4>1. t = s
        BY <2>4, <2>7, <3>1 DEF OwnersInv
      <4> QED
        BY <3>1, <4>1, <2>5, <2>6
    <3>2. CASE callerEp'[t] # e
      <4>1. callerEp'[t] = callerEp[t] /\ callerEp[t] \in Endpoints \ {e}
        BY <2>4, <3>2, <2>8 DEF OwnersInv
      <4> QED
        BY <4>1, <2>5, <2>8, <1>0 DEF TargetInv, Agreed
    <3> QED
      BY <3>1, <3>2
  <2>9. TargetInv'
    BY <2>8, <1>0, <1>2 DEF TargetInv, Agreed
  <2>10. s # NoService
    BY ConnectAssumption
  <2>11. \A f \in Endpoints : HostUses(f)' <=> HostUses(f) \/ f = e
    BY <2>5, <2>10 DEF HostUses
  <2>12. TargetUses(e)
    BY <2>6, <2>10, <1>0 DEF TargetUses
  <2>13. Same' /\ \A f \in Endpoints : HostUses(f)' => TargetUses(f)'
    BY <2>1, <2>11, <2>12, <1>0, <1>2 DEF Same, Good
  <2> QED
    BY <1>1, <1>2, <2>9, <2>13 DEF AgreeInv, WayInv, HostPcs
<1> QED
  BY <1>3, <1>4

\* Unloading forgets the owners, and the next load meets a target that was reset.
LEMMA AgreeUnload ==
    ASSUME OwnersInv, AgreeInv, Unload
    PROVE  AgreeInv'
<1>0. TargetInv /\ WayInv
  BY DEF AgreeInv
<1>1. CASE htc_stop
  <2>1. /\ \A s \in Services : callerEp'[s] = NoEndpoint
        /\ toHost' = <<>> /\ rx' = Idle /\ host' = "stopped"
        /\ UNCHANGED <<toTarget, tgtEndpoint>>
    BY <1>1 DEF htc_stop
  <2> QED
    BY <2>1, <1>0 DEF AgreeInv, WayInv, HostPcs, TargetInv, Agreed, TargetUses
<1>2. CASE htc_destroy
  <2>1. /\ host = "stopped" /\ host' = "create" /\ toTarget' = <<>> /\ rx' = Idle
        /\ ctrl_response_valid' = 0 /\ toHost' = toHost /\ callerEp' = callerEp
        /\ tgtEndpoint' = [e \in Endpoints |-> Unused]
    BY <1>2 DEF htc_destroy
  <2>2. toHost = <<>> /\ \A s \in Services : callerEp[s] = NoEndpoint
    BY <2>1, <1>0 DEF WayInv, OwnersInv
  <2>3. \A e \in Endpoints : tgtEndpoint'[e] = Unused /\ ~TargetUses(e)'
    BY <2>1 DEF TargetUses, Unused
  <2>4. TargetInv'
    BY <2>1, <2>2, <2>3 DEF TargetInv, Agreed
  <2> QED
    BY <2>1, <2>2, <2>3, <2>4 DEF AgreeInv, WayInv, HostPcs, Quiet
<1>3. CASE Reboot
  <2>1. /\ host' = "create" /\ toTarget' = <<>> /\ rx' = Idle
        /\ ctrl_response_valid' = 0 /\ toHost' = <<>>
        /\ callerEp' = [s \in Services |-> NoEndpoint]
        /\ tgtEndpoint' = [e \in Endpoints |-> Unused]
    BY <1>3 DEF Reboot
  <2>2. \A e \in Endpoints : tgtEndpoint'[e] = Unused /\ ~TargetUses(e)'
    BY <2>1 DEF TargetUses, Unused
  <2>3. TargetInv'
    BY <2>1, <2>2 DEF TargetInv, Agreed
  <2> QED
    BY <2>1, <2>2, <2>3 DEF AgreeInv, WayInv, HostPcs, Quiet
<1> QED
  BY <1>1, <1>2, <1>3 DEF Unload

\* The target only fills free entries of its table, and those are no owner's.
LEMMA TargetFills ==
    ASSUME TargetInv, OwnersInv, UNCHANGED <<callerEp, endpoint>>,
           toTarget' \in Seq([service : Services, credits : 0 .. AllocRange - 1]),
           NEW e \in Endpoints, NEW r, r.service # NoService, tgtEndpoint[e] = Unused,
           tgtEndpoint' = [tgtEndpoint EXCEPT ![e] = r]
    PROVE  /\ TargetInv'
           /\ tgtEndpoint'[e] = r
           /\ \A f \in Endpoints : TargetUses(f)' <=> TargetUses(f) \/ f = e
<1>1. /\ tgtEndpoint'[e] = r /\ DOMAIN tgtEndpoint' = Endpoints
      /\ \A f \in Endpoints \ {e} : tgtEndpoint'[f] = tgtEndpoint[f]
  BY DEF TargetInv
<1>2. \A f \in Endpoints : TargetUses(f)' <=> TargetUses(f) \/ f = e
  BY <1>1 DEF TargetUses
<1>3. \A s \in Services : callerEp[s] # NoEndpoint => callerEp[s] \in Endpoints \ {e}
  <2> SUFFICES ASSUME NEW s \in Services, callerEp[s] # NoEndpoint, callerEp[s] = e
               PROVE  FALSE
    BY DEF OwnersInv
  <2>1. tgtEndpoint[e].service = s
    BY DEF TargetInv, Agreed
  <2> QED
    BY <2>1, ConnectAssumption DEF Unused
<1>4. Agreed'
  BY <1>1, <1>3 DEF TargetInv, Agreed
<1>5. \A f \in Endpoints : tgtEndpoint'[f] = Unused \/ TargetUses(f)'
  BY <1>1, <1>2 DEF TargetInv
<1> QED
  BY <1>1, <1>2, <1>4, <1>5 DEF TargetInv

\* The target's own steps: the ready message, and the answer to a request.
LEMMA AgreeTarget ==
    ASSUME OwnersInv, SharesInv, AgreeInv, Target, UNCHANGED ConnectOrder, UNCHANGED ReadyKinds,
           \A s : htc_get_credit_allocation(s)' = htc_get_credit_allocation(s)
    PROVE  AgreeInv'
<1>0. /\ UNCHANGED <<host, next, CtrlResponseProcessing, CtrlResponseBuffer,
                     ctrl_response_valid, rx, endpoint, callerEp>>
      /\ host' \in HostPcs /\ host \in HostPcs /\ WayInv /\ TargetInv
      /\ host # "panic"
  BY DEF Target, Running, TargetReady, TargetAnswers, control, AgreeInv
<1>1. /\ \A e : HostUses(e)' <=> HostUses(e)
      /\ Stuck' <=> Stuck
      /\ UNCHANGED Request
  BY <1>0 DEF HostUses, Stuck, Reading, Request
<1>2. CASE TargetReady
  <2>1. PICK k \in ReadyKinds : toHost' = Append(toHost, [kind |-> k])
    BY <1>2 DEF TargetReady
  <2>2. PICK r : r = [Unused EXCEPT !.service = CTRL]
    OBVIOUS
  <2>3. r.service = CTRL
    BY <2>2, Zenon DEF Unused
  <2>4. /\ tgtEndpoint[0] = Unused /\ tgtEndpoint' = [tgtEndpoint EXCEPT ![0] = r]
        /\ UNCHANGED toTarget /\ host \in {"wait_ready", "failed"}
    BY <1>2, <2>2, Zenon DEF TargetReady
  <2>5. 0 \in Endpoints /\ r.service # NoService
    BY <2>3, ConnectAssumption DEF Endpoints
  <2>6. toTarget' \in Seq([service : Services, credits : 0 .. AllocRange - 1])
    BY <2>4, <1>0 DEF TargetInv
  <2>7. /\ TargetInv' /\ \A f \in Endpoints : TargetUses(f)' <=> TargetUses(f) \/ f = 0
    BY <1>0, <2>4, <2>5, <2>6, TargetFills
  <2>8. CASE host = "failed"
    BY <2>7, <2>8, <1>0 DEF AgreeInv, WayInv
  <2>9. CASE host = "wait_ready"
    <3>1. Quiet /\ \A e \in Endpoints \ {0} : ~TargetUses(e)
      BY <2>4, <2>9, <1>0 DEF WayInv, ReadyUnderWay, TargetUses, Unused
    <3>2. toHost' = <<[kind |-> k]>>
      BY <2>1, <3>1 DEF Quiet
    <3>3. ReadyUnderWay'
      BY <3>1, <3>2, <2>4, <2>5, <2>7, <1>0 DEF ReadyUnderWay, Quiet
    <3> QED
      BY <2>7, <2>9, <3>3, <1>0 DEF AgreeInv, WayInv
  <2> QED
    BY <2>4, <2>8, <2>9
<1>3. CASE TargetAnswers
  <2> DEFINE r == Head(toTarget)
  <2>1. /\ toTarget # <<>> /\ toTarget' = Tail(toTarget) /\ host # "stopped"
    BY <1>3 DEF TargetAnswers
  <2>2. /\ r.service \in Services /\ r.service # NoService
        /\ toTarget' \in Seq([service : Services, credits : 0 .. AllocRange - 1])
    <3>1. PICK S : S = [service : Services, credits : 0 .. AllocRange - 1]
      OBVIOUS
    <3>2. toTarget \in Seq(S)
      BY <3>1, <1>0 DEF TargetInv
    <3>3. r \in S /\ toTarget' \in Seq(S)
      BY <3>2, <2>1
    <3>4. r.service \in Services
      BY <3>1, <3>3
    <3> QED
      BY <3>1, <3>3, <3>4, ConnectAssumption
  <2>a. ASSUME NEW e \in Endpoints, tgtEndpoint[e] = Unused,
               tgtEndpoint' = [tgtEndpoint EXCEPT ![e] =
                   [service |-> r.service, credits |-> r.credits, flow |-> TRUE]]
        PROVE  /\ TargetInv'
               /\ tgtEndpoint'[e].service = r.service
               /\ tgtEndpoint'[e].credits = r.credits
               /\ \A f \in Endpoints : TargetUses(f)' <=> TargetUses(f) \/ f = e
    <3>1. PICK x : x = [service |-> r.service, credits |-> r.credits, flow |-> TRUE]
      OBVIOUS
    <3>2. x.service = r.service /\ x.credits = r.credits /\ x.service # NoService
      BY <3>1, <2>2
    <3>3. /\ UNCHANGED <<callerEp, endpoint>> /\ tgtEndpoint[e] = Unused
          /\ tgtEndpoint' = [tgtEndpoint EXCEPT ![e] = x]
      BY <1>0, <2>a, <3>1
    <3>4. /\ TargetInv' /\ tgtEndpoint'[e] = x
          /\ \A f \in Endpoints : TargetUses(f)' <=> TargetUses(f) \/ f = e
      BY <3>2, <3>3, <2>2, <1>0, TargetFills
    <3> QED
      BY <3>2, <3>4
  <2>3. \/ /\ TargetInv'
           /\ \E e \in Endpoints :
                 /\ tgtEndpoint[e] = Unused
                 /\ tgtEndpoint'[e].service = r.service
                 /\ tgtEndpoint'[e].credits = r.credits
                 /\ \A f \in Endpoints : TargetUses(f)' <=> TargetUses(f) \/ f = e
                 /\ toHost' = Append(toHost, Answer("ok", r.service, e))
        \/ UNCHANGED tgtEndpoint /\ TargetInv'
    <3>1. CASE UNCHANGED tgtEndpoint
      BY <3>1, <2>2, <1>0 DEF TargetInv, Agreed, TargetUses
    <3>2. \/ UNCHANGED tgtEndpoint
          \/ \E e \in Endpoints :
                 /\ tgtEndpoint[e] = Unused
                 /\ tgtEndpoint' = [tgtEndpoint EXCEPT ![e] =
                        [service |-> r.service, credits |-> r.credits, flow |-> TRUE]]
                 /\ toHost' = Append(toHost, Answer("ok", r.service, e))
      BY <1>3, Zenon DEF TargetAnswers
    <3> QED
      BY <3>1, <2>a, <3>2
  <2>4. \A e \in Endpoints : TargetUses(e) => TargetUses(e)'
    BY <2>3 DEF TargetUses
  <2>5. TargetInv'
    BY <2>3
  <2>6. host \notin {"create", "wait_ready", "ready", "answered"}
    BY <2>1, <1>0 DEF WayInv, ReadyUnderWay, Quiet
  <2>7. CASE host = "failed" \/ Stuck
    <3>1. host' = host /\ (host # "failed" => Stuck')
      BY <2>7, <1>0, <1>1
    <3>2. host' \in {"idle", "wait", "started"} => \A e \in Endpoints : HostUses(e)' => TargetUses(e)'
      BY <2>4, <1>0, <1>1 DEF WayInv
    <3> QED
      BY <2>1, <2>5, <2>6, <3>1, <3>2, <1>0 DEF AgreeInv, WayInv
  <2>8. CASE host # "failed" /\ ~Stuck
    <3>1. host = "wait" /\ OneUnderWay /\ \A e \in Endpoints : HostUses(e) => TargetUses(e)
      BY <2>1, <2>6, <2>8, <1>0 DEF WayInv, HostPcs, Quiet
    <3>2. /\ toTarget = <<Request>> /\ toHost = <<>> /\ rx = Idle
          /\ ctrl_response_valid = 0 /\ Same
      BY <2>1, <3>1 DEF OneUnderWay, Quiet
    <3>3. /\ r = Request /\ toTarget' = <<>>
          /\ rx' = Idle /\ ctrl_response_valid' = 0
      BY <2>1, <3>2, <1>0
    <3>4. /\ r.service = ConnectOrder'[next']
          /\ r.credits = htc_get_credit_allocation(ConnectOrder[next])'
      BY <3>3, <1>0 DEF Request
    <3>5. \A k, e : k \in Kinds /\ e \in 0 .. EndpointMax => Answer(k, r.service, e) \in Messages
      BY <2>2 DEF Answer, Messages
    <3>6. Endpoints \subseteq 0 .. EndpointMax /\ EndpointMax \in 0 .. EndpointMax
          /\ 0 \in 0 .. EndpointMax /\ EndpointMax \notin Endpoints
      BY ConnectAssumption DEF Endpoints
    <3>7. OneUnderWay'
      <4>1. CASE UNCHANGED tgtEndpoint /\ UNCHANGED toHost
        BY <4>1, <3>2, <3>3, <1>1 DEF OneUnderWay, Quiet, Same, TargetUses
      <4>2. ASSUME NEW k \in Kinds, NEW e \in 0 .. EndpointMax,
                   toHost' = Append(toHost, Answer(k, r.service, e)),
                   UNCHANGED tgtEndpoint,
                   k = "ok" => e \notin Endpoints \/ TargetUses(e)
            PROVE  OneUnderWay'
        <5>1. PICK m \in Messages : m = Answer(k, r.service, e)
          BY <3>5
        <5>2. toHost' = <<m>>
          BY <4>2, <5>1, <3>2
        <5>3. m.kind = k /\ m.ep = e
          BY <5>1 DEF Answer
        <5>4. ~Usable(m)'
          BY <4>2, <5>3, <3>2, <1>1 DEF Usable, Same
        <5>5. Good(m)'
          BY <4>2, <5>4, <3>2, <1>1 DEF Good, Same, TargetUses
        <5> QED
          BY <5>2, <5>5, <3>3 DEF OneUnderWay
      <4>3. ASSUME NEW e \in Endpoints, tgtEndpoint[e] = Unused,
                   tgtEndpoint'[e].service = r.service,
                   tgtEndpoint'[e].credits = r.credits,
                   \A f \in Endpoints : TargetUses(f)' <=> TargetUses(f) \/ f = e,
                   toHost' = Append(toHost, Answer("ok", r.service, e))
            PROVE  OneUnderWay'
        <5>1. PICK m \in Messages : m = Answer("ok", r.service, e)
          BY <3>5, <3>6 DEF Kinds
        <5>2. toHost' = <<m>>
          BY <4>3, <5>1, <3>2
        <5>3. m.kind = "ok" /\ m.ep = e
          BY <5>1 DEF Answer
        <5>4. ~HostUses(e)
          BY <4>3, <3>1 DEF TargetUses, Unused
        <5>5. Usable(m)'
          BY <5>3, <5>4, <1>1 DEF Usable
        <5>6. \A f \in Endpoints : TargetUses(f)' => HostUses(f)' \/ (Usable(m)' /\ f = m.ep)
          BY <4>3, <5>3, <5>5, <3>2, <1>1 DEF Same
        <5>7. Good(m)'
          BY <4>3, <5>3, <5>6, <3>4 DEF Good
        <5> QED
          BY <5>2, <5>7, <3>3 DEF OneUnderWay
      <4>4. \/ UNCHANGED tgtEndpoint /\ UNCHANGED toHost
            \/ \E e \in Endpoints : tgtEndpoint[e] # Unused /\ UNCHANGED tgtEndpoint
                    /\ toHost' = Append(toHost, Answer("ok", r.service, e))
            \/ UNCHANGED tgtEndpoint
                    /\ toHost' = Append(toHost, Answer("ok", r.service, EndpointMax))
            \/ \E k \in {"empty", "refused", "short"} : UNCHANGED tgtEndpoint
                    /\ toHost' = Append(toHost, Answer(k, r.service, 0))
            \/ \E e \in Endpoints :
                 /\ tgtEndpoint[e] = Unused
                 /\ tgtEndpoint' = [tgtEndpoint EXCEPT ![e] =
                        [service |-> r.service, credits |-> r.credits, flow |-> TRUE]]
                 /\ toHost' = Append(toHost, Answer("ok", r.service, e))
        BY <1>3, Zenon DEF TargetAnswers
      <4>5. ASSUME NEW e \in Endpoints, tgtEndpoint[e] = Unused,
                   tgtEndpoint' = [tgtEndpoint EXCEPT ![e] =
                        [service |-> r.service, credits |-> r.credits, flow |-> TRUE]],
                   toHost' = Append(toHost, Answer("ok", r.service, e))
            PROVE  OneUnderWay'
        BY <4>3, <4>5, <2>a
      <4>6. CASE \E e \in Endpoints : tgtEndpoint[e] # Unused /\ UNCHANGED tgtEndpoint
                    /\ toHost' = Append(toHost, Answer("ok", r.service, e))
        <5>1. PICK e \in Endpoints : tgtEndpoint[e] # Unused /\ UNCHANGED tgtEndpoint
                    /\ toHost' = Append(toHost, Answer("ok", r.service, e))
          BY <4>6
        <5>2. TargetUses(e)
          BY <5>1, <1>0 DEF TargetInv
        <5>3. e \in 0 .. EndpointMax /\ "ok" \in Kinds
          BY <3>6 DEF Kinds
        <5> QED
          BY <4>2, <5>1, <5>2, <5>3
      <4>7. CASE UNCHANGED tgtEndpoint
                    /\ toHost' = Append(toHost, Answer("ok", r.service, EndpointMax))
        <5>1. "ok" \in Kinds
          BY DEF Kinds
        <5> QED
          BY <4>2, <4>7, <5>1, <3>6
      <4>8. CASE \E k \in {"empty", "refused", "short"} : UNCHANGED tgtEndpoint
                    /\ toHost' = Append(toHost, Answer(k, r.service, 0))
        <5>1. PICK k \in {"empty", "refused", "short"} : UNCHANGED tgtEndpoint
                    /\ toHost' = Append(toHost, Answer(k, r.service, 0))
          BY <4>8
        <5>2. k \in Kinds /\ k # "ok"
          BY DEF Kinds
        <5> QED
          BY <4>2, <5>1, <5>2, <3>6
      <4> QED
        BY <4>1, <4>4, <4>5, <4>6, <4>7, <4>8
    <3>8. \A e \in Endpoints : HostUses(e)' => TargetUses(e)'
      BY <2>4, <3>1, <1>1
    <3> QED
      BY <2>5, <3>1, <3>7, <3>8, <1>0 DEF AgreeInv, WayInv
  <2> QED
    BY <2>7, <2>8
<1> QED
  BY <1>2, <1>3 DEF Target

\* Host and target agree on the endpoints of all owners, for every way to load
\* the driver, any number of services and endpoints and any answers of a target
\* that is punctual or whose delay stops the machine (CDF_BUG in
\* htc_wait_recv_ctrl_message), refused connects, responses that are cut short and requests that cannot
\* be sent included; and whatever the target does, the credits that
\* htc_connect_service hands out are not more than the ready message announced.
THEOREM TablesAgree == Spec => []EndpointsAgree
<1> DEFINE Inv == HandOverInv /\ OwnersInv /\ SharesInv /\ (~Late \/ Panics => AgreeInv)
<1>1. Init => Inv
  <2> SUFFICES ASSUME Init PROVE Inv
    OBVIOUS
  <2>1. HandOverInv
    BY HandOverInit
  <2>2. OwnersInv
    BY ConnectAssumption DEF Init, OwnersInv, OwnersKeepEndpoints, reset_endpoint_states
  <2>3. \A e \in Endpoints : /\ endpoint[e] = Unused /\ tgtEndpoint[e] = Unused
                             /\ endpoint[e].service = NoService /\ endpoint[e].credits = 0
                             /\ tgtEndpoint[e].service = NoService
    BY DEF Init, reset_endpoint_states, Unused
  <2>4. SharesInv
    BY <2>3, ConnectAssumption DEF SharesInv
  <2>5. TargetInv
    BY <2>3 DEF Init, TargetInv, Agreed
  <2>6. WayInv /\ host \in HostPcs
    BY <2>3 DEF Init, WayInv, Quiet, TargetUses, HostPcs
  <2> QED
    BY <2>1, <2>2, <2>4, <2>5, <2>6 DEF AgreeInv
<1>2. Inv /\ [Next]_vars => Inv'
  <2> SUFFICES ASSUME Inv, [Next]_vars PROVE Inv'
    OBVIOUS
  <2>1. HandOverInv'
    BY ReceiveStep, ConnectStep, OtherStep DEF Next
  <2>2. OwnersInv' /\ SharesInv'
    BY OwnersStep, SharesStep
  <2>3. /\ UNCHANGED ConnectOrder /\ UNCHANGED ReadyKinds /\ UNCHANGED Late
        /\ UNCHANGED Panics
        /\ \A s : htc_get_credit_allocation(s)' = htc_get_credit_allocation(s)
    BY LoadKept DEF ReadyKinds, Late, Panics
  <2>4. ASSUME ~Late \/ Panics PROVE AgreeInv'
    <3>1. AgreeInv
      BY <2>4
    <3>2. CASE Receive
      BY <2>3, <3>1, <3>2, AgreeReceive
    <3>3. CASE hif_start \/ WaitReturns \/ WaitTimesOut \/ SendConnect \/ htc_start
      BY <2>3, <2>4, <3>1, <3>3, AgreeWait
    <3>4. CASE ParseReady
      BY <3>1, <3>4, AgreeReady
    <3>5. CASE ParseResponse
      BY <2>3, <3>1, <3>5, AgreeResponse
    <3>6. CASE Unload
      BY <3>1, <3>6, AgreeUnload
    <3>7. CASE Target
      BY <2>3, <3>1, <3>7, AgreeTarget
    <3>8. CASE UNCHANGED vars
      <4>1. TargetInv'
        BY <3>1, <3>8 DEF vars, AgreeInv, TargetInv, Agreed, TargetUses
      <4>2. UNCHANGED Request /\ UNCHANGED Reading /\ UNCHANGED Same /\ UNCHANGED Quiet
            /\ \A e : (TargetUses(e)' <=> TargetUses(e)) /\ (HostUses(e)' <=> HostUses(e))
        BY <2>3, <3>8 DEF vars, Request, Reading, Same, Quiet, TargetUses, HostUses
      <4>3. \A m : Good(m)' <=> Good(m)
        BY <2>3, <3>8, <4>2 DEF vars, Good, Usable
      <4>4. Good(CtrlResponseBuffer)' <=> Good(CtrlResponseBuffer)
        BY <3>8, <4>3 DEF vars
      <4>5. Good(rx.msg)' <=> Good(rx.msg)
        BY <3>8, <4>3 DEF vars
      <4>6. (OneUnderWay => OneUnderWay') /\ (Stuck => Stuck') /\ (ReadyUnderWay => ReadyUnderWay')
        BY <2>3, <3>8, <4>2, <4>3, <4>4, <4>5 DEF vars, OneUnderWay, Stuck, ReadyUnderWay
      <4>7. WayInv' /\ host' \in HostPcs
        BY <3>1, <3>8, <4>2, <4>4, <4>6 DEF vars, AgreeInv, WayInv
      <4> QED
        BY <4>1, <4>7 DEF AgreeInv
    <3> QED
      BY <3>2, <3>3, <3>4, <3>5, <3>6, <3>7, <3>8 DEF Next, Connect
  <2> QED
    BY <2>1, <2>2, <2>3, <2>4
<1>3. Inv => EndpointsAgree
  BY SharesFit DEF EndpointsAgree, CreditsFit, AgreeInv, TargetInv, Agreed, OwnersInv
<1> QED
  BY <1>1, <1>2, <1>3, PTL DEF Spec
=============================================================================
