------------------------------ MODULE WmaVdev ------------------------------
(***************************************************************************)
(* Requests of WMA to the target (core/wma/src/wma_dev_if.c) for one       *)
(* virtual device in access-point mode: creating the device, starting and  *)
(* stopping its BSS, deleting the device.  A request is kept on            *)
(* vdev_resp_queue with a timer until the target answers or the timer      *)
(* expires.  A deletion that comes while the BSS is started is put off     *)
(* until the BSS has been stopped.                                         *)
(*                                                                         *)
(* All handlers run on the MC thread, one message at a time, and timer     *)
(* messages (SYS queue) go before requests and answers (WMA queue).  Only  *)
(* the expiry itself, which stops the timer and posts the message, runs    *)
(* beside it.  The operators on the state w of WMA compose the way the     *)
(* functions call each other; w.cmds are the commands on their way to the  *)
(* target, w.umac is what the upper layers know from the answers they got. *)
(*                                                                         *)
(* Operators named Mutant... are plausible bugs of the definition that     *)
(* follows them.                                                           *)
(***************************************************************************)
EXTENDS Naturals, FiniteSets, SequencesExt

CONSTANTS
    NReqs,      \* bound: requests allocated at a time, memory for no more
    MaxCmds,    \* bound: commands on their way to the target
    MaxMishaps  \* bound: kinds of mishaps in one behaviour

ASSUME WmaAssumption ==
    NReqs \in Nat \ {0} /\ MaxCmds \in Nat \ {0} /\ MaxMishaps \in Nat

VARIABLES
    wma,        \* the state of WMA, see WmaType
    fwUp,       \* the target has started the BSS
    wmaq,       \* the WMA queue: requests of the upper layers and answers
    sysq,       \* the SYS queue: timers that expired, by their request
    mc,         \* the message the MC thread handles
    sync,       \* the target answers deletions (WMI_SERVICE_SYNC_DELETE_CMDS)
    past        \* history: which of Mishaps have happened

vars == <<wma, fwUp, wmaq, sysq, mc, sync, past>>

Reqs == 1..NReqs
Kinds == {"start", "stop", "del"}    \* WMA_TARGET_REQ_TYPE_VDEV_...
NoReq == [kind |-> "none", own |-> FALSE, running |-> FALSE]
Timer(r) == [type |-> "timer", req |-> r]
Msg(t) == [type |-> t, req |-> 0]
NoMsg == Msg("none")
MsgTypes == {"add_self", "del_self", "add_bss", "del_bss",
             "start_ok", "start_failed", "stopped", "deleted"}

\* What goes wrong: a timer expires while its answer is being handled, or cannot
\* post its message; a request times out before the target has answered, and the
\* answer still comes; a start times out; the device is deleted while WMA stops
\* the BSS by itself; a stop cannot be sent, or another is removed in its place;
\* there is no memory for the beacon of a BSS already started; the device cannot
\* be created; a response to PE or SME cannot be posted.
Mishaps == {"raced", "timer_lost", "late", "start_timed_out", "orphaned", "stop_unsent",
            "misremoved", "no_beacon", "not_created", "unheard"}

\* Where a handler may fail: it gets no memory for its request, or no network
\* buffer, so that a command cannot be sent.
Failures == {"none", "memory", "send"}

\* Which responses of a handler cannot be posted: once the message wrappers are
\* used up only the MC thread returns them, so that one to SME is lost after one
\* to PE, never before.
Losses == {"none", "last", "all"}

\* respq is vdev_resp_queue, alloc the requests; handle to stale are fields of
\* the interface, stale: its beacon has been freed and not cleared; peer is its
\* own peer in txrx; locks are the wake lock and the runtime PM lock held until
\* the target answers; crashed: a NULL pointer, a freed request or beacon was
\* used; umac is what PE and SME wait for, confused if they got an answer they
\* did not.
WmaType ==
    [respq : Seq(Reqs),
     alloc : [Reqs -> [kind : Kinds, own : BOOLEAN, running : BOOLEAN] \cup {NoReq}],
     handle : BOOLEAN, bss_started : BOOLEAN, del_staself_req : BOOLEAN,
     paused : BOOLEAN, stale : BOOLEAN, peer : BOOLEAN,
     locks : SUBSET {"wake", "runtime"}, crashed : BOOLEAN,
     cmds : Seq(Kinds \cup {"create"}),
     umac : [bss : {"none", "adding", "up", "deleting"},
             self : {"gone", "adding", "here", "deleting"}, confused : BOOLEAN]]

Init ==
    /\ wma = [respq |-> <<>>, alloc |-> [r \in Reqs |-> NoReq],
              handle |-> FALSE, bss_started |-> FALSE, del_staself_req |-> FALSE,
              paused |-> FALSE, stale |-> FALSE, peer |-> FALSE, locks |-> {},
              crashed |-> FALSE, cmds |-> <<>>,
              umac |-> [bss |-> "none", self |-> "gone", confused |-> FALSE]]
    /\ fwUp = FALSE
    /\ wmaq = <<>> /\ sysq = <<>> /\ mc = NoMsg
    /\ sync \in BOOLEAN
    /\ past = {}

-----------------------------------------------------------------------------
(* Requests *)

Free(w) == {r \in Reqs : w.alloc[r] = NoReq}

\* wma_fill_vdev_req: allocated, its timer started, at the end of the queue.
Fill(w, kind, own) ==
    LET r == CHOOSE r \in Free(w) : TRUE
    IN  [w EXCEPT !.alloc[r] = [kind |-> kind, own |-> own, running |-> TRUE],
                  !.respq = Append(@, r)]

\* wma_find_vdev_req: the first request of this kind, 0 if there is none.
Found(w, kind) ==
    LET i == SelectInSeq(w.respq, LAMBDA r : w.alloc[r].kind = kind)
    IN  IF i = 0 THEN 0 ELSE w.respq[i]

Unlink(w, r) == [w EXCEPT !.respq = RemoveFirst(@, r)]

\* The timer is stopped and destroyed, the request freed.
Destroy(w, r) == [w EXCEPT !.alloc[r] = NoReq]

MutantRelease(w, r) == Unlink(w, r)
Release(w, r) == Destroy(Unlink(w, r), r)

\* wmi_unified_cmd_send.
Send(w, cmd) == [w EXCEPT !.cmds = Append(@, cmd)]

\* The upper layers take an answer: a session whose device could not be created
\* is opened like any other.
Hear(rsp, u) ==
    CASE rsp = "self_added"   /\ u.self = "adding"   -> [u EXCEPT !.self = "here"]
      [] rsp = "self_failed"  /\ u.self = "adding"   -> [u EXCEPT !.self = "here"]
      [] rsp = "self_deleted" /\ u.self = "deleting" -> [u EXCEPT !.self = "gone"]
      [] rsp = "added"        /\ u.bss = "adding"    -> [u EXCEPT !.bss = "up"]
      [] rsp = "add_failed"   /\ u.bss = "adding"    -> [u EXCEPT !.bss = "none"]
      [] rsp = "bss_deleted"  /\ u.bss = "deleting"  -> [u EXCEPT !.bss = "none"]
      [] OTHER -> [u EXCEPT !.confused = TRUE]

\* wma_send_msg to PE, cds_mq_post_message to SME; McHandles says which are lost.
Reply(w, rsp) == [w EXCEPT !.umac = Hear(rsp, @)]

\* cdf_mem_zero of the interface.
MutantZeroed(w) == [w EXCEPT !.handle = FALSE, !.bss_started = FALSE,
                             !.paused = FALSE, !.stale = FALSE]
Zeroed(w) == [w EXCEPT !.handle = FALSE, !.bss_started = FALSE, !.del_staself_req = FALSE,
                       !.paused = FALSE, !.stale = FALSE]

-----------------------------------------------------------------------------
(* Deleting the device *)

\* wma_vdev_detach_callback: without answers from the target the request is
\* still queued.
DetachCallback(w) ==
    LET r  == Found(w, "del")
        w1 == IF ~sync /\ r # 0 THEN Release(w, r) ELSE w
    IN  IF w.del_staself_req THEN Reply(Zeroed(w1), "self_deleted") ELSE w

\* wma_handle_vdev_detach: the wake lock is taken for a limited time, the runtime
\* PM lock until it is released.
HandleDetach(w, fail) ==
    LET w1 == Fill([Send(w, "del") EXCEPT !.del_staself_req = TRUE], "del", FALSE)
    IN  CASE fail = "send"         -> Reply(Zeroed(w), "self_deleted")
          [] fail = "memory"       -> Reply(Zeroed(Send(w, "del")), "self_deleted")
          [] fail = "none" /\ sync -> [w1 EXCEPT !.locks = {"wake", "runtime"}]
          [] OTHER                 -> DetachCallback(w1)

\* wma_vdev_detach: put off while the BSS is started; nobody is answered if the
\* device is gone already.
Detach(w, fail) ==
    CASE w.bss_started -> [w EXCEPT !.del_staself_req = TRUE]
      [] ~w.bss_started /\ ~w.handle -> w
      [] OTHER -> HandleDetach(w, fail)

\* wma_vdev_delete_handler.
Deleted(w) ==
    LET r == Found(w, "del") IN
    IF r = 0 THEN w
    ELSE Destroy(DetachCallback([Unlink(w, r) EXCEPT !.locks = {}]), r)

-----------------------------------------------------------------------------
(* Creating the device, starting the BSS *)

\* wma_vdev_attach; no request is kept, the target does not answer.
AddSelf(w, fail) ==
    CASE fail = "send"   -> Reply(w, "self_failed")
      [] fail = "memory" -> Reply(Send(Send(w, "create"), "del"), "self_failed")
      [] OTHER -> Reply([Send(w, "create") EXCEPT !.handle = TRUE, !.paused = FALSE,
                                                  !.bss_started = FALSE,
                                                  !.peer = FALSE], "self_added")

\* The interface's own peer, in txrx.
wma_create_peer(w) == [w EXCEPT !.peer = TRUE]
wma_remove_peer(w) == [w EXCEPT !.peer = FALSE]

\* wma_vdev_start: transmission resumes before the command is sent.
Unpaused(w) == [w EXCEPT !.paused = FALSE]

\* wma_add_bss_ap_mode: a peer left behind by an earlier start is an error.
AddBss(w, fail) ==
    CASE ~w.handle \/ w.peer \/ fail = "memory" -> Reply(w, "add_failed")
      [] w.handle /\ ~w.peer /\ fail = "send" -> Reply(Unpaused(w), "add_failed")
      [] OTHER -> Send(Unpaused(Fill(wma_create_peer(w), "start", FALSE)), "start")

\* wma_vdev_start_rsp: without memory for the beacon the BSS is not started, and
\* without a buffer for its frame the beacon is freed but not cleared.
wma_vdev_start_rsp(w, ok, fail) ==
    CASE ~ok -> Reply(w, "add_failed")
      [] ok /\ fail = "none" -> Reply([w EXCEPT !.bss_started = TRUE, !.stale = FALSE], "added")
      [] OTHER -> Reply([w EXCEPT !.stale = (fail = "send")], "add_failed")

\* wma_vdev_start_resp_handler.
Started(w, ok, fail) ==
    LET r == Found(w, "start")
    IN  IF r = 0 THEN w ELSE Release(wma_vdev_start_rsp(w, ok, fail), r)

-----------------------------------------------------------------------------
(* Stopping the BSS *)

\* A stop request is filled and transmission paused, then the command is sent.
FillStop(w, own) == Fill([w EXCEPT !.paused = TRUE], "stop", own)
SendStop(w, own) == Send(FillStop(w, own), "stop")

\* The command could not be sent: wma_remove_vdev_req takes the first stop on the
\* queue, which need not be the one just filled.
UnsentStop(w, own) == LET w1 == FillStop(w, own) IN Release(w1, Found(w1, "stop"))

\* wma_delete_bss.
DelBss(w, fail) ==
    CASE ~w.peer \/ ~w.handle -> Reply(w, "bss_deleted")
      [] w.peer /\ w.handle /\ fail = "none" -> SendStop(w, FALSE)
      [] w.peer /\ w.handle /\ fail = "send" ->
            Reply(wma_remove_peer(UnsentStop(w, FALSE)), "bss_deleted")
      [] OTHER -> Reply(wma_remove_peer(w), "bss_deleted")

\* What the answer and the timeout of a stop have in common: the BSS is down, the
\* beacon is freed, and a deletion that was put off is scheduled.
MutantStopDone(w, answer, fail) ==
    LET w1 == [wma_remove_peer(w) EXCEPT !.paused = FALSE, !.bss_started = FALSE,
                                         !.crashed = @ \/ w.stale, !.stale = FALSE]
    IN  IF answer THEN Reply(w1, "bss_deleted") ELSE w1
StopDone(w, answer, fail) ==
    LET w1 == [wma_remove_peer(w) EXCEPT !.paused = FALSE, !.bss_started = FALSE,
                                         !.crashed = @ \/ w.stale, !.stale = FALSE]
        w2 == IF answer THEN Reply(w1, "bss_deleted") ELSE w1
    IN  IF w.del_staself_req THEN Detach(w2, fail) ELSE w2

\* wma_vdev_stop_resp_handler: nobody waits for a stop that WMA made itself.
Stopped(w, fail) ==
    LET r == Found(w, "stop") IN
    CASE r = 0 -> w
      [] r # 0 /\ ~w.handle -> Release(w, r)
      [] OTHER -> Destroy(StopDone(Unlink(w, r), ~w.alloc[r].own, fail), r)

-----------------------------------------------------------------------------
(* wma_vdev_resp_timer *)

StartTimedOut(w, fail) ==
    CASE fail = "none" -> Reply(SendStop(w, TRUE), "add_failed")
      [] fail = "send" -> Reply(wma_remove_peer(UnsentStop(w, TRUE)), "add_failed")
      [] OTHER         -> Reply(wma_remove_peer(w), "add_failed")

MutantStopTimedOut(w, fail) ==
    IF w.handle THEN [StopDone(w, TRUE, fail) EXCEPT !.bss_started = w.bss_started]
                ELSE w
StopTimedOut(w, fail) == IF w.handle THEN StopDone(w, TRUE, fail) ELSE w

MutantDelTimedOut(w) ==
    IF w.del_staself_req THEN Reply(Zeroed(w), "self_deleted")
                         ELSE [w EXCEPT !.crashed = TRUE]
DelTimedOut(w) ==
    IF w.del_staself_req THEN Reply(Zeroed([w EXCEPT !.locks = {}]), "self_deleted")
                         ELSE [w EXCEPT !.crashed = TRUE]

\* The request found is unlinked, the request of the timer freed.
TimedOut(w, r, fail) ==
    LET kind == w.alloc[r].kind
        f  == Found(w, kind)
        w1 == Unlink(w, f)
    IN  IF kind = "none" THEN [w EXCEPT !.crashed = TRUE]
        ELSE Destroy(CASE f = 0 -> w
                       [] f # 0 /\ kind = "start" -> StartTimedOut(w1, fail)
                       [] f # 0 /\ kind = "stop"  -> StopTimedOut(w1, fail)
                       [] f # 0 /\ kind = "del"   -> DelTimedOut(w1), r)

-----------------------------------------------------------------------------
(* The MC thread *)

\* cds_mc_thread takes the next message.
McTakes ==
    /\ mc = NoMsg
    /\ ~wma.crashed
    /\ \/ sysq # <<>> /\ mc' = Timer(Head(sysq)) /\ sysq' = Tail(sysq) /\ wmaq' = wmaq
       \/ /\ sysq = <<>> /\ wmaq # <<>>
          /\ mc' = Msg(Head(wmaq)) /\ wmaq' = Tail(wmaq) /\ sysq' = sysq
    /\ UNCHANGED <<wma, fwUp, sync, past>>

Handled(fail) ==
    CASE mc.type = "timer"        -> TimedOut(wma, mc.req, fail)
      [] mc.type = "add_self"     -> AddSelf(wma, fail)
      [] mc.type = "del_self"     -> Detach(wma, fail)
      [] mc.type = "add_bss"      -> AddBss(wma, fail)
      [] mc.type = "del_bss"      -> DelBss(wma, fail)
      [] mc.type = "start_ok"     -> Started(wma, TRUE, fail)
      [] mc.type = "start_failed" -> Started(wma, FALSE, fail)
      [] mc.type = "stopped"      -> Stopped(wma, fail)
      [] mc.type = "deleted"      -> Deleted(wma)

\* The answers to a request of each kind.
AnswersTo(kind) ==
    CASE kind = "start" -> {"start_ok", "start_failed"}
      [] kind = "stop"  -> {"stopped"}
      [] kind = "del"   -> {"deleted"}
      [] OTHER -> {}

Expired(kind) == mc.type = "timer" /\ wma.alloc[mc.req].kind = kind

\* A stop cannot be made; removing its request takes another one.
TakesOther(fail) == fail = "send" /\ Found(wma, "stop") # 0
Unstopped(fail) ==
    /\ fail # "none"
    /\ \/ Expired("start")
       \/ mc.type = "del_bss" /\ wma.peer /\ wma.handle

\* What goes wrong in this step.
Happened(fail) ==
    {m \in Mishaps \ {"raced", "timer_lost", "unheard"} :
        CASE m = "late" -> \E k \in Kinds : Expired(k) /\
                              \/ k \in Range(wma.cmds)
                              \/ AnswersTo(k) \cap Range(wmaq) # {}
          [] m = "start_timed_out" -> Expired("start")
          [] m = "orphaned" -> /\ mc.type = "del_self" /\ ~wma.bss_started
                               /\ Found(wma, "stop") # 0
          [] m = "stop_unsent" -> Unstopped(fail) /\ ~TakesOther(fail)
          [] m = "misremoved" -> Unstopped(fail) /\ TakesOther(fail)
          [] m = "no_beacon" -> /\ mc.type = "start_ok" /\ fail # "none"
                                /\ Found(wma, "start") # 0
          [] m = "not_created" -> mc.type = "add_self" /\ fail # "none"}

\* The upper layers do not get the responses that are lost.
Unheard(w, lost) ==
    CASE lost = "none" -> w
      [] lost = "last" -> [w EXCEPT !.umac.self = wma.umac.self]
      [] lost = "all"  -> [w EXCEPT !.umac = wma.umac]

\* A request beyond the bound gets no memory.
McHandles(fail, lost) ==
    /\ mc # NoMsg
    /\ Free(wma) = {} => fail = "memory"
    /\ wma' = Unheard(Handled(fail), lost)
    /\ past' = past \cup Happened(fail)
                  \cup (IF wma' = Handled(fail) THEN {} ELSE {"unheard"})
    /\ Cardinality(past') <= MaxMishaps
    /\ mc' = NoMsg
    /\ UNCHANGED <<fwUp, wmaq, sysq, sync>>

\* Requests of a kind have the same timeout and expire in the order of the queue.
IsOldest(r) ==
    \A i, j \in DOMAIN wma.respq :
        i < j /\ wma.respq[j] = r /\ wma.alloc[wma.respq[i]].kind = wma.alloc[r].kind
           => ~wma.alloc[wma.respq[i]].running

\* cdf_linux_timer_callback, in a softirq: a timer that runs is stopped and
\* its message posted, unless there is no wrapper for it.
Expire(r, posted) ==
    /\ wma.alloc[r].running
    /\ IsOldest(r)
    /\ ~wma.crashed
    /\ wma' = [wma EXCEPT !.alloc[r].running = FALSE]
    /\ sysq' = IF posted THEN Append(sysq, r) ELSE sysq
    /\ past' = past \cup (IF posted THEN {} ELSE {"timer_lost"})
                   \cup (IF mc.type \in AnswersTo(wma.alloc[r].kind) THEN {"raced"} ELSE {})
    /\ Cardinality(past') <= MaxMishaps
    /\ UNCHANGED <<fwUp, wmaq, mc, sync>>

\* The wake lock of a deletion lapses, by default before its request times out.
WakeLockLapses ==
    /\ "wake" \in wma.locks
    /\ ~wma.crashed
    /\ wma' = [wma EXCEPT !.locks = @ \ {"wake"}]
    /\ UNCHANGED <<fwUp, wmaq, sysq, mc, sync, past>>

-----------------------------------------------------------------------------
(* The target and the upper layers *)

\* The target takes the next command; its answer may be lost.
TargetStep ==
    /\ wma.cmds # <<>>
    /\ ~wma.crashed
    /\ \E ok, lost \in BOOLEAN :
         LET cmd == Head(wma.cmds)
             ans == CASE cmd = "start" -> <<IF ok THEN "start_ok" ELSE "start_failed">>
                      [] cmd = "stop" -> <<"stopped">>
                      [] cmd = "del" /\ sync -> <<"deleted">>
                      [] OTHER -> <<>>
         IN  /\ fwUp' = (cmd = "start" /\ ok)
             /\ wmaq' = IF lost THEN wmaq ELSE wmaq \o ans
    /\ wma' = [wma EXCEPT !.cmds = Tail(@)]
    /\ UNCHANGED <<sysq, mc, sync, past>>

\* wma_post_ctrl_msg; a request that cannot be posted is not made.
Ask(msg, u) ==
    /\ Len(wma.cmds) < MaxCmds
    /\ Cardinality(Free(wma)) > 1
    /\ ~wma.crashed
    /\ wma' = [wma EXCEPT !.umac = u]
    /\ wmaq' = Append(wmaq, msg)
    /\ UNCHANGED <<fwUp, sysq, mc, sync, past>>

\* PE and SME ask for one thing at a time; the device is deleted when the BSS is
\* down or about to be stopped.
UmacStep ==
    \/ /\ wma.umac.self = "gone"
       /\ Ask("add_self", [wma.umac EXCEPT !.self = "adding"])
    \/ /\ wma.umac.self = "here" /\ wma.umac.bss = "none"
       /\ Ask("add_bss", [wma.umac EXCEPT !.bss = "adding"])
    \/ /\ wma.umac.self = "here" /\ wma.umac.bss = "up"
       /\ Ask("del_bss", [wma.umac EXCEPT !.bss = "deleting"])
    \/ /\ wma.umac.self = "here" /\ wma.umac.bss \in {"none", "deleting"}
       /\ Ask("del_self", [wma.umac EXCEPT !.self = "deleting"])

Next ==
    \/ McTakes
    \/ \E fail \in Failures, lost \in Losses : McHandles(fail, lost)
    \/ \E r \in Reqs, posted \in BOOLEAN : Expire(r, posted)
    \/ WakeLockLapses
    \/ TargetStep
    \/ UmacStep

Spec == Init /\ [][Next]_vars

\* The MC thread takes the next message and ends the one it handles, and timers
\* expire; the target may stay silent.  An expiry whose message is lost disables
\* Expire like any other, so that losing it keeps within the fairness.
Fairness ==
    /\ WF_vars(McTakes) /\ WF_mc(mc # NoMsg /\ mc' = NoMsg)
    /\ \A r \in Reqs : WF_vars(Expire(r, TRUE))

FairSpec == Spec /\ Fairness

-----------------------------------------------------------------------------
(* Properties *)

\* Every variable has its type.
TypeOK ==
    /\ wma \in WmaType
    /\ fwUp \in BOOLEAN
    /\ wmaq \in Seq(MsgTypes) /\ sysq \in Seq(Reqs)
    /\ mc \in {Timer(r) : r \in Reqs} \cup {Msg(t) : t \in MsgTypes \cup {"none"}}
    /\ sync \in BOOLEAN /\ past \subseteq Mishaps

\* Timer messages of a request, queued or being handled.
Expiries(r) ==
    Cardinality({i \in DOMAIN sysq : sysq[i] = r}) + (IF mc = Timer(r) THEN 1 ELSE 0)

\* A request is on the queue exactly as long as it is allocated, and while it is
\* its timer runs or has posted one message: no message refers to a freed
\* request and no request is forgotten, whatever else is lost or fails.  It does
\* not hold after an expiry at the moment its answer is handled, which leaves a
\* message to a freed request; after an expiry that finds no wrapper for its
\* message, which leaves a request without timer; and after a stop was removed in
\* the place of another, which may have posted its message.
RequestsSound ==
    past \cap {"raced", "timer_lost", "misremoved"} = {} =>
        /\ IsInjective(wma.respq)
        /\ Range(wma.respq) = Reqs \ Free(wma)
        /\ \A r \in Reqs :
              Expiries(r) = IF r \in Free(wma) \/ wma.alloc[r].running THEN 0 ELSE 1

\* PE and SME get an answer only to what they asked for, and no handler uses a
\* deletion that is over or a beacon that was freed.  A start that timed out makes
\* WMA stop the BSS by itself, and that stop may be answered; it schedules a
\* second deletion, or finds the freed beacon of a later start, only when it
\* cannot be sent or a deletion comes before its answer.
AnsweredOnce ==
    "raced" \notin past =>
        /\ wma.umac.confused => "start_timed_out" \in past
        /\ wma.crashed => "start_timed_out" \in past /\ past \cap {"orphaned", "stop_unsent"} # {}

\* Transmission is paused exactly while a stop is kept.  Runtime suspend is
\* prevented exactly while a deletion is kept that the target will answer; the
\* wake lock is held at no other time, but lapses before such a deletion times
\* out.  Stated for answers that are late or lost, starts that time out and
\* beacons without memory, and not for the other mishaps.
PauseAndLockEnd ==
    past \subseteq {"late", "start_timed_out", "no_beacon"} =>
        /\ wma.paused <=> Found(wma, "stop") # 0
        /\ "runtime" \in wma.locks <=> (sync /\ Found(wma, "del") # 0)
        /\ "wake" \in wma.locks => "runtime" \in wma.locks

Quiet == wma.cmds = <<>> /\ wmaq = <<>> /\ sysq = <<>> /\ mc = NoMsg /\ wma.respq = <<>>

\* When nothing is under way, the upper layers, WMA and the target agree whether
\* the BSS is up and the device there, after answers that were lost or said no,
\* requests that timed out and starts that WMA stopped by itself.  An answer that
\* comes after the timeout of its request, and every other mishap, is excepted.
BssAgrees ==
    (Quiet /\ past \subseteq {"start_timed_out"}) =>
        /\ wma.umac.bss = "up" <=> fwUp
        /\ wma.bss_started <=> fwUp
        /\ wma.handle <=> wma.umac.self = "here"

\* A request of PE or SME is answered in the end, also when the target does not
\* answer and when the deletion has to wait for the BSS to be stopped, unless
\* one of the other mishaps happens: after a response or a timer message that
\* could not be posted, or the deletion of a device that was not created, PE or
\* SME wait for ever.
Answered ==
    LET fine == past \subseteq {"start_timed_out"}
    IN  /\ (wma.umac.bss \in {"adding", "deleting"} /\ fine)
              ~> (wma.umac.bss \in {"none", "up"} \/ ~fine)
        /\ (wma.umac.self = "deleting" /\ fine) ~> (wma.umac.self = "gone" \/ ~fine)
=============================================================================
