---------------------------- MODULE CeRecvProofs ----------------------------
(***************************************************************************)
(* Proofs about the receive side of a copy engine, for every ring size,    *)
(* threshold and number of messages.                                       *)
(*                                                                         *)
(* BuffersConserved is not inductive alone: that a pop takes a posted      *)
(* descriptor depends on which descriptors the engine has written back.    *)
(* RingInv says so: the descriptors from sw_index up to the engine's       *)
(* write-back index hold consecutive messages, beginning with the one      *)
(* after the last that left the ring, and all others are empty.  FlowInv   *)
(* relates interrupt, schedule, tasklet and posting loop.                  *)
(***************************************************************************)
EXTENDS CeRecv, TLAPS

Bools ==
    /\ rx_pending \in BOOLEAN /\ sched \in BOOLEAN /\ irq \in BOOLEAN
    /\ status \in BOOLEAN /\ lost \in BOOLEAN /\ reset \in BOOLEAN

Types ==
    /\ write_index \in Indexes /\ sw_index \in Indexes /\ wbi \in Indexes
    /\ drri \in Indexes
    /\ desc \in [Indexes -> 0 .. MaxMsgs]
    /\ needed \in Nat /\ freed \in Nat /\ stale \in Nat
    /\ post \in [Threads -> {"off", "loop", "buf"}]
    /\ tpc \in TaskletPcs
    /\ msg \in 0 .. MaxMsgs /\ delivered \in 0 .. MaxMsgs /\ count \in Nat
    /\ checks \in 0 .. Threshold
    /\ nwb \in 0 .. MaxMsgs /\ nrd \in 0 .. MaxMsgs
    /\ phase \in Phases

PhaseInv ==
    /\ post["tasklet"] # "off" => tpc = "post"
    /\ phase # "up" => post["start"] = "off"
    /\ phase \in {"revoke", "down"} => tpc = "idle" /\ ~sched

FlowInv ==
    /\ irq => ~sched /\ tpc \in {"idle", "off"}
    /\ sched => tpc \in {"idle", "off"}
    /\ (~sched /\ tpc = "idle") => active = 0
    /\ (sched /\ tpc = "idle") => active = 1
    /\ (~sched /\ tpc # "idle") => active = 1
    /\ (sched /\ tpc # "idle") => active = 2

InHand == IF tpc \in {"cb", "post"} THEN 1 ELSE 0
Done == CE_RING_DELTA(sw_index, wbi)

RingInv ==
    /\ EngineRuns => Done <= Posted
    /\ EngineRuns => nwb = delivered + InHand + Done
    /\ EngineRuns => \A i \in Indexes :
           desc[i] = IF CE_RING_DELTA(sw_index, i) < Done
                     THEN delivered + InHand + 1 + CE_RING_DELTA(sw_index, i)
                     ELSE 0
    /\ tpc \in {"cb", "post"} => msg = delivered + 1

Inv == Types /\ PhaseInv /\ RingInv /\ BuffersConserved

\* The number of posted descriptors is a number of the ring.
LEMMA PostedType ==
    ASSUME Types
    PROVE  Posted \in 0 .. NEntries - 1 /\ Done \in 0 .. NEntries - 1
BY RingAssumption DEF Types, Posted, Done, CE_RING_DELTA, Wrap, Indexes

\* A step of the loop that posts buffers, in either thread, in its parts.
LEMMA ClaimStep ==
    ASSUME Inv, NEW t \in Threads, Claim(t)
    PROVE  Inv'
<1> USE RingAssumption, BoundAssumption
<1>1. Types'
    BY DEF Inv, Types, Claim, ring, tasklet, intr, engine, target, Threads
<1>2. PhaseInv'
    BY DEF Inv, Types, PhaseInv, Claim, ring, tasklet, intr, engine, Threads
<1>3. RingInv'
    BY DEF Inv, RingInv, Claim, ring, tasklet, intr, engine, Done, Posted,
           InHand, EngineRuns
<1>4. BuffersConserved'
  <2>1. /\ Posted' = Posted /\ Popped' = Popped /\ freed' = freed
        /\ stale' = stale /\ lost' = lost
      BY DEF Claim, ring, tasklet, target, Posted, Popped
  <2>2. needed' + Busy("start")' + Busy("tasklet")'
            = needed + Busy("start") + Busy("tasklet")
      BY DEF Inv, Types, Claim, Busy, Threads
  <2> QED BY <2>1, <2>2, PostedType
          DEF Inv, Types, BuffersConserved, Busy, Popped
<1> QED BY <1>1, <1>2, <1>3, <1>4 DEF Inv

\* A failed allocation returns its claim.
LEMMA NoBufferStep ==
    ASSUME Inv, NEW t \in Threads, NoBuffer(t)
    PROVE  Inv'
<1> USE RingAssumption, BoundAssumption
<1>1. Types'
    BY DEF Inv, Types, NoBuffer, GiveBack, ring, tasklet, intr, engine, target, Threads
<1>2. PhaseInv'
    BY DEF Inv, Types, PhaseInv, NoBuffer, ring, tasklet, intr, engine, Threads
<1>3. RingInv'
    BY DEF Inv, RingInv, NoBuffer, ring, tasklet, intr, engine, Done, Posted,
           InHand, EngineRuns
<1>4. BuffersConserved'
  <2>1. /\ Posted' = Posted /\ Popped' = Popped /\ freed' = freed
        /\ stale' = stale /\ lost' = lost
      BY DEF NoBuffer, ring, tasklet, target, Posted, Popped
  <2>2. needed' + Busy("start")' + Busy("tasklet")'
            = needed + Busy("start") + Busy("tasklet")
      BY DEF Inv, Types, NoBuffer, GiveBack, Busy, Threads
  <2> QED BY <2>1, <2>2, PostedType
          DEF Inv, Types, BuffersConserved, Busy, Popped
<1> QED BY <1>1, <1>2, <1>3, <1>4 DEF Inv

\* While there is access to the target, a thread that holds a claim finds room:
\* the claim is one of the NEntries - 1 buffers, none of which is counted twice,
\* so at most NEntries - 2 are in the ring.
LEMMA ClaimHasRoom ==
    ASSUME Inv
    PROVE  PostFindsRoom
<1> USE RingAssumption
<1>1. SUFFICES ASSUME ~lost, NEW t \in Threads, post[t] = "buf"
               PROVE  HasRoom
    BY DEF PostFindsRoom
<1>a. stale = 0
    BY <1>1 DEF Inv, Types, BuffersConserved
<1>2. Posted < NEntries - 1
    BY <1>1, <1>a DEF Inv, Types, BuffersConserved, Busy, Popped, Threads, Posted,
                CE_RING_DELTA, Wrap, Indexes
<1> QED BY <1>2 DEF Inv, Types, HasRoom, Posted, CE_RING_DELTA, Wrap, Indexes

\* A buffer that enters the ring puts an empty descriptor behind the posted
\* ones; its thread goes on, or takes it for not posted.
LEMMA EnterStep ==
    ASSUME Inv, NEW t \in Threads, post[t] = "buf", ~lost, EnterBuffer,
           \/ /\ post' = [post EXCEPT ![t] = "loop"]
              /\ UNCHANGED <<needed, lost, stale>>
           \/ /\ post' = [post EXCEPT ![t] = "off"]
              /\ needed' = needed + 1 /\ lost' = TRUE /\ stale' = stale + 1,
           UNCHANGED <<sw_index, freed, tasklet, intr, engine, phase>>
    PROVE  Inv'
<1> USE RingAssumption, BoundAssumption
<1>0. HasRoom
    BY DEF EnterBuffer
<1>1. /\ desc' = [desc EXCEPT ![write_index] = 0]
      /\ write_index' = CE_RING_IDX_INCR(write_index)
      /\ \E pc \in {"loop", "off"} : post' = [post EXCEPT ![t] = pc]
      /\ needed' \in Nat /\ stale' \in Nat
      /\ needed' - stale' = needed - stale
      /\ UNCHANGED <<sw_index, freed, tasklet, engine, phase, sched>>
    BY DEF EnterBuffer, intr, Inv, Types
<1>2. Posted' = Posted + 1
    BY <1>0, <1>1 DEF Inv, Types, HasRoom, Posted, CE_RING_DELTA,
                      CE_RING_IDX_INCR, Wrap, Indexes
<1>3. Types'
    BY <1>1 DEF Inv, Types, tasklet, engine, Threads, CE_RING_IDX_INCR, Wrap,
                Indexes
<1>4. PhaseInv'
    BY <1>1 DEF Inv, Types, PhaseInv, tasklet, Threads
<1>5. RingInv'
  <2>1. Done' = Done /\ InHand' = InHand /\ delivered' = delivered
        /\ nwb' = nwb /\ msg' = msg /\ tpc' = tpc /\ sw_index' = sw_index
        /\ EngineRuns' = EngineRuns
      BY <1>1 DEF Done, InHand, tasklet, engine, EngineRuns
  <2>2. Done \in Int /\ Posted \in Int
      BY DEF Inv, Types, Done, Posted, CE_RING_DELTA, Wrap, Indexes
  <2>3. EngineRuns => desc[write_index] = 0
    <3>1. SUFFICES ASSUME EngineRuns PROVE desc[write_index] = 0
        OBVIOUS
    <3>2. desc[write_index] = IF Posted < Done
                              THEN delivered + InHand + 1 + Posted ELSE 0
        BY <3>1 DEF Inv, Types, RingInv, Posted
    <3> QED BY <3>1, <3>2, PostedType DEF Inv, RingInv
  <2>4. EngineRuns => desc' = desc
      BY <1>1, <2>3 DEF Inv, Types
  <2> QED BY <1>2, <2>1, <2>2, <2>4 DEF Inv, RingInv
<1>6. BuffersConserved'
  <2>1. Popped' = Popped /\ freed' = freed
      BY <1>1 DEF tasklet, Popped
  <2>2. Busy("start")' + Busy("tasklet")' + 1
            = Busy("start") + Busy("tasklet")
      BY <1>1 DEF Inv, Types, Busy, Threads
  <2>3. stale = 0
      BY DEF Inv, Types, BuffersConserved
  <2>4. stale' <= (IF lost' THEN 1 ELSE 0)
      BY <2>3
  <2> QED BY <1>1, <1>2, <2>1, <2>2, <2>4, PostedType
          DEF Inv, Types, BuffersConserved, Busy, Popped
<1> QED BY <1>3, <1>4, <1>5, <1>6 DEF Inv

\* An enqueue posts its buffer, fails and returns the claim, or does both.
LEMMA EnqueueStep ==
    ASSUME Inv, NEW t \in Threads, ce_recv_buf_enqueue(t)
    PROVE  Inv'
<1> USE RingAssumption, BoundAssumption
<1>1. /\ post[t] = "buf"
      /\ UNCHANGED <<sw_index, freed, tasklet, intr, engine, phase>>
    BY DEF ce_recv_buf_enqueue
<1>2. CASE ~lost /\ EnterBuffer /\ post' = [post EXCEPT ![t] = "loop"]
           /\ UNCHANGED <<needed, lost, stale>>
    BY <1>1, <1>2, EnterStep
<1>3. CASE ~lost /\ AccessFails /\ EnterBuffer /\ Failed(t)
           /\ stale' = stale + 1
    BY <1>1, <1>3, EnterStep DEF Failed, AccessFails, GiveBack
<1>4. CASE /\ AccessFails \/ (~lost /\ ~HasRoom /\ UNCHANGED lost)
           /\ Failed(t)
           /\ UNCHANGED <<desc, write_index, stale>>
  <2>1. /\ post' = [post EXCEPT ![t] = "off"] /\ needed' = needed + 1
        /\ lost => lost'
      BY <1>4 DEF Failed, GiveBack, AccessFails
  <2>2. Types'
      BY <1>1, <1>4, <2>1 DEF Inv, Types, tasklet, engine, Threads
  <2>3. PhaseInv'
      BY <1>1, <2>1 DEF Inv, Types, PhaseInv, tasklet, intr, Threads
  <2>4. RingInv'
      BY <1>1, <1>4 DEF Inv, RingInv, tasklet, engine, Done, Posted, InHand,
                        EngineRuns
  <2>5. Posted' = Posted /\ Popped' = Popped /\ freed' = freed
        /\ stale' = stale
      BY <1>1, <1>4 DEF tasklet, Posted, Popped
  <2>6. needed' + Busy("start")' + Busy("tasklet")'
            = needed + Busy("start") + Busy("tasklet")
      BY <1>1, <2>1 DEF Inv, Types, Busy, Threads
  <2>7. stale <= (IF lost' THEN 1 ELSE 0)
      BY <2>1 DEF Inv, Types, BuffersConserved
  <2>8. BuffersConserved'
      BY <2>1, <2>5, <2>6, <2>7, PostedType
      DEF Inv, Types, BuffersConserved, Busy, Popped
  <2> QED BY <2>2, <2>3, <2>4, <2>8 DEF Inv
<1> QED BY <1>2, <1>3, <1>4 DEF ce_recv_buf_enqueue

\* The engine writes the next message back; the other half of a transfer
\* changes no descriptor.
LEMMA WriteBackKeeps ==
    ASSUME Inv, EngineRuns, nwb < MaxMsgs, wbi # write_index,
           desc' = [desc EXCEPT ![wbi] = nwb + 1],
           nwb' = nwb + 1, wbi' = CE_RING_IDX_INCR(wbi),
           nrd' \in 0 .. MaxMsgs, drri' \in Indexes,
           UNCHANGED <<write_index, sw_index, buffers, tasklet, sched, target,
                       phase>>
    PROVE  Inv'
<1> USE RingAssumption, BoundAssumption
<1>0. /\ tpc' = tpc /\ msg' = msg /\ delivered' = delivered
      /\ post' = post /\ needed' = needed /\ freed' = freed /\ phase' = phase
      /\ count' = count /\ checks' = checks
      /\ Posted' = Posted /\ InHand' = InHand /\ EngineRuns' = EngineRuns
      /\ write_index' = write_index /\ sw_index' = sw_index /\ sched' = sched
      /\ stale' = stale /\ lost' = lost
    BY DEF buffers, tasklet, target, Posted, InHand, EngineRuns
<1>1. Types'
    BY <1>0 DEF Inv, Types, CE_RING_IDX_INCR, Wrap, Indexes
<1>2. PhaseInv'
    BY <1>0 DEF Inv, PhaseInv
<1>3. Done' = Done + 1 /\ Done < Posted
    BY <1>0, SMTT(30) DEF Inv, Types, RingInv, Done, Posted, CE_RING_DELTA,
                CE_RING_IDX_INCR, Wrap, Indexes
<1>4. RingInv'
  <2>1. InHand \in Nat
      BY DEF InHand
  <2>2. ASSUME NEW i \in Indexes
        PROVE  desc'[i] = IF CE_RING_DELTA(sw_index, i) < Done + 1
                          THEN delivered + InHand + 1
                                   + CE_RING_DELTA(sw_index, i)
                          ELSE 0
    <3>1. CASE i = wbi
      <4>1. desc'[i] = nwb + 1
          BY <3>1 DEF Inv, Types
      <4> QED BY <3>1, <4>1, <2>1, PostedType DEF Inv, Types, RingInv, Done
    <3>2. CASE i # wbi
      <4>1. desc'[i] = desc[i]
          BY <3>2 DEF Inv, Types
      <4>2. CE_RING_DELTA(sw_index, i) # Done
          BY <3>2 DEF Inv, Types, Done, CE_RING_DELTA, Wrap, Indexes
      <4>3. CE_RING_DELTA(sw_index, i) \in Nat
          BY DEF Inv, Types, CE_RING_DELTA, Wrap, Indexes
      <4>4. desc[i] = IF CE_RING_DELTA(sw_index, i) < Done
                      THEN delivered + InHand + 1 + CE_RING_DELTA(sw_index, i)
                      ELSE 0
          BY DEF Inv, RingInv
      <4>5. Done \in Nat
          BY PostedType DEF Inv
      <4> HIDE DEF Done
      <4> QED BY <4>1, <4>2, <4>3, <4>4, <4>5, <2>1
    <3> QED BY <3>1, <3>2
  <2>3. (\A i \in Indexes :
            desc[i] = IF CE_RING_DELTA(sw_index, i) < Done
                      THEN delivered + InHand + 1 + CE_RING_DELTA(sw_index, i)
                      ELSE 0)'
      BY <2>2, <1>0, <1>3
  <2>4. (Done <= Posted /\ nwb = delivered + InHand + Done)'
      BY <1>0, <1>3, <2>1, PostedType DEF Inv, Types, RingInv
  <2> QED BY <2>3, <2>4, <1>0 DEF Inv, RingInv
<1>5. BuffersConserved'
    BY <1>0 DEF Inv, BuffersConserved, Busy, Popped
<1> QED BY <1>1, <1>2, <1>4, <1>5 DEF Inv

\* A step of the engine.
LEMMA EngineKeeps ==
    ASSUME Inv, EngineStep
    PROVE  Inv'
<1> USE RingAssumption, BoundAssumption
<1>1. CASE HwWriteBack
    BY <1>1, WriteBackKeeps DEF HwWriteBack, Inv, Types, intr
<1>2. CASE HwReadIndex
  <2>1. Types'
      BY <1>2 DEF HwReadIndex, Inv, Types, ring, buffers, tasklet, target,
                  CE_RING_IDX_INCR, Wrap, Indexes
  <2>2. PhaseInv' /\ RingInv' /\ BuffersConserved'
      BY <1>2 DEF HwReadIndex, Inv, ring, buffers, tasklet, target, PhaseInv,
                  RingInv, BuffersConserved, Busy, Popped, Posted, Done, InHand,
                  EngineRuns
  <2> QED BY <2>1, <2>2 DEF Inv
<1> QED BY <1>1, <1>2 DEF EngineStep

\* A pop takes a posted descriptor that holds the message after the last
\* one that left the ring.
LEMMA PopKeeps ==
    ASSUME Inv, Pop, tpc \in {"recv", "next"}, tpc' = "cb",
           UNCHANGED <<write_index, buffers, delivered, count, checks, sched,
                       engine, target, phase>>
    PROVE  Inv'
<1> USE RingAssumption, BoundAssumption
<1>0. /\ delivered' = delivered /\ post' = post /\ needed' = needed
      /\ freed' = freed /\ phase' = phase /\ count' = count
      /\ checks' = checks /\ write_index' = write_index /\ sched' = sched
      /\ nwb' = nwb /\ wbi' = wbi /\ nrd' = nrd /\ drri' = drri
      /\ stale' = stale /\ lost' = lost
    BY DEF buffers, engine, target
<1>1. EngineRuns
    BY DEF Inv, Types, PhaseInv, EngineRuns, Phases
<1>2. InHand = 0 /\ InHand' = 1 /\ Popped = 0 /\ Popped' = 1
    BY DEF InHand, Popped
<1>3. CE_RING_DELTA(sw_index, sw_index) = 0
    BY DEF Inv, Types, CE_RING_DELTA, Wrap, Indexes
<1>4. Done > 0 /\ desc[sw_index] = delivered + 1
    BY <1>1, <1>2, <1>3, PostedType DEF Inv, Types, RingInv, Pop
<1>5. Done' = Done - 1 /\ Posted' = Posted - 1
  <2>1. /\ write_index \in 0 .. NEntries - 1 /\ sw_index \in 0 .. NEntries - 1
        /\ wbi \in 0 .. NEntries - 1
        /\ 0 < Done /\ Done <= Posted
        /\ sw_index' = Wrap(sw_index + 1)
        /\ write_index' = write_index /\ wbi' = wbi
      BY <1>0, <1>1, <1>4 DEF Inv, Types, RingInv, Pop, CE_RING_IDX_INCR, Indexes
  <2> QED BY <2>1 DEF Done, Posted, CE_RING_DELTA, Wrap
<1>6. Types'
    BY <1>0 DEF Inv, Types, Pop, TaskletPcs, CE_RING_IDX_INCR, Wrap, Indexes
<1>7. PhaseInv'
    BY <1>0 DEF Inv, Types, PhaseInv, Phases, Threads
<1>8. RingInv'
  <2>1. ASSUME NEW i \in Indexes
        PROVE  desc'[i] = IF CE_RING_DELTA(sw_index', i) < Done - 1
                          THEN delivered + 2 + CE_RING_DELTA(sw_index', i)
                          ELSE 0
    <3>1. CASE i = sw_index
      <4>1. desc'[i] = 0
          BY <3>1 DEF Inv, Types, Pop
      <4>2. CE_RING_DELTA(sw_index', i) = NEntries - 1
          BY <3>1 DEF Inv, Types, Pop, CE_RING_DELTA, CE_RING_IDX_INCR, Wrap,
                      Indexes
      <4> QED BY <4>1, <4>2, PostedType DEF Inv
    <3>2. CASE i # sw_index
      <4>1. desc'[i] = desc[i]
          BY <3>2 DEF Inv, Types, Pop
      <4>2. CE_RING_DELTA(sw_index', i) = CE_RING_DELTA(sw_index, i) - 1
            /\ CE_RING_DELTA(sw_index, i) \in Nat
          BY <3>2 DEF Inv, Types, Pop, CE_RING_DELTA, CE_RING_IDX_INCR, Wrap,
                      Indexes
      <4>3. desc[i] = IF CE_RING_DELTA(sw_index, i) < Done
                      THEN delivered + 1 + CE_RING_DELTA(sw_index, i)
                      ELSE 0
          BY <1>1, <1>2 DEF Inv, Types, RingInv
      <4>4. Done \in Nat /\ delivered \in Nat
          BY PostedType DEF Inv, Types
      <4> QED BY <4>1, <4>2, <4>3, <4>4
    <3> QED BY <3>1, <3>2
  <2>2. (\A i \in Indexes :
            desc[i] = IF CE_RING_DELTA(sw_index, i) < Done
                      THEN delivered + InHand + 1 + CE_RING_DELTA(sw_index, i)
                      ELSE 0)'
    <3>1. delivered + InHand' + 1 = delivered + 2
        BY <1>2 DEF Inv, Types
    <3> QED BY <2>1, <1>0, <1>5, <3>1
  <2>3. (Done <= Posted /\ nwb = delivered + InHand + Done)'
      BY <1>0, <1>1, <1>2, <1>5, PostedType DEF Inv, Types, RingInv
  <2>4. msg' = delivered' + 1
      BY <1>0, <1>4 DEF Pop
  <2> QED BY <2>2, <2>3, <2>4 DEF RingInv
<1>9. BuffersConserved'
    BY <1>0, <1>2, <1>5, PostedType
    DEF Inv, Types, BuffersConserved, Busy
<1> QED BY <1>6, <1>7, <1>8, <1>9 DEF Inv

\* A step that leaves the ring and the buffers alone, and moves the tasklet
\* between places where it has no message in hand.
LEMMA QuietStep ==
    ASSUME Inv, UNCHANGED <<ring, buffers, msg, delivered, engine>>,
           tpc' = tpc \/ {tpc, tpc'} \cap {"cb", "post"} = {},
           tpc' \in TaskletPcs, count' \in Nat, checks' \in 0 .. Threshold,
           phase' \in Phases, PhaseInv', EngineRuns' => EngineRuns,
           stale' = stale, lost => lost'
    PROVE  Inv'
<1>0. /\ delivered' = delivered /\ post' = post /\ needed' = needed
      /\ freed' = freed /\ write_index' = write_index /\ sw_index' = sw_index
      /\ desc' = desc /\ msg' = msg
      /\ nwb' = nwb /\ wbi' = wbi /\ nrd' = nrd /\ drri' = drri
    BY DEF ring, buffers, engine
<1>1. InHand' = InHand /\ Popped' = Popped
    BY DEF InHand, Popped
<1>2. Types'
    BY <1>0 DEF Inv, Types
<1>3. RingInv'
    BY <1>0, <1>1 DEF Inv, RingInv, Done, Posted
<1>4. BuffersConserved'
    BY <1>0, <1>1 DEF Inv, Types, BuffersConserved, Busy, Posted
<1> QED BY <1>2, <1>3, <1>4 DEF Inv

\* A step of the tasklet.
LEMMA TaskletKeeps ==
    ASSUME Inv, TaskletStep
    PROVE  Inv'
<1> USE RingAssumption, BoundAssumption
<1>1. CASE ce_tasklet
  <2>1. PhaseInv'
      BY <1>1 DEF ce_tasklet, Inv, Types, PhaseInv, ring, buffers
  <2> QED BY <1>1, <2>1, QuietStep
          DEF ce_tasklet, AccessFails, Inv, Types, TaskletPcs, EngineRuns
<1>2. CASE ServiceRecv
  <2>1. CASE Pop /\ tpc' = "cb"
      BY <1>2, <2>1, PopKeeps DEF ServiceRecv, intr
  <2>2. CASE NothingToPop /\ tpc' = "clear"
    <3>1. PhaseInv'
        BY <1>2, <2>2 DEF ServiceRecv, NothingToPop, Inv, Types, PhaseInv,
                          buffers, intr
    <3> QED BY <1>2, <2>2, <3>1, QuietStep
            DEF ServiceRecv, NothingToPop, Inv, Types, TaskletPcs, target, EngineRuns,
                ring
  <2> QED BY <1>2, <2>1, <2>2 DEF ServiceRecv
<1>3. CASE RecvData
  <2>1. Types' /\ PhaseInv'
      BY <1>3 DEF RecvData, Inv, Types, PhaseInv, ring, intr, engine, target,
                  TaskletPcs, Threads
  <2>2. Posted' = Posted /\ Done' = Done /\ InHand' = InHand
        /\ Popped = 1 /\ Popped' = 0 /\ EngineRuns' = EngineRuns
      BY <1>3 DEF RecvData, Posted, Done, InHand, Popped, EngineRuns, ring,
                  engine
  <2>3. RingInv'
      BY <1>3, <2>2 DEF RecvData, Inv, RingInv, ring, engine
  <2>4. Busy("start")' = Busy("start") /\ Busy("tasklet")' = 0
        /\ Busy("tasklet") = 0
      BY <1>3 DEF RecvData, Inv, Types, PhaseInv, Busy, Threads
  <2>5. BuffersConserved'
      BY <1>3, <2>2, <2>4, PostedType
      DEF RecvData, Inv, Types, BuffersConserved, Busy, target
  <2> QED BY <2>1, <2>3, <2>5 DEF Inv
<1>4. CASE Deliver
  <2>0. /\ UNCHANGED <<ring, buffers, msg, engine, target, phase, sched>>
        /\ delivered' = msg /\ tpc = "post" /\ post["tasklet"] = "off"
        /\ tpc' \in {"exit", "next"} /\ count' = count + 1
        /\ checks' = checks
      BY <1>4 DEF Deliver, intr
  <2>1. Types' /\ PhaseInv'
      BY <2>0 DEF Inv, Types, PhaseInv, ring, buffers, engine, target,
                  TaskletPcs
  <2>2. Posted' = Posted /\ Done' = Done /\ InHand' = 0 /\ InHand = 1
        /\ Popped = 0 /\ Popped' = 0 /\ EngineRuns' = EngineRuns
      BY <2>0 DEF Posted, Done, InHand, Popped, EngineRuns, ring, engine
  <2>3. delivered' + InHand' = delivered + InHand
      BY <2>0, <2>2 DEF Inv, Types, RingInv
  <2>4. RingInv'
      BY <2>0, <2>2, <2>3 DEF Inv, RingInv, ring, engine
  <2>5. BuffersConserved'
      BY <2>0, <2>2 DEF Inv, BuffersConserved, Busy, buffers, target
  <2> QED BY <2>1, <2>4, <2>5 DEF Inv
<1>5. CASE RecvDataNext
  <2>1. CASE Pop /\ tpc' = "cb"
      BY <1>5, <2>1, PopKeeps DEF RecvDataNext, intr
  <2>2. CASE NothingToPop /\ tpc' = "recv"
    <3>1. PhaseInv'
        BY <1>5, <2>2 DEF RecvDataNext, NothingToPop, Inv, Types, PhaseInv,
                          buffers, intr
    <3> QED BY <1>5, <2>2, <3>1, QuietStep
            DEF RecvDataNext, NothingToPop, Inv, Types, TaskletPcs, target,
                EngineRuns, ring
  <2> QED BY <1>5, <2>1, <2>2 DEF RecvDataNext
<1>6. CASE ClearStatus
  <2>1. PhaseInv'
      BY <1>6 DEF ClearStatus, Inv, Types, PhaseInv, buffers
  <2> QED BY <1>6, <2>1, QuietStep
          DEF ClearStatus, Inv, Types, TaskletPcs, target, EngineRuns
<1>7. CASE CheckAgain
  <2>1. PhaseInv'
      BY <1>7 DEF CheckAgain, Inv, Types, PhaseInv, buffers, intr
  <2>2. checks' \in 0 .. Threshold /\ tpc' \in {"recv", "exit"}
      BY <1>7 DEF CheckAgain, Inv, Types
  <2> QED BY <1>7, <2>1, <2>2, QuietStep
          DEF CheckAgain, Inv, Types, TaskletPcs, target, EngineRuns
<1>8. CASE ServiceExit
  <2>0. tpc = "exit" /\ tpc' \in {"idle", "off"}
        /\ UNCHANGED <<ring, buffers, msg, delivered, count, checks, engine,
                       target, phase>>
      BY <1>8 DEF ServiceExit
  <2>1. PhaseInv'
      BY <2>0 DEF Inv, Types, PhaseInv, buffers
  <2> QED BY <2>0, <2>1, QuietStep DEF Inv, Types, TaskletPcs, target, EngineRuns
<1>9. CASE CountOff
  <2>1. PhaseInv'
      BY <1>9 DEF CountOff, Inv, Types, PhaseInv, buffers
  <2> QED BY <1>9, <2>1, QuietStep
          DEF CountOff, Inv, Types, TaskletPcs, target, EngineRuns
<1> QED BY <1>1, <1>2, <1>3, <1>4, <1>5, <1>6, <1>7, <1>8, <1>9
        DEF TaskletStep

\* The interrupt and the steps of unload.
LEMMA UnloadKeeps ==
    ASSUME Inv, ce_irq_handler \/ ol_target_failure \/ hif_nointrs \/ ce_tasklet_kill
                \/ ce_revoke_recv_next
    PROVE  Inv'
<1> USE RingAssumption, BoundAssumption
<1>1. CASE ce_irq_handler
  <2>1. PhaseInv'
      BY <1>1 DEF ce_irq_handler, Inv, Types, PhaseInv, buffers, tasklet
  <2> QED BY <1>1, <2>1, QuietStep
          DEF ce_irq_handler, Inv, Types, TaskletPcs, target, EngineRuns, tasklet
<1>5. CASE ol_target_failure
  <2>1. PhaseInv'
      BY <1>5 DEF ol_target_failure, Inv, Types, PhaseInv, buffers, tasklet, intr
  <2> QED BY <1>5, <2>1, QuietStep
          DEF ol_target_failure, Inv, Types, EngineRuns, tasklet
<1>2. CASE hif_nointrs
  <2>1. PhaseInv'
      BY <1>2 DEF hif_nointrs, Inv, Types, PhaseInv, buffers, tasklet, intr
  <2> QED BY <1>2, <2>1, QuietStep
          DEF hif_nointrs, Inv, Types, TaskletPcs, target, EngineRuns, tasklet, Phases
<1>3. CASE ce_tasklet_kill
  <2>1. PhaseInv'
      BY <1>3 DEF ce_tasklet_kill, Inv, Types, PhaseInv, buffers, tasklet
  <2> QED BY <1>3, <2>1, QuietStep
          DEF ce_tasklet_kill, Inv, Types, TaskletPcs, target, EngineRuns, tasklet,
              Phases
<1>4. CASE ce_revoke_recv_next
  <2>0. /\ UNCHANGED <<write_index, desc, needed, post, tasklet, intr, engine,
                       target>>
        /\ phase = "revoke" /\ phase' \in {"revoke", "down"}
        /\ \/ write_index # sw_index /\ freed' = freed + 1
              /\ sw_index' = CE_RING_IDX_INCR(sw_index)
           \/ UNCHANGED <<sw_index, freed>>
      BY <1>4 DEF ce_revoke_recv_next
  <2>1. Types' /\ PhaseInv'
      BY <2>0 DEF Inv, Types, PhaseInv, tasklet, intr, engine, target, Phases,
                  CE_RING_IDX_INCR, Wrap, Indexes
  <2>2. RingInv'
      BY <2>0 DEF Inv, RingInv, EngineRuns, tasklet
  <2>3. \/ Posted' = Posted - 1 /\ freed' = freed + 1
        \/ Posted' = Posted /\ freed' = freed
    <3>1. CASE write_index # sw_index /\ freed' = freed + 1
               /\ sw_index' = CE_RING_IDX_INCR(sw_index)
        BY <2>0, <3>1 DEF Inv, Types, Posted, CE_RING_DELTA,
                          CE_RING_IDX_INCR, Wrap, Indexes
    <3>2. CASE UNCHANGED <<sw_index, freed>>
        BY <2>0, <3>2 DEF Posted
    <3> QED BY <2>0, <3>1, <3>2
  <2>4. Popped' = Popped /\ Busy("start")' = Busy("start")
        /\ Busy("tasklet")' = Busy("tasklet") /\ needed' = needed
        /\ stale' = stale /\ lost' = lost
      BY <2>0 DEF Popped, Busy, tasklet, target
  <2>5. Posted \in Int
      BY PostedType DEF Inv
  <2>6. BuffersConserved'
      BY <2>1, <2>3, <2>4, <2>5
      DEF Inv, Types, BuffersConserved, Busy, Popped
  <2> QED BY <2>1, <2>2, <2>6 DEF Inv
<1> QED BY <1>1, <1>2, <1>3, <1>4, <1>5

\* The invariant holds in every state of every behaviour.
THEOREM Invariance == Spec => []Inv
<1>1. Init => Inv
  <2> SUFFICES ASSUME Init PROVE Inv
      OBVIOUS
  <2> USE RingAssumption, BoundAssumption
  <2>1. Types
      BY DEF Init, Types, Indexes, Threads, TaskletPcs, Phases
  <2>2. PhaseInv
      BY DEF Init, PhaseInv, Threads
  <2>3. Posted = 0 /\ Done = 0 /\ InHand = 0 /\ Popped = 0
        /\ Busy("start") = 0 /\ Busy("tasklet") = 0
      BY DEF Init, Posted, Done, InHand, Popped, Busy, CE_RING_DELTA, Wrap,
             Threads
  <2>4. \A i \in Indexes : CE_RING_DELTA(sw_index, i) >= 0
      BY DEF Init, CE_RING_DELTA, Wrap, Indexes
  <2>5. RingInv
    <3>1. nwb = 0 /\ delivered = 0 /\ tpc = "idle"
          /\ \A i \in Indexes : desc[i] = 0
        BY DEF Init
    <3>2. \A i \in Indexes : ~(CE_RING_DELTA(sw_index, i) < Done)
        BY <2>3, <2>4 DEF Init, CE_RING_DELTA, Wrap, Indexes
    <3> QED BY <2>3, <3>1, <3>2 DEF RingInv
  <2>6. BuffersConserved
      BY <2>3 DEF Init, BuffersConserved
  <2> QED BY <2>1, <2>2, <2>5, <2>6 DEF Inv
<1>2. Inv /\ [Next]_vars => Inv'
  <2> SUFFICES ASSUME Inv, [Next]_vars PROVE Inv'
      OBVIOUS
  <2>1. CASE UNCHANGED vars
    <3>1. PhaseInv'
        BY <2>1 DEF vars, Inv, PhaseInv, buffers, tasklet, intr
    <3> QED BY <2>1, <3>1, QuietStep
            DEF vars, Inv, Types, EngineRuns, tasklet, target
  <2>2. ASSUME NEW t \in Threads, PostStep(t) PROVE Inv'
      BY <2>2, ClaimStep, NoBufferStep, EnqueueStep DEF PostStep
  <2> QED BY <2>1, <2>2, EngineKeeps, TaskletKeeps, UnloadKeeps DEF Next
<1> QED BY <1>1, <1>2, PTL DEF Spec

\* Receive buffers are conserved, for every ring size, but for one that is
\* counted twice if access to the target is lost at the END of its enqueue.
THEOREM ConservedAlways == Spec => []BuffersConserved
<1>1. Inv => BuffersConserved
    BY DEF Inv
<1> QED BY <1>1, Invariance, PTL

\* CDF_ASSERT(status == CDF_STATUS_SUCCESS) after ce_recv_buf_enqueue holds as
\* long as there is access to the target.
THEOREM RoomAlways == Spec => []PostFindsRoom
<1>1. Inv => PostFindsRoom
    BY ClaimHasRoom
<1> QED BY <1>1, Invariance, PTL

\* Every message is handed up once and in the order of arrival.
THEOREM DeliveredInOrder == Spec => InOrder
<1>1. Inv /\ [Next]_vars => [delivered' # delivered
                                => delivered' = delivered + 1]_vars
  <2> SUFFICES ASSUME Inv, Next
               PROVE  delivered' # delivered => delivered' = delivered + 1
      OBVIOUS
  <2>1. CASE Deliver
      BY <2>1 DEF Deliver, Inv, RingInv
  <2>2. CASE TaskletStep /\ ~Deliver
      BY <2>2 DEF TaskletStep, ce_tasklet, ServiceRecv, RecvData, RecvDataNext,
                  ClearStatus, CheckAgain, ServiceExit, CountOff
  <2>3. ASSUME NEW t \in Threads, PostStep(t) PROVE delivered' = delivered
      BY <2>3 DEF PostStep, Claim, NoBuffer, ce_recv_buf_enqueue, tasklet
  <2>4. CASE EngineStep
      BY <2>4 DEF EngineStep, HwWriteBack, HwReadIndex, tasklet
  <2>5. CASE ce_irq_handler \/ ol_target_failure \/ hif_nointrs \/ ce_tasklet_kill
             \/ ce_revoke_recv_next
      BY <2>5 DEF ce_irq_handler, ol_target_failure, hif_nointrs, ce_tasklet_kill,
                  ce_revoke_recv_next, tasklet
  <2> QED BY <2>1, <2>2, <2>3, <2>4, <2>5 DEF Next
<1> QED BY <1>1, Invariance, PTL DEF Spec, InOrder

\* The flags stay Boolean.
THEOREM FlagsTyped == Spec => []Bools
<1>1. Init => Bools
    BY DEF Init, Bools
<1>2. Bools /\ [Next]_vars => Bools'
  <2> SUFFICES ASSUME Bools, [Next]_vars PROVE Bools'
      OBVIOUS
  <2> USE DEF Bools
  <2>1. CASE UNCHANGED vars
      BY <2>1, Zenon DEF vars, tasklet, intr, target
  <2>2. ASSUME NEW t \in Threads, PostStep(t) PROVE Bools'
      BY <2>2, Zenon
      DEF PostStep, Claim, NoBuffer, ce_recv_buf_enqueue, AccessFails, tasklet, intr, target
  <2>3. CASE EngineStep
      BY <2>3, Zenon
      DEF EngineStep, HwWriteBack, HwReadIndex, tasklet, intr, target
  <2>4. CASE ce_irq_handler \/ ol_target_failure \/ hif_nointrs \/ ce_tasklet_kill
             \/ ce_revoke_recv_next
      BY <2>4, Zenon DEF ce_irq_handler, ol_target_failure, hif_nointrs, ce_tasklet_kill,
                         ce_revoke_recv_next, tasklet, intr, target
  <2>5. CASE ce_tasklet \/ ServiceRecv \/ RecvData \/ RecvDataNext
      BY <2>5, Zenon DEF ce_tasklet, AccessFails, ServiceRecv, RecvData,
                         RecvDataNext, intr, target
  <2>6. CASE Deliver \/ ClearStatus \/ CheckAgain
      BY <2>6, Zenon DEF Deliver, ClearStatus, CheckAgain, intr, target
  <2>7. CASE ServiceExit \/ CountOff
      BY <2>7, Zenon DEF ServiceExit, CountOff, target
  <2> QED BY <2>1, <2>2, <2>3, <2>4, <2>5, <2>6, <2>7 DEF Next, TaskletStep
<1> QED BY <1>1, <1>2, PTL DEF Spec

\* Interrupt, schedule and tasklet take turns, and active_tasklet_cnt
\* counts the tasklet that runs and the one that is scheduled.
THEOREM TurnsTaken == Spec => []FlowInv
<1>1. Init => FlowInv
    BY DEF Init, FlowInv
<1>2. Inv /\ Bools /\ Bools' /\ FlowInv /\ [Next]_vars => FlowInv'
  <2> SUFFICES ASSUME Inv, Bools, Bools', FlowInv, [Next]_vars PROVE FlowInv'
      OBVIOUS
  <2> USE DEF FlowInv
  <2>1. CASE UNCHANGED <<tpc, sched, active, irq>>
      BY <2>1
  <2>2. ASSUME NEW t \in Threads, PostStep(t)
        PROVE  UNCHANGED <<tpc, sched, active, irq>>
      BY <2>2 DEF PostStep, Claim, NoBuffer, ce_recv_buf_enqueue, tasklet, intr
  <2>3. EngineStep => UNCHANGED <<tpc, sched, active, irq>>
      BY DEF EngineStep, HwWriteBack, HwReadIndex, tasklet, intr
  <2>4. ol_target_failure \/ hif_nointrs \/ ce_revoke_recv_next
            => UNCHANGED <<tpc, sched, active, irq>>
      BY DEF ol_target_failure, hif_nointrs, ce_revoke_recv_next, tasklet, intr
  <2>5. ASSUME UNCHANGED <<sched, active, irq>>, tpc # "idle", tpc' # "idle",
               tpc # "off", tpc' # "off"
        PROVE  FlowInv'
      BY <2>5
  <2>6. CASE ServiceRecv \/ RecvData \/ RecvDataNext \/ Deliver
             \/ ClearStatus \/ CheckAgain
      BY <2>5, <2>6 DEF ServiceRecv, RecvData, RecvDataNext, Deliver,
                        ClearStatus, CheckAgain, intr
  <2>7. CASE ce_tasklet
      BY <2>7 DEF ce_tasklet
  <2>8. CASE ce_irq_handler
      BY <2>8 DEF ce_irq_handler, IrqCount, tasklet
  <2>9. CASE ce_tasklet_kill
      BY <2>9 DEF ce_tasklet_kill, tasklet
  <2>10. CASE ServiceExit
      BY <2>10 DEF ServiceExit
  <2>11. CASE CountOff
      BY <2>11 DEF CountOff
  <2> QED BY <2>1, <2>2, <2>3, <2>4, <2>6, <2>7, <2>8, <2>9, <2>10, <2>11
          DEF Next, TaskletStep, vars, tasklet, intr
<1> QED BY <1>1, <1>2, Invariance, FlagsTyped, PTL DEF Spec

\* A zero active_tasklet_cnt means that no tasklet runs or is scheduled.
THEOREM DrainedAlways == Spec => []DrainedIsIdle
<1>1. FlowInv => DrainedIsIdle
    BY DEF FlowInv, DrainedIsIdle
<1> QED BY <1>1, TurnsTaken, PTL

\* Type correctness.
THEOREM TypeCorrect == Spec => []TypeOK
<1>1. Inv /\ Bools /\ FlowInv => TypeOK
  <2> SUFFICES ASSUME Inv, Bools, FlowInv PROVE TypeOK
      OBVIOUS
  <2>1. needed \in 0 .. NEntries /\ freed \in 0 .. NEntries /\ stale \in 0 .. 1
      BY RingAssumption, PostedType
      DEF Inv, Types, BuffersConserved, Busy, Popped
  <2>2. active \in 0 .. 2
    <3>1. active = 0 \/ active = 1 \/ active = 2
        BY DEF FlowInv
    <3> QED BY <3>1
  <2>3. rx_pending \in BOOLEAN /\ sched \in BOOLEAN /\ irq \in BOOLEAN
        /\ status \in BOOLEAN /\ lost \in BOOLEAN /\ reset \in BOOLEAN
      BY DEF Bools
  <2> QED BY <2>1, <2>2, <2>3, Zenon DEF Inv, Types, TypeOK
<1> QED BY <1>1, Invariance, FlagsTyped, TurnsTaken, PTL
=============================================================================
