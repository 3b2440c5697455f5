--------------------------- MODULE CdsSchedProofs ---------------------------
(***************************************************************************)
(* Proofs about the suspend handshake of the CDS scheduler.                *)
(*                                                                         *)
(* The argument is a token.  A thread that is not parked has no token; one *)
(* that is parked has exactly one, and it is in one of three places: a     *)
(* confirmation that nobody has consumed, the "is suspended" flag, or a    *)
(* resume event that the thread has not consumed.  Every step moves the    *)
(* token, makes one when the thread parks or takes it when it leaves, even *)
(* when a suspend call has given up and a later one consumes the late      *)
(* confirmation.  The other half of the argument is that a restart or an   *)
(* unload touches the threads only when no suspend call is under way.      *)
(*                                                                         *)
(* The second part keeps an account for each pool of elements.             *)
(***************************************************************************)
EXTENDS CdsSched, FiniteSetTheorems, TLAPS

Bits == {"post", "suspend", "shutdown"}
Open == {"run", "guests", "isr"}

HandshakeTypes ==
    /\ flags \in [Workers -> SUBSET Bits]
    /\ pc \in [Workers -> ThreadPcs]
    /\ confirmed \in [Workers -> Nat]
    /\ resumed \in [Workers -> Nat]
    /\ hdd \in CallPcs
    /\ closer \in ClosePcs
    /\ suspended \subseteq Workers

Counted == protect = (IF hdd = "idle" THEN 0 ELSE 1)

Guests ==
    /\ Counted
    /\ hdd \in {"suspend mc", "mc?", "rx?", "mc late", "rx late", "wake threads"}
           => closer \in {"run", "guests"}
    /\ hdd \in {"rx?", "rx late"} => "mc" \in suspended

Stopped ==
    \A w \in Workers :
        ("shutdown" \in flags[w] \/ pc[w] = "gone") => closer \notin Open

Place(w, c, r, s) == confirmed[w] = c /\ resumed[w] = r /\ (w \in suspended <=> s)

Token ==
    \A w \in Workers :
        /\ pc[w] = "parked" =>
               \/ Place(w, 1, 0, FALSE)
               \/ Place(w, 0, 1, FALSE)
               \/ Place(w, 0, 0, TRUE)
        /\ pc[w] \notin {"parked", "gone"} => Place(w, 0, 0, FALSE)
        /\ pc[w] = "gone" => w \notin suspended

HandshakeInv == HandshakeTypes /\ Guests /\ Stopped /\ Token

\* It holds when the scheduler has just been opened.
LEMMA InitHandshake == Init => HandshakeInv
  BY DEF Init, HandshakeInv, HandshakeTypes, Guests, Counted, Stopped, Token, Bits, Open,
         Place, ThreadPcs, CallPcs, ClosePcs, Workers

USE DEF Workers

\* A step of a thread keeps the handshake's invariant: the token appears when
\* the thread confirms and disappears when it consumes its resume event.
LEMMA ThreadKeeps ==
  ASSUME HandshakeInv, NEW w \in Workers, ThreadStep(w)
  PROVE  HandshakeInv'
<1> USE DEF HandshakeInv, calls, closing, handshake, Goto
<1>1. CASE ThreadWakes(w)
  <2>1. HandshakeTypes'  BY <1>1 DEF ThreadWakes, HandshakeTypes, Bits, ThreadPcs
  <2>2. Guests'  BY <1>1 DEF ThreadWakes, Guests, Counted
  <2>3. Stopped'  BY <1>1 DEF ThreadWakes, Stopped, HandshakeTypes
  <2>4. Token'  BY <1>1 DEF ThreadWakes, Token, Place, HandshakeTypes
  <2> QED  BY <2>1, <2>2, <2>3, <2>4
<1>2. CASE ThreadLoop(w)
  <2>1. HandshakeTypes'  BY <1>2 DEF ThreadLoop, HandshakeTypes, Bits, ThreadPcs
  <2>2. Guests'  BY <1>2 DEF ThreadLoop, Guests, Counted
  <2>3. Stopped'  BY <1>2 DEF ThreadLoop, Stopped, HandshakeTypes
  <2>4. Token'  BY <1>2 DEF ThreadLoop, Token, Place, HandshakeTypes
  <2> QED  BY <2>1, <2>2, <2>3, <2>4
<1>3. CASE ThreadLooks(w)
  <2>1. HandshakeTypes'  BY <1>3 DEF ThreadLooks, HandshakeTypes, Bits, ThreadPcs
  <2>2. Guests'  BY <1>3 DEF ThreadLooks, Guests, Counted
  <2>3. Stopped'  BY <1>3 DEF ThreadLooks, Stopped, HandshakeTypes
  <2>4. Token'  BY <1>3 DEF ThreadLooks, Token, Place, HandshakeTypes
  <2> QED  BY <2>1, <2>2, <2>3, <2>4
<1>4. CASE ThreadWorks(w)
  <2>1. HandshakeTypes'  BY <1>4 DEF ThreadWorks, HandshakeTypes, Bits, ThreadPcs
  <2>2. Guests'  BY <1>4 DEF ThreadWorks, Guests, Counted
  <2>3. Stopped'  BY <1>4 DEF ThreadWorks, Stopped, HandshakeTypes
  <2>4. Token'  BY <1>4 DEF ThreadWorks, Token, Place, HandshakeTypes
  <2> QED  BY <2>1, <2>2, <2>3, <2>4
<1>5. CASE ThreadTestsSuspend(w)
  <2>1. HandshakeTypes'  BY <1>5 DEF ThreadTestsSuspend, HandshakeTypes, Bits, ThreadPcs
  <2>2. Guests'  BY <1>5 DEF ThreadTestsSuspend, Guests, Counted
  <2>3. Stopped'  BY <1>5 DEF ThreadTestsSuspend, Stopped, HandshakeTypes
  <2>4. Token'  BY <1>5 DEF ThreadTestsSuspend, Token, Place, HandshakeTypes
  <2> QED  BY <2>1, <2>2, <2>3, <2>4
<1>6. CASE ThreadConfirms(w)
  <2>1. HandshakeTypes'  BY <1>6 DEF ThreadConfirms, HandshakeTypes, Bits, ThreadPcs
  <2>2. Guests'  BY <1>6 DEF ThreadConfirms, Guests, Counted
  <2>3. Stopped'  BY <1>6 DEF ThreadConfirms, Stopped, HandshakeTypes
  <2>4. Token'  BY <1>6 DEF ThreadConfirms, Token, Place, HandshakeTypes
  <2> QED  BY <2>1, <2>2, <2>3, <2>4
<1>7. CASE ThreadResumes(w)
  <2>1. HandshakeTypes'  BY <1>7 DEF ThreadResumes, HandshakeTypes, Bits, ThreadPcs
  <2>2. Guests'  BY <1>7 DEF ThreadResumes, Guests, Counted
  <2>3. Stopped'  BY <1>7 DEF ThreadResumes, Stopped, HandshakeTypes
  <2>4. Token'  BY <1>7 DEF ThreadResumes, Token, Place, HandshakeTypes
  <2> QED  BY <2>1, <2>2, <2>3, <2>4
<1> QED  BY <1>1, <1>2, <1>3, <1>4, <1>5, <1>6, <1>7 DEF ThreadStep


\* Posting and dropping only raise the post bit.
LEMMA PostKeeps ==
  ASSUME HandshakeInv,
         \/ \E p \in Posters : (\E q \in AllQueues : PostFrom(p, q)) \/ PosterStep(p)
         \/ \E s \in Stations : DropStation(s)
         \/ FreeDropped
  PROVE  HandshakeInv'
<1> USE DEF HandshakeInv, calls, closing, handshake, threads
<1>1. CASE \E p \in Posters : WakeFrom(p)
  <2> PICK p \in Posters : WakeFrom(p)  BY <1>1
  <2> DEFINE o == Owner(ptq[p])
  <2>0. o \in Workers  BY DEF Owner
  <2>1. HandshakeTypes'
    BY <2>0 DEF WakeFrom, HandshakeTypes, Bits
  <2>2. Guests'  BY DEF WakeFrom, Guests, Counted
  <2>3. Stopped'
    BY <2>0 DEF WakeFrom, Stopped, HandshakeTypes
  <2>4. Token'  BY DEF WakeFrom, Token, Place
  <2> QED  BY <2>1, <2>2, <2>3, <2>4
<1>2. CASE UNCHANGED <<threads, handshake, calls, closing>>
  BY <1>2 DEF HandshakeTypes, Guests, Counted, Stopped, Token, Place
<1>3. (\E p \in Posters : WakeFrom(p)) \/ UNCHANGED <<threads, handshake, calls, closing>>
  BY DEF PosterStep, PostFrom, PutFrom, DropStation, FreeDropped
<1> QED  BY <1>1, <1>2, <1>3

\* Waking the threads turns every raised flag into a resume event.
LEMMA WakeMoves ==
  ASSUME HandshakeTypes, Token, WakeThreads, UNCHANGED <<pc, confirmed>>
  PROVE  Token' /\ resumed' \in [Workers -> Nat]
<1>1. \A w \in Workers : resumed[w] \in Nat  BY DEF HandshakeTypes
<1>2. resumed' \in [Workers -> Nat]  BY <1>1 DEF WakeThreads
<1>3. \A w \in Workers :
          resumed'[w] = IF w \in suspended THEN resumed[w] + 1 ELSE resumed[w]
  BY DEF WakeThreads
<1>4. suspended' = {}  BY DEF WakeThreads
<1>5. Token'  BY <1>3, <1>4 DEF Token, Place
<1> QED  BY <1>2, <1>5

\* The suspend and resume calls move the token between the confirmation, the
\* flag and the resume event.
LEMMA CallKeeps ==
  ASSUME HandshakeInv, suspend_wlan \/ resume_wlan \/ CallStep
  PROVE  HandshakeInv'
<1> USE DEF HandshakeInv, calls, closing, handshake, threads
<1>1. CASE suspend_wlan
  <2> Enter("suspend")  BY <1>1, Zenon DEF suspend_wlan
  <2>1. HandshakeTypes'  BY DEF Enter, HandshakeTypes, CallPcs
  <2>2. Guests'  BY DEF Enter, Guests, Counted
  <2>3. Stopped'  BY DEF Enter, Stopped
  <2>4. Token'  BY DEF Enter, Token, Place
  <2> QED  BY <2>1, <2>2, <2>3, <2>4
<1>2. CASE resume_wlan
  <2> Enter("resume")  BY <1>2, Zenon DEF resume_wlan
  <2>1. HandshakeTypes'  BY DEF Enter, HandshakeTypes, CallPcs
  <2>2. Guests'  BY DEF Enter, Guests, Counted
  <2>3. Stopped'  BY DEF Enter, Stopped
  <2>4. Token'  BY DEF Enter, Token, Place
  <2> QED  BY <2>1, <2>2, <2>3, <2>4
<1>3. CASE SuspendMc
  <2>1. HandshakeTypes'  BY <1>3 DEF SuspendMc, HandshakeTypes, CallPcs, ClosePcs, Bits
  <2>2. Guests'  BY <1>3 DEF SuspendMc, Guests, Counted, HandshakeTypes
  <2>3. Stopped'
    <3>0. flags' = flags \/ flags' = [flags EXCEPT !["mc"] = flags["mc"] \cup {"suspend"}]
      BY <1>3 DEF SuspendMc
    <3>1. \A w \in Workers : "shutdown" \in flags'[w] => "shutdown" \in flags[w]
      BY <3>0 DEF HandshakeTypes
    <3>2. pc' = pc /\ closer' = closer  BY <1>3 DEF SuspendMc
    <3> QED  BY <3>1, <3>2 DEF Stopped
  <2>4. Token'  BY <1>3 DEF SuspendMc, Token, Place, HandshakeTypes, Guests, Stopped, Open
  <2> QED  BY <2>1, <2>2, <2>3, <2>4
<1>4. CASE McConfirmed
  <2>1. HandshakeTypes'
    <3>1. flags' \in [Workers -> SUBSET Bits]
      BY <1>4 DEF McConfirmed, HandshakeTypes, Bits
    <3>2. confirmed' \in [Workers -> Nat]
      BY <1>4 DEF McConfirmed, HandshakeTypes, Bits
    <3>3. resumed' \in [Workers -> Nat]
      BY <1>4 DEF McConfirmed, HandshakeTypes, Bits
    <3>4. pc' \in [Workers -> ThreadPcs] /\ hdd' \in CallPcs /\ closer' \in ClosePcs
          /\ suspended' \subseteq Workers
      BY <1>4 DEF McConfirmed, HandshakeTypes, CallPcs
    <3> QED  BY <3>1, <3>2, <3>3, <3>4 DEF HandshakeTypes
  <2>2. Guests'  BY <1>4 DEF McConfirmed, Guests, Counted, HandshakeTypes
  <2>3. Stopped'  BY <1>4 DEF McConfirmed, Stopped, HandshakeTypes, Guests, Open
  <2>4. Token'  BY <1>4 DEF McConfirmed, Token, Place, HandshakeTypes, Guests, Stopped, Open
  <2> QED  BY <2>1, <2>2, <2>3, <2>4
<1>5. CASE RxConfirmed
  <2>1. HandshakeTypes'
    <3>1. flags' \in [Workers -> SUBSET Bits]
      BY <1>5 DEF RxConfirmed, HandshakeTypes, Bits
    <3>2. confirmed' \in [Workers -> Nat]
      BY <1>5 DEF RxConfirmed, HandshakeTypes, Bits
    <3>3. resumed' \in [Workers -> Nat]
      BY <1>5 DEF RxConfirmed, HandshakeTypes, Bits
    <3>4. pc' \in [Workers -> ThreadPcs] /\ hdd' \in CallPcs /\ closer' \in ClosePcs
          /\ suspended' \subseteq Workers
      BY <1>5 DEF RxConfirmed, HandshakeTypes, CallPcs
    <3> QED  BY <3>1, <3>2, <3>3, <3>4 DEF HandshakeTypes
  <2>2. Guests'  BY <1>5 DEF RxConfirmed, Guests, Counted, HandshakeTypes
  <2>3. Stopped'  BY <1>5 DEF RxConfirmed, Stopped, HandshakeTypes, Guests, Open
  <2>4. Token'  BY <1>5 DEF RxConfirmed, Token, Place, HandshakeTypes, Guests, Stopped, Open
  <2> QED  BY <2>1, <2>2, <2>3, <2>4
<1>6. CASE TimeOut
  <2>1. HandshakeTypes'  BY <1>6 DEF TimeOut, HandshakeTypes, CallPcs, ClosePcs, Bits
  <2>2. Guests'  BY <1>6 DEF TimeOut, Guests, Counted, HandshakeTypes
  <2>3. Stopped'  BY <1>6 DEF TimeOut, Stopped, HandshakeTypes, Guests, Open
  <2>4. Token'  BY <1>6 DEF TimeOut, Token, Place, HandshakeTypes, Guests, Stopped, Open
  <2> QED  BY <2>1, <2>2, <2>3, <2>4
<1>7. CASE McLate
  <2>1. HandshakeTypes'  BY <1>7 DEF McLate, HandshakeTypes, CallPcs, ClosePcs, Bits
  <2>2. Guests'  BY <1>7 DEF McLate, Guests, Counted, HandshakeTypes
  <2>3. Stopped'  BY <1>7 DEF McLate, Stopped, HandshakeTypes, Guests, Open
  <2>4. Token'  BY <1>7 DEF McLate, Token, Place, HandshakeTypes, Guests, Stopped, Open
  <2> QED  BY <2>1, <2>2, <2>3, <2>4
<1>8. CASE RxLate
  <2>1. HandshakeTypes'
    <3>1. flags' \in [Workers -> SUBSET Bits]
      BY <1>8 DEF RxLate, HandshakeTypes, Bits
    <3>2. confirmed' \in [Workers -> Nat]
      BY <1>8 DEF RxLate, HandshakeTypes, Bits
    <3>3. resumed' \in [Workers -> Nat]
      <4>1. resumed["mc"] \in Nat  BY DEF HandshakeTypes
      <4>2. resumed' = [resumed EXCEPT !["mc"] = resumed["mc"] + 1]
        BY <1>8 DEF RxLate
      <4> QED  BY <4>1, <4>2 DEF HandshakeTypes
    <3>4. pc' \in [Workers -> ThreadPcs] /\ hdd' \in CallPcs /\ closer' \in ClosePcs
          /\ suspended' \subseteq Workers
      BY <1>8 DEF RxLate, HandshakeTypes, CallPcs
    <3> QED  BY <3>1, <3>2, <3>3, <3>4 DEF HandshakeTypes
  <2>2. Guests'  BY <1>8 DEF RxLate, Guests, Counted, HandshakeTypes
  <2>3. Stopped'  BY <1>8 DEF RxLate, Stopped, HandshakeTypes, Guests, Open
  <2>4. Token'
    <3>1. pc["mc"] = "parked" /\ Place("mc", 0, 0, TRUE)
      BY <1>8 DEF RxLate, Token, Place, HandshakeTypes, Guests, ThreadPcs
    <3>2. Place("mc", 0, 1, FALSE)'
      <4>0. resumed' = [resumed EXCEPT !["mc"] = resumed["mc"] + 1]
        BY <1>8 DEF RxLate
      <4>1. resumed' = [resumed EXCEPT !["mc"] = 1]  BY <3>1, <4>0 DEF Place
      <4>2. confirmed' = confirmed /\ "mc" \notin suspended'  BY <1>8 DEF RxLate
      <4> QED  BY <3>1, <4>1, <4>2 DEF Place, HandshakeTypes
    <3>3. pc' = pc /\ confirmed' = confirmed /\ resumed'["rx"] = resumed["rx"]
          /\ ("rx" \in suspended' <=> "rx" \in suspended)
      BY <1>8 DEF RxLate, HandshakeTypes
    <3> QED  BY <3>1, <3>2, <3>3 DEF Token, Place
  <2> QED  BY <2>1, <2>2, <2>3, <2>4
<1>9. CASE ResumeThreads
  <2>1. HandshakeTypes'
    <3>1. flags' \in [Workers -> SUBSET Bits]
      BY <1>9 DEF ResumeThreads, HandshakeTypes, Bits, WakeThreads
    <3>2. confirmed' \in [Workers -> Nat]
      BY <1>9 DEF ResumeThreads, HandshakeTypes, Bits, WakeThreads
    <3>3. resumed' \in [Workers -> Nat]
      BY <1>9, WakeMoves DEF ResumeThreads
    <3>4. pc' \in [Workers -> ThreadPcs] /\ hdd' \in CallPcs /\ closer' \in ClosePcs
          /\ suspended' \subseteq Workers
      BY <1>9 DEF ResumeThreads, HandshakeTypes, CallPcs, WakeThreads
    <3> QED  BY <3>1, <3>2, <3>3, <3>4 DEF HandshakeTypes
  <2>2. Guests'  BY <1>9 DEF ResumeThreads, Guests, Counted, HandshakeTypes, WakeThreads
  <2>3. Stopped'  BY <1>9 DEF ResumeThreads, Stopped, HandshakeTypes, Guests, Open, WakeThreads
  <2>4. Token'  BY <1>9, WakeMoves DEF ResumeThreads
  <2> QED  BY <2>1, <2>2, <2>3, <2>4
<1>10. CASE Leave
  <2>1. HandshakeTypes'  BY <1>10 DEF Leave, HandshakeTypes, CallPcs, ClosePcs, Bits
  <2>2. Guests'  BY <1>10 DEF Leave, Guests, Counted, HandshakeTypes
  <2>3. Stopped'  BY <1>10 DEF Leave, Stopped, HandshakeTypes, Guests, Open
  <2>4. Token'  BY <1>10 DEF Leave, Token, Place, HandshakeTypes, Guests, Stopped, Open
  <2> QED  BY <2>1, <2>2, <2>3, <2>4
<1>11. CASE validate_context
  <2>1. HandshakeTypes'
    BY <1>11 DEF validate_context, HandshakeTypes, CallPcs, ClosePcs, Bits
  <2>2. Guests'  BY <1>11 DEF validate_context, Guests, Counted, HandshakeTypes
  <2>3. Stopped'  BY <1>11 DEF validate_context, Stopped, HandshakeTypes
  <2>4. Token'  BY <1>11 DEF validate_context, Token, Place, HandshakeTypes
  <2> QED  BY <2>1, <2>2, <2>3, <2>4
<1> QED
  BY <1>1, <1>2, <1>3, <1>4, <1>5, <1>6, <1>7, <1>8, <1>9, <1>10, <1>11 DEF CallStep

\* A restart or an unload: the threads are told to leave only when no call is
\* under way, and a restart turns every raised flag into a resume event.
LEMMA CloseKeeps ==
  ASSUME HandshakeInv, GuestsLeft => protect = 0,
         (\E k \in {"ssr", "unload"} : BeginClose(k)) \/ CloseStep
  PROVE  HandshakeInv'
<1> USE DEF HandshakeInv, calls, closing, handshake, threads
<1>1. CASE \E k \in {"ssr", "unload"} : BeginClose(k)
  <2>1. HandshakeTypes'  BY <1>1 DEF BeginClose, HandshakeTypes, CallPcs, ClosePcs, Bits
  <2>2. Guests'  BY <1>1 DEF BeginClose, Guests, Counted, HandshakeTypes
  <2>3. Stopped'  BY <1>1 DEF BeginClose, Stopped, HandshakeTypes, Guests, Open
  <2>4. Token'  BY <1>1 DEF BeginClose, Token, Place, HandshakeTypes, Guests, Stopped, Open
  <2> QED  BY <2>1, <2>2, <2>3, <2>4
<1>2. CASE WaitForGuests
  <2>0. protect = 0  BY <1>2 DEF WaitForGuests
  <2>1. HandshakeTypes'  BY <1>2 DEF WaitForGuests, HandshakeTypes, CallPcs, ClosePcs, Bits
  <2>2. Guests'
    <3>1. Counted  BY DEF Guests
    <3>2. hdd = "idle"  BY <2>0, <3>1 DEF Counted
    <3> QED  BY <1>2, <3>2, <3>1 DEF WaitForGuests, Guests, Counted
  <2>3. Stopped'  BY <1>2 DEF WaitForGuests, Stopped, HandshakeTypes, Guests, Open
  <2>4. Token'  BY <1>2 DEF WaitForGuests, Token, Place, HandshakeTypes, Guests, Stopped, Open
  <2> QED  BY <2>1, <2>2, <2>3, <2>4
<1>3. CASE DisableIsr
  <2>1. HandshakeTypes'
    <3>1. flags' \in [Workers -> SUBSET Bits]
      BY <1>3 DEF DisableIsr, HandshakeTypes, Bits, WakeThreads, ClosePcs
    <3>2. confirmed' \in [Workers -> Nat]
      BY <1>3 DEF DisableIsr, HandshakeTypes, Bits, WakeThreads, ClosePcs
    <3>3. resumed' \in [Workers -> Nat]
      BY <1>3, WakeMoves DEF DisableIsr, HandshakeTypes
    <3>4. pc' \in [Workers -> ThreadPcs] /\ hdd' \in CallPcs /\ closer' \in ClosePcs
          /\ suspended' \subseteq Workers
      BY <1>3 DEF DisableIsr, HandshakeTypes, CallPcs, WakeThreads, ClosePcs
    <3> QED  BY <3>1, <3>2, <3>3, <3>4 DEF HandshakeTypes
  <2>2. Guests'  BY <1>3 DEF DisableIsr, Guests, Counted, HandshakeTypes, WakeThreads
  <2>3. Stopped'  BY <1>3 DEF DisableIsr, Stopped, HandshakeTypes, Guests, Open, WakeThreads
  <2>4. Token'
    <3>1. CASE WakeThreads  BY <1>3, <3>1, WakeMoves DEF DisableIsr
    <3>2. CASE UNCHANGED <<resumed, suspended>>
      BY <1>3, <3>2 DEF DisableIsr, Token, Place
    <3> QED  BY <1>3, <3>1, <3>2 DEF DisableIsr
  <2> QED  BY <2>1, <2>2, <2>3, <2>4
<1>4. CASE \E w \in Workers : StopThread(w)
  <2> PICK w \in Workers, i \in 1 .. 2 :
          /\ closer = StopPcs(w)[i]
          /\ flags' = [flags EXCEPT ![w] = @ \cup {StopBits[i]}]
          /\ closer' = StopPcs(w)[i + 1]
          /\ UNCHANGED <<pc, look, data, handshake, calls, kind>>
    BY <1>4 DEF StopThread
  <2>a. StopBits[i] \in Bits
    BY DEF StopBits, Bits
  <2>b. closer \in ClosePcs \ Open /\ closer' \in ClosePcs \ Open
    <3>1. \A j \in 1 .. 3 :
              /\ StopPcs("mc")[j] \in {"stop mc", "wake mc", "mc gone?"}
              /\ StopPcs("rx")[j] \in {"stop rx", "wake rx", "rx gone?"}
      <4>1. StopPcs("mc") = <<"stop mc", "wake mc", "mc gone?">>  BY DEF StopPcs
      <4>2. StopPcs("rx") = <<"stop rx", "wake rx", "rx gone?">>  BY DEF StopPcs
      <4>3. /\ \A j \in 1 .. 3 : <<"stop mc", "wake mc", "mc gone?">>[j]
                    \in {"stop mc", "wake mc", "mc gone?"}
            /\ \A j \in 1 .. 3 : <<"stop rx", "wake rx", "rx gone?">>[j]
                    \in {"stop rx", "wake rx", "rx gone?"}
        OBVIOUS
      <4> QED  BY <4>1, <4>2, <4>3
    <3>2. i \in 1 .. 3 /\ i + 1 \in 1 .. 3  OBVIOUS
    <3>3. CASE w = "mc"  BY <3>1, <3>2, <3>3 DEF ClosePcs, Open
    <3>4. CASE w = "rx"  BY <3>1, <3>2, <3>4 DEF ClosePcs, Open
    <3> QED  BY <3>3, <3>4
  <2>1. HandshakeTypes'  BY <2>a, <2>b DEF HandshakeTypes
  <2>2. Guests'  BY <2>b DEF Guests, Counted, Open
  <2>3. Stopped'  BY <2>b DEF Stopped
  <2>4. Token'  BY DEF Token, Place
  <2> QED  BY <2>1, <2>2, <2>3, <2>4
<1>5. CASE McGone
  <2>1. HandshakeTypes'  BY <1>5 DEF McGone, HandshakeTypes, CallPcs, ClosePcs, Bits, Flush
  <2>2. Guests'  BY <1>5 DEF McGone, Guests, Counted, HandshakeTypes, Flush
  <2>3. Stopped'  BY <1>5 DEF McGone, Stopped, HandshakeTypes, Guests, Open, Flush
  <2>4. Token'  BY <1>5 DEF McGone, Token, Place, HandshakeTypes, Guests, Stopped, Open, Flush
  <2> QED  BY <2>1, <2>2, <2>3, <2>4
<1>6. CASE RxGone
  <2>1. HandshakeTypes'  BY <1>6 DEF RxGone, HandshakeTypes, CallPcs, ClosePcs, Bits, Flush
  <2>2. Guests'  BY <1>6 DEF RxGone, Guests, Counted, HandshakeTypes, Flush
  <2>3. Stopped'  BY <1>6 DEF RxGone, Stopped, HandshakeTypes, Guests, Open, Flush
  <2>4. Token'  BY <1>6 DEF RxGone, Token, Place, HandshakeTypes, Guests, Stopped, Open, Flush
  <2> QED  BY <2>1, <2>2, <2>3, <2>4
<1> QED  BY <1>1, <1>2, <1>3, <1>4, <1>5, <1>6 DEF CloseStep

\* The handshake's invariant, for every number of suspends, posters and
\* queues, when the wait for external threads does not give up.
THEOREM HandshakeSafe == ASSUME ~Impatient PROVE Spec => []HandshakeInv
<1>1. HandshakeInv /\ [Next]_vars => HandshakeInv'
  <2> SUFFICES ASSUME HandshakeInv, [Next]_vars PROVE HandshakeInv'
    OBVIOUS
  <2>1. CASE UNCHANGED vars
    BY <2>1 DEF vars, threads, handshake, calls, closing, HandshakeInv,
                HandshakeTypes, Guests, Counted, Stopped, Token, Place
  <2>2. CASE Next
    <3>1. GuestsLeft => protect = 0  BY Zenon DEF GuestsLeft
    <3> QED  BY <2>2, <3>1, ThreadKeeps, PostKeeps, CallKeeps, CloseKeeps DEF Next
  <2> QED  BY <2>1, <2>2
<1> QED  BY InitHandshake, <1>1, PTL DEF Spec

\* A thread that the driver takes for suspended is parked, with no resume
\* event pending, however many suspend calls have timed out before
\* (wlan_hdd_power.c, cds_sched.c).
THEOREM QuietAlways == ASSUME ~Impatient PROVE Spec => []SuspendedQuiet
<1>1. HandshakeInv => SuspendedQuiet
  BY DEF HandshakeInv, HandshakeTypes, Token, Place, SuspendedQuiet, ThreadPcs
<1> QED  BY HandshakeSafe, <1>1, PTL

\* No suspend or resume call that passed wlan_hdd_validate_context is under
\* way when the threads are stopped.
THEOREM NoGuestAlways == ASSUME ~Impatient PROVE Spec => []NoGuestWhenStopped
<1>1. HandshakeInv => NoGuestWhenStopped
  BY DEF HandshakeInv, HandshakeTypes, Guests, NoGuestWhenStopped, CallPcs
<1> QED  BY HandshakeSafe, <1>1, PTL


----------------------------------------------------------------------------
(* Without timeouts a request to park is in one place at a time (the       *)
(* suspend bit, the thread on its way to confirm, the confirmation), and   *)
(* the suspend call waits for it all the time.                             *)

Waits(w) == IF w = "mc" THEN "mc?" ELSE "rx?"

RequestOf(w) ==
    /\ "suspend" \in flags[w] =>
           hdd = Waits(w) /\ pc[w] # "confirm" /\ confirmed[w] = 0
    /\ pc[w] = "confirm" => hdd = Waits(w) /\ confirmed[w] = 0
    /\ confirmed[w] # 0 => hdd = Waits(w)

Request ==
    /\ hdd \notin {"mc late", "rx late"}
    /\ \A w \in Workers : RequestOf(w)

\* A thread that leaves with no suspend asked for confirms nothing.
LEMMA LeaveEffect ==
  ASSUME HandshakeTypes, NEW w \in Workers, ThreadLoop(w),
         "shutdown" \in flags[w], "suspend" \notin flags[w], confirmed[w] = 0
  PROVE  pc'[w] = "gone" /\ confirmed'[w] = 0 /\ "suspend" \notin flags'[w]
<1>1. pc'[w] = "gone"  BY DEF ThreadLoop, Goto, HandshakeTypes
<1>2. confirmed' = [confirmed EXCEPT ![w] = 0]  BY DEF ThreadLoop
<1>3. confirmed'[w] = 0  BY <1>2 DEF HandshakeTypes
<1>4. "suspend" \notin flags'[w]
  <2>1. flags' = [flags EXCEPT ![w] = @ \ ({"suspend"} \cup
                      IF w = "rx" THEN {"shutdown"} ELSE {})]
    BY DEF ThreadLoop
  <2> QED  BY <2>1 DEF HandshakeTypes
<1> QED  BY <1>1, <1>3, <1>4

\* The test takes the suspend bit.
LEMMA TestEffect ==
  ASSUME HandshakeTypes, NEW w \in Workers, ThreadTestsSuspend(w)
  PROVE  confirmed' = confirmed /\ "suspend" \notin flags'[w]
<1>1. CASE "suspend" \in flags[w]
  <2>1. flags' = [flags EXCEPT ![w] = @ \ {"suspend"}]
    BY <1>1 DEF ThreadTestsSuspend
  <2> QED  BY <2>1 DEF ThreadTestsSuspend, HandshakeTypes, handshake
<1>2. CASE "suspend" \notin flags[w]
  BY <1>2 DEF ThreadTestsSuspend, handshake
<1> QED  BY <1>1, <1>2

\* Stopping a thread asks for no suspend.
LEMMA StopEffect ==
  ASSUME NEW i \in 1 .. 2 PROVE StopBits[i] \in {"shutdown", "post"}
BY DEF StopBits

\* One step of the scheduler keeps the request in one place.
LEMMA RequestKept ==
  ASSUME HandshakeInv, Request, Next, ~TimeOut
  PROVE  Request'
<1> USE DEF Request, RequestOf, HandshakeInv, HandshakeTypes, Waits, calls,
            closing, handshake, threads
<1>0. hdd \notin {"mc?", "rx?"} =>
          \A v \in Workers :
              "suspend" \notin flags[v] /\ pc[v] # "confirm" /\ confirmed[v] = 0
  OBVIOUS
<1>1. ASSUME NEW w \in Workers, ThreadStep(w) PROVE Request'
  <2> USE DEF Goto
  <2>a. \A v \in Workers \ {w} :
            flags'[v] = flags[v] /\ pc'[v] = pc[v] /\ confirmed'[v] = confirmed[v]
    BY <1>1 DEF ThreadStep, ThreadWakes, ThreadLoop, ThreadLooks, ThreadWorks,
                ThreadTestsSuspend, ThreadConfirms, ThreadResumes
  <2>b. hdd' = hdd
    BY <1>1 DEF ThreadStep, ThreadWakes, ThreadLoop, ThreadLooks, ThreadWorks,
                ThreadTestsSuspend, ThreadConfirms, ThreadResumes
  <2>c. \A v \in Workers \ {w} : RequestOf(v)'  BY <2>a, <2>b
  <2>1. CASE ThreadWakes(w)
    <3>1. pc'[w] = "loop" /\ confirmed' = confirmed  BY <2>1 DEF ThreadWakes
    <3>2. "suspend" \in flags'[w] => "suspend" \in flags[w]  BY <2>1 DEF ThreadWakes
    <3> QED  BY <2>b, <2>c, <3>1, <3>2
  <2>2. CASE ThreadLoop(w)
    <3>1. CASE "shutdown" \in flags[w]
      <4>1. hdd \notin {"mc?", "rx?"}
        BY <3>1 DEF Guests, Stopped, Open
      <4>2. "suspend" \notin flags[w] /\ confirmed[w] = 0  BY <1>0, <4>1
      <4>3. pc'[w] = "gone" /\ confirmed'[w] = 0 /\ "suspend" \notin flags'[w]
        BY <2>2, <3>1, <4>2, LeaveEffect
      <4> QED  BY <2>b, <2>c, <4>3
    <3>2. CASE "shutdown" \notin flags[w]
      <4>1. pc'[w] = "look" /\ confirmed' = confirmed /\ flags' = flags
        BY <2>2, <3>2 DEF ThreadLoop
      <4> QED  BY <2>b, <2>c, <4>1
    <3> QED  BY <3>1, <3>2
  <2>3. CASE ThreadLooks(w)  BY <2>b, <2>c, <2>3 DEF ThreadLooks
  <2>4. CASE ThreadWorks(w)
    <3>1. pc'[w] # "confirm" /\ confirmed' = confirmed /\ flags' = flags
      BY <2>4 DEF ThreadWorks
    <3> QED  BY <2>b, <2>c, <3>1
  <2>5. CASE ThreadTestsSuspend(w)
    <3>1. confirmed' = confirmed /\ "suspend" \notin flags'[w]
      BY <2>5, TestEffect
    <3>2. pc'[w] = "confirm" => "suspend" \in flags[w]
      BY <2>5 DEF ThreadTestsSuspend
    <3> QED  BY <2>b, <2>c, <3>1, <3>2
  <2>6. CASE ThreadConfirms(w)  BY <2>b, <2>c, <2>6 DEF ThreadConfirms
  <2>7. CASE ThreadResumes(w)  BY <2>b, <2>c, <2>7 DEF ThreadResumes
  <2> QED  BY <1>1, <2>1, <2>2, <2>3, <2>4, <2>5, <2>6, <2>7 DEF ThreadStep
<1>2. CASE \E p \in Posters : WakeFrom(p)
  <2> PICK p \in Posters : WakeFrom(p)  BY <1>2
  <2> DEFINE o == Owner(ptq[p])
  <2>0. o \in Workers  BY DEF Owner
  <2> QED  BY <2>0 DEF WakeFrom
<1>3. CASE UNCHANGED <<threads, handshake, calls, closing>>  BY <1>3
<1>4. CASE suspend_wlan \/ resume_wlan
  <2>1. Enter("suspend") \/ Enter("resume")
    BY <1>4, Zenon DEF suspend_wlan, resume_wlan
  <2> QED  BY <1>0, <2>1 DEF Enter
<1>5. CASE SuspendMc
  <2>1. RequestOf("rx")'  BY <1>0, <1>5 DEF SuspendMc
  <2>2. RequestOf("mc")'  BY <1>0, <1>5 DEF SuspendMc
  <2> QED  BY <1>5, <2>1, <2>2 DEF SuspendMc
<1>6. CASE McConfirmed  BY <1>6 DEF McConfirmed, Token, Place, Guests, Stopped, Open
<1>7. CASE RxConfirmed  BY <1>7 DEF RxConfirmed, Token, Place, Guests, Stopped, Open
<1>8. CASE McLate  BY <1>8 DEF McLate
<1>9. CASE RxLate  BY <1>9 DEF RxLate
<1>10. CASE ResumeThreads  BY <1>10 DEF ResumeThreads, WakeThreads
<1>11. CASE Leave \/ validate_context  BY <1>11 DEF Leave, validate_context
<1>12. CASE \E k \in {"ssr", "unload"} : BeginClose(k)  BY <1>12 DEF BeginClose
<1>13. CASE WaitForGuests  BY <1>13 DEF WaitForGuests
<1>14. CASE DisableIsr  BY <1>14 DEF DisableIsr, WakeThreads
<1>15. CASE McGone  BY <1>15 DEF McGone, Flush
<1>16. CASE RxGone  BY <1>16 DEF RxGone, Flush
<1>17. CASE \E w \in Workers : StopThread(w)
  <2> PICK w \in Workers, i \in 1 .. 2 :
          /\ flags' = [flags EXCEPT ![w] = @ \cup {StopBits[i]}]
          /\ UNCHANGED <<pc, look, data, handshake, calls, kind>>
    BY <1>17 DEF StopThread
  <2>1. StopBits[i] \in {"shutdown", "post"}  BY StopEffect
  <2> QED  BY <2>1
<1> QED
  <2>1. CASE \E w \in Workers : ThreadStep(w)  BY <1>1, <2>1
  <2>2. CASE \/ \E p \in Posters :
                   (\E q \in AllQueues : PostFrom(p, q)) \/ PosterStep(p)
             \/ \E s \in Stations : DropStation(s)
             \/ FreeDropped
    BY <1>2, <1>3, <2>2 DEF PosterStep, PostFrom, PutFrom, DropStation, FreeDropped
  <2>3. CASE suspend_wlan \/ resume_wlan \/ CallStep
    BY <1>4, <1>5, <1>6, <1>7, <1>8, <1>9, <1>10, <1>11, <2>3 DEF CallStep
  <2>4. CASE (\E k \in {"ssr", "unload"} : BeginClose(k)) \/ CloseStep
    BY <1>12, <1>13, <1>14, <1>15, <1>16, <1>17, <2>4 DEF CloseStep
  <2> QED  BY <2>1, <2>2, <2>3, <2>4 DEF Next

\* A suspend call that gave up is not forgotten.
LEMMA LateStays == ASSUME Next PROVE late => late'
<1> USE DEF calls
<1>1. CASE \E w \in Workers : ThreadStep(w)
  BY <1>1 DEF ThreadStep, ThreadWakes, ThreadLoop, ThreadLooks, ThreadWorks,
              ThreadTestsSuspend, ThreadConfirms, ThreadResumes
<1>2. CASE \/ \E p \in Posters :
                 (\E q \in AllQueues : PostFrom(p, q)) \/ PosterStep(p)
           \/ \E s \in Stations : DropStation(s)
           \/ FreeDropped
  BY <1>2 DEF PosterStep, PostFrom, PutFrom, WakeFrom, DropStation, FreeDropped
<1>3. CASE suspend_wlan \/ resume_wlan \/ CallStep
  BY <1>3 DEF suspend_wlan, resume_wlan, Enter, CallStep, validate_context, SuspendMc, McConfirmed,
              RxConfirmed, TimeOut, McLate, RxLate, ResumeThreads, Leave
<1>4. CASE (\E k \in {"ssr", "unload"} : BeginClose(k)) \/ CloseStep
  BY <1>4 DEF BeginClose, CloseStep, WaitForGuests, DisableIsr, StopThread, McGone,
              RxGone, Flush
<1> QED  BY <1>1, <1>2, <1>3, <1>4 DEF Next

\* As long as no suspend call has given up, a parked thread has someone to wake
\* it: a pending resume event, the flag that resume and restart consult, or the
\* suspend call that is about to set it.
THEOREM WakesAlways ==
  ASSUME ~Impatient PROVE Spec => []SomeoneWakes
<1>1. Init => late \/ Request
  BY DEF Init, Request, RequestOf
<1>2. HandshakeInv /\ (late \/ Request) /\ [Next]_vars => (late \/ Request)'
  <2> SUFFICES ASSUME HandshakeInv, late \/ Request, [Next]_vars
               PROVE  late' \/ Request'
    OBVIOUS
  <2>1. CASE TimeOut  BY <2>1 DEF TimeOut
  <2>2. CASE UNCHANGED vars
    BY <2>2 DEF vars, threads, handshake, calls, closing, Request, RequestOf, Waits
  <2>3. CASE Next /\ late  BY <2>3, LateStays
  <2>4. CASE Next /\ ~TimeOut /\ Request  BY <2>4, RequestKept
  <2> QED  BY <2>1, <2>2, <2>3, <2>4
<1>3. HandshakeInv /\ (late \/ Request) => SomeoneWakes
  <2> SUFFICES ASSUME HandshakeInv, Request, NEW w \in Workers,
                      pc[w] \in {"confirm", "parked"}
               PROVE  \/ pc[w] = "parked" /\ resumed[w] > 0
                      \/ w \in suspended
                      \/ hdd = Waits(w)
    BY DEF SomeoneWakes, Waits
  <2>1. CASE pc[w] = "confirm"  BY <2>1 DEF Request, RequestOf
  <2>2. CASE pc[w] = "parked"
    <3>1. CASE Place(w, 1, 0, FALSE)
      <4>1. RequestOf(w)  BY DEF Request
      <4>2. confirmed[w] = 1  BY <3>1 DEF Place
      <4> QED  BY <4>1, <4>2 DEF RequestOf
    <3>2. CASE Place(w, 0, 1, FALSE)  BY <2>2, <3>2 DEF Place
    <3>3. CASE Place(w, 0, 0, TRUE)  BY <3>3 DEF Place
    <3> QED  BY <2>2, <3>1, <3>2, <3>3 DEF HandshakeInv, Token
  <2> QED  BY <2>1, <2>2
<1> QED  BY HandshakeSafe, <1>1, <1>2, <1>3, PTL DEF Spec


----------------------------------------------------------------------------
(***************************************************************************)
(* Message wrappers and packet descriptors are conserved.                  *)
(***************************************************************************)

\* A list is a sequence.
IsList(list) == Len(list) \in Nat /\ list = [i \in 1 .. Len(list) |-> list[i]]

\* An element in the hands of the thread, and one on the local list.
InHand(w) == IF pc[w] = "work" THEN 1 ELSE 0
Dropped(w) == IF w = "rx" THEN dropping ELSE 0

\* The type of the variables that count or hold elements.
PoolTypes ==
    /\ free \in [Workers -> Int] /\ dropping \in Int
    /\ pc \in [Workers -> ThreadPcs]
    /\ look \in [Workers -> Nat \ {0}]
    /\ DOMAIN queue = AllQueues
    /\ \A q \in AllQueues : IsList(queue[q])
    /\ ppc \in [Posters -> {"idle", "put", "set"}]
    /\ ptq \in [Posters -> AllQueues]

\* The elements of a pool are a finite number, and none is missing.
Account(w) ==
    /\ IsFiniteSet(Places(w)) /\ IsFiniteSet(Posting(w))
    /\ free[w] + Queued(w) + Cardinality(Posting(w)) + InHand(w) + Dropped(w) = PoolSize[w]

PoolInv == PoolTypes /\ \A w \in Workers : Account(w)

\* Every queue has an owner, and "rx" is no queue of the mc thread.
LEMMA Owners ==
    /\ \A q \in AllQueues : Owner(q) \in Workers
    /\ "rx" \in AllQueues
    /\ \A q \in AllQueues : Owner(q) = "rx" <=> q = "rx"
    /\ \A w \in Workers : \A i \in Nat \ {0} : i <= Len(Queues(w)) =>
           Queues(w)[i] \in AllQueues /\ Owner(Queues(w)[i]) = w
<1>1. \A i \in 1 .. Len(McQueues) : McQueues[i] \in Range(McQueues) /\ McQueues[i] # "rx"
  BY QueueAssumption DEF Range
<1>2. Len(McQueues) \in Nat
  BY QueueAssumption
<1>3. ASSUME NEW w \in Workers, NEW i \in Nat \ {0}, i <= Len(Queues(w))
      PROVE  Queues(w)[i] \in AllQueues /\ Owner(Queues(w)[i]) = w
  <2>1. CASE w = "mc"
    BY <1>1, <1>2, <1>3, <2>1 DEF Queues, AllQueues, Owner
  <2>2. CASE w = "rx"
    BY <1>3, <2>2 DEF Queues, AllQueues, Owner
  <2> QED
    BY <2>1, <2>2
<1> QED
  BY <1>3 DEF Owner, AllQueues

\* A thread has finitely many queues.
LEMMA LookLen == \A w \in Workers : Len(Queues(w)) \in Nat
  BY QueueAssumption DEF Queues

\* Lists are what sequence operators expect; appending and taking the head change
\* their length by one.
LEMMA Lists ==
    ASSUME NEW list, IsList(list)
    PROVE  /\ DOMAIN list = 1 .. Len(list)
           /\ \A x : IsList(Append(list, x)) /\ Len(Append(list, x)) = Len(list) + 1
           /\ list # <<>> => /\ IsList(Tail(list)) /\ Len(list) > 0
                             /\ Len(Tail(list)) = Len(list) - 1
<1>0. ASSUME NEW T, NEW l \in Seq(T) PROVE IsList(l)
  <2>1. l \in [1 .. Len(l) -> T] /\ Len(l) \in Nat
    OBVIOUS
  <2>2. l = [i \in 1 .. Len(l) |-> l[i]]
    BY <2>1
  <2> QED
    BY <2>1, <2>2 DEF IsList
<1>1. PICK S : list \in Seq(S)
  <2> DEFINE S == {list[i] : i \in 1 .. Len(list)}
  <2>1. list \in [1 .. Len(list) -> S]
    BY DEF IsList
  <2>2. list \in Seq(S)
    BY <2>1 DEF IsList
  <2> QED
    BY <2>2
<1>2. DOMAIN list = 1 .. Len(list)
  BY <1>1
<1>3. ASSUME NEW x PROVE IsList(Append(list, x)) /\ Len(Append(list, x)) = Len(list) + 1
  <2>1. list \in Seq(S \cup {x})
    BY <1>1
  <2>2. Append(list, x) \in Seq(S \cup {x})
    BY <2>1
  <2>3. IsList(Append(list, x))
    BY <2>2, <1>0
  <2> QED
    BY <2>1, <2>3
<1>4. ASSUME list # <<>>
      PROVE  IsList(Tail(list)) /\ Len(list) > 0 /\ Len(Tail(list)) = Len(list) - 1
  <2>1. Tail(list) \in Seq(S) /\ Len(list) > 0
    BY <1>1, <1>4
  <2>2. IsList(Tail(list))
    BY <2>1, <1>0
  <2> QED
    BY <1>1, <1>4, <2>1, <2>2
<1> QED
  BY <1>2, <1>3, <1>4

\* What a queue that gets longer or shorter by one does to the places.
LEMMA PlacesChange ==
    ASSUME PoolTypes, NEW q \in AllQueues, NEW list,
           queue' = [queue EXCEPT ![q] = list], IsList(list),
           NEW w \in Workers, IsFiniteSet(Places(w))
    PROVE  /\ DOMAIN queue' = AllQueues
           /\ \A r \in AllQueues : IsList(queue'[r])
           /\ Owner(q) # w => Places(w)' = Places(w)
           /\ Owner(q) = w /\ Len(list) = Len(queue[q]) + 1 =>
                  IsFiniteSet(Places(w)') /\ Cardinality(Places(w)') = Cardinality(Places(w)) + 1
           /\ Owner(q) = w /\ Len(list) = Len(queue[q]) - 1 =>
                  IsFiniteSet(Places(w)') /\ Cardinality(Places(w)') = Cardinality(Places(w)) - 1
<1>1. /\ DOMAIN queue' = AllQueues /\ queue'[q] = list
      /\ \A r \in AllQueues \ {q} : queue'[r] = queue[r]
  BY DEF PoolTypes
<1>2. \A r \in AllQueues : IsList(queue'[r])
  BY <1>1 DEF PoolTypes
<1>3. /\ Len(queue[q]) \in Nat /\ Len(list) \in Nat
      /\ DOMAIN queue[q] = 1 .. Len(queue[q]) /\ DOMAIN list = 1 .. Len(list)
  BY DEF PoolTypes, IsList
<1>4. PICK A, B : A = Places(w) /\ B = Places(w)'
  OBVIOUS
<1>5. \A x : x \in A <=> \E r \in AllQueues : Owner(r) = w /\ x \in {r} \X DOMAIN queue[r]
  BY <1>4 DEF Places
<1>6. \A x : x \in B <=> \E r \in AllQueues : Owner(r) = w /\ x \in {r} \X DOMAIN queue'[r]
  BY <1>4 DEF Places, AllQueues, Owner
<1>7. ASSUME Owner(q) # w PROVE A = B
  <2>1. \A r \in AllQueues : Owner(r) = w => DOMAIN queue'[r] = DOMAIN queue[r]
    BY <1>1, <1>7
  <2>2. \A x : x \in A <=> x \in B
    BY <2>1, <1>5, <1>6
  <2> QED
    BY <2>2
<1>8. ASSUME Owner(q) = w, Len(list) = Len(queue[q]) + 1
      PROVE  IsFiniteSet(B) /\ Cardinality(B) = Cardinality(A) + 1
  <2>1. PICK y : y = <<q, Len(list)>>
    OBVIOUS
  <2>2. \A x : x \in {q} \X DOMAIN list <=> x \in {q} \X DOMAIN queue[q] \/ x = y
    BY <1>3, <1>8, <2>1
  <2>3. \A r \in AllQueues \ {q} : y \notin {r} \X DOMAIN queue[r]
    BY <2>1
  <2>4. y \notin {q} \X DOMAIN queue[q]
    BY <2>1, <1>3, <1>8
  <2>5. y \notin A
    BY <2>3, <2>4, <1>5
  <2>6. B = A \cup {y}
    BY <1>1, <1>5, <1>6, <1>8, <2>2, Zenon
  <2> QED
    BY <1>4, <2>5, <2>6, FS_AddElement
<1>9. ASSUME Owner(q) = w, Len(list) = Len(queue[q]) - 1
      PROVE  IsFiniteSet(B) /\ Cardinality(B) = Cardinality(A) - 1
  <2>1. PICK y : y = <<q, Len(queue[q])>>
    OBVIOUS
  <2>2. \A x : x \in {q} \X DOMAIN list <=> x \in {q} \X DOMAIN queue[q] /\ x # y
    BY <1>3, <1>9, <2>1
  <2>3. \A r \in AllQueues \ {q} : y \notin {r} \X DOMAIN queue[r]
    BY <2>1
  <2>4. y \in {q} \X DOMAIN queue[q]
    BY <2>1, <1>3, <1>9
  <2>5. y \in A
    BY <2>4, <1>5, <1>9
  <2>6. ASSUME NEW x PROVE x \in B <=> x \in A /\ x # y
    <3>1. CASE x \in {q} \X DOMAIN list
      BY <3>1, <1>1, <1>5, <1>6, <1>9, <2>2
    <3>2. CASE x \notin {q} \X DOMAIN list
      <4>1. x \in B <=> \E r \in AllQueues \ {q} : Owner(r) = w /\ x \in {r} \X DOMAIN queue[r]
        BY <3>2, <1>1, <1>6
      <4>2. x \notin {q} \X DOMAIN queue[q] \/ x = y
        BY <3>2, <2>2
      <4> QED
        BY <4>1, <4>2, <1>5, <2>3
    <3> QED
      BY <3>1, <3>2
  <2>7. B = A \ {y}
    BY <2>6
  <2> QED
    BY <1>4, <2>5, <2>7, FS_RemoveElement
<1> QED
  BY <1>1, <1>2, <1>4, <1>7, <1>8, <1>9

\* Nothing moves: the accounts stay.
LEMMA PoolStays ==
    ASSUME PoolInv, UNCHANGED <<free, queue, ppc, ptq, dropping>>,
           pc' \in [Workers -> ThreadPcs], look' \in [Workers -> Nat \ {0}],
           \A w \in Workers : pc'[w] = "work" <=> pc[w] = "work"
    PROVE  PoolInv'
<1>1. PoolTypes'
  BY DEF PoolInv, PoolTypes, IsList
<1>2. ASSUME NEW w \in Workers PROVE Account(w)'
  <2>1. Places(w)' = Places(w) /\ Posting(w)' = Posting(w)
    BY DEF Places, Posting
  <2>2. InHand(w)' = InHand(w) /\ Dropped(w)' = Dropped(w)
    BY DEF InHand, Dropped
  <2>3. Account(w)
    BY DEF PoolInv
  <2> QED
    BY <2>1, <2>2, <2>3 DEF Account, Queued
<1> QED
  BY <1>1, <1>2 DEF PoolInv

\* The numbers in an account are numbers.
LEMMA Numbers ==
    ASSUME PoolInv, NEW w \in Workers
    PROVE  /\ free[w] \in Int /\ Queued(w) \in Nat /\ Cardinality(Posting(w)) \in Nat
           /\ InHand(w) \in Nat /\ Dropped(w) \in Int /\ Account(w)
           /\ IsFiniteSet(Places(w)) /\ IsFiniteSet(Posting(w))
<1>1. Account(w) /\ PoolTypes
  BY DEF PoolInv
<1>2. IsFiniteSet(Places(w)) /\ IsFiniteSet(Posting(w))
  BY <1>1 DEF Account
<1>3. Cardinality(Places(w)) \in Nat /\ Cardinality(Posting(w)) \in Nat
  BY <1>2, FS_CardinalityType
<1> QED
  BY <1>1, <1>2, <1>3 DEF PoolTypes, InHand, Dropped, Queued

\* A thread takes an element from a queue of its own.
LEMMA PoolTake ==
    ASSUME PoolInv, NEW w \in Workers, ThreadLooks(w)
    PROVE  PoolInv'
<1>0. PoolTypes
  BY DEF PoolInv, PoolTypes
<1>1. UNCHANGED <<free, ppc, ptq, dropping>>
  BY DEF ThreadLooks
<1>2. pc' \in [Workers -> ThreadPcs] /\ look' \in [Workers -> Nat \ {0}]
  <2>1. \/ pc' = pc \/ pc' = [pc EXCEPT ![w] = "suspend?"] \/ pc' = [pc EXCEPT ![w] = "work"]
    BY Zenon DEF ThreadLooks, Goto
  <2>2. look' = look \/ look' = [look EXCEPT ![w] = @ + 1]
    BY Zenon DEF ThreadLooks
  <2> QED
    BY <1>0, <2>1, <2>2 DEF PoolTypes, ThreadPcs
<1>3. CASE queue' = queue
  <2>1. pc[w] = "look" /\ (pc' = pc \/ pc' = [pc EXCEPT ![w] = "suspend?"])
    <3>1. pc[w] = "look"
      BY DEF ThreadLooks
    <3>2. CASE look[w] > Len(Queues(w))
      BY <3>1, <3>2, Zenon DEF ThreadLooks, Goto
    <3>3. CASE ~(look[w] > Len(Queues(w)))
      <4>1. PICK q : q = Queues(w)[look[w]]
        OBVIOUS
      <4>2. CASE queue[q] = <<>>
        BY <3>1, <3>3, <4>1, <4>2, Zenon DEF ThreadLooks, Goto
      <4>3. CASE queue[q] # <<>>
        <5>1. queue' = [queue EXCEPT ![q] = Tail(@)]
          BY <3>3, <4>1, <4>3, Zenon DEF ThreadLooks
        <5>2. q \in AllQueues
          BY <3>3, <4>1, <1>0, Owners, LookLen DEF PoolTypes
        <5>3. IsList(queue[q])
          BY <5>2, <1>0 DEF PoolTypes
        <5>4. Len(Tail(queue[q])) # Len(queue[q])
          BY <5>3, <4>3, Lists DEF IsList
        <5> QED
          BY <5>1, <5>2, <5>4, <1>0, <1>3 DEF PoolTypes
      <4> QED
        BY <4>2, <4>3
    <3> QED
      BY <3>2, <3>3
  <2>2. \A v \in Workers : pc'[v] = "work" <=> pc[v] = "work"
    BY <2>1, <1>0 DEF PoolTypes
  <2> QED
    BY <1>1, <1>2, <1>3, <2>2, PoolStays
<1>4. CASE queue' # queue
  <2>1. PICK q : q = Queues(w)[look[w]]
    OBVIOUS
  <2>2. /\ ~(look[w] > Len(Queues(w))) /\ queue[q] # <<>>
        /\ queue' = [queue EXCEPT ![q] = Tail(queue[q])]
        /\ pc[w] = "look" /\ pc' = [pc EXCEPT ![w] = "work"] /\ look' = look
    BY <1>4, <2>1, Zenon DEF ThreadLooks, Goto
  <2>3. q \in AllQueues /\ Owner(q) = w
    BY <2>1, <2>2, <1>0, Owners, LookLen DEF PoolTypes
  <2>4. PICK list : list = Tail(queue[q])
    OBVIOUS
  <2>5. IsList(list) /\ Len(list) = Len(queue[q]) - 1
    BY <2>2, <2>3, <2>4, <1>0, Lists DEF PoolTypes
  <2>6. queue' = [queue EXCEPT ![q] = list]
    BY <2>2, <2>4
  <2>7. PoolTypes'
    BY <2>3, <2>5, <2>6, <1>0, <1>1, <1>2, PlacesChange, Numbers DEF PoolTypes
  <2>8. ASSUME NEW v \in Workers PROVE Account(v)'
    <3>1. Posting(v)' = Posting(v) /\ Dropped(v)' = Dropped(v)
      BY <1>1 DEF Posting, Dropped
    <3>2. CASE v = w
      <4>1. IsFiniteSet(Places(v)') /\ Queued(v)' = Queued(v) - 1
        BY <3>2, <2>3, <2>5, <2>6, <1>0, PlacesChange, Numbers DEF Queued
      <4>2. InHand(v)' = 1 /\ InHand(v) = 0
        BY <3>2, <2>2, <1>0 DEF InHand, PoolTypes
      <4> QED
        BY <3>1, <4>1, <4>2, <1>1, Numbers DEF Account
    <3>3. CASE v # w
      <4>1. Places(v)' = Places(v) /\ Queued(v)' = Queued(v)
        BY <3>3, <2>3, <2>5, <2>6, <1>0, PlacesChange, Numbers DEF Queued
      <4>2. InHand(v)' = InHand(v)
        BY <3>3, <2>2, <1>0 DEF InHand, PoolTypes
      <4> QED
        BY <3>1, <4>1, <4>2, <1>1, Numbers DEF Account
    <3> QED
      BY <3>2, <3>3
  <2> QED
    BY <2>7, <2>8 DEF PoolInv
<1> QED
  BY <1>3, <1>4

\* A thread returns the element it has processed.
LEMMA PoolReturn ==
    ASSUME PoolInv, NEW w \in Workers, ThreadWorks(w)
    PROVE  PoolInv'
<1>0. PoolTypes
  BY DEF PoolInv
<1>1. /\ UNCHANGED <<queue, ppc, ptq, dropping, look>> /\ pc[w] = "work"
      /\ free' = [free EXCEPT ![w] = @ + 1]
      /\ \E to \in {"loop", "look"} : pc' = [pc EXCEPT ![w] = to]
  BY DEF ThreadWorks, Goto
<1>2. PICK to \in {"loop", "look"} : pc' = [pc EXCEPT ![w] = to]
  BY <1>1
<1>3. /\ free' \in [Workers -> Int] /\ pc' \in [Workers -> ThreadPcs]
      /\ free'[w] = free[w] + 1 /\ pc'[w] = to
      /\ \A v \in Workers : v # w => free'[v] = free[v] /\ pc'[v] = pc[v]
  BY <1>0, <1>1, <1>2 DEF PoolTypes, ThreadPcs
<1>4. PoolTypes'
  BY <1>0, <1>1, <1>3 DEF PoolTypes, IsList
<1>5. ASSUME NEW v \in Workers PROVE Account(v)'
  <2>1. Places(v)' = Places(v) /\ Posting(v)' = Posting(v) /\ Dropped(v)' = Dropped(v)
    BY <1>1 DEF Places, Posting, Dropped
  <2>2. InHand(v)' + free'[v] = InHand(v) + free[v]
    BY <1>1, <1>3, Numbers DEF InHand
  <2>3. InHand(v)' \in Nat /\ free'[v] \in Int
    BY <1>3 DEF InHand
  <2> QED
    BY <2>1, <2>2, <2>3, Numbers DEF Account, Queued
<1> QED
  BY <1>4, <1>5 DEF PoolInv

\* A poster takes a free element, puts it into a queue and wakes the thread.
LEMMA PoolPost ==
    ASSUME PoolInv, NEW p \in Posters,
           \/ \E q \in AllQueues : PostFrom(p, q)
           \/ PosterStep(p)
    PROVE  PoolInv'
<1>0. PoolTypes
  BY DEF PoolInv
<1>1. CASE \E q \in AllQueues : PostFrom(p, q)
  <2>1. PICK q \in AllQueues : PostFrom(p, q)
    BY <1>1
  <2>2. PICK o \in Workers : o = Owner(q)
    BY Owners
  <2>3. /\ ppc[p] = "idle" /\ free' = [free EXCEPT ![o] = @ - 1]
        /\ ptq' = [ptq EXCEPT ![p] = q] /\ ppc' = [ppc EXCEPT ![p] = "put"]
        /\ UNCHANGED <<pc, look, queue, dropping>>
    BY <2>1, <2>2 DEF PostFrom, threads
  <2>4. /\ ppc'[p] = "put" /\ ptq'[p] = q
        /\ \A r \in Posters : r # p => ppc'[r] = ppc[r] /\ ptq'[r] = ptq[r]
        /\ free'[o] = free[o] - 1
        /\ \A v \in Workers : v # o => free'[v] = free[v]
    BY <2>3, <1>0 DEF PoolTypes
  <2>5. PoolTypes'
    BY <2>3, <1>0 DEF PoolTypes, IsList
  <2>6. ASSUME NEW v \in Workers PROVE Account(v)'
    <3>1. Places(v)' = Places(v) /\ InHand(v)' = InHand(v) /\ Dropped(v)' = Dropped(v)
      BY <2>3 DEF Places, InHand, Dropped
    <3>2. CASE v = o
      <4>1. Posting(v)' = Posting(v) \cup {p} /\ p \notin Posting(v)
        BY <3>2, <2>2, <2>3, <2>4 DEF Posting
      <4>2. IsFiniteSet(Posting(v)') /\ Cardinality(Posting(v)') = Cardinality(Posting(v)) + 1
        BY <4>1, Numbers, FS_AddElement
      <4>3. free'[v] = free[v] - 1
        BY <3>2, <2>4
      <4> QED
        BY <3>1, <4>2, <4>3, Numbers DEF Account, Queued
    <3>3. CASE v # o
      <4>1. Posting(v)' = Posting(v)
        BY <3>3, <2>2, <2>3, <2>4 DEF Posting
      <4> QED
        BY <3>1, <3>3, <4>1, <2>4, Numbers DEF Account, Queued
    <3> QED
      BY <3>2, <3>3
  <2> QED
    BY <2>5, <2>6 DEF PoolInv
<1>2. CASE \E s \in Stations : PutFrom(p, s)
  <2>1. PICK s \in Stations : PutFrom(p, s)
    BY <1>2
  <2>2. PICK q \in AllQueues : q = ptq[p]
    BY <1>0 DEF PoolTypes
  <2>3. PICK list : list = Append(queue[q], s)
    OBVIOUS
  <2>4. /\ ppc[p] = "put" /\ ppc' = [ppc EXCEPT ![p] = "set"]
        /\ queue' = [queue EXCEPT ![q] = list]
        /\ UNCHANGED <<pc, look, free, ptq, dropping>>
    BY <2>1, <2>2, <2>3 DEF PutFrom, threads
  <2>5. IsList(list) /\ Len(list) = Len(queue[q]) + 1
    BY <2>3, <1>0, Lists DEF PoolTypes
  <2>6. /\ ppc'[p] = "set"
        /\ \A r \in Posters : r # p => ppc'[r] = ppc[r]
        /\ ppc' \in [Posters -> {"idle", "put", "set"}]
    BY <2>4, <1>0 DEF PoolTypes
  <2>7. PoolTypes'
    BY <2>4, <2>5, <2>6, <1>0, PlacesChange, Numbers DEF PoolTypes
  <2>8. ASSUME NEW v \in Workers PROVE Account(v)'
    <3>1. InHand(v)' = InHand(v) /\ Dropped(v)' = Dropped(v) /\ free'[v] = free[v]
      BY <2>4 DEF InHand, Dropped
    <3>2. CASE v = Owner(q)
      <4>1. Posting(v)' = Posting(v) \ {p} /\ p \in Posting(v)
        BY <3>2, <2>2, <2>4, <2>6 DEF Posting
      <4>2. IsFiniteSet(Posting(v)') /\ Cardinality(Posting(v)') = Cardinality(Posting(v)) - 1
        <5>1. PICK A, B : A = Posting(v) /\ B = Posting(v)'
          OBVIOUS
        <5>2. IsFiniteSet(A) /\ p \in A /\ B = A \ {p}
          BY <4>1, <5>1, Numbers
        <5>3. IsFiniteSet(B) /\ Cardinality(B) = Cardinality(A) - 1
          BY <5>2, FS_RemoveElement
        <5> QED
          BY <5>1, <5>3
      <4>3. IsFiniteSet(Places(v)') /\ Queued(v)' = Queued(v) + 1
        BY <3>2, <2>4, <2>5, <1>0, PlacesChange, Numbers DEF Queued
      <4> QED
        BY <3>1, <4>2, <4>3, Numbers DEF Account
    <3>3. CASE v # Owner(q)
      <4>1. Posting(v)' = Posting(v)
        BY <3>3, <2>2, <2>4, <2>6 DEF Posting
      <4>2. Places(v)' = Places(v)
        BY <3>3, <2>4, <2>5, <1>0, PlacesChange, Numbers
      <4> QED
        BY <3>1, <4>1, <4>2, Numbers DEF Account, Queued
    <3> QED
      BY <3>2, <3>3
  <2> QED
    BY <2>7, <2>8 DEF PoolInv
<1>3. CASE WakeFrom(p)
  <2>1. /\ ppc[p] = "set" /\ ppc' = [ppc EXCEPT ![p] = "idle"]
        /\ UNCHANGED <<pc, look, free, queue, ptq, dropping>>
    BY <1>3 DEF WakeFrom
  <2>2. /\ ppc' \in [Posters -> {"idle", "put", "set"}] /\ ppc'[p] = "idle"
        /\ \A r \in Posters : r # p => ppc'[r] = ppc[r]
    BY <2>1, <1>0 DEF PoolTypes
  <2>3. PoolTypes'
    BY <2>1, <2>2, <1>0 DEF PoolTypes, IsList
  <2>4. ASSUME NEW v \in Workers PROVE Account(v)'
    <3>1. Posting(v)' = Posting(v)
      BY <2>1, <2>2 DEF Posting
    <3>2. Places(v)' = Places(v) /\ InHand(v)' = InHand(v) /\ Dropped(v)' = Dropped(v)
      BY <2>1 DEF Places, InHand, Dropped
    <3> QED
      BY <2>1, <3>1, <3>2, Numbers DEF Account, Queued
  <2> QED
    BY <2>3, <2>4 DEF PoolInv
<1> QED
  BY <1>1, <1>2, <1>3 DEF PosterStep

\* The places in the queue of packets are as many as the packets.
LEMMA RxPlaces ==
    ASSUME NEW list, IsList(list)
    PROVE  /\ IsFiniteSet({"rx"} \X DOMAIN list)
           /\ Cardinality({"rx"} \X DOMAIN list) = Len(list)
<1>1. DOMAIN list = 1 .. Len(list) /\ Len(list) \in Nat
  BY DEF IsList
<1>2. IsFiniteSet(1 .. Len(list)) /\ Cardinality(1 .. Len(list)) = Len(list)
  <2>1. PICK n \in Nat : n = Len(list)
    BY <1>1
  <2>2. IsFiniteSet(1 .. n) /\ Cardinality(1 .. n) = n
    BY FS_Interval
  <2> QED
    BY <2>1, <2>2
<1>3. IsFiniteSet({"rx"}) /\ Cardinality({"rx"}) = 1
  BY FS_Singleton
<1> QED
  BY <1>1, <1>2, <1>3, FS_Product

\* What is moved to the local list and what remains in the queue is all there was.
LEMMA Moved ==
    ASSUME NEW list, IsList(list), NEW gone \in SUBSET DOMAIN list
    PROVE  /\ IsList(Remaining(list, gone))
           /\ Cardinality(gone) \in Nat
           /\ Len(Remaining(list, gone)) + Cardinality(gone) = Len(list)
<1> DEFINE kept == DOMAIN list \ gone
<1>1. DOMAIN list = 1 .. Len(list) /\ Len(list) \in Nat
  BY DEF IsList
<1>2. IsFiniteSet(DOMAIN list) /\ Cardinality(DOMAIN list) = Len(list)
  BY <1>1, FS_Interval
<1>3. DOMAIN list \cap gone = gone
  OBVIOUS
<1>4. /\ IsFiniteSet(kept) /\ IsFiniteSet(gone)
      /\ Cardinality(kept) = Len(list) - Cardinality(gone)
  <2>1. IsFiniteSet(kept) /\ Cardinality(kept) = Len(list) - Cardinality(gone)
    <3>1. PICK D : D = DOMAIN list
      OBVIOUS
    <3>2. IsFiniteSet(D) /\ D \cap gone = gone
      BY <3>1, <1>2, <1>3
    <3>3. /\ IsFiniteSet(D \ gone)
          /\ Cardinality(D \ gone) = Cardinality(D) - Cardinality(D \cap gone)
      BY <3>2, FS_Difference, Zenon
    <3> QED
      BY <3>1, <3>2, <3>3, <1>2
  <2>2. IsFiniteSet(gone)
    BY <1>2, FS_Subset
  <2> QED
    BY <2>1, <2>2
<1>5. Cardinality(kept) \in Nat /\ Cardinality(gone) \in Nat
  BY <1>4, FS_CardinalityType
<1>6. PICK n \in Nat : n = Cardinality(kept)
  BY <1>5
<1>7. PICK f : f = Remaining(list, gone)
  OBVIOUS
<1>8. DOMAIN f = 1 .. n /\ f = [j \in 1 .. n |-> f[j]]
  BY <1>6, <1>7 DEF Remaining
<1>9. Len(f) = n
  BY <1>8
<1>10. IsList(f)
  BY <1>8, <1>9 DEF IsList
<1> QED
  BY <1>1, <1>4, <1>5, <1>6, <1>7, <1>9, <1>10

\* The packets of a station are dropped: moved, then freed one at a time.
LEMMA PoolDrop ==
    ASSUME PoolInv, (\E s \in Stations : DropStation(s)) \/ FreeDropped
    PROVE  PoolInv'
<1>0. PoolTypes /\ "rx" \in AllQueues /\ Owner("rx") = "rx"
  BY Owners DEF PoolInv
<1>1. CASE \E s \in Stations : DropStation(s)
  <2>1. PICK s \in Stations : DropStation(s)
    BY <1>1
  <2>2. PICK gone \in SUBSET DOMAIN queue["rx"] :
            gone = {i \in DOMAIN queue["rx"] : queue["rx"][i] = s}
    OBVIOUS
  <2>3. PICK list : list = Remaining(queue["rx"], gone)
    OBVIOUS
  <2>4. /\ queue' = [queue EXCEPT !["rx"] = list] /\ dropping = 0
        /\ dropping' = Cardinality(gone)
        /\ UNCHANGED <<pc, look, free, ppc, ptq>>
    BY <2>1, <2>2, <2>3 DEF DropStation, threads
  <2>5. IsList(queue["rx"])
    BY <1>0 DEF PoolTypes
  <2>6. /\ IsList(list) /\ dropping' \in Nat /\ Len(list) \in Nat
        /\ Len(list) + dropping' = Len(queue["rx"])
    BY <2>3, <2>4, <2>5, Moved DEF IsList
  <2>7. PoolTypes'
    <3>1. DOMAIN queue' = AllQueues /\ \A r \in AllQueues : IsList(queue'[r])
      BY <2>4, <2>6, <1>0 DEF PoolTypes
    <3>2. dropping' \in Int
      BY <2>6
    <3> QED
      BY <2>4, <3>1, <3>2, <1>0 DEF PoolTypes
  <2>8. ASSUME NEW v \in Workers PROVE Account(v)'
    <3>1. Posting(v)' = Posting(v) /\ InHand(v)' = InHand(v) /\ free'[v] = free[v]
      BY <2>4 DEF Posting, InHand
    <3>2. CASE v = "rx"
      <4>1. Places(v) = {"rx"} \X DOMAIN queue["rx"]
        BY <3>2, <1>0, Owners DEF Places
      <4>2. queue'["rx"] = list
        BY <2>4, <1>0 DEF PoolTypes
      <4>3. Places(v)' = {"rx"} \X DOMAIN list
        BY <3>2, <4>2, <1>0, Owners DEF Places
      <4>4. /\ Queued(v) = Len(queue["rx"])
            /\ IsFiniteSet(Places(v)') /\ Queued(v)' = Len(list)
        BY <4>1, <4>3, <2>5, <2>6, RxPlaces DEF Queued
      <4>5. Dropped(v) = 0 /\ Dropped(v)' = dropping'
        BY <3>2, <2>4 DEF Dropped
      <4>6. Queued(v)' + Dropped(v)' = Queued(v) + Dropped(v)
        BY <4>4, <4>5, <2>6, Numbers
      <4>7. Queued(v)' \in Nat /\ Dropped(v)' \in Nat
        BY <4>4, <4>5, <2>6
      <4>8. free[v] + Queued(v) + Cardinality(Posting(v)) + InHand(v) + Dropped(v) = PoolSize[v]
        BY Numbers DEF Account
      <4>9. free[v] \in Int /\ Queued(v) \in Nat /\ Cardinality(Posting(v)) \in Nat
            /\ InHand(v) \in Nat /\ Dropped(v) \in Int /\ IsFiniteSet(Posting(v))
        BY Numbers
      <4>10. free'[v] + Queued(v)' + Cardinality(Posting(v)') + InHand(v)' + Dropped(v)'
                 = PoolSize[v]
        BY <3>1, <4>6, <4>7, <4>8, <4>9
      <4> QED
        BY <3>1, <4>4, <4>9, <4>10 DEF Account
    <3>3. CASE v # "rx"
      <4>1. Places(v)' = Places(v)
        BY <3>3, <2>4, <2>6, <1>0, PlacesChange, Numbers
      <4>2. Dropped(v)' = Dropped(v)
        BY <3>3 DEF Dropped
      <4> QED
        BY <3>1, <4>1, <4>2, Numbers DEF Account, Queued
    <3> QED
      BY <3>2, <3>3
  <2> QED
    BY <2>7, <2>8 DEF PoolInv
<1>2. CASE FreeDropped
  <2>1. /\ dropping' = dropping - 1 /\ free' = [free EXCEPT !["rx"] = @ + 1]
        /\ UNCHANGED <<pc, look, queue, ppc, ptq>>
    BY <1>2 DEF FreeDropped, threads
  <2>2. /\ free' \in [Workers -> Int] /\ free'["rx"] = free["rx"] + 1
        /\ free'["mc"] = free["mc"] /\ dropping' \in Int
    BY <2>1, <1>0 DEF PoolTypes
  <2>3. PoolTypes'
    BY <2>1, <2>2, <1>0 DEF PoolTypes, IsList
  <2>4. ASSUME NEW v \in Workers PROVE Account(v)'
    <3>1. Places(v)' = Places(v) /\ Posting(v)' = Posting(v) /\ InHand(v)' = InHand(v)
      BY <2>1 DEF Places, Posting, InHand
    <3>2. Dropped(v)' + free'[v] = Dropped(v) + free[v] /\ Dropped(v)' \in Int
      BY <2>1, <2>2, <1>0, Numbers DEF Dropped, PoolTypes
    <3> QED
      BY <2>2, <3>1, <3>2, Numbers DEF Account, Queued
  <2> QED
    BY <2>3, <2>4 DEF PoolInv
<1> QED
  BY <1>1, <1>2

\* A flush empties queues into the pools of their threads.
LEMMA PoolFlush ==
    ASSUME PoolInv, NEW W \in SUBSET Workers, Flush(W)
    PROVE  PoolInv'
<1>0. PoolTypes
  BY DEF PoolInv
<1>1. /\ queue' = [q \in AllQueues |-> IF Owner(q) \in W THEN <<>> ELSE queue[q]]
      /\ free' = [w \in Workers |-> IF w \in W THEN free[w] + Queued(w) ELSE free[w]]
      /\ UNCHANGED <<pc, look, ppc, ptq, dropping>>
  BY DEF Flush, threads
<1>2. IsList(<<>>)
  BY DEF IsList
<1>3. PoolTypes'
  <2>1. free' \in [Workers -> Int]
    BY <1>1, Numbers
  <2>2. DOMAIN queue' = AllQueues /\ \A q \in AllQueues : IsList(queue'[q])
    BY <1>0, <1>1, <1>2 DEF PoolTypes
  <2> QED
    BY <1>0, <1>1, <2>1, <2>2 DEF PoolTypes
<1>4. ASSUME NEW v \in Workers PROVE Account(v)'
  <2>1. Posting(v)' = Posting(v) /\ InHand(v)' = InHand(v) /\ Dropped(v)' = Dropped(v)
    BY <1>1 DEF Posting, InHand, Dropped
  <2>2. CASE v \in W
    <3>1. \A q \in AllQueues : Owner(q) = v => DOMAIN queue'[q] = {}
      BY <1>1, <2>2
    <3>2. Places(v)' = {}
      BY <3>1 DEF Places
    <3>3. IsFiniteSet(Places(v)') /\ Queued(v)' = 0
      BY <3>2, FS_EmptySet DEF Queued
    <3>4. free'[v] = free[v] + Queued(v)
      BY <1>1, <2>2
    <3> QED
      BY <2>1, <3>3, <3>4, Numbers DEF Account
  <2>3. CASE v \notin W
    <3>1. \A q \in AllQueues : Owner(q) = v => queue'[q] = queue[q]
      BY <1>1, <2>3
    <3>2. Places(v)' = Places(v)
      BY <3>1 DEF Places
    <3>3. free'[v] = free[v]
      BY <1>1, <2>3
    <3> QED
      BY <2>1, <3>2, <3>3, Numbers DEF Account, Queued
  <2> QED
    BY <2>2, <2>3
<1> QED
  BY <1>3, <1>4 DEF PoolInv

\* Every step keeps the accounts.
LEMMA PoolStep == PoolInv /\ [Next]_vars => PoolInv'
<1> SUFFICES ASSUME PoolInv, [Next]_vars PROVE PoolInv'
  OBVIOUS
<1>0. PoolTypes
  BY DEF PoolInv
<1>1. ASSUME NEW w \in Workers, ThreadStep(w) PROVE PoolInv'
  <2>1. CASE ThreadLooks(w)
    BY <2>1, PoolTake
  <2>2. CASE ThreadWorks(w)
    BY <2>2, PoolReturn
  <2>3. CASE ThreadWakes(w) \/ ThreadLoop(w) \/ ThreadTestsSuspend(w) \/ ThreadConfirms(w)
                \/ ThreadResumes(w)
    <3>1. UNCHANGED <<free, queue, ppc, ptq, dropping>>
      BY <2>3 DEF ThreadWakes, ThreadLoop, ThreadTestsSuspend, ThreadConfirms, ThreadResumes,
         data
    <3>2. look' = look \/ look' = [look EXCEPT ![w] = 1]
      BY <2>3 DEF ThreadWakes, ThreadLoop, ThreadTestsSuspend, ThreadConfirms, ThreadResumes
    <3>3. /\ pc[w] # "work"
          /\ \E to \in ThreadPcs \ {"work"} : pc' = [pc EXCEPT ![w] = to]
      BY <2>3 DEF ThreadWakes, ThreadLoop, ThreadTestsSuspend, ThreadConfirms, ThreadResumes,
         Goto, ThreadPcs
    <3>4. /\ pc' \in [Workers -> ThreadPcs]
          /\ \A v \in Workers : pc'[v] = "work" <=> pc[v] = "work"
      BY <3>3, <1>0 DEF PoolTypes
    <3>5. look' \in [Workers -> Nat \ {0}]
      BY <3>2, <1>0 DEF PoolTypes
    <3> QED
      BY <3>1, <3>4, <3>5, PoolStays
  <2> QED
    BY <1>1, <2>1, <2>2, <2>3 DEF ThreadStep
<1>2. CASE \E p \in Posters : (\E q \in AllQueues : PostFrom(p, q)) \/ PosterStep(p)
  BY <1>2, PoolPost
<1>3. CASE (\E s \in Stations : DropStation(s)) \/ FreeDropped
  BY <1>3, PoolDrop
<1>4. CASE McGone \/ RxGone
  BY <1>4, PoolFlush DEF McGone, RxGone
<1>5. CASE \/ suspend_wlan \/ resume_wlan \/ CallStep
           \/ (\E k \in {"ssr", "unload"} : BeginClose(k))
           \/ WaitForGuests \/ DisableIsr \/ (\E w \in Workers : StopThread(w))
           \/ UNCHANGED vars
  <2>1. UNCHANGED <<free, queue, ppc, ptq, dropping, pc, look>>
    BY <1>5 DEF suspend_wlan, resume_wlan, Enter, CallStep, validate_context, SuspendMc, McConfirmed,
       RxConfirmed, TimeOut, McLate, RxLate, ResumeThreads, Leave, BeginClose, WaitForGuests, DisableIsr,
       StopThread, vars, data, threads
  <2> QED
    BY <2>1, <1>0, PoolStays DEF PoolTypes
<1> QED
  BY <1>1, <1>2, <1>3, <1>4, <1>5 DEF Next, CloseStep

\* No message wrapper and no packet descriptor is lost or made, for any number of
\* posters, queues and elements: not by a suspend that gives up, a station that is
\* dropped while packets arrive (cds_drop_rxpkt_by_staid), or the flush of a
\* restart or an unload that meets a thread or a poster at work.
THEOREM PoolKept == Spec => []PoolConserved
<1>1. Init => PoolInv
  <2> SUFFICES ASSUME Init PROVE PoolInv
    OBVIOUS
  <2>1. IsList(<<>>) /\ DOMAIN <<>> = {}
    BY DEF IsList
  <2>2. PoolTypes
    BY <2>1, PoolAssumption, Owners DEF Init, PoolTypes, ThreadPcs
  <2>3. ASSUME NEW w \in Workers PROVE Account(w)
    <3>1. Places(w) = {}
      BY <2>1 DEF Init, Places
    <3>2. Posting(w) = {}
      BY DEF Init, Posting
    <3>3. InHand(w) = 0 /\ Dropped(w) = 0 /\ free[w] = PoolSize[w] /\ PoolSize[w] \in Nat
      BY PoolAssumption DEF Init, InHand, Dropped
    <3>4. Queued(w) = 0 /\ Cardinality(Posting(w)) = 0
      BY <3>1, <3>2, FS_EmptySet DEF Queued
    <3> QED
      BY <3>1, <3>2, <3>3, <3>4, FS_EmptySet DEF Account
  <2> QED
    BY <2>2, <2>3 DEF PoolInv
<1>2. PoolInv => PoolConserved
  BY DEF PoolInv, Account, PoolConserved, InHand, Dropped
<1> QED
  BY <1>1, <1>2, PoolStep, PTL DEF Spec
=============================================================================
