------------------------------ MODULE MCHtcTx ------------------------------
(***************************************************************************)
(* Instances of HtcTx for TLC: two threads send three packets; packet 2 is *)
(* twice as long as the others.  The WMI endpoint has credits and a pipe   *)
(* with one slot more than credits on a bus that may be suspended at       *)
(* runtime, one that never gets half full, or a single slot; the HTT       *)
(* endpoint has no credits and two slots, or one on a bus that sleeps.     *)
(***************************************************************************)
EXTENDS HtcTx

CONSTANTS s1, s2

ThreePackets  == 1..3
OwnersOfThree == [p \in ThreePackets |-> IF p = 2 THEN s2 ELSE s1]
ThreeLengths  == [p \in ThreePackets |-> IF p = 2 THEN 2 ELSE 1]

Conn(credits, slots, sleeps) ==
    [credits |-> credits, slots |-> slots, sleeps |-> sleeps]
AllConns == {Conn(TRUE, 3, TRUE), Conn(TRUE, 8, FALSE), Conn(TRUE, 1, FALSE),
             Conn(FALSE, 2, FALSE), Conn(FALSE, 1, TRUE)}
=============================================================================
