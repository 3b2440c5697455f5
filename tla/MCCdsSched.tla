----------------------------- MODULE MCCdsSched -----------------------------
(***************************************************************************)
(* Values for the constants of CdsSched that a .cfg file cannot express.   *)
(***************************************************************************)
EXTENDS CdsSched

MCOneQueue == <<"sme">>
MCOne == [w \in Workers |-> 1]
=============================================================================
