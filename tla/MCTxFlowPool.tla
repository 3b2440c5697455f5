---------------------------- MODULE MCTxFlowPool ----------------------------
(***************************************************************************)
(* Instances of TxFlowPool for TLC.  The target asks for pools of one      *)
(* size; pools and descriptors are interchangeable.                        *)
(***************************************************************************)
EXTENDS TxFlowPool, TLC

CONSTANT PoolSize

MCSizeOf == [f \in Flows |-> PoolSize]

Symmetry == Permutations(Pools \ {MgmtPool}) \cup Permutations(Descs \ MgmtDescs)
            \cup Permutations(Senders)
=============================================================================
