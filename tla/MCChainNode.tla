---------------------------- MODULE MCChainNode ----------------------------
(***************************************************************************)
(* Constants of the TLC runs of ChainNode.                                 *)
(***************************************************************************)
EXTENDS ChainNode

OneEach == [t \in RequestTypes |-> 1]
TwoDeposits == [t \in RequestTypes |-> IF t = "deposit" THEN 2 ELSE 1]
=============================================================================
