----------------------------- MODULE MCRpcCalls -----------------------------
(* Constants of the RPC call runs.                                         *)
EXTENDS RpcCalls

\* Base blocks: early ones, and one whose number or time is near the largest
\* uint64.
MCBases == {[number |-> 1, time |-> 1], [number |-> 1, time |-> 4], [number |-> 6, time |-> 2]}

=============================================================================
