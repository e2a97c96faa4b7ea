------------------------------ MODULE RpcCalls ------------------------------
(***************************************************************************)
(* The calls of the eth namespace that run in several steps or decide over *)
(* many combinations of inputs: eth_sendRawTransactionSync,                *)
(* eth_estimateGas, eth_simulateV1, and the building of a transaction.     *)
(* They share no state, so a behaviour follows one of them.                *)
(***************************************************************************)
EXTENDS SyncSend, EstimateGas, Simulation, TransactionArgs

VARIABLE method   \* the method called

callVars == <<logVars, syncVars, estimateVars, simulationVars, args, method>>

\* The parts of the methods that are not called.
NoSync == Init /\ home = <<>> /\ pooled = FALSE /\ sync = Idle
NoEstimate == limit = 0 /\ asked = NoGas /\ enough = {} /\ low = 0 /\ high = 0 /\ estimate = "none"
NoSimulation ==
    /\ base = [number |-> 0, time |-> 0, limit |-> 0]
    /\ blocks = <<>> /\ requested = 0 /\ at = 1 /\ gasPool = 0 /\ budget = GasCap
    /\ results = <<>> /\ bytes = 2 /\ simulation = "none"
NoArgs == args = [caller |-> "send", type |-> NoType, set |-> {}, empty |-> {}]

CallInit ==
    \/ method = "sendRawTransactionSync" /\ SyncInit /\ NoEstimate /\ NoSimulation /\ NoArgs
    \/ method = "estimateGas" /\ NoSync /\ EstimateInit /\ NoSimulation /\ NoArgs
    \/ method = "simulateV1" /\ NoSync /\ NoEstimate /\ SimulationInit /\ NoArgs
    \/ method = "sendTransaction" /\ NoSync /\ NoEstimate /\ NoSimulation /\ ArgsInit

SyncCall ==
    /\ method = "sendRawTransactionSync" /\ SyncNext
    /\ UNCHANGED <<estimateVars, simulationVars, args, method>>

EstimateCall ==
    /\ method = "estimateGas" /\ EstimateNext
    /\ UNCHANGED <<logVars, syncVars, simulationVars, args, method>>

SimulationCall ==
    /\ method = "simulateV1" /\ SimulationNext
    /\ UNCHANGED <<logVars, syncVars, estimateVars, args, method>>

CallNext == SyncCall \/ EstimateCall \/ SimulationCall

\* SyncFairness, for a behaviour of this module.
CallFairness ==
    /\ WF_callVars(SyncCall /\ SyncSteps)
    /\ WF_callVars(SyncCall /\ CommitStep)

CallSpec == CallInit /\ [][CallNext]_callVars /\ CallFairness

=============================================================================
