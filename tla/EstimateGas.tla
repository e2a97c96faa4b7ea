---------------------------- MODULE EstimateGas ----------------------------
(***************************************************************************)
(* eth_estimateGas (rpc_calls.go): a bisection over the gas a call is      *)
(* given.  Each probe executes the call on a copy of one state, so whether *)
(* it succeeds depends on the gas alone; it need not be monotonic, since a *)
(* contract may look at the gas it has left.                               *)
(***************************************************************************)
EXTENDS Integers

CONSTANTS
    Amounts,    \* amounts of gas: what blocks, clients and calls may have or need
    RPCGasCap   \* cfg.Limits.RPCGasCap

ASSUME AmountsAssumption == Amounts \subseteq Nat
ASSUME CapAssumption == RPCGasCap \in Nat

VARIABLES
    limit,     \* header.GasLimit, of the block or of an override
    asked,     \* args.Gas, or NoGas
    enough,    \* the amounts of gas with which the call succeeds
    low, high,
    estimate   \* "idle", "search", and the answer: "done" with high, "failed", "refused", "aborted"

NoGas == -1

estimateVars == <<limit, asked, enough, low, high, estimate>>

\* No message passes with less gas than core.IntrinsicGas, which is above 1.
EstimateInit ==
    /\ limit \in Amounts
    /\ asked \in Amounts \cup {NoGas}
    /\ enough \in SUBSET (Amounts \ {0, 1})
    /\ low = 0 /\ high = 0 /\ estimate = "idle"

Least(x, y) == IF x < y THEN x ELSE y

\* The ceiling of the search.
Ceiling == Least(limit, IF asked = NoGas THEN RPCGasCap ELSE asked)

EstimateBegin ==
    /\ estimate = "idle"
    /\ IF asked > RPCGasCap
       THEN estimate' = "refused" /\ UNCHANGED <<low, high>>
       ELSE estimate' = "search" /\ low' = 0 /\ high' = Ceiling
    /\ UNCHANGED <<limit, asked, enough>>

\* executeCallAtOverrides: an override of 0 stands for none.
Executed(override) ==
    IF override # 0 THEN override
    ELSE IF asked = NoGas THEN Least(limit, RPCGasCap) ELSE asked

Middle == low + (high - low) \div 2

\* Mutant: a probe that succeeds is taken for too much.
ProbeBelow ==
    /\ estimate = "search" /\ low < high
    /\ IF Executed(Middle) \in enough
       THEN high' = (IF Middle > low THEN Middle - 1 ELSE Middle) /\ UNCHANGED low
       ELSE low' = Middle + 1 /\ UNCHANGED high
    /\ UNCHANGED <<limit, asked, enough, estimate>>

\* One round of the loop.
Probe ==
    /\ estimate = "search" /\ low < high
    /\ IF Executed(Middle) \in enough
       THEN high' = Middle /\ UNCHANGED low
       ELSE low' = Middle + 1 /\ UNCHANGED high
    /\ UNCHANGED <<limit, asked, enough, estimate>>

\* The last execution, at the end of the search.
Verify ==
    /\ estimate = "search" /\ low >= high
    /\ estimate' = IF Executed(high) \in enough THEN "done" ELSE "failed"
    /\ UNCHANGED <<limit, asked, enough, low, high>>

\* An execution ends with an error that more gas does not cure, or in a timeout.
EstimateAbort ==
    /\ estimate = "search"
    /\ estimate' = "aborted"
    /\ UNCHANGED <<limit, asked, enough, low, high>>

EstimateNext == EstimateBegin \/ Probe \/ Verify \/ EstimateAbort

EstimateSpec == EstimateInit /\ [][EstimateNext]_estimateVars

-----------------------------------------------------------------------------

\* The gas that eth_estimateGas returns makes the call succeed and one unit
\* less does not, and it gives up only on a call that fails with all the gas it
\* may have, whatever the call does with its gas.  (With a ceiling of 0 or 1, which
\* only a block override or a client can set, 0 stands for no override and the
\* answer may be 0.)
EstimateExact ==
    Ceiling >= 2 =>
        /\ estimate = "done" => high <= Ceiling /\ high \in enough /\ high - 1 \notin enough
        /\ estimate = "failed" => Ceiling \notin enough

\* What every round keeps: below low one unit was too little, and high is the
\* ceiling or was enough.
SearchInv ==
    Ceiling >= 2 /\ estimate \in {"search", "done", "failed"} =>
        /\ low <= high /\ high <= Ceiling
        /\ low = 0 \/ low - 1 \notin enough
        /\ high = Ceiling \/ high \in enough

=============================================================================
