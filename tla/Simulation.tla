----------------------------- MODULE Simulation -----------------------------
(***************************************************************************)
(* eth_simulateV1 (rpc_simulate.go): the requested blocks are completed to *)
(* a chain on top of a base block, then their calls are executed one after *)
(* another under three limits: the gas of each block, a gas budget for the *)
(* whole request and the size of the response.                             *)
(*                                                                         *)
(* The request is chosen while it is read.  A call needs some gas and      *)
(* fails when it gets less: out of gas, with all of it used, or with       *)
(* another error that the shortage leads to (a creation that cannot pay    *)
(* for its code, a revert after an inner call that ran out of gas).        *)
(***************************************************************************)
EXTENDS Integers, Sequences, FiniteSetsExt

CONSTANTS
    MaxUint,            \* the largest uint64
    MaxSimulateBlocks,  \* maxSimulateBlocks
    TimeIncrement,      \* sim.timeIncrement
    Bases,              \* numbers and times of base blocks
    Numbers, Times,     \* overrides of block numbers and times
    GasLimits,          \* gas limits of the base block and of overrides
    GasCap,             \* cfg.Limits.RPCGasCap
    CallGas,            \* gas that calls ask for
    Needs,              \* gas that calls need
    IntrinsicGas,       \* below it a message is refused
    MaxResponseBytes,   \* cfg.Limits.MaxResponseBytes
    MaxRequested,       \* blockLimit, on the blocks requested
    MaxCalls,           \* maxSimulateCallsPerBlock
    MaxTotalCalls       \* maxSimulateTotalCalls

ASSUME SimulationAssumption ==
    /\ {MaxUint, MaxSimulateBlocks, TimeIncrement, GasCap, IntrinsicGas} \subseteq Nat \ {0}
    /\ Numbers \cup Times \subseteq 0..MaxUint
    /\ \A need \in Needs : need >= IntrinsicGas

VARIABLES
    base,       \* the base block: number, time and gas limit
    blocks,     \* the sanitized blocks, gap blocks included
    requested,  \* how many blocks of the request were read
    at,         \* the block whose calls are executed
    gasPool,    \* its gas
    budget,     \* sim.budget.remaining
    results,    \* per block, the results of its calls
    bytes,      \* sim.responseBytes
    simulation  \* "idle", "chain", "calls", and the answer: "done" or "refused"

simulationVars == <<base, blocks, requested, at, gasPool, budget, results, bytes, simulation>>

\* An option is a set of at most one value.
Options(values) == {{}} \cup {{v} : v \in values}
Given(option, default) == IF option = {} THEN default ELSE CHOOSE v \in option : TRUE

Wrap(n) == n % (MaxUint + 1)

SimulationInit ==
    /\ base \in [number : {b.number : b \in Bases}, time : {b.time : b \in Bases}, limit : GasLimits]
    /\ [number |-> base.number, time |-> base.time] \in Bases
    /\ blocks = <<>> /\ requested = 0 /\ at = 1 /\ gasPool = 0 /\ budget = GasCap
    /\ results = <<>> /\ bytes = 2 /\ simulation = "idle"

\* A request beyond the limits on its blocks and calls is refused.
SimulationBegin ==
    /\ simulation = "idle" /\ simulation' \in {"chain", "refused"}
    /\ UNCHANGED <<base, blocks, requested, at, gasPool, budget, results, bytes>>

Previous == IF blocks = <<>> THEN base ELSE blocks[Len(blocks)]

-----------------------------------------------------------------------------
(* sanitizeChain and makeHeaders.                                          *)

\* The blocks that a request for a block of some number needs before it.
GapBlocks(number) ==
    [i \in 1..(number - Previous.number - 1) |->
        [number |-> Previous.number + i, time |-> Previous.time + i * TimeIncrement,
         limit |-> Previous.limit, gap |-> TRUE]]

\* The time before the block itself.
GapTime(number) == Previous.time + (number - Previous.number - 1) * TimeIncrement

\* The checks of the timestamp: none overflows, and they increase.
TimeFits(number, time) ==
    /\ GapTime(number) <= MaxUint
    /\ Wrap(GapTime(number) + TimeIncrement) >= GapTime(number)
    /\ Given(time, Wrap(GapTime(number) + TimeIncrement)) > GapTime(number)

\* The checks of the number: it does not overflow, increases and is near the base.
NumberFits(number) ==
    /\ Wrap(Previous.number + 1) # 0
    /\ number > Previous.number
    /\ number - base.number <= MaxSimulateBlocks

\* One requested block; makeHeaders lets its gas limit pass on to the next ones.
SanitizeBlock(override, time, gasLimit) ==
    /\ simulation = "chain" /\ requested < MaxRequested
    /\ requested' = requested + 1
    /\ LET number == Given(override, Wrap(Previous.number + 1))
           block  == [number |-> number, time |-> Given(time, Wrap(GapTime(number) + TimeIncrement)),
                      limit |-> Given(gasLimit, Previous.limit), gap |-> FALSE]
           longer == blocks \o GapBlocks(number) \o <<block>>
       IN IF NumberFits(number) /\ TimeFits(number, time) /\ Len(longer) <= MaxSimulateBlocks
          THEN blocks' = longer /\ UNCHANGED simulation
          ELSE simulation' = "refused" /\ UNCHANGED blocks
    /\ UNCHANGED <<base, at, gasPool, budget, results, bytes>>

\* The request has been read; the first block is next.
SanitizeEnd ==
    /\ simulation = "chain" /\ blocks # <<>>
    /\ simulation' = "calls" /\ at' = 1
    /\ gasPool' = blocks[1].limit /\ results' = <<<<>>>>
    /\ UNCHANGED <<base, blocks, requested, budget, bytes>>

-----------------------------------------------------------------------------
(* processBlock and execute.                                               *)

\* simulationGasBudget.cap.
Capped(gas) == IF gas > budget THEN budget ELSE gas

\* A call that sanitizeCall refuses: it asks for more than the block has left, or
\* the budget is used up.
Refused(gas) == gas > gasPool \/ Capped(gas) = 0

\* A message that does not run: its gas does not cover its intrinsic cost.
Unpaid(gas) == Capped(gas) < IntrinsicGas

\* Mutant: a call that the budget has cut short is reported as a call out of gas.
CutShortNever(gas, need, failure) == FALSE

\* A call that runs out of gas because of the budget ends the request; only
\* vm.ErrOutOfGas is looked for.
CutShort(gas, need, failure) ==
    Capped(gas) < gas /\ Capped(gas) < need /\ failure = "outOfGas"

\* The gas that a call uses.
Usage(gas, need, failure) ==
    IF Capped(gas) >= need THEN {need}
    ELSE IF failure = "outOfGas" THEN {Capped(gas)} ELSE IntrinsicGas..Capped(gas)

\* sanitizeCall, the execution, and the bookkeeping after it.
SimulateCall(ask, need, failure) ==
    /\ simulation = "calls" /\ ~blocks[at].gap /\ Len(results[at]) < MaxCalls
    /\ MapThenSumSet(LAMBDA i : Len(results[i]), DOMAIN results) < MaxTotalCalls
    /\ LET gas == Given(ask, gasPool)
       IN IF Refused(gas) \/ Unpaid(gas) \/ CutShort(gas, need, failure)
          THEN simulation' = "refused" /\ UNCHANGED <<gasPool, budget, results>>
          ELSE \E used \in Usage(gas, need, failure) :
                  LET error == IF Capped(gas) >= need THEN "none" ELSE failure
                  IN IF used > budget
                     THEN simulation' = "refused" /\ UNCHANGED <<gasPool, budget, results>>
                     ELSE /\ gasPool' = gasPool - used
                          /\ budget' = budget - used
                          /\ results' = [results EXCEPT ![at] =
                                            Append(@, [gas |-> gas, need |-> need, used |-> used, error |-> error])]
                          /\ UNCHANGED simulation
    /\ UNCHANGED <<base, blocks, requested, at, bytes>>

\* The encoding of a block's results: a unit for the block, one for each call.
Encoded(calls) == 1 + Len(calls)

\* The end of a block: its encoding, and a comma before all but the first.
BlockEnd ==
    /\ simulation = "calls"
    /\ LET additional == Encoded(results[at]) + (IF at = 1 THEN 0 ELSE 1)
       IN IF bytes > MaxResponseBytes \/ additional > MaxResponseBytes - bytes
          THEN simulation' = "refused" /\ UNCHANGED <<at, gasPool, results, bytes>>
          ELSE /\ bytes' = bytes + additional
               /\ IF at = Len(blocks)
                  THEN simulation' = "done" /\ UNCHANGED <<at, gasPool, results>>
                  ELSE /\ at' = at + 1 /\ gasPool' = blocks[at + 1].limit
                       /\ results' = Append(results, <<>>)
                       /\ UNCHANGED simulation
    /\ UNCHANGED <<base, blocks, requested, budget>>

SimulationNext ==
    \/ SimulationBegin \/ SanitizeEnd \/ BlockEnd
    \/ \E override \in Options(Numbers), time \in Options(Times), gasLimit \in Options(GasLimits) :
          SanitizeBlock(override, time, gasLimit)
    \/ \E ask \in Options(CallGas), need \in Needs, failure \in {"outOfGas", "other"} :
          SimulateCall(ask, need, failure)

SimulationSpec == SimulationInit /\ [][SimulationNext]_simulationVars

-----------------------------------------------------------------------------

UsedBy(calls) == MapThenSumSet(LAMBDA i : calls[i].used, DOMAIN calls)

\* What eth_simulateV1 answers with: blocks numbered from the base on without a
\* hole, with times that increase, as many as allowed, although requested numbers
\* and times may be anywhere up to the largest uint64; calls that used no more
\* gas than each block and the whole request have; a call reported as out of gas
\* only if what it asked for itself was too little (other failures may be the
\* budget's doing); and a response whose encoding
\* has the size that was counted and allowed.
SimulationSound ==
    /\ Len(blocks) <= MaxSimulateBlocks
    /\ \A i \in DOMAIN blocks :
          /\ blocks[i].number = base.number + i
          /\ blocks[i].time \in ((IF i = 1 THEN base ELSE blocks[i - 1]).time + 1)..MaxUint
    /\ MapThenSumSet(LAMBDA i : UsedBy(results[i]), DOMAIN results) <= GasCap
    /\ \A i \in DOMAIN results :
          /\ UsedBy(results[i]) <= blocks[i].limit
          /\ \A j \in DOMAIN results[i] :
                results[i][j].error = "outOfGas" => results[i][j].gas < results[i][j].need
    /\ simulation = "done" =>
          LET encoded == 1 + Len(results) + MapThenSumSet(LAMBDA i : Encoded(results[i]), DOMAIN results)
          IN Len(results) = Len(blocks) /\ bytes = encoded /\ encoded <= MaxResponseBytes

=============================================================================
