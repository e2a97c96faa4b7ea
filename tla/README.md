# Verification of ethertest

TLA+ models, TLC runs and TLAPS proofs for ethertest, a single-process Ethereum
test node: an execution chain kept by geth, a synthetic Beacon view of it, and
commands to mine, fork, rewind and override it. Paths below are relative to
`src/`.

## The system

One controller goroutine (`Node.run`) executes every write command, one at a
time; RPC handlers read beside it. A command that changes the chain builds a
block or picks a stored one, collects every auxiliary row in a *prepared
operation*, and hands both to `commitPrepared`: write the operation under the
journal key, write the execution keys, store the block, move geth's head, write
the auxiliary batch and delete the journal in one batch, then run the apply
closure on the memory image. A command that only changes metadata writes one
batch (`commitAuxiliary`). Startup recovers a journal it finds, loads the image,
validates it against geth's database and builds the pending view. Every commit
appends to a bounded event log, which filters, live subscriptions and the Beacon
event stream read at their own pace.

| part | state | operations | modelled by |
|---|---|---|---|
| recovery journal (`commit.go`, `state_metadata.go`) | journal key, auxiliary rows, execution keys, blocks, head, disabled-writes flag | commitPrepared, commitAuxiliary, recoverPreparedOperation | `PreparedCommit`, `CommitProtocol`, `AtomicCommit` |
| metadata and validators (`state_metadata.go`, `metadata.go`) | timeline, canonical slot index, block slots, safety, checkpoints, branches | load, validate, put | `Chain` |
| block production (`node.go`, `chain.go`) | head, slot, pending block | Mine, MissSlots, rebuildPendingView | `ChainNode` |
| control blocks (`control.go`) | taint | applyControl | `ChainNode` |
| branches, checkpoints, snapshots (`branch.go`, `node.go`) | branches, checkpoints, snapshots | CreateBranch, MineBranch, SwitchBranch, Checkpoint, Restore, Snapshot, Revert | `ChainNode` |
| synthetic finality (`finality.go`) | pause flag, frozen slot | PauseFinality, ResumeFinality, checkpoint events | `Chain`, `ChainNode` |
| execution requests (`execution_requests.go`) | FIFO per type, records per block | addExecutionRequest, prepare, reconcile, validate | `Chain`, `ChainNode` |
| transaction pool, mining modes, withdrawals (`chain.go`, `node.go`, `runtime_control.go`, `withdrawal.go`) | pool, arrivals, blobs, pending view, mode, ticker, withdrawal queue | SendTransaction, drops, SetAutomine, SetIntervalMining, miner_*, AddWithdrawal, SetFeeRecipient | `TxPool` |
| event log (`events.go`) | events in memory, rows, next revision | plan, apply, load, since, sinceAndWait | `EventLog` |
| filters (`rpc_filters.go`) | installed filters, cursors | install, poll, expire | `Filters`, `LogRange` |
| subscriptions (`rpc_subscriptions.go`) | pump and writer goroutines, slots | subscribe, pump, write, release | `Subscriptions`, `LogRange` |
| Beacon event stream (`beacon.go`) | handler position, wire IDs | serve, resume | `BeaconStream` |
| lifecycle (`node.go`, `rpc_server.go`) | lifecycle state, locks, channels, wait groups | Start, Close, Wait, controller, IPC and HTTP servers | `Lifecycle` |
| archives (`archive.go`) | spool, temporary file, destination | dumpState, load | `Archive`, `StateFiles` |
| staged directories (`staged_directory.go`) | destination, staging directories | installStagedDirectory, roll-back | `StagedDirectory`, `StateFiles` |
| synchronous send (`rpc_transactions.go`), receipts (`rpc_queries.go`) | cursor of the call, what its lookups found | SendRawTransactionSync, transactionReceipt | `SyncSend` |
| gas estimate (`rpc_calls.go`) | bounds of the bisection | EstimateGas | `EstimateGas` |
| simulation (`rpc_simulate.go`) | chain of blocks, gas pool, budget, size of the response | SimulateV1 | `Simulation` |
| transactions from arguments (`rpc_transactions.go`, `rpc_types.go`, `rpc_calls.go`, `rpc_simulate.go`) | the arguments | sending, signing, simulating, tracing | `TransactionArgs` |
| wallet, blob formats, other queries, transports, configuration, CLI | | | not modelled, see the end |

What is hard to test here: a crash between any two writes of a commit or of a
recovery; a commit that succeeds and whose view rebuild fails; rewinds followed
by the same work again; readers that fall behind a log that is trimmed; two
goroutines and a connection that end in any order; a start that fails while
clients connect; a failure after the block was stored but before the caller is
answered; several processes at one destination, one of which loads what another
is dumping; a call that looks twice at a chain that is switched in between; limits
that meet the largest integer. PROJECT.json lists each with the
line where it bites and the property that covers it.

## Modules

Optional values are sets of at most one element throughout. A history variable
is marked as one and no action reads it.

`PreparedCommit` has the database (`aux`, `nodes`, `blocks`, `head`, `journal`)
and one action per durable write of `commitPrepared`: `Prepare`, `WriteNodes`,
`PersistBlock`, `SetCanonical`, `FinalizeCommit`. `Crash` and `FailCommit` may
come between any two of them; `RecoverFinalize`, `RecoverDiscard`,
`RecoverCancel` and `RecoverMismatch` are the outcomes of
`recoverPreparedOperation`, the discard and the cancel being separate batches
as in the code. `TornSetCanonical` is geth failing half way through a
reorganisation: the head is then an intermediate block.

`CommitProtocol` closes these under *every* operation a caller could hand in,
and states that the result implements `AtomicCommit`, in which a write is
submitted and then happens at once or not at all. The refinement mapping is what
a restart would find: a journaled operation counts as done when it has reached
its target, and as undone when not.

`Chain` holds pure operators: the block tree, the tables, the plans (puts,
deletes, new image) of each command, and the startup validators. A block is
named by its contents, like a hash: its path of headers from genesis. A header
has slot, kind and consumed requests, so mining the same thing again after a
rewind gives the *same* block, which two of the disagreements below depend on.

`ChainNode` composes both: each command of the controller is an action that
computes its plan and enters the journal protocol; `Apply` runs the closure and
`Rebuild` the pending view. Commands with a count are that many consecutive
one-block commits. Control blocks publish a `control_block` event; the log is
abstracted to a follower that keeps the tip and the finalized checkpoint it was
last told.

`EventLog` models the log itself: plan with its overflow check, rows put and
deleted in the journaled batch, the apply, trimming, and loading. `Filters`,
`Subscriptions` and `BeaconStream` extend it with readers. A block that joins
the chain again gets a fresh name there. The stored key of the next revision is
written but never read by the code, and is left out.

`LogRange` is the block range of a log filter or a logs subscription: a block
hash, or bounds that are numbers or `latest`. A poll and a pump read the events
first and geth's head, against which `latest` is resolved, in a step of its own.

`Lifecycle` has one program counter per goroutine. What they wait for
(`lifecycleMu`, wait groups, closed channels) is state; each blocking point of
the code is a guard.

`TxPool` has the commands that touch pool, view, withdrawals and mode. Each takes
a fault (`build`, `journal`, `apply`, `rebuild` or none) and rolls back exactly
what the code rolls back on that path. Execution is geth's and reduced to a fee
threshold and room in the block.

`Archive` and `StagedDirectory` model files. A power failure undoes what was not
synced: the content of a file that was written, and the entry of a directory
that was renamed, are then any of those they had since the last sync (`entries`
in `StagedDirectory`). `StateFiles` composes them: a node dumps, loads install
the archive they find at the destination of the dumps into a directory that
starting nodes want as well, processes stop and the power fails for all at once.
Each step of a load is a step of `StagedDirectory`; the step that has staged the
database takes the archive that is at the destination then.

`SyncSend` extends `EventLog` with a call of `eth_sendRawTransactionSync`, one
action per read: the cursor, the submission, the two lookups of
`transactionReceipt`, each round of `sinceAndWait`. The node mines and switches
beside it, and a second client may send the same transaction. `home` says which
block holds the transaction; a switch may bring a block back.

`EstimateGas` is the bisection, `Simulation` the blocks and limits of
`eth_simulateV1`, `TransactionArgs` the type, the checks and the defaults of a
transaction for every combination of fields. In `EstimateGas` the amounts with
which the call succeeds are any set: a contract can look at the gas it has left,
so that more gas is not always better. In `Simulation` a call that gets less gas
than it needs ends out of gas or with another error. `RpcCalls` puts the four into one
specification; they share no state, and a behaviour follows one of them.

## Runs

`tlc -config <cfg> <module>`; the module of each run is in PROJECT.json. States
are distinct states of the complete state space.

| run | what it shows | states |
|---|---|---|
| `commit_protocol` | `Atomicity`: the journal protocol implements `AtomicCommit`; `NoPendingJournalWhenReady`; `StartupEnds` | 84,060 |
| `chain_requests` | `RequestsConserved`, `SwitchesAccepted`: queued requests are neither lost nor repeated through missed slots, rewinds, forward restores, errors and crashes; `MemoryMatchesDisk`: a node that accepts writes has the image a restart would load, and a pending block for its head, slot and queue | 335,858 |
| `chain_reorg` | `SafetyExact`, `FollowerAtHead`, `StateComplete`, `SessionTaintMonotonic` with a branch, control blocks, pauses and torn reorganisations; `StartSucceeds`: a start fails in the three known ways only; `ReadersStayCanonical`: readers between geth's head and the slot index; `AnnouncedFinality`: a checkpoint that changes is announced; `FinalizedHistoryKept`: SwitchBranch never removes the block that is finalized when it starts | 417,323 |
| `filters` | `PolledOnce`, `LogsAreCanonical`: polls lose and repeat nothing in a range by number or hash, and the logs a client holds are those of canonical blocks; `AbandonedFilterRemoved` | 705,615 |
| `subscriptions` | `StreamHasNoHole`, `EventsArrive`: a stream shows all in order or ends; `GoroutinesEnd`: it ends with its connection and with the node, and its slot is free | 516,070 |
| `beacon_stream` | of the log, `LogIsTail` with batches longer than the capacity and revisions at their limit; of the stream, `ReceivedOnce`, `MessagesArrive` across broken connections and restarts | 129,474 |
| `lifecycle` | `StorageClosedLast`, `EndIsReported`, `OneShot`, `CallsReturn` | 193,393 |
| `tx_pool` | `QueuesAreAccepted`, `ViewExact`, `InArrivalOrder`, `BlobsKept`, `WithdrawalIndexesContiguous`, `TickerFollowsMode` with a failure at any step | 704,532 |
| `state_files` | `DestinationLoads`: an archive is there whole or not at all; `InstalledKept`: what a load reported as installed stays; `LoadsReportedDump`: it is the last reported dump or a later one; through failed commits, panics, stopped processes and power failures | 1,038,948 |
| `rpc_calls` | `SyncReturns`: a synchronous send does not miss its transaction; `EstimateExact`; `SimulationSound`: blocks, gas and size up to the largest integer; `BuildsWhole`: no field is dropped and no nil pointer followed | 460,645 |
| `index_lost` | expects a violation of `StoredIndexCoversChain`, see below | |
| `torn_receipt` | expects a violation of `ReceiptIsWhole`, see below | |

### Disagreements

Where the code differs from what a doc, message or test of the repository says.
The first two have runs of their own. The others are why a property is worded
or a run is bounded as it is.

- A switch between two blocks of one slot puts and deletes the same index key in
  one operation, and deletes come last (`branch.go:274`,
  `state_metadata.go:174`). The next start fails, although `README.md:231` says
  that slots survive a restart. Run `index_lost`. Because of it
  `MemoryMatchesDisk` lets the stored index lack entries that memory has, never
  the reverse.
- `transactionReceipt` looks the transaction up twice (`rpc_queries.go:272`). A
  switch and a block in between give a receipt that names one block and shows the
  status and logs of another; `docs/architecture.md:7` says that queries are
  anchored to immutable committed headers. Run `torn_receipt`.
- A block built again after a rewind or on another branch is already stored; a
  crash before `SetCanonical` makes recovery delete it and leave its rows
  (`state_metadata.go:116`). The next start fails; `docs/architecture.md:24` says
  the intent is cancelled. It is the exception `StoredBlockDiscarded` of
  `StartSucceeds`, which `ChainReorg.cfg` and `ChainRequests.cfg` both violate
  without it.
- Revert has no finality check (`node.go:342`); `docs/anvil-compatibility.md:19`
  says that finalized history is protected. `ChainReorg.cfg` with `Snapshot` among
  the commands and one snapshot violates `FinalizedHistoryKept`.
- The guard of SwitchBranch uses the current slot, which a switch may lower
  (`branch.go:211`): two switches, each allowed, replace a block whose
  finalized-checkpoint event was published. `FinalizedHistoryKept` is about the
  block that is finalized when the command starts.
- `latest` as a bound of a log filter or a logs subscription is resolved against
  the head of the poll or of the pump's read, not of the events replayed
  (`rpc_filters.go:221`, `rpc_subscriptions.go:146`). With `latest` as the last
  block, a rewind hides the removals of the blocks above the new head, against
  `docs/anvil-compatibility.md:78`. With `latest` as the first block, the logs of
  all but the newest of the blocks since the last read are skipped, although the
  cursor passes them. `PolledOnce`, `LogsAreCanonical` and `StreamHasNoHole` are
  exact for ranges that are `Fixed`; `LogsAreCanonical` without that condition is
  violated by `Filters.cfg`. For the others they say that nothing is repeated or
  out of order and, if only the last block is `latest`, that no log of a block
  that is still canonical is missing.
- A simulated call that the gas budget cuts short ends the request only if its
  error is `vm.ErrOutOfGas` (`rpc_simulate.go:480`). A creation that cannot pay
  for its code, or a revert after an inner call ran out of gas, is reported as a
  failed call although the budget was the reason. `SimulationSound` is about
  calls reported as out of gas.
- A node that cannot open the database it has just installed removes it
  (`node.go:297`), also when the reason is that another node has opened it. The
  exception `undone` of `InstalledKept` covers this; without it two nodes violate
  the property.
- A start that fails waits, holding `lifecycleMu`, for goroutines that may wait
  for `lifecycleMu` (`rpc_server.go:76`, `node.go:427`): a handler of
  eth_subscribe, an IPC server that failed on its own, a controller whose command
  panicked. `StartBlocked` lists the three, and `CallsReturn` without it fails;
  `ipc_test.go:265` expects that a failed start leaves a stopped node.
- Sending a pooled transaction with a fee cap below 10 wei again replaces it by
  itself and deletes its arrival (`chain.go:376`), so that it is mined first.
  With a fee of 8 instead of 10 in `MCTx`, `InArrivalOrder` is violated.
- A gas estimate whose ceiling is 0 or 1 gives the override 0 to its probes, which
  stands for no override, and may answer 0. Only a client or a block override can
  set such a ceiling; `EstimateExact` is about ceilings from 2 on.

### Bounds

Journal: one auxiliary key, two values, two execution keys (one may be stored
already while the other is new) and three blocks (old head, target, and a third
for torn and mismatched heads). One operation is in flight at a time in the code
as well, so more keys only add copies of the same cases.

Chain: at most three to five blocks and two to five slots, enough for a fork, a
missed slot, a rewind with a rebuild, and, with one slot per epoch, a finalized
block with history below and above it. Capacities of one and two per request
type, with a slot in which native requests take the room.

Log: a capacity of two or three events and batches of two, so that a batch can
empty the log, and revisions that reach the limit. Readers: one filter of each
kind, log filters with seven ranges (all blocks, from and up to a number, empty,
one block, from and up to `latest`), polls that return up to two results; one
client with three streams, its logs of all blocks, up to a number, up to and from
`latest`; one Beacon client that loses its connection twice.

Lifecycle: one Start, two Closes, one client per transport. A second client per
transport would wait for what the first waits for. Calls of an embedding program
are modelled (`Embedders`) but not in this run: they only execute, without a
connection.

Pool: two senders, one of them with two nonces, two fees around the base fee, two
arrivals and any number of replacements; withdrawals with a limit of two of the
code's sixteen, two requested, together or in turn; two fee recipients up to symmetry.

Files: one commit and two dumps, so that a load can meet an older and a newer
archive, one load and one node that race for the destination, with a placeholder
that rename replaces. The proofs cover more of each, and the other file systems.

RPC calls: a log of two events, so that the call can fall behind; gas from 0 to 6
under a cap of 5; integers up to 7 in a simulation, with base blocks near both
ends, two requested blocks and gaps up to a chain of three, two calls each and three in
all;
arguments with every subset of the fields.

Deadlock is checked except where the system may stop: a closed node, a client
that has left, a node with writes disabled and nothing queued, and processes that
have all returned.

### Fairness

- `commit_protocol`: weak fairness of recovery and opening, one straight-line
  function of the starting process. Commands, crashes and errors are not fair.
- `lifecycle`: goroutines that can run do. Strong fairness for the two arms of
  the controller's `select`, which Go chooses at random, and for handing a command
  over: senders queue on the channel. Nobody is obliged to call, connect or leave.
- `rpc_calls`: the goroutine of a synchronous send goes on once the controller has
  taken its transaction, and the controller ends a commit it has begun. Nobody
  has to mine, and the call's timeout need not come: `SyncReturns` is about calls
  that do not need it.
- `subscriptions`, `beacon_stream`, `filters`: the node's goroutines, the
  handler, the client's connection and the clock go on; the client need not poll,
  and a connection may break a bounded number of times.

Geth's RPC handler is external: `Lifecycle` assumes that closing a connection
waits for its running calls before it cancels their contexts.

## Proofs

A theorem holds for every value of the constants that satisfies the named
assumptions; TLC evaluates the assumptions in the runs.

### The journal

`CommitProtocolProofs` proves about `CommitProtocol`, for any sets of keys,
values, execution keys and blocks, from the one assumption `GenesisIsBlock`
(the genesis block is a block):

- `TypeCorrect`: `Spec => []TypeOK`;
- `NoPendingJournal`: `Spec => []NoPendingJournalWhenReady`, so that
  commitPrepared's refusal "a prepared operation is already pending" is never
  returned to a client of a node that accepts writes;
- `Refinement`: `Spec => Atomicity`, the journal protocol implements
  `AtomicCommit`.

None of these is inductive by itself. The invariant `IInv` adds three facts to
the types. `JournalMatchesStage`: the journal exists exactly from the
preparation to the final batch. `RollbackIsExact`: the keys a cancel deletes are
keys this operation added, and the others it names were stored before; without
it a cancel could delete state of another block, and the mapped execution keys
would shrink. `TargetMatchesStage`: before the mutation the head is the old head,
after it the target, so that `Reached` changes at one step only. The proof goes
action by action (`NextInvariant`); the refinement then shows for each action
that what a restart would find is unchanged, or changes as one step of
`AtomicCommit`: `Prepare` submits (`PrepareRefines`), or performs at once when
the target is already reached; the write that reaches the target commits
(`ReachRefines`); a cancel aborts; the final batch, crashes and repeated
recoveries are stuttering steps.

### The chain

Four modules prove about `ChainNode`, for any numbers of slots, blocks, branches,
checkpoints, snapshots and requests and any of the faults, from
`BranchAssumption` (a branch's blocks are not marked as mined or control blocks),
`BoundAssumption`, `SlotsPerEpochPositive`, `CapacityPositive` and
`SlotAssumption` (the bounds and sizes are natural numbers):

- `StateStaysComplete`: `[]StateComplete`;
- `MemoryStaysStored`: `[]MemoryMatchesDisk`;
- `FollowerEndsAtHead`: `[]FollowerAtHead`;
- `SafetyIsExact`: `[]SafetyExact`;
- `RequestsStayConserved`: `[]RequestsConserved`;
- `SwitchesStayAccepted`: `[]SwitchesAccepted`;
- `StartsSucceed`: `[]StartSucceeds`;
- `ReadersSeeCanonical`: `[]ReadersStayCanonical`;
- `SessionTaintStays`: `SessionTaintMonotonic`;
- `FinalityIsAnnounced`: `AnnouncedFinality`;
- `HistoryIsKept`: `FinalizedHistoryKept`, for nodes without checkpoints and
  snapshots (`Checkpoints = {}` and no `Snapshot` command), as the property says.

`ChainProofs` has the lemmas about blocks and tables. A block is the sequence of
its headers, so that ancestry, the common ancestor of `divergentPaths`, the walk
of the block events, and the slots along a chain are facts about prefixes. What
would need induction over a chain, that its slots ascend and that any set of its
blocks has a highest one, is part of `GoodBlock` and goes from parent to child.

The requests need the longest argument. Neither `RequestsConserved` nor
`SwitchesAccepted` is inductive: a switch to a branch returns and takes requests
of blocks that are not canonical, of which they say nothing. `Ledger` says it: per
type there is one order in which the requests were issued, and every stored block,
on whatever branch, consumes the interval of it that follows the interval of its
parent (`Booked`); the FIFO is the rest after the head (`Queued`). A switch from
one head to another then returns and takes intervals that meet, so
`reconcileExecutionRequestQueue` accepts it and leaves the rest after the new head
(`LedgerSwitch`); a block that is built a second time consumes what it did the
first time (`BookChild`); conservation is that intervals along one chain do not
overlap and leave no gap (`LedgerConserved`).

`ChainPlanProofs` has what one command plans. `Good(m, kv, h)` says that image m
is the one stored in kv and that it is right for head h: the slot index is of h's
chain, every block with metadata has its ancestors', its exact taint, its slot
and its projection, checkpoints, branches and the session agree with them, the
reader of events is at h, and the ledger holds. `HeadPlanGood`, `BranchPlanGood`
and `SwitchPlanGood` show that the batch of a plan takes a good image to a good
one, `LoadGood` that loading a database gives the image it stores, and `GoodValid`
that a good image passes every validator of `newNode`, if the stored index covers
the chain and the blocks are there.

`ChainNodeProofs` has the inductive invariant `Inv` of the node. `Shape`: where the
head is at each point of a commit, and that the journal is there exactly while one
is under way or was cut off. `DiskGood`: without a journal the database is good for
geth's head; with one it is good for the old head, and the journaled batch would
make it good for the target. This carries a crash, whatever recovery then does.
`MemoryGood`, `PendingGood`, `SnapshotsGood` and `IndexGood` tie memory to it, also
after an error has disabled writes; `NodesKept` is about the state of the blocks.
The module also proves `StateComplete`, `MemoryMatchesDisk`, `FollowerAtHead`,
`SafetyExact` and `SessionTaintMonotonic`, which `Inv` implies.

`ChainNodeTheorems` has the others. Four of them need one more invariant each on top of `Inv`: `BlocksStored` (the
blocks with metadata can be read, but for the one of the commit under way),
`AnnounceGood` and `HistoryGood` (what the commit under way will announce and keep),
and `StartSucceeds` itself.

### The event log

`EventLogProofs` is about `EventLog`, for any capacity
and limit of revisions that are positive and batches of any length
(`CapacityAssumption`, `RevisionAssumption`, `AddedAssumption`):

- `LogCorrect`, `StreamLogCorrect`: `[]LogIsTail`, for the log alone and under
  the Beacon stream;
- `SinceComplete`: a reader that is told of no gap gets every event after the
  revision it has seen, in order. Filters, subscriptions, the Beacon stream and
  the synchronous send rest on it.

Everything is stated over one sequence, the `history` of committed events, whose
event i has revision i. `Shown(h, m)` is the log that has applied the first m
events of h, `Stored(h)` the rows that are left on disk. The lemmas show that
planning, trimming and loading go from one of these to another: a batch appended to `Shown(h, m)` gives `Shown` of the longer history
(`ShownExtends`), its puts and deletes take `Stored(h)` to `Stored` of the longer
history (`StoredExtends`), also when the batch is longer than the capacity, and
`LoadLog(Stored(h))` is `Shown(h, Len(h))` (`LoadShown`). The inductive invariant
`LogInv` then says that the rows are `Stored(history)` and that the log of a
running node is `Shown(history, next - 1)`, where `next - 1` is less than the
length of the history only while an operation is written and not applied, or
after a failed apply. It also says that a planned or journaled batch continues
the history (`Continues`, `BatchContinues`): this is what makes recovery after a
crash write the same events, once.

### Files

`RequestProofs` is about `StateFiles`, for any numbers of commits, dumps,
loads and nodes, with or without a placeholder, on file systems where rename
replaces an empty directory and on those where it does not. The assumption
`ProcessAssumption` is that a process is either a load or a node, and not called
like a state of the destination.

- `ArchiveAtomic`: `[]DestinationLoads`;
- `InstallationKept`: `[]InstalledKept`;
- `LoadIsCurrent`: `[]LoadsReportedDump`.

The invariant has a part per module. `ArchiveInv`: the image in memory is current
unless the node refuses to dump, a dump in progress is of the current image, and
the entry that a power failure could restore is never older than what was
reported. `InstallInv`: who may change the destination at each point of
`installStagedDirectory`, that every entry a power failure could restore is one
the model knows, and that the entry of an installed database is the only one left
after its sync. `LoadInv` ties them together: what a load has staged is at least
what was reported when it began. `FilesStepSplits` shows that a step of the
composition is a step or a stutter of each part, so that the lemmas of the parts
are proved once.

### Starting and stopping

`LifecycleProofs` is about `Lifecycle`, for any number of callers of Start and
Close, of connections of both kinds and of embedders, from `GoroutineAssumption`
(each goroutine has one role and a name of its own):

- `StorageLast`: `[]StorageClosedLast`;
- `EndReported`: `[]EndIsReported`;
- `StartedOnce`: `OneShot`.

The run has one client per transport, and it is the theorem that covers several
connections ending in any order. The invariant `LifecycleInv` says who excludes
whom. `StartInv`: a Start under way holds `lifecycleMu`, and nothing has stopped
the node before Start gives up. `CloseInv`: one Close at most is at work, it has
begun with no Start under way, and past `stopIPC` no IPC connection is left or can
come (`IPCOver`). `ServerInv`: a server that was never started has no connections,
which a Start that fails half way relies on. `CommandInv`: the command a caller
waits for is the controller's current one. `StorageInv` adds to
`StorageClosedLast` why nothing comes back: the servers are gone or refuse.

### Gas estimate

`RequestProofs` also proves `EstimateCorrect`: `EstimateSpec => []EstimateExact`
for any amounts, any cap (`AmountsAssumption`, `CapAssumption`) and any set of
amounts that are enough. `SearchInv` is the invariant of the bisection: one unit
below `low` is not enough unless `low` is 0, and `high` is the ceiling or is
enough. Where the search ends the two meet.

### Only model-checked

- Liveness (`StartupEnds` and every property under fairness): out of the prover's
  reach.
- `TxPool`: block building is a recursive operator, which the prover cannot use,
  and what it computes would need induction over the transactions.
- `TransactionArgs`: the run enumerates every combination of arguments, so that
  TLC's result is complete.
- `Filters`, `Subscriptions`: they select from the history (`SelectSeq`), which
  would need induction over it. The stream of `BeaconStream` enumerates the
  events that are due in ascending order.
- `Simulation`: its runs of blocks and calls add up gas with folds.
- `ChainNode.TypeOK`, which counts the journal; the proofs use `Shape` instead.

## What is not modelled

- Wallet: a map under a mutex that only controller commands change. A crash
  between the funding block of an import and the signer leaves a funded address
  without a signer, which `docs/architecture.md` states.
- Execution, signatures, balances, gas, blob proofs: geth's.
- The bytes of typed requests, Beacon containers, archives and projections:
  formats, reduced to what the properties tell apart. How `consensus.go` computes
  a projection from a block is a function of the block. Request records derived
  for blocks without one appear only for genesis.
- Control records: the state changes of a control block, and their verification
  at startup, which recomputes hashes.
- JSON-RPC queries other than the receipt: each reads one header or block and
  formats it. Of the calls, `eth_createAccessList`, automatic nonces, the head
  feed of the fee oracle, and the headers, forks and state overrides of a
  simulation. A simulated call needs a fixed amount of gas to succeed.
- Log ranges with `safe` or `finalized` as a bound, which move with the slot and
  fail while there is no such block, and log matching by address and topics.
- Transports: the framing of WebSocket and IPC messages and their size limits
  change no state of the node. What connections mean for starting and stopping
  is in `Lifecycle`.
- Configuration, genesis files, logging, CLI: no state that changes.
- The in-process client of `RPCClient`: `Close` does not track its handlers.
- Pool persistence: the pool is not stored, so `TxPool` has no restarts. On a
  rewind the transactions and withdrawals of removed blocks are not returned to
  the queues, as in the code.
- Withdrawal indexes at 2^64.

Three facts of the code that the properties are worded around: after a commit,
a cancelled client context makes the view rebuild fail, which disables writes and
sets manual mining until a restart; with several processes a roll-back of
`installStagedDirectory` can leave the placeholder unrestored; and `New` leaves
its staging directory behind when the destination is refused.

## Plan

Next, in this order:

1. Prove that `ChainNode`'s journal steps are steps of `CommitProtocol`, which
   carries `Atomicity` over to the commands.
2. Model wallet import and removal over the control-block commit, and the
   verification of control records at startup.
