------------------------------- MODULE TxPool -------------------------------
(***************************************************************************)
(* The transaction pool, the pending view, the withdrawal queue and the    *)
(* mining modes (chain.go, node.go, runtime_control.go, withdrawal.go).    *)
(* They live in memory and are changed by commands of the controller, one  *)
(* at a time; each command may fail where the code returns an error, and   *)
(* rolls back or not as the code does.                                     *)
(*                                                                         *)
(* A transaction is identified by its sender, its nonce and its fee, which *)
(* is both its fee cap and its tip; every transaction carries blobs.       *)
(* Execution is geth's: a transaction fits a block when its fee reaches    *)
(* the base fee and the block has room.                                    *)
(***************************************************************************)
EXTENDS Integers, Sequences, FiniteSets, SequencesExt

CONSTANTS
    Senders,
    Tx,              \* the transactions that are sent; fees are in wei
    Order,           \* cfg.Mining.Order: "fees" or "fifo"
    BlockCapacity,   \* the transactions a block has gas for
    LowBaseFee,      \* the base fee after a block without transactions,
    HighBaseFee,     \* and after one with some
    MaxWithdrawals,  \* maxWithdrawalsPerBlock
    MaxRequests,     \* bound on the withdrawals requested
    Recipients,      \* fee recipients
    MaxArrivals,     \* bound on the transactions accepted at a place of their own
    MaxBlocks,       \* bound on the chain for blocks that no transaction asked for
    Commands,        \* commands that clients give
    Faults           \* where a command may fail

ASSUME PoolAssumption ==
    /\ Tx \subseteq [from : Senders, nonce : Nat, fee : Nat]
    /\ {BlockCapacity, MaxWithdrawals, MaxBlocks} \subseteq Nat

VARIABLES
    chain,         \* canonical blocks after genesis, without their coinbases
    saved,         \* a checkpoint: the chain to restore
    pool,          \* c.pending, c.arrival, c.nextArrival, c.blobs
    storedBlobs,   \* transactions whose blobs are in the database
    withdrawals,   \* n.pendingWithdrawals
    recipient,     \* c.feeRecipient
    view,          \* c.pendingView
    mode, resume,  \* n.miningMode, n.resumeMiningMode
    miningEmpty,   \* n.miningEmpty
    changed,       \* n.miningChanged holds a value
    ticker,        \* the ticker of run is set
    writeErr,      \* n.writeErr # nil
    busy,          \* a SetAutomine is under way
    owed,          \* history: accepted and since neither mined, replaced nor dropped, with its place
    requested      \* history: withdrawals accepted and not yet in a block; how many there were

poolVars == <<pool, storedBlobs, withdrawals, recipient>>
miningVars == <<mode, resume, miningEmpty, changed, ticker>>
vars == <<chain, saved, poolVars, view, miningVars, writeErr, busy, owed, requested>>

-----------------------------------------------------------------------------
(* Building a block.                                                       *)

Mined(blocks) == UNION {ToSet(blocks[i].txs) : i \in DOMAIN blocks}

\* StateDB.GetNonce at the head.
NonceOf(blocks, sender) == Cardinality({t \in Mined(blocks) : t.from = sender})

\* eip1559.CalcBaseFee, with two levels.
BaseFee(blocks) == IF blocks # <<>> /\ Last(blocks).txs # <<>> THEN HighBaseFee ELSE LowBaseFee

\* A transaction without an arrival counts as the first, as a missing key of
\* a Go map does.
Arrival(p, t) == IF t \in DOMAIN p.arrival THEN p.arrival[t] ELSE 0

\* transactionBefore; between equals CHOOSE stands for the order of the hashes.
Before(p, t, u) == IF Order = "fifo" THEN Arrival(p, t) <= Arrival(p, u) ELSE t.fee >= u.fee

\* executableTransactions: of the senders' next transactions, the first one, and so on.
RECURSIVE Executable(_, _)
Executable(p, next) ==
    LET heads == {t \in p.txs : t.nonce = next[t.from]}
        first == CHOOSE t \in heads : \A u \in heads : Before(p, t, u)
    IN IF heads = {} THEN <<>>
       ELSE <<first>> \o Executable(p, [next EXCEPT ![first.from] = @ + 1])

\* generateBlock with skipInvalid: a transaction that fails blocks its sender.
Accepted(txs, base) ==
    FoldLeft(LAMBDA r, t :
                IF t.from \in r.blocked THEN r
                ELSE IF t.fee < base \/ Len(r.txs) >= BlockCapacity
                     THEN [r EXCEPT !.blocked = @ \cup {t.from}]
                     ELSE [r EXCEPT !.txs = Append(@, t)],
             [txs |-> <<>>, blocked |-> {}], txs).txs

\* Mutant: the index is the number of withdrawals in the parent.
NextOfParent(blocks) == IF blocks = <<>> THEN 0 ELSE Len(Last(blocks).withdrawals)

\* nextWithdrawalIndex: one more than the last index on the way to genesis.
NextWithdrawalIndex(blocks) ==
    LET given == FlattenSeq([i \in DOMAIN blocks |-> blocks[i].withdrawals])
    IN IF given = <<>> THEN 0 ELSE Last(given).index + 1

AssignedWithdrawals(blocks, queue) ==
    [i \in DOMAIN queue |-> [index |-> NextWithdrawalIndex(blocks) + i - 1, request |-> queue[i]]]

\* buildBlock.
Build(p, blocks, queue, empty) ==
    [txs |-> IF empty THEN <<>>
             ELSE Accepted(Executable(p, [s \in Senders |-> NonceOf(blocks, s)]), BaseFee(blocks)),
     withdrawals |-> AssignedWithdrawals(blocks, queue)]

\* pendingCandidate and setPendingView.
ViewOf(p, blocks, queue, coinbase) ==
    LET block == Build(p, blocks, queue, FALSE)
    IN [block |-> block, coinbase |-> coinbase, parent |-> Len(blocks), queued |-> p.txs \ ToSet(block.txs)]

-----------------------------------------------------------------------------
(* The pool.                                                               *)

EmptyPool == [txs |-> {}, arrival |-> <<>>, next |-> 0, blobs |-> {}]

Previous(p, t) == {u \in p.txs : u.from = t.from /\ u.nonce = t.nonce}

\* addTransaction's refusals: the nonce is used, the replacement is underpriced.
Admitted(t) ==
    /\ t.nonce >= NonceOf(chain, t.from)
    /\ \A u \in Previous(pool, t) : t.fee >= (u.fee * 110) \div 100

\* Mutant: a replacement gets a place of its own, at the end.
AddAtEnd(p, t) ==
    LET previous == Previous(p, t)
    IN [txs     |-> (p.txs \ previous) \cup {t},
        arrival |-> [x \in (DOMAIN p.arrival \ previous) \cup {t} |->
                        IF x = t THEN p.next + 1 ELSE p.arrival[x]],
        next    |-> p.next + 1,
        blobs   |-> (p.blobs \ previous) \cup {t}]

\* Mutant: the blobs of a replacement are dropped with those it replaces.
AddWithoutBlobs(p, t) ==
    LET previous == Previous(p, t)
    IN [txs     |-> (p.txs \ previous) \cup {t},
        arrival |-> [x \in (DOMAIN p.arrival \ previous) \cup {t} |->
                        IF x # t THEN p.arrival[x]
                        ELSE IF previous = {} THEN p.next + 1
                        ELSE Arrival(p, CHOOSE u \in previous : TRUE)],
        next    |-> IF previous = {} THEN p.next + 1 ELSE p.next,
        blobs   |-> (p.blobs \cup {t}) \ {u \in p.txs : u.from = t.from}]

\* addTransaction: the place of what it replaces is assigned first and
\* deleted with the old transaction then.
Add(p, t) ==
    LET previous == Previous(p, t)
        assigned == [x \in DOMAIN p.arrival \cup {t} |->
                        IF x # t THEN p.arrival[x]
                        ELSE IF previous = {} THEN p.next + 1
                        ELSE Arrival(p, CHOOSE u \in previous : TRUE)]
    IN [txs     |-> (p.txs \ previous) \cup {t},
        arrival |-> Restrict(assigned, DOMAIN assigned \ previous),
        next    |-> IF previous = {} THEN p.next + 1 ELSE p.next,
        blobs   |-> (p.blobs \ previous) \cup {t}]

\* The command fails: restoreTransactionPool brings the snapshot back.
RestorePool(snapshot) == pool' = snapshot

\* blobPuts: a block's blobs, as far as memory has them, become durable with it.
BlobPuts(p, block) == ToSet(block.txs) \cap p.blobs

\* applyCanonicalBlock.
WithoutMined(p, txs) ==
    [p EXCEPT !.txs = {u \in @ : \A t \in txs : <<t.from, t.nonce>> # <<u.from, u.nonce>>},
              !.arrival = Restrict(@, DOMAIN @ \ txs), !.blobs = @ \ txs]

\* removePoolTransactions; blobs that are stored stay cached.
WithoutDropped(p, txs) ==
    [p EXCEPT !.txs = @ \ txs, !.arrival = Restrict(@, DOMAIN @ \ txs),
              !.blobs = @ \ (txs \ storedBlobs)]

-----------------------------------------------------------------------------

Init ==
    /\ chain = <<>> /\ saved = <<>>
    /\ pool = EmptyPool /\ storedBlobs = {} /\ withdrawals = <<>>
    /\ recipient \in Recipients
    /\ view = ViewOf(EmptyPool, <<>>, <<>>, recipient)
    /\ mode \in {"manual", "transaction", "interval"} \cap Commands
    /\ resume = IF mode = "manual" THEN "transaction" ELSE mode
    /\ miningEmpty = FALSE /\ changed = FALSE /\ ticker = (mode = "interval")
    /\ writeErr = FALSE /\ busy = FALSE
    /\ owed = <<>> /\ requested = [open |-> <<>>, count |-> 0]

\* executeWrite: the controller is free and writes are enabled.
Ready(command) == command \in Commands /\ ~busy /\ ~writeErr

\* Mutant: the controller is not notified.
SetMiningModeSilently(m) ==
    /\ mode' = m /\ changed' = changed
    /\ resume' = IF m = "manual" THEN resume ELSE m

\* setMiningMode: one notification is buffered, more are dropped.
SetMiningMode(m) ==
    /\ mode' = m /\ changed' = TRUE
    /\ resume' = IF m = "manual" THEN resume ELSE m

\* disableWrites.
DisableWrites ==
    /\ writeErr' = TRUE
    /\ SetMiningMode("manual")
    /\ UNCHANGED <<miningEmpty, ticker>>

\* The places of what is owed, without the transactions of some slots.
Settled(places, txs) ==
    Restrict(places, {t \in DOMAIN places : \A u \in txs : <<t.from, t.nonce>> # <<u.from, u.nonce>>})

\* mineExecutionBlock on the pool p.  It fails before the journal is written,
\* before the head moves, between that and the apply closure, or in the
\* rebuild of the view.
MineBlock(p, rollback, empty, fault, places) ==
    /\ \E block \in {Build(p, chain, withdrawals, empty)} :
          \E after \in {WithoutMined(p, ToSet(block.txs))} :
             \/ /\ fault \in {"build", "journal"}
                /\ RestorePool(rollback)
                /\ UNCHANGED <<chain, storedBlobs, withdrawals, owed, requested, view>>
             \/ /\ fault = "apply"
                /\ chain' = Append(chain, block)
                /\ pool' = p /\ owed' = places
                /\ UNCHANGED <<storedBlobs, withdrawals, requested, view>>
             \/ /\ fault \in {"none", "rebuild"}
                /\ chain' = Append(chain, block)
                /\ storedBlobs' = storedBlobs \cup BlobPuts(p, block)
                /\ pool' = after /\ withdrawals' = <<>>
                /\ owed' = Settled(places, ToSet(block.txs))
                /\ requested' = [requested EXCEPT !.open = <<>>]
                /\ view' = IF fault = "none" THEN ViewOf(after, Append(chain, block), <<>>, recipient) ELSE view
    /\ IF fault \in {"none", "build"} THEN UNCHANGED <<writeErr, miningVars>> ELSE DisableWrites
    /\ UNCHANGED <<saved, recipient>>

\* The place of an accepted transaction: that of the one it replaces, or the
\* next one.
Placed(t) ==
    LET previous == Previous(pool, t)
        place    == IF previous # {} THEN owed[CHOOSE u \in previous : TRUE]
                    ELSE 1 + Max({0} \cup {owed[u] : u \in DOMAIN owed})
    IN [u \in (DOMAIN owed \ previous) \cup {t} |-> IF u = t THEN place ELSE owed[u]]

-----------------------------------------------------------------------------
(* Commands.                                                               *)

\* Mutant: the pool is not restored when the view cannot be built.
SendKeeps(t, fault) ==
    /\ Ready("send") /\ Admitted(t) /\ (pool.next < MaxArrivals \/ Previous(pool, t) # {})
    /\ mode # "transaction" /\ fault = "build"
    /\ pool' = Add(pool, t)
    /\ UNCHANGED <<chain, saved, storedBlobs, withdrawals, recipient, view, miningVars, writeErr, busy, owed, requested>>

\* Mutant: the view is not rebuilt when a transaction joins the pool.
SendUnseen(t, fault) ==
    /\ Ready("send") /\ Admitted(t) /\ (pool.next < MaxArrivals \/ Previous(pool, t) # {})
    /\ mode # "transaction" /\ fault = "none"
    /\ pool' = Add(pool, t) /\ owed' = Placed(t)
    /\ UNCHANGED <<chain, saved, storedBlobs, withdrawals, recipient, view, miningVars, writeErr, busy, requested>>

\* SendTransaction.
Send(t, fault) ==
    /\ Ready("send") /\ Admitted(t) /\ (pool.next < MaxArrivals \/ Previous(pool, t) # {})
    /\ LET p == Add(pool, t)
       IN IF mode = "transaction"
          THEN MineBlock(p, pool, FALSE, fault, Placed(t))
          ELSE /\ \/ fault = "none" /\ pool' = p /\ owed' = Placed(t)
                     /\ view' = ViewOf(p, chain, withdrawals, recipient)
                  \/ fault = "build" /\ RestorePool(pool) /\ UNCHANGED <<owed, view>>
               /\ UNCHANGED <<chain, saved, storedBlobs, withdrawals, recipient, miningVars, writeErr, requested>>
    /\ UNCHANGED busy

\* One block of Mine, or, without transactions, of applyControl.
Mine(empty, fault) ==
    /\ Ready("mine") /\ Len(chain) < MaxBlocks
    /\ MineBlock(pool, pool, empty, fault, owed)
    /\ UNCHANGED busy

\* A tick of run's ticker.  It mines unless there is nothing to mine.
Tick(fault) ==
    /\ ~busy /\ ticker /\ mode = "interval"
    /\ pool.txs # {} \/ withdrawals # <<>> \/ miningEmpty
    /\ view.block.txs # <<>> \/ Len(chain) < MaxBlocks
    /\ MineBlock(pool, pool, FALSE, fault, owed)
    /\ UNCHANGED busy

\* resetMiningTicker.
ResetTicker ==
    /\ ~busy /\ changed
    /\ changed' = FALSE /\ ticker' = (mode = "interval")
    /\ UNCHANGED <<chain, saved, poolVars, view, mode, resume, miningEmpty, writeErr, busy, owed, requested>>

\* SetAutomine(true), one block at a time: while something is executable, it
\* is mined.
AutomineBegin ==
    /\ Ready("automine")
    /\ busy' = TRUE
    /\ UNCHANGED <<chain, saved, poolVars, view, miningVars, writeErr, owed, requested>>

\* The blocks that transactions can ask for: one when they are sent, and one
\* later.  It bounds nothing here, since each block takes a transaction.
MaxSends == MaxArrivals * (Cardinality(Tx) + 1)

AutomineMine(fault) ==
    /\ busy /\ view.block.txs # <<>>
    /\ Len(chain) < MaxBlocks + MaxSends
    /\ MineBlock(pool, pool, FALSE, fault, owed)
    /\ busy' = (fault = "none")

AutomineEnd ==
    /\ busy /\ view.block.txs = <<>>
    /\ busy' = FALSE
    /\ SetMiningMode("transaction")
    /\ UNCHANGED <<chain, saved, poolVars, view, miningEmpty, ticker, writeErr, owed, requested>>

\* SetAutomine(false) and SetIntervalMining.
SetMode ==
    /\ \/ Ready("automine") /\ mode = "transaction" /\ SetMiningMode("manual") /\ UNCHANGED miningEmpty
       \/ Ready("interval") /\ SetMiningMode("interval") /\ miningEmpty' = TRUE
       \/ Ready("interval") /\ SetMiningMode("manual") /\ UNCHANGED miningEmpty
    /\ UNCHANGED <<chain, saved, poolVars, view, ticker, writeErr, busy, owed, requested>>

\* miner_start and miner_stop.
MinerMode ==
    /\ Ready("miner")
    /\ \E m \in {resume, "manual"} : SetMiningMode(m)
    /\ UNCHANGED <<chain, saved, poolVars, view, miningEmpty, ticker, writeErr, busy, owed, requested>>

\* AddWithdrawal.
AddWithdrawal(fault) ==
    /\ Ready("withdrawal") /\ Len(withdrawals) < MaxWithdrawals /\ requested.count < MaxRequests
    /\ LET queue == Append(withdrawals, requested.count)
       IN \/ /\ fault = "none"
             /\ withdrawals' = queue
             /\ view' = ViewOf(pool, chain, queue, recipient)
             /\ requested' = [open |-> Append(requested.open, requested.count), count |-> requested.count + 1]
          \/ /\ fault = "build"
             /\ withdrawals' = SubSeq(queue, 1, Len(queue) - 1)
             /\ UNCHANGED <<view, requested>>
    /\ UNCHANGED <<chain, saved, pool, storedBlobs, recipient, miningVars, writeErr, busy, owed>>

SetFeeRecipient(address, fault) ==
    /\ Ready("recipient")
    /\ \/ fault = "none" /\ recipient' = address /\ view' = ViewOf(pool, chain, withdrawals, address)
       \/ fault = "build" /\ recipient' = recipient /\ UNCHANGED view
    /\ UNCHANGED <<chain, saved, pool, storedBlobs, withdrawals, miningVars, writeErr, busy, owed, requested>>

\* removePoolTransactions: one transaction, all of a sender, or all.
Drop(txs, fault) ==
    /\ Ready("drop") /\ txs # {}
    /\ LET p == WithoutDropped(pool, txs)
       IN \/ /\ fault = "none" /\ pool' = p /\ owed' = Restrict(owed, DOMAIN owed \ txs)
             /\ view' = ViewOf(p, chain, withdrawals, recipient)
          \/ fault = "build" /\ RestorePool(pool) /\ UNCHANGED <<owed, view>>
    /\ UNCHANGED <<chain, saved, storedBlobs, withdrawals, recipient, miningVars, writeErr, busy, requested>>

Checkpoint ==
    /\ Ready("restore") /\ saved' = chain
    /\ UNCHANGED <<chain, poolVars, view, miningVars, writeErr, busy, owed, requested>>

\* Restore (and Revert and SwitchBranch): switchCanonical leaves the pool alone
\* and builds the view on the new head.
Restore(fault) ==
    /\ Ready("restore") /\ saved # chain
    /\ fault \in {"none", "rebuild"}
    /\ chain' = saved
    /\ IF fault = "none"
       THEN view' = ViewOf(pool, saved, withdrawals, recipient) /\ UNCHANGED <<miningVars, writeErr>>
       ELSE DisableWrites /\ UNCHANGED view
    /\ UNCHANGED <<saved, poolVars, busy, owed, requested>>

Next ==
    \/ ResetTicker \/ AutomineBegin \/ AutomineEnd \/ SetMode \/ MinerMode \/ Checkpoint
    \/ \E fault \in Faults \cup {"none"} :
          \/ \E t \in Tx : Send(t, fault)
          \/ \E empty \in BOOLEAN : Mine(empty, fault)
          \/ Tick(fault) \/ AutomineMine(fault) \/ AddWithdrawal(fault) \/ Restore(fault)
          \/ \E address \in Recipients : SetFeeRecipient(address, fault)
          \/ \E txs \in {{t} : t \in pool.txs} \cup {{t \in pool.txs : t.from = s} : s \in Senders} \cup {pool.txs} :
                Drop(txs, fault)

Spec == Init /\ [][Next]_vars

\* Recipients are only compared.
RecipientSymmetry == Permutations(Recipients)

-----------------------------------------------------------------------------
(* Properties.                                                             *)

\* The pool and the withdrawal queue hold exactly what clients were told is
\* accepted and has since been neither mined, replaced nor dropped: a command
\* that fails takes nothing of others with it and leaves nothing of its own
\* behind, unless its block was committed before the error.
QueuesAreAccepted == pool.txs = DOMAIN owed /\ withdrawals = requested.open

\* The pending view is the block that would be mined now, and every pooled
\* transaction is shown as executable or queued, whatever commands failed.
ViewExact ==
    ~writeErr => view = ViewOf(pool, chain, withdrawals, recipient)

\* With "transaction ordering: fees or fifo" set to fifo, the pending block
\* takes transactions in the order in which they were accepted, a replacement
\* at the place of what it replaces, as far as nonces allow.
InArrivalOrder ==
    Order = "fifo" /\ ~writeErr =>
        LET txs == view.block.txs
        IN \A j \in DOMAIN txs : \A i \in 1..(j - 1) :
              (\A k \in i..(j - 1) : txs[k].from # txs[j].from) => owed[txs[i]] < owed[txs[j]]

\* The blobs of every pooled and every canonical transaction can be found, in
\* memory or in the database, through replacement, rewinds and repeated
\* submission, and after an error that follows the commit; memory keeps no others
\* that are not stored.
BlobsKept ==
    /\ pool.txs \cup Mined(chain) \subseteq pool.blobs \cup storedBlobs
    /\ pool.blobs \subseteq pool.txs \cup storedBlobs

\* "globally monotonic withdrawal index": along the canonical chain the
\* indexes are 0, 1, 2, ..., through rewinds and empty blocks.
WithdrawalIndexesContiguous ==
    LET given == FlattenSeq([i \in DOMAIN chain |-> chain[i].withdrawals])
    IN \A i \in DOMAIN given : given[i].index = i - 1

\* The controller's ticker follows the mode: it may lag behind only while a
\* notification waits, although those sent meanwhile are dropped and a failed
\* write changes the mode too.
TickerFollowsMode == changed \/ ticker = (mode = "interval")

=============================================================================
