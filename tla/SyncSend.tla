------------------------------ MODULE SyncSend ------------------------------
(***************************************************************************)
(* eth_sendRawTransactionSync (rpc_transactions.go): a call sends one      *)
(* transaction, then follows the event log until the transaction has a     *)
(* receipt.  Meanwhile the node mines, switches branches and takes the     *)
(* same transaction from another client.                                   *)
(*                                                                         *)
(* A receipt is assembled from two lookups (transactionReceipt), each of   *)
(* which looks for the transaction on the canonical chain of its moment.   *)
(***************************************************************************)
EXTENDS EventLog

VARIABLES
    home,    \* of each block that holds the transaction: which block it is (a
             \* switch names it anew) and its number
    pooled,  \* the transaction is in the pool
    sync     \* the call: where it is and what it has read

syncVars == <<home, pooled, sync>>

\* The blocks of a chain that hold the transaction: at most one, by its nonce.
HomesOn(path) == {home[path[i]] : i \in {j \in 1..Len(path) : path[j] \in DOMAIN home}}

Canonical == HomesOn(chain) # {}

Idle == [at |-> "start", cursor |-> 0, token |-> 0, todo |-> <<>>, after |-> "read", found |-> {}, receipt |-> <<>>]

SyncInit == Init /\ home = <<>> /\ pooled = FALSE /\ sync = Idle

-----------------------------------------------------------------------------
(* The node.                                                               *)

\* The added block that holds the transaction, if any.
Holds(holders) == home' = [b \in DOMAIN home \cup DOMAIN holders |-> IF b \in DOMAIN holders THEN holders[b] ELSE home[b]]

\* mineExecutionBlock: a transaction of the pool may be executed.
MineWith(taken, others) ==
    /\ Command(0, 1, others)
    /\ IF taken
       THEN Holds([b \in {log.next} |-> [origin |-> b, number |-> Len(chain) + 1]])
       ELSE UNCHANGED home

Mine ==
    /\ \E taken \in {FALSE, pooled /\ ~Canonical}, others \in 0..1 :
          MineWith(taken, others) /\ pooled' = (pooled /\ ~taken)
    /\ UNCHANGED sync

\* switchCanonical: a block that joins the chain may be one that held the
\* transaction before.
SwitchChain ==
    /\ \E removed \in 0..Len(chain), added \in 0..MaxAdded :
          /\ removed + added > 0
          /\ Command(removed, added, 1)
          /\ LET left == SubSeq(chain, 1, Len(chain) - removed)
                 back == {[block |-> i, home |-> h] :
                             i \in 1..added, h \in {home[b] : b \in DOMAIN home} \ HomesOn(chain)}
             IN \/ UNCHANGED home
                \/ \E b \in back :
                      /\ HomesOn(left) = {}
                      /\ b.home.number = Len(left) + b.block
                      /\ Holds([n \in {AddedBlocks(log, removed, added)[b.block]} |-> b.home])
    /\ UNCHANGED <<pooled, sync>>

\* The commands without a block.
OtherCommand == \E others \in 0..MaxAdded : Command(0, 0, others) /\ UNCHANGED syncVars

\* Another client sends the transaction and it waits in the pool.
OtherSends ==
    /\ stage = "idle" /\ ~writeErr /\ ~Canonical /\ ~pooled
    /\ pooled' = TRUE
    /\ UNCHANGED <<logVars, home, sync>>

CommitStep == (Write \/ Apply \/ Fail) /\ UNCHANGED syncVars

-----------------------------------------------------------------------------
(* The call.                                                               *)

Becomes(call) == sync' = call /\ UNCHANGED <<logVars, home, pooled>>

SyncStart == sync.at = "start" /\ Becomes([sync EXCEPT !.at = "send", !.cursor = Current(log)])

\* SendTransaction: refused; left in the pool; or mined at once, in mining mode
\* "transaction".
SyncSubmit ==
    /\ sync.at = "send" /\ stage = "idle"
    /\ \/ Becomes([sync EXCEPT !.at = "done"])
       \/ /\ ~writeErr /\ ~Canonical /\ ~pooled
          /\ pooled' = TRUE /\ sync' = [sync EXCEPT !.at = "lookup"]
          /\ UNCHANGED <<logVars, home>>
       \/ /\ ~Canonical /\ ~pooled
          /\ \E others \in 0..1 : MineWith(TRUE, others)
          /\ sync' = [sync EXCEPT !.at = "mining", !.token = log.next]
          /\ UNCHANGED pooled

\* The controller answers when the block is committed or has failed.
SyncMined ==
    /\ sync.at = "mining"
    /\ \/ log.next > sync.token /\ Becomes([sync EXCEPT !.at = "lookup"])
       \/ log.next <= sync.token /\ writeErr /\ Becomes([sync EXCEPT !.at = "done"])

\* transactionReceipt: ReadCanonicalTransaction,
SyncLookup ==
    /\ sync.at = "lookup"
    /\ Becomes(IF Canonical THEN [sync EXCEPT !.at = "receipt", !.found = HomesOn(chain)]
               ELSE [sync EXCEPT !.at = sync.after])

\* then ReadCanonicalReceipt.
SyncReceipt ==
    /\ sync.at = "receipt"
    /\ Becomes(IF Canonical THEN [sync EXCEPT !.at = "done", !.receipt = <<sync.found, HomesOn(chain)>>]
               ELSE [sync EXCEPT !.at = sync.after, !.found = {}])

\* sinceAndWait: the events and the channel that the next apply closes.
SyncRead ==
    /\ sync.at = "read"
    /\ LET gap == Gap(log, sync.cursor)
       IN Becomes([sync EXCEPT !.at = IF gap THEN "gap" ELSE "scan", !.token = log.next,
                               !.todo = IF gap THEN <<>> ELSE Since(log, sync.cursor)])

\* Mutant: after a gap the receipt is looked up before the revision is read.
GapAfterLookup ==
    \/ sync.at = "gap" /\ Becomes([sync EXCEPT !.at = "lookup", !.after = "regap"])
    \/ sync.at = "regap" /\ Becomes([sync EXCEPT !.at = "wait", !.cursor = Current(log)])

\* The events in between are lost: the revision is read, then the receipt looked up.
SyncGap ==
    /\ sync.at = "gap"
    /\ Becomes([sync EXCEPT !.at = "lookup", !.cursor = Current(log), !.after = "wait"])

\* One event.  A control block is announced by an event of another type, which
\* is passed over; it holds no transaction.
SyncScan ==
    /\ sync.at = "scan" /\ sync.todo # <<>>
    /\ LET event == Head(sync.todo)
           next  == [sync EXCEPT !.cursor = event.revision, !.todo = Tail(sync.todo)]
       IN \/ event.kind = "block" /\ Becomes([next EXCEPT !.at = "lookup", !.after = "scan"])
          \/ (event.kind # "block" \/ event.block \notin DOMAIN home) /\ Becomes(next)

SyncScanned == sync.at = "scan" /\ sync.todo = <<>> /\ Becomes([sync EXCEPT !.at = "wait"])

SyncWoken == sync.at = "wait" /\ log.next # sync.token /\ Becomes([sync EXCEPT !.at = "read"])

\* The timeout, the end of the request, or the node stops.
SyncGivesUp == sync.at = "wait" /\ Becomes([sync EXCEPT !.at = "done"])

SyncSteps ==
    SyncMined \/ SyncLookup \/ SyncReceipt \/ SyncRead \/ SyncGap \/ SyncScan \/ SyncScanned \/ SyncWoken

SyncNext ==
    \/ Mine \/ SwitchChain \/ OtherCommand \/ OtherSends \/ CommitStep
    \/ SyncStart \/ SyncSubmit \/ SyncGivesUp \/ SyncSteps

\* The goroutine of the call runs on, and the controller ends a commit that it
\* has begun.  Nobody has to send, mine or switch, and no timeout has to come.
SyncFairness == WF_<<logVars, syncVars>>(SyncSteps) /\ WF_<<logVars, syncVars>>(CommitStep)

SyncSpec == SyncInit /\ [][SyncNext]_<<logVars, syncVars>> /\ SyncFairness

-----------------------------------------------------------------------------

\* A call whose transaction stays on the canonical chain does not sit out its
\* timeout: it returns, whatever events the bounded log drops and whichever
\* switches come between its steps (unless writes are disabled, when the event
\* may be missing).
SyncReturns == []<>(sync.at \in {"start", "send", "done"} \/ ~Canonical \/ writeErr)

\* "Execution queries are anchored to immutable committed headers"
\* (docs/architecture.md): the block that a receipt names is the block whose
\* status and logs it shows (transactionReceipt).
ReceiptIsWhole == sync.receipt # <<>> => sync.receipt[1] = sync.receipt[2]

=============================================================================
