--------------------------- MODULE PreparedCommit ---------------------------
(***************************************************************************)
(* The prepared-operation journal: commitPrepared and commitAuxiliary of   *)
(* commit.go, and the startup recovery of state_metadata.go.               *)
(*                                                                         *)
(* One database holds everything.  Its contents are split by who writes    *)
(* them: `aux` holds the ethertest/... keys (a partial function), `nodes`  *)
(* the trie nodes, code and preimages named by their own hash (a set: the  *)
(* key determines the value), `blocks` the block bodies geth can read,     *)
(* `head` geth's current block and `journal` the key prepared-operation    *)
(* (empty or one operation).  These five survive a crash.                  *)
(*                                                                         *)
(* An operation is a record with the fields of preparedOperation:          *)
(*   kind, oldHead, target (NewHead or TargetBlock), discardOnCancel,      *)
(*   executionPuts, rollbackDeletes, puts, deletes.                        *)
(*                                                                         *)
(* The controller is the only writer, so at most one commit is under way;  *)
(* `stage` says how far it got and `writeErr` whether an error disabled    *)
(* further writes.  The actions below are the steps between which a crash  *)
(* or an error may come.  Every batch.Write is atomic.                     *)
(***************************************************************************)
VARIABLES aux, nodes, blocks, head, journal, stage, writeErr, status

disk == <<aux, nodes, blocks, head, journal>>
commitVars == <<aux, nodes, blocks, head, journal, stage, writeErr, status>>

Stages == {"idle", "prepared", "nodes", "block", "mutated", "final"}
Statuses == {"up", "down", "discarded", "failed"}

\* The controller is free to run the next write command.
Ready == status = "up" /\ stage = "idle" /\ ~writeErr

-----------------------------------------------------------------------------
(* Pure parts of the journal.                                              *)

\* The auxiliary keys after a batch: every put, then every delete.
Batch(kv, puts, deletes) ==
    [k \in (DOMAIN kv \cup DOMAIN puts) \ deletes |->
        IF k \in DOMAIN puts THEN puts[k] ELSE kv[k]]

\* Mutant: a cancellation deletes every execution key the operation names.
DeleteAllPuts(puts) == puts

\* executionPutsForJournal: the execution keys a cancellation must delete are
\* those that are not in the database when the operation is planned.
RollbackDeletes(puts) == puts \ nodes

\* An operation that writes a block of its own (mining, control, branch
\* mining); a canonical switch only moves the head.
Builds(o) == o.kind = "block" \/ o.discardOnCancel

\* Mutant: a stored block counts as reached, wherever the head is.
ReachedOnceStored(o) == o.target \in blocks

\* recoverPreparedOperation: the operation reached its target.
Reached(o) == IF o.kind = "head" THEN head = o.target ELSE o.target \in blocks

\* recoverPreparedOperation: the operation left geth where it found it.
Untouched(o) == ~Reached(o) /\ (o.kind = "head" => head = o.oldHead)

-----------------------------------------------------------------------------
(* A commit.                                                               *)

\* commitPrepared up to the journal write: refused while a journal exists.
Prepare(o) ==
    /\ Ready
    /\ journal = {}
    /\ journal' = {o}
    /\ stage' = "prepared"
    /\ UNCHANGED <<aux, nodes, blocks, head, writeErr, status>>

\* mutate, first write: writeJournalPuts.
WriteNodes ==
    /\ stage = "prepared"
    /\ \E o \in journal : Builds(o) /\ nodes' = nodes \cup o.executionPuts
    /\ stage' = "nodes"
    /\ UNCHANGED <<aux, blocks, head, journal, writeErr, status>>

\* mutate, second write: persistBuiltBlock.
PersistBlock ==
    /\ stage = "nodes"
    /\ \E o \in journal : blocks' = blocks \cup {o.target}
    /\ stage' = "block"
    /\ UNCHANGED <<aux, nodes, head, journal, writeErr, status>>

\* The operation is about to call geth's SetCanonical.
BeforeSetCanonical(o) ==
    /\ o.kind = "head"
    /\ stage = IF Builds(o) THEN "block" ELSE "prepared"

\* mutate, last write: geth's SetCanonical moves the head to the target.
SetCanonical ==
    /\ \E o \in journal : BeforeSetCanonical(o) /\ head' = o.target
    /\ stage' = "mutated"
    /\ UNCHANGED <<aux, nodes, blocks, journal, writeErr, status>>

\* SetCanonical stopped after moving the head to b, a block on the way to the
\* target, and the commit ends in an error.
TornSetCanonical(b) ==
    /\ \E o \in journal : BeforeSetCanonical(o) /\ ~Builds(o) /\ ~Reached(o) /\ b # o.target
    /\ head' = b
    /\ stage' = "idle"
    /\ writeErr' = TRUE
    /\ UNCHANGED <<aux, nodes, blocks, journal, status>>

\* The mutation of the operation is complete.
Mutated(o) == stage = IF o.kind = "head" THEN "mutated" ELSE "block"

\* finalizePreparedOperation: one batch, which also deletes the journal.
Finalize(o) ==
    /\ aux' = Batch(aux, o.puts, o.deletes)
    /\ nodes' = nodes \cup o.executionPuts
    /\ journal' = {}

FinalizeCommit ==
    /\ \E o \in journal : Mutated(o) /\ Finalize(o)
    /\ stage' = "final"
    /\ UNCHANGED <<blocks, head, writeErr, status>>

\* commitAuxiliary: one batch, no journal.
CommitAuxiliary(puts, deletes) ==
    /\ Ready
    /\ aux' = Batch(aux, puts, deletes)
    /\ UNCHANGED <<nodes, blocks, head, journal, stage, writeErr, status>>

\* Mutant: the error is returned to the client, and writes go on.
FailCommitQuietly ==
    /\ status = "up" /\ ~writeErr
    /\ stage' = "idle"
    /\ UNCHANGED <<disk, writeErr, status>>

\* disableWrites: a database error, an error of SetCanonical or of a commit
\* hook ends the command.  The journal stays; the memory image is not updated.
FailCommit ==
    /\ status = "up" /\ ~writeErr
    /\ stage' = "idle"
    /\ writeErr' = TRUE
    /\ UNCHANGED <<disk, status>>

-----------------------------------------------------------------------------
(* Crash and startup.                                                      *)

\* The process stops, at any point of a commit or of a recovery.
Crash ==
    /\ status \in {"up", "discarded"}
    /\ status' = "down"
    /\ stage' = "idle"
    /\ writeErr' = FALSE
    /\ UNCHANGED disk

\* recoverPreparedOperation completes an operation that reached its target.
RecoverFinalize ==
    /\ status = "down"
    /\ \E o \in journal : Reached(o) /\ Finalize(o)
    /\ UNCHANGED <<blocks, head, stage, writeErr, status>>

\* Mutant: recovery starts over after the discard instead of cancelling.
RecoverDiscardOnly ==
    /\ status = "down"
    /\ \E o \in journal : Untouched(o) /\ Builds(o) /\ blocks' = blocks \ {o.target}
    /\ UNCHANGED <<aux, nodes, head, journal, stage, writeErr, status>>

\* discardPreparedTarget: a batch of its own, before the cancellation.
RecoverDiscard ==
    /\ status = "down"
    /\ \E o \in journal : Untouched(o) /\ Builds(o) /\ blocks' = blocks \ {o.target}
    /\ status' = "discarded"
    /\ UNCHANGED <<aux, nodes, head, journal, stage, writeErr>>

\* cancelPreparedOperation.
RecoverCancel ==
    /\ \E o \in journal :
          /\ status = IF Builds(o) THEN "discarded" ELSE "down"
          /\ Untouched(o)
          /\ nodes' = nodes \ o.rollbackDeletes
    /\ journal' = {}
    /\ status' = "down"
    /\ UNCHANGED <<aux, blocks, head, stage, writeErr>>

\* Neither state matches: startup fails closed.
RecoverMismatch ==
    /\ status = "down"
    /\ \E o \in journal : ~Reached(o) /\ ~Untouched(o)
    /\ status' = "failed"
    /\ UNCHANGED <<disk, stage, writeErr>>

Recovery == RecoverFinalize \/ RecoverDiscard \/ RecoverCancel \/ RecoverMismatch

\* The operator starts a node whose last start failed once more.
StartAgain ==
    /\ status = "failed"
    /\ status' = "down"
    /\ UNCHANGED <<disk, stage, writeErr>>

=============================================================================
