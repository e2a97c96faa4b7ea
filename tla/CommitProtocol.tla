--------------------------- MODULE CommitProtocol ---------------------------
(***************************************************************************)
(* The journal protocol of PreparedCommit closed under every operation the *)
(* node could ask of it: any batch of auxiliary keys, any set of execution *)
(* keys, any target.  What holds here holds for the operations of          *)
(* ChainNode, which are some of these.                                     *)
(***************************************************************************)
EXTENDS PreparedCommit

CONSTANTS
    Key,      \* auxiliary keys
    Value,    \* their values
    Node,     \* hash-named execution keys
    Block,    \* block hashes
    Genesis   \* the genesis block

ASSUME GenesisIsBlock == Genesis \in Block

Puts == UNION {[S -> Value] : S \in SUBSET Key}

Operation ==
    [kind : {"head", "block"}, oldHead : Block, target : Block, discardOnCancel : BOOLEAN,
     executionPuts : SUBSET Node, rollbackDeletes : SUBSET Node, puts : Puts, deletes : SUBSET Key]

Init ==
    /\ aux \in Puts
    /\ nodes \in SUBSET Node
    /\ blocks = {Genesis}
    /\ head = Genesis
    /\ journal = {}
    /\ stage = "idle"
    /\ writeErr = FALSE
    /\ status = "up"

\* mineExecutionBlock and applyControl: a new block that becomes the head.
\* The target may already be stored: an equal block was mined before a rewind.
PrepareHeadBlock ==
    \E b \in Block \ {head}, added \in SUBSET Node, puts \in Puts, deletes \in SUBSET Key :
        Prepare([kind |-> "head", oldHead |-> head, target |-> b, discardOnCancel |-> TRUE,
                 executionPuts |-> added, rollbackDeletes |-> RollbackDeletes(added),
                 puts |-> puts, deletes |-> deletes])

\* MineBranch: a new block off the canonical chain.
PrepareSideBlock ==
    \E b \in Block \ {head}, added \in SUBSET Node, puts \in Puts :
        Prepare([kind |-> "block", oldHead |-> head, target |-> b, discardOnCancel |-> FALSE,
                 executionPuts |-> added, rollbackDeletes |-> RollbackDeletes(added),
                 puts |-> puts, deletes |-> {}])

\* switchCanonical: the head moves to a stored block, possibly to itself (a
\* rewind of missed slots only).
PrepareSwitch ==
    \E b \in blocks, puts \in Puts, deletes \in SUBSET Key :
        Prepare([kind |-> "head", oldHead |-> head, target |-> b, discardOnCancel |-> FALSE,
                 executionPuts |-> {}, rollbackDeletes |-> {}, puts |-> puts, deletes |-> deletes])

Auxiliary == \E puts \in Puts, deletes \in SUBSET Key : CommitAuxiliary(puts, deletes)

\* commitPrepared returns to the controller.
Apply ==
    /\ stage = "final"
    /\ stage' = "idle"
    /\ UNCHANGED <<disk, writeErr, status>>

\* Startup found no journal, or removed it, and opens the node.
Open ==
    /\ status = "down" /\ journal = {}
    /\ status' = "up"
    /\ UNCHANGED <<disk, stage, writeErr>>

Next ==
    \/ PrepareHeadBlock \/ PrepareSideBlock \/ PrepareSwitch \/ Auxiliary
    \/ WriteNodes \/ PersistBlock \/ SetCanonical \/ FinalizeCommit \/ Apply
    \/ \E b \in blocks : TornSetCanonical(b)
    \/ FailCommit \/ Crash \/ StartAgain
    \/ RecoverFinalize \/ RecoverDiscard \/ RecoverCancel \/ RecoverMismatch
    \/ Open

Spec == Init /\ [][Next]_commitVars

\* Startup runs to its end unless the process is stopped again.
FairSpec == Spec /\ WF_commitVars(Recovery \/ Open)

-----------------------------------------------------------------------------
\* The types of the database and of the commit under way; a process that is
\* not up has neither a commit under way nor writes disabled.
TypeOK ==
    /\ aux \in Puts
    /\ nodes \subseteq Node
    /\ blocks \subseteq Block
    /\ head \in Block
    /\ journal \subseteq Operation
    /\ \A o, p \in journal : o = p
    /\ stage \in Stages
    /\ writeErr \in BOOLEAN
    /\ status \in Statuses
    /\ status # "up" => stage = "idle" /\ ~writeErr

\* commitPrepared refuses "a prepared operation is already pending" without
\* disabling writes; a controller that accepts writes never meets that: a
\* journal left by a failed commit is always accompanied by writeErr, and
\* startup never opens a node with a journal.
NoPendingJournalWhenReady == Ready => journal = {}

\* What a restart will find, decided by recoverPreparedOperation alone.
CommittedAux ==
    IF \E o \in journal : Reached(o)
    THEN LET o == CHOOSE o \in journal : TRUE IN Batch(aux, o.puts, o.deletes)
    ELSE aux

CommittedNodes ==
    IF journal = {} THEN nodes
    ELSE LET o == CHOOSE o \in journal : TRUE
         IN IF Reached(o) THEN nodes \cup o.executionPuts ELSE nodes \ o.rollbackDeletes

CommittedHead ==
    IF \E o \in journal : o.kind = "head" /\ ~Reached(o)
    THEN (CHOOSE o \in journal : TRUE).oldHead
    ELSE head

\* The operation as AtomicCommit sees it.
WriteOf(o) ==
    [puts |-> o.puts, deletes |-> o.deletes, added |-> o.executionPuts,
     moves |-> o.kind = "head", to |-> o.target]

\* The journaled operation, as long as recovery would cancel it.
Submitted == {WriteOf(o) : o \in {p \in journal : ~Reached(p)}}

Atomic == INSTANCE AtomicCommit
    WITH kv <- CommittedAux, state <- CommittedNodes, top <- CommittedHead, submitted <- Submitted

\* The protocol implements AtomicCommit.  At every moment the database already
\* stands for the state before the journaled operation or for the state after
\* it, and one step of the commit passes from the one to the other: no crash,
\* error or interrupted recovery leaves keys, execution state and head apart.
Atomicity == Atomic!Spec

\* A start ends, with an open node or with a refusal, unless the process is
\* stopped again and again: recovery never waits and never loops by itself.
StartupEnds ==
    \/ []<><<Crash>>_commitVars
    \/ status \in {"down", "discarded"} ~> status \in {"up", "failed"}

=============================================================================
