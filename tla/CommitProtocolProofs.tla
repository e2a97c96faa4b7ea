------------------------ MODULE CommitProtocolProofs ------------------------
(***************************************************************************)
(* Proofs about CommitProtocol, for any sets of keys, values, execution    *)
(* keys and blocks: its type invariant, that a node which accepts writes   *)
(* has no journal pending, and that it implements AtomicCommit.            *)
(***************************************************************************)
EXTENDS CommitProtocol, TLAPS

-----------------------------------------------------------------------------
(* The inductive invariant.                                                *)

\* Where the commit is, the journal is: it exists from the preparation to the
\* final batch.
JournalMatchesStage ==
    /\ Ready => journal = {}
    /\ stage \in {"prepared", "nodes", "block", "mutated"} => journal # {}
    /\ stage = "final" => journal = {}
    /\ stage # "idle" => ~writeErr

\* Undoing an operation removes only what it added.
RollbackIsExact ==
    \A o \in journal :
        /\ o.rollbackDeletes \subseteq o.executionPuts
        /\ o.executionPuts \ o.rollbackDeletes \subseteq nodes

\* The journaled operation has reached its target exactly when its mutation
\* is complete, as far as the stage tells.
TargetMatchesStage ==
    \A o \in journal :
        /\ stage \in {"prepared", "nodes", "block"} /\ o.kind = "head" => head = o.oldHead
        /\ stage \in {"nodes", "block"} => Builds(o)
        /\ stage = "block" => o.target \in blocks
        /\ stage = "mutated" => o.kind = "head" /\ head = o.target

IInv == TypeOK /\ JournalMatchesStage /\ RollbackIsExact /\ TargetMatchesStage

-----------------------------------------------------------------------------
(* Lemmas.                                                                 *)

\* Batch, as finalizePreparedOperation and commitAuxiliary write it, keeps the
\* auxiliary table well typed.
LEMMA BatchType ==
    ASSUME NEW kv \in Puts, NEW puts \in Puts, NEW deletes \in SUBSET Key
    PROVE  Batch(kv, puts, deletes) \in Puts
<1> DEFINE D == (DOMAIN kv \cup DOMAIN puts) \ deletes
<1>1. PICK S \in SUBSET Key : kv \in [S -> Value]
  BY DEF Puts
<1>2. PICK T \in SUBSET Key : puts \in [T -> Value]
  BY DEF Puts
<1>3. D \in SUBSET Key
  BY <1>1, <1>2
<1>4. Batch(kv, puts, deletes) \in [D -> Value]
  BY <1>1, <1>2 DEF Batch
<1> QED
  BY <1>3, <1>4 DEF Puts

\* Whatever the command, commitPrepared's journal write preserves the
\* invariant if the operation was planned against the current database.
LEMMA PrepareInvariant ==
    ASSUME IInv, NEW o \in Operation, Prepare(o), o.oldHead = head,
           o.rollbackDeletes = RollbackDeletes(o.executionPuts)
    PROVE  IInv'
<1> USE DEF Prepare, Ready
<1>1. TypeOK'
  BY DEF IInv, TypeOK, Stages
<1>2. JournalMatchesStage'
  BY DEF IInv, JournalMatchesStage
<1>3. RollbackIsExact'
  BY DEF RollbackIsExact, RollbackDeletes
<1>4. TargetMatchesStage'
  BY DEF TargetMatchesStage, Builds
<1> QED
  BY <1>1, <1>2, <1>3, <1>4 DEF IInv

\* finalizePreparedOperation preserves types.
LEMMA FinalizeType ==
    ASSUME TypeOK, NEW o \in journal, Finalize(o)
    PROVE  aux' \in Puts /\ nodes' \subseteq Node /\ journal' = {}
<1>1. o \in Operation
  BY DEF TypeOK
<1>2. o.puts \in Puts /\ o.deletes \in SUBSET Key /\ o.executionPuts \in SUBSET Node
  BY <1>1 DEF Operation
<1>3. aux' \in Puts
  BY <1>2, BatchType DEF Finalize, TypeOK
<1> QED
  BY <1>2, <1>3 DEF Finalize, TypeOK

LEMMA InitInvariant == Init => IInv
<1> SUFFICES ASSUME Init PROVE IInv
  OBVIOUS
<1>1. TypeOK
  BY Zenon, GenesisIsBlock DEF Init, TypeOK, Stages, Statuses
<1> QED
  BY <1>1 DEF Init, IInv, JournalMatchesStage, RollbackIsExact, TargetMatchesStage

LEMMA NextInvariant == IInv /\ [Next]_commitVars => IInv'
<1> SUFFICES ASSUME IInv, [Next]_commitVars PROVE IInv'
  OBVIOUS
<1> USE DEF IInv
<1>1. CASE PrepareHeadBlock
  <2>1. PICK b \in Block \ {head}, added \in SUBSET Node, puts \in Puts, deletes \in SUBSET Key :
            Prepare([kind |-> "head", oldHead |-> head, target |-> b, discardOnCancel |-> TRUE,
                     executionPuts |-> added, rollbackDeletes |-> RollbackDeletes(added),
                     puts |-> puts, deletes |-> deletes])
    BY Zenon, <1>1 DEF PrepareHeadBlock
  <2> DEFINE o == [kind |-> "head", oldHead |-> head, target |-> b, discardOnCancel |-> TRUE,
                   executionPuts |-> added, rollbackDeletes |-> RollbackDeletes(added),
                   puts |-> puts, deletes |-> deletes]
  <2>2. o \in Operation
    BY DEF Operation, RollbackDeletes, TypeOK
  <2>3. o.oldHead = head /\ o.rollbackDeletes = RollbackDeletes(o.executionPuts) /\ Prepare(o)
    BY <2>1
  <2> QED
    BY <2>2, <2>3, PrepareInvariant
<1>2. CASE PrepareSideBlock
  <2>1. PICK b \in Block \ {head}, added \in SUBSET Node, puts \in Puts :
            Prepare([kind |-> "block", oldHead |-> head, target |-> b, discardOnCancel |-> FALSE,
                     executionPuts |-> added, rollbackDeletes |-> RollbackDeletes(added),
                     puts |-> puts, deletes |-> {}])
    BY Zenon, <1>2 DEF PrepareSideBlock
  <2> DEFINE o == [kind |-> "block", oldHead |-> head, target |-> b, discardOnCancel |-> FALSE,
                   executionPuts |-> added, rollbackDeletes |-> RollbackDeletes(added),
                   puts |-> puts, deletes |-> {}]
  <2>2. o \in Operation
    BY DEF Operation, RollbackDeletes, TypeOK
  <2>3. o.oldHead = head /\ o.rollbackDeletes = RollbackDeletes(o.executionPuts) /\ Prepare(o)
    BY <2>1
  <2> QED
    BY <2>2, <2>3, PrepareInvariant
<1>3. CASE PrepareSwitch
  <2>1. PICK b \in blocks, puts \in Puts, deletes \in SUBSET Key :
            Prepare([kind |-> "head", oldHead |-> head, target |-> b, discardOnCancel |-> FALSE,
                     executionPuts |-> {}, rollbackDeletes |-> {}, puts |-> puts, deletes |-> deletes])
    BY Zenon, <1>3 DEF PrepareSwitch
  <2> DEFINE o == [kind |-> "head", oldHead |-> head, target |-> b, discardOnCancel |-> FALSE,
                   executionPuts |-> {}, rollbackDeletes |-> {}, puts |-> puts, deletes |-> deletes]
  <2>2. o \in Operation
    BY DEF Operation, TypeOK
  <2>3. o.oldHead = head /\ o.rollbackDeletes = RollbackDeletes(o.executionPuts) /\ Prepare(o)
    BY <2>1 DEF RollbackDeletes
  <2> QED
    BY <2>2, <2>3, PrepareInvariant
<1>4. CASE Auxiliary
  <2>1. PICK puts \in Puts, deletes \in SUBSET Key : CommitAuxiliary(puts, deletes)
    BY <1>4 DEF Auxiliary
  <2>2. aux' \in Puts
    BY <2>1, BatchType DEF CommitAuxiliary, TypeOK
  <2>3. UNCHANGED <<nodes, blocks, head, journal, stage, writeErr, status>>
    BY <2>1 DEF CommitAuxiliary
  <2> QED
    BY <2>2, <2>3 DEF TypeOK, JournalMatchesStage, Ready, RollbackIsExact, TargetMatchesStage, Builds
<1>5. CASE WriteNodes
  <2>1. PICK o \in journal : Builds(o) /\ nodes' = nodes \cup o.executionPuts
    BY <1>5 DEF WriteNodes
  <2>2. TypeOK'
    BY <1>5, <2>1 DEF WriteNodes, TypeOK, Operation, Stages
  <2>3. JournalMatchesStage'
    BY <1>5, <2>1 DEF WriteNodes, JournalMatchesStage, Ready
  <2>4. RollbackIsExact'
    BY <1>5, <2>1 DEF WriteNodes, RollbackIsExact
  <2>5. TargetMatchesStage'
    BY <1>5, <2>1 DEF WriteNodes, TargetMatchesStage, Builds, TypeOK
  <2> QED
    BY <2>2, <2>3, <2>4, <2>5
<1>6. CASE PersistBlock
  <2>1. PICK o \in journal : blocks' = blocks \cup {o.target}
    BY <1>6 DEF PersistBlock
  <2>2. TypeOK'
    BY <1>6, <2>1 DEF PersistBlock, TypeOK, Operation, Stages
  <2>3. JournalMatchesStage' /\ RollbackIsExact'
    BY <1>6, <2>1 DEF PersistBlock, JournalMatchesStage, Ready, RollbackIsExact
  <2>4. TargetMatchesStage'
    BY <1>6, <2>1 DEF PersistBlock, TargetMatchesStage, Builds, TypeOK
  <2> QED
    BY <2>2, <2>3, <2>4
<1>7. CASE SetCanonical
  <2>1. PICK o \in journal : BeforeSetCanonical(o) /\ head' = o.target
    BY <1>7 DEF SetCanonical
  <2>2. TypeOK'
    BY <1>7, <2>1 DEF SetCanonical, BeforeSetCanonical, TypeOK, Operation, Stages
  <2>3. JournalMatchesStage' /\ RollbackIsExact'
    BY <1>7, <2>1 DEF SetCanonical, JournalMatchesStage, Ready, RollbackIsExact, BeforeSetCanonical
  <2>4. TargetMatchesStage'
    BY <1>7, <2>1 DEF SetCanonical, TargetMatchesStage, Builds, TypeOK, BeforeSetCanonical
  <2> QED
    BY <2>2, <2>3, <2>4
<1>8. CASE FinalizeCommit
  <2>1. PICK o \in journal : Mutated(o) /\ Finalize(o)
    BY <1>8 DEF FinalizeCommit
  <2>2. aux' \in Puts /\ nodes' \subseteq Node /\ journal' = {}
    BY <2>1, FinalizeType
  <2>3. stage # "idle"
    BY <2>1 DEF Mutated
  <2>4. stage' = "final" /\ UNCHANGED <<blocks, head, writeErr, status>>
    BY <1>8 DEF FinalizeCommit
  <2>5. TypeOK'
    BY <2>2, <2>3, <2>4 DEF TypeOK, Stages
  <2>6. JournalMatchesStage'
    BY <2>2, <2>3, <2>4 DEF JournalMatchesStage
  <2> QED
    BY <2>2, <2>5, <2>6 DEF RollbackIsExact, TargetMatchesStage
<1>9. CASE Apply
  <2>1. TypeOK'
    BY <1>9 DEF Apply, disk, TypeOK, Stages
  <2>2. journal' = {}
    BY <1>9 DEF Apply, disk, JournalMatchesStage
  <2>3. JournalMatchesStage'
    BY <1>9, <2>2 DEF Apply, disk, JournalMatchesStage
  <2> QED
    BY <2>1, <2>2, <2>3 DEF RollbackIsExact, TargetMatchesStage
<1>10. CASE \E b \in blocks : TornSetCanonical(b)
  <2>1. PICK b \in blocks : TornSetCanonical(b)
    BY <1>10
  <2>2. stage # "idle"
    BY <2>1 DEF TornSetCanonical, BeforeSetCanonical
  <2>3. TypeOK'
    BY <2>1, <2>2 DEF TornSetCanonical, TypeOK, Stages
  <2>4. JournalMatchesStage'
    BY <2>1, <2>2 DEF TornSetCanonical, JournalMatchesStage, Ready
  <2>5. RollbackIsExact' /\ TargetMatchesStage'
    BY <2>1 DEF TornSetCanonical, RollbackIsExact, TargetMatchesStage
  <2> QED
    BY <2>3, <2>4, <2>5
<1>11. CASE FailCommit
  <2>1. TypeOK'
    BY <1>11 DEF FailCommit, disk, TypeOK, Stages
  <2>2. JournalMatchesStage'
    BY <1>11 DEF FailCommit, disk, JournalMatchesStage, Ready
  <2>3. RollbackIsExact' /\ TargetMatchesStage'
    BY <1>11 DEF FailCommit, disk, RollbackIsExact, TargetMatchesStage
  <2> QED
    BY <2>1, <2>2, <2>3
<1>12. CASE Crash
  <2>1. TypeOK'
    BY Zenon, <1>12 DEF Crash, disk, TypeOK, Stages, Statuses
  <2>2. JournalMatchesStage'
    BY <1>12 DEF Crash, disk, JournalMatchesStage, Ready
  <2>3. RollbackIsExact' /\ TargetMatchesStage'
    BY <1>12 DEF Crash, disk, RollbackIsExact, TargetMatchesStage
  <2> QED
    BY <2>1, <2>2, <2>3
<1>13. CASE StartAgain
  BY <1>13 DEF StartAgain, disk, TypeOK, Statuses, JournalMatchesStage, Ready, RollbackIsExact,
               TargetMatchesStage, Builds
<1>14. CASE RecoverFinalize
  <2>1. PICK o \in journal : Reached(o) /\ Finalize(o)
    BY <1>14 DEF RecoverFinalize
  <2>2. aux' \in Puts /\ nodes' \subseteq Node /\ journal' = {}
    BY <2>1, FinalizeType
  <2>3. status = "down" /\ UNCHANGED <<blocks, head, stage, writeErr, status>>
    BY <1>14 DEF RecoverFinalize
  <2> QED
    BY <2>2, <2>3 DEF TypeOK, JournalMatchesStage, RollbackIsExact, TargetMatchesStage
<1>15. CASE RecoverDiscard
  <2>1. TypeOK'
    BY <1>15 DEF RecoverDiscard, TypeOK, Statuses
  <2>2. JournalMatchesStage'
    BY <1>15 DEF RecoverDiscard, JournalMatchesStage, Ready
  <2>3. RollbackIsExact' /\ TargetMatchesStage'
    BY <1>15 DEF RecoverDiscard, RollbackIsExact, TargetMatchesStage, TypeOK
  <2> QED
    BY <2>1, <2>2, <2>3
<1>16. CASE RecoverCancel
  <2>1. TypeOK'
    BY <1>16 DEF RecoverCancel, TypeOK, Statuses
  <2>2. JournalMatchesStage'
    BY <1>16 DEF RecoverCancel, JournalMatchesStage, Ready, TypeOK
  <2>3. RollbackIsExact' /\ TargetMatchesStage'
    BY <1>16 DEF RecoverCancel, RollbackIsExact, TargetMatchesStage
  <2> QED
    BY <2>1, <2>2, <2>3
<1>17. CASE RecoverMismatch
  BY <1>17 DEF RecoverMismatch, disk, TypeOK, Statuses, JournalMatchesStage, Ready, RollbackIsExact,
               TargetMatchesStage, Builds
<1>18. CASE Open
  BY <1>18 DEF Open, disk, TypeOK, Statuses, JournalMatchesStage, Ready, RollbackIsExact,
               TargetMatchesStage, Builds
<1>19. CASE UNCHANGED commitVars
  BY <1>19 DEF commitVars, TypeOK, JournalMatchesStage, Ready, RollbackIsExact,
               TargetMatchesStage, Builds
<1> QED
  BY <1>1, <1>2, <1>3, <1>4, <1>5, <1>6, <1>7, <1>8, <1>9, <1>10, <1>11, <1>12, <1>13, <1>14,
     <1>15, <1>16, <1>17, <1>18, <1>19 DEF Next

-----------------------------------------------------------------------------
(* Theorems.                                                               *)

\* The inductive invariant holds of every state of the journal protocol.
THEOREM Invariance == Spec => []IInv
BY InitInvariant, NextInvariant, PTL DEF Spec

\* Type correctness of the database, the journal and the commit's stage.
THEOREM TypeCorrect == Spec => []TypeOK
<1>1. IInv => TypeOK
  BY DEF IInv
<1> QED
  BY <1>1, Invariance, PTL

\* commitPrepared's "a prepared operation is already pending" is never
\* returned: a node that accepts writes has no journal.
THEOREM NoPendingJournal == Spec => []NoPendingJournalWhenReady
<1>1. IInv => NoPendingJournalWhenReady
  BY DEF IInv, JournalMatchesStage, NoPendingJournalWhenReady
<1> QED
  BY <1>1, Invariance, PTL

-----------------------------------------------------------------------------
(* Refinement: what a restart would find, before and after each step.      *)

committed == <<CommittedAux, CommittedNodes, CommittedHead, Submitted>>

\* Without a journal a restart finds what is stored.
LEMMA CommittedWithout ==
    ASSUME journal = {}
    PROVE  /\ CommittedAux = aux /\ CommittedNodes = nodes
           /\ CommittedHead = head /\ Submitted = {}
BY DEF CommittedAux, CommittedNodes, CommittedHead, Submitted

LEMMA CommittedWithoutNext ==
    ASSUME journal' = {}
    PROVE  /\ CommittedAux' = aux' /\ CommittedNodes' = nodes'
           /\ CommittedHead' = head' /\ Submitted' = {}
BY DEF CommittedAux, CommittedNodes, CommittedHead, Submitted

\* With operation o journaled, recoverPreparedOperation finalizes o if it
\* reached its target and cancels it if not.
LEMMA CommittedWith ==
    ASSUME NEW o, journal = {o}
    PROVE  /\ CommittedAux = IF Reached(o) THEN Batch(aux, o.puts, o.deletes) ELSE aux
           /\ CommittedNodes = IF Reached(o) THEN nodes \cup o.executionPuts
                                             ELSE nodes \ o.rollbackDeletes
           /\ CommittedHead = IF o.kind = "head" /\ ~Reached(o) THEN o.oldHead ELSE head
           /\ Submitted = IF Reached(o) THEN {} ELSE {WriteOf(o)}
<1>1. (CHOOSE p \in journal : TRUE) = o
  OBVIOUS
<1> QED
  BY <1>1 DEF CommittedAux, CommittedNodes, CommittedHead, Submitted

LEMMA CommittedWithNext ==
    ASSUME NEW o, journal' = {o}
    PROVE  /\ CommittedAux' = IF Reached(o)' THEN Batch(aux', o.puts, o.deletes) ELSE aux'
           /\ CommittedNodes' = IF Reached(o)' THEN nodes' \cup o.executionPuts
                                               ELSE nodes' \ o.rollbackDeletes
           /\ CommittedHead' = IF o.kind = "head" /\ ~Reached(o)' THEN o.oldHead ELSE head'
           /\ Submitted' = IF Reached(o)' THEN {} ELSE {WriteOf(o)}
<1>1. (CHOOSE p \in journal' : TRUE) = o
  OBVIOUS
<1> QED
  BY <1>1 DEF CommittedAux, CommittedNodes, CommittedHead, Submitted, Reached

\* The journal write of commitPrepared submits the operation; an operation
\* whose target is already reached (a rewind of missed slots, an equal block
\* mined again on a branch) takes effect with it.
LEMMA PrepareRefines ==
    ASSUME IInv, NEW o \in Operation, Prepare(o), o.oldHead = head,
           o.rollbackDeletes = RollbackDeletes(o.executionPuts)
    PROVE  Atomic!Next
<1>1. journal = {} /\ journal' = {o} /\ UNCHANGED <<aux, nodes, blocks, head>>
  BY DEF Prepare
<1>2. CommittedAux = aux /\ CommittedNodes = nodes /\ CommittedHead = head /\ Submitted = {}
  BY <1>1, CommittedWithout
<1>3. WriteOf(o) \in Atomic!Write
  BY DEF Operation, WriteOf, Atomic!Write, Atomic!Table, Puts
<1>4. CASE Reached(o)'
  <2>1. /\ CommittedAux' = Batch(aux, o.puts, o.deletes) /\ CommittedNodes' = nodes \cup o.executionPuts
        /\ CommittedHead' = head /\ Submitted' = {}
    BY <1>1, <1>4, CommittedWithNext
  <2>2. o.kind = "head" => head = o.target
    BY <1>1, <1>4 DEF Reached
  <2>3. Atomic!AtOnce(WriteOf(o))
    BY ZenonT(30), <1>2, <2>1, <2>2 DEF Atomic!AtOnce, Atomic!Perform, WriteOf, Batch
  <2> QED
    BY <1>3, <2>3 DEF Atomic!Next
<1>5. CASE ~Reached(o)'
  <2>1. /\ CommittedAux' = aux /\ CommittedNodes' = nodes \ o.rollbackDeletes
        /\ CommittedHead' = head /\ Submitted' = {WriteOf(o)}
    BY <1>1, <1>5, CommittedWithNext
  <2>2. nodes \ o.rollbackDeletes = nodes
    BY DEF RollbackDeletes
  <2>3. Atomic!Submit(WriteOf(o))
    BY <1>2, <2>1, <2>2 DEF Atomic!Submit
  <2> QED
    BY <1>3, <2>3 DEF Atomic!Next
<1> QED
  BY <1>4, <1>5

\* A step that reaches the target of the journaled operation, and changes no
\* auxiliary or execution key, commits it.
LEMMA ReachRefines ==
    ASSUME IInv, NEW o, journal = {o}, UNCHANGED <<aux, nodes, journal>>,
           ~Reached(o), Reached(o)', o.kind = "head" => head' = o.target,
           o.kind # "head" => head' = head
    PROVE  Atomic!Next
<1>1. /\ CommittedAux = aux /\ CommittedNodes = nodes \ o.rollbackDeletes
      /\ CommittedHead = IF o.kind = "head" THEN o.oldHead ELSE head
      /\ Submitted = {WriteOf(o)}
  BY CommittedWith
<1>2. /\ CommittedAux' = Batch(aux, o.puts, o.deletes) /\ CommittedNodes' = nodes \cup o.executionPuts
      /\ CommittedHead' = head' /\ Submitted' = {}
  BY CommittedWithNext
<1>3. (nodes \ o.rollbackDeletes) \cup o.executionPuts = nodes \cup o.executionPuts
  BY DEF IInv, RollbackIsExact
<1>4. Atomic!Perform(WriteOf(o))
  BY ZenonT(30), <1>1, <1>2, <1>3 DEF Atomic!Perform, WriteOf, Batch
<1> QED
  BY <1>1, <1>4 DEF Atomic!Next, Atomic!Commit

LEMMA StepRefines == IInv /\ [Next]_commitVars => [Atomic!Next]_(Atomic!avars)
<1> SUFFICES ASSUME IInv, [Next]_commitVars PROVE Atomic!Next \/ UNCHANGED committed
  BY DEF committed, Atomic!avars
<1> USE DEF IInv
<1>0. \A o \in journal : journal = {o}
  BY DEF TypeOK
<1>1. CASE PrepareHeadBlock
  <2>1. PICK b \in Block \ {head}, added \in SUBSET Node, puts \in Puts, deletes \in SUBSET Key :
            Prepare([kind |-> "head", oldHead |-> head, target |-> b, discardOnCancel |-> TRUE,
                     executionPuts |-> added, rollbackDeletes |-> RollbackDeletes(added),
                     puts |-> puts, deletes |-> deletes])
    BY Zenon, <1>1 DEF PrepareHeadBlock
  <2> DEFINE o == [kind |-> "head", oldHead |-> head, target |-> b, discardOnCancel |-> TRUE,
                   executionPuts |-> added, rollbackDeletes |-> RollbackDeletes(added),
                   puts |-> puts, deletes |-> deletes]
  <2>2. o \in Operation
    BY DEF Operation, RollbackDeletes, TypeOK
  <2>3. o.oldHead = head /\ o.rollbackDeletes = RollbackDeletes(o.executionPuts) /\ Prepare(o)
    BY <2>1
  <2> QED
    BY <2>2, <2>3, PrepareRefines
<1>2. CASE PrepareSideBlock
  <2>1. PICK b \in Block \ {head}, added \in SUBSET Node, puts \in Puts :
            Prepare([kind |-> "block", oldHead |-> head, target |-> b, discardOnCancel |-> FALSE,
                     executionPuts |-> added, rollbackDeletes |-> RollbackDeletes(added),
                     puts |-> puts, deletes |-> {}])
    BY Zenon, <1>2 DEF PrepareSideBlock
  <2> DEFINE o == [kind |-> "block", oldHead |-> head, target |-> b, discardOnCancel |-> FALSE,
                   executionPuts |-> added, rollbackDeletes |-> RollbackDeletes(added),
                   puts |-> puts, deletes |-> {}]
  <2>2. o \in Operation
    BY DEF Operation, RollbackDeletes, TypeOK
  <2>3. o.oldHead = head /\ o.rollbackDeletes = RollbackDeletes(o.executionPuts) /\ Prepare(o)
    BY <2>1
  <2> QED
    BY <2>2, <2>3, PrepareRefines
<1>3. CASE PrepareSwitch
  <2>1. PICK b \in blocks, puts \in Puts, deletes \in SUBSET Key :
            Prepare([kind |-> "head", oldHead |-> head, target |-> b, discardOnCancel |-> FALSE,
                     executionPuts |-> {}, rollbackDeletes |-> {}, puts |-> puts, deletes |-> deletes])
    BY Zenon, <1>3 DEF PrepareSwitch
  <2> DEFINE o == [kind |-> "head", oldHead |-> head, target |-> b, discardOnCancel |-> FALSE,
                   executionPuts |-> {}, rollbackDeletes |-> {}, puts |-> puts, deletes |-> deletes]
  <2>2. o \in Operation
    BY DEF Operation, TypeOK
  <2>3. o.oldHead = head /\ o.rollbackDeletes = RollbackDeletes(o.executionPuts) /\ Prepare(o)
    BY <2>1 DEF RollbackDeletes
  <2> QED
    BY <2>2, <2>3, PrepareRefines
<1>4. CASE Auxiliary
  <2>1. PICK puts \in Puts, deletes \in SUBSET Key : CommitAuxiliary(puts, deletes)
    BY <1>4 DEF Auxiliary
  <2> DEFINE w == [puts |-> puts, deletes |-> deletes, added |-> {}, moves |-> FALSE, to |-> Genesis]
  <2>2. journal = {} /\ journal' = {}
    BY <2>1 DEF CommitAuxiliary, JournalMatchesStage
  <2>3. CommittedAux = aux /\ CommittedNodes = nodes /\ CommittedHead = head /\ Submitted = {}
    BY <2>2, CommittedWithout
  <2>4. CommittedAux' = aux' /\ CommittedNodes' = nodes' /\ CommittedHead' = head' /\ Submitted' = {}
    BY <2>2, CommittedWithoutNext
  <2>5. Atomic!AtOnce(w)
    BY <2>1, <2>3, <2>4 DEF CommitAuxiliary, Batch, Atomic!AtOnce, Atomic!Perform
  <2>6. w \in Atomic!Write
    BY GenesisIsBlock DEF Atomic!Write, Atomic!Table, Puts
  <2> QED
    BY <2>5, <2>6 DEF Atomic!Next
<1>5. CASE WriteNodes
  <2>1. PICK o \in journal : nodes' = nodes \cup o.executionPuts
    BY <1>5 DEF WriteNodes
  <2>2. journal = {o} /\ journal' = {o} /\ UNCHANGED <<aux, blocks, head>>
    BY <1>0, <1>5 DEF WriteNodes
  <2>3. Reached(o)' = Reached(o)
    BY <2>2 DEF Reached
  <2>4. nodes' \ o.rollbackDeletes = nodes \ o.rollbackDeletes
    BY <2>1 DEF RollbackIsExact
  <2>5. nodes' \cup o.executionPuts = nodes \cup o.executionPuts
    BY <2>1
  <2> QED
    BY <2>2, <2>3, <2>4, <2>5, CommittedWith, CommittedWithNext DEF committed
<1>6. CASE PersistBlock
  <2>1. PICK o \in journal : blocks' = blocks \cup {o.target}
    BY <1>6 DEF PersistBlock
  <2>2. journal = {o} /\ journal' = {o} /\ UNCHANGED <<aux, nodes, head>>
    BY <1>0, <1>6 DEF PersistBlock
  <2>3. CASE Reached(o)' = Reached(o)
    BY <2>2, <2>3, CommittedWith, CommittedWithNext DEF committed
  <2>4. CASE ~(Reached(o)' = Reached(o))
    <3>1. ~Reached(o) /\ Reached(o)' /\ o.kind # "head"
      BY <2>1, <2>2, <2>4 DEF Reached
    <3> QED
      BY <2>2, <3>1, ReachRefines
  <2> QED
    BY <2>3, <2>4
<1>7. CASE SetCanonical
  <2>1. PICK o \in journal : BeforeSetCanonical(o) /\ head' = o.target
    BY <1>7 DEF SetCanonical
  <2>2. journal = {o} /\ journal' = {o} /\ UNCHANGED <<aux, nodes, blocks>>
    BY <1>0, <1>7 DEF SetCanonical
  <2>3. o.kind = "head" /\ Reached(o)'
    BY <2>1 DEF BeforeSetCanonical, Reached
  <2>4. CASE Reached(o)
    <3>1. head' = head
      BY <2>1, <2>3, <2>4 DEF Reached
    <3> QED
      BY <2>2, <2>3, <2>4, <3>1, CommittedWith, CommittedWithNext DEF committed
  <2>5. CASE ~Reached(o)
    BY <2>1, <2>2, <2>3, <2>5, ReachRefines
  <2> QED
    BY <2>4, <2>5
<1>8. CASE FinalizeCommit \/ RecoverFinalize
  <2>1. PICK o \in journal : Finalize(o) /\ (Mutated(o) \/ Reached(o))
    BY <1>8 DEF FinalizeCommit, RecoverFinalize
  <2>2. journal = {o} /\ journal' = {} /\ UNCHANGED head
    BY <1>0, <1>8, <2>1 DEF FinalizeCommit, RecoverFinalize, Finalize
  <2>3. Reached(o)
    BY <2>1 DEF Mutated, Reached, TargetMatchesStage, TypeOK, Operation
  <2>4. aux' = Batch(aux, o.puts, o.deletes) /\ nodes' = nodes \cup o.executionPuts
    BY <2>1 DEF Finalize
  <2> QED
    BY <2>2, <2>3, <2>4, CommittedWith, CommittedWithoutNext DEF committed
<1>9. CASE \E b \in blocks : TornSetCanonical(b)
  <2>1. PICK b \in blocks : TornSetCanonical(b)
    BY <1>9
  <2>2. PICK o \in journal : BeforeSetCanonical(o) /\ ~Reached(o) /\ b # o.target
    BY <2>1 DEF TornSetCanonical
  <2>3. journal = {o} /\ journal' = {o} /\ UNCHANGED <<aux, nodes>>
    BY <1>0, <2>1 DEF TornSetCanonical
  <2>4. o.kind = "head" /\ ~Reached(o)'
    BY <2>1, <2>2 DEF TornSetCanonical, BeforeSetCanonical, Reached
  <2> QED
    BY <2>2, <2>3, <2>4, CommittedWith, CommittedWithNext DEF committed
<1>10. CASE RecoverDiscard
  <2>1. PICK o \in journal : Untouched(o) /\ blocks' = blocks \ {o.target}
    BY <1>10 DEF RecoverDiscard
  <2>2. journal = {o} /\ journal' = {o} /\ UNCHANGED <<aux, nodes, head>>
    BY <1>0, <1>10 DEF RecoverDiscard
  <2>3. ~Reached(o) /\ ~Reached(o)'
    BY <2>1, <2>2 DEF Untouched, Reached
  <2> QED
    BY <2>2, <2>3, CommittedWith, CommittedWithNext DEF committed
<1>11. CASE RecoverCancel
  <2>1. PICK o \in journal : Untouched(o) /\ nodes' = nodes \ o.rollbackDeletes
    BY <1>11 DEF RecoverCancel
  <2>2. journal = {o} /\ journal' = {} /\ UNCHANGED <<aux, head>>
    BY <1>0, <1>11 DEF RecoverCancel
  <2>3. ~Reached(o) /\ (o.kind = "head" => head = o.oldHead)
    BY <2>1 DEF Untouched
  <2>4. /\ CommittedAux = aux /\ CommittedNodes = nodes' /\ CommittedHead = head
        /\ Submitted = {WriteOf(o)}
    BY <2>1, <2>2, <2>3, CommittedWith
  <2>5. Atomic!Abort
    BY <2>2, <2>4, CommittedWithoutNext DEF Atomic!Abort
  <2> QED
    BY <2>5 DEF Atomic!Next
<1>12. CASE \/ Apply \/ FailCommit \/ Crash \/ StartAgain \/ RecoverMismatch \/ Open
            \/ UNCHANGED commitVars
  <2>1. UNCHANGED disk
    BY <1>12 DEF Apply, FailCommit, Crash, StartAgain, RecoverMismatch, Open, commitVars, disk
  <2>2. aux' = aux /\ nodes' = nodes /\ blocks' = blocks /\ head' = head /\ journal' = journal
    BY <2>1 DEF disk
  <2>3. \A o \in journal : Reached(o)' <=> Reached(o)
    BY <2>2 DEF Reached
  <2>4. CommittedAux' = CommittedAux
    BY <2>2, <2>3 DEF CommittedAux
  <2>5. CommittedNodes' = CommittedNodes
    BY <2>2, <2>3 DEF CommittedNodes
  <2>6. CommittedHead' = CommittedHead
    BY <2>2, <2>3 DEF CommittedHead
  <2>7. Submitted' = Submitted
    BY <2>2, <2>3 DEF Submitted
  <2> QED
    BY <2>4, <2>5, <2>6, <2>7 DEF committed
<1> QED
  BY <1>1, <1>2, <1>3, <1>4, <1>5, <1>6, <1>7, <1>8, <1>9, <1>10, <1>11, <1>12 DEF Next

\* The journal makes every write atomic: whatever keys, blocks and heads the
\* commands write and wherever a crash or an error comes, the database stands
\* for the state before the operation or for the state after it.
THEOREM Refinement == Spec => Atomicity
<1>1. Init => Atomic!Init
  <2> SUFFICES ASSUME Init PROVE Atomic!Init
    OBVIOUS
  <2>1. CommittedAux = aux /\ CommittedNodes = nodes /\ CommittedHead = head /\ Submitted = {}
    BY CommittedWithout DEF Init
  <2> QED
    BY Zenon, <2>1 DEF Init, Atomic!Init, Atomic!Table, Puts
<1> QED
  BY <1>1, StepRefines, Invariance, PTL DEF Spec, Atomicity, Atomic!Spec

=============================================================================
