------------------------------ MODULE EventLog ------------------------------
(***************************************************************************)
(* The bounded event log (events.go): the events in memory that readers    *)
(* see, the rows in the database that a restart loads, and the commit that *)
(* takes both from one set of events to the next.                          *)
(*                                                                         *)
(* The chain behind the events is a sequence of blocks; a block that joins *)
(* it is named by the revision of the event that announces it.  One        *)
(* command removes some blocks from the top and adds some.                 *)
(***************************************************************************)
EXTENDS Integers, Sequences, FiniteSets

CONSTANTS
    EventCapacity,  \* cfg.Events.Capacity, validated to be positive
    MaxRevision,    \* the largest uint64, a revision that is never assigned
    MaxAdded        \* bound on the blocks one command adds

ASSUME CapacityAssumption == EventCapacity \in Nat \ {0}
ASSUME RevisionAssumption == MaxRevision \in Nat \ {0}
ASSUME AddedAssumption == MaxAdded \in Nat

VARIABLES
    chain,     \* geth's canonical chain, without genesis
    log,       \* the log in memory: its events, oldest first, and the next revision
    rows,      \* the stored events
    journal,   \* the journaled operation: rows to put and keys to delete
    plan,      \* the planned events of the commit under way
    stage,     \* "idle", or where the commit is: "mutated", "written"
    writeErr,  \* writes are disabled after a failure
    up,        \* the process runs
    history    \* every event ever stored, by revision (a history variable)

logVars == <<chain, log, rows, journal, plan, stage, writeErr, up, history>>

-----------------------------------------------------------------------------
(* The operations of eventLog.                                             *)

Event == [revision : Nat, kind : {"block", "removed", "other"}, block : Nat, number : Nat]

EmptyLog == [events |-> <<>>, next |-> 1]

Current(l) == l.next - 1

\* plan: the events get the next revisions.
Numbered(l, events) ==
    [i \in 1..Len(events) |-> [events[i] EXCEPT !.revision = l.next + i - 1]]

\* plan fails when a revision would be the largest one.
PlanFits(l, events) == l.next + Len(events) <= MaxRevision

\* The newest events, as many as the log holds.
Newest(events) ==
    IF Len(events) > EventCapacity
    THEN SubSeq(events, Len(events) - EventCapacity + 1, Len(events))
    ELSE events

\* apply.
Extended(l, numbered) ==
    [events |-> Newest(l.events \o numbered), next |-> l.next + Len(numbered)]

\* Mutant: the rows that the log outgrows are those of the events already in it.
OutgrownBefore(l, numbered) ==
    LET surplus == Len(l.events) + Len(numbered) - EventCapacity
    IN {l.events[i].revision : i \in {j \in 1..Len(l.events) : j <= surplus}}

\* plan: the keys of the rows that the log outgrows.
Outgrown(l, numbered) ==
    LET retained == l.events \o numbered
    IN {retained[i].revision : i \in 1..(Len(retained) - EventCapacity)}

\* newEventLog: the rows in the order of their keys.
Rank(stored, e) == Cardinality({f \in stored : f.revision < e.revision})

InKeyOrder(stored) ==
    [i \in 1..Cardinality(stored) |-> CHOOSE e \in stored : Rank(stored, e) = i - 1]

LoadLog(stored) ==
    [events |-> InKeyOrder(stored),
     next   |-> IF stored = {} THEN 1
                ELSE 1 + (CHOOSE r \in {e.revision : e \in stored} :
                             \A e \in stored : e.revision <= r)]

\* sinceLocked.  The sum wraps, as the sum of unsigned integers does.
Gap(l, revision) ==
    l.events # <<>> /\ (revision + 1) % (MaxRevision + 1) < l.events[1].revision

Since(l, revision) ==
    LET seen == {i \in 1..Len(l.events) : l.events[i].revision <= revision}
    IN SubSeq(l.events, Cardinality(seen) + 1, Len(l.events))

\* pendingHashLog.record, on the log of announced transactions, which is never
\* stored.
Record(l) == [events |-> Newest(Append(l.events, [revision |-> l.next])), next |-> l.next + 1]

-----------------------------------------------------------------------------
(* The commit.                                                             *)

\* The blocks that a command adds, named by the revisions of their events.
AddedBlocks(l, removed, added) == [i \in 1..added |-> l.next + removed + i - 1]

\* The events of a command: switchCanonical's removals from the head down and
\* additions from the ancestor up; a mined or control block; then the events
\* that show no block (a reorganisation, missed slots, a finalized checkpoint).
CommandEvents(l, removed, added, others) ==
    [i \in 1..removed |->
        [revision |-> 0, kind |-> "removed", block |-> chain[Len(chain) - i + 1], number |-> Len(chain) - i + 1]]
    \o [i \in 1..added |->
        [revision |-> 0, kind |-> "block", block |-> AddedBlocks(l, removed, added)[i],
         number |-> Len(chain) - removed + i]]
    \o [i \in 1..others |-> [revision |-> 0, kind |-> "other", block |-> 0, number |-> 0]]

Init ==
    /\ chain = <<>> /\ log = EmptyLog /\ rows = {} /\ history = <<>>
    /\ journal = {} /\ plan = <<>> /\ stage = "idle"
    /\ writeErr = FALSE /\ up = TRUE

\* The batch of a commit: rows to put and keys to delete, from the log in memory.
BatchOf(l, numbered) == [puts |-> numbered, deletes |-> Outgrown(l, numbered)]

\* A command up to the batch.  One that moves the head goes through
\* commitPrepared, which journals the batch (a commit that stops before
\* SetCanonical is cancelled by the recovery and leaves nothing); one that does
\* not goes through commitAuxiliary.
Command(removed, added, others) ==
    /\ up /\ stage = "idle" /\ ~writeErr
    /\ LET events   == CommandEvents(log, removed, added, others)
           numbered == Numbered(log, events)
       IN /\ PlanFits(log, events)
          /\ plan' = numbered
          /\ journal' = IF removed + added > 0 THEN {BatchOf(log, numbered)} ELSE {}
    /\ chain' = SubSeq(chain, 1, Len(chain) - removed) \o AddedBlocks(log, removed, added)
    /\ stage' = "mutated"
    /\ UNCHANGED <<log, rows, writeErr, up, history>>

\* finalizePreparedOperation and commitAuxiliary: all puts, then all deletes,
\* and the journal, in one batch.
Finalize(batch) ==
    /\ rows' = {e \in rows \cup {batch.puts[i] : i \in 1..Len(batch.puts)} :
                   e.revision \notin batch.deletes}
    /\ history' = history \o batch.puts
    /\ journal' = {}

Write ==
    /\ stage = "mutated"
    /\ Finalize(BatchOf(log, plan))
    /\ stage' = "written"
    /\ UNCHANGED <<chain, log, plan, writeErr, up>>

\* apply, after the batch.
Apply ==
    /\ stage = "written"
    /\ log' = Extended(log, plan)
    /\ stage' = "idle" /\ plan' = <<>>
    /\ UNCHANGED <<chain, rows, journal, writeErr, up, history>>

\* An error before or after the batch disables writes; the log stays as it is.
Fail ==
    /\ stage # "idle"
    /\ writeErr' = TRUE /\ stage' = "idle" /\ plan' = <<>>
    /\ UNCHANGED <<chain, log, rows, journal, up, history>>

\* The process stops.
Crash ==
    /\ up
    /\ up' = FALSE /\ writeErr' = FALSE /\ stage' = "idle" /\ plan' = <<>> /\ log' = EmptyLog
    /\ UNCHANGED <<chain, rows, journal, history>>

\* recoverPreparedOperation: the head has moved, so the batch is written.
Recover ==
    /\ ~up
    /\ \E operation \in journal : Finalize(operation)
    /\ UNCHANGED <<chain, log, plan, stage, writeErr, up>>

Restart ==
    /\ ~up /\ journal = {}
    /\ up' = TRUE /\ log' = LoadLog(rows)
    /\ UNCHANGED <<chain, rows, journal, plan, stage, writeErr, history>>

\* mineExecutionBlock and applyControl; switchCanonical; MissSlots,
\* PauseFinality, ResumeFinality and the other commands without a block.
Commands ==
    \/ \E others \in 0..1 : Command(0, 1, others)
    \/ \E removed \in 0..Len(chain), added \in 0..MaxAdded :
          removed + added > 0 /\ Command(removed, added, 1)
    \/ \E others \in 0..MaxAdded : Command(0, 0, others)

Next == Commands \/ Write \/ Apply \/ Fail \/ Crash \/ Recover \/ Restart

Spec == Init /\ [][Next]_logVars

-----------------------------------------------------------------------------
(* Properties.                                                             *)

\* The types, with revisions below the largest one (plan's overflow check).
TypeOK ==
    /\ chain \in Seq(Nat)
    /\ log.events \in Seq(Event) /\ log.next \in 1..MaxRevision
    /\ rows \subseteq Event
    /\ \A o \in journal : o.puts \in Seq(Event) /\ o.deletes \subseteq Nat
    /\ plan \in Seq(Event)
    /\ stage \in {"idle", "mutated", "written"}
    /\ writeErr \in BOOLEAN /\ up \in BOOLEAN
    /\ history \in Seq(Event)

\* The log that readers see is the tail of everything ever stored, with no
\* hole and no revision used twice, whatever crashes and recoveries came
\* before; the largest revision is never assigned.  The rows belong to the same
\* history, and a restart loads the log that the running node shows (between
\* commits, and unless a failure has left the node behind its database).
LogIsTail ==
    up =>
        /\ Len(log.events) <= EventCapacity
        /\ \A i \in 1..Len(log.events) :
              /\ log.events[i].revision = log.next - Len(log.events) + i - 1
              /\ log.events[i] = history[log.events[i].revision]
        /\ log.next <= Len(history) + 1 /\ log.next <= MaxRevision
        /\ \A e \in rows : e.revision \in 1..Len(history) /\ e = history[e.revision]
        /\ stage = "idle" /\ ~writeErr => LoadLog(rows) = log

=============================================================================
