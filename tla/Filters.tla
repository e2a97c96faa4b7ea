------------------------------ MODULE Filters ------------------------------
(***************************************************************************)
(* The installed filters of the RPC server (rpc_filters.go): block, log    *)
(* and pending-transaction filters that clients poll, each with a cursor   *)
(* into a bounded log.                                                     *)
(*                                                                         *)
(* A poll holds filterMu from beginning to end, so one poll runs at a      *)
(* time; the log and the head change under it.  It reads the events in one *)
(* step and the head (or, after a gap, the current revision) in another.   *)
(* Every block has one log that matches.                                   *)
(***************************************************************************)
EXTENDS LogRange

CONSTANTS
    FilterIDs,        \* the IDs that rpc.NewID may return
    FilterKinds,      \* kinds clients install, of "logs", "blocks", "pending"
    Ranges,           \* block ranges of log filters
    MaxFilters,       \* cfg.Limits.MaxFilters
    MaxLogResults,    \* cfg.Limits.MaxLogResults
    FilterTimeout,    \* cfg.Limits.FilterTimeout, in ticks
    MaxPendingEvents  \* bound on the pending transactions recorded

ASSUME FilterAssumption == {MaxFilters, MaxLogResults, FilterTimeout} \subseteq Nat \ {0}

VARIABLES
    pendingLog,  \* n.pendingEvents, in memory only
    filters,     \* api.filters
    poll         \* the poll under way: what it read

filterVars == <<pendingLog, filters, poll>>
vars == <<logVars, filterVars>>

\* The log that a filter reads.
LogOf(kind) == IF kind = "pending" THEN pendingLog ELSE log

\* pruneExpiredFiltersLocked: what is left.  The age is now - lastUsed.
Fresh == {id \in DOMAIN filters : filters[id].age < FilterTimeout}

Pruned(ids) == [id \in ids \cap Fresh |-> filters[id]]

FilterInit ==
    /\ Init
    /\ pendingLog = EmptyLog
    /\ filters = <<>>
    /\ poll = {}

-----------------------------------------------------------------------------

\* SendTransaction announces the transaction.
RecordPending ==
    /\ pendingLog.next <= MaxPendingEvents
    /\ pendingLog' = Record(pendingLog)
    /\ UNCHANGED <<logVars, filters, poll>>

\* NewFilter, NewBlockFilter, NewPendingTransactionFilter with
\* installFilterLocked.  start, told and lost are history: the cursor at the
\* installation, what polls returned, and the revisions whose loss a poll
\* reported.
Install(id, kind, range) ==
    /\ poll = {}
    /\ IF kind = "logs" THEN Valid(range) ELSE range = Everything
    /\ id \notin DOMAIN filters
    /\ Cardinality(Fresh) < MaxFilters
    /\ LET cursor == Current(LogOf(kind))
           filter == [kind |-> kind, range |-> range, cursor |-> cursor, age |-> 0,
                      start |-> cursor, told |-> <<>>, lost |-> {}]
       IN filters' = [i \in Fresh \cup {id} |-> IF i = id THEN filter ELSE filters[i]]
    /\ UNCHANGED <<logVars, pendingLog, poll>>

\* GetFilterChanges up to the read of the log.
PollRead(id) ==
    /\ poll = {}
    /\ id \in Fresh
    /\ filters' = [Pruned(DOMAIN filters) EXCEPT ![id].age = 0]
    /\ LET filter == filters[id]
           source == LogOf(filter.kind)
       IN poll' = {[id |-> id, gap |-> Gap(source, filter.cursor), events |-> Since(source, filter.cursor)]}
    /\ UNCHANGED <<logVars, pendingLog>>

\* Mutant: the cursor is set to the oldest event the log still holds.
PollGapKeepsCursor ==
    /\ \E p \in poll :
          /\ p.gap
          /\ LET cursor == filters[p.id].cursor
                 now    == LogOf(filters[p.id].kind).events[1].revision
             IN filters' = [filters EXCEPT ![p.id].cursor = now,
                                           ![p.id].lost = @ \cup ((cursor + 1)..(now - 1))]
    /\ poll' = {}
    /\ UNCHANGED <<logVars, pendingLog>>

\* A gap: the cursor is set to what is current by now and the client gets an
\* error.
PollGap ==
    /\ \E p \in poll :
          /\ p.gap
          /\ LET cursor == filters[p.id].cursor
                 now    == Current(LogOf(filters[p.id].kind))
             IN filters' = [filters EXCEPT ![p.id].cursor = now,
                                           ![p.id].lost = @ \cup ((cursor + 1)..now)]
    /\ poll' = {}
    /\ UNCHANGED <<logVars, pendingLog>>

\* What a poll that reads a head returns of the events it read.
Matches(filter, event, head) ==
    CASE filter.kind = "pending" -> TRUE
      [] filter.kind = "blocks" -> event.kind = "block"
      [] filter.kind = "logs" -> event.kind \in {"block", "removed"} /\ Includes(filter.range, event, head)

Results(filter, events, head) == SelectSeq(events, LAMBDA e : Matches(filter, e, head))

\* Mutant: the cursor advances although the result is refused.
PollReturnAlways ==
    /\ \E p \in poll :
          /\ ~p.gap
          /\ LET filter == filters[p.id]
                 found  == Results(filter, p.events, Len(chain))
             IN filters' = [filters EXCEPT
                     ![p.id].told = IF Len(found) <= MaxLogResults THEN @ \o found ELSE @,
                     ![p.id].cursor = IF p.events = <<>> THEN @ ELSE p.events[Len(p.events)].revision]
    /\ poll' = {}
    /\ UNCHANGED <<logVars, pendingLog>>

\* The rest of GetFilterChanges: the cursor advances only with a result.
PollReturn ==
    /\ \E p \in poll :
          /\ ~p.gap
          /\ LET filter == filters[p.id]
                 found  == Results(filter, p.events, Len(chain))
             IN /\ Len(found) <= MaxLogResults
                /\ filters' = [filters EXCEPT
                     ![p.id].told = @ \o found,
                     ![p.id].cursor = IF p.events = <<>> THEN @ ELSE p.events[Len(p.events)].revision]
    /\ poll' = {}
    /\ UNCHANGED <<logVars, pendingLog>>

\* A poll that ends with an error: a cancelled context, or too many results.
PollError ==
    /\ \E p \in poll : ~p.gap
    /\ poll' = {}
    /\ UNCHANGED <<logVars, pendingLog, filters>>

\* GetFilterLogs: the logs come from the chain, not from the event log; the
\* filter counts as used.
GetFilterLogs(id) ==
    /\ poll = {} /\ id \in Fresh
    /\ filters' = [Pruned(DOMAIN filters) EXCEPT ![id].age = 0]
    /\ UNCHANGED <<logVars, pendingLog, poll>>

Uninstall(id) ==
    /\ poll = {} /\ id \in DOMAIN filters
    /\ filters' = Pruned(DOMAIN filters \ {id})
    /\ UNCHANGED <<logVars, pendingLog, poll>>

\* Time passes.
Tick ==
    /\ \E id \in DOMAIN filters : filters[id].age < FilterTimeout
    /\ filters' = [id \in DOMAIN filters |->
                      [filters[id] EXCEPT !.age = IF @ < FilterTimeout THEN @ + 1 ELSE @]]
    /\ UNCHANGED <<logVars, pendingLog, poll>>

\* Mutant: only filters that are older than the timeout go.
ReapLater ==
    /\ poll = {} /\ \E id \in DOMAIN filters : filters[id].age > FilterTimeout
    /\ filters' = Pruned(DOMAIN filters)
    /\ UNCHANGED <<logVars, pendingLog, poll>>

\* startFilterReaper.
Reap ==
    /\ poll = {} /\ Fresh # DOMAIN filters
    /\ filters' = Pruned(DOMAIN filters)
    /\ UNCHANGED <<logVars, pendingLog, poll>>

LogStep == (Commands \/ Write \/ Apply \/ Fail) /\ UNCHANGED filterVars

FilterNext ==
    \/ LogStep \/ RecordPending
    \/ \E id \in FilterIDs :
          \/ \E kind \in FilterKinds, range \in Ranges : Install(id, kind, range)
          \/ PollRead(id) \/ GetFilterLogs(id) \/ Uninstall(id)
    \/ PollGap \/ PollReturn \/ PollError
    \/ Tick \/ Reap

FilterSpec == FilterInit /\ [][FilterNext]_vars

-----------------------------------------------------------------------------
(* Properties.                                                             *)

\* The events a filter was to see: those after its installation that its
\* cursor has passed and whose loss was not reported.
Due(filter) ==
    SelectSeq(SubSeq(history, filter.start + 1, filter.cursor), LAMBDA e : e.revision \notin filter.lost)

\* Polling returns every event in the filter's range once and in order, or
\* reports its loss: a cancelled poll, a refused result, a gap, and a log that is
\* trimmed while a poll runs neither skip nor repeat one.  A range with "latest"
\* is another one at every poll: then events may be skipped, and still none is
\* repeated or out of order.
PolledOnce ==
    \A id \in DOMAIN filters :
        LET filter == filters[id]
        IN IF filter.kind = "pending"
           THEN [i \in DOMAIN filter.told |-> filter.told[i].revision] =
                SelectSeq([i \in 1..(filter.cursor - filter.start) |-> filter.start + i],
                          LAMBDA r : r \notin filter.lost)
           ELSE IF Fixed(filter.range) THEN filter.told = Results(filter, Due(filter), Len(chain))
           ELSE /\ \A i, j \in DOMAIN filter.told : i < j => filter.told[i].revision < filter.told[j].revision
                /\ \A i \in DOMAIN filter.told : \E j \in DOMAIN Due(filter) : filter.told[i] = Due(filter)[j]

\* The logs a client holds: told, and not told removed since.
Standing(told) ==
    {told[i].block : i \in {j \in DOMAIN told :
        told[j].kind = "block" /\ \A k \in DOMAIN told : k > j => told[k].block # told[j].block}}

\* "Canonical rewinds publish removed logs": a client that has caught up and
\* was told of no gap holds the logs of canonical blocks and no others.  It holds
\* no others if its range is fixed; with "latest" the range may end below a
\* removed block.  It holds them all unless its range begins at "latest".
LogsAreCanonical ==
    \A id \in DOMAIN filters :
        LET filter == filters[id]
            standing == Standing(filter.told)
        IN filter.kind = "logs" /\ filter.lost = {} /\ filter.cursor = Current(log)
               /\ stage = "idle" /\ ~writeErr
           => /\ Fixed(filter.range) => standing \subseteq {chain[i] : i \in DOMAIN chain}
              /\ Latest \notin filter.range.from =>
                    \A i \in DOMAIN chain :
                        chain[i] > filter.start /\ Includes(filter.range, history[chain[i]], Len(chain))
                            => chain[i] \in standing

-----------------------------------------------------------------------------
(* Liveness.                                                               *)

\* The clock ticks, the reaper goroutine runs, a poll returns.
FilterFairSpec ==
    FilterSpec /\ WF_vars(Tick) /\ WF_vars(Reap) /\ WF_vars(PollGap \/ PollReturn \/ PollError)

\* A filter that its client stops using is removed in the end, so abandoned
\* filters cannot fill the limit for good.
AbandonedFilterRemoved ==
    \A id \in FilterIDs :
        \/ []<><<PollRead(id) \/ GetFilterLogs(id)>>_vars
        \/ []<>(id \notin DOMAIN filters)

=============================================================================
