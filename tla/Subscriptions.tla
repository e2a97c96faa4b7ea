--------------------------- MODULE Subscriptions ---------------------------
(***************************************************************************)
(* Live subscriptions (rpc_subscriptions.go).  Each has two goroutines: a  *)
(* pump that reads a bounded log and fills a bounded queue, and a writer   *)
(* that takes values from the queue to the connection.  A gap or a full    *)
(* queue closes the connection.                                            *)
(*                                                                         *)
(* The channel that the log closes at every change is named by the         *)
(* revision that was next when it was made.                                *)
(***************************************************************************)
EXTENDS LogRange

CONSTANTS
    Clients,           \* connections, each with one subscription at a time
    Streams,           \* of "newHeads", "logs", "newPendingTransactions"
    Ranges,            \* block ranges of log subscriptions
    MaxSubscriptions,  \* cfg.Limits.MaxSubscriptions
    MaxPendingEvents   \* bound on the pending transactions recorded

ASSUME SubscriptionAssumption == MaxSubscriptions \in Nat \ {0}

VARIABLES
    pendingLog,  \* n.pendingEvents
    subs,        \* the subscription of each client
    active,      \* n.activeSubscriptions
    stopping     \* n.stopping is closed

subscriptionVars == <<pendingLog, subs, active, stopping>>
vars == <<logVars, subscriptionVars>>

LogOf(stream) == IF stream = "newPendingTransactions" THEN pendingLog ELSE log

RangesOf(stream) == IF stream = "logs" THEN Ranges ELSE {Everything}

\* What a subscription shows of the events it read, with the head it read then.
Matches(s, event) ==
    CASE s.stream = "newHeads" -> event.kind = "block"
      [] s.stream = "logs" -> event.kind \in {"block", "removed"} /\ Includes(s.range, event, s.head)
      [] s.stream = "newPendingTransactions" -> TRUE

NoSubscription ==
    [stream |-> "none", range |-> Everything, head |-> 0, pump |-> "ended", writer |-> "ended", open |-> FALSE, cursor |-> 0,
     batch |-> <<>>, changed |-> 0, queue |-> <<>>, start |-> 0, told |-> <<>>]

SubscriptionInit ==
    /\ Init
    /\ pendingLog = EmptyLog
    /\ subs = [c \in Clients |-> NoSubscription]
    /\ active = 0
    /\ stopping = FALSE

Update(c, s) == subs' = [subs EXCEPT ![c] = s]

\* SendTransaction announces the transaction.
RecordPending ==
    /\ ~stopping
    /\ pendingLog.next <= MaxPendingEvents
    /\ pendingLog' = Record(pendingLog)
    /\ UNCHANGED <<logVars, subs, active, stopping>>

\* NewHeads, Logs, NewPendingTransactions and streamSubscription.  start and
\* told are history: the first cursor and what reached the connection.
Subscribe(c, stream, range) ==
    /\ ~stopping
    /\ Valid(range)
    /\ subs[c].pump = "ended" /\ subs[c].writer = "ended"
    /\ active < MaxSubscriptions
    /\ active' = active + 1
    /\ LET cursor == Current(LogOf(stream))
       IN Update(c, [stream |-> stream, range |-> range, head |-> 0, pump |-> "read",
                     writer |-> "waiting", open |-> TRUE, cursor |-> cursor, batch |-> <<>>, changed |-> 0, queue |-> <<>>,
                     start |-> cursor, told |-> <<>>])
    /\ UNCHANGED <<logVars, pendingLog, stopping>>

-----------------------------------------------------------------------------
(* The pump.                                                               *)

\* The pump returns, and its variables are gone; with an error it closes the
\* connection.
Returned(s) == [s EXCEPT !.pump = "ended", !.batch = <<>>, !.changed = 0, !.head = 0]

Failed(s) == [Returned(s) EXCEPT !.open = FALSE]

\* sinceAndWait: the events and the channel, under one lock.
PumpRead(c) ==
    /\ subs[c].pump = "read"
    /\ LET s == subs[c]
           source == LogOf(s.stream)
       IN Update(c, IF Gap(source, s.cursor)
                    THEN Failed(s)
                    ELSE [s EXCEPT !.pump = IF s.stream = "logs" THEN "head" ELSE "emit",
                                   !.batch = Since(source, s.cursor), !.changed = source.next])
    /\ UNCHANGED <<logVars, pendingLog, active, stopping>>

\* Logs reads geth's head after the events.
PumpHead(c) ==
    /\ subs[c].pump = "head"
    /\ Update(c, [subs[c] EXCEPT !.pump = "emit", !.head = Len(chain)])
    /\ UNCHANGED <<logVars, pendingLog, active, stopping>>

\* Mutant: a value that finds the queue full is dropped.
PumpEmitDrops(c) ==
    /\ subs[c].pump = "emit" /\ subs[c].batch # <<>>
    /\ LET event == Head(subs[c].batch)
           s == [subs[c] EXCEPT !.batch = Tail(@), !.cursor = event.revision]
       IN Update(c, IF ~Matches(s, event) THEN s
                    ELSE IF stopping \/ s.writer = "ended" THEN Returned(s)
                    ELSE IF Len(s.queue) < EventCapacity
                         THEN [s EXCEPT !.queue = Append(@, event.revision)] ELSE s)
    /\ UNCHANGED <<logVars, pendingLog, active, stopping>>

\* Mutant: the channel to wait on is taken after the events are emitted.
PumpEmitRetakes(c) ==
    /\ subs[c].pump = "emit" /\ subs[c].batch # <<>>
    /\ LET event == Head(subs[c].batch)
           s == [subs[c] EXCEPT !.batch = Tail(@), !.cursor = event.revision,
                                !.changed = LogOf(subs[c].stream).next]
       IN Update(c, IF ~Matches(s, event) THEN s
                    ELSE IF stopping \/ s.writer = "ended" THEN Returned(s)
                    ELSE IF Len(s.queue) < EventCapacity
                         THEN [s EXCEPT !.queue = Append(@, event.revision)]
                         ELSE Failed(s))
    /\ UNCHANGED <<logVars, pendingLog, active, stopping>>

\* The next event of the batch: emit queues it, ends with the writer or the
\* node, or closes the connection of a slow reader.
PumpEmit(c) ==
    /\ subs[c].pump = "emit" /\ subs[c].batch # <<>>
    /\ LET event == Head(subs[c].batch)
           s == [subs[c] EXCEPT !.batch = Tail(@), !.cursor = event.revision]
       IN Update(c, IF ~Matches(s, event) THEN s
                    ELSE IF stopping \/ s.writer = "ended" THEN Returned(s)
                    ELSE IF Len(s.queue) < EventCapacity
                         THEN [s EXCEPT !.queue = Append(@, event.revision)]
                         ELSE Failed(s))
    /\ UNCHANGED <<logVars, pendingLog, active, stopping>>

\* A value that cannot be shown: its block is gone, or it is too large.
PumpFail(c) ==
    /\ subs[c].pump = "emit" /\ subs[c].batch # <<>> /\ Matches(subs[c], Head(subs[c].batch))
    /\ Update(c, Failed([subs[c] EXCEPT !.cursor = Head(subs[c].batch).revision]))
    /\ UNCHANGED <<logVars, pendingLog, active, stopping>>

\* The select at the end of the loop: a change of the log since the read, the
\* end of the writer, or the node stopping.
PumpWait(c) ==
    /\ subs[c].pump = "emit" /\ subs[c].batch = <<>>
    /\ \/ subs[c].changed # LogOf(subs[c].stream).next /\ Update(c, [subs[c] EXCEPT !.pump = "read", !.head = 0])
       \/ (stopping \/ subs[c].writer = "ended") /\ Update(c, Returned(subs[c]))
    /\ UNCHANGED <<logVars, pendingLog, active, stopping>>

-----------------------------------------------------------------------------
(* The writer.                                                             *)

\* geth has written the subscription reply and cancels the request's context.
WriterActivate(c) ==
    /\ subs[c].writer = "waiting"
    /\ Update(c, [subs[c] EXCEPT !.writer = "active"])
    /\ UNCHANGED <<logVars, pendingLog, active, stopping>>

WriterNotify(c) ==
    /\ subs[c].writer = "active" /\ subs[c].open /\ subs[c].queue # <<>>
    /\ Update(c, [subs[c] EXCEPT !.queue = Tail(@), !.told = Append(@, Head(subs[c].queue))])
    /\ UNCHANGED <<logVars, pendingLog, active, stopping>>

\* Mutant: the writer does not watch the connection.
WriterEndOnStop(c) ==
    /\ subs[c].writer # "ended"
    /\ stopping
    /\ active' = active - 1
    /\ Update(c, [subs[c] EXCEPT !.writer = "ended"])
    /\ UNCHANGED <<logVars, pendingLog, stopping>>

\* The writer ends with the connection (the subscription's error, a failed
\* notification), with the node, or when the pump has closed the queue and it
\* is drained.  Its slot is released.
WriterEnd(c) ==
    /\ subs[c].writer # "ended"
    /\ \/ ~subs[c].open \/ stopping
       \/ subs[c].writer = "active" /\ subs[c].pump = "ended" /\ subs[c].queue = <<>>
    /\ active' = active - 1
    /\ Update(c, [subs[c] EXCEPT !.writer = "ended"])
    /\ UNCHANGED <<logVars, pendingLog, stopping>>

\* The client unsubscribes or its connection is lost.
Disconnect(c) ==
    /\ subs[c].open
    /\ Update(c, [subs[c] EXCEPT !.open = FALSE])
    /\ UNCHANGED <<logVars, pendingLog, active, stopping>>

Stop ==
    /\ ~stopping
    /\ stopping' = TRUE
    /\ UNCHANGED <<logVars, pendingLog, subs, active>>

\* The controller finishes its command and then sees the stop.
LogStep == ((~stopping /\ Commands) \/ Write \/ Apply \/ Fail) /\ UNCHANGED subscriptionVars

Pump(c) == PumpRead(c) \/ PumpHead(c) \/ PumpEmit(c) \/ PumpFail(c) \/ PumpWait(c)
Writer(c) == WriterActivate(c) \/ WriterNotify(c) \/ WriterEnd(c)

SubscriptionNext ==
    \/ LogStep \/ RecordPending \/ Stop
    \/ \E c \in Clients :
          \/ \E stream \in Streams : \E range \in RangesOf(stream) : Subscribe(c, stream, range)
          \/ Pump(c) \/ Writer(c) \/ Disconnect(c)

\* Both goroutines of a subscription run; clients read what is sent to them.
SubscriptionSpec ==
    /\ SubscriptionInit /\ [][SubscriptionNext]_vars
    /\ \A c \in Clients : WF_vars(Pump(c)) /\ WF_vars(Writer(c))

-----------------------------------------------------------------------------
(* Properties.                                                             *)

\* The revisions in (from, to] that a subscription is to show.
Expected(s, from, to) ==
    IF s.stream = "newPendingTransactions"
    THEN [i \in 1..(to - from) |-> from + i]
    ELSE LET shown == SelectSeq(SubSeq(history, from + 1, to), LAMBDA e : Matches(s, e))
         IN [i \in 1..Len(shown) |-> shown[i].revision]

IsPrefixOf(s, t) == Len(s) <= Len(t) /\ s = SubSeq(t, 1, Len(s))

\* Nothing is sent twice, out of order or from before the subscription.
InOrder(s, sent) ==
    /\ \A i, j \in DOMAIN sent : i < j => sent[i] < sent[j]
    /\ \A i \in DOMAIN sent :
          sent[i] \in (s.start + 1)..s.cursor /\ history[sent[i]].kind \in {"block", "removed"}

\* What a connection was sent and what is queued for it is, from the first
\* revision on, everything the stream shows, in order: a slow reader and a
\* trimmed log end the stream, they never make a hole in it.  The range of a logs
\* stream with "latest" is another one at every read: such a stream skips events
\* when the pump lags, but stays in order, and one that only ends at "latest"
\* shows every block that is still canonical.
StreamHasNoHole ==
    \A c \in Clients :
        LET s == subs[c]
            sent == s.told \o s.queue
        IN IF s.stream # "none" /\ Fixed(s.range)
           THEN /\ IsPrefixOf(sent, Expected(s, s.start, s.cursor))
                /\ s.pump # "ended" => sent = Expected(s, s.start, s.cursor)
           ELSE /\ InOrder(s, sent)
                /\ s.pump # "ended" /\ s.range.from = {} =>
                      \A i \in DOMAIN chain :
                          chain[i] \in (s.start + 1)..s.cursor => \E j \in DOMAIN sent : sent[j] = chain[i]

\* A subscription catches up with its log, and the client gets all that was
\* queued for it, whenever the log pauses (the events are bounded here), unless
\* the stream ends: no change of the log is missed between the read and the wait.
EventsArrive ==
    \A c \in Clients :
        []<>(\/ subs[c].writer = "ended"
             \/ subs[c].cursor = Current(LogOf(subs[c].stream)) /\ subs[c].queue = <<>>)

\* A closed connection, and the stop of the node, end both goroutines, and the
\* stop finds every slot released: Close does not wait forever.
GoroutinesEnd ==
    \A c \in Clients :
        LET ended == subs[c].pump = "ended" /\ subs[c].writer = "ended"
        IN []<>(IF stopping THEN ended /\ active = 0 ELSE ended \/ subs[c].open)

=============================================================================
