---------------------------- MODULE BeaconStream ----------------------------
(***************************************************************************)
(* The event stream of the Beacon API (beacon.go): a client that follows   *)
(* server-sent events and, when its connection breaks or the node          *)
(* restarts, connects again with the ID of the last message it received.   *)
(*                                                                         *)
(* An event gives several messages.  The ID of a message is eight times    *)
(* the event's revision plus the ordinal of its topic.                     *)
(***************************************************************************)
EXTENDS EventLog

CONSTANTS
    BlockOrdinals,  \* ordinals of the requested topics of a block, of 0, 1, 4, 5
    OtherOrdinals,  \* ordinal of the requested topic of another event, 2 or 3
    MaxDrops        \* bound on the connections that break

ASSUME OrdinalAssumption == BlockOrdinals \cup OtherOrdinals \subseteq 0..7

VARIABLES
    handler,   \* "none", or where the handler is: "read", "write", "wait"
    revision,  \* the handler's variables
    lastWireID,
    changed,
    batch,     \* IDs of the messages it has still to write
    wire,      \* messages written and not received
    received,  \* IDs that the client received
    start,     \* the revision at which the client joined, 0 before
    gone,      \* the client was refused: its events are no longer available
    drops

streamVars == <<handler, revision, lastWireID, changed, batch, wire, received, start, gone, drops>>
vars == <<logVars, streamVars>>

\* beaconEventMessages: the ordinals of an event's messages.
Ordinals(event) ==
    CASE event.kind = "block" -> BlockOrdinals
      [] event.kind = "removed" -> {}
      [] event.kind = "other" -> OtherOrdinals

IDsOf(event) == {event.revision * 8 + o : o \in Ordinals(event)}

\* The messages of some events, in order.
Ascending(ids) == [i \in 1..Cardinality(ids) |-> CHOOSE id \in ids : Cardinality({j \in ids : j < id}) = i - 1]

Messages(events) == Ascending(UNION {IDsOf(events[i]) : i \in DOMAIN events})

StreamInit ==
    /\ Init
    /\ handler = "none" /\ revision = 0 /\ lastWireID = 0 /\ changed = 0
    /\ batch = <<>> /\ wire = <<>> /\ received = <<>>
    /\ start = -1 /\ gone = FALSE /\ drops = 0

-----------------------------------------------------------------------------

\* A first connection, without Last-Event-ID.
Join ==
    /\ up /\ handler = "none" /\ start = -1
    /\ handler' = "read" /\ revision' = Current(log) /\ lastWireID' = Current(log) * 8 + 7
    /\ start' = Current(log)
    /\ UNCHANGED <<logVars, changed, batch, wire, received, gone, drops>>

\* Mutant: the stream resumes after the event of the last message.
RejoinAfter ==
    /\ up /\ handler = "none" /\ received # <<>> /\ ~gone
    /\ handler' = "read" /\ lastWireID' = received[Len(received)]
    /\ revision' = received[Len(received)] \div 8
    /\ UNCHANGED <<logVars, changed, batch, wire, received, start, gone, drops>>

\* A further one, with the ID of the last message: the event of that message
\* is read again.
Rejoin ==
    /\ up /\ handler = "none" /\ received # <<>> /\ ~gone
    /\ handler' = "read" /\ lastWireID' = received[Len(received)]
    /\ LET wireRevision == received[Len(received)] \div 8
       IN revision' = IF wireRevision > 0 THEN wireRevision - 1 ELSE 0
    /\ UNCHANGED <<logVars, changed, batch, wire, received, start, gone, drops>>

\* sinceAndWait.  Events that are gone end the request, the first time with
\* 410 Gone, later by closing the stream.
Read ==
    /\ handler = "read"
    /\ IF Gap(log, revision)
       THEN /\ handler' = "none" /\ gone' = TRUE
            /\ UNCHANGED <<revision, changed, batch>>
       ELSE /\ handler' = "write" /\ batch' = Messages(Since(log, revision)) /\ changed' = log.next
            /\ revision' = Current(log)
            /\ UNCHANGED gone
    /\ UNCHANGED <<logVars, lastWireID, wire, received, start, drops>>

\* writeEvents.
WriteMessage ==
    /\ handler = "write" /\ batch # <<>>
    /\ batch' = Tail(batch)
    /\ IF Head(batch) <= lastWireID
       THEN UNCHANGED <<wire, lastWireID>>
       ELSE wire' = Append(wire, Head(batch)) /\ lastWireID' = Head(batch)
    /\ UNCHANGED <<logVars, handler, revision, changed, received, start, gone, drops>>

\* Mutant: a change during the writes goes unseen.
WakeMissed ==
    /\ handler = "write" /\ batch = <<>> /\ changed # log.next
    /\ changed' = log.next
    /\ UNCHANGED <<logVars, handler, revision, lastWireID, batch, wire, received, start, gone, drops>>

\* The select of the handler: a change of the log since the read.
Wake ==
    /\ handler = "write" /\ batch = <<>> /\ changed # log.next
    /\ handler' = "read"
    /\ UNCHANGED <<logVars, revision, lastWireID, changed, batch, wire, received, start, gone, drops>>

\* The client receives a message.
Receive ==
    /\ wire # <<>>
    /\ received' = Append(received, Head(wire)) /\ wire' = Tail(wire)
    /\ UNCHANGED <<logVars, handler, revision, lastWireID, changed, batch, start, gone, drops>>

\* The connection breaks; what is on the way is lost.
Disconnected == handler' = "none" /\ batch' = <<>> /\ wire' = <<>>

Drop ==
    /\ handler # "none" /\ drops < MaxDrops
    /\ Disconnected
    /\ drops' = drops + 1
    /\ UNCHANGED <<logVars, revision, lastWireID, changed, received, start, gone>>

\* The process stops, and with it the connection.
StreamCrash ==
    /\ drops < MaxDrops
    /\ Crash
    /\ Disconnected
    /\ drops' = drops + 1
    /\ UNCHANGED <<revision, lastWireID, changed, received, start, gone>>

LogStep == (Commands \/ Write \/ Apply \/ Fail \/ Recover \/ Restart) /\ UNCHANGED streamVars

StreamNext ==
    LogStep \/ StreamCrash \/ Drop \/ Join \/ Rejoin \/ Read \/ WriteMessage \/ Wake \/ Receive

\* The handler, the network and a commit under way go on, the client connects
\* again, and a node that stopped is started again.
StreamSpec ==
    /\ StreamInit /\ [][StreamNext]_vars
    /\ WF_vars(Read \/ WriteMessage \/ Wake) /\ WF_vars(Receive) /\ WF_vars(Rejoin)
    /\ WF_vars((Write \/ Apply \/ Recover \/ Restart) /\ UNCHANGED streamVars)

-----------------------------------------------------------------------------
(* Properties.                                                             *)

\* The messages of everything stored since the client joined.
Due == Messages(SubSeq(history, start + 1, Len(history)))

\* A client that connects again with its last ID receives every message once
\* and in order, across broken connections, crashes and recoveries, even when
\* a connection breaks between two messages of one event; it is refused rather
\* than left with a hole.
ReceivedOnce ==
    start >= 0 => Len(received) <= Len(Due) /\ received = SubSeq(Due, 1, Len(received))

\* A client that has received a message catches up whenever commands pause (their
\* number is bounded here), or is told that events are gone, unless a failure
\* has left the node behind its database.
MessagesArrive == []<>(received = <<>> \/ gone \/ writeErr \/ received = Due)

=============================================================================
