------------------------------- MODULE Chain -------------------------------
(***************************************************************************)
(* The block tree, the auxiliary tables and the write plans of the node,   *)
(* as pure operators: what mineExecutionBlock, applyControl, MineBranch    *)
(* and switchCanonical put into and delete from the database, what their   *)
(* apply closures do to the memory image, and what startup validates.      *)
(*                                                                         *)
(* A block is named by its contents, as a hash names it: the sequence of   *)
(* the headers from genesis (excluded) to the block.  A header keeps what  *)
(* can tell two blocks of one parent apart: the slot (its timestamp), the  *)
(* kind (mined, control, or the branch whose name is in the extra data)    *)
(* and how many queued execution requests of each type it consumed.  All   *)
(* requests of a type carry the same data, so two different requests can   *)
(* produce one block: the IDs are not part of a block's name.              *)
(*                                                                         *)
(* Auxiliary keys are pairs <<table, row>>.  Optional values are sets of   *)
(* at most one element.                                                    *)
(***************************************************************************)
EXTENDS Integers, Sequences, FiniteSets, Functions

CONSTANTS
    SlotsPerEpoch,   \* cfg.Chain.SlotsPerEpoch
    RequestTypes,    \* deposit, withdrawal, consolidation
    Capacity,        \* requests of a type that a payload, or a FIFO, may hold
    PragueSlot,      \* first slot whose blocks carry execution requests
    NativeSlots      \* slots whose blocks carry one native request per type

ASSUME SlotsPerEpochPositive == SlotsPerEpoch \in Nat \ {0}
ASSUME CapacityPositive == Capacity \in [RequestTypes -> Nat \ {0}]
ASSUME SlotAssumption == PragueSlot \in Nat /\ NativeSlots \subseteq Nat

-----------------------------------------------------------------------------
(* The block tree.                                                         *)

Genesis == <<>>

Number(b) == Len(b)
Parent(b) == SubSeq(b, 1, Len(b) - 1)
LastHeader(b) == b[Len(b)]
AtNumber(b, n) == SubSeq(b, 1, n)

\* The slot of a block's timestamp.
SlotOf(b) == IF b = Genesis THEN 0 ELSE LastHeader(b).slot

\* The chain that ends in b.
Chain(b) == {AtNumber(b, n) : n \in 0..Number(b)}

\* divergentPaths: the blocks of b's chain that are not on the other one.
PathFrom(b, other) == Chain(b) \ Chain(other)

CommonAncestor(a, b) ==
    CHOOSE c \in Chain(a) \cap Chain(b) : \A d \in Chain(a) \cap Chain(b) : Number(d) <= Number(c)

\* The hash-named trie nodes of a block's state.  Blocks of one slot share a
\* node, so a new block may find some of its nodes stored already.
NodesOf(b) == IF b = Genesis THEN {} ELSE {<<"root", b>>, <<"slot", SlotOf(b)>>}

-----------------------------------------------------------------------------
(* The memory image: the maps and the timeline of executionChain, the      *)
(* FIFO of execution requests, the checkpoints, the branches, and what a   *)
(* reader of the whole event log knows.                                    *)

LoadTable(aux, table) ==
    LET rows == {k[2] : k \in {x \in DOMAIN aux : x[1] = table}}
    IN [r \in rows |-> aux[<<table, r>>]]

\* The puts of a batch, from rows <<table, row, value>>.
Puts(rows) ==
    [k \in {<<x[1], x[2]>> : x \in rows} |-> (CHOOSE x \in rows : <<x[1], x[2]>> = k)[3]]

\* Two tables in one (of one row, the left one's), and a table with a row put.
f ++ g == [k \in DOMAIN f \cup DOMAIN g |-> IF k \in DOMAIN f THEN f[k] ELSE g[k]]
Put(table, row, value) == [r \in DOMAIN table \cup {row} |-> IF r = row THEN value ELSE table[r]]

Lookup(table, row, default) == IF row \in DOMAIN table THEN table[row] ELSE default

EmptyQueue == [next |-> 1, items |-> [t \in RequestTypes |-> <<>>]]
FreshFollower == [tip |-> {Genesis}, final |-> [block |-> Genesis, epoch |-> 0]]

\* newEventLog, loadRuntimeMetadata, loadControlMetadata and
\* loadExecutionRequestQueue.
Load(aux) ==
    [timeline    |-> aux[<<"meta", "timeline">>],
     canon       |-> LoadTable(aux, "canonical-slot"),
     slotOf      |-> LoadTable(aux, "block-slot"),
     safety      |-> LoadTable(aux, "block-safety"),
     session     |-> aux[<<"meta", "session-safety">>],
     queue       |-> Lookup(aux, <<"meta", "queue">>, EmptyQueue),
     checkpoints |-> LoadTable(aux, "checkpoint"),
     branches    |-> LoadTable(aux, "branch"),
     follower    |-> Lookup(aux, <<"meta", "events">>, FreshFollower)]

Clean == [tainted |-> FALSE, first |-> {}, reasons |-> {}]
NoRequests == [t \in RequestTypes |-> 0]

\* What the first start of a node writes: initializeFreshRuntimeMetadata, the
\* projection of genesis and its derived execution-request record.
FreshAux ==
    Puts({<<"meta", "timeline", [slot |-> 0, last |-> 0, paused |-> FALSE, frozen |-> 0]>>,
          <<"meta", "session-safety", Clean>>,
          <<"canonical-slot", 0, Genesis>>,
          <<"block-slot", Genesis, 0>>,
          <<"block-safety", Genesis, Clean>>,
          <<"projection", Genesis, [slot |-> 0, requests |-> NoRequests]>>,
          <<"record", Genesis, [native |-> NoRequests, controls |-> EmptyQueue.items]>>})

-----------------------------------------------------------------------------
(* Synthetic finality.                                                     *)

SubtractSlots(slot, lag) == IF slot <= lag THEN 0 ELSE slot - lag

\* Mutant: what geth holds canonical is not asked.
IndexedAtOrBeforeSlot(m, head, slot) ==
    LET found == {s \in 0..slot : s \in DOMAIN m.canon}
    IN IF found = {} THEN Genesis ELSE m.canon[CHOOSE s \in found : \A r \in found : r <= s]

\* blockAtOrBeforeSlot: the newest indexed block that geth holds canonical.
BlockAtOrBeforeSlot(m, head, slot) ==
    LET found == {s \in 0..slot : s \in DOMAIN m.canon /\ m.canon[s] \in Chain(head)}
    IN IF found = {} THEN Genesis ELSE m.canon[CHOOSE s \in found : \A r \in found : r <= s]

\* syntheticFinalitySlot.
FinalitySlot(m, slot) ==
    IF m.timeline.paused /\ m.timeline.frozen < slot THEN m.timeline.frozen ELSE slot

\* resolveSyntheticFinalityAt, the finalized half: the block and the epoch of
\* the finalized slot.
FinalizedAt(m, head, slot) ==
    LET finalizedSlot == SubtractSlots(slot, 2 * SlotsPerEpoch)
    IN [block |-> BlockAtOrBeforeSlot(m, head, finalizedSlot),
        epoch |-> finalizedSlot \div SlotsPerEpoch]

Finalized(m, head) == FinalizedAt(m, head, FinalitySlot(m, m.timeline.slot))

\* finalizedEventForTransition, folded into what the reader knows.
AnnounceFinality(follower, previous, next) ==
    IF previous = next THEN follower ELSE [follower EXCEPT !.final = next]

\* finalizedEventBetween.
AnnounceBetween(follower, m, head, from, to) ==
    AnnounceFinality(follower, FinalizedAt(m, head, FinalitySlot(m, from)),
                               FinalizedAt(m, head, FinalitySlot(m, to)))

\* A block event as the move it tells a reader of: a removal from the block to
\* its parent, an addition from the parent to the block.
Removed(b) == <<b, Parent(b)>>
Added(b) == <<Parent(b), b>>

\* A reader follows the events: the first must move from its tip and each from
\* where the one before it ended; otherwise it loses track of the chain.
Follow(tip, events) ==
    IF events = <<>> THEN tip
    ELSE IF tip = {events[1][1]} /\ \A i \in 2..Len(events) : events[i][1] = events[i - 1][2]
         THEN {events[Len(events)][2]}
         ELSE {}

-----------------------------------------------------------------------------
(* Block and session safety.                                               *)

\* Mutant: the newest unsafe block is recorded as the first.
SafetyOverwritten(parentSafety, b, unsafeReasons) ==
    IF ~parentSafety.tainted /\ unsafeReasons = {} THEN Clean
    ELSE [tainted |-> TRUE, first |-> {b}, reasons |-> parentSafety.reasons \cup unsafeReasons]

\* blockSafetyForChild.
SafetyForChild(parentSafety, b, unsafeReasons) ==
    IF ~parentSafety.tainted /\ unsafeReasons = {} THEN Clean
    ELSE [tainted |-> TRUE,
          first   |-> IF parentSafety.first = {} THEN {b} ELSE parentSafety.first,
          reasons |-> parentSafety.reasons \cup unsafeReasons]

\* Mutant: the session points at the newest unsafe block.
SessionOverwritten(session, safety, unsafeReasons) ==
    IF unsafeReasons = {} THEN session
    ELSE [tainted |-> TRUE, first |-> safety.first, reasons |-> session.reasons \cup unsafeReasons]

\* taintStoredSession, called only when there is an unsafe reason.
TaintSession(session, safety, unsafeReasons) ==
    IF unsafeReasons = {} THEN session
    ELSE [tainted |-> TRUE,
          first   |-> IF session.first = {} THEN safety.first ELSE session.first,
          reasons |-> session.reasons \cup unsafeReasons]

\* A block that a control changed, or that consumed queued requests.
Controlled(b) == b # Genesis /\ LastHeader(b).controls # NoRequests
Unsafe(b) == b # Genesis /\ (LastHeader(b).kind = "control" \/ Controlled(b))

-----------------------------------------------------------------------------
(* The FIFO of execution requests.  A request is its ID.                   *)

NativeRequests(slot) ==
    [t \in RequestTypes |-> IF slot >= PragueSlot /\ slot \in NativeSlots THEN 1 ELSE 0]

\* enqueue, when the FIFO of the type is not full.
Enqueue(q, t) == [next |-> q.next + 1, items |-> [q.items EXCEPT ![t] = Append(@, q.next)]]

\* prepareExecutionRequestBlock: the controls that a block of the slot takes,
\* from the front of each FIFO and up to the capacity the native requests leave.
Consumed(q, slot) ==
    [t \in RequestTypes |->
        LET room == Capacity[t] - NativeRequests(slot)[t]
        IN IF slot < PragueSlot THEN 0
           ELSE IF room < Len(q.items[t]) THEN room ELSE Len(q.items[t])]

Controls(q, slot) == [t \in RequestTypes |-> SubSeq(q.items[t], 1, Consumed(q, slot)[t])]

\* Mutant: a block is charged its capacity, native requests included.
RemainingByCapacity(q, slot) ==
    [q EXCEPT !.items = [t \in RequestTypes |->
        IF slot < PragueSlot THEN @[t] ELSE SubSeq(@[t], Capacity[t] + 1, Len(@[t]))]]

\* What prepareExecutionRequestBlock leaves in the FIFOs.
Remaining(q, slot) ==
    [q EXCEPT !.items = [t \in RequestTypes |->
        SubSeq(@[t], Consumed(q, slot)[t] + 1, Len(@[t]))]]

\* Build: the block of the given kind on top of a parent.
Build(parent, slot, kind, q) ==
    Append(parent, [slot |-> slot, kind |-> kind, controls |-> Consumed(q, slot)])

IDs(items, t) == Range(items[t])
AllIDs(items) == UNION {IDs(items, t) : t \in RequestTypes}
RecordedIDs(aux, path, t) == UNION {IDs(aux[<<"record", b>>].controls, t) : b \in path}

\* validateExecutionRequestControlSet: positive IDs, increasing within a type,
\* distinct across types.
ValidControlSet(items) ==
    /\ \A t \in RequestTypes :
          /\ items[t] \in Seq(Nat \ {0})
          /\ \A i, j \in DOMAIN items[t] : i < j => items[t][i] < items[t][j]
    /\ \A t, u \in RequestTypes : t # u => IDs(items, t) \cap IDs(items, u) = {}

\* validateExecutionRequestQueue: and all below the next one.
ValidQueue(q) ==
    /\ ValidControlSet(q.items)
    /\ q.next # 0 /\ \A id \in AllIDs(q.items) : id < q.next

\* The IDs of a set, none above last, in increasing order.
InOrder(s, ids) == Range(s) = ids /\ \A i, j \in DOMAIN s : i < j => s[i] < s[j]
Sorted(ids, last) == CHOOSE s \in UNION {[1..n -> ids] : n \in 0..last} : InOrder(s, ids)

\* Mutant: the controls of the removed path do not return.
ReconcileAddedOnly(q, aux, oldPath, newPath) ==
    [q EXCEPT !.items = [t \in RequestTypes |->
        Sorted(IDs(q.items, t) \ RecordedIDs(aux, newPath, t), q.next - 1)]]

\* reconcileExecutionRequestQueue: the controls of the removed path return,
\* those of the added path leave, and the result is sorted by ID.
Reconcile(q, aux, oldPath, newPath) ==
    [q EXCEPT !.items = [t \in RequestTypes |->
        Sorted((IDs(q.items, t) \cup RecordedIDs(aux, oldPath, t)) \ RecordedIDs(aux, newPath, t),
               q.next - 1)]]

\* It refuses an ID known under two types, one that the added path consumes
\* twice and one that it consumes although it is not available.
ReconcileAccepts(q, aux, oldPath, newPath) ==
    LET available(t) == IDs(q.items, t) \cup RecordedIDs(aux, oldPath, t)
        known(t) == available(t) \cup RecordedIDs(aux, newPath, t)
    IN /\ \A t, u \in RequestTypes : t # u => known(t) \cap known(u) = {}
       /\ \A t \in RequestTypes : RecordedIDs(aux, newPath, t) \subseteq available(t)
       /\ \A t \in RequestTypes : \A b, c \in newPath :
             b # c => RecordedIDs(aux, {b}, t) \cap RecordedIDs(aux, {c}, t) = {}
       /\ ValidControlSet(Reconcile(q, aux, oldPath, newPath).items)

-----------------------------------------------------------------------------
(* Write plans: the auxiliary puts and deletes of a command and the memory *)
(* image that its apply closure leaves.                                    *)

\* The rows every stored block gets, on the canonical chain or not.
BlockRows(b, safety, controls) ==
    {<<"block-slot", b, SlotOf(b)>>,
     <<"block-safety", b, safety>>,
     <<"projection", b,
       [slot     |-> SlotOf(b),
        requests |-> [t \in RequestTypes |-> NativeRequests(SlotOf(b))[t] + Len(controls[t])]]>>,
     <<"record", b, [native |-> NativeRequests(SlotOf(b)), controls |-> controls]>>}

\* mineExecutionBlock and applyControl, from the parent's metadata to the
\* prepared operation: they differ in the kind and in the unsafe reasons.
HeadBlockPlan(m, parent, kind) ==
    LET slot     == m.timeline.slot + 1
        b        == Build(parent, slot, kind, m.queue)
        controls == Controls(m.queue, slot)
        reasons  == (IF kind = "control" THEN {"control-state-override"} ELSE {})
                        \cup (IF Controlled(b) THEN {"execution-request-control"} ELSE {})
        safety   == SafetyForChild(Lookup(m.safety, parent, Clean), b, reasons)
        after    ==
            [timeline    |-> [m.timeline EXCEPT !.slot = slot, !.last = slot],
             canon       |-> Put(m.canon, slot, b),
             slotOf      |-> Put(m.slotOf, b, slot),
             safety      |-> Put(m.safety, b, safety),
             session     |-> TaintSession(m.session, safety, reasons),
             queue       |-> Remaining(m.queue, slot),
             checkpoints |-> m.checkpoints,
             branches    |-> m.branches,
             follower    |-> AnnounceBetween([m.follower EXCEPT !.tip = Follow(@, <<Added(b)>>)],
                                             m, parent, slot - 1, slot)]
    IN [block   |-> b,
        mem     |-> after,
        deletes |-> {},
        puts    |-> Puts(BlockRows(b, safety, controls)
                         \cup {<<"meta", "timeline", after.timeline>>,
                               <<"canonical-slot", slot, b>>,
                               <<"meta", "events", after.follower>>}
                         \cup (IF kind = "control" THEN {<<"control", b, parent>>} ELSE {})
                         \cup (IF Controlled(b) THEN {<<"meta", "queue", after.queue>>} ELSE {})
                         \cup (IF reasons # {} THEN {<<"meta", "session-safety", after.session>>} ELSE {}))]

\* MineBranch: one block on top of a branch, without controls and events.
BranchBlockPlan(m, name) ==
    LET item    == m.branches[name]
        b       == Build(item.head, SlotOf(item.head) + 1, name, EmptyQueue)
        safety  == SafetyForChild(Lookup(m.safety, item.head, Clean), b, {})
        updated == [base |-> item.base, head |-> b, tainted |-> safety.tainted]
    IN [block   |-> b,
        mem     |-> [m EXCEPT !.slotOf   = Put(m.slotOf, b, SlotOf(b)),
                              !.safety   = Put(m.safety, b, safety),
                              !.branches = Put(m.branches, name, updated)],
        deletes |-> {},
        puts    |-> Puts(BlockRows(b, safety, EmptyQueue.items) \cup {<<"branch", name, updated>>})]

\* The slots switchCanonical takes out of the canonical index.
StaleSlots(m, oldPath, targetSlot) ==
    {s \in DOMAIN m.canon : s > targetSlot \/ m.canon[s] \in oldPath}

\* The slots and blocks it puts into the canonical index.
NewEntries(m, newPath) ==
    [s \in {Lookup(m.slotOf, b, SlotOf(b)) : b \in newPath} |->
        CHOOSE b \in newPath : Lookup(m.slotOf, b, SlotOf(b)) = s]

\* Mutant: removals from the common ancestor up.
SwitchEventsUpwards(old, target) ==
    LET n == Number(CommonAncestor(old, target))
    IN [i \in 1..(Number(old) - n) |-> Removed(AtNumber(old, n + i))]
       \o [i \in 1..(Number(target) - n) |-> Added(AtNumber(target, n + i))]

\* The block events of a switch: removals from the old head down, then
\* additions from the common ancestor up.
SwitchEvents(old, target) ==
    LET n == Number(CommonAncestor(old, target))
    IN [i \in 1..(Number(old) - n) |-> Removed(AtNumber(old, Number(old) - i + 1))]
       \o [i \in 1..(Number(target) - n) |-> Added(AtNumber(target, n + i))]

\* switchCanonical to a stored block, at a slot that may lie after the block's.
SwitchPlan(m, aux, old, target, targetSlot) ==
    LET oldPath == PathFrom(old, target)
        newPath == PathFrom(target, old)
        stale   == StaleSlots(m, oldPath, targetSlot)
        entries == NewEntries(m, newPath)
        after   ==
            [m EXCEPT
                !.timeline = [m.timeline EXCEPT !.slot = targetSlot, !.last = targetSlot,
                                                !.frozen = IF m.timeline.paused /\ m.timeline.frozen > targetSlot
                                                           THEN targetSlot ELSE m.timeline.frozen],
                !.canon    = entries ++ [s \in DOMAIN m.canon \ stale |-> m.canon[s]],
                !.queue    = Reconcile(m.queue, aux, oldPath, newPath),
                !.follower = [m.follower EXCEPT !.tip = Follow(@, SwitchEvents(old, target))]]
    IN [block   |-> target,
        mem     |-> after,
        deletes |-> {<<"canonical-slot", s>> : s \in stale},
        puts    |-> Puts({<<"meta", "timeline", after.timeline>>,
                          <<"meta", "queue", after.queue>>,
                          <<"meta", "events", after.follower>>}
                         \cup {<<"canonical-slot", s, entries[s]>> : s \in DOMAIN entries})]

-----------------------------------------------------------------------------
(* What a start checks of the loaded image before it opens the node.       *)

\* validateRuntimeMetadata, the timeline.
ValidTimeline(m, head) ==
    /\ m.timeline.last = m.timeline.slot
    /\ m.timeline.frozen <= IF m.timeline.paused THEN m.timeline.slot ELSE 0
    /\ head \in DOMAIN m.slotOf /\ m.slotOf[head] <= m.timeline.slot

\* validateRuntimeMetadata: every block with a slot is stored, projected at
\* that slot and has safety metadata that the session covers.
ValidBlock(m, aux, blocks, b) ==
    /\ b \in blocks
    /\ Lookup(aux, <<"projection", b>>, [slot |-> -1]).slot = m.slotOf[b]
    /\ b \in DOMAIN m.safety
    /\ m.safety[b].tainted => m.safety[b].first # {} /\ m.safety[b].reasons \subseteq m.session.reasons

\* validateRuntimeMetadata: the canonical slot index and geth's chain agree.
ValidCanonicalIndex(m, blocks, head) ==
    /\ \A s \in DOMAIN m.canon :
          /\ m.canon[s] \in blocks \cap Chain(head)
          /\ Lookup(m.slotOf, m.canon[s], 0) = s
    /\ \A b \in Chain(head) :
          /\ b \in blocks \cap DOMAIN m.slotOf
          /\ m.slotOf[b] \in DOMAIN m.canon /\ m.canon[m.slotOf[b]] = b

\* validateRuntimeMetadata: the session's taint is that of some block.
ValidSession(m) ==
    IF m.session.tainted
    THEN \E b \in m.session.first \cap DOMAIN m.safety : m.safety[b].tainted
    ELSE \A b \in DOMAIN m.safety : ~m.safety[b].tainted

\* validateExecutionRequestMetadata.
ValidRequests(m, aux, blocks, head) ==
    LET record(b) == aux[<<"record", b>>]
        stored(t) == IDs(m.queue.items, t) \cup RecordedIDs(aux, DOMAIN m.slotOf, t)
        canonical == DOMAIN m.slotOf \cap Chain(head)
    IN /\ ValidQueue(m.queue)
       /\ \A b \in DOMAIN m.slotOf :
             /\ b \in blocks /\ <<"record", b>> \in DOMAIN aux
             /\ \A t \in RequestTypes :
                   aux[<<"projection", b>>].requests[t] = record(b).native[t] + Len(record(b).controls[t])
       /\ \A t, u \in RequestTypes : t # u => stored(t) \cap stored(u) = {}
       /\ \A t \in RequestTypes : \A id \in stored(t) : id < m.queue.next
       /\ \A b \in canonical : AllIDs(record(b).controls) \cap AllIDs(m.queue.items) = {}
       /\ \A b, c \in canonical :
             b # c => AllIDs(record(b).controls) \cap AllIDs(record(c).controls) = {}

\* validateControlMetadata.
ValidControlMetadata(m, blocks) ==
    /\ \A name \in DOMAIN m.checkpoints :
          LET point == m.checkpoints[name]
          IN /\ point.block \in blocks \cap DOMAIN m.slotOf \cap DOMAIN m.safety
             /\ m.slotOf[point.block] <= point.slot
             /\ m.safety[point.block].tainted = point.tainted
    /\ \A name \in DOMAIN m.branches :
          LET item == m.branches[name]
          IN /\ {item.base, item.head} \subseteq blocks
             /\ item.base \in Chain(item.head)
             /\ \A b \in PathFrom(item.head, item.base) :
                   /\ b \in DOMAIN m.slotOf /\ Parent(b) \in blocks
                   /\ Lookup(m.slotOf, Parent(b), 0) < m.slotOf[b]
             /\ item.head \in DOMAIN m.safety
             /\ m.safety[item.head].tainted = item.tainted

\* All the checks of newNode.
Valid(m, aux, blocks, head) ==
    /\ ValidTimeline(m, head)
    /\ \A b \in DOMAIN m.slotOf : ValidBlock(m, aux, blocks, b)
    /\ ValidCanonicalIndex(m, blocks, head)
    /\ ValidSession(m)
    /\ ValidRequests(m, aux, blocks, head)
    /\ ValidControlMetadata(m, blocks)

=============================================================================
