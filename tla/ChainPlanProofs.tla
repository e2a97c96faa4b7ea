-------------------------- MODULE ChainPlanProofs --------------------------
(***************************************************************************)
(* What the commands of Chain keep: the rows that a plan writes are those  *)
(* that its memory image would be loaded from, and both stay sound.        *)
(***************************************************************************)
EXTENDS ChainProofs

-----------------------------------------------------------------------------
(* Memory images and databases.                                            *)

Image(m) ==
    m = [timeline |-> m.timeline, canon |-> m.canon, slotOf |-> m.slotOf, safety |-> m.safety,
         session |-> m.session, queue |-> m.queue, checkpoints |-> m.checkpoints,
         branches |-> m.branches, follower |-> m.follower]

\* One field of an image set.
IsImage(n, timeline, canon, slotOf, safety, session, queue, checkpoints, branches, follower) ==
    n = [timeline |-> timeline, canon |-> canon, slotOf |-> slotOf, safety |-> safety,
         session |-> session, queue |-> queue, checkpoints |-> checkpoints,
         branches |-> branches, follower |-> follower]

\* The fields of a memory image.
LEMMA ImageFields ==
    ASSUME NEW n, NEW a, NEW b, NEW c, NEW d, NEW e, NEW f, NEW g, NEW h, NEW i,
           IsImage(n, a, b, c, d, e, f, g, h, i)
    PROVE  /\ Image(n) /\ n.timeline = a /\ n.canon = b /\ n.slotOf = c /\ n.safety = d /\ n.session = e
           /\ n.queue = f /\ n.checkpoints = g /\ n.branches = h /\ n.follower = i
  BY DEF IsImage, Image

\* Assigning one field of a memory image changes that field alone.
LEMMA ImageSet ==
    ASSUME NEW n, NEW a, NEW b, NEW c, NEW d, NEW e, NEW f, NEW g, NEW h, NEW i,
           IsImage(n, a, b, c, d, e, f, g, h, i), NEW x
    PROVE  /\ IsImage([n EXCEPT !.timeline = x], x, b, c, d, e, f, g, h, i)
           /\ IsImage([n EXCEPT !.canon = x], a, x, c, d, e, f, g, h, i)
           /\ IsImage([n EXCEPT !.slotOf = x], a, b, x, d, e, f, g, h, i)
           /\ IsImage([n EXCEPT !.safety = x], a, b, c, x, e, f, g, h, i)
           /\ IsImage([n EXCEPT !.queue = x], a, b, c, d, e, x, g, h, i)
           /\ IsImage([n EXCEPT !.checkpoints = x], a, b, c, d, e, f, x, h, i)
           /\ IsImage([n EXCEPT !.branches = x], a, b, c, d, e, f, g, x, i)
           /\ IsImage([n EXCEPT !.follower = x], a, b, c, d, e, f, g, h, x)
<1>1. IsImage([n EXCEPT !.timeline = x], x, b, c, d, e, f, g, h, i)  BY DEF IsImage
<1>2. IsImage([n EXCEPT !.canon = x], a, x, c, d, e, f, g, h, i)  BY DEF IsImage
<1>3. IsImage([n EXCEPT !.slotOf = x], a, b, x, d, e, f, g, h, i)  BY DEF IsImage
<1>4. IsImage([n EXCEPT !.safety = x], a, b, c, x, e, f, g, h, i)  BY DEF IsImage
<1>5. IsImage([n EXCEPT !.queue = x], a, b, c, d, e, x, g, h, i)  BY DEF IsImage
<1>6. IsImage([n EXCEPT !.checkpoints = x], a, b, c, d, e, f, x, h, i)  BY DEF IsImage
<1>7. IsImage([n EXCEPT !.branches = x], a, b, c, d, e, f, g, x, i)  BY DEF IsImage
<1>8. IsImage([n EXCEPT !.follower = x], a, b, c, d, e, f, g, h, x)  BY DEF IsImage
<1> QED
  BY <1>1, <1>2, <1>3, <1>4, <1>5, <1>6, <1>7, <1>8

\* A memory image is made of its fields.
LEMMA ImageIs ==
    ASSUME NEW m, Image(m)
    PROVE  IsImage(m, m.timeline, m.canon, m.slotOf, m.safety, m.session, m.queue, m.checkpoints,
                   m.branches, m.follower)
  BY DEF Image, IsImage

\* The memory holds what a load of the database would, except that the stored
\* canonical index may lack entries.
StoredAs(m, kv) ==
    /\ Image(m)
    /\ Pairs(kv)
    /\ <<"meta", "timeline">> \in DOMAIN kv /\ m.timeline = kv[<<"meta", "timeline">>]
    /\ <<"meta", "session-safety">> \in DOMAIN kv /\ m.session = kv[<<"meta", "session-safety">>]
    /\ m.queue = Lookup(kv, <<"meta", "queue">>, EmptyQueue)
    /\ m.follower = Lookup(kv, <<"meta", "events">>, FreshFollower)
    /\ IsTable(m.slotOf, kv, "block-slot")
    /\ IsTable(m.safety, kv, "block-safety")
    /\ IsTable(m.checkpoints, kv, "checkpoint")
    /\ IsTable(m.branches, kv, "branch")
    /\ \A s : <<"canonical-slot", s>> \in DOMAIN kv =>
                 s \in DOMAIN m.canon /\ m.canon[s] = kv[<<"canonical-slot", s>>]

IsTimeline(tl) ==
    /\ tl = [slot |-> tl.slot, last |-> tl.last, paused |-> tl.paused, frozen |-> tl.frozen]
    /\ tl.slot \in Nat /\ tl.frozen \in Nat /\ tl.last = tl.slot
    /\ tl.frozen <= IF tl.paused THEN tl.slot ELSE 0

IsFollower(f) == f = [tip |-> f.tip, final |-> f.final]

\* A block with metadata: its chain has it too, and it is exact.
KnownBlock(m, b) ==
    /\ GoodBlock(b)
    /\ Chain(b) \subseteq DOMAIN m.safety
    /\ Exact(m.safety[b], b)

AllKnown(m) == \A b \in DOMAIN m.safety : KnownBlock(m, b)

\* The session is tainted iff a stored block is; it names one that is, and has
\* the reasons of them all.
SessionCovers(m) ==
    /\ m.session.tainted = (m.session.first # {})
    /\ \A b \in m.session.first : b \in DOMAIN m.safety /\ UnsafeIn(b) # {}
    /\ \A b \in DOMAIN m.safety :
          /\ ~m.session.tainted => UnsafeIn(b) = {}
          /\ m.safety[b].reasons \subseteq m.session.reasons

\* The slot index names blocks of the chain of h, at their slots.
IndexOf(canon, h) == \A s \in DOMAIN canon : SlotOf(canon[s]) = s /\ canon[s] \in Chain(h)

\* A checkpoint or a snapshot: a stored block at its slot or a later one.
GoodPoint(m, point) ==
    /\ point.block \in DOMAIN m.safety
    /\ point.slot \in Nat /\ SlotOf(point.block) <= point.slot

GoodCheckpoint(m, point) == GoodPoint(m, point) /\ point.tainted = (UnsafeIn(point.block) # {})

GoodBranch(m, item) ==
    /\ item = [base |-> item.base, head |-> item.head, tainted |-> item.tainted]
    /\ item.base \in DOMAIN m.safety /\ item.head \in DOMAIN m.safety
    /\ item.base \in Chain(item.head)
    /\ item.tainted = (UnsafeIn(item.head) # {})

\* An image of a node whose head is h.
Sound(m, h) ==
    /\ IsTimeline(m.timeline)
    /\ IsQueue(m.queue)
    /\ IsFollower(m.follower) /\ m.follower.tip = {h}
    /\ DOMAIN m.slotOf = DOMAIN m.safety
    /\ \A b \in DOMAIN m.slotOf : m.slotOf[b] = SlotOf(b)
    /\ AllKnown(m) /\ SessionCovers(m) /\ IndexOf(m.canon, h)
    /\ \A name \in DOMAIN m.checkpoints : GoodCheckpoint(m, m.checkpoints[name])
    /\ \A name \in DOMAIN m.branches : GoodBranch(m, m.branches[name])
    /\ h \in DOMAIN m.safety /\ SlotOf(h) <= m.timeline.slot

\* A block is projected at its slot, with the requests its record tells.
Projected(kv, b) ==
    LET record == kv[<<"record", b>>]
        projection == kv[<<"projection", b>>]
    IN /\ <<"projection", b>> \in DOMAIN kv
       /\ projection.slot = SlotOf(b)
       /\ \A t \in RequestTypes : projection.requests[t] = record.native[t] + Len(record.controls[t])

\* The records of the blocks of S and the FIFOs q at h are those of one ledger.
Records(S, q, kv, h) == Ledger(S, q, kv, h) /\ \A b \in S : Projected(kv, b)

Good(m, kv, h) == StoredAs(m, kv) /\ Sound(m, h) /\ Records(DOMAIN m.safety, m.queue, kv, h)

\* What no commit takes back: the blocks with metadata, the session's taint.
Grows(m, n) ==
    /\ DOMAIN m.safety \subseteq DOMAIN n.safety
    /\ m.session.tainted => n.session.tainted /\ n.session.first = m.session.first
    /\ m.session.reasons \subseteq n.session.reasons

\* The rows of a batch put what changes from the image m to the image n.
KeyFollows(rows, key, before, after) ==
    \/ after = before /\ \A v : <<"meta", key, v>> \notin rows
    \/ <<"meta", key, after>> \in rows

TableFollows(rows, table, before, after) ==
    \/ after = before /\ \A r, v : <<table, r, v>> \notin rows
    \/ \E row, value :
          /\ IsPut(after, before, row, value) /\ <<table, row, value>> \in rows
          /\ \A r, v : <<table, r, v>> \in rows => r = row

CanonFollows(rows, stale, before, after) ==
    \A s : s \notin stale =>
        /\ \A v : <<"canonical-slot", s, v>> \in rows => s \in DOMAIN after /\ v = after[s]
        /\ \/ \E v : <<"canonical-slot", s, v>> \in rows
           \/ s \in DOMAIN before => s \in DOMAIN after /\ after[s] = before[s]

Follows(rows, stale, m, n) ==
    /\ Image(n)
    /\ KeyFollows(rows, "timeline", m.timeline, n.timeline)
    /\ KeyFollows(rows, "session-safety", m.session, n.session)
    /\ KeyFollows(rows, "queue", m.queue, n.queue)
    /\ KeyFollows(rows, "events", m.follower, n.follower)
    /\ TableFollows(rows, "block-slot", m.slotOf, n.slotOf)
    /\ TableFollows(rows, "block-safety", m.safety, n.safety)
    /\ TableFollows(rows, "checkpoint", m.checkpoints, n.checkpoints)
    /\ TableFollows(rows, "branch", m.branches, n.branches)
    /\ CanonFollows(rows, stale, m.canon, n.canon)

StaleKeys(stale) == {<<"canonical-slot", s>> : s \in stale}

\* A commit without stale slots deletes nothing.
LEMMA NothingStale == StaleKeys({}) = {}
  BY DEF StaleKeys

\* If memory mirrors the store, and the rows of a commit follow the change of
\* memory, then the new memory mirrors the store after the commit.
LEMMA StoredFollows ==
    ASSUME NEW m, NEW kv, StoredAs(m, kv), NEW rows, NEW stale, NEW n, Follows(rows, stale, m, n),
           NEW kw, Written(kw, kv, rows, StaleKeys(stale))
    PROVE  StoredAs(n, kw)
<1>1. \A t, r : t # "canonical-slot" => <<t, r>> \notin StaleKeys(stale)
  BY DEF StaleKeys
<1>2. ASSUME NEW key, NEW before, NEW after, KeyFollows(rows, key, before, after), NEW default,
             before = Lookup(kv, <<"meta", key>>, default)
      PROVE  /\ after = Lookup(kw, <<"meta", key>>, default)
             /\ <<"meta", key>> \in DOMAIN kv => <<"meta", key>> \in DOMAIN kw
  <2>1. CASE <<"meta", key, after>> \in rows
    BY <1>1, <2>1, KeyPut
  <2>2. CASE after = before /\ \A v : <<"meta", key, v>> \notin rows
    BY <1>1, <1>2, <2>2, KeyKept
  <2> QED
    BY <1>2, <2>1, <2>2 DEF KeyFollows
<1>3. ASSUME NEW table, table # "canonical-slot", NEW before, NEW after,
             IsTable(before, kv, table), TableFollows(rows, table, before, after)
      PROVE  IsTable(after, kw, table)
  <2>1. \A r : <<table, r>> \notin StaleKeys(stale)
    BY <1>1, <1>3
  <2>2. CASE after = before /\ \A r, v : <<table, r, v>> \notin rows
    BY <1>3, <2>1, <2>2, TableKept
  <2>3. CASE \E row, value :
                /\ IsPut(after, before, row, value) /\ <<table, row, value>> \in rows
                /\ \A r, v : <<table, r, v>> \in rows => r = row
    BY <1>3, <2>1, <2>3, TablePut
  <2> QED
    BY <1>3, <2>2, <2>3 DEF TableFollows
<1>4. ASSUME NEW s, <<"canonical-slot", s>> \in DOMAIN kw
      PROVE  s \in DOMAIN n.canon /\ n.canon[s] = kw[<<"canonical-slot", s>>]
  <2>1. s \notin stale
    BY <1>4 DEF Written, StaleKeys
  <2>2. CASE \E v : <<"canonical-slot", s, v>> \in rows
    <3>1. PICK v : <<"canonical-slot", s, v>> \in rows
      BY <2>2
    <3>2. <<"canonical-slot", s>> \notin StaleKeys(stale)
      BY <1>4 DEF Written
    <3>3. kw[<<"canonical-slot", s>>] = v
      BY <3>1, <3>2, KeyPut
    <3> QED
      BY <2>1, <3>1, <3>3 DEF Follows, CanonFollows
  <2>3. CASE ~ \E v : <<"canonical-slot", s, v>> \in rows
    <3>1. <<"canonical-slot", s>> \in DOMAIN kv /\ kw[<<"canonical-slot", s>>] = kv[<<"canonical-slot", s>>]
      BY Zenon, <1>4, <2>3 DEF Written
    <3>2. s \in DOMAIN m.canon /\ m.canon[s] = kv[<<"canonical-slot", s>>]
      BY <3>1 DEF StoredAs
    <3> QED
      BY Zenon, <2>1, <2>3, <3>1, <3>2 DEF Follows, CanonFollows
  <2> QED
    BY <2>2, <2>3
<1>5. \A key, default : <<"meta", key>> \in DOMAIN kv => Lookup(kv, <<"meta", key>>, default) = kv[<<"meta", key>>]
  BY DEF Lookup
<1>6. \A key, default : <<"meta", key>> \in DOMAIN kw => Lookup(kw, <<"meta", key>>, default) = kw[<<"meta", key>>]
  BY DEF Lookup
<1>7. <<"meta", "timeline">> \in DOMAIN kw /\ n.timeline = kw[<<"meta", "timeline">>]
  BY <1>2, <1>5, <1>6 DEF StoredAs, Follows
<1>8. <<"meta", "session-safety">> \in DOMAIN kw /\ n.session = kw[<<"meta", "session-safety">>]
  BY <1>2, <1>5, <1>6 DEF StoredAs, Follows
<1>9. /\ n.queue = Lookup(kw, <<"meta", "queue">>, EmptyQueue)
      /\ n.follower = Lookup(kw, <<"meta", "events">>, FreshFollower)
  BY <1>2 DEF StoredAs, Follows
<1>10. /\ IsTable(n.slotOf, kw, "block-slot") /\ IsTable(n.safety, kw, "block-safety")
       /\ IsTable(n.checkpoints, kw, "checkpoint") /\ IsTable(n.branches, kw, "branch")
  BY <1>3 DEF StoredAs, Follows
<1>11. Image(n) /\ Pairs(kw)
  BY DEF Follows, Written
<1> QED
  BY <1>4, <1>7, <1>8, <1>9, <1>10, <1>11 DEF StoredAs

\* A batch whose rows follow the image stores it.
LEMMA GoodFollows ==
    ASSUME NEW m, NEW kv, StoredAs(m, kv), NEW rows, AreRows(rows), NEW stale, NEW n, Follows(rows, stale, m, n),
           NEW h, Sound(n, h), Records(DOMAIN n.safety, n.queue, Batch(kv, Puts(rows), StaleKeys(stale)), h)
    PROVE  Good(n, Batch(kv, Puts(rows), StaleKeys(stale)), h)
<1>1. Written(Batch(kv, Puts(rows), StaleKeys(stale)), kv, rows, StaleKeys(stale))
  BY BatchWritten DEF StoredAs
<1> QED
  BY <1>1, StoredFollows DEF Good

\* Every block of the ledger has its record.
LEMMA LedgerRows ==
    ASSUME NEW S, NEW q, NEW kv, NEW h, Ledger(S, q, kv, h)
    PROVE  \A b \in S : <<"record", b>> \in DOMAIN kv
  BY Zenon DEF Ledger, Booked

\* The rows of a batch that touch no record.
NoRecords(rows) == \A r, v : <<"record", r, v>> \notin rows /\ <<"projection", r, v>> \notin rows

\* Without rows for records and projections, the ledger stays.
LEMMA RecordsKept ==
    ASSUME NEW S, NEW q, NEW kv, NEW h, Records(S, q, kv, h), NEW rows, NoRecords(rows), NEW stale,
           NEW kw, Written(kw, kv, rows, StaleKeys(stale))
    PROVE  Records(S, q, kw, h)
<1>1. \A r : <<"record", r>> \notin StaleKeys(stale) /\ <<"projection", r>> \notin StaleKeys(stale)
  BY DEF StaleKeys
<1>2. \A r : /\ <<"record", r>> \in DOMAIN kw <=> <<"record", r>> \in DOMAIN kv
             /\ <<"record", r>> \in DOMAIN kw => kw[<<"record", r>>] = kv[<<"record", r>>]
  <2> TAKE r
  <2>1. (\A v : <<"record", r, v>> \notin rows) /\ <<"record", r>> \notin StaleKeys(stale)
    BY Zenon, <1>1 DEF NoRecords
  <2> QED
    BY <2>1, KeyKept
<1>3. \A r : /\ <<"projection", r>> \in DOMAIN kw <=> <<"projection", r>> \in DOMAIN kv
             /\ <<"projection", r>> \in DOMAIN kw => kw[<<"projection", r>>] = kv[<<"projection", r>>]
  <2> TAKE r
  <2>1. (\A v : <<"projection", r, v>> \notin rows) /\ <<"projection", r>> \notin StaleKeys(stale)
    BY Zenon, <1>1 DEF NoRecords
  <2> QED
    BY <2>1, KeyKept
<1>4. SameRecords(kw, kv, S)
  BY <1>2, Zenon DEF SameRecords
<1>5. Ledger(S, q, kw, h)
  BY <1>4, LedgerKept, Zenon DEF Records
<1>6. \A b \in S : Projected(kw, b)
  <2> TAKE b \in S
  <2>1. <<"record", b>> \in DOMAIN kv /\ Projected(kv, b)
    BY LedgerRows, Zenon DEF Records
  <2>2. /\ <<"projection", b>> \in DOMAIN kw /\ kw[<<"projection", b>>] = kv[<<"projection", b>>]
        /\ kw[<<"record", b>>] = kv[<<"record", b>>]
    BY <1>2, <1>3, <2>1, Zenon DEF Projected
  <2> QED
    BY <2>1, <2>2, Zenon DEF Projected
<1> QED
  BY <1>5, <1>6 DEF Records

\* A batch without records stores an image whose FIFOs fit the ledger.
LEMMA GoodWithoutRecords ==
    ASSUME NEW m, NEW kv, StoredAs(m, kv), NEW rows, AreRows(rows), NoRecords(rows), NEW stale,
           NEW n, Follows(rows, stale, m, n), NEW h, Sound(n, h), Records(DOMAIN n.safety, n.queue, kv, h)
    PROVE  Good(n, Batch(kv, Puts(rows), StaleKeys(stale)), h)
<1>1. Written(Batch(kv, Puts(rows), StaleKeys(stale)), kv, rows, StaleKeys(stale))
  BY BatchWritten DEF StoredAs
<1>2. Records(DOMAIN n.safety, n.queue, Batch(kv, Puts(rows), StaleKeys(stale)), h)
  BY <1>1, RecordsKept, Zenon
<1> QED
  BY <1>2, GoodFollows, Zenon

\* The projection and the record of a new block, as its rows have them.
ProjectionOf(b, controls) ==
    [slot     |-> SlotOf(b),
     requests |-> [t \in RequestTypes |-> NativeRequests(SlotOf(b))[t] + Len(controls[t])]]
RecordOf(b, controls) == [native |-> NativeRequests(SlotOf(b)), controls |-> controls]

\* The rows of a batch that records one block.
OneRecord(rows, b, controls) ==
    /\ <<"projection", b, ProjectionOf(b, controls)>> \in rows
    /\ <<"record", b, RecordOf(b, controls)>> \in rows
    /\ \A r, v : <<"projection", r, v>> \in rows => r = b
    /\ \A r, v : <<"record", r, v>> \in rows => r = b

Recorded(kw, kv, S, b, controls) ==
    /\ SameRecords(kw, kv, S \ {b})
    /\ <<"record", b>> \in DOMAIN kw /\ kw[<<"record", b>>].controls = controls
    /\ \A c \in S \cup {b} : Projected(kw, c)

\* A batch that records one block leaves the other records.
LEMMA RecordPut ==
    ASSUME NEW S, NEW q, NEW kv, NEW h, Records(S, q, kv, h), NEW b, NEW rows, NEW controls,
           OneRecord(rows, b, controls), NEW kw, Written(kw, kv, rows, {})
    PROVE  Recorded(kw, kv, S, b, controls)
<1>1. /\ <<"projection", b>> \in DOMAIN kw /\ kw[<<"projection", b>>] = ProjectionOf(b, controls)
      /\ <<"record", b>> \in DOMAIN kw /\ kw[<<"record", b>>] = RecordOf(b, controls)
  BY KeyPut DEF OneRecord
<1>2. \A r : r # b =>
        /\ <<"record", r>> \in DOMAIN kw <=> <<"record", r>> \in DOMAIN kv
        /\ <<"record", r>> \in DOMAIN kw => kw[<<"record", r>>] = kv[<<"record", r>>]
  BY KeyKept DEF OneRecord
<1>3. \A r : r # b =>
        /\ <<"projection", r>> \in DOMAIN kw <=> <<"projection", r>> \in DOMAIN kv
        /\ <<"projection", r>> \in DOMAIN kw => kw[<<"projection", r>>] = kv[<<"projection", r>>]
  BY KeyKept DEF OneRecord
<1>4. SameRecords(kw, kv, S \ {b})
  BY <1>2, Zenon DEF SameRecords
<1>5. \A c \in S : c # b => Projected(kw, c)
  <2> TAKE c \in S
  <2> HAVE c # b
  <2>1. <<"record", c>> \in DOMAIN kv /\ Projected(kv, c)
    BY LedgerRows, Zenon DEF Records
  <2>2. /\ <<"projection", c>> \in DOMAIN kw /\ kw[<<"projection", c>>] = kv[<<"projection", c>>]
        /\ kw[<<"record", c>>] = kv[<<"record", c>>]
    BY <1>2, <1>3, <2>1, Zenon DEF Projected
  <2> QED
    BY <2>1, <2>2, Zenon DEF Projected
<1>6. Projected(kw, b) /\ kw[<<"record", b>>].controls = controls
  BY <1>1 DEF Projected, ProjectionOf, RecordOf
<1> QED
  BY <1>1, <1>4, <1>5, <1>6, Zenon DEF Recorded

\* A child of a block with metadata gets it from blockSafetyForChild.
LEMMA KnownGrows ==
    ASSUME NEW m, AllKnown(m),
           NEW parent \in DOMAIN m.safety, NEW header, header.slot \in Nat, SlotOf(parent) < header.slot,
           NEW b, ChildOf(b, parent, header), NEW reasons, reasons # {} <=> Unsafe(b),
           NEW n, IsPut(n.safety, m.safety, b, SafetyForChild(m.safety[parent], b, reasons))
    PROVE  AllKnown(n)
<1>1. DOMAIN n.safety = DOMAIN m.safety \cup {b} /\ n.safety[b] = SafetyForChild(m.safety[parent], b, reasons)
      /\ \A c \in DOMAIN m.safety : c # b => n.safety[c] = m.safety[c]
  BY DEF IsPut
<1>2. GoodBlock(parent) /\ IsBlock(parent) /\ Exact(m.safety[parent], parent) /\ Chain(parent) \subseteq DOMAIN m.safety
  BY Zenon DEF AllKnown, KnownBlock, GoodBlock
<1>3. GoodBlock(b) /\ Chain(b) = Chain(parent) \cup {b} /\ Exact(n.safety[b], b)
  <2>1. GoodBlock(b)
    BY Zenon, <1>2, ChildGood
  <2>2. Chain(b) = Chain(parent) \cup {b}
    BY <1>2, Child
  <2>3. Exact(n.safety[b], b)
    BY <1>1, <1>2, ExactChild
  <2> QED
    BY <2>1, <2>2, <2>3
<1>4. KnownBlock(n, b)
  BY <1>1, <1>2, <1>3 DEF KnownBlock
<1>5. \A c \in DOMAIN m.safety : c # b => KnownBlock(n, c)
  BY <1>1 DEF AllKnown, KnownBlock
<1> QED
  BY <1>1, <1>4, <1>5 DEF AllKnown

\* Checkpoints and branches stay good while the stored blocks grow.
LEMMA PointsKept ==
    ASSUME NEW m, NEW n, DOMAIN m.safety \subseteq DOMAIN n.safety
    PROVE  /\ \A point : GoodPoint(m, point) => GoodPoint(n, point)
           /\ \A point : GoodCheckpoint(m, point) => GoodCheckpoint(n, point)
           /\ \A item : GoodBranch(m, item) => GoodBranch(n, item)
<1>1. \A point : GoodPoint(m, point) => GoodPoint(n, point)
  BY DEF GoodPoint
<1>2. \A item : GoodBranch(m, item) => GoodBranch(n, item)
  BY Zenon DEF GoodBranch
<1> QED
  BY <1>1, <1>2, Zenon DEF GoodCheckpoint

\* An image with the same blocks, at one of them.
SameBlocks(m, n, at) ==
    /\ n.slotOf = m.slotOf /\ n.safety = m.safety /\ n.session = m.session
    /\ IsTimeline(n.timeline) /\ IsQueue(n.queue) /\ IsFollower(n.follower) /\ n.follower.tip = {at}
    /\ at \in DOMAIN m.safety /\ SlotOf(at) <= n.timeline.slot
    /\ IndexOf(n.canon, at)
    /\ \A name \in DOMAIN n.checkpoints : GoodCheckpoint(m, n.checkpoints[name])
    /\ \A name \in DOMAIN n.branches : GoodBranch(m, n.branches[name])

\* A change that keeps the blocks, the index and the head keeps the image sound.
LEMMA SoundKept ==
    ASSUME NEW m, NEW h, Sound(m, h), NEW n, NEW at, SameBlocks(m, n, at)
    PROVE  Sound(n, at) /\ Grows(m, n)
<1> USE DEF SameBlocks
<1>1. AllKnown(n) /\ SessionCovers(n)
  BY Zenon DEF Sound, AllKnown, KnownBlock, SessionCovers
<1>2. /\ \A name \in DOMAIN n.checkpoints : GoodCheckpoint(n, n.checkpoints[name])
      /\ \A name \in DOMAIN n.branches : GoodBranch(n, n.branches[name])
  BY Zenon, PointsKept
<1> QED
  BY Zenon, <1>1, <1>2 DEF Sound, Grows

\* Moving a timeline sets its slots and keeps its finality.
LEMMA TimelineMoved ==
    ASSUME NEW tl, IsTimeline(tl), NEW slot
    PROVE  [tl EXCEPT !.slot = slot, !.last = slot] =
               [slot |-> slot, last |-> slot, paused |-> tl.paused, frozen |-> tl.frozen]
<1> DEFINE at == [tl EXCEPT !.slot = slot]
<1>1. at = [slot |-> slot, last |-> tl.last, paused |-> tl.paused, frozen |-> tl.frozen]
  BY DEF IsTimeline
<1> HIDE DEF at
<1>2. [at EXCEPT !.last = slot] = [slot |-> slot, last |-> slot, paused |-> tl.paused, frozen |-> tl.frozen]
  BY <1>1
<1> QED
  BY <1>2 DEF at

\* A timeline whose finality is paused or resumed.
LEMMA TimelineFrozen ==
    ASSUME NEW tl, IsTimeline(tl), NEW paused, NEW frozen
    PROVE  [tl EXCEPT !.paused = paused, !.frozen = frozen] =
               [slot |-> tl.slot, last |-> tl.last, paused |-> paused, frozen |-> frozen]
<1> DEFINE first == [tl EXCEPT !.paused = paused]
<1>1. first = [slot |-> tl.slot, last |-> tl.last, paused |-> paused, frozen |-> tl.frozen]
  BY DEF IsTimeline
<1> HIDE DEF first
<1>2. [first EXCEPT !.frozen = frozen] = [slot |-> tl.slot, last |-> tl.last, paused |-> paused, frozen |-> frozen]
  BY <1>1
<1>3. [tl EXCEPT !.paused = paused, !.frozen = frozen] = [first EXCEPT !.frozen = frozen]
  BY DEF first
<1> QED
  BY <1>2, <1>3, Zenon

\* The block builder's result is a child whose header holds what it consumed.
Built(b, parent, slot, kind, consumed) ==
    /\ ChildOf(b, parent, [slot |-> slot, kind |-> kind, controls |-> consumed])
    /\ Controlled(b) <=> consumed # NoRequests
    /\ Unsafe(b) <=> kind = "control" \/ Controlled(b)

LEMMA BuildIs ==
    ASSUME NEW parent, IsBlock(parent), NEW slot \in Nat, NEW kind, NEW q, IsQueue(q)
    PROVE  Built(Build(parent, slot, kind, q), parent, slot, kind, Consumed(q, slot))
<1> DEFINE header == [slot |-> slot, kind |-> kind, controls |-> Consumed(q, slot)]
           b == Build(parent, slot, kind, q)
<1>1. ChildOf(b, parent, header)
  BY DEF Build, ChildOf
<1> HIDE DEF header, b
<1>2. b # Genesis /\ LastHeader(b) = header
  BY <1>1, Child
<1>3. header.kind = kind /\ header.controls = Consumed(q, slot)
  BY DEF header
<1>4. Controlled(b) <=> Consumed(q, slot) # NoRequests
  BY <1>2, <1>3 DEF Controlled
<1>5. Unsafe(b) <=> kind = "control" \/ Controlled(b)
  BY <1>2, <1>3 DEF Unsafe
<1> QED
  BY <1>1, <1>4, <1>5 DEF header, b, Built

\* What the plan of a new head does to each part of the image, and its rows.
HeadReasons(b, kind) ==
    (IF kind = "control" THEN {"control-state-override"} ELSE {})
        \cup (IF Controlled(b) THEN {"execution-request-control"} ELSE {})

HeadRows(after, b, slot, parent, kind, controls) ==
    BlockRows(b, after.safety[b], controls)
    \cup {<<"meta", "timeline", after.timeline>>, <<"canonical-slot", slot, b>>,
          <<"meta", "events", after.follower>>}
    \cup (IF kind = "control" THEN {<<"control", b, parent>>} ELSE {})
    \cup (IF Controlled(b) THEN {<<"meta", "queue", after.queue>>} ELSE {})
    \cup (IF HeadReasons(b, kind) # {} THEN {<<"meta", "session-safety", after.session>>} ELSE {})

HeadFollower(m, parent, slot, b) ==
    AnnounceBetween([m.follower EXCEPT !.tip = Follow(@, <<Added(b)>>)], m, parent, slot - 1, slot)

HeadPlan(p, m, parent, kind) ==
    LET slot == m.timeline.slot + 1
        b == Build(parent, slot, kind, m.queue)
        safety == SafetyForChild(Lookup(m.safety, parent, Clean), b, HeadReasons(b, kind))
    IN /\ p.block = b /\ p.deletes = {}
       /\ Image(p.mem)
       /\ p.mem.timeline = [slot |-> slot, last |-> slot,
                            paused |-> m.timeline.paused, frozen |-> m.timeline.frozen]
       /\ p.mem.canon = Put(m.canon, slot, b)
       /\ p.mem.slotOf = Put(m.slotOf, b, slot)
       /\ p.mem.safety = Put(m.safety, b, safety)
       /\ p.mem.session = TaintSession(m.session, safety, HeadReasons(b, kind))
       /\ p.mem.queue = Remaining(m.queue, slot)
       /\ p.mem.checkpoints = m.checkpoints
       /\ p.mem.branches = m.branches
       /\ IsFollower(p.mem.follower)
       /\ p.mem.follower.tip = Follow(m.follower.tip, <<Added(b)>>)
       /\ p.mem.follower = HeadFollower(m, parent, slot, b)
       /\ p.puts = Puts(HeadRows(p.mem, b, slot, parent, kind, Controls(m.queue, slot)))

\* The plan of a block on the head, field by field.
LEMMA HeadPlanIs ==
    ASSUME NEW m, Image(m), IsTimeline(m.timeline), IsFollower(m.follower), NEW parent, NEW kind
    PROVE  HeadPlan(HeadBlockPlan(m, parent, kind), m, parent, kind)
<1> DEFINE p == HeadBlockPlan(m, parent, kind)
           slot == m.timeline.slot + 1
           b == Build(parent, slot, kind, m.queue)
           reasons == HeadReasons(b, kind)
           safety == SafetyForChild(Lookup(m.safety, parent, Clean), b, reasons)
           tl == [m.timeline EXCEPT !.slot = slot, !.last = slot]
           moved == [m.follower EXCEPT !.tip = Follow(@, <<Added(b)>>)]
           follower == AnnounceBetween(moved, m, parent, slot - 1, slot)
           canon == Put(m.canon, slot, b)
           slotOf == Put(m.slotOf, b, slot)
           safeties == Put(m.safety, b, safety)
           session == TaintSession(m.session, safety, reasons)
           queue == Remaining(m.queue, slot)
           after == [timeline |-> tl, canon |-> canon, slotOf |-> slotOf, safety |-> safeties,
                     session |-> session, queue |-> queue, checkpoints |-> m.checkpoints,
                     branches |-> m.branches, follower |-> follower]
           rows == BlockRows(b, safety, Controls(m.queue, slot))
                   \cup {<<"meta", "timeline", after.timeline>>, <<"canonical-slot", slot, b>>,
                         <<"meta", "events", after.follower>>}
                   \cup (IF kind = "control" THEN {<<"control", b, parent>>} ELSE {})
                   \cup (IF Controlled(b) THEN {<<"meta", "queue", after.queue>>} ELSE {})
                   \cup (IF reasons # {} THEN {<<"meta", "session-safety", after.session>>} ELSE {})
<1>1. p = [block |-> b, mem |-> after, deletes |-> {}, puts |-> Puts(rows)]
  BY Zenon DEF HeadBlockPlan, HeadReasons
<1> HIDE DEF b, reasons, safety, canon, slotOf, safeties, session, queue, p
<1>2. slot - 1 = m.timeline.slot /\ slot \in Nat
  BY DEF IsTimeline
<1> HIDE DEF slot
<1>3. tl = [slot |-> slot, last |-> slot, paused |-> m.timeline.paused, frozen |-> m.timeline.frozen]
  BY Zenon, TimelineMoved
<1>4. IsFollower(follower) /\ follower.tip = Follow(m.follower.tip, <<Added(b)>>)
  <2>1. moved = [tip |-> Follow(m.follower.tip, <<Added(b)>>), final |-> m.follower.final]
    BY DEF IsFollower
  <2> HIDE DEF moved
  <2>2. \E x : follower = moved \/ follower = [moved EXCEPT !.final = x]
    BY Zenon DEF AnnounceBetween, AnnounceFinality
  <2> HIDE DEF follower
  <2> QED
    BY <2>1, <2>2 DEF IsFollower
<1>10. follower = HeadFollower(m, parent, slot, b)
  BY Zenon DEF HeadFollower
<1> HIDE DEF tl, follower
<1>5. /\ after.timeline = tl /\ after.canon = canon /\ after.slotOf = slotOf /\ after.safety = safeties
      /\ after.session = session /\ after.queue = queue /\ after.checkpoints = m.checkpoints
      /\ after.branches = m.branches /\ after.follower = follower
  OBVIOUS
<1>6. Image(after)
  BY DEF Image
<1> HIDE DEF after
<1>7. after.safety[b] = safety
  <2>1. IsPut(safeties, m.safety, b, safety)
    BY PutIs DEF safeties
  <2> QED
    BY <1>5, <2>1 DEF IsPut
<1>8. rows = HeadRows(after, b, slot, parent, kind, Controls(m.queue, slot))
  BY <1>7, Zenon DEF HeadRows, reasons
<1> HIDE DEF rows
<1>9. /\ p.block = b /\ p.deletes = {} /\ p.mem = after
      /\ p.puts = Puts(HeadRows(after, b, slot, parent, kind, Controls(m.queue, slot)))
  BY <1>1, <1>8
<1> QED
  BY <1>3, <1>4, <1>5, <1>6, <1>9, <1>10, Zenon
     DEF HeadPlan, p, slot, b, reasons, safety, canon, slotOf, safeties, session, queue

\* The rows of a head commit follow its change of memory, and record its block once.
LEMMA HeadRowsFollow ==
    ASSUME NEW m, NEW n, Image(n), NEW b, NEW slot, SlotOf(b) = slot, NEW parent, NEW kind, NEW controls, NEW safety,
           IsPut(n.canon, m.canon, slot, b), IsPut(n.slotOf, m.slotOf, b, slot), IsPut(n.safety, m.safety, b, safety),
           HeadReasons(b, kind) = {} => n.session = m.session,
           ~Controlled(b) => n.queue = m.queue,
           n.checkpoints = m.checkpoints, n.branches = m.branches
    PROVE  LET rows == HeadRows(n, b, slot, parent, kind, controls)
           IN AreRows(rows) /\ Follows(rows, {}, m, n) /\ OneRecord(rows, b, controls)
<1> DEFINE rows == HeadRows(n, b, slot, parent, kind, controls)
           projection == ProjectionOf(b, controls)
           record == RecordOf(b, controls)
           taken == Controlled(b)
           reasons == HeadReasons(b, kind)
<1>1. n.safety[b] = safety
  BY DEF IsPut
<1>2. rows = {<<"block-slot", b, slot>>, <<"block-safety", b, safety>>,
              <<"projection", b, projection>>, <<"record", b, record>>}
             \cup {<<"meta", "timeline", n.timeline>>, <<"canonical-slot", slot, b>>, <<"meta", "events", n.follower>>}
             \cup (IF kind = "control" THEN {<<"control", b, parent>>} ELSE {})
             \cup (IF taken THEN {<<"meta", "queue", n.queue>>} ELSE {})
             \cup (IF reasons # {} THEN {<<"meta", "session-safety", n.session>>} ELSE {})
  BY <1>1, Zenon DEF HeadRows, BlockRows, ProjectionOf, RecordOf
<1> HIDE DEF rows, projection, record, taken, reasons
<1>3. AreRows(rows)
  BY <1>2 DEF AreRows
<1>4. KeyFollows(rows, "timeline", m.timeline, n.timeline) /\ KeyFollows(rows, "events", m.follower, n.follower)
  BY <1>2 DEF KeyFollows
<1>5. KeyFollows(rows, "session-safety", m.session, n.session)
  BY <1>2 DEF KeyFollows, reasons
<1>6. KeyFollows(rows, "queue", m.queue, n.queue)
  BY <1>2 DEF KeyFollows, taken
<1>7. <<"block-slot", b, slot>> \in rows /\ \A r, v : <<"block-slot", r, v>> \in rows => r = b
  BY <1>2
<1>8. <<"block-safety", b, safety>> \in rows /\ \A r, v : <<"block-safety", r, v>> \in rows => r = b
  BY <1>2
<1>9. TableFollows(rows, "block-slot", m.slotOf, n.slotOf) /\ TableFollows(rows, "block-safety", m.safety, n.safety)
  BY <1>7, <1>8, Zenon DEF TableFollows
<1>10. TableFollows(rows, "checkpoint", m.checkpoints, n.checkpoints) /\ TableFollows(rows, "branch", m.branches, n.branches)
  BY <1>2 DEF TableFollows
<1>11. \A r, v : <<"canonical-slot", r, v>> \in rows <=> r = slot /\ v = b
  BY <1>2
<1>12. CanonFollows(rows, {}, m.canon, n.canon)
  BY Zenon, <1>11 DEF CanonFollows, IsPut
<1>13. Follows(rows, {}, m, n)
  BY Zenon, <1>4, <1>5, <1>6, <1>9, <1>10, <1>12 DEF Follows
<1>14. /\ <<"projection", b, projection>> \in rows /\ <<"record", b, record>> \in rows
       /\ \A r, v : <<"projection", r, v>> \in rows => r = b
       /\ \A r, v : <<"record", r, v>> \in rows => r = b
  BY <1>2
<1>15. OneRecord(rows, b, controls)
  BY <1>14, Zenon DEF OneRecord, projection, record
<1> QED
  BY <1>3, <1>13, <1>15, Zenon DEF rows

\* The image n of a new head b, from the image m of its parent.
HeadStep(m, h, slot, header, b, reasons, safety, n) ==
    /\ slot \in Nat /\ m.timeline.slot < slot
    /\ header.slot = slot /\ ChildOf(b, h, header) /\ (reasons # {} <=> Unsafe(b))
    /\ safety = SafetyForChild(m.safety[h], b, reasons)
    /\ n.timeline = [slot |-> slot, last |-> slot, paused |-> m.timeline.paused, frozen |-> m.timeline.frozen]
    /\ IsPut(n.canon, m.canon, slot, b) /\ IsPut(n.slotOf, m.slotOf, b, slot) /\ IsPut(n.safety, m.safety, b, safety)
    /\ n.session = TaintSession(m.session, safety, reasons) /\ IsQueue(n.queue)
    /\ n.checkpoints = m.checkpoints /\ n.branches = m.branches
    /\ IsFollower(n.follower) /\ n.follower.tip = Follow(m.follower.tip, <<Added(b)>>)

\* Memory with a new block on the head is sound for that block.
LEMMA HeadSound ==
    ASSUME NEW m, NEW h, Sound(m, h), NEW slot, NEW header, NEW b, NEW reasons, NEW safety, NEW n,
           HeadStep(m, h, slot, header, b, reasons, safety, n)
    PROVE  /\ Sound(n, b) /\ Grows(m, n)
           /\ SlotOf(b) = slot
<1>1. /\ IsTimeline(m.timeline) /\ m.follower.tip = {h}
      /\ h \in DOMAIN m.safety /\ KnownBlock(m, h) /\ SlotOf(h) <= m.timeline.slot
      /\ DOMAIN m.slotOf = DOMAIN m.safety
      /\ \A c \in DOMAIN m.slotOf : m.slotOf[c] = SlotOf(c)
      /\ AllKnown(m) /\ SessionCovers(m) /\ IndexOf(m.canon, h)
      /\ \A name \in DOMAIN m.checkpoints : GoodCheckpoint(m, m.checkpoints[name])
      /\ \A name \in DOMAIN m.branches : GoodBranch(m, m.branches[name])
  BY ZenonT(30) DEF Sound, AllKnown
<1> HIDE <1>1
<1> USE DEF HeadStep
<1>2. GoodBlock(h) /\ IsBlock(h) /\ Exact(m.safety[h], h) /\ SlotOf(h) \in Nat /\ SlotOf(h) < header.slot
  BY SMTT(30), <1>1, SlotOfGood DEF KnownBlock, GoodBlock, IsTimeline
<1>3. /\ SlotOf(b) = slot /\ Parent(b) = h /\ Chain(b) = Chain(h) \cup {b}
      /\ Exact(safety, b) /\ (reasons # {} => safety.first # {})
  BY <1>2, Child, ChildGood, ExactChild
<1>4. AllKnown(n)
  BY Zenon, <1>1, <1>2, KnownGrows
<1>5. /\ IsTimeline(n.timeline) /\ SlotOf(b) <= n.timeline.slot
      /\ n.follower.tip = {b}
  <2>1. IsTimeline(n.timeline) /\ SlotOf(b) <= n.timeline.slot
    BY <1>1, <1>3 DEF IsTimeline
  <2>2. n.follower.tip = Follow({h}, <<Added(b)>>)
    BY Zenon, <1>1
  <2> QED
    BY Zenon, <1>3, <2>1, <2>2, ChildFollowed
<1>6. /\ DOMAIN n.safety = DOMAIN m.safety \cup {b} /\ DOMAIN m.safety \subseteq DOMAIN n.safety
      /\ n.safety[b] = safety /\ \A c \in DOMAIN m.safety : c # b => n.safety[c] = m.safety[c]
      /\ DOMAIN n.slotOf = DOMAIN n.safety
      /\ \A c \in DOMAIN n.slotOf : n.slotOf[c] = SlotOf(c)
      /\ IndexOf(n.canon, b)
  <2>1. \A s \in DOMAIN n.canon : (s = slot /\ n.canon[s] = b)
                                 \/ (s \in DOMAIN m.canon /\ n.canon[s] = m.canon[s])
    BY DEF IsPut
  <2>2. IndexOf(n.canon, b)
    BY <1>1, <1>3, <2>1, Zenon DEF IndexOf
  <2> QED
    BY <1>1, <1>3, <2>2 DEF IsPut
<1>7. /\ \A name \in DOMAIN n.checkpoints : GoodCheckpoint(n, n.checkpoints[name])
      /\ \A name \in DOMAIN n.branches : GoodBranch(n, n.branches[name])
  BY ZenonT(30), <1>1, <1>6, PointsKept
<1>8. SessionCovers(n) /\ Grows(m, n)
  <2>1. /\ m.safety[h].tainted = (UnsafeIn(h) # {}) /\ m.safety[h].reasons \subseteq m.session.reasons
        /\ ~m.session.tainted => UnsafeIn(h) = {}
    BY <1>1, <1>2, ZenonT(30) DEF SessionCovers, Exact
  <2>2. /\ UnsafeIn(b) = UnsafeIn(h) \cup (IF Unsafe(b) THEN {b} ELSE {})
        /\ \A c \in UnsafeIn(b) : c \in DOMAIN n.safety /\ UnsafeIn(c) # {}
    <3>1. UnsafeIn(b) = UnsafeIn(h) \cup (IF Unsafe(b) THEN {b} ELSE {})
      BY <1>3 DEF UnsafeIn
    <3>2. GoodBlock(b) /\ Chain(b) \subseteq DOMAIN n.safety
      BY <1>4, <1>6, ZenonT(30) DEF AllKnown, KnownBlock
    <3>3. \A c \in Chain(b) : c \in Chain(c)
      BY Zenon, <3>2, InChain, BlockFacts DEF GoodBlock
    <3>4. \A c \in UnsafeIn(b) : c \in Chain(b) /\ Unsafe(c)
      BY DEF UnsafeIn
    <3>5. \A c \in UnsafeIn(b) : c \in UnsafeIn(c)
      BY Zenon, <3>3, <3>4 DEF UnsafeIn
    <3> QED
      BY Zenon, <3>1, <3>2, <3>4, <3>5
  <2>3. safety.reasons \subseteq m.session.reasons \cup reasons
    <3>1. safety = Clean \/ safety.reasons = m.safety[h].reasons \cup reasons
      BY DEF SafetyForChild
    <3> QED
      BY SMTT(30), <2>1, <3>1 DEF Clean
  <2>4. CASE reasons = {}
    <3>1. n.session = m.session /\ UnsafeIn(b) = UnsafeIn(h)
      BY SMTT(30), <2>2, <2>4 DEF TaintSession
    <3>2. \A c \in DOMAIN n.safety : /\ ~m.session.tainted => UnsafeIn(c) = {}
                                    /\ n.safety[c].reasons \subseteq m.session.reasons
      BY Zenon, <1>1, <1>6, <2>1, <2>3, <2>4, <3>1 DEF SessionCovers
    <3>3. SessionCovers(n)
      BY <1>1, <1>6, <3>1, <3>2, ZenonT(30) DEF SessionCovers
    <3> QED
      BY <1>6, <3>1, <3>3, ZenonT(30) DEF Grows
  <2>5. CASE reasons # {}
    <3>1. /\ n.session.tainted = TRUE /\ n.session.reasons = m.session.reasons \cup reasons
          /\ n.session.first = IF m.session.first = {} THEN safety.first ELSE m.session.first
      BY <2>5 DEF TaintSession
    <3>2. safety.first # {} /\ safety.first \subseteq UnsafeIn(b)
      BY SMTT(30), <1>3, <2>5 DEF Exact
    <3>3. n.session.first # {} /\ \A c \in n.session.first : c \in DOMAIN n.safety /\ UnsafeIn(c) # {}
      BY ZenonT(30), <1>1, <1>6, <2>2, <3>1, <3>2 DEF SessionCovers
    <3>4. \A c \in DOMAIN n.safety : n.safety[c].reasons \subseteq n.session.reasons
      BY Zenon, <1>1, <1>6, <2>3, <3>1 DEF SessionCovers
    <3>5. SessionCovers(n)
      BY <3>1, <3>3, <3>4, ZenonT(30) DEF SessionCovers
    <3>6. m.session.tainted => m.session.first # {}
      BY Zenon, <1>1 DEF SessionCovers
    <3> QED
      BY ZenonT(30), <1>6, <3>1, <3>5, <3>6 DEF Grows
  <2> QED
    BY <2>4, <2>5
<1>9. Sound(n, b)
  BY Zenon, <1>4, <1>5, <1>6, <1>7, <1>8 DEF Sound, HeadStep
<1> QED
  BY <1>3, <1>8, <1>9

\* A plan leads to a good image, with at most its block's metadata added.
Plans(p, m, kv, h) ==
    /\ Good(p.mem, Batch(kv, p.puts, p.deletes), h)
    /\ Grows(m, p.mem) /\ DOMAIN p.mem.safety \subseteq DOMAIN m.safety \cup {p.block}

\* mineExecutionBlock and applyControl: the image their apply closure leaves is
\* the one the batch stores, and it is sound for the new head.
LEMMA HeadPlanGood ==
    ASSUME NEW m, NEW kv, NEW h, Good(m, kv, h), NEW kind, NEW p, p = HeadBlockPlan(m, h, kind)
    PROVE  Plans(p, m, kv, p.block)
<1> DEFINE n == p.mem
           slot == m.timeline.slot + 1
           header == [slot |-> slot, kind |-> kind, controls |-> Consumed(m.queue, slot)]
           b == Build(h, slot, kind, m.queue)
           reasons == HeadReasons(b, kind)
           safety == SafetyForChild(m.safety[h], b, reasons)
           controls == Controls(m.queue, slot)
           rows == HeadRows(n, b, slot, h, kind, controls)
<1>1. /\ Image(m) /\ IsTimeline(m.timeline) /\ IsFollower(m.follower) /\ IsQueue(m.queue)
      /\ h \in DOMAIN m.safety /\ IsBlock(h) /\ StoredAs(m, kv) /\ Sound(m, h)
      /\ SafetyForChild(Lookup(m.safety, h, Clean), b, reasons) = safety
  BY Zenon DEF Good, StoredAs, Sound, AllKnown, KnownBlock, GoodBlock, Lookup
<1>2. HeadPlan(p, m, h, kind)
  BY Zenon, <1>1, HeadPlanIs
<1>3. slot \in Nat /\ m.timeline.slot < slot /\ header.slot = slot
  BY SMTT(30), <1>1 DEF IsTimeline
<1>4. /\ ChildOf(b, h, header)
      /\ Controlled(b) <=> Consumed(m.queue, slot) # NoRequests
      /\ reasons # {} <=> Unsafe(b)
      /\ IsQueue(Remaining(m.queue, slot))
      /\ ~Controlled(b) => Remaining(m.queue, slot) = m.queue
  <2>1. Built(b, h, slot, kind, Consumed(m.queue, slot))
    BY Zenon, <1>1, <1>3, BuildIs
  <2>2. /\ ChildOf(b, h, header)
        /\ Controlled(b) <=> Consumed(m.queue, slot) # NoRequests
        /\ Unsafe(b) <=> kind = "control" \/ Controlled(b)
    BY Zenon, <2>1 DEF Built
  <2> QED
    BY Zenon, <1>1, <1>3, <2>2, RemainingIs DEF HeadReasons
<1>5. /\ p.block = b /\ p.deletes = {} /\ Image(n) /\ p.puts = Puts(rows)
      /\ n.timeline = [slot |-> slot, last |-> slot, paused |-> m.timeline.paused, frozen |-> m.timeline.frozen]
      /\ n.canon = Put(m.canon, slot, b) /\ n.slotOf = Put(m.slotOf, b, slot) /\ n.safety = Put(m.safety, b, safety)
      /\ n.session = TaintSession(m.session, safety, reasons)
      /\ n.queue = Remaining(m.queue, slot)
      /\ n.checkpoints = m.checkpoints /\ n.branches = m.branches
      /\ IsFollower(n.follower) /\ n.follower.tip = Follow(m.follower.tip, <<Added(b)>>)
  BY Zenon, <1>1, <1>2 DEF HeadPlan
<1> HIDE DEF n, slot, header, b, reasons, safety, controls, rows
<1>6. IsPut(n.canon, m.canon, slot, b) /\ IsPut(n.slotOf, m.slotOf, b, slot) /\ IsPut(n.safety, m.safety, b, safety)
  BY Zenon, <1>5, PutIs
<1>7. Sound(n, b) /\ Grows(m, n) /\ SlotOf(b) = slot
  <2>1. HeadStep(m, h, slot, header, b, reasons, safety, n)
    BY Zenon, <1>3, <1>4, <1>5, <1>6 DEF HeadStep, safety
  <2> QED
    BY Zenon, <1>1, <2>1, HeadSound
<1>8. /\ HeadReasons(b, kind) = {} => n.session = m.session
      /\ ~Controlled(b) => n.queue = m.queue
      /\ Image(n) /\ SlotOf(b) = slot /\ n.checkpoints = m.checkpoints /\ n.branches = m.branches
  BY Zenon, <1>4, <1>5, <1>7 DEF TaintSession, reasons
<1>9. AreRows(rows) /\ Follows(rows, {}, m, n) /\ OneRecord(rows, b, controls)
  BY Zenon, <1>6, <1>8, HeadRowsFollow DEF rows
<1>10. Records(DOMAIN n.safety, n.queue, Batch(kv, Puts(rows), {}), b)
  <2> DEFINE S == DOMAIN m.safety
             kw == Batch(kv, Puts(rows), {})
  <2>1. Records(S, m.queue, kv, h) /\ Ledger(S, m.queue, kv, h) /\ Closed(S)
    BY Zenon, <1>1 DEF Good, Records, Sound, AllKnown, KnownBlock, GoodBlock, Closed
  <2>2. Written(kw, kv, rows, {})
    BY <1>1, <1>9, BatchWritten, Zenon DEF StoredAs
  <2> HIDE DEF kw
  <2>3. /\ SameRecords(kw, kv, S \ {b}) /\ <<"record", b>> \in DOMAIN kw
        /\ kw[<<"record", b>>].controls = controls /\ \A c \in S \cup {b} : Projected(kw, c)
    <3>1. Recorded(kw, kv, S, b, controls)
      BY <1>9, <2>1, <2>2, RecordPut, Zenon
    <3> QED
      BY <3>1, Zenon DEF Recorded
  <2>4. header.controls = Consumed(m.queue, slot)
    BY DEF header
  <2>5. Ledger(S \cup {b}, Remaining(m.queue, slot), kw, b)
    BY <1>1, <1>3, <1>4, <2>1, <2>3, <2>4, LedgerHead, Zenon DEF controls
  <2>6. DOMAIN n.safety = S \cup {b}
    BY <1>6 DEF IsPut
  <2> QED
    BY <1>5, <2>3, <2>5, <2>6, Zenon DEF Records, kw
<1>11. Good(n, Batch(kv, Puts(rows), {}), b)
  BY Zenon, <1>1, <1>7, <1>9, <1>10, GoodFollows, NothingStale
<1>12. DOMAIN n.safety \subseteq DOMAIN m.safety \cup {b}
  BY <1>6 DEF IsPut
<1> QED
  BY Zenon, <1>5, <1>7, <1>11, <1>12 DEF n, Plans

\* A finalized checkpoint that changes with an image, for a head that is new
\* to it, is announced.
Announced(m, n, h) ==
    h \notin DOMAIN m.slotOf /\ Finalized(m, h) # Finalized(n, h) => n.follower.final = Finalized(n, h)

\* mineExecutionBlock and applyControl announce the checkpoint as resolved on
\* the parent, which is the one of the new block.
LEMMA HeadAnnounced ==
    ASSUME NEW m, NEW kv, NEW h, Good(m, kv, h), NEW kind, NEW p, p = HeadBlockPlan(m, h, kind)
    PROVE  Announced(m, p.mem, p.block)
<1> DEFINE n == p.mem
           slot == m.timeline.slot + 1
           header == [slot |-> slot, kind |-> kind, controls |-> Consumed(m.queue, slot)]
           b == Build(h, slot, kind, m.queue)
           At(s) == SubtractSlots(FinalitySlot(m, s), 2 * SlotsPerEpoch)
           Point(s) == FinalizedAt(m, h, FinalitySlot(m, s))
<1>1. /\ Image(m) /\ IsTimeline(m.timeline) /\ IsFollower(m.follower) /\ IsQueue(m.queue)
      /\ GoodBlock(h) /\ IsBlock(h) /\ IndexOf(m.canon, h)
  BY Zenon DEF Good, StoredAs, Sound, AllKnown, KnownBlock, GoodBlock
<1>2. HeadPlan(p, m, h, kind)
  BY <1>1, HeadPlanIs
<1>3. /\ p.block = b /\ n.canon = Put(m.canon, slot, b)
      /\ n.timeline = [slot |-> slot, last |-> slot, paused |-> m.timeline.paused, frozen |-> m.timeline.frozen]
      /\ n.follower = HeadFollower(m, h, slot, b)
  BY <1>2, ZenonT(30) DEF HeadPlan
<1>4. slot \in Nat /\ slot > 0 /\ slot - 1 = m.timeline.slot /\ m.timeline.slot \in Nat /\ m.timeline.frozen \in Nat
  BY <1>1 DEF IsTimeline
<1>5. Chain(b) = Chain(h) \cup {b}
  <2>1. ChildOf(b, h, header)
    BY Zenon, <1>1, <1>4, BuildIs DEF Built
  <2> HIDE DEF b, header, slot
  <2> QED
    BY Zenon, <1>1, <2>1, Child
<1> HIDE DEF b, slot, n
<1>6. Point(m.timeline.slot) # Point(slot) => n.follower.final = Point(slot)
  <2> DEFINE moved == [m.follower EXCEPT !.tip = Follow(@, <<Added(b)>>)]
  <2>1. moved = [tip |-> Follow(m.follower.tip, <<Added(b)>>), final |-> m.follower.final]
    BY <1>1 DEF IsFollower
  <2>2. n.follower = AnnounceFinality(moved, Point(m.timeline.slot), Point(slot))
    BY <1>3, <1>4, Zenon DEF HeadFollower, AnnounceBetween
  <2> HIDE DEF moved, Point
  <2> QED
    BY <2>1, <2>2 DEF AnnounceFinality
<1>7. Indexed(m) /\ \A s \in DOMAIN m.canon : m.canon[s] \in Chain(h)
  BY <1>1 DEF Indexed, IndexOf
<1>8. ASSUME NEW s \in Nat
      PROVE  At(s) \in Nat /\ (s > 0 => At(s) < s)
  BY <1>4, FinalityLags
<1>9. Finalized(m, b) = Point(m.timeline.slot)
  <2> DEFINE at == At(m.timeline.slot)
  <2>1. at \in Nat
    BY <1>4, <1>8
  <2>2. Found(m, b, at) = Found(m, h, at)
    BY <1>5, <1>7 DEF Found
  <2>3. BlockAtOrBeforeSlot(m, b, at) = BlockAtOrBeforeSlot(m, h, at)
    <3> HIDE DEF at
    <3> QED
      BY <1>1, <1>7, <2>1, <2>2, SameFound
  <2> QED
    BY <2>3, Zenon DEF Finalized, FinalizedAt
<1>10. Finalized(n, b) = Point(slot)
  <2> DEFINE at == At(slot)
  <2>1. at \in Nat /\ at < slot
    BY <1>4, <1>8
  <2>2. n.timeline.slot = slot /\ n.timeline.paused = m.timeline.paused /\ n.timeline.frozen = m.timeline.frozen
    BY <1>3
  <2>3. FinalitySlot(n, n.timeline.slot) = FinalitySlot(m, slot)
    BY <2>2, Zenon DEF FinalitySlot
  <2>4. BlockAtOrBeforeSlot(n, b, at) = BlockAtOrBeforeSlot(m, h, at)
    <3> HIDE DEF at
    <3>1. IsPut(n.canon, m.canon, slot, b)
      BY <1>3, PutIs, Zenon
    <3>2. \A s \in 0..at : s # slot
      BY <1>4, <2>1
    <3>3. /\ Found(n, b, at) = Found(m, h, at)
          /\ \A s \in Found(m, h, at) : n.canon[s] = m.canon[s]
      BY Zenon, <1>5, <1>7, <3>1, <3>2 DEF Found, IsPut
    <3> QED
      BY <1>1, <1>7, <2>1, <3>3, SameFound
  <2> QED
    BY <2>3, <2>4, Zenon DEF Finalized, FinalizedAt
<1> QED
  BY <1>3, <1>6, <1>9, <1>10, Zenon DEF Announced, n

-----------------------------------------------------------------------------
(* MineBranch.                                                             *)

\* The rows of a branch block follow its change of memory, and record its block once.
LEMMA BranchRowsFollow ==
    ASSUME NEW m, NEW n, Image(n), NEW b, NEW safety, NEW name, NEW item, NEW controls,
           IsPut(n.slotOf, m.slotOf, b, SlotOf(b)), IsPut(n.safety, m.safety, b, safety),
           IsPut(n.branches, m.branches, name, item),
           n.timeline = m.timeline, n.canon = m.canon, n.session = m.session, n.queue = m.queue,
           n.checkpoints = m.checkpoints, n.follower = m.follower
    PROVE  LET rows == BlockRows(b, safety, controls) \cup {<<"branch", name, item>>}
           IN AreRows(rows) /\ Follows(rows, {}, m, n) /\ OneRecord(rows, b, controls)
<1> DEFINE rows == BlockRows(b, safety, controls) \cup {<<"branch", name, item>>}
           slot == SlotOf(b)
           projection == ProjectionOf(b, controls)
           record == RecordOf(b, controls)
<1>1. rows = {<<"block-slot", b, slot>>, <<"block-safety", b, safety>>,
              <<"projection", b, projection>>, <<"record", b, record>>} \cup {<<"branch", name, item>>}
  BY Zenon DEF BlockRows, ProjectionOf, RecordOf
<1> HIDE DEF rows, slot, projection, record
<1>2. AreRows(rows)
  BY <1>1 DEF AreRows
<1>3. /\ <<"block-slot", b, slot>> \in rows /\ \A r, v : <<"block-slot", r, v>> \in rows => r = b
      /\ <<"block-safety", b, safety>> \in rows /\ \A r, v : <<"block-safety", r, v>> \in rows => r = b
      /\ <<"branch", name, item>> \in rows /\ \A r, v : <<"branch", r, v>> \in rows => r = name
  BY <1>1
<1>4. /\ \A key, v : <<"meta", key, v>> \notin rows
      /\ \A r, v : <<"checkpoint", r, v>> \notin rows
      /\ \A r, v : <<"canonical-slot", r, v>> \notin rows
  BY <1>1
<1>5. /\ TableFollows(rows, "block-slot", m.slotOf, n.slotOf)
      /\ TableFollows(rows, "block-safety", m.safety, n.safety)
      /\ TableFollows(rows, "branch", m.branches, n.branches)
  BY <1>3, ZenonT(30) DEF TableFollows, slot
<1>6. Follows(rows, {}, m, n)
  BY Zenon, <1>4, <1>5 DEF Follows, KeyFollows, TableFollows, CanonFollows
<1>7. /\ <<"projection", b, projection>> \in rows /\ <<"record", b, record>> \in rows
      /\ \A r, v : <<"projection", r, v>> \in rows => r = b
      /\ \A r, v : <<"record", r, v>> \in rows => r = b
  BY <1>1
<1>8. OneRecord(rows, b, controls)
  BY <1>7, Zenon DEF OneRecord, projection, record
<1> QED
  BY <1>2, <1>6, <1>8, Zenon DEF rows

\* MineBranch: a stored block on the branch, the head as it was.
LEMMA BranchPlanGood ==
    ASSUME NEW m, NEW kv, NEW h, Good(m, kv, h), NEW name \in DOMAIN m.branches, name # "control",
           NEW p, p = BranchBlockPlan(m, name)
    PROVE  Plans(p, m, kv, h) /\ p.mem.timeline = m.timeline /\ p.mem.queue = m.queue
<1> DEFINE n == p.mem
           item == m.branches[name]
           parent == item.head
           slot == SlotOf(parent) + 1
           header == [slot |-> slot, kind |-> name, controls |-> Consumed(EmptyQueue, slot)]
           b == Build(parent, slot, name, EmptyQueue)
           controls == EmptyQueue.items
           safety == SafetyForChild(Lookup(m.safety, parent, Clean), b, {})
           updated == [base |-> item.base, head |-> b, tainted |-> safety.tainted]
           rows == BlockRows(b, safety, controls) \cup {<<"branch", name, updated>>}
           slotOf == Put(m.slotOf, b, SlotOf(b))
           safeties == Put(m.safety, b, safety)
           branches == Put(m.branches, name, updated)
<1>1. p = [block |-> b, mem |-> [m EXCEPT !.slotOf = slotOf, !.safety = safeties, !.branches = branches],
           deletes |-> {}, puts |-> Puts(rows)]
  BY ZenonT(30) DEF BranchBlockPlan
<1>2. Image(m) /\ GoodBranch(m, item) /\ StoredAs(m, kv) /\ Sound(m, h)
  BY ZenonT(30) DEF Good, StoredAs, Sound
<1>3. parent \in DOMAIN m.safety /\ item.base \in DOMAIN m.safety
  BY ZenonT(30), <1>2 DEF GoodBranch
<1>4. KnownBlock(m, parent) /\ GoodBlock(parent) /\ IsBlock(parent)
  BY ZenonT(30), <1>2, <1>3 DEF Sound, AllKnown, KnownBlock, GoodBlock
<1>5. SlotOf(parent) \in Nat /\ slot \in Nat /\ SlotOf(parent) < slot /\ header.slot = slot
  BY SMTT(30), <1>4, SlotOfGood
<1>6. ChildOf(b, parent, header) /\ ~Unsafe(b) /\ header.controls = NoRequests
  <2> HIDE DEF item, parent, slot
  <2>1. Consumed(EmptyQueue, slot) = NoRequests /\ IsQueue(EmptyQueue)
    BY SMTT(30), <1>5, EmptyQueueIs
  <2>2. /\ ChildOf(b, parent, header)
        /\ Controlled(b) <=> Consumed(EmptyQueue, slot) # NoRequests
        /\ Unsafe(b) <=> name = "control" \/ Controlled(b)
    <3>1. Built(b, parent, slot, name, Consumed(EmptyQueue, slot))
      BY Zenon, <1>4, <1>5, <2>1, BuildIs
    <3> QED
      BY Zenon, <3>1 DEF Built
  <2> QED
    BY Zenon, <2>1, <2>2
<1>7. safety = SafetyForChild(m.safety[parent], b, {})
  BY <1>3 DEF Lookup
<1> HIDE DEF item, slot, header, b, controls, safety, updated, rows, slotOf, safeties, branches
<1>8. /\ p.block = b /\ p.deletes = {} /\ p.puts = Puts(rows)
      /\ n = [m EXCEPT !.slotOf = slotOf, !.safety = safeties, !.branches = branches]
  BY <1>1
<1>9. IsImage(n, m.timeline, m.canon, slotOf, safeties, m.session, m.queue, m.checkpoints, branches, m.follower)
  <2> DEFINE m1 == [m EXCEPT !.slotOf = slotOf]
             m2 == [m1 EXCEPT !.safety = safeties]
  <2>1. IsImage(m1, m.timeline, m.canon, slotOf, m.safety, m.session, m.queue, m.checkpoints, m.branches, m.follower)
    BY Zenon, <1>2, ImageIs, ImageSet
  <2> HIDE DEF m1
  <2>2. IsImage(m2, m.timeline, m.canon, slotOf, safeties, m.session, m.queue, m.checkpoints, m.branches, m.follower)
    BY Zenon, <2>1, ImageSet
  <2> HIDE DEF m2
  <2>3. IsImage([m2 EXCEPT !.branches = branches],
                m.timeline, m.canon, slotOf, safeties, m.session, m.queue, m.checkpoints, branches, m.follower)
    BY Zenon, <2>2, ImageSet
  <2>4. n = [m2 EXCEPT !.branches = branches]
    BY Zenon, <1>8 DEF m1, m2
  <2> QED
    BY <2>3, <2>4
<1> HIDE DEF n
<1>10. /\ Image(n) /\ n.timeline = m.timeline /\ n.canon = m.canon /\ n.slotOf = slotOf /\ n.safety = safeties
       /\ n.session = m.session /\ n.queue = m.queue /\ n.checkpoints = m.checkpoints /\ n.branches = branches
       /\ n.follower = m.follower
  BY <1>9, ImageFields
<1>11. /\ IsPut(n.slotOf, m.slotOf, b, SlotOf(b)) /\ IsPut(n.safety, m.safety, b, safety)
       /\ IsPut(n.branches, m.branches, name, updated)
  BY <1>10, PutIs DEF slotOf, safeties, branches
<1>12. AreRows(rows) /\ Follows(rows, {}, m, n) /\ OneRecord(rows, b, controls)
  BY Zenon, <1>10, <1>11, BranchRowsFollow DEF rows
<1>13. AllKnown(n)
  <2>1. IsPut(n.safety, m.safety, b, SafetyForChild(m.safety[parent], b, {}))
    BY <1>7, <1>11
  <2>2. {} # {} <=> Unsafe(b)
    BY Zenon, <1>6
  <2> QED
    BY Zenon, <1>2, <1>3, <1>5, <1>6, <2>1, <2>2, KnownGrows DEF Sound
<1>14. DOMAIN n.safety = DOMAIN m.safety \cup {b} /\ DOMAIN m.safety \subseteq DOMAIN n.safety
  BY <1>11 DEF IsPut
<1>15. Sound(n, h)
  <2>1. DOMAIN n.slotOf = DOMAIN n.safety /\ \A c \in DOMAIN n.slotOf : n.slotOf[c] = SlotOf(c)
    BY <1>2, <1>11, <1>14 DEF IsPut, Sound
  <2>2. \A c \in DOMAIN n.checkpoints : GoodCheckpoint(n, n.checkpoints[c])
    BY <1>2, <1>10, <1>14, PointsKept, ZenonT(30) DEF Sound
  <2>3. /\ Chain(b) = Chain(parent) \cup {b} /\ Exact(safety, b)
        /\ safety.tainted = (UnsafeIn(b) # {}) /\ UnsafeIn(b) = UnsafeIn(parent)
    <3>1. Chain(b) = Chain(parent) \cup {b}
      BY <1>4, <1>6, Child, Zenon
    <3>2. Exact(safety, b)
      BY <1>13, <1>11, <1>14, Zenon DEF AllKnown, KnownBlock, IsPut
    <3>3. UnsafeIn(b) = UnsafeIn(parent)
      BY <1>6, <3>1 DEF UnsafeIn
    <3>4. safety.tainted = (UnsafeIn(b) # {})
      BY Zenon, <3>2 DEF Exact
    <3> QED
      BY Zenon, <3>1, <3>2, <3>3, <3>4
  <2>4. GoodBranch(n, updated)
    <3>1. item.base \in Chain(parent)
      BY Zenon, <1>2 DEF GoodBranch
    <3>2. /\ updated.base = item.base /\ updated.head = b /\ updated.tainted = safety.tainted
          /\ updated = [base |-> updated.base, head |-> updated.head, tainted |-> updated.tainted]
      BY Zenon DEF updated
    <3> QED
      BY Zenon, <1>3, <1>14, <2>3, <3>1, <3>2 DEF GoodBranch
  <2>5. \A c \in DOMAIN n.branches : GoodBranch(n, n.branches[c])
    <3>1. \A c \in DOMAIN m.branches : GoodBranch(n, m.branches[c])
      BY <1>2, <1>14, PointsKept, Zenon DEF Sound
    <3> QED
      BY Zenon, <1>11, <2>4, <3>1 DEF IsPut
  <2>6. SessionCovers(n)
    <3>1. SessionCovers(m) /\ Exact(m.safety[parent], parent)
      BY <1>2, <1>4, ZenonT(30) DEF Sound, KnownBlock
    <3>2. /\ ~m.session.tainted => UnsafeIn(b) = {}
          /\ safety.reasons \subseteq m.session.reasons
      <4>1. safety = Clean \/ safety.reasons = m.safety[parent].reasons \cup {}
        BY Zenon, <1>7 DEF SafetyForChild
      <4> QED
        BY SMTT(30), <1>3, <2>3, <3>1, <4>1 DEF SessionCovers, Clean
    <3>3. \A c \in DOMAIN n.safety : (c = b /\ n.safety[c] = safety)
                                       \/ (c \in DOMAIN m.safety /\ n.safety[c] = m.safety[c])
      BY SMTT(30), <1>11 DEF IsPut
    <3> QED
      BY Zenon, <1>10, <1>14, <3>1, <3>2, <3>3 DEF SessionCovers
  <2> QED
    BY Zenon, <1>2, <1>10, <1>13, <1>14, <2>1, <2>2, <2>5, <2>6 DEF Sound
<1>16. Good(n, Batch(kv, Puts(rows), {}), h)
  <2> DEFINE S == DOMAIN m.safety
             kw == Batch(kv, Puts(rows), {})
  <2>1. Records(S, m.queue, kv, h) /\ Ledger(S, m.queue, kv, h) /\ Closed(S) /\ h \in S
    BY Zenon, <1>2 DEF Good, Records, Sound, AllKnown, KnownBlock, GoodBlock, Closed
  <2>2. Written(kw, kv, rows, {})
    BY <1>2, <1>12, BatchWritten, Zenon DEF StoredAs
  <2> HIDE DEF kw
  <2>3. /\ SameRecords(kw, kv, S \ {b}) /\ <<"record", b>> \in DOMAIN kw
        /\ kw[<<"record", b>>].controls = controls /\ \A c \in S \cup {b} : Projected(kw, c)
    <3>1. Recorded(kw, kv, S, b, controls)
      BY <1>12, <2>1, <2>2, RecordPut, Zenon
    <3> QED
      BY <3>1, Zenon DEF Recorded
  <2>4. Ledger(S \cup {b}, m.queue, kw, h)
    BY <1>3, <1>6, <2>1, <2>3, LedgerBranch, Zenon DEF controls
  <2>5. Records(DOMAIN n.safety, n.queue, kw, h)
    BY <1>10, <1>14, <2>3, <2>4, Zenon DEF Records
  <2> QED
    BY Zenon, <1>2, <1>12, <1>15, <2>5, GoodFollows, NothingStale DEF kw
<1>17. Grows(m, n)
  BY Zenon, <1>10, <1>14 DEF Grows
<1> QED
  BY Zenon, <1>8, <1>10, <1>14, <1>16, <1>17 DEF n, Plans

-----------------------------------------------------------------------------
(* switchCanonical.                                                        *)

\* The index after a switch: its entries and rows are those of the new path,
\* the slots that stay are not stale.
Switched(canon, m, old, target, slot, stale, entries, rows) ==
    /\ stale = StaleSlots(m, PathFrom(old, target), slot)
    /\ entries = NewEntries(m, PathFrom(target, old))
    /\ canon = entries ++ [s \in DOMAIN m.canon \ stale |-> m.canon[s]]
    /\ \A s, v : <<"canonical-slot", s, v>> \in rows <=> s \in DOMAIN entries /\ v = entries[s]

\* Dropping the stale slots and writing the target's entries leaves the
\* canonical index of the target, in memory and in the rows alike.
LEMMA SwitchIndex ==
    ASSUME NEW m, NEW old, Sound(m, old), NEW target, NEW slot, NEW stale, NEW entries, NEW canon, NEW rows,
           Switched(canon, m, old, target, slot, stale, entries, rows)
    PROVE  /\ IndexOf(canon, target)
           /\ CanonFollows(rows, stale, m.canon, canon)
<1> USE DEF Switched
<1>1. \A b : Lookup(m.slotOf, b, SlotOf(b)) = SlotOf(b)
  BY DEF Lookup, Sound
<1> DEFINE newPath == PathFrom(target, old)
<1>2. \A s \in DOMAIN entries : SlotOf(entries[s]) = s /\ entries[s] \in newPath
  <2> TAKE s \in DOMAIN entries
  <2>1. \E b \in newPath : Lookup(m.slotOf, b, SlotOf(b)) = s
    BY Zenon DEF NewEntries
  <2>2. entries[s] = CHOOSE b \in newPath : Lookup(m.slotOf, b, SlotOf(b)) = s
    BY Zenon DEF NewEntries
  <2> QED
    BY Zenon, <1>1, <2>1, <2>2
<1>3. /\ \A s : s \in DOMAIN canon <=> (s \in DOMAIN entries \/ (s \in DOMAIN m.canon /\ s \notin stale))
      /\ \A s \in DOMAIN entries : canon[s] = entries[s]
      /\ \A s \in DOMAIN canon : s \notin DOMAIN entries => canon[s] = m.canon[s]
  BY DEF ++
<1>4. \A s \in DOMAIN m.canon : SlotOf(m.canon[s]) = s /\ (s \notin stale => m.canon[s] \in Chain(target))
  <2>1. \A s \in DOMAIN m.canon : SlotOf(m.canon[s]) = s /\ m.canon[s] \in Chain(old)
    BY Zenon DEF Sound, IndexOf
  <2>2. \A s \in DOMAIN m.canon : s \notin stale => m.canon[s] \notin PathFrom(old, target)
    BY Zenon DEF StaleSlots
  <2> QED
    BY <2>1, <2>2, Zenon DEF PathFrom
<1> HIDE DEF Switched
<1>5. IndexOf(canon, target)
  <2>1. \A s \in DOMAIN canon : SlotOf(canon[s]) = s /\ canon[s] \in Chain(target)
    BY <1>2, <1>3, <1>4 DEF PathFrom
  <2> QED
    BY <2>1, Zenon DEF IndexOf
<1>6. CanonFollows(rows, stale, m.canon, canon)
  BY Zenon, <1>3 DEF CanonFollows, Switched
<1> QED
  BY Zenon, <1>5, <1>6

\* The head moves to a block with metadata, at its slot or a later one.
LEMMA SwitchPlanGood ==
    ASSUME NEW m, NEW kv, NEW old, Good(m, kv, old), NEW target \in DOMAIN m.safety,
           NEW slot \in Nat, SlotOf(target) <= slot,
           NEW p, p = SwitchPlan(m, kv, old, target, slot)
    PROVE  Plans(p, m, kv, target) /\ p.mem.safety = m.safety
<1> DEFINE n == p.mem
           oldPath == PathFrom(old, target)
           newPath == PathFrom(target, old)
           stale == StaleSlots(m, oldPath, slot)
           entries == NewEntries(m, newPath)
           frozen == IF m.timeline.paused /\ m.timeline.frozen > slot THEN slot ELSE m.timeline.frozen
           timeline == [m.timeline EXCEPT !.slot = slot, !.last = slot, !.frozen = frozen]
           canon == entries ++ [s \in DOMAIN m.canon \ stale |-> m.canon[s]]
           queue == Reconcile(m.queue, kv, oldPath, newPath)
           follower == [m.follower EXCEPT !.tip = Follow(@, SwitchEvents(old, target))]
           after == [m EXCEPT !.timeline = timeline, !.canon = canon, !.queue = queue, !.follower = follower]
           rows == {<<"meta", "timeline", after.timeline>>, <<"meta", "queue", after.queue>>,
                    <<"meta", "events", after.follower>>}
                   \cup {<<"canonical-slot", s, entries[s]>> : s \in DOMAIN entries}
<1>1. p = [block |-> target, mem |-> after, deletes |-> StaleKeys(stale), puts |-> Puts(rows)]
  BY Zenon DEF SwitchPlan, StaleKeys
<1>2. /\ StoredAs(m, kv) /\ Image(m) /\ Sound(m, old) /\ IsTimeline(m.timeline) /\ IsQueue(m.queue)
      /\ IsFollower(m.follower) /\ m.follower.tip = {old} /\ GoodBlock(old) /\ GoodBlock(target)
      /\ IsBlock(old) /\ IsBlock(target)
  BY Zenon DEF Good, StoredAs, Sound, AllKnown, KnownBlock, GoodBlock
<1>3. IsTimeline(timeline) /\ timeline.slot = slot
  <2> DEFINE at == [m.timeline EXCEPT !.slot = slot, !.last = slot]
  <2>1. at = [slot |-> slot, last |-> slot, paused |-> m.timeline.paused, frozen |-> m.timeline.frozen]
    BY Zenon, <1>2, TimelineMoved
  <2>2. timeline = [at EXCEPT !.frozen = frozen]
    BY Zenon
  <2>3. frozen \in Nat /\ frozen <= IF m.timeline.paused THEN slot ELSE 0
    BY <1>2 DEF IsTimeline
  <2> HIDE DEF at, timeline, frozen
  <2> QED
    BY <2>1, <2>2, <2>3 DEF IsTimeline
<1>4. IsQueue(queue) /\ Records(DOMAIN m.safety, queue, kv, target)
  <2>1. /\ Closed(DOMAIN m.safety) /\ old \in DOMAIN m.safety
        /\ Ledger(DOMAIN m.safety, m.queue, kv, old) /\ \A b \in DOMAIN m.safety : Projected(kv, b)
    BY Zenon DEF Good, Records, Sound, AllKnown, KnownBlock, GoodBlock, Closed
  <2>2. IsQueue(queue) /\ Ledger(DOMAIN m.safety, queue, kv, target)
    BY Zenon, <1>2, <2>1, LedgerSwitch
  <2> QED
    BY Zenon, <2>1, <2>2 DEF Records
<1>5. IsFollower(follower) /\ follower.tip = {target}
  <2> DEFINE tip == Follow({old}, SwitchEvents(old, target))
  <2>1. tip = {target}
    BY Zenon, <1>2, GoodMeet, SwitchFollowed
  <2>2. follower = [m.follower EXCEPT !.tip = tip]
    BY <1>2
  <2> HIDE DEF tip, follower
  <2> QED
    BY <1>2, <2>1, <2>2 DEF IsFollower
<1> HIDE DEF frozen, timeline, queue, follower, oldPath, newPath, stale, entries, canon
<1>6. IsImage(after, timeline, canon, m.slotOf, m.safety, m.session, queue, m.checkpoints, m.branches, follower)
  <2> DEFINE m1 == [m EXCEPT !.timeline = timeline]
             m2 == [m1 EXCEPT !.canon = canon]
             m3 == [m2 EXCEPT !.queue = queue]
  <2>1. IsImage(m1, timeline, m.canon, m.slotOf, m.safety, m.session, m.queue, m.checkpoints, m.branches, m.follower)
    BY Zenon, <1>2, ImageIs, ImageSet
  <2>2. after = [m3 EXCEPT !.follower = follower]
    OBVIOUS
  <2> HIDE DEF m1, after
  <2>3. IsImage(m2, timeline, canon, m.slotOf, m.safety, m.session, m.queue, m.checkpoints, m.branches, m.follower)
    BY Zenon, <2>1, ImageSet
  <2> HIDE DEF m2
  <2>4. IsImage(m3, timeline, canon, m.slotOf, m.safety, m.session, queue, m.checkpoints, m.branches, m.follower)
    BY ZenonT(30), <2>3, ImageSet
  <2> HIDE DEF m3
  <2> QED
    BY Zenon, <2>2, <2>4, ImageSet
<1> HIDE DEF after
<1>7. /\ Image(after) /\ after.timeline = timeline /\ after.canon = canon /\ after.slotOf = m.slotOf
      /\ after.safety = m.safety /\ after.session = m.session /\ after.queue = queue
      /\ after.checkpoints = m.checkpoints /\ after.branches = m.branches /\ after.follower = follower
  BY <1>6, ImageFields
<1>8. AreRows(rows) /\ \A s, v : <<"canonical-slot", s, v>> \in rows <=> s \in DOMAIN entries /\ v = entries[s]
  BY DEF AreRows
<1>9. /\ KeyFollows(rows, "timeline", m.timeline, after.timeline) /\ KeyFollows(rows, "session-safety", m.session, after.session)
      /\ KeyFollows(rows, "queue", m.queue, after.queue) /\ KeyFollows(rows, "events", m.follower, after.follower)
  BY Zenon, <1>7 DEF KeyFollows
<1>10. /\ \A table \in {"block-slot", "block-safety", "checkpoint", "branch"} : \A r, v : <<table, r, v>> \notin rows
       /\ NoRecords(rows)
  BY DEF NoRecords
<1> HIDE DEF rows
<1>11. IndexOf(canon, target) /\ CanonFollows(rows, stale, m.canon, canon)
  <2>1. Switched(canon, m, old, target, slot, stale, entries, rows)
    BY Zenon, <1>8 DEF Switched, stale, entries, canon, oldPath, newPath
  <2> QED
    BY Zenon, <1>2, <2>1, SwitchIndex
<1>12. Follows(rows, stale, m, after)
  BY Zenon, <1>7, <1>9, <1>10, <1>11 DEF Follows, TableFollows
<1>13. Sound(after, target) /\ Grows(m, after)
  <2>1. SameBlocks(m, after, target)
    BY Zenon, <1>2, <1>3, <1>4, <1>5, <1>7, <1>11 DEF Sound, SameBlocks
  <2> QED
    BY Zenon, <1>2, <2>1, SoundKept
<1>14. Good(after, Batch(kv, Puts(rows), StaleKeys(stale)), target)
  <2>1. Records(DOMAIN after.safety, after.queue, kv, target)
    BY Zenon, <1>4, <1>7
  <2> QED
    BY Zenon, <1>2, <1>8, <1>10, <1>12, <1>13, <2>1, GoodWithoutRecords
<1> QED
  BY <1>1, <1>7, <1>13, <1>14 DEF Plans

-----------------------------------------------------------------------------
(* The commands of commitAuxiliary.                                        *)

\* The timeline, the FIFOs or the event log change, and nothing else.
LEMMA MetaGood ==
    ASSUME NEW m, NEW kv, NEW h, Good(m, kv, h),
           NEW n, NEW timeline, NEW queue, NEW follower,
           IsImage(n, timeline, m.canon, m.slotOf, m.safety, m.session, queue, m.checkpoints, m.branches, follower),
           IsTimeline(timeline), SlotOf(h) <= timeline.slot,
           IsQueue(queue), Ledger(DOMAIN m.safety, queue, kv, h),
           IsFollower(follower), follower.tip = m.follower.tip,
           NEW rows, rows \subseteq {<<"meta", "timeline", timeline>>, <<"meta", "queue", queue>>,
                                     <<"meta", "events", follower>>},
           timeline = m.timeline \/ <<"meta", "timeline", timeline>> \in rows,
           queue = m.queue \/ <<"meta", "queue", queue>> \in rows,
           follower = m.follower \/ <<"meta", "events", follower>> \in rows
    PROVE  Good(n, Batch(kv, Puts(rows), {}), h) /\ Grows(m, n)
<1>1. /\ Image(n) /\ n.timeline = timeline /\ n.canon = m.canon /\ n.slotOf = m.slotOf
      /\ n.safety = m.safety /\ n.session = m.session /\ n.queue = queue
      /\ n.checkpoints = m.checkpoints /\ n.branches = m.branches /\ n.follower = follower
  BY SMTT(30), ImageFields
<1>2. AreRows(rows) /\ \A t, r, v : <<t, r, v>> \in rows => t = "meta" /\ r # "session-safety"
  BY DEF AreRows
<1>3. /\ KeyFollows(rows, "timeline", m.timeline, timeline) /\ KeyFollows(rows, "queue", m.queue, queue)
      /\ KeyFollows(rows, "events", m.follower, follower)
  BY DEF KeyFollows
<1>4. Follows(rows, {}, m, n)
  BY Zenon, <1>1, <1>2, <1>3 DEF Follows, KeyFollows, TableFollows, CanonFollows
<1>5. Sound(n, h) /\ Grows(m, n)
  <2>1. SameBlocks(m, n, h)
    BY ZenonT(30), <1>1 DEF Good, Sound, SameBlocks
  <2> QED
    BY Zenon, <2>1, SoundKept DEF Good
<1>6. NoRecords(rows)
  BY <1>2 DEF NoRecords
<1>7. Records(DOMAIN n.safety, n.queue, kv, h)
  BY Zenon, <1>1 DEF Good, Records
<1> QED
  BY Zenon, <1>2, <1>4, <1>5, <1>6, <1>7, GoodWithoutRecords, NothingStale DEF Good

\* A checkpoint or a branch is put, and nothing else.
LEMMA PointGood ==
    ASSUME NEW m, NEW kv, NEW h, Good(m, kv, h), NEW name, NEW value
    PROVE  /\ GoodCheckpoint(m, value) =>
                LET n == [m EXCEPT !.checkpoints = Put(@, name, value)]
                IN Good(n, Batch(kv, Puts({<<"checkpoint", name, value>>}), {}), h) /\ Grows(m, n)
           /\ GoodBranch(m, value) =>
                LET n == [m EXCEPT !.branches = Put(@, name, value)]
                IN Good(n, Batch(kv, Puts({<<"branch", name, value>>}), {}), h) /\ Grows(m, n)
<1> DEFINE rows(table) == {<<table, name, value>>}
<1>1. /\ AreRows(rows("checkpoint")) /\ AreRows(rows("branch"))
      /\ NoRecords(rows("checkpoint")) /\ NoRecords(rows("branch"))
  BY DEF AreRows, NoRecords
<1>2. /\ StoredAs(m, kv) /\ Sound(m, h) /\ Records(DOMAIN m.safety, m.queue, kv, h)
      /\ IsImage(m, m.timeline, m.canon, m.slotOf, m.safety, m.session, m.queue, m.checkpoints, m.branches, m.follower)
  BY Zenon, ImageIs DEF Good, StoredAs
<1>3. ASSUME GoodCheckpoint(m, value), NEW n, n = [m EXCEPT !.checkpoints = Put(@, name, value)]
      PROVE  Good(n, Batch(kv, Puts(rows("checkpoint")), {}), h) /\ Grows(m, n)
  <2>1. IsImage(n, m.timeline, m.canon, m.slotOf, m.safety, m.session, m.queue,
                Put(m.checkpoints, name, value), m.branches, m.follower)
    BY ZenonT(30), <1>2, <1>3, ImageSet
  <2>2. /\ Image(n) /\ n.timeline = m.timeline /\ n.canon = m.canon /\ n.slotOf = m.slotOf
        /\ n.safety = m.safety /\ n.session = m.session /\ n.queue = m.queue
        /\ n.checkpoints = Put(m.checkpoints, name, value) /\ n.branches = m.branches /\ n.follower = m.follower
    BY <2>1, ImageFields
  <2>5. IsPut(n.checkpoints, m.checkpoints, name, value)
    BY <2>2, PutIs, ZenonT(30)
  <2> HIDE <1>3, <2>1
  <2>3. Follows(rows("checkpoint"), {}, m, n)
    BY Zenon, <2>2, <2>5 DEF Follows, KeyFollows, TableFollows, CanonFollows
  <2>4. Sound(n, h) /\ Grows(m, n)
    <3>1. SameBlocks(m, n, h)
      BY Zenon, <1>2, <1>3, <2>2, <2>5 DEF Sound, IsPut, SameBlocks
    <3> QED
      BY Zenon, <1>2, <3>1, SoundKept
  <2> QED
    BY Zenon, <1>1, <1>2, <2>2, <2>3, <2>4, GoodWithoutRecords, NothingStale
<1>4. ASSUME GoodBranch(m, value), NEW n, n = [m EXCEPT !.branches = Put(@, name, value)]
      PROVE  Good(n, Batch(kv, Puts(rows("branch")), {}), h) /\ Grows(m, n)
  <2>1. IsImage(n, m.timeline, m.canon, m.slotOf, m.safety, m.session, m.queue,
                m.checkpoints, Put(m.branches, name, value), m.follower)
    BY ZenonT(30), <1>2, <1>4, ImageSet
  <2>2. /\ Image(n) /\ n.timeline = m.timeline /\ n.canon = m.canon /\ n.slotOf = m.slotOf
        /\ n.safety = m.safety /\ n.session = m.session /\ n.queue = m.queue
        /\ n.checkpoints = m.checkpoints /\ n.branches = Put(m.branches, name, value) /\ n.follower = m.follower
    BY <2>1, ImageFields
  <2>5. IsPut(n.branches, m.branches, name, value)
    BY <2>2, PutIs, ZenonT(30)
  <2>3. Follows(rows("branch"), {}, m, n)
    BY Zenon, <2>2, <2>5 DEF Follows, KeyFollows, TableFollows, CanonFollows
  <2>4. Sound(n, h) /\ Grows(m, n)
    <3>1. SameBlocks(m, n, h)
      BY Zenon, <1>2, <1>4, <2>2, <2>5 DEF Sound, IsPut, SameBlocks
    <3> QED
      BY Zenon, <1>2, <3>1, SoundKept
  <2> QED
    BY Zenon, <1>1, <1>2, <2>2, <2>3, <2>4, GoodWithoutRecords, NothingStale
<1> QED
  BY Zenon, <1>3, <1>4

-----------------------------------------------------------------------------
(* Starts.                                                                 *)

\* newNode loads the image that was stored, but for lost index entries.
LEMMA LoadGood ==
    ASSUME NEW m, NEW kv, NEW h, Good(m, kv, h)
    PROVE  LET n == Load(kv)
           IN /\ Good(n, kv, h)
              /\ n.timeline = m.timeline /\ n.slotOf = m.slotOf /\ n.safety = m.safety
              /\ n.session = m.session /\ n.queue = m.queue
              /\ n.checkpoints = m.checkpoints /\ n.branches = m.branches /\ n.follower = m.follower
              /\ \A s \in DOMAIN n.canon : s \in DOMAIN m.canon /\ n.canon[s] = m.canon[s]
<1> DEFINE n == Load(kv)
           canon == LoadTable(kv, "canonical-slot")
<1>1. StoredAs(m, kv) /\ Sound(m, h) /\ Pairs(kv) /\ Records(DOMAIN m.safety, m.queue, kv, h)
  BY Zenon DEF Good, StoredAs
<1>2. /\ LoadTable(kv, "block-slot") = m.slotOf /\ LoadTable(kv, "block-safety") = m.safety
      /\ LoadTable(kv, "checkpoint") = m.checkpoints /\ LoadTable(kv, "branch") = m.branches
  BY <1>1, TableIs, TableUnique DEF StoredAs
<1>3. IsTable(canon, kv, "canonical-slot")
  BY <1>1, TableIs
<1>4. IsImage(n, m.timeline, canon, m.slotOf, m.safety, m.session, m.queue, m.checkpoints, m.branches, m.follower)
  BY ZenonT(30), <1>1, <1>2 DEF Load, IsImage, StoredAs
<1> HIDE DEF n, canon
<1>5. /\ Image(n) /\ n.timeline = m.timeline /\ n.canon = canon /\ n.slotOf = m.slotOf
      /\ n.safety = m.safety /\ n.session = m.session /\ n.queue = m.queue
      /\ n.checkpoints = m.checkpoints /\ n.branches = m.branches /\ n.follower = m.follower
  BY <1>4, ImageFields
<1>6. \A s \in DOMAIN canon : s \in DOMAIN m.canon /\ canon[s] = m.canon[s]
  <2>1. \A s \in DOMAIN canon : <<"canonical-slot", s>> \in DOMAIN kv /\ canon[s] = kv[<<"canonical-slot", s>>]
    BY Zenon, <1>3 DEF IsTable
  <2> QED
    BY Zenon, <1>1, <2>1 DEF StoredAs
<1>8. Sound(n, h)
  <2>1. SameBlocks(m, n, h)
    BY ZenonT(30), <1>1, <1>5, <1>6 DEF Sound, SameBlocks, IndexOf
  <2> QED
    BY Zenon, <1>1, <2>1, SoundKept
<1>9. StoredAs(n, kv)
  BY <1>1, <1>3, <1>5 DEF StoredAs, IsTable
<1> QED
  BY Zenon, <1>1, <1>5, <1>6, <1>8, <1>9 DEF Good, n

\* What the first start writes is the image of a node at genesis.
LEMMA FreshGood == Good(Load(FreshAux), FreshAux, Genesis) /\ DOMAIN Load(FreshAux).safety = {Genesis}
<1> DEFINE timeline == [slot |-> 0, last |-> 0, paused |-> FALSE, frozen |-> 0]
           projection == [slot |-> 0, requests |-> NoRequests]
           record == [native |-> NoRequests, controls |-> EmptyQueue.items]
           rows == {<<"meta", "timeline", timeline>>, <<"meta", "session-safety", Clean>>,
                    <<"canonical-slot", 0, Genesis>>, <<"block-slot", Genesis, 0>>,
                    <<"block-safety", Genesis, Clean>>, <<"projection", Genesis, projection>>,
                    <<"record", Genesis, record>>}
           kv == FreshAux
           n == Load(kv)
           canon == LoadTable(kv, "canonical-slot")
           slotOf == LoadTable(kv, "block-slot")
           safety == LoadTable(kv, "block-safety")
           checkpoints == LoadTable(kv, "checkpoint")
           branches == LoadTable(kv, "branch")
<1>1. kv = Puts(rows)
  BY Zenon DEF FreshAux
<1>2. IsTimeline(timeline) /\ timeline.slot = 0
  BY DEF IsTimeline
<1> HIDE DEF kv, timeline, projection, record
<1>3. AreRows(rows)
  BY DEF AreRows
<1>4. ArePuts(kv, rows)
  BY Zenon, <1>1, <1>3, PutsAre
<1>5. /\ Pairs(kv)
      /\ <<"meta", "timeline">> \in DOMAIN kv /\ kv[<<"meta", "timeline">>] = timeline
      /\ <<"meta", "session-safety">> \in DOMAIN kv /\ kv[<<"meta", "session-safety">>] = Clean
      /\ <<"meta", "queue">> \notin DOMAIN kv /\ <<"meta", "events">> \notin DOMAIN kv
      /\ \A r : <<"canonical-slot", r>> \in DOMAIN kv <=> r = 0
      /\ \A r : <<"block-slot", r>> \in DOMAIN kv <=> r = Genesis
      /\ \A r : <<"block-safety", r>> \in DOMAIN kv <=> r = Genesis
      /\ \A r : <<"checkpoint", r>> \notin DOMAIN kv /\ <<"branch", r>> \notin DOMAIN kv
      /\ kv[<<"canonical-slot", 0>>] = Genesis /\ kv[<<"block-slot", Genesis>>] = 0
      /\ kv[<<"block-safety", Genesis>>] = Clean
      /\ <<"projection", Genesis>> \in DOMAIN kv /\ kv[<<"projection", Genesis>>] = projection
      /\ <<"record", Genesis>> \in DOMAIN kv /\ kv[<<"record", Genesis>>] = record
  BY <1>4 DEF ArePuts
<1> HIDE DEF rows
<1>6. /\ IsTable(canon, kv, "canonical-slot") /\ IsTable(slotOf, kv, "block-slot") /\ IsTable(safety, kv, "block-safety")
      /\ IsTable(checkpoints, kv, "checkpoint") /\ IsTable(branches, kv, "branch")
  BY Zenon, <1>5, TableIs
<1>7. IsImage(n, timeline, canon, slotOf, safety, Clean, EmptyQueue, checkpoints, branches, FreshFollower)
  BY Zenon, <1>5 DEF Load, IsImage, Lookup
<1> HIDE DEF n, canon, slotOf, safety, checkpoints, branches
<1>8. /\ Image(n) /\ n.timeline = timeline /\ n.canon = canon /\ n.slotOf = slotOf
      /\ n.safety = safety /\ n.session = Clean /\ n.queue = EmptyQueue
      /\ n.checkpoints = checkpoints /\ n.branches = branches /\ n.follower = FreshFollower
  BY ZenonT(30), <1>7, ImageFields
<1>9. /\ DOMAIN canon = {0} /\ canon[0] = Genesis /\ DOMAIN slotOf = {Genesis} /\ slotOf[Genesis] = 0
      /\ DOMAIN safety = {Genesis} /\ safety[Genesis] = Clean /\ DOMAIN checkpoints = {} /\ DOMAIN branches = {}
  <2>1. /\ \A r : r \in DOMAIN canon <=> <<"canonical-slot", r>> \in DOMAIN kv
        /\ \A r \in DOMAIN canon : canon[r] = kv[<<"canonical-slot", r>>]
        /\ \A r : r \in DOMAIN slotOf <=> <<"block-slot", r>> \in DOMAIN kv
        /\ \A r \in DOMAIN slotOf : slotOf[r] = kv[<<"block-slot", r>>]
        /\ \A r : r \in DOMAIN safety <=> <<"block-safety", r>> \in DOMAIN kv
        /\ \A r \in DOMAIN safety : safety[r] = kv[<<"block-safety", r>>]
        /\ \A r : r \in DOMAIN checkpoints <=> <<"checkpoint", r>> \in DOMAIN kv
        /\ \A r : r \in DOMAIN branches <=> <<"branch", r>> \in DOMAIN kv
    BY Zenon, <1>6 DEF IsTable
  <2>2. DOMAIN canon = {0} /\ DOMAIN slotOf = {Genesis} /\ DOMAIN safety = {Genesis}
    BY Zenon, <1>5, <2>1
  <2>3. DOMAIN checkpoints = {} /\ DOMAIN branches = {}
    BY ZenonT(30), <1>5, <2>1
  <2>4. canon[0] = Genesis /\ slotOf[Genesis] = 0 /\ safety[Genesis] = Clean
    BY Zenon, <1>5, <2>1, <2>2
  <2> QED
    BY <2>2, <2>3, <2>4
<1>10. StoredAs(n, kv)
  BY Zenon, <1>5, <1>6, <1>8, <1>9 DEF StoredAs, Lookup
<1>11. GoodBlock(Genesis) /\ Chain(Genesis) = {Genesis} /\ SlotOf(Genesis) = 0 /\ ~Unsafe(Genesis)
  <2>1. Number(Genesis) = 0 /\ IsBlock(Genesis) /\ AtNumber(Genesis, 0) = Genesis
    BY DEF Number, IsBlock, Genesis, AtNumber
  <2>2. Chain(Genesis) = {Genesis}
    BY <2>1 DEF Chain
  <2>3. HasHighest(Genesis)
    BY <2>1, <2>2 DEF HasHighest
  <2> QED
    BY <2>1, <2>2, <2>3 DEF GoodBlock, SlotsAscend, SlotOf, Unsafe
<1>12. KnownBlock(n, Genesis)
  <2>1. UnsafeIn(Genesis) = {} /\ Clean.tainted = FALSE /\ Clean.first = {}
    BY <1>11 DEF UnsafeIn, Clean
  <2>2. Exact(Clean, Genesis)
    BY Zenon, <2>1 DEF Exact
  <2> QED
    BY Zenon, <1>8, <1>9, <1>11, <2>2 DEF KnownBlock
<1>13. /\ IsFollower(FreshFollower) /\ FreshFollower.tip = {Genesis}
       /\ Clean.tainted = FALSE /\ Clean.first = {} /\ Clean.reasons = {}
  BY DEF IsFollower, FreshFollower, Clean
<1>14. SessionCovers(n) /\ IndexOf(n.canon, Genesis)
  <2>1. UnsafeIn(Genesis) = {}
    BY Zenon, <1>11 DEF UnsafeIn
  <2> QED
    BY ZenonT(30), <1>8, <1>9, <1>11, <1>13, <2>1 DEF SessionCovers, IndexOf
<1>15. Sound(n, Genesis)
  <2>1. IsTimeline(n.timeline) /\ IsQueue(n.queue) /\ IsFollower(n.follower) /\ n.follower.tip = {Genesis}
    BY Zenon, <1>2, <1>8, <1>13, EmptyQueueIs
  <2>2. /\ DOMAIN n.slotOf = DOMAIN n.safety /\ Genesis \in DOMAIN n.safety
        /\ \A b \in DOMAIN n.slotOf : n.slotOf[b] = SlotOf(b)
    BY Zenon, <1>8, <1>9, <1>11
  <2>3. AllKnown(n)
    BY Zenon, <1>8, <1>9, <1>12 DEF AllKnown
  <2>4. SlotOf(Genesis) <= n.timeline.slot
    BY <1>2, <1>8, <1>11
  <2>5. DOMAIN n.checkpoints = {} /\ DOMAIN n.branches = {}
    BY <1>8, <1>9
  <2> QED
    BY Zenon, <1>14, <2>1, <2>2, <2>3, <2>4, <2>5 DEF Sound
<1>16. Records(DOMAIN n.safety, n.queue, kv, Genesis)
  <2>1. Projected(kv, Genesis)
    <3>1. EmptyQueue.items = [t \in RequestTypes |-> <<>>]
      BY DEF EmptyQueue
    <3>2. /\ projection.slot = 0 /\ \A t \in RequestTypes : projection.requests[t] = 0
          /\ \A t \in RequestTypes : record.native[t] = 0 /\ Len(record.controls[t]) = 0
      BY <3>1 DEF projection, record, NoRequests
    <3> QED
      BY <1>5, <1>11, <3>2 DEF Projected
  <2>2. Ledger({Genesis}, EmptyQueue, kv, Genesis)
    <3>1. record.controls = EmptyQueue.items
      BY DEF record
    <3>2. <<"record", Genesis>> \in DOMAIN kv /\ kv[<<"record", Genesis>>].controls = EmptyQueue.items
      BY Zenon, <1>5, <3>1
    <3> QED
      BY Zenon, <3>2, LedgerFresh
  <2> QED
    BY Zenon, <1>8, <1>9, <2>1, <2>2 DEF Records
<1>17. Good(n, kv, Genesis) /\ DOMAIN n.safety = {Genesis}
  BY Zenon, <1>8, <1>9, <1>10, <1>15, <1>16 DEF Good
<1> QED
  BY Zenon, <1>17 DEF n, kv

-----------------------------------------------------------------------------
(* What newNode checks.                                                    *)

\* Two blocks of a chain have different slots.
LEMMA SlotsDistinct ==
    ASSUME NEW b, GoodBlock(b), NEW a \in Chain(b), NEW c \in Chain(b), SlotOf(a) = SlotOf(c)
    PROVE  a = c
<1>1. /\ IsBlock(b) /\ Number(b) \in Nat /\ Number(a) \in 0..Number(b) /\ Number(c) \in 0..Number(b)
      /\ a = AtNumber(b, Number(a)) /\ c = AtNumber(b, Number(c))
  BY Zenon, InChain, BlockFacts DEF GoodBlock
<1>2. /\ SlotOf(a) = IF Number(a) = 0 THEN 0 ELSE b[Number(a)].slot
      /\ SlotOf(c) = IF Number(c) = 0 THEN 0 ELSE b[Number(c)].slot
  BY <1>1, SlotOfAncestor
<1>3. Number(a) = Number(c)
  <2> DEFINE i == Number(a)
             j == Number(c)
             n == Number(b)
  <2>1. /\ n \in Nat /\ i \in 0..n /\ j \in 0..n
        /\ (IF i = 0 THEN 0 ELSE b[i].slot) = IF j = 0 THEN 0 ELSE b[j].slot
        /\ \A x \in 1..n : b[x].slot \in Nat \ {0} /\ \A y \in 1..(x - 1) : b[y].slot < b[x].slot
    BY Zenon, <1>1, <1>2 DEF GoodBlock, SlotsAscend
  <2> HIDE DEF i, j, n
  <2>2. i = 0 <=> j = 0
    BY <2>1
  <2>3. ~(i < j) /\ ~(j < i)
    BY <2>1, <2>2
  <2>4. i = j
    BY <2>1, <2>3
  <2> QED
    BY ZenonT(30), <2>4 DEF i, j
<1> QED
  BY Zenon, <1>1, <1>3

\* A block comes after its parent.
LEMMA ParentSlot ==
    ASSUME NEW b, GoodBlock(b), b # Genesis
    PROVE  Parent(b) \in Chain(b) /\ SlotOf(Parent(b)) < SlotOf(b)
<1>1. /\ IsBlock(b) /\ Number(b) \in Nat /\ b = AtNumber(b, Number(b)) /\ Number(b) # 0
      /\ Parent(b) \in Chain(b) /\ Number(Parent(b)) = Number(b) - 1
  BY BlockFacts, ParentIs DEF GoodBlock
<1>2. Parent(b) = AtNumber(b, Number(b) - 1)
  BY Zenon, <1>1, InChain
<1>3. /\ SlotOf(b) = b[Number(b)].slot
      /\ SlotOf(Parent(b)) = IF Number(b) - 1 = 0 THEN 0 ELSE b[Number(b) - 1].slot
  BY <1>1, <1>2, SlotOfAncestor
<1> QED
  BY <1>1, <1>3 DEF GoodBlock, SlotsAscend

\* The FIFOs of a ledger pass validateExecutionRequestQueue, and its IDs are
\* of one type each and below the next.
LEMMA LedgerValid ==
    ASSUME NEW S, NEW q, NEW kv, NEW h \in S, Ledger(S, q, kv, h)
    PROVE  LET stored(t) == IDs(q.items, t) \cup RecordedIDs(kv, S, t)
           IN /\ ValidQueue(q)
              /\ \A t, u \in RequestTypes : t # u => stored(t) \cap stored(u) = {}
              /\ \A t \in RequestTypes : \A id \in stored(t) : id < q.next
<1>1. PICK order, low, high : Booked(order, low, high, S, q.next, kv) /\ Queued(order, high, q, h)
  BY Zenon DEF Ledger
<1> DEFINE n == q.next - 1
           stored(t) == IDs(q.items, t) \cup RecordedIDs(kv, S, t)
<1>2. /\ q.next \in Nat \ {0} /\ \A t \in RequestTypes : Rising(order[t], n)
      /\ \A t, u \in RequestTypes : t # u => Range(order[t]) \cap Range(order[u]) = {}
  BY Zenon, <1>1 DEF Booked, Issued
<1>3. n \in Nat
  BY <1>2
<1>4. ASSUME NEW t \in RequestTypes
      PROVE  /\ Rising(q.items[t], n)
             /\ stored(t) \subseteq Range(order[t]) /\ Range(order[t]) \subseteq 1..n
  <2>1. /\ high[h][t] \in Nat /\ high[h][t] <= Len(order[t])
        /\ q.items[t] = SubSeq(order[t], high[h][t] + 1, Len(order[t]))
    <3>1. /\ low[h][t] \in Nat /\ Count(h, t) \in Nat /\ high[h][t] = low[h][t] + Count(h, t)
          /\ high[h][t] <= Len(order[t])
          /\ q.items[t] = SubSeq(order[t], high[h][t] + 1, Len(order[t]))
      BY Zenon, <1>1 DEF Booked, Accounts, Queued
    <3> QED
      BY <3>1
  <2>2. Rising(order[t], n)
    BY Zenon, <1>2
  <2>3. Len(order[t]) \in Nat /\ Range(order[t]) \subseteq 1..n
    BY Zenon, <1>3, <2>2, RisingIs
  <2> HIDE DEF n
  <2>4. IsPart(q.items[t], order[t], n, high[h][t], Len(order[t]))
    <3>1. Len(order[t]) <= Len(order[t])
      BY <2>3
    <3> QED
      BY Zenon, <1>3, <2>1, <2>2, <2>3, <3>1, RisingPart
  <2>5. Positions(order, low, high, S, q, kv, h, t)
    BY Zenon, <1>1, LedgerPositions
  <2>6. stored(t) \subseteq Range(order[t])
    BY Zenon, <2>5 DEF Positions, RecordedIDs
  <2> QED
    BY <2>3, <2>4, <2>6, ZenonT(30) DEF IsPart
<1>5. /\ \A t, u \in RequestTypes : t # u => stored(t) \cap stored(u) = {}
      /\ \A t \in RequestTypes : \A id \in stored(t) : id \in 1..n
  <2> HIDE DEF stored, n
  <2> QED
    BY Zenon, <1>2, <1>4
<1>6. \A t \in RequestTypes : \A id \in stored(t) : id < q.next
  <2> HIDE DEF stored
  <2> QED
    BY <1>2, <1>5
<1>7. \A t \in RequestTypes : IDs(q.items, t) \subseteq stored(t)
  OBVIOUS
<1>8. \A t \in RequestTypes :
         /\ q.items[t] \in Seq(Nat \ {0})
         /\ \A i, j \in DOMAIN q.items[t] : i < j => q.items[t][i] < q.items[t][j]
  <2> TAKE t \in RequestTypes
  <2> DEFINE s == q.items[t]
  <2>1. Rising(s, n)
    BY <1>4
  <2> HIDE DEF s
  <2>2. s \in Seq(Nat \ {0}) /\ \A i, j \in DOMAIN s : i < j => s[i] < s[j]
    <3>1. s \in Seq(1..n) /\ \A i, j \in 1..Len(s) : i < j => s[i] < s[j]
      BY Zenon, <2>1 DEF Rising
    <3>2. 1..n \subseteq Nat \ {0}
      BY <1>3
    <3> HIDE DEF n
    <3>3. s \in Seq(Nat \ {0}) /\ DOMAIN s = 1..Len(s)
      <4> DEFINE A == 1..n
                 B == Nat \ {0}
      <4>1. s \in Seq(A) /\ A \subseteq B
        BY Zenon, <3>1, <3>2
      <4> HIDE DEF A, B
      <4>2. s \in Seq(B) /\ DOMAIN s = 1..Len(s)
        BY <4>1
      <4> QED
        BY Zenon, <4>2 DEF B
    <3> QED
      BY Zenon, <3>1, <3>3
  <2> QED
    BY <2>2, Zenon DEF s
<1> HIDE DEF stored
<1>9. ValidControlSet(q.items)
  <2>1. \A t, u \in RequestTypes : t # u => IDs(q.items, t) \cap IDs(q.items, u) = {}
    BY Zenon, <1>5, <1>7
  <2> QED
    BY Zenon, <1>8, <2>1 DEF ValidControlSet
<1>10. ValidQueue(q)
  <2>1. \A id \in AllIDs(q.items) : id < q.next
    BY <1>6, <1>7 DEF AllIDs
  <2> QED
    BY Zenon, <1>2, <1>9, <2>1 DEF ValidQueue
<1> QED
  BY Zenon, <1>5, <1>6, <1>10 DEF stored

\* What a stored image and its head tell of a block with metadata.
LEMMA SoundBlocks ==
    ASSUME NEW m, NEW h, Sound(m, h)
    PROVE  /\ GoodBlock(h) /\ h \in DOMAIN m.safety /\ Chain(h) \subseteq DOMAIN m.safety
           /\ DOMAIN m.slotOf = DOMAIN m.safety /\ Closed(DOMAIN m.safety)
           /\ \A b \in DOMAIN m.safety :
                 /\ GoodBlock(b) /\ Exact(m.safety[b], b) /\ Chain(b) \subseteq DOMAIN m.safety
                 /\ m.slotOf[b] = SlotOf(b) /\ \A d : Lookup(m.slotOf, b, d) = SlotOf(b)
<1>1. /\ h \in DOMAIN m.safety /\ DOMAIN m.slotOf = DOMAIN m.safety
      /\ \A b \in DOMAIN m.slotOf : m.slotOf[b] = SlotOf(b)
      /\ \A b \in DOMAIN m.safety :
            GoodBlock(b) /\ Exact(m.safety[b], b) /\ Chain(b) \subseteq DOMAIN m.safety
  BY Zenon DEF Sound, AllKnown, KnownBlock
<1>2. \A b \in DOMAIN m.safety : m.slotOf[b] = SlotOf(b) /\ \A d : Lookup(m.slotOf, b, d) = SlotOf(b)
  BY <1>1, Zenon DEF Lookup
<1>3. Closed(DOMAIN m.safety)
  BY <1>1, Zenon DEF Closed, GoodBlock
<1> QED
  BY <1>1, <1>2, <1>3, Zenon

\* validateRuntimeMetadata accepts a stored image whose blocks are stored and
\* whose index has an entry for every canonical block.
LEMMA RuntimeValid ==
    ASSUME NEW m, NEW kv, NEW h, Good(m, kv, h), NEW stored, DOMAIN m.slotOf \subseteq stored,
           \A b \in Chain(h) : SlotOf(b) \in DOMAIN m.canon
    PROVE  /\ ValidTimeline(m, h)
           /\ \A b \in DOMAIN m.slotOf : ValidBlock(m, kv, stored, b)
           /\ ValidCanonicalIndex(m, stored, h)
           /\ ValidSession(m)
<1>1. Sound(m, h) /\ \A b \in DOMAIN m.safety : Projected(kv, b)
  BY Zenon DEF Good, Records
<1>2. /\ GoodBlock(h) /\ h \in DOMAIN m.safety /\ Chain(h) \subseteq DOMAIN m.safety
      /\ DOMAIN m.slotOf = DOMAIN m.safety
      /\ \A b \in DOMAIN m.safety :
            /\ Exact(m.safety[b], b) /\ m.slotOf[b] = SlotOf(b) /\ \A d : Lookup(m.slotOf, b, d) = SlotOf(b)
  BY Zenon, <1>1, SoundBlocks
<1>3. IsTimeline(m.timeline) /\ SlotOf(h) <= m.timeline.slot /\ SessionCovers(m) /\ IndexOf(m.canon, h)
  BY ZenonT(30), <1>1 DEF Sound
<1>4. ValidTimeline(m, h)
  BY <1>2, <1>3 DEF ValidTimeline, IsTimeline
<1>5. \A b \in DOMAIN m.slotOf : ValidBlock(m, kv, stored, b)
  <2> TAKE b \in DOMAIN m.slotOf
  <2>1. Lookup(kv, <<"projection", b>>, [slot |-> -1]).slot = m.slotOf[b]
    BY Zenon, <1>1, <1>2 DEF Projected, Lookup
  <2>2. /\ m.safety[b].tainted => m.safety[b].first # {}
        /\ m.safety[b].reasons \subseteq m.session.reasons
    BY Zenon, <1>2, <1>3 DEF Exact, SessionCovers
  <2> QED
    BY Zenon, <1>2, <2>1, <2>2 DEF ValidBlock
<1>6. ValidCanonicalIndex(m, stored, h)
  <2>1. \A s \in DOMAIN m.canon : m.canon[s] \in Chain(h) /\ SlotOf(m.canon[s]) = s
    BY Zenon, <1>3 DEF IndexOf
  <2>2. \A s \in DOMAIN m.canon : m.canon[s] \in stored \cap Chain(h) /\ Lookup(m.slotOf, m.canon[s], 0) = s
    BY Zenon, <1>2, <2>1
  <2>3. \A b \in Chain(h) : b \in stored \cap DOMAIN m.slotOf /\ m.slotOf[b] = SlotOf(b)
    BY <1>2
  <2>4. \A b \in Chain(h) : m.canon[SlotOf(b)] = b
    <3> TAKE b \in Chain(h)
    <3>1. SlotOf(m.canon[SlotOf(b)]) = SlotOf(b) /\ m.canon[SlotOf(b)] \in Chain(h)
      BY Zenon, <2>1
    <3> QED
      BY Zenon, <1>2, <3>1, SlotsDistinct
  <2> QED
    BY Zenon, <2>2, <2>3, <2>4 DEF ValidCanonicalIndex
<1>7. ValidSession(m)
  <2>1. \A b \in DOMAIN m.safety : m.safety[b].tainted = (UnsafeIn(b) # {})
    BY ZenonT(30), <1>2 DEF Exact
  <2>2. CASE m.session.tainted
    <3>1. PICK b \in m.session.first : b \in DOMAIN m.safety /\ UnsafeIn(b) # {}
      BY Zenon, <1>3, <2>2 DEF SessionCovers
    <3> QED
      BY Zenon, <2>1, <2>2, <3>1 DEF ValidSession
  <2>3. CASE ~m.session.tainted
    BY Zenon, <1>3, <2>1, <2>3 DEF ValidSession, SessionCovers
  <2> QED
    BY <2>2, <2>3
<1> QED
  BY Zenon, <1>4, <1>5, <1>6, <1>7

\* validateExecutionRequestMetadata accepts it.
LEMMA RequestsValid ==
    ASSUME NEW m, NEW kv, NEW h, Good(m, kv, h), NEW stored, DOMAIN m.slotOf \subseteq stored
    PROVE  ValidRequests(m, kv, stored, h)
<1> DEFINE S == DOMAIN m.safety
           kept(t) == IDs(m.queue.items, t) \cup RecordedIDs(kv, S, t)
           consumed(b) == AllIDs(kv[<<"record", b>>].controls)
<1>1. Sound(m, h) /\ Ledger(S, m.queue, kv, h) /\ \A b \in S : Projected(kv, b)
  BY Zenon DEF Good, Records
<1>2. h \in S /\ DOMAIN m.slotOf = S /\ Closed(S) /\ Chain(h) \subseteq S
  BY Zenon, <1>1, SoundBlocks
<1>3. /\ ValidQueue(m.queue)
      /\ \A t, u \in RequestTypes : t # u => kept(t) \cap kept(u) = {}
      /\ \A t \in RequestTypes : \A id \in kept(t) : id < m.queue.next
  BY Zenon, <1>1, <1>2, LedgerValid
<1>4. /\ \A b \in Chain(h) : consumed(b) \cap AllIDs(m.queue.items) = {}
      /\ \A b, c \in Chain(h) : b # c => consumed(b) \cap consumed(c) = {}
  BY Zenon, <1>1, <1>2, LedgerConserved
<1>5. \A b \in S :
         /\ b \in stored /\ <<"record", b>> \in DOMAIN kv
         /\ \A t \in RequestTypes : kv[<<"projection", b>>].requests[t] =
                kv[<<"record", b>>].native[t] + Len(kv[<<"record", b>>].controls[t])
  BY Zenon, <1>1, <1>2, LedgerRows DEF Projected
<1>6. /\ \A b \in DOMAIN m.slotOf \cap Chain(h) : consumed(b) \cap AllIDs(m.queue.items) = {}
      /\ \A b, c \in DOMAIN m.slotOf \cap Chain(h) : b # c => consumed(b) \cap consumed(c) = {}
  <2> HIDE DEF consumed
  <2> QED
    BY <1>4
<1> QED
  BY Zenon, <1>2, <1>3, <1>5, <1>6 DEF ValidRequests

\* validateControlMetadata accepts it.
LEMMA ControlsValid ==
    ASSUME NEW m, NEW h, Sound(m, h), NEW stored, DOMAIN m.slotOf \subseteq stored
    PROVE  ValidControlMetadata(m, stored)
<1>1. /\ DOMAIN m.slotOf = DOMAIN m.safety
      /\ \A b \in DOMAIN m.safety :
            /\ GoodBlock(b) /\ Exact(m.safety[b], b) /\ Chain(b) \subseteq DOMAIN m.safety
            /\ m.slotOf[b] = SlotOf(b) /\ \A d : Lookup(m.slotOf, b, d) = SlotOf(b)
  BY Zenon, SoundBlocks
<1>2. ASSUME NEW name \in DOMAIN m.checkpoints
      PROVE  LET point == m.checkpoints[name]
             IN /\ point.block \in stored \cap DOMAIN m.slotOf \cap DOMAIN m.safety
                /\ m.slotOf[point.block] <= point.slot
                /\ m.safety[point.block].tainted = point.tainted
  <2> DEFINE point == m.checkpoints[name]
  <2>1. /\ point.block \in DOMAIN m.safety /\ SlotOf(point.block) <= point.slot
        /\ point.tainted = (UnsafeIn(point.block) # {})
    BY Zenon DEF Sound, GoodCheckpoint, GoodPoint
  <2> HIDE DEF point
  <2>2. m.safety[point.block].tainted = point.tainted /\ m.slotOf[point.block] = SlotOf(point.block)
    BY ZenonT(30), <1>1, <2>1 DEF Exact
  <2>3. /\ point.block \in stored \cap DOMAIN m.slotOf \cap DOMAIN m.safety
        /\ m.slotOf[point.block] <= point.slot
    BY Zenon, <1>1, <2>1, <2>2
  <2> QED
    BY Zenon, <2>2, <2>3 DEF point
<1>3. ASSUME NEW name \in DOMAIN m.branches
      PROVE  LET item == m.branches[name]
             IN /\ {item.base, item.head} \subseteq stored
                /\ item.base \in Chain(item.head)
                /\ \A b \in PathFrom(item.head, item.base) :
                      /\ b \in DOMAIN m.slotOf /\ Parent(b) \in stored
                      /\ Lookup(m.slotOf, Parent(b), 0) < m.slotOf[b]
                /\ item.head \in DOMAIN m.safety
                /\ m.safety[item.head].tainted = item.tainted
  <2> DEFINE item == m.branches[name]
  <2>1. /\ item.base \in DOMAIN m.safety /\ item.head \in DOMAIN m.safety
        /\ item.base \in Chain(item.head) /\ item.tainted = (UnsafeIn(item.head) # {})
    BY ZenonT(30) DEF Sound, GoodBranch
  <2> HIDE DEF item
  <2>2. m.safety[item.head].tainted = item.tainted /\ {item.base, item.head} \subseteq stored
    BY SMTT(30), <1>1, <2>1 DEF Exact
  <2>3. ASSUME NEW b \in PathFrom(item.head, item.base)
        PROVE  /\ b \in DOMAIN m.slotOf /\ Parent(b) \in stored
               /\ Lookup(m.slotOf, Parent(b), 0) < m.slotOf[b]
    <3>1. /\ b \in Chain(item.head) /\ b \notin Chain(item.base)
          /\ b \in DOMAIN m.safety /\ GoodBlock(b) /\ GoodBlock(item.base)
      BY Zenon, <1>1, <2>1 DEF PathFrom
    <3>2. b # Genesis
      BY <3>1, BlockFacts DEF GoodBlock
    <3>3. Parent(b) \in Chain(b) /\ SlotOf(Parent(b)) < SlotOf(b)
      BY ZenonT(30), <3>1, <3>2, ParentSlot
    <3>4. Parent(b) \in DOMAIN m.safety
      BY Zenon, <1>1, <3>1, <3>3
    <3> QED
      BY Zenon, <1>1, <3>1, <3>3, <3>4
  <2> QED
    BY Zenon, <2>1, <2>2, <2>3 DEF item
<1> QED
  BY Zenon, <1>2, <1>3 DEF ValidControlMetadata

\* A start accepts a stored image, unless blocks or index entries are lost.
LEMMA GoodValid ==
    ASSUME NEW m, NEW kv, NEW h, Good(m, kv, h), NEW stored, DOMAIN m.slotOf \subseteq stored,
           \A b \in Chain(h) : SlotOf(b) \in DOMAIN m.canon
    PROVE  Valid(m, kv, stored, h)
<1>1. Sound(m, h)
  BY DEF Good
<1> QED
  BY Zenon, <1>1, RuntimeValid, RequestsValid, ControlsValid DEF Valid

=============================================================================
