------------------------ MODULE ChainNodeTheorems -------------------------
(***************************************************************************)
(* Further theorems about ChainNode: the requests of a chain, readers      *)
(* beside the controller, switches, starts and finality.  Each follows     *)
(* from the invariant of ChainNodeProofs, or needs one more on top of it.  *)
(***************************************************************************)
EXTENDS ChainNodeProofs

-----------------------------------------------------------------------------
(* Requests, readers and switches.                                         *)

\* The blocks with metadata have their ancestors among them.
LEMMA KnownClosed ==
    ASSUME NEW m, AllKnown(m)
    PROVE  Closed(DOMAIN m.safety)
  BY Zenon DEF AllKnown, KnownBlock, GoodBlock, Closed

\* No command, crash or recovery loses a queued request or repeats one.
THEOREM RequestsStayConserved == Spec => []RequestsConserved
<1>1. ASSUME Inv, Ready
      PROVE  LET consumed(b) == AllIDs(aux[<<"record", b>>].controls)
             IN /\ 1..(mem.queue.next - 1) =
                      AllIDs(mem.queue.items) \cup UNION {consumed(b) : b \in Chain(head)}
                /\ \A b \in Chain(head) : consumed(b) \cap AllIDs(mem.queue.items) = {}
                /\ \A b, c \in Chain(head) : b # c => consumed(b) \cap consumed(c) = {}
  <2>1. Sound(mem, head) /\ head \in DOMAIN mem.safety /\ Ledger(DOMAIN mem.safety, mem.queue, aux, head)
    BY <1>1, ReadyGood, Zenon
  <2>2. Closed(DOMAIN mem.safety)
    BY <2>1, KnownClosed, Zenon DEF Sound
  <2> QED
    BY <2>1, <2>2, LedgerConserved, Zenon
<1>2. Inv => RequestsConserved
  BY <1>1, Zenon DEF RequestsConserved
<1> QED
  BY <1>2, Invariant, PTL

\* Readers beside the controller resolve slots to canonical blocks, in order.
THEOREM ReadersSeeCanonical == Spec => []ReadersStayCanonical
<1>1. ASSUME Inv, status = "up", NEW s \in 0..MaxSlot
      PROVE  LET at == [r \in 0..MaxSlot |-> BlockAtOrBeforeSlot(mem, head, r)]
             IN at[s] \in Chain(IF s < MaxSlot THEN at[s + 1] ELSE head)
  <2> DEFINE At(r) == BlockAtOrBeforeSlot(mem, head, r)
  <2>1. Indexed(mem) /\ GoodBlock(head) /\ IsBlock(head)
    BY <1>1 DEF Inv, IndexGood, DiskGood, Indexed, GoodBlock
  <2>2. MaxSlot \in Nat
    BY BoundAssumption
  <2>3. ASSUME NEW r \in 0..MaxSlot
        PROVE  AtSlot(At(r), mem, head, r) /\ r \in Nat
    BY <2>1, <2>2, AtOrBeforeSlot
  <2>4. At(s) \in Chain(head)
    BY Zenon, <1>1, <2>1, <2>3, AtSlotCanonical
  <2>5. CASE s < MaxSlot
    <3>1. s \in 0..MaxSlot /\ s + 1 \in 0..MaxSlot /\ s <= s + 1
      BY <1>1, <2>2, <2>5
    <3>2. At(s) \in Chain(At(s + 1))
      BY Zenon, <2>1, <2>3, <3>1, AtSlotOrdered
    <3> QED
      BY Zenon, <2>5, <3>1, <3>2
  <2>6. CASE ~(s < MaxSlot)
    BY Zenon, <1>1, <2>4, <2>6
  <2> QED
    BY <2>5, <2>6
<1>2. Inv => ReadersStayCanonical
  BY <1>1, Zenon DEF ReadersStayCanonical
<1> QED
  BY <1>2, Invariant, PTL

\* Blocks with metadata are stored, but for the block of the commit under way.
BlocksStored ==
    /\ Writable => DOMAIN mem.safety \subseteq blocks
    /\ stage = "final" => DOMAIN plan.mem.safety \subseteq blocks
    /\ Committing => \A o \in journal :
          /\ DOMAIN plan.mem.safety \subseteq blocks \cup {o.target}
          /\ ~Builds(o) \/ stage \in {"block", "mutated"} => o.target \in blocks

\* The commands that go through commitAuxiliary, and what they change.
AuxiliaryCommand ==
    \/ \E name \in Checkpoints : Checkpoint(name)
    \/ \E name \in Branches : \E number \in 0..MaxSlot : number <= Number(head) /\ CreateBranch(name, number)
    \/ \E count \in 1..MaxSlot : MissSlots(count)
    \/ PauseFinality \/ ResumeFinality
    \/ \E t \in RequestTypes : AddExecutionRequest(t)

AuxiliaryStep ==
    /\ Ready /\ UNCHANGED <<nodes, blocks, head, journal, plan, stage, status, writeErr, snapshots>>
    /\ mem'.safety = mem.safety
    /\ Finalized(mem, head) # Finalized(mem', head) => mem'.follower.final = Finalized(mem', head)

\* A command that commits its own rows keeps every block, and announces the
\* finality it moves.
LEMMA AuxiliaryIs ==
    ASSUME Inv, Ready, NEW puts, NEW image, AuxiliaryCommit(puts, image),
           NEW timeline, NEW queue, NEW checkpoints, NEW branches, NEW follower,
           IsImage(image, timeline, mem.canon, mem.slotOf, mem.safety, mem.session, queue,
                   checkpoints, branches, follower),
           NEW at, at = FinalitySlot(image, timeline.slot),
           Finalized(mem, head) # FinalizedAt(mem, head, at) => follower.final = FinalizedAt(mem, head, at)
    PROVE  AuxiliaryStep
<1>1. mem' = image /\ UNCHANGED <<nodes, blocks, head, journal, plan, stage, status, writeErr, snapshots>>
  BY Zenon DEF AuxiliaryCommit, CommitAuxiliary
<1>2. /\ image.timeline = timeline /\ image.canon = mem.canon /\ image.safety = mem.safety
      /\ image.follower = follower
  BY ImageFields
<1>3. Finalized(image, head) = FinalizedAt(mem, head, at)
  <2>1. \A s : BlockAtOrBeforeSlot(image, head, s) = BlockAtOrBeforeSlot(mem, head, s)
    BY <1>2, SameIndex
  <2>2. \A s : FinalizedAt(image, head, s) = FinalizedAt(mem, head, s)
    BY <2>1, Zenon DEF FinalizedAt
  <2>3. Finalized(image, head) = FinalizedAt(image, head, at)
    BY <1>2, Zenon DEF Finalized
  <2> QED
    BY <2>2, <2>3, Zenon
<1> QED
  BY <1>1, <1>2, <1>3, Zenon DEF AuxiliaryStep

\* Checkpoints, branches and requests leave the timeline and the index alone.
LEMMA AuxiliarySame ==
    ASSUME Inv, Ready, NEW puts, NEW image, AuxiliaryCommit(puts, image), NEW x,
           \/ image = [mem EXCEPT !.checkpoints = x]
           \/ image = [mem EXCEPT !.branches = x]
           \/ image = [mem EXCEPT !.queue = x]
    PROVE  AuxiliaryStep
<1>1. IsImage(mem, mem.timeline, mem.canon, mem.slotOf, mem.safety, mem.session, mem.queue,
              mem.checkpoints, mem.branches, mem.follower)
  BY Zenon, ReadyGood
<1>2. PICK queue, checkpoints, branches :
        IsImage(image, mem.timeline, mem.canon, mem.slotOf, mem.safety, mem.session, queue,
                checkpoints, branches, mem.follower)
  <2>1. CASE image = [mem EXCEPT !.checkpoints = x]
    <3>1. IsImage(image, mem.timeline, mem.canon, mem.slotOf, mem.safety, mem.session, mem.queue,
                  x, mem.branches, mem.follower)
      BY Zenon, <1>1, <2>1, ImageSet
    <3> QED
      BY <3>1, Zenon
  <2>2. CASE image = [mem EXCEPT !.branches = x]
    <3>1. IsImage(image, mem.timeline, mem.canon, mem.slotOf, mem.safety, mem.session, mem.queue,
                  mem.checkpoints, x, mem.follower)
      BY Zenon, <1>1, <2>2, ImageSet
    <3> QED
      BY <3>1, Zenon
  <2>3. CASE image = [mem EXCEPT !.queue = x]
    <3>1. IsImage(image, mem.timeline, mem.canon, mem.slotOf, mem.safety, mem.session, x,
                  mem.checkpoints, mem.branches, mem.follower)
      BY Zenon, <1>1, <2>3, ImageSet
    <3> QED
      BY <3>1, Zenon
  <2> QED
    BY Zenon, <2>1, <2>2, <2>3
<1>3. image.timeline = mem.timeline
  BY <1>2, ImageFields
<1>4. Finalized(mem, head) = FinalizedAt(mem, head, FinalitySlot(image, mem.timeline.slot))
  BY <1>3, Zenon DEF Finalized, FinalitySlot
<1> QED
  BY <1>2, <1>4, AuxiliaryIs, Zenon

\* A checkpoint that changes is announced as the new one.
LEMMA AnnouncesNext ==
    ASSUME NEW follower, IsFollower(follower), NEW previous, NEW next, previous # next
    PROVE  AnnounceFinality(follower, previous, next).final = next
  BY DEF AnnounceFinality, IsFollower

\* Missed slots, a pause and a resume announce what they finalize.
LEMMA AuxiliaryMoved ==
    ASSUME Inv, (\E count \in 1..MaxSlot : MissSlots(count)) \/ PauseFinality \/ ResumeFinality
    PROVE  AuxiliaryStep
<1>1. Ready
  BY Zenon DEF MissSlots, PauseFinality, ResumeFinality
<1>2. /\ IsTimeline(mem.timeline) /\ IsFollower(mem.follower)
      /\ IsImage(mem, mem.timeline, mem.canon, mem.slotOf, mem.safety, mem.session, mem.queue,
                 mem.checkpoints, mem.branches, mem.follower)
  BY <1>1, ReadyGood, Zenon
<1>3. CASE \E count \in 1..MaxSlot : MissSlots(count)
  <2>1. PICK count : MissSlots(count)
    BY <1>3
  <2> DEFINE slot == mem.timeline.slot + count
             timeline == [mem.timeline EXCEPT !.slot = slot, !.last = slot]
             follower == AnnounceBetween(mem.follower, mem, head, mem.timeline.slot, slot)
             image == [mem EXCEPT !.timeline = timeline, !.follower = follower]
  <2>2. \E puts : AuxiliaryCommit(puts, image)
    <3>1. image = [mem EXCEPT !.timeline = [@ EXCEPT !.slot = slot, !.last = slot],
                              !.follower = AnnounceBetween(@, mem, head, mem.timeline.slot, slot)]
      OBVIOUS
    <3> HIDE DEF image
    <3> QED
      BY <2>1, <3>1, Zenon DEF MissSlots
  <2>3. timeline = [slot |-> slot, last |-> slot, paused |-> mem.timeline.paused, frozen |-> mem.timeline.frozen]
    BY <1>2, TimelineMoved, Zenon
  <2>4. Finalized(mem, head) # FinalizedAt(mem, head, FinalitySlot(mem, slot))
        => follower.final = FinalizedAt(mem, head, FinalitySlot(mem, slot))
    <3> DEFINE previous == Finalized(mem, head)
               next == FinalizedAt(mem, head, FinalitySlot(mem, slot))
    <3>1. follower = AnnounceFinality(mem.follower, previous, next)
      BY Zenon DEF AnnounceBetween, Finalized
    <3> HIDE DEF follower, previous, next
    <3>2. previous # next => follower.final = next
      BY <1>2, <3>1, AnnouncesNext
    <3> QED
      BY <3>2 DEF previous, next
  <2> HIDE DEF timeline, follower, slot
  <2>5. IsImage(image, timeline, mem.canon, mem.slotOf, mem.safety, mem.session, mem.queue,
                mem.checkpoints, mem.branches, follower)
    BY <1>1, MetaImage, Zenon
  <2> HIDE DEF image
  <2>6. timeline.slot = slot /\ timeline.paused = mem.timeline.paused /\ timeline.frozen = mem.timeline.frozen
    BY <2>3
  <2>7. image.timeline = timeline
    BY Zenon, <2>5, ImageFields
  <2>8. FinalitySlot(mem, slot) = FinalitySlot(image, timeline.slot)
    BY <2>6, <2>7, Zenon DEF FinalitySlot
  <2> QED
    BY <1>1, <2>2, <2>4, <2>5, <2>8, AuxiliaryIs, Zenon
<1>4. CASE PauseFinality
  <2> DEFINE timeline == [mem.timeline EXCEPT !.paused = TRUE, !.frozen = mem.timeline.slot]
             image == [mem EXCEPT !.timeline = timeline]
  <2>1. (\E puts : AuxiliaryCommit(puts, image)) /\ ~mem.timeline.paused
    BY <1>4, Zenon DEF PauseFinality
  <2>2. timeline = [slot |-> mem.timeline.slot, last |-> mem.timeline.last, paused |-> TRUE,
                    frozen |-> mem.timeline.slot]
    BY <1>2, TimelineFrozen, Zenon
  <2> HIDE DEF timeline
  <2>3. IsImage(image, timeline, mem.canon, mem.slotOf, mem.safety, mem.session, mem.queue,
                mem.checkpoints, mem.branches, mem.follower)
    BY <1>2, ImageSet, Zenon
  <2> HIDE DEF image
  <2>4. image.timeline = timeline /\ timeline.slot = mem.timeline.slot /\ timeline.frozen = mem.timeline.slot
    BY <2>2, <2>3, ImageFields
  <2>5. mem.timeline.slot = FinalitySlot(image, timeline.slot)
    BY <1>2, <2>4 DEF FinalitySlot, IsTimeline
  <2>6. Finalized(mem, head) = FinalizedAt(mem, head, mem.timeline.slot)
    BY <2>1, Zenon DEF Finalized, FinalitySlot
  <2> QED
    BY <1>1, <2>1, <2>3, <2>5, <2>6, AuxiliaryIs, Zenon
<1>5. CASE ResumeFinality
  <2> DEFINE timeline == [mem.timeline EXCEPT !.paused = FALSE, !.frozen = 0]
             next == FinalizedAt(mem, head, mem.timeline.slot)
             follower == AnnounceFinality(mem.follower, Finalized(mem, head), next)
             image == [mem EXCEPT !.timeline = timeline, !.follower = follower]
  <2>1. \E puts : AuxiliaryCommit(puts, image)
    BY <1>5, Zenon DEF ResumeFinality
  <2>2. timeline = [slot |-> mem.timeline.slot, last |-> mem.timeline.last, paused |-> FALSE, frozen |-> 0]
    BY <1>2, TimelineFrozen, Zenon
  <2>3. Finalized(mem, head) # next => follower.final = next
    BY <1>2, AnnouncesNext, Zenon
  <2> HIDE DEF timeline, follower
  <2>4. IsImage(image, timeline, mem.canon, mem.slotOf, mem.safety, mem.session, mem.queue,
                mem.checkpoints, mem.branches, follower)
    BY <1>1, MetaImage, Zenon
  <2> HIDE DEF image
  <2>5. image.timeline = timeline /\ timeline.slot = mem.timeline.slot /\ timeline.paused = FALSE
    BY Zenon, <2>2, <2>4, ImageFields
  <2>6. mem.timeline.slot = FinalitySlot(image, timeline.slot)
    BY <2>5, Zenon DEF FinalitySlot
  <2> QED
    BY <1>1, <2>1, <2>3, <2>4, <2>6, AuxiliaryIs, Zenon
<1> QED
  BY <1>3, <1>4, <1>5

\* So does each of these commands.
LEMMA AuxiliaryCommandIs ==
    ASSUME Inv, AuxiliaryCommand
    PROVE  AuxiliaryStep
<1>1. CASE \E name \in Checkpoints : Checkpoint(name)
  <2>1. \E puts, x : Ready /\ AuxiliaryCommit(puts, [mem EXCEPT !.checkpoints = x])
    BY <1>1, Zenon DEF Checkpoint
  <2> QED
    BY <2>1, AuxiliarySame, Zenon
<1>2. CASE \E name \in Branches : \E number \in 0..MaxSlot : number <= Number(head) /\ CreateBranch(name, number)
  <2>1. \E puts, x : Ready /\ AuxiliaryCommit(puts, [mem EXCEPT !.branches = x])
    BY <1>2, Zenon DEF CreateBranch
  <2> QED
    BY <2>1, AuxiliarySame, Zenon
<1>3. CASE \E t \in RequestTypes : AddExecutionRequest(t)
  <2>1. \E puts, x : Ready /\ AuxiliaryCommit(puts, [mem EXCEPT !.queue = x])
    BY <1>3, Zenon DEF AddExecutionRequest
  <2> QED
    BY <2>1, AuxiliarySame, Zenon
<1> QED
  BY <1>1, <1>2, <1>3, AuxiliaryMoved, Zenon DEF AuxiliaryCommand

\* Steps that leave the metadata, the blocks and the head alone.
QuietStep ==
    /\ UNCHANGED <<aux, nodes, blocks, head, journal, stage, writeErr, status, mem>>
    /\ stage # "idle" => plan' = plan

\* Every step is one of a command, of a commit, of a failure or of a start.
LEMMA NextIs ==
    ASSUME Inv, [Next]_vars
    PROVE  \/ PreparedCommand \/ AuxiliaryCommand \/ QuietStep \/ Step \/ Apply \/ Rebuild
           \/ Error \/ Torn \/ Stop \/ Recover \/ Open \/ Refuse
<1>1. CASE Snapshot \/ (\E id \in DOMAIN snapshots : RevertInPlace(id)) \/ UNCHANGED vars
  BY <1>1 DEF Snapshot, RevertInPlace, vars, commitVars, chainVars, QuietStep
<1> QED
  BY <1>1, Zenon DEF Next, PreparedCommand, AuxiliaryCommand

\* Every step keeps the blocks of the commit in progress stored.
LEMMA BlocksStoredKept ==
    ASSUME Inv, BlocksStored, [Next]_vars
    PROVE  BlocksStored'
<1>1. CASE PreparedCommand
  <2>1. PICK kind, p, builds, used : Prepared(kind, p, builds, used)
    BY <1>1, CommandPrepared, Zenon
  <2>5. PICK o : Journaled(o, kind, p, builds)
    BY Zenon, <2>1, PrepareIs
  <2>2. /\ o.target = p.block /\ Builds(o) = builds /\ journal' = {o} /\ stage' = "prepared"
        /\ blocks' = blocks /\ mem' = mem /\ plan'.mem = p.mem /\ status = "up" /\ writeErr = FALSE
    BY <2>5, Zenon DEF Journaled
  <2>3. /\ DOMAIN p.mem.safety \subseteq DOMAIN mem.safety \cup {p.block}
        /\ ~builds => p.block \in DOMAIN mem.safety
        /\ builds \in BOOLEAN
    BY <2>1, Zenon DEF Prepared, Plans
  <2>4. DOMAIN mem.safety \subseteq blocks
    BY <2>2 DEF BlocksStored, Writable
  <2> QED
    BY Zenon, <2>2, <2>3, <2>4 DEF BlocksStored, Writable, Committing
<1>2. CASE AuxiliaryCommand
  <2>1. /\ status = "up" /\ stage = "idle" /\ ~writeErr /\ mem'.safety = mem.safety
        /\ UNCHANGED <<blocks, stage, status, writeErr>>
    BY <1>2, AuxiliaryCommandIs, Zenon DEF AuxiliaryStep, Ready
  <2> QED
    BY Zenon, <2>1 DEF BlocksStored, Writable, Committing
<1>3. CASE QuietStep
  <2>1. UNCHANGED <<blocks, journal, stage, writeErr, status, mem>> /\ (stage # "idle" => plan' = plan)
    BY <1>3 DEF QuietStep
  <2> QED
    BY <2>1 DEF BlocksStored, Writable, Committing
<1>4. CASE Step
  <2>1. /\ UNCHANGED <<mem, plan, writeErr, status>>
        /\ stage # "idle" /\ status = "up" /\ writeErr = FALSE
    BY <1>4, StepIs, Zenon
  <2>2. PICK o : CommitStep(o)
    BY <1>4, StepIs, Zenon
  <2>3. /\ journal = {o} /\ o.kind \in {"head", "block"} /\ Committing
        /\ DOMAIN mem.safety \subseteq blocks /\ DOMAIN plan.mem.safety \subseteq blocks \cup {o.target}
        /\ ~Builds(o) \/ stage \in {"block", "mutated"} => o.target \in blocks
    <3>1. journal = {o}
      BY <2>2, Zenon DEF CommitStep
    <3>2. Committing /\ Writable
      BY <2>1, <3>1, Zenon DEF Inv, Shape, Writable
    <3> QED
      BY Zenon, <3>1, <3>2 DEF Inv, Shape, OperationShape, BlocksStored
  <2>4. CASE stage' # "final"
    <3>1. /\ journal' = {o} /\ blocks \subseteq blocks'
          /\ ~Builds(o) \/ stage' \in {"block", "mutated"} => o.target \in blocks'
      BY <2>2, <2>3, <2>4 DEF CommitStep, BeforeSetCanonical
    <3>2. stage' \in {"nodes", "block", "mutated"}
      BY <2>2, <2>4 DEF CommitStep
    <3> QED
      BY Zenon, <2>1, <2>3, <3>1, <3>2 DEF BlocksStored, Writable, Committing
  <2>5. CASE stage' = "final"
    <3>1. blocks' = blocks /\ o.target \in blocks
      BY Zenon, <2>2, <2>3, <2>5 DEF CommitStep, Mutated
    <3> QED
      BY Zenon, <2>1, <2>3, <2>5, <3>1 DEF BlocksStored, Writable, Committing
  <2> QED
    BY Zenon, <2>4, <2>5
<1>5. CASE Apply \/ Rebuild
  <2>1. /\ UNCHANGED <<blocks, status, writeErr>> /\ stage' \in {"rebuild", "idle"}
        /\ \/ stage = "final" /\ mem' = plan.mem
           \/ mem' = mem
    BY <1>5 DEF Apply, Rebuild, disk
  <2> QED
    BY <2>1 DEF BlocksStored, Writable, Committing
<1>6. CASE Error \/ Torn \/ Stop \/ Recover \/ Refuse
  <2>1. ~Writable' /\ stage' = "idle"
    <3>1. CASE Error \/ Torn
      BY <3>1 DEF Error, Torn, FailCommit, TornSetCanonical, Writable
    <3>2. CASE Stop \/ Recover \/ Refuse
      <4>1. status # "up" => stage = "idle"
        BY DEF Inv, Shape, Writable
      <4> QED
        BY Zenon, <3>2, <4>1 DEF Stop, Crash, Recover, Recovery, StartAgain, RecoverFinalize, RecoverDiscard,
                RecoverCancel, RecoverMismatch, Refuse, disk, chainVars, Writable
    <3> QED
      BY Zenon, <1>6, <3>1, <3>2
  <2> QED
    BY <2>1 DEF BlocksStored, Committing
<1>7. CASE Open
  <2>1. /\ Valid(Load(aux), aux, blocks, head) /\ mem' = Load(aux) /\ UNCHANGED <<aux, blocks, stage>>
        /\ status = "down" /\ journal = {}
    BY <1>7 DEF Open, disk
  <2>2. stage = "idle"
    BY <2>1 DEF Inv, Shape, Writable
  <2>3. Sound(Load(aux), head)
    BY <2>1, LoadGood, Zenon DEF Inv, DiskGood, Good
  <2>4. DOMAIN Load(aux).safety \subseteq blocks
    BY <2>1, <2>3, Zenon DEF Sound, Valid, ValidBlock
  <2> QED
    BY Zenon, <2>1, <2>2, <2>4 DEF BlocksStored, Committing
<1> QED
  BY <1>1, <1>2, <1>3, <1>4, <1>5, <1>6, <1>7, NextIs, Zenon

\* Blocks with metadata are stored at every point of every command.
LEMMA BlocksStayStored == Spec => []BlocksStored
<1>1. Init => BlocksStored
  <2> SUFFICES ASSUME Init PROVE BlocksStored
    OBVIOUS
  <2>1. blocks = {Genesis} /\ stage = "idle" /\ mem = Load(FreshAux)
    BY DEF Init
  <2>2. DOMAIN Load(FreshAux).safety = {Genesis}
    BY FreshGood, Zenon
  <2> QED
    BY Zenon, <2>1, <2>2 DEF BlocksStored, Committing
<1>2. Inv /\ BlocksStored /\ [Next]_vars => BlocksStored'
  BY BlocksStoredKept
<1> QED
  BY <1>1, <1>2, Invariant, PTL DEF Spec

\* A switch to a branch, a checkpoint or a snapshot that is on offer is never
\* refused.
THEOREM SwitchesStayAccepted == Spec => []SwitchesAccepted
<1>1. ASSUME Inv, BlocksStored, Ready, NEW b \in DOMAIN mem.safety
      PROVE  b \in blocks /\ ReconcileAccepts(mem.queue, aux, PathFrom(head, b), PathFrom(b, head))
  <2>1. /\ Sound(mem, head) /\ IsQueue(mem.queue) /\ head \in DOMAIN mem.safety
        /\ Ledger(DOMAIN mem.safety, mem.queue, aux, head)
    BY <1>1, ReadyGood, Zenon
  <2>2. Closed(DOMAIN mem.safety)
    BY <2>1, KnownClosed, Zenon DEF Sound
  <2>3. b \in blocks
    BY <1>1 DEF BlocksStored, Ready, Writable
  <2> QED
    BY <1>1, <2>1, <2>2, <2>3, LedgerSwitch, Zenon
<1>2. ASSUME Inv, Ready
      PROVE  /\ \A name \in DOMAIN mem.branches : mem.branches[name].head \in DOMAIN mem.safety
             /\ \A name \in DOMAIN mem.checkpoints : mem.checkpoints[name].block \in DOMAIN mem.safety
             /\ \A id \in DOMAIN snapshots : snapshots[id].block \in DOMAIN mem.safety
  <2>1. Sound(mem, head) /\ \A id \in DOMAIN snapshots : GoodPoint(mem, snapshots[id])
    BY <1>2, ReadyGood, Zenon DEF Inv, SnapshotsGood, Writable, Ready
  <2> QED
    BY <2>1, Zenon DEF Sound, GoodBranch, GoodCheckpoint, GoodPoint
<1>3. Inv /\ BlocksStored => SwitchesAccepted
  BY Zenon, <1>1, <1>2 DEF SwitchesAccepted
<1> QED
  BY <1>3, Invariant, BlocksStayStored, PTL

-----------------------------------------------------------------------------
(* Starts.                                                                 *)

\* An image that newNode refuses lacks an entry of the index, or a block.
LEMMA RefusedIs ==
    ASSUME Inv, journal = {}, ~Valid(Load(aux), aux, blocks, head)
    PROVE  IndexEntryLost \/ StoredBlockDiscarded
<1> DEFINE n == Load(aux)
<1>1. Good(n, aux, head)
  BY LoadGood, Zenon DEF Inv, DiskGood
<1>2. StoredAs(n, aux)
  BY <1>1, Zenon DEF Good
<1>3. n.canon = LoadTable(aux, "canonical-slot")
  BY DEF Load
<1>4. /\ \A s : s \in DOMAIN n.canon <=> <<"canonical-slot", s>> \in DOMAIN aux
      /\ \A b : b \in DOMAIN n.slotOf <=> <<"block-slot", b>> \in DOMAIN aux
  <2>1. IsTable(n.canon, aux, "canonical-slot") /\ IsTable(n.slotOf, aux, "block-slot")
    BY <1>2, <1>3, TableIs, Zenon DEF StoredAs
  <2> QED
    BY <2>1, Zenon DEF IsTable
<1> HIDE DEF n
<1>5. (\E b \in DOMAIN n.slotOf : b \notin blocks) \/ (\E b \in Chain(head) : SlotOf(b) \notin DOMAIN n.canon)
  <2>1. ~Valid(n, aux, blocks, head)
    BY DEF n
  <2>2. ~(DOMAIN n.slotOf \subseteq blocks) \/ ~(\A b \in Chain(head) : SlotOf(b) \in DOMAIN n.canon)
    BY <1>1, <2>1, GoodValid, Zenon
  <2> QED
    BY <2>2
<1>6. CASE \E b \in DOMAIN n.slotOf : b \notin blocks
  <2>1. PICK b : <<"block-slot", b>> \in DOMAIN aux /\ b \notin blocks
    BY <1>4, <1>6, Zenon
  <2>2. <<"block-slot", b>>[1] = "block-slot" /\ <<"block-slot", b>>[2] = b
    OBVIOUS
  <2> QED
    BY <2>1, <2>2, Zenon DEF StoredBlockDiscarded
<1>7. CASE \E b \in Chain(head) : SlotOf(b) \notin DOMAIN n.canon
  BY <1>4, <1>7, Zenon DEF IndexEntryLost
<1> QED
  BY <1>5, <1>6, <1>7

\* Only the recovery and the validators of newNode make a start fail.
LEMMA StartKept ==
    ASSUME Inv, StartSucceeds, [Next]_vars
    PROVE  StartSucceeds'
<1>1. CASE RecoverMismatch
  <2>1. UNCHANGED <<head, journal>> /\ \E o \in journal : ~Reached(o) /\ ~Untouched(o)
    BY <1>1 DEF RecoverMismatch, disk
  <2>2. \A o \in journal : ~Reached(o) /\ ~Untouched(o) => head # o.oldHead /\ head # o.target
    BY DEF Reached, Untouched
  <2>3. HeadTorn'
    BY Zenon, <2>1, <2>2 DEF HeadTorn
  <2> QED
    BY <2>3 DEF StartSucceeds
<1>2. CASE Refuse
  <2>1. UNCHANGED <<aux, blocks, head>> /\ (IndexEntryLost \/ StoredBlockDiscarded)
    BY Zenon, <1>2, RefusedIs DEF Refuse, disk
  <2>2. IndexEntryLost' \/ StoredBlockDiscarded'
    BY <2>1 DEF IndexEntryLost, StoredBlockDiscarded
  <2> QED
    BY Zenon, <2>2 DEF StartSucceeds
<1>3. CASE QuietStep
  BY <1>3 DEF QuietStep, StartSucceeds, HeadTorn, IndexEntryLost, StoredBlockDiscarded
<1>4. CASE status' # "failed"
  BY <1>4 DEF StartSucceeds
<1>5. PreparedCommand \/ AuxiliaryCommand \/ Step => status' = "up"
  <2>1. PreparedCommand => status' = "up"
    BY CommandPrepared, PrepareIs, Zenon DEF Journaled
  <2>2. AuxiliaryCommand => status' = "up"
    BY AuxiliaryCommandIs, Zenon DEF AuxiliaryStep, Ready
  <2>3. Step => status' = "up"
    BY StepIs, Zenon
  <2> QED
    BY Zenon, <2>1, <2>2, <2>3
<1>6. Apply \/ Rebuild \/ Error \/ Torn => status' = "up"
  <2>1. stage # "idle" => status = "up"
    BY DEF Inv, Shape, Writable
  <2> QED
    BY <2>1 DEF Apply, Rebuild, Error, Torn, FailCommit, TornSetCanonical, BeforeSetCanonical
<1>7. Stop \/ Recover \/ Open => RecoverMismatch \/ status' # "failed"
  BY DEF Stop, Crash, Recover, Recovery, StartAgain, RecoverFinalize, RecoverDiscard, RecoverCancel, Open
<1> QED
  BY Zenon, <1>1, <1>2, <1>3, <1>4, <1>5, <1>6, <1>7, NextIs

\* A start fails only after a torn reorganisation, a lost index entry or the
\* loss of a stored block.
THEOREM StartsSucceed == Spec => []StartSucceeds
<1>1. Init => StartSucceeds
  BY DEF Init, StartSucceeds
<1>2. Inv /\ StartSucceeds /\ [Next]_vars => StartSucceeds'
  BY StartKept
<1> QED
  BY <1>1, <1>2, Invariant, PTL DEF Spec

-----------------------------------------------------------------------------
(* Finality.                                                               *)

\* The image of a commit under way announces the checkpoint that it finalizes
\* for a new head; there is no image while the process is down.
AnnounceGood ==
    /\ status # "up" => mem = Unloaded
    /\ stage = "final" => Announced(mem, plan.mem, head)
    /\ Committing => \A o \in journal : Announced(mem, plan.mem, EndHead(o))

\* The step of AnnouncedFinality.
AnnounceStep ==
    /\ mem # Unloaded /\ mem' # Unloaded
    /\ stage = "idle" \/ head \notin DOMAIN mem.slotOf
    /\ Finalized(mem, head) # Finalized(mem', head)
    => mem'.follower.final = Finalized(mem', head)

\* Every step that moves the finalized block leaves it announced.
LEMMA AnnounceKept ==
    ASSUME Inv, AnnounceGood, [Next]_vars
    PROVE  AnnounceGood' /\ AnnounceStep
<1>1. CASE PreparedCommand
  <2>1. PICK kind, p, builds, used : Prepared(kind, p, builds, used)
    BY <1>1, CommandPrepared, Zenon
  <2>7. PICK o : Journaled(o, kind, p, builds)
    BY <2>1, PrepareIs
  <2>2. /\ o.kind = kind /\ o.oldHead = head /\ o.target = p.block
        /\ journal' = {o} /\ stage' = "prepared" /\ status' = "up" /\ mem' = mem /\ plan'.mem = p.mem
    BY <2>7, Zenon DEF Journaled
  <2>3. Ready /\ (kind = "head" => Announced(mem, p.mem, p.block))
    BY <2>1, Zenon DEF Prepared
  <2>4. kind # "head" => Announced(mem, p.mem, head)
    <3>1. head \in DOMAIN mem.slotOf
      BY <2>3, ReadyGood, Zenon DEF Sound
    <3> QED
      BY <3>1 DEF Announced
  <2>5. Announced(mem, p.mem, EndHead(o))
    BY <2>2, <2>3, <2>4, Zenon DEF EndHead
  <2>6. AnnounceGood'
    BY <2>2, <2>5, Zenon DEF AnnounceGood, Committing, EndHead
  <2> QED
    BY Zenon, <2>2, <2>6 DEF AnnounceStep
<1>2. CASE AuxiliaryCommand
  <2>1. AuxiliaryStep
    BY Zenon, <1>2, AuxiliaryCommandIs
  <2>2. status' = "up" /\ stage' = "idle"
    BY <2>1 DEF AuxiliaryStep, Ready
  <2> QED
    BY Zenon, <2>1, <2>2 DEF AnnounceGood, AnnounceStep, AuxiliaryStep, Committing
<1>3. CASE QuietStep
  <2>1. UNCHANGED <<head, journal, stage, status, mem>> /\ (stage # "idle" => plan' = plan)
    BY <1>3 DEF QuietStep
  <2> QED
    BY <2>1, Zenon DEF AnnounceGood, AnnounceStep, Committing, EndHead
<1>4. CASE Step
  <2>1. UNCHANGED <<mem, plan, status>> /\ stage # "idle" /\ status = "up" /\ writeErr = FALSE
    BY <1>4, StepIs, Zenon
  <2>2. PICK o : CommitStep(o)
    BY <1>4, StepIs, Zenon
  <2>3. journal = {o}
    BY <2>2, Zenon DEF CommitStep
  <2>4. Committing
    BY <2>1, <2>3, Zenon DEF Inv, Shape, Writable
  <2>5. Announced(mem, plan.mem, EndHead(o))
    BY <2>3, <2>4, Zenon DEF AnnounceGood
  <2>6. CASE stage' # "final"
    <3>1. journal' = {o}
      BY Zenon, <2>2, <2>6 DEF CommitStep
    <3> QED
      BY <2>1, <2>5, <2>6, <3>1, Zenon DEF AnnounceGood, AnnounceStep, EndHead
  <2>7. CASE stage' = "final"
    <3>1. head' = head /\ head = EndHead(o)
      BY <2>2, <2>3, <2>7 DEF CommitStep, Mutated, EndHead, Inv, Shape, OperationShape
    <3>2. ~Committing'
      BY Zenon, <2>7 DEF Committing
    <3> QED
      BY <2>1, <2>5, <3>1, <3>2, Zenon DEF AnnounceGood, AnnounceStep
  <2> QED
    BY Zenon, <2>6, <2>7
<1>5. CASE Apply
  <2>1. stage = "final" /\ mem' = plan.mem /\ stage' \in {"rebuild", "idle"} /\ status' = status
    BY Zenon, <1>5 DEF Apply
  <2>2. status = "up"
    BY Zenon, <2>1 DEF Inv, Shape, Writable
  <2>3. Announced(mem, plan.mem, head)
    BY Zenon, <2>1 DEF AnnounceGood
  <2>4. AnnounceStep
    BY Zenon, <2>1, <2>3 DEF AnnounceStep, Announced
  <2> QED
    BY <2>1, <2>2, <2>4 DEF AnnounceGood, Committing
<1>6. CASE Rebuild \/ Error \/ Torn \/ Recover \/ Refuse
  <2>1. mem' = mem
    BY <1>6, Zenon DEF Rebuild, Error, Torn, Recover, Refuse, chainVars
  <2>2. stage' = "idle"
    <3>1. status # "up" => stage = "idle"
      BY DEF Inv, Shape, Writable
    <3> QED
      BY Zenon, <1>6, <3>1 DEF Rebuild, Error, Torn, FailCommit, TornSetCanonical, Recover, Recovery, StartAgain,
              RecoverFinalize, RecoverDiscard, RecoverCancel, RecoverMismatch, Refuse
  <2>3. status' # "up" => status # "up"
    BY Zenon, <1>6 DEF Rebuild, Error, Torn, FailCommit, TornSetCanonical, Recover, Recovery, StartAgain,
              RecoverFinalize, RecoverDiscard, RecoverCancel, RecoverMismatch, Refuse
  <2> QED
    BY <2>1, <2>2, <2>3 DEF AnnounceGood, AnnounceStep, Committing
<1>7. CASE Stop
  <2>1. mem' = Unloaded /\ stage' = "idle"
    BY Zenon, <1>7 DEF Stop, Crash
  <2> QED
    BY <2>1 DEF AnnounceGood, AnnounceStep, Committing
<1>8. CASE Open
  <2>1. status = "down" /\ status' = "up" /\ stage' = stage
    BY Zenon, <1>8 DEF Open
  <2>2. mem = Unloaded /\ stage = "idle"
    BY <2>1 DEF AnnounceGood, Inv, Shape, Writable
  <2> QED
    BY Zenon, <2>1, <2>2 DEF AnnounceGood, AnnounceStep, Committing
<1> QED
  BY <1>1, <1>2, <1>3, <1>4, <1>5, <1>6, <1>7, <1>8, NextIs, Zenon

\* A finalized checkpoint that changes is announced by the commit that
\* changes it.
THEOREM FinalityIsAnnounced == Spec => AnnouncedFinality
<1>1. Init => AnnounceGood
  BY DEF Init, AnnounceGood, Committing
<1>2. Inv /\ AnnounceGood /\ [Next]_vars => AnnounceGood'
  BY AnnounceKept
<1>3. Inv /\ AnnounceGood /\ [Next]_vars => [AnnounceStep]_vars
  BY AnnounceKept
<1>4. [AnnounceStep]_vars <=>
      [/\ mem # Unloaded /\ mem' # Unloaded
       /\ stage = "idle" \/ head \notin DOMAIN mem.slotOf
       /\ Finalized(mem, head) # Finalized(mem', head)
       => mem'.follower.final = Finalized(mem', head)]_vars
  BY DEF AnnounceStep
<1> QED
  BY <1>1, <1>2, <1>3, <1>4, Invariant, PTL DEF Spec, AnnouncedFinality

\* A move of the head from old to target that passes through blocks which all
\* descend from a.
Keeps(a, target, old) == a \in Chain(target) /\ \A b \in PathFrom(target, old) : a \in Chain(b)

\* Without snapshots to revert to, every commit under way that moves the head
\* keeps the finalized block.
HistoryGood ==
    /\ DOMAIN snapshots = {}
    /\ Committing => \A o \in journal : o.kind = "head" => Keeps(Finalized(mem, o.oldHead).block, o.target, o.oldHead)

\* What moves the head of a node without checkpoints and snapshots: blocks on
\* top of it, and switches that fork off at or above the finalized block.
LEMMA HistoryPrepared ==
    ASSUME Inv, \/ Mine \/ ApplyControl
                \/ \E name \in Branches : MineBranch(name) \/ SwitchBranch(name)
    PROVE  \E kind, p, builds, used :
              /\ Commit(kind, p, builds, used)
              /\ kind = "head" => Keeps(Finalized(mem, head).block, p.block, head)
<1> DEFINE final == Finalized(mem, head).block
<1>1. Ready
  BY Zenon DEF Mine, ApplyControl, MineBranch, SwitchBranch
<1>2. /\ Sound(mem, head) /\ IsTimeline(mem.timeline) /\ IsQueue(mem.queue) /\ Image(mem)
      /\ IsFollower(mem.follower) /\ IsBlock(head) /\ GoodBlock(head)
  BY <1>1, ReadyGood, Zenon DEF Inv, DiskGood, Good, StoredAs
<1>3. final \in Chain(head)
  <2>1. Indexed(mem) /\ mem.timeline.slot \in Nat /\ mem.timeline.frozen \in Nat
    BY Zenon, <1>2 DEF Sound, IndexOf, Indexed, IsTimeline
  <2> QED
    BY Zenon, <1>2, <2>1, FinalizedCanonical
<1> HIDE DEF final
<1>4. CASE Mine \/ ApplyControl
  <2>1. PICK kind : Commit("head", HeadBlockPlan(mem, head, kind), TRUE, {})
    BY <1>4, Zenon DEF Mine, ApplyControl
  <2> DEFINE p == HeadBlockPlan(mem, head, kind)
             slot == mem.timeline.slot + 1
             header == [slot |-> slot, kind |-> kind, controls |-> Consumed(mem.queue, slot)]
             b == Build(head, slot, kind, mem.queue)
  <2>2. p.block = b
    <3>1. HeadPlan(p, mem, head, kind)
      BY <1>2, HeadPlanIs
    <3> HIDE DEF p
    <3> QED
      BY <3>1, Zenon DEF HeadPlan
  <2>3. slot \in Nat
    BY <1>2 DEF IsTimeline
  <2>4. ChildOf(b, head, header)
    BY Zenon, <1>2, <2>3, BuildIs DEF Built
  <2> HIDE DEF b, p, header
  <2>5. Chain(b) = Chain(head) \cup {b}
    BY Zenon, <1>2, <2>4, Child
  <2>6. Keeps(final, p.block, head)
    BY Zenon, <1>3, <2>2, <2>5 DEF Keeps, PathFrom
  <2> QED
    BY <2>1, <2>6, Zenon DEF p, final
<1>5. CASE \E name \in Branches : MineBranch(name)
  <2>1. \E p : Commit("block", p, TRUE, {}) /\ "block" # "head"
    BY Zenon, <1>5 DEF MineBranch
  <2> QED
    BY <2>1, Zenon
<1>6. CASE \E name \in Branches : SwitchBranch(name)
  <2>1. PICK name : SwitchBranch(name)
    BY <1>6, Zenon
  <2> DEFINE target == mem.branches[name].head
             p == SwitchPlan(mem, aux, head, target, Lookup(mem.slotOf, target, SlotOf(target)))
  <2>2. /\ name \in DOMAIN mem.branches /\ Number(CommonAncestor(head, target)) >= Number(final)
        /\ Commit("head", p, FALSE, {})
    BY <2>1, Zenon DEF SwitchBranch, SwitchCanonical, final
  <2>3. GoodBlock(target)
    BY <1>2, <2>2, Zenon DEF Sound, GoodBranch, AllKnown, KnownBlock
  <2>4. p.block = target
    BY DEF SwitchPlan
  <2> HIDE DEF target, p
  <2>5. Keeps(final, p.block, head)
    BY Zenon, <1>2, <1>3, <2>2, <2>3, <2>4, ForkKeeps DEF Keeps
  <2> QED
    BY <2>2, <2>5, Zenon DEF final
<1> QED
  BY <1>4, <1>5, <1>6

\* The step of FinalizedHistoryKept.
HistoryStep == head' # head /\ mem # Unloaded => Finalized(mem, head).block \in Chain(head')

\* Without restores, every step keeps the finalized block on the head's chain.
LEMMA HistoryKept ==
    ASSUME Inv, HistoryGood, Checkpoints = {}, "Snapshot" \notin Commands, [Next]_vars
    PROVE  HistoryGood' /\ HistoryStep
<1>1. CASE PreparedCommand
  <2>1. Mine \/ ApplyControl \/ \E name \in Branches : MineBranch(name) \/ SwitchBranch(name)
    BY Zenon, <1>1 DEF PreparedCommand, HistoryGood
  <2>2. PICK kind, p, builds, used : /\ Commit(kind, p, builds, used)
                                     /\ kind = "head" => Keeps(Finalized(mem, head).block, p.block, head)
    BY <2>1, HistoryPrepared, Zenon
  <2> DEFINE o == Operation(kind, p, builds)
  <2>3. o.kind = kind /\ o.oldHead = head /\ o.target = p.block
    BY DEF Operation
  <2>4. journal' = {o} /\ head' = head /\ mem' = mem /\ snapshots' = snapshots
    BY <2>2, Zenon DEF Commit, Prepare
  <2> HIDE DEF o
  <2> QED
    BY <2>2, <2>3, <2>4, Zenon DEF HistoryGood, HistoryStep
<1>2. CASE AuxiliaryCommand
  <2>1. /\ stage' = "idle" /\ head' = head /\ snapshots' = snapshots
    BY Zenon, <1>2, AuxiliaryCommandIs DEF AuxiliaryStep, Ready
  <2> QED
    BY Zenon, <2>1 DEF HistoryGood, HistoryStep, Committing
<1>3. CASE (\E id \in DOMAIN snapshots : RevertInPlace(id)) \/ UNCHANGED vars
  <2>1. UNCHANGED vars
    BY Zenon, <1>3 DEF HistoryGood
  <2>2. UNCHANGED <<head, journal, stage, mem, snapshots>>
    BY Zenon, <2>1 DEF vars, commitVars, chainVars
  <2> QED
    BY <2>2, Zenon DEF HistoryGood, HistoryStep, Committing
<1>4. CASE Step
  <2>1. UNCHANGED <<mem, snapshots, status>> /\ stage # "idle" /\ status = "up" /\ writeErr = FALSE
    BY <1>4, StepIs, Zenon
  <2>2. PICK o : CommitStep(o)
    BY <1>4, StepIs, Zenon
  <2>3. journal = {o}
    BY <2>2, Zenon DEF CommitStep
  <2>4. Committing
    BY <2>1, <2>3, Zenon DEF Inv, Shape, Writable
  <2>5. o.kind = "head" => Keeps(Finalized(mem, o.oldHead).block, o.target, o.oldHead)
    BY <2>3, <2>4, Zenon DEF HistoryGood
  <2>6. HistoryGood'
    <3>1. journal' = {o} \/ journal' = {}
      BY Zenon, <2>2 DEF CommitStep, Finalize
    <3> QED
      BY <2>1, <2>5, <3>1, Zenon DEF HistoryGood
  <2>7. head' = head \/ (o.kind = "head" /\ head = o.oldHead /\ head' = o.target)
    BY Zenon, <2>2, <2>3 DEF CommitStep, BeforeSetCanonical, Inv, Shape, OperationShape
  <2> QED
    BY <2>5, <2>6, <2>7, Zenon DEF HistoryStep, Keeps
<1>5. CASE Torn
  <2>1. PICK o \in journal : \E b \in PathFrom(o.target, head) : TornSetCanonical(b)
    BY <1>5, Zenon DEF Torn
  <2>2. stage' = "idle" /\ mem' = mem /\ snapshots' = snapshots /\ head' \in PathFrom(o.target, head)
    BY <1>5, <2>1, Zenon DEF Torn, TornSetCanonical
  <2>3. BeforeSetCanonical(o)
    <3>1. \A q \in journal : q = o
      BY Zenon, <2>1 DEF Inv, Shape
    <3> QED
      BY <2>1, <3>1, Zenon DEF TornSetCanonical
  <2>4. Committing /\ o.kind = "head" /\ head = o.oldHead
    BY Zenon, <2>1, <2>3 DEF BeforeSetCanonical, Committing, Inv, Shape, OperationShape
  <2>5. Finalized(mem, head).block \in Chain(head')
    BY <2>1, <2>2, <2>4, Zenon DEF HistoryGood, Keeps
  <2> QED
    BY Zenon, <2>2, <2>5 DEF HistoryGood, HistoryStep, Committing
<1>6. CASE Apply \/ Rebuild \/ Error \/ Stop \/ Recover \/ Open \/ Refuse
  <2>1. head' = head
    BY <1>6, Zenon DEF Apply, Rebuild, Error, FailCommit, Stop, Crash, Recover, Recovery, StartAgain, RecoverFinalize,
            RecoverDiscard, RecoverCancel, RecoverMismatch, Open, Refuse, disk
  <2>2. stage' \in {"rebuild", "idle"}
    <3>1. status # "up" => stage = "idle"
      BY DEF Inv, Shape, Writable
    <3> QED
      BY Zenon, <1>6, <3>1 DEF Apply, Rebuild, Error, FailCommit, Stop, Crash, Recover, Recovery, StartAgain, RecoverFinalize,
              RecoverDiscard, RecoverCancel, RecoverMismatch, Open, Refuse
  <2>3. DOMAIN snapshots' = {}
    <3>1. snapshots' = snapshots \/ snapshots' = <<>> \/ DOMAIN snapshots' = DOMAIN snapshots
      BY <1>6 DEF Apply, Rebuild, Error, Stop, Recover, Open, Refuse, chainVars
    <3> QED
      BY <3>1 DEF HistoryGood
  <2> QED
    BY <2>1, <2>2, <2>3 DEF HistoryGood, HistoryStep, Committing
<1>7. CASE Snapshot
  BY <1>7 DEF Snapshot
<1> QED
  BY <1>1, <1>2, <1>3, <1>4, <1>5, <1>6, <1>7, Zenon DEF Next, PreparedCommand, AuxiliaryCommand

\* A node that is not given checkpoints and snapshots never takes the
\* finalized block off the canonical chain, also when a reorganisation stops
\* half way.
THEOREM HistoryIsKept ==
    ASSUME Checkpoints = {}, "Snapshot" \notin Commands
    PROVE  Spec => FinalizedHistoryKept
<1>1. Init => HistoryGood
  BY DEF Init, HistoryGood, Committing
<1>2. Inv /\ HistoryGood /\ [Next]_vars => HistoryGood'
  BY Zenon, HistoryKept
<1>3. Inv /\ HistoryGood /\ [Next]_vars => [HistoryStep]_vars
  BY Zenon, HistoryKept
<1>4. [HistoryStep]_vars <=>
      [head' # head /\ mem # Unloaded => Finalized(mem, head).block \in Chain(head')]_vars
  BY DEF HistoryStep
<1> QED
  BY <1>1, <1>2, <1>3, <1>4, Invariant, PTL DEF Spec, FinalizedHistoryKept

=============================================================================
