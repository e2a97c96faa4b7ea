-------------------------- MODULE ChainNodeProofs --------------------------
(***************************************************************************)
(* The write commands of ChainNode, proved for every number of slots,      *)
(* blocks, branches, checkpoints, snapshots and requests: an inductive     *)
(* invariant over memory, database, journal and geth's head, and what      *)
(* follows from it.                                                        *)
(***************************************************************************)
EXTENDS ChainNode, ChainPlanProofs

-----------------------------------------------------------------------------
(* The inductive invariant.                                                *)

\* What the batch of the journaled operation makes of the database, and where
\* its mutation puts the head.
AfterOf(o) == Batch(aux, o.puts, o.deletes)
EndHead(o) == IF o.kind = "head" THEN o.target ELSE o.oldHead

\* A commit under way: from the journal to the batch.
Committing == stage \in {"prepared", "nodes", "block", "mutated"}
Writable == status = "up" /\ ~writeErr

\* Where the head is at each point of a commit.
OperationShape(o) ==
    /\ o.kind \in {"head", "block"}
    /\ (stage \in {"prepared", "nodes", "block"} \/ o.kind = "block") => head = o.oldHead
    /\ stage = "mutated" => o.kind = "head" /\ head = o.target
    /\ stage \in {"nodes", "block"} => Builds(o)

Shape ==
    /\ \A o, p \in journal : o = p
    /\ stage \in {"idle", "final", "rebuild"} \/ Committing
    /\ status \in Statuses /\ writeErr \in BOOLEAN
    /\ stage # "idle" => Writable
    /\ Writable => (Committing <=> journal # {})
    /\ status # "up" => ~writeErr /\ snapshots = <<>>
    /\ \A o \in journal : OperationShape(o)

\* Every stored block has its state, and a cancellation takes none away.
NodesKept ==
    /\ \A b \in blocks : NodesOf(b) \subseteq nodes
    /\ \A o \in journal :
          /\ Builds(o) => o.executionPuts = NodesOf(o.target)
          /\ ~Builds(o) => o.rollbackDeletes = {}
          /\ \A b \in blocks : b # o.target => NodesOf(b) \cap o.rollbackDeletes = {}
          /\ stage \in {"nodes", "block"} => o.executionPuts \subseteq nodes
          /\ status = "discarded" /\ Builds(o) => o.target \notin blocks

\* The database holds an image at each end of the journaled operation.
DiskGood ==
    /\ journal = {} => \E m : Good(m, aux, head)
    /\ \A o \in journal : \E m, n : Good(m, aux, o.oldHead) /\ Good(n, AfterOf(o), EndHead(o)) /\ Grows(m, n)
    /\ GoodBlock(head)

\* The image in memory is stored, and the one of a plan will be.
MemoryGood ==
    /\ Writable /\ stage \in {"idle", "rebuild"} => Good(mem, aux, head)
    /\ stage = "final" => Good(plan.mem, aux, head) /\ Grows(mem, plan.mem)
    /\ Committing => \A o \in journal :
          Good(mem, aux, o.oldHead) /\ Good(plan.mem, AfterOf(o), EndHead(o)) /\ Grows(mem, plan.mem)
    /\ Committing => plan.rebuild = (\A o \in journal : o.kind = "head")

\* The pending view is built for the head, the slot and the FIFO.
PendingGood ==
    /\ Ready => pending = Candidate(mem, head)
    /\ (Committing \/ stage = "final") /\ ~plan.rebuild =>
          /\ pending = Candidate(mem, head)
          /\ plan.mem.timeline = mem.timeline /\ plan.mem.queue = mem.queue

\* Snapshots are of blocks with metadata, and lost with the process.
SnapshotsGood ==
    /\ IsFIFO(snapshots)
    /\ Writable => \A id \in DOMAIN snapshots :
          /\ snapshots[id] = [block |-> snapshots[id].block, slot |-> snapshots[id].slot, used |-> snapshots[id].used]
          /\ GoodPoint(mem, snapshots[id])

\* The slot index names blocks of its slots, also once writes are disabled.
IndexGood == status = "up" => \A s \in DOMAIN mem.canon : SlotOf(mem.canon[s]) = s

Inv ==
    /\ Shape /\ NodesKept /\ DiskGood /\ MemoryGood
    /\ PendingGood /\ SnapshotsGood /\ IndexGood

\* A step leaves the stored keys alone, or takes them from an image to another
\* that keeps the session's taint.
SessionKept == aux' = aux \/ \E m, n, h, g : Good(m, aux, h) /\ Good(n, aux', g) /\ Grows(m, n)

-----------------------------------------------------------------------------
(* Commands.                                                               *)

\* commitPrepared starts on a plan: the image is good once the batch is
\* written, the block is new only if the command builds it, and the finalized
\* checkpoint of a new head is announced.
Prepared(kind, p, builds, used) ==
    /\ Ready /\ Commit(kind, p, builds, used) /\ kind \in {"head", "block"} /\ builds \in BOOLEAN
    /\ Plans(p, mem, aux, IF kind = "head" THEN p.block ELSE head)
    /\ kind = "block" => builds /\ p.mem.timeline = mem.timeline /\ p.mem.queue = mem.queue
    /\ ~builds => p.block \in DOMAIN mem.safety
    /\ kind = "head" => Announced(mem, p.mem, p.block)

\* What commitPrepared writes first: the journal of the operation o.
Journaled(o, kind, p, builds) ==
    /\ o.kind = kind /\ o.oldHead = head /\ o.target = p.block
    /\ o.puts = p.puts /\ o.deletes = p.deletes /\ Builds(o) = builds
    /\ o.executionPuts = (IF builds THEN NodesOf(p.block) ELSE {})
    /\ o.rollbackDeletes = (IF builds THEN NodesOf(p.block) \ nodes ELSE {})
    /\ journal' = {o} /\ stage' = "prepared" /\ status' = "up" /\ writeErr' = FALSE
    /\ aux' = aux /\ nodes' = nodes /\ blocks' = blocks /\ head' = head
    /\ mem' = mem /\ snapshots' = snapshots /\ pending' = pending
    /\ status = "up" /\ stage = "idle" /\ writeErr = FALSE
    /\ plan'.mem = p.mem /\ plan'.rebuild = (kind = "head")

\* prepareCommit journals an operation that can finish, and changes nothing else.
LEMMA PrepareIs ==
    ASSUME Inv, NEW kind, NEW p, NEW builds, NEW used, Prepared(kind, p, builds, used)
    PROVE  \E o : Journaled(o, kind, p, builds)
<1> DEFINE o == Operation(kind, p, builds)
<1>1. kind \in {"head", "block"} /\ builds \in BOOLEAN /\ (kind = "block" => builds)
  BY Zenon DEF Prepared
<1>2. /\ o.kind = kind /\ o.oldHead = head /\ o.target = p.block /\ o.puts = p.puts /\ o.deletes = p.deletes
      /\ Builds(o) = builds
      /\ o.executionPuts = (IF builds THEN NodesOf(p.block) ELSE {})
      /\ o.rollbackDeletes = (IF builds THEN NodesOf(p.block) \ nodes ELSE {})
  BY <1>1 DEF Operation, Builds, RollbackDeletes
<1>3. /\ journal' = {o} /\ stage' = "prepared" /\ status' = "up" /\ writeErr' = FALSE
      /\ UNCHANGED <<aux, nodes, blocks, head, mem, snapshots, pending>>
      /\ plan' = [mem |-> p.mem, used |-> used, rebuild |-> kind = "head"]
      /\ status = "up" /\ stage = "idle" /\ writeErr = FALSE
  BY Zenon DEF Prepared, Commit, Prepare, Ready, Inv, Shape
<1> HIDE DEF o
<1>4. plan'.mem = p.mem /\ plan'.rebuild = (kind = "head")
  BY <1>3
<1>5. Journaled(o, kind, p, builds)
  BY Zenon, <1>2, <1>3, <1>4 DEF Journaled
<1> QED
  BY Zenon, <1>5

\* commitPrepared writes the journal of a plan whose image is good.
LEMMA PrepareKept ==
    ASSUME Inv, NEW kind, NEW p, NEW builds, NEW used, Prepared(kind, p, builds, used)
    PROVE  Inv'
<1>11. PICK o : Journaled(o, kind, p, builds)
  BY PrepareIs
<1>1. /\ o.kind = kind /\ o.oldHead = head /\ o.target = p.block /\ o.puts = p.puts /\ o.deletes = p.deletes
      /\ Builds(o) = builds
      /\ o.executionPuts = (IF builds THEN NodesOf(p.block) ELSE {})
      /\ o.rollbackDeletes = (IF builds THEN NodesOf(p.block) \ nodes ELSE {})
  BY Zenon, <1>11 DEF Journaled
<1>2. /\ journal' = {o} /\ stage' = "prepared" /\ status' = "up" /\ writeErr' = FALSE
      /\ aux' = aux /\ nodes' = nodes /\ blocks' = blocks /\ head' = head
      /\ mem' = mem /\ snapshots' = snapshots /\ pending' = pending /\ status = "up" /\ stage = "idle"
  BY Zenon, <1>11 DEF Journaled
<1>3. plan'.mem = p.mem /\ plan'.rebuild = (kind = "head")
  BY Zenon, <1>11 DEF Journaled
<1>10. /\ kind \in {"head", "block"} /\ builds \in BOOLEAN /\ (kind = "block" => builds)
       /\ Ready /\ Grows(mem, p.mem)
       /\ Good(p.mem, Batch(aux, p.puts, p.deletes), IF kind = "head" THEN p.block ELSE head)
       /\ kind = "block" => p.mem.timeline = mem.timeline /\ p.mem.queue = mem.queue
  BY Zenon DEF Prepared, Plans
<1>4. Shape'
  BY Zenon, <1>1, <1>2, <1>10 DEF Inv, Shape, OperationShape, Committing, Writable, Statuses
<1>5. NodesKept'
  BY Zenon, <1>1, <1>2, <1>10 DEF Inv, NodesKept
<1>6. Good(mem, aux, head)
  BY <1>10 DEF Inv, MemoryGood, Ready, Writable
<1>7. DiskGood' /\ MemoryGood'
  BY Zenon, <1>1, <1>2, <1>3, <1>6, <1>10 DEF Inv, DiskGood, MemoryGood, AfterOf, EndHead, Committing, Writable
<1>8. PendingGood'
  BY Zenon, <1>1, <1>2, <1>3, <1>10 DEF Inv, PendingGood, Ready
<1>9. SnapshotsGood' /\ IndexGood'
  BY <1>2, <1>10 DEF Inv, SnapshotsGood, IndexGood, Writable, Ready
<1> QED
  BY Zenon, <1>4, <1>5, <1>7, <1>8, <1>9 DEF Inv

\* commitAuxiliary writes a good image and installs it.
LEMMA AuxiliaryKept ==
    ASSUME Inv, Ready, NEW puts, NEW image, AuxiliaryCommit(puts, image),
           Good(image, Batch(aux, puts, {}), head), Grows(mem, image), pending' = Candidate(image, head)
    PROVE  Inv' /\ SessionKept
<1>1. /\ aux' = Batch(aux, puts, {}) /\ mem' = image
      /\ nodes' = nodes /\ blocks' = blocks /\ head' = head /\ journal' = journal /\ plan' = plan
      /\ stage' = stage /\ status' = status /\ writeErr' = writeErr /\ snapshots' = snapshots
      /\ status = "up" /\ stage = "idle" /\ ~writeErr /\ journal = {}
  BY Zenon DEF AuxiliaryCommit, CommitAuxiliary, Ready, Inv, Shape, Writable, Committing
<1>2. Shape' /\ NodesKept'
  BY Zenon, <1>1 DEF Inv, Shape, NodesKept, Committing, Writable
<1>3. DiskGood' /\ MemoryGood' /\ PendingGood'
  BY Zenon, <1>1 DEF Inv, DiskGood, MemoryGood, PendingGood, Committing, Writable, Ready
<1>4. SnapshotsGood' /\ IndexGood'
  BY <1>1 DEF Inv, SnapshotsGood, IndexGood, Writable, GoodPoint, Grows, Good, Sound, IndexOf
<1>5. SessionKept
  BY <1>1, Zenon DEF SessionKept, Inv, MemoryGood, Writable
<1> QED
  BY <1>2, <1>3, <1>4, <1>5 DEF Inv

\* Mining and control blocks on top of the head.
LEMMA HeadCommandPrepared ==
    ASSUME Inv, Mine \/ ApplyControl
    PROVE  \E kind, p, builds, used : Prepared(kind, p, builds, used)
<1>1. PICK kind : Ready /\ Commit("head", HeadBlockPlan(mem, head, kind), TRUE, {})
  BY Zenon DEF Mine, ApplyControl
<1> DEFINE p == HeadBlockPlan(mem, head, kind)
<1>2. Good(mem, aux, head)
  BY <1>1 DEF Inv, MemoryGood, Ready, Writable
<1>3. Plans(p, mem, aux, p.block) /\ Announced(mem, p.mem, p.block)
  BY <1>2, HeadPlanGood, HeadAnnounced, Zenon
<1> HIDE DEF p
<1>4. Ready /\ Commit("head", p, TRUE, {})
  BY Zenon, <1>1 DEF p
<1>5. Prepared("head", p, TRUE, {})
  BY Zenon, <1>3, <1>4 DEF Prepared
<1> QED
  BY <1>5, Zenon

\* A block on top of a branch.
LEMMA MineBranchPrepared ==
    ASSUME Inv, NEW name \in Branches, MineBranch(name)
    PROVE  \E kind, p, builds, used : Prepared(kind, p, builds, used)
<1> DEFINE p == BranchBlockPlan(mem, name)
<1>1. Ready /\ name \in DOMAIN mem.branches /\ Commit("block", p, TRUE, {})
  BY Zenon DEF MineBranch
<1>2. Good(mem, aux, head) /\ name # "control"
  BY <1>1, BranchAssumption DEF Inv, MemoryGood, Ready, Writable
<1>3. Plans(p, mem, aux, head) /\ p.mem.timeline = mem.timeline /\ p.mem.queue = mem.queue
  BY <1>1, <1>2, BranchPlanGood, Zenon
<1> HIDE DEF p
<1>4. Prepared("block", p, TRUE, {})
  BY Zenon, <1>1, <1>3 DEF Prepared
<1> QED
  BY <1>4, Zenon

\* A switch to a block with metadata, at its slot or a later one.
LEMMA SwitchPrepared ==
    ASSUME Inv, Ready, NEW target \in DOMAIN mem.safety, NEW slot \in Nat, SlotOf(target) <= slot,
           NEW used, SwitchCanonical(target, slot, used)
    PROVE  \E kind, p, builds : Prepared(kind, p, builds, used)
<1> DEFINE p == SwitchPlan(mem, aux, head, target, slot)
<1>1. Commit("head", p, FALSE, used)
  BY Zenon DEF SwitchCanonical
<1>2. Good(mem, aux, head)
  BY DEF Inv, MemoryGood, Ready, Writable
<1>3. Plans(p, mem, aux, target)
  BY <1>2, SwitchPlanGood, Zenon
<1>4. p.block = target
  BY DEF SwitchPlan
<1> HIDE DEF p
<1>5. target \in DOMAIN mem.slotOf
  BY <1>2 DEF Good, Sound
<1>6. Prepared("head", p, FALSE, used)
  BY Zenon, <1>1, <1>3, <1>4, <1>5 DEF Prepared, Announced
<1> QED
  BY <1>6, Zenon

\* Switches to a branch, to a checkpoint and back to a snapshot.
LEMMA SwitchCommandPrepared ==
    ASSUME Inv, \/ \E name \in Branches : SwitchBranch(name)
                \/ \E name \in Checkpoints : Restore(name)
                \/ \E id \in DOMAIN snapshots : Revert(id)
    PROVE  \E kind, p, builds, used : Prepared(kind, p, builds, used)
<1>1. PICK target, slot, used :
        /\ Ready /\ SwitchCanonical(target, slot, used)
        /\ \/ \E name \in DOMAIN mem.branches :
                 target = mem.branches[name].head /\ slot = Lookup(mem.slotOf, target, SlotOf(target))
           \/ \E name \in DOMAIN mem.checkpoints :
                 target = mem.checkpoints[name].block /\ slot = mem.checkpoints[name].slot
           \/ \E id \in DOMAIN snapshots : target = snapshots[id].block /\ slot = snapshots[id].slot
  BY Zenon DEF SwitchBranch, Restore, Revert
<1>2. /\ \A b \in DOMAIN mem.slotOf : mem.slotOf[b] = SlotOf(b)
      /\ \A b \in DOMAIN mem.safety : SlotOf(b) \in Nat
      /\ \A name \in DOMAIN mem.checkpoints : GoodPoint(mem, mem.checkpoints[name])
      /\ \A name \in DOMAIN mem.branches : GoodBranch(mem, mem.branches[name])
      /\ \A id \in DOMAIN snapshots : GoodPoint(mem, snapshots[id])
  <2>1. Sound(mem, head) /\ Writable
    BY <1>1 DEF Inv, MemoryGood, Ready, Writable, Good
  <2>2. \A b \in DOMAIN mem.safety : GoodBlock(b)
    BY <2>1, Zenon DEF Sound, AllKnown, KnownBlock
  <2> QED
    BY <2>1, <2>2, SlotOfGood DEF Sound, Inv, SnapshotsGood, GoodCheckpoint
<1>3. target \in DOMAIN mem.safety /\ slot \in Nat /\ SlotOf(target) <= slot
  <2>1. CASE \E name \in DOMAIN mem.branches :
                target = mem.branches[name].head /\ slot = Lookup(mem.slotOf, target, SlotOf(target))
    <3>1. target \in DOMAIN mem.safety /\ slot = Lookup(mem.slotOf, target, SlotOf(target))
      BY <1>2, <2>1, Zenon DEF GoodBranch
    <3>2. slot = SlotOf(target)
      BY <1>2, <3>1, Zenon DEF Lookup
    <3> QED
      BY <1>2, <3>1, <3>2
  <2>2. CASE \E point : GoodPoint(mem, point) /\ target = point.block /\ slot = point.slot
    BY Zenon, <2>2 DEF GoodPoint
  <2> QED
    BY <1>1, <1>2, <2>1, <2>2, Zenon
<1> QED
  BY <1>1, <1>3, SwitchPrepared, Zenon

\* The commands that go through commitPrepared.
PreparedCommand ==
    \/ Mine \/ ApplyControl
    \/ \E name \in Branches : MineBranch(name) \/ SwitchBranch(name)
    \/ \E name \in Checkpoints : Restore(name)
    \/ \E id \in DOMAIN snapshots : Revert(id)

\* Every command that goes through the commit journal prepares an operation.
LEMMA CommandPrepared ==
    ASSUME Inv, PreparedCommand
    PROVE  \E kind, p, builds, used : Prepared(kind, p, builds, used)
  BY Zenon, HeadCommandPrepared, MineBranchPrepared, SwitchCommandPrepared DEF PreparedCommand

\* What a command finds: a stored image, and the pending view of it.
LEMMA ReadyGood ==
    ASSUME Inv, Ready
    PROVE  /\ Good(mem, aux, head) /\ Sound(mem, head) /\ pending = Candidate(mem, head)
           /\ IsImage(mem, mem.timeline, mem.canon, mem.slotOf, mem.safety, mem.session, mem.queue,
                      mem.checkpoints, mem.branches, mem.follower)
           /\ head \in DOMAIN mem.safety /\ SlotOf(head) \in Nat /\ SlotOf(head) <= mem.timeline.slot
           /\ IsTimeline(mem.timeline) /\ IsQueue(mem.queue) /\ IsFollower(mem.follower)
           /\ IsBlock(head) /\ Chain(head) \subseteq DOMAIN mem.safety
           /\ Ledger(DOMAIN mem.safety, mem.queue, aux, head)
<1>1. Good(mem, aux, head) /\ pending = Candidate(mem, head)
  BY DEF Inv, MemoryGood, PendingGood, Ready, Writable
<1>2. Sound(mem, head) /\ Image(mem)
  BY <1>1, Zenon DEF Good, StoredAs
<1>3. GoodBlock(head) /\ Chain(head) \subseteq DOMAIN mem.safety
  BY <1>2, Zenon DEF Sound, AllKnown, KnownBlock
<1>4. SlotOf(head) \in Nat /\ IsBlock(head)
  BY <1>3, SlotOfGood, Zenon DEF GoodBlock
<1> QED
  BY <1>1, <1>2, <1>3, <1>4, ImageIs, Zenon DEF Sound, Good, Records

\* The taint that checkpoints and branches take from a block's metadata.
LEMMA TaintKnown ==
    ASSUME Inv, Ready, NEW b \in DOMAIN mem.safety
    PROVE  Lookup(mem.safety, b, Clean).tainted = (UnsafeIn(b) # {})
<1>1. Exact(mem.safety[b], b)
  BY ReadyGood, Zenon DEF Sound, AllKnown, KnownBlock
<1>2. Lookup(mem.safety, b, Clean) = mem.safety[b]
  BY DEF Lookup
<1> QED
  BY <1>1, <1>2 DEF Exact

\* Checkpoints and branches.
LEMMA PointCommandKept ==
    ASSUME Inv, \/ \E name \in Checkpoints : Checkpoint(name)
                \/ \E name \in Branches : \E number \in 0..MaxSlot :
                      number <= Number(head) /\ CreateBranch(name, number)
    PROVE  Inv' /\ SessionKept
<1>1. CASE \E name \in Checkpoints : Checkpoint(name)
  <2>1. PICK name : /\ Ready /\ pending' = pending
                    /\ AuxiliaryCommit(Puts({<<"checkpoint", name, ChainPoint>>}),
                                       [mem EXCEPT !.checkpoints = Put(@, name, ChainPoint)])
    BY <1>1, Zenon DEF Checkpoint
  <2> DEFINE image == [mem EXCEPT !.checkpoints = Put(@, name, ChainPoint)]
  <2>2. GoodCheckpoint(mem, ChainPoint)
    <3>1. ChainPoint.block = head /\ ChainPoint.slot = mem.timeline.slot
      BY DEF ChainPoint
    <3>2. ChainPoint.tainted = (UnsafeIn(head) # {})
      <4>1. Lookup(mem.safety, head, Clean).tainted = (UnsafeIn(head) # {})
        BY <2>1, TaintKnown, ReadyGood, Zenon
      <4> QED
        BY <4>1 DEF ChainPoint
    <3> QED
      BY Zenon, <2>1, <3>1, <3>2, ReadyGood DEF GoodCheckpoint, GoodPoint, IsTimeline
  <2>3. Good(image, Batch(aux, Puts({<<"checkpoint", name, ChainPoint>>}), {}), head) /\ Grows(mem, image)
    BY <2>1, <2>2, ReadyGood, PointGood, Zenon
  <2>4. image.timeline = mem.timeline /\ image.queue = mem.queue
    BY <2>1, ReadyGood DEF IsImage
  <2> HIDE DEF image
  <2>5. pending' = Candidate(image, head)
    BY <2>1, <2>4, ReadyGood, Zenon DEF Candidate
  <2>6. AuxiliaryCommit(Puts({<<"checkpoint", name, ChainPoint>>}), image)
    BY <2>1 DEF image
  <2> QED
    BY <2>1, <2>3, <2>5, <2>6, AuxiliaryKept, Zenon
<1>2. CASE \E name \in Branches : \E number \in 0..MaxSlot :
              number <= Number(head) /\ CreateBranch(name, number)
  <2>1. PICK number \in 0..MaxSlot, name \in Branches : number <= Number(head) /\ CreateBranch(name, number)
    BY <1>2, Zenon
  <2> DEFINE base == AtNumber(head, number)
             item == [base |-> base, head |-> base, tainted |-> Lookup(mem.safety, base, Clean).tainted]
             image == [mem EXCEPT !.branches = Put(@, name, item)]
  <2>2. Ready /\ pending' = pending /\ AuxiliaryCommit(Puts({<<"branch", name, item>>}), image)
    BY <2>1, Zenon DEF CreateBranch
  <2>3. base \in DOMAIN mem.safety /\ base \in Chain(base)
    <3>1. base \in DOMAIN mem.safety
      BY <2>1, <2>2, ReadyGood, Ancestor, BlockFacts, BoundAssumption
    <3>2. IsBlock(base)
      BY <2>2, <3>1, ReadyGood, Zenon DEF Sound, AllKnown, KnownBlock, GoodBlock
    <3> QED
      BY Zenon, <3>1, <3>2, BlockFacts
  <2>4. GoodBranch(mem, item)
    <3>1. Lookup(mem.safety, base, Clean).tainted = (UnsafeIn(base) # {})
      BY <2>2, <2>3, TaintKnown, Zenon
    <3> HIDE DEF base
    <3>2. /\ item.base = base /\ item.head = base /\ item.tainted = Lookup(mem.safety, base, Clean).tainted
          /\ item = [base |-> item.base, head |-> item.head, tainted |-> item.tainted]
      OBVIOUS
    <3> HIDE DEF item
    <3> QED
      BY <2>3, <3>1, <3>2, Zenon DEF GoodBranch
  <2> HIDE DEF item
  <2>5. Good(image, Batch(aux, Puts({<<"branch", name, item>>}), {}), head) /\ Grows(mem, image)
    BY <2>2, <2>4, ReadyGood, PointGood, Zenon
  <2>6. image.timeline = mem.timeline /\ image.queue = mem.queue
    BY Zenon, <2>2, ReadyGood DEF IsImage
  <2> HIDE DEF image
  <2>7. pending' = Candidate(image, head)
    BY <2>2, <2>6, ReadyGood, Zenon DEF Candidate
  <2> QED
    BY <2>2, <2>5, <2>7, AuxiliaryKept, Zenon
<1> QED
  BY Zenon, <1>1, <1>2

\* A command that changes the timeline, the FIFO or what events announce.
MetaStep(rows, image, timeline, queue, follower) ==
    /\ IsImage(image, timeline, mem.canon, mem.slotOf, mem.safety, mem.session, queue,
               mem.checkpoints, mem.branches, follower)
    /\ IsTimeline(timeline) /\ SlotOf(head) <= timeline.slot
    /\ IsQueue(queue) /\ Ledger(DOMAIN mem.safety, queue, aux, head)
    /\ IsFollower(follower) /\ follower.tip = mem.follower.tip
    /\ rows \subseteq {<<"meta", "timeline", timeline>>, <<"meta", "queue", queue>>, <<"meta", "events", follower>>}
    /\ timeline = mem.timeline \/ <<"meta", "timeline", timeline>> \in rows
    /\ queue = mem.queue \/ <<"meta", "queue", queue>> \in rows
    /\ follower = mem.follower \/ <<"meta", "events", follower>> \in rows

\* A command that writes the timeline, the queue or the event state alone
\* keeps the invariant.
LEMMA MetaKept ==
    ASSUME Inv, Ready, NEW rows, NEW image, NEW timeline, NEW queue, NEW follower,
           MetaStep(rows, image, timeline, queue, follower), AuxiliaryCommit(Puts(rows), image),
           pending' = Build(head, timeline.slot + 1, "mined", queue)
    PROVE  Inv' /\ SessionKept
<1>1. Good(image, Batch(aux, Puts(rows), {}), head) /\ Grows(mem, image)
  BY ReadyGood, MetaGood, Zenon DEF MetaStep
<1>2. image.timeline = timeline /\ image.queue = queue
  BY ImageFields DEF MetaStep
<1>3. pending' = Candidate(image, head)
  BY <1>2, Zenon DEF Candidate
<1> QED
  BY <1>1, <1>3, AuxiliaryKept, Zenon

\* The image of a command that moves the timeline and the follower.
LEMMA MetaImage ==
    ASSUME Inv, Ready, NEW timeline, NEW follower
    PROVE  IsImage([mem EXCEPT !.timeline = timeline, !.follower = follower],
                   timeline, mem.canon, mem.slotOf, mem.safety, mem.session, mem.queue,
                   mem.checkpoints, mem.branches, follower)
<1> DEFINE first == [mem EXCEPT !.timeline = timeline]
<1>1. IsImage(first, timeline, mem.canon, mem.slotOf, mem.safety, mem.session, mem.queue,
              mem.checkpoints, mem.branches, mem.follower)
  BY ReadyGood, ImageSet, Zenon
<1>2. IsImage([first EXCEPT !.follower = follower], timeline, mem.canon, mem.slotOf, mem.safety, mem.session,
              mem.queue, mem.checkpoints, mem.branches, follower)
  <2> HIDE DEF first
  <2> QED
    BY <1>1, ImageSet, Zenon
<1>3. [mem EXCEPT !.timeline = timeline, !.follower = follower] = [first EXCEPT !.follower = follower]
  OBVIOUS
<1> QED
  BY <1>2, <1>3, Zenon

\* finalizedEventForTransition leaves the tip of the reader alone.
LEMMA AnnounceIs ==
    ASSUME NEW follower, IsFollower(follower), NEW previous, NEW next
    PROVE  LET after == AnnounceFinality(follower, previous, next)
           IN IsFollower(after) /\ after.tip = follower.tip
  BY DEF AnnounceFinality, IsFollower

\* missSlots keeps the invariant.
LEMMA MissSlotsKept ==
    ASSUME Inv, NEW count \in 1..MaxSlot, MissSlots(count)
    PROVE  Inv' /\ SessionKept
<1> DEFINE slot == mem.timeline.slot + count
           timeline == [mem.timeline EXCEPT !.slot = slot, !.last = slot]
           follower == AnnounceBetween(mem.follower, mem, head, mem.timeline.slot, slot)
           image == [mem EXCEPT !.timeline = timeline, !.follower = follower]
           rows == {<<"meta", "timeline", timeline>>, <<"meta", "events", follower>>}
<1>1. Ready
  BY DEF MissSlots
<1>2. /\ IsTimeline(mem.timeline) /\ IsFollower(mem.follower) /\ IsQueue(mem.queue)
      /\ SlotOf(head) \in Nat /\ SlotOf(head) <= mem.timeline.slot
      /\ IsImage(mem, mem.timeline, mem.canon, mem.slotOf, mem.safety, mem.session, mem.queue,
                 mem.checkpoints, mem.branches, mem.follower)
      /\ Ledger(DOMAIN mem.safety, mem.queue, aux, head)
  BY <1>1, ReadyGood, Zenon
<1>3. IsTimeline(timeline) /\ timeline.slot = slot /\ SlotOf(head) <= slot
  <2>1. timeline = [slot |-> slot, last |-> slot, paused |-> mem.timeline.paused, frozen |-> mem.timeline.frozen]
    BY <1>2, TimelineMoved, Zenon
  <2> HIDE DEF timeline
  <2> QED
    BY <1>2, <2>1, BoundAssumption DEF IsTimeline
<1>4. IsFollower(follower) /\ follower.tip = mem.follower.tip
  BY <1>2, AnnounceIs, Zenon DEF AnnounceBetween
<1> HIDE DEF timeline, follower
<1>5. IsImage(image, timeline, mem.canon, mem.slotOf, mem.safety, mem.session, mem.queue,
              mem.checkpoints, mem.branches, follower)
  BY <1>1, MetaImage, Zenon
<1>6. MetaStep(rows, image, timeline, mem.queue, follower)
  BY Zenon, <1>2, <1>3, <1>4, <1>5 DEF MetaStep
<1>7. AuxiliaryCommit(Puts(rows), image) /\ pending' = Build(head, timeline.slot + 1, "mined", mem.queue)
  <2>1. image.timeline = timeline /\ image.follower = follower
    BY <1>5, ImageFields
  <2>2. image = [mem EXCEPT !.timeline = [@ EXCEPT !.slot = slot, !.last = slot],
                            !.follower = AnnounceBetween(@, mem, head, mem.timeline.slot, slot)]
    BY DEF timeline, follower
  <2> HIDE DEF image
  <2> QED
    BY <1>3, <2>1, <2>2, Zenon DEF MissSlots
<1> QED
  BY <1>1, <1>6, <1>7, MetaKept, Zenon

\* Pausing and resuming finality keep the invariant.
LEMMA FinalityCommandKept ==
    ASSUME Inv, PauseFinality \/ ResumeFinality
    PROVE  Inv' /\ SessionKept
<1>1. Ready
  BY DEF PauseFinality, ResumeFinality
<1>2. /\ IsTimeline(mem.timeline) /\ IsFollower(mem.follower) /\ IsQueue(mem.queue)
      /\ SlotOf(head) \in Nat /\ SlotOf(head) <= mem.timeline.slot
      /\ pending = Build(head, mem.timeline.slot + 1, "mined", mem.queue)
      /\ IsImage(mem, mem.timeline, mem.canon, mem.slotOf, mem.safety, mem.session, mem.queue,
                 mem.checkpoints, mem.branches, mem.follower)
      /\ Ledger(DOMAIN mem.safety, mem.queue, aux, head)
  BY <1>1, ReadyGood, Zenon DEF Candidate
<1>3. ASSUME NEW paused \in BOOLEAN, NEW frozen \in Nat, frozen <= IF paused THEN mem.timeline.slot ELSE 0
      PROVE  LET timeline == [mem.timeline EXCEPT !.paused = paused, !.frozen = frozen]
             IN IsTimeline(timeline) /\ timeline.slot = mem.timeline.slot
  <2> DEFINE timeline == [mem.timeline EXCEPT !.paused = paused, !.frozen = frozen]
  <2>1. timeline = [slot |-> mem.timeline.slot, last |-> mem.timeline.last, paused |-> paused, frozen |-> frozen]
    BY <1>2, TimelineFrozen, Zenon
  <2> HIDE DEF timeline
  <2>2. IsTimeline(timeline) /\ timeline.slot = mem.timeline.slot
    BY Zenon, <1>2, <1>3, <2>1 DEF IsTimeline
  <2> QED
    BY <2>2, Zenon DEF timeline
<1>4. CASE PauseFinality
  <2> DEFINE timeline == [mem.timeline EXCEPT !.paused = TRUE, !.frozen = mem.timeline.slot]
             image == [mem EXCEPT !.timeline = timeline]
             rows == {<<"meta", "timeline", timeline>>}
  <2>1. IsTimeline(timeline) /\ timeline.slot = mem.timeline.slot
    <3>1. mem.timeline.slot \in Nat /\ mem.timeline.slot <= IF TRUE THEN mem.timeline.slot ELSE 0
      BY <1>2 DEF IsTimeline
    <3> QED
      BY <1>3, <3>1, Zenon
  <2>2. AuxiliaryCommit(Puts(rows), image) /\ pending' = pending
    BY <1>4, Zenon DEF PauseFinality
  <2> HIDE DEF timeline
  <2>3. IsImage(image, timeline, mem.canon, mem.slotOf, mem.safety, mem.session, mem.queue,
                mem.checkpoints, mem.branches, mem.follower)
    BY <1>2, ImageSet, Zenon
  <2> HIDE DEF image
  <2>4. MetaStep(rows, image, timeline, mem.queue, mem.follower)
    BY Zenon, <1>2, <2>1, <2>3 DEF MetaStep
  <2>5. pending' = Build(head, timeline.slot + 1, "mined", mem.queue)
    BY <1>2, <2>1, <2>2, Zenon
  <2> QED
    BY <1>1, <2>2, <2>4, <2>5, MetaKept, Zenon
<1>5. CASE ResumeFinality
  <2> DEFINE timeline == [mem.timeline EXCEPT !.paused = FALSE, !.frozen = 0]
             follower == AnnounceFinality(mem.follower, Finalized(mem, head),
                                          FinalizedAt(mem, head, mem.timeline.slot))
             image == [mem EXCEPT !.timeline = timeline, !.follower = follower]
             rows == {<<"meta", "timeline", timeline>>, <<"meta", "events", follower>>}
  <2>1. IsTimeline(timeline) /\ timeline.slot = mem.timeline.slot
    <3>1. 0 \in Nat /\ 0 <= IF FALSE THEN mem.timeline.slot ELSE 0
      OBVIOUS
    <3> QED
      BY <1>3, <3>1, Zenon
  <2>2. AuxiliaryCommit(Puts(rows), image) /\ pending' = pending
    BY <1>5, Zenon DEF ResumeFinality
  <2>3. IsFollower(follower) /\ follower.tip = mem.follower.tip
    BY <1>2, AnnounceIs, Zenon
  <2> HIDE DEF timeline, follower
  <2>4. IsImage(image, timeline, mem.canon, mem.slotOf, mem.safety, mem.session, mem.queue,
                mem.checkpoints, mem.branches, follower)
    BY <1>1, MetaImage, Zenon
  <2> HIDE DEF image
  <2>5. MetaStep(rows, image, timeline, mem.queue, follower)
    BY Zenon, <1>2, <2>1, <2>3, <2>4 DEF MetaStep
  <2>6. pending' = Build(head, timeline.slot + 1, "mined", mem.queue)
    BY <1>2, <2>1, <2>2, Zenon
  <2> QED
    BY <1>1, <2>2, <2>5, <2>6, MetaKept, Zenon
<1> QED
  BY <1>4, <1>5

\* addExecutionRequest keeps the invariant.
LEMMA AddExecutionRequestKept ==
    ASSUME Inv, NEW t \in RequestTypes, AddExecutionRequest(t)
    PROVE  Inv' /\ SessionKept
<1> DEFINE queue == Enqueue(mem.queue, t)
           image == [mem EXCEPT !.queue = queue]
           rows == {<<"meta", "queue", queue>>}
<1>1. Ready
  BY DEF AddExecutionRequest
<1>2. /\ IsTimeline(mem.timeline) /\ IsFollower(mem.follower) /\ IsQueue(mem.queue)
      /\ SlotOf(head) <= mem.timeline.slot /\ head \in DOMAIN mem.safety
      /\ IsImage(mem, mem.timeline, mem.canon, mem.slotOf, mem.safety, mem.session, mem.queue,
                 mem.checkpoints, mem.branches, mem.follower)
      /\ Ledger(DOMAIN mem.safety, mem.queue, aux, head)
  BY <1>1, ReadyGood, Zenon
<1>3. IsQueue(queue) /\ Ledger(DOMAIN mem.safety, queue, aux, head)
  BY <1>2, EnqueueIs, LedgerEnqueue, Zenon
<1>4. /\ AuxiliaryCommit(Puts({<<"meta", "queue", image.queue>>}), image)
      /\ pending' = Candidate(image, head)
  BY Zenon DEF AddExecutionRequest
<1> HIDE DEF queue
<1>5. IsImage(image, mem.timeline, mem.canon, mem.slotOf, mem.safety, mem.session, queue,
              mem.checkpoints, mem.branches, mem.follower)
  BY <1>2, ImageSet, Zenon
<1> HIDE DEF image
<1>6. image.timeline = mem.timeline /\ image.queue = queue
  BY <1>5, ImageFields
<1>7. MetaStep(rows, image, mem.timeline, queue, mem.follower)
  BY Zenon, <1>2, <1>3, <1>5 DEF MetaStep
<1>8. AuxiliaryCommit(Puts(rows), image) /\ pending' = Build(head, mem.timeline.slot + 1, "mined", queue)
  BY <1>4, <1>6, Zenon DEF Candidate
<1> QED
  BY <1>1, <1>7, <1>8, MetaKept, Zenon

-----------------------------------------------------------------------------
(* The rest of a commit, failures, and the life of the process.            *)

\* Taking a snapshot, and spending one in place, write nothing.
LEMMA SnapshotKept ==
    ASSUME Inv, Snapshot \/ \E id \in DOMAIN snapshots : RevertInPlace(id)
    PROVE  Inv'
<1>1. /\ Ready /\ UNCHANGED <<aux, nodes, blocks, head, journal, stage, writeErr, status, mem, plan, pending>>
      /\ status = "up" /\ ~writeErr
  BY Zenon DEF Snapshot, RevertInPlace, commitVars, Ready
<1>2. Shape' /\ NodesKept' /\ DiskGood' /\ MemoryGood' /\ PendingGood' /\ IndexGood'
  BY <1>1 DEF Inv, Shape, OperationShape, NodesKept, DiskGood, MemoryGood, PendingGood, IndexGood, Committing,
              Writable, AfterOf, EndHead, Ready
<1>3. SnapshotsGood'
  <2>1. /\ IsFIFO(snapshots)
        /\ \A id \in DOMAIN snapshots :
              /\ snapshots[id] = [block |-> snapshots[id].block, slot |-> snapshots[id].slot,
                                  used |-> snapshots[id].used]
              /\ GoodPoint(mem, snapshots[id])
    BY <1>1 DEF Inv, SnapshotsGood, Writable
  <2>2. PICK S : snapshots \in Seq(S)
    BY <2>1 DEF IsFIFO
  <2>3. CASE Snapshot
    <3> DEFINE point == [block |-> head, slot |-> mem.timeline.slot, used |-> FALSE]
    <3>1. snapshots' = Append(snapshots, point)
      BY Zenon, <2>3 DEF Snapshot
    <3>2. GoodPoint(mem, point)
      BY Zenon, <1>1, ReadyGood DEF GoodPoint, IsTimeline
    <3>3. point = [block |-> point.block, slot |-> point.slot, used |-> point.used]
      OBVIOUS
    <3> HIDE DEF point
    <3>4. IsFIFO(snapshots')
      BY <2>1, <3>1, FIFOIs, Zenon
    <3>5. \A k \in DOMAIN snapshots' :
              snapshots'[k] = point \/ (k \in DOMAIN snapshots /\ snapshots'[k] = snapshots[k])
      <4>1. /\ Len(snapshots) \in Nat /\ DOMAIN snapshots = 1..Len(snapshots)
            /\ DOMAIN snapshots' = 1..(Len(snapshots) + 1)
        BY <2>2, <3>1
      <4>2. /\ \A k \in 1..Len(snapshots) : snapshots'[k] = snapshots[k]
            /\ snapshots'[Len(snapshots) + 1] = point
        BY <2>2, <3>1
      <4> QED
        BY <4>1, <4>2
    <3> QED
      BY Zenon, <1>1, <2>1, <3>2, <3>3, <3>4, <3>5 DEF SnapshotsGood, GoodPoint
  <2>4. CASE \E id \in DOMAIN snapshots : RevertInPlace(id)
    <3>1. PICK id \in DOMAIN snapshots : snapshots' = [snapshots EXCEPT ![id].used = TRUE]
      BY Zenon, <2>4 DEF RevertInPlace
    <3> DEFINE point == [block |-> snapshots[id].block, slot |-> snapshots[id].slot, used |-> TRUE]
    <3>2. snapshots' = [snapshots EXCEPT ![id] = point]
      <4>1. [snapshots[id] EXCEPT !.used = TRUE] = point
        <5> DEFINE Used(x, v) == [x EXCEPT !.used = v]
        <5>1. ASSUME NEW x, NEW b, NEW n, NEW u, x = [block |-> b, slot |-> n, used |-> u], NEW v
              PROVE  Used(x, v) = [block |-> b, slot |-> n, used |-> v]
          BY <5>1
        <5> HIDE DEF Used
        <5>2. snapshots[id] = [block |-> snapshots[id].block, slot |-> snapshots[id].slot,
                               used |-> snapshots[id].used]
          BY <2>1, Zenon
        <5>3. \A v : Used(snapshots[id], v) = [block |-> snapshots[id].block, slot |-> snapshots[id].slot, used |-> v]
          BY ONLY <5>1, <5>2
        <5> QED
          BY <5>3, Zenon DEF Used
      <4> HIDE DEF point
      <4> QED
        BY Zenon, <2>2, <3>1, <4>1
    <3>3. GoodPoint(mem, point) /\ point = [block |-> point.block, slot |-> point.slot, used |-> point.used]
      BY <2>1 DEF GoodPoint
    <3> HIDE DEF point
    <3>4. snapshots' \in Seq(S \cup {point})
      BY <2>2, <3>2
    <3>5. \A k \in DOMAIN snapshots' :
              snapshots'[k] = point \/ (k \in DOMAIN snapshots /\ snapshots'[k] = snapshots[k])
      BY Zenon, <2>2, <3>2
    <3> QED
      BY Zenon, <1>1, <2>1, <3>3, <3>4, <3>5 DEF SnapshotsGood, GoodPoint, IsFIFO
  <2> QED
    BY Zenon, <2>3, <2>4
<1> QED
  BY Zenon, <1>2, <1>3 DEF Inv

\* A write of the commit: the state, the block, the head, the batch.
CommitStep(o) ==
    /\ journal = {o}
    /\ \/ Builds(o) /\ stage = "prepared" /\ nodes' = nodes \cup o.executionPuts /\ stage' = "nodes"
          /\ UNCHANGED <<aux, blocks, head, journal>>
       \/ stage = "nodes" /\ blocks' = blocks \cup {o.target} /\ stage' = "block"
          /\ UNCHANGED <<aux, nodes, head, journal>>
       \/ BeforeSetCanonical(o) /\ head' = o.target /\ stage' = "mutated"
          /\ UNCHANGED <<aux, nodes, blocks, journal>>
       \/ Mutated(o) /\ Finalize(o) /\ stage' = "final" /\ UNCHANGED <<blocks, head>>

\* A step of a commit that runs, as a step on the operation it journaled.
LEMMA StepIs ==
    ASSUME Inv, Step
    PROVE  /\ UNCHANGED <<mem, plan, snapshots, pending, writeErr, status>>
           /\ stage # "idle" /\ status = "up" /\ writeErr = FALSE
           /\ \E o : CommitStep(o)
<1>1. UNCHANGED <<mem, plan, snapshots, pending, writeErr, status>> /\ stage # "idle"
  BY DEF Step, chainVars, WriteNodes, PersistBlock, SetCanonical, FinalizeCommit, BeforeSetCanonical, Mutated
<1>2. status = "up" /\ writeErr = FALSE
  BY <1>1 DEF Inv, Shape, Writable
<1>3. \A o \in journal : journal = {o}
  <2>1. \A o, p \in journal : o = p
    BY DEF Inv, Shape
  <2> QED
    BY <2>1
<1>4. \E o : CommitStep(o)
  BY <1>3, Zenon DEF Step, WriteNodes, PersistBlock, SetCanonical, FinalizeCommit, CommitStep
<1> QED
  BY Zenon, <1>1, <1>2, <1>4

\* A step of a commit that runs keeps the invariant.
LEMMA StepKept ==
    ASSUME Inv, Step
    PROVE  Inv' /\ SessionKept
<1>1. /\ UNCHANGED <<mem, plan, snapshots, pending, writeErr, status>>
      /\ stage # "idle" /\ status = "up" /\ writeErr = FALSE
  BY StepIs
<1>2. PICK o : CommitStep(o)
  BY Zenon, StepIs
<1> USE DEF CommitStep
<1>3. Shape'
  BY Zenon, <1>1, <1>2 DEF Inv, Shape, OperationShape, Committing, Writable, BeforeSetCanonical, Mutated, Finalize
<1>4. NodesKept'
  BY <1>1, <1>2 DEF Inv, Shape, OperationShape, NodesKept, BeforeSetCanonical, Mutated, Finalize
<1>5. /\ Good(mem, aux, o.oldHead) /\ Good(plan.mem, AfterOf(o), EndHead(o)) /\ Grows(mem, plan.mem)
      /\ plan.rebuild = (o.kind = "head")
  BY Zenon, <1>2, <1>1 DEF Inv, MemoryGood, Committing, Shape, Writable
<1>6. GoodBlock(head) /\ GoodBlock(EndHead(o))
  BY Zenon, <1>2, <1>5 DEF Inv, DiskGood, Good, Sound, AllKnown, KnownBlock
<1>7. CASE stage' # "final"
  <2>1. aux' = aux /\ journal' = {o} /\ Committing' /\ stage' # "idle" /\ stage' # "rebuild"
    BY Zenon, <1>2, <1>7 DEF Committing
  <2>2. GoodBlock(head')
    BY Zenon, <1>2, <1>6, <1>7 DEF BeforeSetCanonical, EndHead
  <2>3. DiskGood' /\ MemoryGood'
    BY Zenon, <1>1, <1>5, <1>7, <2>1, <2>2 DEF DiskGood, MemoryGood, AfterOf, EndHead
  <2>4. PendingGood'
    <3>1. ~plan.rebuild => head' = head /\ Committing
      BY Zenon, <1>2, <1>5, <1>7 DEF BeforeSetCanonical, Committing
    <3> QED
      BY Zenon, <1>1, <1>7, <2>1, <3>1 DEF Inv, PendingGood, Ready
  <2>5. SnapshotsGood' /\ IndexGood'
    BY <1>1 DEF Inv, SnapshotsGood, IndexGood, Writable
  <2> QED
    BY Zenon, <1>3, <1>4, <2>1, <2>3, <2>4, <2>5 DEF Inv, SessionKept
<1>8. CASE stage' = "final"
  <2>1. /\ aux' = AfterOf(o) /\ journal' = {} /\ head' = head /\ head = EndHead(o)
        /\ Committing
    BY Zenon, <1>2, <1>8 DEF Finalize, AfterOf, Mutated, Inv, Shape, OperationShape, EndHead, Committing
  <2>2. DiskGood' /\ MemoryGood'
    BY <1>1, <1>5, <1>6, <1>8, <2>1, Zenon DEF DiskGood, MemoryGood, Committing
  <2>3. PendingGood'
    BY Zenon, <1>1, <1>8, <2>1 DEF Inv, PendingGood, Ready, Committing
  <2>4. SnapshotsGood' /\ IndexGood'
    BY <1>1 DEF Inv, SnapshotsGood, IndexGood, Writable
  <2>5. SessionKept
    BY <1>5, <2>1, Zenon DEF SessionKept
  <2> QED
    BY Zenon, <1>3, <1>4, <2>2, <2>3, <2>4, <2>5 DEF Inv
<1> QED
  BY Zenon, <1>7, <1>8

\* The apply closure and the rebuild of the pending view.
LEMMA ApplyKept ==
    ASSUME Inv, Apply
    PROVE  Inv'
<1>1. /\ UNCHANGED <<aux, nodes, blocks, head, journal, writeErr, status, snapshots, pending>>
      /\ mem' = plan.mem /\ stage = "final" /\ stage' = (IF plan.rebuild THEN "rebuild" ELSE "idle")
      /\ status = "up" /\ ~writeErr
  BY DEF Apply, disk, Inv, Shape, Writable
<1>2. journal = {}
  BY Zenon, <1>1 DEF Inv, Shape, Writable, Committing
<1>3. Good(plan.mem, aux, head) /\ Grows(mem, plan.mem)
  BY Zenon, <1>1 DEF Inv, MemoryGood
<1>4. Shape' /\ NodesKept'
  BY Zenon, <1>1, <1>2 DEF Inv, Shape, NodesKept, Writable, Committing
<1>5. DiskGood' /\ MemoryGood'
  BY Zenon, <1>1, <1>2, <1>3 DEF Inv, DiskGood, MemoryGood, Committing
<1>6. PendingGood'
  BY Zenon, <1>1 DEF Inv, PendingGood, Committing, Ready, Candidate
<1>7. SnapshotsGood' /\ IndexGood'
  BY Zenon, <1>1, <1>3 DEF Inv, SnapshotsGood, IndexGood, Writable, GoodPoint, Grows, Good, Sound, IndexOf
<1> QED
  BY Zenon, <1>4, <1>5, <1>6, <1>7 DEF Inv

\* Rebuilding the pending block keeps the invariant.
LEMMA RebuildKept ==
    ASSUME Inv, Rebuild
    PROVE  Inv'
<1>1. /\ UNCHANGED <<aux, nodes, blocks, head, journal, writeErr, status, mem>>
      /\ pending' = Candidate(mem, head) /\ stage = "rebuild" /\ stage' = "idle"
      /\ status = "up" /\ ~writeErr
  BY DEF Rebuild, disk, Inv, Shape, Writable
<1>2. journal = {}
  BY <1>1 DEF Inv, Shape, Writable, Committing
<1>3. Shape' /\ NodesKept' /\ DiskGood' /\ MemoryGood' /\ IndexGood'
  BY Zenon, <1>1, <1>2 DEF Inv, Shape, NodesKept, DiskGood, MemoryGood, IndexGood, Writable, Committing
<1>4. PendingGood'
  BY Zenon, <1>1 DEF PendingGood, Committing
<1>5. SnapshotsGood'
  <2> DEFINE Used(x, v) == [x EXCEPT !.used = v]
  <2>1. snapshots' = [id \in DOMAIN snapshots |-> Used(snapshots[id], snapshots[id].used \/ id \in plan.used)]
    BY DEF Rebuild
  <2>2. ASSUME NEW x, NEW b, NEW n, NEW u, x = [block |-> b, slot |-> n, used |-> u], NEW v
        PROVE  Used(x, v) = [block |-> b, slot |-> n, used |-> v]
    BY <2>2
  <2> HIDE DEF Used
  <2>3. /\ \E S : snapshots \in Seq(S)
        /\ \A id \in DOMAIN snapshots :
              /\ snapshots[id] = [block |-> snapshots[id].block, slot |-> snapshots[id].slot,
                                  used |-> snapshots[id].used]
              /\ GoodPoint(mem, snapshots[id])
    BY Zenon, <1>1 DEF Inv, SnapshotsGood, Writable, IsFIFO
  <2>4. ASSUME NEW id \in DOMAIN snapshots
        PROVE  /\ snapshots'[id] = [block |-> snapshots'[id].block, slot |-> snapshots'[id].slot,
                                    used |-> snapshots'[id].used]
               /\ GoodPoint(mem, snapshots'[id])
    <3>1. snapshots[id] = [block |-> snapshots[id].block, slot |-> snapshots[id].slot, used |-> snapshots[id].used]
      BY <2>3, Zenon
    <3>2. \A v : Used(snapshots[id], v) = [block |-> snapshots[id].block, slot |-> snapshots[id].slot, used |-> v]
      BY ONLY <2>2, <3>1
    <3>3. \E v : snapshots'[id] = [block |-> snapshots[id].block, slot |-> snapshots[id].slot, used |-> v]
      BY <2>1, <3>2, Zenon
    <3>4. GoodPoint(mem, snapshots[id])
      BY Zenon, <2>3
    <3> QED
      BY <3>3, <3>4 DEF GoodPoint
  <2>5. DOMAIN snapshots' = DOMAIN snapshots
    BY Zenon, <2>1
  <2>6. IsFIFO(snapshots')
    <3> DEFINE T == {snapshots'[id] : id \in DOMAIN snapshots}
    <3>1. snapshots' = [id \in DOMAIN snapshots |-> snapshots'[id]]
      BY Zenon, <2>1
    <3>2. PICK k \in Nat : DOMAIN snapshots = 1..k
      BY <2>3
    <3>3. snapshots' \in [1..k -> T]
      BY Zenon, <3>1, <3>2
    <3> HIDE DEF T
    <3>4. snapshots' \in Seq(T)
      BY <3>2, <3>3
    <3> QED
      BY <3>4 DEF IsFIFO
  <2> QED
    BY Zenon, <1>1, <2>4, <2>5, <2>6 DEF SnapshotsGood, GoodPoint
<1> QED
  BY Zenon, <1>3, <1>4, <1>5 DEF Inv

\* An error of a write, and a head that stops on its way to the target.
LEMMA ErrorKept ==
    ASSUME Inv, Error \/ Torn
    PROVE  Inv'
<1>1. /\ UNCHANGED <<aux, nodes, blocks, journal, status, mem, snapshots, pending>>
      /\ status = "up" /\ stage' = "idle" /\ writeErr' = TRUE
  BY DEF Error, Torn, FailCommit, TornSetCanonical, disk, Inv, Shape, Writable, BeforeSetCanonical
<1>2. \/ head' = head
      \/ \E o \in journal : o.kind = "head" /\ head' \in Chain(o.target) /\ journal = {o}
  <2>1. \A o, p \in journal : o = p
    BY Zenon DEF Inv, Shape
  <2> QED
    BY <2>1 DEF Error, Torn, FailCommit, TornSetCanonical, disk, BeforeSetCanonical, PathFrom
<1>3. GoodBlock(head')
  <2>1. \A o \in journal : o.kind = "head" => GoodBlock(o.target)
    BY Zenon DEF Inv, DiskGood, EndHead, Good, Sound, AllKnown, KnownBlock
  <2> QED
    BY Zenon, <1>2, <2>1, AncestorGood DEF Inv, DiskGood
<1>4. Shape'
  BY <1>1, <1>2 DEF Inv, Shape, OperationShape, Writable, Committing
<1>5. journal = {} => head' = head
  BY <1>2
<1>6. NodesKept' /\ DiskGood' /\ MemoryGood' /\ PendingGood' /\ SnapshotsGood' /\ IndexGood'
  BY Zenon, <1>1, <1>3, <1>5 DEF Inv, NodesKept, DiskGood, MemoryGood, PendingGood, SnapshotsGood, IndexGood,
                          Writable, Committing, Ready, AfterOf, EndHead
<1> QED
  BY Zenon, <1>4, <1>6 DEF Inv

\* The process stops, and starts that find a journal.
LEMMA RecoverKept ==
    ASSUME Inv, Stop \/ Recover
    PROVE  Inv' /\ SessionKept
<1>1. status' # "up" /\ writeErr' = FALSE /\ snapshots' = <<>> /\ stage' = "idle" /\ head' = head
  <2>1. status # "up" => ~writeErr /\ snapshots = <<>> /\ stage = "idle" /\ writeErr \in BOOLEAN
    BY Zenon DEF Inv, Shape, Writable
  <2> QED
    BY Zenon, <2>1 DEF Stop, Crash, Recover, Recovery, StartAgain, RecoverFinalize, RecoverDiscard, RecoverCancel,
                RecoverMismatch, disk, chainVars
<1>2. PendingGood' /\ SnapshotsGood' /\ IndexGood' /\ MemoryGood'
  <2>1. IsFIFO(<<>>)
    BY DEF IsFIFO
  <2> QED
    BY Zenon, <1>1, <2>1 DEF PendingGood, SnapshotsGood, IndexGood, MemoryGood, Ready, Writable, Committing
<1>3. CASE Stop \/ StartAgain \/ RecoverMismatch
  <2>1. UNCHANGED <<aux, nodes, blocks, journal>> /\ status' \in Statuses /\ status' # "discarded"
    BY <1>3 DEF Stop, Crash, StartAgain, RecoverMismatch, Statuses, disk
  <2>2. Shape'
    BY Zenon, <1>1, <2>1 DEF Inv, Shape, OperationShape, Writable, Committing
  <2>3. NodesKept' /\ DiskGood'
    BY Zenon, <1>1, <2>1 DEF Inv, NodesKept, DiskGood, AfterOf, EndHead
  <2> QED
    BY Zenon, <1>2, <2>1, <2>2, <2>3 DEF Inv, SessionKept
<1>4. CASE RecoverFinalize \/ RecoverCancel
  <2>1. PICK o \in journal :
          /\ blocks' = blocks /\ journal' = {} /\ status' = "down"
          /\ \/ Reached(o) /\ aux' = AfterOf(o) /\ nodes' = nodes \cup o.executionPuts
             \/ /\ Untouched(o) /\ aux' = aux /\ nodes' = nodes \ o.rollbackDeletes
                /\ Builds(o) => status = "discarded"
    BY <1>4, Zenon DEF RecoverFinalize, RecoverCancel, Finalize, AfterOf
  <2>2. Shape'
    BY Zenon, <1>1, <2>1 DEF Inv, Shape, Writable, Statuses
  <2>3. NodesKept'
    BY Zenon, <2>1 DEF Inv, NodesKept
  <2>4. (\E m : Good(m, aux', head)) /\ SessionKept
    <3>1. PICK m, n : Good(m, aux, o.oldHead) /\ Good(n, AfterOf(o), EndHead(o)) /\ Grows(m, n)
      BY Zenon, <2>1 DEF Inv, DiskGood
    <3>2. o.kind \in {"head", "block"} /\ (o.kind = "block" => head = o.oldHead)
      BY Zenon, <2>1 DEF Inv, Shape, OperationShape
    <3>3. CASE Reached(o) /\ aux' = AfterOf(o)
      BY Zenon, <3>1, <3>2, <3>3 DEF Reached, EndHead, SessionKept
    <3>4. CASE Untouched(o) /\ aux' = aux
      BY Zenon, <3>1, <3>2, <3>4 DEF Untouched, SessionKept
    <3> QED
      BY Zenon, <2>1, <3>3, <3>4
  <2>5. DiskGood'
    BY Zenon, <1>1, <2>1, <2>4 DEF Inv, DiskGood
  <2> QED
    BY Zenon, <1>2, <2>2, <2>3, <2>4, <2>5 DEF Inv
<1>5. CASE RecoverDiscard
  <2>1. \A o, p \in journal : o = p
    BY DEF Inv, Shape
  <2>2. PICK o : journal = {o} /\ Builds(o) /\ blocks' = blocks \ {o.target}
    BY Zenon, <1>5, <2>1 DEF RecoverDiscard
  <2>3. aux' = aux /\ nodes' = nodes /\ journal' = journal /\ status' = "discarded"
    BY <1>5 DEF RecoverDiscard
  <2>4. Shape'
    BY Zenon, <1>1, <2>3 DEF Inv, Shape, OperationShape, Writable, Committing, Statuses
  <2>5. NodesKept' /\ DiskGood'
    BY Zenon, <1>1, <2>2, <2>3 DEF Inv, NodesKept, DiskGood, AfterOf, EndHead
  <2> QED
    BY Zenon, <1>2, <2>3, <2>4, <2>5 DEF Inv, SessionKept
<1> QED
  BY <1>3, <1>4, <1>5, Zenon DEF Recover, Recovery

\* newNode, with an image that passes the validators or one that does not.
LEMMA OpenKept ==
    ASSUME Inv, Open \/ Refuse
    PROVE  Inv'
<1>1. /\ UNCHANGED <<aux, nodes, blocks, head, journal, stage, writeErr, snapshots>>
      /\ status = "down" /\ journal = {}
      /\ status' = "up" \/ status' = "failed"
      /\ status' = "up" => mem' = Load(aux) /\ pending' = Candidate(mem', head)
  BY DEF Open, Refuse, disk, chainVars
<1>2. stage = "idle" /\ ~writeErr /\ snapshots = <<>>
  BY <1>1 DEF Inv, Shape, Writable
<1>3. Good(Load(aux), aux, head)
  <2>1. PICK m : Good(m, aux, head)
    BY Zenon, <1>1 DEF Inv, DiskGood
  <2> QED
    BY <2>1, LoadGood, Zenon
<1>4. Shape' /\ NodesKept' /\ DiskGood'
  BY Zenon, <1>1, <1>2 DEF Inv, Shape, NodesKept, DiskGood, Writable, Committing, Statuses
<1>5. MemoryGood' /\ PendingGood' /\ IndexGood'
  BY Zenon, <1>1, <1>2, <1>3 DEF MemoryGood, PendingGood, IndexGood, Writable, Committing, Ready, Good, Sound,
                                   IndexOf
<1>6. SnapshotsGood'
  BY <1>1, <1>2 DEF Inv, SnapshotsGood
<1> QED
  BY Zenon, <1>4, <1>5, <1>6 DEF Inv

\* A fresh data directory satisfies the invariant.
LEMMA InitKept ==
    ASSUME Init
    PROVE  Inv
<1>1. /\ aux = FreshAux /\ nodes = {} /\ blocks = {Genesis} /\ head = Genesis /\ journal = {}
      /\ stage = "idle" /\ writeErr = FALSE /\ status = "up"
      /\ mem = Load(FreshAux) /\ snapshots = <<>> /\ pending = Candidate(mem, head)
  BY DEF Init
<1>2. Good(mem, aux, head)
  BY <1>1, FreshGood, Zenon
<1>3. Sound(mem, head)
  BY <1>2 DEF Good
<1>4. GoodBlock(head) /\ \A s \in DOMAIN mem.canon : SlotOf(mem.canon[s]) = s
  BY <1>3, Zenon DEF Sound, AllKnown, KnownBlock, IndexOf
<1>5. Shape /\ NodesKept
  BY Zenon, <1>1 DEF Shape, NodesKept, Committing, Writable, Statuses, NodesOf
<1>6. DiskGood /\ MemoryGood /\ PendingGood /\ IndexGood
  BY <1>1, <1>2, <1>4, Zenon DEF DiskGood, MemoryGood, PendingGood, IndexGood, Committing
<1>7. SnapshotsGood
  BY <1>1 DEF SnapshotsGood, IsFIFO
<1> QED
  BY Zenon, <1>5, <1>6, <1>7 DEF Inv

\* The invariant is about the variables of the specification alone.
LEMMA StutterKept ==
    ASSUME Inv, UNCHANGED vars
    PROVE  Inv'
<1>1. UNCHANGED <<aux, nodes, blocks, head, journal, stage, writeErr, status, mem, plan, snapshots, pending>>
  BY DEF vars, commitVars, chainVars
<1> QED
  BY Zenon, <1>1 DEF Inv, Shape, OperationShape, NodesKept, DiskGood, MemoryGood, PendingGood, SnapshotsGood, IndexGood,
              Committing, Writable, AfterOf, EndHead, Ready

\* Every step keeps the invariant.
LEMMA Preserved ==
    ASSUME Inv, [Next]_vars
    PROVE  Inv'
<1>1. CASE UNCHANGED vars
  BY <1>1, StutterKept
<1>2. CASE PreparedCommand
  BY <1>2, CommandPrepared, PrepareKept, Zenon
<1>5. CASE \/ \E name \in Checkpoints : Checkpoint(name)
           \/ \E name \in Branches : \E number \in 0..MaxSlot :
                 number <= Number(head) /\ CreateBranch(name, number)
  BY Zenon, <1>5, PointCommandKept
<1>6. CASE \E count \in 1..MaxSlot : MissSlots(count)
  BY Zenon, <1>6, MissSlotsKept
<1>7. CASE PauseFinality \/ ResumeFinality
  BY Zenon, <1>7, FinalityCommandKept
<1>8. CASE \E t \in RequestTypes : AddExecutionRequest(t)
  BY Zenon, <1>8, AddExecutionRequestKept
<1>9. CASE Snapshot \/ \E id \in DOMAIN snapshots : RevertInPlace(id)
  BY Zenon, <1>9, SnapshotKept
<1>10. CASE Step
  BY Zenon, <1>10, StepKept
<1>11. CASE Apply
  BY Zenon, <1>11, ApplyKept
<1>12. CASE Rebuild
  BY Zenon, <1>12, RebuildKept
<1>13. CASE Error \/ Torn
  BY Zenon, <1>13, ErrorKept
<1>14. CASE Stop \/ Recover
  BY <1>14, RecoverKept
<1>15. CASE Open \/ Refuse
  BY <1>15, OpenKept
<1> QED
  BY <1>1, <1>2, <1>5, <1>6, <1>7, <1>8, <1>9, <1>10, <1>11, <1>12, <1>13, <1>14, <1>15, Zenon
     DEF Next, PreparedCommand

\* The invariant holds in every state of the node.
THEOREM Invariant == Spec => []Inv
<1>1. Init => Inv
  BY Zenon, InitKept
<1>2. Inv /\ [Next]_vars => Inv'
  BY Preserved
<1> QED
  BY <1>1, <1>2, PTL DEF Spec

-----------------------------------------------------------------------------
(* What follows.                                                           *)

\* A stored block has all its state, whatever commits, recoveries and
\* cancellations came before.
THEOREM StateStaysComplete == Spec => []StateComplete
<1>1. Inv => StateComplete
  BY Zenon DEF Inv, NodesKept, StateComplete
<1> QED
  BY <1>1, Invariant, PTL

\* A reader of all block events ends at the canonical head.
THEOREM FollowerEndsAtHead == Spec => []FollowerAtHead
<1>1. Inv => FollowerAtHead
  BY Zenon, ReadyGood DEF FollowerAtHead, Sound
<1> QED
  BY <1>1, Invariant, PTL

\* The taint of a block is that of its ancestry, on every branch.
THEOREM SafetyIsExact == Spec => []SafetyExact
<1>1. ASSUME Inv, Ready, NEW b \in DOMAIN mem.safety
      PROVE  LET unsafe == {a \in Chain(b) : Unsafe(a)}
             IN /\ mem.safety[b].tainted <=> unsafe # {}
                /\ mem.safety[b].first = {a \in unsafe : \A c \in unsafe : Number(a) <= Number(c)}
  <2>1. Exact(mem.safety[b], b)
    BY <1>1, ReadyGood, Zenon DEF Sound, AllKnown, KnownBlock
  <2> QED
    BY <2>1, Zenon DEF Exact, UnsafeIn
<1>2. Inv => SafetyExact
  BY <1>1, Zenon DEF SafetyExact
<1> QED
  BY <1>2, Invariant, PTL

\* A node that accepts writes has in memory what a restart would load.
THEOREM MemoryStaysStored == Spec => []MemoryMatchesDisk
<1>1. ASSUME Inv, Ready
      PROVE  LET stored == Load(aux)
             IN /\ \A f \in DOMAIN stored \ {"canon"} : mem[f] = stored[f]
                /\ \A s \in DOMAIN stored.canon : s \in DOMAIN mem.canon /\ mem.canon[s] = stored.canon[s]
                /\ pending = Candidate(mem, head)
  <2> DEFINE stored == Load(aux)
  <2>1. /\ stored.timeline = mem.timeline /\ stored.slotOf = mem.slotOf /\ stored.safety = mem.safety
        /\ stored.session = mem.session /\ stored.queue = mem.queue
        /\ stored.checkpoints = mem.checkpoints /\ stored.branches = mem.branches
        /\ stored.follower = mem.follower
        /\ \A s \in DOMAIN stored.canon : s \in DOMAIN mem.canon /\ stored.canon[s] = mem.canon[s]
    <3>1. Good(mem, aux, head)
      BY Zenon, <1>1, ReadyGood
    <3> QED
      BY <3>1, LoadGood
  <2>2. DOMAIN stored = {"timeline", "canon", "slotOf", "safety", "session", "queue", "checkpoints", "branches",
                         "follower"}
    BY DEF Load
  <2> HIDE DEF stored
  <2>3. \A f \in DOMAIN stored \ {"canon"} : mem[f] = stored[f]
    BY Zenon, <2>1, <2>2
  <2>4. pending = Candidate(mem, head)
    BY Zenon, <1>1, ReadyGood
  <2> QED
    BY <2>1, <2>3, <2>4, Zenon DEF stored
<1>2. Inv => MemoryMatchesDisk
  BY <1>1, Zenon DEF MemoryMatchesDisk
<1> QED
  BY <1>2, Invariant, PTL

\* The session's taint, its first unsafe block and its reasons are never lost.
THEOREM SessionTaintStays == Spec => SessionTaintMonotonic
<1> DEFINE Key == <<"meta", "session-safety">>
           Monotonic == /\ aux[Key].tainted => aux'[Key].tainted /\ aux'[Key].first = aux[Key].first
                        /\ aux[Key].reasons \subseteq aux'[Key].reasons
<1>1. Inv /\ [Next]_vars => SessionKept
  <2> SUFFICES ASSUME Inv, [Next]_vars PROVE SessionKept
    OBVIOUS
  <2>1. CASE \/ \E name \in Checkpoints : Checkpoint(name)
             \/ \E name \in Branches : \E number \in 0..MaxSlot :
                   number <= Number(head) /\ CreateBranch(name, number)
    BY Zenon, <2>1, PointCommandKept
  <2>2. CASE \E count \in 1..MaxSlot : MissSlots(count)
    BY Zenon, <2>2, MissSlotsKept
  <2>3. CASE PauseFinality \/ ResumeFinality
    BY Zenon, <2>3, FinalityCommandKept
  <2>4. CASE \E t \in RequestTypes : AddExecutionRequest(t)
    BY Zenon, <2>4, AddExecutionRequestKept
  <2>5. CASE Step
    BY Zenon, <2>5, StepKept
  <2>6. CASE Stop \/ Recover
    BY <2>6, RecoverKept
  <2>7. CASE PreparedCommand
    BY <2>7, Zenon DEF PreparedCommand, Mine, ApplyControl, MineBranch, SwitchBranch, Restore, Revert, SwitchCanonical,
                       Commit, Prepare, SessionKept
  <2>8. CASE \/ Snapshot \/ \E id \in DOMAIN snapshots : RevertInPlace(id)
             \/ Apply \/ Rebuild \/ Error \/ Torn \/ Open \/ Refuse \/ UNCHANGED vars
    BY Zenon, <2>8 DEF Snapshot, RevertInPlace, Apply, Rebuild, Error, Torn, Open, Refuse, FailCommit, TornSetCanonical,
                disk, commitVars, vars, SessionKept
  <2> QED
    BY <2>1, <2>2, <2>3, <2>4, <2>5, <2>6, <2>7, <2>8, Zenon DEF Next, PreparedCommand
<1>2. SessionKept => Monotonic
  <2>1. CASE aux' = aux
    BY <2>1
  <2>2. CASE \E m, n, h, g : Good(m, aux, h) /\ Good(n, aux', g) /\ Grows(m, n)
    <3>1. PICK m, n, h, g : Good(m, aux, h) /\ Good(n, aux', g) /\ Grows(m, n)
      BY <2>2, Zenon
    <3>2. StoredAs(m, aux) /\ StoredAs(n, aux')
      BY <3>1, Zenon DEF Good
    <3>3. m.session = aux[Key] /\ n.session = aux'[Key]
      BY <3>2, Zenon DEF StoredAs
    <3> HIDE DEF Key
    <3> QED
      BY <3>1, <3>3, Zenon DEF Grows
  <2> QED
    BY Zenon, <2>1, <2>2 DEF SessionKept
<1>3. Inv /\ [Next]_vars => [Monotonic]_vars
  BY Zenon, <1>1, <1>2
<1>4. [Monotonic]_vars <=>
      [LET old == aux[<<"meta", "session-safety">>]
           new == aux'[<<"meta", "session-safety">>]
       IN /\ old.tainted => new.tainted /\ new.first = old.first
          /\ old.reasons \subseteq new.reasons]_vars
  OBVIOUS
<1> QED
  BY <1>3, Invariant, PTL DEF Spec, SessionTaintMonotonic

=============================================================================
