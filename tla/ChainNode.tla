----------------------------- MODULE ChainNode -----------------------------
(***************************************************************************)
(* The node's write commands over the recovery journal.  Each command of   *)
(* the controller is an action that runs to its first durable write; the   *)
(* commit then takes the steps of PreparedCommit, between which the        *)
(* process may stop, a write may fail and a context may be cancelled.      *)
(*                                                                         *)
(* Commands with a block count (Mine, MineBranch, MissSlots) commit one    *)
(* block at a time or one batch; a count of n is n consecutive commits.    *)
(***************************************************************************)
EXTENDS PreparedCommit, Chain

CONSTANTS
    Commands,      \* names of the commands clients send
    Faults,        \* of "crash", "error", "torn"
    Branches,      \* names of branches
    Checkpoints,   \* names of checkpoints
    MaxSlot,       \* bound on the slots that blocks and missed slots reach
    MaxBlocks,     \* bound on the blocks stored, genesis included
    MaxSnapshots,  \* bound on the snapshots taken
    MaxRequests    \* bound on the execution requests queued

\* The headers of mined and of control blocks are not those of a branch: a
\* branch's name is marked as one in the extra data of its blocks.
ASSUME BranchAssumption == Branches \cap {"mined", "control"} = {}

ASSUME BoundAssumption == {MaxSlot, MaxBlocks, MaxSnapshots, MaxRequests} \subseteq Nat

VARIABLES
    mem,        \* the memory image (Unloaded when the process is down)
    plan,       \* image and finishing work of the commit under way
    snapshots,  \* n.snapshots, lost with the process
    pending     \* the block of the pending view

chainVars == <<mem, plan, snapshots, pending>>
vars == <<commitVars, chainVars>>

Unloaded == <<>>

\* pendingCandidate: the block that the next Mine would build.
Candidate(m, at) == Build(at, m.timeline.slot + 1, "mined", m.queue)

Init ==
    /\ aux = FreshAux
    /\ nodes = {}
    /\ blocks = {Genesis}
    /\ head = Genesis
    /\ journal = {}
    /\ stage = "idle" /\ writeErr = FALSE /\ status = "up"
    /\ mem = Load(FreshAux)
    /\ plan = Unloaded
    /\ snapshots = <<>>
    /\ pending = Candidate(mem, Genesis)

-----------------------------------------------------------------------------
(* Commands that go through commitPrepared.                                *)

\* The journaled operation of a plan that stores a block or moves the head.
Operation(kind, p, builds) ==
    [kind |-> kind, oldHead |-> head, target |-> p.block,
     discardOnCancel |-> kind = "head" /\ builds,
     executionPuts   |-> IF builds THEN NodesOf(p.block) ELSE {},
     rollbackDeletes |-> IF builds THEN RollbackDeletes(NodesOf(p.block)) ELSE {},
     puts |-> p.puts, deletes |-> p.deletes]

Commit(kind, p, builds, used) ==
    /\ Cardinality(blocks \cup {p.block}) <= MaxBlocks
    /\ Prepare(Operation(kind, p, builds))
    /\ plan' = [mem |-> p.mem, used |-> used, rebuild |-> kind = "head"]
    /\ UNCHANGED <<mem, snapshots, pending>>

\* mineExecutionBlock.
Mine ==
    /\ Ready /\ "Mine" \in Commands
    /\ mem.timeline.slot < MaxSlot
    /\ Commit("head", HeadBlockPlan(mem, head, "mined"), TRUE, {})

\* applyControl.
ApplyControl ==
    /\ Ready /\ "ApplyControl" \in Commands
    /\ mem.timeline.slot < MaxSlot
    /\ Commit("head", HeadBlockPlan(mem, head, "control"), TRUE, {})

MineBranch(name) ==
    /\ Ready /\ name \in DOMAIN mem.branches
    /\ SlotOf(mem.branches[name].head) < MaxSlot
    /\ Commit("block", BranchBlockPlan(mem, name), TRUE, {})

\* switchCanonical: nothing to do when neither the head nor the slot changes.
SwitchCanonical(target, slot, used) ==
    /\ target # head \/ slot # mem.timeline.slot
    /\ ReconcileAccepts(mem.queue, aux, PathFrom(head, target), PathFrom(target, head))
    /\ Commit("head", SwitchPlan(mem, aux, head, target, slot), FALSE, used)

\* Mutant: without the check of finalized history.
SwitchBranchUnchecked(name) ==
    /\ Ready /\ name \in DOMAIN mem.branches
    /\ LET target == mem.branches[name].head
       IN SwitchCanonical(target, Lookup(mem.slotOf, target, SlotOf(target)), {})

SwitchBranch(name) ==
    /\ Ready /\ name \in DOMAIN mem.branches
    /\ LET target == mem.branches[name].head
       IN /\ Number(CommonAncestor(head, target)) >= Number(Finalized(mem, head).block)
          /\ SwitchCanonical(target, Lookup(mem.slotOf, target, SlotOf(target)), {})

Restore(name) ==
    /\ Ready /\ name \in DOMAIN mem.checkpoints
    /\ mem.checkpoints[name].block \in blocks
    /\ SwitchCanonical(mem.checkpoints[name].block, mem.checkpoints[name].slot, {})

Revert(id) ==
    /\ Ready /\ id \in DOMAIN snapshots /\ ~snapshots[id].used
    /\ snapshots[id].block \in blocks
    /\ SwitchCanonical(snapshots[id].block, snapshots[id].slot, {id})

\* Revert when switchCanonical has nothing to do: the snapshot is spent.
RevertInPlace(id) ==
    /\ Ready /\ id \in DOMAIN snapshots /\ ~snapshots[id].used
    /\ snapshots[id].block = head /\ snapshots[id].slot = mem.timeline.slot
    /\ snapshots' = [snapshots EXCEPT ![id].used = TRUE]
    /\ UNCHANGED <<commitVars, mem, plan, pending>>

-----------------------------------------------------------------------------
(* Commands that go through commitAuxiliary, or that write nothing.        *)

AuxiliaryCommit(puts, image) ==
    /\ CommitAuxiliary(puts, {})
    /\ mem' = image
    /\ UNCHANGED <<plan, snapshots>>

\* The current head, slot and taint, as a checkpoint or a snapshot keeps them.
ChainPoint ==
    [block |-> head, slot |-> mem.timeline.slot, tainted |-> Lookup(mem.safety, head, Clean).tainted]

Checkpoint(name) ==
    /\ Ready /\ "Checkpoint" \in Commands
    /\ AuxiliaryCommit(Puts({<<"checkpoint", name, ChainPoint>>}),
                       [mem EXCEPT !.checkpoints = Put(@, name, ChainPoint)])
    /\ UNCHANGED pending

Snapshot ==
    /\ Ready /\ "Snapshot" \in Commands
    /\ Len(snapshots) < MaxSnapshots
    /\ snapshots' = Append(snapshots, [block |-> head, slot |-> mem.timeline.slot, used |-> FALSE])
    /\ UNCHANGED <<commitVars, mem, plan, pending>>

\* CreateBranch, from a canonical block that is not finalized history.
CreateBranch(name, number) ==
    /\ Ready /\ name \notin DOMAIN mem.branches
    /\ number >= Number(Finalized(mem, head).block) \/ number = Number(head)
    /\ LET base == AtNumber(head, number)
           item == [base |-> base, head |-> base, tainted |-> Lookup(mem.safety, base, Clean).tainted]
       IN AuxiliaryCommit(Puts({<<"branch", name, item>>}), [mem EXCEPT !.branches = Put(@, name, item)])
    /\ UNCHANGED pending

\* MissSlots.  The pending view is built for the slot after the missed ones
\* before the commit and installed by its apply closure.
MissSlots(count) ==
    /\ Ready /\ "MissSlots" \in Commands
    /\ mem.timeline.slot + count <= MaxSlot
    /\ LET start == mem.timeline.slot
           image == [mem EXCEPT
                        !.timeline = [@ EXCEPT !.slot = start + count, !.last = start + count],
                        !.follower = AnnounceBetween(@, mem, head, start, start + count)]
       IN /\ AuxiliaryCommit(Puts({<<"meta", "timeline", image.timeline>>,
                                   <<"meta", "events", image.follower>>}), image)
          /\ pending' = Build(head, start + count + 1, "mined", mem.queue)

PauseFinality ==
    /\ Ready /\ "PauseFinality" \in Commands /\ ~mem.timeline.paused
    /\ LET timeline == [mem.timeline EXCEPT !.paused = TRUE, !.frozen = mem.timeline.slot]
       IN AuxiliaryCommit(Puts({<<"meta", "timeline", timeline>>}), [mem EXCEPT !.timeline = timeline])
    /\ UNCHANGED pending

\* Mutant: no event for the checkpoint that finality catches up with.
ResumeFinalityQuietly ==
    /\ Ready /\ mem.timeline.paused
    /\ LET timeline == [mem.timeline EXCEPT !.paused = FALSE, !.frozen = 0]
       IN AuxiliaryCommit(Puts({<<"meta", "timeline", timeline>>}), [mem EXCEPT !.timeline = timeline])
    /\ UNCHANGED pending

\* ResumeFinality catches up with the current slot and announces it once.
ResumeFinality ==
    /\ Ready /\ mem.timeline.paused
    /\ LET timeline == [mem.timeline EXCEPT !.paused = FALSE, !.frozen = 0]
           follower == AnnounceFinality(mem.follower, Finalized(mem, head),
                                        FinalizedAt(mem, head, mem.timeline.slot))
       IN AuxiliaryCommit(Puts({<<"meta", "timeline", timeline>>, <<"meta", "events", follower>>}),
                          [mem EXCEPT !.timeline = timeline, !.follower = follower])
    /\ UNCHANGED pending

\* Mutant: the FIFO is changed in memory only.
AddExecutionRequestUnsaved(t) ==
    /\ Ready /\ mem.queue.next <= MaxRequests
    /\ Len(mem.queue.items[t]) < Capacity[t]
    /\ LET image == [mem EXCEPT !.queue = Enqueue(@, t)]
       IN AuxiliaryCommit(<<>>, image) /\ pending' = Candidate(image, head)

\* addExecutionRequest, refused when the FIFO of the type is full.
AddExecutionRequest(t) ==
    /\ Ready /\ mem.queue.next <= MaxRequests
    /\ Len(mem.queue.items[t]) < Capacity[t]
    /\ LET image == [mem EXCEPT !.queue = Enqueue(@, t)]
       IN /\ AuxiliaryCommit(Puts({<<"meta", "queue", image.queue>>}), image)
          /\ pending' = Candidate(image, head)

-----------------------------------------------------------------------------
(* The rest of a commit, failures, and the life of the process.            *)

\* commitPrepared's apply closure, after the batch.
Apply ==
    /\ stage = "final"
    /\ mem' = plan.mem
    /\ stage' = IF plan.rebuild THEN "rebuild" ELSE "idle"
    /\ plan' = IF plan.rebuild THEN plan ELSE Unloaded
    /\ UNCHANGED <<disk, writeErr, status, snapshots, pending>>

\* rebuildPendingView and the return to the command: a reverted snapshot is
\* spent only now.
Rebuild ==
    /\ stage = "rebuild"
    /\ pending' = Candidate(mem, head)
    /\ snapshots' = [id \in DOMAIN snapshots |->
                        [snapshots[id] EXCEPT !.used = @ \/ id \in plan.used]]
    /\ stage' = "idle"
    /\ plan' = Unloaded
    /\ UNCHANGED <<disk, writeErr, status, mem>>

\* A step of the commit that touches the database or geth only.
Step ==
    /\ WriteNodes \/ PersistBlock \/ SetCanonical \/ FinalizeCommit
    /\ UNCHANGED chainVars

\* An error of a write, of a hook, or of the rebuild (a cancelled context)
\* disables further writes; the node goes on answering reads.
Error ==
    /\ "error" \in Faults /\ FailCommit
    /\ plan' = Unloaded
    /\ UNCHANGED <<mem, snapshots, pending>>

\* geth's SetCanonical stops at a block on the way to the target.
Torn ==
    /\ "torn" \in Faults
    /\ \E o \in journal : \E b \in PathFrom(o.target, head) : TornSetCanonical(b)
    /\ plan' = Unloaded
    /\ UNCHANGED <<mem, snapshots, pending>>

\* The process stops; everything in memory is lost.
Stop ==
    /\ "crash" \in Faults /\ Crash
    /\ mem' = Unloaded /\ plan' = Unloaded /\ snapshots' = <<>> /\ pending' = Genesis

\* recoverPreparedOperation, and a further attempt after a failed start.
Recover == (Recovery \/ StartAgain) /\ UNCHANGED chainVars

\* newNode after recovery: load, validate, rebuild the pending view.
Open ==
    /\ status = "down" /\ journal = {}
    /\ Valid(Load(aux), aux, blocks, head)
    /\ status' = "up"
    /\ mem' = Load(aux)
    /\ pending' = Candidate(mem', head)
    /\ UNCHANGED <<disk, stage, writeErr, plan, snapshots>>

Refuse ==
    /\ status = "down" /\ journal = {}
    /\ ~Valid(Load(aux), aux, blocks, head)
    /\ status' = "failed"
    /\ UNCHANGED <<disk, stage, writeErr, chainVars>>

Next ==
    \/ Mine \/ ApplyControl \/ Snapshot \/ PauseFinality \/ ResumeFinality
    \/ \E name \in Branches :
          \/ MineBranch(name) \/ SwitchBranch(name)
          \/ \E number \in 0..MaxSlot : number <= Number(head) /\ CreateBranch(name, number)
    \/ \E name \in Checkpoints : Checkpoint(name) \/ Restore(name)
    \/ \E id \in DOMAIN snapshots : Revert(id) \/ RevertInPlace(id)
    \/ \E count \in 1..MaxSlot : MissSlots(count)
    \/ \E t \in RequestTypes : AddExecutionRequest(t)
    \/ Step \/ Apply \/ Rebuild \/ Error \/ Torn
    \/ Stop \/ Recover \/ Open \/ Refuse

Spec == Init /\ [][Next]_vars

-----------------------------------------------------------------------------
(* Properties.                                                             *)

\* The fields every action keeps well formed; the image is loaded exactly
\* while the process is up.
TypeOK ==
    /\ stage \in Stages \cup {"rebuild"}
    /\ status \in Statuses
    /\ writeErr \in BOOLEAN
    /\ Cardinality(journal) <= 1
    /\ Genesis \in blocks
    /\ head \in blocks
    /\ (mem = Unloaded) <=> (status # "up")
    /\ (plan # Unloaded) => status = "up" /\ stage # "idle"
    /\ \A id \in DOMAIN snapshots : snapshots[id].used \in BOOLEAN

\* A node that accepts writes has in memory what a restart would load and
\* build: the metadata, and the pending view for its head, slot and FIFO.  The
\* canonical index is the exception: a switch between blocks of one slot puts
\* and deletes the same key, so the stored index may lack entries; it never
\* has one that memory has not.
MemoryMatchesDisk ==
    Ready =>
        LET stored == Load(aux)
        IN /\ \A f \in DOMAIN stored \ {"canon"} : mem[f] = stored[f]
           /\ \A s \in DOMAIN stored.canon : s \in DOMAIN mem.canon /\ mem.canon[s] = stored.canon[s]
           /\ pending = Candidate(mem, head)

\* The incremental taint of blockSafetyForChild is the taint of the ancestry:
\* a block is tainted iff it or an ancestor is unsafe, and the first unsafe
\* block on record is the lowest one, on every branch.
SafetyExact ==
    Ready => \A b \in DOMAIN mem.safety :
        LET unsafe == {a \in Chain(b) : Unsafe(a)}
        IN /\ mem.safety[b].tainted <=> unsafe # {}
           /\ mem.safety[b].first = {a \in unsafe : \A c \in unsafe : Number(a) <= Number(c)}

\* "The session taint bit is monotonic even when a reorg returns the head to
\* a clean branch", also across crashes and restarts: the first unsafe block
\* and the reasons on disk are never lost.
SessionTaintMonotonic ==
    [][LET old == aux[<<"meta", "session-safety">>]
           new == aux'[<<"meta", "session-safety">>]
       IN /\ old.tainted => new.tainted /\ new.first = old.first
          /\ old.reasons \subseteq new.reasons]_vars

\* Every queued request is either pending or consumed by exactly one block of
\* the canonical chain: no switch, crash or recovery loses or repeats one.
RequestsConserved ==
    Ready =>
        LET pendingIDs == AllIDs(mem.queue.items)
            consumed(b) == AllIDs(aux[<<"record", b>>].controls)
        IN /\ 1..(mem.queue.next - 1) = pendingIDs \cup UNION {consumed(b) : b \in Chain(head)}
           /\ \A b \in Chain(head) : consumed(b) \cap pendingIDs = {}
           /\ \A b, c \in Chain(head) : b # c => consumed(b) \cap consumed(c) = {}

\* reconcileExecutionRequestQueue never refuses a branch, checkpoint or
\* snapshot the node still offers.
SwitchesAccepted ==
    Ready =>
        LET offered == {mem.branches[name].head : name \in DOMAIN mem.branches}
                       \cup {mem.checkpoints[name].block : name \in DOMAIN mem.checkpoints}
                       \cup {snapshots[id].block : id \in {i \in DOMAIN snapshots : ~snapshots[i].used}}
        IN \A b \in offered :
              b \in blocks /\ ReconcileAccepts(mem.queue, aux, PathFrom(head, b), PathFrom(b, head))

\* A reader who follows the block events from genesis ends at the canonical
\* head: removals and additions form a walk of the tree, none is missing.
FollowerAtHead == Ready => mem.follower.tip = {head}

\* Every stored block has its state: recovery removes the block before the
\* execution keys, and only keys that no other block can need.
StateComplete == \A b \in blocks : NodesOf(b) \subseteq nodes

-----------------------------------------------------------------------------
(* Starts and readers.                                                     *)

\* SetCanonical stopped between the old head and the target.
HeadTorn == \E o \in journal : head \notin {o.oldHead, o.target}

\* A switch between two blocks of one slot has deleted the entry it put.
IndexEntryLost == \E b \in Chain(head) : <<"canonical-slot", SlotOf(b)>> \notin DOMAIN aux

\* Recovery has deleted a block that an earlier commit had stored.
StoredBlockDiscarded == \E k \in DOMAIN aux : k[1] = "block-slot" /\ k[2] \notin blocks

\* Whatever point of a commit or of a recovery the process stops at, and
\* whatever rewinds and switches came before, the next start recovers the
\* journal and passes every validator.  The three exceptions are the torn
\* reorganisation, where startup is to refuse, and the two losses above.
StartSucceeds == status = "failed" => HeadTorn \/ IndexEntryLost \/ StoredBlockDiscarded

\* Readers resolve safe, finalized and slot identifiers beside the controller,
\* from a slot that may be out of date, also while geth's head has moved and
\* the slot index has not, and after a failed commit: the block is on geth's
\* canonical chain, and an older slot never resolves to a newer block.
ReadersStayCanonical ==
    status = "up" =>
        LET at == [s \in 0..MaxSlot |-> BlockAtOrBeforeSlot(mem, head, s)]
        IN \A s \in 0..MaxSlot : at[s] \in Chain(IF s < MaxSlot THEN at[s + 1] ELSE head)

\* A finalized checkpoint that changes is announced by the commit that changes
\* it, through missed slots, pauses and a resume that catches up at once: the
\* commit of a new block, or one that does not move the head.  (A switch
\* announces none.)
AnnouncedFinality ==
    [][/\ mem # Unloaded /\ mem' # Unloaded
       /\ stage = "idle" \/ head \notin DOMAIN mem.slotOf
       /\ Finalized(mem, head) # Finalized(mem', head)
       => mem'.follower.final = Finalized(mem', head)]_vars

-----------------------------------------------------------------------------
(* Properties of a node that switches branches.                            *)

\* SwitchBranch never takes the finalized block, as resolved when the command
\* started, off the canonical chain.  (Revert and Restore have no such guard:
\* this is a property of nodes that are not given those commands.)
FinalizedHistoryKept ==
    [][head' # head /\ mem # Unloaded => Finalized(mem, head).block \in Chain(head')]_vars

\* Every block of the canonical chain is in the stored canonical slot index.
StoredIndexCoversChain ==
    Ready => \A b \in Chain(head) : Lookup(aux, <<"canonical-slot", SlotOf(b)>>, Genesis) = b

=============================================================================
