--------------------------- MODULE StagedDirectory --------------------------
(***************************************************************************)
(* Installing a database directory (staged_directory.go, LoadState of      *)
(* archive.go, New of node.go).  LoadState and a node that starts on a     *)
(* fresh path build the database in a sibling directory, close it and      *)
(* rename it to the destination; the node then opens it, and takes it away *)
(* again when it cannot.  Several processes may work on one destination,   *)
(* each may stop, and the power may fail: the destination's entry in its   *)
(* directory is then any of those it had since the directory was synced.   *)
(***************************************************************************)
CONSTANTS
    Loaders,      \* processes that call LoadState
    Nodes,        \* processes that call New
    Placeholder,  \* the destination exists at first, as an empty directory
    Replaces,     \* rename replaces an empty directory (POSIX)
    Faults        \* steps that may fail by themselves: "rename", "sync", "open"

Processes == Loaders \cup Nodes

VARIABLES
    dest,     \* "absent", "empty", "partial" (some files of a database are
              \* removed) or the process whose database it is
    entries,  \* what the disk may have as the destination
    whole,    \* processes whose database is complete and closed
    staging,  \* processes whose staging directory exists
    existed,  \* target.existed of each process
    pc,       \* where each process is
    holder,   \* the processes that have the destination open (Pebble's lock: at most one)
    undone    \* history: the processes that began to remove what they installed

vars == <<dest, entries, whole, staging, existed, pc, holder, undone>>

Original == IF Placeholder THEN "empty" ELSE "absent"

Init ==
    /\ dest = Original /\ entries = {Original}
    /\ whole = {} /\ staging = {} /\ holder = {}
    /\ existed = [p \in Processes |-> FALSE]
    /\ pc = [p \in Processes |-> "begin"]
    /\ undone = {}

AtWork(at) == at \notin {"begin", "done", "failed", "crashed"}

Go(p, at) ==
    /\ pc' = [pc EXCEPT ![p] = at]
    /\ undone' = IF at = "removing" THEN undone \cup {p} ELSE undone

\* A step that leaves the destination alone, and one that changes its entry.
KeepDest == UNCHANGED <<dest, entries>>
SetDest(d) == dest' = d /\ entries' = entries \cup {d}

\* A return with an error; the deferred call removes the staging directory.
Fail(p) == Go(p, "failed") /\ staging' = staging \ {p}

-----------------------------------------------------------------------------
(* Before the installation.                                                *)

\* LoadState; or New, where freshStoragePath looks at the destination and
\* newStagedPebbleNode makes its staging directory before the inspection.
Begin(p) ==
    /\ pc[p] = "begin"
    /\ IF p \in Nodes /\ dest \notin {"absent", "empty"} THEN Go(p, "open") /\ UNCHANGED staging
       ELSE Go(p, "inspect") /\ staging' = staging \cup ({p} \cap Nodes)
    /\ KeepDest /\ UNCHANGED <<whole, existed, holder>>

\* inspectEmptyDirectoryTarget; a staging directory made before is not removed
\* when it refuses the destination.
Inspect(p) ==
    /\ pc[p] = "inspect"
    /\ IF dest \notin {"absent", "empty"}
       THEN Go(p, "failed") /\ UNCHANGED <<staging, existed>>
       ELSE /\ Go(p, "stage") /\ staging' = staging \cup {p}
            /\ existed' = [existed EXCEPT ![p] = (dest = "empty")]
    /\ KeepDest /\ UNCHANGED <<whole, holder>>

\* The database is written, checked and closed; or refused.
Stage(p) ==
    /\ pc[p] = "stage"
    /\ \/ Go(p, "rename") /\ whole' = whole \cup {p} /\ UNCHANGED staging
       \/ Fail(p) /\ UNCHANGED whole
    /\ KeepDest /\ UNCHANGED <<existed, holder>>

-----------------------------------------------------------------------------
(* installStagedDirectory.                                                 *)

\* os.Rename's success.
Renames(p) ==
    /\ dest = "absent" \/ (dest = "empty" /\ Replaces)
    /\ SetDest(p) /\ staging' = staging \ {p}
    /\ Go(p, "sync")

RenameFails == dest \notin {"absent", "empty"} \/ (dest = "empty" /\ ~Replaces) \/ "rename" \in Faults

Rename(p) ==
    /\ pc[p] = "rename"
    /\ \/ Renames(p)
       \/ /\ RenameFails
          /\ IF existed[p] THEN Go(p, "remove") /\ UNCHANGED staging ELSE Fail(p)
          /\ KeepDest
    /\ UNCHANGED <<whole, existed, holder>>

\* Mutant: os.RemoveAll.
RemoveAllPlaceholder(p) ==
    /\ pc[p] = "remove"
    /\ SetDest("absent") /\ Go(p, "again") /\ UNCHANGED staging
    /\ UNCHANGED <<whole, existed, holder>>

\* os.Remove fails unless the directory is there and empty.
RemovePlaceholder(p) ==
    /\ pc[p] = "remove"
    /\ IF dest = "empty" THEN SetDest("absent") /\ Go(p, "again") /\ UNCHANGED staging
       ELSE Fail(p) /\ KeepDest
    /\ UNCHANGED <<whole, existed, holder>>

RenameAgain(p) ==
    /\ pc[p] = "again"
    /\ \/ Renames(p)
       \/ RenameFails /\ Go(p, "restore") /\ KeepDest /\ UNCHANGED staging
    /\ UNCHANGED <<whole, existed, holder>>

\* restoreEmpty; os.Mkdir fails if something is there.
RestoreEmpty(p) ==
    /\ pc[p] = "restore"
    /\ IF existed[p] /\ dest = "absent" THEN SetDest("empty") ELSE KeepDest
    /\ Fail(p)
    /\ UNCHANGED <<whole, existed, holder>>

\* syncDirectory; LoadState returns.
Sync(p) ==
    /\ pc[p] = "sync"
    /\ \/ Go(p, IF p \in Loaders THEN "done" ELSE "reopen") /\ entries' = {dest}
       \/ "sync" \in Faults /\ Go(p, "rollback") /\ UNCHANGED entries
    /\ UNCHANGED <<dest, whole, staging, existed, holder>>

\* rollback: os.RemoveAll takes the files away one by one.
Rollback(p) ==
    /\ \/ pc[p] = "rollback" /\ SetDest("partial") /\ Go(p, "removing")
       \/ pc[p] = "removing" /\ SetDest("absent") /\ Go(p, "undo")
    /\ UNCHANGED <<whole, staging, existed, holder>>

\* rollback: restoreEmpty and syncDirectory.
Undo(p) ==
    /\ pc[p] = "undo"
    /\ dest' = IF existed[p] /\ dest = "absent" THEN "empty" ELSE dest
    /\ entries' \in {{dest'}} \cup (IF "sync" \in Faults THEN {entries \cup {dest'}} ELSE {})
    /\ Fail(p)
    /\ UNCHANGED <<whole, existed, holder>>

-----------------------------------------------------------------------------
(* Opening the destination.                                                *)

\* newNode after the installation.
Reopen(p) ==
    /\ pc[p] = "reopen"
    /\ \/ holder = {} /\ holder' = {p} /\ Go(p, "done")
       \/ (holder # {} \/ "open" \in Faults) /\ Go(p, "rollback") /\ UNCHANGED holder
    /\ KeepDest /\ UNCHANGED <<whole, staging, existed>>

\* newNode on a path that was not fresh.
Open(p) ==
    /\ pc[p] = "open"
    /\ \/ holder = {} /\ dest \in Processes /\ holder' = {p} /\ Go(p, "done")
       \/ (holder # {} \/ dest \notin Processes \/ "open" \in Faults) /\ Go(p, "failed") /\ UNCHANGED holder
    /\ KeepDest /\ UNCHANGED <<whole, staging, existed>>

\* A node that was closed releases its database.
CloseNode(p) ==
    /\ p \in holder /\ holder' = {} /\ KeepDest /\ UNCHANGED <<whole, staging, existed, pc, undone>>

\* The process stops; its staging directory is left behind.
Crash(p) ==
    /\ AtWork(pc[p]) /\ Go(p, "crashed")
    /\ KeepDest /\ UNCHANGED <<whole, staging, existed, holder>>

\* The power fails: every process stops, and the entry is one the disk may have.
PowerFailure ==
    /\ \E p \in Processes : AtWork(pc[p]) \/ p \in holder
    /\ pc' = [p \in Processes |-> IF AtWork(pc[p]) THEN "crashed" ELSE pc[p]]
    /\ holder' = {}
    /\ dest' \in entries /\ entries' = {dest'}
    /\ UNCHANGED <<whole, staging, existed, undone>>

Step(p) ==
    \/ Begin(p) \/ Inspect(p) \/ Stage(p)
    \/ Rename(p) \/ RemovePlaceholder(p) \/ RenameAgain(p) \/ RestoreEmpty(p)
    \/ Sync(p) \/ Rollback(p) \/ Undo(p) \/ Reopen(p) \/ Open(p)

Next == PowerFailure \/ \E p \in Processes : Step(p) \/ CloseNode(p) \/ Crash(p)

Spec == Init /\ [][Next]_vars

-----------------------------------------------------------------------------
(* Properties.                                                             *)

\* The database of a load that returned without error stays at the destination:
\* no other process takes it away, however their steps interleave and whichever
\* of them fail, and it survives a power failure.  The destination holds a
\* complete database or none, also under a node that has it open, except when
\* the process that installed it removes it again (or stopped doing so).
InstalledKept ==
    /\ \A p \in Loaders : pc[p] = "done" => dest = p
    /\ dest \in whole \cup {"absent", "empty"} \/ undone # {}
    /\ holder # {} => dest \in whole \/ undone # {}

=============================================================================
