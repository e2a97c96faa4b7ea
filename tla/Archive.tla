------------------------------- MODULE Archive ------------------------------
(***************************************************************************)
(* State archives (archive.go): DumpState spools the database, writes an   *)
(* archive beside the destination and renames it into place; LoadState and *)
(* InspectState accept an archive whose manifest matches its database.     *)
(*                                                                         *)
(* The database is the number of the commit it holds and whether a journal *)
(* is pending; a manifest is what the memory image said when it was        *)
(* written.  A power failure loses what was not synced: a file's contents  *)
(* become torn, and a rename may be undone.                                *)
(***************************************************************************)
EXTENDS Naturals

CONSTANTS
    MaxCommits,  \* bound on commits
    MaxDumps     \* bound on dumps

VARIABLES
    rows,      \* the commit that the database holds
    journal,   \* a prepared operation is stored
    image,     \* the commit that the memory image holds
    stage,     \* the controller: "idle", or where its commit is
    writeErr,  \* n.writeErr # nil
    up,        \* "running", "closing" (the controller has ended) or "down"
    dump,      \* where dumpState is
    spool,     \* the spooled database
    temp,      \* the archive being written
    path,      \* the archive at the destination
    stable,    \* what the destination's directory entry is on disk
    dumps,     \* dumps begun
    reported   \* history: the last dump that returned no error

nodeVars == <<rows, journal, image, stage, writeErr, up>>
fileVars == <<spool, temp, path, stable>>
vars == <<nodeVars, fileVars, dump, dumps, reported>>

None == [id |-> 0]

-----------------------------------------------------------------------------
(* Reading an archive.                                                     *)

\* scanArchive: both entries are there and the checksum matches.
Scanned(archive) == ~archive.torn

\* validateArchiveDatabase: no journal, and the manifest's head, timeline,
\* safety and revision are the database's.
Valid(archive) == ~archive.journal /\ archive.manifest = archive.rows

\* LoadState, up to the staged directory, and InspectState.
Loads(archive) == Scanned(archive) /\ Valid(archive)

-----------------------------------------------------------------------------
(* The node, as far as archives see it.                                    *)

Init ==
    /\ rows = 0 /\ journal = FALSE /\ image = 0 /\ stage = "idle"
    /\ writeErr = FALSE /\ up = "running"
    /\ dump = "idle" /\ dumps = 0 /\ reported = 0
    /\ spool = None /\ temp = None /\ path = None /\ stable = None

\* commitPrepared, until the journal is written.
Prepare ==
    /\ up = "running" /\ dump = "idle" /\ stage = "idle" /\ ~writeErr /\ rows < MaxCommits
    /\ journal' = TRUE /\ stage' = "prepared"
    /\ UNCHANGED <<rows, image, writeErr, up, fileVars, dump, dumps, reported>>

\* finalizePreparedOperation.
Finalize ==
    /\ stage = "prepared" /\ up = "running"
    /\ rows' = rows + 1 /\ journal' = FALSE /\ stage' = "written"
    /\ UNCHANGED <<image, writeErr, up, fileVars, dump, dumps, reported>>

\* The apply closure.
Apply ==
    /\ stage = "written" /\ up = "running"
    /\ image' = rows /\ stage' = "idle"
    /\ UNCHANGED <<rows, journal, writeErr, up, fileVars, dump, dumps, reported>>

\* disableWrites.
FailCommit ==
    /\ stage # "idle" /\ up = "running"
    /\ writeErr' = TRUE /\ stage' = "idle"
    /\ UNCHANGED <<rows, journal, image, up, fileVars, dump, dumps, reported>>

\* callCommand recovers a panic of the code that a commit calls (its apply
\* closure only assigns); the
\* controller ends without disabling writes.
Panic ==
    /\ stage = "prepared" /\ up = "running"
    /\ up' = "closing" /\ stage' = "idle"
    /\ UNCHANGED <<rows, journal, image, writeErr, fileVars, dump, dumps, reported>>

\* Close, once the controller has ended.
Close ==
    /\ up = "running" /\ stage = "idle" /\ dump = "idle"
    /\ up' = "closing"
    /\ UNCHANGED <<rows, journal, image, stage, writeErr, fileVars, dump, dumps, reported>>

-----------------------------------------------------------------------------
(* dumpState, a command of the controller or the last step of Close.       *)

\* spoolDatabase: every key and value that is stored, with a digest.
Spooled == [id |-> dumps + 1, rows |-> rows, journal |-> journal]

\* Mutant: a failed commit does not refuse the dump.
DumpAfterFailure ==
    /\ up # "down" /\ stage = "idle" /\ dump = "idle" /\ dumps < MaxDumps
    /\ ~journal
    /\ dump' = "spooled" /\ dumps' = dumps + 1
    /\ spool' = Spooled
    /\ UNCHANGED <<nodeVars, temp, path, stable, reported>>

\* dumpState's refusals and spoolDatabase.
Spool ==
    /\ up # "down" /\ stage = "idle" /\ dump = "idle" /\ dumps < MaxDumps
    /\ ~writeErr /\ ~journal
    /\ dump' = "spooled" /\ dumps' = dumps + 1
    /\ spool' = Spooled
    /\ UNCHANGED <<nodeVars, temp, path, stable, reported>>

\* writeArchiveAtomicFromSpool: the entries, with the manifest of the image.
WriteArchive ==
    /\ dump = "spooled"
    /\ dump' = "written"
    /\ temp' = [id |-> spool.id, rows |-> spool.rows, journal |-> spool.journal,
                manifest |-> image, synced |-> FALSE, torn |-> FALSE]
    /\ UNCHANGED <<nodeVars, spool, path, stable, dumps, reported>>

\* file.Sync.
SyncArchive ==
    /\ dump = "written"
    /\ dump' = "synced" /\ temp' = [temp EXCEPT !.synced = TRUE]
    /\ UNCHANGED <<nodeVars, spool, path, stable, dumps, reported>>

\* Mutant: nothing is synced after the rename.
RenameAndReport ==
    /\ dump = "synced"
    /\ dump' = "idle" /\ path' = temp /\ temp' = None /\ spool' = None
    /\ reported' = temp.id
    /\ UNCHANGED <<nodeVars, stable, dumps>>

\* os.Rename.
RenameArchive ==
    /\ dump = "synced"
    /\ dump' = "renamed" /\ path' = temp /\ temp' = None
    /\ UNCHANGED <<nodeVars, spool, stable, dumps, reported>>

\* syncDirectory, and the return.
SyncDirectory ==
    /\ dump = "renamed"
    /\ dump' = "idle" /\ stable' = path /\ spool' = None
    /\ reported' = path.id
    /\ UNCHANGED <<nodeVars, temp, path, dumps>>

\* An error removes the temporary files; a rename that succeeded stays.
DumpFails ==
    /\ dump # "idle"
    /\ dump' = "idle" /\ spool' = None /\ temp' = None
    /\ UNCHANGED <<nodeVars, path, stable, dumps, reported>>

-----------------------------------------------------------------------------
(* Power failure and restart.                                              *)

Torn(archive) == IF archive = None \/ archive.synced THEN archive ELSE [archive EXCEPT !.torn = TRUE]

\* The directory entry may or may not have reached the disk by itself.
PowerFailure ==
    /\ up # "down"
    /\ up' = "down" /\ stage' = "idle" /\ dump' = "idle" /\ writeErr' = FALSE
    /\ \E entry \in {path, stable} : path' = Torn(entry) /\ stable' = Torn(entry)
    /\ spool' = None /\ temp' = None
    /\ UNCHANGED <<rows, journal, image, dumps, reported>>

\* A start recovers the journal either way and loads the image.
Restart ==
    /\ up = "down" \/ (up = "closing" /\ dump = "idle")
    /\ up' = "running" /\ journal' = FALSE /\ writeErr' = FALSE
    /\ \E n \in IF journal THEN {rows, rows + 1} ELSE {rows} : rows' = n /\ image' = n
    /\ UNCHANGED <<stage, fileVars, dump, dumps, reported>>

Next ==
    \/ Prepare \/ Finalize \/ Apply \/ FailCommit \/ Panic \/ Close
    \/ Spool \/ WriteArchive \/ SyncArchive \/ RenameArchive \/ SyncDirectory \/ DumpFails
    \/ PowerFailure \/ Restart

Spec == Init /\ [][Next]_vars

-----------------------------------------------------------------------------
(* Properties.                                                             *)

\* What is at the destination is an archive that LoadState accepts, whatever
\* commits failed before the dump and wherever a dump or the power failed:
\* "atomic staging for both dump and load".
DestinationLoads == path = None \/ Loads(path)

=============================================================================
