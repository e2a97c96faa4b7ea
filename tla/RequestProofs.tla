---------------------------- MODULE RequestProofs ---------------------------
(***************************************************************************)
(* Proofs about single requests.                                           *)
(*                                                                         *)
(* EstimateGas: EstimateExact for every gas cap, every set of amounts and  *)
(* every way in which a call may depend on its gas.                        *)
(*                                                                         *)
(* StateFiles: archives and database directories, for any number of        *)
(* loading processes, nodes, commits and dumps, any faults, and rename     *)
(* with or without replacement of an empty directory.                      *)
(***************************************************************************)
EXTENDS EstimateGas, StateFiles, TLAPS

-----------------------------------------------------------------------------
(* eth_estimateGas.                                                        *)

\* The types: amounts of gas are natural numbers, and no call succeeds with a
\* gas of 0 or 1.
EstimateTypes ==
    /\ limit \in Nat
    /\ asked \in Nat \cup {NoGas}
    /\ enough \in SUBSET (Nat \ {0, 1})
    /\ low \in Nat /\ high \in Nat
    /\ estimate \in {"idle", "search", "done", "failed", "refused", "aborted"}

\* At the end of the search its bounds have met and the call was executed with
\* what they enclose.
EndInv ==
    Ceiling >= 2 =>
        /\ estimate = "done" => low = high /\ high \in enough
        /\ estimate = "failed" => high \notin enough

EstimateInv == EstimateTypes /\ SearchInv /\ EndInv

LEMMA CeilingNat == EstimateTypes => Ceiling \in Nat
BY CapAssumption DEF EstimateTypes, Ceiling, Least, NoGas

\* A probe lies strictly below high.
LEMMA MiddleBetween ==
    ASSUME NEW l \in Nat, NEW h \in Nat, l < h
    PROVE  /\ l + (h - l) \div 2 \in Nat
           /\ l <= l + (h - l) \div 2
           /\ l + (h - l) \div 2 < h
           /\ h >= 2 /\ l = 0 => l + (h - l) \div 2 # 0
OBVIOUS

LEMMA EstimateInitially == EstimateInit => EstimateInv
BY AmountsAssumption DEF EstimateInit, EstimateInv, EstimateTypes, SearchInv, EndInv, NoGas

LEMMA EstimatePreserved == EstimateInv /\ [EstimateNext]_estimateVars => EstimateInv'
<1> SUFFICES ASSUME EstimateInv, [EstimateNext]_estimateVars PROVE EstimateInv'
    OBVIOUS
<1> USE DEF EstimateInv
<1>0. Ceiling \in Nat
    BY CeilingNat
<1>1. CASE EstimateBegin
    <2>1. Ceiling' = Ceiling
        BY <1>1 DEF EstimateBegin, Ceiling
    <2> QED
        BY <1>0, <1>1, <2>1 DEF EstimateBegin, EstimateTypes, SearchInv, EndInv
<1>2. CASE Probe
    <2>1. Ceiling' = Ceiling
        BY <1>2 DEF Probe, Ceiling
    <2>2. /\ Middle \in Nat /\ low <= Middle /\ Middle < high
          /\ high >= 2 /\ low = 0 => Middle # 0
        BY <1>2, MiddleBetween DEF Probe, Middle, EstimateTypes
    <2>3. EstimateTypes'
        BY <1>2, <2>2 DEF Probe, EstimateTypes
    <2>4. Ceiling >= 2 => Executed(Middle) = Middle
        <3>1. Ceiling >= 2 => high >= 2
            BY <1>0, <1>2 DEF Probe, SearchInv, EstimateTypes
        <3>2. Ceiling >= 2 => Middle # 0
            BY <2>2, <3>1 DEF EstimateTypes
        <3> QED
            BY <3>2 DEF Executed
    <2>5. SearchInv'
        BY <1>0, <1>2, <2>1, <2>2, <2>4 DEF Probe, SearchInv, EstimateTypes
    <2>6. EndInv'
        BY <1>2 DEF Probe, EndInv
    <2> QED
        BY <2>3, <2>5, <2>6
<1>3. CASE Verify
    <2>1. Ceiling' = Ceiling
        BY <1>3 DEF Verify, Ceiling
    <2>2. EstimateTypes' /\ SearchInv'
        BY <1>3, <2>1 DEF Verify, EstimateTypes, SearchInv
    <2>3. Ceiling >= 2 => low = high /\ high # 0
        BY <1>0, <1>3 DEF Verify, SearchInv, EstimateTypes
    <2>4. EndInv'
        BY <1>3, <2>1, <2>3 DEF Verify, EndInv, Executed
    <2> QED
        BY <2>2, <2>4
<1>4. CASE EstimateAbort
    BY <1>4 DEF EstimateAbort, EstimateTypes, SearchInv, EndInv
<1>5. CASE UNCHANGED estimateVars
    BY <1>5 DEF estimateVars, EstimateTypes, SearchInv, EndInv, Ceiling
<1> QED
    BY <1>1, <1>2, <1>3, <1>4, <1>5 DEF EstimateNext

LEMMA EstimateImplied == EstimateInv => EstimateExact
<1> SUFFICES ASSUME EstimateInv, Ceiling >= 2
             PROVE  /\ estimate = "done" => high <= Ceiling /\ high \in enough /\ high - 1 \notin enough
                    /\ estimate = "failed" => Ceiling \notin enough
    BY DEF EstimateExact
<1>1. Ceiling \in Nat
    BY CeilingNat DEF EstimateInv
<1> QED
    BY <1>1 DEF EstimateInv, EstimateTypes, SearchInv, EndInv

\* What eth_estimateGas returns is enough and one unit less is not, and it
\* fails only if the ceiling is not enough either: for any gas cap, gas limit
\* and request, and any dependence of the call on its gas.
THEOREM EstimateCorrect == EstimateSpec => []EstimateExact
<1>1. EstimateSpec => []EstimateInv
    BY EstimateInitially, EstimatePreserved, PTL DEF EstimateSpec
<1> QED
    BY <1>1, EstimateImplied, PTL

-----------------------------------------------------------------------------
(* The archive.                                                            *)

\* An archive that was synced before it got its name, with a manifest that
\* matches its database; or none.
Sound(a) == a = None \/ (a.synced /\ ~a.torn /\ ~a.journal /\ a.manifest = a.rows)

ArchiveTypes ==
    /\ rows \in Nat /\ image \in Nat /\ dumps \in Nat /\ reported \in Nat
    /\ stage \in {"idle", "prepared", "written"}
    /\ up \in {"running", "closing", "down"}
    /\ dump \in {"idle", "spooled", "written", "synced", "renamed"}
    /\ Sound(path) /\ path.id \in Nat
    /\ Sound(stable) /\ stable.id \in Nat

\* Memory is behind the database only when a journal, a failure or a commit
\* under way says so, which is what dumpState's refusals look at.
ImageIsCurrent ==
    /\ stage = "prepared" => journal
    /\ up # "running" => stage = "idle"
    /\ up # "down" /\ stage = "idle" /\ ~writeErr /\ ~journal => image = rows

\* Nothing is committed during a dump, so what it writes is what it refused or
\* accepted.
DumpIsCurrent ==
    /\ dump # "idle" => stage = "idle" /\ up # "down" /\ ~writeErr /\ ~journal /\ dumps # 0
    /\ dump = "spooled" => spool.id = dumps /\ spool.rows = rows /\ ~spool.journal
    /\ dump \in {"written", "synced"} =>
          temp.id = dumps /\ ~temp.torn /\ ~temp.journal /\ temp.manifest = temp.rows
    /\ dump = "synced" => temp.synced
    /\ dump = "renamed" => path.id = dumps

\* A reported dump, or a later one, is on disk and at the destination.
ReportedIsStable ==
    /\ reported <= path.id /\ path.id <= dumps
    /\ reported <= stable.id /\ stable.id <= dumps

ArchiveInv == ArchiveTypes /\ ImageIsCurrent /\ DumpIsCurrent /\ ReportedIsStable

LEMMA ArchiveInitially == Init => ArchiveInv
  <1> SUFFICES ASSUME Init PROVE ArchiveInv
    OBVIOUS
  <1>1. None.id = 0
    BY DEF None
  <1>2. ArchiveTypes
    BY <1>1 DEF Init, ArchiveTypes, Sound
  <1> QED
    BY <1>1, <1>2 DEF Init, ArchiveInv, ImageIsCurrent, DumpIsCurrent, ReportedIsStable

\* A step of the node that no dump takes part in.
LEMMA NodeStepPreserves ==
    ASSUME ArchiveInv, Prepare \/ Finalize \/ Apply \/ FailCommit \/ Panic \/ Close
    PROVE  ArchiveInv' /\ reported' = reported
  <1>1. CASE Prepare
    BY <1>1 DEF Prepare, fileVars, ArchiveInv, ArchiveTypes, ImageIsCurrent, DumpIsCurrent, ReportedIsStable
  <1>2. CASE Finalize
    BY <1>2 DEF Finalize, fileVars, ArchiveInv, ArchiveTypes, ImageIsCurrent, DumpIsCurrent, ReportedIsStable
  <1>3. CASE Apply
    BY <1>3 DEF Apply, fileVars, ArchiveInv, ArchiveTypes, ImageIsCurrent, DumpIsCurrent, ReportedIsStable
  <1>4. CASE FailCommit
    BY <1>4 DEF FailCommit, fileVars, ArchiveInv, ArchiveTypes, ImageIsCurrent, DumpIsCurrent, ReportedIsStable
  <1>5. CASE Panic
    BY <1>5 DEF Panic, fileVars, ArchiveInv, ArchiveTypes, ImageIsCurrent, DumpIsCurrent, ReportedIsStable
  <1>6. CASE Close
    BY <1>6 DEF Close, fileVars, ArchiveInv, ArchiveTypes, ImageIsCurrent, DumpIsCurrent, ReportedIsStable
  <1> QED BY <1>1, <1>2, <1>3, <1>4, <1>5, <1>6

\* A step of a dump.
LEMMA DumpStepPreserves ==
    ASSUME ArchiveInv, Spool \/ WriteArchive \/ SyncArchive \/ RenameArchive \/ SyncDirectory \/ DumpFails
    PROVE  ArchiveInv' /\ reported' >= reported
  <1>1. CASE Spool
    BY <1>1 DEF Spool, Spooled, nodeVars, ArchiveInv, ArchiveTypes, ImageIsCurrent, DumpIsCurrent, ReportedIsStable
  <1>2. CASE WriteArchive
    BY <1>2 DEF WriteArchive, nodeVars, ArchiveInv, ArchiveTypes, ImageIsCurrent, DumpIsCurrent, ReportedIsStable
  <1>3. CASE SyncArchive
    BY <1>3 DEF SyncArchive, nodeVars, ArchiveInv, ArchiveTypes, ImageIsCurrent, DumpIsCurrent, ReportedIsStable
  <1>4. CASE RenameArchive
    <2>1. Sound(temp) /\ temp.id = dumps
      BY <1>4 DEF RenameArchive, ArchiveInv, ArchiveTypes, DumpIsCurrent, Sound
    <2> QED
      BY <1>4, <2>1 DEF RenameArchive, nodeVars, ArchiveInv, ArchiveTypes, ImageIsCurrent, DumpIsCurrent, ReportedIsStable
  <1>5. CASE SyncDirectory
    BY <1>5 DEF SyncDirectory, nodeVars, ArchiveInv, ArchiveTypes, ImageIsCurrent, DumpIsCurrent, ReportedIsStable
  <1>6. CASE DumpFails
    BY <1>6 DEF DumpFails, nodeVars, ArchiveInv, ArchiveTypes, ImageIsCurrent, DumpIsCurrent, ReportedIsStable
  <1> QED
    BY <1>1, <1>2, <1>3, <1>4, <1>5, <1>6

\* A power failure finds only archives that were synced.
LEMMA PowerFailurePreserves ==
    ASSUME ArchiveInv, PowerFailure PROVE ArchiveInv' /\ reported' = reported
  <1>1. PICK entry \in {path, stable} : path' = Torn(entry) /\ stable' = Torn(entry)
    BY DEF PowerFailure
  <1>2. Torn(entry) = entry
    BY DEF Torn, ArchiveInv, ArchiveTypes, Sound
  <1> QED
    BY <1>1, <1>2 DEF PowerFailure, ArchiveInv, ArchiveTypes, ImageIsCurrent, DumpIsCurrent, ReportedIsStable

LEMMA RestartPreserves ==
    ASSUME ArchiveInv, Restart PROVE ArchiveInv' /\ reported' = reported
  <1>1. PICK n \in {rows, rows + 1} : rows' = n /\ image' = n
    BY DEF Restart
  <1>2. dump = "idle" /\ stage = "idle"
    BY DEF Restart, ArchiveInv, ArchiveTypes, ImageIsCurrent, DumpIsCurrent
  <1> QED
    BY <1>1, <1>2 DEF Restart, fileVars, ArchiveInv, ArchiveTypes, ImageIsCurrent, DumpIsCurrent, ReportedIsStable

LEMMA ArchivePreserved ==
    ASSUME ArchiveInv, [Next]_vars PROVE ArchiveInv' /\ reported' >= reported
  <1>1. CASE UNCHANGED vars
    BY <1>1 DEF vars, nodeVars, fileVars, ArchiveInv, ArchiveTypes, ImageIsCurrent, DumpIsCurrent, ReportedIsStable
  <1>2. CASE Next
    <2>1. reported \in Nat
      BY DEF ArchiveInv, ArchiveTypes
    <2> QED
      BY <1>2, <2>1, NodeStepPreserves, DumpStepPreserves, PowerFailurePreserves, RestartPreserves DEF Next
  <1> QED BY <1>1, <1>2

LEMMA ArchiveImplied == ArchiveInv => DestinationLoads
  BY DEF ArchiveInv, ArchiveTypes, Sound, DestinationLoads, Loads, Scanned, Valid

-----------------------------------------------------------------------------
(* The installation.                                                       *)

Processes == Loaders \cup Nodes

Places ==
    {"begin", "inspect", "stage", "rename", "remove", "again", "restore", "sync", "rollback", "removing",
     "undo", "reopen", "open", "done", "failed", "crashed"}

InstallTypes ==
    /\ pc \in [Processes -> Places]
    /\ \A p \in Processes : pc[p] \in {"open", "reopen"} => p \in Nodes
    /\ whole \subseteq Processes
    /\ dest \in entries

\* From its rename until it returns or gives up, the destination is the
\* installer's: one process at a time is there.
InstallerOwns ==
    /\ \A p \in Processes : pc[p] \in {"rename", "remove", "again"} => p \in whole
    /\ \A p \in Processes : pc[p] \in {"sync", "reopen", "rollback"} => dest = p
    /\ \A p, q \in Processes : pc[p] = "removing" => dest = "partial" /\ (pc[q] = "removing" => p = q)

\* What a power failure may leave: an empty place or a whole database, unless a
\* roll-back has begun.
EntriesKnown ==
    \A e \in entries : e \in {"absent", "empty"} \cup whole \/ (e = "partial" /\ undone # {})

\* What a load has installed is all that the disk may have.
LoadedKept == \A p \in Loaders : pc[p] = "done" => dest = p /\ entries = {p}

HeldWhole == holder # {} => dest \in whole \/ undone # {}

InstallInv == InstallTypes /\ InstallerOwns /\ EntriesKnown /\ LoadedKept /\ HeldWhole

LEMMA InstallInitially == Install!Init => InstallInv
  BY DEF Install!Init, Install!Original, Install!Processes, Processes, Places,
         InstallInv, InstallTypes, InstallerOwns, EntriesKnown, LoadedKept, HeldWhole

LEMMA BeginPreserves ==
    ASSUME InstallInv, NEW p \in Processes, Install!Begin(p) PROVE InstallInv'
  BY ProcessAssumption
     DEF Install!Begin, Install!KeepDest, Install!Go,
         Processes, Places, InstallInv, InstallTypes, InstallerOwns, EntriesKnown, LoadedKept, HeldWhole

LEMMA InspectPreserves ==
    ASSUME InstallInv, NEW p \in Processes, Install!Inspect(p) PROVE InstallInv'
  BY ProcessAssumption
     DEF Install!Inspect, Install!KeepDest, Install!Go,
         Processes, Places, InstallInv, InstallTypes, InstallerOwns, EntriesKnown, LoadedKept, HeldWhole

LEMMA StagePreserves ==
    ASSUME InstallInv, NEW p \in Processes, Install!Stage(p) PROVE InstallInv'
  BY ProcessAssumption
     DEF Install!Stage, Install!KeepDest, Install!Fail, Install!Go,
         Processes, Places, InstallInv, InstallTypes, InstallerOwns, EntriesKnown, LoadedKept, HeldWhole

\* Nobody has the destination when a rename succeeds.
LEMMA RenamePreserves ==
    ASSUME InstallInv, NEW p \in Processes, Install!Rename(p) PROVE InstallInv'
  BY ProcessAssumption
     DEF Install!Rename, Install!Renames, Install!RenameFails, Install!KeepDest, Install!SetDest, Install!Fail, Install!Go,
         Processes, Places, InstallInv, InstallTypes, InstallerOwns, EntriesKnown, LoadedKept, HeldWhole

LEMMA RemovePreserves ==
    ASSUME InstallInv, NEW p \in Processes, Install!RemovePlaceholder(p) PROVE InstallInv'
  BY ProcessAssumption
     DEF Install!RemovePlaceholder, Install!KeepDest, Install!SetDest, Install!Fail, Install!Go,
         Processes, Places, InstallInv, InstallTypes, InstallerOwns, EntriesKnown, LoadedKept, HeldWhole

LEMMA RenameAgainPreserves ==
    ASSUME InstallInv, NEW p \in Processes, Install!RenameAgain(p) PROVE InstallInv'
  BY ProcessAssumption
     DEF Install!RenameAgain, Install!Renames, Install!RenameFails, Install!KeepDest, Install!SetDest, Install!Go,
         Processes, Places, InstallInv, InstallTypes, InstallerOwns, EntriesKnown, LoadedKept, HeldWhole

LEMMA RestorePreserves ==
    ASSUME InstallInv, NEW p \in Processes, Install!RestoreEmpty(p) PROVE InstallInv'
  BY ProcessAssumption
     DEF Install!RestoreEmpty, Install!KeepDest, Install!SetDest, Install!Fail, Install!Go,
         Processes, Places, InstallInv, InstallTypes, InstallerOwns, EntriesKnown, LoadedKept, HeldWhole

LEMMA SyncPreserves ==
    ASSUME InstallInv, NEW p \in Processes, Install!Sync(p) PROVE InstallInv'
  BY ProcessAssumption
     DEF Install!Sync, Install!Go,
         Processes, Places, InstallInv, InstallTypes, InstallerOwns, EntriesKnown, LoadedKept, HeldWhole

\* A process that rolls back removes what is its own.
LEMMA RollbackPreserves ==
    ASSUME InstallInv, NEW p \in Processes, Install!Rollback(p) PROVE InstallInv'
  BY ProcessAssumption
     DEF Install!Rollback, Install!SetDest, Install!Go,
         Processes, Places, InstallInv, InstallTypes, InstallerOwns, EntriesKnown, LoadedKept, HeldWhole

LEMMA UndoPreserves ==
    ASSUME InstallInv, NEW p \in Processes, Install!Undo(p) PROVE InstallInv'
  BY ProcessAssumption
     DEF Install!Undo, Install!Fail, Install!Go,
         Processes, Places, InstallInv, InstallTypes, InstallerOwns, EntriesKnown, LoadedKept, HeldWhole

LEMMA ReopenPreserves ==
    ASSUME InstallInv, NEW p \in Processes, Install!Reopen(p) PROVE InstallInv'
  BY ProcessAssumption
     DEF Install!Reopen, Install!KeepDest, Install!Go,
         Processes, Places, InstallInv, InstallTypes, InstallerOwns, EntriesKnown, LoadedKept, HeldWhole

LEMMA OpenPreserves ==
    ASSUME InstallInv, NEW p \in Processes, Install!Open(p) PROVE InstallInv'
  BY ProcessAssumption
     DEF Install!Open, Install!KeepDest, Install!Processes, Install!Go,
         Processes, Places, InstallInv, InstallTypes, InstallerOwns, EntriesKnown, LoadedKept, HeldWhole

LEMMA ClosePreserves ==
    ASSUME InstallInv, NEW p \in Processes, Install!CloseNode(p) PROVE InstallInv'
  BY ProcessAssumption
     DEF Install!CloseNode, Install!KeepDest, Install!Go,
         Processes, Places, InstallInv, InstallTypes, InstallerOwns, EntriesKnown, LoadedKept, HeldWhole

LEMMA CrashPreserves ==
    ASSUME InstallInv, NEW p \in Processes, Install!Crash(p) PROVE InstallInv'
  BY ProcessAssumption
     DEF Install!Crash, Install!KeepDest, Install!AtWork, Install!Go,
         Processes, Places, InstallInv, InstallTypes, InstallerOwns, EntriesKnown, LoadedKept, HeldWhole

LEMMA InstallPowerPreserves ==
    ASSUME InstallInv, Install!PowerFailure PROVE InstallInv'
  BY DEF Install!PowerFailure, Install!AtWork, Install!Processes, Processes, Places,
         InstallInv, InstallTypes, InstallerOwns, EntriesKnown, LoadedKept, HeldWhole

LEMMA InstallStutters ==
    ASSUME InstallInv, UNCHANGED installVars PROVE InstallInv'
  BY DEF installVars, Processes, Places, InstallInv, InstallTypes, InstallerOwns, EntriesKnown, LoadedKept, HeldWhole

LEMMA InstallPreserved ==
    ASSUME InstallInv, [Install!Next]_installVars PROVE InstallInv'
<1>1. CASE Install!PowerFailure  BY <1>1, InstallPowerPreserves
<1>2. CASE UNCHANGED installVars  BY <1>2, InstallStutters
<1>3. ASSUME NEW p \in Processes, Install!Step(p) \/ Install!CloseNode(p) \/ Install!Crash(p)
      PROVE  InstallInv'
  BY <1>3, BeginPreserves, InspectPreserves, StagePreserves, RenamePreserves, RemovePreserves,
     RenameAgainPreserves, RestorePreserves, SyncPreserves, RollbackPreserves, UndoPreserves,
     ReopenPreserves, OpenPreserves, ClosePreserves, CrashPreserves
     DEF Install!Step
<1> QED  BY <1>1, <1>2, <1>3 DEF Install!Next, Install!Processes, Processes

LEMMA InstallImplied == InstallInv => InstalledKept
  BY DEF InstalledKept, Install!InstalledKept, Processes, InstallInv, InstallTypes, InstallerOwns, EntriesKnown, LoadedKept, HeldWhole

-----------------------------------------------------------------------------
(* The two together.                                                       *)

\* A load that has staged its archive has one as late as the last dump that was
\* reported when it began; until then, that dump is still reported.
LoadInv ==
    /\ loaded \in [Loaders -> Nat]
    /\ expected \in [Loaders -> Nat]
    /\ \A l \in Loaders :
        IF pc[l] \in {"begin", "inspect", "stage"} THEN expected[l] =< reported
        ELSE pc[l] \in {"failed", "crashed"} \/ loaded[l] >= expected[l]

FilesInv == ArchiveInv /\ InstallInv /\ LoadInv

LEMMA FilesInitially == FilesInit => FilesInv
<1> SUFFICES ASSUME FilesInit PROVE FilesInv  OBVIOUS
<1>1. ArchiveInv /\ InstallInv  BY ArchiveInitially, InstallInitially DEF FilesInit
<1>2. LoadInv
  BY <1>1 DEF FilesInit, LoadInv, Install!Init, Install!Processes, ArchiveInv, ArchiveTypes
<1> QED  BY <1>1, <1>2 DEF FilesInv

\* A step of the system is one of the archive, or none, and one of the
\* installation, or none.
LEMMA FilesStepSplits ==
    ASSUME [FilesNext]_systemVars PROVE [Next]_vars /\ [Install!Next]_installVars
  BY Zenon DEF FilesNext, systemVars, DumpStep, PowerFails, LoadStep, NodeStep, ProcessStops, Next,
         Install!Next, Install!Processes

\* Where a step takes the process that makes it; nobody else moves.
LEMMA Moves ==
    ASSUME InstallTypes, NEW p \in Processes, Install!Step(p)
    PROVE  /\ \A q \in Processes : q # p => pc'[q] = pc[q]
           /\ pc[p] \notin {"failed", "crashed"}
           /\ pc[p] = "begin" /\ p \notin Nodes => pc'[p] = "inspect"
           /\ pc[p] = "inspect" => pc'[p] \in {"failed", "stage"}
           /\ pc[p] = "stage" => pc'[p] \in {"failed", "rename"}
           /\ pc[p] \notin {"begin", "inspect", "stage"} => pc'[p] \notin {"begin", "inspect", "stage", "rename"}
  BY Zenon DEF Install!Step, Install!Begin, Install!Inspect, Install!Stage, Install!Rename, Install!Renames,
         Install!RemovePlaceholder, Install!RenameAgain, Install!RestoreEmpty, Install!Sync,
         Install!Rollback, Install!Undo, Install!Reopen, Install!Open, Install!Fail, Install!Go,
         InstallTypes

LEMMA LoadStepPreserves ==
    ASSUME FilesInv, NEW l \in Loaders, LoadStep(l) PROVE LoadInv'
<1> USE DEF FilesInv
<1>1. /\ l \in Processes /\ l \notin Nodes /\ InstallTypes /\ Install!Step(l) /\ reported' = reported
      /\ reported \in Nat /\ path.id \in Nat /\ reported =< path.id
  <2>1. reported \in Nat /\ path.id \in Nat /\ reported =< path.id
    BY DEF ArchiveInv, ArchiveTypes, ReportedIsStable
  <2>2. l \in Processes /\ InstallTypes /\ Install!Step(l) /\ reported' = reported
    BY DEF Processes, LoadStep, vars, InstallInv
  <2>3. l \notin Nodes
    BY ProcessAssumption
  <2> QED
    BY <2>1, <2>2, <2>3
<1>2. loaded' \in [Loaders -> Nat] /\ expected' \in [Loaders -> Nat]
  BY <1>1 DEF LoadInv, LoadStep
<1>3. ASSUME NEW k \in Loaders, k # l
      PROVE  pc'[k] = pc[k] /\ loaded'[k] = loaded[k] /\ expected'[k] = expected[k]
  BY <1>1, <1>3, Moves DEF LoadInv, LoadStep, Processes
<1>4. CASE pc[l] = "begin"
  <2>1. pc'[l] = "inspect" /\ expected'[l] = reported  BY <1>1, <1>4, Moves DEF LoadInv, LoadStep
  <2> QED  BY <1>1, <1>2, <1>3, <2>1 DEF LoadInv
<1>5. CASE pc[l] = "inspect"
  <2>1. pc'[l] \in {"failed", "stage"} /\ expected'[l] = expected[l]
    BY <1>1, <1>5, Moves DEF LoadInv, LoadStep
  <2> QED  BY <1>1, <1>2, <1>3, <1>5, <2>1 DEF LoadInv
<1>6. CASE pc[l] = "stage"
  <2>1. pc'[l] \in {"failed", "rename"} /\ expected'[l] = expected[l] /\ expected[l] =< reported
    BY <1>1, <1>6, Moves DEF LoadInv, LoadStep
  <2>2. pc'[l] = "rename" => loaded'[l] = path.id
    BY <1>6 DEF LoadInv, LoadStep
  <2> QED  BY <1>1, <1>2, <1>3, <2>1, <2>2 DEF LoadInv
<1>7. CASE pc[l] \notin {"begin", "inspect", "stage"}
  <2>1. /\ pc'[l] \notin {"begin", "inspect", "stage"} /\ pc[l] \notin {"failed", "crashed"}
        /\ expected'[l] = expected[l] /\ loaded'[l] = loaded[l]
    BY <1>1, <1>7, Moves DEF LoadStep
  <2> QED  BY <1>1, <1>2, <1>3, <1>7, <2>1 DEF LoadInv
<1> QED  BY <1>4, <1>5, <1>6, <1>7

\* Any other step leaves what a load has read, stops it or leaves it where it is.
LEMMA OtherStepPreserves ==
    ASSUME FilesInv, reported' \in Nat, reported' >= reported,
           UNCHANGED <<loaded, expected>>,
           \A l \in Loaders : pc'[l] \in {pc[l], "crashed"}
    PROVE  LoadInv'
<1>1. reported \in Nat  BY DEF FilesInv, ArchiveInv, ArchiveTypes
<1>2. ASSUME NEW l \in Loaders
      PROVE  IF pc'[l] \in {"begin", "inspect", "stage"} THEN expected[l] =< reported'
             ELSE pc'[l] \in {"failed", "crashed"} \/ loaded[l] >= expected[l]
  BY <1>1 DEF FilesInv, LoadInv
<1> QED  BY <1>2 DEF FilesInv, LoadInv

LEMMA FilesPreserved ==
    ASSUME FilesInv, [FilesNext]_systemVars PROVE FilesInv'
<1>1. [Next]_vars /\ [Install!Next]_installVars  BY FilesStepSplits
<1>2. ArchiveInv' /\ reported' >= reported  BY <1>1, ArchivePreserved DEF FilesInv
<1>3. InstallInv'  BY <1>1, InstallPreserved DEF FilesInv
<1>4. reported' \in Nat  BY <1>2 DEF ArchiveInv, ArchiveTypes
<1>5. InstallTypes  BY DEF FilesInv, InstallInv
<1> SUFFICES LoadInv'  BY <1>2, <1>3 DEF FilesInv
<1>6. CASE \E l \in Loaders : LoadStep(l)  BY <1>6, LoadStepPreserves
<1>7. CASE DumpStep \/ UNCHANGED systemVars
  BY <1>2, <1>4, <1>7, OtherStepPreserves DEF DumpStep, installVars, systemVars
<1>8. CASE PowerFails
  <2>1. \A l \in Loaders : pc'[l] \in {pc[l], "crashed"}
    BY <1>5, <1>8 DEF PowerFails, Install!PowerFailure, Install!Processes, Processes, installVars, InstallTypes
  <2> QED  BY <1>2, <1>4, <1>8, <2>1, OtherStepPreserves DEF PowerFails
<1>9. CASE \E n \in Nodes : NodeStep(n)
  <2>1. PICK n \in Nodes : NodeStep(n)  BY <1>9
  <2>2. \A l \in Loaders : pc'[l] = pc[l]
    BY <1>5, <2>1, Moves, ProcessAssumption DEF NodeStep, Install!CloseNode, Processes
  <2> QED  BY <1>2, <1>4, <2>1, <2>2, OtherStepPreserves DEF NodeStep
<1>10. CASE \E p \in Loaders \cup Nodes : ProcessStops(p)
  <2>1. \A l \in Loaders : pc'[l] \in {pc[l], "crashed"}
    BY <1>5, <1>10 DEF ProcessStops, Install!Crash, Install!Go, InstallTypes, Processes
  <2> QED  BY <1>2, <1>4, <1>10, <2>1, OtherStepPreserves DEF ProcessStops
<1> QED  BY <1>6, <1>7, <1>8, <1>9, <1>10 DEF FilesNext

-----------------------------------------------------------------------------

LEMMA FilesInvariant == FilesSpec => []FilesInv
  BY FilesInitially, FilesPreserved, PTL DEF FilesSpec

\* What DumpState leaves at its destination is an archive that LoadState
\* accepts, or nothing, whatever failed and whenever the power did.
THEOREM ArchiveAtomic == FilesSpec => []DestinationLoads
<1>1. FilesInv => DestinationLoads  BY ArchiveImplied DEF FilesInv
<1> QED  BY <1>1, FilesInvariant, PTL

\* A database that LoadState reported as installed stays, and the destination
\* has a complete one or none but for a roll-back, for any number of processes
\* that install, open, roll back and stop.
THEOREM InstallationKept == FilesSpec => []InstalledKept
<1>1. FilesInv => InstalledKept  BY InstallImplied DEF FilesInv
<1> QED  BY <1>1, FilesInvariant, PTL

\* A load that returned installed the last dump that was reported when it began,
\* or a later one.
THEOREM LoadIsCurrent == FilesSpec => []LoadsReportedDump
<1>1. FilesInv => LoadsReportedDump  BY DEF FilesInv, LoadInv, LoadsReportedDump
<1> QED  BY <1>1, FilesInvariant, PTL

=============================================================================
