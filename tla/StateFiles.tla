----------------------------- MODULE StateFiles -----------------------------
(***************************************************************************)
(* Archives and database directories together: a node dumps its state, and *)
(* LoadState installs the archive it finds at the destination of the dumps *)
(* as the database of another node, while dumps go on, processes stop and  *)
(* the power fails for all of them at once.                                *)
(***************************************************************************)
EXTENDS Archive

CONSTANTS Loaders, Nodes, Placeholder, Replaces, Faults

\* A process loads or runs a node, and none is called like a state of the
\* destination.
ASSUME ProcessAssumption ==
    Loaders \cap Nodes = {} /\ (Loaders \cup Nodes) \cap {"absent", "empty", "partial"} = {}

VARIABLES
    dest, entries, whole, staging, existed, pc, holder, undone,
    loaded,   \* the dump that each load has staged, 0 for none
    expected  \* history: the last reported dump when each load began

Install == INSTANCE StagedDirectory

installVars == <<dest, entries, whole, staging, existed, pc, holder, undone>>
systemVars == <<vars, installVars, loaded, expected>>

FilesInit ==
    /\ Init /\ Install!Init
    /\ loaded = [l \in Loaders |-> 0]
    /\ expected = [l \in Loaders |-> 0]

\* The database of a load is staged when its archive is accepted; scanArchive
\* opens the file once, so a dump that replaces it meanwhile is not seen.
LoadStep(l) ==
    /\ Install!Step(l)
    /\ pc'[l] = "rename" => path # None /\ Loads(path)
    /\ loaded' = IF pc[l] = "stage" /\ pc'[l] = "rename" THEN [loaded EXCEPT ![l] = path.id] ELSE loaded
    /\ expected' = IF pc[l] = "begin" THEN [expected EXCEPT ![l] = reported] ELSE expected
    /\ UNCHANGED vars

NodeStep(n) == (Install!Step(n) \/ Install!CloseNode(n)) /\ UNCHANGED <<vars, loaded, expected>>

ProcessStops(p) == Install!Crash(p) /\ UNCHANGED <<vars, loaded, expected>>

\* The power fails for the node that dumps and for those that install.
PowerFails ==
    /\ PowerFailure \/ (up = "down" /\ UNCHANGED vars)
    /\ \/ Install!PowerFailure
       \/ /\ holder = {} /\ \A p \in Loaders \cup Nodes : ~Install!AtWork(pc[p])
          /\ UNCHANGED installVars
    /\ UNCHANGED <<loaded, expected>>

DumpStep ==
    /\ \/ Prepare \/ Finalize \/ Apply \/ FailCommit \/ Panic \/ Close
       \/ Spool \/ WriteArchive \/ SyncArchive \/ RenameArchive \/ SyncDirectory \/ DumpFails
       \/ Restart
    /\ UNCHANGED <<installVars, loaded, expected>>

FilesNext ==
    \/ DumpStep \/ PowerFails
    \/ \E l \in Loaders : LoadStep(l)
    \/ \E n \in Nodes : NodeStep(n)
    \/ \E p \in Loaders \cup Nodes : ProcessStops(p)

FilesSpec == FilesInit /\ [][FilesNext]_systemVars

-----------------------------------------------------------------------------
(* Properties.                                                             *)

\* InstalledKept of StagedDirectory, for this system.
InstalledKept == Install!InstalledKept

\* A load that returned without error has installed the last dump that was
\* reported when it began, or a later one, although power failures undo what
\* was not synced: DumpState's rename and LoadState's are both durable.
LoadsReportedDump == \A l \in Loaders : pc[l] = "done" => loaded[l] >= expected[l]

=============================================================================
