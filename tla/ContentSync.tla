---------------------------- MODULE ContentSync -----------------------------
(***************************************************************************)
(* How one player brings the playlist assigned to it to its disk           *)
(* (sync/ContentSyncManager.kt), with the commands that remove files or    *)
(* rows beside it (commands/CommandExecutor.kt, boot/StartupCoordinator.kt)*)
(* and the backend's pushes (backend/src/sockets/index.ts).                *)
(*                                                                         *)
(* A directory is the function from the names of its files to their        *)
(* checksums.  The Room table is such a function as well: the files it     *)
(* lists and the checksums they should have.  Two payloads have the same   *)
(* checksum exactly if they have the same items.  A sync runs under a      *)
(* mutex, the commands do not.  An action is the code up to the next       *)
(* effect on the disk, the table or the preferences that a crash or a      *)
(* command may separate from it; deleting or renaming a directory is one   *)
(* effect.  Web pages, which have a row and no file, are left out.         *)
(***************************************************************************)
EXTENDS Naturals, FiniteSets, Sequences

CONSTANTS
    Payloads,        \* SYNC_CONTENT payloads, Unassigned among them
    Unassigned,      \* the payload without a playlist
    PlaylistOf,      \* playlist_id of a payload
    VersionOf,       \* playlist_version of a payload
    Content,         \* its items in order: file name, media id and checksum
    Absent,          \* a directory that does not exist
    Nothing,         \* no payload
    MaxSyncCrashes,  \* bound: restarts of the player
    MaxSyncFaults,   \* bound: operations of a sync that fail
    MaxCommands      \* bound: commands that touch files or rows

BoundsAssumption ==
    MaxSyncCrashes \in Nat /\ MaxSyncFaults \in Nat /\ MaxCommands \in Nat

Empty == <<>>

VARIABLES
    activeDir,       \* content/active
    backupDir,       \* content/backup
    stagingDir,      \* content/staging-<version>
    rows,            \* the playlist_items table
    applied,         \* lastAppliedPlaylistId, -Version and -Checksum
    saved,           \* the same in the preferences
    inbox,           \* payloads received, a coroutine for each
    sync,            \* the sync that holds the mutex
    cmd,             \* the command under way
    assigned,        \* the playlist the backend has assigned
    connecting,      \* the playlist a connection handler has read
    syncCrashes, commands, syncFaults

syncPart == <<activeDir, backupDir, stagingDir, rows, applied, saved, inbox, sync, cmd>>
disk == <<activeDir, backupDir, stagingDir>>
assignment == <<assigned, connecting>>
counts == <<syncCrashes, commands, syncFaults>>
syncVars == <<syncPart, assignment, counts>>

SyncState == {"idle", "recover", "guard", "unlisted", "staging", "preserve",
              "move", "commit", "record", "finish"}
CommandState == {"none", "clear", "refresh", "rebuild", "reset"}

Listing(items) ==
    [n \in {it.name : it \in items} |-> (CHOOSE it \in items : it.name = n).sum]
FilesOf(p) == Listing({Content[p][i] : i \in DOMAIN Content[p]})

\* mediaId is the primary key of the table: a later item replaces an earlier
\* one with the same media.
RowsOf(p) ==
    Listing({Content[p][i] : i \in
               {j \in DOMAIN Content[p] : \A k \in DOMAIN Content[p] :
                  Content[p][k].media = Content[p][j].media => k <= j}})

\* The contents a directory or the table may have.
Listings == {Empty} \union {FilesOf(p) : p \in Payloads}
                    \union {RowsOf(p) : p \in Payloads}

\* The name of a file begins with the item's position, and the backend takes
\* no playlist that has a position twice.
PayloadAssumption ==
    /\ Unassigned \in Payloads /\ Nothing \notin Payloads
    /\ Absent \notin Listings
    /\ \A p \in Payloads : VersionOf[p] \in Nat
    /\ \A p \in Payloads : Content[p] = <<>> <=> p = Unassigned
    /\ \A p \in Payloads : \A i, j \in DOMAIN Content[p] :
         Content[p][i].name = Content[p][j].name => i = j

OnDisk(n) == activeDir # Absent /\ n \in DOMAIN activeDir
AllOnDisk == \A n \in DOMAIN rows : OnDisk(n)

\* What the screen shows: the listed files that exist, as they are.
Displayed ==
    [n \in {m \in DOMAIN rows : OnDisk(m)} |-> activeDir[n]]

\* Mutant: only the number of rows is compared.
CacheUsableBySize(p) == Cardinality(DOMAIN rows) = Len(Content[p])

CacheUsable(p) ==
    IF Content[p] = <<>> THEN rows = Empty
    ELSE Cardinality(DOMAIN rows) = Len(Content[p]) /\ AllOnDisk

AlreadyApplied(p) ==
    /\ applied # Nothing
    /\ \/ p # Unassigned /\ Content[p] = Content[applied]
       \/ p = Unassigned /\ applied = Unassigned
    /\ CacheUsable(p)

SyncInit ==
    /\ activeDir = Absent /\ backupDir = Absent /\ stagingDir = Absent
    /\ rows = Empty
    /\ applied = Nothing /\ saved = Nothing
    /\ inbox = {}
    /\ sync = [pc |-> "recover", p |-> Nothing]
    /\ cmd = [pc |-> "none", found |-> Empty]
    /\ assigned = Unassigned /\ connecting = Nothing
    /\ syncCrashes = 0 /\ commands = 0 /\ syncFaults = 0

Goes(pc) == sync' = [sync EXCEPT !.pc = pc]
SyncFails == syncFaults < MaxSyncFaults /\ syncFaults' = syncFaults + 1
\* An operation that could not succeed anyway is not counted.
FailsThough(possible) == IF possible THEN SyncFails ELSE UNCHANGED syncFaults
Ends == sync' = [pc |-> "idle", p |-> Nothing]

-----------------------------------------------------------------------------
(* A sync                                                                  *)

\* The coroutines wait for the mutex in any order.
Take(p) ==
    /\ sync.pc = "idle" /\ p \in inbox
    /\ inbox' = inbox \ {p}
    /\ sync' = [pc |-> "recover", p |-> p]
    /\ UNCHANGED <<disk, rows, applied, saved, cmd, assignment, counts>>

\* recoverInterruptedActivation, on its own after a start, and first in
\* every sync: with both directories there the rows decide, and they only
\* tell whether the files exist.
Recover ==
    /\ sync.pc = "recover"
    /\ IF backupDir = Absent \/ (activeDir # Absent /\ rows # Empty /\ AllOnDisk)
       THEN UNCHANGED activeDir
       ELSE activeDir' = backupDir
    /\ backupDir' = Absent
    /\ IF sync.p = Nothing THEN Ends ELSE Goes("guard")
    /\ UNCHANGED <<stagingDir, rows, applied, saved, inbox, cmd, assignment, counts>>

Skip ==
    /\ sync.pc = "guard" /\ AlreadyApplied(sync.p)
    /\ Ends
    /\ UNCHANGED <<disk, rows, applied, saved, inbox, cmd, assignment, counts>>

\* The rows go before the files.
UnlistContent ==
    /\ sync.pc = "guard" /\ ~AlreadyApplied(sync.p) /\ sync.p = Unassigned
    /\ rows' = Empty
    /\ Goes("unlisted")
    /\ UNCHANGED <<disk, applied, saved, inbox, cmd, assignment, counts>>

RemoveContent ==
    /\ sync.pc = "unlisted"
    /\ activeDir' = Absent /\ backupDir' = Absent /\ stagingDir' = Absent
    /\ Goes("record")
    /\ UNCHANGED <<rows, applied, saved, inbox, cmd, assignment, counts>>

\* Less than 200 MB are free.
DiskFull ==
    /\ sync.pc = "guard" /\ ~AlreadyApplied(sync.p) /\ sync.p # Unassigned
    /\ SyncFails
    /\ Ends
    /\ UNCHANGED <<disk, rows, applied, saved, inbox, cmd, assignment, syncCrashes,
                   commands>>

StartStaging ==
    /\ sync.pc = "guard" /\ ~AlreadyApplied(sync.p) /\ sync.p # Unassigned
    /\ stagingDir' = Empty
    /\ Goes("staging")
    /\ UNCHANGED <<activeDir, backupDir, rows, applied, saved, inbox, cmd, assignment,
                   counts>>

\* Every item was downloaded or copied from the active directory and has its
\* checksum; nothing can be written once a command has removed the directory.
Staged ==
    /\ sync.pc = "staging" /\ stagingDir # Absent
    /\ stagingDir' = FilesOf(sync.p)
    /\ Goes("preserve")
    /\ UNCHANGED <<activeDir, backupDir, rows, applied, saved, inbox, cmd, assignment,
                   counts>>

\* The staging directory stays; the error ends the sync.
StagingFails ==
    /\ sync.pc = "staging"
    /\ FailsThough(stagingDir # Absent)
    /\ Ends
    /\ UNCHANGED <<disk, rows, applied, saved, inbox, cmd, assignment, syncCrashes,
                   commands>>

Preserve ==
    /\ sync.pc = "preserve"
    /\ backupDir' = activeDir /\ activeDir' = Absent
    /\ Goes("move")
    /\ UNCHANGED <<stagingDir, rows, applied, saved, inbox, cmd, assignment, counts>>

Move ==
    /\ sync.pc = "move" /\ stagingDir # Absent
    /\ activeDir' = stagingDir /\ stagingDir' = Absent
    /\ Goes("commit")
    /\ UNCHANGED <<backupDir, rows, applied, saved, inbox, cmd, assignment, counts>>

\* replaceAll is one transaction.
CommitRows ==
    /\ sync.pc = "commit"
    /\ rows' = RowsOf(sync.p)
    /\ Goes("record")
    /\ UNCHANGED <<disk, applied, saved, inbox, cmd, assignment, counts>>

\* Mutant: the new files stay when the table could not be written.
RollBackNothing ==
    /\ sync.pc \in {"move", "commit"}
    /\ FailsThough(sync.pc = "commit" \/ stagingDir # Absent)
    /\ backupDir' = Absent
    /\ Ends
    /\ UNCHANGED <<activeDir, stagingDir, rows, applied, saved, inbox, cmd, assignment,
                   syncCrashes, commands>>

\* The move or the transaction throws: the old generation comes back.
RollBack ==
    /\ sync.pc \in {"move", "commit"}
    /\ FailsThough(sync.pc = "commit" \/ stagingDir # Absent)
    /\ activeDir' = backupDir /\ backupDir' = Absent
    /\ Ends
    /\ UNCHANGED <<stagingDir, rows, applied, saved, inbox, cmd, assignment,
                   syncCrashes,
                   commands>>

Record ==
    /\ sync.pc = "record"
    /\ applied' = sync.p /\ saved' = sync.p
    /\ Goes("finish")
    /\ UNCHANGED <<disk, rows, inbox, cmd, assignment, counts>>

Finish ==
    /\ sync.pc = "finish"
    /\ backupDir' = Absent
    /\ Ends
    /\ UNCHANGED <<activeDir, stagingDir, rows, applied, saved, inbox, cmd, assignment,
                   counts>>

-----------------------------------------------------------------------------
(* Commands, outside the mutex                                             *)

Command(pc) ==
    /\ cmd.pc = "none" /\ commands < MaxCommands
    /\ commands' = commands + 1
    /\ cmd' = [cmd EXCEPT !.pc = pc]

RemoveRoot == activeDir' = Absent /\ backupDir' = Absent /\ stagingDir' = Absent

\* CLEAR_CACHE removes the content directory first.
ClearCache ==
    /\ Command("clear")
    /\ RemoveRoot
    /\ UNCHANGED <<rows, applied, saved, inbox, sync, assignment, syncCrashes,
                   syncFaults>>

ClearRows ==
    /\ cmd.pc = "clear"
    /\ rows' = Empty
    /\ cmd' = [cmd EXCEPT !.pc = "refresh"]
    /\ UNCHANGED <<disk, applied, saved, inbox, sync, assignment, counts>>

ForceRefresh ==
    /\ Command("refresh")
    /\ UNCHANGED <<disk, rows, applied, saved, inbox, sync, assignment, syncCrashes,
                   syncFaults>>

\* forceRefreshFromActiveCache reads the table, then the directory.
ReadCache ==
    /\ cmd.pc = "refresh"
    /\ cmd' = IF rows # Empty THEN [cmd EXCEPT !.pc = "none"]
              ELSE [pc |-> "rebuild",
                    found |-> IF activeDir = Absent THEN Empty ELSE activeDir]
    /\ UNCHANGED <<disk, rows, applied, saved, inbox, sync, assignment, counts>>

RebuildRows ==
    /\ cmd.pc = "rebuild"
    /\ rows' = cmd.found
    /\ cmd' = [pc |-> "none", found |-> Empty]
    /\ UNCHANGED <<disk, applied, saved, inbox, sync, assignment, counts>>

\* withTimeoutOrNull cancels a command at a suspension point; the reset runs
\* in a coroutine of its own.
CommandTimesOut ==
    /\ cmd.pc \in {"clear", "refresh", "rebuild"}
    /\ cmd' = [pc |-> "none", found |-> Empty]
    /\ UNCHANGED <<disk, rows, applied, saved, inbox, sync, assignment, counts>>

\* forceReset clears the table, then removes the files.
FactoryReset ==
    /\ Command("reset")
    /\ rows' = Empty
    /\ UNCHANGED <<disk, applied, saved, inbox, sync, assignment, syncCrashes,
                   syncFaults>>

ResetFiles ==
    /\ cmd.pc = "reset"
    /\ RemoveRoot
    /\ cmd' = [cmd EXCEPT !.pc = "none"]
    /\ UNCHANGED <<rows, applied, saved, inbox, sync, assignment, counts>>

-----------------------------------------------------------------------------
(* Restarts, and the backend                                               *)

SyncCrash ==
    /\ syncCrashes < MaxSyncCrashes
    /\ syncCrashes' = syncCrashes + 1
    /\ sync' = [pc |-> "recover", p |-> Nothing]
    /\ cmd' = [pc |-> "none", found |-> Empty]
    /\ applied' = saved
    /\ inbox' = {}
    /\ UNCHANGED <<disk, rows, saved, assignment, commands, syncFaults>>

\* A publish, or the removal of the playlist; the packet may be lost.
Assign(p) ==
    /\ p # assigned
    /\ assigned' = p
    /\ inbox' \in {inbox, inbox \union {p}}
    /\ UNCHANGED <<disk, rows, applied, saved, sync, cmd, connecting, counts>>

\* The connection handler reads the device, awaits several calls and then
\* pushes the playlist it has read; without one it pushes nothing.
Connect ==
    /\ connecting = Nothing
    /\ connecting' = assigned
    /\ UNCHANGED <<syncPart, assigned, counts>>

PushOnConnect ==
    /\ connecting # Nothing
    /\ inbox' = IF connecting = Unassigned THEN inbox
                ELSE inbox \union {connecting}
    /\ connecting' = Nothing
    /\ UNCHANGED <<disk, rows, applied, saved, sync, cmd, assigned, counts>>

-----------------------------------------------------------------------------

SyncStep ==
    \/ Recover \/ Skip \/ UnlistContent \/ RemoveContent
    \/ DiskFull \/ StartStaging \/ Staged \/ StagingFails
    \/ Preserve \/ Move \/ CommitRows \/ RollBack \/ Record \/ Finish

CommandStep ==
    ClearRows \/ ReadCache \/ RebuildRows \/ ResetFiles \/ CommandTimesOut

SyncNext ==
    \/ \E p \in Payloads : Take(p) \/ Assign(p)
    \/ SyncStep
    \/ ClearCache \/ ForceRefresh \/ FactoryReset \/ CommandStep
    \/ SyncCrash \/ Connect \/ PushOnConnect

SyncSpec == SyncInit /\ [][SyncNext]_syncVars

(***************************************************************************)
(* Coroutines run, and operations fail MaxFaults times at most (a failure  *)
(* that repeats for ever keeps the old content for ever).                  *)
(***************************************************************************)
PlayerFairSpec ==
    /\ SyncSpec
    /\ WF_syncVars(SyncStep) /\ WF_syncVars(CommandStep)
    /\ WF_syncVars(\E p \in Payloads : Take(p))

\* The player reconnects again and again.
SyncFairSpec == PlayerFairSpec /\ WF_syncVars(Connect) /\ WF_syncVars(PushOnConnect)

-----------------------------------------------------------------------------
(* Properties                                                              *)

Directory == Listings \union {Absent}

SyncTypeOK ==
    /\ activeDir \in Directory /\ backupDir \in Directory /\ stagingDir \in Directory
    /\ rows \in Listings
    /\ applied \in Payloads \union {Nothing}
    /\ saved \in Payloads \union {Nothing}
    /\ inbox \in SUBSET Payloads
    /\ sync \in [pc : SyncState, p : Payloads \union {Nothing}]
    /\ cmd \in [pc : CommandState, found : Listings]
    /\ assigned \in Payloads /\ connecting \in Payloads \union {Nothing}
    /\ syncCrashes \in 0..MaxSyncCrashes /\ commands \in 0..MaxCommands
    /\ syncFaults \in 0..MaxSyncFaults

Quiet == sync.pc = "idle" /\ cmd.pc = "none"

\* Wherever an activation was interrupted, once the recovery is through every
\* row the playback would read has its file.
RowsHaveFiles == commands = 0 /\ Quiet => AllOnDisk

\* And without a restart the files that are shown are the ones the rows mean,
\* not files of another generation with the same names.
RowsMatchFiles ==
    /\ RowsHaveFiles
    /\ commands = 0 /\ syncCrashes = 0 /\ Quiet => Displayed = rows

\* A player that reconnects again and again ends up showing the playlist that
\* stays assigned: whatever failed, arrived late or was removed by a command.
EventuallyShown ==
    \A p \in Payloads \ {Unassigned} :
      <>[](assigned = p) => <>[](Displayed = RowsOf(p))

\* recoverInterruptedActivation: "Restores the last known-good directory after
\* power loss during activation".  Files of the new generation with the names
\* of the old one are taken for the old one.
GenerationKept == commands = 0 /\ Quiet => Displayed = rows

\* lastAppliedChecksum: "we skip the sync entirely if the checksum matches
\* what is already on disk".  After a restart between the table and the
\* preferences the checksum is that of an earlier playlist.
SkipOnlyWhenOnDisk ==
    [][Skip => Displayed = RowsOf(sync.p)]_syncVars

\* applySyncPayload: "duplicate payloads (same playlistId + same or older
\* version) are silently skipped".  An older version has another checksum.
OlderVersionSkipped ==
    [][CommitRows /\ applied # Nothing /\ PlaylistOf[sync.p] = PlaylistOf[applied]
         => VersionOf[sync.p] >= VersionOf[applied]]_syncVars

\* CLEAR_CACHE: "Delete active content, temp cache, and DB playlist, then
\* trigger refetch".  The refresh only reads the cache that has been deleted.
ClearedIsRefetched ==
    (cmd.pc = "rebuild" /\ cmd.found = Empty /\ sync.pc = "idle" /\ inbox = {}
       /\ applied = assigned /\ assigned # Unassigned)
      ~> (rows # Empty \/ applied # assigned \/ connecting # Nothing)

\* "we skip the sync entirely if the checksum matches what is already on disk --
\* no redundant downloads, no playback restart".  A playlist that has the same
\* media twice has fewer rows than items, and is downloaded at every push.
NoRedundantDownload ==
    [][StartStaging /\ applied = sync.p
         => activeDir # FilesOf(sync.p) \/ ~AllOnDisk]_syncVars
=============================================================================
