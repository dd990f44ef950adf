------------------------ MODULE PlayerContentProofs -------------------------
(***************************************************************************)
(* Proofs about the content on the player.                                 *)
(*                                                                         *)
(* ContentSync: for any playlists, and any number of restarts, failures    *)
(* and pushes, a player that runs no command keeps a file for every row of *)
(* its table, and one that is not restarted keeps the file the row was     *)
(* written for.                                                            *)
(*                                                                         *)
(* Playback: for any playlists and any number of restarts, reloads, lost   *)
(* files and commands, the loop never leaves its playlist behind and what  *)
(* is shown is of the playlist in the database.                            *)
(***************************************************************************)
EXTENDS ContentSync, Playback, TLAPS

(***************************************************************************)
(* A directory serves the table if it has a file for every row, and, as    *)
(* long as nothing was restarted, the very file.                           *)
(***************************************************************************)
Has(dir) == \A n \in DOMAIN rows : dir # Absent /\ n \in DOMAIN dir
Matches(dir) == \A n \in DOMAIN rows : dir # Absent /\ n \in DOMAIN dir /\ dir[n] = rows[n]
Serves(dir) == Has(dir) /\ (syncCrashes = 0 => Matches(dir))

TypeInv ==
    /\ SyncTypeOK
    /\ sync.pc \notin {"idle", "recover"} => sync.p \in Payloads

(***************************************************************************)
(* Which directories serve the table at each point of a sync.  The old     *)
(* generation is in the backup from the moment it leaves the active        *)
(* directory until the rows of the new one are written.  A recovery finds  *)
(* whatever a restart has left: one of the two serves.                     *)
(***************************************************************************)
Undisturbed ==
    sync.pc \in {"idle", "guard", "unlisted", "staging", "preserve"} => backupDir = Absent
ActiveServes ==
    sync.pc \in SyncState \ {"recover", "move", "commit"} => Serves(activeDir)
Emptied == sync.pc = "unlisted" => rows = Empty
StagingComplete == sync.pc \in {"preserve", "move"} => stagingDir = FilesOf(sync.p)
BackupServes == sync.pc \in {"move", "commit"} => Serves(backupDir)
NewFilesActive == sync.pc = "commit" => activeDir = FilesOf(sync.p)
Recoverable ==
    sync.pc = "recover" => /\ Has(activeDir) \/ Has(backupDir)
                           /\ syncCrashes = 0 => backupDir = Absent /\ Matches(activeDir)

DiskInv ==
    commands = 0 =>
      /\ cmd.pc = "none"
      /\ Undisturbed /\ ActiveServes /\ Emptied /\ StagingComplete
      /\ BackupServes /\ NewFilesActive /\ Recoverable

IInv == TypeInv /\ DiskInv

-----------------------------------------------------------------------------
(* Listings                                                                *)

LEMMA EmptyListing == DOMAIN Empty = {} /\ Empty \in Listings
BY DEF Empty, Listings

\* A listing maps names to checksums, and nothing else.
LEMMA ListingIsFunction ==
    ASSUME NEW r \in Listings
    PROVE  r = [n \in DOMAIN r |-> r[n]]
<1>1. CASE r = Empty
  BY <1>1 DEF Empty
<1>2. CASE \E p \in Payloads : r = FilesOf(p) \/ r = RowsOf(p)
  BY <1>2 DEF FilesOf, RowsOf, Listing
<1> QED
  BY <1>1, <1>2 DEF Listings

\* There is one function without arguments.
LEMMA EmptyFunction ==
    ASSUME NEW f, f = [n \in DOMAIN f |-> f[n]], DOMAIN f = {}
    PROVE  f = Empty
BY DEF Empty

\* Every row of a playlist has its file in the playlist's directory: the later
\* of two items with one media replaces the row of the earlier, not its file.
LEMMA RowsHaveTheirFiles ==
    ASSUME PayloadAssumption, NEW p \in Payloads, NEW n \in DOMAIN RowsOf(p)
    PROVE  /\ FilesOf(p) # Absent
           /\ n \in DOMAIN FilesOf(p)
           /\ FilesOf(p)[n] = RowsOf(p)[n]
<1> DEFINE all == {Content[p][i] : i \in DOMAIN Content[p]}
           kept == {Content[p][i] : i \in
                      {j \in DOMAIN Content[p] : \A k \in DOMAIN Content[p] :
                         Content[p][k].media = Content[p][j].media => k <= j}}
<1>1. FilesOf(p) = Listing(all) /\ RowsOf(p) = Listing(kept)
  BY DEF FilesOf, RowsOf
<1>2. kept \subseteq all
  OBVIOUS
<1>3. \A x, y \in all : x.name = y.name => x = y
  BY DEF PayloadAssumption
<1> HIDE DEF all, kept
<1>4. n \in {it.name : it \in kept}
  BY <1>1 DEF Listing
<1>5. PICK it \in kept : it.name = n
  BY <1>4
<1>6. n \in {x.name : x \in all}
  BY <1>2, <1>5
<1>7. (CHOOSE x \in all : x.name = n) = it
  BY <1>2, <1>3, <1>5
<1>8. (CHOOSE x \in kept : x.name = n) = it
  BY <1>2, <1>3, <1>5
<1>9. n \in DOMAIN FilesOf(p) /\ FilesOf(p)[n] = it.sum
  BY <1>1, <1>6, <1>7 DEF Listing
<1>10. RowsOf(p)[n] = it.sum
  BY <1>1, <1>4, <1>8 DEF Listing
<1>11. FilesOf(p) # Absent
  BY DEF PayloadAssumption, Listings
<1> QED
  BY <1>9, <1>10, <1>11

-----------------------------------------------------------------------------
(* Types                                                                   *)

LEMMA InitTypes ==
    ASSUME PayloadAssumption, BoundsAssumption, SyncInit
    PROVE  TypeInv
BY EmptyListing
   DEF PayloadAssumption, BoundsAssumption, SyncInit, TypeInv, SyncTypeOK, Directory,
       SyncState,
       CommandState

LEMMA StepTypes ==
    ASSUME PayloadAssumption, BoundsAssumption, TypeInv, [SyncNext]_syncVars
    PROVE  TypeInv'
<1> USE DEF TypeInv, SyncTypeOK
<1>1. \A p \in Payloads : FilesOf(p) \in Listings /\ RowsOf(p) \in Listings
  BY DEF Listings
<1>2. Absent \in Directory /\ Empty \in Directory /\ Listings \subseteq Directory
  BY EmptyListing DEF Directory
<1>3. \A d \in Directory : d # Absent => d \in Listings
  BY DEF Directory
<1>4. CASE \E p \in Payloads : Take(p)
  BY <1>4 DEF Take, disk, assignment, counts, SyncState
<1>5. CASE \E p \in Payloads : Assign(p)
  BY <1>5 DEF Assign, disk, counts
<1>6. CASE Recover
  BY <1>2, <1>6 DEF Recover, Goes, Ends, assignment, counts, SyncState
<1>7. CASE Skip \/ DiskFull \/ StagingFails
  BY <1>7 DEF Skip, DiskFull, StagingFails, SyncFails, FailsThough, Ends, disk, assignment,
     counts,
              SyncState, BoundsAssumption
<1>8. CASE UnlistContent \/ RemoveContent
  BY <1>2, <1>8, EmptyListing
     DEF UnlistContent, RemoveContent, Goes, disk, assignment, counts, SyncState
<1>9. CASE StartStaging \/ Staged
  BY <1>1, <1>2, <1>9 DEF StartStaging, Staged, Goes, assignment, counts, SyncState
<1>10. CASE Preserve \/ Move \/ CommitRows
  BY <1>1, <1>2, <1>10 DEF Preserve, Move, CommitRows, Goes, disk, assignment, counts,
     SyncState
<1>11. CASE RollBack
  BY <1>2, <1>11 DEF RollBack, SyncFails, FailsThough, Ends, assignment, SyncState,
     BoundsAssumption
<1>12. CASE Record \/ Finish
  BY <1>2, <1>12 DEF Record, Finish, Goes, Ends, disk, assignment, counts, SyncState
<1>13. CASE ClearCache \/ ForceRefresh \/ FactoryReset
  BY <1>2, <1>13, EmptyListing
     DEF ClearCache, ForceRefresh, FactoryReset, Command, RemoveRoot, disk, assignment,
         CommandState, BoundsAssumption
<1>14. CASE CommandStep
  BY <1>2, <1>3, <1>14, EmptyListing
     DEF CommandStep, ClearRows, ReadCache, RebuildRows, ResetFiles, CommandTimesOut,
         RemoveRoot, disk, assignment, counts, CommandState
<1>15. CASE SyncCrash
  BY <1>15, EmptyListing
     DEF SyncCrash, disk, assignment, SyncState, CommandState, BoundsAssumption
<1>16. CASE Connect \/ PushOnConnect
  BY <1>16 DEF Connect, PushOnConnect, syncPart, disk, counts
<1>17. CASE UNCHANGED syncVars
  BY <1>17 DEF syncVars, syncPart, assignment, counts
<1> QED
  BY <1>4, <1>5, <1>6, <1>7, <1>8, <1>9, <1>10, <1>11, <1>12, <1>13, <1>14, <1>15, <1>16,
     <1>17 DEF SyncNext, SyncStep

-----------------------------------------------------------------------------
(* The directories that serve the table                                    *)

LEMMA InitServes == ASSUME SyncInit PROVE DiskInv
BY EmptyListing
   DEF SyncInit, DiskInv, Undisturbed, ActiveServes, Emptied, StagingComplete, BackupServes,
       NewFilesActive, Recoverable, Serves, Has, Matches

\* The condition of recoverInterruptedActivation.
LEMMA AllOnDiskIsHas == AllOnDisk <=> Has(activeDir)
BY DEF AllOnDisk, OnDisk, Has

LEMMA StepServes ==
    ASSUME PayloadAssumption, BoundsAssumption, TypeInv, DiskInv, [SyncNext]_syncVars
    PROVE  DiskInv'
<1> SUFFICES ASSUME commands' = 0 PROVE DiskInv'
  BY DEF DiskInv
<1>1. commands = 0 /\ cmd.pc = "none"
  <2>1. commands \in Nat
    BY DEF TypeInv, SyncTypeOK, BoundsAssumption
  <2>2. commands' \in {commands, commands + 1}
    BY DEF SyncNext, SyncStep, CommandStep, Take, Assign, Recover, Skip, UnlistContent,
           RemoveContent, DiskFull, StartStaging, Staged, StagingFails, Preserve, Move,
           CommitRows, RollBack, Record, Finish, ClearCache, ForceRefresh, FactoryReset,
           ClearRows, ReadCache, RebuildRows, ResetFiles, CommandTimesOut, SyncCrash, Connect,
           PushOnConnect, Command, syncPart, assignment, counts, syncVars
  <2> QED
    BY <2>1, <2>2 DEF DiskInv
<1>2. /\ Undisturbed /\ ActiveServes /\ Emptied /\ StagingComplete
      /\ BackupServes /\ NewFilesActive /\ Recoverable
  BY <1>1 DEF DiskInv
<1>3. sync.pc \in SyncState /\ syncCrashes \in Nat
      /\ \A pc : Goes(pc) => sync'.pc = pc /\ sync'.p = sync.p
  BY DEF Goes, TypeInv, SyncTypeOK, BoundsAssumption
<1> DEFINE Shapes == /\ Undisturbed /\ ActiveServes /\ Emptied /\ StagingComplete
                     /\ BackupServes /\ NewFilesActive /\ Recoverable
<1> SUFFICES cmd'.pc = "none" /\ Shapes'
  BY DEF DiskInv
<1> USE DEF Undisturbed, ActiveServes, Emptied, StagingComplete, BackupServes,
            NewFilesActive, Recoverable, Serves, Has, Matches, SyncState
<1>4. CASE UNCHANGED <<disk, rows, sync, cmd, syncCrashes>>
  BY <1>1, <1>2, <1>4 DEF disk
<1>5. CASE \E p \in Payloads : Take(p)
  BY <1>1, <1>2, <1>5 DEF Take, disk, counts
<1>6. CASE Recover
  <2>1. /\ rows' = rows /\ syncCrashes' = syncCrashes /\ cmd' = cmd /\ backupDir' = Absent
        /\ activeDir' = activeDir \/ activeDir' = backupDir
    BY <1>6 DEF Recover, counts
  <2>2. sync'.pc \in {"idle", "guard"}
    BY <1>3, <1>6 DEF Recover, Ends
  <2>3. Serves(activeDir)'
    <3>1. CASE rows = Empty
      BY <2>1, <3>1, EmptyListing
    <3>2. CASE backupDir = Absent
      <4>1. activeDir' = activeDir
        BY <1>6, <3>2 DEF Recover
      <4>2. Has(activeDir)
        BY <1>2, <1>6, <3>2 DEF Recover
      <4> QED
        BY <1>2, <1>6, <2>1, <4>1, <4>2 DEF Recover
    <3>3. CASE backupDir # Absent /\ rows # Empty /\ Has(activeDir)
      <4>1. PICK n \in DOMAIN rows : TRUE
        <5>1. rows = [n \in DOMAIN rows |-> rows[n]]
          BY ListingIsFunction DEF TypeInv, SyncTypeOK
        <5> QED
          BY <3>3, <5>1, EmptyFunction
      <4>2. activeDir # Absent /\ AllOnDisk
        BY <3>3, <4>1, AllOnDiskIsHas
      <4>3. activeDir' = activeDir /\ syncCrashes # 0
        BY <1>2, <1>6, <3>3, <4>2 DEF Recover
      <4> QED
        BY <2>1, <3>3, <4>3
    <3>4. CASE backupDir # Absent /\ ~Has(activeDir)
      <4>1. activeDir' = backupDir
        BY <1>6, <3>4, AllOnDiskIsHas DEF Recover
      <4>2. Has(backupDir) /\ syncCrashes # 0
        BY <1>2, <1>6, <3>4 DEF Recover
      <4> QED
        BY <2>1, <4>1, <4>2
    <3> QED
      BY <3>1, <3>2, <3>3, <3>4
  <2> QED
    BY <1>1, <2>1, <2>2, <2>3
<1>7. CASE Skip \/ DiskFull \/ StagingFails
  BY <1>1, <1>2, <1>7 DEF Skip, DiskFull, StagingFails, SyncFails, FailsThough, Ends, disk,
     counts
<1>8. CASE UnlistContent
  BY <1>1, <1>2, <1>3, <1>8, EmptyListing DEF UnlistContent, disk, counts
<1>9. CASE RemoveContent
  BY <1>1, <1>2, <1>3, <1>9, EmptyListing DEF RemoveContent, counts
<1>10. CASE StartStaging \/ Staged
  BY <1>1, <1>2, <1>3, <1>10 DEF StartStaging, Staged, counts
<1>11. CASE Preserve
  BY <1>1, <1>2, <1>3, <1>11 DEF Preserve, counts
<1>12. CASE Move
  BY <1>1, <1>2, <1>3, <1>12 DEF Move, counts
<1>13. CASE CommitRows
  <2>1. sync.p \in Payloads /\ activeDir' = FilesOf(sync.p) /\ rows' = RowsOf(sync.p)
    BY <1>2, <1>13 DEF CommitRows, disk, TypeInv
  <2>2. Serves(activeDir)'
    BY <2>1, RowsHaveTheirFiles
  <2>3. sync'.pc = "record" /\ cmd' = cmd
    BY <1>3, <1>13 DEF CommitRows
  <2> QED
    BY <1>1, <2>2, <2>3
<1>14. CASE RollBack
  BY <1>1, <1>2, <1>14 DEF RollBack, Ends
<1>15. CASE Record \/ Finish
  <2>1. sync'.pc \in {"finish", "idle"} /\ (sync'.pc = "idle" => backupDir' = Absent)
    BY <1>3, <1>15 DEF Record, Finish, Ends
  <2>2. UNCHANGED <<activeDir, rows, cmd, syncCrashes>>
    BY <1>15 DEF Record, Finish, disk, counts
  <2>3. Serves(activeDir)
    BY <1>2, <1>15 DEF Record, Finish
  <2> QED
    BY <1>1, <2>1, <2>2, <2>3
<1>16. CASE SyncCrash
  <2>1. Has(activeDir) \/ Has(backupDir)
    BY <1>2, <1>3
  <2> QED
    BY <1>3, <1>16, <2>1 DEF SyncCrash, disk
<1>17. CASE ClearCache \/ ForceRefresh \/ FactoryReset \/ CommandStep
  BY <1>1, <1>17
     DEF ClearCache, ForceRefresh, FactoryReset, Command, CommandStep, ClearRows, ReadCache,
         RebuildRows, ResetFiles, CommandTimesOut
<1> QED
  BY <1>4, <1>5, <1>6, <1>7, <1>8, <1>9, <1>10, <1>11, <1>12, <1>13, <1>14, <1>15, <1>16,
     <1>17
     DEF SyncNext, SyncStep, Assign, Connect, PushOnConnect, syncVars, syncPart, assignment,
         counts, disk

-----------------------------------------------------------------------------
(* Theorems                                                                *)

THEOREM Invariant ==
    ASSUME PayloadAssumption, BoundsAssumption
    PROVE  SyncSpec => []IInv
<1>1. SyncInit => IInv
  BY InitTypes, InitServes DEF IInv
<1>2. IInv /\ [SyncNext]_syncVars => IInv'
  BY StepTypes, StepServes DEF IInv
<1> QED
  BY <1>1, <1>2, PTL DEF SyncSpec

(***************************************************************************)
(* Everything on the disk and in the table comes from payloads, and a sync *)
(* past its recovery works for one of them (ContentSyncManager.kt).        *)
(***************************************************************************)
THEOREM SyncTypeCorrect ==
    ASSUME PayloadAssumption, BoundsAssumption
    PROVE  SyncSpec => []SyncTypeOK
<1>1. IInv => SyncTypeOK
  BY DEF IInv, TypeInv
<1> QED
  BY <1>1, Invariant, PTL

LEMMA RowsAreServed == IInv => RowsHaveFiles
BY AllOnDiskIsHas
   DEF IInv, TypeInv, DiskInv, RowsHaveFiles, Quiet, ActiveServes, Serves, SyncState

(***************************************************************************)
(* Wherever a restart cut an activation off, after the recovery every row  *)
(* the playback would read has a file (recoverInterruptedActivation).      *)
(***************************************************************************)
THEOREM RowsKeepFiles ==
    ASSUME PayloadAssumption, BoundsAssumption
    PROVE  SyncSpec => []RowsHaveFiles
BY RowsAreServed, Invariant, PTL

(***************************************************************************)
(* Every row has its file, and without a restart the files that are shown  *)
(* are the ones the rows were written for, whatever failed: moves and      *)
(* transactions that are rolled back, downloads that end, pushes in any    *)
(* order (applySyncPayload).                                               *)
(***************************************************************************)
THEOREM RowsMeanTheirFiles ==
    ASSUME PayloadAssumption, BoundsAssumption
    PROVE  SyncSpec => []RowsMatchFiles
<1>1. ASSUME IInv, commands = 0, syncCrashes = 0, Quiet PROVE Displayed = rows
  <2>1. Matches(activeDir)
    BY <1>1 DEF IInv, DiskInv, Quiet, ActiveServes, Serves, SyncState
  <2>2. rows = [n \in DOMAIN rows |-> rows[n]]
    BY <1>1, ListingIsFunction DEF IInv, TypeInv, SyncTypeOK
  <2>3. {m \in DOMAIN rows : OnDisk(m)} = DOMAIN rows
    BY <2>1 DEF Matches, OnDisk
  <2>4. \A n \in DOMAIN rows : activeDir[n] = rows[n]
    BY <2>1 DEF Matches
  <2>5. Displayed = [n \in DOMAIN rows |-> rows[n]]
    BY <2>3, <2>4 DEF Displayed
  <2> QED
    BY <2>2, <2>5
<1>2. IInv => RowsMatchFiles
  BY <1>1, RowsAreServed DEF RowsMatchFiles
<1> QED
  BY <1>2, Invariant, PTL

-----------------------------------------------------------------------------
(* Playback                                                                *)

(***************************************************************************)
(* From the moment it has read a playlist until it gives up, the loop is   *)
(* in a list that is not empty, and still in it when no file was found.    *)
(***************************************************************************)
PlayingStates == {"item", "fade", "begin", "show"}
InList ==
    /\ playLoop.pc \in PlayingStates \union {"backoff"} => playLoop.list # <<>>
    /\ playLoop.pc \in PlayingStates => playLoop.misses < Len(playLoop.list)

(***************************************************************************)
(* A list that is not the one in the database has a reload coming: whoever *)
(* replaces the rows asks for one that no timeout ends, and it is taken    *)
(* before it restarts the loop.  Nothing rests on the reload of a command. *)
(***************************************************************************)
InCurrentList ==
    requests \subseteq {"command"} /\ reload \in {"none", "command"} /\ playRows # <<>>
      /\ playLoop.pc \in PlayingStates \union {"backoff"} => playLoop.list = playRows

PlayInv == PlaybackTypeOK /\ InList /\ InCurrentList

-----------------------------------------------------------------------------

LoopType == [pc : PlaybackState, list : Playlists, i : Nat \ {0}, misses : Nat,
             resume : BOOLEAN, at : {0, 1}, frozen : BOOLEAN]
LoopOK ==
    /\ playLoop \in LoopType
    /\ playLoop.list # <<>> => playLoop.i \in 1..Len(playLoop.list)
    /\ playLoop.misses <= Len(playLoop.list)
    /\ InList

LEMMA ListsAreSequences ==
    ASSUME PlaylistAssumption, NEW l \in Playlists
    PROVE  /\ l \in Seq(Items) /\ Len(l) \in Nat /\ (l # <<>> => Len(l) > 0)
           /\ \A i \in 1..Len(l) : l[i] \in Items /\ l[i].path \in Paths
<1>1. l \in Seq(Items)
  BY DEF PlaylistAssumption
<1> QED
  BY <1>1 DEF Paths

LEMMA LoopAtFields ==
    ASSUME NEW lp \in LoopType, NEW pc \in PlaybackState
    PROVE  [lp EXCEPT !.pc = pc] \in LoopType
BY DEF LoopType

LEMMA StartedIsFresh == ASSUME PlaylistAssumption PROVE
    /\ Started \in LoopType /\ Started.list = <<>> /\ Started.misses = 0
    /\ Started.pc = "read"
    /\ [Started EXCEPT !.pc = "none"] \in LoopType
<1>1. <<>> \in Playlists
  BY DEF PlaylistAssumption
<1>2. Started \in LoopType
  BY <1>1 DEF Started, LoopType, PlaybackState
<1>3. [Started EXCEPT !.pc = "none"] \in LoopType
  BY <1>2, LoopAtFields DEF PlaybackState
<1> QED
  BY <1>2, <1>3 DEF Started

\* The item after the last one is the first.
LEMMA FollowingInList ==
    ASSUME NEW n \in Nat \ {0}, NEW i \in 1..n
    PROVE  (i % n) + 1 \in 1..n
OBVIOUS

LEMMA ItemInList ==
    ASSUME PlaylistAssumption, PlayInv, playLoop.pc \in PlayingStates
    PROVE  /\ Item \in Items /\ Item.path \in Paths /\ Item.video \in BOOLEAN
           /\ playLoop.i \in 1..Len(playLoop.list) /\ Len(playLoop.list) \in Nat \ {0}
           /\ Following \in 1..Len(playLoop.list)
<1>1. playLoop.list \in Playlists /\ playLoop.list # <<>> /\ playLoop.i \in 1..Len(playLoop.list)
  BY DEF PlayInv, PlaybackTypeOK, InList
<1>2. Item \in Items /\ Item.path \in Paths /\ Len(playLoop.list) \in Nat \ {0}
  BY <1>1, ListsAreSequences DEF Item
<1> QED
  BY <1>1, <1>2, FollowingInList DEF Following, PlaylistAssumption

\* The types besides the loop's
RestOK ==
    /\ playRows \in Playlists /\ files \subseteq Paths
    /\ position \in [index : Nat \ {0}, at : {0, 1}]
    /\ left \in Items \union {NoPath}
    /\ shown \in Paths \union {NoPath} /\ alpha \in {0, 1}
    /\ playing \in BOOLEAN /\ screenOff \in BOOLEAN
    /\ reload \in {"none", "grace", "cancel", "command"}
    /\ requests \subseteq ReloadKinds
    /\ playCrashes \in 0..MaxPlayCrashes

LEMMA PlayParts == PlayInv <=> LoopOK /\ RestOK /\ InCurrentList
BY DEF PlayInv, PlaybackTypeOK, LoopOK, LoopType, RestOK

LEMMA PlayPartsNext == LoopOK' /\ RestOK' /\ InCurrentList' => PlayInv'
BY DEF PlayInv, PlaybackTypeOK, LoopOK, LoopType, RestOK

LEMMA InitKeeps == PlaylistAssumption /\ PlaybackInit => PlayInv
<1> SUFFICES ASSUME PlaylistAssumption, PlaybackInit PROVE PlayInv
  OBVIOUS
<1>1. LoopOK
  BY StartedIsFresh DEF PlaybackInit, LoopOK, InList, PlayingStates, Started
<1>2. <<>> \in Playlists /\ MaxPlayCrashes \in Nat
  BY DEF PlaylistAssumption
<1>3. position \in [index : Nat \ {0}, at : {0, 1}] /\ playCrashes \in 0..MaxPlayCrashes
  BY <1>2 DEF PlaybackInit
<1>4. requests \subseteq ReloadKinds /\ ~(requests \subseteq {"command"})
  BY DEF PlaybackInit, ReloadKinds
<1>5. RestOK /\ InCurrentList
  BY <1>2, <1>3, <1>4 DEF PlaybackInit, RestOK, InCurrentList
<1> QED
  BY <1>1, <1>5, PlayParts

-----------------------------------------------------------------------------

\* The loop reads a playlist, or finds none and waits.
LEMMA ReadStep ==
    ASSUME PlaylistAssumption, PlayInv, ReadPlaylist \/ DelayOver \/ BackoffOver
    PROVE  PlayInv'
<1>1. LoopOK /\ RestOK /\ InCurrentList
  BY PlayParts
<1>2. /\ UNCHANGED <<playRows, files, position, left, alpha, playing, screenOff, reload,
                     requests,
                     playCrashes>>
      /\ shown' \in {shown, NoPath}
  BY DEF ReadPlaylist, DelayOver, BackoffOver, playContent, screen, reloads
<1>3. RestOK'
  BY <1>1, <1>2 DEF RestOK
<1>4. CASE playLoop' = LoopAt("wait")
  <2>1. LoopOK'
    BY <1>1, <1>4 DEF LoopAt, LoopOK, LoopType, PlaybackState, InList, PlayingStates
  <2>2. InCurrentList'
    BY <1>1, <1>4 DEF LoopAt, LoopOK, LoopType, InCurrentList, PlayingStates
  <2> QED
    BY <1>3, <2>1, <2>2, PlayPartsNext
<1>5. CASE playLoop' = Started
  <2>1. LoopOK' /\ InCurrentList'
    BY <1>1, <1>5, StartedIsFresh, ListsAreSequences DEF LoopOK, InList, InCurrentList,
       PlayingStates
  <2> QED
    BY <1>3, <2>1, PlayPartsNext
<1>6. CASE ReadPlaylist /\ playRows # <<>>
  <2>1. PICK i \in 1..Len(playRows) :
          playLoop' = [Started EXCEPT !.pc = "item", !.list = playRows, !.resume = TRUE, !.i = i]
    <3>1. Len(playRows) \in Nat \ {0} /\ position.index \in Nat \ {0}
      BY <1>1, <1>6, ListsAreSequences DEF RestOK
    <3> DEFINE first == IF position.index <= Len(playRows) THEN position.index ELSE 1
    <3>2. first \in 1..Len(playRows)
      BY <3>1
    <3>3. playLoop' = [Started EXCEPT !.pc = "item", !.list = playRows, !.resume = TRUE, !.i = first]
      BY <1>6 DEF ReadPlaylist
    <3> QED
      BY <3>2, <3>3
  <2>2. playLoop' = [pc |-> "item", list |-> playRows, i |-> i, misses |-> 0, resume |-> TRUE,
                 at |-> 0, frozen |-> FALSE]
    BY <2>1 DEF Started
  <2>3. Len(playRows) \in Nat \ {0} /\ playRows \in Playlists
    BY <1>1, <1>6, ListsAreSequences DEF RestOK
  <2>4. LoopOK'
    BY <1>6, <2>2, <2>3 DEF LoopOK, LoopType, PlaybackState, InList
  <2>5. InCurrentList'
    BY <1>2, <2>2 DEF InCurrentList
  <2> QED
    BY <1>3, <2>4, <2>5, PlayPartsNext
<1>7. CASE BackoffOver /\ playRows # <<>>
  <2>1. playLoop' = [playLoop EXCEPT !.pc = "item", !.misses = 0, !.i = 1] /\ playLoop.pc = "backoff"
    BY <1>7 DEF BackoffOver, LoopAt
  <2>2. playLoop.list # <<>> /\ playLoop.list \in Playlists /\ Len(playLoop.list) \in Nat \ {0}
    BY <1>1, <2>1, ListsAreSequences DEF LoopOK, LoopType, InList
  <2>3. playLoop' = [pc |-> "item", list |-> playLoop.list, i |-> 1, misses |-> 0,
                 resume |-> playLoop.resume, at |-> playLoop.at, frozen |-> playLoop.frozen]
    BY <1>1, <2>1 DEF LoopOK, LoopType
  <2>4. playLoop' \in LoopType
    BY <1>1, <2>2, <2>3 DEF LoopOK, LoopType, PlaybackState
  <2>5. LoopOK'
    BY <2>2, <2>3, <2>4 DEF LoopOK, InList
  <2>6. InCurrentList'
    BY <1>1, <1>2, <2>1, <2>3 DEF InCurrentList
  <2> QED
    BY <1>3, <2>5, <2>6, PlayPartsNext
<1> QED
  BY <1>4, <1>5, <1>6, <1>7 DEF ReadPlaylist, DelayOver, BackoffOver

\* A step within the list that the loop has read
Within(lp) ==
    /\ lp \in LoopType /\ lp.list = playLoop.list
    /\ lp.i \in 1..Len(lp.list) /\ lp.misses <= Len(lp.list)
    /\ lp.pc \in PlayingStates => lp.misses < Len(lp.list)

LEMMA WithinKeeps ==
    ASSUME PlaylistAssumption, PlayInv, playLoop.pc \in PlayingStates, Within(playLoop'),
           UNCHANGED <<playRows, reload, requests>>
    PROVE  LoopOK' /\ InCurrentList'
BY DEF PlayInv, InList, InCurrentList, Within, LoopOK, PlayingStates

LEMMA WithinList ==
    ASSUME LoopOK, Len(playLoop.list) \in Nat, NEW pc \in PlaybackState,
           NEW i \in 1..Len(playLoop.list), NEW m \in 0..Len(playLoop.list),
           pc \in PlayingStates => m < Len(playLoop.list),
           NEW resume \in BOOLEAN, NEW at \in {0, 1}, NEW frozen \in BOOLEAN,
           playLoop' = [pc |-> pc, list |-> playLoop.list, i |-> i, misses |-> m,
                    resume |-> resume, at |-> at, frozen |-> frozen]
    PROVE  Within(playLoop')
BY DEF LoopOK, LoopType, Within

\* The fields of the loop when it skips an item whose file is missing.
Skips(l, m, i) == [l EXCEPT !.misses = m, !.i = i, !.resume = FALSE]

LEMMA SkipFields ==
    ASSUME NEW l \in LoopType, NEW m \in Nat, NEW i \in Nat \ {0}
    PROVE  /\ Skips(l, m, i) \in LoopType /\ Skips(l, m, i).list = l.list
           /\ Skips(l, m, i).i = i /\ Skips(l, m, i).misses = m
BY DEF Skips, LoopType

LEMMA ItemStep ==
    ASSUME PlaylistAssumption, PlayInv,
           \/ MissingFile \/ AllMissing \/ StartItem \/ FadeOver \/ BeginItem
           \/ SavePosition \/ ItemEnds \/ Freeze \/ FrozenDetected
    PROVE  PlayInv'
<1>1. LoopOK /\ RestOK
  BY PlayParts
<1>2. playLoop.pc \in PlayingStates
  BY DEF MissingFile, AllMissing, StartItem, FadeOver, BeginItem, SavePosition, ItemEnds,
         Freeze, FrozenDetected, PlayingStates
<1>3. /\ Item \in Items /\ Item.path \in Paths /\ Item.video \in BOOLEAN
      /\ playLoop.i \in 1..Len(playLoop.list) /\ Len(playLoop.list) \in Nat \ {0}
      /\ Following \in 1..Len(playLoop.list)
  BY <1>2, ItemInList
<1>4. playLoop.misses \in Nat /\ playLoop.misses < Len(playLoop.list)
  BY <1>1, <1>2 DEF LoopOK, LoopType, InList
<1>5. /\ playLoop.pc \in PlaybackState /\ playLoop.resume \in BOOLEAN /\ playLoop.at \in {0, 1}
       /\ playLoop.frozen \in BOOLEAN /\ playLoop.misses \in 0..Len(playLoop.list)
  BY <1>1, <1>3, <1>4 DEF LoopOK, LoopType
<1>6. UNCHANGED <<playRows, files, screenOff, reload, requests, playCrashes>>
  BY DEF MissingFile, AllMissing, StartItem, FadeOver, BeginItem, SavePosition, ItemEnds,
         Freeze, FrozenDetected, playContent, reloads
<1>7. Within(playLoop')
  <2>1. CASE MissingFile \/ AllMissing
    <3>1. CASE MissingFile
      <4>1. /\ playLoop' = Skips(playLoop, playLoop.misses + 1, Following)
            /\ playLoop.misses + 1 < Len(playLoop.list)
        BY <3>1 DEF MissingFile, Skips
      <4>2. playLoop \in LoopType /\ playLoop.misses + 1 \in Nat /\ Following \in Nat \ {0}
        BY <1>1, <1>3, <1>4 DEF LoopOK
      <4>3. /\ playLoop' \in LoopType /\ playLoop'.list = playLoop.list
            /\ playLoop'.i = Following /\ playLoop'.misses = playLoop.misses + 1
        <5> DEFINE m == playLoop.misses + 1
                   i == Following
        <5>1. m \in Nat /\ i \in Nat \ {0} /\ playLoop \in LoopType
          BY <4>2
        <5>2. playLoop' = Skips(playLoop, m, i)
          BY <4>1
        <5> HIDE DEF m, i
        <5>3. /\ playLoop' \in LoopType /\ playLoop'.list = playLoop.list
              /\ playLoop'.i = i /\ playLoop'.misses = m
          BY <5>1, <5>2, SkipFields
        <5> QED
          BY <5>3 DEF m, i
      <4> QED
        BY <1>3, <1>4, <4>1, <4>3 DEF Within
    <3>2. CASE AllMissing
      <4>1. playLoop' = [playLoop EXCEPT !.pc = "backoff", !.misses = playLoop.misses + 1]
        BY <3>2 DEF AllMissing, LoopAt
      <4>2. playLoop' = [pc |-> "backoff", list |-> playLoop.list, i |-> playLoop.i,
                     misses |-> playLoop.misses + 1, resume |-> playLoop.resume, at |-> playLoop.at,
                     frozen |-> playLoop.frozen]
        BY <1>1, <4>1 DEF LoopOK, LoopType
      <4>3. "backoff" \in PlaybackState \ PlayingStates
        BY DEF PlaybackState, PlayingStates
      <4> QED
        BY <1>1, <1>3, <1>4, <4>2, <4>3, WithinList DEF LoopOK, LoopType
    <3> QED
      BY <2>1, <3>1, <3>2
  <2>2. CASE StartItem \/ FadeOver
    <3>1. PICK pc \in {"begin", "fade"}, m \in {0, playLoop.misses} :
            playLoop' = [playLoop EXCEPT !.pc = pc, !.misses = m]
      <4>1. CASE StartItem
        BY <4>1 DEF StartItem, LoopAt
      <4>2. CASE FadeOver
        <5>1. playLoop' = [playLoop EXCEPT !.pc = "begin"]
          BY <4>2 DEF FadeOver, LoopAt
        <5>2. playLoop' = [playLoop EXCEPT !.pc = "begin", !.misses = playLoop.misses]
          BY <1>1, <5>1 DEF LoopOK, LoopType
        <5> QED
          BY <5>2
      <4> QED
        BY <2>2, <4>1, <4>2
    <3>2. playLoop' = [pc |-> pc, list |-> playLoop.list, i |-> playLoop.i, misses |-> m,
                   resume |-> playLoop.resume, at |-> playLoop.at, frozen |-> playLoop.frozen]
      BY <1>1, <3>1 DEF LoopOK, LoopType
    <3>3. pc \in PlaybackState /\ m \in 0..Len(playLoop.list) /\ m < Len(playLoop.list)
      BY <1>3, <1>4 DEF PlaybackState
    <3> QED
      BY <1>5, <1>1, <1>3, <3>2, <3>3, WithinList
  <2>3. CASE BeginItem
    <3>1. position.at \in {0, 1}
      BY <1>1 DEF RestOK
    <3>2. \/ playLoop' = [playLoop EXCEPT !.pc = "wait"]
          \/ \E at \in {0, 1} : playLoop' = [playLoop EXCEPT !.pc = "show", !.at = at]
      BY <2>3, <3>1 DEF BeginItem, LoopAt
    <3>3. PICK pc \in {"wait", "show"}, at \in {0, 1} : playLoop' =
            [pc |-> pc, list |-> playLoop.list, i |-> playLoop.i, misses |-> playLoop.misses,
             resume |-> playLoop.resume, at |-> at, frozen |-> playLoop.frozen]
      BY <1>1, <3>2 DEF LoopOK, LoopType
    <3>4. pc \in PlaybackState
      BY DEF PlaybackState
    <3> QED
      BY <1>1, <1>3, <1>4, <1>5, <3>3, <3>4, WithinList
  <2>4. CASE SavePosition
    <3>1. PICK at \in {0, 1} : playLoop' = [playLoop EXCEPT !.at = at]
      BY <1>1, <2>4 DEF SavePosition, LoopOK, LoopType
    <3>2. playLoop' = [pc |-> playLoop.pc, list |-> playLoop.list, i |-> playLoop.i,
                   misses |-> playLoop.misses, resume |-> playLoop.resume, at |-> at,
                   frozen |-> playLoop.frozen]
      BY <1>1, <3>1 DEF LoopOK, LoopType
    <3> QED
      BY <1>5, <1>1, <1>2, <1>3, <1>4, <3>2, WithinList
  <2>5. CASE ItemEnds \/ FrozenDetected
    <3>1. playLoop' = [playLoop EXCEPT !.pc = "item", !.i = Following, !.resume = FALSE, !.at = 0,
                               !.frozen = FALSE]
      BY <2>5 DEF ItemEnds, FrozenDetected, NextItem, LoopAt
    <3>2. playLoop' = [pc |-> "item", list |-> playLoop.list, i |-> Following,
                   misses |-> playLoop.misses, resume |-> FALSE, at |-> 0, frozen |-> FALSE]
      BY <1>1, <3>1 DEF LoopOK, LoopType
    <3>3. playLoop' \in LoopType
      BY <1>1, <1>3, <1>4, <3>2 DEF LoopOK, LoopType, PlaybackState
    <3> QED
      BY <1>3, <1>4, <3>2, <3>3 DEF Within
  <2>6. CASE Freeze
    BY <1>1, <1>3, <1>4, <2>6 DEF Freeze, Within, LoopOK, LoopType
  <2> QED
    BY <2>1, <2>2, <2>3, <2>4, <2>5, <2>6
<1>8. LoopOK' /\ InCurrentList'
  BY <1>2, <1>6, <1>7, WithinKeeps
<1>9. RestOK'
  <2>1. shown' \in Paths \union {NoPath} /\ alpha' \in {0, 1} /\ playing' \in BOOLEAN
    BY <1>1, <1>3
       DEF RestOK, MissingFile, AllMissing, StartItem, FadeOver, BeginItem, SavePosition,
           ItemEnds, Freeze, FrozenDetected, screen
  <2>2. position' \in [index : Nat \ {0}, at : {0, 1}] /\ left' \in Items \union {NoPath}
    <3>1. CASE SavePosition
      <4>1. PICK at \in {0, 1} : position' = [index |-> playLoop.i, at |-> at] /\ left' = Item
        BY <1>1, <3>1 DEF SavePosition, LoopOK, LoopType
      <4> QED
        BY <1>3, <4>1
    <3>2. CASE ItemEnds \/ FrozenDetected
      <4>1. position' = [index |-> Following, at |-> 0] /\ left' = NoPath
        BY <3>2 DEF ItemEnds, FrozenDetected, NextItem
      <4> QED
        BY <1>3, <4>1
    <3>3. CASE UNCHANGED <<position, left>>
      BY <1>1, <3>3 DEF RestOK
    <3> QED
      BY <3>1, <3>2, <3>3
         DEF MissingFile, AllMissing, StartItem, FadeOver, BeginItem, Freeze
  <2> QED
    BY <1>1, <1>6, <2>1, <2>2 DEF RestOK
<1> QED
  BY <1>8, <1>9, PlayPartsNext

-----------------------------------------------------------------------------

LEMMA ReloadSteps ==
    ASSUME PlaylistAssumption, PlayInv, ReloadStep \/ ReloadTimesOut
    PROVE  PlayInv'
<1>1. LoopOK /\ RestOK /\ InCurrentList
  BY PlayParts
<1>2. CASE (\E kind \in ReloadKinds : TakeReload(kind)) \/ GraceOver
  <2>1. /\ UNCHANGED <<playRows, files, playLoop, position, left, shown, alpha, playing,
                       screenOff, playCrashes>>
        /\ reload' \in {"grace", "cancel", "command"} /\ requests' \subseteq requests
        /\ reload' = "command" => reload = "none" /\ requests' = requests \ {"command"}
    BY <1>2 DEF TakeReload, GraceOver, playContent, screen
  <2>2. LoopOK' /\ RestOK' /\ InCurrentList'
    BY <1>1, <2>1 DEF LoopOK, InList, RestOK, InCurrentList
  <2> QED
    BY <2>2, PlayPartsNext
<1>3. CASE Restart
  <2>1. /\ UNCHANGED <<playRows, files, position, left, shown, alpha, screenOff, requests,
                       playCrashes>>
        /\ reload' = "none" /\ playLoop' = Started /\ playing' \in BOOLEAN
    BY <1>3 DEF Restart, StopsVideo, playContent, screen
  <2>2. LoopOK' /\ InCurrentList'
    BY <2>1, StartedIsFresh, ListsAreSequences DEF LoopOK, InList, InCurrentList,
       PlayingStates, Started
  <2>3. RestOK'
    BY <1>1, <2>1 DEF RestOK
  <2> QED
    BY <2>2, <2>3, PlayPartsNext
<1>4. CASE ReloadTimesOut
  <2>1. /\ UNCHANGED <<playRows, files, position, left, shown, alpha, screenOff, playCrashes>>
        /\ requests' \subseteq requests /\ playing' \in BOOLEAN
    BY <1>1, <1>4 DEF ReloadTimesOut, StopsVideo, RestOK, playContent, screen
  <2>2. CASE requests' = requests \ {"command"} /\ UNCHANGED <<reload, playLoop>>
    <3>1. LoopOK' /\ RestOK' /\ InCurrentList'
      BY <1>1, <2>1, <2>2 DEF LoopOK, InList, RestOK, InCurrentList
    <3> QED
      BY <3>1, PlayPartsNext
  <2>3. CASE reload' = "none" /\ playLoop' = LoopAt("cancelled")
    <3>1. LoopOK'
      BY <1>1, <2>3 DEF LoopAt, LoopOK, LoopType, PlaybackState, InList, PlayingStates
    <3>2. InCurrentList'
      BY <1>1, <2>3 DEF LoopAt, LoopOK, LoopType, InCurrentList, PlayingStates
    <3>3. RestOK'
      BY <1>1, <2>1, <2>3 DEF RestOK
    <3> QED
      BY <3>1, <3>2, <3>3, PlayPartsNext
  <2> QED
    BY <1>4, <2>2, <2>3 DEF ReloadTimesOut
<1> QED
  BY <1>2, <1>3, <1>4 DEF ReloadStep

\* Syncs, commands and lost files; who replaces the rows asks for a reload or
\* leaves none.
LEMMA ContentStep ==
    ASSUME PlaylistAssumption, PlayInv,
           \/ \E l \in Playlists \ {<<>>} : Sync(l)
           \/ ContentCleared \/ ForceRefreshed \/ ContentReset \/ LoseFile \/ SwitchScreen
    PROVE  PlayInv'
<1>1. LoopOK /\ RestOK /\ InCurrentList
  BY PlayParts
<1>2. UNCHANGED <<playLoop, position, left, shown, alpha, reload, playCrashes>>
  BY DEF Sync, ContentCleared, ForceRefreshed, ContentReset, LoseFile, SwitchScreen, screen, reloads
<1>3. playRows' \in Playlists /\ files' \subseteq Paths
  <2>1. ASSUME NEW l \in Playlists, Sync(l)
        PROVE  playRows' \in Playlists /\ files' \subseteq Paths
    <3>1. PathsOf(l) \subseteq Paths
      BY ListsAreSequences DEF PathsOf
    <3> QED
      BY <2>1, <3>1 DEF Sync
  <2> QED
    BY <1>1, <2>1
       DEF RestOK, ContentCleared, ForceRefreshed, ContentReset, LoseFile, SwitchScreen, playContent,
           PlaylistAssumption
<1>4. playing' \in BOOLEAN /\ screenOff' \in BOOLEAN /\ requests' \subseteq ReloadKinds
  BY <1>1 DEF RestOK, ReloadKinds, Sync, ContentCleared, ForceRefreshed, ContentReset, LoseFile, SwitchScreen, Requested,
     reloads
<1>5. InCurrentList'
  <2>1. \/ "graceful" \in requests' \/ playRows' = <<>>
        \/ UNCHANGED playRows /\ requests \subseteq requests'
    BY DEF Sync, ContentCleared, ForceRefreshed, ContentReset, LoseFile, SwitchScreen, Requested,
       playContent, reloads
  <2> QED
    BY <1>1, <1>2, <2>1 DEF InCurrentList
<1>6. LoopOK' /\ RestOK'
  BY <1>1, <1>2, <1>3, <1>4 DEF LoopOK, InList, RestOK
<1> QED
  BY <1>5, <1>6, PlayPartsNext

LEMMA PlayCrashStep == ASSUME PlaylistAssumption, PlayInv, PlaybackCrash PROVE PlayInv'
<1>1. RestOK
  BY PlayParts
<1>2. MaxPlayCrashes \in Nat
  BY DEF PlaylistAssumption
<1>3. playCrashes' \in 0..MaxPlayCrashes
  BY <1>1, <1>2 DEF RestOK, PlaybackCrash
<1>4. requests' \subseteq ReloadKinds /\ ~(requests' \subseteq {"command"})
  BY DEF PlaybackCrash, ReloadKinds
<1>5. RestOK'
  BY <1>1, <1>3, <1>4 DEF RestOK, PlaybackCrash, playContent
<1>6. LoopOK' /\ InCurrentList'
  BY <1>4, StartedIsFresh DEF PlaybackCrash, LoopOK, InList, InCurrentList, PlayingStates,
     Started
<1> QED
  BY <1>5, <1>6, PlayPartsNext

LEMMA PlayStutters == PlayInv /\ UNCHANGED playVars => PlayInv'
BY DEF PlayInv, PlaybackTypeOK, InList, InCurrentList, playVars

LEMMA PlayInvariant == ASSUME PlaylistAssumption PROVE PlaybackSpec => []PlayInv
<1>1. PlayInv /\ [PlaybackNext]_playVars => PlayInv'
  BY ReadStep, ItemStep, ReloadSteps, ContentStep, PlayCrashStep,
     PlayStutters DEF PlaybackNext, PlaybackStep
<1> QED
  BY <1>1, InitKeeps, PTL DEF PlaybackSpec

(***************************************************************************)
(* The loop, its position and its reloads keep their types: an index that  *)
(* was saved for a longer playlist, a file that disappears or a frozen     *)
(* decoder never takes the loop beyond the end of its list.                *)
(***************************************************************************)
THEOREM LoopTypeCorrect == ASSUME PlaylistAssumption PROVE PlaybackSpec => []PlaybackTypeOK
<1>1. PlayInv => PlaybackTypeOK
  BY DEF PlayInv
<1> QED
  BY <1>1, PlayInvariant, PTL

(***************************************************************************)
(* Once no reload is due, what is shown is of the playlist in the database *)
(* (or a factory reset has emptied it): however syncs, commands and        *)
(* restarts cut into the loop, no replaced playlist goes on playing.       *)
(***************************************************************************)
THEOREM CurrentIsShown ==
    ASSUME PlaylistAssumption
    PROVE  PlaybackSpec => []ShowsCurrentPlaylist
<1>1. PlayInv => ShowsCurrentPlaylist
  BY DEF PlayInv, InCurrentList, PlayingStates, ShowsCurrentPlaylist
<1> QED
  BY <1>1, PlayInvariant, PTL
=============================================================================
