------------------------------ MODULE Playback ------------------------------
(***************************************************************************)
(* What the player shows (mediaplayer/PlaybackCoordinator.kt): the loop    *)
(* over the playlist with its crossfade, its back-off for missing files    *)
(* and its watchdog for frozen decoders, the saved position, and reloads.  *)
(*                                                                         *)
(* The loop and its helpers run on the main thread: an action is the code  *)
(* from one suspension to the next.  The position in an item is 0 at its   *)
(* start and 1 once it has been saved midway.  Web pages play like images  *)
(* that always exist and are left out; so are the reports of what plays.   *)
(***************************************************************************)
EXTENDS Naturals, Sequences

CONSTANTS
    Playlists,       \* sequences of items, the empty one among them
    MaxPlayCrashes,  \* bound: restarts of the player
    NoPath           \* nothing is shown

\* An item has a path, a media id and tells whether it is a video.
Items == UNION {{l[i] : i \in 1..Len(l)} : l \in Playlists}
Paths == {it.path : it \in Items}
PathsOf(l) == {l[i].path : i \in 1..Len(l)}

PlaylistAssumption ==
    /\ <<>> \in Playlists /\ Playlists \subseteq Seq(Items)
    /\ \A it \in Items : it.video \in BOOLEAN
    /\ NoPath \notin Paths
    /\ MaxPlayCrashes \in Nat

VARIABLES
    playRows,        \* the playlist_items table
    files,           \* paths whose file exists
    playLoop,        \* playbackLoop and the item it is at
    position,        \* PlaybackStateStore: index and position
    left,            \* history: the item that position belongs to
    shown,           \* currentMediaFilePath
    alpha,           \* transitionAlpha
    playing,         \* playWhenReady of the player
    screenOff,
    reload,          \* the reload that holds reloadMutex
    requests,        \* reloads waiting for it
    playCrashes

playVars == <<playRows, files, playLoop, position, left, shown, alpha, playing,
              screenOff, reload, requests, playCrashes>>
playContent == <<playRows, files>>
screen == <<shown, alpha>>
reloads == <<reload, requests>>

PlaybackState == {"none", "read", "wait", "item", "fade", "begin", "show", "backoff",
                  "cancelled"}
Started == [pc |-> "read", list |-> <<>>, i |-> 1, misses |-> 0,
            resume |-> FALSE, at |-> 0, frozen |-> FALSE]
Item == playLoop.list[playLoop.i]
Following == (playLoop.i % Len(playLoop.list)) + 1
LoopAt(pc) == [playLoop EXCEPT !.pc = pc]
Active == playLoop.pc \notin {"none", "cancelled"}

PlaybackInit ==
    /\ playRows = <<>> /\ files = {}
    /\ playLoop = [Started EXCEPT !.pc = "none"]
    /\ position = [index |-> 1, at |-> 0] /\ left = NoPath
    /\ shown = NoPath /\ alpha = 1
    /\ playing = FALSE /\ screenOff = FALSE
    /\ reload = "none" /\ requests = {"plain"}
    /\ playCrashes = 0

-----------------------------------------------------------------------------
(* The loop                                                                *)

ReadPlaylist ==
    /\ playLoop.pc = "read"
    /\ IF playRows = <<>>
       THEN playLoop' = LoopAt("wait") /\ shown' = NoPath
       ELSE /\ playLoop' = [Started EXCEPT !.pc = "item", !.list = playRows, !.resume = TRUE,
                          !.i = IF position.index <= Len(playRows)
                                THEN position.index ELSE 1]
            /\ UNCHANGED shown
    /\ UNCHANGED <<playContent, position, left, alpha, playing, screenOff, reloads,
                   playCrashes>>

\* playbackLoop starts over 30 seconds after an empty playlist or an error.
DelayOver ==
    /\ playLoop.pc = "wait"
    /\ playLoop' = Started
    /\ UNCHANGED <<playContent, position, left, screen, playing, screenOff, reloads,
                   playCrashes>>

MissingFile ==
    /\ playLoop.pc = "item" /\ Item.path \notin files
    /\ playLoop.misses + 1 < Len(playLoop.list)
    /\ playLoop' = [playLoop EXCEPT !.misses = @ + 1, !.i = Following, !.resume = FALSE]
    /\ UNCHANGED <<playContent, position, left, screen, playing, screenOff, reloads,
                   playCrashes>>

AllMissing ==
    /\ playLoop.pc = "item" /\ Item.path \notin files
    /\ playLoop.misses + 1 >= Len(playLoop.list)
    /\ playLoop' = [LoopAt("backoff") EXCEPT !.misses = @ + 1]
    /\ shown' = NoPath
    /\ UNCHANGED <<playContent, position, left, alpha, playing, screenOff, reloads,
                   playCrashes>>

\* The playlist is read again, and only whether it is empty is used.
BackoffOver ==
    /\ playLoop.pc = "backoff"
    /\ playLoop' = IF playRows = <<>> THEN LoopAt("wait")
               ELSE [LoopAt("item") EXCEPT !.misses = 0, !.i = 1]
    /\ UNCHANGED <<playContent, position, left, screen, playing, screenOff, reloads,
                   playCrashes>>

\* No crossfade to the file that is shown already.
StartItem ==
    /\ playLoop.pc = "item" /\ Item.path \in files
    /\ IF shown = Item.path
       THEN playLoop' = [LoopAt("begin") EXCEPT !.misses = 0] /\ UNCHANGED alpha
       ELSE playLoop' = [LoopAt("fade") EXCEPT !.misses = 0] /\ alpha' = 0
    /\ UNCHANGED <<playContent, position, left, shown, playing, screenOff, reloads,
                   playCrashes>>

FadeOver ==
    /\ playLoop.pc = "fade"
    /\ playLoop' = LoopAt("begin")
    /\ shown' = Item.path /\ alpha' = 1
    /\ playing' = (playing /\ Item.video)
    /\ UNCHANGED <<playContent, position, left, screenOff, reloads, playCrashes>>

\* setSingleVideo refuses a file that has disappeared; the observer of the
\* screen state pauses a video that starts while the screen is off.
BeginItem ==
    /\ playLoop.pc = "begin"
    /\ IF Item.video /\ Item.path \notin files
       THEN playLoop' = LoopAt("wait") /\ UNCHANGED playing
       ELSE /\ playLoop' = [LoopAt("show") EXCEPT
                          !.at = IF playLoop.resume /\ position.index = playLoop.i
                                 THEN position.at ELSE 0]
            /\ playing' = (Item.video /\ ~screenOff)
    /\ UNCHANGED <<playContent, position, left, screen, screenOff, reloads,
                   playCrashes>>

\* Every five seconds, also while a video does not move.
SavePosition ==
    /\ playLoop.pc = "show"
    /\ position' = [index |-> playLoop.i,
                 at |-> IF Item.video /\ (~playing \/ playLoop.frozen)
                        THEN playLoop.at ELSE 1]
    /\ left' = Item
    /\ playLoop' = [playLoop EXCEPT !.at = position'.at]
    /\ UNCHANGED <<playContent, screen, playing, screenOff, reloads, playCrashes>>

NextItem ==
    /\ playLoop' = [LoopAt("item") EXCEPT !.i = Following, !.resume = FALSE, !.at = 0,
                                  !.frozen = FALSE]
    /\ position' = [index |-> Following, at |-> 0]
    /\ left' = NoPath

\* The display time is over, the video has ended or failed.
ItemEnds ==
    /\ playLoop.pc = "show"
    /\ Item.video => playing /\ ~playLoop.frozen
    /\ NextItem
    /\ UNCHANGED <<playContent, screen, playing, screenOff, reloads, playCrashes>>

Freeze ==
    /\ playLoop.pc = "show" /\ Item.video /\ playing
    /\ playLoop' = [playLoop EXCEPT !.frozen = TRUE]
    /\ UNCHANGED <<playContent, position, left, screen, playing, screenOff, reloads,
                   playCrashes>>

\* Mutant: the watchdog reports the frozen decoder and waits.
FrozenReported ==
    /\ playLoop.pc = "show" /\ playLoop.frozen /\ playing
    /\ playing' = FALSE
    /\ UNCHANGED <<playContent, playLoop, position, left, screen, screenOff, reloads,
                   playCrashes>>

\* The position has not moved for a minute although the video should play.
FrozenDetected ==
    /\ playLoop.pc = "show" /\ playLoop.frozen /\ playing
    /\ playing' = FALSE
    /\ NextItem
    /\ UNCHANGED <<playContent, screen, screenOff, reloads, playCrashes>>

-----------------------------------------------------------------------------
(* Reloads                                                                 *)

\* "plain" at the start, "graceful" by a sync, "command" by a command, whose
\* handler has a timeout.
ReloadKinds == {"plain", "graceful", "command"}
Requested(kind) == requests' = requests \union {kind}

TakeReload(kind) ==
    /\ reload = "none" /\ kind \in requests
    /\ requests' = requests \ {kind}
    /\ reload' = CASE kind = "graceful" /\ Active -> "grace"
                   [] kind = "command" -> "command"
                   [] OTHER -> "cancel"
    /\ UNCHANGED <<playContent, playLoop, position, left, screen, playing, screenOff,
                   playCrashes>>

\* The loop never ends by itself, so join() only returns by the timeout.
GraceOver ==
    /\ reload = "grace"
    /\ reload' = "cancel"
    /\ UNCHANGED <<playContent, playLoop, position, left, screen, playing, screenOff,
                   requests, playCrashes>>

\* Mutant: a loop that is active is left alone, as if it read the rows again.
RestartIfIdle ==
    /\ reload \in {"cancel", "command"}
    /\ reload' = "none"
    /\ playLoop' = IF playLoop.pc \in {"none", "wait", "backoff", "cancelled"} THEN Started ELSE playLoop
    /\ UNCHANGED <<playContent, position, left, screen, playing, screenOff, requests,
                   playCrashes>>

\* cancelAndJoin.  A crossfade that is cancelled stays where it is: its
\* handler calls withContext, which throws at once in a cancelled coroutine.
\* A video is paused.
StopsVideo == playing' = (playing /\ ~(playLoop.pc = "show" /\ Item.video))
Restart ==
    /\ reload \in {"cancel", "command"}
    /\ reload' = "none"
    /\ playLoop' = Started
    /\ StopsVideo
    /\ UNCHANGED <<playContent, position, left, screen, screenOff, requests,
                   playCrashes>>

\* withTimeoutOrNull around the command: it waits for the mutex no longer, or
\* it has cancelled the loop and gives up while it joins it, so that no loop is
\* left until the next reload.
ReloadTimesOut ==
    /\ \/ /\ "command" \in requests
          /\ requests' = requests \ {"command"}
          /\ UNCHANGED <<reload, playLoop, playing>>
       \/ /\ reload = "command"
          /\ reload' = "none" /\ playLoop' = LoopAt("cancelled")
          /\ StopsVideo
          /\ UNCHANGED requests
    /\ UNCHANGED <<playContent, position, left, screen, screenOff, playCrashes>>

-----------------------------------------------------------------------------
(* The rest of the player                                                  *)

\* A sync has replaced files and rows and reloads.
Sync(l) ==
    /\ playRows # l \/ files # PathsOf(l)
    /\ playRows' = l /\ files' = PathsOf(l)
    /\ Requested("graceful")
    /\ UNCHANGED <<playLoop, position, left, screen, playing, screenOff, reload,
                   playCrashes>>

\* CLEAR_CACHE
ContentCleared ==
    /\ playRows' = <<>> /\ files' = {}
    /\ Requested("command")
    /\ UNCHANGED <<playLoop, position, left, screen, playing, screenOff, reload,
                   playCrashes>>

\* FORCE_REFRESH of a table that has rows; ContentSync has the others.
ForceRefreshed ==
    /\ playRows # <<>>
    /\ Requested("command")
    /\ UNCHANGED <<playContent, playLoop, position, left, screen, playing, screenOff, reload,
                   playCrashes>>

\* FACTORY_RESET pauses the player and does not reload.
ContentReset ==
    /\ playRows' = <<>> /\ files' = {}
    /\ playing' = FALSE
    /\ UNCHANGED <<playLoop, position, left, screen, screenOff, reloads, playCrashes>>

\* A file a concurrent command has removed.
LoseFile ==
    /\ \E p \in files : files' = files \ {p}
    /\ UNCHANGED <<playRows, playLoop, position, left, screen, playing, screenOff,
                   reloads, playCrashes>>

\* SCREEN_ON, SCREEN_OFF and the operating hours; a video follows.
SwitchScreen ==
    /\ screenOff' = ~screenOff
    /\ playing' = IF playLoop.pc = "show" /\ Item.video THEN screenOff ELSE playing
    /\ UNCHANGED <<playContent, playLoop, position, left, screen, reloads, playCrashes>>

PlaybackCrash ==
    /\ playCrashes < MaxPlayCrashes
    /\ playCrashes' = playCrashes + 1
    /\ playLoop' = [Started EXCEPT !.pc = "none"]
    /\ shown' = NoPath /\ alpha' = 1
    /\ playing' = FALSE /\ screenOff' = FALSE
    /\ reload' = "none" /\ requests' = {"plain"}
    /\ UNCHANGED <<playContent, position, left>>

-----------------------------------------------------------------------------

PlaybackStep ==
    \/ ReadPlaylist \/ DelayOver \/ MissingFile \/ AllMissing \/ BackoffOver
    \/ StartItem \/ FadeOver \/ BeginItem \/ ItemEnds \/ FrozenDetected

ReloadStep ==
    (\E kind \in ReloadKinds : TakeReload(kind)) \/ GraceOver \/ Restart

PlaybackNext ==
    \/ PlaybackStep \/ SavePosition \/ Freeze \/ ReloadStep
    \/ \E l \in Playlists \ {<<>>} : Sync(l)
    \/ ReloadTimesOut \/ ForceRefreshed
    \/ ContentCleared \/ ContentReset \/ LoseFile \/ SwitchScreen \/ PlaybackCrash

PlaybackSpec == PlaybackInit /\ [][PlaybackNext]_playVars

\* The coroutines run and their delays end.
PlaybackFairSpec == PlaybackSpec /\ WF_playVars(PlaybackStep) /\ WF_playVars(ReloadStep)

-----------------------------------------------------------------------------
(* Properties                                                              *)

PlaybackTypeOK ==
    /\ playRows \in Playlists /\ files \subseteq Paths
    /\ playLoop \in [pc : PlaybackState, list : Playlists, i : Nat \ {0}, misses : Nat,
                 resume : BOOLEAN, at : {0, 1}, frozen : BOOLEAN]
    /\ playLoop.list # <<>> => playLoop.i \in 1..Len(playLoop.list)
    /\ playLoop.misses <= Len(playLoop.list)
    /\ position \in [index : Nat \ {0}, at : {0, 1}]
    /\ left \in Items \union {NoPath}
    /\ shown \in Paths \union {NoPath} /\ alpha \in {0, 1}
    /\ playing \in BOOLEAN /\ screenOff \in BOOLEAN
    /\ reload \in {"none", "grace", "cancel", "command"}
    /\ requests \subseteq ReloadKinds
    /\ playCrashes \in 0..MaxPlayCrashes

\* Once no reload is due, an item that is shown is one of the current
\* playlist, unless a factory reset has emptied it under the loop.
ShowsCurrentPlaylist ==
    requests = {} /\ reload = "none" /\ playLoop.pc = "show" /\ playRows # <<>>
      => playLoop.list = playRows

Shows(it) == playLoop.pc = "show" /\ playLoop.list = playRows /\ Item = it

\* Every item whose file exists is shown again and again once reloads cease
\* and the screen stays on: missing files, frozen decoders, a saved index
\* beyond the end and an earlier reset of the player do not stop the tour; a
\* command that times out while it restarts the loop does, until the next reload.
EveryItemShown ==
    \A l \in Playlists : \A i \in 1..Len(l) :
      <>[](playRows = l /\ l[i].path \in files /\ ~screenOff /\ requests = {}
           /\ playLoop.pc # "cancelled")
        => []<>Shows(l[i])

\* "If the playback job is cancelled mid-transition the alpha is reset to 1f so
\* the UI is never left in a transparent state."  A cancelled coroutine cannot
\* reset it, and the next loop does not fade to the file it finds shown.
NeverLeftTransparent == playLoop.pc = "show" => alpha = 1

\* "Restore mid-image position if returning to this item after a restart": the
\* saved position has an index only, and the playlist may have another item there.
ResumesItemItLeft ==
    [][BeginItem /\ playLoop'.pc = "show" /\ playLoop'.at = 1 => Item = left]_playVars

\* gracefulReload: "Waits up to gracePeriodMs for the current item to finish
\* naturally, then restarts the playback loop".  The loop does not end with the
\* item; the next one of the old playlist starts and is cut off.
GraceEndsWithItem == [][StartItem => reload # "grace"]_playVars
=============================================================================
