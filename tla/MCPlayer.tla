---------------------------- MODULE MCPlayer ----------------------------
(* The player on small instances, side by side: one part moves and the     *)
(* others stay in an initial state.                                        *)
(*   session   PlayerSession, with the pairing endpoints it calls          *)
(*   attended  PlayerSession with somebody in front of the screen          *)
(*   sync      ContentSync: two versions of one playlist whose file keeps  *)
(*             its name, and a playlist with two files                     *)
(*   playback  Playback: a video and an image, and a playlist with another *)
(*             video in the file of the first                              *)
(*   ui        PlayerUi: a video and a web page                            *)
EXTENDS PlayerSession, ContentSync, Playback, TLC

CONSTANTS Parts, old, new, other, video, page, AlwaysOn, Unreadable
VARIABLES
    part,
    ui, call, uiPlaying, fade, restore, config, day, slot, uiCommands, uiCrashes, overlaps

uiVars == <<ui, call, uiPlaying, fade, restore, config, day, slot, uiCommands, uiCrashes,
            overlaps>>
allVars == <<part, vars, syncVars, playVars, uiVars>>

File(name, media, sum) == [name |-> name, media |-> media, sum |-> sum]
ContentOf == Unassigned :> <<>>
          @@ old :> <<File("0-a", 1, 1)>>
          @@ new :> <<File("0-a", 2, 2)>>
          @@ other :> <<File("0-b", 3, 1), File("1-c", 4, 1)>>
Ids == Unassigned :> "" @@ old :> "p" @@ new :> "p" @@ other :> "q"
Versions == Unassigned :> 0 @@ old :> 1 @@ new :> 2 @@ other :> 1

Video(m) == [path |-> "0-v.mp4", media |-> m, video |-> TRUE]
Image == [path |-> "1-i.png", media |-> 2, video |-> FALSE]
Lists == {<<>>, <<Video(1), Image>>, <<Video(3)>>}

Open(s, e) == [enabled |-> TRUE, start |-> s, end |-> e]
Closed == [enabled |-> FALSE, start |-> 0, end |-> 0]
(* The space's hours, a night on the first day only, hours that do not parse. *)
Hours == {AlwaysOn, Unreadable, [d \in 0..1 |-> Open(1, 2)],
          [d \in 0..1 |-> IF d = 0 THEN Open(2, 1) ELSE Closed]}
Ui == INSTANCE PlayerUi WITH
    Items <- {video, page}, WebItems <- {page}, Configs <- Hours, Days <- 2, Slots <- 3,
    Angles <- {90}, MaxCommands <- 1, MaxCrashes <- 1, MaxOverlaps <- 1,
    playing <- uiPlaying, commands <- uiCommands, crashes <- uiCrashes

ASSUME /\ PayloadAssumption /\ BoundsAssumption /\ PlaylistAssumption
       /\ Ui!ItemAssumption /\ Ui!ClockAssumption /\ Ui!ConfigAssumption

PlayerInit ==
    /\ part \in Parts
    /\ Init /\ (part \notin {"session", "attended"} => proof = CHOOSE f \in Proofs : TRUE)
    /\ SyncInit /\ PlaybackInit /\ Ui!Init

Moves(p) ==
    /\ part = p /\ UNCHANGED part
    /\ p \notin {"session", "attended"} => UNCHANGED vars
    /\ p # "sync" => UNCHANGED syncVars
    /\ p # "playback" => UNCHANGED playVars
    /\ p # "ui" => UNCHANGED uiVars

PlayerNext ==
    \/ Moves("session") /\ Next
    \/ Moves("attended") /\ Next /\ faults' <= 1
    \/ Moves("sync") /\ SyncNext /\ syncFaults' + commands' <= 1
    \/ Moves("playback") /\ PlaybackNext
    \/ Moves("ui") /\ Ui!Next

PlayerSpec == PlayerInit /\ [][PlayerNext]_allVars

(* The fairness of each part, for as long as it is the part that moves.    *)
ContentFairSpec ==
    /\ PlayerSpec
    /\ WF_syncVars(part = "sync" /\ SyncStep)
    /\ WF_syncVars(part = "sync" /\ CommandStep)
    /\ WF_syncVars(part = "sync" /\ \E p \in Payloads : Take(p))
    /\ WF_syncVars(part = "sync" /\ Connect)
    /\ WF_syncVars(part = "sync" /\ PushOnConnect)
    /\ WF_playVars(part = "playback" /\ PlaybackStep)
    /\ WF_playVars(part = "playback" /\ ReloadStep)

Sessions == part \in {"session", "attended"}
ScreenFairSpec ==
    /\ PlayerSpec
    /\ WF_vars(Sessions /\ WaitOver) /\ WF_vars(Sessions /\ Boot)
    /\ WF_vars(Sessions /\ Collect) /\ WF_vars(Sessions /\ LinkAuthenticates)
    /\ \A p \in Procs : WF_vars(Sessions /\ BackendStep(p))
    /\ \A t \in Ui!Threads : WF_uiVars(part = "ui" /\ Ui!Return(t))
    /\ SF_allVars(\/ (Moves("session") \/ Moves("attended")) /\ PlayerStep
                  \/ Moves("ui") /\ Ui!Playback)
    /\ SF_allVars(\/ (Moves("session") \/ Moves("attended")) /\ LinkJoins
                  \/ Moves("ui") /\ Ui!RestorePage)
    /\ SF_allVars(\/ (Moves("session") \/ Moves("attended")) /\ Expires
                  \/ Moves("ui") /\ Ui!HoursTick)
    /\ SF_vars(Sessions /\ \E p \in Procs : SessionUnpaired(p, FALSE))
    /\ SF_vars(part = "attended" /\ \E p \in Procs, t \in Tenants : UserConfirmsShown(p, t))

Symmetry == Permutations(Proofs) \union Permutations(Procs)

-----------------------------------------------------------------------------
(* What the parts promise; PlayerSession, ContentSync and Playback state    *)
(* most of it under the names the configurations use.                      *)

\* A player whose device is owned joins its room, one whose device was removed
\* goes back to pairing, and with somebody who types the code that is shown the
\* pairing completes.
SessionSettles ==
    /\ OwnedEventuallyJoined
    /\ RemovedEventuallyUnpaired
    /\ part = "attended" => PairingCompletes

\* The working hours prevail over commands that show or hide the player, whose
\* windows leave no moment undecided, and a player called to the front comes
\* into view.
ScreenSettles ==
    /\ [](Ui!TypeOK /\ Ui!WindowsComplement)
    /\ part = "ui" => Ui!HoursPrevail
    /\ part = "ui" => Ui!ComesIntoView
=============================================================================
