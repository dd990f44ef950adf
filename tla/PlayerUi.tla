------------------------------ MODULE PlayerUi ------------------------------
(***************************************************************************)
(* What the player's screen shows (ui/PlayerUiStateStore.kt) and who writes*)
(* it: the playback coroutine and the recovery of a crashed web page on the*)
(* main thread, the commands on a thread of the socket, and the loop that  *)
(* applies the operating hours on another.                                 *)
(*                                                                         *)
(* Every setter of the store reads the whole state, changes one field of   *)
(* the copy and writes the copy back, without a lock: a call is a Call and *)
(* a Return of its thread, and the calls of two threads interleave.        *)
(*                                                                         *)
(* Time is a day and a slot of it; a schedule opens a window per day.      *)
(***************************************************************************)
EXTENDS Naturals

CONSTANTS
    Items,           \* the playlist, which the coroutine plays round and round
    WebItems,        \* its items that are web pages
    Configs,         \* operating hours a user may set
    Days, Slots,     \* the clock: Days days of Slots slots each
    Angles,          \* orientations
    MaxCommands,     \* bound: commands
    MaxCrashes,      \* bound: crashes of the web renderer and of the process
    MaxOverlaps,     \* bound: setters called while another thread is in one
    AlwaysOn, Unreadable, Nothing

ItemAssumption == WebItems \subseteq Items /\ Nothing \notin Items
ClockAssumption == Days \in Nat \ {0} /\ Slots \in Nat \ {0}

Day == 0..Days-1
Slot == 0..Slots-1
\* A day's entry of the schedule; the file has one of them per day.
Entry == [enabled : BOOLEAN, start : Slot, end : Slot]
Config == [Day -> Entry] \union {AlwaysOn, Unreadable}

ConfigAssumption == Configs \subseteq Config

VARIABLES
    ui,              \* the state of PlayerUiStateStore
    call,            \* the setter each thread is in
    playing,         \* the item the playback coroutine is at
    fade,            \* where its crossfade is
    restore,         \* the path the recovery of a web page will show again
    config,          \* OperatingHoursStore: survives a restart
    day, slot,       \* the wall clock
    commands, crashes, overlaps

clock == <<day, slot>>
budget == <<commands, crashes>>
vars == <<ui, call, playing, fade, restore, config, clock, budget, overlaps>>

Threads == {"main", "command", "hours"}
Ui == [media : Items \union {Nothing}, bright : BOOLEAN, off : BOOLEAN,
       angle : Angles \union {0}]
Fresh == [media |-> Nothing, bright |-> TRUE, off |-> FALSE, angle |-> 0]
Fades == {"steady", "dark", "swapped"}

(***************************************************************************)
(* OperatingHoursManager                                                   *)
(***************************************************************************)

Within(now, start, end) ==
    \/ start = end
    \/ start < end /\ start <= now /\ now < end
    \/ end < start /\ (start <= now \/ now < end)

\* Only today's entry is looked up; an error leaves the screen on.
Outside(c) ==
    /\ c \notin {AlwaysOn, Unreadable}
    /\ ~(c[day].enabled /\ Within(slot, c[day].start, c[day].end))

(***************************************************************************)
(* The setters of the store                                                *)
(***************************************************************************)
Free(t) == call[t] = Nothing
Overlapping == \E t \in Threads : ~Free(t)
Calls(t, copy) ==
    /\ Free(t) /\ call' = [call EXCEPT ![t] = copy]
    /\ Overlapping => overlaps < MaxOverlaps
    /\ overlaps' = IF Overlapping THEN overlaps + 1 ELSE overlaps

Return(t) ==
    /\ ~Free(t)
    /\ ui' = call[t]
    /\ call' = [call EXCEPT ![t] = Nothing]
    /\ UNCHANGED <<playing, fade, restore, config, clock, budget, overlaps>>

(***************************************************************************)
(* The main thread                                                         *)
(***************************************************************************)
Init ==
    /\ ui = Fresh /\ call = [t \in Threads |-> Nothing]
    /\ playing = Nothing /\ fade = "steady" /\ restore = Nothing
    /\ config = AlwaysOn /\ day = 0 /\ slot = 0
    /\ commands = 0 /\ crashes = 0 /\ overlaps = 0

\* The loop goes to its next item, with a fade if another file is shown.
NextItem(i) ==
    /\ fade = "steady" /\ i # playing
    /\ playing' = i
    /\ fade' = IF ui.media = i THEN "steady" ELSE "dark"
    /\ Calls("main", IF ui.media = i THEN [ui EXCEPT !.media = i]
                                     ELSE [ui EXCEPT !.bright = FALSE])
    /\ UNCHANGED <<ui, restore, config, clock, budget>>

Swap ==
    /\ fade = "dark" /\ fade' = "swapped"
    /\ Calls("main", [ui EXCEPT !.media = playing])
    /\ UNCHANGED <<ui, playing, restore, config, clock, budget>>

\* Mutant: the new item is not faded in.
FadeInForgotten ==
    /\ fade = "swapped" /\ fade' = "steady"
    /\ Calls("main", ui)
    /\ UNCHANGED <<ui, playing, restore, config, clock, budget>>

FadeIn ==
    /\ fade = "swapped" /\ fade' = "steady"
    /\ Calls("main", [ui EXCEPT !.bright = TRUE])
    /\ UNCHANGED <<ui, playing, restore, config, clock, budget>>

\* The web view's renderer is gone: the path is cleared, and shown again
\* half a second later.
WebCrash ==
    /\ crashes < MaxCrashes /\ crashes' = crashes + 1
    /\ ui.media \in WebItems /\ restore = Nothing
    /\ restore' = ui.media
    /\ Calls("main", [ui EXCEPT !.media = Nothing])
    /\ UNCHANGED <<ui, playing, fade, config, clock, commands>>

RestorePage ==
    /\ restore # Nothing /\ restore' = Nothing
    /\ Calls("main", [ui EXCEPT !.media = restore])
    /\ UNCHANGED <<ui, playing, fade, config, clock, budget>>

(***************************************************************************)
(* Commands and operating hours                                            *)
(***************************************************************************)
Command == commands < MaxCommands /\ commands' = commands + 1

SwitchScreen(off) ==
    /\ Command
    /\ Calls("command", [ui EXCEPT !.off = off])
    /\ UNCHANGED <<ui, playing, fade, restore, config, clock, crashes>>

SetOrientation(a) ==
    /\ Command
    /\ Calls("command", [ui EXCEPT !.angle = a])
    /\ UNCHANGED <<ui, playing, fade, restore, config, clock, crashes>>

SetOperatingHours(c) ==
    /\ Command
    /\ config' = c
    /\ Calls("command", [ui EXCEPT !.off = Outside(c)])
    /\ UNCHANGED <<ui, playing, fade, restore, clock, crashes>>

\* checkAndApply, at the start and every minute.
HoursTick ==
    /\ Calls("hours", [ui EXCEPT !.off = Outside(config)])
    /\ UNCHANGED <<ui, playing, fade, restore, config, clock, budget>>

\* Hours pass: far longer than a setter takes.
TimePasses ==
    /\ ~Overlapping
    /\ slot' = (slot + 1) % Slots
    /\ day' = IF slot' = 0 THEN (day + 1) % Days ELSE day
    /\ UNCHANGED <<ui, call, playing, fade, restore, config, budget, overlaps>>

\* The process is killed; nothing of the store is kept.
Restart ==
    /\ crashes < MaxCrashes /\ crashes' = crashes + 1
    /\ ui' = Fresh /\ call' = [t \in Threads |-> Nothing]
    /\ playing' = Nothing /\ fade' = "steady" /\ restore' = Nothing
    /\ UNCHANGED <<config, clock, commands, overlaps>>

Playback == Swap \/ FadeIn \/ \E i \in Items : NextItem(i)

Next ==
    \/ Playback \/ WebCrash \/ RestorePage
    \/ \E t \in Threads : Return(t)
    \/ \E off \in BOOLEAN : SwitchScreen(off)
    \/ \E a \in Angles : SetOrientation(a)
    \/ \E c \in Configs : SetOperatingHours(c)
    \/ HoursTick \/ TimePasses \/ Restart

\* Threads are scheduled, the loop plays on, and the minute timer fires,
\* although calls of other threads may come in between.
Fairness ==
    /\ \A t \in Threads : WF_vars(Return(t))
    /\ SF_vars(Playback) /\ SF_vars(RestorePage) /\ SF_vars(HoursTick)

Spec == Init /\ [][Next]_vars
FairSpec == Spec /\ Fairness

(***************************************************************************)
(* Properties                                                              *)
(***************************************************************************)
TypeOK ==
    /\ ui \in Ui /\ call \in [Threads -> Ui \union {Nothing}]
    /\ playing \in Items \union {Nothing} /\ restore \in WebItems \union {Nothing}
    /\ fade \in Fades /\ config \in Config /\ day \in Day /\ slot \in Slot
    /\ commands \in 0..MaxCommands /\ crashes \in 0..MaxCrashes
    /\ overlaps \in 0..MaxOverlaps

\* Whatever command switched the screen, and whatever update of another
\* thread overwrote it, the minute timer brings the screen back to the hours:
\* again and again it is off exactly outside of them.
HoursPrevail == []<>(ui.off = Outside(config))

\* Whatever the overlapping writes of the threads undo, the playlist comes
\* back into view: again and again the item being played is fully visible.
ComesIntoView == []<>(playing # Nothing /\ ui.media = playing /\ ui.bright)

\* Between two fades the screen is fully visible, as the comment on
\* transitionAlpha says.
SteadyIsBright == fade = "steady" /\ Free("main") => ui.bright

\* Between two fades, and after a crashed page was restored, the screen shows
\* the item being played.
ShowsWhatPlays ==
    fade = "steady" /\ Free("main") /\ restore = Nothing => ui.media = playing

\* The rest of a night that belongs to the window of an enabled day is inside
\* the hours.
Yesterday == (day + Days - 1) % Days
OvernightIsWhole ==
    config \notin {AlwaysOn, Unreadable} =>
        LET e == config[Yesterday] IN
            e.enabled /\ e.end < e.start /\ slot < e.end => ~Outside(config)

\* The hours split the day: what a window leaves out is the window that runs
\* from its end to its start, so no moment belongs to both or to neither.
WindowsComplement ==
    \A s, e \in Slot : s # e => (Within(slot, s, e) <=> ~Within(slot, e, s))
=============================================================================
