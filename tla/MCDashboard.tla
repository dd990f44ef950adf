---------------------------- MODULE MCDashboard ----------------------------
(* The pages of the dashboard on small instances: one part moves and the   *)
(* others stay in an initial state.                                        *)
(*   badge     FleetView: a screen that comes and goes                     *)
(*   back      FleetView: a lost connection or a restart of the backend,   *)
(*             with a narrower offline window                              *)
(*   removed   FleetView: the screen may be removed, the search changes    *)
(*   screen    CommandPolling on the page of a screen                      *)
(*   remote    CommandPolling without the fleet socket                     *)
(*   socket    FleetSocket with outages of any length, the account edited  *)
(*   short     FleetSocket with outages that end before its attempts do    *)
(*   settled   FleetSocket as in "socket", no request of a ticket fails    *)
(*   files     ScreenPreview: two items, a request or capture may fail     *)
(*   moves     ScreenPreview: the screen is paired with another tenant     *)
(*   ages      ScreenPreview: time passes                                  *)
(*   comes     ScreenPreview: the player's clock is ahead of the backend's *)
(*   recovers  ScreenPreview: a capture or request fails                   *)
EXTENDS FleetSocket, ScreenPreview, TLC

CONSTANTS Parts, Gone, cmd1, cmd2, tenant1, tenant2
VARIABLES
    part,
    fleetUp, alive, beatIn, age, buffered, leaveIn, doc, query, list, lag, tickIn, loads,
    visible, live, fleetBudget,
    pollDoc, row, pollEvents, posts, target, elapsed, loops, ref, fails

fleetVars == <<fleetUp, alive, beatIn, age, buffered, leaveIn, doc, query, list, lag, tickIn,
               loads, visible, live, fleetBudget>>
pollingVars == <<pollDoc, row, pollEvents, posts, target, elapsed, loops, ref, fails>>
allVars == <<part, fleetVars, pollingVars, vars, previewVars>>

Badges == INSTANCE FleetView WITH
    OnlineWindow <- 6, OfflineWindow <- 20, BeatPeriod <- 2, LeaveDelay <- 3,
    SweepPeriod <- 4, PagePeriod <- 4, AnswerTime <- 1, Searches <- {"q1"}, MaxSearches <- 0,
    MaxDrops <- 2, MaxCrashes <- 1, MaxHides <- 1, MaxFails <- 1, Removable <- FALSE,
    up <- fleetUp, budget <- fleetBudget
Back == INSTANCE FleetView WITH
    OnlineWindow <- 6, OfflineWindow <- 8, BeatPeriod <- 2, LeaveDelay <- 3,
    SweepPeriod <- 4, PagePeriod <- 4, AnswerTime <- 1, Searches <- {"q1"}, MaxSearches <- 0,
    MaxDrops <- 1, MaxCrashes <- 0, MaxHides <- 1, MaxFails <- 1, Removable <- FALSE,
    up <- fleetUp, budget <- fleetBudget
Restarted == INSTANCE FleetView WITH
    OnlineWindow <- 6, OfflineWindow <- 8, BeatPeriod <- 2, LeaveDelay <- 3,
    SweepPeriod <- 4, PagePeriod <- 4, AnswerTime <- 1, Searches <- {"q1"}, MaxSearches <- 0,
    MaxDrops <- 0, MaxCrashes <- 1, MaxHides <- 1, MaxFails <- 1, Removable <- FALSE,
    up <- fleetUp, budget <- fleetBudget
Removed == INSTANCE FleetView WITH
    OnlineWindow <- 6, OfflineWindow <- 8, BeatPeriod <- 2, LeaveDelay <- 3,
    SweepPeriod <- 4, PagePeriod <- 4, AnswerTime <- 1, Searches <- {"q1", "q2"}, MaxSearches <- 1,
    MaxDrops <- 0, MaxCrashes <- 0, MaxHides <- 0, MaxFails <- 0, Removable <- TRUE,
    up <- fleetUp, budget <- fleetBudget

Screen == INSTANCE CommandPolling WITH
    Commands <- {cmd1, cmd2}, Foreign <- {cmd2}, PollMax <- 3, Shadow <- TRUE, Live <- TRUE,
    MaxFails <- 1, MaxClicks <- 1, MaxLoops <- 2,
    doc <- pollDoc, events <- pollEvents
Remote == INSTANCE CommandPolling WITH
    Commands <- {cmd1, cmd2}, Foreign <- {}, PollMax <- 3, Shadow <- TRUE, Live <- FALSE,
    MaxFails <- 1, MaxClicks <- 1, MaxLoops <- 2,
    doc <- pollDoc, events <- pollEvents
Ends == INSTANCE CommandPolling WITH
    Commands <- {cmd1, cmd2}, Foreign <- {}, PollMax <- 2, Shadow <- FALSE, Live <- TRUE,
    MaxFails <- 1, MaxClicks <- 1, MaxLoops <- 2,
    doc <- pollDoc, events <- pollEvents

Short == INSTANCE FleetSocket WITH ShortOutages <- TRUE, Edits <- FALSE
Settled == INSTANCE FleetSocket WITH MaxFails <- 0

Paired == INSTANCE ScreenPreview WITH
    Tenants <- {tenant1, tenant2}, MaxItem <- 1, MaxNow <- 0, Skew <- 0, Slack <- 1,
    MaxCrashes <- 1, MaxFailures <- 1, MaxKept <- 1, MaxLost <- 0, MaxHides <- 0, MaxMoves <- 1,
    MaxEvents <- 1
Comes == INSTANCE ScreenPreview WITH
    Tenants <- {tenant1}, MaxItem <- 1, MaxNow <- 0, Skew <- 4, Slack <- 1, MaxCrashes <- 1,
    MaxFailures <- 0, MaxKept <- 0, MaxLost <- 1, MaxHides <- 0, MaxMoves <- 0, MaxEvents <- 1
Recovers == INSTANCE ScreenPreview WITH
    Tenants <- {tenant1}, MaxItem <- 1, MaxNow <- 0, Skew <- 0, Slack <- 1, MaxCrashes <- 0,
    MaxFailures <- 1, MaxKept <- 0, MaxLost <- 0, MaxHides <- 1, MaxMoves <- 0, MaxEvents <- 1
Ages == INSTANCE ScreenPreview WITH
    Tenants <- {tenant1}, MaxItem <- 1, MaxNow <- 1, Skew <- 0, Slack <- 1, MaxCrashes <- 0,
    MaxFailures <- 1, MaxKept <- 0, MaxLost <- 0, MaxHides <- 0, MaxMoves <- 0, MaxEvents <- 1

ASSUME /\ Badges!FleetAssumption /\ Back!FleetAssumption /\ Removed!FleetAssumption
       /\ Screen!PollingAssumption /\ Remote!PollingAssumption /\ Ends!PollingAssumption
       /\ Short!SocketAssumption /\ Settled!SocketAssumption
       /\ PreviewAssumption /\ Paired!PreviewAssumption
       /\ Ages!PreviewAssumption
       /\ Comes!PreviewAssumption /\ Recovers!PreviewAssumption

DashboardInit ==
    /\ part \in Parts
    /\ \/ part = "badge" /\ Badges!FleetInit
       \/ part = "removed" /\ Removed!FleetInit
       \/ part = "back" /\ (Back!FleetInit \/ Restarted!FleetInit)
       \/ part \notin {"badge", "removed", "back"} /\ Back!FleetInit /\ live
    /\ \/ part = "remote" /\ Remote!PollingInit
       \/ part # "remote" /\ Screen!PollingInit
    /\ \/ part = "short" /\ Short!SocketInit
       \/ part = "settled" /\ Settled!SocketInit
       \/ part \notin {"short", "settled"} /\ SocketInit
    /\ \/ part = "moves" /\ Paired!PreviewInit
       \/ part = "ages" /\ Ages!PreviewInit
       \/ part = "comes" /\ Comes!PreviewInit
       \/ part = "recovers" /\ Recovers!PreviewInit
       \/ part \notin {"moves", "ages", "comes", "recovers"} /\ PreviewInit

FleetNext ==
    /\ UNCHANGED <<part, pollingVars, vars, previewVars>>
    /\ \/ part = "badge" /\ Badges!FleetNext
       \/ part = "back" /\ Back!FleetNext
       \/ part = "removed" /\ Removed!FleetNext
PollingNext ==
    /\ UNCHANGED <<part, fleetVars, vars, previewVars>>
    /\ \/ part = "screen" /\ Screen!PollingNext
       \/ part = "remote" /\ Remote!PollingNext
       \/ part = "ends" /\ Ends!PollingNext
SocketsNext ==
    /\ UNCHANGED <<part, fleetVars, pollingVars, previewVars>>
    /\ \/ part = "socket" /\ SocketNext
       \/ part = "short" /\ Short!SocketNext
       \/ part = "settled" /\ Settled!SocketNext
ImagesNext ==
    /\ UNCHANGED <<part, fleetVars, pollingVars, vars>>
    /\ \/ part = "files" /\ PreviewNext
       \/ part = "moves" /\ Paired!PreviewNext
       \/ part = "ages" /\ Ages!PreviewNext
       \/ part = "comes" /\ Comes!PreviewNext
       \/ part = "recovers" /\ Recovers!PreviewNext

DashboardNext == FleetNext \/ PollingNext \/ SocketsNext \/ ImagesNext
DashboardSpec == DashboardInit /\ [][DashboardNext]_allVars

(* The fairness of each part, for as long as it is the part that moves.    *)
DashboardFairSpec ==
    /\ DashboardSpec
    /\ WF_fleetVars((part = "back" /\ Back!Tick) \/ (part = "removed" /\ Removed!Tick))
    /\ WF_fleetVars((part = "back" /\ Back!Beat) \/ (part = "removed" /\ Removed!Beat))
    /\ WF_fleetVars((part = "back" /\ Back!Flush) \/ (part = "removed" /\ Removed!Flush))
    /\ WF_fleetVars((part = "back" /\ Back!Leave) \/ (part = "removed" /\ Removed!Leave))
    /\ WF_fleetVars((part = "back" /\ Back!Sweep) \/ (part = "removed" /\ Removed!Sweep))
    /\ WF_fleetVars(\/ part = "back" /\ Back!Restart
                    \/ part = "removed" /\ Removed!Restart)
    /\ WF_fleetVars(\/ part = "back" /\ Back!PageTick
                    \/ part = "removed" /\ Removed!PageTick)
    /\ WF_fleetVars((part = "back" /\ Back!Show) \/ (part = "removed" /\ Removed!Show))
    /\ WF_fleetVars(\/ part = "back" /\ \E l \in loads : Back!Answer(l) \/ Back!AnswerFails(l)
                    \/ part = "removed" /\ \E l \in loads : Removed!Answer(l) \/ Removed!AnswerFails(l))
    /\ WF_pollingVars(part = "ends" /\ Ends!Tick)
    /\ \A i \in Ends!Slots :
         /\ WF_pollingVars(part = "ends" /\ Ends!Fire(i))
         /\ WF_pollingVars(part = "ends" /\ (Ends!Answer(i) \/ Ends!ReadFails(i)))
    /\ WF_vars(\/ part = "short" /\ Short!ComesUp
               \/ part = "settled" /\ Settled!ComesUp)
    /\ WF_vars(\/ part = "short" /\ Short!RetryFires
               \/ part = "settled" /\ Settled!RetryFires)
    /\ WF_vars(\/ part = "short" /\ (Short!Ticket \/ Short!TicketRefused \/ Short!TicketFails)
               \/ part = "settled" /\ (Settled!Ticket \/ Settled!TicketRefused \/ Settled!TicketFails))
    /\ WF_vars(\/ part = "short" /\ (Short!Open \/ Short!OpenRefused \/ Short!OpenFails)
               \/ part = "settled" /\ (Settled!Open \/ Settled!OpenRefused \/ Settled!OpenFails))
    /\ SF_vars((part = "short" /\ Short!Open) \/ (part = "settled" /\ Settled!Open))
    /\ WF_vars(\/ part = "short" /\ socket.state = "lost" /\ Short!Break
               \/ part = "settled" /\ socket.state = "lost" /\ Settled!Break)
    /\ WF_previewVars(\/ part = "comes" /\ Comes!Heartbeat
                      \/ part = "recovers" /\ Recovers!Heartbeat)
    /\ WF_previewVars(\/ part = "comes" /\ Comes!Persists
                      \/ part = "recovers" /\ Recovers!Persists)
    /\ WF_previewVars(\/ part = "comes" /\ Comes!Tick
                      \/ part = "recovers" /\ Recovers!Tick)
    /\ WF_previewVars(\/ part = "comes" /\ Comes!Receive
                      \/ part = "recovers" /\ Recovers!Receive)
    /\ WF_previewVars(\/ part = "comes" /\ Comes!Dispatch
                      \/ part = "recovers" /\ Recovers!Dispatch)
    /\ WF_previewVars(\/ part = "comes" /\ Comes!Poll
                      \/ part = "recovers" /\ Recovers!Poll)
    /\ WF_previewVars(\/ part = "comes" /\ Comes!Load
                      \/ part = "recovers" /\ Recovers!Load)
    /\ WF_previewVars(\/ part = "comes" /\ Comes!Show
                      \/ part = "recovers" /\ Recovers!Show)
    /\ \A c \in Captures :
         /\ WF_previewVars(\/ part = "comes" /\ Comes!PlayerStep(c)
                           \/ part = "recovers" /\ Recovers!PlayerStep(c))
         /\ WF_previewVars(\/ part = "comes" /\ Comes!BackendStep(c)
                           \/ part = "recovers" /\ Recovers!BackendStep(c))
         /\ WF_previewVars(\/ part = "comes" /\ Comes!Dispatched(c)
                           \/ part = "recovers" /\ Recovers!Dispatched(c))
         /\ WF_previewVars(\/ part = "comes" /\ Comes!GiveUp(c)
                           \/ part = "recovers" /\ Recovers!GiveUp(c))

Symmetry == Permutations(Captures)

-----------------------------------------------------------------------------
(* What the parts promise; FleetSocket and ScreenPreview state it under    *)
(* the names the configurations use.                                       *)

\* What a page shows was true a moment ago: a screen that is shown online has
\* sent a heartbeat within the online window and one period of the page, and
\* the polling of a command ends with its result or when its time is up.
PagesAreTrue ==
    /\ [](/\ part = "badge" => Badges!FleetTypeOK /\ Badges!NoFalseOnline
          /\ part = "screen" => Screen!PollingTypeOK
          /\ part = "socket" => SocketTypeOK
          /\ part = "files" => PreviewTypeOK)
    /\ [][part = "remote" => Remote!RunsOut]_allVars

\* The pages catch up: the list shows a screen or a backend that is back and
\* drops a screen that was removed, a polling ends, the page of a valid session
\* is connected again and knows it, and while the screen keeps playing an item
\* the page ends up with an image of it.
PagesCatchUp ==
    /\ part = "back" => Back!BackIsShown
    /\ part = "removed" => Removed!RemovedLeaves
    /\ part = "ends" => Ends!PollEnds /\ Ends!LoopsEnd
    /\ part = "short" => Short!LiveAgain
    /\ part = "settled" => Settled!FlagSettles
    /\ part = "comes" => Comes!VerifiedComes
    /\ part = "recovers" => Recovers!VerifiedComes
    /\ [][part = "comes" => Comes!CapturesAreFresh]_allVars
=============================================================================
