------------------------------ MODULE FleetView ------------------------------
(***************************************************************************)
(* The list of screens in the dashboard and the badge of one screen in it  *)
(* (screens/page.tsx, device-presence.ts, fleet-events.ts): polls of the   *)
(* device list, events of the fleet socket, the page's own clock, searches *)
(* and the removal of the screen.                                          *)
(*                                                                         *)
(* The screen and the backend are coarse here (module Presence has them):  *)
(* heartbeats that are written a flush later, a document that is marked    *)
(* offline a while after the connection has gone, or by the sweep.  Time   *)
(* advances in units of 15 seconds; a time stamp is its age, and something *)
(* due must be done before time goes on.                                   *)
(***************************************************************************)
EXTENDS Integers, FiniteSets

CONSTANTS
    OnlineWindow,    \* 90 s: younger heartbeats are online
    OfflineWindow,   \* 5 min: older heartbeats are offline
    BeatPeriod,      \* 30 s between heartbeats
    LeaveDelay,      \* 45 s until a disconnect marks the document
    SweepPeriod,     \* 60 s between the sweeps of the backend
    PagePeriod,      \* 60 s between the ticks of the page
    AnswerTime,      \* units a request may take
    Searches,        \* the texts searched for
    Gone,            \* no row for the screen
    MaxSearches,     \* bound: searches typed
    MaxDrops,        \* bound: connections of the screen that end
    MaxCrashes,      \* bound: restarts of the backend
    MaxHides,        \* bound: times the tab goes into the background
    MaxFails,        \* bound: requests that fail with the backend running
    Removable        \* BOOLEAN: the screen may be removed

FleetAssumption ==
    /\ {BeatPeriod, LeaveDelay, SweepPeriod, PagePeriod, AnswerTime} \subseteq Nat \ {0}
    /\ OnlineWindow \in Nat /\ OfflineWindow \in Nat /\ OnlineWindow < OfflineWindow
    /\ {MaxSearches, MaxDrops, MaxCrashes, MaxHides, MaxFails} \subseteq Nat
    /\ Removable \in BOOLEAN

VARIABLES
    up,          \* the backend runs
    alive,       \* the screen is connected and sends heartbeats
    beatIn,      \* units until its next heartbeat
    age,         \* of its last heartbeat
    buffered,    \* that heartbeat is not written yet
    leaveIn,     \* units until the disconnect takes effect, Gone: no timer
    doc,         \* [status, age], or Gone
    query,       \* the search of the page
    list,        \* [of, row]: the search the list answers, and the screen in it
    lag,         \* age of nowMs, the page's clock
    tickIn,      \* units until the interval of the page fires
    loads,       \* requests of the page: [of, ok, row, waited]
    visible,     \* the tab is in the foreground
    live,        \* the fleet socket is connected
    budget       \* [search, drop, crash, hide, fail]: what may still happen

vars == <<up, alive, beatIn, age, buffered, leaveIn, doc, query, list, lag, tickIn, loads, visible, live, budget>>
screenVars == <<up, alive, beatIn, age, buffered, leaveIn, doc>>
pageVars == <<query, list, lag, tickIn, loads, visible, live>>

\* Older than this is all the same for the badge.
Oldest == OfflineWindow + PagePeriod + 1
Aged(n) == IF n < Oldest THEN n + 1 ELSE n
Older(row) == IF row = Gone THEN Gone ELSE [row EXCEPT !.age = Aged(@)]
Row(status, a) == [status |-> status, age |-> a]
Spend(what) == budget[what] > 0 /\ budget' = [budget EXCEPT ![what] = @ - 1]

FleetInit ==
    /\ up = TRUE
    /\ alive = TRUE /\ beatIn = BeatPeriod /\ age = 0 /\ buffered = FALSE /\ leaveIn = Gone
    /\ doc = Row("online", 0)
    /\ query \in Searches /\ list = [of |-> query, row |-> doc]
    /\ lag = 0 /\ tickIn = PagePeriod /\ loads = {}
    /\ visible = TRUE /\ live \in BOOLEAN
    /\ budget = [search |-> MaxSearches, drop |-> MaxDrops, crash |-> MaxCrashes, hide |-> MaxHides, fail |-> MaxFails]

-----------------------------------------------------------------------------
(* The badge *)

\* getDevicePresence, with the page's clock `now` units behind.
Presence(row, now) ==
    LET a == IF row.age > now THEN row.age - now ELSE 0 IN
    IF row.status = "offline" \/ a >= OfflineWindow THEN "offline"
    ELSE IF row.status = "degraded" \/ a >= OnlineWindow THEN "degraded"
    ELSE "online"

Badge == IF list.row = Gone THEN Gone ELSE Presence(list.row, lag)

\* mergeDeviceStatus: an online event carries the time of the heartbeat; the
\* page's clock is read anew.
Merged(status, a) ==
    IF list.row = Gone THEN list
    ELSE [list EXCEPT !.row = Row(status, IF status = "online" THEN a ELSE @.age)]

\* A status event reaches the page if its socket is connected.
Notify(status, a) ==
    IF live THEN list' = Merged(status, a) /\ lag' = 0 ELSE UNCHANGED <<list, lag>>

-----------------------------------------------------------------------------
(* The screen and the backend *)

\* A heartbeat goes to the buffer; one that turns the display on or off is told
\* at once.
Beat ==
    /\ alive /\ beatIn = 0 /\ doc # Gone
    /\ beatIn' = BeatPeriod /\ age' = 0 /\ buffered' = TRUE
    /\ Notify("online", 0) \/ UNCHANGED <<list, lag>>
    /\ UNCHANGED <<up, alive, leaveIn, doc, query, tickIn, loads, visible, live, budget>>

Flush ==
    /\ buffered
    /\ buffered' = FALSE
    /\ doc' = Row("online", age)
    /\ UNCHANGED <<up, alive, beatIn, age, leaveIn, pageVars, budget>>

Drop ==
    /\ alive /\ Spend("drop")
    /\ alive' = FALSE
    /\ leaveIn' = IF leaveIn = Gone THEN LeaveDelay ELSE leaveIn
    /\ UNCHANGED <<up, beatIn, age, buffered, doc, pageVars>>

\* The timer of a disconnect, unless the screen is back.
Leave ==
    /\ leaveIn = 0
    /\ leaveIn' = Gone
    /\ IF alive \/ doc = Gone THEN UNCHANGED <<buffered, doc, list, lag>>
       ELSE /\ buffered' = FALSE
            /\ doc' = [doc EXCEPT !.status = "offline"]
            /\ Notify("offline", 0)
    /\ UNCHANGED <<up, alive, beatIn, age, query, tickIn, loads, visible, live, budget>>

\* A connection is a sign of life that is written and told at once.
Return ==
    /\ up /\ ~alive /\ doc # Gone
    /\ alive' = TRUE /\ age' = 0 /\ beatIn' = BeatPeriod /\ buffered' = FALSE /\ leaveIn' = Gone
    /\ doc' = Row("online", 0)
    /\ Notify("online", 0)
    /\ UNCHANGED <<up, query, tickIn, loads, visible, live, budget>>

\* The sweep for stale documents.
Swept ==
    IF doc = Gone \/ doc.status = "offline" THEN doc
    ELSE IF doc.age > OfflineWindow THEN [doc EXCEPT !.status = "offline"]
    ELSE IF doc.age > OnlineWindow THEN [doc EXCEPT !.status = "degraded"]
    ELSE doc

Sweep ==
    /\ up /\ Swept # doc
    /\ doc' = Swept
    /\ UNCHANGED <<up, alive, beatIn, age, buffered, leaveIn, pageVars, budget>>

\* The process ends: connections, buffer and timers are lost.
Crash ==
    /\ Spend("crash")
    /\ up' = FALSE /\ alive' = FALSE /\ buffered' = FALSE /\ leaveIn' = Gone /\ live' = FALSE
    /\ UNCHANGED <<beatIn, age, doc, query, list, lag, tickIn, loads, visible>>

Restart ==
    /\ ~up
    /\ up' = TRUE
    /\ UNCHANGED <<alive, beatIn, age, buffered, leaveIn, doc, pageVars, budget>>

-----------------------------------------------------------------------------
(* The page *)

\* A request of the list: what the backend finds for it, if it runs.
Request == [of |-> query, ok |-> up, row |-> doc, waited |-> 0]

Polls == visible

\* Mutant: the clock of the page is not advanced.
TickedStill == lag
Ticked == 0

PageTick ==
    /\ tickIn = 0
    /\ tickIn' = PagePeriod
    /\ lag' = Ticked
    /\ loads' = IF Polls THEN loads \cup {Request} ELSE loads
    /\ UNCHANGED <<screenVars, query, list, visible, live, budget>>

\* The text changes: the effect is set up again and a load follows.
Search ==
    /\ Spend("search")
    /\ \E q \in Searches \ {query} :
          /\ query' = q
          /\ loads' = loads \cup {[Request EXCEPT !.of = q]}
    /\ tickIn' = PagePeriod
    /\ UNCHANGED <<screenVars, list, lag, visible, live>>

Answered(l) == [of |-> l.of, row |-> l.row]

\* The answer replaces the list; a failure leaves it.
Answer(l) ==
    /\ l \in loads /\ l.ok
    /\ loads' = loads \ {l}
    /\ list' = Answered(l)
    /\ UNCHANGED <<screenVars, query, lag, tickIn, visible, live, budget>>

AnswerFails(l) ==
    /\ l \in loads
    /\ IF l.ok THEN Spend("fail") ELSE UNCHANGED budget
    /\ loads' = loads \ {l}
    /\ UNCHANGED <<screenVars, query, list, lag, tickIn, visible, live>>

\* The screen is removed with its connections, and its row when that is done.
Remove ==
    /\ Removable /\ up /\ doc # Gone /\ list.row # Gone
    /\ doc' = Gone /\ alive' = FALSE /\ buffered' = FALSE
    /\ list' = [list EXCEPT !.row = Gone]
    /\ UNCHANGED <<up, beatIn, age, leaveIn, query, lag, tickIn, loads, visible, live, budget>>

Hide ==
    /\ visible /\ Spend("hide")
    /\ visible' = FALSE
    /\ UNCHANGED <<screenVars, query, list, lag, tickIn, loads, live>>

Show ==
    /\ ~visible
    /\ visible' = TRUE
    /\ UNCHANGED <<screenVars, query, list, lag, tickIn, loads, live, budget>>

-----------------------------------------------------------------------------

\* Nothing is overdue.
MayWait ==
    /\ tickIn > 0 /\ leaveIn # 0
    /\ alive => beatIn > 0
    /\ ~buffered
    /\ up /\ Swept # doc => \E window \in {OnlineWindow, OfflineWindow} : doc.age - window \in 0..SweepPeriod - 1
    /\ \A l \in loads : l.waited < AnswerTime

Tick ==
    /\ MayWait
    /\ beatIn' = IF alive THEN beatIn - 1 ELSE beatIn
    /\ leaveIn' = IF leaveIn = Gone THEN Gone ELSE leaveIn - 1
    /\ tickIn' = tickIn - 1
    /\ age' = Aged(age) /\ doc' = Older(doc) /\ lag' = Aged(lag)
    /\ list' = [list EXCEPT !.row = Older(@)]
    /\ loads' = {[l EXCEPT !.row = Older(@), !.waited = @ + 1] : l \in loads}
    /\ UNCHANGED <<up, alive, buffered, query, visible, live, budget>>

FleetNext ==
    \/ Beat \/ Flush \/ Drop \/ Leave \/ Return \/ Sweep \/ Crash \/ Restart
    \/ PageTick \/ Search \/ Remove \/ Hide \/ Show \/ Tick
    \/ \E l \in loads : Answer(l) \/ AnswerFails(l)

FleetSpec == FleetInit /\ [][FleetNext]_vars

\* Time passes and what is due is done; a process that ended is started again,
\* and somebody looks at the page.
FleetLiveSpec ==
    /\ FleetSpec
    /\ WF_vars(Tick) /\ WF_vars(Beat) /\ WF_vars(Flush) /\ WF_vars(Leave) /\ WF_vars(Sweep)
    /\ WF_vars(Restart) /\ WF_vars(PageTick) /\ WF_vars(Show)
    /\ WF_vars(\E l \in loads : Answer(l) \/ AnswerFails(l))

-----------------------------------------------------------------------------
(* Properties *)

Statuses == {"online", "degraded", "offline"}
Rows == [status : Statuses, age : 0..Oldest] \cup {Gone}

\* Types of the variables; neither the document nor the list knows of a heartbeat
\* that has not been sent.
FleetTypeOK ==
    /\ {up, alive, buffered, visible, live} \subseteq BOOLEAN
    /\ age \in 0..Oldest /\ lag \in 0..Oldest /\ beatIn \in 0..BeatPeriod
    /\ leaveIn \in 0..LeaveDelay \cup {Gone}
    /\ doc \in Rows /\ list \in [of : Searches, row : Rows]
    /\ tickIn \in 0..PagePeriod
    /\ doc # Gone => doc.age >= age
    /\ list.row # Gone => list.row.age >= age
    /\ loads \subseteq [of : Searches, ok : BOOLEAN, row : Rows, waited : 0..AnswerTime]

\* A screen shown as online has sent a heartbeat within the online window and
\* one period of the page's clock (device-presence.ts: a stored status "cannot
\* make a device online without a recent heartbeat").
NoFalseOnline == Badge = "online" => age < OnlineWindow + PagePeriod

\* The page's clock is at most 30 s old (page.tsx: "Ticks every 30 s so status
\* badges update without a page refresh").
ClockTicks == lag <= PagePeriod \div 2

\* A screen that has been sending heartbeats, with its page in the foreground,
\* is shown as online (device-presence.ts: "Calculates presence from the last
\* authenticated device heartbeat").
HealthyIsOnline ==
    alive /\ visible /\ budget.drop = MaxDrops /\ budget.crash = MaxCrashes /\ budget.hide = MaxHides
    /\ budget.fail = MaxFails /\ list.row # Gone => Badge = "online"

\* Without a request under way, the list answers the text in the search field
\* (page.tsx: "Search is performed by MongoDB").
ListIsOfSearch == loads = {} => list.of = query

\* A screen that stays connected is shown so again and again.
BackIsShown == <>[]alive => []<>(Badge = "online")

\* A removed screen leaves the list for good.
RemovedLeaves == (doc = Gone) ~> [](list.row = Gone)
=============================================================================
