---------------------------- MODULE CommandPolling ----------------------------
(***************************************************************************)
(* How the dashboard follows a command it has sent (page.tsx of a screen,  *)
(* remote-control/page.tsx): the request that queues it, the timer that    *)
(* asks for its status until there is a result or time is up, and the      *)
(* acknowledgements of the fleet socket.  A status is read from MongoDB or *)
(* from its PostgreSQL shadow, which lags (command.route.ts).  What the     *)
(* page shows of the command is left out.                                  *)
(*                                                                         *)
(* The life of a command on the backend is coarse here (module             *)
(* CommandService has it).  A unit of time is one interval of the polling, *)
(* 2.5 seconds.                                                            *)
(***************************************************************************)
EXTENDS Integers, FiniteSets

CONSTANTS
    Commands,      \* commands of the screen
    Foreign,       \* those of them that another page sends
    None,          \* no command
    PollMax,       \* 20 s: the polling gives up
    Shadow,        \* BOOLEAN: a part of the reads goes to PostgreSQL
    Live,          \* BOOLEAN: the fleet socket is connected at times
    MaxFails,      \* bound: requests that fail
    MaxClicks,     \* bound: commands sent before the first is answered
    MaxLoops       \* bound: timers of the polling at a time

PollingAssumption ==
    /\ Foreign \subseteq Commands /\ None \notin Commands
    /\ PollMax \in Nat \ {0} /\ MaxFails \in Nat
    /\ {Shadow, Live} \subseteq BOOLEAN
    /\ MaxClicks \in Nat \ {0} /\ MaxLoops \in Nat \ {0}

VARIABLES
    doc,       \* status of each command in MongoDB
    row,       \* and in its shadow
    events,    \* acknowledgements on their way to the page
    posts,     \* commands whose request is not answered yet
    target,    \* the command that is polled, or None (pollTargetRef, isPolling)
    elapsed,   \* since the polling began
    loops,     \* timers and reads of the polling
    ref,       \* the timer that pollTimerRef holds
    fails      \* requests that may still fail

vars == <<doc, row, events, posts, target, elapsed, loops, ref, fails>>
backendVars == <<doc, row, events>>
pageVars == <<target, elapsed, loops, ref>>

Terminal == {"completed", "failed", "timeout"}
Statuses == {"none", "queued", "sent", "acknowledged"} \cup Terminal

Slots == 1..MaxLoops
Idle == [is |-> "idle"]
Waiting(n) == [is |-> "timer", left |-> n]
Reading(s) == [is |-> "read", got |-> s]

\* clearTimeout: only a timer that has not fired yet, and only the last one.
Cleared == IF ref # None /\ loops[ref].is = "timer" THEN [loops EXCEPT ![ref] = Idle] ELSE loops

PollingInit ==
    /\ doc = [c \in Commands |-> "none"] /\ row = doc /\ events = {}
    /\ posts = {} /\ target = None /\ elapsed = 0
    /\ loops = [i \in Slots |-> Idle] /\ ref = None
    /\ fails = MaxFails

-----------------------------------------------------------------------------
(* The backend *)

Successors(s) ==
    CASE s = "queued" -> {"sent", "failed"}
      [] s = "sent" -> {"acknowledged", "completed", "failed", "timeout"}
      [] s = "acknowledged" -> {"completed", "failed", "timeout"}
      [] OTHER -> {}

\* The result of the screen is told to the page, a timeout is not.
Told(c, s) ==
    IF Live /\ s \in {"acknowledged", "completed", "failed"} /\ doc[c] # "queued"
    THEN {[cmd |-> c, status |-> s]} ELSE {}

Progress(c) ==
    /\ \E s \in Successors(doc[c]) :
          /\ doc' = [doc EXCEPT ![c] = s]
          /\ events' = events \cup Told(c, s)
    /\ UNCHANGED <<row, posts, pageVars, fails>>

Elsewhere(c) ==
    /\ c \in Foreign /\ doc[c] = "none"
    /\ doc' = [doc EXCEPT ![c] = "queued"]
    /\ UNCHANGED <<row, events, posts, pageVars, fails>>

Mirror(c) ==
    /\ Shadow /\ row[c] # doc[c]
    /\ row' = [row EXCEPT ![c] = doc[c]]
    /\ UNCHANGED <<doc, events, posts, pageVars, fails>>

\* GET of one command: its shadow if there is one, else its document.
Readable(c) == {doc[c]} \cup (IF Shadow /\ row[c] # "none" THEN {row[c]} ELSE {})

-----------------------------------------------------------------------------
(* A command is sent *)

Dispatch(c) ==
    /\ target = None /\ c \notin Foreign \cup posts /\ doc[c] = "none"
    /\ Cardinality(posts) < MaxClicks
    /\ posts' = posts \cup {c}
    /\ UNCHANGED <<backendVars, pageVars, fails>>

Queue(c) ==
    /\ c \in posts /\ doc[c] = "none"
    /\ doc' = [doc EXCEPT ![c] = "queued"]
    /\ UNCHANGED <<row, events, posts, pageVars, fails>>

StartPolling(c) ==
    /\ target' = c /\ elapsed' = 0
    /\ \E i \in Slots :
          /\ Cleared[i] = Idle
          /\ loops' = [Cleared EXCEPT ![i] = Waiting(1)]
          /\ ref' = i

Dispatched(c) ==
    /\ c \in posts /\ doc[c] # "none"
    /\ posts' = posts \ {c}
    /\ StartPolling(c)
    /\ UNCHANGED <<backendVars, fails>>

\* The page cannot know whether the command was queued.
DispatchFails(c) ==
    /\ c \in posts /\ fails > 0
    /\ fails' = fails - 1 /\ posts' = posts \ {c}
    /\ UNCHANGED <<backendVars, pageVars>>

-----------------------------------------------------------------------------
(* The polling *)

\* A timer without a target ends its loop.
Fired(i) == [loops EXCEPT ![i] = IF target = None THEN Idle ELSE @]

Fire(i) ==
    /\ loops[i] = Waiting(0)
    /\ IF target = None THEN loops' = Fired(i)
       ELSE \E s \in Readable(target) : loops' = [loops EXCEPT ![i] = Reading(s)]
    /\ UNCHANGED <<backendVars, posts, target, elapsed, ref, fails>>

Ended(s) == s \in Terminal \/ elapsed >= PollMax

Answer(i) ==
    /\ loops[i].is = "read"
    /\ IF Ended(loops[i].got)
       THEN /\ target' = None
            /\ loops' = [loops EXCEPT ![i] = Idle]
            /\ UNCHANGED ref
       ELSE /\ loops' = [loops EXCEPT ![i] = Waiting(1)]
            /\ ref' = i
            /\ UNCHANGED target
    /\ UNCHANGED <<backendVars, posts, elapsed, fails>>

\* Without an answer there is another round, however long it has been.
Failed == Waiting(1)

ReadFails(i) ==
    /\ loops[i].is = "read"
    /\ fails > 0 /\ fails' = fails - 1
    /\ loops' = [loops EXCEPT ![i] = Failed]
    /\ ref' = i
    /\ UNCHANGED <<backendVars, posts, target, elapsed>>

\* onCommandAck: a result of any command of the screen ends the polling.
Receive(e) ==
    /\ e \in events
    /\ e.status # "acknowledged" => [e EXCEPT !.status = "acknowledged"] \notin events
    /\ events' = events \ {e}
    /\ IF e.status \in Terminal THEN target' = None /\ loops' = Cleared ELSE UNCHANGED <<target, loops>>
    /\ UNCHANGED <<doc, row, posts, elapsed, ref, fails>>

Lose(e) ==
    /\ e \in events
    /\ events' = events \ {e}
    /\ UNCHANGED <<doc, row, posts, pageVars, fails>>

Tick ==
    /\ \A i \in Slots : loops[i] # Waiting(0)
    /\ loops' = [i \in Slots |-> IF loops[i].is = "timer" THEN Waiting(loops[i].left - 1) ELSE loops[i]]
    /\ elapsed' = IF elapsed < PollMax THEN elapsed + 1 ELSE elapsed
    /\ UNCHANGED <<backendVars, posts, target, ref, fails>>

PollingNext ==
    \/ \E c \in Commands :
          Progress(c) \/ Elsewhere(c) \/ Mirror(c) \/ Dispatch(c) \/ Queue(c) \/ Dispatched(c) \/ DispatchFails(c)
    \/ \E i \in Slots : Fire(i) \/ Answer(i) \/ ReadFails(i)
    \/ \E e \in events : Receive(e) \/ Lose(e)
    \/ Tick

PollingSpec == PollingInit /\ [][PollingNext]_vars

\* Timers fire and reads end; nothing is asked of the backend or of the screen.
PollingLiveSpec ==
    /\ PollingSpec
    /\ WF_vars(Tick)
    /\ \A i \in Slots : WF_vars(Fire(i)) /\ WF_vars(Answer(i) \/ ReadFails(i))

-----------------------------------------------------------------------------
(* Properties *)

\* Types of the variables; while a command is polled a timer or a read of the
\* polling is pending.
PollingTypeOK ==
    /\ {doc, row} \subseteq [Commands -> Statuses]
    /\ events \subseteq [cmd : Commands, status : Statuses]
    /\ posts \subseteq Commands \ Foreign /\ target \in (Commands \ Foreign) \cup {None}
    /\ elapsed \in 0..PollMax /\ fails \in 0..MaxFails
    /\ \A i \in Slots : loops[i] \in {Idle, Waiting(0), Waiting(1)} \cup {Reading(s) : s \in Statuses}
    /\ ref \in Slots \cup {None}
    /\ target # None => \E i \in Slots : loops[i] # Idle

\* The polling of a command ends with its result or when time is up
\* (page.tsx: "Poll for command status until finished or timeout").
RunsOut == target # None /\ target' # target => doc[target] \in Terminal \/ elapsed >= PollMax
PollRunsOut == [][RunsOut]_vars

\* Every polling ends (remote-control: "Poll every POLL_INTERVAL_MS until terminal
\* status or POLL_MAX_MS elapsed").
PollEnds == \A c \in Commands : target = c ~> target # c

\* Without a target the timers run out, also those that nothing refers to any more.
LoopsEnd == target = None ~> (target # None \/ \A i \in Slots : loops[i] = Idle)
=============================================================================
