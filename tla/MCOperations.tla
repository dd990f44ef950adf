---------------------------- MODULE MCOperations ----------------------------
(* Operations, accounts and settings on small instances: one part moves    *)
(* and the others stay in an initial state.                                *)
(*   verdicts  Ops: the evaluations around the thresholds of each ratio    *)
(*   reading   Ops: counts move while a canary evaluation reads them       *)
(*   worse     Ops: idle and tiny fleets                                   *)
(*   accounts  Accounts: the requests of two users do not overlap          *)
(*   single    ScreenSettings: neither do requests and connections         *)
(*   heal      ScreenSettings: they overlap                                *)
(*   once      ScreenSettings: one change, and commands time out           *)
(*   form      ScreenSettings: two pages edit the name                     *)
EXTENDS TLC, Integers, FiniteSets

CONSTANTS
    Parts,
    Users, Screens, Root, Assets, Nodes, None,   \* Accounts
    NoName, Blank, Nothing, p, q                 \* ScreenSettings

VARIABLES
    part,
    fleet, rest, read, seen, traffic, answer, events, evaluations,
    user, owner, active, cache, lookup, token, socket, page, call, closing, requests, crashes,
    doc, paired, era, base, form, touched, loads, puts, removing, commands, firing, conn,
    pushed, link, screen, calm, edits, saves, rounds, links

opsVars == <<fleet, rest, read, seen, traffic, answer, events, evaluations>>
accountVars == <<user, owner, active, cache, lookup, token, socket, page, call, closing,
                 requests, crashes>>
settingVars == <<doc, paired, era, base, form, touched, loads, puts, removing, commands,
                 firing, conn, pushed, link, screen, calm, edits, saves, rounds, links>>
allVars == <<part, opsVars, accountVars, settingVars>>

Counts == {"online", "offline", "completed", "failed", "open", "errors", "syncs",
           "syncFailures", "beats", "beatsBefore", "audits", "other"}
Idle == [c \in Counts |-> 0]
Window(online, offline, completed, failed, errors, syncs, syncFailures) ==
    [Idle EXCEPT !.online = online, !.offline = offline, !.completed = completed,
                 !.failed = failed, !.errors = errors, !.syncs = syncs,
                 !.syncFailures = syncFailures, !.beatsBefore = 10, !.beats = 9,
                 !.audits = 1, !.other = 60]

\* Idle and tiny fleets.
Small == {Window(o, f, c, 0, e, 0, 0) : o \in {0, 1}, f \in {0, 1}, c \in {0, 1, 50},
                                        e \in {0, 1, 9}}
\* Around the thresholds of each ratio: 0 to 40 % of the devices, 0 to 26 %
\* of the commands, 0 to 5 errors on 100 commands, 0 to 32 % of the syncs.
Grid == {Window(10 - o, o, 100 - f, f, e, 25, y) :
           o \in {0, 1, 2, 3, 4}, f \in {0, 5, 7, 10, 12, 15, 20, 26}, e \in {0, 1, 2, 3, 5},
           y \in {0, 1, 3, 5, 8}}
Few == {Window(4, 2, 50, 0, 0, 0, 0),
        Window(3, 1, 50, 2, 0, 0, 0), Window(9, 1, 100, 7, 1, 20, 1)}
Others == {Idle, [Idle EXCEPT !.online = 9, !.offline = 1, !.completed = 90,
                              !.failed = 10, !.errors = 1]}

Verdicts == INSTANCE Ops WITH
    Windows <- Grid, Elsewhere <- Others, StepPercent <- 10, MaxEvents <- 0, MaxEvaluations <- 0
Reading == INSTANCE Ops WITH
    Windows <- Few, Elsewhere <- {Idle}, StepPercent <- 10, MaxEvents <- 2, MaxEvaluations <- 2
Worsening == INSTANCE Ops WITH
    Windows <- Small, Elsewhere <- Others, StepPercent <- 10, MaxEvents <- 2,
    MaxEvaluations <- 0
Resting == INSTANCE Ops WITH
    Windows <- {Idle}, Elsewhere <- {Idle}, StepPercent <- 10, MaxEvents <- 0,
    MaxEvaluations <- 0

Tenant == INSTANCE Accounts WITH Overlap <- FALSE, MaxRequests <- 4, MaxCrashes <- 1

Single == INSTANCE ScreenSettings WITH
    Pages <- {p}, Fields <- {"name", "angle"}, Values <- {1, 2}, First <- 1,
    Typed <- {1, Blank}, MaxEdits <- 2, MaxSaves <- 2, MaxLoads <- 1, MaxRounds <- 1,
    MaxCommands <- 2, MaxLinks <- 2, MaxRemovals <- 1, Overlap <- FALSE, Retries <- FALSE,
    requests <- puts
Heal == INSTANCE ScreenSettings WITH
    Pages <- {p}, Fields <- {"scale", "angle"}, Values <- {1, 2}, First <- 1,
    Typed <- {1, 2}, MaxEdits <- 2, MaxSaves <- 2, MaxLoads <- 1, MaxRounds <- 0,
    MaxCommands <- 2, MaxLinks <- 2, MaxRemovals <- 0, Overlap <- TRUE, Retries <- FALSE,
    requests <- puts
Once == INSTANCE ScreenSettings WITH
    Pages <- {p}, Fields <- {"angle"}, Values <- {1, 2}, First <- 1,
    Typed <- {1, 2}, MaxEdits <- 1, MaxSaves <- 1, MaxLoads <- 1, MaxRounds <- 0,
    MaxCommands <- 1, MaxLinks <- 3, MaxRemovals <- 1, Overlap <- TRUE, Retries <- TRUE,
    requests <- puts
Form == INSTANCE ScreenSettings WITH
    Pages <- {p, q}, Fields <- {"name"}, Values <- {1, 2}, First <- 1,
    Typed <- {1, 2}, MaxEdits <- 2, MaxSaves <- 1, MaxLoads <- 1, MaxRounds <- 3,
    MaxCommands <- 0, MaxLinks <- 0, MaxRemovals <- 0, Overlap <- TRUE, Retries <- FALSE,
    requests <- puts

ASSUME /\ Verdicts!WindowsAssumption /\ Reading!WindowsAssumption
       /\ Worsening!WindowsAssumption /\ Tenant!AccountsAssumption
       /\ Single!FieldAssumption /\ Heal!FieldAssumption
       /\ Once!FieldAssumption /\ Form!FieldAssumption
       /\ Single!ValueAssumption /\ Heal!ValueAssumption
       /\ Once!ValueAssumption /\ Form!ValueAssumption

Init ==
    /\ part \in Parts
    /\ \/ part = "verdicts" /\ Verdicts!Init
       \/ part = "reading" /\ Reading!Init
       \/ part = "worse" /\ Worsening!Init
       \/ part \notin {"verdicts", "reading", "worse"} /\ Resting!Init
    /\ Tenant!Init
    /\ \/ part = "heal" /\ Heal!Init
       \/ part = "once" /\ Once!Init
       \/ part = "form" /\ Form!Init
       \/ part \notin {"heal", "once", "form"} /\ Single!Init

OpsNext ==
    /\ UNCHANGED <<part, accountVars, settingVars>>
    /\ \/ part = "verdicts" /\ Verdicts!Next
       \/ part = "reading" /\ Reading!Next
       \/ part = "worse" /\ Worsening!Next
AccountsNext ==
    /\ UNCHANGED <<part, opsVars, settingVars>>
    /\ part = "accounts" /\ Tenant!Next
SettingsNext ==
    /\ UNCHANGED <<part, opsVars, accountVars>>
    /\ \/ part = "single" /\ Single!Next
       \/ part = "heal" /\ Heal!Next
       \/ part = "once" /\ Once!Next
       \/ part = "form" /\ Form!Next

Next == OpsNext \/ AccountsNext \/ SettingsNext
Spec == Init /\ [][Next]_allVars

Symmetry == Permutations(Users) \union Permutations(Assets)

-----------------------------------------------------------------------------
(* What the parts promise.                                                 *)

\* The evaluations of a fleet agree: what freezes deployments stops every
\* endpoint that could go on, the canary widens its traffic only while nothing
\* calls for a stop, the release gate covers its parts, tuned limits decide as
\* their mode says, the command-line checks repeat the endpoints but for the
\* differences ChecksAgree names, and the offline ratio is one the fleet had
\* while the counts were read.  A device that drops out, a failed sync or an
\* error never improves a verdict.
VerdictsAgree ==
    /\ [](/\ part = "verdicts" => /\ Verdicts!FreezeStopsRollouts
                                  /\ Verdicts!CanaryIsStrictest
                                  /\ Verdicts!GateCoversItsParts
                                  /\ Verdicts!TunedModeDecides
                                  /\ Verdicts!ChecksAgree
          /\ part = "reading" => Reading!TypeOK /\ Reading!OfflineRatioWasReal)
    /\ [][part = "worse" => Worsening!JudgesNoBetter]_allVars

\* A deactivated account owns nothing, also after a crash half-way; an open
\* dashboard belongs to an active account with the role it was admitted with; a
\* deactivated tenant has no connection left; a tenant with an active owner
\* keeps one, and an administrator changes operators only.
TenantHoldsTogether ==
    /\ [](part = "accounts" => /\ Tenant!TypeOK
                               /\ Tenant!NoOrphanAssets
                               /\ Tenant!ConnectedAreCurrent
                               /\ Tenant!ClosedTenantIsCutOff)
    /\ [][part = "accounts" => Tenant!KeepsAnOwner /\ Tenant!TouchesOperatorsOnly]_allVars

\* A screen whose requests are done has the settings of its document and none
\* from before it was removed; one that connects with no request meanwhile has
\* them whatever went wrong before; and a field nobody typed into follows the
\* changes of other users.
ScreensFollow ==
    /\ part = "single" => /\ Single!TypeOK
                          /\ Single!SettledScreenFollows
                          /\ Single!RemovedCommandsStay
    /\ part = "heal" => Heal!ConnectionHeals
    /\ part = "once" => Once!ConnectionHeals
    /\ part = "form" => Form!UntouchedFollows
=============================================================================
