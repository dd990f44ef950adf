-------------------------------- MODULE Ops --------------------------------
(***************************************************************************)
(* The operations endpoints (backend/src/routes/ops.route.ts), the policy  *)
(* evaluation (services/governance.service.ts) and the command-line checks *)
(* (scripts/check-*.ts), which repeat the thresholds of the endpoints.     *)
(*                                                                         *)
(* They judge the same few counts of a tenant, here the record fleet.  A   *)
(* handler asks for its counts with one Promise.all: no snapshot, so they  *)
(* arrive one by one while devices and commands move on.  Ratios are       *)
(* compared in basis points by multiplying out; failed and timed-out       *)
(* commands are one count, because the code only adds them.                *)
(***************************************************************************)
EXTENDS Integers, FiniteSets

CONSTANTS
    Windows,         \* the counts a run starts from
    Elsewhere,       \* the counts of the other tenants
    StepPercent,     \* step_percent of the canary request
    MaxEvents,       \* bound: changes of the counts
    MaxEvaluations   \* bound: canary evaluations

Counts == {"online", "offline", "completed", "failed", "open", "errors", "syncs",
           "syncFailures", "beats", "beatsBefore", "audits", "other"}

WindowsAssumption ==
    /\ \A w \in Windows \union Elsewhere : w \in [Counts -> Nat] /\ w.syncFailures <= w.syncs
    /\ StepPercent \in 1..50

VARIABLES
    fleet,           \* what the window of the requests holds now
    rest,            \* the same counts of the other tenants
    read,            \* counts the evaluation under way has received
    seen,            \* history: the device counts there were since it began
    traffic,         \* traffic of the canary, as deployed
    answer,          \* the last answer: decision and recommended traffic
    events, evaluations

vars == <<fleet, rest, read, seen, traffic, answer, events, evaluations>>

Devices(w) == w.online + w.offline
Commands(w) == w.completed + w.failed
AtLeastOne(n) == IF n = 0 THEN 1 ELSE n

\* A ratio is 0 when there is nothing to count.
Above(part, whole, limit) == part * 10000 > limit * whole
Reaches(part, whole, limit) == whole > 0 /\ part * 10000 >= limit * whole
Rounded(part, whole, digits) == (2 * digits * part + whole) \div (2 * whole)

Limits(error, command, offline, sync) ==
    [error |-> error, command |-> command, offline |-> offline, sync |-> sync]

Exceeds(w, limit) ==
    \/ Above(w.errors, AtLeastOne(Commands(w)), limit.error)
    \/ Above(w.failed, Commands(w), limit.command)
    \/ Above(w.offline, Devices(w), limit.offline)
    \/ Above(w.syncFailures, w.syncs, limit.sync)

Verdict(critical, warning) ==
    IF critical THEN "block" ELSE IF warning THEN "hold" ELSE "promote"
Judge(w, critical, warning) == Verdict(Exceeds(w, critical), Exceeds(w, warning))

-----------------------------------------------------------------------------
(* Endpoints                                                               *)

\* Alert rules of /alerts/evaluate, for one severity.
AlertAt(w, ratio, errors, drop) ==
    \/ Reaches(w.offline, Devices(w), ratio.offline)
    \/ Reaches(w.failed, Commands(w), ratio.command)
    \/ Reaches(w.syncFailures, w.syncs, ratio.sync)
    \/ w.errors >= errors
    \/ Reaches(w.beatsBefore - w.beats, w.beatsBefore, drop)
Alerts(w) == Verdict(AlertAt(w, Limits(0, 1500, 2000, 2000), 25, 7000),
                     AlertAt(w, Limits(0, 800, 1000, 1000), 10, 5000))

GuardAlerts(w) == Verdict(AlertAt(w, Limits(0, 1500, 2000, 2000), 25, 7000),
                          AlertAt(w, Limits(0, 800, 1000, 1000), 10, 5000))
Guardrails(w, parityOk) == IF parityOk THEN GuardAlerts(w) ELSE "block"

Slo(w) == Judge(w, Limits(200, 1500, 2500, 1000), Limits(100, 500, 1000, 200))

\* The alerts are those of one window, the objectives those of another.
ReleaseAlerts(w) == Verdict(AlertAt(w, Limits(0, 1500, 2000, 2000), 25, 7000),
                            AlertAt(w, Limits(0, 800, 1000, 1000), 10, 5000))
Breaches(w) == \/ Above(w.failed, Commands(w), 500)
               \/ Above(w.errors, AtLeastOne(Commands(w)), 100)
               \/ Above(w.syncFailures, w.syncs, 200)
ReleaseGate(w, long) == IF Breaches(long) THEN "block" ELSE ReleaseAlerts(w)

Pilot(w) == Judge(w, Limits(200, 1500, 2000, 2000), Limits(100, 800, 1000, 1000))
Failover(w) == Judge(w, Limits(300, 2000, 3000, 2500), Limits(150, 1000, 1500, 1200))
Canary(w) == Judge(w, Limits(200, 1200, 2000, 1500), Limits(100, 600, 1000, 800))

\* current_traffic_percent is clamped to 1..100 before it is used.
Recommended(decision, current) ==
    LET from == IF current < 1 THEN 1 ELSE current
    IN CASE decision = "promote" -> IF from + StepPercent > 100 THEN 100 ELSE from + StepPercent
         [] decision = "block" -> IF from < StepPercent THEN 0 ELSE from - StepPercent
         [] OTHER -> from

\* sev0 to sev3
Incident(w) ==
    CASE Exceeds(w, Limits(400, 2500, 3500, 3000)) -> 0
      [] Exceeds(w, Limits(200, 1500, 2000, 1500)) -> 1
      [] Exceeds(w, Limits(100, 800, 1200, 1000)) -> 2
      [] OTHER -> 3
FreezesDeployments(w) == Incident(w) = 0

\* A sum of ratios with weights, as a numerator over Whole(w).
Whole(w) == AtLeastOne(Commands(w)) * AtLeastOne(Devices(w)) * AtLeastOne(w.syncs)
Weighted(w, error, command, offline, sync) ==
    LET c == AtLeastOne(Commands(w))  d == AtLeastOne(Devices(w))  y == AtLeastOne(w.syncs)
    IN (error * w.errors + command * w.failed) * d * y
       + offline * w.offline * c * y + sync * w.syncFailures * c * d
Minutes(w, error, command, offline, sync) ==
    Rounded(Weighted(w, error, command, offline, sync), Whole(w), 100)

Chaos(w) ==
    LET mttr == Minutes(w, 0, 120, 60, 90)
        rpo == Minutes(w, 40, 0, 0, 8)
    IN Verdict(Exceeds(w, Limits(250, 2000, 2000, 1500)) \/ mttr > 4500 \/ rpo > 800,
               Exceeds(w, Limits(150, 1000, 1000, 600)) \/ mttr > 3000 \/ rpo > 500)

\* Each step of the runbook is rounded by itself.
RunbookMinutes(w) == 2000 + Minutes(w, 80, 0, 0, 0) + Minutes(w, 0, 40, 0, 0)
                          + Minutes(w, 0, 0, 40, 70) + Minutes(w, 0, 45, 0, 0)
GameDay(w) ==
    Verdict(Exceeds(w, Limits(220, 1500, 2000, 1200)) \/ RunbookMinutes(w) > 6000,
            Exceeds(w, Limits(120, 800, 1000, 500)) \/ RunbookMinutes(w) > 5000)

\* Here a command counts from its creation on, and the error ratio of no
\* command is 0.
Compliance(w, retentionDays) ==
    LET commands == Commands(w) + w.open
        telemetry == w.errors + w.syncs + w.beats + w.other
        budgets(error, command, sync) == \/ Above(w.failed, commands, command)
                                         \/ commands > 0 /\ Above(w.errors, commands, error)
                                         \/ Above(w.syncFailures, w.syncs, sync)
    IN Verdict(w.audits = 0 \/ budgets(2000, 2500, 2500) \/ retentionDays < 14,
               \/ telemetry < AtLeastOne((commands * 8) \div 10)
               \/ budgets(1000, 1500, 1500) \/ retentionDays < 30)

BurnReaches(w, limit) ==
    LET c == AtLeastOne(Commands(w))
    IN \/ Rounded(100 * w.errors, c, 10000) >= limit
       \/ Rounded(100 * w.failed, 8 * c, 10000) >= limit
       \/ Rounded(10 * w.syncFailures, AtLeastOne(w.syncs), 10000) >= limit
       \/ Rounded(10 * w.offline, AtLeastOne(Devices(w)), 10000) >= limit
RiskScore(w) == Minutes(w, 500, 45, 20, 10)
PolicyMode(w) ==
    CASE RiskScore(w) >= 7000 \/ BurnReaches(w, 18000) -> "aggressive"
      [] RiskScore(w) >= 4000 \/ BurnReaches(w, 12000) -> "balanced"
      [] OTHER -> "relaxed"
TunedLimits(mode) ==
    CASE mode = "aggressive" -> Limits(120, 700, 1000, 800)
      [] mode = "balanced" -> Limits(180, 1000, 1500, 1200)
      [] OTHER -> Limits(250, 1400, 2000, 1600)
Tune(w) == Verdict(Exceeds(w, TunedLimits(PolicyMode(w))), PolicyMode(w) = "balanced")

\* part/whole is more than tenths/10 times the ratio of all tenants.
AboveBaseline(part, whole, allPart, allWhole, tenths) ==
    10 * part * AtLeastOne(allWhole) > tenths * allPart * AtLeastOne(whole)
CommandsStandOut(w, other, tenths) ==
    AboveBaseline(w.failed, Commands(w), w.failed + other.failed,
                  Commands(w) + Commands(other), tenths)
ErrorsStandOut(w, other, tenths) ==
    AboveBaseline(w.errors, Commands(w), w.errors + other.errors,
                  Commands(w) + Commands(other), tenths)
AnomalyAt(w, other, tenths, limit) ==
    \/ CommandsStandOut(w, other, tenths) /\ Above(w.failed, Commands(w), limit.command)
    \/ ErrorsStandOut(w, other, tenths)
       /\ Above(w.errors, AtLeastOne(Commands(w)), limit.error)
    \/ Above(w.syncFailures, w.syncs, limit.sync)
    \/ Above(w.offline, Devices(w), limit.offline)
Anomaly(w, other) == Verdict(AnomalyAt(w, other, 17, Limits(200, 1200, 2000, 2000)),
                             AnomalyAt(w, other, 13, Limits(100, 800, 1200, 1200)))

-----------------------------------------------------------------------------
(* evaluateGovernancePolicy                                                *)

GovernanceRollout(w) ==
    LET at(limit) == \/ Reaches(w.errors, AtLeastOne(Commands(w)), limit.error)
                     \/ Reaches(w.failed, Commands(w), limit.command)
                     \/ Reaches(w.offline, Devices(w), limit.offline)
                     \/ Reaches(w.syncFailures, w.syncs, limit.sync)
    IN Verdict(at(Limits(250, 1500, 2000, 2000)), at(Limits(100, 800, 1000, 1000)))

\* tenths of a budget: 1 % errors, 8 % commands, 10 % of syncs and devices
GovernanceRollback(w) ==
    LET at(score, burn) == \/ RiskScore(w) >= score
                           \/ Reaches(w.errors, AtLeastOne(Commands(w)), 10 * burn)
                           \/ Reaches(w.failed, Commands(w), 80 * burn)
                           \/ Reaches(w.syncFailures, w.syncs, 100 * burn)
                           \/ Reaches(w.offline, Devices(w), 100 * burn)
    IN Verdict(at(7000, 18), at(4000, 12))

GovernanceRemediation(w, other) ==
    Verdict(CommandsStandOut(w, other, 17) /\ Above(w.failed, Commands(w), 1200),
            \/ ErrorsStandOut(w, other, 13) /\ Above(w.errors, AtLeastOne(Commands(w)), 100)
            \/ Above(w.syncFailures, w.syncs, 1200)
            \/ /\ Above(w.offline, Devices(w), 1200)
               /\ AboveBaseline(w.offline, Devices(w), w.offline + other.offline,
                                Devices(w) + Devices(other), 13))

Scopes == {"all", "rollout", "rollback", "remediation"}
Governance(w, other, scope) ==
    LET verdicts == {v \in {<<"rollout", GovernanceRollout(w)>>,
                            <<"rollback", GovernanceRollback(w)>>,
                            <<"remediation", GovernanceRemediation(w, other)>>} :
                       scope \in {"all", v[1]}}
    IN Verdict(\E v \in verdicts : v[2] = "block", \E v \in verdicts : v[2] = "hold")

-----------------------------------------------------------------------------
(* Command-line checks: 0 lets a pipeline go on.                           *)

ExitCode(verdict) == CASE verdict = "block" -> 2 [] verdict = "hold" -> 1 [] OTHER -> 0

CheckGuardrails(w, parityOk) ==
    IF ~parityOk \/ AlertAt(w, Limits(0, 1500, 2000, 2000), 25, 7000) THEN 2 ELSE 0
\* Three objectives; the fourth of the endpoint, the devices online, is missing.
CheckSlo(w) ==
    LET broken(error, command, sync) == \/ Above(w.failed, Commands(w), command)
                                        \/ Above(w.errors, AtLeastOne(Commands(w)), error)
                                        \/ Above(w.syncFailures, w.syncs, sync)
    IN ExitCode(Verdict(broken(200, 1500, 1000), broken(100, 500, 200)))
CheckPilot(w) ==
    ExitCode(Judge(w, Limits(200, 1500, 2000, 2000), Limits(100, 800, 1000, 1000)))
CheckFailover(w) ==
    ExitCode(Judge(w, Limits(300, 2000, 3000, 2500), Limits(150, 1000, 1500, 1200)))
\* Mutant: the threshold of the hold is edited in the endpoint only.
CheckCanaryDrifted(w) ==
    ExitCode(Judge(w, Limits(200, 1200, 2000, 1500), Limits(200, 800, 1000, 1000)))
CheckCanary(w) ==
    ExitCode(Judge(w, Limits(200, 1200, 2000, 1500), Limits(100, 600, 1000, 800)))
CheckIncident(w) ==
    CASE Exceeds(w, Limits(400, 2500, 3500, 3000)) -> 2
      [] Exceeds(w, Limits(200, 1500, 2000, 1500)) -> 1
      [] Exceeds(w, Limits(100, 800, 1200, 1000)) -> 1
      [] OTHER -> 0
CheckChaos(w) ==
    LET mttr == Minutes(w, 0, 120, 60, 90)
        rpo == Minutes(w, 40, 0, 0, 8)
    IN ExitCode(Verdict(
         Exceeds(w, Limits(250, 2000, 2000, 1500)) \/ mttr > 4500 \/ rpo > 800,
         Exceeds(w, Limits(150, 1000, 1000, 600)) \/ mttr > 3000 \/ rpo > 500))
CheckGameDay(w) ==
    LET detect == 200 + Minutes(w, 80, 0, 0, 0)
        escalate == 400 + Minutes(w, 0, 40, 0, 0)
        recover == 800 + Minutes(w, 0, 0, 40, 70)
        validate == 600 + Minutes(w, 0, 45, 0, 0)
        observed == detect + escalate + recover + validate
    IN ExitCode(Verdict(Exceeds(w, Limits(220, 1500, 2000, 1200)) \/ observed > 6000,
                        Exceeds(w, Limits(120, 800, 1000, 500)) \/ observed > 5000))
CheckRollback(w) ==
    LET c == AtLeastOne(Commands(w))
        burns(limit) ==
            \/ Rounded(100 * w.errors, c, 10000) >= limit
            \/ Rounded(100 * w.failed, 8 * c, 10000) >= limit
            \/ Rounded(10 * w.syncFailures, AtLeastOne(w.syncs), 10000) >= limit
            \/ Rounded(10 * w.offline, AtLeastOne(Devices(w)), 10000) >= limit
        score == Minutes(w, 500, 45, 20, 10)
        mode == CASE score >= 7000 \/ burns(18000) -> "aggressive"
                  [] score >= 4000 \/ burns(12000) -> "balanced"
                  [] OTHER -> "relaxed"
        limits == [aggressive |-> Limits(120, 700, 1000, 800),
                   balanced |-> Limits(180, 1000, 1500, 1200),
                   relaxed |-> Limits(250, 1400, 2000, 1600)]
    IN ExitCode(Verdict(Exceeds(w, limits[mode]), mode = "balanced"))
CheckAnomaly(w, other) ==
    ExitCode(Verdict(AnomalyAt(w, other, 17, Limits(200, 1200, 2000, 2000)),
                     AnomalyAt(w, other, 13, Limits(100, 800, 1200, 1200))))
CheckCompliance(w, retentionDays) ==
    LET commands == Commands(w) + w.open
        telemetry == w.errors + w.syncs + w.beats + w.other
        expected == AtLeastOne((commands * 8) \div 10)
        fails == \/ w.audits = 0
                 \/ Above(w.failed, commands, 2500)
                 \/ commands > 0 /\ Above(w.errors, commands, 2000)
                 \/ Above(w.syncFailures, w.syncs, 2500)
                 \/ retentionDays < 14
        warns == \/ telemetry < expected
                 \/ Above(w.failed, commands, 1500)
                 \/ commands > 0 /\ Above(w.errors, commands, 1000)
                 \/ Above(w.syncFailures, w.syncs, 1500)
                 \/ retentionDays < 30
    IN IF fails THEN 2 ELSE IF warns THEN 1 ELSE 0

\* This script asks evaluateGovernancePolicy itself, and has no limits of its own.
CheckGovernance(w, other, scope) == ExitCode(Governance(w, other, scope))

-----------------------------------------------------------------------------
(* The counts move: presence, commands, telemetry and the window.          *)

Evaluating == seen # {}
Moves(w) ==
    /\ events < MaxEvents
    /\ events' = events + 1
    /\ w # fleet
    /\ fleet' = w
    /\ seen' = IF Evaluating THEN seen \union {<<w.online, w.offline>>} ELSE {}
    /\ UNCHANGED <<rest, read, traffic, answer, evaluations>>

Shift(w, from, to) == [w EXCEPT ![from] = @ - 1, ![to] = @ + 1]

DeviceTurns(from, to) == fleet[from] > 0 /\ Moves(Shift(fleet, from, to))
CommandCreated == Moves([fleet EXCEPT !.open = @ + 1])
CommandEnds(as) == fleet.open > 0 /\ Moves(Shift(fleet, "open", as))

\* POST /devices/:deviceId/telemetry; a heartbeat also puts its device online.
Ingests(kind) ==
    CASE kind = "heartbeat" ->
           LET w == [fleet EXCEPT !.beats = @ + 1]
           IN \/ Moves(w)
              \/ w.offline > 0 /\ Moves(Shift(w, "offline", "online"))
      [] kind = "sync" ->
           \/ Moves([fleet EXCEPT !.syncs = @ + 1])
           \/ Moves([fleet EXCEPT !.syncs = @ + 1, !.syncFailures = @ + 1])
      [] kind = "error" -> Moves([fleet EXCEPT !.errors = @ + 1])
      [] OTHER -> Moves([fleet EXCEPT !.other = @ + 1])
Kinds == {"heartbeat", "playback", "sync", "command", "error"}

\* createdAt of the oldest one falls out of the window.
Ages(what) ==
    /\ fleet[what] > 0
    /\ CASE what = "beats" -> Moves(Shift(fleet, "beats", "beatsBefore"))
         [] what = "syncs" -> \/ fleet.syncs > fleet.syncFailures
                                 /\ Moves([fleet EXCEPT !.syncs = @ - 1])
                              \/ fleet.syncFailures > 0
                                 /\ Moves([fleet EXCEPT !.syncs = @ - 1,
                                                        !.syncFailures = @ - 1])
         [] OTHER -> Moves([fleet EXCEPT ![what] = @ - 1])
Aging == {"completed", "failed", "errors", "syncs", "beats", "beatsBefore"}

-----------------------------------------------------------------------------
(* GET /canary/deployment/evaluate, and who follows its answer             *)

CanaryCounts == {"online", "offline", "completed", "failed", "errors", "syncs"}

EvaluationBegins ==
    /\ ~Evaluating /\ evaluations < MaxEvaluations
    /\ evaluations' = evaluations + 1
    /\ seen' = {<<fleet.online, fleet.offline>>}
    /\ UNCHANGED <<fleet, rest, read, traffic, answer, events>>

\* The find of the sync events brings the failures among them.
Receives(what) ==
    /\ Evaluating /\ what \notin DOMAIN read
    /\ LET got == IF what = "syncs" THEN {"syncs", "syncFailures"} ELSE {what}
       IN read' = [c \in DOMAIN read \union got |->
                     IF c \in got THEN fleet[c] ELSE read[c]]
    /\ UNCHANGED <<fleet, rest, seen, traffic, answer, events, evaluations>>

AllRead == CanaryCounts \subseteq DOMAIN read

EvaluationAnswers ==
    /\ AllRead
    /\ answer' = [decision |-> Canary(read), traffic |-> Recommended(Canary(read), traffic)]
    /\ read' = <<>> /\ seen' = {}
    /\ UNCHANGED <<fleet, rest, traffic, events, evaluations>>

Deploys ==
    /\ answer.decision # "none"
    /\ traffic' = answer.traffic
    /\ answer' = [decision |-> "none", traffic |-> 0]
    /\ UNCHANGED <<fleet, rest, read, seen, events, evaluations>>

Init ==
    /\ fleet \in Windows /\ rest \in Elsewhere
    /\ read = <<>> /\ seen = {}
    /\ traffic = 10 /\ answer = [decision |-> "none", traffic |-> 0]
    /\ events = 0 /\ evaluations = 0

Next ==
    \/ DeviceTurns("online", "offline") \/ DeviceTurns("offline", "online")
    \/ CommandCreated \/ \E as \in {"completed", "failed"} : CommandEnds(as)
    \/ \E kind \in Kinds : Ingests(kind)
    \/ \E what \in Aging : Ages(what)
    \/ EvaluationBegins \/ \E what \in CanaryCounts : Receives(what)
    \/ EvaluationAnswers \/ Deploys

Spec == Init /\ [][Next]_vars

-----------------------------------------------------------------------------
(* Properties                                                              *)

Decisions == {"promote", "hold", "block"}

\* Types, and a share never counts more than its whole.
TypeOK ==
    /\ fleet \in [Counts -> Nat] /\ rest \in [Counts -> Nat]
    /\ fleet.syncFailures <= fleet.syncs
    /\ DOMAIN read \subseteq CanaryCounts \union {"syncFailures"}
    /\ \A c \in DOMAIN read : read[c] \in Nat
    /\ seen \subseteq Nat \X Nat
    /\ traffic \in 0..100
    /\ answer \in [decision : Decisions \union {"none"}, traffic : 0..100]
    /\ events \in 0..MaxEvents /\ evaluations \in 0..MaxEvaluations

\* The online and the offline devices are counted at different moments, so a
\* device that turns in between is counted twice or not at all.  The ratio
\* computed from the two still lies between the lowest and the highest ratio
\* the fleet had while the evaluation ran.
OfflineRatioWasReal ==
    AllRead =>
      \E low, high \in seen :
        /\ low[2] * (read.online + read.offline) <= read.offline * (low[1] + low[2])
        /\ read.offline * (high[1] + high[2]) <= high[2] * (read.online + read.offline)

\* The endpoints keep their own thresholds.  Whatever makes the incident
\* endpoint freeze deployments also stops every endpoint that could let the
\* deployment go on.
FreezeStopsRollouts ==
    FreezesDeployments(fleet) =>
      /\ Failover(fleet) = "block" /\ Canary(fleet) = "block" /\ Pilot(fleet) = "block"
      /\ Chaos(fleet) = "block" /\ GameDay(fleet) = "block" /\ Slo(fleet) = "block"
      /\ Tune(fleet) = "block" /\ ReleaseGate(fleet, fleet) = "block"

\* The canary widens its traffic only while nothing else calls for a stop: no
\* incident, no failover, no tuned rollback, and the pilot goes on as well.
CanaryIsStrictest ==
    Canary(fleet) = "promote" =>
      /\ Incident(fleet) = 3 /\ Failover(fleet) = "promote" /\ Pilot(fleet) = "promote"
      /\ Tune(fleet) = "promote" /\ Slo(fleet) # "block"

\* The release gate covers the two evaluations it combines: it is open only
\* if no alert is raised and the objectives are not broken.
GateCoversItsParts ==
    ReleaseGate(fleet, fleet) = "promote" =>
      /\ Alerts(fleet) = "promote" /\ Guardrails(fleet, TRUE) = "promote"
      /\ Slo(fleet) # "block" /\ Canary(fleet) # "block"

\* The mode decides: the aggressive limits are always exceeded when the mode
\* is aggressive (otherwise the gate would promote there) and the relaxed
\* ones never when it is relaxed.
TunedModeDecides ==
    /\ PolicyMode(fleet) = "aggressive" => Tune(fleet) = "block"
    /\ PolicyMode(fleet) = "relaxed" => Tune(fleet) = "promote"

\* The command-line checks have their own copies of the thresholds: a pipeline
\* that asks a script gets the answer of the endpoint, with two exceptions.
\* The script of the guardrails lets a hold pass, and that of the objectives
\* counts no devices: it passes exactly what does not break the objectives of
\* the release gate, is never stricter than the endpoint and differs from it
\* only when more than a tenth of the devices is offline.  What the governance
\* script stops for its rollback policy, the rollback script does not pass,
\* although one of them rounds the burn rates.
ChecksAgree ==
    \A ok \in BOOLEAN, days \in {7, 14, 30} :
      /\ CheckGuardrails(fleet, ok) = 2 <=> Guardrails(fleet, ok) = "block"
      /\ CheckSlo(fleet) = 0 <=> ~Breaches(fleet)
      /\ CheckSlo(fleet) <= ExitCode(Slo(fleet))
      /\ CheckSlo(fleet) # ExitCode(Slo(fleet)) => Above(fleet.offline, Devices(fleet), 1000)
      /\ CheckPilot(fleet) = ExitCode(Pilot(fleet))
      /\ CheckFailover(fleet) = ExitCode(Failover(fleet))
      /\ CheckCanary(fleet) = ExitCode(Canary(fleet))
      /\ CheckIncident(fleet) = 2 <=> Incident(fleet) = 0
      /\ CheckIncident(fleet) = 0 <=> Incident(fleet) = 3
      /\ CheckChaos(fleet) = ExitCode(Chaos(fleet))
      /\ CheckGameDay(fleet) = ExitCode(GameDay(fleet))
      /\ CheckRollback(fleet) = ExitCode(Tune(fleet))
      /\ CheckAnomaly(fleet, rest) = ExitCode(Anomaly(fleet, rest))
      /\ CheckCompliance(fleet, days) = ExitCode(Compliance(fleet, days))
      /\ CheckGovernance(fleet, rest, "rollback") # 0 => CheckRollback(fleet) # 0

Rank(verdict) == CASE verdict = "block" -> 0 [] verdict = "hold" -> 1 [] OTHER -> 2

\* One more device is offline, one more synchronisation failed, one more error
\* was reported.  (A failed command is not in this list: it is also one more
\* command, which lowers the error rate.)
Worse(w, v) ==
    \/ w.online > 0 /\ v = Shift(w, "online", "offline")
    \/ v = [w EXCEPT !.syncs = @ + 1, !.syncFailures = @ + 1]
    \/ v = [w EXCEPT !.errors = @ + 1]

JudgesNoBetter ==
    Worse(fleet, fleet') =>
         /\ Rank(Alerts(fleet)') <= Rank(Alerts(fleet))
         /\ Rank(ReleaseGate(fleet, fleet)') <= Rank(ReleaseGate(fleet, fleet))
         /\ Rank(Slo(fleet)') <= Rank(Slo(fleet))
         /\ Rank(Pilot(fleet)') <= Rank(Pilot(fleet))
         /\ Rank(Failover(fleet)') <= Rank(Failover(fleet))
         /\ Rank(Canary(fleet)') <= Rank(Canary(fleet))
         /\ Incident(fleet)' <= Incident(fleet)
         /\ Rank(Chaos(fleet)') <= Rank(Chaos(fleet))
         /\ Rank(GameDay(fleet)') <= Rank(GameDay(fleet))
         /\ Rank(Tune(fleet)') <= Rank(Tune(fleet))
         /\ Rank(Anomaly(fleet, rest)') <= Rank(Anomaly(fleet, rest))
         /\ Rank(Governance(fleet, rest, "all")') <= Rank(Governance(fleet, rest, "all"))

\* A fleet that only got worse is never judged better by any evaluation.  (The
\* compliance one is left out: there an error report is evidence, too.)
WorseIsNotJudgedBetter == [][JudgesNoBetter]_vars

\* ops.route.ts:1430 says of a hold: "hold traffic shift".  The traffic a hold
\* recommends is the traffic there is.
HoldKeepsTraffic == answer.decision = "hold" => answer.traffic = traffic
=============================================================================
