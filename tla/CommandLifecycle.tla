-------------------------- MODULE CommandLifecycle --------------------------
(***************************************************************************)
(* What the command pipeline promises of every remote command, without     *)
(* sockets, timers or handlers: a command is attempted at most MaxAttempts *)
(* times, each attempt makes the player start it at most once, and it is   *)
(* given up only when its attempts are used or it was never sent in time.  *)
(*                                                                         *)
(* It does not promise that a terminal status is final: see the findings.  *)
(***************************************************************************)
EXTENDS Naturals

CONSTANTS Commands, MaxAttempts

VARIABLES status, attempts, runs

vars == <<status, attempts, runs>>

Init ==
    /\ status = [c \in Commands |-> "absent"]
    /\ attempts = [c \in Commands |-> 0]
    /\ runs = [c \in Commands |-> 0]

Becomes(c, s) == status'[c] = s
KeepsStatus(c) == status'[c] = status[c]
KeepsAttempts(c) == attempts'[c] = attempts[c]
KeepsRuns(c) == runs'[c] = runs[c]

Create(c) ==
    /\ status[c] = "absent"
    /\ Becomes(c, "queued")
    /\ KeepsAttempts(c)
    /\ KeepsRuns(c)

Attempt(c) ==
    /\ status[c] = "queued"
    /\ attempts[c] < MaxAttempts
    /\ Becomes(c, "sent")
    /\ attempts'[c] = attempts[c] + 1
    /\ KeepsRuns(c)

\* The player starts the command: once per attempt at the most.
Execute(c) ==
    /\ runs[c] < attempts[c]
    /\ runs'[c] = runs[c] + 1
    /\ KeepsStatus(c)
    /\ KeepsAttempts(c)

Retry(c) ==
    /\ attempts[c] \in 1..(MaxAttempts - 1)
    /\ Becomes(c, "queued")
    /\ KeepsAttempts(c)
    /\ KeepsRuns(c)

Answer(c) ==
    /\ attempts[c] > 0
    /\ status'[c] \in {"acknowledged", "completed", "failed"}
    /\ KeepsAttempts(c)
    /\ KeepsRuns(c)

GiveUp(c) ==
    /\ status[c] = "queued" \/ attempts[c] = MaxAttempts
    /\ Becomes(c, "timeout")
    /\ KeepsAttempts(c)
    /\ KeepsRuns(c)

Stays(c) == KeepsStatus(c) /\ KeepsAttempts(c) /\ KeepsRuns(c)

\* Recovery and expiry move several commands in one step.
Next ==
    \A c \in Commands :
        \/ Create(c) \/ Attempt(c) \/ Execute(c) \/ Retry(c)
        \/ Answer(c) \/ GiveUp(c) \/ Stays(c)

Spec == Init /\ [][Next]_vars
=============================================================================
