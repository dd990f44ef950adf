-------------------------- MODULE CommandDelivery --------------------------
(***************************************************************************)
(* The command pipeline from end to end: the backend's CommandService and  *)
(* the player's PlayerCommands over one DeviceLink.                        *)
(***************************************************************************)
EXTENDS CommandService, PlayerCommands

ASSUME IdsAssumption ==
    CommandIds = IF HasSettings THEN Ids ELSE Commands

vars == <<serviceVars, playerVars, linkVars>>

Init == LinkInit /\ ServiceInit /\ PlayerInit

Next ==
    \/ ServiceNext /\ UNCHANGED playerVars
    \/ LinkNext /\ UNCHANGED playerVars
    \/ PlayerNext /\ UNCHANGED serviceVars

Spec == Init /\ [][Next]_vars

TypeOK == ServiceTypeOK /\ LinkTypeOK /\ PlayerTypeOK

-----------------------------------------------------------------------------
(* Safety                                                                  *)

\* A result the player has stored is either still in its store or the command
\* has reached a terminal status, whatever was lost, dropped or restarted in
\* between: a result leaves the store only on {accepted: true}, which
\* processDeviceAck answers only for a document that was terminal or that it
\* has just written.  The exception is a result the store evicted.
ResultNeverLost ==
    \A c \in Commands :
        c \in done => IsPending(c) \/ c \in ended \/ c \in evicted

\* The handlers that will still look at the queued command c.
WillDispatch(p, c) ==
    \/ /\ proc[p].id = c
       /\ proc[p].pc \in {"check", "room", "claim", "timer.redispatch"}
    \/ At(p, "join") \/ At(p, "replay")
    \/ c \in proc[p].todo

\* No lost wake-up between queueing and connecting: a command is created
\* before the room is asked for the device, and a connection joins the room
\* before it looks for queued commands, so a queued command never lies beside
\* a connection that has finished its replay with nobody left to dispatch it.
\* (As long as no database call of a handler fails.)
NoStrandedCommand ==
    \A c \in Commands :
        /\ doc[c].status = "queued"
        /\ faults = 0
        /\ \E s \in Sockets : sock[s] = "listening"
        => \E p \in Procs : WillDispatch(p, c)

\* A queued command always has an attempt left, so the replay of the next
\* connection can claim it: the timer callback and the recovery requeue only
\* what they have read to be within its budget, and no attempt is added while
\* they decide.
QueuedIsClaimable ==
    \A c \in Commands :
        doc[c].status = "queued" => doc[c].attempts < MaxAttempts

\* The pipeline keeps the promises of CommandLifecycle.
Lifecycle == INSTANCE CommandLifecycle WITH
    status <- [c \in Commands |-> doc[c].status],
    attempts <- [c \in Commands |-> doc[c].attempts],
    runs <- [c \in Commands |-> runs[c]]
LifecycleSpec == Lifecycle!Spec

-----------------------------------------------------------------------------
(* Liveness                                                                *)

Backend(A) == A /\ UNCHANGED playerVars
Player(A) == A /\ UNCHANGED serviceVars

(***************************************************************************)
(* The event loop and MongoDB answer every await, timers fire, packets of  *)
(* a live connection arrive, dead sockets are noticed (pingTimeout), the   *)
(* player reconnects for ever (reconnectionAttempts = Int.MAX_VALUE) and   *)
(* flushes with every heartbeat, and executions end (withTimeoutOrNull).   *)
(* Restarts, lost connections and database faults are not fair, and each   *)
(* is bounded, so that a last connection stays.                            *)
(***************************************************************************)
BackendFairness ==
    /\ \A p \in Procs : WF_vars(Backend(HandlerStep(p)))
    /\ \A c \in Commands : WF_vars(Backend(\E p \in Procs : TimerFires(p, c)))
    /\ WF_vars(Backend(\E p \in Procs : AckArrives(p)))
    /\ WF_vars(Backend(AckDropped))
    /\ WF_vars(Backend(\E p \in Procs, s \in Sockets : Connect(p, s)))
    /\ \A s \in Sockets : WF_vars(Backend(
           client # s /\ BackendDropsSocket(s) /\ UNCHANGED serviceVars))

PlayerFairness ==
    /\ WF_vars(Player(ResendStoredResult))
    /\ WF_vars(Player(DispatchChecked))
    /\ WF_vars(Player(DispatchStarted))
    /\ WF_vars(Player(ResultConfirmed))
    /\ WF_vars(Player(FlushPendingAcks))
    /\ \A i \in CommandIds :
         /\ WF_vars(Player(\E res \in Outcomes : ExecutionEnds(i, res)))
         /\ WF_vars(Player(ExecutionLeaves(i)))
    /\ WF_vars(Player(UNCHANGED playerVars /\ PlayerSeesClose))

FairSpec == Spec /\ BackendFairness /\ PlayerFairness

\* Every stored result is confirmed in the end: although the packets a player
\* sends before the COMMAND_ACK listener is registered are dropped without an
\* answer, answers are lost with their connection and a database call may
\* fail, the heartbeats resend the result until an answer arrives.
ResultEventuallyConfirmed ==
    \A c \in Commands : IsPending(c) ~> ~IsPending(c)

\* A queued command is sent (or expires) once the player is connected.
QueuedEventuallyLeaves ==
    \A c \in Commands :
        doc[c].status = "queued" ~> doc[c].status # "queued"

-----------------------------------------------------------------------------
(* What the repository's documents and comments say and the code does not  *)

\* error-management-playbook.md: all remote commands must have a timeout.  A
\* command that is sent and that no handler works on should have its timer.
SentIsTimed ==
    \A c \in Commands :
        doc[c].status = "sent" =>
            c \in armed \/ \E p \in Procs : proc[p].id = c

\* SocketClientManager.kt: removal from the store happens only after the
\* backend confirms that the ACK was committed to the command store.
RemovedOnlyAfterCommit ==
    [][\A c \in Commands : IsPending(c) /\ ~IsPending(c)' => c \in recorded]_vars

\* PendingCommandAckStore.kt: results are persisted until the backend confirms
\* that they were committed.  A full store forgets its oldest result instead.
NoCommandResultEvicted == evicted \cap Commands = {}

\* PendingCommandAckStore.kt: a successfully executed command must not be
\* reported as timed out.  Here: one that was already recorded as completed.
CompletedNeverTimesOut ==
    [][\A c \in Commands :
         doc[c].status = "completed" => doc'[c].status # "timeout"]_vars

\* digital-signage-plan-v2.agent.md: commands are deduplicated by command_id.
\* Once the backend has recorded a command's result, the player should not take
\* another COMMAND_DISPATCH of it for a new command.
NoRerunAfterResult ==
    [][\A c \in Commands :
         callback # c /\ callback' = c => c \notin recorded]_vars

\* The same on the player: while a command's result waits in the store, the
\* COMMAND_DISPATCH callback should resend it and not start the command.
NoRerunWhilePending ==
    [][\A c \in Commands : runs'[c] # runs[c] => ~IsPending(c)]_vars
=============================================================================
