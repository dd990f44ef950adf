--------------------------- MODULE CommandService ---------------------------
(***************************************************************************)
(* The backend's remote-command pipeline for one device:                   *)
(* backend/src/services/command.service.ts, the device connection handler  *)
(* and the COMMAND_ACK listener of backend/src/sockets/index.ts.           *)
(*                                                                         *)
(* The backend is one Node.js process.  A handler (a POST, a timer         *)
(* callback, a connection, an acknowledgement) runs without interruption   *)
(* from one await to the next, so each handler is a record in proc whose   *)
(* pc names the await it is parked at, and each action below is the code   *)
(* from one await to the following one.  Any handler may go next.          *)
(***************************************************************************)
EXTENDS DeviceLink, FiniteSets

CONSTANTS
    Commands,      \* command documents: the triples (tenant, device, command_id)
    Procs,         \* slots for handlers that run at the same time (a bound)
    MaxAttempts,   \* maxAttempts of every command
    Expirable,     \* commands that may be over 24 hours old at a reconnect
    HasSettings,   \* whether the device document holds settings to push
    MaxFaults      \* how many database calls may fail (a bound)

ASSUME CommandsAssumption ==
    /\ Commands \cap Sockets = {}
    /\ None \notin Commands
    /\ Expirable \subseteq Commands
ASSUME MaxAttemptsAssumption == MaxAttempts \in 1..5
ASSUME BoundsAssumption == HasSettings \in BOOLEAN /\ MaxFaults \in Nat

VARIABLES
    doc,           \* the MongoDB document of each command
    created,       \* the created commands in createdAt order
    armed,         \* keys of activeTimeouts whose timer has not fired
    proc,          \* the running handlers
    faults,        \* database calls that have failed so far
    recorded,      \* history: a device result was written to the document
    ended          \* history: the document has had a terminal status

serviceVars == <<doc, created, armed, proc, faults, recorded, ended>>

(***************************************************************************)
(* The settings pushed by a connection travel as COMMAND_DISPATCH packets  *)
(* whose command_id ("init-...") is fresh and has no document: the id of   *)
(* the push of socket s is s itself.                                       *)
(***************************************************************************)
Ids == Commands \cup Sockets

Status == {"absent", "queued", "sent", "acknowledged",
           "completed", "failed", "timeout"}
Results == {"COMPLETED", "FAILED"}
AckStatus == Results \cup {"ACK"}

Dispatch(i) == [type |-> "COMMAND_DISPATCH", id |-> i]
Accepted(i) == [type |-> "accepted", id |-> i]

\* terminalStatus
TerminalStatus == {"completed", "failed", "timeout"}
Terminal(c) == doc[c].status \in TerminalStatus

\* Mutant: the comparison is off by one.
HasAttemptLeftOrEqual(c) == doc[c].attempts <= MaxAttempts

HasAttemptLeft(c) == doc[c].attempts < MaxAttempts

SetStatus(c, status) == doc' = [doc EXCEPT ![c].status = status]

\* A handler: its command or init id, the result and the socket it came on,
\* and the commands a connection still has to replay.
HandlerOf(kind, pc, i, res, s) ==
    [kind |-> kind, pc |-> pc, id |-> i, res |-> res, sk |-> s, todo |-> {}]
Idle == HandlerOf("none", "idle", None, None, None)

At(p, pc) == proc[p].pc = pc
Goto(p, pc) == proc' = [proc EXCEPT ![p].pc = pc]
Finish(p) == proc' = [proc EXCEPT ![p] = Idle]
Start(p, kind, pc, i, res, s) ==
    proc' = [proc EXCEPT ![p] = HandlerOf(kind, pc, i, res, s)]

\* Where dispatchCommandById returns to: the replay loop of a connection
\* handler, or the end of a POST or of a timer callback.
AfterDispatch(p) ==
    IF proc[p].kind = "connection"
    THEN [proc[p] EXCEPT !.pc = "replay.next", !.id = None]
    ELSE Idle
ReturnFromDispatch(p) == proc' = [proc EXCEPT ![p] = AfterDispatch(p)]

ServiceInit ==
    /\ doc = [c \in Commands |-> [status |-> "absent", attempts |-> 0]]
    /\ created = <<>>
    /\ armed = {}
    /\ proc = [p \in Procs |-> Idle]
    /\ faults = 0
    /\ recorded = {}
    /\ ended = {}

-----------------------------------------------------------------------------
(* queueCommand                                                            *)

\* A POST finds no document for its command_id and goes on to create one.
\* (One that finds a document answers with it and changes nothing.)
PostCommand(p, c) ==
    /\ At(p, "idle")
    /\ doc[c].status = "absent"
    /\ Start(p, "post", "create", c, None, None)
    /\ UNCHANGED <<doc, created, armed, faults, recorded, ended, linkVars>>

\* Mutant: no unique index.
CreateCommandUnchecked(p) ==
    LET c == proc[p].id IN
    /\ At(p, "create")
    /\ doc' = [doc EXCEPT ![c] = [status |-> "queued", attempts |-> 0]]
    /\ created' = Append(created, c)
    /\ Goto(p, "check")
    /\ UNCHANGED <<armed, faults, recorded, ended, linkVars>>

\* CommandModel.create; the unique index turns a second document away.
CreateCommand(p) ==
    LET c == proc[p].id IN
    /\ At(p, "create")
    /\ \/ /\ doc[c].status = "absent"
          /\ doc' = [doc EXCEPT ![c] = [status |-> "queued", attempts |-> 0]]
          /\ created' = Append(created, c)
          /\ Goto(p, "check")
       \/ /\ doc[c].status # "absent"
          /\ Finish(p)
          /\ UNCHANGED <<doc, created>>
    /\ UNCHANGED <<armed, faults, recorded, ended, linkVars>>

-----------------------------------------------------------------------------
(* dispatchCommandById                                                     *)

\* The document is read.  A replay goes straight to the claim
\* (assumeConnected); any other handler first asks the room for a socket of
\* the device, which is an await of its own.
CheckDispatch(p) ==
    /\ At(p, "check")
    /\ \/ Terminal(proc[p].id) /\ ReturnFromDispatch(p)
       \/ /\ ~Terminal(proc[p].id)
          /\ Goto(p, IF proc[p].kind = "connection" THEN "claim" ELSE "room")
    /\ UNCHANGED <<doc, created, armed, faults, recorded, ended, linkVars>>

CheckRoom(p) ==
    /\ At(p, "room")
    /\ \/ RoomOccupied /\ Goto(p, "claim")
       \/ ~RoomOccupied /\ ReturnFromDispatch(p)
    /\ UNCHANGED <<doc, created, armed, faults, recorded, ended, linkVars>>

\* Mutant: the claim does not ask for the status "queued".
ClaimableUnlessTerminal(c) == ~Terminal(c) /\ HasAttemptLeft(c)

\* findOneAndUpdate({status: "queued", attempts < maxAttempts})
Claimable(c) == doc[c].status = "queued" /\ HasAttemptLeft(c)

ClaimDispatch(p) ==
    LET c == proc[p].id IN
    /\ At(p, "claim")
    /\ \/ /\ Claimable(c)
          /\ doc' = [doc EXCEPT ![c] =
                       [status |-> "sent", attempts |-> doc[c].attempts + 1]]
          /\ Goto(p, "emit")
       \/ /\ ~Claimable(c)
          /\ ReturnFromDispatch(p)
          /\ UNCHANGED doc
    /\ UNCHANGED <<created, armed, faults, recorded, ended, linkVars>>

\* emitCommandDispatch and scheduleCommandTimeout, with no await in between;
\* scheduling replaces the timer the map holds for the command.
EmitDispatch(p) ==
    LET c == proc[p].id IN
    /\ At(p, "emit")
    /\ down' = EmitToRoom(Dispatch(c))
    /\ armed' = armed \cup {c}
    /\ ReturnFromDispatch(p)
    /\ UNCHANGED <<doc, created, faults, recorded, ended, sock, client, up>>

-----------------------------------------------------------------------------
(* The callback of scheduleCommandTimeout                                  *)

TimerFires(p, c) ==
    /\ At(p, "idle")
    /\ c \in armed
    /\ armed' = armed \ {c}
    /\ Start(p, "timer", "timer.read", c, None, None)
    /\ UNCHANGED <<doc, created, faults, recorded, ended, linkVars>>

\* clearCommandTimer deletes the entry of the command, whichever timer it is.
TimerReads(p) ==
    LET c == proc[p].id IN
    /\ At(p, "timer.read")
    /\ \/ /\ Terminal(c)
          /\ armed' = armed \ {c}
          /\ Finish(p)
       \/ /\ ~Terminal(c)
          /\ IF HasAttemptLeft(c)
             THEN Goto(p, "timer.requeue") ELSE Goto(p, "timer.expire")
          /\ UNCHANGED armed
    /\ UNCHANGED <<doc, created, faults, recorded, ended, linkVars>>

\* updateOne({_id}): no condition on the status that was read before.
TimerRequeues(p) ==
    /\ At(p, "timer.requeue")
    /\ SetStatus(proc[p].id, "queued")
    /\ Goto(p, "timer.redispatch")
    /\ UNCHANGED <<created, armed, faults, recorded, ended, linkVars>>

\* Mutant: the callback requeues and leaves the dispatch to a reconnect.
TimerOnlyClears(p) ==
    /\ At(p, "timer.redispatch")
    /\ armed' = armed \ {proc[p].id}
    /\ Finish(p)
    /\ UNCHANGED <<doc, created, faults, recorded, ended, linkVars>>

TimerRedispatches(p) ==
    /\ At(p, "timer.redispatch")
    /\ armed' = armed \ {proc[p].id}
    /\ Goto(p, "check")
    /\ UNCHANGED <<doc, created, faults, recorded, ended, linkVars>>

TimerExpires(p) ==
    LET c == proc[p].id IN
    /\ At(p, "timer.expire")
    /\ SetStatus(c, "timeout")
    /\ ended' = ended \cup {c}
    /\ Goto(p, "timer.clear")
    /\ UNCHANGED <<created, armed, faults, recorded, linkVars>>

TimerClears(p) ==
    /\ At(p, "timer.clear")
    /\ armed' = armed \ {proc[p].id}
    /\ Finish(p)
    /\ UNCHANGED <<doc, created, faults, recorded, ended, linkVars>>

-----------------------------------------------------------------------------
(* The connection handler and dispatchPendingCommandsForDevice             *)

\* Mutant: the queued commands are read before the room is joined.
ConnectReplaysFirst(p, s) ==
    /\ At(p, "idle")
    /\ client = None
    /\ sock[s] = "unused"
    /\ sock' = [sock EXCEPT ![s] = "connecting"]
    /\ client' = s
    /\ Start(p, "connection", "replay", None, None, s)
    /\ UNCHANGED <<doc, created, armed, faults, recorded, ended, down, up>>

\* The namespace accepts a socket; the player is connected from here on.
Connect(p, s) ==
    /\ At(p, "idle")
    /\ client = None
    /\ sock[s] = "unused"
    /\ sock' = [sock EXCEPT ![s] = "connecting"]
    /\ client' = s
    /\ Start(p, "connection", "join", None, None, s)
    /\ UNCHANGED <<doc, created, armed, faults, recorded, ended, down, up>>

Advance(s, state) ==
    sock' = [sock EXCEPT ![s] = IF @ = "closed" THEN "closed" ELSE state]

\* await socket.join(...)
JoinRoom(p) ==
    /\ At(p, "join")
    /\ Advance(proc[p].sk, "joined")
    /\ Goto(p, "replay")
    /\ UNCHANGED <<doc, created, armed, faults, recorded, ended,
                   client, down, up>>

\* Queued commands older than a day time out; the others are read, to be
\* replayed in createdAt order.
ReplayQueued(p) ==
    /\ At(p, "replay")
    /\ \E old \in SUBSET {c \in Expirable : doc[c].status = "queued"} :
         /\ doc' = [c \in Commands |->
                      IF c \in old THEN [doc[c] EXCEPT !.status = "timeout"]
                      ELSE doc[c]]
         /\ ended' = ended \cup old
         /\ proc' = [proc EXCEPT ![p] =
                       [@ EXCEPT !.pc = "replay.next",
                                 !.todo = {c \in Commands \ old :
                                             doc[c].status = "queued"}]]
    /\ UNCHANGED <<created, armed, faults, recorded, linkVars>>

CreatedBefore(c, d) ==
    \E j, k \in 1..Len(created) : j <= k /\ created[j] = c /\ created[k] = d

ReplayNext(p) ==
    /\ At(p, "replay.next")
    /\ \E c \in proc[p].todo :
         /\ \A d \in proc[p].todo : CreatedBefore(c, d)
         /\ proc' = [proc EXCEPT ![p] =
                       [@ EXCEPT !.pc = "check", !.id = c,
                                 !.todo = proc[p].todo \ {c}]]
    /\ UNCHANGED <<doc, created, armed, faults, recorded, ended, linkVars>>

\* The settings are pushed and only then is the COMMAND_ACK listener
\* registered.
StartListening(p) ==
    LET s == proc[p].sk IN
    /\ At(p, "replay.next")
    /\ proc[p].todo = {}
    /\ Advance(s, "listening")
    /\ down' = IF HasSettings THEN EmitToSocket(s, Dispatch(s)) ELSE down
    /\ Finish(p)
    /\ UNCHANGED <<doc, created, armed, faults, recorded, ended, client, up>>

-----------------------------------------------------------------------------
(* The COMMAND_ACK listener and processDeviceAck                           *)

\* A packet of a socket without a listener is dropped, with no response.
AckDropped ==
    /\ client # None
    /\ up # <<>>
    /\ sock[client] # "listening"
    /\ up' = Tail(up)
    /\ UNCHANGED <<serviceVars, sock, client, down>>

AckArrives(p) ==
    /\ At(p, "idle")
    /\ client # None
    /\ up # <<>>
    /\ sock[client] = "listening"
    /\ up' = Tail(up)
    /\ Start(p, "ack", "ack.read", Head(up).id, Head(up).res, client)
    /\ UNCHANGED <<doc, created, armed, faults, recorded, ended,
                   sock, client, down>>

\* A missing document is answered {accepted: false}, which the player
\* ignores; a terminal one {accepted: true}.
Found(i) == i \in Commands /\ doc[i].status # "absent"

\* Mutant: a result that was already recorded gets no answer.
AckReadsSilentWhenTerminal(p) ==
    LET i == proc[p].id IN
    /\ At(p, "ack.read")
    /\ IF Found(i) /\ ~Terminal(i) THEN Goto(p, "ack.write") ELSE Finish(p)
    /\ UNCHANGED <<doc, created, armed, faults, recorded, ended, linkVars>>

\* Mutant: the result is confirmed before it is written.
AckReadsConfirmsEarly(p) ==
    LET i == proc[p].id IN
    /\ At(p, "ack.read")
    /\ IF Found(i) /\ ~Terminal(i) THEN Goto(p, "ack.write") ELSE Finish(p)
    /\ down' = IF Found(i) THEN EmitToSocket(proc[p].sk, Accepted(i)) ELSE down
    /\ UNCHANGED <<doc, created, armed, faults, recorded, ended,
                   sock, client, up>>

AckReads(p) ==
    LET i == proc[p].id IN
    /\ At(p, "ack.read")
    /\ \/ /\ ~Found(i)
          /\ Finish(p)
          /\ UNCHANGED down
       \/ /\ Found(i) /\ Terminal(i)
          /\ down' = EmitToSocket(proc[p].sk, Accepted(i))
          /\ Finish(p)
       \/ /\ Found(i) /\ ~Terminal(i)
          /\ Goto(p, "ack.write")
          /\ UNCHANGED down
    /\ UNCHANGED <<doc, created, armed, faults, recorded, ended,
                   sock, client, up>>

StatusOf(res) ==
    CASE res = "ACK" -> "acknowledged"
      [] res = "COMPLETED" -> "completed"
      [] res = "FAILED" -> "failed"

\* updateOne({_id}): no condition on the status that was read before.
AckWrites(p) ==
    LET c == proc[p].id
        results == IF proc[p].res \in Results THEN {c} ELSE {}
    IN
    /\ At(p, "ack.write")
    /\ SetStatus(c, StatusOf(proc[p].res))
    /\ recorded' = recorded \cup results
    /\ ended' = ended \cup results
    /\ Goto(p, "ack.finish")
    /\ UNCHANGED <<created, armed, faults, linkVars>>

\* A receipt ("ACK") leaves the timer running, a result clears it.
AckFinishes(p) ==
    LET c == proc[p].id IN
    /\ At(p, "ack.finish")
    /\ armed' = IF proc[p].res = "ACK" THEN armed ELSE armed \ {c}
    /\ down' = EmitToSocket(proc[p].sk, Accepted(c))
    /\ Finish(p)
    /\ UNCHANGED <<doc, created, faults, recorded, ended, sock, client, up>>

-----------------------------------------------------------------------------
(* Failures                                                                *)

\* The handlers parked at a call that may reject: MongoDB's, and at "room"
\* the Redis adapter's fetchSockets.  A claim that was applied but whose
\* answer was lost is the rejection at "emit".
AtDatabase(p) == ~At(p, "idle") /\ ~At(p, "join") /\ ~At(p, "replay.next")

\* A POST answers 500; a timer callback clears the timer; a connection
\* handler skips the rest of the replay and the settings and registers its
\* listeners; an acknowledgement is answered {accepted: false}.
DatabaseFault(p) ==
    LET kind == proc[p].kind IN
    /\ faults < MaxFaults
    /\ AtDatabase(p)
    /\ faults' = faults + 1
    /\ armed' = IF kind = "timer" THEN armed \ {proc[p].id} ELSE armed
    /\ IF kind = "connection" THEN Advance(proc[p].sk, "listening")
                              ELSE UNCHANGED sock
    /\ Finish(p)
    /\ UNCHANGED <<doc, created, recorded, ended, client, down, up>>

(***************************************************************************)
(* The process ends and starts again.  Handlers, timers and sockets are    *)
(* gone; recoverPendingCommands runs before the server listens, so nothing *)
(* else of the backend interleaves with it.                                *)
(***************************************************************************)
\* Mutants: recovery does not look at the attempts.
RecoveredAlwaysQueued(c) ==
    IF doc[c].status # "sent" THEN doc[c].status ELSE "queued"
RecoveredAlwaysTimeout(c) ==
    IF doc[c].status # "sent" THEN doc[c].status ELSE "timeout"

RecoveredStatus(c) ==
    IF doc[c].status # "sent" THEN doc[c].status
    ELSE IF HasAttemptLeft(c) THEN "queued" ELSE "timeout"

RecoverPendingCommands ==
    /\ doc' = [c \in Commands |-> [doc[c] EXCEPT !.status = RecoveredStatus(c)]]
    /\ ended' = ended \cup {c \in Commands : RecoveredStatus(c) = "timeout"}
    /\ armed' = {c \in Commands : doc[c].status = "acknowledged"}

BackendRestarts ==
    /\ client # None => SpareSocket
    /\ RecoverPendingCommands
    /\ proc' = [p \in Procs |-> Idle]
    /\ sock' = [s \in Sockets |->
                  IF sock[s] = "unused" THEN "unused" ELSE "closed"]
    /\ client' = None
    /\ down' = <<>>
    /\ up' = <<>>
    /\ UNCHANGED <<created, faults, recorded>>

-----------------------------------------------------------------------------

\* One step of the handler in slot p, from the await it is parked at.
HandlerStep(p) ==
    \/ CreateCommand(p)
    \/ CheckDispatch(p) \/ CheckRoom(p)
    \/ ClaimDispatch(p) \/ EmitDispatch(p)
    \/ TimerReads(p) \/ TimerRequeues(p) \/ TimerRedispatches(p)
    \/ TimerExpires(p) \/ TimerClears(p)
    \/ JoinRoom(p) \/ ReplayQueued(p) \/ ReplayNext(p) \/ StartListening(p)
    \/ AckReads(p) \/ AckWrites(p) \/ AckFinishes(p)

\* What starts a handler.
HandlerStarts(p) ==
    \/ \E c \in Commands : PostCommand(p, c) \/ TimerFires(p, c)
    \/ \E s \in Sockets : Connect(p, s)
    \/ AckArrives(p)

ServiceNext ==
    \/ \E p \in Procs : HandlerStarts(p) \/ HandlerStep(p) \/ DatabaseFault(p)
    \/ AckDropped
    \/ BackendRestarts

LinkNext ==
    /\ \/ PlayerLosesSocket
       \/ \E s \in Sockets : BackendDropsSocket(s)
       \/ PlayerSeesClose
    /\ UNCHANGED serviceVars

-----------------------------------------------------------------------------
(* Types                                                                   *)

PC == {"idle", "create", "check", "room", "claim", "emit", "timer.read",
       "timer.requeue", "timer.redispatch", "timer.expire", "timer.clear",
       "join", "replay", "replay.next", "ack.read", "ack.write", "ack.finish"}
Kind == {"none", "post", "timer", "connection", "ack"}

Document == [status : Status, attempts : 0..MaxAttempts]
Handler == [kind : Kind, pc : PC, id : Ids \cup {None},
            res : AckStatus \cup {None}, sk : Sockets \cup {None},
            todo : SUBSET Commands]

ServiceTypeOK ==
    /\ doc \in [Commands -> Document]
    /\ created \in Seq(Commands)
    /\ armed \subseteq Commands
    /\ proc \in [Procs -> Handler]
    /\ faults \in 0..MaxFaults
    /\ recorded \subseteq Commands
    /\ ended \subseteq Commands

ToPlayer == [type : {"COMMAND_DISPATCH", "accepted"}, id : Ids]
ToBackend == [id : Ids, res : AckStatus]

LinkTypeOK ==
    /\ sock \in [Sockets -> SocketState]
    /\ client \in Sockets \cup {None}
    /\ down \in Seq(ToPlayer)
    /\ up \in Seq(ToBackend)
=============================================================================
