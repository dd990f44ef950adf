----------------------- MODULE CommandDeliveryProofs -----------------------
(***************************************************************************)
(* Proofs about the command pipeline for every number of commands,         *)
(* handlers, connections and attempts and every capacity of the player's   *)
(* store.                                                                  *)
(*                                                                         *)
(* First part: CommandBackend against any player: its types, the turns its *)
(* handlers take at a command, what happens to the attempts, and that a    *)
(* command_id has one document.  Its lemmas are about the service's        *)
(* actions, whoever is at the other end of the connection.                 *)
(*                                                                         *)
(* Second part: the pipeline: type correctness, that no stored result is   *)
(* lost, and that no queued command is stranded.                           *)
(*                                                                         *)
(* Last part: it implements CommandLifecycle: every step of the pipeline   *)
(* is a step of each command's life or leaves it alone.  The mapping needs *)
(* what no single handler knows: how many executions the packets and       *)
(* callbacks under way can still start, that a retry or an answer comes    *)
(* after an attempt, and that a callback which has decided to give a       *)
(* command up still decides rightly when it writes.                        *)
(***************************************************************************)
EXTENDS CommandDelivery, CommandBackend, TLAPS, SequenceTheorems, FiniteSetTheorems

(***************************************************************************)
(* The types alone are not inductive: a handler must also hold what its    *)
(* next step reads, a command of its own, the result it was sent, or its   *)
(* socket.                                                                 *)
(***************************************************************************)
CommandPC == {"create", "check", "room", "claim", "emit", "timer.read",
              "timer.requeue", "timer.redispatch", "timer.expire",
              "timer.clear", "ack.write", "ack.finish"}
AckPC == {"ack.read", "ack.write", "ack.finish"}
ConnectionPC == {"join", "replay", "replay.next"}

Shape(h) ==
    /\ h.pc \in CommandPC => h.id \in Commands
    /\ h.pc \in AckPC => h.id \in Ids /\ h.res \in AckStatus /\ h.sk \in Sockets
    /\ h.pc \in ConnectionPC => h.kind = "connection"
    /\ h.kind = "connection" => h.sk \in Sockets

HandlersOK == proc \in [Procs -> Handler] /\ \A p \in Procs : Shape(proc[p])

ServiceInv == ServiceTypeOK /\ LinkTypeOK /\ HandlersOK

-----------------------------------------------------------------------------
(* The ways a step leaves its handler                                      *)

LEMMA IdleShape == Idle \in Handler /\ Shape(Idle)
BY DEF Idle, HandlerOf, Handler, Kind, PC, Shape, CommandPC, AckPC, ConnectionPC

LEMMA HandlerUpdate ==
    ASSUME HandlersOK, NEW p \in Procs, NEW h \in Handler, Shape(h),
           proc' = [proc EXCEPT ![p] = h]
    PROVE  HandlersOK'
BY DEF HandlersOK

LEMMA StartUpdate ==
    ASSUME HandlersOK, NEW p \in Procs, NEW kind \in Kind, NEW pc \in PC,
           NEW i \in Ids \cup {None}, NEW res \in AckStatus \cup {None},
           NEW s \in Sockets \cup {None},
           Shape(HandlerOf(kind, pc, i, res, s)), Start(p, kind, pc, i, res, s)
    PROVE  HandlersOK'
<1>1. HandlerOf(kind, pc, i, res, s) \in Handler
  BY DEF HandlerOf, Handler
<1> QED
  BY <1>1, HandlerUpdate DEF Start

LEMMA FinishUpdate ==
    ASSUME HandlersOK, NEW p \in Procs, Finish(p)
    PROVE  HandlersOK'
BY IdleShape, HandlerUpdate DEF Finish

LEMMA GotoUpdate ==
    ASSUME HandlersOK, NEW p \in Procs, NEW pc \in PC, Goto(p, pc),
           pc \in CommandPC => proc[p].id \in Commands,
           pc \in AckPC => /\ proc[p].id \in Ids
                           /\ proc[p].res \in AckStatus
                           /\ proc[p].sk \in Sockets,
           pc \in ConnectionPC => proc[p].kind = "connection"
    PROVE  HandlersOK'
<1> DEFINE h == [proc[p] EXCEPT !.pc = pc]
<1>1. proc[p] \in Handler /\ Shape(proc[p])
  BY DEF HandlersOK
<1>2. h \in Handler /\ Shape(h)
  BY <1>1 DEF Handler, Shape
<1>3. proc' = [proc EXCEPT ![p] = h]
  BY DEF Goto
<1> QED
  BY <1>2, <1>3, HandlerUpdate

LEMMA ReturnUpdate ==
    ASSUME HandlersOK, NEW p \in Procs, ReturnFromDispatch(p)
    PROVE  HandlersOK'
<1>1. proc[p] \in Handler /\ Shape(proc[p])
  BY DEF HandlersOK
<1>2. AfterDispatch(p) \in Handler /\ Shape(AfterDispatch(p))
  <2>1. CASE proc[p].kind = "connection"
    BY <1>1, <2>1 DEF AfterDispatch, Handler, Shape, PC, CommandPC, AckPC
  <2>2. CASE proc[p].kind # "connection"
    BY <2>2, IdleShape DEF AfterDispatch
  <2> QED
    BY <2>1, <2>2
<1> QED
  BY <1>2, HandlerUpdate DEF ReturnFromDispatch

LEMMA StatusUpdate ==
    ASSUME doc \in [Commands -> Document], NEW c \in Commands,
           NEW status \in Status, SetStatus(c, status)
    PROVE  doc' \in [Commands -> Document]
BY DEF SetStatus, Document

LEMMA Packets ==
    ASSUME LinkTypeOK, NEW i \in Ids, NEW s
    PROVE  /\ EmitToRoom(Dispatch(i)) \in Seq(ToPlayer)
           /\ EmitToSocket(s, Dispatch(i)) \in Seq(ToPlayer)
           /\ EmitToSocket(s, Accepted(i)) \in Seq(ToPlayer)
<1>1. Dispatch(i) \in ToPlayer /\ Accepted(i) \in ToPlayer
  BY DEF Dispatch, Accepted, ToPlayer
<1> QED
  BY <1>1 DEF EmitToRoom, EmitToSocket, LinkTypeOK

LEMMA AdvanceUpdate ==
    ASSUME LinkTypeOK, NEW s \in Sockets, NEW state \in SocketState,
           Advance(s, state)
    PROVE  sock' \in [Sockets -> SocketState]
BY DEF LinkTypeOK, Advance, SocketState

-----------------------------------------------------------------------------
(* One lemma per operation of the service                                  *)

LEMMA PostSteps ==
    ASSUME ServiceInv, NEW p \in Procs
    PROVE  /\ \A c \in Commands : PostCommand(p, c) => ServiceInv'
           /\ CreateCommand(p) => ServiceInv'
<1>1. ASSUME NEW c \in Commands, PostCommand(p, c) PROVE ServiceInv'
  <2>1. Start(p, "post", "create", c, None, None)
    BY <1>1 DEF PostCommand
  <2>2. HandlersOK'
    <3>1. Shape(HandlerOf("post", "create", c, None, None))
      BY DEF HandlerOf, Shape, CommandPC, AckPC, ConnectionPC
    <3> QED
      BY <2>1, <3>1, StartUpdate DEF ServiceInv, Ids, Kind, PC
  <2> QED
    BY <1>1, <2>2 DEF PostCommand, linkVars, ServiceInv, ServiceTypeOK,
                      LinkTypeOK, HandlersOK
<1>2. ASSUME CreateCommand(p) PROVE ServiceInv'
  <2> DEFINE c == proc[p].id
  <2>1. c \in Commands
    BY <1>2 DEF ServiceInv, HandlersOK, Shape, CommandPC, CreateCommand, At
  <2>2. doc' \in [Commands -> Document] /\ created' \in Seq(Commands)
    <3>1. [status |-> "queued", attempts |-> 0] \in Document
      BY MaxAttemptsAssumption DEF Document, Status
    <3>2. doc \in [Commands -> Document] /\ created \in Seq(Commands)
      BY DEF ServiceInv, ServiceTypeOK
    <3>3. CASE doc[c].status = "absent"
      <4> DEFINE new == [status |-> "queued", attempts |-> 0]
      <4>1. doc' = [doc EXCEPT ![c] = new] /\ created' = Append(created, c)
        BY <1>2, <3>3 DEF CreateCommand
      <4> HIDE DEF new
      <4> QED
        BY <2>1, <3>1, <3>2, <4>1 DEF new
    <3>4. CASE doc[c].status # "absent"
      BY <1>2, <3>2, <3>4 DEF CreateCommand
    <3> QED
      BY <3>3, <3>4
  <2>3. HandlersOK'
    BY <1>2, <2>1, FinishUpdate, GotoUpdate
       DEF CreateCommand, ServiceInv, PC, AckPC, ConnectionPC
  <2> QED
    BY <1>2, <2>2, <2>3 DEF CreateCommand, linkVars, ServiceInv,
                            ServiceTypeOK, LinkTypeOK, HandlersOK
<1> QED
  BY <1>1, <1>2

LEMMA DispatchSteps ==
    ASSUME ServiceInv, NEW p \in Procs,
           CheckDispatch(p) \/ CheckRoom(p) \/ ClaimDispatch(p) \/ EmitDispatch(p)
    PROVE  ServiceInv'
<1> DEFINE c == proc[p].id
<1>1. c \in Commands
  BY DEF ServiceInv, HandlersOK, Shape, CommandPC, At, CheckDispatch, CheckRoom,
         ClaimDispatch, EmitDispatch
<1>2. HandlersOK'
  BY <1>1, GotoUpdate, ReturnUpdate
     DEF ServiceInv, PC, AckPC, ConnectionPC, CheckDispatch, CheckRoom, ClaimDispatch,
         EmitDispatch
<1>3. CASE CheckDispatch(p) \/ CheckRoom(p)
  BY <1>2, <1>3 DEF CheckDispatch, CheckRoom, linkVars, ServiceInv, ServiceTypeOK,
                    LinkTypeOK, HandlersOK
<1>4. CASE ClaimDispatch(p)
  <2>1. doc' \in [Commands -> Document]
    <3>1. CASE Claimable(c)
      <4>1. doc[c].attempts \in 0..MaxAttempts /\ doc[c].attempts < MaxAttempts
        BY <1>1, <3>1
           DEF Claimable, HasAttemptLeft, ServiceInv, ServiceTypeOK, Document
      <4>2. doc[c].attempts + 1 \in 0..MaxAttempts
        BY <4>1, MaxAttemptsAssumption
      <4>3. [status |-> "sent", attempts |-> doc[c].attempts + 1] \in Document
        BY <4>2 DEF Document, Status
      <4> QED
        BY <1>4, <3>1, <4>3 DEF ClaimDispatch, ServiceInv, ServiceTypeOK
    <3>2. CASE ~Claimable(c)
      BY <1>4, <3>2 DEF ClaimDispatch, ServiceInv, ServiceTypeOK
    <3> QED
      BY <3>1, <3>2
  <2> QED
    BY <1>2, <1>4, <2>1 DEF ClaimDispatch, linkVars, ServiceInv,
                            ServiceTypeOK, LinkTypeOK, HandlersOK
<1>5. CASE EmitDispatch(p)
  <2>1. down' \in Seq(ToPlayer)
    BY <1>1, <1>5, Packets DEF EmitDispatch, ServiceInv, Ids
  <2>2. armed' \subseteq Commands
    BY <1>1, <1>5 DEF EmitDispatch, ServiceInv, ServiceTypeOK
  <2> QED
    BY <1>2, <1>5, <2>1, <2>2 DEF EmitDispatch, ServiceInv, ServiceTypeOK,
                                  LinkTypeOK, HandlersOK
<1> QED
  BY <1>3, <1>4, <1>5

LEMMA TimerSteps ==
    ASSUME ServiceInv, NEW p \in Procs
    PROVE  /\ \A c \in Commands : TimerFires(p, c) => ServiceInv'
           /\ \/ TimerReads(p) \/ TimerRequeues(p) \/ TimerRedispatches(p)
              \/ TimerExpires(p) \/ TimerClears(p)
              => ServiceInv'
<1>1. ASSUME NEW c \in Commands, TimerFires(p, c) PROVE ServiceInv'
  <2>1. Start(p, "timer", "timer.read", c, None, None)
    BY <1>1 DEF TimerFires
  <2>2. HandlersOK'
    <3>1. Shape(HandlerOf("timer", "timer.read", c, None, None))
      BY DEF HandlerOf, Shape, CommandPC, AckPC, ConnectionPC
    <3> QED
      BY <2>1, <3>1, StartUpdate DEF ServiceInv, Ids, Kind, PC
  <2> QED
    BY <1>1, <2>2 DEF TimerFires, linkVars, ServiceInv, ServiceTypeOK,
                      LinkTypeOK, HandlersOK
<1>2. ASSUME \/ TimerReads(p) \/ TimerRequeues(p) \/ TimerRedispatches(p)
             \/ TimerExpires(p) \/ TimerClears(p)
      PROVE  ServiceInv'
  <2> DEFINE c == proc[p].id
  <2>1. c \in Commands
    BY <1>2 DEF ServiceInv, HandlersOK, Shape, CommandPC, At, TimerReads,
                TimerRequeues, TimerRedispatches, TimerExpires, TimerClears
  <2>2. HandlersOK'
    BY <1>2, <2>1, GotoUpdate, FinishUpdate
       DEF ServiceInv, PC, AckPC, ConnectionPC, TimerReads,
           TimerRequeues, TimerRedispatches, TimerExpires, TimerClears
  <2>3. doc' \in [Commands -> Document]
    BY <1>2, <2>1, StatusUpdate
       DEF ServiceInv, ServiceTypeOK, Status, TimerReads,
           TimerRequeues, TimerRedispatches, TimerExpires, TimerClears
  <2>4. armed' \subseteq Commands /\ ended' \subseteq Commands
    BY <1>2, <2>1
       DEF ServiceInv, ServiceTypeOK, TimerReads,
           TimerRequeues, TimerRedispatches, TimerExpires, TimerClears
  <2>5. UNCHANGED <<created, faults, recorded, linkVars>>
    BY <1>2 DEF TimerReads, TimerRequeues, TimerRedispatches, TimerExpires,
                TimerClears
  <2> QED
    BY <2>2, <2>3, <2>4, <2>5 DEF linkVars, ServiceInv, ServiceTypeOK,
                                  LinkTypeOK, HandlersOK
<1> QED
  BY <1>1, <1>2

LEMMA ConnectionSteps ==
    ASSUME ServiceInv, NEW p \in Procs
    PROVE  /\ \A s \in Sockets : Connect(p, s) => ServiceInv'
           /\ \/ JoinRoom(p) \/ ReplayQueued(p) \/ ReplayNext(p)
              \/ StartListening(p)
              => ServiceInv'
<1>1. ASSUME NEW s \in Sockets, Connect(p, s) PROVE ServiceInv'
  <2>1. Start(p, "connection", "join", None, None, s)
    BY <1>1 DEF Connect
  <2>2. HandlersOK'
    <3>1. Shape(HandlerOf("connection", "join", None, None, s))
      BY DEF HandlerOf, Shape, CommandPC, AckPC, ConnectionPC
    <3> QED
      BY <2>1, <3>1, StartUpdate DEF ServiceInv, Kind, PC
  <2> QED
    BY <1>1, <2>2 DEF Connect, ServiceInv, ServiceTypeOK, LinkTypeOK,
                      SocketState, HandlersOK
<1>2. ASSUME \/ JoinRoom(p) \/ ReplayQueued(p) \/ ReplayNext(p)
             \/ StartListening(p)
      PROVE  ServiceInv'
  <2> DEFINE s == proc[p].sk
  <2>1. proc[p] \in Handler /\ Shape(proc[p])
    BY DEF ServiceInv, HandlersOK
  <2>2. proc[p].kind = "connection" /\ s \in Sockets
    BY <1>2, <2>1 DEF Shape, ConnectionPC, At, JoinRoom, ReplayQueued,
                      ReplayNext, StartListening
  <2>3. CASE JoinRoom(p)
    <3>1. sock' \in [Sockets -> SocketState]
      BY <2>2, <2>3, AdvanceUpdate DEF JoinRoom, ServiceInv, SocketState
    <3>2. HandlersOK'
      BY <2>2, <2>3, GotoUpdate
         DEF JoinRoom, ServiceInv, PC, CommandPC, AckPC
    <3> QED
      BY <2>3, <3>1, <3>2
         DEF JoinRoom, ServiceInv, ServiceTypeOK, LinkTypeOK, HandlersOK
  <2>4. CASE ReplayQueued(p)
    <3>1. PICK old \in SUBSET {c \in Expirable : doc[c].status = "queued"} :
            /\ doc' = [c \in Commands |->
                         IF c \in old THEN [doc[c] EXCEPT !.status = "timeout"]
                         ELSE doc[c]]
            /\ ended' = ended \cup old
            /\ proc' = [proc EXCEPT ![p] =
                          [@ EXCEPT !.pc = "replay.next",
                                    !.todo = {c \in Commands \ old :
                                                doc[c].status = "queued"}]]
      BY <2>4 DEF ReplayQueued
    <3>2. old \subseteq Commands
      BY CommandsAssumption
    <3>3. doc' \in [Commands -> Document]
      BY <3>1 DEF ServiceInv, ServiceTypeOK, Document, Status
    <3>4. HandlersOK'
      <4> DEFINE todo == {c \in Commands \ old : doc[c].status = "queued"}
                 h == [proc[p] EXCEPT !.pc = "replay.next", !.todo = todo]
      <4>1. h \in Handler /\ Shape(h)
        <5> todo \in SUBSET Commands
          OBVIOUS
        <5> HIDE DEF todo
        <5> QED
          BY <2>1, <2>2
             DEF Handler, Shape, PC, CommandPC, AckPC, ConnectionPC
      <4> QED
        BY <3>1, <4>1, HandlerUpdate DEF ServiceInv
    <3> QED
      BY <2>4, <3>1, <3>2, <3>3, <3>4
         DEF ReplayQueued, linkVars, ServiceInv, ServiceTypeOK, LinkTypeOK,
             HandlersOK
  <2>5. CASE ReplayNext(p)
    <3>1. PICK c \in proc[p].todo :
            proc' = [proc EXCEPT ![p] =
                       [@ EXCEPT !.pc = "check", !.id = c,
                                 !.todo = proc[p].todo \ {c}]]
      BY <2>5 DEF ReplayNext
    <3>2. HandlersOK'
      <4> DEFINE todo == proc[p].todo \ {c}
                 h == [proc[p] EXCEPT !.pc = "check", !.id = c, !.todo = todo]
      <4>1. c \in Commands /\ todo \in SUBSET Commands
        BY <2>1 DEF Handler
      <4>2. h \in Handler /\ Shape(h)
        <5> HIDE DEF todo
        <5> QED
          BY <2>1, <2>2, <4>1
             DEF Handler, Shape, PC, CommandPC, AckPC, ConnectionPC, Ids
      <4> QED
        BY <3>1, <4>2, HandlerUpdate DEF ServiceInv
    <3> QED
      BY <2>5, <3>2 DEF ReplayNext, linkVars, ServiceInv, ServiceTypeOK,
                        LinkTypeOK, HandlersOK
  <2>6. CASE StartListening(p)
    <3>1. sock' \in [Sockets -> SocketState]
      BY <2>2, <2>6, AdvanceUpdate DEF StartListening, ServiceInv, SocketState
    <3>2. down' \in Seq(ToPlayer)
      BY <2>2, <2>6, Packets DEF StartListening, ServiceInv, Ids, LinkTypeOK
    <3>3. HandlersOK'
      BY <2>6, FinishUpdate DEF StartListening, ServiceInv
    <3> QED
      BY <2>6, <3>1, <3>2, <3>3
         DEF StartListening, ServiceInv, ServiceTypeOK, LinkTypeOK, HandlersOK
  <2> QED
    BY <1>2, <2>3, <2>4, <2>5, <2>6
<1> QED
  BY <1>1, <1>2

LEMMA AckSteps ==
    ASSUME ServiceInv, NEW p \in Procs,
           AckArrives(p) \/ AckReads(p) \/ AckWrites(p) \/ AckFinishes(p)
    PROVE  ServiceInv'
<1>1. CASE AckArrives(p)
  <2>1. /\ Head(up) \in ToBackend /\ up' \in Seq(ToBackend)
        /\ client \in Sockets
    BY <1>1 DEF AckArrives, ServiceInv, LinkTypeOK
  <2>2. HandlersOK'
    <3>1. Shape(HandlerOf("ack", "ack.read", Head(up).id, Head(up).res, client))
      BY <2>1
         DEF HandlerOf, Shape, ToBackend, CommandPC, AckPC, ConnectionPC
    <3> QED
      BY <1>1, <2>1, <3>1, StartUpdate
         DEF AckArrives, ServiceInv, ToBackend, Kind, PC
  <2> QED
    BY <1>1, <2>1, <2>2
       DEF AckArrives, ServiceInv, ServiceTypeOK, LinkTypeOK, HandlersOK
<1>2. CASE AckReads(p)
  <2> DEFINE i == proc[p].id
  <2>1. i \in Ids /\ proc[p].res \in AckStatus /\ proc[p].sk \in Sockets
    BY <1>2 DEF AckReads, At, ServiceInv, HandlersOK, Shape, AckPC
  <2>2. down' \in Seq(ToPlayer)
    BY <1>2, <2>1, Packets DEF AckReads, ServiceInv, LinkTypeOK
  <2>3. HandlersOK'
    BY <1>2, <2>1, GotoUpdate, FinishUpdate
       DEF AckReads, Found, ServiceInv, PC, ConnectionPC
  <2> QED
    BY <1>2, <2>2, <2>3
       DEF AckReads, ServiceInv, ServiceTypeOK, LinkTypeOK, HandlersOK
<1>3. CASE AckWrites(p)
  <2> DEFINE c == proc[p].id
  <2>1. c \in Commands /\ proc[p].res \in AckStatus /\ proc[p].sk \in Sockets
    BY <1>3 DEF AckWrites, At, ServiceInv, HandlersOK, Shape, CommandPC, AckPC
  <2>2. StatusOf(proc[p].res) \in Status
    BY <2>1 DEF StatusOf, AckStatus, Results, Status
  <2>3. doc' \in [Commands -> Document]
    BY <1>3, <2>1, <2>2, StatusUpdate DEF AckWrites, ServiceInv, ServiceTypeOK
  <2>4. recorded' \subseteq Commands /\ ended' \subseteq Commands
    BY <1>3, <2>1 DEF AckWrites, ServiceInv, ServiceTypeOK
  <2>5. HandlersOK'
    BY <1>3, <2>1, GotoUpdate DEF AckWrites, ServiceInv, Ids, PC, ConnectionPC
  <2> QED
    BY <1>3, <2>3, <2>4, <2>5 DEF AckWrites, linkVars, ServiceInv,
                                  ServiceTypeOK, LinkTypeOK, HandlersOK
<1>4. CASE AckFinishes(p)
  <2>1. proc[p].id \in Commands
    BY <1>4 DEF AckFinishes, At, ServiceInv, HandlersOK, Shape, CommandPC
  <2>2. down' \in Seq(ToPlayer)
    BY <1>4, <2>1, Packets DEF AckFinishes, ServiceInv, Ids
  <2>3. HandlersOK'
    BY <1>4, FinishUpdate DEF AckFinishes, ServiceInv
  <2>4. armed' \subseteq Commands
    BY <1>4 DEF AckFinishes, ServiceInv, ServiceTypeOK
  <2> QED
    BY <1>4, <2>2, <2>3, <2>4
       DEF AckFinishes, ServiceInv, ServiceTypeOK, LinkTypeOK, HandlersOK
<1> QED
  BY <1>1, <1>2, <1>3, <1>4

LEMMA AckDroppedStep ==
    ASSUME ServiceInv, AckDropped
    PROVE  ServiceInv'
<1>1. up' \in Seq(ToBackend)
  BY DEF AckDropped, ServiceInv, LinkTypeOK
<1> QED
  BY <1>1 DEF AckDropped, serviceVars, ServiceInv, ServiceTypeOK, LinkTypeOK,
              HandlersOK

LEMMA FaultStep ==
    ASSUME ServiceInv, NEW p \in Procs, DatabaseFault(p)
    PROVE  ServiceInv'
<1>1. sock' \in [Sockets -> SocketState]
  <2>1. CASE proc[p].kind = "connection"
    <3>1. proc[p].sk \in Sockets
      BY <2>1 DEF ServiceInv, HandlersOK, Shape
    <3> QED
      BY <2>1, <3>1, AdvanceUpdate DEF DatabaseFault, ServiceInv, SocketState
  <2>2. CASE proc[p].kind # "connection"
    BY <2>2 DEF DatabaseFault, ServiceInv, LinkTypeOK
  <2> QED
    BY <2>1, <2>2
<1>2. faults' \in 0..MaxFaults
  BY BoundsAssumption DEF DatabaseFault, ServiceInv, ServiceTypeOK
<1>3. armed' \subseteq Commands
  BY DEF DatabaseFault, ServiceInv, ServiceTypeOK
<1>4. HandlersOK'
  BY FinishUpdate DEF DatabaseFault, ServiceInv
<1> QED
  BY <1>1, <1>2, <1>3, <1>4
     DEF DatabaseFault, ServiceInv, ServiceTypeOK, LinkTypeOK, HandlersOK

LEMMA RestartStep ==
    ASSUME ServiceInv, BackendRestarts
    PROVE  ServiceInv'
<1>1. \A c \in Commands : RecoveredStatus(c) \in Status
  BY DEF RecoveredStatus, ServiceInv, ServiceTypeOK, Document, Status
<1>2. doc' \in [Commands -> Document]
  BY <1>1 DEF BackendRestarts, RecoverPendingCommands, ServiceInv,
              ServiceTypeOK, Document
<1>3. armed' \subseteq Commands /\ ended' \subseteq Commands
  BY DEF BackendRestarts, RecoverPendingCommands, ServiceInv, ServiceTypeOK
<1>4. HandlersOK'
  BY IdleShape DEF BackendRestarts, HandlersOK
<1>5. LinkTypeOK'
  BY DEF BackendRestarts, ServiceInv, LinkTypeOK, SocketState
<1> QED
  BY <1>2, <1>3, <1>4, <1>5
     DEF BackendRestarts, ServiceInv, ServiceTypeOK, HandlersOK

LEMMA LinkStep ==
    ASSUME ServiceInv, LinkNext
    PROVE  ServiceInv'
<1>1. LinkTypeOK'
  <2> USE DEF ServiceInv, LinkTypeOK, SocketState
  <2>1. CASE PlayerLosesSocket
    BY <2>1 DEF PlayerLosesSocket
  <2>2. ASSUME NEW s \in Sockets, BackendDropsSocket(s) PROVE LinkTypeOK'
    BY <2>2 DEF BackendDropsSocket
  <2>3. CASE PlayerSeesClose
    BY <2>3 DEF PlayerSeesClose
  <2> QED
    BY <2>1, <2>2, <2>3 DEF LinkNext
<1> QED
  BY <1>1 DEF LinkNext, serviceVars, ServiceInv, ServiceTypeOK, HandlersOK

-----------------------------------------------------------------------------

LEMMA ServiceInitInv == LinkInit /\ ServiceInit => ServiceInv
<1> SUFFICES ASSUME LinkInit, ServiceInit PROVE ServiceInv
  OBVIOUS
<1>1. ServiceTypeOK /\ HandlersOK
  <2>1. [status |-> "absent", attempts |-> 0] \in Document
    BY MaxAttemptsAssumption DEF Document, Status
  <2>2. HandlersOK
    BY IdleShape DEF ServiceInit, HandlersOK
  <2>3. doc \in [Commands -> Document]
    BY <2>1 DEF ServiceInit
  <2>4. faults \in 0..MaxFaults
    BY BoundsAssumption DEF ServiceInit
  <2> QED
    BY <2>2, <2>3, <2>4 DEF ServiceInit, ServiceTypeOK, HandlersOK
<1>2. LinkTypeOK
  BY DEF LinkInit, LinkTypeOK, SocketState
<1> QED
  BY <1>1, <1>2 DEF ServiceInv

LEMMA ServiceNextInv == ServiceInv /\ ServiceNext => ServiceInv'
<1> SUFFICES ASSUME ServiceInv, ServiceNext PROVE ServiceInv'
  OBVIOUS
<1>1. ASSUME NEW p \in Procs, HandlerStarts(p) PROVE ServiceInv'
  BY <1>1, PostSteps, TimerSteps, ConnectionSteps, AckSteps DEF HandlerStarts
<1>2. ASSUME NEW p \in Procs, HandlerStep(p) PROVE ServiceInv'
  BY <1>2, PostSteps, DispatchSteps, TimerSteps, ConnectionSteps, AckSteps
     DEF HandlerStep
<1> QED
  BY <1>1, <1>2, FaultStep, AckDroppedStep, RestartStep DEF ServiceNext

LEMMA ServiceStutterInv ==
    ServiceInv /\ UNCHANGED <<serviceVars, linkVars>> => ServiceInv'
BY DEF serviceVars, linkVars, ServiceInv, ServiceTypeOK, LinkTypeOK, HandlersOK

-----------------------------------------------------------------------------
(* Attempts: how often a command is tried, and when it is given up         *)

(***************************************************************************)
(* A timer callback decides to give up at one await and writes at the      *)
(* next.  Its decision stays right in between because no handler takes an  *)
(* attempt back, and a command without a document has none.                *)
(***************************************************************************)
ExpiresExhausted ==
    \A p \in Procs :
        At(p, "timer.expire") => doc[proc[p].id].attempts = MaxAttempts

AbsentUntried ==
    \A c \in Commands : doc[c].status = "absent" => doc[c].attempts = 0

AttemptsGrow == \A c \in Commands : doc'[c].attempts >= doc[c].attempts

LEMMA Documents ==
    ASSUME ServiceInv
    PROVE  /\ doc \in [Commands -> Document]
           /\ \A c \in Commands : doc[c].attempts \in 0..MaxAttempts
BY DEF ServiceInv, ServiceTypeOK, Document

\* The attempts of a document only grow, and every document that appears
\* starts without any.
LEMMA StepAttempts ==
    ASSUME ServiceInv, AbsentUntried, ServiceNext
    PROVE  AttemptsGrow /\ AbsentUntried'
<1>1. /\ doc \in [Commands -> Document]
      /\ \A c \in Commands : doc[c].attempts \in 0..MaxAttempts
  BY Documents
<1>2. \A c \in Commands : doc[c].attempts \in Nat
  BY <1>1, MaxAttemptsAssumption
<1>3. ASSUME UNCHANGED doc PROVE AttemptsGrow /\ AbsentUntried'
  BY <1>2, <1>3 DEF AttemptsGrow, AbsentUntried
<1>4. ASSUME NEW c \in Commands, NEW status \in Status \ {"absent"},
             SetStatus(c, status)
      PROVE  AttemptsGrow /\ AbsentUntried'
  BY <1>1, <1>2, <1>4 DEF SetStatus, Document, AttemptsGrow, AbsentUntried
<1>5. ASSUME NEW p \in Procs, HandlerStep(p) PROVE AttemptsGrow /\ AbsentUntried'
  <2> DEFINE c == proc[p].id
  <2>1. CASE CreateCommand(p)
    BY <1>1, <1>2, <1>3, <2>1
       DEF CreateCommand, AttemptsGrow, AbsentUntried
  <2>2. CASE ClaimDispatch(p)
    BY <1>1, <1>2, <1>3, <2>2
       DEF ClaimDispatch, AttemptsGrow, AbsentUntried
  <2>3. CASE TimerRequeues(p) \/ TimerExpires(p)
    <3>1. c \in Commands
      BY <2>3 DEF TimerRequeues, TimerExpires, At, ServiceInv,
                  HandlersOK, Shape, CommandPC
    <3> QED
      BY <1>4, <2>3, <3>1 DEF TimerRequeues, TimerExpires, Status
  <2>4. CASE AckWrites(p)
    <3>1. c \in Commands /\ proc[p].res \in AckStatus
      BY <2>4 DEF AckWrites, At, ServiceInv, HandlersOK, Shape,
                  CommandPC, AckPC
    <3>2. StatusOf(proc[p].res) \in Status \ {"absent"}
      BY <3>1 DEF StatusOf, AckStatus, Results, Status
    <3> QED
      BY <1>4, <2>4, <3>1, <3>2 DEF AckWrites
  <2>5. CASE ReplayQueued(p)
    BY <1>1, <1>2, <2>5
       DEF ReplayQueued, Document, AttemptsGrow, AbsentUntried
  <2>6. CASE UNCHANGED doc
    BY <1>3, <2>6
  <2> QED
    BY <1>5, <2>1, <2>2, <2>3, <2>4, <2>5, <2>6
       DEF HandlerStep, CheckDispatch, CheckRoom, EmitDispatch, TimerReads,
           TimerRedispatches, TimerClears, JoinRoom, ReplayNext,
           StartListening, AckReads, AckFinishes
<1>6. CASE BackendRestarts
  BY <1>1, <1>2, <1>6
     DEF BackendRestarts, RecoverPendingCommands, RecoveredStatus,
         Document, AttemptsGrow, AbsentUntried
<1>7. ASSUME NEW p \in Procs, HandlerStarts(p) \/ DatabaseFault(p)
      PROVE  UNCHANGED doc
  BY <1>7 DEF HandlerStarts, PostCommand, TimerFires, Connect, AckArrives,
              DatabaseFault
<1>8. CASE AckDropped
  BY <1>3, <1>8 DEF AckDropped, serviceVars
<1> QED
  BY <1>3, <1>5, <1>6, <1>7, <1>8 DEF ServiceNext

\* Only a callback that has found no attempt left comes to give up.
LEMMA ReachesExpire ==
    ASSUME ServiceInv, ServiceNext, NEW p \in Procs, At(p, "timer.expire")'
    PROVE  /\ proc'[p].id = proc[p].id
           /\ At(p, "timer.expire") \/ ~HasAttemptLeft(proc[p].id)
<1>1. \A q \in Procs : proc[q] \in Handler
  BY DEF ServiceInv, HandlersOK
<1>2. proc \in [Procs -> Handler]
  BY DEF ServiceInv, HandlersOK
<1>3. Idle.pc # "timer.expire"
  BY DEF Idle, HandlerOf
<1>4. ASSUME NEW q \in Procs, NEW kind, NEW pc, NEW i, NEW res, NEW s,
             Start(q, kind, pc, i, res, s), pc # "timer.expire"
      PROVE  proc'[p] = proc[p]
  BY <1>2, <1>4 DEF Start, HandlerOf, At
<1>5. ASSUME NEW q \in Procs, Finish(q) PROVE proc'[p] = proc[p]
  BY <1>2, <1>3, <1>5 DEF Finish, At
<1>6. ASSUME NEW q \in Procs, ReturnFromDispatch(q) PROVE proc'[p] = proc[p]
  BY <1>1, <1>2, <1>3, <1>6 DEF ReturnFromDispatch, AfterDispatch, Handler, At
<1>7. ASSUME NEW q \in Procs, NEW pc, pc # "timer.expire", Goto(q, pc)
      PROVE  proc'[p] = proc[p]
  BY <1>1, <1>2, <1>7 DEF Goto, Handler, At
<1>8. ASSUME NEW q \in Procs, HandlerStarts(q) PROVE proc'[p] = proc[p]
  BY <1>4, <1>8 DEF HandlerStarts, PostCommand, TimerFires, Connect, AckArrives
<1>9. ASSUME NEW q \in Procs, HandlerStep(q)
      PROVE  \/ proc'[p] = proc[p]
             \/ /\ proc'[p].id = proc[p].id
                /\ ~HasAttemptLeft(proc[p].id)
  <2>1. CASE TimerReads(q)
    <3>1. CASE Goto(q, "timer.expire") /\ ~HasAttemptLeft(proc[q].id)
      BY <1>1, <1>2, <3>1 DEF Goto, Handler
    <3> QED
      BY <1>5, <1>7, <2>1, <3>1 DEF TimerReads
  <2>2. CASE ReplayQueued(q) \/ ReplayNext(q)
    <3>1. CASE ReplayQueued(q)
      BY <1>1, <1>2, <3>1 DEF ReplayQueued, Handler, At
    <3>2. CASE ReplayNext(q)
      BY <1>1, <1>2, <3>2 DEF ReplayNext, Handler, At
    <3> QED
      BY <2>2, <3>1, <3>2
  <2>3. CASE CreateCommand(q) \/ CheckDispatch(q) \/ CheckRoom(q) \/ ClaimDispatch(q)
             \/ EmitDispatch(q) \/ TimerRequeues(q) \/ TimerRedispatches(q)
             \/ TimerExpires(q) \/ TimerClears(q) \/ JoinRoom(q)
    BY <1>5, <1>6, <1>7, <2>3
       DEF CreateCommand, CheckDispatch, CheckRoom, ClaimDispatch, EmitDispatch,
           TimerRequeues, TimerRedispatches, TimerExpires, TimerClears, JoinRoom
  <2>4. CASE StartListening(q) \/ AckReads(q) \/ AckWrites(q) \/ AckFinishes(q)
    BY <1>5, <1>7, <2>4 DEF StartListening, AckReads, AckWrites, AckFinishes
  <2> QED
    BY <1>9, <2>1, <2>2, <2>3, <2>4 DEF HandlerStep
<1>10. ASSUME NEW q \in Procs, DatabaseFault(q) PROVE proc'[p] = proc[p]
  BY <1>5, <1>10 DEF DatabaseFault
<1>11. CASE BackendRestarts
  BY <1>3, <1>11 DEF BackendRestarts, At
<1>12. CASE AckDropped
  BY <1>12 DEF AckDropped, serviceVars, At
<1> QED
  BY <1>8, <1>9, <1>10, <1>11, <1>12 DEF ServiceNext, At

LEMMA ServiceDecides ==
    ASSUME ServiceInv, AbsentUntried, ExpiresExhausted, ServiceNext
    PROVE  ExpiresExhausted'
<1> SUFFICES ASSUME NEW p \in Procs, At(p, "timer.expire")'
             PROVE  doc'[proc'[p].id].attempts = MaxAttempts
  BY DEF ExpiresExhausted
<1> DEFINE c == proc[p].id
<1>1. ServiceInv' /\ AttemptsGrow
  BY ServiceNextInv, StepAttempts
<1>2. proc'[p].id = c /\ (At(p, "timer.expire") \/ ~HasAttemptLeft(c))
  BY ReachesExpire
<1>3. c \in Commands
  BY <1>1, <1>2 DEF ServiceInv, HandlersOK, Shape, CommandPC, At
<1>4. doc[c].attempts \in 0..MaxAttempts /\ doc'[c].attempts \in 0..MaxAttempts
  BY <1>1, <1>3 DEF ServiceInv, ServiceTypeOK, Document
<1>5. doc[c].attempts = MaxAttempts
  BY <1>2, <1>4, MaxAttemptsAssumption DEF HasAttemptLeft, ExpiresExhausted
<1> QED
  BY <1>1, <1>2, <1>3, <1>4, <1>5, MaxAttemptsAssumption DEF AttemptsGrow

-----------------------------------------------------------------------------
(* The dispatch of a command: it is passed on, never doubled               *)

(***************************************************************************)
(* A command that waits to be sent is in one place: its document is        *)
(* "queued", or one handler holds the attempt it has claimed, or its timer *)
(* is armed, or one callback of the timer is about to requeue it.  The     *)
(* claim, the emission, the timer and its callback pass it on; everything  *)
(* else leaves it alone or takes it away.                                  *)
(***************************************************************************)
HolderPC == {"emit", "timer.read", "timer.requeue"}
DocumentPC == HolderPC \cup {"timer.expire", "ack.write"}
HasTurn(h, c) == h.id = c /\ h.pc \in HolderPC
Touches(h, c) == h.id = c /\ h.pc \in DocumentPC

OneTurn ==
    \A c \in Commands, p, q \in Procs :
        HasTurn(proc[p], c) /\ HasTurn(proc[q], c) => p = q
TurnIsAlone ==
    \A c \in Commands, p \in Procs :
        HasTurn(proc[p], c) => c \notin armed /\ doc[c].status # "queued"
ArmedIsAlone == \A c \in Commands : c \in armed => doc[c].status # "queued"

\* A command goes back to the queue, and waits in it, with an attempt left.
RequeuesWithin == \A p \in Procs : At(p, "timer.requeue") => HasAttemptLeft(proc[p].id)
QueuedWithin == \A c \in Commands : doc[c].status = "queued" => HasAttemptLeft(c)

\* Nothing is about to write a document that does not exist.
AbsentUntouched ==
    \A c \in Commands :
        doc[c].status = "absent" =>
            c \notin armed /\ \A p \in Procs : ~Touches(proc[p], c)

TurnsOK ==
    /\ OneTurn /\ TurnIsAlone /\ ArmedIsAlone
    /\ RequeuesWithin /\ QueuedWithin
    /\ AbsentUntouched

\* A step that takes no turn, arms no timer and queues no command.
CalmDocuments ==
    \A c \in Commands :
        \/ doc'[c] = doc[c]
        \/ doc'[c].attempts = doc[c].attempts /\ doc'[c].status \notin {"queued", "absent"}

LEMMA CalmStep ==
    ASSUME ServiceInv, TurnsOK, NEW p \in Procs, NEW h,
           proc' = [proc EXCEPT ![p] = h], armed' \subseteq armed, CalmDocuments,
           \A c \in Commands : HasTurn(h, c) => HasTurn(proc[p], c),
           \A c \in Commands : Touches(h, c) => doc'[c].status # "absent",
           h.pc = "timer.requeue" => h.id \in Commands /\ HasAttemptLeft(h.id)
    PROVE  TurnsOK'
<1>1. \A q \in Procs : proc'[q] = IF q = p THEN h ELSE proc[q]
  BY DEF ServiceInv, HandlersOK
<1>2. OneTurn'
  BY <1>1 DEF TurnsOK, OneTurn
<1>3. TurnIsAlone' /\ ArmedIsAlone'
  BY <1>1 DEF TurnsOK, TurnIsAlone, ArmedIsAlone, CalmDocuments
<1>4. RequeuesWithin'
  <2>1. ASSUME NEW q \in Procs, At(q, "timer.requeue")'
        PROVE  proc'[q].id \in Commands /\ HasAttemptLeft(proc'[q].id)
    BY <1>1, <2>1
       DEF TurnsOK, RequeuesWithin, At, ServiceInv, HandlersOK, Shape, CommandPC
  <2> QED
    BY <2>1 DEF RequeuesWithin, HasAttemptLeft, CalmDocuments
<1>5. QueuedWithin'
  BY DEF TurnsOK, QueuedWithin, HasAttemptLeft, CalmDocuments
<1>6. AbsentUntouched'
  BY <1>1 DEF TurnsOK, AbsentUntouched, CalmDocuments
<1> QED
  BY <1>2, <1>3, <1>4, <1>5, <1>6 DEF TurnsOK

LEMMA IdleHasNoTurn == Idle.pc = "idle" /\ \A c : ~HasTurn(Idle, c) /\ ~Touches(Idle, c)
BY DEF Idle, HandlerOf, HasTurn, Touches, HolderPC, DocumentPC

LEMMA CalmFinish ==
    ASSUME ServiceInv, TurnsOK, NEW p \in Procs, Finish(p), armed' \subseteq armed, CalmDocuments
    PROVE  TurnsOK'
BY IdleHasNoTurn, CalmStep DEF Finish

LEMMA CalmReturn ==
    ASSUME ServiceInv, TurnsOK, NEW p \in Procs, ReturnFromDispatch(p),
           armed' \subseteq armed, CalmDocuments
    PROVE  TurnsOK'
<1> DEFINE h == AfterDispatch(p)
<1>1. h.pc \in {"idle", "replay.next"}
  BY IdleHasNoTurn DEF ServiceInv, HandlersOK, Handler, AfterDispatch
<1>2. \A c : ~HasTurn(h, c) /\ ~Touches(h, c)
  BY <1>1 DEF HasTurn, Touches, HolderPC, DocumentPC
<1>3. proc' = [proc EXCEPT ![p] = h]
  BY DEF ReturnFromDispatch
<1> HIDE DEF h
<1> QED
  BY <1>1, <1>2, <1>3, CalmStep

LEMMA CalmGoto ==
    ASSUME ServiceInv, TurnsOK, NEW p \in Procs, NEW pc \in PC, Goto(p, pc),
           armed' \subseteq armed, CalmDocuments,
           pc \in HolderPC => proc[p].pc \in HolderPC,
           pc \in DocumentPC => doc'[proc[p].id].status # "absent",
           pc = "timer.requeue" => proc[p].id \in Commands /\ HasAttemptLeft(proc[p].id)
    PROVE  TurnsOK'
<1> DEFINE h == [proc[p] EXCEPT !.pc = pc]
<1>1. h.pc = pc /\ h.id = proc[p].id
  BY DEF ServiceInv, HandlersOK, Handler
<1>2. proc' = [proc EXCEPT ![p] = h]
  BY DEF Goto
<1> HIDE DEF h
<1>3. \A c \in Commands : HasTurn(h, c) => HasTurn(proc[p], c)
  BY <1>1 DEF HasTurn
<1>4. \A c \in Commands : Touches(h, c) => doc'[c].status # "absent"
  BY <1>1 DEF Touches
<1>5. h.pc = "timer.requeue" => h.id \in Commands /\ HasAttemptLeft(h.id)
  BY <1>1 DEF HasAttemptLeft
<1> QED
  BY <1>2, <1>3, <1>4, <1>5, CalmStep

LEMMA CalmStart ==
    ASSUME ServiceInv, TurnsOK, NEW p \in Procs, NEW kind, NEW pc, NEW i, NEW res, NEW s,
           Start(p, kind, pc, i, res, s), pc \notin DocumentPC,
           armed' \subseteq armed, CalmDocuments
    PROVE  TurnsOK'
<1> DEFINE h == HandlerOf(kind, pc, i, res, s)
<1>1. h.pc = pc /\ proc' = [proc EXCEPT ![p] = h]
  BY DEF HandlerOf, Start
<1> HIDE DEF h
<1> QED
  BY <1>1, CalmStep DEF HasTurn, Touches, HolderPC, DocumentPC

-----------------------------------------------------------------------------

\* The claim and the emission: queued, claimed, armed.
LEMMA DispatchTurns ==
    ASSUME ServiceInv, TurnsOK, NEW p \in Procs,
           CheckDispatch(p) \/ CheckRoom(p) \/ ClaimDispatch(p) \/ EmitDispatch(p)
    PROVE  TurnsOK'
<1> DEFINE c == proc[p].id
<1>1. c \in Commands /\ doc \in [Commands -> Document]
  BY DEF ServiceInv, ServiceTypeOK, HandlersOK, Shape, CommandPC, At, CheckDispatch,
         CheckRoom, ClaimDispatch, EmitDispatch
<1>2. CASE CheckDispatch(p) \/ CheckRoom(p)
  BY <1>2, CalmGoto, CalmReturn
     DEF CheckDispatch, CheckRoom, PC, HolderPC, DocumentPC, CalmDocuments
<1>3. CASE ClaimDispatch(p)
  <2>1. CASE ~Claimable(c)
    BY <1>3, <2>1, CalmReturn DEF ClaimDispatch, CalmDocuments
  <2>2. CASE Claimable(c)
    <3> DEFINE h == [proc[p] EXCEPT !.pc = "emit"]
    <3>1. /\ doc' = [doc EXCEPT ![c] = [status |-> "sent", attempts |-> doc[c].attempts + 1]]
          /\ proc' = [proc EXCEPT ![p] = h] /\ UNCHANGED armed
      BY <1>3, <2>2 DEF ClaimDispatch, Goto
    <3>2. h.pc = "emit" /\ h.id = c
      BY DEF ServiceInv, HandlersOK, Handler
    <3>3. \A q \in Procs : proc'[q] = IF q = p THEN h ELSE proc[q]
      BY <3>1 DEF ServiceInv, HandlersOK
    <3> HIDE DEF h
    <3>4. /\ \A d \in Commands \ {c} : doc'[d] = doc[d]
          /\ doc'[c].status = "sent" /\ doc[c].status = "queued"
      BY <1>1, <2>2, <3>1 DEF Claimable
    <3>5. \A q \in Procs : ~HasTurn(proc[q], c)
      BY <1>1, <3>4 DEF TurnsOK, TurnIsAlone
    <3>6. c \notin armed
      BY <1>1, <3>4 DEF TurnsOK, ArmedIsAlone
    <3>7. OneTurn' /\ TurnIsAlone' /\ ArmedIsAlone'
      BY <1>1, <3>1, <3>2, <3>3, <3>4, <3>5, <3>6
         DEF TurnsOK, OneTurn, TurnIsAlone, ArmedIsAlone, HasTurn
    <3>8. RequeuesWithin'
      <4>1. ASSUME NEW q \in Procs, At(q, "timer.requeue")'
            PROVE  HasAttemptLeft(proc[q].id) /\ proc'[q].id = proc[q].id
                   /\ proc[q].id \in Commands \ {c}
        <5>1. proc'[q] = proc[q] /\ At(q, "timer.requeue")
          BY <3>2, <3>3, <4>1 DEF At
        <5> QED
          BY <3>5, <5>1
             DEF TurnsOK, RequeuesWithin, HasTurn, HolderPC, At, ServiceInv, HandlersOK,
                 Shape, CommandPC
      <4> QED
        BY <3>4, <4>1 DEF RequeuesWithin, HasAttemptLeft
    <3>9. QueuedWithin' /\ AbsentUntouched'
      BY <1>1, <3>1, <3>2, <3>3, <3>4
         DEF TurnsOK, QueuedWithin, AbsentUntouched, HasAttemptLeft, Touches
    <3> QED
      BY <3>7, <3>8, <3>9 DEF TurnsOK
  <2> QED
    BY <2>1, <2>2
<1>4. CASE EmitDispatch(p)
  <2> DEFINE h == AfterDispatch(p)
  <2>1. UNCHANGED doc /\ armed' = armed \cup {c} /\ proc' = [proc EXCEPT ![p] = h]
        /\ HasTurn(proc[p], c)
    BY <1>4 DEF EmitDispatch, ReturnFromDispatch, HasTurn, HolderPC, At
  <2>2. \A d : ~HasTurn(h, d) /\ ~Touches(h, d)
    BY IdleHasNoTurn
       DEF ServiceInv, HandlersOK, Handler, AfterDispatch, HasTurn, Touches, HolderPC, DocumentPC
  <2>3. h.pc # "timer.requeue"
    BY IdleHasNoTurn DEF ServiceInv, HandlersOK, Handler, AfterDispatch
  <2>4. \A q \in Procs : proc'[q] = IF q = p THEN h ELSE proc[q]
    BY <2>1 DEF ServiceInv, HandlersOK
  <2> HIDE DEF h
  <2>5. doc[c].status \notin {"queued", "absent"}
    BY <1>1, <2>1
       DEF TurnsOK, TurnIsAlone, AbsentUntouched, HasTurn, Touches, DocumentPC
  <2>6. OneTurn' /\ TurnIsAlone' /\ ArmedIsAlone'
    BY <1>1, <2>1, <2>2, <2>4, <2>5 DEF TurnsOK, OneTurn, TurnIsAlone, ArmedIsAlone
  <2>7. RequeuesWithin' /\ QueuedWithin' /\ AbsentUntouched'
    BY <1>1, <2>1, <2>2, <2>3, <2>4, <2>5
       DEF TurnsOK, RequeuesWithin, QueuedWithin, AbsentUntouched, HasAttemptLeft, At
  <2> QED
    BY <2>6, <2>7 DEF TurnsOK
<1> QED
  BY <1>2, <1>3, <1>4

\* The callback of a timer: armed, read, requeued or given up.
LEMMA TimerTurns ==
    ASSUME ServiceInv, TurnsOK, NEW p \in Procs
    PROVE  /\ \A c \in Commands : TimerFires(p, c) => TurnsOK'
           /\ \/ TimerReads(p) \/ TimerRequeues(p) \/ TimerRedispatches(p)
              \/ TimerExpires(p) \/ TimerClears(p)
              => TurnsOK'
<1>1. ASSUME NEW c \in Commands, TimerFires(p, c) PROVE TurnsOK'
  <2> DEFINE h == HandlerOf("timer", "timer.read", c, None, None)
  <2>1. UNCHANGED doc /\ armed' = armed \ {c} /\ c \in armed /\ proc' = [proc EXCEPT ![p] = h]
    BY <1>1 DEF TimerFires, Start
  <2>2. h.id = c /\ h.pc = "timer.read"
    BY DEF HandlerOf
  <2>3. \A q \in Procs : proc'[q] = IF q = p THEN h ELSE proc[q]
    BY <2>1 DEF ServiceInv, HandlersOK
  <2> HIDE DEF h
  <2>4. /\ \A q \in Procs : ~HasTurn(proc[q], c)
        /\ doc[c].status \notin {"queued", "absent"}
    BY <2>1 DEF TurnsOK, TurnIsAlone, ArmedIsAlone, AbsentUntouched
  <2>5. OneTurn' /\ TurnIsAlone' /\ ArmedIsAlone'
    BY <2>1, <2>2, <2>3, <2>4 DEF TurnsOK, OneTurn, TurnIsAlone, ArmedIsAlone, HasTurn
  <2>6. RequeuesWithin' /\ QueuedWithin' /\ AbsentUntouched'
    BY <2>1, <2>2, <2>3, <2>4
       DEF TurnsOK, RequeuesWithin, QueuedWithin, AbsentUntouched, HasAttemptLeft, At, Touches
  <2> QED
    BY <2>5, <2>6 DEF TurnsOK
<1>2. ASSUME \/ TimerReads(p) \/ TimerRequeues(p) \/ TimerRedispatches(p)
             \/ TimerExpires(p) \/ TimerClears(p)
      PROVE  TurnsOK'
  <2> DEFINE c == proc[p].id
  <2>1. c \in Commands /\ doc \in [Commands -> Document] /\ armed \subseteq Commands
    BY <1>2 DEF ServiceInv, ServiceTypeOK, HandlersOK, Shape, CommandPC, At, TimerReads,
                TimerRequeues, TimerRedispatches, TimerExpires, TimerClears
  <2>2. CASE TimerReads(p)
    <3>1. doc[c].status # "absent"
      BY <2>1, <2>2 DEF TimerReads, TurnsOK, AbsentUntouched, Touches, At, DocumentPC, HolderPC
    <3>2. proc[p].pc \in HolderPC /\ CalmDocuments /\ armed' \subseteq armed
      BY <2>2 DEF TimerReads, At, HolderPC, CalmDocuments
    <3> QED
      BY <2>1, <2>2, <3>1, <3>2, CalmGoto, CalmFinish DEF TimerReads, PC
  <2>3. CASE TimerRequeues(p)
    <3> DEFINE h == [proc[p] EXCEPT !.pc = "timer.redispatch"]
    <3>1. /\ doc' = [doc EXCEPT ![c] = [doc[c] EXCEPT !.status = "queued"]]
          /\ proc' = [proc EXCEPT ![p] = h] /\ UNCHANGED armed
          /\ HasTurn(proc[p], c) /\ HasAttemptLeft(c)
      BY <2>1, <2>3
         DEF TimerRequeues, SetStatus, Goto, HasTurn, HolderPC, At, TurnsOK, RequeuesWithin
    <3>2. h.pc = "timer.redispatch" /\ h.id = c
      BY DEF ServiceInv, HandlersOK, Handler
    <3>3. \A q \in Procs : proc'[q] = IF q = p THEN h ELSE proc[q]
      BY <3>1 DEF ServiceInv, HandlersOK
    <3> HIDE DEF h
    <3>4. /\ \A d \in Commands \ {c} : doc'[d] = doc[d]
          /\ doc'[c].status = "queued" /\ \A d \in Commands : doc'[d].attempts = doc[d].attempts
      BY <2>1, <3>1 DEF Document
    <3>5. \A d : ~HasTurn(h, d) /\ ~Touches(h, d)
      BY <3>2 DEF HasTurn, Touches, HolderPC, DocumentPC
    <3>6. \A q \in Procs \ {p} : ~HasTurn(proc[q], c)
      BY <2>1, <3>1 DEF TurnsOK, OneTurn
    <3>7. c \notin armed
      BY <2>1, <3>1 DEF TurnsOK, TurnIsAlone
    <3>8. OneTurn' /\ TurnIsAlone' /\ ArmedIsAlone'
      BY <2>1, <3>1, <3>3, <3>4, <3>5, <3>6, <3>7
         DEF TurnsOK, OneTurn, TurnIsAlone, ArmedIsAlone, HasTurn
    <3>9. RequeuesWithin'
      <4>1. ASSUME NEW q \in Procs, At(q, "timer.requeue")'
            PROVE  /\ HasAttemptLeft(proc[q].id) /\ proc'[q].id = proc[q].id
                   /\ proc[q].id \in Commands
        <5>1. proc'[q] = proc[q] /\ At(q, "timer.requeue")
          BY <3>2, <3>3, <4>1 DEF At
        <5> QED
          BY <5>1 DEF TurnsOK, RequeuesWithin, At, ServiceInv, HandlersOK, Shape, CommandPC
      <4> QED
        BY <3>4, <4>1 DEF RequeuesWithin, HasAttemptLeft
    <3>10. QueuedWithin' /\ AbsentUntouched'
      BY <2>1, <3>1, <3>3, <3>4, <3>5
         DEF TurnsOK, QueuedWithin, AbsentUntouched, HasAttemptLeft
    <3> QED
      BY <3>8, <3>9, <3>10 DEF TurnsOK
  <2>4. CASE TimerExpires(p)
    <3>1. CalmDocuments /\ UNCHANGED armed
      BY <2>1, <2>4 DEF TimerExpires, SetStatus, Document, CalmDocuments
    <3> QED
      BY <2>4, <3>1, CalmGoto DEF TimerExpires, PC, HolderPC, DocumentPC
  <2>5. CASE TimerRedispatches(p) \/ TimerClears(p)
    BY <2>5, CalmGoto, CalmFinish
       DEF TimerRedispatches, TimerClears, PC, HolderPC, DocumentPC, CalmDocuments
  <2> QED
    BY <1>2, <2>2, <2>3, <2>4, <2>5
<1> QED
  BY <1>1, <1>2

\* POST /commands: the document appears, queued and with all its attempts.
LEMMA PostTurns ==
    ASSUME ServiceInv, AbsentUntried, TurnsOK, NEW p \in Procs
    PROVE  /\ \A c \in Commands : PostCommand(p, c) => TurnsOK'
           /\ CreateCommand(p) => TurnsOK'
<1>1. ASSUME NEW c \in Commands, PostCommand(p, c) PROVE TurnsOK'
  BY <1>1, CalmStart DEF PostCommand, DocumentPC, HolderPC, CalmDocuments
<1>2. ASSUME CreateCommand(p) PROVE TurnsOK'
  <2> DEFINE c == proc[p].id
  <2>1. c \in Commands /\ doc \in [Commands -> Document]
    BY <1>2 DEF CreateCommand, ServiceInv, ServiceTypeOK, HandlersOK, Shape, CommandPC, At
  <2>2. CASE doc[c].status # "absent"
    BY <1>2, <2>2, CalmFinish DEF CreateCommand, CalmDocuments
  <2>3. CASE doc[c].status = "absent"
    <3> DEFINE h == [proc[p] EXCEPT !.pc = "check"]
    <3>1. /\ doc' = [doc EXCEPT ![c] = [status |-> "queued", attempts |-> 0]]
          /\ proc' = [proc EXCEPT ![p] = h] /\ UNCHANGED armed
      BY <1>2, <2>3 DEF CreateCommand, Goto
    <3>2. h.pc = "check"
      BY DEF ServiceInv, HandlersOK, Handler
    <3>3. \A q \in Procs : proc'[q] = IF q = p THEN h ELSE proc[q]
      BY <3>1 DEF ServiceInv, HandlersOK
    <3> HIDE DEF h
    <3>4. /\ \A d \in Commands \ {c} : doc'[d] = doc[d]
          /\ doc'[c].status = "queued" /\ doc'[c].attempts = 0
      BY <2>1, <3>1
    <3>5. \A d : ~HasTurn(h, d) /\ ~Touches(h, d)
      BY <3>2 DEF HasTurn, Touches, HolderPC, DocumentPC
    <3>6. c \notin armed /\ \A q \in Procs : ~HasTurn(proc[q], c)
      BY <2>1, <2>3 DEF TurnsOK, AbsentUntouched, HasTurn, Touches, DocumentPC
    <3>7. OneTurn' /\ TurnIsAlone' /\ ArmedIsAlone'
      BY <2>1, <3>1, <3>3, <3>4, <3>5, <3>6
         DEF TurnsOK, OneTurn, TurnIsAlone, ArmedIsAlone, HasTurn
    <3>8. RequeuesWithin'
      <4>1. ASSUME NEW q \in Procs, At(q, "timer.requeue")'
            PROVE  /\ HasAttemptLeft(proc[q].id) /\ proc'[q].id = proc[q].id
                   /\ proc[q].id \in Commands \ {c}
        <5>1. proc'[q] = proc[q] /\ At(q, "timer.requeue")
          BY <3>2, <3>3, <4>1 DEF At
        <5> QED
          BY <3>6, <5>1
             DEF TurnsOK, RequeuesWithin, HasTurn, HolderPC, At, ServiceInv, HandlersOK,
                 Shape, CommandPC
      <4> QED
        BY <3>4, <4>1 DEF RequeuesWithin, HasAttemptLeft
    <3>9. QueuedWithin' /\ AbsentUntouched'
      BY <2>1, <3>1, <3>3, <3>4, <3>5, MaxAttemptsAssumption
         DEF TurnsOK, QueuedWithin, AbsentUntouched, HasAttemptLeft
    <3> QED
      BY <3>7, <3>8, <3>9 DEF TurnsOK
  <2> QED
    BY <2>2, <2>3
<1> QED
  BY <1>1, <1>2

\* Connections and acknowledgements take no turn, and queue nothing.
LEMMA OtherTurns ==
    ASSUME ServiceInv, TurnsOK, NEW p \in Procs,
           \/ \E s \in Sockets : Connect(p, s)
           \/ JoinRoom(p) \/ ReplayQueued(p) \/ ReplayNext(p) \/ StartListening(p)
           \/ AckArrives(p) \/ AckReads(p) \/ AckWrites(p) \/ AckFinishes(p)
           \/ DatabaseFault(p)
    PROVE  TurnsOK'
<1>1. doc \in [Commands -> Document] /\ proc[p] \in Handler
  BY DEF ServiceInv, ServiceTypeOK, HandlersOK
<1>2. CASE (\E s \in Sockets : Connect(p, s)) \/ AckArrives(p)
  BY <1>2, CalmStart DEF Connect, AckArrives, DocumentPC, HolderPC, CalmDocuments
<1>3. CASE JoinRoom(p) \/ StartListening(p) \/ AckFinishes(p) \/ DatabaseFault(p)
  BY <1>3, CalmGoto, CalmFinish
     DEF JoinRoom, StartListening, AckFinishes, DatabaseFault, PC, HolderPC, DocumentPC,
         CalmDocuments
<1>4. CASE ReplayQueued(p)
  <2>1. PICK old \in SUBSET {c \in Expirable : doc[c].status = "queued"} :
          /\ doc' = [c \in Commands |->
                       IF c \in old THEN [doc[c] EXCEPT !.status = "timeout"] ELSE doc[c]]
          /\ proc' = [proc EXCEPT ![p] =
                        [@ EXCEPT !.pc = "replay.next",
                                  !.todo = {c \in Commands \ old : doc[c].status = "queued"}]]
    BY <1>4 DEF ReplayQueued
  <2>2. UNCHANGED armed
    BY <1>4 DEF ReplayQueued
  <2> DEFINE todo == {c \in Commands \ old : doc[c].status = "queued"}
  <2> DEFINE h == [proc[p] EXCEPT !.pc = "replay.next", !.todo = todo]
  <2>3. h.pc = "replay.next"
    BY <1>1 DEF Handler
  <2>4. CalmDocuments
    BY <1>1, <2>1 DEF CalmDocuments, Document
  <2>5. proc' = [proc EXCEPT ![p] = h]
    BY <2>1
  <2> HIDE DEF h
  <2> QED
    BY <2>2, <2>3, <2>4, <2>5, CalmStep DEF HasTurn, Touches, HolderPC, DocumentPC
<1>5. CASE ReplayNext(p)
  <2>1. PICK c, todo :
          proc' = [proc EXCEPT ![p] = [proc[p] EXCEPT !.pc = "check", !.id = c, !.todo = todo]]
    BY <1>5 DEF ReplayNext
  <2> DEFINE h == [proc[p] EXCEPT !.pc = "check", !.id = c, !.todo = todo]
  <2>2. h.pc = "check"
    BY <1>1 DEF Handler
  <2>3. CalmDocuments /\ UNCHANGED armed
    BY <1>5 DEF ReplayNext, CalmDocuments
  <2>4. proc' = [proc EXCEPT ![p] = h]
    BY <2>1
  <2> HIDE DEF h
  <2> QED
    BY <2>2, <2>3, <2>4, CalmStep DEF HasTurn, Touches, HolderPC, DocumentPC
<1>6. CASE AckReads(p)
  <2>1. CalmDocuments /\ UNCHANGED armed
    BY <1>6 DEF AckReads, CalmDocuments
  <2>2. CASE Finish(p)
    BY <2>1, <2>2, CalmFinish
  <2>3. CASE Found(proc[p].id) /\ Goto(p, "ack.write")
    <3>1. doc'[proc[p].id].status # "absent"
      BY <1>6, <2>3 DEF AckReads, Found
    <3> QED
      BY <2>1, <2>3, <3>1, CalmGoto DEF PC, HolderPC
  <2> QED
    BY <1>6, <2>2, <2>3 DEF AckReads
<1>7. CASE AckWrites(p)
  <2>1. proc[p].id \in Commands /\ StatusOf(proc[p].res) \notin {"queued", "absent"}
    BY <1>7
       DEF AckWrites, At, ServiceInv, HandlersOK, Shape, CommandPC, AckPC, StatusOf, AckStatus,
           Results
  <2>2. CalmDocuments /\ UNCHANGED armed /\ Goto(p, "ack.finish")
    BY <1>1, <1>7, <2>1 DEF AckWrites, SetStatus, Document, CalmDocuments
  <2> QED
    BY <2>2, CalmGoto DEF PC, HolderPC, DocumentPC
<1> QED
  BY <1>2, <1>3, <1>4, <1>5, <1>6, <1>7

\* A restart arms a timer for what was acknowledged and queues what was sent.
LEMMA RestartTurns ==
    ASSUME ServiceInv, TurnsOK, BackendRestarts
    PROVE  TurnsOK'
<1>1. /\ doc' = [c \in Commands |-> [doc[c] EXCEPT !.status = RecoveredStatus(c)]]
      /\ armed' = {c \in Commands : doc[c].status = "acknowledged"}
      /\ \A p \in Procs : proc'[p] = Idle
      /\ doc \in [Commands -> Document]
  BY DEF BackendRestarts, RecoverPendingCommands, ServiceInv, ServiceTypeOK
<1>2. \A c \in Commands : /\ doc'[c].attempts = doc[c].attempts
                         /\ doc'[c].status = RecoveredStatus(c)
  BY <1>1 DEF Document
<1>3. OneTurn' /\ TurnIsAlone' /\ RequeuesWithin'
  BY <1>1, IdleHasNoTurn DEF OneTurn, TurnIsAlone, RequeuesWithin, At
<1>4. ArmedIsAlone'
  BY <1>1, <1>2 DEF ArmedIsAlone, RecoveredStatus
<1>5. QueuedWithin'
  BY <1>2 DEF TurnsOK, QueuedWithin, HasAttemptLeft, RecoveredStatus
<1>6. AbsentUntouched'
  BY <1>1, <1>2, IdleHasNoTurn DEF AbsentUntouched, RecoveredStatus
<1> QED
  BY <1>3, <1>4, <1>5, <1>6 DEF TurnsOK

DispatchInv == ServiceInv /\ AbsentUntried /\ ExpiresExhausted /\ TurnsOK

LEMMA DispatchInitInv == LinkInit /\ ServiceInit => DispatchInv
<1> SUFFICES ASSUME LinkInit, ServiceInit PROVE DispatchInv
  OBVIOUS
<1>1. ServiceInv
  BY ServiceInitInv
<1>2. AbsentUntried /\ ExpiresExhausted
  BY IdleHasNoTurn DEF ServiceInit, AbsentUntried, ExpiresExhausted, At
<1>3. TurnsOK
  BY IdleHasNoTurn
     DEF ServiceInit, TurnsOK, OneTurn, TurnIsAlone, ArmedIsAlone, RequeuesWithin,
         QueuedWithin, AbsentUntouched, At
<1> QED
  BY <1>1, <1>2, <1>3 DEF DispatchInv

LEMMA DispatchNextInv ==
    ASSUME DispatchInv, ServiceNext
    PROVE  DispatchInv' /\ AttemptsGrow
<1>1. ServiceInv' /\ AttemptsGrow /\ AbsentUntried' /\ ExpiresExhausted'
  BY ServiceNextInv, StepAttempts, ServiceDecides DEF DispatchInv
<1>2. TurnsOK'
  <2>1. ASSUME NEW p \in Procs, HandlerStarts(p) \/ HandlerStep(p) \/ DatabaseFault(p)
        PROVE  TurnsOK'
    BY <2>1, PostTurns, DispatchTurns, TimerTurns, OtherTurns
       DEF DispatchInv, HandlerStarts, HandlerStep
  <2>2. CASE AckDropped
    BY <2>2
       DEF AckDropped, serviceVars, DispatchInv, TurnsOK, OneTurn, TurnIsAlone, ArmedIsAlone,
           RequeuesWithin, QueuedWithin, AbsentUntouched, HasAttemptLeft, At
  <2> QED
    BY <2>1, <2>2, RestartTurns DEF ServiceNext, DispatchInv
<1> QED
  BY <1>1, <1>2 DEF DispatchInv

\* What leaves the service alone leaves its decisions alone.
LEMMA DispatchStutterInv ==
    ASSUME DispatchInv, UNCHANGED serviceVars, ServiceInv'
    PROVE  DispatchInv'
BY DEF serviceVars, DispatchInv, AbsentUntried, ExpiresExhausted, TurnsOK, OneTurn,
       TurnIsAlone, ArmedIsAlone, RequeuesWithin, QueuedWithin, AbsentUntouched,
       HasAttemptLeft, At

-----------------------------------------------------------------------------
(* The backend against any client                                          *)

BackendInv == DispatchInv /\ CreatedOnce

-----------------------------------------------------------------------------

\* A document is created once: only a POST whose create finds none adds one,
\* and nothing else makes a document appear or disappear.
LEMMA CreatesOnce ==
    ASSUME BackendInv, ServiceNext
    PROVE  CreatedOnce'
<1> USE DEF BackendInv, DispatchInv
<1>1. doc \in [Commands -> Document] /\ created \in Seq(Commands)
  BY DEF ServiceInv, ServiceTypeOK
<1>2. ASSUME UNCHANGED created,
             \A c \in Commands : doc'[c].status = "absent" <=> doc[c].status = "absent"
      PROVE  CreatedOnce'
  BY <1>2 DEF CreatedOnce
<1>3. ASSUME NEW p \in Procs, HandlerStep(p) PROVE CreatedOnce'
  <2> DEFINE c == proc[p].id
  <2>1. CASE CreateCommand(p) /\ doc[c].status = "absent"
    <3>1. c \in Commands
      BY <2>1 DEF CreateCommand, At, ServiceInv, HandlersOK, Shape, CommandPC
    <3>2. /\ doc' = [doc EXCEPT ![c] = [status |-> "queued", attempts |-> 0]]
          /\ created' = Append(created, c)
      BY <2>1 DEF CreateCommand
    <3>3. /\ Len(created') = Len(created) + 1 /\ created'[Len(created) + 1] = c
          /\ \A k \in 1..Len(created) : created'[k] = created[k]
      BY <1>1, <3>1, <3>2
    <3>4. \A k \in 1..Len(created) : created[k] # c
      BY <2>1, <3>1 DEF CreatedOnce
    <3>5. \A j, k \in 1..Len(created') : created'[j] = created'[k] => j = k
      BY <1>1, <3>3, <3>4 DEF CreatedOnce
    <3>6. ASSUME NEW d \in Commands
          PROVE  doc'[d].status # "absent" <=> \E k \in 1..Len(created') : created'[k] = d
      <4>1. CASE d = c
        <5>1. doc'[d].status = "queued"
          BY <1>1, <3>1, <3>2, <4>1
        <5>2. Len(created) + 1 \in 1..Len(created')
          BY <1>1, <3>3
        <5> QED
          BY <3>3, <4>1, <5>1, <5>2
      <4>2. CASE d # c
        <5>1. doc'[d] = doc[d]
          BY <1>1, <3>1, <3>2, <4>2
        <5>2. (\E k \in 1..Len(created') : created'[k] = d)
                <=> \E k \in 1..Len(created) : created[k] = d
          BY <1>1, <3>3, <4>2
        <5> QED
          BY <5>1, <5>2 DEF CreatedOnce
      <4> QED
        BY <4>1, <4>2
    <3> QED
      BY <3>5, <3>6 DEF CreatedOnce
  <2>2. CASE CreateCommand(p) /\ doc[c].status # "absent"
    BY <1>2, <2>2 DEF CreateCommand
  <2>3. CASE ClaimDispatch(p)
    <3>1. c \in Commands
      BY <2>3 DEF ClaimDispatch, At, ServiceInv, HandlersOK, Shape, CommandPC
    <3> QED
      BY <1>1, <1>2, <2>3, <3>1 DEF ClaimDispatch, Claimable
  <2>4. CASE TimerRequeues(p) \/ TimerExpires(p) \/ AckWrites(p)
    <3>1. PICK status \in Status \ {"absent"} : SetStatus(c, status)
      <4>1. AckWrites(p) => proc[p].res \in AckStatus
        BY DEF AckWrites, At, ServiceInv, HandlersOK, Shape, AckPC
      <4>2. AckWrites(p) => StatusOf(proc[p].res) \in Status \ {"absent"}
        BY <4>1 DEF StatusOf, AckStatus, Results, Status
      <4> QED
        BY <2>4, <4>2 DEF TimerRequeues, TimerExpires, AckWrites, Status
    <3>2. c \in Commands /\ Touches(proc[p], c)
      BY <2>4 DEF TimerRequeues, TimerExpires, AckWrites, At, Touches, DocumentPC, HolderPC,
                  ServiceInv, HandlersOK, Shape, CommandPC
    <3>3. doc[c].status # "absent"
      BY <3>2 DEF TurnsOK, AbsentUntouched
    <3>4. \A d \in Commands : doc'[d].status = "absent" <=> doc[d].status = "absent"
      BY <1>1, <3>1, <3>2, <3>3 DEF SetStatus, Document
    <3>5. UNCHANGED created
      BY <2>4 DEF TimerRequeues, TimerExpires, AckWrites
    <3> QED
      BY <1>2, <3>4, <3>5
  <2>5. CASE ReplayQueued(p)
    BY <1>1, <1>2, <2>5 DEF ReplayQueued, Document
  <2>6. CASE UNCHANGED <<doc, created>>
    BY <1>2, <2>6
  <2> QED
    BY <1>3, <2>1, <2>2, <2>3, <2>4, <2>5, <2>6
       DEF HandlerStep, CheckDispatch, CheckRoom, EmitDispatch, TimerReads,
           TimerRedispatches, TimerClears, JoinRoom, ReplayNext,
           StartListening, AckReads, AckFinishes
<1>4. CASE BackendRestarts
  BY <1>1, <1>2, <1>4
     DEF BackendRestarts, RecoverPendingCommands, RecoveredStatus, Document
<1>5. ASSUME NEW p \in Procs, HandlerStarts(p) \/ DatabaseFault(p)
      PROVE  UNCHANGED <<doc, created>>
  BY <1>5 DEF HandlerStarts, PostCommand, TimerFires, Connect, AckArrives, DatabaseFault
<1>6. CASE AckDropped
  BY <1>2, <1>6 DEF AckDropped, serviceVars
<1> QED
  BY <1>2, <1>3, <1>4, <1>5, <1>6 DEF ServiceNext

LEMMA BackendKeeps ==
    ASSUME BackendInv, ServiceNext
    PROVE  BackendInv' /\ AttemptsGrow
BY DispatchNextInv, CreatesOnce DEF BackendInv

\* Steps of the connection and of the client leave the documents alone.
LEMMA ClientSteps ==
    ASSUME BackendInv,
           \/ LinkNext
           \/ \E i \in Ids, res \in AckStatus : ClientSends(i, res)
           \/ ClientReceives
           \/ UNCHANGED anyClientVars
    PROVE  BackendInv' /\ UNCHANGED serviceVars
<1>1. UNCHANGED serviceVars
  BY DEF LinkNext, ClientSends, ClientReceives, anyClientVars
<1>2. CreatedOnce'
  BY <1>1 DEF BackendInv, serviceVars, CreatedOnce
<1>3. ServiceInv'
  <2>1. CASE LinkNext
    BY <2>1, LinkStep DEF BackendInv, DispatchInv
  <2>2. ASSUME NEW i \in Ids, NEW res \in AckStatus, ClientSends(i, res)
        PROVE  ServiceInv'
    <3>1. [id |-> i, res |-> res] \in ToBackend
      BY DEF ToBackend
    <3>2. up' \in Seq(ToBackend)
      BY <2>2, <3>1 DEF ClientSends, BackendInv, DispatchInv, ServiceInv, LinkTypeOK
    <3> QED
      BY <2>2, <3>2 DEF ClientSends, serviceVars, BackendInv, DispatchInv, ServiceInv,
                        ServiceTypeOK, LinkTypeOK, HandlersOK
  <2>3. CASE ClientReceives
    <3>1. down' \in Seq(ToPlayer)
      BY <2>3 DEF ClientReceives, BackendInv, DispatchInv, ServiceInv, LinkTypeOK
    <3> QED
      BY <2>3, <3>1 DEF ClientReceives, serviceVars, BackendInv, DispatchInv, ServiceInv,
                        ServiceTypeOK, LinkTypeOK, HandlersOK
  <2>4. CASE UNCHANGED anyClientVars
    BY <2>4, ServiceStutterInv DEF BackendInv, DispatchInv, anyClientVars
  <2> QED
    BY <2>1, <2>2, <2>3, <2>4
<1> QED
  BY <1>1, <1>2, <1>3, DispatchStutterInv DEF BackendInv

LEMMA BackendInit == AnyClientInit => BackendInv
BY DispatchInitInv DEF AnyClientInit, BackendInv, ServiceInit, CreatedOnce

LEMMA BackendNext == BackendInv /\ [AnyClientNext]_anyClientVars => BackendInv'
BY BackendKeeps, ClientSteps DEF AnyClientNext

LEMMA BackendInvariant == AnyClientSpec => []BackendInv
BY BackendInit, BackendNext, PTL DEF AnyClientSpec

-----------------------------------------------------------------------------

\* The service and the connection keep their types against any client.
THEOREM AnyClientTypes == AnyClientSpec => []AnyClientTypeOK
<1>1. BackendInv => AnyClientTypeOK
  BY DEF BackendInv, DispatchInv, ServiceInv, AnyClientTypeOK
<1> QED
  BY <1>1, BackendInvariant, PTL

\* No handler, restart or acknowledgement takes an attempt back.
THEOREM AttemptsMonotonic == AnyClientSpec => AttemptsOnlyGrow
<1>1. BackendInv /\ [AnyClientNext]_anyClientVars =>
        [\A c \in Commands : doc'[c].attempts >= doc[c].attempts]_anyClientVars
  <2> SUFFICES ASSUME BackendInv, [AnyClientNext]_anyClientVars
               PROVE  AttemptsGrow \/ UNCHANGED anyClientVars
    BY DEF AttemptsGrow
  <2>1. CASE ServiceNext
    BY <2>1, BackendKeeps
  <2>2. CASE UNCHANGED serviceVars
    <3>1. \A c \in Commands : doc[c].attempts \in Nat
      BY Documents, MaxAttemptsAssumption DEF BackendInv, DispatchInv
    <3> QED
      BY <2>2, <3>1 DEF serviceVars, AttemptsGrow
  <2> QED
    BY <2>1, <2>2, ClientSteps DEF AnyClientNext
<1> QED
  BY <1>1, BackendInvariant, PTL DEF AnyClientSpec, AttemptsOnlyGrow

\* A command times out only after its last attempt, or unsent after a day:
\* also when callbacks, replays and recovery decide on what they read before.
THEOREM GivenUpExhausted == AnyClientSpec => GivenUpOnlyWhenExhausted
<1> DEFINE GiveUp == \A c \in Commands :
         doc[c].status # "timeout" /\ doc'[c].status = "timeout" =>
           doc[c].attempts = MaxAttempts \/ doc[c].status = "queued"
<1>1. ASSUME BackendInv, ServiceNext PROVE GiveUp
  <2>1. /\ doc \in [Commands -> Document]
        /\ \A c \in Commands : doc[c].attempts \in 0..MaxAttempts
    BY <1>1, Documents DEF BackendInv, DispatchInv
  <2>2. ASSUME NEW p \in Procs, HandlerStep(p) PROVE GiveUp
    <3> DEFINE c == proc[p].id
    <3>1. CASE TimerExpires(p)
      <4>1. doc[c].attempts = MaxAttempts
        BY <1>1, <3>1 DEF TimerExpires, BackendInv, DispatchInv, ExpiresExhausted
      <4> QED
        BY <2>1, <3>1, <4>1 DEF TimerExpires, SetStatus, Document
    <3>2. CASE AckWrites(p)
      <4>1. proc[p].res \in AckStatus
        BY <1>1, <3>2 DEF AckWrites, At, BackendInv, DispatchInv, ServiceInv, HandlersOK, Shape,
                          AckPC
      <4>2. StatusOf(proc[p].res) # "timeout"
        BY <4>1 DEF StatusOf, AckStatus, Results
      <4> QED
        BY <2>1, <3>2, <4>2 DEF AckWrites, SetStatus, Document
    <3>3. CASE ReplayQueued(p)
      BY <2>1, <3>3 DEF ReplayQueued
    <3>4. CASE CreateCommand(p) \/ ClaimDispatch(p) \/ TimerRequeues(p)
      <4>1. CASE CreateCommand(p)
        <5>1. \/ doc' = [doc EXCEPT ![c] = [status |-> "queued", attempts |-> 0]]
              \/ UNCHANGED doc
          BY <4>1 DEF CreateCommand
        <5> QED
          BY <2>1, <5>1
      <4>2. CASE ClaimDispatch(p)
        BY <2>1, <4>2 DEF ClaimDispatch, SetStatus, Document
      <4>3. CASE TimerRequeues(p)
        BY <2>1, <4>3 DEF TimerRequeues, SetStatus, Document
      <4> QED
        BY <3>4, <4>1, <4>2, <4>3
    <3>5. CASE UNCHANGED doc
      BY <3>5
    <3> QED
      BY <2>2, <3>1, <3>2, <3>3, <3>4, <3>5
         DEF HandlerStep, CheckDispatch, CheckRoom, EmitDispatch, TimerReads,
             TimerRedispatches, TimerClears, JoinRoom, ReplayNext,
             StartListening, AckReads, AckFinishes
  <2>3. CASE BackendRestarts
    BY <2>1, <2>3, MaxAttemptsAssumption
       DEF BackendRestarts, RecoverPendingCommands, RecoveredStatus,
           HasAttemptLeft, Document
  <2>4. ASSUME NEW p \in Procs, HandlerStarts(p) \/ DatabaseFault(p)
        PROVE  UNCHANGED doc
    BY <2>4 DEF HandlerStarts, PostCommand, TimerFires, Connect, AckArrives,
                DatabaseFault
  <2>5. CASE AckDropped
    BY <2>5 DEF AckDropped, serviceVars
  <2> QED
    BY <1>1, <2>2, <2>3, <2>4, <2>5 DEF ServiceNext
<1>2. BackendInv /\ [AnyClientNext]_anyClientVars => [GiveUp]_anyClientVars
  <2> SUFFICES ASSUME BackendInv, [AnyClientNext]_anyClientVars PROVE GiveUp
    OBVIOUS
  <2>1. CASE UNCHANGED serviceVars
    BY <2>1 DEF serviceVars
  <2> QED
    BY <1>1, <2>1, ClientSteps DEF AnyClientNext
<1> QED
  BY <1>2, BackendInvariant, PTL DEF AnyClientSpec, GivenUpOnlyWhenExhausted

(***************************************************************************)
(* However POSTs, timer callbacks and replays overlap, one of them emits   *)
(* an attempt: the claim takes the command out of the queue, and only the  *)
(* timer that the emission arms, or a restart, puts it back.               *)
(***************************************************************************)
THEOREM OneDispatcher == AnyClientSpec => []SingleDispatcher
<1>1. BackendInv => SingleDispatcher
  BY DEF BackendInv, DispatchInv, TurnsOK, OneTurn, HasTurn, HolderPC, SingleDispatcher, At
<1> QED
  BY <1>1, BackendInvariant, PTL

(***************************************************************************)
(* One command_id has one document, however many POSTs of it overlap, and  *)
(* no acknowledgement or callback makes a document of a command that was   *)
(* never posted.                                                           *)
(***************************************************************************)
THEOREM OneDocument == AnyClientSpec => []CreatedOnce
<1>1. BackendInv => CreatedOnce
  BY DEF BackendInv
<1> QED
  BY <1>1, BackendInvariant, PTL

-----------------------------------------------------------------------------
(* The pipeline: the service, a connection and the player                  *)

(***************************************************************************)
(* Why a result leaves the store safely: {accepted: true} is only ever     *)
(* answered for a command that has ended.  A handler holds a result it was *)
(* sent (the player never sends a mere receipt), so when it comes to its   *)
(* answer the document it wrote has ended; a document found terminal ended *)
(* before.  The answers under way keep that, because `ended` only grows.   *)
(***************************************************************************)
AckShape(h, over) ==
    /\ h.pc \in AckPC => h.res \in Results
    /\ h.pc = "ack.finish" => h.id \in over

AcksOK == \A p \in Procs : AckShape(proc[p], ended)
TerminalHasEnded == \A c \in Commands : Terminal(c) => c \in ended

Harmless(msg, over) ==
    /\ msg.id \in CommandIds
    /\ msg.type = "accepted" => msg.id \in over

PacketsOK ==
    /\ \A k \in 1..Len(down) : Harmless(down[k], ended)
    /\ \A k \in 1..Len(up) : up[k].res \in Results

IInv ==
    /\ ServiceInv
    /\ PlayerTypeOK
    /\ AcksOK
    /\ TerminalHasEnded
    /\ PacketsOK
    /\ ResultNeverLost

-----------------------------------------------------------------------------
(* The service: `ended` grows with every terminal status                   *)

LEMMA IdSets == Commands \subseteq CommandIds /\ CommandIds \subseteq Ids
BY IdsAssumption DEF Ids

LEMMA KeepsAcks ==
    ASSUME HandlersOK, AcksOK, ended \subseteq ended',
           NEW p \in Procs, NEW h, AckShape(h, ended'),
           proc' = [proc EXCEPT ![p] = h]
    PROVE  AcksOK'
<1>1. ASSUME NEW q \in Procs PROVE AckShape(proc'[q], ended')
  <2>1. AckShape(proc[q], ended)
    BY DEF AcksOK
  <2>2. proc'[q] = IF q = p THEN h ELSE proc[q]
    BY DEF HandlersOK
  <2> QED
    BY <2>1, <2>2 DEF AckShape
<1> QED
  BY <1>1 DEF AcksOK

LEMMA FinishKeepsAcks ==
    ASSUME HandlersOK, AcksOK, ended \subseteq ended', NEW p \in Procs, Finish(p)
    PROVE  AcksOK'
<1>1. AckShape(Idle, ended')
  BY DEF AckShape, Idle, HandlerOf, AckPC
<1> QED
  BY <1>1, KeepsAcks DEF Finish

LEMMA GotoKeepsAcks ==
    ASSUME HandlersOK, AcksOK, ended \subseteq ended', NEW p \in Procs,
           NEW pc \in PC, Goto(p, pc),
           pc \in AckPC => proc[p].res \in Results,
           pc = "ack.finish" => proc[p].id \in ended'
    PROVE  AcksOK'
<1> DEFINE h == [proc[p] EXCEPT !.pc = pc]
<1>1. h.pc = pc /\ h.res = proc[p].res /\ h.id = proc[p].id
  BY DEF HandlersOK, Handler
<1>2. AckShape(h, ended')
  BY <1>1 DEF AckShape
<1>3. proc' = [proc EXCEPT ![p] = h]
  BY DEF Goto
<1> HIDE DEF h
<1> QED
  BY <1>2, <1>3, KeepsAcks

LEMMA ReturnKeepsAcks ==
    ASSUME HandlersOK, AcksOK, ended \subseteq ended', NEW p \in Procs,
           ReturnFromDispatch(p)
    PROVE  AcksOK'
<1> DEFINE h == AfterDispatch(p)
<1>1. h.pc \notin AckPC
  BY DEF HandlersOK, Handler, AfterDispatch, Idle, HandlerOf, AckPC
<1>2. AckShape(h, ended')
  BY <1>1 DEF AckShape, AckPC
<1>3. proc' = [proc EXCEPT ![p] = h]
  BY DEF ReturnFromDispatch
<1> HIDE DEF h
<1> QED
  BY <1>2, <1>3, KeepsAcks

LEMMA StartKeepsAcks ==
    ASSUME HandlersOK, AcksOK, ended \subseteq ended', NEW p \in Procs,
           NEW kind, NEW pc, NEW i, NEW res, NEW s,
           Start(p, kind, pc, i, res, s),
           pc # "ack.finish", pc \in AckPC => res \in Results
    PROVE  AcksOK'
<1>1. AckShape(HandlerOf(kind, pc, i, res, s), ended')
  BY DEF AckShape, HandlerOf
<1> QED
  BY <1>1, KeepsAcks DEF Start

\* A packet that goes to the player, or none, keeps the packets harmless.
LEMMA KeepsPackets ==
    ASSUME LinkTypeOK, PacketsOK, ended \subseteq ended',
           NEW msg, Harmless(msg, ended'),
           down' = down \/ down' = Append(down, msg),
           UNCHANGED up
    PROVE  PacketsOK'
<1>1. ASSUME NEW k \in 1..Len(down) PROVE Harmless(down[k], ended')
  BY DEF PacketsOK, Harmless
<1>2. CASE down' = down
  BY <1>1, <1>2 DEF PacketsOK
<1>3. CASE down' = Append(down, msg)
  <2>1. ASSUME NEW k \in 1..Len(down') PROVE Harmless(down'[k], ended')
    <3>1. CASE k \in 1..Len(down)
      BY <1>1, <1>3, <3>1 DEF LinkTypeOK
    <3>2. CASE k = Len(down) + 1
      BY <1>3, <3>2 DEF LinkTypeOK
    <3> QED
      BY <1>3, <2>1, <3>1, <3>2 DEF LinkTypeOK
  <2> QED
    BY <2>1 DEF PacketsOK
<1> QED
  BY <1>2, <1>3

-----------------------------------------------------------------------------

\* The handler steps that neither write a document nor end a command.
Quiet(p) ==
    \/ CheckDispatch(p) \/ CheckRoom(p) \/ EmitDispatch(p)
    \/ TimerReads(p) \/ TimerRedispatches(p) \/ TimerClears(p)
    \/ JoinRoom(p) \/ ReplayNext(p) \/ StartListening(p)
    \/ AckReads(p) \/ AckFinishes(p)

LEMMA QuietSteps ==
    ASSUME NEW p \in Procs, Quiet(p)
    PROVE  UNCHANGED <<doc, ended>>
BY DEF Quiet, CheckDispatch, CheckRoom, EmitDispatch, TimerReads, TimerRedispatches,
       TimerClears, JoinRoom, ReplayNext, StartListening, AckReads,
       AckFinishes, linkVars

LEMMA StartSteps ==
    ASSUME NEW p \in Procs, HandlerStarts(p)
    PROVE  UNCHANGED <<doc, ended>>
BY DEF HandlerStarts, PostCommand, TimerFires, Connect, AckArrives

\* A command whose status becomes terminal has ended, and stays so.
LEMMA ServiceEnds ==
    ASSUME ServiceInv, TerminalHasEnded, ServiceNext
    PROVE  ended \subseteq ended' /\ TerminalHasEnded'
<1>1. doc \in [Commands -> Document]
  BY DEF ServiceInv, ServiceTypeOK
<1>2. ASSUME UNCHANGED <<doc, ended>>
      PROVE  ended \subseteq ended' /\ TerminalHasEnded'
  BY <1>2 DEF TerminalHasEnded, Terminal
<1>3. ASSUME NEW p \in Procs, HandlerStep(p)
      PROVE  ended \subseteq ended' /\ TerminalHasEnded'
  <2> DEFINE c == proc[p].id
  <2>1. CASE CreateCommand(p)
    BY <1>1, <2>1
       DEF CreateCommand, TerminalHasEnded, Terminal, TerminalStatus
  <2>2. CASE ClaimDispatch(p)
    BY <1>1, <2>2
       DEF ClaimDispatch, TerminalHasEnded, Terminal, TerminalStatus
  <2>3. CASE TimerRequeues(p)
    BY <1>1, <2>3 DEF TimerRequeues, SetStatus, Document, TerminalHasEnded,
                      Terminal, TerminalStatus
  <2>4. CASE TimerExpires(p)
    BY <1>1, <2>4 DEF TimerExpires, SetStatus, Document, TerminalHasEnded,
                      Terminal, TerminalStatus
  <2>5. CASE ReplayQueued(p)
    BY <1>1, <2>5 DEF ReplayQueued, Document, TerminalHasEnded, Terminal,
                      TerminalStatus
  <2>6. CASE AckWrites(p)
    <3>1. proc[p].res \in AckStatus
      BY <2>6 DEF AckWrites, At, ServiceInv, HandlersOK, Shape, AckPC
    <3>2. StatusOf(proc[p].res) \in TerminalStatus => proc[p].res \in Results
      BY <3>1 DEF StatusOf, AckStatus, Results, TerminalStatus
    <3> QED
      BY <1>1, <2>6, <3>2
         DEF AckWrites, SetStatus, Document, TerminalHasEnded, Terminal
  <2>7. CASE Quiet(p)
    BY <1>2, <2>7, QuietSteps
  <2> QED
    BY <1>3, <2>1, <2>2, <2>3, <2>4, <2>5, <2>6, <2>7 DEF HandlerStep, Quiet
<1>4. CASE BackendRestarts
  BY <1>1, <1>4
     DEF BackendRestarts, RecoverPendingCommands, RecoveredStatus, Document,
         TerminalHasEnded, Terminal, TerminalStatus
<1>5. ASSUME NEW p \in Procs, HandlerStarts(p) \/ DatabaseFault(p)
      PROVE  ended \subseteq ended' /\ TerminalHasEnded'
  BY <1>2, <1>5, StartSteps DEF DatabaseFault
<1>6. CASE AckDropped
  BY <1>2, <1>6 DEF AckDropped, serviceVars
<1> QED
  BY <1>3, <1>4, <1>5, <1>6 DEF ServiceNext

\* A handler that comes to its answer has recorded a result.
LEMMA ServiceAcks ==
    ASSUME ServiceInv, AcksOK, TerminalHasEnded, PacketsOK, ServiceNext
    PROVE  AcksOK'
<1>1. ended \subseteq ended' /\ HandlersOK
  BY ServiceEnds DEF ServiceInv
<1>2. ASSUME NEW p \in Procs, HandlerStarts(p) PROVE AcksOK'
  <2>1. ASSUME NEW c \in Commands, PostCommand(p, c) \/ TimerFires(p, c)
        PROVE  AcksOK'
    BY <1>1, <2>1, StartKeepsAcks DEF PostCommand, TimerFires, AckPC
  <2>2. ASSUME NEW s \in Sockets, Connect(p, s) PROVE AcksOK'
    BY <1>1, <2>2, StartKeepsAcks DEF Connect, AckPC
  <2>3. CASE AckArrives(p)
    <3>1. Head(up).res \in Results
      BY <2>3 DEF AckArrives, PacketsOK, ServiceInv, LinkTypeOK
    <3>2. Start(p, "ack", "ack.read", Head(up).id, Head(up).res, client)
      BY <2>3 DEF AckArrives
    <3> QED
      BY <1>1, <3>1, <3>2, StartKeepsAcks
  <2> QED
    BY <1>2, <2>1, <2>2, <2>3 DEF HandlerStarts
<1>3. ASSUME NEW p \in Procs, HandlerStep(p) PROVE AcksOK'
  <2>1. CASE CreateCommand(p) \/ TimerReads(p) \/ TimerRequeues(p)
             \/ TimerRedispatches(p) \/ TimerExpires(p) \/ TimerClears(p)
             \/ JoinRoom(p)
    BY <1>1, <2>1, GotoKeepsAcks, FinishKeepsAcks
       DEF CreateCommand, TimerReads, TimerRequeues, TimerRedispatches,
           TimerExpires, TimerClears, JoinRoom, PC, AckPC
  <2>2. CASE CheckDispatch(p) \/ CheckRoom(p) \/ ClaimDispatch(p) \/ EmitDispatch(p)
    BY <1>1, <2>2, GotoKeepsAcks, ReturnKeepsAcks
       DEF CheckDispatch, CheckRoom, ClaimDispatch, EmitDispatch, PC, AckPC
  <2>3. CASE ReplayQueued(p)
    <3>1. PICK todo : proc' = [proc EXCEPT ![p] =
                                 [@ EXCEPT !.pc = "replay.next", !.todo = todo]]
      BY <2>3 DEF ReplayQueued
    <3> DEFINE h == [proc[p] EXCEPT !.pc = "replay.next", !.todo = todo]
    <3>2. AckShape(h, ended')
      BY <1>1 DEF AckShape, AckPC, HandlersOK, Handler
    <3> QED
      BY <1>1, <3>1, <3>2, KeepsAcks
  <2>4. CASE ReplayNext(p)
    <3>1. PICK c, todo :
            proc' = [proc EXCEPT ![p] =
                       [@ EXCEPT !.pc = "check", !.id = c, !.todo = todo]]
      BY <2>4 DEF ReplayNext
    <3> DEFINE h == [proc[p] EXCEPT !.pc = "check", !.id = c, !.todo = todo]
    <3>2. AckShape(h, ended')
      BY <1>1 DEF AckShape, AckPC, HandlersOK, Handler
    <3> QED
      BY <1>1, <3>1, <3>2, KeepsAcks
  <2>5. CASE StartListening(p) \/ AckFinishes(p)
    BY <1>1, <2>5, FinishKeepsAcks DEF StartListening, AckFinishes
  <2>6. CASE AckReads(p)
    <3>1. proc[p].res \in Results
      BY <2>6 DEF AckReads, At, AcksOK, AckShape, AckPC
    <3> QED
      BY <1>1, <2>6, <3>1, GotoKeepsAcks, FinishKeepsAcks DEF AckReads, PC
  <2>7. CASE AckWrites(p)
    <3>1. proc[p].res \in Results
      BY <2>7 DEF AckWrites, At, AcksOK, AckShape, AckPC
    <3>2. proc[p].id \in ended'
      BY <2>7, <3>1 DEF AckWrites
    <3>3. Goto(p, "ack.finish")
      BY <2>7 DEF AckWrites
    <3> QED
      BY <1>1, <3>1, <3>2, <3>3, GotoKeepsAcks DEF PC
  <2> QED
    BY <1>3, <2>1, <2>2, <2>3, <2>4, <2>5, <2>6, <2>7 DEF HandlerStep
<1>4. ASSUME NEW p \in Procs, DatabaseFault(p) PROVE AcksOK'
  BY <1>1, <1>4, FinishKeepsAcks DEF DatabaseFault
<1>5. CASE BackendRestarts
  BY <1>5 DEF BackendRestarts, AcksOK, AckShape, Idle, HandlerOf, AckPC
<1>6. CASE AckDropped
  BY <1>6 DEF AckDropped, serviceVars, AcksOK, AckShape
<1> QED
  BY <1>2, <1>3, <1>4, <1>5, <1>6 DEF ServiceNext

\* What the service sends is a dispatch, or the answer to a command that ended.
LEMMA ServicePackets ==
    ASSUME ServiceInv, AcksOK, TerminalHasEnded, PacketsOK, ServiceNext
    PROVE  PacketsOK'
<1>1. ended \subseteq ended' /\ LinkTypeOK
  BY ServiceEnds DEF ServiceInv
<1>2. ASSUME UNCHANGED <<down, up>> PROVE PacketsOK'
  BY <1>1, <1>2 DEF PacketsOK, Harmless
<1>3. ASSUME UNCHANGED down, up # <<>>, up' = Tail(up) PROVE PacketsOK'
  BY <1>1, <1>3 DEF PacketsOK, Harmless, LinkTypeOK
<1>4. ASSUME NEW p \in Procs, HandlerStarts(p) PROVE PacketsOK'
  BY <1>2, <1>3, <1>4
     DEF HandlerStarts, PostCommand, TimerFires, Connect, AckArrives, linkVars
<1>5. ASSUME NEW p \in Procs, HandlerStep(p) PROVE PacketsOK'
  <2> DEFINE c == proc[p].id
  <2>1. CASE EmitDispatch(p)
    <3>1. c \in Commands
      BY <2>1 DEF EmitDispatch, At, ServiceInv, HandlersOK, Shape, CommandPC
    <3>2. Harmless(Dispatch(c), ended')
      BY <3>1, IdSets DEF Harmless, Dispatch
    <3> QED
      BY <1>1, <2>1, <3>2, KeepsPackets DEF EmitDispatch, EmitToRoom
  <2>2. CASE StartListening(p)
    <3> DEFINE s == proc[p].sk
    <3>1. s \in Sockets
      BY <2>2 DEF StartListening, At, ServiceInv, HandlersOK, Shape,
                  ConnectionPC
    <3>2. HasSettings => Harmless(Dispatch(s), ended')
      BY <3>1, IdsAssumption DEF Harmless, Dispatch, Ids
    <3> QED
      BY <1>1, <1>2, <2>2, <3>2, KeepsPackets DEF StartListening, EmitToSocket
  <2>3. CASE AckReads(p)
    <3>1. Found(c) /\ Terminal(c) => Harmless(Accepted(c), ended')
      BY <1>1, IdSets
         DEF Found, TerminalHasEnded, Harmless, Accepted
    <3> QED
      BY <1>1, <1>2, <2>3, <3>1, KeepsPackets DEF AckReads, EmitToSocket
  <2>4. CASE AckFinishes(p)
    <3>1. c \in Commands /\ c \in ended
      BY <2>4 DEF AckFinishes, At, AcksOK, AckShape, ServiceInv, HandlersOK,
                  Shape, CommandPC
    <3>2. Harmless(Accepted(c), ended')
      BY <1>1, <3>1, IdSets DEF Harmless, Accepted
    <3> QED
      BY <1>1, <2>4, <3>2, KeepsPackets DEF AckFinishes, EmitToSocket
  <2>5. CASE UNCHANGED <<down, up>>
    BY <1>2, <2>5
  <2> QED
    BY <1>5, <2>1, <2>2, <2>3, <2>4, <2>5
       DEF HandlerStep, CreateCommand, CheckDispatch, CheckRoom, ClaimDispatch,
           TimerReads, TimerRequeues, TimerRedispatches, TimerExpires,
           TimerClears, JoinRoom, ReplayQueued, ReplayNext, AckWrites, linkVars
<1>6. ASSUME NEW p \in Procs, DatabaseFault(p) PROVE PacketsOK'
  BY <1>2, <1>6 DEF DatabaseFault
<1>7. CASE BackendRestarts
  BY <1>7 DEF BackendRestarts, PacketsOK
<1>8. CASE AckDropped
  BY <1>3, <1>8 DEF AckDropped
<1> QED
  BY <1>4, <1>5, <1>6, <1>7, <1>8 DEF ServiceNext

-----------------------------------------------------------------------------
(* The player: a result leaves its store only when it may                  *)

Holds(acks, c) == \E k \in 1..Len(acks) : acks[k].id = c

LEMMA WithoutKeepsOthers ==
    ASSUME PlayerTypeOK, NEW i
    PROVE  /\ Without(i) \in Seq(StoredAck)
           /\ \A c : c # i /\ IsPending(c) => Holds(Without(i), c)
<1>1. CASE ~IsPending(i)
  BY <1>1 DEF Without, IsPending, Holds, PlayerTypeOK
<1>2. CASE IsPending(i)
  <2> DEFINE m == Place(i)
             front == SubSeq(pending, 1, m - 1)
             back == SubSeq(pending, m + 1, Len(pending))
  <2>1. m \in 1..Len(pending) /\ pending[m].id = i
    BY <1>2 DEF IsPending, Place
  <2>2. Without(i) = front \o back
    BY <1>2 DEF Without, RemoveAt
  <2>3. pending \in Seq(StoredAck) /\ Len(pending) \in Nat
    BY DEF PlayerTypeOK
  <2>4. /\ front \in Seq(StoredAck) /\ Len(front) = m - 1
        /\ \A k \in 1..(m - 1) : front[k] = pending[k]
    BY <2>1, <2>3
  <2>5. /\ back \in Seq(StoredAck) /\ Len(back) = Len(pending) - m
        /\ \A k \in 1..(Len(pending) - m) : back[k] = pending[m + k]
    BY <2>1, <2>3
  <2> HIDE DEF m, front, back
  <2>6. ASSUME NEW c, c # i, IsPending(c) PROVE Holds(front \o back, c)
    <3>1. PICK k \in 1..Len(pending) : pending[k].id = c
      BY <2>6 DEF IsPending
    <3>2. k # m
      BY <2>1, <2>6, <3>1
    <3>3. CASE k < m
      <4>1. k \in 1..Len(front \o back) /\ (front \o back)[k] = pending[k]
        BY <2>1, <2>3, <2>4, <2>5, <3>3
      <4> QED
        BY <3>1, <4>1 DEF Holds
    <3>4. CASE k > m
      <4>1. /\ k - 1 \in 1..Len(front \o back)
            /\ (front \o back)[k - 1] = back[k - m]
        BY <2>1, <2>3, <2>4, <2>5, <3>4
      <4>2. back[k - m] = pending[k]
        BY <2>1, <2>3, <2>5, <3>4
      <4> QED
        BY <3>1, <4>1, <4>2 DEF Holds
    <3> QED
      BY <2>1, <2>3, <3>2, <3>3, <3>4
  <2> QED
    BY <2>2, <2>4, <2>5, <2>6
<1> QED
  BY <1>1, <1>2

\* Acknowledgements that were stored keep the types and the packets.
LEMMA SendingKeeps ==
    ASSUME ServiceInv, PacketsOK, NEW acks \in Seq(StoredAck),
           up' = up \/ up' = up \o acks
    PROVE  /\ up' \in Seq(ToBackend)
           /\ \A k \in 1..Len(up') : up'[k].res \in Results
<1>1. up \in Seq(ToBackend)
  BY DEF ServiceInv, LinkTypeOK
<1>2. StoredAck \subseteq ToBackend
  BY IdSets, PlayerAssumption DEF StoredAck, ToBackend, AckStatus, Results
<1>3. /\ acks \in Seq(ToBackend)
      /\ \A k \in 1..Len(acks) : acks[k].res \in Results
  <2>1. acks \in Seq(ToBackend)
    BY <1>2, SeqMonotonic
  <2>2. \A k \in 1..Len(acks) : acks[k] \in StoredAck
    BY ElementOfSeq
  <2> QED
    BY <2>1, <2>2, PlayerAssumption DEF StoredAck, Results
<1>4. CASE up' = up
  BY <1>1, <1>4 DEF PacketsOK
<1>5. CASE up' = up \o acks
  <2>1. up \o acks \in Seq(ToBackend)
    BY <1>1, <1>3
  <2>2. ASSUME NEW k \in 1..Len(up \o acks) PROVE (up \o acks)[k].res \in Results
    <3>1. CASE k <= Len(up)
      BY <1>1, <1>3, <3>1 DEF PacketsOK
    <3>2. CASE k > Len(up)
      <4>1. /\ k - Len(up) \in 1..Len(acks)
            /\ (up \o acks)[k] = acks[k - Len(up)]
        BY <1>1, <1>3, <2>2, <3>2
      <4> QED
        BY <1>3, <4>1
    <3> QED
      BY <1>1, <3>1, <3>2
  <2> QED
    BY <1>5, <2>1, <2>2
<1> QED
  BY <1>4, <1>5

LEMMA SendKeeps ==
    ASSUME ServiceInv, PacketsOK, NEW ack \in StoredAck, up' = Send(ack)
    PROVE  /\ up' \in Seq(ToBackend)
           /\ \A k \in 1..Len(up') : up'[k].res \in Results
<1>1. <<ack>> \in Seq(StoredAck)
  OBVIOUS
<1>2. Append(up, ack) = up \o <<ack>>
  BY DEF ServiceInv, LinkTypeOK
<1> QED
  BY <1>1, <1>2, SendingKeeps DEF Send

\* The player's own step changes nothing the service's invariants are about
\* but the packets.
LEMMA PlayerKeepsService ==
    ASSUME ServiceInv, AcksOK, TerminalHasEnded, PacketsOK,
           UNCHANGED serviceVars,
           sock' = sock, client' \in Sockets \cup {None},
           down' = down \/ down' = <<>> \/ (down # <<>> /\ down' = Tail(down)),
           up' \in Seq(ToBackend),
           \A k \in 1..Len(up') : up'[k].res \in Results
    PROVE  ServiceInv' /\ AcksOK' /\ TerminalHasEnded' /\ PacketsOK'
<1>1. down' \in Seq(ToPlayer) /\ \A k \in 1..Len(down') : Harmless(down'[k], ended)
  <2>1. down \in Seq(ToPlayer) /\ \A k \in 1..Len(down) : Harmless(down[k], ended)
    BY DEF ServiceInv, LinkTypeOK, PacketsOK
  <2>2. CASE down' = down
    BY <2>1, <2>2
  <2>3. CASE down' = <<>>
    BY <2>3
  <2>4. CASE down # <<>> /\ down' = Tail(down)
    BY <2>1, <2>4
  <2> QED
    BY <2>2, <2>3, <2>4
<1>2. ServiceInv'
  BY <1>1 DEF serviceVars, ServiceInv, ServiceTypeOK, LinkTypeOK, HandlersOK
<1>3. AcksOK' /\ TerminalHasEnded'
  BY DEF serviceVars, AcksOK, TerminalHasEnded, Terminal
<1>4. PacketsOK'
  BY <1>1 DEF serviceVars, PacketsOK
<1> QED
  BY <1>2, <1>3, <1>4

LEMMA PlayerStep ==
    ASSUME IInv, PlayerNext, UNCHANGED serviceVars
    PROVE  IInv'
<1> USE DEF IInv
<1>1. PlayerTypeOK /\ down \in Seq(ToPlayer) /\ up \in Seq(ToBackend)
      /\ client \in Sockets \cup {None}
      /\ \A k \in 1..Len(up) : up[k].res \in Results
  BY DEF ServiceInv, LinkTypeOK, PacketsOK
<1>2. UNCHANGED <<ended>>
  BY DEF serviceVars
<1>3. ASSUME UNCHANGED <<pending, done, evicted>> PROVE ResultNeverLost'
  BY <1>2, <1>3 DEF ResultNeverLost, IsPending
<1>4. CASE ResendStoredResult
  <2> DEFINE i == Head(down).id
  <2>1. StoredResult(i) \in StoredAck
    BY <1>1, <1>4
       DEF ResendStoredResult, IsPending, StoredResult, Place, PlayerTypeOK
  <2>2. /\ up' \in Seq(ToBackend)
        /\ \A k \in 1..Len(up') : up'[k].res \in Results
    BY <1>4, <2>1, SendKeeps DEF ResendStoredResult
  <2>3. ServiceInv' /\ AcksOK' /\ TerminalHasEnded' /\ PacketsOK'
    BY <1>1, <1>4, <2>2, PlayerKeepsService DEF ResendStoredResult, Receives
  <2> QED
    BY <1>1, <1>3, <1>4, <2>3 DEF ResendStoredResult, playerVars, PlayerTypeOK
<1>5. CASE DispatchChecked
  <2>1. Head(down).id \in CommandIds
    BY <1>1, <1>5 DEF DispatchChecked, Receives, PacketsOK, Harmless
  <2>2. ServiceInv' /\ AcksOK' /\ TerminalHasEnded' /\ PacketsOK'
    BY <1>1, <1>5, PlayerKeepsService DEF DispatchChecked, Receives
  <2> QED
    BY <1>1, <1>3, <1>5, <2>1, <2>2 DEF DispatchChecked, PlayerTypeOK
<1>6. CASE DispatchStarted
  <2>1. ServiceInv' /\ AcksOK' /\ TerminalHasEnded' /\ PacketsOK'
    BY <1>1, <1>6, PlayerKeepsService DEF DispatchStarted, linkVars
  <2>2. PlayerTypeOK'
    <3>1. callback \in CommandIds
      BY <1>1, <1>6 DEF DispatchStarted, PlayerTypeOK
    <3>2. job' \in [CommandIds -> JobState]
      BY <1>1, <1>6, <3>1 DEF DispatchStarted, PlayerTypeOK, JobState
    <3>3. runs' \in [CommandIds -> Nat]
      <4>1. runs[callback] + 1 \in Nat /\ runs \in [CommandIds -> Nat]
        BY <1>1, <3>1 DEF PlayerTypeOK
      <4> QED
        BY <1>6, <3>1, <4>1 DEF DispatchStarted
    <3> QED
      BY <1>1, <1>6, <3>2, <3>3 DEF DispatchStarted, PlayerTypeOK
  <2> QED
    BY <1>3, <1>6, <2>1, <2>2 DEF DispatchStarted
<1>7. CASE ResultConfirmed
  <2> DEFINE i == Head(down).id
  <2>1. i \in ended
    BY <1>1, <1>7 DEF ResultConfirmed, Receives, PacketsOK, Harmless
  <2>2. ServiceInv' /\ AcksOK' /\ TerminalHasEnded' /\ PacketsOK'
    BY <1>1, <1>7, PlayerKeepsService DEF ResultConfirmed, Receives
  <2>3. PlayerTypeOK'
    BY <1>1, <1>7, WithoutKeepsOthers DEF ResultConfirmed, PlayerTypeOK
  <2>4. ResultNeverLost'
    <3>1. ASSUME NEW c \in Commands, c \in done', c \notin ended', c \notin evicted'
          PROVE  IsPending(c)'
      <4>1. IsPending(c) /\ c # i
        BY <1>2, <1>7, <2>1, <3>1 DEF ResultConfirmed, ResultNeverLost
      <4>2. Holds(Without(i), c)
        BY <1>1, <4>1, WithoutKeepsOthers
      <4> QED
        BY <1>7, <4>2 DEF ResultConfirmed, Holds, IsPending
    <3> QED
      BY <3>1 DEF ResultNeverLost
  <2> QED
    BY <2>2, <2>3, <2>4
<1>8. ASSUME NEW i \in CommandIds, NEW res \in Outcomes, ExecutionEnds(i, res)
      PROVE  IInv'
  <2> DEFINE ack == [id |-> i, res |-> res]
             all == Append(Without(i), ack)
             full == Len(all) > Capacity
  <2>1. ack \in StoredAck
    BY DEF StoredAck
  <2>2. Without(i) \in Seq(StoredAck)
    BY <1>1, WithoutKeepsOthers
  <2>3. all \in Seq(StoredAck) /\ all # <<>> /\ Tail(all) \in Seq(StoredAck)
        /\ Head(all) \in StoredAck
    BY <2>1, <2>2
  <2>4. /\ pending' = IF full THEN Tail(all) ELSE all
        /\ evicted' = IF full THEN evicted \cup {Head(all).id} ELSE evicted
        /\ done' = done \cup {i}
        /\ job' = [job EXCEPT ![i] = "stored"]
        /\ up' = Send(ack)
        /\ UNCHANGED <<callback, runs, sock, client, down>>
    BY <1>8 DEF ExecutionEnds
  <2>5. /\ up' \in Seq(ToBackend)
        /\ \A k \in 1..Len(up') : up'[k].res \in Results
    BY <2>1, <2>4, SendKeeps
  <2>6. ServiceInv' /\ AcksOK' /\ TerminalHasEnded' /\ PacketsOK'
    BY <1>1, <2>4, <2>5, PlayerKeepsService
  <2>7. \A c : c = i \/ (c # i /\ IsPending(c)) => Holds(all, c)
    <3>1. Holds(all, i)
      BY <2>1, <2>2 DEF Holds
    <3>2. ASSUME NEW c, c # i, IsPending(c) PROVE Holds(all, c)
      BY <1>1, <2>2, <3>2, WithoutKeepsOthers DEF Holds
    <3> QED
      BY <3>1, <3>2
  <2>8. Head(all).id \in CommandIds
    BY <2>3 DEF StoredAck
  <2> HIDE DEF ack, all, full
  <2>9. PlayerTypeOK'
    BY <1>1, <2>3, <2>4, <2>8 DEF PlayerTypeOK, JobState
  <2>10. \A c : Holds(all, c) => Holds(Tail(all), c) \/ c = Head(all).id
    <3>1. ASSUME NEW c, Holds(all, c), c # Head(all).id PROVE Holds(Tail(all), c)
      <4>1. PICK k \in 1..Len(all) : all[k].id = c
        BY <3>1 DEF Holds
      <4>2. k # 1
        BY <2>3, <3>1, <4>1
      <4>3. k - 1 \in 1..Len(Tail(all)) /\ Tail(all)[k - 1] = all[k]
        BY <2>3, <4>2
      <4> QED
        BY <4>1, <4>3 DEF Holds
    <3> QED
      BY <3>1
  <2>11. ResultNeverLost'
    <3>1. ASSUME NEW c \in Commands, c \in done', c \notin ended', c \notin evicted'
          PROVE  IsPending(c)'
      <4>1. Holds(all, c)
        BY <1>2, <2>4, <2>7, <3>1 DEF ResultNeverLost
      <4>2. Holds(pending', c)
        BY <2>4, <2>10, <3>1, <4>1
      <4> QED
        BY <4>2 DEF Holds, IsPending
    <3> QED
      BY <3>1 DEF ResultNeverLost
  <2> QED
    BY <2>6, <2>9, <2>11
<1>9. ASSUME NEW i \in CommandIds, ExecutionLeaves(i) PROVE IInv'
  <2>1. ServiceInv' /\ AcksOK' /\ TerminalHasEnded' /\ PacketsOK'
    BY <1>1, <1>9, PlayerKeepsService DEF ExecutionLeaves, linkVars
  <2>2. PlayerTypeOK'
    BY <1>1, <1>9 DEF ExecutionLeaves, PlayerTypeOK, JobState
  <2> QED
    BY <1>3, <1>9, <2>1, <2>2 DEF ExecutionLeaves
<1>10. CASE FlushPendingAcks
  <2>1. /\ up' \in Seq(ToBackend)
        /\ \A k \in 1..Len(up') : up'[k].res \in Results
    BY <1>1, <1>10, SendingKeeps DEF FlushPendingAcks, PlayerTypeOK
  <2>2. ServiceInv' /\ AcksOK' /\ TerminalHasEnded' /\ PacketsOK'
    BY <1>1, <1>10, <2>1, PlayerKeepsService DEF FlushPendingAcks
  <2> QED
    BY <1>1, <1>3, <1>10, <2>2 DEF FlushPendingAcks, playerVars, PlayerTypeOK
<1>11. CASE PlayerRestarts
  <2>1. ServiceInv' /\ AcksOK' /\ TerminalHasEnded' /\ PacketsOK'
    BY <1>11, PlayerKeepsService DEF PlayerRestarts
  <2>2. PlayerTypeOK'
    BY <1>1, <1>11 DEF PlayerRestarts, PlayerTypeOK, JobState
  <2> QED
    BY <1>3, <1>11, <2>1, <2>2 DEF PlayerRestarts
<1> QED
  BY <1>4, <1>5, <1>6, <1>7, <1>8, <1>9, <1>10, <1>11 DEF PlayerNext

-----------------------------------------------------------------------------
(* The composition                                                         *)

LEMMA LinkKeeps ==
    ASSUME IInv, LinkNext, UNCHANGED playerVars
    PROVE  IInv'
<1>1. ServiceInv'
  BY LinkStep DEF IInv
<1>2. /\ UNCHANGED serviceVars
      /\ down' = down \/ down' = <<>>
      /\ up' = up \/ up' = <<>>
  BY DEF LinkNext, PlayerLosesSocket, BackendDropsSocket, PlayerSeesClose
<1>3. AcksOK' /\ TerminalHasEnded'
  BY <1>2 DEF IInv, serviceVars, AcksOK, TerminalHasEnded, Terminal
<1>4. PacketsOK'
  BY <1>2 DEF IInv, serviceVars, PacketsOK
<1>5. PlayerTypeOK' /\ ResultNeverLost'
  BY <1>2 DEF IInv, serviceVars, playerVars, PlayerTypeOK, ResultNeverLost,
              IsPending
<1> QED
  BY <1>1, <1>3, <1>4, <1>5 DEF IInv

LEMMA ServiceKeeps ==
    ASSUME IInv, ServiceNext, UNCHANGED playerVars
    PROVE  IInv'
<1>1. ServiceInv' /\ AcksOK' /\ TerminalHasEnded' /\ PacketsOK'
  BY ServiceNextInv, ServiceEnds, ServiceAcks, ServicePackets DEF IInv
<1>2. ended \subseteq ended'
  BY ServiceEnds DEF IInv
<1>3. PlayerTypeOK' /\ ResultNeverLost'
  BY <1>2 DEF IInv, playerVars, PlayerTypeOK, ResultNeverLost, IsPending
<1> QED
  BY <1>1, <1>3 DEF IInv

LEMMA InitKeeps == Init => IInv
<1> SUFFICES ASSUME Init PROVE IInv
  OBVIOUS
<1>1. ServiceInv
  BY ServiceInitInv DEF Init
<1>2. PlayerTypeOK
  BY DEF Init, PlayerInit, PlayerTypeOK, JobState
<1>3. AcksOK /\ TerminalHasEnded /\ PacketsOK
  BY DEF Init, ServiceInit, LinkInit, AcksOK, AckShape, Idle, HandlerOf, AckPC,
         TerminalHasEnded, Terminal, TerminalStatus, PacketsOK
<1>4. ResultNeverLost
  BY DEF Init, PlayerInit, ResultNeverLost
<1> QED
  BY <1>1, <1>2, <1>3, <1>4 DEF IInv

LEMMA NextKeeps == IInv /\ [Next]_vars => IInv'
<1> SUFFICES ASSUME IInv, [Next]_vars PROVE IInv'
  OBVIOUS
<1>1. CASE UNCHANGED vars
  <2>1. ServiceInv'
    BY <1>1, ServiceStutterInv DEF IInv, vars
  <2> QED
    BY <1>1, <2>1 DEF vars, serviceVars, playerVars, linkVars, IInv,
       PlayerTypeOK, AcksOK, TerminalHasEnded, Terminal, PacketsOK,
       ResultNeverLost, IsPending
<1> QED
  BY <1>1, ServiceKeeps, LinkKeeps, PlayerStep DEF Next

LEMMA Invariant == Spec => []IInv
BY InitKeeps, NextKeeps, PTL DEF Spec

\* Both ends and the connection keep their types.
THEOREM TypeCorrect == Spec => []TypeOK
<1>1. IInv => TypeOK
  BY DEF IInv, ServiceInv, TypeOK
<1> QED
  BY <1>1, Invariant, PTL

\* A stored result that has left the player's store, and was not evicted, is
\* of a command that has ended: whatever connections, packets, handlers and
\* processes were lost, in every order.
THEOREM NoResultLost == Spec => []ResultNeverLost
<1>1. IInv => ResultNeverLost
  BY DEF IInv
<1> QED
  BY <1>1, Invariant, PTL

-----------------------------------------------------------------------------
(* Queued commands and connections                                         *)

(***************************************************************************)
(* Why no queued command is stranded beside an open connection: whoever    *)
(* queues a command goes on to dispatch it, and a connection enters the    *)
(* room before it reads what is queued.  So a handler stops looking at a   *)
(* queued command only by claiming it, or when the room is empty.  This    *)
(* needs that a replay keeps its list until it has come to the end of it,  *)
(* and that its socket has entered the room (or is gone) by then.          *)
(***************************************************************************)
ReplayPC == {"replay.next", "check", "claim", "emit"}

ReplayShape(h, sockets) ==
    /\ h.todo # {} => h.kind = "connection" /\ h.pc \in ReplayPC
    /\ h.kind = "connection" /\ h.pc # "join" =>
         sockets[h.sk] \in {"joined", "listening", "closed"}
ReplaysOK == \A p \in Procs : ReplayShape(proc[p], sock)

\* A handler looks at a queued command: WillDispatch for the record h.
LooksAt(h, c) ==
    \/ h.id = c /\ h.pc \in {"check", "room", "claim", "timer.redispatch"}
    \/ h.pc \in {"join", "replay"}
    \/ c \in h.todo
QueueWatched ==
    \A c \in Commands :
        doc[c].status = "queued" /\ faults = 0 /\ RoomOccupied =>
            \E p \in Procs : LooksAt(proc[p], c)

LEMMA WatchedIsServed == QueueWatched => NoStrandedCommand
BY DEF QueueWatched, NoStrandedCommand, LooksAt, WillDispatch, At, RoomOccupied, InRoom

\* What a step may do to the sockets without disturbing a replay.
SocketsHold ==
    \A s \in Sockets :
        sock[s] \in {"joined", "listening", "closed"} =>
            sock'[s] \in {"joined", "listening", "closed"}

LEMMA KeepsReplays ==
    ASSUME HandlersOK, ReplaysOK, SocketsHold, NEW p \in Procs, NEW h,
           ReplayShape(h, sock'), proc' = [proc EXCEPT ![p] = h]
    PROVE  ReplaysOK'
<1>1. ASSUME NEW q \in Procs PROVE ReplayShape(proc'[q], sock')
  <2>1. proc'[q] = IF q = p THEN h ELSE proc[q]
    BY DEF HandlersOK
  <2>2. proc[q] \in Handler /\ Shape(proc[q]) /\ ReplayShape(proc[q], sock)
    BY DEF HandlersOK, ReplaysOK
  <2>3. ReplayShape(proc[q], sock')
    BY <2>2 DEF ReplayShape, SocketsHold, Shape
  <2> QED
    BY <2>1, <2>3
<1> QED
  BY <1>1 DEF ReplaysOK

\* A step of the handler p that keeps the queue watched: it goes on looking
\* at every command it looked at, or leaves it in another state.
LEMMA KeepsWatch ==
    ASSUME HandlersOK, QueueWatched, NEW p \in Procs, NEW h,
           proc' = [proc EXCEPT ![p] = h],
           \A c \in Commands :
             doc'[c].status = "queued" /\ faults' = 0 /\ RoomOccupied' =>
                \/ LooksAt(h, c)
                \/ /\ ~LooksAt(proc[p], c)
                   /\ doc[c].status = "queued" /\ faults = 0 /\ RoomOccupied
    PROVE  QueueWatched'
<1>1. ASSUME NEW c \in Commands, doc'[c].status = "queued", faults' = 0, RoomOccupied'
      PROVE  \E q \in Procs : LooksAt(proc'[q], c)
  <2>1. CASE LooksAt(h, c)
    BY <2>1 DEF HandlersOK
  <2>2. CASE ~LooksAt(proc[p], c) /\ doc[c].status = "queued" /\ faults = 0 /\ RoomOccupied
    <3>1. PICK q \in Procs : LooksAt(proc[q], c)
      BY <2>2 DEF QueueWatched
    <3>2. q # p /\ proc'[q] = proc[q]
      BY <2>2, <3>1 DEF HandlersOK
    <3> QED
      BY <3>1, <3>2
  <2> QED
    BY <1>1, <2>1, <2>2
<1> QED
  BY <1>1 DEF QueueWatched

\* The same for a handler in whose slot nothing was replayed: it finishes or
\* parks at another await.
LEMMA ReplayIdle == \A sockets : ReplayShape(Idle, sockets)
BY DEF ReplayShape, Idle, HandlerOf

LEMMA ReturnKeepsList ==
    ASSUME HandlersOK, ReplaysOK, NEW p \in Procs, At(p, "check") \/ At(p, "room")
             \/ At(p, "claim") \/ At(p, "emit")
    PROVE  /\ ReplayShape(AfterDispatch(p), sock)
           /\ \A c : c \in AfterDispatch(p).todo <=> c \in proc[p].todo
<1>1. proc[p] \in Handler /\ ReplayShape(proc[p], sock)
  BY DEF HandlersOK, ReplaysOK
<1>2. CASE proc[p].kind = "connection"
  BY <1>1, <1>2 DEF AfterDispatch, ReplayShape, ReplayPC, Handler, At
<1>3. CASE proc[p].kind # "connection"
  BY <1>1, <1>3 DEF AfterDispatch, ReplayShape, Idle, HandlerOf
<1> QED
  BY <1>2, <1>3

\* RoomOccupied looks at the sockets only.
LEMMA SameRoom == sock' = sock => (RoomOccupied' <=> RoomOccupied) /\ SocketsHold
BY DEF RoomOccupied, InRoom, SocketsHold

Watched == ReplaysOK /\ QueueWatched

\* A step that leaves documents, faults and sockets alone, in a slot whose
\* handler stops looking at no command.
LEMMA QuietWatch ==
    ASSUME HandlersOK, Watched, NEW p \in Procs, NEW h,
           proc' = [proc EXCEPT ![p] = h],
           UNCHANGED <<doc, sock>>, faults' = 0 => faults = 0,
           ReplayShape(h, sock),
           \A c \in Commands :
             doc[c].status = "queued" /\ RoomOccupied /\ LooksAt(proc[p], c) /\ faults' = 0
               => LooksAt(h, c)
    PROVE  Watched'
<1>1. SocketsHold /\ (RoomOccupied' <=> RoomOccupied)
  BY SameRoom
<1>2. ReplaysOK'
  BY <1>1, KeepsReplays DEF Watched
<1>3. QueueWatched'
  BY <1>1, KeepsWatch DEF Watched
<1> QED
  BY <1>2, <1>3 DEF Watched

LEMMA QuietGoto ==
    ASSUME HandlersOK, Watched, NEW p \in Procs, NEW pc \in PC, Goto(p, pc),
           UNCHANGED <<doc, sock, faults>>, proc[p].pc # "join",
           proc[p].todo # {} => pc \in ReplayPC,
           \A c \in Commands :
             /\ doc[c].status = "queued" /\ RoomOccupied /\ proc[p].id = c
             /\ proc[p].pc \in {"check", "room", "claim", "timer.redispatch"}
             => pc \in {"check", "room", "claim", "timer.redispatch"},
           proc[p].pc # "replay"
    PROVE  Watched'
<1> DEFINE h == [proc[p] EXCEPT !.pc = pc]
<1>1. proc[p] \in Handler /\ ReplayShape(proc[p], sock)
  BY DEF HandlersOK, Watched, ReplaysOK
<1>2. h.pc = pc /\ h.id = proc[p].id /\ h.todo = proc[p].todo /\ h.kind = proc[p].kind
      /\ h.sk = proc[p].sk
  BY <1>1 DEF Handler
<1>3. proc' = [proc EXCEPT ![p] = h]
  BY DEF Goto
<1> HIDE DEF h
<1>4. ReplayShape(h, sock)
  BY <1>1, <1>2 DEF ReplayShape
<1>5. \A c \in Commands :
        doc[c].status = "queued" /\ RoomOccupied /\ LooksAt(proc[p], c) => LooksAt(h, c)
  BY <1>2 DEF LooksAt
<1> QED
  BY <1>3, <1>4, <1>5, QuietWatch

LEMMA QuietFinish ==
    ASSUME HandlersOK, Watched, NEW p \in Procs, Finish(p),
           UNCHANGED <<doc, sock, faults>>,
           proc[p].pc \notin ReplayPC \cup {"room", "timer.redispatch", "join", "replay"}
    PROVE  Watched'
<1>1. ReplayShape(proc[p], sock)
  BY DEF Watched, ReplaysOK
<1>2. \A c : ~LooksAt(proc[p], c)
  BY <1>1 DEF LooksAt, ReplayShape, ReplayPC
<1> QED
  BY <1>2, ReplayIdle, QuietWatch DEF Finish

LEMMA DispatchWatch ==
    ASSUME DispatchInv, Watched, NEW p \in Procs,
           CheckDispatch(p) \/ CheckRoom(p) \/ ClaimDispatch(p) \/ EmitDispatch(p)
    PROVE  Watched'
<1> DEFINE c == proc[p].id
<1>1. HandlersOK /\ proc[p] \in Handler /\ ReplayShape(proc[p], sock) /\ c \in Commands
      /\ doc \in [Commands -> Document]
  BY DEF DispatchInv, ServiceInv, ServiceTypeOK, HandlersOK, Watched, ReplaysOK, Shape,
         CommandPC, At, CheckDispatch, CheckRoom, ClaimDispatch, EmitDispatch
<1>2. ASSUME ReturnFromDispatch(p), UNCHANGED <<doc, sock, faults>>,
             ~(doc[c].status = "queued" /\ RoomOccupied /\ LooksAt(proc[p], c))
             \/ proc[p].pc = "emit" \/ proc[p].pc \notin ReplayPC \cup {"room"},
             At(p, "check") \/ At(p, "room") \/ At(p, "claim") \/ At(p, "emit")
      PROVE  Watched'
  <2> DEFINE h == AfterDispatch(p)
  <2>1. ReplayShape(h, sock) /\ \A d : d \in h.todo <=> d \in proc[p].todo
    BY <1>1, <1>2, ReturnKeepsList DEF Watched
  <2>2. proc' = [proc EXCEPT ![p] = h]
    BY <1>2 DEF ReturnFromDispatch
  <2> HIDE DEF h
  <2>3. ASSUME NEW d \in Commands, doc[d].status = "queued", RoomOccupied,
               LooksAt(proc[p], d)
        PROVE  LooksAt(h, d)
    BY <1>2, <2>1, <2>3 DEF LooksAt, At, ReplayPC
  <2> QED
    BY <1>1, <1>2, <2>1, <2>2, <2>3, QuietWatch
<1>3. CASE CheckDispatch(p)
  <2>1. At(p, "check") /\ UNCHANGED <<doc, sock, faults>>
    BY <1>3 DEF CheckDispatch, linkVars
  <2>2. CASE Terminal(c) /\ ReturnFromDispatch(p)
    BY <1>2, <2>1, <2>2 DEF Terminal, TerminalStatus
  <2>3. ASSUME NEW pc \in {"claim", "room"}, Goto(p, pc),
               pc = IF proc[p].kind = "connection" THEN "claim" ELSE "room"
        PROVE  Watched'
    BY <1>1, <2>1, <2>3, QuietGoto DEF At, PC, ReplayPC, ReplayShape
  <2> QED
    BY <1>3, <2>2, <2>3 DEF CheckDispatch
<1>4. CASE CheckRoom(p)
  <2>1. At(p, "room") /\ UNCHANGED <<doc, sock, faults>>
    BY <1>4 DEF CheckRoom, linkVars
  <2>2. CASE ~RoomOccupied /\ ReturnFromDispatch(p)
    BY <1>2, <2>1, <2>2
  <2>3. CASE RoomOccupied /\ Goto(p, "claim")
    BY <1>1, <2>1, <2>3, QuietGoto DEF At, PC, ReplayPC, ReplayShape
  <2> QED
    BY <1>4, <2>2, <2>3 DEF CheckRoom
<1>5. CASE ClaimDispatch(p)
  <2>1. At(p, "claim") /\ UNCHANGED <<sock, faults>>
    BY <1>5 DEF ClaimDispatch, linkVars
  <2>2. doc[c].status = "queued" => Claimable(c)
    BY <1>1 DEF DispatchInv, TurnsOK, QueuedWithin, Claimable
  <2>3. CASE ~Claimable(c) /\ ReturnFromDispatch(p) /\ UNCHANGED doc
    BY <1>2, <2>1, <2>2, <2>3
  <2>4. CASE Claimable(c) /\ Goto(p, "emit")
             /\ doc' = [doc EXCEPT ![c] = [status |-> "sent",
                                           attempts |-> doc[c].attempts + 1]]
    <3> DEFINE h == [proc[p] EXCEPT !.pc = "emit"]
    <3>1. h.pc = "emit" /\ h.id = c /\ h.todo = proc[p].todo /\ h.kind = proc[p].kind
          /\ h.sk = proc[p].sk
      BY <1>1 DEF Handler
    <3>2. proc' = [proc EXCEPT ![p] = h]
      BY <2>4 DEF Goto
    <3> HIDE DEF h
    <3>3. SocketsHold /\ (RoomOccupied' <=> RoomOccupied)
      BY <2>1, SameRoom
    <3>4. ReplayShape(h, sock')
      BY <1>1, <2>1, <3>1 DEF ReplayShape, ReplayPC, At
    <3>5. \A d \in Commands :
            /\ doc'[d].status = "queued" => d # c /\ doc[d].status = "queued"
            /\ d # c => (LooksAt(h, d) <=> LooksAt(proc[p], d))
      BY <1>1, <2>1, <2>4, <3>1 DEF LooksAt, At
    <3>6. ReplaysOK'
      BY <1>1, <3>2, <3>3, <3>4, KeepsReplays DEF Watched
    <3>7. QueueWatched'
      BY <1>1, <2>1, <3>2, <3>3, <3>5, KeepsWatch DEF Watched
    <3> QED
      BY <3>6, <3>7 DEF Watched
  <2> QED
    BY <1>5, <2>3, <2>4 DEF ClaimDispatch
<1>6. CASE EmitDispatch(p)
  BY <1>2, <1>6 DEF EmitDispatch, At
<1> QED
  BY <1>3, <1>4, <1>5, <1>6

LEMMA TimerWatch ==
    ASSUME DispatchInv, Watched, NEW p \in Procs,
           \/ TimerReads(p) \/ TimerRequeues(p) \/ TimerRedispatches(p)
           \/ TimerExpires(p) \/ TimerClears(p)
    PROVE  Watched'
<1> DEFINE c == proc[p].id
<1>1. HandlersOK /\ proc[p] \in Handler /\ ReplayShape(proc[p], sock) /\ c \in Commands
      /\ doc \in [Commands -> Document]
  BY DEF DispatchInv, ServiceInv, ServiceTypeOK, HandlersOK, Watched, ReplaysOK, Shape,
         CommandPC, At, TimerReads, TimerRequeues, TimerRedispatches, TimerExpires,
         TimerClears
<1>2. /\ UNCHANGED <<sock, faults>>
      /\ proc[p].pc \in {"timer.read", "timer.requeue", "timer.redispatch",
                         "timer.expire", "timer.clear"}
  BY DEF TimerReads, TimerRequeues, TimerRedispatches, TimerExpires, TimerClears,
         linkVars, At
<1>3. proc[p].todo = {}
  BY <1>1, <1>2 DEF ReplayShape, ReplayPC
<1>4. CASE TimerReads(p) \/ TimerRedispatches(p) \/ TimerClears(p)
  <2>1. UNCHANGED doc
    BY <1>4 DEF TimerReads, TimerRedispatches, TimerClears
  <2>2. CASE Finish(p) /\ ~At(p, "timer.redispatch")
    BY <1>1, <1>2, <2>1, <2>2, QuietFinish DEF ReplayPC, At
  <2>3. ASSUME NEW pc \in {"timer.requeue", "timer.expire"}, Goto(p, pc),
               At(p, "timer.read")
        PROVE  Watched'
    BY <1>1, <1>2, <1>3, <2>1, <2>3, QuietGoto DEF PC, At
  <2>4. CASE TimerRedispatches(p)
    BY <1>1, <1>2, <1>3, <2>1, <2>4, QuietGoto DEF TimerRedispatches, PC, At
  <2> QED
    BY <1>4, <2>2, <2>3, <2>4 DEF TimerReads, TimerClears, At
<1>5. ASSUME NEW status \in Status, NEW pc \in {"timer.redispatch", "timer.clear"},
             SetStatus(c, status), Goto(p, pc),
             status = "queued" => pc = "timer.redispatch",
             proc[p].pc \in {"timer.requeue", "timer.expire"}
      PROVE  Watched'
  <2> DEFINE h == [proc[p] EXCEPT !.pc = pc]
  <2>1. h.pc = pc /\ h.id = c /\ h.todo = {} /\ h.kind = proc[p].kind /\ h.sk = proc[p].sk
    BY <1>1, <1>3 DEF Handler
  <2>2. proc' = [proc EXCEPT ![p] = h]
    BY <1>5 DEF Goto
  <2> HIDE DEF h
  <2>3. SocketsHold /\ (RoomOccupied' <=> RoomOccupied)
    BY <1>2, SameRoom
  <2>4. ReplayShape(h, sock')
    BY <1>1, <1>2, <2>1 DEF ReplayShape
  <2>5. \A d \in Commands :
          doc'[d].status = "queued" =>
            LooksAt(h, d) \/ (doc[d].status = "queued" /\ ~LooksAt(proc[p], d))
    BY <1>1, <1>3, <1>5, <2>1 DEF LooksAt, SetStatus, Document
  <2>6. ReplaysOK'
    BY <1>1, <2>2, <2>3, <2>4, KeepsReplays DEF Watched
  <2>7. QueueWatched'
    BY <1>1, <1>2, <2>2, <2>3, <2>5, KeepsWatch DEF Watched
  <2> QED
    BY <2>6, <2>7 DEF Watched
<1>6. CASE TimerRequeues(p)
  BY <1>5, <1>6 DEF TimerRequeues, At, Status
<1>7. CASE TimerExpires(p)
  BY <1>5, <1>7 DEF TimerExpires, At, Status
<1> QED
  BY <1>4, <1>6, <1>7

LEMMA PostWatch ==
    ASSUME DispatchInv, Watched, NEW p \in Procs, CreateCommand(p)
    PROVE  Watched'
<1> DEFINE c == proc[p].id
<1>1. HandlersOK /\ proc[p] \in Handler /\ ReplayShape(proc[p], sock) /\ c \in Commands
      /\ doc \in [Commands -> Document] /\ At(p, "create")
  BY DEF DispatchInv, ServiceInv, ServiceTypeOK, HandlersOK, Watched, ReplaysOK, Shape,
         CommandPC, At, CreateCommand
<1>2. UNCHANGED <<sock, faults>> /\ proc[p].todo = {}
  BY <1>1 DEF CreateCommand, linkVars, ReplayShape, ReplayPC, At
<1>3. CASE Finish(p) /\ UNCHANGED doc
  BY <1>1, <1>2, <1>3, QuietFinish DEF ReplayPC, At
<1>4. CASE Goto(p, "check") /\ doc' = [doc EXCEPT ![c] = [status |-> "queued", attempts |-> 0]]
  <2> DEFINE h == [proc[p] EXCEPT !.pc = "check"]
  <2>1. h.pc = "check" /\ h.id = c /\ h.todo = {} /\ h.kind = proc[p].kind /\ h.sk = proc[p].sk
    BY <1>1, <1>2 DEF Handler
  <2>2. proc' = [proc EXCEPT ![p] = h]
    BY <1>4 DEF Goto
  <2> HIDE DEF h
  <2>3. SocketsHold /\ (RoomOccupied' <=> RoomOccupied)
    BY <1>2, SameRoom
  <2>4. ReplayShape(h, sock')
    BY <1>1, <1>2, <2>1 DEF ReplayShape, At
  <2>5. \A d \in Commands :
          doc'[d].status = "queued" =>
            LooksAt(h, d) \/ (doc[d].status = "queued" /\ ~LooksAt(proc[p], d))
    BY <1>1, <1>2, <1>4, <2>1 DEF LooksAt, At
  <2>6. ReplaysOK'
    BY <1>1, <2>2, <2>3, <2>4, KeepsReplays DEF Watched
  <2>7. QueueWatched'
    BY <1>1, <1>2, <2>2, <2>3, <2>5, KeepsWatch DEF Watched
  <2> QED
    BY <2>6, <2>7 DEF Watched
<1> QED
  BY <1>3, <1>4 DEF CreateCommand

\* A new handler starts where none was looking.
LEMMA StartWatch ==
    ASSUME DispatchInv, Watched, NEW p \in Procs, HandlerStarts(p)
    PROVE  Watched'
<1>1. HandlersOK /\ ReplayShape(proc[p], sock) /\ sock \in [Sockets -> SocketState]
  BY DEF DispatchInv, ServiceInv, LinkTypeOK, Watched, ReplaysOK
<1>2. ASSUME At(p, "idle") PROVE \A c : ~LooksAt(proc[p], c)
  BY <1>1, <1>2 DEF LooksAt, ReplayShape, ReplayPC, At
<1>3. ASSUME NEW kind, NEW pc, NEW i, NEW res, NEW s, kind # "connection",
             Start(p, kind, pc, i, res, s), At(p, "idle"), UNCHANGED <<doc, sock, faults>>
      PROVE  Watched'
  <2> DEFINE h == HandlerOf(kind, pc, i, res, s)
  <2>1. ReplayShape(h, sock)
    BY <1>3 DEF ReplayShape, HandlerOf
  <2>2. proc' = [proc EXCEPT ![p] = h]
    BY <1>3 DEF Start
  <2> HIDE DEF h
  <2> QED
    BY <1>1, <1>2, <1>3, <2>1, <2>2, QuietWatch
<1>4. ASSUME NEW c \in Commands, PostCommand(p, c) \/ TimerFires(p, c) PROVE Watched'
  BY <1>3, <1>4 DEF PostCommand, TimerFires, linkVars
<1>5. CASE AckArrives(p)
  BY <1>3, <1>5 DEF AckArrives
<1>6. ASSUME NEW s \in Sockets, Connect(p, s) PROVE Watched'
  <2> DEFINE h == HandlerOf("connection", "join", None, None, s)
  <2>1. ReplayShape(h, sock')
    BY DEF ReplayShape, HandlerOf
  <2>2. proc' = [proc EXCEPT ![p] = h] /\ UNCHANGED <<doc, faults>> /\ At(p, "idle")
    BY <1>6 DEF Connect, Start
  <2> HIDE DEF h
  <2>3. \A r \in Sockets : IF r = s THEN sock[r] = "unused" /\ sock'[r] = "connecting"
                                    ELSE sock'[r] = sock[r]
    BY <1>1, <1>6 DEF Connect
  <2>4. SocketsHold /\ (RoomOccupied' <=> RoomOccupied)
    BY <2>3 DEF SocketsHold, RoomOccupied, InRoom
  <2>5. ReplaysOK'
    BY <1>1, <2>1, <2>2, <2>4, KeepsReplays DEF Watched
  <2>6. QueueWatched'
    BY <1>1, <1>2, <2>2, <2>4, KeepsWatch DEF Watched
  <2> QED
    BY <2>5, <2>6 DEF Watched
<1> QED
  BY <1>4, <1>5, <1>6 DEF HandlerStarts

LEMMA AdvanceHolds ==
    ASSUME LinkTypeOK, NEW s \in Sockets, NEW state \in {"joined", "listening"},
           Advance(s, state)
    PROVE  /\ SocketsHold
           /\ sock'[s] \in {"joined", "listening", "closed"}
           /\ sock[s] \in {"joined", "listening", "closed"} =>
                (RoomOccupied' <=> RoomOccupied)
<1>1. \A r \in Sockets :
        IF r # s THEN sock'[r] = sock[r]
        ELSE IF sock[s] = "closed" THEN sock'[r] = "closed" ELSE sock'[r] = state
  BY DEF LinkTypeOK, Advance
<1> QED
  BY <1>1 DEF SocketsHold, RoomOccupied, InRoom

LEMMA ConnectionWatch ==
    ASSUME DispatchInv, Watched, NEW p \in Procs,
           JoinRoom(p) \/ ReplayQueued(p) \/ ReplayNext(p) \/ StartListening(p)
    PROVE  Watched'
<1> DEFINE s == proc[p].sk
<1>1. HandlersOK /\ proc[p] \in Handler /\ ReplayShape(proc[p], sock) /\ LinkTypeOK
      /\ doc \in [Commands -> Document]
  BY DEF DispatchInv, ServiceInv, ServiceTypeOK, HandlersOK, Watched, ReplaysOK
<1>2. proc[p].kind = "connection" /\ s \in Sockets /\ UNCHANGED faults
  BY DEF DispatchInv, ServiceInv, HandlersOK, Shape, ConnectionPC, At, JoinRoom,
         ReplayQueued, ReplayNext, StartListening
<1>3. CASE JoinRoom(p)
  <2> DEFINE h == [proc[p] EXCEPT !.pc = "replay"]
  <2>1. h.pc = "replay" /\ h.todo = {} /\ h.sk = s
    BY <1>1, <1>3 DEF Handler, JoinRoom, At, ReplayShape, ReplayPC
  <2>2. proc' = [proc EXCEPT ![p] = h] /\ Advance(s, "joined")
    BY <1>3 DEF JoinRoom, Goto
  <2> HIDE DEF h
  <2>3. SocketsHold /\ sock'[s] \in {"joined", "listening", "closed"}
    BY <1>1, <1>2, <2>2, AdvanceHolds
  <2>4. ReplayShape(h, sock')
    BY <2>1, <2>3 DEF ReplayShape
  <2>5. \A c : LooksAt(h, c)
    BY <2>1 DEF LooksAt
  <2>6. ReplaysOK'
    BY <1>1, <2>2, <2>3, <2>4, KeepsReplays DEF Watched
  <2>7. QueueWatched'
    BY <1>1, <2>2, <2>5, KeepsWatch DEF Watched
  <2> QED
    BY <2>6, <2>7 DEF Watched
<1>4. CASE ReplayQueued(p)
  <2>1. PICK old \in SUBSET {c \in Expirable : doc[c].status = "queued"} :
          /\ doc' = [c \in Commands |->
                       IF c \in old THEN [doc[c] EXCEPT !.status = "timeout"]
                       ELSE doc[c]]
          /\ proc' = [proc EXCEPT ![p] =
                        [@ EXCEPT !.pc = "replay.next",
                                  !.todo = {c \in Commands \ old :
                                              doc[c].status = "queued"}]]
    BY <1>4 DEF ReplayQueued
  <2> DEFINE todo == {c \in Commands \ old : doc[c].status = "queued"}
             h == [proc[p] EXCEPT !.pc = "replay.next", !.todo = todo]
  <2>2. \A c \in Commands : doc'[c].status = "queued" => c \in todo
    BY <1>1, <2>1 DEF Document
  <2>3. proc' = [proc EXCEPT ![p] = h] /\ UNCHANGED sock /\ At(p, "replay")
    BY <1>4, <2>1 DEF ReplayQueued, linkVars
  <2> HIDE DEF todo
  <2>4. h.pc = "replay.next" /\ h.todo = todo /\ h.sk = s /\ h.kind = "connection"
    BY <1>1, <1>2 DEF Handler
  <2> HIDE DEF h
  <2>5. SocketsHold
    BY <2>3, SameRoom
  <2>6. ReplayShape(h, sock')
    BY <1>1, <1>2, <2>3, <2>4 DEF ReplayShape, ReplayPC, At
  <2>7. ReplaysOK'
    BY <1>1, <2>3, <2>5, <2>6, KeepsReplays DEF Watched
  <2>8. \A c \in Commands : doc'[c].status = "queued" => LooksAt(h, c)
    BY <2>2, <2>4 DEF LooksAt
  <2>9. QueueWatched'
    BY <1>1, <2>3, <2>8, KeepsWatch DEF Watched
  <2> QED
    BY <2>7, <2>9 DEF Watched
<1>5. CASE ReplayNext(p)
  <2>1. PICK c \in proc[p].todo :
          proc' = [proc EXCEPT ![p] =
                     [@ EXCEPT !.pc = "check", !.id = c, !.todo = proc[p].todo \ {c}]]
    BY <1>5 DEF ReplayNext
  <2> DEFINE todo == proc[p].todo \ {c}
             h == [proc[p] EXCEPT !.pc = "check", !.id = c, !.todo = todo]
  <2>2. proc' = [proc EXCEPT ![p] = h] /\ UNCHANGED <<doc, sock>> /\ At(p, "replay.next")
    BY <1>5, <2>1 DEF ReplayNext, linkVars
  <2>3. \A d \in proc[p].todo : d = c \/ d \in todo
    OBVIOUS
  <2> HIDE DEF todo
  <2>4. h.pc = "check" /\ h.id = c /\ h.todo = todo /\ h.sk = s /\ h.kind = "connection"
    BY <1>1, <1>2 DEF Handler
  <2> HIDE DEF h
  <2>5. ReplayShape(h, sock)
    BY <1>1, <1>2, <2>2, <2>4 DEF ReplayShape, ReplayPC, At
  <2>6. \A d \in Commands : LooksAt(proc[p], d) => LooksAt(h, d)
    BY <2>2, <2>3, <2>4 DEF LooksAt, At
  <2> QED
    BY <1>1, <1>2, <2>2, <2>5, <2>6, QuietWatch
<1>6. CASE StartListening(p)
  <2>1. /\ At(p, "replay.next") /\ proc[p].todo = {} /\ Advance(s, "listening")
        /\ proc' = [proc EXCEPT ![p] = Idle] /\ UNCHANGED doc
    BY <1>6 DEF StartListening, Finish
  <2>2. sock[s] \in {"joined", "listening", "closed"}
    BY <1>1, <1>2, <2>1 DEF ReplayShape, At
  <2>3. SocketsHold /\ (RoomOccupied' <=> RoomOccupied)
    BY <1>1, <1>2, <2>1, <2>2, AdvanceHolds
  <2>4. \A c : ~LooksAt(proc[p], c)
    BY <2>1 DEF LooksAt, At
  <2>5. ReplaysOK'
    BY <1>1, <2>1, <2>3, ReplayIdle, KeepsReplays DEF Watched
  <2>6. QueueWatched'
    BY <1>1, <1>2, <2>1, <2>3, <2>4, KeepsWatch DEF Watched
  <2> QED
    BY <2>5, <2>6 DEF Watched
<1> QED
  BY <1>3, <1>4, <1>5, <1>6

LEMMA AckWatch ==
    ASSUME DispatchInv, Watched, NEW p \in Procs,
           AckReads(p) \/ AckWrites(p) \/ AckFinishes(p)
    PROVE  Watched'
<1> DEFINE c == proc[p].id
<1>1. HandlersOK /\ proc[p] \in Handler /\ ReplayShape(proc[p], sock) /\ Shape(proc[p])
      /\ doc \in [Commands -> Document]
  BY DEF DispatchInv, ServiceInv, ServiceTypeOK, HandlersOK, Watched, ReplaysOK
<1>2. /\ UNCHANGED <<sock, faults>>
      /\ proc[p].pc \in {"ack.read", "ack.write", "ack.finish"}
  BY DEF AckReads, AckWrites, AckFinishes, linkVars, At
<1>3. proc[p].todo = {}
  BY <1>1, <1>2 DEF ReplayShape, ReplayPC
<1>4. CASE AckReads(p) \/ AckFinishes(p)
  <2>1. UNCHANGED doc /\ (Finish(p) \/ Goto(p, "ack.write"))
    BY <1>4 DEF AckReads, AckFinishes
  <2>2. CASE Finish(p)
    BY <1>1, <1>2, <2>1, <2>2, QuietFinish DEF ReplayPC
  <2>3. CASE Goto(p, "ack.write")
    BY <1>1, <1>2, <1>3, <2>1, <2>3, QuietGoto DEF PC
  <2> QED
    BY <2>1, <2>2, <2>3
<1>5. CASE AckWrites(p)
  <2> DEFINE h == [proc[p] EXCEPT !.pc = "ack.finish"]
  <2>1. h.pc = "ack.finish" /\ h.todo = {} /\ h.kind = proc[p].kind /\ h.sk = proc[p].sk
    BY <1>1, <1>3 DEF Handler
  <2>2. proc' = [proc EXCEPT ![p] = h]
    BY <1>5 DEF AckWrites, Goto
  <2> HIDE DEF h
  <2>3. c \in Commands /\ proc[p].res \in AckStatus
    BY <1>1, <1>5 DEF AckWrites, At, Shape, CommandPC, AckPC
  <2>4. StatusOf(proc[p].res) # "queued"
    BY <2>3 DEF StatusOf, AckStatus, Results
  <2>5. \A d \in Commands : doc'[d].status = "queued" => doc[d].status = "queued"
    BY <1>1, <1>5, <2>3, <2>4 DEF AckWrites, SetStatus, Document
  <2>6. \A d : ~LooksAt(proc[p], d)
    BY <1>2, <1>3 DEF LooksAt
  <2>7. SocketsHold /\ (RoomOccupied' <=> RoomOccupied)
    BY <1>2, SameRoom
  <2>8. ReplayShape(h, sock')
    BY <1>1, <1>2, <2>1 DEF ReplayShape
  <2>9. ReplaysOK'
    BY <1>1, <2>2, <2>7, <2>8, KeepsReplays DEF Watched
  <2>10. QueueWatched'
    BY <1>1, <1>2, <2>2, <2>5, <2>6, <2>7, KeepsWatch DEF Watched
  <2> QED
    BY <2>9, <2>10 DEF Watched
<1> QED
  BY <1>4, <1>5

\* A handler whose database call failed stops looking, but then a call failed.
LEMMA FaultWatch ==
    ASSUME DispatchInv, Watched, NEW p \in Procs, DatabaseFault(p)
    PROVE  Watched'
<1>1. HandlersOK /\ LinkTypeOK /\ Shape(proc[p]) /\ faults \in Nat
  BY BoundsAssumption DEF DispatchInv, ServiceInv, ServiceTypeOK, HandlersOK
<1>2. SocketsHold
  <2>1. CASE proc[p].kind = "connection"
    BY <1>1, <2>1, AdvanceHolds DEF DatabaseFault, Shape
  <2>2. CASE proc[p].kind # "connection"
    BY <2>2, SameRoom DEF DatabaseFault
  <2> QED
    BY <2>1, <2>2
<1>3. ReplaysOK'
  BY <1>1, <1>2, ReplayIdle, KeepsReplays DEF DatabaseFault, Finish, Watched
<1>4. faults' # 0
  BY <1>1 DEF DatabaseFault
<1> QED
  BY <1>3, <1>4 DEF Watched, QueueWatched

LEMMA RestartWatch ==
    ASSUME BackendRestarts
    PROVE  Watched'
<1>1. ~RoomOccupied'
  BY DEF BackendRestarts, RoomOccupied, InRoom
<1>2. ReplaysOK'
  BY ReplayIdle DEF BackendRestarts, ReplaysOK
<1> QED
  BY <1>1, <1>2 DEF Watched, QueueWatched

LEMMA StutterWatch ==
    ASSUME DispatchInv, Watched, UNCHANGED <<doc, proc, faults>>, SocketsHold,
           RoomOccupied' => RoomOccupied
    PROVE  Watched'
<1>1. ReplaysOK'
  BY DEF Watched, ReplaysOK, ReplayShape, SocketsHold, DispatchInv, ServiceInv, HandlersOK,
         Shape
<1>2. QueueWatched'
  BY DEF Watched, QueueWatched, LooksAt
<1> QED
  BY <1>1, <1>2 DEF Watched

LEMMA ServiceWatch ==
    ASSUME DispatchInv, Watched, ServiceNext
    PROVE  Watched'
<1>1. ASSUME NEW p \in Procs, HandlerStep(p) PROVE Watched'
  BY <1>1, PostWatch, DispatchWatch, TimerWatch, ConnectionWatch, AckWatch DEF HandlerStep
<1>2. CASE AckDropped
  BY <1>2, SameRoom, StutterWatch DEF AckDropped, serviceVars
<1> QED
  BY <1>1, <1>2, StartWatch, FaultWatch, RestartWatch DEF ServiceNext

LEMMA LinkWatch ==
    ASSUME DispatchInv, Watched, LinkNext
    PROVE  Watched'
<1>1. UNCHANGED <<doc, proc, faults>>
  BY DEF LinkNext, serviceVars
<1>2. ASSUME NEW s \in Sockets, BackendDropsSocket(s)
      PROVE  SocketsHold /\ (RoomOccupied' => RoomOccupied)
  BY <1>2 DEF BackendDropsSocket, SocketsHold, RoomOccupied, InRoom, DispatchInv,
              ServiceInv, LinkTypeOK
<1>3. CASE sock' = sock
  BY <1>1, <1>3, SameRoom, StutterWatch
<1> QED
  BY <1>1, <1>2, <1>3, StutterWatch DEF LinkNext, PlayerLosesSocket, PlayerSeesClose

\* What the service decides holds with any player at the other end.
DeliveryInv == IInv /\ DispatchInv /\ Watched

LEMMA DeliveryNext == DeliveryInv /\ [Next]_vars => DeliveryInv'
<1> SUFFICES ASSUME DeliveryInv, [Next]_vars PROVE DeliveryInv'
  OBVIOUS
<1> USE DEF DeliveryInv
<1>1. IInv'
  BY NextKeeps
<1>2. ServiceInv'
  BY <1>1 DEF IInv
<1>3. CASE ServiceNext
  BY <1>1, <1>3, DispatchNextInv, ServiceWatch
<1>4. CASE LinkNext
  <2>1. DispatchInv'
    BY <1>2, <1>4, DispatchStutterInv DEF LinkNext
  <2> QED
    BY <1>1, <1>4, <2>1, LinkWatch
<1>5. CASE UNCHANGED serviceVars /\ sock' = sock
  <2>1. Watched'
    BY <1>5, SameRoom, StutterWatch DEF serviceVars
  <2> QED
    BY <1>1, <1>2, <1>5, <2>1, DispatchStutterInv
<1>6. PlayerNext => sock' = sock
  BY DEF PlayerNext, ResendStoredResult, DispatchChecked, DispatchStarted, ResultConfirmed,
         FlushPendingAcks, ExecutionEnds, ExecutionLeaves, PlayerRestarts, linkVars
<1>7. UNCHANGED vars => UNCHANGED serviceVars /\ sock' = sock
  BY DEF vars, linkVars
<1> QED
  BY <1>3, <1>4, <1>5, <1>6, <1>7 DEF Next

LEMMA DeliveryInit == Init => DeliveryInv
<1> SUFFICES ASSUME Init PROVE DeliveryInv
  OBVIOUS
<1>1. IInv /\ DispatchInv
  BY InitKeeps, DispatchInitInv DEF Init
<1>2. Watched
  BY ReplayIdle DEF Init, LinkInit, ServiceInit, Watched, ReplaysOK, QueueWatched
<1> QED
  BY <1>1, <1>2 DEF DeliveryInv

LEMMA DeliveryInvariant == Spec => []DeliveryInv
BY DeliveryInit, DeliveryNext, PTL DEF Spec

(***************************************************************************)
(* A command that waits in the queue can be claimed: no overlap of timer   *)
(* callbacks, replays, acknowledgements and restarts uses its last attempt *)
(* and puts it back.                                                       *)
(***************************************************************************)
THEOREM QueuedCanBeClaimed == Spec => []QueuedIsClaimable
<1>1. DeliveryInv => QueuedIsClaimable
  BY DEF DeliveryInv, DispatchInv, TurnsOK, QueuedWithin, HasAttemptLeft, QueuedIsClaimable
<1> QED
  BY <1>1, DeliveryInvariant, PTL

(***************************************************************************)
(* No queued command lies beside an open connection with nobody left to    *)
(* dispatch it, as long as no database call has failed: for every number   *)
(* of connections, handlers and commands.                                  *)
(***************************************************************************)
THEOREM NoneStranded == Spec => []NoStrandedCommand
<1>1. DeliveryInv => NoStrandedCommand
  BY WatchedIsServed DEF DeliveryInv, Watched
<1> QED
  BY <1>1, DeliveryInvariant, PTL

-----------------------------------------------------------------------------
(* Counting the packets under way                                          *)

Places(s, m) == {k \in 1..Len(s) : s[k] = m}
Count(s, m) == Cardinality(Places(s, m))

LEMMA PlacesFinite ==
    ASSUME NEW S, NEW s \in Seq(S), NEW m
    PROVE  IsFiniteSet(Places(s, m)) /\ Count(s, m) \in Nat
<1>1. IsFiniteSet(1..Len(s))
  BY FS_Interval
<1>2. IsFiniteSet(Places(s, m))
  BY <1>1, FS_Subset DEF Places
<1> QED
  BY <1>2, FS_CardinalityType DEF Count

LEMMA CountEmpty == \A m : Count(<<>>, m) = 0
<1>1. \A m : Places(<<>>, m) = {}
  BY DEF Places
<1> QED
  BY <1>1, FS_EmptySet DEF Count

LEMMA CountAppend ==
    ASSUME NEW S, NEW s \in Seq(S), NEW e \in S, NEW m
    PROVE  Count(Append(s, e), m) = IF e = m THEN Count(s, m) + 1 ELSE Count(s, m)
<1> DEFINE t == Append(s, e)
<1>1. /\ Len(t) = Len(s) + 1 /\ t[Len(s) + 1] = e /\ Len(s) \in Nat
      /\ \A k \in 1..Len(s) : t[k] = s[k]
  OBVIOUS
<1> HIDE DEF t
<1>2. CASE e = m
  <2>1. Places(t, m) = Places(s, m) \cup {Len(s) + 1}
    BY <1>1, <1>2 DEF Places
  <2>2. Len(s) + 1 \notin Places(s, m)
    BY <1>1 DEF Places
  <2>3. Cardinality(Places(s, m) \cup {Len(s) + 1}) = Cardinality(Places(s, m)) + 1
    BY <2>2, PlacesFinite, FS_AddElement
  <2> QED
    BY <1>2, <2>1, <2>3 DEF Count, t
<1>3. CASE e # m
  <2>1. Places(t, m) = Places(s, m)
    BY <1>1, <1>3 DEF Places
  <2> QED
    BY <1>3, <2>1 DEF Count, t
<1> QED
  BY <1>2, <1>3

LEMMA CountTail ==
    ASSUME NEW S, NEW s \in Seq(S), s # <<>>, NEW m
    PROVE  Count(s, m) = IF Head(s) = m THEN Count(Tail(s), m) + 1 ELSE Count(Tail(s), m)
<1> DEFINE t == Tail(s)
           rest == {k \in 2..Len(s) : s[k] = m}
<1>1. /\ t \in Seq(S) /\ Len(t) = Len(s) - 1 /\ Len(s) \in Nat /\ Len(s) >= 1
      /\ \A k \in 1..Len(t) : t[k] = s[k + 1]
      /\ Head(s) = s[1]
  OBVIOUS
<1> HIDE DEF t
<1>2. Cardinality(rest) = Count(t, m) /\ IsFiniteSet(rest)
  <2> DEFINE f == [k \in Places(t, m) |-> k + 1]
  <2>1. f \in Bijection(Places(t, m), rest)
    <3>1. f \in [Places(t, m) -> rest]
      BY <1>1 DEF Places
    <3>2. \A j, k \in Places(t, m) : f[j] = f[k] => j = k
      BY <1>1 DEF Places
    <3>3. \A k \in rest : \E j \in Places(t, m) : f[j] = k
      <4>1. ASSUME NEW k \in rest PROVE \E j \in Places(t, m) : f[j] = k
        <5>1. k - 1 \in Places(t, m)
          BY <1>1 DEF Places
        <5>2. f[k - 1] = k
          BY <5>1
        <5> QED
          BY <5>1, <5>2
      <4> QED
        BY <4>1
    <3> HIDE DEF f, rest
    <3> QED
      BY <3>1, <3>2, <3>3 DEF Bijection, Injection, Surjection, IsInjective
  <2>2. IsFiniteSet(Places(t, m))
    BY <1>1, PlacesFinite
  <2> HIDE DEF f, rest
  <2>3. \E g : g \in Bijection(Places(t, m), rest)
    BY <2>1
  <2>4. IsFiniteSet(rest) /\ Cardinality(rest) = Cardinality(Places(t, m))
    BY <2>2, <2>3, FS_Bijection DEF ExistsBijection
  <2> QED
    BY <2>4 DEF Count
<1>3. CASE Head(s) = m
  <2>1. Places(s, m) = rest \cup {1} /\ 1 \notin rest
    BY <1>1, <1>3 DEF Places
  <2> HIDE DEF rest
  <2>2. Cardinality(rest \cup {1}) = Cardinality(rest) + 1
    BY <1>2, <2>1, FS_AddElement
  <2> QED
    BY <1>2, <1>3, <2>1, <2>2 DEF Count, t
<1>4. CASE Head(s) # m
  <2>1. Places(s, m) = rest
    BY <1>1, <1>4 DEF Places
  <2> QED
    BY <1>2, <1>4, <2>1 DEF Count, t
<1> QED
  BY <1>3, <1>4

-----------------------------------------------------------------------------
(* An execution per attempt                                                *)

(***************************************************************************)
(* Why the player starts a command at most once per attempt: each claim    *)
(* pays for one emission, the emission for one packet, the packet for one  *)
(* callback and the callback for one start, and nothing else makes any of  *)
(* them.  A restart of either side only loses what was paid for.           *)
(***************************************************************************)
One(b) == IF b THEN 1 ELSE 0
Emits(p, c) == proc[p].pc = "emit" /\ proc[p].id = c
Emitting(c) == \E p \in Procs : Emits(p, c)
Coming(c) == Count(down, Dispatch(c))
Spent(c) == runs[c] + One(callback = c) + Coming(c) + One(Emitting(c))
RunsPaid == \A c \in Commands : Spent(c) <= doc[c].attempts

LEMMA Counts ==
    ASSUME DeliveryInv, NEW c \in Commands
    PROVE  /\ runs[c] \in Nat /\ Coming(c) \in Nat /\ doc[c].attempts \in Nat
           /\ One(callback = c) \in {0, 1} /\ One(Emitting(c)) \in {0, 1}
<1>1. runs[c] \in Nat
  BY IdSets DEF DeliveryInv, IInv, PlayerTypeOK
<1>2. Coming(c) \in Nat
  BY PlacesFinite DEF DeliveryInv, IInv, ServiceInv, LinkTypeOK, Coming
<1>3. doc[c].attempts \in Nat
  BY Documents, MaxAttemptsAssumption DEF DeliveryInv, DispatchInv
<1> QED
  BY <1>1, <1>2, <1>3 DEF One

LEMMA OneMonotone ==
    ASSUME NEW a, NEW b, a => b
    PROVE  One(a) <= One(b) /\ One(a) \in {0, 1} /\ One(b) \in {0, 1}
BY DEF One

\* What the service sends that is not a dispatch of a command.
LEMMA OtherPackets ==
    ASSUME ServiceInv, NEW c \in Commands, NEW i \in Ids
    PROVE  /\ Count(Append(down, Accepted(i)), Dispatch(c)) = Coming(c)
           /\ i # c => Count(Append(down, Dispatch(i)), Dispatch(c)) = Coming(c)
<1>1. down \in Seq(ToPlayer)
  BY DEF ServiceInv, LinkTypeOK
<1>2. Accepted(i) \in ToPlayer /\ Dispatch(i) \in ToPlayer
  BY DEF Accepted, Dispatch, ToPlayer, Ids
<1>3. Accepted(i) # Dispatch(c) /\ (i # c => Dispatch(i) # Dispatch(c))
  BY CommandsAssumption DEF Accepted, Dispatch
<1> QED
  BY <1>1, <1>2, <1>3, CountAppend DEF Coming

\* A step that starts no emission, sends no dispatch and starts no execution
\* spends nothing.
LEMMA NothingSpent ==
    ASSUME DeliveryInv, RunsPaid, DeliveryInv',
           \A c \in Commands :
             /\ runs'[c] + One(callback' = c) <= runs[c] + One(callback = c)
             /\ Coming(c)' <= Coming(c)
             /\ Emitting(c)' => Emitting(c)
             /\ doc'[c].attempts >= doc[c].attempts
    PROVE  RunsPaid'
<1>1. ASSUME NEW c \in Commands PROVE Spent(c)' <= doc'[c].attempts
  <2>1. /\ runs[c] \in Nat /\ Coming(c) \in Nat /\ doc[c].attempts \in Nat
        /\ One(callback = c) \in {0, 1} /\ One(Emitting(c)) \in {0, 1}
    BY Counts
  <2>2. /\ runs'[c] \in Nat /\ Coming(c)' \in Nat /\ doc'[c].attempts \in Nat
        /\ One(callback' = c) \in {0, 1}
    <3>1. (/\ runs[c] \in Nat /\ Coming(c) \in Nat /\ doc[c].attempts \in Nat
           /\ One(callback = c) \in {0, 1})'
      <4>1. runs'[c] \in Nat
        BY IdSets DEF DeliveryInv, IInv, PlayerTypeOK
      <4>2. down' \in Seq(ToPlayer)
        BY DEF DeliveryInv, IInv, ServiceInv, LinkTypeOK
      <4>3. Count(down', Dispatch(c)) \in Nat
        BY <4>2, PlacesFinite
      <4>4. doc'[c].attempts \in 0..MaxAttempts
        BY DEF DeliveryInv, IInv, ServiceInv, ServiceTypeOK, Document
      <4> QED
        BY <4>1, <4>3, <4>4, MaxAttemptsAssumption DEF Coming, One
    <3> QED
      BY <3>1
  <2>3. One(Emitting(c)') <= One(Emitting(c)) /\ One(Emitting(c)') \in {0, 1}
    BY OneMonotone
  <2>4. Spent(c) = runs[c] + One(callback = c) + Coming(c) + One(Emitting(c))
        /\ Spent(c) <= doc[c].attempts
    BY DEF Spent, RunsPaid
  <2>5. Spent(c)' = runs'[c] + One(callback' = c) + Coming(c)' + One(Emitting(c)')
    BY DEF Spent
  <2>6. /\ runs'[c] + One(callback' = c) <= runs[c] + One(callback = c)
        /\ Coming(c)' <= Coming(c) /\ doc'[c].attempts >= doc[c].attempts
    OBVIOUS
  <2> HIDE DEF Spent, Coming
  <2> QED
    BY <2>1, <2>2, <2>3, <2>4, <2>5, <2>6
<1> QED
  BY <1>1 DEF RunsPaid

\* A handler step leaves the other handlers' emissions alone.
LEMMA Emissions ==
    ASSUME HandlersOK, NEW p \in Procs, NEW h, proc' = [proc EXCEPT ![p] = h]
    PROVE  \A c : Emitting(c)' => Emitting(c) \/ (h.pc = "emit" /\ h.id = c)
BY DEF HandlersOK, Emitting, Emits

LEMMA QuietEmissions ==
    ASSUME HandlersOK, NEW p \in Procs,
           \/ HandlerStarts(p)
           \/ HandlerStep(p) /\ ~ClaimDispatch(p)
           \/ DatabaseFault(p)
    PROVE  \A c : Emitting(c)' => Emitting(c)
<1>1. ASSUME NEW h, proc' = [proc EXCEPT ![p] = h], h.pc # "emit"
      PROVE  \A c : Emitting(c)' => Emitting(c)
  BY <1>1, Emissions
<1>2. proc[p] \in Handler
  BY DEF HandlersOK
<1>3. ASSUME NEW pc, pc # "emit", Goto(p, pc) PROVE \A c : Emitting(c)' => Emitting(c)
  <2> DEFINE h == [proc[p] EXCEPT !.pc = pc]
  <2>1. h.pc = pc
    BY <1>2 DEF Handler
  <2>2. proc' = [proc EXCEPT ![p] = h]
    BY <1>3 DEF Goto
  <2> HIDE DEF h
  <2> QED
    BY <1>1, <1>3, <2>1, <2>2
<1>4. ASSUME Finish(p) PROVE \A c : Emitting(c)' => Emitting(c)
  <2>1. Idle.pc # "emit" /\ proc' = [proc EXCEPT ![p] = Idle]
    BY <1>4 DEF Finish, Idle, HandlerOf
  <2> QED
    BY <1>1, <2>1
<1>5. ASSUME ReturnFromDispatch(p) PROVE \A c : Emitting(c)' => Emitting(c)
  <2>1. AfterDispatch(p).pc # "emit"
    BY <1>2 DEF AfterDispatch, Handler, Idle, HandlerOf
  <2> QED
    BY <1>1, <1>5, <2>1 DEF ReturnFromDispatch
<1>6. ASSUME NEW kind, NEW pc, NEW i, NEW res, NEW s, pc # "emit",
             Start(p, kind, pc, i, res, s)
      PROVE  \A c : Emitting(c)' => Emitting(c)
  <2> DEFINE h == HandlerOf(kind, pc, i, res, s)
  <2>1. h.pc # "emit" /\ proc' = [proc EXCEPT ![p] = h]
    BY <1>6 DEF Start, HandlerOf
  <2> HIDE DEF h
  <2> QED
    BY <1>1, <2>1
<1>7. CASE HandlerStarts(p)
  <2>1. ASSUME NEW c \in Commands, PostCommand(p, c) \/ TimerFires(p, c)
        PROVE  \A d : Emitting(d)' => Emitting(d)
    BY <1>6, <2>1 DEF PostCommand, TimerFires
  <2>2. ASSUME NEW s \in Sockets, Connect(p, s) PROVE \A d : Emitting(d)' => Emitting(d)
    BY <1>6, <2>2 DEF Connect
  <2>3. CASE AckArrives(p)
    BY <1>6, <2>3 DEF AckArrives
  <2> QED
    BY <1>7, <2>1, <2>2, <2>3 DEF HandlerStarts
<1>8. CASE DatabaseFault(p)
  BY <1>4, <1>8 DEF DatabaseFault
<1>9. CASE HandlerStep(p) /\ ~ClaimDispatch(p)
  <2>1. CASE \/ CreateCommand(p) \/ TimerReads(p) \/ TimerRequeues(p)
             \/ TimerRedispatches(p) \/ TimerExpires(p) \/ TimerClears(p)
             \/ JoinRoom(p) \/ AckReads(p) \/ AckWrites(p)
    BY <1>3, <1>4, <2>1
       DEF CreateCommand, TimerReads, TimerRequeues, TimerRedispatches, TimerExpires,
           TimerClears, JoinRoom, AckReads, AckWrites
  <2>2. CASE StartListening(p) \/ AckFinishes(p)
    BY <1>4, <2>2 DEF StartListening, AckFinishes
  <2>3. CASE CheckDispatch(p)
    BY <1>3, <1>5, <2>3 DEF CheckDispatch
  <2>4. CASE CheckRoom(p) \/ EmitDispatch(p)
    BY <1>3, <1>5, <2>4 DEF CheckRoom, EmitDispatch
  <2>5. CASE ReplayQueued(p)
    <3>1. PICK todo : proc' = [proc EXCEPT ![p] =
                                 [@ EXCEPT !.pc = "replay.next", !.todo = todo]]
      BY <2>5 DEF ReplayQueued
    <3> DEFINE h == [proc[p] EXCEPT !.pc = "replay.next", !.todo = todo]
    <3>2. h.pc = "replay.next" /\ proc' = [proc EXCEPT ![p] = h]
      BY <1>2, <3>1 DEF Handler
    <3> HIDE DEF h
    <3> QED
      BY <1>1, <3>2
  <2>6. CASE ReplayNext(p)
    <3>1. PICK c, todo :
            proc' = [proc EXCEPT ![p] =
                       [@ EXCEPT !.pc = "check", !.id = c, !.todo = todo]]
      BY <2>6 DEF ReplayNext
    <3> DEFINE h == [proc[p] EXCEPT !.pc = "check", !.id = c, !.todo = todo]
    <3>2. h.pc = "check" /\ proc' = [proc EXCEPT ![p] = h]
      BY <1>2, <3>1 DEF Handler
    <3> HIDE DEF h
    <3> QED
      BY <1>1, <3>2
  <2> QED
    BY <1>9, <2>1, <2>2, <2>3, <2>4, <2>5, <2>6 DEF HandlerStep
<1> QED
  BY <1>7, <1>8, <1>9

\* What the service does to the dispatches under way.
LEMMA QuietPackets ==
    ASSUME ServiceInv, NEW p \in Procs,
           \/ HandlerStarts(p)
           \/ HandlerStep(p) /\ ~EmitDispatch(p)
           \/ DatabaseFault(p)
    PROVE  \A c \in Commands : Coming(c)' <= Coming(c)
<1>1. down \in Seq(ToPlayer) /\ \A c \in Commands : Coming(c) \in Nat
  BY PlacesFinite DEF ServiceInv, LinkTypeOK, Coming
<1>2. ASSUME down' = down PROVE \A c \in Commands : Coming(c)' <= Coming(c)
  BY <1>1, <1>2 DEF Coming
<1>3. ASSUME NEW i \in Ids, NEW s, down' = EmitToSocket(s, Accepted(i))
      PROVE  \A c \in Commands : Coming(c)' <= Coming(c)
  <2>1. CASE down' = down
    BY <1>2, <2>1
  <2>2. CASE down' = Append(down, Accepted(i))
    BY <1>1, <2>2, OtherPackets DEF Coming
  <2> QED
    BY <1>3, <2>1, <2>2 DEF EmitToSocket
<1>4. CASE AckReads(p) \/ AckFinishes(p)
  <2>1. proc[p].id \in Ids
    BY <1>4 DEF AckReads, AckFinishes, At, ServiceInv, HandlersOK, Shape, AckPC
  <2> QED
    BY <1>2, <1>3, <1>4, <2>1 DEF AckReads, AckFinishes
<1>5. CASE StartListening(p)
  <2> DEFINE s == proc[p].sk
  <2>1. s \in Sockets
    BY <1>5 DEF StartListening, At, ServiceInv, HandlersOK, Shape, ConnectionPC
  <2>2. CASE down' = Append(down, Dispatch(s))
    BY <1>1, <2>1, <2>2, CommandsAssumption, OtherPackets DEF Coming, Ids
  <2> QED
    BY <1>2, <1>5, <2>2 DEF StartListening, EmitToSocket
<1>6. ASSUME HandlerStarts(p) \/ DatabaseFault(p) PROVE down' = down
  BY <1>6 DEF HandlerStarts, PostCommand, TimerFires, Connect, AckArrives, DatabaseFault,
              linkVars
<1>7. CASE HandlerStep(p) /\ ~EmitDispatch(p)
  <2>1. CASE \/ CreateCommand(p) \/ CheckDispatch(p) \/ CheckRoom(p) \/ ClaimDispatch(p)
             \/ TimerReads(p) \/ TimerRequeues(p) \/ TimerRedispatches(p)
             \/ TimerExpires(p) \/ TimerClears(p) \/ JoinRoom(p) \/ ReplayQueued(p)
             \/ ReplayNext(p) \/ AckWrites(p)
    <3>1. down' = down
      BY <2>1
         DEF CreateCommand, CheckDispatch, CheckRoom, ClaimDispatch, TimerReads,
             TimerRequeues, TimerRedispatches, TimerExpires, TimerClears, JoinRoom,
             ReplayQueued, ReplayNext, AckWrites, linkVars
    <3> QED
      BY <1>2, <3>1
  <2> QED
    BY <1>4, <1>5, <1>7, <2>1 DEF HandlerStep
<1> QED
  BY <1>2, <1>6, <1>7

LEMMA ClaimSpends ==
    ASSUME DeliveryInv, RunsPaid, NEW p \in Procs, ClaimDispatch(p),
           UNCHANGED playerVars, AttemptsGrow, DeliveryInv'
    PROVE  RunsPaid'
<1> DEFINE c == proc[p].id
<1>1. /\ HandlersOK /\ proc[p] \in Handler /\ c \in Commands /\ At(p, "claim")
      /\ doc \in [Commands -> Document]
  BY DEF DeliveryInv, DispatchInv, ServiceInv, ServiceTypeOK, HandlersOK, Shape, CommandPC,
         ClaimDispatch, At
<1>2. /\ UNCHANGED <<down, runs, callback>>
      /\ \A d \in Commands : doc'[d].attempts >= doc[d].attempts
  BY DEF ClaimDispatch, linkVars, playerVars, AttemptsGrow
<1>3. CASE Claimable(c)
  <2> DEFINE h == [proc[p] EXCEPT !.pc = "emit"]
  <2>1. h.pc = "emit" /\ h.id = c /\ proc' = [proc EXCEPT ![p] = h]
    BY <1>1, <1>3 DEF ClaimDispatch, Goto, Handler
  <2> HIDE DEF h
  <2>2. \A d : Emitting(d)' => Emitting(d) \/ d = c
    BY <1>1, <2>1, Emissions
  <2>3. doc'[c].attempts = doc[c].attempts + 1
    BY <1>1, <1>3 DEF ClaimDispatch
  <2>4. ASSUME NEW d \in Commands PROVE Spent(d)' <= doc'[d].attempts
    <3>1. /\ runs[d] \in Nat /\ Coming(d) \in Nat /\ doc[d].attempts \in Nat
          /\ One(callback = d) \in {0, 1} /\ One(Emitting(d)) \in {0, 1}
      BY Counts
    <3>2. Spent(d) <= doc[d].attempts
      BY DEF RunsPaid
    <3>3. Spent(d)' = runs[d] + One(callback = d) + Coming(d) + One(Emitting(d)')
      BY <1>2 DEF Spent, Coming
    <3>4. doc'[d].attempts \in Nat
      BY <1>1, <1>3, <2>3, <3>1 DEF ClaimDispatch
    <3>5. One(Emitting(d)') \in {0, 1}
      BY DEF One
    <3>6. CASE d = c
      BY <2>3, <3>1, <3>2, <3>3, <3>5, <3>6 DEF Spent
    <3>7. CASE d # c
      <4>1. One(Emitting(d)') <= One(Emitting(d))
        BY <2>2, <3>7, OneMonotone
      <4>2. doc'[d].attempts >= doc[d].attempts
        BY <1>2
      <4> QED
        BY <3>1, <3>2, <3>3, <3>4, <3>5, <4>1, <4>2 DEF Spent
    <3> QED
      BY <3>6, <3>7
  <2> QED
    BY <2>4 DEF RunsPaid
<1>4. CASE ~Claimable(c)
  <2>1. AfterDispatch(p).pc # "emit"
    BY <1>1 DEF AfterDispatch, Handler, Idle, HandlerOf
  <2>2. proc' = [proc EXCEPT ![p] = AfterDispatch(p)]
    BY <1>4 DEF ClaimDispatch, ReturnFromDispatch
  <2>3. \A d : Emitting(d)' => Emitting(d)
    BY <1>1, <2>1, <2>2, Emissions
  <2>4. \A d \in Commands :
          /\ runs'[d] + One(callback' = d) <= runs[d] + One(callback = d)
          /\ Coming(d)' <= Coming(d)
    <3>1. \A d \in Commands : /\ runs[d] \in Nat /\ Coming(d) \in Nat
                              /\ One(callback = d) \in {0, 1}
      BY Counts
    <3> QED
      BY <1>2, <3>1 DEF Coming
  <2> QED
    BY <1>2, <2>3, <2>4, NothingSpent
<1> QED
  BY <1>3, <1>4

LEMMA EmitSpends ==
    ASSUME DeliveryInv, RunsPaid, NEW p \in Procs, EmitDispatch(p),
           UNCHANGED playerVars
    PROVE  RunsPaid'
<1>1. /\ HandlersOK /\ proc[p] \in Handler /\ proc[p].id \in Commands /\ At(p, "emit")
      /\ down \in Seq(ToPlayer) /\ OneTurn
  BY DEF DeliveryInv, DispatchInv, ServiceInv, LinkTypeOK, HandlersOK, Shape, CommandPC,
         EmitDispatch, At, TurnsOK
<1> PICK c \in Commands : proc[p].id = c
  BY <1>1
<1>2. UNCHANGED <<doc, runs, callback>>
  BY DEF EmitDispatch, playerVars
<1>3. AfterDispatch(p).pc # "emit" /\ proc' = [proc EXCEPT ![p] = AfterDispatch(p)]
  BY <1>1 DEF EmitDispatch, ReturnFromDispatch, AfterDispatch, Handler, Idle, HandlerOf
<1>4. \A d : Emitting(d)' => Emitting(d)
  BY <1>1, <1>3, Emissions
<1>5. Emitting(c) /\ ~Emitting(c)'
  <2>1. \A q \in Procs : Emits(q, c) => q = p
    BY <1>1 DEF OneTurn, HasTurn, HolderPC, Emits, At
  <2>2. \A q \in Procs : proc'[q] = IF q = p THEN AfterDispatch(p) ELSE proc[q]
    BY <1>1, <1>3 DEF HandlersOK
  <2> QED
    BY <1>1, <1>3, <2>1, <2>2 DEF Emitting, Emits, At
<1>6. /\ Coming(c)' <= Coming(c) + 1 /\ Coming(c)' \in Nat
      /\ \A d \in Commands : d # c => Coming(d)' = Coming(d)
  <2>1. Dispatch(c) \in ToPlayer /\ c \in Ids
    BY <1>1 DEF Dispatch, ToPlayer, Ids
  <2>2. Coming(c) \in Nat
    BY <1>1, Counts
  <2>3. CASE down' = down
    BY <2>2, <2>3 DEF Coming
  <2>4. CASE down' = Append(down, Dispatch(c))
    <3>1. Coming(c)' = Coming(c) + 1
      BY <1>1, <2>1, <2>4, CountAppend DEF Coming
    <3>2. ASSUME NEW d \in Commands, d # c PROVE Coming(d)' = Coming(d)
      <4>1. Dispatch(c) # Dispatch(d)
        BY <3>2 DEF Dispatch
      <4> QED
        BY <1>1, <2>1, <2>4, <4>1, CountAppend DEF Coming
    <3> QED
      BY <2>2, <3>1, <3>2
  <2> QED
    BY <2>3, <2>4 DEF EmitDispatch, EmitToRoom
<1>7. ASSUME NEW d \in Commands PROVE Spent(d)' <= doc'[d].attempts
  <2>1. /\ runs[d] \in Nat /\ Coming(d) \in Nat /\ doc[d].attempts \in Nat
        /\ One(callback = d) \in {0, 1} /\ One(Emitting(d)) \in {0, 1}
    BY Counts
  <2>2. Spent(d) <= doc[d].attempts
    BY DEF RunsPaid
  <2>3. Spent(d)' = runs[d] + One(callback = d) + Coming(d)' + One(Emitting(d)')
    BY <1>2 DEF Spent
  <2>4. One(Emitting(d)') <= One(Emitting(d)) /\ One(Emitting(d)') \in {0, 1}
    BY <1>4, OneMonotone
  <2>5. CASE d = c
    <3>1. One(Emitting(d)') = 0 /\ One(Emitting(d)) = 1
      BY <1>5, <2>5 DEF One
    <3> QED
      BY <1>2, <1>6, <2>1, <2>2, <2>3, <2>5, <3>1 DEF Spent
  <2>6. CASE d # c
    BY <1>2, <1>6, <2>1, <2>2, <2>3, <2>4, <2>6 DEF Spent
  <2> QED
    BY <2>5, <2>6
<1> QED
  BY <1>7 DEF RunsPaid

LEMMA ServiceSpends ==
    ASSUME DeliveryInv, RunsPaid, ServiceNext, UNCHANGED playerVars, DeliveryInv'
    PROVE  RunsPaid'
<1>1. AttemptsGrow /\ HandlersOK /\ ServiceInv
  BY DispatchNextInv DEF DeliveryInv, DispatchInv, ServiceInv
<1>2. UNCHANGED <<runs, callback>>
  BY DEF playerVars
<1>3. \A c \in Commands :
        /\ runs'[c] + One(callback' = c) <= runs[c] + One(callback = c)
        /\ doc'[c].attempts >= doc[c].attempts
        /\ Coming(c) \in Nat
  <2>1. \A c \in Commands : /\ runs[c] \in Nat /\ One(callback = c) \in {0, 1}
                            /\ Coming(c) \in Nat
    BY Counts
  <2> QED
    BY <1>1, <1>2, <2>1 DEF AttemptsGrow
<1>4. ASSUME NEW p \in Procs,
             \/ HandlerStarts(p) \/ DatabaseFault(p)
             \/ HandlerStep(p) /\ ~ClaimDispatch(p) /\ ~EmitDispatch(p)
      PROVE  RunsPaid'
  <2>1. \A c \in Commands : Coming(c)' <= Coming(c)
    BY <1>1, <1>4, QuietPackets
  <2>2. \A c : Emitting(c)' => Emitting(c)
    BY <1>1, <1>4, QuietEmissions
  <2> QED
    BY <1>3, <2>1, <2>2, NothingSpent
<1>5. CASE AckDropped
  BY <1>3, <1>5, NothingSpent DEF AckDropped, serviceVars, Coming, Emitting, Emits
<1>6. CASE BackendRestarts
  <2>1. \A c : ~Emitting(c)'
    BY <1>6 DEF BackendRestarts, Emitting, Emits, Idle, HandlerOf
  <2>2. \A c \in Commands : Coming(c)' <= Coming(c)
    BY <1>3, <1>6, CountEmpty DEF BackendRestarts, Coming
  <2> QED
    BY <1>3, <2>1, <2>2, NothingSpent
<1> QED
  BY <1>1, <1>4, <1>5, <1>6, ClaimSpends, EmitSpends DEF ServiceNext

LEMMA LinkSpends ==
    ASSUME DeliveryInv, RunsPaid, LinkNext, UNCHANGED playerVars, DeliveryInv'
    PROVE  RunsPaid'
<1>1. UNCHANGED <<runs, callback, doc, proc>>
  BY DEF playerVars, LinkNext, serviceVars
<1>2. down' = down \/ down' = <<>>
  BY DEF LinkNext, PlayerLosesSocket, BackendDropsSocket, PlayerSeesClose
<1>3. \A c \in Commands :
        /\ runs[c] \in Nat /\ One(callback = c) \in {0, 1}
        /\ Coming(c) \in Nat /\ doc[c].attempts \in Nat
  BY Counts
<1>4. \A c \in Commands : Coming(c)' <= Coming(c)
  BY <1>2, <1>3, CountEmpty DEF Coming
<1>5. \A c \in Commands :
        /\ runs'[c] + One(callback' = c) <= runs[c] + One(callback = c)
        /\ doc'[c].attempts >= doc[c].attempts
  BY <1>1, <1>3
<1> QED
  BY <1>1, <1>4, <1>5, NothingSpent DEF Emitting, Emits

LEMMA TakesPacket ==
    ASSUME DeliveryInv, down # <<>>, down' = Tail(down), NEW c \in Commands
    PROVE  Coming(c) = IF Head(down) = Dispatch(c) THEN Coming(c)' + 1 ELSE Coming(c)'
<1>1. down \in Seq(ToPlayer)
  BY DEF DeliveryInv, IInv, ServiceInv, LinkTypeOK
<1> QED
  BY <1>1, CountTail DEF Coming

LEMMA PlayerSpends ==
    ASSUME DeliveryInv, RunsPaid, PlayerNext, UNCHANGED serviceVars, DeliveryInv'
    PROVE  RunsPaid'
<1>1. UNCHANGED <<doc, proc>> /\ down \in Seq(ToPlayer) /\ down' \in Seq(ToPlayer)
  BY DEF serviceVars, DeliveryInv, IInv, ServiceInv, LinkTypeOK
<1>2. \A c \in Commands :
        /\ runs[c] \in Nat /\ One(callback = c) \in {0, 1}
        /\ Coming(c) \in Nat /\ doc[c].attempts \in Nat /\ Coming(c)' \in Nat
  BY <1>1, Counts, PlacesFinite DEF Coming
<1>3. \A c \in Commands : (Emitting(c)' => Emitting(c)) /\ doc'[c].attempts >= doc[c].attempts
  BY <1>1, <1>2 DEF Emitting, Emits
<1>4. ASSUME UNCHANGED <<runs, callback>>, \A c \in Commands : Coming(c)' <= Coming(c)
      PROVE  RunsPaid'
  BY <1>2, <1>3, <1>4, NothingSpent
<1>5. ASSUME down # <<>>, down' = Tail(down) PROVE \A c \in Commands : Coming(c)' <= Coming(c)
  BY <1>2, <1>5, TakesPacket
<1>6. CASE ResendStoredResult \/ ResultConfirmed
  BY <1>4, <1>5, <1>6 DEF ResendStoredResult, ResultConfirmed, Receives, playerVars
<1>7. CASE DispatchChecked
  <2>1. /\ down # <<>> /\ down' = Tail(down) /\ callback = None
        /\ callback' = Head(down).id /\ runs' = runs
        /\ Head(down).type = "COMMAND_DISPATCH" /\ Head(down) \in ToPlayer
    BY <1>1, <1>7 DEF DispatchChecked, Receives
  <2>2. ASSUME NEW c \in Commands PROVE Spent(c)' <= doc'[c].attempts
    <3>1. Spent(c)' = runs[c] + One(callback' = c) + Coming(c)' + One(Emitting(c)')
      BY <2>1 DEF Spent
    <3>2. Spent(c) <= doc[c].attempts /\ One(Emitting(c)') = One(Emitting(c))
      BY <1>1 DEF RunsPaid, Emitting, Emits, One
    <3>3. One(callback = c) = 0
      BY <2>1, CommandsAssumption DEF One
    <3>4. One(Emitting(c)) \in {0, 1}
      BY Counts
    <3>5. CASE callback' = c
      <4>1. Head(down) = Dispatch(c)
        BY <2>1, <3>5 DEF Dispatch, ToPlayer
      <4>2. Coming(c) = Coming(c)' + 1
        BY <2>1, <4>1, TakesPacket
      <4>3. One(callback' = c) = 1
        BY <3>5 DEF One
      <4> QED
        BY <1>1, <1>2, <3>1, <3>2, <3>3, <3>4, <4>2, <4>3 DEF Spent
    <3>6. CASE callback' # c
      <4>1. Coming(c)' <= Coming(c)
        BY <1>5, <2>1
      <4>2. One(callback' = c) = 0
        BY <3>6 DEF One
      <4> QED
        BY <1>1, <1>2, <3>1, <3>2, <3>3, <3>4, <4>1, <4>2 DEF Spent
    <3> QED
      BY <3>5, <3>6
  <2> QED
    BY <2>2 DEF RunsPaid
<1>8. CASE DispatchStarted
  <2>1. /\ callback # None /\ callback' = None /\ down' = down
        /\ runs' = runs \/ runs' = [runs EXCEPT ![callback] = @ + 1]
    BY <1>8 DEF DispatchStarted, linkVars
  <2>2. runs \in [CommandIds -> Nat] /\ Commands \subseteq CommandIds
    BY IdSets DEF DeliveryInv, IInv, PlayerTypeOK
  <2>3. ASSUME NEW c \in Commands
        PROVE  runs'[c] + One(callback' = c) <= runs[c] + One(callback = c)
    <3>1. One(callback' = c) = 0 /\ c # None
      BY <2>1, CommandsAssumption DEF One
    <3>2. CASE callback = c
      BY <1>2, <2>1, <2>2, <3>1, <3>2 DEF One
    <3>3. CASE callback # c
      BY <1>2, <2>1, <2>2, <3>1, <3>3 DEF One
    <3> QED
      BY <3>2, <3>3
  <2>4. \A c \in Commands : Coming(c)' <= Coming(c)
    BY <1>2, <2>1 DEF Coming
  <2> QED
    BY <1>3, <2>3, <2>4, NothingSpent
<1>9. ASSUME NEW i \in CommandIds,
             (\E res \in Outcomes : ExecutionEnds(i, res)) \/ ExecutionLeaves(i)
      PROVE  RunsPaid'
  <2>1. UNCHANGED <<runs, callback, down>>
    BY <1>9 DEF ExecutionEnds, ExecutionLeaves, linkVars
  <2> QED
    BY <1>2, <1>4, <2>1 DEF Coming
<1>10. CASE FlushPendingAcks
  BY <1>2, <1>4, <1>10 DEF FlushPendingAcks, playerVars, Coming
<1>11. CASE PlayerRestarts
  <2>1. callback' = None /\ down' = <<>> /\ runs' = runs
    BY <1>11 DEF PlayerRestarts
  <2>2. \A c \in Commands : Coming(c)' <= Coming(c)
    BY <1>2, <2>1, CountEmpty DEF Coming
  <2>3. \A c \in Commands : runs'[c] + One(callback' = c) <= runs[c] + One(callback = c)
    <3>1. \A c \in Commands : One(callback' = c) = 0
      BY <2>1, CommandsAssumption DEF One
    <3> QED
      BY <1>2, <2>1, <3>1
  <2> QED
    BY <1>3, <2>2, <2>3, NothingSpent
<1> QED
  BY <1>6, <1>7, <1>8, <1>9, <1>10, <1>11 DEF PlayerNext

-----------------------------------------------------------------------------
(* Attempts behind timers and retries                                      *)

\* A command that was sent, whose timer runs or that has its turn was attempted;
\* and the player sends results only, so no command is merely acknowledged.
Tried(c) ==
    c \in armed \/ doc[c].status = "sent" \/ \E p \in Procs : HasTurn(proc[p], c)
TriedOK ==
    \A c \in Commands :
        doc[c].status # "acknowledged" /\ (Tried(c) => doc[c].attempts > 0)

\* The handler of slot p comes to h and leaves the others alone.
LEMMA KeepsTried ==
    ASSUME DeliveryInv, TriedOK, AttemptsGrow, NEW p \in Procs, NEW h,
           DeliveryInv',
           proc' = [proc EXCEPT ![p] = h],
           \A c \in Commands :
             /\ doc'[c].status # "acknowledged"
             /\ doc'[c].status = "sent" => doc[c].status = "sent" \/ doc'[c].attempts > 0
             /\ c \in armed' => Tried(c)
             /\ HasTurn(h, c) => Tried(c) \/ doc'[c].attempts > 0
    PROVE  TriedOK'
<1>1. ASSUME NEW c \in Commands, Tried(c)' PROVE doc'[c].attempts > 0
  <2>1. doc[c].attempts \in Nat /\ doc'[c].attempts \in 0..MaxAttempts
        /\ doc'[c].attempts >= doc[c].attempts
    BY Counts DEF AttemptsGrow, DeliveryInv, IInv, ServiceInv, ServiceTypeOK, Document
  <2>2. CASE Tried(c)
    BY <2>1, <2>2, MaxAttemptsAssumption DEF TriedOK
  <2>3. CASE ~Tried(c)
    <3>1. \A q \in Procs : proc'[q] = IF q = p THEN h ELSE proc[q]
      BY DEF DeliveryInv, DispatchInv, ServiceInv, HandlersOK
    <3>2. ~HasTurn(h, c) => \A q \in Procs : ~HasTurn(proc'[q], c)
      BY <2>3, <3>1 DEF Tried
    <3> QED
      BY <1>1, <2>3, <3>2 DEF Tried
  <2> QED
    BY <2>2, <2>3
<1> QED
  BY <1>1 DEF TriedOK

LEMMA GotoTried ==
    ASSUME DeliveryInv, TriedOK, AttemptsGrow, DeliveryInv', NEW p \in Procs, NEW pc,
           Goto(p, pc),
           pc \in HolderPC => proc[p].pc \in HolderPC,
           armed' \subseteq armed,
           \A c \in Commands :
             /\ doc'[c].status # "acknowledged"
             /\ doc'[c].status = "sent" => doc[c].status = "sent"
    PROVE  TriedOK'
<1> DEFINE h == [proc[p] EXCEPT !.pc = pc]
<1>1. proc[p] \in Handler
  BY DEF DeliveryInv, DispatchInv, ServiceInv, HandlersOK
<1>2. h.pc = pc /\ h.id = proc[p].id /\ proc' = [proc EXCEPT ![p] = h]
  BY <1>1 DEF Handler, Goto
<1> HIDE DEF h
<1>3. \A c : HasTurn(h, c) => HasTurn(proc[p], c)
  BY <1>2 DEF HasTurn
<1>4. \A c \in Commands : HasTurn(proc[p], c) \/ c \in armed => Tried(c)
  BY DEF Tried
<1> QED
  BY <1>2, <1>3, <1>4, KeepsTried

LEMMA FinishTried ==
    ASSUME DeliveryInv, TriedOK, AttemptsGrow, DeliveryInv', NEW p \in Procs,
           Finish(p) \/ ReturnFromDispatch(p),
           \A c \in Commands : c \in armed' => c \in armed \/ HasTurn(proc[p], c),
           \A c \in Commands :
             /\ doc'[c].status # "acknowledged"
             /\ doc'[c].status = "sent" => doc[c].status = "sent"
    PROVE  TriedOK'
<1>1. PICK h : h.pc \notin HolderPC /\ proc' = [proc EXCEPT ![p] = h]
  <2>1. proc[p] \in Handler
    BY DEF DeliveryInv, DispatchInv, ServiceInv, HandlersOK
  <2>2. Idle.pc \notin HolderPC
    BY DEF Idle, HandlerOf, HolderPC
  <2>3. AfterDispatch(p).pc \notin HolderPC
    BY <2>1, <2>2 DEF AfterDispatch, Handler, HolderPC
  <2> QED
    BY <2>2, <2>3 DEF Finish, ReturnFromDispatch
<1>2. \A c : ~HasTurn(h, c)
  BY <1>1 DEF HasTurn
<1>3. \A c \in Commands : HasTurn(proc[p], c) \/ c \in armed => Tried(c)
  BY DEF Tried
<1> QED
  BY <1>1, <1>2, <1>3, KeepsTried

LEMMA ServiceTried ==
    ASSUME DeliveryInv, TriedOK, ServiceNext, DeliveryInv'
    PROVE  TriedOK'
<1>1. AttemptsGrow
  BY DispatchNextInv DEF DeliveryInv
<1>2. /\ HandlersOK /\ AcksOK
      /\ doc \in [Commands -> Document] /\ doc' \in [Commands -> Document]
      /\ armed \subseteq Commands
      /\ \A c \in Commands : doc[c].status # "acknowledged"
  BY DEF DeliveryInv, DispatchInv, IInv, ServiceInv, ServiceTypeOK, TriedOK
<1>3. doc' = doc => \A c \in Commands :
                      /\ doc'[c].status # "acknowledged"
                      /\ doc'[c].status = "sent" => doc[c].status = "sent"
  BY <1>2
<1>4. ASSUME NEW p \in Procs, HandlerStarts(p) PROVE TriedOK'
  <2>1. ASSUME NEW kind, NEW pc, NEW i, NEW res, NEW s,
               Start(p, kind, pc, i, res, s), doc' = doc, armed' \subseteq armed,
               pc \in HolderPC => i \in armed
        PROVE  TriedOK'
    <3> DEFINE h == HandlerOf(kind, pc, i, res, s)
    <3>1. h.pc = pc /\ h.id = i /\ proc' = [proc EXCEPT ![p] = h]
      BY <2>1 DEF HandlerOf, Start
    <3> HIDE DEF h
    <3>2. \A c \in Commands : (c \in armed => Tried(c)) /\ (HasTurn(h, c) => c \in armed)
      BY <2>1, <3>1 DEF Tried, HasTurn
    <3> QED
      BY <1>1, <1>3, <2>1, <3>1, <3>2, KeepsTried
  <2>2. ASSUME NEW c \in Commands, PostCommand(p, c) PROVE TriedOK'
    BY <2>1, <2>2 DEF PostCommand, HolderPC
  <2>3. ASSUME NEW c \in Commands, TimerFires(p, c) PROVE TriedOK'
    BY <2>1, <2>3 DEF TimerFires
  <2>4. ASSUME NEW s \in Sockets, Connect(p, s) PROVE TriedOK'
    BY <2>1, <2>4 DEF Connect, HolderPC
  <2>5. CASE AckArrives(p)
    BY <2>1, <2>5 DEF AckArrives, HolderPC
  <2> QED
    BY <1>4, <2>2, <2>3, <2>4, <2>5 DEF HandlerStarts
<1>5. ASSUME NEW p \in Procs, HandlerStep(p) PROVE TriedOK'
  <2> DEFINE c == proc[p].id
  <2>1. CASE CreateCommand(p)
    <3>1. \A d \in Commands :
            /\ doc'[d].status # "acknowledged"
            /\ doc'[d].status = "sent" => doc[d].status = "sent"
      BY <1>2, <2>1 DEF CreateCommand
    <3>2. Goto(p, "check") \/ Finish(p)
      BY <2>1 DEF CreateCommand
    <3>3. armed' = armed
      BY <2>1 DEF CreateCommand
    <3> QED
      BY <1>1, <3>1, <3>2, <3>3, GotoTried, FinishTried DEF HolderPC
  <2>2. CASE CheckDispatch(p) \/ CheckRoom(p)
    <3>1. doc' = doc /\ armed' = armed
          /\ (ReturnFromDispatch(p) \/ \E pc \in {"claim", "room"} : Goto(p, pc))
      BY <2>2 DEF CheckDispatch, CheckRoom
    <3>2. CASE ReturnFromDispatch(p)
      BY <1>1, <1>3, <3>1, <3>2, FinishTried
    <3>3. ASSUME NEW pc \in {"claim", "room"}, Goto(p, pc) PROVE TriedOK'
      BY <1>1, <1>3, <3>1, <3>3, GotoTried DEF HolderPC
    <3> QED
      BY <3>1, <3>2, <3>3
  <2>3. CASE ClaimDispatch(p)
    <3>1. c \in Commands /\ armed' = armed /\ proc[p] \in Handler
      BY <1>2, <2>3 DEF ClaimDispatch, At, HandlersOK, Shape, CommandPC
    <3>2. CASE Claimable(c)
      <4> DEFINE h == [proc[p] EXCEPT !.pc = "emit"]
      <4>1. h.id = c /\ proc' = [proc EXCEPT ![p] = h]
        BY <2>3, <3>1, <3>2 DEF ClaimDispatch, Goto, Handler
      <4> HIDE DEF h
      <4>2. doc[c].attempts \in Nat
        BY <3>1, Counts
      <4>3. doc' = [doc EXCEPT ![c] = [status |-> "sent", attempts |-> doc[c].attempts + 1]]
        BY <2>3, <3>2 DEF ClaimDispatch
      <4>4. \A d \in Commands :
              IF d = c THEN doc'[d].status = "sent" /\ doc'[d].attempts > 0
                       ELSE doc'[d] = doc[d]
        BY <1>2, <3>1, <4>2, <4>3
      <4>5. \A d : HasTurn(h, d) => d = c
        BY <4>1 DEF HasTurn
      <4>6. \A d \in Commands : d \in armed' => Tried(d)
        BY <3>1 DEF Tried
      <4> HIDE DEF c
      <4> QED
        BY <1>1, <1>2, <4>1, <4>4, <4>5, <4>6, KeepsTried
    <3>3. CASE ~Claimable(c)
      BY <1>1, <1>3, <2>3, <3>1, <3>3, FinishTried DEF ClaimDispatch
    <3> QED
      BY <3>2, <3>3
  <2>4. CASE EmitDispatch(p)
    <3>1. armed' = armed \cup {c} /\ doc' = doc /\ ReturnFromDispatch(p) /\ HasTurn(proc[p], c)
      BY <2>4 DEF EmitDispatch, At, HasTurn, HolderPC
    <3> QED
      BY <1>1, <1>3, <3>1, FinishTried
  <2>5. CASE TimerReads(p)
    <3>1. /\ doc' = doc /\ armed' \subseteq armed /\ proc[p].pc \in HolderPC
          /\ Finish(p) \/ Goto(p, "timer.requeue") \/ Goto(p, "timer.expire")
      BY <2>5 DEF TimerReads, At, HolderPC
    <3> QED
      BY <1>1, <1>3, <3>1, GotoTried, FinishTried
  <2>6. CASE TimerRequeues(p) \/ TimerExpires(p) \/ AckWrites(p)
    <3>1. PICK status \in {"queued", "timeout", "completed", "failed"} : SetStatus(c, status)
      <4>1. AckWrites(p) => proc[p].res \in Results
        BY <1>2 DEF AckWrites, At, AcksOK, AckShape, AckPC
      <4>2. AckWrites(p) => StatusOf(proc[p].res) \in {"completed", "failed"}
        BY <4>1 DEF StatusOf, Results
      <4> QED
        BY <2>6, <4>2 DEF TimerRequeues, TimerExpires, AckWrites
    <3>2. \A d \in Commands :
            /\ doc'[d].status # "acknowledged"
            /\ doc'[d].status = "sent" => doc[d].status = "sent"
      BY <1>2, <3>1 DEF SetStatus, Document
    <3>3. armed' = armed /\ \E pc \in {"timer.redispatch", "timer.clear", "ack.finish"} : Goto(p, pc)
      BY <2>6 DEF TimerRequeues, TimerExpires, AckWrites
    <3> QED
      BY <1>1, <3>2, <3>3, GotoTried DEF HolderPC
  <2>7. CASE TimerRedispatches(p)
    BY <1>1, <1>3, <2>7, GotoTried DEF TimerRedispatches, HolderPC
  <2>8. CASE TimerClears(p) \/ StartListening(p) \/ AckFinishes(p)
    <3>1. doc' = doc /\ armed' \subseteq armed /\ Finish(p)
      BY <2>8 DEF TimerClears, StartListening, AckFinishes
    <3> QED
      BY <1>1, <1>3, <3>1, FinishTried
  <2>9. CASE JoinRoom(p) \/ AckReads(p)
    <3>1. doc' = doc /\ armed' = armed
          /\ (Finish(p) \/ \E pc \in {"replay", "ack.write"} : Goto(p, pc))
      BY <2>9 DEF JoinRoom, AckReads
    <3>2. ASSUME NEW pc \in {"replay", "ack.write"}, Goto(p, pc) PROVE TriedOK'
      BY <1>1, <1>3, <3>1, <3>2, GotoTried DEF HolderPC
    <3> QED
      BY <1>1, <1>3, <3>1, <3>2, FinishTried
  <2>10. CASE ReplayQueued(p) \/ ReplayNext(p)
    <3>1. proc[p] \in Handler
      BY <1>2 DEF HandlersOK
    <3>2. PICK pc \in {"replay.next", "check"} : \E i, todo :
            proc' = [proc EXCEPT ![p] = [@ EXCEPT !.pc = pc, !.id = i, !.todo = todo]]
      <4>1. CASE ReplayQueued(p)
        <5>1. PICK todo : proc' = [proc EXCEPT ![p] =
                                     [@ EXCEPT !.pc = "replay.next", !.todo = todo]]
          BY <4>1 DEF ReplayQueued
        <5>2. [proc[p] EXCEPT !.pc = "replay.next", !.todo = todo]
                = [proc[p] EXCEPT !.pc = "replay.next", !.id = c, !.todo = todo]
          BY <3>1 DEF Handler
        <5> QED
          BY <5>1, <5>2
      <4>2. CASE ReplayNext(p)
        BY <4>2 DEF ReplayNext
      <4> QED
        BY <2>10, <4>1, <4>2
    <3>3. PICK i, todo :
            proc' = [proc EXCEPT ![p] = [@ EXCEPT !.pc = pc, !.id = i, !.todo = todo]]
      BY <3>2
    <3> DEFINE h == [proc[p] EXCEPT !.pc = pc, !.id = i, !.todo = todo]
    <3>4. h.pc = pc /\ proc' = [proc EXCEPT ![p] = h]
      BY <3>1, <3>3 DEF Handler
    <3> HIDE DEF h
    <3>5. \A d : ~HasTurn(h, d)
      BY <3>4 DEF HasTurn, HolderPC
    <3>6. /\ armed' = armed
          /\ \A d \in Commands : /\ doc'[d].status # "acknowledged"
                                 /\ doc'[d].status = "sent" => doc[d].status = "sent"
      <4>1. CASE ReplayQueued(p)
        <5>1. PICK old :
                doc' = [d \in Commands |->
                          IF d \in old THEN [doc[d] EXCEPT !.status = "timeout"]
                          ELSE doc[d]]
          BY <4>1 DEF ReplayQueued
        <5>2. \A d \in Commands : doc'[d].status \in {"timeout", doc[d].status}
          BY <1>2, <5>1 DEF Document
        <5> QED
          BY <1>2, <4>1, <5>2 DEF ReplayQueued
      <4>2. CASE ReplayNext(p)
        BY <1>3, <4>2 DEF ReplayNext
      <4> QED
        BY <2>10, <4>1, <4>2
    <3>7. \A d \in Commands : d \in armed' => Tried(d)
      BY <3>6 DEF Tried
    <3> QED
      BY <1>1, <3>4, <3>5, <3>6, <3>7, KeepsTried
  <2> QED
    BY <1>5, <2>1, <2>2, <2>3, <2>4, <2>5, <2>6, <2>7, <2>8, <2>9, <2>10 DEF HandlerStep
<1>6. ASSUME NEW p \in Procs, DatabaseFault(p) PROVE TriedOK'
  <2>1. doc' = doc /\ armed' \subseteq armed /\ Finish(p)
    BY <1>6 DEF DatabaseFault
  <2> QED
    BY <1>1, <1>3, <2>1, FinishTried
<1>7. CASE BackendRestarts
  <2>1. /\ \A c \in Commands : doc'[c].status = RecoveredStatus(c)
        /\ armed' = {} /\ \A p \in Procs : proc'[p] = Idle
    BY <1>2, <1>7 DEF BackendRestarts, RecoverPendingCommands, Document
  <2>2. \A c \in Commands : RecoveredStatus(c) \notin {"sent", "acknowledged"}
    BY <1>2 DEF RecoveredStatus
  <2> QED
    BY <2>1, <2>2, IdleHasNoTurn DEF TriedOK, Tried
<1>8. CASE AckDropped
  BY <1>8 DEF AckDropped, serviceVars, TriedOK, Tried
<1> QED
  BY <1>4, <1>5, <1>6, <1>7, <1>8 DEF ServiceNext

-----------------------------------------------------------------------------
(* Executions behind results                                               *)

\* A result of a command, wherever it is, comes from an execution of it.
Answering(c) == \E p \in Procs : proc[p].pc \in AckPC /\ proc[p].id = c
Reported(c) == Holds(up, c) \/ IsPending(c) \/ job[c] # "none"
ReportsOK ==
    \A c \in Commands : Answering(c) \/ Reported(c) => runs[c] > 0

\* Reports hold when the handlers and the player's end come from what was reported.
LEMMA KeepsReports ==
    ASSUME DeliveryInv, ReportsOK,
           \A c \in Commands :
             /\ Answering(c)' => Answering(c) \/ Holds(up, c)
             /\ Reported(c)' => Reported(c)
             /\ runs'[c] \in Nat /\ runs'[c] >= runs[c]
    PROVE  ReportsOK'
<1>1. ASSUME NEW c \in Commands, Answering(c)' \/ Reported(c)' PROVE runs'[c] > 0
  <2>1. runs[c] > 0
    BY <1>1 DEF ReportsOK, Reported
  <2>2. runs'[c] >= runs[c] /\ runs[c] \in Nat
    BY Counts
  <2> QED
    BY <2>1, <2>2
<1> QED
  BY <1>1 DEF ReportsOK

LEMMA HeldTail ==
    ASSUME NEW S, NEW s \in Seq(S), s # <<>>
    PROVE  Holds(s, Head(s).id) /\ \A c : Holds(Tail(s), c) => Holds(s, c)
<1>1. /\ Len(s) >= 1 /\ Len(s) \in Nat /\ Head(s) = s[1] /\ Len(Tail(s)) = Len(s) - 1
      /\ \A k \in 1..Len(Tail(s)) : Tail(s)[k] = s[k + 1]
  OBVIOUS
<1>2. Holds(s, Head(s).id)
  BY <1>1 DEF Holds
<1>3. ASSUME NEW c, Holds(Tail(s), c) PROVE Holds(s, c)
  <2>1. PICK k \in 1..Len(Tail(s)) : Tail(s)[k].id = c
    BY <1>3 DEF Holds
  <2>2. k + 1 \in 1..Len(s) /\ s[k + 1].id = c
    BY <1>1, <2>1
  <2> QED
    BY <2>2 DEF Holds
<1> QED
  BY <1>2, <1>3

LEMMA NothingHeld == \A c : ~Holds(<<>>, c)
BY DEF Holds

\* The handler in slot p answers, if at all, for what it answered before.
LEMMA AnswersOn ==
    ASSUME HandlersOK, NEW p \in Procs, NEW h, proc' = [proc EXCEPT ![p] = h],
           NEW ids, h.pc \in AckPC => h.id \in ids
    PROVE  \A c : Answering(c)' => Answering(c) \/ c \in ids
BY DEF HandlersOK, Answering

LEMMA StepAnswers ==
    ASSUME HandlersOK, NEW p \in Procs,
           HandlerStarts(p) \/ HandlerStep(p) \/ DatabaseFault(p)
    PROVE  \A c : Answering(c)' => Answering(c) \/ (AckArrives(p) /\ c = Head(up).id)
<1> DEFINE Same == \A c : Answering(c)' => Answering(c)
<1>1. proc[p] \in Handler
  BY DEF HandlersOK
<1>2. ASSUME NEW h, proc' = [proc EXCEPT ![p] = h],
             h.pc \in AckPC => proc[p].pc \in AckPC /\ h.id = proc[p].id
      PROVE  Same
  <2>1. \A c : Answering(c)' => Answering(c) \/ (h.pc \in AckPC /\ c \in {h.id})
    BY <1>2 DEF HandlersOK, Answering
  <2> QED
    BY <1>2, <2>1 DEF Answering
<1>3. ASSUME NEW pc, Goto(p, pc), pc \in AckPC => proc[p].pc \in AckPC PROVE Same
  <2> DEFINE h == [proc[p] EXCEPT !.pc = pc]
  <2>1. h.pc = pc /\ h.id = proc[p].id /\ proc' = [proc EXCEPT ![p] = h]
    BY <1>1, <1>3 DEF Handler, Goto
  <2> HIDE DEF h, Same
  <2> QED
    BY <1>2, <1>3, <2>1
<1>4. ASSUME Finish(p) \/ ReturnFromDispatch(p) PROVE Same
  <2>1. Idle.pc \notin AckPC /\ AfterDispatch(p).pc \notin AckPC
    BY <1>1 DEF AfterDispatch, Handler, Idle, HandlerOf, AckPC
  <2>2. PICK h : h.pc \notin AckPC /\ proc' = [proc EXCEPT ![p] = h]
    BY <1>4, <2>1 DEF Finish, ReturnFromDispatch
  <2> HIDE DEF Same
  <2> QED
    BY <1>2, <2>2
<1>5. ASSUME NEW kind, NEW pc, NEW i, NEW res, NEW s, Start(p, kind, pc, i, res, s),
             pc \notin AckPC
      PROVE  Same
  <2> DEFINE h == HandlerOf(kind, pc, i, res, s)
  <2>1. h.pc \notin AckPC /\ proc' = [proc EXCEPT ![p] = h]
    BY <1>5 DEF Start, HandlerOf
  <2> HIDE DEF h, Same
  <2> QED
    BY <1>2, <2>1
<1> HIDE DEF Same
<1>6. ASSUME HandlerStarts(p) /\ ~AckArrives(p) PROVE Same
  <2>1. ASSUME NEW c \in Commands, PostCommand(p, c) \/ TimerFires(p, c) PROVE Same
    BY <1>5, <2>1 DEF PostCommand, TimerFires, AckPC
  <2>2. ASSUME NEW s \in Sockets, Connect(p, s) PROVE Same
    BY <1>5, <2>2 DEF Connect, AckPC
  <2> QED
    BY <1>6, <2>1, <2>2 DEF HandlerStarts
<1>7. CASE AckArrives(p)
  <2> DEFINE h == HandlerOf("ack", "ack.read", Head(up).id, Head(up).res, client)
  <2>1. h.id \in {Head(up).id} /\ proc' = [proc EXCEPT ![p] = h]
    BY <1>7 DEF AckArrives, Start, HandlerOf
  <2> HIDE DEF h
  <2>2. \A c : Answering(c)' => Answering(c) \/ c \in {Head(up).id}
    BY <2>1, AnswersOn
  <2> QED
    BY <1>7, <2>2
<1>8. ASSUME HandlerStep(p) PROVE Same
  <2>1. CASE \/ CreateCommand(p) \/ TimerReads(p) \/ TimerRequeues(p)
             \/ TimerRedispatches(p) \/ TimerExpires(p) \/ TimerClears(p)
             \/ JoinRoom(p) \/ AckReads(p) \/ AckWrites(p)
    <3>1. \/ Finish(p)
          \/ \E pc : Goto(p, pc) /\ (pc \in AckPC => proc[p].pc \in AckPC)
      BY <2>1
         DEF CreateCommand, TimerReads, TimerRequeues, TimerRedispatches, TimerExpires,
             TimerClears, JoinRoom, AckReads, AckWrites, AckPC, At
    <3> QED
      BY <1>3, <1>4, <3>1
  <2>2. CASE StartListening(p) \/ AckFinishes(p)
    BY <1>4, <2>2 DEF StartListening, AckFinishes
  <2>3. CASE CheckDispatch(p) \/ CheckRoom(p) \/ ClaimDispatch(p) \/ EmitDispatch(p)
    <3>1. \/ ReturnFromDispatch(p)
          \/ \E pc \in {"claim", "room", "emit"} : Goto(p, pc)
      BY <2>3 DEF CheckDispatch, CheckRoom, ClaimDispatch, EmitDispatch
    <3> QED
      BY <1>3, <1>4, <3>1 DEF AckPC
  <2>4. CASE ReplayQueued(p)
    <3>1. PICK todo : proc' = [proc EXCEPT ![p] =
                                 [@ EXCEPT !.pc = "replay.next", !.todo = todo]]
      BY <2>4 DEF ReplayQueued
    <3> DEFINE h == [proc[p] EXCEPT !.pc = "replay.next", !.todo = todo]
    <3>2. h.pc = "replay.next" /\ proc' = [proc EXCEPT ![p] = h]
      BY <1>1, <3>1 DEF Handler
    <3> HIDE DEF h
    <3> QED
      BY <1>2, <3>2 DEF AckPC
  <2>5. CASE ReplayNext(p)
    <3>1. PICK c, todo :
            proc' = [proc EXCEPT ![p] =
                       [@ EXCEPT !.pc = "check", !.id = c, !.todo = todo]]
      BY <2>5 DEF ReplayNext
    <3> DEFINE h == [proc[p] EXCEPT !.pc = "check", !.id = c, !.todo = todo]
    <3>2. h.pc = "check" /\ proc' = [proc EXCEPT ![p] = h]
      BY <1>1, <3>1 DEF Handler
    <3> HIDE DEF h
    <3> QED
      BY <1>2, <3>2 DEF AckPC
  <2> QED
    BY <1>8, <2>1, <2>2, <2>3, <2>4, <2>5 DEF HandlerStep
<1>9. ASSUME DatabaseFault(p) PROVE Same
  BY <1>4, <1>9 DEF DatabaseFault
<1> QED
  BY <1>6, <1>7, <1>8, <1>9 DEF Same

LEMMA ServiceReports ==
    ASSUME DeliveryInv, ReportsOK, ServiceNext, UNCHANGED playerVars
    PROVE  ReportsOK'
<1>1. HandlersOK /\ up \in Seq(ToBackend)
  BY DEF DeliveryInv, DispatchInv, ServiceInv, LinkTypeOK
<1>2. /\ UNCHANGED <<runs, job, pending>>
      /\ \A c \in Commands : runs'[c] \in Nat /\ runs'[c] >= runs[c]
  BY Counts DEF playerVars
<1>3. up' = up \/ (up # <<>> /\ up' = Tail(up)) \/ up' = <<>>
  <2>1. ASSUME NEW p \in Procs, HandlerStarts(p) \/ DatabaseFault(p)
        PROVE  up' = up \/ (up # <<>> /\ up' = Tail(up))
    BY <2>1 DEF HandlerStarts, PostCommand, TimerFires, Connect, AckArrives, DatabaseFault,
                linkVars
  <2>2. ASSUME NEW p \in Procs, HandlerStep(p) PROVE up' = up
    BY <2>2
       DEF HandlerStep, CreateCommand, CheckDispatch, CheckRoom, ClaimDispatch, EmitDispatch,
           TimerReads, TimerRequeues, TimerRedispatches, TimerExpires, TimerClears, JoinRoom,
           ReplayQueued, ReplayNext, StartListening, AckReads, AckWrites, AckFinishes,
           linkVars
  <2> QED
    BY <2>1, <2>2 DEF ServiceNext, AckDropped, BackendRestarts
<1>4. \A c \in Commands : Reported(c)' => Reported(c)
  BY <1>1, <1>2, <1>3, HeldTail, NothingHeld DEF Reported, IsPending
<1>5. \A c \in Commands : Answering(c)' => Answering(c) \/ Holds(up, c)
  <2>1. ASSUME NEW p \in Procs, HandlerStarts(p) \/ HandlerStep(p) \/ DatabaseFault(p)
        PROVE  \A c : Answering(c)' => Answering(c) \/ Holds(up, c)
    <3>1. AckArrives(p) => Holds(up, Head(up).id)
      BY <1>1, HeldTail DEF AckArrives
    <3> QED
      BY <1>1, <2>1, <3>1, StepAnswers
  <2>2. CASE AckDropped
    BY <2>2 DEF AckDropped, serviceVars, Answering
  <2>3. CASE BackendRestarts
    BY <2>3 DEF BackendRestarts, Answering, Idle, HandlerOf, AckPC
  <2> QED
    BY <2>1, <2>2, <2>3 DEF ServiceNext
<1> QED
  BY <1>2, <1>4, <1>5, KeepsReports

LEMMA LinkReports ==
    ASSUME DeliveryInv, ReportsOK, LinkNext, UNCHANGED playerVars
    PROVE  ReportsOK'
<1>1. UNCHANGED <<runs, job, pending, proc>>
  BY DEF playerVars, LinkNext, serviceVars
<1>2. up' = up \/ up' = <<>>
  BY DEF LinkNext, PlayerLosesSocket, BackendDropsSocket, PlayerSeesClose
<1>3. \A c \in Commands : runs'[c] \in Nat /\ runs'[c] >= runs[c]
  BY <1>1, Counts
<1>4. \A c \in Commands : Reported(c)' => Reported(c)
  BY <1>1, <1>2, NothingHeld DEF Reported, IsPending
<1> QED
  BY <1>1, <1>3, <1>4, KeepsReports DEF Answering

LEMMA HeldConcat ==
    ASSUME NEW S, NEW s \in Seq(S), NEW t \in Seq(S)
    PROVE  \A c : Holds(s \o t, c) => Holds(s, c) \/ Holds(t, c)
<1>1. ASSUME NEW c, Holds(s \o t, c) PROVE Holds(s, c) \/ Holds(t, c)
  <2>1. PICK k \in 1..Len(s \o t) : (s \o t)[k].id = c
    BY <1>1 DEF Holds
  <2>2. CASE k <= Len(s)
    <3>1. k \in 1..Len(s) /\ s[k].id = c
      BY <2>1, <2>2
    <3> QED
      BY <3>1 DEF Holds
  <2>3. CASE k > Len(s)
    <3>1. k - Len(s) \in 1..Len(t) /\ t[k - Len(s)].id = c
      BY <2>1, <2>3
    <3> QED
      BY <3>1 DEF Holds
  <2> QED
    BY <2>2, <2>3
<1> QED
  BY <1>1

LEMMA HeldAppend ==
    ASSUME NEW S, NEW s \in Seq(S), NEW e \in S
    PROVE  \A c : Holds(Append(s, e), c) => Holds(s, c) \/ c = e.id
<1>1. <<e>> \in Seq(S) /\ Append(s, e) = s \o <<e>>
  OBVIOUS
<1>2. \A c : Holds(<<e>>, c) => c = e.id
  BY DEF Holds
<1> QED
  BY <1>1, <1>2, HeldConcat

\* What is left of the store was in it.
LEMMA WithoutIsPart ==
    ASSUME PlayerTypeOK, NEW i
    PROVE  \A c : Holds(Without(i), c) => IsPending(c)
<1>1. pending \in Seq(StoredAck)
  BY DEF PlayerTypeOK
<1>2. CASE ~IsPending(i)
  BY <1>2 DEF Without, Holds, IsPending
<1>3. CASE IsPending(i)
  <2> DEFINE m == Place(i)
             front == SubSeq(pending, 1, m - 1)
             back == SubSeq(pending, m + 1, Len(pending))
  <2>1. m \in 1..Len(pending) /\ Len(pending) \in Nat
    BY <1>1, <1>3 DEF IsPending, Place
  <2>2. Without(i) = front \o back
    BY <1>3 DEF Without, RemoveAt
  <2>3. /\ front \in Seq(StoredAck) /\ Len(front) = m - 1
        /\ \A k \in 1..(m - 1) : front[k] = pending[k]
    BY <1>1, <2>1
  <2>4. /\ back \in Seq(StoredAck) /\ Len(back) = Len(pending) - m
        /\ \A k \in 1..(Len(pending) - m) : back[k] = pending[m + k]
    BY <1>1, <2>1
  <2> HIDE DEF m, front, back
  <2>5. \A c : Holds(front, c) => IsPending(c)
    BY <2>1, <2>3 DEF Holds, IsPending
  <2>6. \A c : Holds(back, c) => IsPending(c)
    <3>1. ASSUME NEW c, NEW k \in 1..Len(back), back[k].id = c PROVE IsPending(c)
      <4>1. m + k \in 1..Len(pending) /\ pending[m + k].id = c
        BY <2>1, <2>4, <3>1
      <4> QED
        BY <4>1 DEF IsPending
    <3> QED
      BY <3>1 DEF Holds
  <2> QED
    BY <2>2, <2>3, <2>4, <2>5, <2>6, HeldConcat
<1> QED
  BY <1>2, <1>3

LEMMA PlayerReports ==
    ASSUME DeliveryInv, ReportsOK, PlayerNext, UNCHANGED serviceVars, DeliveryInv'
    PROVE  ReportsOK'
<1>1. /\ PlayerTypeOK /\ up \in Seq(ToBackend) /\ UNCHANGED proc
      /\ pending \in Seq(StoredAck) /\ StoredAck \subseteq ToBackend
      /\ pending \in Seq(ToBackend)
  <2>1. PlayerTypeOK /\ up \in Seq(ToBackend) /\ UNCHANGED proc
    BY DEF DeliveryInv, IInv, ServiceInv, LinkTypeOK, serviceVars
  <2>2. pending \in Seq(StoredAck)
    BY <2>1 DEF PlayerTypeOK
  <2>3. StoredAck \subseteq ToBackend
    BY IdSets, PlayerAssumption DEF StoredAck, ToBackend, AckStatus, Results
  <2> QED
    BY <2>1, <2>2, <2>3, SeqMonotonic
<1>2. \A c \in Commands : Answering(c)' => Answering(c)
  BY <1>1 DEF Answering
<1>3. \A c \in Commands : runs[c] \in Nat /\ runs'[c] \in Nat
  BY IdSets DEF DeliveryInv, IInv, PlayerTypeOK
<1>4. ASSUME runs' = runs, \A c \in Commands : Reported(c)' => Reported(c)
      PROVE  ReportsOK'
  BY <1>2, <1>3, <1>4, KeepsReports
<1>5. ASSUME NEW ack \in StoredAck, up' = Send(ack)
      PROVE  \A c : Holds(up', c) => Holds(up, c) \/ c = ack.id
  BY <1>1, <1>5, HeldAppend DEF Send
<1>6. CASE ResendStoredResult
  <2> DEFINE i == Head(down).id
  <2>1. IsPending(i) /\ StoredResult(i) \in StoredAck /\ StoredResult(i).id = i
    BY <1>1, <1>6 DEF ResendStoredResult, IsPending, StoredResult, Place
  <2>2. \A c : Holds(up', c) => Holds(up, c) \/ c = i
    BY <1>5, <1>6, <2>1 DEF ResendStoredResult
  <2>3. UNCHANGED <<runs, pending, job>>
    BY <1>6 DEF ResendStoredResult, playerVars
  <2> HIDE DEF i
  <2> QED
    BY <1>4, <2>1, <2>2, <2>3 DEF Reported, IsPending
<1>7. CASE DispatchChecked
  BY <1>4, <1>7 DEF DispatchChecked, Reported, IsPending
<1>8. CASE DispatchStarted
  <2>1. UNCHANGED <<pending, up>> /\ job \in [CommandIds -> JobState]
        /\ runs \in [CommandIds -> Nat] /\ Commands \subseteq CommandIds
    BY <1>1, <1>8, IdSets DEF DispatchStarted, linkVars, PlayerTypeOK
  <2>2. CASE UNCHANGED <<job, runs>>
    BY <1>4, <2>1, <2>2 DEF Reported, IsPending
  <2>3. CASE job' = [job EXCEPT ![callback] = "running"]
             /\ runs' = [runs EXCEPT ![callback] = @ + 1]
    <3>1. ASSUME NEW c \in Commands, Answering(c)' \/ Reported(c)' PROVE runs'[c] > 0
      <4>1. CASE c = callback
        BY <1>3, <2>1, <2>3, <4>1
      <4>2. CASE c # callback
        <5>1. runs'[c] = runs[c] /\ job'[c] = job[c]
          BY <2>1, <2>3, <4>2
        <5>2. Answering(c) \/ Reported(c)
          BY <1>2, <2>1, <3>1, <5>1 DEF Reported, IsPending
        <5> QED
          BY <5>1, <5>2 DEF ReportsOK
      <4> QED
        BY <4>1, <4>2
    <3> QED
      BY <3>1 DEF ReportsOK
  <2> QED
    BY <1>8, <2>2, <2>3 DEF DispatchStarted
<1>9. CASE ResultConfirmed
  <2>1. UNCHANGED <<runs, job, up>> /\ pending' = Without(Head(down).id)
    BY <1>9 DEF ResultConfirmed
  <2>2. \A c : IsPending(c)' => IsPending(c)
    BY <1>1, <2>1, WithoutIsPart DEF Holds, IsPending
  <2> QED
    BY <1>4, <2>1, <2>2 DEF Reported
<1>10. ASSUME NEW i \in CommandIds, NEW res \in Outcomes, ExecutionEnds(i, res)
       PROVE  ReportsOK'
  <2> DEFINE ack == [id |-> i, res |-> res]
             all == Append(Without(i), ack)
  <2>1. ack \in StoredAck /\ ack.id = i
    BY DEF StoredAck
  <2>2. Without(i) \in Seq(StoredAck) /\ all \in Seq(StoredAck) /\ all # <<>>
    BY <1>1, <2>1, WithoutKeepsOthers
  <2>3. /\ pending' = all \/ pending' = Tail(all)
        /\ job[i] = "running" /\ job' = [job EXCEPT ![i] = "stored"]
        /\ up' = Send(ack) /\ runs' = runs /\ job \in [CommandIds -> JobState]
    BY <1>1, <1>10 DEF ExecutionEnds, PlayerTypeOK
  <2>4. \A c : Holds(up', c) => Holds(up, c) \/ c = i
    BY <1>5, <2>1, <2>3
  <2>5. \A c : Holds(all, c) => IsPending(c) \/ c = i
    BY <1>1, <2>1, <2>2, HeldAppend, WithoutIsPart
  <2> HIDE DEF ack, all
  <2>6. \A c : Holds(Tail(all), c) => Holds(all, c)
    BY <2>2, HeldTail
  <2>7. \A c : IsPending(c)' => IsPending(c) \/ c = i
    BY <2>3, <2>5, <2>6 DEF Holds, IsPending
  <2>8. \A c \in Commands : Reported(c)' => Reported(c)
    BY <2>3, <2>4, <2>7, IdSets DEF Reported
  <2> QED
    BY <1>4, <2>3, <2>8
<1>11. ASSUME NEW i \in CommandIds, ExecutionLeaves(i) PROVE ReportsOK'
  <2>1. UNCHANGED <<runs, pending, up>> /\ job' = [job EXCEPT ![i] = "none"]
        /\ job \in [CommandIds -> JobState]
    BY <1>1, <1>11 DEF ExecutionLeaves, linkVars, PlayerTypeOK
  <2> QED
    BY <1>4, <2>1, IdSets DEF Reported, IsPending
<1>12. CASE FlushPendingAcks
  <2>1. UNCHANGED <<runs, pending, job>> /\ up' = up \o pending
    BY <1>12 DEF FlushPendingAcks, playerVars
  <2>2. \A c : Holds(up', c) => Holds(up, c) \/ IsPending(c)
    BY <1>1, <2>1, HeldConcat DEF Holds, IsPending
  <2> QED
    BY <1>4, <2>1, <2>2 DEF Reported, IsPending
<1>13. CASE PlayerRestarts
  <2>1. /\ UNCHANGED <<runs, pending>> /\ up' = <<>>
        /\ \A c \in Commands : job'[c] = "none"
    BY <1>13, IdSets DEF PlayerRestarts
  <2> QED
    BY <1>4, <2>1, NothingHeld DEF Reported, IsPending
<1> QED
  BY <1>6, <1>7, <1>8, <1>9, <1>10, <1>11, <1>12, <1>13 DEF PlayerNext

-----------------------------------------------------------------------------
(* The pipeline implements CommandLifecycle                                *)

LifecycleInv == DeliveryInv /\ RunsPaid /\ TriedOK /\ ReportsOK

LEMMA LifecycleInit == Init => LifecycleInv
<1> SUFFICES ASSUME Init PROVE LifecycleInv
  OBVIOUS
<1>1. DeliveryInv
  BY DeliveryInit
<1>2. /\ \A c \in Commands : /\ doc[c] = [status |-> "absent", attempts |-> 0]
                             /\ runs[c] = 0 /\ job[c] = "none"
      /\ down = <<>> /\ up = <<>> /\ pending = <<>> /\ callback = None /\ armed = {}
      /\ \A p \in Procs : proc[p] = Idle
  BY IdSets DEF Init, ServiceInit, LinkInit, PlayerInit
<1>3. RunsPaid
  <2>1. ASSUME NEW c \in Commands PROVE Spent(c) <= doc[c].attempts
    <3>1. ~Emitting(c) /\ callback # c
      BY <1>2, CommandsAssumption DEF Emitting, Emits, Idle, HandlerOf
    <3>2. Coming(c) = 0
      BY <1>2, CountEmpty DEF Coming
    <3>3. One(callback = c) = 0 /\ One(Emitting(c)) = 0
      BY <3>1 DEF One
    <3> QED
      BY <1>2, <3>2, <3>3 DEF Spent
  <2> QED
    BY <2>1 DEF RunsPaid
<1>4. TriedOK
  BY <1>2, IdleHasNoTurn DEF TriedOK, Tried
<1>5. ReportsOK
  BY <1>2, NothingHeld
     DEF ReportsOK, Answering, Reported, IsPending, Idle, HandlerOf, AckPC
<1> QED
  BY <1>1, <1>3, <1>4, <1>5 DEF LifecycleInv

LEMMA LifecycleNext == LifecycleInv /\ [Next]_vars => LifecycleInv'
<1> SUFFICES ASSUME LifecycleInv, [Next]_vars PROVE LifecycleInv'
  OBVIOUS
<1> USE DEF LifecycleInv
<1>1. DeliveryInv'
  BY DeliveryNext
<1>2. CASE ServiceNext /\ UNCHANGED playerVars
  BY <1>1, <1>2, ServiceSpends, ServiceTried, ServiceReports
<1>3. UNCHANGED serviceVars => TriedOK'
  BY DEF serviceVars, TriedOK, Tried
<1>4. CASE LinkNext /\ UNCHANGED playerVars
  BY <1>1, <1>3, <1>4, LinkSpends, LinkReports DEF LinkNext
<1>5. CASE PlayerNext /\ UNCHANGED serviceVars
  BY <1>1, <1>3, <1>5, PlayerSpends, PlayerReports
<1>6. CASE UNCHANGED vars
  BY <1>1, <1>6
     DEF vars, serviceVars, playerVars, linkVars, RunsPaid, Spent, Coming, Emitting, Emits,
         TriedOK, Tried, ReportsOK, Answering, Reported, IsPending
<1> QED
  BY <1>2, <1>4, <1>5, <1>6 DEF Next

LEMMA LifecycleInvariant == Spec => []LifecycleInv
BY LifecycleInit, LifecycleNext, PTL DEF Spec

Keeps(c) == doc'[c].attempts = doc[c].attempts /\ runs'[c] = runs[c]

\* The actions of CommandLifecycle in the pipeline's terms.
LEMMA LifecycleActions ==
    ASSUME NEW c \in Commands
    PROVE  /\ (/\ doc[c].status = "absent"
               /\ doc'[c].status = "queued"
               /\ Keeps(c))
                => Lifecycle!Create(c)
           /\ (/\ doc[c].status = "queued"
               /\ doc'[c].status = "sent"
               /\ doc[c].attempts < MaxAttempts
               /\ doc'[c].attempts = doc[c].attempts + 1
               /\ runs'[c] = runs[c])
                => Lifecycle!Attempt(c)
           /\ (/\ runs[c] < doc[c].attempts
               /\ runs'[c] = runs[c] + 1
               /\ doc'[c].status = doc[c].status
               /\ doc'[c].attempts = doc[c].attempts)
                => Lifecycle!Execute(c)
           /\ (/\ doc[c].attempts \in 1..(MaxAttempts - 1)
               /\ doc'[c].status = "queued"
               /\ Keeps(c))
                => Lifecycle!Retry(c)
           /\ (/\ doc[c].attempts > 0
               /\ doc'[c].status \in {"acknowledged", "completed", "failed"}
               /\ Keeps(c))
                => Lifecycle!Answer(c)
           /\ (/\ doc[c].status = "queued" \/ doc[c].attempts = MaxAttempts
               /\ doc'[c].status = "timeout"
               /\ Keeps(c))
                => Lifecycle!GiveUp(c)
           /\ (/\ doc'[c].status = doc[c].status
               /\ Keeps(c))
                => Lifecycle!Stays(c)
<1> USE DEF Keeps, Lifecycle!Becomes, Lifecycle!KeepsStatus, Lifecycle!KeepsAttempts,
            Lifecycle!KeepsRuns
<1>1. ASSUME doc[c].status = "absent",
             doc'[c].status = "queued",
             Keeps(c)
      PROVE  Lifecycle!Create(c)
  BY <1>1 DEF Lifecycle!Create
<1>2. ASSUME doc[c].status = "queued",
             doc'[c].status = "sent",
             doc[c].attempts < MaxAttempts,
             doc'[c].attempts = doc[c].attempts + 1,
             runs'[c] = runs[c]
      PROVE  Lifecycle!Attempt(c)
  BY <1>2 DEF Lifecycle!Attempt
<1>3. ASSUME runs[c] < doc[c].attempts,
             runs'[c] = runs[c] + 1,
             doc'[c].status = doc[c].status,
             doc'[c].attempts = doc[c].attempts
      PROVE  Lifecycle!Execute(c)
  BY <1>3 DEF Lifecycle!Execute
<1>4. ASSUME doc[c].attempts \in 1..(MaxAttempts - 1),
             doc'[c].status = "queued",
             Keeps(c)
      PROVE  Lifecycle!Retry(c)
  BY <1>4 DEF Lifecycle!Retry
<1>5. ASSUME doc[c].attempts > 0,
             doc'[c].status \in {"acknowledged", "completed", "failed"},
             Keeps(c)
      PROVE  Lifecycle!Answer(c)
  BY <1>5 DEF Lifecycle!Answer
<1>6. ASSUME doc[c].status = "queued" \/ doc[c].attempts = MaxAttempts,
             doc'[c].status = "timeout",
             Keeps(c)
      PROVE  Lifecycle!GiveUp(c)
  BY <1>6 DEF Lifecycle!GiveUp
<1>7. ASSUME doc'[c].status = doc[c].status,
             Keeps(c)
      PROVE  Lifecycle!Stays(c)
  BY <1>7 DEF Lifecycle!Stays
<1> QED
  BY <1>1, <1>2, <1>3, <1>4, <1>5, <1>6, <1>7

Moves(c) ==
    \/ Lifecycle!Create(c) \/ Lifecycle!Attempt(c) \/ Lifecycle!Execute(c)
    \/ Lifecycle!Retry(c) \/ Lifecycle!Answer(c) \/ Lifecycle!GiveUp(c)
    \/ Lifecycle!Stays(c)

LEMMA HandlerMaps ==
    ASSUME LifecycleInv, NEW p \in Procs, HandlerStep(p), UNCHANGED playerVars,
           NEW c \in Commands
    PROVE  Moves(c)
<1>1. /\ doc \in [Commands -> Document] /\ HandlersOK /\ TurnsOK /\ AcksOK
      /\ ExpiresExhausted /\ AbsentUntried
  BY DEF LifecycleInv, DeliveryInv, DispatchInv, IInv, ServiceInv, ServiceTypeOK
<1>2. runs'[c] = runs[c] /\ runs[c] \in Nat /\ doc[c].attempts \in 0..MaxAttempts
      /\ MaxAttempts \in Nat
  BY <1>1, Counts, MaxAttemptsAssumption DEF playerVars, LifecycleInv, Document
<1>3. doc'[c] = doc[c] => Moves(c)
  BY <1>2, LifecycleActions DEF Moves, Keeps
<1>4. CASE CreateCommand(p)
  <2>1. proc[p].id \in Commands
    BY <1>1, <1>4 DEF CreateCommand, At, HandlersOK, Shape, CommandPC
  <2>2. CASE proc[p].id = c /\ doc[c].status = "absent"
    <3>1. doc[c].attempts = 0
      BY <1>1, <2>2 DEF AbsentUntried
    <3>2. doc'[c].status = "queued" /\ doc'[c].attempts = 0
      BY <1>1, <1>4, <2>2 DEF CreateCommand
    <3> QED
      BY <1>2, <2>2, <3>1, <3>2, LifecycleActions DEF Moves, Keeps
  <2>3. CASE ~(proc[p].id = c /\ doc[c].status = "absent")
    <3>1. doc'[c] = doc[c]
      BY <1>1, <1>4, <2>1, <2>3 DEF CreateCommand
    <3> QED
      BY <1>3, <3>1
  <2> QED
    BY <2>2, <2>3
<1>5. CASE ClaimDispatch(p)
  <2>1. CASE proc[p].id = c /\ Claimable(c)
    <3>1. doc'[c].status = "sent" /\ doc'[c].attempts = doc[c].attempts + 1
      BY <1>1, <1>5, <2>1 DEF ClaimDispatch
    <3> QED
      BY <1>2, <2>1, <3>1, LifecycleActions DEF Moves, Claimable, HasAttemptLeft
  <2>2. CASE ~(proc[p].id = c /\ Claimable(c))
    <3>1. doc'[c] = doc[c]
      BY <1>1, <1>5, <2>2 DEF ClaimDispatch
    <3> QED
      BY <1>3, <3>1
  <2> QED
    BY <2>1, <2>2
<1>6. CASE TimerRequeues(p)
  <2>1. CASE proc[p].id = c
    <3>1. HasTurn(proc[p], c) /\ HasAttemptLeft(c)
      BY <1>1, <1>6, <2>1 DEF TimerRequeues, At, HasTurn, HolderPC, TurnsOK, RequeuesWithin
    <3>2. doc[c].attempts > 0
      BY <3>1 DEF LifecycleInv, TriedOK, Tried
    <3>3. doc'[c].status = "queued" /\ doc'[c].attempts = doc[c].attempts
      BY <1>1, <1>6, <2>1 DEF TimerRequeues, SetStatus, Document
    <3> QED
      BY <1>2, <3>1, <3>2, <3>3, LifecycleActions DEF Moves, Keeps, HasAttemptLeft
  <2>2. CASE proc[p].id # c
    BY <1>1, <1>3, <1>6, <2>2 DEF TimerRequeues, SetStatus
  <2> QED
    BY <2>1, <2>2
<1>7. CASE TimerExpires(p)
  <2>1. CASE proc[p].id = c
    <3>1. doc[c].attempts = MaxAttempts
      BY <1>1, <1>7, <2>1 DEF TimerExpires, ExpiresExhausted
    <3>2. doc'[c].status = "timeout" /\ doc'[c].attempts = doc[c].attempts
      BY <1>1, <1>7, <2>1 DEF TimerExpires, SetStatus, Document
    <3> QED
      BY <1>2, <3>1, <3>2, LifecycleActions DEF Moves, Keeps
  <2>2. CASE proc[p].id # c
    BY <1>1, <1>3, <1>7, <2>2 DEF TimerExpires, SetStatus
  <2> QED
    BY <2>1, <2>2
<1>8. CASE ReplayQueued(p)
  <2>1. PICK old \in SUBSET {d \in Expirable : doc[d].status = "queued"} :
          doc' = [d \in Commands |->
                    IF d \in old THEN [doc[d] EXCEPT !.status = "timeout"] ELSE doc[d]]
    BY <1>8 DEF ReplayQueued
  <2>2. CASE c \in old
    <3>1. doc[c].status = "queued" /\ doc'[c].status = "timeout"
          /\ doc'[c].attempts = doc[c].attempts
      BY <1>1, <2>1, <2>2 DEF Document
    <3> QED
      BY <1>2, <3>1, LifecycleActions DEF Moves, Keeps
  <2>3. CASE c \notin old
    BY <1>3, <2>1, <2>3
  <2> QED
    BY <2>2, <2>3
<1>9. CASE AckWrites(p)
  <2>1. CASE proc[p].id = c
    <3>1. proc[p].pc \in AckPC /\ proc[p].res \in Results
      BY <1>1, <1>9 DEF AckWrites, At, AcksOK, AckShape, AckPC
    <3>2. StatusOf(proc[p].res) \in {"completed", "failed"}
      BY <3>1 DEF StatusOf, Results
    <3>3. runs[c] > 0
      BY <2>1, <3>1 DEF LifecycleInv, ReportsOK, Answering
    <3>4. doc[c].attempts > 0
      <4>1. /\ Coming(c) \in Nat /\ One(callback = c) \in {0, 1}
            /\ One(Emitting(c)) \in {0, 1} /\ Spent(c) <= doc[c].attempts
        BY Counts DEF LifecycleInv, RunsPaid
      <4> QED
        BY <1>2, <3>3, <4>1 DEF Spent
    <3>5. doc'[c].status \in {"completed", "failed"} /\ doc'[c].attempts = doc[c].attempts
      BY <1>1, <1>9, <2>1, <3>2 DEF AckWrites, SetStatus, Document
    <3> QED
      BY <1>2, <3>4, <3>5, LifecycleActions DEF Moves, Keeps
  <2>2. CASE proc[p].id # c
    BY <1>1, <1>3, <1>9, <2>2 DEF AckWrites, SetStatus
  <2> QED
    BY <2>1, <2>2
<1>10. CASE Quiet(p)
  BY <1>3, <1>10, QuietSteps
<1> QED
  BY <1>4, <1>5, <1>6, <1>7, <1>8, <1>9, <1>10 DEF HandlerStep, Quiet

LEMMA RestartMaps ==
    ASSUME LifecycleInv, BackendRestarts, UNCHANGED playerVars, NEW c \in Commands
    PROVE  Moves(c)
<1>1. doc \in [Commands -> Document] /\ TriedOK
  BY DEF LifecycleInv, DeliveryInv, IInv, ServiceInv, ServiceTypeOK
<1>2. runs'[c] = runs[c] /\ doc[c].attempts \in 0..MaxAttempts /\ MaxAttempts \in Nat
  BY <1>1, MaxAttemptsAssumption DEF playerVars, Document
<1>3. doc'[c].status = RecoveredStatus(c) /\ doc'[c].attempts = doc[c].attempts
  BY <1>1 DEF BackendRestarts, RecoverPendingCommands, Document
<1>4. CASE doc[c].status = "sent"
  <2>1. doc[c].attempts > 0
    BY <1>1, <1>4 DEF TriedOK, Tried
  <2>2. CASE HasAttemptLeft(c)
    BY <1>2, <1>3, <1>4, <2>1, <2>2, LifecycleActions
       DEF Moves, Keeps, RecoveredStatus, HasAttemptLeft
  <2>3. CASE ~HasAttemptLeft(c)
    BY <1>2, <1>3, <1>4, <2>1, <2>3, LifecycleActions
       DEF Moves, Keeps, RecoveredStatus, HasAttemptLeft
  <2> QED
    BY <2>2, <2>3
<1>5. CASE doc[c].status # "sent"
  BY <1>2, <1>3, <1>5, LifecycleActions DEF Moves, Keeps, RecoveredStatus
<1> QED
  BY <1>4, <1>5

LEMMA PlayerMaps ==
    ASSUME LifecycleInv, PlayerNext, UNCHANGED serviceVars, NEW c \in Commands
    PROVE  Moves(c)
<1>1. doc' = doc
  BY DEF serviceVars
<1>2. CASE DispatchStarted
  <2>1. runs \in [CommandIds -> Nat] /\ c \in CommandIds /\ callback # None
    BY <1>2, IdSets DEF DispatchStarted, LifecycleInv, DeliveryInv, IInv, PlayerTypeOK
  <2>2. CASE callback = c /\ runs' = [runs EXCEPT ![callback] = @ + 1]
    <3>1. runs'[c] = runs[c] + 1
      BY <2>1, <2>2
    <3>2. /\ runs[c] \in Nat /\ Coming(c) \in Nat /\ doc[c].attempts \in Nat
          /\ One(Emitting(c)) \in {0, 1} /\ Spent(c) <= doc[c].attempts
      BY Counts DEF LifecycleInv, RunsPaid
    <3>3. One(callback = c) = 1
      BY <2>2 DEF One
    <3>4. runs[c] < doc[c].attempts
      BY <3>2, <3>3 DEF Spent
    <3> QED
      BY <1>1, <3>1, <3>4, LifecycleActions DEF Moves
  <2>3. CASE callback # c \/ runs' = runs
    <3>1. runs'[c] = runs[c]
      BY <1>2, <2>1, <2>3 DEF DispatchStarted
    <3> QED
      BY <1>1, <3>1, LifecycleActions DEF Moves, Keeps
  <2> QED
    BY <1>2, <2>2, <2>3 DEF DispatchStarted
<1>3. CASE runs' = runs
  BY <1>1, <1>3, LifecycleActions DEF Moves, Keeps
<1> QED
  BY <1>2, <1>3
     DEF PlayerNext, ResendStoredResult, DispatchChecked, ResultConfirmed, FlushPendingAcks,
         ExecutionEnds, ExecutionLeaves, PlayerRestarts, playerVars

LEMMA StepMaps == LifecycleInv /\ [Next]_vars => [Lifecycle!Next]_Lifecycle!vars
<1> SUFFICES ASSUME LifecycleInv, [Next]_vars PROVE \A c \in Commands : Moves(c)
  BY DEF Moves, Lifecycle!Next
<1>1. ASSUME doc' = doc, runs' = runs PROVE \A c \in Commands : Moves(c)
  BY <1>1, LifecycleActions DEF Moves, Keeps
<1>2. ASSUME NEW c \in Commands PROVE Moves(c)
  <2>1. CASE ServiceNext /\ UNCHANGED playerVars
    <3>1. ASSUME NEW p \in Procs, HandlerStarts(p) \/ DatabaseFault(p) PROVE doc' = doc
      BY <3>1, StartSteps DEF DatabaseFault
    <3>2. AckDropped => doc' = doc
      BY DEF AckDropped, serviceVars
    <3> QED
      BY <1>1, <2>1, <3>1, <3>2, HandlerMaps, RestartMaps DEF ServiceNext, playerVars
  <2>2. CASE LinkNext /\ UNCHANGED playerVars
    BY <1>1, <2>2 DEF LinkNext, serviceVars, playerVars
  <2>3. CASE PlayerNext /\ UNCHANGED serviceVars
    BY <2>3, PlayerMaps
  <2>4. CASE UNCHANGED vars
    BY <1>1, <2>4 DEF vars, serviceVars, playerVars
  <2> QED
    BY <2>1, <2>2, <2>3, <2>4 DEF Next
<1> QED
  BY <1>2

LEMMA InitMaps == Init => Lifecycle!Init
BY IdSets DEF Init, ServiceInit, PlayerInit, Lifecycle!Init

(***************************************************************************)
(* The pipeline keeps the promises of CommandLifecycle: whatever both ends *)
(* and the connection between them lose, repeat or restart, a command is   *)
(* attempted at most MaxAttempts times, started at most once per attempt,  *)
(* retried and answered only after an attempt, and given up only when its  *)
(* attempts are used up or it was never sent in time.                      *)
(***************************************************************************)
THEOREM ImplementsLifecycle == Spec => LifecycleSpec
BY InitMaps, StepMaps, LifecycleInvariant, PTL DEF Spec, LifecycleSpec, Lifecycle!Spec
=============================================================================
