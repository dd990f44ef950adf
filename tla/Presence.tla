------------------------------ MODULE Presence ------------------------------
(***************************************************************************)
(* Whether one paired device is online (backend/src/sockets/index.ts): the *)
(* connection handler, the heartbeat buffer and its flushes, the delayed   *)
(* offline transition of a disconnect, and the sweep for stale documents.  *)
(*                                                                         *)
(* Several backend nodes may share the documents through MongoDB and the   *)
(* rooms through the Redis adapter; buffers and timers belong to a node.   *)
(* An action is the code from one await to the next; a database call takes *)
(* effect in the action that ends the await.                               *)
(*                                                                         *)
(* A time stamp has an age, which the sweep compares with its limits, and  *)
(* a phase: how many delayed offline transitions had been scheduled.  A    *)
(* stamp is earlier than a disconnect exactly if its phase is smaller.     *)
(***************************************************************************)
EXTENDS Naturals, FiniteSets

CONSTANTS
    Nodes,           \* backend processes
    Slots,           \* connections of the device that may exist at a time
    DegradedAge,     \* 90 seconds, in ticks
    OfflineAge,      \* 5 minutes, in ticks
    MaxPhase,        \* bound: delayed offline transitions in one behaviour
    MaxBatches,      \* bound: bulk writes of one node under way at a time
    Nothing          \* no stamp, no timer

AgeAssumption ==
    /\ DegradedAge \in Nat /\ OfflineAge \in Nat
    /\ 0 < DegradedAge /\ DegradedAge < OfflineAge

VARIABLES
    status,          \* status of the device document
    beat,            \* its lastHeartbeatAt
    phase,           \* disconnects that scheduled a delayed transition so far
    conn,            \* each connection and its handler
    buffer,          \* heartbeatBuffer: the stamp of the device's entry
    batches,         \* entries a flush has drained and not written yet
    timer,           \* disconnectTimers: the phase of the pending timer
    leaving          \* timer callbacks that have started

vars == <<status, beat, phase, conn, buffer, batches, timer, leaving>>

Status == {"online", "degraded", "offline"}
Stamp == [age : 0..OfflineAge, phase : 0..MaxPhase]
Now == [age |-> 0, phase |-> phase]

\* "reading", "saving", "pushing": awaits of the connection handler; with
\* "listening" it has registered the listeners for heartbeats and disconnect.
HandlerState == {"none", "reading", "saving", "pushing", "listening"}
Connection == [open : BOOLEAN, node : Nodes \union {Nothing}, pc : HandlerState,
               stamp : Stamp \union {Nothing}, wasOnline : BOOLEAN]
Idle == [open |-> FALSE, node |-> Nothing, pc |-> "none",
         stamp |-> Nothing, wasOnline |-> FALSE]

LeaveState == {"fetching", "evicting", "marking"}
Leaving == [node : Nodes, phase : 1..MaxPhase, pc : LeaveState]

\* fetchSockets sees the sockets of every node.
RoomOccupied == \E s \in Slots : conn[s].open
Listening(s) == conn[s].open /\ conn[s].pc = "listening"

\* Mutant: the entry does not carry the status.
WrittenBeatOnly(entry) == beat' = entry /\ UNCHANGED status

\* $set of a drained entry
Written(entry) == status' = "online" /\ beat' = entry

Init ==
    /\ status = "offline"
    /\ beat = [age |-> OfflineAge, phase |-> 0]
    /\ phase = 0
    /\ conn = [s \in Slots |-> Idle]
    /\ buffer = [n \in Nodes |-> Nothing]
    /\ batches = [n \in Nodes |-> {}]
    /\ timer = [n \in Nodes |-> Nothing]
    /\ leaving = {}

-----------------------------------------------------------------------------
(* The connection handler                                                  *)

\* The handler cancels the timer of its own node and joins the room.
Connect(s, n) ==
    /\ conn[s] = Idle
    /\ conn' = [conn EXCEPT ![s] =
                 [@ EXCEPT !.open = TRUE, !.node = n, !.pc = "reading"]]
    /\ timer' = [timer EXCEPT ![n] = Nothing]
    /\ UNCHANGED <<status, beat, phase, buffer, batches, leaving>>

\* findOne; connectedAt is taken before the save.
ReadDevice(s) ==
    /\ conn[s].pc = "reading"
    /\ conn' = [conn EXCEPT ![s] = [@ EXCEPT !.pc = "saving", !.stamp = Now,
                                            !.wasOnline = (status = "online")]]
    /\ UNCHANGED <<status, beat, phase, buffer, batches, timer, leaving>>

\* device.save() writes the paths that changed: a status that was read as
\* "online" is not among them.
SaveDevice(s) ==
    /\ conn[s].pc = "saving"
    /\ beat' = conn[s].stamp
    /\ status' = IF conn[s].wasOnline THEN status ELSE "online"
    /\ conn' = [conn EXCEPT ![s] = [@ EXCEPT !.pc = "pushing", !.stamp = Nothing,
                                            !.wasOnline = FALSE]]
    /\ UNCHANGED <<phase, buffer, batches, timer, leaving>>

\* The catch block: the handler goes on to the listeners.
ConnectFails(s) ==
    /\ conn[s].pc \in {"reading", "saving"}
    /\ conn' = [conn EXCEPT ![s] = [@ EXCEPT !.pc = "pushing", !.stamp = Nothing,
                                            !.wasOnline = FALSE]]
    /\ UNCHANGED <<status, beat, phase, buffer, batches, timer, leaving>>

\* The listeners of a socket that is closed by now never run.
StartListening(s) ==
    /\ conn[s].pc = "pushing"
    /\ conn' = [conn EXCEPT ![s] = IF @.open THEN [@ EXCEPT !.pc = "listening"]
                                             ELSE Idle]
    /\ UNCHANGED <<status, beat, phase, buffer, batches, timer, leaving>>

-----------------------------------------------------------------------------
(* Heartbeats and flushes                                                  *)

Heartbeat(s) ==
    /\ Listening(s)
    /\ buffer' = [buffer EXCEPT ![conn[s].node] = Now]
    /\ UNCHANGED <<status, beat, phase, conn, batches, timer, leaving>>

Flush(n) ==
    /\ buffer[n] # Nothing
    /\ Cardinality(batches[n]) < MaxBatches
    /\ batches' = [batches EXCEPT ![n] = @ \union {buffer[n]}]
    /\ buffer' = [buffer EXCEPT ![n] = Nothing]
    /\ UNCHANGED <<status, beat, phase, conn, timer, leaving>>

BatchWritten(n) ==
    \E entry \in batches[n] :
        /\ Written(entry)
        /\ batches' = [batches EXCEPT ![n] = @ \ {entry}]
        /\ UNCHANGED <<phase, conn, buffer, timer, leaving>>

\* The entry goes back unless a newer one has arrived meanwhile.
BatchFails(n) ==
    \E entry \in batches[n] :
        /\ batches' = [batches EXCEPT ![n] = @ \ {entry}]
        /\ buffer' = [buffer EXCEPT ![n] = IF @ = Nothing THEN entry ELSE @]
        /\ UNCHANGED <<status, beat, phase, conn, timer, leaving>>

-----------------------------------------------------------------------------
(* Disconnects                                                             *)

\* Only a listening socket has a disconnect listener, and it leaves a timer
\* that is already pending alone.
Disconnect(s) ==
    /\ conn[s].open
    /\ LET n == conn[s].node IN
       IF conn[s].pc = "listening" /\ timer[n] = Nothing
       THEN /\ phase < MaxPhase
            /\ phase' = phase + 1
            /\ timer' = [timer EXCEPT ![n] = phase']
       ELSE UNCHANGED <<phase, timer>>
    /\ conn' = [conn EXCEPT ![s] = IF @.pc = "listening" THEN Idle
                                   ELSE [@ EXCEPT !.open = FALSE]]
    /\ UNCHANGED <<status, beat, buffer, batches, leaving>>

\* Mutant: the callback does not take itself out of disconnectTimers.
TimerFiresStays(n) ==
    /\ timer[n] # Nothing
    /\ leaving' = leaving \union
                    {[node |-> n, phase |-> timer[n], pc |-> "fetching"]}
    /\ UNCHANGED <<status, beat, phase, conn, buffer, batches, timer>>

TimerFires(n) ==
    /\ timer[n] # Nothing
    /\ timer' = [timer EXCEPT ![n] = Nothing]
    /\ leaving' = leaving \union
                    {[node |-> n, phase |-> timer[n], pc |-> "fetching"]}
    /\ UNCHANGED <<status, beat, phase, conn, buffer, batches>>

Moves(l, pc) == leaving' = (leaving \ {l}) \union {[l EXCEPT !.pc = pc]}
Ends(l) == leaving' = leaving \ {l}

FetchSockets(l) ==
    /\ l.pc = "fetching"
    /\ IF RoomOccupied THEN Ends(l) ELSE Moves(l, "evicting")
    /\ UNCHANGED <<status, beat, phase, conn, buffer, batches, timer>>

Evict(l) ==
    /\ l.pc = "evicting"
    /\ buffer' = [buffer EXCEPT ![l.node] = Nothing]
    /\ Moves(l, "marking")
    /\ UNCHANGED <<status, beat, phase, conn, batches, timer>>

\* findOneAndUpdate with lastHeartbeatAt <= disconnectedAt
MarkOffline(l) ==
    /\ l.pc = "marking"
    /\ status' = IF beat.phase < l.phase THEN "offline" ELSE status
    /\ Ends(l)
    /\ UNCHANGED <<beat, phase, conn, buffer, batches, timer>>

LeavingFails(l) ==
    /\ l.pc \in {"fetching", "marking"}
    /\ Ends(l)
    /\ UNCHANGED <<status, beat, phase, conn, buffer, batches, timer>>

-----------------------------------------------------------------------------
(* The sweep, and the end of a process                                     *)

\* Two updateMany, in order; any node's sweep has the same effect.
Sweep ==
    /\ status' = CASE status # "offline" /\ beat.age >= OfflineAge -> "offline"
                   [] status = "online" /\ beat.age >= DegradedAge
                      /\ beat.age < OfflineAge -> "degraded"
                   [] OTHER -> status
    /\ status' # status
    /\ UNCHANGED <<beat, phase, conn, buffer, batches, timer, leaving>>

\* A crash loses what is in memory; closeSocketServer closes the sockets,
\* clears the timers and then writes the buffer once more.
StopNode(n) ==
    /\ \E s \in Slots : conn[s].node = n
    /\ conn' = [s \in Slots |-> IF conn[s].node = n THEN Idle ELSE conn[s]]
    /\ \/ UNCHANGED <<status, beat>>
       \/ buffer[n] # Nothing /\ Written(buffer[n])
    /\ buffer' = [buffer EXCEPT ![n] = Nothing]
    /\ batches' = [batches EXCEPT ![n] = {}]
    /\ timer' = [timer EXCEPT ![n] = Nothing]
    /\ leaving' = {l \in leaving : l.node # n}
    /\ UNCHANGED phase

Older(stamp) ==
    IF stamp = Nothing THEN Nothing
    ELSE [stamp EXCEPT !.age = IF @ < OfflineAge THEN @ + 1 ELSE @]

Tick ==
    /\ beat' = Older(beat)
    /\ conn' = [s \in Slots |-> [conn[s] EXCEPT !.stamp = Older(@)]]
    /\ buffer' = [n \in Nodes |-> Older(buffer[n])]
    /\ batches' = [n \in Nodes |-> {Older(entry) : entry \in batches[n]}]
    /\ UNCHANGED <<status, phase, timer, leaving>>

-----------------------------------------------------------------------------

Handler(s) ==
    \/ ReadDevice(s) \/ SaveDevice(s) \/ ConnectFails(s) \/ StartListening(s)

Callback ==
    \E l \in leaving :
        FetchSockets(l) \/ Evict(l) \/ MarkOffline(l) \/ LeavingFails(l)

Next ==
    \/ \E s \in Slots : \/ \E n \in Nodes : Connect(s, n)
                        \/ Handler(s) \/ Heartbeat(s) \/ Disconnect(s)
    \/ \E n \in Nodes : \/ Flush(n) \/ BatchWritten(n) \/ BatchFails(n)
                        \/ TimerFires(n) \/ StopNode(n)
    \/ Callback \/ Sweep \/ Tick

Spec == Init /\ [][Next]_vars

(***************************************************************************)
(* Intervals, timers and handlers run, time passes, the player sends a     *)
(* heartbeat every 30 seconds on a socket that stays, and a bulk write is  *)
(* not refused for ever.  Nothing is assumed of connections and failures.  *)
(***************************************************************************)
FairSpec ==
    /\ Spec
    /\ \A s \in Slots : WF_vars(Handler(s)) /\ WF_vars(Heartbeat(s))
    /\ \A n \in Nodes :
         WF_vars(Flush(n)) /\ SF_vars(BatchWritten(n)) /\ WF_vars(TimerFires(n))
    /\ WF_vars(Callback) /\ SF_vars(Sweep) /\ WF_vars(Tick)

-----------------------------------------------------------------------------
(* Properties                                                              *)

\* No stamp and no transition is younger than the last disconnect; a handler
\* holds a stamp exactly while it saves, listens only on an open connection,
\* and a disconnect has one transition: its timer, or the callback it became.
TypeOK ==
    /\ status \in Status
    /\ beat \in Stamp
    /\ phase \in 0..MaxPhase
    /\ conn \in [Slots -> Connection]
    /\ buffer \in [Nodes -> Stamp \union {Nothing}]
    /\ batches \in [Nodes -> SUBSET Stamp]
    /\ timer \in [Nodes -> 1..MaxPhase \union {Nothing}]
    /\ leaving \in SUBSET Leaving
    /\ \A s \in Slots : /\ conn[s].pc = "none" <=> conn[s] = Idle
                        /\ conn[s].pc = "saving" <=> conn[s].stamp # Nothing
                        /\ conn[s].pc = "listening" => conn[s].open
    /\ \A n \in Nodes : /\ Cardinality(batches[n]) <= MaxBatches
                        /\ \A stamp \in batches[n] \union ({buffer[n]} \ {Nothing}) :
                             stamp.phase <= phase
                        /\ timer[n] # Nothing => timer[n] <= phase
                        /\ \A l \in leaving : l.phase <= phase /\ l.phase # timer[n]
    /\ \A l, m \in leaving : l.phase = m.phase => l = m

\* A device without a connection ends up offline, although a socket that
\* closes while its connection handler runs schedules no transition, and a
\* flush may write the device online after the transition: the sweep gets it.
GoneEventuallyOffline == <>[](~RoomOccupied) => <>[](status = "offline")

\* A device that stays connected is online again and again, although a late
\* transition of an earlier disconnect may have marked it offline and a save
\* that saw it online does not write the status.
PresentEventuallyOnline ==
    \A s \in Slots : <>[]Listening(s) => []<>(status = "online")

\* HeartbeatEntry, dirtyAt: "epoch ms of last update -- used to skip stale
\* entries".  It is never read: a flush writes an entry from before the last
\* disconnect over the time stamp of the connection that followed.
StaleEntriesSkipped == [][beat'.phase >= beat.phase]_vars
=============================================================================
