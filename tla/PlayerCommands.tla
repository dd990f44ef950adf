--------------------------- MODULE PlayerCommands ---------------------------
(***************************************************************************)
(* The Android player's side of the command pipeline:                      *)
(* network/SocketClientManager.kt, storage/PendingCommandAckStore.kt and   *)
(* the command handler of boot/StartupCoordinator.kt.                      *)
(*                                                                         *)
(* Socket.IO runs its callbacks one after another on its event thread;     *)
(* commands execute on a thread pool beside it (socketScope).  What the    *)
(* store holds survives the process, everything else does not.             *)
(***************************************************************************)
EXTENDS DeviceLink, SequencesExt

CONSTANTS
    CommandIds,    \* the command_ids the player can be sent
    Outcomes,      \* how executions may end: a subset of {"COMPLETED", "FAILED"}
    Capacity,      \* MAX_ENTRIES of the store
    MaxInFlight    \* packets under way that keep the next flush waiting (a bound)

ASSUME PlayerAssumption ==
    /\ None \notin CommandIds
    /\ Outcomes \subseteq {"COMPLETED", "FAILED"}
    /\ Capacity \in Nat \ {0}
    /\ MaxInFlight \in Nat \ {0}

VARIABLES
    pending,       \* PendingCommandAckStore: the results, oldest first
    job,           \* the execution of each command that is in flight
    callback,      \* id the COMMAND_DISPATCH callback is between its checks with
    runs,          \* history: how often each command's execution has started
    done,          \* history: commands whose result was stored
    evicted        \* history: results pushed out of the store unconfirmed

playerVars == <<pending, job, callback, runs, done, evicted>>

\* "running": the handler executes. "stored": its result is in the store but
\* the finally block has not removed the id from inFlightCommands yet.
JobState == {"none", "running", "stored"}

InFlight(i) == job[i] # "none"

\* The store is a map in the order its entries were put, one entry per id.
IsPending(i) == \E k \in 1..Len(pending) : pending[k].id = i
Place(i) == CHOOSE k \in 1..Len(pending) : pending[k].id = i

StoredResult(i) == pending[Place(i)]
Without(i) == IF IsPending(i) THEN RemoveAt(pending, Place(i)) ELSE pending

\* sendAck: nothing is written to a socket that is not connected.
Send(ack) == IF client # None THEN Append(up, ack) ELSE up

PlayerInit ==
    /\ pending = <<>>
    /\ job = [i \in CommandIds |-> "none"]
    /\ callback = None
    /\ runs = [i \in CommandIds |-> 0]
    /\ done = {}
    /\ evicted = {}

\* The event thread takes the next packet once its last callback returned.
Receives(type) ==
    /\ client # None
    /\ callback = None
    /\ down # <<>>
    /\ Head(down).type = type
    /\ down' = Tail(down)

\* COMMAND_DISPATCH of a command whose result waits for its confirmation
ResendStoredResult ==
    LET i == Head(down).id IN
    /\ Receives("COMMAND_DISPATCH")
    /\ IsPending(i)
    /\ up' = Send(StoredResult(i))
    /\ UNCHANGED <<playerVars, sock, client>>

\* COMMAND_DISPATCH of any other: the callback has found no stored result.
DispatchChecked ==
    LET i == Head(down).id IN
    /\ Receives("COMMAND_DISPATCH")
    /\ ~IsPending(i)
    /\ callback' = i
    /\ UNCHANGED <<pending, job, runs, done, evicted, sock, client, up>>

\* inFlightCommands.add and the launch of the handler
DispatchStarted ==
    /\ callback # None
    /\ callback' = None
    /\ \/ /\ ~InFlight(callback)
          /\ job' = [job EXCEPT ![callback] = "running"]
          /\ runs' = [runs EXCEPT ![callback] = @ + 1]
       \/ /\ InFlight(callback)
          /\ UNCHANGED <<job, runs>>
    /\ UNCHANGED <<pending, done, evicted, linkVars>>

\* The callback of an acknowledgement the backend answered {accepted: true}
ResultConfirmed ==
    LET i == Head(down).id IN
    /\ Receives("accepted")
    /\ pending' = Without(i)
    /\ UNCHANGED <<job, callback, runs, done, evicted, sock, client, up>>

\* emitCommandAck: PendingCommandAckStore.put, then sendAck.  The store keeps
\* its Capacity youngest results.
ExecutionEnds(i, res) ==
    LET ack == [id |-> i, res |-> res]
        all == Append(Without(i), ack)
        full == Len(all) > Capacity
    IN
    /\ job[i] = "running"
    /\ job' = [job EXCEPT ![i] = "stored"]
    /\ pending' = IF full THEN Tail(all) ELSE all
    /\ evicted' = IF full THEN evicted \cup {Head(all).id} ELSE evicted
    /\ done' = done \cup {i}
    /\ up' = Send(ack)
    /\ UNCHANGED <<callback, runs, sock, client, down>>

\* The finally block: inFlightCommands.remove
ExecutionLeaves(i) ==
    /\ job[i] = "stored"
    /\ job' = [job EXCEPT ![i] = "none"]
    /\ UNCHANGED <<pending, callback, runs, done, evicted, linkVars>>

\* flushPendingAcks: on connect, with every heartbeat and on reconnectNow.
\* Bound: a flush waits until fewer than MaxInFlight packets are under way.
FlushPendingAcks ==
    /\ client # None
    /\ pending # <<>>
    /\ Len(up) + Len(down) < MaxInFlight
    /\ up' = up \o pending
    /\ UNCHANGED <<playerVars, sock, client, down>>

\* The process dies (crash, REBOOT_APP, power loss) and starts again.
PlayerRestarts ==
    /\ client # None => SpareSocket
    /\ job' = [i \in CommandIds |-> "none"]
    /\ callback' = None
    /\ client' = None
    /\ down' = <<>>
    /\ up' = <<>>
    /\ UNCHANGED <<pending, runs, done, evicted, sock>>

PlayerNext ==
    \/ ResendStoredResult \/ DispatchChecked \/ DispatchStarted
    \/ ResultConfirmed \/ FlushPendingAcks
    \/ \E i \in CommandIds : \/ \E res \in Outcomes : ExecutionEnds(i, res)
                             \/ ExecutionLeaves(i)
    \/ PlayerRestarts

StoredAck == [id : CommandIds, res : Outcomes]

PlayerTypeOK ==
    /\ pending \in Seq(StoredAck)
    /\ job \in [CommandIds -> JobState]
    /\ callback \in CommandIds \cup {None}
    /\ runs \in [CommandIds -> Nat]
    /\ done \subseteq CommandIds
    /\ evicted \subseteq CommandIds
=============================================================================
