----------------------------- MODULE DeviceLink -----------------------------
(***************************************************************************)
(* The Socket.IO connection between the backend's "/device" namespace and  *)
(* one player (backend/src/sockets/index.ts, sockets/registry.ts and       *)
(* network/SocketClientManager.kt).                                        *)
(*                                                                         *)
(* Every connection of the player is a socket of its own.  The two ends    *)
(* learn of a lost connection separately: the player may already be on a   *)
(* new socket while the old one still sits in the backend's room, and the  *)
(* backend may have closed a socket the player still writes to.            *)
(***************************************************************************)
EXTENDS Naturals, Sequences

CONSTANTS
    Sockets,     \* the connections of one behaviour; a socket is never reused
    None         \* no socket, no command

ASSUME NoneAssumption == None \notin Sockets

VARIABLES
    sock,        \* the backend's view of each socket
    client,      \* the socket the player writes to, or None
    down,        \* packets on their way to the player on that socket
    up           \* packets on their way to the backend on that socket

linkVars == <<sock, client, down, up>>

(***************************************************************************)
(* "connecting": the connection handler runs, the room is not joined yet.  *)
(* "joined": in the room "device:<id>", event listeners not registered.    *)
(* "listening": in the room and the COMMAND_ACK listener is registered.    *)
(***************************************************************************)
SocketState == {"unused", "connecting", "joined", "listening", "closed"}

InRoom(s) == sock[s] \in {"joined", "listening"}

\* hasConnectedDevice
RoomOccupied == \E s \in Sockets : InRoom(s)

\* emitCommandDispatch: a room emission reaches the player only on its own
\* socket; what goes to a socket the player has left is lost.
EmitToRoom(msg) ==
    IF client # None /\ InRoom(client) THEN Append(down, msg) ELSE down

\* socket.emit and the acknowledgement callback respond?.(...) of one socket
EmitToSocket(s, msg) ==
    IF client = s /\ sock[s] # "closed" THEN Append(down, msg) ELSE down

\* Disconnections are bounded by the sockets: the last one stays connected.
SpareSocket == \E s \in Sockets : sock[s] = "unused"

LinkInit ==
    /\ sock = [s \in Sockets |-> "unused"]
    /\ client = None
    /\ down = <<>>
    /\ up = <<>>

\* The player's connection breaks and the player sees it first; what was in
\* flight is lost, and the backend's socket stays in the room as a zombie.
PlayerLosesSocket ==
    /\ client # None
    /\ SpareSocket
    /\ client' = None
    /\ down' = <<>>
    /\ up' = <<>>
    /\ UNCHANGED sock

\* The backend finds out that a socket is dead (ping timeout or close).
BackendDropsSocket(s) ==
    /\ sock[s] \in {"connecting", "joined", "listening"}
    /\ client = s => SpareSocket
    /\ sock' = [sock EXCEPT ![s] = "closed"]
    /\ up' = IF client = s THEN <<>> ELSE up
    /\ UNCHANGED <<client, down>>

\* The player finds out that the backend closed its socket.
PlayerSeesClose ==
    /\ client # None
    /\ sock[client] = "closed"
    /\ client' = None
    /\ down' = <<>>
    /\ up' = <<>>
    /\ UNCHANGED sock
=============================================================================
