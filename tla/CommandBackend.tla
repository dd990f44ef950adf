--------------------------- MODULE CommandBackend ---------------------------
(***************************************************************************)
(* The backend's CommandService on its own, against any player that keeps  *)
(* to the packet format: it may acknowledge any command at any moment with *)
(* any of the three statuses the COMMAND_ACK listener lets through.  The   *)
(* Android player never sends "ACK" and never answers a command it was not *)
(* sent, so this module reaches more of the service than CommandDelivery.  *)
(***************************************************************************)
EXTENDS CommandService

CONSTANT MaxPackets    \* packets under way that keep the player from sending (a bound)

PacketsAssumption == MaxPackets \in Nat \ {0}

anyClientVars == <<serviceVars, linkVars>>

\* The listener's validation admits these and rejects everything else.
ClientSends(i, res) ==
    /\ client # None
    /\ Len(up) + Len(down) < MaxPackets
    /\ up' = Append(up, [id |-> i, res |-> res])
    /\ UNCHANGED <<serviceVars, sock, client, down>>

ClientReceives ==
    /\ client # None
    /\ down # <<>>
    /\ down' = Tail(down)
    /\ UNCHANGED <<serviceVars, sock, client, up>>

AnyClientInit == LinkInit /\ ServiceInit

AnyClientNext ==
    \/ ServiceNext
    \/ LinkNext
    \/ \E i \in Ids, res \in AckStatus : ClientSends(i, res)
    \/ ClientReceives

AnyClientSpec == AnyClientInit /\ [][AnyClientNext]_anyClientVars

AnyClientTypeOK == ServiceTypeOK /\ LinkTypeOK

-----------------------------------------------------------------------------

\* At most one handler holds a claimed attempt of a command that it has still
\* to emit, however POSTs, timer callbacks and replays overlap: the claim is
\* the only step that decides, and a second attempt needs a timer that only
\* the first emission arms.
SingleDispatcher ==
    \A c \in Commands, p, q \in Procs :
        /\ At(p, "emit") /\ proc[p].id = c
        /\ At(q, "emit") /\ proc[q].id = c
        => p = q

\* The attempts of a command only grow, one claim at a time, also across
\* restarts and when a terminal status has been overwritten.
AttemptsOnlyGrow ==
    [][\A c \in Commands : doc'[c].attempts >= doc[c].attempts]_anyClientVars

\* A command is given up only when its attempts are used up, or when it was
\* still waiting for the device after a day.
GivenUpOnlyWhenExhausted ==
    [][\A c \in Commands :
         doc[c].status # "timeout" /\ doc'[c].status = "timeout" =>
           doc[c].attempts = MaxAttempts \/ doc[c].status = "queued"]_anyClientVars

\* One command_id, one document, however many POSTs of it overlap: those that
\* pass the lookup together are turned away by the unique index, so no
\* duplicate starts the life of a command again after it was dispatched.
CreatedOnce ==
    /\ \A j, k \in 1..Len(created) : created[j] = created[k] => j = k
    /\ \A c \in Commands :
         doc[c].status # "absent" <=> \E k \in 1..Len(created) : created[k] = c
=============================================================================
