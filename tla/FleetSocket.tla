----------------------------- MODULE FleetSocket -----------------------------
(***************************************************************************)
(* The live connection of a dashboard page (use-fleet-socket.ts): a ticket *)
(* of five minutes is fetched for it, the socket is opened with the ticket *)
(* and checked by the middleware of the dashboard namespace                *)
(* (sockets/index.ts), socket.io tries a lost connection again a few       *)
(* times, and the hook fetches a new ticket when it may.                   *)
(*                                                                         *)
(* socket.io is external: a connection that cannot be opened or is lost is *)
(* tried again with the same ticket, and the socket stays active; one that *)
(* the server refuses or ends is not, and the socket is inactive.          *)
(***************************************************************************)
EXTENDS Integers

CONSTANTS
    Attempts,      \* reconnectionAttempts: 5
    ShortOutages,  \* BOOLEAN: an outage ends before the last of them
    Edits,         \* BOOLEAN: the account is edited, its session stays valid
    MaxOutages,    \* bound: outages of the backend
    MaxDrops,      \* bound: connections that are lost
    MaxOnlines,    \* bound: times the browser comes back online
    MaxFails       \* bound: requests of a ticket that fail with the backend running

ASSUME SocketAssumption ==
    /\ Attempts \in Nat \ {0} /\ {MaxOutages, MaxDrops, MaxOnlines, MaxFails} \subseteq Nat
    /\ {ShortOutages, Edits} \subseteq BOOLEAN

VARIABLES
    up,          \* the backend runs
    session,     \* the session of the user is valid
    expired,     \* the ticket of the socket is older than five minutes
    socket,      \* [state, tries] of the socket of the hook
    connecting,  \* a ticket is being fetched
    retry,       \* the timer of scheduleReconnect is set
    disposed,    \* the page has been left
    flag,        \* the page has been told that it is connected
    budget       \* [outage, drop, online, fail, edit]: what may still happen

vars == <<up, session, expired, socket, connecting, retry, disposed, flag, budget>>
hook == <<socket, connecting, retry, disposed, flag>>

Spend(what) == budget[what] > 0 /\ budget' = [budget EXCEPT ![what] = @ - 1]
Socket(state, tries) == [state |-> state, tries |-> tries]
NoSocket == Socket("none", 0)
Connected == socket.state \in {"connected", "lost"}

SocketInit ==
    /\ up = TRUE /\ session = TRUE /\ expired = FALSE
    /\ socket = NoSocket /\ connecting = TRUE /\ retry = FALSE
    /\ disposed = FALSE /\ flag = FALSE
    /\ budget = [outage |-> MaxOutages, drop |-> MaxDrops, online |-> MaxOnlines,
                 fail |-> MaxFails, edit |-> IF Edits THEN 1 ELSE 0]

-----------------------------------------------------------------------------
(* The backend *)

\* Its connections are lost, which the page notices later.
GoesDown ==
    /\ up /\ Spend("outage")
    /\ up' = FALSE
    /\ socket' = IF Connected THEN Socket("lost", 0) ELSE socket
    /\ UNCHANGED <<session, expired, connecting, retry, disposed, flag>>

ComesUp ==
    /\ ~up
    /\ up' = TRUE
    /\ UNCHANGED <<session, expired, hook, budget>>

Expire ==
    /\ ~expired
    /\ expired' = TRUE
    /\ UNCHANGED <<up, session, hook, budget>>

-----------------------------------------------------------------------------
(* The hook *)

\* scheduleReconnect: a timer, unless there is one or the page has been left.
Schedules == retry \/ ~disposed

\* connect(), up to the request of a ticket.
MayConnect == ~disposed /\ ~connecting /\ ~Connected

RetryFires ==
    /\ retry
    /\ retry' = FALSE
    /\ connecting' = (connecting \/ MayConnect)
    /\ UNCHANGED <<up, session, expired, socket, disposed, flag, budget>>

Online ==
    /\ ~disposed /\ Spend("online")
    /\ connecting' = (connecting \/ MayConnect)
    /\ UNCHANGED <<up, session, expired, socket, retry, disposed, flag>>

\* Mutant: the page may have been left while the ticket was fetched.
OpensAlways == TRUE
Opens == ~disposed

\* The answer with a ticket: a new socket replaces the one there is.
Ticket ==
    /\ connecting /\ up /\ session
    /\ connecting' = FALSE
    /\ IF Opens THEN socket' = Socket("opening", 0) /\ expired' = FALSE ELSE UNCHANGED <<socket, expired>>
    /\ UNCHANGED <<up, session, retry, disposed, flag, budget>>

TicketRefused ==
    /\ connecting /\ up /\ ~session
    /\ connecting' = FALSE /\ flag' = FALSE
    /\ UNCHANGED <<up, session, expired, socket, retry, disposed, budget>>

TicketFails ==
    /\ connecting
    /\ IF up THEN Spend("fail") ELSE UNCHANGED budget
    /\ connecting' = FALSE /\ flag' = FALSE
    /\ retry' = Schedules
    /\ UNCHANGED <<up, session, expired, socket, disposed>>

Unmount ==
    /\ ~disposed
    /\ disposed' = TRUE
    /\ socket' = NoSocket /\ retry' = FALSE /\ flag' = FALSE
    /\ UNCHANGED <<up, session, expired, connecting, budget>>

-----------------------------------------------------------------------------
(* The socket *)

\* The middleware checks the ticket and the account behind it.
Accepted == ~expired /\ session

Open ==
    /\ socket.state = "opening" /\ up /\ Accepted
    /\ socket' = Socket("connected", 0)
    /\ flag' = TRUE
    /\ UNCHANGED <<up, session, expired, connecting, retry, disposed, budget>>

Refused == Schedules

\* connect_error of a socket that is no longer active.
OpenRefused ==
    /\ socket.state = "opening" /\ up /\ ~Accepted
    /\ socket' = Socket("inactive", 0)
    /\ flag' = FALSE
    /\ retry' = Refused
    /\ UNCHANGED <<up, session, expired, connecting, disposed, budget>>

TriesAgain == socket.tries < Attempts

\* connect_error of an active socket: socket.io tries again, or has given up.
OpenFails ==
    /\ socket.state = "opening" /\ ~up
    /\ ShortOutages => socket.tries < Attempts
    /\ socket' = IF TriesAgain THEN Socket("opening", socket.tries + 1) ELSE Socket("exhausted", 0)
    /\ flag' = FALSE
    /\ UNCHANGED <<up, session, expired, connecting, retry, disposed, budget>>

Lost == FALSE

\* The connection breaks: socket.io opens it again.
Break ==
    /\ Connected
    /\ IF socket.state = "connected" THEN Spend("drop") ELSE UNCHANGED budget
    /\ socket' = Socket("opening", 1)
    /\ flag' = Lost
    /\ UNCHANGED <<up, session, expired, connecting, retry, disposed>>

\* The account is edited: the server ends its connections, and its session as
\* well unless only the name, address or password changed.
Edit ==
    /\ up
    /\ \/ Spend("edit") /\ UNCHANGED session
       \/ session /\ session' = FALSE /\ UNCHANGED budget
    /\ IF socket.state = "connected" THEN socket' = Socket("inactive", 0) /\ flag' = Lost ELSE UNCHANGED <<socket, flag>>
    /\ UNCHANGED <<up, expired, connecting, retry, disposed>>

SocketNext ==
    \/ GoesDown \/ ComesUp \/ Expire \/ RetryFires \/ Online \/ Ticket \/ TicketRefused \/ TicketFails
    \/ Unmount \/ Open \/ OpenRefused \/ OpenFails \/ Break \/ Edit

SocketSpec == SocketInit /\ [][SocketNext]_vars

\* Requests end, timers fire, a broken connection is noticed, the backend is
\* started again, and not every ticket expires before it is used.
SocketLiveSpec ==
    /\ SocketSpec
    /\ WF_vars(ComesUp) /\ WF_vars(RetryFires)
    /\ WF_vars(Ticket \/ TicketRefused \/ TicketFails)
    /\ WF_vars(Open \/ OpenRefused \/ OpenFails) /\ SF_vars(Open)
    /\ WF_vars(socket.state = "lost" /\ Break)

-----------------------------------------------------------------------------
(* Properties *)

\* Types of the variables; the page is told of a connection only when it has one.
SocketTypeOK ==
    /\ {up, session, expired, connecting, retry, disposed, flag} \subseteq BOOLEAN
    /\ socket \in [state : {"none", "opening", "connected", "lost", "exhausted", "inactive"}, tries : 0..Attempts]
    /\ budget.drop \in 0..MaxDrops
    /\ flag => socket.state # "none"

\* A page that has been left keeps neither a socket nor a timer (the cleanup of
\* the effect), whatever was under way.
NoneAfterUnmount == disposed => socket = NoSocket /\ ~retry /\ ~flag

\* A page of a valid session is connected again when the backend is (comment of
\* connect_error: "Recreate the socket with a fresh ticket after the built-in quick
\* retries").
LiveAgain == <>[](session /\ ~disposed) => <>[](socket.state = "connected")

\* What the page is told of its connection becomes true again.
FlagSettles == <>[](flag = Connected)
=============================================================================
