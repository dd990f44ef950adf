---------------------------- MODULE PlayerSession ---------------------------
(***************************************************************************)
(* The session of a player (android-player: network/SessionManager.kt, the *)
(* socket of SocketClientManager.kt and the parts of StartupCoordinator.kt *)
(* that connect the two) against the pairing endpoints of Pairing.         *)
(*                                                                         *)
(* The loop waits for a delay or for a request to refresh at once, so its  *)
(* wait may end at any time; a request during a call has no subscriber and *)
(* is lost.  Times are left out: whether the last verification is older    *)
(* than seven days and a shown code older than a minute is a choice.       *)
(***************************************************************************)
EXTENDS Pairing

CONSTANTS
    GraceRetries,    \* GRACE_RETRY_ATTEMPTS
    Stamps,          \* what tells the tokens of a tenant apart
    MaxFaults        \* bound: failures, restarts, removals and resets

VARIABLES
    proof,           \* the device proof in the Keystore
    store,           \* PairingStateStore: the token of the last pairing
    state,           \* SessionManager.state
    loop,            \* runSessionLoop
    reset,           \* forceReset
    boot,            \* enqueueStartup: up to its last statement
    seen,            \* what the collector of the state connected with last
    link,            \* the socket to /device
    faults,
    lapsed           \* history: not owned at some time since the last verification

session == <<store, state, loop>>
startup == <<boot, seen>>
player == <<proof, session, reset, startup, link>>
vars == <<backend, player, faults, lapsed>>

Tokens == [tenant : Tenants, stamp : Stamps]
Token == Tokens \union {None}

\* A token that is signed differs from the five that may still be used.
ASSUME StampAssumption ==
    /\ None \notin Tokens
    /\ \E s \in [1..6 -> Stamps] : \A i, j \in 1..6 : s[i] = s[j] => i = j
ASSUME RetryAssumption == GraceRetries \in Nat /\ MaxFaults \in Nat

Unpaired(c) == [at |-> "unpaired", token |-> None, code |-> c]
Paired(tk) == [at |-> "paired", token |-> tk, code |-> None]
Restored == IF store = None THEN Unpaired(None)
            ELSE [at |-> "verifying", token |-> None, code |-> None]

LoopState == {"call", "session", "unpaired", "recovery", "wait", "stopped"}
Loop(pc, req) == [loop EXCEPT !.pc = pc, !.req = req]
LoopStart == [pc |-> "call", req |-> None, grace |-> 0]

\* targetSocketId and targetToken of the collector
Target == [paired |-> state.at = "paired", token |-> state.token]

\* Delays, timeouts and users take longer than the statements of the startup
\* and of the collector.
Settled == boot.pc = "done" /\ Target = seen

SocketTo(tk) == [token |-> tk, at |-> IF tk = None THEN "none" ELSE "connecting"]

\* A token that differs from all that are still used somewhere.
FreshToken(t) ==
    LET used == {store, state.token, boot.token, seen.token, link.token}
    IN  [tenant |-> t, stamp |-> CHOOSE k \in Stamps : [tenant |-> t, stamp |-> k] \notin used]

\* The device belongs to t and its credential is the one of this player.
Owned(t) == device.tenant = t /\ device.hash = proof
IsOwned == \E t \in Tenants : Owned(t)
Remember == lapsed' = (lapsed \/ ~IsOwned')

Fault == faults < MaxFaults /\ faults' = faults + 1

Init ==
    /\ PairingInit
    /\ \E f \in Proofs : proof = f
    /\ store = None
    /\ state = Unpaired(None)
    /\ loop = LoopStart
    /\ reset = [pc |-> "none", req |-> None]
    /\ boot = [pc |-> "start", token |-> None]
    /\ seen = [paired |-> FALSE, token |-> None]
    /\ link = SocketTo(None)
    /\ faults = 0
    /\ lapsed = TRUE

-----------------------------------------------------------------------------
(* The session loop                                                        *)

LoopCalls(p) ==
    /\ loop.pc = "call"
    /\ Arrives(p, "session", None, proof)
    /\ loop' = Loop("session", p)
    /\ UNCHANGED <<proof, store, state, reset, startup, link, faults, lapsed>>

Response(p, answers) == loop.req = p /\ Answered(p) /\ proc[p].answer \in answers

SessionPaired(p) ==
    /\ loop.pc = "session" /\ Response(p, {"paired"})
    /\ LET tk == FreshToken(proc[p].tenant)
       IN  store' = tk /\ state' = Paired(tk)
    /\ loop' = [pc |-> "wait", req |-> None, grace |-> 0]
    /\ lapsed' = ~IsOwned
    /\ UNCHANGED <<proof, reset, startup, link, faults>>

\* The cached pairing is kept for a number of retries in the grace period.
SessionInGrace(p) ==
    /\ loop.pc = "session" /\ Response(p, {"notPaired"})
    /\ store # None /\ loop.grace < GraceRetries
    /\ loop' = [pc |-> "wait", req |-> None, grace |-> loop.grace + 1]
    /\ UNCHANGED <<proof, store, state, reset, startup, link, faults, lapsed>>

\* A code that is shown is kept for a minute.
CodeReusable(keep) == keep => state.code # None

SessionUnpaired(p, keep) ==
    /\ loop.pc = "session" /\ Response(p, {"notPaired"})
    /\ store' = None
    /\ CodeReusable(keep)
    /\ loop' = [pc |-> IF keep THEN "wait" ELSE "unpaired", req |-> None, grace |-> 0]
    /\ state' = IF keep THEN Unpaired(state.code) ELSE state
    /\ UNCHANGED <<proof, reset, startup, link, faults, lapsed>>

SessionRejected(p) ==
    /\ loop.pc = "session" /\ Response(p, {"badProof"})
    /\ loop' = Loop("recovery", None)
    /\ UNCHANGED <<proof, store, state, reset, startup, link, faults, lapsed>>

RequestCode(p) ==
    /\ loop.pc \in {"unpaired", "recovery"} /\ loop.req = None
    /\ Arrives(p, "request", None, proof)
    /\ loop' = Loop(loop.pc, p)
    /\ UNCHANGED <<proof, store, state, reset, startup, link, faults, lapsed>>

CodeArrives(p) ==
    /\ loop.pc \in {"unpaired", "recovery"} /\ Response(p, {"code"})
    /\ store' = None
    /\ state' = Unpaired(proc[p].code)
    /\ loop' = Loop("wait", None)
    /\ UNCHANGED <<proof, reset, startup, link, faults, lapsed>>

\* No code: a pairing that the proof was rejected for stays in the store.
\* Mutant: the code is kept in whatever state there was.
CodeLeftVerifying == [state EXCEPT !.token = None]
CodeLeft == Unpaired(IF loop.pc = "unpaired" THEN state.code ELSE None)
CodeMissing ==
    /\ state' = CodeLeft
    /\ loop' = Loop("wait", None)
    /\ UNCHANGED <<proof, store, reset, startup, link>>

CodeFails(p) ==
    /\ loop.pc \in {"unpaired", "recovery"} /\ Response(p, {"failed"})
    /\ CodeMissing /\ UNCHANGED <<faults, lapsed>>

\* Mutant: any failure of the call means that the device is not paired.
SessionFailsUnpaired ==
    /\ state' = Unpaired(state.code)
    /\ loop' = Loop("wait", None)
    /\ UNCHANGED <<proof, store, reset, startup, link>>

\* "transient": the state is kept.
SessionFails ==
    /\ loop' = Loop("wait", None)
    /\ UNCHANGED <<proof, store, state, reset, startup, link>>

SessionErrs(p) ==
    /\ loop.pc = "session" /\ Response(p, {"failed"})
    /\ SessionFails /\ UNCHANGED <<faults, lapsed>>

\* A timeout or a network failure; the backend may still handle the call.
CallTimesOut ==
    /\ loop.req # None /\ Settled
    /\ IF loop.pc = "session" THEN SessionFails ELSE CodeMissing
    /\ Fault /\ UNCHANGED <<backend, lapsed>>

WaitOver ==
    /\ loop.pc = "wait" /\ Settled
    /\ loop' = Loop("call", None)
    /\ UNCHANGED <<backend, proof, store, state, reset, startup, link, faults, lapsed>>

-----------------------------------------------------------------------------
(* The reset of the screen                                                 *)

ResetStarts(p) ==
    /\ reset.pc = "none" /\ Settled /\ Fault
    /\ loop' = Loop("stopped", None)
    /\ IF store = None
       THEN reset' = [pc |-> "clear", req |-> None] /\ UNCHANGED backend
       ELSE /\ Arrives(p, "unpair", store.tenant, None)
            /\ reset' = [pc |-> "unpair", req |-> p]
    /\ UNCHANGED <<proof, store, state, startup, link, lapsed>>

\* A failed call is logged and the reset goes on.
ResetUnpaired(p) ==
    /\ reset.pc = "unpair" /\ reset.req = p /\ Answered(p)
    /\ reset' = [pc |-> "clear", req |-> None]
    /\ UNCHANGED <<proof, session, startup, link, faults, lapsed>>

ResetTimesOut ==
    /\ reset.pc = "unpair" /\ Fault
    /\ reset' = [pc |-> "clear", req |-> None]
    /\ UNCHANGED <<backend, proof, session, startup, link, lapsed>>

ResetEnds ==
    /\ reset.pc = "clear"
    /\ store' = None /\ state' = Unpaired(None) /\ loop' = LoopStart
    /\ reset' = [pc |-> "none", req |-> None]
    /\ UNCHANGED <<backend, proof, startup, link, faults, lapsed>>

-----------------------------------------------------------------------------
(* The socket                                                              *)

\* Mutant: only another device id is a reason to connect again.
CollectDeviceOnly ==
    /\ boot.pc # "start"
    /\ Target.paired # seen.paired
    /\ seen' = Target
    /\ link' = SocketTo(Target.token)
    /\ UNCHANGED <<backend, proof, session, reset, boot, faults, lapsed>>

Collect ==
    /\ boot.pc # "start"
    /\ Target # seen
    /\ seen' = Target
    /\ link' = SocketTo(Target.token)
    /\ UNCHANGED <<backend, proof, session, reset, boot, faults, lapsed>>

\* The collector starts from the stored token and the hardware id.
BootCollects ==
    /\ boot.pc = "start"
    /\ boot' = [pc |-> "read", token |-> None]
    /\ seen' = [paired |-> FALSE, token |-> store]
    /\ UNCHANGED <<backend, proof, session, reset, link, faults, lapsed>>

BootReads ==
    /\ boot.pc = "read"
    /\ boot' = [pc |-> "connect", token |-> store]
    /\ UNCHANGED <<backend, proof, session, reset, seen, link, faults, lapsed>>

BootConnects ==
    /\ boot.pc = "connect"
    /\ boot' = [pc |-> "done", token |-> None]
    /\ link' = SocketTo(boot.token)
    /\ UNCHANGED <<backend, proof, session, reset, seen, faults, lapsed>>

LinkIs(at) ==
    /\ link' = [link EXCEPT !.at = at]
    /\ UNCHANGED <<backend, proof, session, reset, startup, faults, lapsed>>

\* A rejected socket does not reconnect by itself.
LinkAuthenticates ==
    /\ link.at = "connecting"
    /\ LinkIs(IF device.tenant = link.token.tenant THEN "authenticated" ELSE "dead")

LinkJoins == link.at = "authenticated" /\ LinkIs("joined")

\* A lost connection is opened again, a dead one when the network returns.
LinkReconnects == link.at \in {"joined", "dead"} /\ LinkIs("connecting")

-----------------------------------------------------------------------------
(* The backend and its users                                               *)

\* A step that leaves the player alone
Backend(A) == A /\ UNCHANGED player /\ Remember

\* randomInt: some code that means nothing to anybody yet
NewCode == CHOOSE c \in Codes : c \notin CodesInUse \union {state.code}
AllocateCode(p) ==
    RequestAllocates(p, IF active = NoCode THEN NewCode ELSE active.code)

Disconnects(p) ==
    /\ UnpairSaves(p) \/ RemoveEnds(p)
    /\ link' = IF link.at = "joined" THEN [link EXCEPT !.at = "dead"] ELSE link
    /\ UNCHANGED <<proof, session, reset, startup>>
    /\ Remember

\* Among them the end of a handler that the player no longer waits for
BackendStep(p) ==
    /\ \/ Backend(HandlerStep(p))
       \/ Backend(AllocateCode(p))
       \/ Backend(loop.req # p /\ reset.req # p /\ Answered(p))
       \/ Disconnects(p)
    /\ UNCHANGED faults

\* A user types the code that the screen shows, or the one it has shown.
UserConfirms(p, t) == Backend(ConfirmClaims(p, t)) /\ UNCHANGED faults
UserConfirmsShown(p, t) == state.code = active.code /\ UserConfirms(p, t)

UserRemoves(p, t) == Backend(RemoveDevice(p, t)) /\ Fault

Fails(p) == Backend(HandlerFails(p)) /\ Fault
\* A code lives much longer than a call.
Expires == loop.pc = "wait" /\ Backend(CodeExpires) /\ UNCHANGED faults

Crash ==
    /\ BackendRestarts /\ Fault
    /\ link' = IF link.at = "none" THEN link ELSE [link EXCEPT !.at = "connecting"]
    /\ IF loop.req = None THEN UNCHANGED <<state, loop>>
       ELSE /\ loop' = Loop("wait", None)
            /\ state' = IF loop.pc = "session" THEN state ELSE CodeLeft
    /\ reset' = IF reset.req = None THEN reset ELSE [pc |-> "clear", req |-> None]
    /\ UNCHANGED <<proof, store, startup, lapsed>>

\* With wiped, the app has been reinstalled and has a new proof.
PlayerRestarts(wiped) ==
    /\ Fault
    /\ store' = IF wiped THEN None ELSE store
    /\ IF wiped THEN \E f \in Proofs : proof' = f ELSE UNCHANGED proof
    /\ state' = IF wiped THEN Unpaired(None) ELSE Restored
    /\ loop' = LoopStart
    /\ reset' = [pc |-> "none", req |-> None]
    /\ boot' = [pc |-> "start", token |-> None]
    /\ seen' = [paired |-> FALSE, token |-> None]
    /\ link' = SocketTo(None)
    /\ UNCHANGED backend
    /\ Remember

-----------------------------------------------------------------------------

LoopStep(p) ==
    \/ LoopCalls(p) \/ SessionPaired(p) \/ SessionInGrace(p)
    \/ \E keep \in BOOLEAN : SessionUnpaired(p, keep)
    \/ SessionRejected(p) \/ SessionErrs(p)
    \/ RequestCode(p) \/ CodeArrives(p) \/ CodeFails(p)

PlayerStep ==
    \/ \E p \in Procs : LoopStep(p) \/ ResetUnpaired(p)
    \/ ResetEnds

Boot == BootCollects \/ BootReads \/ BootConnects

Next ==
    \/ PlayerStep \/ WaitOver \/ Collect \/ Boot
    \/ LinkAuthenticates \/ LinkJoins \/ LinkReconnects
    \/ CallTimesOut \/ ResetTimesOut \/ Crash \/ Expires
    \/ \E wiped \in BOOLEAN : PlayerRestarts(wiped)
    \/ \E p \in Procs :
         \/ BackendStep(p) \/ ResetStarts(p) \/ Fails(p)
         \/ \E t \in Tenants : UserConfirms(p, t) \/ UserRemoves(p, t)

Spec == Init /\ [][Next]_vars

\* Delays end, handlers and coroutines run, codes expire, and one that has
\* been shown for a minute is not kept.
FairSpec ==
    /\ Spec
    /\ SF_vars(PlayerStep) /\ WF_vars(WaitOver)
    /\ WF_vars(Boot) /\ WF_vars(Collect)
    /\ WF_vars(LinkAuthenticates) /\ SF_vars(LinkJoins)
    /\ SF_vars(Expires) /\ SF_vars(\E p \in Procs : SessionUnpaired(p, FALSE))
    /\ \A p \in Procs : WF_vars(BackendStep(p))

\* Somebody in front of the screen keeps typing the code it shows.
AttendedSpec ==
    /\ FairSpec
    /\ SF_vars(\E p \in Procs, t \in Tenants : UserConfirmsShown(p, t))

-----------------------------------------------------------------------------
(* Properties                                                              *)

TypeOK ==
    /\ PairingTypeOK
    /\ proof \in Proofs
    /\ store \in Token
    /\ state \in [at : {"verifying", "paired", "unpaired"}, token : Token,
                  code : Codes \union {None}]
    /\ state.at = "paired" <=> state.token # None
    /\ loop \in [pc : LoopState, req : Procs \union {None}, grace : 0..GraceRetries]
    /\ reset \in [pc : {"none", "unpair", "clear"}, req : Procs \union {None}]
    /\ boot \in [pc : {"start", "read", "connect", "done"}, token : Token]
    /\ seen \in [paired : BOOLEAN, token : Token]
    /\ link \in [token : Token,
                 at : {"none", "connecting", "authenticated", "joined", "dead"}]
    /\ link.token = None <=> link.at = "none"
    /\ faults \in 0..MaxFaults

\* A player whose device stays owned ends up connected for the owner: a token
\* of an earlier owner, a dead socket, a lost refresh or a startup that undoes
\* the connection of the collector are all made up for by the next refresh.
OwnedEventuallyJoined ==
    \A t \in Tenants :
      <>[]Owned(t) =>
        /\ <>[](state.at = "paired" /\ link.token \in [tenant : {t}, stamp : Stamps])
        /\ []<>(link.at = "joined")

\* A player whose device stays without owner ends up on the pairing screen and
\* forgets its token, whatever the loop, a reset or a restart was doing.
RemovedEventuallyUnpaired ==
    <>[](device.tenant = None) => <>[](state.at = "unpaired" /\ store = None)

\* "the device's WebSocket room membership matches the backend database
\* state": the socket of a removed device is disconnected.  One that a restart
\* opens may be authenticated before the removal and join after it, and the
\* collector sees no reason to connect again.
RemovedEventuallyDisconnected ==
    <>[](device.tenant = None) => <>[](link.at # "joined")

\* If somebody keeps typing the code the screen shows, it is paired in the
\* end: a claim of a confirmation that died, a code for the proof before a
\* reinstallation, an expired code do not stand in the way for good.
PairingCompletes == <>(device.tenant # None)

\* "States are determined only by definitive backend signals, never by
\* transient network errors": the pairing screen comes back only if the device
\* was not owned with this credential at some time since the last verification.
NeverUnpairedByFailure ==
    [][state.at # "unpaired" /\ state'.at = "unpaired" => lapsed \/ ResetEnds
         \/ PlayerRestarts(TRUE)]_vars

\* "the device's WebSocket room membership matches the backend database state
\* instantly after pairing": the collector has nothing to do and the socket
\* has another token, because the startup has connected after the collector.
SocketFollowsSession ==
    boot.pc = "done" /\ state.at = "paired" /\ Target = seen => link.token = state.token

\* "This will unpair the screen": a reset whose call fails ends all the same,
\* and the next session of the player is the one of the old owner.
ResetUnpairs == [][ResetEnds => lapsed]_vars
=============================================================================
