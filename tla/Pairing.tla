------------------------------ MODULE Pairing -------------------------------
(***************************************************************************)
(* The pairing endpoints of the backend (backend/src/routes/pairing.route) *)
(* and the removal of a device (content.route.ts), for one hardware id.    *)
(*                                                                         *)
(* A handler is a record in proc; an action is the code from one await to  *)
(* the next.  The last state of a handler is "answered": the response is   *)
(* on its way until the client takes or misses it.  The unique index lets  *)
(* a device have one code that is not consumed, so the code is a record.   *)
(* Shadow rows, audit entries and the rate limiter are left out, and so    *)
(* are the two users of one tenant: they may do the same.                  *)
(***************************************************************************)
EXTENDS Naturals, FiniteSets

CONSTANTS
    Tenants,
    Proofs,          \* device proofs; a document keeps the hash of one
    Codes,           \* six-digit codes
    Procs,           \* handlers that may be under way at a time
    None             \* no tenant, proof, code, claim

VARIABLES
    device,          \* the device document
    active,          \* the pairing code with consumedAt = null
    proc

backend == <<device, active, proc>>

\* tenant stands for tenantId and pairedOwnerUserId, which change together.
NoDevice == [known |-> FALSE, tenant |-> None, hash |-> None]
NoCode == [code |-> None, hash |-> None, expired |-> FALSE, claim |-> None]

\* The claim of a handler that is gone: it can only be taken over.
Orphan == "orphan"

ASSUME NoneAssumption ==
    /\ None \notin Tenants \union Proofs \union Codes \union Procs
    /\ Orphan \notin Procs \union {None}

Idle == [kind |-> "none", pc |-> "idle", tenant |-> None, proof |-> None,
         code |-> None, answer |-> "none"]
Kinds == {"none", "request", "confirm", "session", "unpair", "remove"}
Steps == {"idle", "read", "bind", "purge", "allocate", "link", "consume",
          "release", "save", "disconnect", "answered"}
Answers == {"none", "code", "linked", "paired", "notPaired", "badProof",
            "unpaired", "failed"}

\* Codes that a response or a handler still refers to.
CodesInUse == {active.code} \union {proc[p].code : p \in Procs}

At(p, pc) == proc' = [proc EXCEPT ![p].pc = pc]
Answer(p, answer) == proc' = [proc EXCEPT ![p].pc = "answered", ![p].answer = answer]
Arrives(p, kind, tenant, proof) ==
    /\ proc[p] = Idle
    /\ proc' = [proc EXCEPT ![p] = [Idle EXCEPT !.kind = kind, !.pc = "read",
                                      !.tenant = tenant, !.proof = proof]]
    /\ UNCHANGED <<device, active>>
Is(p, kind, pc) == proc[p].kind = kind /\ proc[p].pc = pc

PairingInit ==
    /\ device = NoDevice
    /\ active = NoCode
    /\ proc = [p \in Procs |-> Idle]

-----------------------------------------------------------------------------
(* POST /request-code                                                      *)

RequestReads(p) ==
    /\ Is(p, "request", "read")
    /\ IF ~device.known
       THEN /\ device' = [known |-> TRUE, tenant |-> None, hash |-> proc[p].proof]
            /\ At(p, "purge")
       ELSE /\ IF device.tenant # None /\ device.hash = proc[p].proof
               THEN Answer(p, "failed")
               ELSE At(p, IF device.hash = None THEN "bind" ELSE "purge")
            /\ UNCHANGED device
    /\ UNCHANGED active

\* save() of the document as it was read
RequestBinds(p) ==
    /\ Is(p, "request", "bind")
    /\ device' = [device EXCEPT !.hash = proc[p].proof]
    /\ At(p, "purge")
    /\ UNCHANGED active

\* Expired codes, and codes for another proof that nobody is confirming.
RequestPurges(p) ==
    /\ Is(p, "request", "purge")
    /\ active' = IF \/ active.expired
                    \/ active.hash # proc[p].proof /\ active.claim = None
                 THEN NoCode ELSE active
    /\ At(p, "allocate")
    /\ UNCHANGED device

\* findOne and, if there is none, create; the loser of two creations finds
\* the code of the other, and the code of another proof stands in the way.
RequestAllocates(p, c) ==
    /\ Is(p, "request", "allocate")
    /\ IF active = NoCode
       THEN /\ c \in Codes \ CodesInUse
            /\ active' = [NoCode EXCEPT !.code = c, !.hash = proc[p].proof]
            /\ proc' = [proc EXCEPT ![p].pc = "answered", ![p].answer = "code",
                                    ![p].code = c]
       ELSE /\ c = active.code
            /\ IF active.hash = proc[p].proof /\ ~active.expired
               THEN proc' = [proc EXCEPT ![p].pc = "answered", ![p].answer = "code",
                                         ![p].code = c]
               ELSE Answer(p, "failed")
            /\ UNCHANGED active
    /\ UNCHANGED device

CodeExpires ==
    /\ active # NoCode /\ ~active.expired
    /\ active' = [active EXCEPT !.expired = TRUE]
    /\ UNCHANGED <<device, proc>>

-----------------------------------------------------------------------------
(* POST /confirm                                                           *)

\* A claim is taken over once it is 30 seconds old; it may be at any moment.
ConfirmClaims(p, t) ==
    /\ proc[p] = Idle
    /\ active # NoCode /\ ~active.expired
    /\ active' = [active EXCEPT !.claim = p]
    /\ proc' = [q \in Procs |->
         IF q = p THEN [Idle EXCEPT !.kind = "confirm", !.pc = "read", !.tenant = t,
                                    !.proof = active.hash, !.code = active.code]
         ELSE proc[q]]
    /\ UNCHANGED device

ConfirmReads(p) ==
    /\ Is(p, "confirm", "read")
    /\ At(p, IF device.tenant \in {None, proc[p].tenant} THEN "link" ELSE "release")
    /\ UNCHANGED <<device, active>>

\* Mutant: the device is updated by its id, as it was checked before.
ConfirmLinksById(p) ==
    /\ Is(p, "confirm", "link")
    /\ device' = [known |-> TRUE, tenant |-> proc[p].tenant, hash |-> proc[p].proof]
    /\ At(p, "consume")
    /\ UNCHANGED active

\* Mutant: the credential of the code is not written.
ConfirmLinksOnly(p) ==
    /\ Is(p, "confirm", "link")
    /\ IF device.tenant \in {None, proc[p].tenant}
       THEN device' = [device EXCEPT !.tenant = proc[p].tenant] /\ At(p, "consume")
       ELSE At(p, "release") /\ UNCHANGED device
    /\ UNCHANGED active

\* findOneAndUpdate of a device that has no owner or one of the same tenant
ConfirmLinks(p) ==
    /\ Is(p, "confirm", "link")
    /\ IF device.tenant \in {None, proc[p].tenant}
       THEN /\ device' = [known |-> TRUE, tenant |-> proc[p].tenant,
                          hash |-> proc[p].proof]
            /\ At(p, "consume")
       ELSE At(p, "release") /\ UNCHANGED device
    /\ UNCHANGED active

Holds(p) == active.code = proc[p].code /\ active.claim = p

\* A code that cannot be consumed is only logged.
ConfirmConsumes(p) ==
    /\ Is(p, "confirm", "consume")
    /\ active' = IF Holds(p) THEN NoCode ELSE active
    /\ Answer(p, "linked")
    /\ UNCHANGED device

ConfirmReleases(p) ==
    /\ Is(p, "confirm", "release")
    /\ active' = IF Holds(p) THEN [active EXCEPT !.claim = None] ELSE active
    /\ Answer(p, "failed")
    /\ UNCHANGED device

-----------------------------------------------------------------------------
(* POST /device-session and POST /unpair                                   *)

SessionReads(p) ==
    /\ Is(p, "session", "read")
    /\ IF device.known /\ device.hash = None
       THEN proc' = [proc EXCEPT ![p].pc = "bind", ![p].tenant = device.tenant]
       ELSE proc' = [proc EXCEPT ![p].pc = "answered", ![p].tenant = device.tenant,
              ![p].answer = IF ~device.known THEN "notPaired"
                            ELSE IF device.hash # proc[p].proof THEN "badProof"
                            ELSE IF device.tenant = None THEN "notPaired"
                            ELSE "paired"]
    /\ UNCHANGED <<device, active>>

\* save(), and the answer for the owner that was read before
SessionBinds(p) ==
    /\ Is(p, "session", "bind")
    /\ device' = [device EXCEPT !.hash = proc[p].proof]
    /\ Answer(p, IF proc[p].tenant = None THEN "notPaired" ELSE "paired")
    /\ UNCHANGED active

\* requireDeviceAuth and findOne: the owner is the one of the token.
UnpairReads(p) ==
    /\ Is(p, "unpair", "read")
    /\ IF device.tenant = proc[p].tenant THEN At(p, "save") ELSE Answer(p, "failed")
    /\ UNCHANGED <<device, active>>

\* save(); the composition disconnects the sockets of the device.
UnpairSaves(p) ==
    /\ Is(p, "unpair", "save")
    /\ device' = [device EXCEPT !.tenant = None]
    /\ Answer(p, "unpaired")
    /\ UNCHANGED active

-----------------------------------------------------------------------------
(* DELETE /devices/:deviceId, failures, restarts                           *)

\* The credential goes too: the player has to bind its proof again.
RemoveDevice(p, t) ==
    /\ proc[p] = Idle
    /\ device.tenant = t
    /\ device' = [device EXCEPT !.tenant = None, !.hash = None]
    /\ proc' = [proc EXCEPT ![p] = [Idle EXCEPT !.kind = "remove", !.pc = "disconnect"]]
    /\ UNCHANGED active

\* The last part of the removal, after the updates of commands and shadows
RemoveEnds(p) ==
    /\ Is(p, "remove", "disconnect")
    /\ proc' = [proc EXCEPT ![p] = Idle]
    /\ UNCHANGED <<device, active>>

\* A call of the database is rejected; a confirmation releases its claim.
HandlerFails(p) ==
    /\ proc[p].pc \notin {"idle", "answered"}
    /\ IF proc[p].kind = "confirm" /\ proc[p].pc # "release"
       THEN At(p, "release") /\ UNCHANGED active
       ELSE /\ Answer(p, "failed")
            /\ active' = IF active.claim = p THEN [active EXCEPT !.claim = Orphan]
                         ELSE active
    /\ UNCHANGED device

\* The response is received or lost.
Answered(p) ==
    /\ proc[p].pc = "answered"
    /\ proc' = [proc EXCEPT ![p] = Idle]
    /\ UNCHANGED <<device, active>>

BackendRestarts ==
    /\ proc' = [p \in Procs |-> Idle]
    /\ active' = IF active.claim = None THEN active
                 ELSE [active EXCEPT !.claim = Orphan]
    /\ UNCHANGED device

HandlerStep(p) ==
    \/ RequestReads(p) \/ RequestBinds(p) \/ RequestPurges(p)
    \/ ConfirmReads(p) \/ ConfirmLinks(p) \/ ConfirmConsumes(p) \/ ConfirmReleases(p)
    \/ SessionReads(p) \/ SessionBinds(p) \/ UnpairReads(p)

-----------------------------------------------------------------------------
(* The endpoints with any client                                           *)

PairingNext ==
    \/ CodeExpires \/ BackendRestarts
    \/ \E p \in Procs :
         \/ HandlerStep(p) \/ UnpairSaves(p) \/ RemoveEnds(p)
         \/ HandlerFails(p) \/ Answered(p)
         \/ \E c \in Codes : RequestAllocates(p, c)
         \/ \E t \in Tenants : ConfirmClaims(p, t) \/ RemoveDevice(p, t)
         \/ \E f \in Proofs : Arrives(p, "request", None, f)
                           \/ Arrives(p, "session", None, f)
         \/ \E t \in Tenants : Arrives(p, "unpair", t, None)

PairingSpec == PairingInit /\ [][PairingNext]_backend

-----------------------------------------------------------------------------
(* Properties                                                              *)

\* Types, and a claim belongs to a confirmation of that code under way.
PairingTypeOK ==
    /\ device \in [known : BOOLEAN, tenant : Tenants \union {None},
                   hash : Proofs \union {None}]
    /\ active \in [code : Codes \union {None}, hash : Proofs \union {None},
                   expired : BOOLEAN, claim : Procs \union {None, Orphan}]
    /\ proc \in [Procs -> [kind : Kinds, pc : Steps, tenant : Tenants \union {None},
                           proof : Proofs \union {None}, code : Codes \union {None},
                           answer : Answers]]
    /\ active.claim \in Procs => /\ proc[active.claim].kind = "confirm"
                                 /\ proc[active.claim].code = active.code
                                 /\ proc[active.claim].pc # "answered"

\* A device that has an owner has a credential.  Without one device-session
\* would bind the proof of any caller and hand it a token.
OwnedHasCredential == device.tenant # None => device.hash # None

\* A device passes from one tenant to another only by being unpaired first,
\* whichever confirmations are under way and whoever has taken over a claim.
TransferOnlyAfterUnpair ==
    [][device.tenant # None => device'.tenant \in {None, device.tenant}]_backend

\* "an authorized user must confirm the physical display code before the
\* device credential can be rotated".  A document that was read without a
\* credential is saved with one after a confirmation has set another.
RotatedOnlyByConfirmation ==
    [][device.tenant # None /\ device'.tenant # None /\ device'.hash # device.hash
         => \E p \in Procs : Is(p, "confirm", "link")]_backend
=============================================================================
