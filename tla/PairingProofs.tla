---------------------------- MODULE PairingProofs ----------------------------
(***************************************************************************)
(* Proofs about Pairing and PlayerSession.  First the endpoints: for any   *)
(* tenants, proofs, codes and number of handlers, restarts and rejected    *)
(* database calls included, an owned device has a credential, a claim      *)
(* belongs to a confirmation under way, and a device changes hands only by *)
(* being unpaired.  Then the player that calls them: no failure, timeout   *)
(* or restart brings the pairing screen back.                              *)
(***************************************************************************)
EXTENDS PlayerSession, TLAPS

DeviceOK ==
    device \in [known : BOOLEAN, tenant : Tenants \union {None},
                hash : Proofs \union {None}]
CodeOK ==
    active \in [code : Codes \union {None}, hash : Proofs \union {None},
                expired : BOOLEAN, claim : Procs \union {None, Orphan}]
Handler == [kind : Kinds, pc : Steps, tenant : Tenants \union {None},
            proof : Proofs \union {None}, code : Codes \union {None},
            answer : Answers]
HandlersOK == proc \in [Procs -> Handler]

ClaimsAreHeld ==
    active.claim \in Procs => /\ proc[active.claim].kind = "confirm"
                              /\ proc[active.claim].code = active.code
                              /\ proc[active.claim].pc # "answered"

(***************************************************************************)
(* What a handler saves as the credential is one: a request and a session  *)
(* come with a proof, and a confirmation takes the one of its code, which  *)
(* every code has.                                                         *)
(***************************************************************************)
CodesHaveProofs == active # NoCode => active.code \in Codes /\ active.hash \in Proofs
HandlersHaveProofs ==
    \A p \in Procs :
        /\ proc[p].kind \in {"request", "session", "confirm"} => proc[p].proof \in Proofs
        /\ proc[p].kind = "confirm" => proc[p].tenant \in Tenants

IInv ==
    /\ DeviceOK /\ CodeOK /\ HandlersOK
    /\ ClaimsAreHeld
    /\ CodesHaveProofs /\ HandlersHaveProofs
    /\ OwnedHasCredential

-----------------------------------------------------------------------------

LEMMA IdleHandler == Idle \in Handler /\ Idle.kind = "none" /\ Idle.pc = "idle"
BY DEF Idle, Handler, Kinds, Steps, Answers

LEMMA NoCodeIsOne ==
    /\ NoCode \in [code : Codes \union {None}, hash : Proofs \union {None},
                   expired : BOOLEAN, claim : Procs \union {None, Orphan}]
    /\ NoCode.claim = None /\ NoCode.claim \notin Procs
BY NoneAssumption DEF NoCode

LEMMA InitKeeps == PairingInit => IInv
BY IdleHandler, NoneAssumption
   DEF PairingInit, IInv, DeviceOK, CodeOK, HandlersOK, ClaimsAreHeld, CodesHaveProofs,
       HandlersHaveProofs, OwnedHasCredential, NoDevice, NoCode

\* Only the handler moves, and it goes on with what it came for.
Others(p) == \A q \in Procs \ {p} : proc'[q] = proc[q]
Keeps(p) ==
    /\ proc' \in [Procs -> Handler]
    /\ Others(p)
    /\ proc'[p].kind = proc[p].kind
    /\ proc'[p].proof = proc[p].proof
    /\ proc'[p].code = proc[p].code

(***************************************************************************)
(* A step of a handler that keeps its kind, proof and code, leaves the     *)
(* code alone and does not answer for a claim keeps what is said of codes  *)
(* and handlers.                                                           *)
(***************************************************************************)
LEMMA HandlerMoves ==
    ASSUME IInv, NEW p \in Procs, Keeps(p),
           proc[p].kind = "confirm" => proc'[p].tenant = proc[p].tenant,
           UNCHANGED active,
           active.claim = p => proc'[p].pc # "answered"
    PROVE  HandlersOK' /\ ClaimsAreHeld' /\ CodesHaveProofs' /\ HandlersHaveProofs' /\ CodeOK'
<1>1. CodeOK' /\ CodesHaveProofs'
  BY DEF IInv, CodeOK, CodesHaveProofs, NoCode
<1>2. HandlersOK' /\ HandlersHaveProofs'
  BY DEF IInv, Keeps, Others, HandlersOK, HandlersHaveProofs
<1>3. ClaimsAreHeld'
  BY DEF IInv, Keeps, Others, ClaimsAreHeld
<1> QED
  BY <1>1, <1>2, <1>3

LEMMA Goes ==
    ASSUME HandlersOK, NEW p \in Procs, NEW pc \in Steps, At(p, pc)
    PROVE  Keeps(p) /\ proc'[p].pc = pc /\ proc'[p].tenant = proc[p].tenant
<1>1. proc[p] \in Handler
  BY DEF HandlersOK
<1>2. proc' = [proc EXCEPT ![p] = [proc[p] EXCEPT !.pc = pc]]
  BY DEF At
<1>3. [proc[p] EXCEPT !.pc = pc] \in Handler
  BY <1>1 DEF Handler
<1> QED
  BY <1>1, <1>2, <1>3 DEF HandlersOK, Keeps, Others, Handler

LEMMA Answering ==
    ASSUME HandlersOK, NEW p \in Procs, NEW answer \in Answers, Answer(p, answer)
    PROVE  Keeps(p) /\ proc'[p].pc = "answered" /\ proc'[p].tenant = proc[p].tenant
<1>1. proc[p] \in Handler
  BY DEF HandlersOK
<1>2. proc' = [proc EXCEPT ![p] = [proc[p] EXCEPT !.pc = "answered", !.answer = answer]]
  BY DEF Answer
<1>3. [proc[p] EXCEPT !.pc = "answered", !.answer = answer] \in Handler
  BY <1>1 DEF Handler, Steps
<1> QED
  BY <1>1, <1>2, <1>3 DEF HandlersOK, Keeps, Others, Handler

CodesAndHandlers ==
    HandlersOK /\ ClaimsAreHeld /\ CodesHaveProofs /\ HandlersHaveProofs /\ CodeOK

\* POST /request-code: it touches no claim, and saves a proof or nothing.
LEMMA RequestStep ==
    ASSUME IInv, NEW p \in Procs,
           \/ RequestReads(p) \/ RequestBinds(p) \/ RequestPurges(p)
           \/ \E c \in Codes : RequestAllocates(p, c)
    PROVE  IInv'
<1>1. /\ proc[p].kind = "request" /\ proc[p].proof \in Proofs /\ active.claim # p
      /\ HandlersOK /\ DeviceOK /\ CodeOK /\ proc[p] \in Handler
  BY DEF RequestReads, RequestBinds, RequestPurges, RequestAllocates, Is, IInv,
         HandlersHaveProofs, ClaimsAreHeld, HandlersOK
<1>2. {"purge", "bind", "allocate"} \subseteq Steps /\ {"failed", "code"} \subseteq Answers
  BY DEF Steps, Answers
<1>3. CASE RequestReads(p)
  <2>1. Answer(p, "failed") \/ At(p, "purge") \/ At(p, "bind")
    BY <1>3 DEF RequestReads
  <2>2. Keeps(p)
    BY <1>1, <1>2, <2>1, Goes, Answering
  <2>3. CodesAndHandlers'
    BY <1>1, <1>3, <2>2, HandlerMoves DEF RequestReads, CodesAndHandlers
  <2>4. DeviceOK' /\ OwnedHasCredential'
    <3>1. CASE device.known
      BY <1>3, <3>1 DEF RequestReads, IInv, DeviceOK, OwnedHasCredential
    <3>2. CASE ~device.known
      <4>1. device' = [known |-> TRUE, tenant |-> None, hash |-> proc[p].proof]
        BY <1>3, <3>2 DEF RequestReads
      <4> QED
        BY <1>1, <4>1 DEF DeviceOK, OwnedHasCredential
    <3> QED
      BY <3>1, <3>2
  <2> QED
    BY <2>3, <2>4 DEF IInv, CodesAndHandlers
<1>4. CASE RequestBinds(p)
  <2>1. Keeps(p)
    BY <1>1, <1>2, <1>4, Goes DEF RequestBinds
  <2>2. CodesAndHandlers'
    BY <1>1, <1>4, <2>1, HandlerMoves DEF RequestBinds, CodesAndHandlers
  <2>3. device' = [device EXCEPT !.hash = proc[p].proof]
    BY <1>4 DEF RequestBinds
  <2>4. DeviceOK' /\ OwnedHasCredential'
    BY <1>1, <2>3, NoneAssumption DEF DeviceOK, OwnedHasCredential
  <2> QED
    BY <2>2, <2>4 DEF IInv, CodesAndHandlers
<1>5. CASE RequestPurges(p)
  <2>1. UNCHANGED device /\ (active' = active \/ active' = NoCode)
    BY <1>5 DEF RequestPurges
  <2>2. Keeps(p)
    BY <1>1, <1>2, <1>5, Goes DEF RequestPurges
  <2>3. CodeOK' /\ CodesHaveProofs'
    BY <1>1, <2>1, NoCodeIsOne DEF IInv, CodeOK, CodesHaveProofs
  <2>4. HandlersOK' /\ HandlersHaveProofs'
    BY <1>1, <2>2 DEF IInv, Keeps, Others, HandlersOK, HandlersHaveProofs
  <2>5. ClaimsAreHeld'
    BY <1>1, <2>1, <2>2, NoneAssumption
       DEF IInv, ClaimsAreHeld, NoCode, Keeps, Others
  <2> QED
    BY <2>1, <2>3, <2>4, <2>5 DEF IInv, DeviceOK, OwnedHasCredential
<1>6. ASSUME NEW c \in Codes, RequestAllocates(p, c) PROVE IInv'
  <2>1. UNCHANGED device
    BY <1>6 DEF RequestAllocates
  <2>2. CASE Answer(p, "failed") /\ UNCHANGED active
    <3>1. Keeps(p)
      BY <1>1, <1>2, <2>2, Answering
    <3>2. CodesAndHandlers'
      BY <1>1, <2>2, <3>1, HandlerMoves DEF CodesAndHandlers
    <3> QED
      BY <2>1, <3>2 DEF IInv, CodesAndHandlers, DeviceOK, OwnedHasCredential
  <2>3. CASE /\ proc' = [proc EXCEPT ![p].pc = "answered", ![p].answer = "code",
                                     ![p].code = c]
             /\ active' = active \/ active' = [NoCode EXCEPT !.code = c, !.hash = proc[p].proof]
    <3>1. proc' = [proc EXCEPT ![p] = [proc[p] EXCEPT !.pc = "answered", !.answer = "code",
                                                      !.code = c]]
      BY <2>3
    <3>2. [proc[p] EXCEPT !.pc = "answered", !.answer = "code", !.code = c] \in Handler
      BY <1>1, <1>2 DEF Handler, Steps
    <3>3. /\ HandlersOK' /\ Others(p)
          /\ proc'[p].kind = "request" /\ proc'[p].proof \in Proofs
      BY <1>1, <3>1, <3>2 DEF HandlersOK, Others, Handler
    <3>4. HandlersHaveProofs'
      BY <3>3 DEF IInv, HandlersHaveProofs, Others
    <3>5. CodeOK' /\ CodesHaveProofs'
      BY <1>1, <2>3 DEF IInv, CodeOK, NoCode, CodesHaveProofs
    <3>6. ClaimsAreHeld'
      BY <1>1, <2>3, <3>3, NoneAssumption DEF IInv, ClaimsAreHeld, NoCode, Others
    <3> QED
      BY <2>1, <3>3, <3>4, <3>5, <3>6 DEF IInv, DeviceOK, OwnedHasCredential
  <2> QED
    BY <1>6, <2>2, <2>3 DEF RequestAllocates
<1> QED
  BY <1>3, <1>4, <1>5, <1>6

-----------------------------------------------------------------------------

LEMMA ExpiryStep == ASSUME IInv, CodeExpires PROVE IInv'
<1>1. active' = [active EXCEPT !.expired = TRUE] /\ active # NoCode
      /\ UNCHANGED <<device, proc>>
  BY DEF CodeExpires
<1>2. CodeOK' /\ CodesHaveProofs' /\ ClaimsAreHeld'
  BY <1>1 DEF IInv, CodeOK, CodesHaveProofs, ClaimsAreHeld
<1> QED
  BY <1>1, <1>2 DEF IInv, DeviceOK, HandlersOK, HandlersHaveProofs, OwnedHasCredential

\* An idle handler takes up a request; nothing points at it yet.
LEMMA TakesUp ==
    ASSUME IInv, NEW p \in Procs, proc[p] = Idle, NEW h \in Handler,
           proc' = [proc EXCEPT ![p] = h],
           h.kind \in {"request", "session", "confirm"} => h.proof \in Proofs,
           h.kind = "confirm" => h.tenant \in Tenants,
           UNCHANGED active
    PROVE  CodesAndHandlers'
<1>1. active.claim # p
  BY IdleHandler DEF IInv, ClaimsAreHeld
<1>2. HandlersOK' /\ HandlersHaveProofs'
  BY DEF IInv, HandlersOK, HandlersHaveProofs
<1>3. CodeOK' /\ CodesHaveProofs' /\ ClaimsAreHeld'
  BY <1>1 DEF IInv, CodeOK, CodesHaveProofs, ClaimsAreHeld, HandlersOK, NoCode
<1> QED
  BY <1>2, <1>3 DEF CodesAndHandlers

LEMMA ArrivalStep ==
    ASSUME IInv, NEW p \in Procs,
           \/ \E f \in Proofs : Arrives(p, "request", None, f) \/ Arrives(p, "session", None, f)
           \/ \E t \in Tenants : Arrives(p, "unpair", t, None)
    PROVE  IInv'
<1>1. PICK kind \in {"request", "session", "unpair"}, t \in Tenants \union {None},
           f \in Proofs \union {None} :
         /\ Arrives(p, kind, t, f)
         /\ kind \in {"request", "session"} => f \in Proofs
  OBVIOUS
<1> DEFINE h == [Idle EXCEPT !.kind = kind, !.pc = "read", !.tenant = t, !.proof = f]
<1>2. h \in Handler /\ h.kind = kind /\ h.proof = f
  BY IdleHandler DEF Handler, Kinds, Steps
<1>3. proc[p] = Idle /\ proc' = [proc EXCEPT ![p] = h] /\ UNCHANGED <<device, active>>
  BY <1>1 DEF Arrives
<1> HIDE DEF h
<1>4. CodesAndHandlers'
  BY <1>1, <1>2, <1>3, TakesUp
<1> QED
  BY <1>3, <1>4 DEF CodesAndHandlers, IInv, DeviceOK, OwnedHasCredential

-----------------------------------------------------------------------------

\* POST /confirm: the claim names the handler until it has answered.
LEMMA ClaimStep ==
    ASSUME IInv, NEW p \in Procs, NEW t \in Tenants, ConfirmClaims(p, t)
    PROVE  IInv'
<1> DEFINE h == [Idle EXCEPT !.kind = "confirm", !.pc = "read", !.tenant = t,
                             !.proof = active.hash, !.code = active.code]
<1>1. /\ active # NoCode /\ active' = [active EXCEPT !.claim = p] /\ UNCHANGED device
      /\ proc' = [q \in Procs |-> IF q = p THEN h ELSE proc[q]]
  BY DEF ConfirmClaims
<1>2. active.code \in Codes /\ active.hash \in Proofs
  BY <1>1 DEF IInv, CodesHaveProofs
<1>3. /\ h \in Handler /\ h.kind = "confirm" /\ h.pc = "read" /\ h.tenant = t
      /\ h.proof = active.hash /\ h.code = active.code
  BY <1>2, IdleHandler DEF Handler, Kinds, Steps
<1> HIDE DEF h
<1>4. HandlersOK' /\ HandlersHaveProofs'
  BY <1>1, <1>2, <1>3 DEF IInv, HandlersOK, HandlersHaveProofs
<1>5. CodeOK' /\ CodesHaveProofs'
  BY <1>1, <1>2 DEF IInv, CodeOK, CodesHaveProofs
<1>6. active'.claim = p /\ active'.code = active.code /\ proc'[p] = h
  BY <1>1 DEF IInv, CodeOK
<1>7. ClaimsAreHeld'
  BY <1>3, <1>6 DEF ClaimsAreHeld
<1> QED
  BY <1>1, <1>4, <1>5, <1>7 DEF IInv, DeviceOK, OwnedHasCredential

LEMMA ConfirmStep ==
    ASSUME IInv, NEW p \in Procs,
           ConfirmReads(p) \/ ConfirmLinks(p) \/ ConfirmConsumes(p) \/ ConfirmReleases(p)
    PROVE  IInv'
<1>1. /\ proc[p].kind = "confirm" /\ proc[p].proof \in Proofs /\ proc[p].tenant \in Tenants
      /\ HandlersOK /\ DeviceOK /\ CodeOK /\ proc[p] \in Handler
  BY DEF ConfirmReads, ConfirmLinks, ConfirmConsumes, ConfirmReleases, Is, IInv,
         HandlersHaveProofs, HandlersOK
<1>2. {"link", "release", "consume"} \subseteq Steps /\ {"failed", "linked"} \subseteq Answers
  BY DEF Steps, Answers
<1>3. CASE ConfirmReads(p)
  <2>1. (At(p, "link") \/ At(p, "release")) /\ UNCHANGED <<device, active>>
    BY <1>3 DEF ConfirmReads
  <2>2. Keeps(p) /\ proc'[p].tenant = proc[p].tenant /\ proc'[p].pc # "answered"
    BY <1>1, <1>2, <2>1, Goes
  <2>3. CodesAndHandlers'
    BY <2>1, <2>2, HandlerMoves DEF CodesAndHandlers
  <2> QED
    BY <2>1, <2>3 DEF IInv, CodesAndHandlers, DeviceOK, OwnedHasCredential
<1>4. CASE ConfirmLinks(p)
  <2>1. (At(p, "consume") \/ At(p, "release")) /\ UNCHANGED active
    BY <1>4 DEF ConfirmLinks
  <2>2. Keeps(p) /\ proc'[p].tenant = proc[p].tenant /\ proc'[p].pc # "answered"
    BY <1>1, <1>2, <2>1, Goes
  <2>3. CodesAndHandlers'
    BY <2>1, <2>2, HandlerMoves DEF CodesAndHandlers
  <2>4. \/ UNCHANGED device
        \/ device' = [known |-> TRUE, tenant |-> proc[p].tenant, hash |-> proc[p].proof]
    BY <1>4 DEF ConfirmLinks
  <2>5. DeviceOK' /\ OwnedHasCredential'
    <3>1. CASE UNCHANGED device
      BY <3>1 DEF IInv, DeviceOK, OwnedHasCredential
    <3>2. CASE device' = [known |-> TRUE, tenant |-> proc[p].tenant, hash |-> proc[p].proof]
      BY <1>1, <3>2, NoneAssumption DEF DeviceOK, OwnedHasCredential
    <3> QED
      BY <2>4, <3>1, <3>2
  <2> QED
    BY <2>3, <2>5 DEF IInv, CodesAndHandlers
<1>5. CASE ConfirmConsumes(p) \/ ConfirmReleases(p)
  <2>1. (Answer(p, "linked") \/ Answer(p, "failed")) /\ UNCHANGED device
    BY <1>5 DEF ConfirmConsumes, ConfirmReleases
  <2>2. Keeps(p) /\ proc'[p].tenant = proc[p].tenant
    BY <1>1, <1>2, <2>1, Answering
  <2>3. HandlersOK' /\ HandlersHaveProofs'
    BY <1>1, <2>2 DEF IInv, Keeps, Others, HandlersOK, HandlersHaveProofs
  <2>4. /\ active' \in {active, NoCode, [active EXCEPT !.claim = None]}
        /\ active.claim = p => active'.claim = None
    <3>1. active.claim = p => active.code = proc[p].code
      BY DEF IInv, ClaimsAreHeld
    <3>2. Holds(p) <=> active.claim = p
      BY <3>1 DEF Holds
    <3> QED
      BY <1>1, <1>5, <3>2, NoCodeIsOne DEF ConfirmConsumes, ConfirmReleases, CodeOK
  <2>5. CodeOK' /\ CodesHaveProofs'
    <3>1. CASE active' \in {active, NoCode}
      BY <1>1, <3>1, NoCodeIsOne DEF IInv, CodeOK, CodesHaveProofs
    <3>2. CASE active' = [active EXCEPT !.claim = None] /\ active # NoCode
      BY <1>1, <3>2 DEF IInv, CodeOK, CodesHaveProofs
    <3>3. CASE active' = [active EXCEPT !.claim = None] /\ active = NoCode
      <4>1. active' = NoCode
        BY <3>3 DEF NoCode
      <4> QED
        BY <4>1, NoCodeIsOne DEF CodeOK, CodesHaveProofs
    <3> QED
      BY <2>4, <3>1, <3>2, <3>3
  <2>6. ClaimsAreHeld'
    <3>1. active'.claim \in Procs => /\ active'.claim = active.claim /\ active.claim # p
                                     /\ active'.code = active.code
      BY <1>1, <2>4, NoCodeIsOne, NoneAssumption DEF CodeOK
    <3> QED
      BY <2>2, <3>1 DEF IInv, ClaimsAreHeld, Keeps, Others
  <2> QED
    BY <2>1, <2>3, <2>5, <2>6 DEF IInv, DeviceOK, OwnedHasCredential
<1> QED
  BY <1>3, <1>4, <1>5

-----------------------------------------------------------------------------

\* POST /device-session and /unpair: handlers without a claim.
LEMMA SessionStep ==
    ASSUME IInv, NEW p \in Procs,
           SessionReads(p) \/ SessionBinds(p) \/ UnpairReads(p) \/ UnpairSaves(p)
    PROVE  IInv'
<1>1. /\ proc[p].kind \in {"session", "unpair"}
      /\ proc[p].kind = "session" => proc[p].proof \in Proofs
      /\ HandlersOK /\ DeviceOK /\ proc[p] \in Handler /\ active.claim # p
  BY DEF SessionReads, SessionBinds, UnpairReads, UnpairSaves, Is, IInv,
         HandlersHaveProofs, HandlersOK, ClaimsAreHeld
<1>2. {"bind", "save", "answered"} \subseteq Steps
      /\ {"failed", "unpaired", "paired", "notPaired", "badProof"} \subseteq Answers
  BY DEF Steps, Answers
<1>3. UNCHANGED active
  BY DEF SessionReads, SessionBinds, UnpairReads, UnpairSaves
<1>4. Keeps(p)
  <2>1. CASE SessionReads(p)
    <3>1. PICK pc \in {"bind", "answered"}, answer \in Answers :
            proc' = [proc EXCEPT ![p] = [proc[p] EXCEPT !.pc = pc, !.tenant = device.tenant,
                                                        !.answer = answer]]
      <4>1. CASE device.known /\ device.hash = None
        <5>1. proc' = [proc EXCEPT ![p] = [proc[p] EXCEPT !.pc = "bind",
                                             !.tenant = device.tenant,
                                             !.answer = proc[p].answer]]
          BY <1>1, <2>1, <4>1 DEF SessionReads, HandlersOK, Handler
        <5> QED
          BY <1>1, <5>1 DEF Handler
      <4>2. CASE ~(device.known /\ device.hash = None)
        <5>1. PICK answer \in Answers :
                proc' = [proc EXCEPT ![p].pc = "answered", ![p].tenant = device.tenant,
                                     ![p].answer = answer]
          BY <1>2, <2>1, <4>2 DEF SessionReads
        <5> QED
          BY <5>1
      <4> QED
        BY <4>1, <4>2
    <3>2. [proc[p] EXCEPT !.pc = pc, !.tenant = device.tenant, !.answer = answer] \in Handler
      BY <1>1, <1>2 DEF Handler, DeviceOK
    <3> QED
      BY <1>1, <3>1, <3>2 DEF HandlersOK, Keeps, Others, Handler
  <2>2. CASE SessionBinds(p) \/ UnpairSaves(p)
    <3>1. PICK answer \in {"notPaired", "paired", "unpaired"} : Answer(p, answer)
      BY <2>2 DEF SessionBinds, UnpairSaves
    <3> QED
      BY <1>1, <1>2, <3>1, Answering
  <2>3. CASE UnpairReads(p)
    <3>1. At(p, "save") \/ Answer(p, "failed")
      BY <2>3 DEF UnpairReads
    <3> QED
      BY <1>1, <1>2, <3>1, Goes, Answering
  <2> QED
    BY <2>1, <2>2, <2>3
<1>5. CodesAndHandlers'
  BY <1>1, <1>3, <1>4, HandlerMoves DEF CodesAndHandlers
<1>6. \/ UNCHANGED device
      \/ SessionBinds(p) /\ device' = [device EXCEPT !.hash = proc[p].proof]
      \/ device' = [device EXCEPT !.tenant = None]
  BY DEF SessionReads, SessionBinds, UnpairReads, UnpairSaves
<1>7. DeviceOK' /\ OwnedHasCredential'
  <2>1. CASE UNCHANGED device
    BY <2>1 DEF IInv, DeviceOK, OwnedHasCredential
  <2>2. CASE SessionBinds(p) /\ device' = [device EXCEPT !.hash = proc[p].proof]
    <3>1. proc[p].proof \in Proofs
      BY <1>1, <2>2 DEF SessionBinds, Is
    <3> QED
      BY <1>1, <2>2, <3>1, NoneAssumption DEF DeviceOK, OwnedHasCredential
  <2>3. CASE device' = [device EXCEPT !.tenant = None]
    BY <1>1, <2>3 DEF DeviceOK, OwnedHasCredential
  <2> QED
    BY <1>6, <2>1, <2>2, <2>3
<1> QED
  BY <1>5, <1>7 DEF IInv, CodesAndHandlers

-----------------------------------------------------------------------------

\* DELETE /devices/:deviceId takes owner and credential in one update.
LEMMA RemoveStep ==
    ASSUME IInv, NEW p \in Procs, NEW t \in Tenants, RemoveDevice(p, t)
    PROVE  IInv'
<1> DEFINE h == [Idle EXCEPT !.kind = "remove", !.pc = "disconnect"]
<1>1. /\ proc[p] = Idle /\ proc' = [proc EXCEPT ![p] = h] /\ UNCHANGED active
      /\ device' = [device EXCEPT !.tenant = None, !.hash = None]
  BY DEF RemoveDevice
<1>2. h \in Handler /\ h.kind = "remove"
  BY IdleHandler DEF Handler, Kinds, Steps
<1> HIDE DEF h
<1>3. CodesAndHandlers'
  BY <1>1, <1>2, TakesUp
<1>4. DeviceOK' /\ OwnedHasCredential'
  BY <1>1 DEF IInv, DeviceOK, OwnedHasCredential
<1> QED
  BY <1>3, <1>4 DEF CodesAndHandlers, IInv

\* A handler that has nothing left to do becomes idle.
LEMMA EndStep ==
    ASSUME IInv, NEW p \in Procs, RemoveEnds(p) \/ Answered(p)
    PROVE  IInv'
<1>1. proc' = [proc EXCEPT ![p] = Idle] /\ UNCHANGED <<device, active>> /\ active.claim # p
  BY DEF RemoveEnds, Answered, Is, IInv, ClaimsAreHeld
<1>2. HandlersOK' /\ HandlersHaveProofs'
  BY <1>1, IdleHandler DEF IInv, HandlersOK, HandlersHaveProofs
<1>3. CodeOK' /\ CodesHaveProofs' /\ ClaimsAreHeld'
  BY <1>1 DEF IInv, CodeOK, CodesHaveProofs, ClaimsAreHeld, HandlersOK, NoCode
<1> QED
  BY <1>1, <1>2, <1>3 DEF IInv, DeviceOK, OwnedHasCredential

\* A code whose claim is replaced by one of nobody is the same code.
LEMMA ClaimOrphaned ==
    ASSUME CodeOK, CodesHaveProofs, active # NoCode,
           active' = [active EXCEPT !.claim = Orphan]
    PROVE  CodeOK' /\ CodesHaveProofs' /\ ClaimsAreHeld'
BY NoneAssumption DEF CodeOK, CodesHaveProofs, ClaimsAreHeld

LEMMA FailureStep ==
    ASSUME IInv, NEW p \in Procs, HandlerFails(p)
    PROVE  IInv'
<1>1. HandlersOK /\ {"release"} \subseteq Steps /\ {"failed"} \subseteq Answers
  BY DEF IInv, Steps, Answers
<1>2. CASE At(p, "release") /\ UNCHANGED <<device, active>>
  <2>1. Keeps(p) /\ proc'[p].tenant = proc[p].tenant /\ proc'[p].pc # "answered"
    BY <1>1, <1>2, Goes
  <2>2. CodesAndHandlers'
    BY <1>2, <2>1, HandlerMoves DEF CodesAndHandlers
  <2> QED
    BY <1>2, <2>2 DEF IInv, CodesAndHandlers, DeviceOK, OwnedHasCredential
<1>3. CASE /\ Answer(p, "failed") /\ UNCHANGED device
           /\ active' = IF active.claim = p THEN [active EXCEPT !.claim = Orphan] ELSE active
  <2>1. Keeps(p) /\ proc'[p].tenant = proc[p].tenant
    BY <1>1, <1>3, Answering
  <2>2. CASE active.claim # p
    <3>1. CodesAndHandlers'
      BY <1>3, <2>1, <2>2, HandlerMoves DEF CodesAndHandlers
    <3> QED
      BY <1>3, <3>1 DEF IInv, CodesAndHandlers, DeviceOK, OwnedHasCredential
  <2>3. CASE active.claim = p
    <3>1. active # NoCode
      BY <2>3, NoCodeIsOne
    <3>2. CodeOK' /\ CodesHaveProofs' /\ ClaimsAreHeld'
      BY <1>3, <2>3, <3>1, ClaimOrphaned DEF IInv
    <3>3. HandlersOK' /\ HandlersHaveProofs'
      BY <2>1 DEF IInv, Keeps, Others, HandlersOK, HandlersHaveProofs
    <3> QED
      BY <1>3, <3>2, <3>3 DEF IInv, DeviceOK, OwnedHasCredential
  <2> QED
    BY <2>2, <2>3
<1> QED
  BY <1>2, <1>3 DEF HandlerFails

\* The claims of the handlers a restart ends can only be taken over.
LEMMA RestartStep == ASSUME IInv, BackendRestarts PROVE IInv'
<1>1. proc' = [p \in Procs |-> Idle] /\ UNCHANGED device
      /\ active' = IF active.claim = None THEN active ELSE [active EXCEPT !.claim = Orphan]
  BY DEF BackendRestarts
<1>2. HandlersOK' /\ HandlersHaveProofs'
  BY <1>1, IdleHandler DEF HandlersOK, HandlersHaveProofs
<1>3. CodeOK' /\ CodesHaveProofs' /\ ClaimsAreHeld'
  <2>1. CASE active.claim = None
    BY <1>1, <2>1, NoneAssumption DEF IInv, CodeOK, CodesHaveProofs, ClaimsAreHeld, NoCode
  <2>2. CASE active.claim # None
    BY <1>1, <2>2, NoCodeIsOne, ClaimOrphaned DEF IInv
  <2> QED
    BY <2>1, <2>2
<1> QED
  BY <1>1, <1>2, <1>3 DEF IInv, DeviceOK, OwnedHasCredential

-----------------------------------------------------------------------------

LEMMA NextKeeps == IInv /\ [PairingNext]_backend => IInv'
<1> SUFFICES ASSUME IInv, [PairingNext]_backend PROVE IInv'
  OBVIOUS
<1>1. CASE CodeExpires \/ BackendRestarts
  BY <1>1, ExpiryStep, RestartStep
<1>2. ASSUME NEW p \in Procs, HandlerStep(p) \/ UnpairSaves(p)
      PROVE  IInv'
  BY <1>2, RequestStep, ConfirmStep, SessionStep DEF HandlerStep
<1>3. ASSUME NEW p \in Procs, RemoveEnds(p) \/ HandlerFails(p) \/ Answered(p)
      PROVE  IInv'
  BY <1>3, EndStep, FailureStep
<1>4. ASSUME NEW p \in Procs, NEW c \in Codes, RequestAllocates(p, c)
      PROVE  IInv'
  BY <1>4, RequestStep
<1>5. ASSUME NEW p \in Procs, NEW t \in Tenants, ConfirmClaims(p, t) \/ RemoveDevice(p, t)
      PROVE  IInv'
  BY <1>5, ClaimStep, RemoveStep
<1>6. ASSUME NEW p \in Procs,
             \/ \E f \in Proofs : Arrives(p, "request", None, f) \/ Arrives(p, "session", None, f)
             \/ \E t \in Tenants : Arrives(p, "unpair", t, None)
      PROVE  IInv'
  BY <1>6, ArrivalStep
<1>7. CASE UNCHANGED backend
  BY <1>7 DEF backend, IInv, DeviceOK, CodeOK, HandlersOK, ClaimsAreHeld, CodesHaveProofs,
              HandlersHaveProofs, OwnedHasCredential
<1> QED
  BY <1>1, <1>2, <1>3, <1>4, <1>5, <1>6, <1>7 DEF PairingNext

LEMMA Invariant == PairingSpec => []IInv
BY InitKeeps, NextKeeps, PTL DEF PairingSpec

(***************************************************************************)
(* Every reachable state has its types, and the claim on a code is the one *)
(* of a confirmation of that code that has not answered: no answered,      *)
(* failed or restarted handler keeps a code from being confirmed for good. *)
(***************************************************************************)
THEOREM TypeCorrect == PairingSpec => []PairingTypeOK
<1>1. IInv => PairingTypeOK
  BY DEF IInv, DeviceOK, CodeOK, HandlersOK, Handler, ClaimsAreHeld, PairingTypeOK
<1> QED
  BY <1>1, Invariant, PTL

(***************************************************************************)
(* An owned device always has a credential, whichever requests, sessions,  *)
(* confirmations and removals are under way: no session of an owned device *)
(* is opened by binding the proof of whoever asks.                         *)
(***************************************************************************)
THEOREM CredentialKept == PairingSpec => []OwnedHasCredential
<1>1. IInv => OwnedHasCredential
  BY DEF IInv
<1> QED
  BY <1>1, Invariant, PTL

(***************************************************************************)
(* No step gives an owned device to another tenant: of two confirmations   *)
(* that have both read a device without an owner, one links it and the     *)
(* other releases its claim.                                               *)
(***************************************************************************)
THEOREM TransfersThroughUnpair == PairingSpec => TransferOnlyAfterUnpair
<1>1. IInv /\ [PairingNext]_backend
        => [device.tenant # None => device'.tenant \in {None, device.tenant}]_backend
  <2> SUFFICES ASSUME IInv, PairingNext, device.tenant # None
               PROVE  device'.tenant \in {None, device.tenant}
    BY DEF backend
  <2>1. DeviceOK
    BY DEF IInv
  <2>2. ASSUME NEW p \in Procs, HandlerStep(p) \/ UnpairSaves(p)
        PROVE  device'.tenant \in {None, device.tenant}
    <3>1. CASE RequestReads(p)
      BY <2>1, <3>1 DEF RequestReads, DeviceOK
    <3>2. CASE RequestBinds(p) \/ SessionBinds(p)
      BY <2>1, <3>2 DEF RequestBinds, SessionBinds, DeviceOK
    <3>3. CASE ConfirmLinks(p)
      BY <2>1, <3>3 DEF ConfirmLinks, DeviceOK
    <3>4. CASE UnpairSaves(p)
      BY <2>1, <3>4 DEF UnpairSaves, DeviceOK
    <3>5. CASE UNCHANGED device
      BY <3>5
    <3> QED
      BY <2>2, <3>1, <3>2, <3>3, <3>4, <3>5
         DEF HandlerStep, RequestPurges, ConfirmReads, ConfirmConsumes, ConfirmReleases,
             SessionReads, UnpairReads
  <2>3. ASSUME NEW p \in Procs, NEW t \in Tenants, RemoveDevice(p, t)
        PROVE  device'.tenant \in {None, device.tenant}
    BY <2>1, <2>3 DEF RemoveDevice, DeviceOK
  <2>4. CASE UNCHANGED device
    BY <2>4
  <2> QED
    BY <2>2, <2>3, <2>4
       DEF PairingNext, CodeExpires, BackendRestarts, RemoveEnds, HandlerFails, Answered,
           RequestAllocates, ConfirmClaims, Arrives
<1> QED
  BY <1>1, Invariant, PTL DEF PairingSpec, TransferOnlyAfterUnpair

-----------------------------------------------------------------------------
(* The session of the player                                               *)

\* What the session needs of the endpoints: a device with a credential has been
\* written, and the answer "paired" names the owner.
DeviceKnown ==
    /\ device.hash # None => device.known
    /\ \A p \in Procs : proc[p].pc = "bind" => device.known
PairedNamesOwner ==
    \A p \in Procs : proc[p].answer = "paired" =>
        proc[p].pc = "answered" /\ proc[p].tenant \in Tenants
EndpointsInv == IInv /\ DeviceKnown /\ PairedNamesOwner

StoreOK == proof \in Proofs /\ store \in Token
StateOK ==
    /\ state \in [at : {"verifying", "paired", "unpaired"}, token : Token,
                  code : Codes \union {None}]
    /\ state.at = "paired" <=> state.token # None
LoopOK == loop \in [pc : LoopState, req : Procs \union {None}, grace : 0..GraceRetries]
ResetOK == reset \in [pc : {"none", "unpair", "clear"}, req : Procs \union {None}]
StartupOK ==
    /\ boot \in [pc : {"start", "read", "connect", "done"}, token : Token]
    /\ seen \in [paired : BOOLEAN, token : Token]
LinkOK ==
    /\ link \in [token : Token,
                 at : {"none", "connecting", "authenticated", "joined", "dead"}]
    /\ link.token = None <=> link.at = "none"
FaultsOK == faults \in 0..MaxFaults
PlayerOK == StoreOK /\ StateOK /\ LoopOK /\ ResetOK /\ StartupOK /\ LinkOK /\ FaultsOK

\* The history: without a lapse the device is owned with this credential, and
\* whatever leads to the pairing screen has been preceded by a lapse.
LapsedOK == lapsed \in BOOLEAN /\ (~lapsed => IsOwned)
\* The handler of the call is its own, and a verdict against the player, or the
\* read that may lead to one, was true of the device during the call.
VerdictsMeanLapsed ==
    loop.req # None =>
      /\ loop.pc \in {"session", "unpaired", "recovery"}
      /\ loop.pc = "session" =>
           /\ proc[loop.req].kind = "session" /\ proc[loop.req].proof = proof
           /\ \/ proc[loop.req].pc = "bind"
              \/ proc[loop.req].answer \in {"notPaired", "badProof"}
              => lapsed
\* A code is asked for after such a verdict only.
CodesMeanLapsed == loop.pc \in {"unpaired", "recovery"} => lapsed
\* A player that is not on the pairing screen finds its token again.
StoreBacksState ==
    /\ state.at # "unpaired" => store # None \/ lapsed
    /\ state.code # None => state.at = "unpaired"
ResetStopsLoop == reset.pc # "none" \/ reset.req # None => loop.pc = "stopped"
HistoryOK == ResetStopsLoop /\ LapsedOK /\ VerdictsMeanLapsed /\ CodesMeanLapsed /\ StoreBacksState

SessionInv == EndpointsInv /\ PlayerOK /\ HistoryOK

-----------------------------------------------------------------------------

\* Of six stamps one is not taken by the five tokens in use.
LEMMA FreshTokens == ASSUME NEW t \in Tenants PROVE FreshToken(t) \in Tokens
<1> DEFINE used == {store, state.token, boot.token, seen.token, link.token}
<1>1. PICK s \in [1..6 -> Stamps] : \A i, j \in 1..6 : s[i] = s[j] => i = j
  BY StampAssumption
<1>2. \E i \in 1..6 : [tenant |-> t, stamp |-> s[i]] \notin used
  <2>1. \A i, j \in 1..6 : [tenant |-> t, stamp |-> s[i]] = [tenant |-> t, stamp |-> s[j]]
                            => i = j
    BY <1>1
  <2> QED
    BY <2>1
<1>3. \E k \in Stamps : [tenant |-> t, stamp |-> k] \notin used
  BY <1>1, <1>2
<1> QED
  BY <1>3 DEF FreshToken, Tokens

LEMMA EndpointsInit == PairingInit => EndpointsInv
BY InitKeeps, IdleHandler
   DEF EndpointsInv, PairingInit, DeviceKnown, PairedNamesOwner, NoDevice, Idle

\* A handler that is not answered with "paired" and leaves the device known
LEMMA HandlerKeeps ==
    ASSUME EndpointsInv, NEW p \in Procs, NEW h, proc' = [proc EXCEPT ![p] = h],
           h.pc = "bind" => device'.known,
           h.answer = "paired" => h.pc = "answered" /\ h.tenant \in Tenants,
           device.known => device'.known,
           device'.hash # None => device'.known
    PROVE  DeviceKnown' /\ PairedNamesOwner'
BY DEF EndpointsInv, IInv, HandlersOK, DeviceKnown, PairedNamesOwner

LEMMA EndpointsKeep == EndpointsInv /\ [PairingNext]_backend => EndpointsInv'
<1> SUFFICES ASSUME EndpointsInv, [PairingNext]_backend PROVE DeviceKnown' /\ PairedNamesOwner'
  BY NextKeeps DEF EndpointsInv
<1> USE DEF EndpointsInv
<1>1. /\ DeviceOK /\ DeviceKnown /\ PairedNamesOwner /\ HandlersOK /\ HandlersHaveProofs
      /\ \A p \in Procs : proc[p] \in Handler
  BY DEF IInv, HandlersOK
<1>2. CASE UNCHANGED backend
  BY <1>2 DEF backend, DeviceKnown, PairedNamesOwner
<1>3. CASE CodeExpires
  BY <1>3 DEF CodeExpires, DeviceKnown, PairedNamesOwner
<1>4. CASE BackendRestarts
  BY <1>4, <1>1 DEF BackendRestarts, DeviceKnown, PairedNamesOwner, Idle
<1>5. ASSUME NEW p \in Procs, NEW pc \in Steps, At(p, pc), pc # "answered",
             proc[p].pc # "answered", pc = "bind" => device'.known,
             device.known => device'.known, device'.hash # None => device'.known
      PROVE  DeviceKnown' /\ PairedNamesOwner'
  <2> DEFINE h == [proc[p] EXCEPT !.pc = pc]
  <2>1. proc' = [proc EXCEPT ![p] = h]
    BY <1>5 DEF At
  <2>2. h.pc = pc /\ h.answer = proc[p].answer
    BY <1>1 DEF Handler
  <2>3. h.answer # "paired"
    BY <1>1, <1>5, <2>2 DEF PairedNamesOwner
  <2> QED
    BY <1>5, <2>1, <2>2, <2>3, HandlerKeeps
<1>6. ASSUME NEW p \in Procs, NEW a \in Answers, Answer(p, a),
             a = "paired" => proc[p].tenant \in Tenants,
             device.known => device'.known, device'.hash # None => device'.known
      PROVE  DeviceKnown' /\ PairedNamesOwner'
  <2> DEFINE h == [proc[p] EXCEPT !.pc = "answered", !.answer = a]
  <2>1. proc' = [proc EXCEPT ![p] = h]
    BY <1>6 DEF Answer
  <2>2. h.pc = "answered" /\ h.answer = a /\ h.tenant = proc[p].tenant
    BY <1>1 DEF Handler
  <2> QED
    BY <1>6, <2>1, <2>2, HandlerKeeps
<1>7. ASSUME NEW p \in Procs, NEW h, proc' = [proc EXCEPT ![p] = h], h.answer # "paired",
             h.pc # "bind", device.known => device'.known,
             device'.hash # None => device'.known
      PROVE  DeviceKnown' /\ PairedNamesOwner'
  BY <1>7, HandlerKeeps
<1>8. /\ {"purge", "bind", "allocate", "link", "release", "consume", "save"} \subseteq Steps
      /\ {"failed", "code", "linked", "unpaired", "notPaired", "paired"} \subseteq Answers
  BY DEF Steps, Answers
<1>9. ASSUME NEW p \in Procs, RequestReads(p) \/ RequestBinds(p) \/ RequestPurges(p)
      PROVE  DeviceKnown' /\ PairedNamesOwner'
  <2>1. CASE RequestReads(p)
    <3>1. proc[p].pc # "answered"
      BY <2>1 DEF RequestReads, Is
    <3>2. /\ device.known => UNCHANGED device
          /\ ~device.known => device' = [known |-> TRUE, tenant |-> None, hash |-> proc[p].proof]
      BY <2>1 DEF RequestReads
    <3>3. device.known => device'.known /\ (device'.hash # None => device'.known)
      BY <3>2
    <3>4. device'.known
      BY <3>2
    <3>5. Answer(p, "failed") \/ At(p, "purge") \/ At(p, "bind")
      BY <2>1 DEF RequestReads
    <3> QED
      BY <1>5, <1>6, <1>8, <3>1, <3>4, <3>5
  <2>2. CASE RequestBinds(p)
    <3>1. device.known /\ proc[p].pc # "answered"
      BY <1>1, <2>2 DEF RequestBinds, Is, DeviceKnown
    <3>2. device'.known
      BY <1>1, <2>2, <3>1 DEF RequestBinds, DeviceOK
    <3> QED
      BY <1>5, <1>8, <2>2, <3>1, <3>2 DEF RequestBinds
  <2>3. CASE RequestPurges(p)
    BY <1>1, <1>5, <1>8, <2>3 DEF RequestPurges, Is, DeviceKnown
  <2> QED
    BY <1>9, <2>1, <2>2, <2>3
<1>10. ASSUME NEW p \in Procs, NEW c \in Codes, RequestAllocates(p, c)
       PROVE  DeviceKnown' /\ PairedNamesOwner'
  <2>1. UNCHANGED device
    BY <1>10 DEF RequestAllocates
  <2>2. CASE Answer(p, "failed")
    BY <1>1, <1>6, <1>8, <2>1, <2>2 DEF DeviceKnown
  <2>3. CASE proc' = [proc EXCEPT ![p].pc = "answered", ![p].answer = "code", ![p].code = c]
    <3> DEFINE h == [proc[p] EXCEPT !.pc = "answered", !.answer = "code", !.code = c]
    <3>1. proc' = [proc EXCEPT ![p] = h]
      BY <2>3
    <3>2. h.pc # "bind" /\ h.answer # "paired"
      BY <1>1 DEF Handler
    <3> QED
      BY <1>1, <1>7, <2>1, <3>1, <3>2 DEF DeviceKnown
  <2> QED
    BY <1>10, <2>2, <2>3 DEF RequestAllocates
<1>11. ASSUME NEW p \in Procs, NEW t \in Tenants, ConfirmClaims(p, t) \/ RemoveDevice(p, t)
       PROVE  DeviceKnown' /\ PairedNamesOwner'
  <2>1. CASE ConfirmClaims(p, t)
    <3> DEFINE h == [Idle EXCEPT !.kind = "confirm", !.pc = "read", !.tenant = t,
                                 !.proof = active.hash, !.code = active.code]
    <3>1. proc' = [q \in Procs |-> IF q = p THEN h ELSE proc[q]] /\ UNCHANGED device
      BY <2>1 DEF ConfirmClaims
    <3>2. proc' = [proc EXCEPT ![p] = h]
      BY <1>1, <3>1 DEF HandlersOK
    <3>3. h.pc = "read" /\ h.answer = "none"
      BY DEF Idle
    <3> QED
      BY <1>1, <1>7, <3>1, <3>2, <3>3 DEF DeviceKnown
  <2>2. CASE RemoveDevice(p, t)
    <3> DEFINE h == [Idle EXCEPT !.kind = "remove", !.pc = "disconnect"]
    <3>1. /\ proc' = [proc EXCEPT ![p] = h]
          /\ device' = [device EXCEPT !.tenant = None, !.hash = None]
      BY <2>2 DEF RemoveDevice
    <3>2. h.pc # "bind" /\ h.answer = "none"
      BY DEF Idle
    <3>3. device'.known = device.known /\ device'.hash = None
      BY <1>1, <3>1 DEF DeviceOK
    <3> QED
      BY <1>7, <3>1, <3>2, <3>3
  <2> QED
    BY <1>11, <2>1, <2>2
<1>12. ASSUME NEW p \in Procs,
              ConfirmReads(p) \/ ConfirmLinks(p) \/ ConfirmConsumes(p) \/ ConfirmReleases(p)
       PROVE  DeviceKnown' /\ PairedNamesOwner'
  <2>1. /\ At(p, "link") \/ At(p, "release") \/ At(p, "consume")
           \/ Answer(p, "linked") \/ Answer(p, "failed")
        /\ proc[p].pc # "answered"
    BY <1>12 DEF ConfirmReads, ConfirmLinks, ConfirmConsumes, ConfirmReleases, Is
  <2>2. \/ UNCHANGED device
        \/ device' = [known |-> TRUE, tenant |-> proc[p].tenant, hash |-> proc[p].proof]
    BY <1>12 DEF ConfirmReads, ConfirmLinks, ConfirmConsumes, ConfirmReleases
  <2>3. (device.known => device'.known) /\ (device'.hash # None => device'.known)
    BY <1>1, <2>2 DEF DeviceKnown
  <2> QED
    BY <1>5, <1>6, <1>8, <2>1, <2>3
<1>13. ASSUME NEW p \in Procs, SessionReads(p) \/ SessionBinds(p)
       PROVE  DeviceKnown' /\ PairedNamesOwner'
  <2>1. CASE SessionBinds(p)
    <3>1. device.known
      BY <1>1, <2>1 DEF SessionBinds, Is, DeviceKnown
    <3>2. device'.known
      BY <1>1, <2>1, <3>1 DEF SessionBinds, DeviceOK
    <3>3. \/ Answer(p, "notPaired")
          \/ Answer(p, "paired") /\ proc[p].tenant \in Tenants
      BY <1>1, <2>1 DEF SessionBinds, Handler
    <3> QED
      BY <1>6, <1>8, <3>2, <3>3
  <2>2. CASE SessionReads(p) /\ device.known /\ device.hash = None
    <3> DEFINE h == [proc[p] EXCEPT !.pc = "bind", !.tenant = device.tenant]
    <3>1. proc' = [proc EXCEPT ![p] = h] /\ UNCHANGED device /\ proc[p].pc = "read"
      BY <2>2 DEF SessionReads, Is
    <3>2. h.pc = "bind" /\ h.answer # "paired"
      BY <1>1, <3>1 DEF Handler, PairedNamesOwner
    <3> QED
      BY <2>2, <3>1, <3>2, HandlerKeeps
  <2>3. CASE SessionReads(p) /\ ~(device.known /\ device.hash = None)
    <3>1. PICK a \in {"notPaired", "badProof", "paired"} :
            /\ proc' = [proc EXCEPT ![p].pc = "answered", ![p].tenant = device.tenant,
                                    ![p].answer = a]
            /\ a = "paired" => device.tenant # None
            /\ UNCHANGED device
      BY <2>3 DEF SessionReads
    <3> DEFINE h == [proc[p] EXCEPT !.pc = "answered", !.tenant = device.tenant, !.answer = a]
    <3>2. proc' = [proc EXCEPT ![p] = h]
      BY <3>1
    <3>3. h.pc = "answered" /\ h.answer = a /\ h.tenant = device.tenant
      BY <1>1 DEF Handler
    <3>4. a = "paired" => device.tenant \in Tenants
      BY <1>1, <3>1 DEF DeviceOK
    <3> QED
      BY <1>1, <3>1, <3>2, <3>3, <3>4, HandlerKeeps DEF DeviceKnown
  <2> QED
    BY <1>13, <2>1, <2>2, <2>3
<1>14. ASSUME NEW p \in Procs, UnpairReads(p) \/ UnpairSaves(p) \/ HandlerFails(p)
       PROVE  DeviceKnown' /\ PairedNamesOwner'
  <2>1. /\ At(p, "save") \/ At(p, "release") \/ Answer(p, "failed") \/ Answer(p, "unpaired")
        /\ proc[p].pc # "answered"
    BY <1>14 DEF UnpairReads, UnpairSaves, HandlerFails, Is
  <2>2. UNCHANGED device \/ device' = [device EXCEPT !.tenant = None]
    BY <1>14 DEF UnpairReads, UnpairSaves, HandlerFails
  <2>3. device'.known = device.known /\ device'.hash = device.hash
    BY <1>1, <2>2 DEF DeviceOK
  <2> QED
    BY <1>1, <1>5, <1>6, <1>8, <2>1, <2>3 DEF DeviceKnown
<1>15. ASSUME NEW p \in Procs, RemoveEnds(p) \/ Answered(p)
       PROVE  DeviceKnown' /\ PairedNamesOwner'
  <2>1. proc' = [proc EXCEPT ![p] = Idle] /\ UNCHANGED device
    BY <1>15 DEF RemoveEnds, Answered
  <2>2. Idle.answer # "paired" /\ Idle.pc # "bind"
    BY DEF Idle
  <2>3. (device.known => device'.known) /\ (device'.hash # None => device'.known)
    BY <1>1, <2>1 DEF DeviceKnown
  <2> QED
    BY <1>7, <2>1, <2>2, <2>3
<1>16. ASSUME NEW p \in Procs, NEW kind, NEW t, NEW f, Arrives(p, kind, t, f)
       PROVE  DeviceKnown' /\ PairedNamesOwner'
  <2> DEFINE h == [Idle EXCEPT !.kind = kind, !.pc = "read", !.tenant = t, !.proof = f]
  <2>1. proc' = [proc EXCEPT ![p] = h] /\ UNCHANGED device
    BY <1>16 DEF Arrives
  <2>2. h.pc = "read" /\ h.answer = "none"
    BY DEF Idle
  <2> QED
    BY <1>1, <1>7, <2>1, <2>2 DEF DeviceKnown
<1> QED
  BY <1>2, <1>3, <1>4, <1>9, <1>10, <1>11, <1>12, <1>13, <1>14, <1>15, <1>16
     DEF PairingNext, HandlerStep

-----------------------------------------------------------------------------

LEMMA SessionInit == Init => SessionInv
<1> SUFFICES ASSUME Init PROVE SessionInv
  OBVIOUS
<1>1. EndpointsInv
  BY EndpointsInit DEF Init
<1>2. PlayerOK
  BY StampAssumption, RetryAssumption
     DEF Init, PlayerOK, StoreOK, StateOK, LoopOK, ResetOK, StartupOK, LinkOK, FaultsOK,
         Token, Unpaired, LoopStart, LoopState, SocketTo
<1>3. HistoryOK
  BY DEF Init, HistoryOK, ResetStopsLoop, LapsedOK, VerdictsMeanLapsed, CodesMeanLapsed,
         StoreBacksState, Unpaired, LoopStart
<1> QED
  BY <1>1, <1>2, <1>3 DEF SessionInv

\* The steps of the backend and its users leave the player alone.
OfTheBackend ==
    \/ Expires
    \/ \E p \in Procs : \/ BackendStep(p) \/ Fails(p)
                        \/ \E t \in Tenants : UserConfirms(p, t) \/ UserRemoves(p, t)

LEMMA FaultCounted == FaultsOK /\ (UNCHANGED faults \/ Fault) => FaultsOK'
BY RetryAssumption DEF FaultsOK, Fault

LEMMA BackendSteps ==
    ASSUME SessionInv, OfTheBackend
    PROVE  /\ PairingNext
           /\ UNCHANGED <<proof, session, reset, startup>> /\ Remember
           /\ link' \in {link, [link EXCEPT !.at = "dead"]} /\ (link' # link => link.at = "joined")
           /\ UNCHANGED faults \/ Fault
<1>1. CASE Expires
  BY <1>1 DEF Expires, Backend, player, PairingNext
<1>2. ASSUME NEW p \in Procs, NEW t \in Tenants, UserConfirms(p, t) \/ UserRemoves(p, t)
      PROVE  /\ PairingNext /\ UNCHANGED player /\ Remember /\ (UNCHANGED faults \/ Fault)
  BY <1>2 DEF UserConfirms, UserRemoves, Backend, PairingNext
<1>3. ASSUME NEW p \in Procs, Fails(p)
      PROVE  /\ PairingNext /\ UNCHANGED player /\ Remember /\ (UNCHANGED faults \/ Fault)
  BY <1>3 DEF Fails, Backend, PairingNext
<1>4. ASSUME NEW p \in Procs, Backend(HandlerStep(p)) \/ Backend(Answered(p))
      PROVE  PairingNext /\ UNCHANGED player /\ Remember
  BY <1>4 DEF Backend, PairingNext
<1>5. ASSUME NEW p \in Procs, Backend(AllocateCode(p))
      PROVE  PairingNext /\ UNCHANGED player /\ Remember
  <2>1. PICK c : RequestAllocates(p, c) /\ (active # NoCode => c = active.code)
    BY <1>5 DEF Backend, AllocateCode
  <2>2. c \in Codes
    BY <2>1 DEF RequestAllocates, SessionInv, EndpointsInv, IInv, CodesHaveProofs
  <2> QED
    BY <1>5, <2>1, <2>2 DEF Backend, PairingNext
<1>6. ASSUME NEW p \in Procs, Disconnects(p)
      PROVE  /\ PairingNext /\ UNCHANGED <<proof, session, reset, startup>> /\ Remember
             /\ link' \in {link, [link EXCEPT !.at = "dead"]}
             /\ link' # link => link.at = "joined"
  BY <1>6 DEF Disconnects, PairingNext
<1>7. ASSUME NEW p \in Procs, BackendStep(p)
      PROVE  /\ PairingNext /\ UNCHANGED <<proof, session, reset, startup>> /\ Remember
             /\ link' \in {link, [link EXCEPT !.at = "dead"]}
             /\ link' # link => link.at = "joined"
             /\ UNCHANGED faults
  <2>1. CASE Disconnects(p)
    BY <1>6, <1>7, <2>1 DEF BackendStep
  <2>2. CASE Backend(HandlerStep(p)) \/ Backend(AllocateCode(p))
             \/ Backend(loop.req # p /\ reset.req # p /\ Answered(p))
    <3>1. PairingNext /\ UNCHANGED player /\ Remember
      BY <1>4, <1>5, <2>2 DEF Backend
    <3> QED
      BY <1>7, <3>1 DEF BackendStep, player
  <2> QED
    BY <1>7, <2>1, <2>2 DEF BackendStep
<1> QED
  BY <1>1, <1>2, <1>3, <1>7 DEF OfTheBackend, player

\* The handler of the session takes its own steps or fails.
LEMMA OwnHandler ==
    ASSUME SessionInv, OfTheBackend, NEW q \in Procs, loop.req = q, proc[q].kind = "session"
    PROVE  \/ proc'[q] = proc[q]
           \/ SessionReads(q) \/ SessionBinds(q)
           \/ Answer(q, "failed")
<1>1. HandlersOK /\ proc[q] # Idle
  BY IdleHandler DEF SessionInv, EndpointsInv, IInv
<1>2. ASSUME NEW p \in Procs \ {q}, NEW h, proc' = [proc EXCEPT ![p] = h]
      PROVE  proc'[q] = proc[q]
  BY <1>1, <1>2 DEF HandlersOK
<1>3. CASE Expires
  BY <1>3 DEF Expires, Backend, CodeExpires
<1>4. ASSUME NEW p \in Procs, NEW t \in Tenants, UserConfirms(p, t)
      PROVE  proc'[q] = proc[q]
  BY <1>1, <1>4 DEF UserConfirms, Backend, ConfirmClaims
<1>5. ASSUME NEW p \in Procs, NEW t \in Tenants, UserRemoves(p, t)
      PROVE  proc'[q] = proc[q]
  BY <1>1, <1>2, <1>5 DEF UserRemoves, Backend, RemoveDevice
<1>6. ASSUME NEW p \in Procs, Fails(p)
      PROVE  proc'[q] = proc[q] \/ Answer(q, "failed")
  <2>1. HandlerFails(p)
    BY <1>6 DEF Fails, Backend
  <2>2. CASE p = q
    BY <2>1, <2>2 DEF HandlerFails
  <2>3. CASE p # q
    BY <1>1, <2>1, <2>3 DEF HandlerFails, At, Answer, HandlersOK
  <2> QED
    BY <2>2, <2>3
<1>7. ASSUME NEW p \in Procs, BackendStep(p)
      PROVE  proc'[q] = proc[q] \/ SessionReads(q) \/ SessionBinds(q)
  <2>1. \/ HandlerStep(p) \/ AllocateCode(p) \/ (p # q /\ Answered(p))
        \/ UnpairSaves(p) \/ RemoveEnds(p)
    BY <1>7 DEF BackendStep, Backend, Disconnects
  <2>2. CASE p = q
    BY <2>1, <2>2
       DEF HandlerStep, AllocateCode, RequestReads, RequestBinds, RequestPurges,
           ConfirmReads, ConfirmLinks, ConfirmConsumes, ConfirmReleases, UnpairReads,
           UnpairSaves, RemoveEnds, RequestAllocates, Is
  <2>3. CASE p # q
    BY <1>1, <2>1, <2>3
       DEF HandlerStep, AllocateCode, RequestReads, RequestBinds, RequestPurges,
           ConfirmReads, ConfirmLinks, ConfirmConsumes, ConfirmReleases, UnpairReads,
           UnpairSaves, RemoveEnds, RequestAllocates, SessionReads, SessionBinds, Answered,
           At, Answer, HandlersOK
  <2> QED
    BY <2>2, <2>3
<1> QED
  BY <1>3, <1>4, <1>5, <1>6, <1>7 DEF OfTheBackend

LEMMA BackendKeeps == ASSUME SessionInv, OfTheBackend PROVE SessionInv'
<1>1. /\ PairingNext
      /\ UNCHANGED <<proof, session, reset, startup>> /\ Remember
      /\ link' \in {link, [link EXCEPT !.at = "dead"]} /\ (link' # link => link.at = "joined")
      /\ UNCHANGED faults \/ Fault
  BY BackendSteps
<1>2. EndpointsInv'
  BY <1>1, EndpointsKeep DEF SessionInv
<1>3. PlayerOK'
  <2>1. LinkOK'
    BY <1>1 DEF SessionInv, PlayerOK, LinkOK
  <2>2. FaultsOK'
    BY <1>1, FaultCounted DEF SessionInv, PlayerOK
  <2> QED
    BY <1>1, <2>1, <2>2
       DEF SessionInv, PlayerOK, session, startup, StoreOK, StateOK, LoopOK, ResetOK, StartupOK
<1>4. LapsedOK' /\ (lapsed => lapsed') /\ (~IsOwned' => lapsed')
  BY <1>1 DEF SessionInv, HistoryOK, LapsedOK, Remember
<1>5. VerdictsMeanLapsed'
  <2> SUFFICES ASSUME loop.req # None
               PROVE  /\ loop.pc \in {"session", "unpaired", "recovery"}
                      /\ loop.pc = "session" =>
                           /\ proc'[loop.req].kind = "session"
                           /\ proc'[loop.req].proof = proof
                           /\ \/ proc'[loop.req].pc = "bind"
                              \/ proc'[loop.req].answer \in {"notPaired", "badProof"}
                              => lapsed'
    BY <1>1 DEF VerdictsMeanLapsed, session
  <2>1. loop.pc \in {"session", "unpaired", "recovery"}
    BY DEF SessionInv, HistoryOK, VerdictsMeanLapsed
  <2> SUFFICES ASSUME loop.pc = "session"
               PROVE  /\ proc'[loop.req].kind = "session"
                      /\ proc'[loop.req].proof = proof
                      /\ \/ proc'[loop.req].pc = "bind"
                         \/ proc'[loop.req].answer \in {"notPaired", "badProof"}
                         => lapsed'
    BY <2>1
  <2> DEFINE q == loop.req
  <2>2. /\ q \in Procs /\ proc[q].kind = "session" /\ proc[q].proof = proof
        /\ (proc[q].pc = "bind" \/ proc[q].answer \in {"notPaired", "badProof"}) => lapsed
    BY DEF SessionInv, HistoryOK, VerdictsMeanLapsed, PlayerOK, LoopOK
  <2>3. /\ proc[q] \in Handler /\ proc \in [Procs -> Handler]
        /\ DeviceOK /\ DeviceKnown /\ proof \in Proofs
    BY <2>2 DEF SessionInv, EndpointsInv, IInv, HandlersOK, PlayerOK, StoreOK
  <2>4. CASE proc'[q] = proc[q]
    BY <1>4, <2>2, <2>4
  <2>5. CASE SessionReads(q)
    <3>1. /\ proc'[q].kind = proc[q].kind /\ proc'[q].proof = proc[q].proof
          /\ UNCHANGED device
      BY <2>3, <2>5, <2>2 DEF SessionReads, Handler
    <3>2. CASE device.hash = None \/ device.hash # proof \/ device.tenant = None
      <4>1. ~IsOwned'
        BY <1>1, <2>3, <3>1, <3>2, NoneAssumption DEF IsOwned, Owned
      <4> QED
        BY <1>4, <2>2, <3>1, <4>1
    <3>3. CASE device.hash # None /\ device.hash = proof /\ device.tenant # None
      <4>1. proc' = [proc EXCEPT ![q].pc = "answered", ![q].tenant = device.tenant,
                                 ![q].answer = "paired"]
        BY <2>2, <2>3, <2>5, <3>3 DEF SessionReads, DeviceKnown
      <4>2. proc'[q].pc = "answered" /\ proc'[q].answer = "paired"
        BY <2>2, <2>3, <4>1 DEF Handler
      <4> QED
        BY <2>2, <3>1, <4>2
    <3> QED
      BY <3>2, <3>3
  <2>6. CASE SessionBinds(q)
    <3>1. PICK a : Answer(q, a)
      BY <2>6 DEF SessionBinds
    <3>2. proc'[q].kind = proc[q].kind /\ proc'[q].proof = proc[q].proof
      BY <2>2, <2>3, <3>1 DEF Answer, Handler
    <3> QED
      BY <1>4, <2>2, <2>6, <3>2 DEF SessionBinds, Is
  <2>7. CASE Answer(q, "failed")
    <3>1. /\ proc'[q].kind = proc[q].kind /\ proc'[q].proof = proc[q].proof
          /\ proc'[q].pc = "answered" /\ proc'[q].answer = "failed"
      BY <2>2, <2>3, <2>7 DEF Answer, Handler
    <3> QED
      BY <2>2, <3>1
  <2> QED
    BY <2>2, <2>4, <2>5, <2>6, <2>7, OwnHandler
<1>6. CodesMeanLapsed' /\ StoreBacksState' /\ ResetStopsLoop'
  BY <1>1, <1>4 DEF SessionInv, HistoryOK, CodesMeanLapsed, StoreBacksState, ResetStopsLoop, session
<1> QED
  BY <1>2, <1>3, <1>4, <1>5, <1>6 DEF SessionInv, HistoryOK

-----------------------------------------------------------------------------
(* The steps of the player                                                 *)

\* A call arrives, an answer is taken, or the endpoints do not move.
LEMMA EndpointsMove ==
    ASSUME SessionInv,
           \/ UNCHANGED backend
           \/ \E p \in Procs : Answered(p) \/ Arrives(p, "session", None, proof)
                               \/ Arrives(p, "request", None, proof)
                               \/ (store # None /\ Arrives(p, "unpair", store.tenant, None))
    PROVE  EndpointsInv'
<1>1. proof \in Proofs /\ (store # None => store.tenant \in Tenants)
  BY DEF SessionInv, PlayerOK, StoreOK, Token, Tokens
<1>2. [PairingNext]_backend
  BY <1>1 DEF PairingNext
<1> QED
  BY <1>2, EndpointsKeep DEF SessionInv


USE DEF PlayerOK, HistoryOK

\* The loop goes on to wait, to call or to ask for a code, and keeps what it knows.
LEMMA LoopOnly ==
    ASSUME SessionInv, NEW p \in Procs,
           LoopCalls(p) \/ SessionInGrace(p) \/ SessionRejected(p) \/ RequestCode(p)
             \/ SessionErrs(p)
    PROVE  SessionInv'
<1>1. UNCHANGED <<proof, store, state, reset, startup, link, faults, lapsed, device>>
  BY DEF LoopCalls, SessionInGrace, SessionRejected, RequestCode, SessionErrs, SessionFails,
         Response, Arrives, Answered
<1>2. EndpointsInv'
  BY EndpointsMove
     DEF LoopCalls, SessionInGrace, SessionRejected, RequestCode, SessionErrs, Response
<1>3. LoopOK'
  <2>1. CASE SessionInGrace(p)
    <3>1. loop' = [pc |-> "wait", req |-> None, grace |-> loop.grace + 1]
          /\ loop.grace < GraceRetries
      BY <2>1 DEF SessionInGrace
    <3>2. loop.grace + 1 \in 0..GraceRetries
      BY <3>1, RetryAssumption DEF SessionInv, LoopOK
    <3> QED
      BY <3>1, <3>2 DEF LoopOK, LoopState
  <2>2. CASE LoopCalls(p) \/ SessionRejected(p) \/ RequestCode(p) \/ SessionErrs(p)
    <3>1. PICK pc \in LoopState, req \in Procs \union {None} : loop' = Loop(pc, req)
      BY <2>2 DEF LoopCalls, SessionRejected, RequestCode, SessionErrs, SessionFails,
                  LoopState
    <3> QED
      BY <3>1 DEF SessionInv, LoopOK, Loop
  <2> QED
    BY <2>1, <2>2
<1>4. LapsedOK' /\ StoreBacksState'
  BY <1>1 DEF SessionInv, LapsedOK, StoreBacksState, IsOwned, Owned
<1>5. ResetStopsLoop'
  BY <1>1 DEF SessionInv, ResetStopsLoop, LoopCalls, SessionInGrace, SessionRejected, RequestCode,
              SessionErrs
<1>6. VerdictsMeanLapsed' /\ CodesMeanLapsed'
  <2>0. LoopOK /\ VerdictsMeanLapsed /\ CodesMeanLapsed /\ HandlersOK
    BY DEF SessionInv, EndpointsInv, IInv
  <2>1. CASE LoopCalls(p)
    <3>1. loop'.pc = "session" /\ loop'.req = p /\ proc \in [Procs -> Handler]
      BY <2>0, <2>1 DEF LoopCalls, Loop, LoopOK, HandlersOK
    <3>2. proc'[p] = [Idle EXCEPT !.kind = "session", !.pc = "read", !.tenant = None,
                                  !.proof = proof]
      BY <2>1, <3>1 DEF LoopCalls, Arrives
    <3>3. proc'[p].kind = "session" /\ proc'[p].proof = proof /\ proc'[p].pc = "read"
          /\ proc'[p].answer = "none"
      BY <3>2 DEF Idle
    <3> QED
      BY <1>1, <3>1, <3>3 DEF VerdictsMeanLapsed, CodesMeanLapsed
  <2>2. CASE SessionInGrace(p) \/ SessionErrs(p)
    <3>1. loop'.pc = "wait" /\ loop'.req = None
      <4>1. CASE SessionInGrace(p)
        <5>1. loop' = [pc |-> "wait", req |-> None, grace |-> loop.grace + 1]
          BY <4>1 DEF SessionInGrace
        <5> QED
          BY <5>1
      <4>2. CASE SessionErrs(p)
        BY <2>0, <4>2 DEF SessionErrs, SessionFails, Loop, LoopOK
      <4> QED
        BY <2>2, <4>1, <4>2
    <3> QED
      BY <3>1 DEF VerdictsMeanLapsed, CodesMeanLapsed
  <2>3. CASE SessionRejected(p)
    <3>1. loop'.pc = "recovery" /\ loop'.req = None
      BY <2>0, <2>3 DEF SessionRejected, Loop, LoopOK
    <3>2. lapsed
      BY <2>0, <2>3, NoneAssumption DEF SessionRejected, Response, VerdictsMeanLapsed
    <3> QED
      BY <1>1, <3>1, <3>2 DEF VerdictsMeanLapsed, CodesMeanLapsed
  <2>4. CASE RequestCode(p)
    <3>1. loop'.pc = loop.pc /\ loop.pc \in {"unpaired", "recovery"}
      BY <2>0, <2>4 DEF RequestCode, Loop, LoopOK
    <3> QED
      BY <1>1, <2>0, <3>1 DEF VerdictsMeanLapsed, CodesMeanLapsed
  <2> QED
    BY <2>1, <2>2, <2>3, <2>4
<1> QED
  BY <1>1, <1>2, <1>3, <1>4, <1>5, <1>6
     DEF SessionInv, StoreOK, StateOK, ResetOK, StartupOK, LinkOK, FaultsOK, startup

LEMMA WaitStep == ASSUME SessionInv, WaitOver PROVE SessionInv'
<1>1. UNCHANGED <<backend, proof, store, state, reset, startup, link, faults, lapsed>>
      /\ loop.pc = "wait" /\ loop' = Loop("call", None)
  BY DEF WaitOver
<1>2. EndpointsInv'
  BY <1>1, EndpointsMove
<1>3. LoopOK' /\ loop'.pc = "call" /\ loop'.req = None
  BY <1>1 DEF SessionInv, LoopOK, LoopState, Loop
<1> QED
  BY <1>1, <1>2, <1>3
     DEF SessionInv, StoreOK, StateOK, ResetOK, StartupOK, LinkOK, FaultsOK, startup, backend,
         LapsedOK, VerdictsMeanLapsed, CodesMeanLapsed, StoreBacksState, ResetStopsLoop,
         IsOwned, Owned

\* A verification: the session has a token of its own and starts afresh.
LEMMA PairedStep == ASSUME SessionInv, NEW p \in Procs, SessionPaired(p) PROVE SessionInv'
<1>1. /\ loop.pc = "session" /\ Answered(p) /\ proc[p].answer = "paired"
      /\ loop' = [pc |-> "wait", req |-> None, grace |-> 0]
      /\ lapsed' = ~IsOwned
      /\ UNCHANGED <<proof, reset, startup, link, faults, device>>
  BY DEF SessionPaired, Response, Answered
<1>2. PICK tk : tk = FreshToken(proc[p].tenant) /\ store' = tk /\ state' = Paired(tk)
  BY DEF SessionPaired
<1>3. tk \in Tokens /\ tk # None
  <2>1. proc[p].tenant \in Tenants
    BY <1>1 DEF SessionInv, EndpointsInv, PairedNamesOwner
  <2> QED
    BY <1>2, <2>1, FreshTokens, StampAssumption
<1>4. EndpointsInv'
  BY <1>1, EndpointsMove
<1>5. StoreOK' /\ StateOK'
  BY <1>1, <1>2, <1>3 DEF SessionInv, StoreOK, StateOK, Token, Paired
<1>6. LoopOK' /\ loop'.pc = "wait" /\ loop'.req = None
  BY <1>1, RetryAssumption DEF LoopOK, LoopState
<1>7. LapsedOK'
  BY <1>1 DEF LapsedOK, IsOwned, Owned
<1>8. StoreBacksState'
  BY <1>2, <1>3 DEF StoreBacksState, Paired
<1>9. VerdictsMeanLapsed' /\ CodesMeanLapsed' /\ ResetStopsLoop'
  BY <1>1, <1>6 DEF SessionInv, VerdictsMeanLapsed, CodesMeanLapsed, ResetStopsLoop
<1> QED
  BY <1>1, <1>4, <1>5, <1>6, <1>7, <1>8, <1>9
     DEF SessionInv, ResetOK, StartupOK, LinkOK, FaultsOK, startup

\* A session that is not paired any more, past its grace period
LEMMA UnpairedStep ==
    ASSUME SessionInv, NEW p \in Procs, NEW keep \in BOOLEAN, SessionUnpaired(p, keep)
    PROVE  SessionInv' /\ lapsed
<1>1. /\ loop.pc = "session" /\ loop.req = p /\ proc[p].answer = "notPaired" /\ Answered(p)
      /\ store' = None /\ CodeReusable(keep)
      /\ loop' = [pc |-> IF keep THEN "wait" ELSE "unpaired", req |-> None, grace |-> 0]
      /\ state' = IF keep THEN Unpaired(state.code) ELSE state
      /\ UNCHANGED <<proof, reset, startup, link, faults, lapsed, device>>
  BY DEF SessionUnpaired, Response, Answered
<1>2. lapsed
  BY <1>1, NoneAssumption DEF SessionInv, VerdictsMeanLapsed
<1>3. EndpointsInv'
  BY <1>1, EndpointsMove
<1>4. StoreOK' /\ StateOK' /\ LoopOK'
  <2>1. StoreOK' /\ LoopOK'
    BY <1>1, RetryAssumption DEF SessionInv, StoreOK, LoopOK, LoopState, Token
  <2>2. StateOK'
    BY <1>1 DEF SessionInv, StateOK, Token, Unpaired
  <2> QED
    BY <2>1, <2>2
<1>5. LapsedOK'
  BY <1>1 DEF SessionInv, LapsedOK, IsOwned, Owned
<1>6. StoreBacksState'
  BY <1>1, <1>2 DEF SessionInv, StoreBacksState, Unpaired
<1>7. VerdictsMeanLapsed' /\ CodesMeanLapsed' /\ ResetStopsLoop'
  BY <1>1, <1>2 DEF SessionInv, VerdictsMeanLapsed, CodesMeanLapsed, ResetStopsLoop
<1> QED
  BY <1>1, <1>2, <1>3, <1>4, <1>5, <1>6, <1>7
     DEF SessionInv, ResetOK, StartupOK, LinkOK, FaultsOK, startup

LEMMA CodeStep ==
    ASSUME SessionInv, NEW p \in Procs, CodeArrives(p) \/ CodeFails(p)
    PROVE  SessionInv' /\ lapsed
<1>1. /\ loop.pc \in {"unpaired", "recovery"} /\ Answered(p)
      /\ store' \in {store, None}
      /\ loop' = Loop("wait", None)
      /\ UNCHANGED <<proof, reset, startup, link, faults, lapsed, device>>
  BY DEF CodeArrives, CodeFails, CodeMissing, Response, Answered
<1>2. PICK c \in Codes \union {None} : state' = Unpaired(c)
  BY DEF SessionInv, EndpointsInv, IInv, HandlersOK, Handler, StateOK, CodeArrives, CodeFails,
         CodeMissing, CodeLeft
<1>3. EndpointsInv' /\ lapsed
  BY <1>1, EndpointsMove DEF SessionInv, CodesMeanLapsed
<1>4. StoreOK' /\ StateOK'
  BY <1>1, <1>2 DEF SessionInv, StoreOK, StateOK, Token, Unpaired
<1>5. LoopOK' /\ loop'.pc = "wait" /\ loop'.req = None
  BY <1>1 DEF SessionInv, LoopOK, LoopState, Loop
<1>6. LapsedOK' /\ StoreBacksState'
  BY <1>1, <1>2 DEF SessionInv, LapsedOK, IsOwned, Owned, StoreBacksState, Unpaired
<1>7. VerdictsMeanLapsed' /\ CodesMeanLapsed' /\ ResetStopsLoop'
  BY <1>1, <1>5 DEF SessionInv, VerdictsMeanLapsed, CodesMeanLapsed, ResetStopsLoop
<1> QED
  BY <1>1, <1>3, <1>4, <1>5, <1>6, <1>7
     DEF SessionInv, ResetOK, StartupOK, LinkOK, FaultsOK, startup

\* A timeout keeps the state of a session and ends a request for a code.
LEMMA TimeoutStep ==
    ASSUME SessionInv, CallTimesOut
    PROVE  SessionInv' /\ (state' # state => lapsed)
<1>1. /\ loop.req # None /\ loop' = Loop("wait", None) /\ Fault
      /\ UNCHANGED <<backend, proof, store, reset, startup, link, lapsed>>
      /\ state' = IF loop.pc = "session" THEN state ELSE CodeLeft
  BY DEF CallTimesOut, SessionFails, CodeMissing
<1>2. loop.pc # "session" => lapsed
  BY <1>1 DEF SessionInv, VerdictsMeanLapsed, CodesMeanLapsed
<1>3. EndpointsInv' /\ FaultsOK'
  BY <1>1, EndpointsMove, FaultCounted DEF SessionInv
<1>4. StateOK' /\ StoreBacksState'
  BY <1>1, <1>2 DEF SessionInv, StateOK, StoreBacksState, CodeLeft, Unpaired, Token
<1>5. LoopOK' /\ loop'.pc = "wait" /\ loop'.req = None
  BY <1>1 DEF SessionInv, LoopOK, LoopState, Loop
<1>6. VerdictsMeanLapsed' /\ CodesMeanLapsed' /\ ResetStopsLoop'
  BY <1>1, <1>5 DEF SessionInv, VerdictsMeanLapsed, CodesMeanLapsed, ResetStopsLoop
<1>7. LapsedOK'
  BY <1>1 DEF SessionInv, LapsedOK, IsOwned, Owned, backend
<1> QED
  BY <1>1, <1>2, <1>3, <1>4, <1>5, <1>6, <1>7
     DEF SessionInv, StoreOK, ResetOK, StartupOK, LinkOK, startup

\* The reset stops the loop and ends even when its call fails.
LEMMA ResetSteps ==
    ASSUME SessionInv,
           \/ \E p \in Procs : ResetStarts(p) \/ ResetUnpaired(p)
           \/ ResetTimesOut \/ ResetEnds
    PROVE  SessionInv'
<1>1. CASE \E p \in Procs : ResetStarts(p)
  <2>1. PICK p \in Procs : ResetStarts(p)
    BY <1>1
  <2>2. /\ Fault /\ loop' = Loop("stopped", None)
        /\ UNCHANGED <<proof, store, state, startup, link, lapsed, device>>
    BY <2>1 DEF ResetStarts, Arrives, backend
  <2>3. EndpointsInv'
    <3>1. UNCHANGED backend \/ (store # None /\ Arrives(p, "unpair", store.tenant, None))
      BY <2>1 DEF ResetStarts
    <3> QED
      BY <3>1, EndpointsMove
  <2>4. PICK pc \in {"unpair", "clear"}, req \in Procs \union {None} :
          reset' = [pc |-> pc, req |-> req]
    BY <2>1 DEF ResetStarts
  <2>5. ResetOK'
    BY <2>4 DEF ResetOK
  <2>6. LoopOK' /\ loop'.pc = "stopped" /\ loop'.req = None
    BY <2>2 DEF SessionInv, LoopOK, LoopState, Loop
  <2>7. FaultsOK'
    BY <2>2, FaultCounted DEF SessionInv
  <2>8. LapsedOK' /\ StoreBacksState'
    BY <2>2 DEF SessionInv, LapsedOK, StoreBacksState, IsOwned, Owned
  <2>9. VerdictsMeanLapsed' /\ CodesMeanLapsed' /\ ResetStopsLoop'
    BY <2>6 DEF VerdictsMeanLapsed, CodesMeanLapsed, ResetStopsLoop
  <2> QED
    BY <2>2, <2>3, <2>5, <2>6, <2>7, <2>8, <2>9
       DEF SessionInv, StoreOK, StateOK, StartupOK, LinkOK, startup
<1>2. CASE ResetTimesOut \/ \E p \in Procs : ResetUnpaired(p)
  <2>1. /\ reset.pc = "unpair" /\ reset' = [pc |-> "clear", req |-> None]
        /\ UNCHANGED <<proof, store, state, loop, startup, link, lapsed, device>>
        /\ UNCHANGED faults \/ Fault
    BY <1>2 DEF ResetTimesOut, ResetUnpaired, Answered, backend, session
  <2>2. EndpointsInv'
    BY <1>2, EndpointsMove DEF ResetTimesOut, ResetUnpaired
  <2>3. ResetOK' /\ FaultsOK'
    BY <2>1, FaultCounted DEF SessionInv, ResetOK
  <2>4. loop.pc = "stopped" /\ loop.req = None
    BY <2>1 DEF SessionInv, ResetStopsLoop, VerdictsMeanLapsed
  <2>5. VerdictsMeanLapsed' /\ CodesMeanLapsed' /\ ResetStopsLoop'
    BY <2>1, <2>4 DEF VerdictsMeanLapsed, CodesMeanLapsed, ResetStopsLoop
  <2>6. LapsedOK' /\ StoreBacksState'
    BY <2>1 DEF SessionInv, LapsedOK, StoreBacksState, IsOwned, Owned
  <2> QED
    BY <2>1, <2>2, <2>3, <2>5, <2>6
       DEF SessionInv, StoreOK, StateOK, LoopOK, StartupOK, LinkOK, startup
<1>3. CASE ResetEnds
  <2>1. /\ store' = None /\ state' = Unpaired(None) /\ loop' = LoopStart
        /\ reset' = [pc |-> "none", req |-> None]
        /\ UNCHANGED <<backend, proof, startup, link, faults, lapsed>>
    BY <1>3 DEF ResetEnds
  <2>2. EndpointsInv'
    BY <2>1, EndpointsMove
  <2>3. StoreOK' /\ StateOK' /\ LoopOK' /\ ResetOK'
    BY <2>1, RetryAssumption, StampAssumption
       DEF SessionInv, StoreOK, StateOK, LoopOK, ResetOK, Token, Unpaired, LoopStart, LoopState
  <2>4. VerdictsMeanLapsed' /\ CodesMeanLapsed' /\ ResetStopsLoop'
    BY <2>1 DEF VerdictsMeanLapsed, CodesMeanLapsed, ResetStopsLoop, LoopStart
  <2>5. LapsedOK' /\ StoreBacksState'
    BY <2>1 DEF SessionInv, LapsedOK, StoreBacksState, IsOwned, Owned, Unpaired, backend
  <2> QED
    BY <2>1, <2>2, <2>3, <2>4, <2>5
       DEF SessionInv, StartupOK, LinkOK, FaultsOK, startup
<1> QED
  BY <1>1, <1>2, <1>3

\* The startup, the collector and the socket only read the session.
SocketStep == Collect \/ Boot \/ LinkAuthenticates \/ LinkJoins \/ LinkReconnects

LEMMA SocketSteps == ASSUME SessionInv, SocketStep PROVE SessionInv' /\ UNCHANGED state
<1>1. UNCHANGED <<backend, proof, session, reset, faults, lapsed>>
  BY DEF SocketStep, Collect, Boot, BootCollects, BootReads, BootConnects,
         LinkAuthenticates, LinkJoins, LinkReconnects, LinkIs
<1>2. EndpointsInv'
  BY <1>1, EndpointsMove
<1>3. StartupOK'
  <2>1. CASE Collect
    <3>1. boot' = boot /\ seen' = Target
      BY <2>1 DEF Collect
    <3> QED
      BY <3>1 DEF SessionInv, StartupOK, StateOK, Target
  <2>2. CASE Boot
    <3>1. store \in Token /\ None \in Token /\ StartupOK
      BY DEF SessionInv, StoreOK, Token
    <3>2. \/ boot' = [pc |-> "read", token |-> None]
             /\ seen' = [paired |-> FALSE, token |-> store]
          \/ boot' = [pc |-> "connect", token |-> store] /\ UNCHANGED seen
          \/ boot' = [pc |-> "done", token |-> None] /\ UNCHANGED seen
      BY <2>2 DEF Boot, BootCollects, BootReads, BootConnects
    <3>3. boot' \in [pc : {"start", "read", "connect", "done"}, token : Token]
      BY <3>1, <3>2
    <3>4. seen' = seen \/ seen' = [paired |-> FALSE, token |-> store]
      BY <3>2
    <3>5. seen' \in [paired : BOOLEAN, token : Token]
      <4>1. seen \in [paired : BOOLEAN, token : Token]
        BY <3>1 DEF StartupOK
      <4>2. [paired |-> FALSE, token |-> store] \in [paired : BOOLEAN, token : Token]
        BY <3>1
      <4> QED
        BY <3>4, <4>1, <4>2
    <3> QED
      BY <3>3, <3>5 DEF StartupOK
  <2>3. CASE LinkAuthenticates \/ LinkJoins \/ LinkReconnects
    BY <2>3 DEF SessionInv, StartupOK, LinkAuthenticates, LinkJoins, LinkReconnects, LinkIs, startup
  <2> QED
    BY <2>1, <2>2, <2>3 DEF SocketStep
<1>4. LinkOK'
  <2>1. CASE Collect \/ Boot
    <3>1. UNCHANGED link \/ \E tk \in Token : link' = SocketTo(tk)
      BY <2>1 DEF SessionInv, StateOK, StartupOK, Collect, Target, Boot, BootCollects, BootReads,
                  BootConnects
    <3> QED
      BY <3>1 DEF SessionInv, LinkOK, SocketTo
  <2>2. CASE LinkAuthenticates \/ LinkJoins \/ LinkReconnects
    <3>1. PICK at \in {"connecting", "authenticated", "joined", "dead"} :
            link.at # "none" /\ link' = [link EXCEPT !.at = at]
      BY <2>2 DEF LinkAuthenticates, LinkJoins, LinkReconnects, LinkIs
    <3> QED
      BY <3>1 DEF SessionInv, LinkOK
  <2> QED
    BY <2>1, <2>2 DEF SocketStep
<1>5. HistoryOK'
  BY <1>1 DEF SessionInv, session, backend, LapsedOK, VerdictsMeanLapsed, CodesMeanLapsed,
              StoreBacksState, ResetStopsLoop, IsOwned, Owned
<1> QED
  BY <1>1, <1>2, <1>3, <1>4, <1>5
     DEF SessionInv, StoreOK, StateOK, LoopOK, ResetOK, FaultsOK, session

\* A restart of the backend fails the calls that are under way.
LEMMA CrashStep == ASSUME SessionInv, Crash PROVE SessionInv' /\ (state' # state => lapsed)
<1>1. /\ BackendRestarts /\ Fault
      /\ UNCHANGED <<proof, store, startup, lapsed>>
  BY DEF Crash
<1>2. EndpointsInv' /\ UNCHANGED device
  BY <1>1, EndpointsKeep DEF SessionInv, PairingNext, BackendRestarts
<1>3. LinkOK'
  <2>1. link' = link \/ (link.at # "none" /\ link' = [link EXCEPT !.at = "connecting"])
    BY DEF Crash
  <2> QED
    BY <2>1 DEF SessionInv, LinkOK
<1>4. ResetOK' /\ ResetStopsLoop'
  <2>1. reset' = IF reset.req = None THEN reset ELSE [pc |-> "clear", req |-> None]
    BY DEF Crash
  <2>2. CASE reset.req = None
    BY <2>1, <2>2 DEF SessionInv, ResetOK, ResetStopsLoop, VerdictsMeanLapsed, Crash
  <2>3. CASE reset.req # None
    BY <2>1, <2>3 DEF SessionInv, ResetOK, ResetStopsLoop, VerdictsMeanLapsed, Crash
  <2> QED
    BY <2>2, <2>3
<1>5. CASE loop.req = None
  <2>1. UNCHANGED <<state, loop>>
    BY <1>5 DEF Crash
  <2>2. VerdictsMeanLapsed' /\ CodesMeanLapsed' /\ StoreBacksState'
    BY <1>1, <1>5, <2>1 DEF SessionInv, VerdictsMeanLapsed, CodesMeanLapsed, StoreBacksState
  <2>3. LapsedOK' /\ FaultsOK'
    BY <1>1, <1>2, FaultCounted DEF SessionInv, LapsedOK, IsOwned, Owned
  <2> QED
    BY <1>1, <1>2, <1>3, <1>4, <2>1, <2>2, <2>3
       DEF SessionInv, StoreOK, StateOK, LoopOK, StartupOK, startup
<1>6. CASE loop.req # None
  <2>1. loop' = Loop("wait", None) /\ state' = IF loop.pc = "session" THEN state ELSE CodeLeft
    BY <1>6 DEF Crash
  <2>2. loop.pc # "session" => lapsed
    BY <1>6 DEF SessionInv, VerdictsMeanLapsed, CodesMeanLapsed
  <2>3. LoopOK' /\ loop'.pc = "wait" /\ loop'.req = None
    BY <2>1 DEF SessionInv, LoopOK, LoopState, Loop
  <2>4. VerdictsMeanLapsed' /\ CodesMeanLapsed'
    BY <2>3 DEF VerdictsMeanLapsed, CodesMeanLapsed
  <2>5. StateOK' /\ StoreBacksState'
    BY <1>1, <2>1, <2>2 DEF SessionInv, StateOK, StoreBacksState, CodeLeft, Unpaired, Token
  <2>6. LapsedOK' /\ FaultsOK'
    BY <1>1, <1>2, FaultCounted DEF SessionInv, LapsedOK, IsOwned, Owned
  <2> QED
    BY <1>1, <1>2, <1>3, <1>4, <2>1, <2>2, <2>3, <2>4, <2>5, <2>6
       DEF SessionInv, StoreOK, StartupOK, startup
<1> QED
  BY <1>5, <1>6

\* The player starts again, with its store or with nothing.
LEMMA RestartsStep ==
    ASSUME SessionInv, NEW wiped \in BOOLEAN, PlayerRestarts(wiped)
    PROVE  /\ SessionInv'
           /\ ~wiped /\ state.at # "unpaired" /\ state'.at = "unpaired" => lapsed
<1>1. /\ Fault /\ UNCHANGED backend /\ Remember
      /\ store' = (IF wiped THEN None ELSE store)
      /\ state' = (IF wiped THEN Unpaired(None) ELSE Restored)
      /\ loop' = LoopStart
      /\ reset' = [pc |-> "none", req |-> None]
      /\ boot' = [pc |-> "start", token |-> None]
      /\ seen' = [paired |-> FALSE, token |-> None]
      /\ link' = SocketTo(None)
  BY DEF PlayerRestarts
<1>2. proof' \in Proofs
  BY DEF PlayerRestarts, SessionInv, StoreOK
<1>3. EndpointsInv' /\ FaultsOK'
  BY <1>1, EndpointsMove, FaultCounted DEF SessionInv
<1>4. StoreOK' /\ StateOK'
  BY <1>1, <1>2, StampAssumption DEF SessionInv, StoreOK, StateOK, Token, Unpaired, Restored
<1>5. LoopOK' /\ ResetOK' /\ StartupOK' /\ LinkOK'
  BY <1>1, RetryAssumption
     DEF LoopOK, ResetOK, StartupOK, LinkOK, LoopStart, LoopState, SocketTo, Token
<1>6. LapsedOK' /\ (lapsed => lapsed')
  BY <1>1 DEF SessionInv, LapsedOK, Remember
<1>7. VerdictsMeanLapsed' /\ CodesMeanLapsed' /\ ResetStopsLoop'
  BY <1>1 DEF VerdictsMeanLapsed, CodesMeanLapsed, ResetStopsLoop, LoopStart
<1>8. StoreBacksState'
  BY <1>1, <1>6 DEF StoreBacksState, Unpaired, Restored
<1>9. ~wiped /\ state.at # "unpaired" /\ state'.at = "unpaired" => lapsed
  BY <1>1 DEF SessionInv, StoreBacksState, Restored
<1> QED
  BY <1>3, <1>4, <1>5, <1>6, <1>7, <1>8, <1>9 DEF SessionInv

-----------------------------------------------------------------------------

\* No step breaks the invariant, and a step to the pairing screen has a reason.
LEMMA SessionNext ==
    ASSUME SessionInv, Next
    PROVE  /\ SessionInv'
           /\ state.at # "unpaired" /\ state'.at = "unpaired"
                => lapsed \/ ResetEnds \/ PlayerRestarts(TRUE)
<1>1. CASE OfTheBackend
  BY <1>1, BackendKeeps, BackendSteps DEF session
<1>2. CASE \E p \in Procs : LoopStep(p)
  <2>1. PICK p \in Procs : LoopStep(p)
    BY <1>2
  <2>2. CASE LoopCalls(p) \/ SessionInGrace(p) \/ SessionRejected(p) \/ RequestCode(p)
               \/ SessionErrs(p)
    <3>1. UNCHANGED state
      BY <2>2 DEF LoopCalls, SessionInGrace, SessionRejected, RequestCode, SessionErrs,
                  SessionFails
    <3> QED
      BY <2>2, <3>1, LoopOnly
  <2>3. CASE SessionPaired(p)
    <3>1. state'.at # "unpaired"
      BY <2>3 DEF SessionPaired, Paired
    <3> QED
      BY <2>3, <3>1, PairedStep
  <2>4. CASE \E keep \in BOOLEAN : SessionUnpaired(p, keep)
    BY <2>4, UnpairedStep
  <2>5. CASE CodeArrives(p) \/ CodeFails(p)
    BY <2>5, CodeStep
  <2> QED
    BY <2>1, <2>2, <2>3, <2>4, <2>5 DEF LoopStep
<1>3. CASE \/ \E p \in Procs : ResetStarts(p) \/ ResetUnpaired(p)
           \/ ResetTimesOut \/ ResetEnds
  <2>1. ResetEnds \/ UNCHANGED state
    BY <1>3 DEF ResetStarts, ResetUnpaired, ResetTimesOut, session
  <2> QED
    BY <1>3, <2>1, ResetSteps
<1>4. CASE WaitOver
  BY <1>4, WaitStep DEF WaitOver
<1>5. CASE SocketStep
  BY <1>5, SocketSteps
<1>6. CASE CallTimesOut \/ Crash
  BY <1>6, TimeoutStep, CrashStep
<1>7. CASE \E wiped \in BOOLEAN : PlayerRestarts(wiped)
  BY <1>7, RestartsStep
<1> QED
  BY <1>1, <1>2, <1>3, <1>4, <1>5, <1>6, <1>7
     DEF Next, PlayerStep, OfTheBackend, SocketStep

LEMMA SessionStutters == ASSUME SessionInv, UNCHANGED vars PROVE SessionInv'
<1>1. EndpointsInv'
  BY EndpointsMove DEF vars
<1> QED
  BY <1>1
     DEF SessionInv, vars, backend, player, session, startup, StoreOK, StateOK, LoopOK, ResetOK,
         StartupOK, LinkOK, FaultsOK, LapsedOK, VerdictsMeanLapsed, CodesMeanLapsed,
         StoreBacksState, ResetStopsLoop, IsOwned, Owned

LEMMA SessionInvariant == Spec => []SessionInv
<1>1. SessionInv /\ [Next]_vars => SessionInv'
  BY SessionNext, SessionStutters
<1> QED
  BY <1>1, SessionInit, PTL DEF Spec

(***************************************************************************)
(* The loop, the reset, the startup and the socket keep their types        *)
(* together with the endpoints: a socket has a token exactly while there   *)
(* is one, and a player is paired exactly while it has a token.            *)
(***************************************************************************)
THEOREM SessionTypeCorrect == Spec => []TypeOK
<1>1. SessionInv => TypeOK
  BY DEF SessionInv, EndpointsInv, IInv, DeviceOK, CodeOK, HandlersOK, Handler, ClaimsAreHeld,
         StoreOK, StateOK, LoopOK, ResetOK, StartupOK, LinkOK, FaultsOK, TypeOK, PairingTypeOK
<1> QED
  BY <1>1, SessionInvariant, PTL

(***************************************************************************)
(* The pairing screen comes back only when the user resets the screen, the *)
(* app has been reinstalled, or the device was not owned with the          *)
(* credential of this player at some time since its last verification: no  *)
(* timeout, rejected database call or restart of either side takes a       *)
(* player off the air, whatever handlers of earlier calls still do.        *)
(***************************************************************************)
THEOREM FailuresKeepPairing == Spec => NeverUnpairedByFailure
<1>1. SessionInv /\ [Next]_vars
        => [state.at # "unpaired" /\ state'.at = "unpaired"
              => lapsed \/ ResetEnds \/ PlayerRestarts(TRUE)]_vars
  BY SessionNext
<1> QED
  BY <1>1, SessionInvariant, PTL DEF Spec, NeverUnpairedByFailure
=============================================================================
