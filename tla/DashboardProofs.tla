--------------------------- MODULE DashboardProofs ----------------------------
(***************************************************************************)
(* Proofs about the parts of the dashboard's page of a screen.             *)
(*                                                                         *)
(* FleetSocket: for any number of attempts, outages, broken connections    *)
(* and failed requests, a page that has been left keeps no socket, timer   *)
(* or sign of a connection, whatever was under way.                        *)
(*                                                                         *)
(* ScreenPreview: for any number of captures, tenants, restarts and        *)
(* failures, the pointer of a device names a file that is stored, and an   *)
(* upload removes only the file that its own update of the pointer has     *)
(* replaced, so that no more than one stays.                               *)
(***************************************************************************)
EXTENDS FleetSocket, ScreenPreview, TLAPS, FiniteSetTheorems

(* The socket of a page *)

SocketRisks == {"outage", "drop", "online", "fail", "edit"}
SocketStates == {"none", "opening", "connected", "lost", "exhausted", "inactive"}

FlagsOK ==
    /\ up \in BOOLEAN /\ session \in BOOLEAN /\ expired \in BOOLEAN
    /\ connecting \in BOOLEAN /\ retry \in BOOLEAN /\ disposed \in BOOLEAN /\ flag \in BOOLEAN
HookOK == socket \in [state : SocketStates, tries : 0..Attempts]
BudgetOK == budget \in [SocketRisks -> Nat] /\ budget["drop"] <= MaxDrops

\* The page is told of a connection only while it has a socket.
ToldOfASocket == flag => socket.state # "none"

SocketInv == FlagsOK /\ HookOK /\ BudgetOK /\ ToldOfASocket /\ NoneAfterUnmount

-----------------------------------------------------------------------------

LEMMA NewSocket ==
    ASSUME NEW state \in SocketStates, NEW tries \in 0..Attempts
    PROVE  /\ Socket(state, tries) \in [state : SocketStates, tries : 0..Attempts]
           /\ Socket(state, tries).state = state
BY DEF Socket

LEMMA SocketNumbers == 0 \in 0..Attempts /\ 1 \in 0..Attempts /\ Attempts \in Nat /\ MaxDrops \in Nat
BY SocketAssumption

LEMMA SocketInitKeeps == SocketInit => SocketInv
<1> SUFFICES ASSUME SocketInit PROVE SocketInv
  OBVIOUS
<1>1. budget \in [SocketRisks -> Nat] /\ budget["drop"] = MaxDrops
  BY SocketAssumption DEF SocketInit, SocketRisks
<1>2. HookOK /\ socket = NoSocket
  BY SocketNumbers, NewSocket DEF SocketInit, NoSocket, HookOK, SocketStates
<1>3. BudgetOK
  BY <1>1, SocketNumbers DEF BudgetOK
<1>4. FlagsOK /\ ToldOfASocket /\ NoneAfterUnmount
  BY DEF SocketInit, FlagsOK, ToldOfASocket, NoneAfterUnmount
<1> QED
  BY <1>2, <1>3, <1>4 DEF SocketInv

LEMMA Spending ==
    ASSUME BudgetOK, NEW what \in SocketRisks, Spend(what) \/ UNCHANGED budget
    PROVE  BudgetOK'
<1>1. CASE UNCHANGED budget
  BY <1>1 DEF BudgetOK
<1>2. CASE Spend(what)
  <2>1. budget[what] - 1 \in Nat /\ budget' = [budget EXCEPT ![what] = budget[what] - 1]
    BY <1>2 DEF BudgetOK, Spend
  <2>2. budget' \in [SocketRisks -> Nat]
    BY <2>1 DEF BudgetOK
  <2>3. budget'["drop"] <= budget["drop"]
    BY <2>1 DEF BudgetOK, SocketRisks
  <2> QED
    BY <2>2, <2>3, SocketNumbers DEF BudgetOK, SocketRisks
<1> QED
  BY <1>1, <1>2

\* What happens to the backend: it may break the connection of a page.
LEMMA ServerStep == ASSUME SocketInv, GoesDown \/ ComesUp \/ Expire PROVE SocketInv'
<1>1. BudgetOK'
  BY Spending DEF GoesDown, ComesUp, Expire, SocketInv, SocketRisks
<1>2. \/ socket' = socket
      \/ Connected /\ socket' = Socket("lost", 0)
  BY DEF GoesDown, ComesUp, Expire, hook
<1>3. UNCHANGED <<session, connecting, retry, disposed, flag>> /\ up' \in BOOLEAN /\ expired' \in BOOLEAN
  BY DEF GoesDown, ComesUp, Expire, hook, SocketInv, FlagsOK
<1>4. HookOK' /\ (socket'.state = "none" => socket' = socket) /\ (socket = NoSocket => socket' = socket)
  BY <1>2, NewSocket, SocketNumbers DEF SocketInv, HookOK, SocketStates, Connected, NoSocket, Socket
<1> QED
  BY <1>1, <1>3, <1>4 DEF SocketInv, FlagsOK, ToldOfASocket, NoneAfterUnmount, NoSocket

\* Timers and the browser ask for a ticket: the socket is left alone.
LEMMA AskStep == ASSUME SocketInv, RetryFires \/ Online PROVE SocketInv'
<1>1. BudgetOK'
  BY Spending DEF RetryFires, Online, SocketInv, SocketRisks
<1>2. UNCHANGED <<up, session, expired, socket, disposed, flag>>
  BY DEF RetryFires, Online
<1>3. connecting' \in BOOLEAN
  BY DEF RetryFires, Online, MayConnect, SocketInv, FlagsOK
<1>4. retry' \in BOOLEAN /\ (retry' => retry)
  <2>1. CASE RetryFires
    BY <2>1 DEF RetryFires
  <2>2. CASE Online
    BY <2>2 DEF Online, SocketInv, FlagsOK
  <2> QED
    BY <2>1, <2>2
<1> QED
  BY <1>1, <1>2, <1>3, <1>4 DEF SocketInv, FlagsOK, HookOK, ToldOfASocket, NoneAfterUnmount, NoSocket

\* The answer of the request is dropped once the page has been left.
LEMMA TicketStep == ASSUME SocketInv, Ticket \/ TicketRefused \/ TicketFails PROVE SocketInv'
<1>1. BudgetOK'
  BY Spending DEF Ticket, TicketRefused, TicketFails, SocketInv, SocketRisks
<1>2. \/ UNCHANGED socket
      \/ ~disposed /\ socket' = Socket("opening", 0)
  BY DEF Ticket, TicketRefused, TicketFails, Opens
<1>3. /\ UNCHANGED <<up, session, disposed>> /\ connecting' = FALSE /\ expired' \in BOOLEAN
      /\ retry' \in BOOLEAN /\ (disposed /\ retry' => retry)
      /\ flag' \in BOOLEAN /\ (flag' => flag)
  <2>1. CASE Ticket
    BY <2>1 DEF Ticket, Opens, SocketInv, FlagsOK
  <2>2. CASE TicketRefused
    BY <2>2 DEF TicketRefused, SocketInv, FlagsOK
  <2>3. CASE TicketFails
    BY <2>3 DEF TicketFails, Schedules, SocketInv, FlagsOK
  <2> QED
    BY <2>1, <2>2, <2>3
<1>4. HookOK' /\ (socket'.state = "none" => socket' = socket)
  <2>1. Socket("opening", 0).state = "opening"
        /\ Socket("opening", 0) \in [state : SocketStates, tries : 0..Attempts]
    BY NewSocket, SocketNumbers DEF SocketStates
  <2> QED
    BY <1>2, <2>1 DEF SocketInv, HookOK
<1>5. FlagsOK' /\ ToldOfASocket'
  BY <1>3, <1>4 DEF SocketInv, FlagsOK, ToldOfASocket
<1>6. NoneAfterUnmount'
  <2> SUFFICES ASSUME disposed PROVE socket' = NoSocket /\ ~retry' /\ ~flag'
    BY <1>3 DEF NoneAfterUnmount, NoSocket
  <2> QED
    BY <1>2, <1>3 DEF SocketInv, NoneAfterUnmount
<1> QED
  BY <1>1, <1>4, <1>5, <1>6 DEF SocketInv

\* The cleanup of the effect.
LEMMA UnmountStep == ASSUME SocketInv, Unmount PROVE SocketInv'
<1>1. /\ disposed' = TRUE /\ socket' = NoSocket /\ retry' = FALSE /\ flag' = FALSE
      /\ UNCHANGED <<up, session, expired, connecting, budget>>
  BY DEF Unmount
<1>2. HookOK'
  BY <1>1, NewSocket, SocketNumbers DEF HookOK, NoSocket, SocketStates
<1> QED
  BY <1>1, <1>2 DEF SocketInv, FlagsOK, BudgetOK, ToldOfASocket, NoneAfterUnmount, NoSocket

\* What the socket reports: there is one, so the page has not been left.
LEMMA SocketStep ==
    ASSUME SocketInv, Open \/ OpenRefused \/ OpenFails \/ Break \/ Edit
    PROVE  SocketInv'
<1>1. BudgetOK'
  BY Spending DEF Open, OpenRefused, OpenFails, Break, Edit, SocketInv, SocketRisks
<1>2. \/ UNCHANGED <<socket, flag>> /\ retry' = retry
      \/ /\ socket.state # "none"
         /\ \E state \in SocketStates \ {"none"}, tries \in 0..Attempts : socket' = Socket(state, tries)
  <2>1. CASE Open \/ OpenRefused \/ Break \/ Edit
    BY <2>1, SocketNumbers DEF Open, OpenRefused, Break, Edit, Connected, SocketStates
  <2>2. CASE OpenFails
    <3>1. socket.tries \in 0..Attempts
      BY DEF SocketInv, HookOK
    <3>2. TriesAgain => socket.tries + 1 \in 0..Attempts
      BY <3>1, SocketNumbers DEF TriesAgain
    <3> QED
      BY <2>2, <3>2, SocketNumbers DEF OpenFails, SocketStates
  <2> QED
    BY <2>1, <2>2
<1>3. /\ UNCHANGED <<connecting, disposed>> /\ up' \in BOOLEAN /\ session' \in BOOLEAN
      /\ expired' \in BOOLEAN /\ flag' \in BOOLEAN /\ retry' \in BOOLEAN
  BY DEF Open, OpenRefused, OpenFails, Break, Edit, Refused, Schedules, Lost, SocketInv, FlagsOK
<1>4. CASE UNCHANGED <<socket, flag>> /\ retry' = retry
  BY <1>1, <1>3, <1>4 DEF SocketInv, FlagsOK, HookOK, ToldOfASocket, NoneAfterUnmount, NoSocket
<1>5. ASSUME socket.state # "none", NEW state \in SocketStates \ {"none"}, NEW tries \in 0..Attempts,
             socket' = Socket(state, tries)
      PROVE  SocketInv'
  <2>1. ~disposed
    BY <1>5 DEF SocketInv, NoneAfterUnmount, NoSocket, Socket
  <2>2. HookOK' /\ socket'.state # "none"
    BY <1>5, NewSocket DEF HookOK
  <2> QED
    BY <1>1, <1>3, <2>1, <2>2 DEF SocketInv, FlagsOK, ToldOfASocket, NoneAfterUnmount
<1> QED
  BY <1>2, <1>4, <1>5

LEMMA SocketNextKeeps == SocketInv /\ [SocketNext]_vars => SocketInv'
<1>1. SocketInv /\ UNCHANGED vars => SocketInv'
  BY DEF vars, SocketInv, FlagsOK, HookOK, BudgetOK, ToldOfASocket, NoneAfterUnmount, NoSocket
<1> QED
  BY <1>1, ServerStep, AskStep, TicketStep, UnmountStep, SocketStep DEF SocketNext

LEMMA SocketInvariant == SocketSpec => []SocketInv
BY SocketInitKeeps, SocketNextKeeps, PTL DEF SocketSpec

(***************************************************************************)
(* Types: socket.io never counts more attempts than it is given, and the   *)
(* page is told of a connection only while the hook has a socket.          *)
(***************************************************************************)
THEOREM SocketTypes == SocketSpec => []SocketTypeOK
<1>1. SocketInv => SocketTypeOK
  BY SocketNumbers DEF SocketInv, FlagsOK, HookOK, SocketStates, BudgetOK, SocketRisks, ToldOfASocket, SocketTypeOK
<1> QED
  BY <1>1, SocketInvariant, PTL

(***************************************************************************)
(* A ticket that arrives, a timer that fires or a socket that reports      *)
(* after the page has been left opens nothing and sets no timer: the       *)
(* cleanup of the effect is final.                                         *)
(***************************************************************************)
THEOREM LeftForGood == SocketSpec => []NoneAfterUnmount
<1>1. SocketInv => NoneAfterUnmount
  BY DEF SocketInv
<1> QED
  BY <1>1, SocketInvariant, PTL

-----------------------------------------------------------------------------
(* Types of the previews *)

Risks == {"crash", "fail", "kept", "lost", "hide", "move"}
Outcomes == {"failed", "completed"}

LEMMA Sizes == MaxItem \in Nat /\ MaxNow \in Nat /\ Skew \in Nat /\ Slack \in Nat
BY PreviewAssumption

LEMMA Mishaps ==
    ASSUME PreviewTypeOK, NEW what \in Risks, Mishap(what) \/ UNCHANGED mishaps
    PROVE  mishaps' \in [Risks -> Nat]
<1>1. mishaps \in [Risks -> Nat]
  BY DEF PreviewTypeOK, Risks
<1>2. CASE Mishap(what)
  <2>1. mishaps[what] - 1 \in Nat
    BY <1>1, <1>2 DEF Mishap
  <2> QED
    BY <1>1, <1>2, <2>1 DEF Mishap
<1> QED
  BY <1>1, <1>2

LEMMA Emitted ==
    ASSUME PreviewTypeOK, NEW e \in Event, Emit(e)
    PROVE  events' \in Seq(Event)
BY DEF PreviewTypeOK, Emit

LEMMA Reported ==
    ASSUME PreviewTypeOK, NEW c \in Captures, NEW outcome \in Outcomes, Result(c, outcome)
    PROVE  events' \in Seq(Event)
<1>1. [type |-> "ack", capture |-> c, outcome |-> outcome] \in Event
  BY DEF Event, Outcomes
<1> QED
  BY <1>1, Emitted DEF Result

LEMMA Received ==
    ASSUME PreviewTypeOK, events # <<>>
    PROVE  Head(events) \in Event /\ Tail(events) \in Seq(Event)
BY DEF PreviewTypeOK

\* The fields of the record of an upload.
LEMMA Staged ==
    ASSUME NEW u \in Upload, NEW stage \in Stages
    PROVE  /\ [u EXCEPT !.stage = stage] \in Upload
           /\ [u EXCEPT !.stage = stage].stage = stage
           /\ [u EXCEPT !.stage = stage].tenant = u.tenant
           /\ [u EXCEPT !.stage = stage].old = u.old
BY DEF Upload

LEMMA Restaged ==
    ASSUME NEW f \in [Captures -> Upload], NEW c \in Captures, NEW stage \in Stages,
           NEW g, g = [f EXCEPT ![c].stage = stage]
    PROVE  /\ g \in [Captures -> Upload]
           /\ g[c].stage = stage /\ g[c].tenant = f[c].tenant /\ g[c].old = f[c].old
           /\ \A d \in Captures \ {c} : g[d] = f[d]
<1>1. /\ [f[c] EXCEPT !.stage = stage] \in Upload
      /\ [f[c] EXCEPT !.stage = stage].stage = stage
      /\ [f[c] EXCEPT !.stage = stage].tenant = f[c].tenant
      /\ [f[c] EXCEPT !.stage = stage].old = f[c].old
  BY Staged
<1>2. PICK u : u = [f[c] EXCEPT !.stage = stage]
  OBVIOUS
<1>3. g = [f EXCEPT ![c] = u]
  BY <1>2
<1> QED
  BY <1>1, <1>2, <1>3

LEMMA Going ==
    ASSUME NEW u \in Upload, NEW stage \in Stages, NEW tenant \in {None} \cup Tenants,
           NEW old \in {None} \cup Captures
    PROVE  /\ Goes(u, stage, tenant, old) \in Upload
           /\ Goes(u, stage, tenant, old).stage = stage
           /\ Goes(u, stage, tenant, old).tenant = tenant
           /\ Goes(u, stage, tenant, old).old = old
BY DEF Goes, Upload

LEMMA Taken ==
    ASSUME NEW id \in Nat, NEW t \in Tenants
    PROVE  /\ [Idle EXCEPT !.stage = "taken", !.item = id, !.tenant = t] \in Upload
           /\ [Idle EXCEPT !.stage = "taken", !.item = id, !.tenant = t].stage = "taken"
BY DEF Idle, Upload, Stages

LEMMA Asked ==
    ASSUME NEW stage \in Stages
    PROVE  [Idle EXCEPT !.stage = stage] \in Upload /\ [Idle EXCEPT !.stage = stage].stage = stage
BY DEF Idle, Upload, Stages

LEMMA PageEdits ==
    ASSUME NEW p \in Page, NEW k \in Keys
    PROVE  /\ Scheduled(p, k) \in Page /\ GivenUp(p, k) \in Page
           /\ [p EXCEPT !.row = k] \in Page /\ [p EXCEPT !.settle = None] \in Page
<1>1. Scheduled(p, k) \in Page
  BY DEF Scheduled, Page
<1>2. GivenUp(p, k) \in Page
  BY DEF GivenUp, Page
<1>3. [p EXCEPT !.row = k] \in Page
  BY DEF Page
<1>4. [p EXCEPT !.settle = None] \in Page
  BY DEF Page
<1> QED
  BY <1>1, <1>2, <1>3, <1>4

LEMMA PageShows ==
    ASSUME NEW p \in Page, NEW shot \in {None} \cup Nat
    PROVE  [p EXCEPT !.shot = shot] \in Page
BY DEF Page

LEMMA PageHides ==
    ASSUME NEW p \in Page, NEW visible \in BOOLEAN
    PROVE  [p EXCEPT !.visible = visible] \in Page
BY DEF Page

LEMMA ImageType == PreviewTypeOK => Image \in {None} \cup Nat
BY DEF PreviewTypeOK, Image, Device, Upload

LEMMA KeyType == ASSUME NEW media \in Nat, NEW started \in Nat PROVE Key(media, started) \in Keys
BY DEF Key, Keys

LEMMA PlaysType ==
    ASSUME NEW d \in Device, NEW media \in Nat, NEW started \in Nat
    PROVE  /\ Plays(d, media, started) \in Device
           /\ Plays(d, media, started).file = d.file /\ Plays(d, media, started).tenant = d.tenant
BY DEF Plays, Device

LEMMA PlayTypes ==
    ASSUME PreviewTypeOK, PlayNext \/ Heartbeat \/ Persists \/ PersistFails \/ Tick
    PROVE  PreviewTypeOK'
<1>1. CASE PlayNext
  <2>1. item' \in Item
    BY <1>1, Sizes DEF PlayNext, PreviewTypeOK, Item
  <2> QED
    BY <1>1, <2>1 DEF PlayNext, PreviewTypeOK, serverVars, pageVars
<1>2. CASE Heartbeat
  <2>1. item.id \in Nat /\ AcceptedStart(item.began) \in Nat
    BY DEF PreviewTypeOK, Item, AcceptedStart
  <2>2. write' \in Write
    BY <1>2, <2>1 DEF Heartbeat, PreviewTypeOK, Device, Write
  <2>3. events' \in Seq(Event)
    <3>1. [type |-> "playback", media |-> item.id, started |-> AcceptedStart(item.began)] \in Event
      BY <2>1 DEF Event
    <3> QED
      BY <1>2, <3>1, Emitted DEF Heartbeat
  <2> QED
    BY <1>2, <2>2, <2>3 DEF Heartbeat, PreviewTypeOK, pageVars
<1>4. CASE Persists
  <2>1. write.media \in Nat /\ write.started \in Nat
    BY <1>4 DEF Persists, PreviewTypeOK, Write
  <2>2. device' \in Device
    BY <1>4, <2>1, PlaysType DEF Persists, PreviewTypeOK
  <2> QED
    BY <1>4, <2>2 DEF Persists, PreviewTypeOK, pageVars
<1>5. CASE PersistFails
  <2>1. mishaps' \in [Risks -> Nat]
    BY <1>5, Mishaps DEF PersistFails, Risks
  <2> QED
    BY <1>5, <2>1 DEF PersistFails, PreviewTypeOK, pageVars, Risks
<1>3. CASE Tick
  BY <1>3, Sizes DEF Tick, PreviewTypeOK, serverVars, pageVars
<1> QED
  BY <1>1, <1>2, <1>3, <1>4, <1>5


LEMMA PlayerTypes ==
    ASSUME PreviewTypeOK, NEW c \in Captures, PlayerStep(c)
    PROVE  PreviewTypeOK'
<1>0. "done" \in Stages /\ "taken" \in Stages /\ "fail" \in Risks /\ Outcomes = {"failed", "completed"}
  BY DEF Stages, Risks, Outcomes
<1>1. ASSUME upload' = [upload EXCEPT ![c].stage = "done"], Mishap("fail") \/ UNCHANGED mishaps,
             Result(c, "failed") \/ Result(c, "completed"), UNCHANGED <<now, item, serverVars, pageVars>>
      PROVE  PreviewTypeOK'
  <2>1. upload' \in [Captures -> Upload]
    BY <1>0, <1>1, Restaged DEF PreviewTypeOK
  <2>2. events' \in Seq(Event)
    BY <1>0, <1>1, Reported
  <2>3. mishaps' \in [Risks -> Nat]
    BY <1>0, <1>1, Mishaps
  <2> QED
    BY <1>1, <2>1, <2>2, <2>3 DEF PreviewTypeOK, serverVars, pageVars, Risks
<1>2. ASSUME upload' = [upload EXCEPT ![c] = [Idle EXCEPT !.stage = "taken", !.item = item.id, !.tenant = device.tenant]],
             UNCHANGED <<now, item, serverVars, events, pageVars, mishaps>>
      PROVE  PreviewTypeOK'
  <2>1. upload' \in [Captures -> Upload]
    <3>1. device.tenant \in Tenants /\ item.id \in Nat
      BY DEF PreviewTypeOK, Device, Item
    <3> QED
      BY <1>0, <1>2, <3>1, Taken DEF PreviewTypeOK
  <2> QED
    BY <1>2, <2>1 DEF PreviewTypeOK, serverVars, pageVars
<1>3. CASE Capture(c)
  BY <1>1, <1>2, <1>3 DEF Capture
<1>4. CASE Report(c) \/ ReportBroken(c)
  BY <1>1, <1>4 DEF Report, ReportBroken
<1> QED
  BY <1>3, <1>4 DEF PlayerStep


\* The record of the device.
LEMMA Pointed ==
    ASSUME NEW d \in Device, NEW file \in Captures, NEW at \in Nat
    PROVE  /\ Points(d, file, at) \in Device
           /\ Points(d, file, at).file = file /\ Points(d, file, at).tenant = d.tenant
BY DEF Points, Device

LEMMA BackendTypes ==
    ASSUME PreviewTypeOK, NEW c \in Captures, BackendStep(c)
    PROVE  PreviewTypeOK'
<1>0. /\ {"accepted", "stored", "moved", "done", "answered"} \subseteq Stages
      /\ {"fail", "kept"} \subseteq Risks /\ "failed" \in Outcomes
  BY DEF Stages, Risks, Outcomes
<1>1. /\ device.tenant \in {None} \cup Tenants /\ device.file \in {None} \cup Captures
      /\ upload[c] \in Upload /\ upload[c].tenant \in {None} \cup Tenants
  BY DEF PreviewTypeOK, Device, Upload
<1>2. CASE Accept(c)
  <2>1. upload' \in [Captures -> Upload]
    BY <1>0, <1>1, <1>2, Going DEF Accept, PreviewTypeOK
  <2> QED
    BY <1>2, <2>1 DEF Accept, PreviewTypeOK, serverVars, pageVars
<1>9. CASE Refuse(c)
  <2>1. upload' \in [Captures -> Upload]
    BY <1>0, <1>9, Restaged DEF Refuse, PreviewTypeOK
  <2>2. events' \in Seq(Event)
    BY <1>0, <1>9, Reported DEF Refuse, Outcomes
  <2> QED
    BY <1>9, <2>1, <2>2 DEF Refuse, PreviewTypeOK, serverVars, pageVars
<1>3. CASE Store(c)
  <2>1. upload' \in [Captures -> Upload]
    BY <1>0, <1>3, Restaged DEF Store, PreviewTypeOK
  <2> QED
    BY <1>3, <2>1 DEF Store, PreviewTypeOK, pageVars
<1>4. CASE MovePointer(c)
  <2>1. CASE device.tenant = upload[c].tenant
    <3>1. /\ device' = Points(device, c, now)
          /\ upload' = [upload EXCEPT ![c] = Goes(upload[c], "moved", upload[c].tenant, Replaced(c))]
          /\ UNCHANGED <<now, item, told, write, files, orphaned, events, pageVars, mishaps>>
      BY <1>4, <2>1, Zenon DEF MovePointer
    <3>2. device' \in Device
      BY <3>1, Pointed DEF PreviewTypeOK
    <3>3. upload' \in [Captures -> Upload]
      <4>1. Replaced(c) \in {None} \cup Captures
        BY <1>1 DEF Replaced
      <4>2. Goes(upload[c], "moved", upload[c].tenant, Replaced(c)) \in Upload
        BY <1>0, <1>1, <4>1, Going
      <4> QED
        BY <3>1, <4>2 DEF PreviewTypeOK
    <3> QED
      BY <3>1, <3>2, <3>3 DEF PreviewTypeOK, pageVars
  <2>2. CASE device.tenant # upload[c].tenant
    <3>1. /\ upload' = [upload EXCEPT ![c].stage = "done"]
          /\ Result(c, "failed") /\ files' = Discard(c)
          /\ UNCHANGED <<now, item, told, write, device, orphaned, pageVars, mishaps>>
      BY <1>4, <2>2, Zenon DEF MovePointer
    <3>2. upload' \in [Captures -> Upload]
      BY <1>0, <3>1, Restaged DEF PreviewTypeOK
    <3>3. events' \in Seq(Event)
      BY <1>0, <3>1, Reported
    <3> QED
      BY <3>1, <3>2, <3>3 DEF PreviewTypeOK, pageVars, Discard
  <2> QED
    BY <2>1, <2>2
<1>5. CASE RemoveOld(c)
  <2>1. upload' \in [Captures -> Upload]
    BY <1>0, <1>1, <1>5, Going DEF RemoveOld, PreviewTypeOK
  <2>2. events' \in Seq(Event)
    <3>1. [type |-> "preview"] \in Event
      BY DEF Event
    <3> QED
      BY <1>5, <3>1, Emitted DEF RemoveOld
  <2>3. mishaps' \in [Risks -> Nat]
    BY <1>0, <1>5, Mishaps DEF RemoveOld
  <2>4. files' \subseteq Captures /\ orphaned' \in BOOLEAN
    BY <1>5 DEF RemoveOld, PreviewTypeOK
  <2> QED
    BY <1>5, <2>1, <2>2, <2>3, <2>4 DEF RemoveOld, PreviewTypeOK, pageVars, Risks
<1>6. CASE PointerFails(c)
  <2>1. upload' \in [Captures -> Upload]
    BY <1>0, <1>6, Restaged DEF PointerFails, PreviewTypeOK
  <2>2. events' \in Seq(Event) /\ mishaps' \in [Risks -> Nat]
    BY <1>0, <1>6, Reported, Mishaps DEF PointerFails
  <2> QED
    BY <1>6, <2>1, <2>2 DEF PointerFails, PreviewTypeOK, pageVars, Risks
<1> QED
  BY <1>2, <1>3, <1>4, <1>5, <1>6, <1>9 DEF BackendStep

\* What a restart makes of an upload.
Broken(u) ==
    IF u.stage \in {"accepted", "stored", "moved"} THEN Goes(u, "broken", u.tenant, None) ELSE u

LEMMA Breaking ==
    ASSUME NEW u \in Upload
    PROVE  /\ Broken(u) \in Upload /\ Broken(u).tenant = u.tenant
           /\ Broken(u).stage \notin {"accepted", "stored", "moved"}
           /\ Broken(u).stage \in {"broken", u.stage}
<1>1. u.tenant \in {None} \cup Tenants /\ "broken" \in Stages /\ None \in {None} \cup Captures
  BY DEF Upload, Stages
<1>2. CASE u.stage \in {"accepted", "stored", "moved"}
  BY <1>1, <1>2, Going DEF Broken
<1>3. CASE u.stage \notin {"accepted", "stored", "moved"}
  BY <1>3 DEF Broken
<1> QED
  BY <1>2, <1>3

LEMMA Restarting ==
    ASSUME PreviewTypeOK, Crash
    PROVE  \A c \in Captures : upload'[c] = Broken(upload[c])
BY DEF Crash, Broken

LEMMA OddTypes == ASSUME PreviewTypeOK, Crash \/ ChangeTenant PROVE PreviewTypeOK'
<1>0. "crash" \in Risks /\ "move" \in Risks
  BY DEF Risks
<1>1. CASE Crash
  <2>1. upload' \in [Captures -> Upload]
    <3>1. \A c \in Captures : Broken(upload[c]) \in Upload
      BY Breaking DEF PreviewTypeOK
    <3>2. upload' = [c \in Captures |-> upload'[c]]
      BY <1>1 DEF Crash
    <3> QED
      BY <1>1, <3>1, <3>2, Restarting
  <2>2. mishaps' \in [Risks -> Nat]
    BY <1>0, <1>1, Mishaps DEF Crash
  <2>3. told' = None /\ write' \in {None, write} /\ orphaned' \in BOOLEAN
    BY <1>1 DEF Crash, PreviewTypeOK
  <2> QED
    BY <1>1, <2>1, <2>2, <2>3 DEF Crash, PreviewTypeOK, pageVars, Risks
<1>2. CASE ChangeTenant
  <2>1. device' \in Device
    <3>1. PICK t \in Tenants : device' = Plays([device EXCEPT !.tenant = t], 0, 0)
      BY <1>2 DEF ChangeTenant
    <3>2. [device EXCEPT !.tenant = t] \in Device
      BY DEF PreviewTypeOK, Device
    <3> QED
      BY <3>1, <3>2, PlaysType
  <2>2. mishaps' \in [Risks -> Nat]
    BY <1>0, <1>2, Mishaps DEF ChangeTenant
  <2>3. orphaned' \in BOOLEAN
    BY <1>2 DEF ChangeTenant, PreviewTypeOK
  <2> QED
    BY <1>2, <2>1, <2>2, <2>3 DEF ChangeTenant, PreviewTypeOK, pageVars, Risks
<1> QED
  BY <1>1, <1>2


LEMMA ReceiveTypes == ASSUME PreviewTypeOK, Receive PROVE PreviewTypeOK'
<1> DEFINE e == Head(events)
<1>1. events' \in Seq(Event) /\ e \in Event
  BY Received DEF Receive
<1>2. page \in Page /\ Image \in {None} \cup Nat
  BY ImageType DEF PreviewTypeOK
<1>3. page' \in Page /\ autos' \in [Captures -> {None} \cup Keys] /\ deadline' \subseteq Captures
  <2>1. CASE e.type = "playback"
    <3>1. Key(e.media, e.started) \in Keys
      BY <1>1, <2>1, KeyType DEF Event
    <3>2. page' = Scheduled([page EXCEPT !.row = Key(e.media, e.started)], Key(e.media, e.started))
          /\ UNCHANGED <<autos, deadline>>
      BY <2>1, Zenon DEF Receive
    <3> QED
      BY <1>2, <3>1, <3>2, PageEdits DEF PreviewTypeOK
  <2>2. CASE e.type = "preview"
    <3>1. page' = [page EXCEPT !.shot = Image] /\ UNCHANGED <<autos, deadline>>
      BY <2>2 DEF Receive
    <3> QED
      BY <1>2, <3>1, PageShows DEF PreviewTypeOK
  <2>3. CASE e.type = "ack"
    <3>1. e.capture \in Captures
      BY <1>1, <2>3 DEF Event
    <3>2. /\ autos' = [autos EXCEPT ![e.capture] = None]
          /\ deadline' = deadline \ {e.capture}
          /\ \/ page' = [page EXCEPT !.shot = Image]
             \/ autos[e.capture] # None /\ page' = GivenUp(page, autos[e.capture])
             \/ page' = page
      BY <2>3 DEF Receive
    <3>3. autos[e.capture] # None => autos[e.capture] \in Keys
      BY <3>1 DEF PreviewTypeOK
    <3>4. page' \in Page
      BY <1>2, <3>2, <3>3, PageShows, PageEdits
    <3> QED
      BY <3>1, <3>2, <3>4 DEF PreviewTypeOK
  <2> QED
    BY <1>1, <2>1, <2>2, <2>3 DEF Event
<1>4. UNCHANGED <<now, item, serverVars, upload, asked, load, mishaps>>
  BY DEF Receive
<1> QED
  BY <1>1, <1>3, <1>4 DEF PreviewTypeOK, serverVars

LEMMA DispatchTypes == ASSUME PreviewTypeOK, Dispatch PROVE PreviewTypeOK'
<1>1. page.settle \in Keys /\ page \in Page
  BY DEF PreviewTypeOK, Dispatch, Page
<1>2. PICK c \in Captures :
         /\ autos' = [autos EXCEPT ![c] = page.settle]
         /\ asked' = [asked EXCEPT ![c] = page.settle]
         /\ \/ upload' = [upload EXCEPT ![c] = [Idle EXCEPT !.stage = "queued"]] /\ UNCHANGED mishaps
            \/ upload' = [upload EXCEPT ![c] = [Idle EXCEPT !.stage = "refused"]] /\ Mishap("fail")
  BY DEF Dispatch
<1>3. autos' \in [Captures -> {None} \cup Keys] /\ asked' \in [Captures -> {None} \cup Keys]
  BY <1>1, <1>2 DEF PreviewTypeOK
<1>4. upload' \in [Captures -> Upload]
  <2>1. "queued" \in Stages /\ "refused" \in Stages
    BY DEF Stages
  <2> QED
    BY <1>2, <2>1, Asked DEF PreviewTypeOK
<1>5. mishaps' \in [Risks -> Nat]
  <2>1. "fail" \in Risks
    BY DEF Risks
  <2> QED
    BY <1>2, <2>1, Mishaps
<1>6. page' \in Page
  BY <1>1, PageEdits DEF Dispatch
<1> QED
  BY <1>3, <1>4, <1>5, <1>6 DEF Dispatch, PreviewTypeOK, serverVars, Risks

LEMMA AnswerTypes ==
    ASSUME PreviewTypeOK, NEW c \in Captures, Dispatched(c) \/ GiveUp(c)
    PROVE  PreviewTypeOK'
<1>1. "fail" \in Risks /\ page \in Page
  BY DEF Risks, PreviewTypeOK
<1>2. /\ asked[c] # None => asked[c] \in Keys
      /\ autos[c] # None => autos[c] \in Keys
  BY DEF PreviewTypeOK
<1>3. Mishap("fail") \/ UNCHANGED mishaps
  BY DEF Dispatched, GiveUp
<1>4. mishaps' \in [Risks -> Nat]
  BY <1>1, <1>3, Mishaps
<1>5. CASE Dispatched(c)
  <2>1. page' \in Page
    BY <1>1, <1>2, <1>5, PageEdits DEF Dispatched, Unasked
  <2>2. autos' \in [Captures -> {None} \cup Keys] /\ asked' \in [Captures -> {None} \cup Keys]
    BY <1>5 DEF Dispatched, PreviewTypeOK
  <2>3. deadline' \subseteq Captures
    BY <1>5 DEF Dispatched, PreviewTypeOK
  <2> QED
    BY <1>4, <1>5, <2>1, <2>2, <2>3 DEF Dispatched, PreviewTypeOK, serverVars, Risks
<1>6. CASE GiveUp(c)
  <2>1. page' \in Page
    BY <1>1, <1>2, <1>6, PageEdits DEF GiveUp
  <2>2. autos' \in [Captures -> {None} \cup Keys] /\ deadline' \subseteq Captures
    BY <1>6 DEF GiveUp, PreviewTypeOK
  <2> QED
    BY <1>4, <1>6, <2>1, <2>2 DEF GiveUp, PreviewTypeOK, serverVars, Risks
<1> QED
  BY <1>5, <1>6

LEMMA LoadType ==
    ASSUME PreviewTypeOK, NEW d \in Device
    PROVE  Loaded(d) \in Page
<1>1. Key(d.media, d.started) \in Keys
  BY KeyType DEF Device
<1>2. PICK k : k = Key(d.media, d.started)
  OBVIOUS
<1>3. PICK p : p = [page EXCEPT !.row = k]
  OBVIOUS
<1>4. p \in Page
  BY <1>1, <1>2, <1>3, PageEdits DEF PreviewTypeOK
<1>5. PICK image : image = Image
  OBVIOUS
<1>6. ASSUME NEW shot \in {None} \cup Nat, NEW key \in Keys
      PROVE  [p EXCEPT !.shot = shot, !.key = key] \in Page
  BY <1>4, <1>6 DEF Page
<1>7. Loaded(d) = IF Fresh(d) THEN [p EXCEPT !.shot = image, !.key = k]
                  ELSE Scheduled([p EXCEPT !.shot = None], k)
  BY <1>2, <1>3, <1>5, Zenon DEF Loaded
<1>8. [p EXCEPT !.shot = None] \in Page
  BY <1>4, PageShows
<1>9. Scheduled([p EXCEPT !.shot = None], k) \in Page
  BY <1>1, <1>2, <1>8, PageEdits
<1>10. [p EXCEPT !.shot = image, !.key = k] \in Page
  BY <1>1, <1>2, <1>5, <1>6, ImageType
<1> QED
  BY <1>7, <1>9, <1>10

LEMMA ViewTypes ==
    ASSUME PreviewTypeOK, Lose \/ Poll \/ Load \/ Hide \/ Show
    PROVE  PreviewTypeOK'
<1>1. {"lost", "hide"} \subseteq Risks /\ page \in Page
  BY DEF Risks, PreviewTypeOK
<1>2. CASE Lose
  <2>1. events' \in Seq(Event) /\ mishaps' \in [Risks -> Nat]
    BY <1>1, <1>2, Received, Mishaps DEF Lose
  <2> QED
    BY <1>2, <2>1 DEF Lose, PreviewTypeOK, serverVars, pageVars, Risks
<1>3. CASE Poll
  BY <1>3 DEF Poll, PreviewTypeOK, serverVars
<1>4. CASE Load
  <2>1. page' \in Page
    BY <1>4, LoadType DEF Load, PreviewTypeOK
  <2> QED
    BY <1>4, <2>1 DEF Load, PreviewTypeOK, serverVars
<1>5. CASE Hide
  <2>1. page' \in Page /\ mishaps' \in [Risks -> Nat]
    BY <1>1, <1>5, PageHides, Mishaps DEF Hide
  <2> QED
    BY <1>5, <2>1 DEF Hide, PreviewTypeOK, serverVars, Risks
<1>6. CASE Show
  <2>1. page' \in Page
    BY <1>1, <1>6, PageHides DEF Show
  <2> QED
    BY <1>6, <2>1 DEF Show, PreviewTypeOK, serverVars
<1> QED
  BY <1>2, <1>3, <1>4, <1>5, <1>6

LEMMA PreviewInitTypes == PreviewInit => PreviewTypeOK
<1> SUFFICES ASSUME PreviewInit PROVE PreviewTypeOK
  OBVIOUS
<1>1. device \in Device
  <2>1. FirstTenant \in Tenants
    BY PreviewAssumption DEF FirstTenant
  <2> QED
    BY <2>1 DEF PreviewInit, Device
<1>2. upload \in [Captures -> Upload]
  BY DEF PreviewInit, Idle, Upload, Stages
<1>3. page \in Page /\ item \in Item
  BY DEF PreviewInit, Page, Item, Keys, Key
<1>4. mishaps \in [Risks -> Nat]
  BY PreviewAssumption DEF PreviewInit, Risks
<1>5. events \in Seq(Event)
  BY DEF PreviewInit
<1> QED
  BY <1>1, <1>2, <1>3, <1>4, <1>5 DEF PreviewInit, PreviewTypeOK, Risks

LEMMA PreviewNextTypes == PreviewTypeOK /\ [PreviewNext]_previewVars => PreviewTypeOK'
<1> SUFFICES ASSUME PreviewTypeOK, [PreviewNext]_previewVars PROVE PreviewTypeOK'
  OBVIOUS
<1>1. CASE UNCHANGED previewVars
  BY <1>1 DEF previewVars, PreviewTypeOK
<1>2. CASE PreviewNext
  BY <1>2, PlayTypes, OddTypes, ReceiveTypes, DispatchTypes, ViewTypes, PlayerTypes, BackendTypes, AnswerTypes
  DEF PreviewNext, PageStep
<1> QED
  BY <1>1, <1>2

(***************************************************************************)
(* Types: whatever the order of uploads, events, answers and timers, the   *)
(* page, the device and the uploads keep their shape.                      *)
(***************************************************************************)
THEOREM PreviewTypes == PreviewSpec => []PreviewTypeOK
BY PreviewInitTypes, PreviewNextTypes, PTL DEF PreviewSpec


-----------------------------------------------------------------------------
(* The files of the uploads and the pointer *)

\* An upload before its file is published.
Unpublished == {"queued", "taken", "accepted", "stored"}
InHand(c) == upload[c].stage \in Unpublished
Moved == {c \in Captures : upload[c].stage = "moved"}

PointerIsPublished == \A c \in Captures : InHand(c) => c # device.file
StoredIsThere == \A c \in Captures : upload[c].stage = "stored" => c \in files

\* The file an upload is about to remove is there, no pointer and no other
\* upload names it, and its slot is not used again.
RemovesItsOwn ==
    \A c \in Moved :
        /\ device.file # None
        /\ upload[c].old # None =>
             /\ upload[c].old \in files \ {device.file, c}
             /\ ~InHand(upload[c].old)
             /\ \A d \in Moved : upload[d].old = upload[c].old => d = c

\* Every file belongs to an upload under way, to the pointer, or to an upload
\* that will remove it.
Accounted ==
    ~orphaned =>
        /\ \A f \in files : \/ upload[f].stage = "stored"
                            \/ f = device.file
                            \/ \E c \in Moved : f \in Superseded(c)
        /\ device.file # None => upload[device.file].tenant = device.tenant
        /\ \A c \in Moved : upload[c].tenant = device.tenant

ImagesInv == PointerNamesFile /\ PointerIsPublished /\ StoredIsThere /\ RemovesItsOwn /\ Accounted

LEMMA InitImages == PreviewInit => ImagesInv
BY DEF PreviewInit, ImagesInv, PointerNamesFile, PointerIsPublished, StoredIsThere, RemovesItsOwn,
       Accounted, Moved, InHand, Unpublished, Idle

\* Whatever leaves the uploads, the files and the pointer alone.
LEMMA SameImages ==
    ASSUME ImagesInv, UNCHANGED <<upload, files, orphaned>>,
           device'.file = device.file, device'.tenant = device.tenant
    PROVE  ImagesInv'
BY DEF ImagesInv, PointerNamesFile, PointerIsPublished, StoredIsThere, RemovesItsOwn,
       Accounted, Moved, InHand, Superseded

\* One upload goes on, without a file that is published or removed.
LEMMA StageImages ==
    ASSUME PreviewTypeOK, ImagesInv, NEW c \in Captures,
           UNCHANGED <<device, files, orphaned>>,
           \A d \in Captures \ {c} : upload'[d] = upload[d],
           upload[c].stage \notin {"stored", "moved"}, upload'[c].stage \notin {"stored", "moved"},
           \/ c # device.file /\ \A d \in Moved : upload[d].old # c
           \/ upload'[c].tenant = upload[c].tenant /\ upload'[c].stage \notin Unpublished
    PROVE  ImagesInv'
<1>1. Moved' = Moved /\ c \notin Moved
  BY DEF Moved
<1>2. \A d \in Moved : upload'[d] = upload[d]
  BY <1>1 DEF Moved
<1>3. PointerNamesFile' /\ PointerIsPublished'
  BY DEF ImagesInv, PointerNamesFile, PointerIsPublished, InHand
<1>4. StoredIsThere'
  BY DEF ImagesInv, StoredIsThere
<1>5. RemovesItsOwn'
  <2> SUFFICES ASSUME NEW d \in Moved, upload[d].old # None
               PROVE  ~InHand(upload[d].old)'
    BY <1>1, <1>2 DEF ImagesInv, RemovesItsOwn
  <2>1. upload[d].old \in Captures /\ ~InHand(upload[d].old)
    BY DEF ImagesInv, RemovesItsOwn, PreviewTypeOK
  <2> QED
    BY <1>2, <2>1 DEF InHand
<1>6. Accounted'
  <2> SUFFICES ASSUME ~orphaned
               PROVE  /\ \A f \in files : \/ upload'[f].stage = "stored"
                                          \/ f = device.file
                                          \/ \E d \in Moved : f \in Superseded(d)'
                      /\ device.file # None => upload'[device.file].tenant = device.tenant
                      /\ \A d \in Moved : upload'[d].tenant = device.tenant
    BY <1>1 DEF Accounted
  <2>1. \A d \in Moved : upload'[d].tenant = device.tenant
    BY <1>2 DEF ImagesInv, Accounted
  <2>2. device.file # None => upload'[device.file].tenant = device.tenant
    BY DEF ImagesInv, Accounted, PointerNamesFile, PreviewTypeOK
  <2>3. \A d \in Moved : Superseded(d) \subseteq Superseded(d)'
    <3> SUFFICES ASSUME NEW d \in Moved, NEW f \in Superseded(d)
                 PROVE  f \in Superseded(d)'
      OBVIOUS
    <3>1. f = upload[d].old /\ f \notin {None, d} /\ upload[f].tenant = upload[d].tenant
      BY DEF Superseded
    <3>2. f \in Captures
      BY <3>1 DEF ImagesInv, RemovesItsOwn, PreviewTypeOK
    <3>3. upload'[f].tenant = upload[f].tenant
      BY <3>1, <3>2
    <3> QED
      BY <1>2, <3>1, <3>3 DEF Superseded
  <2>4. ASSUME NEW f \in files
        PROVE  \/ upload'[f].stage = "stored"
               \/ f = device.file
               \/ \E d \in Moved : f \in Superseded(d)'
    <3>1. \/ upload[f].stage = "stored"
          \/ f = device.file
          \/ \E d \in Moved : f \in Superseded(d)
      BY <2>4 DEF ImagesInv, Accounted
    <3>2. f \in Captures
      BY <2>4 DEF PreviewTypeOK
    <3> QED
      BY <2>3, <3>1, <3>2
  <2> QED
    BY <2>1, <2>2, <2>4
<1> QED
  BY <1>3, <1>4, <1>5, <1>6 DEF ImagesInv


LEMMA InHandIsUnnamed ==
    ASSUME ImagesInv, NEW c \in Captures, InHand(c)
    PROVE  c # device.file /\ \A d \in Moved : upload[d].old # c
<1>1. c # None
  BY PreviewAssumption
<1> QED
  BY <1>1 DEF ImagesInv, PointerIsPublished, RemovesItsOwn

LEMMA PlayerImages ==
    ASSUME PreviewTypeOK, ImagesInv, NEW c \in Captures, PlayerStep(c)
    PROVE  ImagesInv'
<1>0. upload \in [Captures -> Upload] /\ item.id \in Nat /\ "done" \in Stages
  BY DEF PreviewTypeOK, Item, Stages
<1>1. UNCHANGED <<device, files, orphaned>> /\ device.tenant \in Tenants
  BY DEF PlayerStep, Capture, Report, ReportBroken, serverVars, PreviewTypeOK, Device
<1>2. ASSUME upload[c].stage = "queued",
             \/ upload' = [upload EXCEPT ![c] = [Idle EXCEPT !.stage = "taken", !.item = item.id, !.tenant = device.tenant]]
             \/ upload' = [upload EXCEPT ![c].stage = "done"]
      PROVE  ImagesInv'
  <2>1. c # device.file /\ \A d \in Moved : upload[d].old # c
    BY <1>2, InHandIsUnnamed DEF InHand, Unpublished
  <2>2. upload'[c].stage \in {"taken", "done"} /\ \A d \in Captures \ {c} : upload'[d] = upload[d]
    <3>1. CASE upload' = [upload EXCEPT ![c] = [Idle EXCEPT !.stage = "taken", !.item = item.id, !.tenant = device.tenant]]
      <4>1. PICK u : u = [Idle EXCEPT !.stage = "taken", !.item = item.id, !.tenant = device.tenant]
        OBVIOUS
      <4>2. upload' = [upload EXCEPT ![c] = u] /\ u.stage = "taken"
        BY <1>0, <1>1, <3>1, <4>1, Taken
      <4> QED
        BY <1>0, <4>2
    <3>2. CASE upload' = [upload EXCEPT ![c].stage = "done"]
      BY <1>0, <3>2, Restaged
    <3> QED
      BY <1>2, <3>1, <3>2
  <2> QED
    BY <1>1, <1>2, <2>1, <2>2, StageImages
<1>3. ASSUME upload[c].stage \in {"answered", "broken"}, upload' = [upload EXCEPT ![c].stage = "done"]
      PROVE  ImagesInv'
  <2>1. /\ upload'[c].stage = "done" /\ upload'[c].tenant = upload[c].tenant
        /\ \A d \in Captures \ {c} : upload'[d] = upload[d]
    BY <1>0, <1>3, Restaged
  <2> QED
    BY <1>1, <1>3, <2>1, StageImages DEF Unpublished
<1> QED
  BY <1>2, <1>3 DEF PlayerStep, Capture, Report, ReportBroken

LEMMA AcceptImages ==
    ASSUME PreviewTypeOK, ImagesInv, NEW c \in Captures, Accept(c)
    PROVE  ImagesInv'
<1>1. c # device.file /\ \A d \in Moved : upload[d].old # c
  BY InHandIsUnnamed DEF InHand, Unpublished, Accept
<1>2. /\ upload[c] \in Upload /\ device.tenant \in {None} \cup Tenants
      /\ device.file \in {None} \cup Captures /\ "accepted" \in Stages
  BY DEF PreviewTypeOK, Device, Stages
<1>3. upload'[c].stage = "accepted" /\ \A d \in Captures \ {c} : upload'[d] = upload[d]
  <2>1. PICK u : u = Goes(upload[c], "accepted", device.tenant, device.file)
    OBVIOUS
  <2>2. u.stage = "accepted"
    BY <1>2, <2>1, Going
  <2>3. upload' = [upload EXCEPT ![c] = u]
    BY <2>1, Zenon DEF Accept
  <2> QED
    BY <2>2, <2>3 DEF PreviewTypeOK
<1> QED
  BY <1>1, <1>3, StageImages DEF Accept, serverVars

LEMMA RefuseImages ==
    ASSUME PreviewTypeOK, ImagesInv, NEW c \in Captures, Refuse(c)
    PROVE  ImagesInv'
<1>1. c # device.file /\ \A d \in Moved : upload[d].old # c
  BY InHandIsUnnamed DEF InHand, Unpublished, Refuse
<1>2. upload'[c].stage = "done" /\ \A d \in Captures \ {c} : upload'[d] = upload[d]
  <2>1. "done" \in Stages
    BY DEF Stages
  <2> QED
    BY <2>1, Restaged DEF Refuse, PreviewTypeOK
<1> QED
  BY <1>1, <1>2, StageImages DEF Refuse, serverVars

LEMMA DispatchImages == ASSUME PreviewTypeOK, ImagesInv, Dispatch PROVE ImagesInv'
<1>1. PICK c \in Captures :
         /\ Free(c)
         /\ \/ upload' = [upload EXCEPT ![c] = [Idle EXCEPT !.stage = "queued"]]
            \/ upload' = [upload EXCEPT ![c] = [Idle EXCEPT !.stage = "refused"]]
  BY DEF Dispatch
<1>2. c # device.file /\ \A d \in Moved : upload[d].old # c
  <2>1. c \notin files /\ c # device.file /\ c # None
    BY <1>1, PreviewAssumption DEF Free
  <2> QED
    BY <2>1 DEF ImagesInv, RemovesItsOwn
<1>3. upload'[c].stage \in {"queued", "refused"} /\ \A d \in Captures \ {c} : upload'[d] = upload[d]
  <2>1. "queued" \in Stages /\ "refused" \in Stages
    BY DEF Stages
  <2> QED
    BY <1>1, <2>1, Asked DEF PreviewTypeOK
<1>4. upload[c].stage \notin {"stored", "moved"}
  BY <1>1 DEF Free
<1> QED
  BY <1>2, <1>3, <1>4, StageImages DEF Dispatch, serverVars

LEMMA StoreImages ==
    ASSUME PreviewTypeOK, ImagesInv, NEW c \in Captures, Store(c)
    PROVE  ImagesInv'
<1>1. /\ upload'[c].stage = "stored" /\ upload'[c].tenant = upload[c].tenant
      /\ \A d \in Captures \ {c} : upload'[d] = upload[d]
  <2>1. "stored" \in Stages
    BY DEF Stages
  <2> QED
    BY <2>1, Restaged DEF Store, PreviewTypeOK
<1>2. c # device.file /\ \A d \in Moved : upload[d].old # c
  BY InHandIsUnnamed DEF InHand, Unpublished, Store
<1>3. /\ upload[c].stage = "accepted" /\ files' = files \cup {c} /\ UNCHANGED <<device, orphaned>>
  BY DEF Store
<1>4. Moved' = Moved /\ c \notin Moved
  BY <1>1, <1>3 DEF Moved
<1>5. PointerNamesFile'
  BY <1>3 DEF ImagesInv, PointerNamesFile
<1>6. PointerIsPublished'
  BY <1>1, <1>2, <1>3 DEF ImagesInv, PointerIsPublished, InHand
<1>7. StoredIsThere'
  BY <1>1, <1>3 DEF ImagesInv, StoredIsThere
<1>8. RemovesItsOwn'
  <2> SUFFICES ASSUME NEW d \in Moved, upload[d].old # None
               PROVE  ~InHand(upload[d].old)'
    BY <1>1, <1>3, <1>4 DEF ImagesInv, RemovesItsOwn, Moved
  <2>1. upload[d].old \in Captures \ {c} /\ ~InHand(upload[d].old)
    BY <1>2 DEF ImagesInv, RemovesItsOwn, PreviewTypeOK
  <2>2. upload'[d] = upload[d]
    BY <1>1, <1>4 DEF Moved
  <2> QED
    BY <1>1, <2>1, <2>2 DEF InHand
<1>9. Accounted'
  <2> SUFFICES ASSUME ~orphaned
               PROVE  /\ \A f \in files : \/ upload'[f].stage = "stored"
                                          \/ f = device.file
                                          \/ \E d \in Moved : f \in Superseded(d)'
                      /\ device.file # None => upload'[device.file].tenant = device.tenant
                      /\ \A d \in Moved : upload'[d].tenant = device.tenant
    BY <1>1, <1>3, <1>4 DEF Accounted
  <2>1. /\ device.file # None => upload'[device.file].tenant = device.tenant
        /\ \A d \in Moved : upload'[d].tenant = device.tenant
    BY <1>1, <1>4 DEF ImagesInv, Accounted, PointerNamesFile, PreviewTypeOK, Moved
  <2>2. ASSUME NEW d \in Moved, NEW f \in Superseded(d)
        PROVE  f \in Superseded(d)'
    <3>1. f = upload[d].old /\ f \notin {None, d} /\ upload[f].tenant = upload[d].tenant
      BY <2>2 DEF Superseded
    <3>2. f \in Captures
      BY <3>1 DEF ImagesInv, RemovesItsOwn, PreviewTypeOK
    <3>3. upload'[f].tenant = upload[f].tenant /\ upload'[d] = upload[d]
      BY <1>1, <1>4, <3>2 DEF Moved
    <3> QED
      BY <3>1, <3>3 DEF Superseded
  <2>3. ASSUME NEW f \in files
        PROVE  \/ upload'[f].stage = "stored"
               \/ f = device.file
               \/ \E d \in Moved : f \in Superseded(d)'
    <3>1. \/ upload[f].stage = "stored"
          \/ f = device.file
          \/ \E d \in Moved : f \in Superseded(d)
      BY <2>3 DEF ImagesInv, Accounted
    <3>2. f \in Captures
      BY <2>3 DEF PreviewTypeOK
    <3> QED
      BY <1>1, <2>2, <3>1, <3>2
  <2> QED
    BY <2>1, <2>3
<1> QED
  BY <1>5, <1>6, <1>7, <1>8, <1>9 DEF ImagesInv


\* What the other uploads will remove.
LEMMA StillSuperseded ==
    ASSUME PreviewTypeOK, ImagesInv, NEW c \in Captures, NEW d \in Moved \ {c},
           \A e \in Captures \ {c} : upload'[e] = upload[e],
           upload'[c].tenant = upload[c].tenant,
           NEW f \in Superseded(d)
    PROVE  f \in Superseded(d)'
<1>1. f = upload[d].old /\ f \notin {None, d} /\ upload[f].tenant = upload[d].tenant
  BY DEF Superseded
<1>2. f \in Captures
  BY <1>1 DEF ImagesInv, RemovesItsOwn, PreviewTypeOK
<1>3. upload'[f].tenant = upload[f].tenant /\ upload'[d] = upload[d]
  BY <1>2 DEF Moved
<1> QED
  BY <1>1, <1>3 DEF Superseded

LEMMA PublishImages ==
    ASSUME PreviewTypeOK, ImagesInv, NEW c \in Captures, MovePointer(c), device.tenant = upload[c].tenant
    PROVE  ImagesInv'
<1>1. /\ device' = Points(device, c, now)
      /\ upload' = [upload EXCEPT ![c] = Goes(upload[c], "moved", upload[c].tenant, Replaced(c))]
      /\ UNCHANGED <<files, orphaned>>
  BY Zenon DEF MovePointer
<1>2. device'.file = c /\ device'.tenant = device.tenant
  <2>1. device \in Device /\ now \in Nat
    BY DEF PreviewTypeOK
  <2>2. Points(device, c, now).file = c /\ Points(device, c, now).tenant = device.tenant
    BY <2>1, Pointed
  <2> QED
    BY <1>1, <2>2, Zenon
<1>3. /\ upload'[c].stage = "moved" /\ upload'[c].tenant = upload[c].tenant
      /\ upload'[c].old = device.file
      /\ \A d \in Captures \ {c} : upload'[d] = upload[d]
  <2>1. PICK u \in Upload, tenant \in {None} \cup Tenants, old \in {None} \cup Captures :
           u = upload[c] /\ tenant = upload[c].tenant /\ old = device.file
    BY DEF PreviewTypeOK, Device, Upload
  <2>2. /\ Goes(u, "moved", tenant, old).stage = "moved"
        /\ Goes(u, "moved", tenant, old).tenant = tenant
        /\ Goes(u, "moved", tenant, old).old = old
    <3>1. "moved" \in Stages
      BY DEF Stages
    <3> QED
      BY <3>1, Going
  <2>3. PICK v : v = Goes(u, "moved", tenant, old)
    OBVIOUS
  <2>4. upload' = [upload EXCEPT ![c] = v]
    <3>1. Replaced(c) = device.file
      BY DEF Replaced
    <3>2. Goes(upload[c], "moved", upload[c].tenant, Replaced(c)) = v
      BY <2>1, <2>3, <3>1
    <3> QED
      BY <1>1, <3>2
  <2> QED
    BY <2>1, <2>2, <2>3, <2>4 DEF PreviewTypeOK
<1>4. /\ upload[c].stage = "stored" /\ c \in files /\ c # None
      /\ c # device.file /\ \A d \in Moved : upload[d].old # c
  <2>1. upload[c].stage = "stored"
    BY DEF MovePointer
  <2> QED
    BY <2>1, InHandIsUnnamed, PreviewAssumption DEF InHand, Unpublished, ImagesInv, StoredIsThere
<1>5. Moved' = Moved \cup {c} /\ c \notin Moved
  BY <1>3, <1>4 DEF Moved
<1>6. PointerNamesFile'
  BY <1>1, <1>2, <1>4 DEF PointerNamesFile
<1>7. PointerIsPublished'
  BY <1>2, <1>3 DEF PointerIsPublished, InHand, Unpublished
<1>8. StoredIsThere'
  BY <1>1, <1>3 DEF ImagesInv, StoredIsThere
<1>9. RemovesItsOwn'
  <2>1. \A d \in Moved : upload'[d] = upload[d] /\ upload[d].old # device.file /\ d \in Captures
    <3>1. \A d \in Moved : upload'[d] = upload[d] /\ d \in Captures
      BY <1>3, <1>5 DEF Moved
    <3>2. \A d \in Moved : upload[d].old # device.file
      BY DEF ImagesInv, RemovesItsOwn
    <3> QED
      BY <3>1, <3>2
  <2>2. \A f \in Captures : ~InHand(f) => ~InHand(f)'
    BY <1>3 DEF InHand, Unpublished
  <2>3. ASSUME NEW d \in Moved, upload'[d].old # None
        PROVE  /\ upload'[d].old \in files' \ {device'.file, d}
               /\ ~InHand(upload[d].old)'
               /\ \A e \in Moved' : upload'[e].old = upload'[d].old => e = d
    <3>1. /\ upload[d].old \in files \ {device.file, d} /\ ~InHand(upload[d].old)
          /\ \A e \in Moved : upload[e].old = upload[d].old => e = d
      BY <2>1, <2>3 DEF ImagesInv, RemovesItsOwn
    <3>2. upload[d].old \in Captures
      BY <3>1 DEF PreviewTypeOK
    <3>3. upload'[d] = upload[d]
      BY <2>1
    <3>4. ~InHand(upload[d].old)'
      BY <2>2, <3>1, <3>2, <3>3 DEF InHand
    <3>5. \A e \in Moved' : upload'[e].old = upload'[d].old => e = d
      BY <1>3, <1>5, <2>1, <3>1, <3>3
    <3> QED
      BY <1>1, <1>2, <1>4, <3>1, <3>3, <3>4, <3>5
  <2>4. ASSUME device.file # None
        PROVE  /\ device.file \in files' \ {device'.file, c}
               /\ ~InHand(upload[c].old)'
               /\ \A e \in Moved' : upload'[e].old = device.file => e = c
    <3>1. device.file \in files /\ device.file \in Captures
      BY <2>4 DEF ImagesInv, PointerNamesFile, PreviewTypeOK
    <3>2. ~InHand(device.file)
      BY <3>1 DEF ImagesInv, PointerIsPublished
    <3>3. upload'[device.file] = upload[device.file]
      BY <1>3, <1>4, <3>1
    <3>4. ~InHand(upload[c].old)'
      BY <1>3, <3>2, <3>3 DEF InHand
    <3>5. \A e \in Moved' : upload'[e].old = device.file => e = c
      BY <1>5, <2>1
    <3> QED
      BY <1>1, <1>2, <1>4, <3>1, <3>4, <3>5
  <2> QED
    BY <1>2, <1>3, <1>4, <1>5, <2>3, <2>4 DEF RemovesItsOwn
<1>10. Accounted'
  <2> SUFFICES ASSUME ~orphaned
               PROVE  /\ \A f \in files : \/ upload'[f].stage = "stored"
                                          \/ f = c
                                          \/ \E d \in Moved' : f \in Superseded(d)'
                      /\ upload'[c].tenant = device.tenant
                      /\ \A d \in Moved' : upload'[d].tenant = device.tenant
    BY <1>1, <1>2 DEF Accounted
  <2>1. \A d \in Moved' : upload'[d].tenant = device.tenant
    <3>1. ASSUME NEW d \in Moved PROVE upload'[d].tenant = device.tenant
      <4>1. upload[d].tenant = device.tenant
        BY DEF ImagesInv, Accounted
      <4>2. upload'[d] = upload[d]
        BY <1>3, <1>5 DEF Moved
      <4> QED
        BY <4>1, <4>2
    <3> QED
      BY <1>3, <1>5, <3>1
  <2>2. ASSUME NEW f \in files, f # c
        PROVE  \/ upload'[f].stage = "stored"
               \/ \E d \in Moved' : f \in Superseded(d)'
    <3>1. f \in Captures /\ upload'[f] = upload[f]
      BY <1>3, <2>2 DEF PreviewTypeOK
    <3>2. CASE upload[f].stage = "stored"
      BY <3>1, <3>2
    <3>3. CASE f = device.file
      <4>1. f # None
        BY <3>1, PreviewAssumption
      <4>2. upload'[f].tenant = upload'[c].tenant
        BY <1>3, <3>1, <3>3, <4>1 DEF ImagesInv, Accounted
      <4>3. f \in Superseded(c)'
        BY <1>3, <2>2, <3>3, <4>1, <4>2 DEF Superseded
      <4> QED
        BY <1>5, <4>3
    <3>4. CASE \E d \in Moved : f \in Superseded(d)
      <4>1. PICK d \in Moved : f \in Superseded(d)
        BY <3>4
      <4>2. f \in Superseded(d)'
        BY <1>3, <1>5, <4>1, StillSuperseded
      <4> QED
        BY <1>5, <4>2
    <3> QED
      BY <3>2, <3>3, <3>4 DEF ImagesInv, Accounted
  <2> QED
    BY <1>3, <2>1, <2>2
<1> QED
  BY <1>6, <1>7, <1>8, <1>9, <1>10 DEF ImagesInv


\* The device has changed hands: the new file is removed again.
LEMMA DropImages ==
    ASSUME PreviewTypeOK, ImagesInv, NEW c \in Captures, MovePointer(c), device.tenant # upload[c].tenant
    PROVE  ImagesInv'
<1>1. /\ upload' = [upload EXCEPT ![c].stage = "done"] /\ files' = files \ {c}
      /\ UNCHANGED <<device, orphaned>>
  BY Zenon DEF MovePointer, Discard
<1>2. /\ upload'[c].stage = "done" /\ upload'[c].tenant = upload[c].tenant
      /\ \A d \in Captures \ {c} : upload'[d] = upload[d]
  <2>1. "done" \in Stages
    BY DEF Stages
  <2> QED
    BY <1>1, <2>1, Restaged DEF PreviewTypeOK
<1>3. upload[c].stage = "stored" /\ c # device.file /\ \A d \in Moved : upload[d].old # c
  <2>1. upload[c].stage = "stored"
    BY DEF MovePointer
  <2> QED
    BY <2>1, InHandIsUnnamed DEF InHand, Unpublished
<1>4. Moved' = Moved /\ c \notin Moved
  BY <1>2, <1>3 DEF Moved
<1>5. PointerNamesFile' /\ PointerIsPublished' /\ StoredIsThere'
  BY <1>1, <1>2, <1>3 DEF ImagesInv, PointerNamesFile, PointerIsPublished, StoredIsThere, InHand, Unpublished
<1>6. RemovesItsOwn'
  <2>1. \A d \in Moved : upload'[d] = upload[d]
    BY <1>2, <1>4 DEF Moved
  <2> SUFFICES ASSUME NEW d \in Moved, upload[d].old # None
               PROVE  ~InHand(upload[d].old)'
    BY <1>1, <1>3, <1>4, <2>1 DEF ImagesInv, RemovesItsOwn
  <2>2. upload[d].old \in Captures \ {c} /\ ~InHand(upload[d].old)
    BY <1>3 DEF ImagesInv, RemovesItsOwn, PreviewTypeOK
  <2> QED
    BY <1>2, <2>1, <2>2 DEF InHand
<1>7. Accounted'
  <2> SUFFICES ASSUME ~orphaned
               PROVE  /\ \A f \in files \ {c} : \/ upload'[f].stage = "stored"
                                                \/ f = device.file
                                                \/ \E d \in Moved : f \in Superseded(d)'
                      /\ device.file # None => upload'[device.file].tenant = device.tenant
                      /\ \A d \in Moved : upload'[d].tenant = device.tenant
    BY <1>1, <1>4 DEF Accounted
  <2>1. /\ device.file # None => upload'[device.file].tenant = device.tenant
        /\ \A d \in Moved : upload'[d].tenant = device.tenant
    BY <1>2, <1>4 DEF ImagesInv, Accounted, PointerNamesFile, PreviewTypeOK, Moved
  <2>2. ASSUME NEW f \in files \ {c}
        PROVE  \/ upload'[f].stage = "stored"
               \/ f = device.file
               \/ \E d \in Moved : f \in Superseded(d)'
    <3>1. \/ upload[f].stage = "stored"
          \/ f = device.file
          \/ \E d \in Moved : f \in Superseded(d)
      BY <2>2 DEF ImagesInv, Accounted
    <3>2. upload'[f] = upload[f]
      BY <1>2, <2>2 DEF PreviewTypeOK
    <3>3. ASSUME NEW d \in Moved, f \in Superseded(d) PROVE f \in Superseded(d)'
      BY <1>2, <1>4, <3>3, StillSuperseded
    <3> QED
      BY <3>1, <3>2, <3>3
  <2> QED
    BY <2>1, <2>2
<1> QED
  BY <1>5, <1>6, <1>7 DEF ImagesInv

\* The file is orphaned, and no pointer names it.
LEMMA FailImages ==
    ASSUME PreviewTypeOK, ImagesInv, NEW c \in Captures, PointerFails(c)
    PROVE  ImagesInv'
<1>1. UNCHANGED <<device, files>> /\ orphaned' = TRUE /\ upload[c].stage = "stored"
  BY DEF PointerFails
<1>2. upload'[c].stage = "done" /\ \A d \in Captures \ {c} : upload'[d] = upload[d]
  <2>1. "done" \in Stages
    BY DEF Stages
  <2> QED
    BY <2>1, Restaged DEF PointerFails, PreviewTypeOK
<1>3. Moved' = Moved /\ c \notin Moved
  BY <1>1, <1>2 DEF Moved
<1>4. PointerNamesFile' /\ PointerIsPublished' /\ StoredIsThere' /\ Accounted'
  BY <1>1, <1>2 DEF ImagesInv, PointerNamesFile, PointerIsPublished, StoredIsThere, InHand, Unpublished, Accounted
<1>5. RemovesItsOwn'
  <2>1. \A d \in Moved : upload'[d] = upload[d]
    BY <1>2, <1>3 DEF Moved
  <2> SUFFICES ASSUME NEW d \in Moved, upload[d].old # None
               PROVE  ~InHand(upload[d].old)'
    BY <1>1, <1>3, <2>1 DEF ImagesInv, RemovesItsOwn
  <2>2. upload[d].old \in Captures /\ ~InHand(upload[d].old)
    BY DEF ImagesInv, RemovesItsOwn, PreviewTypeOK
  <2> QED
    BY <1>2, <2>1, <2>2 DEF InHand, Unpublished
<1> QED
  BY <1>4, <1>5 DEF ImagesInv

LEMMA RemoveImages ==
    ASSUME PreviewTypeOK, ImagesInv, NEW c \in Captures, RemoveOld(c)
    PROVE  ImagesInv'
<1>1. /\ upload[c].stage = "moved" /\ c \in Moved /\ UNCHANGED device
      /\ \/ files' = files \ Superseded(c) /\ UNCHANGED orphaned
         \/ files' = files /\ orphaned' = TRUE
  BY DEF RemoveOld, Moved
<1>2. /\ upload'[c].stage = "answered" /\ upload'[c].tenant = upload[c].tenant
      /\ \A d \in Captures \ {c} : upload'[d] = upload[d]
  <2>1. PICK u \in Upload, tenant \in {None} \cup Tenants : u = upload[c] /\ tenant = upload[c].tenant
    BY DEF PreviewTypeOK, Upload
  <2>2. /\ Goes(u, "answered", tenant, None).stage = "answered"
        /\ Goes(u, "answered", tenant, None).tenant = tenant
    <3>1. "answered" \in Stages /\ None \in {None} \cup Captures
      BY DEF Stages
    <3> QED
      BY <3>1, Going
  <2>3. PICK v : v = Goes(u, "answered", tenant, None)
    OBVIOUS
  <2>4. upload' = [upload EXCEPT ![c] = v]
    <3>1. upload' = [upload EXCEPT ![c] = Goes(upload[c], "answered", upload[c].tenant, None)]
      BY Zenon DEF RemoveOld
    <3> QED
      BY <2>1, <2>3, <3>1
  <2> QED
    BY <2>1, <2>2, <2>3, <2>4 DEF PreviewTypeOK
<1>3. Moved' = Moved \ {c}
  BY <1>1, <1>2 DEF Moved
\* Only the file that this upload has replaced is removed.
<1>4. Superseded(c) \subseteq {upload[c].old} \ {None} /\ upload[c].old \notin {device.file} \ {None}
  BY <1>1 DEF Superseded, ImagesInv, RemovesItsOwn
<1>5. PointerNamesFile'
  BY <1>1, <1>4 DEF ImagesInv, PointerNamesFile
<1>6. PointerIsPublished'
  BY <1>1, <1>2 DEF ImagesInv, PointerIsPublished, InHand, Unpublished
<1>7. StoredIsThere'
  <2> SUFFICES ASSUME NEW d \in Captures, upload'[d].stage = "stored" PROVE d \in files'
    BY DEF StoredIsThere
  <2>1. upload[d].stage = "stored" /\ d \in files
    BY <1>2 DEF ImagesInv, StoredIsThere
  <2>2. d # upload[c].old \/ upload[c].old = None
    BY <1>1, <2>1 DEF ImagesInv, RemovesItsOwn, InHand, Unpublished
  <2> QED
    BY <1>1, <1>4, <2>1, <2>2
<1>8. RemovesItsOwn'
  <2> SUFFICES ASSUME NEW d \in Moved \ {c}, upload[d].old # None
               PROVE  upload[d].old \in files' /\ ~InHand(upload[d].old)'
    <3>1. \A d \in Moved \ {c} : upload'[d] = upload[d]
      BY <1>2 DEF Moved
    <3> QED
      BY <1>1, <1>3, <3>1 DEF ImagesInv, RemovesItsOwn
  <2>1. upload[d].old \in files /\ ~InHand(upload[d].old) /\ upload[d].old # upload[c].old
    BY <1>1 DEF ImagesInv, RemovesItsOwn
  <2>2. upload'[d] = upload[d] /\ upload[d].old \in Captures
    BY <1>2, <2>1 DEF Moved, PreviewTypeOK
  <2> QED
    BY <1>1, <1>2, <1>4, <2>1, <2>2 DEF InHand, Unpublished
<1>9. Accounted'
  <2> SUFFICES ASSUME ~orphaned, files' = files \ Superseded(c)
               PROVE  /\ \A f \in files' : \/ upload'[f].stage = "stored"
                                           \/ f = device.file
                                           \/ \E d \in Moved \ {c} : f \in Superseded(d)'
                      /\ device.file # None => upload'[device.file].tenant = device.tenant
                      /\ \A d \in Moved \ {c} : upload'[d].tenant = device.tenant
    BY <1>1, <1>3 DEF Accounted
  <2>1. /\ device.file # None => upload'[device.file].tenant = device.tenant
        /\ \A d \in Moved \ {c} : upload'[d].tenant = device.tenant
    BY <1>2 DEF ImagesInv, Accounted, PointerNamesFile, PreviewTypeOK, Moved
  <2>2. ASSUME NEW f \in files \ Superseded(c)
        PROVE  \/ upload'[f].stage = "stored"
               \/ f = device.file
               \/ \E d \in Moved \ {c} : f \in Superseded(d)'
    <3>1. \/ upload[f].stage = "stored"
          \/ f = device.file
          \/ \E d \in Moved \ {c} : f \in Superseded(d)
      BY <2>2 DEF ImagesInv, Accounted
    <3>2. upload[f].stage = "stored" => upload'[f].stage = "stored"
      BY <1>1, <1>2, <2>2 DEF PreviewTypeOK
    <3>3. ASSUME NEW d \in Moved \ {c}, f \in Superseded(d) PROVE f \in Superseded(d)'
      BY <1>2, <3>3, StillSuperseded
    <3> QED
      BY <3>1, <3>2, <3>3
  <2> QED
    BY <2>1, <2>2
<1> QED
  BY <1>5, <1>6, <1>7, <1>8, <1>9 DEF ImagesInv

LEMMA CrashImages == ASSUME PreviewTypeOK, ImagesInv, Crash PROVE ImagesInv'
<1>1. \A c \in Captures :
         /\ upload'[c].tenant = upload[c].tenant
         /\ upload'[c].stage \notin {"accepted", "stored", "moved"}
         /\ upload'[c].stage \in {"broken", upload[c].stage}
  BY Restarting, Breaking DEF PreviewTypeOK
<1>2. /\ UNCHANGED <<device, files>>
      /\ orphaned' = (orphaned \/ \E c \in Captures : upload[c].stage \in {"stored", "moved"})
  BY DEF Crash
<1>3. Moved' = {}
  BY <1>1 DEF Moved
<1>4. PointerNamesFile' /\ PointerIsPublished' /\ StoredIsThere' /\ RemovesItsOwn'
  BY <1>1, <1>2, <1>3 DEF ImagesInv, PointerNamesFile, PointerIsPublished, StoredIsThere, RemovesItsOwn,
                          InHand, Unpublished
<1>5. Accounted'
  <2> SUFFICES ASSUME ~orphaned, \A c \in Captures : upload[c].stage \notin {"stored", "moved"}
               PROVE  /\ \A f \in files : f = device.file
                      /\ device.file # None => upload'[device.file].tenant = device.tenant
    BY <1>2, <1>3 DEF Accounted
  <2>1. \A f \in files : f = device.file
    BY DEF ImagesInv, Accounted, Moved, PreviewTypeOK
  <2>2. device.file # None => upload'[device.file].tenant = device.tenant
    BY <1>1 DEF ImagesInv, Accounted, PointerNamesFile, PreviewTypeOK
  <2> QED
    BY <2>1, <2>2
<1> QED
  BY <1>4, <1>5 DEF ImagesInv

LEMMA TenantImages == ASSUME PreviewTypeOK, ImagesInv, ChangeTenant PROVE ImagesInv'
<1>1. /\ UNCHANGED <<files, upload>> /\ orphaned' = (orphaned \/ device.file # None)
      /\ device'.file = device.file
  <2>1. PICK t \in Tenants : device' = Plays([device EXCEPT !.tenant = t], 0, 0)
    BY DEF ChangeTenant
  <2>2. [device EXCEPT !.tenant = t] \in Device /\ [device EXCEPT !.tenant = t].file = device.file
    BY DEF PreviewTypeOK, Device
  <2> QED
    BY <2>1, <2>2, PlaysType DEF ChangeTenant
<1>2. PointerNamesFile' /\ PointerIsPublished' /\ StoredIsThere' /\ RemovesItsOwn'
  BY <1>1 DEF ImagesInv, PointerNamesFile, PointerIsPublished, StoredIsThere, RemovesItsOwn,
              InHand, Moved
\* A device without a file has no upload that has moved its pointer.
<1>3. Accounted'
  BY <1>1 DEF ImagesInv, Accounted, RemovesItsOwn, Moved, Superseded
<1> QED
  BY <1>2, <1>3 DEF ImagesInv

LEMMA NextImages ==
    PreviewTypeOK /\ ImagesInv /\ [PreviewNext]_previewVars => ImagesInv'
<1> SUFFICES ASSUME PreviewTypeOK, ImagesInv, [PreviewNext]_previewVars PROVE ImagesInv'
  OBVIOUS
<1>1. ASSUME UNCHANGED <<upload, files, orphaned, device>> PROVE ImagesInv'
  BY <1>1, SameImages
<1>2. CASE UNCHANGED previewVars
  BY <1>1, <1>2 DEF previewVars
<1>3. CASE Persists
  <2>1. device'.file = device.file /\ device'.tenant = device.tenant
    <3>1. CASE device' = device
      BY <3>1
    <3>2. CASE device' = Plays(device, write.media, write.started)
      <4>1. device \in Device /\ write.media \in Nat /\ write.started \in Nat
        BY <1>3 DEF Persists, PreviewTypeOK, Write
      <4> QED
        BY <3>2, <4>1, PlaysType
    <3> QED
      BY <1>3, <3>1, <3>2 DEF Persists
  <2> QED
    BY <1>3, <2>1, SameImages DEF Persists
<1>4. CASE PlayNext \/ Heartbeat \/ PersistFails \/ Tick \/ Receive \/ Load \/ Show \/ Poll \/ Lose \/ Hide
  BY <1>1, <1>4 DEF PlayNext, Heartbeat, PersistFails, Tick, Receive, Load, Show, Poll, Lose, Hide, serverVars
<1>5. ASSUME NEW c \in Captures, Dispatched(c) \/ GiveUp(c) PROVE ImagesInv'
  BY <1>1, <1>5 DEF Dispatched, GiveUp, serverVars
<1>6. ASSUME NEW c \in Captures, BackendStep(c) PROVE ImagesInv'
  BY <1>6, AcceptImages, RefuseImages, StoreImages, PublishImages, DropImages, FailImages, RemoveImages
  DEF BackendStep
<1> QED
  BY <1>2, <1>3, <1>4, <1>5, <1>6, CrashImages, TenantImages, DispatchImages, PlayerImages
  DEF PreviewNext, PageStep

LEMMA ImagesInvariant == PreviewSpec => [](PreviewTypeOK /\ ImagesInv)
BY PreviewInitTypes, PreviewNextTypes, InitImages, NextImages, PTL DEF PreviewSpec

LEMMA AtMostOne == ASSUME NEW S, NEW x, S \subseteq {x} PROVE Cardinality(S) <= 1
<1>1. IsFiniteSet({x}) /\ Cardinality({x}) = 1
  BY FS_Singleton
<1> QED
  BY <1>1, FS_Subset

(***************************************************************************)
(* However slow uploads overlap with the next ones, with failures, with    *)
(* restarts and with a change of the tenant, the pointer of the device     *)
(* names a stored file, and while no upload is under way and nothing was   *)
(* orphaned that file is the only one.                                     *)
(***************************************************************************)
THEOREM PreviewStored == PreviewSpec => []PreviewIsStored
<1>1. PreviewTypeOK /\ ImagesInv => PreviewIsStored
  <2> SUFFICES ASSUME PreviewTypeOK, ImagesInv, Uploading = {}, ~orphaned
               PROVE  Cardinality(files) <= 1
    BY DEF PreviewIsStored, OneImage, ImagesInv
  <2>1. \A f \in files : f = device.file
    BY DEF ImagesInv, Accounted, Uploading, Moved, PreviewTypeOK
  <2> QED
    BY <2>1, AtMostOne
<1> QED
  BY <1>1, ImagesInvariant, PTL
=============================================================================
