---------------------------- MODULE ScreenPreview ----------------------------
(***************************************************************************)
(* The image of a screen that the dashboard shows as VERIFIED: the player  *)
(* reports what it plays, the page of the screen asks for a capture when   *)
(* the item changes, the player takes and uploads it, the backend stores   *)
(* the file, moves the pointer of the device and removes the file it       *)
(* replaces, and the page shows the file the pointer names.                *)
(*                                                                         *)
(* One screen, one page open on it.  Captures are slots: a slot names the  *)
(* SCREENSHOT command and the file its upload stores, and is used again    *)
(* once both are gone.  Items are numbered in the order they are played,   *)
(* 0 is nothing.  Times are ticks of the backend's clock; the player's     *)
(* clock is Skew ahead of it.                                              *)
(***************************************************************************)
EXTENDS Naturals, FiniteSets, Sequences

CONSTANTS Captures,     \* slots of the captures
          Tenants,      \* tenants the device is paired with, one after another
          None,         \* no file, no key, no response
          MaxItem,      \* items played
          MaxNow,       \* ticks of the clock
          Skew,         \* the player's clock minus the backend's
          Slack,        \* clock skew the backend accepts (60 s)
          MaxCrashes,   \* restarts of the backend
          MaxFailures,  \* captures and requests that fail
          MaxKept,      \* removals of a replaced file that fail
          MaxLost,      \* events the page's socket does not receive
          MaxHides,     \* times the tab goes into the background
          MaxMoves,     \* re-pairings with another tenant
          MaxEvents     \* events on their way to the page

ASSUME PreviewAssumption ==
    /\ {MaxItem, MaxNow, Skew, Slack, MaxEvents} \subseteq Nat
    /\ {MaxCrashes, MaxFailures, MaxKept, MaxLost, MaxHides, MaxMoves} \subseteq Nat
    /\ Tenants # {}
    /\ None \notin Captures

VARIABLES
    now,        \* the backend's clock
    item,       \* [id, began]: what the screen plays, since when (the player's clock)
    told,       \* playbackStateByDevice: the last state this process took over
    write,      \* its update of the document under way: [tenant, media, started], None
    device,     \* the device document: [tenant, media, started, file, at]
    files,      \* files on disk
    upload,     \* capture -> [stage, item, tenant, old]
    events,     \* events on their way to the page, in order
    page,       \* [row, shot, key, settle, visible]
    autos,      \* autoPreviewCommandsRef: capture -> key, None without an entry
    asked,      \* dispatch requests without a response: capture -> key, None
    deadline,   \* captures whose 25 s timeout runs
    load,       \* the device a load of the page has read, None
    mishaps,    \* [crash, fail, kept, lost, hide, move]: what may still go wrong
    orphaned    \* history: whether a file may have been left that nothing will remove

previewVars == <<now, item, told, write, device, files, upload, events, page, autos, asked, deadline,
                 load, mishaps, orphaned>>
serverVars == <<told, write, device, files, orphaned>>
pageVars == <<page, autos, asked, deadline, load>>

Key(media, started) == [media |-> media, started |-> started]
Idle == [stage |-> "none", item |-> 0, tenant |-> None, old |-> None]
FirstTenant == CHOOSE t \in Tenants : TRUE

PreviewInit ==
    /\ now = 0
    /\ item = [id |-> 0, began |-> 0]
    /\ told = None /\ write = None
    /\ device = [tenant |-> FirstTenant, media |-> 0, started |-> 0, file |-> None, at |-> 0]
    /\ files = {}
    /\ upload = [c \in Captures |-> Idle]
    /\ events = <<>>
    /\ page = [row |-> Key(0, 0), shot |-> None, key |-> None, settle |-> None, visible |-> TRUE]
    /\ autos = [c \in Captures |-> None]
    /\ asked = [c \in Captures |-> None]
    /\ deadline = {}
    /\ load = None
    /\ mishaps = [crash |-> MaxCrashes, fail |-> MaxFailures, kept |-> MaxKept, lost |-> MaxLost,
                 hide |-> MaxHides, move |-> MaxMoves]
    /\ orphaned = FALSE

Mishap(what) == mishaps[what] > 0 /\ mishaps' = [mishaps EXCEPT ![what] = @ - 1]

-----------------------------------------------------------------------------
(* The player and its heartbeat *)

PlayNext ==
    /\ item.id < MaxItem
    /\ item' = [id |-> item.id + 1, began |-> now + Skew]
    /\ UNCHANGED <<now, serverVars, upload, events, pageVars, mishaps>>

\* Mutant: the player's time is taken as it is.
AcceptedStartRaw(began) == began
\* A start in the future is replaced by the time of the heartbeat, unless the
\* player's clock is only a little ahead.
AcceptedStart(began) == IF began <= now + Slack THEN began ELSE now

\* What is sent to the dashboard: the page of the paired owner receives it.
Emit(e) == Len(events) < MaxEvents /\ events' = Append(events, e)

\* The state is noted and sent to the page at once; the update of the document
\* is not awaited (one under way at a time: the bound).
Heartbeat ==
    /\ told # item /\ write = None
    /\ told' = item
    /\ write' = [tenant |-> device.tenant, media |-> item.id, started |-> AcceptedStart(item.began)]
    /\ Emit([type |-> "playback", media |-> item.id, started |-> AcceptedStart(item.began)])
    /\ UNCHANGED <<now, item, device, files, orphaned, upload, pageVars, mishaps>>

\* currentMediaId and playbackStartedAt.
Plays(d, media, started) == [d EXCEPT !.media = media, !.started = started]

\* updateOne with the tenant of the connection.
Persists ==
    /\ write # None
    /\ write' = None
    /\ device' = IF device.tenant = write.tenant THEN Plays(device, write.media, write.started) ELSE device
    /\ UNCHANGED <<now, item, told, files, orphaned, upload, events, pageVars, mishaps>>

\* A failure is only logged: the state stays noted and is not written again.
PersistFails ==
    /\ write # None
    /\ Mishap("fail")
    /\ write' = None
    /\ UNCHANGED <<now, item, told, device, files, orphaned, upload, events, pageVars>>

-----------------------------------------------------------------------------
(* SCREENSHOT on the player: capture, upload, result *)

Result(c, outcome) ==
    Emit([type |-> "ack", capture |-> c, outcome |-> outcome])

\* The window is copied as it is now; without a visible window nothing is uploaded.
\* The capture notes whose screen it was: the token is read between here and the request.
Capture(c) ==
    /\ upload[c].stage = "queued"
    /\ \/ /\ upload' = [upload EXCEPT ![c] = [Idle EXCEPT !.stage = "taken", !.item = item.id,
                                                         !.tenant = device.tenant]]
          /\ UNCHANGED <<events, mishaps>>
       \/ /\ Mishap("fail")
          /\ upload' = [upload EXCEPT ![c].stage = "done"]
          /\ Result(c, "failed")
    /\ UNCHANGED <<now, item, serverVars, pageVars>>

\* An upload, the tenant whose device it found and the file it may replace.
Goes(u, stage, tenant, old) == [u EXCEPT !.stage = stage, !.tenant = tenant, !.old = old]

\* The route finds the device, writes the file under a new name and renames it
\* into place: the reads and checks, then the write.
Accept(c) ==
    /\ upload[c].stage = "taken"
    /\ upload' = [upload EXCEPT ![c] = Goes(@, "accepted", device.tenant, device.file)]
    /\ UNCHANGED <<now, item, serverVars, events, pageVars, mishaps>>

\* A token from before a re-pairing: no device with that tenant is found.
Refuse(c) ==
    /\ upload[c].stage = "taken" /\ upload[c].tenant # device.tenant
    /\ upload' = [upload EXCEPT ![c].stage = "done"]
    /\ Result(c, "failed")
    /\ UNCHANGED <<now, item, serverVars, pageVars, mishaps>>

Store(c) ==
    /\ upload[c].stage = "accepted"
    /\ files' = files \cup {c}
    /\ upload' = [upload EXCEPT ![c].stage = "stored"]
    /\ UNCHANGED <<now, item, told, write, device, orphaned, events, pageVars, mishaps>>

Discard(c) == files \ {c}

Replaced(c) == device.file

\* previewUrl and previewCapturedAt.
Points(d, file, at) == [d EXCEPT !.file = file, !.at = at]

\* findOneAndUpdate with the tenant the file was stored for.
MovePointer(c) ==
    /\ upload[c].stage = "stored"
    /\ IF device.tenant = upload[c].tenant
       THEN /\ device' = Points(device, c, now)
            /\ upload' = [upload EXCEPT ![c] = Goes(@, "moved", @.tenant, Replaced(c))]
            /\ UNCHANGED <<files, events>>
       ELSE /\ files' = Discard(c)
            /\ upload' = [upload EXCEPT ![c].stage = "done"]
            /\ Result(c, "failed")
            /\ UNCHANGED device
    /\ UNCHANGED <<now, item, told, write, orphaned, pageVars, mishaps>>

\* The update of the device fails, and the request with it: the file stays.
PointerFails(c) ==
    /\ upload[c].stage = "stored"
    /\ Mishap("fail")
    /\ upload' = [upload EXCEPT ![c].stage = "done"]
    /\ orphaned' = TRUE
    /\ Result(c, "failed")
    /\ UNCHANGED <<now, item, told, write, device, files, pageVars>>

\* Mutant: the file the pointer names at the time of the removal is removed.
SupersededLate(c) == {device.file}
\* The previous file, if it lies in the folder of the same tenant.
Superseded(c) ==
    {f \in {upload[c].old} \ {None, c} : upload[f].tenant = upload[c].tenant}

\* The replaced file is removed (a failure is only logged), the page told, the
\* player answered; its result is relayed after the update of the page.
RemoveOld(c) ==
    /\ upload[c].stage = "moved"
    /\ \/ files' = files \ Superseded(c) /\ UNCHANGED <<mishaps, orphaned>>
       \/ Superseded(c) # {} /\ Mishap("kept") /\ orphaned' = TRUE /\ UNCHANGED files
    /\ upload' = [upload EXCEPT ![c] = Goes(@, "answered", @.tenant, None)]
    /\ Emit([type |-> "preview"])
    /\ UNCHANGED <<now, item, told, write, device, pageVars>>

\* The temporary capture is deleted and the result reported.
Report(c) ==
    /\ upload[c].stage = "answered"
    /\ upload' = [upload EXCEPT ![c].stage = "done"]
    /\ Result(c, "completed")
    /\ UNCHANGED <<now, item, serverVars, pageVars, mishaps>>

\* A restart ends the uploads in progress, whose requests fail for the player,
\* and forgets the playback state; an update of it under way may be lost; files
\* that no pointer names yet or any more stay.
Crash ==
    /\ Mishap("crash")
    /\ orphaned' = (orphaned \/ \E c \in Captures : upload[c].stage \in {"stored", "moved"})
    /\ told' = None /\ write' \in {None, write}
    /\ upload' = [c \in Captures |->
           IF upload[c].stage \in {"accepted", "stored", "moved"}
           THEN Goes(upload[c], "broken", upload[c].tenant, None) ELSE upload[c]]
    /\ UNCHANGED <<now, item, device, files, events, pageVars>>

ReportBroken(c) ==
    /\ upload[c].stage = "broken"
    /\ upload' = [upload EXCEPT ![c].stage = "done"]
    /\ Result(c, "failed")
    /\ UNCHANGED <<now, item, serverVars, pageVars, mishaps>>

\* Unpairing and pairing with another tenant clears what plays and leaves the
\* pointer as it is; an upload of the new tenant does not remove a file of the
\* old one.  The process has forgotten the state of the screen if it was away
\* for 45 s.
ChangeTenant ==
    /\ Mishap("move")
    /\ orphaned' = (orphaned \/ device.file # None)
    /\ \E t \in Tenants \ {device.tenant} : device' = Plays([device EXCEPT !.tenant = t], 0, 0)
    /\ told' \in {None, told}
    /\ UNCHANGED <<now, item, write, files, upload, events, pageVars>>

-----------------------------------------------------------------------------
(* The page of the screen *)

\* The image element asks for the preview of the device: what the pointer
\* names now, and nothing if that file belongs to another tenant.
Image ==
    IF device.file # None /\ device.file \in files /\ upload[device.file].tenant = device.tenant
    THEN upload[device.file].item ELSE None

\* scheduleAutomaticPreview: a new item clears the image and, after 2 s,
\* asks for a capture.
Scheduled(p, k) ==
    IF k.media = 0 \/ ~p.visible \/ p.key = k THEN p
    ELSE [p EXCEPT !.key = k, !.shot = None, !.settle = k]

\* The last key is given up so that the next poll may ask again.
GivenUp(p, k) == IF p.key = k THEN [p EXCEPT !.key = None] ELSE p

\* useFleetSocket hands over the next event, or it is lost with the connection.
Receive ==
    /\ events # <<>>
    /\ events' = Tail(events)
    /\ LET e == Head(events) IN
       CASE e.type = "playback" ->
              /\ page' = Scheduled([page EXCEPT !.row = Key(e.media, e.started)], Key(e.media, e.started))
              /\ UNCHANGED <<autos, deadline>>
         [] e.type = "preview" ->
              /\ page' = [page EXCEPT !.shot = Image]
              /\ UNCHANGED <<autos, deadline>>
         [] e.type = "ack" ->
              /\ autos' = [autos EXCEPT ![e.capture] = None]
              /\ deadline' = deadline \ {e.capture}
              /\ page' = IF e.outcome = "completed" THEN [page EXCEPT !.shot = Image]
                         ELSE IF autos[e.capture] # None THEN GivenUp(page, autos[e.capture])
                         ELSE page
    /\ UNCHANGED <<now, item, serverVars, upload, asked, load, mishaps>>

Lose ==
    /\ events # <<>>
    /\ Mishap("lost")
    /\ events' = Tail(events)
    /\ UNCHANGED <<now, item, serverVars, upload, pageVars>>

\* The slot of a capture nobody refers to any more.
Free(c) == /\ upload[c].stage \in {"none", "refused", "done"}
           /\ c \notin files \cup deadline \cup {device.file}
           /\ autos[c] = None /\ asked[c] = None
           /\ \A i \in 1..Len(events) : events[i].type = "ack" => events[i].capture # c

\* The timer of 2 s: a command of its own is dispatched; the request fails or
\* the command is queued.
Dispatch ==
    /\ page.settle # None
    /\ \E c \in Captures :
          /\ Free(c)
          /\ autos' = [autos EXCEPT ![c] = page.settle]
          /\ asked' = [asked EXCEPT ![c] = page.settle]
          /\ \/ upload' = [upload EXCEPT ![c] = [Idle EXCEPT !.stage = "queued"]] /\ UNCHANGED mishaps
             \/ upload' = [upload EXCEPT ![c] = [Idle EXCEPT !.stage = "refused"]] /\ Mishap("fail")
    /\ page' = [page EXCEPT !.settle = None]
    /\ UNCHANGED <<now, item, serverVars, events, deadline, load>>

Unasked(p, k) == GivenUp(p, k)

\* The response, or the failure of the request, whose command may run all the
\* same.  The result of the command may have arrived before it.
Dispatched(c) ==
    /\ asked[c] # None
    /\ asked' = [asked EXCEPT ![c] = None]
    /\ \/ /\ upload[c].stage # "refused"
          /\ deadline' = deadline \cup {c}
          /\ UNCHANGED <<page, autos, mishaps>>
       \/ /\ IF upload[c].stage = "refused" THEN UNCHANGED mishaps ELSE Mishap("fail")
          /\ autos' = [autos EXCEPT ![c] = None]
          /\ page' = Unasked(page, asked[c])
          /\ UNCHANGED deadline
    /\ UNCHANGED <<now, item, serverVars, upload, events, load>>

\* The result of c cannot come any more.
ResultLost(c) == /\ upload[c].stage = "done"
                 /\ \A i \in 1..Len(events) : events[i].type = "ack" => events[i].capture # c

\* 25 s without a result: it was lost with the connection, or it is late.
GiveUp(c) ==
    /\ c \in deadline
    /\ IF autos[c] = None \/ ResultLost(c) THEN UNCHANGED mishaps ELSE Mishap("fail")
    /\ deadline' = deadline \ {c}
    /\ autos' = [autos EXCEPT ![c] = None]
    /\ page' = IF autos[c] # None THEN GivenUp(page, autos[c]) ELSE page
    /\ UNCHANGED <<now, item, serverVars, upload, events, asked, load>>

\* Every 30 s while the tab is visible, and on opening.
Poll ==
    /\ page.visible /\ load = None
    /\ load' = device
    /\ UNCHANGED <<now, item, serverVars, upload, events, page, autos, asked, deadline, mishaps>>

\* A capture stored since the item started is taken for an image of it.
Fresh(d) == d.media # 0 /\ d.file # None /\ d.at >= d.started

Loaded(d) ==
    LET k == Key(d.media, d.started)
        p == [page EXCEPT !.row = k]
    IN  IF Fresh(d) THEN [p EXCEPT !.shot = Image, !.key = k]
        ELSE Scheduled([p EXCEPT !.shot = None], k)

Load ==
    /\ load # None
    /\ page' = Loaded(load)
    /\ load' = None
    /\ UNCHANGED <<now, item, serverVars, upload, events, autos, asked, deadline, mishaps>>

Hide ==
    /\ page.visible /\ Mishap("hide")
    /\ page' = [page EXCEPT !.visible = FALSE]
    /\ UNCHANGED <<now, item, serverVars, upload, events, autos, asked, deadline, load>>

Show ==
    /\ ~page.visible
    /\ page' = [page EXCEPT !.visible = TRUE]
    /\ UNCHANGED <<now, item, serverVars, upload, events, autos, asked, deadline, load, mishaps>>

Tick ==
    /\ now < MaxNow
    /\ now' = now + 1
    /\ UNCHANGED <<item, serverVars, upload, events, pageVars, mishaps>>

PlayerStep(c) == Capture(c) \/ Report(c) \/ ReportBroken(c)
BackendStep(c) == Accept(c) \/ Refuse(c) \/ Store(c) \/ MovePointer(c) \/ PointerFails(c) \/ RemoveOld(c)
PageStep == Receive \/ Dispatch \/ Load \/ Show
PreviewNext ==
    \/ PlayNext \/ Heartbeat \/ Persists \/ PersistFails \/ Crash \/ ChangeTenant \/ Tick
    \/ PageStep \/ Poll \/ Lose \/ Hide
    \/ \E c \in Captures : PlayerStep(c) \/ BackendStep(c) \/ Dispatched(c) \/ GiveUp(c)

PreviewSpec == PreviewInit /\ [][PreviewNext]_previewVars

\* The player answers every command, the backend ends every request, timers
\* fire, and somebody looks at the page again.
PreviewLiveSpec ==
    /\ PreviewSpec
    /\ WF_previewVars(Heartbeat) /\ WF_previewVars(Persists) /\ WF_previewVars(Tick) /\ WF_previewVars(Receive) /\ WF_previewVars(Dispatch)
    /\ WF_previewVars(Poll) /\ WF_previewVars(Load) /\ WF_previewVars(Show)
    /\ \A c \in Captures :
          WF_previewVars(PlayerStep(c)) /\ WF_previewVars(BackendStep(c)) /\ WF_previewVars(Dispatched(c)) /\ WF_previewVars(GiveUp(c))

-----------------------------------------------------------------------------
(* Properties *)

Stages == {"none", "refused", "queued", "taken", "accepted", "stored", "moved", "answered", "broken", "done"}

Keys == [media : Nat, started : Nat]
Item == [id : Nat, began : Nat]
Device == [tenant : Tenants, media : Nat, started : Nat, file : {None} \cup Captures, at : Nat]
Write == [tenant : Tenants, media : Nat, started : Nat]
Upload == [stage : Stages, item : Nat, tenant : {None} \cup Tenants, old : {None} \cup Captures]
Event == [type : {"playback"}, media : Nat, started : Nat]
             \cup [type : {"preview"}]
             \cup [type : {"ack"}, capture : Captures, outcome : {"failed", "completed"}]
Page == [row : Keys, shot : {None} \cup Nat, key : {None} \cup Keys,
         settle : {None} \cup Keys, visible : BOOLEAN]

\* Types of the variables.
PreviewTypeOK ==
    /\ now \in Nat /\ item \in Item /\ told \in {None} \cup Item
    /\ write \in {None} \cup Write
    /\ device \in Device /\ files \subseteq Captures
    /\ upload \in [Captures -> Upload] /\ events \in Seq(Event)
    /\ page \in Page /\ load \in {None} \cup Device
    /\ autos \in [Captures -> {None} \cup Keys] /\ asked \in [Captures -> {None} \cup Keys]
    /\ deadline \subseteq Captures
    /\ mishaps \in [{"crash", "fail", "kept", "lost", "hide", "move"} -> Nat]
    /\ orphaned \in BOOLEAN

\* However uploads overlap, the pointer of the device names a file that exists:
\* the route removes only what its own update has replaced.
PointerNamesFile == device.file # None => device.file \in files

Uploading == {c \in Captures : upload[c].stage \in {"accepted", "stored", "moved"}}

\* Once no upload is in progress, a screen has at most one stored image
\* (command.route.ts: "bounding storage to one image per device").  The process
\* may end or the update fail before the replaced file is removed, the removal
\* may fail, and the image of a former owner is nobody's: then more may stay.
OneImage == Uploading = {} /\ ~orphaned => Cardinality(files) <= 1

\* The preview of a screen names a file that is in the store, and once no
\* upload is under way the store has no more than that one, however the uploads
\* of slow requests and of the next ones overlap.
PreviewIsStored == PointerNamesFile /\ OneImage

\* An upload that shows the item the document names makes the preview a fresh
\* one (sockets/index.ts: a bad clock "must not make every newly captured preview
\* look older than the reported playback state").
CapturesAreFresh ==
    device'.file # device.file /\ device.media # 0 /\ upload[device'.file].item = device.media
        => Fresh(device')
NewCaptureIsFresh == [][CapturesAreFresh]_previewVars

\* The update of the document has failed, and the process takes the item for
\* reported: until the next item it is not written again.
ReportLost == /\ mishaps.fail < MaxFailures
              /\ told = item /\ write = None /\ device.media # item.id

\* While the screen keeps playing, the page ends up with an image of it, unless
\* the update of the document was lost.
VerifiedComes == (item.id = MaxItem) ~> [](page.shot # None \/ ReportLost)
=============================================================================
