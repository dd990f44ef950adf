--------------------------- MODULE ScreenSettings ---------------------------
(***************************************************************************)
(* The settings of one screen, from the form to the screen: the pages that *)
(* edit them (dashboard screens/[deviceId]/page.tsx), the device document  *)
(* and the requests that change it (backend routes/content.route.ts), the  *)
(* commands that carry a changed setting to the player, and the settings a *)
(* connection pushes (backend sockets/index.ts).                           *)
(*                                                                         *)
(* An action is the code from one await to the next.  A page's loads close *)
(* over the state of the render that started them.  A command is a record  *)
(* of what it sets and how far it is; its place in the sequence is its id. *)
(***************************************************************************)
EXTENDS Naturals, Sequences, SequencesExt, FiniteSets

CONSTANTS
    Pages,           \* open pages of the screen
    Fields,          \* settings: "name", "scale", "angle"
    Values,          \* values a user may give them; First is the initial one
    First, NoName,   \* NoName: the document's null, which a form shows as Blank
    Blank, Nothing,
    Typed,           \* what a user may type, Blank if a name may be cleared
    MaxEdits,        \* bound: changes typed or clicked
    MaxSaves,        \* bound: requests that change the settings
    MaxLoads,        \* bound: loads of one page under way at a time
    MaxRounds,       \* bound: loads in one behaviour
    MaxCommands,     \* bound: commands
    MaxLinks,        \* bound: connections of the player
    MaxRemovals,     \* bound: removals of the screen
    Overlap,         \* requests and connections of the screen may overlap
    Retries          \* a command may go unanswered until its timer fires

FieldAssumption == Fields \subseteq {"name", "scale", "angle"}
ValueAssumption ==
    /\ First \in Values \union {NoName}
    /\ {NoName, Blank, Nothing} \cap Values = {}
    /\ Typed \subseteq Values \union {Blank}

PlayerFields == Fields \ {"name"}
TextFields == Fields \ {"angle"}

VARIABLES
    doc,             \* the device document's settings
    paired, era,     \* whether it belongs to the tenant, and how often it left
    base, form,      \* each page's `device` and the inputs of its form
    touched,         \* whether a user typed into a field of a page, and saved it
    loads,           \* loads of the pages under way
    requests,        \* PUT requests in the backend
    removing,        \* the DELETE request
    commands,        \* the screen's commands, in the order they were created
    firing,          \* commands whose timer callback has read them
    conn, pushed,    \* the player's connection, and what its handler has read
    link,            \* messages on their way to the player
    screen,          \* the settings the player applies
    calm,            \* no request has changed the document since it was read
    edits, saves, rounds, links

pageVars == <<base, form, touched, loads>>
doors == <<conn, pushed, link, calm>>
vars == <<doc, paired, era, pageVars, requests, removing, commands, firing,
          doors, screen, edits, saves, rounds, links>>

DocValue == Values \union {NoName}
FormValue == Values \union {Blank}
Doc == [Fields -> DocValue]
Form == [Fields -> FormValue]
Shown(v) == IF v = NoName THEN Blank ELSE v
ShownDoc(d) == [f \in Fields |-> Shown(d[f])]

Load == [page : Pages, base : Doc, form : Form, got : Doc \union {Nothing}, id : Nat]
Body == UNION {[F -> DocValue] : F \in SUBSET Fields}
Request == [page : Pages, body : Body, todo : SUBSET PlayerFields,
            pc : {"received", "commands", "checked", "answered"},
            era : Nat, base : Doc, form : Form]
Command == [field : PlayerFields, value : DocValue, era : Nat, ran : BOOLEAN,
            attempts : 0..2, state : {"queued", "sent", "done", "failed"}]
Handler == {"down", "reading", "dispatching", "pushing", "up"}
Open(c) == c.state \in {"queued", "sent"}
Settling == requests # {} \/ removing # "no" \/ conn \in Handler \ {"down", "up"}

Init ==
    /\ doc = [f \in Fields |-> IF f = "name" THEN First ELSE CHOOSE v \in Values : TRUE]
    /\ paired = TRUE /\ era = 0
    /\ base = [p \in Pages |-> doc] /\ form = [p \in Pages |-> ShownDoc(doc)]
    /\ touched = [p \in Pages |-> [f \in Fields |-> "no"]] /\ loads = {}
    /\ requests = {} /\ removing = "no"
    /\ commands = <<>> /\ firing = {}
    /\ conn = "up" /\ pushed = doc /\ link = <<>> /\ calm = TRUE
    /\ screen = [f \in PlayerFields |-> doc[f]]
    /\ edits = 0 /\ saves = 0 /\ rounds = 0 /\ links = 0

(***************************************************************************)
(* A page                                                                  *)
(***************************************************************************)
NewLoad(p, b, f) == [page |-> p, base |-> b, form |-> f, got |-> Nothing, id |-> rounds]

\* The poll, or an event that calls loadData.
StartLoad(p) ==
    /\ rounds < MaxRounds /\ rounds' = rounds + 1
    /\ Cardinality({l \in loads : l.page = p}) < MaxLoads
    /\ loads' = loads \union {NewLoad(p, base[p], form[p])}
    /\ UNCHANGED <<doc, paired, era, base, form, touched, requests, removing,
                   commands, firing, doors, screen, edits, saves, links>>

\* GET devices/:deviceId; a device of no tenant is not found.
ReadDevice(l) ==
    /\ l.got = Nothing
    /\ loads' = (loads \ {l}) \union (IF paired THEN {[l EXCEPT !.got = doc]} ELSE {})
    /\ UNCHANGED <<doc, paired, era, base, form, touched, requests, removing,
                   commands, firing, doors, screen, edits, saves, rounds, links>>

\* Inputs that equal the device the load closed over are filled again.
Merged(l, current) ==
    [f \in Fields |->
        IF f = "angle" \/ l.form[f] = l.base[f] THEN Shown(l.got[f]) ELSE current[f]]

ApplyLoad(l) ==
    /\ l.got # Nothing
    /\ base' = [base EXCEPT ![l.page] = l.got]
    /\ form' = [form EXCEPT ![l.page] = Merged(l, @)]
    /\ loads' = loads \ {l}
    /\ UNCHANGED <<doc, paired, era, touched, requests, removing, commands,
                   firing, doors, screen, edits, saves, rounds, links>>

Type(p, f, v) ==
    /\ edits < MaxEdits /\ edits' = edits + 1
    /\ f \in TextFields /\ v # form[p][f] /\ (v = Blank => f = "name")
    /\ form' = [form EXCEPT ![p][f] = v]
    /\ touched' = [touched EXCEPT ![p][f] = "typed"]
    /\ UNCHANGED <<doc, paired, era, base, loads, requests, removing, commands,
                   firing, doors, screen, saves, rounds, links>>

Put(p, body) ==
    /\ saves < MaxSaves /\ saves' = saves + 1
    /\ Overlap \/ ~Settling
    /\ requests' = requests \union
         {[page |-> p, body |-> body, todo |-> {}, pc |-> "received",
           era |-> era, base |-> base[p], form |-> form[p]]}

\* handleSaveSettings and handleSaveNote send every input of their form.
Save(p) ==
    /\ TextFields # {}
    /\ Put(p, [f \in TextFields |-> IF form[p][f] = Blank THEN NoName ELSE form[p][f]])
    /\ UNCHANGED <<doc, paired, era, pageVars, removing, commands, firing,
                   doors, screen, edits, rounds, links>>

\* handleSetOrientation saves at once; buttons stay enabled meanwhile.
ClickAngle(p, a) ==
    /\ "angle" \in Fields /\ a # form[p]["angle"]
    /\ edits < MaxEdits /\ edits' = edits + 1
    /\ form' = [form EXCEPT ![p]["angle"] = a]
    /\ Put(p, [f \in {"angle"} |-> a])
    /\ UNCHANGED <<doc, paired, era, base, touched, loads, removing, commands,
                   firing, doors, screen, rounds, links>>

\* The answer of a saved form starts a load, with the state of the click.
Answer(r) ==
    /\ r.pc = "answered"
    /\ requests' = requests \ {r}
    /\ IF DOMAIN r.body = {"angle"} THEN UNCHANGED <<touched, loads, rounds>>
       ELSE /\ touched' = [touched EXCEPT ![r.page] =
                [f \in Fields |-> IF @[f] = "typed" /\ form[r.page][f] = r.form[f]
                                  THEN "saved" ELSE @[f]]]
            /\ rounds' = rounds + 1
            /\ loads' = loads \union {NewLoad(r.page, r.base, r.form)}
    /\ UNCHANGED <<doc, paired, era, base, form, removing, commands, firing,
                   doors, screen, edits, saves, links>>

(***************************************************************************)
(* PUT devices/:deviceId                                                   *)
(***************************************************************************)
Step(r, s) == requests' = (requests \ {r}) \union {s}

\* findOneAndUpdate returns the document before the update; a setting that
\* changes gets a command.
Update(r) ==
    /\ r.pc = "received"
    /\ IF paired
       THEN LET changed == {f \in DOMAIN r.body \cap PlayerFields : doc[f] # r.body[f]}
            IN  /\ doc' = [f \in Fields |-> IF f \in DOMAIN r.body THEN r.body[f] ELSE doc[f]]
                /\ Step(r, [r EXCEPT !.todo = changed,
                              !.pc = IF changed = {} THEN "answered" ELSE "commands"])
                /\ calm' = (calm /\ changed = {})
       ELSE /\ requests' = requests \ {r} /\ UNCHANGED <<doc, calm>>
    /\ UNCHANGED <<paired, era, pageVars, removing, commands, firing, conn, pushed,
                   link, screen, edits, saves, rounds, links>>

\* queueCommand looks the device up, for the first setting to send.
CheckDevice(r) ==
    /\ r.pc = "commands"
    /\ Step(r, IF paired THEN [r EXCEPT !.pc = "checked"]
               ELSE [r EXCEPT !.pc = "answered", !.todo = {}])
    /\ UNCHANGED <<doc, paired, era, pageVars, removing, commands, firing, doors,
                   screen, edits, saves, rounds, links>>

Message(i, c) == [cmd |-> i, field |-> c.field, value |-> c.value]
Sent(c) == [c EXCEPT !.state = "sent", !.attempts = @ + 1]
Joined == conn # "down"

\* ... and creates and dispatches the command: emitted if a socket of the
\* device has joined its room, else kept queued.
CreateCommand(r) ==
    /\ r.pc = "checked" /\ Len(commands) < MaxCommands
    /\ \E f \in r.todo :
         LET c == [field |-> f, value |-> r.body[f], era |-> r.era, ran |-> FALSE,
                   attempts |-> 0, state |-> "queued"]
         IN  /\ commands' = Append(commands, IF Joined THEN Sent(c) ELSE c)
             /\ link' = IF Joined THEN Append(link, Message(Len(commands) + 1, c)) ELSE link
             /\ Step(r, [r EXCEPT !.todo = @ \ {f},
                           !.pc = IF r.todo = {f} THEN "answered" ELSE "commands"])
    /\ UNCHANGED <<doc, paired, era, pageVars, removing, firing, conn, pushed, calm,
                   screen, edits, saves, rounds, links>>

(***************************************************************************)
(* The timers of sent commands                                             *)
(***************************************************************************)
TimerFires(i) ==
    /\ Retries /\ commands[i].state = "sent" /\ i \notin firing
    /\ firing' = firing \union {i}
    /\ UNCHANGED <<doc, paired, era, pageVars, requests, removing, commands, doors,
                   screen, edits, saves, rounds, links>>

\* Neither update looks at the state the command has by now.
TimerUpdates(i) ==
    /\ i \in firing /\ firing' = firing \ {i}
    /\ LET c == [commands[i] EXCEPT !.state = "queued"]
           again == c.attempts < 2 IN
         /\ commands' = [commands EXCEPT ![i] =
              IF ~again THEN [c EXCEPT !.state = "failed"] ELSE IF Joined THEN Sent(c) ELSE c]
         /\ link' = IF again /\ Joined THEN Append(link, Message(i, c)) ELSE link
    /\ UNCHANGED <<doc, paired, era, pageVars, requests, removing, conn, pushed, calm,
                   screen, edits, saves, rounds, links>>

(***************************************************************************)
(* The player and its connections                                          *)
(***************************************************************************)
\* A command executed before is only acknowledged again.
Execute ==
    /\ link # <<>>
    /\ LET m == Head(link) IN
         /\ link' = Tail(link)
         /\ screen' = IF m.cmd # 0 /\ commands[m.cmd].ran THEN screen
                      ELSE [screen EXCEPT ![m.field] = m.value]
         /\ commands' = IF m.cmd = 0 THEN commands
                        ELSE [commands EXCEPT ![m.cmd].ran = TRUE, ![m.cmd].state =
                                IF Open(commands[m.cmd]) THEN "done" ELSE @]
    /\ UNCHANGED <<doc, paired, era, pageVars, requests, removing, firing, conn, pushed,
                   calm, edits, saves, rounds, links>>

Drop == /\ conn' = "down" /\ link' = <<>> /\ pushed' = doc /\ calm' = FALSE

\* The connection is lost, or the player restarts with its default settings.
\* Without Retries a command that was under way is answered first.
LoseLink(restart) ==
    /\ conn # "down"
    /\ Overlap \/ ~Settling
    /\ Retries \/ \A i \in DOMAIN commands : commands[i].state # "sent"
    /\ Drop
    /\ screen' = IF restart THEN [f \in PlayerFields |-> CHOOSE v \in Values : TRUE] ELSE screen
    /\ UNCHANGED <<doc, paired, era, pageVars, requests, removing, commands, firing,
                   edits, saves, rounds, links>>

Connect ==
    /\ links < MaxLinks /\ links' = links + 1
    /\ conn = "down" /\ paired
    /\ Overlap \/ ~Settling
    /\ conn' = "reading"
    /\ UNCHANGED <<doc, paired, era, pageVars, requests, removing, commands, firing,
                   pushed, link, calm, screen, edits, saves, rounds>>

ReadOnConnect ==
    /\ conn = "reading"
    /\ conn' = (IF paired THEN "dispatching" ELSE "up")
    /\ pushed' = doc /\ calm' = (requests = {})
    /\ UNCHANGED <<doc, paired, era, pageVars, requests, removing, commands, firing,
                   link, screen, edits, saves, rounds, links>>

\* Every queued command is replayed, oldest first.
DispatchPending ==
    /\ conn = "dispatching" /\ conn' = "pushing"
    /\ LET queued == SelectSeq([i \in DOMAIN commands |-> i],
                               LAMBDA i : commands[i].state = "queued" /\ commands[i].attempts < 2)
       IN /\ link' = link \o [k \in DOMAIN queued |-> Message(queued[k], commands[queued[k]])]
          /\ commands' = [i \in DOMAIN commands |->
                            IF i \in {queued[k] : k \in DOMAIN queued}
                            THEN Sent(commands[i]) ELSE commands[i]]
    /\ UNCHANGED <<doc, paired, era, pageVars, requests, removing, firing, pushed, calm,
                   screen, edits, saves, rounds, links>>

Pushes == SetToSeq({[cmd |-> 0, field |-> f, value |-> pushed[f]] : f \in PlayerFields})

\* Mutant: the settings are pushed before the queued commands are replayed.
PushFirst ==
    /\ conn = "pushing" /\ conn' = "up"
    /\ link' = Pushes \o link
    /\ UNCHANGED <<doc, paired, era, pageVars, requests, removing, commands, firing,
                   pushed, calm, screen, edits, saves, rounds, links>>

\* init-orient and init-scale, from the document read before the replay.
PushSettings ==
    /\ conn = "pushing" /\ conn' = "up"
    /\ link' = link \o Pushes
    /\ UNCHANGED <<doc, paired, era, pageVars, requests, removing, commands, firing,
                   pushed, calm, screen, edits, saves, rounds, links>>

(***************************************************************************)
(* DELETE devices/:deviceId, and pairing the screen again                  *)
(***************************************************************************)
Detach ==
    /\ removing = "no" /\ paired /\ era < MaxRemovals
    /\ Overlap \/ ~Settling
    /\ removing' = "detached" /\ paired' = FALSE /\ era' = era + 1
    /\ UNCHANGED <<doc, pageVars, requests, commands, firing, doors, screen, edits,
                   saves, rounds, links>>

FailCommands ==
    /\ removing = "detached" /\ removing' = "failed"
    /\ commands' = [i \in DOMAIN commands |->
         IF Open(commands[i]) THEN [commands[i] EXCEPT !.state = "failed"] ELSE commands[i]]
    /\ UNCHANGED <<doc, paired, era, pageVars, requests, firing, doors, screen, edits,
                   saves, rounds, links>>

DisconnectSockets ==
    /\ removing = "failed" /\ removing' = "no"
    /\ Drop
    /\ UNCHANGED <<doc, paired, era, pageVars, requests, commands, firing, screen, edits,
                   saves, rounds, links>>

\* The document of the hardware is kept, with its settings.
PairAgain ==
    /\ ~paired /\ removing = "no" /\ paired' = TRUE
    /\ UNCHANGED <<doc, era, pageVars, requests, removing, commands, firing, doors,
                   screen, edits, saves, rounds, links>>

Next ==
    \/ \E p \in Pages : StartLoad(p) \/ Save(p)
    \/ \E p \in Pages, f \in Fields, v \in Typed : Type(p, f, v)
    \/ \E p \in Pages, a \in Values : ClickAngle(p, a)
    \/ \E l \in loads : ReadDevice(l) \/ ApplyLoad(l)
    \/ \E r \in requests : Update(r) \/ CheckDevice(r) \/ CreateCommand(r) \/ Answer(r)
    \/ \E i \in DOMAIN commands : TimerFires(i) \/ TimerUpdates(i)
    \/ Execute \/ (\E restart \in BOOLEAN : LoseLink(restart))
    \/ Connect \/ ReadOnConnect \/ DispatchPending \/ PushSettings
    \/ Detach \/ FailCommands \/ DisconnectSockets \/ PairAgain

Spec == Init /\ [][Next]_vars

(***************************************************************************)
(* Properties                                                              *)
(***************************************************************************)
TypeOK ==
    /\ doc \in Doc /\ paired \in BOOLEAN /\ era \in 0..MaxRemovals
    /\ base \in [Pages -> Doc] /\ form \in [Pages -> Form]
    /\ touched \in [Pages -> [Fields -> {"no", "typed", "saved"}]]
    /\ \A l \in loads : l \in Load
    /\ \A r \in requests : r \in Request
    /\ removing \in {"no", "detached", "failed"}
    /\ \A i \in DOMAIN commands : commands[i] \in Command
    /\ firing \subseteq DOMAIN commands /\ conn \in Handler
    /\ \A k \in DOMAIN link : link[k].cmd \in {0} \union DOMAIN commands
    /\ screen \in [PlayerFields -> DocValue] /\ calm \in BOOLEAN

Settled ==
    /\ ~Settling /\ conn = "up" /\ paired /\ link = <<>> /\ firing = {}
    /\ \A i \in DOMAIN commands : ~Open(commands[i])
Follows == \A f \in PlayerFields : screen[f] = doc[f]

\* With nothing under way any more, the screen has the settings of its
\* document: through replays, pushes, restarts and settings saved offline.
SettledScreenFollows == Settled => Follows

\* A connection whose handler read the document while no request was at work,
\* and that has seen no request since, leaves the screen right whatever was
\* wrong before: the push comes after the replay of older commands.
ConnectionHeals == Settled /\ calm => Follows

\* The setting a connection pushes is the one in the document.
PushIsCurrent ==
    [][conn = "pushing" /\ conn' = "up" => \A f \in PlayerFields : pushed[f] = doc[f]]_vars

\* No command from before a removal reaches the screen after it was paired
\* again.
RemovedCommandsStay ==
    \A k \in DOMAIN link : link[k].cmd # 0 /\ paired => commands[link[k].cmd].era = era

\* The fields of a page whose last load is the current document, and that has
\* nothing under way, show the document, but for those its user typed into.
Shows(p, how) ==
    base[p] = doc /\ (\A l \in loads : l.page # p) /\ (\A r \in requests : r.page # p) =>
        \A f \in Fields : touched[p][f] \in how => form[p][f] = Shown(doc[f])

\* A field nobody typed into on a page follows the changes of other users,
\* however the loads and saves of the pages overlap.
UntouchedFollows == \A p \in Pages : Shows(p, {"no"})

\* So does a field whose typed value was saved.
SavedFollows == \A p \in Pages : Shows(p, {"no", "saved"})

\* A load leaves alone what its user has typed since the one before.
TypedTextStays ==
    [][\A p \in Pages, f \in Fields :
         touched[p][f] = "typed" /\ form[p][f] # Shown(base[p][f]) =>
            form'[p][f] = form[p][f] \/ edits' # edits]_vars
=============================================================================
