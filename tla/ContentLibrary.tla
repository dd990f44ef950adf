--------------------------- MODULE ContentLibrary ---------------------------
(***************************************************************************)
(* Playlists, the media they hold and the screens they are assigned to:    *)
(* the playlist, publish and delete endpoints of content.route.ts, the app *)
(* update of apps.route.ts, the push at a connection (sockets/index.ts)    *)
(* and the pages of the dashboard that chain these calls.                  *)
(*                                                                         *)
(* A call is what one user does with one button: the requests of its page  *)
(* and their handlers, one action from one await to the next.  All calls   *)
(* are of one tenant administrator's scope, so the role filters select     *)
(* everything.  Shadow rows, names of regular playlists, durations and the *)
(* order of items are left out: items are sets of revisions of media.      *)
(***************************************************************************)
EXTENDS Naturals, Sequences, FiniteSets

CONSTANTS
    Calls,           \* calls, each made at most once
    Kinds,           \* what calls may do
    Playlists,       \* playlist ids
    First,           \* the playlist that is there and published at first
    Media,           \* media ids
    Apps,            \* the media that are app instances
    NameOf,          \* the file name of a medium
    Devices,
    Keys,            \* request_id values of creations
    MaxRevision,     \* bound on the updates of an app
    None             \* no playlist, name, key

LibraryAssumption ==
    /\ First \in Playlists /\ None \notin Playlists /\ Apps \subseteq Media
    /\ MaxRevision \in Nat \ {0}

VARIABLES
    media,           \* revision (checksum) of each medium, 0 once deleted
    playlist,
    wrote,           \* for each playlist the items of every version (history)
    assigned,        \* currentPlaylistId of the device documents
    shown,           \* the last SYNC_CONTENT payload that reached a device
    conn,            \* the connection handler of each device's socket
    call,
    overlap          \* whether calls and connections may overlap: fixed at first

vars == <<media, playlist, wrote, assigned, shown, conn, call, overlap>>

AllKinds == {"create", "edit", "add", "screen", "list", "delete", "remove", "app"}
Item == [media : Media, revision : 1 .. MaxRevision]
Wanted == {S \in SUBSET Media : S # {}}

\* parsePlaylistItems and mapPlaylistItems: the media as they are now.
Mapped(S) == {[media |-> m, revision |-> media[m]] : m \in S}
Available(S) == \A m \in S : media[m] # 0
MediaOf(items) == {i.media : i \in items}

Live(p) == playlist[p].state = "live"
LivePlaylists == {p \in Playlists : Live(p)}
NewPlaylist == [state |-> "new", version |-> 0, items |-> {}, published |-> 0,
                wraps |-> None, key |-> None]
\* The wrapper "Single Media: <filename>" of a medium.
WrapperOf(name) == {p \in LivePlaylists : playlist[p].wraps = name}
Using(m) == {p \in LivePlaylists : m \in MediaOf(playlist[p].items)}

Payload(p, version, items) == [pl |-> p, version |-> version, items |-> items]
NoContent == Payload(None, 0, {})
Current(p) == Payload(p, playlist[p].version, playlist[p].items)

NewCall == [kind |-> "none", at |-> "new", pl |-> None, version |-> 0, wants |-> {},
            items |-> {}, seen |-> {}, name |-> None, key |-> None, devs |-> {},
            todo |-> {}, ok |-> FALSE]
\* A call that nobody makes.
NotMade == [NewCall EXCEPT !.at = "done"]
InFlight == {c \in Calls : call[c].at \notin {"new", "done"}}
AtRest == InFlight = {} /\ \A d \in Devices : conn[d].at \in {"off", "on"}

Starts(c, state) ==
    /\ call[c].at = "new" /\ state.kind \in Kinds /\ (overlap \/ AtRest)
    /\ call' = [call EXCEPT ![c] = state]
Ends(c, ok) == call' = [call EXCEPT ![c].at = "done", ![c].ok = ok]
At(c, at, kinds) == call[c].at = at /\ call[c].kind \in kinds

Init ==
    /\ media = [m \in Media |-> 1]
    /\ \E S \in Wanted :
        /\ playlist = [p \in Playlists |-> IF p # First THEN NewPlaylist
                        ELSE [NewPlaylist EXCEPT !.state = "live", !.version = 1,
                                                 !.items = Mapped(S), !.published = 1]]
        /\ wrote = [p \in Playlists |-> IF p = First THEN <<Mapped(S)>> ELSE <<>>]
        /\ shown = [d \in Devices |-> Payload(First, 1, Mapped(S))]
    /\ assigned = [d \in Devices |-> First]
    /\ conn = [d \in Devices |-> [at |-> "on", got |-> NoContent, calm |-> FALSE]]
    /\ call \in [Calls -> {NewCall, NotMade}]
    /\ overlap \in BOOLEAN

-----------------------------------------------------------------------------
(* Saving: PUT /playlists/:playlistId                                      *)

\* The editor loads a playlist; its save expects the version it loaded.
EditorLoads(c, p, S) ==
    /\ Live(p)
    /\ Starts(c, [NewCall EXCEPT !.kind = "edit", !.at = "loaded", !.pl = p,
                                 !.version = playlist[p].version, !.wants = S])
    /\ UNCHANGED <<media, playlist, wrote, assigned, shown, conn>>

\* "Add to playlist" on the media page: the items of a GET and one more, with
\* no expected version.  The page offers no wrappers.
AddLoads(c, p, m) ==
    /\ Live(p) /\ playlist[p].wraps = None
    /\ Starts(c, [NewCall EXCEPT !.kind = "add", !.at = "loaded", !.pl = p,
                                 !.wants = MediaOf(playlist[p].items) \union {m}])
    /\ UNCHANGED <<media, playlist, wrote, assigned, shown, conn>>

SaveReads(c) ==
    /\ At(c, "loaded", {"edit", "add"})
    /\ IF Available(call[c].wants)
       THEN call' = [call EXCEPT ![c].at = "mapped", ![c].items = Mapped(call[c].wants)]
       ELSE Ends(c, FALSE)
    /\ UNCHANGED <<media, playlist, wrote, assigned, shown, conn>>

\* Mutant: the update is not filtered by the expected version.
MatchesAny(p, expected) == Live(p)
Matches(p, expected) == Live(p) /\ expected \in {0, playlist[p].version}

\* One write of a playlist's content: every such write increments the version.
Writes(p, items, published) ==
    /\ playlist' = [playlist EXCEPT ![p].version = @ + 1, ![p].items = items,
                                    ![p].published = published]
    /\ wrote' = [wrote EXCEPT ![p] = Append(@, items)]

SaveWrites(c) ==
    LET s == call[c]  p == s.pl IN
    /\ At(c, "mapped", {"edit", "add"})
    /\ \/ /\ Matches(p, s.version) /\ playlist[p].items # s.items
          /\ Writes(p, s.items, 0)
          /\ call' = [call EXCEPT ![c].at = "saved", ![c].seen = s.items,
                                  ![c].version = playlist[p].version + 1]
       \/ /\ Matches(p, s.version) /\ playlist[p].items = s.items     \* unchanged
          /\ call' = [call EXCEPT ![c].at = "saved", ![c].seen = s.items,
                                  ![c].version = playlist[p].version]
          /\ UNCHANGED <<playlist, wrote>>
       \/ /\ ~Matches(p, s.version)                                   \* 404, 409
          /\ Ends(c, FALSE) /\ UNCHANGED <<playlist, wrote>>
    /\ UNCHANGED <<media, assigned, shown, conn>>

\* The user only wanted to save.
SaveEnds(c) ==
    /\ At(c, "saved", {"edit", "add"}) /\ Ends(c, TRUE)
    /\ UNCHANGED <<media, playlist, wrote, assigned, shown, conn>>

-----------------------------------------------------------------------------
(* Creating: POST /playlists                                               *)

\* A new playlist; key is the request_id of its creation, or None.
NewPage(c, S, key) ==
    /\ Starts(c, [NewCall EXCEPT !.kind = "create", !.at = "creating", !.wants = S,
                                 !.key = key])
    /\ UNCHANGED <<media, playlist, wrote, assigned, shown, conn>>

\* "Set to screen": the wrapper with the medium's file name, or a new one.
SetToScreen(c, m, D) ==
    LET new == [NewCall EXCEPT !.kind = "screen", !.wants = {m}, !.devs = D,
                               !.name = NameOf[m]]
    IN
    /\ media[m] # 0
    /\ \/ \E p \in WrapperOf(NameOf[m]) :
            Starts(c, [new EXCEPT !.at = "saved", !.pl = p])
       \/ WrapperOf(NameOf[m]) = {} /\ Starts(c, [new EXCEPT !.at = "creating"])
    /\ UNCHANGED <<media, playlist, wrote, assigned, shown, conn>>

Created(key) == {p \in LivePlaylists : key # None /\ playlist[p].key = key}

CreateReads(c) ==
    /\ At(c, "creating", {"create", "screen"})
    /\ IF Created(call[c].key) # {} THEN Ends(c, TRUE)
       ELSE IF ~Available(call[c].wants) THEN Ends(c, FALSE)
       ELSE call' = [call EXCEPT ![c].at = "created", ![c].items = Mapped(call[c].wants)]
    /\ UNCHANGED <<media, playlist, wrote, assigned, shown, conn>>

\* The unique indexes on the name and the creation key decide.
CreateWrites(c) ==
    LET s == call[c] IN
    /\ At(c, "created", {"create", "screen"})
    /\ \/ /\ Created(s.key) # {} /\ Ends(c, TRUE) /\ UNCHANGED <<playlist, wrote>>
       \/ /\ Created(s.key) = {} /\ s.name # None /\ WrapperOf(s.name) # {}
          /\ Ends(c, FALSE) /\ UNCHANGED <<playlist, wrote>>
       \/ /\ Created(s.key) = {} /\ (s.name = None \/ WrapperOf(s.name) = {})
          /\ \E p \in Playlists :
                /\ playlist[p].state = "new"
                /\ playlist' = [playlist EXCEPT ![p] =
                        [state |-> "live", version |-> 1, items |-> s.items,
                         published |-> 0, wraps |-> s.name, key |-> s.key]]
                /\ wrote' = [wrote EXCEPT ![p] = <<s.items>>]
                /\ IF s.kind = "create" THEN Ends(c, TRUE)
                   ELSE call' = [call EXCEPT ![c].at = "saved", ![c].pl = p]
    /\ UNCHANGED <<media, assigned, shown, conn>>

-----------------------------------------------------------------------------
(* Publishing: POST /playlists/:playlistId/publish                         *)

\* The list page publishes the version of the row it shows; seen is the content
\* the user saw or saved (history).
ListPublishes(c, p, D) ==
    /\ Live(p)
    /\ Starts(c, [NewCall EXCEPT !.kind = "list", !.at = "saved", !.pl = p, !.devs = D,
                                 !.version = playlist[p].version, !.seen = playlist[p].items])
    /\ UNCHANGED <<media, playlist, wrote, assigned, shown, conn>>

PublishReads(c, D) ==
    LET p == call[c].pl IN
    /\ At(c, "saved", {"edit", "screen", "list"})
    /\ IF call[c].kind = "edit" THEN D # {} ELSE D = call[c].devs
    /\ IF Matches(p, call[c].version)
       THEN call' = [call EXCEPT ![c].at = "marking", ![c].items = playlist[p].items,
                                 ![c].version = playlist[p].version, ![c].devs = D]
       ELSE Ends(c, FALSE)
    /\ UNCHANGED <<media, playlist, wrote, assigned, shown, conn>>

\* Mutant: the mark is not filtered by the version that was read.
PublishMarksAny(c) ==
    LET p == call[c].pl IN
    /\ At(c, "marking", {"edit", "screen", "list"})
    /\ IF Live(p)
       THEN /\ playlist' = [playlist EXCEPT ![p].published = call[c].version]
            /\ call' = [call EXCEPT ![c].at = "assigning"]
       ELSE Ends(c, FALSE) /\ UNCHANGED playlist
    /\ UNCHANGED <<media, wrote, assigned, shown, conn>>
PublishMarks(c) ==
    LET p == call[c].pl IN
    /\ At(c, "marking", {"edit", "screen", "list"})
    /\ IF Matches(p, call[c].version)
       THEN /\ playlist' = [playlist EXCEPT ![p].published = call[c].version]
            /\ call' = [call EXCEPT ![c].at = "assigning"]
       ELSE Ends(c, FALSE) /\ UNCHANGED playlist
    /\ UNCHANGED <<media, wrote, assigned, shown, conn>>

PublishAssigns(c) ==
    /\ At(c, "assigning", {"edit", "screen", "list"})
    /\ assigned' = [d \in Devices |-> IF d \in call[c].devs THEN call[c].pl ELSE assigned[d]]
    /\ call' = [call EXCEPT ![c].at = "emitting"]
    /\ UNCHANGED <<media, playlist, wrote, shown, conn>>

-----------------------------------------------------------------------------
(* Deleting a playlist and a medium                                        *)

DeletePlaylist(c, p) ==
    /\ Live(p)
    /\ Starts(c, [NewCall EXCEPT !.kind = "delete", !.at = "deleted", !.pl = p])
    /\ playlist' = [playlist EXCEPT ![p].state = "gone"]
    /\ UNCHANGED <<media, wrote, assigned, shown, conn>>

DeleteFinds(c) ==
    LET devs == {d \in Devices : assigned[d] = call[c].pl} IN
    /\ At(c, "deleted", {"delete"})
    /\ IF devs = {} THEN Ends(c, TRUE)
       ELSE call' = [call EXCEPT ![c].at = "clearing", ![c].devs = devs]
    /\ UNCHANGED <<media, playlist, wrote, assigned, shown, conn>>

Unassigned(P) == [d \in Devices |-> IF assigned[d] \in P THEN None ELSE assigned[d]]

\* The payload of the notice is empty.
DeleteClears(c) ==
    /\ At(c, "clearing", {"delete"})
    /\ assigned' = Unassigned({call[c].pl})
    /\ call' = [call EXCEPT ![c].at = "emitting", ![c].pl = None, ![c].version = 0,
                            ![c].items = {}]
    /\ UNCHANGED <<media, playlist, wrote, shown, conn>>

Snapshots(P) == {[pl |-> p, state |-> playlist[p]] : p \in P}

\* Refused for a medium that a playlist other than a wrapper holds.
RemoveMedia(c, m) ==
    LET removes == [NewCall EXCEPT !.kind = "remove", !.wants = {m}] IN
    /\ media[m] # 0
    /\ Starts(c, IF \E p \in Using(m) : playlist[p].wraps = None
                 THEN [removes EXCEPT !.at = "done"]
                 ELSE [removes EXCEPT !.todo = Snapshots(Using(m)),
                          !.at = IF Using(m) = {} THEN "removing" ELSE "detaching"])
    /\ UNCHANGED <<media, playlist, wrote, assigned, shown, conn>>

RemoveFinds(c) ==
    /\ At(c, "detaching", {"remove"})
    /\ call' = [call EXCEPT ![c].at = "purging",
            ![c].devs = {d \in Devices : \E t \in call[c].todo : assigned[d] = t.pl}]
    /\ UNCHANGED <<media, playlist, wrote, assigned, shown, conn>>

\* deleteMany of the wrappers and updateMany of the devices run together.
RemovePurges(c) ==
    LET wrappers == {t.pl : t \in call[c].todo} IN
    /\ At(c, "purging", {"remove"})
    /\ playlist' = [p \in Playlists |-> IF p \in wrappers
                        THEN [playlist[p] EXCEPT !.state = "gone"] ELSE playlist[p]]
    /\ assigned' = Unassigned(wrappers)
    /\ call' = [call EXCEPT ![c].at = "removing"]
    /\ UNCHANGED <<media, wrote, shown, conn>>

RemoveDeletes(c) ==
    LET m == CHOOSE m \in Media : call[c].wants = {m} IN
    /\ At(c, "removing", {"remove"})
    /\ media' = [media EXCEPT ![m] = 0]
    /\ IF media[m] = 0 THEN Ends(c, FALSE)                            \* 409, no notice
       ELSE IF call[c].devs = {} THEN Ends(c, TRUE)
       ELSE call' = [call EXCEPT ![c].at = "emitting"]
    /\ UNCHANGED <<playlist, wrote, assigned, shown, conn>>

-----------------------------------------------------------------------------
(* Updating an app: PUT /update-app/:id and refreshPlaylistsForApp         *)

UpdateApp(c, a) ==
    /\ media[a] \in 1 .. MaxRevision - 1
    /\ media' = [media EXCEPT ![a] = @ + 1]
    /\ Starts(c, [NewCall EXCEPT !.kind = "app", !.at = "updated", !.wants = {a},
                                 !.items = {[media |-> a, revision |-> media[a] + 1]}])
    /\ UNCHANGED <<playlist, wrote, assigned, shown, conn>>

\* Mutant: only the published playlists are refreshed.
RefreshReadsPublished(c) ==
    /\ At(c, "updated", {"app"})
    /\ \E a \in call[c].wants : call' = [call EXCEPT ![c].at = "next",
            ![c].todo = Snapshots({p \in Using(a) : playlist[p].published # 0})]
    /\ UNCHANGED <<media, playlist, wrote, assigned, shown, conn>>
RefreshReads(c) ==
    /\ At(c, "updated", {"app"})
    /\ \E a \in call[c].wants :
        call' = [call EXCEPT ![c].at = "next", ![c].todo = Snapshots(Using(a))]
    /\ UNCHANGED <<media, playlist, wrote, assigned, shown, conn>>

RefreshFinds(c) ==
    /\ At(c, "next", {"app"})
    /\ \/ call[c].todo = {} /\ Ends(c, TRUE)
       \/ \E t \in call[c].todo :
            call' = [call EXCEPT ![c].at = "refreshing", ![c].pl = t.pl,
                        ![c].devs = {d \in Devices : assigned[d] = t.pl}]
    /\ UNCHANGED <<media, playlist, wrote, assigned, shown, conn>>

\* A playlist that changed meanwhile ends the whole call with an error.
RefreshWrites(c) ==
    LET s == call[c]
        t == CHOOSE t \in s.todo : t.pl = s.pl
        revised == CHOOSE i \in s.items : i.media \in s.wants
        items == {IF i.media = revised.media THEN revised ELSE i : i \in t.state.items}
        stays == t.state.published # 0 \/ s.devs # {}
    IN
    /\ At(c, "refreshing", {"app"})
    /\ \/ /\ Live(s.pl) /\ playlist[s.pl].version = t.state.version
          /\ Writes(s.pl, items, IF stays THEN t.state.version + 1 ELSE 0)
          /\ call' = [call EXCEPT ![c].at = IF s.devs = {} THEN "next" ELSE "emitting",
                                  ![c].version = t.state.version + 1, ![c].items = items,
                                  ![c].todo = @ \ {t}]
       \/ /\ ~(Live(s.pl) /\ playlist[s.pl].version = t.state.version)
          /\ Ends(c, FALSE) /\ UNCHANGED <<playlist, wrote>>
    /\ UNCHANGED <<media, assigned, shown, conn>>

-----------------------------------------------------------------------------
(* Devices                                                                 *)

\* emitSyncContentToDevices: the rooms of the devices found before.
Emits(c) ==
    LET s == call[c] IN
    /\ s.at = "emitting"
    /\ shown' = [d \in Devices |-> IF d \in s.devs /\ conn[d].at # "off"
                                   THEN Payload(s.pl, s.version, s.items) ELSE shown[d]]
    /\ IF s.kind = "app" THEN call' = [call EXCEPT ![c].at = "next"] ELSE Ends(c, TRUE)
    /\ UNCHANGED <<media, playlist, wrote, assigned, conn>>

Disconnects(d) ==
    /\ conn[d].at # "off"
    /\ conn' = [conn EXCEPT ![d] = [at |-> "off", got |-> NoContent, calm |-> FALSE]]
    /\ UNCHANGED <<media, playlist, wrote, assigned, shown, call>>

\* The socket joins its room and the device document is read.  calm: no call
\* is under way or still to come (history).
Joins(d) ==
    /\ conn[d].at = "off" /\ (overlap \/ AtRest)
    /\ conn' = [conn EXCEPT ![d] = [at |-> IF assigned[d] = None THEN "on" ELSE "joined",
                                    got |-> Payload(assigned[d], 0, {}),
                                    calm |-> \A c \in Calls : call[c].at = "done"]]
    /\ UNCHANGED <<media, playlist, wrote, assigned, shown, call>>

LoadsPlaylist(d) ==
    LET p == conn[d].got.pl IN
    /\ conn[d].at = "joined"
    /\ conn' = [conn EXCEPT ![d] = IF Live(p)
                    THEN [@ EXCEPT !.at = "pushing", !.got = Current(p)]
                    ELSE [@ EXCEPT !.at = "on", !.got = NoContent]]
    /\ UNCHANGED <<media, playlist, wrote, assigned, shown, call>>

Pushes(d) ==
    /\ conn[d].at = "pushing"
    /\ shown' = [shown EXCEPT ![d] = conn[d].got]
    /\ conn' = [conn EXCEPT ![d] = [@ EXCEPT !.at = "on", !.got = NoContent]]
    /\ UNCHANGED <<media, playlist, wrote, assigned, call>>

-----------------------------------------------------------------------------

CallStarts(c) ==
    \/ \E p \in Playlists, S \in Wanted : EditorLoads(c, p, S)
    \/ \E p \in Playlists, m \in Media : AddLoads(c, p, m)
    \/ \E S \in Wanted, key \in Keys \union {None} : NewPage(c, S, key)
    \/ \E m \in Media, D \in SUBSET Devices \ {{}} : SetToScreen(c, m, D)
    \/ \E p \in Playlists, D \in SUBSET Devices \ {{}} : ListPublishes(c, p, D)
    \/ \E p \in Playlists : DeletePlaylist(c, p)
    \/ \E m \in Media : RemoveMedia(c, m)
    \/ \E a \in Apps : UpdateApp(c, a)

CallGoesOn(c) ==
    \/ SaveReads(c) \/ SaveWrites(c) \/ SaveEnds(c)
    \/ CreateReads(c) \/ CreateWrites(c)
    \/ \E D \in SUBSET Devices : PublishReads(c, D)
    \/ PublishMarks(c) \/ PublishAssigns(c)
    \/ DeleteFinds(c) \/ DeleteClears(c)
    \/ RemoveFinds(c) \/ RemovePurges(c) \/ RemoveDeletes(c)
    \/ RefreshReads(c) \/ RefreshFinds(c) \/ RefreshWrites(c)
    \/ Emits(c)

DeviceMoves(d) == Disconnects(d) \/ Joins(d) \/ LoadsPlaylist(d) \/ Pushes(d)

Next ==
    /\ \/ \E c \in Calls : CallStarts(c) \/ CallGoesOn(c)
       \/ \E d \in Devices : DeviceMoves(d)
    /\ UNCHANGED overlap

Spec == Init /\ [][Next]_vars

-----------------------------------------------------------------------------
(* Properties                                                              *)

TypeOK ==
    /\ media \in [Media -> 0 .. MaxRevision]
    /\ \A p \in Playlists :
        /\ playlist[p].state \in {"new", "live", "gone"}
        /\ playlist[p].items \subseteq Item
        /\ playlist[p].version = Len(wrote[p])
        /\ playlist[p].wraps \in {NameOf[m] : m \in Media} \union {None}
        /\ playlist[p].key \in Keys \union {None}
    /\ assigned \in [Devices -> Playlists \union {None}]
    /\ \A d \in Devices : conn[d].at \in {"off", "joined", "pushing", "on"}
    /\ \A c \in Calls : call[c].kind \in AllKinds \union {"none"}

\* A version number names one content: what a device got under a version is
\* what was written under it, so a player that compares versions and
\* checksums compares the right things, and a version is published only while
\* it is the playlist's version (updateOne filtered by version).
VersionNamesContent ==
    /\ \A d \in Devices : shown[d].pl # None =>
        /\ shown[d].version \in 1 .. Len(wrote[shown[d].pl])
        /\ shown[d].items = wrote[shown[d].pl][shown[d].version]
    /\ \A p \in LivePlaylists :
        /\ playlist[p].items = wrote[p][playlist[p].version]
        /\ playlist[p].published \in {0, playlist[p].version}

\* "Playlist was changed by another session": the save of an editor, at
\* whatever moment it arrives, replaces only the version the editor loaded.
KeepsOthersWork ==
    \A c \in Calls :
        (At(c, "mapped", {"edit"}) /\ playlist' # playlist /\ call[c] # call'[c])
            => playlist[call[c].pl].version = call[c].version

\* What an editor or the list page publishes is the version it showed: nobody
\* else's change in between reaches a screen with it (expected_version).
PublishesSeen ==
    \A c \in Calls, d \in Devices :
        (At(c, "emitting", {"edit", "list"}) /\ shown'[d] # shown[d] /\ call'[c] # call[c])
            => shown'[d].items = call[c].seen

\* Whatever order the calls ended in, a device that connects afterwards shows
\* the playlist it is assigned to, as it is (the push at a connection).
ReconnectionHeals ==
    \A d \in Devices :
        (conn[d].at = "on" /\ conn[d].calm /\ assigned[d] \in LivePlaylists)
            => shown[d] = Current(assigned[d])

\* After DELETE /playlists/:playlistId no device is assigned to the playlist.
DeletedIsCleared ==
    AtRest => \A d \in Devices : assigned[d] # None => Live(assigned[d])

\* A playlist holds only media that are there (MEDIA_IN_USE).
PlaylistsHoldMedia ==
    AtRest => \A p \in LivePlaylists : Available(MediaOf(playlist[p].items))

\* A playlist holds apps as they were last saved (refreshPlaylistsForApp).
AppsAreCurrent ==
    AtRest => \A p \in LivePlaylists : \A i \in playlist[p].items :
        (i.media \in Apps /\ media[i.media] # 0) => i.revision = media[i.media]

\* A connected device shows the playlist its document names.
AssignedIsShown ==
    AtRest => \A d \in Devices :
        (conn[d].at = "on" /\ assigned[d] # None) => shown[d].pl = assigned[d]

\* A medium that was added to a playlist stays until a call that has seen it
\* there takes it out.
AddsOnly ==
    \A c \in Calls : At(c, "mapped", {"add"}) /\ call'[c] # call[c]
        => \A p \in Playlists :
            MediaOf(playlist[p].items) \subseteq MediaOf(playlist'[p].items)

\* What calls leave behind once they are done: a device that connects then
\* shows the playlist of its document.  If they were made one after the other,
\* also no device names a playlist that was deleted, an item names a medium
\* that exists, a playlist shows an app with the configuration it has, and a
\* connected device shows the playlist of its document.
LibraryAtRest ==
    /\ ReconnectionHeals
    /\ ~overlap => DeletedIsCleared /\ PlaylistsHoldMedia /\ AppsAreCurrent /\ AssignedIsShown

\* The save of an editor replaces only the version it has loaded, a publication
\* sends what the one who asked for it has seen, and a medium added to a
\* playlist stays until a call that has seen it takes it out, if calls are made
\* one after the other.
NobodyLosesWork == [][KeepsOthersWork /\ PublishesSeen /\ (~overlap => AddsOnly)]_vars

\* Setting a medium to a screen shows that medium.
ScreenShowsTheMedium ==
    [][\A c \in Calls, d \in Devices :
        (At(c, "emitting", {"screen"}) /\ d \in call[c].devs /\ call'[c] # call[c]
            /\ conn[d].at # "off")
            => call[c].wants \subseteq MediaOf(shown'[d].items)]_vars

\* A saved change of a playlist reaches its connected screens.
UpdatesReachScreens ==
    AtRest => \A d \in Devices :
        (conn[d].at = "on" /\ assigned[d] \in LivePlaylists)
            => shown[d] = Current(assigned[d])
=============================================================================
