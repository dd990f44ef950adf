---------------------------- MODULE MediaLibrary ----------------------------
(***************************************************************************)
(* The media of a tenant: uploads and their files, deletions, folders, and *)
(* the shadow rows that repeat a medium's folder (backend                  *)
(* routes/content.route.ts, services/media-storage.service.ts, with the    *)
(* handlers of dashboard media/page.tsx that call them).                   *)
(*                                                                         *)
(* An action is the code from one await to the next.  A request is its     *)
(* number n, which also names the temporary file of an upload; playlists   *)
(* that use a medium are ContentLibrary's.                                 *)
(***************************************************************************)
EXTENDS Naturals, FiniteSets

CONSTANTS
    Operators, Admins,   \* users; administrators work on the whole tenant
    Contents,            \* contents of files, told apart by their checksums
    Names, Root,         \* folders' names; Root: in no folder
    Nobody,              \* the owner of a folder an administrator made
    MaxRequests,         \* bound: requests in one behaviour
    MaxMedia             \* bound: uploads among them

UserAssumption == Operators \intersect Admins = {} /\ Nobody \notin Operators \union Admins
NameAssumption == Root \notin Names

VARIABLES
    stored,      \* the media documents
    folders,     \* the folder documents
    rows,        \* the shadow rows of media
    disk, temps, \* files in the storage, and in its directory for uploads
    requests,    \* requests under way
    sent,        \* how many requests were sent
    failed,      \* whether the backend has crashed or failed to remove a file
    working,     \* the users who send requests: fixed at first
    together     \* whether any requests may overlap, not only uploads: fixed at first

mediaVars == <<stored, folders, rows, disk, temps, requests, sent, failed, working, together>>

Users == Operators \union Admins
Folder == Names \union {Root}
Paths == Nat \union (Users \X Contents)
MediaDoc == [id : Nat, owner : Users, content : Contents, path : Paths, folder : Folder]
FolderDoc == [owner : Users \union {Nobody}, name : Names]
Row == [id : Nat, owner : Users, folder : Folder]
\* What each request carries: an upload its content and the folder it is moved
\* to, a move its medium and folder, a rename the name it replaces and the new.
Args ==
    [op : {"upload"}, content : Contents, to : Folder] \union
    [op : {"move"}, id : Nat, to : Folder] \union [op : {"delete"}, id : Nat] \union
    [op : {"create", "drop"}, name : Names] \union [op : {"rename"}, name : Names, to : Names]
Steps == {"begin", "commit", "create", "raced", "upsert", "check", "save", "remove",
          "files", "update", "media", "rows"}

MediaInit ==
    /\ stored = {} /\ folders = {} /\ rows = {}
    /\ disk = {} /\ temps = {}
    /\ requests = {} /\ sent = 0 /\ failed = FALSE
    /\ working \in SUBSET Users /\ together \in BOOLEAN

(***************************************************************************)
(* What a user may see                                                     *)
(***************************************************************************)
MediaSeen(u) == IF u \in Admins THEN stored ELSE {m \in stored : m.owner = u}
FoldersOf(u) == IF u \in Admins THEN folders ELSE {f \in folders : f.owner = u}
Named(u, name) == {f \in FoldersOf(u) : f.name = name}
Same(r) == {m \in stored : m.owner = r.user /\ m.content = r.args.content}
Medium(r) == {m \in MediaSeen(r.user) : m.id = r.args.id}

(***************************************************************************)
(* Pages send requests                                                     *)
(***************************************************************************)
Send(u, args) ==
    /\ sent < MaxRequests /\ sent' = sent + 1
    /\ requests' = requests \union
         {[n |-> sent + 1, user |-> u, pc |-> "begin", args |-> args, kept |-> Root]}

Alone == together \/ requests = {}

\* handleUpload: several workers send the files of a selection.
StartUpload(u, c, to) ==
    /\ sent < MaxMedia
    /\ together \/ \A r \in requests : r.args.op \in {"upload", "move"}
    /\ Send(u, [op |-> "upload", content |-> c, to |-> to])
    /\ temps' = temps \union {sent + 1}
    /\ UNCHANGED <<stored, folders, rows, disk, failed>>

StartMove(u, id, to) ==
    /\ Alone /\ Send(u, [op |-> "move", id |-> id, to |-> to])
    /\ UNCHANGED <<stored, folders, rows, disk, temps, failed>>

StartDelete(u, id) ==
    /\ Alone /\ Send(u, [op |-> "delete", id |-> id])
    /\ UNCHANGED <<stored, folders, rows, disk, temps, failed>>

StartFolder(u, op, name) ==
    /\ Alone /\ Send(u, [op |-> op, name |-> name])
    /\ UNCHANGED <<stored, folders, rows, disk, temps, failed>>

StartRename(u, name, to) ==
    /\ Alone /\ name # to /\ Send(u, [op |-> "rename", name |-> name, to |-> to])
    /\ UNCHANGED <<stored, folders, rows, disk, temps, failed>>

RequestAt(r, op, pc) == r.args.op = op /\ r.pc = pc
Go(r, pc) == requests' = (requests \ {r}) \union {[r EXCEPT !.pc = pc]}
Answer(r) == requests' = requests \ {r}

(***************************************************************************)
(* POST media/upload                                                       *)
(***************************************************************************)
FindDuplicate(r) ==
    /\ RequestAt(r, "upload", "begin")
    /\ IF Same(r) # {} THEN Answer(r) /\ temps' = temps \ {r.n}
       ELSE Go(r, "commit") /\ UNCHANGED temps
    /\ UNCHANGED <<stored, folders, rows, disk, sent, failed>>

\* commit: a path no other upload has, by a random identifier.
PathOf(r) == r.n

Commit(r) ==
    /\ RequestAt(r, "upload", "commit")
    /\ temps' = temps \ {r.n} /\ disk' = disk \union {PathOf(r)}
    /\ Go(r, "create")
    /\ UNCHANGED <<stored, folders, rows, sent, failed>>

\* The unique index decides between two uploads of one content.
Create(r) ==
    /\ RequestAt(r, "upload", "create")
    /\ IF Same(r) # {} THEN Go(r, "raced") /\ UNCHANGED stored
       ELSE /\ stored' = stored \union {[id |-> r.n, owner |-> r.user, folder |-> Root,
                                       content |-> r.args.content, path |-> PathOf(r)]}
            /\ Go(r, "upsert")
    /\ UNCHANGED <<folders, rows, disk, temps, sent, failed>>

\* Mutant: the file of the upload that lost is kept.
KeepRaced(r) ==
    /\ RequestAt(r, "upload", "raced")
    /\ Answer(r)
    /\ UNCHANGED <<stored, folders, rows, disk, temps, sent, failed>>

\* The loser removes its file, also if the other medium is gone by now.
DropRaced(r) ==
    /\ RequestAt(r, "upload", "raced")
    /\ disk' = disk \ {PathOf(r)} /\ Answer(r)
    /\ UNCHANGED <<stored, folders, rows, temps, sent, failed>>

RowSet(id, owner, to) ==
    {w \in rows : w.id # id} \union {[id |-> id, owner |-> owner, folder |-> to]}

\* The answer of an upload into a folder is followed by its move.
UpsertUploaded(r) ==
    /\ RequestAt(r, "upload", "upsert")
    /\ rows' = RowSet(r.n, r.user, Root)
    /\ IF r.args.to = Root THEN Answer(r)
       ELSE requests' = (requests \ {r}) \union
              {[r EXCEPT !.pc = "begin",
                         !.args = [op |-> "move", id |-> r.n, to |-> r.args.to]]}
    /\ UNCHANGED <<stored, folders, disk, temps, sent, failed>>

(***************************************************************************)
(* PUT media/:mediaId/folder                                               *)
(***************************************************************************)
MoveFinds(r) ==
    /\ RequestAt(r, "move", "begin")
    /\ IF Medium(r) = {} THEN Answer(r)
       ELSE \E m \in Medium(r) :
              requests' = (requests \ {r}) \union {[r EXCEPT !.pc = "check", !.kept = m]}
    /\ UNCHANGED <<stored, folders, rows, disk, temps, sent, failed>>

MoveChecks(r) ==
    /\ RequestAt(r, "move", "check")
    /\ IF r.args.to = Root \/ Named(r.user, r.args.to) # {} THEN Go(r, "save") ELSE Answer(r)
    /\ UNCHANGED <<stored, folders, rows, disk, temps, sent, failed>>

\* save() writes a changed folder, and fails if the medium is gone.
MoveSaves(r) ==
    /\ RequestAt(r, "move", "save")
    /\ LET there == {m \in stored : m.id = r.args.id} IN
         /\ stored' = IF r.kept.folder = r.args.to THEN stored
                     ELSE (stored \ there) \union {[m EXCEPT !.folder = r.args.to] : m \in there}
         /\ IF there # {} THEN Go(r, "upsert") ELSE Answer(r)
    /\ UNCHANGED <<folders, rows, disk, temps, sent, failed>>

MoveUpserts(r) ==
    /\ RequestAt(r, "move", "upsert")
    /\ rows' = RowSet(r.args.id, r.kept.owner, r.args.to)
    /\ Answer(r)
    /\ UNCHANGED <<stored, folders, disk, temps, sent, failed>>

(***************************************************************************)
(* DELETE media/:mediaId                                                   *)
(***************************************************************************)
DeleteFindsMedium(r) ==
    /\ RequestAt(r, "delete", "begin")
    /\ IF Medium(r) = {} THEN Answer(r)
       ELSE \E m \in Medium(r) :
              requests' = (requests \ {r}) \union {[r EXCEPT !.pc = "remove", !.kept = m]}
    /\ UNCHANGED <<stored, folders, rows, disk, temps, sent, failed>>

DeleteRemoves(r) ==
    /\ RequestAt(r, "delete", "remove")
    /\ stored' = stored \ Medium(r)
    /\ IF Medium(r) = {} THEN Answer(r) ELSE Go(r, "files")
    /\ UNCHANGED <<folders, rows, disk, temps, sent, failed>>

\* A file that cannot be removed is only logged.
DeleteFile(r) ==
    /\ RequestAt(r, "delete", "files")
    /\ \/ disk' = disk \ {r.kept.path} /\ UNCHANGED failed
       \/ failed' = TRUE /\ UNCHANGED disk
    /\ rows' = {w \in rows : w.id # r.args.id}
    /\ Answer(r)
    /\ UNCHANGED <<stored, folders, temps, sent>>

(***************************************************************************)
(* Folders                                                                 *)
(***************************************************************************)
FolderOwner(u) == IF u \in Admins THEN Nobody ELSE u
NewFolder(r, name) == [owner |-> FolderOwner(r.user), name |-> name]

CreateChecks(r) ==
    /\ RequestAt(r, "create", "begin")
    /\ IF Named(r.user, r.args.name) # {} THEN Answer(r) ELSE Go(r, "update")
    /\ UNCHANGED <<stored, folders, rows, disk, temps, sent, failed>>

\* A folder the unique index refuses is answered with a conflict.
CreateFolder(r) ==
    /\ RequestAt(r, "create", "update")
    /\ folders' = folders \union {NewFolder(r, r.args.name)}
    /\ Answer(r)
    /\ UNCHANGED <<stored, rows, disk, temps, sent, failed>>

RenameChecks(r) ==
    /\ RequestAt(r, "rename", "begin")
    /\ IF Named(r.user, r.args.name) # {} /\ Named(r.user, r.args.to) = {}
       THEN Go(r, IF r.user \in Admins THEN "remove" ELSE "update") ELSE Answer(r)
    /\ UNCHANGED <<stored, folders, rows, disk, temps, sent, failed>>

\* An administrator's rename makes one folder of all those of the name.
RenameDrops(r) ==
    /\ RequestAt(r, "rename", "remove")
    /\ folders' = folders \ Named(r.user, r.args.name)
    /\ Go(r, "update")
    /\ UNCHANGED <<stored, rows, disk, temps, sent, failed>>

\* An operator's updateOne that finds nothing is no error: the media are moved.
Collides(r) == /\ NewFolder(r, r.args.to) \in folders
               /\ r.user \in Admins \/ Named(r.user, r.args.name) # {}
RenameUpdates(r) ==
    /\ RequestAt(r, "rename", "update")
    /\ IF Collides(r) THEN Answer(r) /\ UNCHANGED folders
       ELSE /\ Go(r, "media")
            /\ folders' = IF r.user \in Admins THEN folders \union {NewFolder(r, r.args.to)}
                          ELSE {IF f \in Named(r.user, r.args.name)
                                THEN [f EXCEPT !.name = r.args.to] ELSE f : f \in folders}
    /\ UNCHANGED <<stored, rows, disk, temps, sent, failed>>

DropFolder(r) ==
    /\ RequestAt(r, "drop", "begin")
    /\ folders' = folders \ Named(r.user, r.args.name)
    /\ IF Named(r.user, r.args.name) = {} THEN Answer(r) ELSE Go(r, "media")
    /\ UNCHANGED <<stored, rows, disk, temps, sent, failed>>

Target(r) == IF r.args.op = "rename" THEN r.args.to ELSE Root

Moved(r, S) ==
    {IF s.folder = r.args.name /\ (r.user \in Admins \/ s.owner = r.user)
     THEN [s EXCEPT !.folder = Target(r)] ELSE s : s \in S}

\* The media of a folder follow it, or go to the root.
FolderMedia(r) ==
    /\ r.args.op \in {"rename", "drop"} /\ r.pc = "media"
    /\ stored' = Moved(r, stored) /\ Go(r, "rows")
    /\ UNCHANGED <<folders, rows, disk, temps, sent, failed>>

FolderRows(r) ==
    /\ r.args.op \in {"rename", "drop"} /\ r.pc = "rows"
    /\ rows' = Moved(r, rows) /\ Answer(r)
    /\ UNCHANGED <<stored, folders, disk, temps, sent, failed>>

Crash ==
    /\ ~failed /\ failed' = TRUE
    /\ requests' = {}
    /\ UNCHANGED <<stored, folders, rows, disk, temps, sent>>

MediaNext ==
    /\ \/ \E u \in working, c \in Contents, to \in Folder : StartUpload(u, c, to)
       \/ \E u \in working, name \in Names :
            \/ \E op \in {"create", "drop"} : StartFolder(u, op, name)
            \/ \E to \in Names : StartRename(u, name, to)
       \/ \E u \in working : \E m \in MediaSeen(u) :
            StartDelete(u, m.id) \/ \E to \in Folder : StartMove(u, m.id, to)
       \/ \E r \in requests :
            \/ FindDuplicate(r) \/ Commit(r) \/ Create(r) \/ DropRaced(r) \/ UpsertUploaded(r)
            \/ MoveFinds(r) \/ MoveChecks(r) \/ MoveSaves(r) \/ MoveUpserts(r)
            \/ DeleteFindsMedium(r) \/ DeleteRemoves(r) \/ DeleteFile(r)
            \/ CreateChecks(r) \/ CreateFolder(r)
            \/ RenameChecks(r) \/ RenameDrops(r) \/ RenameUpdates(r) \/ DropFolder(r)
            \/ FolderMedia(r) \/ FolderRows(r)
       \/ Crash
    /\ UNCHANGED <<working, together>>

MediaSpec == MediaInit /\ [][MediaNext]_mediaVars

(***************************************************************************)
(* Properties                                                              *)
(***************************************************************************)
\* Every variable has its type.
MediaTypeOK ==
    /\ stored \subseteq MediaDoc /\ folders \subseteq FolderDoc /\ rows \subseteq Row
    /\ disk \subseteq Paths /\ temps \subseteq Nat
    /\ requests \subseteq [n : Nat, user : Users, pc : Steps, args : Args,
                           kept : MediaDoc \union {Root}]
    /\ sent \in Nat /\ failed \in BOOLEAN
    /\ working \subseteq Users /\ together \in BOOLEAN

\* Every medium has its file, whatever uploads of the same content, deletions
\* and crashes come between the steps of its upload.
MediaHaveFiles == \A m \in stored : m.path \in disk

\* Without a crash, what the uploads and deletions leave in the storage are the
\* files of the media.
FilesHaveMedia ==
    requests = {} /\ ~failed => disk \subseteq {m.path : m \in stored} /\ temps = {}

\* With no request under way every medium is at the root or in a folder its
\* owner, or the tenant, can open.
Openable(m) ==
    \/ m.folder = Root
    \/ \E f \in folders : f.name = m.folder /\ f.owner \in {m.owner, FolderOwner(m.owner)}
NothingStranded == requests = {} /\ ~failed => \A m \in stored : Openable(m)

\* No medium is in a folder that nobody has any more.
NoLostFolder ==
    requests = {} /\ ~failed =>
        \A m \in stored : m.folder \in {Root} \union {f.name : f \in folders}

\* With no request under way the shadow rows are the media, each in its folder.
RowsFollow ==
    requests = {} /\ ~failed =>
        rows = {[id |-> m.id, owner |-> m.owner, folder |-> m.folder] : m \in stored}

\* Media and their files come and go together when uploads and deletions
\* overlap.  If other requests are made one at a time, the shadow rows follow
\* and no medium is left in a folder that nobody can open: that its owner
\* cannot open if operators work, that is gone if administrators work.
MediaStayReachable ==
    /\ MediaHaveFiles /\ FilesHaveMedia
    /\ ~together =>
        /\ RowsFollow
        /\ (working \subseteq Operators) => NothingStranded
        /\ (working \subseteq Admins) => NoLostFolder
=============================================================================
