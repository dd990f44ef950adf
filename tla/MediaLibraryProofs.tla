------------------------- MODULE MediaLibraryProofs -------------------------
(***************************************************************************)
(* Proofs about MediaLibrary: for any users, contents and number of        *)
(* requests, however uploads, deletions, moves and folder requests         *)
(* overlap, and wherever the backend crashes, a medium never loses its     *)
(* file; and without a failure no file is left without its medium.  If     *)
(* only uploads overlap, the rows follow the media and no medium is lost   *)
(* in a folder.                                                            *)
(*                                                                         *)
(* The first half shows IInv, who owns each file, for all behaviours; the  *)
(* second shows SerialInv, what the rows and folders are while a request   *)
(* is under way, for those whose requests come one at a time.              *)
(***************************************************************************)
EXTENDS MediaLibrary, TLAPS

\* A request that works on an upload which has no medium yet.
Uploads(r) == r.args.op = "upload"
Pending(r) == Uploads(r) /\ r.pc # "upsert"
Stored(r) == Uploads(r) /\ r.pc \in {"create", "raced"}
Deletes(r) == r.args.op = "delete"

TypesOK ==
    /\ stored \subseteq MediaDoc /\ folders \subseteq FolderDoc /\ rows \subseteq Row
    /\ disk \subseteq Paths /\ temps \subseteq Nat
    /\ requests \subseteq [n : Nat, user : Users, pc : Steps, args : Args,
                           kept : MediaDoc \union {Root}]
    /\ sent \in Nat /\ failed \in BOOLEAN
FixedOK == working \subseteq Users /\ together \in BOOLEAN

\* A medium is named by the upload that made it, and so is its file.
MediaOK ==
    /\ \A m \in stored : m.id \in 1 .. sent /\ m.path = m.id /\ m.path \in disk
    /\ \A m, k \in stored : m.id = k.id => m = k

\* What a request holds from one await to the next.
Shape(r) ==
    /\ Uploads(r) => r.pc \in {"begin", "commit", "create", "raced", "upsert"}
    /\ r.args.op = "move" /\ r.pc # "begin" => r.kept \in MediaDoc
    /\ Deletes(r) => r.pc \in {"begin", "remove", "files"}
    /\ Deletes(r) /\ r.pc # "begin" => r.kept \in MediaDoc /\ r.kept.path = r.args.id

RequestsOK ==
    /\ \A r \in requests : Shape(r) /\ r.n \in 1 .. sent
    /\ \A r, q \in requests : r.n = q.n => r = q

(***************************************************************************)
(* An upload's number names its file until its medium is made; a deletion  *)
(* works on the number of an upload that was there.                        *)
(***************************************************************************)
UploadsOK ==
    /\ \A r \in requests : Pending(r) => \A m \in stored : m.id # r.n
    /\ \A r \in requests : Stored(r) => r.n \in disk
    /\ \A r \in requests : Deletes(r) =>
         /\ r.args.id \in 1 .. sent
         /\ \A q \in requests : Pending(q) => q.n # r.args.id
         /\ r.pc = "files" => \A m \in stored : m.id # r.args.id

\* Whose every file is, as long as nothing has failed.
Owned(x) ==
    \/ \E m \in stored : m.path = x
    \/ \E r \in requests : Stored(r) /\ r.n = x
    \/ \E r \in requests : Deletes(r) /\ r.pc = "files" /\ r.args.id = x
FilesOwned ==
    ~failed => /\ \A x \in disk : Owned(x)
               /\ \A x \in temps : \E r \in requests :
                    Uploads(r) /\ r.pc \in {"begin", "commit"} /\ r.n = x

IInv == TypesOK /\ MediaOK /\ RequestsOK /\ UploadsOK /\ FilesOwned

Request == [n : Nat, user : Users, pc : Steps, args : Args, kept : MediaDoc \union {Root}]

-----------------------------------------------------------------------------
(* Requests                                                                *)

LEMMA ArgsFields ==
    ASSUME NEW a \in Args
    PROVE  /\ a.op = "upload" => a.content \in Contents /\ a.to \in Folder
           /\ a.op = "move" => a.id \in Nat /\ a.to \in Folder
           /\ a.op = "delete" => a.id \in Nat
           /\ a.op \in {"create", "drop", "rename"} => a.name \in Names
           /\ a.op = "rename" => a.to \in Names
BY DEF Args

LEMMA RequestFields ==
    ASSUME TypesOK, NEW r \in requests
    PROVE  /\ r \in Request /\ r.n \in Nat /\ r.user \in Users /\ r.pc \in Steps
           /\ r.args \in Args /\ r.kept \in MediaDoc \union {Root}
BY DEF TypesOK, Request

LEMMA MediaFields ==
    ASSUME NEW m \in MediaDoc
    PROVE  m.id \in Nat /\ m.owner \in Users /\ m.content \in Contents
           /\ m.path \in Paths /\ m.folder \in Folder
BY DEF MediaDoc

LEMMA GoFields ==
    ASSUME NEW r \in Request, NEW pc \in Steps
    PROVE  LET q == [r EXCEPT !.pc = pc] IN
           /\ q \in Request /\ q.n = r.n /\ q.user = r.user /\ q.pc = pc
           /\ q.args = r.args /\ q.kept = r.kept
BY DEF Request

LEMMA KeepFields ==
    ASSUME NEW r \in Request, NEW pc \in Steps, NEW m \in MediaDoc
    PROVE  LET q == [r EXCEPT !.pc = pc, !.kept = m] IN
           /\ q \in Request /\ q.n = r.n /\ q.user = r.user /\ q.pc = pc
           /\ q.args = r.args /\ q.kept = m
BY DEF Request

LEMMA MoveFields ==
    ASSUME NEW r \in Request, NEW a \in Args
    PROVE  LET q == [r EXCEPT !.pc = "begin", !.args = a] IN
           /\ q \in Request /\ q.n = r.n /\ q.user = r.user /\ q.pc = "begin"
           /\ q.args = a /\ q.kept = r.kept
BY DEF Request, Steps

\* A request is answered, or replaced by what it is after its step.
Becomes(r, N) ==
    /\ requests' = (requests \ {r}) \union N
    /\ \A q \in N : q \in Request /\ q.n = r.n /\ Shape(q)
    /\ \A q, k \in N : q = k

LEMMA Answers ==
    ASSUME NEW r, Answer(r)
    PROVE  Becomes(r, {})
BY DEF Answer, Becomes

LEMMA BecomesOK ==
    ASSUME IInv, NEW r \in requests, NEW N, Becomes(r, N), UNCHANGED sent
    PROVE  RequestsOK' /\ requests' \subseteq Request
<1>1. requests' \subseteq Request
  BY RequestFields DEF Becomes, IInv
<1>2. ASSUME NEW q \in requests' PROVE Shape(q) /\ q.n \in 1 .. sent
  BY DEF Becomes, IInv, RequestsOK
<1>3. ASSUME NEW q \in requests', NEW k \in requests', q.n = k.n PROVE q = k
  BY <1>3 DEF Becomes, IInv, RequestsOK
<1> QED
  BY <1>1, <1>2, <1>3 DEF RequestsOK

\* A page sends a request.
LEMMA Sends ==
    ASSUME IInv, NEW u \in Users, NEW args \in Args, Send(u, args),
           args.op = "delete" => \E m \in stored : m.id = args.id,
           UNCHANGED <<stored, folders, rows, disk, failed>>,
           \/ UNCHANGED temps
           \/ args.op = "upload" /\ temps' = temps \union {sent + 1}
    PROVE  IInv'
<1> DEFINE q == [n |-> sent + 1, user |-> u, pc |-> "begin", args |-> args, kept |-> Root]
<1>1. sent \in Nat /\ sent' = sent + 1 /\ requests' = requests \union {q}
  BY DEF Send, IInv, TypesOK
<1>2. q.n = sent + 1 /\ q.pc = "begin" /\ q.args = args /\ q \in Request
  BY <1>1 DEF Request, Steps
<1> HIDE DEF q
<1>3. TypesOK'
  BY <1>1, <1>2 DEF IInv, TypesOK, Request
<1>4. MediaOK'
  BY <1>1 DEF IInv, MediaOK
<1>5. RequestsOK'
  <2>1. Shape(q)
    BY <1>2 DEF Shape, Uploads, Deletes
  <2>2. \A r \in requests : r.n \in 1 .. sent /\ Shape(r)
    BY DEF IInv, RequestsOK
  <2>3. \A r \in requests' : Shape(r) /\ r.n \in 1 .. sent'
    BY <1>1, <1>2, <2>1, <2>2
  <2>4. ASSUME NEW r \in requests', NEW k \in requests', r.n = k.n PROVE r = k
    BY <1>1, <1>2, <2>2, <2>4 DEF IInv, RequestsOK
  <2> QED
    BY <2>3, <2>4 DEF RequestsOK
<1>6. UploadsOK'
  <2>1. /\ \A r \in requests : r.n \in 1 .. sent
        /\ \A m \in stored : m.id \in 1 .. sent
    BY DEF IInv, RequestsOK, MediaOK
  <2>2. ~Stored(q)
    BY <1>2 DEF Stored
  <2>3. \A r \in requests' : Pending(r) => \A m \in stored : m.id # r.n
    BY <1>1, <1>2, <2>1 DEF IInv, UploadsOK
  <2>4. \A r \in requests' : Stored(r) => r.n \in disk
    BY <1>1, <2>2 DEF IInv, UploadsOK
  <2>5. ASSUME NEW r \in requests', Deletes(r)
        PROVE  /\ r.args.id \in 1 .. sent
               /\ \A k \in requests : Pending(k) => k.n # r.args.id
               /\ r.pc = "files" => \A m \in stored : m.id # r.args.id
    <3>1. CASE r \in requests
      BY <2>5, <3>1 DEF IInv, UploadsOK
    <3>2. CASE r = q
      <4>1. PICK m \in stored : m.id = args.id
        BY <1>2, <2>5, <3>2 DEF Deletes
      <4> QED
        BY <1>2, <2>1, <3>2, <4>1 DEF IInv, UploadsOK
    <3> QED
      BY <1>1, <3>1, <3>2
  <2>6. ASSUME NEW r \in requests', Deletes(r)
        PROVE  /\ r.args.id \in 1 .. sent'
               /\ \A k \in requests' : Pending(k) => k.n # r.args.id
    BY <1>1, <1>2, <2>5, <2>6
  <2> QED
    BY <2>3, <2>4, <2>5, <2>6 DEF UploadsOK
<1>7. FilesOwned'
  <2>1. \A x : Owned(x) => Owned(x)'
    BY <1>1 DEF Owned
  <2>2. args.op = "upload" => Uploads(q) /\ q.pc \in {"begin", "commit"} /\ q.n = sent + 1
    BY <1>2 DEF Uploads
  <2> QED
    BY <1>1, <2>1, <2>2 DEF IInv, FilesOwned
<1> QED
  BY <1>3, <1>4, <1>5, <1>6, <1>7 DEF IInv

-----------------------------------------------------------------------------
(* Moves and folders: files and uploads are not touched                    *)

Plain(r) == ~Pending(r) /\ ~Deletes(r)

\* The media keep their numbers and paths.
SameMedia ==
    /\ \A m \in stored' : \E k \in stored : k.id = m.id /\ k.path = m.path
    /\ \A k \in stored : \E m \in stored' : k.id = m.id /\ k.path = m.path
    /\ \A m, k \in stored' : m.id = k.id => m = k

LEMMA PlainGoes ==
    ASSUME IInv, NEW r \in requests, Plain(r), NEW N, Becomes(r, N),
           \A q \in N : Plain(q), SameMedia, UNCHANGED <<disk, temps, sent, failed>>
    PROVE  MediaOK' /\ RequestsOK' /\ UploadsOK' /\ FilesOwned'
<1>1. RequestsOK'
  BY BecomesOK
<1>2. MediaOK'
  BY DEF IInv, MediaOK, SameMedia
<1>3. /\ \A q \in requests' : Pending(q) \/ Deletes(q) => q \in requests
      /\ \A q \in requests : Pending(q) \/ Deletes(q) => q \in requests'
      /\ \A q : Stored(q) => Pending(q)
  BY DEF Becomes, Plain, Stored, Pending
<1>4. UploadsOK'
  <2>1. ASSUME NEW x, \A m \in stored : m.id # x PROVE \A m \in stored' : m.id # x
    BY <2>1 DEF SameMedia
  <2>2. \A q \in requests' : Pending(q) => \A m \in stored' : m.id # q.n
    BY <1>3, <2>1 DEF IInv, UploadsOK
  <2>3. \A q \in requests' : Stored(q) => q.n \in disk
    BY <1>3 DEF IInv, UploadsOK
  <2>4. ASSUME NEW q \in requests', Deletes(q)
        PROVE  /\ q.args.id \in 1 .. sent
               /\ \A k \in requests' : Pending(k) => k.n # q.args.id
               /\ q.pc = "files" => \A m \in stored' : m.id # q.args.id
    BY <1>3, <2>1, <2>4 DEF IInv, UploadsOK
  <2> QED
    BY <2>2, <2>3, <2>4 DEF UploadsOK
<1>5. FilesOwned'
  <2>1. ASSUME NEW x, Owned(x) PROVE Owned(x)'
    BY <1>3, <2>1 DEF Owned, SameMedia
  <2>2. \A q \in requests : Uploads(q) /\ q.pc \in {"begin", "commit"} => q \in requests'
    BY <1>3 DEF Pending
  <2> QED
    BY <2>1, <2>2 DEF IInv, FilesOwned
<1> QED
  BY <1>1, <1>2, <1>4, <1>5

LEMMA NoneMoved == ASSUME IInv, UNCHANGED stored PROVE SameMedia
BY DEF SameMedia, IInv, MediaOK

\* Media whose folders alone change.
LEMMA Refoldered ==
    ASSUME IInv, NEW to \in Folder, NEW there,
           stored' = {IF m \in there THEN [m EXCEPT !.folder = to] ELSE m : m \in stored}
    PROVE  SameMedia /\ stored' \subseteq MediaDoc
<1> DEFINE After(m) == IF m \in there THEN [m EXCEPT !.folder = to] ELSE m
<1>1. \A m \in stored : m \in MediaDoc
  BY DEF IInv, TypesOK
<1>2. ASSUME NEW m \in stored
      PROVE  After(m) \in MediaDoc /\ After(m).id = m.id /\ After(m).path = m.path
  BY <1>1 DEF MediaDoc
<1>3. stored' = {After(m) : m \in stored}
  OBVIOUS
<1> HIDE DEF After
<1>4. \A m, k \in stored' : m.id = k.id => m = k
  BY <1>2, <1>3 DEF IInv, MediaOK
<1> QED
  BY <1>2, <1>3, <1>4 DEF SameMedia

LEMMA PlainGo ==
    ASSUME IInv, NEW r \in requests, r.args.op \in {"move", "create", "rename", "drop"},
           NEW pc \in Steps, Go(r, pc), r.args.op = "move" => r.kept \in MediaDoc
    PROVE  \E N : Becomes(r, N) /\ Plain(r) /\ \A q \in N : Plain(q)
<1> DEFINE q == [r EXCEPT !.pc = pc]
<1>1. /\ q \in Request /\ q.n = r.n /\ q.pc = pc /\ q.args = r.args /\ q.kept = r.kept
      /\ requests' = (requests \ {r}) \union {q}
  BY RequestFields, GoFields DEF Go, IInv
<1> HIDE DEF q
<1>2. Shape(q) /\ Plain(q) /\ Plain(r)
  BY <1>1 DEF Shape, Plain, Pending, Uploads, Deletes
<1>3. Becomes(r, {q})
  BY <1>1, <1>2 DEF Becomes
<1> QED
  BY <1>2, <1>3

LEMMA PlainAnswer ==
    ASSUME NEW r, r.args.op \in {"move", "create", "rename", "drop"}, Answer(r)
    PROVE  \E N : Becomes(r, N) /\ Plain(r) /\ \A q \in N : Plain(q)
<1>1. Becomes(r, {}) /\ Plain(r)
  BY Answers DEF Plain, Pending, Uploads, Deletes
<1> QED
  BY <1>1

\* What a step of these must still show.
LEMMA PlainStep ==
    ASSUME IInv, NEW r \in requests,
           \E N : Becomes(r, N) /\ Plain(r) /\ \A q \in N : Plain(q),
           SameMedia, stored' \subseteq MediaDoc, folders' \subseteq FolderDoc, rows' \subseteq Row,
           UNCHANGED <<disk, temps, sent, failed>>
    PROVE  IInv'
<1>1. requests' \subseteq Request
  BY BecomesOK
<1>2. TypesOK'
  BY <1>1 DEF IInv, TypesOK, Request
<1>3. MediaOK' /\ RequestsOK' /\ UploadsOK' /\ FilesOwned'
  BY PlainGoes
<1> QED
  BY <1>2, <1>3 DEF IInv

LEMMA Kinds3 == IInv => stored \subseteq MediaDoc /\ folders \subseteq FolderDoc /\ rows \subseteq Row
BY DEF IInv, TypesOK

LEMMA StepNames ==
    /\ "check" \in Steps /\ "save" \in Steps /\ "upsert" \in Steps /\ "update" \in Steps
    /\ "remove" \in Steps /\ "media" \in Steps /\ "rows" \in Steps /\ "files" \in Steps
    /\ "commit" \in Steps /\ "create" \in Steps /\ "raced" \in Steps
BY DEF Steps

\* A request that has found the medium it works on.
Found(r, pc, m) == [r EXCEPT !.pc = pc, !.kept = m]
LEMMA FoundFor ==
    ASSUME IInv, NEW r \in requests, NEW pc \in Steps, NEW m \in MediaDoc,
           requests' = (requests \ {r}) \union {Found(r, pc, m)}
    PROVE  \E q \in Request :
             /\ q.n = r.n /\ q.pc = pc /\ q.args = r.args /\ q.kept = m
             /\ requests' = (requests \ {r}) \union {q}
<1> DEFINE q == Found(r, pc, m)
<1>1. r \in Request
  BY RequestFields DEF IInv
<1>2. q \in Request /\ q.n = r.n /\ q.pc = pc /\ q.args = r.args /\ q.kept = m
  BY <1>1, KeepFields DEF Found
<1> QED
  BY <1>2

LEMMA MoveFindsStep ==
    ASSUME IInv, NEW r \in requests, MoveFinds(r) PROVE IInv'
<1>1. r.args.op = "move" /\ UNCHANGED <<stored, folders, rows, disk, temps, sent, failed>>
  BY DEF MoveFinds, RequestAt
<1>2. CASE Answer(r)
  BY <1>1, <1>2, PlainAnswer, PlainStep, NoneMoved, Kinds3
<1>3. ASSUME NEW m \in Medium(r),
             requests' = (requests \ {r}) \union {Found(r, "check", m)}
      PROVE  IInv'
  <2>1. m \in MediaDoc
    BY DEF Medium, MediaSeen, IInv, TypesOK
  <2>2. PICK q \in Request :
          /\ q.n = r.n /\ q.pc = "check" /\ q.args = r.args /\ q.kept = m
          /\ requests' = (requests \ {r}) \union {q}
    BY <1>3, <2>1, StepNames, FoundFor
  <2>3. Shape(q) /\ Plain(q) /\ Plain(r)
    BY <1>1, <2>1, <2>2 DEF Shape, Plain, Pending, Uploads, Deletes
  <2>4. Becomes(r, {q})
    BY <2>2, <2>3 DEF Becomes
  <2> QED
    BY <1>1, <2>3, <2>4, PlainStep, NoneMoved, Kinds3
<1> QED
  BY <1>2, <1>3 DEF MoveFinds, Found

LEMMA MoveChecksStep ==
    ASSUME IInv, NEW r \in requests, MoveChecks(r) PROVE IInv'
<1>1. /\ r.args.op = "move" /\ r.pc = "check"
      /\ UNCHANGED <<stored, folders, rows, disk, temps, sent, failed>>
      /\ Go(r, "save") \/ Answer(r)
  BY DEF MoveChecks, RequestAt
<1>2. r.kept \in MediaDoc
  BY <1>1 DEF IInv, RequestsOK, Shape
<1>3. \E N : Becomes(r, N) /\ Plain(r) /\ \A q \in N : Plain(q)
  BY <1>1, <1>2, PlainAnswer, PlainGo, StepNames
<1> QED
  BY <1>1, <1>3, PlainStep, NoneMoved, Kinds3

LEMMA MoveSavesStep ==
    ASSUME IInv, NEW r \in requests, MoveSaves(r) PROVE IInv'
<1> DEFINE there == {m \in stored : m.id = r.args.id}
<1>1. /\ r.args.op = "move" /\ r.pc = "save"
      /\ UNCHANGED <<folders, rows, disk, temps, sent, failed>>
      /\ Go(r, "upsert") \/ Answer(r)
      /\ \/ UNCHANGED stored
         \/ stored' = (stored \ there) \union {[m EXCEPT !.folder = r.args.to] : m \in there}
  BY DEF MoveSaves, RequestAt
<1>2. r.kept \in MediaDoc
  BY <1>1 DEF IInv, RequestsOK, Shape
<1>3. \E N : Becomes(r, N) /\ Plain(r) /\ \A q \in N : Plain(q)
  BY <1>1, <1>2, PlainAnswer, PlainGo, StepNames
<1>4. r.args.to \in Folder
  BY <1>1, RequestFields, ArgsFields DEF IInv
<1>5. SameMedia /\ stored' \subseteq MediaDoc
  <2>1. CASE UNCHANGED stored
    BY <2>1, NoneMoved, Kinds3
  <2>2. CASE stored' = (stored \ there) \union {[m EXCEPT !.folder = r.args.to] : m \in there}
    <3>1. there \subseteq stored
      OBVIOUS
    <3> HIDE DEF there
    <3>2. stored' = {IF m \in there THEN [m EXCEPT !.folder = r.args.to] ELSE m : m \in stored}
      BY <2>2, <3>1
    <3> QED
      BY <1>4, <3>2, Refoldered
  <2> QED
    BY <1>1, <2>1, <2>2
<1> QED
  BY <1>1, <1>3, <1>5, PlainStep, Kinds3

LEMMA RowSetTypes ==
    ASSUME IInv, NEW id \in Nat, NEW owner \in Users, NEW to \in Folder
    PROVE  RowSet(id, owner, to) \subseteq Row
BY DEF RowSet, IInv, TypesOK, Row

LEMMA MoveUpsertsStep ==
    ASSUME IInv, NEW r \in requests, MoveUpserts(r) PROVE IInv'
<1>1. /\ r.args.op = "move" /\ r.pc = "upsert" /\ Answer(r)
      /\ UNCHANGED <<stored, folders, disk, temps, sent, failed>>
      /\ rows' = RowSet(r.args.id, r.kept.owner, r.args.to)
  BY DEF MoveUpserts, RequestAt
<1>2. r.kept \in MediaDoc
  BY <1>1 DEF IInv, RequestsOK, Shape
<1>3. r.args.id \in Nat /\ r.args.to \in Folder /\ r.kept.owner \in Users
  BY <1>1, <1>2, RequestFields, ArgsFields, MediaFields DEF IInv
<1>4. rows' \subseteq Row
  BY <1>1, <1>3, RowSetTypes
<1> QED
  BY <1>1, <1>4, PlainAnswer, PlainStep, NoneMoved, Kinds3

\* An upload that has its medium, and its move.
LEMMA UpsertUploadedStep ==
    ASSUME IInv, NameAssumption, NEW r \in requests, UpsertUploaded(r) PROVE IInv'
<1> DEFINE args == [op |-> "move", id |-> r.n, to |-> r.args.to]
           q == [r EXCEPT !.pc = "begin", !.args = args]
<1>1. /\ r.args.op = "upload" /\ r.pc = "upsert"
      /\ UNCHANGED <<stored, folders, disk, temps, sent, failed>>
      /\ rows' = RowSet(r.n, r.user, Root)
      /\ Answer(r) \/ requests' = (requests \ {r}) \union {q}
  BY DEF UpsertUploaded, RequestAt
<1>2. /\ r.n \in Nat /\ r.user \in Users /\ r.args.to \in Folder /\ Root \in Folder
      /\ r \in Request
  BY <1>1, RequestFields, ArgsFields DEF IInv, Folder
<1>3. rows' \subseteq Row
  BY <1>1, <1>2, RowSetTypes
<1>4. args \in Args /\ args.op = "move"
  BY <1>2 DEF Args
<1> HIDE DEF args
<1>5. q \in Request /\ q.n = r.n /\ q.pc = "begin" /\ q.args = args
  BY <1>2, <1>4, MoveFields
<1> HIDE DEF q
<1>6. Shape(q) /\ Plain(q) /\ Plain(r)
  BY <1>1, <1>4, <1>5 DEF Shape, Plain, Pending, Uploads, Deletes
<1>7. \E N : Becomes(r, N) /\ Plain(r) /\ \A k \in N : Plain(k)
  <2>1. CASE Answer(r)
    BY <1>6, <2>1, Answers
  <2>2. CASE requests' = (requests \ {r}) \union {q}
    <3>1. Becomes(r, {q})
      BY <1>5, <1>6, <2>2 DEF Becomes
    <3> QED
      BY <1>6, <3>1
  <2> QED
    BY <1>1, <2>1, <2>2
<1> QED
  BY <1>1, <1>3, <1>7, PlainStep, NoneMoved, Kinds3

LEMMA FolderDocs ==
    ASSUME IInv, NEW r \in requests, r.args.op \in {"create", "rename", "drop"}
    PROVE  /\ r.args.name \in Names /\ NewFolder(r, r.args.name) \in FolderDoc
           /\ r.args.op = "rename" =>
                r.args.to \in Names /\ NewFolder(r, r.args.to) \in FolderDoc
BY RequestFields, ArgsFields DEF IInv, NewFolder, FolderOwner, FolderDoc

LEMMA FolderRequestStep ==
    ASSUME IInv, NEW r \in requests,
           \/ CreateChecks(r) \/ CreateFolder(r) \/ RenameChecks(r) \/ RenameDrops(r)
           \/ RenameUpdates(r) \/ DropFolder(r)
    PROVE  IInv'
<1>1. /\ r.args.op \in {"create", "rename", "drop"}
      /\ UNCHANGED <<stored, rows, disk, temps, sent, failed>>
      /\ Answer(r) \/ \E pc \in {"update", "remove", "media"} : Go(r, pc)
  BY DEF CreateChecks, CreateFolder, RenameChecks, RenameDrops, RenameUpdates, DropFolder, RequestAt
<1>2. folders' \subseteq FolderDoc
  <2>1. folders \subseteq FolderDoc
    BY Kinds3
  <2>2. CASE folders' \subseteq folders
    BY <2>1, <2>2
  <2>3. ASSUME NEW name \in Names, NewFolder(r, name) \in FolderDoc,
               folders' = folders \union {NewFolder(r, name)}
        PROVE  folders' \subseteq FolderDoc
    BY <2>1, <2>3
  <2>4. ASSUME r.args.op = "rename",
               folders' = {IF f \in Named(r.user, r.args.name)
                           THEN [f EXCEPT !.name = r.args.to] ELSE f : f \in folders}
        PROVE  folders' \subseteq FolderDoc
    <3>1. r.args.to \in Names
      BY <2>4, FolderDocs
    <3>2. \A f \in folders : [f EXCEPT !.name = r.args.to] \in FolderDoc
      BY <2>1, <3>1 DEF FolderDoc
    <3> QED
      BY <2>1, <2>4, <3>2
  <2>5. CASE CreateFolder(r)
    BY <2>3, <2>5, FolderDocs DEF CreateFolder, RequestAt
  <2>6. CASE RenameUpdates(r)
    BY <2>2, <2>3, <2>4, <2>6, FolderDocs DEF RenameUpdates, RequestAt
  <2>7. CASE CreateChecks(r) \/ RenameChecks(r) \/ RenameDrops(r) \/ DropFolder(r)
    BY <2>2, <2>7 DEF CreateChecks, RenameChecks, RenameDrops, DropFolder
  <2> QED
    BY <2>5, <2>6, <2>7
<1>3. \E N : Becomes(r, N) /\ Plain(r) /\ \A q \in N : Plain(q)
  BY <1>1, PlainAnswer, PlainGo, StepNames
<1> QED
  BY <1>1, <1>2, <1>3, PlainStep, NoneMoved, Kinds3

LEMMA TargetFolder ==
    ASSUME IInv, NEW r \in requests, r.args.op \in {"rename", "drop"}
    PROVE  Target(r) \in Folder
BY FolderDocs DEF Target, Folder

LEMMA FolderMediaStep ==
    ASSUME IInv, NEW r \in requests, FolderMedia(r) PROVE IInv'
<1> DEFINE there == {m \in stored : m.folder = r.args.name
                                   /\ (r.user \in Admins \/ m.owner = r.user)}
<1>1. /\ r.args.op \in {"rename", "drop"} /\ stored' = Moved(r, stored) /\ Go(r, "rows")
      /\ UNCHANGED <<folders, rows, disk, temps, sent, failed>>
  BY DEF FolderMedia
<1>2. stored' = {IF m \in there THEN [m EXCEPT !.folder = Target(r)] ELSE m : m \in stored}
  BY <1>1 DEF Moved
<1>3. SameMedia /\ stored' \subseteq MediaDoc
  <2> HIDE DEF there
  <2> QED
    BY <1>1, <1>2, TargetFolder, Refoldered
<1>4. \E N : Becomes(r, N) /\ Plain(r) /\ \A q \in N : Plain(q)
  <2>1. "rows" \in Steps
    BY StepNames
  <2> QED
    BY <1>1, <2>1, PlainGo
<1> QED
  BY <1>1, <1>3, <1>4, PlainStep, Kinds3

LEMMA FolderRowsStep ==
    ASSUME IInv, NEW r \in requests, FolderRows(r) PROVE IInv'
<1>1. /\ r.args.op \in {"rename", "drop"} /\ rows' = Moved(r, rows) /\ Answer(r)
      /\ UNCHANGED <<stored, folders, disk, temps, sent, failed>>
  BY DEF FolderRows
<1>2. rows' \subseteq Row
  <2>1. \A w \in rows : w \in Row /\ [w EXCEPT !.folder = Target(r)] \in Row
    BY <1>1, TargetFolder, Kinds3 DEF Row
  <2> QED
    BY <1>1, <2>1 DEF Moved
<1> QED
  BY <1>1, <1>2, PlainAnswer, PlainStep, NoneMoved, Kinds3

-----------------------------------------------------------------------------
(* Uploads and deletions                                                   *)

\* A step of an upload or a deletion: what it must show beside the types.
LEMMA FileStep ==
    ASSUME IInv, NEW r \in requests, NEW N, Becomes(r, N), UNCHANGED <<folders, sent>>,
           stored' \subseteq MediaDoc, rows' \subseteq Row, disk' \subseteq Paths,
           temps' \subseteq Nat, failed' \in BOOLEAN,
           MediaOK', UploadsOK', FilesOwned'
    PROVE  IInv'
<1>1. requests' \subseteq Request /\ RequestsOK'
  BY BecomesOK
<1>2. TypesOK'
  BY <1>1 DEF IInv, TypesOK, Request
<1> QED
  BY <1>1, <1>2 DEF IInv

LEMMA FileTypes == IInv => disk \subseteq Paths /\ temps \subseteq Nat /\ failed \in BOOLEAN
BY DEF IInv, TypesOK

LEMMA PlainIsNone == \A r : Stored(r) => Pending(r)
BY DEF Stored, Pending

LEMMA Gone ==
    ASSUME IInv, NEW r \in requests, NEW pc \in Steps, Go(r, pc)
    PROVE  \E q \in Request :
             /\ q.n = r.n /\ q.pc = pc /\ q.args = r.args /\ q.kept = r.kept
             /\ requests' = (requests \ {r}) \union {q}
<1> DEFINE q == [r EXCEPT !.pc = pc]
<1>1. r \in Request
  BY RequestFields DEF IInv
<1>2. q \in Request /\ q.n = r.n /\ q.pc = pc /\ q.args = r.args /\ q.kept = r.kept
  BY <1>1, GoFields
<1>3. requests' = (requests \ {r}) \union {q}
  BY DEF Go
<1> QED
  BY <1>2, <1>3

LEMMA FindDuplicateStep ==
    ASSUME IInv, NEW r \in requests, FindDuplicate(r) PROVE IInv'
<1>1. /\ Uploads(r) /\ r.pc = "begin" /\ UNCHANGED <<stored, folders, rows, disk, sent, failed>>
      /\ \/ Answer(r) /\ temps' = temps \ {r.n}
         \/ Go(r, "commit") /\ UNCHANGED temps
  BY DEF FindDuplicate, RequestAt, Uploads
<1>2. MediaOK'
  BY <1>1 DEF IInv, MediaOK
<1>3. CASE Answer(r) /\ temps' = temps \ {r.n}
  <2>1. requests' = requests \ {r} /\ Becomes(r, {})
    BY <1>3, Answers DEF Answer
  <2>2. UploadsOK'
    BY <1>1, <2>1 DEF IInv, UploadsOK
  <2>3. FilesOwned'
    <3>1. ~Stored(r) /\ ~Deletes(r)
      BY <1>1 DEF Stored, Uploads, Deletes
    <3>2. \A x : Owned(x) => Owned(x)'
      BY <1>1, <2>1, <3>1 DEF Owned
    <3> QED
      BY <1>1, <1>3, <2>1, <3>2 DEF IInv, FilesOwned
  <2> QED
    BY <1>1, <1>2, <1>3, <2>1, <2>2, <2>3, FileStep, FileTypes, Kinds3
<1>4. CASE Go(r, "commit") /\ UNCHANGED temps
  <2>1. PICK q \in Request :
          /\ q.n = r.n /\ q.pc = "commit" /\ q.args = r.args /\ q.kept = r.kept
          /\ requests' = (requests \ {r}) \union {q}
    BY <1>4, Gone, StepNames
  <2>2. /\ Uploads(q) /\ Pending(q) /\ Pending(r) /\ ~Stored(q) /\ ~Stored(r)
        /\ ~Deletes(q) /\ ~Deletes(r)
    BY <1>1, <2>1 DEF Uploads, Pending, Stored, Deletes
  <2>3. Becomes(r, {q})
    BY <2>1, <2>2 DEF Becomes, Shape, Uploads, Deletes
  <2>4. UploadsOK'
    BY <1>1, <2>1, <2>2 DEF IInv, UploadsOK
  <2>5. FilesOwned'
    <3>1. \A x : Owned(x) => Owned(x)'
      BY <1>1, <2>1, <2>2 DEF Owned
    <3> QED
      BY <1>1, <1>4, <2>1, <2>2, <3>1 DEF IInv, FilesOwned
  <2> QED
    BY <1>1, <1>2, <1>4, <2>3, <2>4, <2>5, FileStep, FileTypes, Kinds3
<1> QED
  BY <1>1, <1>3, <1>4

LEMMA CommitStep ==
    ASSUME IInv, NEW r \in requests, Commit(r) PROVE IInv'
<1>1. /\ Uploads(r) /\ r.pc = "commit" /\ UNCHANGED <<stored, folders, rows, sent, failed>>
      /\ Go(r, "create") /\ temps' = temps \ {r.n} /\ disk' = disk \union {r.n}
  BY DEF Commit, RequestAt, Uploads, PathOf
<1>2. PICK q \in Request :
        /\ q.n = r.n /\ q.pc = "create" /\ q.args = r.args /\ q.kept = r.kept
        /\ requests' = (requests \ {r}) \union {q}
  BY <1>1, Gone, StepNames
<1>3. /\ Uploads(q) /\ Pending(q) /\ Pending(r) /\ Stored(q) /\ ~Stored(r)
      /\ ~Deletes(q) /\ ~Deletes(r)
  BY <1>1, <1>2 DEF Uploads, Pending, Stored, Deletes
<1>4. Becomes(r, {q})
  BY <1>2, <1>3 DEF Becomes, Shape, Uploads, Deletes
<1>5. MediaOK'
  BY <1>1 DEF IInv, MediaOK
<1>6. UploadsOK'
  BY <1>1, <1>2, <1>3 DEF IInv, UploadsOK
<1>7. FilesOwned'
  <2>1. \A x : Owned(x) => Owned(x)'
    BY <1>1, <1>2, <1>3 DEF Owned
  <2>2. Owned(r.n)'
    BY <1>2, <1>3 DEF Owned
  <2> QED
    BY <1>1, <1>2, <2>1, <2>2 DEF IInv, FilesOwned
<1>8. disk' \subseteq Paths /\ temps' \subseteq Nat
  BY <1>1, FileTypes, RequestFields DEF IInv, Paths
<1> QED
  BY <1>1, <1>4, <1>5, <1>6, <1>7, <1>8, FileStep, FileTypes, Kinds3

LEMMA CreateStep ==
    ASSUME IInv, NameAssumption, NEW r \in requests, Create(r) PROVE IInv'
<1>1. Uploads(r) /\ r.pc = "create" /\ UNCHANGED <<folders, rows, disk, temps, sent, failed>>
  BY DEF Create, RequestAt, Uploads
<1>2. Pending(r) /\ Stored(r) /\ ~Deletes(r)
  BY <1>1 DEF Uploads, Pending, Stored, Deletes
<1>3. CASE Go(r, "raced") /\ UNCHANGED stored
  <2>1. PICK q \in Request :
          /\ q.n = r.n /\ q.pc = "raced" /\ q.args = r.args /\ q.kept = r.kept
          /\ requests' = (requests \ {r}) \union {q}
    BY <1>3, Gone, StepNames
  <2>2. Uploads(q) /\ Pending(q) /\ Stored(q) /\ ~Deletes(q)
    BY <1>1, <2>1 DEF Uploads, Pending, Stored, Deletes
  <2>3. Becomes(r, {q})
    BY <2>1, <2>2 DEF Becomes, Shape, Uploads, Deletes
  <2>4. MediaOK' /\ UploadsOK'
    BY <1>1, <1>2, <1>3, <2>1, <2>2 DEF IInv, MediaOK, UploadsOK
  <2>5. FilesOwned'
    <3>1. \A x : Owned(x) => Owned(x)'
      BY <1>2, <1>3, <2>1, <2>2 DEF Owned
    <3> QED
      BY <1>1, <2>1, <3>1 DEF IInv, FilesOwned
  <2> QED
    BY <1>1, <1>3, <2>3, <2>4, <2>5, FileStep, FileTypes, Kinds3
<1>4. ASSUME Go(r, "upsert"),
             stored' = stored \union {[id |-> r.n, owner |-> r.user, folder |-> Root,
                                     content |-> r.args.content, path |-> r.n]}
      PROVE  IInv'
  <2> DEFINE m == [id |-> r.n, owner |-> r.user, folder |-> Root,
                   content |-> r.args.content, path |-> r.n]
  <2>1. m \in MediaDoc /\ m.id = r.n /\ m.path = r.n
    BY <1>1, RequestFields, ArgsFields DEF IInv, MediaDoc, Paths, Folder, Uploads
  <2>2. stored' = stored \union {m}
    BY <1>4
  <2> HIDE DEF m
  <2>3. PICK q \in Request :
          /\ q.n = r.n /\ q.pc = "upsert" /\ q.args = r.args /\ q.kept = r.kept
          /\ requests' = (requests \ {r}) \union {q}
    BY <1>4, Gone, StepNames
  <2>4. Uploads(q) /\ ~Pending(q) /\ ~Stored(q) /\ ~Deletes(q)
    BY <1>1, <2>3 DEF Uploads, Pending, Stored, Deletes
  <2>5. Becomes(r, {q})
    BY <2>3, <2>4 DEF Becomes, Shape, Uploads, Deletes
  <2>6. /\ r.n \in disk /\ r.n \in 1 .. sent /\ \A k \in stored : k.id # r.n
    BY <1>2 DEF IInv, UploadsOK, RequestsOK
  <2>7. MediaOK'
    BY <1>1, <2>1, <2>2, <2>6 DEF IInv, MediaOK
  <2>8. UploadsOK'
    <3>1. \A k \in requests' : Pending(k) => k \in requests /\ k.n # r.n
      BY <2>3, <2>4 DEF IInv, RequestsOK
    <3>2. \A k \in requests' : Deletes(k) => k \in requests /\ k.args.id # r.n
      BY <1>2, <2>3, <2>4 DEF IInv, UploadsOK
    <3>3. \A k \in requests' : Pending(k) => \A l \in stored' : l.id # k.n
      BY <2>1, <2>2, <3>1 DEF IInv, UploadsOK
    <3>4. \A k \in requests' : Stored(k) => k.n \in disk
      BY <3>1, PlainIsNone DEF IInv, UploadsOK
    <3>5. ASSUME NEW k \in requests', Deletes(k)
          PROVE  /\ k.args.id \in 1 .. sent
                 /\ \A l \in requests' : Pending(l) => l.n # k.args.id
                 /\ k.pc = "files" => \A l \in stored' : l.id # k.args.id
      BY <2>1, <2>2, <3>1, <3>2, <3>5 DEF IInv, UploadsOK
    <3> QED
      BY <1>1, <3>3, <3>4, <3>5 DEF UploadsOK
  <2>9. FilesOwned'
    <3>1. \A x : Owned(x) => Owned(x)'
      BY <1>2, <2>1, <2>2, <2>3 DEF Owned
    <3>2. \A k \in requests : Uploads(k) /\ k.pc \in {"begin", "commit"} => k \in requests'
      BY <1>1, <2>3
    <3> QED
      BY <1>1, <3>1, <3>2 DEF IInv, FilesOwned
  <2>10. stored' \subseteq MediaDoc
    BY <2>1, <2>2, Kinds3
  <2> QED
    BY <1>1, <2>5, <2>7, <2>8, <2>9, <2>10, FileStep, FileTypes, Kinds3
<1> QED
  BY <1>3, <1>4 DEF Create, PathOf

LEMMA DropRacedStep ==
    ASSUME IInv, NEW r \in requests, DropRaced(r) PROVE IInv'
<1>1. /\ Uploads(r) /\ r.pc = "raced" /\ UNCHANGED <<stored, folders, rows, temps, sent, failed>>
      /\ disk' = disk \ {r.n} /\ requests' = requests \ {r} /\ Becomes(r, {})
  BY Answers DEF DropRaced, RequestAt, Uploads, PathOf, Answer
<1>2. Pending(r) /\ ~Deletes(r)
  BY <1>1 DEF Uploads, Pending, Deletes
<1>3. \A m \in stored : m.path # r.n
  BY <1>2 DEF IInv, MediaOK, UploadsOK
<1>4. MediaOK'
  BY <1>1, <1>3 DEF IInv, MediaOK
<1>5. UploadsOK'
  <2>1. \A q \in requests' : q.n # r.n
    BY <1>1 DEF IInv, RequestsOK
  <2> QED
    BY <1>1, <2>1 DEF IInv, UploadsOK
<1>6. FilesOwned'
  <2>1. \A x : Owned(x) /\ x # r.n => Owned(x)'
    BY <1>1, <1>2 DEF Owned
  <2> QED
    BY <1>1, <2>1 DEF IInv, FilesOwned
<1>7. disk' \subseteq Paths
  BY <1>1, FileTypes
<1> QED
  BY <1>1, <1>4, <1>5, <1>6, <1>7, FileStep, FileTypes, Kinds3

LEMMA DeleteFindsMediumStep ==
    ASSUME IInv, NEW r \in requests, DeleteFindsMedium(r) PROVE IInv'
<1>1. /\ Deletes(r) /\ r.pc = "begin"
      /\ UNCHANGED <<stored, folders, rows, disk, temps, sent, failed>>
  BY DEF DeleteFindsMedium, RequestAt, Deletes
<1>2. ~Pending(r) /\ ~Stored(r) /\ ~Uploads(r)
  BY <1>1 DEF Uploads, Pending, Stored, Deletes
<1>3. MediaOK'
  BY <1>1 DEF IInv, MediaOK
<1>4. CASE Answer(r)
  <2>1. requests' = requests \ {r} /\ Becomes(r, {})
    BY <1>4, Answers DEF Answer
  <2>2. UploadsOK'
    BY <1>1, <2>1 DEF IInv, UploadsOK
  <2>3. FilesOwned'
    <3>1. \A x : Owned(x) => Owned(x)'
      BY <1>1, <1>2, <2>1 DEF Owned
    <3> QED
      BY <1>1, <1>2, <2>1, <3>1 DEF IInv, FilesOwned
  <2> QED
    BY <1>1, <1>3, <2>1, <2>2, <2>3, FileStep, FileTypes, Kinds3
<1>5. ASSUME NEW m \in Medium(r),
             requests' = (requests \ {r}) \union {Found(r, "remove", m)}
      PROVE  IInv'
  <2>1. m \in stored /\ m \in MediaDoc /\ m.id = r.args.id /\ m.path = r.args.id
    BY DEF Medium, MediaSeen, IInv, TypesOK, MediaOK
  <2>2. PICK q \in Request :
          /\ q.n = r.n /\ q.pc = "remove" /\ q.args = r.args /\ q.kept = m
          /\ requests' = (requests \ {r}) \union {q}
    BY <1>5, <2>1, StepNames, FoundFor
  <2>3. Deletes(q) /\ ~Pending(q) /\ ~Stored(q) /\ ~Uploads(q)
    BY <1>1, <2>2 DEF Uploads, Pending, Stored, Deletes
  <2>4. Becomes(r, {q})
    BY <1>1, <2>1, <2>2, <2>3 DEF Becomes, Shape, Uploads, Deletes
  <2>5. UploadsOK'
    BY <1>1, <1>2, <2>2, <2>3 DEF IInv, UploadsOK
  <2>6. FilesOwned'
    <3>1. \A x : Owned(x) => Owned(x)'
      BY <1>1, <1>2, <2>2 DEF Owned
    <3> QED
      BY <1>1, <1>2, <2>2, <3>1 DEF IInv, FilesOwned
  <2> QED
    BY <1>1, <1>3, <2>4, <2>5, <2>6, FileStep, FileTypes, Kinds3
<1> QED
  BY <1>4, <1>5 DEF DeleteFindsMedium, Found

LEMMA DeleteRemovesStep ==
    ASSUME IInv, NEW r \in requests, DeleteRemoves(r) PROVE IInv'
<1>1. /\ Deletes(r) /\ r.pc = "remove" /\ UNCHANGED <<folders, rows, disk, temps, sent, failed>>
      /\ stored' = stored \ Medium(r)
  BY DEF DeleteRemoves, RequestAt, Deletes
<1>2. ~Pending(r) /\ ~Stored(r) /\ ~Uploads(r)
  BY <1>1 DEF Uploads, Pending, Stored, Deletes
<1>3. MediaOK' /\ stored' \subseteq stored
  BY <1>1 DEF IInv, MediaOK
<1>4. CASE Answer(r) /\ Medium(r) = {}
  <2>1. requests' = requests \ {r} /\ Becomes(r, {}) /\ UNCHANGED stored
    BY <1>1, <1>4, Answers DEF Answer
  <2>2. UploadsOK'
    BY <1>1, <2>1 DEF IInv, UploadsOK
  <2>3. FilesOwned'
    <3>1. \A x : Owned(x) => Owned(x)'
      BY <1>1, <1>2, <2>1 DEF Owned
    <3> QED
      BY <1>1, <1>2, <2>1, <3>1 DEF IInv, FilesOwned
  <2> QED
    BY <1>1, <1>3, <2>1, <2>2, <2>3, FileStep, FileTypes, Kinds3
<1>5. CASE Go(r, "files") /\ Medium(r) # {}
  <2>1. PICK q \in Request :
          /\ q.n = r.n /\ q.pc = "files" /\ q.args = r.args /\ q.kept = r.kept
          /\ requests' = (requests \ {r}) \union {q}
    BY <1>5, Gone, StepNames
  <2>2. Deletes(q) /\ ~Pending(q) /\ ~Stored(q) /\ ~Uploads(q)
    BY <1>1, <2>1 DEF Uploads, Pending, Stored, Deletes
  <2>3. r.kept \in MediaDoc /\ r.kept.path = r.args.id
    BY <1>1 DEF IInv, RequestsOK, Shape
  <2>4. Becomes(r, {q})
    BY <1>1, <2>1, <2>2, <2>3 DEF Becomes, Shape, Uploads, Deletes
  <2>5. \A m \in stored' : m.id # r.args.id
    BY <1>1, <1>5 DEF Medium, MediaSeen, IInv, MediaOK
  <2>6. UploadsOK'
    <3>1. \A k \in requests' : Pending(k) => k \in requests /\ \A m \in stored' : m.id # k.n
      BY <1>3, <2>1, <2>2 DEF IInv, UploadsOK
    <3>2. \A k \in requests' : Stored(k) => k.n \in disk
      BY <2>1, <2>2 DEF IInv, UploadsOK
    <3>3. ASSUME NEW k \in requests', Deletes(k)
          PROVE  /\ k.args.id \in 1 .. sent
                 /\ \A l \in requests' : Pending(l) => l.n # k.args.id
                 /\ k.pc = "files" => \A m \in stored' : m.id # k.args.id
      <4>1. CASE k = q
        BY <1>1, <2>1, <2>5, <3>1, <4>1 DEF IInv, UploadsOK
      <4>2. CASE k # q
        BY <1>3, <2>1, <3>1, <3>3, <4>2 DEF IInv, UploadsOK
      <4> QED
        BY <4>1, <4>2
    <3> QED
      BY <1>1, <3>1, <3>2, <3>3 DEF UploadsOK
  <2>7. FilesOwned'
    <3>1. \A m \in Medium(r) : m.path = r.args.id
      BY DEF Medium, MediaSeen, IInv, MediaOK
    <3>2. Owned(r.args.id)'
      BY <2>1, <2>2 DEF Owned
    <3>3. \A x : Owned(x) => Owned(x)'
      BY <1>1, <1>2, <2>1, <3>1, <3>2 DEF Owned
    <3> QED
      BY <1>1, <1>2, <2>1, <3>3 DEF IInv, FilesOwned
  <2> QED
    BY <1>1, <1>3, <2>4, <2>6, <2>7, FileStep, FileTypes, Kinds3
<1> QED
  BY <1>4, <1>5 DEF DeleteRemoves

LEMMA DeleteFileStep ==
    ASSUME IInv, NEW r \in requests, DeleteFile(r) PROVE IInv'
<1>1. /\ Deletes(r) /\ r.pc = "files" /\ UNCHANGED <<stored, folders, temps, sent>>
      /\ requests' = requests \ {r} /\ Becomes(r, {})
      /\ rows' = {w \in rows : w.id # r.args.id}
      /\ \/ disk' = disk \ {r.kept.path} /\ UNCHANGED failed
         \/ failed' = TRUE /\ UNCHANGED disk
  BY Answers DEF DeleteFile, RequestAt, Deletes, Answer
<1>2. ~Pending(r) /\ ~Stored(r) /\ ~Uploads(r)
  BY <1>1 DEF Uploads, Pending, Stored, Deletes
<1>3. r.kept.path = r.args.id
  BY <1>1 DEF IInv, RequestsOK, Shape
<1>4. \A m \in stored : m.path # r.args.id
  BY <1>1 DEF IInv, MediaOK, UploadsOK
<1>5. MediaOK'
  BY <1>1, <1>3, <1>4 DEF IInv, MediaOK
<1>6. UploadsOK'
  <2>1. \A q \in requests' : Stored(q) => q.n # r.args.id
    BY <1>1, PlainIsNone DEF IInv, UploadsOK
  <2> QED
    BY <1>1, <1>3, <2>1 DEF IInv, UploadsOK
<1>7. FilesOwned'
  <2>1. \A x : Owned(x) /\ x # r.args.id => Owned(x)'
    BY <1>1, <1>2 DEF Owned
  <2>2. \A q \in requests : Uploads(q) => q \in requests'
    BY <1>1, <1>2
  <2> QED
    BY <1>1, <1>3, <2>1, <2>2 DEF IInv, FilesOwned
<1>8. disk' \subseteq Paths /\ rows' \subseteq Row /\ failed' \in BOOLEAN
  BY <1>1, FileTypes, Kinds3
<1> QED
  BY <1>1, <1>5, <1>6, <1>7, <1>8, FileStep, FileTypes, Kinds3

LEMMA CrashStep == ASSUME IInv, Crash PROVE IInv'
<1>1. requests' = {} /\ failed' = TRUE /\ UNCHANGED <<stored, folders, rows, disk, temps, sent>>
  BY DEF Crash
<1>2. TypesOK' /\ MediaOK'
  BY <1>1 DEF IInv, TypesOK, MediaOK
<1>3. RequestsOK' /\ UploadsOK' /\ FilesOwned'
  BY <1>1 DEF RequestsOK, UploadsOK, FilesOwned
<1> QED
  BY <1>2, <1>3 DEF IInv

LEMMA StartsStep ==
    ASSUME IInv, FixedOK,
           \/ \E u \in working, c \in Contents, to \in Folder : StartUpload(u, c, to)
           \/ \E u \in working, name \in Names :
                \/ \E op \in {"create", "drop"} : StartFolder(u, op, name)
                \/ \E to \in Names : StartRename(u, name, to)
           \/ \E u \in working : \E m \in MediaSeen(u) :
                StartDelete(u, m.id) \/ \E to \in Folder : StartMove(u, m.id, to)
    PROVE  IInv'
<1>1. ASSUME NEW u \in Users, NEW c \in Contents, NEW to \in Folder, StartUpload(u, c, to)
      PROVE  IInv'
  <2> DEFINE args == [op |-> "upload", content |-> c, to |-> to]
  <2>1. args \in Args /\ args.op = "upload"
    BY DEF Args
  <2> QED
    BY <1>1, <2>1, Sends DEF StartUpload
<1>2. ASSUME NEW u \in Users, NEW name \in Names, NEW op \in {"create", "drop"},
             StartFolder(u, op, name)
      PROVE  IInv'
  <2> DEFINE args == [op |-> op, name |-> name]
  <2>1. args \in Args /\ args.op # "delete"
    BY DEF Args
  <2> QED
    BY <1>2, <2>1, Sends DEF StartFolder
<1>3. ASSUME NEW u \in Users, NEW name \in Names, NEW to \in Names, StartRename(u, name, to)
      PROVE  IInv'
  <2> DEFINE args == [op |-> "rename", name |-> name, to |-> to]
  <2>1. args \in Args /\ args.op # "delete"
    BY DEF Args
  <2> QED
    BY <1>3, <2>1, Sends DEF StartRename
<1>4. ASSUME NEW u \in Users, NEW m \in MediaSeen(u) PROVE m \in stored /\ m.id \in Nat
  BY MediaFields DEF MediaSeen, IInv, TypesOK
<1>5. ASSUME NEW u \in Users, NEW m \in MediaSeen(u), StartDelete(u, m.id)
      PROVE  IInv'
  <2> DEFINE args == [op |-> "delete", id |-> m.id]
  <2>1. args \in Args /\ args.id = m.id /\ m \in stored
    BY <1>4 DEF Args
  <2> QED
    BY <1>5, <2>1, Sends DEF StartDelete
<1>6. ASSUME NEW u \in Users, NEW m \in MediaSeen(u), NEW to \in Folder, StartMove(u, m.id, to)
      PROVE  IInv'
  <2> DEFINE args == [op |-> "move", id |-> m.id, to |-> to]
  <2>1. args \in Args /\ args.op # "delete"
    BY <1>4 DEF Args
  <2> QED
    BY <1>6, <2>1, Sends DEF StartMove
<1>7. \A u \in working : u \in Users
  BY DEF FixedOK
<1> QED
  BY <1>1, <1>2, <1>3, <1>5, <1>6, <1>7

LEMMA InvariantInit == ASSUME MediaInit PROVE IInv /\ FixedOK
<1>1. TypesOK /\ FixedOK
  BY DEF MediaInit, TypesOK, FixedOK
<1>2. MediaOK /\ RequestsOK /\ UploadsOK /\ FilesOwned
  BY DEF MediaInit, MediaOK, RequestsOK, UploadsOK, FilesOwned
<1> QED
  BY <1>1, <1>2 DEF IInv

LEMMA InvariantNext ==
    ASSUME NameAssumption, IInv, FixedOK, [MediaNext]_mediaVars
    PROVE  IInv' /\ FixedOK'
<1>1. CASE UNCHANGED mediaVars
  BY <1>1 DEF mediaVars, IInv, TypesOK, MediaOK, RequestsOK, UploadsOK, FilesOwned, Owned, FixedOK
<1>2. ASSUME NEW r \in requests,
             \/ FindDuplicate(r) \/ Commit(r) \/ Create(r) \/ DropRaced(r) \/ UpsertUploaded(r)
             \/ MoveFinds(r) \/ MoveChecks(r) \/ MoveSaves(r) \/ MoveUpserts(r)
             \/ DeleteFindsMedium(r) \/ DeleteRemoves(r) \/ DeleteFile(r)
             \/ CreateChecks(r) \/ CreateFolder(r)
             \/ RenameChecks(r) \/ RenameDrops(r) \/ RenameUpdates(r) \/ DropFolder(r)
             \/ FolderMedia(r) \/ FolderRows(r)
      PROVE  IInv'
  BY <1>2, FindDuplicateStep, CommitStep, CreateStep, DropRacedStep, UpsertUploadedStep,
     MoveFindsStep, MoveChecksStep, MoveSavesStep, MoveUpsertsStep, DeleteFindsMediumStep,
     DeleteRemovesStep, DeleteFileStep, FolderRequestStep, FolderMediaStep, FolderRowsStep
<1>3. MediaNext => UNCHANGED <<working, together>>
  BY DEF MediaNext
<1> QED
  BY <1>1, <1>2, <1>3, StartsStep, CrashStep DEF MediaNext, FixedOK

-----------------------------------------------------------------------------
(* Requests one at a time: folders and rows                                *)

(***************************************************************************)
(* If only uploads overlap, an upload and its move are about a medium of   *)
(* their own, and any other request is alone.                              *)
(***************************************************************************)
Passes(r) == r.args.op \in {"upload", "move"}
Subject(r) == IF r.args.op = "upload" THEN r.n ELSE r.args.id
SerialOK ==
    /\ \A r, q \in requests : r # q => Passes(r) /\ Passes(q) /\ Subject(r) # Subject(q)
    /\ \A r \in requests :
         /\ r.user \in working
         /\ Passes(r) \/ Deletes(r) => Subject(r) \in 1 .. sent
         /\ r.pc = "rows" => r.args.op \in {"rename", "drop"}

\* The user reaches the medium, row or folder.
Reaches(u, s) == u \in Admins \/ s.owner = u

\* What an upload or a move has read of its medium is still so.
Held(r) ==
    /\ r.args.op = "upload" /\ r.pc = "upsert" =>
         \E m \in stored : m.id = Subject(r) /\ m.owner = r.user /\ m.folder = Root
    /\ r.args.op = "move" /\ r.pc \in {"check", "save"} =>
         r.kept \in stored /\ r.kept.id = Subject(r) /\ Reaches(r.user, r.kept)
    /\ r.args.op = "move" /\ r.pc = "upsert" =>
         \E m \in stored : /\ m.id = Subject(r) /\ m.owner = r.kept.owner
                           /\ m.folder = r.args.to
HeldOK == \A r \in requests : Held(r)

(***************************************************************************)
(* The rows follow the media, except for the medium of a request that has  *)
(* written it and not yet its row, and for the media of a folder that have *)
(* been moved and their rows not.                                          *)
(***************************************************************************)
RowOf(m) == [id |-> m.id, owner |-> m.owner, folder |-> m.folder]
Late(r) == \/ Passes(r) /\ r.pc = "upsert"
           \/ Deletes(r) /\ r.pc = "files"
LateFor(i) == \E r \in requests : Late(r) /\ Subject(r) = i
FollowFor(i) ==
    /\ \A m \in stored : m.id = i => RowOf(m) \in rows
    /\ \A w \in rows : w.id = i => \E m \in stored : RowOf(m) = w
RowsOK ==
    /\ \A r \in requests : r.pc = "rows" => Moved(r, rows) = {RowOf(m) : m \in stored}
    /\ (\A r \in requests : r.pc # "rows") => \A i \in Nat : LateFor(i) \/ FollowFor(i)

(***************************************************************************)
(* Every medium is at the root, in a folder that is there (its owner's, if *)
(* operators work), or among those a request is about to move; and what    *)
(* that request, or a move, has checked is still so.                       *)
(***************************************************************************)
In(m, f) == f.name = m.folder /\ (working \subseteq Operators => f.owner = m.owner)
Filed(m) == m.folder = Root \/ \E f \in folders : In(m, f)
Moving(r) == /\ r.args.op \in {"rename", "drop"}
             /\ \/ r.pc = "media"
                \/ r.args.op = "rename" /\ r.pc = "update" /\ r.user \in Admins
Taken(r) ==
    /\ r.args.op = "rename" /\ r.pc = "media" => Named(r.user, r.args.to) # {}
    /\ r.args.op = "rename" /\ r.pc = "remove" => r.user \in Admins
    /\ r.args.op = "rename" /\ r.pc = "update" /\ r.user \notin Admins
         => Named(r.user, r.args.name) # {}
    /\ r.args.op = "rename" /\ r.pc \in {"remove", "update"} /\ r.user \in Admins
         => Named(r.user, r.args.to) = {}
    /\ r.args.op = "move" /\ r.pc = "save"
         => r.args.to = Root \/ Named(r.user, r.args.to) # {}
FoldersOK ==
    /\ \A m \in stored :
         Filed(m) \/ \E r \in requests : Moving(r) /\ m.folder = r.args.name /\ Reaches(r.user, m)
    /\ \A r \in requests : Taken(r)

OneRole == working \subseteq Operators \/ working \subseteq Admins
SerialInv == SerialOK /\ HeldOK /\ RowsOK /\ (OneRole => FoldersOK)

\* Whom a folder or a medium belongs to.
LEMMA SeenFolders ==
    ASSUME NEW u, NEW name
    PROVE  Named(u, name) = {f \in folders : Reaches(u, f) /\ f.name = name}
BY DEF Named, FoldersOf, Reaches

LEMMA SeenMedium ==
    ASSUME NEW r
    PROVE  Medium(r) = {m \in stored : Reaches(r.user, m) /\ m.id = r.args.id}
BY DEF Medium, MediaSeen, Reaches

\* A folder that a request reaches holds what the request reaches.
LEMMA FolderOf ==
    ASSUME UserAssumption, OneRole, SerialOK, NEW r \in requests,
           NEW f \in folders, Reaches(r.user, f), NEW m, Reaches(r.user, m)
    PROVE  working \subseteq Operators => f.owner = m.owner
BY DEF UserAssumption, OneRole, SerialOK, Reaches

\* And a medium in it, that the folder is for, is one the request reaches.
LEMMA MediumOf ==
    ASSUME UserAssumption, OneRole, SerialOK, NEW r \in requests,
           NEW f \in folders, Reaches(r.user, f), NEW m, In(m, f)
    PROVE  Reaches(r.user, m)
BY DEF UserAssumption, OneRole, SerialOK, Reaches, In

LEMMA AloneRequest ==
    ASSUME SerialOK, NEW r \in requests, ~Passes(r)
    PROVE  requests = {r}
BY DEF SerialOK

\* The step of a request keeps what it is about.
LEMMA SerialStep ==
    ASSUME SerialOK, NEW r \in requests, NEW N, requests' = (requests \ {r}) \union N,
           UNCHANGED <<sent, working>>, \A q, k \in N : q = k,
           \A q \in N : /\ q.user = r.user /\ (Passes(q) <=> Passes(r))
                        /\ Passes(q) \/ Deletes(q) =>
                             (Passes(r) \/ Deletes(r)) /\ Subject(q) = Subject(r)
                        /\ q.pc = "rows" => q.args.op \in {"rename", "drop"}
    PROVE  SerialOK'
<1>1. ASSUME NEW q \in requests', NEW k \in requests', q # k
      PROVE  Passes(q) /\ Passes(k) /\ Subject(q) # Subject(k)
  <2>1. CASE q \in requests \ {r} /\ k \in requests \ {r}
    BY <1>1, <2>1 DEF SerialOK
  <2>2. CASE q \in N /\ k \in requests \ {r}
    BY <2>2 DEF SerialOK
  <2>3. CASE q \in requests \ {r} /\ k \in N
    BY <2>3 DEF SerialOK
  <2> QED
    BY <1>1, <2>1, <2>2, <2>3
<1>2. ASSUME NEW q \in requests'
      PROVE  /\ q.user \in working'
             /\ Passes(q) \/ Deletes(q) => Subject(q) \in 1 .. sent'
             /\ q.pc = "rows" => q.args.op \in {"rename", "drop"}
  BY DEF SerialOK
<1> QED
  BY <1>1, <1>2 DEF SerialOK

\* A step that answers its request, or leaves it at a step it may go on to.
Turns(r, N) ==
    /\ requests' = (requests \ {r}) \union N
    /\ \A q, k \in N : q = k
    /\ \A q \in N : q.n = r.n /\ q.user = r.user /\ q.args = r.args

LEMMA AnswerTurns == ASSUME NEW r, Answer(r) PROVE Turns(r, {})
BY DEF Answer, Turns

LEMMA GoTurns ==
    ASSUME IInv, NEW r \in requests, NEW pc \in Steps, Go(r, pc)
    PROVE  \E q \in Request : Turns(r, {q}) /\ q.pc = pc /\ q.kept = r.kept
<1>1. PICK q \in Request :
        /\ q.n = r.n /\ q.pc = pc /\ q.args = r.args /\ q.kept = r.kept
        /\ requests' = (requests \ {r}) \union {q} /\ q.user = r.user
  <2>1. r \in Request
    BY RequestFields DEF IInv
  <2> QED
    BY <2>1, GoFields DEF Go
<1> QED
  BY <1>1 DEF Turns

LEMMA FoundTurns ==
    ASSUME IInv, NEW r \in requests, NEW pc \in Steps, NEW m \in MediaDoc,
           requests' = (requests \ {r}) \union {Found(r, pc, m)}
    PROVE  LET q == Found(r, pc, m) IN Turns(r, {q}) /\ q.pc = pc /\ q.kept = m
<1>1. r \in Request
  BY RequestFields DEF IInv
<1> DEFINE q == Found(r, pc, m)
<1>2. q.n = r.n /\ q.user = r.user /\ q.pc = pc /\ q.args = r.args /\ q.kept = m
  BY <1>1, KeepFields DEF Found
<1> QED
  BY <1>2 DEF Turns

-----------------------------------------------------------------------------
(* Requests that are alone: deletions and folders                          *)

\* Alone and not late, a request finds the rows following the media.
LEMMA LoneFollows ==
    ASSUME SerialOK, RowsOK, NEW r \in requests, ~Passes(r), ~Late(r), r.pc # "rows"
    PROVE  requests = {r} /\ \A i \in Nat : FollowFor(i)
<1>1. requests = {r}
  BY AloneRequest
<1> QED
  BY <1>1 DEF RowsOK, LateFor

LEMMA LoneHeld ==
    ASSUME SerialOK, NEW r \in requests, ~Passes(r), NEW N, Turns(r, N)
    PROVE  requests' = N /\ HeldOK'
<1>1. requests' = N /\ \A q \in N : q.args = r.args
  BY AloneRequest DEF Turns
<1>2. \A q \in N : q.args.op # "upload" /\ q.args.op # "move"
  BY <1>1 DEF Passes
<1>3. \A q \in N : Held(q)'
  BY <1>2 DEF Held
<1> QED
  BY <1>1, <1>3 DEF HeldOK

LEMMA TurnsSerial ==
    ASSUME SerialOK, NEW r \in requests, NEW N, Turns(r, N), UNCHANGED <<sent, working>>,
           \A q \in N : q.pc = "rows" => r.args.op \in {"rename", "drop"}
    PROVE  SerialOK'
<1>1. \A q \in N : /\ q.user = r.user /\ (Passes(q) <=> Passes(r))
                   /\ (Deletes(q) <=> Deletes(r)) /\ Subject(q) = Subject(r)
                   /\ q.pc = "rows" => q.args.op \in {"rename", "drop"}
  BY DEF Turns, Passes, Deletes, Subject
<1> QED
  BY <1>1, SerialStep DEF Turns

\* A step that leaves media and rows as they are.
LEMMA LoneTurn ==
    ASSUME SerialInv, NEW r \in requests, ~Passes(r), ~Late(r), r.pc # "rows",
           NEW N, Turns(r, N), \A q \in N : q.pc # "rows",
           UNCHANGED <<stored, rows, sent, working>>
    PROVE  SerialOK' /\ HeldOK' /\ RowsOK'
<1>1. SerialOK'
  BY TurnsSerial DEF SerialInv
<1>2. requests' = N /\ HeldOK'
  BY LoneHeld DEF SerialInv
<1>3. \A i \in Nat : FollowFor(i)
  BY LoneFollows DEF SerialInv
<1>4. \A i \in Nat : FollowFor(i)'
  BY <1>3 DEF FollowFor
<1> QED
  BY <1>1, <1>2, <1>4 DEF RowsOK

\* A request that moves no media finds them all in their folders.
LEMMA LoneFiled ==
    ASSUME FoldersOK, SerialOK, NEW r \in requests, ~Passes(r), ~Moving(r)
    PROVE  requests = {r} /\ \A m \in stored : Filed(m)
<1>1. requests = {r}
  BY AloneRequest
<1> QED
  BY <1>1 DEF FoldersOK

LEMMA FiledStays ==
    ASSUME NEW m, Filed(m), UNCHANGED working,
           \A f \in folders : In(m, f) => f \in folders'
    PROVE  Filed(m)'
BY DEF Filed, In

\* Folders are not changed, and no request goes on to move media.
LEMMA LoneStays ==
    ASSUME SerialInv, NEW r \in requests, ~Passes(r), ~Moving(r), NEW N, Turns(r, N),
           stored' \subseteq stored, folders \subseteq folders', UNCHANGED working,
           \A q \in N : Taken(q)'
    PROVE  OneRole' => FoldersOK'
<1> SUFFICES ASSUME OneRole' PROVE FoldersOK'
  OBVIOUS
<1>1. OneRole /\ FoldersOK /\ SerialOK
  BY DEF OneRole, SerialInv
<1>2. requests = {r} /\ \A m \in stored : Filed(m)
  BY <1>1, LoneFiled
<1>3. \A m \in stored' : Filed(m)'
  BY <1>2, FiledStays
<1>4. requests' = N
  BY <1>2 DEF Turns
<1> QED
  BY <1>3, <1>4 DEF FoldersOK

LEMMA DeleteFindsSerial ==
    ASSUME IInv, SerialInv, UNCHANGED <<working>>, NEW r \in requests, DeleteFindsMedium(r)
    PROVE  SerialInv'
<1>1. /\ r.args.op = "delete" /\ r.pc = "begin"
      /\ UNCHANGED <<stored, folders, rows, sent>>
  BY DEF DeleteFindsMedium, RequestAt
<1>2. PICK N : Turns(r, N) /\ \A q \in N : q.pc = "remove"
  <2>1. CASE Answer(r)
    BY <2>1, AnswerTurns
  <2>2. ASSUME NEW m \in Medium(r),
               requests' = (requests \ {r}) \union {Found(r, "remove", m)}
        PROVE  \E q : Turns(r, {q}) /\ q.pc = "remove"
    <3>1. m \in MediaDoc
      BY DEF Medium, MediaSeen, IInv, TypesOK
    <3> DEFINE q == Found(r, "remove", m)
    <3>2. Turns(r, {q}) /\ q.pc = "remove"
      BY <2>2, <3>1, FoundTurns, StepNames
    <3> QED
      BY <3>2
  <2>3. ASSUME NEW q, Turns(r, {q}), q.pc = "remove"
        PROVE  \E N : Turns(r, N) /\ \A k \in N : k.pc = "remove"
    <3>1. \A k \in {q} : k.pc = "remove"
      BY <2>3
    <3> QED
      BY <2>3, <3>1
  <2> QED
    BY <2>1, <2>2, <2>3 DEF DeleteFindsMedium, Found
<1>3. ~Passes(r) /\ ~Late(r) /\ ~Moving(r)
  BY <1>1 DEF Passes, Late, Moving
<1>4. SerialOK' /\ HeldOK' /\ RowsOK'
  BY <1>1, <1>2, <1>3, LoneTurn
<1>5. \A q \in N : Taken(q)'
  BY <1>1, <1>2 DEF Turns, Taken
<1>6. OneRole' => FoldersOK'
  BY <1>1, <1>2, <1>3, <1>5, LoneStays
<1> QED
  BY <1>4, <1>6 DEF SerialInv

LEMMA DeleteRemovesSerial ==
    ASSUME IInv, SerialInv, UNCHANGED <<working>>, NEW r \in requests, DeleteRemoves(r)
    PROVE  SerialInv'
<1>1. /\ r.args.op = "delete" /\ r.pc = "remove" /\ stored' = stored \ Medium(r)
      /\ UNCHANGED <<folders, rows, sent>>
  BY DEF DeleteRemoves, RequestAt
<1>2. ~Passes(r) /\ ~Late(r) /\ ~Moving(r)
  BY <1>1 DEF Passes, Late, Moving
<1>3. CASE Medium(r) = {}
  <2>1. Turns(r, {}) /\ UNCHANGED stored
    BY <1>1, <1>3, AnswerTurns DEF DeleteRemoves
  <2>2. SerialOK' /\ HeldOK' /\ RowsOK'
    BY <1>1, <1>2, <2>1, LoneTurn
  <2>3. OneRole' => FoldersOK'
    BY <1>1, <1>2, <2>1, LoneStays
  <2> QED
    BY <2>2, <2>3 DEF SerialInv
<1>4. CASE Medium(r) # {}
  <2>1. PICK q \in Request : Turns(r, {q}) /\ q.pc = "files"
    <3>1. Go(r, "files")
      BY <1>4 DEF DeleteRemoves
    <3>2. "files" \in Steps
      BY StepNames
    <3> QED
      BY <3>1, <3>2, GoTurns
  <2>2. requests' = {q} /\ HeldOK' /\ q.args = r.args
    <3>1. requests' = {q} /\ HeldOK'
      BY <1>2, <2>1, LoneHeld DEF SerialInv
    <3> QED
      BY <2>1, <3>1 DEF Turns
  <2>3. SerialOK'
    BY <1>1, <2>1, TurnsSerial DEF SerialInv
  <2>4. \A i \in Nat : FollowFor(i)
    BY <1>1, <1>2, LoneFollows DEF SerialInv
  <2>5. RowsOK'
    <3>1. Late(q) /\ Subject(q) = r.args.id
      BY <1>1, <2>1, <2>2 DEF Late, Deletes, Subject
    <3>2. LateFor(r.args.id)'
      BY <2>2, <3>1 DEF LateFor
    <3>3. ASSUME NEW i \in Nat, i # r.args.id PROVE FollowFor(i)'
      <4>1. \A m \in stored : m.id = i => m \in stored'
        BY <1>1, <3>3 DEF Medium
      <4>2. ASSUME NEW w \in rows, w.id = i PROVE \E m \in stored' : RowOf(m) = w
        <5>1. PICK m \in stored : RowOf(m) = w
          BY <2>4, <4>2 DEF FollowFor
        <5>2. m.id = i
          BY <4>2, <5>1 DEF RowOf
        <5> QED
          BY <4>1, <5>1, <5>2
      <4>3. \A m \in stored' : m.id = i => RowOf(m) \in rows
        BY <1>1, <2>4 DEF FollowFor
      <4> QED
        BY <1>1, <4>2, <4>3 DEF FollowFor
    <3> QED
      BY <2>1, <2>2, <3>2, <3>3 DEF RowsOK
  <2>6. Taken(q)' /\ stored' \subseteq stored
    BY <1>1, <2>2 DEF Taken
  <2>7. OneRole' => FoldersOK'
    BY <1>1, <1>2, <2>1, <2>6, LoneStays
  <2> QED
    BY <2>2, <2>3, <2>5, <2>7 DEF SerialInv
<1> QED
  BY <1>3, <1>4

LEMMA DeleteFileSerial ==
    ASSUME IInv, SerialInv, UNCHANGED <<working>>, NEW r \in requests, DeleteFile(r)
    PROVE  SerialInv'
<1>1. /\ r.args.op = "delete" /\ r.pc = "files" /\ rows' = {w \in rows : w.id # r.args.id}
      /\ UNCHANGED <<stored, folders, sent>> /\ Turns(r, {})
  BY AnswerTurns DEF DeleteFile, RequestAt
<1>2. ~Passes(r) /\ ~Moving(r)
  BY <1>1 DEF Passes, Moving
<1>3. requests = {r} /\ requests' = {} /\ HeldOK'
  BY <1>1, <1>2, LoneHeld, AloneRequest DEF SerialInv
<1>4. SerialOK'
  BY <1>1, TurnsSerial DEF SerialInv
<1>5. \A m \in stored : m.id # r.args.id
  BY <1>1 DEF IInv, UploadsOK, Deletes
<1>6. ASSUME NEW i \in Nat PROVE FollowFor(i)'
  <2>1. CASE i = r.args.id
    BY <1>1, <1>5, <2>1 DEF FollowFor
  <2>2. CASE i # r.args.id
    <3>1. ~LateFor(i)
      BY <1>1, <1>3, <2>2 DEF LateFor, Subject
    <3>2. FollowFor(i)
      BY <1>1, <1>3, <3>1 DEF SerialInv, RowsOK
    <3>3. \A m \in stored : RowOf(m).id = m.id
      BY DEF RowOf
    <3> QED
      BY <1>1, <2>2, <3>2, <3>3 DEF FollowFor
  <2> QED
    BY <2>1, <2>2
<1>7. OneRole' => FoldersOK'
  BY <1>1, <1>2, LoneStays
<1> QED
  BY <1>3, <1>4, <1>6, <1>7 DEF SerialInv, RowsOK

\* The steps of a folder's request that leave media and rows as they are.
LEMMA CreateChecksSerial ==
    ASSUME IInv, SerialInv, UNCHANGED <<working>>, NEW r \in requests, CreateChecks(r)
    PROVE  SerialInv'
<1>1. /\ r.args.op = "create" /\ r.pc = "begin"
      /\ UNCHANGED <<stored, folders, rows, sent>>
      /\ Answer(r) \/ Go(r, "update")
  BY DEF CreateChecks, RequestAt
<1>2. PICK N : Turns(r, N) /\ \A q \in N : q.pc = "update"
  <2>1. CASE Answer(r)
    BY <2>1, AnswerTurns
  <2>2. ASSUME NEW q, Turns(r, {q}), q.pc = "update"
        PROVE  \E N : Turns(r, N) /\ \A k \in N : k.pc = "update"
    <3>1. \A k \in {q} : k.pc = "update"
      BY <2>2
    <3> QED
      BY <2>2, <3>1
  <2>3. CASE Go(r, "update")
    <3>1. "update" \in Steps
      BY StepNames
    <3> QED
      BY <2>2, <2>3, <3>1, GoTurns
  <2> QED
    BY <1>1, <2>1, <2>3
<1>3. ~Passes(r) /\ ~Late(r) /\ ~Moving(r)
  BY <1>1 DEF Passes, Late, Moving, Deletes
<1>4. SerialOK' /\ HeldOK' /\ RowsOK'
  BY <1>1, <1>2, <1>3, LoneTurn
<1>5. \A q \in N : Taken(q)'
  BY <1>1, <1>2 DEF Turns, Taken
<1>6. OneRole' => FoldersOK'
  BY <1>1, <1>2, <1>3, <1>5, LoneStays
<1> QED
  BY <1>4, <1>6 DEF SerialInv

LEMMA CreateFolderSerial ==
    ASSUME IInv, SerialInv, UNCHANGED <<working>>, NEW r \in requests, CreateFolder(r)
    PROVE  SerialInv'
<1>1. /\ r.args.op = "create" /\ r.pc = "update" /\ folders \subseteq folders'
      /\ UNCHANGED <<stored, rows, sent>> /\ Turns(r, {})
  BY AnswerTurns DEF CreateFolder, RequestAt
<1>2. ~Passes(r) /\ ~Late(r) /\ ~Moving(r)
  BY <1>1 DEF Passes, Late, Moving, Deletes
<1>3. SerialOK' /\ HeldOK' /\ RowsOK'
  BY <1>1, <1>2, LoneTurn
<1>4. OneRole' => FoldersOK'
  BY <1>1, <1>2, LoneStays
<1> QED
  BY <1>3, <1>4 DEF SerialInv

LEMMA RenameChecksSerial ==
    ASSUME IInv, SerialInv, UNCHANGED <<working>>, NEW r \in requests, RenameChecks(r)
    PROVE  SerialInv'
<1>1. /\ r.args.op = "rename" /\ r.pc = "begin"
      /\ UNCHANGED <<stored, folders, rows, sent>>
  BY DEF RenameChecks, RequestAt
<1>2. ~Passes(r) /\ ~Late(r) /\ ~Moving(r)
  BY <1>1 DEF Passes, Late, Moving, Deletes
<1>3. CASE Answer(r)
  <2>1. Turns(r, {})
    BY <1>3, AnswerTurns
  <2>2. SerialOK' /\ HeldOK' /\ RowsOK'
    BY <1>1, <1>2, <2>1, LoneTurn
  <2>3. OneRole' => FoldersOK'
    BY <1>1, <1>2, <2>1, LoneStays
  <2> QED
    BY <2>2, <2>3 DEF SerialInv
<1>4. ASSUME Named(r.user, r.args.name) # {}, Named(r.user, r.args.to) = {},
             NEW pc \in {"remove", "update"}, pc = "remove" <=> r.user \in Admins, Go(r, pc)
      PROVE  SerialInv'
  <2>1. PICK q \in Request : Turns(r, {q}) /\ q.pc = pc
    <3>1. pc \in Steps
      BY <1>4, StepNames
    <3> QED
      BY <1>4, <3>1, GoTurns
  <2>2. q.args = r.args /\ q.user = r.user /\ q.pc # "rows" /\ q.pc # "media"
    BY <2>1 DEF Turns
  <2>3. SerialOK' /\ HeldOK' /\ RowsOK'
    BY <1>1, <1>2, <2>1, <2>2, LoneTurn
  <2>4. \A name : Named(r.user, name)' = Named(r.user, name)
    BY <1>1 DEF Named, FoldersOf
  <2>5. Taken(q)'
    BY <1>1, <1>4, <2>1, <2>2, <2>4 DEF Taken
  <2>6. OneRole' => FoldersOK'
    BY <1>1, <1>2, <2>1, <2>5, LoneStays
  <2> QED
    BY <2>3, <2>6 DEF SerialInv
<1> QED
  BY <1>3, <1>4 DEF RenameChecks

LEMMA RenameDropsSerial ==
    ASSUME IInv, SerialInv, UNCHANGED <<working>>, NEW r \in requests, RenameDrops(r)
    PROVE  SerialInv'
<1>1. /\ r.args.op = "rename" /\ r.pc = "remove" /\ UNCHANGED <<stored, rows, sent>>
      /\ folders' = folders \ Named(r.user, r.args.name)
  BY DEF RenameDrops, RequestAt
<1>2. ~Passes(r) /\ ~Late(r) /\ ~Moving(r)
  BY <1>1 DEF Passes, Late, Moving, Deletes
<1>3. PICK q \in Request : Turns(r, {q}) /\ q.pc = "update"
  <2>1. Go(r, "update")
    BY DEF RenameDrops
  <2>2. "update" \in Steps
    BY StepNames
  <2> QED
    BY <2>1, <2>2, GoTurns
<1>4. q.args = r.args /\ q.user = r.user
  BY <1>3 DEF Turns
<1>5. SerialOK' /\ HeldOK' /\ RowsOK'
  BY <1>1, <1>2, <1>3, LoneTurn
<1>6. ASSUME OneRole' PROVE FoldersOK'
  <2>1. FoldersOK /\ SerialOK
    BY <1>6 DEF OneRole, SerialInv
  <2>2. requests = {r} /\ \A m \in stored : Filed(m)
    BY <1>2, <2>1, LoneFiled
  <2>3. Taken(r) /\ requests' = {q}
    BY <1>3, <2>1, <2>2 DEF FoldersOK, Turns
  <2>4. r.user \in Admins /\ Named(r.user, r.args.to) = {}
    BY <1>1, <2>3 DEF Taken
  <2>5. Moving(q) /\ \A m : Reaches(q.user, m)
    BY <1>1, <1>3, <1>4, <2>4 DEF Moving, Reaches
  <2>6. Taken(q)'
    <3>1. Named(q.user, q.args.to)' = {}
      BY <1>1, <1>4, <2>4 DEF Named, FoldersOf
    <3> QED
      BY <1>3, <1>4, <2>4, <3>1 DEF Taken
  <2>7. ASSUME NEW m \in stored' PROVE Filed(m)' \/ m.folder = q.args.name
    <3>1. Filed(m)
      BY <1>1, <2>2
    <3>2. CASE m.folder = Root
      BY <3>2 DEF Filed
    <3>3. ASSUME NEW f \in folders, In(m, f) PROVE Filed(m)' \/ m.folder = q.args.name
      <4>1. CASE f \in folders'
        BY <3>3, <4>1 DEF Filed, In
      <4>2. CASE f \in Named(r.user, r.args.name)
        BY <1>4, <3>3, <4>2 DEF Named, In
      <4> QED
        BY <1>1, <4>1, <4>2
    <3> QED
      BY <3>1, <3>2, <3>3 DEF Filed
  <2> QED
    BY <2>3, <2>5, <2>6, <2>7 DEF FoldersOK, Moving, Reaches
<1> QED
  BY <1>5, <1>6 DEF SerialInv

\* The folder of that name that an operator's media are in is the operator's.
LEMMA InNamed ==
    ASSUME UserAssumption, OneRole, SerialOK, NEW r \in requests, NEW name, NEW m,
           NEW f \in Named(r.user, name), In(m, f)
    PROVE  m.folder = name /\ Reaches(r.user, m)
<1>1. f \in folders /\ Reaches(r.user, f) /\ f.name = name
  BY SeenFolders
<1> QED
  BY <1>1, MediumOf DEF In

LEMMA RenameUpdatesSerial ==
    ASSUME UserAssumption, IInv, SerialInv, UNCHANGED <<working>>,
           NEW r \in requests, RenameUpdates(r)
    PROVE  SerialInv'
<1>1. r.args.op = "rename" /\ r.pc = "update" /\ UNCHANGED <<stored, rows, sent>>
  BY DEF RenameUpdates, RequestAt
<1>2. ~Passes(r) /\ ~Late(r) /\ requests = {r}
  BY <1>1, AloneRequest DEF Passes, Late, Deletes, SerialInv
<1>3. OneRole' => OneRole /\ FoldersOK /\ SerialOK /\ Taken(r)
  BY <1>2 DEF OneRole, SerialInv, FoldersOK
<1>4. CASE Collides(r)
  <2>1. Turns(r, {}) /\ UNCHANGED folders
    BY <1>4, AnswerTurns DEF RenameUpdates
  <2>2. SerialOK' /\ HeldOK' /\ RowsOK'
    BY <1>1, <1>2, <2>1, LoneTurn
  <2>3. ASSUME OneRole' PROVE FoldersOK'
    <3>1. r.user \notin Admins
      <4>1. SUFFICES ASSUME r.user \in Admins PROVE FALSE
        OBVIOUS
      <4>2. Named(r.user, r.args.to) = {}
        BY <1>1, <1>3, <2>3, <4>1 DEF Taken
      <4>3. NewFolder(r, r.args.to) \in Named(r.user, r.args.to)
        BY <1>4, <4>1 DEF Collides, Named, FoldersOf, NewFolder
      <4> QED
        BY <4>2, <4>3
    <3>2. ~Moving(r)
      BY <1>1, <3>1 DEF Moving
    <3> QED
      BY <1>1, <1>2, <2>1, <2>3, <3>2, LoneStays
  <2> QED
    BY <2>2, <2>3 DEF SerialInv
<1>5. CASE ~Collides(r)
  <2>1. PICK q \in Request : Turns(r, {q}) /\ q.pc = "media"
    <3>1. Go(r, "media")
      BY <1>5 DEF RenameUpdates
    <3>2. "media" \in Steps
      BY StepNames
    <3> QED
      BY <3>1, <3>2, GoTurns
  <2>2. q.args = r.args /\ q.user = r.user /\ requests' = {q}
    BY <1>2, <2>1 DEF Turns
  <2>3. SerialOK' /\ HeldOK' /\ RowsOK'
    BY <1>1, <1>2, <2>1, LoneTurn
  <2>4. Moving(q)
    BY <1>1, <2>1, <2>2 DEF Moving
  <2>5. ASSUME r.user \in Admins, OneRole' PROVE FoldersOK'
    <3>1. folders' = folders \union {NewFolder(r, r.args.to)}
      BY <1>5, <2>5 DEF RenameUpdates
    <3>2. Taken(q)'
      <4>1. NewFolder(r, r.args.to) \in Named(q.user, q.args.to)'
        BY <2>2, <2>5, <3>1 DEF Named, FoldersOf, NewFolder
      <4> QED
        BY <2>1, <4>1 DEF Taken
    <3>3. ASSUME NEW m \in stored' PROVE Filed(m)' \/ m.folder = q.args.name
      <4>1. Filed(m) \/ m.folder = r.args.name
        BY <1>1, <1>2, <1>3, <2>5 DEF FoldersOK
      <4> QED
        BY <2>2, <3>1, <4>1, FiledStays
    <3> QED
      BY <2>2, <2>4, <2>5, <3>2, <3>3 DEF FoldersOK, Reaches
  <2>6. ASSUME r.user \notin Admins, OneRole' PROVE FoldersOK'
    <3> DEFINE After(f) == IF f \in Named(r.user, r.args.name)
                           THEN [f EXCEPT !.name = r.args.to] ELSE f
    <3>1. folders' = {After(f) : f \in folders}
      BY <1>5, <2>6 DEF RenameUpdates
    <3>2. \A m \in stored : Filed(m)
      BY <1>1, <1>2, <1>3, <2>6, LoneFiled DEF Moving
    <3>3. Taken(q)'
      <4>1. PICK f \in Named(r.user, r.args.name) : TRUE
        BY <1>1, <1>3, <2>6 DEF Taken
      <4>2. f \in folders /\ Reaches(r.user, f) /\ f \in FolderDoc
        BY SeenFolders DEF IInv, TypesOK
      <4>3. After(f) \in folders' /\ After(f).name = r.args.to /\ After(f).owner = f.owner
        BY <3>1, <4>1, <4>2 DEF FolderDoc
      <4>4. After(f) \in Named(q.user, q.args.to)'
        BY <2>2, <2>6, <4>2, <4>3 DEF Named, FoldersOf, Reaches
      <4> QED
        BY <2>1, <4>4 DEF Taken
    <3>4. ASSUME NEW m \in stored'
          PROVE  Filed(m)' \/ (m.folder = q.args.name /\ Reaches(q.user, m))
      <4>1. CASE m.folder = Root
        BY <4>1 DEF Filed
      <4>2. ASSUME NEW f \in folders, In(m, f)
            PROVE  Filed(m)' \/ (m.folder = q.args.name /\ Reaches(q.user, m))
        <5>1. CASE f \in Named(r.user, r.args.name)
          BY <1>3, <2>2, <2>6, <4>2, <5>1, InNamed
        <5>2. CASE f \notin Named(r.user, r.args.name)
          <6>1. f \in folders'
            BY <3>1, <5>2
          <6> QED
            BY <4>2, <6>1 DEF Filed, In
        <5> QED
          BY <5>1, <5>2
      <4> QED
        BY <1>1, <3>2, <4>1, <4>2 DEF Filed
    <3> QED
      BY <2>2, <2>4, <3>3, <3>4 DEF FoldersOK
  <2> QED
    BY <2>3, <2>5, <2>6 DEF SerialInv
<1> QED
  BY <1>4, <1>5

LEMMA DropFolderSerial ==
    ASSUME UserAssumption, IInv, SerialInv, UNCHANGED <<working>>,
           NEW r \in requests, DropFolder(r)
    PROVE  SerialInv'
<1>1. /\ r.args.op = "drop" /\ r.pc = "begin" /\ UNCHANGED <<stored, rows, sent>>
      /\ folders' = folders \ Named(r.user, r.args.name)
  BY DEF DropFolder, RequestAt
<1>2. ~Passes(r) /\ ~Late(r) /\ ~Moving(r)
  BY <1>1 DEF Passes, Late, Moving, Deletes
<1>3. CASE Named(r.user, r.args.name) = {}
  <2>1. Turns(r, {}) /\ UNCHANGED folders
    BY <1>1, <1>3, AnswerTurns DEF DropFolder
  <2>2. SerialOK' /\ HeldOK' /\ RowsOK'
    BY <1>1, <1>2, <2>1, LoneTurn
  <2>3. OneRole' => FoldersOK'
    BY <1>1, <1>2, <2>1, LoneStays
  <2> QED
    BY <2>2, <2>3 DEF SerialInv
<1>4. CASE Named(r.user, r.args.name) # {}
  <2>1. PICK q \in Request : Turns(r, {q}) /\ q.pc = "media"
    <3>1. Go(r, "media")
      BY <1>4 DEF DropFolder
    <3>2. "media" \in Steps
      BY StepNames
    <3> QED
      BY <3>1, <3>2, GoTurns
  <2>2. q.args = r.args /\ q.user = r.user
    BY <2>1 DEF Turns
  <2>3. SerialOK' /\ HeldOK' /\ RowsOK'
    BY <1>1, <1>2, <2>1, LoneTurn
  <2>4. ASSUME OneRole' PROVE FoldersOK'
    <3>1. OneRole /\ FoldersOK /\ SerialOK
      BY <2>4 DEF OneRole, SerialInv
    <3>2. requests = {r} /\ \A m \in stored : Filed(m)
      BY <1>2, <3>1, LoneFiled
    <3>3. requests' = {q} /\ Moving(q) /\ Taken(q)'
      BY <1>1, <2>1, <2>2, <3>2 DEF Turns, Moving, Taken
    <3>4. ASSUME NEW m \in stored'
          PROVE  Filed(m)' \/ (m.folder = q.args.name /\ Reaches(q.user, m))
      <4>1. CASE m.folder = Root
        BY <4>1 DEF Filed
      <4>2. ASSUME NEW f \in folders, In(m, f)
            PROVE  Filed(m)' \/ (m.folder = q.args.name /\ Reaches(q.user, m))
        <5>1. CASE f \in Named(r.user, r.args.name)
          BY <2>2, <3>1, <4>2, <5>1, InNamed
        <5>2. CASE f \in folders'
          BY <4>2, <5>2 DEF Filed, In
        <5> QED
          BY <1>1, <5>1, <5>2
      <4> QED
        BY <1>1, <3>2, <4>1, <4>2 DEF Filed
    <3> QED
      BY <3>3, <3>4 DEF FoldersOK
  <2> QED
    BY <2>3, <2>4 DEF SerialInv
<1> QED
  BY <1>3, <1>4

\* What a folder's request does to a medium and to its row is the same.
After(r, s) == IF s.folder = r.args.name /\ (r.user \in Admins \/ s.owner = r.user)
               THEN [s EXCEPT !.folder = Target(r)] ELSE s

LEMMA AfterRow ==
    ASSUME NEW r, NEW m \in MediaDoc
    PROVE  After(r, RowOf(m)) = RowOf(After(r, m))
BY DEF After, RowOf, MediaDoc

LEMMA MovedRows ==
    ASSUME IInv, NEW r, rows = {RowOf(m) : m \in stored}, stored' = Moved(r, stored)
    PROVE  Moved(r, rows) = {RowOf(m) : m \in stored'}
<1>1. \A m \in stored : m \in MediaDoc
  BY DEF IInv, TypesOK
<1>2. \A S : Moved(r, S) = {After(r, s) : s \in S}
  BY DEF Moved, After
<1>3. Moved(r, rows) = {After(r, RowOf(m)) : m \in stored}
  BY <1>2
<1>4. {RowOf(m) : m \in stored'} = {RowOf(After(r, m)) : m \in stored}
  BY <1>2
<1>5. \A m \in stored : After(r, RowOf(m)) = RowOf(After(r, m))
  BY <1>1, AfterRow
<1>6. {After(r, RowOf(m)) : m \in stored} = {RowOf(After(r, m)) : m \in stored}
  BY <1>5
<1> QED
  BY <1>3, <1>4, <1>6

LEMMA FollowRows ==
    ASSUME IInv, \A i \in Nat : FollowFor(i)
    PROVE  rows = {RowOf(m) : m \in stored}
<1>1. /\ \A m \in stored : m.id \in Nat
      /\ \A w \in rows : w.id \in Nat
  BY DEF IInv, TypesOK, MediaDoc, Row
<1> QED
  BY <1>1 DEF FollowFor

LEMMA FolderMediaSerial ==
    ASSUME UserAssumption, NameAssumption, IInv, SerialInv, UNCHANGED <<working>>,
           NEW r \in requests, FolderMedia(r)
    PROVE  SerialInv'
<1>1. /\ r.args.op \in {"rename", "drop"} /\ r.pc = "media" /\ stored' = Moved(r, stored)
      /\ Go(r, "rows") /\ UNCHANGED <<folders, rows, sent>>
  BY DEF FolderMedia
<1>2. ~Passes(r) /\ ~Late(r) /\ requests = {r}
  BY <1>1, AloneRequest DEF Passes, Late, Deletes, SerialInv
<1>3. PICK q \in Request : Turns(r, {q}) /\ q.pc = "rows"
  <2>1. "rows" \in Steps
    BY StepNames
  <2> QED
    BY <1>1, <2>1, GoTurns
<1>4. q.args = r.args /\ q.user = r.user /\ requests' = {q}
  BY <1>2, <1>3 DEF Turns
<1>5. SerialOK' /\ HeldOK'
  BY <1>1, <1>2, <1>3, TurnsSerial, LoneHeld DEF SerialInv
<1>6. RowsOK'
  <2>1. Moved(r, rows) = {RowOf(m) : m \in stored'}
    BY <1>1, <1>2, LoneFollows, FollowRows, MovedRows DEF SerialInv
  <2>2. Moved(q, rows)' = Moved(r, rows)
    BY <1>1, <1>4 DEF Moved, Target
  <2>3. Moved(q, rows)' = {RowOf(m) : m \in stored}'
    BY <2>1, <2>2 DEF RowOf
  <2> QED
    BY <1>3, <1>4, <2>3 DEF RowsOK
<1>7. ASSUME OneRole' PROVE FoldersOK'
  <2>1. OneRole /\ FoldersOK /\ SerialOK /\ Taken(r)
    BY <1>2, <1>7 DEF OneRole, SerialInv, FoldersOK
  <2>2. Taken(q)'
    BY <1>3 DEF Taken
  <2>3. ASSUME NEW m \in stored PROVE Filed(After(r, m))'
    <3>1. m \in MediaDoc
      BY DEF IInv, TypesOK
    <3>2. CASE m.folder = r.args.name /\ Reaches(r.user, m)
      <4>1. /\ After(r, m).folder = Target(r) /\ After(r, m).owner = m.owner
        BY <3>1, <3>2 DEF After, Reaches, MediaDoc
      <4>2. CASE r.args.op = "drop"
        BY <4>1, <4>2 DEF Filed, Target
      <4>3. CASE r.args.op = "rename"
        <5>1. PICK f \in Named(r.user, r.args.to) : TRUE
          BY <1>1, <2>1, <4>3 DEF Taken
        <5>2. f \in folders /\ Reaches(r.user, f) /\ f.name = r.args.to
          BY SeenFolders
        <5>3. working \subseteq Operators => f.owner = m.owner
          BY <2>1, <3>2, <5>2, FolderOf
        <5>4. In(After(r, m), f)
          BY <4>1, <4>3, <5>2, <5>3 DEF In, Target
        <5> QED
          BY <1>1, <5>2, <5>4 DEF Filed, In
      <4> QED
        BY <1>1, <4>2, <4>3
    <3>3. CASE ~(m.folder = r.args.name /\ Reaches(r.user, m))
      <4>1. After(r, m) = m
        BY <3>3 DEF After, Reaches
      <4>2. Filed(m)
        BY <1>2, <2>1, <3>3 DEF FoldersOK
      <4> QED
        BY <1>1, <4>1, <4>2, FiledStays
    <3> QED
      BY <3>2, <3>3
  <2>4. stored' = {After(r, m) : m \in stored}
    BY <1>1 DEF Moved, After
  <2> QED
    BY <1>4, <2>2, <2>3, <2>4 DEF FoldersOK
<1> QED
  BY <1>5, <1>6, <1>7 DEF SerialInv

LEMMA FolderRowsSerial ==
    ASSUME IInv, SerialInv, UNCHANGED <<working>>, NEW r \in requests, FolderRows(r)
    PROVE  SerialInv'
<1>1. /\ r.args.op \in {"rename", "drop"} /\ r.pc = "rows" /\ rows' = Moved(r, rows)
      /\ UNCHANGED <<stored, folders, sent>> /\ Turns(r, {})
  BY AnswerTurns DEF FolderRows
<1>2. ~Passes(r) /\ ~Moving(r)
  BY <1>1 DEF Passes, Moving
<1>3. requests' = {} /\ HeldOK'
  BY <1>1, <1>2, LoneHeld DEF SerialInv
<1>4. SerialOK'
  BY <1>1, TurnsSerial DEF SerialInv
<1>5. rows' = {RowOf(m) : m \in stored}
  BY <1>1 DEF SerialInv, RowsOK
<1>6. \A i \in Nat : FollowFor(i)'
  BY <1>1, <1>5 DEF FollowFor, RowOf
<1>7. OneRole' => FoldersOK'
  BY <1>1, <1>2, LoneStays
<1> QED
  BY <1>3, <1>4, <1>6, <1>7 DEF SerialInv, RowsOK

-----------------------------------------------------------------------------
(* Uploads and moves: each works on the medium it is about                 *)

\* Before a request has written its medium, the row follows it.
LEMMA OwnFollows ==
    ASSUME IInv, SerialOK, RowsOK, NEW r \in requests, Passes(r), ~Late(r)
    PROVE  Subject(r) \in Nat /\ FollowFor(Subject(r))
<1>1. Subject(r) \in Nat
  BY DEF SerialOK, IInv, TypesOK
<1>2. \A q \in requests : q.pc # "rows"
  BY DEF SerialOK, Passes
<1>3. ~LateFor(Subject(r))
  BY DEF LateFor, SerialOK
<1> QED
  BY <1>1, <1>2, <1>3 DEF RowsOK

\* The media and rows of other requests are not touched.
Spares(i) ==
    /\ \A m \in stored \union stored' : m.id # i => (m \in stored <=> m \in stored')
    /\ \A w \in rows \union rows' : w.id # i => (w \in rows <=> w \in rows')

LEMMA PassStep ==
    ASSUME IInv, SerialInv, NEW r \in requests, Passes(r), Spares(Subject(r)),
           NEW N, requests' = (requests \ {r}) \union N, \A q, k \in N : q = k,
           UNCHANGED <<sent, working>>,
           \A q \in N : /\ q.user = r.user /\ Passes(q) /\ Subject(q) = Subject(r)
                        /\ q.pc # "rows" /\ Held(q)',
           (\E q \in N : Late(q)) \/ FollowFor(Subject(r))'
    PROVE  SerialOK' /\ HeldOK' /\ RowsOK'
<1>1. SerialOK /\ HeldOK /\ RowsOK
  BY DEF SerialInv
<1>2. SerialOK'
  BY <1>1, SerialStep
<1>3. HeldOK'
  <2>1. ASSUME NEW k \in requests \ {r} PROVE Held(k)'
    <3>1. Subject(k) # Subject(r) /\ Held(k)
      BY <1>1 DEF SerialOK, HeldOK
    <3>2. \A m \in stored : m.id = Subject(k) => m \in stored'
      BY <3>1 DEF Spares
    <3> QED
      BY <3>1, <3>2 DEF Held
  <2> QED
    BY <2>1 DEF HeldOK
<1>4. \A q \in requests : q.pc # "rows"
  BY <1>1 DEF SerialOK, Passes
<1>5. ASSUME NEW i \in Nat PROVE LateFor(i)' \/ FollowFor(i)'
  <2>1. CASE i = Subject(r)
    BY <2>1 DEF LateFor
  <2>2. CASE i # Subject(r) /\ LateFor(i)
    BY <2>2 DEF LateFor
  <2>3. CASE i # Subject(r) /\ FollowFor(i)
    <3>1. ASSUME NEW m \in stored', m.id = i PROVE RowOf(m) \in rows'
      <4>1. m \in stored
        BY <2>3, <3>1 DEF Spares
      <4>2. RowOf(m) \in rows /\ RowOf(m).id = i
        BY <2>3, <3>1, <4>1 DEF FollowFor, RowOf
      <4> QED
        BY <2>3, <4>2 DEF Spares
    <3>2. ASSUME NEW w \in rows', w.id = i PROVE \E m \in stored' : RowOf(m) = w
      <4>1. w \in rows
        BY <2>3, <3>2 DEF Spares
      <4>2. PICK m \in stored : RowOf(m) = w
        BY <2>3, <3>2, <4>1 DEF FollowFor
      <4>3. m.id = i
        BY <3>2, <4>2 DEF RowOf
      <4>4. m \in stored'
        BY <2>3, <4>3 DEF Spares
      <4> QED
        BY <4>2, <4>4
    <3> QED
      BY <3>1, <3>2 DEF FollowFor
  <2> QED
    BY <1>1, <1>4, <2>1, <2>2, <2>3 DEF RowsOK
<1>6. RowsOK'
  BY <1>4, <1>5 DEF RowsOK
<1> QED
  BY <1>2, <1>3, <1>6

\* The media stay in folders, and what is checked stays so.
LEMMA PassFolders ==
    ASSUME SerialInv, NEW r \in requests, Passes(r), UNCHANGED <<folders, working>>,
           NEW N, requests' = (requests \ {r}) \union N,
           OneRole => \A m \in stored' : m \in stored \/ Filed(m)',
           \A q \in N : OneRole => Taken(q)'
    PROVE  OneRole' => FoldersOK'
<1> SUFFICES ASSUME OneRole' PROVE FoldersOK'
  OBVIOUS
<1>1. OneRole /\ FoldersOK /\ SerialOK
  BY DEF OneRole, SerialInv
<1>2. \A k \in requests : ~Moving(k)
  BY <1>1 DEF SerialOK, Passes, Moving
<1>3. \A m \in stored : Filed(m)
  BY <1>1, <1>2 DEF FoldersOK
<1>4. \A m : Filed(m) => Filed(m)'
  BY FiledStays
<1>5. \A u, name : Named(u, name)' = Named(u, name)
  BY DEF Named, FoldersOf
<1>6. \A k \in requests : Taken(k)'
  BY <1>1, <1>5 DEF FoldersOK, Taken
<1> QED
  BY <1>1, <1>3, <1>4, <1>6 DEF FoldersOK

\* A step that leaves media and rows as they are.
LEMMA PassTurn ==
    ASSUME IInv, SerialInv, NEW r \in requests, Passes(r), ~Late(r),
           NEW N, Turns(r, N), UNCHANGED <<stored, folders, rows, sent, working>>,
           \A q \in N : q.pc # "rows" /\ Held(q)' /\ (OneRole => Taken(q)')
    PROVE  SerialInv'
<1>1. Spares(Subject(r))
  BY DEF Spares
<1>2. FollowFor(Subject(r))'
  <2>1. FollowFor(Subject(r))
    BY OwnFollows DEF SerialInv
  <2> QED
    BY <2>1 DEF FollowFor
<1>3. \A q \in N : q.user = r.user /\ Passes(q) /\ Subject(q) = Subject(r)
  BY DEF Turns, Passes, Subject
<1>4. SerialOK' /\ HeldOK' /\ RowsOK'
  BY <1>1, <1>2, <1>3, PassStep DEF Turns
<1>5. OneRole' => FoldersOK'
  BY PassFolders DEF Turns
<1> QED
  BY <1>4, <1>5 DEF SerialInv

\* A request that goes on, late or having written its row, or that is answered.
LEMMA PassGo ==
    ASSUME IInv, SerialInv, NEW r \in requests, Passes(r), Spares(Subject(r)),
           NEW q, Turns(r, {q}), UNCHANGED <<folders, sent, working>>,
           q.pc # "rows", Held(q)', Taken(q)', Late(q),
           OneRole => \A m \in stored' : m \in stored \/ Filed(m)'
    PROVE  SerialInv'
<1> DEFINE N == {q}
<1>1. /\ requests' = (requests \ {r}) \union N /\ \A k, l \in N : k = l
      /\ q.n = r.n /\ q.user = r.user /\ q.args = r.args
  BY DEF Turns
<1>2. Passes(q) /\ Subject(q) = Subject(r)
  BY <1>1 DEF Passes, Subject
<1>3. \A k \in N : /\ k.user = r.user /\ Passes(k) /\ Subject(k) = Subject(r)
                  /\ k.pc # "rows" /\ Held(k)' /\ Taken(k)'
  BY <1>1, <1>2
<1>4. \E k \in N : Late(k)
  OBVIOUS
<1> HIDE DEF N
<1>5. SerialOK' /\ HeldOK' /\ RowsOK'
  BY <1>1, <1>3, <1>4, PassStep
<1>6. OneRole' => FoldersOK'
  BY <1>1, <1>3, PassFolders
<1> QED
  BY <1>5, <1>6 DEF SerialInv

LEMMA PassAnswer ==
    ASSUME IInv, SerialInv, NEW r \in requests, Passes(r), Spares(Subject(r)),
           FollowFor(Subject(r))', Answer(r), UNCHANGED <<stored, folders, sent, working>>
    PROVE  SerialInv'
<1> DEFINE N == {}
<1>1. requests' = (requests \ {r}) \union N
  BY DEF Answer
<1>2. \A k \in N : FALSE
  OBVIOUS
<1> HIDE DEF N
<1>3. SerialOK' /\ HeldOK' /\ RowsOK'
  BY <1>1, <1>2, PassStep
<1>4. OneRole' => FoldersOK'
  BY <1>1, <1>2, PassFolders
<1> QED
  BY <1>3, <1>4 DEF SerialInv

LEMMA FindDuplicateSerial ==
    ASSUME IInv, SerialInv, UNCHANGED <<working>>, NEW r \in requests,
           FindDuplicate(r) \/ Commit(r) \/ (Create(r) /\ Same(r) # {}) \/ DropRaced(r)
    PROVE  SerialInv'
<1>1. /\ r.args.op = "upload" /\ r.pc # "upsert"
      /\ UNCHANGED <<stored, folders, rows, sent>>
      /\ Answer(r) \/ \E pc \in {"commit", "create", "raced"} : Go(r, pc)
  BY DEF FindDuplicate, Commit, Create, DropRaced, RequestAt
<1>2. Passes(r) /\ ~Late(r)
  BY <1>1 DEF Passes, Late, Deletes
<1>3. CASE Answer(r)
  BY <1>1, <1>2, <1>3, AnswerTurns, PassTurn
<1>4. ASSUME NEW pc \in {"commit", "create", "raced"}, Go(r, pc) PROVE SerialInv'
  <2>1. pc \in Steps
    BY StepNames
  <2>2. PICK q \in Request : Turns(r, {q}) /\ q.pc = pc
    BY <1>4, <2>1, GoTurns
  <2>3. Held(q)' /\ Taken(q)' /\ q.pc # "rows"
    BY <1>1, <2>2 DEF Turns, Held, Taken
  <2> QED
    BY <1>1, <1>2, <2>2, <2>3, PassTurn
<1> QED
  BY <1>1, <1>3, <1>4

LEMMA CreateSerial ==
    ASSUME IInv, SerialInv, UNCHANGED <<working>>, NEW r \in requests, Create(r), Same(r) = {}
    PROVE  SerialInv'
<1> DEFINE m == [id |-> r.n, owner |-> r.user, folder |-> Root,
                 content |-> r.args.content, path |-> PathOf(r)]
<1>1. /\ r.args.op = "upload" /\ r.pc = "create" /\ stored' = stored \union {m}
      /\ Go(r, "upsert") /\ UNCHANGED <<folders, rows, sent>>
  BY DEF Create, RequestAt
<1>2. m.id = r.n /\ m.owner = r.user /\ m.folder = Root
  OBVIOUS
<1> HIDE DEF m
<1>3. PICK q \in Request : Turns(r, {q}) /\ q.pc = "upsert"
  <2>1. "upsert" \in Steps
    BY StepNames
  <2> QED
    BY <1>1, <2>1, GoTurns
<1>4. q.n = r.n /\ q.args = r.args /\ q.user = r.user
  BY <1>3 DEF Turns
<1>5. /\ Passes(r) /\ Subject(r) = r.n
      /\ Passes(q) /\ Subject(q) = r.n /\ Late(q) /\ q.pc # "rows"
  BY <1>1, <1>3, <1>4 DEF Passes, Subject, Late
<1>6. Spares(Subject(r))
  BY <1>1, <1>2, <1>5 DEF Spares
<1>7. Held(q)' /\ Taken(q)' /\ Filed(m)'
  <2>1. m \in stored'
    BY <1>1
  <2>2. Held(q)'
    BY <1>1, <1>2, <1>4, <1>5, <2>1 DEF Held
  <2> QED
    BY <1>1, <1>2, <1>4, <2>2 DEF Taken, Filed
<1>8. \A k \in stored' : k \in stored \/ Filed(k)'
  BY <1>1, <1>7
<1> QED
  BY <1>1, <1>3, <1>5, <1>6, <1>7, <1>8, PassGo

\* A row is written that repeats its medium.
LEMMA RowWritten ==
    ASSUME IInv, NEW m \in stored, UNCHANGED stored, rows' = RowSet(m.id, m.owner, m.folder)
    PROVE  FollowFor(m.id)' /\ Spares(m.id)
<1>1. \A k \in stored : k.id = m.id => k = m
  BY DEF IInv, MediaOK
<1>2. rows' = {w \in rows : w.id # m.id} \union {RowOf(m)} /\ RowOf(m).id = m.id
  BY DEF RowSet, RowOf
<1>3. FollowFor(m.id)'
  BY <1>1, <1>2 DEF FollowFor
<1>4. Spares(m.id)
  BY <1>2 DEF Spares
<1> QED
  BY <1>3, <1>4

LEMMA UpsertUploadedSerial ==
    ASSUME IInv, SerialInv, UNCHANGED <<working>>, NEW r \in requests, UpsertUploaded(r)
    PROVE  SerialInv'
<1>1. /\ r.args.op = "upload" /\ r.pc = "upsert" /\ rows' = RowSet(r.n, r.user, Root)
      /\ UNCHANGED <<stored, folders, sent>>
  BY DEF UpsertUploaded, RequestAt
<1>2. Passes(r) /\ Subject(r) = r.n
  BY <1>1 DEF Passes, Subject
<1>3. PICK m \in stored : m.id = r.n /\ m.owner = r.user /\ m.folder = Root
  BY <1>1, <1>2 DEF SerialInv, HeldOK, Held
<1>4. FollowFor(Subject(r))' /\ Spares(Subject(r))
  BY <1>1, <1>2, <1>3, RowWritten
<1>5. CASE Answer(r)
  BY <1>1, <1>2, <1>4, <1>5, PassAnswer
<1> DEFINE a == [op |-> "move", id |-> r.n, to |-> r.args.to]
           q == [r EXCEPT !.pc = "begin", !.args = a]
<1>6. CASE requests' = (requests \ {r}) \union {q}
  <2>1. r \in Request /\ r.n \in Nat /\ r.args.to \in Folder
    BY <1>1, RequestFields, ArgsFields DEF IInv
  <2>2. a \in Args /\ a.op = "move" /\ a.id = r.n
    BY <2>1 DEF Args
  <2> HIDE DEF a
  <2>3. q.user = r.user /\ q.pc = "begin" /\ q.args = a
    BY <2>1, <2>2, MoveFields
  <2> DEFINE N == {q}
  <2>4. requests' = (requests \ {r}) \union N /\ \A k, l \in N : k = l
    BY <1>6
  <2> HIDE DEF q
  <2>5. Passes(q) /\ Subject(q) = Subject(r) /\ Held(q)' /\ Taken(q)'
    BY <1>2, <2>2, <2>3 DEF Passes, Subject, Held, Taken
  <2>6. \A k \in N : /\ k.user = r.user /\ Passes(k) /\ Subject(k) = Subject(r)
                    /\ k.pc # "rows" /\ Held(k)' /\ Taken(k)'
    BY <2>3, <2>5
  <2> HIDE DEF N
  <2>7. SerialOK' /\ HeldOK' /\ RowsOK'
    BY <1>1, <1>2, <1>4, <2>4, <2>6, PassStep
  <2>8. OneRole' => FoldersOK'
    BY <1>1, <1>2, <2>4, <2>6, PassFolders
  <2> QED
    BY <2>7, <2>8 DEF SerialInv
<1> QED
  BY <1>5, <1>6 DEF UpsertUploaded

LEMMA MoveFindsSerial ==
    ASSUME IInv, SerialInv, UNCHANGED <<working>>, NEW r \in requests, MoveFinds(r)
    PROVE  SerialInv'
<1>1. /\ r.args.op = "move" /\ r.pc = "begin" /\ UNCHANGED <<stored, folders, rows, sent>>
  BY DEF MoveFinds, RequestAt
<1>2. Passes(r) /\ ~Late(r)
  BY <1>1 DEF Passes, Late, Deletes
<1>3. CASE Answer(r)
  BY <1>1, <1>2, <1>3, AnswerTurns, PassTurn
<1>4. ASSUME NEW m \in Medium(r),
             requests' = (requests \ {r}) \union {Found(r, "check", m)}
      PROVE  SerialInv'
  <2>1. m \in stored /\ Reaches(r.user, m) /\ m.id = r.args.id
    BY SeenMedium
  <2>2. m \in MediaDoc /\ "check" \in Steps
    BY <2>1, StepNames DEF IInv, TypesOK
  <2> DEFINE q == Found(r, "check", m)
  <2>3. Turns(r, {q}) /\ q.pc = "check" /\ q.kept = m
    BY <1>4, <2>2, FoundTurns
  <2> HIDE DEF q
  <2>4. q.args = r.args /\ q.user = r.user
    BY <2>3 DEF Turns
  <2>5. Subject(q) = r.args.id
    BY <1>1, <2>4 DEF Subject
  <2>6. Held(q)'
    BY <1>1, <2>1, <2>3, <2>4, <2>5 DEF Held, Reaches
  <2>7. Taken(q)'
    BY <1>1, <2>3, <2>4 DEF Taken
  <2> QED
    BY <1>1, <1>2, <2>3, <2>6, <2>7, PassTurn
<1> QED
  BY <1>3, <1>4 DEF MoveFinds, Found

LEMMA MoveChecksSerial ==
    ASSUME IInv, SerialInv, UNCHANGED <<working>>, NEW r \in requests, MoveChecks(r)
    PROVE  SerialInv'
<1>1. /\ r.args.op = "move" /\ r.pc = "check" /\ UNCHANGED <<stored, folders, rows, sent>>
  BY DEF MoveChecks, RequestAt
<1>2. Passes(r) /\ ~Late(r) /\ Held(r)
  BY <1>1 DEF Passes, Late, Deletes, SerialInv, HeldOK
<1>3. CASE Answer(r)
  BY <1>1, <1>2, <1>3, AnswerTurns, PassTurn
<1>4. CASE (r.args.to = Root \/ Named(r.user, r.args.to) # {}) /\ Go(r, "save")
  <2>1. "save" \in Steps
    BY StepNames
  <2>2. PICK q \in Request : Turns(r, {q}) /\ q.pc = "save" /\ q.kept = r.kept
    BY <1>4, <2>1, GoTurns
  <2>3. q.args = r.args /\ q.user = r.user
    BY <2>2 DEF Turns
  <2>4. Subject(q) = Subject(r)
    BY <1>1, <2>3 DEF Subject
  <2>5. Held(q)'
    BY <1>1, <1>2, <2>2, <2>3, <2>4 DEF Held, Reaches
  <2>6. Taken(q)'
    BY <1>1, <1>4, <2>2, <2>3 DEF Taken, Named, FoldersOf
  <2> QED
    BY <1>1, <1>2, <2>2, <2>5, <2>6, PassTurn
<1> QED
  BY <1>3, <1>4 DEF MoveChecks

LEMMA MoveSavesSerial ==
    ASSUME UserAssumption, IInv, SerialInv, UNCHANGED <<working>>,
           NEW r \in requests, MoveSaves(r)
    PROVE  SerialInv'
<1> DEFINE there == {m \in stored : m.id = r.args.id}
           k == [r.kept EXCEPT !.folder = r.args.to]
<1>1. /\ r.args.op = "move" /\ r.pc = "save" /\ UNCHANGED <<folders, rows, sent>>
  BY DEF MoveSaves, RequestAt
<1>2. Passes(r) /\ Held(r) /\ Subject(r) = r.args.id
  BY <1>1 DEF Passes, Subject, SerialInv, HeldOK
<1>3. r.kept \in stored /\ r.kept.id = r.args.id /\ Reaches(r.user, r.kept)
  BY <1>1, <1>2 DEF Held
<1>4. there = {r.kept} /\ r.kept \in MediaDoc
  BY <1>3 DEF IInv, MediaOK, TypesOK
<1>5. k.id = r.args.id /\ k.owner = r.kept.owner /\ k.folder = r.args.to
  BY <1>3, <1>4 DEF MediaDoc
<1>6. /\ r.kept.folder = r.args.to => stored' = stored
      /\ r.kept.folder # r.args.to => stored' = (stored \ {r.kept}) \union {k}
      /\ Go(r, "upsert")
  BY <1>3, <1>4 DEF MoveSaves
<1> HIDE DEF there, k
<1>7. PICK q \in Request : Turns(r, {q}) /\ q.pc = "upsert" /\ q.kept = r.kept
  <2>1. "upsert" \in Steps
    BY StepNames
  <2> QED
    BY <1>6, <2>1, GoTurns
<1>8. q.args = r.args /\ q.user = r.user
  BY <1>7 DEF Turns
<1>9. Passes(q) /\ Subject(q) = r.args.id /\ Late(q) /\ q.pc # "rows"
  BY <1>1, <1>7, <1>8 DEF Passes, Subject, Late
<1>10. Held(q)'
  <2>1. CASE r.kept.folder = r.args.to
    BY <1>1, <1>3, <1>6, <1>7, <1>8, <1>9, <2>1 DEF Held
  <2>2. CASE r.kept.folder # r.args.to
    <3>1. k \in stored'
      BY <1>6, <2>2
    <3> QED
      BY <1>1, <1>5, <1>7, <1>8, <1>9, <3>1 DEF Held
  <2> QED
    BY <2>1, <2>2
<1>11. Spares(Subject(r))
  BY <1>1, <1>2, <1>3, <1>5, <1>6 DEF Spares
<1>12. Taken(q)'
  BY <1>1, <1>7, <1>8 DEF Taken
<1>13. ASSUME OneRole, r.kept.folder # r.args.to PROVE Filed(k)'
  <2>1. Taken(r)
    BY <1>13 DEF SerialInv, FoldersOK
  <2>2. CASE r.args.to = Root
    BY <1>5, <2>2 DEF Filed
  <2>3. CASE r.args.to # Root
    <3>1. PICK f \in Named(r.user, r.args.to) : TRUE
      BY <1>1, <2>1, <2>3 DEF Taken
    <3>2. f \in folders /\ Reaches(r.user, f) /\ f.name = r.args.to
      BY SeenFolders
    <3>3. working \subseteq Operators => f.owner = r.kept.owner
      BY <1>3, <1>13, <3>2, FolderOf DEF SerialInv
    <3> QED
      BY <1>1, <1>5, <3>2, <3>3 DEF Filed, In
  <2> QED
    BY <2>2, <2>3
<1>14. OneRole => \A m \in stored' : m \in stored \/ Filed(m)'
  BY <1>6, <1>13
<1> QED
  BY <1>1, <1>2, <1>7, <1>9, <1>10, <1>11, <1>12, <1>14, PassGo

LEMMA MoveUpsertsSerial ==
    ASSUME IInv, SerialInv, UNCHANGED <<working>>, NEW r \in requests, MoveUpserts(r)
    PROVE  SerialInv'
<1>1. /\ r.args.op = "move" /\ r.pc = "upsert" /\ UNCHANGED <<stored, folders, sent>>
      /\ rows' = RowSet(r.args.id, r.kept.owner, r.args.to) /\ Answer(r)
  BY DEF MoveUpserts, RequestAt
<1>2. Passes(r) /\ Held(r) /\ Subject(r) = r.args.id
  BY <1>1 DEF Passes, Subject, SerialInv, HeldOK
<1>3. PICK m \in stored : /\ m.id = r.args.id /\ m.owner = r.kept.owner
                          /\ m.folder = r.args.to
  BY <1>1, <1>2 DEF Held
<1>4. FollowFor(Subject(r))' /\ Spares(Subject(r))
  BY <1>1, <1>2, <1>3, RowWritten
<1> QED
  BY <1>1, <1>2, <1>4, PassAnswer

-----------------------------------------------------------------------------
(* New requests, and the whole                                             *)

LEMMA SendsSerial ==
    ASSUME IInv, SerialInv, NEW u \in working, NEW args \in Args, Send(u, args),
           UNCHANGED <<stored, folders, rows, working>>,
           args.op \in {"move", "delete"} => args.id \in 1 .. sent,
           \/ requests = {}
           \/ args.op = "upload" /\ \A r \in requests : Passes(r)
    PROVE  SerialInv'
<1>1. sent \in Nat /\ sent' = sent + 1
  BY DEF Send, IInv, TypesOK
<1>2. PICK q : /\ q.n = sent + 1 /\ q.user = u /\ q.pc = "begin" /\ q.args = args
               /\ requests' = requests \union {q}
  <2> DEFINE k == [n |-> sent + 1, user |-> u, pc |-> "begin", args |-> args, kept |-> Root]
  <2>1. k.n = sent + 1 /\ k.user = u /\ k.pc = "begin" /\ k.args = args
    OBVIOUS
  <2>2. requests' = requests \union {k}
    BY DEF Send
  <2> HIDE DEF k
  <2> QED
    BY <2>1, <2>2
<1>3. /\ \A r \in requests : r.pc # "rows"
      /\ \A i \in Nat : LateFor(i) \/ FollowFor(i)
  <2>1. \A r \in requests : r.pc # "rows"
    BY DEF SerialInv, SerialOK, Passes
  <2> QED
    BY <2>1 DEF SerialInv, RowsOK
<1>4. SerialOK'
  <2>1. Passes(q) \/ Deletes(q) => Subject(q) \in 1 .. sent'
    BY <1>1, <1>2 DEF Passes, Deletes, Subject
  <2>2. ASSUME NEW r \in requests
        PROVE  Passes(q) /\ Passes(r) /\ Subject(r) # Subject(q)
    <3>1. Passes(r) /\ Subject(r) \in 1 .. sent /\ args.op = "upload"
      BY DEF SerialInv, SerialOK
    <3>2. Passes(q) /\ Subject(q) = sent + 1
      BY <1>2, <3>1 DEF Passes, Subject
    <3> QED
      BY <1>1, <3>1, <3>2
  <2>3. ASSUME NEW r \in requests', NEW k \in requests', r # k
        PROVE  Passes(r) /\ Passes(k) /\ Subject(r) # Subject(k)
    <3>1. CASE r \in requests /\ k \in requests
      BY <2>3, <3>1 DEF SerialInv, SerialOK
    <3> QED
      BY <1>1, <1>2, <2>2, <2>3, <3>1
  <2>4. ASSUME NEW r \in requests'
        PROVE  /\ r.user \in working'
               /\ Passes(r) \/ Deletes(r) => Subject(r) \in 1 .. sent'
               /\ r.pc = "rows" => r.args.op \in {"rename", "drop"}
    <3>1. CASE r \in requests
      <4>1. /\ r.user \in working
            /\ Passes(r) \/ Deletes(r) => Subject(r) \in 1 .. sent
            /\ r.pc = "rows" => r.args.op \in {"rename", "drop"}
        BY <3>1 DEF SerialInv, SerialOK
      <4> QED
        BY <1>1, <4>1
    <3>2. CASE r = q
      BY <1>2, <2>1, <3>2
    <3> QED
      BY <1>2, <3>1, <3>2
  <2> QED
    BY <2>3, <2>4 DEF SerialOK
<1>5. HeldOK'
  <2>1. Held(q)'
    BY <1>2 DEF Held
  <2>2. \A r \in requests : Held(r)'
    BY DEF SerialInv, HeldOK, Held
  <2> QED
    BY <1>2, <2>1, <2>2 DEF HeldOK
<1>6. RowsOK'
  <2>1. \A r \in requests' : r.pc # "rows"
    BY <1>1, <1>2, <1>3
  <2>2. ASSUME NEW i \in Nat PROVE LateFor(i)' \/ FollowFor(i)'
    <3>1. LateFor(i) => LateFor(i)'
      BY <1>2 DEF LateFor
    <3>2. FollowFor(i) => FollowFor(i)'
      BY DEF FollowFor
    <3> QED
      BY <1>3, <3>1, <3>2
  <2> QED
    BY <2>1, <2>2 DEF RowsOK
<1>7. ASSUME OneRole' PROVE FoldersOK'
  <2>1. FoldersOK
    BY <1>7 DEF OneRole, SerialInv
  <2>2. \A k \in requests : ~Moving(k)
    BY DEF SerialInv, SerialOK, Passes, Moving
  <2>3. \A m \in stored' : Filed(m)'
    BY <2>1, <2>2, FiledStays DEF FoldersOK
  <2>4. \A v, name : Named(v, name)' = Named(v, name)
    BY DEF Named, FoldersOf
  <2>5. \A k \in requests : Taken(k)'
    BY <2>1, <2>4 DEF FoldersOK, Taken
  <2>6. Taken(q)'
    BY <1>2 DEF Taken
  <2> QED
    BY <1>2, <2>3, <2>5, <2>6 DEF FoldersOK
<1> QED
  BY <1>4, <1>5, <1>6, <1>7 DEF SerialInv

LEMMA StartsSerial ==
    ASSUME IInv, SerialInv, ~together, UNCHANGED <<working>>,
           \/ \E u \in working, c \in Contents, to \in Folder : StartUpload(u, c, to)
           \/ \E u \in working, name \in Names :
                \/ \E op \in {"create", "drop"} : StartFolder(u, op, name)
                \/ \E to \in Names : StartRename(u, name, to)
           \/ \E u \in working : \E m \in MediaSeen(u) :
                StartDelete(u, m.id) \/ \E to \in Folder : StartMove(u, m.id, to)
    PROVE  SerialInv'
<1>1. ASSUME NEW u \in working, NEW c \in Contents, NEW to \in Folder, StartUpload(u, c, to)
      PROVE  SerialInv'
  <2> DEFINE args == [op |-> "upload", content |-> c, to |-> to]
  <2>1. args \in Args /\ args.op = "upload"
    BY DEF Args
  <2>2. /\ Send(u, args) /\ UNCHANGED <<stored, folders, rows, working>>
        /\ \A r \in requests : Passes(r)
    BY <1>1 DEF StartUpload, Passes
  <2> HIDE DEF args
  <2> QED
    BY <2>1, <2>2, SendsSerial
<1>2. ASSUME NEW u \in working, NEW name \in Names, NEW op \in {"create", "drop"},
             StartFolder(u, op, name)
      PROVE  SerialInv'
  <2> DEFINE args == [op |-> op, name |-> name]
  <2>1. args \in Args /\ args.op \notin {"move", "delete"}
    BY DEF Args
  <2>2. Send(u, args) /\ UNCHANGED <<stored, folders, rows, working>> /\ requests = {}
    BY <1>2 DEF StartFolder, Alone
  <2> HIDE DEF args
  <2> QED
    BY <2>1, <2>2, SendsSerial
<1>3. ASSUME NEW u \in working, NEW name \in Names, NEW to \in Names, StartRename(u, name, to)
      PROVE  SerialInv'
  <2> DEFINE args == [op |-> "rename", name |-> name, to |-> to]
  <2>1. args \in Args /\ args.op \notin {"move", "delete"}
    BY DEF Args
  <2>2. Send(u, args) /\ UNCHANGED <<stored, folders, rows, working>> /\ requests = {}
    BY <1>3 DEF StartRename, Alone
  <2> HIDE DEF args
  <2> QED
    BY <2>1, <2>2, SendsSerial
<1>4. ASSUME NEW u \in working, NEW m \in MediaSeen(u)
      PROVE  m \in stored /\ m.id \in Nat /\ m.id \in 1 .. sent
  BY MediaFields DEF MediaSeen, IInv, TypesOK, MediaOK
<1>5. ASSUME NEW u \in working, NEW m \in MediaSeen(u), StartDelete(u, m.id)
      PROVE  SerialInv'
  <2> DEFINE args == [op |-> "delete", id |-> m.id]
  <2>1. args \in Args /\ args.id \in 1 .. sent
    BY <1>4 DEF Args
  <2>2. Send(u, args) /\ UNCHANGED <<stored, folders, rows, working>> /\ requests = {}
    BY <1>5 DEF StartDelete, Alone
  <2> HIDE DEF args
  <2> QED
    BY <2>1, <2>2, SendsSerial
<1>6. ASSUME NEW u \in working, NEW m \in MediaSeen(u), NEW to \in Folder,
             StartMove(u, m.id, to)
      PROVE  SerialInv'
  <2> DEFINE args == [op |-> "move", id |-> m.id, to |-> to]
  <2>1. args \in Args /\ args.id \in 1 .. sent
    BY <1>4 DEF Args
  <2>2. Send(u, args) /\ UNCHANGED <<stored, folders, rows, working>> /\ requests = {}
    BY <1>6 DEF StartMove, Alone
  <2> HIDE DEF args
  <2> QED
    BY <2>1, <2>2, SendsSerial
<1> QED
  BY <1>1, <1>2, <1>3, <1>5, <1>6

\* What holds for requests one at a time, until a crash or a file that stays.
Serially == ~together /\ ~failed => SerialInv

LEMMA SerialInit == ASSUME MediaInit PROVE Serially
<1>1. SerialOK /\ HeldOK /\ FoldersOK
  BY DEF MediaInit, SerialOK, HeldOK, FoldersOK
<1>2. RowsOK
  BY DEF MediaInit, RowsOK, FollowFor
<1> QED
  BY <1>1, <1>2 DEF Serially, SerialInv

LEMMA SerialNext ==
    ASSUME NameAssumption, UserAssumption, IInv, Serially, [MediaNext]_mediaVars
    PROVE  Serially'
<1> SUFFICES ASSUME ~together', ~failed' PROVE SerialInv'
  BY DEF Serially
<1>1. CASE UNCHANGED mediaVars
  BY <1>1 DEF mediaVars, Serially, SerialInv, SerialOK, HeldOK, Held, RowsOK, LateFor,
              FollowFor, FoldersOK, Filed, In, Taken, Named, FoldersOf, OneRole
<1>2. CASE MediaNext
  <2>1. UNCHANGED <<working, together>> /\ ~together
    BY <1>2 DEF MediaNext
  <2>2. ~Crash
    BY DEF Crash
  <2>3. ~failed
    <3>1. ~Crash => failed' = failed \/ failed' = TRUE
      BY <1>2 DEF MediaNext, StartUpload, StartFolder, StartRename, StartDelete, StartMove,
         FindDuplicate, Commit, Create, DropRaced, UpsertUploaded, MoveFinds, MoveChecks,
         MoveSaves, MoveUpserts, DeleteFindsMedium, DeleteRemoves, DeleteFile, CreateChecks,
         CreateFolder, RenameChecks, RenameDrops, RenameUpdates, DropFolder, FolderMedia,
         FolderRows
    <3> QED
      BY <2>2, <3>1
  <2>4. SerialInv
    BY <2>1, <2>3 DEF Serially
  <2>5. ASSUME NEW r \in requests,
               \/ FindDuplicate(r) \/ Commit(r) \/ Create(r) \/ DropRaced(r)
               \/ UpsertUploaded(r) \/ MoveFinds(r) \/ MoveChecks(r) \/ MoveSaves(r)
               \/ MoveUpserts(r)
        PROVE  SerialInv'
    BY <2>1, <2>4, <2>5, FindDuplicateSerial, CreateSerial, UpsertUploadedSerial,
       MoveFindsSerial, MoveChecksSerial, MoveSavesSerial, MoveUpsertsSerial
  <2>6. ASSUME NEW r \in requests,
               \/ DeleteFindsMedium(r) \/ DeleteRemoves(r) \/ DeleteFile(r)
               \/ CreateChecks(r) \/ CreateFolder(r) \/ RenameChecks(r) \/ RenameDrops(r)
               \/ RenameUpdates(r) \/ DropFolder(r) \/ FolderMedia(r) \/ FolderRows(r)
        PROVE  SerialInv'
    BY <2>1, <2>4, <2>6, DeleteFindsSerial, DeleteRemovesSerial, DeleteFileSerial,
       CreateChecksSerial, CreateFolderSerial, RenameChecksSerial, RenameDropsSerial,
       RenameUpdatesSerial, DropFolderSerial, FolderMediaSerial, FolderRowsSerial
  <2> QED
    BY <1>2, <2>1, <2>2, <2>4, <2>5, <2>6, StartsSerial DEF MediaNext
<1> QED
  BY <1>1, <1>2

LEMMA MediaInvariant == ASSUME NameAssumption PROVE MediaSpec => [](IInv /\ FixedOK)
BY InvariantInit, InvariantNext, PTL DEF MediaSpec

(***************************************************************************)
(* The documents, rows, files and requests of the media routes keep their  *)
(* types, whatever a request still holds of what it has read.              *)
(***************************************************************************)
THEOREM StorageTypes == ASSUME NameAssumption PROVE MediaSpec => []MediaTypeOK
<1>1. IInv /\ FixedOK => MediaTypeOK
  BY DEF IInv, TypesOK, FixedOK, MediaTypeOK
<1> QED
  BY <1>1, MediaInvariant, PTL

LEMMA MediaSerially ==
    ASSUME NameAssumption, UserAssumption PROVE MediaSpec => []Serially
<1>1. IInv /\ Serially /\ [MediaNext]_mediaVars => Serially'
  BY SerialNext
<1>2. MediaInit => Serially
  BY SerialInit
<1> QED
  BY <1>1, <1>2, MediaInvariant, PTL DEF MediaSpec

(***************************************************************************)
(* Uploads, deletions and moves keep media, files, rows and folders        *)
(* together: however they overlap and wherever the backend crashes, a      *)
(* medium has its file, and without a failure a file has its medium.  If   *)
(* requests other than uploads come one at a time, then whenever none is   *)
(* under way the shadow rows are the media, and no medium is in a folder   *)
(* that its owner cannot open (operators) or that is gone                  *)
(* (administrators).                                                       *)
(***************************************************************************)
THEOREM MediaStay ==
    ASSUME NameAssumption, UserAssumption PROVE MediaSpec => []MediaStayReachable
<1>1. IInv => MediaHaveFiles /\ FilesHaveMedia
  BY DEF IInv, MediaOK, FilesOwned, Owned, MediaHaveFiles, FilesHaveMedia
<1>2. ASSUME IInv, Serially, ~together, ~failed, requests = {}
      PROVE  /\ rows = {RowOf(m) : m \in stored}
             /\ OneRole => \A m \in stored : Filed(m)
  <2>1. RowsOK /\ (OneRole => FoldersOK)
    BY <1>2 DEF Serially, SerialInv
  <2>2. \A i \in Nat : FollowFor(i)
    BY <1>2, <2>1 DEF RowsOK, LateFor
  <2>3. OneRole => \A m \in stored : Filed(m)
    BY <1>2, <2>1 DEF FoldersOK
  <2> QED
    BY <1>2, <2>2, <2>3, FollowRows
<1>3. IInv /\ Serially /\ ~together => RowsFollow
  BY <1>2 DEF RowsFollow, RowOf
<1>4. IInv /\ Serially /\ ~together /\ (working \subseteq Operators) => NothingStranded
  BY <1>2 DEF NothingStranded, OneRole, Filed, In, Openable
<1>5. IInv /\ Serially /\ ~together /\ (working \subseteq Admins) => NoLostFolder
  BY <1>2 DEF NoLostFolder, OneRole, Filed, In
<1>6. IInv /\ Serially => MediaStayReachable
  BY <1>1, <1>3, <1>4, <1>5 DEF MediaStayReachable
<1> QED
  BY <1>6, MediaInvariant, MediaSerially, PTL
=============================================================================
