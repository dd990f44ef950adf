---------------------------- MODULE MCLibrary ----------------------------
(* The libraries on small instances: one part moves and the others stay in *)
(* an initial state.                                                       *)
(*   single    ContentLibrary: calls of every kind, one after the other    *)
(*   pairs     ContentLibrary: two overlapping calls of every kind         *)
(*   uploads   MediaLibrary: an operator's overlapping uploads and other   *)
(*             requests, crashes                                           *)
(*   folders   MediaLibrary: two operators' folders, one request at a time *)
(*   admin     MediaLibrary: an administrator's folders                    *)
EXTENDS ContentLibrary, MediaLibrary, TLC

CONSTANTS Parts, Others, app, file, admin, op1, op2, Uploads
VARIABLES part

allVars == <<part, vars, mediaVars>>

FileNameOf == app :> app @@ file :> file

ASSUME LibraryAssumption /\ UserAssumption /\ NameAssumption

LibraryInit ==
    /\ part \in Parts
    /\ Init /\ MediaInit
    /\ overlap = (part = "pairs") /\ together = (part = "uploads")
    /\ \/ part = "single" /\ \A c \in Calls : call[c] = NewCall
       \/ part = "pairs" /\ Cardinality({c \in Calls : call[c] = NewCall}) = 2
       \/ /\ part \notin {"single", "pairs"}
          /\ \A c \in Calls : call[c] = NotMade
          /\ playlist[First].items = Mapped(CHOOSE S \in Wanted : TRUE)
    /\ working = CASE part = "uploads" -> {op1}
                   [] part = "folders" -> {op1, op2}
                   [] part = "admin" -> {admin}
                   [] OTHER -> {}

\* Bounds of the parts: the calls one after the other have no creation key and
\* leave out the list page, which publishes like the editor.
Plain == \A c \in Calls : call'[c].kind # "list" /\ call'[c].key = None
\* Folders are about files of one content and a backend that does not crash.
OneContent ==
    /\ ~failed'
    /\ \A r, s \in {r \in requests' : r.args.op = "upload"} : r.args.content = s.args.content
    /\ \A m \in stored' : \A r \in {r \in requests' : r.args.op = "upload"} :
         r.args.content = m.content

LibraryNext ==
    /\ UNCHANGED part
    /\ \/ /\ Next
          /\ \/ part = "single" /\ Plain
             \/ part = "pairs"
          /\ UNCHANGED mediaVars
       \/ /\ MediaNext
          /\ \/ part = "uploads" /\ sent' <= Uploads
             \/ part \in {"folders", "admin"} /\ OneContent
          /\ UNCHANGED vars

LibrarySpec == LibraryInit /\ [][LibraryNext]_allVars

Symmetry == Permutations(Calls) \union Permutations(Others)
                \union Permutations(Contents) \union Permutations(Names)
=============================================================================
