------------------------ MODULE ContentLibraryProofs ------------------------
(***************************************************************************)
(* Proofs about ContentLibrary for any number of calls, playlists, media   *)
(* and devices.  Calls that overlap in any way: what a version number      *)
(* means, that an editor keeps others' work, that what is published is     *)
(* what its user has seen, and that a connection after the last call shows *)
(* what is assigned.  Calls made one after the other: what holds at rest.  *)
(***************************************************************************)
EXTENDS ContentLibrary, TLAPS

Items == SUBSET Item
FileNames == {NameOf[m] : m \in Media} \union {None}
Doc == [state : {"new", "live", "gone"}, version : Nat, items : Items, published : Nat,
        wraps : FileNames, key : Keys \union {None}]
PayloadDoc == [pl : Playlists \union {None}, version : Nat, items : Items]
Connection == [at : {"off", "joined", "pushing", "on"}, got : PayloadDoc, calm : BOOLEAN]
Snapshot == [pl : Playlists, state : Doc]
Steps == {"new", "done", "loaded", "mapped", "saved", "creating", "created", "marking",
          "assigning", "emitting", "deleted", "clearing", "detaching", "purging",
          "removing", "updated", "next", "refreshing"}
CallDoc == [kind : AllKinds \union {"none"}, at : Steps, pl : Playlists \union {None},
            version : Nat, wants : SUBSET Media, items : Items, seen : Items,
            name : FileNames, key : Keys \union {None}, devs : SUBSET Devices,
            todo : SUBSET Snapshot, ok : BOOLEAN]

TypesOK ==
    /\ media \in [Media -> 0 .. MaxRevision]
    /\ playlist \in [Playlists -> Doc]
    /\ wrote \in [Playlists -> Seq(Items)]
    /\ assigned \in [Devices -> Playlists \union {None}]
    /\ shown \in [Devices -> PayloadDoc]
    /\ conn \in [Devices -> Connection]
    /\ call \in [Calls -> CallDoc]

(***************************************************************************)
(* The history has a content for every version a playlist ever had, and    *)
(* the last one is what the playlist holds.                                *)
(***************************************************************************)
HistoryOK ==
    \A p \in Playlists :
        /\ playlist[p].version = Len(wrote[p])
        /\ playlist[p].state = "new" <=> playlist[p].version = 0
        /\ playlist[p].version # 0 => playlist[p].items = wrote[p][playlist[p].version]
        /\ Live(p) => playlist[p].published \in {0, playlist[p].version}

\* In the history w, items were written to pl under the version.
WasWritten(w, pl, version, items) ==
    /\ pl \in Playlists
    /\ version \in 1 .. Len(w[pl]) /\ items = w[pl][version]
True(w, pl, version, items) == pl # None => WasWritten(w, pl, version, items)

(***************************************************************************)
(* What a call holds from one await to the next.  An editor always knows a *)
(* version; what it or the list page shows was written under the version   *)
(* it publishes; the payload of a publication, and of the notice of any    *)
(* call, is true once it is read; the wrappers of a medium that is removed *)
(* were written; and an app's update goes through playlists that hold the  *)
(* app.                                                                    *)
(***************************************************************************)
ShowsVersion == {"edit", "list"}
Refreshing(s) == s.at \in {"updated", "next", "refreshing"} \/ (s.kind = "app" /\ s.at = "emitting")
Holds(items, M) == \E i \in items : i.media \in M

Shape(s, w) ==
    /\ s.at \in {"loaded", "mapped", "saved", "marking", "assigning", "refreshing"}
         => s.pl \in Playlists
    /\ s.kind = "edit" /\ s.at \in {"loaded", "mapped"} => s.version # 0
    /\ s.kind \in ShowsVersion /\ s.at = "saved" => WasWritten(w, s.pl, s.version, s.seen)
    /\ s.at \in {"marking", "assigning", "emitting"} => True(w, s.pl, s.version, s.items)
    /\ s.kind \in ShowsVersion /\ s.at \in {"marking", "assigning", "emitting"}
         => s.items = s.seen
    /\ s.at \in {"deleted", "clearing"} => s.kind = "delete"
    /\ s.at \in {"detaching", "purging", "removing"} => s.kind = "remove" /\ s.pl = None
    /\ s.at \in {"detaching", "purging"}
         => \A t \in s.todo : WasWritten(w, t.pl, t.state.version, t.state.items)
    /\ Refreshing(s) => /\ s.kind = "app" /\ Holds(s.items, s.wants)
                        /\ \A t \in s.todo : Holds(t.state.items, s.wants)
    /\ s.at = "refreshing" => \E t \in s.todo : t.pl = s.pl

CallsOK == \A c \in Calls : Shape(call[c], wrote)

DevicesOK ==
    \A d \in Devices :
        /\ True(wrote, shown[d].pl, shown[d].version, shown[d].items)
        /\ conn[d].at = "joined" => conn[d].got.pl \in Playlists
        /\ conn[d].at = "pushing" =>
             WasWritten(wrote, conn[d].got.pl, conn[d].got.version, conn[d].got.items)

(***************************************************************************)
(* While nothing changes any more, the handler of a connection works for   *)
(* the playlist the device is assigned to, as it is.                       *)
(***************************************************************************)
CalmOK ==
    \A d \in Devices : conn[d].calm =>
        /\ \A c \in Calls : call[c].at = "done"
        /\ conn[d].at = "joined" => conn[d].got.pl = assigned[d]
        /\ conn[d].at = "pushing" => conn[d].got = Current(assigned[d])
        /\ conn[d].at = "on" /\ assigned[d] \in LivePlaylists
             => shown[d] = Current(assigned[d])

IInv == TypesOK /\ HistoryOK /\ CallsOK /\ DevicesOK /\ CalmOK

-----------------------------------------------------------------------------
(* Lemmas about the history                                                *)

\* The history x has everything of the history w.
Kept(w, x) ==
    \A p \in Playlists : \A k \in 1 .. Len(w[p]) : k \in 1 .. Len(x[p]) /\ x[p][k] = w[p][k]

LEMMA KeptItself == ASSUME NEW w PROVE Kept(w, w)
BY DEF Kept

LEMMA KeptWritten ==
    ASSUME NEW w, NEW x, Kept(w, x), NEW p, NEW v, NEW items
    PROVE  /\ WasWritten(w, p, v, items) => WasWritten(x, p, v, items)
           /\ True(w, p, v, items) => True(x, p, v, items)
BY DEF Kept, WasWritten, True

LEMMA KeptShape ==
    ASSUME NEW w, NEW x, Kept(w, x), NEW s, Shape(s, w)
    PROVE  Shape(s, x)
<1> USE KeptWritten
<1>1. s.kind \in ShowsVersion /\ s.at = "saved" => WasWritten(x, s.pl, s.version, s.seen)
  BY DEF Shape
<1>2. s.at \in {"marking", "assigning", "emitting"} => True(x, s.pl, s.version, s.items)
  BY DEF Shape
<1>3. s.at \in {"detaching", "purging"}
        => \A t \in s.todo : WasWritten(x, t.pl, t.state.version, t.state.items)
  BY DEF Shape
<1> QED
  BY <1>1, <1>2, <1>3 DEF Shape

\* The types of single documents, for the steps that read them.
LEMMA DocTypes ==
    ASSUME TypesOK, NEW p \in Playlists
    PROVE  /\ playlist[p] \in Doc /\ playlist[p].version \in Nat
           /\ playlist[p].items \in Items /\ wrote[p] \in Seq(Items)
           /\ playlist[p].published \in Nat
BY DEF TypesOK, Doc

LEMMA CurrentWasWritten ==
    ASSUME TypesOK, HistoryOK, NEW p \in Playlists, Live(p)
    PROVE  /\ playlist[p].version \in Nat \ {0}
           /\ WasWritten(wrote, p, playlist[p].version, playlist[p].items)
<1>1. playlist[p].version \in Nat /\ playlist[p].version # 0
  BY DocTypes DEF HistoryOK, Live
<1> QED
  BY <1>1 DEF HistoryOK, WasWritten

LEMMA WrittenIsCurrent ==
    ASSUME TypesOK, HistoryOK, NEW p \in Playlists, Live(p), NEW items,
           WasWritten(wrote, p, playlist[p].version, items)
    PROVE  items = playlist[p].items
BY CurrentWasWritten DEF WasWritten

-----------------------------------------------------------------------------
(* The ways a step changes the state                                       *)

\* As long as a call is to come or under way no connection is calm.
LEMMA NoneCalm ==
    ASSUME CalmOK, NEW c \in Calls, call[c].at # "done", UNCHANGED conn
    PROVE  CalmOK'
<1>1. \A d \in Devices : ~conn[d].calm
  BY DEF CalmOK
<1> QED
  BY <1>1 DEF CalmOK

LEMMA CallUpdate ==
    ASSUME TypesOK, CallsOK, NEW c \in Calls, NEW r \in CallDoc,
           call' = [call EXCEPT ![c] = r], Kept(wrote, wrote'), Shape(r, wrote')
    PROVE  call' \in [Calls -> CallDoc] /\ CallsOK'
<1>1. call \in [Calls -> CallDoc]
  BY DEF TypesOK
<1>2. ASSUME NEW e \in Calls PROVE Shape(call'[e], wrote')
  <2>1. CASE e = c
    BY <1>1, <2>1
  <2>2. CASE e # c
    <3>1. Shape(call[e], wrote)
      BY DEF CallsOK
    <3>2. Shape(call[e], wrote')
      BY <3>1, KeptShape
    <3> QED
      BY <1>1, <2>2, <3>2
  <2> QED
    BY <2>1, <2>2
<1> QED
  BY <1>1, <1>2 DEF CallsOK

LEMMA DevicesKept ==
    ASSUME DevicesOK, Kept(wrote, wrote'), UNCHANGED <<shown, conn>>
    PROVE  DevicesOK'
<1> USE KeptWritten
<1> QED
  BY DEF DevicesOK

\* A step of a call that only reads.
LEMMA OnlyCall ==
    ASSUME IInv, NEW c \in Calls, NEW r \in CallDoc, call[c].at # "done", Shape(r, wrote),
           call' = [call EXCEPT ![c] = r],
           UNCHANGED <<media, playlist, wrote, assigned, shown, conn>>
    PROVE  IInv'
<1>1. Kept(wrote, wrote') /\ Shape(r, wrote')
  BY KeptItself
<1>2. call' \in [Calls -> CallDoc] /\ CallsOK'
  BY <1>1, CallUpdate DEF IInv
<1>3. DevicesOK'
  BY <1>1, DevicesKept DEF IInv
<1>4. CalmOK'
  BY NoneCalm DEF IInv
<1>5. TypesOK' /\ HistoryOK'
  BY <1>2 DEF IInv, TypesOK, HistoryOK, Live
<1> QED
  BY <1>2, <1>3, <1>4, <1>5 DEF IInv

\* A step of a call that leaves the playlists alone.
LEMMA NoPlaylist ==
    ASSUME IInv, NEW c \in Calls, NEW r \in CallDoc, call[c].at # "done", Shape(r, wrote),
           call' = [call EXCEPT ![c] = r], media' \in [Media -> 0 .. MaxRevision],
           assigned' \in [Devices -> Playlists \union {None}],
           UNCHANGED <<playlist, wrote, shown, conn>>
    PROVE  IInv'
<1>1. Kept(wrote, wrote') /\ Shape(r, wrote')
  BY KeptItself
<1>2. call' \in [Calls -> CallDoc] /\ CallsOK'
  BY <1>1, CallUpdate DEF IInv
<1>3. DevicesOK'
  BY <1>1, DevicesKept DEF IInv
<1>4. CalmOK'
  BY NoneCalm DEF IInv
<1>5. TypesOK' /\ HistoryOK'
  BY <1>2 DEF IInv, TypesOK, HistoryOK, Live
<1> QED
  BY <1>2, <1>3, <1>4, <1>5 DEF IInv

\* A step of a call that changes playlists, and perhaps unassigns devices.
LEMMA PlaylistStep ==
    ASSUME IInv, NEW c \in Calls, NEW r \in CallDoc, call[c].at # "done",
           call' = [call EXCEPT ![c] = r],
           playlist' \in [Playlists -> Doc], wrote' \in [Playlists -> Seq(Items)],
           HistoryOK', Kept(wrote, wrote'), Shape(r, wrote'),
           assigned' \in [Devices -> Playlists \union {None}],
           UNCHANGED <<media, shown, conn>>
    PROVE  IInv'
<1>1. call' \in [Calls -> CallDoc] /\ CallsOK'
  BY CallUpdate DEF IInv
<1>2. DevicesOK'
  BY DevicesKept DEF IInv
<1>3. CalmOK'
  BY NoneCalm DEF IInv
<1>4. TypesOK'
  BY <1>1 DEF IInv, TypesOK
<1> QED
  BY <1>1, <1>2, <1>3, <1>4 DEF IInv

\* A call that ends, or that starts in another way than IInv restricts.
LEMMA EndUpdate ==
    ASSUME IInv, NEW c \in Calls, NEW ok \in BOOLEAN, Ends(c, ok)
    PROVE  /\ [call[c] EXCEPT !.at = "done", !.ok = ok] \in CallDoc
           /\ call' = [call EXCEPT ![c] = [call[c] EXCEPT !.at = "done", !.ok = ok]]
           /\ \A w : Shape([call[c] EXCEPT !.at = "done", !.ok = ok], w)
<1>1. call \in [Calls -> CallDoc] /\ call[c] \in CallDoc
  BY DEF IInv, TypesOK
<1>2. [call[c] EXCEPT !.at = "done", !.ok = ok] \in CallDoc
  BY <1>1 DEF CallDoc, Steps
<1>3. call' = [call EXCEPT ![c] = [call[c] EXCEPT !.at = "done", !.ok = ok]]
  BY <1>1 DEF Ends
<1>4. /\ [call[c] EXCEPT !.at = "done", !.ok = ok].at = "done"
  BY <1>1 DEF CallDoc
<1> QED
  BY <1>2, <1>3, <1>4 DEF Shape, Refreshing

\* A call that ends having only read.
LEMMA OnlyEnds ==
    ASSUME IInv, NEW c \in Calls, call[c].at # "done", NEW ok \in BOOLEAN, Ends(c, ok),
           UNCHANGED <<media, playlist, wrote, assigned, shown, conn>>
    PROVE  IInv'
<1>1. Shape([call[c] EXCEPT !.at = "done", !.ok = ok], wrote)
  BY EndUpdate
<1> QED
  BY <1>1, EndUpdate, OnlyCall

\* One write of a playlist's content.
LEMMA WriteUpdate ==
    ASSUME TypesOK, HistoryOK, NEW p \in Playlists, Live(p), NEW items \in Items,
           NEW published \in {0, playlist[p].version + 1}, Writes(p, items, published)
    PROVE  /\ playlist' \in [Playlists -> Doc] /\ wrote' \in [Playlists -> Seq(Items)]
           /\ HistoryOK' /\ Kept(wrote, wrote')
           /\ WasWritten(wrote', p, playlist[p].version + 1, items)
<1> DEFINE v == playlist[p].version
<1>1. v \in Nat \ {0} /\ v = Len(wrote[p]) /\ playlist[p] \in Doc /\ wrote[p] \in Seq(Items)
  BY CurrentWasWritten, DocTypes DEF HistoryOK
<1>2. /\ playlist' = [playlist EXCEPT ![p] =
             [playlist[p] EXCEPT !.version = v + 1, !.items = items, !.published = published]]
      /\ wrote' = [wrote EXCEPT ![p] = Append(wrote[p], items)]
  BY DEF Writes, TypesOK
<1> DEFINE doc == [playlist[p] EXCEPT !.version = v + 1, !.items = items, !.published = published]
<1>3. /\ doc \in Doc /\ doc.version = v + 1 /\ doc.items = items /\ doc.published = published
      /\ doc.state = playlist[p].state
  <2>1. playlist[p] \in Doc /\ v + 1 \in Nat /\ items \in Items /\ published \in Nat
    BY <1>1
  <2> HIDE DEF v
  <2> QED
    BY <2>1 DEF Doc
<1>4. /\ Append(wrote[p], items) \in Seq(Items) /\ Len(Append(wrote[p], items)) = v + 1
      /\ Append(wrote[p], items)[v + 1] = items
      /\ \A k \in 1 .. v : Append(wrote[p], items)[k] = wrote[p][k]
  BY <1>1
<1> HIDE DEF doc, v
<1>5. /\ playlist' \in [Playlists -> Doc] /\ playlist'[p] = doc
      /\ \A q \in Playlists \ {p} : playlist'[q] = playlist[q]
  BY <1>2, <1>3 DEF TypesOK, doc
<1>6. /\ wrote' \in [Playlists -> Seq(Items)] /\ wrote'[p] = Append(wrote[p], items)
      /\ \A q \in Playlists \ {p} : wrote'[q] = wrote[q]
  BY <1>2, <1>4 DEF TypesOK
<1>7. Kept(wrote, wrote')
  <2> SUFFICES ASSUME NEW q \in Playlists, NEW k \in 1 .. Len(wrote[q])
               PROVE  k \in 1 .. Len(wrote'[q]) /\ wrote'[q][k] = wrote[q][k]
    BY DEF Kept
  <2>1. CASE q = p
    <3>1. /\ Len(wrote'[p]) = v + 1 /\ k \in 1 .. v
          /\ \A j \in 1 .. v : wrote'[p][j] = wrote[p][j]
      BY <1>1, <1>4, <1>6, <2>1
    <3> QED
      BY <1>1, <2>1, <3>1
  <2>2. CASE q # p
    BY <1>6, <2>2
  <2> QED
    BY <2>1, <2>2
<1>8. WasWritten(wrote', p, v + 1, items)
  BY <1>1, <1>4, <1>6 DEF WasWritten
<1>9. HistoryOK'
  <2>1. /\ doc.version = Len(wrote'[p]) /\ doc.version # 0 /\ doc.state = "live"
        /\ doc.items = wrote'[p][doc.version] /\ doc.published \in {0, doc.version}
    BY <1>1, <1>3, <1>4, <1>6 DEF Live, v
  <2>2. ASSUME NEW q \in Playlists, q # p
        PROVE  playlist'[q] = playlist[q] /\ wrote'[q] = wrote[q]
    BY <1>5, <1>6, <2>2
  <2>3. \A q \in Playlists :
           /\ playlist'[q].version = Len(wrote'[q])
           /\ (playlist'[q].state = "new") <=> (playlist'[q].version = 0)
           /\ playlist'[q].version # 0 => playlist'[q].items = wrote'[q][playlist'[q].version]
           /\ playlist'[q].state = "live" =>
                playlist'[q].published \in {0, playlist'[q].version}
    <3> SUFFICES ASSUME NEW q \in Playlists
                 PROVE  /\ playlist'[q].version = Len(wrote'[q])
                        /\ (playlist'[q].state = "new") <=> (playlist'[q].version = 0)
                        /\ playlist'[q].version # 0 =>
                             playlist'[q].items = wrote'[q][playlist'[q].version]
                        /\ playlist'[q].state = "live" =>
                             playlist'[q].published \in {0, playlist'[q].version}
      OBVIOUS
    <3>1. CASE q = p
      BY <1>5, <2>1, <3>1
    <3>2. CASE q # p
      BY <2>2, <3>2 DEF HistoryOK, Live
    <3> QED
      BY <3>1, <3>2
  <2> QED
    BY <2>3 DEF HistoryOK, Live
<1> QED
  BY <1>5, <1>6, <1>7, <1>8, <1>9 DEF v

-----------------------------------------------------------------------------
(* Calls start                                                             *)

LEMMA NewCallDoc == NewCall \in CallDoc
BY DEF NewCall, CallDoc, Steps, FileNames, Items

LEMMA NotMadeDoc == NotMade \in CallDoc
BY NewCallDoc DEF NotMade, CallDoc, Steps

LEMMA StartUpdate ==
    ASSUME IInv, NEW c \in Calls, NEW r \in CallDoc, Starts(c, r), Shape(r, wrote),
           UNCHANGED <<media, playlist, wrote, assigned, shown, conn>>
    PROVE  IInv'
<1>1. call[c].at # "done" /\ call' = [call EXCEPT ![c] = r]
  BY DEF Starts
<1> QED
  BY <1>1, OnlyCall

LEMMA EditorLoadsStep ==
    ASSUME IInv, NEW c \in Calls, NEW p \in Playlists, NEW S \in Wanted, EditorLoads(c, p, S)
    PROVE  IInv'
<1> DEFINE r == [NewCall EXCEPT !.kind = "edit", !.at = "loaded", !.pl = p,
                                !.version = playlist[p].version, !.wants = S]
<1>1. playlist[p].version \in Nat \ {0}
  BY CurrentWasWritten DEF EditorLoads, IInv
<1>2. r \in CallDoc
  BY <1>1, NewCallDoc DEF CallDoc, Steps, AllKinds, Wanted
<1>3. Shape(r, wrote)
  BY <1>1 DEF Shape, Refreshing, ShowsVersion, NewCall
<1> QED
  BY <1>2, <1>3, StartUpdate DEF EditorLoads

LEMMA AddLoadsStep ==
    ASSUME IInv, NEW c \in Calls, NEW p \in Playlists, NEW m \in Media, AddLoads(c, p, m)
    PROVE  IInv'
<1> DEFINE r == [NewCall EXCEPT !.kind = "add", !.at = "loaded", !.pl = p,
                                !.wants = MediaOf(playlist[p].items) \union {m}]
<1>1. MediaOf(playlist[p].items) \union {m} \subseteq Media
  BY DocTypes DEF IInv, MediaOf, Items, Item
<1>2. r \in CallDoc
  BY <1>1, NewCallDoc DEF CallDoc, Steps, AllKinds
<1>3. Shape(r, wrote)
  BY DEF Shape, Refreshing, ShowsVersion, NewCall
<1> QED
  BY <1>2, <1>3, StartUpdate DEF AddLoads

LEMMA NewPageStep ==
    ASSUME IInv, NEW c \in Calls, NEW S \in Wanted, NEW key \in Keys \union {None},
           NewPage(c, S, key)
    PROVE  IInv'
<1> DEFINE r == [NewCall EXCEPT !.kind = "create", !.at = "creating", !.wants = S, !.key = key]
<1>1. r \in CallDoc
  BY NewCallDoc DEF CallDoc, Steps, AllKinds, Wanted
<1>2. Shape(r, wrote)
  BY DEF Shape, Refreshing, ShowsVersion, NewCall
<1> QED
  BY <1>1, <1>2, StartUpdate DEF NewPage

LEMMA SetToScreenStep ==
    ASSUME IInv, NEW c \in Calls, NEW m \in Media, NEW D \in SUBSET Devices,
           SetToScreen(c, m, D)
    PROVE  IInv'
<1> DEFINE new == [NewCall EXCEPT !.kind = "screen", !.wants = {m}, !.devs = D,
                                  !.name = NameOf[m]]
           Saved(p) == [new EXCEPT !.at = "saved", !.pl = p]
           fresh == [new EXCEPT !.at = "creating"]
<1>1. new \in CallDoc
  BY NewCallDoc DEF CallDoc, AllKinds, FileNames
<1>2. /\ \A p \in Playlists : Saved(p) \in CallDoc
      /\ fresh \in CallDoc
  BY <1>1 DEF CallDoc, Steps
<1>3. /\ \A p \in Playlists : Shape(Saved(p), wrote)
      /\ Shape(fresh, wrote)
  BY DEF Shape, Refreshing, ShowsVersion, NewCall
<1>4. /\ UNCHANGED <<media, playlist, wrote, assigned, shown, conn>>
      /\ (\E p \in Playlists : Starts(c, Saved(p))) \/ Starts(c, fresh)
  BY DEF SetToScreen, WrapperOf, LivePlaylists
<1> QED
  BY <1>2, <1>3, <1>4, StartUpdate

LEMMA ListPublishesStep ==
    ASSUME IInv, NEW c \in Calls, NEW p \in Playlists, NEW D \in SUBSET Devices,
           ListPublishes(c, p, D)
    PROVE  IInv'
<1> DEFINE r == [NewCall EXCEPT !.kind = "list", !.at = "saved", !.pl = p, !.devs = D,
                                !.version = playlist[p].version, !.seen = playlist[p].items]
<1>1. playlist[p].version \in Nat /\ playlist[p].items \in Items
      /\ WasWritten(wrote, p, playlist[p].version, playlist[p].items)
  BY CurrentWasWritten, DocTypes DEF ListPublishes, IInv
<1>2. r \in CallDoc
  BY <1>1, NewCallDoc DEF CallDoc, Steps, AllKinds
<1>3. r.pl = p /\ r.version = playlist[p].version /\ r.seen = playlist[p].items
      /\ r.kind = "list" /\ r.at = "saved"
  BY DEF NewCall
<1>4. Shape(r, wrote)
  <2> HIDE DEF r
  <2> QED
    BY <1>1, <1>3 DEF Shape, Refreshing, ShowsVersion
<1> QED
  BY <1>2, <1>4, StartUpdate DEF ListPublishes

LEMMA SnapshotDocs ==
    ASSUME TypesOK, NEW P \in SUBSET Playlists
    PROVE  /\ Snapshots(P) \in SUBSET Snapshot
           /\ \A t \in Snapshots(P) : t.pl \in P /\ t.state = playlist[t.pl]
BY DEF TypesOK, Snapshots, Snapshot

\* The playlists that use a medium hold an item of it.
LEMMA UsingHolds ==
    ASSUME NEW m, NEW p \in Using(m)
    PROVE  p \in Playlists /\ Holds(playlist[p].items, {m})
BY DEF Using, LivePlaylists, MediaOf, Holds

LEMMA UsingIsLive == \A m : Using(m) \subseteq Playlists /\ \A p \in Using(m) : Live(p)
BY DEF Using, LivePlaylists

LEMMA RemoveMediaStep ==
    ASSUME IInv, NEW c \in Calls, NEW m \in Media, RemoveMedia(c, m)
    PROVE  IInv'
<1> DEFINE new == [NewCall EXCEPT !.kind = "remove", !.wants = {m}]
           refused == [new EXCEPT !.at = "done"]
           Goes(at) == [new EXCEPT !.todo = Snapshots(Using(m)), !.at = at]
<1>1. new \in CallDoc
  BY NewCallDoc DEF CallDoc, AllKinds
<1>2. Snapshots(Using(m)) \in SUBSET Snapshot
  BY SnapshotDocs, UsingIsLive DEF IInv
<1>3. refused \in CallDoc /\ Goes("removing") \in CallDoc /\ Goes("detaching") \in CallDoc
  BY <1>1, <1>2 DEF CallDoc, Steps
<1>4. \A t \in Snapshots(Using(m)) : WasWritten(wrote, t.pl, t.state.version, t.state.items)
  BY SnapshotDocs, UsingIsLive, CurrentWasWritten DEF IInv
<1>5. /\ Shape(refused, wrote)
      /\ Shape(Goes("removing"), wrote) /\ Shape(Goes("detaching"), wrote)
  BY <1>4 DEF Shape, Refreshing, ShowsVersion, NewCall
<1>6. /\ UNCHANGED <<media, playlist, wrote, assigned, shown, conn>>
      /\ Starts(c, refused) \/ Starts(c, Goes("removing")) \/ Starts(c, Goes("detaching"))
  BY DEF RemoveMedia
<1> QED
  BY <1>3, <1>5, <1>6, StartUpdate

LEMMA UpdateAppStep ==
    ASSUME LibraryAssumption, IInv, NEW c \in Calls, NEW a \in Apps, UpdateApp(c, a)
    PROVE  IInv'
<1> DEFINE item == [media |-> a, revision |-> media[a] + 1]
           r == [NewCall EXCEPT !.kind = "app", !.at = "updated", !.wants = {a},
                                !.items = {item}]
<1>1. a \in Media /\ media[a] \in 1 .. MaxRevision - 1 /\ MaxRevision \in Nat
  BY DEF LibraryAssumption, UpdateApp
<1>2. item \in Item /\ media[a] + 1 \in 0 .. MaxRevision
  BY <1>1 DEF Item
<1>3. r \in CallDoc
  BY <1>1, <1>2, NewCallDoc DEF CallDoc, Steps, AllKinds, Items
<1>4. /\ r.kind = "app" /\ r.at = "updated" /\ r.items = {item} /\ r.wants = {a} /\ r.todo = {}
  BY DEF NewCall
<1>5. Shape(r, wrote)
  <2>1. item.media = a
    OBVIOUS
  <2> HIDE DEF item, r
  <2>2. Holds(r.items, r.wants)
    BY <1>4, <2>1 DEF Holds
  <2> QED
    BY <1>4, <2>2 DEF Shape, Refreshing, ShowsVersion
<1>6. media' \in [Media -> 0 .. MaxRevision]
  <2>1. media' = [media EXCEPT ![a] = media[a] + 1] /\ media \in [Media -> 0 .. MaxRevision]
    BY DEF UpdateApp, IInv, TypesOK
  <2> QED
    BY <1>2, <2>1
<1>7. call[c].at # "done" /\ call' = [call EXCEPT ![c] = r]
  BY DEF UpdateApp, Starts
<1>8. assigned' \in [Devices -> Playlists \union {None}]
      /\ UNCHANGED <<playlist, wrote, shown, conn>>
  BY DEF UpdateApp, IInv, TypesOK
<1> QED
  BY <1>3, <1>5, <1>6, <1>7, <1>8, NoPlaylist

\* A playlist that is deleted keeps its content and its history.
LEMMA GoneUpdate ==
    ASSUME TypesOK, HistoryOK, NEW P \in SUBSET Playlists,
           \A p \in P : playlist[p].state # "new",
           playlist' = [p \in Playlists |-> IF p \in P THEN [playlist[p] EXCEPT !.state = "gone"]
                                            ELSE playlist[p]],
           UNCHANGED wrote
    PROVE  playlist' \in [Playlists -> Doc] /\ HistoryOK' /\ Kept(wrote, wrote')
<1>1. playlist \in [Playlists -> Doc]
  BY DEF TypesOK
<1>2. ASSUME NEW p \in Playlists
      PROVE  /\ playlist'[p] \in Doc /\ playlist'[p].version = playlist[p].version
             /\ playlist'[p].items = playlist[p].items
             /\ playlist'[p].published = playlist[p].published
             /\ p \in P => playlist'[p].state = "gone"
             /\ p \notin P => playlist'[p].state = playlist[p].state
  BY <1>1 DEF Doc
<1>3. playlist' \in [Playlists -> Doc]
  BY <1>2
<1>4. HistoryOK'
  BY <1>2 DEF HistoryOK, Live
<1> QED
  BY <1>3, <1>4, KeptItself

LEMMA DeletePlaylistStep ==
    ASSUME IInv, NEW c \in Calls, NEW p \in Playlists, DeletePlaylist(c, p)
    PROVE  IInv'
<1> DEFINE r == [NewCall EXCEPT !.kind = "delete", !.at = "deleted", !.pl = p]
<1>1. r \in CallDoc
  BY NewCallDoc DEF CallDoc, Steps, AllKinds
<1>2. \A w : Shape(r, w)
  BY DEF Shape, Refreshing, ShowsVersion, NewCall
<1>3. playlist' = [q \in Playlists |-> IF q \in {p} THEN [playlist[q] EXCEPT !.state = "gone"]
                                       ELSE playlist[q]]
  BY DEF DeletePlaylist, IInv, TypesOK
<1>4. playlist' \in [Playlists -> Doc] /\ HistoryOK' /\ Kept(wrote, wrote')
  BY <1>3, GoneUpdate DEF DeletePlaylist, IInv, Live
<1>5. call[c].at # "done" /\ call' = [call EXCEPT ![c] = r]
  BY DEF DeletePlaylist, Starts
<1>6. /\ wrote' \in [Playlists -> Seq(Items)]
      /\ assigned' \in [Devices -> Playlists \union {None}]
      /\ UNCHANGED <<media, shown, conn>>
  BY DEF DeletePlaylist, IInv, TypesOK
<1> QED
  BY <1>1, <1>2, <1>4, <1>5, <1>6, PlaylistStep

-----------------------------------------------------------------------------
(* Calls go on                                                             *)

LEMMA CallTypes ==
    ASSUME IInv, NEW c \in Calls
    PROVE  /\ call \in [Calls -> CallDoc] /\ call[c] \in CallDoc /\ Shape(call[c], wrote)
           /\ call[c].version \in Nat /\ call[c].items \in Items /\ call[c].seen \in Items
           /\ call[c].wants \in SUBSET Media /\ call[c].devs \in SUBSET Devices
           /\ call[c].todo \in SUBSET Snapshot /\ call[c].at \in Steps
           /\ call[c].key \in Keys \union {None} /\ call[c].name \in FileNames
           /\ call[c].pl \in Playlists \union {None}
BY DEF IInv, TypesOK, CallsOK, CallDoc

\* r is the call s with these fields.
Is(r, s, at, pl, version, items, seen, devs, todo) ==
    /\ r \in CallDoc /\ r.kind = s.kind /\ r.wants = s.wants
    /\ r.at = at /\ r.pl = pl /\ r.version = version /\ r.items = items
    /\ r.seen = seen /\ r.devs = devs /\ r.todo = todo

\* The ways a call goes on.
LEMMA GoAt ==
    ASSUME NEW s \in CallDoc, NEW at \in Steps
    PROVE  Is([s EXCEPT !.at = at],
              s, at, s.pl, s.version, s.items, s.seen, s.devs, s.todo)
BY DEF CallDoc, Is

LEMMA GoItems ==
    ASSUME NEW s \in CallDoc, NEW at \in Steps, NEW items \in Items
    PROVE  Is([s EXCEPT !.at = at, !.items = items],
              s, at, s.pl, s.version, items, s.seen, s.devs, s.todo)
BY DEF CallDoc, Is

LEMMA GoSaved ==
    ASSUME NEW s \in CallDoc, NEW seen \in Items, NEW v \in Nat
    PROVE  Is([s EXCEPT !.at = "saved", !.seen = seen, !.version = v],
              s, "saved", s.pl, v, s.items, seen, s.devs, s.todo)
BY DEF CallDoc, Is, Steps

LEMMA GoPlaylist ==
    ASSUME NEW s \in CallDoc, NEW at \in Steps, NEW p \in Playlists
    PROVE  Is([s EXCEPT !.at = at, !.pl = p],
              s, at, p, s.version, s.items, s.seen, s.devs, s.todo)
BY DEF CallDoc, Is

LEMMA GoMarking ==
    ASSUME NEW s \in CallDoc, NEW items \in Items, NEW v \in Nat, NEW D \in SUBSET Devices
    PROVE  Is([s EXCEPT !.at = "marking", !.items = items, !.version = v, !.devs = D],
              s, "marking", s.pl, v, items, s.seen, D, s.todo)
BY DEF CallDoc, Is, Steps

LEMMA GoDevices ==
    ASSUME NEW s \in CallDoc, NEW at \in Steps, NEW D \in SUBSET Devices
    PROVE  Is([s EXCEPT !.at = at, !.devs = D],
              s, at, s.pl, s.version, s.items, s.seen, D, s.todo)
BY DEF CallDoc, Is

LEMMA GoNotice ==
    ASSUME NEW s \in CallDoc
    PROVE  Is([s EXCEPT !.at = "emitting", !.pl = None, !.version = 0, !.items = {}],
              s, "emitting", None, 0, {}, s.seen, s.devs, s.todo)
BY DEF CallDoc, Is, Steps, Items

LEMMA GoTodo ==
    ASSUME NEW s \in CallDoc, NEW todo \in SUBSET Snapshot
    PROVE  Is([s EXCEPT !.at = "next", !.todo = todo],
              s, "next", s.pl, s.version, s.items, s.seen, s.devs, todo)
BY DEF CallDoc, Is, Steps

LEMMA GoRefreshing ==
    ASSUME NEW s \in CallDoc, NEW p \in Playlists, NEW D \in SUBSET Devices
    PROVE  Is([s EXCEPT !.at = "refreshing", !.pl = p, !.devs = D],
              s, "refreshing", p, s.version, s.items, s.seen, D, s.todo)
BY DEF CallDoc, Is, Steps

LEMMA GoRefreshed ==
    ASSUME NEW s \in CallDoc, NEW at \in Steps, NEW v \in Nat, NEW items \in Items,
           NEW todo \in SUBSET Snapshot
    PROVE  Is([s EXCEPT !.at = at, !.version = v, !.items = items, !.todo = todo],
              s, at, s.pl, v, items, s.seen, s.devs, todo)
BY DEF CallDoc, Is

LEMMA StepNames ==
    /\ "mapped" \in Steps /\ "created" \in Steps /\ "saved" \in Steps
    /\ "assigning" \in Steps /\ "emitting" \in Steps /\ "clearing" \in Steps
    /\ "purging" \in Steps /\ "removing" \in Steps /\ "next" \in Steps
BY DEF Steps

LEMMA MappedItems ==
    ASSUME TypesOK, NEW S \in SUBSET Media, Available(S)
    PROVE  Mapped(S) \in Items
<1>1. \A m \in S : media[m] \in 1 .. MaxRevision
  BY DEF TypesOK, Available
<1> QED
  BY <1>1 DEF Mapped, Items, Item

LEMMA SaveReadsStep ==
    ASSUME IInv, NEW c \in Calls, SaveReads(c)
    PROVE  IInv'
<1>1. /\ call[c].at = "loaded" /\ call[c].kind \in {"edit", "add"}
      /\ UNCHANGED <<media, playlist, wrote, assigned, shown, conn>>
  BY DEF SaveReads, At
<1>2. CASE Available(call[c].wants)
  <2> DEFINE r == [call[c] EXCEPT !.at = "mapped", !.items = Mapped(call[c].wants)]
  <2>1. Mapped(call[c].wants) \in Items
    BY <1>2, CallTypes, MappedItems DEF IInv
  <2>2. Is(r, call[c], "mapped", call[c].pl, call[c].version, Mapped(call[c].wants),
           call[c].seen, call[c].devs, call[c].todo)
    BY <2>1, CallTypes, GoItems, StepNames
  <2>3. call' = [call EXCEPT ![c] = r]
    BY <1>2, CallTypes DEF SaveReads
  <2> HIDE DEF r
  <2>4. Shape(r, wrote)
    BY <1>1, <2>2, CallTypes DEF Shape, Refreshing, ShowsVersion, Is
  <2> QED
    BY <1>1, <2>2, <2>3, <2>4, OnlyCall DEF Is
<1>3. CASE ~Available(call[c].wants)
  BY <1>1, <1>3, OnlyEnds DEF SaveReads
<1> QED
  BY <1>2, <1>3

LEMMA SaveWritesStep ==
    ASSUME IInv, NEW c \in Calls, SaveWrites(c)
    PROVE  IInv'
<1> DEFINE s == call[c]
           p == s.pl
           Saved(v) == [s EXCEPT !.at = "saved", !.seen = s.items, !.version = v]
<1>1. /\ s.at = "mapped" /\ s.kind \in {"edit", "add"} /\ p \in Playlists
      /\ UNCHANGED <<media, assigned, shown, conn>>
  BY CallTypes DEF SaveWrites, At, Shape
<1>2. playlist[p].version \in Nat /\ playlist[p].items \in Items
  BY <1>1, DocTypes DEF IInv
<1>21. playlist[p].version + 1 \in Nat
  BY <1>2
<1>3. ASSUME NEW v \in Nat, NEW w, WasWritten(w, p, v, s.items)
      PROVE  Saved(v) \in CallDoc /\ Shape(Saved(v), w)
  <2>1. Is(Saved(v), s, "saved", p, v, s.items, s.items, s.devs, s.todo)
    BY <1>3, CallTypes, GoSaved
  <2> HIDE DEF Saved
  <2> QED
    BY <1>1, <1>3, <2>1 DEF Shape, Refreshing, ShowsVersion, Is
<1>4. CASE Matches(p, s.version) /\ playlist[p].items # s.items
  <2>1. /\ Writes(p, s.items, 0) /\ Live(p)
        /\ call' = [call EXCEPT ![c] = Saved(playlist[p].version + 1)]
    BY <1>4, CallTypes DEF SaveWrites, Matches
  <2>2. /\ playlist' \in [Playlists -> Doc] /\ wrote' \in [Playlists -> Seq(Items)]
        /\ HistoryOK' /\ Kept(wrote, wrote')
        /\ WasWritten(wrote', p, playlist[p].version + 1, s.items)
    BY <1>1, <2>1, CallTypes, WriteUpdate DEF IInv
  <2>3. /\ Saved(playlist[p].version + 1) \in CallDoc
        /\ Shape(Saved(playlist[p].version + 1), wrote')
    BY <1>21, <1>3, <2>2
  <2>4. assigned' \in [Devices -> Playlists \union {None}]
    BY <1>1 DEF IInv, TypesOK
  <2> HIDE DEF Saved
  <2> QED
    BY <1>1, <2>1, <2>2, <2>3, <2>4, PlaylistStep
<1>5. CASE Matches(p, s.version) /\ playlist[p].items = s.items
  <2>1. /\ UNCHANGED <<playlist, wrote>> /\ Live(p)
        /\ call' = [call EXCEPT ![c] = Saved(playlist[p].version)]
    BY <1>5, CallTypes DEF SaveWrites, Matches
  <2>2. WasWritten(wrote, p, playlist[p].version, s.items)
    BY <1>1, <1>5, <2>1, CurrentWasWritten DEF IInv
  <2>3. /\ Saved(playlist[p].version) \in CallDoc
        /\ Shape(Saved(playlist[p].version), wrote)
    BY <1>2, <1>3, <2>2
  <2> HIDE DEF Saved
  <2> QED
    BY <1>1, <2>1, <2>3, OnlyCall
<1>6. CASE ~Matches(p, s.version)
  BY <1>1, <1>6, OnlyEnds DEF SaveWrites
<1> QED
  BY <1>4, <1>5, <1>6

LEMMA SaveEndsStep ==
    ASSUME IInv, NEW c \in Calls, SaveEnds(c)
    PROVE  IInv'
BY OnlyEnds DEF SaveEnds, At

LEMMA CreateReadsStep ==
    ASSUME IInv, NEW c \in Calls, CreateReads(c)
    PROVE  IInv'
<1>1. /\ call[c].at = "creating" /\ call[c].kind \in {"create", "screen"}
      /\ UNCHANGED <<media, playlist, wrote, assigned, shown, conn>>
  BY DEF CreateReads, At
<1>2. CASE Created(call[c].key) # {} \/ ~Available(call[c].wants)
  BY <1>1, <1>2, OnlyEnds DEF CreateReads
<1>3. CASE Created(call[c].key) = {} /\ Available(call[c].wants)
  <2> DEFINE r == [call[c] EXCEPT !.at = "created", !.items = Mapped(call[c].wants)]
  <2>1. Mapped(call[c].wants) \in Items
    BY <1>3, CallTypes, MappedItems DEF IInv
  <2>2. Is(r, call[c], "created", call[c].pl, call[c].version, Mapped(call[c].wants),
           call[c].seen, call[c].devs, call[c].todo)
    BY <2>1, CallTypes, GoItems, StepNames
  <2>3. call' = [call EXCEPT ![c] = r]
    BY <1>3, CallTypes DEF CreateReads
  <2> HIDE DEF r
  <2>4. Shape(r, wrote)
    BY <1>1, <2>2 DEF Shape, Refreshing, ShowsVersion, Is
  <2> QED
    BY <1>1, <2>2, <2>3, <2>4, OnlyCall DEF Is
<1> QED
  BY <1>2, <1>3

LEMMA CreateWritesStep ==
    ASSUME IInv, NEW c \in Calls, CreateWrites(c)
    PROVE  IInv'
<1> DEFINE s == call[c]
           done == [s EXCEPT !.at = "done", !.ok = TRUE]
           Saved(p) == [s EXCEPT !.at = "saved", !.pl = p]
           doc == [state |-> "live", version |-> 1, items |-> s.items, published |-> 0,
                   wraps |-> s.name, key |-> s.key]
<1>1. /\ s.at = "created" /\ s.kind \in {"create", "screen"}
      /\ UNCHANGED <<media, assigned, shown, conn>>
  BY DEF CreateWrites, At
<1>2. CASE UNCHANGED <<playlist, wrote>> /\ (Ends(c, TRUE) \/ Ends(c, FALSE))
  BY <1>1, <1>2, OnlyEnds
<1>3. ASSUME NEW p \in Playlists, playlist[p].state = "new",
             playlist' = [playlist EXCEPT ![p] = doc],
             wrote' = [wrote EXCEPT ![p] = <<s.items>>],
             Ends(c, TRUE) \/ (s.kind # "create" /\ call' = [call EXCEPT ![c].at = "saved", ![c].pl = p])
      PROVE  IInv'
  <2>1. doc \in Doc /\ <<s.items>> \in Seq(Items)
    BY CallTypes DEF Doc
  <2>2. playlist' \in [Playlists -> Doc] /\ wrote' \in [Playlists -> Seq(Items)]
    BY <1>3, <2>1 DEF IInv, TypesOK
  <2>3. /\ playlist'[p] = doc /\ wrote'[p] = <<s.items>>
        /\ \A q \in Playlists \ {p} : playlist'[q] = playlist[q] /\ wrote'[q] = wrote[q]
    BY <1>3 DEF IInv, TypesOK
  <2>4. Len(wrote[p]) = 0
    BY <1>3, DocTypes DEF IInv, HistoryOK
  <2>5. Kept(wrote, wrote')
    BY <2>3, <2>4 DEF Kept
  <2>6. HistoryOK'
    <3>1. /\ doc.state = "live" /\ doc.version = 1 /\ doc.items = s.items /\ doc.published = 0
      OBVIOUS
    <3> DEFINE first == <<s.items>>
    <3>3. Len(first) = 1 /\ first[1] = s.items /\ wrote'[p] = first /\ playlist'[p] = doc
      BY <2>3
    <3> HIDE DEF doc, first
    <3>2. ASSUME NEW q \in Playlists PROVE
            /\ playlist'[q].version = Len(wrote'[q])
            /\ playlist'[q].state = "new" <=> playlist'[q].version = 0
            /\ playlist'[q].version # 0 => playlist'[q].items = wrote'[q][playlist'[q].version]
            /\ playlist'[q].state = "live" => playlist'[q].published \in {0, playlist'[q].version}
      <4>1. CASE q = p
        <5>1. playlist'[q] = doc /\ wrote'[q] = first
          BY <2>3, <3>3, <4>1
        <5> QED
          BY <3>1, <3>3, <5>1
      <4>2. CASE q # p
        BY <2>3, <4>2 DEF IInv, HistoryOK, Live
      <4> QED
        BY <4>1, <4>2
    <3> QED
      BY <3>2 DEF HistoryOK, Live
  <2>7. assigned' \in [Devices -> Playlists \union {None}]
    BY <1>1 DEF IInv, TypesOK
  <2>8. CASE Ends(c, TRUE)
    <3>1. done \in CallDoc /\ call' = [call EXCEPT ![c] = done] /\ Shape(done, wrote')
      BY <2>8, EndUpdate
    <3> QED
      BY <1>1, <2>2, <2>5, <2>6, <2>7, <3>1, PlaylistStep
  <2>9. CASE s.kind # "create" /\ call' = [call EXCEPT ![c].at = "saved", ![c].pl = p]
    <3>1. Is(Saved(p), s, "saved", p, s.version, s.items, s.seen, s.devs, s.todo)
      BY CallTypes, GoPlaylist, StepNames
    <3>2. call' = [call EXCEPT ![c] = Saved(p)]
      BY <2>9, CallTypes
    <3> HIDE DEF Saved
    <3>3. Shape(Saved(p), wrote')
      BY <1>1, <3>1 DEF Shape, Refreshing, ShowsVersion, Is
    <3> QED
      BY <1>1, <2>2, <2>5, <2>6, <2>7, <3>1, <3>2, <3>3, PlaylistStep DEF Is
  <2> QED
    BY <1>3, <2>8, <2>9
<1> QED
  BY <1>2, <1>3 DEF CreateWrites

LEMMA PublishReadsStep ==
    ASSUME IInv, NEW c \in Calls, NEW D \in SUBSET Devices, PublishReads(c, D)
    PROVE  IInv'
<1> DEFINE s == call[c]
           p == s.pl
           r == [s EXCEPT !.at = "marking", !.items = playlist[p].items,
                          !.version = playlist[p].version, !.devs = D]
<1>1. /\ s.at = "saved" /\ s.kind \in {"edit", "screen", "list"} /\ p \in Playlists
      /\ UNCHANGED <<media, playlist, wrote, assigned, shown, conn>>
  BY CallTypes DEF PublishReads, At, Shape
<1>2. CASE Matches(p, s.version)
  <2>1. WasWritten(wrote, p, playlist[p].version, playlist[p].items)
    BY <1>1, <1>2, CurrentWasWritten DEF IInv, Matches
  <2>2. s.kind \in ShowsVersion => playlist[p].items = s.seen
    <3>1. s.kind \in ShowsVersion => WasWritten(wrote, p, s.version, s.seen)
      BY <1>1, CallTypes DEF Shape
    <3>2. s.kind \in ShowsVersion => s.version = playlist[p].version
      BY <1>2, <3>1 DEF WasWritten, Matches
    <3> QED
      BY <1>1, <1>2, <3>1, <3>2, WrittenIsCurrent DEF IInv, Matches
  <2>3. playlist[p].version \in Nat /\ playlist[p].items \in Items
    BY <1>1, DocTypes DEF IInv
  <2>4. Is(r, s, "marking", p, playlist[p].version, playlist[p].items, s.seen, D, s.todo)
    BY <2>3, CallTypes, GoMarking
  <2>5. call' = [call EXCEPT ![c] = r]
    BY <1>2, CallTypes DEF PublishReads
  <2> HIDE DEF r
  <2>6. Shape(r, wrote)
    BY <1>1, <2>1, <2>2, <2>4 DEF Shape, Refreshing, ShowsVersion, True, Is
  <2> QED
    BY <1>1, <2>4, <2>5, <2>6, OnlyCall DEF Is
<1>3. CASE ~Matches(p, s.version)
  BY <1>1, <1>3, OnlyEnds DEF PublishReads
<1> QED
  BY <1>2, <1>3

\* A publication goes on with the payload it has read.
LEMMA PayloadGoesOn ==
    ASSUME IInv, NEW c \in Calls, NEW at \in {"assigning", "emitting"},
           call[c].at \in {"marking", "assigning"}, call[c].kind # "app",
           call' = [call EXCEPT ![c].at = at]
    PROVE  \E r \in CallDoc : /\ call' = [call EXCEPT ![c] = r]
                              /\ Shape(r, wrote)
<1> DEFINE s == call[c]
           r == [s EXCEPT !.at = at]
<1>1. Is(r, s, at, s.pl, s.version, s.items, s.seen, s.devs, s.todo)
  BY CallTypes, GoAt, StepNames
<1>2. call' = [call EXCEPT ![c] = r]
  BY CallTypes
<1> HIDE DEF r
<1>3. Shape(r, wrote)
  BY <1>1, CallTypes DEF Shape, Refreshing, Is
<1> QED
  BY <1>1, <1>2, <1>3 DEF Is

LEMMA DocMarked ==
    ASSUME NEW d \in Doc, NEW v \in Nat
    PROVE  LET r == [d EXCEPT !.published = v] IN
           /\ r \in Doc /\ r.published = v /\ r.version = d.version /\ r.items = d.items
           /\ r.state = d.state
BY DEF Doc

LEMMA PublishMarksStep ==
    ASSUME IInv, NEW c \in Calls, PublishMarks(c)
    PROVE  IInv'
<1> DEFINE s == call[c]
           p == s.pl
<1>1. /\ s.at = "marking" /\ s.kind \in {"edit", "screen", "list"} /\ p \in Playlists
      /\ UNCHANGED <<media, wrote, assigned, shown, conn>>
  BY CallTypes DEF PublishMarks, At, Shape
<1>2. CASE Matches(p, s.version)
  <2>1. /\ playlist' = [playlist EXCEPT ![p].published = s.version] /\ Live(p)
        /\ call' = [call EXCEPT ![c].at = "assigning"]
        /\ s.version \in {0, playlist[p].version}
    BY <1>2 DEF PublishMarks, Matches
  <2>2. PICK r \in CallDoc : call' = [call EXCEPT ![c] = r] /\ Shape(r, wrote)
    BY <1>1, <2>1, PayloadGoesOn
  <2> DEFINE doc == [playlist[p] EXCEPT !.published = s.version]
  <2>3. /\ doc \in Doc /\ doc.version = playlist[p].version /\ doc.items = playlist[p].items
        /\ doc.state = playlist[p].state /\ doc.published = s.version
    BY <1>1, DocTypes, CallTypes, DocMarked DEF IInv
  <2>4. playlist' = [playlist EXCEPT ![p] = doc]
    BY <1>1, <2>1 DEF IInv, TypesOK
  <2> HIDE DEF doc
  <2>5. /\ playlist' \in [Playlists -> Doc] /\ playlist'[p] = doc
        /\ \A q \in Playlists \ {p} : playlist'[q] = playlist[q]
    BY <1>1, <2>3, <2>4 DEF IInv, TypesOK
  <2>6. HistoryOK'
    BY <1>1, <2>1, <2>3, <2>5 DEF IInv, HistoryOK, Live
  <2>7. /\ Kept(wrote, wrote') /\ Shape(r, wrote') /\ wrote' \in [Playlists -> Seq(Items)]
        /\ assigned' \in [Devices -> Playlists \union {None}]
    BY <1>1, <2>2, KeptItself DEF IInv, TypesOK
  <2> QED
    BY <1>1, <2>2, <2>5, <2>6, <2>7, PlaylistStep
<1>3. CASE ~Matches(p, s.version)
  BY <1>1, <1>3, OnlyEnds DEF PublishMarks
<1> QED
  BY <1>2, <1>3

LEMMA PublishAssignsStep ==
    ASSUME IInv, NEW c \in Calls, PublishAssigns(c)
    PROVE  IInv'
<1>1. /\ call[c].at = "assigning" /\ call[c].kind \in {"edit", "screen", "list"}
      /\ call[c].pl \in Playlists /\ call' = [call EXCEPT ![c].at = "emitting"]
      /\ UNCHANGED <<media, playlist, wrote, shown, conn>>
  BY CallTypes DEF PublishAssigns, At, Shape
<1>2. PICK r \in CallDoc : call' = [call EXCEPT ![c] = r] /\ Shape(r, wrote)
  BY <1>1, PayloadGoesOn
<1>3. assigned' \in [Devices -> Playlists \union {None}] /\ media' \in [Media -> 0 .. MaxRevision]
  BY <1>1 DEF PublishAssigns, IInv, TypesOK
<1> QED
  BY <1>1, <1>2, <1>3, NoPlaylist

LEMMA UnassignedTypes ==
    ASSUME TypesOK, NEW P
    PROVE  Unassigned(P) \in [Devices -> Playlists \union {None}]
BY DEF TypesOK, Unassigned

LEMMA DeleteFindsStep ==
    ASSUME IInv, NEW c \in Calls, DeleteFinds(c)
    PROVE  IInv'
<1> DEFINE s == call[c]
           devs == {d \in Devices : assigned[d] = s.pl}
           r == [s EXCEPT !.at = "clearing", !.devs = devs]
<1>1. /\ s.at = "deleted" /\ s.kind = "delete"
      /\ UNCHANGED <<media, playlist, wrote, assigned, shown, conn>>
  BY DEF DeleteFinds, At
<1>2. CASE devs = {}
  BY <1>1, <1>2, OnlyEnds DEF DeleteFinds
<1>3. CASE devs # {}
  <2>1. Is(r, s, "clearing", s.pl, s.version, s.items, s.seen, devs, s.todo)
    BY CallTypes, GoDevices, StepNames
  <2>2. call' = [call EXCEPT ![c] = r]
    BY <1>3, CallTypes DEF DeleteFinds
  <2> HIDE DEF r
  <2>3. Shape(r, wrote)
    BY <1>1, <2>1 DEF Shape, Refreshing, ShowsVersion, Is
  <2> QED
    BY <1>1, <2>1, <2>2, <2>3, OnlyCall DEF Is
<1> QED
  BY <1>2, <1>3

LEMMA DeleteClearsStep ==
    ASSUME IInv, NEW c \in Calls, DeleteClears(c)
    PROVE  IInv'
<1> DEFINE s == call[c]
           r == [s EXCEPT !.at = "emitting", !.pl = None, !.version = 0, !.items = {}]
<1>1. /\ s.at = "clearing" /\ s.kind = "delete"
      /\ UNCHANGED <<media, playlist, wrote, shown, conn>>
  BY DEF DeleteClears, At
<1>2. Is(r, s, "emitting", None, 0, {}, s.seen, s.devs, s.todo)
  BY CallTypes, GoNotice
<1>3. call' = [call EXCEPT ![c] = r]
  BY CallTypes DEF DeleteClears
<1> HIDE DEF r
<1>4. Shape(r, wrote)
  BY <1>1, <1>2 DEF Shape, Refreshing, ShowsVersion, True, Is
<1>5. /\ assigned' \in [Devices -> Playlists \union {None}]
      /\ media' \in [Media -> 0 .. MaxRevision]
  BY <1>1, UnassignedTypes DEF DeleteClears, IInv, TypesOK
<1> QED
  BY <1>1, <1>2, <1>3, <1>4, <1>5, NoPlaylist DEF Is

LEMMA RemoveFindsStep ==
    ASSUME IInv, NEW c \in Calls, RemoveFinds(c)
    PROVE  IInv'
<1> DEFINE s == call[c]
           devs == {d \in Devices : \E t \in s.todo : assigned[d] = t.pl}
           r == [s EXCEPT !.at = "purging", !.devs = devs]
<1>1. /\ s.at = "detaching" /\ s.kind = "remove"
      /\ UNCHANGED <<media, playlist, wrote, assigned, shown, conn>>
  BY DEF RemoveFinds, At
<1>2. Is(r, s, "purging", s.pl, s.version, s.items, s.seen, devs, s.todo)
  BY CallTypes, GoDevices, StepNames
<1>3. call' = [call EXCEPT ![c] = r]
  BY CallTypes DEF RemoveFinds
<1> HIDE DEF r
<1>4. Shape(r, wrote)
  BY <1>1, <1>2, CallTypes DEF Shape, Refreshing, ShowsVersion, Is
<1> QED
  BY <1>1, <1>2, <1>3, <1>4, OnlyCall DEF Is

LEMMA RemovePurgesStep ==
    ASSUME IInv, NEW c \in Calls, RemovePurges(c)
    PROVE  IInv'
<1> DEFINE s == call[c]
           wrappers == {t.pl : t \in s.todo}
           r == [s EXCEPT !.at = "removing"]
<1>1. /\ s.at = "purging" /\ s.kind = "remove" /\ s.pl = None
      /\ UNCHANGED <<media, wrote, shown, conn>>
  BY CallTypes DEF RemovePurges, At, Shape
<1>2. \A t \in s.todo : WasWritten(wrote, t.pl, t.state.version, t.state.items)
  BY <1>1, CallTypes DEF Shape
<1>3. ASSUME NEW p \in wrappers PROVE p \in Playlists /\ playlist[p].state # "new"
  <2>1. p \in Playlists /\ Len(wrote[p]) # 0
    BY <1>2 DEF WasWritten
  <2> QED
    BY <2>1 DEF IInv, HistoryOK
<1>4. playlist' = [p \in Playlists |-> IF p \in wrappers
                     THEN [playlist[p] EXCEPT !.state = "gone"] ELSE playlist[p]]
  BY DEF RemovePurges
<1> HIDE DEF wrappers
<1>5. playlist' \in [Playlists -> Doc] /\ HistoryOK' /\ Kept(wrote, wrote')
  BY <1>1, <1>3, <1>4, GoneUpdate DEF IInv
<1>6. Is(r, s, "removing", s.pl, s.version, s.items, s.seen, s.devs, s.todo)
  BY CallTypes, GoAt, StepNames
<1>7. call' = [call EXCEPT ![c] = r]
  BY CallTypes DEF RemovePurges
<1> HIDE DEF r
<1>8. Shape(r, wrote')
  BY <1>1, <1>6 DEF Shape, Refreshing, ShowsVersion, Is
<1>9. /\ assigned' \in [Devices -> Playlists \union {None}]
      /\ wrote' \in [Playlists -> Seq(Items)]
  BY <1>1, UnassignedTypes DEF RemovePurges, IInv, TypesOK
<1> QED
  BY <1>1, <1>5, <1>6, <1>7, <1>8, <1>9, PlaylistStep DEF Is

LEMMA RemoveDeletesStep ==
    ASSUME LibraryAssumption, IInv, NEW c \in Calls, RemoveDeletes(c)
    PROVE  IInv'
<1> DEFINE s == call[c]
           r == [s EXCEPT !.at = "emitting"]
<1>1. /\ s.at = "removing" /\ s.kind = "remove" /\ s.pl = None
      /\ UNCHANGED <<playlist, wrote, assigned, shown, conn>>
  BY CallTypes DEF RemoveDeletes, At, Shape
<1>2. media' \in [Media -> 0 .. MaxRevision]
  <2>1. PICK m : media' = [media EXCEPT ![m] = 0]
    BY DEF RemoveDeletes
  <2>2. 0 \in 0 .. MaxRevision
    BY DEF LibraryAssumption
  <2> QED
    BY <2>1, <2>2 DEF IInv, TypesOK
<1>3. assigned' \in [Devices -> Playlists \union {None}]
  BY <1>1 DEF IInv, TypesOK
<1>4. ASSUME NEW ok \in BOOLEAN, Ends(c, ok) PROVE IInv'
  BY <1>1, <1>2, <1>3, <1>4, EndUpdate, NoPlaylist
<1>5. CASE call' = [call EXCEPT ![c].at = "emitting"]
  <2>1. Is(r, s, "emitting", s.pl, s.version, s.items, s.seen, s.devs, s.todo)
    BY CallTypes, GoAt, StepNames
  <2>2. call' = [call EXCEPT ![c] = r]
    BY <1>5, CallTypes
  <2> HIDE DEF r
  <2>3. Shape(r, wrote)
    BY <1>1, <2>1 DEF Shape, Refreshing, ShowsVersion, True, Is
  <2> QED
    BY <1>1, <1>2, <1>3, <2>1, <2>2, <2>3, NoPlaylist DEF Is
<1> QED
  BY <1>4, <1>5 DEF RemoveDeletes

LEMMA RefreshReadsStep ==
    ASSUME IInv, NEW c \in Calls, RefreshReads(c)
    PROVE  IInv'
<1> DEFINE s == call[c]
<1>1. /\ s.at = "updated" /\ s.kind = "app"
      /\ UNCHANGED <<media, playlist, wrote, assigned, shown, conn>>
  BY DEF RefreshReads, At
<1>2. PICK a \in s.wants :
        call' = [call EXCEPT ![c].at = "next", ![c].todo = Snapshots(Using(a))]
  BY DEF RefreshReads
<1> DEFINE todo == Snapshots(Using(a))
           r == [s EXCEPT !.at = "next", !.todo = todo]
<1>3. /\ todo \in SUBSET Snapshot
      /\ \A t \in todo : t.pl \in Using(a) /\ t.state = playlist[t.pl]
  BY SnapshotDocs, UsingIsLive DEF IInv
<1>4. \A t \in todo : Holds(t.state.items, s.wants)
  <2>1. \A t \in todo : Holds(t.state.items, {a})
    BY <1>3, UsingHolds
  <2> QED
    BY <2>1 DEF Holds
<1> HIDE DEF todo
<1>5. Is(r, s, "next", s.pl, s.version, s.items, s.seen, s.devs, todo)
  BY <1>3, CallTypes, GoTodo
<1>6. call' = [call EXCEPT ![c] = r]
  BY <1>2, CallTypes DEF todo
<1> HIDE DEF r
<1>7. Shape(r, wrote)
  BY <1>1, <1>4, <1>5, CallTypes DEF Shape, Refreshing, ShowsVersion, Is
<1> QED
  BY <1>1, <1>5, <1>6, <1>7, OnlyCall DEF Is

LEMMA RefreshFindsStep ==
    ASSUME IInv, NEW c \in Calls, RefreshFinds(c)
    PROVE  IInv'
<1> DEFINE s == call[c]
<1>1. /\ s.at = "next" /\ s.kind = "app"
      /\ UNCHANGED <<media, playlist, wrote, assigned, shown, conn>>
  BY DEF RefreshFinds, At
<1>2. CASE Ends(c, TRUE)
  BY <1>1, <1>2, OnlyEnds
<1>3. ASSUME NEW t \in s.todo,
             call' = [call EXCEPT ![c].at = "refreshing", ![c].pl = t.pl,
                        ![c].devs = {d \in Devices : assigned[d] = t.pl}]
      PROVE  IInv'
  <2> DEFINE devs == {d \in Devices : assigned[d] = t.pl}
             r == [s EXCEPT !.at = "refreshing", !.pl = t.pl, !.devs = devs]
  <2>1. t.pl \in Playlists
    BY CallTypes DEF Snapshot
  <2>2. Is(r, s, "refreshing", t.pl, s.version, s.items, s.seen, devs, s.todo)
    BY <2>1, CallTypes, GoRefreshing
  <2>3. call' = [call EXCEPT ![c] = r]
    BY <1>3, CallTypes
  <2> HIDE DEF r, devs
  <2>4. Shape(r, wrote)
    BY <1>1, <2>1, <2>2, CallTypes DEF Shape, Refreshing, ShowsVersion, Is
  <2> QED
    BY <1>1, <2>2, <2>3, <2>4, OnlyCall DEF Is
<1> QED
  BY <1>2, <1>3 DEF RefreshFinds

\* Replacing the items of an app keeps the type, and an item of it.
LEMMA Revised ==
    ASSUME NEW items \in Items, NEW M, Holds(items, M), NEW one \in Item, one.media \in M
    PROVE  LET news == {IF i.media = one.media THEN one ELSE i : i \in items} IN
           news \in Items /\ Holds(news, M)
<1> DEFINE news == {IF i.media = one.media THEN one ELSE i : i \in items}
<1>1. news \in Items
  BY DEF Items
<1>2. PICK i \in items : i.media \in M
  BY DEF Holds
<1>3. CASE i.media = one.media
  <2>1. one \in news
    BY <1>3
  <2> QED
    BY <1>1, <2>1 DEF Holds
<1>4. CASE i.media # one.media
  <2>1. i \in news
    BY <1>4
  <2> QED
    BY <1>1, <1>2, <2>1 DEF Holds
<1> QED
  BY <1>3, <1>4

LEMMA RefreshWritesStep ==
    ASSUME IInv, NEW c \in Calls, RefreshWrites(c)
    PROVE  IInv'
<1> DEFINE s == call[c]
           t == CHOOSE t \in s.todo : t.pl = s.pl
           revised == CHOOSE i \in s.items : i.media \in s.wants
           items == {IF i.media = revised.media THEN revised ELSE i : i \in t.state.items}
           published == IF t.state.published # 0 \/ s.devs # {}
                        THEN t.state.version + 1 ELSE 0
           at == IF s.devs = {} THEN "next" ELSE "emitting"
           r == [s EXCEPT !.at = at, !.version = t.state.version + 1, !.items = items,
                          !.todo = s.todo \ {t}]
           Unchanged == Live(s.pl) /\ playlist[s.pl].version = t.state.version
<1>1. /\ s.at = "refreshing" /\ s.kind = "app" /\ s.pl \in Playlists
      /\ UNCHANGED <<media, assigned, shown, conn>>
  BY CallTypes DEF RefreshWrites, At, Shape
<1>2. t \in s.todo /\ t.pl = s.pl
  BY <1>1, CallTypes DEF Shape
<1>3. revised \in s.items /\ revised.media \in s.wants
  BY <1>1, CallTypes DEF Shape, Refreshing, Holds
<1>4. t \in Snapshot /\ t.state.items \in Items /\ Holds(t.state.items, s.wants)
  BY <1>1, <1>2, CallTypes DEF Shape, Refreshing, Snapshot, Doc
<1>5. items \in Items /\ Holds(items, s.wants)
  <2>1. revised \in Item
    BY <1>3, CallTypes DEF Items
  <2> HIDE DEF revised, t
  <2> QED
    BY <1>3, <1>4, <2>1, Revised
<1>6. CASE Unchanged
  <2>1. /\ Writes(s.pl, items, published) /\ Live(s.pl)
        /\ playlist[s.pl].version = t.state.version
        /\ call' = [call EXCEPT ![c].at = at, ![c].version = t.state.version + 1,
                                ![c].items = items, ![c].todo = @ \ {t}]
    BY <1>6 DEF RefreshWrites
  <2> HIDE DEF items, t, revised, at
  <2>2. call' = [call EXCEPT ![c] = r]
    <3>1. call \in [Calls -> CallDoc] /\ call[c].todo = s.todo
      BY CallTypes
    <3> QED
      BY <2>1, <3>1
  <2>3. t.state.version + 1 \in Nat /\ published \in {0, playlist[s.pl].version + 1}
    <3>1. playlist[s.pl].version \in Nat
      BY <1>1, DocTypes DEF IInv
    <3>2. playlist[s.pl].version = t.state.version
      BY <2>1
    <3> QED
      BY <3>1, <3>2
  <2>4. /\ playlist' \in [Playlists -> Doc] /\ wrote' \in [Playlists -> Seq(Items)]
        /\ HistoryOK' /\ Kept(wrote, wrote')
        /\ WasWritten(wrote', s.pl, t.state.version + 1, items)
    BY <1>1, <1>5, <2>1, <2>3, WriteUpdate DEF IInv
  <2>5. s.todo \ {t} \in SUBSET Snapshot /\ at \in Steps
    BY CallTypes, StepNames DEF at
  <2>6. Is(r, s, at, s.pl, t.state.version + 1, items, s.seen, s.devs, s.todo \ {t})
    BY <1>5, <2>3, <2>5, CallTypes, GoRefreshed
  <2>7. at \in {"next", "emitting"}
    BY DEF at
  <2> HIDE DEF r
  <2>8. Shape(r, wrote')
    BY <1>1, <1>5, <2>4, <2>6, <2>7, CallTypes
       DEF Shape, Refreshing, ShowsVersion, True, Is
  <2>9. assigned' \in [Devices -> Playlists \union {None}]
    BY <1>1 DEF IInv, TypesOK
  <2> QED
    BY <1>1, <2>2, <2>4, <2>6, <2>8, <2>9, PlaylistStep DEF Is
<1>7. CASE ~Unchanged
  <2>1. Ends(c, FALSE) /\ UNCHANGED <<playlist, wrote>>
    BY <1>7 DEF RefreshWrites
  <2> QED
    BY <1>1, <2>1, OnlyEnds
<1> QED
  BY <1>6, <1>7

LEMMA EmitsStep ==
    ASSUME IInv, NEW c \in Calls, Emits(c)
    PROVE  IInv'
<1> DEFINE s == call[c]
           payload == Payload(s.pl, s.version, s.items)
           r == [s EXCEPT !.at = "next"]
<1>1. /\ s.at = "emitting"
      /\ UNCHANGED <<media, playlist, wrote, assigned, conn>>
      /\ shown' = [d \in Devices |-> IF d \in s.devs /\ conn[d].at # "off"
                                     THEN payload ELSE shown[d]]
  BY DEF Emits
<1>2. /\ payload \in PayloadDoc /\ payload.pl = s.pl /\ payload.version = s.version
      /\ payload.items = s.items
  BY CallTypes DEF Payload, PayloadDoc
<1>3. True(wrote, s.pl, s.version, s.items)
  BY <1>1, CallTypes DEF Shape
<1> HIDE DEF payload
<1>4. shown' \in [Devices -> PayloadDoc]
  BY <1>1, <1>2 DEF IInv, TypesOK
<1>5. DevicesOK'
  <2>1. ASSUME NEW d \in Devices
        PROVE  True(wrote, shown'[d].pl, shown'[d].version, shown'[d].items)
    <3>1. shown'[d] = payload \/ shown'[d] = shown[d]
      BY <1>1
    <3> QED
      BY <1>2, <1>3, <3>1 DEF IInv, DevicesOK
  <2> QED
    BY <1>1, <2>1 DEF IInv, DevicesOK
<1>6. CalmOK'
  BY <1>1, NoneCalm DEF IInv
<1>7. call' \in [Calls -> CallDoc] /\ CallsOK'
  <2>1. Kept(wrote, wrote') /\ (\A x : Shape(x, wrote) => Shape(x, wrote'))
    BY <1>1, KeptItself
  <2>2. CASE s.kind = "app"
    <3>1. Is(r, s, "next", s.pl, s.version, s.items, s.seen, s.devs, s.todo)
      BY CallTypes, GoAt, StepNames
    <3>2. call' = [call EXCEPT ![c] = r]
      BY <2>2, CallTypes DEF Emits
    <3> HIDE DEF r
    <3>3. Shape(r, wrote)
      BY <1>1, <2>2, <3>1, CallTypes DEF Shape, Refreshing, ShowsVersion, Is
    <3> QED
      BY <2>1, <3>1, <3>2, <3>3, CallUpdate DEF Is, IInv
  <2>3. CASE s.kind # "app"
    <3>1. Ends(c, TRUE)
      BY <2>3 DEF Emits
    <3> QED
      BY <2>1, <3>1, EndUpdate, CallUpdate DEF IInv
  <2> QED
    BY <2>2, <2>3
<1>8. TypesOK' /\ HistoryOK'
  BY <1>1, <1>4, <1>7 DEF IInv, TypesOK, HistoryOK, Live
<1> QED
  BY <1>5, <1>6, <1>7, <1>8 DEF IInv

-----------------------------------------------------------------------------
(* Devices come and go                                                     *)

LEMMA NoContentDoc == NoContent \in PayloadDoc
BY DEF NoContent, Payload, PayloadDoc, Items

\* A connection changes: what is shown is true, and so is what is held.
LEMMA ConnUpdate ==
    ASSUME IInv, NEW d \in Devices, NEW r \in Connection, conn' = [conn EXCEPT ![d] = r],
           shown' \in [Devices -> PayloadDoc],
           \A e \in Devices \ {d} : shown'[e] = shown[e],
           True(wrote, shown'[d].pl, shown'[d].version, shown'[d].items),
           r.at = "joined" => r.got.pl \in Playlists,
           r.at = "pushing" => WasWritten(wrote, r.got.pl, r.got.version, r.got.items),
           r.calm => /\ \A c \in Calls : call[c].at = "done"
                     /\ r.at = "joined" => r.got.pl = assigned[d]
                     /\ r.at = "pushing" => r.got = Current(assigned[d])
                     /\ r.at = "on" /\ assigned[d] \in LivePlaylists
                          => shown'[d] = Current(assigned[d]),
           UNCHANGED <<media, playlist, wrote, assigned, call>>
    PROVE  IInv'
<1>1. /\ conn' \in [Devices -> Connection] /\ conn'[d] = r
      /\ \A e \in Devices \ {d} : conn'[e] = conn[e]
  BY DEF IInv, TypesOK
<1>2. TypesOK'
  BY <1>1 DEF IInv, TypesOK
<1>3. HistoryOK' /\ CallsOK'
  BY DEF IInv, HistoryOK, CallsOK, Live
<1>4. DevicesOK'
  <2>1. ASSUME NEW e \in Devices
        PROVE  /\ True(wrote, shown'[e].pl, shown'[e].version, shown'[e].items)
               /\ conn'[e].at = "joined" => conn'[e].got.pl \in Playlists
               /\ conn'[e].at = "pushing" =>
                    WasWritten(wrote, conn'[e].got.pl, conn'[e].got.version, conn'[e].got.items)
    <3>1. CASE e = d
      BY <1>1, <3>1
    <3>2. CASE e # d
      BY <1>1, <3>2 DEF IInv, DevicesOK
    <3> QED
      BY <3>1, <3>2
  <2> QED
    BY <2>1 DEF DevicesOK
<1>5. CalmOK'
  <2>1. /\ LivePlaylists' = LivePlaylists
        /\ \A p : Current(p)' = Current(p)
    BY DEF LivePlaylists, Live, Current
  <2>2. ASSUME NEW e \in Devices, conn'[e].calm
        PROVE  /\ \A c \in Calls : call[c].at = "done"
               /\ conn'[e].at = "joined" => conn'[e].got.pl = assigned[e]
               /\ conn'[e].at = "pushing" => conn'[e].got = Current(assigned[e])
               /\ conn'[e].at = "on" /\ assigned[e] \in LivePlaylists
                    => shown'[e] = Current(assigned[e])
    <3>1. CASE e = d
      BY <1>1, <2>2, <3>1
    <3>2. CASE e # d
      BY <1>1, <2>2, <3>2 DEF IInv, CalmOK
    <3> QED
      BY <3>1, <3>2
  <2> QED
    BY <2>2, <2>1 DEF CalmOK, Current, LivePlaylists, Live
<1> QED
  BY <1>2, <1>3, <1>4, <1>5 DEF IInv

LEMMA DisconnectsStep ==
    ASSUME IInv, NEW d \in Devices, Disconnects(d)
    PROVE  IInv'
<1> DEFINE r == [at |-> "off", got |-> NoContent, calm |-> FALSE]
<1>1. r \in Connection /\ r.at = "off" /\ ~r.calm
  BY NoContentDoc DEF Connection
<1>2. /\ conn' = [conn EXCEPT ![d] = r]
      /\ UNCHANGED <<media, playlist, wrote, assigned, shown, call>>
  BY DEF Disconnects
<1> HIDE DEF r
<1>3. shown' \in [Devices -> PayloadDoc]
      /\ True(wrote, shown'[d].pl, shown'[d].version, shown'[d].items)
  BY <1>2 DEF IInv, TypesOK, DevicesOK
<1> QED
  BY <1>1, <1>2, <1>3, ConnUpdate

LEMMA JoinsStep ==
    ASSUME LibraryAssumption, IInv, NEW d \in Devices, Joins(d)
    PROVE  IInv'
<1> DEFINE calm == \A c \in Calls : call[c].at = "done"
           got == Payload(assigned[d], 0, {})
           r == [at |-> IF assigned[d] = None THEN "on" ELSE "joined",
                 got |-> got, calm |-> calm]
<1>1. /\ conn' = [conn EXCEPT ![d] = r]
      /\ UNCHANGED <<media, playlist, wrote, assigned, shown, call>>
  BY DEF Joins
<1>2. assigned[d] \in Playlists \union {None}
  BY DEF IInv, TypesOK
<1>3. got \in PayloadDoc /\ got.pl = assigned[d]
  BY <1>2 DEF Payload, PayloadDoc, Items
<1>4. /\ r.at = IF assigned[d] = None THEN "on" ELSE "joined"
      /\ r.got = got /\ r.calm = calm
  OBVIOUS
<1> HIDE DEF got, calm
<1>5. calm \in BOOLEAN
  BY DEF calm
<1>6. r \in Connection
  BY <1>3, <1>5 DEF Connection
<1> HIDE DEF r
<1>7. shown' \in [Devices -> PayloadDoc]
      /\ True(wrote, shown'[d].pl, shown'[d].version, shown'[d].items)
  BY <1>1 DEF IInv, TypesOK, DevicesOK
<1>8. assigned[d] = None => assigned[d] \notin LivePlaylists
  BY DEF LibraryAssumption, LivePlaylists
<1>9. r.calm => \A c \in Calls : call[c].at = "done"
  BY <1>4 DEF calm
<1> QED
  BY <1>1, <1>2, <1>3, <1>4, <1>6, <1>7, <1>8, <1>9, ConnUpdate

LEMMA ConnTypes ==
    ASSUME TypesOK, NEW d \in Devices
    PROVE  conn[d] \in Connection /\ conn[d].calm \in BOOLEAN /\ conn[d].got \in PayloadDoc
BY DEF TypesOK, Connection

LEMMA ConnGoes ==
    ASSUME NEW k \in Connection, NEW at \in {"off", "joined", "pushing", "on"},
           NEW got \in PayloadDoc
    PROVE  LET r == [k EXCEPT !.at = at, !.got = got] IN
           r \in Connection /\ r.at = at /\ r.got = got /\ r.calm = k.calm
BY DEF Connection

\* A handler that has nothing more to push.
LEMMA ConnRests ==
    ASSUME NEW k \in Connection
    PROVE  LET r == [k EXCEPT !.at = "on", !.got = NoContent] IN
           r \in Connection /\ r.at = "on" /\ r.calm = k.calm
BY NoContentDoc DEF Connection

LEMMA LoadsPlaylistStep ==
    ASSUME IInv, NEW d \in Devices, LoadsPlaylist(d)
    PROVE  IInv'
<1> DEFINE p == conn[d].got.pl
           k == conn[d]
           pushes == [k EXCEPT !.at = "pushing", !.got = Current(p)]
           ends == [k EXCEPT !.at = "on", !.got = NoContent]
<1>1. /\ k.at = "joined" /\ p \in Playlists /\ k \in Connection
      /\ UNCHANGED <<media, playlist, wrote, assigned, shown, call>>
  BY ConnTypes DEF LoadsPlaylist, IInv, DevicesOK
<1>2. shown' \in [Devices -> PayloadDoc]
      /\ True(wrote, shown'[d].pl, shown'[d].version, shown'[d].items)
  BY <1>1 DEF IInv, TypesOK, DevicesOK
<1>3. k.calm => p = assigned[d] /\ \A c \in Calls : call[c].at = "done"
  BY <1>1 DEF IInv, CalmOK
<1>4. CASE Live(p)
  <2>1. conn' = [conn EXCEPT ![d] = pushes]
    BY <1>4 DEF LoadsPlaylist
  <2>2. /\ Current(p) \in PayloadDoc /\ Current(p).pl = p
        /\ Current(p).version = playlist[p].version /\ Current(p).items = playlist[p].items
    BY <1>1, DocTypes DEF Current, Payload, PayloadDoc, IInv
  <2>3. WasWritten(wrote, p, playlist[p].version, playlist[p].items)
    BY <1>1, <1>4, CurrentWasWritten DEF IInv
  <2>4. /\ pushes \in Connection /\ pushes.at = "pushing" /\ pushes.got = Current(p)
        /\ pushes.calm = k.calm
    <3> DEFINE got == Current(p)
    <3>1. got \in PayloadDoc
      BY <2>2
    <3> HIDE DEF got
    <3>2. LET r == [k EXCEPT !.at = "pushing", !.got = got] IN
          r \in Connection /\ r.at = "pushing" /\ r.got = got /\ r.calm = k.calm
      BY <1>1, <3>1, ConnGoes
    <3> QED
      BY <3>2 DEF got
  <2> HIDE DEF pushes
  <2> QED
    BY <1>1, <1>2, <1>3, <2>1, <2>2, <2>3, <2>4, ConnUpdate
<1>5. CASE ~Live(p)
  <2>1. conn' = [conn EXCEPT ![d] = ends]
    BY <1>5 DEF LoadsPlaylist
  <2>2. ends \in Connection /\ ends.at = "on" /\ ends.calm = k.calm
    BY <1>1, ConnRests
  <2>3. p \notin LivePlaylists
    BY <1>5 DEF LivePlaylists
  <2> HIDE DEF ends
  <2> QED
    BY <1>1, <1>2, <1>3, <2>1, <2>2, <2>3, ConnUpdate
<1> QED
  BY <1>4, <1>5

LEMMA PushesStep ==
    ASSUME IInv, NEW d \in Devices, Pushes(d)
    PROVE  IInv'
<1> DEFINE k == conn[d]
           r == [k EXCEPT !.at = "on", !.got = NoContent]
<1>1. /\ k.at = "pushing" /\ k \in Connection /\ k.got \in PayloadDoc
      /\ conn' = [conn EXCEPT ![d] = r] /\ shown' = [shown EXCEPT ![d] = k.got]
      /\ UNCHANGED <<media, playlist, wrote, assigned, call>>
  BY ConnTypes DEF Pushes, IInv
<1>2. r \in Connection /\ r.at = "on" /\ r.calm = k.calm
  <2>1. k \in Connection
    BY <1>1
  <2> HIDE DEF k
  <2> QED
    BY <2>1, ConnRests
<1>3. WasWritten(wrote, k.got.pl, k.got.version, k.got.items)
  BY <1>1 DEF IInv, DevicesOK
<1>4. k.calm => k.got = Current(assigned[d]) /\ \A c \in Calls : call[c].at = "done"
  BY <1>1 DEF IInv, CalmOK
<1>5. /\ shown' \in [Devices -> PayloadDoc] /\ shown'[d] = k.got
      /\ \A e \in Devices \ {d} : shown'[e] = shown[e]
  BY <1>1 DEF IInv, TypesOK
<1> HIDE DEF r
<1>6. True(wrote, shown'[d].pl, shown'[d].version, shown'[d].items)
  BY <1>3, <1>5 DEF True
<1> QED
  BY <1>1, <1>2, <1>4, <1>5, <1>6, ConnUpdate

-----------------------------------------------------------------------------
(* The inductive invariant                                                 *)

LEMMA InitInvariant ==
    ASSUME LibraryAssumption, Init
    PROVE  IInv
<1>1. PICK S \in Wanted :
        /\ playlist = [p \in Playlists |-> IF p # First THEN NewPlaylist
                        ELSE [NewPlaylist EXCEPT !.state = "live", !.version = 1,
                                                 !.items = Mapped(S), !.published = 1]]
        /\ wrote = [p \in Playlists |-> IF p = First THEN <<Mapped(S)>> ELSE <<>>]
        /\ shown = [d \in Devices |-> Payload(First, 1, Mapped(S))]
  BY DEF Init
<1> DEFINE items == Mapped(S)
           doc == [NewPlaylist EXCEPT !.state = "live", !.version = 1, !.items = items,
                                      !.published = 1]
           payload == Payload(First, 1, items)
           first == <<items>>
<1>2. /\ media = [m \in Media |-> 1] /\ assigned = [d \in Devices |-> First]
      /\ conn = [d \in Devices |-> [at |-> "on", got |-> NoContent, calm |-> FALSE]]
      /\ call \in [Calls -> {NewCall, NotMade}]
  BY DEF Init
<1>3. 1 \in 0 .. MaxRevision /\ 1 \in 1 .. MaxRevision /\ First \in Playlists
  BY DEF LibraryAssumption
<1>4. items \in Items
  BY <1>2, <1>3 DEF Mapped, Items, Item, Wanted
<1> HIDE DEF items
<1>5. /\ NewPlaylist \in Doc /\ NewPlaylist.state = "new" /\ NewPlaylist.version = 0
      /\ NewPlaylist.published = 0
  BY DEF NewPlaylist, Doc, Items, FileNames
<1>6. /\ doc \in Doc /\ doc.state = "live" /\ doc.version = 1 /\ doc.items = items
      /\ doc.published = 1
  BY <1>4 DEF NewPlaylist, Doc, Items, FileNames
<1>7. /\ payload \in PayloadDoc /\ payload.pl = First /\ payload.version = 1
      /\ payload.items = items
  BY <1>3, <1>4 DEF Payload, PayloadDoc
<1>8. first \in Seq(Items) /\ Len(first) = 1 /\ first[1] = items
  BY <1>4
<1>9. <<>> \in Seq(Items) /\ Len(<<>>) = 0
  OBVIOUS
<1>10. /\ playlist = [p \in Playlists |-> IF p # First THEN NewPlaylist ELSE doc]
       /\ wrote = [p \in Playlists |-> IF p = First THEN first ELSE <<>>]
       /\ shown = [d \in Devices |-> payload]
  BY <1>1 DEF items
<1> HIDE DEF doc, payload, first
<1>11. /\ playlist \in [Playlists -> Doc] /\ wrote \in [Playlists -> Seq(Items)]
       /\ shown \in [Devices -> PayloadDoc]
  BY <1>5, <1>6, <1>7, <1>8, <1>9, <1>10
<1>12. [at |-> "on", got |-> NoContent, calm |-> FALSE] \in Connection
  BY NoContentDoc DEF Connection
<1>13. TypesOK
  BY <1>2, <1>3, <1>11, <1>12, NewCallDoc, NotMadeDoc DEF TypesOK
<1>14. HistoryOK
  <2>1. ASSUME NEW p \in Playlists
        PROVE  /\ playlist[p].version = Len(wrote[p])
               /\ playlist[p].state = "new" <=> playlist[p].version = 0
               /\ playlist[p].version # 0 => playlist[p].items = wrote[p][playlist[p].version]
               /\ Live(p) => playlist[p].published \in {0, playlist[p].version}
    <3>1. CASE p = First
      <4>1. playlist[p] = doc /\ wrote[p] = first
        BY <1>10, <3>1
      <4> QED
        BY <1>6, <1>8, <4>1 DEF Live
    <3>2. CASE p # First
      <4>1. playlist[p] = NewPlaylist /\ wrote[p] = <<>>
        BY <1>10, <3>2
      <4> QED
        BY <1>5, <1>9, <4>1 DEF Live
    <3> QED
      BY <3>1, <3>2
  <2> QED
    BY <2>1 DEF HistoryOK
<1>15. CallsOK
  <2>1. /\ NewCall.at = "new" /\ NewCall.kind = "none"
        /\ NotMade.at = "done" /\ NotMade.kind = "none"
    BY DEF NewCall, NotMade
  <2>2. ASSUME NEW s, s.at \in {"new", "done"}, s.kind = "none"
        PROVE  Shape(s, wrote)
    BY <2>2 DEF Shape, Refreshing, ShowsVersion
  <2>3. Shape(NewCall, wrote) /\ Shape(NotMade, wrote)
    BY <2>1, <2>2
  <2>4. \A c \in Calls : call[c] \in {NewCall, NotMade}
    BY <1>2
  <2> QED
    BY <2>3, <2>4 DEF CallsOK
<1>16. DevicesOK
  <2>1. WasWritten(wrote, First, 1, items)
    BY <1>3, <1>8, <1>10 DEF WasWritten
  <2>2. \A d \in Devices : shown[d] = payload /\ conn[d].at = "on"
    BY <1>2, <1>10
  <2> QED
    BY <1>7, <2>1, <2>2 DEF DevicesOK, True
<1>17. CalmOK
  BY <1>2 DEF CalmOK
<1> QED
  BY <1>13, <1>14, <1>15, <1>16, <1>17 DEF IInv

LEMMA NextInvariant ==
    ASSUME LibraryAssumption, IInv, [Next]_vars
    PROVE  IInv'
<1>1. ASSUME NEW c \in Calls, CallStarts(c) PROVE IInv'
  BY <1>1, EditorLoadsStep, AddLoadsStep, NewPageStep, SetToScreenStep, ListPublishesStep,
     DeletePlaylistStep, RemoveMediaStep, UpdateAppStep DEF CallStarts
<1>2. ASSUME NEW c \in Calls, CallGoesOn(c) PROVE IInv'
  BY <1>2, SaveReadsStep, SaveWritesStep, SaveEndsStep, CreateReadsStep, CreateWritesStep,
     PublishReadsStep, PublishMarksStep, PublishAssignsStep, DeleteFindsStep,
     DeleteClearsStep, RemoveFindsStep, RemovePurgesStep, RemoveDeletesStep,
     RefreshReadsStep, RefreshFindsStep, RefreshWritesStep, EmitsStep DEF CallGoesOn
<1>3. ASSUME NEW d \in Devices, DeviceMoves(d) PROVE IInv'
  BY <1>3, DisconnectsStep, JoinsStep, LoadsPlaylistStep, PushesStep DEF DeviceMoves
<1>4. CASE UNCHANGED vars
  BY <1>4 DEF vars, IInv, TypesOK, HistoryOK, CallsOK, DevicesOK, CalmOK, Live,
     LivePlaylists, Current
<1> QED
  BY <1>1, <1>2, <1>3, <1>4 DEF Next

LEMMA LibraryInvariant == ASSUME LibraryAssumption PROVE Spec => []IInv
BY InitInvariant, NextInvariant, PTL DEF Spec

-----------------------------------------------------------------------------

\* The variables keep their types, and a playlist's version counts what was
\* written to it.
THEOREM TypeCorrect == ASSUME LibraryAssumption PROVE Spec => []TypeOK
<1>1. IInv => TypeOK
  BY DEF IInv, TypesOK, HistoryOK, TypeOK, Doc, Items, FileNames, Connection, CallDoc
<1> QED
  BY <1>1, LibraryInvariant, PTL

\* A version number names one content, whatever calls overlap: what a device
\* was sent under a version is what was written under it, and what is marked
\* as published is the playlist's version.
THEOREM VersionsNameContents == ASSUME LibraryAssumption PROVE Spec => []VersionNamesContent
<1>1. ASSUME IInv PROVE VersionNamesContent
  <2>1. \A d \in Devices : True(wrote, shown[d].pl, shown[d].version, shown[d].items)
    BY <1>1 DEF IInv, DevicesOK
  <2>2. ASSUME NEW p \in LivePlaylists
        PROVE  /\ playlist[p].items = wrote[p][playlist[p].version]
               /\ playlist[p].published \in {0, playlist[p].version}
    <3>1. p \in Playlists /\ Live(p)
      BY DEF LivePlaylists
    <3> QED
      BY <1>1, <3>1, CurrentWasWritten DEF IInv, HistoryOK
  <2> QED
    BY <2>1, <2>2 DEF VersionNamesContent, True, WasWritten
<1> QED
  BY <1>1, LibraryInvariant, PTL

\* Whatever calls overlapped, once they have all ended a device that connects
\* shows the playlist it is assigned to, as it is.
LEMMA ConnectionHeals == IInv => ReconnectionHeals
BY DEF IInv, CalmOK, ReconnectionHeals

\* A step that changes a call is a step of that call.
LEMMA OwnStep ==
    ASSUME IInv, Next, NEW c \in Calls, call'[c] # call[c]
    PROVE  CallStarts(c) \/ CallGoesOn(c)
<1>1. call \in [Calls -> CallDoc]
  BY DEF IInv, TypesOK
<1>2. ASSUME NEW e \in Calls, CallStarts(e) PROVE e = c
  <2>1. \E r : call' = [call EXCEPT ![e] = r]
    BY <1>2 DEF CallStarts, EditorLoads, AddLoads, NewPage, SetToScreen, ListPublishes,
       DeletePlaylist, RemoveMedia, UpdateApp, Starts
  <2> QED
    BY <1>1, <2>1
<1>3. ASSUME NEW e \in Calls, CallGoesOn(e) PROVE e = c
  <2>1. \A f \in Calls \ {e} : call'[f] = call[f]
    BY <1>1, <1>3 DEF CallGoesOn, SaveReads, SaveWrites, SaveEnds, CreateReads, CreateWrites,
       PublishReads, PublishMarks, PublishAssigns, DeleteFinds, DeleteClears, RemoveFinds,
       RemovePurges, RemoveDeletes, RefreshReads, RefreshFinds, RefreshWrites, Emits, Ends
  <2> QED
    BY <2>1
<1>4. ASSUME NEW d \in Devices, DeviceMoves(d) PROVE FALSE
  BY <1>4 DEF DeviceMoves, Disconnects, Joins, LoadsPlaylist, Pushes
<1> QED
  BY <1>2, <1>3, <1>4 DEF Next

\* However calls overlap, the save of an editor replaces only the version the
\* editor has loaded.
LEMMA EditorsKeepOthersWork == ASSUME IInv, Next PROVE KeepsOthersWork
<1> SUFFICES ASSUME NEW c \in Calls, At(c, "mapped", {"edit"}),
                    playlist' # playlist, call[c] # call'[c]
             PROVE  playlist[call[c].pl].version = call[c].version
  BY DEF KeepsOthersWork
<1>1. call[c].at = "mapped" /\ call[c].kind = "edit"
  BY DEF At
<1>2. SaveWrites(c)
  BY <1>1, OwnStep DEF CallStarts, EditorLoads, AddLoads, NewPage, SetToScreen,
     ListPublishes, DeletePlaylist, RemoveMedia, UpdateApp, Starts, CallGoesOn, SaveReads,
     SaveEnds, CreateReads, CreateWrites, PublishReads, PublishMarks, PublishAssigns,
     DeleteFinds, DeleteClears, RemoveFinds, RemovePurges, RemoveDeletes, RefreshReads,
     RefreshFinds, RefreshWrites, Emits, At
<1>3. Matches(call[c].pl, call[c].version)
  BY <1>2 DEF SaveWrites
<1>4. call[c].version # 0
  BY <1>1, CallTypes DEF Shape
<1> QED
  BY <1>3, <1>4 DEF Matches

\* However calls overlap, what an editor or the list page publishes is what its
\* user has seen.
LEMMA PublishedWasSeen == ASSUME IInv, Next PROVE PublishesSeen
<1> SUFFICES ASSUME NEW c \in Calls, NEW d \in Devices, At(c, "emitting", {"edit", "list"}),
                    shown'[d] # shown[d], call'[c] # call[c]
             PROVE  shown'[d].items = call[c].seen
  BY DEF PublishesSeen
<1>1. call[c].at = "emitting" /\ call[c].kind \in {"edit", "list"}
  BY DEF At
<1>2. Emits(c)
  BY <1>1, OwnStep DEF CallStarts, EditorLoads, AddLoads, NewPage, SetToScreen,
     ListPublishes, DeletePlaylist, RemoveMedia, UpdateApp, Starts, CallGoesOn, SaveReads,
     SaveWrites, SaveEnds, CreateReads, CreateWrites, PublishReads, PublishMarks,
     PublishAssigns, DeleteFinds, DeleteClears, RemoveFinds, RemovePurges, RemoveDeletes,
     RefreshReads, RefreshFinds, RefreshWrites, At
<1>3. shown'[d] = Payload(call[c].pl, call[c].version, call[c].items)
  BY <1>2 DEF Emits
<1>4. call[c].items = call[c].seen
  BY <1>1, CallTypes DEF Shape, ShowsVersion
<1> QED
  BY <1>3, <1>4 DEF Payload

-----------------------------------------------------------------------------
(* One call at a time                                                      *)

(***************************************************************************)
(* Calls that do not overlap leave the library consistent.  While a call   *)
(* is under way no other is, and no connection is being served, so what it *)
(* has read stays true until it writes.                                    *)
(***************************************************************************)
Busy(c) == call[c].at \notin {"new", "done"}

Alone ==
    /\ \A c, e \in Calls : Busy(c) /\ Busy(e) => c = e
    /\ \A c \in Calls, d \in Devices : Busy(c) => conn[d].at \in {"off", "on"}

\* What the call that is under way knows of the state.
Knows(c) ==
    LET s == call[c] IN
    /\ s.at \in {"loaded", "mapped", "saved", "marking", "assigning", "refreshing"}
         => Live(s.pl)
    /\ s.kind = "add" /\ s.at \in {"loaded", "mapped"}
         => MediaOf(playlist[s.pl].items) \subseteq s.wants
    /\ s.at \in {"mapped", "created"} => s.items = Mapped(s.wants) /\ Available(s.wants)
    /\ s.at \in {"detaching", "purging", "removing"}
         => \E m \in Media : /\ s.wants = {m}
                             /\ \A p \in Using(m) : /\ s.at # "removing"
                                                    /\ \E t \in s.todo : t.pl = p
    /\ s.at = "purging" => \A d \in s.devs : \E t \in s.todo : assigned[d] = t.pl
    /\ s.at = "removing" => \A d \in s.devs : assigned[d] = None
    /\ s.at \in {"clearing", "emitting"} => \A d \in s.devs : assigned[d] = s.pl
    /\ s.at = "refreshing" => s.devs = {d \in Devices : assigned[d] = s.pl}
    /\ Refreshing(s) => /\ \E a \in Media : /\ s.wants = {a}
                                            /\ \A i \in s.items : i.media = a => i.revision = media[a]
                        /\ \A t \in s.todo : Live(t.pl) /\ t.state = playlist[t.pl]

\* The app a of p will be renewed, p will be cleared, d will be told by a call.
Renews(c, p, a) ==
    /\ Refreshing(call[c]) /\ call[c].wants = {a}
    /\ call[c].at = "updated" \/ \E t \in call[c].todo : t.pl = p
Clears(c, p) == call[c].at \in {"deleted", "clearing"} /\ call[c].pl = p
Tells(c, d) == call[c].at = "emitting" /\ d \in call[c].devs

Stale(i) == i.media \in Apps /\ media[i.media] # 0 /\ i.revision # media[i.media]
HoldsMedia == \A p \in LivePlaylists : Available(MediaOf(playlist[p].items))
AppsRenewed(C) ==
    \A p \in LivePlaylists : \A i \in playlist[p].items :
        Stale(i) => \E c \in C : Renews(c, p, i.media)
AssignedLive(C) ==
    \A d \in Devices : assigned[d] # None => Live(assigned[d]) \/ \E c \in C : Clears(c, assigned[d])
AssignedTold(C) ==
    \A d \in Devices : conn[d].at = "on" /\ assigned[d] # None
        => shown[d].pl = assigned[d] \/ \E c \in C : Tells(c, d)
Serving == \A d \in Devices : conn[d].at \in {"joined", "pushing"} => conn[d].got.pl = assigned[d]

SingleInv ==
    /\ Alone
    /\ \A c \in Calls : Knows(c)
    /\ HoldsMedia /\ AppsRenewed(Calls) /\ AssignedLive(Calls) /\ AssignedTold(Calls)
    /\ Serving

(***************************************************************************)
(* The same from the point of view of the only call that moves.            *)
(***************************************************************************)
Here(c) ==
    /\ Knows(c)
    /\ HoldsMedia /\ AppsRenewed({c}) /\ AssignedLive({c}) /\ AssignedTold({c})
    /\ \A d \in Devices : conn[d].at \in {"off", "on"}

LEMMA Acts ==
    ASSUME ~overlap, IInv, SingleInv, NEW c \in Calls,
           Busy(c) \/ (call[c].at = "new" /\ AtRest)
    PROVE  Here(c) /\ \A e \in Calls \ {c} : ~Busy(e)
<1>1. \A e \in Calls \ {c} : ~Busy(e)
  BY DEF SingleInv, Alone, AtRest, InFlight, Busy
<1>2. \A d \in Devices : conn[d].at \in {"off", "on"}
  BY DEF SingleInv, Alone, AtRest
<1>3. \A e \in Calls \ {c} : call[e].at \in {"new", "done"}
  BY <1>1 DEF Busy
<1>4. /\ \A e \in Calls : \A p, a : Renews(e, p, a) => e = c
      /\ \A e \in Calls : \A p : Clears(e, p) => e = c
      /\ \A e \in Calls : \A d : Tells(e, d) => e = c
  BY <1>3 DEF Renews, Refreshing, Clears, Tells
<1>5. AppsRenewed({c}) /\ AssignedLive({c}) /\ AssignedTold({c})
  BY <1>4 DEF SingleInv, AppsRenewed, AssignedLive, AssignedTold
<1> QED
  BY <1>1, <1>2, <1>5 DEF Here, SingleInv

LEMMA Acted ==
    ASSUME IInv, NEW c \in Calls, Here(c)', Here(c), UNCHANGED conn,
           \A e \in Calls \ {c} : ~Busy(e) /\ call'[e] = call[e]
    PROVE  SingleInv'
<1>1. \A e \in Calls \ {c} : call'[e].at \in {"new", "done"}
  BY DEF Busy
<1>2. Alone'
  BY <1>1 DEF Alone, Busy, Here
<1>3. ASSUME NEW e \in Calls PROVE Knows(e)'
  <2>1. CASE e = c
    BY <2>1 DEF Here
  <2>2. CASE e # c
    BY <1>1, <2>2 DEF Knows, Refreshing
  <2> QED
    BY <2>1, <2>2
<1>4. AppsRenewed(Calls)' /\ AssignedLive(Calls)' /\ AssignedTold(Calls)'
  BY DEF Here, AppsRenewed, AssignedLive, AssignedTold
<1>5. HoldsMedia' /\ Serving'
  BY DEF Here, Serving
<1> QED
  BY <1>2, <1>3, <1>4, <1>5 DEF SingleInv

\* What a call leaves alone by only reading: it must know its own.
LEMMA Reads ==
    ASSUME NEW c \in Calls, Here(c), Knows(c)', ~Refreshing(call[c]),
           call[c].at \notin {"emitting", "deleted", "clearing"},
           UNCHANGED <<media, playlist, assigned, shown, conn>>
    PROVE  Here(c)'
<1>1. \A p \in LivePlaylists : \A i \in playlist[p].items : ~Stale(i)
  BY DEF Here, AppsRenewed, Renews
<1>2. \A d \in Devices : assigned[d] # None => Live(assigned[d])
  BY DEF Here, AssignedLive, Clears
<1>3. \A d \in Devices : conn[d].at = "on" /\ assigned[d] # None => shown[d].pl = assigned[d]
  BY DEF Here, AssignedTold, Tells
<1>4. AppsRenewed({c})'
  BY <1>1 DEF AppsRenewed, Stale, LivePlaylists, Live
<1>5. AssignedLive({c})'
  BY <1>2 DEF AssignedLive, Live
<1>6. AssignedTold({c})'
  BY <1>3 DEF AssignedTold
<1>7. HoldsMedia'
  BY DEF Here, HoldsMedia, Available, LivePlaylists, Live
<1> QED
  BY <1>4, <1>5, <1>6, <1>7 DEF Here

\* A call that has ended knows nothing, and one that is not at work on an app,
\* an unassignment or a notice may end.
LEMMA EndedKnows ==
    ASSUME IInv, NEW c \in Calls, NEW ok \in BOOLEAN, Ends(c, ok)
    PROVE  Knows(c)' /\ call'[c].at = "done" /\ \A e \in Calls \ {c} : call'[e] = call[e]
<1>1. call'[c].at = "done" /\ \A e \in Calls \ {c} : call'[e] = call[e]
  BY CallTypes DEF Ends, CallDoc
<1> QED
  BY <1>1 DEF Knows, Refreshing

LEMMA ReadsEnds ==
    ASSUME IInv, NEW c \in Calls, Here(c), NEW ok \in BOOLEAN, Ends(c, ok),
           ~Refreshing(call[c]), call[c].at \notin {"emitting", "deleted", "clearing"},
           UNCHANGED <<media, playlist, assigned, shown, conn>>
    PROVE  Here(c)'
BY EndedKnows, Reads

-----------------------------------------------------------------------------
(* Calls start                                                             *)

LEMMA StartFields ==
    ASSUME IInv, NEW c \in Calls, NEW r, Starts(c, r)
    PROVE  /\ call'[c] = r /\ call[c].at = "new" /\ ~Refreshing(call[c])
           /\ \A e \in Calls \ {c} : call'[e] = call[e]
BY CallTypes DEF Starts, Refreshing

LEMMA EditorLoadsHere ==
    ASSUME IInv, NEW c \in Calls, NEW p \in Playlists, NEW S \in Wanted,
           EditorLoads(c, p, S), Here(c)
    PROVE  Here(c)'
<1> DEFINE r == [NewCall EXCEPT !.kind = "edit", !.at = "loaded", !.pl = p,
                                !.version = playlist[p].version, !.wants = S]
<1>1. r.kind = "edit" /\ r.at = "loaded" /\ r.pl = p
  BY DEF NewCall
<1>2. Starts(c, r) /\ Live(p) /\ UNCHANGED <<media, playlist, assigned, shown, conn>>
  BY DEF EditorLoads
<1> HIDE DEF r
<1>3. call'[c] = r /\ call[c].at = "new" /\ ~Refreshing(call[c])
  BY <1>2, StartFields
<1>4. Knows(c)'
  BY <1>1, <1>2, <1>3 DEF Knows, Refreshing, Live
<1> QED
  BY <1>2, <1>3, <1>4, Reads

LEMMA AddLoadsHere ==
    ASSUME IInv, NEW c \in Calls, NEW p \in Playlists, NEW m \in Media,
           AddLoads(c, p, m), Here(c)
    PROVE  Here(c)'
<1> DEFINE wants == MediaOf(playlist[p].items) \union {m}
           r == [NewCall EXCEPT !.kind = "add", !.at = "loaded", !.pl = p, !.wants = wants]
<1>1. r.kind = "add" /\ r.at = "loaded" /\ r.pl = p /\ r.wants = wants
  BY DEF NewCall
<1>2. Starts(c, r) /\ Live(p) /\ UNCHANGED <<media, playlist, assigned, shown, conn>>
  BY DEF AddLoads
<1> HIDE DEF r
<1>3. call'[c] = r /\ call[c].at = "new" /\ ~Refreshing(call[c])
  BY <1>2, StartFields
<1>4. Knows(c)'
  BY <1>1, <1>2, <1>3 DEF Knows, Refreshing, Live
<1> QED
  BY <1>2, <1>3, <1>4, Reads

LEMMA NewPageHere ==
    ASSUME IInv, NEW c \in Calls, NEW S \in Wanted, NEW key \in Keys \union {None},
           NewPage(c, S, key), Here(c)
    PROVE  Here(c)'
<1> DEFINE r == [NewCall EXCEPT !.kind = "create", !.at = "creating", !.wants = S, !.key = key]
<1>1. r.kind = "create" /\ r.at = "creating"
  BY DEF NewCall
<1>2. Starts(c, r) /\ UNCHANGED <<media, playlist, assigned, shown, conn>>
  BY DEF NewPage
<1> HIDE DEF r
<1>3. call'[c] = r /\ call[c].at = "new" /\ ~Refreshing(call[c])
  BY <1>2, StartFields
<1>4. Knows(c)'
  BY <1>1, <1>2, <1>3 DEF Knows, Refreshing
<1> QED
  BY <1>2, <1>3, <1>4, Reads

LEMMA SetToScreenHere ==
    ASSUME IInv, NEW c \in Calls, NEW m \in Media, NEW D \in SUBSET Devices,
           SetToScreen(c, m, D), Here(c)
    PROVE  Here(c)'
<1> DEFINE new == [NewCall EXCEPT !.kind = "screen", !.wants = {m}, !.devs = D,
                                  !.name = NameOf[m]]
           Saved(p) == [new EXCEPT !.at = "saved", !.pl = p]
           fresh == [new EXCEPT !.at = "creating"]
<1>1. fresh.kind = "screen" /\ fresh.at = "creating"
  BY DEF NewCall
<1>2. \A p : Saved(p).kind = "screen" /\ Saved(p).at = "saved" /\ Saved(p).pl = p
  BY DEF NewCall
<1>3. /\ UNCHANGED <<media, playlist, assigned, shown, conn>>
      /\ (\E p \in LivePlaylists : Starts(c, Saved(p))) \/ Starts(c, fresh)
  BY DEF SetToScreen, WrapperOf
<1> HIDE DEF Saved, fresh
<1>4. CASE Starts(c, fresh)
  <2>1. call'[c] = fresh /\ call[c].at = "new" /\ ~Refreshing(call[c])
    BY <1>4, StartFields
  <2>2. Knows(c)'
    BY <1>1, <2>1 DEF Knows, Refreshing
  <2> QED
    BY <1>3, <2>1, <2>2, Reads
<1>5. ASSUME NEW p \in LivePlaylists, Starts(c, Saved(p)) PROVE Here(c)'
  <2>1. call'[c] = Saved(p) /\ call[c].at = "new" /\ ~Refreshing(call[c])
    BY <1>5, StartFields
  <2>2. Live(p)
    BY DEF LivePlaylists
  <2>3. Knows(c)'
    BY <1>2, <1>3, <2>1, <2>2 DEF Knows, Refreshing, Live
  <2> QED
    BY <1>3, <2>1, <2>3, Reads
<1> QED
  BY <1>3, <1>4, <1>5

LEMMA ListPublishesHere ==
    ASSUME IInv, NEW c \in Calls, NEW p \in Playlists, NEW D \in SUBSET Devices,
           ListPublishes(c, p, D), Here(c)
    PROVE  Here(c)'
<1> DEFINE r == [NewCall EXCEPT !.kind = "list", !.at = "saved", !.pl = p, !.devs = D,
                                !.version = playlist[p].version, !.seen = playlist[p].items]
<1>1. r.kind = "list" /\ r.at = "saved" /\ r.pl = p
  BY DEF NewCall
<1>2. Starts(c, r) /\ Live(p) /\ UNCHANGED <<media, playlist, assigned, shown, conn>>
  BY DEF ListPublishes
<1> HIDE DEF r
<1>3. call'[c] = r /\ call[c].at = "new" /\ ~Refreshing(call[c])
  BY <1>2, StartFields
<1>4. Knows(c)'
  BY <1>1, <1>2, <1>3 DEF Knows, Refreshing, Live
<1> QED
  BY <1>2, <1>3, <1>4, Reads

LEMMA SnapshotOf ==
    ASSUME NEW P, NEW p \in P
    PROVE  \E t \in Snapshots(P) : t.pl = p
<1> DEFINE t == [pl |-> p, state |-> playlist[p]]
<1>1. t \in Snapshots(P) /\ t.pl = p
  BY DEF Snapshots
<1> QED
  BY <1>1

LEMMA RemoveMediaHere ==
    ASSUME IInv, NEW c \in Calls, NEW m \in Media, RemoveMedia(c, m), Here(c)
    PROVE  Here(c)'
<1> DEFINE new == [NewCall EXCEPT !.kind = "remove", !.wants = {m}]
           refused == [new EXCEPT !.at = "done"]
           Goes(at) == [new EXCEPT !.todo = Snapshots(Using(m)), !.at = at]
<1>1. /\ refused.at = "done"
      /\ \A at : /\ Goes(at).at = at /\ Goes(at).kind = "remove" /\ Goes(at).wants = {m}
                 /\ Goes(at).todo = Snapshots(Using(m)) /\ Goes(at).devs = {}
  BY DEF NewCall
<1>2. /\ UNCHANGED <<media, playlist, wrote, assigned, shown, conn>>
      /\ \/ Starts(c, refused)
         \/ Starts(c, Goes("removing")) /\ Using(m) = {}
         \/ Starts(c, Goes("detaching"))
  BY DEF RemoveMedia
<1> HIDE DEF refused, Goes
<1>3. \A p \in Using(m) : \E t \in Snapshots(Using(m)) : t.pl = p
  BY SnapshotOf
<1>4. Using(m)' = Using(m)
  BY <1>2 DEF Using, LivePlaylists, Live
<1>5. CASE Starts(c, refused)
  <2>1. call'[c] = refused /\ call[c].at = "new" /\ ~Refreshing(call[c])
    BY <1>5, StartFields
  <2>2. Knows(c)'
    BY <1>1, <2>1 DEF Knows, Refreshing
  <2> QED
    BY <1>2, <2>1, <2>2, Reads
<1>6. ASSUME NEW at \in {"removing", "detaching"}, Starts(c, Goes(at)),
             at = "removing" => Using(m) = {}
      PROVE  Here(c)'
  <2>1. call'[c] = Goes(at) /\ call[c].at = "new" /\ ~Refreshing(call[c])
    BY <1>6, StartFields
  <2>2. \A p \in Using(m) : at # "removing" /\ \E t \in call'[c].todo : t.pl = p
    BY <1>1, <1>3, <1>6, <2>1
  <2>3. Knows(c)'
    BY <1>1, <1>4, <1>6, <2>1, <2>2 DEF Knows, Refreshing
  <2> QED
    BY <1>2, <2>1, <2>3, Reads
<1> QED
  BY <1>2, <1>5, <1>6

LEMMA UpdateAppHere ==
    ASSUME LibraryAssumption, IInv, NEW c \in Calls, NEW a \in Apps, UpdateApp(c, a), Here(c)
    PROVE  Here(c)'
<1> DEFINE item == [media |-> a, revision |-> media[a] + 1]
           r == [NewCall EXCEPT !.kind = "app", !.at = "updated", !.wants = {a},
                                !.items = {item}]
<1>1. /\ r.kind = "app" /\ r.at = "updated" /\ r.wants = {a} /\ r.items = {item}
      /\ r.todo = {} /\ item.media = a /\ item.revision = media[a] + 1
  BY DEF NewCall
<1> HIDE DEF item
<1>2. /\ Starts(c, r) /\ UNCHANGED <<playlist, assigned, shown, conn>>
      /\ media' = [media EXCEPT ![a] = media[a] + 1] /\ media[a] \in 1 .. MaxRevision - 1
  BY DEF UpdateApp, item
<1> HIDE DEF r
<1>3. /\ call'[c] = r /\ call[c].at = "new" /\ ~Refreshing(call[c])
  BY <1>2, StartFields
<1>4. /\ a \in Media /\ media'[a] = media[a] + 1 /\ media'[a] # 0
      /\ \A m \in Media \ {a} : media'[m] = media[m]
  BY <1>2 DEF LibraryAssumption, IInv, TypesOK
<1>5. Knows(c)'
  BY <1>1, <1>3, <1>4 DEF Knows, Refreshing
<1>6. HoldsMedia'
  <2>1. \A p \in LivePlaylists : MediaOf(playlist[p].items) \subseteq Media
    BY DocTypes DEF LivePlaylists, IInv, MediaOf, Items, Item
  <2> QED
    BY <1>2, <1>4, <2>1 DEF Here, HoldsMedia, Available, LivePlaylists, Live
<1>7. AppsRenewed({c})'
  <2>1. \A p \in LivePlaylists : \A i \in playlist[p].items : ~Stale(i) /\ i.media \in Media
    BY <1>3, DocTypes DEF Here, AppsRenewed, Renews, LivePlaylists, IInv, Items, Item
  <2>2. \A p : Renews(c, p, a)'
    BY <1>1, <1>3 DEF Renews, Refreshing
  <2> QED
    BY <1>2, <1>4, <2>1, <2>2 DEF AppsRenewed, Stale, LivePlaylists, Live
<1>8. AssignedLive({c})' /\ AssignedTold({c})'
  BY <1>2, <1>3 DEF Here, AssignedLive, AssignedTold, Clears, Tells, Live
<1> QED
  BY <1>2, <1>5, <1>6, <1>7, <1>8 DEF Here

LEMMA DeletePlaylistHere ==
    ASSUME IInv, NEW c \in Calls, NEW p \in Playlists, DeletePlaylist(c, p), Here(c)
    PROVE  Here(c)'
<1> DEFINE r == [NewCall EXCEPT !.kind = "delete", !.at = "deleted", !.pl = p]
<1>1. r.kind = "delete" /\ r.at = "deleted" /\ r.pl = p
  BY DEF NewCall
<1>2. /\ Starts(c, r) /\ UNCHANGED <<media, assigned, shown, conn>>
      /\ playlist' = [playlist EXCEPT ![p].state = "gone"]
  BY DEF DeletePlaylist
<1> HIDE DEF r
<1>3. call'[c] = r /\ call[c].at = "new" /\ ~Refreshing(call[c])
  BY <1>2, StartFields
<1>4. Knows(c)'
  BY <1>1, <1>3 DEF Knows, Refreshing
<1>5. \A q \in Playlists \ {p} : playlist'[q] = playlist[q]
  BY <1>2 DEF IInv, TypesOK
<1>6. playlist'[p].state = "gone"
  BY <1>2, DocTypes DEF IInv, TypesOK, Doc
<1>7. \A q \in LivePlaylists' : q \in LivePlaylists /\ playlist'[q] = playlist[q]
  BY <1>5, <1>6 DEF LivePlaylists, Live
<1>8. HoldsMedia'
  BY <1>2, <1>7 DEF Here, HoldsMedia, Available
<1>9. AppsRenewed({c})'
  BY <1>2, <1>3, <1>7 DEF Here, AppsRenewed, Renews, Stale
<1>10. AssignedLive({c})'
  <2>1. \A d \in Devices : assigned[d] # None => Live(assigned[d]) /\ assigned[d] \in Playlists
    BY <1>3 DEF Here, AssignedLive, Clears, IInv, TypesOK
  <2> QED
    BY <1>1, <1>2, <1>3, <1>5, <2>1 DEF AssignedLive, Clears, Live
<1>11. AssignedTold({c})'
  BY <1>2, <1>3 DEF Here, AssignedTold, Tells
<1> QED
  BY <1>2, <1>4, <1>8, <1>9, <1>10, <1>11 DEF Here

-----------------------------------------------------------------------------
(* Calls go on                                                             *)

\* A step of a call that writes contents that are up to date.
LEMMA Contents ==
    ASSUME NEW c \in Calls, Here(c), Knows(c)', ~Refreshing(call[c]),
           call[c].at \notin {"emitting", "deleted", "clearing"},
           \A p \in LivePlaylists' :
               \/ p \in LivePlaylists /\ playlist'[p].items = playlist[p].items
               \/ \E S : playlist'[p].items = Mapped(S) /\ Available(S),
           \A p \in Playlists : Live(p) => Live(p)',
           \A d \in Devices : assigned[d] \in Playlists \union {None},
           UNCHANGED <<media, assigned, shown, conn>>
    PROVE  Here(c)'
<1>1. \A p \in LivePlaylists : \A i \in playlist[p].items : ~Stale(i)
  BY DEF Here, AppsRenewed, Renews
<1>2. \A S : \A i \in Mapped(S) : ~Stale(i)
  BY DEF Mapped, Stale
<1>3. \A i : Stale(i)' <=> Stale(i)
  BY DEF Stale
<1>4. AppsRenewed({c})'
  BY <1>1, <1>2, <1>3 DEF AppsRenewed
<1>5. \A S : Available(S) => Available(MediaOf(Mapped(S)))
  BY DEF Available, MediaOf, Mapped
<1>6. HoldsMedia'
  BY <1>5 DEF Here, HoldsMedia, Available
<1>7. AssignedLive({c})'
  BY DEF Here, AssignedLive, Clears
<1>8. AssignedTold({c})'
  BY DEF Here, AssignedTold, Tells
<1> QED
  BY <1>4, <1>6, <1>7, <1>8 DEF Here

LEMMA AssignedTypes ==
    ASSUME IInv
    PROVE  \A d \in Devices : assigned[d] \in Playlists \union {None}
BY DEF IInv, TypesOK

\* An update of the acting call.
LEMMA CallIs ==
    ASSUME IInv, NEW c \in Calls, NEW r, call' = [call EXCEPT ![c] = r]
    PROVE  call'[c] = r /\ \A e \in Calls \ {c} : call'[e] = call[e]
BY CallTypes

LEMMA SaveReadsHere ==
    ASSUME IInv, NEW c \in Calls, SaveReads(c), Here(c)
    PROVE  Here(c)'
<1> DEFINE s == call[c]
           r == [s EXCEPT !.at = "mapped", !.items = Mapped(s.wants)]
<1>1. /\ s.at = "loaded" /\ s.kind \in {"edit", "add"} /\ ~Refreshing(s)
      /\ UNCHANGED <<media, playlist, assigned, shown, conn>>
  BY DEF SaveReads, At, Refreshing
<1>2. CASE Available(s.wants)
  <2>1. call' = [call EXCEPT ![c] = r]
    BY <1>2, CallTypes DEF SaveReads
  <2>2. Mapped(s.wants) \in Items
    BY <1>2, CallTypes, MappedItems DEF IInv
  <2>3. Is(r, s, "mapped", s.pl, s.version, Mapped(s.wants), s.seen, s.devs, s.todo)
    BY <2>2, CallTypes, GoItems, StepNames
  <2> HIDE DEF r
  <2>4. call'[c] = r
    BY <2>1, CallIs
  <2>5. \A S : Mapped(S)' = Mapped(S) /\ (Available(S)' <=> Available(S))
    BY <1>1 DEF Mapped, Available
  <2>6. Live(s.pl) /\ (s.kind = "add" => MediaOf(playlist[s.pl].items) \subseteq s.wants)
    BY <1>1 DEF Here, Knows
  <2>7. Knows(c)'
    BY <1>1, <1>2, <2>3, <2>4, <2>5, <2>6 DEF Knows, Refreshing, Live, Is
  <2> QED
    BY <1>1, <2>7, Reads
<1>3. CASE ~Available(s.wants)
  BY <1>1, <1>3, ReadsEnds DEF SaveReads
<1> QED
  BY <1>2, <1>3

LEMMA SaveWritesHere ==
    ASSUME IInv, NEW c \in Calls, SaveWrites(c), Here(c)
    PROVE  Here(c)'
<1> DEFINE s == call[c]
           p == s.pl
           Saved(v) == [s EXCEPT !.at = "saved", !.seen = s.items, !.version = v]
<1>1. /\ s.at = "mapped" /\ s.kind \in {"edit", "add"} /\ p \in Playlists /\ ~Refreshing(s)
      /\ UNCHANGED <<media, assigned, shown, conn>>
  BY CallTypes DEF SaveWrites, At, Shape, Refreshing
<1>2. s.items = Mapped(s.wants) /\ Available(s.wants) /\ Live(p)
  BY <1>1 DEF Here, Knows
<1>3. ASSUME NEW v, call' = [call EXCEPT ![c] = Saved(v)], playlist'[p].state = "live"
      PROVE  Knows(c)'
  <2>1. Saved(v).at = "saved" /\ Saved(v).pl = p /\ Saved(v).kind = s.kind
    BY CallTypes DEF CallDoc
  <2> HIDE DEF Saved
  <2>2. call'[c] = Saved(v)
    BY <1>3, CallIs
  <2> QED
    BY <1>1, <1>3, <2>1, <2>2 DEF Knows, Refreshing, Live
<1>4. CASE Matches(p, s.version) /\ playlist[p].items # s.items
  <2>1. call' = [call EXCEPT ![c] = Saved(playlist[p].version + 1)] /\ Writes(p, s.items, 0)
    BY <1>4, CallTypes DEF SaveWrites
  <2> DEFINE doc == [playlist[p] EXCEPT !.version = playlist[p].version + 1,
                                        !.items = s.items, !.published = 0]
  <2>2. doc.items = s.items /\ doc.state = "live"
    BY <1>1, <1>2, DocTypes DEF Live, IInv, Doc
  <2>3. playlist' = [playlist EXCEPT ![p] = doc]
    BY <2>1 DEF Writes, IInv, TypesOK
  <2> HIDE DEF doc
  <2>4. playlist'[p] = doc /\ \A q \in Playlists \ {p} : playlist'[q] = playlist[q]
    BY <1>1, <2>3 DEF IInv, TypesOK
  <2>5. playlist'[p].state = "live" /\ \A q \in Playlists : Live(q) => Live(q)'
    BY <2>2, <2>4 DEF Live
  <2>6. \A q \in LivePlaylists' :
            \/ q \in LivePlaylists /\ playlist'[q].items = playlist[q].items
            \/ \E S : playlist'[q].items = Mapped(S) /\ Available(S)
    BY <1>2, <2>2, <2>4 DEF LivePlaylists, Live
  <2>7. Knows(c)'
    BY <1>3, <2>1, <2>5
  <2> QED
    BY <1>1, <2>5, <2>6, <2>7, Contents, AssignedTypes
<1>5. CASE Matches(p, s.version) /\ playlist[p].items = s.items
  <2>1. UNCHANGED playlist /\ call' = [call EXCEPT ![c] = Saved(playlist[p].version)]
    BY <1>5, CallTypes DEF SaveWrites
  <2>2. Knows(c)'
    BY <1>2, <1>3, <2>1 DEF Live
  <2> QED
    BY <1>1, <2>1, <2>2, Reads
<1>6. CASE ~Matches(p, s.version)
  <2>1. Ends(c, FALSE) /\ UNCHANGED playlist
    BY <1>6 DEF SaveWrites
  <2> QED
    BY <1>1, <2>1, ReadsEnds
<1> QED
  BY <1>4, <1>5, <1>6

LEMMA SaveEndsHere ==
    ASSUME IInv, NEW c \in Calls, SaveEnds(c), Here(c)
    PROVE  Here(c)'
<1>1. /\ Ends(c, TRUE) /\ call[c].at = "saved" /\ ~Refreshing(call[c])
      /\ UNCHANGED <<media, playlist, assigned, shown, conn>>
  BY DEF SaveEnds, At, Refreshing
<1> QED
  BY <1>1, ReadsEnds

LEMMA CreateReadsHere ==
    ASSUME IInv, NEW c \in Calls, CreateReads(c), Here(c)
    PROVE  Here(c)'
<1> DEFINE s == call[c]
           r == [s EXCEPT !.at = "created", !.items = Mapped(s.wants)]
<1>1. /\ s.at = "creating" /\ s.kind \in {"create", "screen"} /\ ~Refreshing(s)
      /\ UNCHANGED <<media, playlist, assigned, shown, conn>>
  BY DEF CreateReads, At, Refreshing
<1>2. CASE Created(s.key) # {} \/ ~Available(s.wants)
  <2>1. \E ok \in BOOLEAN : Ends(c, ok)
    BY <1>2 DEF CreateReads
  <2> QED
    BY <1>1, <2>1, ReadsEnds
<1>3. CASE Created(s.key) = {} /\ Available(s.wants)
  <2>1. call' = [call EXCEPT ![c] = r]
    BY <1>3, CallTypes DEF CreateReads
  <2>2. Mapped(s.wants) \in Items
    BY <1>3, CallTypes, MappedItems DEF IInv
  <2>3. Is(r, s, "created", s.pl, s.version, Mapped(s.wants), s.seen, s.devs, s.todo)
    BY <2>2, CallTypes, GoItems, StepNames
  <2> HIDE DEF r
  <2>4. call'[c] = r
    BY <2>1, CallIs
  <2>5. \A S : Mapped(S)' = Mapped(S) /\ (Available(S)' <=> Available(S))
    BY <1>1 DEF Mapped, Available
  <2>6. Knows(c)'
    BY <1>1, <1>3, <2>3, <2>4, <2>5 DEF Knows, Refreshing, Is
  <2> QED
    BY <1>1, <2>6, Reads
<1> QED
  BY <1>2, <1>3

LEMMA CreateWritesHere ==
    ASSUME IInv, NEW c \in Calls, CreateWrites(c), Here(c)
    PROVE  Here(c)'
<1> DEFINE s == call[c]
           Saved(p) == [s EXCEPT !.at = "saved", !.pl = p]
           doc == [state |-> "live", version |-> 1, items |-> s.items, published |-> 0,
                   wraps |-> s.name, key |-> s.key]
<1>1. /\ s.at = "created" /\ s.kind \in {"create", "screen"} /\ ~Refreshing(s)
      /\ UNCHANGED <<media, assigned, shown, conn>>
  BY DEF CreateWrites, At, Refreshing
<1>2. s.items = Mapped(s.wants) /\ Available(s.wants)
  BY <1>1 DEF Here, Knows
<1>3. ASSUME UNCHANGED playlist, NEW ok \in BOOLEAN, Ends(c, ok) PROVE Here(c)'
  BY <1>1, <1>3, ReadsEnds
<1>4. ASSUME NEW p \in Playlists, playlist[p].state = "new",
             playlist' = [playlist EXCEPT ![p] = doc],
             Ends(c, TRUE) \/ call' = [call EXCEPT ![c].at = "saved", ![c].pl = p]
      PROVE  Here(c)'
  <2>1. doc.items = s.items /\ doc.state = "live"
    OBVIOUS
  <2> HIDE DEF doc
  <2>2. playlist'[p] = doc /\ \A q \in Playlists \ {p} : playlist'[q] = playlist[q]
    BY <1>4 DEF IInv, TypesOK
  <2>3. Live(p)' /\ \A q \in Playlists : Live(q) => Live(q)'
    BY <2>1, <2>2 DEF Live
  <2>4. \A q \in LivePlaylists' :
            \/ q \in LivePlaylists /\ playlist'[q].items = playlist[q].items
            \/ \E S : playlist'[q].items = Mapped(S) /\ Available(S)
    BY <1>2, <2>1, <2>2 DEF LivePlaylists, Live
  <2>5. Knows(c)'
    <3>1. CASE Ends(c, TRUE)
      BY <3>1, EndedKnows
    <3>2. CASE call' = [call EXCEPT ![c].at = "saved", ![c].pl = p]
      <4>1. Saved(p).at = "saved" /\ Saved(p).pl = p /\ Saved(p).kind = s.kind
        BY CallTypes DEF CallDoc
      <4>2. call' = [call EXCEPT ![c] = Saved(p)]
        BY <3>2, CallTypes
      <4> HIDE DEF Saved
      <4>3. call'[c] = Saved(p)
        BY <4>2, CallIs
      <4> QED
        BY <1>1, <2>3, <4>1, <4>3 DEF Knows, Refreshing
    <3> QED
      BY <1>4, <3>1, <3>2
  <2> QED
    BY <1>1, <2>3, <2>4, <2>5, Contents, AssignedTypes
<1> QED
  BY <1>3, <1>4 DEF CreateWrites

LEMMA PublishReadsHere ==
    ASSUME IInv, NEW c \in Calls, NEW D \in SUBSET Devices, PublishReads(c, D), Here(c)
    PROVE  Here(c)'
<1> DEFINE s == call[c]
           p == s.pl
           r == [s EXCEPT !.at = "marking", !.items = playlist[p].items,
                          !.version = playlist[p].version, !.devs = D]
<1>1. /\ s.at = "saved" /\ s.kind \in {"edit", "screen", "list"} /\ ~Refreshing(s)
      /\ UNCHANGED <<media, playlist, assigned, shown, conn>>
  BY DEF PublishReads, At, Refreshing
<1>2. CASE Matches(p, s.version)
  <2>1. call' = [call EXCEPT ![c] = r]
    BY <1>2, CallTypes DEF PublishReads
  <2>2. r.at = "marking" /\ r.kind = s.kind /\ r.pl = p
    BY CallTypes DEF CallDoc
  <2> HIDE DEF r
  <2>3. call'[c] = r
    BY <2>1, CallIs
  <2>4. Knows(c)'
    BY <1>1, <1>2, <2>2, <2>3 DEF Knows, Refreshing, Matches, Live
  <2> QED
    BY <1>1, <2>4, Reads
<1>3. CASE ~Matches(p, s.version)
  BY <1>1, <1>3, ReadsEnds DEF PublishReads
<1> QED
  BY <1>2, <1>3

LEMMA PublishMarksHere ==
    ASSUME IInv, NEW c \in Calls, PublishMarks(c), Here(c)
    PROVE  Here(c)'
<1> DEFINE s == call[c]
           p == s.pl
           r == [s EXCEPT !.at = "assigning"]
           doc == [playlist[p] EXCEPT !.published = s.version]
<1>1. /\ s.at = "marking" /\ s.kind \in {"edit", "screen", "list"} /\ ~Refreshing(s)
      /\ p \in Playlists /\ UNCHANGED <<media, assigned, shown, conn>>
  BY CallTypes DEF PublishMarks, At, Refreshing, Shape
<1>2. CASE Matches(p, s.version)
  <2>1. call' = [call EXCEPT ![c] = r] /\ playlist' = [playlist EXCEPT ![p] = doc]
    BY <1>2, CallTypes DEF PublishMarks, IInv, TypesOK
  <2>2. r.at = "assigning" /\ r.kind = s.kind /\ r.pl = p
    BY CallTypes DEF CallDoc
  <2>3. doc.items = playlist[p].items /\ doc.state = playlist[p].state
    BY <1>1, DocTypes DEF IInv, Doc
  <2> HIDE DEF r, doc
  <2>4. /\ call'[c] = r
        /\ playlist'[p] = doc /\ \A q \in Playlists \ {p} : playlist'[q] = playlist[q]
    BY <1>1, <2>1, CallIs DEF IInv, TypesOK
  <2>5. /\ \A q \in Playlists : Live(q) <=> Live(q)'
        /\ \A q \in Playlists : playlist'[q].items = playlist[q].items
    BY <2>3, <2>4 DEF Live
  <2>6. Knows(c)'
    BY <1>1, <1>2, <2>2, <2>4, <2>5 DEF Knows, Refreshing, Matches
  <2>7. \A q \in LivePlaylists' : q \in LivePlaylists /\ playlist'[q].items = playlist[q].items
    BY <2>5 DEF LivePlaylists
  <2> QED
    BY <1>1, <2>5, <2>6, <2>7, Contents, AssignedTypes
<1>3. CASE ~Matches(p, s.version)
  <2>1. Ends(c, FALSE) /\ UNCHANGED playlist
    BY <1>3 DEF PublishMarks
  <2> QED
    BY <1>1, <2>1, ReadsEnds
<1> QED
  BY <1>2, <1>3

LEMMA PublishAssignsHere ==
    ASSUME LibraryAssumption, IInv, NEW c \in Calls, PublishAssigns(c), Here(c)
    PROVE  Here(c)'
<1> DEFINE s == call[c]
           r == [s EXCEPT !.at = "emitting"]
<1>1. /\ s.at = "assigning" /\ s.kind \in {"edit", "screen", "list"} /\ ~Refreshing(s)
      /\ call' = [call EXCEPT ![c].at = "emitting"] /\ s.pl \in Playlists
      /\ UNCHANGED <<media, playlist, shown, conn>>
  BY CallTypes DEF PublishAssigns, At, Refreshing, Shape
<1>2. \A d \in Devices : assigned'[d] = IF d \in s.devs THEN s.pl ELSE assigned[d]
  BY DEF PublishAssigns
<1>3. Is(r, s, "emitting", s.pl, s.version, s.items, s.seen, s.devs, s.todo)
  BY CallTypes, GoAt, StepNames
<1>4. call' = [call EXCEPT ![c] = r]
  BY <1>1, CallTypes
<1> HIDE DEF r
<1>5. call'[c] = r
  BY <1>4, CallIs
<1>6. s.devs \subseteq Devices /\ Live(s.pl)
  BY <1>1, CallTypes DEF Here, Knows
<1>7. Knows(c)'
  BY <1>1, <1>2, <1>3, <1>5, <1>6 DEF Knows, Refreshing, Is
<1>8. AppsRenewed({c})' /\ HoldsMedia'
  BY <1>1 DEF Here, AppsRenewed, Renews, Stale, HoldsMedia, Available, LivePlaylists, Live
<1>9. AssignedLive({c})'
  <2>1. \A d \in Devices : assigned[d] # None => Live(assigned[d])
    BY <1>1 DEF Here, AssignedLive, Clears
  <2> QED
    BY <1>1, <1>2, <1>6, <2>1 DEF AssignedLive, Live
<1>10. AssignedTold({c})'
  <2>1. \A d \in Devices : conn[d].at = "on" /\ assigned[d] # None => shown[d].pl = assigned[d]
    BY <1>1 DEF Here, AssignedTold, Tells
  <2>2. \A d \in s.devs : Tells(c, d)'
    BY <1>3, <1>5 DEF Tells, Is
  <2> QED
    BY <1>1, <1>2, <2>1, <2>2 DEF AssignedTold
<1> QED
  BY <1>1, <1>7, <1>8, <1>9, <1>10 DEF Here

LEMMA DeleteFindsHere ==
    ASSUME IInv, NEW c \in Calls, DeleteFinds(c), Here(c)
    PROVE  Here(c)'
<1> DEFINE s == call[c]
           devs == {d \in Devices : assigned[d] = s.pl}
           r == [s EXCEPT !.at = "clearing", !.devs = devs]
<1>1. /\ s.at = "deleted" /\ s.kind = "delete" /\ ~Refreshing(s)
      /\ UNCHANGED <<media, playlist, assigned, shown, conn>>
  BY DEF DeleteFinds, At, Refreshing
<1>2. AppsRenewed({c})' /\ HoldsMedia'
  BY <1>1 DEF Here, AppsRenewed, Renews, Stale, HoldsMedia, Available, LivePlaylists, Live
<1>3. AssignedTold({c})'
  BY <1>1 DEF Here, AssignedTold, Tells
<1>4. \A d \in Devices : assigned[d] # None => Live(assigned[d]) \/ s.pl = assigned[d]
  BY <1>1 DEF Here, AssignedLive, Clears
<1>5. CASE devs = {}
  <2>1. Ends(c, TRUE)
    BY <1>5 DEF DeleteFinds
  <2>2. Knows(c)'
    BY <2>1, EndedKnows
  <2>3. AssignedLive({c})'
    BY <1>1, <1>4, <1>5 DEF AssignedLive, Live
  <2> QED
    BY <1>1, <1>2, <1>3, <2>2, <2>3 DEF Here
<1>6. CASE devs # {}
  <2>1. Is(r, s, "clearing", s.pl, s.version, s.items, s.seen, devs, s.todo)
    BY CallTypes, GoDevices, StepNames
  <2>2. call' = [call EXCEPT ![c] = r]
    BY <1>6, CallTypes DEF DeleteFinds
  <2> HIDE DEF r
  <2>3. call'[c] = r
    BY <2>2, CallIs
  <2>4. Knows(c)'
    BY <1>1, <2>1, <2>3 DEF Knows, Refreshing, Is
  <2>5. AssignedLive({c})'
    BY <1>1, <1>4, <2>1, <2>3 DEF AssignedLive, Clears, Live, Is
  <2> QED
    BY <1>1, <1>2, <1>3, <2>4, <2>5 DEF Here
<1> QED
  BY <1>5, <1>6

LEMMA DeleteClearsHere ==
    ASSUME LibraryAssumption, IInv, NEW c \in Calls, DeleteClears(c), Here(c)
    PROVE  Here(c)'
<1> DEFINE s == call[c]
           r == [s EXCEPT !.at = "emitting", !.pl = None, !.version = 0, !.items = {}]
<1>1. /\ s.at = "clearing" /\ s.kind = "delete" /\ ~Refreshing(s) /\ s.devs \subseteq Devices
      /\ UNCHANGED <<media, playlist, shown, conn>>
  BY CallTypes DEF DeleteClears, At, Refreshing
<1>2. \A d \in Devices : assigned'[d] = IF assigned[d] = s.pl THEN None ELSE assigned[d]
  BY DEF DeleteClears, Unassigned
<1>3. Is(r, s, "emitting", None, 0, {}, s.seen, s.devs, s.todo)
  BY CallTypes, GoNotice
<1>4. call' = [call EXCEPT ![c] = r]
  BY CallTypes DEF DeleteClears
<1> HIDE DEF r
<1>5. call'[c] = r
  BY <1>4, CallIs
<1>6. \A d \in s.devs : assigned[d] = s.pl
  BY <1>1 DEF Here, Knows
<1>7. Knows(c)'
  BY <1>1, <1>2, <1>3, <1>5, <1>6 DEF Knows, Refreshing, Is
<1>8. AppsRenewed({c})' /\ HoldsMedia'
  BY <1>1 DEF Here, AppsRenewed, Renews, Stale, HoldsMedia, Available, LivePlaylists, Live
<1>9. AssignedLive({c})'
  BY <1>1, <1>2 DEF Here, AssignedLive, Clears, Live
<1>10. AssignedTold({c})'
  BY <1>1, <1>2 DEF Here, AssignedTold, Tells
<1> QED
  BY <1>1, <1>7, <1>8, <1>9, <1>10 DEF Here

LEMMA RemoveFindsHere ==
    ASSUME IInv, NEW c \in Calls, RemoveFinds(c), Here(c)
    PROVE  Here(c)'
<1> DEFINE s == call[c]
           devs == {d \in Devices : \E t \in s.todo : assigned[d] = t.pl}
           r == [s EXCEPT !.at = "purging", !.devs = devs]
<1>1. /\ s.at = "detaching" /\ s.kind = "remove" /\ ~Refreshing(s)
      /\ UNCHANGED <<media, playlist, assigned, shown, conn>>
  BY DEF RemoveFinds, At, Refreshing
<1>2. Is(r, s, "purging", s.pl, s.version, s.items, s.seen, devs, s.todo)
  BY CallTypes, GoDevices, StepNames
<1>3. call' = [call EXCEPT ![c] = r]
  BY CallTypes DEF RemoveFinds
<1> HIDE DEF r
<1>4. call'[c] = r
  BY <1>3, CallIs
<1>5. \E m \in Media : s.wants = {m} /\ \A p \in Using(m) : \E t \in s.todo : t.pl = p
  BY <1>1 DEF Here, Knows
<1>6. \A m : Using(m)' = Using(m)
  BY <1>1 DEF Using, LivePlaylists, Live
<1>7. Knows(c)'
  BY <1>1, <1>2, <1>4, <1>5, <1>6 DEF Knows, Refreshing, Is
<1> QED
  BY <1>1, <1>7, Reads

LEMMA RemovePurgesHere ==
    ASSUME IInv, NEW c \in Calls, RemovePurges(c), Here(c)
    PROVE  Here(c)'
<1> DEFINE s == call[c]
           wrappers == {t.pl : t \in s.todo}
           r == [s EXCEPT !.at = "removing"]
<1>1. /\ s.at = "purging" /\ s.kind = "remove" /\ ~Refreshing(s) /\ s.devs \subseteq Devices
      /\ UNCHANGED <<media, shown, conn>>
  BY CallTypes DEF RemovePurges, At, Refreshing
<1>2. /\ playlist' = [p \in Playlists |-> IF p \in wrappers
                        THEN [playlist[p] EXCEPT !.state = "gone"] ELSE playlist[p]]
      /\ \A d \in Devices : assigned'[d] = IF assigned[d] \in wrappers THEN None ELSE assigned[d]
  BY DEF RemovePurges, Unassigned
<1>3. /\ \A p \in LivePlaylists' : p \in LivePlaylists /\ p \notin wrappers
                                   /\ playlist'[p] = playlist[p]
      /\ \A p \in LivePlaylists : p \notin wrappers => p \in LivePlaylists'
  <2>1. \A p \in Playlists : p \in wrappers => playlist'[p].state = "gone"
    BY <1>2, DocTypes DEF IInv, Doc
  <2>2. \A p \in Playlists : p \notin wrappers => playlist'[p] = playlist[p]
    BY <1>2
  <2> QED
    BY <2>1, <2>2 DEF LivePlaylists, Live
<1>4. Is(r, s, "removing", s.pl, s.version, s.items, s.seen, s.devs, s.todo)
  BY CallTypes, GoAt, StepNames
<1>5. call' = [call EXCEPT ![c] = r]
  BY CallTypes DEF RemovePurges
<1> HIDE DEF r
<1>6. call'[c] = r
  BY <1>5, CallIs
<1>7. /\ \E m \in Media : s.wants = {m} /\ \A p \in Using(m) : \E t \in s.todo : t.pl = p
      /\ \A d \in s.devs : \E t \in s.todo : assigned[d] = t.pl
  BY <1>1 DEF Here, Knows
<1>8. PICK m \in Media : s.wants = {m} /\ \A p \in Using(m) : p \in wrappers
  BY <1>7
<1>9. \A d \in s.devs : assigned[d] \in wrappers
  BY <1>7
<1> HIDE DEF wrappers
<1>10. Using(m)' = {}
  BY <1>3, <1>8 DEF Using
<1>11. Knows(c)'
  BY <1>1, <1>2, <1>4, <1>6, <1>8, <1>9, <1>10 DEF Knows, Refreshing, Is
<1>12. AppsRenewed({c})' /\ HoldsMedia'
  BY <1>1, <1>3 DEF Here, AppsRenewed, Renews, Stale, HoldsMedia, Available
<1>13. AssignedLive({c})'
  <2>1. \A d \in Devices : assigned[d] # None => assigned[d] \in LivePlaylists
    BY <1>1, AssignedTypes DEF Here, AssignedLive, Clears, LivePlaylists
  <2>2. \A d \in Devices : assigned'[d] # None => assigned'[d] \in LivePlaylists'
    BY <1>2, <1>3, <2>1
  <2> QED
    BY <2>2 DEF AssignedLive, LivePlaylists, Live
<1>14. AssignedTold({c})'
  BY <1>1, <1>2 DEF Here, AssignedTold, Tells
<1> QED
  BY <1>1, <1>11, <1>12, <1>13, <1>14 DEF Here

LEMMA RemoveDeletesHere ==
    ASSUME IInv, NEW c \in Calls, RemoveDeletes(c), Here(c)
    PROVE  Here(c)'
<1> DEFINE s == call[c]
           r == [s EXCEPT !.at = "emitting"]
           chosen == CHOOSE m \in Media : s.wants = {m}
<1>1. /\ s.at = "removing" /\ s.kind = "remove" /\ s.pl = None /\ ~Refreshing(s)
      /\ UNCHANGED <<playlist, assigned, shown, conn>>
      /\ media' = [media EXCEPT ![chosen] = 0]
  BY CallTypes DEF RemoveDeletes, At, Refreshing, Shape
<1>2. PICK m \in Media : s.wants = {m} /\ Using(m) = {}
  BY <1>1 DEF Here, Knows
<1>3. chosen = m
  <2>1. chosen \in Media /\ s.wants = {chosen}
    BY <1>2
  <2> QED
    BY <1>2, <2>1
<1> HIDE DEF chosen
<1>4. media'[m] = 0 /\ \A n \in Media \ {m} : media'[n] = media[n]
  BY <1>1, <1>3 DEF IInv, TypesOK
<1>5. \A p \in LivePlaylists : \A i \in playlist[p].items : i.media # m /\ i.media \in Media
  <2>1. \A p \in LivePlaylists : m \notin MediaOf(playlist[p].items)
    BY <1>2 DEF Using
  <2>2. \A p \in LivePlaylists : \A i \in playlist[p].items : i.media \in Media
    BY DocTypes DEF LivePlaylists, IInv, Items, Item
  <2> QED
    BY <2>1, <2>2 DEF MediaOf
<1>6. HoldsMedia'
  BY <1>1, <1>4, <1>5 DEF Here, HoldsMedia, Available, MediaOf, LivePlaylists, Live
<1>7. AppsRenewed({c})'
  <2>1. \A p \in LivePlaylists : \A i \in playlist[p].items : ~Stale(i)
    BY <1>1 DEF Here, AppsRenewed, Renews
  <2> QED
    BY <1>1, <1>4, <1>5, <2>1 DEF AppsRenewed, Stale, LivePlaylists, Live
<1>8. AssignedLive({c})' /\ AssignedTold({c})'
  BY <1>1 DEF Here, AssignedLive, AssignedTold, Clears, Tells, Live
<1>9. Knows(c)'
  <2>1. ASSUME NEW ok \in BOOLEAN, Ends(c, ok) PROVE Knows(c)'
    BY <2>1, EndedKnows
  <2>2. CASE call' = [call EXCEPT ![c].at = "emitting"]
    <3>1. Is(r, s, "emitting", s.pl, s.version, s.items, s.seen, s.devs, s.todo)
      BY CallTypes, GoAt, StepNames
    <3>2. call' = [call EXCEPT ![c] = r]
      BY <2>2, CallTypes
    <3> HIDE DEF r
    <3>3. call'[c] = r
      BY <3>2, CallIs
    <3>4. \A d \in s.devs : assigned[d] = None
      BY <1>1 DEF Here, Knows
    <3> QED
      BY <1>1, <3>1, <3>3, <3>4 DEF Knows, Refreshing, Is
  <2> QED
    BY <2>1, <2>2 DEF RemoveDeletes
<1> QED
  BY <1>1, <1>6, <1>7, <1>8, <1>9 DEF Here

\* What the update of an app knows, for its steps.
LEMMA AppKnows ==
    ASSUME IInv, NEW c \in Calls, Here(c), Refreshing(call[c])
    PROVE  \E a \in Media :
             /\ call[c].wants = {a}
             /\ \A i \in call[c].items : i.media = a => i.revision = media[a]
             /\ \A t \in call[c].todo : Live(t.pl) /\ t.state = playlist[t.pl] /\ t.pl \in Playlists
             /\ \A p \in LivePlaylists : \A i \in playlist[p].items :
                  Stale(i) => /\ i.media = a
                              /\ call[c].at = "updated" \/ \E t \in call[c].todo : t.pl = p
<1>1. \A t \in call[c].todo : t.pl \in Playlists
  BY CallTypes DEF Snapshot
<1> QED
  BY <1>1 DEF Here, Knows, AppsRenewed, Renews

LEMMA RefreshReadsHere ==
    ASSUME IInv, NEW c \in Calls, RefreshReads(c), Here(c)
    PROVE  Here(c)'
<1> DEFINE s == call[c]
<1>1. /\ s.at = "updated" /\ s.kind = "app" /\ Refreshing(s)
      /\ UNCHANGED <<media, playlist, assigned, shown, conn>>
  BY DEF RefreshReads, At, Refreshing
<1>2. PICK a \in Media :
         /\ s.wants = {a} /\ \A i \in s.items : i.media = a => i.revision = media[a]
         /\ \A p \in LivePlaylists : \A i \in playlist[p].items : Stale(i) => i.media = a
  BY <1>1, AppKnows
<1> DEFINE todo == Snapshots(Using(a))
           r == [s EXCEPT !.at = "next", !.todo = todo]
<1>3. call' = [call EXCEPT ![c] = r]
  BY <1>2, CallTypes DEF RefreshReads
<1>4. /\ todo \in SUBSET Snapshot
      /\ \A t \in todo : t.pl \in Using(a) /\ t.state = playlist[t.pl]
  BY SnapshotDocs, UsingIsLive DEF IInv
<1>5. \A p \in Using(a) : \E t \in todo : t.pl = p
  BY SnapshotOf
<1> HIDE DEF todo
<1>6. Is(r, s, "next", s.pl, s.version, s.items, s.seen, s.devs, todo)
  BY <1>4, CallTypes, GoTodo
<1> HIDE DEF r
<1>7. call'[c] = r
  BY <1>3, CallIs
<1>8. \A t \in todo : Live(t.pl)
  BY <1>4, UsingIsLive
<1>9. Knows(c)'
  BY <1>1, <1>2, <1>4, <1>6, <1>7, <1>8 DEF Knows, Refreshing, Live, Is
<1>10. AppsRenewed({c})'
  <2>1. \A p \in LivePlaylists : \A i \in playlist[p].items : Stale(i) => p \in Using(a) /\ i.media = a
    BY <1>2 DEF Using, MediaOf
  <2>2. \A p \in LivePlaylists : \A i \in playlist[p].items : Stale(i) => Renews(c, p, i.media)'
    BY <1>1, <1>2, <1>5, <1>6, <1>7, <2>1 DEF Renews, Refreshing, Is
  <2> QED
    BY <1>1, <2>2 DEF AppsRenewed, Stale, LivePlaylists, Live
<1>11. HoldsMedia'
  BY <1>1 DEF Here, HoldsMedia, Available, LivePlaylists, Live
<1>12. AssignedLive({c})' /\ AssignedTold({c})'
  BY <1>1 DEF Here, AssignedLive, AssignedTold, Clears, Tells, Live
<1> QED
  BY <1>1, <1>9, <1>10, <1>11, <1>12 DEF Here

LEMMA RefreshFindsHere ==
    ASSUME IInv, NEW c \in Calls, RefreshFinds(c), Here(c)
    PROVE  Here(c)'
<1> DEFINE s == call[c]
<1>1. /\ s.at = "next" /\ s.kind = "app" /\ Refreshing(s)
      /\ UNCHANGED <<media, playlist, assigned, shown, conn>>
  BY DEF RefreshFinds, At, Refreshing
<1>2. PICK a \in Media :
         /\ s.wants = {a} /\ \A i \in s.items : i.media = a => i.revision = media[a]
         /\ \A t \in s.todo : Live(t.pl) /\ t.state = playlist[t.pl] /\ t.pl \in Playlists
         /\ \A p \in LivePlaylists : \A i \in playlist[p].items :
              Stale(i) => i.media = a /\ \E t \in s.todo : t.pl = p
  BY <1>1, AppKnows
<1>3. HoldsMedia'
  BY <1>1 DEF Here, HoldsMedia, Available, LivePlaylists, Live
<1>4. AssignedLive({c})' /\ AssignedTold({c})'
  BY <1>1 DEF Here, AssignedLive, AssignedTold, Clears, Tells, Live
<1>5. CASE s.todo = {} /\ Ends(c, TRUE)
  <2>1. Knows(c)'
    BY <1>5, EndedKnows
  <2>2. AppsRenewed({c})'
    BY <1>1, <1>2, <1>5 DEF AppsRenewed, Stale, LivePlaylists, Live
  <2> QED
    BY <1>1, <1>3, <1>4, <2>1, <2>2 DEF Here
<1>6. ASSUME NEW t \in s.todo,
             call' = [call EXCEPT ![c].at = "refreshing", ![c].pl = t.pl,
                        ![c].devs = {d \in Devices : assigned[d] = t.pl}]
      PROVE  Here(c)'
  <2> DEFINE devs == {d \in Devices : assigned[d] = t.pl}
             r == [s EXCEPT !.at = "refreshing", !.pl = t.pl, !.devs = devs]
  <2>1. Is(r, s, "refreshing", t.pl, s.version, s.items, s.seen, devs, s.todo)
    BY <1>2, CallTypes, GoRefreshing
  <2>2. call' = [call EXCEPT ![c] = r]
    BY <1>6, CallTypes
  <2> HIDE DEF r
  <2>3. call'[c] = r
    BY <2>2, CallIs
  <2>4. Knows(c)'
    BY <1>1, <1>2, <2>1, <2>3 DEF Knows, Refreshing, Live, Is
  <2>5. AppsRenewed({c})'
    <3>1. \A p \in LivePlaylists : \A i \in playlist[p].items : Stale(i) => Renews(c, p, i.media)'
      BY <1>1, <1>2, <2>1, <2>3 DEF Renews, Refreshing, Is
    <3> QED
      BY <1>1, <3>1 DEF AppsRenewed, Stale, LivePlaylists, Live
  <2> QED
    BY <1>1, <1>3, <1>4, <2>4, <2>5 DEF Here
<1> QED
  BY <1>5, <1>6 DEF RefreshFinds

LEMMA RefreshWritesHere ==
    ASSUME IInv, NEW c \in Calls, RefreshWrites(c), Here(c)
    PROVE  Here(c)'
<1> DEFINE s == call[c]
           t == CHOOSE t \in s.todo : t.pl = s.pl
           revised == CHOOSE i \in s.items : i.media \in s.wants
           items == {IF i.media = revised.media THEN revised ELSE i : i \in t.state.items}
           published == IF t.state.published # 0 \/ s.devs # {}
                        THEN t.state.version + 1 ELSE 0
           at == IF s.devs = {} THEN "next" ELSE "emitting"
           r == [s EXCEPT !.at = at, !.version = t.state.version + 1, !.items = items,
                          !.todo = s.todo \ {t}]
<1>1. /\ s.at = "refreshing" /\ s.kind = "app" /\ s.pl \in Playlists /\ Refreshing(s)
      /\ UNCHANGED <<media, assigned, shown, conn>>
  BY CallTypes DEF RefreshWrites, At, Shape, Refreshing
<1>2. t \in s.todo /\ t.pl = s.pl
  BY <1>1, CallTypes DEF Shape
<1>3. revised \in s.items /\ revised.media \in s.wants
  BY <1>1, CallTypes DEF Shape, Refreshing, Holds
<1>4. PICK a \in Media :
         /\ s.wants = {a} /\ \A i \in s.items : i.media = a => i.revision = media[a]
         /\ \A u \in s.todo : Live(u.pl) /\ u.state = playlist[u.pl] /\ u.pl \in Playlists
         /\ \A p \in LivePlaylists : \A i \in playlist[p].items :
              Stale(i) => i.media = a /\ \E u \in s.todo : u.pl = p
  BY <1>1, AppKnows
<1>5. revised.media = a /\ revised.revision = media[a]
  BY <1>3, <1>4
<1>6. Live(s.pl) /\ t.state = playlist[s.pl]
  BY <1>2, <1>4
<1>7. \A u \in s.todo \ {t} : u.pl # s.pl
  <2>1. t \in Snapshot /\ \A u \in s.todo : u \in Snapshot
    BY <1>2, CallTypes
  <2> HIDE DEF t
  <2>2. ASSUME NEW u \in s.todo, u.pl = s.pl PROVE u = t
    BY <1>2, <1>4, <1>6, <2>1, <2>2 DEF Snapshot
  <2> QED
    BY <2>2
<1>8. /\ Writes(s.pl, items, published)
      /\ call' = [call EXCEPT ![c].at = at, ![c].version = t.state.version + 1,
                              ![c].items = items, ![c].todo = @ \ {t}]
  BY <1>6 DEF RefreshWrites
<1>9. /\ \A i \in items : i = revised \/ (i \in t.state.items /\ i.media # a)
      /\ \A i \in items : \E j \in t.state.items : i.media = j.media
  BY <1>5
<1> HIDE DEF items, t, revised, at
<1>10. call' = [call EXCEPT ![c] = r]
  <2>1. call \in [Calls -> CallDoc] /\ call[c].todo = s.todo
    BY CallTypes
  <2> QED
    BY <1>8, <2>1
<1>11. /\ r.at = at /\ r.kind = "app" /\ r.pl = s.pl /\ r.wants = {a} /\ r.items = items
       /\ r.devs = s.devs /\ r.todo = s.todo \ {t}
  BY <1>1, <1>4, CallTypes DEF CallDoc
<1>12. at \in {"next", "emitting"}
  BY DEF at
<1> HIDE DEF r
<1>13. call'[c] = r
  BY <1>10, CallIs
<1>14. playlist'[s.pl].items = items /\ playlist'[s.pl].state = "live"
  BY <1>1, <1>6, <1>8, DocTypes DEF Writes, Live, IInv, TypesOK, Doc
<1>15. \A p \in Playlists \ {s.pl} : playlist'[p] = playlist[p]
  BY <1>8 DEF Writes, IInv, TypesOK
<1>16. /\ \A p \in Playlists : Live(p)' <=> Live(p)
       /\ LivePlaylists' = LivePlaylists /\ s.pl \in LivePlaylists
  BY <1>1, <1>6, <1>14, <1>15 DEF Live, LivePlaylists
<1>17. Knows(c)'
  <2>1. \A d \in s.devs : assigned[d] = s.pl
    BY <1>1 DEF Here, Knows
  <2>2. \A i \in items : i.media = a => i.revision = media[a]
    BY <1>5, <1>9
  <2>3. \A u \in s.todo \ {t} : Live(u.pl)' /\ u.state = playlist'[u.pl]
    BY <1>4, <1>7, <1>15, <1>16
  <2> QED
    BY <1>1, <1>11, <1>12, <1>13, <2>1, <2>2, <2>3 DEF Knows, Refreshing, Live
<1>18. HoldsMedia'
  <2>1. ASSUME NEW p \in LivePlaylists PROVE MediaOf(playlist'[p].items) \subseteq MediaOf(playlist[p].items)
    <3>1. CASE p = s.pl
      BY <1>6, <1>9, <1>14, <3>1 DEF MediaOf
    <3>2. CASE p # s.pl
      BY <1>15, <3>2 DEF LivePlaylists
    <3> QED
      BY <3>1, <3>2
  <2> QED
    BY <1>1, <1>16, <2>1 DEF Here, HoldsMedia, Available
<1>19. AppsRenewed({c})'
  <2>1. Refreshing(r) /\ r.wants = {a}
    BY <1>11, <1>12 DEF Refreshing
  <2>2. ASSUME NEW p \in LivePlaylists, NEW i \in playlist'[p].items, Stale(i)
        PROVE  i.media = a /\ \E u \in s.todo \ {t} : u.pl = p
    <3>1. CASE p = s.pl
      <4>1. i # revised
        BY <1>5, <2>2 DEF Stale
      <4>2. i \in playlist[p].items /\ i.media # a
        BY <1>6, <1>9, <1>14, <3>1, <4>1
      <4> QED
        BY <1>4, <2>2, <4>2
    <3>2. CASE p # s.pl
      <4>1. i \in playlist[p].items
        BY <1>15, <3>2 DEF LivePlaylists
      <4> QED
        BY <1>2, <1>4, <2>2, <3>2, <4>1
    <3> QED
      BY <3>1, <3>2
  <2>3. \A i : Stale(i)' <=> Stale(i)
    BY <1>1 DEF Stale
  <2>4. \A p \in LivePlaylists : \A i \in playlist'[p].items : Stale(i) => Renews(c, p, i.media)'
    BY <1>11, <1>13, <2>1, <2>2 DEF Renews
  <2> QED
    BY <1>16, <2>3, <2>4 DEF AppsRenewed
<1>20. AssignedLive({c})'
  <2>1. \A d \in Devices : assigned[d] # None => Live(assigned[d]) /\ assigned[d] \in Playlists
    BY <1>1, AssignedTypes DEF Here, AssignedLive, Clears
  <2> QED
    BY <1>1, <1>16, <2>1 DEF AssignedLive
<1>21. AssignedTold({c})'
  BY <1>1 DEF Here, AssignedTold, Tells
<1> QED
  BY <1>1, <1>17, <1>18, <1>19, <1>20, <1>21 DEF Here

LEMMA EmitsHere ==
    ASSUME IInv, NEW c \in Calls, Emits(c), Here(c)
    PROVE  Here(c)'
<1> DEFINE s == call[c]
           r == [s EXCEPT !.at = "next"]
<1>1. s.at = "emitting" /\ UNCHANGED <<media, playlist, wrote, assigned, conn>>
  BY DEF Emits
<1>2. \A d \in Devices : d \in s.devs /\ conn[d].at # "off" => shown'[d].pl = s.pl
  BY DEF Emits, Payload
<1>3. \A d \in Devices : d \notin s.devs => shown'[d] = shown[d]
  BY DEF Emits
<1>4. \A d \in s.devs : assigned[d] = s.pl
  BY <1>1 DEF Here, Knows
<1>5. AssignedTold({c})'
  <2>1. ASSUME NEW d \in Devices, conn[d].at = "on", assigned[d] # None
        PROVE  shown'[d].pl = assigned[d]
    <3>1. CASE d \in s.devs
      BY <1>2, <1>4, <2>1, <3>1
    <3>2. CASE d \notin s.devs
      BY <1>3, <2>1, <3>2 DEF Here, AssignedTold, Tells
    <3> QED
      BY <3>1, <3>2
  <2> QED
    BY <1>1, <2>1 DEF AssignedTold
<1>6. AssignedLive({c})'
  BY <1>1 DEF Here, AssignedLive, Clears, Live
<1>7. HoldsMedia'
  BY <1>1 DEF Here, HoldsMedia, Available, LivePlaylists, Live
<1>8. CASE s.kind = "app"
  <2>1. call' = [call EXCEPT ![c] = r]
    BY <1>8, CallTypes DEF Emits
  <2>2. Is(r, s, "next", s.pl, s.version, s.items, s.seen, s.devs, s.todo)
    BY CallTypes, GoAt, StepNames
  <2> HIDE DEF r
  <2>3. call'[c] = r
    BY <2>1, CallIs
  <2>4. Refreshing(s) /\ Refreshing(r)
    BY <1>1, <1>8, <2>2 DEF Refreshing, Is
  <2>5. /\ \E a \in Media : s.wants = {a} /\ \A i \in s.items : i.media = a => i.revision = media[a]
        /\ \A t \in s.todo : Live(t.pl) /\ t.state = playlist[t.pl]
    BY <2>4 DEF Here, Knows
  <2>6. Knows(c)'
    BY <1>1, <2>2, <2>3, <2>5 DEF Knows, Refreshing, Live, Is
  <2>7. \A p, a : Renews(c, p, a) => Renews(c, p, a)'
    BY <1>1, <2>2, <2>3, <2>4 DEF Renews, Is
  <2>8. \A i : Stale(i)' <=> Stale(i)
    BY <1>1 DEF Stale
  <2>9. LivePlaylists' = LivePlaylists
    BY <1>1 DEF LivePlaylists, Live
  <2>10. AppsRenewed({c})'
    BY <1>1, <2>7, <2>8, <2>9 DEF Here, AppsRenewed
  <2> QED
    BY <1>1, <1>5, <1>6, <1>7, <2>6, <2>10 DEF Here
<1>9. CASE s.kind # "app"
  <2>1. Ends(c, TRUE)
    BY <1>9 DEF Emits
  <2>2. Knows(c)'
    BY <2>1, EndedKnows
  <2>3. AppsRenewed({c})'
    BY <1>1, <1>9 DEF Here, AppsRenewed, Renews, Refreshing, Stale, LivePlaylists, Live
  <2> QED
    BY <1>1, <1>5, <1>6, <1>7, <2>2, <2>3 DEF Here
<1> QED
  BY <1>8, <1>9

-----------------------------------------------------------------------------
(* One call at a time: the invariant                                       *)

\* What is said of calls and what they write does not mention the connections.
LEMMA ConnLeaves ==
    ASSUME SingleInv, UNCHANGED <<media, playlist, assigned, call>>
    PROVE  /\ \A c \in Calls : Knows(c)'
           /\ HoldsMedia' /\ AppsRenewed(Calls)' /\ AssignedLive(Calls)'
           /\ \A c \in Calls : Busy(c)' <=> Busy(c)
<1>1. \A c \in Calls : Knows(c)'
  <2> TAKE c \in Calls
  <2>1. Knows(c)
    BY DEF SingleInv
  <2>2. \A m : Using(m)' = Using(m)
    BY DEF Using, LivePlaylists, Live
  <2>3. \A S : Mapped(S)' = Mapped(S) /\ (Available(S)' <=> Available(S))
    BY DEF Mapped, Available
  <2> QED
    BY <2>1, <2>2, <2>3 DEF Knows, Refreshing, Live
<1>2. HoldsMedia'
  BY DEF SingleInv, HoldsMedia, Available, LivePlaylists, Live
<1>3. AppsRenewed(Calls)'
  BY DEF SingleInv, AppsRenewed, Renews, Refreshing, Stale, LivePlaylists, Live
<1>4. AssignedLive(Calls)'
  BY DEF SingleInv, AssignedLive, Clears, Live
<1> QED
  BY <1>1, <1>2, <1>3, <1>4 DEF Busy

\* The connection of one device goes on.
LEMMA DeviceSingle ==
    ASSUME IInv, SingleInv, NEW d \in Devices,
           UNCHANGED <<media, playlist, assigned, call>>,
           \A e \in Devices \ {d} : conn'[e] = conn[e] /\ shown'[e] = shown[e],
           conn'[d].at \in {"off", "on"} \/ \A c \in Calls : ~Busy(c),
           conn'[d].at = "on" /\ assigned[d] # None => shown'[d].pl = assigned[d],
           conn'[d].at \in {"joined", "pushing"} => conn'[d].got.pl = assigned[d]
    PROVE  SingleInv'
<1>1. Alone'
  BY ConnLeaves DEF SingleInv, Alone
<1>2. AssignedTold(Calls)'
  BY DEF SingleInv, AssignedTold, Tells
<1>3. Serving'
  BY DEF SingleInv, Serving
<1> QED
  BY <1>1, <1>2, <1>3, ConnLeaves DEF SingleInv

LEMMA DisconnectsSingle ==
    ASSUME IInv, SingleInv, NEW d \in Devices, Disconnects(d)
    PROVE  SingleInv'
<1>1. /\ conn'[d].at = "off" /\ \A e \in Devices \ {d} : conn'[e] = conn[e]
      /\ UNCHANGED <<media, playlist, assigned, shown, call>>
  BY DEF Disconnects, IInv, TypesOK
<1> QED
  BY <1>1, DeviceSingle

LEMMA JoinsSingle ==
    ASSUME ~overlap, IInv, SingleInv, NEW d \in Devices, Joins(d)
    PROVE  SingleInv'
<1> DEFINE at == IF assigned[d] = None THEN "on" ELSE "joined"
<1>1. /\ conn'[d].at = at /\ conn'[d].got.pl = assigned[d]
      /\ \A e \in Devices \ {d} : conn'[e] = conn[e]
      /\ UNCHANGED <<media, playlist, assigned, shown, call>>
  BY DEF Joins, Payload, IInv, TypesOK
<1>2. \A c \in Calls : ~Busy(c)
  BY DEF Joins, AtRest, InFlight, Busy
<1> QED
  BY <1>1, <1>2, DeviceSingle

LEMMA LoadsPlaylistSingle ==
    ASSUME LibraryAssumption, IInv, SingleInv, NEW d \in Devices, LoadsPlaylist(d)
    PROVE  SingleInv'
<1> DEFINE p == conn[d].got.pl
           r == [conn[d] EXCEPT !.at = "pushing", !.got = Current(p)]
<1>1. /\ conn[d].at = "joined" /\ p = assigned[d] /\ p \in Playlists
      /\ UNCHANGED <<media, playlist, assigned, shown, call>>
  BY DEF LoadsPlaylist, SingleInv, Serving, IInv, DevicesOK
<1>2. \A c \in Calls : ~Busy(c)
  BY <1>1 DEF SingleInv, Alone
<1>3. \A c \in Calls : ~Clears(c, p)
  BY <1>2 DEF Busy, Clears
<1>4. Live(p)
  BY <1>1, <1>3 DEF SingleInv, AssignedLive, LibraryAssumption
<1>5. conn' = [conn EXCEPT ![d] = r]
  BY <1>4 DEF LoadsPlaylist
<1>6. r.at = "pushing" /\ r.got.pl = p
  BY ConnTypes DEF IInv, Connection, Current, Payload
<1> HIDE DEF r, p
<1>7. conn'[d] = r /\ \A e \in Devices \ {d} : conn'[e] = conn[e]
  BY <1>5 DEF IInv, TypesOK
<1> QED
  BY <1>1, <1>2, <1>6, <1>7, DeviceSingle

LEMMA PushesSingle ==
    ASSUME IInv, SingleInv, NEW d \in Devices, Pushes(d)
    PROVE  SingleInv'
<1>1. /\ conn[d].at = "pushing" /\ conn[d].got.pl = assigned[d]
      /\ UNCHANGED <<media, playlist, assigned, call>>
  BY DEF Pushes, SingleInv, Serving
<1>2. shown'[d] = conn[d].got /\ \A e \in Devices \ {d} : shown'[e] = shown[e]
  BY DEF Pushes, IInv, TypesOK
<1>3. \A e \in Devices \ {d} : conn'[e] = conn[e]
  BY DEF Pushes, IInv, TypesOK
<1>4. conn'[d].at = "on"
  BY ConnTypes DEF Pushes, IInv, TypesOK, Connection
<1> QED
  BY <1>1, <1>2, <1>3, <1>4, DeviceSingle

LEMMA SingleInit == ASSUME LibraryAssumption, Init PROVE SingleInv
<1>1. PICK S \in Wanted :
        /\ playlist = [p \in Playlists |-> IF p # First THEN NewPlaylist
                        ELSE [NewPlaylist EXCEPT !.state = "live", !.version = 1,
                                                 !.items = Mapped(S), !.published = 1]]
        /\ shown = [d \in Devices |-> Payload(First, 1, Mapped(S))]
  BY DEF Init
<1> DEFINE items == Mapped(S)
           first == [NewPlaylist EXCEPT !.state = "live", !.version = 1,
                                        !.items = items, !.published = 1]
<1>2. first.state = "live" /\ first.items = items /\ NewPlaylist.state = "new"
  BY DEF NewPlaylist
<1>3. \A i \in items : i.revision = media[i.media] /\ media[i.media] = 1
  <2>1. S \subseteq Media /\ \A m \in Media : media[m] = 1
    BY DEF Init, Wanted
  <2>2. \A i \in items : i.media \in S /\ i.revision = media[i.media]
    BY DEF Mapped
  <2> QED
    BY <2>1, <2>2
<1> HIDE DEF first, items
<1>4. \A p \in LivePlaylists : p = First /\ playlist[p].items = items
  BY <1>1, <1>2 DEF LivePlaylists, Live, first, items
<1>5. Live(First)
  BY <1>1, <1>2 DEF Live, LibraryAssumption, first, items
<1>6. \A c \in Calls : call[c].at \in {"new", "done"} /\ call[c].kind = "none"
  BY DEF Init, NewCall, NotMade
<1>7. Alone /\ \A c \in Calls : Knows(c)
  BY <1>6 DEF Alone, Busy, Knows, Refreshing
<1>8. HoldsMedia /\ AppsRenewed(Calls)
  BY <1>3, <1>4 DEF HoldsMedia, Available, MediaOf, AppsRenewed, Stale
<1>9. AssignedLive(Calls) /\ AssignedTold(Calls) /\ Serving
  BY <1>1, <1>5 DEF Init, AssignedLive, AssignedTold, Serving, Payload
<1> QED
  BY <1>7, <1>8, <1>9 DEF SingleInv

\* Every step of a call is its own.
LEMMA OthersStay ==
    ASSUME IInv, NEW c \in Calls, CallStarts(c) \/ CallGoesOn(c)
    PROVE  UNCHANGED conn /\ \A e \in Calls \ {c} : call'[e] = call[e]
<1>1. call \in [Calls -> CallDoc]
  BY DEF IInv, TypesOK
<1>2. CASE CallStarts(c)
  <2>1. UNCHANGED conn /\ \E r : call' = [call EXCEPT ![c] = r]
    BY <1>2 DEF CallStarts, EditorLoads, AddLoads, NewPage, SetToScreen, ListPublishes,
       DeletePlaylist, RemoveMedia, UpdateApp, Starts
  <2> QED
    BY <1>1, <2>1
<1>3. CASE CallGoesOn(c)
  BY <1>1, <1>3 DEF CallGoesOn, SaveReads, SaveWrites, SaveEnds, CreateReads, CreateWrites,
     PublishReads, PublishMarks, PublishAssigns, DeleteFinds, DeleteClears, RemoveFinds,
     RemovePurges, RemoveDeletes, RefreshReads, RefreshFinds, RefreshWrites, Emits, Ends
<1> QED
  BY <1>2, <1>3

LEMMA SingleNext ==
    ASSUME LibraryAssumption, ~overlap, IInv, SingleInv, [Next]_vars
    PROVE  SingleInv'
<1>1. ASSUME NEW c \in Calls, CallStarts(c) PROVE SingleInv'
  <2>1. call[c].at = "new" /\ AtRest
    BY <1>1 DEF CallStarts, EditorLoads, AddLoads, NewPage, SetToScreen, ListPublishes,
       DeletePlaylist, RemoveMedia, UpdateApp, Starts
  <2>2. Here(c) /\ \A e \in Calls \ {c} : ~Busy(e)
    BY <2>1, Acts
  <2>3. Here(c)'
    BY <1>1, <2>2, EditorLoadsHere, AddLoadsHere, NewPageHere, SetToScreenHere,
       ListPublishesHere, DeletePlaylistHere, RemoveMediaHere, UpdateAppHere DEF CallStarts
  <2>4. UNCHANGED conn /\ \A e \in Calls \ {c} : call'[e] = call[e]
    BY <1>1, OthersStay
  <2> QED
    BY <2>2, <2>3, <2>4, Acted
<1>2. ASSUME NEW c \in Calls, CallGoesOn(c) PROVE SingleInv'
  <2>1. Busy(c)
    BY <1>2 DEF CallGoesOn, SaveReads, SaveWrites, SaveEnds, CreateReads, CreateWrites,
       PublishReads, PublishMarks, PublishAssigns, DeleteFinds, DeleteClears, RemoveFinds,
       RemovePurges, RemoveDeletes, RefreshReads, RefreshFinds, RefreshWrites, Emits, At, Busy
  <2>2. Here(c) /\ \A e \in Calls \ {c} : ~Busy(e)
    BY <2>1, Acts
  <2>3. Here(c)'
    BY <1>2, <2>2, SaveReadsHere, SaveWritesHere, SaveEndsHere, CreateReadsHere,
       CreateWritesHere, PublishReadsHere, PublishMarksHere, PublishAssignsHere,
       DeleteFindsHere, DeleteClearsHere, RemoveFindsHere, RemovePurgesHere,
       RemoveDeletesHere, RefreshReadsHere, RefreshFindsHere, RefreshWritesHere, EmitsHere
       DEF CallGoesOn
  <2>4. UNCHANGED conn /\ \A e \in Calls \ {c} : call'[e] = call[e]
    BY <1>2, OthersStay
  <2> QED
    BY <2>2, <2>3, <2>4, Acted
<1>3. ASSUME NEW d \in Devices, DeviceMoves(d) PROVE SingleInv'
  BY <1>3, DisconnectsSingle, JoinsSingle, LoadsPlaylistSingle, PushesSingle DEF DeviceMoves
<1>4. CASE UNCHANGED vars
  <2>1. UNCHANGED <<media, playlist, assigned, shown, conn, call>>
    BY <1>4 DEF vars
  <2>2. Alone' /\ AssignedTold(Calls)' /\ Serving'
    BY <2>1 DEF SingleInv, Alone, Busy, AssignedTold, Tells, Serving
  <2> QED
    BY <2>1, <2>2, ConnLeaves DEF SingleInv
<1> QED
  BY <1>1, <1>2, <1>3, <1>4 DEF Next

LEMMA SingleInvariant == ASSUME LibraryAssumption PROVE Spec => [](IInv /\ (~overlap => SingleInv))
<1>1. IInv /\ (~overlap => SingleInv) /\ [Next]_vars => (~overlap => SingleInv)'
  <2> SUFFICES ASSUME IInv, ~overlap => SingleInv, [Next]_vars, ~overlap'
               PROVE  SingleInv'
    OBVIOUS
  <2>1. UNCHANGED overlap
    BY DEF Next, vars
  <2> QED
    BY <2>1, SingleNext
<1> QED
  BY <1>1, InitInvariant, NextInvariant, SingleInit, PTL DEF Spec

-----------------------------------------------------------------------------

LEMMA RestEnds ==
    ASSUME AtRest
    PROVE  \A c \in Calls : /\ ~Refreshing(call[c])
                            /\ call[c].at \notin {"deleted", "clearing", "emitting"}
BY DEF AtRest, InFlight, Refreshing

\* Calls that do not overlap: once a call has ended, no device is assigned to
\* a playlist that was deleted, by its deletion or with the medium it wraps.
LEMMA DeletedPlaylistsAreCleared == SingleInv => DeletedIsCleared
BY RestEnds DEF SingleInv, DeletedIsCleared, AssignedLive, Clears

\* Calls that do not overlap: a playlist holds only media that are there.
LEMMA PlaylistsHoldTheirMedia == SingleInv => PlaylistsHoldMedia
BY DEF SingleInv, PlaylistsHoldMedia, HoldsMedia

\* Calls that do not overlap: every playlist holds its apps as last saved.
LEMMA AppsAreRenewed == SingleInv => AppsAreCurrent
BY RestEnds DEF SingleInv, AppsAreCurrent, AppsRenewed, Renews, Stale

\* Calls that do not overlap: a connected device shows the playlist it is
\* assigned to.
LEMMA DevicesShowWhatIsAssigned == SingleInv => AssignedIsShown
BY RestEnds DEF SingleInv, AssignedIsShown, AssignedTold, Tells

(***************************************************************************)
(* What calls leave behind.  However they overlapped, a device that        *)
(* connects after the last one shows the playlist it is assigned to.  Made *)
(* one after the other they leave no device with a deleted playlist, no    *)
(* playlist with a deleted medium or an app as it was, and no connected    *)
(* device with another playlist than its own.                              *)
(***************************************************************************)
THEOREM RestIsTrue == ASSUME LibraryAssumption PROVE Spec => []LibraryAtRest
<1>1. IInv /\ (~overlap => SingleInv) => LibraryAtRest
  BY ConnectionHeals, DeletedPlaylistsAreCleared, PlaylistsHoldTheirMedia, AppsAreRenewed,
     DevicesShowWhatIsAssigned DEF LibraryAtRest
<1> QED
  BY <1>1, SingleInvariant, PTL

\* Calls that do not overlap: adding a medium takes no other out of any playlist.
LEMMA AddingKeepsTheRest == ASSUME IInv, SingleInv, Next PROVE AddsOnly
<1> SUFFICES ASSUME NEW c \in Calls, At(c, "mapped", {"add"}), call'[c] # call[c],
                    NEW p \in Playlists
             PROVE  MediaOf(playlist[p].items) \subseteq MediaOf(playlist'[p].items)
  BY DEF AddsOnly
<1> DEFINE s == call[c]
<1>1. s.at = "mapped" /\ s.kind = "add" /\ s.pl \in Playlists
  BY CallTypes DEF At, Shape
<1>2. SaveWrites(c)
  BY <1>1, OwnStep DEF CallStarts, EditorLoads, AddLoads, NewPage, SetToScreen,
     ListPublishes, DeletePlaylist, RemoveMedia, UpdateApp, Starts, CallGoesOn, SaveReads,
     SaveEnds, CreateReads, CreateWrites, PublishReads, PublishMarks, PublishAssigns,
     DeleteFinds, DeleteClears, RemoveFinds, RemovePurges, RemoveDeletes, RefreshReads,
     RefreshFinds, RefreshWrites, Emits, At
<1>3. /\ s.items = Mapped(s.wants)
      /\ MediaOf(playlist[s.pl].items) \subseteq s.wants
  BY <1>1 DEF SingleInv, Knows
<1>4. s.wants \subseteq MediaOf(s.items)
  <2>1. \A m \in s.wants : \E i \in Mapped(s.wants) : i.media = m
    <3> TAKE m \in s.wants
    <3>1. [media |-> m, revision |-> media[m]] \in Mapped(s.wants)
      BY DEF Mapped
    <3> QED
      BY <3>1
  <2> QED
    BY <1>3, <2>1 DEF MediaOf
<1>5. CASE Writes(s.pl, s.items, 0)
  <2>1. /\ playlist'[s.pl].items = s.items
        /\ \A q \in Playlists \ {s.pl} : playlist'[q] = playlist[q]
    <3>1. playlist \in [Playlists -> Doc]
      BY DEF IInv, TypesOK
    <3> QED
      BY <1>1, <1>5, <3>1 DEF Writes, Doc
  <2> QED
    BY <1>3, <1>4, <2>1
<1>6. CASE UNCHANGED playlist
  BY <1>6
<1> QED
  BY <1>2, <1>5, <1>6 DEF SaveWrites

(***************************************************************************)
(* However calls overlap, the save of an editor replaces only the version  *)
(* the editor has loaded, and what an editor or the list page publishes is *)
(* what its user has seen.  Made one after the other, no call takes a      *)
(* medium out of a playlist unseen.                                        *)
(***************************************************************************)
THEOREM WorkIsKept == ASSUME LibraryAssumption PROVE Spec => NobodyLosesWork
<1>1. IInv /\ (~overlap => SingleInv) /\ [Next]_vars
        => [KeepsOthersWork /\ PublishesSeen /\ (~overlap => AddsOnly)]_vars
  BY EditorsKeepOthersWork, PublishedWasSeen, AddingKeepsTheRest
<1> QED
  BY <1>1, SingleInvariant, PTL DEF Spec, NobodyLosesWork
=============================================================================
