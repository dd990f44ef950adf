----------------------------- MODULE ShadowSync -----------------------------
(***************************************************************************)
(* The PostgreSQL shadow of the MongoDB documents: the upserts and soft    *)
(* deletions of content.repository.ts, their retries (lib/retry.ts), the  *)
(* repair script and the parity checks that decide on promotions.          *)
(*                                                                         *)
(* A record is a playlist or a medium; name is what its unique index is    *)
(* on.  A handler writes the document and then awaits the write of its     *)
(* shadow, which is attempted up to MaxTries times.  That the breaker is   *)
(* open or PostgreSQL is away is a fault like a failing query: the breaker *)
(* itself is the module CircuitBreaker.                                    *)
(***************************************************************************)
EXTENDS Naturals, Sequences, FiniteSets, SequencesExt

CONSTANTS
    Calls,           \* requests, each made at most once
    Records, Names,
    Overlap,         \* whether requests may overlap
    Endless,         \* whether faults are unlimited
    MaxFaults,       \* bound on faults otherwise
    MaxTries,        \* maxRetries + 1
    SampleLimit,     \* sample_limit of a parity check
    None

ShadowAssumption ==
    /\ Calls \cap Records = {} /\ None \notin Names
    /\ Overlap \in BOOLEAN /\ Endless \in BOOLEAN
    /\ MaxFaults \in Nat /\ MaxTries \in Nat \ {0} /\ SampleLimit \in Nat \ {0}

VARIABLES
    doc, row,
    docOrder,        \* ids of the documents, oldest updatedAt first
    rowOrder,        \* ids of the rows that are not deleted, by updated_at
    wrote,           \* what each document ever held (history)
    slot,            \* the shadow write of each request, and of the repair
                     \* for each record
    repair, parity, faults

vars == <<doc, row, docOrder, rowOrder, wrote, slot, repair, parity, faults>>

Slots == Calls \union Records
LiveDocs == {r \in Records : doc[r].state = "live"}
LiveRows == {r \in Records : row[r].live}
Value(r) == [version |-> doc[r].version, name |-> doc[r].name]
NoValue == [version |-> 0, name |-> None]
Shadow(r) == [version |-> row[r].version, name |-> row[r].name]
Busy == {s \in Slots : slot[s].at = "writing"}
AtRest == Busy = {}
MovedToEnd(order, r) == Append(SelectSeq(order, LAMBDA x : x # r), r)
Without(order, r) == SelectSeq(order, LAMBDA x : x # r)

Idle(at) == [at |-> at, op |-> "none", rec |-> None, val |-> NoValue, tries |-> 0,
             alone |-> FALSE]

Init ==
    /\ doc = [r \in Records |-> [state |-> "new", version |-> 0, name |-> None]]
    /\ row = [r \in Records |-> [live |-> FALSE, version |-> 0, name |-> None]]
    /\ docOrder = <<>> /\ rowOrder = <<>>
    /\ wrote = [r \in Records |-> {}]
    /\ slot = [s \in Slots |-> Idle("new")]
    /\ repair = [at |-> "no", clean |-> FALSE]
    /\ parity = [at |-> "no", calm |-> FALSE, docs |-> 0, rows |-> 0, newest |-> {},
                 ok |-> FALSE]
    /\ faults = 0

-----------------------------------------------------------------------------
(* A handler of content.route.ts: the document, then its shadow            *)

\* What the shadow write of a slot will do.  alone: no other write of the
\* record is under way while it is (history).
Writing(r, op, val) ==
    [at |-> "writing", op |-> op, rec |-> r, val |-> val, tries |-> 0,
     alone |-> \A s \in Busy : slot[s].rec # r]
Disturbed(r) == [s \in Slots |-> IF s \in Busy /\ slot[s].rec = r
                                 THEN [slot[s] EXCEPT !.alone = FALSE] ELSE slot[s]]
Starts(c, r, op, val) ==
    /\ slot[c].at = "new" /\ (Overlap \/ AtRest)
    /\ slot' = [Disturbed(r) EXCEPT ![c] = Writing(r, op, val)]
    /\ repair' = [repair EXCEPT !.clean = FALSE]
    /\ parity' = [parity EXCEPT !.calm = FALSE]
    /\ UNCHANGED <<row, rowOrder, faults>>

\* create, findOneAndUpdate: the unique index keeps names apart.
Saves(c, r, name) ==
    LET new == [version |-> doc[r].version + 1, name |-> name] IN
    /\ doc[r].state # "gone"
    /\ \A q \in LiveDocs \ {r} : doc[q].name # name
    /\ doc' = [doc EXCEPT ![r] = [state |-> "live", version |-> new.version, name |-> name]]
    /\ docOrder' = MovedToEnd(docOrder, r)
    /\ wrote' = [wrote EXCEPT ![r] = @ \union {new}]
    /\ Starts(c, r, "upsert", new)

\* A publication marks the version it has read and shadows that.
Publishes(c, r) ==
    /\ doc[r].state = "live"
    /\ docOrder' = MovedToEnd(docOrder, r)
    /\ Starts(c, r, "upsert", Value(r))
    /\ UNCHANGED <<doc, wrote>>

Deletes(c, r) ==
    /\ doc[r].state = "live"
    /\ doc' = [doc EXCEPT ![r].state = "gone"]
    /\ docOrder' = Without(docOrder, r)
    /\ Starts(c, r, "delete", NoValue)
    /\ UNCHANGED wrote

-----------------------------------------------------------------------------
(* The shadow write: breaker, retries, query                               *)

Ended(s, at) == slot' = [slot EXCEPT ![s].at = at]

\* The row after an upsert (ON CONFLICT ... DO UPDATE).
Upserted(s) ==
    LET val == slot[s].val IN
    [row EXCEPT ![slot[s].rec] = [live |-> TRUE, name |-> val.name, version |-> val.version]]

NameTaken(s) == \E q \in LiveRows \ {slot[s].rec} : row[q].name = slot[s].val.name

Executes(s) ==
    LET r == slot[s].rec IN
    \/ /\ slot[s].op = "upsert" /\ ~NameTaken(s)
       /\ row' = Upserted(s) /\ rowOrder' = MovedToEnd(rowOrder, r)
    \/ /\ slot[s].op = "delete"
       /\ row' = [row EXCEPT ![r].live = FALSE] /\ rowOrder' = Without(rowOrder, r)

Fault ==
    /\ Endless \/ faults < MaxFaults
    /\ faults' = IF Endless THEN 0 ELSE faults + 1
    /\ repair' = [repair EXCEPT !.clean = FALSE]

TriesAgain(s) ==
    IF slot[s].tries + 1 < MaxTries
    THEN slot' = [slot EXCEPT ![s].tries = @ + 1]
    ELSE Ended(s, "failed")

Succeeds(s) ==
    /\ s \in Busy /\ Executes(s) /\ Ended(s, "ok")
    /\ UNCHANGED <<doc, docOrder, wrote, repair, parity, faults>>

\* unique_violation is not transient: the write is given up, and only logged.
Refused(s) ==
    /\ s \in Busy /\ slot[s].op = "upsert" /\ NameTaken(s) /\ Ended(s, "failed")
    /\ UNCHANGED <<doc, row, docOrder, rowOrder, wrote, repair, parity, faults>>

\* A transient error, before the query took effect or after it.
LosesQuery(s) ==
    /\ s \in Busy /\ Fault /\ TriesAgain(s)
    /\ Executes(s) \/ UNCHANGED <<row, rowOrder>>
    /\ UNCHANGED <<doc, docOrder, wrote, parity>>

\* Not connected, or the breaker is open.
Skips(s) ==
    /\ s \in Busy /\ slot[s].tries = 0 /\ Fault /\ Ended(s, "skipped")
    /\ UNCHANGED <<doc, row, docOrder, rowOrder, wrote, parity>>

Goes(s) == Succeeds(s) \/ Refused(s) \/ LosesQuery(s) \/ Skips(s)

-----------------------------------------------------------------------------
(* repair-postgres-shadow.ts                                               *)

\* The documents of a batch are read, then upserted side by side.
Repaired(r) == r \in LiveDocs

RepairStarts ==
    /\ repair.at = "no" /\ (Overlap \/ AtRest)
    /\ repair' = [at |-> "running", clean |-> AtRest]
    /\ slot' = [s \in Slots |->
            IF s \in Records /\ Repaired(s) THEN Writing(s, "upsert", Value(s))
            ELSE IF s \in Busy /\ slot[s].rec \in LiveDocs
                 THEN [slot[s] EXCEPT !.alone = FALSE] ELSE slot[s]]
    /\ parity' = [parity EXCEPT !.calm = FALSE]
    /\ UNCHANGED <<doc, row, docOrder, rowOrder, wrote, faults>>

RepairEnds ==
    /\ repair.at = "running" /\ Records \cap Busy = {}
    /\ repair' = [repair EXCEPT !.at = "done"]
    /\ UNCHANGED <<doc, row, docOrder, rowOrder, wrote, slot, parity, faults>>

-----------------------------------------------------------------------------
(* GET /content/parity, GET /promotion/eligible and the scripts            *)

Newest(order) == {order[i] : i \in {j \in 1 .. Len(order) : j + SampleLimit > Len(order)}}

\* calm: nothing was written while the check ran (history).
ParityStarts ==
    /\ parity.at = "no"
    /\ parity' = [parity EXCEPT !.at = "counting", !.calm = AtRest,
                                !.docs = Cardinality(LiveDocs)]
    /\ UNCHANGED <<doc, row, docOrder, rowOrder, wrote, slot, repair, faults>>

ParityCounts ==
    /\ parity.at = "counting"
    /\ parity' = [parity EXCEPT !.at = "sampling", !.rows = Cardinality(LiveRows)]
    /\ UNCHANGED <<doc, row, docOrder, rowOrder, wrote, slot, repair, faults>>

ParitySamples ==
    /\ parity.at = "sampling"
    /\ parity' = [parity EXCEPT !.at = "comparing",
            !.newest = {[rec |-> r, version |-> doc[r].version] : r \in Newest(docOrder)}]
    /\ UNCHANGED <<doc, row, docOrder, rowOrder, wrote, slot, repair, faults>>

\* Mutant: the counts are not compared.
VerdictOfSample(newest, rows) ==
    \A d \in newest : d.rec \in rows /\ row[d.rec].version = d.version
Verdict(newest, rows) ==
    /\ parity.docs = parity.rows
    /\ \A d \in newest : d.rec \in rows /\ row[d.rec].version = d.version

ParityEnds ==
    /\ parity.at = "comparing"
    /\ parity' = [parity EXCEPT !.at = "done",
                                !.ok = Verdict(parity.newest, Newest(rowOrder))]
    /\ UNCHANGED <<doc, row, docOrder, rowOrder, wrote, slot, repair, faults>>

-----------------------------------------------------------------------------

Request(c) ==
    \E r \in Records :
        \/ \E name \in Names : Saves(c, r, name)
        \/ Publishes(c, r) \/ Deletes(c, r)

Parity == ParityStarts \/ ParityCounts \/ ParitySamples \/ ParityEnds

Next ==
    \/ \E c \in Calls : Request(c)
    \/ \E s \in Slots : Goes(s)
    \/ RepairStarts \/ RepairEnds \/ Parity

Spec == Init /\ [][Next]_vars
FairSpec == Spec /\ \A s \in Slots : WF_vars(Goes(s))

-----------------------------------------------------------------------------
(* Properties                                                              *)

TypeOK ==
    /\ \A r \in Records :
        /\ doc[r].state \in {"new", "live", "gone"} /\ doc[r].name \in Names \union {None}
        /\ row[r].live \in BOOLEAN /\ row[r].name \in Names \union {None}
    /\ ToSet(docOrder) = LiveDocs /\ ToSet(rowOrder) = LiveRows
    /\ \A s \in Slots :
        /\ slot[s].at \in {"new", "writing", "ok", "failed", "skipped"}
        /\ slot[s].tries \in 0 .. MaxTries - 1

AgreesOn(r) == IF r \in LiveDocs THEN r \in LiveRows /\ Shadow(r) = Value(r)
               ELSE r \notin LiveRows
ShadowAgrees == \A r \in Records : AgreesOn(r)

\* Requests one after the other and a database that answers: what GET
\* /playlists/:playlistId serves from PostgreSQL is the document.
CalmShadowAgrees == AtRest => ShadowAgrees

\* In whatever order delayed and repeated queries run, a row is one version of
\* its document: never the version of one write with the content of another.
RowsAreVersions == \A r \in LiveRows : Shadow(r) \in wrote[r]

\* A write that nothing else overlapped and that reported success leaves its
\* record right, whatever was lost before: the next save heals.
LoneWriteReaches ==
    \A s \in Slots :
        (s \in Busy /\ slot[s].alone /\ slot'[s].at = "ok") => AgreesOn(slot[s].rec)'
LoneWriteHeals == [][LoneWriteReaches]_vars

\* A repair that ran undisturbed leaves every document in the shadow, except
\* those whose upsert it reported as failed.
RepairReachesDocuments ==
    (repair.at = "done" /\ repair.clean) =>
        \A r \in LiveDocs : AgreesOn(r) \/ slot[r].at = "failed"

\* "parity verification passed" of a check that nothing disturbed: the shadow
\* holds the documents in their versions and nothing else.
PassedParityIsTrue ==
    (parity.at = "done" /\ parity.calm /\ parity.ok /\ Cardinality(LiveDocs) <= SampleLimit) =>
        /\ LiveRows = LiveDocs
        /\ \A r \in LiveDocs : row[r].version = doc[r].version

\* "parity verification failed" of a check that nothing disturbed: something
\* does differ.
FailedParityIsTrue == (parity.at = "done" /\ parity.calm /\ ~parity.ok) => ~ShadowAgrees

\* db:repair:shadow repairs the shadow.
RepairRestores == (repair.at = "done" /\ repair.clean) => ShadowAgrees

\* "Non-blocking": however often PostgreSQL fails, the request goes on.
WritesEnd == \A s \in Slots : s \in Busy ~> s \notin Busy
=============================================================================
