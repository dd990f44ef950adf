-------------------------- MODULE SchemaMigrations --------------------------
(***************************************************************************)
(* The PostgreSQL migration runner (backend/src/lib/postgres-migrations.ts,*)
(* started by scripts/migrate-postgres.ts): every deployment runs it with  *)
(* the files of its own release, several may run at the same time, any may *)
(* be killed or lose a statement.  Each file has a transaction of its own, *)
(* which the INSERT into schema_migrations joins; a file marked            *)
(* "migrate:no-transaction" has none.                                      *)
(*                                                                         *)
(* PostgreSQL is external.  What is used of it: an advisory lock belongs to*)
(* a session and ends with it, as the transaction does; an online index    *)
(* build (CREATE INDEX CONCURRENTLY) waits for every statement that runs,  *)
(* the one that waits for the advisory lock included, so that one of the   *)
(* two is cancelled; a cancelled build leaves an index that is not valid,  *)
(* which IF NOT EXISTS then finds.                                         *)
(***************************************************************************)
EXTENDS Naturals, FiniteSets

CONSTANTS
    Runners,        \* deployments
    NFiles,         \* migrations, in the order of their names
    OnlineFiles,    \* those marked "migrate:no-transaction"
    Legacy,         \* applied by the runner that kept no checksums
    Texts,          \* checksums of the files
    Releases,       \* what a release ships: a text per file, or Absent
    Absent,         \* not shipped, or not recorded
    NoSum,          \* recorded without a checksum
    MaxRuns,        \* bound: runs of the script
    MaxErrors       \* bound: statements that fail

Files == 1..NFiles

ASSUME FilesAssumption ==
    /\ NFiles \in Nat
    /\ OnlineFiles \subseteq Files
    /\ Legacy \subseteq Files \ OnlineFiles
    /\ Releases \subseteq [Files -> Texts \cup {Absent}]
    /\ Absent \notin Texts
    /\ NoSum \notin Texts \cup {Absent}
    /\ "none" \notin Runners
    /\ MaxRuns \in Nat /\ MaxErrors \in Nat

VARIABLES
    at,         \* runner -> where it is: idle, wait, look, run, record, commit, unlock, done, failed
    file,       \* runner -> the file it looks at
    release,    \* runner -> the files it has
    holder,     \* the session that has the advisory lock, or "none"
    recorded,   \* file -> the checksum in schema_migrations, NoSum or Absent
    ran,        \* file -> how often its statements have taken effect
    text,       \* file -> what its last effective statements were
    broken,     \* online files whose index is there and not valid
    runs, errors

migrationVars == <<at, file, release, holder, recorded, ran, text, broken, runs, errors>>
database == <<recorded, ran, text, broken>>

MigrationInit ==
    /\ at = [r \in Runners |-> "idle"]
    /\ file = [r \in Runners |-> 1]
    /\ release \in [Runners -> Releases]
    /\ holder = "none"
    /\ recorded = [f \in Files |-> IF f \in Legacy THEN NoSum ELSE Absent]
    /\ ran = [f \in Files |-> IF f \in Legacy THEN 1 ELSE 0]
    /\ text \in [Files -> Texts \cup {Absent}]
    /\ \A f \in Files : text[f] = Absent <=> f \notin Legacy
    /\ broken = {}
    /\ runs = 0 /\ errors = 0

Goes(r, place) == at' = [at EXCEPT ![r] = place]

(* applyPostgresMigrations up to the lock: SELECT pg_advisory_lock.        *)
Start(r) ==
    /\ at[r] \in {"idle", "done", "failed"}
    /\ runs < MaxRuns
    /\ runs' = runs + 1
    /\ \E rel \in Releases : release' = [release EXCEPT ![r] = rel]
    /\ Goes(r, "wait")
    /\ UNCHANGED <<file, holder, database, errors>>

Lock(r) ==
    /\ at[r] = "wait" /\ holder = "none"
    /\ holder' = r
    /\ file' = [file EXCEPT ![r] = 1]
    /\ Goes(r, "look")
    /\ UNCHANGED <<release, database, runs, errors>>

(* statement_timeout ends the statement that waits for the lock.           *)
GivesUp(r) ==
    /\ at[r] = "wait" /\ errors < MaxErrors
    /\ errors' = errors + 1
    /\ Goes(r, "failed")
    /\ UNCHANGED <<file, release, holder, database, runs>>

NextFile(r) == file' = [file EXCEPT ![r] = @ + 1]

(* Mutant: the checksum of an applied file is not compared. *)
MismatchIgnored(r, f) == FALSE

Mismatch(r, f) == recorded[f] \notin {release[r][f], NoSum}

(* A file of schema_migrations is skipped; a checksum it lacks is added.   *)
Skip(r) ==
    /\ at[r] = "look" /\ file[r] \in Files
    /\ LET f == file[r] IN
         \/ /\ release[r][f] = Absent
            /\ UNCHANGED recorded
         \/ /\ Absent \notin {release[r][f], recorded[f]}
            /\ ~Mismatch(r, f)
            /\ recorded' = [recorded EXCEPT ![f] = release[r][f]]
    /\ NextFile(r)
    /\ UNCHANGED <<at, release, holder, ran, text, broken, runs, errors>>

(* Mutant: the mismatch ends the run without an error. *)
RefuseQuietly(r) ==
    /\ at[r] = "look" /\ file[r] \in Files
    /\ Absent \notin {release[r][file[r]], recorded[file[r]]}
    /\ Mismatch(r, file[r])
    /\ Goes(r, "unlock")
    /\ UNCHANGED <<file, release, holder, database, runs, errors>>

(* MIGRATION_CHECKSUM_MISMATCH.                                            *)
Refuse(r) ==
    /\ at[r] = "look" /\ file[r] \in Files
    /\ Absent \notin {release[r][file[r]], recorded[file[r]]}
    /\ Mismatch(r, file[r])
    /\ Goes(r, "unlockFailed")
    /\ UNCHANGED <<file, release, holder, database, runs, errors>>

(* A file that is not recorded: BEGIN, unless it opts out.                 *)
Apply(r) ==
    /\ at[r] = "look" /\ file[r] \in Files
    /\ release[r][file[r]] # Absent /\ recorded[file[r]] = Absent
    /\ Goes(r, "run")
    /\ UNCHANGED <<file, release, holder, database, runs, errors>>

Ends(r) ==
    /\ at[r] = "look" /\ file[r] \notin Files
    /\ Goes(r, "unlock")
    /\ UNCHANGED <<file, release, holder, database, runs, errors>>

TakesEffect(f, t) ==
    /\ ran' = [ran EXCEPT ![f] = @ + 1]
    /\ text' = [text EXCEPT ![f] = t]

NoEffect == UNCHANGED <<ran, text>>

SomeoneWaits(r) == \E s \in Runners \ {r} : at[s] = "wait"

(* client.query(migration.sql).  What a transaction does takes effect with *)
(* its COMMIT; an online build at once, and it finds an invalid index.     *)
Run(r) ==
    LET f == file[r] IN
    /\ at[r] = "run"
    /\ Goes(r, "record")
    /\ IF f \in OnlineFiles
         THEN /\ ~SomeoneWaits(r)
              /\ IF ran[f] > 0 \/ f \in broken THEN NoEffect ELSE TakesEffect(f, release[r][f])
         ELSE NoEffect
    /\ UNCHANGED <<file, release, holder, recorded, broken, runs, errors>>

(* The INSERT: part of the transaction, or alone.                          *)
Record(r) ==
    LET f == file[r] IN
    /\ at[r] = "record"
    /\ IF f \in OnlineFiles
         THEN /\ recorded' = [recorded EXCEPT ![f] = release[r][f]]
              /\ Goes(r, "look") /\ NextFile(r)
         ELSE Goes(r, "commit") /\ UNCHANGED <<file, recorded>>
    /\ UNCHANGED <<release, holder, ran, text, broken, runs, errors>>

(* Mutant: the INSERT does not belong to the transaction that is committed. *)
CommitUnrecorded(r) ==
    /\ at[r] = "commit"
    /\ TakesEffect(file[r], release[r][file[r]])
    /\ Goes(r, "look") /\ NextFile(r)
    /\ UNCHANGED <<release, holder, recorded, broken, runs, errors>>

Commit(r) ==
    /\ at[r] = "commit"
    /\ TakesEffect(file[r], release[r][file[r]])
    /\ recorded' = [recorded EXCEPT ![file[r]] = release[r][file[r]]]
    /\ Goes(r, "look") /\ NextFile(r)
    /\ UNCHANGED <<release, holder, broken, runs, errors>>

(* What a build that is cancelled leaves behind.                           *)
Cancelled(r) ==
    broken' = IF at[r] = "run" /\ file[r] \in OnlineFiles /\ ran[file[r]] = 0
                THEN broken \cup {file[r]} ELSE broken

(* A statement fails: ROLLBACK, the error is thrown, finally unlocks.      *)
StatementFails(r) ==
    /\ at[r] \in {"look", "run", "record", "commit"} /\ errors < MaxErrors
    /\ errors' = errors + 1
    /\ Cancelled(r)
    /\ Goes(r, "unlockFailed")
    /\ UNCHANGED <<file, release, holder, recorded, ran, text, runs>>

(* The build waits for the statement of a runner that waits for the lock:  *)
(* PostgreSQL ends the deadlock by cancelling one of the two.              *)
Deadlock(r) ==
    /\ at[r] = "run" /\ file[r] \in OnlineFiles
    /\ \E s \in Runners \ {r} :
         /\ at[s] = "wait"
         /\ \/ Goes(s, "failed") /\ UNCHANGED broken
            \/ Goes(r, "unlockFailed") /\ Cancelled(r)
    /\ UNCHANGED <<file, release, holder, recorded, ran, text, runs, errors>>

(* Mutant: the lock is kept when a file has failed. *)
UnlockOnlyAfterSuccess(r) ==
    /\ at[r] \in {"unlock", "unlockFailed"}
    /\ holder' = IF at[r] = "unlock" THEN "none" ELSE holder
    /\ Goes(r, IF at[r] = "unlock" THEN "done" ELSE "failed")
    /\ UNCHANGED <<file, release, database, runs, errors>>

(* finally: pg_advisory_unlock.                                            *)
Unlock(r) ==
    /\ at[r] \in {"unlock", "unlockFailed"}
    /\ holder' = "none"
    /\ Goes(r, IF at[r] = "unlock" THEN "done" ELSE "failed")
    /\ UNCHANGED <<file, release, database, runs, errors>>

(* The process is killed, or its connection lost: the session ends.        *)
Crash(r) ==
    /\ at[r] \notin {"idle", "done", "failed"} /\ errors < MaxErrors
    /\ errors' = errors + 1
    /\ holder' = IF holder = r THEN "none" ELSE holder
    /\ Cancelled(r)
    /\ Goes(r, "idle")
    /\ UNCHANGED <<file, release, recorded, ran, text, runs>>

Step(r) ==
    \/ Lock(r) \/ Skip(r) \/ Refuse(r) \/ Apply(r) \/ Ends(r)
    \/ Run(r) \/ Record(r) \/ Commit(r) \/ Deadlock(r) \/ Unlock(r)

MigrationNext == \E r \in Runners :
    Step(r) \/ Start(r) \/ GivesUp(r) \/ StatementFails(r) \/ Crash(r)

MigrationSpec == MigrationInit /\ [][MigrationNext]_migrationVars

(* A statement that can go on does; PostgreSQL serves the waiting sessions.*)
MigrationFairSpec ==
    /\ MigrationSpec
    /\ \A r \in Runners : WF_migrationVars(Step(r)) /\ SF_migrationVars(Lock(r))

-----------------------------------------------------------------------------

Inside == {"look", "run", "record", "commit", "unlock", "unlockFailed"}
Places == Inside \cup {"idle", "wait", "done", "failed"}

(* The type invariant, with who is inside: exactly the runner that holds   *)
(* the advisory lock is past it, whatever has failed or been killed.       *)
MigrationTypeOK ==
    /\ at \in [Runners -> Places]
    /\ file \in [Runners -> 1..(NFiles + 1)]
    /\ release \in [Runners -> Releases]
    /\ recorded \in [Files -> Texts \cup {Absent, NoSum}]
    /\ ran \in [Files -> Nat]
    /\ text \in [Files -> Texts \cup {Absent}]
    /\ broken \subseteq OnlineFiles
    /\ holder \in Runners \cup {"none"}
    /\ runs \in Nat /\ errors \in Nat
    /\ \A r \in Runners : at[r] \in Inside <=> holder = r

(* Concurrent deployments, crashes between the statements and the COMMIT,  *)
(* and new runs over what is left: a file takes effect once, and it has    *)
(* taken effect exactly when schema_migrations says so.                    *)
AppliedOnce ==
    \A f \in Files \ OnlineFiles : ran[f] = IF recorded[f] = Absent THEN 0 ELSE 1

(* What is recorded of a file is the text that has run, whichever release  *)
(* has brought it first.  Files without a transaction are left out: one    *)
(* whose build has run, unrecorded, in an earlier release is found by IF   *)
(* NOT EXISTS and recorded with the text of the release that finds it.     *)
RecordedText ==
    \A f \in Files \ (Legacy \cup OnlineFiles) :
        recorded[f] # Absent => text[f] = recorded[f]

(* The ledger that the next deployment goes by agrees with the schema.     *)
LedgerIsTrue == AppliedOnce /\ RecordedText

(* A run that ends well leaves the whole release recorded, with its texts. *)
DoneIsComplete ==
    \A r \in Runners : at[r] = "unlock" =>
        \A f \in Files : release[r][f] \in {Absent, recorded[f]}

(* No deployment waits for ever: it gets the lock, or its run ends.        *)
NobodyWaits == \A r \in Runners : at[r] = "wait" ~> at[r] # "wait"

(* What schema_migrations calls applied is there, the index of an online   *)
(* file included.                                                          *)
RecordedIsComplete == \A f \in broken : recorded[f] = Absent
=============================================================================
