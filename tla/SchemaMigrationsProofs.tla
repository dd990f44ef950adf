----------------------- MODULE SchemaMigrationsProofs -----------------------
(***************************************************************************)
(* Proofs about SchemaMigrations: for any number of deployments, files,    *)
(* releases, failures and crashes, schema_migrations says what has been    *)
(* applied, and a run that ends well has recorded its whole release.       *)
(*                                                                         *)
(* Everything rests on the advisory lock.  Between two statements of the   *)
(* runner that holds it nobody changes schema_migrations, so what the      *)
(* runner has looked up stays true until it records.                       *)
(***************************************************************************)
EXTENDS SchemaMigrations, TLAPS

Applying == {"run", "record", "commit"}

(***************************************************************************)
(* The file a runner applies is one its release ships and schema_migrations*)
(* does not have; only a file with a transaction comes to a COMMIT.        *)
(***************************************************************************)
AppliesUnrecorded ==
    \A r \in Runners : at[r] \in Applying =>
        /\ file[r] \in Files
        /\ release[r][file[r]] # Absent
        /\ recorded[file[r]] = Absent
        /\ at[r] = "commit" => file[r] \notin OnlineFiles

\* The files a runner has passed are recorded with the texts of its release.
PassedIsRecorded ==
    \A r \in Runners : at[r] \in Applying \cup {"look", "unlock"} =>
        /\ \A f \in Files : f < file[r] => release[r][f] \in {Absent, recorded[f]}
        /\ at[r] = "unlock" => file[r] \notin Files

\* Only the earlier runner has left files without a checksum.
SumsAreOld == \A f \in Files : recorded[f] = NoSum => f \in Legacy

IInv ==
    /\ MigrationTypeOK
    /\ AppliesUnrecorded
    /\ PassedIsRecorded
    /\ SumsAreOld
    /\ LedgerIsTrue

-----------------------------------------------------------------------------

LEMMA InitKeeps == MigrationInit => IInv
<1> SUFFICES ASSUME MigrationInit PROVE IInv
  OBVIOUS
<1>1. MigrationTypeOK
  BY FilesAssumption DEF MigrationInit, MigrationTypeOK, Inside, Places, Files
<1>2. AppliesUnrecorded /\ PassedIsRecorded
  BY DEF MigrationInit, AppliesUnrecorded, PassedIsRecorded, Applying
<1>3. SumsAreOld /\ LedgerIsTrue
  BY FilesAssumption
     DEF MigrationInit, SumsAreOld, LedgerIsTrue, AppliedOnce, RecordedText
<1> QED
  BY <1>1, <1>2, <1>3 DEF IInv

\* Whoever moves to a place takes or releases the lock as the place requires.
LEMMA GoesKeeps ==
    ASSUME at \in [Runners -> Places],
           \A s \in Runners : at[s] \in Inside <=> holder = s,
           NEW r \in Runners, NEW place \in Places, Goes(r, place),
           place \in Inside <=> holder' = r,
           \A s \in Runners \ {r} : holder' = s <=> holder = s
    PROVE  /\ at' \in [Runners -> Places]
           /\ \A s \in Runners : at'[s] \in Inside <=> holder' = s
BY DEF Goes

LEMMA Shipped ==
    ASSUME MigrationTypeOK, NEW r \in Runners
    PROVE  release[r] \in [Files -> Texts \cup {Absent}]
BY FilesAssumption DEF MigrationTypeOK

\* A step keeps the types and moves the lock with the runner that holds it.
LEMMA TypeStep ==
    ASSUME IInv, [MigrationNext]_migrationVars
    PROVE  MigrationTypeOK'
<1> USE FilesAssumption DEF IInv, MigrationTypeOK
<1>1. CASE UNCHANGED migrationVars
  BY <1>1 DEF migrationVars
<1>2. ASSUME NEW r \in Runners, Step(r) PROVE MigrationTypeOK'
  <2> USE Shipped
  <2>1. CASE Lock(r)
    <3>1. "look" \in Places /\ "look" \in Inside /\ holder = "none" /\ holder' = r
      BY <2>1 DEF Lock, Inside, Places
    <3>2. Goes(r, "look")
      BY <2>1 DEF Lock
    <3> QED
      BY <2>1, <3>1, <3>2, GoesKeeps DEF Lock, database
  <2>2. CASE Ends(r) \/ Refuse(r) \/ Apply(r)
    <3>1. PICK place \in {"unlock", "unlockFailed", "run"} : Goes(r, place)
      BY <2>2 DEF Ends, Refuse, Apply
    <3>2. place \in Places /\ place \in Inside /\ holder = r /\ holder' = r
      BY <2>2 DEF Ends, Refuse, Apply, Inside, Places
    <3> QED
      BY <2>2, <3>1, <3>2, GoesKeeps DEF Ends, Refuse, Apply, database
  <2>3. CASE Skip(r)
    <3>1. file' \in [Runners -> 1..(NFiles + 1)]
      BY <2>3 DEF Skip, NextFile, Files
    <3>2. recorded' \in [Files -> Texts \cup {Absent, NoSum}]
      BY <2>3 DEF Skip
    <3> QED
      BY <2>3, <3>1, <3>2 DEF Skip
  <2>4. CASE Run(r)
    <3>1. "record" \in Places /\ "record" \in Inside /\ holder = r /\ holder' = r
      BY <2>4 DEF Run, Inside, Places
    <3>2. file[r] \in Files
      BY <2>4 DEF Run, AppliesUnrecorded, Applying
    <3>3. ran' \in [Files -> Nat] /\ text' \in [Files -> Texts \cup {Absent}]
      BY <2>4, <3>2 DEF Run, TakesEffect, NoEffect
    <3>4. Goes(r, "record") /\ UNCHANGED <<file, release, holder, recorded, broken, runs, errors>>
      BY <2>4 DEF Run
    <3> QED
      BY <3>1, <3>3, <3>4, GoesKeeps
  <2>5. CASE Record(r) \/ Commit(r)
    <3>1. PICK place \in {"look", "commit"} : Goes(r, place)
      BY <2>5 DEF Record, Commit
    <3>2. place \in Places /\ place \in Inside /\ holder = r /\ holder' = r
      BY <2>5 DEF Record, Commit, Inside, Places
    <3>3. file[r] \in Files
      BY <2>5 DEF Record, Commit, AppliesUnrecorded, Applying
    <3>4. file' \in [Runners -> 1..(NFiles + 1)]
      <4>1. file' = file \/ file' = [file EXCEPT ![r] = @ + 1]
        BY <2>5 DEF Record, Commit, NextFile
      <4>2. file[r] + 1 \in 1..(NFiles + 1)
        BY <3>3 DEF Files
      <4> QED
        BY <4>1, <4>2
    <3>5. recorded' \in [Files -> Texts \cup {Absent, NoSum}]
      BY <2>5, <3>3 DEF Record, Commit
    <3>6. ran' \in [Files -> Nat] /\ text' \in [Files -> Texts \cup {Absent}]
      BY <2>5, <3>3 DEF Record, Commit, TakesEffect
    <3> QED
      BY <2>5, <3>1, <3>2, <3>4, <3>5, <3>6, GoesKeeps DEF Record, Commit
  <2>6. CASE Deadlock(r)
    <3>1. holder = r /\ holder' = r
      BY <2>6 DEF Deadlock, Inside
    <3>2. PICK s \in Runners \ {r} :
            /\ at[s] = "wait"
            /\ \/ Goes(s, "failed") /\ UNCHANGED broken
               \/ Goes(r, "unlockFailed") /\ Cancelled(r)
      BY <2>6 DEF Deadlock
    <3>3. {"failed", "unlockFailed"} \subseteq Places /\ "failed" \notin Inside
          /\ "unlockFailed" \in Inside
      BY DEF Inside, Places
    <3>4. CASE Goes(s, "failed") /\ UNCHANGED broken
      BY <2>6, <3>1, <3>3, <3>4, GoesKeeps DEF Deadlock
    <3>5. CASE Goes(r, "unlockFailed") /\ Cancelled(r)
      <4>1. broken' \subseteq OnlineFiles
        BY <3>5 DEF Cancelled
      <4> QED
        BY <2>6, <3>1, <3>3, <3>5, <4>1, GoesKeeps DEF Deadlock
    <3> QED
      BY <3>2, <3>4, <3>5
  <2>7. CASE Unlock(r)
    <3>1. PICK place \in {"done", "failed"} : Goes(r, place)
      BY <2>7 DEF Unlock
    <3>2. place \in Places /\ place \notin Inside /\ holder = r /\ holder' = "none"
      BY <2>7 DEF Unlock, Inside, Places
    <3> QED
      BY <2>7, <3>1, <3>2, GoesKeeps DEF Unlock, database
  <2> QED
    BY <1>2, <2>1, <2>2, <2>3, <2>4, <2>5, <2>6, <2>7 DEF Step
<1>3. ASSUME NEW r \in Runners, Start(r) \/ GivesUp(r) PROVE MigrationTypeOK'
  <2>1. PICK place \in {"wait", "failed"} : Goes(r, place)
    BY <1>3 DEF Start, GivesUp
  <2>2. place \in Places /\ place \notin Inside /\ holder # r /\ holder' = holder
    BY <1>3 DEF Start, GivesUp, Inside, Places
  <2>3. release' \in [Runners -> Releases]
    BY <1>3 DEF Start, GivesUp
  <2> QED
    BY <1>3, <2>1, <2>2, <2>3, GoesKeeps DEF Start, GivesUp, database
<1>4. ASSUME NEW r \in Runners, StatementFails(r) \/ Crash(r)
      PROVE  MigrationTypeOK'
  <2>1. broken' \subseteq OnlineFiles
    BY <1>4 DEF StatementFails, Crash, Cancelled
  <2>2. CASE StatementFails(r)
    <3>1. "unlockFailed" \in Places /\ "unlockFailed" \in Inside /\ holder = r /\ holder' = r
      BY <2>2 DEF StatementFails, Inside, Places
    <3> QED
      BY <2>1, <2>2, <3>1, GoesKeeps DEF StatementFails
  <2>3. CASE Crash(r)
    <3>1. "idle" \in Places /\ "idle" \notin Inside
      BY DEF Inside, Places
    <3> QED
      BY <2>1, <2>3, <3>1, GoesKeeps DEF Crash
  <2> QED
    BY <1>4, <2>2, <2>3
<1> QED
  BY <1>1, <1>2, <1>3, <1>4 DEF MigrationNext

\* No two runners are past the lock.
LEMMA Alone ==
    ASSUME MigrationTypeOK, NEW r \in Runners, at[r] \in Inside,
           NEW s \in Runners, at[s] \in Inside
    PROVE  r = s
BY DEF MigrationTypeOK

\* What a runner knows of its release and of schema_migrations.
Knowledge == AppliesUnrecorded /\ PassedIsRecorded

LEMMA KnowledgeStep ==
    ASSUME IInv, [MigrationNext]_migrationVars
    PROVE  Knowledge'
<1> USE FilesAssumption DEF IInv
<1> MigrationTypeOK /\ MigrationTypeOK'
  BY TypeStep
<1> /\ \A s \in Runners : at[s] \in Inside <=> holder = s
    /\ \A s \in Runners : at'[s] \in Inside <=> holder' = s
    /\ at \in [Runners -> Places]
    /\ file \in [Runners -> 1..(NFiles + 1)]
  BY DEF MigrationTypeOK
<1> Applying \cup {"look", "unlock"} \subseteq Inside
  BY DEF Applying, Inside
(* A runner that is inside afterwards has been there before and knows what *)
(* it knew, or it has just come or learnt.                                 *)
<1>1. ASSUME NEW s \in Runners, at'[s] \in Applying \cup {"look", "unlock"},
             at[s] = at'[s], file'[s] = file[s], release'[s] = release[s],
             UNCHANGED recorded
      PROVE  /\ at'[s] \in Applying =>
                  /\ file'[s] \in Files
                  /\ release'[s][file'[s]] # Absent
                  /\ recorded'[file'[s]] = Absent
                  /\ at'[s] = "commit" => file'[s] \notin OnlineFiles
             /\ \A f \in Files : f < file'[s] => release'[s][f] \in {Absent, recorded'[f]}
             /\ at'[s] = "unlock" => file'[s] \notin Files
  BY <1>1 DEF AppliesUnrecorded, PassedIsRecorded
<1>2. CASE UNCHANGED migrationVars
  BY <1>2 DEF migrationVars, Knowledge, AppliesUnrecorded, PassedIsRecorded
(* Steps outside the lock.                                                 *)
<1>3. ASSUME NEW r \in Runners,
             Start(r) \/ GivesUp(r) \/ Unlock(r) \/ StatementFails(r) \/ Crash(r)
                      \/ Deadlock(r) \/ Refuse(r)
      PROVE  Knowledge'
  <2>1. UNCHANGED <<recorded, file>>
    BY <1>3 DEF Start, GivesUp, Unlock, StatementFails, Crash, Deadlock, Refuse, database
  <2>2. ASSUME NEW s \in Runners, at'[s] \in Applying \cup {"look", "unlock"}
        PROVE  at[s] = at'[s] /\ release'[s] = release[s]
    <3>1. PICK q \in Runners, place \in {"wait", "failed", "done", "unlockFailed", "idle"} :
            Goes(q, place) /\ (Start(r) => q = r)
      BY <1>3
         DEF Start, GivesUp, Unlock, StatementFails, Crash, Deadlock, Refuse
    <3>2. s # q /\ at[s] = at'[s]
      BY <2>2, <3>1 DEF Goes, Applying
    <3>3. release' = release \/ \E rel \in Releases : release' = [release EXCEPT ![r] = rel] /\ Start(r)
      BY <1>3 DEF Start, GivesUp, Unlock, StatementFails, Crash, Deadlock, Refuse, database
    <3> QED
      BY <3>1, <3>2, <3>3 DEF MigrationTypeOK
  <2> QED
    BY <1>1, <2>1, <2>2 DEF Knowledge, AppliesUnrecorded, PassedIsRecorded
(* Steps of the one runner that is inside.                                 *)
<1>4. ASSUME NEW r \in Runners, Lock(r) \/ Ends(r) \/ Apply(r) \/ Run(r)
      PROVE  Knowledge'
  <2>1. UNCHANGED <<recorded, release>>
    BY <1>4 DEF Lock, Ends, Apply, Run, database
  <2>2. holder' = r
    BY <1>4 DEF Lock, Ends, Apply, Run, Inside
  <2>3. \A s \in Runners : at'[s] \in Applying \cup {"look", "unlock"} => s = r
    BY <2>2
  <2>4. CASE Lock(r)
    BY <2>1, <2>3, <2>4
       DEF Lock, Goes, Knowledge, AppliesUnrecorded, PassedIsRecorded, Applying, Files
  <2>5. CASE Ends(r)
    BY <2>1, <2>3, <2>5
       DEF Ends, Goes, Knowledge, AppliesUnrecorded, PassedIsRecorded, Applying
  <2>6. CASE Apply(r)
    BY <2>1, <2>3, <2>6
       DEF Apply, Goes, Knowledge, AppliesUnrecorded, PassedIsRecorded, Applying
  <2>7. CASE Run(r)
    <3>1. at[r] = "run" /\ at'[r] = "record" /\ file' = file
      BY <2>7 DEF Run, Goes
    <3> QED
      BY <2>1, <2>3, <3>1 DEF Knowledge, AppliesUnrecorded, PassedIsRecorded, Applying
  <2> QED
    BY <1>4, <2>4, <2>5, <2>6, <2>7
(* The steps that pass or record a file.                                   *)
<1>5. ASSUME NEW r \in Runners, Skip(r) \/ Record(r) \/ Commit(r)
      PROVE  Knowledge'
  <2>1. UNCHANGED release /\ holder' = r /\ file[r] \in Files
    BY <1>5 DEF Skip, Record, Commit, Inside, AppliesUnrecorded, Applying
  <2>2. \A s \in Runners : at'[s] \in Applying \cup {"look", "unlock"} => s = r
    BY <2>1
  <2>3. recorded \in [Files -> Texts \cup {Absent, NoSum}]
    BY DEF MigrationTypeOK
  <2>4. CASE Record(r) /\ file[r] \notin OnlineFiles
    <3>1. at[r] = "record" /\ at'[r] = "commit" /\ UNCHANGED <<file, recorded>>
      BY <2>4 DEF Record, Goes
    <3> QED
      BY <2>1, <2>2, <2>4, <3>1 DEF Knowledge, AppliesUnrecorded, PassedIsRecorded, Applying
  <2>5. CASE Skip(r) \/ Commit(r) \/ (Record(r) /\ file[r] \in OnlineFiles)
    <3>1. /\ at'[r] = "look"
          /\ file' = [file EXCEPT ![r] = @ + 1]
      BY <2>5 DEF Skip, Commit, Record, Goes, NextFile
    <3>2. \A f \in Files : f < file[r] => release[r][f] \in {Absent, recorded[f]}
      BY <2>5 DEF Skip, Commit, Record, PassedIsRecorded, Applying
    <3>3. /\ release[r][file[r]] \in {Absent, recorded'[file[r]]}
          /\ \A f \in Files \ {file[r]} : recorded'[f] = recorded[f]
      BY <2>1, <2>3, <2>5 DEF Skip, Commit, Record
    <3>4. \A f \in Files : f < file'[r] => f < file[r] \/ f = file[r]
      BY <3>1, <2>1 DEF Files
    <3>5. \A f \in Files : f < file'[r] => release'[r][f] \in {Absent, recorded'[f]}
      BY <2>1, <3>2, <3>3, <3>4 DEF Files
    <3> QED
      BY <2>2, <3>1, <3>5 DEF Knowledge, AppliesUnrecorded, PassedIsRecorded, Applying
  <2> QED
    BY <1>5, <2>4, <2>5
<1> QED
  BY <1>2, <1>3, <1>4, <1>5 DEF MigrationNext, Step

\* The checksums that are missing are the old ones, and the ledger is true.
LEMMA LedgerStep ==
    ASSUME IInv, [MigrationNext]_migrationVars
    PROVE  SumsAreOld' /\ LedgerIsTrue'
<1> USE FilesAssumption DEF IInv
<1> /\ recorded \in [Files -> Texts \cup {Absent, NoSum}]
    /\ ran \in [Files -> Nat]
    /\ text \in [Files -> Texts \cup {Absent}]
    /\ MigrationTypeOK
  BY DEF MigrationTypeOK
<1>1. ASSUME UNCHANGED recorded,
             \A f \in Files \ OnlineFiles : ran'[f] = ran[f] /\ text'[f] = text[f]
      PROVE  SumsAreOld' /\ LedgerIsTrue'
  BY <1>1 DEF SumsAreOld, LedgerIsTrue, AppliedOnce, RecordedText
<1>2. CASE UNCHANGED migrationVars
  BY <1>1, <1>2 DEF migrationVars
<1>3. ASSUME NEW r \in Runners,
             \/ Start(r) \/ GivesUp(r) \/ StatementFails(r) \/ Crash(r) \/ Lock(r)
             \/ Refuse(r) \/ Apply(r) \/ Ends(r) \/ Deadlock(r) \/ Unlock(r)
      PROVE  SumsAreOld' /\ LedgerIsTrue'
  <2>1. UNCHANGED <<recorded, ran, text>>
    BY <1>3 DEF Start, GivesUp, StatementFails, Crash, Lock, Refuse, Apply, Ends,
                Deadlock, Unlock, database
  <2> QED
    BY <1>1, <2>1
<1>4. ASSUME NEW r \in Runners, Step(r) PROVE SumsAreOld' /\ LedgerIsTrue'
  <2> DEFINE f == file[r]
  <2>1. CASE Skip(r)
    <3>1. f \in Files /\ UNCHANGED <<ran, text>>
      BY <2>1 DEF Skip
    <3>2. CASE UNCHANGED recorded
      BY <1>1, <3>1, <3>2
    <3>3. CASE /\ Absent \notin {release[r][f], recorded[f]}
               /\ ~Mismatch(r, f)
               /\ recorded' = [recorded EXCEPT ![f] = release[r][f]]
      <4>1. release[r][f] \in Texts
        BY <3>1, <3>3, Shipped
      <4>2. f \notin Legacy => recorded[f] = release[r][f]
        BY <3>1, <3>3 DEF Mismatch, SumsAreOld
      <4> QED
        BY <3>1, <3>3, <4>1, <4>2
           DEF SumsAreOld, LedgerIsTrue, AppliedOnce, RecordedText
    <3> QED
      BY <2>1, <3>2, <3>3 DEF Skip
  <2>2. CASE Run(r)
    <3>1. f \in Files
      BY <2>2 DEF Run, AppliesUnrecorded, Applying
    <3>2. \A g \in Files \ OnlineFiles : ran'[g] = ran[g] /\ text'[g] = text[g]
      BY <2>2, <3>1 DEF Run, TakesEffect, NoEffect
    <3> QED
      BY <1>1, <2>2, <3>2 DEF Run
  <2>3. CASE Record(r) \/ Commit(r)
    <3>1. /\ f \in Files /\ release[r][f] # Absent /\ recorded[f] = Absent
          /\ Commit(r) => f \notin OnlineFiles
      BY <2>3 DEF Record, Commit, AppliesUnrecorded, Applying
    <3>2. release[r][f] \in Texts
      BY <3>1, Shipped
    <3>3. CASE Record(r)
      BY <3>1, <3>2, <3>3
         DEF Record, SumsAreOld, LedgerIsTrue, AppliedOnce, RecordedText
    <3>4. CASE Commit(r)
      BY <3>1, <3>2, <3>4
         DEF Commit, TakesEffect, SumsAreOld, LedgerIsTrue, AppliedOnce, RecordedText
    <3> QED
      BY <2>3, <3>3, <3>4
  <2> QED
    BY <1>3, <1>4, <2>1, <2>2, <2>3 DEF Step
<1> QED
  BY <1>2, <1>3, <1>4 DEF MigrationNext

LEMMA Invariant == MigrationSpec => []IInv
<1>1. IInv /\ [MigrationNext]_migrationVars => IInv'
  BY TypeStep, KnowledgeStep, LedgerStep DEF Knowledge, IInv
<1> QED
  BY <1>1, InitKeeps, PTL DEF MigrationSpec

-----------------------------------------------------------------------------

\* The variables keep their types, and a runner is past the advisory lock
\* exactly while it holds it: no two deployments run migrations at once.
THEOREM TypeCorrect == MigrationSpec => []MigrationTypeOK
<1>1. IInv => MigrationTypeOK
  BY DEF IInv
<1> QED
  BY <1>1, Invariant, PTL

\* A file of a transaction has taken effect once if schema_migrations has it
\* and not at all otherwise, and what is recorded of it is the text that ran.
THEOREM LedgerTrue == MigrationSpec => []LedgerIsTrue
<1>1. IInv => LedgerIsTrue
  BY DEF IInv
<1> QED
  BY <1>1, Invariant, PTL

\* A run that ends well leaves every file of its release recorded.
THEOREM DoneComplete == MigrationSpec => []DoneIsComplete
<1>1. IInv => DoneIsComplete
  <2> SUFFICES ASSUME IInv, NEW r \in Runners, at[r] = "unlock", NEW f \in Files
               PROVE  release[r][f] \in {Absent, recorded[f]}
    BY DEF DoneIsComplete
  <2>1. file[r] \in 1..(NFiles + 1) /\ file[r] \notin Files
    BY DEF IInv, MigrationTypeOK, PassedIsRecorded
  <2>2. f < file[r]
    BY <2>1, FilesAssumption DEF Files
  <2> QED
    BY <2>2 DEF IInv, PassedIsRecorded
<1> QED
  BY <1>1, Invariant, PTL
=============================================================================
