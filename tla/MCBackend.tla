---------------------------- MODULE MCBackend ----------------------------
(* Parts of the backend on small instances, side by side: of the circuit   *)
(* breaker, the pairing endpoints, the presence of a device, the shadow    *)
(* repositories and the schema migrations one moves and the others stay in *)
(* an initial state.                                                       *)
(*   breaker   CircuitBreaker                                              *)
(*   presence  Presence: the connections of a device to two processes     *)
(*   rows      ShadowSync: overlapping requests on one record              *)
(*   faults    ShadowSync: overlapping requests on two records, one fault  *)
(*   names     ShadowSync: three requests, two records, one name           *)
(*   calm      ShadowSync: requests one after the other, no fault          *)
(*   outage    ShadowSync: a request and its repair, any number of faults  *)
(*   pairing   Pairing: its endpoints with any client                      *)
(*   schema    SchemaMigrations: two deployments                           *)
EXTENDS CircuitBreaker, Pairing, SchemaMigrations, Sequences, TLC

CONSTANTS Parts, Nothing, Writers, Three, Records, Names, r1, n1, Text1, Text2
VARIABLES
    part,
    status, beat, phase, conn, buffer, batches, timer, leaving,
    doc, row, docOrder, rowOrder, wrote, slot, repair, parity, faults

breakerVars == vars
presenceVars == <<status, beat, phase, conn, buffer, batches, timer, leaving>>
shadowVars == <<doc, row, docOrder, rowOrder, wrote, slot, repair, parity, faults>>
allVars == <<part, breakerVars, backend, presenceVars, shadowVars, migrationVars>>

Presence == INSTANCE Presence WITH
    Nodes <- {"n1", "n2"}, Slots <- {"s"}, DegradedAge <- 1, OfflineAge <- 2,
    MaxPhase <- 1, MaxBatches <- 1

Rows == INSTANCE ShadowSync WITH
    Calls <- Writers, Records <- {r1}, Overlap <- TRUE, Endless <- FALSE,
    MaxFaults <- 1, MaxTries <- 3, SampleLimit <- 2
Faults == INSTANCE ShadowSync WITH
    Calls <- Writers, Names <- {n1}, Overlap <- TRUE, Endless <- FALSE,
    MaxFaults <- 1, MaxTries <- 3, SampleLimit <- 2
Taken == INSTANCE ShadowSync WITH
    Calls <- Three, Names <- {n1}, Overlap <- TRUE, Endless <- FALSE,
    MaxFaults <- 0, MaxTries <- 3, SampleLimit <- 2
Calm == INSTANCE ShadowSync WITH
    Calls <- Three, Overlap <- FALSE, Endless <- FALSE,
    MaxFaults <- 0, MaxTries <- 3, SampleLimit <- 2
Outage == INSTANCE ShadowSync WITH
    Calls <- Writers, Records <- {r1}, Names <- {n1}, Overlap <- TRUE, Endless <- TRUE,
    MaxFaults <- 0, MaxTries <- 3, SampleLimit <- 2

(* Releases that ship one file more each, and one in which files that may   *)
(* have been applied are edited.                                           *)
ShippedReleases == {
    [f \in 1..3 |-> IF f < 3 THEN Text1 ELSE Absent],
    [f \in 1..3 |-> Text1],
    [f \in 1..3 |-> IF f \in {2, 3} THEN Text2 ELSE Text1] }

ASSUME /\ Presence!AgeAssumption
       /\ Rows!ShadowAssumption /\ Faults!ShadowAssumption
       /\ Taken!ShadowAssumption
       /\ Calm!ShadowAssumption /\ Outage!ShadowAssumption

BackendInit ==
    /\ part \in Parts
    /\ Init /\ PairingInit /\ Presence!Init /\ MigrationInit
    /\ \/ part = "faults" /\ Faults!Init
       \/ part = "names" /\ Taken!Init
       \/ part = "calm" /\ Calm!Init
       \/ part = "outage" /\ Outage!Init
       \/ part \notin {"faults", "names", "calm", "outage"} /\ Rows!Init
    /\ part # "schema" =>
         text[1] = Text1 /\ \A r \in Runners : release[r][3] = Absent

Moves(p) ==
    /\ part = p /\ UNCHANGED part
    /\ p # "breaker" => UNCHANGED breakerVars
    /\ p # "pairing" => UNCHANGED backend
    /\ p # "presence" => UNCHANGED presenceVars
    /\ p \notin {"rows", "faults", "names", "calm", "outage"} => UNCHANGED shadowVars
    /\ p # "schema" => UNCHANGED migrationVars

BackendNext ==
    \/ Moves("breaker") /\ Next
    \/ Moves("pairing") /\ PairingNext
    \/ Moves("presence") /\ Presence!Next
    \/ Moves("rows") /\ Rows!Next
    \/ Moves("faults") /\ Faults!Next
    \/ Moves("names") /\ Taken!Next
    \/ Moves("calm") /\ Calm!Next
    \/ Moves("outage") /\ Outage!Next
    \/ Moves("schema") /\ MigrationNext

BackendSpec == BackendInit /\ [][BackendNext]_allVars
(* The fairness of each part, for as long as it is the part that moves.    *)
BackendFairSpec ==
    /\ BackendSpec
    /\ WF_breakerVars(part = "breaker" /\ ResetTimeoutElapses)
    /\ \A c \in Callers : WF_breakerVars(part = "breaker" /\ (Succeed(c) \/ Fail(c)))
    /\ WF_breakerVars(part = "breaker" /\ \E c \in Callers : Admit(c) \/ AdmitProbe(c))
    /\ WF_presenceVars(part = "presence" /\ Presence!Handler("s"))
    /\ WF_presenceVars(part = "presence" /\ Presence!Heartbeat("s"))
    /\ \A n \in {"n1", "n2"} :
         /\ WF_presenceVars(part = "presence" /\ Presence!Flush(n))
         /\ WF_presenceVars(part = "presence" /\ Presence!TimerFires(n))
    /\ WF_presenceVars(part = "presence" /\ Presence!Callback)
    /\ WF_presenceVars(part = "presence" /\ Presence!Tick)
    /\ \A s \in Outage!Slots : WF_shadowVars(part = "outage" /\ Outage!Goes(s))
    /\ \A r \in Runners : WF_migrationVars(part = "schema" /\ Step(r))
    /\ SF_presenceVars(part = "presence" /\ Presence!Sweep)
    /\ SF_allVars(\/ Moves("presence") /\ Presence!BatchWritten("n1")
                  \/ Moves("schema") /\ Lock("a"))
    /\ SF_allVars(\/ Moves("presence") /\ Presence!BatchWritten("n2")
                  \/ Moves("schema") /\ Lock("b"))

Symmetry == Permutations(Writers) \union Permutations(Three)
            \union Permutations(Proofs) \union Permutations(Codes)

-----------------------------------------------------------------------------
(* What the parts promise; CircuitBreaker, Pairing and SchemaMigrations     *)
(* state it under the names the configurations use.                        *)

\* The parts keep their types, a claim of a pairing code belongs to a
\* confirmation under way, a runner of the migrations is past the advisory lock
\* exactly while it holds it, and a disconnect of a device leads to one delayed
\* transition: a pending timer or the callback it became, never both.
BackendTypeOK ==
    /\ TypeOK /\ PairingTypeOK /\ MigrationTypeOK
    /\ Presence!TypeOK
    /\ part = "rows" => Rows!TypeOK
    /\ part = "faults" => Faults!TypeOK
    /\ part = "calm" => Calm!TypeOK

\* A shadow row is a version its document once had, whatever requests overlap,
\* and what the shadow reports of itself is true: a parity
\* check that nothing disturbed passes only if the shadow holds the documents
\* and fails only over a real difference, and a repair that nothing disturbed
\* leaves every document there or reports that it failed.  A write that nothing
\* overlapped and that succeeded leaves its record right, and requests that do
\* not overlap leave no difference.
ShadowReportsAreTrue ==
    /\ [](/\ part = "rows" => Rows!RowsAreVersions
          /\ part = "faults" => Faults!PassedParityIsTrue /\ Faults!RepairReachesDocuments
          /\ part = "names" => Taken!PassedParityIsTrue /\ Taken!RepairReachesDocuments
          /\ part = "calm" => Calm!CalmShadowAgrees /\ Calm!FailedParityIsTrue)
    /\ [][part = "faults" => Faults!LoneWriteReaches]_allVars

\* A device whose connections are gone for good is stored offline in the end
\* and one that stays connected online, whichever process wrote last; and a
\* shadow write ends however often it fails.
BackendSettles ==
    /\ part = "presence" => Presence!GoneEventuallyOffline
    /\ part = "presence" => Presence!PresentEventuallyOnline
    /\ part = "outage" => Outage!WritesEnd
=============================================================================
