---------------------------- MODULE MCCommands ----------------------------
(* The command path on small instances.  In part "path" the whole of it    *)
(* moves, with the Android player at the other end and a database that     *)
(* answers.  In part "client" the backend moves alone and the client sends *)
(* whatever a socket lets it send; in part "faulty" the same on one socket *)
(* with calls of the database that fail.                                   *)
EXTENDS CommandDelivery, CommandBackend, TLC

CONSTANTS Parts, OneSocket
VARIABLE part

ASSUME PacketsAssumption /\ OneSocket \subseteq Sockets

CommandsInit == part \in Parts /\ Init

CommandsNext ==
    /\ UNCHANGED part
    /\ \/ part = "path" /\ Next /\ faults' = 0
       \/ part = "client" /\ AnyClientNext /\ faults' = 0 /\ UNCHANGED playerVars
       \/ /\ part = "faulty" /\ AnyClientNext /\ UNCHANGED playerVars
          /\ \A s \in Sockets \ OneSocket : sock'[s] = "unused"

CommandsSpec == CommandsInit /\ [][CommandsNext]_<<part, vars>>

Symmetry == Permutations(Procs)
=============================================================================
