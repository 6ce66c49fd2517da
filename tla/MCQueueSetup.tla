----------------------------- MODULE MCQueueSetup -----------------------------
(* Values of QueueSetup's constants for TLC, and its symmetry. *)
EXTENDS QueueSetup, TLC

(* Two entries, as the upgrade path has them once there is a second. *)
MCMigrations == <<<<"table", "index">>, <<"later index">>>>

MCNetStates == {[isConnected |-> TRUE, isInternetReachable |-> NULL],
                [isConnected |-> TRUE, isInternetReachable |-> FALSE],
                [isConnected |-> NULL, isInternetReachable |-> NULL]}

Symmetry == Permutations(Instances)
==============================================================================
