---------------------------- MODULE MCSqliteStorage ----------------------------
(* SqliteStorage's symmetry for TLC. *)
EXTENDS SqliteStorage, TLC

Symmetry == Permutations(Ids) \cup Permutations(Tokens)
==============================================================================
