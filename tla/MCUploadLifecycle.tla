--------------------------- MODULE MCUploadLifecycle ---------------------------
(***************************************************************************)
(* UploadLifecycle on small instances.                                     *)
(***************************************************************************)
EXTENDS UploadLifecycle, TLC

\* Instances are interchangeable, and so are clients; for safety runs only.
Symmetry == Permutations(Instances) \cup Permutations(Clients)
================================================================================
