----------------------------- MODULE MCUploadSends -----------------------------
(***************************************************************************)
(* UploadSends on small instances.                                         *)
(***************************************************************************)
EXTENDS UploadSends, TLC

\* Instances are interchangeable; for safety runs only.
Symmetry == Permutations(Instances)
================================================================================
