------------------------------ MODULE MCRelease ------------------------------
(***************************************************************************)
(* TLC instance of Release.                                                *)
(***************************************************************************)
EXTENDS Release, TLC

Interchangeable == Permutations(Callers) \cup Permutations(Admins)
=============================================================================
