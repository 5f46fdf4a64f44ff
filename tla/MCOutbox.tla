------------------------------ MODULE MCOutbox ------------------------------
(***************************************************************************)
(* TLC instance of Outbox.                                                 *)
(***************************************************************************)
EXTENDS Outbox, TLC

Interchangeable == Permutations(Dispatchers)
=============================================================================
