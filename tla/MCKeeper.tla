------------------------------ MODULE MCKeeper ------------------------------
(* Keeper for TLC. *)
EXTENDS Keeper
=============================================================================
