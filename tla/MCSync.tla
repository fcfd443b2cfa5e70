------------------------------- MODULE MCSync -------------------------------
(* Small instances of Sync for TLC. *)
EXTENDS Sync, TLC

Alike == Permutations(Bot)
=============================================================================
