----------------------------- MODULE MCRoutines -----------------------------
(* Instances of Routines for TLC. *)
EXTENDS Routines
CONSTANTS b1, r1, r2, d1
OneBotOneRoutine == [r \in {r1} |-> b1]
OneBotTwoRoutines == [r \in {r1, r2} |-> b1]
=============================================================================
