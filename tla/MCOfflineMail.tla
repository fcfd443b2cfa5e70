---------------------------- MODULE MCOfflineMail ----------------------------
(* Small instances of OfflineMail for TLC. *)
EXTENDS OfflineMail, TLC

Alike == Permutations(Message)
=============================================================================
