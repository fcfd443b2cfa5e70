--------------------------- MODULE MCTeamRequests ---------------------------
(* Small instances of TeamRequests for TLC. *)
EXTENDS TeamRequests

CONSTANTS lead, reviewer
=============================================================================
