------------------------------- MODULE MCRooms -------------------------------
(* Small instances of Rooms for TLC. *)
EXTENDS Rooms

CONSTANTS ann, ben

AnnBen == <<ann, ben>>
=============================================================================
