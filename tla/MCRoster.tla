------------------------------ MODULE MCRoster ------------------------------
(* Small instances of Roster for TLC. *)
EXTENDS Roster

\* The changes of one story: 2, an admin, lets 5 in; 5 becomes an admin and removes 3; 2 turns out to be stolen.
Told ==
  {Entry("promote", 1, 2, 2, FALSE), Entry("admit", 2, 3, 5, FALSE), Entry("promote", 1, 4, 5, FALSE),
   Entry("remove", 5, 5, 3, FALSE), Entry("remove", 1, 6, 2, TRUE)}
InStory == \A c \in Computer : \A s \in roster[c].log : s.at = 1 \/ s.kind = "locate" \/ s \in Told
=============================================================================
