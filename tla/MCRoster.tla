------------------------------ MODULE MCRoster ------------------------------
(* Instances of Roster for TLC. *)
EXTENDS Roster

TwoCars   == {0, 1}
Drivers   == {"ann", "bob", "cat"}
Unnamed   == {"bob", "cat"}
OwnPlates == [p \in Drivers |-> CASE p = "ann" -> 1 [] p = "bob" -> 2 [] OTHER -> 3]
KnownTeams == {1, 2}
Starts    == {[c \in TwoCars |-> IF c = 0 THEN "bob" ELSE "ai"],
              [c \in TwoCars |-> IF c = 0 THEN "ann" ELSE "bob"]}
AllCodes  == {"OVTK", "PENA", "SPTP", "FTLP"}
=============================================================================
