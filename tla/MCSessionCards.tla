--------------------------- MODULE MCSessionCards ---------------------------
(* Instances of SessionCards for TLC. *)
EXTENDS SessionCards

TwoWeekends == {"Monza", "Spa"}

\* Two sessions of a weekend and then another; and a weekend that is taken up again.
OnwardAndBack == {<<"Monza", "Monza", "Spa">>, <<"Monza", "Spa", "Monza">>}
=============================================================================
