----------------------------- MODULE MCListener -----------------------------
(* Instances of Listener for TLC. *)
EXTENDS Listener

AllSessions == {"race", "practice", "excluded"}
JustPractice == {"practice"}

Laps            == {"lap"}
LapsAndDamage   == {"lap", "damage"}
LapsAndMotionEx == {"lap", "motion_ex"}

NoFaults    == {}
AnchorFault == {"anchor_read"}
InsertFault == {"session_insert"}
DeleteFault == {"delete"}

NoLag  == {0}
AnyLag == {0, 1}
=============================================================================
