---------------------------- MODULE MCLapCapture ----------------------------
(* Instances of LapCapture for TLC. *)
EXTENDS LapCapture

FastAndSlow == {1, 2}
=============================================================================
