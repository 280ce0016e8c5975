-------------------------- MODULE MCFrameAssembly --------------------------
(* Instances of FrameAssembly for TLC. *)
EXTENDS FrameAssembly, TLC

CONSTANTS s1, s2, s3, lapData, carDamage

OneSession    == {s1}
ThreeSessions == {s1, s2, s3}
TwoFrames     == 1..2
ThreeFrames   == 1..3
OnePacket     == {lapData}
TwoPackets    == {lapData, carDamage}
LapTriggers   == {lapData}
Damage        == {carDamage}
NoDamage      == {}
AllOutcomes   == SUBSET Tables
NoFailure     == {Tables}

SessionSymmetry == Permutations(Sessions)

=============================================================================
