-------------------------- MODULE MCCommandPipeline --------------------------
(* Two motion commands that may be exchanged, and one that does not move.   *)
EXTENDS CommandPipeline, TLC

CONSTANTS m1, m2, c1

AllIds == {m1, m2, c1}
MotionIds == {m1, m2}
MotionSymmetry == Permutations(MotionIds)
=============================================================================
