---------------------------- MODULE MCFramePath ----------------------------
(* FramePath on small instances. *)
EXTENDS FramePath, TLC

FrameSymmetry == Permutations(Frames)
=============================================================================
