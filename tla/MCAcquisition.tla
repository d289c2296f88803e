---------------------------- MODULE MCAcquisition ----------------------------
(***************************************************************************)
(* Small instances of Acquisition for TLC: model values for tracks, URLs,  *)
(* extensions and workers come from the cfg files.                         *)
(***************************************************************************)
EXTENDS Acquisition, TLC

Symmetry == Permutations(Tracks) \cup Permutations(Workers)
ChoiceSymmetry == Permutations(Videos) \cup Permutations(Metas)
=============================================================================
