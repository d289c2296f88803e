------------------------------ MODULE MCLanSync ------------------------------
(***************************************************************************)
(* Small instances of LanSync for TLC.                                     *)
(***************************************************************************)
EXTENDS LanSync, TLC

Symmetry == Permutations(Requests) \cup Permutations(Versions) \cup Permutations(Inodes)
=============================================================================
