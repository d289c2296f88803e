---------------------------- MODULE MCMetadataRefresh ----------------------------
(***************************************************************************)
(* Small instances of MetadataRefresh for TLC.                             *)
(***************************************************************************)
EXTENDS MetadataRefresh, TLC

Symmetry == Permutations(Foreign)
=============================================================================
