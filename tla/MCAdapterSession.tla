--------------------------- MODULE MCAdapterSession ---------------------------
(* Model values for TLC: connections are interchangeable. *)
EXTENDS AdapterSession, TLC

ConnSymmetry == Permutations(Conns)
=============================================================================
