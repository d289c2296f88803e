------------------------------ MODULE MCLibrary ------------------------------
(***************************************************************************)
(* A small instance of Library for TLC: a playlist is renamed to "Liked    *)
(* Songs", which is taken, while another one takes over its old name, and  *)
(* back.  The first track is acquired and retagged; the second stays       *)
(* missing, so that it is only counted.                                    *)
(***************************************************************************)
EXTENDS Library, TLC

CONSTANTS q1, q2

List(name, tracks) == [name |-> name, tracks |-> tracks]

MCCandidates == {
  [liked |-> {2}, playlists |-> (q1 :> List("a", {1}))],
  [liked |-> {}, playlists |-> (q1 :> List(LikedSongs, {1})) @@ (q2 :> List("a", {}))]}

MCBytes == <<2, 0>>

Symmetry == Permutations(Refreshers)
=============================================================================
