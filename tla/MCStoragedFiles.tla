-------------------------- MODULE MCStoragedFiles --------------------------
(* Model checking StoragedFiles.  Neither the neighbours nor the segments  *)
(* are told apart: QueryFile takes every list and every requested segment. *)
EXTENDS StoragedFiles, TLC

Symmetry == Permutations(Peers) \cup Permutations(Segments)

=============================================================================
