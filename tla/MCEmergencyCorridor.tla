------------------------ MODULE MCEmergencyCorridor ------------------------
(***************************************************************************)
(* Instances of EmergencyCorridor: two events and two or three             *)
(* deactivations, so that corridors overlap and one is deactivated twice.  *)
(***************************************************************************)
EXTENDS EmergencyCorridor, TLC

Symmetry == Permutations(Workers) \cup Permutations(Events) \cup Permutations(Deacts)
=============================================================================
