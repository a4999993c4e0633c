-------------------------- MODULE MCPlacementGroup --------------------------
(***************************************************************************)
(* Model values and symmetry for PlacementGroup.                           *)
(***************************************************************************)
EXTENDS PlacementGroup, TLC

Symmetry == Permutations(Machine)

=============================================================================
