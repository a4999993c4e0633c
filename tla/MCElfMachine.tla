---------------------------- MODULE MCElfMachine ----------------------------
(***************************************************************************)
(* Model values and symmetry for ElfMachine.                               *)
(***************************************************************************)
EXTENDS ElfMachine, TLC

Symmetry == Permutations(VM) \cup Permutations(Task)

=============================================================================
