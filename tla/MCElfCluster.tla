---------------------------- MODULE MCElfCluster ----------------------------
(***************************************************************************)
(* Values and symmetry for ElfCluster.                                     *)
(***************************************************************************)
EXTENDS ElfCluster, TLC

CONSTANTS zoneA, zoneB

\* One failure domain; or two and one without a compute cluster.
SomeDomains == {{zoneA}, {zoneA, zoneB, NoCluster}}

OneDomain == {{zoneA}}

Symmetry == Permutations(Machine)

=============================================================================
