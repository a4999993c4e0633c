--------------------------- MODULE MCControlPlane ---------------------------
(***************************************************************************)
(* ControlPlane for TLC: the hosts are model values.                       *)
(***************************************************************************)
EXTENDS ControlPlane, TLC

=============================================================================
