-------------------------- MODULE MCGPUAllocation --------------------------
(***************************************************************************)
(* Devices, hosts and requirements for GPUAllocation.                      *)
(***************************************************************************)
EXTENDS GPUAllocation, TLC

CONSTANTS m1, m2, h1, h2, g1, g2, g3

\* vGPU: m1 needs all of one device or a part of two, m2 a part of one.
VGPUHostOf == (g1 :> h1) @@ (g2 :> h1) @@ (g3 :> h2)
VGPUCap == (g1 :> 2) @@ (g2 :> 1) @@ (g3 :> 2)
VGPUNeed == (m1 :> 2) @@ (m2 :> 1)

=============================================================================
