---------------------------- MODULE MCHotUpdate ----------------------------
(***************************************************************************)
(* Devices for HotUpdate.                                                  *)
(***************************************************************************)
EXTENDS HotUpdate

\* The management network, then one device of another kind.
DHCPAndStatic == [i \in Dev |-> IF i = 1 THEN "DHCP" ELSE "IPV4"]
StaticAndDHCP == [i \in Dev |-> IF i = 1 THEN "IPV4" ELSE "DHCP"]
DHCPAndNone == [i \in Dev |-> IF i = 1 THEN "DHCP" ELSE "NONE"]

=============================================================================
