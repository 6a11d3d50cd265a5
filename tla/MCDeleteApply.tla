---------------------------- MODULE MCDeleteApply ----------------------------
(* A GRE tunnel with its transport, and a VLAN on a bridge.                *)
EXTENDS DeleteApply

CONSTANTS gre, vlan, bridge

Interfaces == {gre, vlan, bridge}
OnBridge == {<<vlan, bridge>>}
TunnelOnly == {gre}
NoNeeds == {}
=============================================================================
