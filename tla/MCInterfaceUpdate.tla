-------------------------- MODULE MCInterfaceUpdate --------------------------
(* An ethernet with a vlan, next to a wireguard and an openvpn interface or *)
(* to an ethernet that sorts first.                                        *)
EXTENDS InterfaceUpdate

CONSTANTS eth0, eth1, vlan, wg, ovpn

VlanOnEth == {<<vlan, eth1>>}
OneVlan == {vlan}

Gateway == {eth1, vlan, wg, ovpn}
RankInGateway == [i \in Gateway |-> CASE i = eth1 -> 1 [] i = vlan -> 2 [] i = wg -> 3 [] i = ovpn -> 4]
OneWireguard == {wg}
OneOpenvpn == {ovpn}

Switch == {eth0, eth1, vlan}
RankInSwitch == [i \in Switch |-> CASE i = eth0 -> 1 [] i = eth1 -> 2 [] i = vlan -> 3]
Nothing == {}
=============================================================================
