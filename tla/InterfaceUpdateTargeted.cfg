\* gw update iface/<name> renumbers that interface only.
SPECIFICATION Spec
CONSTANTS
    eth0 = eth0
    eth1 = eth1
    vlan = vlan
    wg = wg
    ovpn = ovpn
    Interfaces <- Switch
    Rank <- RankInSwitch
    References <- VlanOnEth
    Wireguard <- Nothing
    Helper <- Nothing
    Leftover <- Nothing
    MaxEdits = 2
    MaxUpdates = 2
    MaxFaults = 0
INVARIANTS
    NumbersAlwaysFollow
CHECK_DEADLOCK FALSE
