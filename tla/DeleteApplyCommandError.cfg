\* A failing daemon-reload after the files of the resource are gone.
SPECIFICATION Spec
CONSTANTS
    gre = gre
    vlan = vlan
    bridge = bridge
    Selected <- Interfaces
    Tunnels <- TunnelOnly
    Needs <- OnBridge
    NoOne = NoOne
    MaxRuns = 2
    MaxFaults = 1
    MaxMeddles = 0
PROPERTIES
    CommandErrorKeepsConfig
CHECK_DEADLOCK FALSE
