\* Errors, kills, retries and an operator around gw delete --apply.
SPECIFICATION Spec
CONSTANTS
    gre = gre
    vlan = vlan
    bridge = bridge
    Selected <- Interfaces
    Tunnels <- TunnelOnly
    Needs <- OnBridge
    NoOne = NoOne
    MaxRuns = 2
    MaxFaults = 1
    MaxMeddles = 2
INVARIANTS
    TypeOK
    BatchCheckedFirst
    ConfigOutlivesRuntime
    OwnWorkNeverInTheWay
    DoneIsGone
PROPERTIES
    EditedFileKept
CHECK_DEADLOCK FALSE
