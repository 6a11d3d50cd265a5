\* Updates and retries after edits, failures and kills.
SPECIFICATION UpdateSpec
CONSTANTS
    Targets <- MCTargets
    MaxEdits = 1
    MaxRuns = 2
    MaxOther = 1
    eth1 = eth1
    vlan = vlan
    wg = wg
    ovpn = ovpn
    Interfaces <- Gateway
    Rank <- RankInGateway
    MaxSourceEdits = 2
    MaxUpdates = 2
    MaxFaults = 1
INVARIANTS
    UpdateTypeOK
    PluginServicesRunTheirFiles
    PluginAppliedIsOnDisk
    PluginRepeatChangesNothing
    PluginRebootChangesNothing
    InterfaceFragmentsInOrder
    InterfaceLinksFollowSource
PROPERTIES
    IndexesFresh
\* Bounded commands: the model stops when they are used up.
CHECK_DEADLOCK FALSE
