\* Links, events, kills, failing commands and gw start / stop in any order; or
\* updates after edits of the YAML, reboots and failing systemctl commands.
\* No symmetry: there are liveness properties.
SPECIFICATION XfrmSpec
CONSTANTS
    Ifaces = {i1, i2, i3}
    Disabled = {i3}
    MaxIfOps = 3
    MaxManual = 1
    MaxFaults = 1
    MaxCrashes = 1
    MaxEdits = 2
    MaxUpdates = 3
    MaxBoots = 1
    MaxEvents = 1
INVARIANTS
    XfrmTypeOK
    HookPolicyHasState
    HookSettledIsConsistent
    UnitDisabledIsClean
PROPERTIES
    HookUpIsProtected
    UnitUpdateEnds
CHECK_DEADLOCK FALSE
