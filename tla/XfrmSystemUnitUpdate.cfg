\* gw update of a system-activated transport starts a unit that wants its lock.
SPECIFICATION Spec
CONSTANTS
    MaxEdits = 0
    MaxUpdates = 1
    MaxBoots = 0
    MaxEvents = 0
    MaxFaults = 0
INVARIANTS
    UpdateSucceeds
CHECK_DEADLOCK FALSE
