\* Every event is handled in the end, also with hooks that process at once.
\* No symmetry: one property is a liveness property.
SPECIFICATION FairSpec
CONSTANTS
    Keys = {k1, k2}
    Hooks = {h1}
    Daemons = {d1, d2}
    Appliers = {a1}
    NoOne = NoOne
    RealRoot = TRUE
    ProcessNow = TRUE
    MaxEvents = 3
    MaxApplies = 2
    MaxCrashes = 1
INVARIANTS
    QueueInv
PROPERTIES
    EventuallyHandled
