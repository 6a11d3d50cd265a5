\* A daemon killed in mid-batch replays what it had handled.
SPECIFICATION Spec
CONSTANTS
    Keys = {k1, k2}
    Hooks = {h1}
    Daemons = {d1, d2}
    Appliers = {a1}
    NoOne = NoOne
    RealRoot = TRUE
    ProcessNow = FALSE
    MaxEvents = 2
    MaxApplies = 2
    MaxCrashes = 1
SYMMETRY Symmetry
INVARIANTS
    NoReplay
