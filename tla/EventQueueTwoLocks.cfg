\* sysRoot is not /: gw and drosd lock different files.
SPECIFICATION Spec
CONSTANTS
    Keys = {k1, k2}
    Hooks = {h1}
    Daemons = {d1, d2}
    Appliers = {a1}
    NoOne = NoOne
    RealRoot = FALSE
    ProcessNow = FALSE
    MaxEvents = 2
    MaxApplies = 2
    MaxCrashes = 1
SYMMETRY Symmetry
INVARIANTS
    OnlyOneApplyPath
