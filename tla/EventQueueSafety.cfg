\* Two drosd processes (an old one and its successor), gw commands, one kill.
SPECIFICATION Spec
CONSTANTS
    Keys = {k1, k2}
    Hooks = {h1}
    Daemons = {d1, d2}
    Appliers = {a1}
    NoOne = NoOne
    RealRoot = TRUE
    ProcessNow = FALSE
    MaxEvents = 4
    MaxApplies = 2
    MaxCrashes = 1
SYMMETRY Symmetry
INVARIANTS
    TypeOK
    NoLostEvent
    BatchIsPrefix
    OnlyOneApplyPath
    LastWord
PROPERTIES
    MailboxSpec
