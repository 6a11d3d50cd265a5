\* gw ovpn under the apply lock, and a request of the web API without it.
SPECIFICATION Spec
CONSTANTS
    Clients = {a}
    Cli = {c1}
    Web = {w1}
    MaxOps = 6
    MaxCerts = 3
    MaxCuts = 0
INVARIANT
    LoggedIsRevoked
CHECK_DEADLOCK FALSE
