\* Each service with its failures, kills and events, the store and the order for
\* every small input.
SPECIFICATION ServicesSpec
CONSTANTS
    Configs <- MCConfigs
    Overlays <- MCOverlays
    Sources <- MCSources
    Families <- MCFamilies
    Ifup = {"wan"}
    Ppp = {"ppp"}
    Updaters = {"cron", "user"}
    Now = {"hook"}
    MaxVersion = 1
    MaxEvents = 3
    None = None
    DockerConfigs <- MCDockerConfigs
    DockerObjects <- MCObjects
    DockerAddresses <- MCAddresses
    MaxDockerEvents = 4
    Clients = {client}
    Cli = {c1, c2}
    Web = {}
    MaxOps = 7
    MaxCerts = 3
    MaxCuts = 2
    StoreDocs <- MCDocs
    StoreAlias <- MCAlias
    StoreGroup <- MCGroup
    Error = Error
    NumDirs = 3
    MaxDocs = 3
    eth1 = eth1
    eth2 = eth2
    eth3 = eth3
INVARIANTS
    ServicesTypeOK
    RoutesAreCurrent
    RoutesListsAreWhole
    ValidConfigsRender
    DockerContainersRunTheirFiles
    DockerRecordsFollowContainers
    DockerRepeatIsQuiet
    PkiRevokedStaysRevoked
    PkiSerialsUnique
    PkiLatestIsUsed
    StoreLastEnabledWins
PROPERTIES
    OrderIsSorted
\* Bounded events and commands: the model stops when they are used up.
CHECK_DEADLOCK FALSE
