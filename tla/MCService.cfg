SPECIFICATION Spec
CONSTANTS
    Requests = {r1, r2}
    Users = {ann}
    Configs <- MCConfigs
    SecretKeys = {"strong", "weak"}
    WeakKeys = {"weak"}
    Clients = {c1, c2}
    Engines = {e1, e2}
    TicksPerSecond = 2
    MaxClock = 3
    None = None
INVARIANTS
    TypeOK
    NothingOutOfReach
    LifespanReleases
    WeakKeysOnlyInDebug
PROPERTIES
    TokenLivesItsTime
    ShutdownEnds
