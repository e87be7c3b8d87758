SPECIFICATION RoutingSpec
CHECK_DEADLOCK FALSE
CONSTANTS
    Gateway = {g1, g2}
    Txn = {t1, t2}
    Replica = {r1}
    Observer = {}
    HalfOpenProbeCount = 1
    ProbeTimeout = 1
    Cooldown = 1
    Window = 2
    MinCallbackCount = 1
    ThresholdPct = 50
    CacheTTL = 1
    MaxClock = 3
    RoutingTTL = 1
    Configs <- DisableOne
    Exclusions = {{}, {g1}}
SYMMETRY Symmetry
INVARIANT RoutingInv
INVARIANT LockDiscipline
PROPERTY EndToEndStaleness
PROPERTY DisabledDrains
PROPERTY NoneOverlooked
