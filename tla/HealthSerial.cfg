SPECIFICATION SerialSpec
CONSTANTS
    Gateway = {g1}
    Txn = {t1, t2, t3}
    Replica = {r1}
    Observer = {o1}
    HalfOpenProbeCount = 1
    ProbeTimeout = 1
    Cooldown = 1
    Window = 2
    MinCallbackCount = 1
    ThresholdPct = 50
    CacheTTL = 1
    MaxClock = 4
SYMMETRY Symmetry
INVARIANT ProbeLimit
PROPERTY HealthDiagram
PROPERTY ProbeDecides
PROPERTY CooldownRespected
INVARIANT ProbeLedger
