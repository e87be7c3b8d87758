SPECIFICATION SerialSpec
CONSTANTS
    Gateway = {g1}
    Txn = {t1, t2, t3}
    Replica = {r1, r2}
    Observer = {}
    HalfOpenProbeCount = 1
    ProbeTimeout = 2
    Cooldown = 2
    Window = 2
    MinCallbackCount = 1
    ThresholdPct = 50
    CacheTTL = 2
    MaxClock = 3
SYMMETRY Symmetry
INVARIANT ProbeLimit
