SPECIFICATION Spec
CONSTANTS
    Gateway = {g1}
    Txn = {t1, t2}
    Replica = {r1}
    Observer = {}
    HalfOpenProbeCount = 1
    ProbeTimeout = 1
    Cooldown = 1
    Window = 2
    MinCallbackCount = 1
    ThresholdPct = 50
    CacheTTL = 1
    MaxClock = 3
SYMMETRY Symmetry
INVARIANT TypeOK
INVARIANT HealthInv
INVARIANT NoSlotLeak
INVARIANT BoundedStaleness
