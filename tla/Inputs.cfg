SPECIFICATION InputsSpec
CHECK_DEADLOCK FALSE
CONSTANTS
    Name = {a, b}
    NoName = NoName
    RawValue = {0, 7}
    NaN = NaN
    RawThreshold = {NaN, 0, 9000, 10000, 15000, 900000, 1500000}
    RawWeight = {0, 1, 3}
    MaxGateways = 2
    MaxCounter = 5
INVARIANT Usable
INVARIANT ReadersAgree
INVARIANT FairShares
INVARIANT DialectUnderstood
INVARIANT OneReading
