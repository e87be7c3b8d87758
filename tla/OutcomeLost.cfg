SPECIFICATION Spec
CHECK_DEADLOCK FALSE
CONSTANTS
    Txn = {t1}
    Order = {o1}
    Gateway = {g1}
    Delivery = {d1}
    NoOrder = NoOrder
    Thresholds = {1}
INVARIANT AcknowledgedCounted
