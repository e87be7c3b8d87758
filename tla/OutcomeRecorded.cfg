SPECIFICATION FaultFreeSpec
CONSTANTS
    Txn = {t1, t2}
    Order = {o1}
    Gateway = {g1}
    Delivery = {d1, d2}
    NoOrder = NoOrder
    Thresholds = {1, 2}
PROPERTY OutcomeRecorded
