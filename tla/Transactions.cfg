SPECIFICATION Spec
CHECK_DEADLOCK FALSE
CONSTANTS
    Txn = {t1, t2}
    Order = {o1, o2}
    Gateway = {g1, g2}
    Delivery = {d1, d2}
    NoOrder = NoOrder
    Thresholds = {1, 2}
SYMMETRY Symmetry
INVARIANT TypeOK
INVARIANT TransactionsInv
INVARIANT LedgerAgrees
INVARIANT AttemptsDistinct
INVARIANT BlacklistJustified
INVARIANT BlacklistHonoured
PROPERTY LedgerSpec
