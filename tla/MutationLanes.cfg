SPECIFICATION FairSpec
CONSTANTS
    m1 = m1  m2 = m2  m3 = m3  m4 = m4
    a = a  b = b  x = x  y = y
    Lanes = {l1, l2}
    Messages = {m1, m2}
    Ids = {a, b}
    Bodies = {x, y}
    IdOf <- PairIdOf
    BodyOf <- PairBodyOf
    Kind <- PairKind
    MonthOf <- EarlyMonthOf
    LockKey <- MCLockKey
    MaxDeliver = 2
    PullBatch = 2
    Retention = 1
    MaxNow = 1
    MaxFaults = 1
INVARIANTS TypeOK ReceiptsCoverLedger AckedIsAnswered
PROPERTIES LanesComeBack
CHECK_DEADLOCK FALSE
