SPECIFICATION Spec
CONSTANTS
    m1 = m1  m2 = m2  m3 = m3  m4 = m4
    a = a  b = b  x = x  y = y
    Lanes = {l1}
    Messages = {m1, m2, m3, m4}
    Ids = {a, b}
    Bodies = {x, y}
    IdOf <- CopyIdOf
    BodyOf <- CopyBodyOf
    Kind <- CopyKind
    MonthOf <- LaterMonthOf
    LockKey <- MCLockKey
    MaxDeliver = 2
    PullBatch = 2
    Retention = 0
    MaxNow = 3
    MaxFaults = 1
INVARIANTS ReceiptsCoverLedger
PROPERTIES KeepsPromise
CHECK_DEADLOCK FALSE
SYMMETRY Copies
