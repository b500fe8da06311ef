SPECIFICATION TimeSpec
CONSTANTS
    Entries = {e1, e2}
    Forgotten = {e2}
    Invoices = {i1, i2}
    MaxListed = 2
    NoInvoice = NoInvoice
INVARIANTS
    UnsweptBilledOnce
    ChargedIsMarked
    PointsAtItsInvoice
PROPERTY
    ForgottenIsStopped
CHECK_DEADLOCK FALSE
