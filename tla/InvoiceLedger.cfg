SPECIFICATION Spec
CONSTANTS
    Pays = {p1, p2}
    Tasks = {t1}
    MaxTotal = 3
INVARIANTS
    BooksBalance
    PaidIffCovered
    TimeFollowsMoney
PROPERTIES
    PromiseKept
    OverdueIsNoticed
