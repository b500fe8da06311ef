SPECIFICATION Spec
CONSTANTS
    Figures = {f1, f2}
    Tasks = {t1, t2}
    Null = Null
INVARIANTS
    MadeOnce
PROPERTIES
    PromiseKept
    ExpiredIsNoticed
\* A deleted quote has nothing left to do.
CHECK_DEADLOCK FALSE
