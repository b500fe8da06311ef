SPECIFICATION FairSpec
CONSTANTS
    Processes = {p1, p2, p3}
    Rules = {r1}
    RUNS_PER_HOUR = 2
    MaxHour = 1
    MaxSkips = 2
    Null = Null
INVARIANTS
    OverrunBounded
    SkipsCounted
PROPERTY
    SkipIsNoticed
CHECK_DEADLOCK FALSE
