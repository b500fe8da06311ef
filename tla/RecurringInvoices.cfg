SPECIFICATION FairSpec
CONSTANTS
    Templates = {t1}
    Workers = {w1, w2}
    Calendar <- MCCalendar
    LastDay = 3
    Frequencies <- MCFrequencies
    Forms <- MCForms
    MaxActs = 1
    MaxFaults = 1
    Null = Null
INVARIANTS
    OncePerPeriod
    StartsFresh
PROPERTIES
    KeepsItsDay
    DueIsRaised
