SPECIFICATION Spec
CONSTANTS
    LastMonth = 3
    Null = Null
INVARIANTS
    NeverDraftedTwice
    OnlyMonthsItRan
PROPERTIES
    OwedIsDrafted
