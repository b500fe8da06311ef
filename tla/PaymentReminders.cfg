SPECIFICATION RemindersSpec
CONSTANTS
    Reminders = {t1, t2}
    Weekly = 3
    Before = 2
    After = 1
    LastDay = 5
    Never = Never
SYMMETRY MCSymmetry
INVARIANTS
    RemindersSpaced
PROPERTIES
    CadenceKept
