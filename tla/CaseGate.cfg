SPECIFICATION Spec
CONSTANTS
    Agents = {a1, a2}
    Requests = {r1, r2}
    Editors = {e1}
    Replies = {x1}
    Scans = {s1, s2}
    ESCALATION_COUNT_CAP = 2
    Null = Null
SYMMETRY MCSymmetry
INVARIANTS
    ClosedWasApproved
    DuplicateIffMerged
    EscalationsCapped
