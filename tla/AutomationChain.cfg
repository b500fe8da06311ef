SPECIFICATION ChainSpec
CONSTANTS
    open = open
    won = won
    deal = deal
    account = account
    task = task
    Workers = {p1, p2}
    Records <- MCRecords
    Values <- MCValues
    Parent <- MCParent
    RuleLists <- MCRuleLists
    MAX_DEPTH = 3
    MaxSaves = 2
    Absent = Absent
SYMMETRY MCSymmetry
INVARIANTS
    OncePerChain
    CauseIsTrue
    OneNetChange
