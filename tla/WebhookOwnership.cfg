SPECIFICATION FairSpec
CONSTANTS
    Users = {alice, bob}
    Attempts = {a1}
    MaxRequests = 3
    Null = Null
INVARIANTS
    NoLostWrite
PROPERTIES
    OnlyATakeOverTurnsOn
    UnfitGoesOff
CHECK_DEADLOCK FALSE
