SPECIFICATION FairSpec
CONSTANTS
    Deliveries = {1, 2}
    Earlier = {1}
    Endpoints = {e1}
    EndpointOf <- MCOneEndpoint
    Workers = {w1, w2}
    Backoff <- MCBackoff
    Lease = 2
    MaxAge = 1
    MaxFaults = 2
    MaxQueued = 1
    SweepLimit = 1
    Null = Null
INVARIANTS
    OneSender
    RepeatsArePaidFor
    AttemptsWereTried
PROPERTIES
    KeepsPromise
    EventuallySettles
