CONSTANTS
    a1 = a1
    a2 = a2
    a3 = a3
    NoAddress = NoAddress
    Address <- MCAddress
    Weight <- MCWeight
    Capacity <- MCCapacity
SPECIFICATION FairSpec
INVARIANTS
    Table
    SearchSucceeds
PROPERTIES
    KeepsPromise
    PickReturns
CHECK_DEADLOCK TRUE
