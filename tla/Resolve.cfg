SPECIFICATION ResolveSpec
CONSTANTS
    none = none
    Host <- MCHost
    Static <- MCStatic
    Fixed <- MCFixed
    Results <- MCResults
    NoResult = none
    Hash <- MCHash
    Vnodes <- MCVnodes
    Ranks <- MCRanks
    MaxChanges = 2
    MaxLost = 1
    MaxHeld = 1
INVARIANTS Addresses OneQuery FindsUp
PROPERTY Follows
