SPECIFICATION LimitSpec
CONSTANTS
    Key <- MCKey
    Bucket <- MCBucket
    Text <- MCText
    Inside = {6}
    Nodes = 3
    Rate = 1
    Burst = 2
INVARIANT OwnMeter
