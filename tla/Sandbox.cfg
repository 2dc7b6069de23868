SPECIFICATION Spec
CONSTANTS
    Address = {0, 1}
    DefaultAddress = 0
    MaxBalance = 4
    MinSelfStake = 2
    MinDelegation = 1
    MinActiveStake = 2
    MaxActive = 2
    MaxPower = 4
    Transactions <- Submitted
    Amounts = {2}
    MaxDrain = 2
    MaxHeight = 3
    MaxQueue = 3
INVARIANTS BlocksLinked NothingLost
