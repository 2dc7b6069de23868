SPECIFICATION Spec
CONSTANTS
    Address = {0, 1, 2}
    DefaultAddress = 0
    MaxBalance = 6
    MinSelfStake = 2
    MinDelegation = 1
    MinActiveStake = 2
    MaxActive = 2
    MaxPower = 6
    Allocations <- Funded
    Blocks <- SomeBlocks
    MaxHeight = 2
    MaxFailures = 1
    Validators = {"v1", "v2"}
    MaxReported = 2
    Ids = {"block", "transaction"}
    Wants <- BlocksAndTransactions
    Transactions <- AllTransactions
    Submissions <- Submitted
INVARIANTS InSync IngestedInOrder IndexesAgree NoEventMissed AnnouncedServed
PROPERTIES HeightNeverFalls AllServed
CHECK_DEADLOCK FALSE
