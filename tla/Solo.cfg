SPECIFICATION DemoSpec
CONSTANTS
    Address = {0, 1, 2, 3, 4}
    DefaultAddress = 0
    Faucet = 2
    MaxBalance = 8
    MinSelfStake = 2
    MinDelegation = 1
    MinActiveStake = 2
    MaxActive = 2
    MaxPower = 6
    Allocations <- Funded
    Requests <- Payments
    GrpcRequests <- GrpcPayment
    Drips <- OneDrip
    Payer = 3
    Merchant = 4
    FaucetAmount = 3
    PaymentAmount = 1
    TxFee = 1
    MaxPending = 4
    MaxHeight = 4
    MaxBlockTxs = 2
INVARIANTS MirrorMatches SettledPaid
PROPERTIES AcceptedSucceeds AcceptedExecuted
CHECK_DEADLOCK FALSE
