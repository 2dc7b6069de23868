SPECIFICATION Spec
CONSTANTS
    Address = {0, 1, 2}
    DefaultAddress = 0
    MaxBalance = 10
    MinSelfStake = 2
    MinDelegation = 1
    MinActiveStake = 3
    MaxActive = 1
    MaxPower = 4
    Allocations <- Funded
    GenesisSet <- OneValidator
    Nonces = {0, 1, 2}
    Blocks <- SmallBlocks
    Transactions <- ComparedTransactions
    MaxFaults = 1
INVARIANTS SupplyConserved NothingMinted DelegationsBacked NoReplay OnlySenderPays
    BackendsAgree WritesImplement ExecutorsAgree
PROPERTIES SetFollowsStake
