SPECIFICATION FairSpec
CONSTANTS
    N = 3
    Power <- HeavyProposer
    MaxHeight = 1
    Timestamps = {1}
    Link <- HubLinks
    Rebroadcast = TRUE
    MaxLosses = 1
    MaxDown = 1
    Restartable = {}
PROPERTY ProposalsFinalize
CHECK_DEADLOCK FALSE
