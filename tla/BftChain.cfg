SPECIFICATION Spec
CONSTANTS
    N = 3
    Power <- HeavyProposer
    MaxHeight = 2
    Timestamps = {1}
    Link <- HubLinks
    Rebroadcast = FALSE
    MaxLosses = 1
    MaxDown = 1
    Restartable = {}
INVARIANTS TypeOK ChainLinked LatestReported
PROPERTY RefinesFinality
CHECK_DEADLOCK FALSE
