SPECIFICATION Spec
CONSTANTS
    N = 3
    Power <- HeavyPower
    MaxHeight = 1
    Timestamps = {1, 2}
    Link <- FullMesh
    Rebroadcast = FALSE
    MaxLosses = 0
    MaxDown = 1
    Restartable = {1}
INVARIANTS StableAgreement QuorumBacked VoteOnce
CHECK_DEADLOCK FALSE
