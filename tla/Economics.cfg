SPECIFICATION Spec
CONSTANTS
    MaxBalance = 200
    Configs <- Schedules
    Misbehavior <- Kinds
    SlashBps <- Bps
    JailBlocks <- Blocks
    Validators = {"v1", "v2", "v3"}
    Registered <- TwoRecords
    MaxHeight = 5
    MaxSlashes = 2
INVARIANTS IssuanceAgrees PaidFromIssuance SlashesAccounted ReleaseExact
