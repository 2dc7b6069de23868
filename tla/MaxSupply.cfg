SPECIFICATION Spec
CONSTANTS
    MaxBalance = 2000000000
    Configs <- FastTest
    Misbehavior <- Kinds
    SlashBps <- Bps
    JailBlocks <- Blocks
    Validators = {"v1", "v2"}
    Registered <- TwoRecords
    MaxHeight = 12
    MaxSlashes = 1
INVARIANT BelowAsymptote
