CONSTANTS
    MaxProcs <- MCMaxProcs
    StackCount <- MCStackCount
    BlockSize <- MCBlockSize
    PoolStart <- MCPoolStart
    KillsDead = TRUE
SPECIFICATION Spec
INVARIANT StacksExclusive
