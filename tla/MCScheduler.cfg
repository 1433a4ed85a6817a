CONSTANTS
    MaxProcs <- MCMaxProcs
    StackCount <- MCStackCount
    BlockSize <- MCBlockSize
    PoolStart <- MCPoolStart
    KillsDead = FALSE
SPECIFICATION FairSpec
INVARIANTS TypeOK RunningIsLive StacksExclusive PoolAccounted LiveHaveStacks
PROPERTIES RunsAgain ImplementsManager
