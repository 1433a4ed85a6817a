CONSTANTS
    MaxProcs <- MCMaxProcs
    StackCount <- MCStackCount
    BlockSize <- MCBlockSize
    PoolStart <- MCPoolStart
    KillsDead = FALSE
    MaxLocals <- MCMaxLocals
    Values <- MCValues
    WriteArgs <- MCWrites
    Handlers <- MCHandlers
    OldTable <- MCOldTable
    LoaderGDT <- MCLoaderGDT
SPECIFICATION CSSpec
INVARIANT LinuxWriteResult
