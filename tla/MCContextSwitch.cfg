CONSTANTS
    MaxProcs <- MCMaxProcs
    StackCount <- MCStackCount
    BlockSize <- MCBlockSize
    PoolStart <- MCPoolStart
    KillsDead = FALSE
    MaxLocals <- MCMaxLocals
    Values <- MCValues
    WriteArgs <- MCOneWrite
    Handlers <- MCHandlers
    OldTable <- MCOldTable
    LoaderGDT <- MCLoaderGDT
SPECIFICATION CSSpec
INVARIANTS CSTypeOK ReturnsToCaller StackBalanced SuspendedIntact GatesAsRegistered
PROPERTIES ResumesExactly
